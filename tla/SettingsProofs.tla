---------------------------- MODULE SettingsProofs ----------------------------
(***************************************************************************)
(* What ConfigFiles and ClientAddress compute, for every directory, list of *)
(* ranges and address.  The induction is over a set of natural numbers.     *)
(***************************************************************************)
EXTENDS MCServer, WellFoundedInduction, SequenceTheorems, TLAPS

\* A set with 0 and the successor of each of its members has every natural number.
LEMMA Induction ==
  ASSUME NEW S, 0 \in S, \A n \in Nat : n \in S => n + 1 \in S
  PROVE  Nat \subseteq S
<1> SUFFICES ASSUME Nat \ S # {} PROVE FALSE
  OBVIOUS
<1> DEFINE less == {p \in Nat \X Nat : p[1] < p[2]}
<1>1. IsWellFoundedOn(less, Nat)
  BY NatLessThanWellFounded, Zenon DEF OpToRel
<1> HIDE DEF less
<1>2. PICK x \in Nat \ S : \A y \in Nat \ S : ~ (<<y, x>> \in less)
  BY <1>1, WFMin
<1>3. x - 1 \in Nat /\ x = (x - 1) + 1
  BY SMT
<1>4. <<x - 1, x>> \in less
  BY <1>3 DEF less
<1> QED
  BY <1>2, <1>3, <1>4

\* f holds the values of a loop in V that starts with base and takes n steps.
IsRun(f, n, V, base, step) ==
  /\ f \in [0 .. n -> V]
  /\ f[0] = base
  /\ \A i \in 1 .. n : f[i] = step[<<i, f[i - 1]>>]

\* A loop that goes from each value to the next one computes something.
LEMMA LoopRuns ==
  ASSUME NEW V, NEW base \in V, NEW N \in Nat, NEW step \in [(1 .. N) \X V -> V]
  PROVE  \E f : IsRun(f, N, V, base, step)
<1> DEFINE Runs(f, n) == IsRun(f, n, V, base, step)
<1> USE DEF IsRun
<1> DEFINE S == {n \in Nat : n <= N => \E f : Runs(f, n)}
<1>1. 0 \in S
  <2>1. Runs([i \in 0 .. 0 |-> base], 0)
    OBVIOUS
  <2> QED
    BY <2>1
<1>2. ASSUME NEW n \in Nat, n \in S PROVE n + 1 \in S
  <2> SUFFICES ASSUME n + 1 <= N PROVE \E f : Runs(f, n + 1)
    OBVIOUS
  <2>1. PICK f : Runs(f, n)
    BY <1>2
  <2> DEFINE g == [i \in 0 .. n + 1 |-> IF i = n + 1 THEN step[<<n + 1, f[n]>>] ELSE f[i]]
  <2>2. f[n] \in V /\ step[<<n + 1, f[n]>>] \in V
    <3>1. f[n] \in V
      BY <2>1
    <3>2. <<n + 1, f[n]>> \in (1 .. N) \X V
      BY <3>1
    <3> QED
      BY <3>1, <3>2
  <2>3. g \in [0 .. n + 1 -> V] /\ g[0] = base
    BY <2>1, <2>2
  <2>4. ASSUME NEW i \in 1 .. n + 1 PROVE g[i] = step[<<i, g[i - 1]>>]
    <3>1. CASE i = n + 1
      <4>1. g[i] = step[<<n + 1, f[n]>>] /\ g[i - 1] = f[n]
        BY <3>1
      <4> QED
        BY <3>1, <4>1
    <3>2. CASE i # n + 1
      <4>1. i \in 1 .. n /\ g[i] = f[i] /\ g[i - 1] = f[i - 1]
        BY <3>2
      <4> QED
        BY <4>1, <2>1
    <3> QED
      BY <3>1, <3>2
  <2>5. Runs(g, n + 1)
    BY <2>3, <2>4
  <2> QED
    BY <2>5
<1>3. N \in S
  <2> HIDE DEF S
  <2> QED
    BY <1>1, <1>2, Induction
<1> QED
  BY <1>3

\* Two functions that agree on 0 and are carried on alike agree on N.
LEMMA LoopIsDetermined ==
  ASSUME NEW N \in Nat, NEW f, NEW g, f[0] = g[0],
         \A i \in 1 .. N : f[i - 1] = g[i - 1] => f[i] = g[i]
  PROVE  f[N] = g[N]
<1> DEFINE S == {n \in Nat : n <= N => f[n] = g[n]}
<1>1. 0 \in S
  OBVIOUS
<1>2. ASSUME NEW n \in Nat, n \in S PROVE n + 1 \in S
  <2> SUFFICES ASSUME n + 1 <= N PROVE f[n + 1] = g[n + 1]
    OBVIOUS
  <2>1. n + 1 \in 1 .. N /\ (n + 1) - 1 = n /\ f[n] = g[n]
    BY <1>2
  <2> QED
    BY <2>1
<1>3. Nat \subseteq S
  <2> HIDE DEF S
  <2> QED
    BY <1>1, <1>2, Induction
<1> QED
  BY <1>3

-----------------------------------------------------------------------------
(* Configuration files                                                     *)

\* Contents whose sections are in Sec and hold values in Val, and files with them.
Contents(Sec, Val) == UNION {[D -> Val] : D \in SUBSET Sec}
Files(Sec, Val) == [yml : BOOLEAN, content : Contents(Sec, Val)]

LEMMA MergeType ==
  ASSUME NEW Sec, NEW Val, NEW c \in Contents(Sec, Val), NEW d \in Contents(Sec, Val)
  PROVE  Merge(c, d) \in Contents(Sec, Val)
<1>1. DOMAIN c \in SUBSET Sec /\ DOMAIN d \in SUBSET Sec
      /\ c \in [DOMAIN c -> Val] /\ d \in [DOMAIN d -> Val]
  BY DEF Contents
<1>2. Merge(c, d) \in [DOMAIN c \cup DOMAIN d -> Val]
  BY <1>1 DEF Merge
<1> QED
  BY <1>1, <1>2 DEF Contents

LEMMA NoContent == ASSUME NEW Sec, NEW Val
                   PROVE  <<>> \in Contents(Sec, Val) /\ DOMAIN <<>> = {}
<1>1. <<>> \in [{} -> Val]
  OBVIOUS
<1> QED
  BY <1>1 DEF Contents

\* What loadConfigFiles returns is the last value of its loop.
LEMMA LoadLoop ==
  ASSUME NEW Sec, NEW Val, NEW files \in Seq(Files(Sec, Val))
  PROVE  \E f \in [0 .. Len(files) -> Contents(Sec, Val)] :
           /\ f[0] = <<>>
           /\ \A i \in 1 .. Len(files) : f[i] = Merge(f[i - 1], files[i].content)
           /\ LoadConfigFiles(files) = f[Len(files)]
<1> DEFINE V == Contents(Sec, Val)
           N == Len(files)
           step == [p \in (1 .. N) \X V |-> Merge(p[2], files[p[1]].content)]
<1>0. <<>> \in V
  BY NoContent
<1>1. N \in Nat /\ \A i \in 1 .. N : files[i].content \in V
  <2>1. N \in Nat /\ \A i \in 1 .. N : files[i] \in Files(Sec, Val)
    BY LenProperties, ElementOfSeq
  <2> QED
    BY <2>1 DEF Files
<1>2. step \in [(1 .. N) \X V -> V]
  BY <1>1, MergeType
<1>3. PICK f \in [0 .. N -> V] :
        f[0] = <<>> /\ \A i \in 1 .. N : f[i] = step[<<i, f[i - 1]>>]
  <2> HIDE DEF step, V, N
  <2>1. \E f : IsRun(f, N, V, <<>>, step)
    BY <1>0, <1>1, <1>2, LoopRuns
  <2> QED
    BY <2>1 DEF IsRun
<1>4. \A i \in 1 .. N : f[i] = Merge(f[i - 1], files[i].content)
  <2> TAKE i \in 1 .. N
  <2>1. f[i - 1] \in V /\ <<i, f[i - 1]>> \in (1 .. N) \X V
    BY <1>1
  <2> QED
    BY <1>3, <2>1
<1> DEFINE Loop(g) == g = [n \in 0 .. N |->
                 IF n = 0 THEN <<>> ELSE Merge(g[n - 1], files[n].content)]
           h == CHOOSE g : Loop(g)
<1>5. Loop(f)
  BY <1>1, <1>3, <1>4
<1>6. Loop(h)
  BY <1>5
<1>7. h[0] = <<>> /\ \A i \in 1 .. N : h[i] = Merge(h[i - 1], files[i].content)
  <2> HIDE DEF h
  <2> QED
    BY <1>1, <1>6
<1>8. f[N] = h[N]
  <2> HIDE DEF h, N, V, step
  <2>1. \A i \in 1 .. N : f[i - 1] = h[i - 1] => f[i] = h[i]
    BY <1>4, <1>7
  <2>2. f[0] = h[0]
    BY <1>3, <1>7
  <2> QED
    BY <1>1, <2>1, <2>2, LoopIsDetermined
<1>9. LoadConfigFiles(files) = h[N]
  BY DEF LoadConfigFiles
<1> QED
  BY <1>1, <1>3, <1>4, <1>8, <1>9

LEMMA LoadNothing ==
  ASSUME NEW Sec, NEW Val
  PROVE  LoadConfigFiles(<<>>) = <<>>
<1>1. ASSUME NEW files \in Seq(Files(Sec, Val)), Len(files) = 0
      PROVE  LoadConfigFiles(files) = <<>>
  <2>1. PICK f \in [0 .. Len(files) -> Contents(Sec, Val)] :
          /\ f[0] = <<>>
          /\ \A i \in 1 .. Len(files) : f[i] = Merge(f[i - 1], files[i].content)
          /\ LoadConfigFiles(files) = f[Len(files)]
    BY LoadLoop
  <2> QED
    BY <1>1, <2>1
<1>2. <<>> \in Seq(Files(Sec, Val)) /\ Len(<<>>) = 0
  OBVIOUS
<1> QED
  BY <1>1, <1>2

\* One more file is merged into what the others give.
LEMMA LoadOneMore ==
  ASSUME NEW Sec, NEW Val, NEW files \in Seq(Files(Sec, Val)), NEW file \in Files(Sec, Val)
  PROVE  /\ LoadConfigFiles(files) \in Contents(Sec, Val)
         /\ LoadConfigFiles(Append(files, file)) = Merge(LoadConfigFiles(files), file.content)
<1> DEFINE N == Len(files)
           more == Append(files, file)
<1>1. /\ N \in Nat /\ Len(more) = N + 1 /\ more \in Seq(Files(Sec, Val))
      /\ more[N + 1] = file /\ \A i \in 1 .. N : more[i] = files[i]
  BY AppendProperties, LenProperties
<1>2. PICK f \in [0 .. N -> Contents(Sec, Val)] :
        /\ f[0] = <<>>
        /\ \A i \in 1 .. N : f[i] = Merge(f[i - 1], files[i].content)
        /\ LoadConfigFiles(files) = f[N]
  BY LoadLoop
<1>3. PICK g \in [0 .. Len(more) -> Contents(Sec, Val)] :
        /\ g[0] = <<>>
        /\ \A i \in 1 .. Len(more) : g[i] = Merge(g[i - 1], more[i].content)
        /\ LoadConfigFiles(more) = g[Len(more)]
  BY <1>1, LoadLoop
<1> HIDE DEF more, N
<1>4. \A i \in 1 .. N : f[i - 1] = g[i - 1] => f[i] = g[i]
  BY <1>1, <1>2, <1>3
<1>5. f[N] = g[N]
  <2>1. N \in Nat
    BY <1>1
  <2>2. f[0] = g[0]
    BY <1>2, <1>3
  <2> QED
    BY <1>4, <2>1, <2>2, LoopIsDetermined
<1>6. g[N + 1] = Merge(g[N], file.content)
  <2>1. N + 1 \in 1 .. Len(more) /\ (N + 1) - 1 = N
    BY <1>1
  <2> QED
    BY <2>1, <1>1, <1>3
<1> QED
  BY <1>1, <1>2, <1>3, <1>5, <1>6 DEF more

\* What getYamlFiles lists is the last value of its loop.
LEMMA YamlLoop ==
  ASSUME NEW Sec, NEW Val, NEW directory \in Seq(Files(Sec, Val))
  PROVE  \E f \in [0 .. Len(directory) -> Seq(Files(Sec, Val))] :
           /\ f[0] = <<>>
           /\ \A i \in 1 .. Len(directory) :
                f[i] = IF directory[i].yml THEN Append(f[i - 1], directory[i]) ELSE f[i - 1]
           /\ YamlFiles(directory) = f[Len(directory)]
<1> DEFINE V == Seq(Files(Sec, Val))
           N == Len(directory)
           Next1(i, list) == IF directory[i].yml THEN Append(list, directory[i]) ELSE list
           step == [p \in (1 .. N) \X V |-> Next1(p[1], p[2])]
<1>0. <<>> \in V
  OBVIOUS
<1>1. N \in Nat /\ \A i \in 1 .. N : directory[i] \in Files(Sec, Val)
  BY LenProperties, ElementOfSeq
<1>2. step \in [(1 .. N) \X V -> V]
  <2>1. \A i \in 1 .. N, list \in V : Next1(i, list) \in V
    BY <1>1, AppendProperties
  <2> HIDE DEF Next1, V
  <2> QED
    BY <2>1
<1>3. PICK f \in [0 .. N -> V] :
        f[0] = <<>> /\ \A i \in 1 .. N : f[i] = step[<<i, f[i - 1]>>]
  <2> HIDE DEF step, V, N
  <2>1. \E f : IsRun(f, N, V, <<>>, step)
    BY <1>0, <1>1, <1>2, LoopRuns
  <2> QED
    BY <2>1 DEF IsRun
<1>4. \A i \in 1 .. N : f[i] = Next1(i, f[i - 1])
  <2> TAKE i \in 1 .. N
  <2> HIDE DEF Next1, V, N
  <2>1. f[i - 1] \in V /\ <<i, f[i - 1]>> \in (1 .. N) \X V
    BY <1>1
  <2> QED
    BY <1>3, <2>1
<1> DEFINE Loop(g) == g = [n \in 0 .. N |-> IF n = 0 THEN <<>> ELSE Next1(n, g[n - 1])]
           h == CHOOSE g : Loop(g)
<1>5. Loop(f)
  <2> HIDE DEF V, N, step, Next1
  <2> QED
    BY <1>1, <1>3, <1>4
<1>6. Loop(h)
  BY <1>5
<1>7. h[0] = <<>> /\ \A i \in 1 .. N : h[i] = Next1(i, h[i - 1])
  <2> HIDE DEF h, V, N, step, Next1
  <2> QED
    BY <1>1, <1>6
<1>8. f[N] = h[N]
  <2> HIDE DEF h, N, V, step, Next1
  <2>1. \A i \in 1 .. N : f[i - 1] = h[i - 1] => f[i] = h[i]
    BY <1>4, <1>7
  <2>2. f[0] = h[0]
    BY <1>3, <1>7
  <2> QED
    BY <1>1, <2>1, <2>2, LoopIsDetermined
<1>9. YamlFiles(directory) = h[N]
  BY DEF YamlFiles
<1>10. \A i \in 1 .. N :
         f[i] = IF directory[i].yml THEN Append(f[i - 1], directory[i]) ELSE f[i - 1]
  BY <1>4
<1> HIDE DEF h, step, Next1
<1> QED
  BY <1>3, <1>8, <1>9, <1>10

\* Among the first n files, i is the last .yml file that has the section.
IsLast(directory, n, section, i) ==
  /\ i \in 1 .. n /\ directory[i].yml /\ section \in DOMAIN directory[i].content
  /\ \A j \in 1 .. n :
       directory[j].yml /\ section \in DOMAIN directory[j].content => j <= i

\* c has the sections of the first n files, each as the last one has it.
IsLoaded(c, directory, n) ==
  /\ \A s \in DOMAIN c :
       \E i : IsLast(directory, n, s, i) /\ c[s] = directory[i].content[s]
  /\ \A j \in 1 .. n :
       directory[j].yml => DOMAIN directory[j].content \subseteq DOMAIN c

LEMMA LoadedNext ==
  ASSUME NEW Sec, NEW Val, NEW directory \in Seq(Files(Sec, Val)), NEW n \in Nat,
         n + 1 \in 1 .. Len(directory), NEW c \in Contents(Sec, Val),
         IsLoaded(c, directory, n),
         NEW d, d = IF directory[n + 1].yml THEN Merge(c, directory[n + 1].content) ELSE c
  PROVE  IsLoaded(d, directory, n + 1)
<1>1. directory[n + 1] \in Files(Sec, Val)
  BY ElementOfSeq
<1>2. directory[n + 1].content \in Contents(Sec, Val) /\ directory[n + 1].yml \in BOOLEAN
  BY <1>1 DEF Files
<1>3. ASSUME NEW i, NEW s, IsLast(directory, n, s, i),
             ~ (directory[n + 1].yml /\ s \in DOMAIN directory[n + 1].content)
      PROVE  IsLast(directory, n + 1, s, i)
  BY <1>3 DEF IsLast
<1>4. CASE directory[n + 1].yml
  <2> DEFINE new == directory[n + 1].content
  <2>1. /\ DOMAIN d = DOMAIN c \cup DOMAIN new
        /\ \A s \in DOMAIN new : d[s] = new[s]
        /\ \A s \in DOMAIN c \ DOMAIN new : d[s] = c[s]
    <3>1. d = Merge(c, new)
      BY <1>4
    <3> HIDE DEF new
    <3> QED
      BY <3>1 DEF Merge
  <2>2. ASSUME NEW s \in DOMAIN new PROVE IsLast(directory, n + 1, s, n + 1)
    BY <1>4 DEF IsLast
  <2>3. ASSUME NEW s \in DOMAIN d
        PROVE  \E i : IsLast(directory, n + 1, s, i) /\ d[s] = directory[i].content[s]
    <3>1. CASE s \in DOMAIN new
      BY <3>1, <2>1, <2>2
    <3>2. CASE s \notin DOMAIN new
      <4>1. s \in DOMAIN c /\ d[s] = c[s]
        BY <2>1, <2>3, <3>2
      <4>2. PICK i : IsLast(directory, n, s, i) /\ c[s] = directory[i].content[s]
        BY <4>1 DEF IsLoaded
      <4> QED
        BY <1>3, <3>2, <4>1, <4>2
    <3> QED
      BY <3>1, <3>2
  <2>4. ASSUME NEW j \in 1 .. n + 1, directory[j].yml
        PROVE  DOMAIN directory[j].content \subseteq DOMAIN d
    <3>1. CASE j = n + 1
      BY <3>1, <2>1
    <3>2. CASE j # n + 1
      BY <3>2, <2>1, <2>4 DEF IsLoaded
    <3> QED
      BY <3>1, <3>2
  <2> QED
    BY <2>3, <2>4 DEF IsLoaded
<1>5. CASE ~ directory[n + 1].yml
  <2>1. d = c
    BY <1>5
  <2>2. ASSUME NEW s \in DOMAIN d
        PROVE  \E i : IsLast(directory, n + 1, s, i) /\ d[s] = directory[i].content[s]
    <3>1. PICK i : IsLast(directory, n, s, i) /\ c[s] = directory[i].content[s]
      BY <2>1 DEF IsLoaded
    <3> QED
      BY <1>3, <1>5, <2>1, <3>1
  <2>3. ASSUME NEW j \in 1 .. n + 1, directory[j].yml
        PROVE  DOMAIN directory[j].content \subseteq DOMAIN d
    <3>1. j # n + 1
      BY <1>5, <2>3
    <3> QED
      BY <3>1, <2>1, <2>3 DEF IsLoaded
  <2> QED
    BY <2>2, <2>3 DEF IsLoaded
<1> QED
  BY <1>2, <1>4, <1>5

LEMMA DirectoryIsLoaded ==
  ASSUME NEW Sec, NEW Val, NEW directory \in Seq(Files(Sec, Val))
  PROVE  IsLoaded(LoadConfigFiles(YamlFiles(directory)), directory, Len(directory))
<1> DEFINE N == Len(directory)
<1>1. N \in Nat /\ \A i \in 1 .. N : directory[i] \in Files(Sec, Val)
  BY LenProperties, ElementOfSeq
<1>2. PICK f \in [0 .. N -> Seq(Files(Sec, Val))] :
        /\ f[0] = <<>>
        /\ \A i \in 1 .. N :
             f[i] = IF directory[i].yml THEN Append(f[i - 1], directory[i]) ELSE f[i - 1]
        /\ YamlFiles(directory) = f[N]
  BY YamlLoop
<1> HIDE DEF N
<1> DEFINE S == {n \in Nat : n <= N => IsLoaded(LoadConfigFiles(f[n]), directory, n)}
<1>3. 0 \in S
  <2>1. LoadConfigFiles(f[0]) = <<>> /\ DOMAIN <<>> = {}
    BY <1>2, LoadNothing, NoContent
  <2> QED
    BY <2>1 DEF IsLoaded
<1>4. ASSUME NEW n \in Nat, n \in S PROVE n + 1 \in S
  <2> SUFFICES ASSUME n + 1 <= N
               PROVE  IsLoaded(LoadConfigFiles(f[n + 1]), directory, n + 1)
    OBVIOUS
  <2> DEFINE c == LoadConfigFiles(f[n])
             d == LoadConfigFiles(f[n + 1])
  <2>1. n + 1 \in 1 .. N /\ (n + 1) - 1 = n /\ IsLoaded(c, directory, n)
    BY <1>1, <1>4
  <2>2. f[n] \in Seq(Files(Sec, Val)) /\ directory[n + 1] \in Files(Sec, Val)
    BY <1>1, <1>2, <2>1
  <2>3. f[n + 1] = IF directory[n + 1].yml THEN Append(f[n], directory[n + 1]) ELSE f[n]
    BY <1>2, <2>1
  <2>4. /\ c \in Contents(Sec, Val)
        /\ LoadConfigFiles(Append(f[n], directory[n + 1])) = Merge(c, directory[n + 1].content)
    BY <2>2, LoadOneMore
  <2>5. d = IF directory[n + 1].yml THEN Merge(c, directory[n + 1].content) ELSE c
    BY <2>3, <2>4
  <2> HIDE DEF c, d
  <2>6. IsLoaded(d, directory, n + 1)
    BY <2>1, <2>4, <2>5, LoadedNext DEF N
  <2> QED
    BY <2>6 DEF d
<1>5. N \in S
  <2> HIDE DEF S
  <2> QED
    BY <1>1, <1>3, <1>4, Induction
<1> QED
  BY <1>1, <1>2, <1>5 DEF N

\* Every setting is what the last .yml file with its section says, whatever the
\* directory holds: any number of files, any sections, any values (config.utils.ts,
\* loadConfigFiles and getYamlFiles; config.service.ts, get).
THEOREM LastSectionAlwaysCounts ==
  ASSUME NEW Sec, NEW Val, NEW directory \in Seq(Files(Sec, Val)), NEW section, NEW key
  PROVE  LastSectionCounts(directory, section, key)
<1> DEFINE c == LoadConfigFiles(YamlFiles(directory))
           N == Len(directory)
           having == {i \in DOMAIN directory :
                        directory[i].yml /\ section \in DOMAIN directory[i].content}
           k == CHOOSE i \in having : \A j \in having : j <= i
           last == directory[k].content
<1>1. N \in Nat /\ DOMAIN directory = 1 .. N
  BY LenProperties
<1>2. IsLoaded(c, directory, N)
  BY DirectoryIsLoaded
<1>3. ASSUME section \in DOMAIN c PROVE having # {} /\ c[section] = last[section]
  <2>1. PICK i : IsLast(directory, N, section, i) /\ c[section] = directory[i].content[section]
    BY <1>2, <1>3 DEF IsLoaded
  <2>2. i \in having /\ \A j \in having : j <= i
    BY <1>1, <2>1 DEF IsLast
  <2>3. k \in having /\ \A j \in having : j <= k
    BY <2>2
  <2>4. k = i
    BY <1>1, <2>2, <2>3
  <2> QED
    BY <2>1, <2>2, <2>4
<1>4. ASSUME having # {} PROVE section \in DOMAIN c
  BY <1>1, <1>2, <1>4 DEF IsLoaded
<1>5. Get(c, section, key) = IF having # {} /\ key \in DOMAIN last[section]
                             THEN last[section][key] ELSE Undefined
  <2> HIDE DEF c, having, last
  <2> QED
    BY <1>3, <1>4 DEF Get
<1> QED
  BY <1>5 DEF LastSectionCounts

\* The property the run of the server checks follows for its directories
\* (config.utils.ts, loadConfigFiles).
THEOREM SettingsOfLastFile == Spec => []LastFileOfSectionCounts
<1>1. ASSUME NEW directory \in Directories, NEW section \in Section, NEW key \in Key
      PROVE  LastSectionCounts(directory, section, key)
  <2> DEFINE Val == UNION {[E -> {1, 2}] : E \in SUBSET Key}
  <2>1. [yml : BOOLEAN, content : Content] = Files(Section, Val)
    BY DEF Content, Files, Contents
  <2>2. directory \in Seq(Files(Section, Val))
    <3>1. PICK m \in 0 .. 2 : directory \in [1 .. m -> Files(Section, Val)]
      BY <1>1, <2>1 DEF Directories, SeqOf
    <3> HIDE DEF Val
    <3> QED
      BY <3>1, SeqDef
  <2> HIDE DEF Val
  <2> QED
    BY <2>2, LastSectionAlwaysCounts
<1>2. LastFileOfSectionCounts
  BY <1>1 DEF LastFileOfSectionCounts
<1> QED
  BY <1>2, PTL

-----------------------------------------------------------------------------
(* Addresses                                                               *)

\* Of a text and a port only the port goes.
LEMMA PortIsStripped ==
  ASSUME NEW S, NEW text \in Seq(S), Len(text) > 0
  PROVE  StripPort(Append(text, Digits)) = text
<1> DEFINE P == S \cup {Digits}
           long == Append(text, Digits)
<1>1. text \in Seq(P) /\ Digits \in P /\ <<Digits>> \in Seq(P)
  BY SeqMonotonic
<1>2. Len(long) = Len(text) + 1 /\ long[Len(text) + 1] = Digits /\ Len(text) \in Nat
  BY <1>1, AppendProperties, LenProperties
<1>3. long = text \o <<Digits>>
  BY <1>1, AppendIsConcat
<1>4. SubSeq(long, 1, Len(text)) = SubSeq(text, 1, Len(text))
  <2>1. 1 \in 1 .. Len(text) /\ Len(text) \in 1 .. Len(text)
    BY <1>2
  <2> QED
    BY <1>1, <1>3, <2>1, SubSeqOfConcat1
<1>5. SubSeq(text, 1, Len(text)) = text
  BY SubSeqFull
<1> HIDE DEF long, P
<1>6. Len(long) > 1 /\ long[Len(long)] = Digits /\ Len(long) - 1 = Len(text)
  BY <1>2
<1> QED
  BY <1>4, <1>5, <1>6 DEF StripPort, long

\* The two parts of a concatenation.
LEMMA PartsOfConcat ==
  ASSUME NEW P, NEW s \in Seq(P), NEW t \in Seq(P), Len(s) > 0, Len(t) > 0
  PROVE  /\ Len(s \o t) = Len(s) + Len(t)
         /\ SubSeq(s \o t, 1, Len(s)) = s
         /\ SubSeq(s \o t, Len(s) + 1, Len(s) + Len(t)) = t
         /\ (s \o t)[Len(s) + Len(t)] = t[Len(t)]
<1>1. Len(s) \in Nat /\ Len(t) \in Nat
  BY LenProperties
<1>2. Len(s \o t) = Len(s) + Len(t)
  BY ConcatProperties
<1>3. (s \o t)[Len(s) + Len(t)] = t[Len(t)]
  <2>1. \A i \in 1 .. Len(s) + Len(t) :
          (s \o t)[i] = IF i <= Len(s) THEN s[i] ELSE t[i - Len(s)]
    BY ConcatProperties
  <2>2. /\ Len(s) + Len(t) \in 1 .. Len(s) + Len(t) /\ ~ (Len(s) + Len(t) <= Len(s))
        /\ (Len(s) + Len(t)) - Len(s) = Len(t)
    BY <1>1
  <2> QED
    BY <2>1, <2>2
<1>4. SubSeq(s \o t, 1, Len(s)) = s
  <2>1. 1 \in 1 .. Len(s) /\ Len(s) \in 1 .. Len(s)
    BY <1>1
  <2>2. SubSeq(s \o t, 1, Len(s)) = SubSeq(s, 1, Len(s))
    BY <2>1, SubSeqOfConcat1
  <2> QED
    BY <2>2, SubSeqFull
<1>5. SubSeq(s \o t, Len(s) + 1, Len(s) + Len(t)) = t
  <2>1. /\ Len(s) + 1 \in Len(s) + 1 .. Len(s) + Len(t)
        /\ Len(s) + Len(t) \in Len(s) + 1 .. Len(s) + Len(t)
        /\ (Len(s) + 1) - Len(s) = 1 /\ (Len(s) + Len(t)) - Len(s) = Len(t)
    BY <1>1
  <2>2. SubSeq(s \o t, Len(s) + 1, Len(s) + Len(t)) = SubSeq(t, 1, Len(t))
    BY <2>1, SubSeqOfConcat2
  <2> QED
    BY <2>2, SubSeqFull
<1> QED
  BY <1>2, <1>3, <1>4, <1>5

LEMMA MappedIsSeq ==
  ASSUME NEW S
  PROVE  Mapped \in Seq(S \cup {"", "ffff"}) /\ Len(Mapped) = 3
BY DEF Mapped

\* Of a mapped address the prefix goes.
LEMMA MappedIsStripped ==
  ASSUME NEW S, NEW text \in Seq(S), Len(text) > 0
  PROVE  /\ StripMapped(Mapped \o text) = text
         /\ Len(Mapped \o text) = 3 + Len(text)
         /\ (Mapped \o text)[3 + Len(text)] = text[Len(text)]
<1> DEFINE P == S \cup {"", "ffff"}
           long == Mapped \o text
<1>1. text \in Seq(P) /\ Len(text) \in Nat
  BY SeqMonotonic, LenProperties
<1>2. Mapped \in Seq(P) /\ Len(Mapped) = 3
  BY MappedIsSeq
<1> HIDE DEF P
<1>3. /\ Len(Mapped \o text) = Len(Mapped) + Len(text)
      /\ SubSeq(Mapped \o text, 1, Len(Mapped)) = Mapped
      /\ SubSeq(Mapped \o text, Len(Mapped) + 1, Len(Mapped) + Len(text)) = text
      /\ (Mapped \o text)[Len(Mapped) + Len(text)] = text[Len(text)]
  <2>1. Len(Mapped) > 0
    BY <1>2
  <2> QED
    BY <1>1, <1>2, <2>1, PartsOfConcat, Zenon
<1>4. /\ Len(long) = 3 + Len(text) /\ Len(long) > 3
      /\ SubSeq(long, 1, 3) = Mapped /\ SubSeq(long, 4, Len(long)) = text
      /\ long[3 + Len(text)] = text[Len(text)]
  BY <1>1, <1>2, <1>3
<1> HIDE DEF long
<1>5. StripMapped(long) = text
  BY <1>4 DEF StripMapped
<1> QED
  BY <1>4, <1>5 DEF long

LEMMA BareV4 ==
  ASSUME NEW a \in V4
  PROVE  StripPort(<<a>>) = <<a>> /\ StripMapped(<<a>>) = <<a>>
BY DEF StripPort, StripMapped

\* What ends in an IPv4 address has no port.
LEMMA MappedV4 ==
  ASSUME NEW a \in V4
  PROVE  /\ StripPort(Mapped \o <<a>>) = Mapped \o <<a>>
         /\ StripMapped(Mapped \o <<a>>) = <<a>>
<1> DEFINE text == <<a>>
           long == Mapped \o text
<1>1. text \in Seq({a}) /\ Len(text) = 1 /\ text[1] # Digits
  BY AddressAssumption
<1> HIDE DEF text
<1>2. StripMapped(long) = text /\ Len(long) = 4 /\ long[4] # Digits
  <2>1. Len(text) > 0
    BY <1>1
  <2>2. /\ StripMapped(Mapped \o text) = text
        /\ Len(Mapped \o text) = 3 + Len(text)
        /\ (Mapped \o text)[3 + Len(text)] = text[Len(text)]
    BY <1>1, <2>1, MappedIsStripped, Zenon
  <2> QED
    BY <1>1, <2>2
<1> HIDE DEF long
<1>3. StripPort(long) = long
  BY <1>2 DEF StripPort
<1> QED
  BY <1>2, <1>3 DEF long, text

LEMMA V4WithPort ==
  ASSUME NEW a \in V4
  PROVE  StripPort(Append(<<a>>, Digits)) = <<a>> /\ Append(<<a>>, Digits) # <<>>
<1>1. <<a>> \in Seq({a, Digits}) /\ <<a>> \in Seq({a}) /\ Len(<<a>>) > 0
  OBVIOUS
<1>2. Append(<<a>>, Digits) # <<>>
  BY <1>1, AppendProperties
<1> QED
  BY <1>1, <1>2, PortIsStripped

\* What an address looks like in each form, once its header has been found.
LEMMA FormsOf ==
  ASSUME NEW text, NEW request \in Forms(text), Append(text, Digits) # <<>>
  PROVE  \/ RemoteIp(request) = Append(text, Digits) /\ request.viewer # Absent
         \/ RemoteIp(request) = text /\ request.viewer = Absent
<1>1. CASE request = [NoRequest EXCEPT !.viewer = Append(text, Digits)]
  BY <1>1 DEF RemoteIp, Absent, NoRequest
<1>2. CASE request = [NoRequest EXCEPT !.forwarded = <<text, <<"proxy">>>>]
  <2>1. request.viewer = Absent /\ request.forwarded = <<text, <<"proxy">>>>
    BY <1>2 DEF NoRequest
  <2>2. <<text, <<"proxy">>>> # <<>> /\ Head(<<text, <<"proxy">>>>) = text
    OBVIOUS
  <2> QED
    BY <2>1, <2>2 DEF RemoteIp
<1>3. CASE request = [NoRequest EXCEPT !.socket = text]
  BY <1>3 DEF RemoteIp, NoRequest
<1> QED
  BY <1>1, <1>2, <1>3 DEF Forms

LEMMA MappedFormOf ==
  ASSUME NEW text
  PROVE  RemoteIp(MappedForm(text)) = Mapped \o text
BY DEF RemoteIp, MappedForm, NoRequest

\* A range, and the lists of an IP guard.
Range4 == [parses : BOOLEAN, addresses : SUBSET V4]
Lists == [blacklist : SUBSET Range4, whitelist : SUBSET Range4]

\* An address by itself is in the ranges that hold it, a mapped one in those that hold all.
LEMMA BareIsInItsRanges ==
  ASSUME NEW list, NEW a
  PROVE  InOneOf(list, <<a>>) <=> Holding(list, a) # {}
<1>1. Len(<<a>>) = 1 /\ <<a>>[1] = a
  OBVIOUS
<1> QED
  BY <1>1 DEF InOneOf, Holding, CidrContains

LEMMA LongIsInWholeRanges ==
  ASSUME NEW list, NEW text, Len(text) # 1
  PROVE  InOneOf(list, text) <=> Whole(list) # {}
BY DEF InOneOf, Whole, CidrContains

LEMMA BareV4IsKnown ==
  ASSUME NEW options \in Lists, NEW a \in V4, NEW request \in Forms(<<a>>)
  PROVE  GetClientIp(request) = <<a>> /\ IpGuard(options, request) = Judgement(options, a)
<1>1. ExtractIp(request) = <<a>> /\ RemoteIp(request) # Absent
  <2>1. <<a>> # Absent
    BY DEF Absent
  <2> QED
    BY <2>1, FormsOf, V4WithPort, BareV4 DEF ExtractIp, Absent
<1>2. GetClientIp(request) = <<a>>
  BY <1>1, BareV4 DEF GetClientIp, ExtractIp
<1>3. /\ InOneOf(options.blacklist, <<a>>) <=> Holding(options.blacklist, a) # {}
      /\ InOneOf(options.whitelist, <<a>>) <=> Holding(options.whitelist, a) # {}
  BY BareIsInItsRanges
<1>4. IpGuard(options, request) = Judgement(options, a)
  BY <1>1, <1>3 DEF IpGuard, Judgement, Verdict
<1> QED
  BY <1>2, <1>4

LEMMA MappedV4IsKnown ==
  ASSUME NEW options \in Lists, NEW a \in V4
  PROVE  /\ GetClientIp(MappedForm(<<a>>)) = <<a>>
         /\ IpGuard(options, MappedForm(<<a>>)) =
              Verdict(options, Whole(options.blacklist), Whole(options.whitelist))
<1> DEFINE request == MappedForm(<<a>>)
           long == Mapped \o <<a>>
<1>1. RemoteIp(request) = long
  BY MappedFormOf
<1>2. StripPort(long) = long /\ StripMapped(long) = <<a>>
  BY MappedV4
<1>3. Len(long) = 4
  <2>1. <<a>> \in Seq({a}) /\ Len(<<a>>) = 1 /\ Len(<<a>>) > 0
    OBVIOUS
  <2>2. Len(Mapped \o <<a>>) = 3 + Len(<<a>>)
    BY <2>1, MappedIsStripped, Zenon
  <2> QED
    BY <2>1, <2>2
<1>4. ExtractIp(request) = long /\ long # Absent /\ Len(long) # 1
  <2>1. ExtractIp(request) = long
    BY <1>1, <1>2, Zenon DEF ExtractIp
  <2>2. Len(Absent) = 0
    BY DEF Absent
  <2> HIDE DEF long
  <2>3. long # Absent /\ Len(long) # 1
    BY <1>3, <2>2
  <2> QED
    BY <2>1, <2>3
<1>5. GetClientIp(request) = <<a>>
  BY <1>1, <1>2 DEF GetClientIp
<1> HIDE DEF request, long
<1>6. /\ InOneOf(options.blacklist, long) <=> Whole(options.blacklist) # {}
      /\ InOneOf(options.whitelist, long) <=> Whole(options.whitelist) # {}
  BY <1>4, LongIsInWholeRanges
<1>7. IpGuard(options, request) =
        Verdict(options, Whole(options.blacklist), Whole(options.whitelist))
  BY <1>1, <1>4, <1>6 DEF IpGuard, Verdict
<1> QED
  BY <1>5, <1>7 DEF request

\* Every IPv4 client is logged by its own address, whatever form that has.  The IpGuard
\* finds it in exactly the ranges that hold its address when it comes bare or with a
\* port, and when it comes mapped only in those that hold every address, whatever the
\* lists (request-util.ts, getClientIp; ip.guard.ts, canActivate).
THEOREM V4KnownByForm ==
  ASSUME NEW options \in Lists, NEW a \in V4
  PROVE  V4ByForm(options, a)
BY BareV4IsKnown, MappedV4IsKnown DEF V4ByForm

\* An IPv6 address of any number of groups is logged as it is when it comes with a port,
\* and when it comes without one if and only if its last group is not digits only; no
\* mapped address is one (request-util.ts, getClientIp).
THEOREM V6KnownByForm ==
  ASSUME NEW S, NEW text \in Seq(S), Len(text) > 1,
         ~ (Len(text) > 3 /\ SubSeq(text, 1, 3) = Mapped)
  PROVE  V6ByForm(text)
<1> SUFFICES ASSUME NEW request \in Forms(text)
             PROVE  GetClientIp(request) = text
                      <=> request.viewer # Absent \/ text[Len(text)] # Digits
  BY DEF V6ByForm
<1>1. Len(text) \in Nat /\ Len(text) > 0
  BY LenProperties
<1>2. Append(text, Digits) # <<>>
  <2>1. text \in Seq(S \cup {Digits})
    BY SeqMonotonic
  <2> QED
    BY <2>1, AppendProperties
<1>3. StripMapped(text) = text
  BY DEF StripMapped
<1>4. CASE RemoteIp(request) = Append(text, Digits) /\ request.viewer # Absent
  <2>1. StripPort(Append(text, Digits)) = text
    BY <1>1, PortIsStripped
  <2> QED
    BY <1>3, <1>4, <2>1 DEF GetClientIp
<1>5. CASE RemoteIp(request) = text /\ request.viewer = Absent
  <2>1. CASE text[Len(text)] = Digits
    <3> DEFINE rest == SubSeq(text, 1, Len(text) - 1)
    <3>1. StripPort(text) = rest
      BY <2>1 DEF StripPort
    <3>2. rest \in Seq(S) /\ Len(rest) = Len(text) - 1
      <4>1. /\ 1 \in 1 .. Len(text) + 1 /\ Len(text) - 1 \in 0 .. Len(text)
            /\ \A i \in 1 .. Len(text) - 1 : text[i] \in S
        BY <1>1, ElementOfSeq
      <4> QED
        BY <1>1, <4>1, SubSeqProperties
    <3> HIDE DEF rest
    <3>3. Len(StripMapped(rest)) < Len(text)
      <4>1. CASE Len(rest) > 3 /\ SubSeq(rest, 1, 3) = Mapped
        <5>1. StripMapped(rest) = SubSeq(rest, 4, Len(rest))
          BY <4>1 DEF StripMapped
        <5>2. Len(SubSeq(rest, 4, Len(rest))) = Len(rest) - 4 + 1
          <6>1. \A i \in 4 .. Len(rest) : rest[i] \in S
            BY <3>2, ElementOfSeq, <1>1
          <6> QED
            BY <1>1, <3>2, <4>1, <6>1, SubSeqProperties
        <5> QED
          BY <1>1, <3>2, <5>1, <5>2
      <4>2. CASE ~ (Len(rest) > 3 /\ SubSeq(rest, 1, 3) = Mapped)
        BY <1>1, <3>2, <4>2 DEF StripMapped
      <4> QED
        BY <4>1, <4>2
    <3>4. StripMapped(rest) # text
      BY <1>1, <3>3
    <3> QED
      BY <1>5, <2>1, <3>1, <3>4 DEF GetClientIp
  <2>2. CASE text[Len(text)] # Digits
    <3>1. StripPort(text) = text
      BY <2>2 DEF StripPort
    <3> QED
      BY <1>3, <1>5, <2>2, <3>1 DEF GetClientIp
  <2> QED
    BY <2>1, <2>2
<1> QED
  BY <1>2, <1>4, <1>5, FormsOf

LEMMA Tuples ==
  ASSUME NEW S, NEW a \in S, NEW b \in S, NEW c \in S, NEW d \in S
  PROVE  /\ <<a, b, c>> \in Seq(S) /\ Len(<<a, b, c>>) = 3 /\ <<a, b, c>>[1] = a
         /\ <<a, b, c, d>> \in Seq(S) /\ Len(<<a, b, c, d>>) = 4 /\ <<a, b, c, d>>[1] = a
OBVIOUS

\* The property the run of the server checks follows for its lists and addresses
\* (request-util.ts, ip.guard.ts).
THEOREM ClientsKnownByForm == Spec => []KnownByForm
<1>1. ASSUME NEW options \in Options, NEW a \in V4 PROVE V4ByForm(options, a)
  <2>1. options \in Lists
    BY <1>1 DEF Options, Cidrs, Lists, Range4
  <2> QED
    BY <2>1, V4KnownByForm
<1>2. ASSUME NEW text \in V6 PROVE V6ByForm(text)
  <2> DEFINE S == {"", "a", "ffff", "fe80", Digits}
  <2>1. "" \in S /\ "a" \in S /\ "ffff" \in S /\ "fe80" \in S /\ Digits \in S
    OBVIOUS
  <2> HIDE DEF S
  <2>2. CASE text \in LinkLocal
    <3>1. PICK x \in S, y \in S : text = <<"fe80", "", x, y>>
      BY <2>1, <2>2 DEF LinkLocal
    <3>2. text \in Seq(S) /\ Len(text) = 4 /\ text[1] = "fe80"
      BY <2>1, <3>1, Tuples
    <3>3. SubSeq(text, 1, 3)[1] = text[1]
      <4>1. \A i \in 1 .. 3 : text[i] \in S
        BY <3>2, ElementOfSeq
      <4> QED
        BY <4>1, SubSeqProperties
    <3>4. Mapped[1] = ""
      BY DEF Mapped
    <3>5. SubSeq(text, 1, 3) # Mapped
      BY <3>2, <3>3, <3>4
    <3>6. Len(text) > 1 /\ ~ (Len(text) > 3 /\ SubSeq(text, 1, 3) = Mapped)
      BY <3>2, <3>5
    <3> QED
      BY <3>2, <3>6, V6KnownByForm
  <2>3. CASE text \in {<<"", "", "a">>, <<"", "", Digits>>, Mapped}
    <3>1. PICK z \in S : text = <<"", "", z>>
      BY <2>1, <2>3 DEF Mapped
    <3>2. text \in Seq(S) /\ Len(text) = 3
      BY <2>1, <3>1, Tuples
    <3>3. Len(text) > 1 /\ ~ (Len(text) > 3 /\ SubSeq(text, 1, 3) = Mapped)
      BY <3>2
    <3> QED
      BY <3>2, <3>3, V6KnownByForm
  <2> QED
    BY <1>2, <2>2, <2>3 DEF V6
<1>3. KnownByForm
  BY <1>1, <1>2 DEF KnownByForm
<1> QED
  BY <1>3, PTL
=============================================================================
