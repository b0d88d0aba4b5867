----------------------------- MODULE ConfigFiles -----------------------------
(***************************************************************************)
(* Configuration: what ConfigModule makes of the files of a directory, and *)
(* what ConfigService finds in it.  A file has a name, which ends in .yml  *)
(* or not, and a content: sections of keys with values.                    *)
(***************************************************************************)
EXTENDS Naturals, Sequences, TLC

CONSTANT Undefined

\* In the order of readdir.
YamlFiles(directory) ==
  LET listed[n \in 0 .. Len(directory)] ==
        IF n = 0 THEN <<>>
        ELSE IF directory[n].yml THEN Append(listed[n - 1], directory[n])
        ELSE listed[n - 1]
  IN  listed[Len(directory)]

\* Mutant: sections are merged key by key.
MergeDeep(config, parsed) ==
  [s \in DOMAIN config \cup DOMAIN parsed |->
    IF s \notin DOMAIN parsed THEN config[s]
    ELSE IF s \notin DOMAIN config THEN parsed[s] ELSE parsed[s] @@ config[s]]

\* { ...config, ...parsed }
Merge(config, parsed) ==
  [s \in DOMAIN config \cup DOMAIN parsed |->
    IF s \in DOMAIN parsed THEN parsed[s] ELSE config[s]]

LoadConfigFiles(files) ==
  LET configData[n \in 0 .. Len(files)] ==
        IF n = 0 THEN <<>> ELSE Merge(configData[n - 1], files[n].content)
  IN  configData[Len(files)]

Get(config, section, key) ==
  IF section \in DOMAIN config /\ key \in DOMAIN config[section]
  THEN config[section][key] ELSE Undefined

-----------------------------------------------------------------------------
\* The key of a section has the value the last .yml file with that section gives
\* it: what an earlier file says of the section is gone, also the keys the last
\* one leaves out.
LastSectionCounts(directory, section, key) ==
  LET config == LoadConfigFiles(YamlFiles(directory))
      having == {i \in DOMAIN directory :
                   directory[i].yml /\ section \in DOMAIN directory[i].content}
      last == directory[CHOOSE i \in having : \A j \in having : j <= i].content IN
  Get(config, section, key) =
    IF having # {} /\ key \in DOMAIN last[section]
    THEN last[section][key] ELSE Undefined
=============================================================================
