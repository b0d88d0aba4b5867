------------------------------- MODULE MCServer -------------------------------
EXTENDS Server, ConfigFiles, ClientAddress

Section == {"server", "db"}
Key == {"host", "port"}

Content == UNION {[D -> UNION {[E -> {1, 2}] : E \in SUBSET Key}] : D \in SUBSET Section}
Directories == SeqOf([yml : BOOLEAN, content : Content], 2)

\* What follows does not depend on the state: one is enough to evaluate it in.
NothingAskedYet ==
  phase = "listening" /\ app = "example" /\ \A r \in Request : endpoint[r] = NoEndpoint

\* Settings come from the last file that has their section, over every directory of
\* at most two files (config.utils.ts, loadConfigFiles).
LastFileOfSectionCounts ==
  NothingAskedYet =>
    \A directory \in Directories, section \in Section, key \in Key :
      LastSectionCounts(directory, section, key)

Cidrs == [parses : BOOLEAN, addresses : SUBSET V4]
Options == [blacklist : {{}} \cup {{c} : c \in Cidrs},
            whitelist : {S \in SUBSET Cidrs : Cardinality(S) <= 2}]
LinkLocal == {<<"fe80", "", g[1], g[2]>> : g \in {"a", Digits} \X {"a", Digits, ""}}
V6 == LinkLocal \cup {<<"", "", "a">>, <<"", "", Digits>>, Mapped}

\* How far the log and the IpGuard know a client by its own address, in each form it
\* comes in and over every pair of lists (request-util.ts, ip.guard.ts).
KnownByForm ==
  NothingAskedYet =>
    /\ \A options \in Options, a \in V4 : V4ByForm(options, a)
    /\ \A text \in V6 : V6ByForm(text)
=============================================================================
