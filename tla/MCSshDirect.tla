---------------------------- MODULE MCSshDirect ----------------------------
(***************************************************************************)
(* SshDirect for TLC.                                                      *)
(***************************************************************************)
EXTENDS SshDirect

CONSTANT SavedKey   \* the host's key in known_hosts

\* No file, one with the host's key, one whose last line is another host's and lacks
\* its end, one that does not parse.
MCFiles ==
  {NoFile} \union
    [keys : {{SavedKey}, {}}, parses : {TRUE}, ended : {FALSE}] \union
    [keys : {{SavedKey}}, parses : {FALSE}, ended : {TRUE}]

Checked == [checks |-> TRUE, ephemeral |-> FALSE, agent |-> FALSE, keyFile |-> FALSE, tty |-> FALSE,
            dynamic |-> FALSE, found |-> TRUE, lists |-> {{"password"}}]
Absent == [Checked EXCEPT !.found = FALSE]
Alone(o) == [s \in Sessions |-> IF s = Owner THEN o ELSE Absent]

\* Two sessions that check the host's key; or one, with a proxy and a host that lists
\* anything, which has everything to try, or an ephemeral key.
AnyHost == [Checked EXCEPT !.dynamic = TRUE, !.agent = TRUE, !.keyFile = TRUE,
                           !.lists = SUBSET Kinds]
MCAsked == {
  [s \in Sessions |-> Checked],
  Alone([AnyHost EXCEPT !.tty = TRUE]),
  Alone([AnyHost EXCEPT !.checks = FALSE, !.ephemeral = TRUE]) }

\* A request that is served, and one for BIND, which is not.
MCRequests == {[version |-> 5, command |-> 1, addressType |-> 3],
               [version |-> 5, command |-> 2, addressType |-> 3]}
=============================================================================
