--------------------------- MODULE SshConfigFile ---------------------------
(***************************************************************************)
(* The SSH configuration file: how session/ssh_config.go reads it for a    *)
(* host, and how "add-proxy-command" (cmd/ssm_ssh_add_proxy_command.go)    *)
(* updates it.  A file is a sequence of lines, a line a record             *)
(*   kind    "directive", "marker" (the comment add-proxy-command writes), *)
(*           "blank", or "long" (beyond the scanner's 64 KiB)              *)
(*   key     the keyword in lower case                                     *)
(*   sep     what stands between keyword and value: "space", "tab", "="    *)
(*   args    the words of the value, patterns those of a Host line          *)
(*   indent  whether the line starts with two spaces                       *)
(* A host is a sequence of characters, a pattern a record of such a        *)
(* sequence and whether "!" stands before it.                              *)
(***************************************************************************)
EXTENDS Integers, Sequences, SequencesExt, FiniteSetsExt

CONSTANTS
  Keywords,      \* the keywords applyMatchingBlocks knows
  EqualsValues   \* the words that hold an "="

\* The last is plain, but a prover has to be told that a literal is a string.
ASSUME ConfigAssumption ==
  /\ Keywords \intersect {"", "?", "host", "match"} = {}
  /\ {"", "?", "host", "user", "proxycommand", "ssm"} \subseteq STRING

ConfigLines ==
  [kind : {"directive", "marker", "blank", "long"}, key : STRING, sep : {"space", "tab", "="},
   args : Seq(STRING), patterns : Seq([neg : BOOLEAN, glob : Seq(STRING)]), indent : BOOLEAN]

Line(kind, key, sep, args, indent) ==
  [kind |-> kind, key |-> key, sep |-> sep, args |-> args, patterns |-> <<>>, indent |-> indent]
HostLine(sep, patterns) ==
  [Line("directive", "host", sep, <<>>, FALSE) EXCEPT !.patterns = patterns]
Blank == Line("blank", "", "space", <<>>, FALSE)
Marker == Line("marker", "", "space", <<>>, FALSE)
Exactly(host) == [neg |-> FALSE, glob |-> host]
Unset == <<>>

-----------------------------------------------------------------------------
(* Reading.                                                                *)

\* The line is cut at its first "=", else at its first space, else at its
\* first tab: a tab before a value of several words, or an "=" inside the
\* value, makes a keyword nobody knows.
SplitConfigLine(l) ==
  IF \/ l.sep = "tab" /\ Len(l.args \o l.patterns) > 1
     \/ l.sep # "=" /\ \E n \in DOMAIN l.args : l.args[n] \in EqualsValues
  THEN [key |-> "?", args |-> <<>>]
  ELSE [key |-> l.key, args |-> l.args]

\* A Host line opens a block; a Match line closes it, and what follows it, like
\* what stands before the first Host line, is skipped.
StartBlock(st, patterns) ==
  [blocks |-> Append(st.blocks, [patterns |-> patterns, options |-> [k \in {} |-> Unset]]),
   open |-> TRUE]
StoreOption(st, d) ==
  LET n == Len(st.blocks)
      options == st.blocks[n].options
  IN  IF d.key \in DOMAIN options THEN st
      ELSE [st EXCEPT !.blocks[n].options =
              [k \in DOMAIN options \union {d.key} |->
                 IF k = d.key THEN d.args ELSE options[k]]]
ReadLine(st, l) ==
  LET d == SplitConfigLine(l)
  IN  IF l.kind # "directive" THEN st
      ELSE CASE d.key = "host" -> StartBlock(st, l.patterns)
             [] d.key = "match" -> [st EXCEPT !.open = FALSE]
             [] OTHER -> IF st.open THEN StoreOption(st, d) ELSE st

\* The loop over the lines: what it knows after each of them.
Scanned(file) ==
  LET after[n \in 0..Len(file)] ==
        IF n = 0 THEN [blocks |-> <<>>, open |-> FALSE] ELSE ReadLine(after[n - 1], file[n])
  IN  after
\* A line the scanner cannot hold fails the whole file.
ParseSSHConfigFile(file) ==
  IF \E n \in DOMAIN file : file[n].kind = "long" THEN <<>>
  ELSE Scanned(file)[Len(file)].blocks

\* For the last r elements of a pattern, the places of s from which they match to
\* its end.
PlacesBefore(e, s, places) ==
  IF e = "*" THEN {i \in 1..(Len(s) + 1) : \E k \in places : i <= k}
  ELSE {i \in 1..Len(s) : e \in {"?", s[i]} /\ i + 1 \in places}
Places(s, p) ==
  LET from[r \in 0..Len(p)] ==
        IF r = 0 THEN {Len(s) + 1} ELSE PlacesBefore(p[Len(p) + 1 - r], s, from[r - 1])
  IN  from
MatchGlob(s, p) == 1 \in Places(s, p)[Len(p)]

\* The first pattern that matches decides, negated or not.
HostMatchesPatterns(host, patterns) ==
  LET hits == {n \in DOMAIN patterns : MatchGlob(host, patterns[n].glob)}
  IN  hits # {} /\ ~patterns[Min(hits)].neg

\* Bug: a later block overwrites what an earlier one set.
LastBlockWins(result, b) ==
  [k \in Keywords |-> IF k \in DOMAIN b.options THEN b.options[k] ELSE result[k]]

ApplyBlock(result, b) ==
  [k \in Keywords |->
     IF result[k] = Unset /\ k \in DOMAIN b.options THEN b.options[k] ELSE result[k]]
ApplyMatching(result, b, host) ==
  IF HostMatchesPatterns(host, b.patterns) THEN ApplyBlock(result, b) ELSE result
Applied(blocks, host) ==
  LET result[n \in 0..Len(blocks)] ==
        IF n = 0 THEN [k \in Keywords |-> Unset]
        ELSE ApplyMatching(result[n - 1], blocks[n], host)
  IN  result
ParseSSHConfig(file, host) ==
  LET blocks == ParseSSHConfigFile(file)
  IN  Applied(blocks, host)[Len(blocks)]

-----------------------------------------------------------------------------
(* Writing.                                                                *)

Entry(host, user) ==
  << Marker,
     HostLine("space", <<Exactly(host)>>),
     Line("directive", "user", "space", <<user>>, TRUE),
     Line("directive", "proxycommand", "space", <<"ssm">>, TRUE) >>

\* An entry of ours for this host, whatever stands in front of its Host line, and
\* the lines that go with it: the marker, the Host line, the lines with two spaces
\* in front, and one blank line.
EntryAt(file, host, n) ==
  /\ file[n].kind = "marker"
  /\ n + 1 \in DOMAIN file
  /\ [file[n + 1] EXCEPT !.indent = FALSE] = HostLine("space", <<Exactly(host)>>)
BodyEnd(file, n) == Min({e \in (n + 1)..Len(file) : e = Len(file) \/ ~file[e + 1].indent})
\* Bug: the lines are dropped up to the end of the file.
DropsTheRest(file, n) == Len(file)

EntryEnd(file, n) ==
  LET e == BodyEnd(file, n)
  IN  IF e < Len(file) /\ file[e + 1].kind = "blank" THEN e + 1 ELSE e
\* The loop that skips the entries: what it keeps of the lines from each one on.
KeptFrom(file, host) ==
  LET kept[r \in 0..Len(file)] ==
        LET n == Len(file) + 1 - r
        IN  IF r = 0 THEN <<>>
            ELSE IF EntryAt(file, host, n) THEN kept[Len(file) - EntryEnd(file, n)]
            ELSE <<file[n]>> \o kept[r - 1]
  IN  kept
Kept(file, host) == KeptFrom(file, host)[Len(file)]
TrimBlanks(file) ==
  LET full == {n \in DOMAIN file : file[n].kind # "blank"}
  IN  IF full = {} THEN <<>> ELSE SubSeq(file, 1, Max(full))
\* The entry goes to the end of the file, whether it replaces one or not.
ReplaceOrAppendHostBlock(file, host, user) ==
  LET kept == TrimBlanks(Kept(file, host))
  IN  (IF kept = <<>> THEN <<>> ELSE Append(kept, Blank)) \o Entry(host, user)

-----------------------------------------------------------------------------
(* What a reader of the file expects, in terms of its lines.               *)

\* The characters of s can be cut into one piece for each element of p.
Denotes(p, s) ==
  \E cut \in [0..Len(p) -> 0..Len(s)] :
    /\ cut[0] = 0 /\ cut[Len(p)] = Len(s)
    /\ \A j \in 1..Len(p) :
         IF p[j] = "*" THEN cut[j - 1] <= cut[j]
         ELSE cut[j] = cut[j - 1] + 1 /\ p[j] \in {"?", s[cut[j]]}

KeyOf(file, n) == IF file[n].kind = "directive" THEN SplitConfigLine(file[n]).key ELSE ""
Heads(file, n) == {h \in 1..n : KeyOf(file, h) \in {"host", "match"}}
\* Line n stands in a Host section that takes the host: some pattern names it,
\* and no negated one before that does.
SectionTakes(file, host, n) ==
  /\ Heads(file, n) # {}
  /\ LET h == Max(Heads(file, n))
     IN  /\ KeyOf(file, h) = "host"
         /\ \E j \in DOMAIN file[h].patterns :
              /\ ~file[h].patterns[j].neg /\ Denotes(file[h].patterns[j].glob, host)
              /\ \A i \in 1..(j - 1) :
                   Denotes(file[h].patterns[i].glob, host) => ~file[h].patterns[i].neg
\* A second value in one section does not count, even after an empty first.
FirstInSection(file, k, n) ==
  \A e \in Max(Heads(file, n))..(n - 1) : KeyOf(file, e) # k
FirstValue(file, host, k) ==
  LET lines == {n \in DOMAIN file : /\ KeyOf(file, n) = k
                                    /\ SectionTakes(file, host, n)
                                    /\ FirstInSection(file, k, n)
                                    /\ file[n].args # Unset}
  IN  IF lines = {} \/ \E n \in DOMAIN file : file[n].kind = "long" THEN Unset
      ELSE file[Min(lines)].args

\* The entries of ours are as add-proxy-command leaves them: the marker before the
\* Host line, no other section or marker among the indented lines that go with it,
\* and no option line of theirs that lost its two spaces.
Tidy(file) ==
  \A n \in DOMAIN file :
    file[n].kind = "marker" /\ n + 1 \in DOMAIN file =>
      LET behind == {m \in (n + 2)..Len(file) : \E i \in (n + 2)..m : ~file[i].indent}
          rest == {m \in behind : KeyOf(file, m) # ""}
      IN  /\ KeyOf(file, n + 1) = "host"
          /\ \A m \in ((n + 2)..Len(file)) \ behind :
               file[m].kind \notin {"marker", "long"} /\ KeyOf(file, m) \notin {"host", "match"}
          /\ rest = {} \/ KeyOf(file, Min(rest)) \in {"host", "match"}
=============================================================================
