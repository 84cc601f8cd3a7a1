---------------------------- MODULE SshArguments ----------------------------
(***************************************************************************)
(* ParseSSHArgs (session/openssh_args.go): the loop over an OpenSSH command *)
(* line, one action per kind of argument.  An argument is a string, and     *)
(* Shape says how the code takes it where a flag or the destination may     *)
(* stand:                                                                  *)
(*   "value"    -o, -i, -F, -l, -p, -D: the next argument is its value      *)
(*   "switch"   -T, -t, -N, -A, -f, -s, -v, -vv, -vvv                       *)
(*   "letters"  more letters behind one dash                               *)
(*   "unknown"  any other argument that starts with a dash                  *)
(*   "end"      --                                                         *)
(*   "word"     no dash in front                                           *)
(***************************************************************************)
EXTENDS Integers, Sequences, FiniteSets, SequencesExt, FiniteSetsExt

CONSTANTS
  Shape,      \* argument -> how the code takes it
  LongFlags,  \* the arguments that start with two dashes
  Letters,    \* argument -> the letters behind its dash
  Split,      \* argument -> <<user, host>> at its first "@", or <<"", argument>>
  OptionOf,   \* argument -> <<key, value>> where parseSSHOption accepts it
  Number,     \* argument -> its value where strconv.Atoi accepts it
  Lower,      \* option key -> the key in lower case
  None        \* no value given, where the code has an empty string

ASSUME ArgumentsAssumption ==
  /\ \A a \in DOMAIN Shape : Shape[a] = "value" => a \in {"-o", "-i", "-F", "-l", "-p", "-D"}
  /\ None \notin DOMAIN Shape
  /\ \A a \in LongFlags \intersect DOMAIN Shape : Shape[a] \in {"unknown", "end"}

VARIABLES
  argv,   \* the arguments
  next,   \* i, the position of the loop
  args,   \* *SSHArgs
  phase   \* "before", "flags", "rest" behind "--", "parsed", "refused"

argVars == <<argv, next, args, phase>>

Switches == {"T", "t", "N", "A", "f", "s"}
NoArgs == [user |-> None, host |-> "", port |-> 22, identity |-> None, config |-> None,
           dynamic |-> None, options |-> [k \in {} |-> None], switches |-> {}, verbose |-> 0,
           command |-> <<>>]

-----------------------------------------------------------------------------
Here(kind) == phase = "flags" /\ next <= Len(argv) /\ Shape[argv[next]] = kind
Advance(a, n) == args' = a /\ next' = next + n /\ UNCHANGED argv
Refuse == phase' = "refused" /\ UNCHANGED <<argv, next, args>>

\* A later value of an option takes the place of an earlier one.
Stored(options, kv) ==
  [k \in DOMAIN options \union {kv[1]} |-> IF k = kv[1] THEN kv[2] ELSE options[k]]
Accepts(flag, v) == /\ flag = "-o" => v \in DOMAIN OptionOf
                    /\ flag = "-p" => v \in DOMAIN Number
WithValue(flag, v) ==
  CASE flag = "-o" -> [args EXCEPT !.options = Stored(@, OptionOf[v])]
    [] flag = "-i" -> [args EXCEPT !.identity = v]
    [] flag = "-F" -> [args EXCEPT !.config = v]
    [] flag = "-l" -> [args EXCEPT !.user = v]
    [] flag = "-p" -> [args EXCEPT !.port = Number[v]]
    [] flag = "-D" -> [args EXCEPT !.dynamic = v]
\* Bug: the loop does not step over the value.
ReadsValueAgain ==
  /\ Here("value") /\ next < Len(argv)
  /\ Accepts(argv[next], argv[next + 1])
  /\ Advance(WithValue(argv[next], argv[next + 1]), 1)
  /\ UNCHANGED phase

TakesValue ==
  /\ Here("value") /\ next < Len(argv)
  /\ Accepts(argv[next], argv[next + 1])
  /\ Advance(WithValue(argv[next], argv[next + 1]), 2)
  /\ UNCHANGED phase
ValueRefused ==
  /\ Here("value")
  /\ next < Len(argv) => ~Accepts(argv[next], argv[next + 1])
  /\ Refuse

\* -v, -vv and -vvv set the level; a "v" among other letters adds one.
Switched(a) ==
  LET ls == Letters[a]
  IN  [args EXCEPT !.switches = @ \union (Range(ls) \intersect Switches),
                   !.verbose = IF Range(ls) = {"v"} /\ Shape[a] = "switch" THEN Len(ls)
                               ELSE @ + Cardinality({n \in DOMAIN ls : ls[n] = "v"})]
TakesSwitch ==
  /\ Here("switch") \/ Here("letters")
  /\ Advance(Switched(argv[next]), 1)
  /\ UNCHANGED phase
\* The value of an unknown flag is not stepped over.
SkipsUnknown == Here("unknown") /\ Advance(args, 1) /\ UNCHANGED phase
TakesEnd == Here("end") /\ Advance(args, 1) /\ phase' = "rest"

\* The destination, and all that follows it is the remote command.
TakesDestination ==
  /\ next <= Len(argv)
  /\ phase = "rest" \/ Here("word")
  /\ LET d == Split[argv[next]]
     IN  /\ args' = [args EXCEPT !.user = IF @ = None /\ d[1] # "" THEN d[1] ELSE @,
                                 !.host = d[2],
                                 !.command = SubSeq(argv, next + 1, Len(argv))]
         /\ phase' = IF d[2] = "" THEN "refused" ELSE "parsed"
  /\ next' = Len(argv) + 1 /\ UNCHANGED argv
NoDestination == phase \in {"flags", "rest"} /\ next > Len(argv) /\ Refuse

ParseStep ==
  \/ TakesValue \/ ValueRefused \/ TakesSwitch \/ SkipsUnknown \/ TakesEnd
  \/ TakesDestination \/ NoDestination

HasVersionFlag(as) == \E n \in DOMAIN as : "V" \in Range(Letters[as[n]])
\* GetOption ranges over a map: with two spellings of a key, either's value.
GetOptionValues(a, key) ==
  {a.options[k] : k \in {o \in DOMAIN a.options : Lower[o] = key}}

-----------------------------------------------------------------------------
(* What the arguments mean, by position.                                   *)

\* The value flags right before position n, as one unbroken run.
RunBefore(n) ==
  {k \in 1..(n - 1) : \A m \in k..(n - 1) : Shape[argv[m]] = "value"}
IsValue(n) == Cardinality(RunBefore(n)) % 2 = 1
Destination ==
  LET ds == {n \in DOMAIN argv : ~IsValue(n) /\ Shape[argv[n]] \in {"word", "end"}}
  IN  IF ds = {} THEN 0
      ELSE IF Shape[argv[Min(ds)]] = "word" THEN Min(ds)
      ELSE IF Min(ds) < Len(argv) THEN Min(ds) + 1 ELSE 0
\* The values given to a flag in front of the destination.
GivenAt(flag) == {n \in 1..(Destination - 1) : IsValue(n) /\ argv[n - 1] = flag}
LastGiven(flag) == IF GivenAt(flag) = {} THEN None ELSE argv[Max(GivenAt(flag))]
SwitchGiven(s) ==
  \E n \in 1..(Destination - 1) :
    /\ ~IsValue(n) /\ Shape[argv[n]] \in {"switch", "letters"}
    /\ s \in Range(Letters[argv[n]])
OptionAt(n) == OptionOf[argv[n]]
OptionGiven(key) ==
  {OptionAt(n)[2] : n \in {m \in GivenAt("-o") :
     /\ Lower[OptionAt(m)[1]] = key
     /\ \A l \in GivenAt("-o") : l > m => OptionAt(l)[1] # OptionAt(m)[1]}}

\* -l, else what stands before the "@" of the destination.
UserGiven ==
  IF LastGiven("-l") # None THEN LastGiven("-l")
  ELSE IF Split[argv[Destination]][1] # "" THEN Split[argv[Destination]][1]
  ELSE None

\* A flag the code does not know stands in front of what it takes for the
\* destination, which may be that flag's value: a number, or a word that another one
\* follows.
UnknownValue ==
  /\ Destination > 1 /\ ~IsValue(Destination - 1) /\ Shape[argv[Destination - 1]] = "unknown"
  /\ argv[Destination] \in DOMAIN Number \/ Destination < Len(argv)
\* A user is given with -l and in front of the "@".
UserTwice == LastGiven("-l") # None /\ Split[argv[Destination]][1] # ""

\* The arguments in front of the destination are each a flag or the value of
\* one and the last of each counts; what follows it is the command, whatever it
\* looks like; a line with a flag that lacks its value, or with no destination,
\* is refused.  Nothing is said of a word that may be the value of an unknown flag
\* (UnknownValueSkipped), and not which of two users is meant (DestinationUserWins).
ArgsAsWritten ==
  /\ phase = "refused" =>
       \/ Destination = 0
       \/ Split[argv[Destination]][2] = ""
       \/ \E n \in 2..(Destination - 1) : IsValue(n) /\ ~Accepts(argv[n - 1], argv[n])
  /\ phase = "parsed" /\ ~UnknownValue =>
    /\ Destination # 0
    /\ args.host = Split[argv[Destination]][2] /\ args.host # ""
    /\ ~UserTwice => args.user = UserGiven
    /\ args.command = SubSeq(argv, Destination + 1, Len(argv))
    /\ args.identity = LastGiven("-i")
    /\ args.config = LastGiven("-F")
    /\ args.dynamic = LastGiven("-D")
    /\ args.port = IF LastGiven("-p") = None THEN 22 ELSE Number[LastGiven("-p")]
    /\ \A s \in Switches : s \in args.switches <=> SwitchGiven(s)
    /\ \A key \in {Lower[k] : k \in DOMAIN Lower} : GetOptionValues(args, key) = OptionGiven(key)

\* An argument behind an unknown flag that looks like a value, not like a flag or a
\* host, is skipped (openssh_args.go:149): a number is not the destination.
UnknownValueSkipped ==
  phase = "parsed" =>
    ~(Destination > 1 /\ Shape[argv[Destination - 1]] = "unknown"
        /\ ~IsValue(Destination - 1) /\ argv[Destination] \in DOMAIN Number)
=============================================================================
