-------------------------- MODULE SshCompat_proofs --------------------------
(***************************************************************************)
(* Theorems about SshCompat for every command line, every configuration     *)
(* file, every set of instances and whatever a name means: a name is         *)
(* resolved in the order of the chain, the command line and the              *)
(* configuration mean what they say and take effect in their order, and      *)
(* add-proxy-command leaves the rest of the file alone.                      *)
(***************************************************************************)
EXTENDS SshCompat, FiniteSetTheorems, NaturalsInduction, TLAPS

---------------------------------------------------------------------------
\* The chain's order and what it looks at.

Resolvers == {"id", "alias", "tag", "ip", "dns"}
Ends == {"found", "ambiguous", "none"}

LEMMA AfterIs ==
  /\ After("id") = "alias" /\ After("alias") = "tag" /\ After("tag") = "ip"
  /\ After("ip") = "dns" /\ After("dns") = "none"
<1>1. ASSUME NEW k \in 1..5
      PROVE  After(Order[k]) = Order[k + 1]
  <2> DEFINE n == CHOOSE i \in DOMAIN Order : Order[i] = Order[k]
  <2>1. DOMAIN Order = 1..6
    BY DEF Order
  <2>2. n \in DOMAIN Order /\ Order[n] = Order[k]
    BY <2>1
  <2>3. n = k
    BY <2>1, <2>2 DEF Order
  <2> QED
    BY <2>3 DEF After
<1> QED
  BY <1>1, <1>1 DEF Order

\* A nonempty set of numbers has a least one.
LEMMA LeastIsIn ==
  ASSUME NEW S, S \subseteq Nat, S # {}
  PROVE  Min(S) \in S /\ \A m \in S : Min(S) =< m
<1> DEFINE R == OpToRel(<, Nat)
<1>1. \E n \in S : \A m \in S : ~(<<m, n>> \in R)
  <2>1. IsWellFoundedOn(R, Nat)
    BY NatLessThanWellFounded
  <2> HIDE DEF R
  <2> QED
    BY <2>1, WFMin
<1>2. PICK n \in S : \A m \in S : ~(<<m, n>> \in R)
  BY <1>1
<1>3. \A m \in S : n =< m
  <2>1. \A m \in S : ~(m < n)
    BY <1>2 DEF OpToRel
  <2> QED
    BY <2>1
<1>4. Min(S) = CHOOSE x \in S : \A y \in S : x =< y
  BY DEF Min
<1> QED
  BY <1>3, <1>4

\* The first record that holds an ID has only others in front of it.
LEMMA FirstRecord ==
  ASSUME NEW S, NEW txt \in Seq(S), NEW ids,
         ids = {n \in DOMAIN txt : txt[n] # Junk}, ids # {}
  PROVE  /\ Min(ids) \in DOMAIN txt /\ txt[Min(ids)] # Junk
         /\ \A m \in 1..(Min(ids) - 1) : txt[m] = Junk
<1>1. ids \subseteq Nat /\ DOMAIN txt = 1..Len(txt) /\ Len(txt) \in Nat
  OBVIOUS
<1> DEFINE first == Min(ids)
<1>2. first \in ids /\ \A m \in ids : first =< m
  BY <1>1, LeastIsIn
<1> HIDE DEF first
<1>3. first \in Nat /\ first \in DOMAIN txt /\ txt[first] # Junk
  BY <1>1, <1>2
<1>4. ASSUME NEW m \in 1..(first - 1) PROVE txt[m] = Junk
  <2>1. m \in DOMAIN txt /\ ~(first =< m)
    BY <1>1, <1>3
  <2> QED
    BY <1>2, <2>1
<1> QED
  BY <1>3, <1>4 DEF first

---------------------------------------------------------------------------
(* While nothing has failed and nothing has changed, a resolver is only     *)
(* asked when the ones before it have nothing to say.                       *)

ValuesOK ==
  /\ asking \in Resolvers \union Ends \union {"idle"}
  /\ asking # "idle" => meaning \in Meanings
  /\ running \subseteq Instances
  /\ faults \in Nat

NothingBefore ==
  /\ running = began
  /\ asking \in {"alias", "tag", "ip", "dns", "none"} => ~meaning.id
  /\ asking \in {"tag", "ip", "dns", "none"} => Alias = {}
  /\ asking \in {"ip", "dns", "none"} => Tagged = {}
  /\ asking \in {"dns", "none"} => AtAddress = {}
  /\ asking = "none" => \A n \in DOMAIN meaning.txt : meaning.txt[n] = Junk

ResolutionInv ==
  /\ ValuesOK
  /\ faults = 0 => NothingBefore
  /\ ResolvedInOrder

\* What an EC2 resolver does with a filter.
LEMMA ResolvesFilter ==
  ASSUME ValuesOK, NEW F \in SUBSET Instances, NEW strict \in BOOLEAN, Resolves(F, strict)
  PROVE  \/ Matching(F) = {} /\ Pass
         \/ strict /\ asking' = "ambiguous" /\ Cardinality(F) > 1
         \/ \E x \in Matching(F) : Answer(x) /\ (strict => Matching(F) = {x})
<1>1. IsFiniteSet(F) /\ IsFiniteSet(Matching(F))
  BY ResolutionAssumption, FS_Subset DEF Matching
<1>2. Cardinality(Matching(F)) \in Nat /\ Cardinality(F) \in Nat
      /\ Cardinality(Matching(F)) <= Cardinality(F)
  BY <1>1, FS_CardinalityType, FS_Subset DEF Matching
<1>3. CASE Matching(F) = {}
  BY <1>3, FS_EmptySet DEF Resolves
<1>4. CASE Matching(F) # {} /\ strict /\ Cardinality(Matching(F)) > 1
  BY <1>2, <1>4 DEF Resolves
<1>5. CASE Matching(F) # {} /\ ~(strict /\ Cardinality(Matching(F)) > 1)
  <2>1. PICK x \in Matching(F) : Answer(x)
    BY <1>5 DEF Resolves
  <2>2. ASSUME strict PROVE Matching(F) = {x}
    <3>1. Cardinality(Matching(F)) = 1
      BY <1>1, <1>2, <1>5, <2>2, FS_EmptySet
    <3> QED
      BY <1>1, <2>1, <3>1, FS_Singleton
  <2> QED
    BY <2>1, <2>2
<1> QED
  BY <1>3, <1>4, <1>5

\* What the name stands for does not move during a step of the chain.
LEMMA NameStays ==
  ASSUME meaning' = meaning, began' = began
  PROVE  /\ Alias' = Alias /\ Tagged' = Tagged /\ AtAddress' = AtAddress
         /\ Expected' = Expected /\ Conceivable' = Conceivable
  BY DEF Alias, Tagged, AtAddress, Running, Recorded, Expected, Conceivable

LEMMA OneAlias == \A x : Cardinality({x}) = 1
  BY FS_Singleton

\* An answer of a resolver that nothing before it could give.
LEMMA Answers ==
  ASSUME ResolutionInv, meaning' = meaning, began' = began, faults' = faults, running' = running,
         asking \in Resolvers, NEW x, Answer(x), x \in Conceivable \ {Junk},
         faults = 0 => x \in Expected
  PROVE  ResolutionInv'
<1> USE DEF ResolutionInv
<1>1. ValuesOK'
  BY DEF ValuesOK, Answer, Ends, Resolvers
<1>2. (faults = 0 => NothingBefore)'
  BY DEF NothingBefore, Answer
<1>3. ResolvedInOrder'
  BY NameStays DEF ResolvedInOrder, Answer
<1> QED
  BY <1>1, <1>2, <1>3

\* Asking the next one, with nothing to be had from this one.
LEMMA Passes ==
  ASSUME ResolutionInv, meaning' = meaning, began' = began, running' = running,
         asking \in Resolvers, Pass, faults' \in Nat,
         faults' = 0 =>
           /\ faults = 0
           /\ asking = "id" => ~meaning.id
           /\ asking = "alias" => Alias = {}
           /\ asking = "tag" => Tagged = {}
           /\ asking = "ip" => AtAddress = {}
           /\ asking = "dns" => \A n \in DOMAIN meaning.txt : meaning.txt[n] = Junk
  PROVE  ResolutionInv'
<1> USE DEF ResolutionInv
<1>1. asking' = After(asking) /\ found' = found
  BY DEF Pass
<1>2. ValuesOK'
  BY <1>1, AfterIs DEF ValuesOK, Ends, Resolvers
<1>3. (faults = 0 => NothingBefore)'
  BY <1>1, AfterIs, NameStays DEF NothingBefore, Resolvers
<1>4. ResolvedInOrder'
  <2>1. asking' \notin {"found", "ambiguous"}
    BY <1>1, AfterIs DEF Resolvers
  <2>2. ASSUME asking' = "none", faults' = 0 PROVE Expected' = {}
    <3>1. ~meaning.id /\ Alias = {} /\ Tagged = {} /\ AtAddress = {}
          /\ \A n \in DOMAIN meaning.txt : meaning.txt[n] = Junk
      BY <1>3, <2>2, NameStays DEF NothingBefore
    <3>2. Recorded = {}
      BY <3>1, ResolutionAssumption DEF Recorded
    <3>3. Expected = {}
      BY <3>1, <3>2 DEF Expected
    <3> QED
      BY <3>3, NameStays
  <2> QED
    BY <2>1, <2>2 DEF ResolvedInOrder
<1> QED
  BY <1>2, <1>3, <1>4

---------------------------------------------------------------------------
\* The steps of the chain.

LEMMA IdStep == ResolutionInv /\ IsInstanceId => ResolutionInv'
<1> SUFFICES ASSUME ResolutionInv, IsInstanceId PROVE ResolutionInv'
  OBVIOUS
<1>1. meaning' = meaning /\ began' = began /\ faults' = faults /\ running' = running
      /\ asking = "id" /\ faults \in Nat
  BY DEF IsInstanceId, Still, ResolutionInv, ValuesOK
<1>2. CASE meaning.id
  <2>1. Answer("id") /\ "id" \in Conceivable \ {Junk} /\ "id" \in Expected
    BY <1>2, ResolutionAssumption DEF IsInstanceId, Conceivable, Expected
  <2> QED
    BY <1>1, <2>1, Answers DEF Resolvers
<1>3. CASE ~meaning.id
  BY <1>1, <1>3, Passes DEF IsInstanceId, Resolvers
<1> QED
  BY <1>2, <1>3

\* With no fault so far the filter finds what the name stands for.
LEMMA FilterFinds ==
  ASSUME ResolutionInv, asking \in {"alias", "tag", "ip"}
  PROVE  /\ meaning \in Meanings
         /\ FilterOf(asking) \in {NoName} \union SUBSET Instances
         /\ faults = 0 =>
              /\ asking = "alias" => Alias = Running(FilterOf(asking))
              /\ asking = "tag" => Tagged = Running(FilterOf(asking))
              /\ asking = "ip" => AtAddress = Running(FilterOf(asking))
         /\ FilterOf(asking) # NoName => FilterOf(asking) \subseteq Conceivable
<1>1. meaning \in Meanings
  BY DEF ResolutionInv, ValuesOK
<1>2. CASE asking = "alias"
  BY <1>1, <1>2 DEF FilterOf, Meanings, Alias, Conceivable
<1>3. CASE asking = "tag"
  BY <1>1, <1>3 DEF FilterOf, Meanings, Tagged, Conceivable
<1>4. CASE asking = "ip"
  BY <1>1, <1>4 DEF FilterOf, IPFilter, Meanings, AtAddress, Conceivable
<1> QED
  BY <1>1, <1>2, <1>3, <1>4

LEMMA EC2Step == ResolutionInv /\ AskEC2 => ResolutionInv'
<1> SUFFICES ASSUME ResolutionInv, AskEC2 PROVE ResolutionInv'
  OBVIOUS
<1> DEFINE F == FilterOf(asking)
           strict == asking = "alias"
<1>1. /\ meaning' = meaning /\ began' = began /\ faults' = faults /\ running' = running
      /\ asking \in {"alias", "tag", "ip"} /\ asking \in Resolvers
      /\ ValuesOK /\ faults \in Nat /\ (faults = 0 => NothingBefore)
  BY DEF AskEC2, Still, ResolutionInv, ValuesOK, Resolvers
<1>2. ASSUME Pass, faults = 0 => Running(F) = {} PROVE ResolutionInv'
  BY <1>1, <1>2, FilterFinds, Passes
<1>3. CASE F = NoName
  BY <1>2, <1>3 DEF AskEC2, Running
<1>4. CASE F # NoName
  <2>1. F \in SUBSET Instances /\ Resolves(F, strict)
    BY <1>1, <1>4, FilterFinds DEF AskEC2
  <2>2. faults = 0 => Matching(F) = Running(F)
    BY <1>1, <1>4 DEF Matching, Running, NothingBefore
  <2>3. CASE Matching(F) = {} /\ Pass
    BY <1>2, <2>2, <2>3
  <2>4. CASE strict /\ asking' = "ambiguous" /\ Cardinality(F) > 1
    <3>1. ValuesOK'
      BY <1>1, <2>4 DEF ValuesOK, Ends
    <3>2. (faults = 0 => NothingBefore)'
      BY <1>1, <2>4 DEF NothingBefore
    <3>3. F = meaning.alias
      BY <2>4 DEF FilterOf
    <3>4. ResolvedInOrder'
      BY <1>1, <1>4, <2>4, <3>3 DEF ResolvedInOrder
    <3> QED
      BY <3>1, <3>2, <3>4 DEF ResolutionInv
  <2>5. CASE \E x \in Matching(F) : Answer(x) /\ (strict => Matching(F) = {x})
    <3>1. PICK x \in Matching(F) : Answer(x) /\ (strict => Matching(F) = {x})
      BY <2>5
    <3>2. x \in F /\ x \in Instances
      BY <2>1, <3>1 DEF Matching
    <3>3. x \in Conceivable \ {Junk}
      BY <1>1, <1>4, <3>2, FilterFinds, ResolutionAssumption
    <3>4. ASSUME faults = 0 PROVE x \in Expected
      <4>1. x \in Running(F) /\ (strict => Running(F) = {x})
        BY <2>2, <3>1, <3>4
      <4>2. CASE asking = "alias"
        <5>1. Alias = {x} /\ ~meaning.id
          BY <1>1, <3>4, <4>1, <4>2, FilterFinds DEF NothingBefore
        <5>2. Cardinality(Alias) = 1
          BY <5>1, OneAlias
        <5> QED
          BY <5>1, <5>2 DEF Expected
      <4>3. CASE asking = "tag"
        BY <1>1, <3>4, <4>1, <4>3, FilterFinds DEF NothingBefore, Expected
      <4>4. CASE asking = "ip"
        BY <1>1, <3>4, <4>1, <4>4, FilterFinds DEF NothingBefore, Expected
      <4> QED
        BY <1>1, <4>2, <4>3, <4>4
    <3> QED
      BY <1>1, <3>1, <3>3, <3>4, Answers
  <2> QED
    BY <1>1, <2>1, <2>3, <2>4, <2>5, ResolvesFilter
<1> QED
  BY <1>3, <1>4

LEMMA FailStep == ResolutionInv /\ CallFails => ResolutionInv'
<1> SUFFICES ASSUME ResolutionInv, CallFails PROVE ResolutionInv'
  OBVIOUS
<1>1. /\ meaning' = meaning /\ began' = began /\ running' = running /\ Pass
      /\ asking \in Resolvers /\ faults' \in Nat /\ faults' # 0
  BY DEF CallFails, ResolutionInv, ValuesOK, Resolvers
<1> QED
  BY <1>1, Passes

LEMMA DNSStep == ResolutionInv /\ AskDNS => ResolutionInv'
<1> SUFFICES ASSUME ResolutionInv, AskDNS PROVE ResolutionInv'
  OBVIOUS
<1> DEFINE ids == {n \in DOMAIN meaning.txt : meaning.txt[n] # Junk}
           x == meaning.txt[Min(ids)]
<1>1. /\ meaning' = meaning /\ began' = began /\ faults' = faults /\ running' = running
      /\ asking = "dns" /\ asking \in Resolvers /\ faults \in Nat
      /\ (faults = 0 => NothingBefore)
      /\ meaning.txt \in Seq(Instances \union {Junk})
  BY DEF AskDNS, Still, ResolutionInv, ValuesOK, Resolvers, Meanings
<1>2. CASE ids = {}
  <2>1. Pass /\ \A n \in DOMAIN meaning.txt : meaning.txt[n] = Junk
    BY <1>2 DEF AskDNS
  <2> QED
    BY <1>1, <2>1, Passes
<1>3. CASE ids # {}
  <2>1. /\ Min(ids) \in DOMAIN meaning.txt /\ x # Junk
        /\ \A m \in 1..(Min(ids) - 1) : meaning.txt[m] = Junk
    <3> HIDE DEF x
    <3>1. \A i : i = ids => /\ Min(i) \in DOMAIN meaning.txt /\ meaning.txt[Min(i)] # Junk
                           /\ \A m \in 1..(Min(i) - 1) : meaning.txt[m] = Junk
      BY <1>1, <1>3, FirstRecord
    <3> QED
      BY <3>1 DEF x
  <2>2. Answer(x)
    BY <1>3 DEF AskDNS
  <2> HIDE DEF ids
  <2>3. x \in Instances /\ x \in Recorded
    BY <1>1, <2>1 DEF Recorded
  <2>4. x \in Conceivable \ {Junk}
    BY <2>1 DEF Conceivable, Range
  <2>5. faults = 0 => x \in Expected
    BY <1>1, <2>3 DEF NothingBefore, Expected
  <2> HIDE DEF x
  <2> QED
    BY <1>1, <2>2, <2>4, <2>5, Answers
<1> QED
  BY <1>2, <1>3

LEMMA ChangeStep == ResolutionInv /\ InstanceChanges => ResolutionInv'
<1> SUFFICES ASSUME ResolutionInv, InstanceChanges PROVE ResolutionInv'
  OBVIOUS
<1>1. /\ meaning' = meaning /\ began' = began /\ asking' = asking
      /\ asking \in Resolvers /\ faults' \in Nat /\ faults' # 0
  BY DEF InstanceChanges, ResolutionInv, ValuesOK, Resolvers, Ends
<1>2. ValuesOK'
  BY <1>1 DEF InstanceChanges, ResolutionInv, ValuesOK
<1> QED
  BY <1>1, <1>2 DEF ResolutionInv, ResolvedInOrder, Resolvers

---------------------------------------------------------------------------
\* Around the chain.

\* A target is looked up once, when the options have been merged.
LEMMA ResolveBegins == ResolutionInv /\ MergeOptions => ResolutionInv'
<1> SUFFICES ASSUME ResolutionInv, MergeOptions PROVE ResolutionInv'
  OBVIOUS
<1>1. Resolve(MeaningOf(Target))
  BY DEF MergeOptions
<1>2. MeaningOf(Target) \in Meanings
  <2>1. Unknown \in Meanings
    <3>1. <<>> \in Seq(Instances \union {Junk})
      OBVIOUS
    <3> QED
      BY <3>1 DEF Unknown, Meanings
  <2> HIDE DEF Target
  <2> QED
    BY <2>1, CompatAssumption DEF MeaningOf
<1>3. /\ meaning' \in Meanings /\ asking' = "id" /\ began' = running /\ running' = running
      /\ faults' = 0
  BY <1>1, <1>2 DEF Resolve
<1>4. ValuesOK'
  BY <1>3 DEF ResolutionInv, ValuesOK, Resolvers
<1> QED
  BY <1>3, <1>4 DEF ResolutionInv, NothingBefore, ResolvedInOrder

\* add-proxy-command and the user touch the file only.
LEMMA ChangesBeside == ConfigChanges => Beside
BY DEF ConfigChanges, ReadsConfig, Truncates, WriteCompletes, BreaksOff, UserEdits

LEMMA StepKeepsResolution == ResolutionInv /\ [Next]_vars => ResolutionInv'
<1> SUFFICES ASSUME ResolutionInv, [Next]_vars PROVE ResolutionInv'
  OBVIOUS
<1>1. CASE ResolveTarget
  BY <1>1, IdStep, EC2Step, FailStep, DNSStep, ChangeStep DEF ResolveTarget, ResolveStep
<1>2. CASE MergeOptions
  BY <1>2, ResolveBegins
<1>3. ASSUME UNCHANGED resVars PROVE ResolutionInv'
  <2>1. ValuesOK' /\ (faults = 0 => NothingBefore)'
    BY <1>3, NameStays DEF resVars, ResolutionInv, ValuesOK, NothingBefore
  <2>2. ResolvedInOrder'
    BY <1>3, NameStays DEF resVars, ResolutionInv, ResolvedInOrder
  <2> QED
    BY <2>1, <2>2 DEF ResolutionInv
<1>4. CASE UNCHANGED vars
  BY <1>3, <1>4 DEF vars
<1>5. CASE ConfigChanges
  BY <1>3, <1>5, ChangesBeside DEF Beside
<1>6. CASE Invoke
  BY <1>3, <1>6 DEF Invoke
<1>7. CASE Parse \/ ParseFails
  BY <1>3, <1>7 DEF Parse, ParseFails
<1>8. CASE SetupFails \/ ResolveFails \/ StartsSession
  BY <1>3, <1>8 DEF SetupFails, ResolveFails, StartsSession
<1> QED
  BY <1>1, <1>2, <1>4, <1>5, <1>6, <1>7, <1>8 DEF Next

\* ResolveTargetChain: a name is resolved by the first resolver that knows it,
\* an alias never to one of several instances; with a call that fails or an
\* instance that changes in between the answer is still one the name has.
THEOREM NamesResolveInOrder == Spec => []ResolvedInOrder
<1>1. Init => ResolutionInv
  <2> SUFFICES ASSUME Init PROVE ResolutionInv
    OBVIOUS
  <2>1. asking = "idle" /\ faults = 0 /\ running = began /\ running \subseteq Instances
    BY CompatAssumption DEF Init
  <2> QED
    BY <2>1 DEF ResolutionInv, ValuesOK, NothingBefore, ResolvedInOrder
<1>2. ResolutionInv /\ [Next]_vars => ResolutionInv'
  BY StepKeepsResolution
<1>3. ResolutionInv => ResolvedInOrder
  BY DEF ResolutionInv
<1> QED
  BY <1>1, <1>2, <1>3, PTL DEF Spec

---------------------------------------------------------------------------
(* The command line.  The loop has taken the arguments in front of next     *)
(* for what they are, and args holds what they say: ArgsUpTo is what        *)
(* LineAsWritten claims of the whole line, claimed of its first positions.  *)

\* What the loop makes of the line: ArgsAsWritten where that says something.
LineAsWritten ==
  /\ phase = "refused" =>
       \/ Destination = 0
       \/ Split[argv[Destination]][2] = ""
       \/ \E n \in 2..(Destination - 1) : IsValue(n) /\ ~Accepts(argv[n - 1], argv[n])
  /\ phase = "parsed" =>
    /\ Destination # 0
    /\ args.host = Split[argv[Destination]][2] /\ args.host # ""
    /\ args.user = UserGiven
    /\ args.command = SubSeq(argv, Destination + 1, Len(argv))
    /\ args.identity = LastGiven("-i")
    /\ args.config = LastGiven("-F")
    /\ args.dynamic = LastGiven("-D")
    /\ args.port = IF LastGiven("-p") = None THEN 22 ELSE Number[LastGiven("-p")]
    /\ \A s \in Switches : s \in args.switches <=> SwitchGiven(s)
    /\ \A key \in {Lower[k] : k \in DOMAIN Lower} : GetOptionValues(args, key) = OptionGiven(key)

\* The flags with a value in front of position k, and what they were given.
GivenBefore(flag, k) == {n \in 1..(k - 1) : IsValue(n) /\ argv[n - 1] = flag}
LastBefore(flag, k) ==
  IF GivenBefore(flag, k) = {} THEN None ELSE argv[Max(GivenBefore(flag, k))]
SwitchBefore(s, k) ==
  \E n \in 1..(k - 1) :
    /\ ~IsValue(n) /\ Shape[argv[n]] \in {"switch", "letters"}
    /\ s \in Range(Letters[argv[n]])
NoneLater(m, k) ==
  \A l \in GivenBefore("-o", k) : l > m => OptionAt(l)[1] # OptionAt(m)[1]

ValuesUpTo(a, k) ==
  /\ a.user = LastBefore("-l", k)
  /\ a.identity = LastBefore("-i", k)
  /\ a.config = LastBefore("-F", k)
  /\ a.dynamic = LastBefore("-D", k)
  /\ a.port = IF LastBefore("-p", k) = None THEN 22 ELSE Number[LastBefore("-p", k)]
SwitchesUpTo(a, k) == \A s \in Switches : s \in a.switches <=> SwitchBefore(s, k)
OptionsUpTo(a, k) ==
  /\ \A m \in GivenBefore("-o", k) : OptionAt(m)[1] \in DOMAIN a.options
  /\ \A o \in DOMAIN a.options : \E m \in GivenBefore("-o", k) :
       OptionAt(m)[1] = o /\ NoneLater(m, k) /\ a.options[o] = OptionAt(m)[2]
ArgsUpTo(a, k) ==
  /\ DOMAIN a = DOMAIN NoArgs
  /\ ValuesUpTo(a, k) /\ SwitchesUpTo(a, k) /\ OptionsUpTo(a, k)

\* No destination in front of k, and none of the arguments there waits for a value.
NoWordBefore(k) ==
  \A n \in 1..(k - 1) : IsValue(n) \/ Shape[argv[n]] \notin {"word", "end"}
InFront(k) == NoWordBefore(k) /\ ~IsValue(k)

ParseInv ==
  /\ argv \in Seq(DOMAIN Shape)
  /\ next \in 1..(Len(argv) + 1)
  /\ stage = "shell" => phase = "before"
  /\ phase \in {"before", "flags"} => InFront(next) /\ ArgsUpTo(args, next)
  /\ phase = "rest" =>
       /\ next - 1 \in DOMAIN argv /\ InFront(next - 1) /\ Shape[argv[next - 1]] = "end"
       /\ ArgsUpTo(args, next)
  /\ LineAsWritten

\* Which positions hold values.

LEMMA Parity == \A c \in Nat : (c + 1) % 2 = 1 <=> c % 2 # 1
OBVIOUS

LEMMA AfterFlag ==
  ASSUME NEW n \in Nat \ {0}
  PROVE  /\ Shape[argv[n]] # "value" => ~IsValue(n + 1)
         /\ Shape[argv[n]] = "value" => (IsValue(n + 1) <=> ~IsValue(n))
<1>1. CASE Shape[argv[n]] # "value"
  <2>1. RunBefore(n + 1) = {}
    <3> SUFFICES ASSUME NEW k \in 1..n, \A m \in k..n : Shape[argv[m]] = "value"
                 PROVE  FALSE
      BY DEF RunBefore
    <3> QED
      BY <1>1
  <2>2. ~IsValue(n + 1)
    BY <2>1, FS_EmptySet DEF IsValue
  <2> QED
    BY <1>1, <2>2
<1>2. CASE Shape[argv[n]] = "value"
  <2>1. RunBefore(n) \subseteq 1..(n - 1) /\ IsFiniteSet(RunBefore(n)) /\ n \notin RunBefore(n)
    <3>1. RunBefore(n) \subseteq 1..(n - 1)
      BY DEF RunBefore
    <3>2. IsFiniteSet(1..(n - 1))
      BY FS_Interval
    <3> QED
      BY <3>1, <3>2, FS_Subset
  <2>2. RunBefore(n + 1) = RunBefore(n) \union {n}
    <3>1. ASSUME NEW k \in 1..(n - 1)
          PROVE  (\A m \in k..n : Shape[argv[m]] = "value")
                   <=> \A m \in k..(n - 1) : Shape[argv[m]] = "value"
      <4>1. \A m : m \in k..n <=> m \in k..(n - 1) \/ m = n
        OBVIOUS
      <4> QED
        BY <1>2, <4>1
    <3>2. \A m \in n..n : Shape[argv[m]] = "value"
      BY <1>2
    <3>3. (n + 1) - 1 = n /\ \A k : k \in 1..n <=> k \in 1..(n - 1) \/ k = n
      OBVIOUS
    <3> QED
      BY <3>1, <3>2, <3>3 DEF RunBefore
  <2>3. Cardinality(RunBefore(n + 1)) = Cardinality(RunBefore(n)) + 1
        /\ Cardinality(RunBefore(n)) \in Nat
    BY <2>1, <2>2, FS_AddElement, FS_CardinalityType
  <2> QED
    BY <1>2, <2>3, Parity DEF IsValue
<1> QED
  BY <1>1, <1>2

LEMMA FirstIsNoValue == ~IsValue(1)
<1>1. RunBefore(1) = {}
  BY DEF RunBefore
<1> QED
  BY <1>1, FS_EmptySet DEF IsValue

LEMMA MinIs ==
  ASSUME NEW S, S \subseteq Int, NEW n \in S, \A y \in S : n =< y
  PROVE  Min(S) = n
<1>1. \A x \in S : (\A y \in S : x =< y) => x = n
  OBVIOUS
<1> QED
  BY <1>1 DEF Min

LEMMA MaxIs ==
  ASSUME NEW S, S \subseteq Int, NEW n \in S, \A y \in S : n >= y
  PROVE  Max(S) = n
<1>1. \A x \in S : (\A y \in S : x >= y) => x = n
  OBVIOUS
<1> QED
  BY <1>1 DEF Max

\* The destination is the first argument that is neither a flag nor a value.
LEMMA DestinationIs ==
  ASSUME argv \in Seq(DOMAIN Shape), NEW k \in DOMAIN argv, InFront(k),
         Shape[argv[k]] \in {"word", "end"}
  PROVE  Destination = IF Shape[argv[k]] = "word" THEN k ELSE IF k < Len(argv) THEN k + 1 ELSE 0
<1> DEFINE ds == {n \in DOMAIN argv : ~IsValue(n) /\ Shape[argv[n]] \in {"word", "end"}}
<1>1. DOMAIN argv = 1..Len(argv) /\ Len(argv) \in Nat
  OBVIOUS
<1>2. k \in ds /\ ds \subseteq Int
  BY <1>1 DEF InFront
<1>3. \A n \in ds : k =< n
  BY <1>1 DEF InFront, NoWordBefore
<1>4. Min(ds) = k
  <2> HIDE DEF ds
  <2> QED
    BY <1>2, <1>3, MinIs
<1>5. Destination = IF ds = {} THEN 0
                    ELSE IF Shape[argv[Min(ds)]] = "word" THEN Min(ds)
                    ELSE IF Min(ds) < Len(argv) THEN Min(ds) + 1 ELSE 0
  BY DEF Destination
<1> HIDE DEF ds
<1> QED
  BY <1>2, <1>4, <1>5

LEMMA DestinationBehind ==
  ASSUME argv \in Seq(DOMAIN Shape), NEW k \in 1..(Len(argv) + 1), NoWordBefore(k)
  PROVE  Destination = 0 \/ (k =< Destination /\ Destination \in DOMAIN argv)
<1> DEFINE ds == {n \in DOMAIN argv : ~IsValue(n) /\ Shape[argv[n]] \in {"word", "end"}}
<1>1. DOMAIN argv = 1..Len(argv) /\ Len(argv) \in Nat
  OBVIOUS
<1>2. \A n \in ds : k =< n
  BY <1>1 DEF NoWordBefore
<1>3. Destination = IF ds = {} THEN 0
                    ELSE IF Shape[argv[Min(ds)]] = "word" THEN Min(ds)
                    ELSE IF Min(ds) < Len(argv) THEN Min(ds) + 1 ELSE 0
  BY DEF Destination
<1>4. ds # {} => Min(ds) \in ds
  <2> SUFFICES ASSUME ds # {} PROVE Min(ds) \in ds
    OBVIOUS
  <2>1. ds \subseteq Nat
    BY <1>1
  <2> HIDE DEF ds
  <2> QED
    BY <2>1, LeastIsIn
<1>5. ds \subseteq 1..Len(argv)
  BY <1>1
<1> HIDE DEF ds
<1> QED
  BY <1>1, <1>2, <1>3, <1>4, <1>5

---------------------------------------------------------------------------
\* One argument more.

LEMMA OneMore ==
  ASSUME NEW k \in Nat \ {0}
  PROVE  /\ \A f : GivenBefore(f, k + 1) =
              IF IsValue(k) /\ argv[k - 1] = f THEN GivenBefore(f, k) \union {k}
              ELSE GivenBefore(f, k)
         /\ \A f : LastBefore(f, k + 1) =
              IF IsValue(k) /\ argv[k - 1] = f THEN argv[k] ELSE LastBefore(f, k)
         /\ \A s : SwitchBefore(s, k + 1) <=>
              \/ SwitchBefore(s, k)
              \/ /\ ~IsValue(k) /\ Shape[argv[k]] \in {"switch", "letters"}
                 /\ s \in Range(Letters[argv[k]])
         /\ NoWordBefore(k + 1) <=>
              NoWordBefore(k) /\ (IsValue(k) \/ Shape[argv[k]] \notin {"word", "end"})
<1>1. (k + 1) - 1 = k /\ \A n : n \in 1..k <=> n \in 1..(k - 1) \/ n = k
  OBVIOUS
<1>2. ASSUME NEW f
      PROVE  GivenBefore(f, k + 1) =
               IF IsValue(k) /\ argv[k - 1] = f THEN GivenBefore(f, k) \union {k}
               ELSE GivenBefore(f, k)
  <2>1. GivenBefore(f, k + 1) = {n \in 1..k : IsValue(n) /\ argv[n - 1] = f}
    BY <1>1 DEF GivenBefore
  <2> QED
    BY <1>1, <2>1 DEF GivenBefore
<1>3. ASSUME NEW f
      PROVE  LastBefore(f, k + 1) =
               IF IsValue(k) /\ argv[k - 1] = f THEN argv[k] ELSE LastBefore(f, k)
  <2>1. CASE IsValue(k) /\ argv[k - 1] = f
    <3>1. GivenBefore(f, k + 1) = GivenBefore(f, k) \union {k}
      BY <1>2, <2>1
    <3>2. GivenBefore(f, k) \subseteq 1..(k - 1)
      BY DEF GivenBefore
    <3>3. Max(GivenBefore(f, k) \union {k}) = k
      <4> DEFINE S == GivenBefore(f, k) \union {k}
      <4>1. S \subseteq Int /\ k \in S /\ \A y \in S : k >= y
        BY <3>2
      <4> HIDE DEF S
      <4>2. \A n \in S : (\A y \in S : n >= y) => n = k
        BY <4>1
      <4>3. Max(S) = CHOOSE n \in S : \A y \in S : n >= y
        BY DEF Max
      <4>4. Max(S) = k
        BY <4>1, <4>2, <4>3
      <4> QED
        BY <4>4 DEF S
    <3> QED
      BY <2>1, <3>1, <3>3 DEF LastBefore
  <2>2. CASE ~(IsValue(k) /\ argv[k - 1] = f)
    <3>1. GivenBefore(f, k + 1) = GivenBefore(f, k)
      BY <1>2, <2>2
    <3>2. LastBefore(f, k + 1) = LastBefore(f, k)
      BY <3>1, Zenon DEF LastBefore
    <3> QED
      BY <2>2, <3>2
  <2> QED
    BY <2>1, <2>2
<1>4. ASSUME NEW s
      PROVE  SwitchBefore(s, k + 1) <=>
              \/ SwitchBefore(s, k)
              \/ /\ ~IsValue(k) /\ Shape[argv[k]] \in {"switch", "letters"}
                 /\ s \in Range(Letters[argv[k]])
  BY <1>1 DEF SwitchBefore
<1>5. NoWordBefore(k + 1) <=>
        NoWordBefore(k) /\ (IsValue(k) \/ Shape[argv[k]] \notin {"word", "end"})
  BY <1>1 DEF NoWordBefore
<1> QED
  BY <1>2, <1>3, <1>4, <1>5

\* An argument that is no value and no switch says nothing.
LEMMA SaysNothing ==
  ASSUME NEW k \in Nat \ {0}, NEW a, ~IsValue(k), Shape[argv[k]] \notin {"switch", "letters"},
         ArgsUpTo(a, k)
  PROVE  ArgsUpTo(a, k + 1)
<1>1. /\ \A f : GivenBefore(f, k + 1) = GivenBefore(f, k)
      /\ \A f : LastBefore(f, k + 1) = LastBefore(f, k)
      /\ \A s : SwitchBefore(s, k + 1) <=> SwitchBefore(s, k)
  BY OneMore
<1>2. ValuesUpTo(a, k + 1) /\ SwitchesUpTo(a, k + 1)
  BY <1>1 DEF ArgsUpTo, ValuesUpTo, SwitchesUpTo
<1>3. OptionsUpTo(a, k + 1)
  <2>1. \A m : NoneLater(m, k + 1) <=> NoneLater(m, k)
    BY <1>1 DEF NoneLater
  <2> QED
    BY <1>1, <2>1 DEF ArgsUpTo, OptionsUpTo
<1> QED
  BY <1>2, <1>3 DEF ArgsUpTo

\* A switch, or letters behind one dash.
LEMMA SwitchSays ==
  ASSUME NEW k \in Nat \ {0}, ~IsValue(k), Shape[argv[k]] \in {"switch", "letters"},
         ArgsUpTo(args, k)
  PROVE  ArgsUpTo(Switched(argv[k]), k + 1)
<1> DEFINE b == Switched(argv[k])
<1>1. /\ \A f : GivenBefore(f, k + 1) = GivenBefore(f, k)
      /\ \A f : LastBefore(f, k + 1) = LastBefore(f, k)
      /\ \A s : SwitchBefore(s, k + 1) <=>
           SwitchBefore(s, k) \/ s \in Range(Letters[argv[k]])
  BY OneMore
<1>2. DOMAIN args = DOMAIN NoArgs
  BY DEF ArgsUpTo
<1>3. /\ DOMAIN b = DOMAIN NoArgs
      /\ b.identity = args.identity /\ b.config = args.config /\ b.dynamic = args.dynamic
      /\ b.user = args.user /\ b.port = args.port /\ b.options = args.options
      /\ b.switches = args.switches \union (Range(Letters[argv[k]]) \intersect Switches)
  BY <1>2 DEF Switched, NoArgs
<1> HIDE DEF b
<1>4. ValuesUpTo(b, k + 1)
  BY <1>1, <1>3 DEF ArgsUpTo, ValuesUpTo
<1>5. SwitchesUpTo(b, k + 1)
  BY <1>1, <1>3 DEF ArgsUpTo, SwitchesUpTo
<1>6. OptionsUpTo(b, k + 1)
  <2>1. \A m : NoneLater(m, k + 1) <=> NoneLater(m, k)
    BY <1>1 DEF NoneLater
  <2> QED
    BY <1>1, <1>3, <2>1 DEF ArgsUpTo, OptionsUpTo
<1> QED
  BY <1>3, <1>4, <1>5, <1>6 DEF ArgsUpTo, b

\* A value.
ValueFlags == {"-o", "-i", "-F", "-l", "-p", "-D"}
LEMMA ValueSays ==
  ASSUME NEW k \in Nat \ {0}, NEW flag \in ValueFlags, IsValue(k), argv[k - 1] = flag,
         argv[k] \in DOMAIN Shape, ArgsUpTo(args, k)
  PROVE  ArgsUpTo(WithValue(flag, argv[k]), k + 1)
<1> DEFINE v == argv[k]
           b == WithValue(flag, v)
<1>1. /\ \A f : LastBefore(f, k + 1) = IF f = flag THEN v ELSE LastBefore(f, k)
      /\ \A f : GivenBefore(f, k + 1) =
           IF f = flag THEN GivenBefore(f, k) \union {k} ELSE GivenBefore(f, k)
      /\ \A s : SwitchBefore(s, k + 1) <=> SwitchBefore(s, k)
  BY OneMore
<1>2. DOMAIN args = DOMAIN NoArgs /\ v # None
  BY ArgumentsAssumption DEF ArgsUpTo
<1>3. /\ DOMAIN b = DOMAIN NoArgs
      /\ b.user = IF flag = "-l" THEN v ELSE args.user
      /\ b.identity = IF flag = "-i" THEN v ELSE args.identity
      /\ b.config = IF flag = "-F" THEN v ELSE args.config
      /\ b.dynamic = IF flag = "-D" THEN v ELSE args.dynamic
      /\ b.port = IF flag = "-p" THEN Number[v] ELSE args.port
      /\ b.options = IF flag = "-o" THEN Stored(args.options, OptionOf[v]) ELSE args.options
      /\ b.switches = args.switches
  <2> HIDE DEF v
  <2>1. CASE flag = "-o"
    BY <1>2, <2>1 DEF WithValue, NoArgs
  <2>2. CASE flag = "-i"
    BY <1>2, <2>2 DEF WithValue, NoArgs
  <2>3. CASE flag = "-F"
    BY <1>2, <2>3 DEF WithValue, NoArgs
  <2>4. CASE flag = "-l"
    BY <1>2, <2>4 DEF WithValue, NoArgs
  <2>5. CASE flag = "-p"
    BY <1>2, <2>5 DEF WithValue, NoArgs
  <2>6. CASE flag = "-D"
    BY <1>2, <2>6 DEF WithValue, NoArgs
  <2> QED
    BY <2>1, <2>2, <2>3, <2>4, <2>5, <2>6 DEF ValueFlags
<1> HIDE DEF b
<1>4. ValuesUpTo(b, k + 1)
  BY <1>1, <1>2, <1>3 DEF ArgsUpTo, ValuesUpTo
<1>5. SwitchesUpTo(b, k + 1)
  BY <1>1, <1>3 DEF ArgsUpTo, SwitchesUpTo
<1>6. CASE flag # "-o"
  <2>1. \A m : NoneLater(m, k + 1) <=> NoneLater(m, k)
    BY <1>1, <1>6 DEF NoneLater
  <2>2. OptionsUpTo(b, k + 1)
    <3>1. GivenBefore("-o", k + 1) = GivenBefore("-o", k) /\ b.options = args.options
      BY <1>1, <1>3, <1>6
    <3>2. OptionsUpTo(args, k)
      BY DEF ArgsUpTo
    <3> QED
      BY <2>1, <3>1, <3>2 DEF OptionsUpTo
  <2> QED
    BY <1>3, <1>4, <1>5, <2>2 DEF ArgsUpTo, b
<1>7. CASE flag = "-o"
  <2> DEFINE key == OptionAt(k)[1]
  <2>1. GivenBefore("-o", k + 1) = GivenBefore("-o", k) \union {k}
    BY <1>1, <1>7
  <2>2. \A m \in GivenBefore("-o", k) : m \in Nat /\ m < k
    BY DEF GivenBefore
  <2>3. /\ DOMAIN b.options = DOMAIN args.options \union {key}
        /\ b.options[key] = OptionAt(k)[2]
        /\ \A o \in DOMAIN args.options \ {key} : b.options[o] = args.options[o]
    BY <1>3, <1>7 DEF Stored, OptionAt
  <2>4. NoneLater(k, k + 1)
    BY <2>1, <2>2 DEF NoneLater
  <2>5. \A m \in GivenBefore("-o", k) :
          NoneLater(m, k) /\ OptionAt(m)[1] # key => NoneLater(m, k + 1)
    BY <2>1 DEF NoneLater
  <2>6. \A m \in GivenBefore("-o", k + 1) : OptionAt(m)[1] \in DOMAIN b.options
    BY <2>1, <2>3 DEF ArgsUpTo, OptionsUpTo
  <2>7. ASSUME NEW o \in DOMAIN b.options
        PROVE  \E m \in GivenBefore("-o", k + 1) :
                 OptionAt(m)[1] = o /\ NoneLater(m, k + 1) /\ b.options[o] = OptionAt(m)[2]
    <3>1. CASE o = key
      BY <2>1, <2>3, <2>4, <3>1
    <3>2. CASE o # key
      <4>1. o \in DOMAIN args.options /\ b.options[o] = args.options[o]
        BY <2>3, <3>2
      <4>2. PICK m \in GivenBefore("-o", k) :
              OptionAt(m)[1] = o /\ NoneLater(m, k) /\ args.options[o] = OptionAt(m)[2]
        BY <4>1 DEF ArgsUpTo, OptionsUpTo
      <4> QED
        BY <2>1, <2>5, <3>2, <4>1, <4>2
    <3> QED
      BY <3>1, <3>2
  <2>8. OptionsUpTo(b, k + 1)
    BY <2>6, <2>7 DEF OptionsUpTo
  <2> QED
    BY <1>3, <1>4, <1>5, <2>8 DEF ArgsUpTo, b
<1> QED
  BY <1>6, <1>7

---------------------------------------------------------------------------
\* The whole line.

\* What the flags in front of the destination say, said as LineAsWritten does.
LEMMA SaidInAll ==
  ASSUME NEW a, ArgsUpTo(a, Destination)
  PROVE  /\ a.user = LastGiven("-l")
         /\ a.identity = LastGiven("-i")
         /\ a.config = LastGiven("-F")
         /\ a.dynamic = LastGiven("-D")
         /\ a.port = IF LastGiven("-p") = None THEN 22 ELSE Number[LastGiven("-p")]
         /\ \A s \in Switches : s \in a.switches <=> SwitchGiven(s)
         /\ \A key : GetOptionValues(a, key) = OptionGiven(key)
<1>1. \A f : GivenAt(f) = GivenBefore(f, Destination)
  BY DEF GivenAt, GivenBefore
<1>2. \A f : LastGiven(f) = LastBefore(f, Destination)
  <2> TAKE f
  <2>1. GivenAt(f) = GivenBefore(f, Destination)
    BY <1>1
  <2> QED
    BY <2>1, Zenon DEF LastGiven, LastBefore
<1>3. \A s : SwitchGiven(s) <=> SwitchBefore(s, Destination)
  BY DEF SwitchGiven, SwitchBefore
<1>4. ASSUME NEW key PROVE GetOptionValues(a, key) = OptionGiven(key)
  <2> DEFINE G == GivenBefore("-o", Destination)
             Lasts == {m \in G : Lower[OptionAt(m)[1]] = key /\ NoneLater(m, Destination)}
  <2>1. OptionGiven(key) = {OptionAt(n)[2] : n \in Lasts}
    BY <1>1 DEF OptionGiven, NoneLater
  <2>2. GetOptionValues(a, key) =
          {a.options[k] : k \in {o \in DOMAIN a.options : Lower[o] = key}}
    BY DEF GetOptionValues
  <2>3. /\ \A m \in G : OptionAt(m)[1] \in DOMAIN a.options
        /\ \A o \in DOMAIN a.options : \E m \in G :
             OptionAt(m)[1] = o /\ NoneLater(m, Destination) /\ a.options[o] = OptionAt(m)[2]
    BY DEF ArgsUpTo, OptionsUpTo
  <2>4. \A m, n \in G : NoneLater(m, Destination) /\ NoneLater(n, Destination)
                          /\ OptionAt(m)[1] = OptionAt(n)[1] => m = n
    <3>1. \A m, n \in G : m \in Int /\ n \in Int /\ (m > n \/ n > m \/ m = n)
      BY DEF GivenBefore
    <3> QED
      BY <3>1 DEF NoneLater
  <2>5. ASSUME NEW m \in Lasts
        PROVE  OptionAt(m)[1] \in DOMAIN a.options
               /\ a.options[OptionAt(m)[1]] = OptionAt(m)[2]
    <3>1. OptionAt(m)[1] \in DOMAIN a.options
      BY <2>3
    <3>2. PICK n \in G : /\ OptionAt(n)[1] = OptionAt(m)[1] /\ NoneLater(n, Destination)
                         /\ a.options[OptionAt(m)[1]] = OptionAt(n)[2]
      BY <2>3, <3>1
    <3>3. m = n
      BY <2>4, <3>2
    <3> QED
      BY <3>1, <3>2, <3>3
  <2>6. ASSUME NEW o \in DOMAIN a.options, Lower[o] = key
        PROVE  \E m \in Lasts : a.options[o] = OptionAt(m)[2]
    BY <2>3, <2>6
  <2> HIDE DEF G
  <2> QED
    BY <2>1, <2>2, <2>5, <2>6
<1> QED
  BY <1>2, <1>3, <1>4 DEF ArgsUpTo, ValuesUpTo, SwitchesUpTo

\* The line stays as it is, and so does what can be said of it.
LEMMA SameLine ==
  ASSUME argv' = argv
  PROVE  /\ Destination' = Destination
         /\ \A n : (IsValue(n))' <=> IsValue(n)
         /\ \A f : (LastGiven(f))' = LastGiven(f)
         /\ \A s : (SwitchGiven(s))' <=> SwitchGiven(s)
         /\ \A key : (OptionGiven(key))' = OptionGiven(key)
         /\ UserGiven' = UserGiven
         /\ \A k : (InFront(k))' <=> InFront(k)
         /\ \A a, k : (ArgsUpTo(a, k))' <=> ArgsUpTo(a, k)
<1>1. \A n : (IsValue(n))' <=> IsValue(n)
  BY DEF IsValue, RunBefore
<1>2. Destination' = Destination
  BY <1>1 DEF Destination
<1>3. /\ \A f : (GivenAt(f))' = GivenAt(f)
      /\ \A f, k : (GivenBefore(f, k))' = GivenBefore(f, k)
      /\ \A n : (OptionAt(n))' = OptionAt(n)
  BY <1>1, <1>2 DEF GivenAt, GivenBefore, OptionAt
<1>4. \A f : (LastGiven(f))' = LastGiven(f)
  BY <1>3 DEF LastGiven
<1>5. \A s : (SwitchGiven(s))' <=> SwitchGiven(s)
  BY <1>1, <1>2 DEF SwitchGiven
<1>6. \A key : (OptionGiven(key))' = OptionGiven(key)
  BY <1>3 DEF OptionGiven
<1>7. \A k : (InFront(k))' <=> InFront(k)
  BY <1>1 DEF InFront, NoWordBefore
<1>8. \A f, k : (LastBefore(f, k))' = LastBefore(f, k)
  BY <1>3 DEF LastBefore
<1>9. \A s, k : (SwitchBefore(s, k))' <=> SwitchBefore(s, k)
  BY <1>1 DEF SwitchBefore
<1>10. \A m, k : (NoneLater(m, k))' <=> NoneLater(m, k)
  BY <1>3 DEF NoneLater
<1>11. \A a, k : (ArgsUpTo(a, k))' <=> ArgsUpTo(a, k)
  BY <1>3, <1>8, <1>9, <1>10 DEF ArgsUpTo, ValuesUpTo, SwitchesUpTo, OptionsUpTo
<1>12. UserGiven' = UserGiven
  BY <1>2, <1>4 DEF UserGiven
<1> QED
  BY <1>1, <1>2, <1>4, <1>5, <1>6, <1>7, <1>11, <1>12

\* The loop goes on.
LEMMA LoopGoesOn ==
  ASSUME ParseInv, argv' = argv, stage' # "shell", next' \in 1..(Len(argv) + 1), phase' = "flags",
         InFront(next'), ArgsUpTo(args', next')
  PROVE  ParseInv'
<1>1. (InFront(next))' /\ (ArgsUpTo(args, next))'
  BY SameLine
<1>2. LineAsWritten'
  BY DEF LineAsWritten
<1> QED
  BY <1>1, <1>2 DEF ParseInv

\* The line is refused.
LEMMA LineRefused ==
  ASSUME ParseInv, argv' = argv, stage' # "shell", next' \in 1..(Len(argv) + 1),
         phase' = "refused",
         \/ Destination = 0
         \/ Split[argv[Destination]][2] = ""
         \/ \E n \in 2..(Destination - 1) : IsValue(n) /\ ~Accepts(argv[n - 1], argv[n])
  PROVE  ParseInv'
<1>1. LineAsWritten'
  <2>1. \A f, v : (Accepts(f, v))' <=> Accepts(f, v)
    BY DEF Accepts
  <2>2. Destination' = Destination /\ \A n : (IsValue(n))' <=> IsValue(n)
    BY SameLine
  <2>3. CASE Destination = 0
    BY <2>2, <2>3 DEF LineAsWritten
  <2>4. CASE Split[argv[Destination]][2] = ""
    BY <2>2, <2>4 DEF LineAsWritten
  <2>5. CASE \E n \in 2..(Destination - 1) : IsValue(n) /\ ~Accepts(argv[n - 1], argv[n])
    BY <2>1, <2>2, <2>5 DEF LineAsWritten
  <2> QED
    BY <2>3, <2>4, <2>5
<1> QED
  BY <1>1 DEF ParseInv

LEMMA ValueTaken == ParseInv /\ stage' # "shell" /\ TakesValue => ParseInv'
<1> SUFFICES ASSUME ParseInv, stage' # "shell", TakesValue PROVE ParseInv'
  OBVIOUS
<1> DEFINE flag == argv[next]
           v == argv[next + 1]
<1>1. /\ argv \in Seq(DOMAIN Shape) /\ next \in Nat \ {0} /\ next + 1 \in Nat \ {0}
      /\ Len(argv) \in Nat /\ next + 1 =< Len(argv)
      /\ flag \in DOMAIN Shape /\ v \in DOMAIN Shape
      /\ argv' = argv /\ next' = next + 2 /\ phase' = "flags"
      /\ args' = WithValue(flag, v)
      /\ InFront(next) /\ ArgsUpTo(args, next) /\ Shape[flag] = "value"
  BY DEF TakesValue, Here, Advance, ParseInv
<1>2. flag \in ValueFlags
  BY <1>1, ArgumentsAssumption DEF ValueFlags
<1>3. ArgsUpTo(args, next + 1)
  BY <1>1, SaysNothing DEF InFront
<1>4. IsValue(next + 1)
  BY <1>1, AfterFlag DEF InFront
<1>5. ArgsUpTo(args', next + 2)
  <2>1. (next + 1) - 1 = next /\ (next + 1) + 1 = next + 2
    BY <1>1
  <2>2. ArgsUpTo(WithValue(flag, v), (next + 1) + 1)
    BY <1>1, <1>2, <1>3, <1>4, <2>1, ValueSays
  <2> QED
    BY <1>1, <2>1, <2>2
<1>6. InFront(next + 2)
  <2>1. (next + 1) + 1 = next + 2
    BY <1>1
  <2>2. NoWordBefore(next + 1)
    BY <1>1, OneMore DEF InFront
  <2>3. NoWordBefore((next + 1) + 1)
    BY <1>1, <1>4, <2>2, OneMore
  <2>4. ~IsValue((next + 1) + 1)
    BY <1>1, <1>4, AfterFlag
  <2> QED
    BY <2>1, <2>3, <2>4 DEF InFront
<1>7. next' \in 1..(Len(argv) + 1)
  BY <1>1
<1> HIDE DEF flag, v
<1> QED
  BY <1>1, <1>5, <1>6, <1>7, LoopGoesOn

LEMMA ValueMissing == ParseInv /\ stage' # "shell" /\ ValueRefused => ParseInv'
<1> SUFFICES ASSUME ParseInv, stage' # "shell", ValueRefused PROVE ParseInv'
  OBVIOUS
<1>1. /\ argv \in Seq(DOMAIN Shape) /\ next \in Nat \ {0} /\ next + 1 \in Nat \ {0}
      /\ Len(argv) \in Nat /\ next =< Len(argv)
      /\ argv' = argv /\ next' = next /\ phase' = "refused"
      /\ InFront(next) /\ Shape[argv[next]] = "value"
      /\ (next < Len(argv) => ~Accepts(argv[next], argv[next + 1]))
  BY DEF ValueRefused, Here, Refuse, ParseInv
<1>2. NoWordBefore(next + 1) /\ IsValue(next + 1)
  BY <1>1, OneMore, AfterFlag DEF InFront
<1>3. CASE next = Len(argv)
  <2>1. Destination = 0
    BY <1>1, <1>2, <1>3, DestinationBehind
  <2> QED
    BY <1>1, <2>1, LineRefused
<1>4. CASE next < Len(argv)
  <2>1. NoWordBefore((next + 1) + 1) /\ (next + 1) + 1 \in 1..(Len(argv) + 1)
    BY <1>1, <1>2, <1>4, OneMore
  <2>2. Destination = 0 \/ ((next + 1) + 1 =< Destination /\ Destination \in DOMAIN argv)
    BY <1>1, <2>1, DestinationBehind
  <2>3. CASE Destination = 0
    BY <1>1, <2>3, LineRefused
  <2>4. CASE (next + 1) + 1 =< Destination /\ Destination \in DOMAIN argv
    <3>1. next + 1 \in 2..(Destination - 1) /\ (next + 1) - 1 = next
      BY <1>1, <2>4
    <3>2. \E n \in 2..(Destination - 1) : IsValue(n) /\ ~Accepts(argv[n - 1], argv[n])
      BY <1>1, <1>2, <1>4, <3>1
    <3>3. next' \in 1..(Len(argv) + 1)
      BY <1>1
    <3> QED
      BY <1>1, <3>2, <3>3, LineRefused, Zenon
  <2> QED
    BY <2>2, <2>3, <2>4
<1> QED
  BY <1>1, <1>3, <1>4

LEMMA FlagTaken ==
  ASSUME ParseInv, stage' # "shell", TakesSwitch \/ SkipsUnknown
  PROVE  ParseInv'
<1>1. /\ argv \in Seq(DOMAIN Shape) /\ next \in Nat \ {0} /\ Len(argv) \in Nat
      /\ next =< Len(argv) /\ argv' = argv /\ next' = next + 1 /\ phase' = "flags"
      /\ InFront(next) /\ ArgsUpTo(args, next)
      /\ Shape[argv[next]] \in {"switch", "letters", "unknown"}
  BY DEF TakesSwitch, SkipsUnknown, Here, Advance, ParseInv
<1>2. InFront(next + 1)
  BY <1>1, OneMore, AfterFlag DEF InFront
<1>3. ArgsUpTo(args', next + 1)
  <2>1. CASE TakesSwitch
    <3>1. args' = Switched(argv[next]) /\ Shape[argv[next]] \in {"switch", "letters"}
      BY <2>1 DEF TakesSwitch, Here, Advance
    <3> QED
      BY <1>1, <3>1, SwitchSays DEF InFront
  <2>2. CASE SkipsUnknown
    <3>1. args' = args /\ Shape[argv[next]] = "unknown"
      BY <2>2 DEF SkipsUnknown, Here, Advance
    <3> QED
      BY <1>1, <3>1, SaysNothing DEF InFront
  <2> QED
    BY <2>1, <2>2
<1>4. next' \in 1..(Len(argv) + 1)
  BY <1>1
<1> QED
  BY <1>1, <1>2, <1>3, <1>4, LoopGoesOn

LEMMA EndTaken == ParseInv /\ stage' # "shell" /\ TakesEnd => ParseInv'
<1> SUFFICES ASSUME ParseInv, stage' # "shell", TakesEnd PROVE ParseInv'
  OBVIOUS
<1>1. /\ argv \in Seq(DOMAIN Shape) /\ next \in Nat \ {0} /\ Len(argv) \in Nat
      /\ next =< Len(argv) /\ argv' = argv /\ next' = next + 1 /\ phase' = "rest"
      /\ args' = args /\ InFront(next) /\ ArgsUpTo(args, next)
      /\ Shape[argv[next]] = "end"
  BY DEF TakesEnd, Here, Advance, ParseInv
<1>2. ArgsUpTo(args', next + 1)
  BY <1>1, SaysNothing DEF InFront
<1>3. /\ next' \in 1..(Len(argv) + 1) /\ next' - 1 = next /\ next \in DOMAIN argv
  BY <1>1
<1>4. (InFront(next - 1))' /\ (ArgsUpTo(args, next))'
  <2>1. InFront(next' - 1) /\ ArgsUpTo(args', next')
    BY <1>1, <1>2, <1>3
  <2> QED
    BY <1>1, <2>1, SameLine
<1>5. LineAsWritten'
  BY <1>1 DEF LineAsWritten
<1> QED
  BY <1>1, <1>3, <1>4, <1>5 DEF ParseInv

\* Where the loop meets the destination.
LEMMA DestinationMet ==
  ASSUME ParseInv, next =< Len(argv), phase = "rest" \/ Here("word")
  PROVE  Destination = next /\ ArgsUpTo(args, next)
<1>1. argv \in Seq(DOMAIN Shape) /\ next \in 1..(Len(argv) + 1) /\ Len(argv) \in Nat
      /\ next \in DOMAIN argv
  BY DEF ParseInv
<1>2. CASE phase = "rest"
  <2>1. /\ next - 1 \in DOMAIN argv /\ InFront(next - 1) /\ Shape[argv[next - 1]] = "end"
        /\ ArgsUpTo(args, next) /\ next - 1 < Len(argv) /\ (next - 1) + 1 = next
    BY <1>1, <1>2 DEF ParseInv
  <2> QED
    BY <1>1, <2>1, DestinationIs
<1>3. CASE Here("word")
  <2>1. InFront(next) /\ ArgsUpTo(args, next) /\ Shape[argv[next]] = "word"
    BY <1>3 DEF ParseInv, Here
  <2> QED
    BY <1>1, <2>1, DestinationIs
<1> QED
  BY <1>2, <1>3

LEMMA DestinationTaken == ParseInv /\ stage' # "shell" /\ TakesDestination => ParseInv'
<1> SUFFICES ASSUME ParseInv, stage' # "shell", TakesDestination PROVE ParseInv'
  OBVIOUS
<1> DEFINE d == Split[argv[next]]
<1>0. /\ args' = [args EXCEPT !.user = IF @ = None /\ d[1] # "" THEN d[1] ELSE @,
                               !.host = d[2],
                               !.command = SubSeq(argv, next + 1, Len(argv))]
      /\ phase' = IF d[2] = "" THEN "refused" ELSE "parsed"
  BY Zenon DEF TakesDestination
<1>1. /\ argv \in Seq(DOMAIN Shape) /\ next \in Nat \ {0} /\ Len(argv) \in Nat
      /\ argv' = argv /\ next' = Len(argv) + 1
  <2>1. argv' = argv /\ next' = Len(argv) + 1
    BY Zenon DEF TakesDestination
  <2> QED
    BY <2>1 DEF ParseInv
<1>2. Destination = next /\ ArgsUpTo(args, next)
  BY DestinationMet DEF TakesDestination
<1>3. next' \in 1..(Len(argv) + 1)
  BY <1>1
<1>4. CASE d[2] = ""
  BY <1>0, <1>1, <1>2, <1>3, <1>4, LineRefused
<1>5. CASE d[2] # ""
  <2>1. /\ DOMAIN args' = DOMAIN NoArgs
        /\ args'.user = (IF args.user = None /\ d[1] # "" THEN d[1] ELSE args.user)
        /\ args'.host = d[2] /\ args'.command = SubSeq(argv, next + 1, Len(argv))
        /\ args'.identity = args.identity /\ args'.config = args.config
        /\ args'.dynamic = args.dynamic /\ args'.port = args.port
        /\ args'.switches = args.switches /\ args'.options = args.options
    <3>1. DOMAIN args = DOMAIN NoArgs
      BY <1>2 DEF ArgsUpTo
    <3> HIDE DEF d
    <3> QED
      BY <1>0, <3>1 DEF NoArgs
  <2>3. /\ args.user = LastGiven("-l")
        /\ args'.identity = LastGiven("-i")
        /\ args'.config = LastGiven("-F")
        /\ args'.dynamic = LastGiven("-D")
        /\ args'.port = IF LastGiven("-p") = None THEN 22 ELSE Number[LastGiven("-p")]
        /\ \A s \in Switches : s \in args'.switches <=> SwitchGiven(s)
        /\ \A key : GetOptionValues(args', key) = OptionGiven(key)
    <3>1. \A key : GetOptionValues(args', key) = GetOptionValues(args, key)
      BY <2>1 DEF GetOptionValues
    <3> QED
      BY <1>2, <2>1, <3>1, SaidInAll
  <2>4. LineAsWritten'
    <3>1. Destination' = Destination /\ Destination # 0
      BY <1>1, <1>2, SameLine
    <3>2. phase' = "parsed"
      BY <1>0, <1>5
    <3>3. /\ (args.identity = LastGiven("-i"))'
          /\ (args.config = LastGiven("-F"))'
          /\ (args.dynamic = LastGiven("-D"))'
          /\ (args.port = IF LastGiven("-p") = None THEN 22 ELSE Number[LastGiven("-p")])'
          /\ (\A s \in Switches : s \in args.switches <=> SwitchGiven(s))'
      BY <1>1, <2>3, SameLine
    <3>4. (\A key : GetOptionValues(args, key) = OptionGiven(key))'
      BY <1>1, <2>3, SameLine
    <3>6. args'.user = UserGiven
      BY <1>2, <2>1, <2>3 DEF UserGiven
    <3>7. (args.user = UserGiven)'
      BY <1>1, <3>6, SameLine
    <3> HIDE DEF d
    <3>5. /\ (args.host = Split[argv[Destination]][2] /\ args.host # "")'
          /\ (args.command = SubSeq(argv, Destination + 1, Len(argv)))'
      BY <1>1, <1>2, <1>5, <2>1, <3>1 DEF d
    <3> QED
      BY <3>1, <3>2, <3>3, <3>4, <3>5, <3>7 DEF LineAsWritten
  <2> QED
    BY <1>0, <1>1, <1>3, <1>5, <2>4 DEF ParseInv
<1> QED
  BY <1>4, <1>5

LEMMA NoneTaken == ParseInv /\ stage' # "shell" /\ NoDestination => ParseInv'
<1> SUFFICES ASSUME ParseInv, stage' # "shell", NoDestination PROVE ParseInv'
  OBVIOUS
<1>1. /\ argv \in Seq(DOMAIN Shape) /\ Len(argv) \in Nat /\ next = Len(argv) + 1
      /\ argv' = argv /\ next' = next /\ phase' = "refused"
  BY DEF NoDestination, Refuse, ParseInv
<1>2. Destination = 0
  <2>1. CASE phase = "flags"
    <3>1. NoWordBefore(next)
      BY <2>1 DEF ParseInv, InFront
    <3> QED
      BY <1>1, <3>1, DestinationBehind
  <2>2. CASE phase = "rest"
    <3>1. /\ next - 1 \in DOMAIN argv /\ InFront(next - 1) /\ Shape[argv[next - 1]] = "end"
          /\ next - 1 = Len(argv)
      BY <1>1, <2>2 DEF ParseInv
    <3> QED
      BY <1>1, <3>1, DestinationIs
  <2> QED
    BY <2>1, <2>2 DEF NoDestination
<1> QED
  BY <1>1, <1>2, LineRefused

\* Nothing but Invoke and the loop touches the line and what it says.
LEMMA LineUntouched ==
  ASSUME ParseInv, UNCHANGED argVars, stage' = "shell" => stage = "shell"
  PROVE  ParseInv'
<1>1. argv' = argv /\ next' = next /\ args' = args /\ phase' = phase
  BY DEF argVars
<1>2. /\ (InFront(next))' <=> InFront(next)
      /\ (InFront(next - 1))' <=> InFront(next - 1)
      /\ (ArgsUpTo(args, next))' <=> ArgsUpTo(args, next)
  BY <1>1, SameLine
<1>3. LineAsWritten'
  <2>1. \A f, v : (Accepts(f, v))' <=> Accepts(f, v)
    BY DEF Accepts
  <2>2. \A key : (GetOptionValues(args, key))' = GetOptionValues(args, key)
    BY <1>1 DEF GetOptionValues
  <2>3. LineAsWritten
    BY DEF ParseInv
  <2> QED
    BY <1>1, <2>1, <2>2, <2>3, SameLine DEF LineAsWritten
<1> QED
  BY <1>1, <1>2, <1>3 DEF ParseInv

LEMMA StepKeepsLine == ParseInv /\ [Next]_vars => ParseInv'
<1> SUFFICES ASSUME ParseInv, [Next]_vars PROVE ParseInv'
  OBVIOUS
<1>1. CASE Parse
  <2>1. stage' # "shell" /\ ParseStep
    BY <1>1 DEF Parse, compatVars
  <2> QED
    BY <2>1, ValueTaken, ValueMissing, FlagTaken, EndTaken, DestinationTaken, NoneTaken
       DEF ParseStep
<1>2. CASE Invoke
  <2>1. CASE phase' = phase
    <3>1. UNCHANGED argVars /\ stage' # "shell"
      BY <1>2, <2>1 DEF Invoke, argVars
    <3> QED
      BY <3>1, LineUntouched
  <2>2. CASE phase' # phase
    <3>1. /\ phase = "before" /\ phase' = "flags" /\ stage' # "shell"
          /\ argv' = argv /\ next' = next /\ args' = args
      BY <1>2, <2>2 DEF Invoke, ParseInv
    <3>2. InFront(next) /\ ArgsUpTo(args, next) /\ next \in 1..(Len(argv) + 1)
      BY <3>1 DEF ParseInv
    <3> QED
      BY <3>1, <3>2, LoopGoesOn
  <2> QED
    BY <2>1, <2>2
<1>3. CASE UNCHANGED vars
  BY <1>3, LineUntouched DEF vars, compatVars
<1>4. CASE ConfigChanges
  BY <1>4, ChangesBeside, LineUntouched DEF Beside
<1>5. CASE ParseFails \/ SetupFails \/ ResolveFails \/ StartsSession
  BY <1>5, LineUntouched DEF ParseFails, SetupFails, ResolveFails, StartsSession
<1>6. CASE MergeOptions
  BY <1>6, LineUntouched DEF MergeOptions
<1>7. CASE ResolveTarget
  BY <1>7, LineUntouched DEF ResolveTarget, compatVars
<1> QED
  BY <1>1, <1>2, <1>3, <1>4, <1>5, <1>6, <1>7 DEF Next

LEMMA LineBegins == Init => ParseInv
<1> SUFFICES ASSUME Init PROVE ParseInv
  OBVIOUS
<1>1. /\ argv \in Seq(DOMAIN Shape) /\ next = 1 /\ args = NoArgs /\ phase = "before"
  BY CompatAssumption DEF Init
<1>2. InFront(1)
  BY FirstIsNoValue DEF InFront, NoWordBefore
<1>3. ArgsUpTo(NoArgs, 1)
  <2>1. \A f : GivenBefore(f, 1) = {}
    BY DEF GivenBefore
  <2>2. \A f : LastBefore(f, 1) = None
    BY <2>1 DEF LastBefore
  <2>3. \A s : ~SwitchBefore(s, 1)
    BY DEF SwitchBefore
  <2> QED
    BY <2>1, <2>2, <2>3 DEF ArgsUpTo, ValuesUpTo, SwitchesUpTo, OptionsUpTo, NoArgs
<1>4. LineAsWritten
  BY <1>1 DEF LineAsWritten
<1>5. next \in 1..(Len(argv) + 1)
  BY <1>1
<1> QED
  BY <1>1, <1>2, <1>3, <1>4, <1>5 DEF ParseInv

\* ParseSSHArgs: the arguments in front of the destination are each a flag or
\* the value of one and the last of each counts; what follows it is the command;
\* only a line with a flag that lacks its value or with no destination is refused.
\* (ArgsAsWritten leaves out a user given twice, and a word behind an unknown flag
\* that may be its value.)
THEOREM LineMeansWhatItSays == Spec => []ArgsAsWritten
<1>1. Init => ParseInv
  BY LineBegins
<1>2. ParseInv /\ [Next]_vars => ParseInv'
  BY StepKeepsLine
<1>3. ParseInv => ArgsAsWritten
  BY DEF ParseInv, LineAsWritten, ArgsAsWritten
<1> QED
  BY <1>1, <1>2, <1>3, PTL DEF Spec
---------------------------------------------------------------------------
(* What the configuration says, for every file.  The loops of the code are   *)
(* recursive functions over the lines, the blocks and the elements of a      *)
(* pattern; each has a lemma that says which function that is, and what it   *)
(* computes is shown by induction over a set of numbers.                     *)

\* Induction over the numbers up to N, for a set of them.
LEMMA UpTo ==
  ASSUME NEW N \in Nat, NEW S, 0 \in S, \A n \in 0..(N - 1) : n \in S => n + 1 \in S
  PROVE  0..N \subseteq S
<1> DEFINE T == (0..N) \ S
<1> SUFFICES ASSUME T # {} PROVE FALSE
  OBVIOUS
<1>1. T \subseteq Nat
  OBVIOUS
<1> DEFINE m == Min(T)
<1>2. m \in T /\ \A n \in T : m =< n
  BY <1>1, LeastIsIn
<1> HIDE DEF m
<1>3. m \in 1..N /\ m \notin S
  BY <1>2
<1>4. m - 1 \in 0..(N - 1) /\ m - 1 \notin T
  BY <1>2, <1>3
<1>5. m - 1 \in S
  BY <1>4
<1> QED
  BY <1>3, <1>4, <1>5

\* What the scan starts from.
Ground == [blocks |-> <<>>, open |-> FALSE]
LEMMA ScannedIs ==
  ASSUME NEW file, Len(file) \in Nat
  PROVE  Scanned(file) =
           [n \in 0..Len(file) |->
              IF n = 0 THEN Ground
              ELSE ReadLine(Scanned(file)[n - 1], file[n])]
<1> DEFINE N == Len(file)
           Fits(g, m) == g = [n \in 0..m |-> IF n = 0 THEN Ground ELSE ReadLine(g[n - 1], file[n])]
           S == {m \in 0..N : \E g : Fits(g, m)}
<1>1. 0 \in S
  <2> DEFINE g == [n \in 0..0 |-> Ground]
  <2>1. Fits(g, 0)
    OBVIOUS
  <2>2. \E f : Fits(f, 0)
    BY <2>1
  <2>3. 0 \in 0..N
    OBVIOUS
  <2> QED
    BY <2>2, <2>3
<1>2. ASSUME NEW m \in 0..(N - 1), m \in S PROVE m + 1 \in S
  <2>1. PICK g : Fits(g, m)
    BY <1>2
  <2> DEFINE h == [n \in 0..(m + 1) |-> IF n = m + 1 THEN ReadLine(g[m], file[m + 1]) ELSE g[n]]
  <2>2. \A n \in 0..(m + 1) : h[n] = IF n = 0 THEN Ground ELSE ReadLine(h[n - 1], file[n])
    <3>1. CASE m + 1 = 0
      BY <3>1
    <3>2. \A n \in 0..m : h[n] = g[n]
      OBVIOUS
    <3>3. \A n \in 0..m : n # 0 => n - 1 \in 0..m
      OBVIOUS
    <3>4. \A n \in 0..m : g[n] = IF n = 0 THEN Ground ELSE ReadLine(g[n - 1], file[n])
      BY <2>1
    <3>5. h[m + 1] = ReadLine(h[m], file[m + 1])
      BY <3>2
    <3> QED
      BY <3>2, <3>3, <3>4, <3>5
  <2> HIDE DEF h
  <2>3. h = [n \in 0..(m + 1) |-> h[n]]
    BY DEF h
  <2>4. Fits(h, m + 1)
    BY <2>2, <2>3
  <2> QED
    BY <2>4
<1>3. \E g : Fits(g, N)
  <2> HIDE DEF S
  <2>1. 0..N \subseteq S
    BY <1>1, <1>2, UpTo
  <2> QED
    BY <2>1 DEF S
<1>4. Scanned(file) = CHOOSE g : Fits(g, N)
  BY DEF Scanned, Ground
<1> QED
  BY <1>3, <1>4

---------------------------------------------------------------------------
(* Patterns.  The places from which the rest of a pattern matches are those  *)
(* from which the rest of the host can be cut as Denotes cuts it.            *)

LEMMA PlacesIs ==
  ASSUME NEW s, NEW p, Len(p) \in Nat
  PROVE  Places(s, p) =
           [r \in 0..Len(p) |->
              IF r = 0 THEN {Len(s) + 1}
              ELSE PlacesBefore(p[Len(p) + 1 - r], s, Places(s, p)[r - 1])]
<1> DEFINE N == Len(p)
           Base == {Len(s) + 1}
           Step(v, r) == PlacesBefore(p[N + 1 - r], s, v)
           Fits(g, m) == g = [r \in 0..m |-> IF r = 0 THEN Base ELSE Step(g[r - 1], r)]
           S == {m \in 0..N : \E g : Fits(g, m)}
<1> HIDE DEF Base, Step
<1>1. 0 \in S
  <2> DEFINE g == [r \in 0..0 |-> Base]
  <2>1. Fits(g, 0)
    OBVIOUS
  <2>2. \E f : Fits(f, 0)
    BY <2>1
  <2>3. 0 \in 0..N
    OBVIOUS
  <2> QED
    BY <2>2, <2>3
<1>2. ASSUME NEW m \in 0..(N - 1), m \in S PROVE m + 1 \in S
  <2>1. PICK g : Fits(g, m)
    BY <1>2
  <2> DEFINE h == [r \in 0..(m + 1) |-> IF r = m + 1 THEN Step(g[m], m + 1) ELSE g[r]]
  <2>2. \A r \in 0..(m + 1) : h[r] = IF r = 0 THEN Base ELSE Step(h[r - 1], r)
    <3>2. \A r \in 0..m : h[r] = g[r]
      OBVIOUS
    <3>3. \A r \in 0..m : r # 0 => r - 1 \in 0..m
      OBVIOUS
    <3>4. \A r \in 0..m : g[r] = IF r = 0 THEN Base ELSE Step(g[r - 1], r)
      BY <2>1
    <3>5. h[m + 1] = Step(h[m], m + 1)
      BY <3>2
    <3> QED
      BY <3>2, <3>3, <3>4, <3>5
  <2> HIDE DEF h
  <2>3. h = [r \in 0..(m + 1) |-> h[r]]
    BY DEF h
  <2>4. Fits(h, m + 1)
    BY <2>2, <2>3
  <2> QED
    BY <2>4
<1>3. \E g : Fits(g, N)
  <2> HIDE DEF S
  <2>1. 0..N \subseteq S
    BY <1>1, <1>2, UpTo
  <2> QED
    BY <2>1 DEF S
<1>4. Places(s, p) = CHOOSE g : Fits(g, N)
  BY DEF Places, Base, Step
<1> QED
  BY <1>3, <1>4 DEF Base, Step

\* Element j of the pattern takes the characters of s behind a, up to b.
Piece(p, s, j, a, b) ==
  IF p[j] = "*" THEN a <= b ELSE b = a + 1 /\ p[j] \in {"?", s[b]}
\* The last r elements of p take s from its i-th character on.
Cuts(p, s, r, i) ==
  \E cut \in [(Len(p) - r)..Len(p) -> 0..Len(s)] :
    /\ cut[Len(p) - r] = i - 1 /\ cut[Len(p)] = Len(s)
    /\ \A j \in (Len(p) - r + 1)..Len(p) : Piece(p, s, j, cut[j - 1], cut[j])

\* One element more: s can be cut in front of it where it can be cut behind it.
LEMMA CutsBefore ==
  ASSUME NEW s, NEW p, Len(s) \in Nat, Len(p) \in Nat, NEW r \in 0..(Len(p) - 1),
         NEW i \in 1..(Len(s) + 1)
  PROVE  Cuts(p, s, r + 1, i) <=>
           \E k \in 1..(Len(s) + 1) : Cuts(p, s, r, k) /\ Piece(p, s, Len(p) - r, i - 1, k - 1)
<1> DEFINE N == Len(p)
           J == N - r
<1>0. J \in 1..N /\ J - 1 = N - (r + 1) /\ N - (r + 1) + 1 = J /\ N - r + 1 = J + 1
  OBVIOUS
<1> HIDE DEF J, N
<1>1. ASSUME Cuts(p, s, r + 1, i)
      PROVE  \E k \in 1..(Len(s) + 1) : Cuts(p, s, r, k) /\ Piece(p, s, J, i - 1, k - 1)
  <2>1. PICK cut \in [(J - 1)..N -> 0..Len(s)] :
          /\ cut[J - 1] = i - 1 /\ cut[N] = Len(s)
          /\ \A j \in J..N : Piece(p, s, j, cut[j - 1], cut[j])
    BY <1>0, <1>1 DEF Cuts, N
  <2> DEFINE k == cut[J] + 1
             rest == [j \in J..N |-> cut[j]]
  <2>2. J \in (J - 1)..N /\ cut[J] \in 0..Len(s) /\ k \in 1..(Len(s) + 1) /\ k - 1 = cut[J]
    <3>1. J \in (J - 1)..N
      BY <1>0 DEF N
    <3>2. cut[J] \in 0..Len(s)
      BY <2>1, <3>1
    <3> QED
      BY <3>1, <3>2
  <2>3. rest \in [J..N -> 0..Len(s)] /\ rest[J] = k - 1 /\ rest[N] = Len(s)
    BY <1>0, <2>1, <2>2, SMTT(30) DEF N
  <2>4. \A j \in (J + 1)..N : Piece(p, s, j, rest[j - 1], rest[j])
    <3> TAKE j \in (J + 1)..N
    <3>1. j \in J..N /\ j - 1 \in J..N
      BY <1>0 DEF N
    <3> QED
      BY <2>1, <3>1
  <2>5. Cuts(p, s, r, k)
    <3> HIDE DEF rest, k
    <3> QED
      BY <1>0, <2>3, <2>4 DEF Cuts, J, N
  <2>6. Piece(p, s, J, i - 1, k - 1)
    BY <1>0, <2>1, <2>2, SMTT(30) DEF N
  <2> QED
    BY <2>2, <2>5, <2>6
<1>2. ASSUME NEW k \in 1..(Len(s) + 1), Cuts(p, s, r, k), Piece(p, s, J, i - 1, k - 1)
      PROVE  Cuts(p, s, r + 1, i)
  <2>1. PICK cut \in [J..N -> 0..Len(s)] :
          /\ cut[J] = k - 1 /\ cut[N] = Len(s)
          /\ \A j \in (J + 1)..N : Piece(p, s, j, cut[j - 1], cut[j])
    BY <1>0, <1>2 DEF Cuts, N, J
  <2> DEFINE more == [j \in (J - 1)..N |-> IF j = J - 1 THEN i - 1 ELSE cut[j]]
  <2>2. more \in [(J - 1)..N -> 0..Len(s)] /\ more[J - 1] = i - 1 /\ more[N] = Len(s)
    BY <1>0, <2>1, SMTT(30) DEF N
  <2>3. \A j \in J..N : Piece(p, s, j, more[j - 1], more[j])
    <3> TAKE j \in J..N
    <3>1. CASE j = J
      <4>1. more[j - 1] = i - 1 /\ more[j] = k - 1
        BY <1>0, <2>1, <3>1 DEF N
      <4> QED
        BY <1>2, <3>1, <4>1
    <3>2. CASE j # J
      <4>1. j \in (J + 1)..N /\ more[j - 1] = cut[j - 1] /\ more[j] = cut[j]
        BY <1>0, <3>2 DEF N
      <4> QED
        BY <2>1, <4>1
    <3> QED
      BY <3>1, <3>2
  <2> QED
    <3> HIDE DEF more
    <3> QED
      BY <1>0, <2>2, <2>3 DEF Cuts, N
<1> QED
  BY <1>1, <1>2 DEF J, N

LEMMA PlacesAreCuts ==
  ASSUME NEW s, NEW p, Len(s) \in Nat, Len(p) \in Nat
  PROVE  \A r \in 0..Len(p) : Places(s, p)[r] = {i \in 1..(Len(s) + 1) : Cuts(p, s, r, i)}
<1> DEFINE N == Len(p)
           Said(r) == Places(s, p)[r] = {i \in 1..(Len(s) + 1) : Cuts(p, s, r, i)}
           S == {r \in 0..N : Said(r)}
<1>1. 0 \in S
  <2>1. Places(s, p)[0] = {Len(s) + 1}
    BY PlacesIs
  <2>2. \A i \in 1..(Len(s) + 1) : Cuts(p, s, 0, i) <=> i = Len(s) + 1
    <3> TAKE i \in 1..(Len(s) + 1)
    <3>1. Cuts(p, s, 0, i) => i - 1 = Len(s)
      BY DEF Cuts
    <3>2. ASSUME i = Len(s) + 1 PROVE Cuts(p, s, 0, i)
      <4> DEFINE cut == [j \in N..N |-> Len(s)]
      <4>1. cut \in [N..N -> 0..Len(s)] /\ cut[N] = Len(s)
        OBVIOUS
      <4>2. (N + 1)..N = {} /\ N - 0 = N /\ i - 1 = Len(s)
        BY <3>2
      <4> HIDE DEF cut
      <4> QED
        BY <4>1, <4>2 DEF Cuts
    <3> QED
      BY <3>1, <3>2
  <2> QED
    BY <2>1, <2>2
<1>2. ASSUME NEW r \in 0..(N - 1), r \in S PROVE r + 1 \in S
  <2> DEFINE e == p[N - r]
             places == Places(s, p)[r]
  <2>1. places = {i \in 1..(Len(s) + 1) : Cuts(p, s, r, i)}
    BY <1>2
  <2>2. Places(s, p)[r + 1] = PlacesBefore(e, s, places)
    <3>1. r + 1 \in 0..N /\ r + 1 # 0 /\ r + 1 - 1 = r /\ N + 1 - (r + 1) = N - r
      OBVIOUS
    <3> QED
      BY <3>1, PlacesIs
  <2> HIDE DEF places, e
  <2>3. \A i \in 1..(Len(s) + 1) :
          i \in PlacesBefore(e, s, places) <=>
            \E k \in 1..(Len(s) + 1) : k \in places /\ Piece(p, s, N - r, i - 1, k - 1)
    BY <2>1 DEF PlacesBefore, Piece, e
  <2>4. PlacesBefore(e, s, places) \subseteq 1..(Len(s) + 1)
    BY DEF PlacesBefore
  <2>5. \A i \in 1..(Len(s) + 1) : i \in PlacesBefore(e, s, places) <=> Cuts(p, s, r + 1, i)
    BY <2>1, <2>3, CutsBefore
  <2>6. Said(r + 1)
    BY <2>2, <2>4, <2>5
  <2> QED
    BY <2>6
<1>3. 0..N \subseteq S
  <2> HIDE DEF S
  <2> QED
    BY <1>1, <1>2, UpTo
<1> QED
  BY <1>3

\* matchGlob says of every string and every pattern whether the string can be cut
\* into pieces that the pattern's elements take.
THEOREM GlobsDenote ==
  ASSUME NEW s \in Seq(STRING), NEW p \in Seq(STRING)
  PROVE  MatchGlob(s, p) <=> Denotes(p, s)
<1>1. Len(s) \in Nat /\ Len(p) \in Nat /\ Len(p) \in 0..Len(p) /\ 1 \in 1..(Len(s) + 1)
  OBVIOUS
<1>2. MatchGlob(s, p) <=> Cuts(p, s, Len(p), 1)
  BY <1>1, PlacesAreCuts DEF MatchGlob
<1>3. Cuts(p, s, Len(p), 1) <=> Denotes(p, s)
  <2>1. Len(p) - Len(p) = 0 /\ 1 - 1 = 0 /\ 0 + 1 = 1
    BY <1>1
  <2> QED
    BY <1>1, <2>1 DEF Cuts, Denotes, Piece
<1> QED
  BY <1>2, <1>3

---------------------------------------------------------------------------
(* The file, line by line: what the scan knows after a line, in terms of     *)
(* KeyOf, Heads and the lines that set a keyword.                            *)

Patterns == Seq([neg : BOOLEAN, glob : Seq(STRING)])
OptionMaps == UNION {[D -> Seq(STRING)] : D \in SUBSET STRING}
Block == [patterns : Patterns, options : OptionMaps]
Knowledge == [blocks : Seq(Block), open : BOOLEAN]

LEMMA SplitTypes ==
  ASSUME NEW l \in ConfigLines
  PROVE  SplitConfigLine(l).key \in STRING /\ SplitConfigLine(l).args \in Seq(STRING)
<1>0. <<>> \in Seq(STRING)
  OBVIOUS
<1>1. "?" \in STRING
  BY ConfigAssumption DEF ConfigAssumption
<1>2. l.key \in STRING /\ l.args \in Seq(STRING)
  BY DEF ConfigLines
<1>3. \/ SplitConfigLine(l) = [key |-> "?", args |-> <<>>]
      \/ SplitConfigLine(l) = [key |-> l.key, args |-> l.args]
  BY DEF SplitConfigLine
<1> HIDE DEF SplitConfigLine
<1>4. CASE SplitConfigLine(l) = [key |-> "?", args |-> <<>>]
  BY <1>0, <1>1, <1>4
<1>5. CASE SplitConfigLine(l) = [key |-> l.key, args |-> l.args]
  BY <1>2, <1>5
<1> QED
  BY <1>3, <1>4, <1>5

\* s is st with the setting of d added to its last block, the n-th, unless it has it.
SettingAdded(s, st, d, n) ==
  /\ s \in Knowledge /\ s.open /\ Len(s.blocks) = n /\ n \in Nat \ {0}
  /\ \A b \in 1..n : s.blocks[b].patterns = st.blocks[b].patterns
  /\ \A b \in 1..(n - 1) : s.blocks[b] = st.blocks[b]
  /\ DOMAIN s.blocks[n].options = DOMAIN st.blocks[n].options \union {d.key}
  /\ \A k \in DOMAIN s.blocks[n].options :
       s.blocks[n].options[k] = IF k \in DOMAIN st.blocks[n].options
                                THEN st.blocks[n].options[k] ELSE d.args

LEMMA StoreKeeps ==
  ASSUME NEW st \in Knowledge, st.open => st.blocks # <<>>, st.open, NEW l \in ConfigLines
  PROVE  SettingAdded(StoreOption(st, SplitConfigLine(l)), st, SplitConfigLine(l), Len(st.blocks))
<1> DEFINE d == SplitConfigLine(l)
           n == Len(st.blocks)
           options == st.blocks[n].options
           more == [k \in DOMAIN options \union {d.key} |-> IF k = d.key THEN d.args ELSE options[k]]
           s == StoreOption(st, d)
<1>1. d.key \in STRING /\ d.args \in Seq(STRING)
  BY SplitTypes
<1>2. n \in Nat \ {0} /\ st.blocks \in Seq(Block) /\ st.blocks \in [1..n -> Block] /\ st.open = TRUE
  BY DEF Knowledge
<1>3. st.blocks[n] \in Block /\ n \in 1..n
  BY <1>2
<1>4. PICK D \in SUBSET STRING : options \in [D -> Seq(STRING)]
  BY <1>3 DEF Block, OptionMaps
<1> HIDE DEF d, n
<1>5. CASE d.key \in DOMAIN options
  <2>1. s = st
    BY <1>5 DEF StoreOption, n
  <2> QED
    BY <1>2, <1>5, <2>1 DEF SettingAdded, d, n
<1>6. CASE d.key \notin DOMAIN options
  <2>1. more \in [D \union {d.key} -> Seq(STRING)] /\ D \union {d.key} \in SUBSET STRING
    BY <1>1, <1>4
  <2>2. more \in OptionMaps
    BY <2>1 DEF OptionMaps
  <2> DEFINE block == [st.blocks[n] EXCEPT !.options = more]
             blocks == [st.blocks EXCEPT ![n] = block]
  <2>3. block \in Block /\ block.patterns = st.blocks[n].patterns /\ block.options = more
    BY <1>3, <2>2 DEF Block
  <2>4. blocks \in [1..n -> Block] /\ blocks[n] = block
        /\ \A b \in 1..(n - 1) : blocks[b] = st.blocks[b]
    BY <1>2, <1>3, <2>3
  <2>5. blocks \in Seq(Block) /\ Len(blocks) = n
    BY <1>2, <2>4
  <2>6. s = [st EXCEPT !.blocks = blocks]
    BY <1>6 DEF StoreOption, n
  <2>7. s.blocks = blocks /\ s.open = TRUE /\ s \in Knowledge
    BY <1>2, <2>5, <2>6 DEF Knowledge
  <2>8. \A b \in 1..n : blocks[b].patterns = st.blocks[b].patterns
    BY <1>2, <2>3, <2>4
  <2>9. DOMAIN more = DOMAIN options \union {d.key}
        /\ \A k \in DOMAIN more : more[k] = IF k \in DOMAIN options THEN options[k] ELSE d.args
    BY <1>6
  <2> HIDE DEF more, blocks, block
  <2> QED
    BY <1>2, <2>3, <2>4, <2>5, <2>7, <2>8, <2>9 DEF SettingAdded, d, n
<1> QED
  BY <1>5, <1>6

\* What is known after line n.
Blocks(file, n) == Scanned(file)[n].blocks
Open(file, n) == Scanned(file)[n].open
Sound(file, n) == /\ Scanned(file)[n] \in Knowledge
                  /\ Open(file, n) => Blocks(file, n) # <<>>

\* Block b after a line, when it was b0 before: what a line with key k in it adds.
Extends(b, b0, inIt, k, values) ==
  /\ b.patterns = b0.patterns
  /\ \A q \in Keywords :
       /\ q \in DOMAIN b.options <=> q \in DOMAIN b0.options \/ (inIt /\ q = k)
       /\ q \in DOMAIN b.options =>
            b.options[q] = IF q \in DOMAIN b0.options THEN b0.options[q] ELSE values

LEMMA AfterLine ==
  ASSUME NEW file \in Seq(ConfigLines), NEW n \in 1..Len(file), Sound(file, n - 1)
  PROVE  LET k == KeyOf(file, n)
             before == Blocks(file, n - 1)
         IN  /\ Sound(file, n)
             /\ k = "host" =>
                  /\ Open(file, n)
                  /\ Blocks(file, n) =
                       Append(before, [patterns |-> file[n].patterns, options |-> [q \in {} |-> Unset]])
             /\ k = "match" => ~Open(file, n) /\ Blocks(file, n) = before
             /\ k \notin {"host", "match"} =>
                  /\ Open(file, n) <=> Open(file, n - 1)
                  /\ Len(Blocks(file, n)) = Len(before)
                  /\ \A b \in 1..Len(before) :
                       Extends(Blocks(file, n)[b], before[b], Open(file, n) /\ b = Len(before),
                               k, file[n].args)
<1> DEFINE l == file[n]
           st == Scanned(file)[n - 1]
           s == Scanned(file)[n]
           d == SplitConfigLine(l)
           fresh == [patterns |-> l.patterns, options |-> [q \in {} |-> Unset]]
<1>1. l \in ConfigLines /\ Len(file) \in Nat /\ n \in 0..Len(file) /\ n # 0
  OBVIOUS
<1>2. s = ReadLine(st, l)
  BY <1>1, ScannedIs
<1>3. st \in Knowledge /\ (st.open => st.blocks # <<>>)
  BY DEF Sound, Open, Blocks
<1>4. KeyOf(file, n) = IF l.kind = "directive" THEN d.key ELSE ""
  BY DEF KeyOf
<1>5. ConfigAssumption
  BY ConfigAssumption
<1>6. d.key \notin {"?"} => d.args = l.args
  BY DEF SplitConfigLine
<1> HIDE DEF l, st, s, d
<1>7. CASE l.kind # "directive"
  <2>0. s = st
    BY <1>2, <1>7 DEF ReadLine
  <2>1. s = st /\ KeyOf(file, n) = ""
    BY <1>4, <1>7, <2>0
  <2>2. \A b \in 1..Len(st.blocks) : Extends(s.blocks[b], st.blocks[b], Open(file, n) /\ b = Len(st.blocks), "", l.args)
    BY <1>5, <2>1 DEF Extends, ConfigAssumption
  <2> QED
    BY <1>3, <2>1, <2>2 DEF Sound, Open, Blocks, s, st, l
<1>8. CASE l.kind = "directive" /\ d.key = "host"
  <2>1. s = [blocks |-> Append(st.blocks, fresh), open |-> TRUE]
    BY <1>2, <1>8 DEF ReadLine, StartBlock, d
  <2>2. fresh \in Block
    <3>1. [q \in {} |-> Unset] \in [{} -> Seq(STRING)] /\ {} \in SUBSET STRING
      OBVIOUS
    <3>2. [q \in {} |-> Unset] \in OptionMaps
      BY <3>1 DEF OptionMaps
    <3>3. l.patterns \in Patterns
      BY <1>1 DEF ConfigLines, Patterns
    <3> QED
      BY <3>2, <3>3 DEF Block
  <2> HIDE DEF fresh
  <2>3. s \in Knowledge /\ s.blocks # <<>>
    <3>1. st.blocks \in Seq(Block)
      BY <1>3 DEF Knowledge
    <3>2. Append(st.blocks, fresh) \in Seq(Block) /\ Append(st.blocks, fresh) # <<>>
      BY <2>2, <3>1
    <3> QED
      BY <2>1, <3>2 DEF Knowledge
  <2> QED
    BY <1>4, <1>8, <2>1, <2>3 DEF Sound, Open, Blocks, s, st, l, fresh
<1>9. CASE l.kind = "directive" /\ d.key = "match"
  <2>1. s = [st EXCEPT !.open = FALSE]
    BY <1>2, <1>9 DEF ReadLine, d
  <2>2. s \in Knowledge /\ s.open = FALSE /\ s.blocks = st.blocks
    BY <1>3, <2>1 DEF Knowledge
  <2> QED
    BY <1>4, <1>9, <2>2 DEF Sound, Open, Blocks, s, st, l
<1>10. CASE l.kind = "directive" /\ d.key \notin {"host", "match"} /\ ~st.open
  <2>1. s = st /\ KeyOf(file, n) = d.key
    BY <1>2, <1>4, <1>10 DEF ReadLine, d
  <2>2. \A b \in 1..Len(st.blocks) : Extends(s.blocks[b], st.blocks[b], Open(file, n) /\ b = Len(st.blocks), d.key, l.args)
    BY <1>10, <2>1, SMTT(30) DEF Extends, Open, s
  <2> QED
    BY <1>3, <1>10, <2>1, <2>2 DEF Sound, Open, Blocks, s, st, l
<1>11. CASE l.kind = "directive" /\ d.key \notin {"host", "match"} /\ st.open
  <2> DEFINE last == Len(st.blocks)
  <2>1. s = StoreOption(st, d) /\ KeyOf(file, n) = d.key
    BY <1>2, <1>4, <1>11 DEF ReadLine, d
  <2>2. /\ s \in Knowledge /\ s.open /\ Len(s.blocks) = last /\ last \in Nat \ {0}
        /\ \A b \in 1..last : s.blocks[b].patterns = st.blocks[b].patterns
        /\ \A b \in 1..(last - 1) : s.blocks[b] = st.blocks[b]
        /\ DOMAIN s.blocks[last].options = DOMAIN st.blocks[last].options \union {d.key}
        /\ \A k \in DOMAIN s.blocks[last].options :
             s.blocks[last].options[k] = IF k \in DOMAIN st.blocks[last].options
                                         THEN st.blocks[last].options[k] ELSE d.args
    <3> HIDE DEF fresh
    <3>1. /\ s = StoreOption(st, SplitConfigLine(l)) /\ d = SplitConfigLine(l) /\ last = Len(st.blocks)
          /\ l \in ConfigLines /\ st \in Knowledge /\ (st.open => st.blocks # <<>>) /\ st.open
      BY <1>1, <1>3, <1>11, <2>1 DEF d
    <3> HIDE DEF last
    <3>2. SettingAdded(s, st, d, last)
      BY Zenon, <3>1, StoreKeeps
    <3> QED
      BY Zenon, <3>2 DEF SettingAdded
  <2> HIDE DEF last
  <2>3. Open(file, n)
    BY <2>2 DEF Open, s
  <2>4. \A b \in 1..last : Extends(s.blocks[b], st.blocks[b], Open(file, n) /\ b = last, d.key, l.args)
    <3> TAKE b \in 1..last
    <3>1. CASE b = last
      <4>1. "?" \notin Keywords
        BY <1>5 DEF ConfigAssumption
      <4>2. \A q \in Keywords : q = d.key => d.args = l.args
        BY <1>6, <4>1
      <4> QED
        BY <2>2, <2>3, <3>1, <4>2 DEF Extends
    <3>2. CASE b # last
      <4>1. b \in 1..(last - 1)
        BY <2>2, <3>2
      <4> QED
        BY <2>2, <3>2, <4>1 DEF Extends
    <3> QED
      BY <3>1, <3>2
  <2>5. Sound(file, n)
    <3>1. s.blocks # <<>>
      BY <2>2
    <3> QED
      BY <2>2, <3>1 DEF Sound, Open, Blocks, s
  <2> QED
    BY <1>11, <2>1, <2>2, <2>3, <2>4, <2>5 DEF Open, Blocks, s, st, l, last
<1> QED
  BY <1>7, <1>8, <1>9, <1>10, <1>11

LEMMA ScanIsSound ==
  ASSUME NEW file \in Seq(ConfigLines)
  PROVE  \A n \in 0..Len(file) : Sound(file, n)
<1> DEFINE S == {n \in 0..Len(file) : Sound(file, n)}
<1>1. Len(file) \in Nat
  OBVIOUS
<1>2. 0 \in S
  <2>1. Scanned(file)[0] = Ground
    BY <1>1, ScannedIs
  <2>2. <<>> \in Seq(Block)
    OBVIOUS
  <2>3. Ground \in Knowledge /\ Ground.open = FALSE
    BY <2>2 DEF Knowledge, Ground
  <2>4. Sound(file, 0)
    BY <2>1, <2>3 DEF Sound, Open
  <2> QED
    BY <1>1, <2>4
<1>3. ASSUME NEW n \in 0..(Len(file) - 1), n \in S PROVE n + 1 \in S
  <2>1. n + 1 \in 1..Len(file) /\ n + 1 - 1 = n /\ n + 1 \in 0..Len(file)
    BY <1>1
  <2> DEFINE m == n + 1
  <2>2. m \in 1..Len(file) /\ Sound(file, m - 1)
    BY <1>3, <2>1
  <2>3. Sound(file, m)
    <3> HIDE DEF m
    <3> QED
      BY <2>2, AfterLine
  <2> QED
    BY <2>1, <2>3
<1> HIDE DEF S
<1>4. 0..Len(file) \subseteq S
  BY <1>1, <1>2, <1>3, UpTo
<1> QED
  BY <1>4 DEF S

\* How the blocks lie over the lines.

Count(file, n) == Len(Blocks(file, n))
\* The lines up to n that set key q in block b.
Setting(file, n, b, q) ==
  {l \in 1..n : Open(file, l) /\ Count(file, l) = b /\ KeyOf(file, l) = q}

Growing(file, n) ==
  \A l \in 0..n :
    /\ Count(file, l) <= Count(file, n)
    /\ \A b \in 1..Count(file, l) : Blocks(file, n)[b].patterns = Blocks(file, l)[b].patterns
Sections(file, n) ==
  /\ Heads(file, n) = {} => ~Open(file, n)
  /\ Heads(file, n) # {} =>
       LET h == Max(Heads(file, n))
       IN  /\ h \in 1..n
           /\ Open(file, n) <=> KeyOf(file, h) = "host"
           /\ Open(file, n) =>
                /\ Blocks(file, n)[Count(file, n)].patterns = file[h].patterns
                /\ \A l \in 1..n : l >= h <=> Open(file, l) /\ Count(file, l) = Count(file, n)
Values(file, n) ==
  \A b \in 1..Count(file, n), q \in Keywords :
    LET options == Blocks(file, n)[b].options
        set == Setting(file, n, b, q)
    IN  /\ q \in DOMAIN options <=> set # {}
        /\ set # {} => options[q] = file[Min(set)].args

LEMMA CountIs ==
  ASSUME NEW file \in Seq(ConfigLines), NEW n \in 0..Len(file)
  PROVE  /\ Blocks(file, n) \in Seq(Block) /\ Open(file, n) \in BOOLEAN
         /\ Count(file, n) \in Nat /\ (Open(file, n) => Count(file, n) >= 1)
<1>1. Sound(file, n)
  BY ScanIsSound
<1>2. Blocks(file, n) \in Seq(Block) /\ Open(file, n) \in BOOLEAN
  BY <1>1 DEF Sound, Knowledge, Blocks, Open
<1>3. Blocks(file, n) # <<>> => Len(Blocks(file, n)) >= 1
  BY <1>2
<1> QED
  BY <1>1, <1>2, <1>3 DEF Sound, Count

LEMMA HeadsBehind ==
  ASSUME NEW file, NEW n \in Nat \ {0}
  PROVE  /\ KeyOf(file, n) \in {"host", "match"} =>
              n \in Heads(file, n) /\ Max(Heads(file, n)) = n
         /\ KeyOf(file, n) \notin {"host", "match"} => Heads(file, n) = Heads(file, n - 1)
<1>1. ASSUME KeyOf(file, n) \in {"host", "match"}
      PROVE  n \in Heads(file, n) /\ Max(Heads(file, n)) = n
  <2>1. n \in Heads(file, n) /\ Heads(file, n) \subseteq Int /\ \A y \in Heads(file, n) : n >= y
    BY <1>1 DEF Heads
  <2> QED
    BY <2>1, MaxIs
<1>2. ASSUME KeyOf(file, n) \notin {"host", "match"} PROVE Heads(file, n) = Heads(file, n - 1)
  <2>1. \A h \in 1..n : h = n \/ h \in 1..(n - 1)
    OBVIOUS
  <2>2. 1..(n - 1) \subseteq 1..n
    OBVIOUS
  <2> QED
    BY <1>2, <2>1, <2>2 DEF Heads
<1> QED
  BY <1>1, <1>2

\* One line more leaves the blocks there are and what they are for.
LEMMA GrowsByOne ==
  ASSUME NEW file \in Seq(ConfigLines), NEW n \in 1..Len(file)
  PROVE  /\ Count(file, n - 1) <= Count(file, n)
         /\ \A b \in 1..Count(file, n - 1) :
              Blocks(file, n)[b].patterns = Blocks(file, n - 1)[b].patterns
<1>1. n - 1 \in 0..Len(file) /\ Sound(file, n - 1)
  BY ScanIsSound
<1> DEFINE before == Blocks(file, n - 1)
           k == KeyOf(file, n)
<1>2. before \in Seq(Block) /\ Len(before) \in Nat
  BY <1>1, CountIs DEF Count
<1>3. CASE k = "host"
  <2>1. Blocks(file, n) = Append(before, [patterns |-> file[n].patterns, options |-> [q \in {} |-> Unset]])
    BY <1>1, <1>3, AfterLine
  <2> HIDE DEF before
  <2> QED
    BY <1>2, <2>1 DEF Count, before
<1>4. CASE k = "match"
  <2>1. Blocks(file, n) = before
    BY <1>1, <1>4, AfterLine
  <2> QED
    BY <1>2, <2>1 DEF Count
<1>5. CASE k \notin {"host", "match"}
  <2>1. /\ Len(Blocks(file, n)) = Len(before)
        /\ \A b \in 1..Len(before) :
              Extends(Blocks(file, n)[b], before[b], Open(file, n) /\ b = Len(before), k, file[n].args)
    BY <1>1, <1>5, AfterLine
  <2> QED
    BY <1>2, <2>1 DEF Count, Extends
<1> QED
  BY <1>3, <1>4, <1>5

LEMMA BlocksGrow ==
  ASSUME NEW file \in Seq(ConfigLines)
  PROVE  \A n \in 0..Len(file) : Growing(file, n)
<1> DEFINE S == {n \in 0..Len(file) : Growing(file, n)}
<1>1. Len(file) \in Nat
  OBVIOUS
<1>2. 0 \in S
  <2>1. \A l \in 0..0 : l = 0
    OBVIOUS
  <2>2. Count(file, 0) <= Count(file, 0)
    BY <1>1, CountIs
  <2> QED
    BY <1>1, <2>1, <2>2 DEF Growing
<1>3. ASSUME NEW n \in 0..(Len(file) - 1), n \in S PROVE n + 1 \in S
  <2> DEFINE m == n + 1
  <2>1. m \in 1..Len(file) /\ m \in 0..Len(file) /\ m - 1 = n /\ n \in 0..Len(file)
    BY <1>1
  <2>2. Growing(file, n)
    BY <1>3
  <2> HIDE DEF m
  <2>3. /\ Count(file, n) <= Count(file, m)
        /\ \A b \in 1..Count(file, n) : Blocks(file, m)[b].patterns = Blocks(file, n)[b].patterns
    BY <2>1, GrowsByOne
  <2>4. \A l \in 0..m : l = m \/ l \in 0..n
    BY <2>1
  <2>5. \A l \in 0..Len(file) : Count(file, l) \in Nat
    BY CountIs
  <2>6. \A l \in 0..n : l \in 0..Len(file)
    BY <2>1
  <2>7. ASSUME NEW l \in 0..n
        PROVE  /\ Count(file, l) <= Count(file, m)
               /\ \A b \in 1..Count(file, l) : Blocks(file, m)[b].patterns = Blocks(file, l)[b].patterns
    <3>1. Count(file, l) <= Count(file, n)
          /\ \A b \in 1..Count(file, l) : Blocks(file, n)[b].patterns = Blocks(file, l)[b].patterns
      BY <2>2 DEF Growing
    <3>2. Count(file, l) \in Nat /\ Count(file, n) \in Nat /\ Count(file, m) \in Nat
      BY <2>1, <2>5, <2>6
    <3>3. 1..Count(file, l) \subseteq 1..Count(file, n)
      BY <3>1, <3>2
    <3> QED
      BY <2>3, <3>1, <3>2, <3>3
  <2>8. Count(file, m) <= Count(file, m)
    BY <2>1, <2>5
  <2>9. Growing(file, m)
    BY <2>4, <2>7, <2>8 DEF Growing
  <2> QED
    BY <2>1, <2>9 DEF m
<1> HIDE DEF S
<1>4. 0..Len(file) \subseteq S
  BY <1>1, <1>2, <1>3, UpTo
<1> QED
  BY <1>4 DEF S

\* The section of a line is the one its last Host or Match line begins.
LEMMA SectionOfLine ==
  ASSUME NEW file \in Seq(ConfigLines), NEW n \in 1..Len(file), Sections(file, n - 1)
  PROVE  Sections(file, n)
<1> DEFINE k == KeyOf(file, n)
           h == Max(Heads(file, n))
<1>1. n - 1 \in 0..Len(file) /\ n \in 0..Len(file) /\ n \in Nat \ {0} /\ Sound(file, n - 1)
  BY ScanIsSound
<1>2. /\ Count(file, n - 1) \in Nat /\ Count(file, n) \in Nat
      /\ Blocks(file, n - 1) \in Seq(Block)
      /\ \A l \in 1..n : Count(file, l) \in Nat
  <2>1. \A l \in 1..n : l \in 0..Len(file)
    OBVIOUS
  <2> QED
    BY <1>1, <2>1, CountIs
<1>3. CASE k = "host"
  <2>1. Heads(file, n) # {} /\ h = n
    BY <1>1, <1>3, HeadsBehind
  <2>2. /\ Open(file, n)
        /\ Blocks(file, n) = Append(Blocks(file, n - 1),
                                    [patterns |-> file[n].patterns, options |-> [q \in {} |-> Unset]])
    BY <1>1, <1>3, AfterLine
  <2> DEFINE fresh == [patterns |-> file[n].patterns, options |-> [q \in {} |-> Unset]]
  <2>3. fresh.patterns = file[n].patterns
    OBVIOUS
  <2> HIDE DEF fresh
  <2>4. Count(file, n) = Count(file, n - 1) + 1
        /\ Blocks(file, n)[Count(file, n)].patterns = file[n].patterns
    BY <1>2, <2>2, <2>3 DEF Count, fresh
  <2>5. \A l \in 1..n : l >= n <=> Open(file, l) /\ Count(file, l) = Count(file, n)
    <3> TAKE l \in 1..n
    <3>1. CASE l = n
      BY <2>2, <3>1
    <3>2. CASE l # n
      <4>1. l \in 0..(n - 1) /\ ~(l >= n)
        BY <3>2
      <4>2. Count(file, l) <= Count(file, n - 1)
        BY <1>1, <4>1, BlocksGrow DEF Growing
      <4> QED
        BY <1>2, <2>4, <4>1, <4>2
    <3> QED
      BY <3>1, <3>2
  <2> HIDE DEF h
  <2>6. h \in 1..n /\ KeyOf(file, h) = "host" /\ file[h].patterns = file[n].patterns
    BY <1>1, <1>3, <2>1
  <2>7. \A l \in 1..n : l >= h <=> Open(file, l) /\ Count(file, l) = Count(file, n)
    BY <2>1, <2>5
  <2> QED
    BY <2>1, <2>2, <2>4, <2>6, <2>7 DEF Sections, h
<1>4. CASE k = "match"
  <2>1. Heads(file, n) # {} /\ h = n /\ k # "host"
    BY <1>1, <1>4, HeadsBehind
  <2>2. ~Open(file, n)
    BY <1>1, <1>4, AfterLine
  <2> QED
    BY <2>1, <2>2 DEF Sections
<1>5. CASE k \notin {"host", "match"}
  <2>1. Heads(file, n) = Heads(file, n - 1)
    BY <1>1, <1>5, HeadsBehind
  <2>2. /\ Open(file, n) <=> Open(file, n - 1)
        /\ Count(file, n) = Count(file, n - 1)
        /\ \A b \in 1..Count(file, n - 1) : Blocks(file, n)[b].patterns = Blocks(file, n - 1)[b].patterns
    BY <1>1, <1>5, AfterLine, GrowsByOne DEF Count
  <2>3. CASE Heads(file, n) = {}
    BY <2>1, <2>2, <2>3 DEF Sections
  <2>4. CASE Heads(file, n) # {}
    <3>1. /\ h \in 1..(n - 1)
          /\ Open(file, n - 1) <=> KeyOf(file, h) = "host"
          /\ Open(file, n - 1) =>
               /\ Blocks(file, n - 1)[Count(file, n - 1)].patterns = file[h].patterns
               /\ \A l \in 1..(n - 1) : l >= h <=> Open(file, l) /\ Count(file, l) = Count(file, n - 1)
      BY <2>1, <2>4 DEF Sections
    <3> HIDE DEF h
    <3>2. h \in 1..n
      BY <3>1
    <3>3. ASSUME Open(file, n)
          PROVE  /\ Blocks(file, n)[Count(file, n)].patterns = file[h].patterns
                 /\ \A l \in 1..n : l >= h <=> Open(file, l) /\ Count(file, l) = Count(file, n)
      <4>1. Count(file, n - 1) \in 1..Count(file, n - 1)
        BY <1>1, <1>2, <2>2, <3>3, CountIs
      <4>2. \A l \in 1..n : l = n \/ l \in 1..(n - 1)
        OBVIOUS
      <4>3. n >= h
        BY <3>1
      <4> QED
        BY <2>2, <3>1, <3>3, <4>1, <4>2, <4>3
    <3> QED
      BY <2>2, <2>4, <3>1, <3>2, <3>3 DEF Sections, h
  <2> QED
    BY <2>3, <2>4
<1> QED
  BY <1>3, <1>4, <1>5

LEMMA SectionsLie ==
  ASSUME NEW file \in Seq(ConfigLines)
  PROVE  \A n \in 0..Len(file) : Sections(file, n)
<1> DEFINE S == {n \in 0..Len(file) : Sections(file, n)}
<1>1. Len(file) \in Nat
  OBVIOUS
<1>2. 0 \in S
  <2>1. Heads(file, 0) = {}
    BY DEF Heads
  <2>2. Scanned(file)[0] = Ground
    BY <1>1, ScannedIs
  <2> QED
    BY <1>1, <2>1, <2>2 DEF Sections, Open, Ground
<1>3. ASSUME NEW n \in 0..(Len(file) - 1), n \in S PROVE n + 1 \in S
  <2> DEFINE m == n + 1
  <2>1. m \in 1..Len(file) /\ m \in 0..Len(file) /\ Sections(file, m - 1)
    BY <1>1, <1>3
  <2> HIDE DEF m
  <2>2. Sections(file, m)
    BY <2>1, SectionOfLine
  <2> QED
    BY <2>1, <2>2 DEF m
<1> HIDE DEF S
<1>4. 0..Len(file) \subseteq S
  BY <1>1, <1>2, <1>3, UpTo
<1> QED
  BY <1>4 DEF S

\* What a block holds: of each keyword the value of its first line there.

LEMMA SettingGrows ==
  ASSUME NEW file, NEW n \in Nat \ {0}, NEW b, NEW q
  PROVE  LET set == Setting(file, n, b, q)
             set0 == Setting(file, n - 1, b, q)
             inIt == Open(file, n) /\ Count(file, n) = b /\ KeyOf(file, n) = q
         IN  /\ set = IF inIt THEN set0 \union {n} ELSE set0
             /\ set0 # {} => set # {} /\ Min(set) = Min(set0)
             /\ set0 = {} /\ inIt => Min(set) = n
<1> DEFINE set == Setting(file, n, b, q)
           set0 == Setting(file, n - 1, b, q)
           inIt == Open(file, n) /\ Count(file, n) = b /\ KeyOf(file, n) = q
<1>1. \A l : l \in 1..n <=> l = n \/ l \in 1..(n - 1)
  OBVIOUS
<1>2. set = IF inIt THEN set0 \union {n} ELSE set0
  BY <1>1 DEF Setting
<1>3. set0 \subseteq 1..(n - 1)
  BY DEF Setting
<1>4. ASSUME set0 # {} PROVE set # {} /\ Min(set) = Min(set0)
  <2> HIDE DEF set, set0, inIt
  <2>1. Min(set0) \in set0 /\ \A m \in set0 : Min(set0) =< m
    <3>1. set0 \subseteq Nat
      BY <1>3
    <3> QED
      BY <1>4, <3>1, LeastIsIn
  <2> DEFINE m0 == Min(set0)
  <2> HIDE DEF m0
  <2>4. m0 \in 1..(n - 1) /\ m0 \in set0 /\ \A m \in set0 : m0 =< m
    BY <1>3, <2>1 DEF m0
  <2>2. m0 \in set /\ \A m \in set : m0 =< m
    <3>1. m0 =< n
      BY <2>4
    <3> QED
      BY <1>2, <2>4, <3>1
  <2>3. set \subseteq Int
    BY <1>2, <1>3
  <2> USE DEF m0
  <2> QED
    BY <2>2, <2>3, MinIs
<1>5. ASSUME set0 = {}, inIt PROVE Min(set) = n
  <2> HIDE DEF set0
  <2>1. set = {n}
    BY <1>2, <1>5
  <2> HIDE DEF set
  <2> QED
    BY <2>1, MinIs
<1> QED
  BY <1>2, <1>4, <1>5

LEMMA ValuesOfLine ==
  ASSUME NEW file \in Seq(ConfigLines), NEW n \in 1..Len(file), Values(file, n - 1)
  PROVE  Values(file, n)
<1> DEFINE k == KeyOf(file, n)
           old(b) == Blocks(file, n - 1)[b].options
           new(b) == Blocks(file, n)[b].options
           fresh == [patterns |-> file[n].patterns, options |-> [q \in {} |-> Unset]]
           Holds(b, q) == /\ q \in DOMAIN new(b) <=> Setting(file, n, b, q) # {}
                          /\ Setting(file, n, b, q) # {} =>
                               new(b)[q] = file[Min(Setting(file, n, b, q))].args
<1>1. n - 1 \in 0..Len(file) /\ n \in 0..Len(file) /\ n \in Nat \ {0} /\ Sound(file, n - 1)
  BY ScanIsSound
<1>2. /\ Count(file, n - 1) \in Nat /\ Count(file, n) \in Nat
      /\ Blocks(file, n - 1) \in Seq(Block)
  BY <1>1, CountIs
<1>3. \A b \in 1..Count(file, n - 1), q \in Keywords :
        /\ q \in DOMAIN old(b) <=> Setting(file, n - 1, b, q) # {}
        /\ Setting(file, n - 1, b, q) # {} =>
             old(b)[q] = file[Min(Setting(file, n - 1, b, q))].args
  BY DEF Values
<1>4. ASSUME k \in {"host", "match"}
      PROVE  \A b, q : q \in Keywords => Setting(file, n, b, q) = Setting(file, n - 1, b, q)
  <2>1. \A q \in Keywords : k # q
    BY <1>4, ConfigAssumption DEF ConfigAssumption
  <2> QED
    BY <1>1, <2>1, SettingGrows
<1>5. CASE k = "host"
  <2>1. Blocks(file, n) = Append(Blocks(file, n - 1), fresh)
    BY <1>1, <1>5, AfterLine
  <2>2. DOMAIN fresh.options = {}
    OBVIOUS
  <2> HIDE DEF fresh
  <2>3. /\ Count(file, n) = Count(file, n - 1) + 1
        /\ DOMAIN new(Count(file, n)) = {}
        /\ \A b \in 1..Count(file, n - 1) : Blocks(file, n)[b] = Blocks(file, n - 1)[b]
    BY <1>2, <2>1, <2>2 DEF Count
  <2>4. ASSUME NEW b \in 1..Count(file, n), NEW q \in Keywords PROVE Holds(b, q)
    <3>1. Setting(file, n, b, q) = Setting(file, n - 1, b, q)
      BY <1>4, <1>5
    <3>2. CASE b \in 1..Count(file, n - 1)
      <4>1. new(b) = old(b)
        BY <2>3, <3>2
      <4> QED
        BY <1>3, <3>1, <3>2, <4>1
    <3>3. CASE b \notin 1..Count(file, n - 1)
      <4>1. b = Count(file, n)
        BY <1>2, <2>3, <3>3
      <4>2. Setting(file, n - 1, b, q) = {}
        <5> SUFFICES ASSUME NEW l \in 1..(n - 1) PROVE Count(file, l) # b
          BY DEF Setting
        <5>1. l \in 0..(n - 1) /\ l \in 0..Len(file)
          BY <1>1
        <5>2. Count(file, l) <= Count(file, n - 1) /\ Count(file, l) \in Nat
          BY <1>1, <5>1, BlocksGrow, CountIs DEF Growing
        <5> QED
          BY <1>2, <2>3, <4>1, <5>2
      <4> QED
        BY <2>3, <3>1, <4>1, <4>2
    <3> QED
      BY <3>2, <3>3
  <2> QED
    BY <2>4 DEF Values
<1>6. CASE k = "match"
  <2>1. Blocks(file, n) = Blocks(file, n - 1)
    BY <1>1, <1>6, AfterLine
  <2>2. ASSUME NEW b \in 1..Count(file, n), NEW q \in Keywords PROVE Holds(b, q)
    <3>1. Setting(file, n, b, q) = Setting(file, n - 1, b, q)
      BY <1>4, <1>6
    <3> QED
      BY <1>3, <2>1, <3>1 DEF Count
  <2> QED
    BY <2>2 DEF Values
<1>7. CASE k \notin {"host", "match"}
  <2>1. /\ Count(file, n) = Count(file, n - 1)
        /\ \A b \in 1..Count(file, n) :
             Extends(Blocks(file, n)[b], Blocks(file, n - 1)[b],
                     Open(file, n) /\ b = Count(file, n), k, file[n].args)
    BY <1>1, <1>7, AfterLine DEF Count
  <2>2. ASSUME NEW b \in 1..Count(file, n), NEW q \in Keywords PROVE Holds(b, q)
    <3> DEFINE inIt == Open(file, n) /\ Count(file, n) = b /\ k = q
               set == Setting(file, n, b, q)
               set0 == Setting(file, n - 1, b, q)
    <3>1. /\ q \in DOMAIN new(b) <=> q \in DOMAIN old(b) \/ inIt
          /\ q \in DOMAIN new(b) =>
               new(b)[q] = IF q \in DOMAIN old(b) THEN old(b)[q] ELSE file[n].args
      BY <2>1 DEF Extends
    <3>2. /\ q \in DOMAIN old(b) <=> set0 # {}
          /\ set0 # {} => old(b)[q] = file[Min(set0)].args
      BY <1>3, <2>1
    <3>3. /\ set = IF inIt THEN set0 \union {n} ELSE set0
          /\ set0 # {} => set # {} /\ Min(set) = Min(set0)
          /\ set0 = {} /\ inIt => Min(set) = n
      BY <1>1, SettingGrows
    <3> HIDE DEF inIt, set, set0, new, old
    <3>4. CASE set0 # {}
      BY <3>1, <3>2, <3>3, <3>4 DEF set, new
    <3>5. CASE set0 = {} /\ inIt
      <4>1. set # {} /\ Min(set) = n
        BY <3>3, <3>5
      <4> QED
        BY <3>1, <3>2, <3>5, <4>1 DEF set, new
    <3>6. CASE set0 = {} /\ ~inIt
      BY <3>1, <3>2, <3>3, <3>6 DEF set, new
    <3> QED
      BY <3>4, <3>5, <3>6
  <2> QED
    BY <2>2 DEF Values
<1> QED
  BY <1>5, <1>6, <1>7

LEMMA ValuesAreFirst ==
  ASSUME NEW file \in Seq(ConfigLines)
  PROVE  \A n \in 0..Len(file) : Values(file, n)
<1> DEFINE S == {n \in 0..Len(file) : Values(file, n)}
<1>1. Len(file) \in Nat
  OBVIOUS
<1>2. 0 \in S
  <2>1. Scanned(file)[0] = Ground
    BY <1>1, ScannedIs
  <2>2. Count(file, 0) = 0
    BY <2>1 DEF Count, Blocks, Ground
  <2> QED
    BY <1>1, <2>2 DEF Values
<1>3. ASSUME NEW n \in 0..(Len(file) - 1), n \in S PROVE n + 1 \in S
  <2> DEFINE m == n + 1
  <2>1. m \in 1..Len(file) /\ m \in 0..Len(file) /\ Values(file, m - 1)
    BY <1>1, <1>3
  <2> HIDE DEF m
  <2>2. Values(file, m)
    BY <2>1, ValuesOfLine
  <2> QED
    BY <2>1, <2>2 DEF m
<1> HIDE DEF S
<1>4. 0..Len(file) \subseteq S
  BY <1>1, <1>2, <1>3, UpTo
<1> QED
  BY <1>4 DEF S

---------------------------------------------------------------------------
(* What the blocks that take a host add up to.                              *)

LEMMA AppliedIs ==
  ASSUME NEW blocks, Len(blocks) \in Nat, NEW host
  PROVE  Applied(blocks, host) =
           [r \in 0..Len(blocks) |->
              IF r = 0 THEN [k \in Keywords |-> Unset]
              ELSE ApplyMatching(Applied(blocks, host)[r - 1], blocks[r], host)]
<1> DEFINE N == Len(blocks)
           Base == [k \in Keywords |-> Unset]
           Step(v, r) == ApplyMatching(v, blocks[r], host)
           Fits(g, m) == g = [r \in 0..m |-> IF r = 0 THEN Base ELSE Step(g[r - 1], r)]
           S == {m \in 0..N : \E g : Fits(g, m)}
<1> HIDE DEF Base, Step
<1>1. 0 \in S
  <2> DEFINE g == [r \in 0..0 |-> Base]
  <2>1. Fits(g, 0)
    OBVIOUS
  <2>2. \E f : Fits(f, 0)
    BY <2>1
  <2>3. 0 \in 0..N
    OBVIOUS
  <2> QED
    BY <2>2, <2>3
<1>2. ASSUME NEW m \in 0..(N - 1), m \in S PROVE m + 1 \in S
  <2>1. PICK g : Fits(g, m)
    BY <1>2
  <2> DEFINE h == [r \in 0..(m + 1) |-> IF r = m + 1 THEN Step(g[m], m + 1) ELSE g[r]]
  <2>2. \A r \in 0..(m + 1) : h[r] = IF r = 0 THEN Base ELSE Step(h[r - 1], r)
    <3>2. \A r \in 0..m : h[r] = g[r]
      OBVIOUS
    <3>3. \A r \in 0..m : r # 0 => r - 1 \in 0..m
      OBVIOUS
    <3>4. \A r \in 0..m : g[r] = IF r = 0 THEN Base ELSE Step(g[r - 1], r)
      BY <2>1
    <3>5. h[m + 1] = Step(h[m], m + 1)
      BY <3>2
    <3> QED
      BY <3>2, <3>3, <3>4, <3>5
  <2> HIDE DEF h
  <2>3. h = [r \in 0..(m + 1) |-> h[r]]
    BY DEF h
  <2>4. Fits(h, m + 1)
    BY <2>2, <2>3
  <2> QED
    BY <2>4
<1>3. \E g : Fits(g, N)
  <2> HIDE DEF S
  <2>1. 0..N \subseteq S
    BY <1>1, <1>2, UpTo
  <2> QED
    BY <2>1 DEF S
<1>4. Applied(blocks, host) = CHOOSE g : Fits(g, N)
  BY DEF Applied, Base, Step
<1> QED
  BY <1>3, <1>4 DEF Base, Step

\* The blocks up to n that set the keyword for the host.
Carriers(blocks, host, k, n) ==
  {c \in 1..n : /\ HostMatchesPatterns(host, blocks[c].patterns)
                /\ k \in DOMAIN blocks[c].options /\ blocks[c].options[k] # Unset}

LEMMA FirstCarrierCounts ==
  ASSUME NEW blocks, Len(blocks) \in Nat, NEW host
  PROVE  \A n \in 0..Len(blocks), k \in Keywords :
           LET cs == Carriers(blocks, host, k, n)
           IN  Applied(blocks, host)[n][k] =
                 IF cs = {} THEN Unset ELSE blocks[Min(cs)].options[k]
<1> DEFINE N == Len(blocks)
           Said(n, k) == LET cs == Carriers(blocks, host, k, n)
                         IN  Applied(blocks, host)[n][k] =
                               IF cs = {} THEN Unset ELSE blocks[Min(cs)].options[k]
           S == {n \in 0..N : \A k \in Keywords : Said(n, k)}
<1>1. 0 \in S
  <2>1. Applied(blocks, host)[0] = [k \in Keywords |-> Unset]
    BY AppliedIs
  <2>2. \A k \in Keywords : Carriers(blocks, host, k, 0) = {}
    BY DEF Carriers
  <2> QED
    BY <2>1, <2>2
<1>2. ASSUME NEW n \in 0..(N - 1), n \in S PROVE n + 1 \in S
  <2> DEFINE b == blocks[n + 1]
             before == Applied(blocks, host)[n]
  <2>1. Applied(blocks, host)[n + 1] = ApplyMatching(before, b, host)
    <3>1. n + 1 \in 0..N /\ n + 1 # 0 /\ n + 1 - 1 = n
      OBVIOUS
    <3> QED
      BY <3>1, AppliedIs
  <2>2. ASSUME NEW k \in Keywords PROVE Said(n + 1, k)
    <3> DEFINE cs == Carriers(blocks, host, k, n)
               more == Carriers(blocks, host, k, n + 1)
               itToo == /\ HostMatchesPatterns(host, b.patterns)
                        /\ k \in DOMAIN b.options /\ b.options[k] # Unset
    <3>1. before[k] = IF cs = {} THEN Unset ELSE blocks[Min(cs)].options[k]
      BY <1>2
    <3>2. more = IF itToo THEN cs \union {n + 1} ELSE cs
      <4>1. \A c : c \in 1..(n + 1) <=> c = n + 1 \/ c \in 1..n
        OBVIOUS
      <4> QED
        BY <4>1 DEF Carriers
    <3>3. cs \subseteq 1..n
      BY DEF Carriers
    <3>4. \A c \in cs : blocks[c].options[k] # Unset
      BY DEF Carriers
    <3> HIDE DEF cs, more
    <3>5. CASE cs # {}
      <4> DEFINE c == Min(cs)
      <4>1. c \in cs /\ \A m \in cs : c =< m
        <5>1. cs \subseteq Nat
          BY <3>3
        <5> QED
          BY <3>5, <5>1, LeastIsIn
      <4>2. before[k] = blocks[c].options[k] /\ before[k] # Unset
        BY <3>1, <3>4, <3>5, <4>1
      <4> HIDE DEF c
      <4>3. more # {} /\ Min(more) = c
        <5>1. c \in more /\ more \subseteq Int
          BY <3>2, <3>3, <4>1
        <5>2. \A m \in more : c =< m
          BY <3>2, <3>3, <4>1
        <5> QED
          BY <5>1, <5>2, MinIs
      <4>4. ApplyMatching(before, b, host)[k] = before[k]
        BY <4>2 DEF ApplyMatching, ApplyBlock
      <4> QED
        BY <2>1, <4>2, <4>3, <4>4 DEF more
    <3>6. CASE cs = {} /\ itToo
      <4>1. more = {n + 1}
        BY <3>2, <3>6
      <4>2. Min(more) = n + 1
        BY <4>1, MinIs
      <4>3. ApplyMatching(before, b, host)[k] = b.options[k]
        BY <3>1, <3>6 DEF ApplyMatching, ApplyBlock
      <4> QED
        BY <2>1, <4>1, <4>2, <4>3 DEF more
    <3>7. CASE cs = {} /\ ~itToo
      <4>1. more = {} /\ before[k] = Unset
        BY <3>1, <3>2, <3>7
      <4>2. ApplyMatching(before, b, host)[k] = Unset
        BY <3>7, <4>1 DEF ApplyMatching, ApplyBlock
      <4> QED
        BY <2>1, <4>1, <4>2 DEF more
    <3> QED
      BY <3>5, <3>6, <3>7
  <2>3. \A k \in Keywords : Said(n + 1, k)
    BY <2>2
  <2> HIDE DEF Said
  <2> QED
    BY <2>3
<1> HIDE DEF S
<1>3. 0..N \subseteq S
  BY <1>1, <1>2, UpTo
<1> QED
  BY <1>3 DEF S

---------------------------------------------------------------------------
\* A Host line takes a host when the first of its patterns that denotes it is
\* not negated.
LEMMA HostLineTakes ==
  ASSUME NEW host \in Seq(STRING), NEW patterns \in Patterns
  PROVE  HostMatchesPatterns(host, patterns) <=>
           \E j \in DOMAIN patterns :
             /\ ~patterns[j].neg /\ Denotes(patterns[j].glob, host)
             /\ \A i \in 1..(j - 1) : Denotes(patterns[i].glob, host) => ~patterns[i].neg
<1> DEFINE hits == {n \in DOMAIN patterns : MatchGlob(host, patterns[n].glob)}
<1>1. DOMAIN patterns = 1..Len(patterns) /\ Len(patterns) \in Nat
  BY DEF Patterns
<1>2. \A n \in DOMAIN patterns : patterns[n].glob \in Seq(STRING)
  <2>1. \A n \in DOMAIN patterns : patterns[n] \in [neg : BOOLEAN, glob : Seq(STRING)]
    <3> DEFINE P == [neg : BOOLEAN, glob : Seq(STRING)]
    <3>1. patterns \in Seq(P)
      BY DEF Patterns
    <3> HIDE DEF P
    <3>2. \A n \in DOMAIN patterns : patterns[n] \in P
      BY <3>1
    <3> QED
      BY <3>2 DEF P
  <2> QED
    BY <2>1
<1>3. \A n \in DOMAIN patterns : n \in hits <=> Denotes(patterns[n].glob, host)
  BY <1>2, GlobsDenote
<1>4. hits \subseteq Nat
  BY <1>1
<1> HIDE DEF hits
<1>5. ASSUME HostMatchesPatterns(host, patterns)
      PROVE  \E j \in DOMAIN patterns :
               /\ ~patterns[j].neg /\ Denotes(patterns[j].glob, host)
               /\ \A i \in 1..(j - 1) : Denotes(patterns[i].glob, host) => ~patterns[i].neg
  <2> DEFINE j == Min(hits)
  <2>1. hits # {} /\ ~patterns[j].neg
    BY <1>5 DEF HostMatchesPatterns, hits
  <2>2. j \in hits /\ \A m \in hits : j =< m
    BY <1>4, <2>1, LeastIsIn
  <2> HIDE DEF j
  <2>3. j \in DOMAIN patterns
    BY <2>2 DEF hits
  <2>4. \A i \in 1..(j - 1) : i \in DOMAIN patterns /\ i \notin hits
    BY <1>1, <2>2, <2>3
  <2> QED
    BY <1>3, <2>1, <2>2, <2>3, <2>4
<1>6. ASSUME NEW j \in DOMAIN patterns, ~patterns[j].neg, Denotes(patterns[j].glob, host),
             \A i \in 1..(j - 1) : Denotes(patterns[i].glob, host) => ~patterns[i].neg
      PROVE  HostMatchesPatterns(host, patterns)
  <2> DEFINE m == Min(hits)
  <2>1. j \in hits
    BY <1>3, <1>6
  <2>2. m \in hits /\ m =< j
    BY <1>4, <2>1, LeastIsIn
  <2> HIDE DEF m
  <2>3. m \in DOMAIN patterns /\ Denotes(patterns[m].glob, host)
    <3>1. m \in DOMAIN patterns
      BY <2>2 DEF hits
    <3> QED
      BY <1>3, <2>2, <3>1
  <2>4. m = j \/ m \in 1..(j - 1)
    BY <1>1, <2>2, <2>3
  <2>5. ~patterns[m].neg
    BY <1>6, <2>3, <2>4
  <2> QED
    BY <2>1, <2>5 DEF HostMatchesPatterns, hits, m
<1> QED
  BY <1>5, <1>6

LEMMA SectionTakesIs ==
  ASSUME NEW file \in Seq(ConfigLines), NEW host \in Seq(STRING), NEW n \in 1..Len(file)
  PROVE  SectionTakes(file, host, n) <=>
           /\ Open(file, n)
           /\ HostMatchesPatterns(host, Blocks(file, Len(file))[Count(file, n)].patterns)
<1> DEFINE h == Max(Heads(file, n))
           N == Len(file)
<1>1. n \in 0..N /\ N \in 0..N /\ n \in 0..N
  OBVIOUS
<1>2. Sections(file, n) /\ Growing(file, N)
  BY <1>1, SectionsLie, BlocksGrow
<1>3. CASE Heads(file, n) = {}
  BY <1>2, <1>3 DEF Sections, SectionTakes
<1>4. CASE Heads(file, n) # {} /\ KeyOf(file, h) # "host"
  BY <1>2, <1>4 DEF Sections, SectionTakes
<1>5. CASE Heads(file, n) # {} /\ KeyOf(file, h) = "host"
  <2>1. /\ h \in 1..n /\ Open(file, n)
        /\ Blocks(file, n)[Count(file, n)].patterns = file[h].patterns
    BY <1>2, <1>5 DEF Sections
  <2>2. Count(file, n) \in 1..Count(file, n)
    BY <1>1, <2>1, CountIs
  <2>3. Blocks(file, N)[Count(file, n)].patterns = file[h].patterns
    BY <1>1, <1>2, <2>1, <2>2 DEF Growing
  <2>4. file[h].patterns \in Patterns
    <3> HIDE DEF h
    <3>1. file[h] \in ConfigLines
      BY <2>1
    <3> QED
      BY <3>1 DEF ConfigLines, Patterns
  <2>5. SectionTakes(file, host, n) <=>
          \E j \in DOMAIN file[h].patterns :
            /\ ~file[h].patterns[j].neg /\ Denotes(file[h].patterns[j].glob, host)
            /\ \A i \in 1..(j - 1) :
                 Denotes(file[h].patterns[i].glob, host) => ~file[h].patterns[i].neg
    BY <1>5 DEF SectionTakes
  <2> HIDE DEF h
  <2> QED
    BY <2>1, <2>3, <2>4, <2>5, HostLineTakes
<1> QED
  BY <1>3, <1>4, <1>5

LEMMA FirstInSectionIs ==
  ASSUME NEW file \in Seq(ConfigLines), NEW k, NEW n \in 1..Len(file),
         Open(file, n), KeyOf(file, n) = k
  PROVE  FirstInSection(file, k, n) <=> Min(Setting(file, Len(file), Count(file, n), k)) = n
<1> DEFINE h == Max(Heads(file, n))
           N == Len(file)
           set == Setting(file, N, Count(file, n), k)
<1>1. n \in 0..N /\ N \in Nat /\ Sections(file, n)
  BY SectionsLie
<1>2. h \in 1..n /\ \A l \in 1..n : l >= h <=> Open(file, l) /\ Count(file, l) = Count(file, n)
  BY <1>1 DEF Sections
<1>3. n \in set /\ set \subseteq 1..N
  BY DEF Setting
<1>4. \A e \in 1..n : e \in set <=> e >= h /\ KeyOf(file, e) = k
  <2> HIDE DEF h
  <2> QED
    BY <1>2 DEF Setting
<1> HIDE DEF h, set
<1>5. ASSUME FirstInSection(file, k, n) PROVE Min(set) = n
  <2>1. \A e \in h..(n - 1) : KeyOf(file, e) # k
    BY <1>5 DEF FirstInSection, h
  <2>2. \A e \in set : n =< e
    BY <1>2, <1>3, <1>4, <2>1
  <2>3. set \subseteq Int
    BY <1>3
  <2> QED
    BY <1>3, <2>2, <2>3, MinIs
<1>6. ASSUME Min(set) = n PROVE FirstInSection(file, k, n)
  <2>1. \A e \in set : n =< e
    <3>1. set \subseteq Nat /\ set # {}
      BY <1>3
    <3> QED
      BY <1>6, <3>1, LeastIsIn
  <2>2. \A e \in h..(n - 1) : KeyOf(file, e) # k
    BY <1>2, <1>4, <2>1
  <2> QED
    BY <2>2 DEF FirstInSection, h
<1> QED
  BY <1>5, <1>6 DEF set

\* parseSSHConfig gives every keyword, for every file and every host, the value of
\* the first line that sets it in a section that takes the host.
THEOREM ConfigReadInOrder ==
  ASSUME NEW file \in Seq(ConfigLines), NEW host \in Seq(STRING), NEW k \in Keywords
  PROVE  ParseSSHConfig(file, host)[k] = FirstValue(file, host, k)
<1> DEFINE N == Len(file)
           long == \E n \in DOMAIN file : file[n].kind = "long"
           blocks == Blocks(file, N)
           cs == Carriers(blocks, host, k, Len(blocks))
           lines == {n \in DOMAIN file : /\ KeyOf(file, n) = k
                                         /\ SectionTakes(file, host, n)
                                         /\ FirstInSection(file, k, n)
                                         /\ file[n].args # Unset}
           line(c) == Min(Setting(file, N, c, k))
<1>0. N \in Nat /\ N \in 0..N /\ DOMAIN file = 1..N
  OBVIOUS
<1>1. CASE long
  <2>1. ParseSSHConfigFile(file) = <<>> /\ Len(<<>>) = 0
    BY <1>1 DEF ParseSSHConfigFile
  <2>2. Carriers(<<>>, host, k, 0) = {}
    BY DEF Carriers
  <2>3. Applied(<<>>, host)[0][k] = Unset
    BY <2>1, <2>2, FirstCarrierCounts
  <2> QED
    BY <1>1, <2>1, <2>3 DEF ParseSSHConfig, FirstValue
<1>2. CASE ~long
  <2>1. ParseSSHConfigFile(file) = blocks
    BY <1>2 DEF ParseSSHConfigFile, Blocks
  <2>2. Len(blocks) = Count(file, N) /\ Len(blocks) \in Nat
    BY <1>0, CountIs DEF Count
  <2>3. ParseSSHConfig(file, host)[k] = IF cs = {} THEN Unset ELSE blocks[Min(cs)].options[k]
    <3>1. Len(blocks) \in 0..Len(blocks)
      BY <2>2
    <3> HIDE DEF blocks
    <3> QED
      BY <2>1, <2>2, <3>1, FirstCarrierCounts DEF ParseSSHConfig
  <2>4. FirstValue(file, host, k) = IF lines = {} THEN Unset ELSE file[Min(lines)].args
    BY <1>2 DEF FirstValue
  <2>5. \A b \in 1..Len(blocks) :
          /\ k \in DOMAIN blocks[b].options <=> Setting(file, N, b, k) # {}
          /\ Setting(file, N, b, k) # {} => blocks[b].options[k] = file[line(b)].args
    BY <1>0, <2>2, ValuesAreFirst DEF Values
  <2>6. \A n \in lines : Count(file, n) \in cs /\ n = line(Count(file, n))
    <3> TAKE n \in lines
    <3> DEFINE b == Count(file, n)
    <3>1. n \in 1..N /\ KeyOf(file, n) = k /\ file[n].args # Unset
          /\ SectionTakes(file, host, n) /\ FirstInSection(file, k, n)
      BY <1>0
    <3>2. Open(file, n) /\ HostMatchesPatterns(host, blocks[b].patterns)
      BY <3>1, SectionTakesIs
    <3>3. n = line(b)
      BY <3>1, <3>2, FirstInSectionIs
    <3>4. n \in Setting(file, N, b, k)
      BY <3>1, <3>2 DEF Setting
    <3>5. b \in 1..Len(blocks)
      <4>1. b \in Nat /\ b >= 1
        BY <3>1, <3>2, CountIs
      <4>2. b <= Count(file, N)
        BY <1>0, <3>1, BlocksGrow DEF Growing
      <4> HIDE DEF b, blocks
      <4> QED
        BY <2>2, <4>1, <4>2
    <3> HIDE DEF b, blocks, line
    <3>6. k \in DOMAIN blocks[b].options /\ blocks[b].options[k] = file[n].args
      BY <2>5, <3>3, <3>4, <3>5
    <3>7. b \in cs
      BY <3>1, <3>2, <3>5, <3>6 DEF Carriers
    <3> QED
      BY <3>3, <3>7 DEF b
  <2>7. \A c \in cs : line(c) \in lines /\ Count(file, line(c)) = c
                     /\ blocks[c].options[k] = file[line(c)].args
    <3> TAKE c \in cs
    <3> DEFINE n == line(c)
               set == Setting(file, N, c, k)
    <3>1. /\ c \in 1..Len(blocks) /\ HostMatchesPatterns(host, blocks[c].patterns)
          /\ k \in DOMAIN blocks[c].options /\ blocks[c].options[k] # Unset
      BY DEF Carriers
    <3>2. set # {} /\ blocks[c].options[k] = file[n].args
      BY <2>5, <3>1
    <3>3. n \in set
      <4>1. set \subseteq Nat
        BY <1>0 DEF Setting
      <4> QED
        BY <3>2, <4>1, LeastIsIn
    <3> HIDE DEF n
    <3>4. n \in 1..N /\ Open(file, n) /\ Count(file, n) = c /\ KeyOf(file, n) = k
      BY <3>3 DEF Setting
    <3>5. SectionTakes(file, host, n)
      BY <3>1, <3>4, SectionTakesIs
    <3>6. FirstInSection(file, k, n)
      BY <3>4, FirstInSectionIs DEF n
    <3> HIDE DEF blocks
    <3>7. n \in lines
      BY <1>0, <3>1, <3>2, <3>4, <3>5, <3>6
    <3> HIDE DEF lines
    <3> QED
      BY <3>2, <3>4, <3>7 DEF n
  <2>8. cs \subseteq Nat /\ lines \subseteq 1..N
    BY <1>0 DEF Carriers
  <2> HIDE DEF cs, lines, blocks, line
  <2>9. CASE cs = {}
    BY <2>3, <2>4, <2>6, <2>9
  <2>10. CASE cs # {}
    <3> DEFINE c == Min(cs)
    <3>1. c \in cs /\ \A d \in cs : c =< d
      BY <2>8, <2>10, LeastIsIn
    <3> HIDE DEF c
    <3>2. line(c) \in lines /\ Count(file, line(c)) = c /\ blocks[c].options[k] = file[line(c)].args
      BY <2>7, <3>1
    <3> DEFINE m == line(c)
    <3>3. m \in lines /\ Count(file, m) = c /\ m \in 1..N
      BY <2>8, <3>2
    <3> HIDE DEF m
    <3>4. \A n \in lines : m =< n
      <4> TAKE n \in lines
      <4>1. n \in 1..N /\ Count(file, n) \in cs /\ n = line(Count(file, n))
        BY <2>6, <2>8
      <4>2. CASE Count(file, n) = c
        BY <3>3, <4>1, <4>2 DEF m
      <4>3. CASE Count(file, n) # c
        <5>1. c < Count(file, n) /\ c \in Nat /\ Count(file, n) \in Nat
          <6> DEFINE d == Count(file, n)
          <6> HIDE DEF d
          <6>1. d \in cs /\ d # c
            BY <4>1, <4>3 DEF d
          <6>2. c =< d /\ c \in Nat /\ d \in Nat
            BY <2>8, <3>1, <6>1
          <6> QED
            BY <6>1, <6>2 DEF d
        <5>2. ASSUME n < m PROVE FALSE
          <6>1. n \in 0..m /\ m \in 0..N
            BY <3>3, <4>1, <5>2
          <6>2. Count(file, n) <= Count(file, m)
            BY <6>1, BlocksGrow DEF Growing
          <6> QED
            BY <3>3, <5>1, <6>2
        <5> QED
          BY <3>3, <4>1, <5>2
      <4> QED
        BY <4>2, <4>3
    <3>5. Min(lines) = m
      <4>1. lines \subseteq Int
        BY <2>8
      <4> QED
        BY <3>3, <3>4, <4>1, MinIs
    <3> QED
      BY <2>3, <2>4, <2>10, <3>2, <3>3, <3>5 DEF c, m
  <2> QED
    BY <2>9, <2>10
<1> QED
  BY <1>1, <1>2

---------------------------------------------------------------------------
(* What add-proxy-command leaves is a configuration file.                   *)

LEMMA GreatestIsIn ==
  ASSUME NEW N \in Nat, NEW S, S \subseteq 0..N, S # {}
  PROVE  Max(S) \in S /\ \A m \in S : m =< Max(S)
<1> DEFINE T == {N - x : x \in S}
           n == N - Min(T)
<1>1. T \subseteq Nat /\ T # {}
  <2>1. \A x \in S : N - x \in Nat
    OBVIOUS
  <2>2. PICK x \in S : TRUE
    OBVIOUS
  <2> QED
    BY <2>1, <2>2
<1>2. Min(T) \in T /\ \A y \in T : Min(T) =< y
  BY <1>1, LeastIsIn
<1>3. n \in S /\ \A m \in S : m =< n
  <2>1. PICK x \in S : Min(T) = N - x
    BY <1>2
  <2>2. n = x
    BY <2>1
  <2>3. \A m \in S : N - m \in T
    OBVIOUS
  <2> HIDE DEF T, n
  <2> QED
    BY <1>2, <2>1, <2>2, <2>3
<1> HIDE DEF n
<1>4. S \subseteq Int /\ \A m \in S : n >= m
  BY <1>3
<1> QED
  BY <1>3, <1>4, MaxIs

LEMMA EntryEndIs ==
  ASSUME NEW file \in Seq(ConfigLines), NEW host, NEW n \in 1..Len(file), EntryAt(file, host, n)
  PROVE  EntryEnd(file, n) \in (n + 1)..Len(file)
<1> DEFINE ends == {e \in (n + 1)..Len(file) : e = Len(file) \/ ~file[e + 1].indent}
<1>1. Len(file) \in Nat /\ n + 1 \in 1..Len(file)
  BY DEF EntryAt
<1>2. ends \subseteq Nat /\ Len(file) \in ends
  BY <1>1
<1>3. Min(ends) \in ends
  <2> HIDE DEF ends
  <2> QED
    BY <1>2, LeastIsIn
<1>4. BodyEnd(file, n) \in (n + 1)..Len(file)
  BY <1>3 DEF BodyEnd
<1> QED
  BY <1>1, <1>4 DEF EntryEnd

LEMMA KeptFromIs ==
  ASSUME NEW file \in Seq(ConfigLines), NEW host
  PROVE  \A r \in 0..Len(file) :
           KeptFrom(file, host)[r] =
             IF r = 0 THEN <<>>
             ELSE IF EntryAt(file, host, Len(file) + 1 - r)
             THEN KeptFrom(file, host)[Len(file) - EntryEnd(file, Len(file) + 1 - r)]
             ELSE <<file[Len(file) + 1 - r]>> \o KeptFrom(file, host)[r - 1]
<1> DEFINE N == Len(file)
           Ours(r) == EntryAt(file, host, N + 1 - r)
           Skip(r) == N - EntryEnd(file, N + 1 - r)
           Step(g, r) == IF r = 0 THEN <<>> ELSE IF Ours(r) THEN g[Skip(r)]
                         ELSE <<file[N + 1 - r]>> \o g[r - 1]
           Fits(g, m) == g = [r \in 0..m |-> Step(g, r)]
           S == {m \in 0..N : \E g : Fits(g, m)}
<1>0. \A r \in 1..N : Ours(r) => Skip(r) \in 0..(r - 1)
  <2> TAKE r \in 1..N
  <2>1. N + 1 - r \in 1..N
    OBVIOUS
  <2>2. Ours(r) => EntryEnd(file, N + 1 - r) \in (N + 1 - r + 1)..N
    BY <2>1, EntryEndIs
  <2> QED
    BY <2>2
<1>4. KeptFrom(file, host) = CHOOSE g : Fits(g, N)
  BY DEF KeptFrom
<1> HIDE DEF Ours, Skip
<1>1. 0 \in S
  <2> DEFINE g == [r \in 0..0 |-> <<>>]
  <2>1. Fits(g, 0)
    OBVIOUS
  <2>2. \E f : Fits(f, 0)
    BY <2>1
  <2>3. 0 \in 0..N
    OBVIOUS
  <2> QED
    BY <2>2, <2>3
<1>2. ASSUME NEW m \in 0..(N - 1), m \in S PROVE m + 1 \in S
  <2>1. PICK g : Fits(g, m)
    BY <1>2
  <2> DEFINE h == [r \in 0..(m + 1) |-> IF r = m + 1 THEN Step(g, m + 1) ELSE g[r]]
  <2>2. \A r \in 0..(m + 1) : h[r] = Step(h, r)
    <3>2. \A r \in 0..m : h[r] = g[r]
      OBVIOUS
    <3>3. h[m + 1] = Step(g, m + 1)
      OBVIOUS
    <3> HIDE DEF h
    <3>4. \A r \in 0..(m + 1) : Step(h, r) = Step(g, r)
      <4> TAKE r \in 0..(m + 1)
      <4>1. r # 0 => r \in 1..N /\ r - 1 \in 0..m
        OBVIOUS
      <4>2. r # 0 /\ Ours(r) => Skip(r) \in 0..m
        BY <1>0, <4>1
      <4> QED
        BY <3>2, <4>1, <4>2
    <3>5. \A r \in 0..m : g[r] = Step(g, r)
      <4> HIDE DEF Step
      <4> QED
        BY <2>1
    <3> HIDE DEF Step
    <3> QED
      BY <3>2, <3>3, <3>4, <3>5
  <2> HIDE DEF h, Step
  <2>3. h = [r \in 0..(m + 1) |-> h[r]]
    BY DEF h
  <2>4. Fits(h, m + 1)
    BY <2>2, <2>3
  <2> QED
    BY <2>4
<1>3. \E g : Fits(g, N)
  <2> HIDE DEF S
  <2>1. 0..N \subseteq S
    BY <1>1, <1>2, UpTo, SMTT(30)
  <2> QED
    <3> HIDE DEF Fits
    <3> QED
      BY <2>1, SMTT(30) DEF S
<1>5. Fits(KeptFrom(file, host), N)
  <2> HIDE DEF Fits
  <2> QED
    BY <1>3, <1>4
<1>6. \A r \in 0..N : KeptFrom(file, host)[r] = Step(KeptFrom(file, host), r)
  <2> HIDE DEF Step
  <2> QED
    BY <1>5
<1> QED
  BY <1>6 DEF Ours, Skip

LEMMA KeptIsFile ==
  ASSUME NEW file \in Seq(ConfigLines), NEW host
  PROVE  Kept(file, host) \in Seq(ConfigLines)
<1> DEFINE N == Len(file)
           kept == KeptFrom(file, host)
           S == {m \in 0..N : \A r \in 0..m : kept[r] \in Seq(ConfigLines)}
<1>0. N \in Nat
  OBVIOUS
<1>1. 0 \in S
  <2>1. kept[0] = <<>>
    <3>1. 0 \in 0..Len(file)
      BY <1>0
    <3> QED
      BY <3>1, KeptFromIs
  <2>2. <<>> \in Seq(ConfigLines)
    OBVIOUS
  <2>3. \A r \in 0..0 : r = 0
    OBVIOUS
  <2> HIDE DEF kept
  <2>4. \A r \in 0..0 : kept[r] \in Seq(ConfigLines)
    BY <2>1, <2>2, <2>3
  <2> QED
    BY <1>0, <2>4
<1>2. ASSUME NEW m \in 0..(N - 1), m \in S PROVE m + 1 \in S
  <2> DEFINE n == N - m
  <2>1. n \in 1..N /\ m + 1 \in 0..N /\ m + 1 # 0 /\ N + 1 - (m + 1) = n /\ m + 1 - 1 = m
        /\ \A r \in 0..(m + 1) : r = m + 1 \/ r \in 0..m
    OBVIOUS
  <2>2. kept[m + 1] = IF EntryAt(file, host, n) THEN kept[N - EntryEnd(file, n)]
                      ELSE <<file[n]>> \o kept[m]
    <3> DEFINE r == m + 1
    <3>1. r \in 0..N /\ r # 0 /\ N + 1 - r = n /\ r - 1 = m
      BY <2>1
    <3> HIDE DEF r, n
    <3>2. kept[r] = IF EntryAt(file, host, n) THEN kept[N - EntryEnd(file, n)]
                    ELSE <<file[n]>> \o kept[m]
      BY <3>1, KeptFromIs
    <3> QED
      BY <3>2 DEF r
  <2>3. \A r \in 0..m : kept[r] \in Seq(ConfigLines)
    BY <1>2
  <2> HIDE DEF kept
  <2>4. CASE EntryAt(file, host, n)
    <3>1. EntryEnd(file, n) \in (n + 1)..N
      BY <2>1, <2>4, EntryEndIs
    <3>2. N - EntryEnd(file, n) \in 0..m
      BY <3>1
    <3> QED
      BY <2>1, <2>2, <2>3, <2>4, <3>2
  <2>5. CASE ~EntryAt(file, host, n)
    <3>1. file[n] \in ConfigLines /\ kept[m] \in Seq(ConfigLines)
      BY <2>1, <2>3
    <3>2. <<file[n]>> \o kept[m] \in Seq(ConfigLines)
      BY <3>1
    <3> QED
      BY <2>1, <2>2, <2>3, <2>5, <3>2
  <2> QED
    BY <2>4, <2>5
<1> HIDE DEF S
<1>3. 0..N \subseteq S
  BY <1>0, <1>1, <1>2, UpTo, SMTT(30)
<1> QED
  BY <1>0, <1>3 DEF S, Kept

LEMMA TrimmedIsFile ==
  ASSUME NEW file \in Seq(ConfigLines)
  PROVE  TrimBlanks(file) \in Seq(ConfigLines)
<1> DEFINE full == {n \in DOMAIN file : file[n].kind # "blank"}
<1>1. Len(file) \in Nat /\ full \subseteq 0..Len(file) /\ full \subseteq 1..Len(file)
  OBVIOUS
<1>2. TrimBlanks(file) = IF full = {} THEN <<>> ELSE SubSeq(file, 1, Max(full))
  BY DEF TrimBlanks
<1> HIDE DEF full
<1>3. CASE full = {}
  BY <1>2, <1>3
<1>4. CASE full # {}
  <2> DEFINE m == Max(full)
  <2>1. m \in 1..Len(file)
    BY <1>1, <1>4, GreatestIsIn
  <2> HIDE DEF m
  <2>2. SubSeq(file, 1, m) \in Seq(ConfigLines)
    BY <2>1
  <2> QED
    BY <1>2, <1>4, <2>2 DEF m
<1> QED
  BY <1>3, <1>4

LEMMA LineIsOne ==
  ASSUME NEW kind \in {"directive", "marker", "blank", "long"}, NEW key \in STRING,
         NEW words \in Seq(STRING), NEW indent \in BOOLEAN
  PROVE  Line(kind, key, "space", words, indent) \in ConfigLines
<1>1. <<>> \in Seq([neg : BOOLEAN, glob : Seq(STRING)])
  OBVIOUS
<1> QED
  BY <1>1 DEF Line, ConfigLines

LEMMA OneIsSeq ==
  ASSUME NEW T, NEW w \in T
  PROVE  <<w>> \in Seq(T)
  OBVIOUS

LEMMA EntryIsFile ==
  ASSUME NEW host \in Seq(STRING), NEW user \in STRING
  PROVE  Entry(host, user) \in Seq(ConfigLines) /\ Blank \in ConfigLines
<1> DEFINE b == Line("directive", "host", "space", <<>>, FALSE)
           ps == <<Exactly(host)>>
           one == Marker
           two == HostLine("space", ps)
           three == Line("directive", "user", "space", <<user>>, TRUE)
           four == Line("directive", "proxycommand", "space", <<"ssm">>, TRUE)
<1>1. "" \in STRING /\ "host" \in STRING /\ "user" \in STRING /\ "proxycommand" \in STRING
      /\ "ssm" \in STRING
  BY ConfigAssumption DEF ConfigAssumption
<1>2. <<>> \in Seq(STRING) /\ <<user>> \in Seq(STRING) /\ <<"ssm">> \in Seq(STRING)
  <2>1. \A w \in STRING : <<w>> \in Seq(STRING)
    BY OneIsSeq
  <2>2. <<>> \in Seq(STRING)
    OBVIOUS
  <2> QED
    BY <1>1, <2>1, <2>2
<1>3. one \in ConfigLines /\ Blank \in ConfigLines
  BY <1>1, <1>2, LineIsOne DEF Marker, Blank
<1>4. three \in ConfigLines /\ four \in ConfigLines /\ b \in ConfigLines
  BY <1>1, <1>2, LineIsOne
<1>5. two \in ConfigLines
  <2>1. ps \in Seq([neg : BOOLEAN, glob : Seq(STRING)])
    BY DEF Exactly
  <2>2. two = [b EXCEPT !.patterns = ps]
    BY DEF HostLine
  <2> HIDE DEF b, ps
  <2> QED
    BY <1>4, <2>1, <2>2 DEF ConfigLines
<1>6. Entry(host, user) = <<one, two, three, four>>
  BY DEF Entry
<1> HIDE DEF one, two, three, four
<1> QED
  BY <1>3, <1>4, <1>5, <1>6

LEMMA UpsertIsFile ==
  ASSUME NEW file \in Seq(ConfigLines), NEW host \in Seq(STRING), NEW user \in STRING
  PROVE  ReplaceOrAppendHostBlock(file, host, user) \in Seq(ConfigLines)
<1> DEFINE kept == TrimBlanks(Kept(file, host))
           entry == Entry(host, user)
           front == IF kept = <<>> THEN <<>> ELSE Append(kept, Blank)
<1>1. kept \in Seq(ConfigLines)
  BY KeptIsFile, TrimmedIsFile
<1>2. entry \in Seq(ConfigLines) /\ Blank \in ConfigLines
  BY EntryIsFile
<1>3. ReplaceOrAppendHostBlock(file, host, user) = front \o entry
  BY DEF ReplaceOrAppendHostBlock
<1> HIDE DEF kept
<1>4. front \in Seq(ConfigLines)
  BY <1>1, <1>2
<1> HIDE DEF front, entry
<1>5. front \o entry \in Seq(ConfigLines)
  BY <1>2, <1>4
<1> QED
  BY <1>3, <1>5

---------------------------------------------------------------------------
(* What a session is started with.  The inductive invariant says of the      *)
(* merged options from the moment they are merged what OptionsAsMerged says  *)
(* of a session, which is more than EffectiveOptions; LineAsWritten gives    *)
(* the command line's part of it and ConfigReadInOrder the configuration's.  *)

AsMerged(o) ==
  /\ o.user = FirstOf(<<UserGiven, ConfigWord("user"), app.user>>, "ec2-user")
  /\ o.target = FirstOf(<<ConfigWord("hostname")>>, Split[argv[Destination]][2])
  /\ o.port = LET p == LastGiven("-p")
                  other == IF app.port = 0 THEN 22 ELSE app.port
              IN  IF p # None /\ Number[p] # 22 THEN Number[p]
                  ELSE IF ConfigWord("port") \in DOMAIN Number
                  THEN Number[ConfigWord("port")] ELSE other
  /\ o.keyFile = FirstOf(<<LastGiven("-i"), ConfigWord("identityfile")>>, None)
  /\ \E v \in OptionOrConfig("stricthostkeychecking") :
       o.noHostKeyCheck = (v \in {"no", "accept-new"})
  /\ \E v \in OptionOrConfig("connecttimeout") :
       o.timeout = IF v \in DOMAIN Number THEN Number[v]
                   ELSE IF ConfigWord("connecttimeout") \in DOMAIN Number
                   THEN Number[ConfigWord("connecttimeout")] ELSE 0
  /\ o.knownHosts \in OptionOrConfig("userknownhostsfile")
  /\ o.disablePTY <=> SwitchGiven("T")
  /\ o.dynamic = LastGiven("-D")
  /\ o.command = SubSeq(argv, Destination + 1, Len(argv))
OptionsAsMerged ==
  stage = "session" => AsMerged(opts) /\ opts.ephemeralOnly = app.connect

\* The file and its updates: what is read and written is a file of lines.
Updates == [at : {"read", "truncated"}, host : Seq(STRING), user : STRING, was : Seq(ConfigLines)]
Histories == [file : Seq(ConfigLines), hosts : SUBSET Seq(STRING), last : {<<>>} \union (Seq(STRING) \X STRING),
              sound : BOOLEAN]
UpdateTypes == home \in Seq(ConfigLines) /\ update \in Updates \union {NoUpdate} /\ since \in Histories

OptionNames == {"user", "port", "keyFile", "noHostKeyCheck", "knownHosts", "timeout", "command",
                "disablePTY", "dynamic", "target", "ephemeralOnly"}
OptionsInv ==
  /\ UpdateTypes
  /\ stage \in {"resolve", "session"} => DOMAIN opts = OptionNames /\ AsMerged(opts)
  /\ OptionsAsMerged

LEMMA ChangesAreTyped == UpdateTypes /\ ConfigChanges => UpdateTypes'
<1> SUFFICES ASSUME UpdateTypes, ConfigChanges PROVE UpdateTypes'
  OBVIOUS
<1> USE DEF UpdateTypes
<1>1. ASSUME NEW h \in Proxied, NEW u \in ProxyUsers, ReadsConfig(h, u) PROVE UpdateTypes'
  <2>1. Chars[h] \in Seq(STRING) /\ u \in STRING
    BY CompatAssumption DEF CompatAssumption
  <2>2. update' \in Updates
    BY <1>1, <2>1 DEF ReadsConfig, Updates
  <2>3. since' \in Histories
    BY <1>1 DEF ReadsConfig, Histories
  <2> QED
    BY <1>1, <2>2, <2>3 DEF ReadsConfig
<1>2. CASE Truncates
  <2>1. update \in Updates
    BY <1>2 DEF Truncates, NoUpdate
  <2>2. update' \in Updates
    BY <1>2, <2>1 DEF Truncates, Updates
  <2> QED
    BY <1>2, <2>2 DEF Truncates
<1>3. ASSUME update \in Updates PROVE Rewritten \in Seq(ConfigLines)
  BY <1>3, UpsertIsFile DEF Rewritten, Updates
<1>4. CASE WriteCompletes
  <2>1. update \in Updates
    BY <1>4 DEF WriteCompletes, NoUpdate
  <2>2. since' \in Histories
    BY <1>4, <2>1 DEF WriteCompletes, Histories, Updates
  <2> QED
    BY <1>3, <1>4, <2>1, <2>2 DEF WriteCompletes
<1>5. CASE BreaksOff
  <2>1. update \in Updates /\ update' = NoUpdate
    BY <1>5 DEF BreaksOff
  <2>2. since' \in Histories
    BY <1>5 DEF BreaksOff, Histories
  <2>3. home' \in Seq(ConfigLines)
    <3>1. ASSUME NEW n \in 0..Len(Rewritten) PROVE SubSeq(Rewritten, 1, n) \in Seq(ConfigLines)
      <4> DEFINE R == Rewritten
      <4>1. R \in Seq(ConfigLines)
        BY <1>3, <2>1
      <4> HIDE DEF R
      <4>2. n \in 0..Len(R)
        BY DEF R
      <4>3. SubSeq(R, 1, n) \in Seq(ConfigLines)
        BY <4>1, <4>2
      <4> QED
        BY <4>3 DEF R
    <3> QED
      BY <1>5, <3>1 DEF BreaksOff
  <2> QED
    BY <2>1, <2>2, <2>3
<1>6. ASSUME NEW f \in Edits, UserEdits(f) PROVE UpdateTypes'
  <2>1. f \in Seq(ConfigLines)
    BY CompatAssumption DEF CompatAssumption
  <2> QED
    BY <1>6, <2>1 DEF UserEdits, Edited, Histories
<1> QED
  BY <1>1, <1>2, <1>4, <1>5, <1>6 DEF ConfigChanges

\* The first candidate that is given.
LEMMA FirstGiven ==
  ASSUME NEW d, NEW s, DOMAIN s \subseteq Nat, NEW m \in DOMAIN s, s[m] # None,
         \A i \in DOMAIN s : s[i] # None => m =< i
  PROVE  FirstOf(s, d) = s[m]
<1> DEFINE given == {i \in DOMAIN s : s[i] # None}
<1>1. m \in given /\ given \subseteq Int /\ \A i \in given : m =< i
  OBVIOUS
<1>2. FirstOf(s, d) = IF given = {} THEN d ELSE s[Min(given)]
  BY DEF FirstOf
<1> HIDE DEF given
<1> QED
  BY <1>1, <1>2, MinIs

LEMMA NoneGiven ==
  ASSUME NEW d, NEW s, \A i \in DOMAIN s : s[i] = None
  PROVE  FirstOf(s, d) = d
  BY DEF FirstOf

LEMMA FirstOfThree ==
  ASSUME NEW s, DOMAIN s = 1..3, NEW d
  PROVE  FirstOf(s, d) = IF s[1] # None THEN s[1] ELSE IF s[2] # None THEN s[2]
                         ELSE IF s[3] # None THEN s[3] ELSE d
<1>1. DOMAIN s \subseteq Nat /\ 1 \in DOMAIN s /\ 2 \in DOMAIN s /\ 3 \in DOMAIN s
  OBVIOUS
<1>2. \A i \in DOMAIN s : i = 1 \/ i = 2 \/ i = 3
  OBVIOUS
<1>3. CASE s[1] # None
  <2>1. \A i \in DOMAIN s : s[i] # None => 1 =< i
    BY <1>2
  <2> QED
    BY <1>1, <1>3, <2>1, FirstGiven
<1>4. CASE s[1] = None /\ s[2] # None
  <2>1. \A i \in DOMAIN s : s[i] # None => 2 =< i
    BY <1>2, <1>4
  <2> QED
    BY <1>1, <1>4, <2>1, FirstGiven
<1>5. CASE s[1] = None /\ s[2] = None /\ s[3] # None
  <2>1. \A i \in DOMAIN s : s[i] # None => 3 =< i
    BY <1>2, <1>5
  <2> QED
    BY <1>1, <1>5, <2>1, FirstGiven
<1>6. CASE s[1] = None /\ s[2] = None /\ s[3] = None
  <2>1. \A i \in DOMAIN s : s[i] = None
    BY <1>2, <1>6
  <2> QED
    BY <1>6, <2>1, NoneGiven
<1> QED
  BY <1>3, <1>4, <1>5, <1>6

LEMMA FirstOfTwo ==
  ASSUME NEW s, DOMAIN s = 1..2, NEW d
  PROVE  FirstOf(s, d) = IF s[1] # None THEN s[1] ELSE IF s[2] # None THEN s[2] ELSE d
<1>1. DOMAIN s \subseteq Nat /\ 1 \in DOMAIN s /\ 2 \in DOMAIN s
  OBVIOUS
<1>2. \A i \in DOMAIN s : i = 1 \/ i = 2
  OBVIOUS
<1>3. CASE s[1] # None
  <2>1. \A i \in DOMAIN s : s[i] # None => 1 =< i
    BY <1>2
  <2> QED
    BY <1>1, <1>3, <2>1, FirstGiven
<1>4. CASE s[1] = None /\ s[2] # None
  <2>1. \A i \in DOMAIN s : s[i] # None => 2 =< i
    BY <1>2, <1>4
  <2> QED
    BY <1>1, <1>4, <2>1, FirstGiven
<1>5. CASE s[1] = None /\ s[2] = None
  <2>1. \A i \in DOMAIN s : s[i] = None
    BY <1>2, <1>5
  <2> QED
    BY <1>5, <2>1, NoneGiven
<1> QED
  BY <1>3, <1>4, <1>5

LEMMA FirstOfOne ==
  ASSUME NEW s, DOMAIN s = 1..1, NEW d
  PROVE  FirstOf(s, d) = IF s[1] # None THEN s[1] ELSE d
<1>1. DOMAIN s \subseteq Nat /\ 1 \in DOMAIN s /\ \A i \in DOMAIN s : i = 1
  OBVIOUS
<1>2. CASE s[1] # None
  <2>1. \A i \in DOMAIN s : s[i] # None => 1 =< i
    BY <1>1
  <2> QED
    BY <1>1, <1>2, <2>1, FirstGiven
<1>3. CASE s[1] = None
  BY <1>1, <1>3, NoneGiven
<1> QED
  BY <1>2, <1>3

LEMMA ValueIsWords ==
  ASSUME NEW file \in Seq(ConfigLines), NEW host, NEW k
  PROVE  FirstValue(file, host, k) \in Seq(STRING)
<1> DEFINE lines == {n \in DOMAIN file : /\ KeyOf(file, n) = k
                                        /\ SectionTakes(file, host, n)
                                        /\ FirstInSection(file, k, n)
                                        /\ file[n].args # Unset}
<1>1. FirstValue(file, host, k) =
        IF lines = {} \/ \E n \in DOMAIN file : file[n].kind = "long" THEN Unset
        ELSE file[Min(lines)].args
  BY DEF FirstValue
<1>2. Unset \in Seq(STRING)
  BY DEF Unset
<1>3. lines \subseteq DOMAIN file /\ DOMAIN file \subseteq Nat
  OBVIOUS
<1> HIDE DEF lines
<1>4. ASSUME lines # {} PROVE file[Min(lines)].args \in Seq(STRING)
  <2> DEFINE n == Min(lines)
  <2>1. n \in DOMAIN file
    BY <1>3, <1>4, LeastIsIn
  <2> HIDE DEF n
  <2>2. file[n] \in ConfigLines
    BY <2>1
  <2> QED
    BY <2>2 DEF ConfigLines, n
<1> QED
  BY <1>1, <1>2, <1>4

LEMMA OnlyIsIn ==
  ASSUME NEW T, NEW v \in Seq(T), Len(v) = 1
  PROVE  v[1] \in T
  OBVIOUS

\* The configuration the merge reads is what its lines say.
LEMMA ConfigSays ==
  ASSUME ParseInv, phase = "parsed", home \in Seq(ConfigLines), NEW k \in Settings
  PROVE  /\ HostCfg[k] = InConfig(k)
         /\ ConfigWord(k) = None <=> HostCfg[k] = Unset
         /\ ConfigWord(k) # None => Word(HostCfg[k]) = ConfigWord(k)
         /\ \A d : FromConfig(HostCfg[k], d) = IF ConfigWord(k) = None THEN d ELSE ConfigWord(k)
<1> DEFINE host == Split[argv[Destination]][2]
<1>1. Destination # 0 /\ args.host = host /\ host # ""
  BY DEF ParseInv, LineAsWritten
<1>2. Destination \in DOMAIN argv /\ argv[Destination] \in DOMAIN Shape
  <2>1. NoWordBefore(1) /\ argv \in Seq(DOMAIN Shape) /\ 1 \in 1..(Len(argv) + 1)
    BY DEF NoWordBefore, ParseInv
  <2>2. Destination \in DOMAIN argv
    BY <1>1, <2>1, DestinationBehind
  <2> QED
    BY <2>1, <2>2
<1>3. Chars[host] \in Seq(STRING)
  BY <1>1, <1>2, CompatAssumption DEF CompatAssumption
<1>4. ConfigRead \in Seq(ConfigLines)
  <2>1. <<>> \in Seq(ConfigLines)
    OBVIOUS
  <2> QED
    BY <2>1, CompatAssumption DEF CompatAssumption, ConfigRead
<1>5. k \in Keywords
  BY CompatAssumption DEF CompatAssumption
<1> DEFINE v == InConfig(k)
<1>6. HostCfg[k] = v
  BY <1>1, <1>3, <1>4, <1>5, ConfigReadInOrder DEF HostCfg, InConfig
<1>7. v \in Seq(STRING)
  BY <1>4, ValueIsWords DEF InConfig
<1> HIDE DEF v
<1>8. ASSUME v # Unset PROVE Word(v) # None
  <2>1. "several words" \in STRING /\ None \notin STRING
    BY CompatAssumption DEF CompatAssumption
  <2>2. Len(v) = 1 => v[1] \in STRING
    BY <1>7, OnlyIsIn
  <2> QED
    BY <2>1, <2>2 DEF Word
<1>9. ConfigWord(k) = IF v = Unset THEN None ELSE Word(v)
  BY DEF ConfigWord, v
<1> QED
  BY <1>6, <1>8, <1>9 DEF FromConfig, v

\* Merging as mergeSSHUser, mergeSSHPort and their like do it.
LEMMA MergedAsGiven ==
  ASSUME ParseInv, phase = "parsed", home \in Seq(ConfigLines),
         NEW check \in HostKeyChecks, NEW known \in KnownHosts, NEW timeout \in Timeouts,
         NEW o, o = [user |-> User, port |-> Port, keyFile |-> KeyFile, noHostKeyCheck |-> check,
                     knownHosts |-> known, timeout |-> timeout, command |-> args.command,
                     disablePTY |-> "T" \in args.switches, dynamic |-> args.dynamic,
                     target |-> Target, ephemeralOnly |-> FALSE]
  PROVE  AsMerged(o)
<1>1. /\ args.user = UserGiven /\ args.host = Split[argv[Destination]][2]
      /\ args.identity = LastGiven("-i") /\ args.dynamic = LastGiven("-D")
      /\ args.port = (IF LastGiven("-p") = None THEN 22 ELSE Number[LastGiven("-p")])
      /\ args.command = SubSeq(argv, Destination + 1, Len(argv))
      /\ "T" \in args.switches <=> SwitchGiven("T")
  BY DEF ParseInv, LineAsWritten, Switches
<1>2. /\ GetOptionValues(args, "stricthostkeychecking") = OptionGiven("stricthostkeychecking")
      /\ GetOptionValues(args, "userknownhostsfile") = OptionGiven("userknownhostsfile")
      /\ GetOptionValues(args, "connecttimeout") = OptionGiven("connecttimeout")
  <2>1. \A key \in {Lower[k] : k \in DOMAIN Lower} : GetOptionValues(args, key) = OptionGiven(key)
    BY DEF ParseInv, LineAsWritten
  <2>2. Range(Lower) = {Lower[k] : k \in DOMAIN Lower}
    BY DEF Range
  <2> QED
    BY <2>1, <2>2, CompatAssumption DEF CompatAssumption
<1>3. o.user = FirstOf(<<UserGiven, ConfigWord("user"), app.user>>, "ec2-user")
  <2>1. \A d : FromConfig(HostCfg["user"], d) =
                 IF ConfigWord("user") = None THEN d ELSE ConfigWord("user")
    BY ConfigSays DEF Settings
  <2> DEFINE c == ConfigWord("user")
             all == <<UserGiven, c, app.user>>
  <2> HIDE DEF c
  <2>2. DOMAIN all = 1..3 /\ all[1] = UserGiven /\ all[2] = c /\ all[3] = app.user
    OBVIOUS
  <2> HIDE DEF all
  <2>3. FirstOf(all, "ec2-user") =
          IF UserGiven # None THEN UserGiven ELSE IF c # None THEN c
          ELSE IF app.user # None THEN app.user ELSE "ec2-user"
    BY <2>2, FirstOfThree
  <2>4. User = IF UserGiven # None THEN UserGiven ELSE IF c # None THEN c
               ELSE IF app.user # None THEN app.user ELSE "ec2-user"
    BY <1>1, <2>1 DEF User, c
  <2>5. o.user = User
    OBVIOUS
  <2> QED
    BY <2>3, <2>4, <2>5 DEF c, all
<1>4. o.target = FirstOf(<<ConfigWord("hostname")>>, Split[argv[Destination]][2])
  <2>1. \A d : FromConfig(HostCfg["hostname"], d) =
                 IF ConfigWord("hostname") = None THEN d ELSE ConfigWord("hostname")
    BY ConfigSays DEF Settings
  <2> DEFINE c == ConfigWord("hostname")
             all == <<c>>
             host == Split[argv[Destination]][2]
  <2> HIDE DEF c, host
  <2>2. DOMAIN all = 1..1 /\ all[1] = c
    OBVIOUS
  <2> HIDE DEF all
  <2>3. FirstOf(all, host) = IF c # None THEN c ELSE host
    BY <2>2, FirstOfOne
  <2>4. Target = IF c # None THEN c ELSE host
    BY <1>1, <2>1 DEF Target, c, host
  <2>5. o.target = Target
    OBVIOUS
  <2> QED
    BY <2>3, <2>4, <2>5 DEF c, host, all
<1>5. o.port = LET p == LastGiven("-p")
                   other == IF app.port = 0 THEN 22 ELSE app.port
               IN  IF p # None /\ Number[p] # 22 THEN Number[p]
                   ELSE IF ConfigWord("port") \in DOMAIN Number
                   THEN Number[ConfigWord("port")] ELSE other
  <2>1. FromConfig(HostCfg["port"], None) = ConfigWord("port")
        /\ (ConfigWord("port") # None => Word(HostCfg["port"]) = ConfigWord("port"))
    BY ConfigSays DEF Settings
  <2>2. None \notin DOMAIN Number
    BY CompatAssumption DEF CompatAssumption
  <2>3. o.port = Port
    OBVIOUS
  <2> DEFINE c == ConfigWord("port")
  <2>4. Port = IF args.port # 22 THEN args.port
               ELSE IF c \in DOMAIN Number THEN Number[c]
               ELSE IF app.port # 0 THEN app.port ELSE 22
    <3> HIDE DEF c
    <3>1. FromConfig(HostCfg["port"], None) = c /\ (c # None => Word(HostCfg["port"]) = c)
      BY <2>1 DEF c
    <3>2. CASE args.port # 22
      BY <3>2 DEF Port
    <3>3. CASE args.port = 22 /\ c \in DOMAIN Number
      BY <2>2, <3>1, <3>3 DEF Port
    <3>4. CASE args.port = 22 /\ c \notin DOMAIN Number
      BY <3>1, <3>4 DEF Port
    <3> QED
      BY <3>2, <3>3, <3>4
  <2> QED
    BY <1>1, <2>3, <2>4
<1>6. o.keyFile = FirstOf(<<LastGiven("-i"), ConfigWord("identityfile")>>, None)
  <2>1. FromConfig(HostCfg["identityfile"], None) = ConfigWord("identityfile")
    BY ConfigSays DEF Settings
  <2> DEFINE c == ConfigWord("identityfile")
             i == LastGiven("-i")
             all == <<i, c>>
  <2> HIDE DEF c, i
  <2>5. DOMAIN all = 1..2 /\ all[1] = i /\ all[2] = c
    OBVIOUS
  <2> HIDE DEF all
  <2>2. FirstOf(all, None) = IF i # None THEN i ELSE IF c # None THEN c ELSE None
    BY <2>5, FirstOfTwo
  <2>3. KeyFile = IF i # None THEN i ELSE c
    BY <1>1, <2>1 DEF KeyFile, c, i
  <2>4. o.keyFile = KeyFile
    OBVIOUS
  <2> QED
    BY <2>2, <2>3, <2>4 DEF c, i, all
<1>7. \E v \in OptionOrConfig("stricthostkeychecking") :
        o.noHostKeyCheck = (v \in {"no", "accept-new"})
  <2>1. FromConfig(HostCfg["stricthostkeychecking"], None) = ConfigWord("stricthostkeychecking")
    BY ConfigSays DEF Settings
  <2>2. \E v \in OptionOrConfig("stricthostkeychecking") : check = CheckDisabled(v)
    BY <1>2, <2>1 DEF HostKeyChecks, OptionOrConfig
  <2> QED
    BY <2>2 DEF CheckDisabled
<1>8. \E v \in OptionOrConfig("connecttimeout") :
        o.timeout = IF v \in DOMAIN Number THEN Number[v]
                    ELSE IF ConfigWord("connecttimeout") \in DOMAIN Number
                    THEN Number[ConfigWord("connecttimeout")] ELSE 0
  <2>1. FromConfig(HostCfg["connecttimeout"], None) = ConfigWord("connecttimeout")
    BY ConfigSays DEF Settings
  <2> QED
    BY <1>2, <2>1 DEF Timeouts, OptionOrConfig
<1>9. o.knownHosts \in OptionOrConfig("userknownhostsfile")
  <2>1. FromConfig(HostCfg["userknownhostsfile"], None) = ConfigWord("userknownhostsfile")
    BY ConfigSays DEF Settings
  <2> QED
    BY <1>2, <2>1 DEF KnownHosts, OptionOrConfig
<1>10. o.disablePTY <=> SwitchGiven("T")
  <2>1. "T" \in args.switches <=> SwitchGiven("T")
    BY <1>1
  <2>2. o.disablePTY <=> "T" \in args.switches
    OBVIOUS
  <2> QED
    BY <2>1, <2>2
<1>11. o.dynamic = LastGiven("-D") /\ o.command = SubSeq(argv, Destination + 1, Len(argv))
  BY <1>1
<1> HIDE DEF Range
<1> QED
  BY <1>3, <1>4, <1>5, <1>6, <1>7, <1>8, <1>9, <1>10, <1>11 DEF AsMerged

\* What was given stays what it was while nothing of it is touched.
LEMMA GivenStays ==
  ASSUME argv' = argv, args' = args, home' = home, app' = app
  PROVE  \A o : (AsMerged(o))' <=> AsMerged(o)
<1>1. /\ Destination' = Destination /\ UserGiven' = UserGiven
      /\ \A f : (LastGiven(f))' = LastGiven(f)
      /\ \A s : (SwitchGiven(s))' <=> SwitchGiven(s)
      /\ \A key : (OptionGiven(key))' = OptionGiven(key)
  BY SameLine
<1>2. ConfigRead' = ConfigRead
  BY DEF ConfigRead
<1>3. \A k : (ConfigWord(k))' = ConfigWord(k)
  BY <1>1, <1>2 DEF ConfigWord, InConfig
<1>4. \A key : (OptionOrConfig(key))' = OptionOrConfig(key)
  BY <1>1, <1>3 DEF OptionOrConfig
<1> QED
  BY <1>1, <1>3, <1>4 DEF AsMerged

\* Only ConfigChanges touches the file and its updates.
LEMMA FileStays == [Next]_vars => ConfigChanges \/ UNCHANGED fileVars
<1> USE DEF fileVars
<1>1. Invoke \/ ParseFails \/ SetupFails \/ ResolveFails => UNCHANGED fileVars
  BY DEF Invoke, ParseFails, SetupFails, ResolveFails
<1>2. Parse \/ ResolveTarget => UNCHANGED fileVars
  BY DEF Parse, ResolveTarget, compatVars
<1>3. MergeOptions => UNCHANGED fileVars
  BY DEF MergeOptions
<1>4. StartsSession => UNCHANGED fileVars
  BY DEF StartsSession
<1>5. UNCHANGED vars => UNCHANGED fileVars
  BY DEF vars, compatVars
<1> QED
  BY <1>1, <1>2, <1>3, <1>4, <1>5 DEF Next

LEMMA StepKeepsOptions == ParseInv /\ OptionsInv /\ [Next]_vars => OptionsInv'
<1> SUFFICES ASSUME ParseInv, OptionsInv, [Next]_vars PROVE OptionsInv'
  OBVIOUS
<1>0. UpdateTypes'
  <2>1. UNCHANGED fileVars => UpdateTypes'
    BY DEF OptionsInv, UpdateTypes, fileVars
  <2> QED
    BY <2>1, ChangesAreTyped, FileStays DEF OptionsInv
<1>1. CASE stage' \notin {"resolve", "session"}
  BY <1>0, <1>1 DEF OptionsInv, OptionsAsMerged
<1>2. CASE ConfigChanges
  <2>1. stage' = "shell"
    BY <1>2, ChangesBeside DEF Beside
  <2> QED
    BY <1>1, <2>1
<1>3. CASE MergeOptions
  <2>1. stage' = "resolve" /\ phase = "parsed" /\ home' = home /\ app' = app
        /\ argv' = argv /\ args' = args
    BY <1>3 DEF MergeOptions, argVars, fileVars
  <2>2. PICK check \in HostKeyChecks, known \in KnownHosts, timeout \in Timeouts :
          opts' = [user |-> User, port |-> Port, keyFile |-> KeyFile, noHostKeyCheck |-> check,
                   knownHosts |-> known, timeout |-> timeout, command |-> args.command,
                   disablePTY |-> "T" \in args.switches, dynamic |-> args.dynamic,
                   target |-> Target, ephemeralOnly |-> FALSE]
    BY <1>3 DEF MergeOptions
  <2>3. AsMerged(opts')
    BY <2>1, <2>2, MergedAsGiven DEF OptionsInv, UpdateTypes
  <2>4. (AsMerged(opts))'
    BY <2>1, <2>3, GivenStays
  <2>5. DOMAIN opts' = OptionNames
    BY <2>2 DEF OptionNames
  <2> QED
    BY <1>0, <2>1, <2>4, <2>5 DEF OptionsInv, OptionsAsMerged
<1>4. CASE StartsSession /\ stage' = "session"
  <2>1. stage = "resolve" /\ opts' = [opts EXCEPT !.ephemeralOnly = app.connect]
        /\ argv' = argv /\ args' = args /\ home' = home /\ app' = app
    BY <1>4 DEF StartsSession, argVars, fileVars
  <2>2. DOMAIN opts = OptionNames /\ AsMerged(opts)
    BY <2>1 DEF OptionsInv
  <2>3. /\ DOMAIN opts' = OptionNames /\ opts'.ephemeralOnly = app.connect
        /\ opts'.user = opts.user /\ opts'.port = opts.port /\ opts'.keyFile = opts.keyFile
        /\ opts'.noHostKeyCheck = opts.noHostKeyCheck /\ opts'.knownHosts = opts.knownHosts
        /\ opts'.timeout = opts.timeout /\ opts'.command = opts.command
        /\ opts'.disablePTY = opts.disablePTY /\ opts'.dynamic = opts.dynamic
        /\ opts'.target = opts.target
    BY <2>1, <2>2 DEF OptionNames
  <2>4. AsMerged(opts')
    BY <2>2, <2>3 DEF AsMerged
  <2>5. (AsMerged(opts))'
    BY <2>1, <2>4, GivenStays
  <2> QED
    BY <1>0, <1>4, <2>1, <2>3, <2>5 DEF OptionsInv, OptionsAsMerged
<1>5. CASE UNCHANGED <<argVars, compatVars>>
  <2>1. argv' = argv /\ args' = args /\ home' = home /\ app' = app /\ opts' = opts /\ stage' = stage
    BY <1>5 DEF argVars, compatVars, fileVars
  <2>2. AsMerged(opts) => (AsMerged(opts))'
    BY <2>1, GivenStays
  <2> QED
    BY <1>0, <2>1, <2>2 DEF OptionsInv, OptionsAsMerged
<1>6. CASE Invoke \/ Parse \/ ParseFails \/ SetupFails \/ ResolveFails
  <2>1. stage' \notin {"resolve", "session"}
    BY <1>6 DEF Invoke, Parse, ParseFails, SetupFails, ResolveFails, compatVars
  <2> QED
    BY <1>1, <2>1
<1>7. CASE StartsSession
  <2>1. stage' \in {"session", "failed"}
    BY <1>7 DEF StartsSession
  <2> QED
    BY <1>1, <1>4, <1>7, <2>1
<1>8. CASE ResolveTarget
  BY <1>5, <1>8 DEF ResolveTarget
<1>9. CASE UNCHANGED vars
  BY <1>5, <1>9 DEF vars
<1> QED
  BY <1>2, <1>3, <1>6, <1>7, <1>8, <1>9 DEF Next

LEMMA OptionsBegin == Init => OptionsInv
<1> SUFFICES ASSUME Init PROVE OptionsInv
  OBVIOUS
<1>1. /\ stage = "shell" /\ home \in Seq(ConfigLines) /\ update = NoUpdate
      /\ since = [file |-> home, hosts |-> {}, last |-> <<>>, sound |-> TRUE]
  BY CompatAssumption DEF Init, Edited
<1>2. UpdateTypes
  BY <1>1 DEF UpdateTypes, Histories
<1> QED
  BY <1>1, <1>2 DEF OptionsInv, OptionsAsMerged

\* RunSSHCompat: each setting of a session comes from the command line, else from
\* the first line of the configuration that sets it for the host, else from the
\* program's own configuration, else from its default; but for a user given twice,
\* -p 22, -D, and a word behind an unknown flag that may be its value.
THEOREM OptionsTakeEffectInOrder == Spec => []EffectiveOptions
<1>1. Init => ParseInv /\ OptionsInv
  BY LineBegins, OptionsBegin
<1>2. ParseInv /\ OptionsInv /\ [Next]_vars => (ParseInv /\ OptionsInv)'
  BY StepKeepsLine, StepKeepsOptions
<1>3. ParseInv /\ OptionsInv => EffectiveOptions
  BY DEF OptionsInv, OptionsAsMerged, EffectiveOptions, AsMerged, AsGiven
<1> QED
  BY <1>1, <1>2, <1>3, PTL DEF Spec

---------------------------------------------------------------------------
(* What add-proxy-command leaves of a file.  In a tidy file the entries for  *)
(* the host lie apart, so the lines that stay are those in no entry (Picks,   *)
(* Stay), each with the head of its section and what stands between the two: *)
(* it counts for another host exactly if it did (StayingCounts), and no line  *)
(* of an old entry or the new one counts for one (EntryCountsNot,             *)
(* AddedCountsNot).                                                          *)

\* A line with a keyword.
Keyed(file, n) == KeyOf(file, n) # ""
InEntry(file, host, n) ==
  \E m \in 1..Len(file) : EntryAt(file, host, m) /\ m =< n /\ n =< EntryEnd(file, m)
Apart(file, host) ==
  \A m, n \in 1..Len(file) :
    EntryAt(file, host, m) /\ EntryAt(file, host, n) /\ m < n => EntryEnd(file, m) < n

LEMMA EntryLines ==
  ASSUME NEW file \in Seq(ConfigLines), NEW host, NEW n \in 1..Len(file), EntryAt(file, host, n)
  PROVE  /\ n + 1 \in 1..Len(file)
         /\ file[n].kind = "marker" /\ ~Keyed(file, n)
         /\ file[n + 1].kind = "directive" /\ KeyOf(file, n + 1) = "host"
         /\ file[n + 1].patterns = <<Exactly(host)>>
<1> DEFINE l == file[n + 1]
           ps == <<Exactly(host)>>
<1>1. n + 1 \in 1..Len(file) /\ file[n].kind = "marker"
      /\ [l EXCEPT !.indent = FALSE] = HostLine("space", ps)
  BY DEF EntryAt
<1>2. l \in ConfigLines
  BY <1>1
<1> HIDE DEF l, ps
<1>3. HostLine("space", ps).kind = "directive" /\ HostLine("space", ps).key = "host"
      /\ HostLine("space", ps).sep = "space" /\ HostLine("space", ps).args = <<>>
      /\ HostLine("space", ps).patterns = ps
  BY DEF HostLine, Line
<1>4. l.kind = "directive" /\ l.key = "host" /\ l.sep = "space" /\ l.args = <<>> /\ l.patterns = ps
  <2>1. \A x \in ConfigLines : LET y == [x EXCEPT !.indent = FALSE]
          IN y.kind = x.kind /\ y.key = x.key /\ y.sep = x.sep /\ y.args = x.args
             /\ y.patterns = x.patterns
    BY DEF ConfigLines
  <2> QED
    BY <1>1, <1>2, <1>3, <2>1
<1>5. SplitConfigLine(l).key = "host"
  <2>1. DOMAIN l.args = {}
    BY <1>4
  <2> QED
    BY <1>4, <2>1 DEF SplitConfigLine
<1>6. KeyOf(file, n + 1) = "host"
  BY <1>4, <1>5 DEF KeyOf, l
<1>7. ~Keyed(file, n)
  <2>1. file[n].kind # "directive"
    BY <1>1
  <2> QED
    BY <2>1 DEF Keyed, KeyOf
<1> QED
  BY <1>1, <1>4, <1>6, <1>7 DEF l, ps

LEMMA PlacesOf ==
  ASSUME NEW T, NEW s \in Seq(T)
  PROVE  DOMAIN s = 1..Len(s) /\ Len(s) \in Nat /\ DOMAIN s \subseteq Nat
  OBVIOUS

\* The lines that go with a marker are those the update takes for its entry.
Behind(file, n) == {m \in (n + 2)..Len(file) : \E i \in (n + 2)..m : ~file[i].indent}
LEMMA BehindIs ==
  ASSUME NEW file \in Seq(ConfigLines), NEW n \in 1..Len(file), n + 1 \in 1..Len(file)
  PROVE  /\ {m \in Behind(file, n) : Keyed(file, m)}
              = {m \in (EntryEnd(file, n) + 1)..Len(file) : Keyed(file, m)}
         /\ \A m \in (n + 2)..EntryEnd(file, n) : m \notin Behind(file, n) \/ file[m].kind = "blank"
         /\ EntryEnd(file, n) \in (n + 1)..Len(file)
<1> DEFINE ends == {e \in (n + 1)..Len(file) : e = Len(file) \/ ~file[e + 1].indent}
           b == BodyEnd(file, n)
           last == EntryEnd(file, n)
<1>1. Len(file) \in Nat /\ ends \subseteq Nat /\ Len(file) \in ends
  BY SMTT(30)
<1>2. b = Min(ends)
  BY DEF BodyEnd
<1>3. b \in ends /\ \A e \in ends : b =< e
  <2> HIDE DEF ends, b
  <2> QED
    BY <1>1, <1>2, LeastIsIn
<1>4. last = IF b < Len(file) /\ file[b + 1].kind = "blank" THEN b + 1 ELSE b
  BY Zenon DEF EntryEnd
<1> HIDE DEF b, last
<1>5. b \in (n + 1)..Len(file) /\ (b = Len(file) \/ ~file[b + 1].indent)
  BY <1>3
<1>6. last \in (n + 1)..Len(file) /\ b =< last /\ (last = b \/ (last = b + 1 /\ file[b + 1].kind = "blank"))
  <2>1. CASE b < Len(file) /\ file[b + 1].kind = "blank"
    <3>1. last = b + 1
      BY Zenon, <1>4, <2>1
    <3> QED
      BY <1>1, <1>5, <2>1, <3>1
  <2>2. CASE ~(b < Len(file) /\ file[b + 1].kind = "blank")
    <3>1. last = b
      BY Zenon, <1>4, <2>2
    <3>2. b =< b
      BY <1>5
    <3> QED
      BY Zenon, <1>5, <3>1, <3>2
  <2> QED
    BY <2>1, <2>2
<1>7. ASSUME NEW i \in (n + 2)..b PROVE file[i].indent
  <2> DEFINE e == i - 1
  <2>1. e \in (n + 1)..Len(file) /\ e + 1 = i /\ e < b /\ e # Len(file)
    BY <1>1, <1>5
  <2>2. e \notin ends
    <3> HIDE DEF ends, e
    <3>1. ~(b =< e)
      BY <1>5, <2>1
    <3> QED
      BY Zenon, <1>3, <3>1
  <2> HIDE DEF e
  <2> QED
    BY <2>1, <2>2
<1> HIDE DEF ends
<1>8. \A m \in (n + 2)..b : m \notin Behind(file, n)
  <2> SUFFICES ASSUME NEW m \in (n + 2)..b, NEW i \in (n + 2)..m, ~file[i].indent PROVE FALSE
    BY DEF Behind
  <2>1. i \in (n + 2)..b
    BY <1>5
  <2> QED
    BY <1>7, <2>1
<1>9. \A m \in (n + 2)..last : m \notin Behind(file, n) \/ file[m].kind = "blank"
  <2> TAKE m \in (n + 2)..last
  <2>1. m \in (n + 2)..b \/ (m = b + 1 /\ file[b + 1].kind = "blank")
    BY <1>5, <1>6
  <2> QED
    BY <1>8, <2>1
<1>10. ASSUME NEW m \in (last + 1)..Len(file) PROVE m \in Behind(file, n)
  <2>1. b + 1 \in (n + 2)..m /\ b # Len(file) /\ m \in (n + 2)..Len(file)
    BY <1>1, <1>5, <1>6
  <2>2. ~file[b + 1].indent
    BY <1>5, <2>1
  <2> QED
    BY <2>1, <2>2 DEF Behind
<1>11. ASSUME NEW m \in Behind(file, n), Keyed(file, m) PROVE m \in (last + 1)..Len(file)
  <2>1. m \in (n + 2)..Len(file)
    BY DEF Behind
  <2>2. file[m].kind # "blank"
    <3>1. \A k : Keyed(file, k) => file[k].kind = "directive"
      BY Zenon DEF Keyed, KeyOf
    <3> QED
      BY <1>11, <3>1
  <2>3. m \notin (n + 2)..last
    BY <1>9, <1>11, <2>2
  <2> QED
    BY <1>1, <1>6, <2>1, <2>3
<1>12. {m \in Behind(file, n) : Keyed(file, m)} = {m \in (last + 1)..Len(file) : Keyed(file, m)}
  BY <1>10, <1>11
<1> QED
  BY <1>6, <1>9, <1>12 DEF last

LEMMA TidyIs ==
  ASSUME NEW file \in Seq(ConfigLines), Tidy(file), NEW n \in DOMAIN file, file[n].kind = "marker",
         n + 1 \in DOMAIN file,
         NEW rest, rest = {m \in (EntryEnd(file, n) + 1)..Len(file) : Keyed(file, m)}
  PROVE  /\ KeyOf(file, n + 1) = "host"
         /\ \A m \in (n + 2)..EntryEnd(file, n) :
              file[m].kind \notin {"marker", "long"} /\ KeyOf(file, m) \notin {"host", "match"}
         /\ rest = {} \/ KeyOf(file, Min(rest)) \in {"host", "match"}
<1> DEFINE r == {m \in Behind(file, n) : Keyed(file, m)}
<1>1. /\ KeyOf(file, n + 1) = "host"
      /\ \A m \in ((n + 2)..Len(file)) \ Behind(file, n) :
           file[m].kind \notin {"marker", "long"} /\ KeyOf(file, m) \notin {"host", "match"}
      /\ r = {} \/ KeyOf(file, Min(r)) \in {"host", "match"}
  BY Zenon DEF Tidy, Behind, Keyed
<1>2. n \in 1..Len(file) /\ n + 1 \in 1..Len(file)
  BY Zenon, PlacesOf
<1>3. /\ r = rest
      /\ \A m \in (n + 2)..EntryEnd(file, n) : m \notin Behind(file, n) \/ file[m].kind = "blank"
      /\ EntryEnd(file, n) \in (n + 1)..Len(file)
  BY <1>2, BehindIs
<1>4. ASSUME NEW m \in (n + 2)..EntryEnd(file, n)
      PROVE  file[m].kind \notin {"marker", "long"} /\ KeyOf(file, m) \notin {"host", "match"}
  <2>1. m \in (n + 2)..Len(file)
    BY <1>2, <1>3
  <2>2. CASE file[m].kind = "blank"
    <3>1. ~Keyed(file, m)
      BY <2>2 DEF Keyed, KeyOf
    <3>2. "host" # "" /\ "match" # ""
      OBVIOUS
    <3>3. KeyOf(file, m) = ""
      BY Zenon, <3>1 DEF Keyed
    <3> QED
      BY <2>2, <3>2, <3>3
  <2>3. CASE file[m].kind # "blank"
    BY <1>1, <1>3, <2>1, <2>3
  <2> QED
    BY <2>2, <2>3
<1> HIDE DEF r
<1> QED
  BY <1>1, <1>3, <1>4

LEMMA TidyApart ==
  ASSUME NEW file \in Seq(ConfigLines), NEW host, Tidy(file)
  PROVE  Apart(file, host)
<1> SUFFICES ASSUME NEW m \in 1..Len(file), NEW n \in 1..Len(file),
                    EntryAt(file, host, m), EntryAt(file, host, n), m < n,
                    ~(EntryEnd(file, m) < n)
             PROVE  FALSE
  BY DEF Apart
<1>1. m + 1 \in 1..Len(file) /\ file[m].kind = "marker" /\ file[m + 1].kind = "directive"
      /\ file[n].kind = "marker"
  BY EntryLines
<1>2. EntryEnd(file, m) \in (m + 1)..Len(file)
  BY EntryEndIs
<1>3. n # m + 1
  BY <1>1
<1>4. n \in (m + 2)..EntryEnd(file, m)
  BY <1>2, <1>3
<1>5. m \in DOMAIN file /\ m + 1 \in DOMAIN file
  BY <1>1
<1> DEFINE rest == {k \in (EntryEnd(file, m) + 1)..Len(file) : Keyed(file, k)}
<1>6. \A k \in (m + 2)..EntryEnd(file, m) : file[k].kind \notin {"marker", "long"}
  <2> HIDE DEF rest
  <2>1. \A r : r = rest => \A k \in (m + 2)..EntryEnd(file, m) : file[k].kind \notin {"marker", "long"}
    BY <1>1, <1>5, TidyIs DEF rest
  <2> QED
    BY <2>1
<1> QED
  BY <1>1, <1>4, <1>6

\* No entry for the host in front of line n reaches it; g holds the lines from n on
\* that are in none, in their order, from the places pos.
Free(file, host, n) ==
  \A m \in 1..Len(file) : EntryAt(file, host, m) /\ m < n => EntryEnd(file, m) < n
Picks(file, host, n, g, pos) ==
  /\ pos \in [1..Len(g) -> n..Len(file)]
  /\ \A i \in 1..Len(g) : g[i] = file[pos[i]] /\ ~InEntry(file, host, pos[i])
  /\ \A i, j \in 1..Len(g) : i < j => pos[i] < pos[j]
  /\ \A m \in n..Len(file) : ~InEntry(file, host, m) => \E i \in 1..Len(g) : pos[i] = m

LEMMA LinePicked ==
  ASSUME NEW file \in Seq(ConfigLines), NEW host, NEW n \in 1..Len(file),
         Free(file, host, n), ~EntryAt(file, host, n),
         NEW g \in Seq(ConfigLines), NEW pos, Picks(file, host, n + 1, g, pos)
  PROVE  \E q : Picks(file, host, n, <<file[n]>> \o g, q)
<1> DEFINE h == <<file[n]>> \o g
           q == [i \in 1..Len(h) |-> IF i = 1 THEN n ELSE pos[i - 1]]
<1>1. file[n] \in ConfigLines /\ Len(g) \in Nat /\ Len(file) \in Nat
  OBVIOUS
<1>2. Len(h) = Len(g) + 1 /\ h[1] = file[n] /\ \A i \in 2..Len(h) : h[i] = g[i - 1]
  BY <1>1
<1> HIDE DEF h
<1>3. q[1] = n /\ \A i \in 2..Len(h) : q[i] = pos[i - 1] /\ i - 1 \in 1..Len(g)
  BY <1>1, <1>2
<1>4. pos \in [1..Len(g) -> (n + 1)..Len(file)]
  BY DEF Picks
<1>5. q \in [1..Len(h) -> n..Len(file)]
  BY <1>1, <1>2, <1>4
<1> HIDE DEF q
<1>6. \A i \in 1..Len(h) : i = 1 \/ i \in 2..Len(h)
  BY <1>1, <1>2
<1>7. ~InEntry(file, host, n)
  <2> SUFFICES ASSUME NEW m \in 1..Len(file), EntryAt(file, host, m), m =< n, n =< EntryEnd(file, m)
               PROVE  FALSE
    BY DEF InEntry
  <2>1. m < n
    OBVIOUS
  <2>2. EntryEnd(file, m) \in (m + 1)..Len(file)
    BY EntryEndIs
  <2> QED
    BY <2>1, <2>2 DEF Free
<1>8. \A i \in 1..Len(h) : h[i] = file[q[i]] /\ ~InEntry(file, host, q[i])
  <2> TAKE i \in 1..Len(h)
  <2>1. CASE i = 1
    BY <1>2, <1>3, <1>7, <2>1
  <2>2. CASE i \in 2..Len(h)
    <3>1. i - 1 \in 1..Len(g) /\ h[i] = g[i - 1] /\ q[i] = pos[i - 1]
      BY <1>2, <1>3, <2>2
    <3> QED
      BY <3>1 DEF Picks
  <2> QED
    BY <1>6, <2>1, <2>2
<1>9. \A i, j \in 1..Len(h) : i < j => q[i] < q[j]
  <2> TAKE i, j \in 1..Len(h)
  <2> HAVE i < j
  <2>1. j \in 2..Len(h) /\ q[j] = pos[j - 1] /\ j - 1 \in 1..Len(g)
    BY <1>3, SMTT(30)
  <2>2. CASE i = 1
    BY <1>3, <1>4, <2>1, <2>2, SMTT(30)
  <2>3. CASE i \in 2..Len(h)
    <3>1. q[i] = pos[i - 1] /\ i - 1 \in 1..Len(g) /\ i - 1 < j - 1
      BY <1>3, <2>3
    <3> QED
      BY <2>1, <3>1 DEF Picks
  <2> QED
    BY <1>6, <2>2, <2>3
<1>10. \A m \in n..Len(file) : ~InEntry(file, host, m) => \E i \in 1..Len(h) : q[i] = m
  <2> TAKE m \in n..Len(file)
  <2> HAVE ~InEntry(file, host, m)
  <2>1. CASE m = n
    <3>1. 1 \in 1..Len(h)
      BY <1>1, <1>2
    <3> QED
      BY <1>3, <2>1, <3>1
  <2>2. CASE m \in (n + 1)..Len(file)
    <3>1. PICK i \in 1..Len(g) : pos[i] = m
      BY <2>2 DEF Picks
    <3>2. i + 1 \in 2..Len(h) /\ i + 1 - 1 = i
      BY <1>1, <1>2
    <3>3. q[i + 1] = m
      BY <1>3, <3>1, <3>2
    <3> QED
      BY <3>2, <3>3
  <2> QED
    BY <2>1, <2>2
<1> QED
  BY ZenonT(60), <1>5, <1>8, <1>9, <1>10 DEF Picks, h

LEMMA EntrySkipped ==
  ASSUME NEW file \in Seq(ConfigLines), NEW host, NEW n \in 1..Len(file),
         EntryAt(file, host, n), NEW g \in Seq(ConfigLines), NEW pos,
         Picks(file, host, EntryEnd(file, n) + 1, g, pos)
  PROVE  Picks(file, host, n, g, pos)
<1> DEFINE e == EntryEnd(file, n)
<1>1. e \in (n + 1)..Len(file) /\ Len(file) \in Nat
  BY EntryEndIs
<1> HIDE DEF e
<1>2. Picks(file, host, e + 1, g, pos)
  BY DEF e
<1>3. pos \in [1..Len(g) -> n..Len(file)]
  <2>1. pos \in [1..Len(g) -> (e + 1)..Len(file)] /\ (e + 1)..Len(file) \subseteq n..Len(file)
    BY <1>1, <1>2 DEF Picks
  <2> QED
    BY <2>1
<1>4. \A m \in n..Len(file) : ~InEntry(file, host, m) => m \in (e + 1)..Len(file)
  BY <1>1 DEF InEntry, e
<1> QED
  BY <1>2, <1>3, <1>4 DEF Picks

LEMMA KeptPicks ==
  ASSUME NEW file \in Seq(ConfigLines), NEW host, Apart(file, host)
  PROVE  \E pos : Picks(file, host, 1, Kept(file, host), pos)
<1> DEFINE N == Len(file)
           kept == KeptFrom(file, host)
           Good(r) == /\ kept[r] \in Seq(ConfigLines)
                      /\ Free(file, host, N + 1 - r) =>
                           \E pos : Picks(file, host, N + 1 - r, kept[r], pos)
           S == {m \in 0..N : \A r \in 0..m : Good(r)}
<1>0. N \in Nat
  OBVIOUS
<1>1. 0 \in S
  <2>1. kept[0] = <<>>
    <3>1. 0 \in 0..Len(file)
      BY <1>0
    <3> QED
      BY <3>1, KeptFromIs
  <2>2. <<>> \in Seq(ConfigLines) /\ Len(<<>>) = 0
    OBVIOUS
  <2> DEFINE pos == [i \in 1..0 |-> 0]
  <2>3. Picks(file, host, N + 1, <<>>, pos)
    <3>1. (N + 1)..N = {} /\ 1..0 = {}
      BY <1>0
    <3>2. pos \in [1..0 -> (N + 1)..N]
      BY <3>1
    <3> HIDE DEF pos
    <3> QED
      BY <2>2, <3>1, <3>2 DEF Picks
  <2>4. Good(0)
    <3> HIDE DEF kept, pos
    <3>1. N + 1 - 0 = N + 1
      BY <1>0
    <3> QED
      BY <2>1, <2>2, <2>3, <3>1
  <2>5. \A r \in 0..0 : r = 0
    OBVIOUS
  <2> HIDE DEF Good
  <2> QED
    BY <1>0, <2>4, <2>5
<1>2. ASSUME NEW m \in 0..(N - 1), m \in S PROVE m + 1 \in S
  <2> DEFINE n == N - m
  <2>1. n \in 1..N /\ m + 1 \in 0..N /\ N + 1 - (m + 1) = n /\ N + 1 - m = n + 1
        /\ \A r \in 0..(m + 1) : r = m + 1 \/ r \in 0..m
    OBVIOUS
  <2>2. kept[m + 1] = IF EntryAt(file, host, n) THEN kept[N - EntryEnd(file, n)]
                      ELSE <<file[n]>> \o kept[m]
    <3> DEFINE r == m + 1
    <3>1. r \in 0..N /\ r # 0 /\ N + 1 - r = n /\ r - 1 = m
      BY <2>1
    <3> HIDE DEF r, n
    <3>2. kept[r] = IF EntryAt(file, host, n) THEN kept[N - EntryEnd(file, n)]
                    ELSE <<file[n]>> \o kept[m]
      BY <3>1, KeptFromIs
    <3> QED
      BY <3>2 DEF r
  <2>3. \A r \in 0..m : Good(r)
    BY <1>2
  <2>4. n \in 1..Len(file) /\ file[n] \in ConfigLines
    BY <2>1
  <2> HIDE DEF kept, n
  <2>5. CASE EntryAt(file, host, n)
    <3> DEFINE e == EntryEnd(file, n)
    <3>1. e \in (n + 1)..N
      BY <2>4, <2>5, EntryEndIs
    <3> HIDE DEF e
    <3>2. N - e \in 0..m /\ N + 1 - (N - e) = e + 1
      BY <2>1, <3>1 DEF n
    <3>3. kept[m + 1] = kept[N - e]
      BY <2>2, <2>5 DEF e
    <3>4. kept[N - e] \in Seq(ConfigLines)
          /\ (Free(file, host, e + 1) => \E pos : Picks(file, host, e + 1, kept[N - e], pos))
      BY <2>3, <3>2
    <3>5. ASSUME Free(file, host, n) PROVE Free(file, host, e + 1)
      <4> SUFFICES ASSUME NEW k \in 1..Len(file), EntryAt(file, host, k), k < e + 1
                   PROVE  EntryEnd(file, k) < e + 1
        BY DEF Free
      <4>1. EntryEnd(file, k) \in Int
        BY EntryEndIs
      <4>2. CASE k < n
        BY <2>4, <3>1, <3>5, <4>1, <4>2 DEF Free
      <4>3. CASE k = n
        BY <3>1, <4>3 DEF e
      <4>4. CASE n < k
        <5>1. e < k
          BY <2>4, <2>5, <4>4 DEF Apart, e
        <5> QED
          BY <3>1, <5>1
      <4> QED
        BY <2>4, <4>2, <4>3, <4>4
    <3>6. ASSUME Free(file, host, n) PROVE \E pos : Picks(file, host, n, kept[m + 1], pos)
      <4>1. PICK pos : Picks(file, host, e + 1, kept[N - e], pos)
        BY <3>4, <3>5, <3>6
      <4>2. Picks(file, host, n, kept[N - e], pos)
        BY <2>4, <2>5, <3>4, <4>1, EntrySkipped DEF e
      <4> QED
        BY <3>3, <4>2
    <3>7. Good(m + 1)
      BY <2>1, <3>3, <3>4, <3>6
    <3> HIDE DEF Good
    <3> QED
      BY <2>1, <2>3, <3>7
  <2>6. CASE ~EntryAt(file, host, n)
    <3>1. kept[m + 1] = <<file[n]>> \o kept[m]
      BY <2>2, <2>6
    <3>2. kept[m] \in Seq(ConfigLines)
          /\ (Free(file, host, n + 1) => \E pos : Picks(file, host, n + 1, kept[m], pos))
      <4>1. m \in 0..m
        BY <2>1
      <4> QED
        BY <2>1, <2>3, <4>1
    <3>3. kept[m + 1] \in Seq(ConfigLines)
      BY <2>4, <3>1, <3>2
    <3>4. ASSUME Free(file, host, n) PROVE Free(file, host, n + 1)
      <4> SUFFICES ASSUME NEW k \in 1..Len(file), EntryAt(file, host, k), k < n + 1
                   PROVE  EntryEnd(file, k) < n + 1
        BY DEF Free
      <4>1. k < n /\ EntryEnd(file, k) \in Int
        BY <2>4, <2>6, EntryEndIs
      <4> QED
        BY <2>4, <3>4, <4>1 DEF Free
    <3>5. ASSUME Free(file, host, n) PROVE \E pos : Picks(file, host, n, kept[m + 1], pos)
      <4>1. PICK pos : Picks(file, host, n + 1, kept[m], pos)
        BY <3>2, <3>4, <3>5
      <4> QED
        BY <2>4, <2>6, <3>1, <3>2, <3>5, <4>1, LinePicked
    <3>6. Good(m + 1)
      BY <2>1, <3>3, <3>5
    <3> HIDE DEF Good
    <3> QED
      BY <2>1, <2>3, <3>6
  <2> QED
    BY <2>5, <2>6
<1> HIDE DEF S
<1>3. 0..N \subseteq S
  BY <1>0, <1>1, <1>2, UpTo
<1>4. Good(N)
  BY <1>0, <1>3 DEF S
<1>5. Free(file, host, 1)
  BY DEF Free
<1>6. N + 1 - N = 1
  BY <1>0
<1> QED
  BY <1>4, <1>5, <1>6 DEF Kept

LEMMA FirstOnes ==
  ASSUME NEW m \in Nat, NEW n \in Nat, m =< n
  PROVE  1..m \subseteq 1..n
  OBVIOUS

LEMMA JoinIs ==
  ASSUME NEW T, NEW s \in Seq(T), NEW t \in Seq(T)
  PROVE  /\ s \o t \in Seq(T) /\ Len(s \o t) = Len(s) + Len(t)
         /\ \A i \in 1..Len(s) : (s \o t)[i] = s[i]
         /\ \A i \in 1..Len(t) : (s \o t)[Len(s) + i] = t[i]
<1>1. Len(s) \in Nat /\ Len(t) \in Nat
  OBVIOUS
<1>2. s \o t \in Seq(T) /\ Len(s \o t) = Len(s) + Len(t)
  OBVIOUS
<1>3. \A i \in 1..Len(s) : (s \o t)[i] = s[i]
  BY <1>1
<1>4. ASSUME NEW i \in 1..Len(t) PROVE (s \o t)[Len(s) + i] = t[i]
  <2>1. Len(s) + i \in 1..(Len(s) + Len(t)) /\ ~(Len(s) + i =< Len(s)) /\ Len(s) + i - Len(s) = i
    BY <1>1
  <2> QED
    BY <1>1, <2>1
<1> QED
  BY <1>2, <1>3, <1>4

LEMMA TrimmedIs ==
  ASSUME NEW file \in Seq(ConfigLines), NEW t, t = TrimBlanks(file)
  PROVE  /\ t \in Seq(ConfigLines) /\ Len(t) \in 0..Len(file)
         /\ \A i \in 1..Len(t) : t[i] = file[i]
         /\ \A i \in (Len(t) + 1)..Len(file) : file[i].kind = "blank"
         /\ Len(t) # 0 => t[Len(t)].kind # "blank"
<1> DEFINE full == {n \in DOMAIN file : file[n].kind # "blank"}
<1>1. Len(file) \in Nat /\ full \subseteq 0..Len(file) /\ full \subseteq 1..Len(file)
      /\ \A i \in 1..Len(file) : i \notin full => file[i].kind = "blank"
  OBVIOUS
<1>2. t = IF full = {} THEN <<>> ELSE SubSeq(file, 1, Max(full))
  BY DEF TrimBlanks
<1>3. \A i \in full : file[i].kind # "blank"
  OBVIOUS
<1> HIDE DEF full
<1>4. CASE full = {}
  <2>1. Len(t) = 0 /\ t \in Seq(ConfigLines)
    BY <1>2, <1>4
  <2> QED
    BY <1>1, <1>4, <2>1
<1>5. CASE full # {}
  <2> DEFINE m == Max(full)
  <2>1. m \in full /\ \A i \in full : i =< m
    BY <1>1, <1>5, GreatestIsIn
  <2>2. t = SubSeq(file, 1, m)
    BY <1>2, <1>5
  <2> HIDE DEF m
  <2>3. m \in 1..Len(file)
    BY <1>1, <2>1
  <2>4. t \in Seq(ConfigLines) /\ Len(t) = m /\ \A i \in 1..m : t[i] = file[i]
    BY <2>2, <2>3
  <2>5. \A i \in (m + 1)..Len(file) : i \notin full
    BY <1>1, <2>1, <2>3
  <2> QED
    BY <1>1, <1>3, <2>1, <2>3, <2>4, <2>5
<1> QED
  BY <1>4, <1>5

\* Where the entry stands behind what is left of the file.
Left(file, host) == TrimBlanks(Kept(file, host))
EntryPlace(file, host) == IF Len(Left(file, host)) = 0 THEN 1 ELSE Len(Left(file, host)) + 2

LEMMA EntryIs ==
  ASSUME NEW host \in Seq(STRING), NEW user \in STRING
  PROVE  /\ Entry(host, user) \in Seq(ConfigLines) /\ Len(Entry(host, user)) = 4
         /\ Entry(host, user)[1] = Marker
         /\ Entry(host, user)[2] = HostLine("space", <<Exactly(host)>>)
         /\ Entry(host, user)[3] = Line("directive", "user", "space", <<user>>, TRUE)
         /\ Entry(host, user)[4] = Line("directive", "proxycommand", "space", <<"ssm">>, TRUE)
<1> DEFINE one == Marker
           two == HostLine("space", <<Exactly(host)>>)
           three == Line("directive", "user", "space", <<user>>, TRUE)
           four == Line("directive", "proxycommand", "space", <<"ssm">>, TRUE)
<1>1. Entry(host, user) = <<one, two, three, four>>
  BY DEF Entry
<1>2. Entry(host, user) \in Seq(ConfigLines)
  BY EntryIsFile
<1> HIDE DEF one, two, three, four
<1>3. Len(Entry(host, user)) = 4 /\ Entry(host, user)[1] = one /\ Entry(host, user)[2] = two
      /\ Entry(host, user)[3] = three /\ Entry(host, user)[4] = four
  BY <1>1
<1> QED
  BY <1>2, <1>3 DEF one, two, three, four

\* g is t and, behind a blank line if t has any, the entry, at p.
Extended(g, t, p, host, user) ==
  /\ g \in Seq(ConfigLines) /\ t \in Seq(ConfigLines) /\ Len(t) \in Nat
  /\ p \in Nat /\ p >= 1 /\ p = (IF Len(t) = 0 THEN 1 ELSE Len(t) + 2)
  /\ Len(g) = p + 3
  /\ \A i \in 1..Len(t) : g[i] = t[i]
  /\ Len(t) # 0 => g[Len(t) + 1] = Blank
  /\ g[p] = Marker /\ g[p + 1] = HostLine("space", <<Exactly(host)>>)
  /\ g[p + 2] = Line("directive", "user", "space", <<user>>, TRUE)
  /\ g[p + 3] = Line("directive", "proxycommand", "space", <<"ssm">>, TRUE)

LEMMA UpdatedIs ==
  ASSUME NEW file \in Seq(ConfigLines), NEW host \in Seq(STRING), NEW user \in STRING,
         NEW g, g = ReplaceOrAppendHostBlock(file, host, user),
         NEW t, t = Left(file, host), NEW p, p = EntryPlace(file, host)
  PROVE  Extended(g, t, p, host, user)
<1> DEFINE entry == Entry(host, user)
           front == IF t = <<>> THEN <<>> ELSE Append(t, Blank)
<1>1. t \in Seq(ConfigLines) /\ Blank \in ConfigLines /\ entry \in Seq(ConfigLines)
      /\ Len(entry) = 4
  BY KeptIsFile, TrimmedIsFile, EntryIsFile, EntryIs DEF Left
<1>2. g = front \o entry
  BY DEF ReplaceOrAppendHostBlock, Left
<1>3. g \in Seq(ConfigLines)
  BY UpsertIsFile
<1>4. Len(t) \in Nat /\ p = (IF Len(t) = 0 THEN 1 ELSE Len(t) + 2) /\ (t = <<>> <=> Len(t) = 0)
  BY <1>1 DEF EntryPlace
<1> HIDE DEF entry
<1>5. /\ front \in Seq(ConfigLines) /\ Len(front) = p - 1
      /\ \A i \in 1..Len(t) : front[i] = t[i]
      /\ Len(t) # 0 => front[Len(t) + 1] = Blank
  <2>1. CASE t = <<>>
    BY <1>1, <1>4, <2>1
  <2>2. CASE t # <<>>
    <3>1. front = Append(t, Blank)
      BY <2>2
    <3> HIDE DEF front
    <3> QED
      BY <1>1, <1>4, <2>2, <3>1
  <2> QED
    BY <2>1, <2>2
<1> HIDE DEF front
<1>6. p \in Nat /\ p >= 1 /\ 1..Len(t) \subseteq 1..(p - 1) /\ (Len(t) # 0 => Len(t) + 1 \in 1..(p - 1))
  BY <1>4
<1>7. /\ Len(g) = p + 3 /\ \A i \in 1..(p - 1) : g[i] = front[i]
      /\ g[p] = entry[1] /\ g[p + 1] = entry[2] /\ g[p + 2] = entry[3] /\ g[p + 3] = entry[4]
  <2>1. /\ Len(front \o entry) = Len(front) + Len(entry)
        /\ \A i \in 1..Len(front) : (front \o entry)[i] = front[i]
        /\ \A i \in 1..Len(entry) : (front \o entry)[Len(front) + i] = entry[i]
    <3>1. front \in Seq(ConfigLines) /\ entry \in Seq(ConfigLines)
      BY <1>1, <1>5
    <3> QED
      BY <3>1, JoinIs
  <2>2. Len(front) = p - 1 /\ Len(entry) = 4
    BY <1>1, <1>5
  <2>3. \A i \in 1..4 : \A n : n = p - 1 + i => g[n] = entry[i]
    BY <1>2, <2>1, <2>2
  <2>4. p = p - 1 + 1 /\ p + 1 = p - 1 + 2 /\ p + 2 = p - 1 + 3 /\ p + 3 = p - 1 + 4
    BY <1>6
  <2>5. g[p] = entry[1] /\ g[p + 1] = entry[2] /\ g[p + 2] = entry[3] /\ g[p + 3] = entry[4]
    <3>1. 1 \in 1..4 /\ 2 \in 1..4 /\ 3 \in 1..4 /\ 4 \in 1..4
      OBVIOUS
    <3> QED
      BY <2>3, <2>4, <3>1
  <2> QED
    BY <1>2, <1>6, <2>1, <2>2, <2>5
<1> QED
  BY <1>1, <1>3, <1>4, <1>5, <1>6, <1>7, EntryIs DEF entry, Extended

\* The lines in front of the entry are those of the file, blank ones at its end
\* left out, that no entry for the host goes over.
Stay(file, host, g, L, pos) ==
  /\ pos \in [1..L -> 1..Len(file)]
  /\ \A i \in 1..L : g[i] = file[pos[i]] /\ ~InEntry(file, host, pos[i])
  /\ \A i, j \in 1..L : i < j => pos[i] < pos[j]
  /\ \A m \in 1..Len(file) : ~InEntry(file, host, m) /\ file[m].kind # "blank" =>
                               \E i \in 1..L : pos[i] = m

LEMMA LeftStays ==
  ASSUME NEW file \in Seq(ConfigLines), NEW host, Apart(file, host)
  PROVE  \E pos : Stay(file, host, Left(file, host), Len(Left(file, host)), pos)
<1> DEFINE g == Kept(file, host)
           t == Left(file, host)
<1>1. PICK all : Picks(file, host, 1, g, all)
  BY KeptPicks
<1>2. g \in Seq(ConfigLines)
  BY KeptIsFile
<1>3. t = TrimBlanks(g)
  BY DEF Left
<1> HIDE DEF g, t
<1>4. /\ Len(t) \in 0..Len(g) /\ Len(g) \in Nat
      /\ \A i \in 1..Len(t) : t[i] = g[i]
      /\ \A i \in (Len(t) + 1)..Len(g) : g[i].kind = "blank"
  BY <1>2, <1>3, TrimmedIs
<1> DEFINE pos == [i \in 1..Len(t) |-> all[i]]
<1>5. 1..Len(t) \subseteq 1..Len(g) /\ all \in [1..Len(g) -> 1..Len(file)]
  BY <1>1, <1>4 DEF Picks
<1>6. pos \in [1..Len(t) -> 1..Len(file)] /\ \A i \in 1..Len(t) : pos[i] = all[i]
  BY <1>5
<1> HIDE DEF pos
<1>7. \A i \in 1..Len(t) : t[i] = file[pos[i]] /\ ~InEntry(file, host, pos[i])
  BY <1>1, <1>4, <1>5, <1>6 DEF Picks
<1>8. \A i, j \in 1..Len(t) : i < j => pos[i] < pos[j]
  BY <1>1, <1>5, <1>6 DEF Picks
<1>9. ASSUME NEW m \in 1..Len(file), ~InEntry(file, host, m), file[m].kind # "blank"
      PROVE  \E i \in 1..Len(t) : pos[i] = m
  <2>1. PICK i \in 1..Len(g) : all[i] = m
    BY <1>1, <1>9 DEF Picks
  <2>2. g[i] = file[m]
    BY <1>1, <2>1 DEF Picks
  <2>3. i \notin (Len(t) + 1)..Len(g)
    BY <1>4, <1>9, <2>2
  <2>4. i \in 1..Len(t)
    BY <1>4, <2>3
  <2> QED
    BY <1>6, <2>1, <2>4
<1> QED
  BY <1>6, <1>7, <1>8, <1>9 DEF Stay, t

\* What the lines behind the L first say.
AddedSay(g, L, p, host) ==
  /\ L # 0 => g[L + 1].kind = "blank" /\ ~Keyed(g, L + 1)
  /\ g[p].kind = "marker" /\ ~Keyed(g, p)
  /\ g[p + 1].kind = "directive" /\ KeyOf(g, p + 1) = "host"
  /\ g[p + 1].patterns = <<Exactly(host)>>
  /\ g[p + 2].kind = "directive" /\ KeyOf(g, p + 2) \in {"user", "?"} /\ g[p + 2].indent
  /\ g[p + 3].kind = "directive" /\ KeyOf(g, p + 3) \in {"proxycommand", "?"} /\ g[p + 3].indent
  /\ EntryAt(g, host, p)

LEMMA LinesAdded ==
  ASSUME NEW g, NEW t, NEW p, NEW host \in Seq(STRING), NEW user \in STRING,
         Extended(g, t, p, host, user)
  PROVE  AddedSay(g, Len(t), p, host)
<1>0. /\ Len(t) # 0 => g[Len(t) + 1] = Blank
      /\ g[p] = Marker /\ g[p + 1] = HostLine("space", <<Exactly(host)>>)
      /\ g[p + 2] = Line("directive", "user", "space", <<user>>, TRUE)
      /\ g[p + 3] = Line("directive", "proxycommand", "space", <<"ssm">>, TRUE)
      /\ p \in Nat /\ p >= 1 /\ Len(g) = p + 3 /\ g \in Seq(ConfigLines)
  BY DEF Extended
<1> DEFINE two == HostLine("space", <<Exactly(host)>>)
           three == Line("directive", "user", "space", <<user>>, TRUE)
           four == Line("directive", "proxycommand", "space", <<"ssm">>, TRUE)
<1>1. /\ Len(t) # 0 => g[Len(t) + 1] = Blank
      /\ g[p] = Marker /\ g[p + 1] = two /\ g[p + 2] = three /\ g[p + 3] = four
      /\ p \in Nat /\ p >= 1 /\ Len(g) = p + 3 /\ g \in Seq(ConfigLines)
  BY <1>0
<1>2. Blank.kind = "blank" /\ Marker.kind = "marker"
  BY DEF Blank, Marker, Line
<1>3. /\ two.kind = "directive" /\ two.key = "host" /\ two.sep = "space" /\ two.args = <<>>
      /\ two.patterns = <<Exactly(host)>>
  BY DEF HostLine, Line
<1>9. two.indent = FALSE /\ [two EXCEPT !.indent = FALSE] = two
  <2>1. two.indent = FALSE
    BY DEF HostLine, Line
  <2>2. two \in ConfigLines
    <3>1. p + 1 \in 1..Len(g)
      BY <1>1
    <3> HIDE DEF two
    <3> QED
      BY <1>1, <3>1
  <2>3. \A x \in ConfigLines : x.indent = FALSE => [x EXCEPT !.indent = FALSE] = x
    BY DEF ConfigLines
  <2> QED
    BY <2>1, <2>2, <2>3
<1>4. /\ three.kind = "directive" /\ three.key = "user" /\ three.indent
      /\ four.kind = "directive" /\ four.key = "proxycommand" /\ four.indent
  BY DEF Line
<1> HIDE DEF two, three, four
<1>5. \A l : SplitConfigLine(l).key \in {l.key, "?"}
  BY DEF SplitConfigLine
<1>6. SplitConfigLine(two).key = "host"
  <2>1. DOMAIN two.args = {}
    BY <1>3
  <2> QED
    BY <1>3, <2>1 DEF SplitConfigLine
<1>7. /\ KeyOf(g, p + 1) = "host"
      /\ KeyOf(g, p + 2) \in {"user", "?"} /\ KeyOf(g, p + 3) \in {"proxycommand", "?"}
  <2>1. \A n : g[n].kind = "directive" => KeyOf(g, n) = SplitConfigLine(g[n]).key
    BY Zenon DEF KeyOf
  <2>2. KeyOf(g, p + 1) = SplitConfigLine(two).key /\ KeyOf(g, p + 2) = SplitConfigLine(three).key
        /\ KeyOf(g, p + 3) = SplitConfigLine(four).key
    BY Zenon, <1>1, <1>3, <1>4, <2>1
  <2>3. SplitConfigLine(three).key \in {"user", "?"} /\ SplitConfigLine(four).key \in {"proxycommand", "?"}
    BY Zenon, <1>4, <1>5
  <2> QED
    BY <1>6, <2>2, <2>3
<1>11. ~Keyed(g, p) /\ (Len(t) # 0 => ~Keyed(g, Len(t) + 1))
  <2>1. \A n : g[n].kind # "directive" => ~Keyed(g, n)
    BY Zenon DEF Keyed, KeyOf
  <2> QED
    BY <1>1, <1>2, <2>1
<1>8. EntryAt(g, host, p)
  <2>1. p + 1 \in DOMAIN g
    BY <1>1
  <2> QED
    BY <1>1, <1>2, <1>9, <2>1 DEF EntryAt, two
<1> QED
  BY <1>1, <1>2, <1>3, <1>4, <1>7, <1>8, <1>11 DEF AddedSay

\* Between an entry and a line with a keyword behind it a section begins.
LEMMA SectionBehind ==
  ASSUME NEW file \in Seq(ConfigLines), NEW host, Tidy(file), NEW m \in 1..Len(file),
         EntryAt(file, host, m), NEW n \in (EntryEnd(file, m) + 1)..Len(file), Keyed(file, n)
  PROVE  \E i \in (EntryEnd(file, m) + 1)..n : KeyOf(file, i) \in {"host", "match"}
<1> DEFINE last == EntryEnd(file, m)
           rest == {i \in (last + 1)..Len(file) : Keyed(file, i)}
<1>1. m + 1 \in 1..Len(file) /\ file[m].kind = "marker"
  BY EntryLines
<1>2. last \in (m + 1)..Len(file)
  BY EntryEndIs
<1>3. rest = {} \/ KeyOf(file, Min(rest)) \in {"host", "match"}
  <2>1. m \in DOMAIN file /\ m + 1 \in DOMAIN file
    BY <1>1
  <2> QED
    BY <1>1, <2>1, TidyIs
<1>4. rest \subseteq Nat /\ rest # {} /\ n \in rest /\ rest \subseteq (last + 1)..Len(file)
  BY <1>2
<1> HIDE DEF rest, last
<1>5. Min(rest) \in rest /\ Min(rest) =< n
  <2>1. Min(rest) \in rest /\ \A i \in rest : Min(rest) =< i
    BY Zenon, <1>4, LeastIsIn
  <2> QED
    BY <1>4, <2>1
<1>6. Min(rest) \in (last + 1)..n
  <2> DEFINE i == Min(rest)
  <2>1. i \in (last + 1)..Len(file) /\ i =< n
    BY Zenon, <1>4, <1>5
  <2> HIDE DEF i
  <2>2. i \in (last + 1)..n
    BY <1>2, <2>1
  <2> QED
    BY <2>2 DEF i
<1> QED
  BY <1>3, <1>4, <1>6 DEF last

\* In a tidy file the section of a line that stays stays with it.
LEMMA SectionStays ==
  ASSUME NEW file \in Seq(ConfigLines), NEW host, Tidy(file),
         NEW n \in 1..Len(file), ~InEntry(file, host, n), Keyed(file, n),
         NEW h \in 1..n, \A i \in (h + 1)..n : KeyOf(file, i) \notin {"host", "match"},
         NEW e \in h..n
  PROVE  ~InEntry(file, host, e)
<1> SUFFICES ASSUME NEW m \in 1..Len(file), EntryAt(file, host, m), m =< e, e =< EntryEnd(file, m)
             PROVE  FALSE
  BY DEF InEntry
<1> DEFINE last == EntryEnd(file, m)
<1>1. last \in (m + 1)..Len(file)
  BY EntryEndIs
<1>2. last < n
  <2>1. ~(n =< last)
    BY DEF InEntry
  <2> QED
    BY <1>1, <2>1
<1>3. n \in (last + 1)..Len(file)
  BY <1>1, <1>2
<1>4. PICK i \in (last + 1)..n : KeyOf(file, i) \in {"host", "match"}
  BY <1>3, SectionBehind
<1>5. i \in (h + 1)..n
  BY <1>1, <1>4
<1> QED
  BY <1>4, <1>5

\* The head of the section line n stands in, and whether that section takes a host.
HeadOf(file, n, h) ==
  /\ h \in 1..n /\ KeyOf(file, h) \in {"host", "match"}
  /\ \A i \in (h + 1)..n : KeyOf(file, i) \notin {"host", "match"}
TakenBy(file, host, h) ==
  /\ KeyOf(file, h) = "host"
  /\ \E j \in DOMAIN file[h].patterns :
       /\ ~file[h].patterns[j].neg /\ Denotes(file[h].patterns[j].glob, host)
       /\ \A i \in 1..(j - 1) :
            Denotes(file[h].patterns[i].glob, host) => ~file[h].patterns[i].neg
Counts(file, host, k, n) ==
  /\ KeyOf(file, n) = k
  /\ SectionTakes(file, host, n)
  /\ FirstInSection(file, k, n)
  /\ file[n].args # Unset

LEMMA KeywordIs ==
  ASSUME NEW k \in Keywords, NEW file, NEW n, KeyOf(file, n) = k
  PROVE  Keyed(file, n) /\ KeyOf(file, n) \notin {"host", "match"}
<1>1. Keywords \intersect {"", "?", "host", "match"} = {}
  BY Zenon, ConfigAssumption DEF ConfigAssumption
<1>2. k # "" /\ k # "host" /\ k # "match"
  BY Zenon, <1>1
<1> QED
  BY Zenon, <1>2 DEF Keyed

LEMMA KeyedIsFull ==
  ASSUME NEW file, NEW n, Keyed(file, n) \/ KeyOf(file, n) \in {"host", "match"}
  PROVE  file[n].kind = "directive" /\ Keyed(file, n)
<1>1. "host" # "" /\ "match" # ""
  OBVIOUS
<1> QED
  BY Zenon, <1>1 DEF Keyed, KeyOf

LEMMA HeadIsMax ==
  ASSUME NEW file, NEW n \in Nat, NEW h, HeadOf(file, n, h)
  PROVE  Heads(file, n) # {} /\ Max(Heads(file, n)) = h
<1> DEFINE heads == Heads(file, n)
<1>1. heads \subseteq Int /\ h \in heads
  BY DEF HeadOf, Heads
<1>2. \A i \in heads : h >= i
  BY DEF HeadOf, Heads
<1> HIDE DEF heads
<1>3. Max(heads) = h
  BY <1>1, <1>2, MaxIs
<1> QED
  BY <1>1, <1>3 DEF heads

LEMMA HasHead ==
  ASSUME NEW file, NEW n \in Nat, Heads(file, n) # {}
  PROVE  HeadOf(file, n, Max(Heads(file, n)))
<1> DEFINE heads == Heads(file, n)
           h == Max(heads)
<1>1. heads \subseteq 0..n /\ heads # {} /\ heads \subseteq 1..n
      /\ \A i \in 1..n : i \in heads <=> KeyOf(file, i) \in {"host", "match"}
  BY DEF Heads
<1> HIDE DEF heads
<1>2. h \in heads /\ \A i \in heads : i =< h
  BY <1>1, GreatestIsIn
<1> HIDE DEF h
<1>3. HeadOf(file, n, h)
  <2>1. h \in 1..n
    BY <1>1, <1>2
  <2>2. \A i \in (h + 1)..n : i \in 1..n /\ i \notin heads
    BY <1>2, <2>1
  <2> QED
    BY <1>1, <1>2, <2>1, <2>2 DEF HeadOf
<1> QED
  BY <1>3 DEF h, heads

LEMMA OneHead ==
  ASSUME NEW file, NEW n \in Nat, NEW h, HeadOf(file, n, h), NEW j, HeadOf(file, n, j)
  PROVE  h = j
<1>1. Max(Heads(file, n)) = h
  BY Zenon, HeadIsMax
<1>2. Max(Heads(file, n)) = j
  BY Zenon, HeadIsMax
<1> QED
  BY <1>1, <1>2

LEMMA CountsIs ==
  ASSUME NEW file, NEW n \in Nat, NEW host, NEW k
  PROVE  Counts(file, host, k, n) <=>
           /\ KeyOf(file, n) = k /\ file[n].args # Unset
           /\ \E h : /\ HeadOf(file, n, h) /\ TakenBy(file, host, h)
                     /\ \A e \in h..(n - 1) : KeyOf(file, e) # k
<1> DEFINE m == Max(Heads(file, n))
<1>1. SectionTakes(file, host, n) <=> Heads(file, n) # {} /\ TakenBy(file, host, m)
  BY Zenon DEF SectionTakes, TakenBy
<1>2. FirstInSection(file, k, n) <=> \A e \in m..(n - 1) : KeyOf(file, e) # k
  BY DEF FirstInSection
<1>3. Heads(file, n) # {} => HeadOf(file, n, m)
  BY HasHead
<1>4. \A h : HeadOf(file, n, h) => Heads(file, n) # {} /\ m = h
  BY HeadIsMax
<1> HIDE DEF m
<1> QED
  BY <1>1, <1>2, <1>3, <1>4 DEF Counts

LEMMA FirstValueIs ==
  ASSUME NEW file, NEW host, NEW k, NEW lines, lines = {n \in DOMAIN file : Counts(file, host, k, n)}
  PROVE  FirstValue(file, host, k) =
           IF lines = {} \/ \E n \in DOMAIN file : file[n].kind = "long" THEN Unset
           ELSE file[Min(lines)].args
  BY DEF FirstValue, Counts

\* A line that stays counts for a host exactly if it did.
HeadStays(g, pos, i, h) == \E j \in 1..i : pos[j] = h /\ HeadOf(g, i, j)
LEMMA StayingHead ==
  ASSUME NEW file \in Seq(ConfigLines), NEW host, Tidy(file),
         NEW g, NEW L \in Nat, NEW pos, Stay(file, host, g, L, pos),
         NEW i \in 1..L, Keyed(file, pos[i]), NEW h, HeadOf(file, pos[i], h)
  PROVE  HeadStays(g, pos, i, h)
<1> DEFINE n == pos[i]
<1>1. pos \in [1..L -> 1..Len(file)] /\ n \in 1..Len(file) /\ ~InEntry(file, host, n)
  BY DEF Stay
<1>2. \A q \in 1..L : KeyOf(g, q) = KeyOf(file, pos[q])
  <2>1. \A q \in 1..L : g[q] = file[pos[q]]
    BY DEF Stay
  <2> QED
    BY Zenon, <2>1 DEF KeyOf
<1>3. h \in 1..n /\ KeyOf(file, h) \in {"host", "match"}
      /\ \A e \in (h + 1)..n : KeyOf(file, e) \notin {"host", "match"}
  BY DEF HeadOf
<1>4. Keyed(file, n) /\ HeadOf(file, n, h)
  OBVIOUS
<1> HIDE DEF n
<1>5. ~InEntry(file, host, h) /\ h \in 1..Len(file)
  <2>1. h \in h..n
    BY <1>1, <1>3
  <2>2. ~InEntry(file, host, h)
    BY <1>1, <1>3, <1>4, <2>1, SectionStays
  <2> QED
    BY <1>1, <1>3, <2>2
<1>6. file[h].kind # "blank"
  BY <1>3, KeyedIsFull
<1>7. PICK j \in 1..L : pos[j] = h
  BY <1>5, <1>6 DEF Stay
<1>8. \A a, b \in 1..L : a < b => pos[a] < pos[b]
  BY DEF Stay
<1>9. j \in 1..i
  <2>1. ~(i < j)
    BY <1>1, <1>3, <1>7, <1>8 DEF n
  <2> QED
    BY <2>1
<1>10. ASSUME NEW q \in (j + 1)..i PROVE KeyOf(g, q) \notin {"host", "match"}
  <2>1. q \in 1..L /\ j < q /\ (q = i \/ q < i)
    BY <1>9
  <2>2. pos[j] < pos[q] /\ (pos[q] = n \/ pos[q] < n) /\ pos[q] \in 1..Len(file)
    BY <1>1, <1>8, <2>1 DEF n
  <2>3. pos[q] \in (h + 1)..n
    BY <1>1, <1>3, <1>7, <2>2
  <2> QED
    BY <1>2, <1>3, <2>1, <2>3
<1>11. HeadOf(g, i, j)
  BY <1>2, <1>3, <1>7, <1>9, <1>10 DEF HeadOf
<1> QED
  BY <1>7, <1>9, <1>11 DEF HeadStays

LEMMA StayingCounts ==
  ASSUME NEW file \in Seq(ConfigLines), NEW host, Tidy(file),
         NEW g, NEW L \in Nat, NEW pos, Stay(file, host, g, L, pos),
         NEW i \in 1..L, NEW o, NEW k \in Keywords
  PROVE  Counts(g, o, k, i) <=> Counts(file, o, k, pos[i])
<1> DEFINE n == pos[i]
<1>1. pos \in [1..L -> 1..Len(file)] /\ n \in 1..Len(file) /\ ~InEntry(file, host, n)
  BY DEF Stay
<1>2. \A q \in 1..L : g[q] = file[pos[q]] /\ KeyOf(g, q) = KeyOf(file, pos[q])
  <2>1. \A q \in 1..L : g[q] = file[pos[q]]
    BY DEF Stay
  <2> QED
    BY Zenon, <2>1 DEF KeyOf
<1>3. \A a, b \in 1..L : a < b => pos[a] < pos[b]
  BY DEF Stay
<1>4. CASE KeyOf(file, n) # k
  <2>1. KeyOf(g, i) # k
    BY <1>2, <1>4
  <2> QED
    BY <1>4, <2>1 DEF Counts
<1>5. CASE KeyOf(file, n) = k
  <2>1. Keyed(file, n)
    BY <1>5, KeywordIs
  <2>2. ASSUME NEW h, HeadOf(file, n, h)
        PROVE  \E j \in 1..i : pos[j] = h /\ HeadOf(g, i, j)
    <3>1. Keyed(file, pos[i]) /\ HeadOf(file, pos[i], h)
      BY <2>1, <2>2
    <3> HIDE DEF n
    <3>2. HeadStays(g, pos, i, h)
      BY <3>1, StayingHead
    <3> QED
      BY <3>2 DEF HeadStays
  <2>3. ASSUME NEW j, HeadOf(g, i, j) PROVE j \in 1..i /\ HeadOf(file, n, pos[j])
    <3>1. j \in 1..i /\ KeyOf(g, j) \in {"host", "match"}
      BY <2>3 DEF HeadOf
    <3>2. j \in 1..L /\ (j = i \/ j < i)
      BY <3>1
    <3>3. pos[j] \in 1..n
      BY <1>1, <1>3, <3>2
    <3>4. KeyOf(file, pos[j]) \in {"host", "match"}
      BY <1>2, <3>1, <3>2
    <3>5. Heads(file, n) # {}
      BY <3>3, <3>4 DEF Heads
    <3>6. HeadOf(file, n, Max(Heads(file, n)))
      BY <1>1, <3>5, HasHead
    <3>7. PICK q \in 1..i : pos[q] = Max(Heads(file, n)) /\ HeadOf(g, i, q)
      BY <2>2, <3>6
    <3>8. q = j
      <4>1. i \in Nat
        OBVIOUS
      <4> QED
        BY <2>3, <3>7, <4>1, OneHead
    <3> QED
      BY <3>1, <3>6, <3>7, <3>8
  <2>4. ASSUME NEW j \in 1..i, HeadOf(file, n, pos[j])
        PROVE  (\A e \in j..(i - 1) : KeyOf(g, e) # k)
                 <=> (\A e \in pos[j]..(n - 1) : KeyOf(file, e) # k)
    <3>1. ASSUME NEW e \in j..(i - 1), KeyOf(g, e) = k
          PROVE  \E d \in pos[j]..(n - 1) : KeyOf(file, d) = k
      <4>1. e \in 1..L /\ e < i /\ (e = j \/ j < e) /\ j \in 1..L
        OBVIOUS
      <4>2. pos[e] \in 1..Len(file) /\ pos[j] \in 1..Len(file) /\ pos[e] < n
            /\ (pos[e] = pos[j] \/ pos[j] < pos[e])
        BY <1>1, <1>3, <4>1
      <4>3. pos[e] \in pos[j]..(n - 1)
        BY <1>1, <4>2
      <4> QED
        BY <1>2, <3>1, <4>1, <4>3
    <3>2. ASSUME NEW d \in pos[j]..(n - 1), KeyOf(file, d) = k
          PROVE  \E e \in j..(i - 1) : KeyOf(g, e) = k
      <4>1. pos[j] \in 1..n /\ \A e \in (pos[j] + 1)..n : KeyOf(file, e) \notin {"host", "match"}
        BY <2>4 DEF HeadOf
      <4>2. d \in pos[j]..n /\ d \in 1..Len(file) /\ d < n
        BY <1>1, <4>1
      <4>3. ~InEntry(file, host, d)
        <5> DEFINE h == pos[j]
        <5>1. h \in 1..n /\ (\A e \in (h + 1)..n : KeyOf(file, e) \notin {"host", "match"})
              /\ d \in h..n
          BY <4>1, <4>2
        <5> HIDE DEF h, n
        <5> QED
          BY <1>1, <2>1, <5>1, SectionStays
      <4>4. file[d].kind # "blank"
        BY <3>2, KeywordIs, KeyedIsFull
      <4>5. PICK q \in 1..L : pos[q] = d
        BY <4>2, <4>3, <4>4 DEF Stay
      <4>6. ~(i =< q) /\ ~(q < j)
        <5>1. ~(i < q) /\ i # q
          BY <1>1, <1>3, <4>2, <4>5
        <5>2. j \in 1..L /\ pos[j] =< d
          BY <4>1, <4>2
        <5>3. ASSUME q < j PROVE FALSE
          <6>1. pos[q] < pos[j]
            BY <1>3, <5>2, <5>3
          <6>2. pos[q] = d /\ pos[j] \in Int /\ d \in Int
            BY <1>1, <4>2, <4>5, <5>2
          <6> QED
            BY <5>2, <6>1, <6>2
        <5> QED
          BY <5>1, <5>3
      <4>7. q \in j..(i - 1)
        BY <4>6
      <4> QED
        BY <1>2, <3>2, <4>5, <4>7
    <3> QED
      BY <3>1, <3>2
  <2>5. ASSUME NEW j \in 1..i PROVE TakenBy(g, o, j) <=> TakenBy(file, o, pos[j])
    <3>1. g[j] = file[pos[j]] /\ KeyOf(g, j) = KeyOf(file, pos[j])
      BY <1>2
    <3> QED
      BY Zenon, <3>1 DEF TakenBy
  <2>6. g[i] = file[n] /\ KeyOf(g, i) = KeyOf(file, n)
    BY <1>2
  <2>7. i \in Nat /\ n \in Nat
    BY <1>1
  <2> HIDE DEF n
  <2>8. ASSUME Counts(g, o, k, i) PROVE Counts(file, o, k, n)
    <3>1. PICK j : /\ HeadOf(g, i, j) /\ TakenBy(g, o, j)
                   /\ \A e \in j..(i - 1) : KeyOf(g, e) # k
      <4>1. Counts(g, o, k, i) <=>
              /\ KeyOf(g, i) = k /\ g[i].args # Unset
              /\ \E h : /\ HeadOf(g, i, h) /\ TakenBy(g, o, h)
                        /\ \A e \in h..(i - 1) : KeyOf(g, e) # k
        BY <2>7, CountsIs
      <4> QED
        BY Zenon, <2>8, <4>1
    <3>2. j \in 1..i /\ HeadOf(file, n, pos[j])
      BY <2>3, <3>1
    <3>3. TakenBy(file, o, pos[j]) /\ \A e \in pos[j]..(n - 1) : KeyOf(file, e) # k
      BY <2>4, <2>5, <3>1, <3>2
    <3>4. file[n].args # Unset
      BY <2>6, <2>8 DEF Counts
    <3> QED
      BY <1>5, <2>7, <3>2, <3>3, <3>4, CountsIs
  <2>9. ASSUME Counts(file, o, k, n) PROVE Counts(g, o, k, i)
    <3>1. PICK h : /\ HeadOf(file, n, h) /\ TakenBy(file, o, h)
                   /\ \A e \in h..(n - 1) : KeyOf(file, e) # k
      BY <2>7, <2>9, CountsIs
    <3>2. PICK j \in 1..i : pos[j] = h /\ HeadOf(g, i, j)
      BY <2>2, <3>1
    <3>3. TakenBy(g, o, j) /\ \A e \in j..(i - 1) : KeyOf(g, e) # k
      BY <2>4, <2>5, <3>1, <3>2
    <3>4. g[i].args # Unset
      BY <2>6, <2>9 DEF Counts
    <3> QED
      BY <1>5, <2>6, <2>7, <3>2, <3>3, <3>4, CountsIs
  <2> QED
    BY <2>8, <2>9 DEF n
<1> QED
  BY <1>4, <1>5

LEMMA EntryTakesNone ==
  ASSUME NEW file, NEW host, NEW h, file[h].patterns = <<Exactly(host)>>, NEW o, ~Denotes(host, o)
  PROVE  ~TakenBy(file, o, h)
<1> DEFINE ps == file[h].patterns
<1>1. DOMAIN ps = {1} /\ ps[1].glob = host
  BY DEF Exactly
<1>2. \A j \in DOMAIN ps : ~Denotes(ps[j].glob, o)
  BY <1>1
<1> QED
  BY Zenon, <1>2 DEF TakenBy

\* No line of an entry of ours counts for a host its Host line does not take.
LEMMA EntryCountsNot ==
  ASSUME NEW file \in Seq(ConfigLines), NEW host, Tidy(file), NEW o, ~Denotes(host, o),
         NEW k \in Keywords, NEW n \in 1..Len(file), InEntry(file, host, n)
  PROVE  ~Counts(file, o, k, n)
<1> SUFFICES ASSUME Counts(file, o, k, n) PROVE FALSE
  OBVIOUS
<1>1. PICK m \in 1..Len(file) : EntryAt(file, host, m) /\ m =< n /\ n =< EntryEnd(file, m)
  BY DEF InEntry
<1>2. /\ m + 1 \in 1..Len(file) /\ file[m].kind = "marker" /\ ~Keyed(file, m)
      /\ KeyOf(file, m + 1) = "host" /\ file[m + 1].patterns = <<Exactly(host)>>
  BY <1>1, EntryLines
<1>3. KeyOf(file, n) = k /\ Keyed(file, n) /\ KeyOf(file, n) \notin {"host", "match"}
  BY KeywordIs DEF Counts
<1>4. n # m /\ n # m + 1
  BY <1>2, <1>3
<1>5. EntryEnd(file, m) \in (m + 1)..Len(file)
  BY <1>1, EntryEndIs
<1>6. m + 1 \in 1..n
  BY <1>1, <1>4
<1>7. \A i \in (m + 2)..EntryEnd(file, m) : KeyOf(file, i) \notin {"host", "match"}
  <2>1. m \in DOMAIN file /\ m + 1 \in DOMAIN file
    BY <1>2
  <2> DEFINE rest == {i \in (EntryEnd(file, m) + 1)..Len(file) : Keyed(file, i)}
  <2> HIDE DEF rest
  <2>2. \A r : r = rest => \A i \in (m + 2)..EntryEnd(file, m) : KeyOf(file, i) \notin {"host", "match"}
    BY <1>2, <2>1, TidyIs DEF rest
  <2> QED
    BY <2>2
<1>8. HeadOf(file, n, m + 1)
  <2>1. \A i \in (m + 1 + 1)..n : i \in (m + 2)..EntryEnd(file, m)
    BY <1>1, <1>5
  <2> QED
    BY <1>2, <1>6, <1>7, <2>1 DEF HeadOf
<1>9. PICK h : HeadOf(file, n, h) /\ TakenBy(file, o, h)
  <2>1. n \in Nat
    OBVIOUS
  <2> QED
    BY <2>1, CountsIs
<1>10. h = m + 1
  <2>1. n \in Nat
    OBVIOUS
  <2> QED
    BY <1>8, <1>9, <2>1, OneHead
<1> QED
  BY <1>2, <1>9, <1>10, EntryTakesNone

LEMMA EntryIsShort ==
  ASSUME NEW file \in Seq(ConfigLines), NEW host, Tidy(file), NEW n \in 1..Len(file),
         InEntry(file, host, n)
  PROVE  file[n].kind # "long"
<1>1. PICK m \in 1..Len(file) : EntryAt(file, host, m) /\ m =< n /\ n =< EntryEnd(file, m)
  BY DEF InEntry
<1>2. m + 1 \in 1..Len(file) /\ file[m].kind = "marker" /\ file[m + 1].kind = "directive"
  BY <1>1, EntryLines
<1>3. EntryEnd(file, m) \in (m + 1)..Len(file)
  BY <1>1, EntryEndIs
<1>4. \A i \in (m + 2)..EntryEnd(file, m) : file[i].kind \notin {"marker", "long"}
  <2>1. m \in DOMAIN file /\ m + 1 \in DOMAIN file
    BY <1>2
  <2> DEFINE rest == {i \in (EntryEnd(file, m) + 1)..Len(file) : Keyed(file, i)}
  <2> HIDE DEF rest
  <2>2. \A r : r = rest => \A i \in (m + 2)..EntryEnd(file, m) : file[i].kind \notin {"marker", "long"}
    BY <1>2, <2>1, TidyIs DEF rest
  <2> QED
    BY <2>2
<1>5. n = m \/ n = m + 1 \/ n \in (m + 2)..EntryEnd(file, m)
  BY <1>1, <1>3
<1> QED
  BY <1>2, <1>4, <1>5

LEMMA AddedCountsNot ==
  ASSUME NEW file \in Seq(ConfigLines), NEW host \in Seq(STRING), NEW user \in STRING,
         NEW g, g = ReplaceOrAppendHostBlock(file, host, user), NEW L, L = Len(Left(file, host)),
         NEW o, ~Denotes(host, o), NEW k \in Keywords, NEW i \in DOMAIN g, i \notin 1..L
  PROVE  ~Counts(g, o, k, i) /\ g[i].kind # "long"
<1> DEFINE t == Left(file, host)
           p == EntryPlace(file, host)
<1>1. Extended(g, t, p, host, user)
  BY Zenon, UpdatedIs
<1>2. AddedSay(g, L, p, host)
  BY <1>1, LinesAdded
<1>3. L = Len(t)
  OBVIOUS
<1> HIDE DEF t, p
<1>4. /\ L \in Nat /\ p \in Nat /\ p >= 1 /\ p = (IF L = 0 THEN 1 ELSE L + 2) /\ Len(g) = p + 3
      /\ g \in Seq(ConfigLines)
  BY <1>1, <1>3 DEF Extended
<1>5. (L # 0 /\ i = L + 1) \/ i = p \/ i = p + 1 \/ i = p + 2 \/ i = p + 3
  <2>0. DOMAIN g = 1..Len(g)
    BY Zenon, <1>4, PlacesOf
  <2>1. i \in 1..(p + 3)
    BY Zenon, <1>4, <2>0
  <2>2. i > L
    BY <1>4, <2>1
  <2> QED
    BY <1>4, <2>1, <2>2
<1>6. g[i].kind # "long"
  BY <1>2, <1>5 DEF AddedSay
<1>7. ASSUME Counts(g, o, k, i) PROVE FALSE
  <2>1. Keyed(g, i) /\ KeyOf(g, i) \notin {"host", "match"}
    BY <1>7, KeywordIs DEF Counts
  <2>2. i = p + 2 \/ i = p + 3
    BY <1>2, <1>5, <2>1 DEF AddedSay
  <2>3. HeadOf(g, i, p + 1)
    <3>1. p + 1 \in 1..i
      BY <1>4, <2>2
    <3>2. \A e \in (p + 1 + 1)..i : e = p + 2 \/ e = p + 3
      BY <1>4, <2>2
    <3>3. KeyOf(g, p + 2) \notin {"host", "match"} /\ KeyOf(g, p + 3) \notin {"host", "match"}
      BY <1>2 DEF AddedSay
    <3> QED
      BY <1>2, <3>1, <3>2, <3>3 DEF HeadOf, AddedSay
  <2>4. i \in Nat
    BY <1>4, <2>2
  <2>5. PICK h : HeadOf(g, i, h) /\ TakenBy(g, o, h)
    BY <1>7, <2>4, CountsIs
  <2>6. h = p + 1
    BY <2>3, <2>4, <2>5, OneHead
  <2> QED
    BY <1>2, <2>5, <2>6, EntryTakesNone DEF AddedSay
<1> QED
  BY <1>6, <1>7

SameFor(file, g, o, k) == FirstValue(g, o, k) = FirstValue(file, o, k)

\* What the updated file says to a host the entry's Host line does not take.
LEMMA OthersKeep ==
  ASSUME NEW file \in Seq(ConfigLines), NEW host \in Seq(STRING), NEW user \in STRING, Tidy(file),
         NEW g, g = ReplaceOrAppendHostBlock(file, host, user),
         NEW o, ~Denotes(host, o), NEW k \in Keywords
  PROVE  SameFor(file, g, o, k)
<1> SUFFICES FirstValue(g, o, k) = FirstValue(file, o, k)
  BY DEF SameFor
<1> DEFINE t == Left(file, host)
           p == EntryPlace(file, host)
           L == Len(t)
           A == {n \in DOMAIN file : Counts(file, o, k, n)}
           B == {n \in DOMAIN g : Counts(g, o, k, n)}
<1>1. Extended(g, t, p, host, user)
  BY Zenon, UpdatedIs
<1>2. PICK pos : Stay(file, host, t, L, pos)
  BY TidyApart, LeftStays
<1>3. \A i \in DOMAIN g : i \notin 1..L => ~Counts(g, o, k, i) /\ g[i].kind # "long"
  BY AddedCountsNot
<1> HIDE DEF t, p, L
<1>4. /\ L \in Nat /\ DOMAIN g = 1..Len(g) /\ 1..L \subseteq DOMAIN g /\ \A i \in 1..L : g[i] = t[i]
      /\ DOMAIN file = 1..Len(file) /\ DOMAIN g \subseteq Nat /\ DOMAIN file \subseteq Nat
  <2>1. /\ L \in Nat /\ \A i \in 1..L : g[i] = t[i]
        /\ Len(g) \in Nat /\ L =< Len(g) /\ g \in Seq(ConfigLines)
    <3>1. /\ Len(t) \in Nat /\ p \in Nat /\ p = (IF Len(t) = 0 THEN 1 ELSE Len(t) + 2)
          /\ Len(g) = p + 3 /\ g \in Seq(ConfigLines) /\ \A i \in 1..Len(t) : g[i] = t[i]
      BY Zenon, <1>1 DEF Extended
    <3>2. L = Len(t)
      BY DEF L
    <3>3. L =< Len(g) /\ Len(g) \in Nat /\ L \in Nat
      BY <3>1, <3>2
    <3> QED
      BY Zenon, <3>1, <3>2, <3>3
  <2>2. DOMAIN g = 1..Len(g) /\ DOMAIN file = 1..Len(file) /\ DOMAIN g \subseteq Nat
        /\ DOMAIN file \subseteq Nat /\ Len(g) \in Nat
    BY Zenon, <2>1, PlacesOf
  <2>3. 1..L \subseteq 1..Len(g)
    BY Zenon, <2>1, <2>2, FirstOnes
  <2> QED
    BY Zenon, <2>1, <2>2, <2>3
<1>5. Stay(file, host, g, L, pos)
  BY <1>2, <1>4 DEF Stay
<1>6. ASSUME NEW n \in DOMAIN file, ~InEntry(file, host, n), file[n].kind # "blank"
      PROVE  \E i \in 1..L : pos[i] = n
  BY <1>4, <1>5, <1>6 DEF Stay
<1>7. \A i \in 1..L : g[i] = file[pos[i]] /\ pos[i] \in DOMAIN file
  BY <1>4, <1>5 DEF Stay
<1>8. ASSUME NEW i \in 1..L PROVE Counts(g, o, k, i) <=> Counts(file, o, k, pos[i])
  <2>1. L \in Nat
    BY <1>4
  <2> HIDE DEF A, B
  <2> QED
    BY Zenon, <1>5, <2>1, StayingCounts
<1>9. ASSUME NEW n \in A PROVE \E i \in B : i \in 1..L /\ pos[i] = n
  <2>1. n \in DOMAIN file /\ Counts(file, o, k, n) /\ n \in 1..Len(file)
    BY <1>4
  <2>2. ~InEntry(file, host, n)
    BY <2>1, EntryCountsNot
  <2>3. file[n].kind # "blank"
    BY <2>1, KeywordIs, KeyedIsFull DEF Counts
  <2>4. PICK i \in 1..L : pos[i] = n
    BY <1>6, <2>1, <2>2, <2>3
  <2> QED
    BY <1>4, <1>8, <2>1, <2>4
<1>10. ASSUME NEW i \in B PROVE i \in 1..L /\ pos[i] \in A
  BY <1>3, <1>7, <1>8
<1>11. (\E n \in DOMAIN g : g[n].kind = "long") <=> \E n \in DOMAIN file : file[n].kind = "long"
  <2>1. ASSUME NEW n \in DOMAIN g, g[n].kind = "long" PROVE \E m \in DOMAIN file : file[m].kind = "long"
    BY <1>3, <1>7, <2>1
  <2>2. ASSUME NEW n \in DOMAIN file, file[n].kind = "long" PROVE \E m \in DOMAIN g : g[m].kind = "long"
    <3>1. ~InEntry(file, host, n)
      BY <1>4, <2>2, EntryIsShort
    <3>2. PICK i \in 1..L : pos[i] = n
      BY <1>6, <2>2, <3>1
    <3> QED
      BY <1>4, <1>7, <2>2, <3>2
  <2> QED
    BY <2>1, <2>2
<1>12. FirstValue(g, o, k) = IF B = {} \/ \E n \in DOMAIN g : g[n].kind = "long" THEN Unset
                             ELSE g[Min(B)].args
  BY ZenonT(60), FirstValueIs
<1>13. FirstValue(file, o, k) = IF A = {} \/ \E n \in DOMAIN file : file[n].kind = "long" THEN Unset
                                ELSE file[Min(A)].args
  BY ZenonT(60), FirstValueIs
<1>14. A \subseteq Nat /\ B \subseteq Nat
  BY <1>4
<1> HIDE DEF A, B
<1>15. CASE B = {}
  <2>1. A = {}
    BY <1>9, <1>15
  <2> QED
    BY <1>12, <1>13, <1>15, <2>1
<1>16. CASE B # {}
  <2> DEFINE b == Min(B)
  <2>1. b \in B /\ \A i \in B : b =< i
    BY <1>14, <1>16, LeastIsIn
  <2> HIDE DEF b
  <2>2. b \in 1..L /\ pos[b] \in A
    BY <1>10, <2>1
  <2>3. ASSUME NEW n \in A PROVE pos[b] =< n
    <3>1. PICK i \in B : i \in 1..L /\ pos[i] = n
      BY <1>9
    <3>2. i = b \/ b < i
      BY <1>14, <2>1, <3>1
    <3>3. pos[b] \in Nat /\ pos[i] \in Nat
      BY <1>14, <2>2, <3>1
    <3>4. \A x, y \in 1..L : x < y => pos[x] < pos[y]
      BY <1>5 DEF Stay
    <3> QED
      BY <2>2, <3>1, <3>2, <3>3, <3>4
  <2>4. Min(A) = pos[b]
    <3>1. A \subseteq Int /\ \A n \in A : pos[b] =< n
      BY <1>14, <2>3
    <3> QED
      BY <2>2, <3>1, MinIs
  <2>5. A # {}
    BY <2>2
  <2>6. g[b] = file[pos[b]]
    BY <1>7, <2>2
  <2> QED
    BY <1>11, <1>12, <1>13, <1>16, <2>4, <2>5, <2>6 DEF b
<1> QED
  BY <1>15, <1>16

\* In a tidy file what is left in front holds no entry of ours.
LEMMA StayingMarker ==
  ASSUME NEW file \in Seq(ConfigLines), NEW host, Tidy(file),
         NEW g \in Seq(ConfigLines), NEW L \in Nat, L =< Len(g), NEW pos, Stay(file, host, g, L, pos),
         NEW n \in 1..L, n + 1 \in 1..L
  PROVE  ~EntryAt(g, host, n)
<1> SUFFICES ASSUME EntryAt(g, host, n) PROVE FALSE
  OBVIOUS
<1> DEFINE m == pos[n]
<1>1. pos \in [1..L -> 1..Len(file)] /\ m \in 1..Len(file) /\ ~InEntry(file, host, m)
      /\ g[n] = file[m]
  BY DEF Stay
<1>2. \A a, b \in 1..L : a < b => pos[a] < pos[b]
  BY DEF Stay
<1>3. pos[n + 1] \in 1..Len(file) /\ m < pos[n + 1]
  BY <1>1, <1>2
<1>4. \A q \in 1..Len(file) : ~InEntry(file, host, q) /\ file[q].kind # "blank" =>
                                \E i \in 1..L : pos[i] = q
  BY DEF Stay
<1>5. Len(file) \in Nat /\ Len(g) \in Nat
  BY Zenon, PlacesOf
<1>6. g[n].kind = "marker"
  BY DEF EntryAt
<1> HIDE DEF m
<1>7. m + 1 \in 1..Len(file) /\ m \in DOMAIN file /\ m + 1 \in DOMAIN file
  BY <1>1, <1>3, <1>5, SMTT(30)
<1>8. KeyOf(file, m + 1) = "host"
  <2> DEFINE rest == {k \in (EntryEnd(file, m) + 1)..Len(file) : Keyed(file, k)}
  <2> HIDE DEF rest
  <2>1. \A r : r = rest => KeyOf(file, m + 1) = "host"
    BY <1>1, <1>6, <1>7, TidyIs DEF rest
  <2> QED
    BY <2>1
<1>9. file[m + 1].kind = "directive"
  BY <1>8, KeyedIsFull
<1>10. ~InEntry(file, host, m + 1)
  <2> SUFFICES ASSUME NEW q \in 1..Len(file), EntryAt(file, host, q), q =< m + 1,
                      m + 1 =< EntryEnd(file, q)
               PROVE  FALSE
    BY DEF InEntry
  <2>1. file[q].kind = "marker" /\ EntryEnd(file, q) \in (q + 1)..Len(file)
    BY EntryLines, EntryEndIs
  <2>2. q # m + 1
    BY <1>9, <2>1
  <2>3. q =< m /\ m =< EntryEnd(file, q)
    BY <1>1, <2>1, <2>2
  <2> QED
    BY <1>1, <2>3 DEF InEntry
<1>11. PICK i \in 1..L : pos[i] = m + 1
  BY <1>4, <1>7, <1>9, <1>10
<1>12. i = n + 1
  <2>1. ~(n + 1 < i)
    BY <1>1, <1>2, <1>3, <1>11
  <2>2. ~(i < n) /\ i # n
    BY <1>1, <1>2, <1>11 DEF m
  <2> QED
    BY <2>1, <2>2
<1>13. g[n + 1] = file[m + 1]
  BY <1>11, <1>12 DEF Stay
<1>14. EntryAt(file, host, m)
  <2>1. /\ file[m].kind = "marker"
        /\ [file[m + 1] EXCEPT !.indent = FALSE] = HostLine("space", <<Exactly(host)>>)
    BY Zenon, <1>1, <1>13 DEF EntryAt
  <2> QED
    BY Zenon, <1>7, <2>1 DEF EntryAt
<1>15. EntryEnd(file, m) \in (m + 1)..Len(file)
  BY <1>1, <1>14, EntryEndIs
<1>16. InEntry(file, host, m)
  BY <1>1, <1>14, <1>15 DEF InEntry
<1> QED
  BY <1>1, <1>16

\* The updated file holds one entry for the host, the one at its end.
LEMMA OneEntry ==
  ASSUME NEW file \in Seq(ConfigLines), NEW host \in Seq(STRING), NEW user \in STRING, Tidy(file),
         NEW g, g = ReplaceOrAppendHostBlock(file, host, user),
         NEW p, p = EntryPlace(file, host)
  PROVE  \A n \in DOMAIN g : EntryAt(g, host, n) <=> n = p
<1> DEFINE t == Left(file, host)
           L == Len(t)
<1>1. Extended(g, t, p, host, user)
  BY Zenon, UpdatedIs
<1>2. AddedSay(g, L, p, host)
  BY <1>1, LinesAdded
<1>3. PICK pos : Stay(file, host, t, L, pos)
  BY TidyApart, LeftStays
<1> HIDE DEF t
<1>4. /\ L \in Nat /\ p \in Nat /\ p = (IF L = 0 THEN 1 ELSE L + 2) /\ Len(g) = p + 3
      /\ g \in Seq(ConfigLines) /\ \A i \in 1..L : g[i] = t[i]
  BY <1>1 DEF Extended
<1> HIDE DEF L
<1>5. Stay(file, host, g, L, pos)
  BY <1>3, <1>4 DEF Stay, L
<1>6. ASSUME NEW n \in DOMAIN g, EntryAt(g, host, n) PROVE n = p
  <2>1. DOMAIN g = 1..(p + 3) /\ n \in 1..Len(g)
    BY Zenon, <1>4, <1>6, PlacesOf
  <2>2. g[n].kind = "marker" /\ g[n + 1].kind = "directive"
    BY <1>4, <1>6, <2>1, EntryLines
  <2>3. n \notin 1..L
    <3> SUFFICES ASSUME n \in 1..L PROVE FALSE
      OBVIOUS
    <3>1. L # 0
      BY <1>4
    <3>2. n # L
      BY <1>2, <2>2, <3>1 DEF AddedSay
    <3>3. n + 1 \in 1..L /\ L =< Len(g)
      BY <1>4, <3>2
    <3> QED
      BY <1>4, <1>5, <1>6, <3>3, StayingMarker
  <2>4. (L # 0 /\ n = L + 1) \/ n = p \/ n = p + 1 \/ n = p + 2 \/ n = p + 3
    BY <1>4, <2>1, <2>3
  <2> QED
    BY <1>2, <2>2, <2>4 DEF AddedSay
<1>7. EntryAt(g, host, p)
  BY <1>2 DEF AddedSay
<1> QED
  BY <1>6, <1>7

\* Said again: the entry is the end of the file, what is in front stays.
LEMMA EntryToTheEnd ==
  ASSUME NEW g, NEW t, NEW p, NEW host \in Seq(STRING), NEW user \in STRING,
         Extended(g, t, p, host, user)
  PROVE  EntryEnd(g, p) = p + 3
<1> DEFINE ends == {e \in (p + 1)..Len(g) : e = Len(g) \/ ~g[e + 1].indent}
<1>1. p \in Nat /\ Len(g) = p + 3
  BY DEF Extended
<1>2. g[p + 2].indent /\ g[p + 3].indent
  BY LinesAdded DEF AddedSay
<1>3. ASSUME NEW e \in ends PROVE e = p + 3
  <2>1. e = p + 1 \/ e = p + 2 \/ e = p + 3
    BY <1>1
  <2>2. e # p + 1 /\ e # p + 2
    <3>1. p + 1 + 1 = p + 2 /\ p + 2 + 1 = p + 3
      BY <1>1
    <3> QED
      BY <1>1, <1>2, <3>1
  <2> QED
    BY <2>1, <2>2
<1>4. p + 3 \in ends /\ ends \subseteq Int
  BY <1>1
<1> HIDE DEF ends
<1>5. Min(ends) = p + 3
  <2>1. \A e \in ends : p + 3 =< e
    BY <1>1, <1>3
  <2> QED
    BY <1>4, <2>1, MinIs
<1>6. BodyEnd(g, p) = p + 3
  BY <1>5 DEF BodyEnd, ends
<1>7. ~(p + 3 < Len(g))
  BY <1>1
<1> QED
  BY Zenon, <1>6, <1>7 DEF EntryEnd

\* What the loop keeps of the last s lines in front of the only entry, at p.
TailOf(g, p, s, h) ==
  /\ h \in Seq(ConfigLines) /\ Len(h) = s
  /\ \A i \in 1..s : h[i] = g[p - 1 - s + i]

LEMMA TailGrows ==
  ASSUME NEW g \in Seq(ConfigLines), NEW p \in 1..Len(g), NEW s \in 0..(p - 2),
         NEW h, TailOf(g, p, s, h)
  PROVE  TailOf(g, p, s + 1, <<g[p - 1 - s]>> \o h)
<1> DEFINE l == g[p - 1 - s]
           one == <<l>>
<1>1. Len(g) \in Nat /\ p - 1 - s \in 1..Len(g) /\ p - 1 - (s + 1) + 1 = p - 1 - s
  OBVIOUS
<1>2. l \in ConfigLines
  BY <1>1
<1>3. /\ h \in Seq(ConfigLines) /\ Len(h) = s /\ \A i \in 1..s : h[i] = g[p - 1 - s + i]
  BY DEF TailOf
<1> HIDE DEF l
<1>4. one \in Seq(ConfigLines) /\ Len(one) = 1 /\ one[1] = l
  BY <1>2
<1> HIDE DEF one
<1>5. /\ one \o h \in Seq(ConfigLines) /\ Len(one \o h) = s + 1
      /\ (one \o h)[1] = l /\ \A i \in 1..s : (one \o h)[1 + i] = h[i]
  <2>1. /\ one \o h \in Seq(ConfigLines) /\ Len(one \o h) = Len(one) + Len(h)
        /\ \A i \in 1..Len(one) : (one \o h)[i] = one[i]
        /\ \A i \in 1..Len(h) : (one \o h)[Len(one) + i] = h[i]
    <3>1. one \in Seq(ConfigLines) /\ h \in Seq(ConfigLines)
      BY <1>3, <1>4
    <3> QED
      BY <3>1, JoinIs
  <2>2. 1 \in 1..Len(one) /\ Len(one) + Len(h) = s + 1
    BY <1>3, <1>4
  <2> QED
    BY <1>3, <1>4, <2>1, <2>2
<1>6. ASSUME NEW i \in 1..(s + 1) PROVE (one \o h)[i] = g[p - 1 - (s + 1) + i]
  <2>1. CASE i = 1
    BY <1>1, <1>5, <2>1 DEF l
  <2>2. CASE i # 1
    <3> DEFINE j == i - 1
    <3>1. j \in 1..s /\ 1 + j = i /\ p - 1 - s + j = p - 1 - (s + 1) + i
      BY <2>2
    <3> HIDE DEF j
    <3>2. (one \o h)[1 + j] = h[j] /\ h[j] = g[p - 1 - s + j]
      BY <1>3, <1>5, <3>1
    <3> QED
      BY <3>1, <3>2
  <2> QED
    BY <2>1, <2>2
<1> QED
  BY <1>5, <1>6 DEF TailOf, one, l

LEMMA KeptInFront ==
  ASSUME NEW g \in Seq(ConfigLines), NEW host, NEW p \in 1..Len(g), Len(g) = p + 3,
         EntryEnd(g, p) = p + 3, \A n \in 1..Len(g) : EntryAt(g, host, n) <=> n = p
  PROVE  TailOf(g, p, p - 1, Kept(g, host))
<1> DEFINE kept == KeptFrom(g, host)
           Good(s) == TailOf(g, p, s, kept[4 + s])
           S == {s \in 0..(p - 1) : Good(s)}
<1>0. p \in Nat /\ p >= 1 /\ Len(g) \in Nat
  OBVIOUS
<1>1. \A r \in 0..(p + 3) :
        kept[r] = IF r = 0 THEN <<>>
                  ELSE IF p + 4 - r = p THEN kept[Len(g) - EntryEnd(g, p + 4 - r)]
                  ELSE <<g[p + 4 - r]>> \o kept[r - 1]
  <2> TAKE r \in 0..(p + 3)
  <2>0. Len(g) = p + 3
    OBVIOUS
  <2>1. r \in 0..Len(g) /\ Len(g) + 1 - r = p + 4 - r
    BY <1>0, <2>0, SMTT(30)
  <2>2. kept[r] = IF r = 0 THEN <<>>
                  ELSE IF EntryAt(g, host, p + 4 - r) THEN kept[Len(g) - EntryEnd(g, p + 4 - r)]
                  ELSE <<g[p + 4 - r]>> \o kept[r - 1]
    BY <2>1, KeptFromIs, SMTT(30)
  <2>3. r # 0 => p + 4 - r \in 1..Len(g)
    BY <1>0
  <2> HIDE DEF kept
  <2> QED
    BY <2>2, <2>3
<1>2. kept[4] = <<>>
  <2>1. 0 \in 0..(p + 3) /\ 4 \in 0..(p + 3) /\ p + 4 - 4 = p /\ Len(g) - EntryEnd(g, p) = 0 /\ 4 # 0
    BY <1>0
  <2> HIDE DEF kept
  <2>2. kept[0] = <<>>
    BY <1>1, <2>1
  <2>3. kept[4] = kept[0]
    BY <1>1, <2>1
  <2> QED
    BY <2>2, <2>3
<1>3. 0 \in S
  <2>1. 4 + 0 = 4 /\ 0 \in 0..(p - 1) /\ 1..0 = {}
    BY <1>0
  <2> HIDE DEF kept
  <2>2. <<>> \in Seq(ConfigLines) /\ Len(<<>>) = 0
    OBVIOUS
  <2> QED
    BY <1>2, <2>1, <2>2 DEF TailOf
<1>4. ASSUME NEW s \in 0..(p - 1 - 1), s \in S PROVE s + 1 \in S
  <2> DEFINE r == 4 + (s + 1)
  <2>1. /\ r \in 0..(p + 3) /\ r # 0 /\ p + 4 - r = p - 1 - s /\ p - 1 - s # p /\ r - 1 = 4 + s
        /\ s \in 0..(p - 2) /\ s + 1 \in 0..(p - 1)
    BY <1>0
  <2> HIDE DEF kept, r
  <2>2. kept[r] = <<g[p - 1 - s]>> \o kept[4 + s]
    BY <1>1, <2>1
  <2>3. TailOf(g, p, s, kept[4 + s])
    BY <1>4
  <2>4. TailOf(g, p, s + 1, kept[r])
    BY <2>1, <2>2, <2>3, TailGrows
  <2> QED
    BY <2>1, <2>4 DEF r
<1>5. p - 1 \in Nat
  BY <1>0
<1> HIDE DEF S
<1>6. 0..(p - 1) \subseteq S
  BY <1>3, <1>4, <1>5, UpTo
<1>7. Good(p - 1) /\ 4 + (p - 1) = Len(g)
  BY <1>0, <1>5, <1>6 DEF S
<1> QED
  BY <1>7 DEF Kept

\* Said again, the update finds its own entry and puts it back.
LEMMA LeftAgain ==
  ASSUME NEW file \in Seq(ConfigLines), NEW host \in Seq(STRING), NEW user \in STRING, Tidy(file),
         NEW g, g = ReplaceOrAppendHostBlock(file, host, user)
  PROVE  Left(g, host) = Left(file, host)
<1> DEFINE t == Left(file, host)
           p == EntryPlace(file, host)
           kept == Kept(g, host)
           u == Left(g, host)
           L == Len(t)
<1>1. Extended(g, t, p, host, user)
  BY Zenon, UpdatedIs
<1>2. \A n \in DOMAIN g : EntryAt(g, host, n) <=> n = p
  BY Zenon, OneEntry
<1>3. t \in Seq(ConfigLines) /\ (Len(t) # 0 => t[Len(t)].kind # "blank")
  <2>1. Kept(file, host) \in Seq(ConfigLines)
    BY KeptIsFile
  <2> QED
    BY <2>1, TrimmedIs DEF Left
<1>4. u = TrimBlanks(kept)
  BY DEF Left
<1> HIDE DEF t, p, u
<1>5. EntryEnd(g, p) = p + 3
  BY <1>1, EntryToTheEnd
<1>6. /\ L \in Nat /\ p \in Nat /\ p = (IF L = 0 THEN 1 ELSE L + 2) /\ Len(g) = p + 3
      /\ g \in Seq(ConfigLines) /\ (\A i \in 1..L : g[i] = t[i])
      /\ (L # 0 => g[L + 1] = Blank)
  BY <1>1 DEF Extended
<1>7. p \in 1..Len(g) /\ \A n \in 1..Len(g) : EntryAt(g, host, n) <=> n = p
  <2>1. DOMAIN g = 1..Len(g)
    BY Zenon, <1>6, PlacesOf
  <2>2. p \in 1..Len(g)
    BY <1>6
  <2> QED
    BY Zenon, <1>2, <2>1, <2>2
<1>8. TailOf(g, p, p - 1, kept)
  BY <1>5, <1>6, <1>7, KeptInFront
<1> HIDE DEF kept
<1>9. kept \in Seq(ConfigLines) /\ Len(kept) = p - 1 /\ \A i \in 1..(p - 1) : kept[i] = g[i]
  <2>1. \A i \in 1..(p - 1) : p - 1 - (p - 1) + i = i
    BY <1>6
  <2> QED
    BY <1>8, <2>1 DEF TailOf
<1>10. /\ u \in Seq(ConfigLines) /\ Len(u) \in 0..Len(kept)
       /\ \A i \in 1..Len(u) : u[i] = kept[i]
       /\ \A i \in (Len(u) + 1)..Len(kept) : kept[i].kind = "blank"
       /\ Len(u) # 0 => u[Len(u)].kind # "blank"
  <2>1. kept \in Seq(ConfigLines)
    BY <1>9
  <2> HIDE DEF L
  <2> QED
    BY <1>4, <2>1, TrimmedIs
<1>11. Len(u) = L
  <2>1. CASE L = 0
    BY <1>6, <1>9, <1>10, <2>1
  <2>2. CASE L # 0
    <3>1. Len(kept) = L + 1 /\ L \in 1..(p - 1) /\ L + 1 \in 1..(p - 1)
      BY <1>6, <1>9, <2>2
    <3>2. kept[L].kind # "blank"
      <4>1. kept[L] = t[L] /\ t[L].kind # "blank"
        <5>1. L \in 1..L
          BY <1>6, <2>2
        <5> QED
          BY Zenon, <1>3, <1>6, <1>9, <2>2, <3>1, <5>1
      <4> QED
        BY <4>1
    <3>3. kept[L + 1].kind = "blank"
      <4>1. kept[L + 1] = Blank
        BY Zenon, <1>6, <1>9, <2>2, <3>1
      <4>2. Blank.kind = "blank"
        BY DEF Blank, Line
      <4> QED
        BY <4>1, <4>2
    <3>4. ~(Len(u) < L)
      BY <1>6, <1>10, <3>1, <3>2
    <3>5. Len(u) # L + 1
      BY <1>6, <1>10, <3>1, <3>3
    <3> QED
      BY <1>6, <1>10, <3>1, <3>4, <3>5
  <2> QED
    BY <2>1, <2>2
<1>12. \A i \in 1..L : u[i] = t[i]
  BY <1>6, <1>9, <1>10, <1>11
<1>13. Len(t) = L
  OBVIOUS
<1> HIDE DEF L
<1>14. u = t
  <2>1. DOMAIN u = 1..L /\ DOMAIN t = 1..L /\ u = [i \in 1..L |-> u[i]] /\ t = [i \in 1..L |-> t[i]]
    BY <1>3, <1>10, <1>11, <1>13
  <2> QED
    BY <1>12, <2>1
<1> QED
  BY <1>14 DEF u, t

LEMMA UpdateAgain ==
  ASSUME NEW file \in Seq(ConfigLines), NEW host \in Seq(STRING), NEW user \in STRING, Tidy(file)
  PROVE  ReplaceOrAppendHostBlock(ReplaceOrAppendHostBlock(file, host, user), host, user)
           = ReplaceOrAppendHostBlock(file, host, user)
<1> DEFINE g == ReplaceOrAppendHostBlock(file, host, user)
<1>1. Left(g, host) = Left(file, host)
  BY LeftAgain
<1> HIDE DEF g
<1>2. \A f : ReplaceOrAppendHostBlock(f, host, user) =
               (IF Left(f, host) = <<>> THEN <<>> ELSE Append(Left(f, host), Blank))
                 \o Entry(host, user)
  BY Zenon DEF ReplaceOrAppendHostBlock, Left
<1>3. ReplaceOrAppendHostBlock(g, host, user) = ReplaceOrAppendHostBlock(file, host, user)
  BY Zenon, <1>1, <1>2
<1> QED
  BY Zenon, <1>3 DEF g

\* What UpsertKeepsOthers claims of one step.
UpsertKeeps(file, g, host, user) ==
  /\ \A o \in {c \in Range(Chars) : ~Denotes(host, c)} : \A k \in Keywords :
       FirstValue(g, o, k) = FirstValue(file, o, k)
  /\ Cardinality({n \in DOMAIN g : EntryAt(g, host, n)}) = 1
  /\ ReplaceOrAppendHostBlock(g, host, user) = g

LEMMA UpsertIsGood ==
  ASSUME NEW file \in Seq(ConfigLines), NEW host \in Seq(STRING), NEW user \in STRING, Tidy(file),
         NEW g, g = ReplaceOrAppendHostBlock(file, host, user)
  PROVE  UpsertKeeps(file, g, host, user)
<1>1. ASSUME NEW o, ~Denotes(host, o), NEW k \in Keywords
      PROVE  FirstValue(g, o, k) = FirstValue(file, o, k)
  <2>1. SameFor(file, g, o, k)
    BY Zenon, <1>1, OthersKeep
  <2> QED
    BY <2>1 DEF SameFor
<1>2. \A n \in DOMAIN g : EntryAt(g, host, n) <=> n = EntryPlace(file, host)
  BY Zenon, OneEntry
<1>3. EntryPlace(file, host) \in DOMAIN g
  <2> DEFINE t == Left(file, host)
             p == EntryPlace(file, host)
  <2>1. Extended(g, t, p, host, user)
    BY Zenon, UpdatedIs
  <2> HIDE DEF t, p
  <2>2. p \in Nat /\ p >= 1 /\ Len(g) = p + 3 /\ g \in Seq(ConfigLines)
    BY Zenon, <2>1 DEF Extended
  <2>3. DOMAIN g = 1..Len(g)
    BY Zenon, <2>2, PlacesOf
  <2> QED
    BY <2>2, <2>3 DEF p
<1>4. {n \in DOMAIN g : EntryAt(g, host, n)} = {EntryPlace(file, host)}
  BY Zenon, <1>2, <1>3
<1>5. Cardinality({n \in DOMAIN g : EntryAt(g, host, n)}) = 1
  BY Zenon, <1>4, OneAlias
<1>6. ReplaceOrAppendHostBlock(g, host, user) = g
  BY Zenon, UpdateAgain
<1> QED
  BY Zenon, <1>1, <1>5, <1>6 DEF UpsertKeeps

---------------------------------------------------------------------------
(* The updates one after the other.  The inductive invariant says of the     *)
(* file what UpsertKeepsOthers says, and of the file an update has read that  *)
(* it was tidy and said the same: UpsertIsGood then speaks of one update, and *)
(* what a host is told is equal along all of them.                           *)

SaysTheSame(file, g, hosts) ==
  \A o \in {c \in Range(Chars) : \A h \in hosts : ~Denotes(h, c)} : \A k \in Keywords :
    FirstValue(g, o, k) = FirstValue(file, o, k)
HoldsOnce(g, host, user) ==
  /\ Cardinality({n \in DOMAIN g : EntryAt(g, host, n)}) = 1
  /\ ReplaceOrAppendHostBlock(g, host, user) = g
Promised(g) ==
  /\ SaysTheSame(since.file, g, since.hosts)
  /\ since.hosts # {} => HoldsOnce(g, since.last[1], since.last[2])
UpdateInv ==
  /\ UpdateTypes
  /\ since.sound =>
       /\ update = NoUpdate => Promised(home)
       /\ update # NoUpdate => Tidy(update.was) /\ Promised(update.was)
       /\ update.at = "read" => home = update.was

\* Adding one host more to those that have been added.
LEMMA OneMoreHost ==
  ASSUME NEW file, NEW g, NEW w, NEW hosts, NEW host, NEW user,
         SaysTheSame(file, w, hosts), UpsertKeeps(w, g, host, user)
  PROVE  SaysTheSame(file, g, hosts \union {host}) /\ HoldsOnce(g, host, user)
<1>1. HoldsOnce(g, host, user)
  BY Zenon DEF UpsertKeeps, HoldsOnce
<1>2. ASSUME NEW o \in Range(Chars), \A h \in hosts \union {host} : ~Denotes(h, o),
             NEW k \in Keywords
      PROVE  FirstValue(g, o, k) = FirstValue(file, o, k)
  <2>1. ~Denotes(host, o) /\ \A h \in hosts : ~Denotes(h, o)
    BY Zenon, <1>2
  <2>2. FirstValue(g, o, k) = FirstValue(w, o, k)
    BY Zenon, <1>2, <2>1 DEF UpsertKeeps
  <2>3. FirstValue(w, o, k) = FirstValue(file, o, k)
    BY Zenon, <1>2, <2>1 DEF SaysTheSame
  <2> QED
    BY Zenon, <2>2, <2>3
<1>3. SaysTheSame(file, g, hosts \union {host})
  BY Zenon, <1>2 DEF SaysTheSame
<1> QED
  BY Zenon, <1>1, <1>3

LEMMA ReadKeeps ==
  ASSUME UpdateInv, NEW h \in Proxied, NEW u \in ProxyUsers, ReadsConfig(h, u)
  PROVE  UpdateInv'
<1>1. UpdateTypes'
  <2>1. ConfigChanges
    BY DEF ConfigChanges
  <2> QED
    BY <2>1, ChangesAreTyped DEF UpdateInv
<1>2. /\ update = NoUpdate /\ update'.was = home /\ update'.at = "read" /\ home' = home
      /\ update' # NoUpdate
  BY DEF ReadsConfig, NoUpdate
<1>3. /\ since' = [since EXCEPT !.sound = @ /\ Tidy(home)] /\ since \in Histories
  BY DEF ReadsConfig, UpdateInv, UpdateTypes
<1>4. /\ since'.file = since.file /\ since'.hosts = since.hosts /\ since'.last = since.last
      /\ since'.sound = (since.sound /\ Tidy(home))
  BY <1>3 DEF Histories
<1>5. since.sound => Promised(home)
  BY Zenon, <1>2 DEF UpdateInv
<1>6. since'.sound => (Promised(home))'
  BY Zenon, <1>2, <1>4, <1>5 DEF Promised
<1>7. (Promised(home))' => (Promised(update.was))'
  BY Zenon, <1>2 DEF Promised
<1>8. since'.sound => Tidy(update'.was)
  BY Zenon, <1>2, <1>4
<1> QED
  BY Zenon, <1>1, <1>2, <1>6, <1>7, <1>8 DEF UpdateInv

LEMMA TruncateKeeps == UpdateInv /\ Truncates => UpdateInv'
<1> SUFFICES ASSUME UpdateInv, Truncates PROVE UpdateInv'
  OBVIOUS
<1>1. UpdateTypes'
  <2>1. ConfigChanges
    BY DEF ConfigChanges
  <2> QED
    BY <2>1, ChangesAreTyped DEF UpdateInv
<1>2. update \in Updates /\ update.at = "read" /\ update # NoUpdate
  BY DEF Truncates, UpdateInv, UpdateTypes, NoUpdate
<1>3. /\ update'.was = update.was /\ update'.at = "truncated" /\ update'.at # "read"
      /\ update' # NoUpdate /\ since' = since
  BY <1>2 DEF Truncates, Updates, NoUpdate
<1>4. since.sound => Tidy(update.was) /\ Promised(update.was)
  BY Zenon, <1>2 DEF UpdateInv
<1>5. since'.sound => Tidy(update'.was) /\ (Promised(update.was))'
  BY Zenon, <1>3, <1>4 DEF Promised
<1> QED
  BY Zenon, <1>1, <1>3, <1>5 DEF UpdateInv

LEMMA WriteKeeps == UpdateInv /\ WriteCompletes => UpdateInv'
<1> SUFFICES ASSUME UpdateInv, WriteCompletes PROVE UpdateInv'
  OBVIOUS
<1> DEFINE w == update.was
           host == update.host
           user == update.user
<1>1. UpdateTypes'
  <2>1. ConfigChanges
    BY DEF ConfigChanges
  <2> QED
    BY <2>1, ChangesAreTyped DEF UpdateInv
<1>2. update \in Updates /\ update # NoUpdate /\ since \in Histories
  BY DEF WriteCompletes, UpdateInv, UpdateTypes, NoUpdate
<1>3. w \in Seq(ConfigLines) /\ host \in Seq(STRING) /\ user \in STRING
  BY <1>2 DEF Updates
<1>4. /\ update' = NoUpdate /\ update'.at # "read"
      /\ home' = ReplaceOrAppendHostBlock(w, host, user)
  BY DEF WriteCompletes, Rewritten, NoUpdate
<1>5. /\ since'.file = since.file /\ since'.hosts = since.hosts \union {host}
      /\ since'.last[1] = host /\ since'.last[2] = user /\ since'.sound = since.sound
  BY <1>2 DEF WriteCompletes, Histories
<1>6. since.sound => Tidy(w) /\ Promised(w)
  BY Zenon, <1>2 DEF UpdateInv
<1> HIDE DEF w, host, user
<1>7. ASSUME since.sound PROVE (Promised(home))'
  <2>1. UpsertKeeps(w, home', host, user)
    BY Zenon, <1>3, <1>4, <1>6, <1>7, UpsertIsGood
  <2>2. SaysTheSame(since.file, w, since.hosts)
    BY Zenon, <1>6, <1>7 DEF Promised
  <2>3. SaysTheSame(since.file, home', since.hosts \union {host}) /\ HoldsOnce(home', host, user)
    BY Zenon, <2>1, <2>2, OneMoreHost
  <2> QED
    BY Zenon, <1>5, <2>3 DEF Promised
<1> QED
  BY Zenon, <1>1, <1>4, <1>5, <1>7 DEF UpdateInv

LEMMA BreakKeeps == UpdateInv /\ BreaksOff => UpdateInv'
<1> SUFFICES ASSUME UpdateInv, BreaksOff PROVE UpdateInv'
  OBVIOUS
<1>1. UpdateTypes'
  <2>1. ConfigChanges
    BY DEF ConfigChanges
  <2> QED
    BY <2>1, ChangesAreTyped DEF UpdateInv
<1>2. update # NoUpdate /\ update' = NoUpdate /\ update'.at # "read"
  BY DEF BreaksOff, NoUpdate
<1>3. CASE update.at = "read" /\ UNCHANGED <<home, since>>
  <2>1. since.sound => Promised(update.was) /\ home = update.was
    BY Zenon, <1>2, <1>3 DEF UpdateInv
  <2>2. since.sound => Promised(home)
    BY Zenon, <2>1 DEF Promised
  <2>3. since' = since /\ home' = home
    BY <1>3
  <2>4. since'.sound => (Promised(home))'
    BY Zenon, <2>2, <2>3 DEF Promised
  <2> QED
    BY Zenon, <1>1, <1>2, <2>4 DEF UpdateInv
<1>4. CASE since' = [since EXCEPT !.sound = FALSE]
  <2>1. since'.sound = FALSE
    BY <1>4 DEF UpdateInv, UpdateTypes, Histories
  <2> QED
    BY Zenon, <1>1, <2>1 DEF UpdateInv
<1> QED
  BY <1>3, <1>4 DEF BreaksOff

LEMMA NothingAdded == ASSUME NEW f PROVE SaysTheSame(f, f, {})
BY DEF SaysTheSame

LEMMA EditKeeps ==
  ASSUME UpdateInv, NEW f \in Edits, UserEdits(f)
  PROVE  UpdateInv'
<1>1. UpdateTypes'
  <2>1. ConfigChanges
    BY DEF ConfigChanges
  <2> QED
    BY <2>1, ChangesAreTyped DEF UpdateInv
<1>2. /\ home' = f /\ update' = update /\ since'.file = f /\ since'.hosts = {}
      /\ since'.sound = (update = NoUpdate)
  BY DEF UserEdits, Edited
<1>3. (Promised(home))'
  <2>1. SaysTheSame(f, f, {})
    BY NothingAdded
  <2> QED
    BY Zenon, <1>2, <2>1 DEF Promised
<1>4. update = NoUpdate => update'.at # "read"
  BY <1>2 DEF NoUpdate
<1> QED
  BY Zenon, <1>1, <1>2, <1>3, <1>4 DEF UpdateInv

LEMMA StepKeepsUpdates == UpdateInv /\ [Next]_vars => UpdateInv'
<1> SUFFICES ASSUME UpdateInv, [Next]_vars PROVE UpdateInv'
  OBVIOUS
<1>1. CASE ConfigChanges
  BY <1>1, ReadKeeps, TruncateKeeps, WriteKeeps, BreakKeeps, EditKeeps DEF ConfigChanges
<1>2. CASE UNCHANGED fileVars
  <2>1. home' = home /\ update' = update /\ since' = since
    BY <1>2 DEF fileVars
  <2>2. UpdateTypes'
    BY <2>1 DEF UpdateInv, UpdateTypes
  <2>3. /\ Promised(home) => (Promised(home))'
        /\ Promised(update.was) => (Promised(update.was))'
    BY Zenon, <2>1 DEF Promised
  <2> QED
    BY Zenon, <2>1, <2>2, <2>3 DEF UpdateInv
<1> QED
  BY <1>1, <1>2, FileStays

LEMMA UpdatesBegin == Init => UpdateInv
<1> SUFFICES ASSUME Init PROVE UpdateInv
  OBVIOUS
<1>1. /\ update = NoUpdate
      /\ since = [file |-> home, hosts |-> {}, last |-> <<>>, sound |-> TRUE]
  BY DEF Init, Edited
<1>6. update.at # "read"
  BY <1>1 DEF NoUpdate
<1>2. UpdateTypes
  BY OptionsBegin DEF OptionsInv
<1>3. since.file = home /\ since.hosts = {}
  BY <1>1
<1>4. SaysTheSame(home, home, {})
  BY NothingAdded
<1>5. Promised(home)
  BY Zenon, <1>3, <1>4 DEF Promised
<1> QED
  BY Zenon, <1>1, <1>2, <1>5, <1>6 DEF UpdateInv

\* ssm_ssh_add_proxy_command.go: however often add-proxy-command has been used, an
\* edited file still says what it said to every host that no Host line added since
\* takes, the host added last has one entry, and adding it again changes nothing;
\* unless the file was not tidy, a write broke off, or an edit came in between.
THEOREM UpdatesKeepOthers == Spec => []UpsertKeepsOthers
<1>1. Init => UpdateInv
  BY UpdatesBegin
<1>2. UpdateInv /\ [Next]_vars => UpdateInv'
  BY StepKeepsUpdates
<1>3. UpdateInv => UpsertKeepsOthers
  BY Zenon DEF UpdateInv, Promised, SaysTheSame, HoldsOnce, UpsertKeepsOthers
<1> QED
  BY <1>1, <1>2, <1>3, PTL DEF Spec
=============================================================================
