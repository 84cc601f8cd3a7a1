-------------------------- MODULE TargetResolution --------------------------
(***************************************************************************)
(* ResolveTargetChain (ssmclient/target_resolver.go): the resolvers asked   *)
(* one after the other, each a call to EC2 or to the name service that may  *)
(* fail, while instances start and stop.  What a name can mean is a record  *)
(*   id       it looks like an instance ID                                 *)
(*   alias    the instances with the alias's tag, or None: no such alias    *)
(*   tag      the instances with the tag, or None: not of the form key:value *)
(*   public,  the instances at its public and at its private IPv4 addresses,*)
(*   private  or None: no such address                                     *)
(*   txt      its TXT records: instance IDs and Junk                        *)
(***************************************************************************)
EXTENDS Integers, Sequences, FiniteSets, SequencesExt, FiniteSetsExt

CONSTANTS
  Instances,
  NoName,      \* None of the name records, "no such thing"
  Junk,        \* a TXT record that is not an instance ID
  MaxFaults    \* bound on the calls that fail and on the instances that change

Meanings ==
  LET Filters == {NoName} \union SUBSET Instances
  IN  [id : BOOLEAN, alias : Filters, tag : Filters, public : Filters, private : Filters,
       txt : Seq(Instances \union {Junk})]

ASSUME ResolutionAssumption ==
  /\ IsFiniteSet(Instances)
  /\ Junk \notin Instances \union {"id"}

VARIABLES
  meaning,   \* what the name being resolved means
  running,   \* the running instances
  asking,    \* "idle", "id", "alias", "tag", "ip", "dns", "found", "ambiguous", "none"
  found,     \* the instance the chain returned
  began,     \* the instances that ran when the chain was entered
  faults     \* calls that failed, instances that started or stopped since then

resVars == <<meaning, running, asking, found, began, faults>>

Order == <<"id", "alias", "tag", "ip", "dns", "none">>
After(r) == Order[(CHOOSE n \in DOMAIN Order : Order[n] = r) + 1]

Resolve(m) ==
  /\ asking = "idle"
  /\ meaning' = m /\ asking' = "id" /\ found' = NoName
  /\ began' = running /\ faults' = 0 /\ UNCHANGED running

Answer(x) == asking' = "found" /\ found' = x
Pass == asking' = After(asking) /\ UNCHANGED found
Still == UNCHANGED <<meaning, running, began, faults>>

IsInstanceId ==
  /\ asking = "id" /\ Still
  /\ IF meaning.id THEN Answer("id") ELSE Pass

-----------------------------------------------------------------------------
(* DescribeInstances, with "running" added to the filter.                  *)
Matching(filter) == filter \intersect running

\* Bug: an alias of several instances takes one of them.
ResolvesLoosely(filter, strict) ==
  IF Matching(filter) = {} THEN Pass ELSE \E x \in Matching(filter) : Answer(x)

\* The reservations come in no order: the first instance is any of them.
Resolves(filter, strict) ==
  CASE Matching(filter) = {} -> Pass
    [] strict /\ Cardinality(Matching(filter)) > 1 -> asking' = "ambiguous" /\ UNCHANGED found
    [] OTHER -> \E x \in Matching(filter) : Answer(x)

\* The addresses that are looked up: the public ones, if the name has any.
IPFilter == IF meaning.public # NoName THEN meaning.public ELSE meaning.private
FilterOf(r) ==
  CASE r = "alias" -> meaning.alias
    [] r = "tag" -> meaning.tag
    [] r = "ip" -> IPFilter

AskEC2 ==
  /\ asking \in {"alias", "tag", "ip"} /\ Still
  /\ IF FilterOf(asking) = NoName THEN Pass
     ELSE Resolves(FilterOf(asking), asking = "alias")
\* The call fails, or the lookup of the name's addresses or TXT records does.
CallFails ==
  /\ \/ asking \in {"alias", "tag", "ip"} /\ FilterOf(asking) # NoName
     \/ asking = "dns"
  /\ faults < MaxFaults
  /\ Pass /\ faults' = faults + 1 /\ UNCHANGED <<meaning, running, began>>

\* The first of the records that holds an instance ID.
AskDNS ==
  /\ asking = "dns" /\ Still
  /\ LET ids == {n \in DOMAIN meaning.txt : meaning.txt[n] # Junk}
     IN  IF ids = {} THEN Pass ELSE Answer(meaning.txt[Min(ids)])

InstanceChanges ==
  /\ asking \notin {"idle", "found", "ambiguous", "none"} /\ faults < MaxFaults
  /\ \E x \in Instances :
       running' = IF x \in running THEN running \ {x} ELSE running \union {x}
  /\ faults' = faults + 1
  /\ UNCHANGED <<meaning, asking, found, began>>

ResolveStep == IsInstanceId \/ AskEC2 \/ CallFails \/ AskDNS \/ InstanceChanges

-----------------------------------------------------------------------------
(* What the name stands for when nothing fails and nothing changes: the     *)
(* instance itself, or what the first of these can answer.                  *)
Running(f) == IF f = NoName THEN {} ELSE f \intersect began
Alias == Running(meaning.alias)
Tagged == Running(meaning.tag)
AtAddress == IF meaning.public = NoName THEN Running(meaning.private) ELSE Running(meaning.public)
Recorded == {x \in Instances : \E n \in DOMAIN meaning.txt :
               /\ meaning.txt[n] = x
               /\ \A m \in 1..(n - 1) : meaning.txt[m] = Junk}
Expected ==
  CASE meaning.id -> {"id"}
    [] ~meaning.id /\ Alias # {} -> IF Cardinality(Alias) = 1 THEN Alias ELSE {}
    [] ~meaning.id /\ Alias = {} /\ Tagged # {} -> Tagged
    [] ~meaning.id /\ Alias = {} /\ Tagged = {} /\ AtAddress # {} -> AtAddress
    [] OTHER -> Recorded
\* What any resolver could have answered at any time.
Conceivable ==
  (UNION ({meaning.alias, meaning.tag, meaning.public, meaning.private} \ {NoName}))
    \union Range(meaning.txt) \union {"id"}

\* A name is resolved by the first resolver that knows it, an alias never to one
\* of several instances; with a call that fails or an instance that changes in
\* between the answer is still one the name has, and no name is called ambiguous
\* that is no alias.
ResolvedInOrder ==
  /\ asking = "found" =>
       found \in IF faults = 0 THEN Expected ELSE Conceivable \ {Junk}
  /\ asking = "none" /\ faults = 0 => Expected = {}
  /\ asking = "ambiguous" => /\ meaning.alias # NoName
                             /\ Cardinality(meaning.alias) > 1
=============================================================================
