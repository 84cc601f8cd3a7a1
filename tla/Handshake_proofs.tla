-------------------------- MODULE Handshake_proofs --------------------------
(***************************************************************************)
(* Theorems about Handshake for every value of its constants.  That        *)
(* outputs are thrown away only before HandshakeComplete needs no          *)
(* assumption.  That handshakeCh is closed once, that both sides read each *)
(* other, and that the reader goes on, are proved for the sessions that    *)
(* wait for the handshake (~Shell).                                        *)
(***************************************************************************)
EXTENDS Handshake, SequenceTheorems, TLAPS

---------------------------------------------------------------------------
\* The queue of the client's messages.

SlotSet == [kind : {"response", "challenge", "data", "lost"},
            by : Writers \union {"reader"}, key : Generations, sent : BOOLEAN]
Queued == Range(out)

LEMMA SendsQueues ==
  ASSUME out \in Seq(SlotSet), NEW s \in SlotSet, Sends(s)
  PROVE  out' \in Seq(SlotSet) /\ Queued' = Queued \union {s}
<1>1. out' = Append(out, s)
  BY DEF Sends
<1>2. /\ Append(out, s) \in Seq(SlotSet) /\ Len(Append(out, s)) = Len(out) + 1
      /\ Len(out) \in Nat
      /\ \A j \in 1..Len(out) : Append(out, s)[j] = out[j]
      /\ Append(out, s)[Len(out) + 1] = s
  OBVIOUS
<1>3. DOMAIN Append(out, s) = 1..(Len(out) + 1) /\ DOMAIN out = 1..Len(out)
  BY <1>2
<1>4. 1..(Len(out) + 1) = 1..Len(out) \union {Len(out) + 1}
  BY <1>2
<1> HIDE <1>2
<1> QED
  BY <1>1, <1>2, <1>3, <1>4 DEF Queued, Range

\* Fill writes the messages of one goroutine that are not written yet.
LEMMA FillQueues ==
  ASSUME out \in Seq(SlotSet), NEW by, NEW key \in Generations, Fill(by, key)
  PROVE  /\ out' \in Seq(SlotSet)
         /\ \A s \in Queued' :
              \/ s \in Queued
              \/ /\ s.by = by /\ s.key = key /\ s.sent
                 /\ \E r \in Queued : r.kind = s.kind /\ r.by = by
<1>1. /\ DOMAIN out = 1..Len(out) /\ Len(out) \in Nat
      /\ \A i \in 1..Len(out) : out[i] \in SlotSet
  OBVIOUS
<1> DEFINE Filled(r) == [r EXCEPT !.key = key, !.sent = TRUE]
           new(i) == IF out[i].by = by /\ ~out[i].sent THEN Filled(out[i]) ELSE out[i]
<1>2. out' = [i \in 1..Len(out) |-> new(i)]
  BY <1>1 DEF Fill
<1>3. ASSUME NEW r \in SlotSet
      PROVE  /\ Filled(r) \in SlotSet
             /\ Filled(r).by = r.by /\ Filled(r).kind = r.kind
             /\ Filled(r).key = key /\ Filled(r).sent
  BY DEF SlotSet
<1> HIDE DEF Filled
<1>4. \A i \in 1..Len(out) : new(i) \in SlotSet
  BY <1>1, <1>3
<1>5. out' \in Seq(SlotSet) /\ DOMAIN out' = 1..Len(out)
  BY <1>1, <1>2, <1>4
<1>6. ASSUME NEW i \in 1..Len(out)
      PROVE  \/ new(i) \in Queued
             \/ /\ new(i).by = by /\ new(i).key = key /\ new(i).sent
                /\ \E r \in Queued : r.kind = new(i).kind /\ r.by = by
  <2>1. out[i] \in Queued /\ out[i] \in SlotSet
    BY <1>1 DEF Queued, Range
  <2>2. CASE out[i].by = by /\ ~out[i].sent
    BY <2>1, <2>2, <1>3
  <2>3. CASE ~(out[i].by = by /\ ~out[i].sent)
    BY <2>1, <2>3
  <2> QED
    BY <2>2, <2>3
<1>7. ASSUME NEW s \in Queued' PROVE \E i \in 1..Len(out) : s = new(i)
  <2>1. PICK i \in DOMAIN out' : s = out'[i]
    BY DEF Queued, Range
  <2> HIDE DEF new
  <2> QED
    BY <2>1, <1>2, <1>5
<1> HIDE DEF new
<1> QED
  BY <1>5, <1>6, <1>7

\* The agent takes the first message.
LEMMA TailQueues ==
  ASSUME out \in Seq(SlotSet), out # <<>>, out' = Tail(out)
  PROVE  /\ out' \in Seq(SlotSet) /\ Queued' \subseteq Queued
         /\ Head(out) \in Queued /\ Head(out) \in SlotSet
<1>1. /\ Tail(out) \in Seq(SlotSet) /\ Len(Tail(out)) = Len(out) - 1
      /\ Len(out) \in Nat \ {0}
      /\ \A j \in 1..(Len(out) - 1) : Tail(out)[j] = out[j + 1]
      /\ Head(out) = out[1] /\ out[1] \in SlotSet
  OBVIOUS
<1>2. DOMAIN Tail(out) = 1..(Len(out) - 1) /\ DOMAIN out = 1..Len(out)
  BY <1>1
<1> HIDE <1>1
<1> QED
  BY <1>1, <1>2 DEF Queued, Range

\* A response that is lost leaves its place.
LEMMA LostQueues ==
  ASSUME out \in Seq(SlotSet), ResponseLost
  PROVE  /\ out' \in Seq(SlotSet)
         /\ \A s \in Queued' :
              \/ s \in Queued
              \/ /\ s.kind = "lost"
                 /\ \E r \in Queued : r.kind = "response" /\ r.by = s.by /\ r.key = s.key
<1>1. /\ out # <<>> /\ Head(out).kind = "response"
      /\ out' = [out EXCEPT ![1].kind = "lost"]
  BY DEF ResponseLost
<1>2. /\ DOMAIN out = 1..Len(out) /\ Len(out) \in Nat \ {0}
      /\ \A i \in 1..Len(out) : out[i] \in SlotSet
      /\ Head(out) = out[1] /\ 1 \in 1..Len(out)
  BY <1>1
<1> DEFINE lost == [out[1] EXCEPT !.kind = "lost"]
<1>3. /\ lost \in SlotSet /\ lost.kind = "lost"
      /\ lost.by = out[1].by /\ lost.key = out[1].key
  BY <1>2 DEF SlotSet
<1>4. out' = [out EXCEPT ![1] = lost]
  BY <1>1
<1> HIDE DEF lost
<1>5. /\ out' \in Seq(SlotSet) /\ DOMAIN out' = 1..Len(out) /\ out'[1] = lost
      /\ \A i \in 1..Len(out) : i # 1 => out'[i] = out[i]
  BY <1>2, <1>3, <1>4
<1>6. out[1] \in Queued
  BY <1>2 DEF Queued, Range
<1> QED
  BY <1>1, <1>2, <1>3, <1>5, <1>6 DEF Queued, Range

---------------------------------------------------------------------------
\* The agent's frames.

LEMMA FrameFacts ==
  /\ Request \in Frames /\ Request.type = "request"
  /\ Complete \in Frames /\ Complete.type = "complete"
  /\ \A k \in Generations :
       Challenge(k) \in Frames /\ Challenge(k).type = "challenge" /\ Challenge(k).key = k
  /\ \A n \in 1..MaxOutputs, k \in Generations :
       /\ Output(n, k) \in Frames /\ Output(n, k).type = "output"
       /\ Output(n, k).n = n /\ Output(n, k).key = k
<1>1. /\ Request \in Frames /\ Request.type = "request"
      /\ Complete \in Frames /\ Complete.type = "complete"
  BY DEF Frames, Request, Complete
<1>2. ASSUME NEW k \in Generations
      PROVE  Challenge(k) \in Frames /\ Challenge(k).type = "challenge" /\ Challenge(k).key = k
  BY DEF Frames, Challenge
<1>3. ASSUME NEW n \in 1..MaxOutputs, NEW k \in Generations
      PROVE  /\ Output(n, k) \in Frames /\ Output(n, k).type = "output"
             /\ Output(n, k).n = n /\ Output(n, k).key = k
  <2>1. Output(n, k) \in {Output(i, j) : i \in 1..MaxOutputs, j \in Generations}
    OBVIOUS
  <2>2. Output(n, k) \in Frames
    BY <2>1 DEF Frames
  <2> QED
    BY <2>2 DEF Output
<1> QED
  BY <1>1, <1>2, <1>3

LEMMA FrameKinds ==
  \A f \in Frames :
    /\ f.key \in Generations
    /\ f.type \in {"request", "complete", "challenge", "output"}
    /\ f.type = "output" => f.n \in 1..MaxOutputs
<1> SUFFICES ASSUME NEW f \in Frames
             PROVE  /\ f.key \in Generations
                    /\ f.type \in {"request", "complete", "challenge", "output"}
                    /\ f.type = "output" => f.n \in 1..MaxOutputs
  OBVIOUS
<1>1. 0 \in Generations
  BY HandshakeAssumption DEF Generations
<1>2. CASE f \in {Request, Complete}
  BY <1>1, <1>2 DEF Request, Complete
<1>3. CASE \E k \in Generations : f = Challenge(k)
  BY <1>3 DEF Challenge
<1>4. CASE \E n \in 1..MaxOutputs, k \in Generations : f = Output(n, k)
  BY <1>4 DEF Output
<1> QED
  BY <1>2, <1>3, <1>4 DEF Frames

---------------------------------------------------------------------------
\* What every session keeps, shells included.

\* The loop of the wait keeps handshakeCh until it is left, and handles a frame only
\* while it is open; the outputs under way are some the agent has sent.
Waiting ==
  phase = "wait" =>
    /\ reader = "select" => handshakeCh # "nil"
    /\ reader \in {"read", "answer", "enable"} => handshakeCh = "open"
OutputsSent == \A f \in net \union unacked : f.type = "output" => f.n <= sentOutputs
Outputs == TypeOK /\ Waiting /\ OutputsSent /\ OutputKept

---------------------------------------------------------------------------
\* Types, the outputs, and what every session keeps.

QueueOK == out \in Seq(SlotSet)
NetOK == net \subseteq Frames /\ unacked \subseteq Frames
KeysOK == keys \in Generations /\ agentKey \in Generations
StateOK ==
  /\ kms \in BOOLEAN /\ ctxDone \in BOOLEAN /\ encryptionEnabled \in BOOLEAN
  /\ panicked \in BOOLEAN
  /\ channel \in {"up", "down"}
  /\ phase \in {"wait", "relay"}
  /\ reader \in {"select", "read", "answer", "enable", "exited"}
  /\ handshakeCh \in {"open", "closed", "nil"}
  /\ agent \in {"start", "asked", "challenging", "done"}
  /\ reader = "select" => phase = "wait"
WritersOK == writing \subseteq Writers /\ writes \in [Writers -> 0..MaxWrites]
OutputsOK ==
  /\ sentOutputs \in 0..MaxOutputs
  /\ delivered \subseteq seen /\ early \subseteq seen /\ seen \subseteq 1..sentOutputs

LEMMA TypeParts ==
  /\ TypeOK <=> QueueOK /\ NetOK /\ KeysOK /\ StateOK /\ WritersOK /\ OutputsOK
  /\ TypeOK' <=> QueueOK' /\ NetOK' /\ KeysOK' /\ StateOK' /\ WritersOK' /\ OutputsOK'
BY DEF TypeOK, QueueOK, NetOK, KeysOK, StateOK, WritersOK, OutputsOK, SlotSet

LEMMA InitOutputs == Init => Outputs
<1> SUFFICES ASSUME Init PROVE Outputs
  OBVIOUS
<1> USE DEF Init
<1>1. QueueOK
  BY DEF QueueOK
<1>2. KeysOK
  BY HandshakeAssumption DEF KeysOK, Generations
<1>3. StateOK /\ NetOK
  BY HandshakeAssumption DEF StateOK, NetOK
<1>4. WritersOK /\ OutputsOK
  BY HandshakeAssumption DEF WritersOK, OutputsOK
<1>5. Waiting /\ OutputsSent /\ OutputKept
  BY DEF Waiting, OutputsSent, OutputKept
<1> QED
  BY <1>1, <1>2, <1>3, <1>4, <1>5, TypeParts DEF Outputs

\* Where a frame that has been handled leaves the reader.
LEMMA FinishEffect ==
  ASSUME StateOK, NEW f, Finish(f)
  PROVE  /\ unacked' \subseteq unacked
         /\ \/ reader' = Again /\ channel' = channel
            \/ reader' = "exited" /\ channel' = "down"
BY DEF Finish, Acknowledge

LEMMA LoopKeepsOutputs ==
  ASSUME Outputs,
         SelectReads \/ SelectDone \/ SelectCancelled \/ ReaderSeesEnd
  PROVE  Outputs'
<1> USE DEF SelectReads, SelectDone, SelectCancelled, ReaderSeesEnd,
            sessionVars, loopVars, keyVars, writerVars, agentVars, netVars, appVars
<1>0. /\ QueueOK /\ NetOK /\ KeysOK /\ StateOK /\ WritersOK /\ OutputsOK
      /\ UNCHANGED <<out, net, unacked, keys, agentKey, writerVars, sentOutputs, appVars>>
  BY TypeParts DEF Outputs
<1>1. QueueOK' /\ NetOK' /\ KeysOK' /\ WritersOK' /\ OutputsOK'
  BY <1>0 DEF QueueOK, NetOK, KeysOK, WritersOK, OutputsOK
<1>2. StateOK'
  BY <1>0 DEF StateOK
<1>3. Waiting'
  BY <1>0 DEF Outputs, Waiting, StateOK
<1>4. OutputsSent' /\ OutputKept'
  BY DEF Outputs, OutputsSent, OutputKept
<1> QED
  BY <1>1, <1>2, <1>3, <1>4, TypeParts DEF Outputs

LEMMA AnswerKeepsOutputs ==
  ASSUME Outputs, AnswerChallenge \/ EnableEncryption
  PROVE  Outputs'
<1> USE DEF sessionVars, loopVars, keyVars, writerVars, agentVars, netVars, appVars
<1>0. QueueOK /\ NetOK /\ KeysOK /\ StateOK /\ WritersOK /\ OutputsOK
  BY TypeParts DEF Outputs
<1>1. CASE AnswerChallenge
  <2>1. QueueOK'
    BY <1>0, <1>1, FillQueues DEF AnswerChallenge, QueueOK, KeysOK
  <2>2. NetOK' /\ KeysOK' /\ StateOK' /\ WritersOK' /\ OutputsOK'
    BY <1>0, <1>1 DEF AnswerChallenge, NetOK, KeysOK, StateOK, WritersOK, OutputsOK
  <2>3. Waiting' /\ OutputsSent' /\ OutputKept'
    BY <1>1 DEF AnswerChallenge, Outputs, Waiting, OutputsSent, OutputKept
  <2> QED
    BY <2>1, <2>2, <2>3, TypeParts DEF Outputs
<1>2. CASE EnableEncryption
  <2>0. /\ reader = "enable" /\ encryptionEnabled' = TRUE
        /\ unacked' \subseteq unacked /\ net' = net
        /\ \/ reader' = Again /\ channel' = channel
           \/ reader' = "exited" /\ channel' \in {"up", "down"}
        /\ UNCHANGED <<kms, ctxDone, phase, handshakeCh, panicked, keys, writerVars, out,
                       agentVars, appVars>>
    BY <1>0, <1>2, FinishEffect DEF EnableEncryption, Enables, StateOK
  <2>1. QueueOK' /\ NetOK' /\ KeysOK' /\ WritersOK' /\ OutputsOK'
    BY <1>0, <2>0 DEF QueueOK, NetOK, KeysOK, WritersOK, OutputsOK
  <2>2. StateOK'
    BY <1>0, <2>0 DEF StateOK, Again
  <2>3. Waiting' /\ OutputsSent' /\ OutputKept'
    BY <2>0 DEF Outputs, Waiting, OutputsSent, OutputKept, Again
  <2> QED
    BY <2>1, <2>2, <2>3, TypeParts DEF Outputs
<1> QED
  BY <1>1, <1>2

\* The client's own messages, for ReceiveRequest and ReceiveChallenge.
LEMMA ReaderSlots ==
  ASSUME NEW key \in Generations
  PROVE  /\ Slot("response", "reader", key, TRUE) \in SlotSet
         /\ Slot("challenge", "reader", 0, FALSE) \in SlotSet
BY HandshakeAssumption DEF Slot, SlotSet, Generations

LEMMA RequestEffect ==
  ASSUME TypeOK, ReceiveRequest
  PROVE  /\ reader = "read" /\ channel = "up" /\ net' \subseteq net /\ unacked' \subseteq unacked
         /\ \/ reader' = Again /\ channel' = channel
            \/ reader' = "exited" /\ channel' = "down"
         /\ out' \in Seq(SlotSet)
         /\ \E key \in Generations :
              /\ Queued' = Queued \union {Slot("response", "reader", key, TRUE)}
              /\ \/ kms /\ keys' = keys + 1 /\ key = keys' /\ key \in 1..MaxKeys
                 \/ keys' = keys /\ key = 0
         /\ UNCHANGED <<kms, ctxDone, phase, handshakeCh, panicked, encryptionEnabled,
                        writerVars, agentVars, appVars, garbled>>
<1>0. QueueOK /\ KeysOK /\ StateOK
  BY TypeParts
<1>1. (GeneratesKeys /\ kms /\ keys < MaxKeys) \/ NoKeys
  BY DEF ReceiveRequest
<1>2. \E key \in Generations :
         /\ Sends(Slot("response", "reader", key, TRUE))
         /\ \/ kms /\ keys' = keys + 1 /\ key = keys' /\ key \in 1..MaxKeys
            \/ keys' = keys /\ key = 0
  <2>1. CASE GeneratesKeys /\ kms /\ keys < MaxKeys
    <3>1. keys + 1 \in 1..MaxKeys /\ keys + 1 \in Generations
      BY <1>0, <2>1, HandshakeAssumption DEF KeysOK, Generations
    <3> QED
      BY <2>1, <3>1 DEF GeneratesKeys
  <2>2. CASE NoKeys
    <3>1. 0 \in Generations
      BY HandshakeAssumption DEF Generations
    <3> QED
      BY <2>2, <3>1 DEF NoKeys
  <2> QED
    BY <1>1, <2>1, <2>2
<1>3. PICK key \in Generations :
         /\ Sends(Slot("response", "reader", key, TRUE))
         /\ \/ kms /\ keys' = keys + 1 /\ key = keys' /\ key \in 1..MaxKeys
            \/ keys' = keys /\ key = 0
  BY <1>2
<1>4. /\ out' \in Seq(SlotSet)
      /\ Queued' = Queued \union {Slot("response", "reader", key, TRUE)}
  BY <1>0, <1>3, ReaderSlots, SendsQueues DEF QueueOK
<1>5. /\ reader = "read" /\ channel = "up" /\ net' \subseteq net /\ Finish(Request)
      /\ UNCHANGED <<kms, ctxDone, phase, handshakeCh, panicked, encryptionEnabled,
                     writerVars, agentVars, appVars, garbled>>
  BY DEF ReceiveRequest, Reads
<1> QED
  BY <1>0, <1>3, <1>4, <1>5, FinishEffect

LEMMA ChallengeEffect ==
  ASSUME TypeOK, NEW k \in Generations, ReceiveChallenge(k)
  PROVE  /\ reader = "read" /\ Challenge(k) \in net /\ net' \subseteq net /\ reader' = "answer"
         /\ k = keys
         /\ out' \in Seq(SlotSet)
         /\ Queued' = Queued \union {Slot("challenge", "reader", 0, FALSE)}
         /\ UNCHANGED <<sessionVars, phase, handshakeCh, panicked, keyVars, writerVars,
                        agentVars, unacked, appVars, garbled>>
<1>1. Sends(Slot("challenge", "reader", 0, FALSE))
  BY DEF ReceiveChallenge, Reserve
<1>2. /\ out' \in Seq(SlotSet)
      /\ Queued' = Queued \union {Slot("challenge", "reader", 0, FALSE)}
  BY <1>1, ReaderSlots, SendsQueues, TypeParts DEF QueueOK
<1> QED
  BY <1>2 DEF ReceiveChallenge, ChallengeFails, Reads

LEMMA ReceiveKeepsOutputs ==
  ASSUME Outputs, NEW f \in net, Receive(f)
  PROVE  Outputs'
<1> USE DEF sessionVars, loopVars, keyVars, writerVars, agentVars, netVars, appVars
<1>0. QueueOK /\ NetOK /\ KeysOK /\ StateOK /\ WritersOK /\ OutputsOK
  BY TypeParts DEF Outputs
<1>1. CASE ReceiveRequest
  <2>1. QueueOK' /\ WritersOK' /\ OutputsOK' /\ NetOK'
    BY <1>0, <1>1, RequestEffect DEF Outputs, QueueOK, WritersOK, OutputsOK, NetOK
  <2>2. KeysOK'
    BY <1>0, <1>1, RequestEffect, HandshakeAssumption DEF Outputs, KeysOK, Generations
  <2>3. StateOK'
    BY <1>0, <1>1, RequestEffect DEF Outputs, StateOK, Again
  <2>4. Waiting' /\ OutputsSent' /\ OutputKept'
    BY <1>1, RequestEffect DEF Outputs, Waiting, OutputsSent, OutputKept, Again
  <2> QED
    BY <2>1, <2>2, <2>3, <2>4, TypeParts DEF Outputs
<1>2. ASSUME NEW k \in Generations, ReceiveChallenge(k) PROVE Outputs'
  <2>1. QueueOK' /\ WritersOK' /\ OutputsOK' /\ NetOK' /\ KeysOK'
    BY <1>0, <1>2, ChallengeEffect DEF Outputs, QueueOK, WritersOK, OutputsOK, NetOK, KeysOK
  <2>2. StateOK'
    BY <1>0, <1>2, ChallengeEffect DEF Outputs, StateOK
  <2>3. Waiting' /\ OutputsSent' /\ OutputKept'
    BY <1>2, ChallengeEffect DEF Outputs, Waiting, OutputsSent, OutputKept
  <2> QED
    BY <2>1, <2>2, <2>3, TypeParts DEF Outputs
<1>3. CASE ReceiveComplete
  <2>1. /\ reader = "read" /\ net' \subseteq net /\ unacked' \subseteq unacked
        /\ \/ reader' = Again /\ channel' = channel
           \/ reader' = "exited" /\ channel' = "down"
    BY <1>0, <1>3, FinishEffect DEF ReceiveComplete, Reads
  <2>2. QueueOK' /\ WritersOK' /\ OutputsOK' /\ NetOK' /\ KeysOK'
    BY <1>0, <1>3, <2>1
       DEF ReceiveComplete, QueueOK, WritersOK, OutputsOK, NetOK, KeysOK
  <2>3. StateOK'
    BY <1>0, <1>3, <2>1 DEF ReceiveComplete, CloseHandshakeCh, StateOK, Again
  <2>4. Waiting' /\ OutputsSent' /\ OutputKept'
    BY <1>3, <2>1
       DEF ReceiveComplete, CloseHandshakeCh, Outputs, Waiting, OutputsSent, OutputKept, Again
  <2> QED
    BY <2>2, <2>3, <2>4, TypeParts DEF Outputs
<1>4. ASSUME NEW n \in 1..MaxOutputs, NEW k \in Generations, ReceiveOutput(n, k)
      PROVE  Outputs'
  <2>1. /\ reader = "read" /\ Output(n, k) \in net /\ net' \subseteq net
        /\ unacked' \subseteq unacked /\ reader' = Again
        /\ seen' = seen \union {n}
        /\ delivered' = IF n \in seen THEN delivered ELSE Passes(n)
        /\ early' = IF handshakeCh = "open" THEN early \union {n} ELSE early
        /\ UNCHANGED <<sessionVars, phase, handshakeCh, panicked, keyVars, writerVars, out,
                       agentVars>>
    BY <1>4 DEF ReceiveOutput, Reads, Records, Acknowledge
  <2>2. n <= sentOutputs
    BY <2>1, FrameFacts DEF Outputs, OutputsSent
  <2>3. QueueOK' /\ WritersOK' /\ NetOK' /\ KeysOK'
    BY <1>0, <2>1 DEF QueueOK, WritersOK, NetOK, KeysOK
  <2>4. StateOK'
    BY <1>0, <2>1 DEF StateOK, Again
  <2>5. OutputsOK'
    BY <1>0, <2>1, <2>2, HandshakeAssumption DEF OutputsOK, Passes
  <2>6. Waiting' /\ OutputsSent'
    BY <2>1 DEF Outputs, Waiting, OutputsSent, Again
  <2>7. OutputKept'
    BY <1>0, <2>1 DEF Outputs, Waiting, OutputKept, Passes, StateOK
  <2> QED
    BY <2>3, <2>4, <2>5, <2>6, <2>7, TypeParts DEF Outputs
<1>5. CASE HandleMsgFails(f)
  <2>1. /\ reader' = "exited" /\ net' \subseteq net /\ channel' \in {"up", "down"}
        /\ UNCHANGED <<kms, ctxDone, phase, handshakeCh, panicked, keyVars, writerVars, out,
                       agentVars, unacked, appVars>>
    BY <1>0, <1>5 DEF HandleMsgFails, Reads, StateOK
  <2>2. QueueOK' /\ WritersOK' /\ OutputsOK' /\ NetOK' /\ KeysOK'
    BY <1>0, <2>1 DEF QueueOK, WritersOK, OutputsOK, NetOK, KeysOK
  <2>3. StateOK'
    BY <1>0, <2>1 DEF StateOK
  <2>4. Waiting' /\ OutputsSent' /\ OutputKept'
    BY <2>1 DEF Outputs, Waiting, OutputsSent, OutputKept
  <2> QED
    BY <2>2, <2>3, <2>4, TypeParts DEF Outputs
<1> QED
  BY <1>1, <1>2, <1>3, <1>4, <1>5 DEF Receive

LEMMA TakeNumberEffect ==
  ASSUME TypeOK, NEW w \in Writers, TakeNumber(w)
  PROVE  /\ out' \in Seq(SlotSet)
         /\ Queued' = Queued \union {Slot("data", w, 0, FALSE)}
         /\ phase = "relay" /\ writing' = writing \union {w}
         /\ writes' \in [Writers -> 0..MaxWrites]
         /\ UNCHANGED <<sessionVars, loopVars, keyVars, agentVars, netVars, appVars, garbled>>
<1>1. Sends(Slot("data", w, 0, FALSE))
  BY DEF TakeNumber, Reserve
<1>2. Slot("data", w, 0, FALSE) \in SlotSet
  BY HandshakeAssumption DEF Slot, SlotSet, Generations
<1>3. writes[w] + 1 \in 0..MaxWrites
  BY HandshakeAssumption DEF TypeOK, TakeNumber
<1>4. writes' \in [Writers -> 0..MaxWrites]
  BY <1>3 DEF TypeOK, TakeNumber
<1> QED
  BY <1>1, <1>2, <1>4, SendsQueues, TypeParts DEF TakeNumber, QueueOK

LEMMA WriteEffect ==
  ASSUME TypeOK, NEW w \in Writers, Write(w)
  PROVE  /\ out' \in Seq(SlotSet)
         /\ \A s \in Queued' :
              \/ s \in Queued
              \/ /\ s.by = w /\ s.key = SealKey /\ s.sent
                 /\ \E r \in Queued : r.kind = s.kind /\ r.by = w
         /\ w \in writing /\ writing' = writing \ {w}
         /\ UNCHANGED <<sessionVars, loopVars, keyVars, writes, agentVars, netVars, appVars,
                        garbled>>
<1>1. SealKey \in Generations
  BY HandshakeAssumption DEF SealKey, TypeOK, Generations
<1> QED
  BY <1>1, FillQueues, TypeParts DEF Write, QueueOK

LEMMA WriterKeepsOutputs ==
  ASSUME Outputs, NEW w \in Writers, TakeNumber(w) \/ Write(w)
  PROVE  Outputs'
<1> USE DEF sessionVars, loopVars, keyVars, agentVars, netVars, appVars
<1>0. TypeOK /\ QueueOK /\ NetOK /\ KeysOK /\ StateOK /\ WritersOK /\ OutputsOK
  BY TypeParts DEF Outputs
<1>1. /\ out' \in Seq(SlotSet) /\ writing' \subseteq writing \union {w}
      /\ writes' \in [Writers -> 0..MaxWrites]
      /\ UNCHANGED <<sessionVars, loopVars, keyVars, agentVars, netVars, appVars>>
  BY <1>0, TakeNumberEffect, WriteEffect DEF WritersOK
<1>2. QueueOK' /\ WritersOK' /\ OutputsOK' /\ NetOK' /\ KeysOK' /\ StateOK'
  BY <1>0, <1>1 DEF QueueOK, WritersOK, OutputsOK, NetOK, KeysOK, StateOK
<1>3. Waiting' /\ OutputsSent' /\ OutputKept'
  BY <1>1 DEF Outputs, Waiting, OutputsSent, OutputKept
<1> QED
  BY <1>2, <1>3, TypeParts DEF Outputs

\* A frame the agent sends is under way, or lost, and to be acknowledged.
LEMMA AgentSendsEffect ==
  ASSUME NEW f, AgentSends(f)
  PROVE  net \union unacked \subseteq net' \union unacked'
         /\ net' \union unacked' \subseteq net \union unacked \union {f}
BY DEF AgentSends

LEMMA ResponseEffect ==
  ASSUME TypeOK, AgentTakesResponse
  PROVE  /\ out' \in Seq(SlotSet) /\ Queued' \subseteq Queued /\ Head(out) \in Queued
         /\ Head(out).kind = "response" /\ Head(out).key \in Generations
         /\ channel' = channel \/ channel' = "down"
         /\ \/ UNCHANGED <<agent, agentKey, net, unacked>>
            \/ /\ agent = "asked" /\ ~kms /\ agent' = "done" /\ agentKey' = agentKey
               /\ AgentSends(Complete)
            \/ /\ agent = "asked" /\ kms /\ agent' = "challenging"
               /\ Head(out).key # 0 /\ agentKey' = Head(out).key
               /\ AgentSends(Challenge(Head(out).key))
         /\ UNCHANGED <<kms, ctxDone, loopVars, keyVars, writerVars, sentOutputs, appVars,
                        garbled>>
<1>1. /\ out' \in Seq(SlotSet) /\ Queued' \subseteq Queued /\ Head(out) \in Queued
      /\ Head(out) \in SlotSet
  BY TailQueues, TypeParts DEF AgentTakesResponse, AgentTakes, QueueOK
<1>2. Head(out).key \in Generations
  BY <1>1 DEF SlotSet
<1> QED
  BY <1>1, <1>2 DEF AgentTakesResponse, AgentTakes, agentVars, netVars

LEMMA TakesEffect ==
  ASSUME TypeOK, AgentTakesChallenge \/ AgentTakesData
  PROVE  /\ out' \in Seq(SlotSet) /\ Queued' \subseteq Queued /\ Head(out) \in Queued
         /\ Head(out).sent
         /\ UNCHANGED <<sessionVars, loopVars, keyVars, writerVars, agentKey, sentOutputs,
                        appVars>>
<1>1. /\ out' \in Seq(SlotSet) /\ Queued' \subseteq Queued /\ Head(out) \in Queued
      /\ Head(out).sent
  BY TailQueues, TypeParts DEF AgentTakesChallenge, AgentTakesData, AgentTakes, QueueOK
<1> QED
  BY <1>1 DEF AgentTakesChallenge, AgentTakesData, agentVars

LEMMA AgentKeepsOutputs ==
  ASSUME Outputs, AgentStep \/ AgentSendsOutput
  PROVE  Outputs'
<1> USE DEF sessionVars, loopVars, keyVars, writerVars, agentVars, netVars, appVars
<1>0. TypeOK /\ QueueOK /\ NetOK /\ KeysOK /\ StateOK /\ WritersOK /\ OutputsOK
  BY TypeParts DEF Outputs
<1>q. ASSUME out' \in Seq(SlotSet), KeysOK', NetOK', OutputsSent',
             agent' \in {"start", "asked", "challenging", "done"},
             channel' \in {"up", "down"}, sentOutputs' \in 0..MaxOutputs,
             sentOutputs' >= sentOutputs,
             UNCHANGED <<kms, ctxDone, loopVars, keyVars, writerVars, appVars>>
      PROVE  Outputs'
  <2>1. StateOK' /\ WritersOK' /\ QueueOK'
    BY <1>0, <1>q DEF StateOK, WritersOK, QueueOK
  <2>2. OutputsOK'
    BY <1>0, <1>q, HandshakeAssumption DEF OutputsOK
  <2>3. Waiting' /\ OutputKept'
    BY <1>q DEF Outputs, Waiting, OutputKept
  <2> QED
    BY <1>q, <2>1, <2>2, <2>3, TypeParts DEF Outputs
<1>s. ASSUME NEW f \in Frames, f.type # "output", AgentSends(f), sentOutputs' = sentOutputs
      PROVE  NetOK' /\ OutputsSent'
  BY <1>0, <1>s, AgentSendsEffect DEF NetOK, Outputs, OutputsSent
<1>u. ASSUME UNCHANGED <<net, unacked, sentOutputs>> PROVE NetOK' /\ OutputsSent'
  BY <1>0, <1>u DEF NetOK, Outputs, OutputsSent
<1>1. CASE AgentAsks
  BY <1>0, <1>1, <1>q, <1>s, FrameFacts DEF AgentAsks, KeysOK, StateOK, QueueOK, OutputsOK
<1>2. CASE AgentTakesResponse
  <2>1. NetOK' /\ OutputsSent'
    BY <1>0, <1>2, <1>s, <1>u, ResponseEffect, FrameFacts
  <2>2. KeysOK'
    BY <1>0, <1>2, ResponseEffect DEF KeysOK
  <2> QED
    BY <1>0, <1>2, <1>q, <2>1, <2>2, ResponseEffect DEF StateOK, OutputsOK
<1>3. CASE AgentTakesChallenge
  <2>1. NetOK' /\ OutputsSent'
    BY <1>0, <1>3, <1>s, <1>u, FrameFacts DEF AgentTakesChallenge
  <2>2. agent' \in {agent, "done"}
    BY <1>3 DEF AgentTakesChallenge
  <2> QED
    BY <1>0, <1>3, <1>q, <2>1, <2>2, TakesEffect DEF KeysOK, StateOK, OutputsOK
<1>4. CASE AgentTakesData
  <2>1. UNCHANGED <<agent, net, unacked, channel, sentOutputs>>
    BY <1>4 DEF AgentTakesData
  <2> QED
    BY <1>0, <1>4, <1>q, <1>u, <2>1, TakesEffect DEF KeysOK, StateOK, OutputsOK
<1>5. CASE AgentSendsOutput
  <2> DEFINE n == sentOutputs + 1
  <2>1. n \in 1..MaxOutputs /\ sentOutputs' = n /\ n \in 0..MaxOutputs /\ n > sentOutputs
    BY <1>0, <1>5, HandshakeAssumption DEF AgentSendsOutput, OutputsOK
  <2>2. /\ AgentSends(Output(n, agentKey))
        /\ UNCHANGED <<sessionVars, loopVars, keyVars, writerVars, out, agent, agentKey,
                       appVars>>
    BY <1>5 DEF AgentSendsOutput
  <2> HIDE DEF n
  <2>3. /\ Output(n, agentKey) \in Frames /\ Output(n, agentKey).type = "output"
        /\ Output(n, agentKey).n = n
    BY <1>0, <2>1, FrameFacts DEF KeysOK
  <2>4. NetOK'
    BY <1>0, <2>2, <2>3, AgentSendsEffect DEF NetOK
  <2>5. ASSUME NEW f \in net' \union unacked', f.type = "output" PROVE f.n <= sentOutputs'
    <3>1. CASE f = Output(n, agentKey)
      BY <2>1, <2>3, <3>1
    <3>2. CASE f # Output(n, agentKey)
      <4>1. f \in net \union unacked
        BY <2>2, <3>2, AgentSendsEffect
      <4>2. f.n <= sentOutputs
        BY <2>5, <4>1 DEF Outputs, OutputsSent
      <4>3. f.n \in 1..MaxOutputs
        BY <1>0, <2>5, <4>1, FrameKinds DEF NetOK
      <4> QED
        BY <1>0, <2>1, <4>2, <4>3, HandshakeAssumption DEF OutputsOK
    <3> QED
      BY <3>1, <3>2
  <2>6. OutputsSent'
    BY <2>5 DEF OutputsSent
  <2>7. sentOutputs' \in 0..MaxOutputs /\ sentOutputs' >= sentOutputs
    BY <1>0, <2>1 DEF OutputsOK
  <2> QED
    BY <1>0, <1>q, <2>2, <2>4, <2>6, <2>7 DEF KeysOK, StateOK, QueueOK
<1> QED
  BY <1>1, <1>2, <1>3, <1>4, <1>5 DEF AgentStep

LEMMA NetworkKeepsOutputs ==
  ASSUME Outputs,
         \/ \E f \in unacked : AgentResends(f)
         \/ ResponseLost \/ ChannelEnds \/ ContextCancelled \/ UNCHANGED vars
  PROVE  Outputs'
<1> USE DEF sessionVars, loopVars, keyVars, writerVars, agentVars, netVars, appVars, vars
<1>0. QueueOK /\ NetOK /\ KeysOK /\ StateOK /\ WritersOK /\ OutputsOK
  BY TypeParts DEF Outputs
<1>1. out' \in Seq(SlotSet)
  BY <1>0, LostQueues
     DEF QueueOK, AgentResends, ChannelEnds, ContextCancelled
<1>2. /\ net' \subseteq net \union unacked /\ unacked' = unacked
      /\ channel' \in {"up", "down"} /\ ctxDone' \in BOOLEAN
      /\ UNCHANGED <<kms, loopVars, keyVars, writerVars, agentVars, appVars>>
  BY <1>0 DEF AgentResends, ResponseLost, ChannelEnds, ContextCancelled, StateOK
<1>3. QueueOK' /\ NetOK' /\ KeysOK' /\ WritersOK' /\ OutputsOK'
  BY <1>0, <1>1, <1>2 DEF QueueOK, NetOK, KeysOK, WritersOK, OutputsOK
<1>4. StateOK'
  BY <1>0, <1>2 DEF StateOK
<1>5. Waiting' /\ OutputsSent' /\ OutputKept'
  BY <1>2 DEF Outputs, Waiting, OutputsSent, OutputKept
<1> QED
  BY <1>3, <1>4, <1>5, TypeParts DEF Outputs

LEMMA NextOutputs ==
  ASSUME Outputs, [Next]_vars
  PROVE  Outputs'
BY LoopKeepsOutputs, AnswerKeepsOutputs, ReceiveKeepsOutputs, WriterKeepsOutputs,
   AgentKeepsOutputs, NetworkKeepsOutputs
   DEF Next, ReaderStep

LEMMA AlwaysOutputs == Spec => []Outputs
BY InitOutputs, NextOutputs, PTL DEF Spec

\* Every variable of the handshake keeps its type, and a reader that selects is in
\* the loop of the wait.
THEOREM TypeCorrect == Spec => []TypeOK
<1>1. Outputs => TypeOK
  BY DEF Outputs
<1> QED
  BY <1>1, AlwaysOutputs, PTL

\* An output that is acknowledged and not given to the application came before
\* HandshakeComplete.
THEOREM OnlyEarlyOutputsLost == Spec => []OutputKept
<1>1. Outputs => OutputKept
  BY DEF Outputs
<1> QED
  BY <1>1, AlwaysOutputs, PTL

---------------------------------------------------------------------------
\* What the sessions that wait keep.

\* handshakeCh follows the reader: it is closed only between HandshakeComplete and
\* the next look of the select.
Following == /\ Waiting
             /\ phase = "relay" => handshakeCh = "nil"

\* A frame says what the agent has done.
FramesTrue ==
  \A f \in net \union unacked :
    /\ f.type = "challenge" => kms /\ f.key \in 1..keys
    /\ f.type = "output" => agent = "done" /\ f.key = agentKey
    /\ f.type = "complete" => agent = "done"

\* The agent's key is one of the client's, and an agent that encrypts has had the
\* answer of a client that does, or is about to.
KeysAgree ==
  /\ agent \in {"start", "asked"} => agentKey = 0
  /\ agent = "challenging" => kms /\ agentKey \in 1..keys
  /\ agent = "done" /\ kms =>
       agentKey \in 1..keys /\ (encryptionEnabled \/ reader = "enable")
  /\ ~kms => keys = 0 /\ agentKey = 0 /\ ~encryptionEnabled
  /\ encryptionEnabled \/ reader \in {"answer", "enable"} => kms /\ keys >= 1

\* The writers start when all is agreed.
Agreed == agent = "done" /\ (kms => encryptionEnabled)
WritersWait ==
  /\ handshakeCh = "closed" \/ phase = "relay" => Agreed
  /\ writing # {} => phase = "relay"

\* The client's messages under way.
MessagesTrue ==
  \A s \in Queued :
    /\ s.key <= keys
    /\ s.by = "reader" <=> s.kind # "data"
    /\ s.kind = "challenge" /\ s.sent => encryptionEnabled \/ reader = "enable"
    /\ s.kind = "data" => phase = "relay"
    /\ s.kind = "data" /\ s.sent /\ keys <= 1 => s.key = agentKey

Agreement ==
  Following /\ FramesTrue /\ KeysAgree /\ WritersWait /\ MessagesTrue
Results == ClosedOnce /\ BothReadable /\ ReaderKeepsOn

LEMMA InitAgreement ==
  ASSUME ~Shell, Init
  PROVE  Agreement /\ Results
<1> USE DEF Init
<1>1. Following /\ FramesTrue /\ WritersWait
  BY DEF Following, Waiting, FramesTrue, WritersWait
<1>2. KeysAgree
  BY DEF KeysAgree
<1>3. MessagesTrue
  BY DEF MessagesTrue, Queued, Range
<1>4. Results
  BY DEF Results, ClosedOnce, BothReadable, ReaderKeepsOn
<1> QED
  BY <1>1, <1>2, <1>3, <1>4 DEF Agreement

\* Queued messages are records of the queue's type.
LEMMA QueuedSlots ==
  ASSUME TypeOK
  PROVE  \A s \in Queued : /\ s \in SlotSet /\ s.key \in Nat /\ s.sent \in BOOLEAN
                           /\ s.by \in Writers \union {"reader"}
<1>1. out \in Seq(SlotSet)
  BY TypeParts DEF QueueOK
<1>2. \A s \in Queued : s \in SlotSet
  BY <1>1 DEF Queued, Range
<1> QED
  BY <1>2, HandshakeAssumption DEF SlotSet, Generations

LEMMA NatKeys == ASSUME TypeOK PROVE keys \in Nat /\ agentKey \in Nat
BY HandshakeAssumption DEF TypeOK, Generations

LEMMA LoopKeepsAgreement ==
  ASSUME TypeOK, Agreement, Results,
         SelectReads \/ SelectDone \/ SelectCancelled \/ ReaderSeesEnd
  PROVE  Agreement' /\ Results'
<1> USE DEF Agreement, sessionVars, loopVars, keyVars, writerVars, agentVars, netVars, appVars
<1>0. /\ UNCHANGED <<kms, ctxDone, channel, panicked, keyVars, writerVars, out, agentVars,
                     netVars, appVars, garbled>>
      /\ reader \in {"select", "read", "answer"} /\ reader' \in {"read", "exited"}
      /\ reader' = "exited" => channel' = "down" \/ ctxDone'
  BY DEF SelectReads, SelectDone, SelectCancelled, ReaderSeesEnd
<1>1. Following'
  BY DEF Following, Waiting, TypeOK, SelectReads, SelectDone, SelectCancelled, ReaderSeesEnd
<1>2. phase' = phase \/ (handshakeCh = "closed" /\ phase' = "relay")
  BY DEF SelectReads, SelectDone, SelectCancelled, ReaderSeesEnd
<1>3. handshakeCh' = handshakeCh \/ handshakeCh' = "nil"
  BY DEF SelectReads, SelectDone, SelectCancelled, ReaderSeesEnd
<1>4. FramesTrue' /\ KeysAgree'
  BY <1>0 DEF FramesTrue, KeysAgree
<1>5. WritersWait'
  BY <1>0, <1>2, <1>3 DEF WritersWait, Agreed
<1>6. MessagesTrue'
  BY <1>0, <1>2 DEF MessagesTrue, Queued
<1>7. Results'
  BY <1>0 DEF Results, ClosedOnce, BothReadable, ReaderKeepsOn
<1> QED
  BY <1>1, <1>4, <1>5, <1>6, <1>7

LEMMA AnswerKeepsAgreement ==
  ASSUME TypeOK, Agreement, Results, AnswerChallenge \/ EnableEncryption
  PROVE  Agreement' /\ Results'
<1> USE DEF Agreement, sessionVars, loopVars, keyVars, writerVars, agentVars, netVars, appVars
<1>0. StateOK /\ KeysOK /\ out \in Seq(SlotSet) /\ keys \in Nat
  BY TypeParts, NatKeys DEF QueueOK
<1>1. CASE AnswerChallenge
  <2>0. /\ reader = "answer" /\ reader' = "enable" /\ Fill("reader", keys)
        /\ UNCHANGED <<sessionVars, phase, handshakeCh, panicked, keyVars, writerVars,
                       agentVars, netVars, appVars, garbled>>
    BY <1>1 DEF AnswerChallenge
  <2>1. \A s \in Queued' :
          \/ s \in Queued
          \/ /\ s.by = "reader" /\ s.key = keys /\ s.sent
             /\ \E r \in Queued : r.kind = s.kind /\ r.by = "reader"
    BY <1>0, <2>0, FillQueues DEF KeysOK
  <2>2. Following' /\ FramesTrue' /\ KeysAgree' /\ WritersWait'
    BY <2>0 DEF Following, Waiting, FramesTrue, KeysAgree, WritersWait, Agreed
  <2>3. MessagesTrue'
    BY <1>0, <2>0, <2>1 DEF MessagesTrue
  <2>4. Results'
    BY <2>0 DEF Results, ClosedOnce, BothReadable, ReaderKeepsOn
  <2> QED
    BY <2>2, <2>3, <2>4
<1>2. CASE EnableEncryption
  <2>0. /\ reader = "enable" /\ encryptionEnabled' = TRUE
        /\ unacked' \subseteq unacked /\ net' = net
        /\ \/ reader' = Again /\ channel' = channel
           \/ reader' = "exited" /\ channel' = "down"
        /\ UNCHANGED <<kms, ctxDone, phase, handshakeCh, panicked, keys, writerVars, out,
                       agentVars, appVars, garbled>>
    BY <1>0, <1>2, FinishEffect DEF EnableEncryption, Enables, StateOK
  <2>1. Following'
    BY <2>0 DEF Following, Waiting, Again
  <2>2. FramesTrue'
    BY <2>0 DEF FramesTrue
  <2>3. KeysAgree' /\ WritersWait'
    BY <2>0 DEF KeysAgree, WritersWait, Agreed, Again
  <2>4. MessagesTrue'
    BY <2>0 DEF MessagesTrue, Queued
  <2>5. Results'
    BY <2>0 DEF Results, ClosedOnce, BothReadable, ReaderKeepsOn, Again
  <2> QED
    BY <2>1, <2>2, <2>3, <2>4, <2>5
<1> QED
  BY <1>1, <1>2

LEMMA RequestKeepsAgreement ==
  ASSUME TypeOK, Agreement, Results, ReceiveRequest
  PROVE  Agreement' /\ Results'
<1> USE DEF Agreement, writerVars, agentVars, appVars
<1>0. /\ keys \in Nat /\ StateOK /\ Following /\ FramesTrue /\ KeysAgree /\ WritersWait
      /\ MessagesTrue
  BY TypeParts, NatKeys
<1>1. PICK key \in Generations :
         /\ Queued' = Queued \union {Slot("response", "reader", key, TRUE)}
         /\ \/ kms /\ keys' = keys + 1 /\ key = keys' /\ key \in 1..MaxKeys
            \/ keys' = keys /\ key = 0
  BY RequestEffect
<1>2. /\ reader = "read" /\ channel = "up" /\ net' \subseteq net /\ unacked' \subseteq unacked
      /\ \/ reader' = Again /\ channel' = channel
         \/ reader' = "exited" /\ channel' = "down"
      /\ UNCHANGED <<kms, ctxDone, phase, handshakeCh, panicked, encryptionEnabled,
                     writerVars, agentVars, appVars, garbled>>
  BY RequestEffect
<1>3. keys' \in Nat /\ keys' >= keys /\ (~kms => keys' = keys)
  BY <1>0, <1>1
<1>4. Following'
  BY <1>2 DEF Following, Waiting, Again
<1>5. FramesTrue'
  BY <1>0, <1>2, <1>3 DEF FramesTrue
<1>6. KeysAgree'
  BY <1>0, <1>2, <1>3 DEF KeysAgree, Again
<1>7. WritersWait'
  BY <1>2 DEF WritersWait, Agreed
<1>8. MessagesTrue'
  <2> DEFINE new == Slot("response", "reader", key, TRUE)
  <2>1. /\ new.kind = "response" /\ new.by = "reader" /\ new.key = key /\ key <= keys'
    BY <1>0, <1>1 DEF Slot
  <2>2. \A s \in Queued : s.key \in Nat
    BY QueuedSlots
  <2>3. Queued' = Queued \union {new}
    BY <1>1
  <2> HIDE DEF new
  <2>4. ASSUME NEW s \in Queued
        PROVE  /\ s.key <= keys'
               /\ s.by = "reader" <=> s.kind # "data"
               /\ s.kind = "challenge" /\ s.sent => encryptionEnabled' \/ reader' = "enable"
               /\ s.kind = "data" => phase' = "relay"
               /\ s.kind = "data" /\ s.sent /\ keys' <= 1 => s.key = agentKey'
    BY <1>0, <1>2, <1>3, <2>2 DEF MessagesTrue, Again
  <2> QED
    BY <2>1, <2>3, <2>4 DEF MessagesTrue
<1>9. Results'
  BY <1>0, <1>2, <1>3 DEF Results, ClosedOnce, BothReadable, ReaderKeepsOn, Again
<1> QED
  BY <1>4, <1>5, <1>6, <1>7, <1>8, <1>9

LEMMA ChallengeKeepsAgreement ==
  ASSUME TypeOK, Agreement, Results, NEW k \in Generations, ReceiveChallenge(k)
  PROVE  Agreement' /\ Results'
<1> USE DEF Agreement, sessionVars, keyVars, writerVars, agentVars, appVars
<1>0. /\ reader = "read" /\ Challenge(k) \in net /\ net' \subseteq net /\ reader' = "answer"
      /\ Queued' = Queued \union {Slot("challenge", "reader", 0, FALSE)}
      /\ UNCHANGED <<sessionVars, phase, handshakeCh, panicked, keyVars, writerVars,
                     agentVars, unacked, appVars, garbled>>
  BY ChallengeEffect
<1>1. kms /\ keys >= 1 /\ keys \in Nat
  BY <1>0, NatKeys, FrameFacts DEF FramesTrue
<1>2. Following' /\ FramesTrue' /\ WritersWait'
  BY <1>0 DEF Following, Waiting, FramesTrue, WritersWait, Agreed
<1>3. KeysAgree'
  BY <1>0, <1>1 DEF KeysAgree
<1>4. MessagesTrue'
  <2> DEFINE new == Slot("challenge", "reader", 0, FALSE)
  <2>1. /\ new.kind = "challenge" /\ new.by = "reader" /\ new.key = 0 /\ new.sent = FALSE
    BY DEF Slot
  <2>2. Queued' = Queued \union {new}
    BY <1>0
  <2> HIDE DEF new
  <2>3. ASSUME NEW s \in Queued
        PROVE  /\ s.key <= keys'
               /\ s.by = "reader" <=> s.kind # "data"
               /\ s.kind = "challenge" /\ s.sent => encryptionEnabled'
               /\ s.kind = "data" => phase' = "relay"
               /\ s.kind = "data" /\ s.sent /\ keys' <= 1 => s.key = agentKey'
    BY <1>0 DEF MessagesTrue
  <2>4. 0 <= keys'
    BY <1>0, <1>1
  <2> QED
    BY <2>1, <2>2, <2>3, <2>4 DEF MessagesTrue
<1>5. Results'
  BY <1>0 DEF Results, ClosedOnce, BothReadable, ReaderKeepsOn
<1> QED
  BY <1>2, <1>3, <1>4, <1>5

LEMMA CompleteKeepsAgreement ==
  ASSUME TypeOK, Agreement, Results, ReceiveComplete
  PROVE  Agreement' /\ Results'
<1> USE DEF Agreement, keyVars, writerVars, agentVars, appVars
<1>0. /\ reader = "read" /\ channel = "up" /\ Complete \in net
      /\ net' \subseteq net /\ unacked' \subseteq unacked
      /\ \/ reader' = Again /\ channel' = channel
         \/ reader' = "exited" /\ channel' = "down"
      /\ CloseHandshakeCh
      /\ UNCHANGED <<kms, ctxDone, phase, keyVars, writerVars, out, agentVars, appVars,
                     garbled>>
  BY FinishEffect, TypeParts DEF ReceiveComplete, Reads
<1>1. Agreed
  BY <1>0, FrameFacts DEF FramesTrue, KeysAgree, Agreed
<1>2. handshakeCh # "closed" /\ phase \in {"wait", "relay"}
  BY <1>0 DEF Following, Waiting, TypeOK
<1>3. Following'
  BY <1>0, <1>2 DEF Following, Waiting, CloseHandshakeCh, Again
<1>4. FramesTrue'
  BY <1>0 DEF FramesTrue
<1>5. KeysAgree'
  BY <1>0 DEF KeysAgree, Again
<1>6. WritersWait'
  BY <1>0, <1>1 DEF WritersWait, Agreed
<1>7. MessagesTrue'
  BY <1>0 DEF MessagesTrue, Queued, Again
<1>8. Results'
  BY <1>0, <1>2
     DEF Results, ClosedOnce, BothReadable, ReaderKeepsOn, CloseHandshakeCh, Again
<1> QED
  BY <1>3, <1>4, <1>5, <1>6, <1>7, <1>8

\* An output is under the agent's key, and the agent that has one only sends it when
\* encryption is on here, or on the point of it.
LEMMA OutputKeyed ==
  ASSUME TypeOK, Agreement, NEW f \in net, f.type = "output", reader = "read"
  PROVE  /\ ~encryptionEnabled => f.key = 0
         /\ encryptionEnabled /\ keys <= 1 => f.key = keys
<1>1. agent = "done" /\ f.key = agentKey
  BY DEF Agreement, FramesTrue
<1>2. keys \in Nat /\ agentKey \in Nat
  BY NatKeys
<1>3. /\ ~kms => agentKey = 0
      /\ kms => agentKey \in 1..keys /\ encryptionEnabled
      /\ encryptionEnabled => kms
  BY <1>1 DEF Agreement, KeysAgree
<1> QED
  BY <1>1, <1>2, <1>3 DEF TypeOK

LEMMA OutputKeepsAgreement ==
  ASSUME TypeOK, Agreement, Results, NEW n \in 1..MaxOutputs, NEW k \in Generations,
         ReceiveOutput(n, k)
  PROVE  Agreement' /\ Results'
<1> USE DEF Agreement, sessionVars, keyVars, writerVars, agentVars
<1>0. /\ reader = "read" /\ Output(n, k) \in net /\ net' \subseteq net /\ Decrypts(k)
      /\ unacked' \subseteq unacked /\ reader' = Again
      /\ garbled' = IF Clear(k) THEN garbled ELSE garbled \union {Output(n, k)}
      /\ UNCHANGED <<sessionVars, phase, handshakeCh, panicked, keyVars, writerVars, out,
                     agentVars>>
  BY DEF ReceiveOutput, Reads, Acknowledge
<1>1. Clear(k)
  BY <1>0, OutputKeyed, FrameFacts DEF Clear, Decrypts
<1>2. Following'
  BY <1>0 DEF Following, Waiting, Again
<1>3. FramesTrue'
  BY <1>0 DEF FramesTrue
<1>4. KeysAgree' /\ WritersWait'
  BY <1>0 DEF KeysAgree, WritersWait, Agreed, Again
<1>5. MessagesTrue'
  BY <1>0 DEF MessagesTrue, Queued, Again
<1>6. Results'
  BY <1>0, <1>1 DEF Results, ClosedOnce, BothReadable, ReaderKeepsOn, Again
<1> QED
  BY <1>2, <1>3, <1>4, <1>5, <1>6

LEMMA FailureKeepsAgreement ==
  ASSUME TypeOK, Agreement, Results, NEW f \in net, HandleMsgFails(f)
  PROVE  Agreement' /\ Results'
<1> USE DEF Agreement, keyVars, writerVars, agentVars, appVars
<1>0. /\ reader = "read" /\ reader' = "exited" /\ net' \subseteq net
      /\ UNCHANGED <<kms, ctxDone, phase, handshakeCh, panicked, keyVars, writerVars, out,
                     agentVars, unacked, appVars, garbled>>
  BY DEF HandleMsgFails, Reads
<1>1. keys <= 1 => channel' = "down"
  <2> SUFFICES ASSUME keys <= 1 PROVE channel' = "down"
    OBVIOUS
  <2>1. keys \in Nat
    BY NatKeys
  <2>2. f.type = "challenge" => f.key = keys
    BY <2>1 DEF FramesTrue
  <2>3. f.type = "output" => Decrypts(f.key)
    BY <1>0, OutputKeyed DEF Decrypts
  <2> QED
    BY <2>2, <2>3 DEF HandleMsgFails, ChallengeFails
<1>2. Following'
  BY <1>0 DEF Following, Waiting
<1>3. FramesTrue'
  BY <1>0 DEF FramesTrue
<1>4. KeysAgree' /\ WritersWait'
  BY <1>0 DEF KeysAgree, WritersWait, Agreed
<1>5. MessagesTrue'
  BY <1>0 DEF MessagesTrue, Queued
<1>6. Results'
  BY <1>0, <1>1, NatKeys DEF Results, ClosedOnce, BothReadable, ReaderKeepsOn
<1> QED
  BY <1>2, <1>3, <1>4, <1>5, <1>6

LEMMA WriterKeepsAgreement ==
  ASSUME TypeOK, Agreement, Results, NEW w \in Writers, TakeNumber(w) \/ Write(w)
  PROVE  Agreement' /\ Results'
<1> USE DEF Agreement, sessionVars, loopVars, keyVars, agentVars, netVars, appVars
<1>0. /\ phase = "relay" /\ writing' \subseteq writing \union {w}
      /\ UNCHANGED <<sessionVars, loopVars, keyVars, agentVars, netVars, appVars, garbled>>
  BY TakeNumberEffect, WriteEffect DEF WritersWait
<1>1. w # "reader"
  BY HandshakeAssumption
<1>2. /\ SealKey \in Nat /\ SealKey <= keys /\ (keys <= 1 => SealKey = agentKey)
      /\ keys \in Nat
  BY <1>0, NatKeys DEF SealKey, WritersWait, Agreed, KeysAgree
<1>3. ASSUME NEW s \in Queued'
      PROVE  \/ s \in Queued
             \/ s.kind = "data" /\ s.by = w /\ s.key = 0 /\ s.sent = FALSE
             \/ s.kind = "data" /\ s.by = w /\ s.key = SealKey /\ s.sent
  <2>1. CASE TakeNumber(w)
    BY <2>1, TakeNumberEffect DEF Slot
  <2>2. CASE Write(w)
    BY <1>1, <2>2, WriteEffect DEF MessagesTrue
  <2> QED
    BY <2>1, <2>2
<1>4. Following' /\ FramesTrue' /\ KeysAgree' /\ WritersWait'
  BY <1>0 DEF Following, Waiting, FramesTrue, KeysAgree, WritersWait, Agreed
<1>5. MessagesTrue'
  <2> SUFFICES ASSUME NEW s \in Queued'
               PROVE  /\ s.key <= keys
                      /\ s.by = "reader" <=> s.kind # "data"
                      /\ s.kind = "challenge" /\ s.sent => encryptionEnabled \/ reader = "enable"
                      /\ s.kind = "data" => phase = "relay"
                      /\ s.kind = "data" /\ s.sent /\ keys <= 1 => s.key = agentKey
    BY <1>0 DEF MessagesTrue
  <2>1. CASE s \in Queued
    BY <2>1 DEF MessagesTrue
  <2>2. CASE s.kind = "data" /\ s.by = w /\ s.key = 0 /\ s.sent = FALSE
    BY <2>2, <1>0, <1>1, <1>2
  <2>3. CASE s.kind = "data" /\ s.by = w /\ s.key = SealKey /\ s.sent
    BY <2>3, <1>0, <1>1, <1>2
  <2> QED
    BY <1>3, <2>1, <2>2, <2>3
<1>6. Results'
  BY <1>0 DEF Results, ClosedOnce, BothReadable, ReaderKeepsOn
<1> QED
  BY <1>4, <1>5, <1>6

\* A response or a challenge's answer moves the agent only while no data is under way.
LEMMA AgentKeepsAgreement ==
  ASSUME TypeOK, Agreement, Results, AgentStep \/ AgentSendsOutput
  PROVE  Agreement' /\ Results'
<1> USE DEF Agreement, sessionVars, loopVars, keyVars, writerVars, agentVars, netVars, appVars
<1>0. /\ UNCHANGED <<kms, ctxDone, loopVars, keyVars, writerVars, appVars>>
      /\ channel' = channel \/ channel' = "down"
      /\ Queued' \subseteq Queued
  BY ResponseEffect, TakesEffect
     DEF AgentStep, AgentAsks, AgentTakesChallenge, AgentTakesData, AgentSendsOutput, Queued
<1>k. keys \in Nat /\ agentKey \in Nat
  BY NatKeys
<1>1. garbled' = garbled \/ keys > 1
  <2>1. CASE AgentTakesData
    <3>1. Head(out) \in Queued /\ Head(out).kind = "data" /\ Head(out).sent
      BY <2>1, TakesEffect DEF AgentTakesData, AgentTakes
    <3>2. phase = "relay" /\ (keys <= 1 => Head(out).key = agentKey)
      BY <3>1 DEF MessagesTrue
    <3>3. agent = "done"
      BY <3>2 DEF WritersWait, Agreed
    <3> QED
      BY <1>k, <2>1, <3>2, <3>3 DEF AgentTakesData, AgentExpects
  <2>2. CASE AgentTakesResponse
    BY <2>2 DEF AgentTakesResponse
  <2> QED
    BY <2>1, <2>2 DEF AgentStep, AgentAsks, AgentTakesChallenge, AgentSendsOutput
<1>2. Following' /\ Results'
  BY <1>0, <1>1, <1>k
     DEF Following, Waiting, Results, ClosedOnce, BothReadable, ReaderKeepsOn
<1>3. ASSUME UNCHANGED <<agent, agentKey>> PROVE KeysAgree' /\ WritersWait' /\ MessagesTrue'
  BY <1>0, <1>3 DEF KeysAgree, WritersWait, Agreed, MessagesTrue
<1>4. ASSUME agent # "done", agent' # "start",
             agentKey' = agentKey \/ agent = "asked" PROVE WritersWait' /\ MessagesTrue'
  <2>1. handshakeCh # "closed" /\ phase # "relay"
    BY <1>4 DEF WritersWait, Agreed
  <2> QED
    BY <1>0, <2>1 DEF WritersWait, MessagesTrue
<1>5. CASE AgentAsks
  <2>1. /\ agent = "start" /\ agent' = "asked" /\ agentKey' = agentKey /\ AgentSends(Request)
    BY <1>5 DEF AgentAsks
  <2>2. FramesTrue'
    BY <1>0, <2>1, AgentSendsEffect, FrameFacts DEF FramesTrue
  <2>3. KeysAgree'
    BY <1>0, <2>1 DEF KeysAgree
  <2> QED
    BY <1>2, <1>4, <2>1, <2>2, <2>3
<1>6. CASE AgentTakesResponse
  <2>1. Head(out) \in Queued /\ Head(out).key \in Generations
    BY <1>6, ResponseEffect
  <2>2. Head(out).key \in 0..keys
    BY <1>k, <2>1, HandshakeAssumption DEF MessagesTrue, Generations
  <2>3. CASE UNCHANGED <<agent, agentKey, net, unacked>>
    <3>1. FramesTrue'
      BY <1>0, <2>3 DEF FramesTrue
    <3> QED
      BY <1>2, <1>3, <2>3, <3>1
  <2>4. CASE /\ agent = "asked" /\ ~kms /\ agent' = "done" /\ agentKey' = agentKey
             /\ AgentSends(Complete)
    <3>1. FramesTrue'
      BY <1>0, <2>4, AgentSendsEffect, FrameFacts DEF FramesTrue
    <3>2. KeysAgree'
      BY <1>0, <2>4 DEF KeysAgree
    <3> QED
      BY <1>2, <1>4, <2>4, <3>1, <3>2
  <2>5. CASE /\ agent = "asked" /\ kms /\ agent' = "challenging"
             /\ Head(out).key # 0 /\ agentKey' = Head(out).key
             /\ AgentSends(Challenge(Head(out).key))
    <3>1. agentKey' \in 1..keys
      BY <1>k, <2>2, <2>5
    <3>2. FramesTrue'
      BY <1>0, <2>1, <2>5, <3>1, AgentSendsEffect, FrameFacts DEF FramesTrue
    <3>3. KeysAgree'
      BY <1>0, <2>5, <3>1 DEF KeysAgree
    <3> QED
      BY <1>2, <1>4, <2>5, <3>2, <3>3
  <2> QED
    BY <1>6, <2>3, <2>4, <2>5, ResponseEffect
<1>7. CASE AgentTakesChallenge
  <2>1. Head(out) \in Queued /\ Head(out).kind = "challenge" /\ Head(out).sent
    BY <1>7, TakesEffect DEF AgentTakesChallenge, AgentTakes
  <2>2. encryptionEnabled \/ reader = "enable"
    BY <2>1 DEF MessagesTrue
  <2>3. agentKey' = agentKey
    BY <1>7 DEF AgentTakesChallenge
  <2>4. CASE agent = "challenging" /\ agent' = "done" /\ AgentSends(Complete)
    <3>1. FramesTrue'
      BY <1>0, <2>3, <2>4, AgentSendsEffect, FrameFacts DEF FramesTrue
    <3>2. KeysAgree'
      BY <1>0, <2>2, <2>3, <2>4 DEF KeysAgree
    <3> QED
      BY <1>2, <1>4, <2>3, <2>4, <3>1, <3>2
  <2>5. CASE UNCHANGED <<agent, net, unacked>>
    <3>1. FramesTrue'
      BY <1>0, <2>3, <2>5 DEF FramesTrue
    <3> QED
      BY <1>2, <1>3, <2>3, <2>5, <3>1
  <2> QED
    BY <1>7, <2>4, <2>5 DEF AgentTakesChallenge
<1>8. CASE AgentTakesData
  <2>1. UNCHANGED <<agent, agentKey, net, unacked>>
    BY <1>8 DEF AgentTakesData
  <2>2. FramesTrue'
    BY <1>0, <2>1 DEF FramesTrue
  <2> QED
    BY <1>2, <1>3, <2>1, <2>2
<1>9. CASE AgentSendsOutput
  <2> DEFINE f == Output(sentOutputs + 1, agentKey)
  <2>1. /\ agent = "done" /\ AgentSends(f) /\ UNCHANGED <<agent, agentKey>>
        /\ f.type = "output" /\ f.key = agentKey
    BY <1>9 DEF AgentSendsOutput, Output
  <2> HIDE DEF f
  <2>2. FramesTrue'
    BY <1>0, <2>1, AgentSendsEffect DEF FramesTrue
  <2> QED
    BY <1>2, <1>3, <2>1, <2>2
<1> QED
  BY <1>5, <1>6, <1>7, <1>8, <1>9 DEF AgentStep

LEMMA NetworkKeepsAgreement ==
  ASSUME TypeOK, Agreement, Results,
         \/ \E f \in unacked : AgentResends(f)
         \/ ResponseLost \/ ChannelEnds \/ ContextCancelled \/ UNCHANGED vars
  PROVE  Agreement' /\ Results'
<1> USE DEF Agreement, sessionVars, loopVars, keyVars, writerVars, agentVars, netVars,
            appVars, vars
<1>0. /\ net' \subseteq net \union unacked /\ unacked' = unacked
      /\ channel' = channel \/ channel' = "down"
      /\ ctxDone' = ctxDone \/ ctxDone'
      /\ UNCHANGED <<kms, loopVars, keyVars, writerVars, agentVars, appVars, garbled>>
  BY DEF AgentResends, ResponseLost, ChannelEnds, ContextCancelled
<1>1. \A s \in Queued' :
        \/ s \in Queued
        \/ /\ s.kind = "lost"
           /\ \E r \in Queued : r.kind = "response" /\ r.by = s.by /\ r.key = s.key
  <2>1. CASE ResponseLost
    BY <2>1, LostQueues, TypeParts DEF QueueOK
  <2>2. CASE ~ResponseLost
    <3>1. out' = out
      BY <2>2 DEF AgentResends, ChannelEnds, ContextCancelled
    <3> QED
      BY <3>1 DEF Queued
  <2> QED
    BY <2>1, <2>2
<1>2. Following' /\ KeysAgree' /\ WritersWait'
  BY <1>0 DEF Following, Waiting, KeysAgree, WritersWait, Agreed
<1>3. FramesTrue'
  BY <1>0 DEF FramesTrue
<1>4. MessagesTrue'
  BY <1>0, <1>1 DEF MessagesTrue
<1>5. Results'
  BY <1>0 DEF Results, ClosedOnce, BothReadable, ReaderKeepsOn
<1> QED
  BY <1>2, <1>3, <1>4, <1>5

LEMMA NextAgreement ==
  ASSUME TypeOK, Agreement, Results, [Next]_vars
  PROVE  Agreement' /\ Results'
<1>1. ASSUME NEW f \in net, Receive(f) PROVE Agreement' /\ Results'
  BY <1>1, RequestKeepsAgreement, ChallengeKeepsAgreement, CompleteKeepsAgreement,
     OutputKeepsAgreement, FailureKeepsAgreement DEF Receive
<1> QED
  BY <1>1, LoopKeepsAgreement, AnswerKeepsAgreement, WriterKeepsAgreement,
     AgentKeepsAgreement, NetworkKeepsAgreement DEF Next, ReaderStep

LEMMA AlwaysAgreement ==
  ASSUME ~Shell
  PROVE  Spec => [](Agreement /\ Results)
BY InitAgreement, NextAgreement, TypeCorrect, PTL DEF Spec

\* In a session that waits for the handshake, neither side takes data for what it is
\* not: what is sealed with a key is read with that key, what is in the clear is read
\* as such, until a second HandshakeRequest has changed the client's keys.
THEOREM BothSidesRead ==
  ASSUME ~Shell
  PROVE  Spec => []BothReadable
<1>1. Results => BothReadable
  BY DEF Results
<1> QED
  BY <1>1, AlwaysAgreement, PTL

\* HandshakeComplete may come again, and closes handshakeCh once.
THEOREM HandshakeClosedOnce ==
  ASSUME ~Shell
  PROVE  Spec => []ClosedOnce
<1>1. Results => ClosedOnce
  BY DEF Results
<1> QED
  BY <1>1, AlwaysAgreement, PTL

\* No frame that comes again ends the reader, a HandshakeRequest for new keys excepted.
THEOREM RepeatedFramesHarmless ==
  ASSUME ~Shell
  PROVE  Spec => []ReaderKeepsOn
<1>1. Results => ReaderKeepsOn
  BY DEF Results
<1> QED
  BY <1>1, AlwaysAgreement, PTL
=============================================================================
