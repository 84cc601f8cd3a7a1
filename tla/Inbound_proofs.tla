--------------------------- MODULE Inbound_proofs ---------------------------
(***************************************************************************)
(* Theorems about Inbound for every First, MaxFrames and interleaving,     *)
(* under the assumption that the stream's first frame is the first to      *)
(* arrive (FirstInOrder).  Inbound_seed.cfg shows why they need it.        *)
(***************************************************************************)
EXTENDS Inbound, FiniteSetTheorems, TLAPS

\* The inductive invariant.  The output is the run of numbers from First on,
\* and the watermark is the number that follows it; the reorder buffer holds
\* only frames beyond the watermark.  Because the first frame is drained on
\* arrival, dataDelivered is TRUE from then on and the watermark never moves
\* back: that is what keeps a lower number from being treated as new.
OutputIsRun == output = [i \in 1..Len(output) |-> First + i - 1]
BeforeFirst ==
  ~dataSeqInit => dataBuf = {} /\ output = <<>> /\ acked = {}
AfterFirst ==
  dataSeqInit => dataDelivered /\ dataSeqNum = First + Len(output)
AckedKept == \A s \in acked : s < First + Len(output) \/ s \in dataBuf
BufferedSent == dataBuf \subseteq Sent /\ Len(output) <= sent

IInv ==
  /\ TypeOK
  /\ OutputIsRun
  /\ BeforeFirst
  /\ AfterFirst
  /\ AckedKept
  /\ BufferedSent
  /\ OnlyGapsBuffered

\* Appending the drained frames to the output continues the run.
LEMMA RunExtends ==
  ASSUME NEW out \in Seq(Nat), NEW first \in Nat, NEW k \in Nat,
         out = [i \in 1..Len(out) |-> first + i - 1]
  PROVE  LET longer == out \o [i \in 1..k |-> first + Len(out) + i - 1]
         IN  /\ longer \in Seq(Nat)
             /\ Len(longer) = Len(out) + k
             /\ longer = [i \in 1..Len(longer) |-> first + i - 1]
<1> DEFINE more == [i \in 1..k |-> first + Len(out) + i - 1]
<1>1. more \in Seq(Nat) /\ Len(more) = k
  OBVIOUS
<1>2. Len(out \o more) = Len(out) + k /\ out \o more \in Seq(Nat)
  BY <1>1
<1>3. \A i \in 1..Len(out \o more) : (out \o more)[i] = first + i - 1
  BY <1>1, <1>2
<1> QED
  BY <1>2, <1>3

LEMMA InitIInv == Init => IInv
<1> SUFFICES ASSUME Init PROVE IInv
  OBVIOUS
<1> USE FirstAssumption DEF Init
<1>1. TypeOK
  <2>1. output \in Seq(Nat)
    OBVIOUS
  <2>2. /\ dataSeqInit \in BOOLEAN /\ dataDelivered \in BOOLEAN
        /\ reader \in {"running", "exited"}
        /\ dataSeqNum \in Nat /\ sent \in Nat
    OBVIOUS
  <2>3. /\ dataBuf \subseteq Nat /\ unacked \subseteq Sent /\ net \subseteq Sent
        /\ ackNet \subseteq acked /\ acked \subseteq Sent
    OBVIOUS
  <2> QED
    BY <2>1, <2>2, <2>3 DEF TypeOK
<1>2. OutputIsRun
  <2>1. Len(output) = 0
    OBVIOUS
  <2>2. [i \in 1..Len(output) |-> First + i - 1] = <<>>
    BY <2>1
  <2> QED
    BY <2>2 DEF OutputIsRun
<1>3. BeforeFirst /\ AfterFirst /\ AckedKept /\ OnlyGapsBuffered
  BY DEF BeforeFirst, AfterFirst, AckedKept, OnlyGapsBuffered
<1>4. BufferedSent
  BY DEF BufferedSent, Sent
<1> QED
  BY <1>1, <1>2, <1>3, <1>4 DEF IInv

\* Only finitely many frames are buffered, so the drain loop has a bound.
LEMMA StoreFinite ==
  ASSUME IInv, NEW s \in net
  PROVE  IsFiniteSet(Store(s)) /\ Cardinality(Store(s)) \in Nat
<1>1. IsFiniteSet(Sent)
  BY FS_Interval, FirstAssumption DEF IInv, TypeOK, Sent
<1>2. IsFiniteSet(dataBuf)
  BY <1>1, FS_Subset DEF IInv, BufferedSent
<1> QED
  BY <1>2, FS_AddElement, FS_CardinalityType DEF Store

\* The step that matters: a frame arrives in order, out of order or again.
LEMMA ReceiveKeepsIInv ==
  ASSUME FirstInOrder = TRUE, IInv, NEW s \in net, Receive(s)
  PROVE  IInv' /\ Len(output') >= Len(output)
<1> USE FirstAssumption
<1>types. /\ s \in Nat /\ s \in Sent /\ dataSeqNum \in Nat /\ sent \in Nat
          /\ First <= s /\ s <= First + sent - 1
          /\ output \in Seq(Nat) /\ Len(output) \in Nat
          /\ dataBuf \subseteq Sent
  BY DEF IInv, TypeOK, Sent, BufferedSent
<1>seed. /\ Seed(s) = First + Len(output)
         /\ ~dataSeqInit => s = First /\ Seed(s) = s
  <2>1. CASE dataSeqInit
    BY <2>1 DEF IInv, AfterFirst, Seed
  <2>2. CASE ~dataSeqInit
    BY <2>2 DEF IInv, BeforeFirst, Seed, Receive
  <2> QED
    BY <2>1, <2>2
<1>sent. Sent' = Sent /\ sent' = sent
  BY DEF Receive, agentVars, Sent
<1>1. CASE s < Seed(s)
  <2>1. dataSeqInit
    BY <1>1, <1>seed, <1>types
  <2>a. ~(s >= Seed(s))
    BY <1>1, <1>seed, <1>types
  <2>b. UNCHANGED <<dataBuf, dataDelivered, output>> /\ dataSeqNum' = Seed(s)
    BY <2>a DEF Receive
  <2>2. /\ UNCHANGED <<dataBuf, dataDelivered, output>>
        /\ dataSeqNum' = dataSeqNum /\ dataSeqInit' = TRUE
        /\ acked' = acked \union {s}
        /\ ackNet' = ackNet \union {s} /\ net' = net \ {s}
        /\ reader' = reader /\ unacked' = unacked
    BY <2>b, <2>1, <1>seed DEF Receive, IInv, AfterFirst, AckFor, agentVars
  <2>3. TypeOK'
    BY <2>2, <1>sent, <1>types DEF IInv, TypeOK, Receive
  <2>4. AckedKept'
    BY <2>2, <1>1, <1>seed DEF IInv, AckedKept
  <2> QED
    BY <2>1, <2>2, <2>3, <2>4, <1>sent, <1>types
       DEF IInv, OutputIsRun, BeforeFirst, AfterFirst, BufferedSent, OnlyGapsBuffered
<1>2. CASE s >= Seed(s)
  <2>0. PICK next \in Seed(s)..(Seed(s) + Cardinality(Store(s))) :
             /\ DrainsTo(Store(s), Seed(s), next)
             /\ dataBuf' = Store(s) \ (Seed(s)..(next - 1))
             /\ dataSeqNum' = next
             /\ dataDelivered' = (dataDelivered \/ next > Seed(s))
             /\ output' = output \o [i \in 1..(next - Seed(s)) |-> Seed(s) + i - 1]
    <3>1. ~(s < Seed(s))
      BY <1>2, <1>seed, <1>types
    <3> QED
      BY <3>1 DEF Receive
  <2>db. dataBuf' = Store(s) \ (Seed(s)..(next - 1))
    BY <2>0
  <2> DEFINE k == next - Seed(s)
  <2>1. next \in Nat /\ next >= Seed(s) /\ k \in Nat /\ Seed(s) \in Nat
    BY <2>0, StoreFinite, <1>seed, <1>types
  <2>2. /\ acked' = acked \union {s} /\ dataSeqInit' = TRUE
        /\ ackNet' = ackNet \union {s} /\ net' = net \ {s}
        /\ reader' = reader /\ unacked' = unacked
    BY DEF Receive, AckFor, agentVars
  <2>3. Seed(s)..(next - 1) \subseteq Store(s) /\ next \notin Store(s)
    BY <2>0 DEF DrainsTo
  <2>4. /\ output' \in Seq(Nat)
        /\ Len(output') = Len(output) + k
        /\ OutputIsRun'
    BY RunExtends, <2>0, <2>1, <1>seed, <1>types DEF IInv, OutputIsRun
  <2>5. Store(s) \subseteq Sent
    BY <1>types DEF Store
  <2>6. TypeOK'
    BY <2>0, <2>1, <2>2, <2>4, <2>5, <1>sent, <1>types DEF IInv, TypeOK, Sent
  <2>7. AfterFirst'
    <3>1. next = First + Len(output')
      BY <2>1, <2>4, <1>seed, <1>types
    <3>2. CASE dataSeqInit
      BY <3>1, <3>2, <2>0, <2>2 DEF AfterFirst, IInv
    <3>3. CASE ~dataSeqInit
      <4>1. Seed(s) \in Store(s)
        BY <3>3, <1>seed DEF Store
      <4>2. next > Seed(s)
        BY <4>1, <2>1, <2>3
      <4> QED
        BY <4>2, <3>1, <2>0, <2>2 DEF AfterFirst
    <3> QED
      BY <3>2, <3>3
  <2>8. AckedKept'
    <3> SUFFICES ASSUME NEW a \in acked'
                 PROVE  a < First + Len(output') \/ a \in dataBuf'
      BY DEF AckedKept
    <3>1. next = First + Len(output')
      BY <2>1, <2>4, <1>seed, <1>types
    <3>2. a \in Nat /\ (a < Seed(s) \/ a \in Store(s))
      BY <2>2, <1>seed, <1>types DEF IInv, AckedKept, Store, TypeOK, Sent
    <3> QED
      BY <3>1, <3>2, <2>db, <2>1
  <2>9. OnlyGapsBuffered'
    <3> SUFFICES ASSUME NEW b \in dataBuf' PROVE b > next
      BY <2>0 DEF OnlyGapsBuffered
    <3>1. b \in Nat /\ b \in Store(s) /\ b # next /\ ~(Seed(s) <= b /\ b <= next - 1)
      BY <2>0, <2>1, <2>3, <2>5 DEF Sent
    <3>2. b >= Seed(s)
      <4>1. CASE b = s
        BY <4>1, <1>2
      <4>2. CASE b \in dataBuf
        <5>1. dataSeqInit
          BY <4>2 DEF IInv, BeforeFirst
        <5> QED
          BY <4>2, <5>1, <1>seed, <3>1, <2>1 DEF IInv, OnlyGapsBuffered, AfterFirst
      <4> QED
        BY <4>1, <4>2, <3>1 DEF Store
    <3> QED
      BY <3>1, <3>2, <2>1
  <2>10. BufferedSent'
    <3>1. dataBuf' \subseteq Sent
      BY <2>0, <2>5
    <3>2. Len(output') <= sent
      <4>1. CASE k = 0
        BY <4>1, <2>4, <1>types DEF IInv, BufferedSent
      <4>2. CASE k > 0
        <5>1. next - 1 \in Sent
          BY <4>2, <2>1, <2>3, <2>5
        <5> QED
          BY <5>1, <2>1, <2>4, <1>seed, <1>types DEF Sent
      <4> QED
        BY <4>1, <4>2, <2>1
    <3> QED
      BY <3>1, <3>2, <1>sent DEF BufferedSent
  <2>11. BeforeFirst'
    BY <2>2 DEF BeforeFirst
  <2> QED
    BY <2>1, <2>4, <2>6, <2>7, <2>8, <2>9, <2>10, <2>11, <1>types DEF IInv
<1> QED
  BY <1>1, <1>2, <1>seed, <1>types

LEMMA NextKeepsIInv ==
  ASSUME FirstInOrder = TRUE, IInv, [Next]_vars
  PROVE  IInv'
<1> USE FirstAssumption DEF IInv
<1>0. sent \in Nat /\ Sent = First..(First + sent - 1)
  BY DEF TypeOK, Sent
<1>1. CASE AgentSends
  <2>1. /\ UNCHANGED <<clientVars, ackNet, acked>>
        /\ sent' = sent + 1
        /\ unacked' = unacked \union {First + sent}
        /\ net' = net \union {First + sent}
    BY <1>1 DEF AgentSends
  <2>2. Sent \subseteq Sent' /\ First + sent \in Sent'
    BY <1>0, <2>1 DEF Sent
  <2>3. TypeOK'
    BY <2>1, <2>2 DEF TypeOK, clientVars, dataVars
  <2>4. BufferedSent'
    BY <1>0, <2>1, <2>2 DEF BufferedSent, TypeOK, clientVars, dataVars
  <2> QED
    BY <2>1, <2>3, <2>4
       DEF OutputIsRun, BeforeFirst, AfterFirst, AckedKept, OnlyGapsBuffered,
           clientVars, dataVars
<1>2. ASSUME NEW s \in net, Receive(s) PROVE IInv'
  BY <1>2, ReceiveKeepsIInv
<1>3. ASSUME NEW s \in net, ReceiveFails(s) PROVE IInv'
  <2>1. /\ UNCHANGED <<dataVars, output, agentVars, ackNet, acked>>
        /\ net' = net \ {s} /\ reader' = "exited"
    BY <1>3 DEF ReceiveFails
  <2>2. TypeOK' /\ BufferedSent'
    BY <2>1 DEF TypeOK, BufferedSent, Sent, dataVars, agentVars
  <2> QED
    BY <2>1, <2>2
       DEF OutputIsRun, BeforeFirst, AfterFirst, AckedKept, OnlyGapsBuffered, dataVars
<1>4. ASSUME \/ \E s \in net : FrameLost(s)
             \/ \E s \in ackNet : AgentHandlesAck(s) \/ AckLost(s)
             \/ \E s \in unacked : AgentResends(s)
             \/ UNCHANGED vars
      PROVE  IInv'
  <2>1. UNCHANGED <<dataVars, output, reader, sent, acked>>
    BY <1>4 DEF FrameLost, AgentHandlesAck, AckLost, AgentResends, vars, clientVars,
                agentVars
  <2>2. /\ unacked' \subseteq unacked /\ ackNet' \subseteq ackNet
        /\ net' \subseteq net \union unacked
    BY <1>4 DEF FrameLost, AgentHandlesAck, AckLost, AgentResends, vars, clientVars,
                agentVars
  <2>3. TypeOK' /\ BufferedSent'
    BY <2>1, <2>2 DEF TypeOK, BufferedSent, Sent, dataVars
  <2> QED
    BY <2>1, <2>3
       DEF OutputIsRun, BeforeFirst, AfterFirst, AckedKept, OnlyGapsBuffered, dataVars
<1> QED
  BY <1>1, <1>2, <1>3, <1>4 DEF Next

LEMMA AlwaysIInv ==
  ASSUME FirstInOrder = TRUE
  PROVE  Spec => []IInv
BY InitIInv, NextKeepsIInv, PTL DEF Spec

\* Type correctness of the inbound half.
THEOREM InboundTypeCorrect ==
  ASSUME FirstInOrder = TRUE
  PROVE  Spec => []TypeOK
<1>1. IInv => TypeOK
  BY DEF IInv
<1> QED
  BY <1>1, AlwaysIInv, PTL

\* A frame handleOutputData has acknowledged, and the agent therefore forgets,
\* has been delivered or waits in the reorder buffer.
THEOREM NoAckedFrameLost ==
  ASSUME FirstInOrder = TRUE
  PROVE  Spec => []AckedNotLost
<1>1. IInv => AckedNotLost
  <2> SUFFICES ASSUME IInv, NEW s \in acked
               PROVE  s \in Range(output) \/ s \in dataBuf
    BY DEF AckedNotLost
  <2>1. CASE s \in dataBuf
    BY <2>1
  <2>2. CASE s < First + Len(output)
    <3>1. s \in Nat /\ s >= First /\ Len(output) \in Nat
      BY FirstAssumption DEF IInv, TypeOK, Sent
    <3>2. s - First + 1 \in 1..Len(output) /\ DOMAIN output = 1..Len(output)
      BY <2>2, <3>1, FirstAssumption DEF IInv, TypeOK
    <3>3. output[s - First + 1] = s
      BY <3>1, <3>2, FirstAssumption DEF IInv, OutputIsRun
    <3> QED
      BY <3>2, <3>3 DEF Range
  <2> QED
    BY <2>1, <2>2 DEF IInv, AckedKept
<1> QED
  BY <1>1, AlwaysIInv, PTL

\* Nothing deliverable is kept waiting, and nothing delivered is kept.
THEOREM OnlyGapsAreBuffered ==
  ASSUME FirstInOrder = TRUE
  PROVE  Spec => []OnlyGapsBuffered
<1>1. IInv => OnlyGapsBuffered
  BY DEF IInv
<1> QED
  BY <1>1, AlwaysIInv, PTL

---------------------------------------------------------------------------
\* The refinement: each step puts a frame at its own position of the stream,
\* lengthens the delivered prefix, or does neither.

LEMMA PromisedInit == Init => Promised!Init
BY FirstAssumption DEF Init, Promised!Init, Sent

LEMMA SendPuts ==
  ASSUME IInv, AgentSends
  PROVE  Promised!Next
<1>0. sent \in Nat /\ First \in Nat /\ MaxFrames \in Nat /\ sent < MaxFrames
  BY FirstAssumption, MaxFramesAssumption DEF IInv, TypeOK, AgentSends
<1>s. PICK s \in Frames : s = First + sent
  BY <1>0 DEF Frames
<1>1. s \notin Sent
  BY <1>0, <1>s DEF Sent
<1>2. Sent' = Sent \union {s} /\ output' = output
  BY <1>0, <1>s DEF AgentSends, Sent, clientVars
<1> DEFINE now == [x \in Sent |-> x]
<1>3. now' = [x \in Sent' |-> x]
  OBVIOUS
<1>4. /\ now' = [t \in DOMAIN now \union {s} |-> IF t = s THEN now'[s] ELSE now[t]]
      /\ s \in DOMAIN now' /\ now'[s] \in Frames /\ s \notin DOMAIN now
  BY <1>1, <1>2, <1>3
<1> QED
  BY <1>2, <1>4 DEF Promised!Next, Promised!Put

LEMMA ReceiveDelivers ==
  ASSUME FirstInOrder = TRUE, IInv, NEW s \in net, Receive(s), sent <= MaxFrames
  PROVE  Promised!Next \/ UNCHANGED <<Sent, output>>
<1>0. IInv' /\ Sent' = Sent
  BY ReceiveKeepsIInv DEF Receive, agentVars, Sent
<1>1. CASE output' = output
  BY <1>0, <1>1
<1>2. CASE output' # output
  <2> DEFINE last == First + Len(output') - 1
  <2>1. /\ Len(output) \in Nat /\ Len(output') \in Nat /\ First \in Nat
        /\ sent \in Nat /\ MaxFrames \in Nat /\ Len(output') <= sent
    BY <1>0, FirstAssumption, MaxFramesAssumption
       DEF IInv, TypeOK, BufferedSent, Receive, agentVars
  <2>2. Len(output') > Len(output)
    <3>1. Len(output') >= Len(output)
      BY ReceiveKeepsIInv
    <3>2. Len(output') # Len(output)
      BY <1>0, <1>2 DEF IInv, OutputIsRun
    <3> QED
      BY <2>1, <3>1, <3>2
  <2>3. \A x \in First..last : x \in Sent
    BY <2>1 DEF Sent
  <2>4. output' = [i \in 1..(last - First + 1) |-> [x \in Sent |-> x][First + i - 1]]
    <3>1. last - First + 1 = Len(output')
      BY <2>1
    <3>2. \A i \in 1..Len(output') : [x \in Sent |-> x][First + i - 1] = First + i - 1
      BY <2>1 DEF Sent
    <3>3. output' = [i \in 1..Len(output') |-> First + i - 1]
      BY <1>0 DEF IInv, OutputIsRun
    <3> QED
      BY <3>1, <3>2, <3>3
  <2>5. Promised!Deliver(last)
    BY <1>0, <2>1, <2>2, <2>3, <2>4 DEF Promised!Deliver
  <2> QED
    BY <2>5 DEF Promised!Next
<1> QED
  BY <1>1, <1>2

LEMMA AlwaysBounded == Spec => [](sent \in Nat /\ sent <= MaxFrames)
<1> DEFINE Bounded == sent \in Nat /\ sent <= MaxFrames
<1>1. Init => Bounded
  BY MaxFramesAssumption DEF Init
<1>2. Bounded /\ [Next]_vars => Bounded'
  BY MaxFramesAssumption
     DEF Next, AgentSends, Receive, ReceiveFails, FrameLost, AgentHandlesAck, AckLost,
         AgentResends, vars, clientVars, agentVars
<1> QED
  BY <1>1, <1>2, PTL DEF Spec

\* Inbound implements ReliableStream: the caller is given the agent's frames,
\* each once, in order, with no gap.
THEOREM InboundImplementsStream ==
  ASSUME FirstInOrder = TRUE
  PROVE  Spec => ImplementsReliableStream
<1>1. Init => Promised!Init
  BY PromisedInit
<1>2. IInv /\ sent <= MaxFrames /\ [Next]_vars => [Promised!Next]_(Promised!streamVars)
  <2> SUFFICES ASSUME IInv, sent <= MaxFrames, [Next]_vars
               PROVE  Promised!Next \/ UNCHANGED <<Sent, output>>
    BY DEF Promised!streamVars, Sent
  <2>1. CASE AgentSends
    BY <2>1, SendPuts
  <2>2. ASSUME NEW s \in net, Receive(s)
        PROVE  Promised!Next \/ UNCHANGED <<Sent, output>>
    BY <2>2, ReceiveDelivers
  <2>3. ASSUME \/ \E s \in net : ReceiveFails(s) \/ FrameLost(s)
               \/ \E s \in ackNet : AgentHandlesAck(s) \/ AckLost(s)
               \/ \E s \in unacked : AgentResends(s)
               \/ UNCHANGED vars
        PROVE  UNCHANGED <<Sent, output>>
    BY <2>3 DEF ReceiveFails, FrameLost, AgentHandlesAck, AckLost, AgentResends, vars,
                clientVars, agentVars, Sent
  <2> QED
    BY <2>1, <2>2, <2>3 DEF Next
<1> QED
  BY <1>1, <1>2, AlwaysIInv, AlwaysBounded, PTL
     DEF Spec, ImplementsReliableStream, Promised!Spec
=============================================================================
