------------------------------- MODULE Inbound -------------------------------
(***************************************************************************)
(* The inbound half of one data channel: the reassembly of the agent's     *)
(* Output frames in sequence order (handleOutputData of                    *)
(* datachannel/data_channel.go), with the acknowledgements it sends.       *)
(*                                                                         *)
(* A frame is its sequence number.  The agent is not part of the           *)
(* repository; it is modelled from what the comments and                   *)
(* datachannel/stress_inbound_test.go say of it: it numbers its frames     *)
(* consecutively, may send them out of order, and sends a frame again      *)
(* until it has an acknowledgement for it.                                 *)
(***************************************************************************)
EXTENDS Integers, Sequences, FiniteSets, Functions

CONSTANTS
  First,           \* the number of the stream's first frame
  FirstInOrder,    \* TRUE: the first frame to arrive is the stream's first
  MaxFrames        \* bound: frames the agent sends

ASSUME FirstAssumption == First \in Nat
ASSUME FirstInOrderAssumption == FirstInOrder \in BOOLEAN
ASSUME MaxFramesAssumption == MaxFrames \in Nat

VARIABLES
  dataBuf,         \* numbers of the frames awaiting in-order delivery
  dataSeqNum,      \* next expected number
  dataSeqInit,     \* dataSeqNum has been seeded
  dataDelivered,   \* some payload has been delivered
  output,          \* the payloads handed to the caller, in order
  reader,          \* "running" or "exited"
  sent,            \* how many frames the agent has sent
  unacked,         \* those it would still send again
  net,             \* frames in flight
  ackNet,          \* acknowledgements in flight
  acked            \* history: the frames the client has acknowledged

dataVars == <<dataBuf, dataSeqNum, dataSeqInit, dataDelivered>>
clientVars == <<dataVars, output, reader>>
agentVars == <<sent, unacked>>
vars == <<clientVars, agentVars, net, ackNet, acked>>

Frames == First..(First + MaxFrames - 1)
Sent == First..(First + sent - 1)

Init ==
  /\ dataBuf = {}
  /\ dataSeqNum = 0
  /\ dataSeqInit = FALSE
  /\ dataDelivered = FALSE
  /\ output = <<>>
  /\ reader = "running"
  /\ sent = 0
  /\ unacked = {}
  /\ net = {}
  /\ ackNet = {}
  /\ acked = {}

---------------------------------------------------------------------------
\* handleOutputData.

\* Bugs: the seed of the code before the watermark could move down only works
\* for a stream that starts at 0; a frame above the expected number is dropped;
\* only one frame is drained; duplicates are not acknowledged, or the next frame
\* is; a lower number moves the watermark back after delivery has begun.
SeedAtZero(s) == dataSeqNum
StoreOnlyExpected(s) == IF s = dataSeqNum THEN dataBuf \union {s} ELSE dataBuf
DrainOne(stored, from, next) ==
  next = IF from \in stored THEN from + 1 ELSE from
AckNewOnly(s) == IF dataSeqInit /\ s < dataSeqNum THEN {} ELSE {s}
AckNext(s) == {s + 1}
SeedMovesBack(s) ==
  IF ~dataSeqInit \/ s < dataSeqNum THEN s ELSE dataSeqNum

\* The watermark after seeding: the first frame's number, or a lower one as
\* long as nothing has been delivered.
Seed(s) ==
  IF ~dataSeqInit \/ (s < dataSeqNum /\ ~dataDelivered) THEN s ELSE dataSeqNum

\* The acknowledgement that goes out before anything else is looked at.
AckFor(s) == {s}

Store(s) == dataBuf \union {s}

\* The drain loop takes every frame from the watermark up to the next gap.
DrainsTo(stored, from, next) ==
  /\ from..(next - 1) \subseteq stored
  /\ next \notin stored

Receive(s) ==
  /\ reader = "running"
  /\ s \in net
  /\ FirstInOrder /\ ~dataSeqInit => s = First
  /\ net' = net \ {s}
  /\ ackNet' = ackNet \union AckFor(s)
  /\ acked' = acked \union AckFor(s)
  /\ dataSeqInit' = TRUE
  /\ \/ /\ s < Seed(s)
        /\ dataSeqNum' = Seed(s)
        /\ UNCHANGED <<dataBuf, dataDelivered, output>>
     \/ /\ s >= Seed(s)
        /\ \E next \in Seed(s)..(Seed(s) + Cardinality(Store(s))) :
             /\ DrainsTo(Store(s), Seed(s), next)
             /\ dataBuf' = Store(s) \ (Seed(s)..(next - 1))
             /\ dataSeqNum' = next
             /\ dataDelivered' = (dataDelivered \/ next > Seed(s))
             /\ output' = output \o [i \in 1..(next - Seed(s)) |-> Seed(s) + i - 1]
  /\ UNCHANGED <<reader, agentVars>>

\* The payload does not decrypt, or the acknowledgement cannot be written: the
\* handler returns the error before it stores the frame, and the reader's loop
\* ends.
ReceiveFails(s) ==
  /\ reader = "running"
  /\ s \in net
  /\ net' = net \ {s}
  /\ reader' = "exited"
  /\ UNCHANGED <<dataVars, output, agentVars, ackNet, acked>>

---------------------------------------------------------------------------
\* The agent and the network, outside the repository.

AgentSends ==
  /\ sent < MaxFrames
  /\ sent' = sent + 1
  /\ unacked' = unacked \union {First + sent}
  /\ net' = net \union {First + sent}
  /\ UNCHANGED <<clientVars, ackNet, acked>>

AgentResends(s) ==
  /\ s \in unacked
  /\ net' = net \union {s}
  /\ UNCHANGED <<clientVars, agentVars, ackNet, acked>>

AgentHandlesAck(s) ==
  /\ s \in ackNet
  /\ ackNet' = ackNet \ {s}
  /\ unacked' = unacked \ {s}
  /\ UNCHANGED <<clientVars, sent, net, acked>>

FrameLost(s) ==
  /\ s \in net
  /\ net' = net \ {s}
  /\ UNCHANGED <<clientVars, agentVars, ackNet, acked>>

AckLost(s) ==
  /\ s \in ackNet
  /\ ackNet' = ackNet \ {s}
  /\ UNCHANGED <<clientVars, agentVars, net, acked>>

---------------------------------------------------------------------------
Next ==
  \/ AgentSends
  \/ \E s \in net : Receive(s) \/ ReceiveFails(s) \/ FrameLost(s)
  \/ \E s \in ackNet : AgentHandlesAck(s) \/ AckLost(s)
  \/ \E s \in unacked : AgentResends(s)

Spec == Init /\ [][Next]_vars

\* The agent keeps sending a frame again until it is acknowledged, and neither
\* every copy of a frame nor every acknowledgement of it is lost.
FairSpec ==
  /\ Spec
  /\ \A s \in Frames :
       /\ WF_vars(AgentResends(s))
       /\ SF_vars(Receive(s))
       /\ SF_vars(AgentHandlesAck(s))

---------------------------------------------------------------------------
TypeOK ==
  /\ dataBuf \subseteq Nat
  /\ dataSeqNum \in Nat
  /\ dataSeqInit \in BOOLEAN
  /\ dataDelivered \in BOOLEAN
  /\ output \in Seq(Nat)
  /\ reader \in {"running", "exited"}
  /\ sent \in Nat
  /\ unacked \subseteq Sent
  /\ net \subseteq Sent
  /\ ackNet \subseteq acked
  /\ acked \subseteq Sent

\* What an acknowledgement promises the agent, which forgets the frame: the
\* payload has been delivered or is in the reorder buffer.
AckedNotLost == \A s \in acked : s \in Range(output) \/ s \in dataBuf

\* Nothing that could be delivered is kept waiting for another frame, and the
\* reorder buffer keeps nothing that was delivered.
OnlyGapsBuffered == \A s \in dataBuf : s > dataSeqNum

\* Every frame is delivered in the end, whatever is lost, repeated or
\* reordered, unless the reader has ended.
EventuallyDelivered ==
  \A s \in Frames :
    s \in Sent ~> s \in Range(output) \/ reader = "exited"

\* "Every received frame is acknowledged -- including duplicates -- so the
\* agent stops retransmitting" (data_channel.go:474).
AgentStopsResending ==
  \A s \in Frames :
    s \in Sent ~> s \notin unacked \/ reader = "exited"

Promised == INSTANCE ReliableStream WITH
  Payloads <- Frames, Positions <- Frames, Base <- First,
  stream <- [s \in Sent |-> s], delivered <- output

\* The caller is given a reliable stream: the agent's frames, each once, in
\* order, with no gap.
ImplementsReliableStream == Promised!Spec
=============================================================================
