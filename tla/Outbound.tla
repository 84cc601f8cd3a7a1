------------------------------ MODULE Outbound ------------------------------
(***************************************************************************)
(* The outbound half of one data channel (datachannel/data_channel.go):    *)
(* the threads that write to it, the window of unacknowledged messages,    *)
(* the websocket, the resend scheduler, the reader that handles the        *)
(* agent's acknowledgements, and the threads that end the session.         *)
(*                                                                         *)
(* A thread's pc says where it is inside WriteMsg (and, for the threads    *)
(* that end the session, inside TerminateSession and Close):               *)
(*                                                                         *)
(*   "idle"     between two calls                                          *)
(*   "stamp"    has a sequence number, before WriteMsg's phase 1           *)
(*   "add"      before phase 2, or waiting in it (then also in parked)     *)
(*   "send"     before phase 3                                             *)
(*   "close"    before Close                                               *)
(*   "closeWs"  inside closeOnce, before ws.Close                          *)
(*   "stopped"  done for good                                              *)
(*                                                                         *)
(* Payloads are abstracted to <<thread, count>>, and acknowledgements the  *)
(* client sends are left to Inbound.  The agent is not part of the         *)
(* repository: it is modelled from the mock agent of                       *)
(* datachannel/outbound_reliability_test.go, which keeps the first copy of *)
(* each number and acknowledges the arrivals it chooses.                   *)
(***************************************************************************)
EXTENDS MessageBuffer

CONSTANTS
  Writers,          \* goroutines that copy input into the channel
  Main,             \* the goroutine that ends the session when the reader exits
  Signal,           \* the signal handler's goroutine
  Enders,           \* those of Main and Signal this kind of session has
  SynDone,          \* TRUE: WaitForHandshakeComplete ran before the writers
  TerminateFirst,   \* TRUE: TerminateSession precedes Close (ssh and ports)
  AckKinds,         \* where the agent puts the number: "payload", "header"
  ResendTicks,      \* retransmissionTimeout / resendInterval
  MaxWrites,        \* bound: messages per writer
  MaxWire,          \* bound: frames between client and agent
  MaxAcks           \* bound: acknowledgements between agent and client

ASSUME EndersAssumption == Enders \subseteq {Main, Signal} /\ Main # Signal
ASSUME WritersAssumption == Writers \intersect {Main, Signal} = {}
ASSUME SwitchAssumption == SynDone \in BOOLEAN /\ TerminateFirst \in BOOLEAN
ASSUME BoundsAssumption ==
  /\ ResendTicks \in Nat \ {0}
  /\ MaxWrites \in Nat /\ MaxWire \in Nat /\ MaxAcks \in Nat
ASSUME AckKindsAssumption == AckKinds \subseteq {"payload", "header"}

Threads == Writers \union Enders
Message == [seq : Nat, src : Threads, n : Nat]
NoSeq == -1
AckMessage == [payload : Nat \union {NoSeq}, header : Nat]

VARIABLES
  pc,               \* thread -> where it is
  msg,              \* thread -> the message it is writing, or wrote last
  seqNum, synSent,  \* the channel's counter and flag
  wsUp,             \* whether the websocket is connected
  wire,             \* frames on their way to the agent
  acks,             \* acknowledgements on their way to the client
  reader,           \* "running" or "exited"
  frontSeq, age,    \* the scheduler's frontSeq (NoSeq: haveFront is false) and frontSince
  resend,           \* <<m>> while the scheduler is about to resend m, else <<>>
  sched,            \* "running" or "stopped"
  agentOpen,        \* the agent has not sent ChannelClosed
  received,         \* the agent's first copy of each number: number -> message
  issued,           \* history: messages whose number is final
  retained          \* history: messages AddWait accepted

threadVars == <<pc, msg>>
counterVars == <<seqNum, synSent>>
netVars == <<wsUp, wire, acks>>
schedVars == <<frontSeq, age, resend, sched>>
agentVars == <<agentOpen, received>>
historyVars == <<issued, retained>>
vars == <<bufVars, threadVars, counterVars, netVars, reader, schedVars,
          agentVars, historyVars>>

Init ==
  /\ BufInit
  /\ pc = [t \in Threads |-> "idle"]
  /\ msg = [t \in Threads |-> [seq |-> 0, src |-> t, n |-> 0]]
  /\ seqNum = 0
  /\ synSent = SynDone
  /\ wsUp = TRUE
  /\ wire = <<>>
  /\ acks = <<>>
  /\ reader = "running"
  /\ frontSeq = NoSeq
  /\ age = 0
  /\ resend = <<>>
  /\ sched = "running"
  /\ agentOpen = TRUE
  /\ received = <<>>
  /\ issued = {}
  /\ retained = {}

Goto(t, where) == pc' = [pc EXCEPT ![t] = where]

\* What a thread does when its WriteMsg has returned: a copier goes on or, on
\* an error, gives up; an ender ignores the error and closes the channel.
AfterWrite(t, ok) ==
  Goto(t, IF t \in Enders THEN "close" ELSE IF ok THEN "idle" ELSE "stopped")

---------------------------------------------------------------------------
\* Write, SetTerminalSize and TerminateSession take a number with AddInt64
\* before they call WriteMsg, outside the mutex that phase 1 holds.

\* Bugs: an increment lost to another thread; a SYN on every message.
LostIncrement == seqNum' = seqNum
EveryMessageIsSyn == TRUE

NextSeqNum == seqNum' = seqNum + 1

Allocate(t) ==
  /\ NextSeqNum
  /\ msg' = [msg EXCEPT ![t] = [seq |-> seqNum + 1, src |-> t, n |-> @.n + 1]]
  /\ Goto(t, "stamp")
  /\ UNCHANGED synSent

Begin(t) ==
  /\ t \in Writers
  /\ pc[t] = "idle"
  /\ msg[t].n < MaxWrites
  /\ Allocate(t)
  /\ UNCHANGED <<bufVars, netVars, reader, schedVars, agentVars, historyVars>>

FirstMessage == ~synSent

\* WriteMsg, phase 1: the first message of the channel is the SYN.  It takes
\* number 0 and sets the counter back, whatever it and others had allocated.
Stamp(t) ==
  /\ pc[t] = "stamp"
  /\ IF FirstMessage
       THEN /\ seqNum' = 0
            /\ msg' = [msg EXCEPT ![t].seq = 0]
       ELSE UNCHANGED <<seqNum, msg>>
  /\ synSent' = TRUE
  /\ issued' = issued \union {msg'[t]}
  /\ Goto(t, "add")
  /\ UNCHANGED <<bufVars, netVars, reader, schedVars, agentVars, retained>>

---------------------------------------------------------------------------
\* WriteMsg, phase 2: keep a copy in the window, waiting for room.

AddAccepts(t) ==
  /\ pc[t] = "add"
  /\ AddWaitAccepts(t, msg[t])
  /\ retained' = retained \union {msg[t]}
  /\ Goto(t, "send")
  /\ UNCHANGED <<msg, counterVars, netVars, reader, schedVars, agentVars, issued>>

AddParks(t) ==
  /\ pc[t] = "add"
  /\ AddWaitParks(t, msg[t])
  /\ UNCHANGED <<threadVars, counterVars, netVars, reader, schedVars, agentVars,
                 historyVars>>

AddRefused(t) ==
  /\ pc[t] = "add"
  /\ AddWaitRefuses(t)
  /\ AfterWrite(t, FALSE)
  /\ UNCHANGED <<msg, counterVars, netVars, reader, schedVars, agentVars,
                 historyVars>>

\* WriteMsg, phase 3: the websocket write, serialised by the mutex.
Send(t) ==
  /\ pc[t] = "send"
  /\ IF wsUp
       THEN /\ Len(wire) < MaxWire
            /\ wire' = Append(wire, msg[t])
       ELSE UNCHANGED wire
  /\ AfterWrite(t, wsUp)
  /\ UNCHANGED <<bufVars, msg, counterVars, wsUp, acks, reader, schedVars,
                 agentVars, historyVars>>

---------------------------------------------------------------------------
\* processOutboundQueue.  Only the oldest message is ever considered; it has
\* to be the oldest for ResendTicks ticks in a row before it is sent again.

\* Bugs: every tick restarts the front's clock; a resend does not; the reused
\* read buffer is retransmitted instead of the copy.
TickRestartsClock ==
  /\ frontSeq' = IF buf = <<>> THEN NoSeq ELSE buf[1].seq
  /\ age' = 0
  /\ UNCHANGED resend
TickKeepsClock ==
  IF buf # <<>> /\ frontSeq = buf[1].seq
    THEN /\ age' = age + 1
         /\ resend' = IF age + 1 < ResendTicks THEN <<>> ELSE <<buf[1]>>
         /\ UNCHANGED frontSeq
    ELSE TickRestartsClock
AliasedCopy(m) == [m EXCEPT !.n = msg[m.src].n]

\* Phase 2 clones the payload, so the copy keeps the bytes it had.
RetainedCopy(m) == m

TickEffect ==
  IF buf = <<>>
    THEN /\ frontSeq' = NoSeq
         /\ UNCHANGED <<age, resend>>
    ELSE IF frontSeq # buf[1].seq
      THEN /\ frontSeq' = buf[1].seq
           /\ age' = 0
           /\ UNCHANGED resend
      ELSE IF age + 1 < ResendTicks
        THEN /\ age' = age + 1
             /\ UNCHANGED <<frontSeq, resend>>
        ELSE /\ resend' = <<buf[1]>>
             /\ age' = 0
             /\ UNCHANGED frontSeq

Tick ==
  /\ sched = "running"
  /\ resend = <<>>
  /\ TickEffect
  /\ UNCHANGED <<bufVars, threadVars, counterVars, netVars, reader, sched,
                 agentVars, historyVars>>

\* resendMsg, outside the buffer's lock: the message may have been acknowledged
\* since Front returned it.  A write error is only logged.
Resend ==
  /\ resend # <<>>
  /\ IF wsUp
       THEN /\ Len(wire) < MaxWire
            /\ wire' = Append(wire, RetainedCopy(resend[1]))
       ELSE UNCHANGED wire
  /\ resend' = <<>>
  /\ UNCHANGED <<bufVars, threadVars, counterVars, wsUp, acks, reader, frontSeq,
                 age, sched, agentVars, historyVars>>

\* done is closed in the same call as the buffer.
SchedulerStops ==
  /\ sched = "running"
  /\ resend = <<>>
  /\ bufClosed
  /\ sched' = "stopped"
  /\ UNCHANGED <<bufVars, threadVars, counterVars, netVars, reader, frontSeq, age,
                 resend, agentVars, historyVars>>

---------------------------------------------------------------------------
\* The agent and the network.

\* The header's number need not be the acknowledged one; a peer that leaves the
\* payload empty acknowledges by the header.
Acknowledgement(kind, s) ==
  IF kind = "payload" THEN [payload |-> s, header |-> s + 1]
                      ELSE [payload |-> NoSeq, header |-> s]

\* The agent takes the next frame, keeps the first copy of its number, and
\* acknowledges it, or the acknowledgement never leaves it.
AgentTakes ==
  /\ agentOpen
  /\ wire # <<>>
  /\ wire' = Tail(wire)
  /\ received' = IF wire[1].seq \in DOMAIN received
                   THEN received
                   ELSE [s \in DOMAIN received \union {wire[1].seq} |->
                           IF s = wire[1].seq THEN wire[1] ELSE received[s]]

AgentReceives(kind) ==
  /\ AgentTakes
  /\ wsUp
  /\ Len(acks) < MaxAcks
  /\ acks' = Append(acks, Acknowledgement(kind, wire[1].seq))
  /\ UNCHANGED <<bufVars, threadVars, counterVars, wsUp, reader, schedVars,
                 agentOpen, historyVars>>

AgentReceivesUnacked ==
  /\ AgentTakes
  /\ UNCHANGED <<bufVars, threadVars, counterVars, wsUp, acks, reader, schedVars,
                 agentOpen, historyVars>>

\* A frame is lost behind the websocket, or with it, or the agent has gone.
FrameLost ==
  /\ wire # <<>>
  /\ wire' = Tail(wire)
  /\ UNCHANGED <<bufVars, threadVars, counterVars, wsUp, acks, reader, schedVars,
                 agentVars, historyVars>>

AgentCloses ==
  /\ agentOpen
  /\ agentOpen' = FALSE
  /\ UNCHANGED <<bufVars, threadVars, counterVars, netVars, reader, schedVars,
                 received, historyVars>>

ConnectionDrops ==
  /\ wsUp
  /\ wsUp' = FALSE
  /\ acks' = <<>>
  /\ UNCHANGED <<bufVars, threadVars, counterVars, wire, reader, schedVars,
                 agentVars, historyVars>>

---------------------------------------------------------------------------
\* The reader: ReadFrame, HandleMsg's Acknowledge case, and the three ways its
\* loop ends.

\* Bug: the header's number, which the agent need not mirror.
HeaderNumber(a) == a.header

AckedNumber(a) == IF a.payload # NoSeq THEN a.payload ELSE a.header

ReaderHandlesAck ==
  /\ reader = "running"
  /\ acks # <<>>
  /\ RemoveSeq(AckedNumber(acks[1]))
  /\ acks' = Tail(acks)
  /\ UNCHANGED <<threadVars, counterVars, wsUp, wire, reader, schedVars, agentVars,
                 historyVars>>

ReaderExits ==
  /\ reader = "running"
  /\ reader' = "exited"
  /\ UNCHANGED <<bufVars, threadVars, counterVars, netVars, schedVars, agentVars,
                 historyVars>>

ReaderSeesDrop == ~wsUp /\ ReaderExits
ReaderSeesChannelClosed == ~agentOpen /\ wsUp /\ acks = <<>> /\ ReaderExits
LocalOutputFails == wsUp /\ ReaderExits

---------------------------------------------------------------------------
\* The end of a session.  Main waits for the reader, the signal handler for a
\* signal; then TerminateSession, where the session has it, and Close.

EndSession(t) ==
  /\ t \in Enders
  /\ pc[t] = "idle"
  /\ IF TerminateFirst
       THEN Allocate(t)
       ELSE Goto(t, "close") /\ UNCHANGED <<msg, counterVars>>
  /\ UNCHANGED <<bufVars, netVars, reader, schedVars, agentVars, historyVars>>

MainEnds == reader = "exited" /\ EndSession(Main)
SignalArrives == EndSession(Signal)

\* closeOnce: the first caller closes done and the buffer, then the websocket;
\* a second caller waits for it and does nothing.
CloseStarts(t) ==
  /\ pc[t] = "close"
  /\ ~bufClosed
  /\ CloseBuffer
  /\ Goto(t, "closeWs")
  /\ UNCHANGED <<msg, counterVars, netVars, reader, schedVars, agentVars, historyVars>>

CloseEnds(t) ==
  /\ pc[t] = "closeWs"
  /\ wsUp' = FALSE
  /\ acks' = <<>>
  /\ Goto(t, "stopped")
  /\ UNCHANGED <<bufVars, msg, counterVars, wire, reader, schedVars, agentVars,
                 historyVars>>

CloseAgain(t) ==
  /\ pc[t] = "close"
  /\ bufClosed
  /\ \A u \in Enders : pc[u] # "closeWs"
  /\ Goto(t, "stopped")
  /\ UNCHANGED <<bufVars, msg, counterVars, netVars, reader, schedVars, agentVars,
                 historyVars>>

---------------------------------------------------------------------------
ThreadStep(t) ==
  \/ Stamp(t)
  \/ AddAccepts(t)
  \/ AddParks(t)
  \/ AddRefused(t)
  \/ Send(t)
  \/ CloseStarts(t)
  \/ CloseEnds(t)
  \/ CloseAgain(t)

Next ==
  \/ \E t \in Threads : Begin(t) \/ ThreadStep(t)
  \/ Tick
  \/ Resend
  \/ SchedulerStops
  \/ \E kind \in AckKinds : AgentReceives(kind)
  \/ AgentReceivesUnacked
  \/ FrameLost
  \/ AgentCloses
  \/ ConnectionDrops
  \/ ReaderHandlesAck
  \/ ReaderSeesDrop
  \/ ReaderSeesChannelClosed
  \/ LocalOutputFails
  \/ MainEnds
  \/ SignalArrives

Spec == Init /\ [][Next]_vars

\* Goroutines that can run do run; the ticker keeps ticking; a frame that keeps
\* reaching the head of the wire is taken and acknowledged some time.  Nothing
\* forces a user to type, a connection to drop or a signal to arrive.
Fairness ==
  /\ \A t \in Threads : WF_vars(ThreadStep(t))
  /\ WF_vars(Tick)
  /\ WF_vars(Resend)
  /\ WF_vars(ReaderHandlesAck)
  /\ WF_vars(ReaderSeesDrop)
  /\ WF_vars(ReaderSeesChannelClosed)
  /\ WF_vars(MainEnds)
  /\ WF_vars(FrameLost /\ (~wsUp \/ ~agentOpen))
  /\ \A m \in Threads \X (1..MaxWrites) :
       SF_vars(/\ wire # <<>> /\ <<wire[1].src, wire[1].n>> = m
               /\ \E kind \in AckKinds : AgentReceives(kind))

FairSpec == Spec /\ Fairness

---------------------------------------------------------------------------
\* Types, and the shape of the state that the other invariants rest on.
TypeOK ==
  /\ buf \in Seq(Message)
  /\ bufClosed \in BOOLEAN
  /\ parked \subseteq Threads
  /\ pc \in [Threads -> {"idle", "stamp", "add", "send", "close", "closeWs", "stopped"}]
  /\ msg \in [Threads -> Message]
  /\ seqNum \in Nat
  /\ synSent \in BOOLEAN
  /\ wsUp \in BOOLEAN
  /\ wire \in Seq(Message)
  /\ acks \in Seq(AckMessage)
  /\ reader \in {"running", "exited"}
  /\ frontSeq \in Nat \union {NoSeq}
  /\ age \in 0..(ResendTicks - 1)
  /\ resend \in Seq(Message) /\ Len(resend) <= 1
  /\ sched \in {"running", "stopped"}
  /\ agentOpen \in BOOLEAN
  /\ DOMAIN received \subseteq Nat
  /\ \A s \in DOMAIN received : received[s] \in Message
  /\ issued \subseteq Message
  /\ retained \subseteq Message

\* A sequence number names one message for the life of the channel: the agent
\* drops the second message of a number as a retransmission.
SeqUnique == \A m1, m2 \in issued : m1.seq = m2.seq => m1 = m2

\* "Retain a copy for retransmission until the agent acknowledges it"
\* (data_channel.go:344): an accepted message is in the window until the agent
\* holds that very message.
NoneLost ==
  \A m \in retained :
    \/ m \in Range(buf)
    \/ m.seq \in DOMAIN received /\ received[m.seq] = m

\* Whatever is on the wire is a message as it was first numbered: a copy sent
\* again is identical to the original, though ReadFrom has reused its buffer.
CopiesIdentical == \A m \in Range(wire) \union Range(resend) : m \in issued

\* The window bounds what a disconnected or slow agent can leave behind: at
\* most BufSize accepted messages are still unknown to the agent.
InFlightBound ==
  Cardinality({m \in retained : m.seq \notin DOMAIN received}) <= BufSize

\* No thread sleeps in AddWait while there is room, or after Close: every
\* removal and Close wakes the sleepers.
NoLostWakeup == parked # {} => Len(buf) >= BufSize /\ ~bufClosed

\* The bytes of one writer reach the agent in the order it wrote them: later
\* writes have higher numbers.
WriterOrder ==
  \A m1, m2 \in issued : m1.src = m2.src /\ m1.n < m2.n => m1.seq < m2.seq

\* Every call that has started to write returns, whatever the agent, the
\* connection and the other threads do.
WriteReturns ==
  \A t \in Threads : (pc[t] \in {"stamp", "add", "send"}) ~>
                     (pc[t] \notin {"stamp", "add", "send"})

\* A message the window accepted reaches the agent, however many frames and
\* acknowledgements are lost, unless the connection or the agent goes away.
EventuallyReceived ==
  \A p \in Writers \X (1..MaxWrites) :
    (\E m \in retained : <<m.src, m.n>> = p) ~>
    \/ \E m \in retained : /\ <<m.src, m.n>> = p
                           /\ m.seq \in DOMAIN received /\ received[m.seq] = m
    \/ ~wsUp \/ ~agentOpen \/ reader = "exited"

\* When the reader has exited the session is closed, so that the owner can
\* reconnect or return.
SessionCloses == (reader = "exited") ~> bufClosed

---------------------------------------------------------------------------
\* The refinement.  The stream is what the writers have numbered; the agent has
\* delivered what it holds from the first number up to its first gap.
FirstNumber == IF SynDone THEN 1 ELSE 0
Payload(m) == <<m.src, m.n>>
Numbering == [s \in {m.seq : m \in issued} |-> Payload(CHOOSE m \in issued : m.seq = s)]
FirstGap ==
  CHOOSE s \in {FirstNumber} \union {t + 1 : t \in DOMAIN received} :
    s \notin DOMAIN received /\ FirstNumber..(s - 1) \subseteq DOMAIN received
Reassembled == [i \in 1..(FirstGap - FirstNumber) |-> Payload(received[FirstNumber + i - 1])]

Promised == INSTANCE ReliableStream WITH
  Payloads <- Threads \X Nat, Positions <- Nat, Base <- FirstNumber,
  stream <- Numbering, delivered <- Reassembled

\* What the agent reassembles is a reliable stream of what the writers wrote.
ImplementsReliableStream == Promised!Spec
=============================================================================
