----------------------------- MODULE MuxBridge -----------------------------
(***************************************************************************)
(* One call of startMuxPortForwarding (ssmclient/port_mux.go): the three   *)
(* goroutines between a data channel and a smux session, its wait for      *)
(* their first failure, and its teardown, up to the caller's Close.        *)
(*                                                                         *)
(*   reader   data channel -> inboundCh                                    *)
(*   writer   inboundCh -> pipe, which smux reads                          *)
(*   copier   pipe -> data channel                                         *)
(*                                                                         *)
(* The accept loop is left to MuxReconnect.  Of the window behind the      *)
(* copier's Write (modelled in Outbound) only its length is kept: the      *)
(* reader, when it handles an acknowledgement, makes the room the copier   *)
(* waits for.  Payloads are numbered in the order HandleMsg returns them,  *)
(* after it has acknowledged them.                                         *)
(***************************************************************************)
EXTENDS Integers, Sequences

CONSTANTS
  InboundCap,       \* capacity of inboundCh, 512 in the code
  BufSize,          \* capacity of the outbound window, 1000 in the code
  MaxPayloads       \* bound: payloads the agent sends

ASSUME BridgeAssumption ==
  /\ InboundCap \in Nat \ {0} /\ BufSize \in Nat \ {0}
  /\ MaxPayloads \in Nat

VARIABLES
  main,             \* "select", "accept", "drain"; in the caller, "returned", "terminated", "closed"
  waits,            \* drains of errCh left
  ctxDone,          \* the caller's context is cancelled
  channel,          \* the data channel: "up", "down" or, by the caller, "closed"
  window,           \* unacknowledged messages in its window
  pipeClosed,       \* either end of the pipe is closed
  errs,             \* errors waiting in errCh
  bridgeDone,       \* bridgeDone is closed
  inbound,          \* inboundCh
  inboundClosed,
  got,              \* payloads HandleMsg has returned, the last one maybe in reader's hands
  piped,            \* payloads smux has read
  hand,             \* <<p>> while the writer is writing p, else <<>>
  reader,           \* "reading", "handing", "failed", "leaving", "exited"
  writer,           \* "receiving", "writing", "failed", "exited"
  copier            \* "copying", "writing", "failed", "exited"

mainVars == <<main, waits, bridgeDone>>
envVars == <<ctxDone, channel, window>>
inVars == <<inbound, inboundClosed>>
readerVars == <<got, reader>>
writerVars == <<piped, hand, writer>>
vars == <<mainVars, envVars, pipeClosed, errs, inVars, readerVars, writerVars, copier>>

Init ==
  /\ main = "select"
  /\ waits = 2
  /\ ctxDone = FALSE
  /\ channel = "up"
  /\ window = 0
  /\ pipeClosed = FALSE
  /\ errs = 0
  /\ bridgeDone = FALSE
  /\ inbound = <<>>
  /\ inboundClosed = FALSE
  /\ got = 0
  /\ piped = <<>>
  /\ hand = <<>>
  /\ reader = "reading"
  /\ writer = "receiving"
  /\ copier = "copying"

ErrCap == 3

\* errCh <- err blocks while the channel is full.
Report == errs < ErrCap /\ errs' = errs + 1

---------------------------------------------------------------------------
\* The reader.

ReaderGets ==
  /\ reader = "reading"
  /\ channel = "up"
  /\ got < MaxPayloads
  /\ got' = got + 1
  /\ reader' = "handing"
  /\ UNCHANGED <<mainVars, envVars, pipeClosed, errs, inVars, writerVars, copier>>

\* HandleMsg's Acknowledge case returns no payload.
ReaderHandlesAck ==
  /\ reader = "reading"
  /\ channel = "up"
  /\ window > 0
  /\ window' = window - 1
  /\ UNCHANGED <<mainVars, ctxDone, channel, pipeClosed, errs, inVars, readerVars,
                 writerVars, copier>>

\* Bugs: a queue without a bound; a full channel drops the payload.
HandsUnbounded == inbound' = Append(inbound, got)
HandsOrSkips ==
  inbound' = IF Len(inbound) < InboundCap THEN Append(inbound, got) ELSE inbound

Hands ==
  /\ Len(inbound) < InboundCap
  /\ inbound' = Append(inbound, got)

\* The select picks either case when both are ready.
ReaderHands ==
  /\ reader = "handing"
  /\ Hands
  /\ reader' = "reading"
  /\ UNCHANGED <<mainVars, envVars, pipeClosed, errs, inboundClosed, got, writerVars,
                 copier>>

ReaderGivesUp ==
  /\ reader = "handing"
  /\ bridgeDone
  /\ reader' = "leaving"
  /\ UNCHANGED <<mainVars, envVars, pipeClosed, errs, inVars, got, writerVars, copier>>

ReaderStops ==
  /\ reader = "reading"
  /\ reader' = "failed"
  /\ UNCHANGED <<mainVars, envVars, pipeClosed, errs, inVars, got, writerVars, copier>>

ReaderSeesEnd == channel # "up" /\ ReaderStops
HandleMsgFails == channel = "up" /\ ReaderStops

ReaderReports ==
  /\ reader = "failed"
  /\ Report
  /\ reader' = "leaving"
  /\ UNCHANGED <<mainVars, envVars, pipeClosed, inVars, got, writerVars, copier>>

\* The deferred close comes last, whichever way the reader returns.
ReaderExits ==
  /\ reader = "leaving"
  /\ inboundClosed' = TRUE
  /\ reader' = "exited"
  /\ UNCHANGED <<mainVars, envVars, pipeClosed, errs, inbound, got, writerVars, copier>>

---------------------------------------------------------------------------
\* The writer.  A write to the pipe ends when smux has read it or the pipe is
\* closed; smux stops reading while its buffers are full.

WriterTakes ==
  /\ writer = "receiving"
  /\ inbound # <<>>
  /\ hand' = <<Head(inbound)>>
  /\ inbound' = Tail(inbound)
  /\ writer' = "writing"
  /\ UNCHANGED <<mainVars, envVars, pipeClosed, errs, inboundClosed, readerVars, piped,
                 copier>>

SmuxReads ==
  /\ writer = "writing"
  /\ ~pipeClosed
  /\ piped' = piped \o hand
  /\ hand' = <<>>
  /\ writer' = "receiving"
  /\ UNCHANGED <<mainVars, envVars, pipeClosed, errs, inVars, readerVars, copier>>

WriteFails ==
  /\ writer = "writing"
  /\ pipeClosed
  /\ hand' = <<>>
  /\ writer' = "failed"
  /\ UNCHANGED <<mainVars, envVars, pipeClosed, errs, inVars, readerVars, piped, copier>>

WriterSeesEnd ==
  /\ writer = "receiving"
  /\ inbound = <<>>
  /\ inboundClosed
  /\ pipeClosed' = TRUE
  /\ writer' = "failed"
  /\ UNCHANGED <<mainVars, envVars, errs, inVars, readerVars, piped, hand, copier>>

WriterExits ==
  /\ writer = "failed"
  /\ Report
  /\ writer' = "exited"
  /\ UNCHANGED <<mainVars, envVars, pipeClosed, inVars, readerVars, piped, hand, copier>>

---------------------------------------------------------------------------
\* The copier: io.Copy, which is the data channel's ReadFrom.

\* smux has a frame to send, if only its keepalive.
CopierReads ==
  /\ copier = "copying"
  /\ ~pipeClosed
  /\ copier' = "writing"
  /\ UNCHANGED <<mainVars, envVars, pipeClosed, errs, inVars, readerVars, writerVars>>

CopierWrites ==
  /\ copier = "writing"
  /\ channel = "up"
  /\ window < BufSize
  /\ window' = window + 1
  /\ copier' = "copying"
  /\ UNCHANGED <<mainVars, ctxDone, channel, pipeClosed, errs, inVars, readerVars,
                 writerVars>>

\* The window comes before the websocket: only Close ends a wait for room.
WriteErrs ==
  \/ channel = "closed" /\ UNCHANGED window
  \/ channel = "down" /\ window < BufSize /\ window' = window + 1

CopierFails ==
  /\ \/ copier = "writing" /\ WriteErrs
     \/ copier = "copying" /\ pipeClosed /\ UNCHANGED window
  /\ pipeClosed' = TRUE
  /\ copier' = "failed"
  /\ UNCHANGED <<mainVars, ctxDone, channel, errs, inVars, readerVars, writerVars>>

CopierExits ==
  /\ copier = "failed"
  /\ Report
  /\ copier' = "exited"
  /\ UNCHANGED <<mainVars, envVars, pipeClosed, inVars, readerVars, writerVars>>

---------------------------------------------------------------------------
\* startMuxPortForwarding itself, and its caller.

\* Bug: bridgeDone is left open.
TeardownStartsSilently == main' = "accept" /\ UNCHANGED bridgeDone
TeardownStarts == main' = "accept" /\ bridgeDone' = TRUE

ContextEnds ==
  /\ main = "select"
  /\ ctxDone
  /\ TeardownStarts
  /\ UNCHANGED <<waits, envVars, pipeClosed, errs, inVars, readerVars, writerVars, copier>>

BridgeBreaks ==
  /\ main = "select"
  /\ errs > 0
  /\ errs' = errs - 1
  /\ TeardownStarts
  /\ UNCHANGED <<waits, envVars, pipeClosed, inVars, readerVars, writerVars, copier>>

\* acceptDone or the timer, then the pipe and the smux session are closed.
ClosePipes ==
  /\ main = "accept"
  /\ pipeClosed' = TRUE
  /\ main' = "drain"
  /\ UNCHANGED <<waits, bridgeDone, envVars, errs, inVars, readerVars, writerVars, copier>>

\* Bug: the drain has no timeout.
WaitsForReport == waits > 0 /\ errs > 0
\* Two goroutines are given two seconds each to report.
WaitsForReportOrTimer == waits > 0

Drain ==
  /\ main = "drain"
  /\ WaitsForReportOrTimer
  /\ waits' = waits - 1
  /\ errs' \in IF errs > 0 THEN {errs - 1, errs} ELSE {errs}
  /\ UNCHANGED <<main, bridgeDone, envVars, pipeClosed, inVars, readerVars, writerVars,
                 copier>>

Returns ==
  /\ main = "drain"
  /\ waits = 0
  /\ main' = "returned"
  /\ UNCHANGED <<waits, bridgeDone, envVars, pipeClosed, errs, inVars, readerVars,
                 writerVars, copier>>

\* TerminateSession, in startMuxPortForwardingSession: its message waits for room
\* in the window as any other; whether it can be sent then is not looked at.
CallerTerminates ==
  /\ main = "returned"
  /\ window < BufSize
  /\ window' = window + 1
  /\ main' = "terminated"
  /\ UNCHANGED <<waits, bridgeDone, ctxDone, channel, pipeClosed, errs, inVars,
                 readerVars, writerVars, copier>>

\* Close, behind it.
CallerCloses ==
  /\ main = "terminated"
  /\ channel' = "closed"
  /\ main' = "closed"
  /\ UNCHANGED <<waits, bridgeDone, ctxDone, window, pipeClosed, errs, inVars,
                 readerVars, writerVars, copier>>

\* The connection drops or the agent closes the channel; the context is
\* cancelled; smux gives its session up and closes its end of the pipe.
ChannelEnds ==
  /\ channel = "up"
  /\ channel' = "down"
  /\ UNCHANGED <<mainVars, ctxDone, window, pipeClosed, errs, inVars, readerVars,
                 writerVars, copier>>

ContextCancelled ==
  /\ ~ctxDone
  /\ ctxDone' = TRUE
  /\ UNCHANGED <<mainVars, channel, window, pipeClosed, errs, inVars, readerVars, writerVars,
                 copier>>

SmuxDies ==
  /\ ~pipeClosed
  /\ pipeClosed' = TRUE
  /\ UNCHANGED <<mainVars, envVars, errs, inVars, readerVars, writerVars, copier>>

ReaderStep ==
  \/ ReaderHands \/ ReaderGivesUp \/ ReaderSeesEnd \/ ReaderReports \/ ReaderExits
WriterStep == WriterTakes \/ WriteFails \/ WriterSeesEnd \/ WriterExits
CopierStep == CopierReads \/ CopierWrites \/ CopierFails \/ CopierExits
MainStep ==
  \/ ContextEnds \/ BridgeBreaks \/ ClosePipes \/ Drain \/ Returns
  \/ CallerTerminates \/ CallerCloses

Next ==
  \/ ReaderStep \/ WriterStep \/ CopierStep \/ MainStep
  \/ ReaderGets \/ ReaderHandlesAck \/ HandleMsgFails \/ SmuxReads
  \/ ChannelEnds \/ ContextCancelled \/ SmuxDies

Spec == Init /\ [][Next]_vars

\* Goroutines that can run do run, and smux sends a keepalive again and again.
\* The agent owes no payloads, but acknowledges what it gets.  smux reads the pipe
\* only as long as the TCP clients take what it has read, which nothing obliges
\* them to do.
Fairness ==
  /\ WF_vars(ReaderStep)
  /\ WF_vars(WriterStep)
  /\ WF_vars(CopierStep)
  /\ WF_vars(MainStep)
  /\ WF_vars(ReaderHandlesAck)

FairSpec == Spec /\ Fairness

---------------------------------------------------------------------------
\* Types, and the capacities of the two channels.
TypeOK ==
  /\ main \in {"select", "accept", "drain", "returned", "terminated", "closed"}
  /\ waits \in 0..2
  /\ ctxDone \in BOOLEAN /\ bridgeDone \in BOOLEAN
  /\ pipeClosed \in BOOLEAN /\ inboundClosed \in BOOLEAN
  /\ channel \in {"up", "down", "closed"}
  /\ window \in 0..BufSize
  /\ errs \in 0..ErrCap
  /\ inbound \in Seq(1..MaxPayloads) /\ Len(inbound) <= InboundCap
  /\ got \in 0..MaxPayloads /\ (reader = "handing" => got > 0)
  /\ piped \in Seq(1..MaxPayloads)
  /\ hand \in Seq(1..MaxPayloads) /\ Len(hand) <= 1
  /\ reader \in {"reading", "handing", "failed", "leaving", "exited"}
  /\ writer \in {"receiving", "writing", "failed", "exited"}
  /\ copier \in {"copying", "writing", "failed", "exited"}

\* What HandleMsg has acknowledged is not dropped while the bridge lives: until
\* teardown begins or the pipe is closed, all of it has been read by smux or is
\* on its way, in order.
InReader == IF reader = "handing" THEN <<got>> ELSE <<>>
NothingDropped ==
  ~bridgeDone /\ ~pipeClosed =>
    piped \o hand \o inbound \o InReader = [i \in 1..got |-> i]

\* What smux reads is always a gapless run of the payloads, teardown included: a
\* gap would corrupt the frames of every stream of the session.
Promised == INSTANCE ReliableStream WITH
  Payloads <- 1..MaxPayloads, Positions <- 1..MaxPayloads, Base <- 1,
  stream <- [i \in 1..got |-> i], delivered <- piped
ImplementsReliableStream == Promised!Spec

\* The acknowledgement that would make room comes from a reader in ReadFrame.
NoReader == reader \in {"failed", "leaving", "exited"} \/ channel # "up"

\* TerminateSession finds a full window that nobody is left to make room in.
TerminateWaits == main = "returned" /\ window = BufSize /\ NoReader

\* Backpressure both ways: smux waits for its clients, the writer for smux, the
\* reader for the writer, the copier for an acknowledgement of the reader's.
Stalled ==
  /\ main = "select" /\ ~ctxDone /\ ~pipeClosed
  /\ reader = "handing" /\ Len(inbound) = InboundCap /\ writer = "writing"
  /\ copier = "writing" /\ window = BufSize

\* A bridge that has lost its channel, its pipe or its context hands the session
\* back and its caller closes the channel: the reader is blocked in ReadFrame until
\* that Close, so the teardown must not wait for it.  There are two ways only in
\* which that is not reached: backpressure for ever, under which a lost channel is
\* noticed by nobody, and a TerminateSession before a full window.
HandsSessionBack ==
  \/ <>[]Stalled
  \/ (channel # "up" \/ pipeClosed \/ ctxDone) ~> (main = "closed" \/ TerminateWaits)

\* A bridge that has lost its channel, its pipe or its context begins its teardown.
\* (Not so under backpressure.)
LossNoticed == (channel # "up" \/ pipeClosed \/ ctxDone) ~> (main # "select")

\* No goroutine of a bridge outlives its session.
GoroutinesEnd ==
  (main = "closed") ~>
    (reader = "exited" /\ writer = "exited" /\ copier = "exited")
=============================================================================
