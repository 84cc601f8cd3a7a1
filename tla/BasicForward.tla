---------------------------- MODULE BasicForward ----------------------------
(***************************************************************************)
(* Basic port forwarding (ssmclient/port_forwarding.go), for agents without *)
(* multiplexing: startBasicPortForwardingSession and its goroutines.  The   *)
(* main loop accepts a connection and serves it in an inner select; a       *)
(* copier takes the connection's bytes to the data channel; a reader takes  *)
(* the channel's payloads to inCh; one more goroutine closes the listener   *)
(* when the context ends.  doneCh, errCh and inCh have no buffer.           *)
(***************************************************************************)
EXTENDS Naturals

CONSTANTS
  Clients,       \* TCP connections to the local port
  BufSize,       \* the data channel's window
  MaxPayloads    \* bound: payloads from the agent

ASSUME BasicAssumption == BufSize \in Nat \ {0} /\ MaxPayloads \in Nat

VARIABLES
  main,          \* the goroutine of the session
  listener,      \* "open", "closed"
  ctxDone,
  client,        \* client -> "away", "waiting", "served", "closed", "refused"
  copier, reader,
  channelUp,     \* the websocket stands
  chanClosed,    \* c.Close has been called
  window,        \* messages the agent has not acknowledged
  got            \* payloads HandleMsg has returned

vars == <<main, listener, ctxDone, client, copier, reader, channelUp, chanClosed, window, got>>

Init ==
  /\ main = "accepting"
  /\ listener = "open"
  /\ ctxDone = FALSE
  /\ client = [c \in Clients |-> "away"]
  /\ copier = "none"
  /\ reader = "reading"
  /\ channelUp = TRUE
  /\ chanClosed = FALSE
  /\ window = 0
  /\ got = 0

\* Closing a listener refuses what waits in its backlog; the second closing of
\* it does nothing.
CloseListener ==
  /\ listener' = "closed"
  /\ client' = [c \in Clients |-> IF client[c] = "waiting" THEN "refused" ELSE client[c]]

\* Bug: the listener stays open when its one connection has ended.
KeepListener == UNCHANGED <<listener, client>>

\* Bug: one message too many.
RoomOffByOne == window <= BufSize

\* WriteMsg waits for room, and fails once the buffer or the connection is closed;
\* what does not fit keeps it waiting even when the connection is down.
Room == window < BufSize
WriteEnds == Room \/ chanClosed
WindowAfterWrite == IF chanClosed THEN window ELSE window + 1

---------------------------------------------------------------------------
\* The session's goroutine: the accept loop.

\* The LimitListener of size 1 gives out no second connection before the first
\* is closed, and this code closes none.
Accepts(c) ==
  /\ main = "accepting"
  /\ listener = "open" /\ client[c] = "waiting" /\ copier = "none"
  /\ client' = [client EXCEPT ![c] = "served"]
  /\ copier' = "copying"
  /\ main' = "serving"
  /\ UNCHANGED <<listener, ctxDone, reader, channelUp, chanClosed, window, got>>

\* Accept's error ends the loop only if the context has ended; otherwise the
\* loop goes on, and spins.
AcceptErrs ==
  /\ main = "accepting"
  /\ listener = "closed"
  /\ ctxDone
  /\ main' = "terminating"
  /\ UNCHANGED <<listener, ctxDone, client, copier, reader, channelUp, chanClosed, window, got>>

---------------------------------------------------------------------------
\* The inner select.

TakesDone ==
  /\ main = "serving" /\ copier = "done"
  /\ copier' = "exited"
  /\ main' = "disconnecting"
  /\ UNCHANGED <<listener, ctxDone, client, reader, channelUp, chanClosed, window, got>>

TakesPayload ==
  /\ main = "serving" /\ reader = "handing"
  /\ reader' = "reading"
  /\ main' = "writing"
  /\ UNCHANGED <<listener, ctxDone, client, copier, channelUp, chanClosed, window, got>>

\* The end of the inner loop closes the listener.
AfterServing == CloseListener

TakesError ==
  /\ main = "serving"
  /\ \/ copier = "failed" /\ copier' = "done" /\ UNCHANGED reader
     \/ reader = "failed" /\ reader' = "exited" /\ UNCHANGED copier
  /\ AfterServing
  /\ main' = "accepting"
  /\ UNCHANGED <<ctxDone, channelUp, chanClosed, window, got>>

\* The cases that leave both loops: the context, and a closed inCh, which is
\* never met because the error that comes before it leaves the inner loop.
LeavesOuter ==
  /\ main = "serving"
  /\ ctxDone \/ reader = "exited"
  /\ CloseListener
  /\ main' = "terminating"
  /\ UNCHANGED <<ctxDone, copier, reader, channelUp, chanClosed, window, got>>

\* conn.Write returns, with an error that is only logged or without.
WriteReturns ==
  /\ main = "writing"
  /\ main' = "serving"
  /\ UNCHANGED <<listener, ctxDone, client, copier, reader, channelUp, chanClosed, window, got>>

\* DisconnectPort, then the end of the inner loop.
Disconnects ==
  /\ main = "disconnecting" /\ WriteEnds
  /\ window' = WindowAfterWrite
  /\ AfterServing
  /\ main' = "accepting"
  /\ UNCHANGED <<ctxDone, copier, reader, channelUp, chanClosed, got>>

---------------------------------------------------------------------------
\* The deferred calls of startPortForwardingSession and of its callee.

Terminates ==
  /\ main = "terminating" /\ WriteEnds
  /\ window' = WindowAfterWrite
  /\ CloseListener
  /\ main' = "closing"
  /\ UNCHANGED <<ctxDone, copier, reader, channelUp, chanClosed, got>>

Closes ==
  /\ main = "closing"
  /\ chanClosed' = TRUE
  /\ channelUp' = FALSE
  /\ main' = "returned"
  /\ UNCHANGED <<listener, ctxDone, client, copier, reader, window, got>>

\* The goroutine that waits for the context and closes the listener.
ContextClosesListener ==
  /\ ctxDone /\ listener = "open"
  /\ CloseListener
  /\ UNCHANGED <<main, ctxDone, copier, reader, channelUp, chanClosed, window, got>>

\* Bug: nobody closes the listener for the context.
NobodyClosesListener == FALSE /\ UNCHANGED vars

ContextWatcher == ContextClosesListener

MainStep ==
  \/ \E c \in Clients : Accepts(c)
  \/ AcceptErrs \/ TakesDone \/ TakesPayload \/ TakesError
  \/ LeavesOuter \/ Disconnects \/ Terminates \/ Closes

---------------------------------------------------------------------------
\* The copier: io.Copy(c, conn) and its two reports.

CopierReads ==
  /\ copier = "copying"
  /\ copier' = "putting"
  /\ UNCHANGED <<main, listener, ctxDone, client, reader, channelUp, chanClosed, window, got>>

CopierPuts ==
  /\ copier = "putting" /\ WriteEnds
  /\ window' = WindowAfterWrite
  /\ copier' = IF channelUp THEN "copying" ELSE "failed"
  /\ UNCHANGED <<main, listener, ctxDone, client, reader, channelUp, chanClosed, got>>

\* The client closes its connection, or resets it.
CopierSeesEnd(c, reset) ==
  /\ copier = "copying" /\ client[c] = "served"
  /\ client' = [client EXCEPT ![c] = "closed"]
  /\ copier' = IF reset THEN "failed" ELSE "done"
  /\ UNCHANGED <<main, listener, ctxDone, reader, channelUp, chanClosed, window, got>>

---------------------------------------------------------------------------
\* The reader: messageChannel.

ReaderHandlesAck ==
  /\ reader = "reading" /\ channelUp /\ window > 0
  /\ window' = window - 1
  /\ UNCHANGED <<main, listener, ctxDone, client, copier, reader, channelUp, chanClosed, got>>

ReaderGets ==
  /\ reader = "reading" /\ channelUp /\ got < MaxPayloads
  /\ got' = got + 1
  /\ reader' = "handing"
  /\ UNCHANGED <<main, listener, ctxDone, client, copier, channelUp, chanClosed, window>>

\* ReadFrame fails on a broken connection, HandleMsg on ChannelClosed or on a
\* frame it cannot handle.
ReaderFails ==
  /\ reader = "reading"
  /\ reader' = "failed"
  /\ UNCHANGED <<main, listener, ctxDone, client, copier, channelUp, chanClosed, window, got>>

---------------------------------------------------------------------------
\* The surroundings.

ClientConnects(c) ==
  /\ client[c] = "away"
  /\ client' = [client EXCEPT ![c] = IF listener = "open" THEN "waiting" ELSE "refused"]
  /\ UNCHANGED <<main, listener, ctxDone, copier, reader, channelUp, chanClosed, window, got>>

ConnectionDrops ==
  /\ channelUp
  /\ channelUp' = FALSE
  /\ UNCHANGED <<main, listener, ctxDone, client, copier, reader, chanClosed, window, got>>

ContextCancelled ==
  /\ ~ctxDone
  /\ ctxDone' = TRUE
  /\ UNCHANGED <<main, listener, client, copier, reader, channelUp, chanClosed, window, got>>

Next ==
  \/ MainStep \/ WriteReturns \/ ContextWatcher
  \/ CopierReads \/ CopierPuts
  \/ \E c \in Clients, reset \in BOOLEAN : CopierSeesEnd(c, reset)
  \/ ReaderHandlesAck \/ ReaderGets \/ ReaderFails
  \/ \E c \in Clients : ClientConnects(c)
  \/ ConnectionDrops \/ ContextCancelled

Spec == Init /\ [][Next]_vars

\* Goroutines run, select is fair to its cases and the window's mutex to those
\* that wait for room, the agent acknowledges, and a
\* broken connection is noticed by who reads it.  A client need not read.
FairSpec ==
  /\ Spec
  /\ WF_vars(MainStep) /\ SF_vars(TakesDone) /\ SF_vars(TakesError) /\ SF_vars(LeavesOuter)
  /\ SF_vars(Disconnects) /\ SF_vars(Terminates)
  /\ WF_vars(ContextWatcher)
  /\ WF_vars(CopierPuts)
  /\ WF_vars(ReaderHandlesAck)
  /\ WF_vars(~channelUp /\ ReaderFails)

---------------------------------------------------------------------------
Places == {"accepting", "serving", "writing", "disconnecting", "terminating", "closing", "returned"}

\* Types; a connection is served by a copier of its own, and the window holds.
TypeOK ==
  /\ main \in Places
  /\ listener \in {"open", "closed"}
  /\ client \in [Clients -> {"away", "waiting", "served", "closed", "refused"}]
  /\ copier \in {"none", "copying", "putting", "failed", "done", "exited"}
  /\ reader \in {"reading", "handing", "failed", "exited"}
  /\ {ctxDone, channelUp, chanClosed} \subseteq BOOLEAN
  /\ window \in 0..BufSize
  /\ got \in 0..MaxPayloads
  /\ copier = "none" <=> \A c \in Clients : client[c] \notin {"served", "closed"}
  /\ main \in {"serving", "writing", "disconnecting"} => listener = "open" \/ ctxDone

\* Where the session's goroutine hears neither its context nor its channels: in
\* a write to a client that does not read, and in a write to the data channel
\* that has no room.
Blocked ==
  \/ main = "writing"
  \/ main \in {"disconnecting", "terminating"} /\ ~WriteEnds

\* A cancelled context ends the session, with the data channel closed, wherever
\* its goroutines are, unless the session's own goroutine stays blocked.
CancelEnds == <>[]Blocked \/ (ctxDone ~> main = "returned" /\ chanClosed)

\* The one connection a session serves keeps the others waiting in the backlog;
\* when it has ended they are refused, not left there.
ClientsAnswered ==
  <>[]Blocked \/
  \A c \in Clients :
    client[c] = "waiting" /\ (ctxDone \/ copier \in {"failed", "done", "exited"}) ~> client[c] # "waiting"

\* The end of the websocket while a connection is served is fatal (comment of
\* the select's inCh case): the session returns, unless it stays blocked.
FatalEnds ==
  <>[]Blocked \/ (main = "serving" /\ reader = "failed" ~> main = "returned")
=============================================================================
