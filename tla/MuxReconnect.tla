---------------------------- MODULE MuxReconnect ----------------------------
(***************************************************************************)
(* startMuxPortForwardingSession (ssmclient/port_forwarding.go): bridges   *)
(* one after another, each over a data channel of its own, behind one TCP  *)
(* listener; and the accept loops of those bridges                         *)
(* (ssmclient/port_mux.go), which share the listener.                      *)
(*                                                                         *)
(* A bridge is what MuxBridge models: here it only breaks, some time, and  *)
(* hands its session back.  Bridge b runs over channel b, and b - 1 is the *)
(* code's reconnectCount.                                                  *)
(***************************************************************************)
EXTENDS Integers

CONSTANTS
  Clients,          \* TCP connections to the local port
  MaxReconnects,    \* the values --max-reconnects is given
  LastBridge        \* bound: bridges

ASSUME ReconnectAssumption ==
  MaxReconnects \subseteq Nat /\ LastBridge \in Nat \ {0}

Bridges == 1..LastBridge

VARIABLES
  opts,             \* EnableReconnect and MaxReconnects
  loop,             \* "listen", "start", "bridging", "accept", "torn", "waiting",
                    \* "close", "closeLast", "check", "return", "opening", "select",
                    \* "shaking", "complete", "returned"
  bridge,           \* the current bridge, reconnectCount + 1
  ctxDone,
  listener,         \* "none", "open", "closed"
  channel,          \* bridge -> its data channel: "none", "open", "closed"
  cancelled,        \* the bridges whose acceptCtx is cancelled
  acceptor,         \* bridge -> its accept loop: "none", "looping", "blocked", "done"
  client,           \* client -> "away", "waiting", "taken", "refused"
  takenBy,          \* client -> the bridge whose accept loop took it, or 0
  late              \* history: clients taken by a bridge after cancelAccept

loopVars == <<opts, loop, bridge>>
acceptVars == <<cancelled, acceptor>>
clientVars == <<client, takenBy, late>>
vars == <<loopVars, ctxDone, listener, channel, acceptVars, clientVars>>

Init ==
  /\ opts \in [reconnect : BOOLEAN, max : MaxReconnects]
  /\ loop = "listen"
  /\ bridge = 1
  /\ ctxDone = FALSE
  /\ listener = "none"
  /\ channel = [b \in Bridges |-> IF b = 1 THEN "open" ELSE "none"]
  /\ cancelled = {}
  /\ acceptor = [b \in Bridges |-> "none"]
  /\ client = [c \in Clients |-> "away"]
  /\ takenBy = [c \in Clients |-> 0]
  /\ late = {}

\* acceptCtx of bridge b is derived from ctx.
AcceptDone(b) == b \in cancelled \/ ctxDone

\* Bug: the clients that have been accepted are cut off too.
CloseEverything ==
  /\ listener' = "closed"
  /\ client' = [c \in Clients |-> "refused"]
  /\ UNCHANGED <<takenBy, late>>

\* What is left waiting when a listener is closed is refused.
CloseListener ==
  /\ listener' = "closed"
  /\ client' = [c \in Clients |-> IF client[c] = "waiting" THEN "refused" ELSE client[c]]
  /\ UNCHANGED <<takenBy, late>>

---------------------------------------------------------------------------
\* The loop.

Listen ==
  /\ loop = "listen"
  /\ loop' = "start"
  /\ listener' = "open"
  /\ UNCHANGED <<opts, bridge, ctxDone, channel, acceptVars, clientVars>>

\* The channel is left open.
ListenFails ==
  /\ loop = "listen"
  /\ loop' = "returned"
  /\ UNCHANGED <<opts, bridge, ctxDone, listener, channel, acceptVars, clientVars>>

\* Bug: one accept loop for all bridges.
OnlyFirstAccepts ==
  acceptor' = IF bridge = 1 THEN [acceptor EXCEPT ![1] = "looping"] ELSE acceptor
StartAccepting == acceptor' = [acceptor EXCEPT ![bridge] = "looping"]

StartBridge ==
  /\ loop = "start"
  /\ loop' = "bridging"
  /\ StartAccepting
  /\ UNCHANGED <<opts, bridge, ctxDone, listener, channel, cancelled, clientVars>>

\* Bug: one attempt too many.
GivesUpLate == opts.max > 0 /\ bridge - 1 > opts.max
GivesUp == opts.max > 0 /\ bridge - 1 >= opts.max

\* The bound: the last bridge breaks only where the code makes no other.
WithinBound == bridge < LastBridge \/ ~opts.reconnect \/ GivesUp

\* The bridge breaks or the context ends: cancelAccept.
CancelAccept ==
  /\ loop = "bridging"
  /\ loop' = "accept"
  /\ cancelled' = cancelled \union {bridge}
  /\ UNCHANGED <<opts, bridge, ctxDone, listener, channel, acceptor, clientVars>>

BridgeBreaks == WithinBound /\ CancelAccept
\* Bug: the select waits for the bridge alone.
IgnoresContext == FALSE
ContextEnds == ctxDone /\ CancelAccept

\* acceptDone, or two seconds; then the session is closed and the call returns.
BridgeReturns ==
  /\ loop = "accept"
  /\ loop' = "torn"
  /\ UNCHANGED <<opts, bridge, ctxDone, listener, channel, acceptVars, clientVars>>

\* TerminateSession goes through the window.  Where the window is full and the
\* reader has gone (TerminateWaits of MuxBridge), it waits for ever: "waiting".  The
\* context is looked at before it, and not again until the next bridge.
Terminate ==
  /\ loop = "torn"
  /\ loop' \in {"waiting", IF ctxDone THEN "closeLast" ELSE "close"}
  /\ UNCHANGED <<opts, bridge, ctxDone, listener, channel, acceptVars, clientVars>>

\* Bug: the old channel is left to the agent.
CloseNothing == UNCHANGED channel
CloseCurrent == channel' = [channel EXCEPT ![bridge] = "closed"]

Return ==
  /\ loop' = "returned"
  /\ CloseListener

CloseChannel ==
  /\ \/ loop = "closeLast" /\ loop' = "return"
     \/ loop = "close" /\ loop' = "check"
  /\ CloseCurrent
  /\ UNCHANGED <<opts, bridge, ctxDone, listener, acceptVars, clientVars>>

LoopReturns ==
  /\ \/ loop = "return"
     \/ loop = "check" /\ (~opts.reconnect \/ GivesUp)
     \/ loop = "opening"                          \* openDataChannel fails
  /\ Return
  /\ UNCHANGED <<opts, bridge, ctxDone, channel, acceptVars>>

Reconnect ==
  /\ loop = "check"
  /\ opts.reconnect
  /\ ~GivesUp
  /\ bridge < LastBridge
  /\ bridge' = bridge + 1
  /\ loop' = "opening"
  /\ UNCHANGED <<opts, ctxDone, listener, channel, acceptVars, clientVars>>

OpenChannel ==
  /\ loop = "opening"
  /\ channel' = [channel EXCEPT ![bridge] = "open"]
  /\ loop' = "select"
  /\ UNCHANGED <<opts, bridge, ctxDone, listener, acceptVars, clientVars>>

\* WaitForHandshakeComplete looks at the context between two frames; while it waits
\* in ReadFrame ("shaking"), only the agent and the connection can move it.
HandshakeReads ==
  /\ loop = "select"
  /\ ~ctxDone
  /\ loop' = "shaking"
  /\ UNCHANGED <<opts, bridge, ctxDone, listener, channel, acceptVars, clientVars>>

HandshakeFrame ==
  /\ loop = "shaking"
  /\ loop' \in {"select", "complete"}
  /\ UNCHANGED <<opts, bridge, ctxDone, listener, channel, acceptVars, clientVars>>

\* With the handshake complete and the context done, the select picks either.
HandshakeDone ==
  /\ loop = "complete"
  /\ loop' = "start"
  /\ UNCHANGED <<opts, bridge, ctxDone, listener, channel, acceptVars, clientVars>>

\* The new channel is closed, not terminated.
HandshakeFails ==
  /\ CloseCurrent
  /\ Return
  /\ UNCHANGED <<opts, bridge, ctxDone, acceptVars>>

HandshakeCancelled == loop \in {"select", "complete"} /\ ctxDone /\ HandshakeFails
ReadFails == loop = "shaking" /\ HandshakeFails

ContextCancelled ==
  /\ ~ctxDone
  /\ ctxDone' = TRUE
  /\ UNCHANGED <<loopVars, listener, channel, acceptVars, clientVars>>

\* The goroutine that waits for ctx.Done.
ContextClosesListener ==
  /\ ctxDone
  /\ listener = "open"
  /\ CloseListener
  /\ UNCHANGED <<loopVars, ctxDone, channel, acceptVars>>

---------------------------------------------------------------------------
\* The accept loops.

\* Bug: the loop forgets to look at its context.
LoopsOn(b) == "blocked"
\* The check at the head of the loop.
NextTurn(b) == IF AcceptDone(b) THEN "done" ELSE "blocked"

AcceptorLoops(b) ==
  /\ acceptor[b] = "looping"
  /\ acceptor' = [acceptor EXCEPT ![b] = NextTurn(b)]
  /\ UNCHANGED <<loopVars, ctxDone, listener, channel, cancelled, clientVars>>

\* handleMuxConnection gets the connection and the session of b, dead or alive.
AcceptorTakes(b, c) ==
  /\ acceptor[b] = "blocked"
  /\ listener = "open"
  /\ client[c] = "waiting"
  /\ client' = [client EXCEPT ![c] = "taken"]
  /\ takenBy' = [takenBy EXCEPT ![c] = b]
  /\ late' = IF b \in cancelled THEN late \union {c} ELSE late
  /\ acceptor' = [acceptor EXCEPT ![b] = "looping"]
  /\ UNCHANGED <<loopVars, ctxDone, listener, channel, cancelled>>

\* net.ErrClosed, or any error once the context is done, ends the loop.
AcceptorStops(b) ==
  /\ acceptor[b] = "blocked"
  /\ listener = "closed"
  /\ acceptor' = [acceptor EXCEPT ![b] = "done"]
  /\ UNCHANGED <<loopVars, ctxDone, listener, channel, cancelled, clientVars>>

\* Another error of Accept, with the listener still open.
AcceptErrs(b) ==
  /\ acceptor[b] = "blocked"
  /\ listener = "open"
  /\ acceptor' = [acceptor EXCEPT ![b] = IF AcceptDone(b) THEN "done" ELSE "looping"]
  /\ UNCHANGED <<loopVars, ctxDone, listener, channel, cancelled, clientVars>>

ClientConnects(c) ==
  /\ client[c] = "away"
  /\ listener # "none"
  /\ client' = [client EXCEPT ![c] = IF listener = "open" THEN "waiting" ELSE "refused"]
  /\ UNCHANGED <<loopVars, ctxDone, listener, channel, acceptVars, takenBy, late>>

LoopStep ==
  \/ Listen \/ StartBridge \/ ContextEnds \/ BridgeReturns \/ Terminate \/ CloseChannel
  \/ LoopReturns \/ Reconnect \/ OpenChannel
  \/ HandshakeReads \/ HandshakeDone \/ HandshakeCancelled

AcceptorStep(b) ==
  \/ AcceptorLoops(b)
  \/ \E c \in Clients : AcceptorTakes(b, c)
  \/ AcceptorStops(b)

Next ==
  \/ LoopStep
  \/ ListenFails
  \/ BridgeBreaks
  \/ HandshakeFrame \/ ReadFails
  \/ ContextCancelled
  \/ ContextClosesListener
  \/ \E b \in Bridges : AcceptorStep(b) \/ AcceptErrs(b)
  \/ \E c \in Clients : ClientConnects(c)

Spec == Init /\ [][Next]_vars

\* Goroutines that can run do run, and openDataChannel ends, one way or the other.
\* Accept does not fail for ever while a client waits.  No bridge has to break, and
\* neither the agent nor the connection owes the handshake a frame or an error.
Fairness ==
  /\ WF_vars(LoopStep)
  /\ WF_vars(ContextClosesListener)
  /\ \A b \in Bridges :
       /\ WF_vars(AcceptorLoops(b))
       /\ WF_vars(AcceptorStops(b))
       /\ SF_vars(\E c \in Clients : AcceptorTakes(b, c))

FairSpec == Spec /\ Fairness

---------------------------------------------------------------------------
\* Types; what has not been reached; and who has taken a client.
TypeOK ==
  /\ opts \in [reconnect : BOOLEAN, max : MaxReconnects]
  /\ loop \in {"listen", "start", "bridging", "accept", "torn", "waiting", "close",
               "closeLast", "check", "return", "opening", "select", "shaking",
               "complete", "returned"}
  /\ bridge \in Bridges
  /\ ctxDone \in BOOLEAN
  /\ listener \in {"none", "open", "closed"}
  /\ channel \in [Bridges -> {"none", "open", "closed"}]
  /\ cancelled \subseteq 1..bridge
  /\ acceptor \in [Bridges -> {"none", "looping", "blocked", "done"}]
  /\ client \in [Clients -> {"away", "waiting", "taken", "refused"}]
  /\ takenBy \in [Clients -> 0..bridge]
  /\ late \subseteq Clients
  /\ \A b \in Bridges : b > bridge => channel[b] = "none" /\ acceptor[b] = "none"
  /\ \A c \in Clients : client[c] = "taken" <=> takenBy[c] # 0

\* Sessions do not pile up: at most one data channel is open, and none when the
\* session has returned, but for the one whose listener could not be opened.
ChannelsClosed ==
  /\ \A b1, b2 \in Bridges : channel[b1] = "open" /\ channel[b2] = "open" => b1 = b2
  /\ loop = "returned" /\ listener # "none" => \A b \in Bridges : channel[b] # "open"

\* "--max-reconnects: maximum attempts before giving up, 0 = unlimited"
\* (docs/index.html:754).
ReconnectLimit ==
  /\ opts.max > 0 => bridge <= opts.max + 1
  /\ ~opts.reconnect => bridge = 1

\* What the accept loop of a dead bridge, still blocked in Accept, can do to the
\* clients of its successors: it takes one connection, and no second one.
StaleTakesOne ==
  \A c1, c2 \in late : takenBy[c1] = takenBy[c2] => c1 = c2

\* A dead bridge does not get the connections made after it: "the accept
\* goroutine stops dispatching new connections to this (now-dead) muxSession
\* before the caller starts the next reconnect iteration" (port_mux.go:38).
NoStaleDispatch ==
  [][\A c \in Clients : takenBy'[c] # takenBy[c] => takenBy'[c] = bridge]_vars

\* "The local TCP listener stays open throughout" (docs/index.html:749): a client
\* that has connected is accepted, by this bridge or a later one, or refused when
\* the session ends; it is not left in the backlog, unless the loop itself is stuck
\* before the next bridge: in TerminateSession, or with an agent that sends frames
\* or nothing but never completes the handshake.
ClientsAnswered ==
  \/ <>[](loop \in {"waiting", "select", "shaking"})
  \/ \A c \in Clients : (client[c] = "waiting") ~> (client[c] # "waiting")

\* Cancelling the context ends the session, wherever the loop is, with the two
\* exceptions the code makes: a TerminateSession that waits for room, and a ReadFrame
\* of the handshake that nothing ends.
CancelEnds ==
  \/ <>[](loop = "waiting") \/ <>[](loop = "shaking")
  \/ ctxDone ~> (loop = "returned")
=============================================================================
