------------------------ MODULE MuxReconnect_proofs ------------------------
(***************************************************************************)
(* Proofs about the reconnecting session, for any number of clients and    *)
(* bridges and any values of --max-reconnects.                             *)
(***************************************************************************)
EXTENDS MuxReconnect, TLAPS

LEMMA InitTyped == Init => TypeOK
<1> SUFFICES ASSUME Init PROVE TypeOK
  OBVIOUS
<1>1. Bridges \subseteq Nat /\ 1 \in Bridges
  BY ReconnectAssumption DEF Bridges
<1>2. channel \in [Bridges -> {"none", "open", "closed"}]
  BY DEF Init
<1>3. \A b \in Bridges : b > bridge => channel[b] = "none" /\ acceptor[b] = "none"
  BY <1>1 DEF Init
<1>4. client \in [Clients -> {"away", "waiting", "taken", "refused"}]
      /\ takenBy \in [Clients -> 0..bridge]
      /\ \A c \in Clients : client[c] = "taken" <=> takenBy[c] # 0
  BY DEF Init
<1> QED
  BY <1>1, <1>2, <1>3, <1>4 DEF Init, TypeOK

LEMMA TypeStep ==
  ASSUME TypeOK, [Next]_vars
  PROVE  TypeOK'
<1> USE ReconnectAssumption DEF Bridges, loopVars, acceptVars, clientVars
<1> USE TypeOK DEF TypeOK
<1>0. ASSUME HandshakeFails PROVE TypeOK'
  BY <1>0 DEF HandshakeFails, CloseCurrent, Return, CloseListener
<1>9. CASE HandshakeFrame \/ ReadFails
  BY <1>0, <1>9 DEF HandshakeFrame, ReadFails
<1>1. ASSUME LoopStep PROVE TypeOK'
  <2>1. CASE Listen
    BY <2>1 DEF Listen
  <2>8. CASE BridgeReturns
    BY <2>8 DEF BridgeReturns
  <2>9. CASE OpenChannel
    BY <2>9 DEF OpenChannel
  <2>10. CASE HandshakeDone \/ HandshakeReads
    BY <2>10 DEF HandshakeDone, HandshakeReads
  <2>11. CASE Terminate
    BY <2>11 DEF Terminate
  <2>2. CASE StartBridge
    BY <2>2 DEF StartBridge, StartAccepting
  <2>3. CASE ContextEnds
    BY <2>3 DEF ContextEnds, CancelAccept
  <2>4. CASE CloseChannel
    BY <2>4 DEF CloseChannel, CloseCurrent
  <2>5. CASE LoopReturns
    BY <2>5 DEF LoopReturns, Return, CloseListener
  <2>6. CASE Reconnect
    BY <2>6 DEF Reconnect
  <2>7. CASE HandshakeCancelled
    BY <1>0, <2>7 DEF HandshakeCancelled
  <2> QED
    BY <1>1, <2>1, <2>2, <2>3, <2>4, <2>5, <2>6, <2>7, <2>8, <2>9, <2>10, <2>11
       DEF LoopStep
<1>2. ASSUME NEW b \in Bridges, AcceptorStep(b) \/ AcceptErrs(b) PROVE TypeOK'
  <2>1. ASSUME NEW x \in {"looping", "blocked", "done"}, acceptor[b] # "none",
               acceptor' = [acceptor EXCEPT ![b] = x],
               UNCHANGED <<loopVars, ctxDone, listener, channel, cancelled, clientVars>>
        PROVE  TypeOK'
    BY <2>1
  <2>3. CASE AcceptorLoops(b)
    BY <2>1, <2>3 DEF AcceptorLoops, NextTurn
  <2>4. CASE AcceptorStops(b)
    BY <2>1, <2>4 DEF AcceptorStops
  <2>5. CASE AcceptErrs(b)
    BY <2>1, <2>5 DEF AcceptErrs
  <2>2. ASSUME NEW c \in Clients, AcceptorTakes(b, c) PROVE TypeOK'
    <3>1. b <= bridge /\ b > 0
      BY <2>2 DEF AcceptorTakes
    <3> QED
      BY <2>2, <3>1 DEF AcceptorTakes
  <2> QED
    BY <1>2, <2>2, <2>3, <2>4, <2>5 DEF AcceptorStep
<1>3. CASE ListenFails
  BY <1>3 DEF ListenFails
<1>8. CASE ContextCancelled
  BY <1>8 DEF ContextCancelled
<1>4. CASE BridgeBreaks
  BY <1>4 DEF BridgeBreaks, CancelAccept
<1>5. CASE ContextClosesListener
  BY <1>5 DEF ContextClosesListener, CloseListener
<1>6. ASSUME NEW c \in Clients, ClientConnects(c) PROVE TypeOK'
  BY <1>6 DEF ClientConnects
<1>7. CASE UNCHANGED vars
  BY <1>7 DEF vars
<1> QED
  BY <1>1, <1>2, <1>3, <1>4, <1>5, <1>6, <1>7, <1>8, <1>9 DEF Next

\* The session's state stays in its types, no bridge is touched before its turn,
\* and closing the listener cuts off no accepted client.
THEOREM ReconnectTypeCorrect == Spec => []TypeOK
<1>1. TypeOK /\ [Next]_vars => TypeOK'
  BY TypeStep
<1> QED
  BY InitTyped, <1>1, PTL DEF Spec

---------------------------------------------------------------------------
\* The parts of the inductive invariant: where in the loop the current channel
\* can be open and the listener be missing; how far the count has got; and what
\* is left of an accept loop that has taken a client after its cancellation.
CurrentOnly ==
  /\ \A b \in Bridges : channel[b] = "open" => b = bridge
  /\ loop \in {"check", "return", "opening"} => channel[bridge] # "open"
  /\ loop = "returned" /\ listener # "none" => channel[bridge] # "open"
  /\ loop = "listen" => listener = "none"

SpentAcceptors ==
  /\ StaleTakesOne
  /\ \A c \in late : /\ takenBy[c] \in cancelled
                     /\ acceptor[takenBy[c]] \in {"looping", "done"}

LEMMA CurrentOnlyStep ==
  ASSUME TypeOK, CurrentOnly, [Next]_vars
  PROVE  CurrentOnly'
<1> USE TypeOK, CurrentOnly, ReconnectAssumption DEF CurrentOnly, loopVars
<1>0. channel \in [Bridges -> {"none", "open", "closed"}] /\ bridge \in Bridges
      /\ Bridges \subseteq Nat
  BY DEF TypeOK, Bridges
<1>1. CASE UNCHANGED <<loop, bridge, listener, channel>>
  BY <1>1
<1>3. CASE CloseChannel
  BY <1>0, <1>3 DEF CloseChannel, CloseCurrent
<1>4. CASE LoopReturns
  <2>1. loop \in {"return", "check", "opening"} /\ UNCHANGED <<bridge, channel>>
        /\ loop' = "returned"
    BY <1>4 DEF LoopReturns, Return
  <2> QED
    BY <2>1
<1>5. CASE Reconnect
  <2>1. bridge' # bridge /\ channel[bridge'] # "open" /\ \A b \in Bridges : channel[b] # "open"
    BY <1>0, <1>5 DEF Reconnect, TypeOK, Bridges
  <2> QED
    BY <2>1, <1>5 DEF Reconnect
<1>6. CASE OpenChannel
  BY <1>0, <1>6 DEF OpenChannel
<1>7. CASE HandshakeCancelled \/ ReadFails
  BY <1>0, <1>7 DEF HandshakeCancelled, ReadFails, HandshakeFails, Return, CloseCurrent
<1>8. CASE ListenFails
  BY <1>8 DEF ListenFails
<1>9. CASE ContextClosesListener
  BY <1>9 DEF ContextClosesListener, CloseListener
<1>10. CASE Listen \/ StartBridge \/ ContextEnds \/ BridgeReturns \/ Terminate
  BY <1>10 DEF Listen, StartBridge, ContextEnds, CancelAccept, BridgeReturns, Terminate
<1>11. CASE HandshakeReads \/ HandshakeFrame \/ HandshakeDone \/ BridgeBreaks
  BY <1>11 DEF HandshakeReads, HandshakeFrame, HandshakeDone, BridgeBreaks, CancelAccept
<1>12. CASE ContextCancelled \/ UNCHANGED vars
  BY <1>1, <1>12 DEF ContextCancelled, vars
<1>13. ASSUME NEW b \in Bridges, AcceptorStep(b) \/ AcceptErrs(b) PROVE CurrentOnly'
  BY <1>1, <1>13 DEF AcceptorStep, AcceptorLoops, AcceptorTakes, AcceptorStops, AcceptErrs
<1>14. ASSUME NEW c \in Clients, ClientConnects(c) PROVE CurrentOnly'
  BY <1>1, <1>14 DEF ClientConnects
<1> QED
  BY <1>3, <1>4, <1>5, <1>6, <1>7, <1>8, <1>9, <1>10, <1>11, <1>12, <1>13, <1>14
     DEF Next, LoopStep

LEMMA SpentAcceptorsStep ==
  ASSUME TypeOK, SpentAcceptors, [Next]_vars
  PROVE  SpentAcceptors'
<1> USE DEF SpentAcceptors, StaleTakesOne, loopVars, acceptVars, clientVars
<1>0. /\ acceptor \in [Bridges -> {"none", "looping", "blocked", "done"}]
      /\ takenBy \in [Clients -> 0..bridge]
      /\ late \subseteq Clients
      /\ \A c \in Clients : client[c] = "taken" <=> takenBy[c] # 0
      /\ \A b \in Bridges : b > bridge => acceptor[b] = "none"
      /\ bridge \in Bridges /\ Bridges \subseteq Nat \ {0}
  BY ReconnectAssumption DEF TypeOK, Bridges
<1>1. CASE UNCHANGED <<late, takenBy, acceptor>> /\ cancelled \subseteq cancelled'
  BY <1>1, SpentAcceptors
<1>2. CASE StartBridge
  <2>1. \A c \in late : acceptor'[takenBy[c]] \in {"looping", "done"}
    BY <1>0, <1>2, SpentAcceptors DEF StartBridge, StartAccepting
  <2> QED
    BY <2>1, <1>2, SpentAcceptors DEF StartBridge
<1>3. ASSUME NEW b \in Bridges, NEW x, acceptor' = [acceptor EXCEPT ![b] = x],
             b \in cancelled => x \in {"looping", "done"},
             UNCHANGED <<late, takenBy, cancelled>>
      PROVE  SpentAcceptors'
  <2>1. ASSUME NEW c \in late PROVE acceptor'[takenBy[c]] \in {"looping", "done"}
    <3>1. takenBy[c] \in cancelled /\ acceptor[takenBy[c]] \in {"looping", "done"}
      BY SpentAcceptors
    <3>2. CASE takenBy[c] = b
      BY <1>0, <1>3, <3>1, <3>2
    <3>3. CASE takenBy[c] # b
      BY <1>0, <1>3, <3>1, <3>3
    <3> QED
      BY <3>2, <3>3
  <2> QED
    BY <2>1, <1>3, SpentAcceptors
<1>4. ASSUME NEW b \in Bridges, AcceptorLoops(b) PROVE SpentAcceptors'
  <2>1. b \in cancelled => NextTurn(b) \in {"looping", "done"}
    BY DEF NextTurn, AcceptDone
  <2> QED
    BY <1>3, <1>4, <2>1 DEF AcceptorLoops
<1>5. ASSUME NEW b \in Bridges, AcceptorStops(b) \/ AcceptErrs(b) PROVE SpentAcceptors'
  BY <1>3, <1>5 DEF AcceptorStops, AcceptErrs, AcceptDone
<1>6. ASSUME NEW b \in Bridges, NEW c \in Clients, AcceptorTakes(b, c)
      PROVE  SpentAcceptors'
  \* The loop was blocked, so none of the late clients is b's, and c is nobody's.
  <2>1. /\ acceptor' = [acceptor EXCEPT ![b] = "looping"]
        /\ takenBy' = [takenBy EXCEPT ![c] = b]
        /\ late' = IF b \in cancelled THEN late \union {c} ELSE late
        /\ cancelled' = cancelled
        /\ acceptor[b] = "blocked" /\ client[c] = "waiting"
    BY <1>6 DEF AcceptorTakes
  <2>2. \A d \in late : takenBy[d] # b /\ takenBy[d] \in cancelled
    BY <1>0, <2>1, SpentAcceptors
  <2>3. c \notin late
    <3>1. takenBy[c] = 0
      BY <1>0, <2>1
    <3> SUFFICES ASSUME c \in late PROVE FALSE
      OBVIOUS
    <3>2. 0 \in cancelled
      BY <3>1, <2>2
    <3>3. 0 \notin cancelled
      BY DEF TypeOK
    <3> QED
      BY <3>2, <3>3
  <2>4. \A d \in late : takenBy'[d] = takenBy[d] /\ acceptor'[takenBy[d]] = acceptor[takenBy[d]]
    BY <1>0, <2>1, <2>2, <2>3
  <2>5. takenBy'[c] = b /\ acceptor'[b] = "looping"
    BY <1>0, <2>1
  <2>6. StaleTakesOne'
    BY <2>1, <2>2, <2>3, <2>4, <2>5, SpentAcceptors
  <2>7. ASSUME NEW d \in late'
        PROVE takenBy'[d] \in cancelled' /\ acceptor'[takenBy'[d]] \in {"looping", "done"}
    <3>1. CASE d \in late
      BY <3>1, <2>1, <2>4, SpentAcceptors
    <3>2. CASE d = c /\ b \in cancelled
      BY <3>2, <2>1, <2>5
    <3> QED
      BY <3>1, <3>2, <2>1
  <2> QED
    BY <2>6, <2>7
<1>7. CASE LoopStep
  <2>1. CASE ContextEnds
    BY <1>1, <2>1 DEF ContextEnds, CancelAccept
  <2>2. CASE Listen \/ BridgeReturns \/ Terminate \/ CloseChannel \/ Reconnect
    BY <1>1, <2>2 DEF Listen, BridgeReturns, Terminate, CloseChannel, Reconnect
  <2>3. CASE LoopReturns \/ HandshakeCancelled
    BY <1>1, <2>3 DEF LoopReturns, HandshakeCancelled, HandshakeFails, Return, CloseListener
  <2>4. CASE OpenChannel \/ HandshakeReads \/ HandshakeDone
    BY <1>1, <2>4 DEF OpenChannel, HandshakeReads, HandshakeDone
  <2> QED
    BY <1>2, <1>7, <2>1, <2>2, <2>3, <2>4 DEF LoopStep
<1>8. CASE ListenFails \/ ContextCancelled
  BY <1>1, <1>8 DEF ListenFails, ContextCancelled
<1>9. CASE BridgeBreaks \/ HandshakeFrame \/ ReadFails
  BY <1>1, <1>9 DEF BridgeBreaks, CancelAccept, HandshakeFrame, ReadFails, HandshakeFails,
     Return, CloseListener
<1>10. CASE ContextClosesListener
  BY <1>1, <1>10 DEF ContextClosesListener, CloseListener
<1>11. ASSUME NEW c \in Clients, ClientConnects(c) PROVE SpentAcceptors'
  BY <1>1, <1>11 DEF ClientConnects
<1>12. CASE UNCHANGED vars
  BY <1>1, <1>12 DEF vars
<1> QED
  BY <1>4, <1>5, <1>6, <1>7, <1>8, <1>9, <1>10, <1>11, <1>12 DEF Next, AcceptorStep

LEMMA LimitStep ==
  ASSUME TypeOK, ReconnectLimit, [Next]_vars
  PROVE  ReconnectLimit'
<1>0. opts.max \in Nat /\ bridge \in Nat
  <2>1. opts \in [reconnect : BOOLEAN, max : MaxReconnects]
    BY DEF TypeOK
  <2>2. opts.max \in MaxReconnects
    BY <2>1
  <2>3. bridge \in 1..LastBridge
    BY DEF TypeOK, Bridges
  <2>4. opts.max \in Nat
    BY <2>2, ReconnectAssumption, Zenon DEF ReconnectAssumption
  <2> QED
    BY <2>3, <2>4
<1>1. CASE UNCHANGED <<opts, bridge>>
  BY <1>1 DEF ReconnectLimit
<1>2. CASE Reconnect
  BY <1>0, <1>2 DEF Reconnect, GivesUp, ReconnectLimit
<1>3. CASE LoopStep /\ ~Reconnect
  BY <1>1, <1>3 DEF LoopStep, Listen, StartBridge, ContextEnds, CancelAccept, BridgeReturns,
     Terminate, CloseChannel, LoopReturns, OpenChannel, HandshakeReads, HandshakeDone,
     HandshakeCancelled, HandshakeFails
<1>4. ASSUME NEW b \in Bridges, AcceptorStep(b) \/ AcceptErrs(b) PROVE ReconnectLimit'
  BY <1>1, <1>4 DEF AcceptorStep, AcceptorLoops, AcceptorTakes, AcceptorStops, AcceptErrs,
     loopVars
<1>5. CASE ListenFails \/ BridgeBreaks \/ HandshakeFrame \/ ReadFails
  BY <1>1, <1>5 DEF ListenFails, BridgeBreaks, CancelAccept, HandshakeFrame, ReadFails,
     HandshakeFails
<1>6. CASE ContextCancelled \/ ContextClosesListener \/ UNCHANGED vars
  BY <1>1, <1>6 DEF ContextCancelled, ContextClosesListener, loopVars, vars
<1>7. ASSUME NEW c \in Clients, ClientConnects(c) PROVE ReconnectLimit'
  BY <1>1, <1>7 DEF ClientConnects, loopVars
<1> QED
  BY <1>2, <1>3, <1>4, <1>5, <1>6, <1>7 DEF Next

---------------------------------------------------------------------------
\* At most one data channel is open at a time, and none once the session has
\* returned, unless its listener could not be opened.
THEOREM NoChannelLeaks == Spec => []ChannelsClosed
<1>1. Init => CurrentOnly
  <2> SUFFICES ASSUME Init PROVE CurrentOnly
    OBVIOUS
  <2>1. \A b \in Bridges : channel[b] = "open" => b = bridge
    BY DEF Init
  <2> QED
    BY <2>1 DEF Init, CurrentOnly
<1>2. TypeOK /\ CurrentOnly /\ [Next]_vars => CurrentOnly'
  BY CurrentOnlyStep
<1>3. CurrentOnly => ChannelsClosed
  BY DEF CurrentOnly, ChannelsClosed
<1> QED
  BY <1>1, <1>2, <1>3, ReconnectTypeCorrect, PTL DEF Spec

\* However many connections are made after a bridge's cancelAccept, its accept
\* loop takes at most one of them.
THEOREM StaleLoopTakesAtMostOne == Spec => []StaleTakesOne
<1>1. Init => SpentAcceptors
  BY DEF Init, SpentAcceptors, StaleTakesOne
<1>2. TypeOK /\ SpentAcceptors /\ [Next]_vars => SpentAcceptors'
  BY SpentAcceptorsStep
<1>3. SpentAcceptors => StaleTakesOne
  BY DEF SpentAcceptors
<1> QED
  BY <1>1, <1>2, <1>3, ReconnectTypeCorrect, PTL DEF Spec

\* A session is reconnected at most --max-reconnects times when that is not 0,
\* and never when reconnecting is disabled.
THEOREM ReconnectsAreBounded == Spec => []ReconnectLimit
<1>1. Init => ReconnectLimit
  <2> SUFFICES ASSUME Init PROVE ReconnectLimit
    OBVIOUS
  <2>1. opts.max \in Nat /\ bridge = 1
    BY ReconnectAssumption DEF Init
  <2> QED
    BY <2>1 DEF ReconnectLimit
<1>2. TypeOK /\ ReconnectLimit /\ [Next]_vars => ReconnectLimit'
  BY LimitStep
<1> QED
  BY <1>1, <1>2, ReconnectTypeCorrect, PTL DEF Spec

=============================================================================
