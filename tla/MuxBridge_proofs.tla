-------------------------- MODULE MuxBridge_proofs --------------------------
(***************************************************************************)
(* Proofs about one multiplexed bridge, for every capacity of inboundCh    *)
(* and of the window, and whatever the clients do.                         *)
(***************************************************************************)
EXTENDS MuxBridge, TLAPS

\* What the sequence operators do to lengths and elements.
LEMMA AppendFacts ==
  ASSUME NEW S, NEW q \in Seq(S), NEW x \in S
  PROVE  /\ Append(q, x) \in Seq(S)
         /\ Len(Append(q, x)) = Len(q) + 1
         /\ \A i \in 1..(Len(q) + 1) : Append(q, x)[i] = IF i <= Len(q) THEN q[i] ELSE x
  OBVIOUS

LEMMA TailFacts ==
  ASSUME NEW S, NEW q \in Seq(S), q # <<>>
  PROVE  /\ Len(q) \in Nat \ {0} /\ Head(q) = q[1] /\ q[1] \in S
         /\ Tail(q) \in Seq(S)
         /\ Len(Tail(q)) = Len(q) - 1
         /\ \A i \in 1..(Len(q) - 1) : Tail(q)[i] = q[i + 1]
  OBVIOUS

LEMMA ConcatFacts ==
  ASSUME NEW S, NEW p \in Seq(S), NEW q \in Seq(S)
  PROVE  /\ p \o q \in Seq(S)
         /\ Len(p \o q) = Len(p) + Len(q)
         /\ \A i \in 1..(Len(p) + Len(q)) :
              (p \o q)[i] = IF i <= Len(p) THEN p[i] ELSE q[i - Len(p)]
  OBVIOUS

---------------------------------------------------------------------------
\* Types.

Payload == 1..MaxPayloads

LEMMA InitTyped == Init => TypeOK
<1> SUFFICES ASSUME Init PROVE TypeOK
  OBVIOUS
<1>1. /\ inbound = <<>> /\ piped = <<>> /\ hand = <<>>
      /\ main = "select" /\ channel = "up" /\ reader = "reading"
      /\ writer = "receiving" /\ copier = "copying"
      /\ ctxDone = FALSE /\ bridgeDone = FALSE /\ pipeClosed = FALSE
      /\ inboundClosed = FALSE
  BY DEF Init
<1>2. waits \in 0..2 /\ errs \in 0..ErrCap /\ got \in 0..MaxPayloads /\ window \in 0..BufSize
  BY BridgeAssumption DEF Init, ErrCap
<1>3. \A S : <<>> \in Seq(S)
  OBVIOUS
<1>4. Len(<<>>) = 0
  OBVIOUS
<1>5. Len(inbound) <= InboundCap /\ Len(hand) <= 1
  BY <1>1, <1>4, BridgeAssumption
<1> QED
  BY <1>1, <1>2, <1>3, <1>5 DEF TypeOK

LEMMA TypeStep ==
  ASSUME TypeOK, [Next]_vars
  PROVE  TypeOK'
<1> USE DEF mainVars, envVars, inVars, readerVars, writerVars
<1>1. CASE ReaderHands
  <2>1. /\ inbound \in Seq(Payload) /\ got \in Payload
    BY <1>1, BridgeAssumption DEF ReaderHands, TypeOK, Payload
  <2>2. inbound' = Append(inbound, got) /\ Len(inbound) < InboundCap
    BY <1>1 DEF ReaderHands, Hands
  <2>3. inbound' \in Seq(Payload) /\ Len(inbound') = Len(inbound) + 1
    BY <2>1, <2>2, AppendFacts
  <2>4. Len(inbound') <= InboundCap
    BY <2>1, <2>2, <2>3, BridgeAssumption
  <2> QED
    BY <1>1, <2>3, <2>4 DEF ReaderHands, TypeOK, Payload
<1>2. CASE WriterTakes
  <2>1. inbound \in Seq(Payload) /\ inbound # <<>> /\ Len(inbound) <= InboundCap
    BY <1>2 DEF WriterTakes, TypeOK, Payload
  <2>2. /\ inbound' \in Seq(Payload) /\ Len(inbound') = Len(inbound) - 1
        /\ Len(inbound) \in Nat /\ Head(inbound) \in Payload
    BY <1>2, <2>1, TailFacts DEF WriterTakes
  <2>3. Len(inbound') <= InboundCap
    BY <2>1, <2>2, BridgeAssumption
  <2>4. hand' \in Seq(Payload) /\ Len(hand') = 1
    BY <1>2, <2>2 DEF WriterTakes
  <2> QED
    BY <1>2, <2>2, <2>3, <2>4 DEF WriterTakes, TypeOK, Payload
<1>3. CASE SmuxReads
  <2>1. piped' \in Seq(Payload)
    BY <1>3, ConcatFacts DEF SmuxReads, TypeOK, Payload
  <2>2. hand' \in Seq(Payload) /\ Len(hand') <= 1
    BY <1>3 DEF SmuxReads
  <2> QED
    BY <1>3, <2>1, <2>2 DEF SmuxReads, TypeOK, Payload
<1>4. CASE WriteFails
  <2>1. hand' \in Seq(Payload) /\ Len(hand') <= 1
    BY <1>4 DEF WriteFails
  <2> QED
    BY <1>4, <2>1 DEF WriteFails, TypeOK, Payload
<1>5. CASE ReaderGets
  BY <1>5, BridgeAssumption DEF ReaderGets, TypeOK
<1>6. CASE ReaderHandlesAck
  BY <1>6, BridgeAssumption DEF ReaderHandlesAck, TypeOK
<1>7. CASE ReaderGivesUp
  BY <1>7 DEF ReaderGivesUp, TypeOK
<1>8. CASE ReaderSeesEnd \/ HandleMsgFails
  <2>1. ReaderStops
    BY <1>8 DEF ReaderSeesEnd, HandleMsgFails
  <2> QED
    BY <2>1 DEF ReaderStops, TypeOK
<1>9. CASE ReaderReports
  BY <1>9 DEF ReaderReports, Report, ErrCap, TypeOK
<1>10. CASE ReaderExits
  BY <1>10 DEF ReaderExits, TypeOK
<1>11. CASE WriterSeesEnd
  BY <1>11 DEF WriterSeesEnd, TypeOK
<1>12. CASE WriterExits
  BY <1>12 DEF WriterExits, Report, ErrCap, TypeOK
<1>13. CASE CopierReads
  BY <1>13 DEF CopierReads, TypeOK
<1>14. CASE CopierWrites
  BY <1>14, BridgeAssumption DEF CopierWrites, TypeOK
<1>15. CASE CopierFails
  BY <1>15, BridgeAssumption DEF CopierFails, WriteErrs, TypeOK
<1>16. CASE CopierExits
  BY <1>16 DEF CopierExits, Report, ErrCap, TypeOK
<1>17. CASE ContextEnds
  BY <1>17 DEF ContextEnds, TeardownStarts, TypeOK
<1>18. CASE BridgeBreaks
  BY <1>18 DEF BridgeBreaks, TeardownStarts, ErrCap, TypeOK
<1>19. CASE ClosePipes
  BY <1>19 DEF ClosePipes, TypeOK
<1>20. CASE Drain
  BY <1>20 DEF Drain, WaitsForReportOrTimer, ErrCap, TypeOK
<1>21. CASE Returns
  BY <1>21 DEF Returns, TypeOK
<1>22. CASE CallerCloses
  BY <1>22 DEF CallerCloses, TypeOK
<1>23. CASE ChannelEnds
  BY <1>23 DEF ChannelEnds, TypeOK
<1>24. CASE ContextCancelled
  BY <1>24 DEF ContextCancelled, TypeOK
<1>25. CASE SmuxDies
  BY <1>25 DEF SmuxDies, TypeOK
<1>26. CASE CallerTerminates
  BY <1>26, BridgeAssumption DEF CallerTerminates, TypeOK
<1>27. CASE UNCHANGED vars
  BY <1>27 DEF vars, TypeOK
<1> QED
  BY <1>1, <1>2, <1>3, <1>4, <1>5, <1>6, <1>7, <1>8, <1>9, <1>10, <1>11, <1>12, <1>13,
     <1>14, <1>15, <1>16, <1>17, <1>18, <1>19, <1>20, <1>21, <1>22, <1>23, <1>24, <1>25,
     <1>26, <1>27
     DEF Next, ReaderStep, WriterStep, CopierStep, MainStep

\* The bridge's state stays in its types: at most three errors wait in errCh and
\* at most InboundCap payloads in inboundCh.
THEOREM BridgeTypeCorrect == Spec => []TypeOK
<1>1. TypeOK /\ [Next]_vars => TypeOK'
  BY TypeStep
<1> QED
  BY InitTyped, <1>1, PTL DEF Spec

---------------------------------------------------------------------------
\* The payloads on their way.  While the pipe is open, what smux has read, what
\* the writer holds and what inboundCh holds are numbered one after the other,
\* and the reader holds the next one; once the reader has left, some may be
\* missing at the end, but only after bridgeDone.  A closed pipe freezes piped.

Held == IF reader = "handing" THEN 1 ELSE 0
OnTheirWay == Len(piped) + Len(hand) + Len(inbound)

InOrder ==
  /\ \A i \in 1..Len(piped) : piped[i] = i
  /\ Len(piped) <= got
  /\ writer = "writing" => Len(hand) = 1
  /\ writer # "writing" => hand = <<>>

Contiguous ==
  /\ \A i \in 1..Len(hand) : hand[i] = Len(piped) + i
  /\ \A i \in 1..Len(inbound) : inbound[i] = Len(piped) + Len(hand) + i
  /\ OnTheirWay + Held <= got
  /\ ~bridgeDone \/ reader \in {"reading", "handing"} => OnTheirWay + Held = got

Flow == InOrder /\ (~pipeClosed => Contiguous)

LEMMA LengthsTyped ==
  ASSUME TypeOK
  PROVE  /\ Len(piped) \in Nat /\ Len(hand) \in Nat /\ Len(inbound) \in Nat /\ got \in Nat
         /\ Held \in 0..1
         /\ piped \in Seq(Payload) /\ hand \in Seq(Payload) /\ inbound \in Seq(Payload)
  BY BridgeAssumption DEF TypeOK, Payload, Held

LEMMA FlowStep ==
  ASSUME TypeOK, Flow, [Next]_vars
  PROVE  Flow'
<1> USE DEF mainVars, envVars, inVars, readerVars, writerVars
<1>0. /\ Len(piped) \in Nat /\ Len(hand) \in Nat /\ Len(inbound) \in Nat /\ got \in Nat
      /\ Held \in 0..1
      /\ piped \in Seq(Payload) /\ hand \in Seq(Payload) /\ inbound \in Seq(Payload)
  BY LengthsTyped
<1>1. CASE /\ UNCHANGED <<got, piped, hand, inbound, writer, reader>>
           /\ pipeClosed => pipeClosed'
           /\ bridgeDone => bridgeDone'
  \* Nothing moves, though the pipe may be closed or the teardown begin.
  <2>1. InOrder'
    BY <1>1 DEF Flow, InOrder
  <2>2. ASSUME ~pipeClosed' PROVE Contiguous'
    BY <1>0, <1>1, <2>2 DEF Flow, Contiguous, OnTheirWay, Held
  <2> QED
    BY <2>1, <2>2 DEF Flow
<1>2. CASE ReaderGets
  <2>1. /\ reader = "reading" /\ reader' = "handing" /\ got' = got + 1
        /\ UNCHANGED <<piped, hand, inbound, writer, pipeClosed, bridgeDone>>
    BY <1>2 DEF ReaderGets
  <2>2. InOrder'
    BY <1>0, <2>1 DEF Flow, InOrder
  <2>3. ASSUME ~pipeClosed PROVE Contiguous'
    BY <1>0, <2>1, <2>3 DEF Flow, Contiguous, OnTheirWay, Held
  <2> QED
    BY <2>1, <2>2, <2>3 DEF Flow
<1>3. CASE ReaderHands
  <2>1. /\ reader = "handing" /\ reader' = "reading" /\ inbound' = Append(inbound, got)
        /\ UNCHANGED <<got, piped, hand, writer, pipeClosed, bridgeDone>>
    BY <1>3 DEF ReaderHands, Hands
  <2>2. InOrder'
    BY <2>1 DEF Flow, InOrder
  <2>3. /\ Len(inbound') = Len(inbound) + 1
        /\ \A i \in 1..(Len(inbound) + 1) :
             inbound'[i] = IF i <= Len(inbound) THEN inbound[i] ELSE got
    <3>1. got \in Payload
      BY <2>1, BridgeAssumption DEF TypeOK, Payload
    <3> QED
      BY <1>0, <2>1, <3>1, AppendFacts
  <2>4. ASSUME ~pipeClosed PROVE Contiguous'
    <3>1. got = Len(piped) + Len(hand) + Len(inbound) + 1
      BY <1>0, <2>1, <2>4 DEF Flow, Contiguous, OnTheirWay, Held
    <3>2. ASSUME NEW i \in 1..(Len(inbound) + 1)
          PROVE inbound'[i] = Len(piped) + Len(hand) + i
      <4>1. CASE i <= Len(inbound)
        BY <1>0, <2>3, <2>4, <4>1 DEF Flow, Contiguous
      <4>2. CASE i = Len(inbound) + 1
        BY <1>0, <2>3, <3>1, <4>2
      <4> QED
        BY <1>0, <4>1, <4>2
    <3>3. \A i \in 1..Len(hand) : hand[i] = Len(piped) + i
      BY <2>4 DEF Flow, Contiguous
    <3> QED
      BY <1>0, <2>1, <2>3, <3>1, <3>2, <3>3 DEF Contiguous, OnTheirWay, Held
  <2> QED
    BY <2>1, <2>2, <2>4 DEF Flow
<1>4. CASE /\ reader' \in {"failed", "leaving", "exited"}
           /\ reader = "handing" => bridgeDone
           /\ UNCHANGED <<got, piped, hand, inbound, writer, pipeClosed, bridgeDone>>
  <2>1. InOrder'
    BY <1>4 DEF Flow, InOrder
  <2>2. ASSUME ~pipeClosed PROVE Contiguous'
    <3>1. Held' = 0 /\ (~bridgeDone => Held = 0)
      BY <1>4 DEF Held
    <3>2. OnTheirWay' = OnTheirWay /\ OnTheirWay \in Nat
      BY <1>0, <1>4 DEF OnTheirWay
    <3>3. OnTheirWay' + Held' <= got'
      BY <1>0, <1>4, <2>2, <3>1, <3>2 DEF Flow, Contiguous
    <3>4. ~bridgeDone' => OnTheirWay' + Held' = got'
      BY <1>0, <1>4, <2>2, <3>1, <3>2 DEF Flow, Contiguous
    <3> QED
      BY <1>4, <2>2, <3>3, <3>4 DEF Flow, Contiguous
  <2> QED
    BY <1>4, <2>1, <2>2 DEF Flow
<1>5. CASE WriterTakes
  <2>1. /\ writer = "receiving" /\ writer' = "writing" /\ inbound # <<>>
        /\ hand' = <<Head(inbound)>> /\ inbound' = Tail(inbound)
        /\ UNCHANGED <<got, piped, reader, pipeClosed, bridgeDone>>
    BY <1>5 DEF WriterTakes
  <2>2. /\ Len(inbound) \in Nat \ {0} /\ Head(inbound) = inbound[1]
        /\ Len(inbound') = Len(inbound) - 1
        /\ \A i \in 1..(Len(inbound) - 1) : inbound'[i] = inbound[i + 1]
    BY <1>0, <2>1, TailFacts
  <2>3. Len(hand') = 1 /\ hand'[1] = inbound[1] /\ hand = <<>> /\ Len(hand) = 0
    BY <2>1, <2>2 DEF Flow, InOrder
  <2>4. InOrder'
    BY <2>1, <2>3 DEF Flow, InOrder
  <2>5. ASSUME ~pipeClosed PROVE Contiguous'
    <3>1. \A i \in 1..Len(inbound) : inbound[i] = Len(piped) + i
      BY <1>0, <2>3, <2>5 DEF Flow, Contiguous
    <3>2. \A i \in 1..Len(hand') : hand'[i] = Len(piped) + i
      BY <1>0, <2>2, <2>3, <3>1
    <3>3. \A i \in 1..Len(inbound') : inbound'[i] = Len(piped) + 1 + i
      BY <1>0, <2>2, <3>1
    <3>4. Len(hand') + Len(inbound') = Len(hand) + Len(inbound)
      BY <1>0, <2>2, <2>3
    <3>5. OnTheirWay' = OnTheirWay /\ Held' = Held
      BY <1>0, <2>1, <2>2, <2>3, <3>4 DEF OnTheirWay, Held
    <3>6. \A i \in 1..Len(inbound') : inbound'[i] = Len(piped') + Len(hand') + i
      BY <2>1, <2>3, <3>3
    <3> QED
      BY <2>1, <2>5, <3>2, <3>5, <3>6 DEF Flow, Contiguous
  <2> QED
    BY <2>1, <2>4, <2>5 DEF Flow
<1>6. CASE SmuxReads
  <2>1. /\ writer = "writing" /\ writer' = "receiving" /\ ~pipeClosed
        /\ piped' = piped \o hand /\ hand' = <<>>
        /\ UNCHANGED <<got, inbound, reader, pipeClosed, bridgeDone>>
    BY <1>6 DEF SmuxReads
  <2>2. Len(hand) = 1
    BY <2>1 DEF Flow, InOrder
  <2>3. \A i \in 1..Len(hand) : hand[i] = Len(piped) + i
    BY <2>1 DEF Flow, Contiguous
  <2>4. Len(hand) = 1 /\ hand[1] = Len(piped) + 1
    BY <2>2, <2>3
  <2>5. /\ Len(piped') = Len(piped) + 1
        /\ \A i \in 1..(Len(piped) + 1) :
             piped'[i] = IF i <= Len(piped) THEN piped[i] ELSE hand[i - Len(piped)]
    <3>1. /\ Len(piped \o hand) = Len(piped) + Len(hand)
          /\ \A i \in 1..(Len(piped) + Len(hand)) :
               (piped \o hand)[i] = IF i <= Len(piped) THEN piped[i] ELSE hand[i - Len(piped)]
      BY <1>0, ConcatFacts
    <3> QED
      BY <2>1, <2>2, <3>1
  <2>6. Len(hand') = 0
    BY <2>1
  <2>7. ASSUME NEW i \in 1..(Len(piped) + 1) PROVE piped'[i] = i
    <3>1. CASE i <= Len(piped)
      BY <1>0, <2>5, <3>1 DEF Flow, InOrder
    <3>2. CASE i = Len(piped) + 1
      <4>1. i - Len(piped) = 1 /\ ~(i <= Len(piped))
        BY <1>0, <3>2
      <4>2. piped'[i] = hand[1]
        BY <1>0, <2>5, <4>1
      <4> QED
        BY <2>4, <3>2, <4>2
    <3> QED
      BY <1>0, <3>1, <3>2
  <2>8. Len(piped) + 1 <= got
    BY <1>0, <2>1, <2>4 DEF Flow, Contiguous, OnTheirWay
  <2>9. InOrder'
    BY <1>0, <2>1, <2>5, <2>7, <2>8 DEF InOrder
  <2>10. Contiguous'
    <3>1. \A i \in 1..Len(inbound) : inbound[i] = Len(piped) + Len(hand) + i
      BY <2>1 DEF Flow, Contiguous
    <3>2. \A i \in 1..Len(inbound') : inbound'[i] = Len(piped') + Len(hand') + i
      BY <1>0, <2>1, <2>4, <2>5, <2>6, <3>1
    <3>3. OnTheirWay' = OnTheirWay /\ Held' = Held
      BY <1>0, <2>1, <2>4, <2>5, <2>6 DEF OnTheirWay, Held
    <3>4. \A i \in 1..Len(hand') : hand'[i] = Len(piped') + i
      BY <2>6
    <3> QED
      BY <2>1, <3>2, <3>3, <3>4 DEF Flow, Contiguous
  <2> QED
    BY <2>9, <2>10 DEF Flow
<1>7. CASE /\ writer' # "writing" /\ hand' = <<>> /\ pipeClosed'
           /\ UNCHANGED <<got, piped>>
  BY <1>7 DEF Flow, InOrder
<1>8. CASE /\ writer' # "writing" /\ writer # "writing"
           /\ UNCHANGED <<got, piped, hand, inbound, reader, pipeClosed, bridgeDone>>
  <2>1. InOrder'
    BY <1>8 DEF Flow, InOrder
  <2>2. ASSUME ~pipeClosed PROVE Contiguous'
    BY <1>8, <2>2 DEF Flow, Contiguous, OnTheirWay, Held
  <2> QED
    BY <1>8, <2>1, <2>2 DEF Flow
<1>9. CASE ReaderGivesUp
  BY <1>4, <1>9 DEF ReaderGivesUp
<1>10. CASE ReaderSeesEnd \/ HandleMsgFails
  <2>1. ReaderStops
    BY <1>10 DEF ReaderSeesEnd, HandleMsgFails
  <2> QED
    BY <1>4, <2>1 DEF ReaderStops
<1>11. CASE ReaderReports
  BY <1>4, <1>11 DEF ReaderReports
<1>12. CASE ReaderExits
  BY <1>4, <1>12 DEF ReaderExits
<1>13. CASE WriteFails
  BY <1>7, <1>13 DEF WriteFails
<1>14. CASE WriterSeesEnd
  <2>1. hand = <<>>
    BY <1>14 DEF WriterSeesEnd, Flow, InOrder
  <2> QED
    BY <1>7, <1>14, <2>1 DEF WriterSeesEnd
<1>15. CASE WriterExits
  BY <1>8, <1>15 DEF WriterExits
<1>16. CASE CopierStep
  BY <1>1, <1>16 DEF CopierStep, CopierReads, CopierWrites, CopierFails, CopierExits
<1>17. CASE MainStep
  <2>1. CASE ContextEnds \/ BridgeBreaks
    BY <1>1, <2>1 DEF ContextEnds, BridgeBreaks, TeardownStarts
  <2>2. CASE ClosePipes \/ Drain \/ Returns \/ CallerTerminates \/ CallerCloses
    BY <1>1, <2>2 DEF ClosePipes, Drain, Returns, CallerTerminates, CallerCloses
  <2> QED
    BY <1>17, <2>1, <2>2 DEF MainStep
<1>18. CASE ReaderHandlesAck \/ ChannelEnds
  BY <1>1, <1>18 DEF ReaderHandlesAck, ChannelEnds
<1>19. CASE ContextCancelled \/ SmuxDies
  BY <1>1, <1>19 DEF ContextCancelled, SmuxDies
<1>20. CASE UNCHANGED vars
  BY <1>1, <1>20 DEF vars
<1> QED
  BY <1>2, <1>3, <1>5, <1>6, <1>9, <1>10, <1>11, <1>12, <1>13, <1>14, <1>15, <1>16,
     <1>17, <1>18, <1>19, <1>20
     DEF Next, ReaderStep, WriterStep

LEMMA AlwaysFlow == Spec => [](TypeOK /\ Flow)
<1>1. Init => Flow
  <2> SUFFICES ASSUME Init PROVE Flow
    OBVIOUS
  <2>1. /\ piped = <<>> /\ hand = <<>> /\ inbound = <<>> /\ got = 0
        /\ reader = "reading" /\ writer = "receiving"
    BY DEF Init
  <2>2. Len(piped) = 0 /\ Len(hand) = 0 /\ Len(inbound) = 0
    BY <2>1
  <2> QED
    BY <2>1, <2>2 DEF Flow, InOrder, Contiguous, OnTheirWay, Held
<1>2. TypeOK /\ Flow /\ [Next]_vars => Flow'
  BY FlowStep
<1> QED
  BY <1>1, <1>2, BridgeTypeCorrect, PTL DEF Spec

---------------------------------------------------------------------------
\* A sequence whose elements are their own positions.
LEMMA CountingUp ==
  ASSUME NEW S, NEW q \in Seq(S), NEW n \in Nat, Len(q) = n,
         \A i \in 1..n : q[i] = i
  PROVE  q = [i \in 1..n |-> i]
  OBVIOUS

\* While the bridge lives, every payload HandleMsg has returned, and so
\* acknowledged, has been read by smux or is on its way to it, in order.
THEOREM NothingAcknowledgedIsDropped == Spec => []NothingDropped
<1>1. ASSUME TypeOK, Flow, ~bridgeDone, ~pipeClosed
      PROVE  piped \o hand \o inbound \o InReader = [i \in 1..got |-> i]
  <2> DEFINE q == piped \o hand
             r == q \o inbound
             all == r \o InReader
  <2>1. /\ Len(piped) \in Nat /\ Len(hand) \in Nat /\ Len(inbound) \in Nat /\ got \in Nat
        /\ piped \in Seq(Payload) /\ hand \in Seq(Payload) /\ inbound \in Seq(Payload)
    BY <1>1, LengthsTyped
  <2>2. /\ \A i \in 1..Len(piped) : piped[i] = i
        /\ \A i \in 1..Len(hand) : hand[i] = Len(piped) + i
        /\ \A i \in 1..Len(inbound) : inbound[i] = Len(piped) + Len(hand) + i
        /\ OnTheirWay + Held = got
    BY <1>1 DEF Flow, InOrder, Contiguous
  <2>3. /\ InReader \in Seq(Payload) /\ Len(InReader) = Held
        /\ \A i \in 1..Held : i = 1 /\ InReader[i] = got
    <3>1. CASE reader = "handing"
      <4>1. got \in Payload
        BY <1>1, <3>1, BridgeAssumption DEF TypeOK, Payload
      <4> QED
        BY <3>1, <4>1 DEF InReader, Held
    <3>2. CASE reader # "handing"
      BY <3>2 DEF InReader, Held
    <3> QED
      BY <3>1, <3>2
  <2>4. /\ q \in Seq(Payload) /\ Len(q) = Len(piped) + Len(hand)
        /\ \A i \in 1..Len(q) : q[i] = i
    <3>1. /\ q \in Seq(Payload) /\ Len(q) = Len(piped) + Len(hand)
          /\ \A i \in 1..(Len(piped) + Len(hand)) :
               q[i] = IF i <= Len(piped) THEN piped[i] ELSE hand[i - Len(piped)]
      BY <2>1, ConcatFacts
    <3> QED
      BY <2>1, <2>2, <3>1
  <2>5. /\ r \in Seq(Payload) /\ Len(r) = OnTheirWay
        /\ \A i \in 1..Len(r) : r[i] = i
    <3> HIDE DEF q
    <3>1. /\ r \in Seq(Payload) /\ Len(r) = Len(q) + Len(inbound)
          /\ \A i \in 1..(Len(q) + Len(inbound)) :
               r[i] = IF i <= Len(q) THEN q[i] ELSE inbound[i - Len(q)]
      BY <2>1, <2>4, ConcatFacts
    <3>2. ASSUME NEW i \in 1..Len(r) PROVE r[i] = i
      BY <2>1, <2>2, <2>4, <3>1
    <3> QED
      BY <2>1, <2>4, <3>1, <3>2 DEF OnTheirWay
  <2>6. /\ all \in Seq(Payload) /\ Len(all) = got
        /\ \A i \in 1..got : all[i] = i
    <3> HIDE DEF r
    <3>1. /\ all \in Seq(Payload) /\ Len(all) = Len(r) + Len(InReader)
          /\ \A i \in 1..(Len(r) + Len(InReader)) :
               all[i] = IF i <= Len(r) THEN r[i] ELSE InReader[i - Len(r)]
      BY <2>3, <2>5, ConcatFacts
    <3>2. Len(r) \in Nat /\ Held \in 0..1 /\ Len(r) + Held = got
      BY <2>1, <2>2, <2>5 DEF Held, OnTheirWay
    <3>3. ASSUME NEW i \in 1..got PROVE all[i] = i
      <4>1. CASE i <= Len(r)
        BY <2>3, <2>5, <3>1, <3>2, <4>1
      <4>2. CASE i > Len(r)
        <5>1. i = got /\ Held = 1 /\ i - Len(r) = 1
          BY <2>1, <3>2, <4>2
        <5> QED
          BY <2>3, <3>1, <3>2, <4>2, <5>1
      <4>3. i <= Len(r) \/ i > Len(r)
        BY <2>1, <3>2
      <4> QED
        BY <4>1, <4>2, <4>3
    <3> QED
      BY <2>3, <3>1, <3>2, <3>3
  <2>7. all = [i \in 1..got |-> i]
    <3> HIDE DEF all
    <3> QED
      BY <2>1, <2>6, CountingUp
  <2> QED
    BY <2>7
<1>2. TypeOK /\ Flow => NothingDropped
  BY <1>1 DEF NothingDropped
<1> QED
  BY <1>2, AlwaysFlow, PTL

---------------------------------------------------------------------------
\* The refinement: a payload the reader gets is put at its own position, and a
\* read of smux delivers one more.

LEMMA PromisedInit == Init => Promised!Init
<1> SUFFICES ASSUME Init PROVE [i \in 1..got |-> i] = <<>> /\ piped = <<>>
  BY DEF Promised!Init
<1> QED
  BY DEF Init

LEMMA GetPuts ==
  ASSUME TypeOK, ReaderGets
  PROVE  Promised!Next
<1>1. /\ got \in Nat /\ MaxPayloads \in Nat /\ got < MaxPayloads
      /\ got' = got + 1 /\ piped' = piped
  BY BridgeAssumption DEF TypeOK, ReaderGets, writerVars
<1>2. PICK p \in 1..MaxPayloads : p = got + 1
  BY <1>1
<1>3. p \notin 1..got /\ 1..got' = (1..got) \union {p}
  BY <1>1, <1>2
<1> DEFINE now == [i \in 1..got |-> i]
<1>4. now' = [i \in 1..got' |-> i]
  OBVIOUS
<1>5. /\ now' = [t \in DOMAIN now \union {p} |-> IF t = p THEN now'[p] ELSE now[t]]
      /\ p \in DOMAIN now' /\ now'[p] \in 1..MaxPayloads /\ p \notin DOMAIN now
  BY <1>3, <1>4
<1> QED
  BY <1>1, <1>5 DEF Promised!Next, Promised!Put

LEMMA ReadDelivers ==
  ASSUME TypeOK, Flow, TypeOK', Flow', SmuxReads
  PROVE  Promised!Next
<1>1. /\ piped' = piped \o hand /\ got' = got /\ Len(hand) = 1
  BY DEF SmuxReads, readerVars, Flow, InOrder
<1>2. /\ Len(piped) \in Nat /\ got \in Nat /\ MaxPayloads \in Nat /\ got <= MaxPayloads
      /\ piped \in Seq(Payload) /\ hand \in Seq(Payload)
      /\ piped' \in Seq(Payload) /\ Len(piped') \in Nat
  BY BridgeAssumption DEF TypeOK, Payload
<1>3. Len(piped') = Len(piped) + 1
  BY <1>1, <1>2, ConcatFacts
<1>4. /\ \A i \in 1..Len(piped') : piped'[i] = i
      /\ Len(piped') <= got
  BY <1>1 DEF Flow, InOrder
<1>5. PICK last \in 1..MaxPayloads : last = Len(piped')
  BY <1>2, <1>3, <1>4
<1>6. last - 1 + 1 = last /\ last > Len(piped) /\ 1..last \subseteq 1..got
  BY <1>2, <1>3, <1>4, <1>5
<1>7. piped' = [i \in 1..last |-> i]
  BY <1>2, <1>4, <1>5, CountingUp
<1>8. piped' = [i \in 1..(last - 1 + 1) |-> [j \in 1..got |-> j][1 + i - 1]]
  <2>1. \A i \in 1..last : [j \in 1..got |-> j][1 + i - 1] = i
    BY <1>6
  <2> QED
    BY <1>6, <1>7, <2>1
<1>9. Promised!Deliver(last)
  BY <1>1, <1>6, <1>8 DEF Promised!Deliver
<1>10. last = 1 + Len(piped') - 1
  BY <1>2, <1>5
<1> QED
  BY <1>9, <1>10 DEF Promised!Next

\* MuxBridge implements ReliableStream: smux is given the agent's payloads, each
\* once, in order and without a gap, whatever breaks and whenever the teardown
\* begins.
THEOREM BridgeImplementsStream == Spec => ImplementsReliableStream
<1>1. TypeOK /\ Flow /\ TypeOK' /\ Flow' /\ [Next]_vars
        => [Promised!Next]_(Promised!streamVars)
  <2> SUFFICES ASSUME TypeOK, Flow, TypeOK', Flow', [Next]_vars
               PROVE  Promised!Next \/ UNCHANGED <<got, piped>>
    BY DEF Promised!streamVars
  <2>1. CASE ReaderGets
    BY <2>1, GetPuts
  <2>2. CASE SmuxReads
    BY <2>2, ReadDelivers
  <2>3. CASE ReaderStep \/ HandleMsgFails \/ ReaderHandlesAck
    BY <2>3 DEF ReaderStep, ReaderHands, ReaderGivesUp, ReaderSeesEnd, ReaderReports,
                ReaderExits, HandleMsgFails, ReaderStops, ReaderHandlesAck, readerVars,
                writerVars
  <2>4. CASE WriterStep
    BY <2>4 DEF WriterStep, WriterTakes, WriteFails, WriterSeesEnd, WriterExits,
                readerVars
  <2>5. CASE CopierStep
    BY <2>5 DEF CopierStep, CopierReads, CopierWrites, CopierFails, CopierExits,
                readerVars, writerVars
  <2>6. CASE MainStep
    BY <2>6 DEF MainStep, ContextEnds, BridgeBreaks, ClosePipes, Drain, Returns,
                CallerTerminates, CallerCloses, readerVars, writerVars
  <2>7. CASE ChannelEnds \/ ContextCancelled \/ SmuxDies \/ UNCHANGED vars
    BY <2>7 DEF ChannelEnds, ContextCancelled, SmuxDies, vars, readerVars, writerVars
  <2> QED
    BY <2>1, <2>2, <2>3, <2>4, <2>5, <2>6, <2>7 DEF Next
<1> QED
  BY <1>1, PromisedInit, AlwaysFlow, PTL
     DEF Spec, ImplementsReliableStream, Promised!Spec
=============================================================================
