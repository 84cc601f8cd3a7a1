-------------------------- MODULE Outbound_proofs --------------------------
(***************************************************************************)
(* Theorems about Outbound for every value of its constants.  Type         *)
(* correctness, the wake-up property and the window's bound need no        *)
(* assumption.  That a number names one message, and that no retained      *)
(* message is lost, are proved for the sessions whose handshake ends       *)
(* before the writers start (SynDone); Outbound_synrace.cfg shows that     *)
(* they fail for the others.                                               *)
(***************************************************************************)
EXTENDS Outbound, SequenceTheorems, FiniteSetTheorems, TLAPS

---------------------------------------------------------------------------
\* Sequences.

\* RemoveAt keeps every element but the one removed, and adds none.
LEMMA RemoveAtProperties ==
  ASSUME NEW S, NEW q \in Seq(S), NEW i \in 1..Len(q)
  PROVE  /\ RemoveAt(q, i) \in Seq(S)
         /\ Len(RemoveAt(q, i)) = Len(q) - 1
         /\ Range(RemoveAt(q, i)) \subseteq Range(q)
         /\ Range(q) \ {q[i]} \subseteq Range(RemoveAt(q, i))
<1> DEFINE front == SubSeq(q, 1, i - 1)
           back == SubSeq(q, i + 1, Len(q))
           r == front \o back
<1>0. i \in Nat \ {0} /\ Len(q) \in Nat /\ i <= Len(q)
  OBVIOUS
<1>f. /\ front \in Seq(S) /\ Len(front) = i - 1
      /\ \A j \in 1..(i - 1) : front[j] = q[j]
  BY <1>0
<1>b. /\ back \in Seq(S) /\ Len(back) = Len(q) - i
      /\ \A j \in 1..(Len(q) - i) : back[j] = q[i + j]
  <2>1. i + 1 \in Int /\ Len(q) \in Int /\ \A k \in (i + 1)..Len(q) : q[k] \in S
    BY <1>0
  <2>2. /\ back \in Seq(S)
        /\ Len(back) = IF i + 1 <= Len(q) THEN Len(q) - (i + 1) + 1 ELSE 0
        /\ \A j \in 1..(Len(q) - (i + 1) + 1) : back[j] = q[(i + 1) + j - 1]
    BY <2>1, SubSeqProperties
  <2> HIDE DEF back
  <2>3. Len(back) = Len(q) - i
    BY <1>0, <2>2
  <2>4. ASSUME NEW j \in 1..(Len(q) - i)
        PROVE  back[j] = q[i + j]
    <3>1. j \in 1..(Len(q) - (i + 1) + 1) /\ (i + 1) + j - 1 = i + j
      BY <1>0
    <3>2. back[j] = q[(i + 1) + j - 1]
      BY <2>2, <3>1
    <3> QED
      BY <3>1, <3>2
  <2> QED
    BY <2>2, <2>3, <2>4
<1>1. /\ r \in Seq(S) /\ Len(r) = Len(q) - 1
      /\ \A j \in 1..Len(r) : r[j] = IF j < i THEN q[j] ELSE q[j + 1]
  <2> HIDE DEF front, back
  <2>1. /\ r \in Seq(S) /\ Len(r) = Len(front) + Len(back)
        /\ \A j \in 1..(Len(front) + Len(back)) :
             r[j] = IF j <= Len(front) THEN front[j] ELSE back[j - Len(front)]
    BY <1>f, <1>b, ConcatProperties
  <2> HIDE DEF r
  <2>2. Len(r) = Len(q) - 1
    BY <1>0, <1>f, <1>b, <2>1
  <2>3. ASSUME NEW j \in 1..Len(r)
        PROVE  r[j] = IF j < i THEN q[j] ELSE q[j + 1]
    <3>0. j \in Nat /\ 1 <= j /\ j <= Len(q) - 1
      BY <1>0, <2>2
    <3>1. r[j] = IF j <= i - 1 THEN front[j] ELSE back[j - (i - 1)]
      BY <3>0, <1>0, <1>f, <1>b, <2>1
    <3>2. CASE j < i
      BY <3>0, <3>1, <3>2, <1>0, <1>f
    <3>3. CASE j >= i
      <4>1. back[j - (i - 1)] = q[i + (j - (i - 1))]
        BY <3>0, <3>3, <1>0, <1>b
      <4>2. i + (j - (i - 1)) = j + 1 /\ ~(j <= i - 1)
        BY <3>0, <3>3, <1>0
      <4> QED
        BY <3>1, <3>3, <4>1, <4>2, <3>0, <1>0
    <3> QED
      BY <3>0, <3>2, <3>3, <1>0
  <2> QED
    BY <2>1, <2>2, <2>3
<1>2. DOMAIN r = 1..Len(r) /\ DOMAIN q = 1..Len(q) /\ Len(q) \in Nat
  <2>1. DOMAIN q = 1..Len(q)
    OBVIOUS
  <2> HIDE DEF r
  <2> QED
    BY <2>1, <1>0, <1>1
<1>3. RemoveAt(q, i) = r
  BY DEF RemoveAt
<1> HIDE DEF r
<1>4. Range(r) \subseteq Range(q)
  <2>1. ASSUME NEW j \in 1..Len(r) PROVE \E k \in 1..Len(q) : r[j] = q[k]
    <3>0. j \in Nat /\ 1 <= j /\ j <= Len(q) - 1
      BY <1>0, <1>1
    <3>1. CASE j < i
      <4>1. j \in 1..Len(q) /\ r[j] = q[j]
        BY <3>0, <3>1, <1>0, <1>1
      <4> QED
        BY <4>1
    <3>2. CASE j >= i
      <4>1. j + 1 \in 1..Len(q) /\ r[j] = q[j + 1]
        BY <3>0, <3>2, <1>0, <1>1
      <4> QED
        BY <4>1
    <3> QED
      BY <3>0, <3>1, <3>2, <1>0
  <2> QED
    BY <2>1, <1>2, Zenon DEF Range
<1>5. ASSUME NEW x \in Range(q), x # q[i] PROVE x \in Range(r)
  <2>1. PICK k \in 1..Len(q) : q[k] = x
    BY <1>2 DEF Range
  <2>2. CASE k < i
    <3>1. k \in 1..Len(r) /\ r[k] = x
      BY <1>1, <1>2, <2>1, <2>2
    <3> QED
      BY <3>1, <1>2 DEF Range
  <2>3. CASE k > i
    <3>1. k - 1 \in 1..Len(r) /\ r[k - 1] = x
      BY <1>1, <1>2, <2>1, <2>3
    <3> QED
      BY <3>1, <1>2 DEF Range
  <2> QED
    BY <1>5, <1>2, <2>1, <2>2, <2>3
<1> QED
  BY <1>1, <1>3, <1>4, <1>5

LEMMA AppendRange ==
  ASSUME NEW S, NEW q \in Seq(S), NEW x \in S
  PROVE  /\ Append(q, x) \in Seq(S)
         /\ Len(Append(q, x)) = Len(q) + 1
         /\ Range(Append(q, x)) = Range(q) \union {x}
<1>1. /\ Append(q, x) \in Seq(S) /\ Len(Append(q, x)) = Len(q) + 1 /\ Len(q) \in Nat
      /\ \A j \in 1..Len(q) : Append(q, x)[j] = q[j]
      /\ Append(q, x)[Len(q) + 1] = x
  OBVIOUS
<1>2. DOMAIN Append(q, x) = 1..(Len(q) + 1) /\ DOMAIN q = 1..Len(q)
  BY <1>1
<1>3. 1..(Len(q) + 1) = 1..Len(q) \union {Len(q) + 1}
  BY <1>1
<1> HIDE <1>1
<1> QED
  BY <1>1, <1>2, <1>3 DEF Range

LEMMA TailRange ==
  ASSUME NEW S, NEW q \in Seq(S), q # <<>>
  PROVE  /\ Tail(q) \in Seq(S) /\ q[1] \in Range(q) /\ q[1] \in S
         /\ Range(Tail(q)) \subseteq Range(q)
<1>1. /\ Tail(q) \in Seq(S) /\ Len(Tail(q)) = Len(q) - 1 /\ Len(q) \in Nat \ {0}
      /\ \A j \in 1..(Len(q) - 1) : Tail(q)[j] = q[j + 1]
  OBVIOUS
<1>2. DOMAIN Tail(q) = 1..(Len(q) - 1) /\ DOMAIN q = 1..Len(q)
  BY <1>1
<1> QED
  BY <1>1, <1>2 DEF Range

---------------------------------------------------------------------------
\* Types.

LEMMA InitTypeOK == Init => TypeOK
<1> SUFFICES ASSUME Init PROVE TypeOK
  OBVIOUS
<1> USE DEF Init, BufInit
<1>1. buf \in Seq(Message) /\ wire \in Seq(Message)
  OBVIOUS
<1>2. acks \in Seq(AckMessage)
  OBVIOUS
<1>3. resend \in Seq(Message) /\ Len(resend) <= 1
  OBVIOUS
<1>4. pc \in [Threads -> {"idle", "stamp", "add", "send", "close", "closeWs", "stopped"}]
  OBVIOUS
<1>5. msg \in [Threads -> Message]
  BY DEF Message
<1>6. age \in 0..(ResendTicks - 1)
  BY BoundsAssumption
<1>7. DOMAIN received = {}
  OBVIOUS
<1>8. synSent \in BOOLEAN
  BY SwitchAssumption
<1> QED
  BY <1>1, <1>2, <1>3, <1>4, <1>5, <1>6, <1>7, <1>8 DEF TypeOK

\* Which buffer a step leaves behind.
LEMMA RemoveSeqEffect ==
  ASSUME TypeOK, NEW s, RemoveSeq(s)
  PROVE  /\ buf' \in Seq(Message) /\ bufClosed' = bufClosed
         /\ \/ UNCHANGED <<buf, parked>>
            \/ Len(buf') = Len(buf) - 1 /\ parked' = {}
         /\ Range(buf') \subseteq Range(buf)
         /\ \A m \in Range(buf) : m.seq = s \/ m \in Range(buf')
<1>1. CASE Held(s)
  <2> DEFINE i == Position(s)
  <2>1. i \in 1..Len(buf) /\ buf[i].seq = s
    BY <1>1 DEF Held, Position, TypeOK
  <2>2. buf' = RemoveAt(buf, i) /\ parked' = {} /\ bufClosed' = bufClosed
    BY <1>1 DEF RemoveSeq
  <2> HIDE DEF i
  <2> QED
    BY <2>1, <2>2, RemoveAtProperties DEF TypeOK
<1>2. CASE ~Held(s)
  BY <1>2 DEF RemoveSeq, TypeOK
<1> QED
  BY <1>1, <1>2

LEMMA AcceptEffect ==
  ASSUME TypeOK, NEW m \in Message, Accept(m)
  PROVE  /\ buf' \in Seq(Message)
         /\ \/ Len(buf') = Len(buf)
            \/ Len(buf') = Len(buf) + 1 /\ Len(buf) < BufSize
         /\ m \in Range(buf')
         /\ Range(buf') \subseteq Range(buf) \union {m}
         /\ \A x \in Range(buf) : x.seq = m.seq \/ x \in Range(buf')
<1>1. CASE Held(m.seq) /\ buf' = [buf EXCEPT ![Position(m.seq)] = m]
  <2> DEFINE i == Position(m.seq)
  <2>1. i \in 1..Len(buf) /\ buf[i].seq = m.seq /\ Len(buf) \in Nat
    BY <1>1 DEF Held, Position, TypeOK
  <2>2. buf' = [buf EXCEPT ![i] = m]
    BY <1>1
  <2> HIDE DEF i
  <2>3. /\ buf' \in Seq(Message) /\ Len(buf') = Len(buf)
        /\ DOMAIN buf' = 1..Len(buf) /\ DOMAIN buf = 1..Len(buf)
        /\ buf'[i] = m
        /\ \A j \in 1..Len(buf) : j # i => buf'[j] = buf[j]
    BY <2>1, <2>2 DEF TypeOK
  <2>4. m \in Range(buf') /\ Range(buf') \subseteq Range(buf) \union {m}
    BY <2>1, <2>3 DEF Range
  <2>5. \A x \in Range(buf) : x.seq = m.seq \/ x \in Range(buf')
    BY <2>1, <2>3 DEF Range
  <2> QED
    BY <2>3, <2>4, <2>5
<1>2. CASE Room /\ buf' = Append(buf, m)
  BY <1>2, AppendRange DEF TypeOK, Room
<1> QED
  BY <1>1, <1>2 DEF Accept

\* The buffer's variables are the only ones whose types need an argument.
BufTypeOK == buf \in Seq(Message) /\ bufClosed \in BOOLEAN /\ parked \subseteq Threads
RestTypeOK ==
  /\ pc \in [Threads -> {"idle", "stamp", "add", "send", "close", "closeWs", "stopped"}]
  /\ msg \in [Threads -> Message]
  /\ seqNum \in Nat
  /\ synSent \in BOOLEAN
  /\ reader \in {"running", "exited"}
  /\ agentOpen \in BOOLEAN
  /\ DOMAIN received \subseteq Nat
  /\ \A s \in DOMAIN received : received[s] \in Message
  /\ issued \subseteq Message
  /\ retained \subseteq Message
NetTypeOK ==
  /\ wsUp \in BOOLEAN
  /\ wire \in Seq(Message)
  /\ acks \in Seq(AckMessage)
SchedTypeOK ==
  /\ frontSeq \in Nat \union {NoSeq}
  /\ age \in 0..(ResendTicks - 1)
  /\ resend \in Seq(Message) /\ Len(resend) <= 1
  /\ sched \in {"running", "stopped"}

LEMMA TypeParts ==
  /\ TypeOK <=> BufTypeOK /\ RestTypeOK /\ NetTypeOK /\ SchedTypeOK
  /\ TypeOK' <=> BufTypeOK' /\ RestTypeOK' /\ NetTypeOK' /\ SchedTypeOK'
BY DEF TypeOK, BufTypeOK, RestTypeOK, NetTypeOK, SchedTypeOK

\* A thread only ever goes to a place of its list.
LEMMA GotoTypes ==
  ASSUME RestTypeOK, NEW t \in Threads,
         NEW where \in {"idle", "stamp", "add", "send", "close", "closeWs", "stopped"},
         Goto(t, where)
  PROVE  pc' \in [Threads -> {"idle", "stamp", "add", "send", "close", "closeWs", "stopped"}]
BY DEF Goto, RestTypeOK

LEMMA AfterWriteTypes ==
  ASSUME RestTypeOK, NEW t \in Threads, NEW ok \in BOOLEAN, AfterWrite(t, ok)
  PROVE  pc' \in [Threads -> {"idle", "stamp", "add", "send", "close", "closeWs", "stopped"}]
BY GotoTypes DEF AfterWrite

LEMMA NoAcks == <<>> \in Seq(AckMessage)
OBVIOUS

LEMMA AcknowledgementType ==
  ASSUME NEW kind \in AckKinds, NEW s \in Nat
  PROVE  /\ Acknowledgement(kind, s) \in AckMessage
         /\ AckedNumber(Acknowledgement(kind, s)) = s
BY DEF Acknowledgement, AckedNumber, NoSeq, AckMessage

LEMMA AllocateTypes ==
  ASSUME TypeOK, NEW t \in Threads, Allocate(t)
  PROVE  /\ seqNum' \in Nat /\ synSent' \in BOOLEAN
         /\ msg' \in [Threads -> Message]
         /\ pc' \in [Threads -> {"idle", "stamp", "add", "send", "close", "closeWs", "stopped"}]
<1>1. /\ seqNum' = seqNum + 1 /\ synSent' = synSent
      /\ msg' = [msg EXCEPT ![t] = [seq |-> seqNum + 1, src |-> t, n |-> msg[t].n + 1]]
      /\ pc' = [pc EXCEPT ![t] = "stamp"]
  BY DEF Allocate, NextSeqNum, Goto
<1>2. seqNum \in Nat /\ synSent \in BOOLEAN /\ msg[t] \in Message
  BY DEF TypeOK
<1>3. [seq |-> seqNum + 1, src |-> t, n |-> msg[t].n + 1] \in Message
  BY <1>2 DEF Message
<1> QED
  BY <1>1, <1>2, <1>3 DEF TypeOK

LEMMA ThreadStepTypes ==
  ASSUME TypeOK, NEW t \in Threads, ThreadStep(t)
  PROVE  TypeOK'
<1>0. BufTypeOK /\ RestTypeOK /\ NetTypeOK /\ SchedTypeOK /\ msg[t] \in Message
  BY TypeParts DEF TypeOK
<1>1. CASE Stamp(t)
  <2>1. [msg EXCEPT ![t].seq = 0] \in [Threads -> Message]
    BY <1>0 DEF RestTypeOK, Message
  <2>2. seqNum' \in Nat /\ synSent' \in BOOLEAN /\ msg' \in [Threads -> Message]
    BY <1>0, <1>1, <2>1 DEF Stamp, RestTypeOK
  <2>3. issued' = issued \union {msg'[t]} /\ pc' = [pc EXCEPT ![t] = "add"]
    BY <1>1 DEF Stamp, Goto
  <2>4. UNCHANGED <<bufVars, netVars, reader, schedVars, agentVars, retained>>
    BY <1>1 DEF Stamp
  <2>5. issued' \subseteq Message
    BY <1>0, <2>2, <2>3 DEF RestTypeOK
  <2>6. RestTypeOK'
    BY <1>0, <2>2, <2>3, <2>4, <2>5 DEF RestTypeOK, agentVars
  <2> QED
    BY <1>0, <2>4, <2>6, TypeParts
       DEF BufTypeOK, NetTypeOK, SchedTypeOK, bufVars, netVars, schedVars
<1>2. CASE AddAccepts(t)
  <2>1. BufTypeOK'
    BY <1>0, <1>2, AcceptEffect DEF AddAccepts, AddWaitAccepts, BufTypeOK
  <2>2. RestTypeOK'
    BY <1>0, <1>2 DEF AddAccepts, Goto, RestTypeOK, counterVars, agentVars
  <2> QED
    BY <1>0, <1>2, <2>1, <2>2, TypeParts
       DEF AddAccepts, NetTypeOK, SchedTypeOK, netVars, schedVars
<1>3. CASE AddParks(t)
  <2>1. BufTypeOK'
    BY <1>0, <1>3 DEF AddParks, AddWaitParks, BufTypeOK
  <2> QED
    BY <1>0, <1>3, <2>1, TypeParts
       DEF AddParks, RestTypeOK, NetTypeOK, SchedTypeOK, threadVars, counterVars,
           agentVars, historyVars, netVars, schedVars
<1>4. CASE AddRefused(t)
  <2>1. RestTypeOK'
    BY <1>0, <1>4
       DEF AddRefused, AfterWrite, Goto, RestTypeOK, counterVars, agentVars, historyVars
  <2> QED
    BY <1>0, <1>4, <2>1, TypeParts
       DEF AddRefused, AddWaitRefuses, BufTypeOK, NetTypeOK, SchedTypeOK, bufVars,
           netVars, schedVars
<1>5. CASE Send(t)
  <2>1. RestTypeOK'
    BY <1>0, <1>5
       DEF Send, AfterWrite, Goto, RestTypeOK, counterVars, agentVars, historyVars
  <2>2. NetTypeOK'
    <3>1. wire' = Append(wire, msg[t]) \/ wire' = wire
      BY <1>5 DEF Send
    <3>2. wire' \in Seq(Message)
      BY <1>0, <3>1, AppendRange DEF NetTypeOK
    <3> QED
      BY <1>0, <1>5, <3>2 DEF Send, NetTypeOK
  <2> QED
    BY <1>0, <1>5, <2>1, <2>2, TypeParts
       DEF Send, BufTypeOK, SchedTypeOK, bufVars, schedVars
<1>6. CASE CloseStarts(t)
  <2>1. RestTypeOK'
    BY <1>0, <1>6 DEF CloseStarts, Goto, RestTypeOK, counterVars, agentVars, historyVars
  <2>2. BufTypeOK'
    BY <1>0, <1>6 DEF CloseStarts, CloseBuffer, BufTypeOK
  <2> QED
    BY <1>0, <1>6, <2>1, <2>2, TypeParts
       DEF CloseStarts, NetTypeOK, SchedTypeOK, netVars, schedVars
<1>7. CASE CloseEnds(t)
  <2>1. RestTypeOK'
    BY <1>0, <1>7 DEF CloseEnds, Goto, RestTypeOK, counterVars, agentVars, historyVars
  <2>2. NetTypeOK'
    <3>1. wsUp' \in BOOLEAN /\ wire' \in Seq(Message)
      BY <1>0, <1>7 DEF CloseEnds, NetTypeOK
    <3> QED
      BY <3>1, <1>7, NoAcks DEF CloseEnds, NetTypeOK
  <2> QED
    BY <1>0, <1>7, <2>1, <2>2, TypeParts
       DEF CloseEnds, BufTypeOK, SchedTypeOK, bufVars, schedVars
<1>8. CASE CloseAgain(t)
  <2>1. RestTypeOK'
    BY <1>0, <1>8 DEF CloseAgain, Goto, RestTypeOK, counterVars, agentVars, historyVars
  <2> QED
    BY <1>0, <1>8, <2>1, TypeParts
       DEF CloseAgain, BufTypeOK, NetTypeOK, SchedTypeOK, bufVars, netVars, schedVars
<1> QED
  BY <1>1, <1>2, <1>3, <1>4, <1>5, <1>6, <1>7, <1>8 DEF ThreadStep

LEMMA AgentTakesTypes ==
  ASSUME TypeOK, AgentTakes
  PROVE  /\ wire # <<>> /\ wire[1] \in Message /\ wire[1] \in Range(wire)
         /\ wire' \in Seq(Message) /\ Range(wire') \subseteq Range(wire)
         /\ DOMAIN received' = DOMAIN received \union {wire[1].seq}
         /\ \A s \in DOMAIN received : received'[s] = received[s]
         /\ wire[1].seq \notin DOMAIN received => received'[wire[1].seq] = wire[1]
         /\ wire[1].seq \in Nat
<1>1. wire # <<>> /\ wire \in Seq(Message) /\ wire' = Tail(wire)
  BY DEF AgentTakes, TypeOK
<1>2. /\ wire[1] \in Message /\ wire[1] \in Range(wire)
      /\ wire' \in Seq(Message) /\ Range(wire') \subseteq Range(wire)
  BY <1>1, TailRange
<1> QED
  BY <1>1, <1>2 DEF AgentTakes, Message

LEMMA TickTypes ==
  ASSUME SchedTypeOK, BufTypeOK, TickEffect, sched' = sched
  PROVE  SchedTypeOK' /\ (resend' = resend \/ (buf # <<>> /\ resend' = <<buf[1]>>))
<1>1. ResendTicks \in Nat \ {0} /\ buf \in Seq(Message) /\ age \in 0..(ResendTicks - 1)
  BY BoundsAssumption DEF SchedTypeOK, BufTypeOK
<1>2. CASE buf = <<>>
  BY <1>2 DEF TickEffect, SchedTypeOK
<1>3. CASE buf # <<>>
  <2>0. buf[1] \in Message
    BY <1>1, <1>3, TailRange
  <2>1. buf[1] \in Message /\ buf[1].seq \in Nat
    BY <2>0 DEF Message
  <2>2. <<buf[1]>> \in Seq(Message) /\ Len(<<buf[1]>>) = 1
    BY <2>1
  <2>3. CASE frontSeq # buf[1].seq
    <3>1. frontSeq' = buf[1].seq /\ age' = 0 /\ resend' = resend
      BY <1>3, <2>3 DEF TickEffect
    <3>2. age' \in 0..(ResendTicks - 1)
      BY <1>1, <3>1
    <3> QED
      BY <2>1, <3>1, <3>2 DEF SchedTypeOK
  <2>4. CASE frontSeq = buf[1].seq /\ age + 1 < ResendTicks
    <3>1. frontSeq' = frontSeq /\ age' = age + 1 /\ resend' = resend
      BY <1>3, <2>4 DEF TickEffect
    <3>2. age' \in 0..(ResendTicks - 1)
      BY <1>1, <2>4, <3>1
    <3> QED
      BY <3>1, <3>2 DEF SchedTypeOK
  <2>5. CASE frontSeq = buf[1].seq /\ ~(age + 1 < ResendTicks)
    <3>1. frontSeq' = frontSeq /\ age' = 0 /\ resend' = <<buf[1]>>
      BY <1>3, <2>5 DEF TickEffect
    <3>2. age' \in 0..(ResendTicks - 1)
      BY <1>1, <3>1
    <3> QED
      BY <1>3, <2>2, <3>1, <3>2 DEF SchedTypeOK
  <2> QED
    BY <2>3, <2>4, <2>5
<1> QED
  BY <1>2, <1>3

LEMMA NextTypes ==
  ASSUME TypeOK, [Next]_vars
  PROVE  TypeOK'
<1>0. BufTypeOK /\ RestTypeOK /\ NetTypeOK /\ SchedTypeOK
  BY TypeParts
<1>1. ASSUME NEW t \in Threads, ThreadStep(t) PROVE TypeOK'
  BY <1>1, ThreadStepTypes
<1>2. ASSUME NEW t \in Threads, Begin(t) \/ EndSession(t) PROVE TypeOK'
  <2>1. UNCHANGED <<bufVars, netVars, reader, schedVars, agentVars, historyVars>>
    BY <1>2 DEF Begin, EndSession
  <2>2. CASE Allocate(t)
    BY <2>1, <2>2, <1>0, AllocateTypes, TypeParts
       DEF BufTypeOK, RestTypeOK, NetTypeOK, SchedTypeOK, bufVars, netVars, schedVars,
           agentVars, historyVars
  <2>3. CASE Goto(t, "close") /\ UNCHANGED <<msg, counterVars>>
    BY <2>1, <2>3, <1>0, GotoTypes, TypeParts
       DEF BufTypeOK, RestTypeOK, NetTypeOK, SchedTypeOK, bufVars, netVars, schedVars,
           agentVars, historyVars, counterVars
  <2> QED
    BY <1>2, <2>2, <2>3 DEF Begin, EndSession
<1>3. CASE Tick
  <2>1. SchedTypeOK'
    BY <1>0, <1>3, TickTypes DEF Tick
  <2> QED
    BY <2>1, <1>0, <1>3, TypeParts
       DEF Tick, BufTypeOK, RestTypeOK, NetTypeOK, bufVars, threadVars, counterVars,
           netVars, agentVars, historyVars
<1>4. CASE Resend
  <2>1. resend[1] \in Message
    BY <1>0, <1>4, TailRange DEF Resend, SchedTypeOK
  <2>2. wire' = Append(wire, resend[1]) \/ wire' = wire
    BY <1>4 DEF Resend, RetainedCopy
  <2>3. wire' \in Seq(Message)
    BY <1>0, <2>1, <2>2, AppendRange DEF NetTypeOK
  <2>4. NetTypeOK'
    BY <1>0, <1>4, <2>3 DEF Resend, NetTypeOK
  <2>5. SchedTypeOK'
    <3>1. resend' \in Seq(Message) /\ Len(resend') <= 1
      BY <1>4 DEF Resend
    <3> QED
      BY <1>0, <1>4, <3>1 DEF Resend, SchedTypeOK
  <2> QED
    BY <2>4, <2>5, <1>0, <1>4, TypeParts
       DEF Resend, BufTypeOK, RestTypeOK, bufVars, threadVars, counterVars, agentVars,
           historyVars
<1>5. CASE SchedulerStops
  BY <1>0, <1>5, TypeParts
     DEF SchedulerStops, BufTypeOK, RestTypeOK, NetTypeOK, SchedTypeOK, bufVars,
         threadVars, counterVars, netVars, agentVars, historyVars
<1>6. ASSUME NEW kind \in AckKinds, AgentReceives(kind) PROVE TypeOK'
  <2>1. AgentTakes
    BY <1>6 DEF AgentReceives
  <2>2. acks' \in Seq(AckMessage)
    BY <1>0, <1>6, <2>1, AgentTakesTypes, AcknowledgementType, AppendRange
       DEF AgentReceives, NetTypeOK
  <2>3. NetTypeOK'
    BY <1>0, <1>6, <2>1, <2>2, AgentTakesTypes DEF AgentReceives, NetTypeOK
  <2>4. RestTypeOK'
    BY <1>0, <1>6, <2>1, AgentTakesTypes
       DEF AgentReceives, RestTypeOK, threadVars, counterVars, historyVars
  <2> QED
    BY <2>3, <2>4, <1>0, <1>6, TypeParts
       DEF AgentReceives, BufTypeOK, SchedTypeOK, bufVars, schedVars
<1>7. CASE AgentReceivesUnacked
  <2>1. AgentTakes
    BY <1>7 DEF AgentReceivesUnacked
  <2>2. NetTypeOK'
    BY <1>0, <1>7, <2>1, AgentTakesTypes DEF AgentReceivesUnacked, NetTypeOK
  <2>3. RestTypeOK'
    BY <1>0, <1>7, <2>1, AgentTakesTypes
       DEF AgentReceivesUnacked, RestTypeOK, threadVars, counterVars, historyVars
  <2> QED
    BY <2>2, <2>3, <1>0, <1>7, TypeParts
       DEF AgentReceivesUnacked, BufTypeOK, SchedTypeOK, bufVars, schedVars
<1>8. CASE FrameLost
  <2>1. wire' \in Seq(Message)
    BY <1>0, <1>8, TailRange DEF FrameLost, NetTypeOK
  <2> QED
    BY <2>1, <1>0, <1>8, TypeParts
       DEF FrameLost, BufTypeOK, RestTypeOK, NetTypeOK, SchedTypeOK, bufVars,
           threadVars, counterVars, agentVars, schedVars, historyVars
<1>9. CASE AgentCloses
  BY <1>0, <1>9, TypeParts
     DEF AgentCloses, BufTypeOK, RestTypeOK, NetTypeOK, SchedTypeOK, bufVars,
         threadVars, counterVars, netVars, schedVars, historyVars
<1>10. CASE ConnectionDrops
  <2>1. wsUp' \in BOOLEAN /\ acks' = <<>> /\ wire' = wire
    BY <1>10 DEF ConnectionDrops
  <2>2. NetTypeOK'
    BY <1>0, <2>1, NoAcks DEF NetTypeOK
  <2> QED
    BY <2>2, <1>0, <1>10, TypeParts
       DEF ConnectionDrops, BufTypeOK, RestTypeOK, SchedTypeOK, bufVars,
           threadVars, counterVars, agentVars, schedVars, historyVars
<1>11. CASE ReaderHandlesAck
  <2>1. acks' \in Seq(AckMessage)
    BY <1>0, <1>11, TailRange DEF ReaderHandlesAck, NetTypeOK
  <2>2. RemoveSeq(AckedNumber(acks[1]))
    BY <1>11 DEF ReaderHandlesAck
  <2>3. BufTypeOK'
    BY <1>0, <2>2, RemoveSeqEffect DEF BufTypeOK
  <2> QED
    BY <2>1, <2>3, <1>0, <1>11, TypeParts
       DEF ReaderHandlesAck, RestTypeOK, NetTypeOK, SchedTypeOK,
           threadVars, counterVars, agentVars, schedVars, historyVars
<1>12. CASE ReaderExits
  BY <1>0, <1>12, TypeParts
     DEF ReaderExits, BufTypeOK, RestTypeOK, NetTypeOK, SchedTypeOK, bufVars,
         threadVars, counterVars, netVars, agentVars, schedVars, historyVars
<1>13. CASE UNCHANGED vars
  BY <1>0, <1>13, TypeParts
     DEF vars, BufTypeOK, RestTypeOK, NetTypeOK, SchedTypeOK, bufVars, threadVars,
         counterVars, netVars, agentVars, schedVars, historyVars
<1>14. MainEnds \/ SignalArrives => \E t \in Threads : EndSession(t)
  BY DEF MainEnds, SignalArrives, EndSession, Threads
<1>15. ReaderSeesDrop \/ ReaderSeesChannelClosed \/ LocalOutputFails => ReaderExits
  BY DEF ReaderSeesDrop, ReaderSeesChannelClosed, LocalOutputFails
<1> QED
  BY <1>1, <1>2, <1>3, <1>4, <1>5, <1>6, <1>7, <1>8, <1>9, <1>10, <1>11, <1>12, <1>13,
     <1>14, <1>15 DEF Next

\* Type correctness of the outbound half.
THEOREM OutboundTypeCorrect == Spec => []TypeOK
BY InitTypeOK, NextTypes, PTL DEF Spec

---------------------------------------------------------------------------
\* The window's size, and its sleepers.

LEMMA BufferSteps ==
  ASSUME [Next]_vars
  PROVE  \/ \E t \in Threads : AddAccepts(t)
         \/ \E t \in Threads : AddParks(t)
         \/ ReaderHandlesAck
         \/ CloseBuffer
         \/ UNCHANGED bufVars
<1>1. ASSUME NEW t \in Threads, ThreadStep(t)
      PROVE  AddAccepts(t) \/ AddParks(t) \/ CloseBuffer \/ UNCHANGED bufVars
  BY <1>1
     DEF ThreadStep, Stamp, AddRefused, AddWaitRefuses, Send, CloseStarts, CloseEnds,
         CloseAgain
<1>2. ASSUME NEW t \in Threads, Begin(t) PROVE UNCHANGED bufVars
  BY <1>2 DEF Begin
<1> QED
  BY <1>1, <1>2
     DEF Next, Tick, Resend, SchedulerStops, AgentReceives, AgentReceivesUnacked,
         FrameLost, AgentCloses, ConnectionDrops, ReaderSeesDrop,
         ReaderSeesChannelClosed, LocalOutputFails, ReaderExits, MainEnds,
         SignalArrives, EndSession, vars, bufVars

Windowed == Len(buf) <= BufSize

LEMMA NextWindowed ==
  ASSUME TypeOK, Windowed, NoLostWakeup, [Next]_vars
  PROVE  Windowed' /\ NoLostWakeup'
<1>0. Len(buf) \in Nat /\ BufSize \in Nat
  BY BufSizeAssumption DEF TypeOK
<1>1. ASSUME NEW t \in Threads, AddAccepts(t) PROVE Windowed' /\ NoLostWakeup'
  <2>1. msg[t] \in Message /\ Accept(msg[t]) /\ UNCHANGED <<bufClosed, parked>>
    BY <1>1 DEF TypeOK, AddAccepts, AddWaitAccepts
  <2>2. \/ Len(buf') = Len(buf)
        \/ Len(buf') = Len(buf) + 1 /\ Len(buf) < BufSize
    BY <2>1, AcceptEffect
  <2> QED
    BY <1>0, <2>1, <2>2 DEF Windowed, NoLostWakeup
<1>2. ASSUME NEW t \in Threads, AddParks(t) PROVE Windowed' /\ NoLostWakeup'
  BY <1>0, <1>2 DEF AddParks, AddWaitParks, Room, Windowed, NoLostWakeup
<1>3. CASE ReaderHandlesAck
  <2>1. RemoveSeq(AckedNumber(acks[1]))
    BY <1>3 DEF ReaderHandlesAck
  <2>2. /\ bufClosed' = bufClosed
        /\ \/ UNCHANGED <<buf, parked>>
           \/ Len(buf') = Len(buf) - 1 /\ parked' = {}
    BY <2>1, RemoveSeqEffect
  <2> QED
    BY <1>0, <2>2 DEF Windowed, NoLostWakeup
<1>4. CASE CloseBuffer
  BY <1>4 DEF CloseBuffer, Windowed, NoLostWakeup
<1>5. CASE UNCHANGED bufVars
  BY <1>5 DEF bufVars, Windowed, NoLostWakeup
<1> QED
  BY <1>1, <1>2, <1>3, <1>4, <1>5, BufferSteps

LEMMA AlwaysWindowed == Spec => [](TypeOK /\ Windowed /\ NoLostWakeup)
<1>1. Init => Windowed /\ NoLostWakeup
  BY BufSizeAssumption DEF Init, BufInit, Windowed, NoLostWakeup
<1> QED
  BY <1>1, InitTypeOK, NextTypes, NextWindowed, PTL DEF Spec

\* A goroutine sleeps in AddWait only while the window is full and open: every
\* Remove that makes room and every Close wakes it.
THEOREM NoWriterSleepsForNothing == Spec => []NoLostWakeup
BY AlwaysWindowed, PTL

---------------------------------------------------------------------------
\* Sequence numbers.  Numbers are unique because a number handed out by
\* NextSeqNum and not yet issued is above every number issued so far, below or
\* at the counter, and different from every other one in the same position.

Unissued(t) ==
  /\ msg[t].seq <= seqNum
  /\ \A m \in issued : m.seq # msg[t].seq
  /\ \A u \in Threads : u # t /\ pc[u] = "stamp" => msg[u].seq # msg[t].seq
  /\ \A m \in issued : m.src = t => m.n < msg[t].n /\ m.seq < msg[t].seq

Numbered ==
  /\ synSent
  /\ \A t \in Threads : msg[t].src = t
  /\ \A m \in issued : m.seq <= seqNum /\ m.n <= msg[m.src].n
  /\ \A t \in Threads : pc[t] = "stamp" => Unissued(t)

LEMMA NumberingSteps ==
  ASSUME Numbered, [Next]_vars
  PROVE  \/ \E t \in Threads : Allocate(t) /\ issued' = issued
         \/ \E t \in Threads : /\ pc[t] = "stamp"
                              /\ UNCHANGED <<seqNum, synSent, msg>>
                              /\ issued' = issued \union {msg[t]}
                              /\ pc' = [pc EXCEPT ![t] = "add"]
         \/ /\ UNCHANGED <<msg, seqNum, synSent, issued>>
            /\ \/ pc' = pc
               \/ \E t \in Threads, where \in {"idle", "send", "close", "closeWs", "stopped"} :
                    pc' = [pc EXCEPT ![t] = where]
<1> DEFINE Quiet ==
      /\ UNCHANGED <<msg, seqNum, synSent, issued>>
      /\ \/ pc' = pc
         \/ \E t \in Threads, where \in {"idle", "send", "close", "closeWs", "stopped"} :
              pc' = [pc EXCEPT ![t] = where]
<1>1. ASSUME NEW t \in Threads, Stamp(t)
      PROVE  /\ pc[t] = "stamp"
             /\ UNCHANGED <<seqNum, synSent, msg>>
             /\ issued' = issued \union {msg[t]}
             /\ pc' = [pc EXCEPT ![t] = "add"]
  BY <1>1 DEF Stamp, FirstMessage, Goto, Numbered
<1>2. ASSUME NEW t \in Threads, Begin(t) \/ EndSession(t)
      PROVE  (Allocate(t) /\ issued' = issued) \/ Quiet
  BY <1>2 DEF Begin, EndSession, Goto, counterVars, historyVars
<1>3. ASSUME NEW t \in Threads,
             AddAccepts(t) \/ AddParks(t) \/ AddRefused(t) \/ Send(t) \/ CloseStarts(t)
               \/ CloseEnds(t) \/ CloseAgain(t)
      PROVE  Quiet
  <2>1. UNCHANGED <<msg, seqNum, synSent, issued>>
    BY <1>3 DEF AddAccepts, AddParks, AddRefused, Send, CloseStarts, CloseEnds, CloseAgain,
                threadVars, counterVars, historyVars
  <2>2. \/ pc' = pc
        \/ \E where \in {"idle", "send", "close", "closeWs", "stopped"} :
              pc' = [pc EXCEPT ![t] = where]
    BY <1>3 DEF AddAccepts, AddParks, AddRefused, Send, CloseStarts, CloseEnds, CloseAgain,
                threadVars, AfterWrite, Goto
  <2> QED
    BY <2>1, <2>2
<1>4. ASSUME \/ Tick \/ Resend \/ SchedulerStops \/ AgentReceivesUnacked \/ FrameLost
             \/ \E kind \in AckKinds : AgentReceives(kind)
             \/ AgentCloses \/ ConnectionDrops \/ ReaderHandlesAck \/ ReaderExits
             \/ UNCHANGED vars
      PROVE  UNCHANGED <<pc, msg, seqNum, synSent, issued>>
  BY <1>4 DEF Tick, Resend, SchedulerStops, AgentReceivesUnacked, FrameLost, AgentReceives,
              AgentCloses, ConnectionDrops, ReaderHandlesAck, ReaderExits, vars,
              threadVars, counterVars, historyVars
<1>5. MainEnds \/ SignalArrives => \E t \in Threads : EndSession(t)
  BY DEF MainEnds, SignalArrives, EndSession, Threads
<1>6. ReaderSeesDrop \/ ReaderSeesChannelClosed \/ LocalOutputFails => ReaderExits
  BY DEF ReaderSeesDrop, ReaderSeesChannelClosed, LocalOutputFails
<1> QED
  BY <1>1, <1>2, <1>3, <1>4, <1>5, <1>6 DEF Next, ThreadStep

LEMMA InitNumbered ==
  ASSUME SynDone = TRUE, Init
  PROVE  Numbered /\ SeqUnique /\ WriterOrder
BY DEF Init, Numbered, SeqUnique, WriterOrder

LEMMA AllocateNumbers ==
  ASSUME TypeOK, Numbered, NEW t \in Threads, Allocate(t), issued' = issued
  PROVE  Numbered'
<1>1. /\ seqNum' = seqNum + 1 /\ synSent' = synSent
      /\ msg' = [msg EXCEPT ![t] = [seq |-> seqNum + 1, src |-> t, n |-> msg[t].n + 1]]
      /\ pc' = [pc EXCEPT ![t] = "stamp"]
  BY DEF Allocate, NextSeqNum, Goto
<1>2. /\ seqNum \in Nat /\ msg \in [Threads -> Message]
      /\ \A u \in Threads : msg[u].seq \in Nat /\ msg[u].n \in Nat /\ msg[u].src \in Threads
      /\ \A m \in issued : m.seq \in Nat /\ m.n \in Nat /\ m.src \in Threads
      /\ DOMAIN pc = Threads
  BY DEF TypeOK, Message
<1>3. /\ msg'[t].seq = seqNum + 1 /\ msg'[t].src = t /\ msg'[t].n = msg[t].n + 1
      /\ \A u \in Threads : u # t => msg'[u] = msg[u] /\ pc'[u] = pc[u]
  BY <1>1, <1>2
<1>4. synSent' /\ \A u \in Threads : msg'[u].src = u
  BY <1>1, <1>3 DEF Numbered
<1>5. \A m \in issued' : m.seq <= seqNum' /\ m.n <= msg'[m.src].n
  <2> SUFFICES ASSUME NEW m \in issued PROVE m.seq <= seqNum' /\ m.n <= msg'[m.src].n
    OBVIOUS
  <2>1. m.seq <= seqNum /\ m.n <= msg[m.src].n
    BY DEF Numbered
  <2> QED
    BY <2>1, <1>1, <1>2, <1>3
<1>6. Unissued(t)'
  <2>1. \A m \in issued : m.seq # seqNum + 1 /\ m.seq < seqNum + 1
    BY <1>2 DEF Numbered
  <2>2. \A u \in Threads : u # t /\ pc[u] = "stamp" => msg[u].seq # seqNum + 1
    BY <1>2 DEF Numbered, Unissued
  <2>3. \A m \in issued : m.src = t => m.n < msg[t].n + 1
    BY <1>2 DEF Numbered
  <2> QED
    BY <2>1, <2>2, <2>3, <1>1, <1>2, <1>3 DEF Unissued
<1>7. ASSUME NEW u \in Threads, u # t, pc'[u] = "stamp" PROVE Unissued(u)'
  <2>1. Unissued(u) /\ msg'[u] = msg[u]
    BY <1>3, <1>7 DEF Numbered
  <2>2. msg[u].seq <= seqNum' /\ msg'[t].seq # msg[u].seq
    BY <2>1, <1>1, <1>2, <1>3 DEF Unissued
  <2> QED
    BY <2>1, <2>2, <1>3 DEF Unissued
<1> QED
  BY <1>4, <1>5, <1>6, <1>7 DEF Numbered

LEMMA StampNumbers ==
  ASSUME TypeOK, Numbered, SeqUnique, WriterOrder, NEW t \in Threads, pc[t] = "stamp",
         UNCHANGED <<seqNum, synSent, msg>>,
         issued' = issued \union {msg[t]}, pc' = [pc EXCEPT ![t] = "add"]
  PROVE  Numbered' /\ SeqUnique' /\ WriterOrder'
<1>1. /\ seqNum \in Nat /\ msg[t].seq \in Nat /\ msg[t].n \in Nat
      /\ \A m \in issued : m.seq \in Nat /\ m.n \in Nat
      /\ DOMAIN pc = Threads /\ msg[t].src = t
  BY DEF TypeOK, Message, Numbered
<1>2. Unissued(t)
  BY DEF Numbered
<1>3. SeqUnique'
  BY <1>2 DEF SeqUnique, Unissued
<1>4. WriterOrder'
  <2> SUFFICES ASSUME NEW m1 \in issued', NEW m2 \in issued', m1.src = m2.src, m1.n < m2.n
               PROVE  m1.seq < m2.seq
    BY DEF WriterOrder
  <2>1. CASE m1 \in issued /\ m2 \in issued
    BY <2>1 DEF WriterOrder
  <2>2. CASE m1 \in issued /\ m2 = msg[t]
    BY <2>2, <1>1, <1>2 DEF Unissued
  <2>3. CASE m1 = msg[t] /\ m2 \in issued
    BY <2>3, <1>1, <1>2 DEF Unissued
  <2>4. CASE m1 = msg[t] /\ m2 = msg[t]
    BY <2>4, <1>1
  <2> QED
    BY <2>1, <2>2, <2>3, <2>4
<1>5. \A m \in issued' : m.seq <= seqNum' /\ m.n <= msg'[m.src].n
  BY <1>1, <1>2 DEF Numbered, Unissued
<1>6. ASSUME NEW u \in Threads, pc'[u] = "stamp" PROVE Unissued(u)'
  <2>1. u # t /\ pc[u] = "stamp" /\ Unissued(u)
    BY <1>1, <1>6 DEF Numbered
  <2>2. \A v \in Threads : pc'[v] = "stamp" => pc[v] = "stamp"
    BY <1>1
  <2>3. msg[t].seq # msg[u].seq
    BY <2>1, <1>2 DEF Unissued
  <2> QED
    BY <2>1, <2>2, <2>3, <1>1 DEF Unissued
<1> QED
  BY <1>3, <1>4, <1>5, <1>6 DEF Numbered

LEMMA NextNumbered ==
  ASSUME TypeOK, Numbered, SeqUnique, WriterOrder, [Next]_vars
  PROVE  Numbered' /\ SeqUnique' /\ WriterOrder'
<1>1. ASSUME NEW t \in Threads, Allocate(t), issued' = issued
      PROVE  Numbered' /\ SeqUnique' /\ WriterOrder'
  BY <1>1, AllocateNumbers DEF SeqUnique, WriterOrder
<1>2. ASSUME NEW t \in Threads, pc[t] = "stamp", UNCHANGED <<seqNum, synSent, msg>>,
             issued' = issued \union {msg[t]}, pc' = [pc EXCEPT ![t] = "add"]
      PROVE  Numbered' /\ SeqUnique' /\ WriterOrder'
  BY <1>2, StampNumbers
<1>3. ASSUME UNCHANGED <<msg, seqNum, synSent, issued>>,
             \/ pc' = pc
             \/ \E t \in Threads, where \in {"idle", "send", "close", "closeWs", "stopped"} :
                  pc' = [pc EXCEPT ![t] = where]
      PROVE  Numbered' /\ SeqUnique' /\ WriterOrder'
  <2>1. \A u \in Threads : pc'[u] = "stamp" => pc[u] = "stamp"
    BY <1>3 DEF TypeOK
  <2>2. \A u \in Threads : pc'[u] = "stamp" => Unissued(u)'
    BY <1>3, <2>1 DEF Numbered, Unissued
  <2> QED
    BY <1>3, <2>2 DEF Numbered, SeqUnique, WriterOrder
<1> QED
  BY <1>1, <1>2, <1>3, NumberingSteps

LEMMA AlwaysNumbered ==
  ASSUME SynDone = TRUE
  PROVE  Spec => [](TypeOK /\ Numbered /\ SeqUnique /\ WriterOrder)
BY InitNumbered, NextNumbered, InitTypeOK, NextTypes, PTL DEF Spec

\* A sequence number names one message for the life of the channel.
THEOREM NumbersNameOneMessage ==
  ASSUME SynDone = TRUE
  PROVE  Spec => []SeqUnique
BY AlwaysNumbered, PTL

\* Later writes of a goroutine have higher numbers, so the agent's reassembly
\* keeps the order in which they were written.
THEOREM WritersKeepOrder ==
  ASSUME SynDone = TRUE
  PROVE  Spec => []WriterOrder
BY AlwaysNumbered, PTL

---------------------------------------------------------------------------
\* Retention.  A retained message leaves the window only when an acknowledgement
\* names its number; an acknowledgement names a number the agent holds; and,
\* numbers being unique, what the agent holds under that number is the message.

InCall ==
  \A t \in Threads : /\ pc[t] \in {"add", "send"} => msg[t] \in issued
                     /\ pc[t] = "send" => msg[t] \in retained
OnlyRetained ==
  /\ retained \subseteq issued
  /\ Range(buf) \subseteq retained
  /\ Range(wire) \subseteq retained
  /\ Range(resend) \subseteq retained
AgentHolds == \A s \in DOMAIN received : received[s] \in retained /\ received[s].seq = s
AcksTruthful == \A a \in Range(acks) : AckedNumber(a) \in DOMAIN received

Retention == InCall /\ OnlyRetained /\ AgentHolds /\ AcksTruthful /\ NoneLost

LEMMA EmptyRange == Range(<<>>) = {}
BY DEF Range

LEMMA SingletonRange == \A x : Range(<<x>>) = {x}
BY DEF Range

LEMMA InitRetention == Init => Retention
<1> SUFFICES ASSUME Init PROVE Retention
  OBVIOUS
<1>1. InCall
  BY DEF Init, InCall
<1>2. OnlyRetained /\ AgentHolds /\ AcksTruthful /\ NoneLost
  BY EmptyRange DEF Init, BufInit, OnlyRetained, AgentHolds, AcksTruthful, NoneLost
<1> QED
  BY <1>1, <1>2 DEF Retention

\* A step that leaves the window, the agent and the histories alone, lets no
\* thread into a later part of its call, and adds nothing to the network.
Passive ==
  /\ UNCHANGED <<buf, received, issued, retained>>
  /\ \A t \in Threads : pc'[t] \in {"add", "send"} => pc'[t] = pc[t] /\ msg'[t] = msg[t]
  /\ Range(wire') \subseteq Range(wire)
  /\ Range(resend') \subseteq Range(resend)
  /\ Range(acks') \subseteq Range(acks)

LEMMA PassiveKeepsRetention ==
  ASSUME Retention, Passive
  PROVE  Retention'
<1> USE DEF Retention, Passive
<1>1. InCall'
  BY DEF InCall
<1>2. OnlyRetained'
  BY DEF OnlyRetained
<1>3. AgentHolds' /\ AcksTruthful' /\ NoneLost'
  BY DEF AgentHolds, AcksTruthful, NoneLost
<1> QED
  BY <1>1, <1>2, <1>3

LEMMA PassiveSteps ==
  ASSUME TypeOK, [Next]_vars
  PROVE  \/ Passive
         \/ \E t \in Threads : Stamp(t) \/ AddAccepts(t) \/ Send(t)
         \/ \E kind \in AckKinds : AgentReceives(kind)
         \/ Tick \/ Resend \/ AgentReceivesUnacked \/ ReaderHandlesAck
<1>1. ASSUME NEW t \in Threads, Begin(t) \/ EndSession(t) PROVE Passive
  <2>1. UNCHANGED <<bufVars, netVars, schedVars, agentVars, historyVars>>
    BY <1>1 DEF Begin, EndSession
  <2>2. Allocate(t) \/ (Goto(t, "close") /\ UNCHANGED msg)
    BY <1>1 DEF Begin, EndSession, counterVars
  <2>3. ASSUME NEW u \in Threads, pc'[u] \in {"add", "send"}
        PROVE  pc'[u] = pc[u] /\ msg'[u] = msg[u]
    BY <2>2, <2>3 DEF Allocate, Goto, TypeOK
  <2> QED
    BY <2>1, <2>3 DEF Passive, bufVars, netVars, schedVars, agentVars, historyVars
<1>2. ASSUME NEW t \in Threads,
             AddParks(t) \/ AddRefused(t) \/ CloseStarts(t) \/ CloseEnds(t) \/ CloseAgain(t)
      PROVE  Passive
  <2>1. UNCHANGED <<buf, received, issued, retained, msg, wire, resend>>
    BY <1>2
       DEF AddParks, AddWaitParks, AddRefused, AddWaitRefuses, CloseStarts, CloseBuffer,
           CloseEnds, CloseAgain, bufVars, threadVars, netVars, schedVars, agentVars,
           historyVars
  <2>2. acks' = acks \/ acks' = <<>>
    BY <1>2 DEF AddParks, AddRefused, CloseStarts, CloseEnds, CloseAgain, netVars
  <2>3. pc' = pc \/ \E where \in {"idle", "close", "closeWs", "stopped"} :
                       pc' = [pc EXCEPT ![t] = where]
    BY <1>2
       DEF AddParks, AddRefused, CloseStarts, CloseEnds, CloseAgain, AfterWrite, Goto,
           threadVars
  <2>4. ASSUME NEW u \in Threads, pc'[u] \in {"add", "send"} PROVE pc'[u] = pc[u]
    BY <2>3, <2>4 DEF TypeOK
  <2>5. Range(acks') \subseteq Range(acks)
    BY <2>2, EmptyRange
  <2> QED
    BY <2>1, <2>4, <2>5 DEF Passive
<1>3. CASE FrameLost
  <2>1. wire # <<>> /\ wire' = Tail(wire)
    BY <1>3 DEF FrameLost
  <2>2. Range(wire') \subseteq Range(wire)
    BY <2>1, TailRange DEF TypeOK
  <2> QED
    BY <1>3, <2>2
       DEF FrameLost, Passive, bufVars, threadVars, schedVars, agentVars, historyVars
<1>4. CASE ConnectionDrops
  <2>1. Range(acks') \subseteq Range(acks)
    BY <1>4, EmptyRange DEF ConnectionDrops
  <2> QED
    BY <1>4, <2>1
       DEF ConnectionDrops, Passive, bufVars, threadVars, schedVars, agentVars,
           historyVars
<1>5. CASE SchedulerStops \/ AgentCloses \/ ReaderExits \/ UNCHANGED vars
  <2>1. UNCHANGED <<buf, received, issued, retained, pc, msg, wire, resend, acks>>
    BY <1>5
       DEF SchedulerStops, AgentCloses, ReaderExits, vars, bufVars, threadVars, netVars,
           schedVars, agentVars, historyVars
  <2> QED
    BY <2>1 DEF Passive
<1>6. MainEnds \/ SignalArrives => \E t \in Threads : EndSession(t)
  BY DEF MainEnds, SignalArrives, EndSession, Threads
<1>7. ReaderSeesDrop \/ ReaderSeesChannelClosed \/ LocalOutputFails => ReaderExits
  BY DEF ReaderSeesDrop, ReaderSeesChannelClosed, LocalOutputFails
<1> QED
  BY <1>1, <1>2, <1>3, <1>4, <1>5, <1>6, <1>7
     DEF Next, ThreadStep

LEMMA StampKeepsRetention ==
  ASSUME TypeOK, Numbered, Retention, NEW t \in Threads, Stamp(t)
  PROVE  Retention'
<1>1. /\ msg' = msg /\ issued' = issued \union {msg[t]}
      /\ pc' = [pc EXCEPT ![t] = "add"]
      /\ UNCHANGED <<buf, received, retained, wire, resend, acks>>
  BY DEF Stamp, Numbered, FirstMessage, Goto, bufVars, netVars, schedVars, agentVars
<1>2. InCall'
  BY <1>1 DEF Retention, InCall, TypeOK
<1>3. OnlyRetained'
  BY <1>1 DEF Retention, OnlyRetained
<1>4. AgentHolds' /\ AcksTruthful' /\ NoneLost'
  BY <1>1 DEF Retention, AgentHolds, AcksTruthful, NoneLost
<1> QED
  BY <1>2, <1>3, <1>4 DEF Retention

\* Replacing a buffered message of the same number replaces it by itself.
LEMMA AddKeepsRetention ==
  ASSUME TypeOK, SeqUnique, Retention, NEW t \in Threads, AddAccepts(t)
  PROVE  Retention'
<1> DEFINE m == msg[t]
<1>1. /\ pc[t] = "add" /\ pc' = [pc EXCEPT ![t] = "send"]
      /\ retained' = retained \union {m} /\ Accept(m)
      /\ UNCHANGED <<msg, issued, received, wire, resend, acks>>
  BY DEF AddAccepts, AddWaitAccepts, Goto, netVars, schedVars, agentVars
<1>2. m \in Message /\ m \in issued
  BY <1>1 DEF TypeOK, Retention, InCall
<1>3. /\ m \in Range(buf') /\ Range(buf') \subseteq Range(buf) \union {m}
      /\ \A x \in Range(buf) : x.seq = m.seq \/ x \in Range(buf')
  BY <1>1, <1>2, AcceptEffect
<1> HIDE DEF m
<1>4. \A x \in Range(buf) : x \in Range(buf')
  BY <1>2, <1>3 DEF SeqUnique, Retention, OnlyRetained
<1>5. InCall'
  BY <1>1, <1>2 DEF Retention, InCall, TypeOK, m
<1>6. OnlyRetained'
  BY <1>1, <1>2, <1>3 DEF Retention, OnlyRetained
<1>7. AgentHolds' /\ AcksTruthful'
  BY <1>1 DEF Retention, AgentHolds, AcksTruthful
<1>8. NoneLost'
  BY <1>1, <1>3, <1>4 DEF Retention, NoneLost
<1> QED
  BY <1>5, <1>6, <1>7, <1>8 DEF Retention

LEMMA SendKeepsRetention ==
  ASSUME TypeOK, Retention, NEW t \in Threads, Send(t)
  PROVE  Retention'
<1>1. /\ pc[t] = "send"
      /\ wire' = Append(wire, msg[t]) \/ wire' = wire
      /\ \E where \in {"idle", "close", "stopped"} : pc' = [pc EXCEPT ![t] = where]
      /\ UNCHANGED <<buf, msg, received, issued, retained, resend, acks>>
  BY DEF Send, AfterWrite, Goto, bufVars, schedVars, agentVars, historyVars
<1>2. msg[t] \in retained /\ msg[t] \in Message
  BY <1>1 DEF Retention, InCall, TypeOK
<1>3. Range(wire') \subseteq Range(wire) \union {msg[t]}
  <2>1. Range(Append(wire, msg[t])) = Range(wire) \union {msg[t]}
    BY <1>2, AppendRange DEF TypeOK
  <2> QED
    BY <1>1, <2>1
<1>4. InCall'
  BY <1>1 DEF Retention, InCall, TypeOK
<1>5. OnlyRetained'
  BY <1>1, <1>2, <1>3 DEF Retention, OnlyRetained
<1>6. AgentHolds' /\ AcksTruthful' /\ NoneLost'
  BY <1>1 DEF Retention, AgentHolds, AcksTruthful, NoneLost
<1> QED
  BY <1>4, <1>5, <1>6 DEF Retention

LEMMA SchedulerKeepsRetention ==
  ASSUME TypeOK, Retention, Tick \/ Resend
  PROVE  Retention'
<1>1. /\ Range(resend') \subseteq retained /\ Range(wire') \subseteq retained
      /\ UNCHANGED <<buf, pc, msg, received, issued, retained, acks>>
  <2>1. CASE Tick
    <3>1. resend' = resend \/ (buf # <<>> /\ resend' = <<buf[1]>>)
      BY <2>1, TickTypes, TypeParts DEF Tick
    <3>2. buf # <<>> => buf[1] \in Range(buf)
      BY TailRange DEF TypeOK
    <3>3. Range(resend') \subseteq Range(resend) \union Range(buf)
      BY <3>1, <3>2, SingletonRange
    <3> QED
      BY <2>1, <3>3
         DEF Tick, Retention, OnlyRetained, bufVars, threadVars, netVars, agentVars,
             historyVars
  <2>2. CASE Resend
    <3>1. resend # <<>> /\ resend' = <<>>
      BY <2>2 DEF Resend
    <3>2. resend[1] \in Range(resend) /\ resend[1] \in Message
      BY <3>1, TailRange DEF TypeOK
    <3>3. wire' = Append(wire, resend[1]) \/ wire' = wire
      BY <2>2 DEF Resend, RetainedCopy
    <3>4. Range(wire') \subseteq Range(wire) \union {resend[1]}
      <4>1. Range(Append(wire, resend[1])) = Range(wire) \union {resend[1]}
        BY <3>2, AppendRange DEF TypeOK
      <4> QED
        BY <3>3, <4>1
    <3> QED
      BY <2>2, <3>1, <3>2, <3>4, EmptyRange
         DEF Resend, Retention, OnlyRetained, bufVars, threadVars, agentVars, historyVars
  <2> QED
    BY <2>1, <2>2
<1> QED
  BY <1>1 DEF Retention, InCall, OnlyRetained, AgentHolds, AcksTruthful, NoneLost

LEMMA AgentKeepsRetention ==
  ASSUME TypeOK, Retention,
         AgentReceivesUnacked \/ \E kind \in AckKinds : AgentReceives(kind)
  PROVE  Retention'
<1> DEFINE m == wire[1]
<1>1. AgentTakes /\ UNCHANGED <<buf, pc, msg, issued, retained, resend>>
  BY DEF AgentReceives, AgentReceivesUnacked, bufVars, threadVars, schedVars, historyVars
<1>2. /\ m \in Range(wire) /\ m.seq \in Nat
      /\ Range(wire') \subseteq Range(wire)
      /\ DOMAIN received' = DOMAIN received \union {m.seq}
      /\ \A s \in DOMAIN received : received'[s] = received[s]
      /\ m.seq \notin DOMAIN received => received'[m.seq] = m
  BY <1>1, AgentTakesTypes
<1>3. m \in retained
  BY <1>2 DEF Retention, OnlyRetained
<1>4. \A a \in Range(acks') : a \in Range(acks) \/ AckedNumber(a) = m.seq
  <2>1. CASE AgentReceivesUnacked
    BY <2>1 DEF AgentReceivesUnacked
  <2>2. ASSUME NEW kind \in AckKinds, AgentReceives(kind)
        PROVE  \A a \in Range(acks') : a \in Range(acks) \/ AckedNumber(a) = m.seq
    <3>1. acks' = Append(acks, Acknowledgement(kind, m.seq))
      BY <2>2 DEF AgentReceives
    <3>2. PICK a \in AckMessage :
            a = Acknowledgement(kind, m.seq) /\ AckedNumber(a) = m.seq
      BY <1>2, AcknowledgementType
    <3>3. Range(Append(acks, a)) = Range(acks) \union {a}
      <4>1. acks \in Seq(AckMessage)
        BY DEF TypeOK
      <4> QED
        BY <4>1, AppendRange
    <3>4. acks' = Append(acks, a)
      BY <3>1, <3>2
    <3> QED
      BY <3>2, <3>3, <3>4
  <2> QED
    BY <2>1, <2>2
<1> HIDE DEF m
<1>5. InCall' /\ OnlyRetained'
  BY <1>1, <1>2 DEF Retention, InCall, OnlyRetained
<1>6. AgentHolds'
  BY <1>1, <1>2, <1>3 DEF Retention, AgentHolds
<1>7. AcksTruthful'
  BY <1>2, <1>4 DEF Retention, AcksTruthful
<1>8. NoneLost'
  BY <1>1, <1>2 DEF Retention, NoneLost
<1> QED
  BY <1>5, <1>6, <1>7, <1>8 DEF Retention

LEMMA AckKeepsRetention ==
  ASSUME TypeOK, SeqUnique, Retention, ReaderHandlesAck
  PROVE  Retention'
<1> DEFINE s == AckedNumber(acks[1])
<1>1. /\ acks # <<>> /\ acks' = Tail(acks) /\ RemoveSeq(s)
      /\ UNCHANGED <<pc, msg, wire, resend, received, issued, retained>>
  BY DEF ReaderHandlesAck, threadVars, schedVars, agentVars, historyVars
<1>2. acks[1] \in Range(acks) /\ Range(acks') \subseteq Range(acks)
  BY <1>1, TailRange DEF TypeOK
<1>3. s \in DOMAIN received /\ received[s] \in retained /\ received[s].seq = s
  BY <1>2 DEF Retention, AcksTruthful, AgentHolds
<1>4. /\ Range(buf') \subseteq Range(buf)
      /\ \A m \in Range(buf) : m.seq = s \/ m \in Range(buf')
  BY <1>1, RemoveSeqEffect
<1> HIDE DEF s
<1>5. InCall' /\ OnlyRetained' /\ AgentHolds' /\ AcksTruthful'
  BY <1>1, <1>2, <1>4 DEF Retention, InCall, OnlyRetained, AgentHolds, AcksTruthful
<1>6. NoneLost'
  <2> SUFFICES ASSUME NEW m \in retained
               PROVE  m \in Range(buf') \/ (m.seq \in DOMAIN received /\ received[m.seq] = m)
    BY <1>1 DEF NoneLost
  <2>1. CASE m \in Range(buf) /\ m.seq = s
    BY <2>1, <1>3 DEF SeqUnique, Retention, OnlyRetained
  <2> QED
    BY <2>1, <1>4 DEF Retention, NoneLost
<1> QED
  BY <1>5, <1>6 DEF Retention

LEMMA NextRetention ==
  ASSUME TypeOK, Numbered, SeqUnique, Retention, [Next]_vars
  PROVE  Retention'
BY PassiveSteps, PassiveKeepsRetention, StampKeepsRetention, AddKeepsRetention,
   SendKeepsRetention, SchedulerKeepsRetention, AgentKeepsRetention, AckKeepsRetention

LEMMA AlwaysRetention ==
  ASSUME SynDone = TRUE
  PROVE  Spec => []Retention
BY AlwaysNumbered, InitRetention, NextRetention, PTL DEF Spec

\* A message the window accepted stays in it until the agent holds that very
\* message: lost frames, lost acknowledgements and repeated ones lose nothing.
THEOREM NoRetainedMessageLost ==
  ASSUME SynDone = TRUE
  PROVE  Spec => []NoneLost
<1>1. Retention => NoneLost
  BY DEF Retention
<1> QED
  BY <1>1, AlwaysRetention, PTL

\* Every copy on the wire is the message as it was first numbered.
THEOREM CopiesAreIdentical ==
  ASSUME SynDone = TRUE
  PROVE  Spec => []CopiesIdentical
<1>1. Retention => CopiesIdentical
  BY DEF Retention, OnlyRetained, CopiesIdentical
<1> QED
  BY <1>1, AlwaysRetention, PTL

\* At most BufSize accepted messages are unknown to the agent at any time.
THEOREM WindowBoundsLoss ==
  ASSUME SynDone = TRUE
  PROVE  Spec => []InFlightBound
<1>1. ASSUME TypeOK, Windowed, NoneLost PROVE InFlightBound
  <2> DEFINE Unknown == {m \in retained : m.seq \notin DOMAIN received}
  <2>1. Unknown \subseteq Range(buf)
    BY <1>1 DEF NoneLost
  <2>2. Len(buf) \in Nat /\ BufSize \in Nat /\ DOMAIN buf = 1..Len(buf)
    BY <1>1, BufSizeAssumption DEF TypeOK
  <2>3. IsFiniteSet(1..Len(buf)) /\ Cardinality(1..Len(buf)) = Len(buf)
    <3>1. IsFiniteSet(1..Len(buf))
      BY <2>2, FS_Interval
    <3>2. Cardinality(1..Len(buf)) = IF 1 > Len(buf) THEN 0 ELSE Len(buf) - 1 + 1
      BY <2>2, FS_Interval
    <3> QED
      BY <2>2, <3>1, <3>2
  <2>4. buf \in Surjection(1..Len(buf), Range(buf))
    BY <1>1, <2>2 DEF TypeOK, Surjection, Range
  <2>5. IsFiniteSet(Range(buf)) /\ Cardinality(Range(buf)) <= Len(buf)
    BY <2>3, <2>4, FS_Surjection
  <2>6. Cardinality(Unknown) <= Cardinality(Range(buf)) /\ IsFiniteSet(Unknown)
    BY <2>1, <2>5, FS_Subset
  <2>7. Cardinality(Unknown) \in Nat /\ Cardinality(Range(buf)) \in Nat
    BY <2>5, <2>6, FS_CardinalityType
  <2> HIDE DEF Unknown
  <2>8. Cardinality(Unknown) <= BufSize
    BY <1>1, <2>2, <2>5, <2>6, <2>7 DEF Windowed
  <2> QED
    BY <2>8 DEF Unknown, InFlightBound
<1> QED
  BY <1>1, AlwaysWindowed, NoRetainedMessageLost, PTL

---------------------------------------------------------------------------
\* The refinement.  A message is put at its number when Stamp makes the number
\* final; the stream is delivered when the frame that fills the agent's first
\* gap arrives, up to the next gap.

IsGap(D, s) == s \notin D /\ 1..(s - 1) \subseteq D
Candidates(D) == {1} \union {t + 1 : t \in D}
Gap(D) == CHOOSE s \in Candidates(D) : IsGap(D, s)

\* A bounded set of numbers has a first gap, and only one.
LEMMA GapExists ==
  ASSUME NEW D \in SUBSET Nat, NEW N \in Nat, \A d \in D : d <= N
  PROVE  \E s \in Candidates(D) : IsGap(D, s)
<1> DEFINE Free == {s \in Nat : s >= 1 /\ s \notin D}
           R == OpToRel(<, Nat)
<1>1. N + 1 \in Free /\ Free \subseteq Nat
  OBVIOUS
<1>2. \E x \in Free : \A y \in Free : ~(<<y, x>> \in R)
  <2> HIDE DEF Free, R
  <2>1. IsWellFoundedOn(R, Nat)
    BY NatLessThanWellFounded DEF R
  <2> QED
    BY <1>1, <2>1, WFMin
<1>3. PICK x \in Free : \A y \in Free : ~(<<y, x>> \in R)
  BY <1>2
<1>4. \A y \in Free : ~(y < x)
  BY <1>3 DEF OpToRel
<1>5. IsGap(D, x)
  BY <1>4 DEF IsGap
<1>6. x \in Candidates(D)
  <2>1. CASE x = 1
    BY <2>1 DEF Candidates
  <2>2. CASE x # 1
    <3>1. x - 1 \in Nat /\ x - 1 >= 1 /\ x - 1 < x /\ (x - 1) + 1 = x
      BY <2>2
    <3>2. x - 1 \in D
      BY <3>1, <1>4
    <3> QED
      BY <3>1, <3>2 DEF Candidates
  <2> QED
    BY <2>1, <2>2
<1> QED
  BY <1>5, <1>6

LEMMA GapFacts ==
  ASSUME NEW D \in SUBSET Nat, NEW N \in Nat, \A d \in D : d <= N
  PROVE  Gap(D) \in Nat \ {0} /\ IsGap(D, Gap(D))
<1>1. Gap(D) \in Candidates(D) /\ IsGap(D, Gap(D))
  BY GapExists DEF Gap
<1>2. Candidates(D) \subseteq Nat \ {0}
  BY DEF Candidates
<1> QED
  BY <1>1, <1>2

LEMMA GapMapped ==
  ASSUME SynDone = TRUE
  PROVE  /\ FirstNumber = 1
         /\ FirstGap = Gap(DOMAIN received)
         /\ FirstGap' = Gap(DOMAIN received')
BY DEF FirstNumber, FirstGap, Gap, IsGap, Candidates

Seqs(I) == {m.seq : m \in I}
Numbers(I) == [s \in Seqs(I) |-> Payload(CHOOSE m \in I : m.seq = s)]

LEMMA NumberingMapped ==
  /\ Numbering = Numbers(issued)
  /\ Numbering' = Numbers(issued')
BY DEF Numbering, Numbers, Seqs

\* Numbers being unique, the stream holds every message at its own number.
LEMMA NumbersOne ==
  ASSUME NEW I, \A m1, m2 \in I : m1.seq = m2.seq => m1 = m2
  PROVE  \A m \in I : m.seq \in DOMAIN Numbers(I) /\ Numbers(I)[m.seq] = Payload(m)
BY DEF Numbers, Seqs

LEMMA PromisedInit ==
  ASSUME SynDone = TRUE, Init
  PROVE  Promised!Init
<1>1. DOMAIN received = {} /\ issued = {}
  BY DEF Init
<1>2. FirstGap = 1 /\ FirstNumber = 1
  <2>1. \E s \in Candidates({}) : IsGap({}, s)
    BY GapExists
  <2>2. Candidates({}) = {1}
    BY DEF Candidates
  <2>3. Gap({}) = 1
    BY <2>1, <2>2 DEF Gap
  <2> QED
    BY <1>1, <2>3, GapMapped
<1>3. Reassembled = <<>>
  BY <1>2 DEF Reassembled
<1>4. Numbering = <<>>
  BY <1>1 DEF Numbering
<1> QED
  BY <1>3, <1>4 DEF Promised!Init

LEMMA StampPuts ==
  ASSUME SynDone = TRUE, TypeOK, Numbered, SeqUnique, NEW t \in Threads, Stamp(t)
  PROVE  Promised!Next
<1> DEFINE m == msg[t]
           s == m.seq
<1>1. /\ received' = received /\ issued' = issued \union {m} /\ pc[t] = "stamp"
  BY DEF Stamp, FirstMessage, Numbered, agentVars
<1>2. Unissued(t) /\ m \in Message
  BY <1>1 DEF Numbered, TypeOK
<1>3. s \in Nat /\ Payload(m) \in Threads \X Nat /\ \A x \in issued : x.seq # s
  BY <1>2 DEF Unissued, Message, Payload
<1> HIDE DEF m
<1>4. Seqs(issued') = Seqs(issued) \union {s} /\ s \notin Seqs(issued)
  BY <1>1, <1>3 DEF Seqs
<1>5. \A m1, m2 \in issued' : m1.seq = m2.seq => m1 = m2
  BY <1>1, <1>3 DEF SeqUnique
<1>6. /\ m \in issued' /\ \A x \in issued : x \in issued'
      /\ Numbers(issued')[s] = Payload(m)
  BY <1>1, <1>5, NumbersOne
<1>7. ASSUME NEW u \in Seqs(issued)
      PROVE  Numbers(issued')[u] = Numbers(issued)[u]
  <2>1. PICK x \in issued : x.seq = u
    BY DEF Seqs
  <2>2. Numbers(issued)[u] = Payload(x)
    BY <2>1, NumbersOne DEF SeqUnique
  <2>3. Numbers(issued')[u] = Payload(x)
    BY <2>1, <1>5, <1>6, NumbersOne
  <2> QED
    BY <2>2, <2>3
<1>8. DOMAIN Numbers(issued) = Seqs(issued) /\ DOMAIN Numbers(issued') = Seqs(issued')
  BY DEF Numbers
<1>9. Numbers(issued') = [u \in Seqs(issued) \union {s} |->
                             IF u = s THEN Numbers(issued')[s] ELSE Numbers(issued)[u]]
  <2>1. Numbers(issued') = [u \in Seqs(issued') |-> Numbers(issued')[u]]
    BY DEF Numbers
  <2>2. \A u \in Seqs(issued') :
          Numbers(issued')[u] = IF u = s THEN Numbers(issued')[s] ELSE Numbers(issued)[u]
    BY <1>4, <1>7
  <2> HIDE DEF s
  <2> QED
    BY <1>4, <2>1, <2>2
<1>10. Reassembled' = Reassembled
  BY <1>1 DEF Reassembled, FirstGap
<1>11. /\ s \in DOMAIN Numbering' /\ s \in Nat /\ Numbering'[s] \in Threads \X Nat
       /\ s \notin DOMAIN Numbering
       /\ Numbering' = [u \in DOMAIN Numbering \union {s} |->
                           IF u = s THEN Numbering'[s] ELSE Numbering[u]]
  BY <1>3, <1>4, <1>6, <1>8, <1>9, NumberingMapped
<1> QED
  BY <1>10, <1>11 DEF Promised!Next, Promised!Put

LEMMA AgentTakesDelivers ==
  ASSUME SynDone = TRUE, TypeOK, Numbered, SeqUnique, Retention, TypeOK', Retention',
         AgentTakes, UNCHANGED <<seqNum, issued>>
  PROVE  Promised!Next \/ UNCHANGED <<Numbering, Reassembled>>
<1> DEFINE g == FirstGap
           h == FirstGap'
<1>1. /\ DOMAIN received \subseteq DOMAIN received'
      /\ \A s \in DOMAIN received : received'[s] = received[s]
  BY AgentTakesTypes
<1>2. /\ DOMAIN received \subseteq Nat /\ DOMAIN received' \subseteq Nat /\ seqNum \in Nat
  BY DEF TypeOK
<1>3. /\ \A s \in DOMAIN received' : received'[s] \in issued /\ received'[s].seq = s
      /\ \A m \in issued : m.seq <= seqNum
  BY DEF Retention, AgentHolds, OnlyRetained, Numbered
<1>4. \A s \in DOMAIN received' : s <= seqNum
  BY <1>3
<1>5. /\ g \in Nat \ {0} /\ g \notin DOMAIN received /\ 1..(g - 1) \subseteq DOMAIN received
  <2>1. \A s \in DOMAIN received : s <= seqNum
    BY <1>1, <1>4
  <2> QED
    BY <1>2, <2>1, GapMapped, GapFacts DEF IsGap
<1>6. h \in Nat \ {0} /\ h \notin DOMAIN received' /\ 1..(h - 1) \subseteq DOMAIN received'
  BY <1>2, <1>4, GapMapped, GapFacts DEF IsGap
<1>7. Numbering' = Numbering
  BY DEF Numbering
<1>8. \A s \in DOMAIN received' :
        s \in DOMAIN Numbering /\ Numbering[s] = Payload(received'[s])
  <2>1. \A m \in issued : m.seq \in DOMAIN Numbers(issued)
                          /\ Numbers(issued)[m.seq] = Payload(m)
    BY NumbersOne DEF SeqUnique
  <2> QED
    BY <1>3, <2>1, NumberingMapped
<1>9. /\ Reassembled = [i \in 1..(g - 1) |-> Payload(received[i])]
      /\ Reassembled' = [i \in 1..(h - 1) |-> Payload(received'[i])]
  <2>1. /\ Reassembled = [i \in 1..(g - 1) |-> Payload(received[1 + i - 1])]
        /\ Reassembled' = [i \in 1..(h - 1) |-> Payload(received'[1 + i - 1])]
    BY GapMapped DEF Reassembled
  <2> HIDE DEF g, h
  <2>2. /\ \A i \in 1..(g - 1) : 1 + i - 1 = i
        /\ \A i \in 1..(h - 1) : 1 + i - 1 = i
    BY <1>5, <1>6
  <2> QED
    BY <2>1, <2>2
<1> HIDE DEF g, h
<1>10. g <= h
  BY <1>1, <1>5, <1>6
<1>11. CASE g = h
  <2>1. \A i \in 1..(g - 1) : received'[i] = received[i]
    BY <1>1, <1>5
  <2>2. Reassembled' = Reassembled
    BY <1>9, <1>11, <2>1
  <2> QED
    BY <1>7, <2>2
<1>12. CASE g < h
  <2> DEFINE last == h - 1
  <2>1. Len(Reassembled) = g - 1 /\ Len(Reassembled') = h - 1
    BY <1>5, <1>6, <1>9
  <2>2. last - 1 + 1 > Len(Reassembled) /\ last = 1 + Len(Reassembled') - 1
    BY <1>5, <1>6, <1>12, <2>1
  <2>3. \A s \in 1..last : s \in DOMAIN Numbering /\ Numbering[s] = Payload(received'[s])
    BY <1>6, <1>8
  <2>4. Reassembled' = [i \in 1..(last - 1 + 1) |-> Numbering[1 + i - 1]]
    <3>1. last - 1 + 1 = last /\ \A i \in 1..last : 1 + i - 1 = i
      BY <1>6
    <3> QED
      BY <1>9, <2>3, <3>1
  <2> HIDE DEF last
  <2>5. Promised!Deliver(last)
    BY <1>7, <2>2, <2>3, <2>4, GapMapped DEF Promised!Deliver
  <2> QED
    BY <2>2, <2>5, GapMapped DEF Promised!Next
<1> QED
  BY <1>5, <1>6, <1>10, <1>11, <1>12

\* Outbound implements ReliableStream: whatever is lost, repeated or delayed,
\* what the agent has reassembled is a prefix of the numbered messages, each
\* once and in the order of its number, and it only grows.
THEOREM OutboundImplementsStream ==
  ASSUME SynDone = TRUE
  PROVE  Spec => ImplementsReliableStream
<1>1. TypeOK /\ Numbered /\ SeqUnique /\ Retention /\ TypeOK' /\ Retention' /\ [Next]_vars
        => [Promised!Next]_(Promised!streamVars)
  <2> SUFFICES ASSUME TypeOK, Numbered, SeqUnique, Retention, TypeOK', Retention',
                      [Next]_vars
               PROVE  Promised!Next \/ UNCHANGED <<Numbering, Reassembled>>
    BY DEF Promised!streamVars
  <2>1. ASSUME NEW t \in Threads, Stamp(t) PROVE Promised!Next
    BY <2>1, StampPuts
  <2>2. ASSUME AgentReceivesUnacked \/ \E kind \in AckKinds : AgentReceives(kind)
        PROVE  Promised!Next \/ UNCHANGED <<Numbering, Reassembled>>
    <3>1. AgentTakes /\ UNCHANGED <<seqNum, issued>>
      BY <2>2 DEF AgentReceivesUnacked, AgentReceives, counterVars, historyVars
    <3> QED
      BY <3>1, AgentTakesDelivers
  <2>3. UNCHANGED <<issued, received>> => UNCHANGED <<Numbering, Reassembled>>
    BY DEF Numbering, Reassembled, FirstGap
  <2>4. ASSUME NEW t \in Threads, AddAccepts(t) \/ Send(t)
        PROVE  UNCHANGED <<issued, received>>
    BY <2>4 DEF AddAccepts, Send, agentVars, historyVars
  <2>5. ASSUME Passive \/ Tick \/ Resend \/ ReaderHandlesAck
        PROVE  UNCHANGED <<issued, received>>
    BY <2>5 DEF Passive, Tick, Resend, ReaderHandlesAck, agentVars, historyVars
  <2> QED
    BY <2>1, <2>2, <2>3, <2>4, <2>5, PassiveSteps
<1>2. Init => Promised!Init
  BY PromisedInit
<1> QED
  BY <1>1, <1>2, AlwaysNumbered, AlwaysRetention, PTL
     DEF Spec, ImplementsReliableStream, Promised!Spec
=============================================================================
