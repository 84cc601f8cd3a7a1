--------------------------- MODULE MessageBuffer ---------------------------
(***************************************************************************)
(* The bounded window of unacknowledged messages                           *)
(* (datachannel/message_buffer.go), used as outMsgBuf.                     *)
(*                                                                         *)
(* The code keeps a list in insertion order and a map from sequence        *)
(* numbers to the list's elements, both changed under one mutex; here they *)
(* are one sequence of messages, and the map is the position of a number   *)
(* in it.  Every method of the code runs under the mutex, so it is one     *)
(* action; AddWait is one action per turn of its loop, because cond.Wait   *)
(* releases the mutex: a thread in parked does not run until a Broadcast   *)
(* empties that set.                                                       *)
(*                                                                         *)
(* The module has no next-state relation: Outbound composes its operations *)
(* with the threads that call them.                                        *)
(***************************************************************************)
EXTENDS Integers, FiniteSets, Sequences, SequencesExt

CONSTANT BufSize     \* size: outMsgBufferCap, 1000 in the code

ASSUME BufSizeAssumption == BufSize \in Nat \ {0}

VARIABLES
  buf,               \* the list: messages, oldest first
  bufClosed,         \* closed
  parked             \* the threads inside cond.Wait

bufVars == <<buf, bufClosed, parked>>

BufInit ==
  /\ buf = <<>>
  /\ bufClosed = FALSE
  /\ parked = {}

Held(s) == \E k \in DOMAIN buf : buf[k].seq = s
Position(s) == CHOOSE k \in DOMAIN buf : buf[k].seq = s

---------------------------------------------------------------------------
\* add and AddWait.

\* Bug: one message too many.
RoomOffByOne == Len(buf) <= BufSize

Room == Len(buf) < BufSize

\* add: a number that is already buffered has its message replaced in place,
\* whatever that message was; a new one goes to the back when there is room.
Accept(m) ==
  \/ /\ Held(m.seq)
     /\ buf' = [buf EXCEPT ![Position(m.seq)] = m]
  \/ /\ ~Held(m.seq)
     /\ Room
     /\ buf' = Append(buf, m)

AddWaitAccepts(t, m) ==
  /\ t \notin parked
  /\ ~bufClosed
  /\ Accept(m)
  /\ UNCHANGED <<bufClosed, parked>>

AddWaitParks(t, m) ==
  /\ t \notin parked
  /\ ~bufClosed
  /\ ~Held(m.seq)
  /\ ~Room
  /\ parked' = parked \union {t}
  /\ UNCHANGED <<buf, bufClosed>>

AddWaitRefuses(t) ==
  /\ t \notin parked
  /\ bufClosed
  /\ UNCHANGED bufVars

---------------------------------------------------------------------------
\* Remove and Close.

\* Bugs: the waiting writers are not woken.
RemoveWithoutBroadcast(s) ==
  /\ buf' = IF Held(s) THEN RemoveAt(buf, Position(s)) ELSE buf
  /\ UNCHANGED <<bufClosed, parked>>
CloseWithoutBroadcast ==
  /\ bufClosed' = TRUE
  /\ UNCHANGED <<buf, parked>>

\* Only a removal that finds its message wakes the waiting writers.
RemoveSeq(s) ==
  /\ IF Held(s)
       THEN /\ buf' = RemoveAt(buf, Position(s))
            /\ parked' = {}
       ELSE UNCHANGED <<buf, parked>>
  /\ UNCHANGED bufClosed

\* Close leaves the messages where they are: only AddWait looks at closed.
CloseBuffer ==
  /\ bufClosed' = TRUE
  /\ parked' = {}
  /\ UNCHANGED buf

=============================================================================
