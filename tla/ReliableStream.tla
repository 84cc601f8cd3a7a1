--------------------------- MODULE ReliableStream ---------------------------
(***************************************************************************)
(* What either direction of a data channel promises, without buffers,      *)
(* acknowledgements or retransmission: a payload is put at a position of   *)
(* the stream once and for all, and the receiver hands its application a   *)
(* prefix of the stream that only grows.                                   *)
(*                                                                         *)
(* Outbound, Inbound and MuxBridge are shown to implement this.            *)
(***************************************************************************)
EXTENDS Integers, Sequences

CONSTANTS
  Payloads,    \* what is carried
  Positions,   \* the sequence numbers
  Base         \* the sequence number the receiver's application starts at

VARIABLES
  stream,      \* position -> payload, a partial function
  delivered    \* what the receiver's application has been given

streamVars == <<stream, delivered>>

Init ==
  /\ stream = <<>>
  /\ delivered = <<>>

\* A payload gets a position no other payload has or will have.
Put(s, p) ==
  /\ s \notin DOMAIN stream
  /\ stream' = [t \in DOMAIN stream \union {s} |-> IF t = s THEN p ELSE stream[t]]
  /\ UNCHANGED delivered

\* The receiver's prefix grows up to position last, every one up to it put.
Deliver(last) ==
  /\ last - Base + 1 > Len(delivered)
  /\ \A s \in Base..last : s \in DOMAIN stream
  /\ delivered' = [i \in 1..(last - Base + 1) |-> stream[Base + i - 1]]
  /\ UNCHANGED stream

\* The position and the payload, or the last position, are what the step shows.
Next ==
  \/ \E s \in DOMAIN stream' :
       s \in Positions /\ stream'[s] \in Payloads /\ Put(s, stream'[s])
  \/ Deliver(Base + Len(delivered') - 1)

Spec == Init /\ [][Next]_streamVars
=============================================================================
