----------------------------- MODULE Handshake -----------------------------
(***************************************************************************)
(* The handshake of a data channel (datachannel/data_channel.go): what     *)
(* HandleMsg does with HandshakeRequest, EncChallengeRequest,              *)
(* HandshakeComplete and Output, WaitForHandshakeComplete and WriteTo as   *)
(* its two callers, and the writers that read encryptionEnabled.           *)
(*                                                                         *)
(* A key is its generation, 0 for none; what is encrypted carries its key, *)
(* plaintext carries 0.  The client's messages are in the order of their   *)
(* numbers, which is the order the agent takes them in (Outbound): a slot  *)
(* is reserved when the number is taken, and filled when the message is    *)
(* written.  The agent's frames may come twice and in any order; the order *)
(* among outputs is the matter of Inbound.  The window is left to          *)
(* Outbound: a full one delays a writer here and stops nothing else.       *)
(***************************************************************************)
EXTENDS Integers, Sequences

CONSTANTS
  Writers,          \* goroutines that call Write
  Shell,            \* TRUE: nobody waits for the handshake, and writers start at once
  MaxKeys,          \* bound: key generations
  MaxQueue,         \* bound: the client's messages under way
  MaxWrites,        \* bound: writes of each writer
  MaxOutputs        \* bound: outputs of the agent

ASSUME HandshakeAssumption ==
  /\ Shell \in BOOLEAN
  /\ MaxKeys \in Nat \ {0} /\ MaxQueue \in Nat \ {0}
  /\ MaxWrites \in Nat /\ MaxOutputs \in Nat
  /\ "reader" \notin Writers

VARIABLES
  kms,              \* the agent asks for encryption
  ctxDone,          \* the context of WaitForHandshakeComplete is cancelled
  channel,          \* "up" or "down"
  phase,            \* the reader's loop: "wait" or "relay" (WriteTo)
  reader,           \* "select", "read", "answer", "enable", "exited"
  handshakeCh,      \* "open", "closed", "nil"
  panicked,         \* a closed handshakeCh has been closed
  keys,             \* generation of encryptKey and decryptKey
  encryptionEnabled,
  writing,          \* the writers that have a number and have not written yet
  writes,           \* writer -> its calls of Write
  out,              \* the client's messages the agent has not taken
  agent,            \* "start", "asked", "challenging", "done"
  agentKey,
  sentOutputs,      \* outputs the agent has sent
  net,              \* the agent's frames under way
  unacked,          \* the agent's frames it has no acknowledgement of
  seen,             \* outputs handleOutputData has acknowledged
  delivered,        \* outputs the application has been given
  early,            \* history: outputs that came before HandshakeComplete
  garbled           \* history: data either side took for what it was not

sessionVars == <<kms, ctxDone, channel>>
loopVars == <<phase, reader, handshakeCh, panicked>>
keyVars == <<keys, encryptionEnabled>>
writerVars == <<writing, writes>>
agentVars == <<agent, agentKey, sentOutputs>>
netVars == <<net, unacked>>
appVars == <<seen, delivered, early>>
vars == <<sessionVars, loopVars, keyVars, writerVars, out, agentVars, netVars, appVars, garbled>>

Generations == 0..MaxKeys
Request == [type |-> "request", n |-> 0, key |-> 0]
Complete == [type |-> "complete", n |-> 0, key |-> 0]
Challenge(k) == [type |-> "challenge", n |-> 0, key |-> k]
Output(n, k) == [type |-> "output", n |-> n, key |-> k]
Frames ==
  {Request, Complete} \union {Challenge(k) : k \in Generations}
    \union {Output(n, k) : n \in 1..MaxOutputs, k \in Generations}

Init ==
  /\ kms \in BOOLEAN
  /\ ctxDone = FALSE
  /\ channel = "up"
  /\ phase = IF Shell THEN "relay" ELSE "wait"
  /\ reader = IF Shell THEN "read" ELSE "select"
  /\ handshakeCh = "open"
  /\ panicked = FALSE
  /\ keys = 0
  /\ encryptionEnabled = FALSE
  /\ writing = {}
  /\ writes = [w \in Writers |-> 0]
  /\ out = <<>>
  /\ agent = "start"
  /\ agentKey = 0
  /\ sentOutputs = 0
  /\ net = {}
  /\ unacked = {}
  /\ seen = {}
  /\ delivered = {}
  /\ early = {}
  /\ garbled = {}

---------------------------------------------------------------------------
\* The client's messages.

Slot(kind, by, key, sent) == [kind |-> kind, by |-> by, key |-> key, sent |-> sent]
Sends(slot) == Len(out) < MaxQueue /\ out' = Append(out, slot)
Reserve(kind, by) == Sends(Slot(kind, by, 0, FALSE))
Fill(by, key) ==
  out' = [i \in DOMAIN out |->
            IF out[i].by = by /\ ~out[i].sent
            THEN [out[i] EXCEPT !.key = key, !.sent = TRUE]
            ELSE out[i]]

---------------------------------------------------------------------------
\* The reader: the two loops.

\* Bug: handshakeCh is looked at only when ReadFrame has nothing.
SelectReadsOn ==
  /\ reader = "select"
  /\ ~ctxDone
  /\ reader' = "read"
  /\ UNCHANGED <<sessionVars, phase, handshakeCh, panicked, keyVars, writerVars, out,
                 agentVars, netVars, appVars, garbled>>

\* The select of WaitForHandshakeComplete, when nothing is ready.
SelectReads ==
  /\ reader = "select"
  /\ handshakeCh # "closed"
  /\ ~ctxDone
  /\ reader' = "read"
  /\ UNCHANGED <<sessionVars, phase, handshakeCh, panicked, keyVars, writerVars, out,
                 agentVars, netVars, appVars, garbled>>

SelectDone ==
  /\ reader = "select"
  /\ handshakeCh = "closed"
  /\ handshakeCh' = "nil"
  /\ phase' = "relay"
  /\ reader' = "read"
  /\ UNCHANGED <<sessionVars, panicked, keyVars, writerVars, out, agentVars, netVars,
                 appVars, garbled>>

SelectCancelled ==
  /\ reader = "select"
  /\ ctxDone
  /\ handshakeCh' = "nil"
  /\ reader' = "exited"
  /\ UNCHANGED <<sessionVars, phase, panicked, keyVars, writerVars, out, agentVars,
                 netVars, appVars, garbled>>

\* ReadFrame fails, or a write of the reader's own does.
ReaderSeesEnd ==
  /\ reader \in {"read", "answer"}
  /\ channel = "down"
  /\ reader' = "exited"
  /\ UNCHANGED <<sessionVars, phase, handshakeCh, panicked, keyVars, writerVars, out,
                 agentVars, netVars, appVars, garbled>>

\* Back to the head of the loop that called HandleMsg.
Again == IF phase = "wait" THEN "select" ELSE "read"

\* The acknowledgement, which may be lost on its way.
Acknowledge(f) == unacked' \in {unacked \ {f}, unacked}

\* HandleMsg ends with it; an error ends the loop.
Finish(f) ==
  \/ /\ Acknowledge(f)
     /\ reader' = Again
     /\ UNCHANGED channel
  \/ /\ channel' = "down"
     /\ reader' = "exited"
     /\ UNCHANGED unacked

Reads(f) ==
  /\ reader = "read"
  /\ channel = "up"
  /\ f \in net
  /\ net' = net \ {f}

---------------------------------------------------------------------------
\* The reader: HandleMsg.

\* GenerateDataKey fails, or gives a new pair of keys.  The response is not
\* retained for retransmission.
GeneratesKeys == keys' = keys + 1 /\ Sends(Slot("response", "reader", keys + 1, TRUE))
NoKeys == UNCHANGED keys /\ Sends(Slot("response", "reader", 0, TRUE))

ReceiveRequest ==
  /\ Reads(Request)
  /\ IF kms THEN keys < MaxKeys /\ (GeneratesKeys \/ NoKeys) ELSE NoKeys
  /\ Finish(Request)
  /\ UNCHANGED <<kms, ctxDone, phase, handshakeCh, panicked, encryptionEnabled, writerVars,
                 agentVars, appVars, garbled>>

\* Bug: a challenge that comes again is an error.
ChallengeFailsAgain(k) == k # keys \/ encryptionEnabled
ChallengeFails(k) == k # keys

\* processEncryptionChallenge, up to the number of its response.
ReceiveChallenge(k) ==
  /\ Reads(Challenge(k))
  /\ ~ChallengeFails(k)
  /\ Reserve("challenge", "reader")
  /\ reader' = "answer"
  /\ UNCHANGED <<sessionVars, phase, handshakeCh, panicked, keyVars, writerVars, agentVars,
                 unacked, appVars, garbled>>

AnswerChallenge ==
  /\ reader = "answer"
  /\ channel = "up"
  /\ Fill("reader", keys)
  /\ reader' = "enable"
  /\ UNCHANGED <<sessionVars, phase, handshakeCh, panicked, keyVars, writerVars, agentVars,
                 netVars, appVars, garbled>>

\* Bug: the flag is forgotten.
AnswersOnly == UNCHANGED encryptionEnabled
Enables == encryptionEnabled' = TRUE

EnableEncryption ==
  /\ reader = "enable"
  /\ Enables
  /\ IF channel = "up" THEN Finish(Challenge(keys))
     ELSE reader' = "exited" /\ UNCHANGED <<channel, unacked>>
  /\ UNCHANGED <<kms, ctxDone, phase, handshakeCh, panicked, keys, writerVars, out, agentVars,
                 net, appVars, garbled>>

\* Bug: handshakeCh is set to nil here, and the waiting select never sees it closed.
NilsHandshakeCh == handshakeCh' = "nil" /\ UNCHANGED panicked
CloseHandshakeCh ==
  /\ handshakeCh' = IF handshakeCh = "open" THEN "closed" ELSE handshakeCh
  /\ panicked' = (panicked \/ handshakeCh = "closed")

ReceiveComplete ==
  /\ Reads(Complete)
  /\ CloseHandshakeCh
  /\ Finish(Complete)
  /\ UNCHANGED <<kms, ctxDone, phase, keyVars, writerVars, out, agentVars, appVars, garbled>>

\* What the client makes of a payload encrypted with k.
Decrypts(k) == encryptionEnabled => k = keys
Clear(k) == IF encryptionEnabled THEN k = keys ELSE k = 0

\* WaitForHandshakeComplete throws the payload away that HandleMsg returns.
Passes(n) == IF phase = "relay" THEN delivered \union {n} ELSE delivered

\* Bug: what has been delivered is not remembered.
Forgets(n) == UNCHANGED seen
Records(n) == seen' = seen \union {n}

ReceiveOutput(n, k) ==
  /\ Reads(Output(n, k))
  /\ Decrypts(k)
  /\ Records(n)
  /\ delivered' = IF n \in seen THEN delivered ELSE Passes(n)
  /\ early' = IF handshakeCh = "open" THEN early \union {n} ELSE early
  /\ garbled' = IF Clear(k) THEN garbled ELSE garbled \union {Output(n, k)}
  /\ reader' = Again
  /\ Acknowledge(Output(n, k))
  /\ UNCHANGED <<sessionVars, phase, handshakeCh, panicked, keyVars, writerVars, out,
                 agentVars>>

\* What does not decrypt, or an output that cannot be acknowledged, ends either
\* loop.
HandleMsgFails(f) ==
  /\ Reads(f)
  /\ \/ f.type = "challenge" /\ ChallengeFails(f.key) /\ UNCHANGED channel
     \/ /\ f.type = "output"
        /\ channel' = IF Decrypts(f.key) THEN "down" ELSE channel
  /\ reader' = "exited"
  /\ UNCHANGED <<kms, ctxDone, phase, handshakeCh, panicked, keyVars, writerVars, out,
                 agentVars, unacked, appVars, garbled>>

Receive(f) ==
  \/ f = Request /\ ReceiveRequest
  \/ f = Complete /\ ReceiveComplete
  \/ \E k \in Generations : f = Challenge(k) /\ ReceiveChallenge(k)
  \/ \E n \in 1..MaxOutputs, k \in Generations : f = Output(n, k) /\ ReceiveOutput(n, k)
  \/ HandleMsgFails(f)

---------------------------------------------------------------------------
\* The writers, which a session other than a shell starts after the handshake.

TakeNumber(w) ==
  /\ phase = "relay"
  /\ w \notin writing
  /\ writes[w] < MaxWrites
  /\ Reserve("data", w)
  /\ writing' = writing \union {w}
  /\ writes' = [writes EXCEPT ![w] = @ + 1]
  /\ UNCHANGED <<sessionVars, loopVars, keyVars, agentVars, netVars, appVars, garbled>>

SealKey == IF encryptionEnabled THEN keys ELSE 0

Write(w) ==
  /\ w \in writing
  /\ channel = "up"
  /\ Fill(w, SealKey)
  /\ writing' = writing \ {w}
  /\ UNCHANGED <<sessionVars, loopVars, keyVars, writes, agentVars, netVars, appVars,
                 garbled>>

---------------------------------------------------------------------------
\* The agent and the network.

\* A frame may be lost on its way; its copies come when AgentResends says so, and
\* wait in the socket until they are read.
AgentSends(f) == net' \in {net, net \union {f}} /\ unacked' = unacked \union {f}

AgentAsks ==
  /\ agent = "start"
  /\ agent' = "asked"
  /\ AgentSends(Request)
  /\ UNCHANGED <<sessionVars, loopVars, keyVars, writerVars, out, agentKey, sentOutputs,
                 appVars, garbled>>

AgentTakes(kind) ==
  /\ out # <<>>
  /\ Head(out).kind = kind
  /\ Head(out).sent
  /\ out' = Tail(out)

\* The first response counts.  A failed action ends the session.
AgentTakesResponse ==
  /\ AgentTakes("response")
  /\ IF agent # "asked"
     THEN UNCHANGED <<agentVars, netVars, channel>>
     ELSE IF ~kms
     THEN /\ agent' = "done"
          /\ AgentSends(Complete)
          /\ UNCHANGED <<agentKey, sentOutputs, channel>>
     ELSE IF Head(out).key = 0
     THEN /\ channel' = "down"
          /\ UNCHANGED <<agentVars, netVars>>
     ELSE /\ agent' = "challenging"
          /\ agentKey' = Head(out).key
          /\ AgentSends(Challenge(Head(out).key))
          /\ UNCHANGED <<sentOutputs, channel>>
  /\ UNCHANGED <<kms, ctxDone, loopVars, keyVars, writerVars, appVars, garbled>>

\* The agent can tell that its challenge came back under the right key.
AgentTakesChallenge ==
  /\ AgentTakes("challenge")
  /\ IF agent = "challenging" /\ Head(out).key = agentKey
     THEN agent' = "done" /\ AgentSends(Complete)
     ELSE UNCHANGED <<agent, netVars>>
  /\ UNCHANGED <<sessionVars, loopVars, keyVars, writerVars, agentKey, sentOutputs,
                 appVars, garbled>>

\* Once encryption is agreed the agent decrypts all data; before, none.
AgentExpects == IF agent = "done" THEN agentKey ELSE 0

AgentTakesData ==
  /\ AgentTakes("data")
  /\ garbled' = IF Head(out).key = AgentExpects THEN garbled ELSE garbled \union {Head(out)}
  /\ UNCHANGED <<sessionVars, loopVars, keyVars, writerVars, agentVars, netVars, appVars>>

AgentSendsOutput ==
  /\ agent = "done"
  /\ sentOutputs < MaxOutputs
  /\ sentOutputs' = sentOutputs + 1
  /\ AgentSends(Output(sentOutputs + 1, agentKey))
  /\ UNCHANGED <<sessionVars, loopVars, keyVars, writerVars, out, agent, agentKey,
                 appVars, garbled>>

AgentResends(f) ==
  /\ f \in unacked \ net
  /\ net' = net \union {f}
  /\ UNCHANGED <<sessionVars, loopVars, keyVars, writerVars, out, agentVars, unacked,
                 appVars, garbled>>

\* Nobody sends a lost HandshakeResponse again, and the agent takes nothing that
\* is numbered after it.
ResponseLost ==
  /\ out # <<>>
  /\ Head(out).kind = "response"
  /\ out' = [out EXCEPT ![1].kind = "lost"]
  /\ UNCHANGED <<sessionVars, loopVars, keyVars, writerVars, agentVars, netVars, appVars,
                 garbled>>

ChannelEnds ==
  /\ channel = "up"
  /\ channel' = "down"
  /\ UNCHANGED <<kms, ctxDone, loopVars, keyVars, writerVars, out, agentVars, netVars,
                 appVars, garbled>>

ContextCancelled ==
  /\ ~ctxDone
  /\ ctxDone' = TRUE
  /\ UNCHANGED <<kms, channel, loopVars, keyVars, writerVars, out, agentVars, netVars,
                 appVars, garbled>>

---------------------------------------------------------------------------
ReaderStep == SelectReads \/ SelectDone \/ SelectCancelled \/ ReaderSeesEnd
                \/ AnswerChallenge \/ EnableEncryption
AgentStep == AgentAsks \/ AgentTakesResponse \/ AgentTakesChallenge \/ AgentTakesData

Next ==
  \/ ReaderStep
  \/ \E f \in net : Receive(f)
  \/ \E w \in Writers : TakeNumber(w) \/ Write(w)
  \/ AgentStep
  \/ AgentSendsOutput
  \/ \E f \in unacked : AgentResends(f)
  \/ ResponseLost
  \/ ChannelEnds
  \/ ContextCancelled

Spec == Init /\ [][Next]_vars

\* The reader and the writers run; the agent asks, answers, and sends a frame again
\* until it is acknowledged, not every copy of which is lost; and no frame is passed
\* over for ever in favour of others.
Fairness ==
  /\ WF_vars(ReaderStep)
  /\ \A w \in Writers : WF_vars(Write(w))
  /\ WF_vars(AgentStep)
  /\ \A f \in Frames : WF_vars(AgentResends(f)) /\ SF_vars(Receive(f))

FairSpec == Spec /\ Fairness

---------------------------------------------------------------------------
\* Types, and what the reader's place in its loops says of handshakeCh.
TypeOK ==
  /\ kms \in BOOLEAN /\ ctxDone \in BOOLEAN /\ encryptionEnabled \in BOOLEAN
  /\ panicked \in BOOLEAN
  /\ channel \in {"up", "down"}
  /\ phase \in {"wait", "relay"}
  /\ reader \in {"select", "read", "answer", "enable", "exited"}
  /\ handshakeCh \in {"open", "closed", "nil"}
  /\ keys \in Generations /\ agentKey \in Generations
  /\ writing \subseteq Writers
  /\ writes \in [Writers -> 0..MaxWrites]
  /\ out \in Seq([kind : {"response", "challenge", "data", "lost"},
                  by : Writers \union {"reader"}, key : Generations, sent : BOOLEAN])
  /\ agent \in {"start", "asked", "challenging", "done"}
  /\ sentOutputs \in 0..MaxOutputs
  /\ net \subseteq Frames /\ unacked \subseteq Frames
  /\ delivered \subseteq seen /\ early \subseteq seen /\ seen \subseteq 1..sentOutputs
  /\ reader = "select" => phase = "wait"

\* handshakeCh is closed once: HandshakeComplete may come again, because its
\* acknowledgement is lost or late.
ClosedOnce == ~panicked

\* "After success, encryption is enabled for all subsequent data"
\* (data_channel.go:748): no data is taken for plaintext that is not, or for
\* ciphertext under another key, by either side, as long as a HandshakeRequest has
\* not made the client change its keys again.
BothReadable == keys <= 1 => garbled = {}

\* The same, of the order of the client's own messages: what is numbered after the
\* answer to the challenge is not sent in the clear.
EncryptedAfterAnswer ==
  \A i, j \in DOMAIN out :
    i < j /\ out[i].kind = "challenge" /\ out[i].sent /\ out[j].kind = "data" /\ out[j].sent
      => out[j].key # 0

\* No frame of the agent makes HandleMsg fail, however often it comes, but a
\* HandshakeRequest for encryption that comes again: the reader goes on until the
\* connection ends or its caller cancels.
ReaderKeepsOn == reader = "exited" => channel = "down" \/ ctxDone \/ keys > 1

\* Only an output that overtakes HandshakeComplete is acknowledged and thrown away.
OutputKept == seen \ delivered \subseteq early

\* WaitForHandshakeComplete returns, unless the response is lost, of which no copy
\* is kept.
ResponseMissing == \E i \in DOMAIN out : out[i].kind = "lost"
WaitReturns == <>(phase = "relay" \/ reader = "exited" \/ ResponseMissing)
=============================================================================
