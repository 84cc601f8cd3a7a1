----------------------------- MODULE SshDirect -----------------------------
(***************************************************************************)
(* SSHDirectSession (ssmclient/ssh_direct.go, session/ssm_ssh_direct.go):  *)
(* invocations of the program that connect to one host, each over a data   *)
(* channel of its own (ssmclient/ssm_conn.go), and share its known_hosts   *)
(* file.                                                                   *)
(***************************************************************************)
EXTENDS Naturals, SequencesExt

CONSTANTS
  Sessions,
  Asked,        \* what the sessions may be asked for
  HostKeys,     \* keys a host may present
  Proxies,      \* connections to the SOCKS5 proxy
  Owner,        \* the session that has one (-D)
  Requests,     \* what their clients may ask for
  FileStates    \* known_hosts as the sessions may find it

VARIABLES
  known,        \* the file: its keys for the host, whether it parses, and
                \* whether its last line is ended
  opts,         \* session -> what it was asked for
  pc,           \* session -> its main goroutine
  snapshot,     \* session -> known_hosts as its callback was built from it
  offered,      \* session -> the key its host presents, or NoKey
  auth,         \* session -> the methods it was built with, the one under trial, the
                \* kinds refused, the kinds the host listed last
  channel,      \* session -> "none", "open", "dropped", "closed"
  lost,         \* session -> history: its connection has dropped
  told,         \* session -> TerminateSession has reached the agent
  raw,          \* session -> its terminal is in raw mode
  sock,         \* proxy connection -> where it is, and its two copies
  tried,        \* session -> history: the methods tried, a password once it is asked for
  consented     \* history: keys a user has said yes to

fileVars == <<known, consented>>
keyVars == <<snapshot, offered>>
endVars == <<channel, lost, told>>
authVars == <<auth, tried>>
vars == <<fileVars, opts, pc, keyVars, authVars, endVars, raw, sock>>

NoKey == "nokey"
NoFile == [keys |-> {}, parses |-> TRUE, ended |-> TRUE]

\* The names the SSH protocol has for the methods.
Kinds == {"publickey", "password"}

\* The parts of SSHDirectInput that matter, whether there is an agent and a key file
\* that can be read, whether the target is found, and what its host may list.
Options == [checks : BOOLEAN, ephemeral : BOOLEAN, agent : BOOLEAN, keyFile : BOOLEAN,
            tty : BOOLEAN, dynamic : BOOLEAN, found : BOOLEAN, lists : SUBSET SUBSET Kinds]
ASSUME AskedAssumption == Asked \subseteq [Sessions -> Options]

Kind(m) == IF m \in {"none", "password"} THEN m ELSE "publickey"
NoAuth == [methods |-> <<>>, trial |-> "none", refused |-> {}, listed |-> {}]

Files == [keys : SUBSET HostKeys, parses : BOOLEAN, ended : BOOLEAN]
ASSUME FilesAssumption == FileStates \subseteq Files

\* Ended by returning, by os.Exit with the remote status, by a signal.
Over == {"returned", "exited", "signalled"}

Init ==
  /\ known \in FileStates
  /\ opts \in Asked
  /\ pc = [s \in Sessions |-> "start"]
  /\ snapshot = [s \in Sessions |-> NoFile]
  /\ offered = [s \in Sessions |-> NoKey]
  /\ auth = [s \in Sessions |-> NoAuth]
  /\ tried = [s \in Sessions |-> {}]
  /\ channel = [s \in Sessions |-> "none"]
  /\ lost = [s \in Sessions |-> FALSE]
  /\ told = [s \in Sessions |-> FALSE]
  /\ raw = [s \in Sessions |-> FALSE]
  /\ sock = [k \in Proxies |-> [at |-> "none", up |-> "none", down |-> "none"]]
  /\ consented = {}

Goto(s, place) == pc' = [pc EXCEPT ![s] = place]

---------------------------------------------------------------------------
\* StartSSHDirectSession: parsing, resolving, the key pushed to EC2 Instance
\* Connect, then Open; nothing of it is undone when a later part fails.
Opens(s) ==
  /\ pc[s] = "start"
  /\ \/ Goto(s, "returned") /\ UNCHANGED channel
     \/ opts[s].found /\ Goto(s, "handshake") /\ channel' = [channel EXCEPT ![s] = "open"]
  /\ UNCHANGED <<fileVars, opts, keyVars, authVars, lost, told, raw, sock>>

\* Bug: the other methods are not left out behind an ephemeral key.
FallsBack(o) ==
  (IF o.ephemeral THEN <<"ephemeral">> ELSE <<>>) \o (IF o.agent THEN <<"agent">> ELSE <<>>)
    \o (IF o.keyFile THEN <<"keyFile">> ELSE <<>>) \o <<"password">>

\* buildSSHAuthMethods: the ephemeral key alone if there is one; else the
\* agent, the key file and the password, as far as they are there.
AuthMethods(o) ==
  IF o.ephemeral THEN <<"ephemeral">>
  ELSE (IF o.agent THEN <<"agent">> ELSE <<>>) \o (IF o.keyFile THEN <<"keyFile">> ELSE <<>>)
         \o <<"password">>

Configured(s, o) == auth' = [auth EXCEPT ![s].methods = AuthMethods(o)]

\* Bug: the callback is built without the file.
Unread(file) == NoFile

\* knownhosts.New: a file it cannot parse counts as none at all.
Parsed(file) == IF file.parses THEN file ELSE NoFile

\* The SSM handshake ends, buildHostKeyCallback reads known_hosts, and the methods
\* are built: if the key file has a passphrase, not before the user has given one.
HandshakeEnds(s) ==
  /\ pc[s] = "handshake"
  /\ \/ /\ channel[s] = "open"
        /\ snapshot' = [snapshot EXCEPT ![s] = known]
        /\ \/ Goto(s, "exchange") /\ Configured(s, opts[s])
           \/ /\ opts[s].keyFile /\ ~opts[s].ephemeral
              /\ Goto(s, "passphrase") /\ UNCHANGED auth
     \/ /\ channel[s] = "dropped"
        /\ Goto(s, "terminate")
        /\ UNCHANGED <<snapshot, auth>>
  /\ UNCHANGED <<fileVars, opts, offered, tried, endVars, raw, sock>>

\* parsePrivateKeyWithPrompt: the key is left out if the passphrase is wrong.
PassphraseGiven(s) ==
  /\ pc[s] = "passphrase"
  /\ \E right \in BOOLEAN : Configured(s, [opts[s] EXCEPT !.keyFile = right])
  /\ Goto(s, "exchange")
  /\ UNCHANGED <<fileVars, opts, keyVars, tried, endVars, raw, sock>>

\* tofuHostKeyCallback: a known key passes, a changed one is refused, an unknown
\* host is put to the user.
Verdict(s, k) ==
  LET trusted == Parsed(snapshot[s]).keys IN
  CASE ~opts[s].checks \/ k \in trusted -> "authenticate"
    [] opts[s].checks /\ k \notin trusted /\ trusted = {} -> "ask"
    [] OTHER -> "terminate"

\* ssh.NewClientConn up to the check of the host's key: no time limit applies to
\* it, since ClientConfig.Timeout is for a dial that this code does not make.
HostOffers(s, k) ==
  /\ pc[s] = "exchange" /\ channel[s] = "open"
  /\ offered' = [offered EXCEPT ![s] = k]
  /\ Goto(s, Verdict(s, k))
  /\ UNCHANGED <<fileVars, opts, snapshot, authVars, endVars, raw, sock>>

\* Bug: the file is opened without O_APPEND.
Overwrites(file, k) == {[file EXCEPT !.keys = {k}]}

\* appendKnownHost: a last line that is not ended swallows the new one, and may
\* then not parse.
Appended(file, k) ==
  IF file.ended THEN {[file EXCEPT !.keys = @ \union {k}]}
  ELSE {[file EXCEPT !.ended = TRUE, !.parses = p] : p \in {file.parses, FALSE}}

\* The user answers yes, and the key is saved if the file can be written.
UserAccepts(s) ==
  /\ pc[s] = "ask"
  /\ consented' = consented \union {offered[s]}
  /\ known' \in Appended(known, offered[s]) \union {known}
  /\ Goto(s, "authenticate")
  /\ UNCHANGED <<opts, keyVars, authVars, endVars, raw, sock>>

UserDeclines(s) ==
  /\ pc[s] = "ask"
  /\ Goto(s, "terminate")
  /\ UNCHANGED <<fileVars, opts, keyVars, authVars, endVars, raw, sock>>

\* golang.org/x/crypto/ssh tries "none", and then always the first method built of
\* a kind that the host listed last and that has not been refused: of methods of
\* one kind it never gets past the first.
Untried(a) == {i \in DOMAIN a.methods : Kind(a.methods[i]) \in a.listed \ a.refused}

TriesNext(s, a) ==
  \/ /\ Untried(a) = {}
     /\ auth' = [auth EXCEPT ![s] = a]
     /\ Goto(s, "denied")
     /\ UNCHANGED tried
  \/ \E i \in Untried(a) :
       /\ \A j \in Untried(a) : i <= j
       /\ auth' = [auth EXCEPT ![s] = [a EXCEPT !.trial = a.methods[i]]]
       /\ tried' = [tried EXCEPT ![s] = @ \union {a.methods[i]}]
       /\ Goto(s, IF a.methods[i] = "password" THEN "prompt" ELSE "authenticate")

Refused(a) == [a EXCEPT !.refused = @ \union {Kind(a.trial)}]

\* The callback and the methods are done with.
Forgets(s) ==
  /\ snapshot' = [snapshot EXCEPT ![s] = NoFile]
  /\ offered' = [offered EXCEPT ![s] = NoKey]
  /\ auth' = [auth EXCEPT ![s] = NoAuth]
  /\ tried' = [tried EXCEPT ![s] = {}]

\* The server takes the method.
AuthSucceeds(s) ==
  /\ pc[s] = "authenticate" /\ channel[s] = "open"
  /\ Goto(s, "session")
  /\ Forgets(s)
  /\ UNCHANGED <<fileVars, opts, endVars, raw, sock>>

\* It refuses it, or takes it and asks for another one, and lists what may go on.
AuthRefused(s) ==
  /\ pc[s] = "authenticate" /\ channel[s] = "open"
  /\ \E partial \in BOOLEAN, kinds \in opts[s].lists :
       TriesNext(s, [IF partial THEN auth[s] ELSE Refused(auth[s]) EXCEPT !.listed = kinds])
  /\ UNCHANGED <<fileVars, opts, keyVars, endVars, raw, sock>>

\* A trial that ends with an error counts as refused: the connection has dropped, or
\* no password could be read.
TrialFails(s) == TriesNext(s, Refused(auth[s]))

AuthBreaks(s) ==
  /\ pc[s] = "authenticate" /\ channel[s] = "dropped"
  /\ TrialFails(s)
  /\ UNCHANGED <<fileVars, opts, keyVars, endVars, raw, sock>>

\* promptPassword reads the terminal, and nothing else is looked at meanwhile.
UserTypes(s) ==
  /\ pc[s] = "prompt"
  /\ \/ Goto(s, "authenticate") /\ UNCHANGED authVars
     \/ TrialFails(s)
  /\ UNCHANGED <<fileVars, opts, keyVars, endVars, raw, sock>>

---------------------------------------------------------------------------
\* The session over the SSH connection, and its end.

\* NewSession, RequestPty, the raw terminal and Shell or Run.  cleanup is
\* deferred once the terminal is raw.
StartsSession(s) ==
  /\ pc[s] = "session" /\ channel[s] = "open"
  /\ \/ Goto(s, "running") /\ raw' = [raw EXCEPT ![s] = opts[s].tty]
     \/ Goto(s, "terminate") /\ UNCHANGED raw
  /\ UNCHANGED <<fileVars, opts, keyVars, authVars, endVars, sock>>

\* Bug: cleanup is not deferred.
LeftRaw(s) == raw

\* cleanup gives the terminal back.
Restored(s) == [raw EXCEPT ![s] = FALSE]

\* The remote command ends with status 0 or without one.
RemoteEnds(s) ==
  /\ pc[s] = "running"
  /\ Goto(s, "terminate")
  /\ raw' = Restored(s)
  /\ UNCHANGED <<fileVars, opts, keyVars, authVars, endVars, sock>>

\* Another status: os.Exit, which runs none of the deferred calls.
RemoteFails(s) ==
  /\ pc[s] = "running" /\ channel[s] = "open"
  /\ Goto(s, "exited")
  /\ UNCHANGED <<fileVars, opts, keyVars, authVars, endVars, raw, sock>>

\* The copier from a lost data channel closes the pipe, and the SSH client's next
\* use of its end fails; a client that reads a user's answer uses it only then.
TransportFails(s) ==
  /\ channel[s] = "dropped"
  /\ pc[s] \in {"exchange", "authenticate", "session", "running"}
  /\ Goto(s, "terminate")
  /\ raw' = Restored(s)
  /\ UNCHANGED <<fileVars, opts, keyVars, authVars, endVars, sock>>

\* TerminateSession goes through the window: full, with its reader gone, it makes
\* the session wait for ever ("wedged").  An error of its write is ignored.
Terminates(s) ==
  /\ pc[s] \in {"terminate", "denied"}
  /\ \/ Goto(s, "wedged") /\ UNCHANGED told
     \/ Goto(s, "close") /\ told' = [told EXCEPT ![s] = channel[s] = "open"]
  /\ Forgets(s)
  /\ UNCHANGED <<fileVars, opts, channel, lost, raw, sock>>

Closes(s) ==
  /\ pc[s] = "close"
  /\ channel' = [channel EXCEPT ![s] = "closed"]
  /\ Goto(s, "returned")
  /\ UNCHANGED <<fileVars, opts, keyVars, authVars, lost, told, raw, sock>>

\* The signal handler, installed after Open: TerminateSession, Close, os.Exit(0), if
\* the window has room for the first of them.
SignalArrives(s) ==
  /\ channel[s] \in {"open", "dropped"} /\ pc[s] \notin Over \union {"wedged"}
  /\ told' = [told EXCEPT ![s] = @ \/ channel[s] = "open"]
  /\ channel' = [channel EXCEPT ![s] = "closed"]
  /\ Goto(s, "signalled")
  /\ Forgets(s)
  /\ UNCHANGED <<fileVars, opts, lost, raw, sock>>

ConnectionDrops(s) ==
  /\ channel[s] = "open" /\ pc[s] \notin Over
  /\ channel' = [channel EXCEPT ![s] = "dropped"]
  /\ lost' = [lost EXCEPT ![s] = TRUE]
  /\ UNCHANGED <<fileVars, opts, pc, keyVars, authVars, told, raw, sock>>

---------------------------------------------------------------------------
\* The SOCKS5 proxy: a goroutine per connection.

Reach(k, place) == sock' = [sock EXCEPT ![k].at = place]
OnlySock == UNCHANGED <<fileVars, opts, pc, keyVars, authVars, endVars, raw>>

SockAccepted(k) ==
  /\ sock[k].at = "none" /\ pc[Owner] = "running" /\ opts[Owner].dynamic
  /\ Reach(k, "greeting")
  /\ OnlySock

\* socks5Handshake: CONNECT to an IPv4, IPv6 or named address.
IPv4 == 1
Domain == 3
IPv6 == 4
Connect == 1
Serves(r) ==
  /\ r.version = 5 /\ r.command = Connect
  /\ r.addressType \in {IPv4, Domain, IPv6}

\* What it does not serve it closes without an answer.
SockRequests(k, r) ==
  /\ sock[k].at = "greeting"
  /\ Reach(k, IF Serves(r) THEN "dialing" ELSE "closed")
  /\ OnlySock

SockDials(k) ==
  /\ sock[k].at = "dialing"
  /\ \/ sock' = [sock EXCEPT ![k] = [at |-> "relaying", up |-> "copying", down |-> "copying"]]
     \/ Reach(k, "closed")
  /\ OnlySock

\* A copy ends with its source's end or its target's failure; neither end passes
\* that on to the other one.
Ends(k, way) == sock' = [sock EXCEPT ![k][way] = "ended"]
LocalEnds(k) == sock[k].up = "copying" /\ Ends(k, "up") /\ OnlySock
RemoteCloses(k) == sock[k].down = "copying" /\ Ends(k, "down") /\ OnlySock

\* Bug: the handler waits for one copy too many.
NeverDone(k) == FALSE

BothDone(k) == sock[k].up = "ended" /\ sock[k].down = "ended"

\* wg.Wait and the deferred closes, or the end of the process.
SockCloses(k) ==
  /\ sock[k].at \notin {"none", "closed"}
  /\ BothDone(k) \/ pc[Owner] \in Over
  /\ sock' = [sock EXCEPT ![k] = [at |-> "closed", up |-> "ended", down |-> "ended"]]
  /\ OnlySock

SockStep(k) ==
  \/ SockAccepted(k) \/ SockDials(k) \/ LocalEnds(k) \/ RemoteCloses(k) \/ SockCloses(k)
  \/ \E r \in Requests : SockRequests(k, r)

---------------------------------------------------------------------------
SessionStep(s) ==
  \/ Opens(s) \/ HandshakeEnds(s) \/ AuthSucceeds(s) \/ AuthRefused(s) \/ AuthBreaks(s)
  \/ StartsSession(s) \/ TransportFails(s) \/ Terminates(s) \/ Closes(s)

Next ==
  \/ \E s \in Sessions :
    \/ SessionStep(s)
    \/ \E k \in HostKeys : HostOffers(s, k)
    \/ UserAccepts(s) \/ UserDeclines(s) \/ PassphraseGiven(s) \/ UserTypes(s)
    \/ RemoteEnds(s) \/ RemoteFails(s)
    \/ SignalArrives(s) \/ ConnectionDrops(s)
  \/ \E k \in Proxies : SockStep(k)

Spec == Init /\ [][Next]_vars

\* The program runs, and the SSH server answers while the connection stands; a
\* user, a SOCKS client and a signal owe nothing.
FairSpec ==
  /\ Spec
  /\ \A s \in Sessions : WF_vars(SessionStep(s))
  /\ \A k \in Proxies : WF_vars(SockCloses(k))

---------------------------------------------------------------------------
Places == {"start", "handshake", "passphrase", "exchange", "ask", "authenticate", "prompt",
           "denied", "session", "running", "terminate", "wedged", "close"} \union Over
Methods == {"ephemeral", "agent", "keyFile", "password"}

\* Types; only a session with a terminal and past its handshake has made it raw.
TypeOK ==
  /\ known \in Files
  /\ opts \in Asked
  /\ pc \in [Sessions -> Places]
  /\ snapshot \in [Sessions -> Files]
  /\ offered \in [Sessions -> HostKeys \union {NoKey}]
  /\ auth \in [Sessions -> [methods : Seq(Methods), trial : Methods \union {"none"},
                           refused : SUBSET (Kinds \union {"none"}), listed : SUBSET Kinds]]
  /\ channel \in [Sessions -> {"none", "open", "dropped", "closed"}]
  /\ {lost, told} \subseteq [Sessions -> BOOLEAN]
  /\ consented \subseteq HostKeys
  /\ raw \in [Sessions -> BOOLEAN]
  /\ \A s \in Sessions : raw[s] => opts[s].tty /\ pc[s] \in {"running", "exited", "signalled"}

\* A host that known_hosts had keys for when the session read it gets past the
\* check with one of those only, whatever others have appended since; the file
\* has to parse, and the check to be asked for.
KnownKeyGuards ==
  \A s \in Sessions :
    pc[s] \in {"authenticate", "prompt"} /\ opts[s].checks /\ snapshot[s].parses /\ snapshot[s].keys # {} =>
      offered[s] \in snapshot[s].keys

\* known_hosts only grows, and by keys a user has said yes to, however the
\* sessions' appends interleave.
GrowsByConsent ==
  [][/\ known.keys \subseteq known'.keys
     /\ known'.keys \ known.keys \subseteq consented']_vars

\* With an ephemeral key "only this method is tried" (docs/index.html:884), whatever
\* the host lists; without one, no host that takes passwords turns a user away who
\* has not been asked for one.  A session that is over has closed its channel and
\* told the agent, unless the connection was lost before; and it has given the
\* terminal back.  os.Exit leaves all of that undone (ssh_direct.go:407), and a
\* signal the terminal.
EndsProperly ==
  \A s \in Sessions :
    /\ opts[s].ephemeral => tried[s] \subseteq {"ephemeral"}
    /\ pc[s] = "denied" /\ ~opts[s].ephemeral /\ "password" \in auth[s].listed =>
         "password" \in tried[s]
    /\ pc[s] \in {"returned", "signalled"} /\ channel[s] # "none" =>
         channel[s] = "closed" /\ (told[s] \/ lost[s])
    /\ pc[s] = "returned" => ~raw[s]

\* A lost connection ends the session, unless a user who is asked (for a passphrase, a
\* yes, a password) does not answer, or TerminateSession waits for ever; with the
\* session end the connections of its SOCKS5 proxy, as does one whose two ends have
\* both closed.
LossEnds ==
  /\ \A s \in Sessions :
       \/ <>[](pc[s] \in {"passphrase", "ask", "prompt", "wedged"})
       \/ (channel[s] = "dropped" ~> pc[s] \in Over)
  /\ \A k \in Proxies :
       \/ sock[k].up = "ended" /\ sock[k].down = "ended"
       \/ sock[k].at # "none" /\ pc[Owner] \in Over
       ~> sock[k].at = "closed"

\* The order of methods of buildSSHAuthMethods' comment: a session that is turned away
\* has tried all its methods of the kinds the host takes.
AllMethodsTried ==
  \A s \in Sessions :
    pc[s] = "denied" =>
      \A i \in DOMAIN auth[s].methods :
        Kind(auth[s].methods[i]) \in auth[s].listed => auth[s].methods[i] \in tried[s]
=============================================================================
