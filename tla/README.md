# A verification of ssm-session-client

TLA+ specifications of `ssm-session-client`: its concurrent core, the sessions
over it, and the state machines in front of them (login, configuration, target
resolution). With them, the TLC configurations that check them on small instances, and TLAPS proofs of what
matters most for every instance. Paths below are relative to the repository;
every definition that models code is listed with its lines in `PROJECT.json`.

## The system

`ssm-session-client` opens sessions (shell, SSH proxy, port forwarding, SSH
direct, RDP) to EC2 instances through AWS Systems Manager. All of them run over
one object, the *data channel* of `datachannel/data_channel.go`: a reliable,
ordered, two-way stream built on numbered messages over a websocket.

| Component | State | Operations | Talks to |
|---|---|---|---|
| Outbound window, `message_buffer.go` | list and map of messages, `closed`, a condition variable | `AddWait`, `Add`, `Remove`, `Get`, `Front`, `Close` | writers, resend scheduler, reader |
| Outbound half, `data_channel.go` | `seqNum`, `synSent`, the window, the websocket | `Write`, `WriteMsg`, `SetTerminalSize`, `TerminateSession`, `DisconnectPort`, `processOutboundQueue`, `Close` | agent (messages), inbound half (acknowledgements) |
| Inbound half, `data_channel.go` | `dataBuf`, `dataSeqNum`, `dataSeqInit`, `dataDelivered` | `HandleMsg`, `handleOutputData`, `sendAcknowledgeMessage` | agent, the reader's output |
| Handshake, `data_channel.go` | `handshakeCh`, keys, `encryptionEnabled`, `agentVersion` | `WaitForHandshakeComplete`, `processHandshakeRequest`, `processEncryptionChallenge` | agent, KMS |
| Session types, `ssmclient/` | goroutines and channels of each session | `ShellSession`, `SSHSession`, basic and multiplexed port forwarding, reconnection | data channel, terminal, TCP clients |
| SSH direct, `ssh_direct.go` | known hosts, authentication methods, terminal mode, SOCKS5 connections | host key check, authentication, three kinds of session, proxy | data channel through `NewSSMConn`, the SSH library |
| SSO login, `session/sso.go` | token cache, polling interval, deadline | device-code login, logout | AWS, browser, other invocations through the cache file |
| SSH replacement, `session/ssh_compat.go`, `openssh_args.go`, `ssh_config.go` | parsed arguments, `~/.ssh/config` | parse, read, merge, start; `add-proxy-command` | target resolution, SSH direct |
| Target resolution, `target_resolver.go` | a chain of resolvers | alias, tag, address, DNS | EC2, name service |

What makes it hard is in the first six rows most of all. Several goroutines write to one
channel: the stdin copier, the terminal resizer, the signal handler, the
goroutine that ends the session. One goroutine reads it, and the writers depend
on that reader: only the acknowledgements it handles make room in the window.
Frames and acknowledgements are lost, repeated and reordered; the connection
drops, the agent closes the channel, a user interrupts. What has to hold is that
every payload arrives once, in order; that what was accepted is not forgotten;
that nobody waits for ever; and that a session that ends is really closed.

The last four rows are sequential programs whose environment is not: other
invocations share the token cache and the known hosts, a host and a user decide
which key is offered, instances change between two calls, files are edited by
hand. Besides, their order of precedence runs through several files and tables.

## Modules

| Module | What it models |
|---|---|
| `MessageBuffer` | the window of unacknowledged messages and the threads waiting in `AddWait` |
| `Outbound` | the outbound half: writers, `WriteMsg`'s three phases, resend scheduler, reader, the goroutines that end a session, agent and network; at its end, the refinement mapping to `ReliableStream` |
| `Inbound` | the inbound half: reassembly, acknowledgements, agent and network |
| `ReliableStream` | the abstract promise of either half, and of a bridge |
| `MuxBridge` | one call of `startMuxPortForwarding`: the three goroutines between a data channel and a smux session, and their teardown |
| `MuxReconnect` | `startMuxPortForwardingSession`: bridges one after another behind one listener, and their accept loops |
| `Handshake` | the handshake: `HandleMsg`'s answers to requests, challenges and completion, the wait for it, and the writers that may not wait |
| `BasicForward` | `startBasicPortForwardingSession`: accept loop, copiers, message reader, window, context |
| `SshDirect`, `MCSshDirect` | `SSHDirectSession`: several sessions over one `known_hosts`, their authentication and their ends, and the SOCKS5 proxy |
| `SsoLogin`, `MCSsoLogin` | logins and logouts of several invocations over one token cache |
| `SshArguments` | the OpenSSH command line, one flag or word at a time |
| `SshConfigFile` | reading `~/.ssh/config`, and rewriting it for `add-proxy-command` |
| `TargetResolution` | the resolver chain, while calls fail and instances change |
| `SshCompat`, `MCSshCompat` | the three modules above composed: from the command line to a session |
| `Outbound_proofs`, `Inbound_proofs`, `MuxBridge_proofs`, `MuxReconnect_proofs`, `Handshake_proofs`, `SshDirect_proofs`, `SsoLogin_proofs`, `SshCompat_proofs` | theorems, checked by TLAPS |

`MessageBuffer` is part of `Outbound`, which declares its variables. `MuxBridge`
takes from `Outbound` what it shows: a write to the data channel waits for room,
acknowledgements make room, and `Close` ends the wait. `MuxReconnect` takes from
`MuxBridge` that a bridge hands its session back. `Handshake` takes from `Outbound`
that the agent gets the client's messages in the order of their numbers, and
leaves the order among outputs to `Inbound`. `BasicForward` takes the window from
`Outbound`, `SshDirect` the data channel's life (open, dropped, closed), and `SshCompat`
ends where `SshDirect` begins.

### MessageBuffer and Outbound

`buf` is the code's list; the code's map from numbers to list elements is the
position of a number in it. Each method runs under the buffer's mutex, so it is
one action. `AddWait` is one action per turn of its loop: `cond.Wait` gives the
mutex away, so a thread in `parked` takes no step until `Remove` or `Close`
broadcasts.

A thread's `pc` cuts `WriteMsg` where the code gives its mutex away: after the
number is taken (`atomic.AddInt64` in `Write`, `SetTerminalSize` and
`TerminateSession`, outside the mutex), after phase 1 (SYN or not), after phase 2
(the copy kept in the window), after phase 3 (the websocket write). `ThreadStep`
is one such piece. The scheduler is two actions, `Tick` and `Resend`, because
`Front` and the websocket write are under different locks. The reader's three
ways to exit are a dropped connection, `ChannelClosed`, and an error of its
output. `MainEnds` and `SignalArrives` start `TerminateSession` (where the kind
of session has it) and then `Close`, which is two actions because the websocket is
closed after the buffer.

The constants say which session is meant. `SynDone` is TRUE for ssh and port
sessions, whose handshake sends the SYN before any writer starts, and FALSE for
a shell. `TerminateFirst` is TRUE where `TerminateSession` comes before `Close`.
`Enders` says whether the session is ended by its main goroutine, a signal
handler or both.

A payload is the pair of its writer and the writer's count: enough to tell a
copy from a corrupted one. Acknowledgements the client sends do not enter the
window and take no number; they belong to `Inbound`. The agent is not in the
repository. It is taken from the mock agent of
`datachannel/outbound_reliability_test.go`: it keeps the first copy of a number,
may leave an arrival unacknowledged, and puts the acknowledged number in the
payload, with a different one in the header; the variant with an empty payload
is the fallback `HandleMsg` has for it.

`issued` and `retained` are history variables: the messages whose number is
final, and those `AddWait` accepted.

### Inbound

`Receive(s)` is one call of `handleOutputData` for a frame: acknowledge, seed or
lower the watermark, drop a duplicate or store the frame, and drain the run that
starts at the watermark. `ReceiveFails` is a payload that does not decrypt or an
acknowledgement that cannot be written. The network is a set of frames, so any
order is possible; the agent sends a frame again until it handles an
acknowledgement of it. `FirstInOrder` restricts the first arrival to the
stream's first frame.

### ReliableStream

A payload is put at a position once and for all; the receiver has a prefix of the
stream that only grows. `Outbound` implements it with the contiguous run of
first copies the agent holds, `Inbound` with what `handleOutputData` has returned,
`MuxBridge` with what smux has read.

### MuxBridge

Each goroutine is a program counter with one action per blocking operation.
The reader waits in `ReadFrame` ("reading"), then for a place in `inboundCh` or
`bridgeDone` ("handing"); the writer waits for `inboundCh`, then for smux to read the
pipe; the copier waits for smux to write, then for the window. Payloads are numbered in
the order `HandleMsg` returns them. By then they have been acknowledged, so
`got` is what the agent has forgotten. The pipe has no buffer: `SmuxReads` is
the write of one payload, whole. The window is its length, because nothing here
depends on which message is in it; a write that finds the connection down adds to
the window first and fails afterwards, as `WriteMsg` does, so a full window
hides the failure. `main` is the calling goroutine: the select over the context
and `errCh`, the wait for the accept loop, two drains of `errCh` with a timeout
each, and the caller's `TerminateSession`, which waits for room in the window like
any other write (`CallerTerminates`), and `Close`. A drain may take the
timeout even where an error is waiting. Two waits for ever are in the code, and
`HandsSessionBack` names them: `Stalled`, in which every goroutine waits for the
next one and smux for a client, and `TerminateWaits`, in which the window is full and
its reader has gone or has nothing to read from.

### MuxReconnect

Bridge `b` runs over data channel `b`; `b - 1` is `reconnectCount`. `CancelAccept` is
the return from the bridge's select, `BridgeReturns` the end of the call; between
them an accept loop blocked in `Accept` stays where it is, because cancelling
`acceptCtx` does not interrupt `Accept` and the listener stays open. A client
waits in the backlog until an accept loop of any bridge takes it, or the
listener is closed. `Terminate` may find the window full and its reader gone, as in
`MuxBridge`: the loop is then "waiting" for ever. The handshake of a
reconnection goes from the look at the context ("select") to a `ReadFrame` ("shaking")
and back, until `HandshakeComplete` has been read ("complete"). A cancelled context
is seen between two frames only. `CancelEnds` and `ClientsAnswered` except a loop that
stays in these places for ever. When the listener cannot be opened at all, the session
returns without closing its first channel (`ListenFails`), although
`startPortForwardingSession` says it owns it; `ChannelsClosed` leaves that path out.
`late` is a history variable: the clients a bridge's loop took after its `cancelAccept`.

### Handshake

The reader is one goroutine in one of two loops, `WaitForHandshakeComplete` ("wait")
and `WriteTo` ("relay"); a shell session starts in the second. Each case of
`HandleMsg` is one action, up to its acknowledgement, which may be lost, so
that the frame comes again. `processEncryptionChallenge` is three actions, because
other goroutines write between the number its response takes, the response
itself and `encryptionEnabled`. A key is the number of times `GenerateDataKey` has
succeeded, and what is encrypted carries it. Frames are not ordered: an
`Output` may arrive before `HandshakeComplete`, and is acknowledged and thrown away then.

Three weak places of the code are modelled, and show in the properties as what
they except. `BothReadable` excepts a `HandshakeRequest` for
encryption that comes again, for which the client makes new keys that the agent
does not take. `WaitReturns` excepts a lost `HandshakeResponse`, the one message `WriteMsg`
keeps no copy of. `OutputKept` excepts the outputs that overtake
`HandshakeComplete`. Not modelled: the window, whose waits only delay here (the wait of
the reader itself is listed as a hazard), and `inMsgBuf`, to which nothing is ever added.

### BasicForward

One program counter each for the session's goroutine (`main`), the connection's
copier and the message reader; `WriteReturns`, `Disconnects` and `Terminates` wait as the
code does, on the client's socket or on the window. `doneCh`, `errCh` and `inCh` have no buffer, so a
sender waits until the inner `select` takes it: `TakesDone`, `TakesError` and `TakesPayload` are
the rendezvous. The outer loop hears only `Accept`. `window` is the number of
unacknowledged messages, which the copier's writes, `DisconnectPort` and
`TerminateSession` share. The listener is closed when its one connection has
ended (`AfterServing`), after which `Accept` fails again and again (`AcceptErrs`) until the context
ends. What the properties except is `Blocked`: the session's goroutine inside a
write to a client that does not read, or to a window that has no room.

### SshDirect

Each session is one invocation of the program with a data channel of its own
and one program counter; they share `known`, the host's part of `known_hosts`,
which a session reads once (`snapshot`) before the host offers its key. The file may be one
that does not parse, and its last line may lack its end, which then swallows
what is appended. `auth` holds the methods in `buildSSHAuthMethods`' order, the one under trial, the
kinds refused and the kinds the host listed last. The SSH library is external (`golang.org/x/crypto/ssh`
v0.57.0): it takes the first method of a kind that is listed and not refused (`TriesNext`), a trial that ends
with an error counts as refused (`TrialFails`), and the host may list anything (`lists`, of what the session meets), also after
a method it has taken and found not enough. A key file's passphrase ("passphrase"), the
yes to an unknown host ("ask") and a password ("prompt") are places of their own, because the code reads the terminal
there and looks at nothing else: a connection that drops meanwhile is noticed when the user
has answered. The user's SSH agent is taken to answer. The three ends
of a remote command are `RemoteEnds` (returns, with the deferred calls), `RemoteFails`
(`os.Exit`, without them) and `TransportFails`. `Terminates` tells the agent only over a channel that is
open; the error of a write over another one is ignored, and a full window without a reader makes it wait for ever
("wedged"), as in `Outbound`. A signal whose handler waits so counts as one that has not arrived. `SockRequests` reads one SOCKS5 request; the two copies of a proxied
connection end each on its own, and the handler waits for both. A port forward other than the
proxy (`-L`, `-R`) does not exist in the program.

### SsoLogin

Each invocation is a process: a login goes from its configuration to the cache
check, the registration, the poll and the writing and rereading of the cache
file; a logout removes the file. `GetConfigProfile` is the whole inheritance between
profile, `sso-session` and default section, over a configuration given as a
sequence of sections, and `CacheFilePath` is what decides which invocations meet
in one file. The clock `now` moves when nobody's sleep is over (`Tick`); `pace` and `answered` are
what the server asked for and when it last answered. The file is truncated
(`Truncate`) and written (`WriteBytes`) in two steps because the code writes in place; another
invocation may truncate, write or remove it in between, and a crash may have left any state
of it (`Init`). Getting the tokens' contents, refreshing them, and AWS's own errors
beyond "fails" are left out.

### SshArguments, SshConfigFile, TargetResolution, SshCompat

`SshArguments` is the loop of `ParseSSHArgs`, one action per kind of argument; `Shape` says
how the code takes a word, so that no string is taken apart, and the options are a map from names to values, as in the code. The empty
string, which stands in the code for what is not given, is `None`: no argument is empty. `SshConfigFile` is two pure
functions on a file of lines, `ParseSSHConfig` and `ReplaceOrAppendHostBlock`, with the pattern
matcher. Each loop of the code is a recursive function, over the lines read (`Scanned`), the blocks
applied (`Applied`), the elements of a pattern (`Places`) and the lines still to be copied (`KeptFrom`). `TargetResolution` is the chain of resolvers, one action per call, in an
environment where a call, the DNS lookup among them, may fail and an instance start or stop between two of
them (`MaxFaults` bounds both together). `SshCompat` is the program that uses
them: changes of `~/.ssh/config` before, then `Invoke` (the dispatch of `main.go`), the parse, the merge
of arguments, file and the program's own configuration, and the resolution. `add-proxy-command` reads the
file (`ReadsConfig`), cuts it to nothing (`Truncates`), and writes all of it (`WriteCompletes`), because `os.WriteFile`
works in place; it may break off at either place (`BreaksOff`), behind any number of lines. `UserEdits` is
an edit at any time, an update by another process included. The session that starts may find the file
half written. `since` is a history variable: the file as last edited, the hosts added to it since, the last
addition, and whether all that was sound: tidy whenever it was read, no update broken off behind its truncation,
no edit during one.

Each property has a reference definition that works differently from the code:
`ArgsAsWritten` decides what a word is from the run of value flags in front of it, by position;
`EffectiveOptions` takes the first line of the file that stands in a section for the host,
without blocks or maps; `ResolvedInOrder` names the instances a name stands for when nothing
fails; `UpsertKeepsOthers` compares, after any number of updates, what every host that none of the added `Host` lines
takes is configured with against the file as last edited, and asks for one entry for the host added last and for no
change by adding it again. It is about files that `since` calls sound: a truncation without its write, or an edit
between reading and writing, loses what others had in the file, and nothing can be said of it. `Tidy` means that a
marker of ours stands directly before a `Host` line, and that the lines that go with it are options.

Where the program's documentation and its code disagree, four properties state what is documented
(`DestinationUserWins`, `PortFlagWins`, `DynamicIgnored`, `UnknownValueSkipped`), each is violated under a
configuration of its own (below), and `ArgsAsWritten` and `EffectiveOptions` say nothing of the command lines concerned: a user given twice,
`-p 22`, `-D`, and a word behind an unknown flag that may be its value.

## Runs

| Run | Configuration | What it shows |
|---|---|---|
| `outbound_port` | two writers, main, window of 2, handshake done | nothing retained is lost, and refinement of `ReliableStream`, for ssh and port sessions |
| `outbound_shell` | one writer, two messages, main and signal, window of 1, SYN sent by the writer | copies identical, no lost wakeup, and the liveness of writes and delivery |
| `inbound` | four frames from number 2 | safety, liveness and refinement of reassembly |
| `mux_bridge` | four payloads, `inboundCh` of 2, window of 2, clients that may stop reading | nothing acknowledged is dropped while the bridge lives, smux sees no gap, the session is handed back but for the two waits above, the goroutines end |
| `mux_reconnect` | three bridges, three clients, reconnection on and off, limit 0 and 1 | channels closed; every client answered and cancellation ends the session, unless `TerminateSession` or the handshake of a reconnection waits for ever |
| `handshake` | one writer, one output, up to two pairs of keys | the wait ends, both sides read what the other sends, nothing acknowledged is thrown away |
| `basic_forward` | three clients, window of 1, three payloads | cancellation ends the session, every client is taken or refused |
| `ssh_direct` | two sessions to one host and a file that may be broken; or one session, a host that lists any kinds of method, a proxied connection | a recorded key guards, the file grows by consent, methods are tried as promised, sessions end properly, a loss ends everything but prompts and a wait for room |
| `sso_login` | two logins, one logout, two profiles | the poll's pace and deadline, invocations end, only others spoil the cache file |
| `ssh_compat` | about 7,400 command lines, 1,000 files, twelve names over two instances | arguments, effective options and target agree with their references; up to three updates of the file, completed or not, and an edit keep the rest of a sound one |
| `outbound_synrace` | two writers before the SYN | violation of `NoneLost` |
| `ssh_auth` | one session, agent and key file | violation of `AllMethodsTried` |

Two runs are disagreements of the code with its own comments; `PROJECT.json`
quotes them under `findings`.

* **`outbound_synrace`.** Phase 1 of the first message sets the shared counter
  back to 0 although other goroutines have taken numbers from it. A shell
  session has two writers from the start. Two messages get one number, and
  `add` replaces the first of them, unacknowledged, by the second.
* **`ssh_auth`.** The comment of `buildSSHAuthMethods` promises agent, then key file, then
  password. Agent and key file are two methods of the kind `publickey`, of which the
  SSH library tries the first only.

`outbound_shell` has a single writer because of `outbound_synrace`: it shows what a session
that sends its own SYN guarantees when no other goroutine competes for it.

### Other configurations

Ten more configurations belong to no run of the list; each makes TLC show a place where
the code does not do what its comments or the documentation say. `tlc -config X.cfg M` repeats them.

| Configuration, module | Violates | Why |
|---|---|---|
| `Outbound_teardown.cfg`, `Outbound` | `SessionCloses` | `TerminateSession` goes through the window. When the reader has exited and the window is full, nothing makes room, and `Close`, which would, comes after it in the same goroutine (`port_forwarding.go:131`). |
| `Inbound_seed.cfg`, `Inbound` | `AckedNotLost` | The branch that lowers the watermark for an early frame that arrives second (`data_channel.go:499`) is never taken, because the first frame to arrive is drained at once. |
| `MuxBridge_stall.cfg`, `MuxBridge` | `LossNoticed` | Once the 512 places of `inboundCh` are full the reader waits, no acknowledgement is handled, the window fills, the copier waits, and no goroutine touches the websocket: its loss is not noticed until a client reads again (`port_mux.go:82`). |
| `MuxReconnect_stale.cfg`, `MuxReconnect` | `NoStaleDispatch` | The accept loop of a dead bridge, blocked in `Accept`, takes the first client after the reconnection and hands it to the closed smux session (`port_mux.go:165`). |
| `Handshake_shell.cfg`, `Handshake` | `EncryptedAfterAnswer` | A shell session writes without waiting for the handshake: a payload numbered after the answer to the encryption challenge goes out in the clear, because the flag is set only when that answer has been written (`data_channel.go:785`). |
| `BasicForward_fatal.cfg`, `BasicForward` | `FatalEnds` | What the comment calls fatal, the end of the websocket (`port_forwarding.go:227`), leaves the outer loop only when `inCh` is closed or an error is taken by the inner `select`; a reader that fails while the connection ends is heard by nobody. |
| `SshCompat_port.cfg`, `MCSshCompat` | `PortFlagWins` | "Priority: CLI -p flag > ssh_config" (`ssh_compat.go:118`, `37`; `docs/index.html:910`): the code tests the number and not whether the flag was given, so `-p 22` loses to a `Port` of the configuration (`121`). |
| `SshCompat_user.cfg`, `MCSshCompat` | `DestinationUserWins` | `docs/index.html:909` puts the user in front of the `@` before `-l`; the code (`openssh_args.go:163`), its comment (`ssh_compat.go:105`) and its test put `-l` first. |
| `SshCompat_forward.cfg`, `MCSshCompat` | `DynamicIgnored` | `docs/index.html:1013` and `openssh_args.go:21` say that `-D` is ignored; it is passed on (`ssh_compat.go:89`), and the session starts a SOCKS5 proxy (`ssh_direct.go:125`). |
| `SshCompat_unknown.cfg`, `MCSshCompat` | `UnknownValueSkipped` | The comment at `openssh_args.go:149` skips what looks like the value of an unknown flag; the code does not: of `-L 2200 a` it takes `2200` for the destination. |

### Places the models follow the code where it may surprise

* Options before the first `Host` line are ignored (`ssh_config.go:125`). A negated pattern counts only when
  it stands before the one that matches (`207`). A tab before several words, or an `=` in a value, makes
  an unknown keyword (`138`). A line longer than the scanner's limit drops the whole file.
* Values joined to their
  flag (`-p2222`) are read as letters. `-V` counts anywhere, in the remote command too.
  Of an option given under two spellings either value may be used. `accept-new` counts as no check
  (`ssh_compat.go:149`).
* `add-proxy-command` moves a replaced entry to the end of the file, behind any `Host *`; lines of an old
  entry that are not indented stay and join the block before (`ssm_ssh_add_proxy_command.go:122`). An entry ends
  where the lines with two spaces end, so an indented `Host` section right behind it is deleted with it (`124`); and
  a marker alone above an entry stays when the entry goes, and makes one of ours of a section that then follows it (`119`).
  `Tidy` leaves these files out. The file is truncated and written in place: a write that fails, or an edit
  since it was read, loses the other hosts' settings (`101`).
* An alias that finds no running instance, or whose call fails, falls through to the tag, address and DNS resolvers.
* A `known_hosts` that does not parse counts as one that does not know the host (`ssh_direct.go:281`).
  `os.Exit` on a failing remote command leaves the terminal raw and the session open (`407`).
  A proxied connection whose one end has closed waits for the other (`517`).

### Bounds

`BufSize` is 1 or 2 where the code has 1000: the window has to be full with one
message accepted and another waiting, which happens from 1 on; 2 lets
acknowledgements arrive out of order of retention and leave a hole.
`ResendTicks` is `retransmissionTimeout / resendInterval`, 2 in the code and in
`outbound_shell`; it is 1 in the runs where time does not matter. `MaxWrites` (messages per
writer), `MaxWire` and `MaxAcks` (what is in flight) keep the state finite: with
two messages on the wire a copy overtakes nothing but follows its original, which
is what a websocket allows. `MaxFrames` is 4 so that two gaps can be open at once.
`InboundCap` is 2 where the code has 512, and `MaxPayloads` 4, so that one payload is
with smux, one with the writer, and `inboundCh` can be full with the reader
waiting. `MuxBridge` has a window of 2, so that it is partly full, and full, when `TerminateSession` comes. `LastBridge` is 3: two dead accept loops beside a live one; the last
bridge breaks only where the code makes no other (`WithinBound`), so no
behaviour is cut off in the middle of a reconnection. Three clients let a dead
loop take one and meet two more.
`MaxKeys` is 2: the keys agreed and those of one repeated request. `MaxQueue` is 2,
a repeated answer behind one that has not been taken. One output is enough to be
repeated, to overtake `HandshakeComplete` or not, and to be read with the wrong key.

`BasicForward` has three clients: one that is served, one in the backlog behind
it, and one that comes after the listener has been closed. In `ssh_direct` two
sessions are what it takes for one to read `known_hosts` before and write it
after the other; the host has two keys, one of them perhaps recorded. The host of these two lists
passwords only, and neither has a proxy: sessions share nothing but the file, so the methods and the proxy are the
question of one session alone, for which the host lists every set of kinds in every order. (`Asked` says which of
these cases a run starts from; a second session that does not find its target stands for none.)
In `SsoLogin` intervals of 0 (none asked for) and 2, a slow-down of 1 and a deadline of 2 make every
comparison of the poll come out both ways; two logins and a logout meet in one
file in every order; `MaxTime` is 0, so time passes only while a login sleeps, which is
enough for tokens to expire under the other one. In `SshCompat` four arguments
of nine words put a flag, a value, an unknown flag or `--` before, between and behind each other;
files of three lines hold two blocks or a block with a repeated keyword;
patterns of up to three characters meet hosts of one and two; two updates show that an
entry is replaced and not doubled, three do so for files that hold two entries, and an edit (`Edits`) counts as one of them; one fault moves a target past each resolver.

Runs set `CHECK_DEADLOCK FALSE` because a session that has ended, or whose bounded
input is used up, has no further step.

### Fairness

Goroutines that can run do run (`WF` of each thread's steps, the reader, the
scheduler). A frame that keeps coming to the head of the wire is taken and
acknowledged some time (`SF`), because the agent has to answer one of infinitely
many copies for anything to be delivered. In `Inbound`, the agent keeps
resending (`WF`) and neither every copy nor every acknowledgement is lost
(`SF`). Nothing obliges a user to type, a connection to drop, the agent to close,
a signal to arrive, or a frame to be lost while the connection stands. Once the connection or the agent has gone, the wire
drains, so that no writer waits on it.

In `MuxBridge` the agent acknowledges what it gets (`WF` of `ReaderHandlesAck`), smux's
keepalive makes the copier write again and again (`WF` of `CopierStep`). Nothing obliges smux to read the pipe,
since its clients may stop. In `MuxReconnect`
`openDataChannel` ends, one way or the other; a frame of the handshake, or its failure, may never come;
and an accept loop
that is offered clients again and again takes one (`SF`), because the errors of
`Accept` that leave the listener open do not repeat for ever. No bridge has to break, no
client to connect, no context to end. In `Handshake` the agent answers (`WF`), and sends a
frame again until it is acknowledged, not every copy of which is lost (`WF` of
`AgentResends`, which is a copy that arrives).

In `BasicForward` Go's `select` takes each case that is ready again and again
(`SF` of `TakesDone`, `TakesError`, `LeavesOuter`), and a writer that finds room again and again
gets it (`SF` of `Disconnects`, `Terminates`); a client need not read. In `SshDirect` the program's own steps are
fair (`WF`), and the host answers authentication while the connection stands; a user who is
asked for a passphrase, a yes or a password, a proxied client and a signal owe nothing. In `SsoLogin` the clock ticks (`WF` of
`Tick`) and AWS answers every call, with whatever result; no user has to decide, so
that only the deadline ends the poll. `SshCompat` has safety properties only.

## Proofs

`tlapm M.tla`, for each of the eight `_proofs` modules, checks every theorem.

**Outbound.** Without assumptions beyond the constants' types: `OutboundTypeCorrect`;
`NoWriterSleepsForNothing`, from the joint invariant that the window never
exceeds `BufSize` and that sleepers mean a full, open window. For `SynDone =
TRUE`: `NumbersNameOneMessage` and `WritersKeepOrder` from `Numbered`, which is
needed because uniqueness of issued numbers alone is not inductive: a number
that has been taken and not yet issued must be known to differ from every issued
one and from every other such number, and to exceed those of its own writer.
`NoRetainedMessageLost` and `CopiesAreIdentical` from `Retention`: all that is in
the window, on the wire and at the agent was retained, an acknowledgement in
flight names a number the agent holds, and so, numbers being unique, removing
the message of that number removes what the agent holds. `WindowBoundsLoss`
follows by counting. `OutboundImplementsStream` is the refinement: the numbers the agent holds
have a first gap (the least number it lacks, which exists because every
number it holds was issued, and so lies below the counter), every number in front of the gap names the one payload
that was issued under it, and taking a frame either leaves the gap where it is or moves it
forward over payloads numbered before. The assumption `SynDone = TRUE` is the one
`outbound_synrace` shows to be necessary.

**Inbound.** For `FirstInOrder = TRUE`: `IInv` says that the output is the run of
numbers from `First`, that the watermark is the next one, that `dataDelivered` holds from the
first frame on (so the watermark never moves back), and that what was
acknowledged is below the watermark or buffered. From it `InboundTypeCorrect`,
`NoAckedFrameLost`, `OnlyGapsAreBuffered`, and `InboundImplementsStream`, the
refinement. `Inbound_seed.cfg` shows the assumption to be necessary.

**MuxBridge.** For every capacity of `inboundCh` and of the window:
`BridgeTypeCorrect`, then `Flow`. While the pipe is open, what smux has read, what the
writer holds, what is in `inboundCh` and what the reader holds are numbered one
after the other, and add up to `got` until the reader has given a payload up,
which it does only after `bridgeDone`. A closed pipe freezes what smux has
read, which is why `Flow` keeps its order separately (`InOrder`). `NothingAcknowledgedIsDropped`
and the refinement `BridgeImplementsStream` follow.

**MuxReconnect.** For any number of bridges and clients and any limit:
`ReconnectTypeCorrect`; `NoChannelLeaks`, from the fact that only the current
bridge's channel is open and at which places of the loop it is;
`StaleLoopTakesAtMostOne`, because a loop that took a client after its
cancellation can only be at its head, where it stops, or be done;
`ReconnectsAreBounded`.

**Handshake.** `Outputs` holds in every session: a reader in the loop of the wait has its
channel, and an output under way is one the agent sent. From it `TypeCorrect` and
`OnlyEarlyOutputsLost`. The others are about the sessions that wait (`~Shell`), and rest on
`Agreement`, which is inductive only as a whole: the agent's key is among the
client's (`KeysAgree`), a frame or a message under way says what its sender had done
by then (`FramesTrue`, `MessagesTrue`), `handshakeCh` follows the reader (`Following`),
and no writer starts before both sides agree (`WritersWait`). `BothSidesRead` follows from the
keys, `HandshakeClosedOnce` from `Following`, `RepeatedFramesHarmless` from what a
frame implies about the client. A shell writes during the handshake, so `WritersWait` is false of
it: `Handshake_shell.cfg`.

**SshDirect.** For any sessions, keys, options and contents of `known_hosts`: `TypeCorrect`,
`KnownHostsAreKept`, `SessionsEndProperly`, `FileGrowsByConsent`. The invariant is one conjunction
per session: a user is asked only when the file read had no key of the host
(`Asking`), authentication begins under a recorded key (`Guarded`), the methods are the ephemeral key alone
or include the password (`Built`), and a password that is on trial or counts as refused has been
asked for (`Offering`), so that without an ephemeral key a session is turned away behind a password or where the host lists
none. A session about to close has told the agent or lost its connection, and a channel is closed by nobody else (`Ending`).
A session reads the file once and judges by that
snapshot, so no other session disturbs any of them; that is why they hold for any number of
sessions although the file is shared without a lock.

**SsoLogin.** For any invocations, configuration file, intervals, deadline and
lifetimes: `LoginTypeCorrect`, with the fact that an invocation past its
configuration has a cache file; `PollsKeepPace`, from `Paced`: the interval of
`pollCreateToken` is at least what the server has asked for by now, and the end
of a sleep is at least that far from the server's last answer, so `now` having
reached that end is enough. The interval alone is not inductive, because a slow-down
raises both sides at once. `OnlyOthersSpoilTheCache`, from `Owned`: between
truncation and writing an undisturbed file is empty and still linked, afterwards it is
the login's own token, which can be decoded. It assumes that no login is
named like one of the contents a file has without one (`SsoAssumption`).

**SshCompat.** For any finite set of instances, any meaning of the names and any
number of faults: `NamesResolveInOrder`, from `ResolutionInv`. While nothing has failed,
the place in the chain says which meanings the name does not have (`NothingBefore`); after a
fault only what the name means at all is left to show. For command lines of any length and
any arguments that `Shape` describes: `LineMeansWhatItSays`, from `ParseInv`. `ArgsUpTo` claims
of the arguments in front of `next` what `ArgsAsWritten` claims of the whole line. That a
position holds a value depends on the length of the run of value flags in front of it, so
`InFront` also says that `next` is not such a position; with it every action extends
the claim by the one or two arguments it takes.

For every configuration file and host, of any length: `ConfigReadInOrder`. What the recursive
functions of `SshConfigFile` compute is shown by induction over a set of numbers: a number up to
the length of the data that is missing from the set would have a least one, whose predecessor is in
it (`UpTo`, `LeastIsIn`). `Places` holds the places from which the rest of the host can be cut
into pieces that the rest of the pattern takes, and so `GlobsDenote`. After each line the last block
of `Scanned` is the section the line stands in, the number of blocks is the number of `Host` lines so far,
and a block holds, for each keyword, the first line of its section that sets it (`ScanIsSound`,
`SectionsLie`, `ValuesAreFirst`); of the blocks that take the host, the first with a value decides
(`FirstCarrierCounts`). `OptionsTakeEffectInOrder` puts this together with `LineMeansWhatItSays`: the inductive
invariant is `ParseInv` and `OptionsInv`, that the options are what the code merges from the positions of the line (`OptionsAsMerged`)
from the moment they are merged, and that `home` is a configuration file, which every
change of it keeps. Both are proved of what the code does (`LineAsWritten`, `AsMerged`), without the exceptions of the
properties, which follow.

`UpdatesKeepOthers` is an invariant of the whole history: `UpdateInv` holds that a sound file agrees with `since`, and that
the update under way started from a file that did. One completed update keeps it (`UpsertIsGood`): the
hosts that none of the added lines takes become fewer by one line (`OneMoreHost`), and for the others the new file
says what the old one did; a broken update and an edit between clear `sound`, an edit else starts anew. In a tidy file the entries for
the host lie apart, so the lines the update keeps are those in no entry (`KeptPicks`, `LeftStays`); a line that
stays keeps the head of its section and what stands between the two, and counts for another host
exactly if it did before (`StayingCounts`); a line of an old entry or of the new one counts for
none (`EntryCountsNot`, `AddedCountsNot`). So the first line that counts is the same one. What is left in front
of the new entry holds no entry for its host (`OneEntry`), and so a second update takes out just
that entry and puts it back (`LeftAgain`). The first attempt at this proof failed for a good reason: `Tidy` had
let through a marker directly above another one and an indented `Host` line behind an entry, in which the update
does harm.

The assumptions say that instances are
finite and differ from the name of an address that is no instance (`ResolutionAssumption`),
that command lines are made of the arguments described (`CompatAssumption`), and
which flags take a value (`ArgumentsAssumption`); that no keyword is the name of a section or none
(`ConfigAssumption`); and that the settings a session reads are among the keywords and `None` is no string
(`CompatAssumption`).

Only model-checked: liveness, because TLAPS proves nothing about fairness or `ENABLED`;
and the types of `BasicForward`, whose other
properties are liveness. Every other safety property of a passing run is stated by a theorem. The
induction theorems of the library, which take an operator, are not used: the provers cannot instantiate them.

## Not modelled, and the plan

`PROJECT.json` lists every component. What the models leave out of the components
they cover, and what is planned:

1. What `BasicForward` keeps besides its types (one client at a time holds the channel, the
   listener is closed by the time the session returns), checked and proved.
2. Additions to the multiplexed sessions: the two copies of `handleMuxConnection`, and
   the signal handler, which keeps the first data channel after a reconnection
   (`port_forwarding.go:64`).
3. `ShellSession`'s error channel, closed while the stdin goroutine may still send on it
   (`shell.go:50`), and its signal registration.
4. The reader's own write through the window during a shell's handshake, as a thread of
   `Outbound`.

The two version comparisons, the upload throttle and the message codec are pure
functions with unit tests; they keep no state.

Not planned: the AWS calls, the terminal, the Windows RDP client, the plugin
wrapper, the websocket, smux and SSH libraries, and AES-GCM, which are external
code or plain I/O.
