------------------------------ MODULE SsoLogin ------------------------------
(***************************************************************************)
(* SSOLogin and SSOLogout (session/sso.go): several invocations of the     *)
(* program, each a process, that share one AWS configuration file and the  *)
(* token cache under ~/.aws/sso/cache.  The device-code poll runs against  *)
(* a clock; the cache file is truncated and written in two steps, because  *)
(* os.WriteFile is not atomic.                                             *)
(***************************************************************************)
EXTENDS Naturals, SequencesExt

CONSTANTS
  Logins, Logouts,   \* invocations
  Config,            \* the configuration file: a sequence of sections
  Profiles,          \* profile names the invocations are given
  Keys,              \* the keys of a section the code reads
  Required,          \* those validate asks for
  Intervals,         \* intervals the server may ask for, 0 for none
  DefaultInterval,   \* sleepPerCycle where the server asks for none
  SlowDown,          \* what a SlowDownException adds
  Timeout,           \* LoginTimeout
  Lifetimes,         \* how long a token may be valid
  MaxTime            \* bound: time passes beyond it only while a login sleeps

ASSUME SsoAssumption ==
  /\ Intervals \subseteq Nat /\ Lifetimes \subseteq Nat
  /\ {DefaultInterval, SlowDown} \subseteq Nat \ {0}
  /\ {Timeout, MaxTime} \subseteq Nat
  /\ Logins \intersect {"none", "earlier", "absent", "empty", "torn"} = {}

VARIABLES
  now,
  cache,      \* path -> what the file holds
  pc,         \* invocation -> where it is
  path,       \* invocation -> its cacheFilePath
  interval,   \* login -> pollCreateToken's interval
  deadline,   \* login -> pollCreateToken's deadline
  wake,       \* login -> the end of its sleep
  token,      \* login -> the token it holds or has read
  linked,     \* login -> its open cache file still has its name
  approval,   \* login -> what the user has decided in the browser
  pace,       \* server: the interval it has asked of a login by now
  answered,   \* server: when it last answered a login
  disturbed   \* history: logins whose cache file another one touched under them

serverVars == <<approval, pace, answered>>
pollVars == <<interval, deadline, wake>>
fileVars == <<cache, linked, disturbed>>
vars == <<now, fileVars, pc, path, pollVars, token, serverVars>>

Procs == Logins \union Logouts
None == "none"

\* What a cache file holds: a token, or nothing that can be decoded.
Token(by, expires) == [by |-> by, expires |-> expires]
Absent == Token("absent", 0)     \* no file
Empty == Token("empty", 0)       \* truncated
Torn == Token("torn", 0)         \* written in part, or by two writers
Earlier == Token("earlier", 1)   \* left by an earlier login
NoToken == Token(None, 0)
Outcomes == {"ok", "badConfig", "flowFailed", "writeFailed", "unreadable", "refused", "notLoggedIn"}

---------------------------------------------------------------------------
\* The configuration file.

\* The first section of this type and name, or NoSection.
NoSection == [k \in Keys |-> ""]
Sections(type, name) ==
  SelectSeq(Config, LAMBDA s : s.type = type /\ s.name = name)
FindIniSection(type, name) ==
  IF Sections(type, name) = <<>> THEN NoSection ELSE Head(Sections(type, name)).keys

\* The session's section, if it exists, overrides region and start URL even by
\* nothing; the default section fills in the region.
GetConfigProfile(name) ==
  LET own == FindIniSection("profile", name)
      session == own["sso_session"]
      shared == IF session # "" /\ Sections("sso-session", session) # <<>>
                THEN FindIniSection("sso-session", session) ELSE own
  IN [own EXCEPT !["sso_region"] = shared["sso_region"],
                 !["sso_start_url"] = shared["sso_start_url"],
                 !["region"] = IF @ = "" THEN FindIniSection("default", "")["region"] ELSE @]

\* The names whose profile has what validate asks for.
ValidProfiles == {name \in Profiles :
                    /\ Sections("profile", name) # <<>>
                    /\ \A k \in Required : GetConfigProfile(name)[k] # ""}

\* The cache file's name is a digest of the session's name or the start URL.
CacheFilePath ==
  [name \in Profiles |-> LET p == GetConfigProfile(name)
    IN  IF p["sso_session"] # "" THEN p["sso_session"] ELSE p["sso_start_url"]]
Paths == {CacheFilePath[name] : name \in ValidProfiles}

Init ==
  /\ now = 0
  /\ cache \in [Paths -> {Absent, Torn, Earlier}]
  /\ pc = [p \in Procs |-> "start"]
  /\ path = [p \in Procs |-> None]
  /\ interval = [p \in Logins |-> 0]
  /\ deadline = [p \in Logins |-> 0]
  /\ wake = [p \in Logins |-> 0]
  /\ token = [p \in Logins |-> NoToken]
  /\ linked = [p \in Logins |-> FALSE]
  /\ approval = [p \in Logins |-> "none"]
  /\ pace = [p \in Logins |-> 0]
  /\ answered = [p \in Logins |-> 0]
  /\ disturbed = {}

Goto(p, place) == pc' = [pc EXCEPT ![p] = place]

ReadConfig(p, name) ==
  /\ pc[p] = "start"
  /\ IF name \in ValidProfiles
     THEN /\ path' = [path EXCEPT ![p] = CacheFilePath[name]]
          /\ Goto(p, IF p \in Logins THEN "check" ELSE "remove")
     ELSE /\ Goto(p, "badConfig")
          /\ UNCHANGED path
  /\ UNCHANGED <<now, fileVars, pollVars, token, serverVars>>

\* The library reads the cache file; a token that has expired cannot be
\* refreshed, because writeCacheFile keeps no refresh token.
Held(p) == cache[path[p]]
Readable(p) == Held(p) \notin {Absent, Empty, Torn}
Usable(p) == Readable(p) /\ now < Held(p).expires

\* getAwsCredsFromCache and getCallerID before the login; either may fail for
\* reasons of AWS's own; ForceLogin logs in whatever they say.
CheckCache(p, force) ==
  /\ pc[p] = "check"
  /\ \/ Usable(p) /\ ~force /\ Goto(p, "ok") /\ token' = [token EXCEPT ![p] = Held(p)]
     \/ Goto(p, "register") /\ UNCHANGED token
  /\ UNCHANGED <<now, fileVars, path, pollVars, serverVars>>

---------------------------------------------------------------------------
\* ssoLoginFlow and pollCreateToken.

SleepPerCycle(i) == IF i > 0 THEN i ELSE DefaultInterval

\* RegisterClient, StartDeviceAuthorization and the browser, and the first poll.
StartPolling(p, i) ==
  /\ pc[p] = "register"
  /\ Goto(p, "poll")
  /\ interval' = [interval EXCEPT ![p] = SleepPerCycle(i)]
  /\ deadline' = [deadline EXCEPT ![p] = now + Timeout]
  /\ approval' = [approval EXCEPT ![p] = "waiting"]
  /\ pace' = [pace EXCEPT ![p] = i]
  /\ UNCHANGED <<now, fileVars, path, wake, token, answered>>

FlowFails(p) ==
  /\ pc[p] = "register"
  /\ Goto(p, "flowFailed")
  /\ UNCHANGED <<now, fileVars, path, pollVars, token, serverVars>>

UserDecides(p) ==
  /\ approval[p] = "waiting"
  /\ \E d \in {"approved", "denied"} : approval' = [approval EXCEPT ![p] = d]
  /\ UNCHANGED <<now, fileVars, pc, path, pollVars, token, pace, answered>>

\* pollCreateToken returns, and its locals with it.
LeavesPoll(p, place) ==
  /\ Goto(p, place)
  /\ interval' = [interval EXCEPT ![p] = 0]
  /\ deadline' = [deadline EXCEPT ![p] = 0]
  /\ wake' = [wake EXCEPT ![p] = 0]
  /\ approval' = [approval EXCEPT ![p] = "none"]
  /\ pace' = [pace EXCEPT ![p] = 0]
  /\ answered' = [answered EXCEPT ![p] = 0]

\* CreateToken returns a token.
TokenGranted(p, life) ==
  /\ pc[p] = "poll"
  /\ approval[p] = "approved"
  /\ token' = [token EXCEPT ![p] = Token(p, now + life)]
  /\ LeavesPoll(p, "truncate")
  /\ UNCHANGED <<now, fileVars, path>>

\* Bug: the sleep is not lengthened.
KeepsInterval(i, slow) == i

\* The interval after an answer that is not final.
Lengthened(i, slow) == IF slow THEN i + SlowDown ELSE i

\* Bug: the deadline is compared with nothing.
NeverPast(p, i) == FALSE

PastDeadline(p, i) == now + i > deadline[p]
\* AuthorizationPending or SlowDown: sleep, unless the sleep would outlast the
\* deadline.  The server counts what it asked for.
StillPending(p, slow) ==
  LET i == Lengthened(interval[p], slow) IN
  /\ pc[p] = "poll"
  /\ approval[p] = "waiting"
  /\ \/ PastDeadline(p, i) /\ LeavesPoll(p, "flowFailed")
     \/ /\ ~PastDeadline(p, i)
        /\ Goto(p, "sleep")
        /\ interval' = [interval EXCEPT ![p] = i]
        /\ wake' = [wake EXCEPT ![p] = now + i]
        /\ pace' = [pace EXCEPT ![p] = IF slow THEN @ + SlowDown ELSE @]
        /\ answered' = [answered EXCEPT ![p] = now]
        /\ UNCHANGED <<deadline, approval>>
  /\ UNCHANGED <<now, fileVars, path, token>>

\* Bug: any error is answered by another poll.
RetriesFailure(p) == pc[p] = "poll" /\ UNCHANGED vars

\* A denial, an expired code, a network failure: no retry.
PollFails(p) ==
  /\ pc[p] = "poll"
  /\ LeavesPoll(p, "flowFailed")
  /\ UNCHANGED <<now, fileVars, path, token>>

PollAgain(p) ==
  /\ pc[p] = "sleep"
  /\ now >= wake[p]
  /\ Goto(p, "poll")
  /\ UNCHANGED <<now, fileVars, path, pollVars, token, serverVars>>

---------------------------------------------------------------------------
\* writeCacheFile, and reading it back.

\* The logins between their truncation and their last read of this file.
Using(f) == {q \in Logins : path[q] = f /\ pc[q] \in {"write", "reread"}}

\* Bug: opened without O_TRUNC, a longer old content keeps its tail.
NotTruncated(f) == IF cache[f] = Absent THEN Empty ELSE cache[f]

\* os.OpenFile(O_WRONLY|O_CREATE|O_TRUNC).
Truncated(f) == Empty

Truncate(p) ==
  /\ pc[p] = "truncate"
  /\ cache' = [cache EXCEPT ![path[p]] = Truncated(path[p])]
  /\ linked' = [linked EXCEPT ![p] = TRUE]
  /\ disturbed' = (disturbed \ {p}) \union (Using(path[p]) \ {p})
  /\ Goto(p, "write")
  /\ UNCHANGED <<now, path, pollVars, token, serverVars>>

\* Writing over bytes that another invocation wrote meanwhile leaves the tail
\* of the longer ones; a file that was removed takes the bytes with it.
WriteBytes(p) ==
  /\ pc[p] = "write"
  /\ \/ ~linked[p] /\ UNCHANGED <<cache, disturbed>>
     \/ /\ linked[p]
        /\ \E longer \in BOOLEAN :
             cache' = [cache EXCEPT ![path[p]] =
                         IF longer /\ @ # Empty THEN Torn ELSE token[p]]
        /\ disturbed' = disturbed \union (Using(path[p]) \ {p})
  /\ Goto(p, "reread")
  /\ UNCHANGED <<now, linked, path, pollVars, token, serverVars>>

\* MkdirAll or the opening fails, or the write fails after some bytes.
WriteFails(p) ==
  /\ \/ pc[p] = "truncate" /\ UNCHANGED fileVars
     \/ /\ pc[p] = "write"
        /\ cache' = IF linked[p] THEN [cache EXCEPT ![path[p]] = Torn] ELSE cache
        /\ disturbed' = disturbed \union IF linked[p] THEN Using(path[p]) \ {p} ELSE {}
        /\ UNCHANGED linked
  /\ Goto(p, "writeFailed")
  /\ UNCHANGED <<now, path, pollVars, token, serverVars>>

\* getAwsCredsFromCache again; what getCallerID says only goes into the result.
Reread(p) ==
  /\ pc[p] = "reread"
  /\ \/ /\ Usable(p)
        /\ token' = [token EXCEPT ![p] = Held(p)]
        /\ Goto(p, "ok")
     \/ Readable(p) /\ Goto(p, "refused") /\ UNCHANGED token
     \/ ~Readable(p) /\ Goto(p, "unreadable") /\ UNCHANGED token
  /\ UNCHANGED <<now, fileVars, path, pollVars, serverVars>>

\* SSOLogout: the file is unlinked under whoever has it open.
RemoveFile(p) ==
  /\ pc[p] = "remove"
  /\ cache' = [cache EXCEPT ![path[p]] = Absent]
  /\ linked' = [q \in Logins |-> linked[q] /\ path[q] # path[p]]
  /\ disturbed' = disturbed \union Using(path[p])
  /\ Goto(p, IF Held(p) = Absent THEN "notLoggedIn" ELSE "ok")
  /\ UNCHANGED <<now, path, pollVars, token, serverVars>>

---------------------------------------------------------------------------
\* A sleep ends on time; calls of AWS and of the user take as long as they like.
Tick ==
  /\ \A p \in Logins : pc[p] = "sleep" => now < wake[p]
  /\ now < MaxTime \/ \E p \in Logins : pc[p] = "sleep"
  /\ now' = now + 1
  /\ UNCHANGED <<fileVars, pc, path, pollVars, token, serverVars>>

Poll(p) ==
  \/ \E life \in Lifetimes : TokenGranted(p, life)
  \/ \E slow \in BOOLEAN : StillPending(p, slow)
  \/ PollFails(p)

Step(p) ==
  \/ \E name \in Profiles : ReadConfig(p, name)
  \/ /\ p \in Logins
     /\ \/ \E force \in BOOLEAN : CheckCache(p, force)
        \/ \E i \in Intervals : StartPolling(p, i)
        \/ FlowFails(p) \/ Poll(p) \/ PollAgain(p)
        \/ Truncate(p) \/ WriteBytes(p) \/ WriteFails(p) \/ Reread(p)
  \/ p \in Logouts /\ RemoveFile(p)

Next == Tick \/ \E p \in Procs : Step(p) \/ (p \in Logins /\ UserDecides(p))

Spec == Init /\ [][Next]_vars

\* The program runs, AWS answers, time passes; no user has to decide.
FairSpec == Spec /\ WF_vars(Tick) /\ \A p \in Procs : WF_vars(Step(p))

---------------------------------------------------------------------------
\* Types; a login sleeps only towards a moment within its deadline.
Tokens == [by : Logins \union {None, "earlier", "absent", "empty", "torn"}, expires : Nat]
TypeOK ==
  /\ now \in Nat
  /\ cache \in [Paths -> Tokens]
  /\ pc \in [Procs -> {"start", "check", "register", "poll", "sleep", "truncate",
                       "write", "reread", "remove"} \union Outcomes]
  /\ path \in [Procs -> Paths \union {None}]
  /\ {interval, deadline, wake, pace, answered} \subseteq [Logins -> Nat]
  /\ token \in [Logins -> Tokens]
  /\ linked \in [Logins -> BOOLEAN]
  /\ approval \in [Logins -> {"none", "waiting", "approved", "denied"}]
  /\ disturbed \subseteq Logins
  /\ \A p \in Logins : pc[p] = "sleep" => wake[p] <= deadline[p]

\* pollCreateToken never polls faster than the server asked, slow-downs
\* included, and never after the login's deadline.
PollsPaced ==
  [][\A p \in Logins :
       pc[p] = "sleep" /\ pc'[p] = "poll" =>
         now >= answered[p] + pace[p] /\ now <= deadline[p]]_vars

\* A login that got its token and wrote it can read it back, whatever was in
\* the file before (a torn file included), unless another invocation truncated,
\* wrote or removed that file meanwhile.
OnlyOthersSpoil ==
  \A p \in Logins :
    /\ pc[p] = "unreadable" => p \in disturbed
    /\ pc[p] = "reread" /\ p \notin disturbed => Held(p) = token[p]

\* Every invocation ends, also when the user never answers: the deadline ends
\* the poll.
InvocationsEnd == \A p \in Procs : <>(pc[p] \in Outcomes)
=============================================================================
