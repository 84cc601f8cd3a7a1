-------------------------- MODULE SsoLogin_proofs --------------------------
(***************************************************************************)
(* Proofs about the SSO login, for any number of logins and logouts, any   *)
(* configuration file and any intervals, deadline and token lifetimes.     *)
(***************************************************************************)
EXTENDS SsoLogin, TLAPS

\* An invocation past its configuration has a cache file.
Placed == \A p \in Procs : pc[p] \notin {"start", "badConfig"} => path[p] \in Paths

\* The sleep is at least what the server asked for by now, counted from its last
\* answer, and time does not pass over its end.
Paced ==
  \A p \in Logins :
    /\ pc[p] \in {"poll", "sleep"} => interval[p] >= pace[p]
    /\ pc[p] = "sleep" => now <= wake[p] /\ wake[p] >= answered[p] + pace[p]

\* A login that is writing holds a token of its own; as long as nobody disturbs
\* it the file is what it made of it.
Owned ==
  \A p \in Logins :
    /\ pc[p] \in {"truncate", "write", "reread"} => token[p].by = p
    /\ pc[p] = "write" /\ p \notin disturbed => linked[p] /\ cache[path[p]] = Empty
    /\ pc[p] = "reread" /\ p \notin disturbed => cache[path[p]] = token[p]
    /\ pc[p] = "unreadable" => p \in disturbed

---------------------------------------------------------------------------
LEMMA TokensTyped ==
  /\ {Absent, Empty, Torn, Earlier, NoToken} \subseteq Tokens
  /\ \A p \in Logins, e \in Nat : Token(p, e) \in Tokens
BY DEF Absent, Empty, Torn, Earlier, NoToken, Token, Tokens, None

LEMMA InitTyped == Init => TypeOK /\ Placed
<1> SUFFICES ASSUME Init PROVE TypeOK /\ Placed
  OBVIOUS
<1>1. cache \in [Paths -> Tokens] /\ token \in [Logins -> Tokens]
  BY TokensTyped DEF Init
<1>2. pc \in [Procs -> {"start"}] /\ path \in [Procs -> {None}]
  BY DEF Init
<1>3. {interval, deadline, wake, pace, answered} \subseteq [Logins -> Nat]
  BY DEF Init
<1>4. linked \in [Logins -> BOOLEAN] /\ approval \in [Logins -> {"none"}]
  BY DEF Init
<1> QED
  BY <1>1, <1>2, <1>3, <1>4 DEF Init, TypeOK, Placed, Procs, Outcomes

\* The intervals of pollCreateToken.
LEMMA Lengthening ==
  ASSUME NEW i \in Nat, NEW slow \in BOOLEAN
  PROVE  /\ Lengthened(i, slow) \in Nat
         /\ SleepPerCycle(i) \in Nat /\ SleepPerCycle(i) >= i
BY SsoAssumption DEF Lengthened, SleepPerCycle

LEMMA TypeStep ==
  ASSUME TypeOK, Placed, [Next]_vars
  PROVE  TypeOK' /\ Placed'
<1> USE TypeOK DEF TypeOK
<1> USE DEF Placed, fileVars, pollVars, serverVars, Goto, Procs
<1>1. CASE UNCHANGED vars
  BY <1>1 DEF vars
<1>2. CASE Tick
  BY <1>2 DEF Tick
<1>3. ASSUME NEW p \in Procs, Step(p) PROVE TypeOK' /\ Placed'
  <2>1. CASE \E name \in Profiles : ReadConfig(p, name)
    <3>1. PICK name \in Profiles : ReadConfig(p, name)
      BY <2>1
    <3>2. CASE name \in ValidProfiles
      <4>1. CacheFilePath[name] \in Paths
        BY <3>2 DEF Paths
      <4> QED
        BY <3>1, <3>2, <4>1 DEF ReadConfig, Outcomes, Procs
    <3>3. CASE name \notin ValidProfiles
      BY <3>1, <3>3 DEF ReadConfig, Outcomes
    <3> QED
      BY <3>2, <3>3
  <2>2. CASE p \in Logouts /\ RemoveFile(p)
    <3>1. pc[p] = "remove" /\ path[p] \in Paths
      BY <2>2 DEF RemoveFile, Outcomes
    <3>2. cache' \in [Paths -> Tokens] /\ linked' \in [Logins -> BOOLEAN]
      BY <2>2, TokensTyped DEF RemoveFile
    <3>3. disturbed' \subseteq Logins
      BY <2>2 DEF RemoveFile, Using
    <3> QED
      BY <2>2, <3>1, <3>2, <3>3 DEF RemoveFile, Outcomes
  <2>3. CASE p \in Logins /\ \E force \in BOOLEAN : CheckCache(p, force)
    <3>1. pc[p] = "check" /\ path[p] \in Paths
      BY <2>3 DEF CheckCache, Outcomes
    <3>2. cache[path[p]] \in Tokens
      BY <3>1
    <3>3. /\ token' \in [Logins -> Tokens]
          /\ Goto(p, "ok") \/ Goto(p, "register")
          /\ UNCHANGED <<now, fileVars, path, pollVars, serverVars>>
      BY <2>3, <3>2 DEF CheckCache, Held
    <3> QED
      BY <2>3, <3>1, <3>3 DEF Outcomes
  <2>4. CASE p \in Logins /\ \E i \in Intervals : StartPolling(p, i)
    <3>1. PICK i \in Intervals : StartPolling(p, i)
      BY <2>4
    <3>2. i \in Nat /\ SleepPerCycle(i) \in Nat /\ now + Timeout \in Nat
      BY SsoAssumption DEF SleepPerCycle
    <3>3. {interval', deadline', wake', pace', answered'} \subseteq [Logins -> Nat]
      BY <2>4, <3>1, <3>2 DEF StartPolling
    <3> QED
      BY <2>4, <3>1, <3>3 DEF StartPolling
  <2>5. CASE p \in Logins /\ (FlowFails(p) \/ PollAgain(p))
    BY <2>5 DEF FlowFails, PollAgain, Outcomes
  <2>6. ASSUME p \in Logins, NEW CONSTANT place \in {"truncate", "flowFailed"}, pc[p] = "poll",
               LeavesPoll(p, place), token' \in [Logins -> Tokens],
               UNCHANGED <<now, fileVars, path>>
        PROVE  TypeOK' /\ Placed'
    <3>1. {interval', deadline', wake', pace', answered'} \subseteq [Logins -> Nat]
      BY <2>6 DEF LeavesPoll
    <3> QED
      BY <2>6, <3>1 DEF LeavesPoll, Outcomes
  <2>7. CASE p \in Logins /\ \E life \in Lifetimes : TokenGranted(p, life)
    <3>1. PICK life \in Lifetimes : TokenGranted(p, life)
      BY <2>7
    <3>2. now + life \in Nat
      BY SsoAssumption
    <3>3. token' \in [Logins -> Tokens]
      BY <2>7, <3>1, <3>2, TokensTyped DEF TokenGranted
    <3> QED
      BY <2>6, <2>7, <3>1, <3>3 DEF TokenGranted
  <2>8. CASE p \in Logins /\ PollFails(p)
    BY <2>6, <2>8 DEF PollFails
  <2>9. CASE p \in Logins /\ \E slow \in BOOLEAN : StillPending(p, slow)
    <3>1. PICK slow \in BOOLEAN : StillPending(p, slow)
      BY <2>9
    <3> DEFINE i == Lengthened(interval[p], slow)
    <3>2. i \in Nat
      BY <2>9, Lengthening
    <3>3. CASE PastDeadline(p, i)
      BY <2>6, <2>9, <3>1, <3>3 DEF StillPending
    <3>4. CASE ~PastDeadline(p, i)
      <4> HIDE DEF i
      <4>1. /\ pc[p] = "poll" /\ Goto(p, "sleep")
            /\ interval' = [interval EXCEPT ![p] = i]
            /\ wake' = [wake EXCEPT ![p] = now + i]
            /\ pace' = [pace EXCEPT ![p] = IF slow THEN @ + SlowDown ELSE @]
            /\ answered' = [answered EXCEPT ![p] = now]
            /\ UNCHANGED <<deadline, approval, now, fileVars, path, token>>
        BY <3>1, <3>4 DEF StillPending, i
      <4>2. now + i <= deadline[p]
        BY <2>9, <3>2, <3>4 DEF PastDeadline
      <4>3. {interval', deadline', wake', pace', answered'} \subseteq [Logins -> Nat]
        BY <2>9, <3>2, <4>1, SsoAssumption
      <4> QED
        BY <2>9, <4>1, <4>2, <4>3
    <3> QED
      BY <3>3, <3>4
  <2>10. CASE p \in Logins /\ Truncate(p)
    BY <2>10, TokensTyped DEF Truncate, Truncated, Using
  <2>11. CASE p \in Logins /\ WriteBytes(p)
    <3>1. cache' \in [Paths -> Tokens] /\ disturbed' \subseteq Logins
      BY <2>11, TokensTyped DEF WriteBytes, Using
    <3> QED
      BY <2>11, <3>1 DEF WriteBytes
  <2>12. CASE p \in Logins /\ WriteFails(p)
    <3>1. /\ cache' \in [Paths -> Tokens] /\ disturbed' \subseteq Logins
          /\ linked' = linked /\ pc[p] \in {"truncate", "write"}
      BY <2>12, TokensTyped DEF WriteFails, Using
    <3> QED
      BY <2>12, <3>1 DEF WriteFails, Outcomes
  <2>13. CASE p \in Logins /\ Reread(p)
    <3>1. pc[p] = "reread" /\ path[p] \in Paths
      BY <2>13 DEF Reread, Outcomes
    <3>2. token' \in [Logins -> Tokens]
      BY <2>13, <3>1 DEF Reread, Held
    <3> QED
      BY <2>13, <3>1, <3>2 DEF Reread, Outcomes
  <2> QED
    BY <1>3, <2>1, <2>2, <2>3, <2>4, <2>5, <2>7, <2>8, <2>9, <2>10, <2>11, <2>12, <2>13
       DEF Step, Poll
<1>4. ASSUME NEW p \in Logins, UserDecides(p) PROVE TypeOK' /\ Placed'
  BY <1>4 DEF UserDecides
<1> QED
  BY <1>1, <1>2, <1>3, <1>4 DEF Next

---------------------------------------------------------------------------
LEMMA PacedStep ==
  ASSUME TypeOK, Paced, [Next]_vars
  PROVE  /\ Paced'
         /\ \A p \in Logins :
              pc[p] = "sleep" /\ pc'[p] = "poll" => now >= answered[p] + pace[p] /\ now <= deadline[p]
<1> DEFINE OnTime(q) == now >= answered[q] + pace[q] /\ now <= deadline[q]
           Claim == Paced' /\ \A q \in Logins : pc[q] = "sleep" /\ pc'[q] = "poll" => OnTime(q)
<1> SUFFICES Claim
  OBVIOUS
<1> USE TypeOK DEF TypeOK
<1> USE Paced DEF Paced, fileVars, pollVars, serverVars, Goto, Procs
\* Steps that change nothing of the poll of a login that goes on polling.
<1>1. ASSUME UNCHANGED <<now, pollVars, serverVars>>,
             \A q \in Logins : pc'[q] \in {"poll", "sleep"} => pc'[q] = pc[q]
      PROVE  Claim
  BY <1>1
<1>2. CASE UNCHANGED vars
  BY <1>1, <1>2 DEF vars
<1>3. CASE Tick
  BY <1>3 DEF Tick
<1>4. ASSUME NEW p \in Procs, Step(p) PROVE Claim
  <2>1. CASE \E name \in Profiles : ReadConfig(p, name)
    <3>1. PICK place \in {"check", "remove", "badConfig"} : Goto(p, place)
      BY <2>1 DEF ReadConfig
    <3> QED
      BY <1>1, <2>1, <3>1 DEF ReadConfig
  <2>2. CASE p \in Logouts /\ RemoveFile(p)
    BY <1>1, <2>2 DEF RemoveFile
  <2>3. CASE p \in Logins /\ \E force \in BOOLEAN : CheckCache(p, force)
    BY <1>1, <2>3 DEF CheckCache
  <2>4. CASE p \in Logins /\ \E i \in Intervals : StartPolling(p, i)
    <3>1. PICK i \in Intervals : StartPolling(p, i)
      BY <2>4
    <3>2. i \in Nat /\ SleepPerCycle(i) \in Nat /\ SleepPerCycle(i) >= i
      BY SsoAssumption DEF SleepPerCycle
    <3> QED
      BY <2>4, <3>1, <3>2 DEF StartPolling
  <2>5. CASE p \in Logins /\ FlowFails(p)
    BY <1>1, <2>5 DEF FlowFails
  <2>6. ASSUME p \in Logins, NEW CONSTANT place \in {"truncate", "flowFailed"}, pc[p] = "poll",
               LeavesPoll(p, place), UNCHANGED now
        PROVE  Claim
    BY <2>6 DEF LeavesPoll
  <2>7. CASE p \in Logins /\ \E life \in Lifetimes : TokenGranted(p, life)
    BY <2>6, <2>7 DEF TokenGranted
  <2>8. CASE p \in Logins /\ PollFails(p)
    BY <2>6, <2>8 DEF PollFails
  <2>9. CASE p \in Logins /\ \E slow \in BOOLEAN : StillPending(p, slow)
    <3>1. PICK slow \in BOOLEAN : StillPending(p, slow)
      BY <2>9
    <3> DEFINE i == Lengthened(interval[p], slow)
    <3>2. CASE PastDeadline(p, i)
      BY <2>6, <2>9, <3>1, <3>2 DEF StillPending
    <3>3. CASE ~PastDeadline(p, i)
      <4>1. /\ i \in Nat
            /\ i >= IF slow THEN pace[p] + SlowDown ELSE pace[p]
        BY <2>9, <3>1, SsoAssumption DEF StillPending, Lengthened
      <4>2. /\ pc[p] = "poll" /\ Goto(p, "sleep")
            /\ interval' = [interval EXCEPT ![p] = i]
            /\ wake' = [wake EXCEPT ![p] = now + i]
            /\ pace' = [pace EXCEPT ![p] = IF slow THEN @ + SlowDown ELSE @]
            /\ answered' = [answered EXCEPT ![p] = now]
            /\ UNCHANGED <<deadline, now>>
        BY <3>1, <3>3 DEF StillPending
      <4> HIDE DEF i
      <4> QED
        BY <2>9, <4>1, <4>2, SsoAssumption
    <3> QED
      BY <3>2, <3>3
  <2>10. CASE p \in Logins /\ PollAgain(p)
    BY <2>10 DEF PollAgain
  <2>11. CASE p \in Logins /\ (Truncate(p) \/ WriteBytes(p) \/ WriteFails(p))
    <3>1. PICK place \in {"write", "reread", "writeFailed"} : Goto(p, place)
      BY <2>11 DEF Truncate, WriteBytes, WriteFails
    <3>2. UNCHANGED <<now, pollVars, serverVars>>
      BY <2>11 DEF Truncate, WriteBytes, WriteFails
    <3> QED
      BY <1>1, <3>1, <3>2
  <2>12. CASE p \in Logins /\ Reread(p)
    <3>1. PICK place \in {"ok", "refused", "unreadable"} : Goto(p, place)
      BY <2>12 DEF Reread
    <3> QED
      BY <1>1, <2>12, <3>1 DEF Reread
  <2> QED
    BY <1>4, <2>1, <2>2, <2>3, <2>4, <2>5, <2>7, <2>8, <2>9, <2>10, <2>11, <2>12
       DEF Step, Poll
<1>5. ASSUME NEW p \in Logins, UserDecides(p) PROVE Claim
  BY <1>5 DEF UserDecides
<1> QED
  BY <1>2, <1>3, <1>4, <1>5 DEF Next

\* A file that a login of this run wrote can be decoded.
LEMMA OwnReadable ==
  ASSUME TypeOK, NEW p \in Logins, path[p] \in Paths, cache[path[p]] = token[p], token[p].by = p
  PROVE  Readable(p)
BY SsoAssumption DEF Readable, Held, Absent, Empty, Torn, Token

LEMMA OwnedStep ==
  ASSUME TypeOK, Placed, Owned, [Next]_vars
  PROVE  Owned'
<1> USE TypeOK DEF TypeOK
<1> USE Owned, Placed DEF Owned, Placed, fileVars, pollVars, serverVars, Goto, Procs, Outcomes
\* Steps that touch neither a file nor a login that is writing one.
<1>1. ASSUME UNCHANGED fileVars,
             \A q \in Logins :
               pc'[q] \in {"truncate", "write", "reread", "unreadable"} =>
                 pc'[q] = pc[q] /\ token'[q] = token[q] /\ path'[q] = path[q]
      PROVE  Owned'
  BY <1>1
<1>2. CASE UNCHANGED vars
  BY <1>1, <1>2 DEF vars
<1>3. CASE Tick
  BY <1>1, <1>3 DEF Tick
<1>4. ASSUME NEW p \in Procs, Step(p) PROVE Owned'
  <2>1. CASE \E name \in Profiles : ReadConfig(p, name)
    <3>1. PICK place \in {"check", "remove", "badConfig"} : Goto(p, place)
      BY <2>1 DEF ReadConfig
    <3>2. \A q \in Logins : q # p => path'[q] = path[q]
      BY <2>1 DEF ReadConfig
    <3> QED
      BY <1>1, <2>1, <3>1, <3>2 DEF ReadConfig
  <2>2. CASE p \in Logouts /\ RemoveFile(p)
    <3>1. PICK place \in {"notLoggedIn", "ok"} : Goto(p, place)
      BY <2>2 DEF RemoveFile
    <3>2. path[p] \in Paths
      BY <2>2 DEF RemoveFile
    <3>3. ASSUME NEW q \in Logins, pc[q] \in {"write", "reread"}, q \notin disturbed'
          PROVE  /\ q \notin disturbed /\ path[q] # path[p]
                 /\ linked'[q] = linked[q] /\ cache'[path[q]] = cache[path[q]]
      BY <2>2, <3>2, <3>3 DEF RemoveFile, Using
    <3> QED
      BY <2>2, <3>1, <3>3 DEF RemoveFile
  <2>3. CASE p \in Logins /\ \E force \in BOOLEAN : CheckCache(p, force)
    <3>1. PICK place \in {"ok", "register"} : Goto(p, place)
      BY <2>3 DEF CheckCache
    <3>2. \A q \in Logins : q # p => token'[q] = token[q]
      BY <2>3 DEF CheckCache
    <3> QED
      BY <1>1, <2>3, <3>1, <3>2 DEF CheckCache
  <2>4. CASE p \in Logins /\ \E i \in Intervals : StartPolling(p, i)
    BY <1>1, <2>4 DEF StartPolling
  <2>5. CASE p \in Logins /\ (FlowFails(p) \/ PollAgain(p))
    BY <1>1, <2>5 DEF FlowFails, PollAgain
  <2>6. CASE p \in Logins /\ \E life \in Lifetimes : TokenGranted(p, life)
    <3>1. token'[p].by = p /\ Goto(p, "truncate")
      BY <2>6 DEF TokenGranted, LeavesPoll, Token
    <3>2. \A q \in Logins : q # p => token'[q] = token[q]
      BY <2>6 DEF TokenGranted
    <3> QED
      BY <2>6, <3>1, <3>2 DEF TokenGranted
  <2>7. CASE p \in Logins /\ PollFails(p)
    BY <1>1, <2>7 DEF PollFails, LeavesPoll
  <2>8. CASE p \in Logins /\ \E slow \in BOOLEAN : StillPending(p, slow)
    <3>1. PICK place \in {"sleep", "flowFailed"} : Goto(p, place)
      BY <2>8 DEF StillPending, LeavesPoll
    <3>2. UNCHANGED <<fileVars, path, token>>
      BY <2>8 DEF StillPending
    <3> QED
      BY <1>1, <2>8, <3>1, <3>2
  <2>9. CASE p \in Logins /\ Truncate(p)
    <3>1. pc[p] = "truncate" /\ path[p] \in Paths
      BY <2>9 DEF Truncate
    <3>2. cache'[path[p]] = Empty /\ linked'[p] = TRUE
      BY <2>9, <3>1 DEF Truncate, Truncated
    <3>3. ASSUME NEW q \in Logins, q # p, pc[q] \in {"write", "reread"}, q \notin disturbed'
          PROVE  /\ q \notin disturbed /\ linked'[q] = linked[q]
                 /\ cache'[path[q]] = cache[path[q]]
      BY <2>9, <3>1, <3>3 DEF Truncate, Using
    <3> QED
      BY <2>9, <3>1, <3>2, <3>3 DEF Truncate
  <2>10. CASE p \in Logins /\ WriteBytes(p)
    <3>1. pc[p] = "write" /\ path[p] \in Paths /\ p \in Logins
      BY <2>10 DEF WriteBytes
    <3>2. p \notin disturbed' => cache'[path[p]] = token[p]
      BY <2>10, <3>1 DEF WriteBytes
    <3>3. ASSUME NEW q \in Logins, q # p, pc[q] \in {"write", "reread"}, q \notin disturbed'
          PROVE  /\ q \notin disturbed /\ cache'[path[q]] = cache[path[q]]
      BY <2>10, <3>1, <3>3 DEF WriteBytes, Using
    <3> QED
      BY <2>10, <3>1, <3>2, <3>3 DEF WriteBytes
  <2>11. CASE p \in Logins /\ WriteFails(p)
    <3>1. /\ pc[p] \in {"truncate", "write"} /\ path[p] \in Paths
          /\ Goto(p, "writeFailed") /\ UNCHANGED <<linked, path, token>>
      BY <2>11 DEF WriteFails
    <3>2. disturbed \subseteq disturbed'
      BY <2>11 DEF WriteFails
    <3>3. ASSUME NEW q \in Logins, q # p, pc[q] \in {"write", "reread"}, q \notin disturbed'
          PROVE  cache'[path[q]] = cache[path[q]]
      BY <2>11, <3>1, <3>3 DEF WriteFails, Using
    <3> QED
      BY <2>11, <3>1, <3>2, <3>3
  <2>12. CASE p \in Logins /\ Reread(p)
    <3>1. pc[p] = "reread" /\ path[p] \in Paths
      BY <2>12 DEF Reread
    <3>2. p \in disturbed \/ Readable(p)
      BY <2>12, <3>1, OwnReadable
    <3>3. PICK place \in {"ok", "refused", "unreadable"} : Goto(p, place)
      BY <2>12 DEF Reread
    <3>4. pc'[p] = "unreadable" => p \in disturbed
      BY <2>12, <3>1, <3>2 DEF Reread
    <3>5. \A q \in Logins : q # p => token'[q] = token[q]
      BY <2>12 DEF Reread
    <3> QED
      BY <2>12, <3>1, <3>3, <3>4, <3>5 DEF Reread
  <2> QED
    BY <1>4, <2>1, <2>2, <2>3, <2>4, <2>5, <2>6, <2>7, <2>8, <2>9, <2>10, <2>11, <2>12
       DEF Step, Poll
<1>5. ASSUME NEW p \in Logins, UserDecides(p) PROVE Owned'
  BY <1>1, <1>5 DEF UserDecides
<1> QED
  BY <1>2, <1>3, <1>4, <1>5 DEF Next

---------------------------------------------------------------------------
\* Every variable keeps its type, and a login never sleeps towards a moment
\* past its deadline: pollCreateToken gives up instead of sleeping over it.
THEOREM LoginTypeCorrect == Spec => []TypeOK
<1>1. Init => TypeOK /\ Placed
  BY InitTyped
<1>2. TypeOK /\ Placed /\ [Next]_vars => TypeOK' /\ Placed'
  BY TypeStep
<1> QED
  BY <1>1, <1>2, PTL DEF Spec

\* The step from a sleep to the next poll comes no sooner after the server's last
\* answer than the server has asked for, slow-downs included, and within the
\* deadline: what the loop of pollCreateToken owes the device-code protocol.
THEOREM PollsKeepPace == Spec => PollsPaced
<1> DEFINE PacedCall(p) ==
      pc[p] = "sleep" /\ pc'[p] = "poll" => now >= answered[p] + pace[p] /\ now <= deadline[p]
<1>1. Init => Paced
  BY DEF Init, Paced, Procs
<1>2. TypeOK /\ Paced /\ [Next]_vars => Paced' /\ \A p \in Logins : PacedCall(p)
  BY PacedStep
<1>3. TypeOK /\ Paced /\ [Next]_vars => [\A p \in Logins : PacedCall(p)]_vars
  BY <1>2
<1> QED
  BY <1>1, <1>2, <1>3, LoginTypeCorrect, PTL DEF Spec, PollsPaced

\* What a login reads back of its cache file is the token it wrote, whatever the
\* file held before, unless another invocation truncated, wrote or removed that
\* file under it: writeCacheFile and the second getAwsCredsFromCache of SSOLogin.
THEOREM OnlyOthersSpoilTheCache == Spec => []OnlyOthersSpoil
<1>1. Init => TypeOK /\ Placed /\ Owned
  BY InitTyped DEF Init, Owned, Procs
<1>2. TypeOK /\ Placed /\ Owned /\ [Next]_vars => TypeOK' /\ Placed' /\ Owned'
  BY TypeStep, OwnedStep
<1>3. Owned => OnlyOthersSpoil
  BY DEF Owned, OnlyOthersSpoil, Held
<1> QED
  BY <1>1, <1>2, <1>3, PTL DEF Spec
=============================================================================
