-------------------------- MODULE SshDirect_proofs --------------------------
(***************************************************************************)
(* Theorems about SshDirect for every number of sessions, every set of     *)
(* host keys and every content of known_hosts.  A session only writes its  *)
(* own state and appends to the file, so the invariant is one per session. *)
(***************************************************************************)
EXTENDS SshDirect, SequenceTheorems, TLAPS

---------------------------------------------------------------------------
\* The authentication methods.

Lists ==
  {<<>>, <<"ephemeral">>, <<"password">>, <<"agent", "password">>,
   <<"keyFile", "password">>, <<"agent", "keyFile", "password">>}

LEMMA ListTypes == Lists \subseteq Seq(Methods)
BY DEF Lists, Methods

\* Concatenations of short lists.
LEMMA Joined ==
  ASSUME NEW x, NEW y
  PROVE  /\ <<>> \o <<x>> = <<x>>
         /\ <<x>> \o <<>> = <<x>>
         /\ <<x>> \o <<y>> = <<x, y>>
<1> DEFINE S == {x, y}
           s == <<x>> \o <<y>>
           t == <<x, y>>
<1>1. <<x>> \in Seq(S) /\ <<y>> \in Seq(S) /\ t \in Seq(S)
  OBVIOUS
<1>2. <<>> \o <<x>> = <<x>> /\ <<x>> \o <<>> = <<x>>
  BY <1>1, ConcatEmptySeq
<1>3. s \in Seq(S) /\ Len(s) = 2 /\ s[1] = x /\ s[2] = y
  BY <1>1, ConcatProperties
<1>4. Len(t) = 2 /\ t[1] = x /\ t[2] = y
  OBVIOUS
<1>5. s = t
  <2> HIDE DEF s, t, S
  <2>1. \A i \in 1..Len(s) : s[i] = t[i]
    BY <1>3, <1>4
  <2> QED
    BY <1>1, <1>3, <1>4, <2>1, SeqEqual
<1> QED
  BY <1>2, <1>5

LEMMA JoinedThree ==
  ASSUME NEW x, NEW y, NEW z
  PROVE  <<x, y>> \o <<z>> = <<x, y, z>>
<1> DEFINE S == {x, y, z}
           s == <<x, y>> \o <<z>>
           t == <<x, y, z>>
<1>1. <<x, y>> \in Seq(S) /\ <<z>> \in Seq(S) /\ t \in Seq(S)
  OBVIOUS
<1>2. s \in Seq(S) /\ Len(s) = 3 /\ s[1] = x /\ s[2] = y /\ s[3] = z
  BY <1>1, ConcatProperties
<1>3. Len(t) = 3 /\ t[1] = x /\ t[2] = y /\ t[3] = z
  OBVIOUS
<1>4. s = t
  <2> HIDE DEF s, t, S
  <2>1. \A i \in 1..Len(s) : s[i] = t[i]
    BY <1>2, <1>3
  <2> QED
    BY <1>1, <1>2, <1>3, <2>1, SeqEqual
<1> QED
  BY <1>4

\* buildSSHAuthMethods without an ephemeral key: the password, after what else there is.
Plain == {<<"password">>, <<"agent", "password">>, <<"keyFile", "password">>,
          <<"agent", "keyFile", "password">>}
HasPassword(list) == \E i \in DOMAIN list : list[i] = "password"

LEMMA PlainHasPassword ==
  ASSUME NEW list \in Plain
  PROVE  list \in Lists /\ list # <<>> /\ HasPassword(list)
<1>1. CASE list = <<"password">>
  <2>1. 1 \in DOMAIN list /\ list[1] = "password"
    BY <1>1
  <2> QED
    BY <1>1, <2>1 DEF HasPassword, Lists
<1>2. CASE list = <<"agent", "password">> \/ list = <<"keyFile", "password">>
  <2>1. 2 \in DOMAIN list /\ list[2] = "password"
    BY <1>2
  <2> QED
    BY <1>2, <2>1 DEF HasPassword, Lists
<1>3. CASE list = <<"agent", "keyFile", "password">>
  <2>1. 3 \in DOMAIN list /\ list[3] = "password"
    BY <1>3
  <2> QED
    BY <1>3, <2>1 DEF HasPassword, Lists
<1> QED
  BY <1>1, <1>2, <1>3 DEF Plain

LEMMA PlainMethods ==
  ASSUME NEW o \in Options, ~o.ephemeral
  PROVE  AuthMethods(o) \in Plain
<1> DEFINE a == IF o.agent THEN <<"agent">> ELSE <<>>
           k == IF o.keyFile THEN <<"keyFile">> ELSE <<>>
<1> SUFFICES a \o k \o <<"password">> \in Plain
  BY DEF AuthMethods
<1>2. CASE o.agent /\ o.keyFile
  <2>1. <<"agent">> \o <<"keyFile">> = <<"agent", "keyFile">>
    BY Joined
  <2>2. <<"agent", "keyFile">> \o <<"password">> = <<"agent", "keyFile", "password">>
    BY JoinedThree
  <2>3. a = <<"agent">> /\ k = <<"keyFile">>
    BY <1>2
  <2>4. a \o k \o <<"password">> = <<"agent", "keyFile", "password">>
    BY <2>1, <2>2, <2>3, Zenon
  <2> QED
    BY <2>4 DEF Plain
<1>3. CASE o.agent /\ ~o.keyFile
  <2>1. <<"agent">> \o <<>> = <<"agent">>
    BY Joined
  <2>2. <<"agent">> \o <<"password">> = <<"agent", "password">>
    BY Joined
  <2> QED
    BY <1>3, <2>1, <2>2 DEF Plain
<1>4. CASE ~o.agent /\ o.keyFile
  <2>1. <<>> \o <<"keyFile">> = <<"keyFile">>
    BY Joined
  <2>2. <<"keyFile">> \o <<"password">> = <<"keyFile", "password">>
    BY Joined
  <2> QED
    BY <1>4, <2>1, <2>2 DEF Plain
<1>5. CASE ~o.agent /\ ~o.keyFile
  <2>1. <<>> \o <<"password">> = <<"password">> /\ <<>> \o <<>> = <<>>
    BY Joined
  <2> QED
    BY <1>5, <2>1 DEF Plain
<1> QED
  BY <1>2, <1>3, <1>4, <1>5 DEF Options

\* buildSSHAuthMethods always has something to try: the ephemeral key alone, or more
\* with the password at the end.
LEMMA AuthMethodsEnd ==
  ASSUME NEW o \in Options
  PROVE  /\ AuthMethods(o) \in Lists /\ AuthMethods(o) # <<>>
         /\ IF o.ephemeral THEN AuthMethods(o) = <<"ephemeral">> ELSE HasPassword(AuthMethods(o))
<1>1. CASE o.ephemeral
  BY <1>1 DEF AuthMethods, Lists
<1>2. CASE ~o.ephemeral
  <2>1. AuthMethods(o) \in Plain
    BY <1>2, PlainMethods
  <2> QED
    BY <1>2, <2>1, PlainHasPassword
<1> QED
  BY <1>1, <1>2 DEF Options

---------------------------------------------------------------------------
\* The state, and what holds of each session.

Auths == [methods : Lists, trial : Methods \union {"none"},
          refused : SUBSET (Kinds \union {"none"}), listed : SUBSET Kinds]

ValuesOK ==
  /\ known \in Files
  /\ opts \in Asked
  /\ pc \in [Sessions -> Places]
  /\ snapshot \in [Sessions -> Files]
  /\ offered \in [Sessions -> HostKeys \union {NoKey}]
  /\ auth \in [Sessions -> Auths]
  /\ channel \in [Sessions -> {"none", "open", "dropped", "closed"}]
  /\ lost \in [Sessions -> BOOLEAN]
  /\ told \in [Sessions -> BOOLEAN]
  /\ raw \in [Sessions -> BOOLEAN]
  /\ tried \in [Sessions -> SUBSET Methods]
  /\ consented \subseteq HostKeys

\* The user is asked about a key of the host, and only when the file had none.
Asking(s) ==
  pc[s] = "ask" =>
    offered[s] \in HostKeys /\ opts[s].checks /\ Parsed(snapshot[s]).keys = {}
Guarded(s) ==
  pc[s] \in {"authenticate", "prompt"} /\ opts[s].checks /\ snapshot[s].parses
      /\ snapshot[s].keys # {} =>
    offered[s] \in snapshot[s].keys
\* What a session authenticates with, and what it has been through: an ephemeral key
\* stands alone, and a password that counts as refused has been asked for.
Built(s) ==
  /\ pc[s] \in {"exchange", "ask", "authenticate", "prompt"} => auth[s].methods # <<>>
  /\ auth[s].methods # <<>> =>
       IF opts[s].ephemeral THEN auth[s].methods = <<"ephemeral">> ELSE HasPassword(auth[s].methods)
Offering(s) ==
  /\ opts[s].ephemeral => tried[s] \subseteq {"ephemeral"}
  /\ auth[s].trial = "password" \/ "password" \in auth[s].refused => "password" \in tried[s]
  /\ pc[s] = "denied" /\ ~opts[s].ephemeral /\ "password" \in auth[s].listed =>
       "password" \in tried[s]
\* A session that has a channel keeps it until it closes it, and a channel that is not
\* open any more was lost.
Ending(s) ==
  /\ pc[s] = "start" => channel[s] = "none"
  /\ pc[s] \notin Over \union {"start"} => channel[s] \in {"open", "dropped"}
  /\ channel[s] = "dropped" => lost[s]
  /\ pc[s] = "close" => told[s] \/ lost[s]
  /\ pc[s] \in {"returned", "signalled"} /\ channel[s] # "none" =>
       channel[s] = "closed" /\ (told[s] \/ lost[s])
  /\ raw[s] => opts[s].tty /\ pc[s] \in {"running", "exited", "signalled"}
SessionOK(s) == Asking(s) /\ Guarded(s) /\ Built(s) /\ Offering(s) /\ Ending(s)

IInv == ValuesOK /\ \A s \in Sessions : SessionOK(s)

LEMMA Implied == IInv => TypeOK /\ KnownKeyGuards /\ EndsProperly
<1> SUFFICES ASSUME IInv PROVE TypeOK /\ KnownKeyGuards /\ EndsProperly
  OBVIOUS
<1>1. auth \in [Sessions -> [methods : Seq(Methods), trial : Methods \union {"none"},
                            refused : SUBSET (Kinds \union {"none"}), listed : SUBSET Kinds]]
  <2>1. Auths \subseteq [methods : Seq(Methods), trial : Methods \union {"none"},
                        refused : SUBSET (Kinds \union {"none"}), listed : SUBSET Kinds]
    BY ListTypes DEF Auths
  <2> QED
    BY <2>1 DEF IInv, ValuesOK
<1>2. TypeOK
  BY <1>1 DEF IInv, ValuesOK, SessionOK, Ending, TypeOK
<1>3. KnownKeyGuards
  BY DEF IInv, SessionOK, Guarded, KnownKeyGuards
<1>4. EndsProperly
  BY DEF IInv, SessionOK, Built, Offering, Ending, EndsProperly
<1> QED
  BY <1>2, <1>3, <1>4

LEMMA InitIInv == Init => IInv
<1> SUFFICES ASSUME Init PROVE IInv
  OBVIOUS
<1> USE DEF Init
<1>1. NoFile \in Files
  BY DEF NoFile, Files
<1>2. ValuesOK
  <2>1. NoAuth \in Auths
    BY DEF NoAuth, Auths, Lists
  <2> QED
    BY <1>1, <2>1, FilesAssumption DEF ValuesOK, Places
<1>3. ASSUME NEW s \in Sessions PROVE SessionOK(s)
  BY DEF SessionOK, Asking, Guarded, Built, Offering, Ending, NoAuth, Over
<1> QED
  BY <1>2, <1>3 DEF IInv

---------------------------------------------------------------------------
\* A step of a session leaves the others alone.
Others(s) ==
  \A u \in Sessions \ {s} :
    /\ pc'[u] = pc[u] /\ opts'[u] = opts[u]
    /\ snapshot'[u] = snapshot[u] /\ offered'[u] = offered[u]
    /\ auth'[u] = auth[u] /\ tried'[u] = tried[u]
    /\ channel'[u] = channel[u] /\ lost'[u] = lost[u]
    /\ told'[u] = told[u] /\ raw'[u] = raw[u]

LEMMA OthersKeep ==
  ASSUME IInv, NEW s \in Sessions, Others(s), ValuesOK', SessionOK(s)'
  PROVE  IInv'
<1>1. ASSUME NEW u \in Sessions \ {s} PROVE SessionOK(u)'
  <2>1. SessionOK(u)
    BY DEF IInv
  <2>2. /\ pc'[u] = pc[u] /\ opts'[u] = opts[u]
        /\ snapshot'[u] = snapshot[u] /\ offered'[u] = offered[u]
        /\ auth'[u] = auth[u] /\ tried'[u] = tried[u]
        /\ channel'[u] = channel[u] /\ lost'[u] = lost[u]
        /\ told'[u] = told[u] /\ raw'[u] = raw[u]
    BY DEF Others
  <2>3. Asking(u)'
    BY <2>1, <2>2 DEF SessionOK, Asking
  <2>4. Guarded(u)'
    BY <2>1, <2>2 DEF SessionOK, Guarded
  <2>5. Built(u)'
    BY <2>1, <2>2 DEF SessionOK, Built
  <2>6. Offering(u)'
    BY <2>1, <2>2 DEF SessionOK, Offering
  <2>7. Ending(u)'
    BY <2>1, <2>2 DEF SessionOK, Ending
  <2> QED
    BY <2>3, <2>4, <2>5, <2>6, <2>7 DEF SessionOK
<1> QED
  BY <1>1 DEF IInv

LEMMA GotoTypes ==
  ASSUME ValuesOK, NEW s \in Sessions, NEW place \in Places, Goto(s, place)
  PROVE  /\ pc' \in [Sessions -> Places] /\ pc'[s] = place
         /\ \A u \in Sessions \ {s} : pc'[u] = pc[u]
BY DEF ValuesOK, Goto

\* A session gets the methods of what it was asked for, or of a part of it.
LEMMA ConfiguredKeeps ==
  ASSUME IInv, NEW s \in Sessions, NEW o \in Options, o.ephemeral = opts[s].ephemeral,
         Configured(s, o)
  PROVE  /\ auth' \in [Sessions -> Auths]
         /\ \A u \in Sessions \ {s} : auth'[u] = auth[u]
         /\ auth'[s].methods # <<>>
         /\ auth'[s].trial = auth[s].trial /\ auth'[s].refused = auth[s].refused
         /\ auth'[s].listed = auth[s].listed
         /\ IF opts[s].ephemeral THEN auth'[s].methods = <<"ephemeral">>
            ELSE HasPassword(auth'[s].methods)
<1> DEFINE list == AuthMethods(o)
<1>1. list \in Lists /\ list # <<>>
  BY AuthMethodsEnd
<1>2. IF opts[s].ephemeral THEN list = <<"ephemeral">> ELSE HasPassword(list)
  BY AuthMethodsEnd
<1>3. auth' = [auth EXCEPT ![s].methods = list]
  BY DEF Configured
<1> HIDE DEF list
<1>4. auth \in [Sessions -> Auths]
  BY DEF IInv, ValuesOK
<1> QED
  BY <1>1, <1>2, <1>3, <1>4 DEF Auths

LEMMA StartKeeps ==
  ASSUME IInv, NEW s \in Sessions, Opens(s) \/ HandshakeEnds(s) \/ PassphraseGiven(s)
  PROVE  IInv'
<1> USE DEF IInv, ValuesOK, fileVars, keyVars, authVars, endVars
<1>1. CASE Opens(s)
  <2>1. PICK place \in {"returned", "handshake"} : Goto(s, place)
    BY <1>1 DEF Opens
  <2>2. /\ pc' \in [Sessions -> Places] /\ pc'[s] = place
        /\ \A u \in Sessions \ {s} : pc'[u] = pc[u]
    BY <2>1, GotoTypes DEF Places, Over
  <2>3. ValuesOK' /\ Others(s)
    BY <1>1, <2>2 DEF Opens, Others
  <2>4. /\ place = "returned" => UNCHANGED channel
        /\ place = "handshake" => channel'[s] = "open"
    BY <1>1, <2>1, <2>2 DEF Opens, Goto
  <2>5. SessionOK(s)'
    BY <1>1, <2>2, <2>4 DEF Opens, SessionOK, Asking, Guarded, Built, Offering, Ending, Over
  <2> QED
    BY <2>3, <2>5, OthersKeep
<1>0. opts[s] \in Options
  BY AskedAssumption
<1>2. CASE HandshakeEnds(s)
  <2>1. PICK place \in {"exchange", "passphrase", "terminate"} : Goto(s, place)
    BY <1>2 DEF HandshakeEnds
  <2>2. /\ pc' \in [Sessions -> Places] /\ pc'[s] = place
        /\ \A u \in Sessions \ {s} : pc'[u] = pc[u]
    BY <2>1, GotoTypes DEF Places, Over
  <2>3. /\ Configured(s, opts[s]) \/ (UNCHANGED auth /\ place # "exchange")
        /\ snapshot' \in [Sessions -> Files]
        /\ \A u \in Sessions \ {s} : snapshot'[u] = snapshot[u]
        /\ UNCHANGED <<fileVars, opts, offered, tried, endVars, raw, sock>>
        /\ pc[s] = "handshake"
    BY <1>2, <2>1, <2>2 DEF HandshakeEnds, Goto
  <2>4. /\ auth' \in [Sessions -> Auths]
        /\ \A u \in Sessions \ {s} : auth'[u] = auth[u]
        /\ auth'[s].trial = auth[s].trial /\ auth'[s].refused = auth[s].refused
        /\ auth'[s].listed = auth[s].listed
        /\ Built(s)'
    <3>1. CASE Configured(s, opts[s])
      BY <1>0, <2>3, <3>1, ConfiguredKeeps DEF Built
    <3>2. CASE UNCHANGED auth /\ place # "exchange"
      BY <2>2, <2>3, <3>2 DEF SessionOK, Built
    <3> QED
      BY <2>3, <3>1, <3>2
  <2>5. ValuesOK' /\ Others(s)
    BY <2>2, <2>3, <2>4 DEF Others
  <2>6. Asking(s)' /\ Guarded(s)' /\ Offering(s)' /\ Ending(s)'
    BY <2>2, <2>3, <2>4 DEF SessionOK, Asking, Guarded, Offering, Ending, Over
  <2> QED
    BY <2>4, <2>5, <2>6, OthersKeep DEF SessionOK
<1>3. CASE PassphraseGiven(s)
  <2>1. PICK right \in BOOLEAN : Configured(s, [opts[s] EXCEPT !.keyFile = right])
    BY <1>3 DEF PassphraseGiven
  <2>2. /\ [opts[s] EXCEPT !.keyFile = right] \in Options
        /\ [opts[s] EXCEPT !.keyFile = right].ephemeral = opts[s].ephemeral
    BY <1>0 DEF Options
  <2>3. /\ auth' \in [Sessions -> Auths]
        /\ \A u \in Sessions \ {s} : auth'[u] = auth[u]
        /\ auth'[s].trial = auth[s].trial /\ auth'[s].refused = auth[s].refused
        /\ auth'[s].listed = auth[s].listed
        /\ auth'[s].methods # <<>>
        /\ IF opts[s].ephemeral THEN auth'[s].methods = <<"ephemeral">>
           ELSE HasPassword(auth'[s].methods)
    BY <2>1, <2>2, ConfiguredKeeps
  <2>4. /\ pc' \in [Sessions -> Places] /\ pc'[s] = "exchange" /\ pc[s] = "passphrase"
        /\ \A u \in Sessions \ {s} : pc'[u] = pc[u]
    BY <1>3, GotoTypes DEF PassphraseGiven, Places
  <2>5. UNCHANGED <<fileVars, opts, keyVars, tried, endVars, raw, sock>>
    BY <1>3 DEF PassphraseGiven
  <2>6. ValuesOK' /\ Others(s)
    BY <2>3, <2>4, <2>5 DEF Others
  <2>7. Built(s)'
    BY <2>3, <2>5 DEF Built
  <2>8. Asking(s)' /\ Guarded(s)' /\ Offering(s)' /\ Ending(s)'
    BY <2>3, <2>4, <2>5 DEF SessionOK, Asking, Guarded, Offering, Ending, Over
  <2> QED
    BY <2>6, <2>7, <2>8, OthersKeep DEF SessionOK
<1> QED
  BY <1>1, <1>2, <1>3

LEMMA HostOffersKeeps ==
  ASSUME IInv, NEW s \in Sessions, NEW k \in HostKeys, HostOffers(s, k)
  PROVE  IInv'
<1> USE DEF IInv, ValuesOK, fileVars, keyVars, authVars, endVars
<1>1. PICK place : place = Verdict(s, k)
  OBVIOUS
<1>2. /\ place \in {"authenticate", "ask", "terminate"}
      /\ place = "ask" => opts[s].checks /\ Parsed(snapshot[s]).keys = {}
      /\ place = "authenticate" => ~opts[s].checks \/ k \in Parsed(snapshot[s]).keys
  <2> DEFINE trusted == Parsed(snapshot[s]).keys
  <2>1. opts[s].checks \in BOOLEAN
    BY AskedAssumption DEF Options
  <2>2. CASE ~opts[s].checks \/ k \in trusted
    BY <1>1, <2>1, <2>2, Zenon DEF Verdict
  <2>3. CASE opts[s].checks /\ k \notin trusted /\ trusted = {}
    BY <1>1, <2>1, <2>3 DEF Verdict
  <2>4. CASE opts[s].checks /\ k \notin trusted /\ trusted # {}
    BY <1>1, <2>1, <2>4 DEF Verdict
  <2> QED
    BY <2>1, <2>2, <2>3, <2>4
<1>3. /\ Goto(s, place) /\ offered' = [offered EXCEPT ![s] = k]
      /\ pc[s] = "exchange"
      /\ UNCHANGED <<fileVars, opts, snapshot, authVars, endVars, raw, sock>>
  BY <1>1 DEF HostOffers
<1>4. /\ pc' \in [Sessions -> Places] /\ pc'[s] = place
      /\ \A u \in Sessions \ {s} : pc'[u] = pc[u]
  BY <1>2, <1>3, GotoTypes DEF Places, Over
<1>5. /\ offered' \in [Sessions -> HostKeys \union {NoKey}] /\ offered'[s] = k
      /\ \A u \in Sessions \ {s} : offered'[u] = offered[u]
  BY <1>3
<1>6. ValuesOK' /\ Others(s)
  BY <1>3, <1>4, <1>5 DEF Others
<1>7. Asking(s)'
  BY <1>2, <1>3, <1>4, <1>5 DEF Asking
<1>8. Guarded(s)'
  BY <1>2, <1>3, <1>4, <1>5 DEF Guarded, Parsed
<1>9. Built(s)' /\ Offering(s)' /\ Ending(s)'
  BY <1>2, <1>3, <1>4 DEF SessionOK, Built, Offering, Ending, Over
<1> QED
  BY <1>6, <1>7, <1>8, <1>9, OthersKeep DEF SessionOK

\* What an append leaves of the file.
LEMMA AppendedFile ==
  ASSUME NEW file \in Files, NEW k \in HostKeys, NEW after \in Appended(file, k)
  PROVE  /\ after \in Files
         /\ file.keys \subseteq after.keys /\ after.keys \subseteq file.keys \union {k}
<1>1. CASE file.ended
  <2>1. after = [file EXCEPT !.keys = file.keys \union {k}]
    BY <1>1 DEF Appended
  <2> QED
    BY <2>1 DEF Files
<1>2. CASE ~file.ended
  <2>1. PICK p \in {file.parses, FALSE} :
          after = [file EXCEPT !.ended = TRUE, !.parses = p]
    BY <1>2 DEF Appended
  <2> QED
    BY <2>1 DEF Files
<1> QED
  BY <1>1, <1>2

LEMMA AnswerKeeps ==
  ASSUME IInv, NEW s \in Sessions, UserAccepts(s) \/ UserDeclines(s)
  PROVE  IInv'
<1> USE DEF IInv, ValuesOK, fileVars, keyVars, authVars, endVars
<1>1. CASE UserAccepts(s)
  <2>0. pc[s] = "ask" /\ Asking(s) /\ Goto(s, "authenticate")
    BY <1>1 DEF UserAccepts, SessionOK
  <2>1. offered[s] \in HostKeys /\ opts[s].checks /\ Parsed(snapshot[s]).keys = {}
    BY <2>0 DEF Asking
  <2>2. known' \in Files /\ consented' \subseteq HostKeys
    BY <1>1, <2>1, AppendedFile DEF UserAccepts
  <2>3. /\ pc' \in [Sessions -> Places] /\ pc'[s] = "authenticate"
        /\ \A u \in Sessions \ {s} : pc'[u] = pc[u]
    BY <2>0, GotoTypes DEF Places
  <2>4. ValuesOK' /\ Others(s)
    BY <1>1, <2>2, <2>3 DEF UserAccepts, Others
  <2>5. Guarded(s)'
    BY <1>1, <2>1, <2>3 DEF UserAccepts, Guarded, Parsed
  <2>6. Asking(s)' /\ Built(s)' /\ Offering(s)' /\ Ending(s)'
    BY <1>1, <2>0, <2>3 DEF UserAccepts, SessionOK, Asking, Built, Offering, Ending, Over
  <2> QED
    BY <2>4, <2>5, <2>6, OthersKeep DEF SessionOK
<1>2. CASE UserDeclines(s)
  <2>1. /\ pc' \in [Sessions -> Places] /\ pc'[s] = "terminate"
        /\ \A u \in Sessions \ {s} : pc'[u] = pc[u]
    BY <1>2, GotoTypes DEF UserDeclines, Places
  <2>2. ValuesOK' /\ Others(s)
    BY <1>2, <2>1 DEF UserDeclines, Others
  <2>3. SessionOK(s)'
    BY <1>2, <2>1 DEF UserDeclines, SessionOK, Asking, Guarded, Built, Offering, Ending,
                          Over
  <2> QED
    BY <2>2, <2>3, OthersKeep
<1> QED
  BY <1>1, <1>2

\* What the next trial leaves true of a session, if what led to it was true.
LEMMA TrialKeeps ==
  ASSUME IInv, NEW s \in Sessions, NEW a \in Auths, TriesNext(s, a),
         pc[s] \in {"authenticate", "prompt"}, a.methods = auth[s].methods,
         a.trial = "password" \/ "password" \in a.refused => "password" \in tried[s],
         UNCHANGED <<fileVars, opts, keyVars, endVars, raw, sock>>
  PROVE  IInv'
<1> USE DEF IInv, ValuesOK, fileVars, keyVars, endVars
<1>1. /\ SessionOK(s) /\ a.methods # <<>> /\ a.methods \in Lists
      /\ IF opts[s].ephemeral THEN a.methods = <<"ephemeral">> ELSE HasPassword(a.methods)
      /\ a.methods \in Seq(Methods)
  BY ListTypes DEF SessionOK, Built, Auths
<1>2. CASE /\ Untried(a) = {} /\ auth' = [auth EXCEPT ![s] = a]
           /\ Goto(s, "denied") /\ UNCHANGED tried
  <2>1. /\ pc' \in [Sessions -> Places] /\ pc'[s] = "denied"
        /\ \A u \in Sessions \ {s} : pc'[u] = pc[u]
    BY <1>2, GotoTypes DEF Places
  <2>2. auth' \in [Sessions -> Auths] /\ auth'[s] = a
        /\ \A u \in Sessions \ {s} : auth'[u] = auth[u]
    BY <1>2
  <2>3. ValuesOK' /\ Others(s)
    BY <1>2, <2>1, <2>2 DEF Others
  <2>4. ASSUME ~opts[s].ephemeral, "password" \in a.listed PROVE "password" \in tried[s]
    <3>1. PICK i \in DOMAIN a.methods : a.methods[i] = "password"
      BY <1>1, <2>4 DEF HasPassword
    <3>2. Kind(a.methods[i]) = "password"
      BY <3>1 DEF Kind
    <3>3. "password" \in a.refused
      BY <1>2, <2>4, <3>1, <3>2 DEF Untried
    <3> QED
      BY <3>3
  <2>5. Offering(s)'
    BY <1>1, <1>2, <2>2, <2>4 DEF SessionOK, Offering
  <2>6. Built(s)'
    BY <1>1, <2>2 DEF Built
  <2>7. Asking(s)' /\ Guarded(s)' /\ Ending(s)'
    BY <1>1, <2>1 DEF SessionOK, Asking, Guarded, Ending, Over
  <2> QED
    BY <2>3, <2>5, <2>6, <2>7, OthersKeep DEF SessionOK
<1>3. ASSUME NEW i \in Untried(a),
             auth' = [auth EXCEPT ![s] = [a EXCEPT !.trial = a.methods[i]]],
             tried' = [tried EXCEPT ![s] = @ \union {a.methods[i]}],
             Goto(s, IF a.methods[i] = "password" THEN "prompt" ELSE "authenticate")
      PROVE  IInv'
  <2> DEFINE m == a.methods[i]
  <2>1. m \in Methods /\ (opts[s].ephemeral => m = "ephemeral")
    BY <1>1, <1>3 DEF Untried
  <2> HIDE DEF m
  <2>2. PICK place \in {"prompt", "authenticate"} : Goto(s, place)
    BY <1>3
  <2>3. /\ pc' \in [Sessions -> Places] /\ pc'[s] = place
        /\ \A u \in Sessions \ {s} : pc'[u] = pc[u]
    BY <2>2, GotoTypes DEF Places
  <2>4. /\ auth' \in [Sessions -> Auths]
        /\ auth'[s].methods = a.methods /\ auth'[s].trial = m
        /\ auth'[s].refused = a.refused
        /\ \A u \in Sessions \ {s} : auth'[u] = auth[u]
    <3>1. /\ [a EXCEPT !.trial = m] \in Auths
          /\ [a EXCEPT !.trial = m].methods = a.methods
          /\ [a EXCEPT !.trial = m].trial = m
          /\ [a EXCEPT !.trial = m].refused = a.refused
      BY <2>1 DEF Auths
    <3>2. auth' = [auth EXCEPT ![s] = [a EXCEPT !.trial = m]]
      BY <1>3 DEF m
    <3> QED
      BY <3>1, <3>2
  <2>5. /\ tried' \in [Sessions -> SUBSET Methods] /\ tried'[s] = tried[s] \union {m}
        /\ \A u \in Sessions \ {s} : tried'[u] = tried[u]
    BY <1>3, <2>1 DEF m
  <2>6. ValuesOK' /\ Others(s)
    BY <2>3, <2>4, <2>5 DEF Others
  <2>7. Built(s)'
    BY <1>1, <2>4 DEF Built
  <2>8. Offering(s)'
    BY <1>1, <2>1, <2>3, <2>4, <2>5 DEF SessionOK, Offering
  <2>9. Asking(s)' /\ Ending(s)'
    BY <1>1, <2>3 DEF SessionOK, Asking, Ending, Over
  <2>10. Guarded(s)'
    BY <1>1 DEF SessionOK, Guarded
  <2> QED
    BY <2>6, <2>7, <2>8, <2>9, <2>10, OthersKeep DEF SessionOK
<1> QED
  BY <1>2, <1>3 DEF TriesNext

\* A session that forgets its methods has none that it would have to account for.
LEMMA ForgetsKeeps ==
  ASSUME IInv, NEW s \in Sessions, Forgets(s)
  PROVE  /\ snapshot' \in [Sessions -> Files] /\ auth' \in [Sessions -> Auths]
         /\ offered' \in [Sessions -> HostKeys \union {NoKey}]
         /\ tried' \in [Sessions -> SUBSET Methods]
         /\ auth'[s] = NoAuth /\ tried'[s] = {}
         /\ \A u \in Sessions \ {s} :
              /\ snapshot'[u] = snapshot[u] /\ offered'[u] = offered[u]
              /\ auth'[u] = auth[u] /\ tried'[u] = tried[u]
<1>1. NoFile \in Files /\ NoAuth \in Auths
  BY DEF NoFile, Files, NoAuth, Auths, Lists
<1> QED
  BY <1>1 DEF Forgets, IInv, ValuesOK

\* What counts as refused was under trial.
LEMMA RefusedKind ==
  ASSUME IInv, NEW s \in Sessions
  PROVE  /\ Refused(auth[s]) \in Auths /\ Refused(auth[s]).methods = auth[s].methods
         /\ Refused(auth[s]).trial = "password" \/ "password" \in Refused(auth[s]).refused
              => "password" \in tried[s]
<1> DEFINE a == auth[s]
<1>1. a \in Auths
  BY DEF IInv, ValuesOK
<1>2. a.trial = "password" \/ "password" \in a.refused => "password" \in tried[s]
  BY DEF IInv, SessionOK, Offering
<1>3. /\ Kind(a.trial) \in Kinds \union {"none"}
      /\ Kind(a.trial) = "password" => a.trial = "password"
  BY <1>1 DEF Kind, Kinds, Auths, Methods
<1> HIDE DEF a
<1>4. /\ Refused(a) \in Auths /\ Refused(a).methods = a.methods
      /\ Refused(a).trial = a.trial /\ Refused(a).refused = a.refused \union {Kind(a.trial)}
  BY <1>1, <1>3 DEF Refused, Auths
<1> QED
  BY <1>2, <1>3, <1>4 DEF a

LEMMA AuthKeeps ==
  ASSUME IInv, NEW s \in Sessions,
         AuthSucceeds(s) \/ AuthRefused(s) \/ AuthBreaks(s) \/ UserTypes(s)
  PROVE  IInv'
<1>1. CASE AuthSucceeds(s)
  <2> USE DEF IInv, ValuesOK, fileVars, keyVars, authVars, endVars
  <2>1. /\ pc' \in [Sessions -> Places] /\ pc'[s] = "session" /\ pc[s] = "authenticate"
        /\ \A u \in Sessions \ {s} : pc'[u] = pc[u]
    BY <1>1, GotoTypes DEF AuthSucceeds, Places
  <2>2. Forgets(s)
    BY <1>1 DEF AuthSucceeds
  <2>3. ValuesOK' /\ Others(s)
    BY <1>1, <2>1, <2>2, ForgetsKeeps DEF AuthSucceeds, Others
  <2>4. SessionOK(s)'
    BY <1>1, <2>1, <2>2, ForgetsKeeps DEF AuthSucceeds, SessionOK, Asking, Guarded, Built,
                                          Offering, Ending, NoAuth, Over
  <2> QED
    BY <2>3, <2>4, OthersKeep
<1>2. CASE AuthRefused(s)
  <2>1. PICK partial \in BOOLEAN, kinds \in opts[s].lists :
          TriesNext(s, [IF partial THEN auth[s] ELSE Refused(auth[s]) EXCEPT !.listed = kinds])
    BY <1>2 DEF AuthRefused
  <2> DEFINE b == IF partial THEN auth[s] ELSE Refused(auth[s])
             a == [b EXCEPT !.listed = kinds]
  <2>2. /\ b \in Auths /\ b.methods = auth[s].methods
        /\ b.trial = "password" \/ "password" \in b.refused => "password" \in tried[s]
    <3>1. CASE partial
      BY <3>1 DEF IInv, ValuesOK, SessionOK, Offering
    <3>2. CASE ~partial
      BY <3>2, RefusedKind
    <3> QED
      BY <3>1, <3>2
  <2>3. kinds \in SUBSET Kinds
    <3>1. opts[s] \in Options
      BY AskedAssumption DEF IInv, ValuesOK
    <3> QED
      BY <3>1 DEF Options
  <2>4. TriesNext(s, a)
    BY <2>1
  <2> HIDE DEF b
  <2>5. a \in Auths /\ a.methods = b.methods /\ a.trial = b.trial /\ a.refused = b.refused
    BY <2>2, <2>3 DEF Auths
  <2> HIDE DEF a
  <2>6. pc[s] = "authenticate" /\ UNCHANGED <<fileVars, opts, keyVars, endVars, raw, sock>>
    BY <1>2 DEF AuthRefused
  <2> QED
    BY <2>2, <2>4, <2>5, <2>6, TrialKeeps
<1>3. CASE /\ pc[s] \in {"authenticate", "prompt"} /\ TrialFails(s)
           /\ UNCHANGED <<fileVars, opts, keyVars, endVars, raw, sock>>
  BY <1>3, RefusedKind, TrialKeeps DEF TrialFails
<1>4. CASE AuthBreaks(s)
  BY <1>3, <1>4 DEF AuthBreaks
<1>5. CASE UserTypes(s) /\ ~TrialFails(s)
  <2> USE DEF IInv, ValuesOK, fileVars, keyVars, authVars, endVars
  <2>1. /\ pc' \in [Sessions -> Places] /\ pc'[s] = "authenticate" /\ pc[s] = "prompt"
        /\ \A u \in Sessions \ {s} : pc'[u] = pc[u]
        /\ UNCHANGED <<fileVars, opts, keyVars, authVars, endVars, raw, sock>>
    BY <1>5, GotoTypes DEF UserTypes, Places
  <2>2. ValuesOK' /\ Others(s)
    BY <2>1 DEF Others
  <2>3. SessionOK(s)'
    BY <2>1 DEF SessionOK, Asking, Guarded, Built, Offering, Ending, Over
  <2> QED
    BY <2>2, <2>3, OthersKeep
<1> QED
  BY <1>1, <1>2, <1>3, <1>4, <1>5 DEF UserTypes

\* The steps that leave known_hosts alone, and the methods, or have done with them.
LEMMA SessionKeeps ==
  ASSUME IInv, NEW s \in Sessions,
         \/ StartsSession(s) \/ RemoteEnds(s) \/ RemoteFails(s) \/ TransportFails(s)
         \/ Terminates(s) \/ Closes(s) \/ SignalArrives(s)
  PROVE  IInv'
<1> USE DEF IInv, ValuesOK, fileVars, keyVars, authVars, endVars
<1>1. PICK place \in {"running", "terminate", "wedged", "exited", "close", "returned",
                      "signalled"} :
         Goto(s, place)
  BY DEF StartsSession, RemoteEnds, RemoteFails, TransportFails, Terminates, Closes,
         SignalArrives
<1>2. /\ pc' \in [Sessions -> Places] /\ pc'[s] = place
      /\ \A u \in Sessions \ {s} : pc'[u] = pc[u]
  BY <1>1, GotoTypes DEF Places, Over
<1>3. /\ raw' \in [Sessions -> BOOLEAN]
      /\ \A u \in Sessions \ {s} : raw'[u] = raw[u]
  <2>1. opts[s].tty \in BOOLEAN
    BY AskedAssumption DEF Options
  <2> QED
    BY <2>1 DEF StartsSession, RemoteEnds, RemoteFails, TransportFails, Terminates, Closes,
                SignalArrives, Restored
<1>4. /\ channel' \in [Sessions -> {"none", "open", "dropped", "closed"}]
      /\ told' \in [Sessions -> BOOLEAN]
      /\ \A u \in Sessions \ {s} : channel'[u] = channel[u] /\ told'[u] = told[u]
      /\ UNCHANGED <<fileVars, opts, lost>>
      /\ UNCHANGED <<keyVars, authVars>> \/ Forgets(s)
  BY DEF StartsSession, RemoteEnds, RemoteFails, TransportFails, Terminates, Closes,
         SignalArrives
<1>5. ValuesOK' /\ Others(s)
  <2>1. CASE UNCHANGED <<keyVars, authVars>>
    BY <1>2, <1>3, <1>4, <2>1 DEF Others
  <2>2. CASE Forgets(s)
    BY <1>2, <1>3, <1>4, <2>2, ForgetsKeeps DEF Others
  <2> QED
    BY <1>4, <2>1, <2>2
<1>6. Asking(s)' /\ Guarded(s)' /\ Built(s)' /\ Offering(s)'
  <2>1. CASE UNCHANGED <<keyVars, authVars>>
    BY <1>2, <1>4, <2>1 DEF SessionOK, Asking, Guarded, Built, Offering
  <2>2. CASE Forgets(s)
    BY <1>2, <1>4, <2>2, ForgetsKeeps DEF SessionOK, Asking, Guarded, Built, Offering, NoAuth
  <2> QED
    BY <1>4, <2>1, <2>2
<1>7. Ending(s)'
  <2>0. SessionOK(s)
    OBVIOUS
  <2>1. CASE StartsSession(s)
    BY <1>2, <2>0, <2>1 DEF StartsSession, Goto, SessionOK, Ending, Over
  <2>2. CASE RemoteEnds(s) \/ TransportFails(s)
    BY <1>2, <2>0, <2>2 DEF RemoteEnds, TransportFails, Restored, Goto, SessionOK, Ending, Over
  <2>3. CASE RemoteFails(s)
    BY <1>2, <2>0, <2>3 DEF RemoteFails, Goto, SessionOK, Ending, Over
  <2>4. CASE Closes(s)
    BY <1>2, <2>0, <2>4 DEF Closes, Goto, SessionOK, Ending, Over
  <2>5. CASE SignalArrives(s)
    BY <1>2, <2>0, <2>5 DEF SignalArrives, Goto, SessionOK, Ending, Over
  <2>6. CASE Terminates(s)
    BY <1>2, <2>0, <2>6 DEF Terminates, Goto, SessionOK, Ending, Over
  <2> QED
    BY <2>1, <2>2, <2>3, <2>4, <2>5, <2>6
<1> QED
  BY <1>5, <1>6, <1>7, OthersKeep DEF SessionOK

LEMMA DropKeeps ==
  ASSUME IInv, NEW s \in Sessions, ConnectionDrops(s)
  PROVE  IInv'
<1> USE DEF IInv, ValuesOK, fileVars, keyVars, authVars, endVars
<1>1. /\ channel[s] = "open" /\ pc[s] \notin Over
      /\ channel' = [channel EXCEPT ![s] = "dropped"] /\ lost' = [lost EXCEPT ![s] = TRUE]
      /\ UNCHANGED <<fileVars, opts, pc, keyVars, authVars, told, raw>>
  BY DEF ConnectionDrops
<1>2. ValuesOK' /\ Others(s)
  BY <1>1 DEF Others
<1>3. SessionOK(s)'
  BY <1>1 DEF SessionOK, Asking, Guarded, Built, Offering, Ending, Over
<1> QED
  BY <1>2, <1>3, OthersKeep

LEMMA ProxyKeeps ==
  ASSUME IInv, OnlySock
  PROVE  IInv'
<1> USE DEF OnlySock, fileVars, keyVars, authVars, endVars
<1>1. ValuesOK'
  BY DEF IInv, ValuesOK
<1>2. ASSUME NEW s \in Sessions PROVE SessionOK(s)'
  BY DEF IInv, SessionOK, Asking, Guarded, Built, Offering, Ending
<1> QED
  BY <1>1, <1>2 DEF IInv

LEMMA ProxySteps == ASSUME NEW k \in Proxies, SockStep(k) PROVE OnlySock
BY DEF SockStep, SockAccepted, SockRequests, SockDials, LocalEnds, RemoteCloses, SockCloses

LEMMA NextIInv == IInv /\ [Next]_vars => IInv'
<1> SUFFICES ASSUME IInv, [Next]_vars PROVE IInv'
  OBVIOUS
<1>1. ASSUME NEW s \in Sessions, SessionStep(s) PROVE IInv'
  BY <1>1, StartKeeps, AuthKeeps, SessionKeeps DEF SessionStep
<1>2. ASSUME NEW s \in Sessions, NEW k \in HostKeys, HostOffers(s, k) PROVE IInv'
  BY <1>2, HostOffersKeeps
<1>3. ASSUME NEW s \in Sessions,
             \/ UserAccepts(s) \/ UserDeclines(s) \/ PassphraseGiven(s) \/ UserTypes(s)
             \/ RemoteEnds(s) \/ RemoteFails(s) \/ SignalArrives(s) \/ ConnectionDrops(s)
      PROVE  IInv'
  BY <1>3, AnswerKeeps, StartKeeps, AuthKeeps, SessionKeeps, DropKeeps
<1>4. ASSUME NEW k \in Proxies, SockStep(k) PROVE IInv'
  BY <1>4, ProxySteps, ProxyKeeps
<1>5. UNCHANGED vars => OnlySock
  BY DEF vars, OnlySock
<1> QED
  BY <1>1, <1>2, <1>3, <1>4, <1>5, ProxyKeeps DEF Next

LEMMA AlwaysIInv == Spec => []IInv
BY InitIInv, NextIInv, PTL DEF Spec

\* Every variable keeps its type, and a terminal is raw only while a session runs in
\* it, or after an end that runs no deferred call.
THEOREM TypeCorrect == Spec => []TypeOK
BY Implied, AlwaysIInv, PTL

\* A host whose keys the file had gets past the check with one of them only.
THEOREM KnownHostsAreKept == Spec => []KnownKeyGuards
BY Implied, AlwaysIInv, PTL

\* Whatever kinds of methods the host lists, and whenever connection, user or signal
\* break in: an ephemeral key is tried alone, a host that takes passwords turns nobody
\* away unasked, and a session that returns or is signalled has closed its channel
\* and told the agent, unless its connection was lost.
THEOREM SessionsEndProperly == Spec => []EndsProperly
BY Implied, AlwaysIInv, PTL

\* The file loses no key to another session's append, and gets none without consent.
THEOREM FileGrowsByConsent == Spec => GrowsByConsent
<1> DEFINE Grows == /\ known.keys \subseteq known'.keys
                    /\ known'.keys \ known.keys \subseteq consented'
<1>1. IInv /\ [Next]_vars => [Grows]_vars
  <2> SUFFICES ASSUME IInv, [Next]_vars PROVE Grows
    OBVIOUS
  <2>1. ASSUME NEW s \in Sessions, UserAccepts(s) PROVE Grows
    <3>1. offered[s] \in HostKeys /\ known \in Files
      BY <2>1 DEF UserAccepts, IInv, ValuesOK, SessionOK, Asking
    <3>2. known' \in Appended(known, offered[s]) \/ known' = known
      BY <2>1 DEF UserAccepts
    <3>3. known.keys \subseteq known'.keys /\ known'.keys \subseteq known.keys \union {offered[s]}
      BY <3>1, <3>2, AppendedFile
    <3> QED
      BY <2>1, <3>3 DEF UserAccepts
  <2>2. (\E s \in Sessions : UserAccepts(s)) \/ known' = known
    <3>1. ASSUME NEW s \in Sessions, SessionStep(s) PROVE known' = known
      BY <3>1 DEF SessionStep, Opens, HandshakeEnds, AuthSucceeds, AuthRefused, AuthBreaks, StartsSession,
                  TransportFails, Terminates, Closes, fileVars
    <3>2. ASSUME NEW s \in Sessions,
                 \/ \E k \in HostKeys : HostOffers(s, k)
                 \/ UserDeclines(s) \/ PassphraseGiven(s) \/ UserTypes(s)
                 \/ RemoteEnds(s) \/ RemoteFails(s)
                 \/ SignalArrives(s) \/ ConnectionDrops(s)
          PROVE  known' = known
      BY <3>2 DEF HostOffers, UserDeclines, PassphraseGiven, UserTypes, RemoteEnds, RemoteFails, SignalArrives,
                  ConnectionDrops, fileVars
    <3>3. ASSUME NEW k \in Proxies, SockStep(k) PROVE known' = known
      BY <3>3, ProxySteps DEF OnlySock, fileVars
    <3>4. UNCHANGED vars => known' = known
      BY DEF vars, fileVars
    <3> QED
      BY <3>1, <3>2, <3>3, <3>4 DEF Next
  <2> QED
    BY <2>1, <2>2
<1> QED
  BY <1>1, AlwaysIInv, PTL DEF Spec, GrowsByConsent
=============================================================================
