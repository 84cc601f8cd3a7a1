----------------------------- MODULE SshCompat -----------------------------
(***************************************************************************)
(* The program run in place of ssh (main.go, session/ssh_compat.go): it     *)
(* parses an OpenSSH command line, reads the SSH configuration for the      *)
(* host, merges the two with its own configuration, resolves the target and *)
(* starts an SSH session.  Before that "add-proxy-command" and the user, in *)
(* processes of their own, may have changed ~/.ssh/config.                 *)
(***************************************************************************)
EXTENDS SshArguments, SshConfigFile, TargetResolution

CONSTANTS
  Invocations,   \* what may be run: [argv, symlink, home, app, running, updates]
  OtherFiles,    \* path given with -F -> the file there
  Chars,         \* host -> its characters
  Meaning,       \* name -> what it can be resolved to
  Proxied,       \* hosts add-proxy-command is used for
  ProxyUsers,    \* users it writes
  Edits          \* what the user, or another program, may make of ~/.ssh/config

\* What a session takes from the configuration.
Settings == {"hostname", "user", "port", "identityfile", "stricthostkeychecking",
             "userknownhostsfile", "connecttimeout"}

ASSUME CompatAssumption ==
  /\ \A n \in DOMAIN Meaning : Meaning[n] \in Meanings
  /\ \A v \in Invocations : /\ v.running \subseteq Instances /\ v.argv \in Seq(DOMAIN Shape)
                            /\ v.home \in Seq(ConfigLines)
  /\ \A f \in DOMAIN OtherFiles : OtherFiles[f] \in Seq(ConfigLines)
  /\ \A a \in DOMAIN Shape : Split[a][2] # "" => Chars[Split[a][2]] \in Seq(STRING)
  /\ \A h \in Proxied : Chars[h] \in Seq(STRING)
  /\ ProxyUsers \subseteq STRING
  /\ Edits \subseteq Seq(ConfigLines)
  /\ Settings \subseteq Keywords
  /\ {"stricthostkeychecking", "userknownhostsfile", "connecttimeout"} \subseteq Range(Lower)
  /\ None \notin STRING /\ None \notin DOMAIN Number /\ "several words" \in STRING

VARIABLES
  stage,     \* "shell", "args", "resolve", "session", "version", "cobra", "failed"
  home,      \* ~/.ssh/config
  app,       \* the program's own configuration: ssh-user, ssh-port, instance-connect
  symlink,   \* invoked by the name ssh
  updates,   \* bound on the changes of ~/.ssh/config to come
  update,    \* the add-proxy-command under way, or NoUpdate
  since,     \* history: the file as last edited, and what has been added since
  opts       \* *SSHDirectInput, as far as it is merged

fileVars == <<home, updates, update, since>>
compatVars == <<stage, app, symlink, opts, fileVars>>
vars == <<argVars, resVars, compatVars>>

NoOpts == [user |-> None]
NoUpdate == [at |-> "none"]
Edited(f, s) == [file |-> f, hosts |-> {}, last |-> <<>>, sound |-> s]
Init ==
  \E v \in Invocations :
    /\ argv = v.argv /\ symlink = v.symlink /\ home = v.home /\ app = v.app
    /\ running = v.running /\ began = v.running
    /\ next = 1 /\ args = NoArgs /\ phase = "before"
    /\ meaning = NoName /\ asking = "idle" /\ found = NoName /\ faults = 0
    /\ stage = "shell" /\ updates = v.updates /\ opts = NoOpts
    /\ update = NoUpdate /\ since = Edited(v.home, TRUE)

-----------------------------------------------------------------------------
\* ~/.ssh/config changes beside the session to come.
Beside == stage = "shell" /\ UNCHANGED <<argVars, resVars, stage, app, symlink, opts>>

\* upsertSSHConfigEntry: the file is read whole, cut to nothing, and written anew.
ReadsConfig(h, u) ==
  /\ Beside
  /\ update = NoUpdate /\ updates > 0
  /\ update' = [at |-> "read", host |-> Chars[h], user |-> u, was |-> home]
  /\ updates' = updates - 1
  /\ since' = [since EXCEPT !.sound = @ /\ Tidy(home)]
  /\ UNCHANGED home
Truncates ==
  /\ Beside
  /\ update.at = "read"
  /\ update' = [update EXCEPT !.at = "truncated"]
  /\ home' = <<>>
  /\ UNCHANGED <<updates, since>>
Rewritten == ReplaceOrAppendHostBlock(update.was, update.host, update.user)
WriteCompletes ==
  /\ Beside
  /\ update.at = "truncated"
  /\ home' = Rewritten
  /\ update' = NoUpdate
  /\ since' = [since EXCEPT !.hosts = @ \union {update.host}, !.last = <<update.host, update.user>>]
  /\ UNCHANGED updates
\* The file cannot be opened, or a write fails or the process dies behind some lines.
BreaksOff ==
  /\ Beside
  /\ update # NoUpdate /\ update' = NoUpdate
  /\ \/ update.at = "read" /\ UNCHANGED <<home, since>>
     \/ /\ update.at = "truncated"
        /\ \E n \in 0..Len(Rewritten) : home' = SubSeq(Rewritten, 1, n)
        /\ since' = [since EXCEPT !.sound = FALSE]
  /\ UNCHANGED updates
UserEdits(f) ==
  /\ Beside
  /\ updates > 0 /\ updates' = updates - 1
  /\ home' = f
  /\ since' = Edited(f, update = NoUpdate)
  /\ UNCHANGED update
ConfigChanges ==
  \/ \E h \in Proxied, u \in ProxyUsers : ReadsConfig(h, u)
  \/ Truncates \/ WriteCompletes \/ BreaksOff
  \/ \E f \in Edits : UserEdits(f)

IsSSHCompatMode ==
  symlink \/ (argv[1] \notin LongFlags /\ Shape[argv[1]] # "word")
\* The version is asked for by a -V anywhere, in the remote command too.
Invoke ==
  /\ stage = "shell" /\ argv # <<>>
  /\ CASE ~IsSSHCompatMode -> stage' = "cobra" /\ UNCHANGED phase
       [] IsSSHCompatMode /\ HasVersionFlag(argv) -> stage' = "version" /\ UNCHANGED phase
       [] OTHER -> stage' = "args" /\ phase' = "flags"
  /\ UNCHANGED <<argv, next, args, resVars, fileVars, app, symlink, opts>>

Parse == stage = "args" /\ ParseStep /\ UNCHANGED <<resVars, compatVars>>
ParseFails ==
  /\ stage = "args" /\ phase = "refused" /\ stage' = "failed"
  /\ UNCHANGED <<argVars, resVars, fileVars, app, symlink, opts>>

-----------------------------------------------------------------------------
(* Merging.                                                                *)
ConfigRead ==
  IF args.config = None THEN home
  ELSE IF args.config \in DOMAIN OtherFiles THEN OtherFiles[args.config] ELSE <<>>
HostCfg == ParseSSHConfig(ConfigRead, Chars[args.host])
Word(v) == IF Len(v) = 1 THEN v[1] ELSE "several words"
FromConfig(v, default) == IF v = Unset THEN default ELSE Word(v)

Target == FromConfig(HostCfg["hostname"], args.host)
User == IF args.user # None THEN args.user
        ELSE FromConfig(HostCfg["user"], IF app.user # None THEN app.user ELSE "ec2-user")
\* -p 22 cannot be told from no -p.
Port ==
  CASE args.port # 22 -> args.port
    [] args.port = 22 /\ FromConfig(HostCfg["port"], None) \in DOMAIN Number ->
         Number[Word(HostCfg["port"])]
    [] OTHER -> IF app.port # 0 THEN app.port ELSE 22
KeyFile == IF args.identity # None THEN args.identity ELSE FromConfig(HostCfg["identityfile"], None)
CheckDisabled(v) == v \in {"no", "accept-new"}
\* Of an option given under two spellings either value may be read.
HostKeyChecks ==
  LET vs == GetOptionValues(args, "stricthostkeychecking")
  IN  {CheckDisabled(v) : v \in IF vs # {} THEN vs
                                ELSE {FromConfig(HostCfg["stricthostkeychecking"], None)}}
KnownHosts ==
  LET vs == GetOptionValues(args, "userknownhostsfile")
  IN  IF vs # {} THEN vs ELSE {FromConfig(HostCfg["userknownhostsfile"], None)}
\* A value that is no number is passed over.
Timeouts ==
  LET c == FromConfig(HostCfg["connecttimeout"], None)
      below == IF c \in DOMAIN Number THEN Number[c] ELSE 0
      vs == GetOptionValues(args, "connecttimeout")
  IN  IF vs = {} THEN {below}
      ELSE {IF v \in DOMAIN Number THEN Number[v] ELSE below : v \in vs}

\* A name nobody has heard of.
Unknown == [id |-> FALSE, alias |-> NoName, tag |-> NoName, public |-> NoName,
            private |-> NoName, txt |-> <<>>]
MeaningOf(name) == IF name \in DOMAIN Meaning THEN Meaning[name] ELSE Unknown

MergeOptions ==
  /\ stage = "args" /\ phase = "parsed"
  /\ \E check \in HostKeyChecks, known \in KnownHosts, timeout \in Timeouts :
       opts' = [user |-> User, port |-> Port, keyFile |-> KeyFile, noHostKeyCheck |-> check,
                knownHosts |-> known, timeout |-> timeout, command |-> args.command,
                disablePTY |-> "T" \in args.switches, dynamic |-> args.dynamic,
                target |-> Target, ephemeralOnly |-> FALSE]
  /\ Resolve(MeaningOf(Target))
  /\ stage' = "resolve"
  /\ UNCHANGED <<argVars, fileVars, app, symlink>>

\* No region, or no configuration for a client.
SetupFails ==
  /\ stage = "resolve" /\ asking = "id" /\ stage' = "failed"
  /\ UNCHANGED <<argVars, resVars, fileVars, app, symlink, opts>>
ResolveTarget == stage = "resolve" /\ ResolveStep /\ UNCHANGED <<argVars, compatVars>>
ResolveFails ==
  /\ stage = "resolve" /\ asking \in {"ambiguous", "none"} /\ stage' = "failed"
  /\ UNCHANGED <<argVars, resVars, fileVars, app, symlink, opts>>
StartsSession ==
  /\ stage = "resolve" /\ asking = "found"
  /\ \/ stage' = "session" /\ opts' = [opts EXCEPT !.ephemeralOnly = app.connect]
     \/ app.connect /\ stage' = "failed" /\ UNCHANGED opts
  /\ UNCHANGED <<argVars, resVars, fileVars, app, symlink>>

Next ==
  \/ ConfigChanges
  \/ Invoke \/ Parse \/ ParseFails \/ MergeOptions \/ SetupFails
  \/ ResolveTarget \/ ResolveFails \/ StartsSession
Spec == Init /\ [][Next]_vars

-----------------------------------------------------------------------------
InConfig(k) == FirstValue(ConfigRead, Chars[Split[argv[Destination]][2]], k)
FirstOf(candidates, default) ==
  LET given == {n \in DOMAIN candidates : candidates[n] # None}
  IN  IF given = {} THEN default ELSE candidates[Min(given)]
ConfigWord(k) == IF InConfig(k) = Unset THEN None ELSE Word(InConfig(k))
OptionOrConfig(key) == IF OptionGiven(key) # {} THEN OptionGiven(key) ELSE {ConfigWord(key)}
\* -l and user@ together, a -p 22 and -D are left out.
AsGiven(o) ==
  /\ ~UserTwice => o.user = FirstOf(<<UserGiven, ConfigWord("user"), app.user>>, "ec2-user")
  /\ o.target = FirstOf(<<ConfigWord("hostname")>>, Split[argv[Destination]][2])
  /\ LET p == LastGiven("-p")
         other == IF app.port = 0 THEN 22 ELSE app.port
     IN  p = None \/ Number[p] # 22 =>
           o.port = IF p # None THEN Number[p]
                    ELSE IF ConfigWord("port") \in DOMAIN Number THEN Number[ConfigWord("port")]
                    ELSE other
  /\ o.keyFile = FirstOf(<<LastGiven("-i"), ConfigWord("identityfile")>>, None)
  /\ \E v \in OptionOrConfig("stricthostkeychecking") :
       o.noHostKeyCheck = (v \in {"no", "accept-new"})
  /\ \E v \in OptionOrConfig("connecttimeout") :
       o.timeout = IF v \in DOMAIN Number THEN Number[v]
                   ELSE IF ConfigWord("connecttimeout") \in DOMAIN Number
                   THEN Number[ConfigWord("connecttimeout")] ELSE 0
  /\ o.knownHosts \in OptionOrConfig("userknownhostsfile")
  /\ o.disablePTY <=> SwitchGiven("T")
  /\ o.command = SubSeq(argv, Destination + 1, Len(argv))
\* Each setting of a session comes from the command line, else from the first
\* line of the configuration that sets it in a section for the host, else from
\* the program's own configuration, else from its default (ssh_compat.go:34-49);
\* a value that is no number counts as not given.  Where the code and the
\* documentation disagree this says nothing: DestinationUserWins, PortFlagWins,
\* DynamicIgnored and UnknownValueSkipped do.
EffectiveOptions ==
  stage = "session" /\ ~UnknownValue =>
    AsGiven(opts) /\ opts.ephemeralOnly = app.connect

\* user@ before the host wins over -l (docs/index.html:909).
DestinationUserWins ==
  stage = "session" /\ Split[argv[Destination]][1] # "" =>
    opts.user = Split[argv[Destination]][1]
\* A port given with -p wins over the configuration's (ssh_compat.go:118).
PortFlagWins ==
  stage = "session" /\ LastGiven("-p") # None => opts.port = Number[LastGiven("-p")]
\* -D is accepted and ignored (docs/index.html:1013): no session is asked for a proxy.
DynamicIgnored == stage = "session" => opts.dynamic = None

\* However often add-proxy-command has been used on an edited file, it still says what
\* it said to every host that no Host line added since takes; the host added last has
\* one entry, and adding it again would change nothing.  That is so as long as the
\* file was tidy each time it was read, no update broke off behind its truncation,
\* and nobody edited the file during one: a write that fails there, a crash, or an
\* edit loses what others had in the file.
UpsertKeepsOthers ==
  since.sound /\ update = NoUpdate =>
    /\ \A o \in {c \in Range(Chars) : \A h \in since.hosts : ~Denotes(h, c)} :
         \A k \in Keywords : FirstValue(home, o, k) = FirstValue(since.file, o, k)
    /\ since.hosts # {} =>
         /\ Cardinality({n \in DOMAIN home : EntryAt(home, since.last[1], n)}) = 1
         /\ ReplaceOrAppendHostBlock(home, since.last[1], since.last[2]) = home
=============================================================================
