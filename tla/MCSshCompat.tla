---------------------------- MODULE MCSshCompat ----------------------------
(***************************************************************************)
(* SshCompat for TLC: command lines, configuration files and targets, each  *)
(* varied with the other two held to a few cases.                          *)
(***************************************************************************)
EXTENDS SshCompat, TLC

CONSTANTS x, y   \* instances

\* Arguments.
Word1 == {"a", "ab", "i", "me@ab", "22", "2200", "key", "bob", "cmd", "cfg", "Strict=no",
          "strict=yes", "Timeout=9", "Timeout=z", "Known=f", "bad option", "me@",
          "m1", "m2", "m3", "m4", "m5", "m6", "m7", "m8", "m9"}
MCLetters ==
  [t \in Word1 \union {"-o", "-i", "-F", "-l", "-p", "-D", "--", "-L", "--help"} |-> <<>>]
    @@ ("-T" :> <<"T">>) @@ ("-v" :> <<"v">>) @@ ("-vv" :> <<"v", "v">>)
    @@ ("-Tvx" :> <<"T", "v", "x">>) @@ ("-V" :> <<"V">>) @@ ("-TV" :> <<"T", "V">>)
MCShape ==
  [t \in DOMAIN MCLetters |->
     CASE t \in {"-o", "-i", "-F", "-l", "-p", "-D"} -> "value"
       [] t \in {"-T", "-v", "-vv"} -> "switch"
       [] t \in {"-Tvx", "-TV"} -> "letters"
       [] t \in {"-L", "-V", "--help"} -> "unknown"
       [] t = "--" -> "end"
       [] OTHER -> "word"]
MCLongFlags == {"--", "--help"}
MCSplit ==
  ("me@ab" :> <<"me", "ab">>) @@ ("me@" :> <<"me", "">>)
    @@ [t \in DOMAIN MCLetters |-> <<"", t>>]
MCOptionOf ==
  [t \in DOMAIN MCLetters \ {"bad option"} |->
     CASE t = "Strict=no" -> <<"Strict", "no">>
       [] t = "strict=yes" -> <<"strict", "yes">>
       [] t = "Timeout=9" -> <<"Timeout", "9">>
       [] t = "Timeout=z" -> <<"Timeout", "z">>
       [] t = "Known=f" -> <<"Known", "f">>
       [] OTHER -> <<t, "yes">>]
MCLower ==
  ("Strict" :> "stricthostkeychecking") @@ ("strict" :> "stricthostkeychecking")
    @@ ("Timeout" :> "connecttimeout") @@ ("Known" :> "userknownhostsfile")
    @@ [t \in DOMAIN MCLetters |-> "other"]
MCNumber == ("22" :> 22) @@ ("2200" :> 2200) @@ ("9" :> 9)

\* Hosts and what they can be resolved to.
Names == {"a", "ab", "i", "m1", "m2", "m3", "m4", "m5", "m6", "m7", "m8", "m9"}
MCChars ==
  ("a" :> <<"a">>) @@ ("ab" :> <<"a", "b">>)
    @@ [t \in DOMAIN MCLetters \ {"a", "ab"} |-> <<"m">>]
Means(alias, tag, public, private, txt) ==
  [id |-> FALSE, alias |-> alias, tag |-> tag, public |-> public, private |-> private, txt |-> txt]
MCMeaning ==
  [t \in {"several words"} \union DOMAIN MCLetters |->
     Means(NoName, NoName, NoName, {x}, <<>>)]
MCNamed ==
  [t \in {"a", "ab", "i"} |-> [MCMeaning[t] EXCEPT !.id = TRUE]]
    @@ ("m1" :> Means({x}, NoName, NoName, NoName, <<>>))
    @@ ("m2" :> Means({x, y}, NoName, NoName, NoName, <<y>>))
    @@ ("m3" :> Means({x}, {y}, NoName, NoName, <<Junk, y>>))
    @@ ("m4" :> Means(NoName, {x, y}, NoName, NoName, <<>>))
    @@ ("m5" :> Means(NoName, {x}, {y}, NoName, <<>>))
    @@ ("m6" :> Means(NoName, NoName, {x}, {y}, <<y>>))
    @@ ("m7" :> Means(NoName, NoName, {}, {y}, <<Junk, x, y>>))
    @@ ("m8" :> Means(NoName, NoName, NoName, NoName, <<Junk>>))
    @@ ("m9" :> Means({}, {}, NoName, {x, y}, <<>>))
    @@ MCMeaning

\* Files.
Option(k, v) == Line("directive", k, "space", <<v>>, FALSE)
Pattern(g) == Exactly(g)
Not(g) == [neg |-> TRUE, glob |-> g]
Lines ==
  { HostLine("space", <<Pattern(<<"a">>)>>), HostLine("space", <<Not(<<"a">>), Pattern(<<"*">>)>>),
    HostLine("tab", <<Pattern(<<"a">>), Pattern(<<"a", "?">>)>>),
    Line("directive", "match", "space", <<"all">>, FALSE),
    Option("user", "u1"), Option("user", "u2"), Line("directive", "user", "space", <<>>, FALSE),
    Option("port", "2200"), Line("directive", "identityfile", "=", <<"k=1">>, FALSE) }
SettingLines ==
  { Option("identityfile", "k=1"), Option("stricthostkeychecking", "accept-new"),
    Option("userknownhostsfile", "f"), Option("connecttimeout", "z"), Option("hostname", "ab"),
    Line("directive", "hostname", "space", <<"a", "b">>, FALSE), Option("port", "z"),
    Line("long", "", "space", <<>>, FALSE) }
SeqsUpTo(S, n) == UNION {[1..m -> S] : m \in 0..n}
Globs == SeqsUpTo({"a", "b", "*", "?"}, 3)
AllHosts == HostLine("space", <<Pattern(<<"*">>)>>)
ReadFiles ==
  SeqsUpTo(Lines, 3)
    \union {<<HostLine("space", <<Pattern(g)>>), Option("user", "u1")>> : g \in Globs}
    \union {<<HostLine("space", <<Not(g), Pattern(h)>>), Option("user", "u1")>> :
              g, h \in SeqsUpTo({"a", "*"}, 2)}
    \union {<<AllHosts>> \o s : s \in SeqsUpTo(SettingLines, 2)}
Users2 == <<AllHosts, Option("user", "u2")>>
UpdatedFiles ==
  SeqsUpTo(Lines, 2)
    \union {e \o Entry(MCChars[h], "u1") \o b \o s : h \in {"a", "ab"}, e \in {<<>>, Users2},
              b \in {<<>>, <<Blank>>, <<Blank, Blank>>}, s \in SeqsUpTo(Lines, 1)}
TwoEntries ==
  {s \o Entry(MCChars[h], "u1") \o t : h \in {"a", "ab"},
     s, t \in {Users2, Entry(MCChars["a"], "u2"), <<Blank>>}}
MCEdits == {Users2}
MCOtherFiles == "cfg" :> <<AllHosts, Option("port", "22"), Option("user", "u3")>>

\* Command lines.
NoApp == [user |-> None, port |-> 0, connect |-> FALSE]
Apps == { NoApp, [user |-> "u4", port |-> 2222, connect |-> TRUE] }
Runs(argvs, homes, apps, n) ==
  { [argv |-> a, symlink |-> TRUE, home |-> f, app |-> p, running |-> {x, y}, updates |-> n] :
      a \in argvs, f \in homes, p \in apps }
ByName(v) == [v EXCEPT !.symlink = FALSE]
Resolutions(names) ==
  { [argv |-> <<"-T", n>>, symlink |-> FALSE, home |-> <<>>, app |-> p, running |-> r, updates |-> 0] :
      n \in names, p \in Apps, r \in SUBSET {x, y} }
Tokens == {"-p", "2200", "-l", "-T", "-L", "--", "a", "me@ab", "-TV"}
OptionTails ==
  { <<"-o", s, "-o", t, "a">> : s, t \in {"Strict=no", "strict=yes", "Timeout=9", "Timeout=z", "Known=f"} }
    \union { <<f, v, f, w, "me@ab", "cmd" >> : f \in {"-i", "-F", "-D"}, v, w \in {"key", "cfg"} }
Lines1 ==
  { <<"-p", "22", "a">>, <<"-p", "bob", "a">>, <<"-o", "bad option", "a">>, <<"-F", "cfg", "-l", "bob", "a">>,
    <<"-F", "key", "a">>, <<"-v", "-vv", "-Tvx", "a">>, <<"me@">>, <<"-i", "--", "--", "a">>, <<"-i">>,
    <<"a", "-V">>, <<"-V">>, <<"--help">> }
AnyFile == <<AllHosts, Option("user", "u1"), Option("port", "2200"), Option("hostname", "i")>>
MCInvocations ==
  UNION { Runs(SeqsUpTo(Tokens, 4), {<<>>}, {NoApp}, 0),
          Runs(Lines1 \union OptionTails, {<<>>, AnyFile}, Apps, 0),
          {ByName(v) : v \in Runs(Lines1, {<<>>}, {NoApp}, 0)},
          Runs({<<"-T", "a">>, <<"-T", "ab">>}, ReadFiles, {NoApp}, 0),
          Runs({<<>>}, UpdatedFiles, {NoApp}, 2),
          Runs({<<>>}, TwoEntries, {NoApp}, 3),
          Runs({<<"-T", "a">>}, TwoEntries, {NoApp}, 1),
          Resolutions(Names) }

\* The command lines on which the code and the documentation disagree.
MCPorts == Runs({<<"-p", "22", "a">>}, {AnyFile}, {NoApp}, 0)
MCUsers == Runs({<<"-l", "bob", "me@ab">>}, {<<>>}, {NoApp}, 0)
MCForwards == Runs({<<"-D", "2200", "a">>}, {<<>>}, {NoApp}, 0)
MCUnknown == Runs({<<"-L", "2200", "a">>}, {<<>>}, {NoApp}, 0)
=============================================================================
