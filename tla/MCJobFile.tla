----------------------------- MODULE MCJobFile ------------------------------
(* Every stanza with its forms, legal and not. *)
EXTENDS JobFile

MCResources == {"core", "nofile"}
MCSignals == [TERM |-> 15, USR1 |-> 10]

S(name, args) == [name |-> name, args |-> args]
W(name, words) == S(name, [i \in DOMAIN words |-> Word(words[i])])

TextStanzas == {W(n, <<"x">>) : n \in {"instance", "description", "author", "version", "chroot",
                                       "chdir", "setuid", "setgid", "usage"}}
                \cup {W("instance", <<>>), W("chdir", <<"x", "y">>), S("usage", <<Open>>)}

ListStanzas == {S("env", <<SetTo("A", 1)>>), S("env", <<SetTo("A", 2)>>), W("env", <<"B">>), W("env", <<>>),
                W("export", <<"A", "B">>), S("export", <<Word("A"), Open>>), W("emits", <<"x">>),
                S("normal", <<Word("exit"), Num(3), Word("TERM")>>),
                S("normal", <<Word("exit"), Num(1), Word("x")>>), W("normal", <<"exit">>),
                W("cgroup", <<"cpu">>), W("cgroup", <<"cpu", "x">>), W("cgroup", <<"cpu", "x", "k", "v">>),
                W("cgroup", <<"cpu", "k", "u">>), W("cgroup", <<"mem", "k", "u">>),
                W("cgroup", <<"cpu", "x", "k", "v", "w">>), W("cgroup", <<>>)}

ProcessStanzas == {W("exec", <<"x">>), W("exec", <<>>), W("script", <<"block", "y">>),
                   W("script", <<"block">>), W("script", <<"x">>),
                   W("pre-start", <<"exec", "x">>), W("pre-start", <<"script", "block", "y">>),
                   W("pre-start", <<"x">>), W("post-start", <<"exec">>), W("post-start", <<"exec", "x">>),
                   W("pre-stop", <<"exec", "x">>), S("pre-stop", <<Word("exec"), Open>>),
                   W("post-stop", <<"script", "block", "y">>), W("post-stop", <<>>),
                   W("apparmor", <<"load", "x">>), W("apparmor", <<"switch", "x">>), W("apparmor", <<"switch">>),
                   W("start", <<"on", "x">>), W("start", <<"on">>), W("start", <<"x">>), W("stop", <<"on", "x">>),
                   W("manual", <<>>), W("task", <<>>), W("task", <<"x">>), W("debug", <<>>),
                   W("expect", <<"fork">>), W("expect", <<"x">>), W("console", <<"none">>), W("console", <<"x">>)}

NumberStanzas == {S("kill", <<Word("timeout"), Num(9)>>), S("kill", <<Word("timeout"), Num(-1)>>),
                  S("kill", <<Word("signal"), Word("USR1")>>), S("kill", <<Word("signal"), Big(1)>>),
                  S("reload", <<Word("signal"), Num(2)>>), S("reload", <<Word("signal"), Num(-1)>>),
                  S("respawn", <<>>), S("respawn", <<Word("limit"), Num(2), Num(3)>>),
                  S("respawn", <<Word("limit"), Num(2), Num(-3)>>),
                  S("respawn", <<Word("limit"), Num(2)>>), W("respawn", <<"limit", "unlimited">>),
                  S("umask", <<Num(63)>>), S("umask", <<Num(512)>>),
                  S("nice", <<Num(-20)>>), S("nice", <<Num(20)>>), S("nice", <<Big(19)>>),
                  S("oom", <<Num(-17)>>), S("oom", <<Num(15)>>), S("oom", <<Num(16)>>), W("oom", <<"never">>),
                  S("oom", <<Word("score"), Num(-1000)>>), S("oom", <<Word("score"), Num(1001)>>),
                  S("limit", <<Word("core"), Num(0), Num(0)>>), S("limit", <<Word("nofile"), Num(7), Word("unlimited")>>),
                  S("limit", <<Word("core"), Num(7)>>), S("limit", <<Word("core"), Num(-1), Num(8)>>),
                  W("limit", <<"x">>), W("bogus", <<>>)}

MCStanzas == TextStanzas \cup ListStanzas \cup ProcessStanzas \cup NumberStanzas
=============================================================================
