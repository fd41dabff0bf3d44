---------------------------- MODULE MCFileBridge ----------------------------
\* A directory with a directory and a file whose name begins as that one's,
\* below it a file; a job that waits for one file of each, one that has the
\* directory twice, with different masks, and a pattern, and one whose paths are
\* not valid.
EXTENDS FileBridge

A == <<"a">>
B == <<"a", "b">>
F == <<"a", "b", "f">>
C == <<"a", "bc">>

MCDirs  == {A, B}
MCFiles == {F, C}
MCNamePrefix == {<<"b", "bc">>}
MCDotNames   == {".", "..", ".f"}
MCDotsNames  == {"..", "a.."}

Var(var, val) == [var |-> var, val |-> val]
Absolute(p)   == Var("FILE", Written(p, FALSE))

MCJob == {"plain", "many", "odd"}
MCFileEvents == [j \in MCJob |->
    CASE j = "plain" -> << <<Absolute(F), Var("EVENT", "create")>>,
                           <<Var("FILE", [abs |-> FALSE, names |-> <<"~", "bc">>, slash |-> FALSE])>> >>
      [] j = "many"  -> << <<Var("F", Written(B, TRUE)), Var("EVENT", "modify")>>,
                           <<Var("FILE", Written(B, TRUE)), Var("EVENT", "create")>>,
                           <<Absolute(Append(B, "*")), Var("EVENT", "create"), Var("EVENT", "delete")>> >>
      [] j = "odd"   -> << <<Var(NULL, NULL), Absolute(F)>>,
                           <<Var("FILE", [abs |-> FALSE, names |-> <<".f">>, slash |-> FALSE])>>,
                           <<Absolute(<<"a..", "f">>)>>, <<Absolute(<<>>)>> >>]

MCInitialPaths == {{A}, {A, B, F}}
=============================================================================
