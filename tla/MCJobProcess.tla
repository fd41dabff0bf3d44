---------------------------- MODULE MCJobProcess ----------------------------
(***************************************************************************)
(* Two families: every way in which the low descriptors of the daemon may  *)
(* be taken, for each console with and without a script; and every expect  *)
(* stanza, with and without settings, debug and the security process.      *)
(***************************************************************************)
EXTENDS JobProcess

Plain == [console |-> "none", script |-> FALSE, settings |-> {}, process |-> "main",
          expect |-> "none", debug |-> FALSE]

MCSituations ==
    {[own |-> 0..4 \cup s,
      class |-> [Plain EXCEPT !.console = console, !.script = script]] :
        s \in SUBSET (5..9), console \in {"none", "log", "output", "owner"},
        script \in BOOLEAN}
    \cup {[own |-> 0..4,
           class |-> [Plain EXCEPT !.settings = settings, !.expect = expect,
                                   !.process = process, !.debug = debug]] :
        settings \in {{}, {Settings[i] : i \in DOMAIN Settings} \cup {"apparmor"}},
        expect \in {"none", "stop", "fork", "daemon"},
        process \in {"main", "security"}, debug \in BOOLEAN}
=============================================================================
