--------------------------- MODULE MCEventQueue ----------------------------
(***************************************************************************)
(* Small sets of job classes whose conditions make them depend on each     *)
(* other.                                                                  *)
(***************************************************************************)
EXTENDS EventQueue

\* Arguments are given by position, but for RESULT.
MCArgumentOf ==
    [w \in {"srv", "dep", "RESULT=failed"} |->
        IF w = "RESULT=failed"
        THEN [key |-> "RESULT", negate |-> FALSE, var |-> FALSE, value |-> "failed"]
        ELSE [key |-> "", negate |-> FALSE, var |-> FALSE, value |-> w]]

On(name) == <<EVENT_MATCH(name, << >>)>>
OnJob(name, job) == <<EVENT_MATCH(name, <<job>>)>>
And(l, r) == l \o r \o <<EVENT_AND>>
Or(l, r) == l \o r \o <<EVENT_OR>>

Plain == [start_on |-> << >>, stop_on |-> << >>, task |-> FALSE,
          spawns |-> FALSE, main |-> FALSE, pre_stop |-> FALSE, ends |-> FALSE,
          nameless |-> FALSE, cgroup |-> FALSE]

Happens(name) == [name |-> name, env |-> << >>]

MCFailedName ==
    [n \in {"up", "down", "starting", "started", "stopping", "stopped"} |->
        n \o "/failed"]

MCStimuli == {Happens("up"), Happens("down")}

\* A service, a job that needs the cgroup manager and is started by the end of
\* the service, and one whose instance cannot be named.
MCOrder == <<"cg", "inst", "srv">>
MCClassOf ==
    "srv" :> [Plain EXCEPT !.start_on = On("up"), !.stop_on = On("down"),
                           !.spawns = TRUE, !.main = TRUE, !.pre_stop = TRUE] @@
    "inst" :> [Plain EXCEPT !.start_on = On("up/failed"), !.nameless = TRUE] @@
    "cg" :> [Plain EXCEPT
                !.start_on = Or(OnJob("stopping", "srv"), On("up")),
                !.stop_on = And(<<EVENT_MATCH("stopped", <<"srv", "RESULT=failed">>)>>,
                                On("down")),
                !.task = TRUE, !.main = TRUE, !.cgroup = TRUE]

\* What the theorems ask of the classes and of the other programs.
ASSUME EventsAssumption == OwnNames /\ AnyEventStarts
=============================================================================
