----------------------------- MODULE MCReexec ------------------------------
(***************************************************************************)
(* A service and a task it waits for, in a daemon that replaces itself:    *)
(* both hold the event that starts the service, one on its own and one     *)
(* with another event.                                                     *)
(***************************************************************************)
EXTENDS Reexec, MCEventQueue

MCReexecOrder == <<"dep", "srv">>
MCReexecClassOf ==
    "srv" :> [Plain EXCEPT !.start_on = On("up"),
                           !.stop_on = And(On("down"), On("up")),
                           !.main = TRUE] @@
    "dep" :> [Plain EXCEPT !.start_on = And(OnJob("starting", "srv"), On("up")),
                           !.task = TRUE, !.spawns = TRUE]

MCLogLevel == <<"--debug">>
=============================================================================
