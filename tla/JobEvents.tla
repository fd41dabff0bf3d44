---------------------------- MODULE JobEvents ----------------------------
(***************************************************************************)
(* What a job promises the rest of the system: the order of the four       *)
(* events it emits (starting(7), started(7), stopping(7), stopped(7)) and  *)
(* where the life of its main process lies between them.                   *)
(***************************************************************************)
VARIABLES
    event,   \* the last event emitted, "none" before the first
    main     \* is there a main process?

eventVars == <<event, main>>

Init == event = "none" /\ main = FALSE

\* The job starts, or starts again once its main process is gone.
Starting ==
    /\ event \in {"none", "stopping", "stopped"}
    /\ event' = "starting" /\ main' = FALSE

\* The main process appears after starting has been dealt with, once.
SpawnMain == event = "starting" /\ ~main /\ main' = TRUE /\ UNCHANGED event

Started == event = "starting" /\ event' = "started" /\ main' \in {main, FALSE}

MainGone == main /\ main' = FALSE /\ UNCHANGED event

Stopping ==
    /\ event \in {"starting", "started"}
    /\ event' = "stopping" /\ main' \in {main, FALSE}

\* Nobody hears of stopped while the main process is there.
Stopped == event = "stopping" /\ event' = "stopped" /\ main' = FALSE

Next == Starting \/ SpawnMain \/ Started \/ MainGone \/ Stopping \/ Stopped

Spec == Init /\ [][Next]_eventVars

=============================================================================
