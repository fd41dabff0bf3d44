------------------------------ MODULE MCJob ------------------------------
(* Instances of Job for TLC: the classes that make its cases happen.       *)
EXTENDS Job

Class(procs, task, respawn, limit, exits, expects) ==
    [process |-> procs, task |-> task, respawn |-> respawn, limit |-> limit,
     normalexit |-> exits, waits_ready |-> expects,
     kill_timeout |-> 1, killable |-> TRUE]

\* A class with `kill timeout 0', and one whose main process cannot be signalled.
Untimed(c) == [c EXCEPT !.kill_timeout = 0]
Unkillable(c) == [c EXCEPT !.killable = FALSE]

\* Services and tasks with every script and with none, respawned or not, with
\* and without an expect stanza, with normal exits; and an abstract job.
MCClasses ==
    {Class(ProcessType \ {"security"}, FALSE, TRUE, 1, {}, FALSE),
     Class(ProcessType \ {"security"}, TRUE, TRUE, 1, {}, TRUE),
     Class({"main", "pre_start", "post_stop"}, TRUE, FALSE, 0, {1}, FALSE),
     Class({"main"}, FALSE, TRUE, 2, {1}, FALSE),
     Class({"main"}, FALSE, TRUE, 0, {0}, FALSE),
     Class({"main", "post_start"}, FALSE, FALSE, 0, {}, TRUE),
     Class({"main", "security", "pre_stop"}, FALSE, FALSE, 0, {0}, FALSE),
     Class({"pre_start", "post_stop"}, FALSE, FALSE, 0, {}, FALSE),
     Untimed(Class({"main"}, FALSE, TRUE, 1, {}, FALSE)),
     Unkillable(Class({"main", "pre_stop"}, FALSE, FALSE, 0, {}, FALSE))}

\* A service that respawns, to see late reports meet the next generation.
PlainRespawner == {Class({"main"}, FALSE, TRUE, 1, {}, FALSE)}

=============================================================================
