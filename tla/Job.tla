------------------------------- MODULE Job -------------------------------
(***************************************************************************)
(* One instance of one job class: the state machine of init/job.c, the     *)
(* process supervision of init/job_process.c, and the D-Bus commands that  *)
(* drive them, inside libnih's main loop and next to the children the      *)
(* kernel runs for the job.                                                *)
(*                                                                         *)
(* A handler of the daemon runs to completion, so it is one action.  The   *)
(* loop of job_change_state is the nesting of the Enter operators below:   *)
(* each stands for one `case' of its switch, and calls the next one where  *)
(* the code assigns `state' and goes round again.  The six "-ing" spawn    *)
(* states are passed through inside one handler, and each is modelled      *)
(* together with the state it leads to.                                    *)
(***************************************************************************)
EXTENDS Naturals, FiniteSets

CONSTANTS
    Classes,      \* the job classes an instance may belong to
    SetupFails,   \* processes whose child set-up may fail before the exec
    ReapFirst     \* may a child fail or exec, and die, between the select()
                  \* and the waitid() of one turn of the main loop?

\* ProcessType (process.h).
ProcessType == {"main", "pre_start", "post_start", "pre_stop", "post_stop",
                "security"}

\* Exit statuses the code tells apart: zero and one non-zero status.
ExitStatus == {0, 1}

\* The members of JobClass the handlers read.  limit = 0 stands for "respawn
\* limit unlimited", that is for either number being zero; waits_ready for an
\* expect stanza other than "none".  killable is FALSE for a class whose main
\* process the daemon may not signal (system_kill fails, as for a user's session
\* with a setuid program).
ClassType == [process : SUBSET ProcessType, task : BOOLEAN, respawn : BOOLEAN,
              limit : Nat, normalexit : SUBSET ExitStatus,
              waits_ready : BOOLEAN, kill_timeout : Nat, killable : BOOLEAN]

ASSUME ClassesAssumption == Classes \subseteq ClassType
ASSUME SetupFailsAssumption == SetupFails \subseteq ProcessType
ASSUME ReapFirstAssumption == ReapFirst \in BOOLEAN

\* JobGoal, and the states of JobState a job can be in between two handlers.
JobGoal == {"stop", "start", "respawn"}
JobState == {"waiting", "starting", "security", "pre_start", "spawned",
             "post_start", "running", "pre_stop", "stopping", "killed",
             "post_stop"}

\* A child: in the set-up code between fork and exec, running its program,
\* certain to die (failed set-up or SIGKILL), or dead and not yet waited for.
ChildState == {"none", "setup", "up", "dying", "zombie"}

\* The set-up pipe watched through process_data: nothing to read yet, an
\* error message, or end of file because the exec closed it.
PipeState == {"none", "open", "error", "eof"}

\* A child or a pipe left over from an earlier spawn of the same process.
Leftover == [process : ProcessType, child : ChildState, pipe : PipeState]

\* Job events, "none" before the first.
EventName == {"none", "starting", "started", "stopping", "stopped"}

JobType ==
    [state : JobState, goal : JobGoal,
     blocker : BOOLEAN,             \* waiting for our own event to finish
     blocking : {"none", "start", "stop", "restart"},   \* caller held back
     failed : BOOLEAN,
     failed_process : ProcessType \cup {"none"},
     pid : [ProcessType -> BOOLEAN],                    \* pid[] > 0
     kill_timer : BOOLEAN,          \* kill_process is always PROCESS_MAIN
     respawn_count : Nat,
     event : EventName,             \* last event emitted, and its RESULT
     event_failed : BOOLEAN,
     child : [ProcessType -> ChildState],
     pipe : [ProcessType -> PipeState],
     old : SUBSET Leftover,
     fault : {"none", "assert", "freed"}]

VARIABLES
    class,             \* the class of the instance, never changes
    job,               \* the instance, its children and its set-up pipes
    disable_respawn,   \* set when the daemon is told to shut down
    phase,             \* part of the main loop being run
    ready              \* pipes select() reported and not handled yet

vars == <<class, job, disable_respawn, phase, ready>>

Phase == {"io", "children", "events"}

-----------------------------------------------------------------------------
(* Spawning, events and callers                                            *)

Has(P) == P \in class.process

\* A failed nih_assert aborts the daemon.
Fail(j) == [j EXCEPT !.fault = "assert"]

\* What matters of a child nobody has the pid of: it lives on, or its pipe is
\* still watched.  Its death is ignored (job_process_find does not know it).
Kept(c) ==
    {k \in {[c EXCEPT !.child = IF @ \in {"setup", "up"} THEN @ ELSE "none"]} :
        k.child # "none" \/ k.pipe # "none"}

\* What a further spawn of P, or the end of the instance, leaves behind.
Remains(j, P) ==
    Kept([process |-> P, child |-> j.child[P], pipe |-> j.pipe[P]])

\* job_process_start: the child is forked, its set-up goes on by itself.
job_process_start(j, P) ==
    [j EXCEPT !.pid[P] = TRUE, !.child[P] = "setup", !.pipe[P] = "open",
              !.old = @ \cup Remains(j, P)]

\* job_emit_event: the name, the RESULT, and whether the job waits for it.
job_emit_event(j, name, block) ==
    [j EXCEPT !.event = name,
              !.event_failed = name \in {"stopping", "stopped"} /\ j.failed,
              !.blocker = block]

\* job_finished: whoever is held back gets a reply.
job_finished(j) == [j EXCEPT !.blocking = "none"]

\* job_failed keeps the first failure only.
job_failed(j, P) ==
    IF j.failed THEN j
    ELSE job_finished([j EXCEPT !.failed = TRUE, !.failed_process = P])

-----------------------------------------------------------------------------
(* job_change_state, one operator per case, in the order the flow reaches  *)
(* the end of a handler                                                    *)

\* The instance is freed: a child still alive goes on with nobody watching it.
EnterWaiting(j) ==
    LET e == job_finished(job_emit_event([j EXCEPT !.state = "waiting"],
                                         "stopped", FALSE))
        rest == e.old \cup UNION {Remains(e, P) : P \in ProcessType}
    IN  [e EXCEPT !.pid = [P \in ProcessType |-> FALSE],
                  !.kill_timer = FALSE,
                  !.respawn_count = 0,
                  !.child = [P \in ProcessType |-> "none"],
                  !.pipe = [P \in ProcessType |-> "none"],
                  !.old = UNION {Kept([o EXCEPT !.pipe = "none"]) : o \in rest}]

EnterStarting(j) ==
    job_emit_event([j EXCEPT !.state = "starting", !.failed = FALSE,
                             !.failed_process = "none"],
                   "starting", TRUE)

\* Mutant: a cancelled stop answers nobody.
EnterRunning_KeepsCaller(j) ==
    LET r == [j EXCEPT !.state = "running"]
    IN  IF j.state = "pre_stop" THEN r
        ELSE LET e == job_emit_event(r, "started", FALSE)
             IN  IF class.task THEN e ELSE job_finished(e)

\* Mutant: a service that has started answers nobody.
EnterRunning_LikeTask(j) ==
    LET r == [j EXCEPT !.state = "running"]
    IN  IF j.state = "pre_stop" THEN job_finished(r)
        ELSE job_emit_event(r, "started", FALSE)

\* A cancelled stop does not emit started again.
EnterRunning(j) ==
    LET r == [j EXCEPT !.state = "running"]
    IN  IF j.state = "pre_stop" THEN job_finished(r)
        ELSE LET e == job_emit_event(r, "started", FALSE)
             IN  IF class.task THEN e ELSE job_finished(e)

EnterStopping(j) ==
    job_emit_event([j EXCEPT !.state = "stopping"], "stopping", TRUE)

EnterPostStop(j) ==
    LET p == [j EXCEPT !.state = "post_stop"]
    IN  CASE Has("post_stop")   -> job_process_start(p, "post_stop")
          [] ~Has("post_stop") /\ j.goal = "stop"  -> EnterWaiting(p)
          [] ~Has("post_stop") /\ j.goal # "stop"  -> EnterStarting(p)

\* Mutant: the main process is signalled and not waited for.
EnterKilled_NoWait(j) == EnterPostStop([j EXCEPT !.state = "killed"])

\* The timer after which SIGKILL follows; a timeout of zero fails an assertion.
job_process_set_kill_timer(j) ==
    IF class.kill_timeout = 0 \/ j.kill_timer THEN Fail(j)
    ELSE [j EXCEPT !.kill_timer = TRUE]

\* The kill signal; without leave to send it no timer is set either.
job_process_kill(j) ==
    CASE j.kill_timer  -> Fail(j)
      [] ~j.kill_timer /\ class.killable  -> job_process_set_kill_timer(j)
      [] ~j.kill_timer /\ ~class.killable -> j

EnterKilled(j) ==
    LET k == [j EXCEPT !.state = "killed"]
    IN  IF Has("main") /\ j.pid["main"] THEN job_process_kill(k)
        ELSE EnterPostStop(k)

EnterPreStop(j) ==
    LET p == [j EXCEPT !.state = "pre_stop"]
    IN  IF Has("pre_stop") THEN job_process_start(p, "pre_stop")
        ELSE EnterStopping(p)

EnterPostStart(j) ==
    LET p == [j EXCEPT !.state = "post_start"]
    IN  IF Has("post_start") THEN job_process_start(p, "post_start")
        ELSE EnterRunning(p)

\* Mutant: an abstract job is not moved on.
EnterSpawned_Stays(j) ==
    LET p == [j EXCEPT !.state = "spawned"]
    IN  IF Has("main") THEN job_process_start(p, "main") ELSE p

EnterSpawned(j) ==
    LET p == [j EXCEPT !.state = "spawned"]
    IN  IF Has("main") THEN job_process_start(p, "main")
        ELSE EnterPostStart(p)

EnterPreStart(j) ==
    LET p == [j EXCEPT !.state = "pre_start"]
    IN  IF Has("pre_start") THEN job_process_start(p, "pre_start")
        ELSE EnterSpawned(p)

EnterSecurity(j) ==
    LET p == [j EXCEPT !.state = "security"]
    IN  IF Has("security") THEN job_process_start(p, "security")
        ELSE EnterPreStart(p)

-----------------------------------------------------------------------------
(* job_next_state, job_change_state, job_change_goal                       *)

\* The state a job leaves `state' for, by goal; "none" where the code asserts
\* that it is not reached.
NextWhenStarting(s) ==
    CASE s = "waiting"    -> "starting"
      [] s = "starting"   -> "security"
      [] s = "security"   -> "pre_start"
      [] s = "pre_start"  -> "spawned"
      [] s = "spawned"    -> "post_start"
      [] s = "post_start" -> "running"
      [] s = "running"    -> "stopping"
      [] s = "pre_stop"   -> "running"
      [] s = "stopping"   -> "killed"
      [] s = "killed"     -> "post_stop"
      [] s = "post_stop"  -> "starting"

NextWhenStopping(s, mainRuns) ==
    CASE s = "waiting"   -> "none"
      [] s \in {"starting", "security", "pre_start", "spawned",
                "post_start", "pre_stop"} -> "stopping"
      [] s = "running"   -> IF mainRuns THEN "pre_stop" ELSE "stopping"
      [] s = "stopping"  -> "killed"
      [] s = "killed"    -> "post_stop"
      [] s = "post_stop" -> "waiting"

NextWhenRespawning(s) ==
    IF s \in {"post_start", "pre_stop"} THEN "stopping" ELSE "none"

job_next_state(j) ==
    CASE j.goal = "start"   -> NextWhenStarting(j.state)
      [] j.goal = "stop"    ->
            NextWhenStopping(j.state, Has("main") /\ j.pid["main"])
      [] j.goal = "respawn" -> NextWhenRespawning(j.state)

\* One turn of the loop of job_change_state, and the turns that follow.
Enter(j, s) ==
    CASE s = "waiting"    -> EnterWaiting(j)
      [] s = "starting"   -> EnterStarting(j)
      [] s = "security"   -> EnterSecurity(j)
      [] s = "pre_start"  -> EnterPreStart(j)
      [] s = "spawned"    -> EnterSpawned(j)
      [] s = "post_start" -> EnterPostStart(j)
      [] s = "running"    -> EnterRunning(j)
      [] s = "pre_stop"   -> EnterPreStop(j)
      [] s = "stopping"   -> EnterStopping(j)
      [] s = "killed"     -> EnterKilled(j)
      [] s = "post_stop"  -> EnterPostStop(j)

\* A job that waits for its own event stays where it is.
job_change_state(j, s) ==
    IF s = j.state \/ j.blocker THEN j ELSE Enter(j, s)

\* job_change_state (job, job_next_state (job)): the goal respawn has been
\* turned back into start by the time the state changes.
Advance(j) ==
    LET s == job_next_state(j)
    IN  IF s = "none" THEN Fail(j)
        ELSE job_change_state(
                [j EXCEPT !.goal = IF @ = "respawn" THEN "start" ELSE @], s)

\* Mutant: a stop does not wait for the main process to be set up.
job_change_goal_Hasty(j, g) ==
    LET c == [j EXCEPT !.goal = g]
    IN  IF /\ j.goal # g
           /\ \/ g = "start" /\ j.state = "waiting"
              \/ g = "stop" /\ j.state \in {"running", "spawned"}
        THEN Advance(c) ELSE c

\* Only the two states of rest are left because the goal changes.
job_change_goal(j, g) ==
    LET c == [j EXCEPT !.goal = g]
    IN  IF /\ j.goal # g
           /\ \/ g = "start" /\ j.state = "waiting"
              \/ g = "stop" /\ j.state = "running"
        THEN Advance(c) ELSE c

-----------------------------------------------------------------------------
(* The end of a process                                                    *)

\* The death of the main process does not move a job whose post-start or
\* pre-stop script still runs.
ScriptRuns(j) ==
    \/ j.state = "post_start" /\ Has("post_start") /\ j.pid["post_start"]
    \/ j.state = "pre_stop" /\ Has("pre_stop") /\ j.pid["pre_stop"]

\* job_process_catch_runaway; `recent' tells whether the respawn interval is
\* still running.  Counts above the limit are all alike.
RespawnCount(j, recent) ==
    CASE class.limit = 0 -> j.respawn_count
      [] class.limit # 0 /\ ~recent -> 1
      [] class.limit # 0 /\ recent ->
            IF j.respawn_count > class.limit THEN j.respawn_count
            ELSE j.respawn_count + 1

job_process_catch_runaway(j, recent) ==
    class.limit # 0 /\ recent /\ RespawnCount(j, recent) > class.limit

\* Is this end of the main process a failure?
MainFailed(j, status) ==
    /\ status # 0 \/ (class.respawn /\ ~class.task)
    /\ j.goal = "start"
    /\ status \notin class.normalexit

\* The stop that follows the end of a process: from running the goal moves
\* the state, otherwise the state is moved here unless a script still runs.
StopNow(j, stays) ==
    LET g == job_change_goal(j, "stop")
    IN  IF j.state = "running" \/ stays THEN g ELSE Advance(g)

\* Mutant: respawns although the daemon is shutting down.
MainLost_Respawns(j, r, status, recent) ==
    IF ~(MainFailed(j, status) /\ class.respawn)
    THEN StopNow(IF MainFailed(j, status) THEN job_failed(r, "main") ELSE r,
                 ScriptRuns(j))
    ELSE IF ScriptRuns(j) THEN job_change_goal(r, "respawn") ELSE Advance(r)

\* The main process is gone although nobody killed it: respawn it or stop.
MainLost(j, r, status, recent) ==
    LET respawn == MainFailed(j, status) /\ class.respawn /\ ~disable_respawn
        counted == [r EXCEPT !.respawn_count = RespawnCount(j, recent)]
    IN  CASE respawn /\ job_process_catch_runaway(j, recent) ->
                StopNow(job_failed(counted, "none"), ScriptRuns(j))
          [] respawn /\ ~job_process_catch_runaway(j, recent) ->
                IF ScriptRuns(j) THEN job_change_goal(counted, "respawn")
                ELSE Advance(counted)
          [] ~respawn ->
                StopNow(IF MainFailed(j, status) THEN job_failed(r, "main") ELSE r,
                        ScriptRuns(j))

\* Mutant: a process that dies while the job is stopping can fail the job.
MainTerminated_Stopping(j, r, status, recent) ==
    IF j.state = "killed" THEN Advance(r) ELSE MainLost(j, r, status, recent)

\* PROCESS_MAIN of job_process_terminated; r is j without the dead process.
MainTerminated(j, r, status, recent) ==
    CASE j.state = "killed" -> Advance(r)
      [] j.state = "stopping" -> r
      [] j.state \in {"running", "spawned", "post_start", "pre_stop"} ->
            MainLost(j, r, status, recent)
      [] j.state \notin {"killed", "stopping", "running", "spawned",
                         "post_start", "pre_stop"} -> Fail(j)

\* The states in which the code accepts the end of each script.
ScriptState(P) ==
    CASE P = "security"   -> {"security"}
      [] P = "pre_start"  -> {"pre_start"}
      [] P = "post_start" -> {"post_start", "running"}
      [] P = "pre_stop"   -> {"pre_stop"}
      [] P = "post_stop"  -> {"post_stop"}

\* The other processes: only pre-start and post-stop can fail the job.
ScriptTerminated(j, r, P, status) ==
    IF j.state \notin ScriptState(P) THEN Fail(j)
    ELSE IF P \in {"pre_start", "post_stop"} /\ status # 0
         THEN Advance(job_change_goal(job_failed(r, P), "stop"))
         ELSE Advance(r)

\* Mutant: the kill timer goes on.
job_process_terminated_KeepsTimer(j, P, status, recent) ==
    LET r == [j EXCEPT !.pid[P] = FALSE]
    IN  IF P = "main" THEN MainTerminated(j, r, status, recent)
        ELSE ScriptTerminated(j, r, P, status)

job_process_terminated(j, P, status, recent) ==
    LET r == [j EXCEPT !.pid[P] = FALSE, !.kill_timer = FALSE]
    IN  IF P = "main" THEN MainTerminated(j, r, status, recent)
        ELSE ScriptTerminated(j, r, P, status)

\* Mutant: the pid of a child that gave up is kept.
job_child_error_handler_KeepsPid(j, P) ==
    LET f == job_change_goal(job_failed(j, P), "stop")
    IN  IF P = "security" THEN f
        ELSE IF P \in {"post_start", "pre_stop"} THEN Advance(j) ELSE Advance(f)

\* Mutant: every set-up failure is dealt with as that of security is.
job_child_error_handler_Stays(j, P) ==
    job_change_goal(job_failed([j EXCEPT !.pid[P] = FALSE, !.child[P] = "none"],
                               P), "stop")

\* job_child_error_handler: the set-up of P failed.
job_child_error_handler(j, P) ==
    LET r == [j EXCEPT !.pid[P] = FALSE,
                       !.child[P] = IF @ \in {"setup", "up"} THEN @ ELSE "none"]
        f == job_change_goal(job_failed(r, P), "stop")
    IN  CASE P = "security" -> f
          [] P \in {"pre_start", "main", "post_stop"} -> Advance(f)
          [] P \in {"post_start", "pre_stop"} -> Advance(r)

-----------------------------------------------------------------------------
(* The set-up pipe                                                         *)

\* job_process_child_reader goes on using its data after the error handler.
job_process_child_reader(j, P) ==
    LET r == job_child_error_handler(j, P)
    IN  IF r.state = "waiting" /\ r.fault = "none"
        THEN [r EXCEPT !.fault = "freed"] ELSE r

\* Mutant: nothing tells that the main process is there.
job_process_close_handler_Ignores(j, P) == j

\* Without an expect stanza the exec is what makes a job spawned.
job_process_close_handler(j, P) ==
    IF j.state = "spawned" /\ ~class.waits_ready /\ P = "main"
    THEN Advance(j) ELSE j

PipeHandler(j, P, msg) ==
    IF msg = "error" THEN job_process_child_reader(j, P)
    ELSE job_process_close_handler(j, P)

Readable == {"error", "eof"}

ReadableOld == {o \in job.old : o.pipe \in Readable}

-----------------------------------------------------------------------------
(* Actions of the daemon                                                   *)

Alive == job.fault = "none"

Init ==
    /\ class \in Classes
    /\ job = [state |-> "waiting", goal |-> "stop", blocker |-> FALSE,
              blocking |-> "none", failed |-> FALSE, failed_process |-> "none",
              pid |-> [P \in ProcessType |-> FALSE], kill_timer |-> FALSE,
              respawn_count |-> 0, event |-> "none", event_failed |-> FALSE,
              child |-> [P \in ProcessType |-> "none"],
              pipe |-> [P \in ProcessType |-> "none"],
              old |-> {}, fault |-> "none"]
    /\ disable_respawn = FALSE
    /\ phase = "events"
    /\ ready = {}

\* D-Bus commands and matching events arrive from the descriptors or from the
\* event queue.  The caller before this one gets its reply first.
Commanded == Alive /\ phase \in {"io", "events"}

Held(caller) == [job EXCEPT !.blocking = caller]

\* job_class_start makes the instance when there is none.
Start(wait) ==
    /\ Commanded
    /\ job.goal # "start"
    /\ job' = job_change_goal(Held(IF wait THEN "start" ELSE "none"), "start")
    /\ UNCHANGED <<class, disable_respawn, phase, ready>>

Stop(wait) ==
    /\ Commanded
    /\ job.state # "waiting" /\ job.goal # "stop"
    /\ job' = job_change_goal(Held(IF wait THEN "stop" ELSE "none"), "stop")
    /\ UNCHANGED <<class, disable_respawn, phase, ready>>

Restart(wait) ==
    /\ Commanded
    /\ job.state # "waiting" /\ job.goal # "stop"
    /\ job' = job_change_goal(
                job_change_goal(Held(IF wait THEN "restart" ELSE "none"),
                                "stop"), "start")
    /\ UNCHANGED <<class, disable_respawn, phase, ready>>

\* The daemon is told to shut down: no respawn from now on, all jobs stop.
Quiesce ==
    /\ Commanded
    /\ ~disable_respawn
    /\ disable_respawn' = TRUE
    /\ job' = IF job.state = "waiting" THEN job ELSE job_change_goal(job, "stop")
    /\ UNCHANGED <<class, phase, ready>>

\* One pipe that select() reported.  A pipe replaced meanwhile by a new spawn
\* is found among the old ones.
ReadPipe(P) ==
    /\ Alive /\ phase = "io"
    /\ P \in ready
    /\ job' = PipeHandler([job EXCEPT !.pipe[P] = "none"], P, job.pipe[P])
    /\ ready' = {Q \in ready \ {P} : job'.pipe[Q] \in Readable}
    /\ UNCHANGED <<class, disable_respawn, phase>>

\* The pipe of an earlier spawn: its handler finds the job as it is now.
ReadOldPipe(o) ==
    /\ Alive /\ phase = "io"
    /\ o \in ReadableOld
    /\ job' = PipeHandler(
                [job EXCEPT !.old = (@ \ {o}) \cup Kept([o EXCEPT !.pipe = "none"])],
                o.process, o.pipe)
    /\ ready' = {Q \in ready : job'.pipe[Q] \in Readable}
    /\ UNCHANGED <<class, disable_respawn, phase>>

\* job_process_handler for a child that exited or was killed.
Reap(P) ==
    /\ Alive /\ phase = "children"
    /\ job.child[P] = "zombie"
    /\ LET d == [job EXCEPT !.child[P] = "none"]
       IN  IF ~job.pid[P] THEN job' = d
           ELSE \E status \in ExitStatus, recent \in BOOLEAN :
                    job' = job_process_terminated(d, P, status, recent)
    /\ UNCHANGED <<class, disable_respawn, phase, ready>>

\* The main process raised SIGSTOP or has forked as often as the expect
\* stanza says (job_process_stopped, job_process_trace_new_child and _exec).
MainReady ==
    /\ Alive /\ phase = "children"
    /\ class.waits_ready
    /\ job.state = "spawned" /\ job.pid["main"] /\ job.child["main"] = "up"
    /\ job' = Advance(job)
    /\ UNCHANGED <<class, disable_respawn, phase, ready>>

\* Mutant: the timer is dropped and nothing sent.
KillTimer_NoSignal ==
    /\ Alive /\ phase = "events"
    /\ job.kill_timer
    /\ job' = [job EXCEPT !.kill_timer = FALSE]
    /\ UNCHANGED <<class, disable_respawn, phase, ready>>

\* job_process_kill_timer: SIGKILL.
KillTimer ==
    /\ Alive /\ phase = "events"
    /\ job.kill_timer
    /\ job' = IF ~job.pid["main"] THEN Fail(job)
              ELSE [job EXCEPT !.kill_timer = FALSE,
                               !.child["main"] =
                                   IF @ \in {"setup", "up"} THEN "dying" ELSE @]
    /\ UNCHANGED <<class, disable_respawn, phase, ready>>

\* event_finished for the event the job waits for: nothing blocks it any more.
EventFinished ==
    /\ Alive /\ phase = "events"
    /\ job.blocker
    /\ job' = Advance([job EXCEPT !.blocker = FALSE])
    /\ UNCHANGED <<class, disable_respawn, phase, ready>>

-----------------------------------------------------------------------------
(* The turn of nih_main_loop: descriptors, children, timers and events     *)

Select ==
    /\ Alive /\ phase = "events"
    /\ phase' = "io"
    /\ ready' = {P \in ProcessType : job.pipe[P] \in Readable}
    /\ UNCHANGED <<class, job, disable_respawn>>

IoDone ==
    /\ Alive /\ phase = "io"
    /\ ready = {} /\ ReadableOld = {}
    /\ phase' = "children"
    /\ UNCHANGED <<class, job, disable_respawn, ready>>

ChildrenDone ==
    /\ Alive /\ phase = "children"
    /\ \A P \in ProcessType : job.child[P] # "zombie"
    /\ phase' = "events"
    /\ UNCHANGED <<class, job, disable_respawn, ready>>

-----------------------------------------------------------------------------
(* The children (in the kernel, outside the daemon)                        *)

\* Set-up ends with the exec, or writes its error and gives up.
SetUp(c) ==
    IF c.child # "setup" THEN {}
    ELSE {[c EXCEPT !.child = "up", !.pipe = IF @ = "open" THEN "eof" ELSE @]}
         \cup {e \in {[c EXCEPT !.child = "dying",
                                !.pipe = IF @ = "open" THEN "error" ELSE @]} :
                  c.process \in SetupFails}

\* A program ends; the kernel closes what it held.
Exit(c) ==
    {e \in {[c EXCEPT !.child = "zombie",
                      !.pipe = IF @ = "open" THEN "eof" ELSE @]} :
        /\ c.child \in {"up", "dying"}
        /\ ReapFirst \/ c.pipe = "none"}

Child(P) == [process |-> P, child |-> job.child[P], pipe |-> job.pipe[P]]

Becomes(P, c) ==
    /\ Alive
    /\ job' = [job EXCEPT !.child[P] = c.child, !.pipe[P] = c.pipe]
    /\ UNCHANGED <<class, disable_respawn, phase, ready>>

ChildSetUp(P) == \E c \in SetUp(Child(P)) : Becomes(P, c)

ChildExits(P) == \E c \in Exit(Child(P)) : Becomes(P, c)

OldChildSteps(o) ==
    /\ Alive /\ o \in job.old
    /\ \E c \in SetUp(o) \cup Exit(o) :
            job' = [job EXCEPT !.old = (@ \ {o}) \cup Kept(c)]
    /\ UNCHANGED <<class, disable_respawn, phase, ready>>

-----------------------------------------------------------------------------

\* After a failed assertion, or once it has used freed memory, nothing more is
\* said about the daemon.
Aborted == ~Alive /\ UNCHANGED vars

Loop == Select \/ IoDone \/ ChildrenDone

Next ==
    \/ \E wait \in BOOLEAN : Start(wait) \/ Stop(wait) \/ Restart(wait)
    \/ Quiesce
    \/ \E P \in ProcessType : ReadPipe(P) \/ Reap(P)
    \/ \E o \in job.old : ReadOldPipe(o) \/ OldChildSteps(o)
    \/ MainReady \/ KillTimer \/ EventFinished
    \/ Loop
    \/ \E P \in ProcessType : ChildSetUp(P) \/ ChildExits(P)
    \/ Aborted

Spec == Init /\ [][Next]_vars

\* What the daemon and its environment can be relied on to do: the main loop
\* turns and handles what it finds; a set-up ends; a script ends; a program
\* that got SIGKILL dies; the handlers of a job's own event finish; timers come
\* due; a program with an expect stanza gets ready if it lives.  Nothing says
\* that a main process ends by itself, or that anyone sends a command.
Fairness ==
    /\ WF_vars(Loop)
    /\ \A P \in ProcessType :
            WF_vars(ReadPipe(P)) /\ WF_vars(Reap(P)) /\ WF_vars(ChildSetUp(P))
    /\ \A P \in ProcessType \ {"main"} : WF_vars(ChildExits(P))
    /\ WF_vars(job.child["main"] = "dying" /\ ChildExits("main"))
    /\ SF_vars(EventFinished) /\ SF_vars(KillTimer) /\ SF_vars(MainReady)

FairSpec == Spec /\ Fairness

-----------------------------------------------------------------------------
(* Properties                                                              *)

\* The type of the state.
TypeOK ==
    /\ class \in Classes
    /\ job \in JobType
    /\ disable_respawn \in BOOLEAN
    /\ phase \in Phase
    /\ ready \subseteq ProcessType

\* What a fault of instance j can only be: the assertion on a kill timeout of
\* zero, or the reader of the set-up pipe going on after a post-stop process that
\* could not be set up has ended the job.
FaultKnown(j) ==
    /\ j.fault = "assert" => j.state = "killed" /\ class.kill_timeout = 0
    /\ j.fault = "freed" =>
        j.state = "waiting" /\ "post_stop" \in class.process \cap SetupFails

\* Two ways, and no third, lead a handler into an assertion that fails or into a
\* job it has freed: `kill timeout 0', which parse_job.c accepts and
\* job_process_set_kill_timer asserts against, and job_process_child_reader after
\* the failed set-up of a post-stop process.  The assertions covered are those
\* on goal and state pairs (job_next_state), on the state in which a process
\* ends (job_process_terminated), and on the pid and the timer of a kill
\* (job_process_kill, _set_kill_timer, _kill_timer), whatever the order of
\* commands, deaths, reports and timers, as long as a report is read before the
\* death of the child that wrote it (with ReapFirst a third way opens).
KnownFaults == FaultKnown(job)

\* The states in which each process may run.
ProcessState(P) ==
    IF P = "main"
    THEN {"spawned", "post_start", "running", "pre_stop", "stopping", "killed"}
    ELSE {P}

\* The pids the job holds are those of its children that have not been reaped:
\* no child is forgotten (job_child_error_handler, job_process_terminated clear
\* the right pid) and a script only runs in the state it is the script of.
Supervised ==
    /\ job.old = {}
    /\ \A P \in ProcessType :
        /\ job.pid[P] <=> job.child[P] # "none"
        /\ job.pid[P] => P \in class.process /\ job.state \in ProcessState(P)

\* The set-up of the security process failed: job_child_error_handler changes
\* the goal and leaves the job in its state, with no process.
SecurityFailed(j) ==
    j.state = "security" /\ ~j.pid["security"] /\ j.failed_process = "security"

\* Outside the two states of rest something is under way that will move the
\* job on: its own event, or a process whose end a handler waits for.  The one
\* exception is a job whose security process could not be set up.
WaitsForSomething ==
    /\ job.blocker <=> job.state \in {"starting", "stopping"}
    /\ job.state \in {"spawned", "killed"} => job.pid["main"]
    /\ job.state \in ProcessType => job.pid[job.state] \/ SecurityFailed(job)

\* SIGTERM goes to the process group of the main process, which is the daemon's
\* own until the set-up is over; the kill timer never outlives its target.
KillsRightProcess ==
    /\ job.state = "killed" => job.child["main"] # "setup"
    /\ job.kill_timer => job.state = "killed" /\ job.pid["main"]

\* A pending respawn belongs to a dead main process and to a script whose end
\* will carry it out.
RespawnPending ==
    job.goal = "respawn" =>
        /\ ~job.pid["main"]
        /\ job.state \in {"post_start", "pre_stop"} /\ job.pid[job.state]

\* Nobody is held back by a service that runs, or by a job that is gone
\* (job_finished is called on every way in).
NobodyLeftWaiting ==
    \/ job.state = "waiting"
    \/ job.state = "running" /\ job.goal = "start" /\ ~class.task
    => job.blocking = "none"

\* What an instance j satisfies between two handlers: the inductive form of the
\* invariants above.  It adds what the set-up pipe says about the child, that a
\* main process is set up once the job has left spawned, where the goal is
\* known, and that a job is started without the failure of its last run.
JobInv(j) ==
    /\ j.old = {} /\ FaultKnown(j)
    /\ \A P \in ProcessType :
        /\ j.pid[P] <=> j.child[P] # "none"
        /\ j.pid[P] => P \in class.process /\ j.state \in ProcessState(P)
        /\ j.child[P] = "setup" <=> j.pipe[P] = "open"
        /\ j.pipe[P] = "eof" => j.child[P] \in {"up", "dying"}
        /\ j.pipe[P] = "error" => j.child[P] = "dying" /\ P \in SetupFails
    /\ j.child["main"] = "setup" \/ j.pipe["main"] = "error" => j.state = "spawned"
    /\ j.blocker <=> j.state \in {"starting", "stopping"}
    /\ j.state \in {"spawned", "killed"} => j.pid["main"]
    /\ j.state \in ProcessType => j.pid[j.state] \/ SecurityFailed(j)
    /\ j.state = "starting" \/ j.pid["security"] => ~j.failed
    /\ j.kill_timer => j.state = "killed"
    /\ j.state = "waiting" => j.goal = "stop" /\ j.blocking = "none"
    /\ j.state = "running" => j.goal = "start" /\ (class.task \/ j.blocking = "none")
    /\ j.goal = "respawn" =>
        ~j.pid["main"] /\ j.state \in {"post_start", "pre_stop"}

\* The inductive invariant of Spec: the above, and what select() reported can
\* still be read and is dealt with before anything else.
IndInv ==
    /\ TypeOK
    /\ JobInv(job)
    /\ \A P \in ready : job.pipe[P] \in Readable
    /\ phase # "io" => ready = {}

\* The states between the four events a job emits.
AfterStarting == {"starting", "security", "pre_start", "spawned", "post_start"}
AfterStarted == {"running", "pre_stop"}
AfterStopping == {"stopping", "killed", "post_stop"}

\* The last event emitted, by state.
EventOf(s) ==
    CASE s \in AfterStarting -> {"starting"}
      [] s \in AfterStarted  -> {"started"}
      [] s \in AfterStopping -> {"stopping"}
      [] s = "waiting"       -> {"none", "stopped"}

\* The last event is the one of the state, and from stopping on its RESULT is
\* that of the job.
Telling(j) ==
    /\ j.event \in EventOf(j.state)
    /\ j.state \in AfterStopping => j.event_failed = j.failed

\* The inductive invariant behind the action properties below: wherever a job
\* is, its state says which event the others have heard of last.
EventInv == IndInv /\ Telling(job)

\* The job keeps the promise of JobEvents.
Events == INSTANCE JobEvents
            WITH event <- job.event, main <- job.child["main"] # "none"

KeepsEventOrder == Events!Spec

\* The stopped event tells the RESULT the stopping event told, unless it was
\* the post-stop process that failed in between.
ResultsMatch ==
    [][job.event = "stopping" /\ job'.event = "stopped"
            /\ job.event_failed # job'.event_failed
       => job'.failed_process = "post_stop"]_vars

\* Once respawning is disabled, a job that loses its main process without
\* having been told to restart is stopped.
NoRespawnAfterQuiesce ==
    [][disable_respawn /\ job.pid["main"] /\ ~job'.pid["main"]
            /\ job.state \notin {"stopping", "killed"}
       => job'.goal = "stop"]_vars

\* Where a job is left for good: the daemon has aborted, the security process
\* could not be set up, or the main process may not be signalled.
LeftForGood ==
    ~Alive \/ SecurityFailed(job) \/ (job.state = "killed" /\ ~class.killable)

\* A job told to stop gets there, or its goal is changed again, or it ends where
\* the code leaves it for good.
StopCompletes ==
    (job.goal = "stop")
        ~> (job.state = "waiting" \/ job.goal # "stop" \/ LeftForGood)

\* Whoever waits for a stop, or for a service to start, gets an answer or sees
\* the goal turn against the call (and then StopCompletes answers it), unless the
\* job is one the code leaves where it is for good.
CallersAnswered ==
    /\ (job.blocking = "stop") ~> (job.blocking # "stop" \/ LeftForGood)
    /\ (job.blocking # "none" /\ job.goal = "start" /\ ~class.task)
            ~> (job.blocking = "none" \/ job.goal # "start" \/ LeftForGood)

=============================================================================
