------------------------------ MODULE Quiesce ------------------------------
(***************************************************************************)
(* The end of a session (init/quiesce.c): a session init that is asked to  *)
(* end gives jobs that start on the session-end event time to run, tells   *)
(* all jobs to stop, waits for them to stop, and leaves its main loop.     *)
(*                                                                         *)
(* The main loop serves input, then timers, then events; time passes while *)
(* it waits for input.  Of a job the states are kept in which a stop takes *)
(* a different way: a running job is signalled when its stopping event is  *)
(* done with, a job whose post-start or pre-stop script runs not before    *)
(* the script ends.                                                        *)
(***************************************************************************)
EXTENDS Integers, FiniteSets, Sequences

CONSTANTS
    Class,             \* job classes; each has one instance at most
    StartOn,           \* StartOn[c]: the events c starts on
    KillTimeout,       \* KillTimeout[c]: seconds until a process is killed
    Respawns,          \* the classes with the respawn stanza
    Abstract,          \* the classes without a main process
    PostStart,         \* the classes with a post-start script
    PreStop,           \* the classes with a pre-stop script
    Held,              \* the classes whose stopping event other jobs may hold
    Runtime,           \* QUIESCE_DEFAULT_JOB_RUNTIME
    DefaultTimeout,    \* JOB_DEFAULT_KILL_TIMEOUT
    MaxRequests,       \* bound on what is asked from outside
    LastRequest,       \* the last time it is asked, so that the end is in bounds
    MaxTime            \* bound on the clock

ASSUME ClassesAreFinite == IsFiniteSet(Class)
ASSUME TimesAreSeconds ==
    /\ Runtime \in Nat \ {0} /\ DefaultTimeout \in Nat \ {0}
    /\ KillTimeout \in [Class -> Nat \ {0}]
ASSUME BoundsAreNumbers == MaxTime \in Nat \ {0}

VARIABLES
    quiesce_phase,        \* "not_quiesced", "wait", "kill", "cleanup"
    quiesce_start_time,   \* 0 until it begins
    quiesce_phase_time,   \* when the phase began
    max_kill_timeout,     \* 0 until the kill phase
    disable_respawn,
    due,                  \* when the periodic timer is due; 0 for no timer
    job,                  \* job[c]: the instance, or NoInstance
    events,               \* the events that are pending
    loop,                 \* what the main loop is at, or "ended"
    exit,                 \* exit_loop of the main loop
    time,                 \* the clock
    requests,             \* what was asked from outside so far
    fault                 \* an assertion that failed, or "none"

quiesceVars == <<quiesce_phase, quiesce_start_time, quiesce_phase_time,
                 max_kill_timeout, disable_respawn, due>>
vars == <<quiesceVars, job, events, loop, exit, time, requests, fault>>

-----------------------------------------------------------------------------
(* Jobs                                                                    *)

NoInstance == [state |-> "none", pid |-> FALSE, goal |-> "stop", kill |-> 0, told |-> FALSE]

\* A new instance waits for its starting event first.
Started == [NoInstance EXCEPT !.state = "starting", !.goal = "start"]

\* The states in which a script runs beside the main process.
Scripts == {"post_start", "pre_stop"}

\* job_change_goal of an instance to stop: only a running one moves, to its
\* pre-stop script or to its stopping event.  Nothing is signalled yet.
StopJob(c, j, by) ==
    CASE j.goal = "stop" -> [j EXCEPT !.told = @ \/ (by /\ j.state # "none")]
      [] j.goal # "stop" /\ j.state = "running" ->
            [j EXCEPT !.goal = "stop", !.told = by,
                      !.state = IF j.pid /\ c \in PreStop THEN "pre_stop" ELSE "stopping"]
      [] j.goal # "stop" /\ j.state # "running" -> [j EXCEPT !.goal = "stop", !.told = by]

\* job_process_stop_all
job_process_stop_all(js) == [c \in Class |-> StopJob(c, js[c], TRUE)]

\* job_process_jobs_running
job_process_jobs_running(js) == \E c \in Class : js[c].pid \/ js[c].state \in Scripts

\* job_class_max_kill_timeout
job_class_max_kill_timeout(js) ==
    LET timeouts == {DefaultTimeout} \cup {KillTimeout[c] : c \in {d \in Class : js[d].state # "none"}}
    IN  CHOOSE t \in timeouts : \A u \in timeouts : u <= t

-----------------------------------------------------------------------------
(* Ending the session                                                      *)

\* quiesce_event_match
quiesce_event_match(e) == \E c \in Class : e \in StartOn[c]

\* Mutant: the timer is forgotten when there is no wait phase.
quiesce_NoTimer(requester) ==
    IF quiesce_phase # "not_quiesced" THEN UNCHANGED <<quiesceVars, job, events>>
    ELSE LET wait == requester = "session" /\ quiesce_event_match("session-end")
         IN  /\ quiesce_phase' = IF wait THEN "wait" ELSE "kill"
             /\ quiesce_start_time' = time
             /\ quiesce_phase_time' = time
             /\ max_kill_timeout' = IF wait THEN 0 ELSE job_class_max_kill_timeout(job)
             /\ job' = job_process_stop_all(job)
             /\ events' = Append(events, "session-end")
             /\ due' = IF wait THEN time + 1 ELSE 0
             /\ disable_respawn' = TRUE

\* quiesce; a system shutdown skips the wait phase, and so does a logout no
\* job cares about.
quiesce(requester) ==
    IF quiesce_phase # "not_quiesced" THEN UNCHANGED <<quiesceVars, job, events>>
    ELSE LET wait == requester = "session" /\ quiesce_event_match("session-end")
         IN  /\ quiesce_phase' = IF wait THEN "wait" ELSE "kill"
             /\ quiesce_start_time' = time
             /\ quiesce_phase_time' = time
             /\ max_kill_timeout' = IF wait THEN 0 ELSE job_class_max_kill_timeout(job)
             /\ job' = job_process_stop_all(job)
             /\ events' = Append(events, "session-end")
             /\ due' = time + 1
             /\ disable_respawn' = TRUE

\* Mutant: the time of the wait phase counts for the kill phase too.
KillPhase_SameTime ==
    /\ quiesce_phase' = "kill"
    /\ max_kill_timeout' = job_class_max_kill_timeout(job)
    /\ job' = job_process_stop_all(job)
    /\ UNCHANGED quiesce_phase_time

\* The wait phase is over: all jobs are told to stop, those too that have
\* started since.
KillPhase ==
    /\ quiesce_phase' = "kill"
    /\ quiesce_phase_time' = time
    /\ max_kill_timeout' = job_class_max_kill_timeout(job)
    /\ job' = job_process_stop_all(job)

\* The session is over.
Finish ==
    /\ quiesce_phase' = "cleanup"
    /\ exit' = TRUE
    /\ due' = 0

\* Nothing has ended yet: the timer is due again a second later.
Again ==
    /\ due' = time + 1
    /\ UNCHANGED exit

\* quiesce_wait_callback
quiesce_wait_callback ==
    LET running == job_process_jobs_running(job)
        since   == time - quiesce_phase_time
    IN  /\ UNCHANGED <<quiesce_start_time, disable_respawn, events, time, requests, loop>>
        /\ \/ /\ quiesce_phase = "kill"
              /\ since > max_kill_timeout \/ ~ running
              /\ Finish
              /\ UNCHANGED <<quiesce_phase_time, max_kill_timeout, job, fault>>
           \/ /\ quiesce_phase = "kill"
              /\ since <= max_kill_timeout /\ running
              /\ Again
              /\ UNCHANGED <<quiesce_phase, quiesce_phase_time, max_kill_timeout, job, fault>>
           \/ /\ quiesce_phase = "wait"
              /\ running
              /\ IF since >= Runtime THEN KillPhase
                 ELSE UNCHANGED <<quiesce_phase, quiesce_phase_time, max_kill_timeout, job>>
              /\ Again
              /\ UNCHANGED fault
           \/ /\ quiesce_phase = "wait"
              /\ ~ running
              /\ quiesce_phase_time' = time
              /\ max_kill_timeout' = job_class_max_kill_timeout(job)
              /\ job' = job_process_stop_all(job)
              /\ Finish
              /\ UNCHANGED fault
           \/ /\ quiesce_phase \notin {"wait", "kill"}
              /\ fault' = "callback"
              /\ UNCHANGED <<quiesce_phase, quiesce_phase_time, max_kill_timeout, job, due, exit>>

\* quiesce_complete: the timer stays registered.
quiesce_complete ==
    /\ quiesce_phase' = "cleanup"
    /\ exit' = TRUE

-----------------------------------------------------------------------------
(* Input                                                                   *)

Request ==
    /\ loop = "input"
    /\ requests < MaxRequests
    /\ time <= LastRequest
    /\ requests' = requests + 1
    /\ UNCHANGED <<loop, exit, time, fault>>

\* control_end_session of a session init
control_end_session == Request /\ quiesce("session")

\* term_handler of a session init
term_handler == Request /\ quiesce("system")

\* Somebody emits an event.
EmitEvent ==
    /\ Request
    /\ events' = Append(events, "other")
    /\ UNCHANGED <<quiesceVars, job>>

\* Somebody stops a job.
StopRequest(c) ==
    /\ job[c].goal # "stop"
    /\ Request
    /\ job' = [job EXCEPT ![c] = StopJob(c, @, FALSE)]
    /\ UNCHANGED <<quiesceVars, events>>

\* A process that ends is started again.
Ends(c) == c \in Respawns /\ job[c].goal = "start" /\ ~ disable_respawn

\* job_process_terminated of a main process, with a failure or without: one
\* that was killed is gone or starts again, and announces either; the others
\* wait for their script or for their stopping event.
ProcessEnds(c) ==
    LET again == job[c].goal = "start"
    IN  /\ loop = "input"
        /\ job[c].pid
        /\ \/ /\ job[c].state = "killed"
              /\ job' = [job EXCEPT ![c] = IF again THEN Started ELSE NoInstance]
              /\ events' = Append(events, IF again THEN "starting" ELSE "stopped")
           \/ /\ job[c].state = "stopping"
              /\ job' = [job EXCEPT ![c].pid = FALSE]
              /\ UNCHANGED events
           \/ /\ job[c].state = "running"
              /\ \E failed \in BOOLEAN :
                    job' = [job EXCEPT ![c].pid = FALSE, ![c].state = "stopping",
                                       ![c].goal = IF failed /\ Ends(c) THEN "start" ELSE "stop"]
              /\ UNCHANGED events
           \/ /\ job[c].state \in Scripts
              /\ \E failed \in BOOLEAN :
                    job' = [job EXCEPT ![c].pid = FALSE,
                                       ![c].goal = IF failed /\ Ends(c) THEN "respawn" ELSE "stop"]
              /\ UNCHANGED events
        /\ UNCHANGED <<quiesceVars, loop, exit, time, requests, fault>>

\* A script ends: the job runs, or goes on to its stopping event.
ScriptEnds(c) ==
    /\ loop = "input"
    /\ job[c].state \in Scripts
    /\ job' = [job EXCEPT ![c].state = IF job[c].goal = "start" THEN "running" ELSE "stopping",
                          ![c].goal = IF @ = "respawn" THEN "start" ELSE @]
    /\ UNCHANGED <<quiesceVars, events, loop, exit, time, requests, fault>>

\* The timers that are due.
DueKill == {c \in Class : job[c].kill # 0 /\ job[c].kill <= time}
DueTimer == due # 0 /\ due <= time

\* Events that are not done with.  The stopping event of a job is one while
\* the job is stopping, unless somebody holds it.
Pending == events # << >> \/ \E c \in Class \ Held : job[c].state = "stopping"

\* The loop waits for input; it wakes up for every timer.
Tick ==
    /\ loop = "input"
    /\ time < MaxTime
    /\ DueKill = {} /\ ~ DueTimer
    /\ ~ Pending
    /\ time' = time + 1
    /\ UNCHANGED <<quiesceVars, job, events, loop, exit, requests, fault>>

-----------------------------------------------------------------------------
(* The main loop                                                           *)

ServeTimers ==
    /\ loop = "input"
    /\ DueTimer \/ DueKill # {} \/ Pending
    /\ loop' = "timers"
    /\ UNCHANGED <<quiesceVars, job, events, exit, time, requests, fault>>

\* job_process_kill_timer: the process is killed and will end.
job_process_kill_timer(c) ==
    /\ loop = "timers"
    /\ c \in DueKill
    /\ job' = [job EXCEPT ![c].kill = 0]
    /\ UNCHANGED <<quiesceVars, events, loop, exit, time, requests, fault>>

Timer ==
    /\ loop = "timers"
    /\ DueTimer
    /\ quiesce_wait_callback

ServeEvents ==
    /\ loop = "timers"
    /\ DueKill = {} /\ ~ DueTimer
    /\ loop' = "events"
    /\ UNCHANGED <<quiesceVars, job, events, exit, time, requests, fault>>

\* event_pending_handle_jobs: jobs start on the event, and a session that
\* is to end does so when no instance is left.
event_pending_handle_jobs ==
    LET wanted  == {c \in Class : Head(events) \in StartOn[c] /\ job[c].goal # "start"}
        new     == {c \in wanted : job[c].state = "none"}
        handled == [c \in Class |->
                      CASE c \in new -> Started
                        [] c \in wanted \ new -> [job[c] EXCEPT !.goal = "start", !.told = FALSE]
                        [] OTHER -> job[c]]
    IN  /\ loop = "events"
        /\ events # << >>
        /\ events' = Tail(events) \o [i \in 1..Cardinality(new) |-> "starting"]
        /\ job' = handled
        /\ IF quiesce_phase # "not_quiesced" /\ \A c \in Class : handled[c].state = "none"
           THEN quiesce_complete
           ELSE UNCHANGED <<quiesce_phase, exit>>
        /\ UNCHANGED <<quiesce_start_time, quiesce_phase_time, max_kill_timeout,
                       disable_respawn, due, loop, time, requests, fault>>

\* The starting event of a job is done with; nothing but other jobs can
\* delay it.
LeaveStarting(c) ==
    /\ loop = "events"
    /\ job[c].state = "starting"
    /\ job' = [job EXCEPT ![c] =
                IF job[c].goal = "start"
                THEN [@ EXCEPT !.state = IF c \in PostStart THEN "post_start" ELSE "running",
                               !.pid = c \notin Abstract]
                ELSE [@ EXCEPT !.state = "stopping"]]
    /\ UNCHANGED <<quiesceVars, events, loop, exit, time, requests, fault>>

\* The stopping event of a job is done with: job_process_kill signals its
\* process and sets the kill timer; a job without process is gone or starts
\* again.
LeaveStopping(c) ==
    LET again == job[c].goal = "start"
    IN  /\ loop = "events"
        /\ job[c].state = "stopping"
        /\ IF job[c].pid
           THEN /\ job' = [job EXCEPT ![c].state = "killed", ![c].kill = time + KillTimeout[c]]
                /\ UNCHANGED events
           ELSE /\ job' = [job EXCEPT ![c] = IF again THEN Started ELSE NoInstance]
                /\ events' = Append(events, IF again THEN "starting" ELSE "stopped")
        /\ UNCHANGED <<quiesceVars, loop, exit, time, requests, fault>>

\* All events are handled: the loop begins again, unless it was told to end.
EndOfLoop ==
    /\ loop = "events"
    /\ ~ Pending
    /\ loop' = IF exit THEN "ended" ELSE "input"
    /\ UNCHANGED <<quiesceVars, job, events, exit, time, requests, fault>>

-----------------------------------------------------------------------------
Init ==
    /\ quiesce_phase = "not_quiesced"
    /\ quiesce_start_time = 0 /\ quiesce_phase_time = 0
    /\ max_kill_timeout = 0
    /\ disable_respawn = FALSE
    /\ due = 0
    /\ \E up \in SUBSET Class :
        job = [c \in Class |-> IF c \in up
                               THEN [Started EXCEPT !.state = "running", !.pid = c \notin Abstract]
                               ELSE NoInstance]
    /\ events = << >>
    /\ loop = "input"
    /\ exit = FALSE
    /\ time = 1
    /\ requests = 0
    /\ fault = "none"

\* The session is over, nobody ends it, or the clock is at its bound.
Rest ==
    /\ loop = "ended" \/ quiesce_phase = "not_quiesced" \/ time = MaxTime
    /\ UNCHANGED vars

Loop ==
    \/ ServeTimers \/ Timer \/ ServeEvents \/ event_pending_handle_jobs \/ EndOfLoop
    \/ \E c \in Class :
        job_process_kill_timer(c) \/ LeaveStarting(c) \/ LeaveStopping(c)

Next ==
    \/ control_end_session \/ term_handler \/ EmitEvent
    \/ \E c \in Class : StopRequest(c) \/ ProcessEnds(c) \/ ScriptEnds(c)
    \/ Tick \/ Loop \/ Rest

\* The main loop goes round and time passes; no job has to end.
Spec == Init /\ [][Next]_vars /\ WF_vars(Tick) /\ WF_vars(Loop)

-----------------------------------------------------------------------------
(* Properties                                                              *)

\* Types of the variables.
TypeOK ==
    /\ quiesce_phase \in {"not_quiesced", "wait", "kill", "cleanup"}
    /\ quiesce_start_time \in 0..MaxTime /\ quiesce_phase_time \in 0..MaxTime
    /\ max_kill_timeout \in Nat
    /\ disable_respawn \in BOOLEAN /\ exit \in BOOLEAN
    /\ due \in 0..(MaxTime + 1)
    /\ job \in [Class -> [state : {"none", "starting", "running", "stopping", "killed"} \cup Scripts,
                          pid : BOOLEAN, goal : {"start", "stop", "respawn"}, kill : Nat, told : BOOLEAN]]
    /\ loop \in {"input", "timers", "events", "ended"}
    /\ fault \in {"none", "callback"}

\* The timer of the shutdown never runs after the last instance has ended
\* the session, though quiesce_complete leaves it registered: the loop ends
\* before timers are served again.
NoLateTimer == fault = "none"

\* The longest a session takes to end: the wait phase, and a second more
\* than the longest kill timeout.
Longest ==
    LET all == {DefaultTimeout} \cup {KillTimeout[c] : c \in Class}
    IN  Runtime + 1 + (CHOOSE t \in all : \A u \in all : u <= t)

\* Whatever the jobs do, and whoever asks again meanwhile, a session that is
\* to end does so within the two limits.
EndsInTime ==
    quiesce_start_time # 0 /\ loop # "ended" => time - quiesce_start_time <= Longest

\* The jobs that need not be signalled at once when they are told to stop.
Delayed == PostStart \cup PreStop \cup Held

\* No main process that was told to stop outlives the session because the
\* session did not wait for its kill timeout: it has been sent its signal and,
\* the timeout over, SIGKILL.  A process may be left alone only when its own
\* post-start or pre-stop script, or another job that held its stopping
\* event, kept the signal from it when the kill phase began.
NotAbandoned ==
    loop = "ended" => \A c \in Class : job[c].told /\ job[c].pid =>
        \/ job[c].state = "killed" /\ job[c].kill = 0
        \/ /\ c \in Delayed
           /\ job[c].state # "killed" \/ job[c].kill > quiesce_phase_time + KillTimeout[c]

\* A session that is asked to end ends.
SessionEnds == quiesce_phase # "not_quiesced" ~> loop = "ended"

\* A session ends neither too late nor too early (quiesce_wait_callback,
\* quiesce_complete).
EndsWell == TypeOK /\ NoLateTimer /\ EndsInTime /\ NotAbandoned
=============================================================================
