---------------------------- MODULE EventQueue -----------------------------
(***************************************************************************)
(* The queue of events and the jobs that start, stop and wait because of   *)
(* them: init/event.c, and those parts of init/job.c, init/job_class.c and *)
(* init/control.c that block and unblock events.                           *)
(*                                                                         *)
(* An event stays in the queue while anything refers to it: a leaf of a    *)
(* `start on' condition of a class, a leaf of the `stop on' condition of   *)
(* an instance, or the blocking list of an instance it started or stopped. *)
(* Events are freed when nobody has blocked them, so the counts and the    *)
(* references have to agree.                                               *)
(*                                                                         *)
(* An instance is seen from outside: module Job has its states in full.    *)
(* Here one stage, "spawning", stands for the states from security to      *)
(* post_start, and one, "ending", for killed and post_stop; each is left   *)
(* when the last process it waits for is gone.  Every class has at most    *)
(* one instance.                                                           *)
(***************************************************************************)
EXTENDS EventOperator, TLC, SequencesExt

CONSTANTS
    ClassOrder,   \* the job classes, in the order the hash table has them
    ClassOf,      \* [class -> its definition]
    FailedName,   \* [name -> that name with "/failed"], unless it has it
    Stimuli,      \* events other programs emit: set of [name, env]
    Commanded,    \* classes that are started and stopped by hand
    MaxStimuli    \* bound on what is asked of the daemon from outside

Class == {ClassOrder[i] : i \in DOMAIN ClassOrder}

\* The members of JobClass that matter here: `spawns' tells whether anything
\* runs before the job is running, `main' whether there is a main process,
\* `ends' a post-stop script, `nameless' an instance name that refers to a
\* variable no event has.  An empty condition is NULL.
ASSUME ClassAssumption ==
    \A c \in Class :
        /\ DOMAIN ClassOf[c] = {"start_on", "stop_on", "task", "spawns", "main",
                                "pre_stop", "ends", "nameless", "cgroup"}
        /\ \A f \in DOMAIN ClassOf[c] \ {"start_on", "stop_on"} :
                ClassOf[c][f] \in BOOLEAN

\* A condition is a tree: every operator has its two children before it.
Tree(c) ==
    /\ c \in Seq(Range(c))
    /\ \A i \in DOMAIN c :
        \/ c[i].type = "match"
        \/ c[i].type \in {"and", "or"} /\ Left(c, i) \in 1..(i - 1)

ASSUME TreeAssumption ==
    \A c \in Class : Tree(ClassOf[c].start_on) /\ Tree(ClassOf[c].stop_on)

\* "none" and "emit" stand for no job; the events of a job have other names
\* than those that announce a failure.
ASSUME NameAssumption ==
    /\ ClassOrder \in Seq(Class) /\ Commanded \subseteq Class
    /\ "none" \notin Class /\ "emit" \notin Class
    /\ \A n \in DOMAIN FailedName : FailedName[n] \notin {"starting", "stopping"}

ASSUME NoEventAssumption == NoEvent = 0

\* Nobody but the daemon emits the events a job waits for.
OwnNames == \A x \in Stimuli : x.name \notin {"starting", "stopping"}

\* A class that needs the cgroup manager starts on any one event it mentions.
AnyEventStarts ==
    \A c \in Class :
        LET cond == ClassOf[c].start_on
        IN  ClassOf[c].cgroup =>
                \A leaf \in [DOMAIN cond -> BOOLEAN] :
                    (\E i \in Leaves(cond) : leaf[i]) =>
                        event_operator_update(cond, leaf)[Len(cond)]

VARIABLES
    sys,       \* [queue, event, start_on, cgmanager_wait, deleted, job,
               \*  cgroup_manager, fault]
    poll,      \* event_poll: position in the queue (0 outside), poll_again
    asked      \* how much has been asked from outside

vars == <<sys, poll, asked>>

Stage == {"waiting", "starting", "spawning", "running", "pre_stop",
          "stopping", "ending"}

\* An instance that does not exist is one in the stage waiting.
NoJob(c) ==
    [stage |-> "waiting", goal |-> "stop", blocker |-> NoEvent,
     blocking |-> {}, caller |-> FALSE, failed |-> FALSE, main |-> FALSE,
     stop_on |-> event_operator_new(ClassOf[c].stop_on)]

-----------------------------------------------------------------------------
(* Events                                                                  *)

Fail(s, what) == IF s.fault = "none" THEN [s EXCEPT !.fault = what] ELSE s

\* The event event_new would make: any number not in use, so the smallest.
NewEvent(s) ==
    CHOOSE i \in 1..(Len(s.queue) + 1) :
        i \notin DOMAIN s.event /\ \A k \in 1..(i - 1) : k \in DOMAIN s.event

\* event_new, with the one thing that waits for the event: the job that
\* emitted it, the caller of EmitEvent, or nothing.
event_new(s, name, env, waiter) ==
    LET n == NewEvent(s)
        ev == [name |-> name, env |-> env, progress |-> "pending",
               failed |-> FALSE, blockers |-> 0, blocking |-> waiter]
    IN  [s EXCEPT !.queue = Append(@, n),
                  !.event = [e \in DOMAIN s.event \cup {n} |->
                                IF e = n THEN ev ELSE s.event[e]]]

\* event_block, n times.
event_block(s, e, n) == [s EXCEPT !.event[e].blockers = @ + n]

\* event_unblock, times[e] times for each event e: an event already freed, or
\* unblocked more often than blocked, is an error of the daemon.
event_unblock(s, times) ==
    LET asserted == \E e \in DOMAIN s.event : times[e] > s.event[e].blockers
    IN  IF asserted THEN Fail(s, "assert")
        ELSE [s EXCEPT !.event = [e \in DOMAIN s.event |->
                                    [s.event[e] EXCEPT !.blockers = @ - times[e]]]]

\* References that point to nothing.
Freed(s, ids) == ids \ ({NoEvent} \cup DOMAIN s.event)

\* event_operator_reset or event_operator_destroy, as the events see it.
Release(s, oper) ==
    IF Freed(s, {oper.event[i] : i \in DOMAIN oper.event}) # {}
    THEN Fail(s, "freed")
    ELSE event_unblock(s, [e \in DOMAIN s.event |-> Held(oper, e)])

-----------------------------------------------------------------------------
(* What a job blocks                                                       *)

\* job_finished: everyone held back by the job is let go.  An entry of
\* `blocking' is <<leaf, event>>.
job_finished(s, c, failed) ==
    LET refs == s.job[c].blocking
        ids  == {r[2] : r \in refs}
        u == event_unblock(s, [e \in DOMAIN s.event |->
                                    Cardinality({r \in refs : r[2] = e})])
        m == [u EXCEPT !.event = [e \in DOMAIN u.event |->
                [u.event[e] EXCEPT !.failed = @ \/ (failed /\ e \in ids)]]]
        f == [m EXCEPT !.job[c].blocking = {}, !.job[c].caller = FALSE]
    IN  IF Freed(s, ids) # {} THEN Fail(s, "freed") ELSE f

\* job_failed: the first failure counts.
job_failed(s, c) ==
    IF s.job[c].failed THEN s
    ELSE job_finished([s EXCEPT !.job[c].failed = TRUE], c, TRUE)

Variable(key, value) == [key |-> key, value |-> value]

\* job_emit_event: JOB and INSTANCE, and the RESULT of a job that stops.
job_emit_event(s, c, name, block) ==
    LET result == IF s.job[c].failed THEN "failed" ELSE "ok"
        env == <<Variable("JOB", c), Variable("INSTANCE", "")>> \o
               IF name \in {"stopping", "stopped"}
               THEN <<Variable("RESULT", result)>> ELSE << >>
        n == event_new(s, name, env, IF block THEN c ELSE "none")
    IN  IF block THEN [n EXCEPT !.job[c].blocker = NewEvent(s)] ELSE n

-----------------------------------------------------------------------------
(* The stages of a job                                                     *)

\* The instance is freed, and its `stop on' condition with it.  A class that
\* has been loaded again goes too, and with it what it has matched.
EnterWaiting(s, c) ==
    LET e == job_emit_event([s EXCEPT !.job[c].stage = "waiting"], c,
                            "stopped", FALSE)
        f == job_finished(e, c, FALSE)
        r == [Release(f, f.job[c].stop_on) EXCEPT !.job[c] = NoJob(c)]
    IN  IF ~r.deleted[c] THEN r
        ELSE [Release(r, r.start_on[c]) EXCEPT
                !.start_on[c] = event_operator_new(ClassOf[c].start_on),
                !.cgmanager_wait[c] = FALSE, !.deleted[c] = FALSE]

\* Mutant: a service that runs holds on to what started it.
EnterRunning_LikeTask(s, c) ==
    LET r == [s EXCEPT !.job[c].stage = "running"]
    IN  IF s.job[c].stage = "pre_stop" THEN job_finished(r, c, FALSE)
        ELSE job_emit_event([r EXCEPT !.job[c].main = ClassOf[c].main], c,
                            "started", FALSE)

\* A task keeps what started it until it has stopped again.
EnterRunning(s, c) ==
    LET r == [s EXCEPT !.job[c].stage = "running"]
        n == [r EXCEPT !.job[c].main = ClassOf[c].main]
        e == job_emit_event(n, c, "started", FALSE)
    IN  CASE s.job[c].stage = "pre_stop" -> job_finished(r, c, FALSE)
          [] s.job[c].stage # "pre_stop" /\ ClassOf[c].task -> e
          [] s.job[c].stage # "pre_stop" /\ ~ClassOf[c].task ->
                job_finished(e, c, FALSE)

EnterSpawning(s, c) ==
    LET p == [s EXCEPT !.job[c].stage = "spawning"]
    IN  IF ClassOf[c].spawns THEN p ELSE EnterRunning(p, c)

EnterStarting(s, c) ==
    job_emit_event([s EXCEPT !.job[c].stage = "starting",
                             !.job[c].failed = FALSE], c, "starting", TRUE)

EnterStopping(s, c) ==
    job_emit_event([s EXCEPT !.job[c].stage = "stopping"], c, "stopping", TRUE)

EnterPreStop(s, c) ==
    LET p == [s EXCEPT !.job[c].stage = "pre_stop"]
    IN  IF ClassOf[c].pre_stop THEN p ELSE EnterStopping(p, c)

\* The main process is killed and the post-stop script run, if there are any.
EnterEnding(s, c) ==
    LET p == [s EXCEPT !.job[c].stage = "ending"]
        waits == ClassOf[c].ends \/ p.job[c].main
    IN  CASE waits -> p
          [] ~waits /\ p.job[c].goal = "stop"  -> EnterWaiting(p, c)
          [] ~waits /\ p.job[c].goal = "start" -> EnterStarting(p, c)

\* job_next_state
NextStage(j) ==
    CASE j.stage = "waiting" /\ j.goal = "start" -> "starting"
      [] j.stage = "waiting" /\ j.goal = "stop" -> "none"
      [] j.stage = "starting" /\ j.goal = "start" -> "spawning"
      [] j.stage \in {"spawning", "pre_stop"} /\ j.goal = "start" -> "running"
      [] j.stage = "running" /\ j.goal = "stop" /\ j.main -> "pre_stop"
      [] j.stage = "running" /\ (j.goal = "start" \/ ~j.main) -> "stopping"
      [] j.stage \in {"starting", "spawning", "pre_stop"} /\ j.goal = "stop" ->
            "stopping"
      [] j.stage = "stopping" -> "ending"
      [] j.stage = "ending" /\ j.goal = "start" -> "starting"
      [] j.stage = "ending" /\ j.goal = "stop" -> "waiting"

\* job_change_state
Enter(s, c, stage) ==
    CASE stage = "waiting"  -> EnterWaiting(s, c)
      [] stage = "starting" -> EnterStarting(s, c)
      [] stage = "spawning" -> EnterSpawning(s, c)
      [] stage = "running"  -> EnterRunning(s, c)
      [] stage = "pre_stop" -> EnterPreStop(s, c)
      [] stage = "stopping" -> EnterStopping(s, c)
      [] stage = "ending"   -> EnterEnding(s, c)
      [] stage = "none"     -> Fail(s, "assert")

\* job_change_state (job, job_next_state (job)), unless an event blocks it.
Advance(s, c) ==
    IF s.job[c].blocker # NoEvent THEN s ELSE Enter(s, c, NextStage(s.job[c]))

\* job_change_goal
job_change_goal(s, c, goal) ==
    LET g == [s EXCEPT !.job[c].goal = goal]
    IN  IF /\ s.job[c].goal # goal
           /\ \/ goal = "start" /\ s.job[c].stage = "waiting"
              \/ goal = "stop" /\ s.job[c].stage = "running"
        THEN Advance(g, c) ELSE g

-----------------------------------------------------------------------------
(* event_pending_handle_jobs                                               *)

\* event_operator_events: the job blocks the events that had a part in making
\* the condition TRUE, once for each leaf.
Blocks(s, c, cond, oper) ==
    LET refs == {<<i, oper.event[i]>> : i \in Active(cond, oper)}
        b == [s EXCEPT !.job[c].blocking = refs]
    IN  [b EXCEPT !.event = [e \in DOMAIN s.event |->
            [s.event[e] EXCEPT !.blockers =
                @ + Cardinality({r \in refs : r[2] = e})]]]

\* The `stop on' condition of the instance takes what it matches of event e.
StopTakes(s, c, e, taken) ==
    [event_block(s, e, Cardinality(taken)) EXCEPT
        !.job[c].stop_on =
            event_operator_handle(ClassOf[c].stop_on, @, e, taken)]

\* It may be TRUE now: the instance is told to stop, and the condition reset.
StopIfTrue(s, c, cond, oper) ==
    IF ~Value(cond, oper) THEN s
    ELSE LET blocked == Blocks(job_finished(s, c, FALSE), c, cond, oper)
             stopped == IF s.job[c].goal = "stop" THEN s
                        ELSE job_change_goal(blocked, c, "stop")
         IN  [Release(stopped, oper) EXCEPT
                !.job[c].stop_on = event_operator_reset(cond)]

\* The instance of c sees event e: is it told to stop?
StopJob(s, c, e) ==
    LET cond  == ClassOf[c].stop_on
        taken == Taken(cond, s.job[c].stop_on, s.event[e], << >>)
        Offer(h) == StopIfTrue(h, c, cond, h.job[c].stop_on)
    IN  IF s.job[c].stage = "waiting" \/ cond = << >> \/ taken = {} THEN s
        ELSE Offer(StopTakes(s, c, e, taken))

\* The condition that started, or failed to start, an instance is let go of.
ResetStart(s, c) ==
    [Release(s, s.start_on[c]) EXCEPT
        !.start_on[c] = event_operator_reset(ClassOf[c].start_on)]

\* job_class_induct_job; where the instance has no name it returns FALSE.
job_class_induct_job(s, c) ==
    LET blocked == Blocks(job_finished(s, c, FALSE), c,
                          ClassOf[c].start_on, s.start_on[c])
        started == IF s.job[c].goal = "start" THEN s
                   ELSE job_change_goal(blocked, c, "start")
    IN  IF ClassOf[c].nameless THEN ResetStart(s, c)
        ELSE ResetStart(started, c)

\* The condition of class c takes what it matches of event e.
StartTakes(s, c, e) ==
    LET cond  == ClassOf[c].start_on
        taken == Taken(cond, s.start_on[c], s.event[e], << >>)
    IN  [sys |-> [event_block(s, e, Cardinality(taken)) EXCEPT
                    !.start_on[c] = event_operator_handle(cond, @, e, taken)],
         taken |-> taken # {}]

\* Mutant: a class whose condition is complete keeps the events it holds.
StartClass_NoReset(s, c, e) ==
    LET h == StartTakes(s, c, e)
        started == job_change_goal(
                        Blocks(job_finished(h.sys, c, FALSE), c,
                               ClassOf[c].start_on, h.sys.start_on[c]),
                        c, "start")
    IN  IF ClassOf[c].start_on # << >> /\ h.taken
           /\ Value(ClassOf[c].start_on, h.sys.start_on[c])
           /\ s.job[c].goal # "start"
        THEN [sys |-> [started EXCEPT !.start_on[c] =
                            event_operator_reset(ClassOf[c].start_on)],
              returned |-> FALSE]
        ELSE [sys |-> h.sys, returned |-> FALSE]

\* The condition may be TRUE now; `returned' is the early return of the loop.
StartIfTrue(h, c) ==
    IF h.taken /\ Value(ClassOf[c].start_on, h.sys.start_on[c])
    THEN [sys |-> job_class_induct_job(h.sys, c), returned |-> ClassOf[c].nameless]
    ELSE [sys |-> h.sys, returned |-> FALSE]

\* Class c sees event e.  Without the cgroup manager a class that needs it
\* takes one event and waits.
StartClass(s, c, e) ==
    LET waits  == s.cgmanager_wait[c]
        absent == ClassOf[c].cgroup /\ ~s.cgroup_manager
        Marked(h) == [h.sys EXCEPT !.cgmanager_wait[c] = h.taken]
    IN  CASE ClassOf[c].start_on = << >> \/ (absent /\ waits) ->
                [sys |-> s, returned |-> FALSE]
          [] ClassOf[c].start_on # << >> /\ absent /\ ~waits ->
                [sys |-> Marked(StartTakes(s, c, e)), returned |-> FALSE]
          [] ClassOf[c].start_on # << >> /\ ~absent ->
                StartIfTrue(StartTakes(
                    IF ClassOf[c].cgroup /\ waits
                    THEN [ResetStart(s, c) EXCEPT !.cgmanager_wait[c] = FALSE]
                    ELSE s, c, e), c)

\* The body of the loop, for class c.
Offer(acc, c, e) ==
    IF acc.returned THEN acc ELSE StartClass(StopJob(acc.sys, c, e), c, e)

\* The classes in turn; the session-wide shutdown of quiesce.c is left out.
event_pending_handle_jobs(s, e) ==
    LET offered[i \in 0..Len(ClassOrder)] ==
            IF i = 0 THEN [sys |-> s, returned |-> FALSE]
            ELSE Offer(offered[i - 1], ClassOrder[i], e)
    IN  offered[Len(ClassOrder)].sys

-----------------------------------------------------------------------------
(* event_poll                                                              *)

\* The event is taken off the list and freed.
Dequeue(s, e) ==
    [s EXCEPT !.queue = RemoveAt(@, CHOOSE k \in DOMAIN s.queue : s.queue[k] = e),
              !.event = [i \in DOMAIN s.event \ {e} |-> s.event[i]]]

\* The failure of event ev is an event, unless ev is such an event itself.
Announce(s, ev) ==
    IF ev.failed /\ ev.name \in DOMAIN FailedName
    THEN event_new(s, FailedName[ev.name], ev.env, "none") ELSE s

\* Mutant: a failure is not announced.
event_finished_Silent(s, e) ==
    LET c == s.event[e].blocking
        w == IF c \in Class
             THEN Advance([s EXCEPT !.job[c].blocker = NoEvent], c) ELSE s
    IN  Dequeue(w, e)

\* event_finished: the job or the caller that waited goes on, the failure is
\* announced, the event is freed.
event_finished(s, e) ==
    LET c == s.event[e].blocking
    IN  Dequeue(Announce(IF c \in Class
                         THEN Advance([s EXCEPT !.job[c].blocker = NoEvent], c)
                         ELSE s, s.event[e]), e)

\* Mutant: an event is finished although it is blocked.
PollOne_Hasty(s, e) ==
    IF s.event[e].progress = "pending"
    THEN event_pending_handle_jobs(
            [s EXCEPT !.event[e].progress = "handling"], e)
    ELSE event_finished(s, e)

\* The body of the loop of event_poll, for event e.
PollOne(s, e) ==
    LET Handled(h) == IF h.event[e].blockers > 0 THEN h ELSE event_finished(h, e)
    IN  Handled(IF s.event[e].progress = "pending"
                THEN event_pending_handle_jobs(
                        [s EXCEPT !.event[e].progress = "handling"], e)
                ELSE s)

EventsToPoll ==
    \E e \in DOMAIN sys.event :
        sys.event[e].progress = "pending" \/ sys.event[e].blockers = 0

\* The main loop calls event_poll; a call that finds nothing to do is left out.
PollBegin ==
    /\ sys.fault = "none" /\ poll.pos = 0 /\ EventsToPoll
    /\ poll' = [pos |-> 1, again |-> FALSE]
    /\ UNCHANGED <<sys, asked>>

\* One event.  Events added meanwhile are at the end of the queue and are
\* reached in the same turn.
PollEvent ==
    /\ sys.fault = "none" /\ poll.pos \in 1..Len(sys.queue)
    /\ LET e == sys.queue[poll.pos]
           pending == sys.event[e].progress = "pending"
           finished == e \notin DOMAIN sys'.event
       IN  /\ sys' = PollOne(sys, e)
           /\ poll' = [pos |-> poll.pos + (IF finished THEN 0 ELSE 1),
                       again |-> poll.again \/ pending \/ finished]
    /\ UNCHANGED asked

\* The end of the queue: once more, if anything has been done.
PollTurn ==
    /\ sys.fault = "none" /\ poll.pos = Len(sys.queue) + 1
    /\ poll' = [pos |-> IF poll.again THEN 1 ELSE 0, again |-> FALSE]
    /\ UNCHANGED <<sys, asked>>

Polling == PollBegin \/ PollEvent \/ PollTurn

-----------------------------------------------------------------------------
(* The rest of the main loop                                               *)

Idle == sys.fault = "none" /\ poll.pos = 0

Ask == asked < MaxStimuli /\ asked' = asked + 1

Init ==
    /\ sys = [queue |-> << >>, event |-> << >>,
              start_on |-> [c \in Class |->
                                event_operator_new(ClassOf[c].start_on)],
              cgmanager_wait |-> [c \in Class |-> FALSE],
              deleted |-> [c \in Class |-> FALSE],
              job |-> [c \in Class |-> NoJob(c)],
              cgroup_manager |-> FALSE, fault |-> "none"]
    /\ poll = [pos |-> 0, again |-> FALSE]
    /\ asked = 0

\* control_emit_event_with_file
EmitEvent(x, wait) ==
    /\ Idle /\ Ask
    /\ sys' = event_new(sys, x.name, x.env, IF wait THEN "emit" ELSE "none")
    /\ UNCHANGED poll

\* job_finished, the caller if it waits, and the new goal.
Command(c, wait, goal) ==
    job_change_goal([job_finished(sys, c, FALSE) EXCEPT !.job[c].caller = wait],
                    c, goal)

\* job_class_start
Start(c, wait) ==
    /\ Idle /\ Ask
    /\ sys.job[c].goal # "start"
    /\ ClassOf[c].cgroup => sys.cgroup_manager
    /\ sys' = Command(c, wait, "start")
    /\ UNCHANGED poll

\* job_stop and job_class_stop
Stop(c, wait) ==
    /\ Idle /\ Ask
    /\ sys.job[c].stage # "waiting" /\ sys.job[c].goal # "stop"
    /\ sys' = Command(c, wait, "stop")
    /\ UNCHANGED poll

\* job_restart and job_class_restart
Restart(c, wait) ==
    /\ Idle /\ Ask
    /\ sys.job[c].stage # "waiting" /\ sys.job[c].goal # "stop"
    /\ sys' = job_change_goal(Command(c, wait, "stop"), c, "start")
    /\ UNCHANGED poll

\* The body of the loop of job_class_induct_jobs.
InductWaiting(s, c) ==
    CASE ~s.cgmanager_wait[c] -> s
      [] s.cgmanager_wait[c] /\ ~Value(ClassOf[c].start_on, s.start_on[c]) ->
            Fail(s, "assert")
      [] s.cgmanager_wait[c] /\ Value(ClassOf[c].start_on, s.start_on[c]) ->
            [ResetStart(job_class_induct_job(s, c), c) EXCEPT
                !.cgmanager_wait[c] = FALSE]

job_class_induct_jobs(s) ==
    LET inducted[i \in 0..Len(ClassOrder)] ==
            IF i = 0 THEN s ELSE InductWaiting(inducted[i - 1], ClassOrder[i])
    IN  inducted[Len(ClassOrder)]

\* control_notify_cgroup_manager_address, the first time.
NotifyCgroupManager ==
    /\ Idle /\ ~sys.cgroup_manager
    /\ \E c \in Class : ClassOf[c].cgroup
    /\ sys' = job_class_induct_jobs([sys EXCEPT !.cgroup_manager = TRUE])
    /\ UNCHANGED <<poll, asked>>

\* A job is failed and told to stop.
FailJob(s, c) == job_change_goal(job_failed(s, c), c, "stop")

\* The last process before running is up, or one of them has failed.
SpawnEnds(c, ok) ==
    /\ Idle /\ sys.job[c].stage = "spawning"
    /\ sys' = Advance(IF ok THEN sys ELSE FailJob(sys, c), c)
    /\ UNCHANGED <<poll, asked>>

\* The main process ends; if badly, and not because it was to stop, the job
\* has failed.
MainEnds(c, ok) ==
    /\ Idle /\ sys.job[c].main
    /\ sys.job[c].stage \in {"running", "pre_stop", "stopping"}
    /\ LET gone == [sys EXCEPT !.job[c].main = FALSE]
           lost == sys.job[c].stage # "stopping"
       IN  sys' = CASE lost /\ ~ok /\ sys.job[c].goal = "start" ->
                            FailJob(gone, c)
                    [] lost /\ (ok \/ sys.job[c].goal # "start") ->
                            job_change_goal(gone, c, "stop")
                    [] ~lost -> gone
    /\ UNCHANGED <<poll, asked>>

PreStopEnds(c) ==
    /\ Idle /\ sys.job[c].stage = "pre_stop"
    /\ sys' = Advance(sys, c)
    /\ UNCHANGED <<poll, asked>>

\* The main process has been killed and the post-stop script is over.
EndingEnds(c, ok) ==
    /\ Idle /\ sys.job[c].stage = "ending"
    /\ ok \/ ClassOf[c].ends
    /\ LET gone == [sys EXCEPT !.job[c].main = FALSE]
       IN  sys' = Advance(IF ok THEN gone ELSE FailJob(gone, c), c)
    /\ UNCHANGED <<poll, asked>>

Next ==
    \/ Polling
    \/ \E x \in Stimuli, wait \in BOOLEAN : EmitEvent(x, wait)
    \/ \E c \in Commanded, wait \in BOOLEAN :
            Start(c, wait) \/ Stop(c, wait) \/ Restart(c, wait)
    \/ NotifyCgroupManager
    \/ \E c \in Class, ok \in BOOLEAN :
            SpawnEnds(c, ok) \/ MainEnds(c, ok) \/ EndingEnds(c, ok)
    \/ \E c \in Class : PreStopEnds(c)

\* The steps that are bound to come: the main loop goes round, scripts end,
\* killed processes die, and so do the main processes of tasks; the cgroup
\* manager comes up.  A service may run for ever.
Bound ==
    \/ Polling
    \/ NotifyCgroupManager
    \/ \E c \in Class, ok \in BOOLEAN :
        \/ SpawnEnds(c, ok) \/ EndingEnds(c, ok)
        \/ ClassOf[c].task /\ MainEnds(c, ok)
    \/ \E c \in Class : PreStopEnds(c)

\* When one of them is possible: ENABLED Bound, written out.
Due ==
    /\ sys.fault = "none"
    /\ \/ poll.pos # 0
       \/ EventsToPoll
       \/ ~sys.cgroup_manager /\ \E c \in Class : ClassOf[c].cgroup
       \/ \E c \in Class :
            \/ sys.job[c].stage \in {"spawning", "pre_stop", "ending"}
            \/ /\ ClassOf[c].task /\ sys.job[c].main
               /\ sys.job[c].stage \in {"running", "stopping"}

\* Weak fairness of Bound.
Fairness == []<>~Due \/ []<><<Bound>>_vars

Spec == Init /\ [][Next]_vars

FairSpec == Spec /\ Fairness

-----------------------------------------------------------------------------
(* Properties                                                              *)

\* Every reference to an event: who has it, and from where.
Reference ==
    (UNION {{<<"start_on", c, i, sys.start_on[c].event[i]>> :
                i \in Leaves(ClassOf[c].start_on)} : c \in Class})
    \cup (UNION {{<<"stop_on", c, i, sys.job[c].stop_on.event[i]>> :
                i \in Leaves(ClassOf[c].stop_on)} : c \in Class})
    \cup (UNION {{<<"blocking", c, r[1], r[2]>> :
                r \in sys.job[c].blocking} : c \in Class})

\* The queue holds each event once, and the jobs are in one of their stages.
TypeOK ==
    /\ IsInjective(sys.queue) /\ DOMAIN sys.event = Range(sys.queue)
    /\ \A e \in DOMAIN sys.event :
        /\ sys.event[e].progress \in {"pending", "handling"}
        /\ sys.event[e].blocking \in Class \cup {"none", "emit"}
        /\ sys.event[e].blockers \in Nat
    /\ \A c \in Class : /\ sys.job[c].stage \in Stage
                        /\ sys.job[c].goal \in {"start", "stop"}
    /\ poll.pos \in 0..(Len(sys.queue) + 1)

\* No assertion about events fails, and the daemon never touches an event that
\* has been freed.
NoFault == sys.fault \notin {"assert", "freed"}

\* event->blockers is the number of references to the event: not fewer, or it
\* would be freed while in use; not more, or it would stay for ever and so
\* would everyone who waits for it.
BlockersCounted ==
    \A e \in DOMAIN sys.event :
        sys.event[e].blockers = Cardinality({r \in Reference : r[4] = e})

\* Nothing refers to an event that is gone, and a job waits for an event
\* exactly when the event has that job to wake.
NoDangling ==
    /\ \A r \in Reference : r[4] \in DOMAIN sys.event \cup {NoEvent}
    /\ \A c \in Class :
        {e \in DOMAIN sys.event : sys.event[e].blocking = c}
            = {sys.job[c].blocker} \ {NoEvent}

\* Whom another job was started or stopped for, by its starting or stopping
\* event, does not go on before that job is done: a job is still starting (or
\* stopping) while any instance blocks its starting (or stopping) event.
WaitsForDependents ==
    \A r \in Reference :
        (r[4] # NoEvent /\ sys.event[r[4]].name \in {"starting", "stopping"}) =>
            LET c == sys.event[r[4]].env[1].value
            IN  /\ sys.job[c].stage = sys.event[r[4]].name
                /\ sys.job[c].blocker = r[4]

\* Outside event_poll no condition is left TRUE: whatever made it so has been
\* acted upon and let go (or waits for the cgroup manager).
ConditionsReset ==
    poll.pos = 0 =>
        \A c \in Class :
            /\ ClassOf[c].start_on # << >> /\ ~sys.cgmanager_wait[c] =>
                    ~Value(ClassOf[c].start_on, sys.start_on[c])
            /\ ClassOf[c].stop_on # << >> =>
                    ~Value(ClassOf[c].stop_on, sys.job[c].stop_on)

\* A caller of start, stop or restart, or an event, is held back only while
\* there is an instance to wait for, and not by a service that has come to
\* rest.
NobodyHeldAtRest ==
    \A c \in Class :
        LET held == sys.job[c].caller \/ sys.job[c].blocking # {}
        IN  held => /\ sys.job[c].stage # "waiting"
                    /\ sys.job[c].stage = "running" =>
                            ClassOf[c].task /\ sys.job[c].goal = "start"

\* Once nothing more is asked, everything comes to an end: event_poll returns,
\* and the only events left are held by a condition that is still incomplete.
Settles ==
    <>[](/\ poll.pos = 0
         /\ \A e \in DOMAIN sys.event :
                \E r \in Reference : r[4] = e /\ r[1] # "blocking")

\* A failed event is followed by one that announces it, unless it was itself
\* such an announcement.
FailureAnnounced ==
    \A name \in DOMAIN FailedName :
        (\E e \in DOMAIN sys.event :
            sys.event[e].name = name /\ sys.event[e].failed)
        ~> (\E e \in DOMAIN sys.event : sys.event[e].name = FailedName[name])

\* Events live exactly as long as they are needed, and whoever waits for one
\* waits for the right one (event_block, event_unblock, blocking lists).
Counted == TypeOK /\ NoFault /\ BlockersCounted /\ NoDangling /\ WaitsForDependents

\* Moreover nothing is left over when a handler is done: no condition that is
\* TRUE and no caller of a job that has come to rest (event_pending_handle_jobs,
\* job_finished).
Consistent == Counted /\ ConditionsReset /\ NobodyHeldAtRest
=============================================================================
