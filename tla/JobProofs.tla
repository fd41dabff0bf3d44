---------------------------- MODULE JobProofs ----------------------------
(***************************************************************************)
(* Proofs about Job, for every set of classes.  The lemmas follow the      *)
(* order of the operators: what each way into a state leaves behind, then  *)
(* what a step along job_next_state does, then one lemma per handler.      *)
(***************************************************************************)
EXTENDS Job, TLAPS

\* An instance in the middle of a handler that has just seen the end of what
\* the job was waiting for: no script runs, it does not wait for an event, and
\* the main process, if there is one, is set up.
Between(j) ==
    /\ j \in JobType
    /\ j.old = {} /\ j.fault = "none"
    /\ j.blocker = FALSE /\ j.kill_timer = FALSE
    /\ \A P \in ProcessType \ {"main"} :
        j.pid[P] = FALSE /\ j.child[P] = "none" /\ j.pipe[P] = "none"
    /\ j.pid["main"] <=> j.child["main"] # "none"
    /\ j.pid["main"] => "main" \in class.process
    /\ j.child["main"] # "setup" /\ j.pipe["main"] \notin {"open", "error"}
    /\ j.pipe["main"] = "eof" => j.child["main"] \in {"up", "dying"}

\* An instance between two handlers.
Settled(j) == j \in JobType /\ JobInv(j)

-----------------------------------------------------------------------------
(* The ways into a state                                                   *)

\* The state field is free while a handler runs.
LEMMA StateLemma ==
  ASSUME NEW j, Between(j), NEW s \in JobState
  PROVE  LET e == [j EXCEPT !.state = s]
         IN  /\ Between(e)
             /\ e.state = s /\ e.goal = j.goal /\ e.pid = j.pid
             /\ e.kill_timer = j.kill_timer /\ e.failed = j.failed
<1> DEFINE e == [j EXCEPT !.state = s]
<1>1. /\ e \in JobType /\ e.state = s /\ e.failed = j.failed
      /\ e.goal = j.goal /\ e.pid = j.pid /\ e.child = j.child
      /\ e.pipe = j.pipe /\ e.old = j.old /\ e.fault = j.fault
      /\ e.blocker = j.blocker /\ e.kill_timer = j.kill_timer
  BY DEF Between, JobType
<1> HIDE DEF e
<1>2. Between(e)
  BY <1>1 DEF Between
<1> QED BY <1>1, <1>2 DEF e

\* Emitting an event and answering the callers keep the type.
LEMMA EmitLemma ==
  ASSUME NEW j \in JobType, NEW name \in EventName, NEW block \in BOOLEAN
  PROVE  job_emit_event(j, name, block) \in JobType
<1>1. (name \in {"stopping", "stopped"} /\ j.failed) \in BOOLEAN
  OBVIOUS
<1> QED BY <1>1 DEF job_emit_event, JobType

\* Answering the callers keeps the job's type.
LEMMA FinishedLemma ==
  ASSUME NEW j \in JobType
  PROVE  job_finished(j) \in JobType
BY DEF job_finished, JobType

\* A way in that starts nothing: the job rests, or waits for its own event.
LEMMA RestLemma ==
  ASSUME NEW j, Between(j), NEW e \in JobType,
         e.pid = j.pid, e.child = j.child, e.pipe = j.pipe,
         e.old = j.old, e.fault = j.fault, e.kill_timer = j.kill_timer,
         \/ /\ e.state = "stopping" /\ e.blocker = TRUE
            /\ e.goal \in {"start", "stop"}
         \/ /\ e.state = "starting" /\ e.blocker = TRUE
            /\ e.goal = "start" /\ ~j.pid["main"] /\ ~e.failed
         \/ /\ e.state = "running" /\ e.blocker = FALSE
            /\ e.goal = "start" /\ (class.task \/ e.blocking = "none")
  PROVE  JobInv(e)
BY DEF Between, JobInv, FaultKnown, SecurityFailed, JobType, ProcessType, ProcessState

\* Entering stopping, from either goal, leaves the job waiting for its event.
LEMMA StoppingLemma ==
  ASSUME NEW j, Between(j), j.goal \in {"start", "stop"}
  PROVE  Settled(EnterStopping(j))
<1> DEFINE e == EnterStopping(j)
<1>1. /\ e.state = "stopping" /\ e.pid = j.pid /\ e.child = j.child
      /\ e.pipe = j.pipe /\ e.old = j.old /\ e.fault = j.fault
      /\ e.blocker = TRUE /\ e.kill_timer = j.kill_timer /\ e.goal = j.goal
  BY DEF Between, EnterStopping, job_emit_event, JobType
<1>2. e \in JobType
  BY DEF Between, EnterStopping, job_emit_event, JobType, JobState, EventName
<1>3. JobInv(e)
  BY <1>1, <1>2, RestLemma
<1> QED BY <1>2, <1>3 DEF Settled

\* Entering starting, with no main process left, leaves the job waiting for its
\* event.
LEMMA StartingLemma ==
  ASSUME NEW j, Between(j), j.goal = "start", ~j.pid["main"]
  PROVE  Settled(EnterStarting(j))
<1> DEFINE e == EnterStarting(j)
<1>1. /\ e.state = "starting" /\ e.pid = j.pid /\ e.child = j.child
      /\ e.pipe = j.pipe /\ e.old = j.old /\ e.fault = j.fault
      /\ e.blocker = TRUE /\ e.kill_timer = j.kill_timer /\ e.goal = j.goal
      /\ ~e.failed
  BY DEF Between, EnterStarting, job_emit_event, JobType
<1>2. e \in JobType
  BY DEF Between, EnterStarting, job_emit_event, JobType, JobState, EventName
<1>3. JobInv(e)
  BY <1>1, <1>2, RestLemma
<1> QED BY <1>2, <1>3 DEF Settled

\* Entering running settles the job: callers of a start are answered.
LEMMA RunningLemma ==
  ASSUME NEW j, Between(j), j.goal = "start"
  PROVE  Settled(EnterRunning(j))
<1> DEFINE e == EnterRunning(j)
<1>1. /\ e.state = "running" /\ e.pid = j.pid /\ e.child = j.child
      /\ e.pipe = j.pipe /\ e.old = j.old /\ e.fault = j.fault
      /\ e.blocker = FALSE /\ e.kill_timer = j.kill_timer /\ e.goal = j.goal
      /\ class.task \/ e.blocking = "none"
  BY DEF Between, EnterRunning, job_emit_event, job_finished, JobType
<1>2. e \in JobType
  <2> DEFINE r == [j EXCEPT !.state = "running"]
  <2>1. r \in JobType
    BY StateLemma DEF Between, JobState
  <2>2. job_emit_event(r, "started", FALSE) \in JobType
    BY <2>1, EmitLemma DEF EventName
  <2> QED BY <2>1, <2>2, FinishedLemma DEF EnterRunning
<1>3. JobInv(e)
  BY <1>1, <1>2, RestLemma
<1> QED BY <1>2, <1>3 DEF Settled

\* The instance is freed with nothing left behind.
LEMMA WaitingLemma ==
  ASSUME NEW j, Between(j), j.goal = "stop", ~j.pid["main"]
  PROVE  Settled(EnterWaiting(j))
<1> DEFINE e == job_finished(job_emit_event([j EXCEPT !.state = "waiting"],
                                            "stopped", FALSE))
           w == EnterWaiting(j)
<1>1. /\ e.child = j.child /\ e.pipe = j.pipe /\ e.old = {}
      /\ e.fault = "none" /\ e.state = "waiting" /\ e.goal = "stop"
      /\ e.blocker = FALSE /\ e.blocking = "none"
  BY DEF Between, job_emit_event, job_finished, JobType
<1>2. e \in JobType
  BY DEF Between, job_emit_event, job_finished, JobType, JobState, EventName
<1> HIDE DEF e
<1>3. \A P \in ProcessType : e.child[P] = "none" /\ e.pipe[P] = "none"
  <2>1. j.pipe["main"] \in PipeState
    BY DEF Between, JobType, ProcessType
  <2>2. j.child["main"] = "none" /\ j.pipe["main"] = "none"
    BY <2>1 DEF Between, PipeState
  <2> QED BY <1>1, <2>2 DEF Between
<1>4. \A P \in ProcessType : Remains(e, P) = {}
  BY <1>3 DEF Remains, Kept
<1>5. e.old \cup UNION {Remains(e, P) : P \in ProcessType} = {}
  BY <1>1, <1>4
<1>6. w = [e EXCEPT !.pid = [P \in ProcessType |-> FALSE],
                    !.kill_timer = FALSE,
                    !.respawn_count = 0,
                    !.child = [P \in ProcessType |-> "none"],
                    !.pipe = [P \in ProcessType |-> "none"],
                    !.old = {}]
  BY <1>5 DEF EnterWaiting, e
<1> HIDE DEF w
<1>7. w \in JobType
  BY <1>2, <1>6 DEF JobType, ChildState, PipeState
<1>8. JobInv(w)
  BY <1>1, <1>2, <1>6 DEF JobInv, FaultKnown, JobType, ProcessType
<1> QED BY <1>7, <1>8 DEF Settled, w

\* A process is started in the state it belongs to.
LEMMA SpawnLemma ==
  ASSUME NEW j, Between(j), NEW P \in ProcessType, P \in class.process,
         j.goal \in {"start", "stop"},
         P = "main" => j.state = "spawned",
         P # "main" => j.state = P,
         P \notin {"post_start", "pre_stop"} => ~j.pid["main"],
         P = "security" => ~j.failed
  PROVE  Settled(job_process_start(j, P))
<1> DEFINE e == job_process_start(j, P)
<1>1. j.child[P] = "none" /\ j.pipe[P] = "none"
  <2>1. j.pipe["main"] \in PipeState
    BY DEF Between, JobType, ProcessType
  <2>2. CASE P = "main"
    BY <2>1, <2>2 DEF Between, PipeState
  <2>3. CASE P # "main"
    BY <2>3 DEF Between
  <2> QED BY <2>2, <2>3
<1>2. Remains(j, P) = {}
  BY <1>1 DEF Remains, Kept
<1>3. e = [j EXCEPT !.pid[P] = TRUE, !.child[P] = "setup",
                    !.pipe[P] = "open", !.old = {}]
  BY <1>2 DEF job_process_start, Between, JobType
<1> HIDE DEF e
<1>4. e \in JobType
  BY <1>3 DEF Between, JobType, ChildState, PipeState
<1>5. /\ e.state = j.state /\ e.goal = j.goal /\ e.blocking = j.blocking
      /\ e.old = {} /\ e.fault = "none" /\ e.failed = j.failed
      /\ e.blocker = FALSE /\ e.kill_timer = FALSE
      /\ e.pid = [j.pid EXCEPT ![P] = TRUE]
      /\ e.child = [j.child EXCEPT ![P] = "setup"]
      /\ e.pipe = [j.pipe EXCEPT ![P] = "open"]
  BY <1>3 DEF Between, JobType
<1>6. \A Q \in ProcessType :
        /\ e.pid[Q] <=> e.child[Q] # "none"
        /\ e.pid[Q] => Q \in class.process /\ e.state \in ProcessState(Q)
        /\ e.child[Q] = "setup" <=> e.pipe[Q] = "open"
        /\ e.pipe[Q] = "eof" => e.child[Q] \in {"up", "dying"}
        /\ e.pipe[Q] = "error" => e.child[Q] = "dying" /\ Q \in SetupFails
  BY <1>5 DEF Between, JobType, ProcessState, ProcessType
<1>7. JobInv(e)
  BY <1>5, <1>6 DEF Between, JobInv, FaultKnown, SecurityFailed, JobType, ProcessType
<1> QED BY <1>4, <1>7 DEF Settled, e

\* Entering post-stop settles the job in post-stop, starting or waiting.
LEMMA PostStopLemma ==
  ASSUME NEW j, Between(j), j.goal \in {"start", "stop"}, ~j.pid["main"]
  PROVE  Settled(EnterPostStop(j))
<1> DEFINE p == [j EXCEPT !.state = "post_stop"]
<1>1. Between(p) /\ p.state = "post_stop" /\ p.goal = j.goal /\ p.pid = j.pid
  BY StateLemma DEF JobState
<1> HIDE DEF p
<1>2. CASE Has("post_stop")
  <2>1. EnterPostStop(j) = job_process_start(p, "post_stop")
    BY <1>2 DEF EnterPostStop, p
  <2> QED BY <1>1, <1>2, <2>1, SpawnLemma DEF Has, ProcessType
<1>3. CASE ~Has("post_stop") /\ j.goal = "stop"
  <2>1. EnterPostStop(j) = EnterWaiting(p)
    BY <1>3 DEF EnterPostStop, p
  <2> QED BY <1>1, <1>3, <2>1, WaitingLemma
<1>4. CASE ~Has("post_stop") /\ j.goal = "start"
  <2>1. EnterPostStop(j) = EnterStarting(p)
    BY <1>4 DEF EnterPostStop, p
  <2> QED BY <1>1, <1>4, <2>1, StartingLemma
<1> QED BY <1>2, <1>3, <1>4

\* The job waits for the process it signals, or goes on if there is none.
LEMMA KilledLemma ==
  ASSUME NEW j, Between(j), j.goal \in {"start", "stop"}
  PROVE  Settled(EnterKilled(j))
<1> DEFINE k == [j EXCEPT !.state = "killed"]
<1>1. /\ Between(k) /\ k.state = "killed" /\ k.goal = j.goal /\ k.pid = j.pid
      /\ k.kill_timer = j.kill_timer
  BY StateLemma DEF JobState
<1> HIDE DEF k
<1>2. CASE ~(Has("main") /\ j.pid["main"])
  <2>1. EnterKilled(j) = EnterPostStop(k)
    BY <1>2 DEF EnterKilled, k
  <2>2. ~j.pid["main"]
    BY <1>2 DEF Between, Has
  <2> QED BY <1>1, <2>1, <2>2, PostStopLemma
<1>3. CASE Has("main") /\ j.pid["main"]
  <2>1. EnterKilled(j) = job_process_kill(k)
    BY <1>3 DEF EnterKilled, k
  <2>2. \E t \in BOOLEAN, f \in {"none", "assert"} :
            /\ f = "assert" => class.kill_timeout = 0
            /\ job_process_kill(k) = [k EXCEPT !.kill_timer = t, !.fault = f]
    <3>1. k \in JobType /\ k.kill_timer = FALSE /\ k.fault = "none"
      BY <1>1 DEF Between
    <3>2. k = [k EXCEPT !.kill_timer = FALSE, !.fault = "none"]
      BY <3>1 DEF JobType
    <3>3. Fail(k) = [k EXCEPT !.kill_timer = FALSE, !.fault = "assert"]
      BY <3>1 DEF JobType, Fail
    <3>4. [k EXCEPT !.kill_timer = TRUE]
            = [k EXCEPT !.kill_timer = TRUE, !.fault = "none"]
      BY <3>1 DEF JobType
    <3>5. CASE ~class.killable
      BY <3>1, <3>2, <3>5 DEF job_process_kill
    <3>6. CASE class.killable /\ class.kill_timeout = 0
      BY <3>1, <3>3, <3>6 DEF job_process_kill, job_process_set_kill_timer
    <3>7. CASE class.killable /\ class.kill_timeout # 0
      BY <3>1, <3>4, <3>7 DEF job_process_kill, job_process_set_kill_timer
    <3> QED BY <3>5, <3>6, <3>7
  <2>3. PICK t \in BOOLEAN, f \in {"none", "assert"} :
            /\ f = "assert" => class.kill_timeout = 0
            /\ job_process_kill(k) = [k EXCEPT !.kill_timer = t, !.fault = f]
    BY <2>2
  <2> DEFINE e == job_process_kill(k)
  <2>4. /\ e.state = "killed" /\ e.pid = k.pid /\ e.child = k.child
        /\ e.pipe = k.pipe /\ e.old = {} /\ e.fault = f
        /\ e.blocker = FALSE /\ e.kill_timer = t /\ e.goal = k.goal
    BY <1>1, <2>3 DEF Between, JobType
  <2>5. e \in JobType
    <3>1. k \in JobType /\ e = [k EXCEPT !.kill_timer = t, !.fault = f]
      BY <1>1, <2>3 DEF Between
    <3> QED BY <3>1 DEF JobType
  <2> HIDE DEF e
  <2>6. FaultKnown(e)
    BY <2>3, <2>4 DEF FaultKnown
  <2>7. JobInv(e)
    BY <1>1, <1>3, <2>4, <2>5, <2>6 DEF Between, JobInv, JobType, ProcessType,
       ProcessState
  <2> QED BY <2>1, <2>5, <2>7 DEF Settled, e
<1> QED BY <1>2, <1>3

\* Entering pre-stop settles the job in pre-stop or stopping.
LEMMA PreStopLemma ==
  ASSUME NEW j, Between(j), j.goal = "stop"
  PROVE  Settled(EnterPreStop(j))
<1> DEFINE p == [j EXCEPT !.state = "pre_stop"]
<1>1. Between(p) /\ p.state = "pre_stop" /\ p.goal = j.goal
  BY StateLemma DEF JobState
<1> HIDE DEF p
<1>2. CASE Has("pre_stop")
  <2>1. EnterPreStop(j) = job_process_start(p, "pre_stop")
    BY <1>2 DEF EnterPreStop, p
  <2> QED BY <1>1, <1>2, <2>1, SpawnLemma DEF Has, ProcessType
<1>3. CASE ~Has("pre_stop")
  <2>1. EnterPreStop(j) = EnterStopping(p)
    BY <1>3 DEF EnterPreStop, p
  <2> QED BY <1>1, <2>1, StoppingLemma
<1> QED BY <1>2, <1>3

\* Entering post-start settles the job in post-start or running.
LEMMA PostStartLemma ==
  ASSUME NEW j, Between(j), j.goal = "start"
  PROVE  Settled(EnterPostStart(j))
<1> DEFINE p == [j EXCEPT !.state = "post_start"]
<1>1. Between(p) /\ p.state = "post_start" /\ p.goal = j.goal
  BY StateLemma DEF JobState
<1> HIDE DEF p
<1>2. CASE Has("post_start")
  <2>1. EnterPostStart(j) = job_process_start(p, "post_start")
    BY <1>2 DEF EnterPostStart, p
  <2> QED BY <1>1, <1>2, <2>1, SpawnLemma DEF Has, ProcessType
<1>3. CASE ~Has("post_start")
  <2>1. EnterPostStart(j) = EnterRunning(p)
    BY <1>3 DEF EnterPostStart, p
  <2> QED BY <1>1, <2>1, RunningLemma
<1> QED BY <1>2, <1>3

\* Entering spawned settles the job, whatever class and spawning do.
LEMMA SpawnedLemma ==
  ASSUME NEW j, Between(j), j.goal = "start", ~j.pid["main"]
  PROVE  Settled(EnterSpawned(j))
<1> DEFINE p == [j EXCEPT !.state = "spawned"]
<1>1. Between(p) /\ p.state = "spawned" /\ p.goal = j.goal /\ p.pid = j.pid
  BY StateLemma DEF JobState
<1> HIDE DEF p
<1>2. CASE Has("main")
  <2>1. EnterSpawned(j) = job_process_start(p, "main")
    BY <1>2 DEF EnterSpawned, p
  <2> QED BY <1>1, <1>2, <2>1, SpawnLemma DEF Has, ProcessType
<1>3. CASE ~Has("main")
  <2>1. EnterSpawned(j) = EnterPostStart(p)
    BY <1>3 DEF EnterSpawned, p
  <2> QED BY <1>1, <2>1, PostStartLemma
<1> QED BY <1>2, <1>3

\* Entering pre-start settles the job.
LEMMA PreStartLemma ==
  ASSUME NEW j, Between(j), j.goal = "start", ~j.pid["main"]
  PROVE  Settled(EnterPreStart(j))
<1> DEFINE p == [j EXCEPT !.state = "pre_start"]
<1>1. Between(p) /\ p.state = "pre_start" /\ p.goal = j.goal /\ p.pid = j.pid
  BY StateLemma DEF JobState
<1> HIDE DEF p
<1>2. CASE Has("pre_start")
  <2>1. EnterPreStart(j) = job_process_start(p, "pre_start")
    BY <1>2 DEF EnterPreStart, p
  <2> QED BY <1>1, <1>2, <2>1, SpawnLemma DEF Has, ProcessType
<1>3. CASE ~Has("pre_start")
  <2>1. EnterPreStart(j) = EnterSpawned(p)
    BY <1>3 DEF EnterPreStart, p
  <2> QED BY <1>1, <2>1, SpawnedLemma
<1> QED BY <1>2, <1>3

\* Entering security settles the job.
LEMMA SecurityLemma ==
  ASSUME NEW j, Between(j), j.goal = "start", ~j.pid["main"], ~j.failed
  PROVE  Settled(EnterSecurity(j))
<1> DEFINE p == [j EXCEPT !.state = "security"]
<1>1. Between(p) /\ p.state = "security" /\ p.goal = j.goal /\ p.pid = j.pid
      /\ p.failed = j.failed
  BY StateLemma DEF JobState
<1> HIDE DEF p
<1>2. CASE Has("security")
  <2>1. EnterSecurity(j) = job_process_start(p, "security")
    BY <1>2 DEF EnterSecurity, p
  <2> QED BY <1>1, <1>2, <2>1, SpawnLemma DEF Has, ProcessType
<1>3. CASE ~Has("security")
  <2>1. EnterSecurity(j) = EnterPreStart(p)
    BY <1>3 DEF EnterSecurity, p
  <2> QED BY <1>1, <2>1, PreStartLemma
<1> QED BY <1>2, <1>3

-----------------------------------------------------------------------------
(* A step along job_next_state, and a change of goal                       *)

\* Every step along job_next_state ends in a state the job can rest in, or
\* wait in.  The main process may still be there from spawned to pre_stop.
LEMMA AdvanceLemma ==
  ASSUME NEW j, Between(j),
         j.state = "waiting" => j.goal = "start",
         j.state = "starting" => ~j.failed,
         j.state \in {"waiting", "starting", "security", "pre_start", "killed",
                     "post_stop"} => ~j.pid["main"],
         j.goal = "respawn" =>
            j.state \in {"post_start", "pre_stop"} /\ ~j.pid["main"]
  PROVE  Settled(Advance(j))
<1> DEFINE c == [j EXCEPT !.goal = IF @ = "respawn" THEN "start" ELSE @]
           s == job_next_state(j)
<1>1. j.state \in JobState /\ j.goal \in JobGoal
  BY DEF Between, JobType
<1>2. /\ c \in JobType /\ c.state = j.state /\ c.pid = j.pid
      /\ c.child = j.child /\ c.pipe = j.pipe /\ c.old = j.old
      /\ c.fault = j.fault /\ c.blocker = j.blocker
      /\ c.kill_timer = j.kill_timer /\ c.failed = j.failed
      /\ c.goal = IF j.goal = "respawn" THEN "start" ELSE j.goal
  BY <1>1 DEF Between, JobType, JobGoal
<1> HIDE DEF c
<1>3. Between(c) /\ c.goal \in {"start", "stop"}
  BY <1>1, <1>2 DEF Between, JobGoal
<1>4. ASSUME s # "none", s # j.state, NEW e, e = Enter(c, s), Settled(e)
      PROVE  Settled(Advance(j))
  BY <1>2, <1>4 DEF Advance, job_change_state, Between, c
<1>5. CASE j.goal = "start"
  <2>1. s = NextWhenStarting(j.state) /\ c.goal = "start"
    BY <1>2, <1>5 DEF job_next_state
  <2>2. CASE j.state \in {"waiting", "post_stop"}
    <3>1. s = "starting"
      BY <2>1, <2>2 DEF NextWhenStarting
    <3>2. Settled(EnterStarting(c))
      BY <1>2, <1>3, <2>1, <2>2, StartingLemma
    <3> QED BY <1>4, <2>2, <3>1, <3>2 DEF Enter
  <2>3. CASE j.state = "starting"
    <3>1. s = "security"
      BY <2>1, <2>3 DEF NextWhenStarting
    <3>2. Settled(EnterSecurity(c))
      BY <1>2, <1>3, <2>1, <2>3, SecurityLemma
    <3> QED BY <1>4, <2>3, <3>1, <3>2 DEF Enter
  <2>4. CASE j.state = "security"
    <3>1. s = "pre_start"
      BY <2>1, <2>4 DEF NextWhenStarting
    <3>2. Settled(EnterPreStart(c))
      BY <1>2, <1>3, <2>1, <2>4, PreStartLemma
    <3> QED BY <1>4, <2>4, <3>1, <3>2 DEF Enter
  <2>5. CASE j.state = "pre_start"
    <3>1. s = "spawned"
      BY <2>1, <2>5 DEF NextWhenStarting
    <3>2. Settled(EnterSpawned(c))
      BY <1>2, <1>3, <2>1, <2>5, SpawnedLemma
    <3> QED BY <1>4, <2>5, <3>1, <3>2 DEF Enter
  <2>6. CASE j.state = "spawned"
    <3>1. s = "post_start"
      BY <2>1, <2>6 DEF NextWhenStarting
    <3>2. Settled(EnterPostStart(c))
      BY <1>3, <2>1, PostStartLemma
    <3> QED BY <1>4, <2>6, <3>1, <3>2 DEF Enter
  <2>7. CASE j.state \in {"post_start", "pre_stop"}
    <3>1. s = "running"
      BY <2>1, <2>7 DEF NextWhenStarting
    <3>2. Settled(EnterRunning(c))
      BY <1>3, <2>1, RunningLemma
    <3> QED BY <1>4, <2>7, <3>1, <3>2 DEF Enter
  <2>8. CASE j.state = "running"
    <3>1. s = "stopping"
      BY <2>1, <2>8 DEF NextWhenStarting
    <3>2. Settled(EnterStopping(c))
      BY <1>3, StoppingLemma
    <3> QED BY <1>4, <2>8, <3>1, <3>2 DEF Enter
  <2>9. CASE j.state = "stopping"
    <3>1. s = "killed"
      BY <2>1, <2>9 DEF NextWhenStarting
    <3>2. Settled(EnterKilled(c))
      BY <1>3, KilledLemma
    <3> QED BY <1>4, <2>9, <3>1, <3>2 DEF Enter
  <2>10. CASE j.state = "killed"
    <3>1. s = "post_stop"
      BY <2>1, <2>10 DEF NextWhenStarting
    <3>2. Settled(EnterPostStop(c))
      BY <1>2, <1>3, <2>10, PostStopLemma
    <3> QED BY <1>4, <2>10, <3>1, <3>2 DEF Enter
  <2> QED BY <1>1, <2>2, <2>3, <2>4, <2>5, <2>6, <2>7, <2>8, <2>9, <2>10
          DEF JobState
<1>6. CASE j.goal = "stop"
  <2>1. s = NextWhenStopping(j.state, Has("main") /\ j.pid["main"])
        /\ c.goal = "stop"
    BY <1>2, <1>6 DEF job_next_state
  <2>2. CASE s = "stopping"
    <3>1. Settled(EnterStopping(c))
      BY <1>3, StoppingLemma
    <3>2. j.state # "stopping"
      BY <2>1, <2>2 DEF NextWhenStopping
    <3> QED BY <1>4, <2>2, <3>1, <3>2 DEF Enter
  <2>3. CASE j.state = "running" /\ s = "pre_stop"
    <3>1. Settled(EnterPreStop(c))
      BY <1>3, <2>1, PreStopLemma
    <3> QED BY <1>4, <2>3, <3>1 DEF Enter
  <2>4. CASE j.state = "stopping"
    <3>1. s = "killed"
      BY <2>1, <2>4 DEF NextWhenStopping
    <3>2. Settled(EnterKilled(c))
      BY <1>3, KilledLemma
    <3> QED BY <1>4, <2>4, <3>1, <3>2 DEF Enter
  <2>5. CASE j.state = "killed"
    <3>1. s = "post_stop"
      BY <2>1, <2>5 DEF NextWhenStopping
    <3>2. Settled(EnterPostStop(c))
      BY <1>2, <1>3, <2>5, PostStopLemma
    <3> QED BY <1>4, <2>5, <3>1, <3>2 DEF Enter
  <2>6. CASE j.state = "post_stop"
    <3>1. s = "waiting"
      BY <2>1, <2>6 DEF NextWhenStopping
    <3>2. Settled(EnterWaiting(c))
      BY <1>2, <1>3, <2>1, <2>6, WaitingLemma
    <3> QED BY <1>4, <2>6, <3>1, <3>2 DEF Enter
  <2>7. \/ s = "stopping"
        \/ j.state = "running" /\ s = "pre_stop"
        \/ j.state \in {"stopping", "killed", "post_stop"}
    BY <1>1, <1>6, <2>1 DEF NextWhenStopping, JobState
  <2> QED BY <2>2, <2>3, <2>4, <2>5, <2>6, <2>7
<1>7. CASE j.goal = "respawn"
  <2>1. s = "stopping" /\ j.state # "stopping"
    BY <1>7 DEF job_next_state, NextWhenRespawning
  <2>2. Settled(EnterStopping(c))
    BY <1>3, StoppingLemma
  <2> QED BY <1>4, <2>1, <2>2 DEF Enter
<1> QED BY <1>1, <1>5, <1>6, <1>7 DEF JobGoal

\* Two instances that differ in nothing Between looks at.
Same(e, j) ==
    /\ e.state = j.state /\ e.goal = j.goal /\ e.pid = j.pid
    /\ e.child = j.child /\ e.pipe = j.pipe /\ e.old = j.old
    /\ e.fault = j.fault /\ e.blocker = j.blocker
    /\ e.kill_timer = j.kill_timer

\* Between depends only on the fields Same compares.
LEMMA SameLemma ==
  ASSUME NEW j, Between(j), NEW e \in JobType, Same(e, j)
  PROVE  Between(e)
BY DEF Between, Same

\* job_failed records a failure and answers callers, no more.
LEMMA FailedLemma ==
  ASSUME NEW j \in JobType, NEW P \in ProcessType \cup {"none"}
  PROVE  /\ job_failed(j, P) \in JobType
         /\ Same(job_failed(j, P), j)
         /\ job_failed(j, P).blocking \in {j.blocking, "none"}
BY DEF job_failed, job_finished, JobType, Same

\* At rest nothing is under way but the main process.
LEMMA RestingLemma ==
  ASSUME NEW j, Settled(j), j.state \in {"waiting", "running"},
         j.fault # "freed"
  PROVE  Between(j) /\ (j.state = "waiting" => ~j.pid["main"])
<1>1. \A P \in ProcessType \ {"main"} : j.pid[P] = FALSE /\ j.child[P] = "none"
  BY DEF Settled, JobInv, JobType, ProcessType, ProcessState
<1>2. \A P \in ProcessType : j.child[P] = "none" => j.pipe[P] = "none"
  BY DEF Settled, JobInv, JobType, PipeState
<1>3. /\ j.pid["main"] <=> j.child["main"] # "none"
      /\ j.pid["main"] => "main" \in class.process
      /\ j.child["main"] # "setup" /\ j.pipe["main"] \notin {"open", "error"}
      /\ j.pipe["main"] = "eof" => j.child["main"] \in {"up", "dying"}
      /\ j.state = "waiting" => ~j.pid["main"]
  BY DEF Settled, JobInv, JobType, ProcessType, ProcessState
<1>4. j \in JobType /\ j.old = {} /\ j.fault = "none"
      /\ j.blocker = FALSE /\ j.kill_timer = FALSE
  BY DEF Settled, JobInv, FaultKnown, JobType
<1> QED BY <1>1, <1>2, <1>3, <1>4 DEF Between

\* A change of goal; h is j, or j with a new caller held back.
LEMMA ChangeGoalLemma ==
  ASSUME NEW j, Settled(j), j.fault # "freed", NEW g \in {"start", "stop"},
         NEW h \in JobType, Same(h, j), h = j \/ j.goal # g,
         h.failed = j.failed, h.failed_process = j.failed_process
  PROVE  Settled(job_change_goal(h, g))
<1> DEFINE c == [h EXCEPT !.goal = g]
<1>1. /\ c \in JobType
      /\ c.goal = g /\ c.state = j.state /\ c.pid = j.pid
      /\ c.child = j.child /\ c.pipe = j.pipe /\ c.old = j.old
      /\ c.fault = j.fault /\ c.blocker = j.blocker
      /\ c.kill_timer = j.kill_timer /\ c.blocking = h.blocking
      /\ c.failed = j.failed /\ c.failed_process = j.failed_process
  BY DEF Same, JobGoal, JobType
<1> HIDE DEF c
<1>2. CASE j.goal # g /\ j.state = (IF g = "start" THEN "waiting" ELSE "running")
  <2>1. job_change_goal(h, g) = Advance(c)
    BY <1>2 DEF job_change_goal, Same, c
  <2>2. Between(j) /\ (j.state = "waiting" => ~j.pid["main"])
    BY <1>2, RestingLemma
  <2>3. Between(c)
    BY <1>1, <2>2 DEF Between
  <2> QED BY <1>1, <1>2, <2>1, <2>2, <2>3, AdvanceLemma
<1>3. CASE j.goal # g /\ j.state # (IF g = "start" THEN "waiting" ELSE "running")
  <2>1. job_change_goal(h, g) = c
    BY <1>3 DEF job_change_goal, Same, c
  <2>2. j.state \notin {"waiting", "running"}
    BY <1>3 DEF Settled, JobInv
  <2>3. JobInv(c)
    BY <1>1, <2>2 DEF Settled, JobInv, FaultKnown, SecurityFailed
  <2> QED BY <1>1, <2>1, <2>3 DEF Settled
<1>4. CASE j.goal = g
  <2>1. job_change_goal(h, g) = c
    BY <1>4 DEF job_change_goal, Same, c
  <2>2. h = j
    BY <1>4
  <2>3. JobInv(c)
    BY <1>1, <1>4, <2>2 DEF Settled, JobInv, FaultKnown, SecurityFailed
  <2> QED BY <1>1, <2>1, <2>3 DEF Settled
<1> QED BY <1>2, <1>3, <1>4

\* In the states a command finds a job at rest, the command does not touch a
\* pipe that can be read.
LEMMA CommandPipesLemma ==
  ASSUME NEW j, Settled(j), j.fault # "freed", NEW g \in {"start", "stop"},
         NEW h \in JobType, Same(h, j), NEW P \in ProcessType,
         j.pipe[P] \in Readable
  PROVE  job_change_goal(h, g).pipe[P] = j.pipe[P]
<1> DEFINE c == [h EXCEPT !.goal = g]
<1>1. /\ c \in JobType
      /\ c.goal = g /\ c.state = j.state /\ c.pid = j.pid /\ c.pipe = j.pipe
      /\ c.blocker = j.blocker
  BY DEF Same, JobGoal, JobType
<1>2. CASE j.state = "waiting"
  BY <1>2, RestingLemma DEF Between, Readable, Settled, JobInv, JobType, PipeState
<1>3. CASE j.state # "waiting" /\ j.state = "running" /\ g = "stop" /\ j.goal # g
  <2>1. P = "main" /\ j.pid["main"]
    BY <1>3, RestingLemma DEF Between, Readable
  <2>2. job_change_goal(h, g) = Advance(c)
    BY <1>3 DEF job_change_goal, Same
  <2>3. job_next_state(c) = IF Has("main") THEN "pre_stop" ELSE "stopping"
    BY <1>1, <1>3, <2>1 DEF job_next_state, NextWhenStopping
  <2> DEFINE k == [c EXCEPT !.goal = IF @ = "respawn" THEN "start" ELSE @]
  <2>4. ~j.blocker
    BY <1>3 DEF Settled, JobInv
  <2> HIDE DEF c
  <2>5. k \in JobType /\ k.state = "running" /\ k.pipe = j.pipe /\ ~k.blocker
    BY <1>1, <1>3, <2>4 DEF JobType, JobGoal
  <2> HIDE DEF k
  <2>6. Advance(c) = IF Has("main") THEN EnterPreStop(k) ELSE EnterStopping(k)
    BY <2>3, <2>5 DEF Advance, job_change_state, Enter, k
  <2>7. EnterStopping(k).pipe = j.pipe
    BY <2>5 DEF EnterStopping, job_emit_event, JobType
  <2>8. EnterPreStop(k).pipe["main"] = j.pipe["main"]
    BY <2>5 DEF EnterPreStop, EnterStopping, job_emit_event, job_process_start,
       JobType, ProcessType
  <2> QED BY <2>1, <2>2, <2>6, <2>7, <2>8
<1>4. CASE j.state # "waiting" /\ ~(j.state = "running" /\ g = "stop" /\ j.goal # g)
  <2>1. job_change_goal(h, g) = c
    BY <1>4 DEF job_change_goal, Same
  <2> QED BY <1>1, <2>1
<1> QED BY <1>2, <1>3, <1>4

\* A stop does not free the instance in the handler that takes it.
LEMMA StopStaysLemma ==
  ASSUME NEW j, Settled(j), NEW h \in JobType, Same(h, j), j.state # "waiting"
  PROVE  job_change_goal(h, "stop").state # "waiting"
<1> DEFINE c == [h EXCEPT !.goal = "stop"]
           k == [c EXCEPT !.goal = IF @ = "respawn" THEN "start" ELSE @]
<1>1. /\ c \in JobType /\ c.goal = "stop" /\ c.state = j.state
      /\ c.blocker = j.blocker
  BY DEF Same, JobGoal, JobType
<1>2. CASE j.state = "running" /\ j.goal # "stop"
  <2>1. job_change_goal(h, "stop") = Advance(c)
    BY <1>2 DEF job_change_goal, Same
  <2> HIDE DEF c
  <2>2. ~j.blocker
    BY <1>2 DEF Settled, JobInv
  <2>3. job_next_state(c) \in {"pre_stop", "stopping"}
    BY <1>1, <1>2 DEF job_next_state, NextWhenStopping
  <2>4. k \in JobType /\ k.state = "running" /\ ~k.blocker
    BY <1>1, <1>2, <2>2 DEF JobType, JobGoal
  <2> HIDE DEF k
  <2>5. Advance(c) \in {EnterPreStop(k), EnterStopping(k)}
    BY <2>3, <2>4 DEF Advance, job_change_state, Enter, k
  <2>6. EnterStopping(k).state = "stopping"
    BY <2>4 DEF EnterStopping, job_emit_event, JobType
  <2>7. EnterPreStop(k).state \in {"pre_stop", "stopping"}
    BY <2>4 DEF EnterPreStop, EnterStopping, job_emit_event, job_process_start,
       JobType
  <2> QED BY <2>1, <2>5, <2>6, <2>7
<1>3. CASE ~(j.state = "running" /\ j.goal # "stop")
  <2>1. job_change_goal(h, "stop") = c
    BY <1>3 DEF job_change_goal, Same
  <2> QED BY <1>1, <2>1
<1> QED BY <1>2, <1>3

-----------------------------------------------------------------------------
(* The end of a process                                                    *)

\* r is j after its process P is gone.
Lost(r, j, P) ==
    /\ r \in JobType
    /\ r.state = j.state /\ r.goal = j.goal /\ r.blocker = j.blocker
    /\ r.blocking = j.blocking /\ r.old = j.old /\ r.fault = j.fault
    /\ r.failed = j.failed /\ r.failed_process = j.failed_process
    /\ r.kill_timer = FALSE
    /\ r.pid = [j.pid EXCEPT ![P] = FALSE]
    /\ r.child = [j.child EXCEPT ![P] = "none"]
    /\ r.pipe = [j.pipe EXCEPT ![P] = "none"]

\* Every script runs alone but for the main process.
LEMMA ScriptLostLemma ==
  ASSUME NEW j, Settled(j), NEW P \in ProcessType \ {"main"}, j.pid[P],
         NEW r, Lost(r, j, P)
  PROVE  /\ Between(r) /\ r.state = P
         /\ P \notin {"post_start", "pre_stop"} => ~r.pid["main"]
         /\ r.goal = "respawn" => r.state \in {"post_start", "pre_stop"} /\ ~r.pid["main"]
<1>1. j \in JobType /\ j.state = P
  BY DEF Settled, JobInv, ProcessState
<1>2. \A Q \in ProcessType \ {"main", P} : ~j.pid[Q]
  BY <1>1 DEF Settled, JobInv, ProcessState
<1>3. \A Q \in ProcessType \ {"main", P} :
        j.pid[Q] = FALSE /\ j.child[Q] = "none" /\ j.pipe[Q] = "none"
  BY <1>1, <1>2 DEF Settled, JobInv, JobType, PipeState
<1>4. \A Q \in ProcessType \ {"main"} :
        r.pid[Q] = FALSE /\ r.child[Q] = "none" /\ r.pipe[Q] = "none"
  BY <1>1, <1>3 DEF Lost, JobType
<1>5. /\ r.pid["main"] = j.pid["main"] /\ r.child["main"] = j.child["main"]
      /\ r.pipe["main"] = j.pipe["main"]
  BY <1>1 DEF Lost, JobType, ProcessType
<1>6. P \in {"pre_start", "post_start", "pre_stop", "post_stop", "security"}
  BY DEF ProcessType
<1>7. /\ r \in JobType /\ r.old = {} /\ r.fault = "none"
      /\ r.blocker = FALSE /\ r.kill_timer = FALSE
  BY <1>1, <1>6 DEF Lost, Settled, JobInv, FaultKnown, JobType
<1>8. /\ j.pid["main"] <=> j.child["main"] # "none"
      /\ j.pid["main"] => "main" \in class.process /\ j.state \in ProcessState("main")
      /\ j.child["main"] # "setup" /\ j.pipe["main"] \notin {"open", "error"}
      /\ j.pipe["main"] = "eof" => j.child["main"] \in {"up", "dying"}
  BY <1>1, <1>6 DEF Settled, JobInv, ProcessType
<1>9. Between(r)
  BY <1>4, <1>5, <1>7, <1>8 DEF Between
<1> QED BY <1>1, <1>5, <1>6, <1>8, <1>9 DEF Lost, Settled, JobInv, ProcessState

\* The main process is gone in a state without scripts.
LEMMA MainLostLemma ==
  ASSUME NEW j, Settled(j), j.pid["main"],
         j.state \in {"spawned", "running", "killed"}, j.fault = "none",
         NEW r, Lost(r, j, "main")
  PROVE  Between(r) /\ ~r.pid["main"] /\ r.goal # "respawn"
<1>1. j \in JobType /\ "main" \in ProcessType
  BY DEF Settled, ProcessType
<1>2. \A Q \in ProcessType \ {"main"} : ~j.pid[Q]
  BY DEF Settled, JobInv, ProcessState, ProcessType
<1>3. \A Q \in ProcessType \ {"main"} :
        j.pid[Q] = FALSE /\ j.child[Q] = "none" /\ j.pipe[Q] = "none"
  BY <1>1, <1>2 DEF Settled, JobInv, JobType, PipeState
<1>4. \A Q \in ProcessType \ {"main"} :
        r.pid[Q] = FALSE /\ r.child[Q] = "none" /\ r.pipe[Q] = "none"
  BY <1>1, <1>3 DEF Lost, JobType
<1>5. r.pid["main"] = FALSE /\ r.child["main"] = "none" /\ r.pipe["main"] = "none"
  BY <1>1 DEF Lost, JobType
<1>6. /\ r \in JobType /\ r.old = {} /\ r.fault = "none"
      /\ r.blocker = FALSE /\ r.kill_timer = FALSE
  BY <1>1 DEF Lost, Settled, JobInv, JobType
<1>7. j.goal # "respawn"
  BY DEF Settled, JobInv
<1> QED BY <1>4, <1>5, <1>6, <1>7 DEF Between, Lost

\* The main process is gone in a state that waits for something else.
LEMMA MainGoneLemma ==
  ASSUME NEW j, Settled(j), j.pid["main"],
         j.state \in {"stopping", "post_start", "pre_stop"},
         NEW r, Lost(r, j, "main")
  PROVE  Settled(r) /\ ~r.pid["main"]
<1>1. j \in JobType /\ "main" \in ProcessType
  BY DEF Settled, ProcessType
<1>2. \A Q \in ProcessType \ {"main"} :
        r.pid[Q] = j.pid[Q] /\ r.child[Q] = j.child[Q] /\ r.pipe[Q] = j.pipe[Q]
  BY <1>1 DEF Lost, JobType
<1>3. r.pid["main"] = FALSE /\ r.child["main"] = "none" /\ r.pipe["main"] = "none"
  BY <1>1 DEF Lost, JobType
<1>4. \A Q \in ProcessType :
        /\ r.pid[Q] <=> r.child[Q] # "none"
        /\ r.pid[Q] => Q \in class.process /\ r.state \in ProcessState(Q)
        /\ r.child[Q] = "setup" <=> r.pipe[Q] = "open"
        /\ r.pipe[Q] = "eof" => r.child[Q] \in {"up", "dying"}
        /\ r.pipe[Q] = "error" => r.child[Q] = "dying" /\ Q \in SetupFails
  BY <1>2, <1>3 DEF Settled, JobInv, Lost
<1>5. /\ r.state \in ProcessType => r.pid[r.state]
      /\ r.state # "starting" /\ ~r.pid["security"]
  BY <1>2, <1>4 DEF Settled, JobInv, SecurityFailed, Lost, ProcessState, ProcessType
<1>6. JobInv(r)
  BY <1>3, <1>4, <1>5 DEF Settled, JobInv, FaultKnown, Lost
<1> QED BY <1>3, <1>6 DEF Settled, Lost

\* What is not in JobInv may change, and a caller may be answered.
LEMMA SettledLemma ==
  ASSUME NEW j, Settled(j), NEW e \in JobType, Same(e, j),
         e.blocking \in {j.blocking, "none"},
         j.state \notin {"starting", "security"}
  PROVE  Settled(e)
<1>1. ~j.pid["security"]
  BY DEF Settled, JobInv, ProcessState, ProcessType
<1> QED BY <1>1 DEF Settled, JobInv, FaultKnown, SecurityFailed, Same

\* A main process that ended takes the job out of spawned or running.
LEMMA StopNowLemma ==
  ASSUME NEW f, Between(f), ~f.pid["main"], f.state \in {"spawned", "running"},
         f.goal \in {"start", "stop"}, f.state = "running" => f.goal = "start"
  PROVE  Settled(StopNow(f, FALSE))
<1> DEFINE c == [f EXCEPT !.goal = "stop"]
<1>1. c \in JobType /\ c.goal = "stop"
      /\ c.state = f.state /\ c.pid = f.pid
      /\ c.child = f.child /\ c.pipe = f.pipe /\ c.old = f.old
      /\ c.fault = f.fault /\ c.blocker = f.blocker
      /\ c.kill_timer = f.kill_timer
  BY DEF Between, JobType, JobGoal
<1>2. Between(c)
  BY <1>1 DEF Between
<1>3. Settled(Advance(c))
  BY <1>1, <1>2, AdvanceLemma
<1>4. StopNow(f, FALSE) = Advance(c)
  BY DEF StopNow, job_change_goal
<1> QED BY <1>3, <1>4

\* A main process that ended in any other state leaves the job where it is.
LEMMA StopLaterLemma ==
  ASSUME NEW f, Settled(f), f.state # "waiting"
  PROVE  Settled(StopNow(f, TRUE))
<1>1. f.fault # "freed" /\ f \in JobType /\ Same(f, f)
  BY DEF Settled, JobInv, FaultKnown, Same
<1>2. Settled(job_change_goal(f, "stop"))
  BY <1>1, ChangeGoalLemma
<1> QED BY <1>2 DEF StopNow

\* The respawn counter is a number.
LEMMA CountLemma ==
  ASSUME class \in Classes, NEW r \in JobType, NEW d, d.respawn_count \in Nat,
         NEW recent \in BOOLEAN
  PROVE  LET e == [r EXCEPT !.respawn_count = RespawnCount(d, recent)]
         IN  e \in JobType /\ Same(e, r) /\ e.blocking = r.blocking
<1>1. class.limit \in Nat
  BY ClassesAssumption DEF ClassType
<1>2. RespawnCount(d, recent) \in Nat
  BY <1>1 DEF RespawnCount
<1> QED BY <1>2 DEF JobType, Same

\* PROCESS_MAIN of job_process_terminated.
LEMMA MainTerminatedLemma ==
  ASSUME class \in Classes, NEW j, Settled(j), j.pid["main"], j.fault = "none",
         NEW d, d.state = j.state, d.pid = j.pid, d.goal = j.goal,
         d.respawn_count \in Nat,
         NEW r, Lost(r, j, "main"),
         NEW status \in ExitStatus, NEW recent \in BOOLEAN
  PROVE  Settled(MainTerminated(d, r, status, recent))
<1>1. d.state \in ProcessState("main") /\ "main" \in class.process
  BY DEF Settled, JobInv, ProcessType
<1>2. CASE d.state = "killed"
  <2>1. Between(r) /\ ~r.pid["main"] /\ r.goal # "respawn" /\ r.state = "killed"
    BY <1>2, MainLostLemma DEF Lost
  <2>2. Settled(Advance(r))
    BY <2>1, AdvanceLemma
  <2> QED BY <1>2, <2>2 DEF MainTerminated
<1>3. CASE d.state = "stopping"
  <2>1. Settled(r)
    BY <1>3, MainGoneLemma
  <2> QED BY <1>3, <2>1 DEF MainTerminated
<1>4. CASE d.state \in {"running", "spawned", "post_start", "pre_stop"}
  <2> DEFINE counted == [r EXCEPT !.respawn_count = RespawnCount(d, recent)]
             given == job_failed(counted, "none")
             stopped == IF MainFailed(d, status) THEN job_failed(r, "main") ELSE r
             respawn == MainFailed(d, status) /\ class.respawn /\ ~disable_respawn
  <2>1. counted \in JobType /\ Same(counted, r) /\ counted.blocking = r.blocking
    BY CountLemma DEF Lost
  <2> HIDE DEF counted
  <2>2. given \in JobType /\ Same(given, r)
        /\ given.blocking \in {r.blocking, "none"}
    BY <2>1, FailedLemma DEF Same
  <2>3. stopped \in JobType /\ Same(stopped, r)
        /\ stopped.blocking \in {r.blocking, "none"}
    <3>1. job_failed(r, "main") \in JobType /\ Same(job_failed(r, "main"), r)
          /\ job_failed(r, "main").blocking \in {r.blocking, "none"}
      BY FailedLemma DEF Lost, ProcessType
    <3> QED BY <3>1 DEF Same, Lost
  <2> HIDE DEF given, stopped
  <2>4. MainTerminated(d, r, status, recent) = MainLost(d, r, status, recent)
    BY <1>4 DEF MainTerminated
  <2>5. CASE d.state \in {"running", "spawned"}
    <3>1. /\ Between(r) /\ ~r.pid["main"] /\ r.goal \in {"start", "stop"}
          /\ r.state = d.state /\ r.goal = d.goal
          /\ r.state = "running" => r.goal = "start"
      <4>1. Between(r) /\ ~r.pid["main"] /\ r.goal # "respawn"
        BY <2>5, MainLostLemma
      <4> QED BY <4>1 DEF Lost, JobType, JobGoal, Settled, JobInv
    <3>2. ScriptRuns(d) = FALSE
      BY <2>5 DEF ScriptRuns
    <3>3. Settled(StopNow(given, FALSE))
      BY <2>2, <2>5, <3>1, StopNowLemma, SameLemma DEF Same
    <3>4. Settled(StopNow(stopped, FALSE))
      BY <2>3, <2>5, <3>1, StopNowLemma, SameLemma DEF Same
    <3>5. Settled(Advance(counted))
      BY <2>1, <2>5, <3>1, AdvanceLemma, SameLemma DEF Same
    <3>6. MainLost(d, r, status, recent)
            \in {StopNow(given, FALSE), StopNow(stopped, FALSE), Advance(counted)}
      BY <3>2 DEF MainLost, given, stopped, counted
    <3> QED BY <2>4, <3>3, <3>4, <3>5, <3>6
  <2>6. CASE d.state \in {"post_start", "pre_stop"}
    <3>1. Settled(r) /\ ~r.pid["main"] /\ r.state = d.state
      BY <2>6, MainGoneLemma DEF Lost
    <3>2. ScriptRuns(d) = TRUE
      BY <2>6 DEF ScriptRuns, Has, Settled, JobInv, SecurityFailed, ProcessType
    <3>3. Settled(given) /\ Settled(stopped) /\ Settled(counted)
      BY <2>1, <2>2, <2>3, <2>6, <3>1, SettledLemma
    <3>4. Settled(StopNow(given, TRUE)) /\ Settled(StopNow(stopped, TRUE))
      BY <2>2, <2>3, <2>6, <3>1, <3>3, StopLaterLemma DEF Same
    <3>5. Settled(job_change_goal(counted, "respawn"))
      <4> DEFINE e == [counted EXCEPT !.goal = "respawn"]
      <4>1. job_change_goal(counted, "respawn") = e
        BY DEF job_change_goal
      <4>2. /\ e \in JobType /\ e.goal = "respawn" /\ e.state = counted.state
            /\ e.pid = counted.pid /\ e.child = counted.child
            /\ e.pipe = counted.pipe /\ e.old = counted.old
            /\ e.fault = counted.fault /\ e.blocker = counted.blocker
            /\ e.kill_timer = counted.kill_timer
            /\ e.blocking = counted.blocking
        BY <2>1 DEF JobType, JobGoal
      <4> HIDE DEF e
      <4>3. counted.state = d.state /\ ~counted.pid["main"]
        BY <2>1, <3>1 DEF Same
      <4>4. ~counted.pid["security"] /\ counted.fault = "none"
        BY <2>6, <3>3, <4>3 DEF Settled, JobInv, FaultKnown, JobType, ProcessState,
           ProcessType
      <4>5. JobInv(e)
        BY <2>6, <3>3, <4>2, <4>3, <4>4 DEF Settled, JobInv, FaultKnown,
           SecurityFailed
      <4> QED BY <4>1, <4>2, <4>5 DEF Settled
    <3>6. MainLost(d, r, status, recent)
            \in {StopNow(given, TRUE), StopNow(stopped, TRUE),
                job_change_goal(counted, "respawn")}
      BY <3>2 DEF MainLost, given, stopped, counted
    <3> QED BY <2>4, <3>4, <3>5, <3>6
  <2> QED BY <1>4, <2>5, <2>6
<1> QED BY <1>1, <1>2, <1>3, <1>4 DEF ProcessState

\* A failure of P takes a job that only P holds up towards stopping.
LEMMA ScriptFailedLemma ==
  ASSUME NEW r, Between(r), NEW P \in ProcessType, ~r.pid["main"],
         r.state \in {"pre_start", "spawned", "post_stop"}
  PROVE  LET f == job_change_goal(job_failed(r, P), "stop")
         IN  Settled(Advance(f)) /\ ~f.blocker /\ f.goal = "stop"
             /\ f.state = r.state
<1> DEFINE g == job_failed(r, P)
           f == [g EXCEPT !.goal = "stop"]
<1>1. g \in JobType /\ Same(g, r)
  BY FailedLemma DEF Between
<1> HIDE DEF g
<1>2. /\ f \in JobType /\ f.goal = "stop" /\ f.state = g.state
      /\ f.pid = g.pid /\ f.child = g.child /\ f.pipe = g.pipe
      /\ f.old = g.old /\ f.fault = g.fault /\ f.blocker = g.blocker
      /\ f.kill_timer = g.kill_timer
  BY <1>1 DEF JobType, JobGoal
<1>3. job_change_goal(g, "stop") = f
  BY <1>1 DEF job_change_goal, Same
<1> HIDE DEF f
<1>4. Between(f) /\ ~f.pid["main"] /\ f.state = r.state
  BY <1>1, <1>2 DEF Between, Same
<1>5. Settled(Advance(f))
  BY <1>2, <1>4, AdvanceLemma
<1> QED BY <1>2, <1>3, <1>4, <1>5 DEF g, Between

\* The end of any process but main settles the job.
LEMMA ScriptTerminatedLemma ==
  ASSUME NEW j, Settled(j), NEW P \in ProcessType \ {"main"}, j.pid[P],
         NEW d, d.state = j.state,
         NEW r, Lost(r, j, P), NEW status \in ExitStatus
  PROVE  Settled(ScriptTerminated(d, r, P, status))
<1>1. /\ Between(r) /\ r.state = P
      /\ P \notin {"post_start", "pre_stop"} => ~r.pid["main"]
      /\ r.goal = "respawn" => r.state \in {"post_start", "pre_stop"} /\ ~r.pid["main"]
  BY ScriptLostLemma
<1>2. d.state = P /\ P \in ScriptState(P)
  BY <1>1 DEF Lost, ScriptState, ProcessType
<1>3. CASE P \in {"pre_start", "post_stop"} /\ status # 0
  <2>1. Settled(Advance(job_change_goal(job_failed(r, P), "stop")))
    BY <1>1, <1>3, ScriptFailedLemma
  <2> QED BY <1>2, <1>3, <2>1 DEF ScriptTerminated
<1>4. CASE ~(P \in {"pre_start", "post_stop"} /\ status # 0)
  <2>1. Settled(Advance(r))
    BY <1>1, AdvanceLemma DEF ProcessType
  <2> QED BY <1>2, <1>4, <2>1 DEF ScriptTerminated
<1> QED BY <1>3, <1>4

\* A step along job_next_state that does not free the instance.
LEMMA NotFreedLemma ==
  ASSUME NEW j \in JobType, ~j.blocker,
         \/ j.state \in {"pre_start", "spawned"} /\ j.goal = "stop"
         \/ j.state \in {"post_start", "pre_stop"}
  PROVE  Advance(j).state \in {"stopping", "running"}
<1> DEFINE c == [j EXCEPT !.goal = IF @ = "respawn" THEN "start" ELSE @]
<1>1. c \in JobType /\ c.state = j.state /\ c.blocker = j.blocker
  BY DEF JobType, JobGoal
<1> HIDE DEF c
<1>2. job_next_state(j) \in {"stopping", "running"}
  BY DEF job_next_state, NextWhenStarting, NextWhenStopping,
     NextWhenRespawning, JobType, JobGoal
<1>3. Advance(j) = Enter(c, job_next_state(j))
  BY <1>1, <1>2 DEF Advance, job_change_state, c
<1>4. EnterStopping(c).state = "stopping"
  BY <1>1 DEF EnterStopping, job_emit_event, JobType
<1>5. EnterRunning(c).state = "running"
  BY <1>1 DEF EnterRunning, job_emit_event, job_finished, JobType
<1> QED BY <1>2, <1>3, <1>4, <1>5 DEF Enter

-----------------------------------------------------------------------------
(* The set-up pipe                                                         *)

\* An error report that finds its child dying.
LEMMA ChildReaderLemma ==
  ASSUME NEW j, Settled(j), NEW P \in ProcessType, j.pipe[P] = "error"
  PROVE  Settled(job_process_child_reader([j EXCEPT !.pipe[P] = "none"], P))
<1> DEFINE n == [j EXCEPT !.pipe[P] = "none"]
           r == [n EXCEPT !.pid[P] = FALSE,
                          !.child[P] = IF @ \in {"setup", "up"} THEN @ ELSE "none"]
           f == job_change_goal(job_failed(r, P), "stop")
<1>1. /\ j \in JobType /\ j.child[P] = "dying" /\ j.pid[P] /\ P \in SetupFails
      /\ P = "main" => j.state = "spawned"
      /\ P # "main" => j.state = P
  BY DEF Settled, JobInv, ProcessState
<1>2. /\ P \in {"main", "pre_start", "post_start", "pre_stop", "security",
                 "post_stop"}
      /\ P \in class.process /\ j.fault = "none"
  BY <1>1 DEF ProcessType, Settled, JobInv, FaultKnown, JobType
<1>3. n.child = j.child /\ n \in JobType
  BY <1>1 DEF JobType, PipeState
<1>4. Lost(r, j, P)
  <2>1. j.kill_timer = FALSE
    BY <1>1, <1>2 DEF Settled, JobInv, JobType
  <2>2. r = [n EXCEPT !.pid[P] = FALSE, !.child[P] = "none"]
    BY <1>1, <1>3
  <2> QED BY <1>1, <2>1, <2>2 DEF Lost, JobType, ChildState, PipeState
<1>5. CASE P \in {"main", "pre_start"}
  <2> HIDE DEF r
  <2>1. Between(r) /\ ~r.pid["main"] /\ r.state \in {"spawned", "pre_start"}
    <3>1. CASE P = "main"
      BY <1>1, <1>2, <1>4, <3>1, MainLostLemma DEF Lost
    <3>2. CASE P = "pre_start"
      BY <1>1, <1>4, <3>2, ScriptLostLemma DEF ProcessType
    <3> QED BY <1>5, <3>1, <3>2
  <2>2. Settled(Advance(f)) /\ ~f.blocker /\ f.goal = "stop" /\ f.state = r.state
    BY <2>1, ScriptFailedLemma
  <2>3. f \in JobType
    <3>1. job_failed(r, P) \in JobType /\ Same(job_failed(r, P), r)
      BY <2>1, FailedLemma DEF Between
    <3> QED BY <2>1, <3>1 DEF job_change_goal, Same, JobType, JobGoal
  <2>4. Advance(f).state \in {"stopping", "running"}
    BY <2>1, <2>2, <2>3, NotFreedLemma
  <2>5. job_child_error_handler(n, P) = Advance(f)
    BY <1>5 DEF job_child_error_handler, r
  <2> QED BY <2>2, <2>4, <2>5 DEF job_process_child_reader
<1>6. CASE P \in {"post_start", "pre_stop"}
  <2>1. /\ Between(r) /\ r.state \in {"post_start", "pre_stop"}
        /\ r.goal = "respawn" => ~r.pid["main"]
    BY <1>1, <1>4, <1>6, ScriptLostLemma
  <2> HIDE DEF r
  <2>2. Settled(Advance(r))
    BY <2>1, AdvanceLemma
  <2>3. Advance(r).state \in {"stopping", "running"}
    BY <2>1, NotFreedLemma DEF Between
  <2>4. job_child_error_handler(n, P) = Advance(r)
    BY <1>6 DEF job_child_error_handler, r
  <2> QED BY <2>2, <2>3, <2>4 DEF job_process_child_reader
<1>7. CASE P = "security"
  <2> HIDE DEF r
  <2>1. Between(r) /\ r.state = "security" /\ ~r.pid["main"] /\ r.goal # "respawn"
    BY <1>1, <1>4, <1>7, ScriptLostLemma DEF ProcessType
  <2>2. ~r.failed
    BY <1>1, <1>4, <1>7 DEF Lost, Settled, JobInv
  <2> DEFINE g == job_failed(r, P)
  <2>3. g \in JobType /\ Same(g, r) /\ g.failed_process = "security"
    <3>1. g \in JobType /\ Same(g, r)
      BY <2>1, FailedLemma DEF Between
    <3>2. g.failed_process = "security"
      BY <1>7, <2>1, <2>2 DEF job_failed, job_finished, Between, JobType
    <3> QED BY <3>1, <3>2
  <2> HIDE DEF g
  <2>4. f = [g EXCEPT !.goal = "stop"]
    BY <2>1, <2>3 DEF job_change_goal, Same, g
  <2>5. /\ f \in JobType /\ f.goal = "stop" /\ f.state = "security"
        /\ f.pid = r.pid /\ f.child = r.child /\ f.pipe = r.pipe
        /\ f.old = r.old /\ f.fault = r.fault /\ f.blocker = r.blocker
        /\ f.kill_timer = r.kill_timer /\ f.failed_process = "security"
    BY <2>1, <2>3, <2>4 DEF JobType, JobGoal, Same
  <2>6. job_child_error_handler(n, P) = f
    BY <1>7 DEF job_child_error_handler, r, g
  <2> HIDE DEF f
  <2>7. \A Q \in ProcessType :
            f.pid[Q] = FALSE /\ f.child[Q] = "none" /\ f.pipe[Q] = "none"
    <3>1. r.pipe["main"] \in PipeState
      BY <2>1 DEF Between, JobType, ProcessType
    <3>2. r.pid["main"] = FALSE /\ r.child["main"] = "none" /\ r.pipe["main"] = "none"
      BY <2>1, <3>1 DEF Between, JobType, PipeState, ProcessType
    <3> QED BY <2>1, <2>5, <3>2 DEF Between
  <2>8. FaultKnown(f) /\ SecurityFailed(f)
    BY <2>1, <2>5, <2>7 DEF FaultKnown, SecurityFailed, Between, ProcessType
  <2>9. JobInv(f)
    BY <2>1, <2>5, <2>7, <2>8 DEF JobInv, Between, ProcessType
  <2> QED BY <2>5, <2>6, <2>9 DEF job_process_child_reader, Settled
<1>8. CASE P = "post_stop"
  <2> HIDE DEF r
  <2>1. Between(r) /\ r.state = "post_stop" /\ ~r.pid["main"]
    BY <1>1, <1>4, <1>8, ScriptLostLemma DEF ProcessType
  <2> DEFINE a == Advance(f)
             b == [a EXCEPT !.fault = "freed"]
  <2>2. Settled(a)
    BY <2>1, ScriptFailedLemma
  <2>3. job_child_error_handler(n, P) = a
    BY <1>8 DEF job_child_error_handler, r
  <2> HIDE DEF f, a
  <2>4. job_process_child_reader(n, P)
            = IF a.state = "waiting" /\ a.fault = "none" THEN b ELSE a
    BY <2>3 DEF job_process_child_reader
  <2>5. CASE ~(a.state = "waiting" /\ a.fault = "none")
    BY <2>2, <2>4, <2>5
  <2>6. CASE a.state = "waiting" /\ a.fault = "none"
    <3>1. /\ b \in JobType /\ b.fault = "freed" /\ b.state = a.state
          /\ b.goal = a.goal /\ b.blocker = a.blocker /\ b.blocking = a.blocking
          /\ b.failed = a.failed /\ b.failed_process = a.failed_process
          /\ b.pid = a.pid /\ b.child = a.child /\ b.pipe = a.pipe
          /\ b.old = a.old /\ b.kill_timer = a.kill_timer
      BY <2>2 DEF Settled, JobType
    <3> HIDE DEF b
    <3>2. FaultKnown(b)
      BY <1>1, <1>2, <1>8, <2>6, <3>1 DEF FaultKnown
    <3>3. JobInv(b)
      BY <2>2, <2>6, <3>1, <3>2 DEF Settled, JobInv, SecurityFailed
    <3> QED BY <2>4, <2>6, <3>1, <3>3 DEF Settled
  <2> QED BY <2>5, <2>6
<1> QED BY <1>2, <1>5, <1>6, <1>7, <1>8

\* A job whose main process is set up is held up by nothing in spawned.
LEMMA SpawnedBetweenLemma ==
  ASSUME NEW j, Settled(j), j.state = "spawned",
         j.child["main"] \in {"up", "dying"},
         NEW e \in JobType, e.pipe["main"] \in {"none", "eof"},
         e.state = j.state, e.goal = j.goal, e.pid = j.pid, e.child = j.child,
         \A Q \in ProcessType \ {"main"} : e.pipe[Q] = j.pipe[Q],
         e.old = j.old, e.fault = j.fault, e.blocker = j.blocker,
         e.kill_timer = j.kill_timer
  PROVE  Between(e) /\ e.goal # "respawn"
<1>1. j \in JobType /\ "main" \in ProcessType
  BY DEF Settled, ProcessType
<1>2. \A Q \in ProcessType \ {"main"} : ~j.pid[Q]
  BY DEF Settled, JobInv, ProcessState, ProcessType
<1>3. \A Q \in ProcessType \ {"main"} :
        j.pid[Q] = FALSE /\ j.child[Q] = "none" /\ j.pipe[Q] = "none"
  BY <1>1, <1>2 DEF Settled, JobInv, JobType, PipeState
<1>4. /\ e.old = {} /\ e.fault = "none"
      /\ e.blocker = FALSE /\ e.kill_timer = FALSE
      /\ e.pid["main"] /\ "main" \in class.process /\ e.goal # "respawn"
  BY <1>1 DEF Settled, JobInv, FaultKnown, JobType
<1>5. Between(e)
  BY <1>3, <1>4 DEF Between
<1> QED BY <1>4, <1>5

\* So it can leave spawned.
LEMMA SpawnedReadyLemma ==
  ASSUME NEW j, Settled(j), j.state = "spawned",
         j.child["main"] \in {"up", "dying"},
         NEW e \in JobType, e.pipe["main"] \in {"none", "eof"},
         e.state = j.state, e.goal = j.goal, e.pid = j.pid, e.child = j.child,
         \A Q \in ProcessType \ {"main"} : e.pipe[Q] = j.pipe[Q],
         e.old = j.old, e.fault = j.fault, e.blocker = j.blocker,
         e.kill_timer = j.kill_timer
  PROVE  Settled(Advance(e))
BY SpawnedBetweenLemma, AdvanceLemma

\* The end of file of a set-up pipe.
LEMMA CloseHandlerLemma ==
  ASSUME NEW j, Settled(j), NEW P \in ProcessType, j.pipe[P] = "eof"
  PROVE  Settled(job_process_close_handler([j EXCEPT !.pipe[P] = "none"], P))
<1> DEFINE n == [j EXCEPT !.pipe[P] = "none"]
<1>1. j \in JobType /\ j.child[P] \in {"up", "dying"}
  BY DEF Settled, JobInv
<1>2. /\ n \in JobType /\ n.state = j.state /\ n.goal = j.goal
      /\ n.pid = j.pid /\ n.child = j.child /\ n.old = j.old
      /\ n.fault = j.fault /\ n.blocker = j.blocker
      /\ n.kill_timer = j.kill_timer /\ n.blocking = j.blocking
      /\ n.failed = j.failed /\ n.failed_process = j.failed_process
      /\ n.pipe = [j.pipe EXCEPT ![P] = "none"]
  BY <1>1 DEF JobType, PipeState
<1> HIDE DEF n
<1>3. n.pipe[P] = "none" /\ \A Q \in ProcessType \ {P} : n.pipe[Q] = j.pipe[Q]
  BY <1>1, <1>2 DEF JobType
<1>4. CASE j.state = "spawned" /\ ~class.waits_ready /\ P = "main"
  <2>1. /\ j.child["main"] \in {"up", "dying"} /\ n.pipe["main"] \in {"none", "eof"}
        /\ \A Q \in ProcessType \ {"main"} : n.pipe[Q] = j.pipe[Q]
    BY <1>1, <1>3, <1>4
  <2>2. Settled(Advance(n))
    BY <1>2, <1>4, <2>1, SpawnedReadyLemma
  <2> QED BY <1>2, <1>4, <2>2 DEF job_process_close_handler, n
<1>5. CASE ~(j.state = "spawned" /\ ~class.waits_ready /\ P = "main")
  <2>1. JobInv(n)
    BY <1>1, <1>2, <1>3 DEF Settled, JobInv, FaultKnown, SecurityFailed
  <2> QED BY <1>2, <1>5, <2>1 DEF job_process_close_handler, Settled, n
<1> QED BY <1>4, <1>5

-----------------------------------------------------------------------------
(* One lemma per action                                                    *)

\* A settled job and a well-formed main loop are all IndInv asks for.
LEMMA IndInvLemma ==
  ASSUME IndInv, Settled(job'), class' = class, disable_respawn' \in BOOLEAN,
         phase' \in Phase, ready' \subseteq ProcessType,
         \A P \in ready' : job'.pipe[P] \in Readable,
         phase' # "io" => ready' = {}
  PROVE  IndInv'
BY DEF IndInv, TypeOK, Settled, JobInv, FaultKnown, SecurityFailed

\* What IndInv says of the job in the current state.
LEMMA NowLemma ==
  ASSUME IndInv
  PROVE  Settled(job) /\ class \in Classes /\ job \in JobType
BY DEF IndInv, TypeOK, Settled

\* The initial states satisfy the inductive invariant.
LEMMA InitLemma == Init => IndInv
<1> SUFFICES ASSUME Init PROVE IndInv
  OBVIOUS
<1>1. job \in JobType
  BY DEF Init, JobType, JobState, JobGoal, ChildState, PipeState, EventName
<1>2. JobInv(job)
  BY DEF Init, JobInv, FaultKnown, ProcessType
<1> QED BY <1>1, <1>2 DEF Init, IndInv, TypeOK, Phase

\* A command changes the goal, with its caller held back.
LEMMA HeldLemma ==
  ASSUME IndInv, NEW b \in {"none", "start", "stop", "restart"}
  PROVE  /\ Held(b) \in JobType /\ Same(Held(b), job)
         /\ Held(b).failed = job.failed
         /\ Held(b).failed_process = job.failed_process
BY NowLemma DEF Held, JobType, Same

\* The part that start, stop and restart share: callers held, then the goal
\* changed.
LEMMA CommandLemma ==
  ASSUME IndInv, NEW h \in JobType, Same(h, job), NEW g \in {"start", "stop"},
         job.goal # g \/ h = job, Alive,
         h.failed = job.failed, h.failed_process = job.failed_process,
         job' = job_change_goal(h, g),
         UNCHANGED <<class, phase, ready>>, disable_respawn' \in BOOLEAN
  PROVE  IndInv'
<1>1. Settled(job)
  BY NowLemma
<1>2. Settled(job')
  BY <1>1, ChangeGoalLemma DEF Alive
<1>3. \A P \in ready : job'.pipe[P] \in Readable
  BY <1>1, CommandPipesLemma DEF IndInv, TypeOK, Alive
<1> QED BY <1>2, <1>3, IndInvLemma DEF IndInv, TypeOK

\* A start command keeps the invariant.
LEMMA StartLemma ==
  ASSUME IndInv, NEW wait \in BOOLEAN, Start(wait)
  PROVE  IndInv'
BY HeldLemma, CommandLemma DEF Start, Commanded, IndInv, TypeOK

\* A stop command keeps the invariant.
LEMMA StopLemma ==
  ASSUME IndInv, NEW wait \in BOOLEAN, Stop(wait)
  PROVE  IndInv'
BY HeldLemma, CommandLemma DEF Stop, Commanded, IndInv, TypeOK

\* A restart, stop and start in one handler, keeps the invariant.
LEMMA RestartLemma ==
  ASSUME IndInv, NEW wait \in BOOLEAN, Restart(wait)
  PROVE  IndInv'
<1> DEFINE h == Held(IF wait THEN "restart" ELSE "none")
           k == job_change_goal(h, "stop")
<1>1. /\ h \in JobType /\ Same(h, job)
      /\ h.failed = job.failed /\ h.failed_process = job.failed_process
      /\ job.fault # "freed" /\ job.state # "waiting" /\ job.goal # "stop"
  BY HeldLemma DEF Restart, Commanded, Alive
<1> HIDE DEF h
<1>2. Settled(k) /\ k.state # "waiting"
  BY <1>1, NowLemma, ChangeGoalLemma, StopStaysLemma
<1>3. \A P \in ready : k.pipe[P] = job.pipe[P]
  BY <1>1, NowLemma, CommandPipesLemma DEF IndInv, TypeOK
<1> HIDE DEF k
<1>4. /\ k \in JobType /\ Same(k, k) /\ job' = job_change_goal(k, "start")
      /\ k.fault # "freed"
  BY <1>2 DEF Settled, JobInv, FaultKnown, Same, Restart, k, h
<1>5. Settled(job')
  BY <1>2, <1>4, ChangeGoalLemma
<1>6. \A P \in ready : job'.pipe[P] \in Readable
  <2> SUFFICES ASSUME NEW P \in ready PROVE job'.pipe[P] \in Readable
    OBVIOUS
  <2>1. P \in ProcessType /\ k.pipe[P] \in Readable
    BY <1>3 DEF IndInv, TypeOK
  <2>2. job'.pipe[P] = k.pipe[P]
    BY <1>2, <1>4, <2>1, CommandPipesLemma
  <2> QED BY <2>1, <2>2
<1> QED BY <1>5, <1>6, IndInvLemma DEF IndInv, TypeOK, Restart

\* Stopping everything at shutdown keeps the invariant.
LEMMA QuiesceLemma ==
  ASSUME IndInv, Quiesce
  PROVE  IndInv'
<1>1. CASE job.state = "waiting"
  BY <1>1, NowLemma, IndInvLemma DEF Quiesce, IndInv, TypeOK
<1>2. CASE job.state # "waiting"
  BY <1>2, NowLemma, CommandLemma DEF Quiesce, Commanded, Same
<1> QED BY <1>1, <1>2

\* Reading a set-up report keeps the invariant.
LEMMA ReadPipeLemma ==
  ASSUME IndInv, NEW P \in ProcessType, ReadPipe(P)
  PROVE  IndInv'
<1>1. job.pipe[P] \in {"error", "eof"} /\ Settled(job)
  BY NowLemma DEF ReadPipe, IndInv, Readable
<1>2. Settled(PipeHandler([job EXCEPT !.pipe[P] = "none"], P, job.pipe[P]))
  BY <1>1, ChildReaderLemma, CloseHandlerLemma DEF PipeHandler
<1> QED BY <1>2, IndInvLemma DEF ReadPipe, IndInv, TypeOK, Readable

\* Handling the end of a child keeps the invariant.
LEMMA ReapLemma ==
  ASSUME IndInv, NEW P \in ProcessType, Reap(P)
  PROVE  IndInv'
<1> DEFINE d == [job EXCEPT !.child[P] = "none"]
           r == [d EXCEPT !.pid[P] = FALSE, !.kill_timer = FALSE]
<1>1. job \in JobType /\ job.child[P] = "zombie" /\ job.pid[P] /\ job.pipe[P] = "none"
  BY NowLemma DEF Reap, Settled, JobInv, JobType, PipeState
<1>2. PICK status \in ExitStatus, recent \in BOOLEAN :
        job' = job_process_terminated(d, P, status, recent)
  BY <1>1 DEF Reap
<1>3. /\ d.state = job.state /\ d.pid = job.pid /\ d.goal = job.goal
      /\ d.respawn_count = job.respawn_count
  BY <1>1 DEF JobType
<1>4. Lost(r, job, P)
  <2>1. [job.pipe EXCEPT ![P] = "none"] = job.pipe
    BY <1>1 DEF JobType
  <2> QED BY <1>1, <2>1 DEF Lost, JobType, ChildState
<1>5. job.respawn_count \in Nat
  BY <1>1 DEF JobType
<1> HIDE DEF d
<1>6. job' = IF P = "main" THEN MainTerminated(d, r, status, recent)
             ELSE ScriptTerminated(d, r, P, status)
  BY <1>2 DEF job_process_terminated
<1> HIDE DEF r
<1>7. Settled(job')
  <2>1. CASE P = "main"
    BY <1>1, <1>3, <1>4, <1>5, <1>6, <2>1, NowLemma, MainTerminatedLemma
       DEF Reap, Alive
  <2>2. CASE P # "main"
    BY <1>1, <1>3, <1>4, <1>6, <2>2, NowLemma, ScriptTerminatedLemma
  <2> QED BY <2>1, <2>2
<1> QED BY <1>7, IndInvLemma DEF Reap, IndInv, TypeOK, Phase

\* The readiness of an expected main process keeps the invariant.
LEMMA MainReadyLemma ==
  ASSUME IndInv, MainReady
  PROVE  IndInv'
<1>1. Settled(job) /\ job \in JobType /\ job.pipe["main"] \in {"none", "eof"}
  BY NowLemma DEF MainReady, Settled, JobInv, JobType, PipeState, ProcessType
<1>2. Settled(job')
  BY <1>1, SpawnedReadyLemma DEF MainReady
<1> QED BY <1>2, IndInvLemma DEF MainReady, IndInv, TypeOK, Phase

\* A job whose event has finished is held up by nothing.
LEMMA EventOverLemma ==
  ASSUME NEW j, Settled(j), j.blocker
  PROVE  LET e == [j EXCEPT !.blocker = FALSE]
         IN  /\ Between(e) /\ e.state = j.state /\ e.pid = j.pid
             /\ e.state \in {"starting", "stopping"} /\ e.goal # "respawn"
             /\ e.state = "starting" => ~e.pid["main"] /\ ~e.failed
<1> DEFINE e == [j EXCEPT !.blocker = FALSE]
<1>1. j \in JobType /\ j.state \in {"starting", "stopping"}
  BY DEF Settled, JobInv
<1>2. /\ e \in JobType /\ e.blocker = FALSE /\ e.state = j.state
      /\ e.goal = j.goal /\ e.pid = j.pid /\ e.child = j.child
      /\ e.pipe = j.pipe /\ e.old = j.old /\ e.fault = j.fault
      /\ e.kill_timer = j.kill_timer /\ e.failed = j.failed
  BY <1>1 DEF JobType
<1> HIDE DEF e
<1>3. \A P \in ProcessType \ {"main"} : ~j.pid[P]
  BY <1>1 DEF Settled, JobInv, ProcessState, ProcessType
<1>4. \A P \in ProcessType \ {"main"} :
        j.pid[P] = FALSE /\ j.child[P] = "none" /\ j.pipe[P] = "none"
  BY <1>1, <1>3 DEF Settled, JobInv, JobType, PipeState
<1>5. /\ j.pid["main"] <=> j.child["main"] # "none"
      /\ j.pid["main"] => "main" \in class.process /\ j.state = "stopping"
      /\ j.child["main"] # "setup" /\ j.pipe["main"] \notin {"open", "error"}
      /\ j.pipe["main"] = "eof" => j.child["main"] \in {"up", "dying"}
      /\ j.goal # "respawn" /\ j.kill_timer = FALSE
      /\ j.old = {} /\ j.fault = "none"
      /\ j.state = "starting" => ~j.failed
  BY <1>1 DEF Settled, JobInv, FaultKnown, ProcessState, ProcessType, JobType
<1>6. Between(e)
  BY <1>2, <1>4, <1>5 DEF Between
<1> QED BY <1>1, <1>2, <1>5, <1>6 DEF e

\* The end of the event a job waits for keeps the invariant.
LEMMA EventFinishedLemma ==
  ASSUME IndInv, EventFinished
  PROVE  IndInv'
<1> DEFINE e == [job EXCEPT !.blocker = FALSE]
<1>1. /\ Between(e) /\ e.state \in {"starting", "stopping"}
      /\ e.goal # "respawn"
      /\ e.state = "starting" => ~e.pid["main"] /\ ~e.failed
  BY NowLemma, EventOverLemma DEF EventFinished
<1> HIDE DEF e
<1>2. Settled(Advance(e))
  BY <1>1, AdvanceLemma
<1> QED BY <1>2, IndInvLemma DEF EventFinished, IndInv, TypeOK, Phase, e

\* A child that stays alive, and its pipe, go on.
LEMMA ChildStepLemma ==
  ASSUME NEW j, Settled(j), NEW P \in ProcessType, j.pid[P],
         NEW x \in ChildState \ {"none", "setup"}, NEW y \in PipeState,
         NEW e \in JobType,
         y = "eof" => x \in {"up", "dying"},
         y = "error" => x = "dying" /\ P \in SetupFails,
         y = "error" /\ P = "main" => j.state = "spawned",
         y # "open",
         e.state = j.state, e.goal = j.goal, e.pid = j.pid,
         e.child = [j.child EXCEPT ![P] = x], e.pipe = [j.pipe EXCEPT ![P] = y],
         e.old = j.old, e.fault = j.fault, e.blocker = j.blocker,
         e.kill_timer => j.kill_timer, e.blocking = j.blocking,
         e.failed = j.failed, e.failed_process = j.failed_process
  PROVE  Settled(e)
<1>1. j \in JobType
  BY DEF Settled
<1>2. \A Q \in ProcessType :
        /\ e.child[Q] = IF Q = P THEN x ELSE j.child[Q]
        /\ e.pipe[Q] = IF Q = P THEN y ELSE j.pipe[Q]
  BY <1>1 DEF JobType
<1>3. \A Q \in ProcessType :
        /\ e.pid[Q] <=> e.child[Q] # "none"
        /\ e.pid[Q] => Q \in class.process /\ e.state \in ProcessState(Q)
        /\ e.child[Q] = "setup" <=> e.pipe[Q] = "open"
        /\ e.pipe[Q] = "eof" => e.child[Q] \in {"up", "dying"}
        /\ e.pipe[Q] = "error" => e.child[Q] = "dying" /\ Q \in SetupFails
  BY <1>2 DEF Settled, JobInv
<1>4. e.child["main"] = "setup" \/ e.pipe["main"] = "error" => e.state = "spawned"
  BY <1>2 DEF Settled, JobInv, ProcessType
<1>5. JobInv(e)
  BY <1>3, <1>4 DEF Settled, JobInv, FaultKnown, SecurityFailed
<1> QED BY <1>5 DEF Settled

\* The kill timer keeps the invariant: its assertion on the pid holds.
LEMMA KillTimerLemma ==
  ASSUME IndInv, KillTimer
  PROVE  IndInv'
<1>1. /\ Settled(job) /\ job \in JobType /\ job.pid["main"]
      /\ job.child["main"] \in ChildState \ {"none", "setup"}
      /\ job.pipe["main"] \in PipeState /\ "main" \in ProcessType
  BY NowLemma DEF KillTimer, Settled, JobInv, JobType, ProcessType
<1> DEFINE x == IF job.child["main"] \in {"setup", "up"} THEN "dying"
                ELSE job.child["main"]
           y == job.pipe["main"]
<1>2. job' = [job EXCEPT !.kill_timer = FALSE, !.child["main"] = x]
  BY <1>1 DEF KillTimer, JobType
<1>3. x \in ChildState \ {"none", "setup"}
  BY <1>1 DEF ChildState
<1>4. /\ y = "eof" => x \in {"up", "dying"}
      /\ y # "error" /\ y # "open"
  BY <1>1 DEF KillTimer, Settled, JobInv
<1> HIDE DEF x
<1>5. [job.pipe EXCEPT !["main"] = y] = job.pipe
  BY <1>1 DEF JobType
<1>6. /\ job' \in JobType
      /\ job'.state = job.state /\ job'.goal = job.goal /\ job'.pid = job.pid
      /\ job'.child = [job.child EXCEPT !["main"] = x] /\ job'.pipe = job.pipe
      /\ job'.old = job.old /\ job'.fault = job.fault
      /\ job'.blocker = job.blocker /\ ~job'.kill_timer
      /\ job'.blocking = job.blocking /\ job'.failed = job.failed
      /\ job'.failed_process = job.failed_process
  BY <1>1, <1>2, <1>3 DEF JobType
<1>7. Settled(job')
  BY <1>1, <1>3, <1>4, <1>5, <1>6, ChildStepLemma
<1> QED BY <1>7, IndInvLemma DEF KillTimer, IndInv, TypeOK, Phase

\* A child that becomes c.
LEMMA BecomesLemma ==
  ASSUME IndInv, NEW P \in ProcessType, NEW c, Becomes(P, c), job.pid[P],
         c.child \in ChildState \ {"none", "setup"}, c.pipe \in PipeState,
         c.pipe = "eof" => c.child \in {"up", "dying"},
         c.pipe = "error" => c.child = "dying" /\ P \in SetupFails,
         c.pipe = "error" /\ P = "main" => job.state = "spawned",
         c.pipe # "open", job.pipe[P] \in {"open", c.pipe}
  PROVE  IndInv'
<1>1. Settled(job) /\ job \in JobType
  BY NowLemma
<1>2. /\ job' \in JobType
      /\ job'.state = job.state /\ job'.goal = job.goal /\ job'.pid = job.pid
      /\ job'.child = [job.child EXCEPT ![P] = c.child]
      /\ job'.pipe = [job.pipe EXCEPT ![P] = c.pipe]
      /\ job'.old = job.old /\ job'.fault = job.fault
      /\ job'.blocker = job.blocker /\ job'.kill_timer = job.kill_timer
      /\ job'.blocking = job.blocking /\ job'.failed = job.failed
      /\ job'.failed_process = job.failed_process
  BY <1>1 DEF Becomes, JobType
<1>3. Settled(job')
  BY <1>1, <1>2, ChildStepLemma
<1>4. \A Q \in ready : job'.pipe[Q] \in Readable
  BY <1>1, <1>2 DEF IndInv, TypeOK, JobType, Readable
<1> QED BY <1>3, <1>4, IndInvLemma DEF Becomes, IndInv, TypeOK

\* A child that ends its set-up keeps the invariant.
LEMMA ChildSetUpLemma ==
  ASSUME IndInv, NEW P \in ProcessType, ChildSetUp(P)
  PROVE  IndInv'
<1>1. PICK c \in SetUp(Child(P)) : Becomes(P, c)
  BY DEF ChildSetUp
<1>2. job.child[P] = "setup"
  BY <1>1 DEF SetUp, Child
<1>3. job.pid[P] /\ job.pipe[P] = "open" /\ (P = "main" => job.state = "spawned")
  BY <1>2, NowLemma DEF Settled, JobInv
<1>4. \/ c.child = "up" /\ c.pipe = "eof"
      \/ c.child = "dying" /\ c.pipe = "error" /\ P \in SetupFails
  BY <1>1, <1>2, <1>3 DEF SetUp, Child
<1> QED BY <1>1, <1>3, <1>4, BecomesLemma DEF ChildState, PipeState

\* A child that dies keeps the invariant.
LEMMA ChildExitsLemma ==
  ASSUME IndInv, ReapFirst = FALSE, NEW P \in ProcessType, ChildExits(P)
  PROVE  IndInv'
<1>1. PICK c \in Exit(Child(P)) : Becomes(P, c)
  BY DEF ChildExits
<1>2. /\ job.child[P] \in {"up", "dying"} /\ job.pipe[P] = "none"
      /\ c.child = "zombie" /\ c.pipe = "none"
  BY <1>1 DEF Exit, Child
<1>3. job.pid[P]
  BY <1>2, NowLemma DEF Settled, JobInv
<1> QED BY <1>1, <1>2, <1>3, BecomesLemma DEF ChildState, PipeState

\* The turns of the main loop keep the invariant.
LEMMA LoopLemma ==
  ASSUME IndInv, Loop
  PROVE  IndInv'
<1>1. Settled(job)
  BY NowLemma
<1>2. CASE Select
  BY <1>1, <1>2, IndInvLemma DEF Select, IndInv, TypeOK, Phase
<1>3. CASE IoDone
  BY <1>1, <1>3, IndInvLemma DEF IoDone, IndInv, TypeOK, Phase
<1>4. CASE ChildrenDone
  BY <1>1, <1>4, IndInvLemma DEF ChildrenDone, IndInv, TypeOK, Phase
<1> QED BY <1>2, <1>3, <1>4 DEF Loop

-----------------------------------------------------------------------------
(* The theorems                                                            *)

\* The condition on the environment: set-up reports are read before the death of
\* the child that wrote them.
Orderly == ReapFirst = FALSE

\* IndInv is inductive: every handler of job.c and job_process.c, every turn of
\* the main loop and every step of a child preserves it.
THEOREM Inductive == Orderly => (Spec => []IndInv)
<1> SUFFICES ASSUME Orderly PROVE Spec => []IndInv
  OBVIOUS
<1>1. Init => IndInv
  BY InitLemma
<1>2. IndInv /\ [Next]_vars => IndInv'
  <2> SUFFICES ASSUME IndInv, [Next]_vars PROVE IndInv'
    OBVIOUS
  <2>1. CASE UNCHANGED vars
    BY <2>1 DEF vars, IndInv, TypeOK, JobInv, FaultKnown, SecurityFailed
  <2>2. ASSUME NEW wait \in BOOLEAN, Start(wait) \/ Stop(wait) \/ Restart(wait)
        PROVE  IndInv'
    BY <2>2, StartLemma, StopLemma, RestartLemma
  <2>3. CASE Quiesce
    BY <2>3, QuiesceLemma
  <2>4. ASSUME NEW P \in ProcessType, ReadPipe(P) \/ Reap(P)
        PROVE  IndInv'
    BY <2>4, ReadPipeLemma, ReapLemma DEF Orderly
  <2>5. job.old = {}
    BY DEF IndInv, JobInv
  <2>6. CASE MainReady \/ KillTimer \/ EventFinished
    BY <2>6, MainReadyLemma, KillTimerLemma, EventFinishedLemma
  <2>7. CASE Loop
    BY <2>7, LoopLemma
  <2>8. ASSUME NEW P \in ProcessType, ChildSetUp(P) \/ ChildExits(P)
        PROVE  IndInv'
    BY <2>8, ChildSetUpLemma, ChildExitsLemma DEF Orderly
  <2> QED BY <2>1, <2>2, <2>3, <2>4, <2>5, <2>6, <2>7, <2>8 DEF Next, Aborted
<1> QED BY <1>1, <1>2, PTL DEF Spec

\* Every variable keeps its type.
THEOREM TypeCorrect == Orderly => (Spec => []TypeOK)
<1>1. IndInv => TypeOK
  BY DEF IndInv
<1> QED BY <1>1, Inductive, PTL

\* A handler fails an assertion only where it sets a kill timer of zero, and
\* goes on with a freed job only after the failed set-up of a post-stop process.
THEOREM FaultsKnown == Orderly => (Spec => []KnownFaults)
<1>1. IndInv => KnownFaults
  BY DEF IndInv, JobInv, KnownFaults
<1> QED BY <1>1, Inductive, PTL

\* No child is forgotten, and scripts run in their own states only.
THEOREM Supervision == Orderly => (Spec => []Supervised)
<1>1. IndInv => Supervised
  BY DEF IndInv, JobInv, Supervised
<1> QED BY <1>1, Inductive, PTL

\* A job that is not at rest waits for something that is under way.
THEOREM Progress == Orderly => (Spec => []WaitsForSomething)
<1>1. IndInv => WaitsForSomething
  BY DEF IndInv, JobInv, WaitsForSomething
<1> QED BY <1>1, Inductive, PTL

\* Signals go to a main process that is set up, and the timer never outlives it.
THEOREM KillSafety == Orderly => (Spec => []KillsRightProcess)
<1>1. IndInv => KillsRightProcess
  BY DEF IndInv, JobInv, KillsRightProcess
<1> QED BY <1>1, Inductive, PTL

\* A pending respawn waits for a script that runs.
THEOREM RespawnSafety == Orderly => (Spec => []RespawnPending)
<1>1. IndInv => RespawnPending
  BY DEF IndInv, JobInv, RespawnPending, SecurityFailed, ProcessType
<1> QED BY <1>1, Inductive, PTL

\* No caller is held back by a job that is at rest.
THEOREM CallersReleased == Orderly => (Spec => []NobodyLeftWaiting)
<1>1. IndInv => NobodyLeftWaiting
  BY DEF IndInv, JobInv, NobodyLeftWaiting
<1> QED BY <1>1, Inductive, PTL

=============================================================================
