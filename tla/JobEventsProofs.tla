------------------------- MODULE JobEventsProofs -------------------------
(***************************************************************************)
(* Proofs that Job keeps the promise of JobEvents, that stopped tells the  *)
(* result stopping told, and that nothing is respawned once the daemon is  *)
(* shutting down.  All three are about one step, and rest on what the      *)
(* state of a job says about the last event it emitted.                    *)
(***************************************************************************)
EXTENDS JobProofs

\* What a way into a state does to an instance j in the middle of a handler:
\* e is in one of the states S and tells the event of that state, the goal is
\* kept, the main process is kept or, in spawned, new.
Moves(j, e, S) ==
    /\ e.state \in S
    /\ e.goal = j.goal
    /\ j.pid["main"] => e.pid["main"]
    /\ e.pid["main"] => j.pid["main"] \/ e.state = "spawned"
    /\ Telling(e)
    /\ e.state = "waiting" =>
        /\ e.event = "stopped" /\ e.event_failed = j.failed
        /\ e.failed_process = j.failed_process

-----------------------------------------------------------------------------
(* The ways into a state                                                   *)

\* A way in that emits an event and changes nothing else Moves looks at.
LEMMA EmitMovesLemma ==
  ASSUME NEW j, NEW e, e.goal = j.goal, e.pid = j.pid,
         \/ /\ e.state = "stopping" /\ e.event = "stopping"
            /\ e.event_failed = e.failed
         \/ e.state = "starting" /\ e.event = "starting"
         \/ e.state = "running" /\ e.event = "started"
  PROVE  Moves(j, e, {e.state})
BY DEF Moves, Telling, EventOf, AfterStarting, AfterStarted, AfterStopping

\* Entering stopping tells whether the job has failed.
LEMMA StoppingMoves ==
  ASSUME NEW j, Between(j)
  PROVE  Moves(j, EnterStopping(j), {"stopping"})
<1> DEFINE e == EnterStopping(j)
<1>1. /\ e.state = "stopping" /\ e.event = "stopping" /\ e.goal = j.goal
      /\ e.pid = j.pid /\ e.event_failed = e.failed
  BY DEF Between, EnterStopping, job_emit_event, JobType
<1> HIDE DEF e
<1> QED BY <1>1, EmitMovesLemma DEF e

\* Entering starting emits starting.
LEMMA StartingMoves ==
  ASSUME NEW j, Between(j)
  PROVE  Moves(j, EnterStarting(j), {"starting"})
<1> DEFINE e == EnterStarting(j)
<1>1. /\ e.state = "starting" /\ e.event = "starting" /\ e.goal = j.goal
      /\ e.pid = j.pid
  BY DEF Between, EnterStarting, job_emit_event, JobType
<1> HIDE DEF e
<1> QED BY <1>1, EmitMovesLemma DEF e

\* Entering running emits started, unless a stop is cancelled: then started is
\* what the others heard last.
LEMMA RunningMoves ==
  ASSUME NEW j, Between(j), j.state = "pre_stop" => j.event = "started"
  PROVE  Moves(j, EnterRunning(j), {"running"})
<1> DEFINE e == EnterRunning(j)
<1>1. /\ e.state = "running" /\ e.event = "started" /\ e.goal = j.goal
      /\ e.pid = j.pid
  BY DEF Between, EnterRunning, job_emit_event, job_finished, JobType
<1> HIDE DEF e
<1> QED BY <1>1, EmitMovesLemma DEF e

\* Entering waiting tells stopped with the result of the job.
LEMMA WaitingMoves ==
  ASSUME NEW j, Between(j), ~j.pid["main"]
  PROVE  Moves(j, EnterWaiting(j), {"waiting"})
<1> DEFINE e == job_finished(job_emit_event([j EXCEPT !.state = "waiting"],
                                            "stopped", FALSE))
           w == EnterWaiting(j)
<1>1. /\ e.state = "waiting" /\ e.goal = j.goal /\ e.event = "stopped"
      /\ e.event_failed = j.failed /\ e.failed_process = j.failed_process
      /\ e \in JobType
  BY DEF Between, job_emit_event, job_finished, JobType, JobState, EventName
<1> HIDE DEF e
<1>2. /\ w.state = "waiting" /\ w.goal = j.goal /\ w.event = "stopped"
      /\ w.event_failed = j.failed /\ w.failed_process = j.failed_process
      /\ w.pid = [P \in ProcessType |-> FALSE]
  BY <1>1 DEF EnterWaiting, JobType, e
<1> HIDE DEF w
<1>3. ~w.pid["main"]
  BY <1>2 DEF ProcessType
<1>4. Telling(w)
  BY <1>2 DEF Telling, EventOf, AfterStarting, AfterStarted, AfterStopping
<1> QED BY <1>2, <1>3, <1>4 DEF Moves, w

\* Starting a process emits nothing.
LEMMA SpawnMoves ==
  ASSUME NEW j, Between(j), NEW P \in ProcessType,
         P = "main" => j.state = "spawned",
         P # "main" => j.state = P,
         Telling(j)
  PROVE  Moves(j, job_process_start(j, P), {j.state})
<1> DEFINE e == job_process_start(j, P)
<1>1. /\ e.state = j.state /\ e.goal = j.goal /\ e.event = j.event
      /\ e.event_failed = j.event_failed /\ e.failed = j.failed
      /\ e.pid = [j.pid EXCEPT ![P] = TRUE]
  BY DEF Between, job_process_start, JobType
<1>2. j.pid \in [ProcessType -> BOOLEAN] /\ "main" \in ProcessType
  BY DEF Between, JobType, ProcessType
<1> HIDE DEF e
<1>3. Telling(e)
  BY <1>1 DEF Telling
<1>4. e.pid["main"] <=> j.pid["main"] \/ P = "main"
  BY <1>1, <1>2
<1>5. j.state # "waiting"
  BY DEF ProcessType
<1> QED BY <1>1, <1>3, <1>4, <1>5 DEF Moves, e

\* The state field alone is set: the event is kept and has to fit.
LEMMA StateMoves ==
  ASSUME NEW j, Between(j), NEW s \in JobState \ {"waiting"},
         j.event \in EventOf(s),
         s \in AfterStopping => j.event_failed = j.failed
  PROVE  LET p == [j EXCEPT !.state = s]
         IN  /\ Between(p) /\ p.state = s /\ p.goal = j.goal /\ p.pid = j.pid
             /\ p.event = j.event /\ p.event_failed = j.event_failed
             /\ p.failed = j.failed /\ p.failed_process = j.failed_process
             /\ Telling(p)
<1> DEFINE p == [j EXCEPT !.state = s]
<1>1. Between(p) /\ p.state = s /\ p.goal = j.goal /\ p.pid = j.pid
  BY StateLemma
<1>2. /\ p.event = j.event /\ p.event_failed = j.event_failed
      /\ p.failed = j.failed /\ p.failed_process = j.failed_process
  BY DEF Between, JobType
<1> HIDE DEF p
<1>3. Telling(p)
  BY <1>1, <1>2 DEF Telling
<1> QED BY <1>1, <1>2, <1>3 DEF p

\* A move after the state was set is a move, to any larger set of states.
LEMMA MovesOn ==
  ASSUME NEW j, NEW p, NEW e, NEW S, NEW T, S \subseteq T, Moves(p, e, S),
         p.goal = j.goal, p.pid = j.pid, p.failed = j.failed,
         p.failed_process = j.failed_process
  PROVE  Moves(j, e, T)
BY DEF Moves

\* From post-stop the job goes on to stopped or to starting, or runs its script.
LEMMA PostStopMoves ==
  ASSUME NEW j, Between(j), ~j.pid["main"], j.goal \in {"start", "stop"},
         j.event = "stopping", j.event_failed = j.failed
  PROVE  Moves(j, EnterPostStop(j), {"post_stop", "waiting", "starting"})
<1> DEFINE p == [j EXCEPT !.state = "post_stop"]
<1>1. /\ Between(p) /\ p.state = "post_stop" /\ p.goal = j.goal /\ p.pid = j.pid
      /\ p.failed = j.failed /\ p.failed_process = j.failed_process /\ Telling(p)
  BY StateMoves DEF JobState, EventOf, AfterStarting, AfterStarted, AfterStopping
<1> HIDE DEF p
<1>2. CASE Has("post_stop")
  <2>1. EnterPostStop(j) = job_process_start(p, "post_stop")
    BY <1>2 DEF EnterPostStop, p
  <2>2. Moves(p, EnterPostStop(j), {"post_stop"})
    BY <1>1, <2>1, SpawnMoves DEF ProcessType
  <2> QED BY <1>1, <2>2, MovesOn
<1>3. CASE ~Has("post_stop") /\ j.goal = "stop"
  <2>1. EnterPostStop(j) = EnterWaiting(p)
    BY <1>3 DEF EnterPostStop, p
  <2>2. Moves(p, EnterPostStop(j), {"waiting"})
    BY <1>1, <2>1, WaitingMoves
  <2> QED BY <1>1, <2>2, MovesOn
<1>4. CASE ~Has("post_stop") /\ j.goal = "start"
  <2>1. EnterPostStop(j) = EnterStarting(p)
    BY <1>4 DEF EnterPostStop, p
  <2>2. Moves(p, EnterPostStop(j), {"starting"})
    BY <1>1, <2>1, StartingMoves
  <2> QED BY <1>1, <2>2, MovesOn
<1> QED BY <1>2, <1>3, <1>4

\* From killed the job goes on once there is no main process.
LEMMA KilledMoves ==
  ASSUME NEW j, Between(j), j.goal \in {"start", "stop"},
         j.event = "stopping", j.event_failed = j.failed
  PROVE  Moves(j, EnterKilled(j), {"killed", "post_stop", "waiting", "starting"})
<1> DEFINE k == [j EXCEPT !.state = "killed"]
           e == job_process_kill(k)
<1>1. /\ Between(k) /\ k.state = "killed" /\ k.goal = j.goal /\ k.pid = j.pid
      /\ k.event = j.event /\ k.event_failed = j.event_failed
      /\ k.failed = j.failed /\ k.failed_process = j.failed_process /\ Telling(k)
  BY StateMoves DEF JobState, EventOf, AfterStarting, AfterStarted, AfterStopping
<1> HIDE DEF k
<1>2. CASE ~(Has("main") /\ j.pid["main"])
  <2>1. EnterKilled(j) = EnterPostStop(k)
    BY <1>2 DEF EnterKilled, k
  <2>2. ~j.pid["main"]
    BY <1>2 DEF Between, Has
  <2>3. Moves(k, EnterKilled(j), {"post_stop", "waiting", "starting"})
    BY <1>1, <2>1, <2>2, PostStopMoves
  <2> QED BY <1>1, <2>3, MovesOn
<1>3. CASE Has("main") /\ j.pid["main"]
  <2>1. EnterKilled(j) = e
    BY <1>3 DEF EnterKilled, k
  <2>2. /\ e.state = "killed" /\ e.pid = k.pid /\ e.goal = k.goal
        /\ e.event = k.event /\ e.event_failed = k.event_failed
        /\ e.failed = k.failed
    BY <1>1 DEF Between, JobType, job_process_kill, job_process_set_kill_timer, Fail
  <2> HIDE DEF e
  <2> QED BY <1>1, <2>1, <2>2 DEF Moves, Telling
<1> QED BY <1>2, <1>3

\* The pre-stop script runs before stopping is told.
LEMMA PreStopMoves ==
  ASSUME NEW j, Between(j), j.event = "started"
  PROVE  Moves(j, EnterPreStop(j), {"pre_stop", "stopping"})
<1> DEFINE p == [j EXCEPT !.state = "pre_stop"]
<1>1. /\ Between(p) /\ p.state = "pre_stop" /\ p.goal = j.goal /\ p.pid = j.pid
      /\ p.event = j.event /\ p.failed = j.failed
      /\ p.failed_process = j.failed_process /\ Telling(p)
  BY StateMoves DEF JobState, EventOf, AfterStarting, AfterStarted, AfterStopping
<1> HIDE DEF p
<1>2. CASE Has("pre_stop")
  <2>1. EnterPreStop(j) = job_process_start(p, "pre_stop")
    BY <1>2 DEF EnterPreStop, p
  <2>2. Moves(p, EnterPreStop(j), {"pre_stop"})
    BY <1>1, <2>1, SpawnMoves DEF ProcessType
  <2> QED BY <1>1, <2>2, MovesOn
<1>3. CASE ~Has("pre_stop")
  <2>1. EnterPreStop(j) = EnterStopping(p)
    BY <1>3 DEF EnterPreStop, p
  <2>2. Moves(p, EnterPreStop(j), {"stopping"})
    BY <1>1, <2>1, StoppingMoves
  <2> QED BY <1>1, <2>2, MovesOn
<1> QED BY <1>2, <1>3

\* The post-start script runs before started is told.
LEMMA PostStartMoves ==
  ASSUME NEW j, Between(j), j.event = "starting"
  PROVE  Moves(j, EnterPostStart(j), {"post_start", "running"})
<1> DEFINE p == [j EXCEPT !.state = "post_start"]
<1>1. /\ Between(p) /\ p.state = "post_start" /\ p.goal = j.goal /\ p.pid = j.pid
      /\ p.event = j.event /\ p.failed = j.failed
      /\ p.failed_process = j.failed_process /\ Telling(p)
  BY StateMoves DEF JobState, EventOf, AfterStarting, AfterStarted, AfterStopping
<1> HIDE DEF p
<1>2. CASE Has("post_start")
  <2>1. EnterPostStart(j) = job_process_start(p, "post_start")
    BY <1>2 DEF EnterPostStart, p
  <2>2. Moves(p, EnterPostStart(j), {"post_start"})
    BY <1>1, <2>1, SpawnMoves DEF ProcessType
  <2> QED BY <1>1, <2>2, MovesOn
<1>3. CASE ~Has("post_start")
  <2>1. EnterPostStart(j) = EnterRunning(p)
    BY <1>3 DEF EnterPostStart, p
  <2>2. Moves(p, EnterPostStart(j), {"running"})
    BY <1>1, <2>1, RunningMoves
  <2> QED BY <1>1, <2>2, MovesOn
<1> QED BY <1>2, <1>3

\* The main process is started after starting was told.
LEMMA SpawnedMoves ==
  ASSUME NEW j, Between(j), j.event = "starting"
  PROVE  Moves(j, EnterSpawned(j), {"spawned", "post_start", "running"})
<1> DEFINE p == [j EXCEPT !.state = "spawned"]
<1>1. /\ Between(p) /\ p.state = "spawned" /\ p.goal = j.goal /\ p.pid = j.pid
      /\ p.event = j.event /\ p.failed = j.failed
      /\ p.failed_process = j.failed_process /\ Telling(p)
  BY StateMoves DEF JobState, EventOf, AfterStarting, AfterStarted, AfterStopping
<1> HIDE DEF p
<1>2. CASE Has("main")
  <2>1. EnterSpawned(j) = job_process_start(p, "main")
    BY <1>2 DEF EnterSpawned, p
  <2>2. Moves(p, EnterSpawned(j), {"spawned"})
    BY <1>1, <2>1, SpawnMoves DEF ProcessType
  <2> QED BY <1>1, <2>2, MovesOn
<1>3. CASE ~Has("main")
  <2>1. EnterSpawned(j) = EnterPostStart(p)
    BY <1>3 DEF EnterSpawned, p
  <2>2. Moves(p, EnterSpawned(j), {"post_start", "running"})
    BY <1>1, <2>1, PostStartMoves
  <2> QED BY <1>1, <2>2, MovesOn
<1> QED BY <1>2, <1>3

\* The pre-start script runs after starting was told.
LEMMA PreStartMoves ==
  ASSUME NEW j, Between(j), j.event = "starting"
  PROVE  Moves(j, EnterPreStart(j), {"pre_start", "spawned", "post_start", "running"})
<1> DEFINE p == [j EXCEPT !.state = "pre_start"]
<1>1. /\ Between(p) /\ p.state = "pre_start" /\ p.goal = j.goal /\ p.pid = j.pid
      /\ p.event = j.event /\ p.failed = j.failed
      /\ p.failed_process = j.failed_process /\ Telling(p)
  BY StateMoves DEF JobState, EventOf, AfterStarting, AfterStarted, AfterStopping
<1> HIDE DEF p
<1>2. CASE Has("pre_start")
  <2>1. EnterPreStart(j) = job_process_start(p, "pre_start")
    BY <1>2 DEF EnterPreStart, p
  <2>2. Moves(p, EnterPreStart(j), {"pre_start"})
    BY <1>1, <2>1, SpawnMoves DEF ProcessType
  <2> QED BY <1>1, <2>2, MovesOn
<1>3. CASE ~Has("pre_start")
  <2>1. EnterPreStart(j) = EnterSpawned(p)
    BY <1>3 DEF EnterPreStart, p
  <2>2. Moves(p, EnterPreStart(j), {"spawned", "post_start", "running"})
    BY <1>1, <2>1, SpawnedMoves
  <2> QED BY <1>1, <2>2, MovesOn
<1> QED BY <1>2, <1>3

\* The security process runs after starting was told.
LEMMA SecurityMoves ==
  ASSUME NEW j, Between(j), j.event = "starting"
  PROVE  Moves(j, EnterSecurity(j), AfterStarting \cup {"running"})
<1> DEFINE p == [j EXCEPT !.state = "security"]
<1>1. /\ Between(p) /\ p.state = "security" /\ p.goal = j.goal /\ p.pid = j.pid
      /\ p.event = j.event /\ p.failed = j.failed
      /\ p.failed_process = j.failed_process /\ Telling(p)
  BY StateMoves DEF JobState, EventOf, AfterStarting, AfterStarted, AfterStopping
<1> HIDE DEF p
<1>2. CASE Has("security")
  <2>1. EnterSecurity(j) = job_process_start(p, "security")
    BY <1>2 DEF EnterSecurity, p
  <2>2. Moves(p, EnterSecurity(j), {"security"})
    BY <1>1, <2>1, SpawnMoves DEF ProcessType
  <2> QED BY <1>1, <2>2, MovesOn DEF AfterStarting
<1>3. CASE ~Has("security")
  <2>1. EnterSecurity(j) = EnterPreStart(p)
    BY <1>3 DEF EnterSecurity, p
  <2>2. Moves(p, EnterSecurity(j), {"pre_start", "spawned", "post_start", "running"})
    BY <1>1, <2>1, PreStartMoves
  <2> QED BY <1>1, <2>2, MovesOn DEF AfterStarting
<1> QED BY <1>2, <1>3

-----------------------------------------------------------------------------
(* A step along job_next_state                                             *)

\* The states a handler can take a job to.
Reach(s) ==
    CASE s \in AfterStarting -> AfterStarting \cup {"running", "stopping"}
      [] s \in AfterStarted  -> AfterStarted \cup {"stopping"}
      [] s \in AfterStopping -> AfterStopping \cup {"waiting", "starting"}
      [] s = "waiting"       -> {"waiting", "starting"}

\* What is required of the last event before a step: the result may have
\* changed while the post-stop process was what the job waited for.
Ready(j) ==
    /\ j.event \in EventOf(j.state)
    /\ j.state \in {"stopping", "killed"} => j.event_failed = j.failed

\* A step along job_next_state tells the events in their order.
LEMMA AdvanceMoves ==
  ASSUME NEW j, Between(j), Ready(j),
         j.state = "waiting" => j.goal = "start",
         j.state \in {"waiting", "starting", "security", "pre_start", "killed",
                     "post_stop"} => ~j.pid["main"],
         j.goal = "respawn" =>
            j.state \in {"post_start", "pre_stop"} /\ ~j.pid["main"]
  PROVE  LET e == Advance(j)
         IN  /\ e.state \in Reach(j.state)
             /\ e.goal = IF j.goal = "respawn" THEN "start" ELSE j.goal
             /\ j.pid["main"] => e.pid["main"]
             /\ e.pid["main"] => j.pid["main"] \/ e.state = "spawned"
             /\ Telling(e)
             /\ e.state = "waiting" =>
                    /\ e.event = "stopped" /\ e.event_failed = j.failed
                    /\ e.failed_process = j.failed_process
<1> DEFINE c == [j EXCEPT !.goal = IF @ = "respawn" THEN "start" ELSE @]
           s == job_next_state(j)
<1>1. j.state \in JobState /\ j.goal \in JobGoal
  BY DEF Between, JobType
<1>2. /\ c \in JobType /\ c.state = j.state /\ c.pid = j.pid
      /\ c.child = j.child /\ c.pipe = j.pipe /\ c.old = j.old
      /\ c.fault = j.fault /\ c.blocker = j.blocker
      /\ c.kill_timer = j.kill_timer
      /\ c.goal = (IF j.goal = "respawn" THEN "start" ELSE j.goal)
      /\ c.event = j.event /\ c.event_failed = j.event_failed
      /\ c.failed = j.failed /\ c.failed_process = j.failed_process
  BY <1>1 DEF Between, JobType, JobGoal
<1> HIDE DEF c
<1>3. Between(c) /\ c.goal \in {"start", "stop"}
  BY <1>1, <1>2 DEF Between, JobGoal
<1>4. ASSUME s # "none", s # j.state, NEW S, Moves(c, Enter(c, s), S),
             S \subseteq Reach(j.state)
      PROVE  LET e == Advance(j)
             IN  /\ e.state \in Reach(j.state)
                 /\ e.goal = IF j.goal = "respawn" THEN "start" ELSE j.goal
                 /\ j.pid["main"] => e.pid["main"]
                 /\ e.pid["main"] => j.pid["main"] \/ e.state = "spawned"
                 /\ Telling(e)
                 /\ e.state = "waiting" =>
                        /\ e.event = "stopped" /\ e.event_failed = j.failed
                        /\ e.failed_process = j.failed_process
  <2>1. Advance(j) = Enter(c, s)
    BY <1>2, <1>4 DEF Advance, job_change_state, Between, c
  <2> QED BY <1>2, <1>4, <2>1 DEF Moves
<1> HIDE DEF s
<1> USE DEF Reach, AfterStarting, AfterStarted, AfterStopping
<1>5. CASE s = "stopping" /\ j.state \in AfterStarting \cup AfterStarted
  <2>1. Moves(c, Enter(c, s), {"stopping"})
    BY <1>3, <1>5, StoppingMoves DEF Enter
  <2> QED BY <1>4, <1>5, <2>1
<1>6. CASE s = "starting" /\ j.state \in {"waiting", "post_stop"}
  <2>1. Moves(c, Enter(c, s), {"starting"})
    BY <1>3, <1>6, StartingMoves DEF Enter
  <2> QED BY <1>4, <1>6, <2>1
<1>7. CASE s = "waiting" /\ j.state = "post_stop"
  <2>1. Moves(c, Enter(c, s), {"waiting"})
    BY <1>2, <1>3, <1>7, WaitingMoves DEF Enter
  <2> QED BY <1>4, <1>7, <2>1
<1>8. CASE s = "running" /\ j.state \in {"post_start", "pre_stop"}
  <2>1. j.state = "pre_stop" => j.event = "started"
    BY DEF Ready, EventOf
  <2>2. Moves(c, Enter(c, s), {"running"})
    BY <1>2, <1>3, <1>8, <2>1, RunningMoves DEF Enter
  <2> QED BY <1>4, <1>8, <2>2
<1>9. CASE s = "pre_stop" /\ j.state = "running"
  <2>1. j.event = "started"
    BY <1>9 DEF Ready, EventOf
  <2>2. Moves(c, Enter(c, s), {"pre_stop", "stopping"})
    BY <1>2, <1>3, <1>9, <2>1, PreStopMoves DEF Enter
  <2> QED BY <1>4, <1>9, <2>2
<1>10. CASE \/ s = "security" /\ j.state = "starting"
            \/ s = "pre_start" /\ j.state = "security"
            \/ s = "spawned" /\ j.state = "pre_start"
            \/ s = "post_start" /\ j.state = "spawned"
  <2>1. j.event = "starting"
    BY <1>10 DEF Ready, EventOf
  <2>2. PICK S : Moves(c, Enter(c, s), S) /\ S \subseteq AfterStarting \cup {"running"}
    BY <1>2, <1>3, <1>10, <2>1, SecurityMoves, PreStartMoves, SpawnedMoves,
       PostStartMoves DEF Enter
  <2> QED BY <1>4, <1>10, <2>2
<1>11. CASE s = "killed" /\ j.state = "stopping"
  <2>1. j.event = "stopping" /\ j.event_failed = j.failed
    BY <1>11 DEF Ready, EventOf
  <2>2. Moves(c, Enter(c, s), {"killed", "post_stop", "waiting", "starting"})
    BY <1>2, <1>3, <1>11, <2>1, KilledMoves DEF Enter
  <2> QED BY <1>4, <1>11, <2>2
<1>12. CASE s = "post_stop" /\ j.state = "killed"
  <2>1. j.event = "stopping" /\ j.event_failed = j.failed
    BY <1>12 DEF Ready, EventOf
  <2>2. Moves(c, Enter(c, s), {"post_stop", "waiting", "starting"})
    BY <1>2, <1>3, <1>12, <2>1, PostStopMoves DEF Enter
  <2> QED BY <1>4, <1>12, <2>2
<1>13. \/ s = "stopping" /\ j.state \in AfterStarting \cup AfterStarted
       \/ s = "starting" /\ j.state \in {"waiting", "post_stop"}
       \/ s = "waiting" /\ j.state = "post_stop"
       \/ s = "running" /\ j.state \in {"post_start", "pre_stop"}
       \/ s = "pre_stop" /\ j.state = "running"
       \/ s = "security" /\ j.state = "starting"
       \/ s = "pre_start" /\ j.state = "security"
       \/ s = "spawned" /\ j.state = "pre_start"
       \/ s = "post_start" /\ j.state = "spawned"
       \/ s = "killed" /\ j.state = "stopping"
       \/ s = "post_stop" /\ j.state = "killed"
  <2>1. CASE j.goal = "start"
    BY <1>1, <2>1 DEF s, job_next_state, NextWhenStarting, JobState
  <2>2. CASE j.goal = "stop"
    BY <1>1, <2>2 DEF s, job_next_state, NextWhenStopping, JobState
  <2>3. CASE j.goal = "respawn"
    BY <1>1, <2>3 DEF s, job_next_state, NextWhenRespawning
  <2> QED BY <1>1, <2>1, <2>2, <2>3 DEF JobGoal
<1> QED BY <1>5, <1>6, <1>7, <1>8, <1>9, <1>10, <1>11, <1>12, <1>13

-----------------------------------------------------------------------------
(* What a handler may do                                                   *)

\* A step from job j to job e, as the three properties see it.
Goes(j, e) ==
    /\ Telling(e)
    /\ e.state \in Reach(j.state)
    /\ j.state = "waiting" /\ e.state = "waiting" => e.event = j.event
    /\ e.pid["main"] => j.pid["main"] \/ e.state = "spawned"
    /\ j.state # "waiting" /\ e.state = "waiting" =>
        /\ e.event = "stopped"
        /\ e.event_failed = j.event_failed \/ e.failed_process = "post_stop"
    /\ /\ disable_respawn /\ j.pid["main"] /\ ~e.pid["main"]
       /\ j.state \notin {"stopping", "killed"}
       => e.goal = "stop"

\* f is j in the middle of a handler, after the end of a process or a failure
\* has been noted.
Noted(f, j) ==
    /\ f.state = j.state /\ f.event = j.event /\ f.event_failed = j.event_failed
    /\ f.pid["main"] => j.pid["main"]
    /\ \/ f.failed = j.failed
       \/ j.state \notin AfterStopping
       \/ j.state = "post_stop" /\ f.failed_process = "post_stop"
    /\ /\ disable_respawn /\ j.pid["main"] /\ ~f.pid["main"]
       /\ j.state \notin {"stopping", "killed"}
       => f.goal = "stop"

\* A handler that goes on along job_next_state.
LEMMA AdvanceGoes ==
  ASSUME NEW j, Telling(j), NEW f, Between(f), Noted(f, j),
         f.state = "waiting" => f.goal = "start",
         f.state \in {"waiting", "starting", "security", "pre_start", "killed",
                     "post_stop"} => ~f.pid["main"],
         f.goal = "respawn" =>
            f.state \in {"post_start", "pre_stop"} /\ ~f.pid["main"]
  PROVE  Goes(j, Advance(f))
<1> DEFINE e == Advance(f)
<1>1. Ready(f)
  BY DEF Telling, Noted, Ready, AfterStopping
<1>2. /\ e.state \in Reach(f.state)
      /\ e.goal = (IF f.goal = "respawn" THEN "start" ELSE f.goal)
      /\ f.pid["main"] => e.pid["main"]
      /\ e.pid["main"] => f.pid["main"] \/ e.state = "spawned"
      /\ Telling(e)
      /\ e.state = "waiting" =>
            /\ e.event = "stopped" /\ e.event_failed = f.failed
            /\ e.failed_process = f.failed_process
  BY <1>1, AdvanceMoves
<1> HIDE DEF e
<1>3. f.state \in JobState
  BY DEF Between, JobType
<1>4. e.state = "waiting" => f.state \in AfterStopping \/ f.state = "waiting"
  BY <1>2, <1>3 DEF Reach, JobState, AfterStarting, AfterStarted, AfterStopping
<1>5. f.state = "waiting" /\ e.state = "waiting" => FALSE
  <2> SUFFICES ASSUME f.state = "waiting", e.state = "waiting" PROVE FALSE
    OBVIOUS
  <2> DEFINE c == [f EXCEPT !.goal = IF @ = "respawn" THEN "start" ELSE @]
  <2>1. c \in JobType /\ c.state = "waiting" /\ c.blocker = FALSE
    BY DEF Between, JobType, JobGoal
  <2> HIDE DEF c
  <2>2. job_next_state(f) = "starting"
    BY DEF job_next_state, NextWhenStarting
  <2>3. e = EnterStarting(c)
    BY <2>1, <2>2 DEF e, Advance, job_change_state, Enter, c
  <2>4. e.state = "starting"
    BY <2>1, <2>3 DEF EnterStarting, job_emit_event, JobType
  <2> QED BY <2>4
<1> QED BY <1>2, <1>4, <1>5 DEF Noted, Goes, Telling, e

\* A handler that leaves the job in its state.
LEMMA StayGoes ==
  ASSUME NEW j, j.state \in JobState, Telling(j), NEW e, Noted(e, j),
         e.failed = j.failed \/ j.state \notin AfterStopping
  PROVE  Goes(j, e)
BY DEF Telling, Noted, Goes, Reach, JobState, AfterStarting, AfterStarted,
   AfterStopping

\* A change of goal by a command, or by a handler that leaves the state alone.
LEMMA ChangeGoalGoes ==
  ASSUME NEW j, Settled(j), Telling(j), NEW g \in {"start", "stop"},
         NEW h \in JobType, Same(h, j), h = j \/ j.goal # g,
         h.event = j.event, h.event_failed = j.event_failed, h.failed = j.failed,
         j.fault # "freed"
  PROVE  Goes(j, job_change_goal(h, g))
<1> DEFINE c == [h EXCEPT !.goal = g]
<1>1. /\ c \in JobType
      /\ c.goal = g /\ c.state = j.state /\ c.pid = j.pid
      /\ c.child = j.child /\ c.pipe = j.pipe /\ c.old = j.old
      /\ c.fault = j.fault /\ c.blocker = j.blocker
      /\ c.kill_timer = j.kill_timer /\ c.failed = j.failed
      /\ c.event = j.event /\ c.event_failed = j.event_failed
  BY DEF Same, JobGoal, JobType
<1> HIDE DEF c
<1>2. j.state \in JobState /\ Noted(c, j)
  BY <1>1 DEF Settled, JobType, Noted
<1>3. CASE j.goal # g /\ j.state = (IF g = "start" THEN "waiting" ELSE "running")
  <2>1. job_change_goal(h, g) = Advance(c)
    BY <1>3 DEF job_change_goal, Same, c
  <2>2. Between(j) /\ (j.state = "waiting" => ~j.pid["main"])
    BY <1>3, RestingLemma
  <2>3. Between(c)
    BY <1>1, <2>2 DEF Between
  <2> QED BY <1>1, <1>2, <1>3, <2>1, <2>2, <2>3, AdvanceGoes
<1>4. CASE ~(j.goal # g /\ j.state = (IF g = "start" THEN "waiting" ELSE "running"))
  <2>1. job_change_goal(h, g) = c
    BY <1>4 DEF job_change_goal, Same, c
  <2> QED BY <1>1, <1>2, <2>1, StayGoes
<1> QED BY <1>3, <1>4

-----------------------------------------------------------------------------
(* The end of a process, and the set-up pipe                               *)

\* e has emitted no event since j.
Heard(e, j) == e.event = j.event /\ e.event_failed = j.event_failed

\* A failure is noted without an event, in the name of the first that failed.
LEMMA FailedHeard ==
  ASSUME NEW j \in JobType, NEW P \in ProcessType \cup {"none"}
  PROVE  /\ Heard(job_failed(j, P), j)
         /\ \/ job_failed(j, P).failed = j.failed
            \/ job_failed(j, P).failed_process = P
BY DEF job_failed, job_finished, JobType, Heard

\* StopNow where the job is held up by nothing but the process that ended.
LEMMA StopNowGoes ==
  ASSUME NEW j, Telling(j), j.state \in {"spawned", "running"},
         NEW f, Between(f), ~f.pid["main"], f.state = j.state, Heard(f, j),
         f.state = "running" => f.goal = "start"
  PROVE  Goes(j, StopNow(f, FALSE))
<1> DEFINE c == [f EXCEPT !.goal = "stop"]
<1>1. c \in JobType /\ c.goal = "stop"
      /\ c.state = f.state /\ c.pid = f.pid
      /\ c.child = f.child /\ c.pipe = f.pipe /\ c.old = f.old
      /\ c.fault = f.fault /\ c.blocker = f.blocker
      /\ c.kill_timer = f.kill_timer
      /\ c.event = f.event /\ c.event_failed = f.event_failed
  BY DEF Between, JobType, JobGoal
<1>2. Between(c)
  BY <1>1 DEF Between
<1>3. StopNow(f, FALSE) = Advance(c)
  BY DEF StopNow, job_change_goal
<1> HIDE DEF c
<1>4. Noted(c, j)
  BY <1>1 DEF Noted, Heard, AfterStopping
<1> QED BY <1>1, <1>2, <1>3, <1>4, AdvanceGoes

\* StopNow and a pending respawn where a script still runs.
LEMMA LaterGoes ==
  ASSUME NEW j, Settled(j), Telling(j), j.state \in {"post_start", "pre_stop"},
         NEW f \in JobType, ~f.pid["main"], f.state = j.state, Heard(f, j),
         NEW g \in JobGoal, disable_respawn => g = "stop"
  PROVE  Goes(j, job_change_goal(f, g))
<1> DEFINE c == [f EXCEPT !.goal = g]
<1>1. /\ c.goal = g /\ c.state = f.state /\ c.pid = f.pid
      /\ c.event = f.event /\ c.event_failed = f.event_failed
  BY DEF JobType
<1>2. job_change_goal(f, g) = c
  BY DEF job_change_goal
<1> HIDE DEF c
<1>3. Noted(c, j) /\ j.state \in JobState /\ j.state \notin AfterStopping
  BY <1>1 DEF Noted, Heard, AfterStopping, Settled, JobType
<1> QED BY <1>2, <1>3, StayGoes

\* PROCESS_MAIN of job_process_terminated.
LEMMA MainTerminatedGoes ==
  ASSUME class \in Classes, NEW j, Settled(j), Telling(j), j.pid["main"],
         j.fault = "none", NEW d, d.state = j.state, d.pid = j.pid, d.goal = j.goal,
         d.respawn_count \in Nat,
         NEW r, Lost(r, j, "main"), Heard(r, j), r.failed = j.failed,
         NEW status \in ExitStatus, NEW recent \in BOOLEAN
  PROVE  Goes(j, MainTerminated(d, r, status, recent))
<1>1. d.state \in ProcessState("main") /\ "main" \in class.process
  BY DEF Settled, JobInv, ProcessType
<1>2. CASE d.state = "killed"
  <2>1. Between(r) /\ ~r.pid["main"] /\ r.goal # "respawn" /\ r.state = "killed"
    BY <1>2, MainLostLemma DEF Lost
  <2>2. Noted(r, j)
    BY <1>2, <2>1 DEF Noted, Heard
  <2>3. Goes(j, Advance(r))
    BY <2>1, <2>2, AdvanceGoes
  <2> QED BY <1>2, <2>3 DEF MainTerminated
<1>3. CASE d.state = "stopping"
  <2>1. Noted(r, j) /\ j.state \in JobState
    BY <1>3, MainGoneLemma DEF Noted, Heard, Lost, JobState
  <2>2. Goes(j, r)
    BY <2>1, StayGoes
  <2> QED BY <1>3, <2>2 DEF MainTerminated
<1>4. CASE d.state \in {"running", "spawned", "post_start", "pre_stop"}
  <2> DEFINE counted == [r EXCEPT !.respawn_count = RespawnCount(d, recent)]
             given == job_failed(counted, "none")
             stopped == IF MainFailed(d, status) THEN job_failed(r, "main") ELSE r
  <2>1. counted \in JobType /\ Same(counted, r)
    BY CountLemma DEF Lost
  <2>2. Heard(counted, j)
    BY DEF Heard, Lost, JobType
  <2> HIDE DEF counted
  <2>3. given \in JobType /\ Same(given, r) /\ Heard(given, j)
    BY <2>1, <2>2, FailedLemma, FailedHeard DEF Same, Heard
  <2>4. stopped \in JobType /\ Same(stopped, r) /\ Heard(stopped, j)
    <3>1. /\ job_failed(r, "main") \in JobType /\ Same(job_failed(r, "main"), r)
          /\ Heard(job_failed(r, "main"), r)
      BY FailedLemma, FailedHeard DEF Lost, ProcessType
    <3> QED BY <3>1 DEF Same, Lost, Heard
  <2> HIDE DEF given, stopped
  <2>5. MainTerminated(d, r, status, recent) = MainLost(d, r, status, recent)
    BY <1>4 DEF MainTerminated
  <2>6. CASE d.state \in {"running", "spawned"}
    <3>1. /\ Between(r) /\ ~r.pid["main"] /\ r.goal \in {"start", "stop"}
          /\ r.state = j.state
          /\ r.state = "running" => r.goal = "start"
      <4>1. Between(r) /\ ~r.pid["main"] /\ r.goal # "respawn"
        BY <2>6, MainLostLemma
      <4> QED BY <4>1 DEF Lost, JobType, JobGoal, Settled, JobInv
    <3>2. ScriptRuns(d) = FALSE
      BY <2>6 DEF ScriptRuns
    <3>3. Goes(j, StopNow(given, FALSE))
      BY <2>3, <2>6, <3>1, StopNowGoes, SameLemma DEF Same
    <3>4. Goes(j, StopNow(stopped, FALSE))
      BY <2>4, <2>6, <3>1, StopNowGoes, SameLemma DEF Same
    <3>5. ~disable_respawn => Goes(j, Advance(counted))
      <4> SUFFICES ASSUME ~disable_respawn PROVE Goes(j, Advance(counted))
        OBVIOUS
      <4>1. Between(counted)
        BY <2>1, <3>1, SameLemma
      <4>2. Noted(counted, j)
        BY <2>1, <2>2, <2>6, <3>1 DEF Noted, Heard, Same, AfterStopping
      <4> QED BY <2>1, <2>6, <3>1, <4>1, <4>2, AdvanceGoes DEF Same
    <3>6. \/ MainLost(d, r, status, recent)
                \in {StopNow(given, FALSE), StopNow(stopped, FALSE)}
          \/ ~disable_respawn /\ MainLost(d, r, status, recent) = Advance(counted)
      BY <3>2 DEF MainLost, given, stopped, counted
    <3> QED BY <2>5, <3>3, <3>4, <3>5, <3>6
  <2>7. CASE d.state \in {"post_start", "pre_stop"}
    <3>1. Settled(r) /\ ~r.pid["main"] /\ r.state = j.state
      BY <2>7, MainGoneLemma DEF Lost
    <3>2. ScriptRuns(d) = TRUE
      BY <2>7 DEF ScriptRuns, Has, Settled, JobInv, SecurityFailed, ProcessType
    <3>3. StopNow(given, TRUE) = job_change_goal(given, "stop")
          /\ StopNow(stopped, TRUE) = job_change_goal(stopped, "stop")
      BY DEF StopNow
    <3>4. Goes(j, StopNow(given, TRUE)) /\ Goes(j, StopNow(stopped, TRUE))
      BY <2>3, <2>4, <2>7, <3>1, <3>3, LaterGoes DEF Same, JobGoal
    <3>5. ~disable_respawn => Goes(j, job_change_goal(counted, "respawn"))
      BY <2>1, <2>2, <2>7, <3>1, LaterGoes DEF Same, JobGoal
    <3>6. \/ MainLost(d, r, status, recent)
                \in {StopNow(given, TRUE), StopNow(stopped, TRUE)}
          \/ /\ ~disable_respawn
             /\ MainLost(d, r, status, recent) = job_change_goal(counted, "respawn")
      BY <3>2 DEF MainLost, given, stopped, counted
    <3> QED BY <2>5, <3>4, <3>5, <3>6
  <2> QED BY <1>4, <2>6, <2>7
<1> QED BY <1>1, <1>2, <1>3, <1>4 DEF ProcessState

\* A process that fails the job: pre-start, post-stop, or main in spawned.
LEMMA ScriptFailedGoes ==
  ASSUME NEW j, Telling(j), NEW r, Between(r), NEW P \in ProcessType,
         ~r.pid["main"], r.state \in {"pre_start", "spawned", "post_stop"},
         r.state = j.state, r.state = "post_stop" => P = "post_stop",
         Heard(r, j), r.failed = j.failed
  PROVE  Goes(j, Advance(job_change_goal(job_failed(r, P), "stop")))
<1> DEFINE g == job_failed(r, P)
           f == [g EXCEPT !.goal = "stop"]
<1>1. g \in JobType /\ Same(g, r) /\ Heard(g, j)
      /\ (g.failed = j.failed \/ g.failed_process = P)
  BY FailedLemma, FailedHeard DEF Between, Heard
<1> HIDE DEF g
<1>2. /\ f \in JobType /\ f.goal = "stop" /\ f.state = g.state
      /\ f.pid = g.pid /\ f.child = g.child /\ f.pipe = g.pipe
      /\ f.old = g.old /\ f.fault = g.fault /\ f.blocker = g.blocker
      /\ f.kill_timer = g.kill_timer /\ f.event = g.event
      /\ f.event_failed = g.event_failed /\ f.failed = g.failed
      /\ f.failed_process = g.failed_process
  BY <1>1 DEF JobType, JobGoal
<1>3. job_change_goal(g, "stop") = f
  BY <1>1 DEF job_change_goal, Same
<1> HIDE DEF f
<1>4. Between(f) /\ ~f.pid["main"] /\ f.state = r.state
  BY <1>1, <1>2 DEF Between, Same
<1>5. Noted(f, j)
  BY <1>1, <1>2, <1>4 DEF Noted, Heard, AfterStopping
<1>6. Goes(j, Advance(f))
  BY <1>2, <1>4, <1>5, AdvanceGoes
<1> QED BY <1>3, <1>6 DEF g

\* The end of any process but main.
LEMMA ScriptTerminatedGoes ==
  ASSUME NEW j, Settled(j), Telling(j), NEW P \in ProcessType \ {"main"}, j.pid[P],
         NEW d, d.state = j.state,
         NEW r, Lost(r, j, P), Heard(r, j), r.failed = j.failed,
         NEW status \in ExitStatus
  PROVE  Goes(j, ScriptTerminated(d, r, P, status))
<1>1. /\ Between(r) /\ r.state = P
      /\ P \notin {"post_start", "pre_stop"} => ~r.pid["main"]
      /\ r.goal = "respawn" => r.state \in {"post_start", "pre_stop"} /\ ~r.pid["main"]
  BY ScriptLostLemma
<1>2. d.state = P /\ P \in ScriptState(P) /\ r.state = j.state
  BY <1>1 DEF Lost, ScriptState, ProcessType
<1>3. CASE P \in {"pre_start", "post_stop"} /\ status # 0
  <2>1. Goes(j, Advance(job_change_goal(job_failed(r, P), "stop")))
    BY <1>1, <1>2, <1>3, ScriptFailedGoes
  <2> QED BY <1>2, <1>3, <2>1 DEF ScriptTerminated
<1>4. CASE ~(P \in {"pre_start", "post_stop"} /\ status # 0)
  <2>1. r.pid["main"] = j.pid["main"]
    BY DEF Lost, Settled, JobType, ProcessType
  <2>2. Noted(r, j)
    BY <1>2, <2>1 DEF Noted, Heard
  <2>3. Goes(j, Advance(r))
    BY <1>1, <2>2, AdvanceGoes DEF ProcessType
  <2> QED BY <1>2, <1>4, <2>3 DEF ScriptTerminated
<1> QED BY <1>3, <1>4

\* An error report that finds its child dying.
LEMMA ChildReaderGoes ==
  ASSUME NEW j, Settled(j), Telling(j), NEW P \in ProcessType, j.pipe[P] = "error"
  PROVE  Goes(j, job_process_child_reader([j EXCEPT !.pipe[P] = "none"], P))
<1> DEFINE n == [j EXCEPT !.pipe[P] = "none"]
           r == [n EXCEPT !.pid[P] = FALSE,
                          !.child[P] = IF @ \in {"setup", "up"} THEN @ ELSE "none"]
           f == job_change_goal(job_failed(r, P), "stop")
<1>1. /\ j \in JobType /\ j.child[P] = "dying" /\ j.pid[P] /\ P \in SetupFails
      /\ P = "main" => j.state = "spawned"
      /\ P # "main" => j.state = P
  BY DEF Settled, JobInv, ProcessState
<1>2. /\ P \in {"main", "pre_start", "post_start", "pre_stop", "security",
                 "post_stop"}
      /\ j.fault = "none"
  BY <1>1 DEF ProcessType, Settled, JobInv, FaultKnown, JobType
<1>3. n.child = j.child /\ n \in JobType
  BY <1>1 DEF JobType, PipeState
<1>4. Lost(r, j, P) /\ Heard(r, j) /\ r.failed = j.failed
  <2>1. j.kill_timer = FALSE
    BY <1>1, <1>2 DEF Settled, JobInv, JobType
  <2>2. r = [n EXCEPT !.pid[P] = FALSE, !.child[P] = "none"]
    BY <1>1, <1>3
  <2>3. Lost(r, j, P)
    BY <1>1, <2>1, <2>2 DEF Lost, JobType, ChildState, PipeState
  <2> QED BY <1>1, <2>2, <2>3 DEF Heard, JobType
<1> HIDE DEF r
<1>5. ASSUME NEW a, a \in JobType, job_child_error_handler(n, P) = a, Goes(j, a)
      PROVE  Goes(j, job_process_child_reader(n, P))
  <2> DEFINE b == [a EXCEPT !.fault = "freed"]
  <2>1. /\ b.state = a.state /\ b.event = a.event /\ b.pid = a.pid
        /\ b.event_failed = a.event_failed /\ b.failed = a.failed
        /\ b.failed_process = a.failed_process /\ b.goal = a.goal
    BY <1>5 DEF JobType
  <2>2. job_process_child_reader(n, P) \in {a, b}
    BY <1>5 DEF job_process_child_reader
  <2> HIDE DEF b
  <2>3. Goes(j, b)
    BY <1>5, <2>1 DEF Goes, Telling
  <2> QED BY <1>5, <2>2, <2>3
<1>6. CASE P \in {"main", "pre_start", "post_stop"}
  <2>1. /\ Between(r) /\ ~r.pid["main"]
        /\ r.state \in {"spawned", "pre_start", "post_stop"}
        /\ r.state = "post_stop" => P = "post_stop"
    <3>1. CASE P = "main"
      BY <1>1, <1>2, <1>4, <3>1, MainLostLemma DEF Lost
    <3>2. CASE P \in {"pre_start", "post_stop"}
      BY <1>1, <1>4, <3>2, ScriptLostLemma DEF ProcessType
    <3> QED BY <1>6, <3>1, <3>2
  <2>2. Goes(j, Advance(f)) /\ Advance(f) \in JobType
    BY <1>4, <2>1, ScriptFailedGoes, ScriptFailedLemma DEF Lost, Settled
  <2>3. job_child_error_handler(n, P) = Advance(f)
    BY <1>6 DEF job_child_error_handler, r
  <2> QED BY <1>5, <2>2, <2>3
<1>7. CASE P \in {"post_start", "pre_stop"}
  <2>1. /\ Between(r) /\ r.state \in {"post_start", "pre_stop"}
        /\ r.goal = "respawn" => ~r.pid["main"]
    BY <1>1, <1>4, <1>7, ScriptLostLemma
  <2>2. r.pid["main"] = j.pid["main"]
    BY <1>1, <1>4, <1>7 DEF Lost, JobType, ProcessType
  <2>3. Noted(r, j)
    BY <1>4, <2>2 DEF Noted, Heard, Lost
  <2>4. Goes(j, Advance(r)) /\ Advance(r) \in JobType
    BY <2>1, <2>3, AdvanceGoes, AdvanceLemma DEF Settled
  <2>5. job_child_error_handler(n, P) = Advance(r)
    BY <1>7 DEF job_child_error_handler, r
  <2> QED BY <1>5, <2>4, <2>5
<1>8. CASE P = "security"
  <2>1. Between(r) /\ r.state = "security" /\ r.pid["main"] = j.pid["main"]
    <3>1. Between(r) /\ r.state = "security"
      BY <1>1, <1>4, <1>8, ScriptLostLemma DEF ProcessType
    <3>2. r.pid["main"] = j.pid["main"]
      BY <1>1, <1>4, <1>8 DEF Lost, JobType, ProcessType
    <3> QED BY <3>1, <3>2
  <2> DEFINE g == job_failed(r, P)
  <2>2. g \in JobType /\ Same(g, r) /\ Heard(g, r)
    BY <2>1, FailedLemma, FailedHeard DEF Between
  <2> HIDE DEF g
  <2>3. f = [g EXCEPT !.goal = "stop"]
    BY <2>1, <2>2 DEF job_change_goal, Same, g
  <2>4. /\ f \in JobType /\ f.goal = "stop" /\ f.state = "security"
        /\ f.pid = r.pid /\ f.event = r.event /\ f.event_failed = r.event_failed
    BY <2>1, <2>2, <2>3 DEF JobType, JobGoal, Same, Heard
  <2>5. job_child_error_handler(n, P) = f
    BY <1>8 DEF job_child_error_handler, r, g
  <2> HIDE DEF f
  <2>6. Noted(f, j) /\ j.state \in JobState /\ j.state \notin AfterStopping
    BY <1>1, <1>4, <1>8, <2>1, <2>4 DEF Noted, Heard, AfterStopping, JobType
  <2>7. Goes(j, f)
    BY <2>6, StayGoes
  <2> QED BY <1>5, <2>4, <2>5, <2>7
<1> QED BY <1>2, <1>6, <1>7, <1>8

\* The end of file of a set-up pipe.
LEMMA CloseHandlerGoes ==
  ASSUME NEW j, Settled(j), Telling(j), NEW P \in ProcessType, j.pipe[P] = "eof"
  PROVE  Goes(j, job_process_close_handler([j EXCEPT !.pipe[P] = "none"], P))
<1> DEFINE n == [j EXCEPT !.pipe[P] = "none"]
<1>1. j \in JobType /\ j.child[P] \in {"up", "dying"}
  BY DEF Settled, JobInv
<1>2. /\ n \in JobType /\ n.state = j.state /\ n.goal = j.goal
      /\ n.pid = j.pid /\ n.child = j.child /\ n.old = j.old
      /\ n.fault = j.fault /\ n.blocker = j.blocker
      /\ n.kill_timer = j.kill_timer /\ n.failed = j.failed
      /\ n.pipe = [j.pipe EXCEPT ![P] = "none"]
      /\ n.event = j.event /\ n.event_failed = j.event_failed
  BY <1>1 DEF JobType, PipeState
<1> HIDE DEF n
<1>3. n.pipe[P] = "none" /\ \A Q \in ProcessType \ {P} : n.pipe[Q] = j.pipe[Q]
  BY <1>1, <1>2 DEF JobType
<1>4. Noted(n, j) /\ j.state \in JobState
  BY <1>1, <1>2 DEF Noted, JobType
<1>5. CASE j.state = "spawned" /\ ~class.waits_ready /\ P = "main"
  <2>1. /\ j.child["main"] \in {"up", "dying"} /\ n.pipe["main"] \in {"none", "eof"}
        /\ \A Q \in ProcessType \ {"main"} : n.pipe[Q] = j.pipe[Q]
    BY <1>1, <1>3, <1>5
  <2>2. Between(n) /\ n.goal # "respawn"
    BY <1>2, <1>5, <2>1, SpawnedBetweenLemma
  <2>3. Goes(j, Advance(n))
    BY <1>2, <1>4, <1>5, <2>2, AdvanceGoes
  <2> QED BY <1>2, <1>5, <2>3 DEF job_process_close_handler, n
<1>6. CASE ~(j.state = "spawned" /\ ~class.waits_ready /\ P = "main")
  <2>1. Goes(j, n)
    BY <1>2, <1>4, StayGoes
  <2> QED BY <1>2, <1>6, <2>1 DEF job_process_close_handler, n
<1> QED BY <1>5, <1>6

-----------------------------------------------------------------------------
(* One lemma per action                                                    *)

\* What EventInv says of the job in the current state.
LEMMA NowEvents ==
  ASSUME EventInv
  PROVE  /\ IndInv /\ Settled(job) /\ Telling(job) /\ job \in JobType
         /\ class \in Classes /\ job.state \in JobState
BY NowLemma DEF EventInv, JobType

\* Start, stop and restart, with their caller held back.
LEMMA CommandsGo ==
  ASSUME EventInv, NEW wait \in BOOLEAN, Start(wait) \/ Stop(wait) \/ Restart(wait)
  PROVE  Goes(job, job')
<1>1. ASSUME NEW b \in {"none", "start", "stop", "restart"}
      PROVE  /\ Held(b) \in JobType /\ Same(Held(b), job) /\ Heard(Held(b), job)
             /\ Held(b).failed = job.failed
             /\ Held(b).failed_process = job.failed_process
  <2>1. Held(b) \in JobType /\ Same(Held(b), job)
    BY HeldLemma, NowEvents
  <2> QED BY <2>1, NowEvents DEF Held, Heard, JobType
<1>2. CASE Start(wait)
  BY <1>1, <1>2, NowEvents, ChangeGoalGoes DEF Start, Commanded, Alive, Heard
<1>3. CASE Stop(wait)
  BY <1>1, <1>3, NowEvents, ChangeGoalGoes DEF Stop, Commanded, Alive, Heard
<1>4. CASE Restart(wait)
  <2> DEFINE h == Held(IF wait THEN "restart" ELSE "none")
             k == job_change_goal(h, "stop")
             e == [k EXCEPT !.goal = "start"]
  <2>1. /\ h \in JobType /\ Same(h, job) /\ Heard(h, job) /\ h.failed = job.failed
        /\ job.goal # "stop" /\ job.state # "waiting" /\ job.fault # "freed"
        /\ h.failed_process = job.failed_process
    BY <1>1, <1>4 DEF Restart, Commanded, Alive
  <2> HIDE DEF h
  <2>2. Settled(k) /\ Goes(job, k)
    BY <2>1, NowEvents, ChangeGoalLemma, ChangeGoalGoes DEF Heard
  <2>3. k.state # "waiting" /\ (job.pid["main"] => k.pid["main"])
    <3> DEFINE c == [h EXCEPT !.goal = "stop"]
    <3>1. c \in JobType /\ c.goal = "stop" /\ Same(c, [job EXCEPT !.goal = "stop"])
          /\ c.event = job.event /\ c.event_failed = job.event_failed
          /\ c.state = job.state /\ c.pid = job.pid
      BY <2>1, NowEvents DEF Same, Heard, JobType, JobGoal
    <3>2. CASE job.state = "running"
      <4>1. k = Advance(c)
        BY <2>1, <3>2 DEF job_change_goal, Same
      <4> HIDE DEF c, k
      <4>2. Between(job)
        BY <2>1, <3>2, NowEvents, RestingLemma
      <4>3. Between(c)
        BY <3>1, <4>2, NowEvents DEF Between, Same, JobType
      <4>4. Ready(c)
        BY <3>1, <3>2, NowEvents DEF Ready, Telling
      <4>5. k.state \in Reach("running") /\ (c.pid["main"] => k.pid["main"])
        BY <3>1, <3>2, <4>1, <4>3, <4>4, AdvanceMoves
      <4> QED BY <3>1, <4>5 DEF Reach, AfterStarting, AfterStarted, AfterStopping
    <3>3. CASE job.state # "running"
      <4>1. k = c
        BY <2>1, <3>3 DEF job_change_goal, Same
      <4> QED BY <2>1, <3>1, <4>1
    <3> QED BY <3>2, <3>3
  <2> HIDE DEF k
  <2>4. job' = e
    BY <1>4, <2>3 DEF Restart, job_change_goal, h, k
  <2>5. /\ e.state = k.state /\ e.pid = k.pid /\ e.event = k.event
        /\ e.event_failed = k.event_failed /\ e.failed = k.failed
    BY <2>2 DEF Settled, JobType
  <2> HIDE DEF e
  <2> QED BY <2>2, <2>3, <2>4, <2>5 DEF Goes, Telling
<1> QED BY <1>2, <1>3, <1>4

\* Stopping everything at shutdown.
LEMMA QuiesceGoes ==
  ASSUME EventInv, Quiesce
  PROVE  Goes(job, job')
<1>1. CASE job.state = "waiting"
  <2>1. Noted(job, job)
    BY DEF Noted
  <2> QED BY <1>1, <2>1, NowEvents, StayGoes DEF Quiesce
<1>2. CASE job.state # "waiting"
  BY <1>2, NowEvents, ChangeGoalGoes DEF Quiesce, Commanded, Alive, Same
<1> QED BY <1>1, <1>2

\* A report of the set-up.
LEMMA ReadPipeGoes ==
  ASSUME EventInv, NEW P \in ProcessType, ReadPipe(P)
  PROVE  Goes(job, job')
<1>1. job.pipe[P] \in {"error", "eof"}
  BY NowEvents DEF ReadPipe, IndInv, Readable
<1> QED BY <1>1, NowEvents, ChildReaderGoes, CloseHandlerGoes DEF ReadPipe, PipeHandler

\* The end of a child.
LEMMA ReapGoes ==
  ASSUME EventInv, NEW P \in ProcessType, Reap(P)
  PROVE  Goes(job, job')
<1> DEFINE d == [job EXCEPT !.child[P] = "none"]
           r == [d EXCEPT !.pid[P] = FALSE, !.kill_timer = FALSE]
<1>1. job \in JobType /\ job.child[P] = "zombie" /\ job.pid[P] /\ job.pipe[P] = "none"
  BY NowEvents DEF Reap, Settled, JobInv, JobType, PipeState
<1>2. PICK status \in ExitStatus, recent \in BOOLEAN :
        job' = job_process_terminated(d, P, status, recent)
  BY <1>1 DEF Reap
<1>3. /\ d.state = job.state /\ d.pid = job.pid /\ d.goal = job.goal
      /\ d.respawn_count = job.respawn_count
  BY <1>1 DEF JobType
<1>4. Lost(r, job, P) /\ Heard(r, job) /\ r.failed = job.failed
  <2>1. [job.pipe EXCEPT ![P] = "none"] = job.pipe
    BY <1>1 DEF JobType
  <2> QED BY <1>1, <2>1 DEF Lost, Heard, JobType, ChildState
<1>5. job.respawn_count \in Nat
  BY <1>1 DEF JobType
<1> HIDE DEF d
<1>6. job' = IF P = "main" THEN MainTerminated(d, r, status, recent)
             ELSE ScriptTerminated(d, r, P, status)
  BY <1>2 DEF job_process_terminated
<1> HIDE DEF r
<1>7. CASE P = "main"
  BY <1>1, <1>3, <1>4, <1>5, <1>6, <1>7, NowEvents, MainTerminatedGoes
     DEF Reap, Alive
<1>8. CASE P # "main"
  BY <1>1, <1>3, <1>4, <1>6, <1>8, NowEvents, ScriptTerminatedGoes
<1> QED BY <1>7, <1>8

\* The main process is ready, or the event waited for has finished.
LEMMA WaitOverGoes ==
  ASSUME EventInv, MainReady \/ EventFinished
  PROVE  Goes(job, job')
<1>1. CASE MainReady
  <2>1. job.pipe["main"] \in {"none", "eof"}
    BY <1>1, NowEvents DEF MainReady, Settled, JobInv, JobType, PipeState, ProcessType
  <2>2. Between(job) /\ job.goal # "respawn"
    BY <1>1, <2>1, NowEvents, SpawnedBetweenLemma DEF MainReady
  <2>3. Noted(job, job)
    BY DEF Noted
  <2> QED BY <1>1, <2>2, <2>3, NowEvents, AdvanceGoes DEF MainReady
<1>2. CASE EventFinished
  <2> DEFINE e == [job EXCEPT !.blocker = FALSE]
  <2>1. /\ Between(e) /\ e.state = job.state /\ e.pid = job.pid
        /\ e.state \in {"starting", "stopping"} /\ e.goal # "respawn"
        /\ e.state = "starting" => ~e.pid["main"]
    BY <1>2, NowEvents, EventOverLemma DEF EventFinished
  <2>2. Noted(e, job)
    BY <2>1, NowEvents DEF Noted, JobType
  <2> HIDE DEF e
  <2>3. Goes(job, Advance(e))
    BY <2>1, <2>2, NowEvents, AdvanceGoes
  <2> QED BY <1>2, <2>3 DEF EventFinished, e
<1> QED BY <1>1, <1>2

\* What the daemon does not move: the main loop, the timer and the children.
LEMMA OthersGo ==
  ASSUME EventInv,
         \/ UNCHANGED vars \/ Loop \/ KillTimer
         \/ \E P \in ProcessType : ChildSetUp(P) \/ ChildExits(P)
  PROVE  Goes(job, job')
<1>1. /\ job'.state = job.state /\ job'.event = job.event
      /\ job'.event_failed = job.event_failed /\ job'.failed = job.failed
      /\ job'.pid = job.pid
  <2>1. CASE UNCHANGED vars \/ Loop
    BY <2>1 DEF vars, Loop, Select, IoDone, ChildrenDone
  <2>2. CASE KillTimer
    BY <2>2, NowEvents DEF KillTimer, Fail, JobType
  <2>3. ASSUME NEW P \in ProcessType, NEW c, Becomes(P, c)
        PROVE  /\ job'.state = job.state /\ job'.event = job.event
               /\ job'.event_failed = job.event_failed
               /\ job'.failed = job.failed /\ job'.pid = job.pid
    BY <2>3, NowEvents DEF Becomes, JobType
  <2> QED BY <2>1, <2>2, <2>3 DEF ChildSetUp, ChildExits
<1>2. Noted(job', job)
  BY <1>1 DEF Noted
<1> QED BY <1>1, <1>2, NowEvents, StayGoes

\* Every step goes where it may.
LEMMA NextGoes ==
  ASSUME Orderly, EventInv, [Next]_vars
  PROVE  Goes(job, job')
<1>1. ASSUME NEW wait \in BOOLEAN, Start(wait) \/ Stop(wait) \/ Restart(wait)
      PROVE  Goes(job, job')
  BY <1>1, CommandsGo
<1>2. CASE Quiesce
  BY <1>2, QuiesceGoes
<1>3. ASSUME NEW P \in ProcessType, ReadPipe(P) \/ Reap(P)
      PROVE  Goes(job, job')
  BY <1>3, ReadPipeGoes, ReapGoes DEF Orderly
<1>4. job.old = {}
  BY NowEvents DEF Settled, JobInv
<1>5. CASE MainReady \/ EventFinished
  BY <1>5, WaitOverGoes
<1>6. CASE UNCHANGED vars \/ Loop \/ KillTimer
  BY <1>6, OthersGo
<1>7. ASSUME NEW P \in ProcessType, ChildSetUp(P) \/ ChildExits(P)
      PROVE  Goes(job, job')
  BY <1>7, OthersGo
<1> QED BY <1>1, <1>2, <1>3, <1>4, <1>5, <1>6, <1>7 DEF Next, Aborted

-----------------------------------------------------------------------------
(* The theorems                                                            *)

\* EventInv is inductive: the state of a job always says which of its events
\* was emitted last, and with which RESULT.
THEOREM EventsInductive == Orderly => (Spec => []EventInv)
<1> SUFFICES ASSUME Orderly PROVE Spec => []EventInv
  OBVIOUS
<1>1. Init => Telling(job)
  BY DEF Init, Telling, EventOf, AfterStarting, AfterStarted, AfterStopping
<1>2. IndInv /\ Telling(job) /\ [Next]_vars => Telling(job)'
  BY NextGoes DEF EventInv, Goes
<1>3. Spec => []IndInv
  BY Inductive
<1> QED BY <1>1, <1>2, <1>3, PTL DEF Spec, EventInv

\* Every step of a job, seen through the events it emits and the life of its
\* main process, is a step of JobEvents or none at all.
LEMMA StepKeepsOrder ==
  ASSUME Orderly, EventInv, EventInv', [Next]_vars
  PROVE  [Events!Next]_(Events!eventVars)
<1> DEFINE m == job.child["main"] # "none"
<1>1. /\ Goes(job, job') /\ job.state \in JobState
      /\ job.event \in EventOf(job.state)
  BY NextGoes, NowEvents DEF Telling
<1>2. /\ job.pid["main"] <=> m
      /\ job.pid["main"] => job.state \in ProcessState("main")
  BY NowEvents DEF Settled, JobInv, ProcessType
<1>3. /\ job'.pid["main"] <=> m'
      /\ job'.pid["main"] => job'.state \in ProcessState("main")
      /\ job'.event \in EventOf(job'.state)
  BY DEF EventInv, IndInv, JobInv, Telling, ProcessType
<1> HIDE DEF m
<1>4. /\ m' => m \/ job'.state = "spawned"
      /\ m => job.state \in ProcessState("main")
      /\ m' => job'.state \in ProcessState("main")
      /\ job'.state \in Reach(job.state)
  BY <1>1, <1>2, <1>3 DEF Goes
<1> USE DEF AfterStarting, AfterStarted, AfterStopping, EventOf, Reach, ProcessState
<1>5. m \in BOOLEAN /\ m' \in BOOLEAN
  BY DEF m
<1>6. CASE job.state \in AfterStarting
  <2>1. job.event = "starting"
    BY <1>1, <1>6
  <2>2. CASE job'.state \in AfterStarting
    <3>1. job'.event = "starting"
      BY <1>3, <2>2
    <3> QED BY <1>5, <2>1, <3>1 DEF Events!Next, Events!SpawnMain,
            Events!MainGone, Events!eventVars, m
  <2>3. CASE job'.state = "running"
    <3>1. job'.event = "started" /\ m' \in {m, FALSE}
      BY <1>3, <1>4, <1>5, <2>3
    <3> QED BY <2>1, <3>1 DEF Events!Next, Events!Started, m
  <2>4. CASE job'.state = "stopping"
    <3>1. job'.event = "stopping" /\ m' \in {m, FALSE}
      BY <1>3, <1>4, <1>5, <2>4
    <3> QED BY <2>1, <3>1 DEF Events!Next, Events!Stopping, m
  <2> QED BY <1>4, <1>6, <2>2, <2>3, <2>4
<1>7. CASE job.state \in AfterStarted
  <2>1. job.event = "started"
    BY <1>1, <1>7
  <2>2. m' \in {m, FALSE}
    BY <1>4, <1>5, <1>7
  <2>3. CASE job'.state \in AfterStarted
    <3>1. job'.event = "started"
      BY <1>3, <2>3
    <3> QED BY <1>5, <2>1, <2>2, <3>1 DEF Events!Next, Events!MainGone,
            Events!eventVars, m
  <2>4. CASE job'.state = "stopping"
    <3>1. job'.event = "stopping"
      BY <1>3, <2>4
    <3> QED BY <2>1, <2>2, <3>1 DEF Events!Next, Events!Stopping, m
  <2> QED BY <1>4, <1>7, <2>3, <2>4
<1>8. CASE job.state \in AfterStopping
  <2>1. job.event = "stopping"
    BY <1>1, <1>8
  <2>2. CASE job'.state \in AfterStopping
    <3>1. job'.event = "stopping" /\ m' \in {m, FALSE}
      BY <1>3, <1>4, <1>5, <2>2
    <3> QED BY <1>5, <2>1, <3>1 DEF Events!Next, Events!MainGone,
            Events!eventVars, m
  <2>3. CASE job'.state = "waiting"
    <3>1. job'.event = "stopped" /\ m' = FALSE
      BY <1>1, <1>4, <1>5, <1>8, <2>3 DEF Goes
    <3> QED BY <2>1, <3>1 DEF Events!Next, Events!Stopped, m
  <2>4. CASE job'.state = "starting"
    <3>1. job'.event = "starting" /\ m' = FALSE
      BY <1>3, <1>4, <1>5, <2>4
    <3> QED BY <2>1, <3>1 DEF Events!Next, Events!Starting, m
  <2> QED BY <1>4, <1>8, <2>2, <2>3, <2>4
<1>9. CASE job.state = "waiting"
  <2>1. job.event \in {"none", "stopped"} /\ m = FALSE
    BY <1>1, <1>4, <1>5, <1>9
  <2>2. CASE job'.state = "waiting"
    <3>1. job'.event = job.event /\ m' = FALSE
      BY <1>1, <1>4, <1>5, <1>9, <2>2 DEF Goes
    <3> QED BY <2>1, <3>1 DEF Events!eventVars, m
  <2>3. CASE job'.state = "starting"
    <3>1. job'.event = "starting" /\ m' = FALSE
      BY <1>3, <1>4, <1>5, <2>3
    <3> QED BY <2>1, <3>1 DEF Events!Next, Events!Starting, m
  <2> QED BY <1>4, <1>9, <2>2, <2>3
<1> QED BY <1>1, <1>6, <1>7, <1>8, <1>9 DEF JobState

\* A job implements JobEvents: starting, started, stopping and stopped are
\* emitted in this order, and the main process lives between starting and
\* stopped only.
THEOREM EventOrder == Orderly => (Spec => KeepsEventOrder)
<1> SUFFICES ASSUME Orderly PROVE Spec => KeepsEventOrder
  OBVIOUS
<1>1. Init => Events!Init
  BY DEF Init, Events!Init, ProcessType
<1>2. EventInv /\ EventInv' /\ [Next]_vars => [Events!Next]_(Events!eventVars)
  BY StepKeepsOrder
<1>3. Spec => []EventInv
  BY EventsInductive
<1> QED BY <1>1, <1>2, <1>3, PTL DEF Spec, KeepsEventOrder, Events!Spec

\* The RESULT of stopped is that of stopping, unless post-stop failed.
THEOREM ResultsAgree == Orderly => (Spec => ResultsMatch)
<1> SUFFICES ASSUME Orderly PROVE Spec => ResultsMatch
  OBVIOUS
<1>1. EventInv /\ EventInv' /\ [Next]_vars =>
        [job.event = "stopping" /\ job'.event = "stopped"
            /\ job.event_failed # job'.event_failed
         => job'.failed_process = "post_stop"]_vars
  <2> SUFFICES ASSUME EventInv, EventInv', [Next]_vars,
                      job.event = "stopping", job'.event = "stopped",
                      job.event_failed # job'.event_failed
               PROVE  job'.failed_process = "post_stop"
    OBVIOUS
  <2>1. /\ Goes(job, job') /\ job.state \in JobState
        /\ job.event \in EventOf(job.state)
    BY NextGoes, NowEvents DEF Telling
  <2>2. job'.event \in EventOf(job'.state) /\ job'.state \in JobState
    BY DEF EventInv, Telling, IndInv, TypeOK, JobType
  <2>3. job.state # "waiting" /\ job'.state = "waiting"
    BY <2>1, <2>2 DEF EventOf, JobState, AfterStarting, AfterStarted, AfterStopping
  <2> QED BY <2>1, <2>3 DEF Goes
<1>2. Spec => []EventInv
  BY EventsInductive
<1> QED BY <1>1, <1>2, PTL DEF Spec, ResultsMatch

\* Once the daemon shuts down, losing the main process stops the job.
THEOREM NoLateRespawn == Orderly => (Spec => NoRespawnAfterQuiesce)
<1> SUFFICES ASSUME Orderly PROVE Spec => NoRespawnAfterQuiesce
  OBVIOUS
<1>1. EventInv /\ [Next]_vars =>
        [disable_respawn /\ job.pid["main"] /\ ~job'.pid["main"]
            /\ job.state \notin {"stopping", "killed"}
         => job'.goal = "stop"]_vars
  BY NextGoes DEF Goes
<1>2. Spec => []EventInv
  BY EventsInductive
<1> QED BY <1>1, <1>2, PTL DEF Spec, NoRespawnAfterQuiesce

=============================================================================
