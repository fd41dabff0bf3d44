-------------------------- MODULE QuiesceProofs --------------------------
(***************************************************************************)
(* Proofs about Quiesce, for every finite set of classes and all timeouts  *)
(* of a second or more: a session ends neither too late nor too early.     *)
(***************************************************************************)
EXTENDS Quiesce, FiniteSetTheorems, TLAPS

-----------------------------------------------------------------------------
(* The inductive invariant                                                 *)

\* An instance that is not there has nothing; one that was told to stop by the
\* shutdown has not been started again; a kill timer is set only once the
\* process was signalled, and no further ahead than the kill timeout of the
\* class; a job waits for a script only if it has one.
Fine(c, j, now) ==
    /\ j.state = "none" => ~j.pid /\ ~j.told /\ j.goal = "stop"
    /\ j.told => j.goal = "stop"
    /\ j.state # "killed" => j.kill = 0
    /\ j.kill <= now + KillTimeout[c]
    /\ j.state = "starting" => ~j.pid
    /\ j.state = "running" => j.goal = "start"
    /\ j.state \in Scripts => c \in Delayed

InstanceInv(c) == Fine(c, job[c], time)

\* The phases, the main loop and the flag that ends it.
LoopInv ==
    /\ fault = "none"
    /\ exit <=> quiesce_phase = "cleanup"
    /\ loop = "ended" => exit
    /\ exit => loop # "input"
    /\ time \in 1..MaxTime
    /\ quiesce_phase = "not_quiesced" => quiesce_start_time = 0 /\ due = 0
    /\ quiesce_phase # "not_quiesced" =>
        /\ quiesce_start_time \in 1..time
        /\ quiesce_phase_time \in quiesce_start_time..time

\* While the session ends, the timer comes due every second, and is served
\* before the loop goes on to events.
TimerInv ==
    /\ quiesce_phase \in {"wait", "kill"} =>
        due \in {time, time + 1} /\ (loop = "events" => due = time + 1)
    /\ quiesce_phase = "cleanup" /\ loop = "timers" => due = 0

\* How long each phase has taken; the last second of it is being served.
PhaseInv ==
    /\ quiesce_phase = "wait" =>
        /\ quiesce_phase_time = quiesce_start_time
        /\ time - quiesce_phase_time <= Runtime
        /\ time - quiesce_phase_time = Runtime => due = time
    /\ quiesce_phase = "kill" =>
        /\ quiesce_phase_time - quiesce_start_time <= Runtime
        /\ max_kill_timeout + Runtime + 1 <= Longest
        /\ time - quiesce_phase_time <= max_kill_timeout + 1
        /\ time - quiesce_phase_time = max_kill_timeout + 1 => due = time
    /\ quiesce_phase = "cleanup" => time - quiesce_start_time <= Longest

\* A process that was told to stop is done with when the session ends: its kill
\* timer has run or is being served, or it was not signalled in time.
Settled(c) ==
    \/ /\ job[c].state = "killed"
       /\ job[c].kill = 0 \/ (loop = "timers" /\ job[c].kill <= time)
    \/ /\ c \in Delayed
       /\ job[c].state # "killed" \/ job[c].kill > quiesce_phase_time + KillTimeout[c]

\* The kill phase waits for every instance that was told to stop when it began:
\* one that nothing delays is signalled in the second the phase begins.
Waited(c) ==
    /\ quiesce_phase = "kill" =>
        /\ KillTimeout[c] <= max_kill_timeout
        /\ job[c].pid /\ c \notin Delayed =>
            /\ job[c].kill <= quiesce_phase_time + KillTimeout[c]
            /\ job[c].state = "stopping" => time = quiesce_phase_time
    /\ quiesce_phase = "cleanup" /\ job[c].pid =>
        quiesce_phase_time < time /\ Settled(c)

KillInv == \A c \in Class : job[c].told => Waited(c)

QuiesceInv ==
    /\ TypeOK /\ LoopInv /\ TimerInv /\ PhaseInv /\ KillInv
    /\ \A c \in Class : InstanceInv(c)

-----------------------------------------------------------------------------
(* The longest timeout of a finite set of classes                          *)

\* A set of naturals has a least element.
LEMMA Least ==
  ASSUME NEW T \in SUBSET Nat, T # {}
  PROVE  \E x \in T : \A y \in T : x <= y
<1> DEFINE R == {ss \in Nat \X Nat : ss[1] < ss[2]}
<1>1. IsWellFoundedOn(R, Nat)
  BY NatLessThanWellFounded DEF OpToRel
<1>2. \A x, y \in Nat : y < x => <<y, x>> \in R
  OBVIOUS
<1> HIDE DEF R
<1>3. PICK x \in T : \A y \in T : ~(<<y, x>> \in R)
  BY <1>1, WFMin
<1>4. ASSUME NEW y \in T PROVE x <= y
  <2>1. x \in Nat /\ y \in Nat
    OBVIOUS
  <2>2. ~(y < x)
    BY <2>1, <1>2, <1>3
  <2> QED BY <2>1, <2>2
<1> QED BY <1>4

\* A finite set of naturals has a greatest element: a smallest subset without
\* one would have one as soon as an element is taken away.
LEMMA Greatest ==
  ASSUME NEW T \in SUBSET Nat, T # {}, IsFiniteSet(T)
  PROVE  \E x \in T : \A y \in T : y <= x
<1> DEFINE Has(X) == \E x \in X : \A y \in X : y <= x
           Bad    == {X \in SUBSET T : X # {} /\ ~Has(X)}
           Sizes  == {n \in Nat : \E X \in Bad : Cardinality(X) = n}
<1> SUFFICES ASSUME ~Has(T) PROVE FALSE
  OBVIOUS
<1>1. \A X \in SUBSET T : IsFiniteSet(X) /\ Cardinality(X) \in Nat
  BY FS_Subset, FS_CardinalityType
<1>2. Sizes \in SUBSET Nat /\ Sizes # {}
  <2>1. T \in Bad
    OBVIOUS
  <2>2. Cardinality(T) \in Sizes
    BY <1>1, <2>1
  <2> QED BY <2>2
<1> HIDE DEF Sizes
<1>3. PICK n \in Sizes : \A m \in Sizes : n <= m
  BY <1>2, Least
<1>4. PICK X \in Bad : Cardinality(X) = n
  BY <1>3 DEF Sizes
<1>5. PICK x \in X : TRUE
  BY <1>4
<1>6. X \in SUBSET T /\ ~Has(X) /\ n \in Nat /\ x \in Nat
  BY <1>2, <1>4, <1>5
<1>7. X \ {x} \in SUBSET T /\ Cardinality(X \ {x}) = n - 1
  BY <1>1, <1>4, <1>5, <1>6, FS_RemoveElement
<1>8. X \ {x} \notin Bad
  <2>1. SUFFICES ASSUME X \ {x} \in Bad PROVE FALSE
    OBVIOUS
  <2>2. n - 1 \in Sizes
    <3>1. n - 1 \in Nat
      BY <1>1, <1>7
    <3> QED BY <3>1, <1>7, <2>1 DEF Sizes
  <2> QED BY <2>2, <1>3, <1>6
<1>9. CASE X \ {x} = {}
  <2>1. X = {x}
    BY <1>9, <1>5
  <2>2. x <= x
    BY <1>6
  <2> QED BY <2>1, <2>2, <1>6
<1>10. CASE X \ {x} # {}
  <2>1. PICK z \in X \ {x} : \A y \in X \ {x} : y <= z
    BY <1>7, <1>8, <1>10
  <2>2. z \in Nat /\ z \in X /\ X \in SUBSET Nat
    BY <2>1, <1>6
  <2>3. CASE x <= z
    <3>1. \A y \in X : y <= z
      BY <2>1, <2>3
    <3> QED BY <3>1, <2>2, <1>6
  <2>4. CASE ~(x <= z)
    <3>1. ASSUME NEW y \in X PROVE y <= x
      <4>1. y \in Nat
        BY <2>2
      <4>2. CASE y = x
        BY <4>1, <4>2
      <4>3. CASE y # x
        <5>1. y <= z
          BY <4>3, <2>1
        <5> QED BY <5>1, <4>1, <2>2, <2>4, <1>6
      <4> QED BY <4>2, <4>3
    <3> QED BY <3>1, <1>5, <1>6
  <2> QED BY <2>3, <2>4
<1> QED BY <1>9, <1>10

\* The timeouts that job_class_max_kill_timeout looks at.
Timeouts(Y) == {DefaultTimeout} \cup {KillTimeout[c] : c \in Y}
Highest(Y) == CHOOSE t \in Timeouts(Y) : \A u \in Timeouts(Y) : u <= t

\* Among the timeouts of some classes there is a highest.
LEMMA HighestLemma ==
  ASSUME NEW Y \in SUBSET Class
  PROVE  /\ Highest(Y) \in Timeouts(Y)
         /\ \A u \in Timeouts(Y) : u <= Highest(Y)
<1> DEFINE I == {KillTimeout[c] : c \in Y}
           f == [c \in Y |-> KillTimeout[c]]
<1>1. IsFiniteSet(Y)
  BY ClassesAreFinite, FS_Subset
<1>2. f \in Surjection(Y, I)
  BY DEF Surjection
<1>3. IsFiniteSet(I)
  BY <1>1, <1>2, FS_Surjection
<1>4. IsFiniteSet(Timeouts(Y))
  <2>1. IsFiniteSet(I \cup {DefaultTimeout})
    BY <1>3, FS_AddElement
  <2>2. I \cup {DefaultTimeout} = Timeouts(Y)
    BY DEF Timeouts
  <2> QED BY <2>1, <2>2
<1>5. Timeouts(Y) \in SUBSET Nat /\ Timeouts(Y) # {}
  BY TimesAreSeconds DEF Timeouts
<1>6. \E x \in Timeouts(Y) : \A u \in Timeouts(Y) : u <= x
  BY <1>4, <1>5, Greatest
<1> QED BY <1>6 DEF Highest

-----------------------------------------------------------------------------
(* The operators of the model                                              *)

Instance == [state : {"none", "starting", "running", "stopping", "killed"} \cup Scripts,
             pid : BOOLEAN, goal : {"start", "stop", "respawn"}, kill : Nat, told : BOOLEAN]

\* The bound on the length of the end of a session.
LEMMA LongestLemma ==
  /\ Longest = Runtime + 1 + Highest(Class)
  /\ Longest \in Nat
<1>1. Longest = Runtime + 1 + Highest(Class)
  BY DEF Longest, Highest, Timeouts
<1>2. Highest(Class) \in Timeouts(Class)
  BY HighestLemma
<1>3. Highest(Class) \in Nat
  BY <1>2, TimesAreSeconds DEF Timeouts
<1> QED BY <1>1, <1>3, TimesAreSeconds

\* The kill phase is as long as the kill timeout of every instance asks for,
\* and no longer than the bound allows.
LEMMA MaxKillLemma ==
  ASSUME NEW js \in [Class -> Instance]
  PROVE  /\ job_class_max_kill_timeout(js) \in Nat
         /\ job_class_max_kill_timeout(js) + Runtime + 1 <= Longest
         /\ \A c \in Class : js[c].state # "none" =>
                KillTimeout[c] <= job_class_max_kill_timeout(js)
<1> DEFINE Y == {d \in Class : js[d].state # "none"}
           m == job_class_max_kill_timeout(js)
<1>1. m = Highest(Y)
  BY DEF job_class_max_kill_timeout, Highest, Timeouts
<1>2. m \in Timeouts(Y) /\ \A u \in Timeouts(Y) : u <= m
  BY <1>1, HighestLemma
<1>3. m \in Nat
  BY <1>2, TimesAreSeconds DEF Timeouts
<1>4. m \in Timeouts(Class)
  BY <1>2 DEF Timeouts
<1> HIDE DEF m
<1>5. m <= Highest(Class)
  BY <1>4, HighestLemma
<1>6. Highest(Class) \in Nat
  <2>1. Highest(Class) \in Timeouts(Class)
    BY HighestLemma
  <2> QED BY <2>1, TimesAreSeconds DEF Timeouts
<1>7. m + Runtime + 1 <= Longest
  BY <1>3, <1>5, <1>6, LongestLemma, TimesAreSeconds
<1>8. \A c \in Class : js[c].state # "none" => KillTimeout[c] <= m
  BY <1>2 DEF Timeouts
<1> QED BY <1>3, <1>7, <1>8 DEF m

\* An instance that is gone, and one that has just been made.
LEMMA NewInstances ==
  /\ NoInstance \in Instance /\ Started \in Instance
  /\ NoInstance.state = "none" /\ ~NoInstance.pid /\ NoInstance.goal = "stop"
  /\ NoInstance.kill = 0 /\ ~NoInstance.told
  /\ Started.state = "starting" /\ ~Started.pid /\ Started.goal = "start"
  /\ Started.kill = 0 /\ ~Started.told
BY DEF NoInstance, Started, Instance

\* What telling an instance to stop does to it.
LEMMA StopJobLemma ==
  ASSUME NEW c \in Class, NEW j \in Instance, NEW by \in BOOLEAN, NEW now \in Nat,
         Fine(c, j, now)
  PROVE  /\ StopJob(c, j, by) \in Instance
         /\ Fine(c, StopJob(c, j, by), now)
         /\ StopJob(c, j, by).pid = j.pid
         /\ StopJob(c, j, by).told => j.state # "none" /\ (j.told \/ by)
         /\ ~by /\ j.goal # "stop" => ~StopJob(c, j, by).told
<1>1. CASE j.goal = "stop"
  <2> DEFINE t == j.told \/ (by /\ j.state # "none")
  <2>1. t \in BOOLEAN
    OBVIOUS
  <2>2. t => j.state # "none" /\ (j.told \/ by)
    BY DEF Fine
  <2>3. StopJob(c, j, by) = [j EXCEPT !.told = t]
    BY <1>1 DEF StopJob
  <2> HIDE DEF t
  <2> QED BY <1>1, <2>1, <2>2, <2>3 DEF Instance, Fine
<1>2. CASE j.goal # "stop" /\ j.state = "running"
  <2> DEFINE st == IF j.pid /\ c \in PreStop THEN "pre_stop" ELSE "stopping"
  <2>1. st \in {"pre_stop", "stopping"} /\ (st = "pre_stop" => c \in Delayed)
    BY DEF Delayed
  <2>2. StopJob(c, j, by) = [j EXCEPT !.goal = "stop", !.told = by, !.state = st]
    BY <1>2 DEF StopJob
  <2> HIDE DEF st
  <2> QED BY <1>2, <2>1, <2>2 DEF Instance, Fine, Scripts
<1>3. CASE j.goal # "stop" /\ j.state # "running"
  <2>1. StopJob(c, j, by) = [j EXCEPT !.goal = "stop", !.told = by]
    BY <1>3 DEF StopJob
  <2> QED BY <1>3, <2>1 DEF Instance, Fine
<1> QED BY <1>1, <1>2, <1>3

\* What may become of an instance that was told to stop while the clock, the
\* phase and the loop stay: its kill timer runs, its stopping event or its
\* script ends, or it gets to its stopping event without a process.
Follows(c, i, j) ==
    /\ i.told /\ (j.pid => i.pid)
    /\ \/ j.state = i.state /\ j.kill \in {i.kill, 0}
       \/ i.state = "stopping" /\ j.state = "killed" /\ j.kill = time + KillTimeout[c]
       \/ j.state = "stopping" /\ (i.state \in Scripts \/ ~j.pid)

\* What a step may do to the instances while the clock, the phase and the loop
\* stay.
LEMMA JobStep ==
  ASSUME QuiesceInv,
         UNCHANGED <<quiesceVars, loop, exit, time, fault>>,
         job' \in [Class -> Instance],
         \A c \in Class : InstanceInv(c)',
         \A c \in Class : job'[c].told => Follows(c, job[c], job'[c])
  PROVE  QuiesceInv'
<1>1. TypeOK'
  BY DEF QuiesceInv, TypeOK, Instance, quiesceVars
<1>2. LoopInv' /\ TimerInv' /\ PhaseInv'
  BY DEF QuiesceInv, LoopInv, TimerInv, PhaseInv, quiesceVars
<1>3. KillInv'
  <2> SUFFICES ASSUME NEW c \in Class, job'[c].told
               PROVE  Waited(c)'
    BY DEF KillInv
  <2>1. Follows(c, job[c], job'[c])
    OBVIOUS
  <2>2. /\ quiesce_phase_time \in Nat /\ KillTimeout[c] \in Nat /\ time \in Nat
        /\ job[c].kill \in Nat /\ job'[c].kill \in Nat
    BY TimesAreSeconds, BoundsAreNumbers DEF QuiesceInv, LoopInv, TypeOK, Instance
  <2>3. Waited(c) /\ InstanceInv(c) /\ InstanceInv(c)'
    BY <2>1 DEF QuiesceInv, KillInv, Follows
  <2>4. /\ quiesce_phase' = quiesce_phase /\ max_kill_timeout' = max_kill_timeout
        /\ quiesce_phase_time' = quiesce_phase_time /\ time' = time /\ loop' = loop
    BY DEF quiesceVars
  <2>5. CASE job'[c].state = job[c].state /\ job'[c].kill \in {job[c].kill, 0}
    BY <2>1, <2>2, <2>3, <2>4, <2>5 DEF Follows, Waited, Settled
  <2>6. CASE job[c].state = "stopping" /\ job'[c].state = "killed"
             /\ job'[c].kill = time + KillTimeout[c]
    BY <2>1, <2>2, <2>3, <2>4, <2>6 DEF Follows, Waited, Settled
  <2>7. CASE job'[c].state = "stopping" /\ ~job'[c].pid
    BY <2>1, <2>3, <2>4, <2>7 DEF Follows, Waited
  <2>8. CASE job[c].state \in Scripts /\ job'[c].state = "stopping"
    <3>1. c \in Delayed
      BY <2>3, <2>8 DEF InstanceInv, Fine
    <3> QED BY <2>1, <2>2, <2>3, <2>4, <2>8, <3>1 DEF Follows, Waited, Settled
  <2> QED BY <2>1, <2>5, <2>6, <2>7, <2>8 DEF Follows
<1> QED BY <1>1, <1>2, <1>3 DEF QuiesceInv

\* What telling all instances to stop does to each.
LEMMA StopAllLemma ==
  ASSUME QuiesceInv
  PROVE  /\ job_process_stop_all(job) \in [Class -> Instance]
         /\ \A c \in Class :
              /\ Fine(c, job_process_stop_all(job)[c], time)
              /\ job_process_stop_all(job)[c].pid = job[c].pid
              /\ job_process_stop_all(job)[c].told => job[c].state # "none"
<1>1. time \in Nat /\ job \in [Class -> Instance]
  BY DEF QuiesceInv, LoopInv, TypeOK, Instance
<1>2. ASSUME NEW c \in Class
      PROVE  /\ job_process_stop_all(job)[c] \in Instance
             /\ Fine(c, job_process_stop_all(job)[c], time)
             /\ job_process_stop_all(job)[c].pid = job[c].pid
             /\ job_process_stop_all(job)[c].told => job[c].state # "none"
  <2>1. job_process_stop_all(job)[c] = StopJob(c, job[c], TRUE)
    BY DEF job_process_stop_all
  <2>2. job[c] \in Instance /\ Fine(c, job[c], time)
    BY <1>1 DEF QuiesceInv, InstanceInv
  <2> DEFINE P(k) == /\ k \in Instance /\ Fine(c, k, time) /\ k.pid = job[c].pid
                     /\ k.told => job[c].state # "none"
  <2>3. \A by \in BOOLEAN : P(StopJob(c, job[c], by))
    BY <2>2, <1>1, StopJobLemma
  <2> HIDE DEF P
  <2>4. P(StopJob(c, job[c], TRUE))
    BY <2>3, Zenon
  <2>5. P(job_process_stop_all(job)[c])
    BY <2>4, <2>1, Zenon
  <2> QED BY <2>5 DEF P
<1>3. job_process_stop_all(job) \in [Class -> Instance]
  BY <1>2 DEF job_process_stop_all
<1> QED BY <1>2, <1>3

-----------------------------------------------------------------------------
(* The steps                                                               *)

\* A session that is up keeps the invariant.
LEMMA InitHolds == Init => QuiesceInv
<1> SUFFICES ASSUME Init PROVE QuiesceInv
  OBVIOUS
<1>1. PICK up \in SUBSET Class :
        job = [c \in Class |-> IF c \in up
                               THEN [Started EXCEPT !.state = "running", !.pid = c \notin Abstract]
                               ELSE NoInstance]
  BY DEF Init
<1>2. /\ quiesce_phase = "not_quiesced"
      /\ quiesce_start_time = 0 /\ quiesce_phase_time = 0
      /\ max_kill_timeout = 0 /\ disable_respawn = FALSE /\ due = 0
      /\ loop = "input" /\ exit = FALSE /\ time = 1 /\ fault = "none"
  BY DEF Init
<1>3. \A c \in Class : job[c] \in Instance /\ InstanceInv(c) /\ ~job[c].told
  <2> SUFFICES ASSUME NEW c \in Class
               PROVE  job[c] \in Instance /\ InstanceInv(c) /\ ~job[c].told
    OBVIOUS
  <2>1. time = 1 /\ KillTimeout[c] \in Nat
    BY <1>2, TimesAreSeconds
  <2>2. CASE c \in up
    <3>1. job[c] = [Started EXCEPT !.state = "running", !.pid = c \notin Abstract]
      BY <1>1, <2>2
    <3> DEFINE b == c \notin Abstract
    <3>2. b \in BOOLEAN
      OBVIOUS
    <3> HIDE DEF b
    <3>3. /\ [Started EXCEPT !.state = "running", !.pid = b] \in Instance
          /\ [Started EXCEPT !.state = "running", !.pid = b].state = "running"
          /\ ~[Started EXCEPT !.state = "running", !.pid = b].told
          /\ [Started EXCEPT !.state = "running", !.pid = b].kill = 0
      BY <3>2, NewInstances DEF Instance
    <3>4. job[c] \in Instance /\ job[c].state = "running" /\ ~job[c].told /\ job[c].kill = 0
      BY <3>1, <3>3 DEF b
    <3>5. job[c].goal = "start"
      BY <3>1, NewInstances DEF Instance
    <3> QED BY <2>1, <3>4, <3>5 DEF InstanceInv, Fine, Scripts
  <2>3. CASE c \notin up
    <3>1. job[c] = NoInstance
      BY <1>1, <2>3
    <3> QED BY <2>1, <3>1, NewInstances DEF InstanceInv, Fine, Scripts
  <2> QED BY <2>2, <2>3
<1>4. TypeOK
  <2>1. job \in [Class -> Instance]
    BY <1>1, <1>3
  <2>2. disable_respawn \in BOOLEAN /\ exit \in BOOLEAN
    BY <1>2, Zenon
  <2>3. /\ 0 \in 0..MaxTime /\ 0 \in 0..(MaxTime + 1) /\ 0 \in Nat
    BY BoundsAreNumbers
  <2> QED BY <1>2, <2>1, <2>2, <2>3 DEF TypeOK, Instance
<1>5. LoopInv /\ TimerInv /\ PhaseInv
  BY <1>2, BoundsAreNumbers DEF LoopInv, TimerInv, PhaseInv
<1>6. KillInv
  BY <1>3 DEF KillInv
<1> QED BY <1>3, <1>4, <1>5, <1>6 DEF QuiesceInv

\* quiesce begins the wait phase or the kill phase, once.
LEMMA QuiesceKeeps ==
  ASSUME QuiesceInv, NEW r \in {"session", "system"}, Request, quiesce(r)
  PROVE  QuiesceInv'
<1>1. CASE quiesce_phase # "not_quiesced"
  <2>1. UNCHANGED <<quiesceVars, job, loop, exit, time, fault>>
    BY <1>1 DEF quiesce, Request
  <2>2. job \in [Class -> Instance] /\ \A c \in Class : InstanceInv(c)
    BY DEF QuiesceInv, TypeOK, Instance
  <2> QED BY <2>1, <2>2, JobStep DEF InstanceInv, Follows
<1>2. CASE quiesce_phase = "not_quiesced"
  <2> DEFINE wait == r = "session" /\ quiesce_event_match("session-end")
  <2>1. /\ quiesce_phase' = IF wait THEN "wait" ELSE "kill"
        /\ quiesce_start_time' = time
        /\ quiesce_phase_time' = time
        /\ max_kill_timeout' = IF wait THEN 0 ELSE job_class_max_kill_timeout(job)
        /\ job' = job_process_stop_all(job)
        /\ due' = time + 1
        /\ disable_respawn' = TRUE
        /\ loop = "input"
        /\ UNCHANGED <<loop, exit, time, fault>>
    BY <1>2 DEF quiesce, Request
  <2> HIDE DEF wait
  <2>2. time \in 1..MaxTime /\ job \in [Class -> Instance] /\ MaxTime \in Nat
        /\ ~exit /\ fault = "none"
    BY <1>2, BoundsAreNumbers DEF QuiesceInv, LoopInv, TypeOK, Instance
  <2>3. /\ job_class_max_kill_timeout(job) \in Nat
        /\ job_class_max_kill_timeout(job) + Runtime + 1 <= Longest
        /\ \A c \in Class : job[c].state # "none" =>
                KillTimeout[c] <= job_class_max_kill_timeout(job)
    BY <2>2, MaxKillLemma
  <2>4. /\ job' \in [Class -> Instance]
        /\ \A c \in Class : InstanceInv(c)' /\ (job'[c].told => job[c].state # "none")
    BY <2>1, StopAllLemma DEF InstanceInv
  <2>5. TypeOK'
    BY <2>1, <2>2, <2>3, <2>4 DEF QuiesceInv, TypeOK, Instance
  <2>6. LoopInv' /\ TimerInv'
    BY <2>1, <2>2 DEF LoopInv, TimerInv
  <2>7. PhaseInv'
    BY <2>1, <2>2, <2>3, LongestLemma, TimesAreSeconds DEF PhaseInv
  <2>8. KillInv'
    BY <2>1, <2>2, <2>3, <2>4 DEF KillInv, Waited, InstanceInv, Fine
  <2> QED BY <2>4, <2>5, <2>6, <2>7, <2>8 DEF QuiesceInv
<1> QED BY <1>1, <1>2

\* A step that touches neither the instances nor the shutdown.
LEMMA OthersKeep ==
  ASSUME QuiesceInv, UNCHANGED <<quiesceVars, job, loop, exit, time, fault>>
  PROVE  QuiesceInv'
<1>1. job \in [Class -> Instance] /\ \A c \in Class : InstanceInv(c)
  BY DEF QuiesceInv, TypeOK, Instance
<1> QED BY <1>1, JobStep DEF InstanceInv, Follows

\* A step of one instance.
LEMMA OneJobStep ==
  ASSUME QuiesceInv, NEW c \in Class, NEW j \in Instance,
         UNCHANGED <<quiesceVars, loop, exit, time, fault>>,
         job' = [job EXCEPT ![c] = j],
         Fine(c, j, time),
         j.told => Follows(c, job[c], j)
  PROVE  QuiesceInv'
<1>1. job \in [Class -> Instance] /\ \A d \in Class : InstanceInv(d)
  BY DEF QuiesceInv, TypeOK, Instance
<1>2. job' \in [Class -> Instance] /\ job'[c] = j /\ \A d \in Class \ {c} : job'[d] = job[d]
  BY <1>1
<1>3. \A d \in Class : InstanceInv(d)'
  <2> SUFFICES ASSUME NEW d \in Class PROVE InstanceInv(d)'
    OBVIOUS
  <2>0. time' = time
    OBVIOUS
  <2>1. CASE d = c
    BY <1>2, <2>0, <2>1 DEF InstanceInv
  <2>2. CASE d # c
    BY <1>1, <1>2, <2>0, <2>2 DEF InstanceInv
  <2> QED BY <2>1, <2>2
<1>4. \A d \in Class : job'[d].told => Follows(d, job[d], job'[d])
  <2> SUFFICES ASSUME NEW d \in Class, job'[d].told PROVE Follows(d, job[d], job'[d])
    OBVIOUS
  <2>1. CASE d = c
    BY <1>2, <2>1
  <2>2. CASE d # c
    BY <1>2, <2>2 DEF Follows
  <2> QED BY <2>1, <2>2
<1> QED BY <1>2, <1>3, <1>4, JobStep

\* The clock, and what every instance is.
LEMMA Known ==
  ASSUME QuiesceInv
  PROVE  /\ time \in Nat \ {0} /\ job \in [Class -> Instance]
         /\ \A c \in Class : InstanceInv(c) /\ KillTimeout[c] \in Nat
BY TimesAreSeconds DEF QuiesceInv, LoopInv, TypeOK, Instance

LEMMA StopRequestKeeps ==
  ASSUME QuiesceInv, NEW c \in Class, StopRequest(c)
  PROVE  QuiesceInv'
<1> DEFINE j == StopJob(c, job[c], FALSE)
<1>1. /\ job[c].goal # "stop" /\ job' = [job EXCEPT ![c] = j]
      /\ UNCHANGED <<quiesceVars, loop, exit, time, fault>>
  BY DEF StopRequest, Request
<1>2. time \in Nat /\ job[c] \in Instance /\ Fine(c, job[c], time)
  BY Known DEF InstanceInv
<1>3. j \in Instance /\ Fine(c, j, time) /\ ~j.told
  <2> DEFINE P(k, by) == k \in Instance /\ Fine(c, k, time) /\ (~by => ~k.told)
  <2>1. \A by \in BOOLEAN : P(StopJob(c, job[c], by), by)
    BY <1>1, <1>2, StopJobLemma
  <2> HIDE DEF P
  <2>2. P(j, FALSE)
    BY <2>1, Zenon
  <2> QED BY <2>2 DEF P
<1> HIDE DEF j
<1> QED BY <1>1, <1>3, OneJobStep

\* A step after which the instance is new or gone.
LEMMA AnewKeeps ==
  ASSUME QuiesceInv, NEW c \in Class, NEW again \in BOOLEAN,
         UNCHANGED <<quiesceVars, loop, exit, time, fault>>,
         job' = [job EXCEPT ![c] = IF again THEN Started ELSE NoInstance]
  PROVE  QuiesceInv'
<1> DEFINE j == IF again THEN Started ELSE NoInstance
<1>1. time \in Nat /\ KillTimeout[c] \in Nat
  BY Known
<1>2. /\ j \in Instance /\ ~j.told /\ ~j.pid /\ j.kill = 0
      /\ j.state \in {"none", "starting"}
      /\ j.state = "none" => j.goal = "stop"
  BY NewInstances
<1>3. job' = [job EXCEPT ![c] = j]
  OBVIOUS
<1> HIDE DEF j
<1>4. Fine(c, j, time)
  BY <1>1, <1>2 DEF Fine, Scripts
<1> QED BY <1>2, <1>3, <1>4, OneJobStep

\* A step that changes the process, the goal or the state of an instance and
\* leaves its kill timer.
LEMMA MovedKeeps ==
  ASSUME QuiesceInv, NEW c \in Class, NEW p \in BOOLEAN,
         NEW g \in {"start", "stop", "respawn"},
         NEW st \in {"running", "stopping"} \cup Scripts,
         UNCHANGED <<quiesceVars, loop, exit, time, fault>>,
         job' = [job EXCEPT ![c] = [job[c] EXCEPT !.pid = p, !.goal = g, !.state = st]],
         job[c].state \notin {"none", "killed"},
         st = "running" => g = "start",
         st \in Scripts => c \in Delayed,
         job[c].told => /\ g = "stop" /\ (p => job[c].pid)
                        /\ st # job[c].state => st = "stopping" /\ (job[c].state \in Scripts \/ ~p)
  PROVE  QuiesceInv'
<1> DEFINE j == [job[c] EXCEPT !.pid = p, !.goal = g, !.state = st]
<1>1. time \in Nat /\ job[c] \in Instance /\ Fine(c, job[c], time) /\ KillTimeout[c] \in Nat
  BY Known DEF InstanceInv
<1>2. /\ j \in Instance /\ j.pid = p /\ j.goal = g /\ j.state = st
      /\ j.told = job[c].told /\ j.kill = job[c].kill
  BY <1>1 DEF Instance
<1>3. job' = [job EXCEPT ![c] = j]
  OBVIOUS
<1> HIDE DEF j
<1>4. job[c].kill = 0
  BY <1>1 DEF Fine
<1>5. Fine(c, j, time)
  BY <1>1, <1>2, <1>4 DEF Fine, Scripts
<1>6. j.told => Follows(c, job[c], j)
  BY <1>1, <1>2, <1>4 DEF Follows
<1> QED BY <1>2, <1>3, <1>5, <1>6, OneJobStep

\* job_process_terminated, in each state that has a process.
LEMMA ProcessEndsKeeps ==
  ASSUME QuiesceInv, NEW c \in Class, ProcessEnds(c)
  PROVE  QuiesceInv'
<1>1. /\ UNCHANGED <<quiesceVars, loop, exit, time, fault>>
      /\ job \in [Class -> Instance] /\ Fine(c, job[c], time) /\ job[c] \in Instance
  BY Known DEF ProcessEnds, InstanceInv
<1>2. CASE /\ job[c].state = "killed"
           /\ job' = [job EXCEPT ![c] = IF job[c].goal = "start" THEN Started ELSE NoInstance]
  <2>1. \E again \in BOOLEAN : job' = [job EXCEPT ![c] = IF again THEN Started ELSE NoInstance]
    BY <1>2
  <2> QED BY <1>1, <2>1, AnewKeeps
<1>3. CASE job[c].state = "stopping" /\ job' = [job EXCEPT ![c].pid = FALSE]
  <2> DEFINE g == job[c].goal
  <2>1. g \in {"start", "stop", "respawn"} /\ (job[c].told => g = "stop")
    BY <1>1 DEF Instance, Fine
  <2>2. job' = [job EXCEPT ![c] = [job[c] EXCEPT !.pid = FALSE, !.goal = g, !.state = "stopping"]]
    BY <1>1, <1>3 DEF Instance
  <2> HIDE DEF g
  <2> QED BY <1>1, <1>3, <2>1, <2>2, MovedKeeps DEF Scripts
<1>4. ASSUME job[c].state = "running", NEW failed \in BOOLEAN,
             job' = [job EXCEPT ![c].pid = FALSE, ![c].state = "stopping",
                                ![c].goal = IF failed /\ Ends(c) THEN "start" ELSE "stop"]
      PROVE  QuiesceInv'
  <2> DEFINE g  == IF failed /\ Ends(c) THEN "start" ELSE "stop"
             st == "stopping"
  <2>1. g \in {"start", "stop", "respawn"} /\ ~job[c].told
    BY <1>1, <1>4 DEF Fine
  <2>2. job' = [job EXCEPT ![c] = [job[c] EXCEPT !.pid = FALSE, !.goal = g, !.state = st]]
    BY <1>1, <1>4 DEF Instance
  <2>3. /\ st \in {"running", "stopping"} \cup Scripts /\ st # "running" /\ st \notin Scripts
        /\ job[c].state \notin {"none", "killed"}
    BY <1>4 DEF Scripts
  <2> HIDE DEF g, st
  <2> QED BY <1>1, <2>1, <2>2, <2>3, MovedKeeps
<1>5. ASSUME job[c].state \in Scripts, NEW failed \in BOOLEAN,
             job' = [job EXCEPT ![c].pid = FALSE,
                                ![c].goal = IF failed /\ Ends(c) THEN "respawn" ELSE "stop"]
      PROVE  QuiesceInv'
  <2> DEFINE g  == IF failed /\ Ends(c) THEN "respawn" ELSE "stop"
             st == job[c].state
  <2>1. g \in {"start", "stop", "respawn"} /\ (job[c].told => g = "stop") /\ c \in Delayed
    BY <1>1, <1>5 DEF Fine, Ends
  <2>2. job' = [job EXCEPT ![c] = [job[c] EXCEPT !.pid = FALSE, !.goal = g, !.state = st]]
    BY <1>1, <1>5 DEF Instance
  <2>3. st \in Scripts /\ st \notin {"none", "killed", "running"} /\ st = job[c].state
    BY <1>5 DEF Scripts
  <2> HIDE DEF g, st
  <2> QED BY <1>1, <2>1, <2>2, <2>3, MovedKeeps
<1> QED BY <1>2, <1>3, <1>4, <1>5 DEF ProcessEnds

LEMMA ScriptEndsKeeps ==
  ASSUME QuiesceInv, NEW c \in Class, ScriptEnds(c)
  PROVE  QuiesceInv'
<1> DEFINE g  == IF job[c].goal = "respawn" THEN "start" ELSE job[c].goal
           st == IF job[c].goal = "start" THEN "running" ELSE "stopping"
           p  == job[c].pid
<1>1. /\ UNCHANGED <<quiesceVars, loop, exit, time, fault>>
      /\ job \in [Class -> Instance] /\ Fine(c, job[c], time) /\ job[c] \in Instance
      /\ job[c].state \in Scripts
  BY Known DEF ScriptEnds, InstanceInv
<1>2. /\ g \in {"start", "stop", "respawn"} /\ st \in {"running", "stopping"}
      /\ p \in BOOLEAN /\ (st = "running" => g = "start")
      /\ job[c].told => g = "stop" /\ st = "stopping"
      /\ p => job[c].pid
  BY <1>1 DEF Instance, Fine
<1>3. job' = [job EXCEPT ![c] = [job[c] EXCEPT !.pid = p, !.goal = g, !.state = st]]
  BY <1>1 DEF ScriptEnds, Instance
<1> HIDE DEF g, st, p
<1> QED BY <1>1, <1>2, <1>3, MovedKeeps DEF Scripts

LEMMA KillTimerKeeps ==
  ASSUME QuiesceInv, NEW c \in Class, job_process_kill_timer(c)
  PROVE  QuiesceInv'
<1> DEFINE j == [job[c] EXCEPT !.kill = 0]
<1>1. /\ job \in [Class -> Instance] /\ Fine(c, job[c], time) /\ job[c] \in Instance
      /\ time \in Nat /\ KillTimeout[c] \in Nat
  BY Known DEF InstanceInv
<1>2. /\ job' = [job EXCEPT ![c] = j]
      /\ UNCHANGED <<quiesceVars, loop, exit, time, fault>>
  BY <1>1 DEF job_process_kill_timer
<1>3. /\ j \in Instance /\ j.kill = 0
      /\ j.state = job[c].state /\ j.goal = job[c].goal
      /\ j.pid = job[c].pid /\ j.told = job[c].told
  BY <1>1 DEF Instance
<1> HIDE DEF j
<1>4. Fine(c, j, time)
  BY <1>1, <1>3 DEF Fine
<1>5. j.told => Follows(c, job[c], j)
  BY <1>1, <1>3 DEF Follows
<1> QED BY <1>2, <1>3, <1>4, <1>5, OneJobStep

LEMMA LeaveStartingKeeps ==
  ASSUME QuiesceInv, NEW c \in Class, LeaveStarting(c)
  PROVE  QuiesceInv'
<1>1. /\ job \in [Class -> Instance] /\ Fine(c, job[c], time) /\ job[c] \in Instance
      /\ UNCHANGED <<quiesceVars, loop, exit, time, fault>>
      /\ job[c].state = "starting"
  BY Known DEF LeaveStarting, InstanceInv
<1>2. CASE job[c].goal = "start"
  <2> DEFINE p  == c \notin Abstract
             st == IF c \in PostStart THEN "post_start" ELSE "running"
  <2>1. p \in BOOLEAN
    OBVIOUS
  <2>2. /\ st \in {"running", "stopping"} \cup Scripts
        /\ st \in Scripts => c \in Delayed
    BY DEF Delayed, Scripts
  <2>3. job' = [job EXCEPT ![c] = [job[c] EXCEPT !.pid = p, !.goal = "start", !.state = st]]
    BY <1>1, <1>2 DEF LeaveStarting, Instance
  <2>4. ~job[c].told
    BY <1>1, <1>2 DEF Fine
  <2> HIDE DEF p, st
  <2> QED BY <1>1, <2>1, <2>2, <2>3, <2>4, MovedKeeps
<1>3. CASE job[c].goal # "start"
  <2> DEFINE g  == job[c].goal
             st == "stopping"
  <2>1. g \in {"start", "stop", "respawn"} /\ (job[c].told => g = "stop") /\ ~job[c].pid
    BY <1>1 DEF Instance, Fine
  <2>2. job' = [job EXCEPT ![c] = [job[c] EXCEPT !.pid = FALSE, !.goal = g, !.state = st]]
    BY <1>1, <1>3, <2>1 DEF LeaveStarting, Instance
  <2>3. /\ st \in {"running", "stopping"} \cup Scripts /\ st # "running" /\ st \notin Scripts
        /\ st = "stopping" /\ job[c].state \notin {"none", "killed"}
    BY <1>1 DEF Scripts
  <2> HIDE DEF g, st
  <2> QED BY <1>1, <2>1, <2>2, <2>3, MovedKeeps
<1> QED BY <1>2, <1>3

\* job_process_kill, or the end of a job without process.
LEMMA LeaveStoppingKeeps ==
  ASSUME QuiesceInv, NEW c \in Class, LeaveStopping(c)
  PROVE  QuiesceInv'
<1>1. /\ job \in [Class -> Instance] /\ Fine(c, job[c], time) /\ job[c] \in Instance
      /\ UNCHANGED <<quiesceVars, loop, exit, time, fault>>
      /\ job[c].state = "stopping" /\ time \in Nat /\ KillTimeout[c] \in Nat
  BY Known DEF LeaveStopping, InstanceInv
<1>2. CASE job[c].pid
  <2> DEFINE k == time + KillTimeout[c]
             j == [job[c] EXCEPT !.state = "killed", !.kill = k]
  <2>1. k \in Nat /\ k <= time + KillTimeout[c]
    BY <1>1
  <2>2. job' = [job EXCEPT ![c] = j]
    BY <1>1, <1>2 DEF LeaveStopping
  <2>3. k = time + KillTimeout[c]
    OBVIOUS
  <2> HIDE DEF k
  <2>4. /\ j \in Instance /\ j.kill = k /\ j.state = "killed" /\ j.goal = job[c].goal
        /\ j.pid = job[c].pid /\ j.told = job[c].told
    BY <1>1, <2>1 DEF Instance
  <2> HIDE DEF j
  <2>5. Fine(c, j, time)
    BY <1>1, <2>1, <2>4 DEF Fine, Scripts
  <2>6. j.told => Follows(c, job[c], j)
    BY <1>1, <2>3, <2>4 DEF Follows
  <2> QED BY <1>1, <2>2, <2>4, <2>5, <2>6, OneJobStep
<1>3. CASE ~job[c].pid
  <2>1. job' = [job EXCEPT ![c] = IF job[c].goal = "start" THEN Started ELSE NoInstance]
    BY <1>3 DEF LeaveStopping
  <2>2. \E again \in BOOLEAN : job' = [job EXCEPT ![c] = IF again THEN Started ELSE NoInstance]
    BY <2>1
  <2> QED BY <1>1, <2>2, AnewKeeps
<1> QED BY <1>2, <1>3

\* Time passes only when no timer is due.
LEMMA TickKeeps ==
  ASSUME QuiesceInv, Tick
  PROVE  QuiesceInv'
<1>1. /\ loop = "input" /\ time < MaxTime /\ ~DueTimer /\ time' = time + 1
      /\ UNCHANGED <<quiesceVars, job, loop, exit, fault>>
  BY DEF Tick
<1>2. time \in Nat \ {0} /\ MaxTime \in Nat /\ due \in Nat
  BY Known, BoundsAreNumbers DEF QuiesceInv, TypeOK
<1>3. ~exit /\ quiesce_phase # "cleanup"
  BY <1>1 DEF QuiesceInv, LoopInv
<1>4. quiesce_phase \in {"wait", "kill"} => due = time + 1
  BY <1>1, <1>2 DEF QuiesceInv, TimerInv, DueTimer
<1>5. TypeOK'
  BY <1>1 DEF QuiesceInv, TypeOK, quiesceVars
<1>6. LoopInv'
  BY <1>1, <1>2, <1>3 DEF QuiesceInv, LoopInv, TypeOK, quiesceVars
<1>7. TimerInv'
  BY <1>1, <1>2, <1>3, <1>4 DEF TimerInv, quiesceVars
<1>8. PhaseInv'
  <2>1. /\ quiesce_phase_time \in Nat /\ quiesce_start_time \in Nat
        /\ max_kill_timeout \in Nat /\ Runtime \in Nat
    BY TimesAreSeconds, BoundsAreNumbers DEF QuiesceInv, TypeOK
  <2>2. PhaseInv
    BY DEF QuiesceInv
  <2>3. Longest' = Longest
    BY DEF Longest
  <2> QED BY <1>1, <1>2, <1>3, <1>4, <2>1, <2>2, <2>3 DEF PhaseInv, quiesceVars
<1>9. KillInv'
  <2> SUFFICES ASSUME NEW c \in Class, job[c].told PROVE Waited(c)'
    BY <1>1 DEF KillInv
  <2>1. Waited(c)
    BY DEF QuiesceInv, KillInv
  <2>2. c \notin Delayed => job[c].state # "stopping"
    BY DEF Tick, Pending, Delayed
  <2> QED BY <1>1, <1>3, <2>1, <2>2 DEF Waited, quiesceVars
<1>10. \A c \in Class : InstanceInv(c)'
  <2> SUFFICES ASSUME NEW c \in Class PROVE InstanceInv(c)'
    OBVIOUS
  <2>1. InstanceInv(c) /\ KillTimeout[c] \in Nat /\ job[c].kill \in Nat
    BY Known DEF Instance
  <2> QED BY <1>1, <1>2, <2>1 DEF InstanceInv, Fine
<1> QED BY <1>5, <1>6, <1>7, <1>8, <1>9, <1>10 DEF QuiesceInv

\* The main loop goes from input to timers, from timers to events and on.
LEMMA LoopKeeps ==
  ASSUME QuiesceInv, ServeTimers \/ ServeEvents \/ EndOfLoop
  PROVE  QuiesceInv'
<1>1. /\ UNCHANGED <<quiesceVars, job, exit, time, fault>>
      /\ loop' \in {"input", "timers", "events", "ended"}
      /\ loop' = "events" => loop = "timers" /\ ~DueTimer /\ DueKill = {}
      /\ loop' = "timers" => loop = "input"
      /\ loop' = "input" => ~exit
      /\ loop' = "ended" => exit
      /\ loop' \in {"input", "ended"} => loop = "events"
  BY DEF ServeTimers, ServeEvents, EndOfLoop
<1>2. /\ time \in Nat \ {0} /\ due \in Nat /\ job \in [Class -> Instance]
      /\ exit <=> quiesce_phase = "cleanup"
      /\ exit => loop # "input"
  BY Known, BoundsAreNumbers DEF QuiesceInv, LoopInv, TypeOK
<1>3. TypeOK'
  BY <1>1 DEF QuiesceInv, TypeOK, quiesceVars
<1>4. LoopInv'
  BY <1>1, <1>2 DEF QuiesceInv, LoopInv, quiesceVars
<1>5. TimerInv'
  <2>1. TimerInv
    BY DEF QuiesceInv
  <2>2. loop' = "events" /\ quiesce_phase \in {"wait", "kill"} => due = time + 1
    BY <1>1, <1>2, <2>1 DEF TimerInv, DueTimer
  <2> QED BY <1>1, <1>2, <2>1, <2>2 DEF TimerInv, quiesceVars
<1>6. PhaseInv'
  BY <1>1 DEF QuiesceInv, PhaseInv, quiesceVars
<1>7. KillInv'
  <2> SUFFICES ASSUME NEW c \in Class, job[c].told PROVE Waited(c)'
    BY <1>1 DEF KillInv
  <2>1. Waited(c)
    BY DEF QuiesceInv, KillInv
  <2>2. /\ quiesce_phase' = quiesce_phase /\ max_kill_timeout' = max_kill_timeout
        /\ quiesce_phase_time' = quiesce_phase_time /\ time' = time /\ job' = job
    BY <1>1 DEF quiesceVars
  <2>3. ASSUME quiesce_phase = "cleanup", job[c].pid
        PROVE  Settled(c)'
    <3>1. Settled(c)
      BY <2>1, <2>3 DEF Waited
    <3>2. loop = "timers" => loop' = "events" /\ c \notin DueKill
      BY <1>1
    <3> QED BY <2>2, <3>1, <3>2 DEF Settled, DueKill
  <2> QED BY <2>1, <2>2, <2>3 DEF Waited
<1>8. \A c \in Class : InstanceInv(c)'
  BY <1>1 DEF QuiesceInv, InstanceInv
<1> QED BY <1>3, <1>4, <1>5, <1>6, <1>7, <1>8 DEF QuiesceInv

\* quiesce_wait_callback: the timer runs in the wait phase and the kill phase
\* only, and ends a phase no later than it may.
LEMMA TimerKeeps ==
  ASSUME QuiesceInv, Timer
  PROVE  QuiesceInv'
<1> DEFINE since == time - quiesce_phase_time
           running == job_process_jobs_running(job)
           m == job_class_max_kill_timeout(job)
<1>1. /\ loop = "timers" /\ due # 0 /\ due <= time
      /\ UNCHANGED <<quiesce_start_time, disable_respawn, loop, time>>
  BY DEF Timer, DueTimer, quiesce_wait_callback
<1>2. /\ time \in 1..MaxTime /\ MaxTime \in Nat
      /\ quiesce_phase_time \in Nat /\ quiesce_start_time \in Nat
      /\ max_kill_timeout \in Nat /\ Runtime \in Nat /\ Longest \in Nat
      /\ job \in [Class -> Instance]
  BY TimesAreSeconds, BoundsAreNumbers, LongestLemma DEF QuiesceInv, LoopInv, TypeOK, Instance
<1>3. /\ quiesce_phase \in {"wait", "kill"} /\ ~exit /\ fault = "none"
      /\ quiesce_start_time \in 1..time
      /\ quiesce_phase_time \in quiesce_start_time..time
  BY <1>1 DEF QuiesceInv, LoopInv, TimerInv, TypeOK
<1>4. PhaseInv /\ KillInv /\ (\A c \in Class : InstanceInv(c))
  BY DEF QuiesceInv
<1>5. /\ m \in Nat
      /\ m + Runtime + 1 <= Longest
      /\ \A c \in Class : job[c].state # "none" => KillTimeout[c] <= m
  BY <1>2, MaxKillLemma
<1>6. disable_respawn \in BOOLEAN
  BY DEF QuiesceInv, TypeOK
<1> HIDE DEF m
<1>7. CASE /\ quiesce_phase = "kill"
           /\ since > max_kill_timeout \/ ~running
           /\ Finish
           /\ UNCHANGED <<quiesce_phase_time, max_kill_timeout, job, fault>>
  <2>1. quiesce_phase' = "cleanup" /\ exit' = TRUE /\ due' = 0
    BY <1>7 DEF Finish
  <2>2. TypeOK'
    <3>1. exit' \in BOOLEAN
      BY <2>1, Zenon
    <3> QED BY <1>1, <1>2, <1>6, <1>7, <2>1, <3>1 DEF QuiesceInv, TypeOK
  <2>3. LoopInv' /\ TimerInv'
    BY <1>1, <1>2, <1>3, <1>7, <2>1 DEF LoopInv, TimerInv
  <2>4. PhaseInv'
    <3>1. Longest' = Longest
      BY DEF Longest
    <3> QED BY <1>1, <1>2, <1>4, <1>7, <2>1, <3>1 DEF PhaseInv
  <2>5. KillInv'
    <3> SUFFICES ASSUME NEW c \in Class, job[c].told, job[c].pid
                 PROVE  quiesce_phase_time < time /\ Settled(c)'
      BY <1>1, <1>7, <2>1 DEF KillInv, Waited
    <3>1. running
      BY DEF job_process_jobs_running
    <3>2. Waited(c) /\ Fine(c, job[c], time)
      BY <1>4 DEF KillInv, InstanceInv
    <3>3. /\ job[c].kill \in Nat /\ KillTimeout[c] \in Nat /\ job[c] \in Instance
          /\ KillTimeout[c] <= max_kill_timeout
      BY <1>2, <1>7, <3>2, TimesAreSeconds DEF Instance, Waited
    <3>4. time > quiesce_phase_time + KillTimeout[c] /\ quiesce_phase_time < time
      BY <1>2, <1>7, <3>1, <3>3
    <3>5. job[c].state = "killed" \/ c \in Delayed
      BY <1>2, <1>7, <3>2, <3>3, <3>4 DEF Waited, Fine, Instance
    <3>6. job[c].kill <= time \/ (c \in Delayed /\ job[c].kill > quiesce_phase_time + KillTimeout[c])
      BY <1>2, <1>7, <3>2, <3>3, <3>4 DEF Waited
    <3> QED BY <1>1, <1>7, <3>4, <3>5, <3>6 DEF Settled
  <2>6. \A c \in Class : InstanceInv(c)'
    BY <1>1, <1>4, <1>7 DEF InstanceInv
  <2> QED BY <2>2, <2>3, <2>4, <2>5, <2>6 DEF QuiesceInv
<1>8. CASE /\ quiesce_phase = "kill"
           /\ since <= max_kill_timeout
           /\ Again
           /\ UNCHANGED <<quiesce_phase, quiesce_phase_time, max_kill_timeout, job, fault>>
  <2>1. due' = time + 1 /\ exit' = exit
    BY <1>8 DEF Again
  <2>2. TypeOK'
    BY <1>1, <1>2, <1>6, <1>8, <2>1 DEF QuiesceInv, TypeOK
  <2>3. LoopInv' /\ TimerInv'
    BY <1>1, <1>2, <1>3, <1>8, <2>1 DEF LoopInv, TimerInv
  <2>4. PhaseInv'
    <3>1. Longest' = Longest
      BY DEF Longest
    <3> QED BY <1>1, <1>2, <1>4, <1>8, <2>1, <3>1 DEF PhaseInv
  <2>5. KillInv' /\ \A c \in Class : InstanceInv(c)'
    BY <1>1, <1>4, <1>8 DEF KillInv, Waited, InstanceInv
  <2> QED BY <2>2, <2>3, <2>4, <2>5 DEF QuiesceInv
<1>9. CASE /\ quiesce_phase = "wait"
           /\ since < Runtime
           /\ Again
           /\ UNCHANGED <<quiesce_phase, quiesce_phase_time, max_kill_timeout, job, fault>>
  <2>1. due' = time + 1 /\ exit' = exit
    BY <1>9 DEF Again
  <2>2. TypeOK'
    BY <1>1, <1>2, <1>6, <1>9, <2>1 DEF QuiesceInv, TypeOK
  <2>3. LoopInv' /\ TimerInv'
    BY <1>1, <1>2, <1>3, <1>9, <2>1 DEF LoopInv, TimerInv
  <2>4. PhaseInv'
    BY <1>1, <1>2, <1>4, <1>9, <2>1 DEF PhaseInv
  <2>5. KillInv' /\ \A c \in Class : InstanceInv(c)'
    BY <1>1, <1>4, <1>9 DEF KillInv, Waited, InstanceInv
  <2> QED BY <2>2, <2>3, <2>4, <2>5 DEF QuiesceInv
<1>10. CASE /\ quiesce_phase = "wait"
            /\ since >= Runtime
            /\ KillPhase /\ Again
            /\ UNCHANGED fault
  <2>1. /\ due' = time + 1 /\ exit' = exit
        /\ quiesce_phase' = "kill" /\ quiesce_phase_time' = time
        /\ max_kill_timeout' = m /\ job' = job_process_stop_all(job)
    BY <1>10 DEF Again, KillPhase, m
  <2>2. /\ job' \in [Class -> Instance]
        /\ \A c \in Class : InstanceInv(c)' /\ (job'[c].told => job[c].state # "none")
    BY <1>1, <2>1, StopAllLemma DEF InstanceInv
  <2>3. TypeOK'
    BY <1>1, <1>2, <1>5, <1>6, <1>10, <2>1, <2>2 DEF QuiesceInv, TypeOK, Instance
  <2>4. LoopInv' /\ TimerInv'
    BY <1>1, <1>2, <1>3, <1>10, <2>1 DEF LoopInv, TimerInv
  <2>5. PhaseInv'
    <3>1. Longest' = Longest
      BY DEF Longest
    <3> QED BY <1>1, <1>2, <1>4, <1>5, <1>10, <2>1, <3>1 DEF PhaseInv
  <2>6. KillInv'
    BY <1>1, <1>5, <2>1, <2>2 DEF KillInv, Waited, InstanceInv, Fine
  <2> QED BY <2>2, <2>3, <2>4, <2>5, <2>6 DEF QuiesceInv
<1>11. CASE /\ quiesce_phase = "wait"
            /\ ~running
            /\ quiesce_phase_time' = time
            /\ max_kill_timeout' = m
            /\ job' = job_process_stop_all(job)
            /\ Finish
            /\ UNCHANGED fault
  <2>1. quiesce_phase' = "cleanup" /\ exit' = TRUE /\ due' = 0
    BY <1>11 DEF Finish
  <2>2. /\ job' \in [Class -> Instance]
        /\ \A c \in Class : InstanceInv(c)' /\ job'[c].pid = job[c].pid
    BY <1>1, <1>11, StopAllLemma DEF InstanceInv
  <2>3. TypeOK'
    <3>1. exit' \in BOOLEAN
      BY <2>1, Zenon
    <3> QED BY <1>1, <1>2, <1>5, <1>6, <1>11, <2>1, <2>2, <3>1 DEF QuiesceInv, TypeOK, Instance
  <2>4. LoopInv' /\ TimerInv'
    BY <1>1, <1>2, <1>3, <1>11, <2>1 DEF LoopInv, TimerInv
  <2>5. PhaseInv'
    <3>1. Longest' = Longest
      BY DEF Longest
    <3> QED BY <1>1, <1>2, <1>4, <1>5, <1>11, <2>1, <3>1 DEF PhaseInv
  <2>6. KillInv'
    <3>1. \A c \in Class : ~job'[c].pid
      BY <1>11, <2>2 DEF job_process_jobs_running
    <3> QED BY <2>1, <3>1 DEF KillInv, Waited
  <2> QED BY <2>2, <2>3, <2>4, <2>5, <2>6 DEF QuiesceInv
<1>12. since \in Int
  BY <1>2
<1> QED BY <1>2, <1>3, <1>7, <1>8, <1>9, <1>10, <1>11, <1>12
        DEF Timer, quiesce_wait_callback, m

\* event_pending_handle_jobs: whoever is started by it is no longer told to
\* stop; the last instance that has gone ends the session.
LEMMA HandleJobsKeeps ==
  ASSUME QuiesceInv, event_pending_handle_jobs
  PROVE  QuiesceInv'
<1> DEFINE wanted == {c \in Class : Head(events) \in StartOn[c] /\ job[c].goal # "start"}
           new == {c \in wanted : job[c].state = "none"}
           over == quiesce_phase # "not_quiesced" /\ \A c \in Class : job'[c].state = "none"
<1>1. /\ loop = "events"
      /\ job' = [c \in Class |->
                    CASE c \in new -> Started
                      [] c \in wanted \ new -> [job[c] EXCEPT !.goal = "start", !.told = FALSE]
                      [] OTHER -> job[c]]
      /\ IF over THEN quiesce_complete ELSE UNCHANGED <<quiesce_phase, exit>>
      /\ UNCHANGED <<quiesce_start_time, quiesce_phase_time, max_kill_timeout,
                     disable_respawn, due, loop, time, fault>>
  BY DEF event_pending_handle_jobs
<1>2. /\ time \in Nat \ {0} /\ job \in [Class -> Instance]
      /\ \A c \in Class : InstanceInv(c) /\ KillTimeout[c] \in Nat
  BY Known
<1>3. ASSUME NEW c \in Class
      PROVE  /\ job'[c] \in Instance
             /\ InstanceInv(c)'
             /\ job'[c].told => job'[c] = job[c]
  <2>1. InstanceInv(c) /\ job[c] \in Instance /\ KillTimeout[c] \in Nat
    BY <1>2
  <2>2. CASE c \in new
    <3>1. job'[c] = Started
      BY <1>1, <2>2
    <3>2. /\ job'[c] \in Instance /\ job'[c].state = "starting"
          /\ ~job'[c].told /\ job'[c].kill = 0
      BY <3>1, NewInstances
    <3>3. time' = time
      BY <1>1
    <3>4. job'[c].kill <= time' + KillTimeout[c] /\ ~job'[c].pid
      BY <1>2, <2>1, <3>1, <3>2, <3>3, NewInstances
    <3> QED BY <3>2, <3>4 DEF InstanceInv, Fine, Scripts
  <2>3. CASE c \in wanted \ new
    <3>1. job'[c] = [job[c] EXCEPT !.goal = "start", !.told = FALSE]
      BY <1>1, <2>3
    <3>2. /\ job'[c] \in Instance /\ ~job'[c].told /\ job'[c].goal = "start"
          /\ job'[c].state = job[c].state /\ job'[c].kill = job[c].kill
          /\ job'[c].pid = job[c].pid
      BY <2>1, <3>1 DEF Instance
    <3>3. job[c].state # "none"
      BY <2>3
    <3> QED BY <1>1, <2>1, <3>2, <3>3 DEF InstanceInv, Fine
  <2>4. CASE c \notin wanted
    <3>1. job'[c] = job[c]
      BY <1>1, <2>4
    <3> QED BY <1>1, <2>1, <3>1 DEF InstanceInv
  <2> QED BY <2>2, <2>3, <2>4
<1> HIDE DEF wanted, new
<1>4. job' \in [Class -> Instance] /\ \A c \in Class : InstanceInv(c)'
  BY <1>1, <1>3
<1>5. CASE over
  <2>1. /\ quiesce_phase' = "cleanup" /\ exit' = TRUE
        /\ quiesce_phase # "not_quiesced"
        /\ \A c \in Class : ~job'[c].told
    BY <1>1, <1>4, <1>5 DEF quiesce_complete, InstanceInv, Fine
  <2>2. TypeOK'
    <3>1. exit' \in BOOLEAN
      BY <2>1, Zenon
    <3> QED BY <1>1, <1>4, <2>1, <3>1 DEF QuiesceInv, TypeOK, Instance
  <2>3. LoopInv' /\ TimerInv'
    BY <1>1, <2>1 DEF QuiesceInv, LoopInv, TimerInv
  <2>4. PhaseInv'
    <3>1. Longest' = Longest /\ Longest \in Nat /\ Longest >= Runtime
      <4>1. Longest' = Longest /\ Longest \in Nat
        BY LongestLemma DEF Longest
      <4>2. job_class_max_kill_timeout(job) \in Nat
            /\ job_class_max_kill_timeout(job) + Runtime + 1 <= Longest
        BY <1>2, MaxKillLemma
      <4> QED BY <4>1, <4>2, TimesAreSeconds
    <3>2. /\ quiesce_phase_time \in Nat /\ quiesce_start_time \in Nat
          /\ max_kill_timeout \in Nat /\ Runtime \in Nat /\ time \in Nat
          /\ quiesce_phase \in {"wait", "kill", "cleanup"}
      BY <1>2, <2>1, TimesAreSeconds, BoundsAreNumbers DEF QuiesceInv, TypeOK
    <3>3. PhaseInv
      BY DEF QuiesceInv
    <3>4. time - quiesce_start_time <= Longest
      BY <3>1, <3>2, <3>3 DEF PhaseInv
    <3>5. time' - quiesce_start_time' <= Longest'
      BY <1>1, <3>1, <3>4
    <3> QED BY <2>1, <3>5 DEF PhaseInv
  <2>5. KillInv'
    BY <2>1 DEF KillInv
  <2> QED BY <1>4, <2>2, <2>3, <2>4, <2>5 DEF QuiesceInv
<1>6. CASE ~over
  <2>1. UNCHANGED <<quiesceVars, loop, exit, time, fault>>
    BY <1>1, <1>6 DEF quiesceVars
  <2>2. \A c \in Class : job'[c].told => Follows(c, job[c], job'[c])
    BY <1>3 DEF Follows
  <2> QED BY <1>4, <2>1, <2>2, JobStep
<1> QED BY <1>5, <1>6

-----------------------------------------------------------------------------
(* The theorems                                                            *)

\* Every step keeps the invariant.
LEMMA NextKeeps ==
  ASSUME QuiesceInv, [Next]_vars
  PROVE  QuiesceInv'
<1>1. CASE control_end_session
  BY <1>1, QuiesceKeeps DEF control_end_session
<1>2. CASE term_handler
  BY <1>2, QuiesceKeeps DEF term_handler
<1>3. CASE EmitEvent
  BY <1>3, OthersKeep DEF EmitEvent, Request
<1>4. CASE \E c \in Class : StopRequest(c) \/ ProcessEnds(c) \/ ScriptEnds(c)
  BY <1>4, StopRequestKeeps, ProcessEndsKeeps, ScriptEndsKeeps
<1>5. CASE Tick
  BY <1>5, TickKeeps
<1>6. CASE Loop
  <2>1. CASE ServeTimers \/ ServeEvents \/ EndOfLoop
    BY <2>1, LoopKeeps
  <2>2. CASE Timer
    BY <2>2, TimerKeeps
  <2>3. CASE event_pending_handle_jobs
    BY <2>3, HandleJobsKeeps
  <2>4. CASE \E c \in Class :
                job_process_kill_timer(c) \/ LeaveStarting(c) \/ LeaveStopping(c)
    BY <2>4, KillTimerKeeps, LeaveStartingKeeps, LeaveStoppingKeeps
  <2> QED BY <1>6, <2>1, <2>2, <2>3, <2>4 DEF Loop
<1>7. CASE Rest \/ UNCHANGED vars
  <2>1. UNCHANGED <<quiesceVars, job, loop, exit, time, fault>>
    BY <1>7 DEF Rest, vars
  <2> QED BY <2>1, OthersKeep
<1> QED BY <1>1, <1>2, <1>3, <1>4, <1>5, <1>6, <1>7 DEF Next

\* What the invariant says of the session: no timer that runs too late, an end
\* in time, and nobody abandoned (quiesce_wait_callback, quiesce_complete).
LEMMA InvEndsWell == QuiesceInv => EndsWell
<1> SUFFICES ASSUME QuiesceInv PROVE EndsWell
  OBVIOUS
<1>1. TypeOK /\ NoLateTimer
  BY DEF QuiesceInv, LoopInv, NoLateTimer
<1>2. EndsInTime
  <2> SUFFICES ASSUME quiesce_start_time # 0 PROVE time - quiesce_start_time <= Longest
    BY DEF EndsInTime
  <2>1. /\ quiesce_phase_time \in Nat /\ quiesce_start_time \in Nat
        /\ max_kill_timeout \in Nat /\ Runtime \in Nat /\ time \in Nat /\ Longest \in Nat
        /\ quiesce_phase \in {"wait", "kill", "cleanup"}
    BY Known, LongestLemma, TimesAreSeconds, BoundsAreNumbers DEF QuiesceInv, TypeOK, LoopInv
  <2>2. Longest >= Runtime
    <3>1. Highest(Class) \in Nat
      <4>1. Highest(Class) \in Timeouts(Class)
        BY HighestLemma
      <4> QED BY <4>1, TimesAreSeconds DEF Timeouts
    <3> QED BY <2>1, <3>1, LongestLemma
  <2>3. PhaseInv
    BY DEF QuiesceInv
  <2> QED BY <2>1, <2>2, <2>3 DEF PhaseInv
<1>3. NotAbandoned
  <2> SUFFICES ASSUME loop = "ended", NEW c \in Class, job[c].told, job[c].pid
               PROVE  Settled(c)
    BY DEF NotAbandoned, Settled
  <2>1. quiesce_phase = "cleanup"
    BY DEF QuiesceInv, LoopInv
  <2> QED BY <2>1 DEF QuiesceInv, KillInv, Waited
<1> QED BY <1>1, <1>2, <1>3 DEF EndsWell

\* The invariant holds in every session, whatever its classes, their scripts
\* and their timeouts of a second or more are.
THEOREM Inductive == Spec => []QuiesceInv
<1>1. Init => QuiesceInv
  BY InitHolds
<1>2. QuiesceInv /\ [Next]_vars => QuiesceInv'
  BY NextKeeps
<1> QED BY <1>1, <1>2, PTL DEF Spec

\* A session ends neither too late nor too early: within the time that
\* quiesce_wait_callback allows, and not before the main processes that were
\* told to stop have ended or have been killed, except those of jobs that a
\* post-start or pre-stop script or a held stopping event kept from being
\* signalled; the timer of the shutdown finds no phase it does not expect.
THEOREM SessionEndsWell == Spec => []EndsWell
BY Inductive, InvEndsWell, PTL
=============================================================================
