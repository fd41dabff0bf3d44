-------------------------- MODULE JobProcessProofs --------------------------
(***************************************************************************)
(* The daemon follows a program with `expect fork' or `expect daemon' to   *)
(* the process it is to supervise, however the stops of the processes, the *)
(* end of the set-up, deaths and a stop command interleave: FollowsForks   *)
(* holds for every class and any number of processes.                      *)
(*                                                                         *)
(* The set-up of the child and its descriptors play no part in this; all   *)
(* that matters is the job and the processes it may hold by ptrace.        *)
(***************************************************************************)
EXTENDS JobProcess, TLAPS

-----------------------------------------------------------------------------
(* The invariant                                                           *)

Pids == 1..MaxProc

ProcStates == {"none", "setup", "born", "running", "stopped", "dead", "spinning"}

Stops == {"none", "SIGSTOP", "SIGTRAP", "signal", "PTRACE_EVENT_FORK",
          "PTRACE_EVENT_EXEC"}

Proc == [state : ProcStates, stop : Stops, noted : BOOLEAN, attached : BOOLEAN,
         options : BOOLEAN, parent : 0..MaxProc, executed : BOOLEAN]

Procs == [Pids -> Proc]

JobFields == {"state", "pid", "trace_state", "trace_forks", "told", "retries"}

JobOK(j) ==
    /\ DOMAIN j = JobFields
    /\ j.state \in {"spawning", "spawned", "security", "running", "failed",
                    "killed", "terminated"}
    /\ j.trace_state \in {"none", "new", "new_child", "normal"}
    /\ j.pid \in 0..MaxProc
    /\ j.trace_forks \in Nat

\* A class whose main process is followed through its forks.
Follow(k) == k.process = "main" /\ k.expect \in {"fork", "daemon"}

\* The processes are a tree that grows at its leaves.
Tree(q) ==
    /\ q \in Procs
    /\ q[1].parent = 0
    /\ \A p \in Pids : q[p].state = "none" =>
            /\ ~q[p].attached /\ ~q[p].options /\ ~q[p].executed
            /\ q[p].parent = 0 /\ q[p].stop = "none"
    /\ \A p \in Pids : q[p].parent # 0 => q[q[p].parent].state # "none"
    /\ \A p \in Pids : q[p].state = "setup" => p = 1 /\ ~q[p].executed

\* A process that stops for the daemon, now or when it forks.
Held(q, p) == q[p].attached \/ (q[p].options /\ q[p].state # "dead")

Childless(q, p) == \A c \in Pids : q[c].parent # p

\* A process that is traced from birth and has not yet run.
Newborn(q, c) ==
    /\ q[c].state \in {"born", "stopped"} /\ q[c].stop \in {"none", "SIGSTOP"}
    /\ q[c].attached /\ Childless(q, c)

\* What p has just forked under trace is its only child.
Delivered(q, p) ==
    \E c \in Pids : /\ q[c].parent = p /\ Newborn(q, c)
                    /\ \A d \in Pids : q[d].parent = p => d = c

\* The first process, until the daemon has heard of its exec.
IsNew(j, q) ==
    /\ j.trace_state = "new" /\ j.pid = 1 /\ j.trace_forks = 0
    /\ \A p \in Pids \ {1} : q[p].state = "none"
    /\ q[1].state \in {"setup", "stopped", "dead", "spinning"}
    /\ q[1].stop \in {"none", "SIGSTOP", "SIGTRAP"}
    /\ q[1].stop = "SIGTRAP" => q[1].executed

\* A process that is let run until it forks, executes or ends; its depth is the
\* number of forks counted.
IsNormal(k, j, q) ==
    /\ j.trace_state = "normal"
    /\ q[j.pid].state \in {"running", "stopped", "dead"}
    /\ q[j.pid].state # "dead" =>
            /\ q[j.pid].options
            /\ q[j.pid].stop # "PTRACE_EVENT_FORK" => Childless(q, j.pid)
    /\ q[j.pid].stop = "PTRACE_EVENT_EXEC" => q[j.pid].executed
    /\ \/ j.trace_forks = 0 /\ j.pid = 1
       \/ j.trace_forks = 1 /\ q[j.pid].parent = 1 /\ k.expect = "daemon"

\* A new process of which the first stop has not been handled; its own fork is not
\* yet counted.
IsNewChild(k, j, q) ==
    /\ j.trace_state = "new_child"
    /\ q[j.pid].state = "dead" \/ Newborn(q, j.pid)
    /\ q[j.pid].stop \in {"none", "SIGSTOP"}
    /\ \/ j.trace_forks = 0 /\ q[j.pid].parent = 1
       \/ /\ j.trace_forks = 1 /\ k.expect = "daemon"
          /\ \E p \in Pids : q[j.pid].parent = p /\ q[p].parent = 1

\* The process that the expect stanza asks for.
FollowedFar(k, q, p) ==
    IF k.expect = "fork" THEN q[p].parent = 1
    ELSE \/ \E r \in Pids : q[p].parent = r /\ q[r].parent = 1
         \/ q[p].parent = 1 /\ q[p].executed

Tracing(k, j, q) ==
    /\ j.pid \in Pids /\ q[j.pid].state # "none"
    /\ j.state \in {"spawned", "running", "killed"}
    /\ \A p \in Pids \ {j.pid} :
            Held(q, p) => q[p].parent = j.pid /\ q[j.pid].stop = "PTRACE_EVENT_FORK"
    /\ q[j.pid].stop = "PTRACE_EVENT_FORK" =>
            q[j.pid].state = "stopped" /\ j.trace_state = "normal" /\ Delivered(q, j.pid)
    /\ j.trace_state # "new" => q[1].executed
    /\ j.state = "spawned" => j.trace_state # "none"
    /\ j.state \in {"running", "killed"} => j.trace_state = "none" /\ FollowedFar(k, q, j.pid)
    /\ \/ IsNew(j, q) \/ IsNormal(k, j, q) \/ IsNewChild(k, j, q)
       \/ j.trace_state = "none" /\ \A p \in Pids : ~Held(q, p)

\* A process that is not followed stays alone.
Alone(j, q) ==
    /\ j.pid \in {0, 1} /\ j.trace_state = "none"
    /\ j.pid = 1 => q[1].state # "none"
    /\ \A p \in Pids \ {1} : q[p].state = "none"

Good(k, j, q) ==
    /\ k \in Classes /\ JobOK(j) /\ Tree(q)
    /\ j.pid = 0 <=> j.state \in {"spawning", "failed", "terminated"}
    /\ j.state = "spawning" =>
            j.trace_forks = 0 /\ \A p \in Pids : q[p].state = "none"
    /\ ~Follow(k) => Alone(j, q)
    /\ Follow(k) /\ j.pid # 0 => Tracing(k, j, q)

TraceInv == Good(class, job, proc)

-----------------------------------------------------------------------------
(* Steps of one process                                                    *)

\* A process that does not exist yet.
LEMMA NoProcLemma ==
    /\ NoProc \in Proc /\ NoProc.state = "none" /\ NoProc.stop = "none"
    /\ ~NoProc.attached /\ ~NoProc.options /\ ~NoProc.executed /\ NoProc.parent = 0
<1> DEFINE yes == TRUE
           no == FALSE
           z == [state |-> "none", stop |-> "none", noted |-> yes, attached |-> no,
                 options |-> no, parent |-> 0, executed |-> no]
<1>1. NoProc = z  BY DEF NoProc
<1>2. yes \in BOOLEAN /\ no \in BOOLEAN /\ ~no  OBVIOUS
<1> HIDE DEF yes, no
<1>3. z \in Proc  BY <1>2, BoundsAssumption DEF Proc, ProcStates, Stops
<1>4. /\ z.state = "none" /\ z.stop = "none" /\ z.attached = no /\ z.options = no
      /\ z.executed = no /\ z.parent = 0
  OBVIOUS
<1> QED  BY <1>1, <1>2, <1>3, <1>4

\* Only process p has changed, and no parents have.
Differs(q, r, p) ==
    /\ r \in Procs
    /\ \A x \in Pids : x # p => r[x] = q[x]
    /\ r[p].parent = q[p].parent

\* What waitid() has reported is not reported again.
LEMMA NoteLemma ==
    ASSUME NEW q \in Procs, NEW p \in Pids
    PROVE  LET r == [q EXCEPT ![p].noted = TRUE]
           IN  /\ Differs(q, r, p)
               /\ r[p].state = q[p].state /\ r[p].stop = q[p].stop
               /\ r[p].attached = q[p].attached /\ r[p].options = q[p].options
               /\ r[p].executed = q[p].executed
  BY DEF Differs, Procs, Proc

\* PTRACE_CONT.
LEMMA ContinueLemma ==
    ASSUME NEW q \in Procs, NEW p \in Pids
    PROVE  LET r == Continue(q, p)
           IN  /\ Differs(q, r, p)
               /\ r[p].state = Goes(q, p) /\ r[p].stop = "none"
               /\ r[p].attached = q[p].attached /\ r[p].options = q[p].options
               /\ r[p].executed = q[p].executed
<1> DEFINE g == Goes(q, p)
           r == [q EXCEPT ![p].state = g, ![p].stop = "none"]
<1>1. g \in ProcStates  BY DEF Goes, ProcStates
<1> HIDE DEF g
<1>2. r \in Procs  BY <1>1 DEF Procs, Proc, Stops
<1>3. \A x \in Pids : x # p => r[x] = q[x]  BY DEF Procs
<1>4. /\ r[p].state = g /\ r[p].stop = "none" /\ r[p].parent = q[p].parent
      /\ r[p].attached = q[p].attached /\ r[p].options = q[p].options
      /\ r[p].executed = q[p].executed
  BY DEF Procs, Proc
<1> QED  BY <1>2, <1>3, <1>4 DEF Continue, Differs, g

\* PTRACE_SETOPTIONS, or the options a process is born with taken away.
LEMMA OptionsLemma ==
    ASSUME NEW q \in Procs, NEW p \in Pids, NEW b \in BOOLEAN
    PROVE  LET r == [q EXCEPT ![p].options = b]
           IN  /\ Differs(q, r, p)
               /\ r[p].state = q[p].state /\ r[p].stop = q[p].stop
               /\ r[p].attached = q[p].attached /\ r[p].options = b
               /\ r[p].executed = q[p].executed
  BY DEF Differs, Procs, Proc

\* PTRACE_DETACH.
LEMMA DetachLemma ==
    ASSUME NEW q \in Procs, NEW p \in Pids
    PROVE  LET r == Detach(q, p)
           IN  /\ Differs(q, r, p)
               /\ r[p].state = Goes(q, p) /\ r[p].stop = "none"
               /\ ~r[p].attached /\ ~r[p].options
               /\ r[p].executed = q[p].executed
<1> DEFINE g == Goes(q, p)
           no == FALSE
           r == [q EXCEPT ![p].state = g, ![p].stop = "none",
                          ![p].attached = no, ![p].options = no]
<1>1. g \in ProcStates  BY DEF Goes, ProcStates
<1>2. no \in BOOLEAN  OBVIOUS
<1> HIDE DEF g, no
<1>3. r \in Procs
  <2> DEFINE one == [q[p] EXCEPT !.state = g, !.stop = "none",
                                 !.attached = no, !.options = no]
  <2>1. one \in Proc  BY <1>1, <1>2 DEF Procs, Proc, Stops
  <2>2. r = [q EXCEPT ![p] = one]  OBVIOUS
  <2> HIDE DEF one, r
  <2> QED  BY <2>1, <2>2 DEF Procs
<1>4. \A x \in Pids : x # p => r[x] = q[x]  BY DEF Procs
<1>5. /\ r[p].state = g /\ r[p].stop = "none" /\ r[p].parent = q[p].parent
      /\ r[p].attached = no /\ r[p].options = no
      /\ r[p].executed = q[p].executed
  BY DEF Procs, Proc
<1> QED  BY <1>3, <1>4, <1>5 DEF Detach, Differs, g, no

\* A process stops, for a reason that the daemon is told.
Halt(q, p, why) ==
    [q EXCEPT ![p].state = "stopped", ![p].stop = why, ![p].noted = FALSE]

LEMMA HaltLemma ==
    ASSUME NEW q \in Procs, NEW p \in Pids, NEW why \in Stops
    PROVE  LET r == Halt(q, p, why)
           IN  /\ Differs(q, r, p)
               /\ r[p].state = "stopped" /\ r[p].stop = why
               /\ r[p].attached = q[p].attached /\ r[p].options = q[p].options
               /\ r[p].executed = q[p].executed
<1> DEFINE r == [q EXCEPT ![p].state = "stopped", ![p].stop = why, ![p].noted = FALSE]
<1>1. "stopped" \in ProcStates  BY DEF ProcStates
<1>2. r \in Procs  BY <1>1 DEF Procs, Proc
<1>3. \A x \in Pids : x # p => r[x] = q[x]  BY DEF Procs
<1>4. /\ r[p].state = "stopped" /\ r[p].stop = why /\ r[p].parent = q[p].parent
      /\ r[p].attached = q[p].attached /\ r[p].options = q[p].options
      /\ r[p].executed = q[p].executed
  BY DEF Procs, Proc
<1> QED  BY <1>2, <1>3, <1>4 DEF Differs, Halt

\* Any of them keeps the tree.
LEMMA TreeKept ==
    ASSUME NEW q, NEW r, NEW p \in Pids, Tree(q), Differs(q, r, p),
           q[p].state # "none", r[p].state # "none",
           r[p].state = "setup" => p = 1 /\ ~r[p].executed
    PROVE  Tree(r)
<1>1. 1 \in Pids  BY BoundsAssumption DEF Pids
<1>2. \A x \in Pids : r[x].parent = q[x].parent  BY DEF Differs
<1>3. \A x \in Pids : r[x].state = "none" <=> q[x].state = "none"  BY DEF Differs
<1>4. \A x \in Pids : r[x].parent # 0 => r[r[x].parent].state # "none"
  <2> SUFFICES ASSUME NEW x \in Pids, r[x].parent # 0
               PROVE  r[r[x].parent].state # "none"
    OBVIOUS
  <2>1. q[x].parent \in Pids
    BY <1>2, BoundsAssumption DEF Tree, Procs, Proc, Pids
  <2> QED  BY <2>1, <1>2, <1>3 DEF Tree
<1>5. \A x \in Pids : r[x].state = "none" =>
            /\ ~r[x].attached /\ ~r[x].options /\ ~r[x].executed
            /\ r[x].parent = 0 /\ r[x].stop = "none"
  BY <1>3 DEF Tree, Differs
<1>6. \A x \in Pids : r[x].state = "setup" => x = 1 /\ ~r[x].executed
  BY DEF Tree, Differs
<1> QED  BY <1>1, <1>2, <1>4, <1>5, <1>6 DEF Tree, Differs

-----------------------------------------------------------------------------
(* What the handlers of job_process.c do while a program is followed       *)

Following(j, q) ==
    Follow(class) /\ JobOK(j) /\ Tree(q) /\ Tracing(class, j, q)

\* Whether a report has been noted says nothing about the trace.
LEMMA TracingKept ==
    ASSUME NEW k, NEW j, NEW q, NEW r, NEW p \in Pids,
           Tracing(k, j, q), Differs(q, r, p),
           r[p].state = q[p].state, r[p].stop = q[p].stop,
           r[p].attached = q[p].attached, r[p].options = q[p].options,
           r[p].executed = q[p].executed
    PROVE  Tracing(k, j, r)
<1>1. 1 \in Pids  BY BoundsAssumption DEF Pids
<1>2. \A x \in Pids : /\ r[x].state = q[x].state /\ r[x].stop = q[x].stop
                      /\ r[x].attached = q[x].attached /\ r[x].options = q[x].options
                      /\ r[x].executed = q[x].executed /\ r[x].parent = q[x].parent
  BY DEF Differs
<1>3. \A x \in Pids : Held(r, x) <=> Held(q, x)  BY <1>2 DEF Held
<1>4. \A x \in Pids : Newborn(r, x) <=> Newborn(q, x)  BY <1>2 DEF Newborn, Childless
<1>5. \A x \in Pids : Delivered(r, x) <=> Delivered(q, x)  BY <1>2, <1>4 DEF Delivered
<1>6. j.pid \in Pids  BY DEF Tracing
<1>7. FollowedFar(k, r, j.pid) <=> FollowedFar(k, q, j.pid)
  BY <1>2, <1>6 DEF FollowedFar
<1>8. IsNew(j, r) <=> IsNew(j, q)  BY <1>1, <1>2 DEF IsNew
<1>9. IsNormal(k, j, r) <=> IsNormal(k, j, q)  BY <1>2, <1>6 DEF IsNormal, Childless
<1>10. IsNewChild(k, j, r) <=> IsNewChild(k, j, q)
  BY <1>2, <1>4, <1>6 DEF IsNewChild
<1> QED  BY <1>1, <1>2, <1>3, <1>5, <1>6, <1>7, <1>8, <1>9, <1>10 DEF Tracing

\* PTRACE_CONT and PTRACE_SETOPTIONS in job_process_trace_new: the process runs
\* until its next fork.
LEMMA ResumeLemma ==
    ASSUME NEW q \in Procs, NEW p \in Pids
    PROVE  LET r == [Continue(q, p) EXCEPT ![p].options = TRUE]
           IN  /\ Differs(q, r, p)
               /\ r[p].state = Goes(q, p) /\ r[p].stop = "none"
               /\ r[p].attached = q[p].attached /\ r[p].options
               /\ r[p].executed = q[p].executed
<1> DEFINE c == Continue(q, p)
           yes == TRUE
           r == [c EXCEPT ![p].options = yes]
<1>1. yes \in BOOLEAN /\ yes  OBVIOUS
<1>2. /\ Differs(q, c, p) /\ c[p].state = Goes(q, p) /\ c[p].stop = "none"
      /\ c[p].attached = q[p].attached /\ c[p].executed = q[p].executed
  BY ContinueLemma
<1>3. c \in Procs  BY <1>2 DEF Differs
<1> HIDE DEF c, yes
<1>4. /\ Differs(c, r, p)
      /\ r[p].state = c[p].state /\ r[p].stop = c[p].stop
      /\ r[p].attached = c[p].attached /\ r[p].options = yes
      /\ r[p].executed = c[p].executed
  BY <1>1, <1>3 DEF Differs, Procs, Proc
<1> QED  BY <1>1, <1>2, <1>4 DEF Differs, c, yes

\* A process that runs with the options set is followed normally.
LEMMA ResumedLemma ==
    ASSUME NEW j, NEW q, Follow(class), JobOK(j), Tree(q),
           j.state = "spawned", j.pid \in Pids,
           q[j.pid].state = "stopped", q[1].executed, Childless(q, j.pid),
           \A p \in Pids : p # j.pid => ~Held(q, p),
           \/ j.trace_forks = 0 /\ j.pid = 1
           \/ j.trace_forks = 1 /\ q[j.pid].parent = 1 /\ class.expect = "daemon"
    PROVE  LET s == job_process_trace_new(j, q)
           IN  Following(s.job, s.proc)
<1> DEFINE P == j.pid
           n == [j EXCEPT !.trace_state = "normal"]
           r == [Continue(q, P) EXCEPT ![P].options = TRUE]
<1>1. /\ DOMAIN n = JobFields
      /\ n.pid = P /\ n.state = "spawned" /\ n.trace_state = "normal"
      /\ n.trace_forks = j.trace_forks
  BY DEF JobOK, JobFields
<1>2. job_process_trace_new(j, q) = State(n, r)
  BY <1>1 DEF job_process_trace_new, Spawned
<1> HIDE DEF n
<1>3. q \in Procs /\ 1 \in Pids  BY BoundsAssumption DEF Tree, Pids
<1>4. Goes(q, P) = "running"  BY DEF Goes
<1>5. /\ Differs(q, r, P) /\ r[P].state = "running" /\ r[P].stop = "none"
      /\ r[P].options /\ r[P].executed = q[P].executed
  BY <1>3, <1>4, ResumeLemma
<1> HIDE DEF r
<1>6. Tree(r)  BY <1>5, TreeKept
<1>7. JobOK(n)  BY <1>1 DEF JobOK
<1>8. Childless(r, P)  BY <1>5 DEF Childless, Differs
<1>9. \A p \in Pids : p # P => ~Held(r, p)  BY <1>5 DEF Held, Differs
<1>10. r[1].executed  BY <1>3, <1>5 DEF Differs
<1>11. IsNormal(class, n, r)
  BY <1>1, <1>5, <1>8 DEF IsNormal, Differs
<1>12. Tracing(class, n, r)
  BY <1>1, <1>5, <1>9, <1>10, <1>11 DEF Tracing
<1>13. Following(State(n, r).job, State(n, r).proc)
  BY <1>6, <1>7, <1>12 DEF Following, State
<1> QED  BY <1>2, <1>13

\* A process that is let go of is the one the expect stanza asks for.
LEMMA EndedLemma ==
    ASSUME NEW j, NEW q, Follow(class), JobOK(j), Tree(q), j.pid \in Pids,
           q[j.pid].state = "stopped", q[1].executed,
           \A p \in Pids : p # j.pid => ~Held(q, p),
           FollowedFar(class, q, j.pid)
    PROVE  LET s == TraceEnds(j, q) IN Following(s.job, s.proc)
<1> DEFINE P == j.pid
           n == [j EXCEPT !.trace_state = "none", !.state = "running"]
           r == Detach(q, P)
<1>1. /\ DOMAIN n = JobFields /\ n.pid = P /\ n.state = "running"
      /\ n.trace_state = "none" /\ n.trace_forks = j.trace_forks
  BY DEF JobOK, JobFields
<1>2. TraceEnds(j, q) = State(n, r)  BY DEF TraceEnds
<1> HIDE DEF n
<1>3. q \in Procs /\ 1 \in Pids  BY BoundsAssumption DEF Tree, Pids
<1>4. Goes(q, P) = "running"  BY DEF Goes
<1>5. /\ Differs(q, r, P) /\ r[P].state = "running" /\ r[P].stop = "none"
      /\ ~r[P].attached /\ ~r[P].options /\ r[P].executed = q[P].executed
  BY <1>3, <1>4, DetachLemma
<1> HIDE DEF r
<1>6. Tree(r)  BY <1>5, TreeKept
<1>7. JobOK(n)  BY <1>1 DEF JobOK
<1>8. \A p \in Pids : ~Held(r, p)  BY <1>5 DEF Held, Differs
<1>9. r[1].executed  BY <1>3, <1>5 DEF Differs
<1>10. \A p \in Pids : r[p].parent = q[p].parent  BY <1>5 DEF Differs
<1>11. FollowedFar(class, r, P)  BY <1>5, <1>10 DEF FollowedFar
<1>12. Tracing(class, n, r)
  BY <1>1, <1>5, <1>8, <1>9, <1>11 DEF Tracing
<1> QED  BY <1>2, <1>6, <1>7, <1>12 DEF Following, State

\* job_process_trace_new, called for the SIGTRAP of the first exec.
LEMMA TraceNewLemma ==
    ASSUME NEW j, NEW q, Following(j, q), q[j.pid].state = "stopped",
           q[j.pid].stop = "SIGTRAP", j.trace_state = "new"
    PROVE  LET s == job_process_trace_new(j, q) IN Following(s.job, s.proc)
<1>1. CASE ~Spawned(j)
  BY <1>1 DEF job_process_trace_new, State, Following
<1>2. CASE Spawned(j)
  <2>1. IsNew(j, q)
    BY DEF Following, Tracing, IsNormal, IsNewChild
  <2>2. j.pid \in Pids /\ j.pid = 1 /\ q[1].executed /\ j.trace_forks = 0
    BY <2>1 DEF Following, Tracing, IsNew
  <2>3. \A p \in Pids : p # 1 => ~Held(q, p) /\ q[p].parent = 0
    BY <2>1 DEF IsNew, Following, Tree, Held
  <2>4. Childless(q, 1)  BY <2>3 DEF Childless, Following, Tree
  <2> QED  BY <1>2, <2>2, <2>3, <2>4, ResumedLemma DEF Following, Spawned
<1> QED  BY <1>1, <1>2

\* job_process_trace_new_child, called for the first stop of a new process: its
\* fork is counted, and it is followed on or let go.
LEMMA TraceNewChildLemma ==
    ASSUME NEW j, NEW q, Following(j, q), q[j.pid].state = "stopped",
           j.trace_state = "new_child"
    PROVE  LET s == job_process_trace_new_child(j, q) IN Following(s.job, s.proc)
<1> DEFINE i == [j EXCEPT !.trace_forks = @ + 1]
           P == j.pid
<1>1. CASE ~Spawned(j)
  BY <1>1 DEF job_process_trace_new_child, State, Following
<1>2. CASE Spawned(j)
  <2>1. IsNewChild(class, j, q) /\ P \in Pids
    BY DEF Following, Tracing, IsNew, IsNormal
  <2>2. Newborn(q, P) /\ q[1].executed /\ q[P].stop # "PTRACE_EVENT_FORK"
    BY <2>1 DEF IsNewChild, Following, Tracing
  <2>3. \A p \in Pids : p # P => ~Held(q, p)
    BY <2>1, <2>2 DEF Following, Tracing
  <2>4. JobOK(i) /\ i.pid = P /\ i.trace_forks = j.trace_forks + 1
    BY DEF Following, JobOK, JobFields
  <2>5. CASE i.trace_forks > 1 \/ class.expect = "fork"
    <3>1. FollowedFar(class, q, P)
      BY <2>1, <2>4, <2>5 DEF IsNewChild, FollowedFar
    <3>2. LET s == TraceEnds(i, q) IN Following(s.job, s.proc)
      <4> HIDE DEF i
      <4> QED  BY <2>1, <2>2, <2>3, <2>4, <3>1, EndedLemma DEF Following
    <3> QED  BY <1>2, <2>5, <3>2 DEF job_process_trace_new_child
  <2>6. CASE ~(i.trace_forks > 1 \/ class.expect = "fork")
    <3>1. j.trace_forks = 0 /\ q[P].parent = 1 /\ class.expect = "daemon"
      BY <2>1, <2>4, <2>6 DEF IsNewChild, Following, Follow
    <3>2. i.state = "spawned" /\ i.trace_forks = 1
      BY <1>2, <3>1 DEF Following, JobOK, JobFields, Spawned
    <3>3. LET s == job_process_trace_new(i, q) IN Following(s.job, s.proc)
      <4> HIDE DEF i
      <4> QED  BY <2>1, <2>2, <2>3, <2>4, <3>1, <3>2, ResumedLemma DEF Following, Newborn
    <3> QED  BY <1>2, <2>6, <3>3 DEF job_process_trace_new_child
  <2> QED  BY <2>5, <2>6
<1> QED  BY <1>1, <1>2

\* job_process_trace_fork: the process that was let run is let go and its child
\* followed, whose stop may have been reported, and dropped, before.
LEMMA TraceForkLemma ==
    ASSUME NEW j, NEW q, Following(j, q), q[j.pid].stop = "PTRACE_EVENT_FORK"
    PROVE  LET s == job_process_trace_fork(j, q) IN Following(s.job, s.proc)
<1> DEFINE P == j.pid
           new == EventMessage(q, P)
           followed == [j EXCEPT !.pid = new, !.trace_state = "new_child"]
           detached == Detach(q, P)
           cleared == [detached EXCEPT ![new].options = FALSE]
<1>1. CASE ~Spawned(j) \/ j.trace_state # "normal"
  BY <1>1 DEF job_process_trace_fork, State, Following
<1>2. CASE Spawned(j) /\ j.trace_state = "normal"
  <2>1. P \in Pids /\ 1 \in Pids /\ q \in Procs /\ Delivered(q, P) /\ q[1].executed
    BY BoundsAssumption DEF Following, Tracing, Tree, Pids
  <2>2. PICK c \in Pids : /\ q[c].parent = P /\ Newborn(q, c)
                          /\ \A d \in Pids : q[d].parent = P => d = c
    BY <2>1 DEF Delivered
  <2>3. DOMAIN q = Pids /\ c <= c  BY <2>1 DEF Procs, Pids
  <2>4. new = c  BY <2>2, <2>3 DEF EventMessage
  <2>5. c # P  BY <2>2 DEF Newborn, Childless
  <2>6. /\ JobOK(followed) /\ followed.pid = c /\ followed.state = "spawned"
        /\ followed.trace_state = "new_child"
        /\ followed.trace_forks = j.trace_forks
    BY <1>2, <2>4 DEF Following, JobOK, JobFields, Spawned, Pids
  <2> HIDE DEF followed, new
  <2>7. Goes(q, P) = "running"  BY <2>1 DEF Goes
  <2>8. /\ Differs(q, detached, P)
        /\ detached[P].state = "running" /\ detached[P].stop = "none"
        /\ ~detached[P].attached /\ ~detached[P].options
        /\ detached[P].executed = q[P].executed
    BY <2>1, <2>7, DetachLemma
  <2> HIDE DEF detached
  <2>9. Tree(detached)
    BY <2>1, <2>8, TreeKept DEF Following, Tracing
  <2>10. IsNormal(class, j, q)
    BY <1>2 DEF Following, Tracing, IsNew, IsNewChild
  <2>11. \A r : /\ Tree(r) /\ Differs(detached, r, c)
                /\ r[c].state = detached[c].state /\ r[c].stop = detached[c].stop
                /\ r[c].attached = detached[c].attached
                /\ r[c].executed = detached[c].executed
                => Following(followed, r)
    <3> SUFFICES ASSUME NEW r, Tree(r), Differs(detached, r, c),
                        r[c].state = detached[c].state, r[c].stop = detached[c].stop,
                        r[c].attached = detached[c].attached,
                        r[c].executed = detached[c].executed
                 PROVE  Following(followed, r)
      OBVIOUS
    <3>1. \A x \in Pids : r[x].parent = q[x].parent /\ r[x].executed = q[x].executed
      BY <2>1, <2>8 DEF Differs
    <3>2. /\ r[c].state = q[c].state /\ r[c].stop = q[c].stop
          /\ r[c].attached = q[c].attached
      BY <2>5, <2>8 DEF Differs
    <3>3. Newborn(r, c)  BY <2>2, <3>1, <3>2 DEF Newborn, Childless
    <3>4. \A x \in Pids : x # c => ~Held(r, x)
      <4> SUFFICES ASSUME NEW x \in Pids, x # c PROVE ~Held(r, x)  OBVIOUS
      <4>1. CASE x = P  BY <4>1, <2>1, <2>5, <2>8 DEF Held, Differs
      <4>2. CASE x # P
        <5>1. r[x] = q[x]  BY <4>2, <2>8 DEF Differs
        <5>2. ~Held(q, x)  BY <4>2, <2>1, <2>2 DEF Following, Tracing
        <5> QED  BY <5>1, <5>2 DEF Held
      <4> QED  BY <4>1, <4>2
    <3>5. IsNewChild(class, followed, r)
      <4>1. r[c].parent = P  BY <2>2, <3>1
      <4>2. CASE j.trace_forks = 0 /\ P = 1
        BY <4>1, <4>2, <2>6, <3>3 DEF IsNewChild, Newborn
      <4>3. CASE j.trace_forks = 1 /\ q[P].parent = 1 /\ class.expect = "daemon"
        BY <4>1, <4>3, <2>1, <2>6, <3>1, <3>3 DEF IsNewChild, Newborn
      <4> QED  BY <4>2, <4>3, <2>10 DEF IsNormal
    <3>6. Tracing(class, followed, r)
      BY <2>1, <2>2, <2>6, <3>1, <3>3, <3>4, <3>5 DEF Tracing, Newborn
    <3> QED  BY <2>6, <3>6 DEF Following
  <2>12. CASE q[new].state # "stopped"
    <3>1. Differs(detached, detached, c)  BY <2>8 DEF Differs
    <3>2. Following(followed, detached)  BY <2>9, <2>11, <3>1
    <3>3. job_process_trace_fork(j, q) = State(followed, detached)
      BY <1>2, <2>12 DEF job_process_trace_fork, followed, detached, new
    <3> QED  BY <3>2, <3>3 DEF State
  <2>13. CASE q[new].state = "stopped"
    <3>1. /\ Differs(detached, cleared, c)
          /\ cleared[c].state = detached[c].state /\ cleared[c].stop = detached[c].stop
          /\ cleared[c].attached = detached[c].attached
          /\ cleared[c].executed = detached[c].executed
      <4>1. detached \in Procs  BY <2>8 DEF Differs
      <4> QED  BY <4>1, <2>4 DEF Differs, Procs, Proc
    <3>2. detached[c].state = "stopped"  BY <2>4, <2>5, <2>8, <2>13 DEF Differs
    <3>3. job_process_trace_fork(j, q) = job_process_trace_new_child(followed, cleared)
      BY <1>2, <2>13 DEF job_process_trace_fork, followed, detached, new
    <3> HIDE DEF cleared
    <3>4. Tree(cleared)  BY <2>9, <3>1, <3>2, TreeKept
    <3>5. Following(followed, cleared)  BY <2>11, <3>1, <3>4
    <3>6. LET s == job_process_trace_new_child(followed, cleared)
          IN  Following(s.job, s.proc)
      BY <2>6, <3>1, <3>2, <3>5, TraceNewChildLemma
    <3> QED  BY <3>3, <3>6
  <2> QED  BY <2>12, <2>13
<1> QED  BY <1>1, <1>2

\* A process that is followed normally goes on after any stop but that of a fork.
LEMMA GoOnLemma ==
    ASSUME NEW j, NEW q, Following(j, q), q[j.pid].state = "stopped",
           j.trace_state = "normal", q[j.pid].stop # "PTRACE_EVENT_FORK"
    PROVE  Following(j, Continue(q, j.pid))
<1> DEFINE P == j.pid
           r == Continue(q, P)
<1>1. P \in Pids /\ 1 \in Pids /\ q \in Procs /\ q[1].executed
  BY BoundsAssumption DEF Following, Tracing, Tree, Pids
<1>2. Goes(q, P) = "running"  BY <1>1 DEF Goes
<1>3. /\ Differs(q, r, P) /\ r[P].state = "running" /\ r[P].stop = "none"
      /\ r[P].options = q[P].options /\ r[P].executed = q[P].executed
  BY <1>1, <1>2, ContinueLemma
<1> HIDE DEF r
<1>4. Tree(r)  BY <1>1, <1>3, TreeKept DEF Following
<1>5. \A x \in Pids : r[x].parent = q[x].parent /\ r[x].executed = q[x].executed
  BY <1>3 DEF Differs
<1>6. IsNormal(class, j, q)  BY DEF Following, Tracing, IsNew, IsNewChild
<1>7. IsNormal(class, j, r)
  BY <1>1, <1>3, <1>5, <1>6 DEF IsNormal, Childless
<1>8. \A x \in Pids : x # P => ~Held(r, x)
  BY <1>1, <1>3 DEF Following, Tracing, Held, Differs
<1>9. j.state = "spawned"
  BY DEF Following, Tracing
<1>10. Tracing(class, j, r)
  BY <1>1, <1>3, <1>5, <1>7, <1>8, <1>9 DEF Tracing
<1> QED  BY <1>4, <1>10 DEF Following, r

\* job_process_trace_signal
LEMMA TraceSignalLemma ==
    ASSUME NEW j, NEW q, Following(j, q), q[j.pid].state = "stopped",
           q[j.pid].stop # "PTRACE_EVENT_FORK"
    PROVE  LET s == job_process_trace_signal(j, q) IN Following(s.job, s.proc)
<1>1. CASE ~Spawned(j) \/ j.trace_state # "normal"
  BY <1>1 DEF job_process_trace_signal, State, Following
<1>2. CASE Spawned(j) /\ j.trace_state = "normal"
  BY <1>2, GoOnLemma DEF job_process_trace_signal, State
<1> QED  BY <1>1, <1>2

\* job_process_trace_exec: a program that executes another after a fork is taken
\* to have finished, which only `expect daemon' gets to.
LEMMA TraceExecLemma ==
    ASSUME NEW j, NEW q, Following(j, q), q[j.pid].state = "stopped",
           q[j.pid].stop = "PTRACE_EVENT_EXEC"
    PROVE  LET s == job_process_trace_exec(j, q) IN Following(s.job, s.proc)
<1> DEFINE P == j.pid
<1>1. CASE ~Spawned(j) \/ j.trace_state # "normal"
  BY <1>1 DEF job_process_trace_exec, State, Following
<1>2. CASE Spawned(j) /\ j.trace_state = "normal" /\ ~(j.trace_forks > 0)
  BY <1>2, GoOnLemma DEF job_process_trace_exec, State
<1>3. CASE Spawned(j) /\ j.trace_state = "normal" /\ j.trace_forks > 0
  <2>1. IsNormal(class, j, q)  BY <1>3 DEF Following, Tracing, IsNew, IsNewChild
  <2>2. FollowedFar(class, q, P)  BY <1>3, <2>1 DEF IsNormal, FollowedFar
  <2>3. P \in Pids /\ q[1].executed /\ \A p \in Pids : p # P => ~Held(q, p)
    BY <1>3 DEF Following, Tracing
  <2>4. LET s == TraceEnds(j, q) IN Following(s.job, s.proc)
    BY <2>2, <2>3, EndedLemma DEF Following
  <2> QED  BY <1>3, <2>4 DEF job_process_trace_exec
<1> QED  BY <1>1, <1>2, <1>3

\* job_process_handler, for a program that is followed: it is followed on, unless
\* the process was dead.
LEMMA FollowedHandlerLemma ==
    ASSUME NEW j, NEW q, Following(j, q), q[j.pid].state \in {"stopped", "dead"}
    PROVE  LET s == job_process_handler(j, q, j.pid)
           IN  /\ JobOK(s.job) /\ Tree(s.proc)
               /\ \/ Following(s.job, s.proc) /\ s.job.pid # 0
                  \/ s.job.pid = 0 /\ s.job.state = "terminated"
<1> DEFINE P == j.pid
           s == job_process_handler(j, q, P)
<1>1. CASE q[P].state = "dead"
  <2> DEFINE n == [j EXCEPT !.pid = 0, !.state = "terminated"]
  <2>1. s.job = n /\ s.proc = q  BY <1>1 DEF job_process_handler, State
  <2>2. JobOK(n) /\ n.pid = 0 /\ n.state = "terminated"
    BY BoundsAssumption DEF Following, JobOK, JobFields
  <2> HIDE DEF n, s
  <2>3. /\ JobOK(s.job) /\ Tree(s.proc)
        /\ s.job.pid = 0 /\ s.job.state = "terminated"
    BY <2>1, <2>2 DEF Following
  <2> QED  BY <2>3 DEF s
<1>2. CASE q[P].state = "stopped"
  <2> USE <1>2
  <2>1. CASE q[P].stop = "SIGSTOP" /\ ~q[P].attached
    <3>1. s = job_process_stopped(j, q)  BY <2>1 DEF job_process_handler
    <3>2. s = State(j, q)  BY <3>1 DEF job_process_stopped, Following, Follow
    <3> QED  BY <3>2 DEF State, Following, Tracing, Pids
  <2> DEFINE first == q[P].stop = "SIGSTOP" /\ ~q[P].attached
             second == q[P].stop = "SIGTRAP" /\ j.trace_state = "new"
             third == q[P].stop = "SIGSTOP" /\ q[P].attached /\ j.trace_state = "new_child"
             fork == q[P].stop = "PTRACE_EVENT_FORK"
             exec == q[P].stop = "PTRACE_EVENT_EXEC"
  <2>2. CASE second
    <3>1. s = job_process_trace_new(j, q)  BY <2>2 DEF job_process_handler
    <3>2. Following(s.job, s.proc)  BY <2>2, <3>1, TraceNewLemma
    <3> QED  BY <3>2 DEF Following, Tracing, Pids
  <2>3. CASE third
    <3>1. s = job_process_trace_new_child(j, q)
      BY <2>3 DEF job_process_handler, Following, Tree, Procs, Proc
    <3>2. Following(s.job, s.proc)  BY <2>3, <3>1, TraceNewChildLemma
    <3> QED  BY <3>2 DEF Following, Tracing, Pids
  <2>4. CASE fork
    <3>1. s = job_process_trace_fork(j, q)  BY <2>4 DEF job_process_handler
    <3>2. Following(s.job, s.proc)  BY <2>4, <3>1, TraceForkLemma
    <3> QED  BY <3>2 DEF Following, Tracing, Pids
  <2>5. CASE exec
    <3>1. s = job_process_trace_exec(j, q)  BY <2>5 DEF job_process_handler
    <3>2. Following(s.job, s.proc)  BY <2>5, <3>1, TraceExecLemma
    <3> QED  BY <3>2 DEF Following, Tracing, Pids
  <2>6. CASE ~first /\ ~second /\ ~third /\ ~fork /\ ~exec
    <3>1. s = job_process_trace_signal(j, q)  BY <2>6 DEF job_process_handler
    <3>2. Following(s.job, s.proc)  BY <2>6, <3>1, TraceSignalLemma
    <3> QED  BY <3>2 DEF Following, Tracing, Pids
  <2> QED  BY <2>1, <2>2, <2>3, <2>4, <2>5, <2>6
<1> QED  BY <1>1, <1>2

\* job_process_handler, for a process that is not followed: it may get ready with
\* SIGSTOP, or die.
LEMMA AloneHandlerLemma ==
    ASSUME NEW j, NEW q, JobOK(j), Tree(q), ~Follow(class), Alone(j, q), j.pid = 1,
           j.state \notin {"spawning", "failed", "terminated"},
           q[1].state \in {"stopped", "dead"}
    PROVE  LET s == job_process_handler(j, q, 1)
           IN  /\ JobOK(s.job) /\ Tree(s.proc) /\ Alone(s.job, s.proc)
               /\ \/ s.job.pid = 1 /\ s.job.state \notin {"spawning", "failed", "terminated"}
                  \/ s.job.pid = 0 /\ s.job.state = "terminated"
<1> DEFINE s == job_process_handler(j, q, 1)
           r == Continue(q, 1)
           g == [j EXCEPT !.state = "running"]
<1>1. CASE q[1].state = "dead"
  <2> DEFINE n == [j EXCEPT !.pid = 0, !.state = "terminated"]
  <2>1. s.job = n /\ s.proc = q  BY <1>1 DEF job_process_handler, State
  <2>2. /\ JobOK(n) /\ n.pid = 0 /\ n.state = "terminated"
        /\ n.trace_state = j.trace_state
    BY BoundsAssumption DEF JobOK, JobFields
  <2> HIDE DEF n, s
  <2>3. /\ JobOK(s.job) /\ Tree(s.proc) /\ Alone(s.job, s.proc)
        /\ s.job.pid = 0 /\ s.job.state = "terminated"
    BY <2>1, <2>2 DEF Alone
  <2> QED  BY <2>3 DEF s
<1>2. CASE q[1].state # "dead"
  <2>1. s \in {State(j, q), State(g, r)}
    BY <1>2 DEF job_process_handler, job_process_stopped, job_process_trace_new,
                job_process_trace_new_child, job_process_trace_fork,
                job_process_trace_exec, job_process_trace_signal, Alone
  <2>2. CASE s = State(j, q)  BY <2>2 DEF State
  <2>3. CASE s = State(g, r)
    <3>1. 1 \in Pids /\ q \in Procs  BY BoundsAssumption DEF Pids, Tree
    <3>2. /\ Differs(q, r, 1) /\ r[1].state = Goes(q, 1)
          /\ r[1].executed = q[1].executed
      BY <3>1, ContinueLemma
    <3> HIDE DEF r
    <3>3. r[1].state # "none" /\ (r[1].state = "setup" => ~r[1].executed)
      BY <3>2 DEF Goes
    <3>4. Tree(r)  BY <3>1, <3>2, <3>3, TreeKept DEF Alone
    <3>5. JobOK(g) /\ g.pid = 1 /\ g.state = "running" /\ g.trace_state = "none"
      BY DEF JobOK, JobFields, Alone
    <3>6. Alone(g, r)  BY <3>2, <3>3, <3>5 DEF Alone, Differs
    <3>7. s.job = g /\ s.proc = r  BY <2>3 DEF State
    <3> HIDE DEF g, s
    <3>8. /\ JobOK(s.job) /\ Tree(s.proc) /\ Alone(s.job, s.proc)
          /\ s.job.pid = 1 /\ s.job.state = "running"
      BY <3>4, <3>5, <3>6, <3>7
    <3> QED  BY <3>8 DEF s
  <2> QED  BY <2>1, <2>2, <2>3
<1> QED  BY <1>1, <1>2

-----------------------------------------------------------------------------
(* What processes do                                                       *)

\* A process ends.
Die(q, p) ==
    [q EXCEPT ![p].state = "dead", ![p].noted = FALSE, ![p].attached = FALSE]

LEMMA DieLemma ==
    ASSUME NEW q \in Procs, NEW p \in Pids
    PROVE  LET r == Die(q, p)
           IN  /\ Differs(q, r, p) /\ r[p].state = "dead" /\ r[p].stop = q[p].stop
               /\ ~r[p].attached /\ r[p].executed = q[p].executed
<1> DEFINE no == FALSE
           one == [q[p] EXCEPT !.state = "dead", !.noted = no, !.attached = no]
           r == [q EXCEPT ![p] = one]
<1>1. no \in BOOLEAN /\ ~no  OBVIOUS
<1> HIDE DEF no
<1>2. one \in Proc  BY <1>1 DEF Procs, Proc, ProcStates
<1>3. /\ one.state = "dead" /\ one.stop = q[p].stop /\ one.attached = no
      /\ one.executed = q[p].executed /\ one.parent = q[p].parent
  BY DEF Procs, Proc
<1>4. r = Die(q, p)  BY DEF no, Die
<1> HIDE DEF one
<1>5. r \in Procs /\ r[p] = one /\ \A x \in Pids : x # p => r[x] = q[x]
  BY <1>2 DEF Procs
<1> HIDE DEF r
<1> QED  BY <1>1, <1>3, <1>4, <1>5 DEF Differs

\* The child exits before it has executed the program.
Abort(q, p) == [q EXCEPT ![p].state = "dead", ![p].noted = FALSE]

LEMMA AbortLemma ==
    ASSUME NEW q \in Procs, NEW p \in Pids
    PROVE  LET r == Abort(q, p)
           IN  /\ Differs(q, r, p) /\ r[p].state = "dead" /\ r[p].stop = q[p].stop
               /\ r[p].executed = q[p].executed
<1> DEFINE no == FALSE
           r == [q EXCEPT ![p].state = "dead", ![p].noted = no]
<1>1. no \in BOOLEAN  OBVIOUS
<1> HIDE DEF no
<1>2. r \in Procs  BY <1>1 DEF Procs, Proc, ProcStates
<1>3. \A x \in Pids : x # p => r[x] = q[x]  BY DEF Procs
<1>4. /\ r[p].state = "dead" /\ r[p].stop = q[p].stop
      /\ r[p].executed = q[p].executed /\ r[p].parent = q[p].parent
  BY DEF Procs, Proc
<1> QED  BY <1>2, <1>3, <1>4 DEF Differs, no, Abort

\* A process executes a program and stops for the daemon.
ExecHalt(q, p, why) ==
    [q EXCEPT ![p].executed = TRUE, ![p].state = "stopped", ![p].stop = why,
              ![p].noted = FALSE]

LEMMA ExecHaltLemma ==
    ASSUME NEW q \in Procs, NEW p \in Pids, NEW why \in Stops
    PROVE  LET r == ExecHalt(q, p, why)
           IN  /\ Differs(q, r, p) /\ r[p].state = "stopped" /\ r[p].stop = why
               /\ r[p].attached = q[p].attached /\ r[p].options = q[p].options
               /\ r[p].executed
<1> DEFINE yes == TRUE
           no == FALSE
           one == [q[p] EXCEPT !.executed = yes, !.state = "stopped", !.stop = why,
                               !.noted = no]
           r == [q EXCEPT ![p] = one]
<1>1. no \in BOOLEAN /\ yes \in BOOLEAN /\ yes  OBVIOUS
<1> HIDE DEF no, yes
<1>2. one \in Proc  BY <1>1 DEF Procs, Proc, ProcStates
<1>3. /\ one.state = "stopped" /\ one.stop = why /\ one.attached = q[p].attached
      /\ one.options = q[p].options /\ one.executed = yes /\ one.parent = q[p].parent
  BY DEF Procs, Proc
<1>4. r = ExecHalt(q, p, why)  BY DEF no, yes, ExecHalt
<1> HIDE DEF one
<1>5. r \in Procs /\ r[p] = one /\ \A x \in Pids : x # p => r[x] = q[x]
  BY <1>2 DEF Procs
<1> HIDE DEF r
<1> QED  BY <1>1, <1>3, <1>4, <1>5 DEF Differs

\* One process changes: it is enough to look at the trace.
LEMMA GoodKept ==
    ASSUME NEW k, NEW j, NEW q, NEW r, NEW p \in Pids, Good(k, j, q),
           Differs(q, r, p), q[p].state # "none", r[p].state # "none",
           r[p].state = "setup" => p = 1 /\ ~r[p].executed,
           Follow(k) /\ j.pid # 0 => Tracing(k, j, r)
    PROVE  Good(k, j, r)
<1>1. Tree(r)  BY TreeKept DEF Good
<1>2. j.state # "spawning"  BY DEF Good
<1>3. ASSUME ~Follow(k) PROVE Alone(j, r)
  <2>1. Alone(j, q)  BY <1>3 DEF Good
  <2>2. p = 1  BY <2>1 DEF Alone
  <2> QED  BY <2>1, <2>2 DEF Alone, Differs
<1> QED  BY <1>1, <1>2, <1>3 DEF Good

\* A process that the daemon does not follow makes no difference to the trace, as
\* long as one that has just been forked under it does not run.
LEMMA ElsewhereLemma ==
    ASSUME NEW k, NEW j, NEW q, NEW r, NEW p \in Pids, Tracing(k, j, q), p # j.pid,
           Differs(q, r, p), q[p].state # "none", Held(r, p) => Held(q, p),
           q[p].executed => r[p].executed,
           Newborn(q, p) => /\ r[p].state \in {"born", "stopped"}
                            /\ r[p].stop \in {"none", "SIGSTOP"} /\ r[p].attached
    PROVE  Tracing(k, j, r)
<1>1. 1 \in Pids /\ j.pid \in Pids  BY BoundsAssumption DEF Pids, Tracing
<1>2. r[j.pid] = q[j.pid] /\ \A x \in Pids : r[x].parent = q[x].parent
  BY <1>1 DEF Differs
<1>3. \A x \in Pids : Held(r, x) => Held(q, x)  BY DEF Differs, Held
<1>4. \A x \in Pids : Newborn(q, x) => Newborn(r, x)
  BY <1>2 DEF Newborn, Childless, Differs
<1>5. Delivered(q, j.pid) => Delivered(r, j.pid)  BY <1>2, <1>4 DEF Delivered
<1>6. q[1].executed => r[1].executed  BY <1>1 DEF Differs
<1>7. FollowedFar(k, q, j.pid) => FollowedFar(k, r, j.pid)  BY <1>2 DEF FollowedFar
<1>8. ~IsNew(j, q)  BY DEF IsNew
<1>9. IsNormal(k, j, q) => IsNormal(k, j, r)  BY <1>2 DEF IsNormal, Childless
<1>10. IsNewChild(k, j, q) => IsNewChild(k, j, r)
  BY <1>1, <1>2, <1>4 DEF IsNewChild
<1> QED  BY <1>1, <1>2, <1>3, <1>5, <1>6, <1>7, <1>8, <1>9, <1>10 DEF Tracing

\* A process that runs under ptrace is the one that is followed.
LEMMA HeldRunning ==
    ASSUME NEW k, NEW j, NEW q, NEW p \in Pids, Tracing(k, j, q),
           q[p].state = "running", Held(q, p)
    PROVE  p = j.pid /\ IsNormal(k, j, q) /\ q[p].stop # "PTRACE_EVENT_FORK"
<1>1. p = j.pid
  <2> SUFFICES ASSUME p # j.pid PROVE FALSE  OBVIOUS
  <2>1. q[p].parent = j.pid /\ Delivered(q, j.pid)  BY DEF Tracing
  <2>2. Newborn(q, p)  BY <2>1 DEF Delivered
  <2> QED  BY <2>2 DEF Newborn
<1> QED  BY <1>1 DEF Tracing, IsNew, IsNewChild, Newborn

-----------------------------------------------------------------------------
(* The actions                                                             *)

\* The first process has not executed its program: the daemon has not heard of it.
LEMMA SettingUpLemma ==
    ASSUME TraceInv, Follow(class), job.pid # 0, ~proc[1].executed
    PROVE  IsNew(job, proc)
  BY DEF TraceInv, Good, Tracing, IsNormal, IsNewChild

\* The first process changes while it sets itself up.
LEMMA SetUpLemma ==
    ASSUME TraceInv, ~proc[1].executed, proc[1].state # "none", NEW r,
           Differs(proc, r, 1), r[1].state \in {"setup", "stopped", "dead", "spinning"},
           r[1].state = "setup" => ~r[1].executed,
           r[1].stop \in {"none", "SIGSTOP", "SIGTRAP"} \/ r[1].stop = proc[1].stop,
           r[1].stop = "SIGTRAP" => r[1].executed \/ proc[1].stop = "SIGTRAP"
    PROVE  Good(class, job, r)
<1>1. 1 \in Pids  BY BoundsAssumption DEF Pids
<1>2. ASSUME Follow(class), job.pid # 0
      PROVE  Tracing(class, job, r)
  <2>1. IsNew(job, proc)  BY <1>2, SettingUpLemma
  <2>2. IsNew(job, r)  BY <2>1 DEF IsNew, Differs
  <2>3. Tracing(class, job, proc)  BY <1>2 DEF TraceInv, Good
  <2>4. \A p \in Pids : p # 1 => ~Held(r, p)
    BY <2>1 DEF IsNew, Held, Differs, TraceInv, Good, Tree
  <2> QED  BY <1>1, <2>1, <2>2, <2>3, <2>4 DEF Tracing, IsNew
<1> QED  BY <1>1, <1>2, GoodKept DEF TraceInv

LEMMA SpawnFailsLemma ==
    ASSUME TraceInv, NEW cause, SpawnFails(cause)
    PROVE  TraceInv'
<1>1. /\ class' \in Classes /\ class'.process = class.process
      /\ class'.expect = class.expect
  BY DEF SpawnFails, TraceInv, Good, Classes
<1>2. /\ JobOK(job') /\ job'.pid = job.pid /\ job'.state = job.state
      /\ job'.trace_state = job.trace_state /\ job'.trace_forks = job.trace_forks
  BY DEF SpawnFails, TraceInv, Good, JobOK, JobFields
<1>3. job.pid = 0 /\ proc' = proc  BY DEF SpawnFails, TraceInv, Good
<1>4. Follow(class') <=> Follow(class)  BY <1>1 DEF Follow
<1>5. Good(class', job', proc')
  BY <1>1, <1>2, <1>3, <1>4 DEF TraceInv, Good, Alone
<1> QED  BY <1>5 DEF TraceInv

LEMMA ForkLemma ==
    ASSUME TraceInv, Fork
    PROVE  TraceInv'
<1>1. /\ proc' = [proc EXCEPT ![1].state = "setup"] /\ class' = class
      /\ job.state = "spawning"
  BY DEF Fork
<1>2. /\ proc \in Procs /\ 1 \in Pids /\ Tree(proc)
      /\ \A p \in Pids : proc[p].state = "none"
  BY <1>1, BoundsAssumption DEF TraceInv, Good, Tree, Pids
<1>3. /\ JobOK(job') /\ job'.pid = 1
      /\ job'.state = (IF class.process = "main" THEN "spawned" ELSE "security")
      /\ job'.trace_state = (IF Follow(class) THEN "new" ELSE "none")
      /\ job'.trace_forks = 0
  <2>1. /\ job' = [job EXCEPT !.pid = 1,
                              !.state = IF class.process = "main" THEN "spawned"
                                        ELSE "security",
                              !.trace_state = IF Follow(class) THEN "new" ELSE "none"]
        /\ JobOK(job) /\ job.trace_forks = 0
    BY <1>1 DEF Fork, Traced, Follow, TraceInv, Good
  <2> QED  BY <2>1, BoundsAssumption DEF JobOK, JobFields
<1>4. /\ Differs(proc, proc', 1) /\ proc'[1].state = "setup"
      /\ proc'[1].stop = proc[1].stop /\ proc'[1].executed = proc[1].executed
  BY <1>1, <1>2 DEF Differs, Procs, Proc, ProcStates
<1>5. /\ ~proc[1].executed /\ \A p \in Pids : p # 1 => ~Held(proc', p)
      /\ \A p \in Pids : p # 1 => proc'[p].state = "none"
  BY <1>2, <1>4 DEF Tree, Held, Differs
<1>6. Tree(proc')
  BY <1>2, <1>4, <1>5 DEF Tree, Differs
<1>7. ~Follow(class) => Alone(job', proc')
  BY <1>3, <1>4, <1>5 DEF Alone
<1>8. ASSUME Follow(class) PROVE Tracing(class, job', proc')
  <2>1. proc'[1].stop = "none"  BY <1>2, <1>4 DEF Tree
  <2>2. IsNew(job', proc')  BY <1>3, <1>4, <1>5, <1>8, <2>1 DEF IsNew
  <2> QED  BY <1>2, <1>3, <1>4, <1>5, <1>8, <2>1, <2>2 DEF Tracing, Follow
<1>9. Good(class', job', proc')
  BY <1>1, <1>3, <1>6, <1>7, <1>8 DEF TraceInv, Good
<1> QED  BY <1>9 DEF TraceInv

LEMMA ChildStepLemma ==
    ASSUME TraceInv, ChildStep
    PROVE  TraceInv'
<1>1. proc[1].state = "setup" /\ class' = class /\ job' = job
  BY DEF ChildStep, SettingUp
<1>2. proc \in Procs /\ 1 \in Pids /\ ~proc[1].executed
  BY <1>1, BoundsAssumption DEF TraceInv, Good, Tree, Pids
<1>3. CASE Step = "debug"
  <2>1. proc' = Halt(proc, 1, "SIGSTOP")
    BY <1>3 DEF ChildStep, Halt
  <2>2. /\ Differs(proc, proc', 1) /\ proc'[1].state = "stopped"
        /\ proc'[1].stop = "SIGSTOP"
    BY <1>2, <2>1, HaltLemma DEF Stops
  <2> QED  BY <1>1, <1>2, <2>2, SetUpLemma DEF TraceInv
<1>4. CASE Step = "ptrace"
  <2> DEFINE yes == TRUE
  <2>1. yes \in BOOLEAN  OBVIOUS
  <2>2. proc' = [proc EXCEPT ![1].attached = yes]  BY <1>4 DEF ChildStep
  <2> HIDE DEF yes
  <2>3. /\ Differs(proc, proc', 1) /\ proc'[1].state = proc[1].state
        /\ proc'[1].stop = proc[1].stop /\ proc'[1].executed = proc[1].executed
    BY <1>2, <2>1, <2>2 DEF Differs, Procs, Proc
  <2> QED  BY <1>1, <1>2, <2>3, SetUpLemma DEF TraceInv
<1>5. CASE Step = "exec" /\ Traced
  <2>1. proc' = ExecHalt(proc, 1, "SIGTRAP")
    BY <1>5 DEF ChildStep, ExecHalt
  <2>2. /\ Differs(proc, proc', 1) /\ proc'[1].state = "stopped"
        /\ proc'[1].stop = "SIGTRAP" /\ proc'[1].executed
    BY <1>2, <2>1, ExecHaltLemma DEF Stops
  <2> QED  BY <1>1, <1>2, <2>2, SetUpLemma DEF TraceInv
<1>6. CASE Step = "exec" /\ ~Traced
  <2> DEFINE yes == TRUE
  <2>1. yes \in BOOLEAN  OBVIOUS
  <2>2. proc' = [proc EXCEPT ![1].state = "running", ![1].executed = yes]
    BY <1>6 DEF ChildStep
  <2> HIDE DEF yes
  <2>3. Differs(proc, proc', 1) /\ proc'[1].state = "running"
    BY <1>2, <2>1, <2>2 DEF Differs, Procs, Proc, ProcStates
  <2>4. ~Follow(class)  BY <1>6 DEF Traced, Follow
  <2> QED  BY <1>1, <1>2, <2>3, <2>4, GoodKept DEF TraceInv
<1>7. CASE Step \notin {"debug", "ptrace", "exec"}
  BY <1>1, <1>7 DEF ChildStep, TraceInv
<1> QED  BY <1>3, <1>4, <1>5, <1>6, <1>7

LEMMA ErrorAbortLemma ==
    ASSUME TraceInv, job_process_error_abort
    PROVE  TraceInv'
<1>1. proc[1].state = "setup" /\ class' = class /\ job' = job
  BY DEF job_process_error_abort, SettingUp
<1>2. proc \in Procs /\ 1 \in Pids /\ ~proc[1].executed
  BY <1>1, BoundsAssumption DEF TraceInv, Good, Tree, Pids
<1>3. \/ proc' = [proc EXCEPT ![1].state = "spinning"]
      \/ proc' = Abort(proc, 1)
  BY DEF job_process_error_abort, Abort
<1>4. /\ Differs(proc, proc', 1) /\ proc'[1].state \in {"spinning", "dead"}
      /\ proc'[1].stop = proc[1].stop /\ proc'[1].executed = proc[1].executed
  <2>1. CASE proc' = [proc EXCEPT ![1].state = "spinning"]
    BY <1>2, <2>1 DEF Differs, Procs, Proc, ProcStates
  <2>2. CASE proc' = Abort(proc, 1)
    BY <1>2, <2>2, AbortLemma
  <2> QED  BY <1>3, <2>1, <2>2
<1> QED  BY <1>1, <1>2, <1>4, SetUpLemma DEF TraceInv

LEMMA ChildAssertsLemma ==
    ASSUME TraceInv, ChildAsserts
    PROVE  TraceInv'
<1>1. /\ proc[1].state = "setup" /\ class' = class /\ job' = job
  BY DEF ChildAsserts, SettingUp
<1>2. proc \in Procs /\ 1 \in Pids /\ ~proc[1].executed
  BY <1>1, BoundsAssumption DEF TraceInv, Good, Tree, Pids
<1>3. proc' = Abort(proc, 1)
  BY DEF ChildAsserts, Abort
<1>4. /\ Differs(proc, proc', 1) /\ proc'[1].state = "dead"
      /\ proc'[1].stop = proc[1].stop /\ proc'[1].executed = proc[1].executed
  BY <1>2, <1>3, AbortLemma
<1> QED  BY <1>1, <1>2, <1>4, SetUpLemma DEF TraceInv

LEMMA DebuggerLemma ==
    ASSUME TraceInv, Debugger
    PROVE  TraceInv'
<1>1. /\ proc[1].state = "stopped" /\ ~proc[1].executed
      /\ class' = class /\ job' = job /\ proc' = Continue(proc, 1)
  BY DEF Debugger
<1>2. proc \in Procs /\ 1 \in Pids
  BY BoundsAssumption DEF TraceInv, Good, Tree, Pids
<1>3. Goes(proc, 1) = "setup"  BY <1>1 DEF Goes
<1>4. /\ Differs(proc, proc', 1) /\ proc'[1].state = "setup"
      /\ proc'[1].stop = "none" /\ proc'[1].executed = proc[1].executed
  BY <1>1, <1>2, <1>3, ContinueLemma
<1> QED  BY <1>1, <1>2, <1>4, SetUpLemma DEF TraceInv

\* job_process_child_reader: a job whose set-up has failed follows nobody.
LEMMA ChildReaderLemma ==
    ASSUME TraceInv, job_process_child_reader
    PROVE  TraceInv'
<1>1. /\ job' = [job EXCEPT !.told = child.wrote, !.pid = 0, !.state = "failed"]
      /\ class' = class /\ proc' = proc
  BY DEF job_process_child_reader
<1>2. /\ JobOK(job') /\ job'.pid = 0 /\ job'.state = "failed"
      /\ job'.trace_state = job.trace_state
  BY <1>1, BoundsAssumption DEF TraceInv, Good, JobOK, JobFields
<1>3. Good(class', job', proc')  BY <1>1, <1>2 DEF TraceInv, Good, Alone
<1> QED  BY <1>3 DEF TraceInv

LEMMA CloseHandlerLemma ==
    ASSUME TraceInv, job_process_close_handler
    PROVE  TraceInv'
<1>1. /\ job' = [job EXCEPT !.told = "started",
                            !.state = IF @ = "spawned" /\ class.expect = "none"
                                      THEN "running" ELSE @]
      /\ class' = class /\ proc' = proc /\ job.state # "spawning"
  BY DEF job_process_close_handler, Awaited
<1>2. /\ JobOK(job') /\ job'.pid = job.pid /\ job'.trace_state = job.trace_state
      /\ job'.trace_forks = job.trace_forks
      /\ job'.state = (IF job.state = "spawned" /\ class.expect = "none"
                       THEN "running" ELSE job.state)
  BY <1>1 DEF TraceInv, Good, JobOK, JobFields
<1>3. Follow(class) => job'.state = job.state  BY <1>2 DEF Follow
<1>4. Follow(class) /\ job.pid # 0 => Tracing(class, job', proc)
  BY <1>2, <1>3 DEF TraceInv, Good, Tracing, IsNew, IsNormal, IsNewChild
<1>5. Good(class', job', proc')
  BY <1>1, <1>2, <1>4 DEF TraceInv, Good, Alone
<1> QED  BY <1>5 DEF TraceInv

LEMMA BirthStopLemma ==
    ASSUME TraceInv, NEW p \in Pids, BirthStop(p)
    PROVE  TraceInv'
<1>1. /\ proc[p].state = "born" /\ class' = class /\ job' = job
  BY DEF BirthStop
<1>2. proc \in Procs /\ "SIGSTOP" \in Stops  BY DEF TraceInv, Good, Tree, Stops
<1>5. proc' = Halt(proc, p, "SIGSTOP")
  BY DEF BirthStop, Stopped, Halt
<1>3. /\ Differs(proc, proc', p) /\ proc'[p].state = "stopped"
      /\ proc'[p].stop = "SIGSTOP" /\ proc'[p].attached = proc[p].attached
      /\ proc'[p].options = proc[p].options /\ proc'[p].executed = proc[p].executed
  BY <1>2, <1>5, HaltLemma
<1>4. ASSUME Follow(class), job.pid # 0
      PROVE  Tracing(class, job, proc')
  <2>1. Tracing(class, job, proc)  BY <1>4 DEF TraceInv, Good
  <2>2. CASE p # job.pid
    <3>1. Held(proc', p) => Held(proc, p)  BY <1>1, <1>3 DEF Held
    <3>2. Newborn(proc, p) => proc'[p].attached  BY <1>3 DEF Newborn
    <3> QED  BY <1>1, <1>3, <2>1, <2>2, <3>1, <3>2, ElsewhereLemma
  <2>3. CASE p = job.pid
    <3>1. ~IsNew(job, proc) /\ ~IsNormal(class, job, proc)
      BY <1>1, <2>3 DEF IsNew, IsNormal
    <3>2. \A x \in Pids : /\ proc'[x].parent = proc[x].parent
                          /\ proc'[x].executed = proc[x].executed
      BY <1>3 DEF Differs
    <3>3. 1 \in Pids  BY BoundsAssumption DEF Pids
    <3>4. \A x \in Pids : Held(proc', x) <=> Held(proc, x)
      BY <1>1, <1>3 DEF Held, Differs
    <3>5. IsNewChild(class, job, proc) => IsNewChild(class, job, proc')
      <4>1. Newborn(proc, p) => Newborn(proc', p)
        BY <1>3, <3>2 DEF Newborn, Childless
      <4> QED  BY <1>1, <1>3, <2>3, <3>2, <4>1 DEF IsNewChild
    <3>6. FollowedFar(class, proc, p) => FollowedFar(class, proc', p)
      BY <3>2 DEF FollowedFar
    <3>7. proc[p].stop # "PTRACE_EVENT_FORK"  BY <1>1, <2>1, <2>3 DEF Tracing
    <3> QED
      BY <1>3, <2>1, <2>3, <3>1, <3>2, <3>3, <3>4, <3>5, <3>6, <3>7 DEF Tracing
  <2> QED  BY <2>2, <2>3
<1> QED  BY <1>1, <1>3, <1>4, GoodKept DEF TraceInv

\* The followed process stops for another reason than a fork.
LEMMA FollowedStops ==
    ASSUME NEW k, NEW j, NEW q, NEW r, Tracing(k, j, q), IsNormal(k, j, q),
           q[j.pid].state = "running", q[j.pid].stop # "PTRACE_EVENT_FORK",
           Differs(q, r, j.pid), r[j.pid].state = "stopped",
           r[j.pid].stop # "PTRACE_EVENT_FORK",
           r[j.pid].options = q[j.pid].options, q[j.pid].executed => r[j.pid].executed,
           r[j.pid].stop = "PTRACE_EVENT_EXEC" => r[j.pid].executed
    PROVE  Tracing(k, j, r)
<1> DEFINE P == j.pid
<1>1. P \in Pids /\ 1 \in Pids  BY BoundsAssumption DEF Tracing, Pids
<1>2. \A x \in Pids : /\ r[x].parent = q[x].parent
                      /\ q[x].executed => r[x].executed
  BY DEF Differs
<1>3. \A x \in Pids : x # P => ~Held(r, x)  BY DEF Tracing, Held, Differs
<1>4. IsNormal(k, j, r)  BY <1>1, <1>2 DEF IsNormal, Childless
<1>5. j.trace_state = "normal" /\ j.state \in {"spawned", "killed"}
  BY DEF IsNormal, Tracing
<1> QED  BY <1>1, <1>2, <1>3, <1>4, <1>5 DEF Tracing

LEMMA ExecsLemma ==
    ASSUME TraceInv, NEW p \in Pids, Execs(p)
    PROVE  TraceInv'
<1> DEFINE why == IF proc[p].options THEN "PTRACE_EVENT_EXEC" ELSE "SIGTRAP"
<1>1. /\ proc[p].state = "running" /\ class' = class /\ job' = job /\ proc[p].attached
  BY DEF Execs, Program
<1>6. proc' = ExecHalt(proc, p, why)
  BY DEF Execs, ExecHalt
<1>2. proc \in Procs  BY DEF TraceInv, Good, Tree
<1>3. why \in Stops /\ why # "PTRACE_EVENT_FORK"  BY DEF Stops
<1> HIDE DEF why
<1>4. /\ Differs(proc, proc', p) /\ proc'[p].state = "stopped" /\ proc'[p].stop = why
      /\ proc'[p].options = proc[p].options /\ proc'[p].executed
  BY <1>2, <1>3, <1>6, ExecHaltLemma
<1>5. ASSUME Follow(class), job.pid # 0
      PROVE  Tracing(class, job, proc')
  <2>1. Tracing(class, job, proc)  BY <1>5 DEF TraceInv, Good
  <2>2. /\ p = job.pid /\ IsNormal(class, job, proc)
        /\ proc[p].stop # "PTRACE_EVENT_FORK"
    BY <1>1, <2>1, HeldRunning DEF Held
  <2> QED  BY <1>1, <1>3, <1>4, <2>1, <2>2, FollowedStops
<1> QED  BY <1>1, <1>4, <1>5, GoodKept DEF TraceInv

LEMMA GetsSignalLemma ==
    ASSUME TraceInv, NEW p \in Pids, GetsSignal(p)
    PROVE  TraceInv'
<1>1. /\ proc[p].state = "running" /\ class' = class /\ job' = job /\ proc[p].attached
  BY DEF GetsSignal, Program
<1>2. proc \in Procs /\ "signal" \in Stops  BY DEF TraceInv, Good, Tree, Stops
<1>5. proc' = Halt(proc, p, "signal")
  BY <1>1 DEF GetsSignal, Signalled, Halt
<1>3. /\ Differs(proc, proc', p) /\ proc'[p].state = "stopped"
      /\ proc'[p].stop = "signal" /\ proc'[p].options = proc[p].options
      /\ proc'[p].executed = proc[p].executed
  BY <1>2, <1>5, HaltLemma
<1>4. ASSUME Follow(class), job.pid # 0
      PROVE  Tracing(class, job, proc')
  <2>1. Tracing(class, job, proc)  BY <1>4 DEF TraceInv, Good
  <2>2. /\ p = job.pid /\ IsNormal(class, job, proc)
        /\ proc[p].stop # "PTRACE_EVENT_FORK"
    BY <1>1, <2>1, HeldRunning DEF Held
  <2> QED  BY <1>1, <1>3, <2>1, <2>2, FollowedStops
<1> QED  BY <1>1, <1>3, <1>4, GoodKept DEF TraceInv

LEMMA RaisesStopLemma ==
    ASSUME TraceInv, NEW p \in Pids, RaisesStop(p)
    PROVE  TraceInv'
<1>1. /\ proc[p].state = "running" /\ class' = class /\ job' = job
      /\ class.expect = "stop"
      /\ proc' = Halt(proc, p, "SIGSTOP")
  BY DEF RaisesStop, Program, Stopped, Halt
<1>2. proc \in Procs  BY DEF TraceInv, Good, Tree
<1>3. Differs(proc, proc', p) /\ proc'[p].state = "stopped"
  BY <1>1, <1>2, HaltLemma DEF Stops
<1>4. ~Follow(class)  BY <1>1 DEF Follow
<1> QED  BY <1>1, <1>3, <1>4, GoodKept DEF TraceInv

LEMMA ExitsLemma ==
    ASSUME TraceInv, NEW p \in Pids, Exits(p)
    PROVE  TraceInv'
<1>1. /\ proc[p].state = "running" /\ class' = class /\ job' = job
      /\ proc' = Die(proc, p)
  BY DEF Exits, Program, Die
<1>2. proc \in Procs  BY DEF TraceInv, Good, Tree
<1>3. /\ Differs(proc, proc', p) /\ proc'[p].state = "dead"
      /\ proc'[p].stop = proc[p].stop /\ ~proc'[p].attached
      /\ proc'[p].executed = proc[p].executed
  BY <1>1, <1>2, DieLemma
<1>4. ~Held(proc', p)  BY <1>3 DEF Held
<1>5. ASSUME Follow(class), job.pid # 0
      PROVE  Tracing(class, job, proc')
  <2>1. Tracing(class, job, proc)  BY <1>5 DEF TraceInv, Good
  <2>2. CASE p # job.pid
    <3>1. ~Newborn(proc, p)  BY <1>1 DEF Newborn
    <3> QED  BY <1>1, <1>3, <1>4, <2>1, <2>2, <3>1, ElsewhereLemma
  <2>3. CASE p = job.pid
    <3>1. proc[p].stop # "PTRACE_EVENT_FORK"  BY <1>1, <2>1, <2>3 DEF Tracing
    <3>2. ~IsNew(job, proc) /\ ~IsNewChild(class, job, proc)
      BY <1>1, <2>3 DEF IsNew, IsNewChild, Newborn
    <3>3. \A x \in Pids : /\ proc'[x].parent = proc[x].parent
                          /\ proc'[x].executed = proc[x].executed
      BY <1>3 DEF Differs
    <3>4. 1 \in Pids  BY BoundsAssumption DEF Pids
    <3>5. \A x \in Pids : Held(proc', x) => Held(proc, x)
      BY <1>3, <1>4 DEF Held, Differs
    <3>6. IsNormal(class, job, proc) => IsNormal(class, job, proc')
      BY <1>3, <2>3, <3>3 DEF IsNormal
    <3>7. FollowedFar(class, proc, p) => FollowedFar(class, proc', p)
      BY <3>3 DEF FollowedFar
    <3> QED
      BY <1>3, <2>1, <2>3, <3>1, <3>2, <3>3, <3>4, <3>5, <3>6, <3>7 DEF Tracing
  <2> QED  BY <2>2, <2>3
<1> QED  BY <1>1, <1>3, <1>5, GoodKept DEF TraceInv

\* Process n is forked by p.
Grows(q, r, p, n) ==
    /\ r \in Procs
    /\ \A x \in Pids : x # n =>
            /\ r[x].parent = q[x].parent /\ r[x].executed = q[x].executed
            /\ r[x].state = "none" <=> q[x].state = "none"
            /\ r[x].state = "setup" => q[x].state = "setup"
            /\ q[x].state = "none" => r[x] = q[x]
    /\ r[n].parent = p /\ ~r[n].executed /\ r[n].state \in {"running", "born"}

LEMMA GrownTree ==
    ASSUME NEW q, NEW r, NEW p \in Pids, NEW n \in Pids, Tree(q), Grows(q, r, p, n),
           q[n].state = "none", q[p].state # "none", n # 1
    PROVE  Tree(r)
<1>1. 1 \in Pids /\ p # n  BY BoundsAssumption DEF Pids
<1>2. \A x \in Pids : r[x].parent # 0 => r[r[x].parent].state # "none"
  <2> SUFFICES ASSUME NEW x \in Pids, r[x].parent # 0
               PROVE  r[r[x].parent].state # "none"
    OBVIOUS
  <2>1. CASE x = n  BY <2>1, <1>1 DEF Grows
  <2>2. CASE x # n
    <3>1. q[x].parent # 0 /\ r[x].parent = q[x].parent  BY <2>2 DEF Grows
    <3>2. q[x].parent \in Pids /\ q[q[x].parent].state # "none"
      BY <3>1, BoundsAssumption DEF Tree, Procs, Proc, Pids
    <3>3. q[x].parent # n  BY <3>2
    <3> QED  BY <3>1, <3>2, <3>3 DEF Grows
  <2> QED  BY <2>1, <2>2
<1>3. \A x \in Pids : r[x].state = "none" =>
            /\ ~r[x].attached /\ ~r[x].options /\ ~r[x].executed
            /\ r[x].parent = 0 /\ r[x].stop = "none"
  <2> SUFFICES ASSUME NEW x \in Pids, r[x].state = "none"
               PROVE  /\ ~r[x].attached /\ ~r[x].options /\ ~r[x].executed
                      /\ r[x].parent = 0 /\ r[x].stop = "none"
    OBVIOUS
  <2>1. x # n  BY DEF Grows
  <2>2. r[x] = q[x] /\ q[x].state = "none"  BY <2>1 DEF Grows
  <2> QED  BY <2>2 DEF Tree
<1>4. \A x \in Pids : r[x].state = "setup" => x = 1 /\ ~r[x].executed
  BY DEF Tree, Grows
<1> QED  BY <1>1, <1>2, <1>3, <1>4 DEF Tree, Grows

\* fork() of a process that is not followed: the new one is not traced.
LEMMA PlainForkTracing ==
    ASSUME NEW k, NEW j, NEW q, NEW r, NEW p \in Pids, NEW n \in Pids,
           Tree(q), Tracing(k, j, q), q[n].state = "none", n # 1, q[p].state = "running",
           ~q[p].options, r \in Procs, \A x \in Pids : x # n => r[x] = q[x],
           r[n].parent = p, ~r[n].attached, ~r[n].options
    PROVE  Tracing(k, j, r)
<1> DEFINE P == j.pid
<1>1. /\ P \in Pids /\ 1 \in Pids /\ n # P /\ r[P] = q[P]
      /\ q[n].parent = 0 /\ p # n
  BY BoundsAssumption DEF Tracing, Pids, Tree
<1>2. \A x \in Pids : Held(r, x) => Held(q, x) /\ x # n
  BY DEF Held
<1>3. ~IsNew(j, q)  BY DEF IsNew
<1>4. ~Newborn(q, p) /\ ~Newborn(q, n)  BY DEF Newborn
<1>5. \A x \in Pids : Newborn(q, x) => Newborn(r, x)
  <2> SUFFICES ASSUME NEW x \in Pids, Newborn(q, x) PROVE Newborn(r, x)  OBVIOUS
  <2>1. x # n /\ x # p  BY <1>4
  <2> QED  BY <2>1 DEF Newborn, Childless
<1>6. CASE j.trace_state = "none"
  <2>1. q[P].stop # "PTRACE_EVENT_FORK"  BY <1>6 DEF Tracing
  <2>2. \A x \in Pids : ~Held(q, x)
    BY <1>6 DEF Tracing, IsNew, IsNormal, IsNewChild
  <2>3. FollowedFar(k, q, P) => FollowedFar(k, r, P)
    BY <1>1 DEF FollowedFar
  <2> QED  BY <1>1, <1>2, <1>6, <2>1, <2>2, <2>3 DEF Tracing
<1>7. CASE j.trace_state # "none"
  <2>1. IsNormal(k, j, q) \/ IsNewChild(k, j, q)  BY <1>3, <1>7 DEF Tracing
  <2>2. p # P  BY <2>1 DEF IsNormal, IsNewChild, Newborn
  <2>3. Delivered(q, P) => Delivered(r, P)
    <3> SUFFICES ASSUME Delivered(q, P) PROVE Delivered(r, P)  OBVIOUS
    <3>1. PICK c \in Pids : /\ q[c].parent = P /\ Newborn(q, c)
                            /\ \A d \in Pids : q[d].parent = P => d = c
      BY DEF Delivered
    <3>2. c # n /\ r[c].parent = P /\ Newborn(r, c)  BY <1>4, <1>5, <3>1
    <3>3. \A d \in Pids : r[d].parent = P => d = c  BY <2>2, <3>1
    <3> QED  BY <3>2, <3>3 DEF Delivered
  <2>4. IsNormal(k, j, q) => IsNormal(k, j, r)
    <3>1. Childless(q, P) => Childless(r, P)  BY <2>2 DEF Childless
    <3> QED  BY <1>1, <3>1 DEF IsNormal
  <2>5. IsNewChild(k, j, q) => IsNewChild(k, j, r)
    BY <1>1, <1>5 DEF IsNewChild
  <2>6. j.state # "running"  BY <1>7 DEF Tracing
  <2> QED  BY <1>1, <1>2, <1>7, <2>1, <2>3, <2>4, <2>5, <2>6 DEF Tracing
<1> QED  BY <1>6, <1>7

\* fork() of the process that is followed: both stop.
LEMMA TracedForkTracing ==
    ASSUME NEW k, NEW j, NEW q, NEW r, NEW n \in Pids,
           Tree(q), Tracing(k, j, q), IsNormal(k, j, q), q[n].state = "none", n # 1,
           q[j.pid].state = "running", q[j.pid].stop # "PTRACE_EVENT_FORK", r \in Procs,
           \A x \in Pids : x # n /\ x # j.pid => r[x] = q[x],
           r[j.pid].state = "stopped", r[j.pid].stop = "PTRACE_EVENT_FORK",
           r[j.pid].options = q[j.pid].options, r[j.pid].executed = q[j.pid].executed,
           r[j.pid].parent = q[j.pid].parent,
           r[n].parent = j.pid, r[n].state = "born", r[n].stop = "none", r[n].attached
    PROVE  Tracing(k, j, r)
<1> DEFINE P == j.pid
<1>1. P \in Pids /\ 1 \in Pids /\ n # P  BY BoundsAssumption DEF Tracing, Pids
<1>2. Childless(q, P)  BY DEF IsNormal
<1>3. Childless(q, n)
  <2> SUFFICES ASSUME NEW c \in Pids, q[c].parent = n PROVE FALSE  BY DEF Childless
  <2>1. n # 0  BY DEF Pids
  <2> QED  BY <2>1 DEF Tree
<1>4. \A x \in Pids : x # n => r[x].parent = q[x].parent /\ r[x].executed = q[x].executed
  OBVIOUS
<1>5. Newborn(r, n)  BY <1>1, <1>3, <1>4 DEF Newborn, Childless
<1>6. Delivered(r, P)  BY <1>2, <1>4, <1>5 DEF Delivered, Childless
<1>7. \A x \in Pids : x # P /\ x # n => ~Held(r, x)  BY DEF Tracing, Held
<1>8. j.trace_state = "normal" /\ j.state # "running"  BY DEF IsNormal, Tracing
<1>9. IsNormal(k, j, r)  BY <1>1 DEF IsNormal
<1> QED  BY <1>1, <1>4, <1>6, <1>7, <1>8, <1>9 DEF Tracing

LEMMA ForksLemma ==
    ASSUME TraceInv, NEW p \in Pids, Forks(p)
    PROVE  TraceInv'
<1>1. /\ proc[p].state = "running" /\ class' = class /\ job' = job /\ Follow(class)
  BY DEF Forks, Program, Traced, Follow
<1>2. PICK n \in 2..MaxProc :
        /\ proc[n].state = "none"
        /\ LET new == [NoProc EXCEPT !.state = "running", !.parent = p]
           IN  proc' =
                IF proc[p].options
                THEN [proc EXCEPT ![p].state = "stopped",
                                  ![p].stop = "PTRACE_EVENT_FORK",
                                  ![p].noted = FALSE,
                                  ![n] = [new EXCEPT !.state = "born", !.options = TRUE,
                                                     !.attached = TRUE]]
                ELSE [proc EXCEPT ![n] = new]
  BY DEF Forks
<1>3. n \in Pids /\ n # 1 /\ n # p /\ proc \in Procs /\ Tree(proc)
  BY <1>1, <1>2, BoundsAssumption DEF Pids, TraceInv, Good, Tree
<1>4. job.state # "spawning"  BY <1>1 DEF TraceInv, Good
<1> DEFINE new == [NoProc EXCEPT !.state = "running", !.parent = p]
<1>5. CASE proc[p].options
  <2> DEFINE born == [new EXCEPT !.state = "born", !.options = TRUE, !.attached = TRUE]
             halted == Halt(proc, p, "PTRACE_EVENT_FORK")
  <2>1. proc' = [halted EXCEPT ![n] = born]  BY <1>2, <1>3, <1>5 DEF Halt
  <2>2. /\ born \in Proc /\ born.state = "born" /\ born.stop = "none"
        /\ born.attached /\ born.parent = p /\ ~born.executed
    <3> DEFINE yes == TRUE
               one == [NoProc EXCEPT !.state = "born", !.parent = p, !.options = yes,
                                     !.attached = yes]
    <3>1. born = one  BY NoProcLemma DEF Proc
    <3>2. yes \in BOOLEAN /\ yes  OBVIOUS
    <3> HIDE DEF yes, born
    <3>3. /\ one \in Proc /\ one.state = "born" /\ one.stop = "none"
          /\ one.attached = yes /\ one.parent = p /\ one.executed = NoProc.executed
      <4>1. p \in 0..MaxProc /\ NoProc \in Proc /\ "born" \in ProcStates
        BY BoundsAssumption, NoProcLemma DEF Pids, ProcStates
      <4>2. one \in Proc  BY <3>2, <4>1 DEF Proc
      <4>3. /\ one.state = "born" /\ one.stop = NoProc.stop
            /\ one.attached = yes /\ one.parent = p /\ one.executed = NoProc.executed
        BY <4>1 DEF Proc
      <4> QED  BY <4>2, <4>3, NoProcLemma
    <3> HIDE DEF one
    <3> QED  BY <3>1, <3>2, <3>3, NoProcLemma
  <2>3. /\ Differs(proc, halted, p) /\ halted[p].state = "stopped"
        /\ halted[p].stop = "PTRACE_EVENT_FORK"
        /\ halted[p].options = proc[p].options
        /\ halted[p].executed = proc[p].executed
    BY <1>3, HaltLemma DEF Stops
  <2> HIDE DEF born, halted
  <2>4. halted \in Procs  BY <2>3 DEF Differs
  <2>5. /\ proc' \in Procs /\ proc'[n] = born
        /\ \A x \in Pids : x # n => proc'[x] = halted[x]
    BY <1>3, <2>1, <2>2, <2>4 DEF Procs
  <2>6. /\ \A x \in Pids : x # n /\ x # p => proc'[x] = proc[x]
        /\ proc'[p] = halted[p] /\ halted[p].parent = proc[p].parent
    BY <1>3, <2>3, <2>5 DEF Differs
  <2>7. Grows(proc, proc', p, n)
    BY <1>1, <1>3, <2>2, <2>3, <2>5, <2>6 DEF Grows
  <2>8. Tree(proc')  BY <1>1, <1>2, <1>3, <2>7, GrownTree
  <2>9. ASSUME job.pid # 0 PROVE Tracing(class, job, proc')
    <3>1. Tracing(class, job, proc)  BY <1>1, <2>9 DEF TraceInv, Good
    <3>2. /\ p = job.pid /\ IsNormal(class, job, proc)
          /\ proc[p].stop # "PTRACE_EVENT_FORK"
      BY <1>1, <1>5, <3>1, HeldRunning DEF Held
    <3>3. /\ proc[n].state = "none" /\ proc[job.pid].state = "running"
          /\ proc[job.pid].stop # "PTRACE_EVENT_FORK"
          /\ \A x \in Pids : x # n /\ x # job.pid => proc'[x] = proc[x]
          /\ proc'[job.pid].state = "stopped"
          /\ proc'[job.pid].stop = "PTRACE_EVENT_FORK"
          /\ proc'[job.pid].options = proc[job.pid].options
          /\ proc'[job.pid].executed = proc[job.pid].executed
          /\ proc'[job.pid].parent = proc[job.pid].parent
      BY <1>1, <1>2, <2>3, <2>6, <3>2
    <3>4. /\ proc'[n].parent = job.pid /\ proc'[n].state = "born"
          /\ proc'[n].stop = "none" /\ proc'[n].attached
      BY <2>2, <2>5, <3>2
    <3> QED  BY <1>3, <2>5, <3>1, <3>2, <3>3, <3>4, TracedForkTracing
  <2>10. Good(class', job', proc')
    BY <1>1, <1>4, <2>8, <2>9 DEF TraceInv, Good
  <2> QED  BY <2>10 DEF TraceInv
<1>6. CASE ~proc[p].options
  <2>1. proc' = [proc EXCEPT ![n] = new]  BY <1>2, <1>6
  <2>2. /\ new \in Proc /\ new.state = "running" /\ ~new.attached /\ ~new.options
        /\ new.parent = p /\ ~new.executed
    <3>1. /\ new \in Proc /\ new.state = "running" /\ new.parent = p
          /\ new.attached = NoProc.attached /\ new.options = NoProc.options
          /\ new.executed = NoProc.executed
      <4>1. p \in 0..MaxProc /\ NoProc \in Proc /\ "running" \in ProcStates
        BY BoundsAssumption, NoProcLemma DEF Pids, ProcStates
      <4> QED  BY <4>1 DEF Proc
    <3> QED  BY <3>1, NoProcLemma
  <2> HIDE DEF new
  <2>3. /\ proc' \in Procs /\ proc'[n] = new
        /\ \A x \in Pids : x # n => proc'[x] = proc[x]
    BY <1>3, <2>1, <2>2 DEF Procs
  <2>4. Grows(proc, proc', p, n)  BY <2>2, <2>3 DEF Grows
  <2>5. Tree(proc')  BY <1>1, <1>2, <1>3, <2>4, GrownTree
  <2>6. ASSUME job.pid # 0 PROVE Tracing(class, job, proc')
    <3>1. Tracing(class, job, proc)  BY <1>1, <2>6 DEF TraceInv, Good
    <3>2. /\ proc[n].state = "none" /\ proc'[n].parent = p
          /\ ~proc'[n].attached /\ ~proc'[n].options
      BY <1>2, <2>2, <2>3
    <3> QED  BY <1>1, <1>3, <1>6, <2>3, <3>1, <3>2, PlainForkTracing
  <2>7. Good(class', job', proc')
    BY <1>1, <1>4, <2>5, <2>6 DEF TraceInv, Good
  <2> QED  BY <2>7 DEF TraceInv
<1> QED  BY <1>5, <1>6

\* job_process_handler finds the job by the pid it follows; other reports are
\* dropped.
LEMMA ChildPollLemma ==
    ASSUME TraceInv, NEW p \in Pids, ChildPoll(p)
    PROVE  TraceInv'
<1> DEFINE q == [proc EXCEPT ![p].noted = TRUE]
<1>1. /\ job.state # "spawning" /\ proc[p].state \in {"stopped", "dead"}
      /\ class' = class
  BY DEF ChildPoll
<1>2. proc \in Procs /\ Tree(proc) /\ class \in Classes /\ JobOK(job)
  BY DEF TraceInv, Good, Tree
<1>3. /\ Differs(proc, q, p)
      /\ q[p].state = proc[p].state /\ q[p].stop = proc[p].stop
      /\ q[p].attached = proc[p].attached /\ q[p].options = proc[p].options
      /\ q[p].executed = proc[p].executed
  BY <1>2, NoteLemma
<1>4. \/ job.pid # p /\ job' = job /\ proc' = q
      \/ /\ job.pid = p /\ job' = job_process_handler(job, q, p).job
         /\ proc' = job_process_handler(job, q, p).proc
  BY DEF ChildPoll, State
<1> HIDE DEF q
<1>5. Good(class, job, q)
  <2>1. Follow(class) /\ job.pid # 0 => Tracing(class, job, q)
    BY <1>3, TracingKept DEF TraceInv, Good
  <2> QED  BY <1>1, <1>3, <2>1, GoodKept DEF TraceInv
<1>6. CASE job.pid # p
  BY <1>1, <1>4, <1>5, <1>6 DEF TraceInv
<1>7. CASE job.pid = p
  <2>1. job.pid # 0  BY <1>7 DEF Pids
  <2>2. CASE Follow(class)
    <3>1. Following(job, q) /\ q[job.pid].state \in {"stopped", "dead"}
      BY <1>1, <1>3, <1>5, <1>7, <2>1, <2>2 DEF Good, Following
    <3>2. /\ JobOK(job') /\ Tree(proc')
          /\ \/ Following(job', proc') /\ job'.pid # 0
             \/ job'.pid = 0 /\ job'.state = "terminated"
      BY <1>4, <1>7, <3>1, FollowedHandlerLemma
    <3>3. Good(class', job', proc')
      BY <1>1, <1>2, <2>2, <3>2 DEF Good, Following, Tracing
    <3> QED  BY <3>3 DEF TraceInv
  <2>3. CASE ~Follow(class)
    <3>1. Alone(job, q) /\ job.pid = 1 /\ p = 1
      BY <1>5, <1>7, <2>1, <2>3 DEF Good, Alone
    <3>2. job.state \notin {"spawning", "failed", "terminated"} /\ Tree(q)
      BY <1>5, <2>1 DEF Good
    <3>3. q[1].state \in {"stopped", "dead"}  BY <1>1, <1>3, <3>1
    <3>4. /\ JobOK(job') /\ Tree(proc') /\ Alone(job', proc')
          /\ \/ job'.pid = 1 /\ job'.state \notin {"spawning", "failed", "terminated"}
             \/ job'.pid = 0 /\ job'.state = "terminated"
      BY <1>2, <1>4, <2>3, <3>1, <3>2, <3>3, AloneHandlerLemma
    <3>5. Good(class', job', proc')
      BY <1>1, <1>2, <2>3, <3>4 DEF Good
    <3> QED  BY <3>5 DEF TraceInv
  <2> QED  BY <2>2, <2>3
<1> QED  BY <1>6, <1>7

LEMMA StopLemma ==
    ASSUME TraceInv, Stop
    PROVE  TraceInv'
<1>1. /\ job' = [job EXCEPT !.state = "killed"] /\ job.state = "running"
      /\ class' = class /\ proc' = proc
  BY DEF Stop
<1>2. /\ JobOK(job') /\ job'.pid = job.pid /\ job'.state = "killed"
      /\ job'.trace_state = job.trace_state /\ job'.trace_forks = job.trace_forks
  BY <1>1 DEF TraceInv, Good, JobOK, JobFields
<1>3. Follow(class) => Tracing(class, job', proc)
  <2>1. Follow(class) => Tracing(class, job, proc)
    BY <1>1 DEF TraceInv, Good
  <2> QED  BY <1>1, <1>2, <2>1 DEF Tracing, IsNew, IsNormal, IsNewChild
<1>4. Good(class, job', proc)
  BY <1>1, <1>2, <1>3 DEF TraceInv, Good, Alone
<1> QED  BY <1>1, <1>4 DEF TraceInv

\* SIGKILL ends the process that is followed and the one it has just forked.
LEMMA KillTimerLemma ==
    ASSUME TraceInv, KillTimer
    PROVE  TraceInv'
<1> DEFINE P == job.pid
           Hit(x) == x = P \/ proc[x].attached
<1>1. /\ class' = class /\ job' = job /\ job.state = "killed" /\ P # 0
  BY DEF KillTimer
<1>2. proc \in Procs /\ P \in Pids /\ 1 \in Pids /\ Tree(proc)
  BY <1>1, BoundsAssumption DEF TraceInv, Good, Tree, JobOK, Pids
<1>3. proc[P].state # "none"
  BY <1>1, <1>2 DEF TraceInv, Good, Tracing, Alone
<1> DEFINE Killed(x) == [proc[x] EXCEPT !.state = "dead", !.stop = "none",
                                        !.noted = FALSE, !.attached = FALSE]
<1>4. proc' = [x \in Pids |-> IF Hit(x) THEN Killed(x) ELSE proc[x]]
  BY <1>2 DEF KillTimer, Procs
<1>5. \A x \in Pids :
        /\ Killed(x) \in Proc
        /\ Killed(x).state = "dead" /\ Killed(x).stop = "none" /\ ~Killed(x).attached
        /\ Killed(x).parent = proc[x].parent /\ Killed(x).executed = proc[x].executed
  <2> SUFFICES ASSUME NEW x \in Pids
               PROVE  /\ Killed(x) \in Proc
                      /\ Killed(x).state = "dead" /\ Killed(x).stop = "none"
                      /\ ~Killed(x).attached
                      /\ Killed(x).parent = proc[x].parent
                      /\ Killed(x).executed = proc[x].executed
    OBVIOUS
  <2> DEFINE no == FALSE
             one == [proc[x] EXCEPT !.state = "dead", !.stop = "none",
                                    !.noted = no, !.attached = no]
  <2>1. Killed(x) = one  OBVIOUS
  <2>2. no \in BOOLEAN /\ ~no  OBVIOUS
  <2> HIDE DEF no, Killed
  <2>3. proc[x] \in Proc /\ "dead" \in ProcStates /\ "none" \in Stops
    BY <1>2 DEF Procs, ProcStates, Stops
  <2>4. one \in Proc  BY <2>2, <2>3 DEF Proc
  <2>5. /\ one.state = "dead" /\ one.stop = "none" /\ one.attached = no
        /\ one.parent = proc[x].parent /\ one.executed = proc[x].executed
    BY <2>3 DEF Proc
  <2> HIDE DEF one
  <2> QED  BY <2>1, <2>2, <2>4, <2>5
<1> HIDE DEF Killed, Hit
<1>6. \A x \in Pids : proc'[x] = IF Hit(x) THEN Killed(x) ELSE proc[x]
  BY <1>4
<1>7. proc' \in Procs  BY <1>2, <1>4, <1>5 DEF Procs
<1>8. \A x \in Pids : /\ proc'[x].parent = proc[x].parent
                      /\ proc'[x].executed = proc[x].executed
  BY <1>5, <1>6
<1>9. \A x \in Pids : Hit(x) => proc[x].state # "none"
  BY <1>2, <1>3 DEF Hit, Tree
<1>10. \A x \in Pids : /\ proc[x].state # "none" => proc'[x].state # "none"
                       /\ proc'[x].state # "dead" => proc'[x] = proc[x]
                       /\ proc'[x].state = "none" => proc'[x] = proc[x]
  BY <1>5, <1>6, <1>9
<1>11. Tree(proc')
  <2>1. \A x \in Pids : proc'[x].parent # 0 => proc'[proc'[x].parent].state # "none"
    <3> SUFFICES ASSUME NEW x \in Pids, proc'[x].parent # 0
                 PROVE  proc'[proc'[x].parent].state # "none"
      OBVIOUS
    <3>1. proc[x].parent \in Pids /\ proc[proc[x].parent].state # "none"
      BY <1>2, <1>8, BoundsAssumption DEF Tree, Procs, Proc, Pids
    <3> QED  BY <1>8, <1>10, <3>1
  <2>2. \A x \in Pids : proc'[x].state = "none" =>
            /\ ~proc'[x].attached /\ ~proc'[x].options /\ ~proc'[x].executed
            /\ proc'[x].parent = 0 /\ proc'[x].stop = "none"
    BY <1>2, <1>10 DEF Tree
  <2>3. \A x \in Pids : proc'[x].state = "setup" => x = 1 /\ ~proc'[x].executed
    BY <1>2, <1>10 DEF Tree
  <2> QED  BY <1>2, <1>7, <1>8, <2>1, <2>2, <2>3 DEF Tree
<1>12. ASSUME Follow(class) PROVE Tracing(class, job, proc')
  <2>1. Tracing(class, job, proc)  BY <1>1, <1>12 DEF TraceInv, Good
  <2>2. proc'[P].state = "dead" /\ proc'[P].stop = "none"
    BY <1>2, <1>5, <1>6 DEF Hit
  <2>3. \A x \in Pids : ~Held(proc', x)
    <3> SUFFICES ASSUME NEW x \in Pids, Held(proc', x) PROVE FALSE  OBVIOUS
    <3>1. ~Hit(x) /\ proc'[x] = proc[x]  BY <1>5, <1>6 DEF Held
    <3>2. x # P /\ ~proc[x].attached /\ Held(proc, x)  BY <3>1 DEF Hit, Held
    <3>3. proc[x].parent = P /\ Delivered(proc, P)  BY <2>1, <3>2 DEF Tracing
    <3>4. Newborn(proc, x)  BY <3>3 DEF Delivered
    <3> QED  BY <3>2, <3>4 DEF Newborn
  <2>4. job.trace_state = "none" /\ FollowedFar(class, proc, P)
    BY <1>1, <2>1 DEF Tracing
  <2>5. FollowedFar(class, proc', P)
    BY <1>2, <1>8, <2>4 DEF FollowedFar
  <2>6. proc'[1].executed
    BY <1>2, <1>8, <2>1, <2>4 DEF Tracing
  <2> QED  BY <1>1, <1>2, <2>1, <2>2, <2>3, <2>4, <2>5, <2>6 DEF Tracing
<1>13. ASSUME ~Follow(class) PROVE Alone(job, proc')
  <2>1. Alone(job, proc)  BY <1>13 DEF TraceInv, Good
  <2>2. \A x \in Pids \ {1} : proc'[x].state = "none"
    <3> SUFFICES ASSUME NEW x \in Pids \ {1} PROVE proc'[x].state = "none"  OBVIOUS
    <3>1. proc[x].state = "none"  BY <2>1 DEF Alone
    <3> QED  BY <1>6, <1>9, <3>1
  <2> QED  BY <1>2, <1>10, <2>1, <2>2 DEF Alone
<1>14. Good(class', job', proc')
  BY <1>1, <1>11, <1>12, <1>13 DEF TraceInv, Good
<1> QED  BY <1>14 DEF TraceInv

-----------------------------------------------------------------------------
(* The theorems                                                            *)

LEMMA InitLemma ==
    ASSUME Init
    PROVE  TraceInv
<1>1. PICK s \in Situations : class = s.class  BY DEF Init
<1>2. class \in Classes  BY <1>1, SituationsAssumption
<1>3. proc = [p \in Pids |-> NoProc]  BY DEF Init, Pids
<1>4. job = [state |-> "spawning", pid |-> 0, trace_state |-> "none",
             trace_forks |-> 0, told |-> "nothing", retries |-> 0]
  BY DEF Init
<1>5. JobOK(job) /\ job.pid = 0 /\ job.state = "spawning" /\ job.trace_forks = 0
      /\ job.trace_state = "none"
  BY <1>4, BoundsAssumption DEF JobOK, JobFields
<1>6. \A p \in Pids : proc[p] = NoProc  BY <1>3
<1>7. proc \in Procs  BY <1>3, NoProcLemma DEF Procs
<1>8. 1 \in Pids  BY BoundsAssumption DEF Pids
<1>9. Tree(proc)  BY <1>6, <1>7, <1>8, NoProcLemma DEF Tree
<1> QED  BY <1>2, <1>5, <1>6, <1>9, NoProcLemma DEF TraceInv, Good, Alone

\* What the daemon knows of the processes it follows agrees with what they are,
\* at every step of the set-up, of job_process_handler and of a stop.
THEOREM TracingInductive == Spec => []TraceInv
<1>1. Init => TraceInv  BY InitLemma
<1>2. TraceInv /\ [Next]_vars => TraceInv'
  <2> SUFFICES ASSUME TraceInv, [Next]_vars PROVE TraceInv'  OBVIOUS
  <2>1. ASSUME NEW cause \in {"pipe", "openpt", "log", "fork"}, SpawnFails(cause)
        PROVE  TraceInv'
    BY <2>1, SpawnFailsLemma
  <2>2. CASE Fork  BY <2>2, ForkLemma
  <2>3. CASE ChildStep  BY <2>3, ChildStepLemma
  <2>4. CASE job_process_error_abort  BY <2>4, ErrorAbortLemma
  <2>5. CASE ChildAsserts  BY <2>5, ChildAssertsLemma
  <2>6. CASE job_process_child_reader  BY <2>6, ChildReaderLemma
  <2>7. CASE job_process_close_handler  BY <2>7, CloseHandlerLemma
  <2>8. CASE Stop  BY <2>8, StopLemma
  <2>9. CASE KillTimer  BY <2>9, KillTimerLemma
  <2>10. CASE Debugger  BY <2>10, DebuggerLemma
  <2>11. ASSUME NEW p \in DOMAIN proc,
                \/ ChildPoll(p) \/ BirthStop(p) \/ Forks(p) \/ Execs(p)
                \/ GetsSignal(p) \/ RaisesStop(p) \/ Exits(p)
         PROVE  TraceInv'
    <3>1. p \in Pids  BY DEF TraceInv, Good, Tree, Procs
    <3> QED
      BY <2>11, <3>1, ChildPollLemma, BirthStopLemma, ForksLemma, ExecsLemma,
         GetsSignalLemma, RaisesStopLemma, ExitsLemma
  <2>12. CASE UNCHANGED vars  BY <2>12 DEF vars, TraceInv
  <2> QED
    BY <2>1, <2>2, <2>3, <2>4, <2>5, <2>6, <2>7, <2>8, <2>9, <2>10, <2>11, <2>12
    DEF Next
<1> QED  BY <1>1, <1>2, PTL DEF Spec

\* With `expect fork' and `expect daemon' the daemon ends up with the process the
\* stanza asks for and lets go of all others, in whatever order waitid() reports
\* the stops of parent and child (job_process_trace_fork).
THEOREM FollowsTheRightProcess == Spec => []FollowsForks
<1>1. TraceInv => FollowsForks
  <2> SUFFICES ASSUME TraceInv PROVE FollowsForks  OBVIOUS
  <2>1. DOMAIN proc = Pids  BY DEF TraceInv, Good, Tree, Procs
  <2>2. Traced <=> Follow(class)  BY DEF Traced, Follow
  <2>3. ASSUME NEW p \in DOMAIN proc, proc[p].attached, job.pid # 0, p # job.pid
        PROVE  /\ proc[p].parent = job.pid
               /\ proc[job.pid].stop = "PTRACE_EVENT_FORK"
    <3>1. CASE Follow(class)
      BY <2>1, <2>3, <3>1 DEF TraceInv, Good, Tracing, Held
    <3>2. CASE ~Follow(class)
      BY <2>1, <2>3, <3>2 DEF TraceInv, Good, Alone, Tree
    <3> QED  BY <3>1, <3>2
  <2>4. ASSUME job.state \in {"running", "killed"}, Traced
        PROVE  /\ \A p \in DOMAIN proc : ~proc[p].attached
               /\ IF class.expect = "fork" THEN proc[job.pid].parent = 1
                  ELSE \/ proc[job.pid].parent \in
                                {p \in DOMAIN proc : proc[p].parent = 1}
                       \/ proc[job.pid].parent = 1 /\ proc[job.pid].executed
    <3>1. Tracing(class, job, proc)  BY <2>2, <2>4 DEF TraceInv, Good
    <3>2. job.trace_state = "none" /\ FollowedFar(class, proc, job.pid)
      BY <2>4, <3>1 DEF Tracing
    <3>3. \A p \in Pids : ~Held(proc, p)
      BY <3>1, <3>2 DEF Tracing, IsNew, IsNormal, IsNewChild
    <3> QED  BY <2>1, <3>2, <3>3 DEF Held, FollowedFar
  <2> QED  BY <2>3, <2>4 DEF FollowsForks
<1> QED  BY <1>1, TracingInductive, PTL
=============================================================================
