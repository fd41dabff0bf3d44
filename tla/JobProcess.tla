----------------------------- MODULE JobProcess -----------------------------
(***************************************************************************)
(* One process of a job from job_process_start until its supervision is    *)
(* settled (init/job_process.c).                                           *)
(*                                                                         *)
(* The daemon forks a child, which moves its descriptors to where the      *)
(* program expects them, applies the stanzas of the class and executes the *)
(* program.  Whether it got that far the daemon learns from a pipe that    *)
(* the exec closes.  A program with `expect fork' or `expect daemon' is    *)
(* then followed through its forks with ptrace: each process stops and     *)
(* waits for the daemon, which hears of the stops in any order.            *)
(*                                                                         *)
(* Descriptors are numbered as the kernel does, the lowest free number     *)
(* first, because the steps depend on which number a descriptor got.       *)
(* Signals from outside the job are left out.                              *)
(***************************************************************************)
EXTENDS Integers, Sequences, FiniteSets, TLC

LOCAL INSTANCE FiniteSetsExt
LOCAL INSTANCE Functions

CONSTANTS Situations,   \* what is spawned: class and descriptors of the daemon
          MaxFd,        \* bound on descriptor numbers
          MaxRetries,   \* bound on failed attempts to spawn
          MaxProc       \* bound on processes the program consists of

\* The stanzas of a class that matter, and which of its processes is spawned.
Classes ==
    [console : {"none", "log", "output", "owner"}, script : BOOLEAN,
     settings : SUBSET STRING, process : {"main", "security"},
     expect : {"none", "stop", "fork", "daemon"}, debug : BOOLEAN]

ASSUME SituationsAssumption ==
    \A s \in Situations : s.class \in Classes /\ s.own \subseteq 0..MaxFd

ASSUME BoundsAssumption ==
    MaxFd \in Nat /\ MaxRetries \in Nat /\ MaxProc \in Nat \ {0}

\* JOB_PROCESS_SCRIPT_FD: where a shell finds the script it is to run.
ScriptFd == 9

VARIABLES
    class,    \* the stanzas that matter, and which process it is
    own,      \* the descriptors the daemon had before
    daemon,   \* the descriptors of the daemon: number -> [what, cloexec]
    job,      \* what the daemon knows of the process
    child,    \* the child that sets itself up
    proc      \* the processes of the program, in the order of their forks

vars == <<class, own, daemon, job, child, proc>>

-----------------------------------------------------------------------------
(* Descriptors                                                             *)

Lowest(table) == Min(0..MaxFd \ DOMAIN table)

Open(table, what, cloexec) ==
    table @@ (Lowest(table) :> [what |-> what, cloexec |-> cloexec])

\* pipe(): the reading end gets the lower number.
OpenPipe(table, reader, writer) ==
    Open(Open(table, reader, FALSE), writer, FALSE)

Close(table, numbers) == Restrict(table, DOMAIN table \ numbers)

\* Descriptor flags are not copied.
Copy(table, from, to) ==
    (to :> [what |-> table[from].what, cloexec |-> FALSE]) @@ table

SetCloexec(table, n) == [table EXCEPT ![n].cloexec = TRUE]

NumberOf(table, what) == CHOOSE n \in DOMAIN table : table[n].what = what

-----------------------------------------------------------------------------
(* The steps of the child                                                  *)

If(condition, steps) == IF condition THEN steps ELSE << >>

Logged == class.console = "log"

Traced == class.process = "main" /\ class.expect \in {"fork", "daemon"}

\* The stanzas that are applied before the privileges are dropped, in order;
\* the security process is left as it is.
Settings ==
    <<"rlimit", "priority", "oom_adj", "session_chroot", "chroot", "chdir",
      "getpwnam", "getgrnam", "chown", "getpwuid", "getgrgid", "initgroups",
      "cgroup_connect", "cgroup_setup", "cgroup_clear", "setgid", "setuid">>

\* What the child does, in order, for this class.
SetUpSteps ==
    <<"reader", "remap_error">>
    \o If(Logged, <<"remap_master", "signal", "grantpt", "unlockpt", "ptsname",
                    "open_slave", "remap_slave">>)
    \o If(class.script, <<"script">>)
    \o <<"console">>
    \o If(Logged, <<"stdout", "stderr">>)
    \o If(class.process = "main" /\ "apparmor" \in class.settings, <<"security">>)
    \o If(class.process = "main",
          SelectSeq(Settings, LAMBDA s : s \in class.settings))
    \o If(class.debug, <<"debug">>)
    \o If("cgroup_setup" \in class.settings, <<"cgroup_enter">>)
    \o If(Traced, <<"ptrace">>)
    \o <<"exec">>

\* Mutant: the number is freed before the copy is made.
job_process_remap_fd_ClosesFirst(c, which) ==
    IF c[which] # ScriptFd THEN c
    ELSE LET new == Lowest(Close(c.fd, {ScriptFd}))
         IN  [c EXCEPT ![which] = new,
                       !.fd = Close(Copy(@, ScriptFd, new), {ScriptFd} \ {new})]

\* job_process_remap_fd: off the number that is reserved for the script.
job_process_remap_fd(c, which) ==
    IF c[which] # ScriptFd THEN c
    ELSE LET new == Lowest(c.fd)
         IN  [c EXCEPT ![which] = new,
                       !.fd = Close(Copy(@, ScriptFd, new), {ScriptFd})]

\* The remapped descriptor is closed by exec.
RemapCloexec(c, which) ==
    LET r == job_process_remap_fd(c, which)
    IN  [r EXCEPT !.fd = SetCloexec(@, r[which])]

\* The script to its number, over whatever else may be there.
MoveScript(c) ==
    IF c.script = ScriptFd THEN c
    ELSE [c EXCEPT !.fd = Close(Copy(@, c.script, ScriptFd), {c.script}),
                   !.script = ScriptFd]

\* system_setup_console: the first of the standard descriptors is opened, and
\* copied until the copy is number two.
system_setup_console(c, what) ==
    LET closed == Close(c.fd, 0..2)
        first == Lowest(closed)
        opened == Open(closed, what, FALSE)
        second == Copy(opened, first, Lowest(opened))
    IN  [c EXCEPT !.fd = IF Lowest(opened) >= 2 THEN second
                         ELSE Copy(second, first, Lowest(second))]

\* /dev/null, or the console; that of `console output' may be missing.
Consoles ==
    CASE class.console = "output" -> {"console", "null"}
      [] class.console = "owner" -> {"console"}
      [] class.console \in {"none", "log"} -> {"null"}

\* What a step that does not fail makes of the child.
Done(c, step) ==
    CASE step = "reader" ->
            {[c EXCEPT !.fd = Close(@, {NumberOf(@, "error_reader")})]}
      [] step = "remap_error" -> {RemapCloexec(c, "error")}
      [] step = "remap_master" -> {RemapCloexec(c, "master")}
      [] step = "open_slave" ->
            {[c EXCEPT !.slave = Lowest(c.fd), !.fd = Open(@, "slave", FALSE)]}
      [] step = "remap_slave" -> {job_process_remap_fd(c, "slave")}
      [] step = "script" -> {MoveScript(c)}
      [] step = "console" -> {system_setup_console(c, what) : what \in Consoles}
      [] step = "stdout" -> {[c EXCEPT !.fd = Copy(@, c.slave, 1)]}
      [] step = "stderr" ->
            {[c EXCEPT !.fd = Close(Copy(@, c.slave, 2), {c.slave})]}
      [] step = "debug" -> {[c EXCEPT !.fd = Close(@, {c.error})]}
      [] OTHER -> {c}

\* The steps that cannot fail, or have nothing to do for this child.
Certain(c, step) ==
    \/ step \in {"reader", "debug"}
    \/ step = "remap_error" /\ c.error # ScriptFd
    \/ step = "remap_master" /\ c.master # ScriptFd
    \/ step = "remap_slave" /\ c.slave # ScriptFd
    \/ step = "script" /\ c.script = ScriptFd

-----------------------------------------------------------------------------
(* The daemon                                                              *)

\* A process nobody has forked, and one that stops for nobody.
NoProc == [state |-> "none", stop |-> "none", noted |-> TRUE, attached |-> FALSE,
           options |-> FALSE, parent |-> 0, executed |-> FALSE]

NoChild == [at |-> 0, fd |-> << >>, error |-> -1, master |-> -1, slave |-> -1,
            script |-> -1, wrote |-> "nothing"]

\* job_process_start up to the first attempt: a script of several lines goes
\* through a pipe, of which exec closes the writing end.
Init ==
    \E s \in Situations :
        /\ class = s.class
        /\ own = s.own
        /\ daemon =
            LET table == [n \in s.own |-> [what |-> "own", cloexec |-> n > 2]]
                piped == OpenPipe(table, "script", "script_writer")
            IN  IF s.class.script
                THEN SetCloexec(piped, NumberOf(piped, "script_writer"))
                ELSE table
        /\ job = [state |-> "spawning", pid |-> 0, trace_state |-> "none",
                  trace_forks |-> 0, told |-> "nothing", retries |-> 0]
        /\ child = NoChild
        /\ proc = [p \in 1..MaxProc |-> NoProc]

\* What job_process_spawn_with_fd has opened when it forks.
Prepared ==
    LET piped == OpenPipe(daemon, "error_reader", "error_writer")
    IN  IF Logged THEN Open(piped, "master", TRUE) ELSE piped

\* The daemon after the fork: it reads the errors and writes the script.
Parent(table) ==
    LET closed == Close(table, {NumberOf(table, "error_writer")}
                               \cup IF class.script THEN {NumberOf(table, "script")}
                                    ELSE {})
    IN  SetCloexec(closed, NumberOf(closed, "error_reader"))

\* The child after the fork.
Forked(table) ==
    [NoChild EXCEPT !.at = 1, !.fd = table,
                    !.error = NumberOf(table, "error_writer"),
                    !.master = IF Logged THEN NumberOf(table, "master") ELSE -1,
                    !.script = IF class.script THEN NumberOf(table, "script") ELSE -1]

\* "repeat until fork() works": whatever was opened is closed; without a pty
\* the class is no longer logged.
SpawnFails(cause) ==
    /\ job.state = "spawning" /\ job.retries < MaxRetries
    /\ cause \in {"openpt", "log"} => Logged
    /\ job' = [job EXCEPT !.retries = @ + 1]
    /\ class' = IF cause = "openpt" THEN [class EXCEPT !.console = "none"] ELSE class
    /\ UNCHANGED <<own, daemon, child, proc>>

\* The fork, and the end of job_process_start.
Fork ==
    /\ job.state = "spawning"
    /\ daemon' = Parent(Prepared)
    /\ child' = Forked(Prepared)
    /\ proc' = [proc EXCEPT ![1].state = "setup"]
    /\ job' = [job EXCEPT !.pid = 1,
                          !.state = IF class.process = "main" THEN "spawned"
                                    ELSE "security",
                          !.trace_state = IF Traced THEN "new" ELSE "none"]
    /\ UNCHANGED <<class, own>>

-----------------------------------------------------------------------------
(* The child                                                               *)

SettingUp == proc[1].state = "setup"

Step == SetUpSteps[child.at]

\* A step that goes well.  A child that is debugged stops; one that has
\* executed the program has lost what exec closes, and stops if it is traced.
ChildStep ==
    /\ SettingUp
    /\ \E c \in Done(child, Step) :
        child' = [c EXCEPT !.at = @ + 1,
                           !.fd = IF Step # "exec" THEN @
                                  ELSE Restrict(@, {n \in DOMAIN @ : ~@[n].cloexec})]
    /\ proc' = CASE Step = "debug" ->
                        [proc EXCEPT ![1].state = "stopped", ![1].stop = "SIGSTOP",
                                     ![1].noted = FALSE]
                 [] Step = "ptrace" -> [proc EXCEPT ![1].attached = TRUE]
                 [] Step = "exec" /\ Traced ->
                        [proc EXCEPT ![1].state = "stopped", ![1].stop = "SIGTRAP",
                                     ![1].noted = FALSE, ![1].executed = TRUE]
                 [] Step = "exec" /\ ~Traced ->
                        [proc EXCEPT ![1].state = "running", ![1].executed = TRUE]
                 [] OTHER -> proc
    /\ UNCHANGED <<class, own, daemon, job>>

\* job_process_error_abort: the step is written to the pipe and the child
\* exits.  Once the pipe is closed the write is tried for ever.
job_process_error_abort ==
    /\ SettingUp /\ ~Certain(child, Step)
    /\ IF child.error \notin DOMAIN child.fd
       THEN UNCHANGED child /\ proc' = [proc EXCEPT ![1].state = "spinning"]
       ELSE /\ child' = [child EXCEPT
                    !.fd = << >>,
                    !.wrote = IF child.fd[child.error].what = "error_writer"
                              THEN Step ELSE @]
            /\ proc' = [proc EXCEPT ![1].state = "dead", ![1].noted = FALSE]
    /\ UNCHANGED <<class, own, daemon, job>>

\* The connection to the cgroup manager is made with the settings, which the
\* security process skips: nih_assert (cgroup_manager) fails and the child is
\* gone without a word.
NoCgroupManager ==
    class.process = "security" /\ "cgroup_setup" \in class.settings

ChildAsserts ==
    /\ SettingUp /\ Step = "cgroup_enter" /\ NoCgroupManager
    /\ child' = [child EXCEPT !.fd = << >>]
    /\ proc' = [proc EXCEPT ![1].state = "dead", ![1].noted = FALSE]
    /\ UNCHANGED <<class, own, daemon, job>>

-----------------------------------------------------------------------------
(* What comes through the pipe                                             *)

Holds(table, what) == \E n \in DOMAIN table : table[n].what = what

Numbers(table, whats) == {n \in DOMAIN table : table[n].what \in whats}

\* Nothing is told before the child has written, or closed, its end.
Awaited == job.state # "spawning" /\ job.told = "nothing"

\* job_process_child_reader: the script is not needed, the log is freed with
\* its pty, and job_child_error_handler takes the pid away.  That the pipe is
\* closed is left to nih_io_shutdown.
job_process_child_reader ==
    /\ Awaited /\ child.wrote # "nothing"
    /\ job' = [job EXCEPT !.told = child.wrote, !.pid = 0, !.state = "failed"]
    /\ daemon' = Close(daemon, Numbers(daemon, {"script_writer", "master",
                                                "error_reader"}))
    /\ UNCHANGED <<class, own, child, proc>>

\* job_process_close_handler: job_process_run_bottom sends the script, and
\* without an expect stanza the main process is running.
job_process_close_handler ==
    /\ Awaited /\ child.wrote = "nothing"
    /\ ~Holds(child.fd, "error_writer") /\ ~Holds(daemon, "error_writer")
    /\ job' = [job EXCEPT !.told = "started",
                          !.state = IF @ = "spawned" /\ class.expect = "none"
                                    THEN "running" ELSE @]
    /\ daemon' = Close(daemon, Numbers(daemon, {"script_writer", "error_reader"}))
    /\ UNCHANGED <<class, own, child, proc>>

-----------------------------------------------------------------------------
(* What waitid() reports: every handler takes the job and its processes    *)

State(j, q) == [job |-> j, proc |-> q]

\* Where a process goes on that had stopped.
Goes(q, p) == IF p = 1 /\ ~q[1].executed THEN "setup" ELSE "running"

\* PTRACE_CONT and SIGCONT
Continue(q, p) == [q EXCEPT ![p].state = Goes(q, p), ![p].stop = "none"]

\* PTRACE_DETACH
Detach(q, p) ==
    [q EXCEPT ![p].state = Goes(q, p), ![p].stop = "none", ![p].attached = FALSE,
              ![p].options = FALSE]

\* The traced process of a job that is still being spawned.
Spawned(j) == j.state = "spawned"

\* job_process_stopped
job_process_stopped(j, q) ==
    IF ~Spawned(j) \/ class.expect # "stop" THEN State(j, q)
    ELSE State([j EXCEPT !.state = "running"], Continue(q, j.pid))

\* job_process_trace_new
job_process_trace_new(j, q) ==
    IF ~Spawned(j) THEN State(j, q)
    ELSE State([j EXCEPT !.trace_state = "normal"],
               [Continue(q, j.pid) EXCEPT ![j.pid].options = TRUE])

\* The trace is over.
TraceEnds(j, q) ==
    State([j EXCEPT !.trace_state = "none", !.state = "running"], Detach(q, j.pid))

\* Mutant: one fork more than asked for.
job_process_trace_new_child_OneMore(j, q) ==
    LET counted == [j EXCEPT !.trace_forks = @ + 1]
    IN  IF ~Spawned(j) THEN State(j, q)
        ELSE IF counted.trace_forks > 1 THEN TraceEnds(counted, q)
        ELSE job_process_trace_new(counted, q)

\* job_process_trace_new_child
job_process_trace_new_child(j, q) ==
    LET counted == [j EXCEPT !.trace_forks = @ + 1]
    IN  IF ~Spawned(j) THEN State(j, q)
        ELSE IF counted.trace_forks > 1 \/ class.expect = "fork"
        THEN TraceEnds(counted, q)
        ELSE job_process_trace_new(counted, q)

\* job_process_trace_signal: it is delivered.
job_process_trace_signal(j, q) ==
    IF ~Spawned(j) \/ j.trace_state # "normal" THEN State(j, q)
    ELSE State(j, Continue(q, j.pid))

\* PTRACE_GETEVENTMSG: the process that p has just forked.
EventMessage(q, p) ==
    CHOOSE c \in DOMAIN q :
        q[c].parent = p /\ \A d \in DOMAIN q : q[d].parent = p => d <= c

\* Mutant: the stop of the new process is always waited for.
job_process_trace_fork_Waits(j, q) ==
    IF ~Spawned(j) \/ j.trace_state # "normal" THEN State(j, q)
    ELSE State([j EXCEPT !.pid = EventMessage(q, j.pid), !.trace_state = "new_child"],
               Detach(q, j.pid))

\* job_process_trace_fork: the child is followed.  If it has already stopped,
\* and the daemon may have been told so before it knew the pid, the ptrace
\* call succeeds and there is nothing to wait for.
job_process_trace_fork(j, q) ==
    LET new == EventMessage(q, j.pid)
        followed == [j EXCEPT !.pid = new, !.trace_state = "new_child"]
        detached == Detach(q, j.pid)
    IN  IF ~Spawned(j) \/ j.trace_state # "normal" THEN State(j, q)
        ELSE IF q[new].state # "stopped" THEN State(followed, detached)
        ELSE job_process_trace_new_child(followed,
                                         [detached EXCEPT ![new].options = FALSE])

\* job_process_trace_exec: a program that has forked and then executes another
\* one is taken to have finished.
job_process_trace_exec(j, q) ==
    IF ~Spawned(j) \/ j.trace_state # "normal" THEN State(j, q)
    ELSE IF j.trace_forks > 0 THEN TraceEnds(j, q)
    ELSE State(j, Continue(q, j.pid))

\* job_process_handler, for a process that is known.
job_process_handler(j, q, p) ==
    IF q[p].state = "dead"
    THEN State([j EXCEPT !.pid = 0, !.state = "terminated"], q)
    ELSE CASE q[p].stop = "SIGSTOP" /\ ~q[p].attached -> job_process_stopped(j, q)
           [] q[p].stop = "SIGTRAP" /\ j.trace_state = "new" ->
                job_process_trace_new(j, q)
           [] q[p].stop = "SIGSTOP" /\ q[p].attached /\ j.trace_state = "new_child" ->
                job_process_trace_new_child(j, q)
           [] q[p].stop = "PTRACE_EVENT_FORK" -> job_process_trace_fork(j, q)
           [] q[p].stop = "PTRACE_EVENT_EXEC" -> job_process_trace_exec(j, q)
           [] OTHER -> job_process_trace_signal(j, q)

\* nih_child_poll and job_process_find: what is reported of a process that no
\* job knows is dropped.
ChildPoll(p) ==
    /\ job.state # "spawning"
    /\ proc[p].state \in {"stopped", "dead"} /\ ~proc[p].noted
    /\ LET q == [proc EXCEPT ![p].noted = TRUE]
           next == IF job.pid # p THEN State(job, q)
                   ELSE job_process_handler(job, q, p)
       IN  job' = next.job /\ proc' = next.proc
    /\ UNCHANGED <<class, own, daemon, child>>

-----------------------------------------------------------------------------
(* The job is told to stop                                                 *)

\* A traced process that gets a signal stops first.
Signalled(q, p) ==
    IF q[p].attached /\ q[p].state = "running"
    THEN [q EXCEPT ![p].state = "stopped", ![p].stop = "signal", ![p].noted = FALSE]
    ELSE q

\* The job has reached JOB_KILLED; SIGTERM is sent.  A job that is told to stop
\* while it is spawned first gets ready: only its goal changes until then, so
\* that nobody is traced any more.
Stop ==
    /\ job.state = "running" /\ job.told = "started"
    /\ job' = [job EXCEPT !.state = "killed"]
    /\ UNCHANGED <<class, own, daemon, child, proc>>

\* SIGKILL to the process group; a process that is traced would not survive it.
KillTimer ==
    /\ job.state = "killed" /\ job.pid # 0
    /\ proc[job.pid].state # "dead"
    /\ proc' = [p \in DOMAIN proc |->
                    IF p = job.pid \/ proc[p].attached
                    THEN [proc[p] EXCEPT !.state = "dead", !.stop = "none",
                                         !.noted = FALSE, !.attached = FALSE]
                    ELSE proc[p]]
    /\ UNCHANGED <<class, own, daemon, child, job>>

-----------------------------------------------------------------------------
(* What programs do, and what the kernel makes of it                       *)

Stopped(p, why) ==
    proc' = [proc EXCEPT ![p].state = "stopped", ![p].stop = why, ![p].noted = FALSE]

Program(p) == proc[p].state = "running" /\ UNCHANGED <<class, own, daemon, job, child>>

\* fork(): under PTRACE_O_TRACEFORK both stop, the child on its own.
Forks(p) ==
    /\ Program(p)
    /\ Traced
    /\ \E n \in 2..MaxProc :
        /\ proc[n].state = "none" /\ proc[n - 1].state # "none"
        /\ LET new == [NoProc EXCEPT !.state = "running", !.parent = p]
           IN  proc' =
                IF proc[p].options
                THEN [proc EXCEPT ![p].state = "stopped",
                                  ![p].stop = "PTRACE_EVENT_FORK",
                                  ![p].noted = FALSE,
                                  ![n] = [new EXCEPT !.state = "born", !.options = TRUE,
                                                     !.attached = TRUE]]
                ELSE [proc EXCEPT ![n] = new]

\* The SIGSTOP every process starts with that is traced from birth.
BirthStop(p) ==
    /\ proc[p].state = "born"
    /\ Stopped(p, "SIGSTOP")
    /\ UNCHANGED <<class, own, daemon, job, child>>

Execs(p) ==
    /\ Program(p) /\ proc[p].attached
    /\ proc' = [proc EXCEPT ![p].executed = TRUE, ![p].state = "stopped",
                            ![p].stop = IF proc[p].options THEN "PTRACE_EVENT_EXEC"
                                        ELSE "SIGTRAP",
                            ![p].noted = FALSE]

GetsSignal(p) ==
    Program(p) /\ proc[p].attached /\ proc' = Signalled(proc, p)

\* A program with `expect stop' is ready; a debugger lets the child go on.
RaisesStop(p) ==
    /\ Program(p) /\ class.expect = "stop" /\ job.state = "spawned"
    /\ Stopped(p, "SIGSTOP")

Debugger ==
    /\ class.debug /\ proc[1].state = "stopped" /\ ~proc[1].executed
    /\ proc[1].noted
    /\ proc' = Continue(proc, 1)
    /\ UNCHANGED <<class, own, daemon, job, child>>

Exits(p) ==
    /\ Program(p)
    /\ proc' = [proc EXCEPT ![p].state = "dead", ![p].noted = FALSE,
                            ![p].attached = FALSE]

-----------------------------------------------------------------------------

Next ==
    \/ \E cause \in {"pipe", "openpt", "log", "fork"} : SpawnFails(cause)
    \/ Fork
    \/ ChildStep \/ job_process_error_abort \/ ChildAsserts
    \/ job_process_child_reader \/ job_process_close_handler
    \/ Stop \/ KillTimer \/ Debugger
    \/ \E p \in DOMAIN proc :
        \/ ChildPoll(p) \/ BirthStop(p)
        \/ Forks(p) \/ Execs(p) \/ GetsSignal(p) \/ RaisesStop(p) \/ Exits(p)

Spec == Init /\ [][Next]_vars

\* The daemon polls, reads its pipe and its timers come due; a set-up goes on.
\* Nothing is promised of programs, and nobody has to stop the job.
Fairness ==
    /\ WF_vars(Fork) /\ WF_vars(ChildStep)
    /\ WF_vars(job_process_child_reader) /\ WF_vars(job_process_close_handler)
    /\ WF_vars(KillTimer)
    /\ \A p \in 1..MaxProc : WF_vars(ChildPoll(p)) /\ WF_vars(BirthStop(p))

FairSpec == Spec /\ Fairness

-----------------------------------------------------------------------------
(* Properties                                                              *)

\* The type of the state.
TypeOK ==
    /\ job.state \in {"spawning", "spawned", "security", "running", "failed",
                      "killed", "terminated"}
    /\ job.trace_state \in {"none", "new", "new_child", "normal"}
    /\ job.pid \in 0..MaxProc
    /\ DOMAIN daemon \subseteq 0..MaxFd /\ DOMAIN child.fd \subseteq 0..MaxFd
    /\ \A p \in DOMAIN proc :
        proc[p].state \in {"none", "setup", "born", "running", "stopped", "dead",
                           "spinning"}

What(table, numbers) == {table[n].what : n \in numbers}

\* The program starts with its three standard descriptors, where the console
\* stanza says, and the script at number nine: nothing of the daemon's and
\* nothing of the set-up is left open, whatever numbers were free.
DescriptorsClean ==
    proc[1].executed =>
        /\ DOMAIN child.fd = 0..2 \cup IF class.script THEN {ScriptFd} ELSE {}
        /\ class.script => child.fd[ScriptFd].what = "script"
        /\ child.fd[0].what \in Consoles
        /\ What(child.fd, 1..2) = IF Logged THEN {"slave"} ELSE {child.fd[0].what}

\* However often the spawn is tried and wherever the set-up ends, the daemon
\* keeps no more than the pipe it waits at, the script it has not sent and
\* the pty of a log; all of them are closed in other children.
DescriptorsKept ==
    LET more == DOMAIN daemon \ own
    IN  /\ What(daemon, more) =
            CASE job.state = "spawning" ->
                    IF class.script THEN {"script", "script_writer"} ELSE {}
              [] Awaited ->
                    {"error_reader"} \cup (IF class.script THEN {"script_writer"} ELSE {})
                                    \cup (IF Logged THEN {"master"} ELSE {})
              [] job.told = "started" -> IF Logged THEN {"master"} ELSE {}
              [] OTHER -> {}
        /\ Cardinality(What(daemon, more)) = Cardinality(more)
        /\ \A n \in more : daemon[n].what # "script" => daemon[n].cloexec

\* "data available to read indicates a failure ... whereas if the descriptor is
\* simply closed setup was successful": the daemon believes that the program
\* runs only if it was executed, and that it does not only if it never was.
\* A class with `debug' gives that up; see also NoCgroupManager.
ReportTrue ==
    /\ job.told = "started" /\ ~class.debug /\ ~NoCgroupManager => proc[1].executed
    /\ job.told \notin {"nothing", "started"} =>
            ~proc[1].executed /\ job.told = SetUpSteps[child.at]

\* Processes that are traced are the one the daemon follows and one that this
\* has just forked; when the job is running or being killed, the process
\* followed is as many forks away from the first as the expect stanza says, or
\* has executed another program after one, and the daemon has let go of all.
FollowsForks ==
    /\ \A p \in DOMAIN proc :
        proc[p].attached /\ job.pid # 0 /\ p # job.pid =>
            /\ proc[p].parent = job.pid
            /\ proc[job.pid].stop = "PTRACE_EVENT_FORK"
    /\ job.state \in {"running", "killed"} /\ Traced =>
            /\ \A p \in DOMAIN proc : ~proc[p].attached
            /\ IF class.expect = "fork" THEN proc[job.pid].parent = 1
               ELSE \/ proc[job.pid].parent \in {p \in DOMAIN proc : proc[p].parent = 1}
                    \/ proc[job.pid].parent = 1 /\ proc[job.pid].executed

\* A child sets itself up with the descriptors that belong to it, the daemon
\* keeps those that belong to the daemon, and what the pipe says is true.
SetUpSound == TypeOK /\ DescriptorsClean /\ DescriptorsKept /\ ReportTrue

\* Every process that stops for the daemon is continued, or killed with its
\* job: none waits for a report that has already been dropped.
StopsEnd ==
    \A p \in 1..MaxProc :
        (proc[p].state = "stopped" /\ ~class.debug) ~> (proc[p].state # "stopped")

\* Whatever the set-up comes to, the daemon hears of it.
SetUpTold == ~class.debug => <>(job.told # "nothing")

\* Nobody waits for ever: not the daemon for the child (job_process_start),
\* and no traced process for the daemon (job_process_handler).  A class with
\* `debug' waits for its debugger.
NobodyStuck == StopsEnd /\ SetUpTold
=============================================================================
