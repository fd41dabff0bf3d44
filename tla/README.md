# A TLA+ model of Upstart

Upstart is an event-based `init`: one single-threaded daemon (process 1, or a
*Session Init* run by a user) that starts and stops *jobs* when *events* are
emitted, supervises the processes of those jobs, and is driven over D-Bus by
`initctl`, `shutdown` and a handful of bridges that turn outside happenings
(udev, inotify, sockets, dconf, D-Bus signals) into events.

## Inventory

| Component | State | Operations | What is hard |
|---|---|---|---|
| Job instance (`init/job.c`) | goal, state, blocker, callers held back, failure, environment | `job_change_goal`, `job_change_state`, `job_next_state`, `job_failed`, `job_finished`, start, stop, restart | goal changes while the job waits for a process or an event |
| Process supervision (`init/job_process.c`) | pids, set-up pipes, kill timer, respawn counter, trace state | spawn, set-up reports, exit, kill, kill timer, ptrace events | report and death of one child arrive in either order; a main process dies while a script runs |
| Events (`init/event.c`, `init/blocked.c`) | queue of events, each with progress, blockers, failed flag, list of blocked | `event_new`, `event_poll`, `event_pending`, `event_finished`, `event_block`, `event_unblock` | events and jobs block each other; a failure event is emitted at the end |
| Event operators (`init/event_operator.c`) | tree of and/or/match nodes, each with a value and the event it holds | `event_operator_handle`, `_update`, `_reset`, `_events`, `_environment` | references taken and released on blocked events |
| Job classes (`init/job_class.c`) | registered class per name, instances, deleted flag, start and stop conditions | register, reconsider, add, remove, get instance, start, stop, restart | a class replaced or deleted while instances run |
| Configuration (`init/conf.c`, `init/parse_job.c`, `init/parse_conf.c`) | sources, files, classes, override files, a flag per reload | reload, create, modify and delete handlers, selection of the best class | changes while jobs run, sources that shadow each other |
| Logging (`init/log.c`) | per process: pty, file, unflushed buffer, open and remote-closed flags, global unflushed list | read, write, flush, close, clear-unflushed | disk not writable early at boot or full; the process ends before its log is written |
| Control (`init/control.c`) | D-Bus server, connections, bus | connect, disconnect, commands, notifications | the bus goes away while methods are pending |
| Shutdown of a Session Init (`init/quiesce.c`) | phase, requester, wait counter | `quiesce`, wait callback, finalise, complete | jobs end, or do not end, within the limit |
| Re-exec (`init/state.c`, `*_serialise`, `*_deserialise`) | everything above, as JSON | write, pass over a pipe, read back, resolve references | indices instead of pointers; partially spawned jobs |
| Cgroups (`init/cgroup.c`) | paths per job, connection to the cgroup manager | setup, cleanup, apply | jobs that must wait for the manager |
| Sessions (`init/session.c`), XDG (`init/xdg.c`) | chroot sessions, user directories | lookup, create | |
| Environment (`init/environ.c`) | arrays of `KEY=VALUE` | add, set, remove, get, expand | |
| Daemon (`init/main.c`, `init/system.c`, `init/apparmor.c`, `init/process.c`) | main loop, signals | start-up, signals to events, re-exec | |
| Commands (`util/`) | none that lasts; utmp | `initctl`, `shutdown`, `telinit`, `reboot`, `runlevel` | |
| Bridges (`extra/`) | watches, known jobs | emit events | files and directories that come and go |

All parts run in one thread.  A handler runs to completion, so interleaving
means the order in which handlers run, and the processes in the kernel that
run beside the daemon.


### How the parts interact

- A **command** over D-Bus (`control.c`, `job_class.c`, `job.c`) changes the
  goal of an instance; the caller's message is kept in the instance's
  `blocking` list and answered by `job_finished`.
- A **goal change** moves the instance along `job_next_state` inside the same
  handler, until it has to wait for a process or for its own event.
- The instance **emits** `starting`, `started`, `stopping`, `stopped`.  It waits
  for the first and the third of them (`job->blocker`); the event wakes it when
  the event is finished.
- `event_poll` **offers** each pending event to the conditions of all instances
  and classes.  A leaf that matches takes a reference and counts the event's
  `blockers` up; a condition that becomes TRUE passes its references on to the
  instance it starts or stops, which releases them in `job_finished`.
- The kernel reports **children** (`waitid`) and the **set-up pipes** of children
  (`select`); which of the two is seen first is decided by the turn of libnih's
  main loop: descriptors, then children, then timers and `event_poll`.
- **Timers** kill what does not stop, and end a shutdown that takes too long.

### What makes each part correct

| Component | Properties |
|---|---|
| Job and processes | no assertion fails and no freed job is used but in the known cases; every pid is that of a live child and every child is known; outside its states of rest a job waits for something that will come; signals reach a process that is set up; a pending respawn is carried out; every caller is answered; a stop ends |
| Spawn and trace | a program starts with the descriptors it should have and no others; the daemon is told the truth about the set-up; the process followed through its forks is the right one; no traced process is left stopped |
| Events and operators | the count of blockers is the number of references; nothing refers to a freed event; a job whose starting or stopping event is held does not go on; conditions are let go of once acted upon; the queue settles; a failure is announced |
| Parser | accepts exactly the grammar of `init(5)`; what is written back reads the same; the last stanza of a kind wins; a class that was read is legal |
| Job classes, configuration | at most one class per name registered; the best source wins; a deleted class lives exactly as long as its last instance |
| Environment | one value per name in a table; references mean what they say; an instance keeps the name it was found by; what is set reaches the instances |
| Logging | output reaches the file in order and once; unflushed output survives the process and leaves the list once written |
| Session shutdown | ends once, in time, and not before every job has stopped or its kill timeout has passed, but for jobs whose own scripts or whose stopping event in other hands put the signal off |
| Re-exec | everything but the callers is the same before and after |
| File bridge | the watch of a plain file is as deep as it can be; its creation is told where it can be seen; only what a job asked for is told, but for the creation and the end of a directory |

## Modules

In order of importance; the modules whose names end in `Proofs` hold the theorems and their proofs.

| Module | Models | Composes |
|---|---|---|
| `Job` | one job instance and its processes: `job.c`, the supervision half of `job_process.c` | implements `JobEvents` |
| `JobEvents` | abstract specification: what a job promises to others | |
| `JobProofs`, `JobEventsProofs` | theorems about `Job`; that it implements `JobEvents` | `Job` |
| `JobProcess`, `JobProcessProofs` | spawn, set-up of the child, error pipe, ptrace: the other half of `job_process.c` | |
| `EventOperator` | `event_operator.c` as operators on a tree | |
| `Condition` | `parse_on` and the life of one condition | `EventOperator` |
| `EventQueue`, `EventQueueProofs` | `event.c`, with instances seen from outside | `EventOperator` |
| `Reexec` | `state.c` and the (de)serialisation of events, operators and jobs | `EventQueue` |
| `Config`, `ConfigProofs` | `conf.c` and the registration of classes in `job_class.c` | |
| `JobFile` | the stanzas of `parse_job.c`, and the class written out and read back | |
| `Environ`, `JobEnvironment` | `environ.c`; the tables of `job_class.c` and `control.c` | `JobEnvironment` on `Environ` |
| `Log`, `LogProofs` | `log.c` | |
| `Quiesce`, `QuiesceProofs` | `quiesce.c` with jobs, events and the main loop | |
| `FileBridge`, `FileBridgeProofs` | `upstart-file-bridge.c` | |

Each has an `MC...` module with the instance TLC checks.

### Job

`job` is a `Job` of `job.h` together with its children and set-up pipes, `class`
the members of its `JobClass` the handlers read, `disable_respawn` the global of
the same name, `phase` and `ready` the position in the main loop and the
descriptors `select()` reported.  An instance that does not exist is one in
the state waiting.

| Model | Code |
|---|---|
| `Enter...` (one per state), `job_change_state`, `job_next_state`, `job_change_goal` | the loop and the switch of `job_change_state`; a transition inside the loop is a call of the next `Enter...` |
| `Start`, `Stop`, `Restart` | the D-Bus methods, and events that do the same |
| `Quiesce` | `disable_respawn` and `job_process_stop_all` |
| `ReadPipe`, `ReadOldPipe` | `job_process_child_reader`, `job_process_close_handler`, `job_child_error_handler` |
| `Reap` | `job_process_handler`, `job_process_terminated`, `job_process_catch_runaway` |
| `MainReady` | the `expect` stanza has been met (SIGSTOP, or the last fork); `JobProcess` has the steps |
| `KillTimer` | `job_process_kill_timer` |
| `EventFinished` | `event_finished` for the event the job waits for |
| `Select`, `IoDone`, `ChildrenDone` | one turn of `nih_main_loop` (external) |
| `ChildSetUp`, `ChildExits`, `OldChildSteps` | the children, after the fork |

A child's set-up may fail for the processes in `SetupFails`, any of the six.  A
class has the length of its kill timeout, zero included, and says whether its main
process can be signalled at all (`killable`): `job_process_kill` sets no timer when
`system_kill` fails.  An assertion that fails, or a job used after it was freed, is
kept in `job.fault`, and the daemon stops there.  `ReapFirst` says whether a child may report and die between `select()` and `waitid()` of
one turn, in which case its death is handled before its report.

Abstracted: exit statuses to zero and one other; the respawn window to a
nondeterministic "recent or not"; the forks of a daemon to `MainReady`; messages,
environment and logging; why `system_kill` fails to a property of the class.

`JobEvents` is what a job promises to others: the order of its four events, and
that its main process lives between `starting` and `stopped`.

### JobProcess

One process from `job_process_start` until its supervision is settled.  `daemon`
and `child.fd` are descriptor tables (numbers to what is open there), filled
lowest number first as the kernel does; `child.at` is the step of the set-up;
`proc` the processes the program forks, with their ptrace state; `job` what the
daemon knows.  `SpawnFails` and `Fork` are `job_process_spawn_with_fd` up to the
fork and the loop of `job_process_start` around it, `ChildStep` and
`job_process_error_abort` the child, `ChildPoll` is `job_process_handler` with the
four `job_process_trace_...` functions.  The kernel's side (stops, births, execs,
exits) is external.

Abstracted: the settings (limits, nice, chroot, uid, ...) to steps in order that
each may fail; signals from outside the job are left out, as are failures of
`PTRACE_SETOPTIONS` and `PTRACE_GETEVENTMSG` and what libnih does with a pipe after its
error was read.  A stop that comes while the program is still forking only changes the
goal (`job_change_goal` moves a job from running alone), so `Stop` begins there.

### EventOperator and Condition

A condition is a tree in post-order, a sequence of nodes; its state is the value
of each node and the event each leaf holds.  `EventOperator` has the functions of
`event_operator.c` on such trees.  `Condition` reads the words of a stanza one
after the other (`ReadWord`; the operator stack of `parse_on`), ends it
(`EndStanza`), and then offers events to the tree (`Handle`) and resets it when TRUE (`Reset`).
Reference definitions (a grammar, the value of an expression over the set of events
held, the matching rule of `init(5)`) are written apart from the code's loops and
compared with them.

### EventQueue

`sys` holds the queue, the events (`progress`, `failed`, `blockers`, who waits), the
`start on` conditions of the classes, the instances, and whether the cgroup
manager is there; `poll` is the position inside `event_poll`, whose loop is cut
into one action per event so that the queue may be looked at in between.

| Model | Code |
|---|---|
| `PollBegin`, `PollEvent`, `PollTurn` | `event_poll`, with `event_pending_handle_jobs` and `event_finished` |
| `EmitEvent` | `control_emit_event_with_file` |
| `Start`, `Stop`, `Restart` | the commands, on the classes in `Commanded` |
| `NotifyCgroupManager` | `control_notify_cgroup_manager_address`, `job_class_induct_jobs` |
| `SpawnEnds`, `MainEnds`, `PreStopEnds`, `EndingEnds` | the parts of `job_process_terminated` that finish a stage |

A class has one instance; the order of classes in the hash table is `ClassOrder`.

### Reexec

Extends `EventQueue` with the command line (`args`), the flag `--restart` and what an
earlier attempt has left in a pipe (`unread`).  `Reexec(failure, timer)` is
`stateful_reexec`: `state_to_string`, the pipe, the child that writes, `perform_reexec`
with `clean_args`, then in the new image `state_read`, `state_from_string` and the
resolution of references; `failure` names the step that fails.  `ReexecFails` is an
`execvp` that returns, `Reload` the `conf_reload` that replaces every class.  Events
become positions in the queue and jobs names, as in the code.

### Config

One job name, `NSources` directories.  `disk` and `dir` are what the directories
hold, `queue` the inotify notifications of each directory that are on their way (every
`NihWatch` has a descriptor of its own; once its directory is removed nothing more
comes of it), `h` the daemon: a
`ConfFile` per source (`file`), the watches, the classes and the registered one.
`Notified` is the create, modify and delete handlers with `conf_load_path_with_override`,
`conf_file_destroy`, `job_class_consider` and `job_class_reconsider`; `Reload` is
`conf_reload`, `Reexec` what is kept of all this in a re-exec.  `Matches`, `Starts` and
`Stops` are the job seen from its class.  The loops over the sources are recursive functions.

### JobFile

A file is read stanza by stanza (`ReadConf`, `ReadOverride`), each by the handler of its
name.  A handler returns the class as it leaves it, changed or not, and whether it
failed, because the code assigns before it checks.  Arguments are words, numbers,
numbers above 32 bits, assignments and unclosed quotes.  `job_class_serialise` and
`job_class_deserialise` with the helpers of `state.c`, `process.c` and `cgroup.c` are
operators that are applied to every class that comes about.  Splitting a file into
words is libnih's.

### Environ and JobEnvironment

Tables are sequences of `KEY=VALUE` strings and bare names, in the order the code
keeps; names and values are sequences of characters because the expansion of
references works on them in place.  `JobEnvironment` has the methods that start, stop and
restart an instance by its environment and those that set, unset, get, list and
reset variables, called by the user, another user and from a chroot; lists of names to
unset are worked off one by one and may stop midway.  A session init inherits
its environment or not (`no_inherit_env`).

### Log

For each process its `Log`, the terminal, the file and who still writes.  The functions of
`log.c` map a log to the set of logs it may become, since the disk decides.
`ReadTerminal` is `log_io_reader` and `log_io_error_handler`, `Terminated` is
`log_handle_unflushed` after the process's end, `NotifyDiskWriteable` is
`log_clear_unflushed`.  The disk is fine, read-only or full, and files are rotated.

### Quiesce

`quiesce`, its timer (`quiesce_wait_callback`), `quiesce_finalise` and `quiesce_complete`,
with the two who ask (`control_end_session`, `term_handler`), the kill timers of the
jobs, the events pending and the clock.  The main loop serves input, timers and
events in this order.  `StopJob` is `job_change_goal`: it moves a running job only, to
its pre-stop script or to its stopping event, and signals nobody.  The signal and the
kill timer come when the stopping event is done with (`LeaveStopping`); until then a
job may wait for its post-start script (`PostStart`), its pre-stop script (`PreStop`) or
the jobs that hold its stopping event (`Held`).  A daemon whose expect stanza is not
met yet waits as one with a post-start script does.  Left out are the other
scripts, which run without a main process, and a signal that fails (in `Job`).

### FileBridge

Paths are sequences of names.  `watched_dirs` are the bridge's watches with the inotify
events not read yet, `jobs` the files each known job waits for.  `ReadInotify` is
`create_handler`, `modify_handler` and `delete_handler`; `job_add_file`, `ensure_watched` and
`Added` are the steps of `upstart_job_added`, between which the file system may change.
The other handlers are atomic.  The bridge may end at any time and starts again.
Names that begin with a dot or end in two are told apart (`DotNames`, `DotsNames`)
because `path_valid` looks at them.  Only plain files are followed all the way down
and up: `create_handler` moves a directory only when it is created right below the
watch, `delete_handler` moves neither directories nor patterns, and those files whose
table it frees are kept in `lost`.

## What the runs show

All hold.

| Run | What is checked |
|---|---|
| `job` | One job of ten kinds of class (every script or none, task or service, respawned, limited, with an expect stanza, with `kill timeout 0`, with a main process that cannot be signalled), where any set-up may fail: `EventInv` (types, pids and children agree, a pending respawn has its script, which event has been emitted in which state; see below), `KnownFaults` (assertions fail and freed jobs are used in two cases only, observations 4 and 26), `WaitsForSomething` (but for observation 3), `KillsRightProcess`, `NobodyLeftWaiting`, the order of its events (`KeepsEventOrder`, a refinement), that `stopping` and `stopped` tell the same result (`ResultsMatch`), `NoRespawnAfterQuiesce`, and that stops and callers come to an end (`StopCompletes`, `CallersAnswered`) but where the code leaves the job for good (`LeftForGood`: observations 3, 4, 26 and 27) |
| `job_race` | The same with `ReapFirst`, a respawning class and late reports: `WaitsForSomething` and `NobodyLeftWaiting` still hold |
| `process` | A spawn with any of the low descriptors taken, each console, script or not, each expect stanza, failing at any step: `SetUpSound` (descriptors of program and daemon, truth of the report), `FollowsForks`, `NobodyStuck` |
| `condition` | Every stanza of up to nine words and up to three events: `ReadsConditions` (the parser accepts the grammar and nothing else and builds its tree, an error is final, what `event_operator_collapse` writes is read back), `HoldsEvents` (references and events with a part in the value), `ValueFollowsEvents`, `MatchesDocumented` |
| `events` | A service, a task that needs the cgroup manager and holds the end of the service, a class that cannot name its instance: `Consistent` (counts, references, waiting for dependents, conditions reset, nobody held by a job at rest, no assertion), `Settles`, `FailureAnnounced` |
| `reexec` | A service and a task it waits for in a daemon that replaces itself or reloads twice, any step failing: `Restored` (counts and references afterwards, one descriptor on the command line), `NothingLost` |
| `config` | One job in two directories, files and overrides written, broken and removed: `ClassesSound` (no dangling class, instances under the registered class, the best class registered, no leak), `UpToDate`, `EventsTakenOver` |
| `job_file` | Every file of two stanzas and override of one, out of 86: `ClassSound`, `ReadsAsWritten`, `SurvivesReexec` |
| `environment` | Two classes, three calls of any kind and caller: `TablesSound` (one entry per name, references expand to what they mean, a pending start keeps its name), `TableKept`, `InstancesFollow` |
| `log` | Two processes, a disk that changes, short writes, leaks, rotation, re-exec: `LogsSound` (order, completeness, state of the buffers), `EarlyOutputKept`, `ListDrains` |
| `quiesce` | Three jobs, one with a pre-stop script and a stopping event that may be held, one with a post-start script, up to three requests in any order: `EndsWell` (in time, no late timer, not before the kill timeouts except for jobs whose signal was put off, observation 28), `SessionEnds` |
| `file_bridge` | Two directories and two files, three classes, four changes: `WatchesFollow` (one table per file, creations of plain files told, watches follow as far as the code moves them, jobs are those of init), `WantedOnly` (masks respected but for the creation and the end of a directory, observation 30) |

A name such as `Consistent` is a conjunction; its parts are stated one by one, with what
they mean, at the end of the module.

### Bounds

- `Job` needs no bound: its state is finite but for `respawn_count`, which is
  capped by `limit` as in the code (at most 2 here: the first respawn, one
  below the limit and one above).  Commands may come at any time, without number.
- `JobProcess`: `MaxProc` 4 (one fork more than `expect daemon` follows), `MaxRetries`
  2, and every subset of descriptors 5 to 9 taken, so that each descriptor of the
  set-up may fall on, below and above number nine.  `MaxFd` is never reached.
- `MaxWords` is 9 and `MaxLeaves` 3: `a and b or (c and d)`, the shortest tree
  whose both children are operators, is nine words long, and the shortest stanzas
  for each parse error are shorter; three leaves are what it takes
  for one branch to be TRUE and another to hold an event without a part in it.
- `EventQueue`: `MaxStimuli` 2, a start and a stop or two of one kind before the
  first is over.  Events that jobs emit are not bounded.
- `Reexec`: `MaxReexec` 2: the second finds what the first has left behind.
- `Config`: two directories (one shadows the other), two changes on disk besides
  any initial content, one instance; five classes, more than can be alive at a time
  (`MaxClasses >= NSources + 2` is assumed, and `FreeClass` proves that it suffices).
- `JobFile`: two stanzas and one of an override: the second may undo the first, the
  override both.
- `JobEnvironment`: `MaxCalls` 3: start, change of a table, start or stop again.
- `Log`: two chunks for one process (a write can be cut) and one for the other (an
  order on the list).
- `Quiesce`: `LastRequest` 3 and `MaxTime` 10 leave room for the longest end of a
  session; kill timeouts are 1 and 3 seconds, the wait phase 2.  Scripts and held events
  may last for any time.
- `FileBridge`: `MaxChanges` 4: a directory and a file appear and disappear, or classes in between.

### Fairness

In `Job`: the main loop turns and handles what it finds; a set-up ends; scripts
end; a process that got SIGKILL dies; timers come due; others finish with a job's
event (the subject of `EventQueue`); a daemon with an expect stanza gets ready
unless it dies.  Strong fairness where the handler can only run in one
phase of the loop and is therefore enabled again and again, not always.
Nothing says that a main process ends or that anyone sends a command.

In `JobProcess`: the daemon polls its children, reads its pipe and its timers come due;
the set-up goes on.  Nothing is promised of programs.

In `EventQueue`: the main loop turns, scripts and tasks end, killed processes die
and the cgroup manager comes up.  Services may run for ever.  It is weak fairness of
one action, `Bound`, written out (`Due` is when it is enabled).

In `Log`: descriptors are polled and children reaped, and the last request to flush comes
after the disk has become writeable.  In `Quiesce`: the main loop goes round and time
passes; no job has to end.

`CHECK_DEADLOCK` is off where the system may stop: after the last stimulus, call or
change, after a parse error, and when the supervision of a process is settled.

## What is proved

For every value of the constants that satisfies the assumptions named below, which TLC
evaluates in the runs.  All are safety; each theorem rests on an inductive
invariant that TLC has checked on the instance of the run first.

| Module | Theorem | States |
|---|---|---|
| `JobProofs` | `Inductive` | `Spec => []IndInv` |
| | `TypeCorrect`, `FaultsKnown`, `Supervision`, `Progress`, `KillSafety`, `RespawnSafety`, `CallersReleased` | the type invariant and the six safety invariants it implies |
| `JobEventsProofs` | `EventsInductive` | `Spec => []EventInv` |
| | `EventOrder` | `Spec => KeepsEventOrder`: a job implements `JobEvents` |
| | `ResultsAgree`, `NoLateRespawn` | the action properties `ResultsMatch` and `NoRespawnAfterQuiesce` |
| `JobProcessProofs` | `TracingInductive`, `FollowsTheRightProcess` | `Spec => []TraceInv`, `Spec => []FollowsForks` |
| `EventQueueProofs` | `QueueInductive`, `EventsAreConsistent` | `Spec => []QueueInv`, `Spec => []Consistent`, from `OwnNames` and `AnyEventStarts` |
| `LogProofs` | `LogInductive`, `LogsAreSound` | `Spec => []LogInv`, `Spec => []LogsSound` |
| | `KeptInductive`, `OutputIsKept` | `Spec => []KeptInv`, the action property `EarlyOutputKept` |
| `QuiesceProofs` | `Inductive`, `SessionEndsWell` | `Spec => []QuiesceInv`, `Spec => []EndsWell` |
| `FileBridgeProofs` | `BridgeInductive`, `WatchesAreRight` | `Spec => []BridgeInv`, `Spec => []WatchesFollow` |
| | `EventsAreWanted` | the action property `WantedOnly` |
| `ConfigProofs` | `ConfigInductive`, `ClassesAreSound`, `AlwaysUpToDate` | `Spec => []ConfigInv`, `Spec => []ClassesSound`, `Spec => []UpToDate` |
| | `EventsAreTakenOver` | the action property `EventsTakenOver` |

**Job.**  For every set of classes, every `limit`, every kill timeout, zero included,
every choice of `SetupFails` and of classes that cannot be signalled, with
`ReapFirst = FALSE` (`Orderly`; without it a late report may free the job,
observation 5).  The cases the code gets wrong are reachable, and the properties name them:
`FaultKnown` says that a fault is the assertion on a zero kill timeout or the
post-stop case of observation 4, and `SecurityFailed` is the one way to wait for nothing.
None of the invariants is inductive alone.  `IndInv` adds what ties a child to its
set-up pipe (open exactly while the child is being set up; an error only from a
child that is certain to die), that a main process past `spawned` is set up, the
goals possible in each state, and that every descriptor `select()` reported can
still be read.  Without the first, a report could be read after the death of its
child, and `WaitsForSomething` fails; without the second, `KillsRightProcess` fails.

The argument follows the code.  `Between(j)` describes an instance in the
middle of a handler, when what it waited for is gone; `Settled(j)` one between two
handlers.  A lemma per `Enter...` operator shows that it leads from `Between` to
`Settled`, lemmas for `job_change_state`, `job_next_state` and `job_change_goal`
follow, then one per handler, one per action, and `Inductive` puts them together.

**JobEvents.**  `Telling` says which of the four events a job has emitted last in each state, and
that it tells the result it had then; `EventInv` is `IndInv` with it.  The handlers run
through several states in one step, so the refinement is proved along the same
operators: each `Enter...` takes the last event to one that `JobEvents` allows
after it, however many states lie between, and a handler is a step of `JobEvents` or a
stutter.

**JobProcess.**  For every class, any number of processes and any descriptors.  The set-up and its
descriptors play no part; `TraceInv` says in which of four phases the daemon
is (`IsNew`, `IsNormal`, `IsNewChild`, none), how many forks it has counted and
how deep the process it follows lies in the tree of processes, and that a process held by
`ptrace` is this one or its only child, which has never run.  The last is what makes
`FollowsForks` inductive: it is why the message of `PTRACE_EVENT_FORK` names the right
child even if the child's own stop was reported first and dropped.

**EventQueue.**  For any classes in any order, with any trees of operators as their
conditions, any events from outside and no bound on them (`ClassAssumption`,
`TreeAssumption`, `NameAssumption`, `NoEventAssumption` say what these are).  The two
hypotheses are about what the daemon is used for, and TLC evaluates them on the
instances of `events` and `reexec`.  `OwnNames`: nobody but the daemon emits `starting` and `stopping`;
`initctl emit` does not refuse them, but such an event names no job that waits.
`AnyEventStarts`: a class that needs the cgroup manager starts on any one event it
mentions; without it the assertion of observation 9 fails.

`QueueInv` says of the daemon between two handlers (`Sound`): the blockers of an event
are the finitely many references to it (`Counts`, `Live`); every node of a condition has the value
its children give it and only a TRUE leaf holds an event (`Grown`); a job is starting or
stopping exactly while it waits for an event of that name which has it to wake
(`Waits`); a job that waits has the goal stop and one that runs the goal start, and neither
holds anybody unless it is a running task (`Stages`); no condition is TRUE
unless its class waits for the manager, and then it is.  `Consistent` alone is not
inductive: it does not say which leaves hold events, so that letting go of a
condition could count an event down too often, nor that a finished job's event was
the last to name it.

Most of the proof is about the middle of a handler, where less is true.  `Core` is
what every operator keeps; `Between` and `Busy` except one job from what is said of
waiting and of stages, and `Settled` except one event, which `event_finished` is about
to free.  There is a lemma per operator of the model (`FinishesJob`, `BlocksJob`, `ReleaseIs`, the
`...Entered` lemmas, `AdvanceIs`, `GoalStart`, `GoalStop`, `StopJobIs`,
`StartClassIs`), then one for each loop over the classes, by least counterexample as in
`ConfigProofs` (`HandlesJobs`, `InductsJobs`), for `event_finished` and the body of `event_poll`
(`FinishedEvent`, `PollsOne`), and one for each action.  Counting is kept out of the way by
sets: a handler adds or removes the references of one class, these are disjoint from
the others, and only there are cardinalities compared.

**Log.**  For any number of processes, any amount of output, and a disk that fails and recovers at any
time.  Each function of `log.c` is shown to lead from a log to one that
`Follows` it: file, what is about to be written, buffer and terminal put together
are still the output in its order, with nothing missing unless a fault was noted.  `LogInv` adds
to `LogsSound` what the list of unflushed logs holds and that its entries have
an `open_errno`, which is what the assertions of `log_clear_unflushed` need.
`KeptInv` adds what `EarlyOutputKept` needs: until a fault is noted, a log in use has all of
its output and the reader's buffer is empty between two steps; a log whose
file was tried has an `open_errno` as long as it keeps data; one on the list has data and a
terminal that is read to its end and closed.  What a log loses when it goes was
thus buffered while the disk refused it, and a disk that was read-only
from the start has left `EROFS` in it, with which `log_flush` puts it on the list.

**Quiesce.**  For any finite set of jobs with any scripts and all timeouts of a second or more
(`ClassesAreFinite`, `TimesAreSeconds`, `BoundsAreNumbers`); a kill timeout of zero aborts
(observation 26), and with a wait phase of none `EndsInTime` fails by one second.
`QuiesceInv` ties the phase to its timer, which is due now or in a second (`TimerInv`,
`PhaseInv`), and says of each instance what its state means for its process and its
kill timer (`Fine`).  `Waited` is why `NotAbandoned` is true: an instance that was told
to stop and that nothing delays is signalled in the second in which the kill phase
begins, so that its timer is due before the phase ends; `Settled` is what is left of this
when the session is over.  For the jobs in `Delayed` only the weaker part holds: they were
not signalled yet, or later than the phase began.  The longest kill timeout of the
classes is a maximum over a finite set, obtained from the well-foundedness of `<`.

**FileBridge.**  For every file system, every relation of names that are prefixes of each other, any
number of jobs with any file events, and any number of changes.  The assumptions say
what a path, a list of file events and the first world are (`PathsAreNames`,
`FilesHavePaths`, `EventsAreListed`, `WorldAtFirst`, `NullIsNothing`).  `BridgeInv` says
that a file is in one table at most and belongs to a known job; the job that is being added has only files of
its earlier file events, so that the next one is in no table.  `Sees` is
why `WatchesFollow` is true of a plain file between a change and its handler: the watched
directory is on the way to the file, and the creation of the file, the creation
of the next directory and the end of the watched one were told, are in
the queue of inotify, or came before the watch and are noted in `early`.  Of a directory
only its creation right below the watch is said (`Nearing`), of a pattern and of
files in `lost` nothing, as the code does not follow them.  The first part is needed for the
last: `delete_handler` moves the files whose path has the directory as a prefix, so a plain file that
were elsewhere would stay under a dead watch.  A job that init has
no longer has a `JobRemoved` among the signals not read.  That `find_first_parent` returns the
deepest directory is shown with a least element, as for the timeouts of `Quiesce`.

**Config.**  For any number of directories, versions of a file, changes and
instances (`ConfigAssumption`, which asks for enough numbers to tell the classes apart).
`ConfigInv` has two parts.  `Good` is about the daemon alone: every class
that exists belongs to one `ConfFile`, to an override's orphan or to running
instances, and the registered one is the best of them.  The other part (`Fresh`, `Present`, `Follows`,
`Right`) ties each `ConfFile` to the disk: what was read is what is there, or a
notification of the file is on its way and the last of these tells the
truth, or the directory is not watched.  `UpToDate` alone says nothing about the
time between a change and its handler, so it is not inductive.

A lemma per operator (`MadeIs`, `LoadVersion`, `OrphanMade`, `OverrideRead`,
`SweptIs`, `DropIs`) leads to `LoadIs`, what one load does to the daemon; `Through` is
what no number of loads undoes.  The loops over the sources are then proved by a
least counterexample (`Least`, `UpTo`), the existence of their recursive functions
included (`ReloadAllLoop`, `ReloadLoop`).  `Held` and `Eager` carry what
`EventsTakenOver` needs through the same operators: the condition of the
class that is replaced reaches the one that replaces it.  The proof found the model
wrong once: with one queue for all directories, a handler could be told of a file in a
directory whose watch was already dead.

Only model-checked: liveness (`StopCompletes`, `CallersAnswered`, `Settles`,
`FailureAnnounced`, `NobodyStuck`, `ListDrains`, `SessionEnds`), since the prover does
not handle fairness; what parsers, operators, tables and (de)serialisation compute
(`Condition`, `JobFile`, `JobEnvironment`, `Reexec`), which would need induction over
sequences and trees: the induction theorems of the library take an operator, which the
provers cannot instantiate, and a least counterexample by hand is practical for a loop
over the sources or the classes, not for a parser (`Environ` and the modules on it also use
recursive operators); `SetUpSound`, whose descriptors are true only as long as `MaxFd` is not
reached.

## Observations

What was met in the code while it was modelled, where it differs from its own
documentation or is worth knowing.  The models behave as the code does; where a
property would fail for one of these, it states the case it leaves out.

Jobs and processes

1. A respawning job with `expect` whose main process dies before it is ready goes on to
   running without a main process (`job_process.c:1754`); `init.5:566` says it is started
   again.  With a post-start script that still runs, a start command overwrites the
   pending respawn with the same outcome (`job.c:353`).
2. A restart of a job with a pre-stop script leads back to running and answers with
   success without a restart (`job.c:1563`, against the comments at 1502 and 1508).  An
   event that both stops and starts such a job does not restart it either, against
   the comment at `event.c:326`.
3. After a failed set-up of the security process the job never leaves that state
   (`job.c:2653`).
4. After a failed set-up of the post-stop process `job_process_child_reader` uses a job
   that has been freed (`job_process.c:2521`).
5. A report read after the death of its child is applied to the state the job has
   reached meanwhile and may free it while a process runs (`job_process.c:2511`).
6. With `debug` the error pipe is closed before the set-up is over: a later failure
   spins in the `while (write ...)` of `job_process_error_abort`, and with `expect stop` the
   SIGSTOP meant for the debugger counts as readiness.
7. The security process of a class with a cgroup stanza skips the connection to the
   manager and then fails the assertion in `cgroup_enter`; the daemon takes the closed
   pipe for success, against the comment before `job_process_spawn_with_fd`.
8. A failure of `openpt` turns logging off for the class.

Events

9. A class that needs the cgroup manager and starts on two events makes the daemon
   abort if the manager comes up when one of them has happened (`event.c:403`,
   `job_class.c:2816`).
10. A class whose instance name cannot be expanded keeps the event from the classes
    after it (`event.c:418`, against the comment at 301).
11. `event_operator_collapse` writes words without their quotes, so an event whose name is
    a quoted operator word reads back as an operator.

Re-exec

12. `nih_assert (job->kill_process)` (`job.c:2176`) fails for the main process, whose number
    is 0 (against the comment at 2156): the new image of a daemon that is killing a main
    process aborts.  The model has this end.
13. After an `execvp` that failed, the pipe stays open, and a later re-exec that cannot
    write reads the old state from it although it says it reverts to a stateless one.
14. The select of `state_read` has a timeout but never gives up; `cgmanager_wait` is not
    taken over on a reload; classes of chroot sessions are not restored though counts of
    events include their holds; the shutdown phase and `disable_respawn` are not kept.

Configuration

15. An invalid override file leaves the `ConfFile` without class and a partly changed class
    registered (`init.5:1200` says the override is ignored); an invalid configuration file
    with a valid override makes a class from the override alone.
16. A deleted class with an instance still lets new instances start.  A re-exec gives
    the registered class to the first file of its name.  A class that is replaced when its
    last instance stops loses what its start condition had matched.
17. Over a re-exec, `export` and bare `env` names are dropped or frozen, `limit ... 0 0` is
    taken for no limit, and a class left with an illegal `console` by a bad override cannot
    be written, which makes the whole re-exec stateless.  Numbers are cut with `(int)`.

Environment

18. `environ_remove` compares only as many characters as the entry's key has and skips the
    entry after one it removes: of `a` and `ab`, `unset-env ab` removes `a` and leaves
    `ab` (`environ.c:204`; `initctl.8:700`).
19. `unset-env` stops midway at an instance with an empty table, and with a list of names
    at the first name that fails, the earlier ones being gone (`control.c:1589`); a bare `env NAME`
    removes a variable set for all jobs; `set-env` does not change a pending start.
20. `control_get_env` for a caller in a chroot answers success without a value.

Logging

21. A short write of the last data, followed by an error, loses the remainder; the list of
    logs kept for later is flushed newest first; a re-exec drops it.

Session shutdown

22. An event that was pending before `session-end` and finds no instance ends the session
    before the jobs that start on `session-end` have run (`event.c:444`; the comment at
    `quiesce.c:152` says they are waited for).  A request by the system in the wait phase
    is ignored.

File bridge

23. Paths are compared as strings: the creation of `/a/b` takes over the watch of `/a/bc`.
24. A job that is added between the creation of a directory and its notification makes
    the handler's assertion fail (line 1460), and the bridge is respawned.
25. `delete_handler` frees the whole table when one file moves up, so others are lost;
    `find_first_parent` prefers watched directories that no longer exist; an existing
    file is watched itself, so that its re-creation is missed; entries of `/` cannot be
    watched; relative patterns never match.  What exists in a directory before the watch
    moves there is not reported, as the header of the file says.

Found in a second reading

26. `kill timeout 0` is accepted (`parse_job.c:2019` refuses negative numbers only), and
    the first stop of a running main process then fails `nih_assert (timeout)`
    (`job_process.c:1384`): init aborts.
27. When `system_kill` fails, `job_process_kill` returns without a kill timer
    (`job_process.c:1298`): the job stays in killed until the process ends by itself.
28. `job_process_stop_all` only changes goals (`job_process.c:1365`).  A post-start or pre-stop
    script, or a job that holds the stopping event, may last longer than the
    longest kill timeout; the session then ends and the main process has been sent
    no signal at all, or has not had its kill timeout.
29. The header of the file bridge (`upstart-file-bridge.c:26`) says of "normal or directory" files
    that the watch follows the directories on the way.  `create_handler` moves the
    watch of a directory only when the directory itself is created right below the
    watch, `delete_handler` does not move it up again, and a pattern is never moved.
30. `EVENT` is not looked at for the creation and the deletion of a directory (lines 994 and
    1177); `upstart-file-bridge.8:131` says that both depend on it.
31. The comment at `environ.c:469` has `${KEY+alternate}` the wrong way round: it expands
    to the alternate if `KEY` is set.

## What is not modelled, and why

- D-Bus plumbing, access checks, properties and signals, `initctl`: they turn calls into
  the operations modelled here and keep no state of their own.
- Memory exhaustion: the code retries (`NIH_MUST`) or aborts.
- libnih (main loop, timers, child watches, configuration tokens, inotify) is outside the
  repository; what the daemon sees of it is marked external.
- The clock of the respawn limit: `Job` lets every death fall inside the window or after
  it; no document says where the window starts.
- Calls to the cgroup manager, AppArmor, sessions, XDG directories, consoles, limits: calls to
  the kernel or to services with no behaviour over time, except as steps that may fail.
- Start-up of the daemon, and the signals it turns into events: I/O.
- The commands under `util/` end after one call; the bridges other than the file bridge turn
  one message into one event.
- Two jobs that each start on the stopping event of the other hold each other's
  event when both are told to stop: this is what their conditions ask for.
