------------------------------- MODULE Reexec -------------------------------
(***************************************************************************)
(* The daemon replaces itself (init/state.c): everything it knows is       *)
(* written as text, passed through a pipe to the new image and read again. *)
(*                                                                         *)
(* Pointers cannot be written.  An event becomes its position in the       *)
(* queue, a job the names of its class and instance; the D-Bus calls that  *)
(* wait cannot be written at all.  The counts of blockers are copied as    *)
(* they are, so every reference they count has to come back.  Classes of   *)
(* sessions, which are not restored, are left out.                         *)
(*                                                                         *)
(* Any step may fail: the new image then starts with nothing.              *)
(***************************************************************************)
EXTENDS EventQueue

CONSTANTS LogLevel,    \* the option for the current log priority
          MaxReexec    \* bound on re-execs and reloads

VARIABLES
    args,      \* args_copy, the command line for the next image
    restart,   \* whether this image was told --restart
    unread,    \* what is in the pipe an exec that failed has left behind:
               \* a sequence of one text, or none
    reexecs    \* re-execs and reloads so far

rvars == <<sys, poll, asked, args, restart, unread, reexecs>>

-----------------------------------------------------------------------------
(* Writing                                                                 *)

\* event_to_index: counted from 0; -1 where the event is not in the list.
event_to_index(s, e) ==
    IF e \notin Range(s.queue) THEN -1
    ELSE (CHOOSE i \in DOMAIN s.queue : s.queue[i] = e) - 1

\* state_serialise_blocking of the event: D-Bus calls are left out.
BlockingOfEvent(s, e) ==
    IF s.event[e].blocking \in Class THEN <<s.event[e].blocking>> ELSE << >>

\* event_serialise
event_serialise(s, e) == [s.event[e] EXCEPT !.blocking = BlockingOfEvent(s, e)]

\* event_serialise_all
event_serialise_all(s) == [i \in DOMAIN s.queue |-> event_serialise(s, s.queue[i])]

\* A node without event has no "event" member, here -2.
None == -2
IndexOrNone(s, e) == IF e = NoEvent THEN None ELSE event_to_index(s, e)

\* event_operator_serialise_all: the nodes in post-order.
event_operator_serialise_all(s, oper) ==
    [oper EXCEPT !.event = [i \in DOMAIN @ |-> IndexOrNone(s, @[i])]]

\* state_serialise_blocking of a job: which leaf an entry came from is not
\* written, and the D-Bus calls are left out.
state_serialise_blocking(s, refs) ==
    LET inOrder == SetToSortSeq(refs, LAMBDA p, q : p[1] < q[1])
    IN  [k \in DOMAIN inOrder |-> event_to_index(s, inOrder[k][2])]

\* job_serialise
job_serialise(s, j) ==
    [j EXCEPT !.blocker = IndexOrNone(s, @),
              !.blocking = state_serialise_blocking(s, @),
              !.caller = FALSE,
              !.stop_on = event_operator_serialise_all(s, @)]

\* job_serialise_all: the instances of the class; there is one at most.
job_serialise_all(s, c) ==
    IF s.job[c].stage = "waiting" THEN << >> ELSE <<job_serialise(s, s.job[c])>>

\* job_class_serialise_all
job_class_serialise_all(s) ==
    [k \in DOMAIN ClassOrder |->
        LET c == ClassOrder[k]
        IN  [name |-> c, start_on |-> event_operator_serialise_all(s, s.start_on[c]),
             cgmanager_wait |-> s.cgmanager_wait[c], jobs |-> job_serialise_all(s, c)]]

\* Some reference is to an event that is not in the list: nothing is written.
Unwritable(json) ==
    \E k \in DOMAIN json.classes :
        LET class == json.classes[k]
            Bad(oper) == -1 \in Range(oper.event)
        IN  \/ Bad(class.start_on)
            \/ \E j \in Range(class.jobs) :
                j.blocker = -1 \/ -1 \in Range(j.blocking) \/ Bad(j.stop_on)

\* state_to_string
state_to_string(s) ==
    [events |-> event_serialise_all(s), cgroup_manager |-> s.cgroup_manager,
     classes |-> job_class_serialise_all(s)]

-----------------------------------------------------------------------------
(* Reading                                                                 *)

\* What an image knows that has just started; the classes are those of the
\* configuration, which is loaded after this.
Blank(cgroup_manager) ==
    [queue |-> << >>, event |-> << >>,
     start_on |-> [c \in Class |-> event_operator_new(ClassOf[c].start_on)],
     cgmanager_wait |-> [c \in Class |-> FALSE],
     deleted |-> [c \in Class |-> FALSE],
     job |-> [c \in Class |-> NoJob(c)],
     cgroup_manager |-> cgroup_manager, fault |-> "none"]

\* event_from_index
event_from_index(s, i) == IF i = None THEN NoEvent ELSE s.queue[i + 1]

\* event_deserialise; whom the event blocks comes last of all.
event_deserialise(s, json) ==
    LET n == event_new(s, json.name, json.env, "none")
    IN  [n EXCEPT !.event[NewEvent(s)].progress = json.progress,
                  !.event[NewEvent(s)].failed = json.failed,
                  !.event[NewEvent(s)].blockers = json.blockers]

\* Mutant: the leaves have their values but not their events.
event_operator_deserialise_all_Empty(s, json) ==
    [json EXCEPT !.event = [i \in DOMAIN @ |-> NoEvent]]

\* event_operator_deserialise_all: the nodes in post-order make the same tree.
event_operator_deserialise_all(s, json) ==
    [json EXCEPT !.event = [i \in DOMAIN @ |-> event_from_index(s, @[i])]]

\* job_deserialise; what the job blocks comes last of all.
job_deserialise(s, c, json) ==
    [s EXCEPT !.job[c] =
        [json EXCEPT !.blocker = event_from_index(s, @), !.blocking = {},
                     !.stop_on = event_operator_deserialise_all(s, @)]]

\* job_class_deserialise
job_class_deserialise(s, json) ==
    LET class == [s EXCEPT !.start_on[json.name] =
                                event_operator_deserialise_all(s, json.start_on),
                           !.cgmanager_wait[json.name] = json.cgmanager_wait]
    IN  IF json.jobs = << >> THEN class
        ELSE job_deserialise(class, json.name, json.jobs[1])

\* state_deserialise_blocking of event number i: job_find by the names; an
\* instance that is not there is passed over.
BlockingOfEventRead(s, i, json) ==
    LET e == event_from_index(s, i)
        found == {c \in Range(json.blocking) : s.job[c].stage # "waiting"}
    IN  IF found = {} THEN s
        ELSE [s EXCEPT !.event[e].blocking = CHOOSE c \in found : TRUE]

\* state_deserialise_blocking of an instance: each event "should have
\* blockers associated for it to have a blocked object pointing at it".
BlockingOfJobRead(s, json) ==
    LET list == IF json.jobs = << >> THEN << >> ELSE json.jobs[1].blocking
        refs == {<<k, event_from_index(s, list[k])>> : k \in DOMAIN list}
        r == [s EXCEPT !.job[json.name].blocking = refs]
    IN  IF \E ref \in refs : s.event[ref[2]].blockers = 0 THEN Fail(r, "assert")
        ELSE r

\* state_deserialise_resolve_deps
state_deserialise_resolve_deps(s, json) ==
    LET Resolve(t, i) == BlockingOfEventRead(t, i - 1, json.events[i])
    IN  FoldLeft(BlockingOfJobRead,
                 FoldLeft(Resolve, s, [i \in DOMAIN json.events |-> i]),
                 json.classes)

\* state_from_string
state_from_string(json) ==
    LET events == FoldLeft(event_deserialise, Blank(json.cgroup_manager), json.events)
        classes == FoldLeft(job_class_deserialise, events, json.classes)
    IN  state_deserialise_resolve_deps(classes, json)

-----------------------------------------------------------------------------
(* Loading the configuration again                                         *)

\* What a class with condition `cond' has matched (`held') that leaf i of a
\* new class with that condition matches too.
Offered(events, cond, held, i) ==
    {k \in Leaves(cond) :
        /\ held[k] # NoEvent
        /\ event_operator_match(cond[i], events[held[k]], << >>)}

\* The new leaf takes the first of them.
EventOffered(events, cond, held, i) ==
    IF i \notin Leaves(cond) \/ Offered(events, cond, held, i) = {} THEN NoEvent
    ELSE held[CHOOSE k \in Offered(events, cond, held, i) :
                \A l \in Offered(events, cond, held, i) : k <= l]

TakenOver(events, cond, held) ==
    << >> \o [i \in DOMAIN cond |-> EventOffered(events, cond, held, i)]

\* Mutant: the events are taken over but not blocked, and the old class lets
\* go of them.
job_class_event_block_Uncounted(s, c) ==
    [Release(s, s.start_on[c]) EXCEPT !.cgmanager_wait[c] = FALSE]

\* job_class_event_block, one leaf at a time, and the end of the old class.
\* The new one does not know that it waits for the cgroup manager.
job_class_event_block(s, c) ==
    LET event == TakenOver(s.event, ClassOf[c].start_on, s.start_on[c].event)
        oper == [value |-> [i \in DOMAIN event |-> event[i] # NoEvent], event |-> event]
        blocked == [s EXCEPT !.event =
                        [e \in DOMAIN @ |->
                            [@[e] EXCEPT !.blockers = @ + Held(oper, e)]]]
    IN  [Release(blocked, s.start_on[c]) EXCEPT !.start_on[c] = oper,
                                                !.cgmanager_wait[c] = FALSE]

\* Every file is read again and makes a new class, which takes the place of
\* the old one, now or when the instance of that has stopped.
Reloaded(s, c) ==
    IF s.job[c].stage = "waiting" THEN job_class_event_block(s, c)
    ELSE [s EXCEPT !.deleted[c] = TRUE]

\* conf_reload, where the files are what they were.
conf_reload(s) == FoldLeft(Reloaded, s, ClassOrder)

-----------------------------------------------------------------------------
(* The command line                                                        *)

LogLevels == {"--debug", "--verbose", "--error"}

\* clean_args: the options of an earlier re-exec are taken out, the
\* descriptor with its option.
clean_args(a) ==
    SelectSeq(a, LAMBDA x : x \notin LogLevels \cup {"--state-fd", "fd"})

\* perform_reexec: the arguments that are passed on.
perform_reexec(a, restarted) ==
    a \o LogLevel \o IF restarted THEN << >> ELSE <<"--restart">>

-----------------------------------------------------------------------------
(* Actions                                                                 *)

RInit ==
    Init /\ args = <<"init">> /\ restart = FALSE /\ unread = << >> /\ reexecs = 0

\* Jobs whose main process had been told to end and might not have done so.
BeingKilled(data) ==
    {k \in UNION {DOMAIN json.classes : json \in Range(data)} :
        \E j \in Range(data[1].classes[k].jobs) : j.stage = "ending" /\ j.main}

\* What may go wrong: the state cannot be written, there is no pipe or no
\* process, or the child fails to write.
Failure == {"none", "state_to_string", "pipe", "fork", "state_write"}

\* stateful_reexec up to the call of perform_reexec: the arguments and what
\* there is to be read from the descriptor they name.
Prepared(failure) ==
    LET json == state_to_string(sys)
    IN  IF failure \in {"state_to_string", "pipe", "fork"} \/ Unwritable(json)
        THEN [args |-> args, data |-> unread]
        ELSE [args |-> clean_args(args) \o <<"--state-fd", "fd">>,
              data |-> IF failure = "state_write" THEN << >> ELSE <<json>>]

\* The new image reads its state, or, after clean_args and another
\* perform_reexec, starts without.  job_deserialise of a job whose kill timer
\* runs for its main process takes PROCESS_MAIN, which is 0, for none.
Started(passed, data, timer) ==
    /\ restart' = TRUE /\ unread' = << >>
    /\ args' = IF data # << >> \/ "fd" \notin Range(passed) THEN passed
               ELSE perform_reexec(clean_args(passed), TRUE)
    /\ timer => BeingKilled(data) # {}
    /\ sys' = IF data = << >> THEN Blank(FALSE)
              ELSE IF timer THEN Fail(sys, "kill_process")
              ELSE conf_reload(state_from_string(data[1]))

\* stateful_reexec in the old image and the start of main in the new one;
\* `timer': the kill timer of some main process runs.
Reexec(failure, timer) ==
    /\ Idle /\ reexecs < MaxReexec
    /\ LET p == Prepared(failure)
       IN  Started(perform_reexec(p.args, restart), p.data, timer)
    /\ reexecs' = reexecs + 1
    /\ UNCHANGED <<poll, asked>>

\* execvp fails: the daemon goes on; nobody reads or closes the pipe.
ReexecFails ==
    /\ Idle /\ reexecs < MaxReexec
    /\ args' = perform_reexec(Prepared("none").args, restart)
    /\ unread' = Prepared("none").data
    /\ reexecs' = reexecs + 1
    /\ UNCHANGED <<sys, poll, asked, restart>>

\* SIGHUP or ReloadConfiguration.
Reload ==
    /\ Idle /\ reexecs < MaxReexec
    /\ sys' = conf_reload(sys) /\ reexecs' = reexecs + 1
    /\ UNCHANGED <<poll, asked, args, restart, unread>>

RNext ==
    \/ Next /\ UNCHANGED <<args, restart, unread, reexecs>>
    \/ \E failure \in Failure, timer \in BOOLEAN : Reexec(failure, timer)
    \/ ReexecFails \/ Reload

RSpec == RInit /\ [][RNext]_rvars

-----------------------------------------------------------------------------
(* Properties                                                              *)

\* The state as it can be told apart from outside: events by their place in
\* the queue, the list of a job as a bag of them, callers left out.
View(s) ==
    LET Leaf(oper) == [i \in DOMAIN oper.event |-> IndexOrNone(s, oper.event[i])]
        Blocked(c) == [k \in DOMAIN s.queue |->
                        Cardinality({r \in s.job[c].blocking : r[2] = s.queue[k]})]
    IN  [events |-> event_serialise_all(s),
         jobs |-> [c \in Class |->
                    [s.job[c] EXCEPT !.blocker = IndexOrNone(s, @), !.blocking = Blocked(c),
                                     !.caller = FALSE, !.stop_on = Leaf(@)]],
         start_on |-> [c \in Class |-> Leaf(s.start_on[c])]]

\* A re-exec that goes well loses nothing but the callers, and a reload not
\* even those: every event, every count, every condition half fulfilled and
\* every job that waits for another is as it was.
NothingLost ==
    [][(Reexec("none", FALSE) \/ Reload) => View(sys') = View(sys)]_rvars

\* However often the daemon replaces itself, its command line names one
\* descriptor at most.
OneDescriptor == Cardinality({i \in DOMAIN args : args[i] = "--state-fd"}) <= 1

\* Whatever becomes of a re-exec, no reference is left to an event that has
\* gone, none is counted that did not come back, and the next re-exec finds
\* its descriptor (state_from_string, clean_args).
Restored == Counted /\ OneDescriptor
=============================================================================
