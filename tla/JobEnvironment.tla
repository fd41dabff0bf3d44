--------------------------- MODULE JobEnvironment ---------------------------
(***************************************************************************)
(* The environment of jobs: the table all jobs start from, the tables of   *)
(* the instances, the control methods that change them (init/control.c)    *)
(* and the methods that find an instance by its environment                *)
(* (init/job_class.c).                                                     *)
(*                                                                         *)
(* Of the states of a job those are told apart that treat the tables       *)
(* differently: "starting" up to post-start, "running", "pre-stop" and     *)
(* "stopping" up to post-stop.                                             *)
(***************************************************************************)
EXTENDS Environ, FiniteSets

CONSTANTS
    Class,           \* the job classes
    ClassEnv,        \* ClassEnv[c]: the env stanzas, strings or bare names
    Instance,        \* Instance[c]: the template of the instance stanza
    HasPreStop,      \* the classes with a pre-stop process
    Templates,       \* more templates to expand
    Given,           \* the tables a caller passes to start, stop and restart
    Assignments,     \* the lists of strings a caller passes to set-env
    Names,           \* the lists of names a caller passes to unset-env, not empty
    Defaults,        \* JOB_DEFAULT_ENVIRONMENT
    MaxCalls         \* bound on the calls

VARIABLES
    user_mode,     \* whether this is a session init; it is PID 1 otherwise
    no_inherit_env,\* --no-inherit-env was given to the session init
    job_environ,   \* the table every job starts from
    jobs,          \* the instances: a function on pairs of class and name
    reply,         \* the answer to the last call
    calls          \* calls so far

vars == <<user_mode, no_inherit_env, job_environ, jobs, reply, calls>>

\* Who calls: the user of this init, another user, one inside a chroot.
Caller == {"user", "other", "chroot"}

-----------------------------------------------------------------------------
(* The table of all jobs                                                   *)

\* The environment of init itself as a table.
InitEnviron == SetToSeq({Pair(k, Getenv[k]) : k \in DOMAIN Getenv})

\* job_class_environment_init
job_class_environment_init ==
    LET defaults == environ_append(<< >>, TRUE, [i \in DOMAIN Defaults |-> Bare(Defaults[i])])
    IN  IF user_mode /\ ~ no_inherit_env THEN environ_append(defaults, TRUE, InitEnviron) ELSE defaults

\* job_class_environment
job_class_environment(c) ==
    environ_append(environ_append(<< >>, TRUE, job_environ), TRUE, ClassEnv[c])

\* The table an instance is looked up with.
FullEnvironment(c, env) == environ_append(job_class_environment(c), TRUE, env)

\* The name of the instance, or nothing where it cannot be expanded.
InstanceName(c, env) == environ_expand(Text(Instance[c]), FullEnvironment(c, env))

-----------------------------------------------------------------------------
(* Instances                                                               *)

Put(j, job) == [k \in DOMAIN jobs \cup {j} |-> IF k = j THEN job ELSE jobs[k]]
Drop(j)     == [k \in DOMAIN jobs \ {j} |-> jobs[k]]

\* job_new
job_new == [goal |-> "stop", state |-> "waiting", env |-> << >>,
            start_env |-> << >>, stop_env |-> << >>]

\* Entering JOB_STARTING: env and start_env are sequences of a table or
\* of none.
EnterStarting(job) ==
    [job EXCEPT !.state = "starting",
                !.env = IF job.start_env # << >> THEN job.start_env ELSE @,
                !.start_env = << >>, !.stop_env = << >>]

\* Mutant: a start that cancels a stop takes its table at once.
EnterRunning_Takes(job) ==
    [job EXCEPT !.state = "running",
                !.env = IF job.start_env # << >> THEN job.start_env ELSE @,
                !.start_env = << >>, !.stop_env = << >>]

\* Entering JOB_RUNNING, from post-start or from pre-stop.
EnterRunning(job) ==
    [job EXCEPT !.state = "running",
                !.stop_env = IF job.state = "pre-stop" THEN << >> ELSE @]

\* Leaving JOB_RUNNING because the goal is to stop.
LeaveRunning(c, job) ==
    [job EXCEPT !.state = IF c \in HasPreStop THEN "pre-stop" ELSE "stopping"]

\* job_change_goal: only a job at rest moves at once.
job_change_goal(c, job, goal) ==
    LET changed == [job EXCEPT !.goal = goal]
    IN  CASE job.goal = goal -> job
          [] job.goal # goal /\ goal = "start" /\ job.state = "waiting" -> EnterStarting(changed)
          [] job.goal # goal /\ goal = "stop" /\ job.state = "running" -> LeaveRunning(c, changed)
          [] OTHER -> changed

\* The processes of a state end, and job_next_state leads on; an instance
\* that comes back to waiting is freed.
Advance(j) ==
    LET job == jobs[j]
    IN  /\ jobs' = CASE job.state = "starting" /\ job.goal = "start" -> Put(j, EnterRunning(job))
                     [] job.state = "starting" /\ job.goal = "stop" ->
                            Put(j, [job EXCEPT !.state = "stopping"])
                     [] job.state = "running" -> Put(j, [job EXCEPT !.state = "stopping"])
                     [] job.state = "pre-stop" /\ job.goal = "start" -> Put(j, EnterRunning(job))
                     [] job.state = "pre-stop" /\ job.goal = "stop" ->
                            Put(j, [job EXCEPT !.state = "stopping"])
                     [] job.state = "stopping" /\ job.goal = "start" -> Put(j, EnterStarting(job))
                     [] job.state = "stopping" /\ job.goal = "stop" -> Drop(j)
        /\ UNCHANGED <<user_mode, no_inherit_env, job_environ, reply, calls>>

\* The main process ends and is not started again: the goal is to stop.
MainEnds(j) ==
    /\ jobs[j].state = "running"
    /\ jobs' = Put(j, [jobs[j] EXCEPT !.goal = "stop", !.state = "stopping"])
    /\ UNCHANGED <<user_mode, no_inherit_env, job_environ, reply, calls>>

-----------------------------------------------------------------------------
(* Starting and stopping                                                   *)

Call ==
    /\ calls < MaxCalls
    /\ calls' = calls + 1
    /\ UNCHANGED <<user_mode, no_inherit_env>>

Refuse(error) ==
    /\ Call
    /\ reply' = error
    /\ UNCHANGED <<job_environ, jobs>>

\* The classes here belong to no session, so a caller inside a chroot is
\* refused; and what is common to finding an instance.
Found(caller, env, name) ==
    CASE caller = "chroot" -> "PermissionDenied"
      [] caller # "chroot" /\ (~ environ_all_valid(env) \/ name = << >>) -> "InvalidArgs"
      [] OTHER -> "found"

\* job_class_start
job_class_start(c, caller, env) ==
    LET name  == InstanceName(c, env)
        found == Found(caller, env, name)
        j     == <<c, name[1]>>
        job   == IF j \in DOMAIN jobs THEN jobs[j] ELSE job_new
    IN  \/ /\ found # "found"
           /\ Refuse(found)
        \/ /\ found = "found"
           /\ job.goal = "start"
           /\ Refuse("AlreadyStarted")
        \/ /\ found = "found"
           /\ job.goal # "start"
           /\ Call
           /\ reply' = "ok"
           /\ jobs' = Put(j, job_change_goal(c,
                          [job EXCEPT !.start_env = <<FullEnvironment(c, env)>>], "start"))
           /\ UNCHANGED job_environ

\* job_class_stop and job_class_restart look the instance up first.
Refused(c, caller, env, name) ==
    LET found == Found(caller, env, name)
        j     == <<c, name[1]>>
    IN  CASE found # "found" -> found
          [] found = "found" /\ j \notin DOMAIN jobs -> "UnknownInstance"
          [] OTHER -> IF jobs[j].goal = "stop" THEN "AlreadyStopped" ELSE "none"

\* job_class_stop
job_class_stop(c, caller, env) ==
    LET name    == InstanceName(c, env)
        refused == Refused(c, caller, env, name)
        j       == <<c, name[1]>>
    IN  \/ /\ refused # "none"
           /\ Refuse(refused)
        \/ /\ refused = "none"
           /\ Call
           /\ reply' = "ok"
           /\ jobs' = Put(j, job_change_goal(c, [jobs[j] EXCEPT !.stop_env = <<env>>], "stop"))
           /\ UNCHANGED job_environ

\* job_class_restart
job_class_restart(c, caller, env) ==
    LET name    == InstanceName(c, env)
        refused == Refused(c, caller, env, name)
        j       == <<c, name[1]>>
        Set(t)  == [t EXCEPT !.start_env = <<FullEnvironment(c, env)>>, !.stop_env = << >>]
    IN  \/ /\ refused # "none"
           /\ Refuse(refused)
        \/ /\ refused = "none"
           /\ Call
           /\ reply' = "ok"
           /\ jobs' = Put(j, job_change_goal(c, job_change_goal(c, Set(jobs[j]), "stop"), "start"))
           /\ UNCHANGED job_environ

\* job_class_get_instance: anyone may ask.
job_class_get_instance(c, env) ==
    LET name == InstanceName(c, env)
    IN  Refuse(CASE ~ environ_all_valid(env) \/ name = << >> -> "InvalidArgs"
                 [] OTHER -> IF <<c, name[1]>> \in DOMAIN jobs THEN "ok" ELSE "UnknownInstance")

\* job_class_get_instance_by_name
job_class_get_instance_by_name(j) ==
    Refuse(IF j \in DOMAIN jobs THEN "ok" ELSE "UnknownInstance")

\* job_start, job_stop and job_restart of an instance carry no table.
job_start(j) ==
    /\ jobs[j].goal # "start"
    /\ Call
    /\ reply' = "ok"
    /\ jobs' = Put(j, job_change_goal(j[1], [jobs[j] EXCEPT !.start_env = << >>], "start"))
    /\ UNCHANGED job_environ

job_stop(j) ==
    /\ jobs[j].goal # "stop"
    /\ Call
    /\ reply' = "ok"
    /\ jobs' = Put(j, job_change_goal(j[1], [jobs[j] EXCEPT !.stop_env = << >>], "stop"))
    /\ UNCHANGED job_environ

job_restart(j) ==
    LET job == [jobs[j] EXCEPT !.start_env = << >>, !.stop_env = << >>]
    IN  /\ job.goal # "stop"
        /\ Call
        /\ reply' = "ok"
        /\ jobs' = Put(j, job_change_goal(j[1], job_change_goal(j[1], job, "stop"), "start"))
        /\ UNCHANGED job_environ

-----------------------------------------------------------------------------
(* The control methods for the tables                                      *)

\* control_check_permission: init itself runs as root.
control_check_permission(caller) == user_mode \/ caller \in {"user", "chroot"}

\* What the methods that change a table check first; a call is about all
\* jobs, << >>, or about one instance.
Precheck(caller, details) ==
    CASE ~ control_check_permission(caller) -> "PermissionDenied"
      [] control_check_permission(caller) /\ ~ user_mode -> "PermissionDenied"
      [] user_mode /\ caller = "chroot" -> "ignored"
      [] OTHER -> IF details # << >> /\ details[1] \notin DOMAIN jobs
                  THEN "UnknownJobInstance" ELSE "none"

\* The string as it is entered: a delimiter is added to a bare name.
Delimited(str) == Pair(str.key, str.value)

\* Mutant: the tables of the running jobs stay as they are.
job_class_environment_set_Here(replace, strs) ==
    /\ job_environ' = environ_append(job_environ, replace, strs)
    /\ UNCHANGED jobs

\* job_class_environment_set, for each string of a list in turn
job_class_environment_set(replace, strs) ==
    /\ job_environ' = environ_append(job_environ, replace, strs)
    /\ jobs' = [j \in DOMAIN jobs |->
                   [jobs[j] EXCEPT !.env = <<environ_append(@[1], replace, strs)>>]]

\* control_set_env and control_set_env_list
control_set_env_list(caller, details, list, replace) ==
    LET strs == [i \in DOMAIN list |-> Delimited(list[i])]
        pre  == Precheck(caller, details)
    IN  \/ /\ pre # "none"
           /\ Refuse(pre)
        \/ /\ pre = "none"
           /\ Call
           /\ reply' = "ok"
           /\ IF details = << >>
              THEN job_class_environment_set(replace, strs)
              ELSE /\ jobs' = [jobs EXCEPT ![details[1]].env =
                                   <<environ_append(@[1], replace, strs)>>]
                   /\ UNCHANGED job_environ

\* job_class_environment_unset: what may become of the tables t.  The instances
\* are visited in no particular order, and the first one with an empty table
\* ends the call.
job_class_environment_unset(t, name) ==
    LET all     == environ_remove(t.all, name)
        Empty   == {j \in DOMAIN t.jobs : t.jobs[j].env[1] = << >>}
        Visited == IF Empty = {} THEN {DOMAIN t.jobs} ELSE SUBSET (DOMAIN t.jobs \ Empty)
    IN  IF all = << >> THEN {[t EXCEPT !.reply = "NoSuchVariable"]}
        ELSE {[all |-> all[1], reply |-> IF Empty = {} THEN "ok" ELSE "NoSuchVariable",
               jobs |-> [j \in DOMAIN t.jobs |->
                            IF j \in done THEN [t.jobs[j] EXCEPT !.env = environ_remove(@[1], name)]
                            ELSE t.jobs[j]]] :
                 done \in Visited}

\* The same for the table of instance j alone.
UnsetInstance(t, j, name) ==
    LET env == environ_remove(t.jobs[j].env[1], name)
    IN  IF env = << >> THEN {[t EXCEPT !.reply = "failed"]} ELSE {[t EXCEPT !.jobs[j].env = env]}

\* The loop over the names: it ends at the first that fails.
UnsetAll(t0, details, names) ==
    FoldLeft(LAMBDA T, name :
                 UNION {CASE t.reply # "ok" -> {t}
                          [] t.reply = "ok" /\ details = << >> -> job_class_environment_unset(t, name)
                          [] OTHER -> UnsetInstance(t, details[1], name) : t \in T},
             {t0}, names)

\* control_unset_env and control_unset_env_list
control_unset_env_list(caller, details, names) ==
    LET pre == Precheck(caller, details)
    IN  \/ /\ pre # "none"
           /\ Refuse(pre)
        \/ /\ pre = "none"
           /\ Call
           /\ \E t \in UnsetAll([all |-> job_environ, jobs |-> jobs, reply |-> "ok"], details, names) :
                job_environ' = t.all /\ jobs' = t.jobs /\ reply' = t.reply

\* control_get_env: PID 1 answers too.
control_get_env(caller, details, name) ==
    LET env == IF details = << >> THEN job_environ ELSE jobs[details[1]].env[1]
    IN  Refuse(CASE ~ control_check_permission(caller) -> "PermissionDenied"
                 [] control_check_permission(caller) /\ caller = "chroot" -> "ignored"
                 [] OTHER -> IF details # << >> /\ details[1] \notin DOMAIN jobs
                             THEN "UnknownJobInstance"
                             ELSE IF environ_getn(env, name) = << >> THEN "NoSuchVariable"
                             ELSE "ok")

\* control_list_env: a chroot is answered too.
control_list_env(caller, details) ==
    Refuse(CASE ~ control_check_permission(caller) -> "PermissionDenied"
             [] OTHER -> IF details # << >> /\ details[1] \notin DOMAIN jobs
                         THEN "UnknownJobInstance" ELSE "ok")

\* control_reset_env: the running jobs keep their tables.
control_reset_env(caller, details) ==
    LET pre == Precheck(caller, details)
    IN  \/ /\ pre # "none"
           /\ Refuse(pre)
        \/ /\ pre = "none"
           /\ Call
           /\ reply' = "reset"
           /\ IF details = << >>
              THEN /\ job_environ' = job_class_environment_init
                   /\ UNCHANGED jobs
              ELSE /\ jobs' = [jobs EXCEPT ![details[1]].env =
                                  <<job_class_environment(details[1][1])>>]
                   /\ UNCHANGED job_environ

-----------------------------------------------------------------------------
Init ==
    /\ user_mode \in BOOLEAN
    /\ no_inherit_env \in {FALSE, user_mode}
    /\ job_environ = job_class_environment_init
    /\ jobs = << >>
    /\ reply = "none"
    /\ calls = 0

Details == {<< >>} \cup {<<j>> : j \in DOMAIN jobs} \cup {<< <<c, <<"?">> >> >> : c \in Class}

Next ==
    \/ \E c \in Class, caller \in Caller, env \in Given :
        \/ job_class_start(c, caller, env)
        \/ job_class_stop(c, caller, env)
        \/ job_class_restart(c, caller, env)
        \/ job_class_get_instance(c, env)
    \/ \E j \in DOMAIN jobs :
        job_start(j) \/ job_stop(j) \/ job_restart(j) \/ Advance(j) \/ MainEnds(j)
    \/ \E details \in Details \ {<< >>} : job_class_get_instance_by_name(details[1])
    \/ \E caller \in Caller, details \in Details :
        \/ \E list \in Assignments, replace \in BOOLEAN :
            control_set_env_list(caller, details, list, replace)
        \/ \E names \in Names :
            \/ control_unset_env_list(caller, details, names)
            \/ control_get_env(caller, details, names[1])
        \/ control_list_env(caller, details)
        \/ control_reset_env(caller, details)

Spec == Init /\ [][Next]_vars

-----------------------------------------------------------------------------
(* Properties                                                              *)

Tables == {job_environ} \cup UNION {{t[1] : t \in {jobs[j].env, jobs[j].start_env} \ {<< >>}} :
                                    j \in DOMAIN jobs}

\* Types of the variables: every table is a sequence of strings.
TypeOK ==
    /\ user_mode \in BOOLEAN /\ no_inherit_env \in BOOLEAN
    /\ calls \in 0..MaxCalls
    /\ \A t \in Tables : \A i \in DOMAIN t : DOMAIN t[i] = {"key", "eq", "value"}
    /\ \A j \in DOMAIN jobs :
        /\ j[1] \in Class
        /\ jobs[j].goal \in {"start", "stop"}
        /\ jobs[j].state \in {"starting", "running", "pre-stop", "stopping"}

\* Whatever is set, unset, reset and started in whatever order, a table has
\* one entry for a name and every entry has a value, so the assertions of
\* environ_getn and of the control methods hold.
TablesUsable ==
    /\ \A t \in Tables : \A i, k \in DOMAIN t :
        t[i].eq /\ (t[i].key = t[k].key => i = k)
    /\ \A j \in DOMAIN jobs : jobs[j].env # << >>

\* With any table a text with references is expanded in place to what the
\* references mean: an expanded name is looked up, a value is not expanded
\* again, and a brace or an operator in a value ends nothing.
ExpandsReferences ==
    \A t \in Templates : environ_expand(Text(t), job_environ) = Value(t, job_environ)

\* The table a job will start with again was the one it was found by: its
\* name is still what this table makes of the instance stanza, however the
\* tables have been changed since the call.
StartsAsNamed ==
    \A j \in DOMAIN jobs :
        jobs[j].start_env # << >> =>
            Value(Instance[j[1]], jobs[j].start_env[1]) = <<j[2]>>

\* The table of an instance changes when it begins to start, or by a control
\* method that leaves the rest of it alone, never in PID 1: a job that runs
\* keeps its table through the starts and stops others ask for.
TableKept ==
    [][\A j \in DOMAIN jobs \cap DOMAIN jobs' :
          jobs'[j].env # jobs[j].env =>
              \/ jobs'[j].state = "starting" /\ jobs[j].state = "stopping"
              \/ user_mode /\ jobs'[j] = [jobs[j] EXCEPT !.env = jobs'[j].env]]_vars

\* A variable that gets a new value in the table of all jobs, other than by
\* a reset, gets it in every instance too; where values are retained, every
\* instance has some value.
InstancesFollow ==
    [][reply' # "reset" =>
          \A k \in {job_environ'[i].key : i \in DOMAIN job_environ'}, j \in DOMAIN jobs :
              environ_getn(job_environ', k) # environ_getn(job_environ, k) =>
                  environ_getn(jobs'[j].env[1], k) \in
                      {environ_getn(job_environ', k)}
                      \cup (IF environ_getn(job_environ, k) = << >>
                            THEN {environ_getn(jobs[j].env[1], k)} \ {<< >>} ELSE {})]_vars

\* Every table can be used, to expand references and to find the instance it
\* belongs to (environ_expand, job_class_start).
TablesSound == TypeOK /\ TablesUsable /\ ExpandsReferences /\ StartsAsNamed
=============================================================================
