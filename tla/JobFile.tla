------------------------------ MODULE JobFile -------------------------------
(***************************************************************************)
(* The stanzas of a job configuration file (init/parse_job.c), the override*)
(* file that is read on top of it, and the job class written to JSON and   *)
(* read back when the daemon re-executes itself (init/job_class.c,         *)
(* init/process.c, init/cgroup.c, init/state.c).                           *)
(*                                                                         *)
(* A stanza is a name and its arguments.  Every handler takes the class    *)
(* and the arguments and gives the class it leaves, changed or not, with   *)
(* whether it succeeded: the code assigns before it checks, so that a      *)
(* handler that fails has often changed the class already.                 *)
(*                                                                         *)
(* An argument is a record.  Its kind k is word, num, big (the number n    *)
(* plus 2^32), set (an assignment w=n) or open (a quote that is not        *)
(* closed, which no token can be read from).                               *)
(***************************************************************************)
EXTENDS Integers, Sequences, FiniteSets, SequencesExt

CONSTANTS Stanzas,      \* the stanzas files are made of
          Resources,    \* names of resources that can be limited
          Signals,      \* names of signals, with their numbers
          InitEnv,      \* the names set in the daemon's own environment
          MaxConf,      \* stanzas of a configuration file
          MaxOverride   \* stanzas of an override file

ASSUME JobFileAssumption == MaxConf \in Nat /\ MaxOverride \in Nat

VARIABLES conf,     \* the stanzas of the configuration file that were read
          over,     \* those of the override file
          phase,    \* conf, override, or failed in one of them
          class     \* the class, as the handlers left it

vars == <<conf, over, phase, class>>

Word(w) == [k |-> "word", w |-> w, n |-> 0]
Num(n) == [k |-> "num", w |-> "", n |-> n]
Big(n) == [k |-> "big", w |-> "", n |-> n]
SetTo(w, n) == [k |-> "set", w |-> w, n |-> n]
Open == [k |-> "open", w |-> "", n |-> 0]
NULL == [k |-> "null", w |-> "", n |-> 0]

----------------------------------------------------------------------------
(* Numbers.  A long is a pair: its upper half, and its lower half as an int. *)

Long(t) == <<IF t.k = "big" THEN 1 ELSE 0, t.n>>
Int32(t) == t.n                         \* (int) of a long: the lower half
Negative(l) == l[1] = 0 /\ l[2] < 0
IsNumber(t) == t.k \in {"num", "big"}
RLIM_INFINITY == <<0, -1>>            \* all bits set
Garbage == <<-1, -1>>                 \* memory nobody has written to

\* The first of the positions, or 0.
At(s) == IF s = {} THEN 0 ELSE CHOOSE i \in s : \A j \in s : i <= j

\* strtoul reads a minus sign too, and wraps around.
AboveIntMax(t) == t.k = "big" \/ t.n < 0

----------------------------------------------------------------------------
(* Classes. *)

Texts == {"instance", "description", "author", "version", "chroot", "chdir",
          "setuid", "setgid", "usage", "apparmor_switch"}
Lists == {"env", "export", "emits", "normalexit"}
Processes == {"main", "pre-start", "post-start", "pre-stop", "post-stop", "security"}

NoProcess == [script |-> FALSE, command |-> NULL, alloc |-> FALSE]
NoLimit == [cur |-> Garbage, max |-> Garbage, alloc |-> FALSE]

job_class_new ==
  [text |-> [f \in Texts |-> IF f = "instance" THEN Word("") ELSE NULL],
   list |-> [f \in Lists |-> <<>>],
   process |-> [p \in Processes |-> NoProcess],
   limits |-> [r \in Resources |-> NoLimit],
   cgroups |-> <<>>,
   start_on |-> NULL, stop_on |-> NULL,
   expect |-> "none", console |-> "log",
   task |-> FALSE, respawn |-> FALSE, debug |-> FALSE,
   kill_timeout |-> <<0, 5>>, kill_signal |-> 15, reload_signal |-> 1,
   respawn_limit |-> 10, respawn_interval |-> <<0, 5>>,
   umask |-> 18, nice |-> -21, oom_score_adj |-> 0]

Ok(c) == [c |-> c, ok |-> TRUE]
Error(c) == [c |-> c, ok |-> FALSE]

\* nih_config_next_arg of the i-th argument.
Has(a, i) == Len(a) >= i /\ a[i].k # "open"
Is(a, i, w) == Has(a, i) /\ a[i] = Word(w)

\* nih_config_skip_comment after n arguments: nothing else may follow.
skip_comment(c, a, n) == [c |-> c, ok |-> Len(a) = n]

----------------------------------------------------------------------------
(* Processes. *)

\* The rest of the line, quotes and all.
parse_exec(p, a) ==
  IF a = <<>> THEN [p |-> [p EXCEPT !.alloc = TRUE], ok |-> FALSE]
  ELSE [p |-> [script |-> FALSE, command |-> IF Has(a, 1) THEN a[1] ELSE NULL, alloc |-> TRUE],
        ok |-> Has(a, 1)]

\* A block up to "end script".  Its text is the last argument; without it the
\* block is not terminated.
parse_script(p, a) ==
  IF ~Is(a, 1, "block") /\ a # <<>> THEN [p |-> [p EXCEPT !.alloc = TRUE], ok |-> FALSE]
  ELSE IF Len(a) < 2 THEN [p |-> [script |-> TRUE, command |-> NULL, alloc |-> TRUE], ok |-> FALSE]
  ELSE [p |-> [script |-> TRUE, command |-> a[2], alloc |-> TRUE], ok |-> TRUE]

WithProcess(c, p, r) == [c |-> [c EXCEPT !.process[p] = r.p], ok |-> r.ok]

stanza_exec(c, a) == WithProcess(c, "main", parse_exec(c.process["main"], a))
stanza_script(c, a) == WithProcess(c, "main", parse_script(c.process["main"], a))

\* The Process is allocated before its argument is read.
parse_process(c, p, a) ==
  WithProcess(c, p, CASE Is(a, 1, "exec") -> parse_exec(c.process[p], Tail(a))
                      [] Is(a, 1, "script") -> parse_script(c.process[p], Tail(a))
                      [] OTHER -> [p |-> [c.process[p] EXCEPT !.alloc = TRUE], ok |-> FALSE])

stanza_pre_start(c, a) == parse_process(c, "pre-start", a)
stanza_post_start(c, a) == parse_process(c, "post-start", a)
stanza_pre_stop(c, a) == parse_process(c, "pre-stop", a)
stanza_post_stop(c, a) == parse_process(c, "post-stop", a)

----------------------------------------------------------------------------
(* Texts, lists and flags. *)

\* The old text is given up before the new one is read.
Text(c, f, a) ==
  IF Has(a, 1) THEN skip_comment([c EXCEPT !.text[f] = a[1]], a, 1)
  ELSE Error([c EXCEPT !.text[f] = NULL])

stanza_instance(c, a) == Text(c, "instance", a)
stanza_description(c, a) == Text(c, "description", a)
stanza_author(c, a) == Text(c, "author", a)
stanza_version(c, a) == Text(c, "version", a)
stanza_chroot(c, a) == Text(c, "chroot", a)
stanza_chdir(c, a) == Text(c, "chdir", a)
stanza_setuid(c, a) == Text(c, "setuid", a)
stanza_setgid(c, a) == Text(c, "setgid", a)
stanza_usage(c, a) == Text(c, "usage", a)

stanza_env(c, a) ==
  IF Has(a, 1) THEN skip_comment([c EXCEPT !.list["env"] = Append(@, a[1])], a, 1) ELSE Error(c)

\* One argument or more; none is added unless all can be read.
Several(c, f, a) ==
  IF a # <<>> /\ \A i \in DOMAIN a : Has(a, i) THEN Ok([c EXCEPT !.list[f] = @ \o a]) ELSE Error(c)

stanza_export(c, a) == Several(c, "export", a)
stanza_emits(c, a) == Several(c, "emits", a)

\* The condition is the second argument; its syntax is the Condition module's.
On(c, f, a) ==
  IF ~Is(a, 1, "on") THEN Error(c)
  ELSE IF Has(a, 2) THEN Ok([c EXCEPT ![f] = a[2]]) ELSE Error([c EXCEPT ![f] = NULL])

stanza_start(c, a) == On(c, "start_on", a)
stanza_stop(c, a) == On(c, "stop_on", a)

\* Mutant: only the stanzas that follow are disregarded.
stanza_manualLate(c, a) == Ok(c)

\* Neither stanza looks at what follows it on its line; the debug flag needs an
\* option of the daemon.
stanza_manual(c, a) == Ok([c EXCEPT !.start_on = NULL])

stanza_debug(c, a) == Ok(c)

stanza_task(c, a) == skip_comment([c EXCEPT !.task = TRUE], a, 0)

stanza_expect(c, a) ==
  IF Has(a, 1) /\ a[1] \in {Word("stop"), Word("daemon"), Word("fork"), Word("none")}
  THEN skip_comment([c EXCEPT !.expect = a[1].w], a, 1) ELSE Error(c)

job_class_console_type(t) ==
  IF t \in {Word("none"), Word("output"), Word("owner"), Word("log")} THEN t.w ELSE "invalid"

stanza_console(c, a) ==
  IF ~Has(a, 1) THEN Error(c)
  ELSE LET new == [c EXCEPT !.console = job_class_console_type(a[1])]
       IN IF new.console = "invalid" THEN Error(new) ELSE skip_comment(new, a, 1)

stanza_apparmor(c, a) ==
  CASE Is(a, 1, "load") /\ Has(a, 2) ->
         skip_comment([c EXCEPT !.process["security"] =
                         [script |-> FALSE, command |-> a[2], alloc |-> TRUE]], a, 2)
    [] Is(a, 1, "switch") /\ Has(a, 2) -> skip_comment([c EXCEPT !.text["apparmor_switch"] = a[2]], a, 2)
    [] Is(a, 1, "switch") /\ ~Has(a, 2) -> Error([c EXCEPT !.text["apparmor_switch"] = NULL])
    [] OTHER -> Error(c)

----------------------------------------------------------------------------
(* Numbers and signals. *)

\* The number of a signal, by name or as it is.
IsSignal(t) == t.k = "word" /\ t.w \in DOMAIN Signals
SignalOf(t) == IF IsSignal(t) THEN Signals[t.w] ELSE t.n

LegalSignal(t) == IsSignal(t) \/ (IsNumber(t) /\ ~AboveIntMax(t))

stanza_kill(c, a) ==
  CASE Is(a, 1, "timeout") /\ Has(a, 2) ->
         LET new == [c EXCEPT !.kill_timeout = Long(a[2])]
         IN IF ~IsNumber(a[2]) \/ Negative(new.kill_timeout) THEN Error(new) ELSE skip_comment(new, a, 2)
    [] Is(a, 1, "signal") /\ Has(a, 2) /\ LegalSignal(a[2]) ->
         skip_comment([c EXCEPT !.kill_signal = SignalOf(a[2])], a, 2)
    [] OTHER -> Error(c)

stanza_reload(c, a) ==
  IF Is(a, 1, "signal") /\ Has(a, 2) /\ LegalSignal(a[2])
  THEN skip_comment([c EXCEPT !.reload_signal = SignalOf(a[2])], a, 2) ELSE Error(c)

\* The interval is read only when the limit is legal.
RespawnLimit(c, a) ==
  LET limited == [c EXCEPT !.respawn_limit = Int32(a[2])]
      timed == [limited EXCEPT !.respawn_interval = Long(a[3])]
  IN IF ~IsNumber(a[2]) \/ limited.respawn_limit < 0 \/ ~Has(a, 3) THEN Error(limited)
     ELSE IF ~IsNumber(a[3]) \/ Negative(timed.respawn_interval) THEN Error(timed)
     ELSE skip_comment(timed, a, 3)

stanza_respawn(c, a) ==
  CASE a = <<>> -> Ok([c EXCEPT !.respawn = TRUE])
    [] Is(a, 1, "limit") /\ Is(a, 2, "unlimited") ->
         skip_comment([c EXCEPT !.respawn_limit = 0, !.respawn_interval = <<0, 0>>], a, 2)
    [] Is(a, 1, "limit") /\ Has(a, 2) /\ ~Is(a, 2, "unlimited") -> RespawnLimit(c, a)
    [] OTHER -> Error(c)

\* Exit codes as they are, signals in the next byte, up to the first that is bad.
BadExit(a) == At({i \in 1..Len(a) - 1 : ~LegalSignal(a[i + 1])})
ExitOf(t) == IF IsSignal(t) THEN Num(Signals[t.w] * 256) ELSE t

stanza_normal(c, a) ==
  IF ~Is(a, 1, "exit") \/ Len(a) = 1 THEN Error(c)
  ELSE LET bad == BadExit(a)
           good == SubSeq(a, 2, IF bad = 0 THEN Len(a) ELSE bad)
           new == [c EXCEPT !.list["normalexit"] = @ \o [i \in DOMAIN good |-> ExitOf(good[i])]]
       IN IF bad = 0 THEN Ok(new) ELSE Error(new)

\* Mutant: the mask may have any bits.
stanza_umaskAny(c, a) ==
  IF Has(a, 1) /\ IsNumber(a[1]) THEN skip_comment([c EXCEPT !.umask = Int32(a[1])], a, 1) ELSE Error(c)

stanza_umask(c, a) ==
  IF ~Has(a, 1) THEN Error(c)
  ELSE LET new == [c EXCEPT !.umask = Int32(a[1])]
       IN IF ~IsNumber(a[1]) \/ new.umask \notin 0..511 THEN Error(new) ELSE skip_comment(new, a, 1)

stanza_nice(c, a) ==
  IF ~Has(a, 1) THEN Error(c)
  ELSE LET new == [c EXCEPT !.nice = Int32(a[1])]
       IN IF ~IsNumber(a[1]) \/ new.nice \notin -20..19 THEN Error(new) ELSE skip_comment(new, a, 1)

\* C's division rounds towards zero.
ScoreOf(adj) == IF adj < 0 THEN -((-adj * 1000) \div 17) ELSE (adj * 1000) \div 15

stanza_oom(c, a) ==
  CASE Is(a, 1, "score") /\ Is(a, 2, "never") -> skip_comment([c EXCEPT !.oom_score_adj = -1000], a, 2)
    [] Is(a, 1, "score") /\ Has(a, 2) /\ ~Is(a, 2, "never") ->
         LET new == [c EXCEPT !.oom_score_adj = Int32(a[2])]
         IN IF ~IsNumber(a[2]) \/ new.oom_score_adj \notin -1000..1000 THEN Error(new)
            ELSE skip_comment(new, a, 2)
    [] Is(a, 1, "never") -> skip_comment([c EXCEPT !.oom_score_adj = -1000], a, 1)
    [] Has(a, 1) /\ ~Is(a, 1, "score") /\ ~Is(a, 1, "never") ->
         LET new == [c EXCEPT !.oom_score_adj = ScoreOf(Int32(a[1]))]
         IN IF ~IsNumber(a[1]) \/ Int32(a[1]) \notin -17..15 THEN Error(new) ELSE skip_comment(new, a, 1)
    [] OTHER -> Error(c)

LimitOf(t) == IF t = Word("unlimited") THEN RLIM_INFINITY ELSE Long(t)
LegalLimit(t) == t = Word("unlimited") \/ IsNumber(t)

\* The structure is allocated, and left as the allocator gives it, before its
\* values are read.
stanza_limit(c, a) ==
  IF ~Has(a, 1) \/ a[1].w \notin Resources THEN Error(c)
  ELSE LET r == a[1].w
           alloc == [c EXCEPT !.limits[r].alloc = TRUE]
           soft == [alloc EXCEPT !.limits[r].cur = LimitOf(a[2])]
           hard == [soft EXCEPT !.limits[r].max = LimitOf(a[3])]
       IN IF ~Has(a, 2) THEN Error(alloc)
          ELSE IF ~LegalLimit(a[2]) \/ ~Has(a, 3) THEN Error(soft)
          ELSE IF ~LegalLimit(a[3]) THEN Error(hard)
          ELSE skip_comment(hard, a, 3)

----------------------------------------------------------------------------
(* Control groups: controllers with names with settings. *)

UPSTART_CGROUP == Word("$UPSTART_CGROUP")

\* The list with the element that has the key replaced, or with a new one at its
\* end.
Index(list, f, key) == At({i \in DOMAIN list : list[i][f] = key})
Place(list, f, key, new) ==
  IF Index(list, f, key) = 0 THEN Append(list, new) ELSE [list EXCEPT ![Index(list, f, key)] = new]
Found(list, f, key, none) == IF Index(list, f, key) = 0 THEN none ELSE list[Index(list, f, key)]

cgroup_add(list, controller, name, key, value) ==
  LET group == Found(list, "controller", controller, [controller |-> controller, names |-> <<>>])
      named == Found(group.names, "name", name, [name |-> name, settings |-> <<>>])
      set == IF key = NULL THEN named
             ELSE [named EXCEPT !.settings = Place(@, "key", key, [key |-> key, value |-> value])]
  IN Place(list, "controller", controller, [group EXCEPT !.names = Place(@, "name", name, set)])

\* controller [name] [key value]
parse_cgroup(c, a) ==
  LET add(name, key, value) == [c EXCEPT !.cgroups = cgroup_add(@, a[1], name, key, value)]
  IN IF a = <<>> \/ \E i \in DOMAIN a : i <= 4 /\ ~Has(a, i) THEN Error(c)
     ELSE CASE Len(a) = 1 -> Ok(add(UPSTART_CGROUP, NULL, NULL))
            [] Len(a) = 2 -> Ok(add(a[2], NULL, NULL))
            [] Len(a) = 3 -> Ok(add(UPSTART_CGROUP, a[2], a[3]))
            [] OTHER -> skip_comment(add(a[2], a[3], a[4]), a, 4)

stanza_cgroup(c, a) == parse_cgroup(c, a)

----------------------------------------------------------------------------
(* Files. *)

stanzas(st, c) ==
  CASE st.name = "instance" -> stanza_instance(c, st.args)
    [] st.name = "description" -> stanza_description(c, st.args)
    [] st.name = "author" -> stanza_author(c, st.args)
    [] st.name = "version" -> stanza_version(c, st.args)
    [] st.name = "env" -> stanza_env(c, st.args)
    [] st.name = "export" -> stanza_export(c, st.args)
    [] st.name = "start" -> stanza_start(c, st.args)
    [] st.name = "stop" -> stanza_stop(c, st.args)
    [] st.name = "emits" -> stanza_emits(c, st.args)
    [] st.name = "exec" -> stanza_exec(c, st.args)
    [] st.name = "script" -> stanza_script(c, st.args)
    [] st.name = "pre-start" -> stanza_pre_start(c, st.args)
    [] st.name = "post-start" -> stanza_post_start(c, st.args)
    [] st.name = "pre-stop" -> stanza_pre_stop(c, st.args)
    [] st.name = "post-stop" -> stanza_post_stop(c, st.args)
    [] st.name = "expect" -> stanza_expect(c, st.args)
    [] st.name = "task" -> stanza_task(c, st.args)
    [] st.name = "kill" -> stanza_kill(c, st.args)
    [] st.name = "reload" -> stanza_reload(c, st.args)
    [] st.name = "respawn" -> stanza_respawn(c, st.args)
    [] st.name = "normal" -> stanza_normal(c, st.args)
    [] st.name = "console" -> stanza_console(c, st.args)
    [] st.name = "umask" -> stanza_umask(c, st.args)
    [] st.name = "nice" -> stanza_nice(c, st.args)
    [] st.name = "oom" -> stanza_oom(c, st.args)
    [] st.name = "limit" -> stanza_limit(c, st.args)
    [] st.name = "chroot" -> stanza_chroot(c, st.args)
    [] st.name = "chdir" -> stanza_chdir(c, st.args)
    [] st.name = "setuid" -> stanza_setuid(c, st.args)
    [] st.name = "setgid" -> stanza_setgid(c, st.args)
    [] st.name = "debug" -> stanza_debug(c, st.args)
    [] st.name = "manual" -> stanza_manual(c, st.args)
    [] st.name = "usage" -> stanza_usage(c, st.args)
    [] st.name = "apparmor" -> stanza_apparmor(c, st.args)
    [] st.name = "cgroup" -> stanza_cgroup(c, st.args)
    [] OTHER -> Error(c)

----------------------------------------------------------------------------
(* The class written to JSON and read back.  NULL is the null of JSON. *)

\* Blank entries keep the order of what is missing.
process_serialise_all(c) ==
  [p \in Processes |-> IF c.process[p].alloc
                       THEN [script |-> c.process[p].script, command |-> c.process[p].command]
                       ELSE [script |-> FALSE, command |-> NULL]]

\* Mutant: a script comes back as a command.
process_deserialiseExec(j) ==
  IF j.command = NULL THEN NoProcess ELSE [script |-> FALSE, command |-> j.command, alloc |-> TRUE]

process_deserialise(j) ==
  IF j.command = NULL THEN NoProcess ELSE [script |-> j.script, command |-> j.command, alloc |-> TRUE]

process_deserialise_all(j) == [p \in Processes |-> process_deserialise(j[p])]

state_rlimit_serialise_all(c) ==
  [r \in Resources |-> IF c.limits[r].alloc THEN [cur |-> c.limits[r].cur, max |-> c.limits[r].max]
                       ELSE [cur |-> <<0, 0>>, max |-> <<0, 0>>]]

state_rlimit_deserialise(j) == [cur |-> j.cur, max |-> j.max, alloc |-> TRUE]

\* A limit of zero is taken for a blank entry.
state_rlimit_deserialise_all(j) ==
  [r \in Resources |-> IF j[r] = [cur |-> <<0, 0>>, max |-> <<0, 0>>] THEN NoLimit
                       ELSE state_rlimit_deserialise(j[r])]

\* A name without a value gets the value of the daemon's own environment, or is
\* dropped; an earlier entry of the same name is replaced in its place.
environ_add(env, t) ==
  LET old == At({i \in DOMAIN env : env[i].w = t.w})
      new == IF t.k = "set" THEN t ELSE SetTo(t.w, 0)
  IN IF t.k # "set" /\ t.w \notin InitEnv THEN (IF old = 0 THEN env ELSE RemoveAt(env, old))
     ELSE IF old = 0 THEN Append(env, new) ELSE [env EXCEPT ![old] = new]

state_deserialise_str_array(j) == FoldLeft(Append, <<>>, j)
state_deserialise_env_array(j) == FoldLeft(environ_add, <<>>, j)
state_deserialise_int32_array(j) == [i \in DOMAIN j |-> Num(j[i])]
state_serialise_int32_array(list) == [i \in DOMAIN list |-> list[i].n]

cgroup_setting_serialise_all(settings) ==
  [i \in DOMAIN settings |-> [key |-> settings[i].key, value |-> settings[i].value]]

cgroup_name_serialise_all(names) ==
  [i \in DOMAIN names |-> [name |-> names[i].name,
                           settings |-> cgroup_setting_serialise_all(names[i].settings)]]

cgroup_serialise_all(list) ==
  [i \in DOMAIN list |-> [controller |-> list[i].controller,
                          names |-> cgroup_name_serialise_all(list[i].names)]]

\* Every element is added at the end of its list.
AddSetting(list, e) == Append(list, [key |-> e.key, value |-> e.value])
cgroup_setting_deserialise_all(j) == FoldLeft(AddSetting, <<>>, j)

AddName(list, e) == Append(list, [name |-> e.name, settings |-> cgroup_setting_deserialise_all(e.settings)])
cgroup_name_deserialise_all(j) == FoldLeft(AddName, <<>>, j)

AddGroup(list, e) == Append(list, [controller |-> e.controller, names |-> cgroup_name_deserialise_all(e.names)])
cgroup_deserialise_all(j) == FoldLeft(AddGroup, <<>>, j)

ExpectNames == [none |-> "EXPECT_NONE", stop |-> "EXPECT_STOP",
                daemon |-> "EXPECT_DAEMON", fork |-> "EXPECT_FORK"]
ConsoleNames == [none |-> "CONSOLE_NONE", output |-> "CONSOLE_OUTPUT",
                 owner |-> "CONSOLE_OWNER", log |-> "CONSOLE_LOG"]

job_class_expect_type_enum_to_str(v) == ExpectNames[v]
job_class_expect_type_str_to_enum(w) == CHOOSE v \in DOMAIN ExpectNames : ExpectNames[v] = w
job_class_console_type_enum_to_str(v) == ConsoleNames[v]
job_class_console_type_str_to_enum(w) == CHOOSE v \in DOMAIN ConsoleNames : ConsoleNames[v] = w

\* A value that is no member of its type cannot be written.
Serialisable(c) == c.console \in DOMAIN ConsoleNames /\ c.expect \in DOMAIN ExpectNames

Plain == {"task", "respawn", "debug", "kill_timeout", "kill_signal", "reload_signal",
          "respawn_limit", "respawn_interval", "umask", "nice", "oom_score_adj"}

job_class_serialise(c) ==
  [text |-> c.text, env |-> c.list["env"], export |-> c.list["export"], emits |-> c.list["emits"],
   normalexit |-> state_serialise_int32_array(c.list["normalexit"]),
   start_on |-> c.start_on, stop_on |-> c.stop_on, process |-> process_serialise_all(c),
   expect |-> job_class_expect_type_enum_to_str(c.expect),
   console |-> job_class_console_type_enum_to_str(c.console),
   plain |-> [f \in Plain |-> c[f]],
   limits |-> state_rlimit_serialise_all(c), cgroups |-> cgroup_serialise_all(c.cgroups)]

job_class_deserialise(j) ==
  [f \in DOMAIN job_class_new |->
     CASE f \in Plain -> j.plain[f]
       [] f = "text" -> j.text
       [] f = "list" -> [env |-> state_deserialise_env_array(j.env),
                         export |-> state_deserialise_env_array(j.export),
                         emits |-> state_deserialise_str_array(j.emits),
                         normalexit |-> state_deserialise_int32_array(j.normalexit)]
       [] f = "process" -> process_deserialise_all(j.process)
       [] f = "limits" -> state_rlimit_deserialise_all(j.limits)
       [] f = "cgroups" -> cgroup_deserialise_all(j.cgroups)
       [] f = "expect" -> job_class_expect_type_str_to_enum(j.expect)
       [] f = "console" -> job_class_console_type_str_to_enum(j.console)
       [] OTHER -> j[f]]

----------------------------------------------------------------------------
(* Reading the files. *)

Init == conf = <<>> /\ over = <<>> /\ phase = "conf" /\ class = job_class_new

\* The next stanza of the configuration file.  When one fails the class is freed.
ReadConf(st) ==
  /\ phase = "conf" /\ Len(conf) < MaxConf
  /\ conf' = Append(conf, st)
  /\ LET r == stanzas(st, class)
     IN IF r.ok THEN class' = r.c /\ phase' = phase
        ELSE class' = job_class_new /\ phase' = "conf failed"
  /\ UNCHANGED over

\* The end of the configuration file: the class is considered, and the override
\* file is read into it.
EndConf == phase = "conf" /\ phase' = "override" /\ UNCHANGED <<conf, over, class>>

\* The next stanza of the override file.  When one fails the class stays, as the
\* stanzas up to it have left it.
ReadOverride(st) ==
  /\ phase = "override" /\ Len(over) < MaxOverride
  /\ over' = Append(over, st)
  /\ LET r == stanzas(st, class)
     IN class' = r.c /\ phase' = IF r.ok THEN phase ELSE "override failed"
  /\ UNCHANGED conf

Next == \/ \E st \in Stanzas : ReadConf(st) \/ ReadOverride(st)
        \/ EndConf

Spec == Init /\ [][Next]_vars

----------------------------------------------------------------------------
(* Properties. *)

\* The phases, and the lengths of what was read.
TypeOK ==
  /\ phase \in {"conf", "conf failed", "override", "override failed"}
  /\ conf \in Seq(Stanzas) /\ Len(conf) <= MaxConf
  /\ over \in Seq(Stanzas) /\ Len(over) <= MaxOverride
  /\ DOMAIN class = DOMAIN job_class_new
  /\ class.kill_signal \in Nat /\ class.reload_signal \in Nat /\ class.expect \in DOMAIN ExpectNames
  /\ \A p \in Processes : class.process[p].command # NULL => class.process[p].alloc

Read == phase \in {"conf", "override"}

\* What the rest of the daemon relies on in a class parse_job returned: it asserts
\* that a process has a command (job_process_run), hands limits, mask and priority
\* to the kernel without a look, and writes the class with the names of its types.
LegalClass ==
  Read => /\ \A p \in Processes : class.process[p].alloc => class.process[p].command # NULL
          /\ \A r \in Resources : class.limits[r].alloc => Garbage \notin {class.limits[r].cur, class.limits[r].max}
          /\ class.text["instance"] # NULL
          /\ class.nice \in {-21} \cup -20..19
          /\ class.umask \in 0..511
          /\ class.oom_score_adj \in -1000..1000
          /\ ~Negative(class.kill_timeout) /\ ~Negative(class.respawn_interval)
          /\ class.respawn_limit >= 0
          /\ Serialisable(class)

\* The members a stanza is documented to set (init.5), by its name and the word
\* that follows it.
Second(st) == IF st.args = <<>> THEN "" ELSE st.args[1].w
SetBy(st) ==
  CASE st.name \in Texts -> {<<"text", st.name>>}
    [] st.name \in {"exec", "script"} -> {<<"process", "main">>}
    [] st.name \in Processes -> {<<"process", st.name>>}
    [] st.name = "apparmor" -> IF Second(st) = "load" THEN {<<"process", "security">>}
                               ELSE {<<"text", "apparmor_switch">>}
    [] st.name \in {"start", "manual"} -> {<<"start_on">>}
    [] st.name = "stop" -> {<<"stop_on">>}
    [] st.name = "kill" -> IF Second(st) = "timeout" THEN {<<"kill_timeout">>} ELSE {<<"kill_signal">>}
    [] st.name = "reload" -> {<<"reload_signal">>}
    [] st.name = "respawn" -> IF st.args = <<>> THEN {<<"respawn">>}
                              ELSE {<<"respawn_limit">>, <<"respawn_interval">>}
    [] st.name = "oom" -> {<<"oom_score_adj">>}
    [] st.name = "limit" -> {<<"limits", Second(st)>>}
    [] st.name \in {"expect", "console", "task", "umask", "nice"} -> {<<st.name>>}
    [] OTHER -> {}

Member(c, m) == IF Len(m) = 1 THEN c[m[1]] ELSE c[m[1]][m[2]]

Members == {<<f>> : f \in Plain \cup {"start_on", "stop_on", "expect", "console"}}
             \cup {<<"text", f>> : f \in Texts} \cup {<<"process", p>> : p \in Processes}
             \cup {<<"limits", r>> : r \in Resources}

\* The value a member has on its own: that of the last stanza that sets it, as if
\* it stood alone in the file.
Written(file, m) ==
  LET setting == {i \in DOMAIN file : m \in SetBy(file[i])}
      last == CHOOSE i \in setting : \A j \in setting : j <= i
  IN Member(IF setting = {} THEN job_class_new ELSE stanzas(file[last], job_class_new).c, m)

Listed(file, f) == FlattenSeq([i \in DOMAIN file |-> stanzas(file[i], job_class_new).c.list[f]])

\* The class is what its files say: for every member the last stanza wins, the
\* override file's stanzas over the configuration file's, whatever other stanzas
\* stand between them; lists are everything that was given, in order (init.5:1189).
ReadsAsWritten ==
  Read => /\ \A m \in Members : Member(class, m) = Written(conf \o over, m)
          /\ \A f \in Lists : class.list[f] = Listed(conf \o over, f)

\* The settings of one control group are in one place, so that cgroup_setup makes
\* each group once and applies each setting once.
CGroupsOnce ==
  /\ \A i, j \in DOMAIN class.cgroups :
       class.cgroups[i].controller = class.cgroups[j].controller => i = j
  /\ \A g \in Range(class.cgroups) : \A i, j \in DOMAIN g.names :
       g.names[i].name = g.names[j].name => i = j
  /\ \A g \in Range(class.cgroups) : \A n \in Range(g.names) : \A i, j \in DOMAIN n.settings :
       n.settings[i].key = n.settings[j].key => i = j

\* What state.c is known to change: a limit of zero is taken for none, and the
\* tables env and export lose names without a value.
Portable(c) ==
  /\ \A r \in Resources : c.limits[r].alloc => <<0, 0>> \notin {c.limits[r].cur, c.limits[r].max}
  /\ \A i, j \in DOMAIN c.list["env"] : /\ c.list["env"][i].k = "set"
                                        /\ c.list["env"][i].w = c.list["env"][j].w => i = j
  /\ c.list["export"] = <<>>

\* A class read from its files is the same after a re-exec, apart from that: a job
\* that runs across the re-exec keeps the class it was started from.
SurvivesReexec ==
  Read /\ Portable(class) => job_class_deserialise(job_class_serialise(class)) = class

\* The rest of the daemon can rely on a class that was read (parse_job).
ClassSound == TypeOK /\ LegalClass /\ CGroupsOnce
=============================================================================
