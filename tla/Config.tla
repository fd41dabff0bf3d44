------------------------------- MODULE Config -------------------------------
(***************************************************************************)
(* Configuration sources and the job class they define (init/conf.c and    *)
(* the registration half of init/job_class.c), for one job name.           *)
(*                                                                         *)
(* Directories are searched in order; each may hold a configuration file   *)
(* of the job and an override file.  Files change on disk at any time, the *)
(* daemon hears of it through a queue of notifications and reads what is   *)
(* there by then.  Every load makes a new class; the registered one, whose *)
(* instances run, stays until its last instance has stopped.               *)
(*                                                                         *)
(* A class is a number; those that are not allocated have live = FALSE.    *)
(* The functions of the code are operators on h, the daemon's state.       *)
(***************************************************************************)
EXTENDS Integers, Sequences, FiniteSets

CONSTANTS NSources,      \* job directories, searched from 1 on
          Versions,      \* contents of a valid configuration file
          MaxClasses,    \* numbers for the classes allocated at a time
          MaxChanges,    \* changes made to the disk
          MaxInstances   \* instances running at a time

ASSUME ConfigAssumption == /\ NSources \in Nat \ {0}
                           /\ MaxClasses \in Nat /\ MaxClasses >= NSources + 2
                           /\ MaxChanges \in Nat /\ MaxInstances \in Nat
                           /\ {"none", "bad", "ok"} \cap Versions = {}

VARIABLES disk,      \* conf and over: what the files of each directory hold
          dir,       \* whether the directory exists
          queue,     \* what inotify has told of each directory, oldest first
          changes,   \* changes made so far
          h          \* the daemon: file, watch, class, reg, fault

vars == <<disk, dir, queue, changes, h>>

Sources == 1..NSources
Classes == 1..MaxClasses
NoFile == -1      \* the source has no ConfFile for the job
NoJob == 0        \* a ConfFile without a class, or no class

----------------------------------------------------------------------------
(* Classes. *)

NoClass == [live |-> FALSE, conf |-> "none", over |-> "none", deleted |-> FALSE,
            instances |-> 0, matched |-> FALSE]

Free(g) == {c \in Classes : ~g.class[c].live}
Lowest(s) == CHOOSE c \in s : \A d \in s : c <= d

Freed(g, c) == [g EXCEPT !.class[c] = NoClass]

\* A class an invalid override file has taken from its ConfFile is never freed;
\* once nothing refers to it any more the model forgets it.
Forgotten(g, c) == /\ g.class[c].over = "bad" /\ c # g.reg
                   /\ \A s \in Sources : g.file[s] # c

Swept(g) == [g EXCEPT !.class = [c \in Classes |-> IF Forgotten(g, c) THEN NoClass ELSE @[c]]]

\* The class of the first source that has one.
conf_select_job(g) ==
  LET having == {s \in Sources : g.file[s] \notin {NoFile, NoJob}}
  IN IF having = {} THEN NoJob ELSE g.file[Lowest(having)]

\* No class is taken out of the table while it has instances.
Removable(g, c) == g.class[c].instances = 0

\* The new class takes the events the old one has matched, as long as both start
\* on events and the old one can go.
job_class_event_block(g, old, new) ==
  IF g.class[old].matched /\ g.class[old].instances = 0
  THEN [g EXCEPT !.class[new].matched = TRUE] ELSE g

\* Mutant: the events of the class that goes are not taken over.
job_class_considerForgets(g, c) ==
  IF g.reg = conf_select_job(g) THEN g
  ELSE IF g.reg = NoJob \/ Removable(g, g.reg) THEN [g EXCEPT !.reg = conf_select_job(g)]
  ELSE g

\* A class was loaded: the best one is registered, unless the registered one runs.
job_class_consider(g, c) ==
  IF conf_select_job(g) = NoJob THEN [g EXCEPT !.fault = TRUE]
  ELSE IF g.reg = conf_select_job(g) THEN g
  ELSE IF g.reg = NoJob THEN [g EXCEPT !.reg = conf_select_job(g)]
  ELSE IF Removable(g, g.reg)
       THEN [job_class_event_block(g, g.reg, conf_select_job(g)) EXCEPT !.reg = conf_select_job(g)]
       ELSE [g EXCEPT !.class[conf_select_job(g)].matched = FALSE]

\* Mutant: the best class is not put in the place of the one that goes.
job_class_reconsiderEmpty(g, c) ==
  IF g.reg = c /\ c # conf_select_job(g) /\ Removable(g, c)
  THEN [g |-> [g EXCEPT !.reg = NoJob], unused |-> TRUE]
  ELSE [g |-> g, unused |-> g.reg # c]

\* A class lost its file or its last instance: whether it is unused now, and the
\* state with the best class registered in its place.
job_class_reconsider(g, c) ==
  IF g.reg = c /\ c # conf_select_job(g) /\ Removable(g, c)
  THEN [g |-> [g EXCEPT !.reg = conf_select_job(g)], unused |-> TRUE]
  ELSE [g |-> g, unused |-> g.reg # c]

\* A ConfFile with class c is freed; it is no longer among the files of its source.
conf_file_destroy(g, c) ==
  IF c \in {NoFile, NoJob} THEN g
  ELSE LET r == job_class_reconsider([g EXCEPT !.class[c].deleted = TRUE], c)
       IN IF r.unused THEN Freed(r.g, c) ELSE r.g

----------------------------------------------------------------------------
(* Loading. *)

\* parse_job without a class to update makes one.
NewClass(g, s, conf, over) ==
  LET c == Lowest(Free(g))
  IN [g EXCEPT !.file[s] = c,
               !.class[c] = [NoClass EXCEPT !.live = TRUE, !.conf = conf, !.over = over]]

\* conf_reload_path of a configuration file: the old ConfFile is taken out first
\* and freed last.
LoadConf(g, s, content) ==
  conf_file_destroy(
    IF content = "none" THEN [g EXCEPT !.file[s] = NoFile]
    ELSE IF content = "bad" THEN [g EXCEPT !.file[s] = NoJob]
    ELSE job_class_consider(NewClass(g, s, content, "none"), g.file[s]),
    g.file[s])

\* conf_reload_path of an override file, on top of the class its configuration
\* file gave.  One that cannot be parsed leaves the ConfFile without a class, and
\* the class, partly changed, where it is; one that comes after a configuration
\* file that could not be parsed makes a class of its own.  The override files of
\* the model leave the start condition alone.
LoadOverride(g, s, content) ==
  CASE content = "bad" /\ g.file[s] \in {NoFile, NoJob} -> [g EXCEPT !.file[s] = NoJob]
    [] content = "bad" /\ g.file[s] \notin {NoFile, NoJob} ->
         [g EXCEPT !.file[s] = NoJob, !.class[g.file[s]].over = "bad"]
    [] content = "ok" /\ g.file[s] \in {NoFile, NoJob} ->
         job_class_consider(NewClass(g, s, "none", "ok"), s)
    [] content = "ok" /\ g.file[s] \notin {NoFile, NoJob} ->
         job_class_consider([g EXCEPT !.class[g.file[s]].over = "ok"], g.file[s])

\* Mutant: override files of any directory apply.
conf_get_best_overrideAny(s) ==
  LET having == {t \in Sources : disk[t].over # "none"}
  IN IF having = {} THEN 0 ELSE Lowest(having)

\* The directory whose override file applies: the first, up to that of the file.
conf_get_best_override(s) ==
  LET having == {t \in 1..s : disk[t].over # "none"}
  IN IF having = {} THEN 0 ELSE Lowest(having)

conf_load_path_with_override(g, s) ==
  IF disk[s].conf # "none" /\ conf_get_best_override(s) # 0
  THEN Swept(LoadOverride(LoadConf(g, s, disk[s].conf), s, disk[conf_get_best_override(s)].over))
  ELSE Swept(LoadConf(g, s, disk[s].conf))

\* A configuration file is loaded again, if it was before.
LoadAgain(g, s) == IF g.file[s] = NoFile THEN g ELSE conf_load_path_with_override(g, s)

\* An override file changed: the loop over the sources loads every configuration
\* file again that is loaded.
ReloadAll(g) ==
  LET after[s \in 0..NSources] == IF s = 0 THEN g ELSE LoadAgain(after[s - 1], s)
  IN after[NSources]

\* A file is there, new or changed; what it holds is read now.
conf_create_modify_handler(g, s, ext) ==
  IF ext = "conf" THEN conf_load_path_with_override(g, s) ELSE ReloadAll(g)

\* A file, or the directory itself, is gone.
conf_delete_handler(g, s, ext) ==
  CASE ext = "dir" -> [g EXCEPT !.watch[s] = FALSE]
    [] ext = "override" -> ReloadAll(g)
    [] ext = "conf" -> conf_file_destroy([g EXCEPT !.file[s] = NoFile], g.file[s])

\* Files that were not seen by the walk of the directory are gone.
DropUnseen(g, s) ==
  IF disk[s].conf = "none" THEN conf_file_destroy([g EXCEPT !.file[s] = NoFile], g.file[s]) ELSE g

\* The walk of the directory: by conf_file_visitor, which loads configuration
\* files, or by nih_watch_new, which reports every file as created.
Walk(g, s) ==
  IF disk[s].conf = "none" THEN g ELSE conf_load_path_with_override(g, s)

conf_source_reload_dir(g, s) ==
  IF g.watch[s] THEN Walk(g, s)
  ELSE IF ~dir[s] THEN g
  ELSE IF disk[s].over = "none" THEN [Walk(g, s) EXCEPT !.watch[s] = TRUE]
  ELSE [ReloadAll(Walk(g, s)) EXCEPT !.watch[s] = TRUE]

conf_source_reload(g, s) == DropUnseen(conf_source_reload_dir(g, s), s)

\* The loop over the sources.
conf_reload(g) ==
  LET after[s \in 0..NSources] == IF s = 0 THEN g ELSE conf_source_reload(after[s - 1], s)
  IN after[NSources]

----------------------------------------------------------------------------
(* Actions. *)

Init == /\ disk \in [Sources -> [conf : {"none"} \cup Versions, over : {"none", "ok"}]]
        /\ dir = [s \in Sources |-> TRUE]
        /\ queue = [s \in Sources |-> << >>]
        /\ changes = 0
        /\ h = [file |-> [s \in Sources |-> NoFile], watch |-> [s \in Sources |-> FALSE],
                class |-> [c \in Classes |-> NoClass], reg |-> NoJob, fault |-> FALSE]

\* At the start, by SIGHUP and by request.
Reload ==
  /\ h' = conf_reload(h)
  /\ UNCHANGED <<disk, dir, queue, changes>>

\* The directory is watched: a watch is gone with its directory, and the daemon
\* reads of it last.
Watching(s) == h.watch[s] /\ \A i \in 1..Len(queue[s]) : queue[s][i].ext # "dir"

Told(s, ext, kind) ==
  queue' = IF Watching(s) THEN [queue EXCEPT ![s] = Append(@, [ext |-> ext, kind |-> kind])]
           ELSE queue

\* Somebody writes, or removes, a file.
WriteFile(s, ext, content) ==
  /\ changes < MaxChanges /\ dir[s]
  /\ content # disk[s][IF ext = "conf" THEN "conf" ELSE "over"]
  /\ disk' = [disk EXCEPT ![s][IF ext = "conf" THEN "conf" ELSE "over"] = content]
  /\ Told(s, ext, IF content = "none" THEN "delete" ELSE "modify")
  /\ changes' = changes + 1
  /\ UNCHANGED <<dir, h>>

\* Somebody removes an empty directory, or makes it again.
RemoveDir(s) ==
  /\ changes < MaxChanges /\ dir[s] /\ disk[s] = [conf |-> "none", over |-> "none"]
  /\ dir' = [dir EXCEPT ![s] = FALSE]
  /\ Told(s, "dir", "delete")
  /\ changes' = changes + 1
  /\ UNCHANGED <<disk, h>>

MakeDir(s) ==
  /\ ~dir[s]
  /\ dir' = [dir EXCEPT ![s] = TRUE]
  /\ UNCHANGED <<disk, queue, changes, h>>

\* The main loop takes a notification, of each directory in order; a file reported
\* as changed that is gone by now is not looked at.
Notified(s) ==
  /\ queue[s] # << >>
  /\ queue' = [queue EXCEPT ![s] = Tail(@)]
  /\ LET n == Head(queue[s])
         there == disk[s][IF n.ext = "conf" THEN "conf" ELSE "over"] # "none"
     IN h' = CASE n.kind = "delete" -> conf_delete_handler(h, s, n.ext)
               [] n.kind = "modify" /\ there -> conf_create_modify_handler(h, s, n.ext)
               [] n.kind = "modify" /\ ~there -> h
  /\ UNCHANGED <<disk, dir, changes>>

\* One of two events the class starts on arrives, and is held.
Matches ==
  /\ h.reg # NoJob /\ ~h.class[h.reg].matched
  /\ h' = [h EXCEPT !.class[h.reg].matched = TRUE]
  /\ UNCHANGED <<disk, dir, queue, changes>>

\* The other one arrives: an instance starts, the condition is reset.
Starts ==
  /\ h.reg # NoJob /\ h.class[h.reg].matched
  /\ h.class[h.reg].instances < MaxInstances
  /\ h' = [h EXCEPT !.class[h.reg].instances = @ + 1, !.class[h.reg].matched = FALSE]
  /\ UNCHANGED <<disk, dir, queue, changes>>

\* An instance reaches JOB_WAITING (job_change_state).
Stops(c) ==
  /\ h.class[c].instances > 0
  /\ LET r == job_class_reconsider([h EXCEPT !.class[c].instances = @ - 1], c)
     IN h' = IF r.g.class[c].deleted /\ r.unused THEN Freed(r.g, c) ELSE Swept(r.g)
  /\ UNCHANGED <<disk, dir, queue, changes>>

\* The first file of the job's name, whether it had a class or not.
conf_file_find(g) ==
  LET having == {s \in Sources : g.file[s] # NoFile}
  IN IF having = {} THEN 0 ELSE Lowest(having)

\* Only the registered class is written; the first file is given to it.
Restored(g) ==
  [g EXCEPT !.watch = [s \in Sources |-> FALSE],
            !.class = [c \in Classes |-> IF c = g.reg THEN @[c] ELSE NoClass],
            !.file = [s \in Sources |-> IF g.file[s] = NoFile THEN NoFile
                                        ELSE IF s = conf_file_find(g) THEN g.reg ELSE NoJob],
            \* conf_file_serialise fails when a file has a class and none is registered
            !.fault = @ \/ (g.reg = NoJob /\ \E s \in Sources : g.file[s] \notin {NoFile, NoJob})]

\* A re-exec: notifications are lost, and the configuration is loaded again.
Reexec ==
  /\ h' = conf_reload(Restored(h))
  /\ queue' = [s \in Sources |-> << >>]
  /\ UNCHANGED <<disk, dir, changes>>

Next == \/ Reload \/ Matches \/ Starts \/ Reexec
        \/ \E s \in Sources : \/ \E v \in {"none", "bad"} \cup Versions : WriteFile(s, "conf", v)
                              \/ \E v \in {"none", "bad", "ok"} : WriteFile(s, "override", v)
                              \/ RemoveDir(s) \/ MakeDir(s) \/ Notified(s)
        \/ \E c \in Classes : Stops(c)

Spec == Init /\ [][Next]_vars

----------------------------------------------------------------------------
(* Properties. *)

TypeOK ==
  /\ disk \in [Sources -> [conf : {"none", "bad"} \cup Versions, over : {"none", "bad", "ok"}]]
  /\ dir \in [Sources -> BOOLEAN]
  /\ queue \in [Sources -> Seq([ext : {"conf", "override", "dir"}, kind : {"modify", "delete"}])]
  /\ changes \in 0..MaxChanges
  /\ h \in [file : [Sources -> -1..MaxClasses], watch : [Sources -> BOOLEAN],
            class : [Classes -> [live : BOOLEAN, conf : {"none"} \cup Versions,
                                 over : {"none", "bad", "ok"}, deleted : BOOLEAN,
                                 instances : 0..MaxInstances, matched : BOOLEAN]],
            reg : 0..MaxClasses, fault : BOOLEAN]

InFile(c) == \E s \in Sources : h.file[s] = c

\* A class an invalid override file took from its ConfFile.
Orphan(c) == h.class[c].live /\ h.class[c].over = "bad" /\ ~InFile(c)

\* Whatever files come and go while instances run, the table and the files refer
\* to classes that exist, and no assertion fails (conf_file_destroy,
\* job_class_consider, conf_file_serialise).
NoDangling ==
  /\ ~h.fault
  /\ h.reg # NoJob => h.class[h.reg].live
  /\ \A s \in Sources : h.file[s] \notin {NoFile, NoJob} => h.class[h.file[s]].live
  /\ \A s, t \in Sources : s # t /\ h.file[s] = h.file[t] => h.file[s] \in {NoFile, NoJob}

\* Instances run only under the class that is registered: two versions of a job
\* never run side by side, and clients can reach every instance
\* (job_class_remove).
InstancesRegistered == \A c \in Classes : h.class[c].instances > 0 => c = h.reg

\* The registered class is the best there is, unless it still has instances or an
\* invalid override file made it an orphan (job_class_reconsider).
RegisteredIsBest ==
  h.reg = conf_select_job(h) \/ (h.reg # NoJob /\ (h.class[h.reg].instances > 0 \/ Orphan(h.reg)))

\* A class that has lost its file is freed as soon as it has no instances: only
\* orphans are leaked (conf_file_destroy, job_change_state).
NoLeak ==
  \A c \in Classes : h.class[c].live /\ ~InFile(c) /\ ~Orphan(c) =>
    h.class[c].deleted /\ h.class[c].instances > 0

\* What init(5) says the job is: the first directory with a configuration file
\* owns it, and the first override file up to that directory applies.
Owner == LET having == {s \in Sources : disk[s].conf \in Versions}
         IN IF having = {} THEN 0 ELSE Lowest(having)

\* No file that cannot be parsed has a say.
Clean == \A s \in Sources : disk[s].over # "bad" /\ (disk[s].conf = "bad" => conf_get_best_override(s) = 0)

Applied(s) == \E t \in 1..s : disk[t].over # "none"

\* When every notification has been taken and every directory is watched, the
\* registered class says what the files say, in whatever order they changed
\* (conf_create_modify_handler, conf_delete_handler, conf_get_best_override).
UpToDate ==
  (\A s \in Sources : queue[s] = << >> /\ h.watch[s]) /\ Clean =>
    \/ h.reg # NoJob /\ (h.class[h.reg].instances > 0 \/ Orphan(h.reg))
    \/ Owner = 0 /\ h.reg = NoJob
    \/ /\ Owner # 0 /\ h.reg # NoJob
       /\ h.class[h.reg].conf = disk[Owner].conf
       /\ h.class[h.reg].over = IF Applied(Owner) THEN "ok" ELSE "none"

\* A reload in the middle of the boot does not make the job wait for an event it
\* has had: a configuration file that is loaded again takes over what the
\* registered class has matched, as long as no file of the job is invalid and none
\* is of an earlier directory (job_class_event_block).
EventsTakenOver ==
  [][(\A t \in Sources : disk[t].conf # "bad" /\ disk[t].over # "bad") => \A s \in Sources :
       /\ \A t \in 1..(s - 1) : h.file[t] = NoFile
       /\ h.reg # NoJob /\ h.file[s] = h.reg /\ h.class[h.reg].matched
       /\ h.class[h.reg].instances = 0
       /\ h'.file[s] \notin {NoFile, NoJob} /\ h'.reg = h'.file[s]
       /\ h'.class[h'.reg].instances = 0
       => h'.class[h'.reg].matched]_vars

\* The class table agrees with the files and the instances at any time
\* (job_class_consider, job_class_reconsider, conf_file_destroy).
ClassesSound ==
  TypeOK /\ NoDangling /\ InstancesRegistered /\ RegisteredIsBest /\ NoLeak
=============================================================================
