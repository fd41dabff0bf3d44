----------------------------- MODULE FileBridge -----------------------------
(***************************************************************************)
(* The bridge that turns changes of files into events                      *)
(* (extra/upstart-file-bridge.c): it learns of the job classes of init over *)
(* D-Bus, watches for every file they name the deepest directory above it  *)
(* that exists, moves the watches as directories come and go, and emits    *)
(* the file event.                                                         *)
(*                                                                         *)
(* A path is the sequence of its names; the empty one is the root.  The    *)
(* file system, inotify and the rest of init take steps of their own       *)
(* between any two steps of the bridge.                                    *)
(***************************************************************************)
EXTENDS Integers, FiniteSets, SequencesExt

CONSTANTS
    Dirs, Files,       \* the paths of the file system, by what they can be
    NamePrefix,        \* <<n, m>> where the name n is a proper prefix of m
    DotNames,          \* the names that begin with a dot
    DotsNames,         \* the names that end in two dots
    Job,               \* job classes
    FileEvents,        \* FileEvents[j]: the environments of the file events of j
    user, home_dir,    \* --user, and the user's home directory
    NULL,
    InitialPaths,      \* the sets of paths that may exist at first
    InitialClasses,    \* the sets of classes that init may have at first
    MaxChanges         \* bound on the changes of the file system and of init

VARIABLES
    exists,            \* the paths that exist
    classes,           \* the job classes init has
    changes,           \* how often paths and classes changed so far
    link,              \* "down", "connected" to init, or "up"
    signals,           \* the JobAdded and JobRemoved signals not read yet
    todo,              \* the classes the list of main still has to be added
    adding,            \* what upstart_job_added is at, or NULL
    jobs,              \* jobs[j]: the WatchedFiles of a job the bridge knows
    watched_dirs,      \* watched_dirs[d]: [files, live, queue]
    lost,              \* WatchedFiles linked into memory that was freed
    emitted,           \* the events the last step emitted
    told,              \* WatchedFiles that were told that their file exists
    early              \* <<file, path>>: path was there before file's watch;
                       \* <<file, NULL>>: its watch was dead already

bridgeVars == <<link, signals, todo, adding, jobs, watched_dirs, lost>>
worldVars == <<exists, classes, changes>>
vars == <<worldVars, bridgeVars, emitted, told, early>>

Paths == Dirs \cup Files

-----------------------------------------------------------------------------
(* Paths                                                                   *)

Parent(p) == Front(p)

\* strstr (q, p) == q: p is a prefix of q as a string, so a name may end inside
\* the name that q has there.
StrPrefix(p, q) ==
    \/ IsPrefix(p, q)
    \/ /\ p # <<>> /\ Len(p) <= Len(q)
       /\ Front(p) = SubSeq(q, 1, Len(p) - 1)
       /\ <<Last(p), q[Len(p)]>> \in NamePrefix

\* fnmatch with FNM_PATHNAME; "*" is the one pattern.
Matches(pattern, p) ==
    /\ Len(pattern) = Len(p)
    /\ \A i \in 1..Len(p) : pattern[i] \in {"*", p[i]}

\* Ancestors of p and p itself, the longest first.
Chain(p) == [i \in 1..Len(p) + 1 |-> SubSeq(p, 1, Len(p) + 1 - i)]

\* A value of FILE as it is written: absolute or not, its names, a slash at
\* its end or not.
Written(p, slash) == [abs |-> TRUE, names |-> p, slash |-> slash]

\* path_valid: with --user a path may be relative but not begin with a dot; no
\* path has a name before a slash that ends in two dots.
path_valid(w) ==
    /\ IF user THEN w.names # <<>> /\ ~w.abs => w.names[1] \notin DotNames ELSE w.abs
    /\ \A i \in DOMAIN w.names : w.names[i] \in DotsNames => i = Len(w.names) /\ ~w.slash

\* expand_path
expand_path(w) ==
    Written(home_dir \o (IF w.names # <<>> /\ w.names[1] \in {"~", "."}
                            /\ (Len(w.names) > 1 \/ w.slash)
                         THEN Tail(w.names) ELSE w.names), w.slash)

\* The assertions of job_add_file about dirname and basename fail for a name
\* without directory and for the root.
NoDirname(w) == Len(w.names) <= (IF w.abs THEN 0 ELSE 1)

-----------------------------------------------------------------------------
(* What a job asks for                                                     *)

\* A file event is a sequence of [var, val]; strncmp stops at the length of
\* the name in the job, so a shorter name is taken for the longer one.
NamesFile(var)  == var \in {"", "F", "FI", "FIL", "FILE"}
NamesEvent(var) == var \in {"E", "EV", "EVE", "EVEN", "EVENT"}

AllEvents == {"create", "modify", "delete"}

NothingYet == [path |-> NULL, expanded |-> NULL, glob |-> FALSE, events |-> {}, end |-> "none"]

\* The FILE branch of the loop in job_add_file.
ReadFile(acc, w) ==
    LET a == [acc EXCEPT !.path = w,
                         !.expanded = IF user /\ ~w.abs THEN expand_path(w) ELSE @]
    IN  CASE ~path_valid(w) -> [a EXCEPT !.end = "ignored"]
          [] NoDirname(w)   -> [a EXCEPT !.end = "abort"]
          [] \E i \in 1..Len(w.names) - 1 : w.names[i] = "*" -> [a EXCEPT !.end = "ignored"]
          [] OTHER -> IF Last(w.names) = "*"
                      THEN [a EXCEPT !.path = [w EXCEPT !.names = Front(@), !.slash = FALSE],
                                     !.glob = TRUE]
                      ELSE a

\* The EVENT branch: delete is added to what was said before, the others
\* replace it.
ReadEvent(acc, val) ==
    CASE val \in {"create", "modify"} -> [acc EXCEPT !.events = {val}]
      [] val = "delete"               -> [acc EXCEPT !.events = @ \cup {val}]
      [] OTHER                        -> acc

ReadVariable(acc, e) ==
    CASE acc.end # "none"  -> acc
      [] e.var = NULL      -> [acc EXCEPT !.end = "ignored"]
      [] NamesFile(e.var)  -> ReadFile(acc, e.val)
      [] NamesEvent(e.var) -> ReadEvent(acc, e.val)
      [] OTHER             -> acc

ReadEnv(env) == FoldLeft(ReadVariable, NothingYet, env)

\* watched_file_new: the WatchedFile of the n-th file event of job j.
watched_file_new(j, n, r) ==
    LET w == IF r.expanded # NULL THEN r.expanded ELSE r.path
    IN  [job |-> j, n |-> n, path |-> w.names, dir |-> w.slash, glob |-> r.glob,
         original |-> CASE w.slash -> w
                        [] ~w.slash /\ r.expanded # NULL -> r.path
                        [] OTHER -> NULL,
         events |-> IF r.events = {} THEN AllEvents ELSE r.events]

\* The WatchedFiles that the classes can ask for.
WatchedFile ==
    UNION {{watched_file_new(j, n, ReadEnv(FileEvents[j][n])) :
                n \in {m \in DOMAIN FileEvents[j] : ReadEnv(FileEvents[j][m]).path # NULL}} :
            j \in Job}

original_path(f) == IF f.original # NULL THEN f.original ELSE Written(f.path, FALSE)
FullPath(f)      == Append(f.path, "*")

emit_event(w, event, match) == [file |-> w, event |-> event, match |-> match]

Plain(f) == ~f.dir /\ ~f.glob

-----------------------------------------------------------------------------
(* The constants                                                           *)

\* Where upstart_job_added is: the job, the number of the file event, and its
\* WatchedFile once job_add_file has made it.
Adding == [job : Job, n : Nat, file : WatchedFile \cup {NULL}]

\* A path that can be watched has names; the paths that jobs ask for are
\* sequences of names too, as are the file events of a job; init has finitely
\* many classes.
ASSUME PathsAreNames == Paths \subseteq Seq(STRING) \ {<<>>}
ASSUME FilesHavePaths == \A f \in WatchedFile : f.path \in Seq(STRING)
ASSUME EventsAreListed == \A j \in Job : FileEvents[j] \in Seq(Range(FileEvents[j]))
ASSUME WorldAtFirst ==
    /\ InitialPaths \subseteq SUBSET Paths
    /\ InitialClasses \subseteq SUBSET Job /\ IsFiniteSet(Job)
ASSUME NullIsNothing == NULL \notin Paths /\ NULL \notin WatchedFile /\ NULL \notin Adding

-----------------------------------------------------------------------------
(* Watches                                                                 *)

TableOf(f) == {d \in DOMAIN watched_dirs : f \in watched_dirs[d].files}
Known      == UNION {jobs[j] : j \in DOMAIN jobs}
Asking     == Known \cup (IF adding # NULL /\ adding.file # NULL THEN {adding.file} ELSE {})

\* The name after directory d on the way to p.
StepTo(d, p) == SubSeq(p, 1, Len(d) + 1)

\* What is already there when the files F come under the watch of d, or that
\* the watch is that of a directory that was deleted.
EarlyFor(d, F) ==
    {<<f, StepTo(d, f.path)>> : f \in {g \in F : Len(g.path) > Len(d)
                                                 /\ StepTo(d, g.path) \in exists}}
    \cup {<<f, NULL>> : f \in {g \in F : d \in DOMAIN watched_dirs /\ ~watched_dirs[d].live}}
NotOf(F) == {e \in early : e[1] \notin F}

\* Files that are told by an event that their path exists.
ToldBy(E, F) == {f \in F : emit_event(Written(f.path, FALSE), "create", NULL) \in E}

Without(dirs, d) == [p \in DOMAIN dirs \ {d} |-> dirs[p]]

\* find_first_parent: the longest path that is watched or exists.
find_first_parent(dirs, p) ==
    LET ch == Chain(p)
        at == {i \in DOMAIN ch : ch[i] \in DOMAIN dirs \cup exists \cup {<<>>}}
    IN  ch[CHOOSE i \in at : \A k \in at : i <= k]

\* watched_dir_new, with the files that are put in its table afterwards; the
\* create handler runs for what is already in the directory, but the table is
\* still empty, so that file_filter ignores it.
watched_dir_new(dirs, d, F) ==
    [p \in DOMAIN dirs \cup {d} |->
        IF p = d THEN [files |-> F, live |-> TRUE, queue |-> <<>>] ELSE dirs[p]]

\* Puts F under the watch of d, in dirs.  An existing watch is used where the
\* caller looks for one; a new one is refused for the root, and inotify may
\* refuse it: the limit of watches, or the directory went away.
Placed(dirs, d, F) ==
    IF d \in DOMAIN dirs
    THEN {[dirs EXCEPT ![d].files = @ \cup F]}
    ELSE {dirs} \cup (IF d = <<>> THEN {} ELSE {watched_dir_new(dirs, d, F)})

PlacedIn(dirs, d, F) == d \in DOMAIN dirs /\ F \subseteq dirs[d].files

-----------------------------------------------------------------------------
(* The start and the end of the bridge                                     *)

Down ==
    /\ link' = "down" /\ signals' = <<>> /\ todo' = <<>> /\ adding' = NULL
    /\ jobs' = <<>> /\ watched_dirs' = <<>> /\ lost' = {}
    /\ emitted' = {} /\ told' = {} /\ early' = {}

\* An assertion fails; init respawns the bridge.
Abort == Down /\ UNCHANGED worldVars

InMainLoop == link = "up" /\ todo = <<>> /\ adding = NULL

\* main, until it asks for the jobs: it hears the signals from here on.
Connect ==
    /\ link = "down" /\ link' = "connected"
    /\ emitted' = {}
    /\ UNCHANGED <<worldVars, signals, todo, adding, jobs, watched_dirs, lost, told, early>>

\* The reply to GetAllJobs.
GetAllJobs ==
    /\ link = "connected" /\ link' = "up"
    /\ todo' = SetToSeq(classes)
    /\ emitted' = {}
    /\ UNCHANGED <<worldVars, signals, adding, jobs, watched_dirs, lost, told, early>>

\* upstart_disconnected, or the TERM signal.
Leave == InMainLoop /\ Abort

-----------------------------------------------------------------------------
(* Jobs                                                                    *)

\* job_destroy: its files leave the tables.  A file of a table that was freed
\* is unlinked from memory that is no longer its own: the bridge goes on, or
\* it does not.
Forget(j) ==
    LET F == IF j \in DOMAIN jobs THEN jobs[j] ELSE {}
    IN  /\ watched_dirs' = [d \in DOMAIN watched_dirs |-> [watched_dirs[d] EXCEPT !.files = @ \ F]]
        /\ lost' = lost \ F /\ told' = told \ F /\ early' = NotOf(F)

MayCorrupt(j) == j \in DOMAIN jobs /\ jobs[j] \cap lost # {}

job_new(j) == [k \in DOMAIN jobs \cup {j} |-> IF k = j THEN {} ELSE jobs[k]]

\* upstart_job_added until its loops; the class may be gone by now.
upstart_job_added(j) ==
    /\ IF j \in classes
       THEN /\ Forget(j)
            /\ jobs' = job_new(j)
            /\ adding' = [job |-> j, n |-> 1, file |-> NULL]
       ELSE UNCHANGED <<watched_dirs, lost, told, early, jobs, adding>>
    /\ emitted' = {}

AddListed ==
    /\ link = "up" /\ todo # <<>> /\ adding = NULL
    /\ todo' = Tail(todo)
    /\ upstart_job_added(Head(todo))
    /\ UNCHANGED <<worldVars, link, signals>>

upstart_job_removed(j) ==
    /\ Forget(j)
    /\ jobs' = [k \in DOMAIN jobs \ {j} |-> jobs[k]]
    /\ emitted' = {}
    /\ UNCHANGED adding

ReadSignal ==
    /\ InMainLoop /\ signals # <<>>
    /\ LET s == Head(signals) IN
       \/ /\ signals' = Tail(signals)
          /\ IF s.added THEN upstart_job_added(s.job) ELSE upstart_job_removed(s.job)
          /\ UNCHANGED <<worldVars, link, todo>>
       \/ (s.added => s.job \in classes) /\ MayCorrupt(s.job) /\ Abort

\* job_add_file until ensure_watched: what exists already is reported now.
Exist(f) ==
    IF "create" \notin f.events THEN {}
    ELSE IF f.glob THEN {emit_event(Written(FullPath(f), FALSE), "create", p) :
                            p \in {q \in exists : Matches(FullPath(f), q)}}
    ELSE IF f.path \in exists THEN {emit_event(Written(f.path, FALSE), "create", NULL)} ELSE {}

job_add_file ==
    /\ adding # NULL /\ adding.file = NULL /\ adding.n <= Len(FileEvents[adding.job])
    /\ LET r == ReadEnv(FileEvents[adding.job][adding.n])
           f == watched_file_new(adding.job, adding.n, r)
       IN  \/ r.end = "abort" /\ Abort
           \/ /\ r.end # "abort"
              /\ IF r.end = "ignored" \/ r.path = NULL \/ f.path = <<>>
                 THEN /\ adding' = [adding EXCEPT !.n = @ + 1]
                      /\ emitted' = {} /\ UNCHANGED told
                 ELSE /\ adding' = [adding EXCEPT !.file = f]
                      /\ emitted' = Exist(f)
                      /\ told' = told \cup ToldBy(emitted', Known \cup {f})
              /\ UNCHANGED <<worldVars, link, signals, todo, jobs, watched_dirs, lost, early>>

\* ensure_watched: a directory that exists is watched itself.
ensure_watched ==
    /\ adding # NULL /\ adding.file # NULL
    /\ LET f == adding.file
           d == IF ~Plain(f) /\ f.path \in exists THEN f.path
                ELSE find_first_parent(watched_dirs, f.path)
       IN  /\ watched_dirs' \in Placed(watched_dirs, d, {f})
           /\ IF PlacedIn(watched_dirs', d, {f})
              THEN /\ jobs' = [jobs EXCEPT ![f.job] = @ \cup {f}]
                   /\ early' = NotOf({f}) \cup EarlyFor(d, {f})
                   /\ UNCHANGED told
              ELSE jobs' = jobs /\ told' = told \ {f} /\ UNCHANGED early
    /\ adding' = [adding EXCEPT !.n = @ + 1, !.file = NULL]
    /\ emitted' = {}
    /\ UNCHANGED <<worldVars, link, signals, todo, lost>>

\* The end of upstart_job_added: a job without files is freed.
Added ==
    /\ adding # NULL /\ adding.file = NULL /\ adding.n > Len(FileEvents[adding.job])
    /\ jobs' = IF jobs[adding.job] = {} THEN [k \in DOMAIN jobs \ {adding.job} |-> jobs[k]] ELSE jobs
    /\ adding' = NULL
    /\ emitted' = {}
    /\ UNCHANGED <<worldVars, link, signals, todo, watched_dirs, lost, told, early>>

-----------------------------------------------------------------------------
(* The handlers of a watch; d is its directory                             *)

\* handle_event: what one handler has to emit, each event once.
handle_event(E) == emitted' = E /\ told' = told \cup ToldBy(E, Known)

file_filter(d, path) ==
    \A f \in watched_dirs[d].files :
        ~StrPrefix(path, f.path) /\ (f.dir \/ f.glob => ~StrPrefix(f.path, path))

\* The events of create_handler.
CreateEvents(d, path) ==
    LET F == watched_dirs[d].files IN
    {emit_event(original_path(f), "modify", path) :
        f \in {g \in F : g.dir /\ g.path = d /\ "modify" \in g.events}}
    \cup {emit_event(original_path(f), "create", NULL) :
        f \in {g \in F : g.dir /\ g.path # d /\ g.path = path}}
    \cup {emit_event(Written(FullPath(f), FALSE), "create", path) :
        f \in {g \in F : ~g.dir /\ g.glob /\ Matches(FullPath(g), path) /\ "create" \in g.events}}
    \cup {emit_event(Written(f.path, FALSE), "create", NULL) :
        f \in {g \in F : Plain(g) /\ g.path = path /\ "create" \in g.events}}

\* Mutant: the arguments of strstr are swapped.
MovesDown_Swapped(d, path) ==
    {f \in watched_dirs[d].files :
        \/ f.dir /\ f.path # d /\ f.path = path
        \/ /\ Plain(f) /\ ~(f.path = path /\ "create" \in f.events)
           /\ StrPrefix(f.path, path) /\ path \in Dirs}

\* The files create_handler moves to a watch on path.
MovesDown(d, path) ==
    {f \in watched_dirs[d].files :
        \/ f.dir /\ f.path # d /\ f.path = path
        \/ /\ Plain(f) /\ ~(f.path = path /\ "create" \in f.events)
           /\ StrPrefix(path, f.path) /\ path \in Dirs}

create_handler(d, path, rest) ==
    LET F == MovesDown(d, path)
        E == CreateEvents(d, path)
        left == [rest EXCEPT ![d].files = @ \ F]
        freed(dirs) == IF left[d].files = {} THEN Without(dirs, d) ELSE dirs
    IN  \/ /\ F = {}
           /\ watched_dirs' = rest
           /\ handle_event(E)
           /\ UNCHANGED <<link, signals, todo, adding, jobs, lost, early>>
        \/ /\ F # {} /\ path \in DOMAIN watched_dirs
           /\ Down
        \/ /\ F # {} /\ path \notin DOMAIN watched_dirs
           /\ \/ /\ watched_dirs' = freed(watched_dir_new(left, path, F))
                 /\ lost' = lost /\ early' = NotOf(F) \cup EarlyFor(path, F)
              \/ /\ watched_dirs' = left
                 /\ lost' = lost \cup F /\ early' = NotOf(F)
           /\ handle_event(E)
           /\ UNCHANGED <<link, signals, todo, adding, jobs>>

\* Mutant: the mask of the file is not tested.
modify_handler_Unmasked(d, path, rest) ==
    /\ handle_event({emit_event(original_path(f), "modify", path) :
                     f \in {g \in watched_dirs[d].files : g.dir /\ g.path = d}}
            \cup {emit_event(Written(FullPath(f), FALSE), "modify", path) :
                     f \in {g \in watched_dirs[d].files : g.glob /\ Matches(FullPath(g), path)}})
    /\ watched_dirs' = rest
    /\ UNCHANGED <<link, signals, todo, adding, jobs, lost, early>>

modify_handler(d, path, rest) ==
    LET F == {f \in watched_dirs[d].files : "modify" \in f.events} IN
    /\ handle_event({emit_event(original_path(f), "modify", path) : f \in {g \in F : g.dir /\ g.path = d}}
            \cup {emit_event(Written(FullPath(f), FALSE), "modify", path) :
                    f \in {g \in F : ~g.dir /\ g.glob /\ Matches(FullPath(g), path)}}
            \cup {emit_event(original_path(f), "modify", NULL) : f \in {g \in F : Plain(g) /\ g.path = path}})
    /\ watched_dirs' = rest
    /\ UNCHANGED <<link, signals, todo, adding, jobs, lost, early>>

DeleteEvents(d, path) ==
    LET F == watched_dirs[d].files IN
    {emit_event(original_path(f), "delete", NULL) : f \in {g \in F : g.dir /\ g.path = path}}
    \cup {emit_event(original_path(f), "modify", path) :
        f \in {g \in F : g.dir /\ g.path # path /\ g.path = d /\ "modify" \in g.events}}
    \cup {emit_event(Written(FullPath(f), FALSE), "delete", path) :
        f \in {g \in F : ~g.dir /\ g.glob /\ Matches(FullPath(g), path) /\ "delete" \in g.events}}
    \cup {emit_event(original_path(f), "delete", NULL) :
        f \in {g \in F : Plain(g) /\ g.path = path /\ "delete" \in g.events}}

\* The files delete_handler moves to a watch further up.
MovesUp(d, path) ==
    {f \in watched_dirs[d].files :
        /\ Plain(f) /\ ~(f.path = path /\ "delete" \in f.events)
        /\ StrPrefix(path, f.path)}

\* Where a file has to move, the whole WatchedDir is freed, its table too; its
\* path is read afterwards, before anything else is allocated.
delete_handler(d, path, rest) ==
    LET F == MovesUp(d, path)
        freed == Without(rest, d)
        to == find_first_parent(freed, d)
    IN  /\ handle_event(DeleteEvents(d, path))
        /\ IF F = {}
           THEN watched_dirs' = rest /\ UNCHANGED <<lost, early>>
           ELSE /\ watched_dirs' \in Placed(freed, to, F)
                /\ LET moved == IF PlacedIn(watched_dirs', to, F) THEN F ELSE {}
                   IN  /\ lost' = lost \cup (watched_dirs[d].files \ moved)
                       /\ early' = NotOf(watched_dirs[d].files) \cup EarlyFor(to, moved)
        /\ UNCHANGED <<link, signals, todo, adding, jobs>>

\* nih_watch reads one inotify event of the watch on d; what the filter
\* ignores, or what is gone when it is looked at, reaches no handler.
ReadInotify(d) ==
    /\ InMainLoop
    /\ watched_dirs[d].queue # <<>>
    /\ LET e == Head(watched_dirs[d].queue)
           rest == [watched_dirs EXCEPT ![d].queue = Tail(@)]
       IN  \/ /\ e.what # "ignored"
              /\ file_filter(d, e.path) \/ (e.what # "delete" /\ e.path \notin exists)
              /\ watched_dirs' = rest /\ emitted' = {}
              /\ UNCHANGED <<link, signals, todo, adding, jobs, lost, told, early>>
           \/ /\ e.what = "ignored"
              /\ delete_handler(d, d, rest)
           \/ /\ e.what = "delete" /\ ~file_filter(d, e.path)
              /\ delete_handler(d, e.path, rest)
           \/ /\ e.what = "create" /\ ~file_filter(d, e.path) /\ e.path \in exists
              /\ create_handler(d, e.path, rest)
           \/ /\ e.what = "modify" /\ ~file_filter(d, e.path) /\ e.path \in exists
              /\ modify_handler(d, e.path, rest)
    /\ UNCHANGED worldVars

-----------------------------------------------------------------------------
(* The file system and init                                                *)

Inotify(what, p) == [what |-> what, path |-> p]

Queued(dirs, d, e) ==
    IF d \in DOMAIN dirs /\ dirs[d].live THEN [dirs EXCEPT ![d].queue = Append(@, e)] ELSE dirs

Changes == changes < MaxChanges /\ changes' = changes + 1

CreatePath(p) ==
    /\ Changes
    /\ p \notin exists /\ Parent(p) \in exists \cup {<<>>}
    /\ exists' = exists \cup {p}
    /\ watched_dirs' = Queued(watched_dirs, Parent(p), Inotify("create", p))
    /\ emitted' = {}
    /\ UNCHANGED <<classes, link, signals, todo, adding, jobs, lost, told, early>>

\* A watch on the file itself may get the event too.
ModifyPath(p) ==
    /\ Changes
    /\ p \in exists \cap Files
    /\ LET dirs == Queued(watched_dirs, Parent(p), Inotify("modify", p))
       IN  watched_dirs' \in {dirs, Queued(dirs, p, Inotify("modify", p))}
    /\ emitted' = {}
    /\ UNCHANGED <<exists, classes, link, signals, todo, adding, jobs, lost, told, early>>

\* The watch of what is deleted ends with the ignored event.
DeletePath(p) ==
    /\ Changes
    /\ p \in exists /\ (\A q \in exists : Parent(q) # p)
    /\ exists' = exists \ {p}
    /\ LET dirs == Queued(Queued(watched_dirs, Parent(p), Inotify("delete", p)), p, Inotify("ignored", p))
       IN  watched_dirs' = IF p \in DOMAIN dirs THEN [dirs EXCEPT ![p].live = FALSE] ELSE dirs
    /\ told' = {f \in told : f.path # p}
    /\ early' = {e \in early : e[2] # p}
    /\ emitted' = {}
    /\ UNCHANGED <<classes, link, signals, todo, adding, jobs, lost>>

\* A class comes to or leaves init, which tells the bridge where it listens.
ClassChanges(j) ==
    /\ Changes
    /\ classes' = IF j \in classes THEN classes \ {j} ELSE classes \cup {j}
    /\ IF link = "down" THEN UNCHANGED signals
       ELSE signals' = Append(signals, [job |-> j, added |-> j \notin classes])
    /\ emitted' = {}
    /\ UNCHANGED <<exists, link, todo, adding, jobs, watched_dirs, lost, told, early>>

-----------------------------------------------------------------------------
Init ==
    /\ exists \in InitialPaths
    /\ classes \in InitialClasses
    /\ changes = 0
    /\ link = "down" /\ signals = <<>> /\ todo = <<>> /\ adding = NULL
    /\ jobs = <<>> /\ watched_dirs = <<>> /\ lost = {}
    /\ emitted = {} /\ told = {} /\ early = {}

Next ==
    \/ Connect \/ GetAllJobs \/ Leave
    \/ AddListed \/ ReadSignal
    \/ job_add_file \/ ensure_watched \/ Added
    \/ \E d \in DOMAIN watched_dirs : ReadInotify(d)
    \/ \E p \in Paths : CreatePath(p) \/ ModifyPath(p) \/ DeletePath(p)
    \/ \E j \in Job : ClassChanges(j)

Spec == Init /\ [][Next]_vars

-----------------------------------------------------------------------------
(* Properties                                                              *)

TypeOK ==
    /\ exists \subseteq Paths /\ classes \subseteq Job
    /\ link \in {"down", "connected", "up"}
    /\ Range(todo) \subseteq Job
    /\ DOMAIN jobs \subseteq Job
    /\ Known \cup lost \cup told \subseteq WatchedFile
    /\ DOMAIN watched_dirs \subseteq Paths
    /\ \A d \in DOMAIN watched_dirs :
        /\ watched_dirs[d].files \subseteq WatchedFile
        /\ watched_dirs[d].live => d \in exists
        /\ \A i \in DOMAIN watched_dirs[d].queue : watched_dirs[d].queue[i].path \in Paths

\* A WatchedFile is in one table, or in none if it was lost, and belongs to a
\* job the bridge knows: after job_destroy nothing is left that could emit an
\* event for it.
OneTable ==
    \A f \in lost \cup UNION {watched_dirs[d].files : d \in DOMAIN watched_dirs} :
        /\ f \in Known
        /\ Cardinality(TableOf(f)) = (IF f \in lost THEN 0 ELSE 1)

\* A plain file (no directory, no pattern) that a job wants to hear about and
\* whose directory is watched has been reported once it exists, its inotify
\* event is still to be read, or it was there before the watch was.
CreationTold ==
    \A d \in DOMAIN watched_dirs : \A f \in watched_dirs[d].files :
        Plain(f) /\ "create" \in f.events /\ watched_dirs[d].live
        /\ f.path \in exists /\ d = Parent(f.path)
        => \/ f \in told \/ <<f, f.path>> \in early
           \/ Inotify("create", f.path) \in Range(watched_dirs[d].queue)

\* create_handler brings the watch on d nearer to f with every directory on the
\* way to a plain file, and with a directory a job asked for when that is the
\* next step itself.  From further above a directory is not followed, and a
\* pattern never is.
Nearing(d, f) ==
    /\ IsPrefix(d, f.path)
    /\ \/ Plain(f) /\ Len(f.path) > Len(d) + 1
       \/ f.dir /\ Len(f.path) = Len(d) + 1

\* A watch follows the directories that are created on the way to its file, as
\* far as create_handler follows them: it is the deepest there could be, but
\* for those that were there before it.
FollowsDown ==
    \A d \in DOMAIN watched_dirs : \A f \in watched_dirs[d].files :
        LET c == StepTo(d, f.path) IN
        Nearing(d, f) /\ watched_dirs[d].live /\ c \in exists \cap Dirs
        => <<f, c>> \in early \/ Inotify("create", c) \in Range(watched_dirs[d].queue)

\* A plain file is not left behind on a directory that was deleted: its watch
\* moves up when the end of the directory is read.  A file that was watched
\* itself and wanted to hear of its end is the exception; directories and
\* patterns are left behind (delete_handler).
FollowsUp ==
    \A d \in DOMAIN watched_dirs : \A f \in watched_dirs[d].files :
        Plain(f) /\ ~watched_dirs[d].live
        => \/ Inotify("ignored", d) \in Range(watched_dirs[d].queue)
           \/ f.path = d /\ "delete" \in f.events
           \/ <<f, NULL>> \in early

\* When every signal is read, the bridge knows no job that init does not have,
\* although classes come and go while main asks for the list of them.
JobsOfInit ==
    InMainLoop /\ signals = <<>> => DOMAIN jobs \subseteq classes

\* File f asks for event e: it has the name of the file and a kind of change in
\* its mask, or it is what create_handler and delete_handler emit without a
\* look at the mask, the creation or the end of a directory.
AsksFor(f, e) ==
    \/ /\ e.file \in {original_path(f), Written(f.path, FALSE), Written(FullPath(f), FALSE)}
       /\ e.event \in f.events
    \/ /\ f.dir /\ e.event \in {"create", "delete"}
       /\ e = emit_event(original_path(f), e.event, NULL)

\* An event names a file that a job the bridge knows asked for, with a kind of
\* change it asked for; only the creation and the end of a directory that was
\* asked for are told whatever its EVENT says (create_handler, modify_handler,
\* delete_handler).
WantedOnly == [][\A e \in emitted' : \E f \in Asking' : AsksFor(f, e)]_vars

\* Watches are where the files of the known jobs can be seen from, as far as
\* create_handler and delete_handler move them; files that were lost with a
\* table that was freed are seen no more (job_add_file, job_destroy).
WatchesFollow ==
    TypeOK /\ OneTable /\ CreationTold /\ FollowsDown /\ FollowsUp /\ JobsOfInit
=============================================================================
