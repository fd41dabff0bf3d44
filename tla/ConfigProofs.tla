---------------------------- MODULE ConfigProofs ----------------------------
(***************************************************************************)
(* Proofs that the table of classes agrees with the files and with the     *)
(* instances (ClassesSound), that it says what the files on disk say once  *)
(* every notification is read (UpToDate), and that a class that is loaded  *)
(* again takes over what the old one has matched (EventsTakenOver), for    *)
(* any number of directories, classes and changes.                         *)
(***************************************************************************)
EXTENDS Config, SequenceTheorems, FiniteSetTheorems, WellFoundedInduction, TLAPS

-----------------------------------------------------------------------------
(* The inductive invariant                                                 *)

ClassRecord ==
  [live : BOOLEAN, conf : {"none"} \cup Versions, over : {"none", "bad", "ok"},
   deleted : BOOLEAN, instances : 0..MaxInstances, matched : BOOLEAN]

Daemon ==
  [file : [Sources -> -1..MaxClasses], watch : [Sources -> BOOLEAN],
   class : [Classes -> ClassRecord], reg : 0..MaxClasses, fault : BOOLEAN]

Notification == [ext : {"conf", "override", "dir"}, kind : {"modify", "delete"}]

\* f, cl and rg are the files, the classes and the registered class of a daemon.
Has(f, s) == f[s] # NoFile /\ f[s] # NoJob
In(f, c)  == \E s \in Sources : f[s] = c

\* The class of the first source that has one.
Selected(f) ==
  LET having == {s \in Sources : f[s] \notin {NoFile, NoJob}}
  IN IF having = {} THEN NoJob ELSE f[Lowest(having)]

Linked(f, cl, rg) ==
  /\ rg # NoJob => cl[rg].live
  /\ \A s \in Sources : Has(f, s) => cl[f[s]].live
  /\ \A s, t \in Sources : s # t /\ f[s] = f[t] => ~Has(f, s)
  /\ \A c \in Classes : cl[c].instances > 0 => c = rg

Best(f, cl, rg) ==
  rg = Selected(f) \/ (rg # NoJob /\ (cl[rg].instances > 0 \/ (cl[rg].over = "bad" /\ ~In(f, rg))))

\* A class that has no file is the registered one; it is an orphan or still runs.
Tidy(f, cl, rg) ==
  \A c \in Classes : cl[c].live /\ ~In(f, c) =>
    c = rg /\ (cl[c].over = "bad" \/ (cl[c].deleted /\ cl[c].instances > 0))

Good(g) ==
  /\ g \in Daemon /\ ~g.fault
  /\ Linked(g.file, g.class, g.reg) /\ Best(g.file, g.class, g.reg) /\ Tidy(g.file, g.class, g.reg)

\* The override file that applies to source s.
Override(s) == IF conf_get_best_override(s) = 0 THEN "none" ELSE disk[conf_get_best_override(s)].over

\* The ConfFile of s is what the files on disk make of it.
Fresh(f, cl, s) ==
  CASE disk[s].conf = "none" -> f[s] = NoFile
    [] disk[s].conf # "none" /\ (Override(s) = "bad" \/ (disk[s].conf = "bad" /\ Override(s) = "none")) ->
         f[s] = NoJob
    [] disk[s].conf # "none" /\ Override(s) # "bad" /\ (disk[s].conf # "bad" \/ Override(s) # "none") ->
         /\ Has(f, s) /\ ~cl[f[s]].deleted
         /\ cl[f[s]].conf = IF disk[s].conf = "bad" THEN "none" ELSE disk[s].conf
         /\ cl[f[s]].over = Override(s)

\* inotify has told of the configuration file, the override file or the directory,
\* and still tells of changes.
Mentions(q, ext) == \E i \in 1..Len(q) : q[i].ext = ext
Listens(w, q)    == w /\ ~Mentions(q, "dir")

\* What inotify tells last of a file is true.
TellsRight(q, ext, content) ==
  \A i \in 1..Len(q) : q[i].ext = ext =>
    \E k \in i..Len(q) : q[k].ext = ext /\ (q[k].kind = "delete" <=> content = "none")

\* Of a directory that is gone it tells nothing more.
DirLast(q) == \A i \in 1..Len(q) : q[i].ext = "dir" => i = Len(q) /\ q[i].kind = "delete"

Right(w, q, d) ==
  /\ ~w => q = << >>
  /\ DirLast(q)
  /\ Listens(w, q) => TellsRight(q, "conf", d.conf) /\ TellsRight(q, "override", d.over)

\* The ConfFile of s is there when its file is, unless that is still to be told.
Present(s) ==
  \/ h.file[s] = NoFile <=> disk[s].conf = "none"
  \/ Mentions(queue[s], "conf") \/ ~Listens(h.watch[s], queue[s])

\* A change to the override file of t is, or may be, still to be told.
Overdue(t) == Mentions(queue[t], "override") \/ ~Listens(h.watch[t], queue[t])

\* A source whose ConfFile is not what the files say is still to be told so.
Follows(s) ==
  Fresh(h.file, h.class, s) \/ Mentions(queue[s], "conf") \/ \E t \in 1..s : Overdue(t)

Disk == disk \in [Sources -> [conf : {"none", "bad"} \cup Versions, over : {"none", "bad", "ok"}]]

ConfigInv ==
  /\ Disk /\ dir \in [Sources -> BOOLEAN] /\ queue \in [Sources -> Seq(Notification)]
  /\ changes \in 0..MaxChanges
  /\ \A s \in Sources : ~dir[s] => disk[s].conf = "none" /\ disk[s].over = "none"
  /\ Good(h)
  /\ \A s \in Sources : Has(h.file, s) => ~h.class[h.file[s]].deleted
  /\ \A s \in Sources : Right(h.watch[s], queue[s], disk[s]) /\ Present(s) /\ Follows(s)

-----------------------------------------------------------------------------
(* Loops over the sources                                                  *)

\* A set of numbers has a least one.
LEMMA Least ==
  ASSUME NEW T \in SUBSET Nat, T # {}
  PROVE  \E i \in T : \A k \in T : i <= k
<1> DEFINE Less == {ss \in Nat \X Nat : ss[1] < ss[2]}
<1>1. IsWellFoundedOn(Less, Nat)
  BY NatLessThanWellFounded DEF OpToRel
<1>2. \A i, k \in Nat : k < i => <<k, i>> \in Less
  OBVIOUS
<1> HIDE DEF Less
<1>3. PICK i \in T : \A k \in T : <<k, i>> \notin Less
  BY <1>1, WFMin
<1>4. ASSUME NEW k \in T PROVE i <= k
  <2>1. i \in Nat /\ k \in Nat /\ ~(k < i)
    BY <1>2, <1>3
  <2> QED BY <2>1
<1> QED BY <1>4

\* What holds of 0, and of a number when it holds of the one before, holds of
\* every number up to n.
LEMMA UpTo ==
  ASSUME NEW n \in Nat, NEW T, 0 \in T, \A i \in 1..n : i - 1 \in T => i \in T
  PROVE  \A i \in 0..n : i \in T
<1> SUFFICES ASSUME NEW k \in 0..n, k \notin T PROVE FALSE
  OBVIOUS
<1> DEFINE B == {i \in 0..n : i \notin T}
<1>1. B \subseteq Nat /\ B # {}
  OBVIOUS
<1>2. PICK x \in B : \A y \in B : x <= y
  BY <1>1, Least
<1>3. x # 0 /\ x \in 1..n /\ x - 1 \in 0..n /\ x - 1 \notin B
  BY <1>2
<1> QED BY <1>3

\* The loop of ReloadAll, source by source.
LEMMA ReloadAllLoop ==
  ASSUME NEW g
  PROVE  \E a : /\ a[0] = g /\ a[NSources] = ReloadAll(g)
               /\ \A s \in Sources : a[s] = LoadAgain(a[s - 1], s)
<1> DEFINE Def(a) == [s \in 0..NSources |-> IF s = 0 THEN g ELSE LoadAgain(a[s - 1], s)]
           Runs(a, n) == a[0] = g /\ \A s \in 1..n : a[s] = LoadAgain(a[s - 1], s)
           T == {n \in 0..NSources : \E a : Runs(a, n)}
<1>0. NSources \in Nat
  BY ConfigAssumption
<1>1. 0 \in T
  <2> DEFINE a == [s \in 0..0 |-> g]
  <2>1. Runs(a, 0)
    OBVIOUS
  <2> HIDE DEF a, Runs
  <2> QED BY <1>0, <2>1
<1>2. ASSUME NEW i \in 1..NSources, i - 1 \in T PROVE i \in T
  <2>1. PICK a : Runs(a, i - 1)
    BY <1>2
  <2> DEFINE b == [s \in 0..i |-> IF s = i THEN LoadAgain(a[i - 1], i) ELSE a[s]]
  <2>2. b[0] = g
    BY <2>1, <1>0
  <2>3. ASSUME NEW s \in 1..i PROVE b[s] = LoadAgain(b[s - 1], s)
    <3>1. s \in 0..i /\ s - 1 \in 0..i /\ s - 1 # i
      BY <1>0
    <3>2. b[s - 1] = a[s - 1]
      BY <3>1
    <3>3. CASE s = i
      BY <3>1, <3>2, <3>3
    <3>4. CASE s # i
      <4>1. s \in 1..i - 1
        BY <3>4, <1>0
      <4> QED BY <4>1, <3>1, <3>2, <3>4, <2>1
    <3> QED BY <3>3, <3>4
  <2>4. Runs(b, i)
    BY <2>2, <2>3
  <2> HIDE DEF b, Runs
  <2> QED BY <2>4, <1>0
<1>3. NSources \in T
  <2> HIDE DEF T
  <2> QED BY <1>0, <1>1, <1>2, UpTo
<1>4. PICK a : Runs(a, NSources)
  BY <1>3
<1> DEFINE b == [s \in 0..NSources |-> a[s]]
<1>5. b = Def(b)
  <2>1. ASSUME NEW s \in 0..NSources PROVE b[s] = Def(b)[s]
    BY <1>0, <1>4
  <2> QED BY <2>1
<1> DEFINE c == CHOOSE x : x = Def(x)
<1>6. c = Def(c)
  <2> HIDE DEF b, Def
  <2> QED BY <1>5
<1>7. ReloadAll(g) = c[NSources]
  BY DEF ReloadAll
<1> HIDE DEF c
<1>8. c[0] = g /\ \A s \in Sources : c[s] = LoadAgain(c[s - 1], s)
  BY <1>6, <1>0 DEF Sources
<1> QED BY <1>7, <1>8

\* The loop of conf_reload, source by source.
LEMMA ReloadLoop ==
  ASSUME NEW g
  PROVE  \E a : /\ a[0] = g /\ a[NSources] = conf_reload(g)
               /\ \A s \in Sources : a[s] = conf_source_reload(a[s - 1], s)
<1> DEFINE Def(a) == [s \in 0..NSources |-> IF s = 0 THEN g ELSE conf_source_reload(a[s - 1], s)]
           Runs(a, n) == a[0] = g /\ \A s \in 1..n : a[s] = conf_source_reload(a[s - 1], s)
           T == {n \in 0..NSources : \E a : Runs(a, n)}
<1>0. NSources \in Nat
  BY ConfigAssumption
<1>1. 0 \in T
  <2> DEFINE a == [s \in 0..0 |-> g]
  <2>1. Runs(a, 0)
    OBVIOUS
  <2> HIDE DEF a, Runs
  <2> QED BY <1>0, <2>1
<1>2. ASSUME NEW i \in 1..NSources, i - 1 \in T PROVE i \in T
  <2>1. PICK a : Runs(a, i - 1)
    BY <1>2
  <2> DEFINE b == [s \in 0..i |-> IF s = i THEN conf_source_reload(a[i - 1], i) ELSE a[s]]
  <2>2. b[0] = g
    BY <2>1, <1>0
  <2>3. ASSUME NEW s \in 1..i PROVE b[s] = conf_source_reload(b[s - 1], s)
    <3>1. s \in 0..i /\ s - 1 \in 0..i /\ s - 1 # i
      BY <1>0
    <3>2. b[s - 1] = a[s - 1]
      BY <3>1
    <3>3. CASE s = i
      BY <3>1, <3>2, <3>3
    <3>4. CASE s # i
      <4>1. s \in 1..i - 1
        BY <3>4, <1>0
      <4> QED BY <4>1, <3>1, <3>2, <3>4, <2>1
    <3> QED BY <3>3, <3>4
  <2>4. Runs(b, i)
    BY <2>2, <2>3
  <2> HIDE DEF b, Runs
  <2> QED BY <2>4, <1>0
<1>3. NSources \in T
  <2> HIDE DEF T
  <2> QED BY <1>0, <1>1, <1>2, UpTo
<1>4. PICK a : Runs(a, NSources)
  BY <1>3
<1> DEFINE b == [s \in 0..NSources |-> a[s]]
<1>5. b = Def(b)
  <2>1. ASSUME NEW s \in 0..NSources PROVE b[s] = Def(b)[s]
    BY <1>0, <1>4
  <2> QED BY <2>1
<1> DEFINE c == CHOOSE x : x = Def(x)
<1>6. c = Def(c)
  <2> HIDE DEF b, Def
  <2> QED BY <1>5
<1>7. conf_reload(g) = c[NSources]
  BY DEF conf_reload
<1> HIDE DEF c
<1>8. c[0] = g /\ \A s \in Sources : c[s] = conf_source_reload(c[s - 1], s)
  BY <1>6, <1>0 DEF Sources
<1> QED BY <1>7, <1>8

-----------------------------------------------------------------------------
(* The first class                                                         *)

FileTable  == [Sources -> -1..MaxClasses]
ClassTable == [Classes -> ClassRecord]

\* The best class is that of the first source that has one.
LEMMA SelectedIs ==
  ASSUME NEW f \in FileTable
  PROVE  \/ (\A s \in Sources : ~Has(f, s)) /\ Selected(f) = NoJob
         \/ \E s \in Sources : Has(f, s) /\ Selected(f) = f[s] /\ \A t \in Sources : t < s => ~Has(f, t)
<1> DEFINE S == {s \in Sources : f[s] \notin {NoFile, NoJob}}
<1>1. Selected(f) = IF S = {} THEN NoJob ELSE f[Lowest(S)]
  BY DEF Selected
<1>2. CASE S = {}
  BY <1>1, <1>2 DEF Has
<1>3. CASE S # {}
  <2>1. S \subseteq Nat
    BY ConfigAssumption DEF Sources
  <2>2. \E i \in S : \A k \in S : i <= k
    BY <1>3, <2>1, Least
  <2>3. Lowest(S) \in S /\ \A k \in S : Lowest(S) <= k
    <3> HIDE DEF S
    <3> QED BY <2>2 DEF Lowest
  <2>4. \A t \in Sources : t < Lowest(S) => ~Has(f, t)
    <3> SUFFICES ASSUME NEW t \in Sources, t < Lowest(S), Has(f, t) PROVE FALSE
      OBVIOUS
    <3>1. t \in S
      BY DEF Has
    <3>2. t \in Int /\ Lowest(S) \in Int
      BY <2>1, <2>3, <3>1
    <3> HIDE DEF S
    <3> QED BY <2>3, <3>1, <3>2
  <2>5. Has(f, Lowest(S)) /\ Lowest(S) \in Sources
    BY <2>3 DEF Has
  <2>6. Selected(f) = f[Lowest(S)]
    BY <1>1, <1>3
  <2> HIDE DEF S
  <2> QED BY <2>4, <2>5, <2>6
<1> QED BY <1>2, <1>3

\* A number of a class is one of a file that has a class, and of nothing else.
LEMMA SelectedClass ==
  ASSUME NEW f \in FileTable
  PROVE  /\ Selected(f) \in 0..MaxClasses
         /\ Selected(f) # NoJob => Selected(f) \in Classes /\ In(f, Selected(f))
         /\ \A s \in Sources : Has(f, s) => f[s] \in Classes /\ Selected(f) # NoJob
<1>1. ASSUME NEW s \in Sources, Has(f, s) PROVE f[s] \in Classes
  BY <1>1, ConfigAssumption DEF FileTable, Has, Classes, NoFile, NoJob
<1> QED BY <1>1, SelectedIs, ConfigAssumption DEF In, Has, NoJob, Classes

\* Another first source there is not.
LEMMA SelectedFirst ==
  ASSUME NEW f \in FileTable, NEW s \in Sources, Has(f, s), \A t \in Sources : t < s => ~Has(f, t)
  PROVE  Selected(f) = f[s]
<1>1. PICK u \in Sources : Has(f, u) /\ Selected(f) = f[u] /\ \A t \in Sources : t < u => ~Has(f, t)
  BY SelectedIs
<1>2. u \in Int /\ s \in Int
  BY ConfigAssumption DEF Sources
<1>3. ~(u < s) /\ ~(s < u)
  BY <1>1
<1> QED BY <1>1, <1>2, <1>3

\* A source that loses a class that was not the best one, or none, leaves the best
\* one where it is.
LEMMA SelectedStays ==
  ASSUME NEW f \in FileTable, NEW f2 \in FileTable, NEW s \in Sources,
         \A t \in Sources \ {s} : f2[t] = f[t], ~Has(f2, s), ~Has(f, s) \/ f[s] # Selected(f)
  PROVE  Selected(f2) = Selected(f)
<1>1. CASE \A t \in Sources : ~Has(f, t)
  <2>1. \A t \in Sources : ~Has(f2, t)
    BY <1>1 DEF Has
  <2> QED BY <1>1, <2>1, SelectedIs
<1>2. ASSUME NEW u \in Sources, Has(f, u), Selected(f) = f[u], \A t \in Sources : t < u => ~Has(f, t)
      PROVE  Selected(f2) = Selected(f)
  <2>1. u # s
    BY <1>2
  <2>2. Has(f2, u) /\ f2[u] = f[u]
    BY <1>2, <2>1 DEF Has
  <2>3. \A t \in Sources : t < u => ~Has(f2, t)
    BY <1>2 DEF Has
  <2> QED BY <1>2, <2>2, <2>3, SelectedFirst
<1> QED BY <1>1, <1>2, SelectedIs

-----------------------------------------------------------------------------
(* What the operators do to the daemon                                     *)

\* The daemon r has the files f, the classes cl and the registered class rg, and
\* watches what g does.
Is(r, g, f, cl, rg) ==
  /\ r \in Daemon /\ ~r.fault /\ r.watch = g.watch
  /\ r.file = f /\ r.class = cl /\ r.reg = rg

\* Two records of a class that differ at most in what is matched.
Alike(a, b) ==
  /\ (a.live <=> b.live) /\ a.conf = b.conf /\ a.over = b.over
  /\ (a.deleted <=> b.deleted) /\ a.instances = b.instances

\* The classes cl2 are cl but for class c.
ButFor(c, cl2, cl) == \A d \in Classes \ {c} : cl2[d] = cl[d]

\* The parts of a daemon have their types.
LEMMA PartTypes ==
  ASSUME NEW g \in Daemon
  PROVE  g.file \in FileTable /\ g.class \in ClassTable /\ g.reg \in 0..MaxClasses
         /\ g.watch \in [Sources -> BOOLEAN]
BY DEF Daemon, FileTable, ClassTable

\* A daemon with other files.
LEMMA OtherFiles ==
  ASSUME NEW g \in Daemon, ~g.fault, NEW f \in FileTable
  PROVE  Is([g EXCEPT !.file = f], g, f, g.class, g.reg)
BY DEF Is, Daemon, FileTable

\* A daemon with other classes.
LEMMA OtherClasses ==
  ASSUME NEW g \in Daemon, ~g.fault, NEW cl \in ClassTable
  PROVE  Is([g EXCEPT !.class = cl], g, g.file, cl, g.reg)
BY DEF Is, Daemon, ClassTable

\* A daemon with another registered class.
LEMMA OtherReg ==
  ASSUME NEW g \in Daemon, ~g.fault, NEW rg \in 0..MaxClasses
  PROVE  Is([g EXCEPT !.reg = rg], g, g.file, g.class, rg)
BY DEF Is, Daemon

\* NoClass is the record of a class that is not allocated.
LEMMA NoClassType ==
  /\ NoClass \in ClassRecord /\ ~NoClass.live /\ NoClass.instances = 0 /\ ~NoClass.deleted
  /\ NoClass.over = "none"
BY ConfigAssumption DEF NoClass, ClassRecord

\* conf_select_job looks at the files only.
LEMMA SelectJob ==
  ASSUME NEW g
  PROVE  conf_select_job(g) = Selected(g.file)
BY DEF conf_select_job, Selected

\* conf_file_destroy of a file whose class is o: the class goes unless it runs.
LEMMA DestroyIs ==
  ASSUME NEW g \in Daemon, ~g.fault, NEW o \in Classes, ~In(g.file, o)
  PROVE  \E cl \in ClassTable, rg \in 0..MaxClasses :
           /\ Is(conf_file_destroy(g, o), g, g.file, cl, rg) /\ ButFor(o, cl, g.class)
           /\ \/ /\ g.reg = o /\ g.class[o].instances > 0 /\ rg = o
                 /\ cl[o].deleted /\ (cl[o].live <=> g.class[o].live)
                 /\ cl[o].instances = g.class[o].instances /\ cl[o].over = g.class[o].over
              \/ g.reg = o /\ g.class[o].instances = 0 /\ rg = Selected(g.file) /\ cl[o] = NoClass
              \/ g.reg # o /\ rg = g.reg /\ cl[o] = NoClass
<1> DEFINE d == [g EXCEPT !.class[o].deleted = TRUE]
           dc == [g.class EXCEPT ![o].deleted = TRUE]
           sel == Selected(g.file)
<1>0. g.file \in FileTable /\ g.class \in ClassTable /\ g.reg \in 0..MaxClasses /\ o \notin {NoFile, NoJob}
  BY PartTypes, ConfigAssumption DEF Classes, NoFile, NoJob
<1>1. dc \in ClassTable /\ ButFor(o, dc, g.class) /\ dc[o].deleted /\ (dc[o].live <=> g.class[o].live)
      /\ dc[o].instances = g.class[o].instances /\ dc[o].over = g.class[o].over
  BY <1>0 DEF ClassTable, ClassRecord, ButFor
<1>2. d = [g EXCEPT !.class = dc]
  BY <1>0 DEF Daemon
<1>3. Is(d, g, g.file, dc, g.reg)
  BY <1>0, <1>1, <1>2, OtherClasses
<1>4. sel # o /\ sel \in 0..MaxClasses
  BY <1>0, SelectedClass
<1>5. conf_select_job(d) = sel
  BY <1>3, SelectJob DEF Is
<1> HIDE DEF d, sel, dc
<1>6. conf_file_destroy(g, o) =
        IF g.reg = o /\ dc[o].instances = 0 THEN Freed([d EXCEPT !.reg = sel], o)
        ELSE IF g.reg # o THEN Freed(d, o) ELSE d
  <2>1. conf_file_destroy(g, o) = LET r == job_class_reconsider(d, o)
                                  IN IF r.unused THEN Freed(r.g, o) ELSE r.g
    BY <1>0 DEF conf_file_destroy, d
  <2>2. d.reg = g.reg /\ d.class = dc
    BY <1>3 DEF Is
  <2> QED BY <2>1, <2>2, <1>4, <1>5 DEF job_class_reconsider, Removable
<1> DEFINE fc == [dc EXCEPT ![o] = NoClass]
<1>7. fc \in ClassTable /\ ButFor(o, fc, g.class) /\ fc[o] = NoClass
  BY <1>1, NoClassType DEF ClassTable, ButFor
<1>8. ASSUME NEW x, NEW rg \in 0..MaxClasses, Is(x, g, g.file, dc, rg)
      PROVE  Is(Freed(x, o), g, g.file, fc, rg)
  <2>1. x \in Daemon /\ ~x.fault /\ x.class = dc /\ x.watch = g.watch /\ x.file = g.file /\ x.reg = rg
    BY <1>8 DEF Is
  <2>2. Freed(x, o) = [x EXCEPT !.class = fc]
    BY <2>1 DEF Freed, Daemon
  <2>3. Is([x EXCEPT !.class = fc], x, x.file, fc, x.reg)
    BY <1>7, <2>1, OtherClasses
  <2> QED BY <2>1, <2>2, <2>3 DEF Is
<1>9. CASE g.reg = o /\ dc[o].instances = 0
  <2>1. Is([d EXCEPT !.reg = sel], g, g.file, dc, sel)
    <3>1. d \in Daemon /\ ~d.fault /\ d.watch = g.watch /\ d.file = g.file /\ d.class = dc
      BY <1>3 DEF Is
    <3>2. Is([d EXCEPT !.reg = sel], d, d.file, d.class, sel)
      BY <1>4, <3>1, OtherReg
    <3> QED BY <3>1, <3>2 DEF Is
  <2>2. Is(Freed([d EXCEPT !.reg = sel], o), g, g.file, fc, sel)
    BY <1>4, <1>8, <2>1
  <2> HIDE DEF fc
  <2> QED BY <1>1, <1>4, <1>6, <1>7, <1>9, <2>2 DEF sel
<1>10. CASE g.reg = o /\ dc[o].instances # 0
  <2>1. g.class[o].instances > 0
    BY <1>0, <1>1, <1>10 DEF ClassTable, ClassRecord
  <2> QED BY <1>0, <1>1, <1>3, <1>6, <1>10, <2>1
<1>11. CASE g.reg # o
  <2>1. Is(Freed(d, o), g, g.file, fc, g.reg)
    BY <1>0, <1>3, <1>8
  <2> HIDE DEF fc
  <2> QED BY <1>0, <1>6, <1>7, <1>11, <2>1
<1> QED BY <1>9, <1>10, <1>11

\* What is matched changes, and nothing else of the class.
LEMMA MatchedChanges ==
  ASSUME NEW g \in Daemon, ~g.fault, NEW c \in Classes, NEW m \in BOOLEAN
  PROVE  \E cl \in ClassTable :
           /\ Is([g EXCEPT !.class[c].matched = m], g, g.file, cl, g.reg)
           /\ \A d \in Classes : Alike(cl[d], g.class[d])
           /\ cl[c].matched <=> m
<1> DEFINE mc == [g.class EXCEPT ![c].matched = m]
<1>1. g.class \in ClassTable
  BY PartTypes
<1>2. mc \in ClassTable /\ (\A d \in Classes : Alike(mc[d], g.class[d])) /\ (mc[c].matched <=> m)
  BY <1>1 DEF ClassTable, ClassRecord, Alike
<1>3. [g EXCEPT !.class[c].matched = m] = [g EXCEPT !.class = mc]
  BY DEF Daemon
<1> HIDE DEF mc
<1> QED BY <1>2, <1>3, OtherClasses

\* job_class_consider: the best class is registered, and takes over what the old
\* one has matched, unless the old one runs.
LEMMA ConsiderIs ==
  ASSUME NEW g \in Daemon, ~g.fault, Selected(g.file) # NoJob, NEW c
  PROVE  \E cl \in ClassTable, rg \in 0..MaxClasses :
           /\ Is(job_class_consider(g, c), g, g.file, cl, rg)
           /\ \A d \in Classes : Alike(cl[d], g.class[d])
           /\ \/ rg = Selected(g.file) /\ (g.reg \in {NoJob, rg} \/ g.class[g.reg].instances = 0)
              \/ rg = g.reg /\ g.reg # NoJob /\ g.class[g.reg].instances > 0
           /\ g.reg # NoJob /\ g.class[g.reg].instances = 0 /\ g.class[g.reg].matched
              => rg = Selected(g.file) /\ cl[rg].matched
<1> DEFINE sel == Selected(g.file)
           x == job_class_consider(g, c)
<1>0. g.file \in FileTable /\ g.class \in ClassTable /\ g.reg \in 0..MaxClasses /\ g.watch = g.watch
  BY PartTypes
<1>1. sel \in Classes /\ sel \in 0..MaxClasses /\ sel # NoJob
  BY <1>0, SelectedClass
<1>2. conf_select_job(g) = sel
  BY SelectJob
<1> HIDE DEF sel
<1>3. x = IF g.reg = sel THEN g ELSE IF g.reg = NoJob THEN [g EXCEPT !.reg = sel]
          ELSE IF g.class[g.reg].instances = 0
               THEN [job_class_event_block(g, g.reg, sel) EXCEPT !.reg = sel]
               ELSE [g EXCEPT !.class[sel].matched = FALSE]
  BY <1>1, <1>2 DEF job_class_consider, Removable
<1>4. \A d \in Classes : Alike(g.class[d], g.class[d])
  BY DEF Alike
<1>5. CASE g.reg = sel
  <2>1. Is(x, g, g.file, g.class, sel)
    BY <1>3, <1>5 DEF Is
  <2> QED BY <1>0, <1>1, <1>4, <1>5, <2>1 DEF sel
<1>6. CASE g.reg # sel /\ g.reg = NoJob
  <2>1. Is(x, g, g.file, g.class, sel)
    BY <1>1, <1>3, <1>6, OtherReg
  <2> QED BY <1>0, <1>1, <1>4, <1>6, <2>1 DEF sel
<1>7. CASE g.reg # sel /\ g.reg # NoJob /\ g.class[g.reg].instances = 0
  <2> DEFINE y == job_class_event_block(g, g.reg, sel)
  <2>1. PICK cl \in ClassTable : /\ Is(y, g, g.file, cl, g.reg)
                                 /\ \A d \in Classes : Alike(cl[d], g.class[d])
                                 /\ g.class[g.reg].matched => cl[sel].matched
    <3>1. CASE g.class[g.reg].matched
      <4>1. y = [g EXCEPT !.class[sel].matched = TRUE]
        BY <1>7, <3>1 DEF job_class_event_block
      <4> QED BY <1>1, <4>1, MatchedChanges
    <3>2. CASE ~g.class[g.reg].matched
      <4>1. y = g
        BY <3>2 DEF job_class_event_block
      <4>2. Is(y, g, g.file, g.class, g.reg)
        BY <4>1 DEF Is
      <4> QED BY <1>0, <1>4, <3>2, <4>2
    <3> QED BY <3>1, <3>2
  <2>2. y \in Daemon /\ ~y.fault /\ y.file = g.file /\ y.class = cl /\ y.watch = g.watch
    BY <2>1 DEF Is
  <2>3. Is([y EXCEPT !.reg = sel], y, y.file, y.class, sel)
    BY <1>1, <2>2, OtherReg
  <2>4. Is(x, g, g.file, cl, sel)
    BY <1>3, <1>7, <2>2, <2>3 DEF Is
  <2> QED BY <1>1, <1>7, <2>1, <2>4 DEF sel
<1>8. CASE g.reg # sel /\ g.reg # NoJob /\ g.class[g.reg].instances # 0
  <2>1. PICK cl \in ClassTable : /\ Is(x, g, g.file, cl, g.reg)
                                 /\ \A d \in Classes : Alike(cl[d], g.class[d])
    BY <1>1, <1>3, <1>8, MatchedChanges
  <2>2. g.class[g.reg].instances > 0
    <3>1. g.reg \in Classes
      BY <1>0, <1>8, ConfigAssumption DEF Classes, NoJob
    <3> QED BY <1>0, <1>8, <3>1 DEF ClassTable, ClassRecord
  <2> QED BY <1>0, <1>8, <2>1, <2>2
<1> QED BY <1>5, <1>6, <1>7, <1>8

\* There is a number for a new class: the classes in use are those of the files
\* and the registered one.
LEMMA FreeClass ==
  ASSUME NEW g \in Daemon, Linked(g.file, g.class, g.reg), Tidy(g.file, g.class, g.reg)
  PROVE  Free(g) # {} /\ Lowest(Free(g)) \in Free(g)
<1>0. g.file \in FileTable /\ g.class \in ClassTable /\ g.reg \in 0..MaxClasses
  BY PartTypes
<1>1. Free(g) # {}
  <2> SUFFICES ASSUME Free(g) = {} PROVE FALSE
    OBVIOUS
  <2>1. ASSUME NEW c \in Classes PROVE In(g.file, c) \/ c = g.reg
    BY DEF Free, Tidy
  <2> DEFINE w == [c \in Classes |-> IF c = g.reg THEN 0 ELSE CHOOSE s \in Sources : g.file[s] = c]
  <2>2. ASSUME NEW c \in Classes, c # g.reg PROVE w[c] \in Sources /\ g.file[w[c]] = c
    BY <2>1, <2>2 DEF In
  <2>3. w \in [Classes -> 0..NSources]
    <3>1. ASSUME NEW c \in Classes PROVE w[c] \in 0..NSources
      BY <2>2, ConfigAssumption DEF Sources
    <3> QED BY <3>1
  <2>4. \A c, d \in Classes : c # d => w[c] # w[d]
    <3> SUFFICES ASSUME NEW c \in Classes, NEW d \in Classes, c # d, w[c] = w[d] PROVE FALSE
      OBVIOUS
    <3>1. 0 \notin Sources
      BY ConfigAssumption DEF Sources
    <3>2. c = g.reg => w[c] = 0
      OBVIOUS
    <3>3. d = g.reg => w[d] = 0
      OBVIOUS
    <3> HIDE DEF w
    <3> QED BY <2>2, <3>1, <3>2, <3>3
  <2>5. /\ IsFiniteSet(Classes) /\ IsFiniteSet(0..NSources)
        /\ Cardinality(0..NSources) < Cardinality(Classes)
    BY FS_Interval, ConfigAssumption DEF Classes
  <2> HIDE DEF w
  <2>6. w \in Injection(Classes, 0..NSources)
    BY <2>3, <2>4 DEF Injection, IsInjective
  <2>7. Cardinality(Classes) <= Cardinality(0..NSources)
    BY <2>5, <2>6, FS_Injection
  <2>8. Cardinality(0..NSources) \in Nat /\ Cardinality(Classes) \in Nat
    BY <2>5, FS_CardinalityType
  <2> QED BY <2>5, <2>7, <2>8
<1>2. Free(g) \subseteq Nat
  BY ConfigAssumption DEF Free, Classes
<1>3. \E i \in Free(g) : \A k \in Free(g) : i <= k
  BY <1>1, <1>2, Least
<1> QED BY <1>1, <1>3 DEF Lowest

\* parse_job makes a class that nothing refers to yet.
LEMMA NewClassIs ==
  ASSUME NEW g \in Daemon, ~g.fault, Linked(g.file, g.class, g.reg), Tidy(g.file, g.class, g.reg),
         NEW s \in Sources, NEW conf \in {"none"} \cup Versions, NEW over \in {"none", "ok"}
  PROVE  \E c \in Classes, f \in FileTable, cl \in ClassTable :
           /\ Is(NewClass(g, s, conf, over), g, f, cl, g.reg)
           /\ ~g.class[c].live /\ ButFor(c, cl, g.class)
           /\ f[s] = c /\ \A t \in Sources \ {s} : f[t] = g.file[t]
           /\ cl[c].live /\ ~cl[c].deleted /\ cl[c].instances = 0
           /\ cl[c].conf = conf /\ cl[c].over = over
<1> DEFINE c == Lowest(Free(g))
           new == [NoClass EXCEPT !.live = TRUE, !.conf = conf, !.over = over]
           f == [g.file EXCEPT ![s] = c]
           cl == [g.class EXCEPT ![c] = new]
<1>0. g.file \in FileTable /\ g.class \in ClassTable
  BY PartTypes
<1>1. c \in Classes /\ ~g.class[c].live
  BY FreeClass DEF Free
<1> HIDE DEF c
<1>2. new \in ClassRecord /\ new.live /\ ~new.deleted /\ new.instances = 0 /\ new.conf = conf /\ new.over = over
  <2>1. ASSUME NEW n \in ClassRecord, ~n.deleted, n.instances = 0
        PROVE  LET m == [n EXCEPT !.live = TRUE, !.conf = conf, !.over = over]
               IN  m \in ClassRecord /\ m.live /\ ~m.deleted /\ m.instances = 0 /\ m.conf = conf /\ m.over = over
    BY <2>1 DEF ClassRecord
  <2> QED BY <2>1, NoClassType
<1>3. f \in FileTable /\ f[s] = c /\ \A t \in Sources \ {s} : f[t] = g.file[t]
  <2>1. c \in -1..MaxClasses
    BY <1>1, ConfigAssumption DEF Classes
  <2> QED BY <1>0, <2>1 DEF FileTable
<1> HIDE DEF new
<1>4. cl \in ClassTable /\ ButFor(c, cl, g.class) /\ cl[c] = new
  BY <1>0, <1>1, <1>2 DEF ClassTable, ButFor
<1>5. NewClass(g, s, conf, over) = [[g EXCEPT !.file = f] EXCEPT !.class = cl]
  <2>1. NewClass(g, s, conf, over) = [g EXCEPT !.file[s] = c, !.class[c] = new]
    BY DEF NewClass, new, c
  <2> QED BY <2>1 DEF Daemon
<1> HIDE DEF f, cl
<1>6. Is([g EXCEPT !.file = f], g, f, g.class, g.reg)
  BY <1>3, OtherFiles
<1>7. Is([[g EXCEPT !.file = f] EXCEPT !.class = cl], g, f, cl, g.reg)
  <2> DEFINE x == [g EXCEPT !.file = f]
  <2>1. x \in Daemon /\ ~x.fault /\ x.watch = g.watch /\ x.file = f /\ x.reg = g.reg
    BY <1>6 DEF Is
  <2> HIDE DEF x
  <2>2. Is([x EXCEPT !.class = cl], x, x.file, cl, x.reg)
    BY <1>4, <2>1, OtherClasses
  <2> QED BY <2>1, <2>2 DEF Is, x
<1> QED BY <1>1, <1>2, <1>3, <1>4, <1>5, <1>7

-----------------------------------------------------------------------------
(* Files that come and go                                                  *)

\* Tidy, but for class o.
TidyBut(f, cl, rg, o) ==
  \A c \in Classes \ {o} : cl[c].live /\ ~In(f, c) =>
    c = rg /\ (cl[c].over = "bad" \/ (cl[c].deleted /\ cl[c].instances > 0))

\* Tidy, but for class o and for orphans that are not forgotten yet.
Untidy(f, cl, rg, o) ==
  \A c \in Classes \ {o} : cl[c].live /\ ~In(f, c) =>
    cl[c].over = "bad" \/ (c = rg /\ cl[c].deleted /\ cl[c].instances > 0)

\* A daemon in the middle of loading.
Sound(g) ==
  /\ g \in Daemon /\ ~g.fault
  /\ Linked(g.file, g.class, g.reg) /\ Best(g.file, g.class, g.reg)
  /\ Untidy(g.file, g.class, g.reg, NoJob)

\* The class of a source stays as it is.
Keeps(f, cl, f2, cl2, t) ==
  /\ f2[t] = f[t]
  /\ Has(f, t) => /\ cl2[f[t]].conf = cl[f[t]].conf /\ cl2[f[t]].over = cl[f[t]].over
                  /\ cl2[f[t]].deleted <=> cl[f[t]].deleted

Kept(g, r, t) == Keeps(g.file, g.class, r.file, r.class, t)

\* What a source keeps over two steps it keeps.
LEMMA KeptTwice ==
  ASSUME NEW x, NEW y, NEW z, NEW t, Kept(x, y, t), Kept(y, z, t)
  PROVE  Kept(x, z, t)
BY DEF Kept, Keeps, Has

\* The best class is registered, unless the registered one runs.
Considered(f, cl, rg, rg2) ==
  \/ rg2 = Selected(f) /\ (rg \in {NoJob, rg2} \/ cl[rg].instances = 0)
  \/ rg2 = rg /\ rg # NoJob /\ cl[rg].instances > 0

\* A source gets a new class c, and the best one is considered.
LEMMA Installed ==
  ASSUME NEW f \in FileTable, NEW f1 \in FileTable, NEW cl \in ClassTable, NEW cl1 \in ClassTable,
         NEW rg \in 0..MaxClasses, NEW rg1 \in 0..MaxClasses, NEW s \in Sources, NEW c \in Classes,
         Linked(f, cl, rg), Tidy(f, cl, rg), ~cl[c].live,
         f1[s] = c, \A t \in Sources \ {s} : f1[t] = f[t],
         \A d \in Classes \ {c} : Alike(cl1[d], cl[d]), cl1[c].live, cl1[c].instances = 0,
         Considered(f1, cl1, rg, rg1)
  PROVE  /\ Linked(f1, cl1, rg1) /\ Best(f1, cl1, rg1) /\ Untidy(f1, cl1, rg1, f[s])
         /\ Has(f, s) => f[s] \in Classes /\ ~In(f1, f[s]) /\ cl1[f[s]].live
         /\ \A t \in Sources \ {s} : Keeps(f, cl, f1, cl1, t)
<1>0. /\ Selected(f1) \in 0..MaxClasses
      /\ Selected(f1) # NoJob => Selected(f1) \in Classes /\ In(f1, Selected(f1))
      /\ \A t \in Sources : Has(f1, t) => f1[t] \in Classes
      /\ \A t \in Sources : Has(f, t) => f[t] \in Classes
  BY SelectedClass
<1>1. rg # NoJob => rg \in Classes /\ rg # c /\ cl[rg].live
  BY ConfigAssumption DEF Linked, NoJob, Classes
<1>2. \A t \in Sources : Has(f, t) => f[t] # c /\ cl[f[t]].live /\ cl1[f[t]].live
  BY <1>0 DEF Linked, Alike
<1>3. \A t \in Sources : Has(f1, t) => cl1[f1[t]].live
  BY <1>2 DEF Has
<1>4. \A t, u \in Sources : t # u /\ f1[t] = f1[u] => ~Has(f1, t)
  BY <1>2 DEF Linked, Has
<1>5. rg1 # NoJob => cl1[rg1].live
  <2>1. CASE rg1 = Selected(f1)
    <3>1. Selected(f1) # NoJob => \E t \in Sources : f1[t] = Selected(f1) /\ Has(f1, t)
      BY <1>0, SelectedIs DEF Has
    <3> QED BY <2>1, <1>3, <3>1
  <2>2. CASE rg1 = rg
    BY <2>2, <1>1 DEF Alike
  <2> QED BY <2>1, <2>2 DEF Considered
<1>6. ASSUME NEW d \in Classes, cl1[d].instances > 0 PROVE d = rg1
  <2>1. d # c /\ d = rg /\ cl1[rg].instances > 0
    BY <1>6 DEF Linked, Alike
  <2>2. rg # NoJob /\ cl1[rg].instances # 0
    BY <2>1, ConfigAssumption DEF Classes, NoJob, ClassTable, ClassRecord
  <2> QED BY <2>1, <2>2 DEF Considered
<1>7. Linked(f1, cl1, rg1)
  BY <1>3, <1>4, <1>5, <1>6 DEF Linked
<1>8. Best(f1, cl1, rg1)
  BY DEF Best, Considered
<1>9. ASSUME NEW d \in Classes, d # f[s], cl1[d].live, ~In(f1, d)
      PROVE  cl1[d].over = "bad" \/ (d = rg1 /\ cl1[d].deleted /\ cl1[d].instances > 0)
  <2>1. d # c /\ ~In(f, d)
    BY <1>9 DEF In
  <2>2. d = rg /\ (cl[d].over = "bad" \/ (cl[d].deleted /\ cl[d].instances > 0))
    BY <2>1, <1>9 DEF Tidy, Alike
  <2> QED BY <2>1, <2>2, <1>6 DEF Alike
<1>10. Has(f, s) => f[s] \in Classes /\ ~In(f1, f[s]) /\ cl1[f[s]].live
  BY <1>0, <1>2 DEF In, Linked, Has
<1>11. ASSUME NEW t \in Sources \ {s} PROVE Keeps(f, cl, f1, cl1, t)
  BY <1>0, <1>2 DEF Keeps, Alike
<1> QED BY <1>7, <1>8, <1>9, <1>10, <1>11 DEF Untidy

\* A source that had class o has lost it, and the class is destroyed if it can be.
LEMMA Destroyed ==
  ASSUME NEW f \in FileTable, NEW cl \in ClassTable, NEW cl2 \in ClassTable,
         NEW rg \in 0..MaxClasses, NEW rg2 \in 0..MaxClasses, NEW o \in Classes,
         Linked(f, cl, rg), cl[o].live, ~In(f, o), rg = o \/ Best(f, cl, rg), ButFor(o, cl2, cl),
         \/ /\ rg = o /\ cl[o].instances > 0 /\ rg2 = o
            /\ cl2[o].deleted /\ (cl2[o].live <=> cl[o].live)
            /\ cl2[o].instances = cl[o].instances /\ cl2[o].over = cl[o].over
         \/ rg = o /\ cl[o].instances = 0 /\ rg2 = Selected(f) /\ cl2[o] = NoClass
         \/ rg # o /\ rg2 = rg /\ cl2[o] = NoClass
  PROVE  /\ Linked(f, cl2, rg2) /\ Best(f, cl2, rg2)
         /\ TidyBut(f, cl, rg, o) => Tidy(f, cl2, rg2)
         /\ Untidy(f, cl, rg, o) => Untidy(f, cl2, rg2, NoJob)
         /\ \A t \in Sources : Keeps(f, cl, f, cl2, t)
<1>0. /\ Selected(f) # NoJob => Selected(f) \in Classes /\ In(f, Selected(f))
      /\ \A t \in Sources : Has(f, t) => f[t] \in Classes /\ f[t] # o
      /\ NoJob \notin Classes
  BY SelectedClass, ConfigAssumption DEF In, Classes, NoJob
<1>1. \A t \in Sources : Has(f, t) => cl2[f[t]] = cl[f[t]]
  BY <1>0 DEF ButFor
<1>2. rg # NoJob => rg \in Classes
  BY ConfigAssumption DEF Classes, NoJob
<1>3. Selected(f) # NoJob => cl2[Selected(f)].live
  <2>1. Selected(f) # NoJob => \E t \in Sources : f[t] = Selected(f) /\ Has(f, t)
    BY SelectedIs
  <2> QED BY <2>1, <1>1 DEF Linked
<1>4. ~NoClass.live /\ NoClass.instances = 0 /\ NoClass.over = "none"
  BY NoClassType
<1>5. \A t \in Sources : Has(f, t) => cl2[f[t]].live
  BY <1>1 DEF Linked
<1>6. CASE rg = o /\ cl[o].instances > 0 /\ rg2 = o /\ cl2[o].deleted /\ (cl2[o].live <=> cl[o].live)
           /\ cl2[o].instances = cl[o].instances /\ cl2[o].over = cl[o].over
  <2>1. Linked(f, cl2, rg2)
    BY <1>5, <1>6 DEF Linked, ButFor
  <2>2. Best(f, cl2, rg2)
    BY <1>0, <1>6 DEF Best
  <2>3. TidyBut(f, cl, rg, o) => Tidy(f, cl2, rg2)
    BY <1>6 DEF TidyBut, Tidy, ButFor
  <2>4. Untidy(f, cl, rg, o) => Untidy(f, cl2, rg2, NoJob)
    BY <1>6 DEF Untidy, ButFor
  <2> QED BY <2>1, <2>2, <2>3, <2>4, <1>1 DEF Keeps
<1>7. CASE rg = o /\ cl[o].instances = 0 /\ rg2 = Selected(f) /\ cl2[o] = NoClass
  <2>1. Linked(f, cl2, rg2)
    <3>1. \A c \in Classes : ~(cl2[c].instances > 0)
      BY <1>4, <1>7 DEF Linked, ButFor
    <3> QED BY <1>3, <1>5, <1>7, <3>1 DEF Linked
  <2>2. Best(f, cl2, rg2)
    BY <1>7 DEF Best
  <2>3. TidyBut(f, cl, rg, o) => Tidy(f, cl2, rg2)
    BY <1>4, <1>7 DEF TidyBut, Tidy, ButFor
  <2>4. Untidy(f, cl, rg, o) => Untidy(f, cl2, rg2, NoJob)
    BY <1>4, <1>7 DEF Untidy, ButFor
  <2> QED BY <2>1, <2>2, <2>3, <2>4, <1>1 DEF Keeps
<1>8. CASE rg # o /\ rg2 = rg /\ cl2[o] = NoClass
  <2>1. Linked(f, cl2, rg2)
    BY <1>2, <1>4, <1>5, <1>8 DEF Linked, ButFor
  <2>2. Best(f, cl2, rg2)
    BY <1>2, <1>8 DEF Best, ButFor
  <2>3. TidyBut(f, cl, rg, o) => Tidy(f, cl2, rg2)
    BY <1>4, <1>8 DEF TidyBut, Tidy, ButFor
  <2>4. Untidy(f, cl, rg, o) => Untidy(f, cl2, rg2, NoJob)
    BY <1>4, <1>8 DEF Untidy, ButFor
  <2> QED BY <2>1, <2>2, <2>3, <2>4, <1>1 DEF Keeps
<1> QED BY <1>6, <1>7, <1>8

\* The first file of the job is that of u; its class is registered, does not run,
\* and has matched an event.
Eager(f, cl, rg, u) ==
  /\ Has(f, u) /\ f[u] = rg /\ \A t \in Sources : t < u => f[t] = NoFile
  /\ cl[rg].matched /\ cl[rg].instances = 0

\* The best class is that of u.
LEMMA EagerSelected ==
  ASSUME NEW f \in FileTable, NEW cl, NEW rg, NEW u \in Sources, Eager(f, cl, rg, u)
  PROVE  Selected(f) = rg /\ rg \in Classes /\ rg # NoJob /\ In(f, rg)
<1>1. Has(f, u) /\ f[u] = rg /\ \A t \in Sources : t < u => ~Has(f, t)
  BY DEF Eager, Has
<1> QED BY <1>1, SelectedFirst, SelectedClass DEF In, Has

\* Swept forgets orphans, and nothing else.
LEMMA SweptIs ==
  ASSUME NEW g, Sound(g)
  PROVE  /\ Good(Swept(g)) /\ Swept(g).watch = g.watch /\ Swept(g).file = g.file
         /\ \A t \in Sources : Kept(g, Swept(g), t)
         /\ \A u \in Sources : Eager(g.file, g.class, g.reg, u)
                               => Eager(g.file, Swept(g).class, Swept(g).reg, u)
<1> DEFINE f == g.file
           cl == g.class
           rg == g.reg
           cl2 == [c \in Classes |-> IF Forgotten(g, c) THEN NoClass ELSE g.class[c]]
<1>0. g \in Daemon /\ ~g.fault /\ f \in FileTable /\ cl \in ClassTable /\ rg \in 0..MaxClasses
      /\ Linked(f, cl, rg) /\ Best(f, cl, rg) /\ Untidy(f, cl, rg, NoJob)
  BY PartTypes DEF Sound
<1>1. cl2 \in ClassTable
  BY <1>0, NoClassType DEF ClassTable
<1>2. Swept(g) = [g EXCEPT !.class = cl2]
  BY DEF Swept
<1>3. Is(Swept(g), g, f, cl2, rg)
  BY <1>0, <1>1, <1>2, OtherClasses
<1>4. \A c \in Classes : \/ cl2[c] = cl[c]
                         \/ cl2[c] = NoClass /\ cl[c].over = "bad" /\ c # rg /\ ~In(f, c)
  BY DEF Forgotten, In
<1>5. \A c \in Classes : cl2[c] = cl[c] => ~(cl[c].over = "bad" /\ c # rg /\ ~In(f, c)) \/ ~cl2[c].live
  BY NoClassType DEF Forgotten, In
<1> HIDE DEF cl2
<1>6. rg # NoJob => rg \in Classes /\ cl2[rg] = cl[rg]
  BY <1>0, <1>4, ConfigAssumption DEF Classes, NoJob
<1>7. \A t \in Sources : Has(f, t) => f[t] \in Classes /\ cl2[f[t]] = cl[f[t]]
  BY <1>0, <1>4, SelectedClass DEF In
<1> HIDE DEF f, cl, rg
<1>8. Linked(f, cl2, rg)
  BY <1>0, <1>4, <1>6, <1>7, NoClassType DEF Linked
<1>9. Best(f, cl2, rg)
  BY <1>0, <1>6 DEF Best
<1>10. Tidy(f, cl2, rg)
  <2> SUFFICES ASSUME NEW c \in Classes, cl2[c].live, ~In(f, c)
               PROVE  c = rg /\ (cl2[c].over = "bad" \/ (cl2[c].deleted /\ cl2[c].instances > 0))
    BY DEF Tidy
  <2>1. cl2[c] = cl[c]
    BY <1>4, NoClassType
  <2>2. c \in Classes \ {NoJob}
    BY ConfigAssumption DEF Classes, NoJob
  <2> QED BY <2>1, <2>2, <1>0, <1>5 DEF Untidy
<1>11. \A t \in Sources : Keeps(f, cl, f, cl2, t)
  BY <1>7 DEF Keeps
<1>12. \A u \in Sources : Eager(f, cl, rg, u) => Eager(f, cl2, rg, u)
  BY <1>0, <1>7 DEF Eager
<1> QED BY <1>3, <1>8, <1>9, <1>10, <1>11, <1>12 DEF Is, Good, Kept, f, cl, rg

\* The class of u, which has matched an event, is not in the way of another source,
\* and its own successor takes the event over.
LEMMA InstalledEager ==
  ASSUME NEW f \in FileTable, NEW f1 \in FileTable, NEW cl \in ClassTable, NEW cl1 \in ClassTable,
         NEW rg \in 0..MaxClasses, NEW rg1 \in 0..MaxClasses, NEW s \in Sources, NEW c \in Classes,
         NEW u \in Sources, u <= s, Eager(f, cl, rg, u),
         f1[s] = c, \A t \in Sources \ {s} : f1[t] = f[t],
         \A d \in Classes \ {c} : Alike(cl1[d], cl[d]), cl1[c].instances = 0,
         rg1 = Selected(f1), cl1[rg1].matched
  PROVE  Eager(f1, cl1, rg1, u)
<1>0. Sources \subseteq Int /\ NoFile \notin Classes /\ NoJob \notin Classes
  BY ConfigAssumption DEF Sources, Classes, NoFile, NoJob
<1>1. \A t \in Sources : t < u => f1[t] = NoFile
  BY <1>0 DEF Eager
<1>2. Has(f1, u)
  BY <1>0 DEF Eager, Has
<1>3. rg1 = f1[u]
  BY <1>1, <1>2, SelectedFirst DEF Has
<1>4. rg \in Classes
  BY EagerSelected
<1>5. cl1[rg1].instances = 0
  BY <1>3, <1>4 DEF Eager, Alike
<1> QED BY <1>1, <1>2, <1>3, <1>5 DEF Eager

\* A source loses its class, if it has one.
LEMMA Lost ==
  ASSUME NEW f \in FileTable, NEW f2 \in FileTable, NEW cl \in ClassTable,
         NEW rg \in 0..MaxClasses, NEW s \in Sources,
         Linked(f, cl, rg), Best(f, cl, rg), Tidy(f, cl, rg),
         ~Has(f2, s), \A t \in Sources \ {s} : f2[t] = f[t]
  PROVE  /\ Linked(f2, cl, rg) /\ TidyBut(f2, cl, rg, f[s])
         /\ Has(f, s) => f[s] \in Classes /\ cl[f[s]].live /\ ~In(f2, f[s])
         /\ rg = f[s] \/ Best(f2, cl, rg)
         /\ ~Has(f, s) => Best(f2, cl, rg) /\ Tidy(f2, cl, rg)
<1>0. /\ \A t \in Sources : Has(f, t) => f[t] \in Classes
      /\ NoJob \notin Classes /\ NoFile \notin Classes
  BY SelectedClass, ConfigAssumption DEF Classes, NoJob, NoFile
<1>1. \A c \in Classes : In(f2, c) => In(f, c)
  BY <1>0 DEF In, Has
<1>2. \A c \in Classes : In(f, c) => In(f2, c) \/ c = f[s]
  BY DEF In
<1>3. Linked(f2, cl, rg)
  BY DEF Linked, Has
<1>4. TidyBut(f2, cl, rg, f[s])
  BY <1>2 DEF TidyBut, Tidy
<1>5. Has(f, s) => f[s] \in Classes /\ cl[f[s]].live /\ ~In(f2, f[s])
  BY <1>0 DEF Linked, In, Has
<1>6. rg # NoJob => rg \in Classes
  BY ConfigAssumption DEF Classes, NoJob
<1>7. ASSUME rg # f[s] \/ ~Has(f, s) PROVE Best(f2, cl, rg)
  <2>1. CASE rg = Selected(f)
    <3>1. Selected(f2) = Selected(f)
      BY <1>7, <2>1, SelectedStays
    <3> QED BY <2>1, <3>1 DEF Best
  <2>2. CASE rg # Selected(f)
    BY <2>2, <1>1, <1>6 DEF Best
  <2> QED BY <2>1, <2>2
<1>8. ~Has(f, s) => Tidy(f2, cl, rg)
  <2> SUFFICES ASSUME ~Has(f, s), NEW c \in Classes PROVE In(f, c) => In(f2, c)
    BY DEF Tidy
  <2> QED BY <1>0, <1>2 DEF Has
<1> QED BY <1>3, <1>4, <1>5, <1>7, <1>8

\* The ConfFile of s is taken out, or left without a class, and its class goes if
\* it can.
LEMMA DropIs ==
  ASSUME NEW g, Good(g), NEW s \in Sources, NEW v \in {NoFile, NoJob}
  PROVE  LET r == conf_file_destroy([g EXCEPT !.file[s] = v], g.file[s])
         IN  /\ Good(r) /\ r.watch = g.watch /\ r.file[s] = v
             /\ \A t \in Sources \ {s} : Kept(g, r, t)
             /\ \A u \in Sources \ {s} : (s < u => v = NoFile) /\ Eager(g.file, g.class, g.reg, u)
                                         => Eager(r.file, r.class, r.reg, u)
<1> DEFINE f == g.file
           cl == g.class
           rg == g.reg
           f2 == [f EXCEPT ![s] = v]
           x == [g EXCEPT !.file[s] = v]
           r == conf_file_destroy(x, f[s])
<1>0. g \in Daemon /\ ~g.fault /\ f \in FileTable /\ cl \in ClassTable /\ rg \in 0..MaxClasses
      /\ Linked(f, cl, rg) /\ Best(f, cl, rg) /\ Tidy(f, cl, rg)
  BY PartTypes DEF Good
<1>1. f2 \in FileTable /\ f2[s] = v /\ ~Has(f2, s) /\ \A t \in Sources \ {s} : f2[t] = f[t]
  BY <1>0, ConfigAssumption DEF FileTable, Has, NoFile, NoJob
<1>2. Is(x, g, f2, cl, rg)
  <2>1. x = [g EXCEPT !.file = f2]
    BY DEF Daemon
  <2> HIDE DEF f2
  <2> QED BY <1>0, <1>1, <2>1, OtherFiles
<1>3. \A u \in Sources \ {s} : (s < u => v = NoFile) /\ Eager(f, cl, rg, u) => Eager(f2, cl, rg, u)
  BY <1>1 DEF Eager, Has
<1>4. \A t \in Sources \ {s} : Keeps(f, cl, f2, cl, t)
  BY <1>1 DEF Keeps
<1> HIDE DEF f2
<1>5. /\ Linked(f2, cl, rg) /\ TidyBut(f2, cl, rg, f[s])
      /\ Has(f, s) => f[s] \in Classes /\ cl[f[s]].live /\ ~In(f2, f[s])
      /\ rg = f[s] \/ Best(f2, cl, rg)
      /\ ~Has(f, s) => Best(f2, cl, rg) /\ Tidy(f2, cl, rg)
  BY <1>0, <1>1, Lost
<1>6. x \in Daemon /\ ~x.fault /\ x.watch = g.watch /\ x.file = f2 /\ x.class = cl /\ x.reg = rg
  BY <1>2 DEF Is
<1> HIDE DEF x, f, cl, rg
<1>7. CASE ~Has(f, s)
  <2>1. r = x
    BY <1>7 DEF conf_file_destroy, Has
  <2>2. Good(r)
    BY <1>5, <1>6, <1>7, <2>1 DEF Good
  <2> HIDE DEF r
  <2> QED BY <1>1, <1>3, <1>4, <1>6, <2>1, <2>2 DEF Kept, f, cl, rg, r, x
<1>8. CASE Has(f, s)
  <2> DEFINE o == f[s]
  <2>1. o \in Classes /\ cl[o].live /\ ~In(f2, o)
    BY <1>5, <1>8
  <2> HIDE DEF o
  <2>2. PICK cl2 \in ClassTable, rg2 \in 0..MaxClasses :
           /\ Is(conf_file_destroy(x, o), x, f2, cl2, rg2) /\ ButFor(o, cl2, cl)
           /\ \/ /\ rg = o /\ cl[o].instances > 0 /\ rg2 = o
                 /\ cl2[o].deleted /\ (cl2[o].live <=> cl[o].live)
                 /\ cl2[o].instances = cl[o].instances /\ cl2[o].over = cl[o].over
              \/ rg = o /\ cl[o].instances = 0 /\ rg2 = Selected(f2) /\ cl2[o] = NoClass
              \/ rg # o /\ rg2 = rg /\ cl2[o] = NoClass
    BY <1>6, <2>1, DestroyIs
  <2>3. /\ Linked(f2, cl2, rg2) /\ Best(f2, cl2, rg2)
        /\ TidyBut(f2, cl, rg, o) => Tidy(f2, cl2, rg2)
        /\ \A t \in Sources : Keeps(f2, cl, f2, cl2, t)
    <3>1. rg = o \/ Best(f2, cl, rg)
      BY <1>5 DEF o
    <3> QED BY <1>0, <1>1, <1>5, <2>1, <2>2, <3>1, Destroyed
  <2>4. r \in Daemon /\ ~r.fault /\ r.watch = x.watch /\ r.file = f2 /\ r.class = cl2 /\ r.reg = rg2
    BY <2>2 DEF Is, o
  <2> HIDE DEF r
  <2>5. Good(r)
    BY <1>5, <2>3, <2>4 DEF Good, o
  <2>6. \A t \in Sources \ {s} : Keeps(f, cl, f2, cl2, t)
    BY <1>4, <2>3 DEF Keeps, Has
  <2>7. ASSUME NEW u \in Sources \ {s}, s < u => v = NoFile, Eager(f, cl, rg, u)
        PROVE  Eager(f2, cl2, rg2, u)
    <3>1. Eager(f2, cl, rg, u)
      BY <1>3, <2>7
    <3>2. rg \in Classes /\ In(f2, rg)
      BY <1>1, <3>1, EagerSelected
    <3>3. rg # o /\ rg2 = rg /\ cl2[rg] = cl[rg]
      BY <2>1, <2>2, <3>2 DEF ButFor
    <3> QED BY <3>1, <3>3 DEF Eager
  <2> QED BY <1>1, <1>6, <2>4, <2>5, <2>6, <2>7 DEF Kept, f, cl, rg, r, x
<1> QED BY <1>7, <1>8

\* The ConfFile of s has a class that is what the files conf and over say.
Says(f, cl, s, conf, over) ==
  Has(f, s) /\ ~cl[f[s]].deleted /\ cl[f[s]].conf = conf /\ cl[f[s]].over = over

\* A class is made for s, and the best one is considered; the old one of s is still
\* there.
LEMMA MadeIs ==
  ASSUME NEW g, Good(g), NEW s \in Sources, NEW k,
         NEW conf \in {"none"} \cup Versions, NEW over \in {"none", "ok"}
  PROVE  \E f1 \in FileTable, cl1 \in ClassTable, rg1 \in 0..MaxClasses :
           /\ Is(job_class_consider(NewClass(g, s, conf, over), k), g, f1, cl1, rg1)
           /\ Linked(f1, cl1, rg1) /\ Best(f1, cl1, rg1) /\ Untidy(f1, cl1, rg1, g.file[s])
           /\ Has(g.file, s) => g.file[s] \in Classes /\ ~In(f1, g.file[s]) /\ cl1[g.file[s]].live
           /\ \A t \in Sources \ {s} : Keeps(g.file, g.class, f1, cl1, t)
           /\ Says(f1, cl1, s, conf, over)
           /\ \A u \in Sources : u <= s /\ Eager(g.file, g.class, g.reg, u) => Eager(f1, cl1, rg1, u)
<1> DEFINE f == g.file
           cl == g.class
           rg == g.reg
           x == NewClass(g, s, conf, over)
<1>0. g \in Daemon /\ ~g.fault /\ f \in FileTable /\ cl \in ClassTable /\ rg \in 0..MaxClasses
      /\ Linked(f, cl, rg) /\ Tidy(f, cl, rg)
  BY PartTypes DEF Good
<1>1. PICK c \in Classes, f1 \in FileTable, cl0 \in ClassTable :
           /\ Is(x, g, f1, cl0, rg)
           /\ ~cl[c].live /\ ButFor(c, cl0, cl)
           /\ f1[s] = c /\ \A t \in Sources \ {s} : f1[t] = f[t]
           /\ cl0[c].live /\ ~cl0[c].deleted /\ cl0[c].instances = 0
           /\ cl0[c].conf = conf /\ cl0[c].over = over
  BY <1>0, NewClassIs
<1>2. x \in Daemon /\ ~x.fault /\ x.watch = g.watch /\ x.file = f1 /\ x.class = cl0 /\ x.reg = rg
  BY <1>1 DEF Is
<1>3. Has(f1, s) /\ Selected(f1) # NoJob
  <2>1. Has(f1, s)
    BY <1>1, ConfigAssumption DEF Has, Classes, NoFile, NoJob
  <2> QED BY <2>1, SelectedClass
<1> HIDE DEF x, f, cl, rg
<1>4. PICK cl1 \in ClassTable, rg1 \in 0..MaxClasses :
           /\ Is(job_class_consider(x, k), x, f1, cl1, rg1)
           /\ \A d \in Classes : Alike(cl1[d], cl0[d])
           /\ \/ rg1 = Selected(f1) /\ (rg \in {NoJob, rg1} \/ cl0[rg].instances = 0)
              \/ rg1 = rg /\ rg # NoJob /\ cl0[rg].instances > 0
           /\ rg # NoJob /\ cl0[rg].instances = 0 /\ cl0[rg].matched
              => rg1 = Selected(f1) /\ cl1[rg1].matched
  BY <1>2, <1>3, ConsiderIs
<1>5. \A d \in Classes \ {c} : Alike(cl1[d], cl[d])
  BY <1>1, <1>4 DEF ButFor
<1>6. cl1[c].live /\ ~cl1[c].deleted /\ cl1[c].instances = 0 /\ cl1[c].conf = conf /\ cl1[c].over = over
  BY <1>1, <1>4 DEF Alike
<1>7. Considered(f1, cl1, rg, rg1)
  <2>1. rg # NoJob => rg \in Classes /\ Alike(cl1[rg], cl0[rg])
    BY <1>0, <1>4, ConfigAssumption DEF Classes, NoJob
  <2> QED BY <1>4, <2>1 DEF Considered, Alike
<1>8. /\ Linked(f1, cl1, rg1) /\ Best(f1, cl1, rg1) /\ Untidy(f1, cl1, rg1, f[s])
      /\ Has(f, s) => f[s] \in Classes /\ ~In(f1, f[s]) /\ cl1[f[s]].live
      /\ \A t \in Sources \ {s} : Keeps(f, cl, f1, cl1, t)
  BY <1>0, <1>1, <1>5, <1>6, <1>7, Installed
<1>9. Says(f1, cl1, s, conf, over)
  BY <1>1, <1>3, <1>6 DEF Says
<1>10. ASSUME NEW u \in Sources, u <= s, Eager(f, cl, rg, u) PROVE Eager(f1, cl1, rg1, u)
  <2>1. rg \in Classes /\ rg # NoJob
    BY <1>0, <1>10, EagerSelected
  <2>2. rg # c
    BY <1>0, <1>1, <2>1 DEF Linked
  <2>3. cl0[rg].instances = 0 /\ cl0[rg].matched
    BY <1>1, <1>10, <2>1, <2>2 DEF Eager, ButFor
  <2>4. rg1 = Selected(f1) /\ cl1[rg1].matched
    BY <1>4, <2>1, <2>3
  <2> QED BY <1>0, <1>1, <1>5, <1>6, <1>10, <2>4, InstalledEager
<1>11. Is(job_class_consider(x, k), g, f1, cl1, rg1)
  BY <1>2, <1>4 DEF Is
<1> QED BY <1>8, <1>9, <1>10, <1>11 DEF x, f, cl, rg

\* A configuration file that can be parsed is loaded.
LEMMA LoadVersion ==
  ASSUME NEW g, Good(g), NEW s \in Sources, NEW v \in Versions
  PROVE  LET r == LoadConf(g, s, v)
         IN  /\ Sound(r) /\ r.watch = g.watch /\ Says(r.file, r.class, s, v, "none")
             /\ \A t \in Sources \ {s} : Kept(g, r, t)
             /\ \A u \in Sources : u <= s /\ Eager(g.file, g.class, g.reg, u)
                                   => Eager(r.file, r.class, r.reg, u)
<1> DEFINE f == g.file
           x == job_class_consider(NewClass(g, s, v, "none"), f[s])
           r == LoadConf(g, s, v)
<1>1. r = conf_file_destroy(x, f[s])
  BY ConfigAssumption DEF LoadConf
<1>2. PICK f1 \in FileTable, cl1 \in ClassTable, rg1 \in 0..MaxClasses :
           /\ Is(x, g, f1, cl1, rg1)
           /\ Linked(f1, cl1, rg1) /\ Best(f1, cl1, rg1) /\ Untidy(f1, cl1, rg1, f[s])
           /\ Has(f, s) => f[s] \in Classes /\ ~In(f1, f[s]) /\ cl1[f[s]].live
           /\ \A t \in Sources \ {s} : Keeps(f, g.class, f1, cl1, t)
           /\ Says(f1, cl1, s, v, "none")
           /\ \A u \in Sources : u <= s /\ Eager(f, g.class, g.reg, u) => Eager(f1, cl1, rg1, u)
  BY MadeIs
<1>3. x \in Daemon /\ ~x.fault /\ x.watch = g.watch /\ x.file = f1 /\ x.class = cl1 /\ x.reg = rg1
  BY <1>2 DEF Is
<1> HIDE DEF x, f, r
<1>4. CASE ~Has(f, s)
  <2>1. r = x
    BY <1>1, <1>4 DEF conf_file_destroy, Has
  <2>2. Untidy(f1, cl1, rg1, NoJob)
    BY <1>2, <1>4, ConfigAssumption DEF Untidy, Has, Classes, NoFile, NoJob
  <2>3. Sound(r)
    BY <1>2, <1>3, <2>1, <2>2 DEF Sound
  <2> QED BY <1>2, <1>3, <2>1, <2>3 DEF Kept, f, r
<1>5. CASE Has(f, s)
  <2> DEFINE o == f[s]
  <2>1. o \in Classes /\ cl1[o].live /\ ~In(f1, o) /\ Untidy(f1, cl1, rg1, o)
    BY <1>2, <1>5
  <2> HIDE DEF o
  <2>2. PICK cl2 \in ClassTable, rg2 \in 0..MaxClasses :
           /\ Is(conf_file_destroy(x, o), x, f1, cl2, rg2) /\ ButFor(o, cl2, cl1)
           /\ \/ /\ rg1 = o /\ cl1[o].instances > 0 /\ rg2 = o
                 /\ cl2[o].deleted /\ (cl2[o].live <=> cl1[o].live)
                 /\ cl2[o].instances = cl1[o].instances /\ cl2[o].over = cl1[o].over
              \/ rg1 = o /\ cl1[o].instances = 0 /\ rg2 = Selected(f1) /\ cl2[o] = NoClass
              \/ rg1 # o /\ rg2 = rg1 /\ cl2[o] = NoClass
    BY <1>3, <2>1, DestroyIs
  <2>3. /\ Linked(f1, cl2, rg2) /\ Best(f1, cl2, rg2) /\ Untidy(f1, cl2, rg2, NoJob)
        /\ \A t \in Sources : Keeps(f1, cl1, f1, cl2, t)
    BY <1>2, <2>1, <2>2, Destroyed
  <2>4. r \in Daemon /\ ~r.fault /\ r.watch = x.watch /\ r.file = f1 /\ r.class = cl2 /\ r.reg = rg2
    BY <1>1, <2>2 DEF Is, o
  <2>5. Sound(r)
    BY <2>3, <2>4 DEF Sound
  <2>6. \A t \in Sources \ {s} : Keeps(f, g.class, f1, cl2, t)
    BY <1>2, <2>3 DEF Keeps, Has
  <2>7. Says(f1, cl2, s, v, "none")
    BY <1>2, <2>3 DEF Keeps, Says
  <2>8. ASSUME NEW u \in Sources, u <= s, Eager(f, g.class, g.reg, u)
        PROVE  Eager(f1, cl2, rg2, u)
    <3>1. Eager(f1, cl1, rg1, u)
      BY <1>2, <2>8
    <3>2. rg1 \in Classes /\ In(f1, rg1)
      BY <3>1, EagerSelected
    <3>3. rg1 # o /\ rg2 = rg1 /\ cl2[rg1] = cl1[rg1]
      BY <2>1, <2>2, <3>2 DEF ButFor
    <3> QED BY <3>1, <3>3 DEF Eager
  <2> QED BY <1>3, <2>4, <2>5, <2>6, <2>7, <2>8 DEF Kept, f, r
<1> QED BY <1>4, <1>5

\* An invalid override file takes the class of s from its ConfFile.
LEMMA OrphanMade ==
  ASSUME NEW g, Sound(g), NEW s \in Sources, Has(g.file, s)
  PROVE  LET r == [g EXCEPT !.file[s] = NoJob, !.class[g.file[s]].over = "bad"]
         IN  /\ Sound(r) /\ r.watch = g.watch /\ r.file[s] = NoJob
             /\ \A t \in Sources \ {s} : Kept(g, r, t)
<1> DEFINE f == g.file
           cl == g.class
           rg == g.reg
           o == f[s]
           f2 == [f EXCEPT ![s] = NoJob]
           cl2 == [cl EXCEPT ![o].over = "bad"]
           r == [g EXCEPT !.file[s] = NoJob, !.class[g.file[s]].over = "bad"]
<1>0. g \in Daemon /\ ~g.fault /\ f \in FileTable /\ cl \in ClassTable /\ rg \in 0..MaxClasses
      /\ Linked(f, cl, rg) /\ Best(f, cl, rg) /\ Untidy(f, cl, rg, NoJob)
  BY PartTypes DEF Sound
<1>1. /\ o \in Classes /\ NoJob \notin Classes /\ NoFile \notin Classes
      /\ \A t \in Sources : Has(f, t) => f[t] \in Classes
  BY <1>0, SelectedClass, ConfigAssumption DEF Classes, NoJob, NoFile
<1>2. f2 \in FileTable /\ f2[s] = NoJob /\ ~Has(f2, s) /\ \A t \in Sources \ {s} : f2[t] = f[t]
  BY <1>0, ConfigAssumption DEF FileTable, Has, NoJob
<1>3. /\ cl2 \in ClassTable /\ ButFor(o, cl2, cl) /\ cl2[o].over = "bad"
      /\ (cl2[o].live <=> cl[o].live) /\ cl2[o].instances = cl[o].instances
  BY <1>0, <1>1 DEF ClassTable, ClassRecord, ButFor
<1>4. r = [[g EXCEPT !.file = f2] EXCEPT !.class = cl2]
  BY DEF Daemon
<1> HIDE DEF f2, cl2
<1>5. Is(r, g, f2, cl2, rg)
  <2> DEFINE x == [g EXCEPT !.file = f2]
  <2>1. Is(x, g, f2, cl, rg)
    BY <1>0, <1>2, OtherFiles
  <2>2. x \in Daemon /\ ~x.fault /\ x.watch = g.watch /\ x.file = f2 /\ x.reg = rg
    BY <2>1 DEF Is
  <2>3. Is([x EXCEPT !.class = cl2], x, x.file, cl2, x.reg)
    <3> HIDE DEF x
    <3> QED BY <1>3, <2>2, OtherClasses
  <2> QED BY <1>4, <2>2, <2>3 DEF Is
<1> HIDE DEF f, cl, rg, r
<1>6. \A c \in Classes : /\ In(f2, c) => In(f, c)
                         /\ In(f, c) => In(f2, c) \/ c = o
  BY <1>1, <1>2 DEF In
<1>7. ~In(f2, o) /\ \A t \in Sources \ {s} : Has(f, t) => f[t] # o /\ cl2[f[t]] = cl[f[t]]
  BY <1>0, <1>1, <1>2, <1>3 DEF Linked, In, Has, ButFor
<1>8. Linked(f2, cl2, rg)
  <2>1. \A c \in Classes : (cl2[c].live <=> cl[c].live) /\ cl2[c].instances = cl[c].instances
    BY <1>3 DEF ButFor
  <2>2. rg # NoJob => rg \in Classes
    BY <1>0, ConfigAssumption DEF Classes, NoJob
  <2> QED BY <2>1, <2>2, <1>0, <1>1, <1>2 DEF Linked, Has
<1>9. Best(f2, cl2, rg)
  <2>1. rg # NoJob => rg \in Classes
    BY <1>0, ConfigAssumption DEF Classes, NoJob
  <2>2. CASE rg = o
    BY <1>1, <1>3, <1>7, <2>2 DEF Best
  <2>3. CASE rg # o /\ rg = Selected(f)
    <3>1. Selected(f2) = Selected(f)
      BY <1>0, <1>2, <2>3, SelectedStays DEF o
    <3> QED BY <2>3, <3>1 DEF Best
  <2>4. CASE rg # o /\ rg # Selected(f)
    BY <1>0, <1>3, <1>6, <2>1, <2>4 DEF Best, ButFor
  <2> QED BY <2>2, <2>3, <2>4
<1>10. Untidy(f2, cl2, rg, NoJob)
  BY <1>0, <1>3, <1>6 DEF Untidy, ButFor
<1>11. \A t \in Sources \ {s} : Keeps(f, cl, f2, cl2, t)
  BY <1>2, <1>7 DEF Keeps
<1>12. Sound(r)
  BY <1>5, <1>8, <1>9, <1>10 DEF Is, Sound
<1> QED BY <1>2, <1>5, <1>11, <1>12 DEF Is, Kept, f, cl, rg, r

\* The best class is considered again: which one it is has not changed.
LEMMA ConsideredAgain ==
  ASSUME NEW f \in FileTable, NEW cl \in ClassTable, NEW cl1 \in ClassTable,
         NEW rg \in 0..MaxClasses, NEW rg1 \in 0..MaxClasses,
         Linked(f, cl, rg), Untidy(f, cl, rg, NoJob), Considered(f, cl1, rg, rg1),
         \A d \in Classes : /\ (cl1[d].live <=> cl[d].live) /\ (cl1[d].deleted <=> cl[d].deleted)
                            /\ cl1[d].instances = cl[d].instances
                            /\ ~In(f, d) => cl1[d].over = cl[d].over
  PROVE  Linked(f, cl1, rg1) /\ Best(f, cl1, rg1) /\ Untidy(f, cl1, rg1, NoJob)
<1>0. /\ \A t \in Sources : Has(f, t) => f[t] \in Classes
      /\ rg # NoJob => rg \in Classes
      /\ NoJob \notin Classes
  BY SelectedClass, ConfigAssumption DEF Classes, NoJob
<1>1. ASSUME NEW d \in Classes, cl1[d].instances > 0 PROVE d = rg1 /\ d = rg
  <2>1. d = rg
    BY <1>1 DEF Linked
  <2>2. rg # NoJob /\ cl1[rg].instances # 0
    BY <2>1, <1>0, <1>1 DEF ClassTable, ClassRecord
  <2> QED BY <2>1, <2>2 DEF Considered
<1>2. \A t \in Sources : Has(f, t) => cl1[f[t]].live
  BY <1>0 DEF Linked
<1>3. rg1 # NoJob => cl1[rg1].live
  <2>1. CASE rg1 = Selected(f)
    <3>1. Selected(f) # NoJob => \E t \in Sources : f[t] = Selected(f) /\ Has(f, t)
      BY SelectedIs DEF Has
    <3> QED BY <2>1, <1>2, <3>1
  <2>2. CASE rg1 = rg
    BY <2>2, <1>0 DEF Linked
  <2> QED BY <2>1, <2>2 DEF Considered
<1>4. Linked(f, cl1, rg1)
  BY <1>1, <1>2, <1>3 DEF Linked
<1>5. Best(f, cl1, rg1)
  BY DEF Best, Considered
<1>6. Untidy(f, cl1, rg1, NoJob)
  BY <1>1 DEF Untidy
<1> QED BY <1>4, <1>5, <1>6

\* A valid override file is loaded on top of the class of s.
LEMMA OverrideRead ==
  ASSUME NEW g, Sound(g), NEW s \in Sources, Has(g.file, s)
  PROVE  LET o == g.file[s]
             r == job_class_consider([g EXCEPT !.class[o].over = "ok"], o)
         IN  /\ Sound(r) /\ r.watch = g.watch
             /\ ~g.class[o].deleted => Says(r.file, r.class, s, g.class[o].conf, "ok")
             /\ \A t \in Sources \ {s} : Kept(g, r, t)
             /\ \A u \in Sources : Eager(g.file, g.class, g.reg, u) => Eager(r.file, r.class, r.reg, u)
<1> DEFINE f == g.file
           cl == g.class
           rg == g.reg
           o == f[s]
           cl0 == [cl EXCEPT ![o].over = "ok"]
           x == [g EXCEPT !.class[o].over = "ok"]
           r == job_class_consider(x, o)
<1>0. g \in Daemon /\ ~g.fault /\ f \in FileTable /\ cl \in ClassTable /\ rg \in 0..MaxClasses
      /\ Linked(f, cl, rg) /\ Untidy(f, cl, rg, NoJob)
  BY PartTypes DEF Sound
<1>1. o \in Classes /\ Selected(f) # NoJob /\ \A t \in Sources : Has(f, t) => f[t] \in Classes
  BY <1>0, SelectedClass
<1>2. /\ cl0 \in ClassTable /\ ButFor(o, cl0, cl)
      /\ (cl0[o].live <=> cl[o].live) /\ (cl0[o].deleted <=> cl[o].deleted)
      /\ (cl0[o].matched <=> cl[o].matched)
      /\ cl0[o].instances = cl[o].instances /\ cl0[o].over = "ok" /\ cl0[o].conf = cl[o].conf
  BY <1>0, <1>1 DEF ClassTable, ClassRecord, ButFor
<1>3. x = [g EXCEPT !.class = cl0]
  BY DEF Daemon
<1> HIDE DEF cl0
<1>4. Is(x, g, f, cl0, rg)
  BY <1>0, <1>2, <1>3, OtherClasses
<1>5. x \in Daemon /\ ~x.fault /\ x.watch = g.watch /\ x.file = f /\ x.class = cl0 /\ x.reg = rg
  BY <1>4 DEF Is
<1> HIDE DEF x, f, cl, rg
<1>6. PICK cl1 \in ClassTable, rg1 \in 0..MaxClasses :
           /\ Is(r, x, f, cl1, rg1)
           /\ \A d \in Classes : Alike(cl1[d], cl0[d])
           /\ \/ rg1 = Selected(f) /\ (rg \in {NoJob, rg1} \/ cl0[rg].instances = 0)
              \/ rg1 = rg /\ rg # NoJob /\ cl0[rg].instances > 0
           /\ rg # NoJob /\ cl0[rg].instances = 0 /\ cl0[rg].matched
              => rg1 = Selected(f) /\ cl1[rg1].matched
  BY <1>1, <1>5, ConsiderIs
<1> HIDE DEF r
<1>7. Considered(f, cl1, rg, rg1)
  <2>1. rg # NoJob => rg \in Classes /\ Alike(cl1[rg], cl0[rg])
    BY <1>0, <1>6, ConfigAssumption DEF Classes, NoJob
  <2> QED BY <1>6, <2>1 DEF Considered, Alike
<1>8. \A d \in Classes : /\ (cl1[d].live <=> cl[d].live) /\ (cl1[d].deleted <=> cl[d].deleted)
                         /\ cl1[d].instances = cl[d].instances
                         /\ d # o => cl1[d].over = cl[d].over /\ cl1[d].conf = cl[d].conf
  BY <1>2, <1>6 DEF Alike, ButFor
<1>9. In(f, o)
  BY DEF In
<1>10. Linked(f, cl1, rg1) /\ Best(f, cl1, rg1) /\ Untidy(f, cl1, rg1, NoJob)
  BY <1>0, <1>7, <1>8, <1>9, ConsideredAgain
<1>11. r \in Daemon /\ ~r.fault /\ r.watch = g.watch /\ r.file = f /\ r.class = cl1 /\ r.reg = rg1
  BY <1>5, <1>6 DEF Is
<1>12. ~cl[o].deleted => Says(f, cl1, s, cl[o].conf, "ok")
  BY <1>1, <1>2, <1>6, <1>8 DEF Says, Alike, f
<1>13. ASSUME NEW t \in Sources \ {s} PROVE Keeps(f, cl, f, cl1, t)
  BY <1>0, <1>1, <1>8 DEF Keeps, Linked, Has
<1>14. ASSUME NEW u \in Sources, Eager(f, cl, rg, u) PROVE Eager(f, cl1, rg1, u)
  <2>1. Selected(f) = rg /\ rg \in Classes /\ rg # NoJob
    BY <1>0, <1>14, EagerSelected
  <2>2. cl0[rg].instances = 0 /\ cl0[rg].matched
    BY <1>2, <1>14, <2>1 DEF Eager, ButFor
  <2>3. rg1 = rg /\ cl1[rg].matched
    BY <1>6, <2>1, <2>2
  <2> QED BY <1>8, <1>14, <2>1, <2>3 DEF Eager
<1>15. Sound(r)
  BY <1>10, <1>11 DEF Sound
<1> QED BY <1>11, <1>12, <1>13, <1>14, <1>15 DEF Kept, f, cl, rg, r, x

-----------------------------------------------------------------------------
(* Loading a configuration file with its override file                     *)

Valid == \A t \in Sources : disk[t].conf # "bad" /\ disk[t].over # "bad"

\* The class of u is not overtaken when a file of s is loaded.
NotBefore(s, u) == IF disk[s].conf = "none" THEN u # s ELSE u <= s

\* The files of s were loaded, and nothing else was.
Loaded(g, r, s) ==
  /\ Sound(r) /\ r.watch = g.watch /\ Fresh(r.file, r.class, s)
  /\ \A t \in Sources \ {s} : Kept(g, r, t)
  /\ \A u \in Sources : Valid /\ NotBefore(s, u) /\ Eager(g.file, g.class, g.reg, u)
                        => Eager(r.file, r.class, r.reg, u)

\* The override file that applies is that of a directory up to s.
LEMMA OverrideIs ==
  ASSUME Disk, NEW s \in Sources
  PROVE  /\ Override(s) \in {"none", "bad", "ok"}
         /\ conf_get_best_override(s) = 0 => Override(s) = "none" /\ \A t \in 1..s : disk[t].over = "none"
         /\ conf_get_best_override(s) # 0 => /\ conf_get_best_override(s) \in 1..s
                                             /\ Override(s) = disk[conf_get_best_override(s)].over
                                             /\ Override(s) # "none"
<1> DEFINE T == {t \in 1..s : disk[t].over # "none"}
<1>0. s \in Nat /\ 1..s \subseteq Sources /\ 0 \notin 1..s /\ T \subseteq Nat
  BY ConfigAssumption DEF Sources
<1>1. conf_get_best_override(s) = IF T = {} THEN 0 ELSE Lowest(T)
  BY DEF conf_get_best_override
<1>2. T # {} => Lowest(T) \in T
  <2>1. T # {} => \E i \in T : \A k \in T : i <= k
    BY <1>0, Least
  <2> HIDE DEF T
  <2> QED BY <2>1 DEF Lowest
<1>3. T = {} => \A t \in 1..s : disk[t].over = "none"
  OBVIOUS
<1>4. T # {} => Lowest(T) \in 1..s /\ disk[Lowest(T)].over # "none" /\ disk[Lowest(T)].over \in {"none", "bad", "ok"}
  BY <1>0, <1>2 DEF Disk
<1> HIDE DEF T
<1> QED BY <1>0, <1>1, <1>3, <1>4 DEF Override

\* The ConfFile of s is what the files say.
LEMMA FreshIs ==
  ASSUME Disk, NEW f, NEW cl, NEW s \in Sources,
         \/ disk[s].conf = "none" /\ f[s] = NoFile
         \/ disk[s].conf # "none" /\ Override(s) = "bad" /\ f[s] = NoJob
         \/ disk[s].conf = "bad" /\ Override(s) = "none" /\ f[s] = NoJob
         \/ disk[s].conf = "bad" /\ Override(s) = "ok" /\ Says(f, cl, s, "none", "ok")
         \/ /\ disk[s].conf \in Versions /\ Override(s) # "bad"
            /\ Says(f, cl, s, disk[s].conf, Override(s))
  PROVE  Fresh(f, cl, s)
BY ConfigAssumption DEF Fresh, Says

\* A ConfFile that is kept is still what the files say.
LEMMA FreshKept ==
  ASSUME NEW g, NEW r, NEW t, Kept(g, r, t), Fresh(g.file, g.class, t)
  PROVE  Fresh(r.file, r.class, t)
BY DEF Fresh, Kept, Keeps, Has

\* A ConfFile that is what the files say is there when the file is.
LEMMA FreshThere ==
  ASSUME NEW f, NEW cl, NEW s, Fresh(f, cl, s)
  PROVE  /\ f[s] = NoFile <=> disk[s].conf = "none"
         /\ Has(f, s) => ~cl[f[s]].deleted
<1> DEFINE C == disk[s].conf
           O == Override(s)
<1>1. Fresh(f, cl, s) =
        CASE C = "none" -> f[s] = NoFile
          [] C # "none" /\ (O = "bad" \/ (C = "bad" /\ O = "none")) -> f[s] = NoJob
          [] C # "none" /\ O # "bad" /\ (C # "bad" \/ O # "none") ->
               /\ Has(f, s) /\ ~cl[f[s]].deleted
               /\ cl[f[s]].conf = IF C = "bad" THEN "none" ELSE C
               /\ cl[f[s]].over = O
  BY DEF Fresh
<1>2. NoFile # NoJob
  BY DEF NoFile, NoJob
<1> HIDE DEF C, O
<1>3. (C = "none" /\ f[s] = NoFile) \/ (C # "none" /\ (f[s] = NoJob \/ (Has(f, s) /\ ~cl[f[s]].deleted)))
  <2>1. CASE C = "none"
    BY <1>1, <2>1
  <2>2. CASE C # "none" /\ (O = "bad" \/ (C = "bad" /\ O = "none"))
    BY <1>1, <2>2
  <2>3. CASE C # "none" /\ O # "bad" /\ (C # "bad" \/ O # "none")
    BY <1>1, <2>3
  <2> QED BY <2>1, <2>2, <2>3
<1> QED BY <1>2, <1>3 DEF Has, C

\* A good daemon is a sound one.
LEMMA GoodSound ==
  ASSUME NEW g, Good(g)
  PROVE  Sound(g)
BY DEF Good, Sound, Tidy, Untidy

\* A file that is not there, or cannot be parsed, is loaded.
LEMMA LoadNothing ==
  ASSUME Disk, NEW g, Good(g), NEW s \in Sources, disk[s].conf \in {"none", "bad"}
  PROVE  LET y == LoadConf(g, s, disk[s].conf)
             v == IF disk[s].conf = "none" THEN NoFile ELSE NoJob
         IN  /\ Good(y) /\ y.watch = g.watch /\ y.file[s] = v
             /\ \A t \in Sources \ {s} : Kept(g, y, t)
             /\ \A u \in Sources \ {s} : disk[s].conf = "none" /\ Eager(g.file, g.class, g.reg, u)
                                         => Eager(y.file, y.class, y.reg, u)
<1> DEFINE v == IF disk[s].conf = "none" THEN NoFile ELSE NoJob
           y == LoadConf(g, s, disk[s].conf)
<1>1. y = conf_file_destroy([g EXCEPT !.file[s] = v], g.file[s])
  BY DEF LoadConf
<1>2. v \in {NoFile, NoJob} /\ (disk[s].conf = "none" => v = NoFile)
  OBVIOUS
<1> HIDE DEF v, y
<1>3. /\ Good(y) /\ y.watch = g.watch /\ y.file[s] = v
      /\ \A t \in Sources \ {s} : Kept(g, y, t)
      /\ \A u \in Sources \ {s} : (s < u => v = NoFile) /\ Eager(g.file, g.class, g.reg, u)
                                  => Eager(y.file, y.class, y.reg, u)
  BY <1>1, <1>2, DropIs
<1> QED BY <1>2, <1>3 DEF v, y

\* An override file is loaded after a configuration file that cannot be parsed.
LEMMA LoadBadOverride ==
  ASSUME Disk, NEW g, Good(g), NEW s \in Sources, disk[s].conf = "bad", Override(s) # "none"
  PROVE  Loaded(g, LoadOverride(LoadConf(g, s, disk[s].conf), s, Override(s)), s)
<1> DEFINE y == LoadConf(g, s, disk[s].conf)
           r == LoadOverride(y, s, Override(s))
<1>1. Good(y) /\ y.watch = g.watch /\ y.file[s] = NoJob /\ \A t \in Sources \ {s} : Kept(g, y, t)
  BY LoadNothing
<1>2. ~Valid
  BY DEF Valid
<1>3. Override(s) \in {"bad", "ok"}
  BY OverrideIs
<1> HIDE DEF y
<1>4. CASE Override(s) = "bad"
  <2>1. r = [y EXCEPT !.file[s] = NoJob]
    BY <1>1, <1>4 DEF LoadOverride
  <2>2. r = y
    BY <1>1, <2>1 DEF Good, Daemon
  <2>3. Fresh(y.file, y.class, s)
    BY <1>1, <1>4, FreshIs
  <2>4. Sound(y)
    BY <1>1, GoodSound
  <2> HIDE DEF r
  <2> QED BY <1>1, <1>2, <2>2, <2>3, <2>4 DEF Loaded, y, r
<1>5. CASE Override(s) = "ok"
  <2>1. r = job_class_consider(NewClass(y, s, "none", "ok"), s)
    BY <1>1, <1>5 DEF LoadOverride
  <2>2. PICK f1 \in FileTable, cl1 \in ClassTable, rg1 \in 0..MaxClasses :
           /\ Is(job_class_consider(NewClass(y, s, "none", "ok"), s), y, f1, cl1, rg1)
           /\ Linked(f1, cl1, rg1) /\ Best(f1, cl1, rg1) /\ Untidy(f1, cl1, rg1, y.file[s])
           /\ \A t \in Sources \ {s} : Keeps(y.file, y.class, f1, cl1, t)
           /\ Says(f1, cl1, s, "none", "ok")
    <3> DEFINE none == "none"
               ok == "ok"
    <3>1. none \in {"none"} \cup Versions /\ ok \in {"none", "ok"}
      OBVIOUS
    <3> HIDE DEF none, ok
    <3>2. \E f1 \in FileTable, cl1 \in ClassTable, rg1 \in 0..MaxClasses :
           /\ Is(job_class_consider(NewClass(y, s, none, ok), s), y, f1, cl1, rg1)
           /\ Linked(f1, cl1, rg1) /\ Best(f1, cl1, rg1) /\ Untidy(f1, cl1, rg1, y.file[s])
           /\ \A t \in Sources \ {s} : Keeps(y.file, y.class, f1, cl1, t)
           /\ Says(f1, cl1, s, none, ok)
      BY <1>1, <3>1, MadeIs
    <3> QED BY <3>2 DEF none, ok
  <2> HIDE DEF r
  <2>3. r \in Daemon /\ ~r.fault /\ r.watch = g.watch /\ r.file = f1 /\ r.class = cl1 /\ r.reg = rg1
    BY <1>1, <2>1, <2>2 DEF Is
  <2>4. Sound(r)
    BY <1>1, <2>2, <2>3 DEF Sound
  <2>5. Fresh(r.file, r.class, s)
    BY <1>5, <2>2, <2>3, FreshIs
  <2>6. \A t \in Sources \ {s} : Kept(y, r, t)
    BY <2>2, <2>3 DEF Kept
  <2>7. \A t \in Sources \ {s} : Kept(g, r, t)
    BY <1>1, <2>6, KeptTwice
  <2> QED BY <1>2, <2>3, <2>4, <2>5, <2>7 DEF Loaded, y, r
<1> QED BY <1>3, <1>4, <1>5

\* An override file is loaded after one that can be parsed.
LEMMA LoadVersionOverride ==
  ASSUME Disk, NEW g, Good(g), NEW s \in Sources, disk[s].conf \in Versions, Override(s) # "none"
  PROVE  Loaded(g, LoadOverride(LoadConf(g, s, disk[s].conf), s, Override(s)), s)
<1> DEFINE y == LoadConf(g, s, disk[s].conf)
           v == disk[s].conf
           r == LoadOverride(y, s, Override(s))
<1>1. /\ Sound(y) /\ y.watch = g.watch /\ Says(y.file, y.class, s, v, "none")
      /\ \A t \in Sources \ {s} : Kept(g, y, t)
      /\ \A u \in Sources : u <= s /\ Eager(g.file, g.class, g.reg, u) => Eager(y.file, y.class, y.reg, u)
  BY LoadVersion
<1>2. v # "none" /\ v # "bad" /\ v \in Versions
  BY ConfigAssumption
<1>3. Override(s) \in {"bad", "ok"}
  BY OverrideIs
<1>4. Has(y.file, s) /\ ~y.class[y.file[s]].deleted /\ y.class[y.file[s]].conf = v
  BY <1>1 DEF Says
<1> HIDE DEF y
<1>5. CASE Override(s) = "bad"
  <2>1. r = [y EXCEPT !.file[s] = NoJob, !.class[y.file[s]].over = "bad"]
    BY <1>4, <1>5 DEF LoadOverride, Has
  <2> HIDE DEF r
  <2>2. /\ Sound(r) /\ r.watch = y.watch /\ r.file[s] = NoJob
        /\ \A t \in Sources \ {s} : Kept(y, r, t)
    BY <1>1, <1>4, <2>1, OrphanMade
  <2>3. Fresh(r.file, r.class, s)
    BY <1>2, <1>5, <2>2, FreshIs
  <2>4. \A t \in Sources \ {s} : Kept(g, r, t)
    BY <1>1, <2>2, KeptTwice
  <2>5. ~Valid
    <3>1. conf_get_best_override(s) \in Sources /\ disk[conf_get_best_override(s)].over = "bad"
      BY <1>5, OverrideIs, ConfigAssumption DEF Sources
    <3> QED BY <3>1 DEF Valid
  <2> QED BY <1>1, <2>2, <2>3, <2>4, <2>5 DEF Loaded, y, r
<1>6. CASE Override(s) = "ok"
  <2>1. r = job_class_consider([y EXCEPT !.class[y.file[s]].over = "ok"], y.file[s])
    BY <1>4, <1>6 DEF LoadOverride, Has
  <2> HIDE DEF r
  <2>2. /\ Sound(r) /\ r.watch = y.watch /\ Says(r.file, r.class, s, v, "ok")
        /\ \A t \in Sources \ {s} : Kept(y, r, t)
        /\ \A u \in Sources : Eager(y.file, y.class, y.reg, u) => Eager(r.file, r.class, r.reg, u)
    BY <1>1, <1>4, <2>1, OverrideRead
  <2>3. Fresh(r.file, r.class, s)
    BY <1>2, <1>6, <2>2, FreshIs
  <2>4. \A t \in Sources \ {s} : Kept(g, r, t)
    BY <1>1, <2>2, KeptTwice
  <2>5. \A u \in Sources : NotBefore(s, u) => u <= s
    BY <1>2 DEF NotBefore
  <2> QED BY <1>1, <2>2, <2>3, <2>4, <2>5 DEF Loaded, y, r
<1> QED BY <1>3, <1>5, <1>6

\* conf_load_path_with_override makes the ConfFile of s what the files say, and
\* leaves the others alone.
LEMMA LoadIs ==
  ASSUME Disk, NEW g, Good(g), NEW s \in Sources
  PROVE  LET r == conf_load_path_with_override(g, s) IN Loaded(g, r, s) /\ Good(r)
<1> DEFINE y == LoadConf(g, s, disk[s].conf)
           b == conf_get_best_override(s)
           z == IF disk[s].conf # "none" /\ b # 0 THEN LoadOverride(y, s, disk[b].over) ELSE y
           r == conf_load_path_with_override(g, s)
<1>1. r = Swept(z)
  BY DEF conf_load_path_with_override
<1>2. disk[s].conf \in {"none", "bad"} \cup Versions
  BY DEF Disk
<1>3. Loaded(g, z, s)
  <2>1. CASE disk[s].conf # "none" /\ b # 0
    <3>1. z = LoadOverride(y, s, Override(s)) /\ Override(s) # "none"
      BY <2>1, OverrideIs
    <3>2. Loaded(g, LoadOverride(y, s, Override(s)), s)
      BY <1>2, <2>1, <3>1, LoadBadOverride, LoadVersionOverride
    <3> QED BY <3>1, <3>2
  <2>2. CASE disk[s].conf = "none"
    <3>1. z = y
      BY <2>2
    <3>2. /\ Good(y) /\ y.watch = g.watch /\ y.file[s] = NoFile
          /\ \A t \in Sources \ {s} : Kept(g, y, t)
          /\ \A u \in Sources \ {s} : Eager(g.file, g.class, g.reg, u) => Eager(y.file, y.class, y.reg, u)
      BY <2>2, LoadNothing
    <3> HIDE DEF y, z
    <3>3. Fresh(y.file, y.class, s)
      BY <2>2, <3>2, FreshIs
    <3>4. Sound(y)
      BY <3>2, GoodSound
    <3>5. \A u \in Sources : NotBefore(s, u) => u # s
      BY <2>2 DEF NotBefore
    <3> QED BY <3>1, <3>2, <3>3, <3>4, <3>5 DEF Loaded
  <2>3. CASE disk[s].conf # "none" /\ b = 0
    <3>1. z = y /\ Override(s) = "none"
      BY <2>3, OverrideIs
    <3>2. CASE disk[s].conf = "bad"
      <4>1. Good(y) /\ y.watch = g.watch /\ y.file[s] = NoJob /\ \A t \in Sources \ {s} : Kept(g, y, t)
        BY <3>2, LoadNothing
      <4> HIDE DEF y, z
      <4>2. Fresh(y.file, y.class, s)
        BY <3>1, <3>2, <4>1, FreshIs
      <4>3. Sound(y) /\ ~Valid
        BY <3>2, <4>1, GoodSound DEF Valid
      <4> QED BY <3>1, <4>1, <4>2, <4>3 DEF Loaded
    <3>3. CASE disk[s].conf \in Versions
      <4>1. /\ Sound(y) /\ y.watch = g.watch /\ Says(y.file, y.class, s, disk[s].conf, "none")
            /\ \A t \in Sources \ {s} : Kept(g, y, t)
            /\ \A u \in Sources : u <= s /\ Eager(g.file, g.class, g.reg, u) => Eager(y.file, y.class, y.reg, u)
        BY <3>3, LoadVersion
      <4> HIDE DEF y, z
      <4>2. Fresh(y.file, y.class, s)
        BY <3>1, <3>3, <4>1, FreshIs
      <4>3. \A u \in Sources : NotBefore(s, u) => u <= s
        BY <2>3 DEF NotBefore
      <4> QED BY <3>1, <4>1, <4>2, <4>3 DEF Loaded
    <3> QED BY <1>2, <2>3, <3>2, <3>3
  <2> QED BY <2>1, <2>2, <2>3
<1> HIDE DEF z, r
<1>4. /\ Good(r) /\ r.watch = z.watch /\ r.file = z.file
      /\ \A t \in Sources : Kept(z, r, t)
      /\ \A u \in Sources : Eager(z.file, z.class, z.reg, u) => Eager(r.file, r.class, r.reg, u)
  <2>1. Sound(z)
    BY <1>3 DEF Loaded
  <2> QED BY <1>1, <2>1, SweptIs
<1>5. Fresh(r.file, r.class, s)
  BY <1>3, <1>4, FreshKept DEF Loaded
<1>6. \A t \in Sources \ {s} : Kept(g, r, t)
  BY <1>3, <1>4, KeptTwice DEF Loaded
<1>7. Sound(r)
  BY <1>4, GoodSound
<1> QED BY <1>3, <1>4, <1>5, <1>6, <1>7 DEF Loaded, r

-----------------------------------------------------------------------------
(* Loading many files                                                      *)

\* The class of u has its event, or has been overtaken by an earlier source, or is
\* gone with its file.
Held(g, u) ==
  \/ Eager(g.file, g.class, g.reg, u)
  \/ \E t \in Sources : t < u /\ Has(g.file, t) /\ disk[t].conf # "none"
  \/ g.file[u] = NoFile /\ disk[u].conf = "none"

\* What no number of loads undoes.
Through(g, r) ==
  /\ Good(r)
  /\ \A t \in Sources : g.watch[t] => r.watch[t]
  /\ \A t \in Sources : Fresh(g.file, g.class, t) => Fresh(r.file, r.class, t)
  /\ Valid => \A u \in Sources : Held(g, u) => Held(r, u)

\* Nothing is loaded.
LEMMA ThroughSelf ==
  ASSUME NEW g, Good(g)
  PROVE  Through(g, g)
BY DEF Through

\* One load follows the other.
LEMMA ThroughTwice ==
  ASSUME NEW x, NEW y, NEW z, Through(x, y), Through(y, z)
  PROVE  Through(x, z)
BY DEF Through

\* When no file is invalid, a file that is loaded has a class.
LEMMA FreshHas ==
  ASSUME Disk, Valid, NEW f, NEW cl, NEW s \in Sources, Fresh(f, cl, s), disk[s].conf # "none"
  PROVE  Has(f, s)
<1>1. disk[s].conf # "bad"
  BY DEF Valid
<1>2. Override(s) # "bad"
  <2>1. conf_get_best_override(s) # 0 => conf_get_best_override(s) \in Sources
    BY OverrideIs, ConfigAssumption DEF Sources
  <2> QED BY <2>1, OverrideIs DEF Valid
<1> QED BY <1>1, <1>2 DEF Fresh

\* The files of one source are loaded.
LEMMA LoadGoes ==
  ASSUME Disk, NEW g, Good(g), NEW s \in Sources
  PROVE  LET r == conf_load_path_with_override(g, s)
         IN  /\ Through(g, r) /\ r.watch = g.watch /\ Fresh(r.file, r.class, s)
             /\ \A t \in Sources \ {s} : Kept(g, r, t)
<1> DEFINE r == conf_load_path_with_override(g, s)
<1>1. Loaded(g, r, s) /\ Good(r)
  BY LoadIs
<1> HIDE DEF r
<1>2. /\ r.watch = g.watch /\ Fresh(r.file, r.class, s)
      /\ \A t \in Sources \ {s} : Kept(g, r, t)
      /\ \A u \in Sources : Valid /\ NotBefore(s, u) /\ Eager(g.file, g.class, g.reg, u)
                            => Eager(r.file, r.class, r.reg, u)
  BY <1>1 DEF Loaded
<1>3. ASSUME NEW t \in Sources, Fresh(g.file, g.class, t) PROVE Fresh(r.file, r.class, t)
  <2>1. CASE t = s
    BY <1>2, <2>1
  <2>2. CASE t # s
    <3>1. Kept(g, r, t)
      BY <1>2, <2>2
    <3> QED BY <1>3, <3>1, FreshKept
  <2> QED BY <2>1, <2>2
<1>4. ASSUME Valid, NEW u \in Sources, Held(g, u) PROVE Held(r, u)
  <2>1. CASE \E t \in Sources : t < u /\ Has(g.file, t) /\ disk[t].conf # "none"
    <3>1. PICK t \in Sources : t < u /\ Has(g.file, t) /\ disk[t].conf # "none"
      BY <2>1
    <3>2. Has(r.file, t)
      <4>1. CASE t = s
        BY <1>2, <1>4, <3>1, <4>1, FreshHas
      <4>2. CASE t # s
        BY <1>2, <3>1, <4>2 DEF Kept, Keeps, Has
      <4> QED BY <4>1, <4>2
    <3> QED BY <3>1, <3>2 DEF Held
  <2>2. CASE g.file[u] = NoFile /\ disk[u].conf = "none"
    <3>1. Fresh(g.file, g.class, u)
      BY <2>2, FreshIs
    <3>2. r.file[u] = NoFile
      BY <1>3, <2>2, <3>1, FreshThere
    <3> QED BY <2>2, <3>2 DEF Held
  <2>3. CASE Eager(g.file, g.class, g.reg, u)
    <3>1. CASE NotBefore(s, u)
      BY <1>2, <1>4, <2>3, <3>1 DEF Held
    <3>2. CASE disk[s].conf = "none" /\ u = s
      BY <1>2, <3>2, FreshThere DEF Held
    <3>3. CASE disk[s].conf # "none" /\ ~(u <= s)
      <4>1. s < u
        BY <3>3, ConfigAssumption DEF Sources
      <4>2. Has(r.file, s)
        BY <1>2, <1>4, <3>3, FreshHas
      <4> QED BY <3>3, <4>1, <4>2 DEF Held
    <3> QED BY <3>1, <3>2, <3>3 DEF NotBefore
  <2> QED BY <1>4, <2>1, <2>2, <2>3 DEF Held
<1> QED BY <1>1, <1>2, <1>3, <1>4 DEF Through, r

\* A ConfFile whose file is gone is taken out.
LEMMA DropGoes ==
  ASSUME Disk, NEW g, Good(g), NEW s \in Sources
  PROVE  LET r == DropUnseen(g, s)
         IN  Through(g, r) /\ (disk[s].conf = "none" => Fresh(r.file, r.class, s))
<1> DEFINE r == DropUnseen(g, s)
<1>1. CASE disk[s].conf # "none"
  BY <1>1, ThroughSelf DEF DropUnseen
<1>2. CASE disk[s].conf = "none"
  <2>1. r = conf_file_destroy([g EXCEPT !.file[s] = NoFile], g.file[s])
    BY <1>2 DEF DropUnseen
  <2> HIDE DEF r
  <2>2. /\ Good(r) /\ r.watch = g.watch /\ r.file[s] = NoFile
        /\ \A t \in Sources \ {s} : Kept(g, r, t)
        /\ \A u \in Sources \ {s} : Eager(g.file, g.class, g.reg, u) => Eager(r.file, r.class, r.reg, u)
    BY <2>1, DropIs
  <2>3. Fresh(r.file, r.class, s)
    BY <1>2, <2>2, FreshIs
  <2>4. ASSUME NEW t \in Sources, Fresh(g.file, g.class, t) PROVE Fresh(r.file, r.class, t)
    <3>1. CASE t = s
      BY <2>3, <3>1
    <3>2. CASE t # s
      <4>1. Kept(g, r, t)
        BY <2>2, <3>2
      <4> QED BY <2>4, <4>1, FreshKept
    <3> QED BY <3>1, <3>2
  <2>5. ASSUME NEW u \in Sources, Held(g, u) PROVE Held(r, u)
    <3>1. CASE u = s
      BY <1>2, <2>2, <3>1 DEF Held
    <3>2. CASE u # s
      BY <1>2, <2>2, <2>5, <3>2 DEF Held, Kept, Keeps, Has
    <3> QED BY <3>1, <3>2
  <2> QED BY <2>2, <2>3, <2>4, <2>5 DEF Through, r
<1> QED BY <1>1, <1>2

\* The loop of ReloadAll has come to source n.
Reloaded(g, r, n) ==
  /\ Through(g, r) /\ r.watch = g.watch
  /\ \A t \in Sources : g.file[t] = NoFile => r.file[t] = NoFile
  /\ \A t \in Sources : t <= n /\ g.file[t] # NoFile => Fresh(r.file, r.class, t)
  /\ \A t \in Sources : n < t => r.file[t] = g.file[t]

\* ReloadAll makes every ConfFile there is what the files say.
LEMMA ReloadAllIs ==
  ASSUME Disk, NEW g, Good(g)
  PROVE  Reloaded(g, ReloadAll(g), NSources)
<1>0. NSources \in Nat /\ Sources = 1..NSources
  BY ConfigAssumption DEF Sources
<1>1. PICK a : /\ a[0] = g /\ a[NSources] = ReloadAll(g)
               /\ \A s \in Sources : a[s] = LoadAgain(a[s - 1], s)
  BY ReloadAllLoop
<1> DEFINE T == {n \in 0..NSources : Reloaded(g, a[n], n)}
<1>2. 0 \in T
  <2>1. Through(g, g)
    BY ThroughSelf
  <2>2. Reloaded(g, g, 0)
    BY <1>0, <2>1 DEF Reloaded
  <2> QED BY <1>0, <1>1, <2>2
<1>3. ASSUME NEW s \in 1..NSources, s - 1 \in T PROVE s \in T
  <2> DEFINE x == a[s - 1]
             r == a[s]
  <2>1. Reloaded(g, x, s - 1) /\ s \in Sources /\ s \in 0..NSources
    BY <1>0, <1>3
  <2>2. r = LoadAgain(x, s)
    BY <1>0, <1>1
  <2>3. Good(x) /\ x.file[s] = g.file[s]
    BY <1>0, <2>1 DEF Reloaded, Through
  <2> HIDE DEF x, r, T
  <2>4. CASE g.file[s] = NoFile
    <3>1. r = x
      BY <2>2, <2>3, <2>4 DEF LoadAgain
    <3>2. \A t \in Sources : /\ t <= s /\ g.file[t] # NoFile => t <= s - 1
                             /\ s < t => s - 1 < t
      BY <1>0, <2>4
    <3>3. Reloaded(g, r, s)
      BY <2>1, <3>1, <3>2 DEF Reloaded
    <3> QED BY <2>1, <3>3 DEF T, r
  <2>5. CASE g.file[s] # NoFile
    <3>1. r = conf_load_path_with_override(x, s)
      BY <2>2, <2>3, <2>5 DEF LoadAgain
    <3>2. /\ Through(x, r) /\ r.watch = x.watch /\ Fresh(r.file, r.class, s)
          /\ \A t \in Sources \ {s} : Kept(x, r, t)
      BY <2>1, <2>3, <3>1, LoadGoes
    <3>3. /\ Through(g, x) /\ x.watch = g.watch
          /\ \A t \in Sources : g.file[t] = NoFile => x.file[t] = NoFile
          /\ \A t \in Sources : t <= s - 1 /\ g.file[t] # NoFile => Fresh(x.file, x.class, t)
          /\ \A t \in Sources : s - 1 < t => x.file[t] = g.file[t]
      BY <2>1 DEF Reloaded
    <3>4. Through(g, r)
      BY <3>2, <3>3, ThroughTwice
    <3>5. \A t \in Sources \ {s} : r.file[t] = x.file[t]
      BY <3>2 DEF Kept, Keeps
    <3>6. \A t \in Sources : t # s /\ t <= s => t <= s - 1
      BY <1>0
    <3>7. \A t \in Sources : s < t => s - 1 < t /\ t # s
      BY <1>0
    <3>8. ASSUME NEW t \in Sources, t <= s, g.file[t] # NoFile PROVE Fresh(r.file, r.class, t)
      <4>1. CASE t = s
        BY <3>2, <4>1
      <4>2. CASE t # s
        <5>1. Fresh(x.file, x.class, t)
          BY <3>3, <3>6, <3>8, <4>2
        <5> QED BY <3>2, <5>1 DEF Through
      <4> QED BY <4>1, <4>2
    <3>9. \A t \in Sources : g.file[t] = NoFile => r.file[t] = NoFile
      BY <2>5, <3>3, <3>5
    <3>10. \A t \in Sources : s < t => r.file[t] = g.file[t]
      BY <3>3, <3>5, <3>7
    <3>11. Reloaded(g, r, s)
      BY <3>2, <3>3, <3>4, <3>8, <3>9, <3>10 DEF Reloaded
    <3> QED BY <2>1, <3>11 DEF T, r
  <2> QED BY <2>4, <2>5
<1> HIDE DEF T
<1>4. NSources \in T
  BY <1>0, <1>2, <1>3, UpTo
<1> QED BY <1>1, <1>4 DEF T

\* A directory is watched.
LEMMA WatchGoes ==
  ASSUME NEW g, Good(g), NEW s \in Sources
  PROVE  LET r == [g EXCEPT !.watch[s] = TRUE]
         IN  Through(g, r) /\ r.file = g.file /\ r.class = g.class
<1> DEFINE r == [g EXCEPT !.watch[s] = TRUE]
<1>1. /\ r \in Daemon /\ (r.fault <=> g.fault) /\ r.file = g.file /\ r.class = g.class /\ r.reg = g.reg
      /\ \A t \in Sources : g.watch[t] => r.watch[t]
  BY DEF Good, Daemon
<1> HIDE DEF r
<1>2. Good(r)
  BY <1>1 DEF Good
<1> QED BY <1>1, <1>2 DEF Through, Held, r

\* The files of a directory are read.
LEMMA WalkGoes ==
  ASSUME Disk, NEW g, Good(g), NEW s \in Sources
  PROVE  LET r == Walk(g, s)
         IN  Through(g, r) /\ (disk[s].conf # "none" => Fresh(r.file, r.class, s))
<1>1. CASE disk[s].conf = "none"
  BY <1>1, ThroughSelf DEF Walk
<1>2. CASE disk[s].conf # "none"
  BY <1>2, LoadGoes DEF Walk
<1> QED BY <1>1, <1>2

\* A source is loaded again.
LEMMA SourceGoes ==
  ASSUME Disk, NEW g, Good(g), NEW s \in Sources, ~dir[s] => disk[s].conf = "none"
  PROVE  LET r == conf_source_reload(g, s)
         IN  Through(g, r) /\ Fresh(r.file, r.class, s)
<1> DEFINE y == conf_source_reload_dir(g, s)
           r == conf_source_reload(g, s)
           w == Walk(g, s)
<1>1. Through(g, w) /\ (disk[s].conf # "none" => Fresh(w.file, w.class, s))
  BY WalkGoes
<1>2. Good(w)
  BY <1>1 DEF Through
<1> HIDE DEF w
<1>3. Through(g, y) /\ (disk[s].conf # "none" => Fresh(y.file, y.class, s))
  <2>1. CASE g.watch[s]
    BY <1>1, <2>1 DEF conf_source_reload_dir, w
  <2>2. CASE ~g.watch[s] /\ ~dir[s]
    BY <2>2, ThroughSelf DEF conf_source_reload_dir
  <2>3. CASE ~g.watch[s] /\ dir[s] /\ disk[s].over = "none"
    <3>1. y = [w EXCEPT !.watch[s] = TRUE]
      BY <2>3 DEF conf_source_reload_dir, w
    <3> HIDE DEF y
    <3>2. Through(w, y) /\ y.file = w.file /\ y.class = w.class
      BY <1>2, <3>1, WatchGoes
    <3>3. Through(g, y)
      BY <1>1, <3>2, ThroughTwice
    <3> QED BY <1>1, <3>2, <3>3
  <2>4. CASE ~g.watch[s] /\ dir[s] /\ disk[s].over # "none"
    <3> DEFINE z == ReloadAll(w)
    <3>1. y = [z EXCEPT !.watch[s] = TRUE]
      BY <2>4 DEF conf_source_reload_dir, w
    <3>2. Through(w, z)
      BY <1>2, ReloadAllIs DEF Reloaded
    <3>3. Good(z)
      BY <3>2 DEF Through
    <3> HIDE DEF y, z
    <3>4. Through(z, y)
      BY <3>1, <3>3, WatchGoes
    <3>5. Through(w, y)
      BY <3>2, <3>4, ThroughTwice
    <3>6. Through(g, y)
      BY <1>1, <3>5, ThroughTwice
    <3>7. disk[s].conf # "none" => Fresh(y.file, y.class, s)
      BY <1>1, <3>5 DEF Through
    <3> QED BY <3>6, <3>7
  <2> QED BY <2>1, <2>2, <2>3, <2>4
<1>4. r = DropUnseen(y, s)
  BY DEF conf_source_reload
<1> HIDE DEF y, r
<1>5. Good(y)
  BY <1>3 DEF Through
<1>6. Through(y, r) /\ (disk[s].conf = "none" => Fresh(r.file, r.class, s))
  BY <1>4, <1>5, DropGoes
<1>7. disk[s].conf # "none" => Fresh(r.file, r.class, s)
  BY <1>3, <1>6 DEF Through
<1>8. Through(g, r)
  BY <1>3, <1>6, ThroughTwice
<1> QED BY <1>6, <1>7, <1>8 DEF r

\* conf_reload makes every ConfFile what the files say.
LEMMA ReloadGoes ==
  ASSUME Disk, NEW g, Good(g), \A s \in Sources : ~dir[s] => disk[s].conf = "none"
  PROVE  LET r == conf_reload(g)
         IN  Through(g, r) /\ \A t \in Sources : Fresh(r.file, r.class, t)
<1>0. NSources \in Nat /\ Sources = 1..NSources
  BY ConfigAssumption DEF Sources
<1>1. PICK a : /\ a[0] = g /\ a[NSources] = conf_reload(g)
               /\ \A s \in Sources : a[s] = conf_source_reload(a[s - 1], s)
  BY ReloadLoop
<1> DEFINE Upto(r, n) == Through(g, r) /\ \A t \in 1..n : Fresh(r.file, r.class, t)
           T == {n \in 0..NSources : Upto(a[n], n)}
<1>2. 0 \in T
  <2>1. Through(g, g)
    BY ThroughSelf
  <2>2. Upto(g, 0)
    BY <1>0, <2>1
  <2> HIDE DEF Upto
  <2> QED BY <1>0, <1>1, <2>2
<1>3. ASSUME NEW s \in 1..NSources, s - 1 \in T PROVE s \in T
  <2> DEFINE x == a[s - 1]
             r == a[s]
  <2>1. Upto(x, s - 1) /\ s \in Sources /\ s \in 0..NSources
    BY <1>0, <1>3
  <2>2. r = conf_source_reload(x, s)
    BY <1>0, <1>1
  <2>3. Through(g, x) /\ \A t \in 1..s - 1 : Fresh(x.file, x.class, t)
    BY <2>1
  <2>4. Good(x)
    BY <2>3 DEF Through
  <2> HIDE DEF x, r, T
  <2>5. Through(x, r) /\ Fresh(r.file, r.class, s)
    BY <2>1, <2>2, <2>4, SourceGoes
  <2>6. Through(g, r)
    BY <2>3, <2>5, ThroughTwice
  <2>7. ASSUME NEW t \in 1..s PROVE Fresh(r.file, r.class, t)
    <3>1. CASE t = s
      BY <2>5, <3>1
    <3>2. CASE t # s
      <4>1. t \in 1..s - 1 /\ t \in Sources
        BY <1>0, <3>2
      <4> QED BY <2>3, <2>5, <4>1 DEF Through
    <3> QED BY <3>1, <3>2
  <2>8. Upto(r, s)
    BY <2>6, <2>7
  <2> HIDE DEF Upto
  <2> QED BY <2>1, <2>8 DEF T, r
<1> HIDE DEF T, Upto
<1>4. NSources \in T
  BY <1>0, <1>2, <1>3, UpTo
<1> QED BY <1>0, <1>1, <1>4 DEF T, Upto

-----------------------------------------------------------------------------
(* Instances, and the re-exec                                              *)

\* The registered class runs, or is about to.
LEMMA RunsGood ==
  ASSUME NEW g, Good(g), NEW r \in Daemon, ~r.fault, r.file = g.file, r.reg = g.reg,
         g.reg # NoJob, ButFor(g.reg, r.class, g.class),
         LET a == g.class[g.reg]
             b == r.class[g.reg]
         IN  /\ (b.live <=> a.live) /\ (b.deleted <=> a.deleted) /\ b.over = a.over /\ b.conf = a.conf
             /\ b.instances >= a.instances
  PROVE  Good(r) /\ \A t \in Sources : Kept(g, r, t)
<1> DEFINE f == g.file
           cl == g.class
           cl2 == r.class
           c == g.reg
<1>1. f \in FileTable /\ cl \in ClassTable /\ cl2 \in ClassTable /\ c \in Classes
      /\ Linked(f, cl, c) /\ Best(f, cl, c) /\ Tidy(f, cl, c)
  <2>1. c \in 0..MaxClasses
    BY PartTypes DEF Good
  <2> QED BY <2>1, PartTypes, ConfigAssumption DEF Good, Classes, NoJob
<1>2. \A d \in Classes : cl[d].instances \in Nat /\ cl2[d].instances \in Nat
  BY <1>1, ConfigAssumption DEF ClassTable, ClassRecord
<1>3. /\ \A d \in Classes \ {c} : cl2[d] = cl[d]
      /\ (cl2[c].live <=> cl[c].live) /\ (cl2[c].deleted <=> cl[c].deleted)
      /\ cl2[c].over = cl[c].over /\ cl2[c].conf = cl[c].conf /\ cl2[c].instances >= cl[c].instances
      /\ c # NoJob
  BY DEF ButFor
<1>4. \A t \in Sources : Has(f, t) => f[t] \in Classes
  BY <1>1, SelectedClass
<1>5. r.file = f /\ r.reg = c /\ r.class = cl2
  OBVIOUS
<1> HIDE DEF f, cl, cl2, c
<1>6. Linked(f, cl2, c)
  BY <1>1, <1>3, <1>4 DEF Linked
<1>7. Best(f, cl2, c)
  BY <1>1, <1>2, <1>3 DEF Best
<1>8. Tidy(f, cl2, c)
  BY <1>1, <1>2, <1>3 DEF Tidy
<1>9. \A t \in Sources : Keeps(f, cl, f, cl2, t)
  BY <1>3, <1>4 DEF Keeps
<1> QED BY <1>5, <1>6, <1>7, <1>8, <1>9 DEF Good, Kept, f, cl

\* An instance of the registered class has stopped.
LEMMA StopGood ==
  ASSUME NEW g, Good(g), NEW c \in Classes, g.class[c].instances > 0,
         \A s \in Sources : Has(g.file, s) => ~g.class[g.file[s]].deleted
  PROVE  LET x == [g EXCEPT !.class[c].instances = @ - 1]
             r == job_class_reconsider(x, c)
             y == IF r.g.class[c].deleted /\ r.unused THEN Freed(r.g, c) ELSE Swept(r.g)
         IN  Good(y) /\ y.watch = g.watch /\ \A t \in Sources : Kept(g, y, t)
<1> DEFINE f == g.file
           cl == g.class
           cl2 == [cl EXCEPT ![c].instances = @ - 1]
           x == [g EXCEPT !.class[c].instances = @ - 1]
           r == job_class_reconsider(x, c)
           y == IF r.g.class[c].deleted /\ r.unused THEN Freed(r.g, c) ELSE Swept(r.g)
           sel == Selected(f)
<1>0. /\ g \in Daemon /\ ~g.fault /\ f \in FileTable /\ cl \in ClassTable
      /\ Linked(f, cl, g.reg) /\ Best(f, cl, g.reg) /\ Tidy(f, cl, g.reg)
      /\ \A t \in Sources : Has(f, t) => f[t] \in Classes
      /\ NoJob \notin Classes
  BY PartTypes, SelectedClass, ConfigAssumption DEF Good, Classes, NoJob
<1>1. g.reg = c
  BY <1>0 DEF Linked
<1>2. /\ cl2 \in ClassTable /\ \A d \in Classes \ {c} : cl2[d] = cl[d]
      /\ (cl2[c].live <=> cl[c].live) /\ (cl2[c].deleted <=> cl[c].deleted)
      /\ cl2[c].over = cl[c].over /\ cl2[c].conf = cl[c].conf
      /\ cl2[c].instances \in Nat
  <2>1. \A n \in 0..MaxInstances : n > 0 => n - 1 \in 0..MaxInstances
    BY ConfigAssumption
  <2>2. ASSUME NEW a \in ClassRecord, a.instances > 0
        PROVE  LET b == [a EXCEPT !.instances = @ - 1]
               IN  /\ b \in ClassRecord /\ (b.live <=> a.live) /\ (b.deleted <=> a.deleted)
                   /\ b.over = a.over /\ b.conf = a.conf /\ b.instances \in Nat
    BY <2>1, <2>2, ConfigAssumption DEF ClassRecord
  <2>3. cl[c] \in ClassRecord
    BY <1>0 DEF ClassTable
  <2>4. cl2 = [cl EXCEPT ![c] = [cl[c] EXCEPT !.instances = @ - 1]]
    BY <1>0, <2>3 DEF ClassTable
  <2> DEFINE b == [cl[c] EXCEPT !.instances = @ - 1]
  <2>5. /\ b \in ClassRecord /\ (b.live <=> cl[c].live) /\ (b.deleted <=> cl[c].deleted)
        /\ b.over = cl[c].over /\ b.conf = cl[c].conf /\ b.instances \in Nat
    BY <2>2, <2>3
  <2> HIDE DEF b
  <2> QED BY <1>0, <2>4, <2>5 DEF ClassTable, b
<1>3. x = [g EXCEPT !.class = cl2]
  BY <1>0 DEF Daemon
<1> HIDE DEF cl2
<1>4. x \in Daemon /\ ~x.fault /\ x.watch = g.watch /\ x.file = f /\ x.class = cl2 /\ x.reg = c
  <2>1. Is(x, g, f, cl2, c)
    BY <1>0, <1>1, <1>2, <1>3, OtherClasses
  <2> QED BY <2>1 DEF Is
<1>5. sel \in 0..MaxClasses /\ (sel # NoJob => sel \in Classes /\ \E t \in Sources : f[t] = sel /\ Has(f, t))
  BY <1>0, SelectedClass, SelectedIs
<1>6. r = IF c # sel /\ cl2[c].instances = 0 THEN [g |-> [x EXCEPT !.reg = sel], unused |-> TRUE]
          ELSE [g |-> x, unused |-> FALSE]
  BY <1>4, SelectJob DEF job_class_reconsider, Removable
<1>7. /\ \A t \in Sources : Has(f, t) => cl2[f[t]].live
      /\ \A s, t \in Sources : s # t /\ f[s] = f[t] => ~Has(f, s)
      /\ \A d \in Classes : cl2[d].instances > 0 => d = c
      /\ cl2[c].live
      /\ \A t \in Sources : Keeps(f, cl, f, cl2, t)
  BY <1>0, <1>1, <1>2 DEF Linked, Keeps
<1> HIDE DEF f, cl, sel, x
<1>8. CASE c # sel /\ cl2[c].instances = 0
  <2> DEFINE z == [x EXCEPT !.reg = sel]
  <2>1. Is(z, x, f, cl2, sel)
    BY <1>4, <1>5, OtherReg
  <2>2. z \in Daemon /\ ~z.fault /\ z.watch = g.watch /\ z.file = f /\ z.class = cl2 /\ z.reg = sel
    BY <1>4, <2>1 DEF Is
  <2>3. r.g = z /\ (r.unused <=> TRUE)
    BY <1>6, <1>8
  <2>4. y = IF cl2[c].deleted THEN Freed(z, c) ELSE Swept(z)
    BY <2>2, <2>3
  <2> HIDE DEF z, r, y
  <2>5. sel # NoJob => cl2[sel].live
    BY <1>5, <1>7
  <2>6. \A d \in Classes : ~(cl2[d].instances > 0)
    BY <1>7, <1>8
  <2>7. CASE cl2[c].deleted
    <3> DEFINE cl3 == [cl2 EXCEPT ![c] = NoClass]
    <3>1. cl3 \in ClassTable /\ cl3[c] = NoClass /\ \A d \in Classes \ {c} : cl3[d] = cl2[d]
      BY <1>2, NoClassType DEF ClassTable
    <3>2. y = [z EXCEPT !.class = cl3]
      BY <2>2, <2>4, <2>7 DEF Freed, Daemon
    <3> HIDE DEF cl3
    <3>3. y \in Daemon /\ ~y.fault /\ y.watch = g.watch /\ y.file = f /\ y.class = cl3 /\ y.reg = sel
      <4>1. Is(y, z, f, cl3, sel)
        BY <2>2, <3>1, <3>2, OtherClasses
      <4> QED BY <2>2, <4>1 DEF Is
    <3>4. \A t \in Sources : Has(f, t) => f[t] # c
      <4>1. \A t \in Sources : Has(f, t) => ~cl[f[t]].deleted
        BY DEF f, cl
      <4> QED BY <1>2, <2>7, <4>1
    <3>5. Linked(f, cl3, sel)
      BY <1>0, <1>5, <1>7, <1>8, <2>5, <2>6, <3>1, <3>4, NoClassType DEF Linked
    <3>6. Best(f, cl3, sel)
      BY DEF Best, sel
    <3>7. Tidy(f, cl3, sel)
      BY <1>0, <1>1, <1>2, <3>1, NoClassType DEF Tidy
    <3>8. \A t \in Sources : Keeps(f, cl, f, cl3, t)
      BY <1>0, <1>7, <3>1, <3>4 DEF Keeps
    <3> QED BY <3>3, <3>5, <3>6, <3>7, <3>8 DEF Good, Kept, f, cl, y, r, x
  <2>8. CASE ~cl2[c].deleted
    <3>1. Linked(f, cl2, sel)
      BY <1>7, <2>5, <2>6 DEF Linked
    <3>2. Best(f, cl2, sel)
      BY DEF Best, sel
    <3>3. Untidy(f, cl2, sel, NoJob)
      BY <1>0, <1>1, <1>2, <2>8 DEF Untidy, Tidy
    <3>4. Sound(z)
      BY <2>2, <3>1, <3>2, <3>3 DEF Sound
    <3>5. Good(y) /\ y.watch = z.watch /\ \A t \in Sources : Kept(z, y, t)
      BY <2>4, <2>8, <3>4, SweptIs
    <3>6. \A t \in Sources : Kept(g, z, t)
      BY <1>7, <2>2 DEF Kept, f, cl
    <3>7. \A t \in Sources : Kept(g, y, t)
      BY <3>5, <3>6, KeptTwice
    <3> QED BY <2>2, <3>5, <3>7 DEF y, r, x
  <2> QED BY <2>7, <2>8
<1>9. CASE ~(c # sel /\ cl2[c].instances = 0)
  <2>1. r.g = x /\ (r.unused <=> FALSE)
    BY <1>6, <1>9
  <2>2. y = Swept(x)
    BY <2>1
  <2> HIDE DEF r, y
  <2>3. Linked(f, cl2, c)
    BY <1>7 DEF Linked
  <2>4. Best(f, cl2, c)
    BY <1>0, <1>2, <1>9 DEF Best, sel
  <2>5. Untidy(f, cl2, c, NoJob)
    <3>1. ~In(f, c) => c # sel
      BY <1>0, <1>5 DEF In
    <3>2. ~In(f, c) => cl2[c].instances > 0
      BY <1>2, <1>9, <3>1
    <3> QED BY <1>0, <1>1, <1>2, <3>2 DEF Untidy, Tidy
  <2>6. Sound(x)
    BY <1>4, <2>3, <2>4, <2>5 DEF Sound
  <2>7. Good(y) /\ y.watch = x.watch /\ \A t \in Sources : Kept(x, y, t)
    BY <2>2, <2>6, SweptIs
  <2>8. \A t \in Sources : Kept(g, x, t)
    BY <1>4, <1>7 DEF Kept, f, cl
  <2>9. \A t \in Sources : Kept(g, y, t)
    BY <2>7, <2>8, KeptTwice
  <2> QED BY <1>4, <2>7, <2>9 DEF y, r, x
<1> QED BY <1>8, <1>9

\* The first file there is, is found.
LEMMA FileFound ==
  ASSUME NEW g, NEW s \in Sources, g.file[s] # NoFile
  PROVE  /\ conf_file_find(g) \in Sources /\ g.file[conf_file_find(g)] # NoFile
         /\ (\A t \in Sources : t < s => g.file[t] = NoFile) => conf_file_find(g) = s
<1> DEFINE T == {t \in Sources : g.file[t] # NoFile}
<1>1. conf_file_find(g) = Lowest(T)
  BY DEF conf_file_find
<1>2. T \subseteq Nat /\ T # {} /\ s \in T
  BY ConfigAssumption DEF Sources
<1>3. Lowest(T) \in T /\ \A k \in T : Lowest(T) <= k
  <2>1. \E i \in T : \A k \in T : i <= k
    BY <1>2, Least
  <2> HIDE DEF T
  <2> QED BY <2>1 DEF Lowest
<1>4. Lowest(T) \in Sources /\ g.file[Lowest(T)] # NoFile
  BY <1>3
<1>5. Lowest(T) <= s /\ Lowest(T) \in Nat /\ s \in Nat
  BY <1>2, <1>3
<1> HIDE DEF T
<1> QED BY <1>1, <1>4, <1>5

\* What is read back after a re-exec: the registered class, with the first file.
LEMMA RestoredGood ==
  ASSUME NEW g, Good(g)
  PROVE  /\ Good(Restored(g))
         /\ \A u \in Sources : Eager(g.file, g.class, g.reg, u)
                               => LET r == Restored(g) IN Eager(r.file, r.class, r.reg, u)
<1> DEFINE f == g.file
           cl == g.class
           rg == g.reg
           w == conf_file_find(g)
           f2 == [s \in Sources |-> IF f[s] = NoFile THEN NoFile ELSE IF s = w THEN rg ELSE NoJob]
           cl2 == [c \in Classes |-> IF c = rg THEN cl[c] ELSE NoClass]
           r == Restored(g)
<1>0. /\ g \in Daemon /\ ~g.fault /\ f \in FileTable /\ cl \in ClassTable /\ rg \in 0..MaxClasses
      /\ Linked(f, cl, rg) /\ Best(f, cl, rg) /\ Tidy(f, cl, rg)
      /\ rg # NoJob => rg \in Classes
      /\ NoJob \notin Classes /\ NoFile \notin Classes /\ NoFile # NoJob
  BY PartTypes, ConfigAssumption DEF Good, Classes, NoJob, NoFile
<1>1. ~(rg = NoJob /\ \E s \in Sources : f[s] \notin {NoFile, NoJob})
  <2> SUFFICES ASSUME rg = NoJob, NEW s \in Sources, Has(f, s) PROVE FALSE
    BY DEF Has
  <2>1. Selected(f) # NoJob
    BY <1>0, SelectedClass
  <2> QED BY <1>0, <2>1 DEF Best
<1>2. f2 \in FileTable /\ cl2 \in ClassTable
  <2>1. NoFile \in -1..MaxClasses /\ NoJob \in -1..MaxClasses /\ rg \in -1..MaxClasses
    BY <1>0, ConfigAssumption DEF NoFile, NoJob
  <2> QED BY <1>0, <2>1, NoClassType DEF FileTable, ClassTable
<1>3. /\ r.file = f2 /\ r.class = cl2 /\ r.reg = rg /\ ~r.fault
      /\ r = [g EXCEPT !.watch = [s \in Sources |-> FALSE], !.class = cl2, !.file = f2, !.fault = r.fault]
  BY <1>0, <1>1 DEF Restored, Daemon
<1>4. r \in Daemon
  <2>1. r.fault \in BOOLEAN
    BY <1>0, <1>1 DEF Restored, Daemon
  <2>2. ASSUME NEW wn \in [Sources -> BOOLEAN], NEW fn \in FileTable, NEW cn \in ClassTable, NEW b \in BOOLEAN
        PROVE  [g EXCEPT !.watch = wn, !.class = cn, !.file = fn, !.fault = b] \in Daemon
    BY <1>0 DEF Daemon, FileTable, ClassTable
  <2>3. [s \in Sources |-> FALSE] \in [Sources -> BOOLEAN]
    OBVIOUS
  <2> HIDE DEF f2, cl2, r
  <2>4. [g EXCEPT !.watch = [s \in Sources |-> FALSE], !.class = cl2, !.file = f2, !.fault = r.fault] \in Daemon
    BY <1>2, <2>1, <2>2, <2>3
  <2> QED BY <1>3, <2>4
<1>5. \A s \in Sources : /\ f[s] # NoFile => w \in Sources /\ f[w] # NoFile /\ f2[w] = rg
                         /\ f[s] = NoFile => f2[s] = NoFile
                         /\ f2[s] = NoFile \/ f2[s] = NoJob \/ (f2[s] = rg /\ s = w)
  BY FileFound
<1>6. /\ rg # NoJob => cl2[rg] = cl[rg]
      /\ \A c \in Classes : c # rg => cl2[c] = NoClass
  BY <1>0
<1> HIDE DEF f, cl, rg, w, f2, cl2, r
<1>7. Linked(f2, cl2, rg)
  <2>1. \A s \in Sources : Has(f2, s) => f2[s] = rg /\ s = w /\ rg # NoJob
    BY <1>5 DEF Has
  <2>2. rg # NoJob => cl2[rg].live
    BY <1>0, <1>6 DEF Linked
  <2>3. \A c \in Classes : cl2[c].instances > 0 => c = rg
    BY <1>6, NoClassType
  <2>4. \A s, t \in Sources : f2[s] = f2[t] /\ Has(f2, s) => Has(f2, t)
    BY DEF Has
  <2> QED BY <2>1, <2>2, <2>3, <2>4 DEF Linked
<1>8. Best(f2, cl2, rg) /\ Tidy(f2, cl2, rg)
  <2>1. CASE rg = NoJob
    <3>1. \A s \in Sources : ~Has(f2, s)
      BY <1>5, <2>1 DEF Has
    <3>2. Selected(f2) = NoJob
      BY <1>2, <3>1, SelectedIs
    <3> QED BY <1>0, <1>6, <2>1, <3>2, NoClassType DEF Best, Tidy
  <2>2. CASE rg # NoJob /\ \E s \in Sources : f[s] # NoFile
    <3>1. w \in Sources /\ f2[w] = rg /\ Has(f2, w)
      BY <1>0, <1>5, <2>2 DEF Has
    <3>2. \A t \in Sources : t # w => ~Has(f2, t)
      BY <1>5 DEF Has
    <3>3. \A t \in Sources : t < w => t # w
      BY ConfigAssumption DEF Sources
    <3>4. Selected(f2) = rg
      BY <1>2, <3>1, <3>2, <3>3, SelectedFirst
    <3>5. In(f2, rg)
      BY <3>1 DEF In
    <3>6. Best(f2, cl2, rg)
      BY <3>4 DEF Best
    <3>7. Tidy(f2, cl2, rg)
      BY <1>6, <3>5, NoClassType DEF Tidy
    <3> QED BY <3>6, <3>7
  <2>3. CASE rg # NoJob /\ \A s \in Sources : f[s] = NoFile
    <3>1. \A s \in Sources : f2[s] = NoFile /\ ~Has(f2, s) /\ ~Has(f, s)
      BY <1>5, <2>3 DEF Has
    <3>2. Selected(f) = NoJob
      BY <1>0, <3>1, SelectedIs
    <3>3. rg \in Classes /\ ~In(f, rg) /\ ~In(f2, rg)
      BY <1>0, <2>3, <3>1 DEF In
    <3>4. Best(f2, cl2, rg)
      BY <1>0, <1>6, <2>3, <3>2, <3>3 DEF Best
    <3>5. Tidy(f2, cl2, rg)
      <4> SUFFICES ASSUME NEW c \in Classes, cl2[c].live, ~In(f2, c)
                   PROVE  c = rg /\ (cl2[c].over = "bad" \/ (cl2[c].deleted /\ cl2[c].instances > 0))
        BY DEF Tidy
      <4>1. c = rg /\ cl2[c] = cl[c]
        BY <1>6, <2>3, NoClassType
      <4> QED BY <1>0, <3>3, <4>1 DEF Tidy
    <3> QED BY <3>4, <3>5
  <2> QED BY <2>1, <2>2, <2>3
<1>9. Good(r)
  BY <1>3, <1>4, <1>7, <1>8 DEF Good
<1>10. ASSUME NEW u \in Sources, Eager(f, cl, rg, u) PROVE Eager(f2, cl2, rg, u)
  <2>1. f[u] # NoFile /\ rg # NoJob /\ rg \in Classes /\ \A t \in Sources : t < u => f[t] = NoFile
    BY <1>0, <1>10, EagerSelected DEF Eager, Has
  <2>2. w = u
    BY <2>1, FileFound DEF f, w
  <2>3. f2[u] = rg /\ Has(f2, u) /\ \A t \in Sources : t < u => f2[t] = NoFile
    BY <1>0, <1>5, <2>1, <2>2 DEF Has
  <2> QED BY <1>6, <1>10, <2>1, <2>3 DEF Eager
<1> QED BY <1>3, <1>9, <1>10 DEF f, cl, rg, r

-----------------------------------------------------------------------------
(* Notifications                                                           *)

\* The first notification is read.
LEMMA TailIs ==
  ASSUME NEW q \in Seq(Notification), q # << >>
  PROVE  /\ Tail(q) \in Seq(Notification) /\ Head(q) \in Notification /\ Head(q) = q[1]
         /\ Len(q) \in Nat \ {0} /\ Len(Tail(q)) = Len(q) - 1
         /\ \A i \in 1..Len(q) - 1 : Tail(q)[i] = q[i + 1]
BY HeadTailProperties

\* What is mentioned is mentioned by the first notification or by the others.
LEMMA MentionsTail ==
  ASSUME NEW q \in Seq(Notification), q # << >>, NEW ext
  PROVE  Mentions(q, ext) <=> Head(q).ext = ext \/ Mentions(Tail(q), ext)
<1>1. ASSUME Mentions(q, ext), Head(q).ext # ext PROVE Mentions(Tail(q), ext)
  <2>1. PICK i \in 1..Len(q) : q[i].ext = ext
    BY <1>1 DEF Mentions
  <2>2. i - 1 \in 1..Len(q) - 1 /\ (i - 1) + 1 = i
    BY <1>1, <2>1, TailIs
  <2>3. Tail(q)[i - 1] = q[i]
    BY <2>2, TailIs
  <2> QED BY <2>1, <2>2, <2>3, TailIs DEF Mentions
<1>2. ASSUME Mentions(Tail(q), ext) PROVE Mentions(q, ext)
  <2>1. PICK i \in 1..Len(q) - 1 : Tail(q)[i].ext = ext
    BY <1>2, TailIs DEF Mentions
  <2>2. i + 1 \in 1..Len(q) /\ q[i + 1].ext = ext
    BY <2>1, TailIs
  <2> QED BY <2>2 DEF Mentions
<1>3. Head(q).ext = ext => Mentions(q, ext)
  <2>1. 1 \in 1..Len(q) /\ Head(q) = q[1]
    BY TailIs
  <2> QED BY <2>1 DEF Mentions
<1> QED BY <1>1, <1>2, <1>3

\* What is told last stays true; when it is the first notification that tells it
\* last, it is true.
LEMMA TellsTail ==
  ASSUME NEW q \in Seq(Notification), q # << >>, NEW ext, NEW content, TellsRight(q, ext, content)
  PROVE  /\ TellsRight(Tail(q), ext, content)
         /\ Head(q).ext = ext /\ ~Mentions(Tail(q), ext) => (Head(q).kind = "delete" <=> content = "none")
<1>1. ASSUME NEW i \in 1..Len(q) - 1, Tail(q)[i].ext = ext
      PROVE  \E k \in i..Len(q) - 1 : Tail(q)[k].ext = ext /\ (Tail(q)[k].kind = "delete" <=> content = "none")
  <2>1. i + 1 \in 1..Len(q) /\ q[i + 1].ext = ext
    BY <1>1, TailIs
  <2>2. PICK k \in (i + 1)..Len(q) : q[k].ext = ext /\ (q[k].kind = "delete" <=> content = "none")
    BY <2>1 DEF TellsRight
  <2>3. k - 1 \in i..Len(q) - 1 /\ (k - 1) + 1 = k /\ k - 1 \in 1..Len(q) - 1
    BY TailIs
  <2>4. Tail(q)[k - 1] = q[k]
    BY <2>3, TailIs
  <2> QED BY <2>2, <2>3, <2>4
<1>2. TellsRight(Tail(q), ext, content)
  BY <1>1, TailIs DEF TellsRight
<1>3. ASSUME Head(q).ext = ext, ~Mentions(Tail(q), ext) PROVE Head(q).kind = "delete" <=> content = "none"
  <2>1. 1 \in 1..Len(q) /\ Head(q) = q[1]
    BY TailIs
  <2>2. PICK k \in 1..Len(q) : q[k].ext = ext /\ (q[k].kind = "delete" <=> content = "none")
    BY <1>3, <2>1 DEF TellsRight
  <2>3. CASE k = 1
    BY <2>1, <2>2, <2>3
  <2>4. CASE k # 1
    <3>1. k - 1 \in 1..Len(q) - 1 /\ (k - 1) + 1 = k
      BY <2>4, TailIs
    <3>2. Tail(q)[k - 1] = q[k]
      BY <3>1, TailIs
    <3> QED BY <1>3, <2>2, <3>1, <3>2, TailIs DEF Mentions
  <2> QED BY <2>3, <2>4
<1> QED BY <1>2, <1>3

\* A directory that is gone is told of last.
LEMMA DirLastTail ==
  ASSUME NEW q \in Seq(Notification), q # << >>, DirLast(q)
  PROVE  /\ DirLast(Tail(q))
         /\ Head(q).ext = "dir" => Head(q).kind = "delete" /\ Tail(q) = << >>
<1>1. DirLast(Tail(q))
  <2> SUFFICES ASSUME NEW i \in 1..Len(q) - 1, Tail(q)[i].ext = "dir"
               PROVE  i = Len(q) - 1 /\ Tail(q)[i].kind = "delete"
    BY TailIs DEF DirLast
  <2>1. i + 1 \in 1..Len(q) /\ Tail(q)[i] = q[i + 1]
    BY TailIs
  <2>2. i + 1 = Len(q) /\ q[i + 1].kind = "delete"
    BY <2>1 DEF DirLast
  <2> QED BY <2>1, <2>2, TailIs
<1>2. ASSUME Head(q).ext = "dir" PROVE Head(q).kind = "delete" /\ Tail(q) = << >>
  <2>1. 1 \in 1..Len(q) /\ Head(q) = q[1]
    BY TailIs
  <2>2. Len(q) = 1 /\ q[1].kind = "delete"
    BY <1>2, <2>1 DEF DirLast
  <2>3. Len(Tail(q)) = 0 /\ Tail(q) \in Seq(Notification)
    BY <2>2, TailIs
  <2>4. Tail(q) = << >>
    BY <2>3, EmptySeq
  <2> QED BY <2>1, <2>2, <2>4
<1> QED BY <1>1, <1>2

\* A queue stays right when a notification is taken that is not of the directory.
LEMMA RightTail ==
  ASSUME NEW q \in Seq(Notification), q # << >>, NEW w, NEW d, Right(w, q, d), Head(q).ext # "dir"
  PROVE  /\ Right(w, Tail(q), d) /\ (Listens(w, Tail(q)) <=> Listens(w, q))
         /\ \A ext : ext # Head(q).ext => (Mentions(Tail(q), ext) <=> Mentions(q, ext))
         /\ Head(q).ext = "conf" => \/ Mentions(Tail(q), "conf") \/ ~Listens(w, Tail(q))
                                    \/ Head(q).kind = "delete" <=> d.conf = "none"
         /\ Head(q).ext = "override" => \/ Mentions(Tail(q), "override") \/ ~Listens(w, Tail(q))
                                        \/ Head(q).kind = "delete" <=> d.over = "none"
<1>1. Listens(w, Tail(q)) <=> Listens(w, q)
  BY MentionsTail DEF Listens
<1>2. \A ext : ext # Head(q).ext => (Mentions(Tail(q), ext) <=> Mentions(q, ext))
  BY MentionsTail
<1>3. Listens(w, q) => TellsRight(q, "conf", d.conf) /\ TellsRight(q, "override", d.over)
  BY DEF Right
<1>4. DirLast(Tail(q)) /\ (~w => FALSE)
  BY DirLastTail DEF Right
<1>5. Listens(w, q) => TellsRight(Tail(q), "conf", d.conf) /\ TellsRight(Tail(q), "override", d.over)
  BY <1>3, TellsTail
<1>6. Right(w, Tail(q), d)
  BY <1>1, <1>4, <1>5 DEF Right
<1>7. Listens(w, q) /\ Head(q).ext = "conf" => \/ Mentions(Tail(q), "conf")
                                               \/ Head(q).kind = "delete" <=> d.conf = "none"
  BY <1>3, TellsTail
<1>8. Listens(w, q) /\ Head(q).ext = "override" => \/ Mentions(Tail(q), "override")
                                                   \/ Head(q).kind = "delete" <=> d.over = "none"
  BY <1>3, TellsTail
<1> QED BY <1>1, <1>2, <1>6, <1>7, <1>8

\* A notification comes.
LEMMA AppendIs ==
  ASSUME NEW q \in Seq(Notification), NEW n \in Notification
  PROVE  /\ Append(q, n) \in Seq(Notification) /\ Len(q) \in Nat /\ Len(Append(q, n)) = Len(q) + 1
         /\ \A i \in 1..Len(q) : Append(q, n)[i] = q[i]
         /\ Append(q, n)[Len(q) + 1] = n
BY AppendProperties

\* It is mentioned after the others.
LEMMA MentionsAppend ==
  ASSUME NEW q \in Seq(Notification), NEW n \in Notification, NEW ext
  PROVE  Mentions(Append(q, n), ext) <=> Mentions(q, ext) \/ n.ext = ext
<1> DEFINE a == Append(q, n)
<1>1. Len(q) \in Nat /\ Len(a) = Len(q) + 1 /\ (\A i \in 1..Len(q) : a[i] = q[i]) /\ a[Len(q) + 1] = n
  BY AppendIs
<1> HIDE DEF a
<1>2. \A i \in 1..Len(a) : i \in 1..Len(q) \/ i = Len(q) + 1
  BY <1>1
<1>3. Len(q) + 1 \in 1..Len(a) /\ \A i \in 1..Len(q) : i \in 1..Len(a)
  BY <1>1
<1>4. Mentions(a, ext) <=> Mentions(q, ext) \/ n.ext = ext
  BY <1>1, <1>2, <1>3 DEF Mentions
<1> QED BY <1>4 DEF a

\* What it tells is told last.
LEMMA TellsAppend ==
  ASSUME NEW q \in Seq(Notification), NEW n \in Notification, NEW ext, NEW content,
         IF n.ext = ext THEN n.kind = "delete" <=> content = "none" ELSE TellsRight(q, ext, content)
  PROVE  TellsRight(Append(q, n), ext, content)
<1> DEFINE a == Append(q, n)
<1>1. Len(q) \in Nat /\ Len(a) = Len(q) + 1 /\ (\A i \in 1..Len(q) : a[i] = q[i]) /\ a[Len(q) + 1] = n
  BY AppendIs
<1> HIDE DEF a
<1>2. ASSUME NEW i \in 1..Len(a), a[i].ext = ext
      PROVE  \E k \in i..Len(a) : a[k].ext = ext /\ (a[k].kind = "delete" <=> content = "none")
  <2>1. CASE n.ext = ext
    <3>1. Len(a) \in i..Len(a) /\ a[Len(a)] = n
      BY <1>1
    <3> QED BY <2>1, <3>1
  <2>2. CASE n.ext # ext
    <3>1. i \in 1..Len(q) /\ q[i].ext = ext
      BY <1>1, <1>2, <2>2
    <3>2. PICK k \in i..Len(q) : q[k].ext = ext /\ (q[k].kind = "delete" <=> content = "none")
      BY <2>2, <3>1 DEF TellsRight
    <3>3. k \in i..Len(a) /\ a[k] = q[k]
      BY <1>1, <3>1
    <3> QED BY <3>2, <3>3
  <2> QED BY <2>1, <2>2
<1>3. TellsRight(a, ext, content)
  BY <1>2 DEF TellsRight
<1> QED BY <1>3 DEF a

\* A queue stays right when a notification comes that says what has changed.
LEMMA RightAppend ==
  ASSUME NEW q \in Seq(Notification), NEW n \in Notification, NEW w, NEW d, NEW d2,
         Right(w, q, d), Listens(w, q),
         IF n.ext = "conf" THEN n.kind = "delete" <=> d2.conf = "none" ELSE d2.conf = d.conf,
         IF n.ext = "override" THEN n.kind = "delete" <=> d2.over = "none" ELSE d2.over = d.over,
         n.ext = "dir" => n.kind = "delete"
  PROVE  Right(w, Append(q, n), d2)
<1> DEFINE a == Append(q, n)
<1>1. Len(q) \in Nat /\ Len(a) = Len(q) + 1 /\ (\A i \in 1..Len(q) : a[i] = q[i]) /\ a[Len(q) + 1] = n
  BY AppendIs
<1>2. TellsRight(q, "conf", d.conf) /\ TellsRight(q, "override", d.over)
  BY DEF Right
<1>3. TellsRight(a, "conf", d2.conf)
  BY <1>2, TellsAppend
<1>4. TellsRight(a, "override", d2.over)
  BY <1>2, TellsAppend
<1> HIDE DEF a
<1>5. DirLast(a)
  <2> SUFFICES ASSUME NEW i \in 1..Len(a), a[i].ext = "dir" PROVE i = Len(a) /\ a[i].kind = "delete"
    BY DEF DirLast
  <2>1. i = Len(q) + 1
    <3> SUFFICES ASSUME i # Len(q) + 1 PROVE FALSE
      OBVIOUS
    <3>1. i \in 1..Len(q) /\ q[i].ext = "dir"
      BY <1>1
    <3> QED BY <3>1 DEF Listens, Mentions
  <2> QED BY <1>1, <2>1
<1>6. w
  BY DEF Listens
<1> QED BY <1>3, <1>4, <1>5, <1>6 DEF Right, a

-----------------------------------------------------------------------------
(* The steps of the daemon                                                 *)

\* The daemon has changed, the files have not, and each ConfFile is as it was, or
\* is what the files say.
LEMMA DaemonStep ==
  ASSUME ConfigInv, UNCHANGED <<disk, dir, queue, changes>>, Good(h'),
         \A t \in Sources : h.watch[t] => h'.watch[t],
         \/ \A t \in Sources : Fresh(h'.file, h'.class, t)
         \/ h'.watch = h.watch /\ \A t \in Sources : Kept(h, h', t)
  PROVE  ConfigInv'
<1>1. \A t \in Sources : Fresh(h'.file, h'.class, t) => Fresh(h.file, h.class, t)'
  BY DEF Fresh, Override, conf_get_best_override
<1>2. \A t \in Sources : Has(h'.file, t) => ~h'.class[h'.file[t]].deleted
  <2>1. CASE \A t \in Sources : Fresh(h'.file, h'.class, t)
    BY <2>1, FreshThere
  <2>2. CASE \A t \in Sources : Kept(h, h', t)
    BY <2>2 DEF ConfigInv, Kept, Keeps, Has
  <2> QED BY <2>1, <2>2
<1>3. ASSUME NEW s \in Sources PROVE Right(h'.watch[s], queue[s], disk[s])
  <2>1. Right(h.watch[s], queue[s], disk[s])
    BY DEF ConfigInv
  <2> QED BY <2>1 DEF Right, Listens, DirLast, TellsRight, Mentions
<1>4. ASSUME NEW s \in Sources PROVE Present(s)' /\ Follows(s)'
  <2>1. CASE Fresh(h'.file, h'.class, s)
    <3>1. h'.file[s] = NoFile <=> disk[s].conf = "none"
      BY <2>1, FreshThere
    <3> QED BY <1>1, <2>1, <3>1 DEF Present, Follows
  <2>2. CASE h'.watch = h.watch /\ \A t \in Sources : Kept(h, h', t)
    <3>1. Present(s) /\ Follows(s)
      BY DEF ConfigInv
    <3>2. h'.file[s] = h.file[s] /\ (Fresh(h.file, h.class, s) => Fresh(h'.file, h'.class, s))
      BY <2>2, FreshKept DEF Kept, Keeps
    <3> QED BY <1>1, <2>2, <3>1, <3>2 DEF Present, Follows, Overdue
  <2> QED BY <2>1, <2>2
<1> QED BY <1>2, <1>3, <1>4 DEF ConfigInv, Disk

\* SIGHUP, or a request, to load the configuration again.
LEMMA ReloadStep ==
  ASSUME ConfigInv, Reload
  PROVE  ConfigInv'
<1>1. Disk /\ Good(h) /\ \A s \in Sources : ~dir[s] => disk[s].conf = "none"
  BY DEF ConfigInv
<1>2. h' = conf_reload(h) /\ UNCHANGED <<disk, dir, queue, changes>>
  BY DEF Reload
<1>3. Through(h, h') /\ \A t \in Sources : Fresh(h'.file, h'.class, t)
  BY <1>1, <1>2, ReloadGoes
<1>4. Good(h') /\ \A t \in Sources : h.watch[t] => h'.watch[t]
  BY <1>3 DEF Through
<1> QED BY <1>2, <1>3, <1>4, DaemonStep

\* A re-exec.
LEMMA ReexecStep ==
  ASSUME ConfigInv, Reexec
  PROVE  ConfigInv'
<1>1. Disk /\ Good(h) /\ \A s \in Sources : ~dir[s] => disk[s].conf = "none"
  BY DEF ConfigInv
<1>2. h' = conf_reload(Restored(h)) /\ UNCHANGED <<disk, dir, changes>> /\ queue' = [s \in Sources |-> << >>]
  BY DEF Reexec
<1>3. Good(Restored(h))
  BY <1>1, RestoredGood
<1>4. Through(Restored(h), h') /\ \A t \in Sources : Fresh(h'.file, h'.class, t)
  BY <1>1, <1>2, <1>3, ReloadGoes
<1>5. Good(h')
  BY <1>4 DEF Through
<1>6. \A t \in Sources : Fresh(h.file, h.class, t)'
  <2>1. disk' = disk
    BY <1>2
  <2>2. \A t \in Sources : Fresh(h'.file, h'.class, t) => Fresh(h.file, h.class, t)'
    BY <2>1 DEF Fresh, Override, conf_get_best_override
  <2> QED BY <1>4, <2>2
<1>7. \A t \in Sources : Has(h'.file, t) => ~h'.class[h'.file[t]].deleted
  BY <1>4, FreshThere
<1>8. \A s \in Sources : Right(h'.watch[s], queue'[s], disk'[s])
  BY <1>2 DEF Right, DirLast, TellsRight
<1>9. \A t \in Sources : h'.file[t] = NoFile <=> disk[t].conf = "none"
  BY <1>4, FreshThere
<1>10. \A s \in Sources : Present(s)' /\ Follows(s)'
  BY <1>2, <1>6, <1>9 DEF Present, Follows
<1>11. queue' \in [Sources -> Seq(Notification)]
  BY <1>2
<1> QED BY <1>2, <1>5, <1>7, <1>8, <1>10, <1>11 DEF ConfigInv, Disk

\* An event is matched.
LEMMA MatchesStep ==
  ASSUME ConfigInv, Matches
  PROVE  ConfigInv'
<1>1. Good(h) /\ h \in Daemon /\ ~h.fault /\ h.reg # NoJob /\ h.reg \in Classes
  <2>1. Good(h) /\ h \in Daemon /\ ~h.fault /\ h.reg # NoJob
    BY DEF ConfigInv, Matches, Good
  <2> QED BY <2>1, PartTypes, ConfigAssumption DEF Classes, NoJob
<1>2. h' = [h EXCEPT !.class[h.reg].matched = TRUE] /\ UNCHANGED <<disk, dir, queue, changes>>
  BY DEF Matches
<1>3. /\ h' \in Daemon /\ ~h'.fault /\ h'.file = h.file /\ h'.reg = h.reg /\ h'.watch = h.watch
      /\ ButFor(h.reg, h'.class, h.class)
      /\ (h'.class[h.reg].live <=> h.class[h.reg].live) /\ (h'.class[h.reg].deleted <=> h.class[h.reg].deleted)
      /\ h'.class[h.reg].over = h.class[h.reg].over /\ h'.class[h.reg].conf = h.class[h.reg].conf
      /\ h'.class[h.reg].instances = h.class[h.reg].instances
  BY <1>1, <1>2 DEF Daemon, ClassRecord, ButFor
<1>4. h.class[h.reg].instances \in Nat
  BY <1>1, ConfigAssumption DEF Daemon, ClassRecord
<1>5. Good(h') /\ \A t \in Sources : Kept(h, h', t)
  BY <1>1, <1>3, <1>4, RunsGood
<1> QED BY <1>2, <1>3, <1>5, DaemonStep

\* An instance starts.
LEMMA StartsStep ==
  ASSUME ConfigInv, Starts
  PROVE  ConfigInv' /\ h'.reg = h.reg /\ h'.class[h.reg].instances > 0
<1>1. Good(h) /\ h \in Daemon /\ ~h.fault /\ h.reg # NoJob /\ h.reg \in Classes
  <2>1. Good(h) /\ h \in Daemon /\ ~h.fault /\ h.reg # NoJob
    BY DEF ConfigInv, Starts, Good
  <2> QED BY <2>1, PartTypes, ConfigAssumption DEF Classes, NoJob
<1>2. /\ h' = [h EXCEPT !.class[h.reg].instances = @ + 1, !.class[h.reg].matched = FALSE]
      /\ h.class[h.reg].instances < MaxInstances /\ UNCHANGED <<disk, dir, queue, changes>>
  BY DEF Starts
<1> DEFINE a == h.class[h.reg]
           b == [[a EXCEPT !.instances = @ + 1] EXCEPT !.matched = FALSE]
<1>3. a \in ClassRecord /\ a.instances \in Nat
  BY <1>1, ConfigAssumption DEF Daemon, ClassRecord
<1>4. /\ b \in ClassRecord /\ (b.live <=> a.live) /\ (b.deleted <=> a.deleted)
      /\ b.over = a.over /\ b.conf = a.conf /\ b.instances = a.instances + 1
  <2>1. ASSUME NEW x \in ClassRecord, x.instances < MaxInstances
        PROVE  LET y == [[x EXCEPT !.instances = @ + 1] EXCEPT !.matched = FALSE]
               IN  /\ y \in ClassRecord /\ (y.live <=> x.live) /\ (y.deleted <=> x.deleted)
                   /\ y.over = x.over /\ y.conf = x.conf /\ y.instances = x.instances + 1
    <3>1. x.instances + 1 \in 0..MaxInstances
      BY <2>1, ConfigAssumption DEF ClassRecord
    <3> QED BY <3>1 DEF ClassRecord
  <2> QED BY <1>2, <1>3, <2>1
<1>5. h' = [h EXCEPT !.class = [h.class EXCEPT ![h.reg] = b]]
  BY <1>1, <1>2 DEF Daemon
<1> HIDE DEF b
<1>6. /\ h' \in Daemon /\ ~h'.fault /\ h'.file = h.file /\ h'.reg = h.reg /\ h'.watch = h.watch
      /\ ButFor(h.reg, h'.class, h.class) /\ h'.class[h.reg] = b
  BY <1>1, <1>4, <1>5 DEF Daemon, ButFor
<1>7. Good(h') /\ \A t \in Sources : Kept(h, h', t)
  BY <1>1, <1>3, <1>4, <1>6, RunsGood
<1>8. ConfigInv'
  BY <1>2, <1>6, <1>7, DaemonStep
<1> QED BY <1>3, <1>4, <1>6, <1>8

\* An instance stops.
LEMMA StopsStep ==
  ASSUME ConfigInv, NEW c \in Classes, Stops(c)
  PROVE  ConfigInv'
<1>1. Good(h) /\ h.class[c].instances > 0 /\ \A s \in Sources : Has(h.file, s) => ~h.class[h.file[s]].deleted
  BY DEF ConfigInv, Stops
<1>2. UNCHANGED <<disk, dir, queue, changes>>
  BY DEF Stops
<1>3. Good(h') /\ h'.watch = h.watch /\ \A t \in Sources : Kept(h, h', t)
  BY <1>1, StopGood DEF Stops
<1> QED BY <1>2, <1>3, DaemonStep

-----------------------------------------------------------------------------
(* The steps of the disk                                                   *)

\* A file is written or removed.
LEMMA WriteStep ==
  ASSUME ConfigInv, NEW s \in Sources, NEW ext \in {"conf", "override"}, NEW content,
         ext = "conf" => content \in {"none", "bad"} \cup Versions,
         ext = "override" => content \in {"none", "bad", "ok"},
         WriteFile(s, ext, content)
  PROVE  ConfigInv'
<1> DEFINE part == IF ext = "conf" THEN "conf" ELSE "over"
           n == [ext |-> ext, kind |-> IF content = "none" THEN "delete" ELSE "modify"]
           L(t) == Listens(h.watch[t], queue[t])
<1>1. /\ changes < MaxChanges /\ dir[s] /\ UNCHANGED <<dir, h>> /\ changes' = changes + 1
      /\ disk' = [disk EXCEPT ![s][part] = content]
  BY DEF WriteFile
<1>2. L(s) <=> Watching(s)
  BY DEF Watching, Listens, Mentions
<1>3. queue' = IF L(s) THEN [queue EXCEPT ![s] = Append(@, n)] ELSE queue
  <2>1. Told(s, ext, IF content = "none" THEN "delete" ELSE "modify")
    BY DEF WriteFile
  <2> HIDE DEF L
  <2> QED BY <1>2, <2>1 DEF Told
<1>4. n \in Notification /\ n.ext = ext /\ (n.kind = "delete" <=> content = "none")
  BY DEF Notification
<1> HIDE DEF n
<1>5. Disk /\ queue \in [Sources -> Seq(Notification)] /\ \A t \in Sources : Right(h.watch[t], queue[t], disk[t])
  BY DEF ConfigInv
<1>6. /\ Disk' /\ \A t \in Sources \ {s} : disk'[t] = disk[t]
      /\ ext = "conf" => disk'[s].conf = content /\ disk'[s].over = disk[s].over
      /\ ext = "override" => disk'[s].over = content /\ disk'[s].conf = disk[s].conf
  <2>1. CASE ext = "conf"
    BY <1>1, <1>5, <2>1 DEF Disk
  <2>2. CASE ext = "override"
    BY <1>1, <1>5, <2>2 DEF Disk
  <2> QED BY <2>1, <2>2
<1>7. queue' \in [Sources -> Seq(Notification)] /\ \A t \in Sources \ {s} : queue'[t] = queue[t]
  BY <1>3, <1>4, <1>5, AppendIs
<1>8. queue'[s] = IF L(s) THEN Append(queue[s], n) ELSE queue[s]
  BY <1>3, <1>5
<1>9. /\ Listens(h.watch[s], queue'[s]) <=> L(s)
      /\ L(s) => Mentions(queue'[s], ext)
      /\ \A x : Mentions(queue[s], x) => Mentions(queue'[s], x)
  <2>1. CASE L(s)
    BY <1>4, <1>5, <1>8, <2>1, MentionsAppend DEF Listens
  <2>2. CASE ~L(s)
    BY <1>8, <2>2
  <2> QED BY <2>1, <2>2
<1>10. ASSUME NEW t \in Sources PROVE Right(h.watch[t], queue'[t], disk'[t])
  <2>1. CASE t # s
    BY <1>5, <1>6, <1>7, <2>1
  <2>2. CASE t = s /\ L(s)
    <3>1. Right(h.watch[s], Append(queue[s], n), disk'[s])
      BY <1>4, <1>5, <1>6, <2>2, RightAppend
    <3> QED BY <1>8, <2>2, <3>1
  <2>3. CASE t = s /\ ~L(s)
    BY <1>5, <1>8, <2>3 DEF Right
  <2> QED BY <2>1, <2>2, <2>3
<1> HIDE DEF L
<1>11. ASSUME NEW t \in Sources PROVE Present(t)'
  <2>1. Present(t)
    BY DEF ConfigInv
  <2>2. CASE t # s
    BY <1>1, <1>6, <1>7, <2>1, <2>2 DEF Present
  <2>3. CASE t = s /\ ext = "override"
    BY <1>1, <1>6, <1>9, <2>1, <2>3 DEF Present, L
  <2>4. CASE t = s /\ ext = "conf"
    BY <1>1, <1>9, <2>4 DEF Present
  <2> QED BY <2>2, <2>3, <2>4
<1>12. \A t \in Sources : Overdue(t) => Overdue(t)'
  BY <1>1, <1>7, <1>9 DEF Overdue, L
<1>13. ext = "override" => Overdue(s)'
  BY <1>1, <1>9 DEF Overdue
<1>14. s \in Nat /\ \A t \in Sources : t \in Nat /\ 1..t \subseteq Sources /\ (s \in 1..t <=> s <= t)
  BY ConfigAssumption DEF Sources
<1>15. ASSUME NEW t \in Sources PROVE Follows(t)'
  <2>1. Follows(t)
    BY DEF ConfigInv
  <2>2. CASE \E u \in 1..t : Overdue(u)
    <3>1. \E u \in 1..t : Overdue(u)'
      BY <1>12, <1>14, <2>2
    <3> QED BY <3>1 DEF Follows
  <2>3. CASE Mentions(queue[t], "conf")
    BY <1>7, <1>9, <2>3 DEF Follows
  <2>4. CASE Fresh(h.file, h.class, t)
    <3>1. CASE ext = "conf" /\ t = s
      <4>1. CASE L(s)
        BY <1>9, <3>1, <4>1 DEF Follows
      <4>2. CASE ~L(s)
        <5>1. Overdue(s)'
          BY <1>1, <1>9, <4>2 DEF Overdue
        <5> QED BY <1>14, <3>1, <5>1 DEF Follows
      <4> QED BY <4>1, <4>2
    <3>2. CASE ext = "override" /\ s <= t
      <4>1. s \in 1..t /\ Overdue(s)'
        BY <1>13, <1>14, <3>2
      <4> QED BY <4>1 DEF Follows
    <3>3. CASE (ext = "conf" /\ t # s) \/ (ext = "override" /\ ~(s <= t))
      <4>1. disk'[t].conf = disk[t].conf /\ \A u \in 1..t : disk'[u].over = disk[u].over
        BY <1>6, <1>14, <3>3
      <4>2. conf_get_best_override(t)' = conf_get_best_override(t)
        <5>1. {u \in 1..t : disk'[u].over # "none"} = {u \in 1..t : disk[u].over # "none"}
          BY <4>1
        <5> QED BY <5>1 DEF conf_get_best_override
      <4>3. Override(t)' = Override(t)
        <5>1. conf_get_best_override(t) # 0 => conf_get_best_override(t) \in 1..t
          BY <1>5, OverrideIs
        <5> QED BY <4>1, <4>2, <5>1 DEF Override
      <4>4. Fresh(h.file, h.class, t)'
        BY <1>1, <2>4, <4>1, <4>3 DEF Fresh
      <4> QED BY <4>4 DEF Follows
    <3> QED BY <3>1, <3>2, <3>3
  <2> QED BY <2>1, <2>2, <2>3, <2>4 DEF Follows
<1>16. changes' \in 0..MaxChanges
  BY <1>1, ConfigAssumption DEF ConfigInv
<1> QED BY <1>1, <1>6, <1>7, <1>10, <1>11, <1>15, <1>16 DEF ConfigInv

\* An empty directory is removed.
LEMMA RemoveDirStep ==
  ASSUME ConfigInv, NEW s \in Sources, RemoveDir(s)
  PROVE  ConfigInv'
<1> DEFINE n == [ext |-> "dir", kind |-> "delete"]
           L(t) == Listens(h.watch[t], queue[t])
<1>1. /\ changes < MaxChanges /\ UNCHANGED <<disk, h>> /\ changes' = changes + 1
      /\ dir' = [dir EXCEPT ![s] = FALSE] /\ disk[s].conf = "none" /\ disk[s].over = "none"
  BY DEF RemoveDir
<1>2. L(s) <=> Watching(s)
  BY DEF Watching, Listens, Mentions
<1>3. queue' = IF L(s) THEN [queue EXCEPT ![s] = Append(@, n)] ELSE queue
  <2>1. Told(s, "dir", "delete")
    BY DEF RemoveDir
  <2> HIDE DEF L
  <2> QED BY <1>2, <2>1 DEF Told
<1>4. n \in Notification /\ n.ext = "dir" /\ n.kind = "delete"
  BY DEF Notification
<1> HIDE DEF n
<1>5. queue \in [Sources -> Seq(Notification)] /\ \A t \in Sources : Right(h.watch[t], queue[t], disk[t])
  BY DEF ConfigInv
<1>6. queue' \in [Sources -> Seq(Notification)] /\ \A t \in Sources \ {s} : queue'[t] = queue[t]
  BY <1>3, <1>4, <1>5, AppendIs
<1>7. queue'[s] = IF L(s) THEN Append(queue[s], n) ELSE queue[s]
  BY <1>3, <1>5
<1>8. ~Listens(h.watch[s], queue'[s])
  <2>1. CASE L(s)
    BY <1>4, <1>5, <1>7, <2>1, MentionsAppend DEF Listens
  <2>2. CASE ~L(s)
    BY <1>7, <2>2
  <2> QED BY <2>1, <2>2
<1>9. ASSUME NEW t \in Sources PROVE Right(h.watch[t], queue'[t], disk[t])
  <2>1. CASE t # s
    BY <1>5, <1>6, <2>1
  <2>2. CASE t = s /\ L(s)
    <3>1. Right(h.watch[s], Append(queue[s], n), disk[s])
      BY <1>4, <1>5, <2>2, RightAppend
    <3> QED BY <1>7, <2>2, <3>1
  <2>3. CASE t = s /\ ~L(s)
    BY <1>5, <1>7, <2>3
  <2> QED BY <2>1, <2>2, <2>3
<1> HIDE DEF L
<1>10. Overdue(s)' /\ Present(s)'
  BY <1>1, <1>8 DEF Overdue, Present
<1>11. ASSUME NEW t \in Sources \ {s} PROVE Present(t)' /\ (Overdue(t) => Overdue(t)')
  <2>1. Present(t)
    BY DEF ConfigInv
  <2> QED BY <1>1, <1>6, <2>1 DEF Overdue, Present
<1>12. \A t \in Sources : t \in Nat /\ 1..t \subseteq Sources /\ t \in 1..t
  BY ConfigAssumption DEF Sources
<1>13. ASSUME NEW t \in Sources PROVE Follows(t)'
  <2>1. Follows(t)
    BY DEF ConfigInv
  <2>2. Fresh(h.file, h.class, t) => Fresh(h.file, h.class, t)'
    <3>1. disk' = disk /\ h' = h
      BY <1>1
    <3> QED BY <3>1 DEF Fresh, Override, conf_get_best_override
  <2>3. (\E u \in 1..t : Overdue(u)) => \E u \in 1..t : Overdue(u)'
    BY <1>10, <1>11, <1>12
  <2>4. t # s /\ Mentions(queue[t], "conf") => Mentions(queue'[t], "conf")
    BY <1>6
  <2>5. CASE t = s
    BY <1>10, <1>12, <2>5 DEF Follows
  <2>6. CASE t # s
    BY <2>1, <2>2, <2>3, <2>4, <2>6 DEF Follows
  <2> QED BY <2>5, <2>6
<1>14. changes' \in 0..MaxChanges /\ dir' \in [Sources -> BOOLEAN]
  BY <1>1, ConfigAssumption DEF ConfigInv
<1>15. \A t \in Sources : ~dir'[t] => disk'[t].conf = "none" /\ disk'[t].over = "none"
  BY <1>1 DEF ConfigInv
<1> QED BY <1>1, <1>6, <1>9, <1>10, <1>11, <1>13, <1>14, <1>15 DEF ConfigInv, Disk

\* A directory is made.
LEMMA MakeDirStep ==
  ASSUME ConfigInv, NEW s \in Sources, MakeDir(s)
  PROVE  ConfigInv'
<1>1. UNCHANGED <<disk, queue, changes, h>> /\ dir' = [dir EXCEPT ![s] = TRUE]
  BY DEF MakeDir
<1>2. dir' \in [Sources -> BOOLEAN] /\ \A t \in Sources : ~dir'[t] => disk'[t].conf = "none" /\ disk'[t].over = "none"
  BY <1>1 DEF ConfigInv
<1>3. \A t \in Sources : Present(t)' /\ Follows(t)'
  <2>1. disk' = disk /\ h' = h /\ queue' = queue
    BY <1>1
  <2>2. \A t \in Sources : Present(t) /\ Follows(t)
    BY DEF ConfigInv
  <2>3. \A t \in Sources : (Fresh(h.file, h.class, t) => Fresh(h.file, h.class, t)') /\ (Present(t) => Present(t)')
    BY <2>1 DEF Fresh, Override, conf_get_best_override, Present
  <2> QED BY <2>1, <2>2, <2>3 DEF Follows, Overdue
<1> QED BY <1>1, <1>2, <1>3 DEF ConfigInv, Disk

-----------------------------------------------------------------------------
(* Reading a notification                                                  *)

\* The first notification of s, which is not of the directory, is taken.
Takes(s) ==
  /\ queue[s] # << >> /\ Head(queue[s]).ext # "dir" /\ h'.watch = h.watch
  /\ queue' = [queue EXCEPT ![s] = Tail(@)] /\ UNCHANGED <<disk, dir, changes>>

Heard(s, ext) == Mentions(queue'[s], ext) \/ ~Listens(h'.watch[s], queue'[s])

\* What it leaves to be told.
LEMMA TakesIs ==
  ASSUME ConfigInv, NEW s \in Sources, Takes(s)
  PROVE  /\ queue' \in [Sources -> Seq(Notification)]
         /\ \A t \in Sources : Right(h'.watch[t], queue'[t], disk'[t])
         /\ \A t \in Sources : Listens(h'.watch[t], queue'[t]) <=> Listens(h.watch[t], queue[t])
         /\ \A t \in Sources, ext \in {"conf", "override"} :
              t # s \/ Head(queue[s]).ext # ext => (Mentions(queue'[t], ext) <=> Mentions(queue[t], ext))
         /\ LET n == Head(queue[s])
            IN  /\ n \in Notification
                /\ n.ext = "conf" => Heard(s, "conf") \/ (n.kind = "delete" <=> disk[s].conf = "none")
                /\ n.ext = "override" => Heard(s, "override") \/ (n.kind = "delete" <=> disk[s].over = "none")
<1> DEFINE q == queue[s]
<1>1. q \in Seq(Notification) /\ q # << >> /\ queue \in [Sources -> Seq(Notification)]
  BY DEF ConfigInv, Takes
<1>2. /\ Tail(q) \in Seq(Notification) /\ Head(q) \in Notification
      /\ queue'[s] = Tail(q) /\ \A t \in Sources \ {s} : queue'[t] = queue[t]
      /\ h'.watch = h.watch /\ disk' = disk /\ Head(q).ext # "dir"
  BY <1>1, TailIs DEF Takes
<1>3. queue' \in [Sources -> Seq(Notification)]
  BY <1>1, <1>2 DEF Takes
<1>4. \A t \in Sources : Right(h.watch[t], queue[t], disk[t])
  BY DEF ConfigInv
<1> HIDE DEF q
<1>5. /\ Right(h.watch[s], Tail(q), disk[s]) /\ (Listens(h.watch[s], Tail(q)) <=> Listens(h.watch[s], q))
      /\ \A ext : ext # Head(q).ext => (Mentions(Tail(q), ext) <=> Mentions(q, ext))
      /\ Head(q).ext = "conf" => \/ Mentions(Tail(q), "conf") \/ ~Listens(h.watch[s], Tail(q))
                                 \/ Head(q).kind = "delete" <=> disk[s].conf = "none"
      /\ Head(q).ext = "override" => \/ Mentions(Tail(q), "override") \/ ~Listens(h.watch[s], Tail(q))
                                     \/ Head(q).kind = "delete" <=> disk[s].over = "none"
  <2>1. Right(h.watch[s], q, disk[s])
    BY <1>4 DEF q
  <2> QED BY <1>1, <1>2, <2>1, RightTail
<1>6. \A t \in Sources : Right(h'.watch[t], queue'[t], disk'[t])
  BY <1>2, <1>4, <1>5
<1>7. \A t \in Sources : Listens(h'.watch[t], queue'[t]) <=> Listens(h.watch[t], queue[t])
  BY <1>2, <1>5 DEF q
<1>8. \A t \in Sources, ext \in {"conf", "override"} :
        t # s \/ Head(q).ext # ext => (Mentions(queue'[t], ext) <=> Mentions(queue[t], ext))
  BY <1>2, <1>5 DEF q
<1> QED BY <1>2, <1>3, <1>5, <1>6, <1>7, <1>8 DEF Heard, q

\* It is of the configuration file.
LEMMA ConfTaken ==
  ASSUME ConfigInv, NEW s \in Sources, Takes(s), Head(queue[s]).ext = "conf", Good(h'),
         \A t \in Sources \ {s} : Kept(h, h', t),
         Has(h'.file, s) => ~h'.class[h'.file[s]].deleted,
         Fresh(h'.file, h'.class, s) \/ Heard(s, "conf")
  PROVE  ConfigInv'
<1>0. disk' = disk /\ dir' = dir /\ changes' = changes /\ h'.watch = h.watch
  BY DEF Takes
<1>1. /\ queue' \in [Sources -> Seq(Notification)]
      /\ \A t \in Sources : Right(h'.watch[t], queue'[t], disk'[t])
      /\ \A t \in Sources : Listens(h'.watch[t], queue'[t]) <=> Listens(h.watch[t], queue[t])
      /\ \A t \in Sources : Mentions(queue'[t], "override") <=> Mentions(queue[t], "override")
      /\ \A t \in Sources \ {s} : Mentions(queue'[t], "conf") <=> Mentions(queue[t], "conf")
  BY TakesIs
<1>2. \A t \in Sources : Fresh(h'.file, h'.class, t) => Fresh(h.file, h.class, t)'
  BY <1>0 DEF Fresh, Override, conf_get_best_override
<1>3. \A t \in Sources : Has(h'.file, t) => ~h'.class[h'.file[t]].deleted
  <2>1. \A t \in Sources : Has(h.file, t) => ~h.class[h.file[t]].deleted
    BY DEF ConfigInv
  <2>2. ASSUME NEW t \in Sources \ {s}, Has(h'.file, t) PROVE ~h'.class[h'.file[t]].deleted
    BY <2>1, <2>2 DEF Kept, Keeps, Has
  <2> QED BY <2>2
<1>4. \A t \in Sources : t \in 1..t /\ 1..t \subseteq Sources
  BY ConfigAssumption DEF Sources
<1>5. \A t \in Sources : Overdue(t) => Overdue(t)'
  BY <1>1 DEF Overdue
<1>6. ASSUME NEW t \in Sources PROVE Present(t)' /\ Follows(t)'
  <2>1. CASE Fresh(h'.file, h'.class, t)
    <3>1. h'.file[t] = NoFile <=> disk[t].conf = "none"
      BY <2>1, FreshThere
    <3> QED BY <1>0, <1>2, <2>1, <3>1 DEF Present, Follows
  <2>2. CASE t = s /\ Heard(s, "conf")
    <3>1. ~Listens(h'.watch[s], queue'[s]) => Overdue(s)'
      BY DEF Overdue
    <3> QED BY <1>4, <2>2, <3>1 DEF Heard, Present, Follows
  <2>3. CASE t # s
    <3>1. Present(t) /\ Follows(t) /\ Kept(h, h', t)
      BY <2>3 DEF ConfigInv
    <3>2. h'.file[t] = h.file[t]
      BY <3>1 DEF Kept, Keeps
    <3>3. Present(t)'
      BY <1>0, <1>1, <2>3, <3>1, <3>2 DEF Present
    <3>4. Fresh(h.file, h.class, t) => Fresh(h.file, h.class, t)'
      BY <1>2, <3>1, FreshKept
    <3>5. Follows(t)'
      BY <1>1, <1>4, <1>5, <2>3, <3>1, <3>4 DEF Follows
    <3> QED BY <3>3, <3>5
  <2> QED BY <2>1, <2>2, <2>3
<1> QED BY <1>0, <1>1, <1>3, <1>6 DEF ConfigInv, Disk

\* It is of the override file, and every ConfFile there is has been loaded again.
LEMMA OverrideTaken ==
  ASSUME ConfigInv, NEW s \in Sources, Takes(s), Head(queue[s]).ext = "override",
         Reloaded(h, h', NSources)
  PROVE  ConfigInv'
<1>0. disk' = disk /\ dir' = dir /\ changes' = changes /\ h'.watch = h.watch
  BY DEF Takes
<1>1. /\ queue' \in [Sources -> Seq(Notification)]
      /\ \A t \in Sources : Right(h'.watch[t], queue'[t], disk'[t])
      /\ \A t \in Sources : Listens(h'.watch[t], queue'[t]) <=> Listens(h.watch[t], queue[t])
      /\ \A t \in Sources : Mentions(queue'[t], "conf") <=> Mentions(queue[t], "conf")
  BY TakesIs
<1>2. \A t \in Sources : Fresh(h'.file, h'.class, t) => Fresh(h.file, h.class, t)'
  BY <1>0 DEF Fresh, Override, conf_get_best_override
<1>3. /\ Good(h')
      /\ \A t \in Sources : h.file[t] = NoFile => h'.file[t] = NoFile
      /\ \A t \in Sources : h.file[t] # NoFile => Fresh(h'.file, h'.class, t)
  BY ConfigAssumption DEF Reloaded, Through, Sources
<1>4. \A t \in Sources : Has(h'.file, t) => ~h'.class[h'.file[t]].deleted
  BY <1>3, FreshThere DEF Has
<1>5. ASSUME NEW t \in Sources PROVE Present(t)' /\ Follows(t)'
  <2>1. CASE Fresh(h'.file, h'.class, t)
    <3>1. h'.file[t] = NoFile <=> disk[t].conf = "none"
      BY <2>1, FreshThere
    <3> QED BY <1>0, <1>2, <2>1, <3>1 DEF Present, Follows
  <2>2. CASE h.file[t] = NoFile
    <3>1. Present(t) /\ Disk /\ t \in 1..t
      BY ConfigAssumption DEF ConfigInv, Sources
    <3>2. h'.file[t] = NoFile
      BY <1>3, <2>2
    <3>3. Present(t)'
      BY <1>0, <1>1, <2>2, <3>1, <3>2 DEF Present
    <3>4. CASE disk[t].conf = "none"
      <4>1. Fresh(h'.file, h'.class, t)
        BY <3>1, <3>2, <3>4, FreshIs
      <4> QED BY <1>2, <3>3, <4>1 DEF Follows
    <3>5. CASE Mentions(queue[t], "conf")
      BY <1>1, <3>3, <3>5 DEF Follows
    <3>6. CASE ~Listens(h.watch[t], queue[t])
      BY <1>1, <3>1, <3>3, <3>6 DEF Follows, Overdue
    <3> QED BY <2>2, <3>1, <3>4, <3>5, <3>6 DEF Present
  <2> QED BY <1>3, <2>1, <2>2
<1> QED BY <1>0, <1>1, <1>3, <1>4, <1>5 DEF ConfigInv, Disk

\* It is of an override file that is not there.
LEMMA OverrideGone ==
  ASSUME ConfigInv, NEW s \in Sources, Takes(s), Head(queue[s]).ext = "override",
         h' = h, Heard(s, "override")
  PROVE  ConfigInv'
<1>0. disk' = disk /\ dir' = dir /\ changes' = changes
  BY DEF Takes
<1>1. /\ queue' \in [Sources -> Seq(Notification)]
      /\ \A t \in Sources : Right(h'.watch[t], queue'[t], disk'[t])
      /\ \A t \in Sources : Listens(h'.watch[t], queue'[t]) <=> Listens(h.watch[t], queue[t])
      /\ \A t \in Sources : Mentions(queue'[t], "conf") <=> Mentions(queue[t], "conf")
      /\ \A t \in Sources \ {s} : Mentions(queue'[t], "override") <=> Mentions(queue[t], "override")
  BY TakesIs
<1>2. \A t \in Sources : Fresh(h.file, h.class, t) => Fresh(h.file, h.class, t)'
  BY <1>0 DEF Fresh, Override, conf_get_best_override
<1>3. \A t \in Sources : Overdue(t) => Overdue(t)'
  BY <1>1 DEF Overdue, Heard
<1>4. \A t \in Sources : 1..t \subseteq Sources
  BY ConfigAssumption DEF Sources
<1>5. ASSUME NEW t \in Sources PROVE Present(t)' /\ Follows(t)'
  <2>1. Present(t) /\ Follows(t)
    BY DEF ConfigInv
  <2>2. Present(t)'
    BY <1>0, <1>1, <2>1 DEF Present
  <2>3. Follows(t)'
    BY <1>1, <1>2, <1>3, <1>4, <2>1 DEF Follows
  <2> QED BY <2>2, <2>3
<1> QED BY <1>0, <1>1, <1>5 DEF ConfigInv, Disk

\* The directory is gone.
LEMMA DirGone ==
  ASSUME ConfigInv, NEW s \in Sources, queue[s] # << >>, Head(queue[s]).ext = "dir",
         queue' = [queue EXCEPT ![s] = Tail(@)], UNCHANGED <<disk, dir, changes>>,
         h' = [h EXCEPT !.watch[s] = FALSE]
  PROVE  ConfigInv'
<1> DEFINE q == queue[s]
<1>1. q \in Seq(Notification) /\ queue \in [Sources -> Seq(Notification)] /\ Right(h.watch[s], q, disk[s])
      /\ Good(h) /\ h \in Daemon
  BY DEF ConfigInv, Good
<1>2. Tail(q) = << >> /\ Tail(q) \in Seq(Notification)
  BY <1>1, TailIs, DirLastTail DEF Right
<1>3. queue' \in [Sources -> Seq(Notification)] /\ queue'[s] = << >> /\ \A t \in Sources \ {s} : queue'[t] = queue[t]
  BY <1>1, <1>2
<1>4. /\ h' \in Daemon /\ (h'.fault <=> h.fault) /\ h'.file = h.file /\ h'.class = h.class /\ h'.reg = h.reg
      /\ ~h'.watch[s] /\ \A t \in Sources \ {s} : h'.watch[t] = h.watch[t]
  BY <1>1 DEF Daemon
<1>5. Good(h')
  BY <1>1, <1>4 DEF Good
<1>6. ASSUME NEW t \in Sources PROVE Right(h'.watch[t], queue'[t], disk[t])
  <2>1. CASE t = s
    BY <1>3, <1>4, <2>1 DEF Right, DirLast, Listens
  <2>2. CASE t # s
    <3>1. Right(h.watch[t], queue[t], disk[t])
      BY DEF ConfigInv
    <3> QED BY <1>3, <1>4, <2>2, <3>1
  <2> QED BY <2>1, <2>2
<1>7. Overdue(s)' /\ Present(s)'
  BY <1>4 DEF Overdue, Present, Listens
<1>8. ASSUME NEW t \in Sources \ {s} PROVE Present(t)' /\ (Overdue(t) => Overdue(t)')
  <2>1. Present(t)
    BY DEF ConfigInv
  <2> QED BY <1>3, <1>4, <2>1 DEF Overdue, Present
<1>9. \A t \in Sources : 1..t \subseteq Sources /\ t \in 1..t
  BY ConfigAssumption DEF Sources
<1>10. ASSUME NEW t \in Sources PROVE Follows(t)'
  <2>1. Follows(t)
    BY DEF ConfigInv
  <2>2. Fresh(h.file, h.class, t) => Fresh(h.file, h.class, t)'
    <3>1. disk' = disk
      OBVIOUS
    <3> QED BY <1>4, <3>1 DEF Fresh, Override, conf_get_best_override
  <2>3. (\E u \in 1..t : Overdue(u)) => \E u \in 1..t : Overdue(u)'
    BY <1>7, <1>8, <1>9
  <2>4. t # s /\ Mentions(queue[t], "conf") => Mentions(queue'[t], "conf")
    BY <1>3
  <2>5. CASE t = s
    BY <1>7, <1>9, <2>5 DEF Follows
  <2>6. CASE t # s
    BY <2>1, <2>2, <2>3, <2>4, <2>6 DEF Follows
  <2> QED BY <2>5, <2>6
<1> QED BY <1>3, <1>4, <1>5, <1>6, <1>7, <1>8, <1>10 DEF ConfigInv, Disk

\* What the handlers make of a notification.
LEMMA NotifiedIs ==
  ASSUME ConfigInv, NEW s \in Sources, Notified(s)
  PROVE  LET n == Head(queue[s])
         IN  /\ queue[s] # << >> /\ queue' = [queue EXCEPT ![s] = Tail(@)] /\ UNCHANGED <<disk, dir, changes>>
             /\ \/ n.ext = "dir" /\ h' = [h EXCEPT !.watch[s] = FALSE]
                \/ /\ n.ext = "conf" /\ n.kind = "delete"
                   /\ h' = conf_file_destroy([h EXCEPT !.file[s] = NoFile], h.file[s])
                \/ n.ext = "conf" /\ h' = conf_load_path_with_override(h, s)
                \/ n.ext = "conf" /\ n.kind = "modify" /\ disk[s].conf = "none" /\ h' = h
                \/ n.ext = "override" /\ h' = ReloadAll(h)
                \/ n.ext = "override" /\ n.kind = "modify" /\ disk[s].over = "none" /\ h' = h
<1> DEFINE n == Head(queue[s])
           there == disk[s][IF n.ext = "conf" THEN "conf" ELSE "over"] # "none"
<1>1. queue[s] # << >> /\ queue' = [queue EXCEPT ![s] = Tail(@)] /\ UNCHANGED <<disk, dir, changes>>
  BY DEF Notified
<1>2. h' = CASE n.kind = "delete" -> conf_delete_handler(h, s, n.ext)
             [] n.kind = "modify" /\ there -> conf_create_modify_handler(h, s, n.ext)
             [] n.kind = "modify" /\ ~there -> h
  BY DEF Notified
<1>3. queue[s] \in Seq(Notification) /\ Right(h.watch[s], queue[s], disk[s])
  BY DEF ConfigInv
<1>4. n \in Notification /\ (n.ext = "dir" => n.kind = "delete")
  BY <1>1, <1>3, TailIs, DirLastTail DEF Right
<1>5. /\ n.ext \in {"conf", "override", "dir"} /\ n.kind \in {"modify", "delete"}
      /\ n.ext = "conf" => (there <=> disk[s].conf # "none")
      /\ n.ext = "override" => (there <=> disk[s].over # "none")
  BY <1>4 DEF Notification
<1> HIDE DEF n, there
<1>6. CASE n.kind = "delete"
  <2>1. h' = conf_delete_handler(h, s, n.ext)
    BY <1>2, <1>6
  <2> QED BY <1>1, <1>5, <1>6, <2>1 DEF conf_delete_handler, n
<1>7. CASE n.kind = "modify" /\ there
  <2>1. h' = conf_create_modify_handler(h, s, n.ext) /\ n.ext # "dir"
    BY <1>2, <1>4, <1>7
  <2> QED BY <1>1, <1>5, <2>1 DEF conf_create_modify_handler, n
<1>8. CASE n.kind = "modify" /\ ~there
  <2>1. h' = h /\ n.ext # "dir"
    BY <1>2, <1>4, <1>8
  <2> QED BY <1>1, <1>5, <1>8, <2>1 DEF n
<1> QED BY <1>5, <1>6, <1>7, <1>8

\* A notification is taken.
LEMMA NotifiedStep ==
  ASSUME ConfigInv, NEW s \in Sources, Notified(s)
  PROVE  ConfigInv'
<1> DEFINE n == Head(queue[s])
<1>1. queue[s] # << >> /\ queue' = [queue EXCEPT ![s] = Tail(@)] /\ UNCHANGED <<disk, dir, changes>>
  BY NotifiedIs
<1>2. Disk /\ Good(h) /\ \A t \in Sources : Has(h.file, t) => ~h.class[h.file[t]].deleted
  BY DEF ConfigInv
<1>3. n.ext # "dir" /\ h'.watch = h.watch => Takes(s)
  BY <1>1 DEF Takes
<1>4. Takes(s) => /\ n.ext = "conf" => Heard(s, "conf") \/ (n.kind = "delete" <=> disk[s].conf = "none")
                  /\ n.ext = "override" => Heard(s, "override") \/ (n.kind = "delete" <=> disk[s].over = "none")
  BY TakesIs
<1>5. CASE n.ext = "dir" /\ h' = [h EXCEPT !.watch[s] = FALSE]
  BY <1>1, <1>5, DirGone
<1>6. CASE n.ext = "conf" /\ n.kind = "delete" /\ h' = conf_file_destroy([h EXCEPT !.file[s] = NoFile], h.file[s])
  <2>1. Good(h') /\ h'.watch = h.watch /\ h'.file[s] = NoFile /\ \A t \in Sources \ {s} : Kept(h, h', t)
    BY <1>2, <1>6, DropIs
  <2>2. Takes(s)
    BY <1>3, <1>6, <2>1
  <2>3. disk[s].conf = "none" => Fresh(h'.file, h'.class, s)
    BY <1>2, <2>1, FreshIs
  <2>4. Fresh(h'.file, h'.class, s) \/ Heard(s, "conf")
    BY <1>4, <1>6, <2>2, <2>3
  <2>5. ~Has(h'.file, s)
    BY <2>1 DEF Has
  <2> QED BY <1>6, <2>1, <2>2, <2>4, <2>5, ConfTaken
<1>7. CASE n.ext = "conf" /\ h' = conf_load_path_with_override(h, s)
  <2>1. /\ Through(h, h') /\ h'.watch = h.watch /\ Fresh(h'.file, h'.class, s)
        /\ \A t \in Sources \ {s} : Kept(h, h', t)
    BY <1>2, <1>7, LoadGoes
  <2>2. Takes(s)
    BY <1>3, <1>7, <2>1
  <2>3. Good(h') /\ (Has(h'.file, s) => ~h'.class[h'.file[s]].deleted)
    BY <2>1, FreshThere DEF Through
  <2> QED BY <1>7, <2>1, <2>2, <2>3, ConfTaken
<1>8. CASE n.ext = "conf" /\ n.kind = "modify" /\ disk[s].conf = "none" /\ h' = h
  <2>1. Takes(s)
    BY <1>3, <1>8
  <2>2. Heard(s, "conf")
    BY <1>4, <1>8, <2>1
  <2>3. \A t \in Sources : Kept(h, h', t)
    BY <1>8 DEF Kept, Keeps
  <2> QED BY <1>2, <1>8, <2>1, <2>2, <2>3, ConfTaken
<1>9. CASE n.ext = "override" /\ h' = ReloadAll(h)
  <2>1. Reloaded(h, h', NSources)
    BY <1>2, <1>9, ReloadAllIs
  <2>2. Takes(s)
    BY <1>3, <1>9, <2>1 DEF Reloaded
  <2> QED BY <1>9, <2>1, <2>2, OverrideTaken
<1>10. CASE n.ext = "override" /\ n.kind = "modify" /\ disk[s].over = "none" /\ h' = h
  <2>1. Takes(s)
    BY <1>3, <1>10
  <2>2. Heard(s, "override")
    BY <1>4, <1>10, <2>1
  <2> QED BY <1>10, <2>1, <2>2, OverrideGone
<1> QED BY <1>5, <1>6, <1>7, <1>8, <1>9, <1>10, NotifiedIs

-----------------------------------------------------------------------------
(* The theorems                                                            *)

\* The daemon starts without classes, and watches nothing.
LEMMA InitStep == Init => ConfigInv
<1> SUFFICES ASSUME Init PROVE ConfigInv
  OBVIOUS
<1>1. /\ disk \in [Sources -> [conf : {"none"} \cup Versions, over : {"none", "ok"}]]
      /\ dir = [s \in Sources |-> TRUE] /\ queue = [s \in Sources |-> << >>] /\ changes = 0
      /\ h = [file |-> [s \in Sources |-> NoFile], watch |-> [s \in Sources |-> FALSE],
              class |-> [c \in Classes |-> NoClass], reg |-> NoJob, fault |-> FALSE]
  BY DEF Init
<1>2. h \in Daemon
  <2>1. NoFile \in -1..MaxClasses /\ NoJob \in 0..MaxClasses
    BY ConfigAssumption DEF NoFile, NoJob
  <2> QED BY <1>1, <2>1, NoClassType DEF Daemon
<1>3. /\ h.file \in FileTable /\ ~h.fault /\ h.reg = NoJob /\ \A s \in Sources : h.file[s] = NoFile /\ ~h.watch[s]
      /\ \A c \in Classes : h.class[c] = NoClass
  BY <1>1, <1>2, PartTypes
<1>4. \A s \in Sources : ~Has(h.file, s)
  BY <1>3 DEF Has
<1>5. Selected(h.file) = NoJob
  BY <1>3, <1>4, SelectedIs
<1>6. Good(h)
  BY <1>2, <1>3, <1>4, <1>5, NoClassType DEF Good, Linked, Best, Tidy
<1>7. \A s \in Sources : queue[s] = << >> /\ queue[s] \in Seq(Notification) /\ s \in 1..s
  BY <1>1, ConfigAssumption DEF Sources
<1>8. \A s \in Sources : Right(h.watch[s], queue[s], disk[s])
  BY <1>3, <1>7 DEF Right, DirLast, Listens
<1>9. \A s \in Sources : Overdue(s)
  BY <1>3 DEF Overdue, Listens
<1>10. \A s \in Sources : Present(s) /\ Follows(s)
  BY <1>3, <1>7, <1>9 DEF Present, Follows, Listens
<1>11. Disk /\ dir \in [Sources -> BOOLEAN] /\ queue \in [Sources -> Seq(Notification)] /\ changes \in 0..MaxChanges
  BY <1>1, ConfigAssumption DEF Disk
<1>12. \A s \in Sources : dir[s]
  BY <1>1
<1> QED BY <1>4, <1>6, <1>8, <1>10, <1>11, <1>12 DEF ConfigInv

\* Nothing changes.
LEMMA SameStep ==
  ASSUME ConfigInv, UNCHANGED vars
  PROVE  ConfigInv'
<1>1. disk' = disk /\ dir' = dir /\ queue' = queue /\ changes' = changes /\ h' = h
  BY DEF vars
<1>2. \A t \in Sources : Kept(h, h', t)
  BY <1>1 DEF Kept, Keeps
<1>3. Good(h') /\ \A t \in Sources : h.watch[t] => h'.watch[t]
  BY <1>1 DEF ConfigInv
<1> QED BY <1>1, <1>2, <1>3, DaemonStep

\* Every step keeps the invariant: the files, the table of classes, the instances
\* and what is still to be told fit together (conf.c, job_class.c).
THEOREM ConfigInductive == Spec => []ConfigInv
<1>1. ConfigInv /\ [Next]_vars => ConfigInv'
  <2> SUFFICES ASSUME ConfigInv, [Next]_vars PROVE ConfigInv'
    OBVIOUS
  <2>1. CASE Reload
    BY <2>1, ReloadStep
  <2>2. CASE Matches
    BY <2>2, MatchesStep
  <2>3. CASE Starts
    BY <2>3, StartsStep
  <2>4. CASE Reexec
    BY <2>4, ReexecStep
  <2>5. ASSUME NEW s \in Sources, NEW v \in {"none", "bad"} \cup Versions, WriteFile(s, "conf", v)
        PROVE  ConfigInv'
    BY <2>5, WriteStep
  <2>6. ASSUME NEW s \in Sources, NEW v \in {"none", "bad", "ok"}, WriteFile(s, "override", v)
        PROVE  ConfigInv'
    BY <2>6, WriteStep
  <2>7. ASSUME NEW s \in Sources, RemoveDir(s) PROVE ConfigInv'
    BY <2>7, RemoveDirStep
  <2>8. ASSUME NEW s \in Sources, MakeDir(s) PROVE ConfigInv'
    BY <2>8, MakeDirStep
  <2>9. ASSUME NEW s \in Sources, Notified(s) PROVE ConfigInv'
    BY <2>9, NotifiedStep
  <2>10. ASSUME NEW c \in Classes, Stops(c) PROVE ConfigInv'
    BY <2>10, StopsStep
  <2>11. CASE UNCHANGED vars
    BY <2>11, SameStep
  <2> QED BY <2>1, <2>2, <2>3, <2>4, <2>5, <2>6, <2>7, <2>8, <2>9, <2>10, <2>11 DEF Next
<1> QED BY <1>1, InitStep, PTL DEF Spec

\* The class table agrees with the files and the instances, whatever comes and goes
\* (job_class_consider, job_class_reconsider, conf_file_destroy).
THEOREM ClassesAreSound == Spec => []ClassesSound
<1>1. ConfigInv => ClassesSound
  <2> SUFFICES ASSUME ConfigInv PROVE ClassesSound
    OBVIOUS
  <2>1. Good(h) /\ Linked(h.file, h.class, h.reg) /\ Best(h.file, h.class, h.reg) /\ Tidy(h.file, h.class, h.reg)
    BY DEF ConfigInv, Good
  <2>2. \A c : InFile(c) <=> In(h.file, c)
    BY DEF InFile, In
  <2>3. conf_select_job(h) = Selected(h.file)
    BY SelectJob
  <2>4. TypeOK
    BY <2>1 DEF ConfigInv, Disk, Good, Daemon, ClassRecord, Notification, TypeOK
  <2>5. NoDangling
    BY <2>1 DEF Good, Linked, Has, NoDangling
  <2>6. InstancesRegistered
    BY <2>1 DEF Linked, InstancesRegistered
  <2>7. RegisteredIsBest
    BY <2>1, <2>2, <2>3 DEF Best, Linked, RegisteredIsBest, Orphan
  <2>8. NoLeak
    BY <2>1, <2>2 DEF Tidy, NoLeak, Orphan
  <2> QED BY <2>4, <2>5, <2>6, <2>7, <2>8 DEF ClassesSound
<1> QED BY <1>1, ConfigInductive, PTL

\* Once every notification has been read, the registered class is what the files on
\* disk say (conf_create_modify_handler, conf_delete_handler,
\* conf_get_best_override).
THEOREM AlwaysUpToDate == Spec => []UpToDate
<1>1. ConfigInv => UpToDate
  <2> SUFFICES ASSUME ConfigInv, \A s \in Sources : queue[s] = << >> /\ h.watch[s], Clean,
                      ~(h.reg # NoJob /\ (h.class[h.reg].instances > 0 \/ Orphan(h.reg)))
               PROVE  \/ Owner = 0 /\ h.reg = NoJob
                      \/ /\ Owner # 0 /\ h.reg # NoJob
                         /\ h.class[h.reg].conf = disk[Owner].conf
                         /\ h.class[h.reg].over = IF Applied(Owner) THEN "ok" ELSE "none"
    BY DEF UpToDate
  <2> DEFINE f == h.file
             cl == h.class
             V == {s \in Sources : disk[s].conf \in Versions}
  <2>1. Disk /\ f \in FileTable /\ Linked(f, cl, h.reg) /\ Best(f, cl, h.reg)
    BY PartTypes DEF ConfigInv, Good
  <2>2. \A s \in Sources : s \in Nat /\ s # 0 /\ 1..s \subseteq Sources
    BY ConfigAssumption DEF Sources
  <2>3. ASSUME NEW s \in Sources PROVE Fresh(f, cl, s)
    <3>1. Follows(s)
      BY DEF ConfigInv
    <3>2. \A t \in Sources, ext \in {"conf", "override", "dir"} : ~Mentions(queue[t], ext)
      BY DEF Mentions
    <3>3. \A t \in Sources : ~Overdue(t)
      BY <3>2 DEF Overdue, Listens
    <3> QED BY <2>2, <3>1, <3>2, <3>3 DEF Follows
  <2>4. h.reg = Selected(f)
    <3>1. h.reg # NoJob /\ cl[h.reg].over = "bad" /\ ~In(f, h.reg) => Orphan(h.reg)
      BY <2>1 DEF Orphan, InFile, In, Linked
    <3> QED BY <2>1, <3>1 DEF Best
  <2>5. ASSUME NEW s \in Sources
        PROVE  /\ Override(s) = IF Applied(s) THEN "ok" ELSE "none"
               /\ disk[s].conf = "bad" => Override(s) = "none"
    <3>1. CASE conf_get_best_override(s) = 0
      BY <2>1, <3>1, OverrideIs DEF Applied
    <3>2. CASE conf_get_best_override(s) # 0
      <4> DEFINE b == conf_get_best_override(s)
      <4>1. b \in 1..s /\ b \in Sources /\ Override(s) = disk[b].over /\ Override(s) # "none"
            /\ Override(s) \in {"none", "bad", "ok"}
        BY <2>1, <2>2, <3>2, OverrideIs
      <4> HIDE DEF b
      <4>2. disk[b].over # "bad"
        BY <4>1 DEF Clean
      <4>3. disk[s].conf # "bad"
        BY <3>2 DEF Clean
      <4> QED BY <4>1, <4>2, <4>3 DEF Applied
    <3> QED BY <3>1, <3>2
  <2>6. ASSUME NEW s \in Sources
        PROVE  IF disk[s].conf \in Versions THEN Says(f, cl, s, disk[s].conf, Override(s)) ELSE ~Has(f, s)
    <3> DEFINE C == disk[s].conf
               O == Override(s)
    <3>1. C \in {"none", "bad"} \cup Versions /\ O \in {"none", "ok"} /\ (C = "bad" => O = "none")
      BY <2>1, <2>5 DEF Disk
    <3>2. Fresh(f, cl, s)
      BY <2>3
    <3>3. CASE C = "none"
      BY <3>2, <3>3, ConfigAssumption DEF Fresh, Has
    <3>4. CASE C = "bad"
      BY <3>1, <3>2, <3>4, ConfigAssumption DEF Fresh, Has
    <3>5. CASE C \in Versions
      <4>1. C # "none" /\ C # "bad" /\ O # "bad"
        BY <3>1, <3>5, ConfigAssumption
      <4> QED BY <3>2, <3>5, <4>1 DEF Fresh, Says
    <3> QED BY <3>1, <3>3, <3>4, <3>5
  <2>7. CASE V = {}
    <3>1. \A s \in Sources : ~Has(f, s)
      BY <2>6, <2>7
    <3>2. Owner = 0
      BY <2>7 DEF Owner
    <3> QED BY <2>1, <2>4, <3>1, <3>2, SelectedIs
  <2>8. CASE V # {}
    <3> DEFINE w == Lowest(V)
    <3>1. V \subseteq Nat
      BY <2>2
    <3>2. w \in V /\ \A k \in V : w <= k
      <4>1. \E i \in V : \A k \in V : i <= k
        BY <2>8, <3>1, Least
      <4> HIDE DEF V
      <4> QED BY <4>1 DEF Lowest
    <3>3. Owner = w
      BY <2>8 DEF Owner
    <3>4. w \in Sources /\ disk[w].conf \in Versions /\ Says(f, cl, w, disk[w].conf, Override(w))
      BY <2>6, <3>2
    <3>5. \A t \in Sources : t < w => ~Has(f, t)
      <4> SUFFICES ASSUME NEW t \in Sources, t < w, Has(f, t) PROVE FALSE
        OBVIOUS
      <4>1. t \in V
        BY <2>6
      <4>2. t \in Nat /\ w \in Nat
        BY <2>2, <3>4
      <4> QED BY <3>2, <4>1, <4>2
    <3> HIDE DEF w, V
    <3>6. h.reg = f[w] /\ Has(f, w)
      BY <2>1, <2>4, <3>4, <3>5, SelectedFirst DEF Says
    <3>7. Override(w) = IF Applied(w) THEN "ok" ELSE "none"
      BY <2>5, <3>4
    <3>8. cl[h.reg].conf = disk[w].conf /\ cl[h.reg].over = Override(w) /\ h.reg # NoJob /\ w # 0
      BY <2>2, <3>4, <3>6 DEF Says, Has
    <3> QED BY <3>3, <3>7, <3>8
  <2> QED BY <2>7, <2>8
<1> QED BY <1>1, ConfigInductive, PTL

\* The class of u that is registered after the loads, and does not run, has the
\* event.
LEMMA HeldHas ==
  ASSUME NEW g, Good(g), NEW u \in Sources, Held(g, u),
         Has(g.file, u), g.reg = g.file[u], g.class[g.reg].instances = 0
  PROVE  g.class[g.reg].matched
<1> DEFINE f == g.file
<1>1. f \in FileTable /\ Linked(f, g.class, g.reg) /\ Best(f, g.class, g.reg)
  BY PartTypes DEF Good
<1>2. ASSUME NEW t \in Sources, t < u, Has(f, t) PROVE FALSE
  <2>1. In(f, g.reg)
    BY DEF In
  <2>2. Selected(f) = f[u]
    BY <1>1, <2>1 DEF Best
  <2>3. PICK s \in Sources : Has(f, s) /\ Selected(f) = f[s] /\ \A v \in Sources : v < s => ~Has(f, v)
    BY <1>1, <1>2, SelectedIs
  <2>4. s = u
    BY <1>1, <2>2, <2>3 DEF Linked
  <2> QED BY <1>2, <2>3, <2>4
<1>3. f[u] # NoFile
  BY DEF Has
<1> QED BY <1>2, <1>3 DEF Held, Eager

\* A step keeps the event of the class of u, unless the class goes or runs.
LEMMA HeldStep ==
  ASSUME ConfigInv, ConfigInv', [Next]_vars, Valid, NEW u \in Sources,
         Eager(h.file, h.class, h.reg, u),
         Has(h'.file, u), h'.reg = h'.file[u], h'.class[h'.reg].instances = 0
  PROVE  h'.class[h'.reg].matched
<1>0. /\ Disk /\ Good(h) /\ Good(h') /\ h.class[h.reg].instances = 0
      /\ \A s \in Sources : ~dir[s] => disk[s].conf = "none"
  BY DEF ConfigInv, Eager
<1>1. Held(h, u) /\ h.class[h.reg].matched /\ h.reg \in Classes /\ h'.file[u] # NoFile
  <2>1. h.reg \in Classes
    BY <1>0, PartTypes, EagerSelected DEF Good
  <2> QED BY <2>1 DEF Held, Eager, Has
<1>2. Held(h', u) => h'.class[h'.reg].matched
  BY <1>0, HeldHas
<1>3. Through(h, h') => Held(h', u)
  BY <1>1 DEF Through
<1>4. CASE Reload
  <2>1. Through(h, h')
    BY <1>0, <1>4, ReloadGoes DEF Reload
  <2> QED BY <1>2, <1>3, <2>1
<1>5. CASE Reexec
  <2> DEFINE g == Restored(h)
  <2>1. Good(g) /\ Eager(g.file, g.class, g.reg, u)
    BY <1>0, RestoredGood
  <2>2. Held(g, u)
    BY <2>1 DEF Held
  <2>3. Through(g, h')
    BY <1>0, <1>5, <2>1, ReloadGoes DEF Reexec
  <2> QED BY <1>2, <2>2, <2>3 DEF Through
<1>6. CASE Matches
  <2>1. h \in Daemon
    BY <1>0 DEF Good
  <2> QED BY <1>1, <1>6, <2>1 DEF Matches, Daemon
<1>7. CASE Starts
  <2>1. h'.reg = h.reg /\ h'.class[h.reg].instances > 0
    BY <1>7, StartsStep
  <2> QED BY <2>1
<1>8. ASSUME NEW c \in Classes, Stops(c) PROVE FALSE
  <2>1. c = h.reg /\ h.class[c].instances > 0
    BY <1>0, <1>8 DEF Stops, Good, Linked
  <2> QED BY <1>0, <2>1
<1>9. CASE h' = h
  BY <1>1, <1>9
<1>10. ASSUME NEW s \in Sources, Notified(s) PROVE h'.class[h'.reg].matched
  <2>1. CASE h' = [h EXCEPT !.watch[s] = FALSE]
    <3>1. h'.class = h.class /\ h'.reg = h.reg
      BY <1>0, <2>1 DEF Good, Daemon
    <3> QED BY <1>1, <3>1
  <2>2. CASE h' = conf_file_destroy([h EXCEPT !.file[s] = NoFile], h.file[s])
    <3>1. /\ h'.file[s] = NoFile
          /\ \A t \in Sources \ {s} : Eager(h.file, h.class, h.reg, t) => Eager(h'.file, h'.class, h'.reg, t)
      BY <1>0, <2>2, DropIs
    <3> QED BY <1>1, <3>1 DEF Eager
  <2>3. CASE h' = conf_load_path_with_override(h, s)
    <3>1. Through(h, h')
      BY <1>0, <2>3, LoadGoes
    <3> QED BY <1>2, <1>3, <3>1
  <2>4. CASE h' = ReloadAll(h)
    <3>1. Through(h, h')
      BY <1>0, <2>4, ReloadAllIs DEF Reloaded
    <3> QED BY <1>2, <1>3, <3>1
  <2> QED BY <1>9, <1>10, <2>1, <2>2, <2>3, <2>4, NotifiedIs
<1>11. ASSUME NEW s \in Sources, NEW ext, NEW v, WriteFile(s, ext, v) PROVE h' = h
  BY <1>11 DEF WriteFile
<1>12. ASSUME NEW s \in Sources, RemoveDir(s) \/ MakeDir(s) PROVE h' = h
  BY <1>12 DEF RemoveDir, MakeDir
<1>13. CASE UNCHANGED vars
  BY <1>9, <1>13 DEF vars
<1> QED BY <1>4, <1>5, <1>6, <1>7, <1>8, <1>9, <1>10, <1>11, <1>12, <1>13 DEF Next

\* A class that is loaded again takes over the event the registered one has matched
\* (job_class_consider, job_class_event_block).
THEOREM EventsAreTakenOver == Spec => EventsTakenOver
<1> DEFINE Keep == (\A t \in Sources : disk[t].conf # "bad" /\ disk[t].over # "bad") => \A s \in Sources :
                     /\ \A t \in 1..(s - 1) : h.file[t] = NoFile
                     /\ h.reg # NoJob /\ h.file[s] = h.reg /\ h.class[h.reg].matched
                     /\ h.class[h.reg].instances = 0
                     /\ h'.file[s] \notin {NoFile, NoJob} /\ h'.reg = h'.file[s]
                     /\ h'.class[h'.reg].instances = 0
                     => h'.class[h'.reg].matched
<1>1. ConfigInv /\ ConfigInv' /\ [Next]_vars => Keep
  <2> SUFFICES ASSUME ConfigInv, ConfigInv', [Next]_vars,
                      \A t \in Sources : disk[t].conf # "bad" /\ disk[t].over # "bad", NEW s \in Sources,
                      \A t \in 1..(s - 1) : h.file[t] = NoFile,
                      h.reg # NoJob, h.file[s] = h.reg, h.class[h.reg].matched,
                      h.class[h.reg].instances = 0,
                      h'.file[s] \notin {NoFile, NoJob}, h'.reg = h'.file[s], h'.class[h'.reg].instances = 0
               PROVE  h'.class[h'.reg].matched
    OBVIOUS
  <2>1. Valid /\ Has(h'.file, s)
    BY DEF Valid, Has
  <2>2. h.reg # NoFile
    BY PartTypes, ConfigAssumption DEF ConfigInv, Good, NoFile
  <2>3. \A t \in Sources : t < s => t \in 1..(s - 1)
    BY ConfigAssumption DEF Sources
  <2>4. Eager(h.file, h.class, h.reg, s)
    BY <2>2, <2>3 DEF Eager, Has
  <2> QED BY <2>1, <2>4, HeldStep
<1>2. ConfigInv /\ ConfigInv' /\ [Next]_vars => [Keep]_vars
  BY <1>1
<1>3. [][Keep]_vars => EventsTakenOver
  BY PTL DEF EventsTakenOver
<1> HIDE DEF Keep
<1> QED BY <1>2, <1>3, ConfigInductive, PTL DEF Spec
=============================================================================
