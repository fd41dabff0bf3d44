-------------------------- MODULE FileBridgeProofs --------------------------
(***************************************************************************)
(* Where the file bridge watches: proofs that the watches follow the files *)
(* of the known jobs as far as the handlers move them (WatchesFollow), and *)
(* that it emits only events a job asked for, but for the creation and the *)
(* end of directories (WantedOnly), for every file system, every set of    *)
(* classes and every order of the changes.                                 *)
(***************************************************************************)
EXTENDS FileBridge, SequenceTheorems, FiniteSetTheorems, WellFoundedInduction, TLAPS

-----------------------------------------------------------------------------
(* The inductive invariant                                                 *)

Message == [what : {"create", "modify", "delete", "ignored"}, path : Paths]
Watch   == [files : SUBSET WatchedFile, live : BOOLEAN, queue : Seq(Message)]

\* The types of what is not a table of watches.
BridgeTypes ==
    /\ exists \subseteq Paths /\ classes \subseteq Job
    /\ link \in {"down", "connected", "up"}
    /\ signals \in Seq([job : Job, added : BOOLEAN]) /\ todo \in Seq(Job)
    /\ DOMAIN jobs \subseteq Job /\ jobs \in [DOMAIN jobs -> SUBSET WatchedFile]
    /\ \A j \in DOMAIN jobs : \A f \in jobs[j] : f.job = j
    /\ told \subseteq WatchedFile

Table(dirs) == dirs \in [DOMAIN dirs -> Watch]

\* The watches dirs, while the paths ex exist: a watch of a directory that does
\* not exist is dead.
Watches(dirs, ex) ==
    /\ DOMAIN dirs \subseteq Paths /\ Table(dirs)
    /\ \A d \in DOMAIN dirs : dirs[d].live => d \in ex

\* A file that is in a table or lost is one of the known files K; it is in one
\* table at most, and in none if it is one of the lost files L.
Owned(dirs, K, L) ==
    /\ L \subseteq K
    /\ \A d \in DOMAIN dirs : dirs[d].files \subseteq K /\ dirs[d].files \cap L = {}
    /\ \A d, e \in DOMAIN dirs : d # e => dirs[d].files \cap dirs[e].files = {}

\* What makes watch w of directory d the right one for file f.  For a plain
\* file the directory is on the way to it, and its creation and the end of the
\* directory were told, are still to be read, or came too early; so is the
\* creation of the next directory where create_handler follows it.
\* ex, t and er are values of exists, told and early.
Sees(d, w, f, ex, t, er) ==
    /\ Plain(f) =>
        /\ StrPrefix(d, f.path)
        /\ w.live /\ "create" \in f.events /\ f.path \in ex /\ d = Parent(f.path)
           => f \in t \/ <<f, f.path>> \in er \/ Inotify("create", f.path) \in Range(w.queue)
        /\ ~w.live => \/ Inotify("ignored", d) \in Range(w.queue)
                      \/ f.path = d /\ "delete" \in f.events
                      \/ <<f, NULL>> \in er
    /\ w.live /\ Nearing(d, f) /\ StepTo(d, f.path) \in ex \cap Dirs
       => \/ <<f, StepTo(d, f.path)>> \in er
          \/ Inotify("create", StepTo(d, f.path)) \in Range(w.queue)

Seeing(dirs, ex, t, er) ==
    \A d \in DOMAIN dirs : \A f \in dirs[d].files : Sees(d, dirs[d], f, ex, t, er)

\* The job that is added is known, and has only files of the file events
\* before the one it is at.
AtWork ==
    adding # NULL =>
        /\ adding \in Adding /\ adding.n >= 1
        /\ adding.job \in DOMAIN jobs
        /\ \A f \in jobs[adding.job] : f.n < adding.n
        /\ adding.file # NULL => adding.file.job = adding.job /\ adding.file.n = adding.n

\* A job that init no longer has is still to be told to the bridge.
Announced ==
    /\ link = "down" => DOMAIN jobs = {}
    /\ \A j \in DOMAIN jobs \ classes :
           \E s \in Range(signals) : s.job = j /\ ~s.added

TablesRight ==
    /\ Watches(watched_dirs, exists)
    /\ Owned(watched_dirs, Known, lost)
    /\ Seeing(watched_dirs, exists, told, early)

BridgeInv == BridgeTypes /\ TablesRight /\ AtWork /\ Announced

-----------------------------------------------------------------------------
(* Paths                                                                   *)

\* A watched file has a job, the number of its file event and a path.
LEMMA FileType ==
    ASSUME NEW f \in WatchedFile
    PROVE  f.job \in Job /\ f.n \in Nat \ {0} /\ f.path \in Seq(STRING)
<1>1. PICK j \in Job : \E n \in DOMAIN FileEvents[j] :
            f = watched_file_new(j, n, ReadEnv(FileEvents[j][n]))
  BY DEF WatchedFile
<1>2. PICK n \in DOMAIN FileEvents[j] : f = watched_file_new(j, n, ReadEnv(FileEvents[j][n]))
  BY <1>1
<1>3. f.job = j /\ f.n = n
  BY <1>2 DEF watched_file_new
<1>4. n \in Nat \ {0}
  BY EventsAreListed, LenProperties
<1> QED BY <1>3, <1>4, FilesHavePaths

\* A path of the file system is a sequence of names, and not the root.
LEMMA PathType ==
    ASSUME NEW p \in Paths
    PROVE  p \in Seq(STRING) /\ p # <<>> /\ p # NULL /\ Len(p) \in Nat \ {0}
BY PathsAreNames, NullIsNothing, EmptySeq

\* A prefix has the names of the longer path, one by one.
LEMMA PrefixMeans ==
    ASSUME NEW d \in Seq(STRING), NEW p \in Seq(STRING)
    PROVE  IsPrefix(d, p) <=> Len(d) <= Len(p) /\ \A i \in 1..Len(d) : d[i] = p[i]
<1>1. SubSeq(d, 1, Len(d)) = d /\ Len(d) \in Nat /\ Len(p) \in Nat
  BY SubSeqFull, LenProperties
<1>2. ASSUME Len(d) <= Len(p)
      PROVE  /\ SubSeq(p, 1, Len(d)) \in Seq(STRING) /\ Len(SubSeq(p, 1, Len(d))) = Len(d)
             /\ \A i \in 1..Len(d) : SubSeq(p, 1, Len(d))[i] = p[i]
  BY <1>1, <1>2
<1>3. ASSUME Len(d) <= Len(p), \A i \in 1..Len(d) : d[i] = p[i]
      PROVE  SubSeq(p, 1, Len(d)) = d
  <2> DEFINE s == SubSeq(p, 1, Len(d))
  <2>1. s \in Seq(STRING) /\ Len(s) = Len(d) /\ \A i \in 1..Len(s) : s[i] = d[i]
    BY <1>2, <1>3
  <2> HIDE DEF s
  <2>2. s = d
    BY <2>1, SeqEqual
  <2> QED BY <2>2 DEF s
<1> QED BY <1>1, <1>2, <1>3 DEF IsPrefix

\* A directory is a prefix of itself.
LEMMA PrefixSelf ==
    ASSUME NEW p \in Seq(STRING)
    PROVE  StrPrefix(p, p) /\ IsPrefix(p, p)
BY PrefixMeans, LenProperties DEF StrPrefix

\* What is above a prefix is a prefix, in the sense of strstr too.
LEMMA PrefixAbove ==
    ASSUME NEW q \in Seq(STRING), NEW d \in Seq(STRING), NEW p \in Seq(STRING),
           IsPrefix(q, d), StrPrefix(d, p)
    PROVE  StrPrefix(q, p)
<1>0. Len(q) \in Nat /\ Len(d) \in Nat /\ Len(p) \in Nat
  BY LenProperties
<1>1. Len(q) <= Len(d) /\ \A i \in 1..Len(q) : q[i] = d[i]
  BY PrefixMeans
<1>2. CASE IsPrefix(d, p)
  <2>1. Len(d) <= Len(p) /\ \A i \in 1..Len(d) : d[i] = p[i]
    BY <1>2, PrefixMeans
  <2>2. IsPrefix(q, p)
    BY <1>0, <1>1, <2>1, PrefixMeans
  <2> QED BY <2>2 DEF StrPrefix
<1>3. CASE /\ d # <<>> /\ Len(d) <= Len(p)
           /\ Front(d) = SubSeq(p, 1, Len(d) - 1)
           /\ <<Last(d), p[Len(d)]>> \in NamePrefix
  <2>0. Len(d) >= 1
    BY <1>0, <1>3, EmptySeq
  <2>1. \A i \in 1..Len(d) - 1 : d[i] = p[i]
    <3>1. \A i \in 1..Len(d) - 1 : SubSeq(d, 1, Len(d) - 1)[i] = d[i] /\ SubSeq(p, 1, Len(d) - 1)[i] = p[i]
      BY <1>0, <1>3, <2>0
    <3> QED BY <3>1, <1>3 DEF Front
  <2>2. CASE Len(q) = Len(d)
    <3>1. q = d
      BY <1>1, <2>2, SeqEqual
    <3> QED BY <3>1
  <2>3. CASE Len(q) < Len(d)
    <3>1. Len(q) <= Len(p) /\ \A i \in 1..Len(q) : q[i] = p[i]
      BY <1>0, <1>1, <1>3, <2>0, <2>1, <2>3
    <3>2. IsPrefix(q, p)
      BY <3>1, PrefixMeans
    <3> QED BY <3>2 DEF StrPrefix
  <2> QED BY <1>0, <1>1, <2>2, <2>3
<1> QED BY <1>2, <1>3 DEF StrPrefix

\* The step from the directory of a file to the file.
LEMMA StepOfParent ==
    ASSUME NEW p \in Seq(STRING), p # <<>>
    PROVE  /\ Parent(p) \in Seq(STRING) /\ Len(Parent(p)) = Len(p) - 1
           /\ StepTo(Parent(p), p) = p
<1>0. Len(p) \in Nat \ {0}
  BY EmptySeq
<1>1. Parent(p) \in Seq(STRING) /\ Len(Parent(p)) = Len(p) - 1
  <2> DEFINE k == Len(p) - 1
  <2>1. k \in Nat /\ k <= Len(p) /\ Parent(p) = SubSeq(p, 1, k)
    BY <1>0 DEF Parent, Front
  <2> HIDE DEF k
  <2>2. Parent(p) \in Seq(STRING) /\ Len(Parent(p)) = k
    BY <1>0, <2>1
  <2> QED BY <2>2 DEF k
<1>2. StepTo(Parent(p), p) = SubSeq(p, 1, Len(p))
  BY <1>0, <1>1 DEF StepTo
<1> QED BY <1>1, <1>2, SubSeqFull

\* The directory of the next step is the one the step is taken from.
LEMMA ParentOfStep ==
    ASSUME NEW d \in Seq(STRING), NEW p \in Seq(STRING), IsPrefix(d, p), Len(p) > Len(d)
    PROVE  /\ StepTo(d, p) \in Seq(STRING) /\ Len(StepTo(d, p)) = Len(d) + 1
           /\ Parent(StepTo(d, p)) = d /\ IsPrefix(StepTo(d, p), p)
<1>0. Len(d) \in Nat /\ Len(p) \in Nat
  BY LenProperties
<1>1. \A i \in 1..Len(d) : d[i] = p[i]
  BY PrefixMeans
<1> DEFINE c == StepTo(d, p)
<1>2. c \in Seq(STRING) /\ Len(c) = Len(d) + 1 /\ \A i \in 1..Len(d) + 1 : c[i] = p[i]
  BY <1>0 DEF StepTo
<1> DEFINE e == Parent(c)
<1>3. e \in Seq(STRING) /\ Len(e) = Len(d) /\ \A i \in 1..Len(d) : e[i] = c[i]
  <2> HIDE DEF c
  <2> QED BY <1>0, <1>2 DEF Parent, Front
<1>4. IsPrefix(c, p)
  <2> HIDE DEF c
  <2> QED BY <1>0, <1>2, PrefixMeans
<1>5. e = d
  <2> HIDE DEF c, e
  <2> QED BY <1>0, <1>1, <1>2, <1>3, SeqEqual
<1> QED BY <1>2, <1>4, <1>5

\* A set of numbers has a least one: the first directory that find_first_parent
\* meets on its way up.
LEMMA Least ==
    ASSUME NEW T \in SUBSET Nat, T # {}
    PROVE  \E i \in T : \A k \in T : i <= k
<1> DEFINE Less == {ss \in Nat \X Nat : ss[1] < ss[2]}
<1>1. IsWellFoundedOn(Less, Nat)
  BY NatLessThanWellFounded DEF OpToRel
<1>2. \A i, k \in Nat : k < i => <<k, i>> \in Less
  OBVIOUS
<1> HIDE DEF Less
<1>3. PICK i \in T : \A k \in T : <<k, i>> \notin Less
  BY <1>1, WFMin
<1>4. ASSUME NEW k \in T PROVE i <= k
  <2>1. i \in Nat /\ k \in Nat /\ ~(k < i)
    BY <1>2, <1>3
  <2> QED BY <2>1
<1> QED BY <1>4

\* find_first_parent ends at a directory on the way that is watched or exists,
\* or at the root.
LEMMA FirstParent ==
    ASSUME NEW dirs, NEW p \in Seq(STRING), NEW y, y = find_first_parent(dirs, p)
    PROVE  y \in Seq(STRING) /\ IsPrefix(y, p) /\ y \in DOMAIN dirs \cup exists \cup {<<>>}
<1> DEFINE ch == Chain(p)
           at == {i \in DOMAIN ch : ch[i] \in DOMAIN dirs \cup exists \cup {<<>>}}
<1>0. Len(p) \in Nat
  BY LenProperties
<1>1. DOMAIN ch = 1..Len(p) + 1 /\ \A i \in 1..Len(p) + 1 : ch[i] = SubSeq(p, 1, Len(p) + 1 - i)
  BY DEF Chain
<1>2. Len(p) + 1 \in at
  <2>1. ch[Len(p) + 1] = SubSeq(p, 1, 0)
    BY <1>0, <1>1
  <2>2. SubSeq(p, 1, 0) = <<>>
    BY SubSeqEmpty
  <2> QED BY <1>0, <1>1, <2>1, <2>2
<1>3. at \subseteq Nat
  BY <1>0, <1>1
<1>4. \E i \in at : \A k \in at : i <= k
  <2> HIDE DEF at
  <2> QED BY <1>2, <1>3, Least
<1> DEFINE i == CHOOSE i \in at : \A k \in at : i <= k
<1>5. i \in at
  BY <1>4
<1>6. y = ch[i]
  BY DEF find_first_parent
<1>7. i \in 1..Len(p) + 1 /\ ch[i] \in DOMAIN dirs \cup exists \cup {<<>>}
  <2> HIDE DEF i, ch
  <2> QED BY <1>1, <1>5
<1>8. y = SubSeq(p, 1, Len(p) + 1 - i)
  <2> HIDE DEF i, ch
  <2> QED BY <1>1, <1>6, <1>7
<1> DEFINE m == Len(p) + 1 - i
<1>9. m \in 0..Len(p)
  <2> HIDE DEF i, ch
  <2> QED BY <1>0, <1>7
<1>10. y \in Seq(STRING) /\ Len(y) = m /\ \A k \in 1..m : y[k] = p[k]
  <2>1. y = SubSeq(p, 1, m)
    BY <1>8
  <2> HIDE DEF m
  <2> QED BY <1>0, <1>9, <2>1
<1>11. IsPrefix(y, p)
  <2> HIDE DEF m
  <2> QED BY <1>0, <1>9, <1>10, PrefixMeans
<1> QED BY <1>6, <1>7, <1>10, <1>11

-----------------------------------------------------------------------------
(* What inotify has told and not                                           *)

\* What inotify reports is a message.
LEMMA MessageType ==
    ASSUME NEW p \in Paths, NEW what \in {"create", "modify", "delete", "ignored"}
    PROVE  Inotify(what, p) \in Message
BY DEF Inotify, Message

\* A message put at the end of a queue is in it, with those before.
LEMMA QueueGrows ==
    ASSUME NEW S, NEW q \in Seq(S), NEW e \in S
    PROVE  Append(q, e) \in Seq(S) /\ Range(Append(q, e)) = Range(q) \cup {e}
<1>1. /\ Append(q, e) \in Seq(S) /\ DOMAIN Append(q, e) = 1..Len(q) + 1 /\ DOMAIN q = 1..Len(q)
      /\ Len(q) \in Nat /\ Append(q, e)[Len(q) + 1] = e
      /\ \A i \in 1..Len(q) : Append(q, e)[i] = q[i]
  BY AppendProperties, LenProperties
<1> DEFINE a == Append(q, e)
<1> HIDE DEF a
<1>2. Range(a) = Range(q) \cup {e}
  BY <1>1 DEF Range, a
<1> QED BY <1>1, <1>2 DEF a

\* Reading a queue takes its first message and no other.
LEMMA QueueRead ==
    ASSUME NEW S, NEW q \in Seq(S), q # <<>>
    PROVE  /\ Head(q) \in S /\ Tail(q) \in Seq(S)
           /\ Range(q) = {Head(q)} \cup Range(Tail(q))
<1>1. /\ Head(q) \in S /\ Tail(q) \in Seq(S) /\ Head(q) = q[1]
      /\ DOMAIN q = 1..Len(q) /\ Len(q) \in Nat \ {0}
      /\ DOMAIN Tail(q) = 1..Len(q) - 1 /\ \A i \in 1..Len(q) - 1 : Tail(q)[i] = q[i + 1]
  BY EmptySeq, LenProperties, HeadTailProperties
<1>2. ASSUME NEW i \in 1..Len(q), i # 1
      PROVE  \E k \in 1..Len(q) - 1 : q[i] = Tail(q)[k]
  <2>1. i - 1 \in 1..Len(q) - 1 /\ (i - 1) + 1 = i
    BY <1>1, <1>2
  <2>2. Tail(q)[i - 1] = q[(i - 1) + 1]
    BY <1>1, <2>1
  <2> QED BY <2>1, <2>2
<1>3. \A i \in 1..Len(q) - 1 : i + 1 \in 1..Len(q)
  BY <1>1
<1>4. 1 \in 1..Len(q)
  BY <1>1
<1> DEFINE t == Tail(q)
<1> HIDE DEF t
<1>5. ASSUME NEW x \in Range(q) PROVE x \in {Head(q)} \cup Range(t)
  <2>1. PICK i \in 1..Len(q) : x = q[i]
    BY <1>1 DEF Range
  <2>2. i = 1 => x = Head(q)
    BY <1>1, <2>1
  <2>3. i # 1 => \E k \in DOMAIN t : x = t[k]
    BY <1>1, <1>2, <2>1 DEF t
  <2> QED BY <2>2, <2>3 DEF Range
<1>6. Head(q) \in Range(q)
  BY <1>1, <1>4 DEF Range
<1>7. ASSUME NEW x \in Range(t) PROVE x \in Range(q)
  <2>1. PICK k \in 1..Len(q) - 1 : x = t[k]
    BY <1>1 DEF Range, t
  <2>2. x = q[k + 1] /\ k + 1 \in DOMAIN q
    BY <1>1, <1>3, <2>1 DEF t
  <2> QED BY <2>2 DEF Range
<1>8. Range(q) = {Head(q)} \cup Range(t)
  BY <1>5, <1>6, <1>7
<1> QED BY <1>1, <1>8 DEF t

\* There is nothing in an empty queue.
LEMMA EmptyQueue ==
    ASSUME NEW S
    PROVE  <<>> \in Seq(S) /\ Range(<<>>) = {}
BY EmptySeq DEF Range

\* A watch comes nearer to a file that is below its directory.
LEMMA NearingLonger ==
    ASSUME NEW d \in Seq(STRING), NEW f \in WatchedFile, Nearing(d, f)
    PROVE  IsPrefix(d, f.path) /\ Len(f.path) > Len(d)
<1>1. Len(d) \in Nat /\ Len(f.path) \in Nat
  BY FileType, LenProperties
<1>2. \A i, k \in Nat : i > k + 1 \/ i = k + 1 => i > k
  OBVIOUS
<1> QED BY <1>1, <1>2 DEF Nearing

\* A watch that loses nothing remains right.
LEMMA SeesStay ==
    ASSUME NEW d, NEW w, NEW w2, NEW f, NEW ex, NEW ex2, NEW t, NEW t2, NEW er, NEW er2,
           Sees(d, w, f, ex, t, er), w2.live <=> w.live, ex2 \subseteq ex, f \in t => f \in t2,
           Range(w.queue) \subseteq Range(w2.queue),
           \A x : <<f, x>> \in er => <<f, x>> \in er2
    PROVE  Sees(d, w2, f, ex2, t2, er2)
BY DEF Sees

\* A path is created: the watch of its directory is told.
LEMMA SeesCreate ==
    ASSUME NEW d \in Paths, NEW w, NEW w2, NEW f \in WatchedFile, NEW ex, NEW t, NEW er,
           NEW p \in Paths,
           Sees(d, w, f, ex, t, er), w2.live <=> w.live,
           Range(w.queue) \subseteq Range(w2.queue),
           w.live /\ d = Parent(p) => Inotify("create", p) \in Range(w2.queue)
    PROVE  Sees(d, w2, f, ex \cup {p}, t, er)
<1>1. f.path \in Seq(STRING) /\ d \in Seq(STRING) /\ Len(d) \in Nat /\ Len(f.path) \in Nat
  BY FileType, PathType, LenProperties
<1>2. Nearing(d, f) => Parent(StepTo(d, f.path)) = d
  BY <1>1, NearingLonger, ParentOfStep
<1> QED BY <1>2 DEF Sees

\* A path is deleted: what was told of it counts no more, and its own watch
\* gets its last event.
LEMMA SeesDelete ==
    ASSUME NEW d, NEW w, NEW w2, NEW f, NEW ex, NEW t, NEW er, NEW p \in Paths,
           Sees(d, w, f, ex, t, er), w2.live <=> w.live /\ d # p,
           Range(w.queue) \subseteq Range(w2.queue),
           w.live /\ d = p => Inotify("ignored", p) \in Range(w2.queue)
    PROVE  Sees(d, w2, f, ex \ {p}, {g \in t : g.path # p}, {e \in er : e[2] # p})
<1>1. NULL # p
  BY NullIsNothing
<1>2. \A x : <<f, x>> \in er /\ x # p => <<f, x>> \in {e \in er : e[2] # p}
  OBVIOUS
<1> QED BY <1>1, <1>2 DEF Sees

\* A file comes under a watch, and what is there already is noted.
LEMMA SeesFresh ==
    ASSUME NEW d \in Seq(STRING), NEW w, NEW f \in WatchedFile, NEW ex \in SUBSET Paths,
           NEW t, NEW er,
           Plain(f) => StrPrefix(d, f.path),
           Len(f.path) > Len(d) /\ StepTo(d, f.path) \in ex => <<f, StepTo(d, f.path)>> \in er,
           ~w.live => <<f, NULL>> \in er
    PROVE  Sees(d, w, f, ex, t, er)
<1>1. f.path \in Seq(STRING) /\ Len(d) \in Nat /\ Len(f.path) \in Nat
  BY FileType, LenProperties
<1>2. ASSUME f.path \in ex, d = Parent(f.path)
      PROVE  Len(f.path) > Len(d) /\ StepTo(d, f.path) = f.path
  <2>1. f.path # <<>>
    BY <1>2, PathType
  <2> QED BY <1>1, <1>2, <2>1, StepOfParent
<1>3. Nearing(d, f) => Len(f.path) > Len(d)
  BY NearingLonger
<1> QED BY <1>2, <1>3 DEF Sees

\* File f can stay where it is when watch d reads message m: the message is not
\* the one that it waits for, or the file has been told.
Handled(d, m, f, ex, t) ==
    /\ Plain(f) =>
        /\ m.what = "ignored" => f.path = d /\ "delete" \in f.events
        /\ m = Inotify("create", f.path) /\ "create" \in f.events /\ f.path \in ex => f \in t
    /\ ~(/\ Nearing(d, f) /\ m = Inotify("create", StepTo(d, f.path))
         /\ StepTo(d, f.path) \in ex \cap Dirs)

\* A watch reads a message, and the file stays: then the message was not the
\* one that the file waited for, or it was told.
LEMMA SeesRead ==
    ASSUME NEW d, NEW w, NEW w2, NEW f, NEW ex, NEW t, NEW t2, NEW er, NEW er2, NEW m \in Message,
           Sees(d, w, f, ex, t, er), w2.live <=> w.live, f \in t => f \in t2,
           Range(w.queue) \subseteq {m} \cup Range(w2.queue),
           \A x : <<f, x>> \in er => <<f, x>> \in er2,
           Handled(d, m, f, ex, t2)
    PROVE  Sees(d, w2, f, ex, t2, er2)
<1>1. Inotify("ignored", d).what = "ignored"
  BY DEF Inotify
<1> QED BY <1>1 DEF Sees, Handled

-----------------------------------------------------------------------------
(* The tables of watches                                                   *)

\* y is dirs with a watch of directory d that has the files F, is live if l, and
\* has the messages q to read.
Changed(y, dirs, d, F, l, q) ==
    /\ DOMAIN y = DOMAIN dirs \cup {d} /\ Table(y)
    /\ \A e \in DOMAIN dirs : e # d => y[e] = dirs[e]
    /\ y[d].files = F /\ (y[d].live <=> l) /\ y[d].queue = q

\* The three fields of a watch change one at a time: its files, ...
LEMMA FilesChange ==
    ASSUME NEW dirs, Table(dirs), NEW d \in DOMAIN dirs,
           NEW F \in SUBSET WatchedFile, NEW y, y = [dirs EXCEPT ![d].files = F]
    PROVE  Changed(y, dirs, d, F, dirs[d].live, dirs[d].queue)
BY DEF Changed, Table, Watch

\* ... its queue, ...
LEMMA QueueChange ==
    ASSUME NEW dirs, Table(dirs), NEW d \in DOMAIN dirs,
           NEW q \in Seq(Message), NEW y, y = [dirs EXCEPT ![d].queue = q]
    PROVE  Changed(y, dirs, d, dirs[d].files, dirs[d].live, q)
BY DEF Changed, Table, Watch

\* ... or whether it is live.
LEMMA LiveChange ==
    ASSUME NEW dirs, Table(dirs), NEW d \in DOMAIN dirs,
           NEW y, y = [dirs EXCEPT ![d].live = FALSE]
    PROVE  Changed(y, dirs, d, dirs[d].files, FALSE, dirs[d].queue)
BY DEF Changed, Table, Watch

\* watched_dir_new makes a live watch with nothing to read.
LEMMA NewWatch ==
    ASSUME NEW dirs, Table(dirs), NEW d, d \notin DOMAIN dirs,
           NEW F \in SUBSET WatchedFile, NEW y, y = watched_dir_new(dirs, d, F)
    PROVE  Changed(y, dirs, d, F, TRUE, <<>>)
<1> DEFINE n == [files |-> F, live |-> TRUE, queue |-> <<>>]
<1>1. n \in Watch /\ n.files = F /\ n.live /\ n.queue = <<>>
  BY EmptyQueue DEF Watch
<1>2. y = [e \in DOMAIN dirs \cup {d} |-> IF e = d THEN n ELSE dirs[e]]
  BY DEF watched_dir_new
<1> HIDE DEF n
<1>3. /\ DOMAIN y = DOMAIN dirs \cup {d} /\ y[d] = n
      /\ \A e \in DOMAIN dirs : e # d => y[e] = dirs[e]
  BY <1>2
<1>4. \A e \in DOMAIN y : y[e] \in Watch
  BY <1>1, <1>3 DEF Table
<1>5. y \in [DOMAIN y -> Watch]
  BY <1>2, <1>4
<1> QED BY <1>1, <1>3, <1>5 DEF Changed, Table

\* y is dirs without the watch of d.
Freed(y, dirs, d) ==
    DOMAIN y = DOMAIN dirs \ {d} /\ Table(y) /\ \A e \in DOMAIN y : y[e] = dirs[e]

\* Freeing a watch leaves the others.
LEMMA WatchFreed ==
    ASSUME NEW dirs, Table(dirs), NEW d, NEW y, y = Without(dirs, d)
    PROVE  Freed(y, dirs, d)
BY DEF Freed, Without, Table

\* Where no file is added, the tables remain as they should be.
LEMMA Shrinks ==
    ASSUME NEW dirs, NEW ex, NEW K, NEW L, Watches(dirs, ex), Owned(dirs, K, L),
           NEW y, DOMAIN y \subseteq DOMAIN dirs, Table(y),
           \A e \in DOMAIN y : y[e].files \subseteq dirs[e].files /\ (y[e].live => dirs[e].live),
           NEW K2, NEW L2, L2 \subseteq K2,
           \A e \in DOMAIN y : y[e].files \subseteq K2 /\ y[e].files \cap L2 = {}
    PROVE  Watches(y, ex) /\ Owned(y, K2, L2)
<1>1. Watches(y, ex)
  BY DEF Watches
<1>2. \A d, e \in DOMAIN y : d # e => y[d].files \cap y[e].files = {}
  BY DEF Owned
<1> QED BY <1>1, <1>2 DEF Owned

\* What came too early for a file of dirs is still noted.
StillEarly(dirs, er, er2) ==
    \A e \in DOMAIN dirs : \A f \in dirs[e].files : \A x : <<f, x>> \in er => <<f, x>> \in er2

\* What comes too early for the files F, which are put under the watch of d.
Noted(dirs, d, F, ex, er) ==
    \A f \in F :
        /\ Plain(f) => StrPrefix(d, f.path)
        /\ Len(f.path) > Len(d) /\ StepTo(d, f.path) \in ex => <<f, StepTo(d, f.path)>> \in er
        /\ d \in DOMAIN dirs /\ ~dirs[d].live => <<f, NULL>> \in er

\* Files that are in no table are put under the watch of a directory that is
\* watched or exists.
LEMMA Places ==
    ASSUME NEW dirs, NEW ex \in SUBSET Paths, NEW K, NEW L, NEW t, NEW t2, NEW er, NEW er2,
           Watches(dirs, ex), Owned(dirs, K, L), Seeing(dirs, ex, t, er),
           NEW K2, K \subseteq K2, NEW F \in SUBSET WatchedFile, F \subseteq K2, F \cap L = {},
           \A e \in DOMAIN dirs : F \cap dirs[e].files = {},
           NEW d \in Seq(STRING), d \in DOMAIN dirs \cup ex \cup {<<>>},
           NEW y \in Placed(dirs, d, F), PlacedIn(y, d, F),
           t \subseteq t2,
           StillEarly(dirs, er, er2), Noted(dirs, d, F, ex, er2)
    PROVE  Watches(y, ex) /\ Owned(y, K2, L) /\ Seeing(y, ex, t2, er2)
<1>0. Table(dirs)
  BY DEF Watches
<1>1. CASE d \in DOMAIN dirs
  <2>1. y = [dirs EXCEPT ![d].files = dirs[d].files \cup F]
    BY <1>1 DEF Placed
  <2>2. dirs[d].files \cup F \in SUBSET WatchedFile
    BY <1>0, <1>1 DEF Table, Watch
  <2>31. Changed(y, dirs, d, dirs[d].files \cup F, dirs[d].live, dirs[d].queue)
    BY <1>0, <1>1, <2>1, <2>2, FilesChange
  <2>3. /\ DOMAIN y = DOMAIN dirs /\ Table(y)
        /\ \A e \in DOMAIN dirs : e # d => y[e] = dirs[e]
        /\ y[d].files = dirs[d].files \cup F /\ (y[d].live <=> dirs[d].live) /\ y[d].queue = dirs[d].queue
    BY <1>1, <2>31 DEF Changed
  <2>4. Watches(y, ex)
    BY <1>1, <2>3 DEF Watches
  <2>5. Owned(y, K2, L)
    <3>1. L \subseteq K2
      BY DEF Owned
    <3>2. ASSUME NEW e \in DOMAIN y PROVE y[e].files \subseteq K2 /\ y[e].files \cap L = {}
      BY <1>1, <2>3 DEF Owned
    <3>3. ASSUME NEW a \in DOMAIN y, NEW e \in DOMAIN y, a # e PROVE y[a].files \cap y[e].files = {}
      BY <1>1, <2>3, <3>3 DEF Owned
    <3> QED BY <3>1, <3>2, <3>3 DEF Owned
  <2>6. ASSUME NEW e \in DOMAIN y, NEW f \in y[e].files
        PROVE  Sees(e, y[e], f, ex, t2, er2)
    <3>1. CASE f \in dirs[e].files
      <4>1. Sees(e, dirs[e], f, ex, t, er)
        BY <2>3, <3>1 DEF Seeing
      <4>2. (y[e].live <=> dirs[e].live) /\ y[e].queue = dirs[e].queue
        BY <2>3
      <4>3. \A x : <<f, x>> \in er => <<f, x>> \in er2
        BY <2>3, <3>1 DEF StillEarly
      <4> QED BY <4>1, <4>2, <4>3, SeesStay
    <3>2. CASE f \notin dirs[e].files
      <4>1. e = d /\ f \in F
        BY <2>3, <3>2
      <4>2. ~y[d].live => <<f, NULL>> \in er2
        BY <1>1, <2>3, <4>1 DEF Noted
      <4>3. Sees(d, y[d], f, ex, t2, er2)
        BY <4>1, <4>2, SeesFresh DEF Noted
      <4> QED BY <4>1, <4>3
    <3> QED BY <3>1, <3>2
  <2> QED BY <2>4, <2>5, <2>6 DEF Seeing
<1>2. CASE d \notin DOMAIN dirs
  <2>1. d \in ex /\ y = watched_dir_new(dirs, d, F)
    BY <1>2 DEF Placed, PlacedIn
  <2>21. Changed(y, dirs, d, F, TRUE, <<>>)
    BY <1>0, <1>2, <2>1, NewWatch
  <2>2. /\ DOMAIN y = DOMAIN dirs \cup {d} /\ Table(y)
        /\ \A e \in DOMAIN dirs : y[e] = dirs[e]
        /\ y[d].files = F /\ y[d].live /\ y[d].queue = <<>>
    BY <1>2, <2>21 DEF Changed
  <2>4. Watches(y, ex)
    BY <2>1, <2>2 DEF Watches
  <2>5. Owned(y, K2, L)
    <3>1. L \subseteq K2
      BY DEF Owned
    <3>2. ASSUME NEW e \in DOMAIN y PROVE y[e].files \subseteq K2 /\ y[e].files \cap L = {}
      BY <2>2 DEF Owned
    <3>3. ASSUME NEW a \in DOMAIN y, NEW e \in DOMAIN y, a # e PROVE y[a].files \cap y[e].files = {}
      BY <2>2, <3>3 DEF Owned
    <3> QED BY <3>1, <3>2, <3>3 DEF Owned
  <2>6. ASSUME NEW e \in DOMAIN y, NEW f \in y[e].files
        PROVE  Sees(e, y[e], f, ex, t2, er2)
    <3>1. CASE e \in DOMAIN dirs
      <4>1. f \in dirs[e].files /\ y[e] = dirs[e]
        BY <2>2, <3>1
      <4>2. Sees(e, dirs[e], f, ex, t, er)
        BY <3>1, <4>1 DEF Seeing
      <4>3. \A x : <<f, x>> \in er => <<f, x>> \in er2
        BY <3>1, <4>1 DEF StillEarly
      <4> QED BY <4>1, <4>2, <4>3, SeesStay
    <3>2. CASE e \notin DOMAIN dirs
      <4>1. e = d /\ f \in F /\ y[d].live
        BY <2>2, <3>2
      <4>3. Sees(d, y[d], f, ex, t2, er2)
        BY <4>1, SeesFresh DEF Noted
      <4> QED BY <4>1, <4>3
    <3> QED BY <3>1, <3>2
  <2> QED BY <2>4, <2>5, <2>6 DEF Seeing
<1> QED BY <1>1, <1>2

-----------------------------------------------------------------------------
(* Steps that leave the watches alone                                      *)

\* The files of the known jobs are watched files.
LEMMA KnownType ==
    ASSUME BridgeTypes
    PROVE  Known \in SUBSET WatchedFile
BY DEF BridgeTypes, Known

\* A step that leaves tables and paths alone and forgets no file keeps the tables
\* right.
LEMMA TablesStay ==
    ASSUME TablesRight, UNCHANGED <<watched_dirs, exists, lost, early>>,
           \A f \in Known : f \in told => f \in told', Known \subseteq Known'
    PROVE  TablesRight'
<1>1. Watches(watched_dirs, exists)'
  BY DEF TablesRight
<1>2. Owned(watched_dirs, Known, lost)'
  <2> DEFINE K == Known'
  <2>1. Known \subseteq K
    OBVIOUS
  <2> HIDE DEF K
  <2>2. Owned(watched_dirs, K, lost)
    BY <2>1 DEF TablesRight, Owned
  <2> QED BY <2>2 DEF K
<1>3. ASSUME NEW d \in DOMAIN watched_dirs, NEW f \in watched_dirs[d].files
      PROVE  Sees(d, watched_dirs[d], f, exists, told', early)
  <2>1. Sees(d, watched_dirs[d], f, exists, told, early)
    BY DEF TablesRight, Seeing
  <2>2. f \in Known
    BY DEF TablesRight, Owned
  <2> QED BY <2>1, <2>2, SeesStay
<1>4. Seeing(watched_dirs, exists, told, early)'
  BY <1>3 DEF Seeing
<1> QED BY <1>1, <1>2, <1>4 DEF TablesRight

\* No watches, no jobs: the state in which the bridge starts.
IsDown ==
    /\ exists \subseteq Paths /\ classes \subseteq Job
    /\ link = "down" /\ signals = <<>> /\ todo = <<>> /\ adding = NULL
    /\ jobs = <<>> /\ watched_dirs = <<>> /\ lost = {} /\ told = {} /\ early = {}

\* A bridge that has just started, or has ended, knows nothing and is right.
LEMMA NothingKnown == IsDown => BridgeInv
<1> SUFFICES ASSUME IsDown PROVE BridgeInv
  OBVIOUS
<1> USE DEF IsDown
<1>1. /\ DOMAIN jobs = {} /\ jobs \in [DOMAIN jobs -> SUBSET WatchedFile]
      /\ DOMAIN watched_dirs = {} /\ watched_dirs \in [DOMAIN watched_dirs -> Watch]
  BY EmptySeq
<1>2. BridgeTypes
  BY <1>1, EmptySeq DEF BridgeTypes
<1>3. TablesRight
  BY <1>1 DEF TablesRight, Watches, Table, Owned, Seeing
<1> QED BY <1>1, <1>2, <1>3 DEF BridgeInv, AtWork, Announced

\* The bridge ends, or is disconnected.
LEMMA DownStep ==
    ASSUME BridgeInv, Down, UNCHANGED worldVars
    PROVE  BridgeInv'
<1>1. exists' \subseteq Paths /\ classes' \subseteq Job
  BY DEF BridgeInv, BridgeTypes, worldVars
<1>2. IsDown'
  BY <1>1 DEF IsDown, Down
<1> QED BY <1>2, NothingKnown, PTL

\* The bridge connects to init and to its signals.
LEMMA ConnectStep ==
    ASSUME BridgeInv, Connect
    PROVE  BridgeInv'
<1>0. Known' = Known
  BY DEF Connect, Known
<1>1. TablesRight'
  BY <1>0, TablesStay DEF BridgeInv, Connect, worldVars
<1>2. BridgeTypes' /\ AtWork' /\ Announced'
  BY DEF BridgeInv, Connect, worldVars, BridgeTypes, AtWork, Announced
<1> QED BY <1>1, <1>2 DEF BridgeInv

\* The list of classes that init sends names classes.
LEMMA ListOf ==
    ASSUME NEW S \in SUBSET Job
    PROVE  SetToSeq(S) \in Seq(Job)
<1>1. IsFiniteSet(S)
  BY WorldAtFirst, FS_Subset
<1>2. Cardinality(S) \in Nat /\ ExistsBijection(1..Cardinality(S), S)
  BY <1>1, FS_CardinalityType
<1>3. \E f \in [1..Cardinality(S) -> S] : IsInjective(f)
  BY <1>2 DEF ExistsBijection, Bijection, Injection
<1>4. SetToSeq(S) \in [1..Cardinality(S) -> S]
  BY <1>3 DEF SetToSeq
<1>5. SetToSeq(S) \in [1..Cardinality(S) -> Job]
  BY <1>4
<1> QED BY <1>2, <1>5

\* init sends the list of its classes.
LEMMA GetAllJobsStep ==
    ASSUME BridgeInv, GetAllJobs
    PROVE  BridgeInv'
<1>0. Known' = Known
  BY DEF GetAllJobs, Known
<1>1. TablesRight'
  BY <1>0, TablesStay DEF BridgeInv, GetAllJobs, worldVars
<1>2. todo' \in Seq(Job)
  BY ListOf DEF BridgeInv, BridgeTypes, GetAllJobs
<1>3. BridgeTypes' /\ AtWork' /\ Announced'
  BY <1>2 DEF BridgeInv, GetAllJobs, worldVars, BridgeTypes, AtWork, Announced
<1> QED BY <1>1, <1>3 DEF BridgeInv

\* init adds or removes a class: a signal goes out with the change.
LEMMA ClassChangesStep ==
    ASSUME BridgeInv, NEW j \in Job, ClassChanges(j)
    PROVE  BridgeInv'
<1>0. Known' = Known
  BY DEF ClassChanges, Known
<1>1. TablesRight'
  BY <1>0, TablesStay DEF BridgeInv, ClassChanges
<1>2. AtWork'
  BY DEF BridgeInv, ClassChanges, AtWork
<1> DEFINE s == [job |-> j, added |-> j \notin classes]
<1>3. s \in [job : Job, added : BOOLEAN] /\ s.job = j /\ (s.added <=> j \notin classes)
  OBVIOUS
<1>4. (link = "down" => signals' = signals) /\ (link # "down" => signals' = Append(signals, s))
  BY Zenon DEF ClassChanges
<1> HIDE DEF s
<1> DEFINE S == [job : Job, added : BOOLEAN]
<1>5. link # "down" => signals' \in Seq(S) /\ Range(signals') = Range(signals) \cup {s}
  <2>1. signals \in Seq(S) /\ s \in S
    BY <1>3 DEF BridgeInv, BridgeTypes
  <2> HIDE DEF S
  <2>2. Append(signals, s) \in Seq(S) /\ Range(Append(signals, s)) = Range(signals) \cup {s}
    BY <2>1, QueueGrows
  <2> QED BY <1>4, <2>2
<1>6. BridgeTypes'
  BY <1>4, <1>5 DEF BridgeInv, BridgeTypes, ClassChanges
<1>7. Announced'
  <2>1. link' = link /\ jobs' = jobs /\ classes' \cup {j} = classes \cup {j} /\ (j \notin classes' <=> j \in classes)
    BY DEF ClassChanges
  <2>2. CASE link = "down"
    BY <2>1, <2>2 DEF BridgeInv, Announced
  <2>3. CASE link # "down"
    <3>1. ASSUME NEW k \in DOMAIN jobs, k \notin classes'
          PROVE  \E x \in Range(signals') : x.job = k /\ ~x.added
      <4>1. CASE k = j
        BY <1>3, <1>5, <2>1, <2>3, <3>1, <4>1
      <4>2. CASE k # j
        <5>1. k \notin classes
          BY <2>1, <3>1, <4>2
        <5> QED BY <1>5, <2>3, <5>1 DEF BridgeInv, Announced
      <4> QED BY <4>1, <4>2
    <3> QED BY <2>1, <2>3, <3>1 DEF Announced
  <2> QED BY <2>2, <2>3
<1> QED BY <1>1, <1>2, <1>6, <1>7 DEF BridgeInv

\* upstart_job_added ends; a job without files is forgotten again.
LEMMA AddedStep ==
    ASSUME BridgeInv, Added
    PROVE  BridgeInv'
<1>1. /\ adding.job \in DOMAIN jobs /\ jobs \in [DOMAIN jobs -> SUBSET WatchedFile]
      /\ jobs' = IF jobs[adding.job] = {} THEN [k \in DOMAIN jobs \ {adding.job} |-> jobs[k]] ELSE jobs
  BY DEF Added, BridgeInv, AtWork, BridgeTypes
<1>2. /\ DOMAIN jobs' \subseteq DOMAIN jobs
      /\ \A k \in DOMAIN jobs' : jobs'[k] = jobs[k]
      /\ \A k \in DOMAIN jobs \ DOMAIN jobs' : jobs[k] = {}
      /\ jobs' \in [DOMAIN jobs' -> SUBSET WatchedFile]
  <2>1. CASE jobs[adding.job] = {}
    BY <1>1, <2>1
  <2>2. CASE jobs[adding.job] # {}
    BY <1>1, <2>2
  <2> QED BY <2>1, <2>2
<1>3. Known' = Known
  BY <1>2 DEF Known
<1>4. TablesRight'
  BY <1>3, TablesStay DEF BridgeInv, Added, worldVars
<1>5. BridgeTypes'
  BY <1>2 DEF BridgeInv, BridgeTypes, Added, worldVars
<1>6. AtWork' /\ Announced'
  BY <1>2 DEF BridgeInv, AtWork, Announced, Added, worldVars
<1> QED BY <1>4, <1>5, <1>6 DEF BridgeInv

\* What job_add_file makes of a file event that names a file.
LEMMA FileMade ==
    ASSUME AtWork, adding # NULL, adding.n <= Len(FileEvents[adding.job]),
           ReadEnv(FileEvents[adding.job][adding.n]).path # NULL
    PROVE  watched_file_new(adding.job, adding.n, ReadEnv(FileEvents[adding.job][adding.n])) \in WatchedFile
<1>1. adding.job \in Job /\ adding.n \in Nat /\ adding.n >= 1
  BY DEF AtWork, Adding
<1>2. DOMAIN FileEvents[adding.job] = 1..Len(FileEvents[adding.job]) /\ Len(FileEvents[adding.job]) \in Nat
  BY <1>1, EventsAreListed, LenProperties
<1>3. adding.n \in DOMAIN FileEvents[adding.job]
  BY <1>1, <1>2
<1> QED BY <1>1, <1>3 DEF WatchedFile

\* job_add_file makes the file of the next file event, which no table has yet.
LEMMA AddFileStep ==
    ASSUME BridgeInv, job_add_file
    PROVE  BridgeInv'
<1> DEFINE j == adding.job
           r == ReadEnv(FileEvents[j][adding.n])
           f == watched_file_new(j, adding.n, r)
<1>0. /\ adding # NULL /\ adding.file = NULL /\ adding.n <= Len(FileEvents[j])
      /\ adding \in Adding /\ adding.n >= 1 /\ j \in DOMAIN jobs
      /\ \A g \in jobs[j] : g.n < adding.n
  BY DEF job_add_file, BridgeInv, AtWork
<1>1. CASE Abort
  BY <1>1, DownStep DEF Abort
<1>2. CASE /\ adding' = [adding EXCEPT !.n = @ + 1]
           /\ emitted' = {} /\ UNCHANGED told
           /\ UNCHANGED <<worldVars, link, signals, todo, jobs, watched_dirs, lost, early>>
  <2>0. Known' = Known
    BY <1>2 DEF Known
  <2>1. TablesRight'
    BY <1>2, <2>0, TablesStay DEF BridgeInv, worldVars
  <2>2. BridgeTypes' /\ Announced'
    BY <1>2 DEF BridgeInv, BridgeTypes, Announced, worldVars
  <2>3. AtWork'
    <3>1. /\ adding' \in Adding /\ adding'.n = adding.n + 1 /\ adding'.job = j /\ adding'.file = NULL
          /\ adding.n \in Nat
      BY <1>0, <1>2 DEF Adding
    <3>2. ASSUME NEW g \in jobs[j] PROVE g.n < adding'.n
      <4>1. g.n \in Nat /\ g.n < adding.n
        BY <1>0, FileType DEF BridgeInv, BridgeTypes
      <4> QED BY <3>1, <4>1
    <3>3. jobs' = jobs
      BY <1>2
    <3> QED BY <1>0, <3>1, <3>2, <3>3 DEF AtWork
  <2> QED BY <2>1, <2>2, <2>3 DEF BridgeInv
<1>3. CASE /\ r.path # NULL
           /\ adding' = [adding EXCEPT !.file = f]
           /\ told' = told \cup ToldBy(emitted', Known \cup {f})
           /\ UNCHANGED <<worldVars, link, signals, todo, jobs, watched_dirs, lost, early>>
  <2>0. Known' = Known
    BY <1>3 DEF Known
  <2>1. TablesRight'
    BY <1>3, <2>0, TablesStay DEF BridgeInv, worldVars
  <2>2. f \in WatchedFile /\ f.job = j /\ f.n = adding.n
    <3>1. f \in WatchedFile
      BY <1>0, <1>3, FileMade DEF BridgeInv
    <3> QED BY <3>1 DEF watched_file_new
  <2> HIDE DEF f
  <2>3. told' \subseteq WatchedFile
    BY <1>3, <2>2, KnownType DEF BridgeInv, BridgeTypes, ToldBy
  <2>4. BridgeTypes' /\ Announced'
    BY <1>3, <2>3 DEF BridgeInv, BridgeTypes, Announced, worldVars
  <2>5. AtWork'
    <3>1. adding' \in Adding /\ adding'.n = adding.n /\ adding'.job = j /\ adding'.file = f
      BY <1>0, <1>3, <2>2 DEF Adding
    <3> QED BY <1>0, <1>3, <2>2, <3>1 DEF AtWork
  <2> QED BY <2>1, <2>4, <2>5 DEF BridgeInv
<1> QED BY <1>1, <1>2, <1>3 DEF job_add_file

-----------------------------------------------------------------------------
(* Jobs come and go                                                        *)

FilesOf(j) == IF j \in DOMAIN jobs THEN jobs[j] ELSE {}

\* job_destroy takes the files of a job out of the tables and leaves the others.
LEMMA ForgetTables ==
    ASSUME BridgeTypes, TablesRight, NEW j, Forget(j), exists' = exists,
           \A f \in Known : f \in FilesOf(j) \/ f \in Known'
    PROVE  TablesRight' /\ told' \subseteq WatchedFile
<1> DEFINE F == FilesOf(j)
           y == watched_dirs'
           K == Known'
<1>1. /\ y = [d \in DOMAIN watched_dirs |-> [watched_dirs[d] EXCEPT !.files = watched_dirs[d].files \ F]]
      /\ lost' = lost \ F /\ told' = told \ F /\ early' = {e \in early : e[1] \notin F}
  BY DEF Forget, FilesOf, NotOf
<1>2. \A f \in Known : f \in F \/ f \in K
  OBVIOUS
<1>3. Watches(watched_dirs, exists) /\ Owned(watched_dirs, Known, lost) /\ Seeing(watched_dirs, exists, told, early)
  BY DEF TablesRight
<1> HIDE DEF F, y, K
<1>4. ASSUME NEW w \in Watch
      PROVE  LET v == [w EXCEPT !.files = w.files \ F]
             IN  v \in Watch /\ v.files = w.files \ F /\ (v.live <=> w.live) /\ v.queue = w.queue
  BY DEF Watch
<1>5. /\ DOMAIN y = DOMAIN watched_dirs /\ Table(y)
      /\ \A d \in DOMAIN y : /\ y[d].files = watched_dirs[d].files \ F
                             /\ (y[d].live <=> watched_dirs[d].live)
                             /\ y[d].queue = watched_dirs[d].queue
  <2>1. DOMAIN y = DOMAIN watched_dirs
    BY <1>1
  <2>2. ASSUME NEW d \in DOMAIN y
        PROVE  /\ y[d] \in Watch /\ y[d].files = watched_dirs[d].files \ F
               /\ (y[d].live <=> watched_dirs[d].live)
               /\ y[d].queue = watched_dirs[d].queue
    <3>1. watched_dirs[d] \in Watch
      BY <1>3, <2>1 DEF Watches, Table
    <3>2. y[d] = [watched_dirs[d] EXCEPT !.files = watched_dirs[d].files \ F]
      BY <1>1, <2>1
    <3> QED BY <1>4, <3>1, <3>2
  <2>3. Table(y)
    BY <1>1, <2>1, <2>2 DEF Table
  <2> QED BY <2>1, <2>2, <2>3
<1>6. Watches(y, exists) /\ Owned(y, K, lost \ F)
  <2>1. lost \ F \subseteq K
    BY <1>2, <1>3 DEF Owned
  <2>2. \A d \in DOMAIN y : y[d].files \subseteq K /\ y[d].files \cap (lost \ F) = {}
    BY <1>2, <1>3, <1>5 DEF Owned
  <2>3. DOMAIN y \subseteq DOMAIN watched_dirs /\ Table(y)
        /\ \A d \in DOMAIN y : y[d].files \subseteq watched_dirs[d].files /\ (y[d].live => watched_dirs[d].live)
    BY <1>5
  <2> QED BY <1>3, <2>1, <2>2, <2>3, Shrinks
<1>7. ASSUME NEW d \in DOMAIN y, NEW f \in y[d].files
      PROVE  Sees(d, y[d], f, exists, told', early')
  <2>1. d \in DOMAIN watched_dirs /\ f \in watched_dirs[d].files /\ f \notin F
    BY <1>5
  <2>2. Sees(d, watched_dirs[d], f, exists, told, early)
    BY <1>3, <2>1 DEF Seeing
  <2>3. f \in told => f \in told'
    BY <1>1, <2>1
  <2>4. \A x : <<f, x>> \in early => <<f, x>> \in early'
    BY <1>1, <2>1
  <2>5. (y[d].live <=> watched_dirs[d].live) /\ Range(watched_dirs[d].queue) \subseteq Range(y[d].queue)
    BY <1>5
  <2> QED BY <2>2, <2>3, <2>4, <2>5, SeesStay
<1>8. Seeing(y, exists, told', early')
  BY <1>7 DEF Seeing
<1>9. told' \subseteq WatchedFile
  BY <1>1 DEF BridgeTypes
<1> QED BY <1>1, <1>6, <1>8, <1>9 DEF TablesRight, y, K

\* upstart_job_added begins: a job that is known already is replaced.
LEMMA JobAdded ==
    ASSUME BridgeInv, NEW j \in Job, upstart_job_added(j), adding = NULL,
           UNCHANGED <<worldVars, link>>
    PROVE  /\ TablesRight' /\ AtWork' /\ told' \subseteq WatchedFile
           /\ DOMAIN jobs' \subseteq Job /\ jobs' \in [DOMAIN jobs' -> SUBSET WatchedFile]
           /\ \A k \in DOMAIN jobs' : \A f \in jobs'[k] : f.job = k
           /\ DOMAIN jobs' \subseteq DOMAIN jobs \cup classes
<1>1. CASE j \notin classes
  <2>1. UNCHANGED <<watched_dirs, lost, told, early, jobs, adding, exists>>
    BY <1>1 DEF upstart_job_added, worldVars
  <2>2. Known' = Known
    BY <2>1 DEF Known
  <2>3. TablesRight'
    BY <2>1, <2>2, TablesStay DEF BridgeInv
  <2> QED BY <2>1, <2>3 DEF BridgeInv, BridgeTypes, AtWork
<1>2. CASE j \in classes
  <2>1. Forget(j) /\ jobs' = job_new(j) /\ adding' = [job |-> j, n |-> 1, file |-> NULL] /\ exists' = exists
    BY <1>2 DEF upstart_job_added, worldVars
  <2>2. /\ DOMAIN jobs' = DOMAIN jobs \cup {j} /\ jobs'[j] = {}
        /\ \A k \in DOMAIN jobs : k # j => jobs'[k] = jobs[k]
        /\ jobs' \in [DOMAIN jobs' -> SUBSET WatchedFile]
    BY <2>1 DEF job_new, BridgeInv, BridgeTypes
  <2>3. \A f \in Known : f \in FilesOf(j) \/ f \in Known'
    BY <2>2 DEF Known, FilesOf
  <2>4. TablesRight' /\ told' \subseteq WatchedFile
    BY <2>1, <2>3, ForgetTables DEF BridgeInv
  <2>5. AtWork'
    <3>1. adding' \in Adding /\ adding'.job = j /\ adding'.n = 1 /\ adding'.file = NULL
      BY <2>1 DEF Adding
    <3> QED BY <2>2, <3>1 DEF AtWork
  <2>6. DOMAIN jobs' \subseteq Job /\ \A k \in DOMAIN jobs' : \A f \in jobs'[k] : f.job = k
    BY <2>2 DEF BridgeInv, BridgeTypes
  <2> QED BY <1>2, <2>2, <2>4, <2>5, <2>6
<1> QED BY <1>1, <1>2

\* The next class of the list is added.
LEMMA AddListedStep ==
    ASSUME BridgeInv, AddListed
    PROVE  BridgeInv'
<1>1. /\ link = "up" /\ todo # <<>> /\ adding = NULL /\ todo' = Tail(todo)
      /\ upstart_job_added(Head(todo)) /\ UNCHANGED <<worldVars, link, signals>>
  BY DEF AddListed
<1>2. Head(todo) \in Job /\ Tail(todo) \in Seq(Job)
  BY <1>1, QueueRead DEF BridgeInv, BridgeTypes
<1>3. /\ TablesRight' /\ AtWork' /\ told' \subseteq WatchedFile
      /\ DOMAIN jobs' \subseteq Job /\ jobs' \in [DOMAIN jobs' -> SUBSET WatchedFile]
      /\ \A k \in DOMAIN jobs' : \A f \in jobs'[k] : f.job = k
      /\ DOMAIN jobs' \subseteq DOMAIN jobs \cup classes
  BY <1>1, <1>2, JobAdded
<1>4. BridgeTypes'
  BY <1>1, <1>2, <1>3 DEF BridgeInv, BridgeTypes, worldVars
<1>5. Announced'
  BY <1>1, <1>3 DEF BridgeInv, Announced, worldVars
<1> QED BY <1>3, <1>4, <1>5 DEF BridgeInv

\* A signal is read: its class is added or removed.
LEMMA ReadSignalStep ==
    ASSUME BridgeInv, ReadSignal
    PROVE  BridgeInv'
<1> DEFINE s == Head(signals)
           S == [job : Job, added : BOOLEAN]
<1>0. link = "up" /\ adding = NULL /\ todo = <<>> /\ signals # <<>>
  BY DEF ReadSignal, InMainLoop
<1>1. s \in S /\ Tail(signals) \in Seq(S) /\ Range(signals) = {s} \cup Range(Tail(signals))
  <2>1. signals \in Seq(S)
    BY DEF BridgeInv, BridgeTypes
  <2> HIDE DEF S
  <2> QED BY <1>0, <2>1, QueueRead
<1>2. s.job \in Job
  BY <1>1
<1>3. CASE Abort
  BY <1>3, DownStep DEF Abort
<1>4. CASE /\ signals' = Tail(signals) /\ s.added /\ upstart_job_added(s.job)
           /\ UNCHANGED <<worldVars, link, todo>>
  <2>1. /\ TablesRight' /\ AtWork' /\ told' \subseteq WatchedFile
        /\ DOMAIN jobs' \subseteq Job /\ jobs' \in [DOMAIN jobs' -> SUBSET WatchedFile]
        /\ \A k \in DOMAIN jobs' : \A f \in jobs'[k] : f.job = k
        /\ DOMAIN jobs' \subseteq DOMAIN jobs \cup classes
    <3> HIDE DEF s
    <3> QED BY <1>0, <1>2, <1>4, JobAdded
  <2>2. BridgeTypes'
    BY <1>1, <1>4, <2>1 DEF BridgeInv, BridgeTypes, worldVars
  <2>3. ASSUME NEW k \in DOMAIN jobs' \ classes'
        PROVE  \E x \in Range(signals') : x.job = k /\ ~x.added
    <3>1. k \in DOMAIN jobs \ classes
      BY <1>4, <2>1 DEF worldVars
    <3>2. PICK x \in Range(signals) : x.job = k /\ ~x.added
      BY <3>1 DEF BridgeInv, Announced
    <3> HIDE DEF s
    <3>3. x # s
      BY <1>4, <3>2
    <3> QED BY <1>1, <1>4, <3>2, <3>3
  <2>4. Announced'
    BY <1>0, <1>4, <2>3 DEF Announced
  <2> QED BY <2>1, <2>2, <2>4 DEF BridgeInv
<1>5. CASE /\ signals' = Tail(signals) /\ upstart_job_removed(s.job)
           /\ UNCHANGED <<worldVars, link, todo>>
  <2>1. /\ Forget(s.job) /\ adding' = adding /\ exists' = exists
        /\ jobs' = [k \in DOMAIN jobs \ {s.job} |-> jobs[k]]
    BY <1>5 DEF upstart_job_removed, worldVars
  <2>2. /\ DOMAIN jobs' = DOMAIN jobs \ {s.job}
        /\ \A k \in DOMAIN jobs' : jobs'[k] = jobs[k]
        /\ jobs' \in [DOMAIN jobs' -> SUBSET WatchedFile]
    BY <2>1 DEF BridgeInv, BridgeTypes
  <2>3. \A f \in Known : f \in FilesOf(s.job) \/ f \in Known'
    BY <2>2 DEF Known, FilesOf
  <2>4. TablesRight' /\ told' \subseteq WatchedFile
    BY <2>1, <2>3, ForgetTables DEF BridgeInv
  <2>5. BridgeTypes'
    BY <1>1, <1>5, <2>2, <2>4 DEF BridgeInv, BridgeTypes, worldVars
  <2>6. ASSUME NEW k \in DOMAIN jobs' \ classes'
        PROVE  \E x \in Range(signals') : x.job = k /\ ~x.added
    <3>1. k \in DOMAIN jobs \ classes /\ k # s.job
      BY <1>5, <2>2 DEF worldVars
    <3>2. PICK x \in Range(signals) : x.job = k /\ ~x.added
      BY <3>1 DEF BridgeInv, Announced
    <3> HIDE DEF s
    <3>3. x # s
      BY <3>1, <3>2
    <3> QED BY <1>1, <1>5, <3>2, <3>3
  <2>7. Announced' /\ AtWork'
    BY <1>0, <1>5, <2>1, <2>6 DEF Announced, AtWork
  <2> QED BY <2>4, <2>5, <2>7 DEF BridgeInv
<1> QED BY <1>3, <1>4, <1>5 DEF ReadSignal

\* A file that is not placed leaves the tables as they are.
LEMMA NotPlaced ==
    ASSUME NEW dirs, Table(dirs), NEW d, NEW F \in SUBSET WatchedFile,
           NEW y \in Placed(dirs, d, F), ~PlacedIn(y, d, F)
    PROVE  y = dirs /\ d \notin DOMAIN dirs
<1>1. d \notin DOMAIN dirs
  <2> SUFFICES ASSUME d \in DOMAIN dirs PROVE FALSE
    OBVIOUS
  <2>1. y = [dirs EXCEPT ![d].files = dirs[d].files \cup F]
    BY DEF Placed
  <2>2. dirs[d].files \cup F \in SUBSET WatchedFile
    BY DEF Table, Watch
  <2>3. Changed(y, dirs, d, dirs[d].files \cup F, dirs[d].live, dirs[d].queue)
    BY <2>1, <2>2, FilesChange
  <2> QED BY <2>3 DEF Changed, PlacedIn
<1>2. y # watched_dir_new(dirs, d, F)
  <2> SUFFICES ASSUME y = watched_dir_new(dirs, d, F) PROVE FALSE
    OBVIOUS
  <2>1. Changed(y, dirs, d, F, TRUE, <<>>)
    BY <1>1, NewWatch
  <2> QED BY <2>1 DEF Changed, PlacedIn
<1> QED BY <1>1, <1>2 DEF Placed

\* ensure_watched puts the new file under the deepest directory that exists.
LEMMA EnsureWatchedStep ==
    ASSUME BridgeInv, ensure_watched
    PROVE  BridgeInv'
<1> DEFINE f == adding.file
           d == IF ~Plain(f) /\ f.path \in exists THEN f.path
                ELSE find_first_parent(watched_dirs, f.path)
           y == watched_dirs'
<1>1. /\ adding # NULL /\ f # NULL /\ y \in Placed(watched_dirs, d, {f})
      /\ adding' = [adding EXCEPT !.n = @ + 1, !.file = NULL]
      /\ UNCHANGED <<worldVars, link, signals, todo, lost>>
  BY DEF ensure_watched
<1>2. \/ /\ PlacedIn(y, d, {f})
         /\ jobs' = [jobs EXCEPT ![f.job] = @ \cup {f}]
         /\ early' = NotOf({f}) \cup EarlyFor(d, {f})
         /\ told' = told
      \/ ~PlacedIn(y, d, {f}) /\ jobs' = jobs /\ told' = told \ {f} /\ early' = early
  BY DEF ensure_watched
<1>3. /\ adding \in Adding /\ adding.n \in Nat /\ adding.job \in DOMAIN jobs
      /\ f \in WatchedFile /\ f.job = adding.job /\ f.n = adding.n
      /\ \A g \in jobs[adding.job] : g.n < adding.n
  BY <1>1 DEF BridgeInv, AtWork, Adding
<1>4. f.path \in Seq(STRING)
  BY <1>3, FileType
<1>5. f \notin Known
  <2> SUFFICES ASSUME f \in Known PROVE FALSE
    OBVIOUS
  <2>1. PICK j \in DOMAIN jobs : f \in jobs[j]
    BY DEF Known
  <2>2. j = adding.job
    BY <1>3, <2>1 DEF BridgeInv, BridgeTypes
  <2>3. adding.n < adding.n
    BY <1>3, <2>1, <2>2
  <2> QED BY <1>3, <2>3
<1>6. /\ d \in Seq(STRING) /\ d \in DOMAIN watched_dirs \cup exists \cup {<<>>}
      /\ Plain(f) => StrPrefix(d, f.path)
  <2>1. CASE ~Plain(f) /\ f.path \in exists
    BY <1>4, <2>1
  <2>2. CASE ~(~Plain(f) /\ f.path \in exists)
    <3>1. d = find_first_parent(watched_dirs, f.path)
      BY <2>2
    <3> HIDE DEF d, f
    <3>2. d \in Seq(STRING) /\ IsPrefix(d, f.path) /\ d \in DOMAIN watched_dirs \cup exists \cup {<<>>}
      BY <1>4, <3>1, FirstParent
    <3> QED BY <3>2 DEF StrPrefix
  <2> QED BY <2>1, <2>2
<1> HIDE DEF d
<1>7. AtWork' /\ TablesRight' /\ told' \subseteq WatchedFile
      /\ DOMAIN jobs' = DOMAIN jobs /\ jobs' \in [DOMAIN jobs' -> SUBSET WatchedFile]
      /\ \A k \in DOMAIN jobs' : \A g \in jobs'[k] : g.job = k
  <2>0. /\ adding' \in Adding /\ adding'.n = adding.n + 1 /\ adding'.job = adding.job
        /\ adding'.file = NULL
    <3>1. adding \in [job : Job, n : Nat, file : WatchedFile \cup {NULL}]
      BY <1>3 DEF Adding
    <3>2. adding' = [adding EXCEPT !.n = adding.n + 1, !.file = NULL]
      BY <1>1
    <3> DEFINE a == [adding EXCEPT !.n = adding.n + 1]
    <3>3. a \in Adding /\ a.n = adding.n + 1 /\ a.job = adding.job
      BY <3>1 DEF Adding
    <3>4. adding' = [a EXCEPT !.file = NULL]
      BY <3>1, <3>2
    <3> HIDE DEF a
    <3> QED BY <3>3, <3>4 DEF Adding
  <2>1. CASE /\ PlacedIn(y, d, {f})
             /\ jobs' = [jobs EXCEPT ![f.job] = @ \cup {f}]
             /\ early' = NotOf({f}) \cup EarlyFor(d, {f})
             /\ told' = told
    <3>1. /\ DOMAIN jobs' = DOMAIN jobs /\ jobs' \in [DOMAIN jobs' -> SUBSET WatchedFile]
          /\ jobs'[adding.job] = jobs[adding.job] \cup {f}
          /\ \A k \in DOMAIN jobs : k # adding.job => jobs'[k] = jobs[k]
      BY <1>3, <2>1 DEF BridgeInv, BridgeTypes
    <3>2. \A k \in DOMAIN jobs' : \A g \in jobs'[k] : g.job = k
      BY <1>3, <3>1 DEF BridgeInv, BridgeTypes
    <3>3. Known' = Known \cup {f}
      BY <1>3, <3>1 DEF Known
    <3>4. AtWork'
      <4>1. ASSUME NEW g \in jobs'[adding.job] PROVE g.n < adding.n + 1
        <5>1. CASE g = f
          BY <1>3, <5>1
        <5>2. CASE g \in jobs[adding.job]
          <6>1. g.n \in Nat /\ g.n < adding.n
            BY <1>3, <5>2, FileType DEF BridgeInv, BridgeTypes
          <6> QED BY <1>3, <6>1
        <5> QED BY <3>1, <5>1, <5>2
      <4> QED BY <1>3, <2>0, <3>1, <4>1 DEF AtWork
    <3>5. TablesRight'
      <4>1. Watches(watched_dirs, exists) /\ Owned(watched_dirs, Known, lost)
            /\ Seeing(watched_dirs, exists, told, early) /\ exists \in SUBSET Paths
        BY DEF BridgeInv, TablesRight, BridgeTypes
      <4>2. {f} \cap lost = {} /\ \A e \in DOMAIN watched_dirs : {f} \cap watched_dirs[e].files = {}
        BY <1>5, <4>1 DEF Owned
      <4>3. ASSUME NEW e \in DOMAIN watched_dirs, NEW g \in watched_dirs[e].files, NEW x, <<g, x>> \in early
            PROVE  <<g, x>> \in early'
        <5>1. g # f
          BY <4>2
        <5>2. <<g, x>> \in NotOf({f})
          BY <4>3, <5>1 DEF NotOf
        <5> QED BY <2>1, <5>2
      <4>4. /\ Len(f.path) > Len(d) /\ StepTo(d, f.path) \in exists => <<f, StepTo(d, f.path)>> \in early'
            /\ d \in DOMAIN watched_dirs /\ ~watched_dirs[d].live => <<f, NULL>> \in early'
        BY <2>1 DEF EarlyFor
      <4> DEFINE K == Known \cup {f}
                 er == early'
      <4>5. {f} \in SUBSET WatchedFile /\ {f} \subseteq K /\ Known \subseteq K
        BY <1>3
      <4> HIDE DEF f, y, K, er
      <4>6. Watches(y, exists) /\ Owned(y, K, lost) /\ Seeing(y, exists, told, er)
        <5>1. y \in Placed(watched_dirs, d, {f}) /\ PlacedIn(y, d, {f})
          BY <1>1, <2>1
        <5>2. StillEarly(watched_dirs, early, er)
          BY <4>3 DEF StillEarly, er
        <5>3. Noted(watched_dirs, d, {f}, exists, er)
          BY <1>6, <4>4 DEF Noted, er
        <5> QED BY <1>6, <4>1, <4>2, <4>5, <5>1, <5>2, <5>3, Places
      <4> QED BY <1>1, <2>1, <3>3, <4>6 DEF TablesRight, worldVars, y, K, er
    <3> QED BY <2>1, <3>1, <3>2, <3>4, <3>5 DEF BridgeInv, BridgeTypes
  <2>2. CASE ~PlacedIn(y, d, {f}) /\ jobs' = jobs /\ told' = told \ {f} /\ early' = early
    <3>1. y = watched_dirs
      <4>1. Table(watched_dirs) /\ {f} \in SUBSET WatchedFile
        BY <1>3 DEF BridgeInv, TablesRight, Watches
      <4> HIDE DEF y, f
      <4> QED BY <1>1, <2>2, <4>1, NotPlaced
    <3>2. Known' = Known
      BY <2>2 DEF Known
    <3>3. TablesRight'
      BY <1>1, <1>5, <2>2, <3>1, <3>2, TablesStay DEF BridgeInv, worldVars
    <3>4. AtWork'
      <4>1. ASSUME NEW g \in jobs[adding.job] PROVE g.n < adding.n + 1
        <5>1. g.n \in Nat /\ g.n < adding.n
          BY <1>3, FileType DEF BridgeInv, BridgeTypes
        <5> QED BY <1>3, <5>1
      <4> QED BY <1>3, <2>0, <2>2, <4>1 DEF AtWork
    <3> QED BY <2>2, <3>3, <3>4 DEF BridgeInv, BridgeTypes
  <2> QED BY <1>2, <2>1, <2>2
<1>8. BridgeTypes'
  BY <1>1, <1>7 DEF BridgeInv, BridgeTypes, worldVars
<1>9. Announced'
  BY <1>1, <1>7 DEF BridgeInv, Announced, worldVars
<1> QED BY <1>7, <1>8, <1>9 DEF BridgeInv

-----------------------------------------------------------------------------
(* The file system changes                                                 *)

\* y has the watches of dirs, and each may have more to read.
Grown(y, dirs) ==
    /\ DOMAIN y = DOMAIN dirs /\ Table(y)
    /\ \A d \in DOMAIN dirs : /\ y[d].files = dirs[d].files /\ (y[d].live <=> dirs[d].live)
                              /\ Range(dirs[d].queue) \subseteq Range(y[d].queue)

\* inotify puts a message into the queue of a live watch and changes nothing else.
LEMMA QueuedGrows ==
    ASSUME NEW dirs, Table(dirs), NEW d, NEW e \in Message, NEW y, y = Queued(dirs, d, e)
    PROVE  /\ Grown(y, dirs)
           /\ d \in DOMAIN dirs /\ dirs[d].live => e \in Range(y[d].queue)
<1>1. CASE ~(d \in DOMAIN dirs /\ dirs[d].live)
  <2>1. y = dirs
    BY <1>1 DEF Queued
  <2> QED BY <1>1, <2>1 DEF Grown
<1>2. CASE d \in DOMAIN dirs /\ dirs[d].live
  <2> DEFINE q == Append(dirs[d].queue, e)
  <2>1. y = [dirs EXCEPT ![d].queue = q]
    BY <1>2 DEF Queued
  <2>2. dirs[d].queue \in Seq(Message)
    BY <1>2 DEF Table, Watch
  <2>3. q \in Seq(Message) /\ Range(q) = Range(dirs[d].queue) \cup {e}
    BY <2>2, QueueGrows
  <2> HIDE DEF q
  <2>4. Changed(y, dirs, d, dirs[d].files, dirs[d].live, q)
    BY <1>2, <2>1, <2>3, QueueChange
  <2>5. DOMAIN dirs \cup {d} = DOMAIN dirs
    BY <1>2
  <2> QED BY <1>2, <2>3, <2>4, <2>5 DEF Changed, Grown
<1> QED BY <1>1, <1>2

\* Queues that grew twice grew.
LEMMA GrownTwice ==
    ASSUME NEW x, NEW y, NEW z, Grown(y, x), Grown(z, y)
    PROVE  Grown(z, x)
<1>1. DOMAIN z = DOMAIN x /\ Table(z)
  BY DEF Grown
<1>2. ASSUME NEW d \in DOMAIN x
      PROVE  /\ z[d].files = x[d].files /\ (z[d].live <=> x[d].live)
             /\ Range(x[d].queue) \subseteq Range(z[d].queue)
  <2>1. d \in DOMAIN y
    BY DEF Grown
  <2>2. /\ y[d].files = x[d].files /\ (y[d].live <=> x[d].live)
        /\ Range(x[d].queue) \subseteq Range(y[d].queue)
    BY DEF Grown
  <2>3. /\ z[d].files = y[d].files /\ (z[d].live <=> y[d].live)
        /\ Range(y[d].queue) \subseteq Range(z[d].queue)
    BY <2>1 DEF Grown
  <2> QED BY <2>2, <2>3
<1> QED BY <1>1, <1>2 DEF Grown

\* Where only queues grow, files stay where they are.
LEMMA GrownOwned ==
    ASSUME NEW dirs, NEW ex, NEW ex2, NEW K, NEW L, Watches(dirs, ex), Owned(dirs, K, L),
           ex \subseteq ex2, NEW y, Grown(y, dirs)
    PROVE  Watches(y, ex2) /\ Owned(y, K, L)
BY DEF Watches, Owned, Grown

\* A path is created.
LEMMA CreatePathStep ==
    ASSUME BridgeInv, NEW p \in Paths, CreatePath(p)
    PROVE  BridgeInv'
<1> DEFINE m == Inotify("create", p)
           y == watched_dirs'
<1>1. /\ exists' = exists \cup {p} /\ y = Queued(watched_dirs, Parent(p), m)
      /\ UNCHANGED <<classes, link, signals, todo, adding, jobs, lost, told, early>>
  BY DEF CreatePath
<1>2. Known' = Known
  BY <1>1 DEF Known
<1>3. /\ Watches(watched_dirs, exists) /\ Owned(watched_dirs, Known, lost)
      /\ Seeing(watched_dirs, exists, told, early)
  BY DEF BridgeInv, TablesRight
<1>4. m \in Message /\ Table(watched_dirs)
  BY <1>3, MessageType DEF Watches
<1> HIDE DEF m, y
<1>5. /\ Grown(y, watched_dirs)
      /\ Parent(p) \in DOMAIN watched_dirs /\ watched_dirs[Parent(p)].live => m \in Range(y[Parent(p)].queue)
  BY <1>1, <1>4, QueuedGrows
<1>6. Watches(y, exists') /\ Owned(y, Known, lost)
  <2>1. exists \subseteq exists'
    BY <1>1
  <2> QED BY <1>3, <1>5, <2>1, GrownOwned
<1>7. ASSUME NEW d \in DOMAIN y, NEW f \in y[d].files
      PROVE  Sees(d, y[d], f, exists', told, early)
  <2>1. /\ d \in DOMAIN watched_dirs /\ f \in watched_dirs[d].files /\ (y[d].live <=> watched_dirs[d].live)
        /\ Range(watched_dirs[d].queue) \subseteq Range(y[d].queue)
    BY <1>5 DEF Grown
  <2>2. d \in Paths /\ f \in WatchedFile
    BY <1>3, <2>1 DEF Watches, Table, Watch
  <2>3. Sees(d, watched_dirs[d], f, exists, told, early)
    BY <1>3, <2>1 DEF Seeing
  <2>4. watched_dirs[d].live /\ d = Parent(p) => Inotify("create", p) \in Range(y[d].queue)
    BY <1>5, <2>1 DEF m
  <2> QED BY <1>1, <2>1, <2>2, <2>3, <2>4, SeesCreate
<1>8. TablesRight'
  BY <1>1, <1>2, <1>6, <1>7 DEF TablesRight, Seeing, y
<1>9. BridgeTypes' /\ AtWork' /\ Announced'
  BY <1>1 DEF BridgeInv, BridgeTypes, AtWork, Announced
<1> QED BY <1>8, <1>9 DEF BridgeInv

\* A path is modified.
LEMMA ModifyPathStep ==
    ASSUME BridgeInv, NEW p \in Paths, ModifyPath(p)
    PROVE  BridgeInv'
<1> DEFINE m == Inotify("modify", p)
           dirs == Queued(watched_dirs, Parent(p), m)
           y == watched_dirs'
<1>1. /\ y \in {dirs, Queued(dirs, p, m)}
      /\ UNCHANGED <<exists, classes, link, signals, todo, adding, jobs, lost, told, early>>
  BY DEF ModifyPath
<1>2. Known' = Known
  BY <1>1 DEF Known
<1>3. /\ Watches(watched_dirs, exists) /\ Owned(watched_dirs, Known, lost)
      /\ Seeing(watched_dirs, exists, told, early)
  BY DEF BridgeInv, TablesRight
<1>4. m \in Message /\ Table(watched_dirs)
  BY <1>3, MessageType DEF Watches
<1>5. Grown(dirs, watched_dirs)
  BY <1>4, QueuedGrows
<1> HIDE DEF m, dirs, y
<1>6. Grown(y, watched_dirs)
  <2>1. CASE y = dirs
    BY <1>5, <2>1
  <2>2. CASE y = Queued(dirs, p, m)
    <3>1. Table(dirs)
      BY <1>5 DEF Grown
    <3>2. Grown(y, dirs)
      BY <1>4, <2>2, <3>1, QueuedGrows
    <3> QED BY <1>5, <3>2, GrownTwice
  <2> QED BY <1>1, <2>1, <2>2
<1>7. Watches(y, exists) /\ Owned(y, Known, lost)
  BY <1>3, <1>6, GrownOwned
<1>8. ASSUME NEW d \in DOMAIN y, NEW f \in y[d].files
      PROVE  Sees(d, y[d], f, exists, told, early)
  <2>1. /\ d \in DOMAIN watched_dirs /\ f \in watched_dirs[d].files /\ (y[d].live <=> watched_dirs[d].live)
        /\ Range(watched_dirs[d].queue) \subseteq Range(y[d].queue)
    BY <1>6 DEF Grown
  <2>2. Sees(d, watched_dirs[d], f, exists, told, early)
    BY <1>3, <2>1 DEF Seeing
  <2> QED BY <2>1, <2>2, SeesStay
<1>9. TablesRight'
  BY <1>1, <1>2, <1>7, <1>8 DEF TablesRight, Seeing, y
<1>10. BridgeTypes' /\ AtWork' /\ Announced'
  BY <1>1 DEF BridgeInv, BridgeTypes, AtWork, Announced
<1> QED BY <1>9, <1>10 DEF BridgeInv

\* A path is deleted, and the watch of it with it.
LEMMA DeletePathStep ==
    ASSUME BridgeInv, NEW p \in Paths, DeletePath(p)
    PROVE  BridgeInv'
<1> DEFINE m == Inotify("delete", p)
           n == Inotify("ignored", p)
           a == Queued(watched_dirs, Parent(p), m)
           b == Queued(a, p, n)
           y == watched_dirs'
<1>1. /\ exists' = exists \ {p} /\ y = IF p \in DOMAIN b THEN [b EXCEPT ![p].live = FALSE] ELSE b
      /\ told' = {f \in told : f.path # p} /\ early' = {e \in early : e[2] # p}
      /\ UNCHANGED <<classes, link, signals, todo, adding, jobs, lost>>
  BY DEF DeletePath
<1>2. Known' = Known
  BY <1>1 DEF Known
<1>3. /\ Watches(watched_dirs, exists) /\ Owned(watched_dirs, Known, lost)
      /\ Seeing(watched_dirs, exists, told, early)
  BY DEF BridgeInv, TablesRight
<1>4. m \in Message /\ n \in Message /\ Table(watched_dirs)
  BY <1>3, MessageType DEF Watches
<1>5. Grown(a, watched_dirs)
  BY <1>4, QueuedGrows
<1>6. Table(a) /\ DOMAIN a = DOMAIN watched_dirs
  BY <1>5 DEF Grown
<1> HIDE DEF a
<1>7. Grown(b, a) /\ (p \in DOMAIN a /\ a[p].live => n \in Range(b[p].queue))
  BY <1>4, <1>6, QueuedGrows
<1> HIDE DEF b, m, n, y
<1>8. Grown(b, watched_dirs)
  BY <1>5, <1>7, GrownTwice
<1>9. /\ DOMAIN y = DOMAIN watched_dirs /\ Table(y)
      /\ \A d \in DOMAIN y : /\ y[d].files = watched_dirs[d].files
                             /\ (y[d].live <=> watched_dirs[d].live /\ d # p)
                             /\ Range(watched_dirs[d].queue) \subseteq Range(y[d].queue)
                             /\ watched_dirs[d].live /\ d = p => n \in Range(y[d].queue)
  <2>1. CASE p \notin DOMAIN b
    <3>1. y = b
      BY <1>1, <2>1
    <3> QED BY <1>8, <2>1, <3>1 DEF Grown
  <2>2. CASE p \in DOMAIN b
    <3>1. Table(b) /\ y = [b EXCEPT ![p].live = FALSE]
      BY <1>1, <1>8, <2>2 DEF Grown
    <3>2. Changed(y, b, p, b[p].files, FALSE, b[p].queue)
      BY <2>2, <3>1, LiveChange
    <3>3. DOMAIN y = DOMAIN watched_dirs /\ Table(y) /\ p \in DOMAIN watched_dirs
      BY <1>8, <2>2, <3>2 DEF Changed, Grown
    <3>4. ASSUME NEW d \in DOMAIN y, d # p
          PROVE  /\ y[d].files = watched_dirs[d].files
                 /\ (y[d].live <=> watched_dirs[d].live)
                 /\ Range(watched_dirs[d].queue) \subseteq Range(y[d].queue)
      <4>1. y[d] = b[d]
        BY <1>8, <3>2, <3>3, <3>4 DEF Changed, Grown
      <4> QED BY <1>8, <3>3, <4>1 DEF Grown
    <3>5. /\ y[p].files = watched_dirs[p].files /\ ~y[p].live
          /\ Range(watched_dirs[p].queue) \subseteq Range(y[p].queue)
          /\ watched_dirs[p].live => n \in Range(y[p].queue)
      <4>1. y[p].files = b[p].files /\ ~y[p].live /\ y[p].queue = b[p].queue
        BY <3>2 DEF Changed
      <4>2. b[p].files = watched_dirs[p].files /\ Range(watched_dirs[p].queue) \subseteq Range(b[p].queue)
        BY <1>8, <3>3 DEF Grown
      <4>3. watched_dirs[p].live => n \in Range(b[p].queue)
        BY <1>5, <1>6, <1>7, <3>3 DEF Grown
      <4> QED BY <4>1, <4>2, <4>3
    <3> QED BY <3>3, <3>4, <3>5
  <2> QED BY <2>1, <2>2
<1>10. Watches(y, exists') /\ Owned(y, Known, lost)
  BY <1>1, <1>3, <1>9 DEF Watches, Owned
<1>11. ASSUME NEW d \in DOMAIN y, NEW f \in y[d].files
       PROVE  Sees(d, y[d], f, exists', told', early')
  <2>1. d \in DOMAIN watched_dirs /\ f \in watched_dirs[d].files
    BY <1>9
  <2>2. Sees(d, watched_dirs[d], f, exists, told, early)
    BY <1>3, <2>1 DEF Seeing
  <2>3. /\ y[d].live <=> watched_dirs[d].live /\ d # p
        /\ Range(watched_dirs[d].queue) \subseteq Range(y[d].queue)
        /\ watched_dirs[d].live /\ d = p => Inotify("ignored", p) \in Range(y[d].queue)
    BY <1>9 DEF n
  <2>4. Sees(d, y[d], f, exists \ {p}, {g \in told : g.path # p}, {e \in early : e[2] # p})
    BY <2>2, <2>3, SeesDelete
  <2> QED BY <1>1, <2>4
<1>12. TablesRight'
  BY <1>1, <1>2, <1>10, <1>11 DEF TablesRight, Seeing, y
<1>13. BridgeTypes' /\ AtWork' /\ Announced'
  BY <1>1 DEF BridgeInv, BridgeTypes, AtWork, Announced
<1> QED BY <1>12, <1>13 DEF BridgeInv

-----------------------------------------------------------------------------
(* The handlers of a watch                                                 *)

\* The watch of d reads m and keeps the files G.
LEMMA ReadTables ==
    ASSUME TablesRight, NEW d \in DOMAIN watched_dirs, NEW m \in Message, NEW q,
           Range(watched_dirs[d].queue) \subseteq {m} \cup Range(q),
           NEW G \in SUBSET watched_dirs[d].files,
           NEW y, Changed(y, watched_dirs, d, G, watched_dirs[d].live, q),
           NEW t, told \subseteq t, NEW er, StillEarly(y, early, er),
           NEW L, L \subseteq Known, \A e \in DOMAIN y : y[e].files \cap L = {},
           \A f \in G : Handled(d, m, f, exists, t)
    PROVE  Watches(y, exists) /\ Owned(y, Known, L) /\ Seeing(y, exists, t, er)
<1>0. /\ Watches(watched_dirs, exists) /\ Owned(watched_dirs, Known, lost)
      /\ Seeing(watched_dirs, exists, told, early)
  BY DEF TablesRight
<1>1. /\ DOMAIN y = DOMAIN watched_dirs /\ Table(y)
      /\ \A e \in DOMAIN y : e # d => y[e] = watched_dirs[e]
      /\ y[d].files = G /\ (y[d].live <=> watched_dirs[d].live) /\ y[d].queue = q
  BY DEF Changed
<1>2. \A e \in DOMAIN y : y[e].files \subseteq watched_dirs[e].files /\ (y[e].live => watched_dirs[e].live)
  BY <1>1
<1>3. Watches(y, exists) /\ Owned(y, Known, L)
  <2>1. \A e \in DOMAIN y : y[e].files \subseteq Known /\ y[e].files \cap L = {}
    BY <1>0, <1>1, <1>2 DEF Owned
  <2>2. DOMAIN y \subseteq DOMAIN watched_dirs
    BY <1>1
  <2> QED BY <1>0, <1>1, <1>2, <2>1, <2>2, Shrinks
<1>4. ASSUME NEW e \in DOMAIN y, NEW f \in y[e].files
      PROVE  Sees(e, y[e], f, exists, t, er)
  <2>1. e \in DOMAIN watched_dirs /\ f \in watched_dirs[e].files
    BY <1>1, <1>2
  <2>2. Sees(e, watched_dirs[e], f, exists, told, early)
    BY <1>0, <2>1 DEF Seeing
  <2>3. \A x : <<f, x>> \in early => <<f, x>> \in er
    BY DEF StillEarly
  <2>4. CASE e # d
    <3>1. y[e] = watched_dirs[e]
      BY <1>1, <2>4
    <3> QED BY <2>2, <2>3, <3>1, SeesStay
  <2>5. CASE e = d
    <3>1. Handled(d, m, f, exists, t) /\ (y[d].live <=> watched_dirs[d].live)
          /\ Range(watched_dirs[d].queue) \subseteq {m} \cup Range(y[d].queue)
      BY <1>1, <2>5
    <3>2. Sees(d, watched_dirs[d], f, exists, told, early) /\ (f \in told => f \in t)
      BY <2>2, <2>5
    <3>3. Sees(d, y[d], f, exists, t, er)
      BY <2>3, <3>1, <3>2, SeesRead
    <3> QED BY <2>5, <3>3
  <2> QED BY <2>4, <2>5
<1> QED BY <1>3, <1>4 DEF Seeing

\* The tables without the watch of a directory.
LEMMA FreedTables ==
    ASSUME NEW dirs, NEW ex, NEW K, NEW L, NEW t, NEW er,
           Watches(dirs, ex), Owned(dirs, K, L), Seeing(dirs, ex, t, er),
           NEW d, NEW y, y = Without(dirs, d)
    PROVE  Watches(y, ex) /\ Owned(y, K, L) /\ Seeing(y, ex, t, er)
<1>1. Table(dirs)
  BY DEF Watches
<1>2. Freed(y, dirs, d)
  BY <1>1, WatchFreed
<1> QED BY <1>2 DEF Freed, Watches, Owned, Seeing

\* A step of a handler that changes no job is right when its tables are.
LEMMA HandlerStep ==
    ASSUME BridgeInv, UNCHANGED <<worldVars, link, signals, todo, adding, jobs>>,
           told' \subseteq WatchedFile,
           NEW y, y = watched_dirs', Watches(y, exists), Owned(y, Known, lost'),
           Seeing(y, exists, told', early')
    PROVE  BridgeInv'
<1>1. Known' = Known
  BY DEF Known
<1>2. TablesRight'
  BY <1>1 DEF TablesRight, worldVars
<1>3. BridgeTypes' /\ AtWork' /\ Announced'
  BY DEF BridgeInv, BridgeTypes, AtWork, Announced, worldVars
<1> QED BY <1>2, <1>3 DEF BridgeInv

\* What a handler tells adds to what was told.
LEMMA Telling ==
    ASSUME BridgeInv, NEW E, handle_event(E)
    PROVE  told \subseteq told' /\ told' \subseteq WatchedFile
BY KnownType DEF BridgeInv, BridgeTypes, handle_event, ToldBy

\* The watch of d reads m, and rest is what it leaves.
Reads(d, m, rest) ==
    /\ watched_dirs[d].queue # <<>> /\ m = Head(watched_dirs[d].queue)
    /\ rest = [watched_dirs EXCEPT ![d].queue = Tail(@)]

\* A watch that reads a message keeps its files and the other messages.
LEMMA ReadsRest ==
    ASSUME BridgeInv, NEW d \in DOMAIN watched_dirs, NEW m, NEW rest, Reads(d, m, rest)
    PROVE  /\ m \in Message
           /\ Changed(rest, watched_dirs, d, watched_dirs[d].files, watched_dirs[d].live,
                      Tail(watched_dirs[d].queue))
           /\ Range(watched_dirs[d].queue) \subseteq {m} \cup Range(Tail(watched_dirs[d].queue))
<1> DEFINE s == watched_dirs[d].queue
           q == Tail(s)
<1>1. Table(watched_dirs)
  BY DEF BridgeInv, TablesRight, Watches
<1>2. s \in Seq(Message)
  BY <1>1 DEF Table, Watch
<1>3. s # <<>> /\ m = Head(s) /\ rest = [watched_dirs EXCEPT ![d].queue = q]
  BY DEF Reads
<1> HIDE DEF s
<1>4. m \in Message /\ q \in Seq(Message) /\ Range(s) = {m} \cup Range(q)
  BY <1>2, <1>3, QueueRead
<1> HIDE DEF q
<1>5. Changed(rest, watched_dirs, d, watched_dirs[d].files, watched_dirs[d].live, q)
  BY <1>1, <1>3, <1>4, QueueChange
<1> QED BY <1>4, <1>5 DEF s, q

\* Every file stays.
LEMMA AllStay ==
    ASSUME BridgeInv, NEW d \in DOMAIN watched_dirs, NEW m, NEW rest, Reads(d, m, rest),
           watched_dirs' = rest, UNCHANGED <<worldVars, link, signals, todo, adding, jobs, lost, early>>,
           told \subseteq told', told' \subseteq WatchedFile,
           \A f \in watched_dirs[d].files : Handled(d, m, f, exists, told')
    PROVE  BridgeInv'
<1> DEFINE G == watched_dirs[d].files
           q == Tail(watched_dirs[d].queue)
           t == told'
<1>1. /\ m \in Message /\ Changed(rest, watched_dirs, d, G, watched_dirs[d].live, q)
      /\ Range(watched_dirs[d].queue) \subseteq {m} \cup Range(q)
  BY ReadsRest
<1>2. TablesRight /\ Owned(watched_dirs, Known, lost)
  BY DEF BridgeInv, TablesRight
<1>3. StillEarly(rest, early, early)
  BY DEF StillEarly
<1>4. lost \subseteq Known /\ \A e \in DOMAIN rest : rest[e].files \cap lost = {}
  BY <1>1, <1>2 DEF Owned, Changed
<1>5. told \subseteq t /\ G \in SUBSET watched_dirs[d].files /\ \A f \in G : Handled(d, m, f, exists, t)
  OBVIOUS
<1> HIDE DEF G, q, t
<1>6. Watches(rest, exists) /\ Owned(rest, Known, lost) /\ Seeing(rest, exists, t, early)
  BY <1>1, <1>2, <1>3, <1>4, <1>5, ReadTables
<1> QED BY <1>6, HandlerStep DEF t

\* nih_watch passes over a message that concerns no file of the table.
LEMMA FilterHandles ==
    ASSUME BridgeInv, NEW d \in DOMAIN watched_dirs, NEW m \in Message, m.what # "ignored",
           file_filter(d, m.path) \/ m.path \notin exists, NEW f \in watched_dirs[d].files, NEW t
    PROVE  Handled(d, m, f, exists, t)
<1>1. f \in WatchedFile /\ d \in Paths
  BY DEF BridgeInv, TablesRight, Watches, Table, Watch
<1>2. f.path \in Seq(STRING) /\ d \in Seq(STRING) /\ Len(d) \in Nat /\ Len(f.path) \in Nat
  BY <1>1, FileType, PathType, LenProperties
<1>3. ASSUME Plain(f), m = Inotify("create", f.path), f.path \in exists PROVE FALSE
  <2>1. m.path = f.path
    BY <1>3 DEF Inotify
  <2> QED BY <1>2, <1>3, <2>1, PrefixSelf DEF file_filter
<1>4. ASSUME Nearing(d, f), m = Inotify("create", StepTo(d, f.path)), StepTo(d, f.path) \in exists
      PROVE  FALSE
  <2>1. m.path = StepTo(d, f.path)
    BY <1>4 DEF Inotify
  <2>2. IsPrefix(StepTo(d, f.path), f.path)
    BY <1>1, <1>2, <1>4, NearingLonger, ParentOfStep
  <2> QED BY <1>4, <2>1, <2>2 DEF file_filter, StrPrefix
<1> QED BY <1>3, <1>4 DEF Handled

\* create_handler tells a file that exists now, and moves one whose next
\* directory exists now.
LEMMA CreateHandles ==
    ASSUME BridgeInv, NEW d \in DOMAIN watched_dirs, NEW m \in Message, m.what = "create",
           handle_event(CreateEvents(d, m.path)),
           NEW f \in watched_dirs[d].files, f \notin MovesDown(d, m.path)
    PROVE  Handled(d, m, f, exists, told')
<1>1. f \in WatchedFile /\ d \in Paths /\ f \in Known
  BY DEF BridgeInv, TablesRight, Watches, Table, Watch, Owned
<1>2. f.path \in Seq(STRING) /\ d \in Seq(STRING) /\ Len(d) \in Nat /\ Len(f.path) \in Nat
  BY <1>1, FileType, PathType, LenProperties
<1>3. ASSUME Plain(f), m = Inotify("create", f.path), "create" \in f.events PROVE f \in told'
  <2>1. m.path = f.path
    BY <1>3 DEF Inotify
  <2>2. emit_event(Written(f.path, FALSE), "create", NULL) \in CreateEvents(d, m.path)
    BY <1>3, <2>1 DEF CreateEvents
  <2> QED BY <1>1, <2>2 DEF handle_event, ToldBy
<1>4. ASSUME Nearing(d, f), m = Inotify("create", StepTo(d, f.path)), StepTo(d, f.path) \in exists \cap Dirs
      PROVE  FALSE
  <2>1. m.path = StepTo(d, f.path)
    BY <1>4 DEF Inotify
  <2>2. IsPrefix(StepTo(d, f.path), f.path) /\ Len(StepTo(d, f.path)) = Len(d) + 1
    BY <1>1, <1>2, <1>4, NearingLonger, ParentOfStep
  <2>3. CASE Plain(f) /\ Len(f.path) > Len(d) + 1
    <3>1. f.path # m.path
      BY <1>2, <2>1, <2>2, <2>3
    <3> QED BY <1>4, <2>1, <2>2, <2>3, <3>1 DEF MovesDown, StrPrefix
  <2>4. CASE f.dir /\ Len(f.path) = Len(d) + 1
    <3>1. StepTo(d, f.path) = f.path
      BY <1>2, <2>4, SubSeqFull DEF StepTo
    <3>2. f.path # d
      BY <1>2, <2>4
    <3> QED BY <2>1, <2>4, <3>1, <3>2 DEF MovesDown
  <2> QED BY <1>4, <2>3, <2>4 DEF Nearing
<1> QED BY <1>3, <1>4 DEF Handled

\* delete_handler leaves a file under a watch that has ended only if the file was
\* watched itself and is told of its end.
LEMMA DeleteHandles ==
    ASSUME BridgeInv, NEW d \in DOMAIN watched_dirs, NEW m \in Message,
           NEW path, (m.what = "ignored" /\ path = d) \/ m.what = "delete",
           NEW f \in watched_dirs[d].files, f \notin MovesUp(d, path), NEW t
    PROVE  Handled(d, m, f, exists, t)
<1>1. Plain(f) => StrPrefix(d, f.path)
  BY DEF BridgeInv, TablesRight, Seeing, Sees
<1>2. \A x : Inotify("create", x).what = "create"
  BY DEF Inotify
<1>3. m.what # "create"
  OBVIOUS
<1>4. Plain(f) /\ m.what = "ignored" => f.path = d /\ "delete" \in f.events
  BY <1>1 DEF MovesUp
<1> QED BY <1>2, <1>3, <1>4 DEF Handled

\* create_handler: events are emitted and the watches move down.
LEMMA CreateStep ==
    ASSUME BridgeInv, NEW d \in DOMAIN watched_dirs, NEW m, NEW rest, Reads(d, m, rest),
           m.what = "create", m.path \in exists, create_handler(d, m.path, rest),
           UNCHANGED worldVars
    PROVE  BridgeInv'
<1> DEFINE path == m.path
           F == MovesDown(d, path)
           W == watched_dirs[d].files
           q == Tail(watched_dirs[d].queue)
           left == [rest EXCEPT ![d].files = @ \ F]
           t == told'
           er == NotOf(F)
<1>0. /\ m \in Message /\ Changed(rest, watched_dirs, d, W, watched_dirs[d].live, q)
      /\ Range(watched_dirs[d].queue) \subseteq {m} \cup Range(q)
  BY ReadsRest
<1>1. CASE Down
  BY <1>1, DownStep
<1>2. CASE /\ F = {} /\ watched_dirs' = rest /\ handle_event(CreateEvents(d, path))
           /\ UNCHANGED <<link, signals, todo, adding, jobs, lost, early>>
  <2>1. \A f \in W : Handled(d, m, f, exists, told')
    BY <1>0, <1>2, CreateHandles
  <2>2. told \subseteq told' /\ told' \subseteq WatchedFile
    BY <1>2, Telling
  <2> QED BY <1>2, <2>1, <2>2, AllStay DEF worldVars
<1>3. CASE /\ F # {} /\ path \notin DOMAIN watched_dirs
           /\ \/ /\ \/ left[d].files = {} /\ watched_dirs' = Without(watched_dir_new(left, path, F), d)
                    \/ watched_dirs' = watched_dir_new(left, path, F)
                 /\ lost' = lost /\ early' = er \cup EarlyFor(path, F)
              \/ /\ watched_dirs' = left
                 /\ lost' = lost \cup F /\ early' = er
           /\ handle_event(CreateEvents(d, path))
           /\ UNCHANGED <<link, signals, todo, adding, jobs>>
  <2>1. told \subseteq t /\ t \subseteq WatchedFile
    BY <1>3, Telling
  <2>2. TablesRight /\ Owned(watched_dirs, Known, lost) /\ Table(watched_dirs) /\ exists \in SUBSET Paths
    BY DEF BridgeInv, TablesRight, Watches, BridgeTypes
  <2>3. F \subseteq W /\ W \in SUBSET WatchedFile /\ W \subseteq Known /\ W \cap lost = {}
        /\ \A e \in DOMAIN watched_dirs : e # d => W \cap watched_dirs[e].files = {}
    BY <2>2 DEF MovesDown, Table, Watch, Owned
  <2>4. \A f \in W \ F : Handled(d, m, f, exists, t)
    BY <1>0, <1>3, CreateHandles
  <2>5. Changed(left, watched_dirs, d, W \ F, watched_dirs[d].live, q)
    <3>1. /\ Table(rest) /\ d \in DOMAIN rest /\ DOMAIN rest = DOMAIN watched_dirs /\ rest[d].files = W
          /\ (rest[d].live <=> watched_dirs[d].live) /\ rest[d].queue = q
          /\ \A e \in DOMAIN rest : e # d => rest[e] = watched_dirs[e]
      BY <1>0 DEF Changed
    <3>2. left = [rest EXCEPT ![d].files = W \ F] /\ W \ F \in SUBSET WatchedFile
      BY <2>3, <3>1
    <3> HIDE DEF left, W, F, q
    <3>3. Changed(left, rest, d, W \ F, rest[d].live, rest[d].queue)
      BY <3>1, <3>2, FilesChange
    <3> QED BY <3>1, <3>3 DEF Changed
  <2>6. /\ DOMAIN left = DOMAIN watched_dirs /\ left[d].files = W \ F
        /\ \A e \in DOMAIN left : e # d => left[e] = watched_dirs[e]
    <3> HIDE DEF left, W, F, q
    <3> QED BY <2>5 DEF Changed
  <2>7. StillEarly(left, early, er)
    <3> SUFFICES ASSUME NEW e \in DOMAIN left, NEW f \in left[e].files, NEW x, <<f, x>> \in early
                 PROVE  <<f, x>> \in er
      BY DEF StillEarly
    <3>1. f \notin F
      <4> HIDE DEF left, W, F
      <4> QED BY <2>3, <2>6
    <3> QED BY <3>1 DEF NotOf
  <2>8. path \in Paths /\ path \in Seq(STRING) /\ path # <<>>
    <3>1. path \in Paths
      BY <2>2
    <3> QED BY <3>1, PathType
  <2>9. CASE watched_dirs' = left /\ lost' = lost \cup F /\ early' = er
    <3>1. lost \cup F \subseteq Known /\ \A e \in DOMAIN left : left[e].files \cap (lost \cup F) = {}
      <4> HIDE DEF left, W, F
      <4> QED BY <2>2, <2>3, <2>6 DEF Owned
    <3> DEFINE G == W \ F
    <3>2. G \in SUBSET watched_dirs[d].files
      OBVIOUS
    <3> HIDE DEF left, F, q, t, er
    <3>3. Watches(left, exists) /\ Owned(left, Known, lost \cup F) /\ Seeing(left, exists, t, er)
      <4> HIDE DEF G
      <4> QED BY <1>0, <2>1, <2>2, <2>4, <2>5, <2>7, <3>1, <3>2, ReadTables DEF G
    <3> QED BY <1>3, <2>1, <2>9, <3>3, HandlerStep DEF t
  <2>10. CASE /\ \/ left[d].files = {} /\ watched_dirs' = Without(watched_dir_new(left, path, F), d)
                 \/ watched_dirs' = watched_dir_new(left, path, F)
              /\ lost' = lost /\ early' = er \cup EarlyFor(path, F)
    <3> DEFINE G == W \ F
               y == watched_dir_new(left, path, F)
               er2 == er \cup EarlyFor(path, F)
    <3>1. lost \subseteq Known /\ \A e \in DOMAIN left : left[e].files \cap lost = {}
      <4> HIDE DEF left, W, F
      <4> QED BY <2>2, <2>3, <2>6 DEF Owned
    <3>2. G \in SUBSET watched_dirs[d].files
      OBVIOUS
    <3>3. Watches(left, exists) /\ Owned(left, Known, lost) /\ Seeing(left, exists, t, er)
      <4> HIDE DEF left, F, q, t, er, G
      <4> QED BY <1>0, <2>1, <2>2, <2>4, <2>5, <2>7, <3>1, <3>2, ReadTables DEF G
    <3>4. Noted(left, path, F, exists, er2)
      <4> SUFFICES ASSUME NEW f \in F
                   PROVE  /\ Plain(f) => StrPrefix(path, f.path)
                          /\ Len(f.path) > Len(path) /\ StepTo(path, f.path) \in exists
                             => <<f, StepTo(path, f.path)>> \in er2
                          /\ path \in DOMAIN left /\ ~left[path].live => <<f, NULL>> \in er2
        BY DEF Noted
      <4>1. Plain(f) => StrPrefix(path, f.path)
        BY DEF MovesDown, Plain
      <4>2. Len(f.path) > Len(path) /\ StepTo(path, f.path) \in exists => <<f, StepTo(path, f.path)>> \in er2
        BY DEF EarlyFor
      <4>3. path \notin DOMAIN left
        <5> HIDE DEF left, path
        <5> QED BY <1>3, <2>6
      <4> QED BY <4>1, <4>2, <4>3
    <3>5. F \in SUBSET WatchedFile /\ F \subseteq Known /\ F \cap lost = {}
          /\ path \notin DOMAIN left /\ \A e \in DOMAIN left : F \cap left[e].files = {}
      <4> HIDE DEF left, W, F
      <4> QED BY <1>3, <2>3, <2>6
    <3>6. StillEarly(left, er, er2)
      BY DEF StillEarly
    <3>7. Table(left)
      BY <3>3 DEF Watches
    <3> HIDE DEF left, F, q, t, er, er2, path
    <3>8. y \in Placed(left, path, F)
      BY <2>8, <3>5 DEF Placed
    <3> HIDE DEF y
    <3>9. PlacedIn(y, path, F)
      <4>1. Changed(y, left, path, F, TRUE, <<>>)
        BY <3>5, <3>7, NewWatch DEF y
      <4> QED BY <4>1 DEF Changed, PlacedIn
    <3>10. Watches(y, exists) /\ Owned(y, Known, lost) /\ Seeing(y, exists, t, er2)
      <4>1. path \in DOMAIN left \cup exists \cup {<<>>}
        BY DEF path
      <4> QED BY <2>2, <2>8, <3>3, <3>4, <3>5, <3>6, <3>8, <3>9, <4>1, Places
    <3>11. CASE watched_dirs' = y
      BY <1>3, <2>1, <2>10, <3>10, <3>11, HandlerStep DEF t, er2
    <3>12. CASE watched_dirs' = Without(y, d)
      <4> DEFINE z == Without(y, d)
      <4>1. Watches(z, exists) /\ Owned(z, Known, lost) /\ Seeing(z, exists, t, er2)
        BY <3>10, FreedTables
      <4> QED BY <1>3, <2>1, <2>10, <3>12, <4>1, HandlerStep DEF t, er2
    <3> QED BY <2>10, <3>11, <3>12 DEF y
  <2> QED BY <1>3, <2>9, <2>10
<1> QED BY <1>1, <1>2, <1>3 DEF create_handler

\* delete_handler: events are emitted and the watches move up.
LEMMA DeleteStep ==
    ASSUME BridgeInv, NEW d \in DOMAIN watched_dirs, NEW m, NEW rest, Reads(d, m, rest),
           NEW path, (m.what = "ignored" /\ path = d) \/ m.what = "delete",
           delete_handler(d, path, rest), UNCHANGED worldVars
    PROVE  BridgeInv'
<1> DEFINE F == MovesUp(d, path)
           W == watched_dirs[d].files
           q == Tail(watched_dirs[d].queue)
           freed == Without(rest, d)
           to == find_first_parent(freed, d)
           t == told'
           y == watched_dirs'
<1>0. m \in Message /\ Changed(rest, watched_dirs, d, W, watched_dirs[d].live, q)
  BY ReadsRest
<1>1. told \subseteq t /\ t \subseteq WatchedFile /\ UNCHANGED <<link, signals, todo, adding, jobs>>
  BY Telling DEF delete_handler
<1>2. CASE F = {} /\ watched_dirs' = rest /\ UNCHANGED <<lost, early>>
  <2>1. \A f \in W : Handled(d, m, f, exists, told')
    BY <1>0, <1>2, DeleteHandles
  <2> QED BY <1>1, <1>2, <2>1, AllStay DEF worldVars
<1>3. ASSUME y \in Placed(freed, to, F),
             NEW moved, moved = IF PlacedIn(y, to, F) THEN F ELSE {},
             lost' = lost \cup (W \ moved),
             early' = NotOf(W) \cup EarlyFor(to, moved)
      PROVE  BridgeInv'
  <2> DEFINE L == lost \cup (W \ moved)
             er == NotOf(W)
             er2 == early'
  <2>1. TablesRight /\ Watches(watched_dirs, exists) /\ Owned(watched_dirs, Known, lost) /\ Table(watched_dirs)
        /\ Seeing(watched_dirs, exists, told, early) /\ exists \in SUBSET Paths
    BY DEF BridgeInv, TablesRight, Watches, BridgeTypes
  <2>2. F \subseteq W /\ W \in SUBSET WatchedFile /\ W \subseteq Known /\ W \cap lost = {}
        /\ \A e \in DOMAIN watched_dirs : e # d => W \cap watched_dirs[e].files = {}
    BY <2>1 DEF MovesUp, Table, Watch, Owned
  <2>3. d \in Paths /\ d \in Seq(STRING)
    <3>1. d \in Paths
      BY <2>1 DEF Watches
    <3> QED BY <3>1, PathType
  <2>4. /\ DOMAIN freed = DOMAIN watched_dirs \ {d} /\ Table(freed)
        /\ \A e \in DOMAIN freed : freed[e] = watched_dirs[e]
    <3>1. /\ Table(rest) /\ DOMAIN rest = DOMAIN watched_dirs
          /\ \A e \in DOMAIN rest : e # d => rest[e] = watched_dirs[e]
      BY <1>0 DEF Changed
    <3>2. Freed(freed, rest, d)
      BY <3>1, WatchFreed
    <3> HIDE DEF freed
    <3> QED BY <3>1, <3>2 DEF Freed
  <2> HIDE DEF freed
  <2>5. to \in Seq(STRING) /\ IsPrefix(to, d) /\ to \in DOMAIN freed \cup exists \cup {<<>>}
    BY <2>3, FirstParent
  <2>6. moved \subseteq F
    BY <1>3
  <2> HIDE DEF F, to, y
  <2>7. Watches(freed, exists) /\ Owned(freed, Known, L)
    <3>1. L \subseteq Known /\ \A e \in DOMAIN freed : freed[e].files \subseteq Known /\ freed[e].files \cap L = {}
      <4> HIDE DEF W
      <4> QED BY <2>1, <2>2, <2>4 DEF Owned
    <3>2. DOMAIN freed \subseteq DOMAIN watched_dirs
          /\ \A e \in DOMAIN freed : freed[e].files \subseteq watched_dirs[e].files
                                     /\ (freed[e].live => watched_dirs[e].live)
      BY <2>4
    <3> HIDE DEF L
    <3> QED BY <2>1, <2>4, <3>1, <3>2, Shrinks
  <2>8. StillEarly(freed, early, er) /\ StillEarly(freed, er, er2)
    <3>1. ASSUME NEW e \in DOMAIN freed, NEW f \in freed[e].files, NEW x, <<f, x>> \in early
          PROVE  <<f, x>> \in er
      <4>1. f \notin W
        <5> HIDE DEF W
        <5> QED BY <2>2, <2>4
      <4> QED BY <3>1, <4>1 DEF NotOf
    <3>2. er \subseteq er2
      BY <1>3
    <3> HIDE DEF er, er2
    <3> QED BY <3>1, <3>2 DEF StillEarly
  <2>9. Seeing(freed, exists, t, er)
    <3> SUFFICES ASSUME NEW e \in DOMAIN freed, NEW f \in freed[e].files
                 PROVE  Sees(e, freed[e], f, exists, t, er)
      BY DEF Seeing
    <3>1. e \in DOMAIN watched_dirs /\ freed[e] = watched_dirs[e]
      BY <2>4
    <3>2. Sees(e, freed[e], f, exists, told, early)
      BY <2>1, <3>1 DEF Seeing
    <3>3. \A x : <<f, x>> \in early => <<f, x>> \in er
      BY <2>8 DEF StillEarly
    <3> HIDE DEF t, er
    <3> QED BY <1>1, <3>2, <3>3, SeesStay
  <2>10. Watches(y, exists) /\ Owned(y, Known, L) /\ Seeing(y, exists, t, er2)
    <3>1. CASE PlacedIn(y, to, F)
      <4>1. moved = F
        BY <1>3, <3>1
      <4>2. Noted(freed, to, F, exists, er2)
        <5> SUFFICES ASSUME NEW f \in F
                     PROVE  /\ Plain(f) => StrPrefix(to, f.path)
                            /\ Len(f.path) > Len(to) /\ StepTo(to, f.path) \in exists
                               => <<f, StepTo(to, f.path)>> \in er2
                            /\ to \in DOMAIN freed /\ ~freed[to].live => <<f, NULL>> \in er2
          BY DEF Noted
        <5>1. f \in W /\ f \in WatchedFile
          BY <2>2
        <5>2. Plain(f) => StrPrefix(to, f.path)
          <6>1. Plain(f) => StrPrefix(d, f.path)
            BY <2>1, <5>1 DEF Seeing, Sees
          <6>2. f.path \in Seq(STRING)
            BY <5>1, FileType
          <6> QED BY <2>3, <2>5, <6>1, <6>2, PrefixAbove
        <5>3. EarlyFor(to, F) \subseteq er2
          BY <1>3, <4>1
        <5>4. Len(f.path) > Len(to) /\ StepTo(to, f.path) \in exists => <<f, StepTo(to, f.path)>> \in er2
          BY <5>3 DEF EarlyFor
        <5>5. to \in DOMAIN freed /\ ~freed[to].live => <<f, NULL>> \in er2
          <6>1. to \in DOMAIN freed => to \in DOMAIN watched_dirs /\ freed[to] = watched_dirs[to]
            BY <2>4
          <6> QED BY <5>3, <6>1 DEF EarlyFor
        <5> QED BY <5>2, <5>4, <5>5
      <4>3. F \in SUBSET WatchedFile /\ F \subseteq Known /\ F \cap L = {}
            /\ \A e \in DOMAIN freed : F \cap freed[e].files = {}
        <5> HIDE DEF W
        <5> QED BY <2>2, <2>4, <4>1
      <4> HIDE DEF L, er, er2, t
      <4> QED BY <1>3, <2>1, <2>5, <2>7, <2>8, <2>9, <3>1, <4>2, <4>3, Places
    <3>2. CASE ~PlacedIn(y, to, F)
      <4>1. y = freed
        <5>1. F \in SUBSET WatchedFile
          BY <2>2
        <5> QED BY <1>3, <2>4, <3>2, <5>1, NotPlaced
      <4>2. Seeing(freed, exists, t, er2)
        <5> SUFFICES ASSUME NEW e \in DOMAIN freed, NEW f \in freed[e].files
                     PROVE  Sees(e, freed[e], f, exists, t, er2)
          BY DEF Seeing
        <5>1. Sees(e, freed[e], f, exists, t, er)
          BY <2>9 DEF Seeing
        <5>2. \A x : <<f, x>> \in er => <<f, x>> \in er2
          BY <2>8 DEF StillEarly
        <5> HIDE DEF t, er, er2
        <5> QED BY <5>1, <5>2, SeesStay
      <4> QED BY <2>7, <4>1, <4>2
    <3> QED BY <3>1, <3>2
  <2>11. y = watched_dirs' /\ lost' = L
    BY <1>3 DEF y
  <2> HIDE DEF L
  <2> QED BY <1>1, <2>10, <2>11, HandlerStep DEF t, er2
<1> QED BY <1>2, <1>3 DEF delete_handler

\* The bridge reads a message of inotify and calls its handler, or none.
LEMMA ReadInotifyStep ==
    ASSUME BridgeInv, NEW d \in DOMAIN watched_dirs, ReadInotify(d)
    PROVE  BridgeInv'
<1> DEFINE m == Head(watched_dirs[d].queue)
           rest == [watched_dirs EXCEPT ![d].queue = Tail(@)]
<1>1. Reads(d, m, rest) /\ UNCHANGED worldVars
  BY DEF ReadInotify, Reads
<1>2. m \in Message
  BY <1>1, ReadsRest
<1>3. CASE /\ m.what # "ignored"
           /\ file_filter(d, m.path) \/ (m.what # "delete" /\ m.path \notin exists)
           /\ watched_dirs' = rest /\ emitted' = {}
           /\ UNCHANGED <<link, signals, todo, adding, jobs, lost, told, early>>
  <2>1. \A f \in watched_dirs[d].files : Handled(d, m, f, exists, told')
    <3> HIDE DEF m
    <3> QED BY <1>2, <1>3, FilterHandles
  <2>2. told \subseteq told' /\ told' \subseteq WatchedFile
    BY <1>3 DEF BridgeInv, BridgeTypes
  <2> HIDE DEF m, rest
  <2> QED BY <1>1, <1>3, <2>1, <2>2, AllStay DEF worldVars
<1>4. CASE m.what = "ignored" /\ delete_handler(d, d, rest)
  <2> HIDE DEF m, rest
  <2> QED BY <1>1, <1>4, DeleteStep
<1>5. CASE m.what = "delete" /\ delete_handler(d, m.path, rest)
  <2> HIDE DEF m, rest
  <2> QED BY <1>1, <1>5, DeleteStep
<1>6. CASE m.what = "create" /\ m.path \in exists /\ create_handler(d, m.path, rest)
  <2> HIDE DEF m, rest
  <2> QED BY <1>1, <1>6, CreateStep
<1>7. CASE m.what = "modify" /\ modify_handler(d, m.path, rest)
  <2>1. \A f \in watched_dirs[d].files : Handled(d, m, f, exists, told')
    <3>1. \A x : Inotify("create", x).what = "create"
      BY DEF Inotify
    <3> HIDE DEF m
    <3> QED BY <1>7, <3>1 DEF Handled
  <2>2. told \subseteq told' /\ told' \subseteq WatchedFile
    BY <1>7, Telling DEF modify_handler
  <2>3. watched_dirs' = rest /\ UNCHANGED <<link, signals, todo, adding, jobs, lost, early>>
    BY <1>7 DEF modify_handler
  <2> HIDE DEF m, rest
  <2> QED BY <1>1, <2>1, <2>2, <2>3, AllStay DEF worldVars
<1> QED BY <1>3, <1>4, <1>5, <1>6, <1>7 DEF ReadInotify

-----------------------------------------------------------------------------
(* The theorems                                                            *)

\* Every watch is where its files can be seen from, whatever the order in which
\* paths and classes come and go and the bridge reads of it.
THEOREM BridgeInductive == Spec => []BridgeInv
<1>1. Init => BridgeInv
  <2> SUFFICES ASSUME Init PROVE BridgeInv
    OBVIOUS
  <2>1. IsDown
    BY WorldAtFirst DEF Init, IsDown
  <2> QED BY <2>1, NothingKnown
<1>2. BridgeInv /\ [Next]_vars => BridgeInv'
  <2> SUFFICES ASSUME BridgeInv, [Next]_vars PROVE BridgeInv'
    OBVIOUS
  <2>1. CASE Connect
    BY <2>1, ConnectStep
  <2>2. CASE GetAllJobs
    BY <2>2, GetAllJobsStep
  <2>3. CASE Leave
    BY <2>3, DownStep DEF Leave, Abort
  <2>4. CASE AddListed
    BY <2>4, AddListedStep
  <2>5. CASE ReadSignal
    BY <2>5, ReadSignalStep
  <2>6. CASE job_add_file
    BY <2>6, AddFileStep
  <2>7. CASE ensure_watched
    BY <2>7, EnsureWatchedStep
  <2>8. CASE Added
    BY <2>8, AddedStep
  <2>9. CASE \E d \in DOMAIN watched_dirs : ReadInotify(d)
    BY <2>9, ReadInotifyStep
  <2>10. CASE \E p \in Paths : CreatePath(p) \/ ModifyPath(p) \/ DeletePath(p)
    BY <2>10, CreatePathStep, ModifyPathStep, DeletePathStep
  <2>11. CASE \E j \in Job : ClassChanges(j)
    BY <2>11, ClassChangesStep
  <2>12. CASE UNCHANGED vars
    <3>1. UNCHANGED <<exists, classes, link, signals, todo, adding, jobs, watched_dirs, lost, told, early>>
      BY <2>12 DEF vars, worldVars, bridgeVars
    <3> QED BY <3>1 DEF BridgeInv, BridgeTypes, TablesRight, AtWork, Announced, Known
  <2> QED BY <2>1, <2>2, <2>3, <2>4, <2>5, <2>6, <2>7, <2>8, <2>9, <2>10, <2>11, <2>12 DEF Next
<1> QED BY <1>1, <1>2, PTL DEF Spec

\* The inductive invariant implies the invariant of the run.
LEMMA Implied == BridgeInv => WatchesFollow
<1> SUFFICES ASSUME BridgeInv PROVE WatchesFollow
  OBVIOUS
<1>0. /\ Watches(watched_dirs, exists) /\ Owned(watched_dirs, Known, lost) /\ Table(watched_dirs)
      /\ Seeing(watched_dirs, exists, told, early)
  BY DEF BridgeInv, TablesRight, Watches
<1>1. TypeOK
  <2>1. Range(todo) \subseteq Job
    BY LenProperties DEF BridgeInv, BridgeTypes, Range
  <2>2. Known \cup lost \cup told \subseteq WatchedFile
    BY <1>0, KnownType DEF BridgeInv, BridgeTypes, Owned
  <2>3. ASSUME NEW d \in DOMAIN watched_dirs
        PROVE  /\ watched_dirs[d].files \subseteq WatchedFile
               /\ watched_dirs[d].live => d \in exists
               /\ \A i \in DOMAIN watched_dirs[d].queue : watched_dirs[d].queue[i].path \in Paths
    <3>1. watched_dirs[d].files \subseteq WatchedFile /\ watched_dirs[d].queue \in Seq(Message)
      BY <1>0 DEF Table, Watch
    <3>2. \A i \in DOMAIN watched_dirs[d].queue : watched_dirs[d].queue[i] \in Message
      BY <3>1, LenProperties
    <3>3. \A x \in Message : x.path \in Paths
      BY DEF Message
    <3> QED BY <1>0, <3>1, <3>2, <3>3 DEF Watches
  <2> QED BY <1>0, <2>1, <2>2, <2>3 DEF TypeOK, BridgeInv, BridgeTypes, Watches
<1>2. OneTable
  <2> SUFFICES ASSUME NEW f \in lost \cup UNION {watched_dirs[d].files : d \in DOMAIN watched_dirs}
               PROVE  f \in Known /\ Cardinality(TableOf(f)) = IF f \in lost THEN 0 ELSE 1
    BY DEF OneTable
  <2>1. f \in Known
    BY <1>0 DEF Owned
  <2>2. CASE f \in lost
    <3>1. TableOf(f) = {}
      BY <1>0, <2>2 DEF TableOf, Owned
    <3> QED BY <2>1, <2>2, <3>1, FS_EmptySet
  <2>3. CASE f \notin lost
    <3>1. PICK d \in DOMAIN watched_dirs : f \in watched_dirs[d].files
      BY <2>3
    <3>2. TableOf(f) = {d}
      BY <1>0, <3>1 DEF TableOf, Owned
    <3> QED BY <2>1, <2>3, <3>2, FS_Singleton
  <2> QED BY <2>2, <2>3
<1>3. CreationTold
  BY <1>0 DEF Seeing, Sees, CreationTold
<1>4. FollowsDown
  BY <1>0 DEF Seeing, Sees, FollowsDown
<1>5. FollowsUp
  BY <1>0 DEF Seeing, Sees, FollowsUp
<1>6. JobsOfInit
  <2> SUFFICES ASSUME signals = <<>> PROVE DOMAIN jobs \subseteq classes
    BY DEF JobsOfInit
  <2>1. Range(signals) = {}
    BY EmptyQueue
  <2> QED BY <2>1 DEF BridgeInv, Announced
<1> QED BY <1>1, <1>2, <1>3, <1>4, <1>5, <1>6 DEF WatchesFollow

\* The watches follow the plain files of the known jobs, and the directories
\* that come up right below their watch.
THEOREM WatchesAreRight == Spec => []WatchesFollow
BY BridgeInductive, Implied, PTL

-----------------------------------------------------------------------------
(* The events                                                              *)

\* A handler that looks at the mask makes events that the file asks for, ...
LEMMA EventOf ==
    ASSUME NEW f, NEW w \in {original_path(f), Written(f.path, FALSE), Written(FullPath(f), FALSE)},
           NEW event \in f.events, NEW match
    PROVE  AsksFor(f, emit_event(w, event, match))
BY DEF AsksFor, emit_event

\* ... and so are the creation and the end of a directory.
LEMMA EventOfDirectory ==
    ASSUME NEW f, f.dir, NEW event \in {"create", "delete"}
    PROVE  AsksFor(f, emit_event(original_path(f), event, NULL))
BY DEF AsksFor, emit_event

\* create_handler and delete_handler emit only what a file of the table asked for,
LEMMA TableEvents ==
    ASSUME NEW d, NEW path, NEW e, e \in CreateEvents(d, path) \/ e \in DeleteEvents(d, path)
    PROVE  \E f \in watched_dirs[d].files : AsksFor(f, e)
<1> DEFINE F == watched_dirs[d].files
           Makes(f, w, event, match) ==
               /\ e = emit_event(w, event, match)
               /\ w \in {original_path(f), Written(f.path, FALSE), Written(FullPath(f), FALSE)}
               /\ \/ event \in f.events
                  \/ f.dir /\ event \in {"create", "delete"} /\ w = original_path(f) /\ match = NULL
<1>1. ASSUME NEW f \in F, NEW w, NEW event, NEW match, Makes(f, w, event, match)
      PROVE  \E g \in F : AsksFor(g, e)
  BY <1>1, EventOf, EventOfDirectory
<1>2. CASE e \in CreateEvents(d, path)
  <2>1. \E f \in F : \/ Makes(f, original_path(f), "modify", path)
                     \/ Makes(f, original_path(f), "create", NULL)
                     \/ Makes(f, Written(FullPath(f), FALSE), "create", path)
                     \/ Makes(f, Written(f.path, FALSE), "create", NULL)
    BY <1>2 DEF CreateEvents
  <2> HIDE DEF Makes
  <2> QED BY <1>1, <2>1
<1>3. CASE e \in DeleteEvents(d, path)
  <2>1. \E f \in F : \/ Makes(f, original_path(f), "delete", NULL)
                     \/ Makes(f, original_path(f), "modify", path)
                     \/ Makes(f, Written(FullPath(f), FALSE), "delete", path)
    BY <1>3 DEF DeleteEvents
  <2> HIDE DEF Makes
  <2> QED BY <1>1, <2>1
<1> QED BY <1>2, <1>3

\* and so does modify_handler.
LEMMA ModifyEvents ==
    ASSUME NEW d, NEW path, NEW rest, modify_handler(d, path, rest), NEW e \in emitted'
    PROVE  \E f \in watched_dirs[d].files : AsksFor(f, e)
<1>1. \E f \in watched_dirs[d].files : "modify" \in f.events /\
          \/ e = emit_event(original_path(f), "modify", path)
          \/ e = emit_event(Written(FullPath(f), FALSE), "modify", path)
          \/ e = emit_event(original_path(f), "modify", NULL)
  BY DEF modify_handler, handle_event
<1> QED BY <1>1, EventOf

\* Every event that a step emits was asked for by a file known after it.
LEMMA EventsWanted ==
    ASSUME BridgeInv, Next, NEW e \in emitted'
    PROVE  \E f \in Asking' : AsksFor(f, e)
<1>1. ASSUME emitted' = {} PROVE FALSE
  BY <1>1
<1>2. CASE Connect \/ GetAllJobs \/ Leave \/ AddListed \/ ReadSignal \/ ensure_watched \/ Added
  BY <1>1, <1>2 DEF Connect, GetAllJobs, Leave, Abort, Down, AddListed, ReadSignal, ensure_watched, Added,
                    upstart_job_added, upstart_job_removed
<1>3. CASE \/ \E p \in Paths : CreatePath(p) \/ ModifyPath(p) \/ DeletePath(p)
           \/ \E j \in Job : ClassChanges(j)
  BY <1>1, <1>3 DEF CreatePath, ModifyPath, DeletePath, ClassChanges
<1>4. CASE job_add_file
  <2> DEFINE f == watched_file_new(adding.job, adding.n, ReadEnv(FileEvents[adding.job][adding.n]))
  <2>1. adding' = [adding EXCEPT !.file = f] /\ emitted' = Exist(f)
    BY <1>1, <1>4 DEF job_add_file, Abort, Down
  <2>2. adding \in Adding
    BY <1>4 DEF job_add_file, BridgeInv, AtWork
  <2> HIDE DEF f
  <2>4. adding'.file = f
    BY <2>1, <2>2 DEF Adding
  <2>5. f \in Asking'
    <3>1. adding' # NULL /\ f # NULL
      <4>1. f \in WatchedFile
        BY <1>1, <1>4, FileMade DEF job_add_file, Abort, Down, BridgeInv, f
      <4>2. adding' \in Adding
        BY <2>1, <2>2, <4>1 DEF Adding
      <4> QED BY <4>1, <4>2, NullIsNothing
    <3> QED BY <2>4, <3>1 DEF Asking
  <2>6. AsksFor(f, e)
    <3>1. /\ "create" \in f.events
          /\ \/ \E p \in exists : e = emit_event(Written(FullPath(f), FALSE), "create", p)
             \/ e = emit_event(Written(f.path, FALSE), "create", NULL)
      BY <2>1 DEF Exist
    <3> QED BY <3>1, EventOf
  <2> QED BY <2>5, <2>6
<1>5. ASSUME NEW d \in DOMAIN watched_dirs, ReadInotify(d)
      PROVE  \E f \in Asking' : AsksFor(f, e)
  <2>1. PICK f \in watched_dirs[d].files : AsksFor(f, e)
    <3> DEFINE m == Head(watched_dirs[d].queue)
               rest == [watched_dirs EXCEPT ![d].queue = Tail(@)]
    <3>1. \/ delete_handler(d, d, rest) \/ delete_handler(d, m.path, rest)
          \/ create_handler(d, m.path, rest) \/ modify_handler(d, m.path, rest)
      BY <1>1, <1>5 DEF ReadInotify
    <3> HIDE DEF m, rest
    <3>2. \/ e \in DeleteEvents(d, d) \/ e \in DeleteEvents(d, m.path)
          \/ e \in CreateEvents(d, m.path) \/ modify_handler(d, m.path, rest)
      BY <1>1, <3>1 DEF create_handler, delete_handler, Down, handle_event
    <3> QED BY <3>2, TableEvents, ModifyEvents
  <2>2. f \in Known
    BY DEF BridgeInv, TablesRight, Owned
  <2>3. jobs' = jobs
    BY <1>1, <1>5 DEF ReadInotify, create_handler, delete_handler, modify_handler, Down
  <2>4. f \in Asking'
    BY <2>2, <2>3 DEF Asking, Known
  <2> QED BY <2>1, <2>4
<1> QED BY <1>2, <1>3, <1>4, <1>5 DEF Next

\* The bridge emits only events that a job it knows asked for, and the creation
\* and the end of directories that it asked for.
THEOREM EventsAreWanted == Spec => WantedOnly
<1>1. BridgeInv /\ [Next]_vars => [\A e \in emitted' : \E f \in Asking' : AsksFor(f, e)]_vars
  BY EventsWanted
<1> QED BY <1>1, BridgeInductive, PTL DEF Spec, WantedOnly

=============================================================================
