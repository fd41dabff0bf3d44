-------------------------- MODULE EventQueueProofs --------------------------
(***************************************************************************)
(* Theorems about EventQueue: events live exactly as long as something     *)
(* refers to them, whoever waits for one waits for the right one, and      *)
(* nothing is left over when a handler is done.                            *)
(*                                                                         *)
(* The parts of the invariant are predicates of the parts of the daemon    *)
(* (queue, events, conditions, jobs), so that an operator that leaves a    *)
(* part alone leaves alone what is said of it.                             *)
(***************************************************************************)
EXTENDS EventQueue, SequenceTheorems, FiniteSetTheorems, WellFoundedInduction, TLAPS

-----------------------------------------------------------------------------
(* Types                                                                   *)

Ids == Nat \ {0}

\* The events there are: of jobs, of other programs, and of failures.
JobEvent == {"starting", "started", "stopping", "stopped"}
AnyName == JobEvent \cup {x.name : x \in Stimuli} \cup {FailedName[n] : n \in DOMAIN FailedName}

JobEnv(c) ==
  {<<Variable("JOB", c), Variable("INSTANCE", "")>> \o t :
      t \in {<< >>, <<Variable("RESULT", "ok")>>, <<Variable("RESULT", "failed")>>}}
AnyEnv == {x.env : x \in Stimuli} \cup UNION {JobEnv(c) : c \in Class}

EventRecord ==
  [name : AnyName, env : AnyEnv, progress : {"pending", "handling"}, failed : BOOLEAN,
   blockers : Nat, blocking : Class \cup {"none", "emit"}]

EventTable == UNION {[D -> EventRecord] : D \in SUBSET Ids}

Operator == UNION {[value : [D -> BOOLEAN], event : [D -> Nat]] : D \in SUBSET Nat}

JobRecord ==
  [stage : Stage, goal : {"start", "stop"}, blocker : Nat, blocking : SUBSET (Nat \X Nat),
   caller : BOOLEAN, failed : BOOLEAN, main : BOOLEAN, stop_on : Operator]

System ==
  [queue : Seq(Ids), event : EventTable, start_on : [Class -> Operator],
   cgmanager_wait : [Class -> BOOLEAN], deleted : [Class -> BOOLEAN], job : [Class -> JobRecord],
   cgroup_manager : BOOLEAN, fault : {"none", "assert", "freed"}]

-----------------------------------------------------------------------------
(* The parts of the invariant                                              *)

\* Every node has the value its children give it.
Evaluated(c, v) ==
  \A i \in DOMAIN c :
    /\ c[i].type = "and" => (v[i] <=> v[Left(c, i)] /\ v[Right(c, i)])
    /\ c[i].type = "or" => (v[i] <=> v[Left(c, i)] \/ v[Right(c, i)])

\* A condition at run time: only a leaf that is TRUE holds an event.
Grown(c, o) ==
  /\ o \in [value : [DOMAIN c -> BOOLEAN], event : [DOMAIN c -> Nat]]
  /\ Evaluated(c, o.value)
  /\ \A i \in DOMAIN c : i \notin Leaves(c) \/ ~o.value[i] => o.event[i] = NoEvent

Trees(so, jb) ==
  \A c \in Class : Grown(ClassOf[c].start_on, so[c]) /\ Grown(ClassOf[c].stop_on, jb[c].stop_on)

\* The queue has each event once.
Queued(q, ev) == IsInjective(q) /\ DOMAIN ev = Range(q)

\* The references of class c to event e.
Tags(k, c, S, e) == {<<k, c, i, e>> : i \in S}
Holding(c, o, e) == {i \in Leaves(c) : o.event[i] = e}
StartRefs(so, c, e) == Tags("start_on", c, Holding(ClassOf[c].start_on, so[c], e), e)
StopRefs(jb, c, e) == Tags("stop_on", c, Holding(ClassOf[c].stop_on, jb[c].stop_on, e), e)
Entries(c, S, e) == {<<"blocking", c, p[1], e>> : p \in S}
Naming(S, e) == {p \in S : p[2] = e}
BlockRefs(jb, c, e) == Entries(c, Naming(jb[c].blocking, e), e)

RefsTo(so, jb, e) ==
  UNION {StartRefs(so, c, e) \cup StopRefs(jb, c, e) \cup BlockRefs(jb, c, e) : c \in Class}

\* The blockers of an event are the references to it.
Counts(ev, so, jb) ==
  \A e \in DOMAIN ev :
    IsFiniteSet(RefsTo(so, jb, e)) /\ ev[e].blockers = Cardinality(RefsTo(so, jb, e))

\* Nothing refers to an event that is gone.
Live(D, so, jb) == \A e \in Ids : RefsTo(so, jb, e) # {} => e \in D

Blocked == {"starting", "stopping"}

\* A job that is starting or stopping waits for its event, unless it is d, which has
\* been let go; an event has the job that waits for it, unless it is x, which is
\* about to be freed.
Waits(ev, jb, x, d) ==
  /\ \A e \in DOMAIN ev \ {x} : ev[e].blocking \in Class => jb[ev[e].blocking].blocker = e
  /\ \A e \in DOMAIN ev : ev[e].name \in Blocked =>
        ev[e].blocking \in Class /\ ev[e].env[1].value = ev[e].blocking
  /\ \A c \in Class \ {d} :
        IF jb[c].stage \in Blocked
        THEN /\ jb[c].blocker \in DOMAIN ev \ {x}
             /\ ev[jb[c].blocker].blocking = c /\ ev[jb[c].blocker].name = jb[c].stage
        ELSE jb[c].blocker = NoEvent
  /\ d \in Class => jb[d].blocker = NoEvent

\* Nobody is held back by the job.
Rests(j) == j.blocking = {} /\ ~j.caller

\* A job between two steps.
Staged(c, j) ==
  /\ j.stage = "waiting" => j.goal = "stop" /\ Rests(j)
  /\ j.stage = "running" => j.goal = "start" /\ (ClassOf[c].task \/ Rests(j))

Stages(jb, d) == \A c \in Class \ {d} : Staged(c, jb[c])

\* The lists of what jobs block are finite.
Listed(jb) == \A c \in Class : IsFiniteSet(jb[c].blocking)

\* No condition is left TRUE, unless the class waits for the cgroup manager.
StartUnmet(c, o, wait) ==
  LET cond == ClassOf[c].start_on
  IN  IF wait THEN ClassOf[c].cgroup /\ cond # << >> /\ Value(cond, o)
      ELSE cond # << >> => ~Value(cond, o)
StopUnmet(c, o) == ClassOf[c].stop_on # << >> => ~Value(ClassOf[c].stop_on, o)

StartsUnmet(so, wait, d) == \A c \in Class \ {d} : StartUnmet(c, so[c], wait[c])
StopsUnmet(jb, d) == \A c \in Class \ {d} : StopUnmet(c, jb[c].stop_on)

\* What every operator keeps, in the middle of a handler too.
Core(s) ==
  /\ s \in System /\ s.fault = "none" /\ s.deleted = [c \in Class |-> FALSE]
  /\ Queued(s.queue, s.event) /\ Trees(s.start_on, s.job) /\ Listed(s.job)
  /\ Counts(s.event, s.start_on, s.job) /\ Live(DOMAIN s.event, s.start_on, s.job)

\* The daemon between two steps.
Sound(s) ==
  /\ Core(s) /\ Waits(s.event, s.job, NoEvent, "none") /\ Stages(s.job, "none")
  /\ StartsUnmet(s.start_on, s.cgmanager_wait, "none") /\ StopsUnmet(s.job, "none")

QueueInv ==
  /\ Sound(sys)
  /\ poll \in [pos : 0..(Len(sys.queue) + 1), again : BOOLEAN]

-----------------------------------------------------------------------------
(* Loops                                                                   *)

\* A set of numbers has a least one.
LEMMA Least ==
  ASSUME NEW T \in SUBSET Nat, T # {}
  PROVE  \E i \in T : \A k \in T : i <= k
<1> DEFINE Less == {ss \in Nat \X Nat : ss[1] < ss[2]}
<1>1. IsWellFoundedOn(Less, Nat)
  BY NatLessThanWellFounded DEF OpToRel
<1>2. \A i, k \in Nat : k < i => <<k, i>> \in Less
  OBVIOUS
<1> HIDE DEF Less
<1>3. PICK i \in T : \A k \in T : <<k, i>> \notin Less
  BY <1>1, WFMin
<1>4. ASSUME NEW k \in T PROVE i <= k
  <2>1. i \in Nat /\ k \in Nat /\ ~(k < i)
    BY <1>2, <1>3
  <2> QED BY <2>1
<1> QED BY <1>4

\* What holds of 0, and of a number when it holds of the one before, holds of
\* every number up to n.
LEMMA UpTo ==
  ASSUME NEW n \in Nat, NEW T, 0 \in T, \A i \in 1..n : i - 1 \in T => i \in T
  PROVE  \A i \in 0..n : i \in T
<1> SUFFICES ASSUME NEW k \in 0..n, k \notin T PROVE FALSE
  OBVIOUS
<1> DEFINE B == {i \in 0..n : i \notin T}
<1>1. B \subseteq Nat /\ B # {}
  OBVIOUS
<1>2. PICK x \in B : \A y \in B : x <= y
  BY <1>1, Least
<1>3. x # 0 /\ x \in 1..n /\ x - 1 \in 0..n /\ x - 1 \notin B
  BY <1>2
<1> QED BY <1>3

-----------------------------------------------------------------------------
(* Conditions                                                              *)

\* Where the children of a node are.
LEMMA Children ==
  ASSUME NEW c, Tree(c)
  PROVE  /\ Len(c) \in Nat /\ DOMAIN c = 1..Len(c)
         /\ \A i \in DOMAIN c :
              \/ c[i].type = "match"
              \/ c[i].type \in {"and", "or"} /\ Left(c, i) \in 1..(i - 1) /\ Right(c, i) \in 1..(i - 1)
<1>1. Len(c) \in Nat /\ DOMAIN c = 1..Len(c)
  BY LenProperties DEF Tree
<1>2. ASSUME NEW i \in DOMAIN c, c[i].type # "match"
      PROVE  c[i].type \in {"and", "or"} /\ Left(c, i) \in 1..(i - 1) /\ Right(c, i) \in 1..(i - 1)
  <2>1. c[i].type \in {"and", "or"} /\ Left(c, i) \in 1..(i - 1)
    BY <1>2 DEF Tree
  <2>2. i \in Nat
    BY <1>1
  <2>3. ASSUME NEW l \in 1..(i - 1) PROVE i - 1 \in 1..(i - 1)
    BY <2>2
  <2>4. Right(c, i) \in 1..(i - 1)
    BY <2>1, <2>3 DEF Right
  <2> QED BY <2>1, <2>4
<1> QED BY <1>1, <1>2

\* The value of a node does not depend on those after it.
LEMMA NodeValueIs ==
  ASSUME NEW c, Tree(c), NEW leaf \in [DOMAIN c -> BOOLEAN], NEW i \in DOMAIN c,
         NEW v, \A k \in 1..(i - 1) : v[k] \in BOOLEAN
  PROVE  /\ NodeValue(c, leaf, v, i) \in BOOLEAN
         /\ \A w : (\A k \in 1..(i - 1) : w[k] = v[k]) => NodeValue(c, leaf, w, i) = NodeValue(c, leaf, v, i)
<1>1. CASE c[i].type = "match"
  BY <1>1 DEF NodeValue
<1>2. CASE c[i].type = "and"
  <2>1. Left(c, i) \in 1..(i - 1) /\ Right(c, i) \in 1..(i - 1)
    BY <1>2, Children
  <2>2. \A w : NodeValue(c, leaf, w, i) = (w[Left(c, i)] /\ w[Right(c, i)])
    BY <1>2 DEF NodeValue
  <2> QED BY <2>1, <2>2
<1>3. CASE c[i].type = "or"
  <2>1. Left(c, i) \in 1..(i - 1) /\ Right(c, i) \in 1..(i - 1)
    BY <1>3, Children
  <2>2. \A w : NodeValue(c, leaf, w, i) = (w[Left(c, i)] \/ w[Right(c, i)])
    BY <1>3 DEF NodeValue
  <2> QED BY <2>1, <2>2
<1> QED BY <1>1, <1>2, <1>3, Children

\* event_operator_update gives every node its value.
LEMMA UpdateIs ==
  ASSUME NEW c, Tree(c), NEW leaf \in [DOMAIN c -> BOOLEAN]
  PROVE  /\ event_operator_update(c, leaf) \in [DOMAIN c -> BOOLEAN]
         /\ \A i \in DOMAIN c :
              event_operator_update(c, leaf)[i] = NodeValue(c, leaf, event_operator_update(c, leaf), i)
<1> DEFINE Def(v) == [i \in 1..Len(c) |-> NodeValue(c, leaf, v, i)]
           Runs(v, n) == \A i \in 1..n : v[i] \in BOOLEAN /\ v[i] = NodeValue(c, leaf, v, i)
           T == {n \in 0..Len(c) : \E v : Runs(v, n)}
<1>0. Len(c) \in Nat /\ DOMAIN c = 1..Len(c)
  BY Children
<1>1. 0 \in T
  BY <1>0
<1>2. ASSUME NEW i \in 1..Len(c), i - 1 \in T PROVE i \in T
  <2>1. PICK v : Runs(v, i - 1)
    BY <1>2
  <2> DEFINE w == [k \in 1..i |-> IF k = i THEN NodeValue(c, leaf, v, i) ELSE v[k]]
  <2>2. \A k \in 1..(i - 1) : w[k] = v[k] /\ v[k] \in BOOLEAN
    BY <2>1, <1>0
  <2>3. w[i] = NodeValue(c, leaf, v, i)
    BY <1>0
  <2> HIDE DEF w
  <2>4. w[i] \in BOOLEAN /\ w[i] = NodeValue(c, leaf, w, i)
    BY <2>2, <2>3, <1>0, NodeValueIs
  <2>5. ASSUME NEW k \in 1..(i - 1) PROVE w[k] \in BOOLEAN /\ w[k] = NodeValue(c, leaf, w, k)
    <3>1. k \in DOMAIN c /\ \A l \in 1..(k - 1) : l \in 1..(i - 1)
      BY <1>0
    <3>2. NodeValue(c, leaf, w, k) = NodeValue(c, leaf, v, k)
      BY <2>2, <3>1, NodeValueIs
    <3> QED BY <2>1, <2>2, <3>2
  <2>6. \A k \in 1..i : k = i \/ k \in 1..(i - 1)
    BY <1>0
  <2>7. Runs(w, i)
    BY <2>4, <2>5, <2>6
  <2> HIDE DEF Runs
  <2> QED BY <2>7, <1>0
<1>3. Len(c) \in T
  <2> HIDE DEF T
  <2>1. \A i \in 1..Len(c) : i - 1 \in T => i \in T
    BY <1>2
  <2>2. \A i \in 0..Len(c) : i \in T
    BY <1>0, <1>1, <2>1, UpTo
  <2> QED BY <2>2, <1>0
<1>4. PICK v : Runs(v, Len(c))
  BY <1>3
<1> DEFINE w == [i \in 1..Len(c) |-> v[i]]
<1>5. w = Def(w)
  <2>1. ASSUME NEW i \in 1..Len(c) PROVE w[i] = NodeValue(c, leaf, w, i)
    <3>1. \A k \in 1..(i - 1) : k \in 1..Len(c)
      BY <1>0
    <3>2. \A k \in 1..(i - 1) : w[k] = v[k] /\ v[k] \in BOOLEAN
      BY <3>1, <1>4
    <3>3. w[i] = v[i]
      OBVIOUS
    <3> HIDE DEF w
    <3>4. NodeValue(c, leaf, w, i) = NodeValue(c, leaf, v, i)
      BY <3>2, <1>0, NodeValueIs
    <3> QED BY <3>3, <3>4, <1>4
  <2> QED BY <2>1
<1> DEFINE u == CHOOSE x : x = Def(x)
<1>6. u = Def(u)
  <2> HIDE DEF w, Def
  <2> QED BY <1>5
<1>7. event_operator_update(c, leaf) = u
  BY DEF event_operator_update
<1> HIDE DEF u
<1>8. DOMAIN u = DOMAIN c /\ u = [i \in DOMAIN c |-> u[i]] /\ \A i \in DOMAIN c : u[i] = NodeValue(c, leaf, u, i)
  BY <1>6, <1>0
<1> DEFINE S == {i \in 0..Len(c) : \A k \in 1..i : u[k] \in BOOLEAN}
<1>9. 0 \in S
  BY <1>0
<1>10. ASSUME NEW i \in 1..Len(c), i - 1 \in S PROVE i \in S
  <2>1. \A k \in 1..(i - 1) : u[k] \in BOOLEAN
    BY <1>10
  <2>2. u[i] \in BOOLEAN
    <3>1. i \in DOMAIN c
      BY <1>0
    <3>2. NodeValue(c, leaf, u, i) \in BOOLEAN
      BY <2>1, <3>1, NodeValueIs
    <3> QED BY <3>1, <3>2, <1>8
  <2>3. \A k \in 1..i : k = i \/ k \in 1..(i - 1)
    BY <1>0
  <2>4. \A k \in 1..i : u[k] \in BOOLEAN
    BY <2>1, <2>2, <2>3
  <2> QED BY <2>4, <1>0
<1>11. Len(c) \in S
  <2> HIDE DEF S
  <2>1. \A i \in 1..Len(c) : i - 1 \in S => i \in S
    BY <1>10
  <2>2. \A i \in 0..Len(c) : i \in S
    BY <1>0, <1>9, <2>1, UpTo
  <2> QED BY <2>2, <1>0
<1>12. u \in [DOMAIN c -> BOOLEAN]
  BY <1>11, <1>8, <1>0
<1> QED BY <1>7, <1>8, <1>12

\* There is one way to do so.
LEMMA UpdateUnique ==
  ASSUME NEW c, Tree(c), NEW leaf \in [DOMAIN c -> BOOLEAN],
         NEW v \in [DOMAIN c -> BOOLEAN], NEW w \in [DOMAIN c -> BOOLEAN],
         \A i \in DOMAIN c : v[i] = NodeValue(c, leaf, v, i),
         \A i \in DOMAIN c : w[i] = NodeValue(c, leaf, w, i)
  PROVE  v = w
<1>0. Len(c) \in Nat /\ DOMAIN c = 1..Len(c)
  BY Children
<1> DEFINE S == {i \in 0..Len(c) : \A k \in 1..i : v[k] = w[k]}
<1>1. 0 \in S
  BY <1>0
<1>2. ASSUME NEW i \in 1..Len(c), i - 1 \in S PROVE i \in S
  <2>1. \A k \in 1..(i - 1) : w[k] = v[k] /\ v[k] \in BOOLEAN
    BY <1>2, <1>0
  <2>2. v[i] = w[i]
    <3>1. i \in DOMAIN c
      BY <1>0
    <3>2. NodeValue(c, leaf, v, i) = NodeValue(c, leaf, w, i)
      BY <2>1, <3>1, NodeValueIs
    <3> QED BY <3>1, <3>2
  <2>3. \A k \in 1..i : k = i \/ k \in 1..(i - 1)
    BY <1>0
  <2>4. \A k \in 1..i : v[k] = w[k]
    BY <2>1, <2>2, <2>3
  <2> QED BY <2>4, <1>0
<1>3. Len(c) \in S
  <2> HIDE DEF S
  <2>1. \A i \in 1..Len(c) : i - 1 \in S => i \in S
    BY <1>2
  <2>2. \A i \in 0..Len(c) : i \in S
    BY <1>0, <1>1, <2>1, UpTo
  <2> QED BY <2>2, <1>0
<1> QED BY <1>3, <1>0

\* All values FALSE are those of leaves that are FALSE.
LEMMA NoneIs ==
  ASSUME NEW c, Tree(c)
  PROVE  LET none == [i \in DOMAIN c |-> FALSE]
         IN  \A i \in DOMAIN c : none[i] = NodeValue(c, none, none, i)
<1> DEFINE none == [i \in DOMAIN c |-> FALSE]
<1> SUFFICES ASSUME NEW i \in DOMAIN c PROVE none[i] = NodeValue(c, none, none, i)
  OBVIOUS
<1>0. DOMAIN c = 1..Len(c) /\ Len(c) \in Nat /\ \A k \in 1..(i - 1) : k \in DOMAIN c
  BY Children
<1>1. CASE c[i].type = "match"
  BY <1>1 DEF NodeValue
<1>2. CASE c[i].type = "and"
  <2>1. Left(c, i) \in DOMAIN c /\ Right(c, i) \in DOMAIN c
    BY <1>0, <1>2, Children
  <2> QED BY <1>2, <2>1 DEF NodeValue
<1>3. CASE c[i].type = "or"
  <2>1. Left(c, i) \in DOMAIN c /\ Right(c, i) \in DOMAIN c
    BY <1>0, <1>3, Children
  <2> QED BY <1>3, <2>1 DEF NodeValue
<1> QED BY <1>1, <1>2, <1>3, Children

\* What the values are at the leaves and at the operators.
LEMMA ValuesAre ==
  ASSUME NEW c, Tree(c), NEW leaf \in [DOMAIN c -> BOOLEAN], NEW v \in [DOMAIN c -> BOOLEAN],
         \A i \in DOMAIN c : v[i] = NodeValue(c, leaf, v, i)
  PROVE  Evaluated(c, v) /\ \A i \in Leaves(c) : v[i] = leaf[i]
<1>1. ASSUME NEW i \in DOMAIN c, c[i].type = "and"
      PROVE  v[i] <=> v[Left(c, i)] /\ v[Right(c, i)]
  BY <1>1 DEF NodeValue
<1>2. ASSUME NEW i \in DOMAIN c, c[i].type = "or"
      PROVE  v[i] <=> v[Left(c, i)] \/ v[Right(c, i)]
  BY <1>2 DEF NodeValue
<1>3. ASSUME NEW i \in Leaves(c) PROVE v[i] = leaf[i]
  BY <1>3 DEF NodeValue, Leaves
<1> QED BY <1>1, <1>2, <1>3 DEF Evaluated

\* The values are those of their leaves.
LEMMA EvaluatedIs ==
  ASSUME NEW c, Tree(c), NEW v \in [DOMAIN c -> BOOLEAN], Evaluated(c, v), NEW i \in DOMAIN c
  PROVE  v[i] = NodeValue(c, v, v, i)
<1>0. v[i] \in BOOLEAN
  OBVIOUS
<1>1. CASE c[i].type = "match"
  BY <1>1 DEF NodeValue
<1>2. CASE c[i].type = "and"
  <2>1. v[i] <=> v[Left(c, i)] /\ v[Right(c, i)]
    BY <1>2 DEF Evaluated
  <2>2. NodeValue(c, v, v, i) = (v[Left(c, i)] /\ v[Right(c, i)])
    BY <1>2 DEF NodeValue
  <2> QED BY <1>0, <2>1, <2>2
<1>3. CASE c[i].type = "or"
  <2>1. v[i] <=> v[Left(c, i)] \/ v[Right(c, i)]
    BY <1>3 DEF Evaluated
  <2>2. NodeValue(c, v, v, i) = (v[Left(c, i)] \/ v[Right(c, i)])
    BY <1>3 DEF NodeValue
  <2> QED BY <1>0, <2>1, <2>2
<1> QED BY <1>1, <1>2, <1>3, Children

\* A condition that holds no event.
Bare(c, o) == /\ \A i \in DOMAIN c : o.event[i] = NoEvent
              /\ c # << >> => ~Value(c, o)

\* A new condition is TRUE nowhere and holds nothing.
LEMMA NewIs ==
  ASSUME NEW c, Tree(c)
  PROVE  Grown(c, event_operator_new(c)) /\ Bare(c, event_operator_new(c))
<1> DEFINE o == event_operator_new(c)
           none == [i \in DOMAIN c |-> FALSE]
<1>0. Len(c) \in Nat /\ DOMAIN c = 1..Len(c) /\ (c # << >> => Len(c) \in DOMAIN c)
  BY Children, EmptySeq DEF Tree
<1>1. o.value = none /\ o.event = [i \in DOMAIN c |-> NoEvent]
  BY DEF event_operator_new
<1>2. o \in [value : [DOMAIN c -> BOOLEAN], event : [DOMAIN c -> Nat]]
  BY NoEventAssumption DEF event_operator_new
<1>3. none \in [DOMAIN c -> BOOLEAN] /\ \A i \in DOMAIN c : none[i] = NodeValue(c, none, none, i)
  BY NoneIs
<1>4. Evaluated(c, none)
  <2> HIDE DEF none
  <2> QED BY <1>3, ValuesAre
<1>5. c # << >> => ~Value(c, o)
  BY <1>0, <1>1 DEF Value
<1> HIDE DEF o
<1>6. Grown(c, o)
  <2> HIDE DEF none
  <2> QED BY <1>1, <1>2, <1>4 DEF Grown
<1>7. \A i \in DOMAIN c : o.event[i] = NoEvent
  BY <1>1
<1> QED BY <1>5, <1>6, <1>7 DEF Bare, o

\* event_operator_reset leaves a condition as event_operator_new makes it.
LEMMA ResetIs ==
  ASSUME NEW c, Tree(c)
  PROVE  event_operator_reset(c) = event_operator_new(c)
<1> DEFINE none == [i \in DOMAIN c |-> FALSE]
           u == event_operator_update(c, none)
<1>1. none \in [DOMAIN c -> BOOLEAN] /\ \A i \in DOMAIN c : none[i] = NodeValue(c, none, none, i)
  BY NoneIs
<1>2. u = none
  <2> HIDE DEF none
  <2>1. u \in [DOMAIN c -> BOOLEAN] /\ \A i \in DOMAIN c : u[i] = NodeValue(c, none, u, i)
    BY <1>1, UpdateIs
  <2> HIDE DEF u
  <2> QED BY <1>1, <2>1, UpdateUnique
<1> QED BY <1>2 DEF event_operator_reset, event_operator_new

\* The leaves of c that may take an event.
Open(c, o) == {i \in Leaves(c) : ~o.value[i]}

\* The events held once `taken' have taken e.
Taking(c, o, e, taken) == [i \in DOMAIN c |-> IF i \in taken THEN e ELSE o.event[i]]

\* event_operator_handle: the leaves that take the event hold it; where none does
\* nothing changes.
LEMMA HandleIs ==
  ASSUME NEW c, Tree(c), NEW o, Grown(c, o), NEW e \in Ids, NEW taken \in SUBSET Open(c, o)
  PROVE  /\ Grown(c, event_operator_handle(c, o, e, taken))
         /\ event_operator_handle(c, o, e, taken).event = Taking(c, o, e, taken)
         /\ taken = {} => event_operator_handle(c, o, e, taken).value = o.value
<1> DEFINE h == event_operator_handle(c, o, e, taken)
           leaf == [i \in DOMAIN c |-> o.value[i] \/ i \in taken]
           v == event_operator_update(c, leaf)
<1>0. o.value \in [DOMAIN c -> BOOLEAN] /\ o.event \in [DOMAIN c -> Nat] /\ Evaluated(c, o.value)
  BY DEF Grown
<1>1. h.value = v /\ h.event = [i \in DOMAIN c |-> IF i \in taken THEN e ELSE o.event[i]]
  BY DEF event_operator_handle
<1>2. leaf \in [DOMAIN c -> BOOLEAN]
  BY <1>0
<1>3. v \in [DOMAIN c -> BOOLEAN] /\ \A i \in DOMAIN c : v[i] = NodeValue(c, leaf, v, i)
  <2> HIDE DEF leaf
  <2> QED BY <1>2, UpdateIs
<1>4. Evaluated(c, v) /\ \A i \in Leaves(c) : v[i] = leaf[i]
  <2> HIDE DEF leaf, v
  <2> QED BY <1>2, <1>3, ValuesAre
<1>5. h \in [value : [DOMAIN c -> BOOLEAN], event : [DOMAIN c -> Nat]]
  <2>1. h.event \in [DOMAIN c -> Nat]
    BY <1>0, <1>1 DEF Ids
  <2>2. h = [value |-> h.value, event |-> h.event]
    BY DEF event_operator_handle
  <2> HIDE DEF h, v
  <2> QED BY <1>1, <1>3, <2>1, <2>2
<1>6. ASSUME NEW i \in DOMAIN c, i \notin Leaves(c) \/ ~v[i] PROVE h.event[i] = NoEvent
  <2>1. taken \subseteq Leaves(c)
    BY DEF Open
  <2>2. CASE i \notin Leaves(c)
    BY <1>1, <2>1, <2>2 DEF Grown
  <2>3. CASE i \in Leaves(c)
    <3>1. ~leaf[i]
      BY <1>4, <1>6, <2>3
    <3>2. ~o.value[i] /\ i \notin taken
      BY <3>1
    <3> QED BY <1>1, <3>2 DEF Grown
  <2> QED BY <2>2, <2>3
<1>7. taken = {} => v = o.value
  <2> SUFFICES ASSUME taken = {} PROVE v = o.value
    OBVIOUS
  <2>1. leaf = o.value
    BY <1>0
  <2>2. \A i \in DOMAIN c : o.value[i] = NodeValue(c, leaf, o.value, i)
    BY <1>0, <2>1, EvaluatedIs
  <2> HIDE DEF leaf, v
  <2> QED BY <1>0, <1>2, <1>3, <2>2, UpdateUnique
<1>8. Grown(c, h)
  <2> HIDE DEF h, v
  <2> QED BY <1>1, <1>4, <1>5, <1>6 DEF Grown
<1> HIDE DEF v
<1> QED BY <1>1, <1>7, <1>8 DEF Taking

\* A class that needs the cgroup manager is TRUE as soon as it takes anything.
LEMMA AnyTaken ==
  ASSUME AnyEventStarts, NEW k \in Class, ClassOf[k].cgroup, NEW o, Grown(ClassOf[k].start_on, o),
         NEW e, NEW taken \in SUBSET Leaves(ClassOf[k].start_on), taken # {}
  PROVE  Value(ClassOf[k].start_on, event_operator_handle(ClassOf[k].start_on, o, e, taken))
<1> DEFINE c == ClassOf[k].start_on
           leaf == [i \in DOMAIN c |-> o.value[i] \/ i \in taken]
<1>1. leaf \in [DOMAIN c -> BOOLEAN]
  BY DEF Grown
<1>2. \E i \in Leaves(c) : leaf[i]
  BY DEF Leaves
<1>3. event_operator_update(c, leaf)[Len(c)]
  <2> HIDE DEF leaf
  <2> QED BY <1>1, <1>2 DEF AnyEventStarts
<1> QED BY <1>3 DEF event_operator_handle, Value

-----------------------------------------------------------------------------
(* Counting                                                                *)

\* As many references as leaves.
LEMMA LeavesCounted ==
  ASSUME NEW k, NEW c, NEW e, NEW S, IsFiniteSet(S)
  PROVE  IsFiniteSet(Tags(k, c, S, e)) /\ Cardinality(Tags(k, c, S, e)) = Cardinality(S)
<1> DEFINE T == Tags(k, c, S, e)
           f == [i \in S |-> <<k, c, i, e>>]
<1>1. f \in Injection(S, T)
  BY DEF Injection, IsInjective, Tags
<1>2. f \in Surjection(S, T)
  BY DEF Surjection, Tags
<1>3. ExistsBijection(S, T)
  BY <1>1, <1>2 DEF ExistsBijection, Bijection
<1> HIDE DEF T
<1>4. IsFiniteSet(T) /\ Cardinality(T) = Cardinality(S)
  BY <1>3, FS_Bijection
<1> QED BY <1>4 DEF T

\* As many references as entries of the list.
LEMMA EntriesCounted ==
  ASSUME NEW c, NEW e, NEW S \in SUBSET (Nat \X Nat), IsFiniteSet(S), \A p \in S : p[2] = e
  PROVE  IsFiniteSet(Entries(c, S, e)) /\ Cardinality(Entries(c, S, e)) = Cardinality(S)
<1> DEFINE T == Entries(c, S, e)
           f == [r \in S |-> <<"blocking", c, r[1], e>>]
<1>0. \A p, q \in S : p[1] = q[1] => p = q
  OBVIOUS
<1>1. f \in Injection(S, T)
  BY <1>0 DEF Injection, IsInjective, Entries
<1>2. f \in Surjection(S, T)
  BY DEF Surjection, Entries
<1>3. ExistsBijection(S, T)
  BY <1>1, <1>2 DEF ExistsBijection, Bijection
<1> HIDE DEF T
<1>4. IsFiniteSet(T) /\ Cardinality(T) = Cardinality(S)
  BY <1>3, FS_Bijection
<1> QED BY <1>4 DEF T

\* Adding what is not there, and taking away what is.
LEMMA Added ==
  ASSUME NEW X, NEW P, IsFiniteSet(X), IsFiniteSet(P), X \cap P = {}
  PROVE  IsFiniteSet(X \cup P) /\ Cardinality(X \cup P) = Cardinality(X) + Cardinality(P)
<1>1. Cardinality(X) \in Nat /\ Cardinality(P) \in Nat /\ Cardinality(X \cap P) = 0
  BY FS_CardinalityType, FS_EmptySet
<1>2. IsFiniteSet(X \cup P) /\ Cardinality(X \cup P) = Cardinality(X) + Cardinality(P) - Cardinality(X \cap P)
  BY FS_Union
<1> QED BY <1>1, <1>2

LEMMA Removed ==
  ASSUME NEW X, NEW P, IsFiniteSet(X), P \subseteq X
  PROVE  /\ IsFiniteSet(X \ P) /\ Cardinality(X \ P) = Cardinality(X) - Cardinality(P)
         /\ IsFiniteSet(P) /\ Cardinality(P) \in Nat /\ Cardinality(P) <= Cardinality(X)
         /\ Cardinality(X) \in Nat
<1>1. IsFiniteSet(P) /\ IsFiniteSet(X \ P) /\ Cardinality(P) <= Cardinality(X)
  BY FS_Subset
<1>2. Cardinality(X) \in Nat /\ Cardinality(P) \in Nat /\ Cardinality(X \ P) \in Nat
  BY <1>1, FS_CardinalityType
<1>3. (X \ P) \cup P = X /\ (X \ P) \cap P = {}
  OBVIOUS
<1>4. Cardinality(X) = Cardinality(X \ P) + Cardinality(P)
  BY <1>1, <1>3, Added
<1> QED BY <1>1, <1>2, <1>4

\* What a reference is.
LEMMA RefsAre ==
  ASSUME NEW so, NEW jb, NEW e, NEW z
  PROVE  z \in RefsTo(so, jb, e) <=>
           \E c \in Class : z \in StartRefs(so, c, e) \/ z \in StopRefs(jb, c, e) \/ z \in BlockRefs(jb, c, e)
<1>1. z \in RefsTo(so, jb, e) <=>
        \E c \in Class : z \in StartRefs(so, c, e) \cup StopRefs(jb, c, e) \cup BlockRefs(jb, c, e)
  BY DEF RefsTo
<1> QED BY <1>1

\* References of different kinds or classes are different.
LEMMA KindsDiffer ==
  ASSUME NEW so, NEW jb, NEW e, NEW c, NEW z
  PROVE  /\ z \in StartRefs(so, c, e) => z[1] = "start_on" /\ z[2] = c
         /\ z \in StopRefs(jb, c, e) => z[1] = "stop_on" /\ z[2] = c
         /\ z \in BlockRefs(jb, c, e) => z[1] = "blocking" /\ z[2] = c
         /\ "start_on" # "stop_on" /\ "start_on" # "blocking" /\ "stop_on" # "blocking"
BY DEF StartRefs, StopRefs, BlockRefs, Tags, Entries

\* Conditions and lists that are the same, but for those of d.
SameStarts(so, so2, d) == \A k \in Class \ {d} : so2[k].event = so[k].event
SameStops(jb, jb2, d) == \A k \in Class \ {d} : jb2[k].stop_on = jb[k].stop_on
SameLists(jb, jb2, d) == \A k \in Class \ {d} : jb2[k].blocking = jb[k].blocking

\* The start condition of c changes.
LEMMA StartChanges ==
  ASSUME NEW so, NEW so2, NEW jb, NEW e, NEW c \in Class, SameStarts(so, so2, c)
  PROVE  /\ RefsTo(so2, jb, e) = (RefsTo(so, jb, e) \ StartRefs(so, c, e)) \cup StartRefs(so2, c, e)
         /\ StartRefs(so, c, e) \subseteq RefsTo(so, jb, e)
<1>1. \A k \in Class \ {c} : StartRefs(so2, k, e) = StartRefs(so, k, e)
  BY DEF StartRefs, Holding, SameStarts
<1>2. ASSUME NEW z PROVE z \in RefsTo(so2, jb, e) <=> (z \in RefsTo(so, jb, e) /\ z \notin StartRefs(so, c, e)) \/ z \in StartRefs(so2, c, e)
  <2>1. z \in StartRefs(so, c, e) =>
          \A k \in Class : z \notin StopRefs(jb, k, e) /\ z \notin BlockRefs(jb, k, e)
                           /\ (k # c => z \notin StartRefs(so, k, e))
    BY KindsDiffer
  <2>2. CASE z \in StartRefs(so, c, e)
    BY <1>1, <2>1, <2>2, RefsAre
  <2>3. CASE z \notin StartRefs(so, c, e)
    BY <1>1, <2>3, RefsAre
  <2> QED BY <2>2, <2>3
<1>3. StartRefs(so, c, e) \subseteq RefsTo(so, jb, e)
  BY RefsAre
<1> QED BY <1>2, <1>3

\* The stop condition of the instance of c changes.
LEMMA StopChanges ==
  ASSUME NEW so, NEW jb, NEW jb2, NEW e, NEW c \in Class, SameLists(jb, jb2, "none"), SameStops(jb, jb2, c)
  PROVE  /\ RefsTo(so, jb2, e) = (RefsTo(so, jb, e) \ StopRefs(jb, c, e)) \cup StopRefs(jb2, c, e)
         /\ StopRefs(jb, c, e) \subseteq RefsTo(so, jb, e)
<1>1. \A k \in Class \ {c} : StopRefs(jb2, k, e) = StopRefs(jb, k, e)
  BY NameAssumption DEF StopRefs, SameStops
<1>2. \A k \in Class : BlockRefs(jb2, k, e) = BlockRefs(jb, k, e)
  BY NameAssumption DEF BlockRefs, SameLists
<1>3. ASSUME NEW z PROVE z \in RefsTo(so, jb2, e) <=> (z \in RefsTo(so, jb, e) /\ z \notin StopRefs(jb, c, e)) \/ z \in StopRefs(jb2, c, e)
  <2>1. z \in StopRefs(jb, c, e) =>
          \A k \in Class : z \notin StartRefs(so, k, e) /\ z \notin BlockRefs(jb, k, e)
                           /\ (k # c => z \notin StopRefs(jb, k, e))
    BY KindsDiffer
  <2>2. CASE z \in StopRefs(jb, c, e)
    BY <1>1, <1>2, <2>1, <2>2, RefsAre
  <2>3. CASE z \notin StopRefs(jb, c, e)
    BY <1>1, <1>2, <2>3, RefsAre
  <2> QED BY <2>2, <2>3
<1>4. StopRefs(jb, c, e) \subseteq RefsTo(so, jb, e)
  BY RefsAre
<1> QED BY <1>3, <1>4

\* What the instance of c blocks changes.
LEMMA BlockChanges ==
  ASSUME NEW so, NEW jb, NEW jb2, NEW e, NEW c \in Class, SameLists(jb, jb2, c), SameStops(jb, jb2, "none")
  PROVE  /\ RefsTo(so, jb2, e) = (RefsTo(so, jb, e) \ BlockRefs(jb, c, e)) \cup BlockRefs(jb2, c, e)
         /\ BlockRefs(jb, c, e) \subseteq RefsTo(so, jb, e)
<1>1. \A k \in Class \ {c} : BlockRefs(jb2, k, e) = BlockRefs(jb, k, e)
  BY NameAssumption DEF BlockRefs, SameLists
<1>2. \A k \in Class : StopRefs(jb2, k, e) = StopRefs(jb, k, e)
  BY NameAssumption DEF StopRefs, SameStops
<1>3. ASSUME NEW z PROVE z \in RefsTo(so, jb2, e) <=> (z \in RefsTo(so, jb, e) /\ z \notin BlockRefs(jb, c, e)) \/ z \in BlockRefs(jb2, c, e)
  <2>1. z \in BlockRefs(jb, c, e) =>
          \A k \in Class : z \notin StopRefs(jb, k, e) /\ z \notin StartRefs(so, k, e)
                           /\ (k # c => z \notin BlockRefs(jb, k, e))
    BY KindsDiffer
  <2>2. CASE z \in BlockRefs(jb, c, e)
    BY <1>1, <1>2, <2>1, <2>2, RefsAre
  <2>3. CASE z \notin BlockRefs(jb, c, e)
    BY <1>1, <1>2, <2>3, RefsAre
  <2> QED BY <2>2, <2>3
<1>4. BlockRefs(jb, c, e) \subseteq RefsTo(so, jb, e)
  BY RefsAre
<1> QED BY <1>3, <1>4

\* Whatever else changes of a job, the references stay.
LEMMA RefsStay ==
  ASSUME NEW so, NEW jb, NEW jb2, SameLists(jb, jb2, "none"), SameStops(jb, jb2, "none")
  PROVE  \A e : RefsTo(so, jb2, e) = RefsTo(so, jb, e)
<1> SUFFICES ASSUME NEW e PROVE RefsTo(so, jb2, e) = RefsTo(so, jb, e)
  OBVIOUS
<1>1. \A k \in Class : BlockRefs(jb2, k, e) = BlockRefs(jb, k, e)
  BY NameAssumption DEF BlockRefs, SameLists
<1>2. \A k \in Class : StopRefs(jb2, k, e) = StopRefs(jb, k, e)
  BY NameAssumption DEF StopRefs, SameStops
<1>3. ASSUME NEW z PROVE z \in RefsTo(so, jb2, e) <=> z \in RefsTo(so, jb, e)
  BY <1>1, <1>2, RefsAre
<1> QED BY <1>3

-----------------------------------------------------------------------------
(* The parts of the daemon                                                 *)

\* Everything but the queue, the events and the jobs.
Same(s, r) ==
  /\ r.start_on = s.start_on /\ r.cgmanager_wait = s.cgmanager_wait
  /\ r.cgroup_manager = s.cgroup_manager

\* Two tables of events that differ in counts and failures alone.
Alike(ev, ev2) ==
  /\ DOMAIN ev2 = DOMAIN ev
  /\ \A e \in DOMAIN ev : ev2[e].name = ev[e].name /\ ev2[e].env = ev[e].env /\ ev2[e].blocking = ev[e].blocking

\* No event of the first table is blocked more often in the second.
Eases(ev, ev2) == \A e \in DOMAIN ev : e \in DOMAIN ev2 /\ ev2[e].blockers <= ev[e].blockers

\* Events may have been added.
Grows(s, r) == DOMAIN s.event \subseteq DOMAIN r.event /\ Len(s.queue) <= Len(r.queue)

\* What is known of the parts.
LEMMA Parts ==
  ASSUME NEW s \in System
  PROVE  /\ s.queue \in Seq(Ids) /\ s.event \in EventTable /\ s.start_on \in [Class -> Operator]
         /\ s.cgmanager_wait \in [Class -> BOOLEAN] /\ s.job \in [Class -> JobRecord]
         /\ s.cgroup_manager \in BOOLEAN
         /\ DOMAIN s.event \subseteq Ids /\ s.event \in [DOMAIN s.event -> EventRecord]
         /\ Len(s.queue) \in Nat
<1>1. s.queue \in Seq(Ids) /\ s.event \in EventTable /\ s.start_on \in [Class -> Operator]
      /\ s.cgmanager_wait \in [Class -> BOOLEAN] /\ s.job \in [Class -> JobRecord]
      /\ s.cgroup_manager \in BOOLEAN
  BY DEF System
<1>2. PICK D \in SUBSET Ids : s.event \in [D -> EventRecord]
  BY <1>1 DEF EventTable
<1>3. DOMAIN s.event = D
  BY <1>2
<1> QED BY <1>1, <1>2, <1>3, LenProperties

\* An event with another count.
LEMMA Recount ==
  ASSUME NEW n \in EventRecord, NEW b \in Nat
  PROVE  /\ [n EXCEPT !.blockers = b] \in EventRecord
         /\ [n EXCEPT !.blockers = b].blockers = b
         /\ [n EXCEPT !.blockers = b].name = n.name
         /\ [n EXCEPT !.blockers = b].env = n.env
         /\ [n EXCEPT !.blockers = b].blocking = n.blocking
         /\ [n EXCEPT !.blockers = b].failed = n.failed
BY DEF EventRecord

\* An event that may have failed.
LEMMA Refail ==
  ASSUME NEW n \in EventRecord, NEW b \in BOOLEAN
  PROVE  /\ [n EXCEPT !.failed = b] \in EventRecord
         /\ [n EXCEPT !.failed = b].blockers = n.blockers
         /\ [n EXCEPT !.failed = b].name = n.name
         /\ [n EXCEPT !.failed = b].env = n.env
         /\ [n EXCEPT !.failed = b].blocking = n.blocking
BY DEF EventRecord

\* Another table of events.
WithEvents(s, ev) == [s EXCEPT !.event = ev]

LEMMA EventsSet ==
  ASSUME NEW s \in System, NEW ev \in EventTable
  PROVE  LET r == WithEvents(s, ev)
         IN  r \in System /\ r.event = ev /\ r.queue = s.queue /\ r.job = s.job /\ Same(s, r)
             /\ r.fault = s.fault /\ r.deleted = s.deleted
BY DEF System, WithEvents, Same

\* Another job.
WithJob(s, c, j) == [s EXCEPT !.job[c] = j]

LEMMA JobSet ==
  ASSUME NEW s \in System, NEW c \in Class, NEW j \in JobRecord
  PROVE  LET r == WithJob(s, c, j)
         IN  r \in System /\ r.event = s.event /\ r.queue = s.queue /\ Same(s, r)
             /\ r.job = [s.job EXCEPT ![c] = j] /\ r.job[c] = j
             /\ (\A k \in Class \ {c} : r.job[k] = s.job[k])
             /\ r.fault = s.fault /\ r.deleted = s.deleted
<1> DEFINE r == WithJob(s, c, j)
<1>1. s.job \in [Class -> JobRecord]
  BY DEF System
<1>2. [s.job EXCEPT ![c] = j] \in [Class -> JobRecord] /\ [s.job EXCEPT ![c] = j][c] = j
      /\ \A k \in Class \ {c} : [s.job EXCEPT ![c] = j][k] = s.job[k]
  BY <1>1
<1>3. r.job = [s.job EXCEPT ![c] = j]
  BY DEF System, WithJob
<1>4. r \in System
  BY <1>2 DEF System, WithJob
<1>5. r.event = s.event /\ r.queue = s.queue /\ Same(s, r) /\ r.fault = s.fault /\ r.deleted = s.deleted
  BY DEF System, WithJob, Same
<1> QED BY <1>2, <1>3, <1>4, <1>5

\* Another start condition.
WithStart(s, c, o) == [s EXCEPT !.start_on[c] = o]

LEMMA StartSet ==
  ASSUME NEW s \in System, NEW c \in Class, NEW o \in Operator
  PROVE  LET r == WithStart(s, c, o)
         IN  r \in System /\ r.event = s.event /\ r.queue = s.queue /\ r.job = s.job
             /\ r.cgmanager_wait = s.cgmanager_wait /\ r.cgroup_manager = s.cgroup_manager
             /\ r.start_on = [s.start_on EXCEPT ![c] = o] /\ r.start_on[c] = o
             /\ (\A k \in Class \ {c} : r.start_on[k] = s.start_on[k])
             /\ r.fault = s.fault /\ r.deleted = s.deleted
<1> DEFINE r == WithStart(s, c, o)
<1>1. s.start_on \in [Class -> Operator]
  BY DEF System
<1>2. [s.start_on EXCEPT ![c] = o] \in [Class -> Operator] /\ [s.start_on EXCEPT ![c] = o][c] = o
      /\ \A k \in Class \ {c} : [s.start_on EXCEPT ![c] = o][k] = s.start_on[k]
  BY <1>1
<1>3. r.start_on = [s.start_on EXCEPT ![c] = o]
  BY DEF System, WithStart
<1>4. r \in System
  BY <1>2 DEF System, WithStart
<1>5. r.event = s.event /\ r.queue = s.queue /\ r.job = s.job /\ r.fault = s.fault /\ r.deleted = s.deleted
      /\ r.cgmanager_wait = s.cgmanager_wait /\ r.cgroup_manager = s.cgroup_manager
  BY DEF System, WithStart
<1> QED BY <1>2, <1>3, <1>4, <1>5

\* A condition of some class.
LEMMA GrownType ==
  ASSUME NEW c, Tree(c), NEW o, Grown(c, o)
  PROVE  o \in Operator
<1>1. DOMAIN c \in SUBSET Nat
  BY Children
<1> QED BY <1>1 DEF Grown, Operator

\* The conditions are trees.
LEMMA TreesAre ==
  ASSUME NEW c \in Class
  PROVE  Tree(ClassOf[c].start_on) /\ Tree(ClassOf[c].stop_on)
BY TreeAssumption

\* A table of alike events is a table of events.
LEMMA TableIs ==
  ASSUME NEW s \in System, NEW ev, DOMAIN ev = DOMAIN s.event,
         ev = [e \in DOMAIN ev |-> ev[e]], \A e \in DOMAIN ev : ev[e] \in EventRecord
  PROVE  ev \in EventTable
<1>1. DOMAIN ev \in SUBSET Ids
  BY Parts
<1>2. ev \in [DOMAIN ev -> EventRecord]
  OBVIOUS
<1> QED BY <1>1, <1>2 DEF EventTable

\* The events held by a condition are at its leaves.
LEMMA HeldIs ==
  ASSUME NEW c, Tree(c), NEW o, Grown(c, o), NEW e \in Ids
  PROVE  IsFiniteSet(Holding(c, o, e)) /\ Held(o, e) = Cardinality(Holding(c, o, e))
<1>1. DOMAIN o.event = DOMAIN c /\ NoEvent # e
  BY NoEventAssumption DEF Grown, Ids
<1>2. {i \in DOMAIN o.event : o.event[i] = e} = Holding(c, o, e)
  BY <1>1 DEF Grown, Leaves, Holding
<1>3. IsFiniteSet(DOMAIN c)
  <2>1. DOMAIN c = 1..Len(c) /\ 1 \in Int /\ Len(c) \in Int
    BY Children
  <2> QED BY <2>1, FS_Interval
<1>4. Holding(c, o, e) \in SUBSET DOMAIN c
  BY DEF Leaves, Holding
<1> QED BY <1>2, <1>3, <1>4, FS_Subset DEF Held

\* Alike events: who waits for what stays.
LEMMA WaitsAlike ==
  ASSUME NEW ev, NEW ev2, NEW jb, NEW jb2, NEW x, NEW d, Waits(ev, jb, x, d), Alike(ev, ev2),
         \A c \in Class : jb2[c].stage = jb[c].stage /\ jb2[c].blocker = jb[c].blocker
  PROVE  Waits(ev2, jb2, x, d)
<1>1. \A e \in DOMAIN ev2 \ {x} : ev2[e].blocking \in Class => jb2[ev2[e].blocking].blocker = e
  BY DEF Waits, Alike
<1>2. \A e \in DOMAIN ev2 : ev2[e].name \in Blocked =>
        ev2[e].blocking \in Class /\ ev2[e].env[1].value = ev2[e].blocking
  BY DEF Waits, Alike
<1>3. ASSUME NEW c \in Class \ {d}
      PROVE  IF jb2[c].stage \in Blocked
             THEN /\ jb2[c].blocker \in DOMAIN ev2 \ {x}
                  /\ ev2[jb2[c].blocker].blocking = c /\ ev2[jb2[c].blocker].name = jb2[c].stage
             ELSE jb2[c].blocker = NoEvent
  <2>1. CASE jb[c].stage \in Blocked
    <3>1. /\ jb[c].blocker \in DOMAIN ev \ {x}
          /\ ev[jb[c].blocker].blocking = c /\ ev[jb[c].blocker].name = jb[c].stage
      BY <2>1 DEF Waits
    <3> QED BY <2>1, <3>1 DEF Alike
  <2>2. CASE jb[c].stage \notin Blocked
    BY <2>2 DEF Waits
  <2> QED BY <2>1, <2>2
<1>4. d \in Class => jb2[d].blocker = NoEvent
  BY DEF Waits
<1> QED BY <1>1, <1>2, <1>3, <1>4 DEF Waits

-----------------------------------------------------------------------------
(* Blocking and unblocking                                                 *)

\* The counts that are left.
Less(ev, times) == [e \in DOMAIN ev |-> [ev[e] EXCEPT !.blockers = @ - times[e]]]

\* event_unblock, where no event is unblocked more often than blocked.
LEMMA UnblockIs ==
  ASSUME NEW s \in System, NEW times,
         \A e \in DOMAIN s.event : times[e] \in Nat /\ times[e] <= s.event[e].blockers
  PROVE  /\ event_unblock(s, times) = WithEvents(s, Less(s.event, times))
         /\ Less(s.event, times) \in EventTable
         /\ Alike(s.event, Less(s.event, times)) /\ Eases(s.event, Less(s.event, times))
         /\ \A e \in DOMAIN s.event :
              Less(s.event, times)[e].blockers = s.event[e].blockers - times[e]
<1> DEFINE ev == s.event
           l == Less(ev, times)
<1>0. ev \in [DOMAIN ev -> EventRecord] /\ DOMAIN ev \subseteq Ids
  BY Parts
<1>1. ASSUME NEW e \in DOMAIN ev PROVE ev[e] \in EventRecord /\ ev[e].blockers \in Nat /\ times[e] \in Nat
        /\ times[e] <= ev[e].blockers /\ ev[e].blockers - times[e] \in Nat
  <2>1. ev[e] \in EventRecord
    BY <1>0
  <2>2. ev[e].blockers \in Nat
    BY <2>1 DEF EventRecord
  <2> QED BY <2>1, <2>2
<1>2. event_unblock(s, times) = WithEvents(s, l)
  <2>1. ~\E e \in DOMAIN s.event : times[e] > s.event[e].blockers
    BY <1>1
  <2> QED BY <2>1 DEF event_unblock, WithEvents, Less
<1>3. ASSUME NEW e \in DOMAIN ev
      PROVE  /\ l[e] \in EventRecord /\ l[e].blockers = ev[e].blockers - times[e]
             /\ l[e].name = ev[e].name /\ l[e].env = ev[e].env /\ l[e].blocking = ev[e].blocking
             /\ l[e].blockers <= ev[e].blockers
  <2>1. l[e] = [ev[e] EXCEPT !.blockers = ev[e].blockers - times[e]]
    BY DEF Less
  <2> DEFINE n == ev[e]
             b == ev[e].blockers - times[e]
  <2>2. n \in EventRecord /\ b \in Nat /\ l[e] = [n EXCEPT !.blockers = b]
    BY <1>1, <2>1
  <2>3. b <= n.blockers
    BY <1>1
  <2> HIDE DEF n, b, l
  <2>4. /\ l[e] \in EventRecord /\ l[e].blockers = b
        /\ l[e].name = n.name /\ l[e].env = n.env /\ l[e].blocking = n.blocking
    BY <2>2, Recount
  <2> QED BY <2>3, <2>4 DEF n, b
<1>4. DOMAIN l = DOMAIN ev /\ l = [e \in DOMAIN l |-> l[e]]
  BY DEF Less
<1> HIDE DEF l
<1>5. l \in EventTable
  BY <1>3, <1>4, TableIs
<1>6. Alike(ev, l) /\ Eases(ev, l)
  BY <1>3, <1>4 DEF Alike, Eases
<1> QED BY <1>2, <1>3, <1>5, <1>6 DEF l

\* Events that are referred to have not been freed.
LEMMA NoneFreed ==
  ASSUME NEW s, Core(s), NEW ids \in SUBSET Nat,
         \A e \in ids : e \in Ids => RefsTo(s.start_on, s.job, e) # {}
  PROVE  Freed(s, ids) = {}
BY NoEventAssumption DEF Freed, Core, Live, Ids

\* A condition that is about to be reset or freed lets go of its events: the counts
\* are those without it.
LEMMA ReleaseIs ==
  ASSUME NEW s, Core(s), NEW c, Tree(c), NEW o, Grown(c, o), NEW k, NEW t,
         \A e \in Ids : Tags(k, t, Holding(c, o, e), e) \subseteq RefsTo(s.start_on, s.job, e)
  PROVE  \E ev \in EventTable :
           /\ Release(s, o) = WithEvents(s, ev) /\ Alike(s.event, ev) /\ Eases(s.event, ev)
           /\ \A e \in DOMAIN s.event :
                ev[e].blockers = Cardinality(RefsTo(s.start_on, s.job, e) \ Tags(k, t, Holding(c, o, e), e))
<1> DEFINE times == [e \in DOMAIN s.event |-> Held(o, e)]
           ev == Less(s.event, times)
           Of(e) == Tags(k, t, Holding(c, o, e), e)
           R(e) == RefsTo(s.start_on, s.job, e)
<1>0. s \in System /\ DOMAIN s.event \subseteq Ids /\ o.event \in [DOMAIN c -> Nat] /\ DOMAIN o.event = DOMAIN c
  BY Parts DEF Core, Grown
<1>1. Freed(s, {o.event[i] : i \in DOMAIN o.event}) = {}
  <2>1. {o.event[i] : i \in DOMAIN o.event} \in SUBSET Nat
    BY <1>0
  <2>2. ASSUME NEW e \in {o.event[i] : i \in DOMAIN o.event}, e \in Ids PROVE R(e) # {}
    <3>1. PICK i \in DOMAIN c : o.event[i] = e
      BY <1>0
    <3>2. i \in Leaves(c)
      BY <3>1, <2>2, NoEventAssumption DEF Grown, Ids
    <3>3. <<k, t, i, e>> \in Of(e)
      BY <3>1, <3>2 DEF Tags, Holding
    <3> QED BY <2>2, <3>3
  <2> HIDE DEF R
  <2> QED BY <2>1, <2>2, NoneFreed DEF R
<1>2. ASSUME NEW e \in DOMAIN s.event
      PROVE  /\ times[e] = Cardinality(Of(e)) /\ times[e] \in Nat
             /\ times[e] <= s.event[e].blockers
             /\ s.event[e].blockers - times[e] = Cardinality(R(e) \ Of(e))
  <2>1. e \in Ids
    BY <1>0
  <2>2. times[e] = Held(o, e)
    OBVIOUS
  <2> DEFINE L == Holding(c, o, e)
  <2>3. IsFiniteSet(L) /\ Held(o, e) = Cardinality(L)
    BY <2>1, HeldIs
  <2>4. Cardinality(Of(e)) = Cardinality(L)
    BY <2>3, LeavesCounted
  <2>5. Of(e) \subseteq R(e)
    BY <2>1
  <2>6. IsFiniteSet(R(e)) /\ s.event[e].blockers = Cardinality(R(e))
    BY DEF Core, Counts
  <2> HIDE DEF R, Of, L, times
  <2>7. Cardinality(R(e) \ Of(e)) = Cardinality(R(e)) - Cardinality(Of(e)) /\ Cardinality(Of(e)) \in Nat
        /\ Cardinality(Of(e)) <= Cardinality(R(e))
    BY <2>5, <2>6, Removed
  <2> QED BY <2>2, <2>3, <2>4, <2>6, <2>7
<1>3. Release(s, o) = event_unblock(s, times)
  BY <1>1 DEF Release
<1> HIDE DEF times, Of, R
<1>4. /\ event_unblock(s, times) = WithEvents(s, ev) /\ ev \in EventTable
      /\ Alike(s.event, ev) /\ Eases(s.event, ev)
      /\ \A e \in DOMAIN s.event : ev[e].blockers = s.event[e].blockers - times[e]
  BY <1>0, <1>2, UnblockIs
<1>5. \A e \in DOMAIN s.event : ev[e].blockers = Cardinality(R(e) \ Of(e))
  BY <1>2, <1>4
<1> HIDE DEF ev
<1>6. Release(s, o) = WithEvents(s, ev)
  BY <1>3, <1>4
<1> QED BY <1>4, <1>5, <1>6 DEF Of, R

\* A job that holds nobody back any more.
Finished(j) == [j EXCEPT !.blocking = {}, !.caller = FALSE]

LEMMA FinishedIs ==
  ASSUME NEW j \in JobRecord
  PROVE  /\ Finished(j) \in JobRecord /\ Rests(Finished(j)) /\ Finished(j).blocking = {}
         /\ Finished(j).stage = j.stage /\ Finished(j).goal = j.goal /\ Finished(j).blocker = j.blocker
         /\ Finished(j).stop_on = j.stop_on /\ Finished(j).main = j.main /\ Finished(j).failed = j.failed
<1>1. /\ Finished(j) \in JobRecord /\ Finished(j).blocking = {} /\ Finished(j).caller = FALSE
      /\ Finished(j).stage = j.stage /\ Finished(j).goal = j.goal /\ Finished(j).blocker = j.blocker
      /\ Finished(j).stop_on = j.stop_on /\ Finished(j).main = j.main /\ Finished(j).failed = j.failed
  BY DEF JobRecord, Finished
<1> QED BY <1>1 DEF Rests

\* The entries of a list that name an event are as many as the references.
LEMMA NamingCounted ==
  ASSUME NEW c, NEW e, NEW S \in SUBSET (Nat \X Nat), IsFiniteSet(S)
  PROVE  /\ IsFiniteSet(Entries(c, Naming(S, e), e))
         /\ Cardinality(Entries(c, Naming(S, e), e)) = Cardinality(Naming(S, e))
         /\ Cardinality(Naming(S, e)) \in Nat
<1>1. Naming(S, e) \in SUBSET S /\ Naming(S, e) \in SUBSET (Nat \X Nat) /\ \A p \in Naming(S, e) : p[2] = e
  BY DEF Naming
<1>2. IsFiniteSet(Naming(S, e))
  BY <1>1, FS_Subset
<1> QED BY <1>1, <1>2, EntriesCounted, FS_CardinalityType

\* The events named on the list of a job are still there.
LEMMA NamedAlive ==
  ASSUME NEW s, Core(s), NEW c \in Class, NEW p \in s.job[c].blocking
  PROVE  p[2] \in Nat /\ (p[2] \in Ids => RefsTo(s.start_on, s.job, p[2]) # {})
<1>1. s.job[c] \in JobRecord
  BY Parts DEF Core
<1>2. p \in Nat \X Nat
  BY <1>1 DEF JobRecord
<1>3. p \in Naming(s.job[c].blocking, p[2])
  BY DEF Naming
<1>4. <<"blocking", c, p[1], p[2]>> \in BlockRefs(s.job, c, p[2])
  BY <1>3 DEF BlockRefs, Entries
<1>5. <<"blocking", c, p[1], p[2]>> \in RefsTo(s.start_on, s.job, p[2])
  BY <1>4, RefsAre
<1> QED BY <1>2, <1>5

\* The events that may be marked as failed.
Marked(ev, failed, ids) == [e \in DOMAIN ev |-> [ev[e] EXCEPT !.failed = @ \/ (failed /\ e \in ids)]]

LEMMA MarkedIs ==
  ASSUME NEW s \in System, NEW ev \in EventTable, DOMAIN ev = DOMAIN s.event, NEW failed \in BOOLEAN, NEW ids
  PROVE  /\ Marked(ev, failed, ids) \in EventTable /\ Alike(ev, Marked(ev, failed, ids))
         /\ \A e \in DOMAIN ev : Marked(ev, failed, ids)[e].blockers = ev[e].blockers
<1> DEFINE l == Marked(ev, failed, ids)
<1>0. DOMAIN l = DOMAIN ev /\ l = [e \in DOMAIN l |-> l[e]]
  BY DEF Marked
<1>1. \A e \in DOMAIN ev : ev[e] \in EventRecord
  BY DEF EventTable
<1>2. ASSUME NEW e \in DOMAIN ev
      PROVE  /\ l[e] \in EventRecord /\ l[e].blockers = ev[e].blockers
             /\ l[e].name = ev[e].name /\ l[e].env = ev[e].env /\ l[e].blocking = ev[e].blocking
  <2> DEFINE n == ev[e]
             b == (ev[e].failed \/ (failed /\ e \in ids))
  <2>1. l[e] = [n EXCEPT !.failed = b]
    BY DEF Marked
  <2>2. n \in EventRecord /\ b \in BOOLEAN
    BY <1>1
  <2> HIDE DEF n, b, l
  <2>3. /\ l[e] \in EventRecord /\ l[e].blockers = n.blockers
        /\ l[e].name = n.name /\ l[e].env = n.env /\ l[e].blocking = n.blocking
    BY <2>1, <2>2, Refail
  <2> QED BY <2>3 DEF n
<1> HIDE DEF l
<1>3. l \in EventTable
  BY <1>0, <1>2, TableIs
<1>4. Alike(ev, l)
  BY <1>0, <1>2 DEF Alike
<1> QED BY <1>2, <1>3, <1>4 DEF l

\* job_finished: the counts go down by what the job blocked.
LEMMA FinishesEvents ==
  ASSUME NEW s, Core(s), NEW c \in Class, NEW failed \in BOOLEAN
  PROVE  \E ev \in EventTable :
           /\ job_finished(s, c, failed) = WithJob(WithEvents(s, ev), c, Finished(s.job[c]))
           /\ Alike(s.event, ev) /\ Eases(s.event, ev)
           /\ \A e \in DOMAIN s.event :
                ev[e].blockers = Cardinality(RefsTo(s.start_on, s.job, e) \ BlockRefs(s.job, c, e))
<1> DEFINE refs == s.job[c].blocking
           ids == {p[2] : p \in refs}
           times == [e \in DOMAIN s.event |-> Cardinality({p \in refs : p[2] = e})]
           R(e) == RefsTo(s.start_on, s.job, e)
           Of(e) == BlockRefs(s.job, c, e)
           l == Less(s.event, times)
           ev == Marked(l, failed, ids)
<1>0. s \in System /\ DOMAIN s.event \subseteq Ids /\ s.job[c] \in JobRecord /\ s.job \in [Class -> JobRecord]
  BY Parts DEF Core
<1>1. refs \in SUBSET (Nat \X Nat) /\ IsFiniteSet(refs)
  BY <1>0 DEF JobRecord, Core, Listed
<1>2. Freed(s, ids) = {}
  <2>1. ids \in SUBSET Nat /\ \A e \in ids : e \in Ids => RefsTo(s.start_on, s.job, e) # {}
    BY NamedAlive
  <2> HIDE DEF ids
  <2> QED BY <2>1, NoneFreed
<1>3. ASSUME NEW e \in DOMAIN s.event
      PROVE  /\ times[e] \in Nat /\ times[e] <= s.event[e].blockers
             /\ s.event[e].blockers - times[e] = Cardinality(R(e) \ Of(e))
  <2>1. times[e] = Cardinality(Naming(refs, e))
    BY DEF Naming
  <2>2. Cardinality(Of(e)) = Cardinality(Naming(refs, e)) /\ Cardinality(Naming(refs, e)) \in Nat
    BY <1>1, NamingCounted DEF BlockRefs
  <2>3. Of(e) \subseteq R(e)
    BY RefsAre
  <2>4. IsFiniteSet(R(e)) /\ s.event[e].blockers = Cardinality(R(e))
    BY DEF Core, Counts
  <2> HIDE DEF R, Of, refs, times
  <2>5. Cardinality(R(e) \ Of(e)) = Cardinality(R(e)) - Cardinality(Of(e))
        /\ Cardinality(Of(e)) <= Cardinality(R(e))
    BY <2>3, <2>4, Removed
  <2> QED BY <2>1, <2>2, <2>4, <2>5
<1>4. /\ event_unblock(s, times) = WithEvents(s, l) /\ l \in EventTable
      /\ Alike(s.event, l) /\ Eases(s.event, l)
      /\ \A e \in DOMAIN s.event : l[e].blockers = s.event[e].blockers - times[e]
  <2> HIDE DEF times
  <2> QED BY <1>0, <1>3, UnblockIs
<1> DEFINE u == WithEvents(s, l)
<1>5. u \in System /\ u.event = l /\ u.job = s.job
  <2> HIDE DEF l
  <2> QED BY <1>0, <1>4, EventsSet
<1>6. job_finished(s, c, failed) =
        [[u EXCEPT !.event = [e \in DOMAIN u.event |->
            [u.event[e] EXCEPT !.failed = @ \/ (failed /\ e \in ids)]]] EXCEPT
              !.job[c].blocking = {}, !.job[c].caller = FALSE]
  <2> HIDE DEF l, u
  <2> QED BY <1>2, <1>4 DEF job_finished, u
<1> HIDE DEF l, ids
<1>7. ev \in EventTable /\ Alike(l, ev) /\ \A e \in DOMAIN l : ev[e].blockers = l[e].blockers
  <2>1. DOMAIN l = DOMAIN s.event
    BY <1>4 DEF Alike
  <2> QED BY <1>0, <1>4, <2>1, MarkedIs
<1> DEFINE m == WithEvents(s, ev)
<1>8. [u EXCEPT !.event = [e \in DOMAIN u.event |->
            [u.event[e] EXCEPT !.failed = @ \/ (failed /\ e \in ids)]]] = m
  BY <1>5, <1>0 DEF Marked, WithEvents, System
<1> HIDE DEF u, ev
<1>9. m \in System /\ m.job = s.job
  BY <1>0, <1>7, EventsSet
<1> HIDE DEF m
<1>10. job_finished(s, c, failed) = [m EXCEPT !.job[c].blocking = {}, !.job[c].caller = FALSE]
  BY <1>6, <1>8
<1>11. job_finished(s, c, failed) = WithJob(m, c, Finished(s.job[c]))
  BY <1>0, <1>9, <1>10 DEF WithJob, Finished, System
<1>12. Alike(s.event, ev) /\ Eases(s.event, ev)
  <2>1. Alike(s.event, ev)
    BY <1>4, <1>7 DEF Alike
  <2> QED BY <1>4, <1>7, <2>1 DEF Eases, Alike
<1>13. \A e \in DOMAIN s.event : ev[e].blockers = Cardinality(R(e) \ Of(e))
  BY <1>3, <1>4, <1>7 DEF Alike
<1> HIDE DEF R, Of
<1> QED BY <1>7, <1>11, <1>12, <1>13 DEF m, R, Of

\* Core after a change of counts and of the job of c.
LEMMA CoreJob ==
  ASSUME NEW s, Core(s), NEW c \in Class, NEW ev \in EventTable, Alike(s.event, ev), NEW j \in JobRecord,
         Grown(ClassOf[c].stop_on, j.stop_on), IsFiniteSet(j.blocking),
         NEW jb, jb = [s.job EXCEPT ![c] = j],
         \A e \in DOMAIN s.event : /\ IsFiniteSet(RefsTo(s.start_on, jb, e))
                                   /\ ev[e].blockers = Cardinality(RefsTo(s.start_on, jb, e)),
         \A e \in Ids : RefsTo(s.start_on, jb, e) # {} => e \in DOMAIN s.event
  PROVE  LET r == WithJob(WithEvents(s, ev), c, j)
         IN  Core(r) /\ Same(s, r) /\ r.queue = s.queue /\ r.event = ev /\ r.job = jb
<1> DEFINE m == WithEvents(s, ev)
           r == WithJob(m, c, j)
<1>0. s \in System /\ s.job \in [Class -> JobRecord]
  BY Parts DEF Core
<1>1. m \in System /\ m.event = ev /\ m.queue = s.queue /\ m.job = s.job /\ Same(s, m)
      /\ m.fault = s.fault /\ m.deleted = s.deleted
  BY <1>0, EventsSet
<1> HIDE DEF m
<1>2. r \in System /\ r.event = ev /\ r.queue = s.queue /\ r.job = jb /\ Same(m, r)
      /\ r.fault = s.fault /\ r.deleted = s.deleted
  BY <1>1, JobSet
<1>3. Same(s, r)
  BY <1>1, <1>2 DEF Same
<1>4. \A k \in Class \ {c} : jb[k] = s.job[k]
  BY <1>0
<1>5. jb[c] = j
  BY <1>0
<1> HIDE DEF r
<1>6. Trees(r.start_on, r.job)
  BY <1>2, <1>3, <1>4, <1>5 DEF Core, Trees, Same
<1>7. Listed(r.job)
  BY <1>2, <1>4, <1>5 DEF Core, Listed
<1>8. Queued(r.queue, r.event)
  BY <1>2 DEF Core, Queued, Alike
<1>9. Counts(r.event, r.start_on, r.job) /\ Live(DOMAIN r.event, r.start_on, r.job)
  BY <1>2, <1>3 DEF Counts, Live, Alike, Same
<1>10. Core(r)
  BY <1>2, <1>6, <1>7, <1>8, <1>9 DEF Core
<1> QED BY <1>2, <1>3, <1>10 DEF r, m

\* Core after a change of counts and of the start condition of c.
LEMMA CoreStart ==
  ASSUME NEW s, Core(s), NEW c \in Class, NEW ev \in EventTable, Alike(s.event, ev), NEW o,
         Grown(ClassOf[c].start_on, o), NEW so, so = [s.start_on EXCEPT ![c] = o],
         \A e \in DOMAIN s.event : /\ IsFiniteSet(RefsTo(so, s.job, e))
                                   /\ ev[e].blockers = Cardinality(RefsTo(so, s.job, e)),
         \A e \in Ids : RefsTo(so, s.job, e) # {} => e \in DOMAIN s.event
  PROVE  LET r == WithStart(WithEvents(s, ev), c, o)
         IN  /\ Core(r) /\ r.queue = s.queue /\ r.event = ev /\ r.job = s.job /\ r.start_on = so
             /\ r.cgmanager_wait = s.cgmanager_wait /\ r.cgroup_manager = s.cgroup_manager
             /\ so[c] = o /\ \A k \in Class \ {c} : so[k] = s.start_on[k]
<1> DEFINE m == WithEvents(s, ev)
           r == WithStart(m, c, o)
<1>0. s \in System /\ s.start_on \in [Class -> Operator] /\ o \in Operator
  BY Parts, GrownType, TreesAre DEF Core
<1>1. m \in System /\ m.event = ev /\ m.queue = s.queue /\ m.job = s.job /\ Same(s, m)
      /\ m.fault = s.fault /\ m.deleted = s.deleted
  BY <1>0, EventsSet
<1> HIDE DEF m
<1>2. r \in System /\ r.event = ev /\ r.queue = s.queue /\ r.job = s.job
      /\ r.cgmanager_wait = s.cgmanager_wait /\ r.cgroup_manager = s.cgroup_manager
      /\ r.start_on = so /\ r.fault = s.fault /\ r.deleted = s.deleted
  BY <1>0, <1>1, StartSet DEF Same
<1>4. \A k \in Class \ {c} : so[k] = s.start_on[k]
  BY <1>0
<1>5. so[c] = o
  BY <1>0
<1> HIDE DEF r
<1>6. Trees(r.start_on, r.job)
  BY <1>2, <1>4, <1>5 DEF Core, Trees
<1>7. Listed(r.job)
  BY <1>2 DEF Core
<1>8. Queued(r.queue, r.event)
  BY <1>2 DEF Core, Queued, Alike
<1>9. Counts(r.event, r.start_on, r.job) /\ Live(DOMAIN r.event, r.start_on, r.job)
  BY <1>2 DEF Counts, Live, Alike
<1>10. Core(r)
  BY <1>2, <1>6, <1>7, <1>8, <1>9 DEF Core
<1> QED BY <1>2, <1>4, <1>5, <1>10 DEF r, m

\* What is known of the references to an event.
LEMMA CoreRefs ==
  ASSUME NEW s, Core(s), NEW e \in Ids, NEW P, P \subseteq RefsTo(s.start_on, s.job, e)
  PROVE  /\ RefsTo(s.start_on, s.job, e) \ P # {} => e \in DOMAIN s.event
         /\ e \in DOMAIN s.event => IsFiniteSet(RefsTo(s.start_on, s.job, e) \ P)
<1>1. e \in DOMAIN s.event => IsFiniteSet(RefsTo(s.start_on, s.job, e))
  BY DEF Core, Counts
<1>2. RefsTo(s.start_on, s.job, e) # {} => e \in DOMAIN s.event
  BY DEF Core, Live
<1> QED BY <1>1, <1>2, Removed

\* job_finished: only the job and the counts change.
LEMMA FinishesJob ==
  ASSUME NEW s, Core(s), NEW c \in Class, NEW failed \in BOOLEAN
  PROVE  LET r == job_finished(s, c, failed)
         IN  /\ Core(r) /\ Same(s, r) /\ r.queue = s.queue /\ Alike(s.event, r.event)
             /\ Eases(s.event, r.event) /\ r.job = [s.job EXCEPT ![c] = Finished(s.job[c])]
<1> DEFINE j == Finished(s.job[c])
           jb == [s.job EXCEPT ![c] = j]
<1>0. s \in System /\ DOMAIN s.event \subseteq Ids /\ s.job[c] \in JobRecord /\ s.job \in [Class -> JobRecord]
  BY Parts DEF Core
<1>1. PICK ev \in EventTable :
           /\ job_finished(s, c, failed) = WithJob(WithEvents(s, ev), c, j)
           /\ Alike(s.event, ev) /\ Eases(s.event, ev)
           /\ \A e \in DOMAIN s.event :
                ev[e].blockers = Cardinality(RefsTo(s.start_on, s.job, e) \ BlockRefs(s.job, c, e))
  BY FinishesEvents
<1>2. j \in JobRecord /\ j.blocking = {} /\ j.stop_on = s.job[c].stop_on
  BY <1>0, FinishedIs
<1>3. Grown(ClassOf[c].stop_on, j.stop_on) /\ IsFiniteSet(j.blocking)
  BY <1>2, FS_EmptySet DEF Core, Trees
<1>4. /\ jb[c] = j /\ \A k \in Class \ {c} : jb[k] = s.job[k]
  BY <1>0
<1> HIDE DEF jb, j
<1>5. ASSUME NEW e PROVE /\ RefsTo(s.start_on, jb, e) = RefsTo(s.start_on, s.job, e) \ BlockRefs(s.job, c, e)
                         /\ BlockRefs(s.job, c, e) \subseteq RefsTo(s.start_on, s.job, e)
  <2>1. BlockRefs(jb, c, e) = {}
    BY <1>2, <1>4 DEF BlockRefs, Naming, Entries
  <2>2. SameStops(s.job, jb, "none") /\ SameLists(s.job, jb, c)
    BY <1>2, <1>4 DEF SameStops, SameLists
  <2>3. /\ RefsTo(s.start_on, jb, e) = (RefsTo(s.start_on, s.job, e) \ BlockRefs(s.job, c, e)) \cup BlockRefs(jb, c, e)
        /\ BlockRefs(s.job, c, e) \subseteq RefsTo(s.start_on, s.job, e)
    BY <2>2, BlockChanges
  <2> QED BY <2>1, <2>3
<1>6. \A e \in DOMAIN s.event : /\ IsFiniteSet(RefsTo(s.start_on, jb, e))
                                /\ ev[e].blockers = Cardinality(RefsTo(s.start_on, jb, e))
  BY <1>0, <1>1, <1>5, CoreRefs
<1>7. \A e \in Ids : RefsTo(s.start_on, jb, e) # {} => e \in DOMAIN s.event
  BY <1>5, CoreRefs
<1>8. jb = [s.job EXCEPT ![c] = j]
  BY DEF jb
<1> DEFINE r == WithJob(WithEvents(s, ev), c, j)
<1>9. Core(r) /\ Same(s, r) /\ r.queue = s.queue /\ r.event = ev /\ r.job = jb
  <2>1. Alike(s.event, ev) /\ j \in JobRecord
    BY <1>1, <1>2
  <2> QED BY <2>1, <1>3, <1>6, <1>7, <1>8, CoreJob
<1> HIDE DEF r
<1>10. job_finished(s, c, failed) = r
  BY <1>1 DEF r
<1> QED BY <1>1, <1>8, <1>9, <1>10 DEF j

\* The counts with more.
More(ev, times) == [e \in DOMAIN ev |-> [ev[e] EXCEPT !.blockers = @ + times[e]]]

LEMMA MoreIs ==
  ASSUME NEW s \in System, NEW times, \A e \in DOMAIN s.event : times[e] \in Nat
  PROVE  /\ More(s.event, times) \in EventTable /\ Alike(s.event, More(s.event, times))
         /\ \A e \in DOMAIN s.event :
              More(s.event, times)[e].blockers = s.event[e].blockers + times[e]
<1> DEFINE ev == s.event
           l == More(ev, times)
<1>0. ev \in [DOMAIN ev -> EventRecord] /\ DOMAIN ev \subseteq Ids
  BY Parts
<1>3. ASSUME NEW e \in DOMAIN ev
      PROVE  /\ l[e] \in EventRecord /\ l[e].blockers = ev[e].blockers + times[e]
             /\ l[e].name = ev[e].name /\ l[e].env = ev[e].env /\ l[e].blocking = ev[e].blocking
  <2> DEFINE n == ev[e]
             b == ev[e].blockers + times[e]
  <2>1. l[e] = [n EXCEPT !.blockers = b]
    BY DEF More
  <2>2. n \in EventRecord
    BY <1>0
  <2>3. n.blockers \in Nat
    BY <2>2 DEF EventRecord
  <2>4. b \in Nat
    BY <2>3
  <2> HIDE DEF n, b, l
  <2>5. /\ l[e] \in EventRecord /\ l[e].blockers = b
        /\ l[e].name = n.name /\ l[e].env = n.env /\ l[e].blocking = n.blocking
    BY <2>1, <2>2, <2>4, Recount
  <2> QED BY <2>5 DEF n, b
<1>4. DOMAIN l = DOMAIN ev /\ l = [e \in DOMAIN l |-> l[e]]
  BY DEF More
<1> HIDE DEF l
<1>5. l \in EventTable
  BY <1>3, <1>4, TableIs
<1>6. Alike(ev, l)
  BY <1>3, <1>4 DEF Alike
<1> QED BY <1>3, <1>5, <1>6 DEF l

\* A job with another list.
LEMMA Relist ==
  ASSUME NEW j \in JobRecord, NEW S \in SUBSET (Nat \X Nat)
  PROVE  LET n == [j EXCEPT !.blocking = S]
         IN  /\ n \in JobRecord /\ n.blocking = S /\ n.caller = j.caller
             /\ n.stage = j.stage /\ n.goal = j.goal /\ n.blocker = j.blocker
             /\ n.stop_on = j.stop_on /\ n.main = j.main /\ n.failed = j.failed
BY DEF JobRecord

\* What the job of c comes to block.
Refs(cond, o) == {<<i, o.event[i]>> : i \in Active(cond, o)}

LEMMA RefsFinite ==
  ASSUME NEW cond, Tree(cond), NEW o, Grown(cond, o)
  PROVE  /\ Refs(cond, o) \in SUBSET (Nat \X Nat) /\ IsFiniteSet(Refs(cond, o))
         /\ \A p \in Refs(cond, o) : p[1] \in Leaves(cond) /\ p[2] = o.event[p[1]]
<1>0. DOMAIN cond = 1..Len(cond) /\ 1 \in Int /\ Len(cond) \in Int /\ Leaves(cond) \subseteq DOMAIN cond
  BY Children DEF Leaves
<1>1. Active(cond, o) \subseteq Leaves(cond)
  BY DEF Active
<1>2. IsFiniteSet(Active(cond, o))
  <2>1. IsFiniteSet(DOMAIN cond)
    BY <1>0, FS_Interval
  <2>2. Active(cond, o) \in SUBSET DOMAIN cond
    BY <1>0, <1>1
  <2> QED BY <2>1, <2>2, FS_Subset
<1>3. ASSUME NEW i \in Active(cond, o) PROVE <<i, o.event[i]>> \in Nat \X Nat /\ i \in Leaves(cond)
  <2>1. i \in DOMAIN cond /\ i \in Leaves(cond) /\ i \in Nat
    BY <1>0, <1>1
  <2>2. o.event[i] \in Nat
    BY <2>1 DEF Grown
  <2> QED BY <2>1, <2>2
<1> DEFINE A == Active(cond, o)
           f == [i \in A |-> <<i, o.event[i]>>]
<1>4. f \in Surjection(A, Refs(cond, o))
  BY DEF Surjection, Refs
<1>5. IsFiniteSet(Refs(cond, o))
  <2> HIDE DEF f, A
  <2>1. IsFiniteSet(A)
    BY <1>2 DEF A
  <2> QED BY <1>4, <2>1, FS_Surjection
<1>6. Refs(cond, o) \in SUBSET (Nat \X Nat) /\ \A p \in Refs(cond, o) : p[1] \in Leaves(cond) /\ p[2] = o.event[p[1]]
  BY <1>3 DEF Refs
<1> QED BY <1>5, <1>6

\* Blocks, with the events that a condition of c holds.
LEMMA BlocksJob ==
  ASSUME NEW s, Core(s), NEW c \in Class, s.job[c].blocking = {}, NEW cond, Tree(cond), NEW o, Grown(cond, o),
         \A i \in Leaves(cond) : o.event[i] \in Ids => o.event[i] \in DOMAIN s.event
  PROVE  LET r == Blocks(s, c, cond, o)
         IN  /\ Core(r) /\ Same(s, r) /\ r.queue = s.queue /\ Alike(s.event, r.event)
             /\ r.job = [s.job EXCEPT ![c] = [s.job[c] EXCEPT !.blocking = Refs(cond, o)]]
<1> DEFINE refs == Refs(cond, o)
           j == [s.job[c] EXCEPT !.blocking = refs]
           jb == [s.job EXCEPT ![c] = j]
           times == [e \in DOMAIN s.event |-> Cardinality({p \in refs : p[2] = e})]
           ev == More(s.event, times)
<1>0. s \in System /\ DOMAIN s.event \subseteq Ids /\ s.job[c] \in JobRecord /\ s.job \in [Class -> JobRecord]
  BY Parts DEF Core
<1>1. refs \in SUBSET (Nat \X Nat) /\ IsFiniteSet(refs)
      /\ \A p \in refs : p[2] \in Ids => p[2] \in DOMAIN s.event
  BY RefsFinite
<1>2. Blocks(s, c, cond, o) = WithJob(WithEvents(s, ev), c, j)
  BY <1>0 DEF Blocks, Refs, More, WithJob, WithEvents, System
<1> HIDE DEF refs
<1>3. j \in JobRecord /\ j.blocking = refs /\ j.stop_on = s.job[c].stop_on
  BY <1>0, <1>1, Relist
<1>4. /\ jb[c] = j /\ \A k \in Class \ {c} : jb[k] = s.job[k]
  BY <1>0
<1>5. \A e \in DOMAIN s.event : times[e] = Cardinality(Naming(refs, e)) /\ times[e] \in Nat
  <2>1. \A e \in DOMAIN s.event : times[e] = Cardinality(Naming(refs, e))
    BY DEF Naming
  <2>2. \A e \in DOMAIN s.event : Cardinality(Naming(refs, e)) \in Nat
    BY <1>1, NamingCounted
  <2> QED BY <2>1, <2>2
<1> HIDE DEF times, jb, j
<1>6. ev \in EventTable /\ Alike(s.event, ev) /\ \A e \in DOMAIN s.event : ev[e].blockers = s.event[e].blockers + times[e]
  BY <1>0, <1>5, MoreIs
<1> HIDE DEF ev
<1>7. ASSUME NEW e
      PROVE  /\ RefsTo(s.start_on, jb, e) = RefsTo(s.start_on, s.job, e) \cup BlockRefs(jb, c, e)
             /\ RefsTo(s.start_on, s.job, e) \cap BlockRefs(jb, c, e) = {}
             /\ IsFiniteSet(BlockRefs(jb, c, e))
             /\ Cardinality(BlockRefs(jb, c, e)) = Cardinality(Naming(refs, e))
  <2>1. BlockRefs(s.job, c, e) = {}
    BY DEF BlockRefs, Naming, Entries
  <2>2. SameStops(s.job, jb, "none") /\ SameLists(s.job, jb, c)
    BY <1>3, <1>4 DEF SameStops, SameLists
  <2>3. RefsTo(s.start_on, jb, e) = (RefsTo(s.start_on, s.job, e) \ BlockRefs(s.job, c, e)) \cup BlockRefs(jb, c, e)
    BY <2>2, BlockChanges
  <2>4. ASSUME NEW z, z \in BlockRefs(jb, c, e) PROVE z \notin RefsTo(s.start_on, s.job, e)
    <3>1. \A k \in Class : z \notin StartRefs(s.start_on, k, e) /\ z \notin StopRefs(s.job, k, e)
                           /\ (k # c => z \notin BlockRefs(s.job, k, e))
      BY <2>4, KindsDiffer
    <3> QED BY <2>1, <3>1, RefsAre
  <2>5. BlockRefs(jb, c, e) = Entries(c, Naming(refs, e), e)
    BY <1>3, <1>4 DEF BlockRefs
  <2>6. IsFiniteSet(BlockRefs(jb, c, e)) /\ Cardinality(BlockRefs(jb, c, e)) = Cardinality(Naming(refs, e))
    BY <1>1, <2>5, NamingCounted
  <2>7. RefsTo(s.start_on, s.job, e) \cap BlockRefs(jb, c, e) = {}
    BY <2>4
  <2>8. RefsTo(s.start_on, jb, e) = RefsTo(s.start_on, s.job, e) \cup BlockRefs(jb, c, e)
    BY <2>1, <2>3
  <2> QED BY <2>6, <2>7, <2>8
<1>8. ASSUME NEW e \in DOMAIN s.event
      PROVE  /\ IsFiniteSet(RefsTo(s.start_on, jb, e))
             /\ ev[e].blockers = Cardinality(RefsTo(s.start_on, jb, e))
  <2>1. IsFiniteSet(RefsTo(s.start_on, s.job, e)) /\ s.event[e].blockers = Cardinality(RefsTo(s.start_on, s.job, e))
    BY DEF Core, Counts
  <2>2. /\ IsFiniteSet(RefsTo(s.start_on, jb, e))
        /\ Cardinality(RefsTo(s.start_on, jb, e)) = Cardinality(RefsTo(s.start_on, s.job, e)) + Cardinality(BlockRefs(jb, c, e))
    BY <1>7, <2>1, Added
  <2> QED BY <1>5, <1>6, <1>7, <2>1, <2>2
<1>9. ASSUME NEW e \in Ids, RefsTo(s.start_on, jb, e) # {} PROVE e \in DOMAIN s.event
  <2>1. CASE RefsTo(s.start_on, s.job, e) # {}
    BY <2>1 DEF Core, Live
  <2>2. CASE BlockRefs(jb, c, e) # {}
    <3>1. PICK p \in refs : p[2] = e
      BY <2>2, <1>3, <1>4 DEF BlockRefs, Entries, Naming
    <3> QED BY <3>1, <1>1
  <2> QED BY <1>7, <1>9, <2>1, <2>2
<1>10. jb = [s.job EXCEPT ![c] = j] /\ Grown(ClassOf[c].stop_on, j.stop_on) /\ IsFiniteSet(j.blocking) /\ j \in JobRecord
  BY <1>1, <1>3 DEF jb, Core, Trees
<1> DEFINE r == WithJob(WithEvents(s, ev), c, j)
<1>11. Core(r) /\ Same(s, r) /\ r.queue = s.queue /\ r.event = ev /\ r.job = jb
  <2>1. Alike(s.event, ev)
    BY <1>6
  <2> QED BY <1>6, <1>8, <1>9, <1>10, <2>1, CoreJob
<1> HIDE DEF r
<1>12. Blocks(s, c, cond, o) = r
  BY <1>2 DEF r
<1> QED BY <1>6, <1>10, <1>11, <1>12 DEF j, refs

\* event_block, n times.
Bumped(ev, e, n) == [ev EXCEPT ![e].blockers = @ + n]

LEMMA BumpIs ==
  ASSUME NEW s \in System, NEW e \in DOMAIN s.event, NEW n \in Nat
  PROVE  /\ event_block(s, e, n) = WithEvents(s, Bumped(s.event, e, n))
         /\ Bumped(s.event, e, n) \in EventTable /\ Alike(s.event, Bumped(s.event, e, n))
         /\ Bumped(s.event, e, n)[e].blockers = s.event[e].blockers + n
         /\ \A f \in DOMAIN s.event \ {e} : Bumped(s.event, e, n)[f].blockers = s.event[f].blockers
<1> DEFINE ev == s.event
           l == Bumped(ev, e, n)
           m == ev[e]
           b == ev[e].blockers + n
<1>0. ev \in [DOMAIN ev -> EventRecord] /\ DOMAIN ev \subseteq Ids
  BY Parts
<1>1. event_block(s, e, n) = WithEvents(s, l)
  BY DEF event_block, WithEvents, Bumped
<1>2. m \in EventRecord
  BY <1>0
<1>3. m.blockers \in Nat
  BY <1>2 DEF EventRecord
<1>4. b \in Nat
  BY <1>3
<1>6. DOMAIN l = DOMAIN ev /\ l = [f \in DOMAIN l |-> l[f]] /\ l[e] = [m EXCEPT !.blockers = b]
      /\ \A f \in DOMAIN ev \ {e} : l[f] = ev[f]
  BY <1>0 DEF Bumped
<1> HIDE DEF l, m, b
<1>7. /\ l[e] \in EventRecord /\ l[e].blockers = b
      /\ l[e].name = m.name /\ l[e].env = m.env /\ l[e].blocking = m.blocking
  BY <1>2, <1>4, <1>6, Recount
<1>8. \A f \in DOMAIN l : l[f] \in EventRecord
  BY <1>0, <1>6, <1>7
<1>9. l \in EventTable
  BY <1>6, <1>8, TableIs
<1>10. Alike(ev, l)
  BY <1>6, <1>7 DEF Alike, m
<1> QED BY <1>1, <1>6, <1>7, <1>9, <1>10 DEF l, b

\* The references to e and to other events when leaves of a condition take e.
LEMMA HoldingTaken ==
  ASSUME NEW c, Tree(c), NEW o, Grown(c, o), NEW e \in Ids, NEW taken \in SUBSET Open(c, o),
         NEW o2, o2.event = Taking(c, o, e, taken)
  PROVE  /\ Holding(c, o2, e) = Holding(c, o, e) \cup taken
         /\ Holding(c, o, e) \cap taken = {}
         /\ \A f \in Ids \ {e} : Holding(c, o2, f) = Holding(c, o, f)
         /\ IsFiniteSet(taken) /\ Cardinality(taken) \in Nat
<1>1. taken \subseteq Leaves(c) /\ Leaves(c) \subseteq DOMAIN c /\ \A i \in taken : o.event[i] = NoEvent
  BY DEF Open, Leaves, Grown
<1>2. NoEvent \notin Ids
  BY NoEventAssumption DEF Ids
<1>3. Holding(c, o2, e) = Holding(c, o, e) \cup taken /\ Holding(c, o, e) \cap taken = {}
  BY <1>1, <1>2 DEF Holding, Taking
<1>4. \A f \in Ids \ {e} : Holding(c, o2, f) = Holding(c, o, f)
  BY <1>1, <1>2 DEF Holding, Taking
<1>5. IsFiniteSet(taken)
  <2>1. DOMAIN c = 1..Len(c) /\ 1 \in Int /\ Len(c) \in Int
    BY Children
  <2>2. taken \in SUBSET DOMAIN c
    BY <1>1
  <2> QED BY <2>1, <2>2, FS_Interval, FS_Subset
<1> QED BY <1>3, <1>4, <1>5, FS_CardinalityType

\* A job with another stop condition.
LEMMA Restop ==
  ASSUME NEW j \in JobRecord, NEW o \in Operator
  PROVE  LET n == [j EXCEPT !.stop_on = o]
         IN  /\ n \in JobRecord /\ n.stop_on = o /\ n.blocking = j.blocking /\ n.caller = j.caller
             /\ n.stage = j.stage /\ n.goal = j.goal /\ n.blocker = j.blocker
             /\ n.main = j.main /\ n.failed = j.failed
BY DEF JobRecord

\* The stop condition of the instance of c takes event e.
LEMMA StopTakesJob ==
  ASSUME NEW s, Core(s), NEW c \in Class, NEW e \in DOMAIN s.event,
         NEW taken \in SUBSET Open(ClassOf[c].stop_on, s.job[c].stop_on)
  PROVE  LET r == StopTakes(s, c, e, taken)
             o == event_operator_handle(ClassOf[c].stop_on, s.job[c].stop_on, e, taken)
         IN  /\ Core(r) /\ Same(s, r) /\ r.queue = s.queue /\ Alike(s.event, r.event)
             /\ r.job = [s.job EXCEPT ![c] = [s.job[c] EXCEPT !.stop_on = o]] /\ o \in Operator
<1> DEFINE cond == ClassOf[c].stop_on
           old == s.job[c].stop_on
           o == event_operator_handle(cond, old, e, taken)
           n == Cardinality(taken)
           ev == Bumped(s.event, e, n)
           j == [s.job[c] EXCEPT !.stop_on = o]
           jb == [s.job EXCEPT ![c] = j]
           R(f) == RefsTo(s.start_on, s.job, f)
<1>0. s \in System /\ DOMAIN s.event \subseteq Ids /\ s.job[c] \in JobRecord /\ s.job \in [Class -> JobRecord] /\ e \in Ids
  BY Parts DEF Core
<1>1. Tree(cond) /\ Grown(cond, old)
  BY TreesAre DEF Core, Trees
<1>2. Grown(cond, o) /\ o.event = Taking(cond, old, e, taken)
  BY <1>0, <1>1, HandleIs
<1>3. o \in Operator /\ taken \in SUBSET Open(cond, old)
  BY <1>1, <1>2, GrownType
<1> HIDE DEF o, cond, old
<1>4. /\ Holding(cond, o, e) = Holding(cond, old, e) \cup taken
      /\ Holding(cond, old, e) \cap taken = {}
      /\ \A f \in Ids \ {e} : Holding(cond, o, f) = Holding(cond, old, f)
      /\ IsFiniteSet(taken) /\ n \in Nat
  BY <1>0, <1>1, <1>2, <1>3, HoldingTaken
<1> HIDE DEF n
<1>5. /\ event_block(s, e, n) = WithEvents(s, ev)
      /\ ev \in EventTable /\ Alike(s.event, ev)
      /\ ev[e].blockers = s.event[e].blockers + n
      /\ \A f \in DOMAIN s.event \ {e} : ev[f].blockers = s.event[f].blockers
  BY <1>0, <1>4, BumpIs
<1> HIDE DEF ev
<1>6. StopTakes(s, c, e, taken) = WithJob(WithEvents(s, ev), c, j)
  <2> DEFINE m == WithEvents(s, ev)
  <2>1. m \in System /\ m.job = s.job
    BY <1>0, <1>5, EventsSet
  <2>2. StopTakes(s, c, e, taken) = [m EXCEPT !.job[c].stop_on = event_operator_handle(cond, @, e, taken)]
    BY <1>5 DEF StopTakes, n, cond
  <2> HIDE DEF m
  <2>3. [m EXCEPT !.job[c].stop_on = event_operator_handle(cond, @, e, taken)]
          = WithJob(m, c, [m.job[c] EXCEPT !.stop_on = event_operator_handle(cond, m.job[c].stop_on, e, taken)])
    BY DEF WithJob
  <2> QED BY <2>1, <2>2, <2>3 DEF m, o, old
<1>7. j \in JobRecord /\ j.stop_on = o /\ j.blocking = s.job[c].blocking
  BY <1>0, <1>3, Restop
<1>8. /\ jb[c] = j /\ \A k \in Class \ {c} : jb[k] = s.job[k]
  BY <1>0
<1> HIDE DEF jb, j
<1>9. ASSUME NEW f
      PROVE  /\ RefsTo(s.start_on, jb, f) = (R(f) \ Tags("stop_on", c, Holding(cond, old, f), f))
                                              \cup Tags("stop_on", c, Holding(cond, o, f), f)
             /\ Tags("stop_on", c, Holding(cond, old, f), f) \subseteq R(f)
  <2>1. SameStops(s.job, jb, c) /\ SameLists(s.job, jb, "none")
    BY <1>7, <1>8 DEF SameStops, SameLists
  <2>2. /\ RefsTo(s.start_on, jb, f) = (R(f) \ StopRefs(s.job, c, f)) \cup StopRefs(jb, c, f)
        /\ StopRefs(s.job, c, f) \subseteq R(f)
    BY <2>1, StopChanges
  <2> QED BY <1>7, <1>8, <2>2 DEF StopRefs, cond, old
<1> DEFINE new == Tags("stop_on", c, taken, e)
<1>10. RefsTo(s.start_on, jb, e) = R(e) \cup new /\ R(e) \cap new = {}
  <2>1. /\ Tags("stop_on", c, Holding(cond, o, e), e) = Tags("stop_on", c, Holding(cond, old, e), e) \cup new
        /\ Tags("stop_on", c, Holding(cond, old, e), e) \cap new = {}
    BY <1>4 DEF Tags
  <2>2. ASSUME NEW z \in new PROVE z \notin R(e)
    <3>1. z[1] = "stop_on" /\ z[2] = c
      BY DEF Tags
    <3>2. \A k \in Class : z \notin StartRefs(s.start_on, k, e) /\ z \notin BlockRefs(s.job, k, e)
                           /\ (k # c => z \notin StopRefs(s.job, k, e))
      BY <3>1, KindsDiffer
    <3>3. z \notin StopRefs(s.job, c, e)
      BY <2>1 DEF StopRefs, cond, old
    <3> QED BY <3>2, <3>3, RefsAre
  <2> HIDE DEF R, new
  <2> QED BY <1>9, <2>1, <2>2
<1>11. \A f \in Ids \ {e} : RefsTo(s.start_on, jb, f) = R(f)
  <2> HIDE DEF R
  <2> QED BY <1>4, <1>9
<1>12. ASSUME NEW f \in DOMAIN s.event
       PROVE  /\ IsFiniteSet(RefsTo(s.start_on, jb, f))
              /\ ev[f].blockers = Cardinality(RefsTo(s.start_on, jb, f))
  <2>1. IsFiniteSet(R(f)) /\ s.event[f].blockers = Cardinality(R(f))
    BY DEF Core, Counts
  <2>2. IsFiniteSet(new) /\ Cardinality(new) = n
    BY <1>4, LeavesCounted DEF n
  <2> HIDE DEF R, new
  <2>3. CASE f = e
    BY <1>5, <1>10, <2>1, <2>2, <2>3, Added
  <2>4. CASE f # e
    BY <1>0, <1>5, <1>11, <2>1, <2>4
  <2> QED BY <2>3, <2>4
<1>13. ASSUME NEW f \in Ids, RefsTo(s.start_on, jb, f) # {} PROVE f \in DOMAIN s.event
  <2>1. CASE f = e
    BY <2>1
  <2>2. CASE f # e
    BY <1>11, <1>13, <2>2 DEF Core, Live
  <2> QED BY <2>1, <2>2
<1>14. jb = [s.job EXCEPT ![c] = j] /\ Grown(ClassOf[c].stop_on, j.stop_on) /\ IsFiniteSet(j.blocking) /\ j \in JobRecord
  BY <1>2, <1>7 DEF jb, Core, Listed, cond
<1> DEFINE r == WithJob(WithEvents(s, ev), c, j)
<1>15. Core(r) /\ Same(s, r) /\ r.queue = s.queue /\ r.event = ev /\ r.job = jb
  <2>1. Alike(s.event, ev) /\ ev \in EventTable
    BY <1>5
  <2> QED BY <1>12, <1>13, <1>14, <2>1, CoreJob
<1> HIDE DEF r
<1>16. StopTakes(s, c, e, taken) = r
  BY <1>6 DEF r
<1> QED BY <1>3, <1>5, <1>14, <1>15, <1>16 DEF j, o, cond, old

\* The start condition of c takes event e.
TakesStart(s, c, e, taken) ==
  [event_block(s, e, Cardinality(taken)) EXCEPT !.start_on[c] =
     event_operator_handle(ClassOf[c].start_on, @, e, taken)]

LEMMA StartTakesStart ==
  ASSUME NEW s, Core(s), NEW c \in Class, NEW e \in DOMAIN s.event,
         NEW taken \in SUBSET Open(ClassOf[c].start_on, s.start_on[c])
  PROVE  LET o == event_operator_handle(ClassOf[c].start_on, s.start_on[c], e, taken)
             r == TakesStart(s, c, e, taken)
         IN  /\ Core(r) /\ r.queue = s.queue /\ Alike(s.event, r.event) /\ r.job = s.job
             /\ r.cgmanager_wait = s.cgmanager_wait /\ r.cgroup_manager = s.cgroup_manager
             /\ r.start_on[c] = o /\ \A k \in Class \ {c} : r.start_on[k] = s.start_on[k]
<1> DEFINE cond == ClassOf[c].start_on
           old == s.start_on[c]
           o == event_operator_handle(cond, old, e, taken)
           n == Cardinality(taken)
           ev == Bumped(s.event, e, n)
           so == [s.start_on EXCEPT ![c] = o]
           R(f) == RefsTo(s.start_on, s.job, f)
<1>0. s \in System /\ DOMAIN s.event \subseteq Ids /\ s.start_on \in [Class -> Operator] /\ e \in Ids
  BY Parts DEF Core
<1>1. Tree(cond) /\ Grown(cond, old)
  BY TreesAre DEF Core, Trees
<1>2. Grown(cond, o) /\ o.event = Taking(cond, old, e, taken)
  BY <1>0, <1>1, HandleIs
<1>3. o \in Operator /\ taken \in SUBSET Open(cond, old)
  BY <1>1, <1>2, GrownType
<1> HIDE DEF o, cond, old
<1>4. /\ Holding(cond, o, e) = Holding(cond, old, e) \cup taken
      /\ Holding(cond, old, e) \cap taken = {}
      /\ \A f \in Ids \ {e} : Holding(cond, o, f) = Holding(cond, old, f)
      /\ IsFiniteSet(taken) /\ n \in Nat
  BY <1>0, <1>1, <1>2, <1>3, HoldingTaken
<1> HIDE DEF n
<1>5. /\ event_block(s, e, n) = WithEvents(s, ev)
      /\ ev \in EventTable /\ Alike(s.event, ev)
      /\ ev[e].blockers = s.event[e].blockers + n
      /\ \A f \in DOMAIN s.event \ {e} : ev[f].blockers = s.event[f].blockers
  BY <1>0, <1>4, BumpIs
<1> HIDE DEF ev
<1> DEFINE r == WithStart(WithEvents(s, ev), c, o)
           q == [event_block(s, e, n) EXCEPT !.start_on[c] = event_operator_handle(cond, @, e, taken)]
<1>6. q = r
  <2> DEFINE m == WithEvents(s, ev)
  <2>1. m \in System /\ m.start_on = s.start_on
    BY <1>0, <1>5, EventsSet DEF Same
  <2>2. q = [m EXCEPT !.start_on[c] = event_operator_handle(cond, @, e, taken)]
    BY <1>5
  <2> HIDE DEF m
  <2>3. [m EXCEPT !.start_on[c] = event_operator_handle(cond, @, e, taken)] = WithStart(m, c, event_operator_handle(cond, m.start_on[c], e, taken))
    BY DEF WithStart
  <2> QED BY <2>1, <2>2, <2>3 DEF m, o, old
<1> HIDE DEF r
<1>8. /\ so[c] = o /\ \A k \in Class \ {c} : so[k] = s.start_on[k]
  BY <1>0
<1> HIDE DEF so
<1>9. ASSUME NEW f
      PROVE  /\ RefsTo(so, s.job, f) = (R(f) \ Tags("start_on", c, Holding(cond, old, f), f))
                                              \cup Tags("start_on", c, Holding(cond, o, f), f)
             /\ Tags("start_on", c, Holding(cond, old, f), f) \subseteq R(f)
  <2>1. SameStarts(s.start_on, so, c)
    BY <1>8 DEF SameStarts
  <2>2. /\ RefsTo(so, s.job, f) = (R(f) \ StartRefs(s.start_on, c, f)) \cup StartRefs(so, c, f)
        /\ StartRefs(s.start_on, c, f) \subseteq R(f)
    BY <2>1, StartChanges
  <2> QED BY <1>8, <2>2 DEF StartRefs, cond, old
<1> DEFINE new == Tags("start_on", c, taken, e)
<1>10. RefsTo(so, s.job, e) = R(e) \cup new /\ R(e) \cap new = {}
  <2>1. /\ Tags("start_on", c, Holding(cond, o, e), e) = Tags("start_on", c, Holding(cond, old, e), e) \cup new
        /\ Tags("start_on", c, Holding(cond, old, e), e) \cap new = {}
    BY <1>4 DEF Tags
  <2>2. ASSUME NEW z \in new PROVE z \notin R(e)
    <3>1. z[1] = "start_on" /\ z[2] = c
      BY DEF Tags
    <3>2. \A k \in Class : z \notin StopRefs(s.job, k, e) /\ z \notin BlockRefs(s.job, k, e)
                           /\ (k # c => z \notin StartRefs(s.start_on, k, e))
      BY <3>1, KindsDiffer
    <3>3. z \notin StartRefs(s.start_on, c, e)
      BY <2>1 DEF StartRefs, cond, old
    <3> QED BY <3>2, <3>3, RefsAre
  <2> HIDE DEF R, new
  <2> QED BY <1>9, <2>1, <2>2
<1>11. \A f \in Ids \ {e} : RefsTo(so, s.job, f) = R(f)
  <2> HIDE DEF R
  <2> QED BY <1>4, <1>9
<1>12. ASSUME NEW f \in DOMAIN s.event
       PROVE  /\ IsFiniteSet(RefsTo(so, s.job, f))
              /\ ev[f].blockers = Cardinality(RefsTo(so, s.job, f))
  <2>1. IsFiniteSet(R(f)) /\ s.event[f].blockers = Cardinality(R(f))
    BY DEF Core, Counts
  <2>2. IsFiniteSet(new) /\ Cardinality(new) = n
    BY <1>4, LeavesCounted DEF n
  <2> HIDE DEF R, new
  <2>3. CASE f = e
    BY <1>5, <1>10, <2>1, <2>2, <2>3, Added
  <2>4. CASE f # e
    BY <1>0, <1>5, <1>11, <2>1, <2>4
  <2> QED BY <2>3, <2>4
<1>13. ASSUME NEW f \in Ids, RefsTo(so, s.job, f) # {} PROVE f \in DOMAIN s.event
  <2>1. CASE f = e
    BY <2>1
  <2>2. CASE f # e
    BY <1>11, <1>13, <2>2 DEF Core, Live
  <2> QED BY <2>1, <2>2
<1>14. so = [s.start_on EXCEPT ![c] = o] /\ Grown(ClassOf[c].start_on, o)
  BY <1>2 DEF so, cond
<1>15. /\ Core(r) /\ r.queue = s.queue /\ r.event = ev /\ r.job = s.job /\ r.start_on = so
       /\ r.cgmanager_wait = s.cgmanager_wait /\ r.cgroup_manager = s.cgroup_manager
  <2>1. Alike(s.event, ev) /\ ev \in EventTable
    BY <1>5
  <2> QED BY <1>12, <1>13, <1>14, <2>1, CoreStart DEF r
<1>16. q = r /\ Alike(s.event, r.event)
  BY <1>5, <1>6, <1>15
<1> HIDE DEF q
<1>17. /\ Core(q) /\ q.queue = s.queue /\ Alike(s.event, q.event) /\ q.job = s.job
       /\ q.cgmanager_wait = s.cgmanager_wait /\ q.cgroup_manager = s.cgroup_manager
       /\ q.start_on[c] = o /\ \A k \in Class \ {c} : q.start_on[k] = s.start_on[k]
  BY <1>8, <1>15, <1>16
<1>18. q = TakesStart(s, c, e, taken)
  BY DEF TakesStart, q, n, cond
<1> QED BY <1>17, <1>18 DEF o, cond, old

\* The start condition of c is let go of.
LEMMA ResetStartIs ==
  ASSUME NEW s, Core(s), NEW c \in Class
  PROVE  LET r == ResetStart(s, c)
         IN  /\ Core(r) /\ r.queue = s.queue /\ Alike(s.event, r.event) /\ Eases(s.event, r.event) /\ r.job = s.job
             /\ r.cgmanager_wait = s.cgmanager_wait /\ r.cgroup_manager = s.cgroup_manager
             /\ Bare(ClassOf[c].start_on, r.start_on[c])
             /\ \A k \in Class \ {c} : r.start_on[k] = s.start_on[k]
<1> DEFINE cond == ClassOf[c].start_on
           old == s.start_on[c]
           o == event_operator_reset(cond)
           so == [s.start_on EXCEPT ![c] = o]
           R(f) == RefsTo(s.start_on, s.job, f)
           Of(f) == Tags("start_on", c, Holding(cond, old, f), f)
<1>0. s \in System /\ DOMAIN s.event \subseteq Ids /\ s.start_on \in [Class -> Operator]
  BY Parts DEF Core
<1>1. Tree(cond) /\ Grown(cond, old)
  BY TreesAre DEF Core, Trees
<1>2. Grown(cond, o) /\ Bare(cond, o)
  BY <1>1, ResetIs, NewIs
<1>3. \A f \in Ids : Of(f) \subseteq R(f)
  <2>1. \A f : Of(f) = StartRefs(s.start_on, c, f)
    BY DEF StartRefs
  <2>2. \A f : StartRefs(s.start_on, c, f) \subseteq R(f)
    BY RefsAre
  <2> QED BY <2>1, <2>2
<1>4. PICK ev \in EventTable :
        /\ Release(s, old) = WithEvents(s, ev) /\ Alike(s.event, ev) /\ Eases(s.event, ev)
        /\ \A e \in DOMAIN s.event : ev[e].blockers = Cardinality(R(e) \ Of(e))
  <2> HIDE DEF cond, old
  <2> QED BY <1>1, <1>3, ReleaseIs, SMTT(30)
<1> DEFINE r == WithStart(WithEvents(s, ev), c, o)
<1>5. ResetStart(s, c) = r
  <2>1. ResetStart(s, c) = [Release(s, old) EXCEPT !.start_on[c] = o]
    BY DEF ResetStart
  <2> HIDE DEF o, old
  <2> QED BY <1>4, <2>1 DEF WithStart
<1> HIDE DEF r
<1>6. /\ so[c] = o /\ \A k \in Class \ {c} : so[k] = s.start_on[k]
  BY <1>0
<1> HIDE DEF so, o
<1>7. ASSUME NEW f \in Ids PROVE RefsTo(so, s.job, f) = R(f) \ Of(f)
  <2>1. SameStarts(s.start_on, so, c)
    BY <1>6 DEF SameStarts
  <2>2. RefsTo(so, s.job, f) = (R(f) \ StartRefs(s.start_on, c, f)) \cup StartRefs(so, c, f)
    BY <2>1, StartChanges
  <2>3. Of(f) = StartRefs(s.start_on, c, f)
    BY DEF StartRefs
  <2>4. Holding(cond, o, f) = {}
    BY <1>2, NoEventAssumption DEF Holding, Bare, Ids, Leaves
  <2>5. StartRefs(so, c, f) = {}
    BY <1>6, <2>4 DEF StartRefs, Tags
  <2> QED BY <2>2, <2>3, <2>5
<1>8. \A f \in DOMAIN s.event : /\ IsFiniteSet(RefsTo(so, s.job, f))
                                /\ ev[f].blockers = Cardinality(RefsTo(so, s.job, f))
  BY <1>0, <1>3, <1>4, <1>7, CoreRefs
<1>9. \A f \in Ids : RefsTo(so, s.job, f) # {} => f \in DOMAIN s.event
  BY <1>3, <1>7, CoreRefs
<1>10. so = [s.start_on EXCEPT ![c] = o] /\ Grown(ClassOf[c].start_on, o)
  BY <1>2 DEF so
<1>11. /\ Core(r) /\ r.queue = s.queue /\ r.event = ev /\ r.job = s.job /\ r.start_on = so
       /\ r.cgmanager_wait = s.cgmanager_wait /\ r.cgroup_manager = s.cgroup_manager
  <2>1. Alike(s.event, ev) /\ ev \in EventTable
    BY <1>4
  <2> QED BY <1>8, <1>9, <1>10, <2>1, CoreStart DEF r
<1> QED BY <1>2, <1>4, <1>5, <1>6, <1>11

\* The job of c changes, and its stop condition is let go of.
Discarded(s, c, j) == WithJob(Release(s, s.job[c].stop_on), c, j)

LEMMA StopReleased ==
  ASSUME NEW s, Core(s), NEW c \in Class, NEW j \in JobRecord, j.blocking = s.job[c].blocking,
         j.stop_on = event_operator_new(ClassOf[c].stop_on)
  PROVE  LET r == Discarded(s, c, j)
         IN  /\ Core(r) /\ Same(s, r) /\ r.queue = s.queue /\ Alike(s.event, r.event)
             /\ Eases(s.event, r.event) /\ r.job = [s.job EXCEPT ![c] = j]
             /\ Bare(ClassOf[c].stop_on, j.stop_on)
<1> DEFINE cond == ClassOf[c].stop_on
           old == s.job[c].stop_on
           jb == [s.job EXCEPT ![c] = j]
           R(f) == RefsTo(s.start_on, s.job, f)
           Of(f) == Tags("stop_on", c, Holding(cond, old, f), f)
<1>0. s \in System /\ DOMAIN s.event \subseteq Ids /\ s.job \in [Class -> JobRecord]
  BY Parts DEF Core
<1>1. Tree(cond) /\ Grown(cond, old)
  BY TreesAre DEF Core, Trees
<1>2. Grown(cond, j.stop_on) /\ Bare(cond, j.stop_on)
  BY <1>1, NewIs
<1>3. \A f \in Ids : Of(f) \subseteq R(f)
  <2>1. \A f : Of(f) = StopRefs(s.job, c, f)
    BY DEF StopRefs
  <2>2. \A f : StopRefs(s.job, c, f) \subseteq R(f)
    BY RefsAre
  <2> QED BY <2>1, <2>2
<1>4. PICK ev \in EventTable :
        /\ Release(s, old) = WithEvents(s, ev) /\ Alike(s.event, ev) /\ Eases(s.event, ev)
        /\ \A e \in DOMAIN s.event : ev[e].blockers = Cardinality(R(e) \ Of(e))
  <2> HIDE DEF cond, old
  <2> QED BY <1>1, <1>3, ReleaseIs
<1> DEFINE r == WithJob(WithEvents(s, ev), c, j)
<1>5. Discarded(s, c, j) = r
  BY <1>4 DEF Discarded
<1> HIDE DEF r
<1>6. /\ jb[c] = j /\ \A k \in Class \ {c} : jb[k] = s.job[k]
  BY <1>0
<1> HIDE DEF jb
<1>7. ASSUME NEW f \in Ids PROVE RefsTo(s.start_on, jb, f) = R(f) \ Of(f)
  <2>1. SameStops(s.job, jb, c) /\ SameLists(s.job, jb, "none")
    BY <1>6 DEF SameStops, SameLists
  <2>2. RefsTo(s.start_on, jb, f) = (R(f) \ StopRefs(s.job, c, f)) \cup StopRefs(jb, c, f)
    BY <2>1, StopChanges
  <2>3. Of(f) = StopRefs(s.job, c, f)
    BY DEF StopRefs
  <2>4. Holding(cond, j.stop_on, f) = {}
    BY <1>2, NoEventAssumption DEF Holding, Bare, Ids, Leaves
  <2>5. StopRefs(jb, c, f) = {}
    BY <1>6, <2>4 DEF StopRefs, Tags
  <2> QED BY <2>2, <2>3, <2>5
<1>8. \A f \in DOMAIN s.event : /\ IsFiniteSet(RefsTo(s.start_on, jb, f))
                                /\ ev[f].blockers = Cardinality(RefsTo(s.start_on, jb, f))
  BY <1>0, <1>3, <1>4, <1>7, CoreRefs
<1>9. \A f \in Ids : RefsTo(s.start_on, jb, f) # {} => f \in DOMAIN s.event
  BY <1>3, <1>7, CoreRefs
<1>10. jb = [s.job EXCEPT ![c] = j] /\ Grown(ClassOf[c].stop_on, j.stop_on) /\ IsFiniteSet(j.blocking)
  BY <1>2 DEF jb, Core, Listed
<1>11. Core(r) /\ Same(s, r) /\ r.queue = s.queue /\ r.event = ev /\ r.job = jb
  <2>1. Alike(s.event, ev) /\ ev \in EventTable
    BY <1>4
  <2> QED BY <1>8, <1>9, <1>10, <2>1, CoreJob DEF r
<1> QED BY <1>2, <1>4, <1>5, <1>10, <1>11

-----------------------------------------------------------------------------
(* New events                                                              *)

\* There is a number for a new event.
LEMMA NewEventIs ==
  ASSUME NEW s, Core(s)
  PROVE  NewEvent(s) \in Ids /\ NewEvent(s) \notin DOMAIN s.event
<1> DEFINE L == Len(s.queue)
           T == {i \in 1..(L + 1) : i \notin DOMAIN s.event}
<1>0. s \in System /\ s.queue \in Seq(Ids) /\ L \in Nat /\ DOMAIN s.queue = 1..L /\ DOMAIN s.event = Range(s.queue)
  BY Parts, LenProperties DEF Core, Queued
<1>1. T # {}
  <2> SUFFICES ASSUME \A i \in 1..(L + 1) : i \in DOMAIN s.event PROVE FALSE
    OBVIOUS
  <2>1. s.queue \in Surjection(1..L, Range(s.queue))
    BY <1>0 DEF Surjection, Range
  <2>2. IsFiniteSet(1..L) /\ Cardinality(1..L) = L
    BY <1>0, FS_Interval
  <2>3. IsFiniteSet(1..(L + 1)) /\ Cardinality(1..(L + 1)) = L + 1
    <3>1. 1 \in Int /\ L + 1 \in Int /\ ~(1 > L + 1) /\ L + 1 - 1 + 1 = L + 1
      BY <1>0
    <3> QED BY <3>1, FS_Interval
  <2>4. IsFiniteSet(Range(s.queue)) /\ Cardinality(Range(s.queue)) <= L
    BY <2>1, <2>2, FS_Surjection
  <2>5. 1..(L + 1) \in SUBSET Range(s.queue)
    BY <1>0
  <2>6. L + 1 <= Cardinality(Range(s.queue))
    BY <2>3, <2>4, <2>5, FS_Subset
  <2>7. Cardinality(Range(s.queue)) \in Nat
    BY <2>4, FS_CardinalityType
  <2> QED BY <1>0, <2>4, <2>6, <2>7
<1>2. PICK i \in T : \A k \in T : i <= k
  <2>1. T \in SUBSET Nat
    BY <1>0
  <2> QED BY <1>1, <2>1, Least
<1>3. ASSUME NEW k \in 1..(i - 1) PROVE k \in DOMAIN s.event
  <2>1. k \in 1..(L + 1) /\ ~(i <= k)
    BY <1>0
  <2> QED BY <1>2, <2>1
<1>4. NewEvent(s) \in 1..(L + 1) /\ NewEvent(s) \notin DOMAIN s.event
  BY <1>2, <1>3 DEF NewEvent
<1> QED BY <1>0, <1>4 DEF Ids

\* An event nobody has blocked.
Pending(name, env, waiter) ==
  [name |-> name, env |-> env, progress |-> "pending", failed |-> FALSE, blockers |-> 0, blocking |-> waiter]

Waiter == Class \cup {"none", "emit"}

LEMMA PendingIs ==
  ASSUME NEW name \in AnyName, NEW env \in AnyEnv, NEW waiter \in Waiter
  PROVE  LET n == Pending(name, env, waiter)
         IN  n \in EventRecord /\ n.name = name /\ n.env = env /\ n.blocking = waiter /\ n.blockers = 0
BY DEF Pending, EventRecord, Waiter

\* One event more.
Joined(s, n, v) == [s EXCEPT !.queue = Append(s.queue, n),
                             !.event = [i \in DOMAIN s.event \cup {n} |-> IF i = n THEN v ELSE s.event[i]]]

LEMMA JoinedIs ==
  ASSUME NEW s \in System, NEW n \in Ids, NEW v \in EventRecord
  PROVE  LET r == Joined(s, n, v)
         IN  /\ r \in System /\ r.queue = Append(s.queue, n) /\ r.job = s.job /\ Same(s, r)
             /\ r.fault = s.fault /\ r.deleted = s.deleted
             /\ DOMAIN r.event = DOMAIN s.event \cup {n} /\ r.event[n] = v
             /\ \A e \in DOMAIN s.event \ {n} : r.event[e] = s.event[e]
<1> DEFINE D == DOMAIN s.event \cup {n}
           ev == [i \in D |-> IF i = n THEN v ELSE s.event[i]]
           q == Append(s.queue, n)
<1>0. DOMAIN s.event \subseteq Ids /\ s.event \in [DOMAIN s.event -> EventRecord] /\ s.queue \in Seq(Ids)
  BY Parts
<1>1. ev \in [D -> EventRecord] /\ D \in SUBSET Ids
  BY <1>0
<1>2. DOMAIN ev = D /\ ev[n] = v /\ \A e \in DOMAIN s.event \ {n} : ev[e] = s.event[e]
  OBVIOUS
<1>3. q \in Seq(Ids)
  BY <1>0, AppendProperties
<1> HIDE DEF D, q
<1>4. ev \in EventTable
  BY <1>1 DEF EventTable
<1>5. Joined(s, n, v) = [s EXCEPT !.queue = q, !.event = ev]
  BY DEF Joined, D, q
<1> HIDE DEF ev
<1>6. LET r == [s EXCEPT !.queue = q, !.event = ev]
      IN  r \in System /\ r.queue = q /\ r.event = ev /\ r.job = s.job /\ Same(s, r) /\ r.fault = s.fault /\ r.deleted = s.deleted
  BY <1>3, <1>4 DEF System, Same
<1> QED BY <1>2, <1>5, <1>6 DEF D, q

\* event_new
LEMMA EventNewIs ==
  ASSUME NEW s, Core(s), NEW name \in AnyName, NEW env \in AnyEnv, NEW waiter \in Waiter
  PROVE  event_new(s, name, env, waiter) = Joined(s, NewEvent(s), Pending(name, env, waiter))
BY DEF event_new, Joined, Pending

\* A new event at the end of the queue.
LEMMA AppendQueued ==
  ASSUME NEW q \in Seq(Ids), NEW ev, Queued(q, ev), NEW n \in Ids, n \notin DOMAIN ev,
         NEW ev2, DOMAIN ev2 = DOMAIN ev \cup {n}
  PROVE  Queued(Append(q, n), ev2) /\ Len(q) <= Len(Append(q, n))
<1> DEFINE a == Append(q, n)
           L == Len(q)
<1>1. L \in Nat /\ DOMAIN q = 1..L /\ \A i \in 1..L : q[i] \in DOMAIN ev
  BY LenProperties DEF Queued, Range
<1>2. a \in Seq(Ids) /\ Len(a) = L + 1 /\ (\A i \in 1..L : a[i] = q[i]) /\ a[L + 1] = n
  BY AppendProperties
<1>3. DOMAIN a = 1..(L + 1)
  BY <1>2, LenProperties
<1> HIDE DEF a, L
<1>4. \A i \in 1..(L + 1) : i = L + 1 \/ i \in 1..L
  BY <1>1
<1>5. \A i \in 1..L : \A k \in 1..L : q[i] = q[k] => i = k
  BY <1>1 DEF Queued, IsInjective
<1>6. IsInjective(a)
  <2> SUFFICES ASSUME NEW i \in 1..(L + 1), NEW k \in 1..(L + 1), a[i] = a[k] PROVE i = k
    BY <1>3 DEF IsInjective
  <2> QED BY <1>1, <1>2, <1>4, <1>5
<1>7. Range(a) = DOMAIN ev2
  <2>1. ASSUME NEW z \in Range(a) PROVE z \in DOMAIN ev2
    BY <1>1, <1>2, <1>3, <1>4 DEF Range
  <2>2. n \in Range(a)
    BY <1>1, <1>2, <1>3 DEF Range
  <2>3. ASSUME NEW z \in DOMAIN ev PROVE z \in Range(a)
    <3>1. PICK i \in 1..L : q[i] = z
      BY <1>1 DEF Queued, Range
    <3>2. i \in 1..(L + 1) /\ a[i] = z
      BY <1>1, <1>2, <3>1
    <3> QED BY <1>3, <3>2 DEF Range
  <2> QED BY <2>1, <2>2, <2>3
<1>8. Len(q) <= Len(a)
  BY <1>1, <1>2 DEF L
<1> QED BY <1>6, <1>7, <1>8 DEF Queued, a

\* event_new: nothing refers to the event yet.
LEMMA EventNewCore ==
  ASSUME NEW s, Core(s), NEW name \in AnyName, NEW env \in AnyEnv, NEW waiter \in Waiter
  PROVE  LET r == event_new(s, name, env, waiter)
             n == NewEvent(s)
         IN  /\ n \in Ids /\ n \notin DOMAIN s.event
             /\ Core(r) /\ Same(s, r) /\ r.job = s.job /\ Grows(s, r) /\ Eases(s.event, r.event)
             /\ DOMAIN r.event = DOMAIN s.event \cup {n}
             /\ r.event[n].name = name /\ r.event[n].env = env /\ r.event[n].blocking = waiter
             /\ r.event[n].blockers = 0
             /\ \A e \in DOMAIN s.event : r.event[e] = s.event[e]
<1> DEFINE n == NewEvent(s)
           v == Pending(name, env, waiter)
           r == event_new(s, name, env, waiter)
<1>0. /\ s \in System /\ s.queue \in Seq(Ids) /\ DOMAIN s.event \subseteq Ids
      /\ \A e \in DOMAIN s.event : s.event[e].blockers \in Nat
  BY Parts DEF Core, EventRecord
<1>1. n \in Ids /\ n \notin DOMAIN s.event
  BY NewEventIs
<1>2. v \in EventRecord /\ v.name = name /\ v.env = env /\ v.blocking = waiter /\ v.blockers = 0
  BY PendingIs
<1>3. r = Joined(s, n, v)
  BY EventNewIs
<1> HIDE DEF n, v, r
<1>4. /\ r \in System /\ r.queue = Append(s.queue, n) /\ r.job = s.job /\ Same(s, r)
      /\ r.fault = s.fault /\ r.deleted = s.deleted
      /\ DOMAIN r.event = DOMAIN s.event \cup {n} /\ r.event[n] = v
      /\ \A e \in DOMAIN s.event \ {n} : r.event[e] = s.event[e]
  BY <1>0, <1>1, <1>2, <1>3, JoinedIs
<1>5. \A e \in DOMAIN s.event : r.event[e] = s.event[e]
  BY <1>1, <1>4
<1>6. Queued(r.queue, r.event) /\ Len(s.queue) <= Len(r.queue)
  <2>1. Queued(s.queue, s.event)
    BY DEF Core
  <2>2. Queued(Append(s.queue, n), r.event) /\ Len(s.queue) <= Len(Append(s.queue, n))
    BY <1>0, <1>1, <1>4, <2>1, AppendQueued
  <2> QED BY <1>4, <2>2
<1>7. Grows(s, r) /\ Eases(s.event, r.event)
  BY <1>0, <1>4, <1>5, <1>6 DEF Grows, Eases
<1>8. r.start_on = s.start_on
  BY <1>4 DEF Same
<1>9. RefsTo(s.start_on, s.job, n) = {}
  BY <1>1 DEF Core, Live
<1>10. Counts(r.event, r.start_on, r.job)
  <2> SUFFICES ASSUME NEW e \in DOMAIN r.event
               PROVE  IsFiniteSet(RefsTo(s.start_on, s.job, e)) /\ r.event[e].blockers = Cardinality(RefsTo(s.start_on, s.job, e))
    BY <1>4, <1>8 DEF Counts
  <2>1. CASE e = n
    BY <1>2, <1>4, <1>9, <2>1, FS_EmptySet
  <2>2. CASE e \in DOMAIN s.event
    BY <1>5, <2>2 DEF Core, Counts
  <2> QED BY <1>4, <2>1, <2>2
<1>11. Live(DOMAIN r.event, r.start_on, r.job)
  BY <1>4, <1>8 DEF Core, Live
<1>12. Core(r)
  BY <1>4, <1>6, <1>8, <1>10, <1>11 DEF Core
<1> QED BY <1>1, <1>2, <1>4, <1>5, <1>7, <1>12 DEF n, r

\* An event that no job waits for.
LEMMA WaitsNew ==
  ASSUME NEW ev, NEW ev2, NEW jb, NEW x, NEW d, Waits(ev, jb, x, d), NEW n, n \notin DOMAIN ev,
         DOMAIN ev2 = DOMAIN ev \cup {n}, ev2[n].blocking \notin Class, ev2[n].name \notin Blocked,
         \A e \in DOMAIN ev : ev2[e] = ev[e]
  PROVE  Waits(ev2, jb, x, d)
<1>1. \A e \in DOMAIN ev2 \ {x} : ev2[e].blocking \in Class => jb[ev2[e].blocking].blocker = e
  BY DEF Waits
<1>2. \A e \in DOMAIN ev2 : ev2[e].name \in Blocked =>
        ev2[e].blocking \in Class /\ ev2[e].env[1].value = ev2[e].blocking
  BY DEF Waits
<1>3. ASSUME NEW c \in Class \ {d}
      PROVE  IF jb[c].stage \in Blocked
             THEN /\ jb[c].blocker \in DOMAIN ev2 \ {x}
                  /\ ev2[jb[c].blocker].blocking = c /\ ev2[jb[c].blocker].name = jb[c].stage
             ELSE jb[c].blocker = NoEvent
  BY DEF Waits
<1>4. d \in Class => jb[d].blocker = NoEvent
  BY DEF Waits
<1> QED BY <1>1, <1>2, <1>3, <1>4 DEF Waits

\* The event that job d waits for.
LEMMA WaitsOwn ==
  ASSUME NEW ev, NEW ev2, NEW jb, NEW jb2, NEW x, NEW d \in Class, Waits(ev, jb, x, d), NEW n, n \notin DOMAIN ev,
         n # x, DOMAIN ev \subseteq Ids, jb2[d].stage \in Blocked, jb2[d].blocker = n,
         \A c \in Class \ {d} : jb2[c] = jb[c],
         DOMAIN ev2 = DOMAIN ev \cup {n}, ev2[n].blocking = d, ev2[n].name = jb2[d].stage,
         ev2[n].env[1].value = d, \A e \in DOMAIN ev : ev2[e] = ev[e]
  PROVE  Waits(ev2, jb2, x, "none")
<1>0. jb[d].blocker = NoEvent /\ NoEvent \notin DOMAIN ev
  BY NoEventAssumption DEF Waits, Ids
<1>1. ASSUME NEW e \in DOMAIN ev2 \ {x}, ev2[e].blocking \in Class PROVE jb2[ev2[e].blocking].blocker = e
  <2>1. CASE e = n
    BY <2>1
  <2>2. CASE e \in DOMAIN ev
    BY <1>0, <1>1, <2>2 DEF Waits
  <2> QED BY <2>1, <2>2
<1>2. \A e \in DOMAIN ev2 : ev2[e].name \in Blocked =>
        ev2[e].blocking \in Class /\ ev2[e].env[1].value = ev2[e].blocking
  BY DEF Waits
<1>3. ASSUME NEW c \in Class
      PROVE  IF jb2[c].stage \in Blocked
             THEN /\ jb2[c].blocker \in DOMAIN ev2 \ {x}
                  /\ ev2[jb2[c].blocker].blocking = c /\ ev2[jb2[c].blocker].name = jb2[c].stage
             ELSE jb2[c].blocker = NoEvent
  <2>1. CASE c = d
    BY <2>1
  <2>2. CASE c # d
    BY <2>2 DEF Waits
  <2> QED BY <2>1, <2>2
<1> QED BY <1>1, <1>2, <1>3, NameAssumption DEF Waits

\* The events of a job.
EmitEnv(s, c, name) ==
  <<Variable("JOB", c), Variable("INSTANCE", "")>> \o
    IF name \in {"stopping", "stopped"}
    THEN <<Variable("RESULT", IF s.job[c].failed THEN "failed" ELSE "ok")>> ELSE << >>

LEMMA EmitEnvIs ==
  ASSUME NEW s, NEW c \in Class, NEW name
  PROVE  EmitEnv(s, c, name) \in AnyEnv /\ EmitEnv(s, c, name)[1].value = c
<1> DEFINE head == <<Variable("JOB", c), Variable("INSTANCE", "")>>
           tail == IF name \in {"stopping", "stopped"}
                   THEN <<Variable("RESULT", IF s.job[c].failed THEN "failed" ELSE "ok")>> ELSE << >>
<1>1. tail \in {<< >>, <<Variable("RESULT", "ok")>>, <<Variable("RESULT", "failed")>>}
  BY Zenon
<1>2. EmitEnv(s, c, name) = head \o tail
  BY DEF EmitEnv
<1>3. (head \o << >>)[1] = Variable("JOB", c) /\ (head \o <<Variable("RESULT", "ok")>>)[1] = Variable("JOB", c)
      /\ (head \o <<Variable("RESULT", "failed")>>)[1] = Variable("JOB", c)
  <2> DEFINE S == {Variable("JOB", c), Variable("INSTANCE", ""), Variable("RESULT", "ok"), Variable("RESULT", "failed")}
  <2>1. head \in Seq(S) /\ << >> \in Seq(S) /\ <<Variable("RESULT", "ok")>> \in Seq(S)
        /\ <<Variable("RESULT", "failed")>> \in Seq(S) /\ Len(head) = 2 /\ head[1] = Variable("JOB", c)
        /\ Len(<<Variable("RESULT", "ok")>>) = 1 /\ Len(<<Variable("RESULT", "failed")>>) = 1
    OBVIOUS
  <2> HIDE DEF head, S
  <2>2. ASSUME NEW t \in Seq(S) PROVE (head \o t)[1] = head[1]
    <3>1. Len(t) \in Nat /\ 1 \in 1..(Len(head) + Len(t)) /\ 1 <= Len(head)
      BY <2>1, LenProperties
    <3> QED BY <2>1, <3>1, ConcatProperties
  <2> QED BY <2>1, <2>2
<1> HIDE DEF tail
<1>4. head \o tail \in JobEnv(c)
  BY <1>1 DEF JobEnv
<1>5. (head \o tail)[1] = Variable("JOB", c)
  <2> HIDE DEF head
  <2> QED BY <1>1, <1>3
<1>6. Variable("JOB", c).value = c
  BY DEF Variable
<1> QED BY <1>2, <1>4, <1>5, <1>6 DEF AnyEnv

\* job_emit_event of an event that the job does not wait for.
LEMMA EmitsFreely ==
  ASSUME NEW s, Core(s), NEW c \in Class, NEW name \in {"started", "stopped"}, NEW x, NEW d,
         Waits(s.event, s.job, x, d)
  PROVE  LET r == job_emit_event(s, c, name, FALSE)
         IN  /\ Core(r) /\ Same(s, r) /\ r.job = s.job /\ Grows(s, r) /\ Eases(s.event, r.event)
             /\ Waits(r.event, r.job, x, d)
<1> DEFINE r == event_new(s, name, EmitEnv(s, c, name), "none")
           n == NewEvent(s)
<1>1. job_emit_event(s, c, name, FALSE) = r
  BY DEF job_emit_event, EmitEnv
<1>2. name \in AnyName /\ EmitEnv(s, c, name) \in AnyEnv /\ "none" \in Waiter /\ name \notin Blocked
  BY EmitEnvIs DEF AnyName, JobEvent, Waiter, Blocked
<1>3. /\ n \in Ids /\ n \notin DOMAIN s.event
      /\ Core(r) /\ Same(s, r) /\ r.job = s.job /\ Grows(s, r) /\ Eases(s.event, r.event)
      /\ DOMAIN r.event = DOMAIN s.event \cup {n}
      /\ r.event[n].name = name /\ r.event[n].blocking = "none"
      /\ \A e \in DOMAIN s.event : r.event[e] = s.event[e]
  BY <1>2, EventNewCore
<1> HIDE DEF r, n
<1>4. Waits(r.event, s.job, x, d)
  BY <1>2, <1>3, NameAssumption, WaitsNew
<1> QED BY <1>1, <1>3, <1>4

\* A job that waits for another event.
LEMMA Reblock ==
  ASSUME NEW j \in JobRecord, NEW n \in Nat
  PROVE  LET m == [j EXCEPT !.blocker = n]
         IN  /\ m \in JobRecord /\ m.blocker = n /\ m.blocking = j.blocking /\ m.caller = j.caller
             /\ m.stage = j.stage /\ m.goal = j.goal /\ m.stop_on = j.stop_on
             /\ m.main = j.main /\ m.failed = j.failed
BY DEF JobRecord

\* Core after a change of what the references do not tell of the job of c.
LEMMA CoreKept ==
  ASSUME NEW s, Core(s), NEW c \in Class, NEW j \in JobRecord,
         j.stop_on = s.job[c].stop_on, j.blocking = s.job[c].blocking
  PROVE  LET r == WithJob(s, c, j)
         IN  /\ Core(r) /\ Same(s, r) /\ r.queue = s.queue /\ r.event = s.event
             /\ r.job = [s.job EXCEPT ![c] = j] /\ r.job[c] = j /\ \A k \in Class \ {c} : r.job[k] = s.job[k]
<1> DEFINE r == WithJob(s, c, j)
<1>0. s \in System
  BY DEF Core
<1>1. r \in System /\ r.event = s.event /\ r.queue = s.queue /\ Same(s, r)
      /\ r.job = [s.job EXCEPT ![c] = j] /\ r.job[c] = j
      /\ (\A k \in Class \ {c} : r.job[k] = s.job[k])
      /\ r.fault = s.fault /\ r.deleted = s.deleted
  BY <1>0, JobSet
<1> HIDE DEF r
<1>2. \A k \in Class : r.job[k].stop_on = s.job[k].stop_on /\ r.job[k].blocking = s.job[k].blocking
  BY <1>1
<1>3. \A e : RefsTo(s.start_on, r.job, e) = RefsTo(s.start_on, s.job, e)
  <2>1. SameLists(s.job, r.job, "none") /\ SameStops(s.job, r.job, "none")
    BY <1>2 DEF SameLists, SameStops
  <2> QED BY <2>1, RefsStay
<1>4. r.start_on = s.start_on
  BY <1>1 DEF Same
<1>5. Trees(r.start_on, r.job) /\ Listed(r.job)
  BY <1>2, <1>4 DEF Core, Trees, Listed
<1>6. Counts(r.event, r.start_on, r.job) /\ Live(DOMAIN r.event, r.start_on, r.job)
  BY <1>1, <1>3, <1>4 DEF Core, Counts, Live
<1>7. Core(r)
  BY <1>1, <1>5, <1>6 DEF Core
<1> QED BY <1>1, <1>7 DEF r

\* job_emit_event of the event that the job waits for.
LEMMA EmitsAndWaits ==
  ASSUME NEW s, Core(s), NEW c \in Class, NEW name \in Blocked, s.job[c].stage = name,
         NEW x, x \in DOMAIN s.event \/ x = NoEvent, Waits(s.event, s.job, x, c)
  PROVE  LET r == job_emit_event(s, c, name, TRUE)
         IN  /\ Core(r) /\ Same(s, r) /\ Grows(s, r) /\ Eases(s.event, r.event)
             /\ r.job = [s.job EXCEPT ![c] = [s.job[c] EXCEPT !.blocker = NewEvent(s)]]
             /\ NewEvent(s) \in Nat /\ Waits(r.event, r.job, x, "none")
<1> DEFINE n == NewEvent(s)
           u == event_new(s, name, EmitEnv(s, c, name), c)
           j == [s.job[c] EXCEPT !.blocker = n]
           r == WithJob(u, c, j)
<1>0. s.job[c] \in JobRecord /\ DOMAIN s.event \subseteq Ids
  BY Parts DEF Core
<1>2. name \in AnyName /\ EmitEnv(s, c, name) \in AnyEnv /\ c \in Waiter /\ EmitEnv(s, c, name)[1].value = c
  BY EmitEnvIs DEF AnyName, JobEvent, Waiter, Blocked
<1>3. /\ n \in Ids /\ n \notin DOMAIN s.event
      /\ Core(u) /\ Same(s, u) /\ u.job = s.job /\ Grows(s, u) /\ Eases(s.event, u.event)
      /\ DOMAIN u.event = DOMAIN s.event \cup {n}
      /\ u.event[n].name = name /\ u.event[n].env = EmitEnv(s, c, name) /\ u.event[n].blocking = c
      /\ \A e \in DOMAIN s.event : u.event[e] = s.event[e]
  BY <1>2, EventNewCore
<1>1. job_emit_event(s, c, name, TRUE) = r
  <2>1. job_emit_event(s, c, name, TRUE) = [u EXCEPT !.job[c].blocker = n]
    BY DEF job_emit_event, EmitEnv
  <2> HIDE DEF u, n
  <2> QED BY <1>3, <2>1 DEF WithJob
<1>4. n \in Nat /\ n # NoEvent
  BY <1>3, NoEventAssumption DEF Ids
<1> HIDE DEF u, n
<1>5. j \in JobRecord /\ j.blocker = n /\ j.blocking = s.job[c].blocking /\ j.stage = name /\ j.stop_on = s.job[c].stop_on
  BY <1>0, <1>4, Reblock
<1> HIDE DEF j
<1>6. /\ Core(r) /\ Same(u, r) /\ r.queue = u.queue /\ r.event = u.event
      /\ r.job = [u.job EXCEPT ![c] = j] /\ r.job[c] = j /\ \A k \in Class \ {c} : r.job[k] = u.job[k]
  BY <1>3, <1>5, CoreKept
<1> HIDE DEF r
<1>7. Waits(r.event, r.job, x, "none")
  <2>1. n # x
    BY <1>3, <1>4
  <2>2. /\ r.job[c].stage \in Blocked /\ r.job[c].blocker = n /\ \A k \in Class \ {c} : r.job[k] = s.job[k]
        /\ DOMAIN r.event = DOMAIN s.event \cup {n} /\ r.event[n].blocking = c /\ r.event[n].name = r.job[c].stage
        /\ r.event[n].env[1].value = c /\ \A e \in DOMAIN s.event : r.event[e] = s.event[e]
    BY <1>2, <1>3, <1>5, <1>6
  <2> QED BY <1>0, <1>3, <2>1, <2>2, WaitsOwn
<1>8. Same(s, r) /\ Grows(s, r) /\ Eases(s.event, r.event)
  BY <1>3, <1>6 DEF Same, Grows
<1> QED BY <1>1, <1>3, <1>4, <1>6, <1>7, <1>8 DEF j, n

-----------------------------------------------------------------------------
(* The stages of a job                                                     *)

\* Event x is about to be freed, or no event is.
Leaving(s, x) == x \in DOMAIN s.event \/ x = NoEvent

\* Job c has been let go and is on its way to its next stage.
Between(s, x, c) == Core(s) /\ Leaving(s, x) /\ Waits(s.event, s.job, x, c) /\ Stages(s.job, c)

\* Job c is being told something.
Busy(s, x, c) == Core(s) /\ Leaving(s, x) /\ Waits(s.event, s.job, x, "none") /\ Stages(s.job, c)

\* Every job is in a stage it can stay in.
Settled(s, x) == Core(s) /\ Leaving(s, x) /\ Waits(s.event, s.job, x, "none") /\ Stages(s.job, "none")

\* What a step of job c leaves alone.
Moves(s, r, c) ==
  /\ Same(s, r) /\ Grows(s, r) /\ Eases(s.event, r.event)
  /\ \A k \in Class \ {c} : r.job[k] = s.job[k]
  /\ \/ r.job[c].stop_on = s.job[c].stop_on
     \/ r.job[c].stop_on = event_operator_new(ClassOf[c].stop_on)

Keeps(s, r, c) == r.job[c].stop_on = s.job[c].stop_on /\ r.job[c].goal = s.job[c].goal

LEMMA MovesOn ==
  ASSUME NEW s, NEW r, NEW u, NEW c, Core(s), Core(r), Core(u), Moves(s, r, c), Moves(r, u, c)
  PROVE  Moves(s, u, c)
<1>0. /\ \A e \in DOMAIN s.event : s.event[e].blockers \in Nat
      /\ \A e \in DOMAIN r.event : r.event[e].blockers \in Nat
      /\ \A e \in DOMAIN u.event : u.event[e].blockers \in Nat
  BY Parts DEF Core, EventRecord
<1>1. Len(s.queue) \in Nat /\ Len(r.queue) \in Nat /\ Len(u.queue) \in Nat
  BY Parts DEF Core
<1>2. Same(s, u)
  BY DEF Moves, Same
<1>3. Grows(s, u)
  <2>1. Len(s.queue) <= Len(r.queue) /\ Len(r.queue) <= Len(u.queue) /\ DOMAIN s.event \subseteq DOMAIN u.event
    BY DEF Moves, Grows
  <2> QED BY <1>1, <2>1 DEF Grows
<1>4. Eases(s.event, u.event)
  <2> SUFFICES ASSUME NEW e \in DOMAIN s.event
               PROVE  e \in DOMAIN u.event /\ u.event[e].blockers <= s.event[e].blockers
    BY DEF Eases
  <2>1. e \in DOMAIN r.event /\ r.event[e].blockers <= s.event[e].blockers
    BY DEF Moves, Eases
  <2>2. e \in DOMAIN u.event /\ u.event[e].blockers <= r.event[e].blockers
    BY <2>1 DEF Moves, Eases
  <2> QED BY <1>0, <2>1, <2>2
<1>5. \A k \in Class \ {c} : u.job[k] = s.job[k]
  BY DEF Moves
<1>6. \/ u.job[c].stop_on = s.job[c].stop_on
      \/ u.job[c].stop_on = event_operator_new(ClassOf[c].stop_on)
  BY DEF Moves
<1> QED BY <1>2, <1>3, <1>4, <1>5, <1>6 DEF Moves

\* Nothing but the job of c and counts that go down.
LEMMA MovesJob ==
  ASSUME NEW s, Core(s), NEW r, Core(r), Same(s, r), r.queue = s.queue, DOMAIN r.event = DOMAIN s.event,
         Eases(s.event, r.event), NEW c \in Class, NEW j, r.job = [s.job EXCEPT ![c] = j],
         j.stop_on = s.job[c].stop_on
  PROVE  Moves(s, r, c) /\ r.job[c] = j
<1>0. s.job \in [Class -> JobRecord] /\ Len(s.queue) \in Nat
  BY Parts DEF Core
<1>1. r.job[c] = j /\ \A k \in Class \ {c} : r.job[k] = s.job[k]
  BY <1>0
<1>2. Grows(s, r)
  BY <1>0 DEF Grows
<1> QED BY <1>1, <1>2 DEF Moves

LEMMA SelfEases ==
  ASSUME NEW s, Core(s)
  PROVE  Eases(s.event, s.event) /\ Alike(s.event, s.event) /\ \A c : Moves(s, s, c)
<1>0. \A e \in DOMAIN s.event : s.event[e].blockers \in Nat
  BY Parts DEF Core, EventRecord
<1>1. Len(s.queue) \in Nat
  BY Parts DEF Core
<1>2. Eases(s.event, s.event) /\ Alike(s.event, s.event)
  BY <1>0 DEF Eases, Alike
<1> QED BY <1>1, <1>2 DEF Moves, Same, Grows

\* Who waits for what, whatever the stage of the job that is let go.
LEMMA WaitsBetween ==
  ASSUME NEW ev, NEW ev2, Alike(ev, ev2), NEW jb, NEW jb2, NEW x, NEW c \in Class, Waits(ev, jb, x, c),
         \A k \in Class \ {c} : jb2[k] = jb[k], jb2[c].blocker = jb[c].blocker
  PROVE  Waits(ev2, jb2, x, c)
<1>1. \A e \in DOMAIN ev2 \ {x} : ev2[e].blocking \in Class => jb2[ev2[e].blocking].blocker = e
  BY DEF Waits, Alike
<1>2. \A e \in DOMAIN ev2 : ev2[e].name \in Blocked =>
        ev2[e].blocking \in Class /\ ev2[e].env[1].value = ev2[e].blocking
  BY DEF Waits, Alike
<1>3. ASSUME NEW k \in Class \ {c}
      PROVE  IF jb2[k].stage \in Blocked
             THEN /\ jb2[k].blocker \in DOMAIN ev2 \ {x}
                  /\ ev2[jb2[k].blocker].blocking = k /\ ev2[jb2[k].blocker].name = jb2[k].stage
             ELSE jb2[k].blocker = NoEvent
  BY DEF Waits, Alike
<1>4. jb2[c].blocker = NoEvent
  BY DEF Waits
<1> QED BY <1>1, <1>2, <1>3, <1>4 DEF Waits

\* A job that has been let go changes.
LEMMA Rejob ==
  ASSUME NEW s, NEW x, NEW c \in Class, Between(s, x, c), NEW j \in JobRecord,
         j.stop_on = s.job[c].stop_on, j.blocking = s.job[c].blocking, j.blocker = s.job[c].blocker
  PROVE  LET r == WithJob(s, c, j)
         IN  Between(r, x, c) /\ Moves(s, r, c) /\ r.job[c] = j /\ r.event = s.event
<1> DEFINE r == WithJob(s, c, j)
<1>0. Core(s)
  BY DEF Between
<1>1. /\ Core(r) /\ Same(s, r) /\ r.queue = s.queue /\ r.event = s.event
      /\ r.job = [s.job EXCEPT ![c] = j] /\ r.job[c] = j /\ \A k \in Class \ {c} : r.job[k] = s.job[k]
  BY <1>0, CoreKept
<1> HIDE DEF r
<1>2. Eases(s.event, r.event) /\ Alike(s.event, r.event)
  BY <1>0, <1>1, SelfEases
<1>3. Waits(s.event, s.job, x, c) /\ Stages(s.job, c) /\ Leaving(s, x)
  BY DEF Between
<1>4. Waits(r.event, r.job, x, c)
  <2>1. r.job[c].blocker = s.job[c].blocker /\ \A k \in Class \ {c} : r.job[k] = s.job[k]
    BY <1>1
  <2> QED BY <1>2, <1>3, <2>1, WaitsBetween
<1>5. Stages(r.job, c)
  BY <1>1, <1>3 DEF Stages
<1>6. Moves(s, r, c)
  BY <1>0, <1>1, <1>2, MovesJob
<1> QED BY <1>1, <1>3, <1>4, <1>5, <1>6 DEF Between, Leaving, r

\* A job that is told something changes.
LEMMA RejobBusy ==
  ASSUME NEW s, NEW x, NEW c \in Class, Busy(s, x, c), NEW j \in JobRecord, j.stage = s.job[c].stage,
         j.stop_on = s.job[c].stop_on, j.blocking = s.job[c].blocking, j.blocker = s.job[c].blocker
  PROVE  LET r == WithJob(s, c, j)
         IN  Busy(r, x, c) /\ Moves(s, r, c) /\ r.job[c] = j /\ r.event = s.event
<1> DEFINE r == WithJob(s, c, j)
<1>0. Core(s)
  BY DEF Busy
<1>1. /\ Core(r) /\ Same(s, r) /\ r.queue = s.queue /\ r.event = s.event
      /\ r.job = [s.job EXCEPT ![c] = j] /\ r.job[c] = j /\ \A k \in Class \ {c} : r.job[k] = s.job[k]
  BY <1>0, CoreKept
<1> HIDE DEF r
<1>2. Eases(s.event, r.event) /\ Alike(s.event, r.event)
  BY <1>0, <1>1, SelfEases
<1>3. Waits(s.event, s.job, x, "none") /\ Stages(s.job, c) /\ Leaving(s, x)
  BY DEF Busy
<1>4. Waits(r.event, r.job, x, "none")
  <2>1. \A k \in Class : r.job[k].stage = s.job[k].stage /\ r.job[k].blocker = s.job[k].blocker
    BY <1>1
  <2> QED BY <1>2, <1>3, <2>1, WaitsAlike
<1>5. Stages(r.job, c)
  BY <1>1, <1>3 DEF Stages
<1>6. Moves(s, r, c)
  BY <1>0, <1>1, <1>2, MovesJob
<1> QED BY <1>1, <1>3, <1>4, <1>5, <1>6 DEF Busy, Leaving, r

\* job_finished, on the way to the next stage.
LEMMA BetweenFinished ==
  ASSUME NEW s, NEW x, NEW c \in Class, Between(s, x, c)
  PROVE  LET r == job_finished(s, c, FALSE)
         IN  Between(r, x, c) /\ Moves(s, r, c) /\ r.job[c] = Finished(s.job[c]) /\ Keeps(s, r, c)
<1> DEFINE r == job_finished(s, c, FALSE)
<1>0. Core(s) /\ s.job[c] \in JobRecord
  BY Parts DEF Between, Core
<1>1. /\ Core(r) /\ Same(s, r) /\ r.queue = s.queue /\ Alike(s.event, r.event)
      /\ Eases(s.event, r.event) /\ r.job = [s.job EXCEPT ![c] = Finished(s.job[c])]
  BY <1>0, FinishesJob
<1> HIDE DEF r
<1>2. /\ Finished(s.job[c]).stop_on = s.job[c].stop_on /\ Finished(s.job[c]).blocker = s.job[c].blocker
      /\ Finished(s.job[c]).goal = s.job[c].goal
  BY <1>0, FinishedIs
<1>3. DOMAIN r.event = DOMAIN s.event
  BY <1>1 DEF Alike
<1>4. Moves(s, r, c) /\ r.job[c] = Finished(s.job[c])
  BY <1>0, <1>1, <1>2, <1>3, MovesJob
<1>5. Waits(s.event, s.job, x, c) /\ Stages(s.job, c) /\ Leaving(s, x)
  BY DEF Between
<1>6. \A k \in Class \ {c} : r.job[k] = s.job[k]
  BY <1>4 DEF Moves
<1>7. r.job[c].blocker = s.job[c].blocker
  BY <1>2, <1>4
<1>8. Waits(r.event, r.job, x, c)
  <2>1. Alike(s.event, r.event)
    BY <1>1
  <2> QED BY <1>5, <1>6, <1>7, <2>1, WaitsBetween
<1>9. Stages(r.job, c)
  BY <1>5, <1>6 DEF Stages
<1> QED BY <1>1, <1>2, <1>3, <1>4, <1>5, <1>8, <1>9 DEF Between, Leaving, Keeps, r

\* job_finished, of a job that is told something.
LEMMA BusyFinished ==
  ASSUME NEW s, NEW x, NEW c \in Class, Busy(s, x, c), NEW failed \in BOOLEAN
  PROVE  LET r == job_finished(s, c, failed)
         IN  Busy(r, x, c) /\ Moves(s, r, c) /\ r.job[c] = Finished(s.job[c]) /\ Keeps(s, r, c)
             /\ DOMAIN r.event = DOMAIN s.event
<1> DEFINE r == job_finished(s, c, failed)
<1>0. Core(s) /\ s.job[c] \in JobRecord
  BY Parts DEF Busy, Core
<1>1. /\ Core(r) /\ Same(s, r) /\ r.queue = s.queue /\ Alike(s.event, r.event)
      /\ Eases(s.event, r.event) /\ r.job = [s.job EXCEPT ![c] = Finished(s.job[c])]
  BY <1>0, FinishesJob
<1> HIDE DEF r
<1>2. /\ Finished(s.job[c]).stop_on = s.job[c].stop_on /\ Finished(s.job[c]).blocker = s.job[c].blocker
      /\ Finished(s.job[c]).goal = s.job[c].goal /\ Finished(s.job[c]).stage = s.job[c].stage
  BY <1>0, FinishedIs
<1>3. DOMAIN r.event = DOMAIN s.event
  BY <1>1 DEF Alike
<1>4. Moves(s, r, c) /\ r.job[c] = Finished(s.job[c])
  BY <1>0, <1>1, <1>2, <1>3, MovesJob
<1>5. Waits(s.event, s.job, x, "none") /\ Stages(s.job, c) /\ Leaving(s, x)
  BY DEF Busy
<1>6. \A k \in Class \ {c} : r.job[k] = s.job[k]
  BY <1>4 DEF Moves
<1>7. \A k \in Class : r.job[k].stage = s.job[k].stage /\ r.job[k].blocker = s.job[k].blocker
  BY <1>2, <1>4, <1>6
<1>8. Waits(r.event, r.job, x, "none")
  BY <1>1, <1>5, <1>7, WaitsAlike
<1>9. Stages(r.job, c)
  BY <1>5, <1>6 DEF Stages
<1> QED BY <1>1, <1>2, <1>3, <1>4, <1>5, <1>8, <1>9 DEF Busy, Leaving, Keeps, r

\* A job that waits for no event may go on.
LEMMA BusyIsBetween ==
  ASSUME NEW s, NEW x, NEW c \in Class, Busy(s, x, c), s.job[c].stage \notin Blocked
  PROVE  Between(s, x, c) /\ s.job[c].blocker = NoEvent
<1>1. c # "none"
  BY NameAssumption
<1>2. s.job[c].blocker = NoEvent
  BY <1>1 DEF Busy, Waits
<1>3. Waits(s.event, s.job, x, c)
  <2>1. Waits(s.event, s.job, x, "none")
    BY DEF Busy
  <2>2. ASSUME NEW k \in Class \ {c}
        PROVE  IF s.job[k].stage \in Blocked
               THEN /\ s.job[k].blocker \in DOMAIN s.event \ {x}
                    /\ s.event[s.job[k].blocker].blocking = k /\ s.event[s.job[k].blocker].name = s.job[k].stage
               ELSE s.job[k].blocker = NoEvent
    BY <2>1, NameAssumption DEF Waits
  <2> QED BY <1>2, <2>1, <2>2 DEF Waits
<1> QED BY <1>2, <1>3 DEF Busy, Between

\* A job that is on its way and has arrived.
LEMMA Arrived ==
  ASSUME NEW s, NEW x, NEW c \in Class, Between(s, x, c), s.job[c].stage \notin Blocked, Staged(c, s.job[c])
  PROVE  Settled(s, x)
<1>1. s.job[c].blocker = NoEvent
  BY DEF Between, Waits
<1>2. Waits(s.event, s.job, x, "none")
  <2>1. ASSUME NEW k \in Class
        PROVE  IF s.job[k].stage \in Blocked
               THEN /\ s.job[k].blocker \in DOMAIN s.event \ {x}
                    /\ s.event[s.job[k].blocker].blocking = k /\ s.event[s.job[k].blocker].name = s.job[k].stage
               ELSE s.job[k].blocker = NoEvent
    <3>1. CASE k = c
      BY <1>1, <3>1
    <3>2. CASE k # c
      BY <3>2 DEF Between, Waits
    <3> QED BY <3>1, <3>2
  <2> QED BY <2>1, NameAssumption DEF Between, Waits
<1>3. Stages(s.job, "none")
  BY DEF Between, Stages
<1> QED BY <1>2, <1>3 DEF Between, Settled

\* A job whose stage can be kept has been told everything.
LEMMA Told ==
  ASSUME NEW s, NEW x, NEW c \in Class, Busy(s, x, c), Staged(c, s.job[c])
  PROVE  Settled(s, x)
BY DEF Busy, Settled, Stages

\* Of a settled daemon any job may be told something.
LEMMA SettledIsBusy ==
  ASSUME NEW s, NEW x, Settled(s, x), NEW c \in Class
  PROVE  Busy(s, x, c) /\ Staged(c, s.job[c])
BY NameAssumption DEF Settled, Busy, Stages

\* Another stage.
LEMMA Restage ==
  ASSUME NEW j \in JobRecord, NEW stage \in Stage
  PROVE  LET n == [j EXCEPT !.stage = stage]
         IN  /\ n \in JobRecord /\ n.stage = stage /\ n.blocking = j.blocking /\ n.caller = j.caller
             /\ n.goal = j.goal /\ n.blocker = j.blocker /\ n.stop_on = j.stop_on /\ n.main = j.main
             /\ n.failed = j.failed
BY DEF JobRecord

\* The job changes its stage.
InStage(s, c, stage) == [s EXCEPT !.job[c].stage = stage]

LEMMA StageSet ==
  ASSUME NEW s, NEW x, NEW c \in Class, Between(s, x, c), NEW stage \in Stage
  PROVE  LET r == InStage(s, c, stage)
         IN  /\ Between(r, x, c) /\ Moves(s, r, c) /\ Keeps(s, r, c)
             /\ r.job[c].stage = stage /\ r.job[c].blocking = s.job[c].blocking
             /\ r.job[c].main = s.job[c].main /\ r.event = s.event /\ r.job[c].blocker = NoEvent
<1> DEFINE r == InStage(s, c, stage)
           j == [s.job[c] EXCEPT !.stage = stage]
<1>0. Core(s) /\ s.job[c] \in JobRecord /\ s \in System
  BY Parts DEF Between, Core
<1>1. r = WithJob(s, c, j)
  BY DEF WithJob, InStage
<1>2. /\ j \in JobRecord /\ j.stage = stage /\ j.blocking = s.job[c].blocking /\ j.goal = s.job[c].goal
      /\ j.blocker = s.job[c].blocker /\ j.stop_on = s.job[c].stop_on /\ j.main = s.job[c].main
  BY <1>0, Restage
<1>3. s.job[c].blocker = NoEvent
  BY DEF Between, Waits
<1> HIDE DEF r, j
<1>4. Between(r, x, c) /\ Moves(s, r, c) /\ r.job[c] = j /\ r.event = s.event
  BY <1>1, <1>2, Rejob
<1> QED BY <1>2, <1>3, <1>4 DEF Keeps, r, j

\* The stages in which the job waits for its event.
LEMMA EntersBlocked ==
  ASSUME NEW s, NEW x, NEW c \in Class, Between(s, x, c), s.job[c].stage \in Blocked
  PROVE  LET r == job_emit_event(s, c, s.job[c].stage, TRUE)
         IN  Settled(r, x) /\ Moves(s, r, c) /\ Keeps(s, r, c) /\ r.job[c].stage = s.job[c].stage
<1> DEFINE r == job_emit_event(s, c, s.job[c].stage, TRUE)
           n == NewEvent(s)
           j == [s.job[c] EXCEPT !.blocker = n]
<1>0. Core(s) /\ s.job[c] \in JobRecord /\ s.job \in [Class -> JobRecord]
  BY Parts DEF Between, Core
<1>1. Waits(s.event, s.job, x, c) /\ Stages(s.job, c) /\ (x \in DOMAIN s.event \/ x = NoEvent)
  BY DEF Between, Leaving
<1>2. /\ Core(r) /\ Same(s, r) /\ Grows(s, r) /\ Eases(s.event, r.event)
      /\ r.job = [s.job EXCEPT ![c] = j] /\ n \in Nat /\ Waits(r.event, r.job, x, "none")
  BY <1>0, <1>1, EmitsAndWaits
<1> HIDE DEF r, n
<1>3. j.stage = s.job[c].stage /\ j.goal = s.job[c].goal /\ j.stop_on = s.job[c].stop_on
  BY <1>0, <1>2, Reblock
<1> HIDE DEF j
<1>4. r.job[c] = j /\ \A k \in Class \ {c} : r.job[k] = s.job[k]
  BY <1>0, <1>2
<1>5. Staged(c, r.job[c])
  BY <1>3, <1>4 DEF Staged, Blocked
<1>6. Stages(r.job, "none")
  BY <1>1, <1>4, <1>5 DEF Stages
<1>7. Leaving(r, x)
  BY <1>1, <1>2 DEF Leaving, Grows
<1> QED BY <1>2, <1>3, <1>4, <1>6, <1>7 DEF Settled, Moves, Keeps, r

\* An event the job does not wait for, on the way to the next stage.
LEMMA BetweenEmits ==
  ASSUME NEW s, NEW x, NEW c \in Class, Between(s, x, c), NEW name \in {"started", "stopped"}
  PROVE  LET r == job_emit_event(s, c, name, FALSE)
         IN  Between(r, x, c) /\ Moves(s, r, c) /\ r.job = s.job
<1> DEFINE r == job_emit_event(s, c, name, FALSE)
<1>0. Core(s) /\ Waits(s.event, s.job, x, c) /\ Stages(s.job, c) /\ Leaving(s, x)
  BY DEF Between
<1>1. /\ Core(r) /\ Same(s, r) /\ r.job = s.job /\ Grows(s, r) /\ Eases(s.event, r.event)
      /\ Waits(r.event, r.job, x, c)
  BY <1>0, EmitsFreely
<1> HIDE DEF r
<1>2. Leaving(r, x)
  BY <1>0, <1>1 DEF Leaving, Grows
<1>3. Moves(s, r, c)
  BY <1>1 DEF Moves
<1> QED BY <1>0, <1>1, <1>2, <1>3 DEF Between, r

LEMMA StoppingEntered ==
  ASSUME NEW s, NEW x, NEW c \in Class, Between(s, x, c)
  PROVE  LET r == EnterStopping(s, c)
         IN  Settled(r, x) /\ Moves(s, r, c) /\ Keeps(s, r, c) /\ r.job[c].stage = "stopping"
<1> DEFINE p == InStage(s, c, "stopping")
           r == job_emit_event(p, c, "stopping", TRUE)
<1>1. Between(p, x, c) /\ Moves(s, p, c) /\ Keeps(s, p, c) /\ p.job[c].stage = "stopping"
  <2>1. "stopping" \in Stage
    BY DEF Stage
  <2> QED BY <2>1, StageSet
<1>2. EnterStopping(s, c) = r
  BY DEF EnterStopping, InStage
<1> HIDE DEF p
<1>3. Settled(r, x) /\ Moves(p, r, c) /\ Keeps(p, r, c) /\ r.job[c].stage = "stopping"
  BY <1>1, EntersBlocked DEF Blocked
<1> HIDE DEF r
<1>4. Moves(s, r, c)
  BY <1>1, <1>3, MovesOn DEF Between, Settled
<1> QED BY <1>1, <1>2, <1>3, <1>4 DEF Keeps

LEMMA StartingEntered ==
  ASSUME NEW s, NEW x, NEW c \in Class, Between(s, x, c)
  PROVE  LET r == EnterStarting(s, c)
         IN  Settled(r, x) /\ Moves(s, r, c) /\ Keeps(s, r, c)
<1> DEFINE j == [s.job[c] EXCEPT !.stage = "starting", !.failed = FALSE]
           p == WithJob(s, c, j)
           r == job_emit_event(p, c, "starting", TRUE)
<1>0. Core(s) /\ s.job[c] \in JobRecord
  BY Parts DEF Between, Core
<1>1. /\ j \in JobRecord /\ j.stage = "starting" /\ j.blocking = s.job[c].blocking /\ j.goal = s.job[c].goal
      /\ j.blocker = s.job[c].blocker /\ j.stop_on = s.job[c].stop_on
  BY <1>0 DEF JobRecord, Stage
<1>2. EnterStarting(s, c) = r
  BY DEF EnterStarting, WithJob
<1> HIDE DEF j
<1>3. Between(p, x, c) /\ Moves(s, p, c) /\ p.job[c] = j
  BY <1>1, Rejob
<1> HIDE DEF p
<1>4. Settled(r, x) /\ Moves(p, r, c) /\ Keeps(p, r, c)
  BY <1>1, <1>3, EntersBlocked DEF Blocked
<1> HIDE DEF r
<1>5. Moves(s, r, c)
  BY <1>3, <1>4, MovesOn DEF Between, Settled
<1> QED BY <1>1, <1>2, <1>3, <1>4, <1>5 DEF Keeps

\* The stages the job stays in.
LEMMA PlainEntered ==
  ASSUME NEW s, NEW x, NEW c \in Class, Between(s, x, c), NEW stage \in {"spawning", "pre_stop", "ending"}
  PROVE  LET r == InStage(s, c, stage)
         IN  /\ Between(r, x, c) /\ Settled(r, x) /\ Moves(s, r, c) /\ Keeps(s, r, c)
             /\ r.job[c].stage = stage /\ r.job[c].main = s.job[c].main
<1> DEFINE r == InStage(s, c, stage)
<1>1. /\ Between(r, x, c) /\ Moves(s, r, c) /\ Keeps(s, r, c) /\ r.job[c].stage = stage
      /\ r.job[c].main = s.job[c].main
  <2>1. stage \in Stage
    BY DEF Stage
  <2> QED BY <2>1, StageSet
<1> HIDE DEF r
<1>2. r.job[c].stage \notin Blocked /\ Staged(c, r.job[c])
  BY <1>1 DEF Blocked, Staged
<1>3. Settled(r, x)
  BY <1>1, <1>2, Arrived
<1> QED BY <1>1, <1>3 DEF r

LEMMA PreStopEntered ==
  ASSUME NEW s, NEW x, NEW c \in Class, Between(s, x, c)
  PROVE  LET r == EnterPreStop(s, c)
         IN  Settled(r, x) /\ Moves(s, r, c) /\ Keeps(s, r, c)
<1> DEFINE p == InStage(s, c, "pre_stop")
           r == EnterPreStop(s, c)
<1>1. Between(p, x, c) /\ Settled(p, x) /\ Moves(s, p, c) /\ Keeps(s, p, c)
  BY PlainEntered
<1>2. r = IF ClassOf[c].pre_stop THEN p ELSE EnterStopping(p, c)
  BY DEF EnterPreStop, InStage
<1> HIDE DEF p, r
<1>3. CASE ClassOf[c].pre_stop
  BY <1>1, <1>2, <1>3 DEF r
<1>4. CASE ~ClassOf[c].pre_stop
  <2>1. Settled(r, x) /\ Moves(p, r, c) /\ Keeps(p, r, c)
    BY <1>1, <1>2, <1>4, StoppingEntered
  <2>2. Moves(s, r, c)
    BY <1>1, <2>1, MovesOn DEF Between, Settled
  <2> QED BY <1>1, <2>1, <2>2 DEF Keeps, r
<1> QED BY <1>3, <1>4

\* A main process may have come up.
LEMMA Remain ==
  ASSUME NEW j \in JobRecord, NEW b \in BOOLEAN
  PROVE  LET n == [j EXCEPT !.main = b]
         IN  /\ n \in JobRecord /\ n.main = b /\ n.blocking = j.blocking /\ n.caller = j.caller
             /\ n.goal = j.goal /\ n.blocker = j.blocker /\ n.stop_on = j.stop_on /\ n.stage = j.stage
             /\ n.failed = j.failed
BY DEF JobRecord

\* A job that holds nobody back may run.
LEMMA RestingRuns ==
  ASSUME NEW s, NEW x, NEW c \in Class, Between(s, x, c), s.job[c].stage = "running", s.job[c].goal = "start"
  PROVE  LET r == job_finished(s, c, FALSE)
         IN  Settled(r, x) /\ Moves(s, r, c) /\ Keeps(s, r, c)
<1> DEFINE r == job_finished(s, c, FALSE)
<1>0. s.job[c] \in JobRecord
  BY Parts DEF Between, Core
<1>1. Between(r, x, c) /\ Moves(s, r, c) /\ r.job[c] = Finished(s.job[c]) /\ Keeps(s, r, c)
  BY BetweenFinished
<1> HIDE DEF r
<1>2. r.job[c].stage = "running" /\ Rests(r.job[c]) /\ r.job[c].goal = "start"
  BY <1>0, <1>1, FinishedIs
<1>3. r.job[c].stage \notin Blocked /\ Staged(c, r.job[c])
  BY <1>2 DEF Blocked, Staged
<1>4. Settled(r, x)
  BY <1>1, <1>3, Arrived
<1> QED BY <1>1, <1>4 DEF r

LEMMA RunningEntered ==
  ASSUME NEW s, NEW x, NEW c \in Class, Between(s, x, c), s.job[c].goal = "start"
  PROVE  LET r == EnterRunning(s, c)
         IN  Settled(r, x) /\ Moves(s, r, c) /\ Keeps(s, r, c)
<1> DEFINE p == InStage(s, c, "running")
           j == [p.job[c] EXCEPT !.main = ClassOf[c].main]
           n == [p EXCEPT !.job[c].main = ClassOf[c].main]
           e == job_emit_event(n, c, "started", FALSE)
           r == EnterRunning(s, c)
<1>1. Between(p, x, c) /\ Moves(s, p, c) /\ Keeps(s, p, c) /\ p.job[c].stage = "running"
  <2>1. "running" \in Stage
    BY DEF Stage
  <2> QED BY <2>1, StageSet
<1>2. r = CASE s.job[c].stage = "pre_stop" -> job_finished(p, c, FALSE)
            [] s.job[c].stage # "pre_stop" /\ ClassOf[c].task -> e
            [] s.job[c].stage # "pre_stop" /\ ~ClassOf[c].task -> job_finished(e, c, FALSE)
  BY DEF EnterRunning, InStage
<1> HIDE DEF p, r
<1>3. p.job[c].goal = "start"
  BY <1>1 DEF Keeps
<1>4. CASE s.job[c].stage = "pre_stop"
  <2>1. r = job_finished(p, c, FALSE)
    BY <1>2, <1>4
  <2>2. Settled(r, x) /\ Moves(p, r, c) /\ Keeps(p, r, c)
    BY <1>1, <1>3, <2>1, RestingRuns
  <2>3. Moves(s, r, c)
    BY <1>1, <2>2, MovesOn DEF Between, Settled
  <2> QED BY <1>1, <2>2, <2>3 DEF Keeps, r
<1>5. CASE s.job[c].stage # "pre_stop"
  <2>0. p \in System /\ p.job[c] \in JobRecord /\ ClassOf[c].main \in BOOLEAN
    BY <1>1, Parts, ClassAssumption DEF Between, Core
  <2>1. n = WithJob(p, c, j)
    BY <2>0 DEF WithJob
  <2>2. /\ j \in JobRecord /\ j.blocking = p.job[c].blocking /\ j.goal = p.job[c].goal
        /\ j.blocker = p.job[c].blocker /\ j.stop_on = p.job[c].stop_on /\ j.stage = p.job[c].stage
    BY <2>0, Remain
  <2> HIDE DEF j, n
  <2>3. Between(n, x, c) /\ Moves(p, n, c) /\ n.job[c] = j
    BY <1>1, <2>1, <2>2, Rejob
  <2>4. Between(e, x, c) /\ Moves(n, e, c) /\ e.job = n.job
    BY <2>3, BetweenEmits
  <2> HIDE DEF e
  <2>5. Moves(s, e, c)
    <3>1. Core(s) /\ Core(p) /\ Core(n) /\ Core(e)
      BY <1>1, <2>3, <2>4 DEF Between
    <3>2. Moves(s, n, c)
      BY <1>1, <2>3, <3>1, MovesOn
    <3> QED BY <2>4, <3>1, <3>2, MovesOn
  <2>6. e.job[c].stage = "running" /\ e.job[c].goal = "start" /\ Keeps(s, e, c)
    BY <1>1, <1>3, <2>2, <2>3, <2>4 DEF Keeps
  <2>7. CASE ClassOf[c].task
    <3>1. r = e
      BY <1>2, <1>5, <2>7
    <3>2. e.job[c].stage \notin Blocked /\ Staged(c, e.job[c])
      BY <2>6, <2>7 DEF Blocked, Staged
    <3>3. Settled(e, x)
      BY <2>4, <3>2, Arrived
    <3> QED BY <2>5, <2>6, <3>1, <3>3 DEF r
  <2>8. CASE ~ClassOf[c].task
    <3>1. r = job_finished(e, c, FALSE)
      BY <1>2, <1>5, <2>8
    <3>2. Settled(r, x) /\ Moves(e, r, c) /\ Keeps(e, r, c)
      BY <2>4, <2>6, <3>1, RestingRuns
    <3>3. Moves(s, r, c)
      BY <2>4, <2>5, <3>2, MovesOn DEF Between, Settled
    <3> QED BY <2>6, <3>2, <3>3 DEF Keeps, r
  <2> QED BY <2>7, <2>8
<1> QED BY <1>4, <1>5

LEMMA SpawningEntered ==
  ASSUME NEW s, NEW x, NEW c \in Class, Between(s, x, c), s.job[c].goal = "start"
  PROVE  LET r == EnterSpawning(s, c)
         IN  Settled(r, x) /\ Moves(s, r, c) /\ Keeps(s, r, c)
<1> DEFINE p == InStage(s, c, "spawning")
           r == EnterSpawning(s, c)
<1>1. Between(p, x, c) /\ Settled(p, x) /\ Moves(s, p, c) /\ Keeps(s, p, c)
  BY PlainEntered
<1>2. r = IF ClassOf[c].spawns THEN p ELSE EnterRunning(p, c)
  BY DEF EnterSpawning, InStage
<1> HIDE DEF p, r
<1>3. CASE ClassOf[c].spawns
  BY <1>1, <1>2, <1>3 DEF r
<1>4. CASE ~ClassOf[c].spawns
  <2>0. p.job[c].goal = "start"
    BY <1>1 DEF Keeps
  <2>1. Settled(r, x) /\ Moves(p, r, c) /\ Keeps(p, r, c)
    BY <1>1, <1>2, <1>4, <2>0, RunningEntered
  <2>2. Moves(s, r, c)
    BY <1>1, <2>1, MovesOn DEF Between, Settled
  <2> QED BY <1>1, <2>1, <2>2 DEF Keeps, r
<1> QED BY <1>3, <1>4

\* No instance.
LEMMA NoJobIs ==
  ASSUME NEW c \in Class
  PROVE  /\ NoJob(c) \in JobRecord /\ NoJob(c).stop_on = event_operator_new(ClassOf[c].stop_on)
         /\ NoJob(c).blocking = {} /\ NoJob(c).blocker = NoEvent /\ NoJob(c).stage = "waiting"
         /\ NoJob(c).goal = "stop" /\ Rests(NoJob(c)) /\ Staged(c, NoJob(c))
<1>1. event_operator_new(ClassOf[c].stop_on) \in Operator
  BY TreesAre, NewIs, GrownType
<1> DEFINE o == event_operator_new(ClassOf[c].stop_on)
<1> HIDE DEF o
<1>2. NoJob(c) = [stage |-> "waiting", goal |-> "stop", blocker |-> NoEvent, blocking |-> {}, caller |-> FALSE,
                  failed |-> FALSE, main |-> FALSE, stop_on |-> o]
  BY DEF NoJob, o
<1>3. NoJob(c) \in JobRecord
  BY <1>1, <1>2, NoEventAssumption DEF JobRecord, Stage, o
<1> QED BY <1>2, <1>3 DEF Rests, Staged, o

LEMMA WaitingEntered ==
  ASSUME NEW s, NEW x, NEW c \in Class, Between(s, x, c)
  PROVE  LET r == EnterWaiting(s, c)
         IN  Settled(r, x) /\ Moves(s, r, c)
<1> DEFINE p == InStage(s, c, "waiting")
           e == job_emit_event(p, c, "stopped", FALSE)
           f == job_finished(e, c, FALSE)
           j == NoJob(c)
           r == Discarded(f, c, j)
<1>1. Between(p, x, c) /\ Moves(s, p, c)
  <2>1. "waiting" \in Stage
    BY DEF Stage
  <2> QED BY <2>1, StageSet
<1> HIDE DEF p
<1>2. Between(e, x, c) /\ Moves(p, e, c)
  BY <1>1, BetweenEmits
<1> HIDE DEF e
<1>3. Between(f, x, c) /\ Moves(e, f, c) /\ f.job[c] = Finished(e.job[c])
  BY <1>2, BetweenFinished
<1> HIDE DEF f
<1>4. /\ j \in JobRecord /\ j.stop_on = event_operator_new(ClassOf[c].stop_on)
      /\ j.blocking = {} /\ j.blocker = NoEvent /\ j.stage = "waiting" /\ Staged(c, j)
  BY NoJobIs
<1> HIDE DEF j
<1>5. Core(f) /\ f.job[c].blocking = {} /\ f.job[c].blocker = NoEvent
  <2>1. e.job[c] \in JobRecord
    BY <1>2, Parts DEF Between, Core
  <2>2. f.job[c].blocking = {}
    BY <1>3, <2>1, FinishedIs
  <2> QED BY <1>3, <2>2 DEF Between, Waits
<1>6. /\ Core(r) /\ Same(f, r) /\ r.queue = f.queue /\ Alike(f.event, r.event)
      /\ Eases(f.event, r.event) /\ r.job = [f.job EXCEPT ![c] = j]
  <2>1. j.blocking = f.job[c].blocking
    BY <1>4, <1>5
  <2>2. j \in JobRecord /\ j.stop_on = event_operator_new(ClassOf[c].stop_on)
    BY <1>4
  <2>3. Core(f)
    BY <1>5
  <2> QED BY <2>1, <2>2, <2>3, StopReleased
<1>7. r.deleted[c] = FALSE
  BY <1>6 DEF Core
<1>8. EnterWaiting(s, c) = r
  <2> DEFINE Out(y) == IF ~y.deleted[c] THEN y
                       ELSE [Release(y, y.start_on[c]) EXCEPT
                               !.start_on[c] = event_operator_new(ClassOf[c].start_on),
                               !.cgmanager_wait[c] = FALSE, !.deleted[c] = FALSE]
             q == [Release(f, f.job[c].stop_on) EXCEPT !.job[c] = NoJob(c)]
  <2>1. q = r
    BY DEF Discarded, WithJob, j
  <2>2. EnterWaiting(s, c) = Out(q)
    BY DEF EnterWaiting, p, e, f, InStage
  <2> HIDE DEF q, r
  <2> QED BY <1>7, <2>1, <2>2
<1> HIDE DEF r
<1>9. f.job \in [Class -> JobRecord] /\ Len(f.queue) \in Nat
  BY <1>5, Parts DEF Core
<1>10. r.job[c] = j /\ \A k \in Class \ {c} : r.job[k] = f.job[k]
  BY <1>6, <1>9
<1>11. Moves(f, r, c)
  BY <1>4, <1>6, <1>9, <1>10 DEF Moves, Grows, Alike
<1>12. Between(r, x, c)
  <2>1. Waits(f.event, f.job, x, c) /\ Stages(f.job, c) /\ Leaving(f, x)
    BY <1>3 DEF Between
  <2>2. Alike(f.event, r.event) /\ r.job[c].blocker = f.job[c].blocker
    BY <1>4, <1>5, <1>6, <1>10
  <2>3. Waits(r.event, r.job, x, c)
    BY <1>10, <2>1, <2>2, WaitsBetween
  <2>4. Stages(r.job, c)
    BY <1>10, <2>1 DEF Stages
  <2>5. Leaving(r, x)
    BY <2>1, <2>2 DEF Leaving, Alike
  <2> QED BY <1>6, <2>3, <2>4, <2>5 DEF Between
<1>13. Settled(r, x)
  <2>1. r.job[c].stage \notin Blocked /\ Staged(c, r.job[c])
    BY <1>4, <1>10 DEF Blocked
  <2> QED BY <1>12, <2>1, Arrived
<1>14. Moves(s, r, c)
  <2>1. Core(s) /\ Core(p) /\ Core(e)
    BY <1>1, <1>2 DEF Between
  <2>2. Moves(s, e, c)
    BY <1>1, <1>2, <2>1, MovesOn
  <2>3. Moves(s, f, c)
    BY <1>3, <1>5, <2>1, <2>2, MovesOn
  <2> QED BY <1>5, <1>6, <1>11, <2>1, <2>3, MovesOn
<1> QED BY <1>8, <1>13, <1>14

LEMMA EndingEntered ==
  ASSUME NEW s, NEW x, NEW c \in Class, Between(s, x, c)
  PROVE  LET r == EnterEnding(s, c)
         IN  Settled(r, x) /\ Moves(s, r, c)
<1> DEFINE p == InStage(s, c, "ending")
           waits == ClassOf[c].ends \/ p.job[c].main
           r == EnterEnding(s, c)
<1>1. Between(p, x, c) /\ Settled(p, x) /\ Moves(s, p, c)
  BY PlainEntered
<1>2. r = CASE waits -> p
            [] ~waits /\ p.job[c].goal = "stop"  -> EnterWaiting(p, c)
            [] ~waits /\ p.job[c].goal = "start" -> EnterStarting(p, c)
  BY DEF EnterEnding, InStage
<1>3. p.job[c].goal \in {"start", "stop"}
  BY <1>1, Parts DEF Between, Core, JobRecord
<1> HIDE DEF p, r, waits
<1>4. CASE waits
  BY <1>1, <1>2, <1>4 DEF r
<1>5. CASE ~waits /\ p.job[c].goal = "stop"
  <2>0. r = EnterWaiting(p, c)
    BY <1>2, <1>5
  <2>1. Settled(r, x) /\ Moves(p, r, c)
    BY <1>1, <2>0, WaitingEntered
  <2>2. Moves(s, r, c)
    BY <1>1, <2>1, MovesOn DEF Between, Settled
  <2> QED BY <2>1, <2>2 DEF r
<1>6. CASE ~waits /\ p.job[c].goal = "start"
  <2>0. r = EnterStarting(p, c)
    BY <1>2, <1>6
  <2>1. Settled(r, x) /\ Moves(p, r, c)
    BY <1>1, <2>0, StartingEntered
  <2>2. Moves(s, r, c)
    BY <1>1, <2>1, MovesOn DEF Between, Settled
  <2> QED BY <2>1, <2>2 DEF r
<1> QED BY <1>3, <1>4, <1>5, <1>6

\* job_next_state
LEMMA NextStageIs ==
  ASSUME NEW j \in JobRecord, ~(j.stage = "waiting" /\ j.goal = "stop")
  PROVE  /\ NextStage(j) \in {"waiting", "starting", "spawning", "running", "pre_stop", "stopping", "ending"}
         /\ NextStage(j) \in {"spawning", "running"} => j.goal = "start"
         /\ j.stage = "running" => NextStage(j) \in {"pre_stop", "stopping"}
         /\ j.stage = "waiting" => NextStage(j) = "starting"
<1>1. j.goal \in {"start", "stop"} /\ j.stage \in Stage /\ j.main \in BOOLEAN
  BY DEF JobRecord
<1>2. CASE j.stage = "waiting"
  <2>1. NextStage(j) = "starting"
    BY <1>1, <1>2 DEF NextStage
  <2> QED BY <1>2, <2>1
<1>3. CASE j.stage = "starting"
  <2>1. NextStage(j) = IF j.goal = "start" THEN "spawning" ELSE "stopping"
    BY <1>1, <1>3 DEF NextStage
  <2> QED BY <1>3, <2>1
<1>4. CASE j.stage = "spawning"
  <2>1. NextStage(j) = IF j.goal = "start" THEN "running" ELSE "stopping"
    BY <1>1, <1>4 DEF NextStage
  <2> QED BY <1>4, <2>1
<1>5. CASE j.stage = "running"
  <2>1. NextStage(j) = IF j.goal = "stop" /\ j.main THEN "pre_stop" ELSE "stopping"
    BY <1>1, <1>5 DEF NextStage
  <2> QED BY <1>5, <2>1
<1>6. CASE j.stage = "pre_stop"
  <2>1. NextStage(j) = IF j.goal = "start" THEN "running" ELSE "stopping"
    BY <1>1, <1>6 DEF NextStage
  <2> QED BY <1>6, <2>1
<1>7. CASE j.stage = "stopping"
  <2>1. NextStage(j) = "ending"
    BY <1>1, <1>7 DEF NextStage
  <2> QED BY <1>7, <2>1
<1>8. CASE j.stage = "ending"
  <2>1. NextStage(j) = IF j.goal = "start" THEN "starting" ELSE "waiting"
    BY <1>1, <1>8 DEF NextStage
  <2> QED BY <1>8, <2>1
<1> QED BY <1>1, <1>2, <1>3, <1>4, <1>5, <1>6, <1>7, <1>8 DEF Stage

\* job_change_state
LEMMA EnterIs ==
  ASSUME NEW s, NEW x, NEW c \in Class, Between(s, x, c), NEW stage \in Stage,
         stage \in {"spawning", "running"} => s.job[c].goal = "start"
  PROVE  LET r == Enter(s, c, stage)
         IN  /\ Settled(r, x) /\ Moves(s, r, c)
             /\ stage \in {"pre_stop", "stopping", "starting"} => Keeps(s, r, c)
<1>1. CASE stage = "waiting"
  <2>1. Enter(s, c, stage) = EnterWaiting(s, c)
    BY <1>1 DEF Enter
  <2> QED BY <1>1, <2>1, WaitingEntered
<1>2. CASE stage = "starting"
  <2>1. Enter(s, c, stage) = EnterStarting(s, c)
    BY <1>2 DEF Enter
  <2> QED BY <2>1, StartingEntered
<1>3. CASE stage = "spawning"
  <2>1. Enter(s, c, stage) = EnterSpawning(s, c)
    BY <1>3 DEF Enter
  <2>2. s.job[c].goal = "start"
    BY <1>3
  <2> QED BY <2>1, <2>2, SpawningEntered
<1>4. CASE stage = "running"
  <2>1. Enter(s, c, stage) = EnterRunning(s, c)
    BY <1>4 DEF Enter
  <2>2. s.job[c].goal = "start"
    BY <1>4
  <2> QED BY <2>1, <2>2, RunningEntered
<1>5. CASE stage = "pre_stop"
  <2>1. Enter(s, c, stage) = EnterPreStop(s, c)
    BY <1>5 DEF Enter
  <2> QED BY <2>1, PreStopEntered
<1>6. CASE stage = "stopping"
  <2>1. Enter(s, c, stage) = EnterStopping(s, c)
    BY <1>6 DEF Enter
  <2> QED BY <2>1, StoppingEntered
<1>7. CASE stage = "ending"
  <2>1. Enter(s, c, stage) = EnterEnding(s, c)
    BY <1>7 DEF Enter
  <2> QED BY <1>7, <2>1, EndingEntered
<1> QED BY <1>1, <1>2, <1>3, <1>4, <1>5, <1>6, <1>7 DEF Stage

\* A job that has been let go takes its next step.
LEMMA AdvanceIs ==
  ASSUME NEW s, NEW x, NEW c \in Class, Between(s, x, c), ~(s.job[c].stage = "waiting" /\ s.job[c].goal = "stop")
  PROVE  LET r == Advance(s, c)
         IN  /\ Settled(r, x) /\ Moves(s, r, c)
             /\ s.job[c].stage \in {"running", "waiting"} => Keeps(s, r, c)
<1> DEFINE stage == NextStage(s.job[c])
<1>0. s.job[c] \in JobRecord /\ s.job[c].blocker = NoEvent
  BY Parts DEF Between, Core, Waits
<1>1. Advance(s, c) = Enter(s, c, stage)
  BY <1>0 DEF Advance
<1>2. /\ stage \in Stage
      /\ stage \in {"spawning", "running"} => s.job[c].goal = "start"
      /\ s.job[c].stage \in {"running", "waiting"} => stage \in {"pre_stop", "stopping", "starting"}
  BY <1>0, NextStageIs DEF Stage
<1> HIDE DEF stage
<1>3. LET r == Enter(s, c, stage)
      IN  /\ Settled(r, x) /\ Moves(s, r, c)
          /\ stage \in {"pre_stop", "stopping", "starting"} => Keeps(s, r, c)
  BY <1>2, EnterIs
<1> QED BY <1>1, <1>2, <1>3

\* Another goal.
LEMMA Regoal ==
  ASSUME NEW j \in JobRecord, NEW goal \in {"start", "stop"}
  PROVE  LET n == [j EXCEPT !.goal = goal]
         IN  /\ n \in JobRecord /\ n.goal = goal /\ n.blocking = j.blocking /\ n.caller = j.caller
             /\ n.stage = j.stage /\ n.blocker = j.blocker /\ n.stop_on = j.stop_on /\ n.main = j.main
             /\ n.failed = j.failed
BY DEF JobRecord

Aimed(s, c, goal) == WithJob(s, c, [s.job[c] EXCEPT !.goal = goal])

LEMMA AimedIs ==
  ASSUME NEW s, NEW x, NEW c \in Class, Busy(s, x, c), NEW goal \in {"start", "stop"}
  PROVE  LET r == Aimed(s, c, goal)
         IN  /\ Busy(r, x, c) /\ Moves(s, r, c) /\ r.job[c].goal = goal /\ r.job[c].stage = s.job[c].stage
             /\ r.job[c].stop_on = s.job[c].stop_on
<1> DEFINE j == [s.job[c] EXCEPT !.goal = goal]
<1>0. s.job[c] \in JobRecord
  BY Parts DEF Busy, Core
<1>1. /\ j \in JobRecord /\ j.goal = goal /\ j.blocking = s.job[c].blocking
      /\ j.stage = s.job[c].stage /\ j.blocker = s.job[c].blocker /\ j.stop_on = s.job[c].stop_on
  BY <1>0, Regoal
<1>2. Aimed(s, c, goal) = WithJob(s, c, j)
  BY DEF Aimed
<1> HIDE DEF j
<1>3. LET r == WithJob(s, c, j)
      IN  Busy(r, x, c) /\ Moves(s, r, c) /\ r.job[c] = j
  BY <1>1, RejobBusy
<1> QED BY <1>1, <1>2, <1>3

\* job_change_goal, to start a job that is to stop or does not exist.
LEMMA GoalStart ==
  ASSUME NEW s, NEW x, NEW c \in Class, Busy(s, x, c), s.job[c].goal = "stop", s.job[c].stage # "running"
  PROVE  LET r == job_change_goal(s, c, "start")
         IN  Settled(r, x) /\ Moves(s, r, c) /\ r.job[c].stop_on = s.job[c].stop_on
<1> DEFINE g == Aimed(s, c, "start")
           r == job_change_goal(s, c, "start")
<1>0. g = [s EXCEPT !.job[c].goal = "start"]
  BY DEF Aimed, WithJob
<1>1. r = IF s.job[c].stage = "waiting" THEN Advance(g, c) ELSE g
  BY <1>0 DEF job_change_goal
<1>2. /\ Busy(g, x, c) /\ Moves(s, g, c) /\ g.job[c].goal = "start" /\ g.job[c].stage = s.job[c].stage
      /\ g.job[c].stop_on = s.job[c].stop_on
  BY AimedIs
<1> HIDE DEF g, r
<1>3. CASE s.job[c].stage = "waiting"
  <2>0. r = Advance(g, c)
    BY <1>1, <1>3
  <2>1. Between(g, x, c)
    BY <1>2, <1>3, BusyIsBetween DEF Blocked
  <2>2. Settled(r, x) /\ Moves(g, r, c) /\ Keeps(g, r, c)
    BY <1>2, <1>3, <2>0, <2>1, AdvanceIs
  <2>3. Moves(s, r, c)
    BY <1>2, <2>1, <2>2, MovesOn DEF Busy, Between, Settled
  <2> QED BY <1>2, <2>2, <2>3 DEF Keeps, r
<1>4. CASE s.job[c].stage # "waiting"
  <2>1. r = g /\ Staged(c, g.job[c])
    BY <1>1, <1>2, <1>4 DEF Staged
  <2>2. Settled(g, x)
    BY <1>2, <2>1, Told
  <2> QED BY <1>2, <2>1, <2>2 DEF r
<1> QED BY <1>3, <1>4

\* job_change_goal, to stop a job that exists.
LEMMA GoalStop ==
  ASSUME NEW s, NEW x, NEW c \in Class, Busy(s, x, c), s.job[c].stage # "waiting",
         s.job[c].stage = "running" => s.job[c].goal = "start"
  PROVE  LET r == job_change_goal(s, c, "stop")
         IN  /\ Settled(r, x) /\ Moves(s, r, c) /\ r.job[c].stop_on = s.job[c].stop_on /\ r.job[c].goal = "stop"
             /\ s.job[c].stage # "running" => r.job[c].stage = s.job[c].stage
<1> DEFINE g == Aimed(s, c, "stop")
           r == job_change_goal(s, c, "stop")
<1>0. g = [s EXCEPT !.job[c].goal = "stop"]
  BY DEF Aimed, WithJob
<1>1. r = IF s.job[c].stage = "running" THEN Advance(g, c) ELSE g
  BY <1>0 DEF job_change_goal
<1>2. /\ Busy(g, x, c) /\ Moves(s, g, c) /\ g.job[c].goal = "stop" /\ g.job[c].stage = s.job[c].stage
      /\ g.job[c].stop_on = s.job[c].stop_on
  BY AimedIs
<1> HIDE DEF g, r
<1>3. CASE s.job[c].stage = "running"
  <2>0. r = Advance(g, c)
    BY <1>1, <1>3
  <2>1. Between(g, x, c)
    BY <1>2, <1>3, BusyIsBetween DEF Blocked
  <2>2. Settled(r, x) /\ Moves(g, r, c) /\ Keeps(g, r, c)
    BY <1>2, <1>3, <2>0, <2>1, AdvanceIs
  <2>3. Moves(s, r, c)
    BY <1>2, <2>1, <2>2, MovesOn DEF Busy, Between, Settled
  <2> QED BY <1>2, <1>3, <2>2, <2>3 DEF Keeps, r
<1>4. CASE s.job[c].stage # "running"
  <2>1. r = g /\ Staged(c, g.job[c])
    BY <1>1, <1>2, <1>4 DEF Staged
  <2>2. Settled(g, x)
    BY <1>2, <2>1, Told
  <2> QED BY <1>2, <2>1, <2>2 DEF r
<1> QED BY <1>3, <1>4

\* job_failed
LEMMA FailedIs ==
  ASSUME NEW s, NEW x, NEW c \in Class, Busy(s, x, c)
  PROVE  LET r == job_failed(s, c)
         IN  Busy(r, x, c) /\ Moves(s, r, c) /\ Keeps(s, r, c) /\ r.job[c].stage = s.job[c].stage
<1> DEFINE j == [s.job[c] EXCEPT !.failed = TRUE]
           m == WithJob(s, c, j)
           r == job_failed(s, c)
<1>0. Core(s) /\ s.job[c] \in JobRecord
  BY Parts DEF Busy, Core
<1>1. r = IF s.job[c].failed THEN s ELSE job_finished(m, c, TRUE)
  BY DEF job_failed, WithJob
<1>2. /\ j \in JobRecord /\ j.goal = s.job[c].goal /\ j.blocking = s.job[c].blocking
      /\ j.stage = s.job[c].stage /\ j.blocker = s.job[c].blocker /\ j.stop_on = s.job[c].stop_on
  BY <1>0 DEF JobRecord
<1> HIDE DEF j, r
<1>3. Busy(m, x, c) /\ Moves(s, m, c) /\ m.job[c] = j
  BY <1>2, RejobBusy
<1> HIDE DEF m
<1>4. CASE s.job[c].failed
  BY <1>0, <1>1, <1>4, SelfEases DEF Keeps, r
<1>5. CASE ~s.job[c].failed
  <2>0. r = job_finished(m, c, TRUE)
    BY <1>1, <1>5
  <2>1. Busy(r, x, c) /\ Moves(m, r, c) /\ r.job[c] = Finished(m.job[c]) /\ Keeps(m, r, c)
    BY <1>3, <2>0, BusyFinished
  <2>2. Moves(s, r, c)
    BY <1>3, <2>1, MovesOn DEF Busy
  <2>3. r.job[c].stage = s.job[c].stage
    BY <1>2, <1>3, <2>1, FinishedIs
  <2> QED BY <1>2, <1>3, <2>1, <2>2, <2>3 DEF Keeps, r
<1> QED BY <1>4, <1>5

LEMMA FailJobIs ==
  ASSUME NEW s, NEW x, NEW c \in Class, Busy(s, x, c), s.job[c].stage # "waiting",
         s.job[c].stage = "running" => s.job[c].goal = "start"
  PROVE  LET r == FailJob(s, c)
         IN  /\ Settled(r, x) /\ Moves(s, r, c) /\ r.job[c].goal = "stop"
             /\ s.job[c].stage # "running" => r.job[c].stage = s.job[c].stage
<1> DEFINE f == job_failed(s, c)
           r == job_change_goal(f, c, "stop")
<1>1. Busy(f, x, c) /\ Moves(s, f, c) /\ Keeps(s, f, c) /\ f.job[c].stage = s.job[c].stage
  BY FailedIs
<1>2. FailJob(s, c) = r
  BY DEF FailJob
<1> HIDE DEF f
<1>3. f.job[c].stage = "running" => f.job[c].goal = "start"
  BY <1>1 DEF Keeps
<1>4. /\ Settled(r, x) /\ Moves(f, r, c) /\ r.job[c].goal = "stop"
      /\ f.job[c].stage # "running" => r.job[c].stage = f.job[c].stage
  BY <1>1, <1>3, GoalStop
<1> HIDE DEF r
<1>5. Moves(s, r, c)
  BY <1>1, <1>4, MovesOn DEF Busy, Settled
<1> QED BY <1>1, <1>2, <1>4, <1>5

-----------------------------------------------------------------------------
(* What an event does to a class                                           *)

\* The events that conditions hold are there.
LEMMA HeldLive ==
  ASSUME NEW s, Core(s), NEW c \in Class
  PROVE  /\ \A i \in Leaves(ClassOf[c].start_on) :
              s.start_on[c].event[i] \in Ids => s.start_on[c].event[i] \in DOMAIN s.event
         /\ \A i \in Leaves(ClassOf[c].stop_on) :
              s.job[c].stop_on.event[i] \in Ids => s.job[c].stop_on.event[i] \in DOMAIN s.event
<1>1. ASSUME NEW i \in Leaves(ClassOf[c].start_on), s.start_on[c].event[i] \in Ids
      PROVE  s.start_on[c].event[i] \in DOMAIN s.event
  <2> DEFINE f == s.start_on[c].event[i]
  <2>1. <<"start_on", c, i, f>> \in StartRefs(s.start_on, c, f)
    BY DEF StartRefs, Tags, Holding
  <2> HIDE DEF f
  <2>2. RefsTo(s.start_on, s.job, f) # {}
    BY <2>1, RefsAre
  <2>3. f \in Ids => f \in DOMAIN s.event
    BY <2>2 DEF Core, Live
  <2> QED BY <1>1, <2>3 DEF f
<1>2. ASSUME NEW i \in Leaves(ClassOf[c].stop_on), s.job[c].stop_on.event[i] \in Ids
      PROVE  s.job[c].stop_on.event[i] \in DOMAIN s.event
  <2> DEFINE f == s.job[c].stop_on.event[i]
  <2>1. <<"stop_on", c, i, f>> \in StopRefs(s.job, c, f)
    BY DEF StopRefs, Tags, Holding
  <2> HIDE DEF f
  <2>2. RefsTo(s.start_on, s.job, f) # {}
    BY <2>1, RefsAre
  <2>3. f \in Ids => f \in DOMAIN s.event
    BY <2>2 DEF Core, Live
  <2> QED BY <1>2, <2>3 DEF f
<1> QED BY <1>1, <1>2

\* The job blocks the events of a condition.
LEMMA BusyBlocks ==
  ASSUME NEW s, NEW x, NEW c \in Class, Busy(s, x, c), s.job[c].blocking = {}, NEW cond, Tree(cond),
         NEW o, Grown(cond, o), \A i \in Leaves(cond) : o.event[i] \in Ids => o.event[i] \in DOMAIN s.event
  PROVE  LET r == Blocks(s, c, cond, o)
         IN  /\ Busy(r, x, c) /\ Same(s, r) /\ r.queue = s.queue /\ DOMAIN r.event = DOMAIN s.event
             /\ Keeps(s, r, c) /\ r.job[c].stage = s.job[c].stage
             /\ \A k \in Class \ {c} : r.job[k] = s.job[k]
<1> DEFINE r == Blocks(s, c, cond, o)
           j == [s.job[c] EXCEPT !.blocking = Refs(cond, o)]
<1>0. Core(s) /\ s.job[c] \in JobRecord /\ s.job \in [Class -> JobRecord]
  BY Parts DEF Busy, Core
<1>1. Core(r) /\ Same(s, r) /\ r.queue = s.queue /\ Alike(s.event, r.event) /\ r.job = [s.job EXCEPT ![c] = j]
  BY <1>0, BlocksJob
<1>2. Refs(cond, o) \in SUBSET (Nat \X Nat)
  BY RefsFinite
<1> HIDE DEF r
<1>3. j.stage = s.job[c].stage /\ j.goal = s.job[c].goal /\ j.blocker = s.job[c].blocker /\ j.stop_on = s.job[c].stop_on
  BY <1>0, <1>2, Relist
<1> HIDE DEF j
<1>4. r.job[c] = j /\ \A k \in Class \ {c} : r.job[k] = s.job[k]
  BY <1>0, <1>1
<1>5. Waits(s.event, s.job, x, "none") /\ Stages(s.job, c) /\ Leaving(s, x)
  BY DEF Busy
<1>6. \A k \in Class : r.job[k].stage = s.job[k].stage /\ r.job[k].blocker = s.job[k].blocker
  BY <1>3, <1>4
<1>7. Waits(r.event, r.job, x, "none")
  <2>1. Alike(s.event, r.event)
    BY <1>1
  <2> QED BY <1>5, <1>6, <2>1, WaitsAlike
<1>8. Stages(r.job, c)
  BY <1>4, <1>5 DEF Stages
<1>9. Leaving(r, x) /\ DOMAIN r.event = DOMAIN s.event
  BY <1>1, <1>5 DEF Leaving, Alike
<1> QED BY <1>1, <1>3, <1>4, <1>7, <1>8, <1>9 DEF Busy, Keeps, r

\* A daemon that is settled stays so when counts and a condition of c change.
LEMMA SettledStays ==
  ASSUME NEW s, NEW x, Settled(s, x), NEW r, Core(r), Alike(s.event, r.event), NEW c \in Class,
         \A k \in Class \ {c} : r.job[k] = s.job[k],
         r.job[c].stage = s.job[c].stage, r.job[c].goal = s.job[c].goal, r.job[c].blocker = s.job[c].blocker,
         r.job[c].blocking = s.job[c].blocking, r.job[c].caller = s.job[c].caller
  PROVE  Settled(r, x)
<1>1. Waits(s.event, s.job, x, "none") /\ Stages(s.job, "none") /\ Leaving(s, x)
  BY DEF Settled
<1>2. \A k \in Class : r.job[k].stage = s.job[k].stage /\ r.job[k].blocker = s.job[k].blocker
  OBVIOUS
<1>3. Waits(r.event, r.job, x, "none")
  BY <1>1, <1>2, WaitsAlike
<1>4. Staged(c, r.job[c])
  BY <1>1, NameAssumption DEF Stages, Staged, Rests
<1>5. Stages(r.job, "none")
  BY <1>1, <1>4 DEF Stages
<1>6. Leaving(r, x)
  BY <1>1 DEF Leaving, Alike
<1> QED BY <1>3, <1>5, <1>6 DEF Settled

\* The stop condition of a settled job is reset.
LEMMA StopReset ==
  ASSUME NEW s, NEW x, Settled(s, x), NEW c \in Class
  PROVE  LET r == [Release(s, s.job[c].stop_on) EXCEPT !.job[c].stop_on = event_operator_reset(ClassOf[c].stop_on)]
         IN  /\ Settled(r, x) /\ Same(s, r) /\ Grows(s, r)
             /\ \A k \in Class \ {c} : r.job[k] = s.job[k]
             /\ StopUnmet(c, r.job[c].stop_on)
<1> DEFINE cond == ClassOf[c].stop_on
           o == event_operator_new(cond)
           j == [s.job[c] EXCEPT !.stop_on = o]
           r == Discarded(s, c, j)
           u == Release(s, s.job[c].stop_on)
<1>0. Core(s) /\ s.job[c] \in JobRecord /\ s.job \in [Class -> JobRecord] /\ Len(s.queue) \in Nat
  BY Parts DEF Settled, Core
<1>1. o \in Operator /\ event_operator_reset(cond) = o
  BY TreesAre, NewIs, GrownType, ResetIs
<1>2. /\ j \in JobRecord /\ j.stop_on = o /\ j.blocking = s.job[c].blocking /\ j.caller = s.job[c].caller
      /\ j.stage = s.job[c].stage /\ j.goal = s.job[c].goal /\ j.blocker = s.job[c].blocker
  BY <1>0, <1>1, Restop
<1>3. u.job = s.job
  <2> DEFINE of == s.job[c].stop_on
  <2>1. Tree(cond) /\ Grown(cond, of)
    BY <1>0, TreesAre DEF Core, Trees
  <2>2. \A f \in Ids : Tags("stop_on", c, Holding(cond, of, f), f) \subseteq RefsTo(s.start_on, s.job, f)
    <3>1. \A f : Tags("stop_on", c, Holding(cond, of, f), f) = StopRefs(s.job, c, f)
      BY DEF StopRefs
    <3>2. \A f : StopRefs(s.job, c, f) \subseteq RefsTo(s.start_on, s.job, f)
      BY RefsAre
    <3> QED BY <3>1, <3>2
  <2> HIDE DEF cond, of
  <2>3. PICK ev \in EventTable : Release(s, of) = WithEvents(s, ev)
    BY <1>0, <2>1, <2>2, ReleaseIs
  <2> QED BY <1>0, <2>3, EventsSet DEF of, Core
<1>4. [u EXCEPT !.job[c].stop_on = event_operator_reset(cond)] = r
  <2>1. [u EXCEPT !.job[c].stop_on = o] = [u EXCEPT !.job[c] = [u.job[c] EXCEPT !.stop_on = o]]
    OBVIOUS
  <2> QED BY <1>1, <1>3, <2>1 DEF Discarded, WithJob
<1>5. /\ Core(r) /\ Same(s, r) /\ r.queue = s.queue /\ Alike(s.event, r.event)
      /\ r.job = [s.job EXCEPT ![c] = j] /\ Bare(cond, j.stop_on)
  <2>1. Core(s) /\ j \in JobRecord /\ j.stop_on = event_operator_new(ClassOf[c].stop_on) /\ j.blocking = s.job[c].blocking
    BY <1>0, <1>2
  <2> HIDE DEF j, r
  <2> QED BY <2>1, StopReleased DEF r
<1> HIDE DEF r, u, j
<1>6. r.job[c] = j /\ \A k \in Class \ {c} : r.job[k] = s.job[k]
  BY <1>0, <1>5
<1>7. Settled(r, x)
  <2>1. Core(r) /\ Alike(s.event, r.event)
    BY <1>5
  <2> QED BY <1>2, <1>6, <2>1, SettledStays
<1>8. Grows(s, r)
  BY <1>0, <1>5 DEF Grows, Alike
<1>9. StopUnmet(c, r.job[c].stop_on)
  BY <1>5, <1>6 DEF StopUnmet, Bare
<1> QED BY <1>4, <1>5, <1>6, <1>7, <1>8, <1>9 DEF u

\* A stop condition that is TRUE stops the job, and is reset.
LEMMA StopIfTrueIs ==
  ASSUME NEW s, NEW x, Settled(s, x), NEW c \in Class
  PROVE  LET r == StopIfTrue(s, c, ClassOf[c].stop_on, s.job[c].stop_on)
         IN  /\ Settled(r, x) /\ Same(s, r) /\ Grows(s, r)
             /\ \A k \in Class \ {c} : r.job[k] = s.job[k]
             /\ StopUnmet(c, r.job[c].stop_on)
<1> DEFINE cond == ClassOf[c].stop_on
           oper == s.job[c].stop_on
           f == job_finished(s, c, FALSE)
           b == Blocks(f, c, cond, oper)
           g == job_change_goal(b, c, "stop")
           t == IF s.job[c].goal = "stop" THEN s ELSE g
           r == StopIfTrue(s, c, cond, oper)
<1>0. Core(s) /\ Busy(s, x, c) /\ Staged(c, s.job[c]) /\ s.job[c].goal \in {"start", "stop"} /\ Len(s.queue) \in Nat
  <2>1. Core(s)
    BY DEF Settled
  <2>2. s.job[c] \in JobRecord /\ Len(s.queue) \in Nat
    BY <2>1, Parts DEF Core
  <2> QED BY <2>1, <2>2, SettledIsBusy DEF JobRecord
<1>1. r = IF ~Value(cond, oper) THEN s
          ELSE [Release(t, oper) EXCEPT !.job[c].stop_on = event_operator_reset(cond)]
  BY DEF StopIfTrue
<1>2. CASE ~Value(cond, oper)
  <2>1. r = s
    BY <1>1, <1>2
  <2>2. Moves(s, s, c)
    BY <1>0, SelfEases
  <2>3. StopUnmet(c, s.job[c].stop_on)
    BY <1>2 DEF StopUnmet
  <2> HIDE DEF r
  <2> QED BY <2>1, <2>2, <2>3 DEF Moves, r
<1>3. CASE Value(cond, oper)
  <2>1. /\ Settled(t, x) /\ t.job[c].stop_on = oper /\ Same(s, t) /\ Grows(s, t)
        /\ \A k \in Class \ {c} : t.job[k] = s.job[k]
    <3>1. CASE s.job[c].goal = "stop"
      <4>1. t = s /\ Moves(s, s, c)
        BY <1>0, <3>1, SelfEases
      <4> HIDE DEF t
      <4> QED BY <4>1 DEF Moves
    <3>2. CASE s.job[c].goal = "start"
      <4>1. /\ Busy(f, x, c) /\ Moves(s, f, c) /\ f.job[c] = Finished(s.job[c]) /\ Keeps(s, f, c)
            /\ DOMAIN f.event = DOMAIN s.event
        BY <1>0, BusyFinished
      <4> HIDE DEF f
      <4>2. f.job[c].blocking = {} /\ f.job[c].stage = s.job[c].stage
        <5>1. s.job[c] \in JobRecord
          BY <1>0, Parts DEF Core
        <5> QED BY <4>1, <5>1, FinishedIs
      <4>3. Tree(cond) /\ Grown(cond, oper)
        BY <1>0, TreesAre DEF Core, Trees
      <4>4. \A i \in Leaves(cond) : oper.event[i] \in Ids => oper.event[i] \in DOMAIN f.event
        BY <1>0, <4>1, HeldLive
      <4> HIDE DEF cond, oper
      <4>5. /\ Busy(b, x, c) /\ Same(f, b) /\ b.queue = f.queue /\ DOMAIN b.event = DOMAIN f.event
            /\ Keeps(f, b, c) /\ b.job[c].stage = f.job[c].stage
            /\ \A k \in Class \ {c} : b.job[k] = f.job[k]
        BY <4>1, <4>2, <4>3, <4>4, BusyBlocks
      <4> HIDE DEF b
      <4>6. b.job[c].stage # "waiting" /\ b.job[c].goal = "start" /\ b.job[c].stop_on = oper
        BY <1>0, <3>2, <4>1, <4>2, <4>5 DEF Staged, Keeps, oper
      <4>7. Settled(g, x) /\ Moves(b, g, c) /\ g.job[c].stop_on = b.job[c].stop_on
        BY <4>5, <4>6, GoalStop
      <4>8. t = g
        BY <3>2
      <4> HIDE DEF g, t
      <4>9. Same(s, g) /\ \A k \in Class \ {c} : g.job[k] = s.job[k]
        BY <4>1, <4>5, <4>7 DEF Moves, Same
      <4>10. Grows(s, g)
        <5>1. Len(s.queue) <= Len(f.queue) /\ Len(f.queue) <= Len(g.queue) /\ DOMAIN s.event \subseteq DOMAIN g.event
          BY <4>1, <4>5, <4>7 DEF Moves, Grows
        <5>2. Len(f.queue) \in Nat /\ Len(g.queue) \in Nat
          BY <4>1, <4>7, Parts DEF Busy, Settled, Core
        <5> QED BY <1>0, <5>1, <5>2 DEF Grows
      <4> QED BY <4>6, <4>7, <4>8, <4>9, <4>10
    <3> QED BY <1>0, <3>1, <3>2
  <2>2. r = [Release(t, t.job[c].stop_on) EXCEPT !.job[c].stop_on = event_operator_reset(cond)]
    BY <1>1, <1>3, <2>1
  <2> HIDE DEF t, r, oper
  <2>3. /\ Settled(r, x) /\ Same(t, r) /\ Grows(t, r)
        /\ \A k \in Class \ {c} : r.job[k] = t.job[k]
        /\ StopUnmet(c, r.job[c].stop_on)
    BY <2>1, <2>2, StopReset
  <2>4. Same(s, r) /\ \A k \in Class \ {c} : r.job[k] = s.job[k]
    BY <2>1, <2>3 DEF Same
  <2>5. Grows(s, r)
    <3>1. Len(s.queue) <= Len(t.queue) /\ Len(t.queue) <= Len(r.queue) /\ DOMAIN s.event \subseteq DOMAIN r.event
      BY <2>1, <2>3 DEF Grows
    <3>2. Len(t.queue) \in Nat /\ Len(r.queue) \in Nat
      BY <2>1, <2>3, Parts DEF Settled, Core
    <3> QED BY <1>0, <3>1, <3>2 DEF Grows
  <2> QED BY <2>3, <2>4, <2>5 DEF r, oper
<1> QED BY <1>2, <1>3

LEMMA GrowsOn ==
  ASSUME NEW s, NEW t, NEW r, Core(s), Core(t), Core(r), Grows(s, t), Grows(t, r)
  PROVE  Grows(s, r)
<1>1. Len(s.queue) <= Len(t.queue) /\ Len(t.queue) <= Len(r.queue) /\ DOMAIN s.event \subseteq DOMAIN r.event
  BY DEF Grows
<1>2. Len(s.queue) \in Nat /\ Len(t.queue) \in Nat /\ Len(r.queue) \in Nat
  BY Parts DEF Core
<1> QED BY <1>1, <1>2 DEF Grows

LEMMA AlikeGrows ==
  ASSUME NEW s, NEW r, Core(s), Core(r), r.queue = s.queue, Alike(s.event, r.event)
  PROVE  Grows(s, r)
<1>1. Len(s.queue) \in Nat
  BY Parts DEF Core
<1> QED BY <1>1 DEF Grows, Alike

\* The instance of c sees event e.
LEMMA StopJobIs ==
  ASSUME NEW s, Settled(s, NoEvent), StopsUnmet(s.job, "none"), NEW c \in Class, NEW e \in DOMAIN s.event
  PROVE  LET r == StopJob(s, c, e)
         IN  Settled(r, NoEvent) /\ Same(s, r) /\ Grows(s, r) /\ StopsUnmet(r.job, "none")
<1> DEFINE cond == ClassOf[c].stop_on
           taken == Taken(cond, s.job[c].stop_on, s.event[e], << >>)
           h == StopTakes(s, c, e, taken)
           r == StopIfTrue(h, c, cond, h.job[c].stop_on)
           o == event_operator_handle(cond, s.job[c].stop_on, e, taken)
           j == [s.job[c] EXCEPT !.stop_on = o]
<1>0. Core(s) /\ s.job[c] \in JobRecord /\ s.job \in [Class -> JobRecord]
  BY Parts DEF Settled, Core
<1>1. StopJob(s, c, e) = IF s.job[c].stage = "waiting" \/ cond = << >> \/ taken = {} THEN s ELSE r
  BY DEF StopJob
<1>2. taken \in SUBSET Open(cond, s.job[c].stop_on)
  BY DEF Taken, Open
<1> HIDE DEF taken
<1>3. /\ Core(h) /\ Same(s, h) /\ h.queue = s.queue /\ Alike(s.event, h.event)
      /\ h.job = [s.job EXCEPT ![c] = j] /\ o \in Operator
  BY <1>0, <1>2, StopTakesJob
<1> HIDE DEF h
<1>4. /\ j.blocking = s.job[c].blocking /\ j.caller = s.job[c].caller
      /\ j.stage = s.job[c].stage /\ j.goal = s.job[c].goal /\ j.blocker = s.job[c].blocker
  BY <1>0, <1>3, Restop
<1> HIDE DEF j
<1>5. h.job[c] = j /\ \A k \in Class \ {c} : h.job[k] = s.job[k]
  BY <1>0, <1>3
<1>6. Settled(h, NoEvent)
  <2>1. Core(h) /\ Alike(s.event, h.event)
    BY <1>3
  <2> QED BY <1>4, <1>5, <2>1, SettledStays
<1>7. Grows(s, h)
  BY <1>0, <1>3, AlikeGrows
<1>8. /\ Settled(r, NoEvent) /\ Same(h, r) /\ Grows(h, r)
      /\ \A k \in Class \ {c} : r.job[k] = h.job[k]
      /\ StopUnmet(c, r.job[c].stop_on)
  BY <1>6, StopIfTrueIs
<1> HIDE DEF r
<1>9. Same(s, r)
  BY <1>3, <1>8 DEF Same
<1>10. Grows(s, r)
  BY <1>0, <1>3, <1>7, <1>8, GrowsOn DEF Settled
<1>11. StopsUnmet(r.job, "none")
  BY <1>5, <1>8 DEF StopsUnmet
<1>12. Same(s, s) /\ Grows(s, s)
  BY <1>0, SelfEases DEF Moves
<1> QED BY <1>1, <1>8, <1>9, <1>10, <1>11, <1>12

\* The start condition of c is let go of, whatever else.
LEMMA StartReset ==
  ASSUME NEW s, NEW x, Settled(s, x), NEW c \in Class
  PROVE  LET r == ResetStart(s, c)
         IN  /\ Settled(r, x) /\ Grows(s, r) /\ r.job = s.job
             /\ r.cgmanager_wait = s.cgmanager_wait /\ r.cgroup_manager = s.cgroup_manager
             /\ (ClassOf[c].start_on # << >> => ~Value(ClassOf[c].start_on, r.start_on[c]))
             /\ \A k \in Class \ {c} : r.start_on[k] = s.start_on[k]
<1> DEFINE r == ResetStart(s, c)
<1>0. Core(s)
  BY DEF Settled
<1>1. /\ Core(r) /\ r.queue = s.queue /\ Alike(s.event, r.event) /\ r.job = s.job
      /\ r.cgmanager_wait = s.cgmanager_wait /\ r.cgroup_manager = s.cgroup_manager
      /\ Bare(ClassOf[c].start_on, r.start_on[c])
      /\ \A k \in Class \ {c} : r.start_on[k] = s.start_on[k]
  BY <1>0, ResetStartIs
<1> HIDE DEF r
<1>2. Grows(s, r)
  BY <1>0, <1>1, AlikeGrows
<1>3. Settled(r, x)
  <2>1. Core(r) /\ Alike(s.event, r.event) /\ r.job = s.job
    BY <1>1
  <2> QED BY <2>1, SettledStays
<1> QED BY <1>1, <1>2, <1>3 DEF Bare, r

\* job_class_induct_job
LEMMA InductIs ==
  ASSUME NEW s, NEW x, Settled(s, x), NEW c \in Class
  PROVE  LET r == job_class_induct_job(s, c)
         IN  /\ Settled(r, x) /\ Grows(s, r)
             /\ r.cgmanager_wait = s.cgmanager_wait /\ r.cgroup_manager = s.cgroup_manager
             /\ (ClassOf[c].start_on # << >> => ~Value(ClassOf[c].start_on, r.start_on[c]))
             /\ (\A k \in Class \ {c} : r.start_on[k] = s.start_on[k])
             /\ \A k \in Class : r.job[k].stop_on = s.job[k].stop_on
<1> DEFINE cond == ClassOf[c].start_on
           oper == s.start_on[c]
           f == job_finished(s, c, FALSE)
           b == Blocks(f, c, cond, oper)
           g == job_change_goal(b, c, "start")
           t == IF ClassOf[c].nameless \/ s.job[c].goal = "start" THEN s ELSE g
           r == ResetStart(t, c)
<1>0. Core(s) /\ Busy(s, x, c) /\ Staged(c, s.job[c]) /\ s.job[c].goal \in {"start", "stop"}
  <2>1. Core(s)
    BY DEF Settled
  <2>2. s.job[c] \in JobRecord
    BY <2>1, Parts DEF Core
  <2> QED BY <2>1, <2>2, SettledIsBusy DEF JobRecord
<1>1. job_class_induct_job(s, c) = r
  BY DEF job_class_induct_job
<1>2. /\ Settled(t, x) /\ Same(s, t) /\ Grows(s, t)
      /\ \A k \in Class : t.job[k].stop_on = s.job[k].stop_on
  <2>1. CASE ClassOf[c].nameless \/ s.job[c].goal = "start"
    <3>1. t = s /\ Moves(s, s, c)
      BY <1>0, <2>1, SelfEases
    <3> HIDE DEF t
    <3> QED BY <3>1 DEF Moves
  <2>2. CASE ~(ClassOf[c].nameless \/ s.job[c].goal = "start")
    <3>1. /\ Busy(f, x, c) /\ Moves(s, f, c) /\ f.job[c] = Finished(s.job[c]) /\ Keeps(s, f, c)
          /\ DOMAIN f.event = DOMAIN s.event
      BY <1>0, BusyFinished
    <3> HIDE DEF f
    <3>2. f.job[c].blocking = {} /\ f.job[c].stage = s.job[c].stage
      <4>1. s.job[c] \in JobRecord
        BY <1>0, Parts DEF Core
      <4> QED BY <3>1, <4>1, FinishedIs
    <3>3. Tree(cond) /\ Grown(cond, oper)
      BY <1>0, TreesAre DEF Core, Trees
    <3>4. \A i \in Leaves(cond) : oper.event[i] \in Ids => oper.event[i] \in DOMAIN f.event
      BY <1>0, <3>1, HeldLive
    <3> HIDE DEF cond, oper
    <3>5. /\ Busy(b, x, c) /\ Same(f, b) /\ b.queue = f.queue /\ DOMAIN b.event = DOMAIN f.event
          /\ Keeps(f, b, c) /\ b.job[c].stage = f.job[c].stage
          /\ \A k \in Class \ {c} : b.job[k] = f.job[k]
      BY <3>1, <3>2, <3>3, <3>4, BusyBlocks
    <3> HIDE DEF b
    <3>6. b.job[c].stage # "running" /\ b.job[c].goal = "stop"
      BY <1>0, <2>2, <3>1, <3>2, <3>5 DEF Staged, Keeps
    <3>7. Settled(g, x) /\ Moves(b, g, c) /\ g.job[c].stop_on = b.job[c].stop_on
      BY <3>5, <3>6, GoalStart
    <3>8. t = g
      BY <2>2
    <3> HIDE DEF g, t
    <3>9. Same(s, g) /\ \A k \in Class : g.job[k].stop_on = s.job[k].stop_on
      BY <3>1, <3>5, <3>7 DEF Moves, Same, Keeps
    <3>10. Grows(s, g)
      <4>1. Core(f) /\ Core(g) /\ Grows(s, f)
        BY <3>1, <3>7 DEF Busy, Settled, Moves
      <4>2. Grows(f, g)
        BY <3>5, <3>7 DEF Moves, Grows
      <4> QED BY <1>0, <4>1, <4>2, GrowsOn
    <3> QED BY <3>7, <3>8, <3>9, <3>10
  <2> QED BY <2>1, <2>2
<1> HIDE DEF t
<1>3. /\ Settled(r, x) /\ Grows(t, r) /\ r.job = t.job
      /\ r.cgmanager_wait = t.cgmanager_wait /\ r.cgroup_manager = t.cgroup_manager
      /\ (ClassOf[c].start_on # << >> => ~Value(ClassOf[c].start_on, r.start_on[c]))
      /\ \A k \in Class \ {c} : r.start_on[k] = t.start_on[k]
  BY <1>2, StartReset
<1> HIDE DEF r
<1>4. Grows(s, r)
  BY <1>0, <1>2, <1>3, GrowsOn DEF Settled
<1> QED BY <1>1, <1>2, <1>3, <1>4 DEF Same

\* Whether class c waits for the cgroup manager.
WithWait(s, c, b) == [s EXCEPT !.cgmanager_wait[c] = b]

LEMMA WaitSet ==
  ASSUME NEW s, NEW x, Settled(s, x), NEW c \in Class, NEW b \in BOOLEAN
  PROVE  LET r == WithWait(s, c, b)
         IN  /\ Settled(r, x) /\ Grows(s, r) /\ r.job = s.job /\ r.start_on = s.start_on
             /\ r.cgroup_manager = s.cgroup_manager /\ r.cgmanager_wait[c] = b /\ r.event = s.event
             /\ \A k \in Class \ {c} : r.cgmanager_wait[k] = s.cgmanager_wait[k]
<1> DEFINE r == WithWait(s, c, b)
           w == [s.cgmanager_wait EXCEPT ![c] = b]
<1>0. Core(s) /\ s \in System /\ s.cgmanager_wait \in [Class -> BOOLEAN] /\ Len(s.queue) \in Nat
  BY Parts DEF Settled, Core
<1>1. w \in [Class -> BOOLEAN] /\ w[c] = b /\ \A k \in Class \ {c} : w[k] = s.cgmanager_wait[k]
  BY <1>0
<1>2. r = [s EXCEPT !.cgmanager_wait = w]
  BY DEF WithWait
<1> HIDE DEF w
<1>3. /\ r \in System /\ r.queue = s.queue /\ r.event = s.event /\ r.job = s.job /\ r.start_on = s.start_on
      /\ r.cgroup_manager = s.cgroup_manager /\ r.cgmanager_wait = w /\ r.fault = s.fault /\ r.deleted = s.deleted
  BY <1>0, <1>1, <1>2 DEF System
<1> HIDE DEF r
<1>4. Core(r)
  BY <1>0, <1>3 DEF Core
<1>5. Settled(r, x)
  BY <1>3, <1>4 DEF Settled, Leaving
<1> QED BY <1>0, <1>1, <1>3, <1>5 DEF Grows, r

\* What may change of the other classes when class c sees an event.
Starts(s, r, c) ==
  /\ Settled(r, NoEvent) /\ Grows(s, r) /\ r.cgroup_manager = s.cgroup_manager
  /\ \A k \in Class \ {c} : r.start_on[k] = s.start_on[k] /\ r.cgmanager_wait[k] = s.cgmanager_wait[k]
  /\ \A k \in Class : r.job[k].stop_on = s.job[k].stop_on

LEMMA StartsOn ==
  ASSUME NEW s, NEW t, NEW r, NEW c, Settled(s, NoEvent), Starts(s, t, c), Starts(t, r, c)
  PROVE  Starts(s, r, c)
<1>1. Grows(s, r)
  BY GrowsOn DEF Starts, Settled
<1> QED BY <1>1 DEF Starts

\* The start condition of c takes what it matches.
LEMMA StartTakesIs ==
  ASSUME NEW s, Settled(s, NoEvent), NEW c \in Class, NEW e \in DOMAIN s.event
  PROVE  LET h == StartTakes(s, c, e)
             cond == ClassOf[c].start_on
         IN  /\ Starts(s, h.sys, c) /\ h.sys.cgmanager_wait = s.cgmanager_wait /\ h.taken \in BOOLEAN
             /\ ~h.taken => (Value(cond, h.sys.start_on[c]) <=> Value(cond, s.start_on[c]))
             /\ AnyEventStarts /\ ClassOf[c].cgroup /\ h.taken => Value(cond, h.sys.start_on[c])
<1> DEFINE cond == ClassOf[c].start_on
           taken == Taken(cond, s.start_on[c], s.event[e], << >>)
           o == event_operator_handle(cond, s.start_on[c], e, taken)
           r == TakesStart(s, c, e, taken)
           h == StartTakes(s, c, e)
<1>0. Core(s) /\ e \in Ids
  BY Parts DEF Settled, Core
<1>1. h.sys = r /\ h.taken = (taken # {})
  BY DEF StartTakes, TakesStart
<1>2. taken \in SUBSET Open(cond, s.start_on[c]) /\ taken \subseteq Leaves(cond)
  BY DEF Taken, Open
<1> HIDE DEF taken
<1>3. /\ Core(r) /\ r.queue = s.queue /\ Alike(s.event, r.event) /\ r.job = s.job
      /\ r.cgmanager_wait = s.cgmanager_wait /\ r.cgroup_manager = s.cgroup_manager
      /\ r.start_on[c] = o /\ \A k \in Class \ {c} : r.start_on[k] = s.start_on[k]
  BY <1>0, <1>2, StartTakesStart
<1> HIDE DEF r, h
<1>4. Tree(cond) /\ Grown(cond, s.start_on[c])
  BY <1>0, TreesAre DEF Core, Trees
<1>5. taken = {} => (Value(cond, o) <=> Value(cond, s.start_on[c]))
  <2>1. taken = {} => o.value = s.start_on[c].value
    BY <1>0, <1>2, <1>4, HandleIs
  <2> HIDE DEF o
  <2> QED BY <2>1 DEF Value
<1>6. AnyEventStarts /\ ClassOf[c].cgroup /\ taken # {} => Value(cond, o)
  BY <1>2, <1>4, AnyTaken
<1>7. Settled(r, NoEvent)
  <2>1. Core(r) /\ Alike(s.event, r.event) /\ r.job = s.job
    BY <1>3
  <2> QED BY <2>1, SettledStays
<1>8. Grows(s, r)
  BY <1>0, <1>3, AlikeGrows
<1>9. Starts(s, r, c)
  BY <1>3, <1>7, <1>8 DEF Starts
<1> HIDE DEF o, cond
<1> QED BY <1>1, <1>3, <1>5, <1>6, <1>9 DEF cond, h

\* Class c sees event e, and may start.
LEMMA StartIfTrueIs ==
  ASSUME NEW s, Settled(s, NoEvent), NEW c \in Class, NEW e \in DOMAIN s.event,
         ClassOf[c].start_on # << >>, ~Value(ClassOf[c].start_on, s.start_on[c]), ~s.cgmanager_wait[c]
  PROVE  LET r == StartIfTrue(StartTakes(s, c, e), c).sys
         IN  Starts(s, r, c) /\ StartUnmet(c, r.start_on[c], r.cgmanager_wait[c])
<1> DEFINE h == StartTakes(s, c, e)
           cond == ClassOf[c].start_on
           i == job_class_induct_job(h.sys, c)
           r == StartIfTrue(h, c).sys
<1>1. /\ Starts(s, h.sys, c) /\ h.sys.cgmanager_wait = s.cgmanager_wait
      /\ ~h.taken => (Value(cond, h.sys.start_on[c]) <=> Value(cond, s.start_on[c]))
  BY StartTakesIs
<1>2. r = IF h.taken /\ Value(cond, h.sys.start_on[c]) THEN i ELSE h.sys
  BY DEF StartIfTrue
<1> HIDE DEF h, r
<1>3. CASE h.taken /\ Value(cond, h.sys.start_on[c])
  <2>1. Settled(h.sys, NoEvent)
    BY <1>1 DEF Starts
  <2>2. /\ Settled(i, NoEvent) /\ Grows(h.sys, i)
        /\ i.cgmanager_wait = h.sys.cgmanager_wait /\ i.cgroup_manager = h.sys.cgroup_manager
        /\ (cond # << >> => ~Value(cond, i.start_on[c]))
        /\ (\A k \in Class \ {c} : i.start_on[k] = h.sys.start_on[k])
        /\ \A k \in Class : i.job[k].stop_on = h.sys.job[k].stop_on
    BY <2>1, InductIs
  <2> HIDE DEF i
  <2>3. Starts(h.sys, i, c)
    BY <2>2 DEF Starts
  <2>4. Starts(s, i, c)
    BY <1>1, <2>3, StartsOn
  <2>5. StartUnmet(c, i.start_on[c], i.cgmanager_wait[c])
    BY <1>1, <2>2 DEF StartUnmet
  <2> QED BY <1>2, <1>3, <2>4, <2>5 DEF r, h
<1>4. CASE ~(h.taken /\ Value(cond, h.sys.start_on[c]))
  <2>1. StartUnmet(c, h.sys.start_on[c], h.sys.cgmanager_wait[c])
    BY <1>1, <1>4 DEF StartUnmet
  <2> QED BY <1>1, <1>2, <1>4, <2>1 DEF r, h
<1> QED BY <1>3, <1>4

\* Class c sees event e.
LEMMA StartClassIs ==
  ASSUME AnyEventStarts, NEW s, Settled(s, NoEvent), NEW c \in Class, NEW e \in DOMAIN s.event,
         StartUnmet(c, s.start_on[c], s.cgmanager_wait[c])
  PROVE  LET r == StartClass(s, c, e).sys
         IN  Starts(s, r, c) /\ StartUnmet(c, r.start_on[c], r.cgmanager_wait[c])
<1> DEFINE waits == s.cgmanager_wait[c]
           absent == ClassOf[c].cgroup /\ ~s.cgroup_manager
           cond == ClassOf[c].start_on
           h == StartTakes(s, c, e)
           m == WithWait(h.sys, c, h.taken)
           t == IF ClassOf[c].cgroup /\ waits THEN WithWait(ResetStart(s, c), c, FALSE) ELSE s
           i == StartIfTrue(StartTakes(t, c, e), c)
           r == StartClass(s, c, e)
<1>0. Core(s) /\ Starts(s, s, c) /\ waits \in BOOLEAN
  <2>1. Core(s)
    BY DEF Settled
  <2>2. Moves(s, s, c) /\ waits \in BOOLEAN
    BY <2>1, SelfEases, Parts DEF Core
  <2> QED BY <2>1, <2>2 DEF Starts, Moves
<1>1. r = CASE cond = << >> \/ (absent /\ waits) -> [sys |-> s, returned |-> FALSE]
            [] cond # << >> /\ absent /\ ~waits -> [sys |-> m, returned |-> FALSE]
            [] cond # << >> /\ ~absent -> i
  BY DEF StartClass, WithWait
<1> HIDE DEF r
<1>2. CASE cond = << >> \/ (absent /\ waits)
  <2>1. r.sys = s
    BY <1>1, <1>2
  <2> QED BY <1>0, <2>1 DEF r
<1>3. CASE cond # << >> /\ absent /\ ~waits
  <2>1. r.sys = m
    BY <1>1, <1>3
  <2>2. /\ Starts(s, h.sys, c) /\ h.sys.cgmanager_wait = s.cgmanager_wait /\ h.taken \in BOOLEAN
        /\ ~h.taken => (Value(cond, h.sys.start_on[c]) <=> Value(cond, s.start_on[c]))
        /\ h.taken => Value(cond, h.sys.start_on[c])
    BY <1>3, StartTakesIs
  <2> HIDE DEF h
  <2>3. Settled(h.sys, NoEvent)
    BY <2>2 DEF Starts
  <2>4. /\ Settled(m, NoEvent) /\ Grows(h.sys, m) /\ m.job = h.sys.job /\ m.start_on = h.sys.start_on
        /\ m.cgroup_manager = h.sys.cgroup_manager /\ m.cgmanager_wait[c] = h.taken
        /\ \A k \in Class \ {c} : m.cgmanager_wait[k] = h.sys.cgmanager_wait[k]
    BY <2>2, <2>3, WaitSet
  <2> HIDE DEF m
  <2>5. Starts(h.sys, m, c)
    BY <2>4 DEF Starts
  <2>6. Starts(s, m, c)
    BY <2>2, <2>5, StartsOn
  <2>7. StartUnmet(c, m.start_on[c], m.cgmanager_wait[c])
    BY <1>3, <2>2, <2>4 DEF StartUnmet
  <2> QED BY <2>1, <2>6, <2>7 DEF r
<1>4. CASE cond # << >> /\ ~absent
  <2>1. r = i
    BY <1>1, <1>4
  <2>2. Starts(s, t, c) /\ ~Value(cond, t.start_on[c]) /\ ~t.cgmanager_wait[c]
    <3>1. CASE ClassOf[c].cgroup /\ waits
      <4> DEFINE u == ResetStart(s, c)
                 no == FALSE
                 v == WithWait(u, c, no)
      <4>0. no \in BOOLEAN /\ ~no
        OBVIOUS
      <4> HIDE DEF no
      <4>1. /\ Settled(u, NoEvent) /\ Grows(s, u) /\ u.job = s.job
            /\ u.cgmanager_wait = s.cgmanager_wait /\ u.cgroup_manager = s.cgroup_manager
            /\ (cond # << >> => ~Value(cond, u.start_on[c]))
            /\ \A k \in Class \ {c} : u.start_on[k] = s.start_on[k]
        BY StartReset
      <4> HIDE DEF u
      <4>2. /\ Settled(v, NoEvent) /\ Grows(u, v) /\ v.job = u.job /\ v.start_on = u.start_on
            /\ v.cgroup_manager = u.cgroup_manager /\ v.cgmanager_wait[c] = no
            /\ \A k \in Class \ {c} : v.cgmanager_wait[k] = u.cgmanager_wait[k]
        BY <4>0, <4>1, WaitSet
      <4>3. t = v
        BY <3>1 DEF u, no
      <4> HIDE DEF v, t
      <4>4. Starts(s, u, c) /\ Starts(u, v, c)
        BY <4>1, <4>2 DEF Starts
      <4>5. Starts(s, v, c)
        BY <4>4, StartsOn
      <4> QED BY <1>4, <4>0, <4>1, <4>2, <4>3, <4>5
    <3>2. CASE ~(ClassOf[c].cgroup /\ waits)
      <4>1. t = s
        BY <3>2
      <4>2. ~waits
        BY <1>0, <3>2 DEF StartUnmet
      <4>3. ~Value(cond, s.start_on[c])
        BY <1>4, <4>2 DEF StartUnmet
      <4> QED BY <1>0, <4>1, <4>2, <4>3
    <3> QED BY <3>1, <3>2
  <2> HIDE DEF t
  <2>3. Settled(t, NoEvent) /\ e \in DOMAIN t.event
    BY <2>2 DEF Starts, Grows
  <2>4. Starts(t, i.sys, c) /\ StartUnmet(c, i.sys.start_on[c], i.sys.cgmanager_wait[c])
    BY <1>4, <2>2, <2>3, StartIfTrueIs
  <2> HIDE DEF i
  <2>5. Starts(s, i.sys, c)
    BY <2>2, <2>4, StartsOn
  <2> QED BY <2>1, <2>4, <2>5 DEF r
<1> QED BY <1>2, <1>3, <1>4

\* No condition is left TRUE.
Quiet(s) == StartsUnmet(s.start_on, s.cgmanager_wait, "none") /\ StopsUnmet(s.job, "none")

\* The daemon after some classes have seen an event.
Seen(s, r) == Settled(r, NoEvent) /\ Quiet(r) /\ Grows(s, r)

LEMMA OfferIs ==
  ASSUME AnyEventStarts, NEW s, Core(s), NEW e \in DOMAIN s.event, NEW acc, Seen(s, acc.sys), NEW c \in Class
  PROVE  Seen(s, Offer(acc, c, e).sys)
<1> DEFINE a == acc.sys
           t == StopJob(a, c, e)
           r == StartClass(t, c, e).sys
<1>1. CASE acc.returned
  <2>1. Offer(acc, c, e) = acc
    BY <1>1 DEF Offer
  <2> QED BY <2>1
<1>2. CASE ~acc.returned
  <2>1. Offer(acc, c, e).sys = r
    BY <1>2 DEF Offer
  <2>2. Settled(a, NoEvent) /\ Quiet(a) /\ Grows(s, a) /\ Core(a) /\ e \in DOMAIN a.event
    BY DEF Seen, Settled, Grows
  <2> HIDE DEF a
  <2>3. Settled(t, NoEvent) /\ Same(a, t) /\ Grows(a, t) /\ StopsUnmet(t.job, "none")
    BY <2>2, StopJobIs DEF Quiet
  <2> HIDE DEF t
  <2>4. StartsUnmet(t.start_on, t.cgmanager_wait, "none") /\ e \in DOMAIN t.event /\ Core(t)
    BY <2>2, <2>3 DEF Quiet, Same, Grows, Settled
  <2>5. StartUnmet(c, t.start_on[c], t.cgmanager_wait[c])
    BY <2>4, NameAssumption DEF StartsUnmet
  <2>6. Starts(t, r, c) /\ StartUnmet(c, r.start_on[c], r.cgmanager_wait[c])
    BY <2>3, <2>4, <2>5, StartClassIs
  <2> HIDE DEF r
  <2>7. StartsUnmet(r.start_on, r.cgmanager_wait, "none")
    BY <2>4, <2>6 DEF StartsUnmet, Starts
  <2>8. StopsUnmet(r.job, "none")
    BY <2>3, <2>6 DEF StopsUnmet, Starts
  <2>9. Grows(s, r) /\ Settled(r, NoEvent)
    <3>1. Grows(s, t)
      BY <2>2, <2>3, <2>4, GrowsOn
    <3>2. Grows(t, r) /\ Settled(r, NoEvent) /\ Core(r)
      BY <2>6 DEF Starts, Settled
    <3> QED BY <2>4, <3>1, <3>2, GrowsOn
  <2> QED BY <2>1, <2>7, <2>8, <2>9 DEF Seen, Quiet
<1> QED BY <1>1, <1>2

\* The loop over the classes exists.
LEMMA OfferLoop ==
  ASSUME NEW s, NEW e
  PROVE  \E a : /\ a[0] = [sys |-> s, returned |-> FALSE]
               /\ a[Len(ClassOrder)].sys = event_pending_handle_jobs(s, e)
               /\ \A i \in 1..Len(ClassOrder) : a[i] = Offer(a[i - 1], ClassOrder[i], e)
<1> DEFINE g == [sys |-> s, returned |-> FALSE]
           N == Len(ClassOrder)
           Def(a) == [i \in 0..N |-> IF i = 0 THEN g ELSE Offer(a[i - 1], ClassOrder[i], e)]
           Runs(a, n) == a[0] = g /\ \A i \in 1..n : a[i] = Offer(a[i - 1], ClassOrder[i], e)
           T == {n \in 0..N : \E a : Runs(a, n)}
<1>0. N \in Nat
  BY NameAssumption, LenProperties
<1>00. event_pending_handle_jobs(s, e) = (CHOOSE a : a = Def(a))[N].sys
  BY DEF event_pending_handle_jobs
<1> HIDE DEF g, N
<1>1. 0 \in T
  <2> DEFINE a == [i \in 0..0 |-> g]
  <2>1. Runs(a, 0)
    OBVIOUS
  <2> HIDE DEF a, Runs
  <2> QED BY <1>0, <2>1
<1>2. ASSUME NEW n \in 1..N, n - 1 \in T PROVE n \in T
  <2>1. PICK a : Runs(a, n - 1)
    BY <1>2
  <2> DEFINE b == [i \in 0..n |-> IF i = n THEN Offer(a[n - 1], ClassOrder[n], e) ELSE a[i]]
  <2>2. b[0] = g
    BY <2>1, <1>0
  <2>3. ASSUME NEW i \in 1..n PROVE b[i] = Offer(b[i - 1], ClassOrder[i], e)
    <3>1. i \in 0..n /\ i - 1 \in 0..n /\ i - 1 # n
      BY <1>0
    <3>2. b[i - 1] = a[i - 1]
      BY <3>1
    <3>3. CASE i = n
      BY <3>1, <3>2, <3>3
    <3>4. CASE i # n
      <4>1. i \in 1..n - 1
        BY <3>4, <1>0
      <4> QED BY <4>1, <3>1, <3>2, <3>4, <2>1
    <3> QED BY <3>3, <3>4
  <2>4. Runs(b, n)
    BY <2>2, <2>3
  <2> HIDE DEF b, Runs
  <2> QED BY <2>4, <1>0
<1>3. N \in T
  <2> HIDE DEF T
  <2> QED BY <1>0, <1>1, <1>2, UpTo
<1>4. PICK a : Runs(a, N)
  BY <1>3
<1> DEFINE b == [i \in 0..N |-> a[i]]
<1>5. b = Def(b)
  <2>1. ASSUME NEW i \in 0..N PROVE b[i] = Def(b)[i]
    BY <1>0, <1>4
  <2> QED BY <2>1
<1> DEFINE c == CHOOSE x : x = Def(x)
<1>6. c = Def(c)
  <2> HIDE DEF b, Def
  <2> QED BY <1>5
<1>7. event_pending_handle_jobs(s, e) = c[N].sys
  BY <1>00
<1> HIDE DEF c
<1>8. c[0] = g /\ \A i \in 1..N : c[i] = Offer(c[i - 1], ClassOrder[i], e)
  BY <1>6, <1>0
<1> QED BY <1>7, <1>8 DEF g, N

\* event_pending_handle_jobs
LEMMA HandlesJobs ==
  ASSUME AnyEventStarts, NEW s, Settled(s, NoEvent), Quiet(s), NEW e \in DOMAIN s.event
  PROVE  Seen(s, event_pending_handle_jobs(s, e))
<1> DEFINE N == Len(ClassOrder)
<1>0. Core(s) /\ N \in Nat /\ \A i \in 1..N : ClassOrder[i] \in Class
  BY NameAssumption, LenProperties DEF Settled
<1>1. PICK a : /\ a[0] = [sys |-> s, returned |-> FALSE]
               /\ a[N].sys = event_pending_handle_jobs(s, e)
               /\ \A i \in 1..N : a[i] = Offer(a[i - 1], ClassOrder[i], e)
  BY OfferLoop
<1> DEFINE T == {i \in 0..N : Seen(s, a[i].sys)}
<1> HIDE DEF N
<1>2. 0 \in T
  <2>1. a[0].sys = s /\ Moves(s, s, "none")
    BY <1>0, <1>1, SelfEases
  <2>2. Seen(s, s)
    BY <2>1 DEF Moves, Seen
  <2> QED BY <1>0, <2>1, <2>2
<1>3. \A i \in 1..N : i - 1 \in T => i \in T
  <2> SUFFICES ASSUME NEW i \in 1..N, i - 1 \in T PROVE i \in T
    OBVIOUS
  <2>1. Seen(s, a[i - 1].sys) /\ ClassOrder[i] \in Class /\ a[i] = Offer(a[i - 1], ClassOrder[i], e)
    BY <1>0, <1>1
  <2>2. Seen(s, a[i].sys)
    BY <1>0, <2>1, OfferIs
  <2> QED BY <1>0, <2>2
<1>4. N \in T
  <2> HIDE DEF T
  <2> QED BY <1>0, <1>2, <1>3, UpTo
<1> QED BY <1>1, <1>4

-----------------------------------------------------------------------------
(* The cgroup manager comes up                                             *)

\* A class that has waited for it may start.
LEMMA InductWaitingIs ==
  ASSUME NEW s, NEW r, Core(s), Seen(s, r), NEW c \in Class
  PROVE  Seen(s, InductWaiting(r, c))
<1> DEFINE cond == ClassOf[c].start_on
           i == job_class_induct_job(r, c)
           u == ResetStart(i, c)
           no == FALSE
           v == WithWait(u, c, no)
           q == InductWaiting(r, c)
<1>0. no \in BOOLEAN /\ ~no
  OBVIOUS
<1>1. q = CASE ~r.cgmanager_wait[c] -> r
            [] r.cgmanager_wait[c] /\ ~Value(cond, r.start_on[c]) -> Fail(r, "assert")
            [] r.cgmanager_wait[c] /\ Value(cond, r.start_on[c]) -> v
  BY DEF InductWaiting, WithWait
<1> HIDE DEF no, q
<1>2. /\ Settled(r, NoEvent) /\ Grows(s, r) /\ StartsUnmet(r.start_on, r.cgmanager_wait, "none")
      /\ StopsUnmet(r.job, "none")
  BY DEF Seen, Quiet
<1>3. CASE ~r.cgmanager_wait[c]
  BY <1>1, <1>3 DEF q
<1>4. CASE r.cgmanager_wait[c]
  <2>1. Value(cond, r.start_on[c])
    BY <1>2, <1>4, NameAssumption DEF StartsUnmet, StartUnmet
  <2>2. q = v
    BY <1>1, <1>4, <2>1
  <2>3. /\ Settled(i, NoEvent) /\ Grows(r, i)
        /\ i.cgmanager_wait = r.cgmanager_wait
        /\ (\A k \in Class \ {c} : i.start_on[k] = r.start_on[k])
        /\ \A k \in Class : i.job[k].stop_on = r.job[k].stop_on
    BY <1>2, InductIs
  <2> HIDE DEF i
  <2>4. /\ Settled(u, NoEvent) /\ Grows(i, u) /\ u.job = i.job
        /\ u.cgmanager_wait = i.cgmanager_wait
        /\ (cond # << >> => ~Value(cond, u.start_on[c]))
        /\ \A k \in Class \ {c} : u.start_on[k] = i.start_on[k]
    BY <2>3, StartReset
  <2> HIDE DEF u
  <2>5. /\ Settled(v, NoEvent) /\ Grows(u, v) /\ v.job = u.job /\ v.start_on = u.start_on
        /\ v.cgmanager_wait[c] = no
        /\ \A k \in Class \ {c} : v.cgmanager_wait[k] = u.cgmanager_wait[k]
    BY <1>0, <2>4, WaitSet
  <2> HIDE DEF v
  <2>6. Grows(s, v)
    <3>1. Core(r) /\ Core(i) /\ Core(u) /\ Core(v)
      BY <1>2, <2>3, <2>4, <2>5 DEF Settled
    <3>2. Grows(s, i)
      BY <1>2, <2>3, <3>1, GrowsOn
    <3>3. Grows(s, u)
      BY <2>4, <3>1, <3>2, GrowsOn
    <3> QED BY <2>5, <3>1, <3>3, GrowsOn
  <2>7. StartUnmet(c, v.start_on[c], v.cgmanager_wait[c])
    BY <1>0, <2>4, <2>5 DEF StartUnmet
  <2>8. StartsUnmet(v.start_on, v.cgmanager_wait, "none")
    BY <1>2, <2>3, <2>4, <2>5, <2>7 DEF StartsUnmet
  <2>9. StopsUnmet(v.job, "none")
    BY <1>2, <2>3, <2>4, <2>5 DEF StopsUnmet
  <2> QED BY <2>2, <2>5, <2>6, <2>8, <2>9 DEF Seen, Quiet, q
<1> QED BY <1>3, <1>4

\* The loop over the classes exists.
LEMMA InductLoop ==
  ASSUME NEW s
  PROVE  \E a : /\ a[0] = s /\ a[Len(ClassOrder)] = job_class_induct_jobs(s)
               /\ \A i \in 1..Len(ClassOrder) : a[i] = InductWaiting(a[i - 1], ClassOrder[i])
<1> DEFINE N == Len(ClassOrder)
           Def(a) == [i \in 0..N |-> IF i = 0 THEN s ELSE InductWaiting(a[i - 1], ClassOrder[i])]
           Runs(a, n) == a[0] = s /\ \A i \in 1..n : a[i] = InductWaiting(a[i - 1], ClassOrder[i])
           T == {n \in 0..N : \E a : Runs(a, n)}
<1>0. N \in Nat
  BY NameAssumption, LenProperties
<1>00. job_class_induct_jobs(s) = (CHOOSE a : a = Def(a))[N]
  BY DEF job_class_induct_jobs
<1> HIDE DEF N
<1>1. 0 \in T
  <2> DEFINE a == [i \in 0..0 |-> s]
  <2>1. Runs(a, 0)
    OBVIOUS
  <2> HIDE DEF a, Runs
  <2> QED BY <1>0, <2>1
<1>2. ASSUME NEW n \in 1..N, n - 1 \in T PROVE n \in T
  <2>1. PICK a : Runs(a, n - 1)
    BY <1>2
  <2> DEFINE b == [i \in 0..n |-> IF i = n THEN InductWaiting(a[n - 1], ClassOrder[n]) ELSE a[i]]
  <2>2. b[0] = s
    BY <2>1, <1>0
  <2>3. ASSUME NEW i \in 1..n PROVE b[i] = InductWaiting(b[i - 1], ClassOrder[i])
    <3>1. i \in 0..n /\ i - 1 \in 0..n /\ i - 1 # n
      BY <1>0
    <3>2. b[i - 1] = a[i - 1]
      BY <3>1
    <3>3. CASE i = n
      BY <3>1, <3>2, <3>3
    <3>4. CASE i # n
      <4>1. i \in 1..n - 1
        BY <3>4, <1>0
      <4> QED BY <4>1, <3>1, <3>2, <3>4, <2>1
    <3> QED BY <3>3, <3>4
  <2>4. Runs(b, n)
    BY <2>2, <2>3
  <2> HIDE DEF b, Runs
  <2> QED BY <2>4, <1>0
<1>3. N \in T
  <2> HIDE DEF T
  <2> QED BY <1>0, <1>1, <1>2, UpTo
<1>4. PICK a : Runs(a, N)
  BY <1>3
<1> DEFINE b == [i \in 0..N |-> a[i]]
<1>5. b = Def(b)
  <2>1. ASSUME NEW i \in 0..N PROVE b[i] = Def(b)[i]
    BY <1>0, <1>4
  <2> QED BY <2>1
<1> DEFINE c == CHOOSE x : x = Def(x)
<1>6. c = Def(c)
  <2> HIDE DEF b, Def
  <2> QED BY <1>5
<1>7. job_class_induct_jobs(s) = c[N]
  BY <1>00
<1> HIDE DEF c
<1>8. c[0] = s /\ \A i \in 1..N : c[i] = InductWaiting(c[i - 1], ClassOrder[i])
  BY <1>6, <1>0
<1> QED BY <1>7, <1>8 DEF N

\* job_class_induct_jobs
LEMMA InductsJobs ==
  ASSUME NEW s, Settled(s, NoEvent), Quiet(s)
  PROVE  Seen(s, job_class_induct_jobs(s))
<1> DEFINE N == Len(ClassOrder)
<1>0. Core(s) /\ N \in Nat /\ \A i \in 1..N : ClassOrder[i] \in Class
  BY NameAssumption, LenProperties DEF Settled
<1>1. PICK a : /\ a[0] = s /\ a[N] = job_class_induct_jobs(s)
               /\ \A i \in 1..N : a[i] = InductWaiting(a[i - 1], ClassOrder[i])
  BY InductLoop
<1> DEFINE T == {i \in 0..N : Seen(s, a[i])}
<1> HIDE DEF N
<1>2. 0 \in T
  <2>1. a[0] = s /\ Moves(s, s, "none")
    BY <1>0, <1>1, SelfEases
  <2>2. Seen(s, s)
    BY <2>1 DEF Moves, Seen
  <2> QED BY <1>0, <2>1, <2>2
<1>3. \A i \in 1..N : i - 1 \in T => i \in T
  <2> SUFFICES ASSUME NEW i \in 1..N, i - 1 \in T PROVE i \in T
    OBVIOUS
  <2>1. Seen(s, a[i - 1]) /\ ClassOrder[i] \in Class /\ a[i] = InductWaiting(a[i - 1], ClassOrder[i])
    BY <1>0, <1>1
  <2>2. Seen(s, a[i])
    BY <1>0, <2>1, InductWaitingIs
  <2> QED BY <1>0, <2>2
<1>4. N \in T
  <2> HIDE DEF T
  <2> QED BY <1>0, <1>2, <1>3, UpTo
<1> QED BY <1>1, <1>4

\* The cgroup manager is there.
LEMMA ManagerUp ==
  ASSUME NEW s, Settled(s, NoEvent), Quiet(s)
  PROVE  LET r == [s EXCEPT !.cgroup_manager = TRUE]
         IN  Settled(r, NoEvent) /\ Quiet(r) /\ r.queue = s.queue
<1> DEFINE r == [s EXCEPT !.cgroup_manager = TRUE]
<1>0. Core(s) /\ s \in System
  BY DEF Settled, Core
<1>1. /\ r \in System /\ r.queue = s.queue /\ r.event = s.event /\ r.job = s.job /\ r.start_on = s.start_on
      /\ r.cgmanager_wait = s.cgmanager_wait /\ r.fault = s.fault /\ r.deleted = s.deleted
  BY <1>0 DEF System
<1> HIDE DEF r
<1>2. Core(r)
  BY <1>0, <1>1 DEF Core
<1>3. Settled(r, NoEvent)
  BY <1>1, <1>2 DEF Settled, Leaving
<1>4. Quiet(r)
  BY <1>1 DEF Quiet
<1> QED BY <1>1, <1>3, <1>4 DEF r

-----------------------------------------------------------------------------
(* Events that are over                                                    *)

\* What is left of the queue.
LEMMA RemoveAtIs ==
  ASSUME NEW q \in Seq(Ids), NEW k \in 1..Len(q)
  PROVE  LET a == RemoveAt(q, k)
         IN  /\ a \in Seq(Ids) /\ Len(a) = Len(q) - 1
             /\ \A m \in 1..(Len(q) - 1) : a[m] = IF m < k THEN q[m] ELSE q[m + 1]
<1> DEFINE L == Len(q)
           u == SubSeq(q, 1, k - 1)
           v == SubSeq(q, k + 1, L)
<1>0. L \in Nat /\ DOMAIN q = 1..L /\ k \in Nat /\ k >= 1 /\ k <= L /\ \A i \in 1..L : q[i] \in Ids
  BY LenProperties, ElementOfSeq
<1>1. u \in Seq(Ids) /\ Len(u) = k - 1 /\ \A i \in 1..(k - 1) : u[i] = q[i]
  <2>1. \A i \in 1..(k - 1) : q[i] \in Ids
    BY <1>0
  <2>2. 1 \in Int /\ k - 1 \in Int
    BY <1>0
  <2>3. /\ u \in Seq(Ids) /\ Len(u) = IF 1 <= k - 1 THEN k - 1 - 1 + 1 ELSE 0
        /\ \A i \in 1..(k - 1 - 1 + 1) : u[i] = q[1 + i - 1]
    BY <2>1, <2>2, SubSeqProperties
  <2> HIDE DEF u
  <2> QED BY <1>0, <2>3
<1>2. v \in Seq(Ids) /\ Len(v) = L - k /\ \A i \in 1..(L - k) : v[i] = q[k + i]
  <2>1. \A i \in (k + 1)..L : q[i] \in Ids
    BY <1>0
  <2>2. k + 1 \in Int /\ L \in Int
    BY <1>0
  <2>3. /\ v \in Seq(Ids) /\ Len(v) = IF k + 1 <= L THEN L - (k + 1) + 1 ELSE 0
        /\ \A i \in 1..(L - (k + 1) + 1) : v[i] = q[(k + 1) + i - 1]
    BY <2>1, <2>2, SubSeqProperties
  <2> HIDE DEF v
  <2> HIDE DEF L
  <2>4. L - (k + 1) + 1 = L - k /\ (IF k + 1 <= L THEN L - k ELSE 0) = L - k
    <3>1. \A a \in Nat : \A b \in Nat : b <= a =>
            a - (b + 1) + 1 = a - b /\ (IF b + 1 <= a THEN a - b ELSE 0) = a - b
      OBVIOUS
    <3> QED BY <1>0, <3>1
  <2>5. ASSUME NEW i \in 1..(L - k) PROVE v[i] = q[k + i]
    <3>1. (k + 1) + i - 1 = k + i /\ i \in 1..(L - (k + 1) + 1)
      <4>1. \A b \in Nat : \A n \in Int : (b + 1) + n - 1 = b + n
        OBVIOUS
      <4>2. L - k \in Int /\ i \in Int
        BY <1>0
      <4> QED BY <1>0, <2>4, <4>1, <4>2
    <3>2. v[i] = q[(k + 1) + i - 1]
      BY <2>3, <3>1
    <3> QED BY <3>1, <3>2
  <2>6. Len(v) = L - k
    BY <2>3, <2>4
  <2> QED BY <2>3, <2>5, <2>6
<1>3. RemoveAt(q, k) = u \o v
  BY DEF RemoveAt
<1> HIDE DEF u, v
<1>4. /\ u \o v \in Seq(Ids) /\ Len(u \o v) = Len(u) + Len(v)
      /\ \A i \in 1..Len(u) + Len(v) : (u \o v)[i] = IF i <= Len(u) THEN u[i] ELSE v[i - Len(u)]
  BY <1>1, <1>2, ConcatProperties
<1>5. ASSUME NEW m \in 1..(L - 1) PROVE (u \o v)[m] = IF m < k THEN q[m] ELSE q[m + 1]
  <2>1. m \in 1..Len(u) + Len(v)
    BY <1>0, <1>1, <1>2
  <2>2. CASE m < k
    <3>1. m <= Len(u) /\ m \in 1..(k - 1)
      BY <1>0, <1>1, <2>2
    <3> QED BY <1>1, <1>4, <2>1, <2>2, <3>1
  <2>3. CASE ~(m < k)
    <3>1. ~(m <= Len(u)) /\ m - Len(u) \in 1..(L - k) /\ k + (m - Len(u)) = m + 1
      BY <1>0, <1>1, <2>3
    <3> QED BY <1>2, <1>4, <2>1, <2>3, <3>1
  <2> QED BY <2>2, <2>3
<1>6. Len(u \o v) = L - 1
  BY <1>0, <1>1, <1>2, <1>4
<1> QED BY <1>3, <1>4, <1>5, <1>6

\* An event that leaves the queue.
LEMMA RemoveQueued ==
  ASSUME NEW q \in Seq(Ids), NEW ev, Queued(q, ev), NEW e \in DOMAIN ev, NEW ev2, DOMAIN ev2 = DOMAIN ev \ {e}
  PROVE  LET a == RemoveAt(q, CHOOSE k \in DOMAIN q : q[k] = e)
         IN  a \in Seq(Ids) /\ Queued(a, ev2) /\ Len(q) <= Len(a) + 1 /\ Len(a) \in Nat
<1> DEFINE L == Len(q)
           k == CHOOSE i \in DOMAIN q : q[i] = e
           a == RemoveAt(q, k)
<1>0. L \in Nat /\ DOMAIN q = 1..L
  BY LenProperties
<1>1. k \in 1..L /\ q[k] = e
  <2>1. \E i \in DOMAIN q : q[i] = e
    BY DEF Queued, Range
  <2> QED BY <1>0, <2>1
<1> HIDE DEF k
<1>2. /\ a \in Seq(Ids) /\ Len(a) = L - 1
      /\ \A m \in 1..(L - 1) : a[m] = IF m < k THEN q[m] ELSE q[m + 1]
  BY <1>1, RemoveAtIs
<1>3. DOMAIN a = 1..(L - 1)
  BY <1>2, LenProperties
<1> HIDE DEF a
<1>4. \A i \in 1..L : \A m \in 1..L : q[i] = q[m] => i = m
  BY <1>0 DEF Queued, IsInjective
<1> DEFINE Old(m) == IF m < k THEN m ELSE m + 1
<1>5. \A m \in 1..(L - 1) : Old(m) \in 1..L /\ Old(m) # k /\ a[m] = q[Old(m)]
  BY <1>0, <1>1, <1>2
<1>6. \A m \in 1..(L - 1) : \A n \in 1..(L - 1) : Old(m) = Old(n) => m = n
  BY <1>0, <1>1
<1>7. \A i \in 1..L : i # k => \E m \in 1..(L - 1) : Old(m) = i
  <2> SUFFICES ASSUME NEW i \in 1..L, i # k PROVE \E m \in 1..(L - 1) : Old(m) = i
    OBVIOUS
  <2>1. CASE i < k
    <3>1. i \in 1..(L - 1) /\ Old(i) = i
      BY <1>0, <1>1, <2>1
    <3> QED BY <3>1
  <2>2. CASE ~(i < k)
    <3>1. i - 1 \in 1..(L - 1) /\ Old(i - 1) = i
      BY <1>0, <1>1, <2>2
    <3> QED BY <3>1
  <2> QED BY <2>1, <2>2
<1> HIDE DEF Old
<1>8. IsInjective(a)
  BY <1>3, <1>4, <1>5, <1>6 DEF IsInjective
<1>9. Range(a) = DOMAIN ev \ {e}
  <2>1. DOMAIN ev = {q[i] : i \in 1..L}
    BY <1>0 DEF Queued, Range
  <2>2. ASSUME NEW z \in Range(a) PROVE z \in DOMAIN ev /\ z # e
    <3>1. PICK m \in 1..(L - 1) : z = a[m]
      BY <1>3 DEF Range
    <3> QED BY <1>1, <1>4, <1>5, <2>1, <3>1
  <2>3. ASSUME NEW z \in DOMAIN ev, z # e PROVE z \in Range(a)
    <3>1. PICK i \in 1..L : z = q[i]
      BY <2>1
    <3>2. PICK m \in 1..(L - 1) : Old(m) = i
      BY <1>1, <1>7, <2>3, <3>1
    <3>3. z = a[m]
      BY <1>5, <3>1, <3>2
    <3> QED BY <1>3, <3>3 DEF Range
  <2> QED BY <2>2, <2>3
<1>10. Len(a) \in Nat /\ L <= Len(a) + 1
  BY <1>0, <1>1, <1>2
<1> QED BY <1>2, <1>8, <1>9, <1>10 DEF Queued, a, k

\* Dequeue of an event that nothing refers to.
LEMMA DequeueIs ==
  ASSUME NEW s, NEW e \in DOMAIN s.event, Settled(s, e), s.event[e].blockers = 0
  PROVE  LET r == Dequeue(s, e)
         IN  /\ Settled(r, NoEvent) /\ Same(s, r) /\ r.job = s.job
             /\ e \notin DOMAIN r.event /\ Len(s.queue) <= Len(r.queue) + 1
<1> DEFINE a == RemoveAt(s.queue, CHOOSE k \in DOMAIN s.queue : s.queue[k] = e)
           D == DOMAIN s.event \ {e}
           ev == [i \in D |-> s.event[i]]
           r == Dequeue(s, e)
<1>0. /\ Core(s) /\ s \in System /\ s.queue \in Seq(Ids) /\ DOMAIN s.event \subseteq Ids
      /\ s.event \in [DOMAIN s.event -> EventRecord] /\ Queued(s.queue, s.event)
  BY Parts DEF Settled, Core
<1>1. ev \in [D -> EventRecord] /\ D \in SUBSET Ids /\ DOMAIN ev = D /\ \A i \in D : ev[i] = s.event[i]
  BY <1>0
<1>2. ev \in EventTable
  <2> HIDE DEF ev, D
  <2> QED BY <1>1 DEF EventTable
<1>3. a \in Seq(Ids) /\ Queued(a, ev) /\ Len(s.queue) <= Len(a) + 1
  <2>1. DOMAIN ev = DOMAIN s.event \ {e}
    OBVIOUS
  <2> HIDE DEF ev, D
  <2> QED BY <1>0, <2>1, RemoveQueued
<1>4. r = [s EXCEPT !.queue = a, !.event = ev]
  BY DEF Dequeue
<1> HIDE DEF a, ev
<1>5. /\ r \in System /\ r.queue = a /\ r.event = ev /\ r.job = s.job /\ Same(s, r)
      /\ r.fault = s.fault /\ r.deleted = s.deleted
  BY <1>0, <1>2, <1>3, <1>4 DEF System, Same
<1> HIDE DEF r
<1>6. r.start_on = s.start_on
  BY <1>5 DEF Same
<1>7. RefsTo(s.start_on, s.job, e) = {}
  BY <1>0, FS_EmptySet DEF Core, Counts
<1>8. Counts(r.event, r.start_on, r.job) /\ Live(DOMAIN r.event, r.start_on, r.job)
  BY <1>0, <1>1, <1>5, <1>6, <1>7 DEF Core, Counts, Live
<1>9. Core(r)
  BY <1>0, <1>3, <1>5, <1>6, <1>8 DEF Core
<1>10. Waits(r.event, r.job, NoEvent, "none")
  <2>0. Waits(s.event, s.job, e, "none") /\ NoEvent \notin Ids
    BY NoEventAssumption DEF Settled, Ids
  <2>1. \A f \in DOMAIN ev \ {NoEvent} : ev[f].blocking \in Class => s.job[ev[f].blocking].blocker = f
    BY <1>1, <2>0 DEF Waits
  <2>2. \A f \in DOMAIN ev : ev[f].name \in Blocked =>
          ev[f].blocking \in Class /\ ev[f].env[1].value = ev[f].blocking
    BY <1>1, <2>0 DEF Waits
  <2>3. ASSUME NEW c \in Class
        PROVE  IF s.job[c].stage \in Blocked
               THEN /\ s.job[c].blocker \in DOMAIN ev \ {NoEvent}
                    /\ ev[s.job[c].blocker].blocking = c /\ ev[s.job[c].blocker].name = s.job[c].stage
               ELSE s.job[c].blocker = NoEvent
    <3>1. CASE s.job[c].stage \in Blocked
      <4>1. /\ s.job[c].blocker \in D /\ s.event[s.job[c].blocker].blocking = c
            /\ s.event[s.job[c].blocker].name = s.job[c].stage
        BY <2>0, <3>1, NameAssumption DEF Waits
      <4> QED BY <1>0, <1>1, <2>0, <3>1, <4>1
    <3>2. CASE s.job[c].stage \notin Blocked
      BY <2>0, <3>2, NameAssumption DEF Waits
    <3> QED BY <3>1, <3>2
  <2> QED BY <1>5, <2>1, <2>2, <2>3, NameAssumption DEF Waits
<1>11. Settled(r, NoEvent)
  BY <1>5, <1>9, <1>10 DEF Settled, Leaving
<1> QED BY <1>1, <1>3, <1>5, <1>11 DEF r

\* Announce
LEMMA AnnounceIs ==
  ASSUME NEW s, NEW x, Settled(s, x), NEW v \in EventRecord
  PROVE  LET r == Announce(s, v)
         IN  Settled(r, x) /\ Same(s, r) /\ r.job = s.job /\ Grows(s, r) /\ Eases(s.event, r.event)
<1> DEFINE name == FailedName[v.name]
           n == NewEvent(s)
           u == event_new(s, name, v.env, "none")
           r == Announce(s, v)
<1>0. Core(s) /\ Waits(s.event, s.job, x, "none") /\ Stages(s.job, "none") /\ Leaving(s, x)
  BY DEF Settled
<1>1. CASE v.failed /\ v.name \in DOMAIN FailedName
  <2>1. r = u
    BY <1>1 DEF Announce
  <2>2. name \in AnyName /\ v.env \in AnyEnv /\ "none" \in Waiter /\ name \notin Blocked
    BY <1>1, NameAssumption DEF AnyName, EventRecord, Waiter, Blocked
  <2> HIDE DEF name
  <2>3. /\ n \in Ids /\ n \notin DOMAIN s.event
        /\ Core(u) /\ Same(s, u) /\ u.job = s.job /\ Grows(s, u) /\ Eases(s.event, u.event)
        /\ DOMAIN u.event = DOMAIN s.event \cup {n}
        /\ u.event[n].name = name /\ u.event[n].blocking = "none"
        /\ \A e \in DOMAIN s.event : u.event[e] = s.event[e]
    BY <1>0, <2>2, EventNewCore
  <2> HIDE DEF u, n, r
  <2>4. Waits(u.event, s.job, x, "none")
    <3>1. u.event[n].blocking \notin Class /\ u.event[n].name \notin Blocked
      BY <2>2, <2>3, NameAssumption
    <3> QED BY <1>0, <2>3, <3>1, WaitsNew
  <2>5. Leaving(u, x)
    BY <1>0, <2>3 DEF Leaving
  <2>6. Settled(u, x)
    BY <1>0, <2>3, <2>4, <2>5 DEF Settled
  <2> QED BY <2>1, <2>3, <2>6 DEF r
<1>2. CASE ~(v.failed /\ v.name \in DOMAIN FailedName)
  <2>1. r = s
    BY <1>2 DEF Announce
  <2>2. Moves(s, s, "none")
    BY <1>0, SelfEases
  <2> QED BY <2>1, <2>2 DEF Moves
<1> QED BY <1>1, <1>2

\* The job that waits for event e is let go.
LEMMA LetGo ==
  ASSUME NEW s, Settled(s, NoEvent), NEW e \in DOMAIN s.event, s.event[e].blocking \in Class
  PROVE  LET c == s.event[e].blocking
             r == [s EXCEPT !.job[c].blocker = NoEvent]
         IN  /\ Between(r, e, c) /\ Moves(s, r, c) /\ r.job[c].stage \in Blocked
<1> DEFINE c == s.event[e].blocking
           j == [s.job[c] EXCEPT !.blocker = NoEvent]
           r == WithJob(s, c, j)
           q == [s EXCEPT !.job[c].blocker = NoEvent]
<1>0. Core(s) /\ s.job[c] \in JobRecord /\ e \in Ids /\ e # NoEvent /\ DOMAIN s.event \subseteq Ids
  BY Parts, NoEventAssumption DEF Settled, Core, Ids
<1>1. Waits(s.event, s.job, NoEvent, "none") /\ Stages(s.job, "none")
  BY DEF Settled
<1>2. q = r
  BY DEF WithJob
<1>3. s.job[c].blocker = e /\ s.job[c].stage \in Blocked
  BY <1>0, <1>1, NameAssumption DEF Waits
<1>4. /\ j \in JobRecord /\ j.blocker = NoEvent /\ j.blocking = s.job[c].blocking
      /\ j.stage = s.job[c].stage /\ j.stop_on = s.job[c].stop_on
  BY <1>0, NoEventAssumption, Reblock
<1> HIDE DEF j, q, c
<1>5. /\ Core(r) /\ Same(s, r) /\ r.queue = s.queue /\ r.event = s.event
      /\ r.job = [s.job EXCEPT ![c] = j] /\ r.job[c] = j /\ \A k \in Class \ {c} : r.job[k] = s.job[k]
  BY <1>0, <1>4, CoreKept DEF c
<1> HIDE DEF r
<1>6. Moves(s, r, c)
  <2>1. Eases(s.event, r.event)
    BY <1>0, <1>5, SelfEases
  <2> QED BY <1>0, <1>4, <1>5, <2>1, MovesJob DEF c
<1>7. Waits(r.event, r.job, e, c)
  <2>1. ASSUME NEW f \in DOMAIN s.event \ {e}, s.event[f].blocking \in Class
        PROVE  r.job[s.event[f].blocking].blocker = f
    <3>1. s.job[s.event[f].blocking].blocker = f
      BY <1>0, <1>1, <2>1, NoEventAssumption DEF Waits, Ids
    <3>2. s.event[f].blocking # c
      BY <1>3, <3>1
    <3> QED BY <1>5, <2>1, <3>1, <3>2
  <2>2. ASSUME NEW k \in Class \ {c}
        PROVE  IF r.job[k].stage \in Blocked
               THEN /\ r.job[k].blocker \in DOMAIN s.event \ {e}
                    /\ s.event[r.job[k].blocker].blocking = k /\ s.event[r.job[k].blocker].name = r.job[k].stage
               ELSE r.job[k].blocker = NoEvent
    <3>1. r.job[k] = s.job[k] /\ k \in Class \ {"none"}
      BY <1>5, NameAssumption
    <3>2. CASE s.job[k].stage \in Blocked
      <4>1. /\ s.job[k].blocker \in DOMAIN s.event
            /\ s.event[s.job[k].blocker].blocking = k /\ s.event[s.job[k].blocker].name = s.job[k].stage
        BY <1>1, <3>1, <3>2 DEF Waits
      <4>2. s.job[k].blocker # e
        BY <4>1 DEF c
      <4> QED BY <3>1, <3>2, <4>1, <4>2
    <3>3. CASE s.job[k].stage \notin Blocked
      BY <1>1, <3>1, <3>3 DEF Waits
    <3> QED BY <3>2, <3>3
  <2>3. \A f \in DOMAIN s.event : s.event[f].name \in Blocked =>
          s.event[f].blocking \in Class /\ s.event[f].env[1].value = s.event[f].blocking
    BY <1>1 DEF Waits
  <2>4. r.job[c].blocker = NoEvent
    BY <1>4, <1>5
  <2> QED BY <1>5, <2>1, <2>2, <2>3, <2>4 DEF Waits
<1>8. Stages(r.job, c)
  BY <1>1, <1>5, NameAssumption DEF Stages
<1>9. Between(r, e, c)
  BY <1>5, <1>7, <1>8 DEF Between, Leaving
<1>10. r.job[c].stage \in Blocked
  BY <1>3, <1>4, <1>5
<1> QED BY <1>2, <1>6, <1>9, <1>10 DEF q, c

\* A job that moves leaves no condition TRUE.
LEMMA QuietMoves ==
  ASSUME NEW s, NEW r, NEW c \in Class, Moves(s, r, c), Quiet(s)
  PROVE  Quiet(r)
<1>1. Same(s, r) /\ \A k \in Class \ {c} : r.job[k] = s.job[k]
  BY DEF Moves
<1>2. StartsUnmet(r.start_on, r.cgmanager_wait, "none")
  BY <1>1 DEF Quiet, Same
<1>3. \A k \in Class : StopUnmet(k, s.job[k].stop_on)
  BY NameAssumption DEF Quiet, StopsUnmet
<1>4. StopUnmet(c, r.job[c].stop_on)
  <2>1. CASE r.job[c].stop_on = s.job[c].stop_on
    BY <1>3, <2>1
  <2>2. CASE r.job[c].stop_on = event_operator_new(ClassOf[c].stop_on)
    <3>1. Bare(ClassOf[c].stop_on, event_operator_new(ClassOf[c].stop_on))
      BY TreesAre, NewIs
    <3> QED BY <2>2, <3>1 DEF Bare, StopUnmet
  <2> QED BY <2>1, <2>2 DEF Moves
<1>5. StopsUnmet(r.job, "none")
  BY <1>1, <1>3, <1>4 DEF StopsUnmet
<1> QED BY <1>2, <1>5 DEF Quiet

LEMMA QuietSame ==
  ASSUME NEW s, NEW r, Same(s, r), r.job = s.job, Quiet(s)
  PROVE  Quiet(r)
BY DEF Quiet, Same

\* event_finished: the job that waits, if any, goes on.
LEMMA Woken ==
  ASSUME NEW s, Settled(s, NoEvent), Quiet(s), NEW e \in DOMAIN s.event
  PROVE  LET c == s.event[e].blocking
             w == IF c \in Class THEN Advance([s EXCEPT !.job[c].blocker = NoEvent], c) ELSE s
         IN  Settled(w, e) /\ Quiet(w) /\ Grows(s, w) /\ Eases(s.event, w.event)
<1> DEFINE c == s.event[e].blocking
           g == [s EXCEPT !.job[c].blocker = NoEvent]
           w == IF c \in Class THEN Advance(g, c) ELSE s
<1>0. Core(s) /\ Waits(s.event, s.job, NoEvent, "none") /\ Stages(s.job, "none")
  BY DEF Settled
<1>1. CASE c \in Class
  <2>1. Between(g, e, c) /\ Moves(s, g, c) /\ g.job[c].stage \in Blocked
    BY <1>1, LetGo
  <2>2. w = Advance(g, c)
    BY <1>1
  <2> HIDE DEF w, g, c
  <2>3. ~(g.job[c].stage = "waiting" /\ g.job[c].goal = "stop")
    BY <2>1 DEF Blocked
  <2>4. Settled(w, e) /\ Moves(g, w, c)
    BY <1>1, <2>1, <2>2, <2>3, AdvanceIs
  <2>5. Core(g) /\ Core(w)
    BY <2>1, <2>4 DEF Between, Settled
  <2>6. Moves(s, w, c)
    BY <1>0, <2>1, <2>4, <2>5, MovesOn
  <2>7. Quiet(w)
    BY <1>1, <2>6, QuietMoves
  <2>8. Settled(w, e) /\ Quiet(w) /\ Grows(s, w) /\ Eases(s.event, w.event)
    BY <2>4, <2>6, <2>7 DEF Moves
  <2> QED BY <2>8 DEF w, g, c
<1>2. CASE c \notin Class
  <2>1. w = s
    BY <1>2
  <2>2. \A k \in Class : s.job[k].blocker # e
    <3> SUFFICES ASSUME NEW k \in Class, s.job[k].blocker = e PROVE FALSE
      OBVIOUS
    <3>1. e # NoEvent
      BY <1>0, Parts, NoEventAssumption DEF Core, Ids
    <3>2. k \in Class \ {"none"}
      BY NameAssumption
    <3>3. s.event[s.job[k].blocker].blocking = k
      BY <1>0, <3>1, <3>2 DEF Waits
    <3> QED BY <1>2, <3>3
  <2>3. Waits(s.event, s.job, e, "none")
    <3>1. \A f \in DOMAIN s.event \ {e} : s.event[f].blocking \in Class => s.job[s.event[f].blocking].blocker = f
      <4>1. DOMAIN s.event \subseteq Ids
        BY <1>0, Parts DEF Core
      <4> QED BY <1>0, <4>1, NoEventAssumption DEF Waits, Ids
    <3>2. \A f \in DOMAIN s.event : s.event[f].name \in Blocked =>
            s.event[f].blocking \in Class /\ s.event[f].env[1].value = s.event[f].blocking
      BY <1>0 DEF Waits
    <3>3. ASSUME NEW k \in Class \ {"none"}
          PROVE  IF s.job[k].stage \in Blocked
                 THEN /\ s.job[k].blocker \in DOMAIN s.event \ {e}
                      /\ s.event[s.job[k].blocker].blocking = k /\ s.event[s.job[k].blocker].name = s.job[k].stage
                 ELSE s.job[k].blocker = NoEvent
      BY <1>0, <2>2 DEF Waits
    <3> QED BY <3>1, <3>2, <3>3, NameAssumption DEF Waits
  <2>4. Settled(s, e)
    BY <1>0, <2>3 DEF Settled, Leaving
  <2>5. Moves(s, s, "none")
    BY <1>0, SelfEases
  <2> QED BY <2>1, <2>4, <2>5 DEF Moves
<1> QED BY <1>1, <1>2

\* event_finished
LEMMA FinishedEvent ==
  ASSUME NEW s, Settled(s, NoEvent), Quiet(s), NEW e \in DOMAIN s.event, s.event[e].blockers = 0
  PROVE  LET r == event_finished(s, e)
         IN  /\ Settled(r, NoEvent) /\ Quiet(r) /\ e \notin DOMAIN r.event
             /\ Len(s.queue) <= Len(r.queue) + 1
<1> DEFINE c == s.event[e].blocking
           w == IF c \in Class THEN Advance([s EXCEPT !.job[c].blocker = NoEvent], c) ELSE s
           a == Announce(w, s.event[e])
           r == event_finished(s, e)
<1>0. Core(s) /\ s.event[e] \in EventRecord
  BY Parts DEF Settled, Core
<1>1. Settled(w, e) /\ Quiet(w) /\ Grows(s, w) /\ Eases(s.event, w.event)
  BY Woken
<1>2. r = Dequeue(a, e)
  BY DEF event_finished
<1> HIDE DEF w, r, c
<1>3. Settled(a, e) /\ Same(w, a) /\ a.job = w.job /\ Grows(w, a) /\ Eases(w.event, a.event)
  BY <1>0, <1>1, AnnounceIs
<1> HIDE DEF a
<1>4. Quiet(a)
  BY <1>1, <1>3, QuietSame
<1>5. Core(w) /\ Core(a)
  BY <1>1, <1>3 DEF Settled
<1>6. e \in DOMAIN a.event /\ a.event[e].blockers = 0
  <2>1. e \in DOMAIN w.event /\ w.event[e].blockers <= 0
    BY <1>1 DEF Eases
  <2>2. e \in DOMAIN a.event /\ a.event[e].blockers <= w.event[e].blockers
    BY <1>3, <2>1 DEF Eases
  <2>3. a.event[e].blockers \in Nat /\ w.event[e].blockers \in Nat
    BY <1>5, <2>1, <2>2, Parts DEF Core, EventRecord
  <2> QED BY <2>1, <2>2, <2>3
<1>7. /\ Settled(r, NoEvent) /\ Same(a, r) /\ r.job = a.job
      /\ e \notin DOMAIN r.event /\ Len(a.queue) <= Len(r.queue) + 1
  BY <1>2, <1>3, <1>6, DequeueIs
<1>8. Quiet(r)
  BY <1>4, <1>7, QuietSame
<1>9. Len(s.queue) <= Len(r.queue) + 1
  <2>1. Len(s.queue) \in Nat /\ Len(w.queue) \in Nat /\ Len(a.queue) \in Nat /\ Len(r.queue) \in Nat
    BY <1>0, <1>5, <1>7, Parts DEF Core, Settled
  <2>2. Len(s.queue) <= Len(w.queue) /\ Len(w.queue) <= Len(a.queue) /\ Len(a.queue) <= Len(r.queue) + 1
    BY <1>1, <1>3, <1>7 DEF Grows
  <2>3. \A i, k, m, n \in Nat : i <= k /\ k <= m /\ m <= n + 1 => i <= n + 1
    OBVIOUS
  <2> QED BY <2>1, <2>2, <2>3
<1> QED BY <1>7, <1>8, <1>9 DEF r

\* An event that is looked at for the first time.
LEMMA BeginsHandling ==
  ASSUME NEW s, Settled(s, NoEvent), Quiet(s), NEW e \in DOMAIN s.event
  PROVE  LET r == [s EXCEPT !.event[e].progress = "handling"]
         IN  Settled(r, NoEvent) /\ Quiet(r) /\ r.queue = s.queue /\ DOMAIN r.event = DOMAIN s.event
<1> DEFINE v == [s.event[e] EXCEPT !.progress = "handling"]
           ev == [s.event EXCEPT ![e] = v]
           r == [s EXCEPT !.event[e].progress = "handling"]
<1>0. Core(s) /\ s \in System /\ s.event \in [DOMAIN s.event -> EventRecord] /\ DOMAIN s.event \subseteq Ids
  BY Parts DEF Settled, Core
<1>1. s.event[e] \in EventRecord
  BY <1>0
<1>2. v \in EventRecord /\ v.name = s.event[e].name /\ v.env = s.event[e].env /\ v.blocking = s.event[e].blocking
      /\ v.blockers = s.event[e].blockers
  BY <1>1 DEF EventRecord
<1>3. r = WithEvents(s, ev)
  BY DEF WithEvents
<1> HIDE DEF v
<1>4. /\ DOMAIN ev = DOMAIN s.event /\ ev \in [DOMAIN s.event -> EventRecord] /\ ev \in EventTable
      /\ Alike(s.event, ev) /\ \A f \in DOMAIN ev : ev[f].blockers = s.event[f].blockers
  <2>1. DOMAIN ev = DOMAIN s.event /\ ev[e] = v /\ \A f \in DOMAIN s.event \ {e} : ev[f] = s.event[f]
    BY <1>0
  <2>2. ev \in [DOMAIN s.event -> EventRecord]
    BY <1>0, <1>2
  <2> HIDE DEF ev
  <2>3. ev \in EventTable
    BY <1>0, <2>2 DEF EventTable
  <2> QED BY <1>2, <2>1, <2>2, <2>3 DEF Alike
<1> HIDE DEF ev
<1>5. r \in System /\ r.event = ev /\ r.queue = s.queue /\ r.job = s.job /\ Same(s, r)
      /\ r.fault = s.fault /\ r.deleted = s.deleted
  BY <1>0, <1>3, <1>4 DEF WithEvents, System, Same
<1> HIDE DEF r
<1>6. r.start_on = s.start_on
  BY <1>5 DEF Same
<1>7. Core(r)
  BY <1>0, <1>4, <1>5, <1>6 DEF Core, Counts, Queued
<1>8. Waits(r.event, r.job, NoEvent, "none")
  <2>1. Waits(s.event, s.job, NoEvent, "none") /\ Alike(s.event, r.event)
    BY <1>4, <1>5 DEF Settled
  <2> QED BY <1>5, <2>1, WaitsAlike
<1>9. Settled(r, NoEvent)
  BY <1>5, <1>7, <1>8 DEF Settled, Leaving
<1> QED BY <1>4, <1>5, <1>9, QuietSame DEF r

\* The body of the loop of event_poll.
LEMMA PollsOne ==
  ASSUME AnyEventStarts, NEW s, Settled(s, NoEvent), Quiet(s), NEW e \in DOMAIN s.event
  PROVE  LET r == PollOne(s, e)
         IN  /\ Settled(r, NoEvent) /\ Quiet(r)
             /\ IF e \in DOMAIN r.event THEN Len(s.queue) <= Len(r.queue) ELSE Len(s.queue) <= Len(r.queue) + 1
<1> DEFINE p == [s EXCEPT !.event[e].progress = "handling"]
           h == IF s.event[e].progress = "pending" THEN event_pending_handle_jobs(p, e) ELSE s
           r == PollOne(s, e)
<1>0. Core(s)
  BY DEF Settled
<1>1. Settled(h, NoEvent) /\ Quiet(h) /\ Grows(s, h)
  <2>1. CASE s.event[e].progress = "pending"
    <3>1. Settled(p, NoEvent) /\ Quiet(p) /\ p.queue = s.queue /\ DOMAIN p.event = DOMAIN s.event
      BY BeginsHandling
    <3>2. h = event_pending_handle_jobs(p, e)
      BY <2>1
    <3> HIDE DEF p, h
    <3>3. Seen(p, h)
      BY <3>1, <3>2, HandlesJobs
    <3> QED BY <3>1, <3>3 DEF Seen, Grows
  <2>2. CASE s.event[e].progress # "pending"
    <3>1. h = s
      BY <2>2
    <3>2. Moves(s, s, "none")
      BY <1>0, SelfEases
    <3> QED BY <3>1, <3>2 DEF Moves
  <2> QED BY <2>1, <2>2
<1>2. r = IF h.event[e].blockers > 0 THEN h ELSE event_finished(h, e)
  BY DEF PollOne
<1> HIDE DEF h, r
<1>3. Core(h) /\ e \in DOMAIN h.event
  BY <1>1 DEF Settled, Grows
<1>4. h.event[e].blockers \in Nat /\ Len(s.queue) \in Nat /\ Len(h.queue) \in Nat
  BY <1>0, <1>3, Parts DEF Core, EventRecord
<1>5. CASE h.event[e].blockers > 0
  BY <1>1, <1>2, <1>3, <1>5 DEF Grows, r
<1>6. CASE ~(h.event[e].blockers > 0)
  <2>1. r = event_finished(h, e) /\ h.event[e].blockers = 0
    BY <1>2, <1>4, <1>6
  <2>2. /\ Settled(r, NoEvent) /\ Quiet(r) /\ e \notin DOMAIN r.event
        /\ Len(h.queue) <= Len(r.queue) + 1
    BY <1>1, <1>3, <2>1, FinishedEvent
  <2>3. Len(r.queue) \in Nat
    BY <2>2, Parts DEF Settled, Core
  <2>4. Len(s.queue) <= Len(r.queue) + 1
    BY <1>1, <1>4, <2>2, <2>3 DEF Grows
  <2> QED BY <2>2, <2>4 DEF r
<1> QED BY <1>5, <1>6

-----------------------------------------------------------------------------
(* What is asked of a job, and what its processes do                       *)

\* The daemon between two handlers.
Calm(s) == Settled(s, NoEvent) /\ Quiet(s)

LEMMA CalmIsSound ==
  ASSUME NEW s
  PROVE  Sound(s) <=> Calm(s)
BY DEF Sound, Calm, Settled, Quiet, Leaving

\* Whatever a job does leaves the daemon calm, once it is settled.
LEMMA CalmMoves ==
  ASSUME NEW s, Calm(s), NEW c \in Class, NEW r, Settled(r, NoEvent), Moves(s, r, c)
  PROVE  Calm(r)
BY QuietMoves DEF Calm

\* Another caller.
LEMMA Recall ==
  ASSUME NEW j \in JobRecord, NEW b \in BOOLEAN
  PROVE  LET n == [j EXCEPT !.caller = b]
         IN  /\ n \in JobRecord /\ n.blocking = j.blocking /\ n.main = j.main
             /\ n.goal = j.goal /\ n.blocker = j.blocker /\ n.stop_on = j.stop_on /\ n.stage = j.stage
BY DEF JobRecord

\* The caller of a command takes the place of those who waited.
LEMMA CallerSet ==
  ASSUME NEW s, Calm(s), NEW c \in Class, NEW wait \in BOOLEAN
  PROVE  LET r == [job_finished(s, c, FALSE) EXCEPT !.job[c].caller = wait]
         IN  /\ Busy(r, NoEvent, c) /\ Moves(s, r, c)
             /\ r.job[c].goal = s.job[c].goal /\ r.job[c].stage = s.job[c].stage
<1> DEFINE f == job_finished(s, c, FALSE)
           j == [f.job[c] EXCEPT !.caller = wait]
           r == [f EXCEPT !.job[c].caller = wait]
<1>0. Busy(s, NoEvent, c)
  BY SettledIsBusy DEF Calm
<1>1. /\ Busy(f, NoEvent, c) /\ Moves(s, f, c) /\ f.job[c] = Finished(s.job[c])
      /\ f.job[c].goal = s.job[c].goal
  BY <1>0, BusyFinished DEF Keeps
<1>2. r = WithJob(f, c, j)
  BY DEF WithJob
<1> HIDE DEF f
<1>3. Core(s) /\ Core(f) /\ f.job[c] \in JobRecord /\ s.job[c] \in JobRecord
  BY <1>0, <1>1, Parts DEF Busy, Core
<1>4. /\ j \in JobRecord /\ j.blocking = f.job[c].blocking /\ j.goal = f.job[c].goal
      /\ j.blocker = f.job[c].blocker /\ j.stop_on = f.job[c].stop_on /\ j.stage = f.job[c].stage
  BY <1>3, Recall
<1> HIDE DEF j, r
<1>5. Busy(r, NoEvent, c) /\ Moves(f, r, c) /\ r.job[c] = j
  BY <1>1, <1>2, <1>4, RejobBusy
<1>6. Core(r)
  BY <1>5 DEF Busy
<1>7. Moves(s, r, c)
  BY <1>1, <1>3, <1>5, <1>6, MovesOn
<1>8. r.job[c].goal = s.job[c].goal /\ r.job[c].stage = s.job[c].stage
  BY <1>1, <1>3, <1>4, <1>5, FinishedIs
<1> QED BY <1>5, <1>7, <1>8 DEF r, f

\* The stages and the goals of a calm daemon.
LEMMA CalmStages ==
  ASSUME NEW s, Calm(s), NEW c \in Class
  PROVE  /\ Core(s) /\ Busy(s, NoEvent, c) /\ Staged(c, s.job[c]) /\ s.job[c] \in JobRecord
         /\ s.job[c].goal \in {"start", "stop"} /\ s.job[c].stage \in Stage
         /\ s.job[c].stage = "running" => s.job[c].goal = "start"
<1>1. Core(s) /\ Busy(s, NoEvent, c) /\ Staged(c, s.job[c])
  BY SettledIsBusy DEF Calm, Settled
<1>2. s.job[c] \in JobRecord
  BY <1>1, Parts DEF Core
<1> QED BY <1>1, <1>2 DEF Staged, JobRecord

\* job_class_start
LEMMA StartCommand ==
  ASSUME NEW s, Calm(s), NEW c \in Class, NEW wait \in BOOLEAN, s.job[c].goal # "start"
  PROVE  Calm(job_change_goal([job_finished(s, c, FALSE) EXCEPT !.job[c].caller = wait], c, "start"))
<1> DEFINE f == [job_finished(s, c, FALSE) EXCEPT !.job[c].caller = wait]
           r == job_change_goal(f, c, "start")
<1>1. /\ Busy(f, NoEvent, c) /\ Moves(s, f, c)
      /\ f.job[c].goal = s.job[c].goal /\ f.job[c].stage = s.job[c].stage
  BY CallerSet
<1> HIDE DEF f
<1>2. f.job[c].goal = "stop" /\ f.job[c].stage # "running"
  BY <1>1, CalmStages
<1>3. Settled(r, NoEvent) /\ Moves(f, r, c)
  BY <1>1, <1>2, GoalStart
<1> HIDE DEF r
<1>4. Core(s) /\ Core(f) /\ Core(r)
  BY <1>1, <1>3 DEF Calm, Settled, Busy
<1>5. Moves(s, r, c)
  BY <1>1, <1>3, <1>4, MovesOn
<1>6. Calm(r)
  BY <1>3, <1>5, CalmMoves
<1> QED BY <1>6 DEF r, f

\* job_stop
LEMMA StopCommand ==
  ASSUME NEW s, Calm(s), NEW c \in Class, NEW wait \in BOOLEAN, s.job[c].stage # "waiting"
  PROVE  LET r == job_change_goal([job_finished(s, c, FALSE) EXCEPT !.job[c].caller = wait], c, "stop")
         IN  Calm(r) /\ r.job[c].goal = "stop"
<1> DEFINE f == [job_finished(s, c, FALSE) EXCEPT !.job[c].caller = wait]
           r == job_change_goal(f, c, "stop")
<1>1. /\ Busy(f, NoEvent, c) /\ Moves(s, f, c)
      /\ f.job[c].goal = s.job[c].goal /\ f.job[c].stage = s.job[c].stage
  BY CallerSet
<1> HIDE DEF f
<1>2. f.job[c].stage # "waiting" /\ (f.job[c].stage = "running" => f.job[c].goal = "start")
  BY <1>1, CalmStages
<1>3. Settled(r, NoEvent) /\ Moves(f, r, c) /\ r.job[c].goal = "stop"
  BY <1>1, <1>2, GoalStop
<1> HIDE DEF r
<1>4. Core(s) /\ Core(f) /\ Core(r)
  BY <1>1, <1>3 DEF Calm, Settled, Busy
<1>5. Moves(s, r, c)
  BY <1>1, <1>3, <1>4, MovesOn
<1>6. Calm(r)
  BY <1>3, <1>5, CalmMoves
<1> QED BY <1>3, <1>6 DEF r, f

\* job_restart: what was told to stop is told to start.
LEMMA StartAgain ==
  ASSUME NEW s, Calm(s), NEW c \in Class, s.job[c].goal = "stop"
  PROVE  Calm(job_change_goal(s, c, "start"))
<1> DEFINE r == job_change_goal(s, c, "start")
<1>1. Busy(s, NoEvent, c) /\ s.job[c].stage # "running"
  BY CalmStages
<1>2. Settled(r, NoEvent) /\ Moves(s, r, c)
  BY <1>1, GoalStart
<1> HIDE DEF r
<1>3. Calm(r)
  BY <1>2, CalmMoves
<1> QED BY <1>3 DEF r

\* A job that waits for none of its events goes on.
LEMMA GoesOn ==
  ASSUME NEW s, Calm(s), NEW c \in Class, s.job[c].stage \in {"spawning", "pre_stop", "ending"}
  PROVE  Calm(Advance(s, c))
<1> DEFINE r == Advance(s, c)
<1>1. Between(s, NoEvent, c)
  BY CalmStages, BusyIsBetween DEF Blocked
<1>2. Settled(r, NoEvent) /\ Moves(s, r, c)
  BY <1>1, AdvanceIs
<1> HIDE DEF r
<1>3. Calm(r)
  BY <1>2, CalmMoves
<1> QED BY <1>3 DEF r

\* A job that fails.
LEMMA FailsJob ==
  ASSUME NEW s, Calm(s), NEW c \in Class, s.job[c].stage # "waiting"
  PROVE  LET r == FailJob(s, c)
         IN  Calm(r) /\ (s.job[c].stage # "running" => r.job[c].stage = s.job[c].stage)
<1> DEFINE r == FailJob(s, c)
<1>1. Busy(s, NoEvent, c) /\ (s.job[c].stage = "running" => s.job[c].goal = "start")
  BY CalmStages
<1>2. Settled(r, NoEvent) /\ Moves(s, r, c) /\ (s.job[c].stage # "running" => r.job[c].stage = s.job[c].stage)
  BY <1>1, FailJobIs
<1> HIDE DEF r
<1>3. Calm(r)
  BY <1>2, CalmMoves
<1> QED BY <1>2, <1>3 DEF r

\* A job that is told to stop.
LEMMA StopsJob ==
  ASSUME NEW s, Calm(s), NEW c \in Class, s.job[c].stage # "waiting"
  PROVE  Calm(job_change_goal(s, c, "stop"))
<1> DEFINE r == job_change_goal(s, c, "stop")
<1>1. Busy(s, NoEvent, c) /\ (s.job[c].stage = "running" => s.job[c].goal = "start")
  BY CalmStages
<1>2. Settled(r, NoEvent) /\ Moves(s, r, c)
  BY <1>1, GoalStop
<1> HIDE DEF r
<1>3. Calm(r)
  BY <1>2, CalmMoves
<1> QED BY <1>3 DEF r

\* The main process is gone.
LEMMA MainGone ==
  ASSUME NEW s, Calm(s), NEW c \in Class
  PROVE  LET r == [s EXCEPT !.job[c].main = FALSE]
         IN  Calm(r) /\ r.job[c].stage = s.job[c].stage /\ r.job[c].goal = s.job[c].goal
<1> DEFINE no == FALSE
           j == [s.job[c] EXCEPT !.main = no]
           r == [s EXCEPT !.job[c].main = no]
<1>1. Busy(s, NoEvent, c) /\ Staged(c, s.job[c]) /\ s.job[c] \in JobRecord /\ no \in BOOLEAN
  BY CalmStages
<1> HIDE DEF no
<1>2. /\ j \in JobRecord /\ j.blocking = s.job[c].blocking /\ j.caller = s.job[c].caller
      /\ j.goal = s.job[c].goal /\ j.blocker = s.job[c].blocker /\ j.stop_on = s.job[c].stop_on
      /\ j.stage = s.job[c].stage
  BY <1>1, Remain
<1>3. r = WithJob(s, c, j)
  BY DEF WithJob
<1> HIDE DEF j, r
<1>4. Busy(r, NoEvent, c) /\ Moves(s, r, c) /\ r.job[c] = j
  BY <1>1, <1>2, <1>3, RejobBusy
<1>5. Staged(c, r.job[c])
  BY <1>1, <1>2, <1>4 DEF Staged, Rests
<1>6. Settled(r, NoEvent)
  BY <1>4, <1>5, Told
<1>7. Calm(r)
  BY <1>4, <1>6, CalmMoves
<1> QED BY <1>2, <1>4, <1>7 DEF r, no

\* EmitEvent
LEMMA EmitsCalm ==
  ASSUME OwnNames, NEW s, Calm(s), NEW x \in Stimuli, NEW waiter \in {"none", "emit"}
  PROVE  Calm(event_new(s, x.name, x.env, waiter))
<1> DEFINE n == NewEvent(s)
           u == event_new(s, x.name, x.env, waiter)
<1>0. Core(s) /\ Waits(s.event, s.job, NoEvent, "none") /\ Stages(s.job, "none") /\ Quiet(s)
  BY DEF Calm, Settled
<1>1. x.name \in AnyName /\ x.env \in AnyEnv /\ waiter \in Waiter /\ x.name \notin Blocked /\ waiter \notin Class
  BY NameAssumption DEF OwnNames, AnyName, AnyEnv, Waiter, Blocked
<1>2. /\ n \in Ids /\ n \notin DOMAIN s.event
      /\ Core(u) /\ Same(s, u) /\ u.job = s.job
      /\ DOMAIN u.event = DOMAIN s.event \cup {n}
      /\ u.event[n].name = x.name /\ u.event[n].blocking = waiter
      /\ \A e \in DOMAIN s.event : u.event[e] = s.event[e]
  BY <1>0, <1>1, EventNewCore
<1> HIDE DEF n, u
<1>3. Waits(u.event, s.job, NoEvent, "none")
  <2>1. u.event[n].blocking \notin Class /\ u.event[n].name \notin Blocked
    BY <1>1, <1>2
  <2> QED BY <1>0, <1>2, <2>1, WaitsNew
<1>4. Settled(u, NoEvent)
  BY <1>0, <1>2, <1>3 DEF Settled, Leaving
<1>5. Quiet(u)
  BY <1>0, <1>2, QuietSame
<1> QED BY <1>4, <1>5 DEF Calm, u

-----------------------------------------------------------------------------
(* The steps of the daemon                                                 *)

\* A step outside event_poll keeps the invariant if it leaves the daemon calm.
LEMMA IdleStep ==
  ASSUME QueueInv, Idle, poll' = poll, Calm(sys')
  PROVE  QueueInv'
<1>1. Sound(sys')
  BY CalmIsSound
<1>2. Len(sys'.queue) \in Nat
  BY Parts DEF Calm, Settled, Core
<1>3. poll \in [pos : 0..(Len(sys'.queue) + 1), again : BOOLEAN]
  <2>1. poll \in [pos : 0..(Len(sys.queue) + 1), again : BOOLEAN] /\ poll.pos = 0
    BY DEF QueueInv, Idle
  <2>2. 0 \in 0..(Len(sys'.queue) + 1)
    BY <1>2
  <2> QED BY <2>1, <2>2
<1> QED BY <1>1, <1>3 DEF QueueInv

\* The daemon starts with no event and no instance.
LEMMA InitCalm ==
  Init => QueueInv
<1> SUFFICES ASSUME Init PROVE QueueInv
  OBVIOUS
<1> DEFINE off == [c \in Class |-> FALSE]
           starts == [c \in Class |-> event_operator_new(ClassOf[c].start_on)]
           jobs == [c \in Class |-> NoJob(c)]
<1>1. /\ sys = [queue |-> << >>, event |-> << >>, start_on |-> starts, cgmanager_wait |-> off, deleted |-> off,
                job |-> jobs, cgroup_manager |-> FALSE, fault |-> "none"]
      /\ poll = [pos |-> 0, again |-> FALSE]
  BY DEF Init
<1>2. ASSUME NEW c \in Class
      PROVE  /\ Grown(ClassOf[c].start_on, event_operator_new(ClassOf[c].start_on))
             /\ Bare(ClassOf[c].start_on, event_operator_new(ClassOf[c].start_on))
             /\ Grown(ClassOf[c].stop_on, event_operator_new(ClassOf[c].stop_on))
             /\ Bare(ClassOf[c].stop_on, event_operator_new(ClassOf[c].stop_on))
             /\ event_operator_new(ClassOf[c].start_on) \in Operator
  <2>1. Tree(ClassOf[c].start_on) /\ Tree(ClassOf[c].stop_on)
    BY TreesAre
  <2> QED BY <2>1, NewIs, GrownType
<1>3. starts \in [Class -> Operator] /\ jobs \in [Class -> JobRecord] /\ off \in [Class -> BOOLEAN]
  BY <1>2, NoJobIs
<1>4. << >> \in EventTable /\ << >> \in Seq(Ids) /\ DOMAIN << >> = {} /\ Len(<< >>) = 0
  <2>1. << >> \in [{} -> EventRecord] /\ {} \in SUBSET Ids
    OBVIOUS
  <2> QED BY <2>1 DEF EventTable
<1>5. \A c \in Class : /\ starts[c] = event_operator_new(ClassOf[c].start_on) /\ jobs[c] = NoJob(c) /\ off[c] = FALSE
                       /\ jobs[c].stop_on = event_operator_new(ClassOf[c].stop_on) /\ jobs[c].blocking = {}
                       /\ jobs[c].blocker = NoEvent /\ jobs[c].stage = "waiting" /\ Staged(c, jobs[c])
  BY NoJobIs
<1> HIDE DEF starts, jobs
<1>6. /\ sys \in System /\ sys.queue = << >> /\ sys.event = << >> /\ sys.start_on = starts
      /\ sys.cgmanager_wait = off /\ sys.deleted = off /\ sys.job = jobs /\ sys.fault = "none"
  <2> HIDE DEF off
  <2> QED BY <1>1, <1>3, <1>4 DEF System
<1>7. Queued(<< >>, << >>)
  BY <1>4 DEF Queued, IsInjective, Range
<1>8. Trees(starts, jobs) /\ Listed(jobs)
  BY <1>2, <1>5, FS_EmptySet DEF Trees, Listed
<1>9. ASSUME NEW e \in Ids PROVE RefsTo(starts, jobs, e) = {}
  <2>1. ASSUME NEW c \in Class PROVE StartRefs(starts, c, e) = {} /\ StopRefs(jobs, c, e) = {} /\ BlockRefs(jobs, c, e) = {}
    <3>1. e # NoEvent
      BY NoEventAssumption DEF Ids
    <3>2. Holding(ClassOf[c].start_on, starts[c], e) = {}
      BY <1>2, <1>5, <3>1 DEF Holding, Bare, Leaves
    <3>3. Holding(ClassOf[c].stop_on, jobs[c].stop_on, e) = {}
      BY <1>2, <1>5, <3>1 DEF Holding, Bare, Leaves
    <3>4. Naming(jobs[c].blocking, e) = {}
      BY <1>5 DEF Naming
    <3> QED BY <3>2, <3>3, <3>4 DEF StartRefs, StopRefs, BlockRefs, Tags, Entries
  <2> QED BY <2>1 DEF RefsTo
<1>10. Counts(<< >>, starts, jobs) /\ Live({}, starts, jobs)
  BY <1>4, <1>9 DEF Counts, Live
<1>11. Core(sys)
  BY <1>4, <1>6, <1>7, <1>8, <1>10 DEF Core
<1>12. Waits(<< >>, jobs, NoEvent, "none")
  BY <1>4, <1>5, NameAssumption DEF Waits, Blocked
<1>13. Stages(jobs, "none") /\ StopsUnmet(jobs, "none")
  BY <1>2, <1>5 DEF Stages, StopsUnmet, StopUnmet, Bare
<1>14. StartsUnmet(starts, off, "none")
  BY <1>2, <1>5 DEF StartsUnmet, StartUnmet, Bare
<1>15. Sound(sys)
  BY <1>6, <1>11, <1>12, <1>13, <1>14 DEF Sound
<1>16. poll \in [pos : 0..(Len(sys.queue) + 1), again : BOOLEAN]
  <2>1. 0 \in 0..(Len(sys.queue) + 1)
    BY <1>4, <1>6
  <2> QED BY <1>1, <2>1
<1> QED BY <1>15, <1>16 DEF QueueInv

\* event_poll
LEMMA PollStep ==
  ASSUME QueueInv, AnyEventStarts, Polling
  PROVE  QueueInv'
<1>0. Calm(sys) /\ Sound(sys) /\ poll \in [pos : 0..(Len(sys.queue) + 1), again : BOOLEAN]
  BY CalmIsSound DEF QueueInv
<1>1. Len(sys.queue) \in Nat /\ sys.queue \in Seq(Ids) /\ Queued(sys.queue, sys.event)
  BY <1>0, Parts DEF Calm, Settled, Core
<1>2. CASE PollBegin
  <2>1. sys' = sys /\ poll' = [pos |-> 1, again |-> FALSE]
    BY <1>2 DEF PollBegin
  <2>2. poll' \in [pos : 0..(Len(sys.queue) + 1), again : BOOLEAN]
    BY <1>1, <2>1
  <2> QED BY <1>0, <2>1, <2>2 DEF QueueInv
<1>3. CASE PollTurn
  <2>1. sys' = sys /\ poll' = [pos |-> IF poll.again THEN 1 ELSE 0, again |-> FALSE]
    BY <1>3 DEF PollTurn
  <2>2. poll' \in [pos : 0..(Len(sys.queue) + 1), again : BOOLEAN]
    BY <1>1, <2>1
  <2> QED BY <1>0, <2>1, <2>2 DEF QueueInv
<1>4. CASE PollEvent
  <2> DEFINE e == sys.queue[poll.pos]
             L == Len(sys'.queue)
  <2>1. /\ poll.pos \in 1..Len(sys.queue) /\ sys' = PollOne(sys, e)
        /\ poll' = [pos |-> poll.pos + (IF e \notin DOMAIN sys'.event THEN 0 ELSE 1),
                    again |-> poll.again \/ sys.event[e].progress = "pending" \/ e \notin DOMAIN sys'.event]
    BY <1>4 DEF PollEvent
  <2>2. e \in DOMAIN sys.event
    <3>1. poll.pos \in DOMAIN sys.queue
      BY <1>1, <2>1, LenProperties
    <3> QED BY <1>1, <3>1 DEF Queued, Range
  <2> HIDE DEF e
  <2>3. /\ Calm(sys')
        /\ IF e \in DOMAIN sys'.event THEN Len(sys.queue) <= L ELSE Len(sys.queue) <= L + 1
    BY <1>0, <2>1, <2>2, PollsOne DEF Calm
  <2>4. L \in Nat
    BY <2>3, Parts DEF Calm, Settled, Core
  <2> HIDE DEF L
  <2>5. \A p, n, m \in Nat : p >= 1 /\ p <= n =>
            /\ n <= m + 1 => p + 0 \in 0..(m + 1)
            /\ n <= m => p + 1 \in 0..(m + 1)
    OBVIOUS
  <2>6. poll.pos \in Nat /\ poll.pos >= 1 /\ poll.pos <= Len(sys.queue)
    BY <1>1, <2>1
  <2>7. poll.pos + (IF e \notin DOMAIN sys'.event THEN 0 ELSE 1) \in 0..(L + 1)
    <3>1. CASE e \in DOMAIN sys'.event
      BY <1>1, <2>3, <2>4, <2>5, <2>6, <3>1
    <3>2. CASE e \notin DOMAIN sys'.event
      BY <1>1, <2>3, <2>4, <2>5, <2>6, <3>2
    <3> QED BY <3>1, <3>2
  <2>8. poll' \in [pos : 0..(L + 1), again : BOOLEAN]
    <3>1. (poll.again \/ sys.event[e].progress = "pending" \/ e \notin DOMAIN sys'.event) \in BOOLEAN
      OBVIOUS
    <3> QED BY <2>1, <2>7, <3>1
  <2>9. Sound(sys')
    BY <2>3, CalmIsSound
  <2> QED BY <2>8, <2>9 DEF QueueInv, L
<1> QED BY <1>2, <1>3, <1>4 DEF Polling

\* What is asked from outside.
LEMMA AskedStep ==
  ASSUME QueueInv, OwnNames,
         \/ \E x \in Stimuli, wait \in BOOLEAN : EmitEvent(x, wait)
         \/ \E c \in Commanded, wait \in BOOLEAN : Start(c, wait) \/ Stop(c, wait) \/ Restart(c, wait)
         \/ NotifyCgroupManager
  PROVE  QueueInv'
<1>0. Calm(sys)
  BY CalmIsSound DEF QueueInv
<1>1. ASSUME NEW x \in Stimuli, NEW wait \in BOOLEAN, EmitEvent(x, wait) PROVE QueueInv'
  <2> DEFINE waiter == IF wait THEN "emit" ELSE "none"
  <2>1. sys' = event_new(sys, x.name, x.env, waiter) /\ poll' = poll /\ Idle
    BY <1>1 DEF EmitEvent
  <2>2. waiter \in {"none", "emit"}
    OBVIOUS
  <2> HIDE DEF waiter
  <2>3. Calm(sys')
    BY <1>0, <2>1, <2>2, EmitsCalm
  <2> QED BY <2>1, <2>3, IdleStep
<1>2. ASSUME NEW c \in Class, NEW wait \in BOOLEAN, Start(c, wait) PROVE QueueInv'
  <2>1. /\ sys' = job_change_goal([job_finished(sys, c, FALSE) EXCEPT !.job[c].caller = wait], c, "start")
        /\ poll' = poll /\ Idle /\ sys.job[c].goal # "start"
    BY <1>2 DEF Start, Command
  <2>2. Calm(sys')
    BY <1>0, <2>1, StartCommand
  <2> QED BY <2>1, <2>2, IdleStep
<1>3. ASSUME NEW c \in Class, NEW wait \in BOOLEAN, Stop(c, wait) PROVE QueueInv'
  <2>1. /\ sys' = job_change_goal([job_finished(sys, c, FALSE) EXCEPT !.job[c].caller = wait], c, "stop")
        /\ poll' = poll /\ Idle /\ sys.job[c].stage # "waiting"
    BY <1>3 DEF Stop, Command
  <2>2. Calm(sys')
    BY <1>0, <2>1, StopCommand
  <2> QED BY <2>1, <2>2, IdleStep
<1>4. ASSUME NEW c \in Class, NEW wait \in BOOLEAN, Restart(c, wait) PROVE QueueInv'
  <2> DEFINE t == job_change_goal([job_finished(sys, c, FALSE) EXCEPT !.job[c].caller = wait], c, "stop")
  <2>1. sys' = job_change_goal(t, c, "start") /\ poll' = poll /\ Idle /\ sys.job[c].stage # "waiting"
    BY <1>4 DEF Restart, Command
  <2>2. Calm(t) /\ t.job[c].goal = "stop"
    BY <1>0, <2>1, StopCommand
  <2> HIDE DEF t
  <2>3. Calm(sys')
    BY <2>1, <2>2, StartAgain
  <2> QED BY <2>1, <2>3, IdleStep
<1>5. ASSUME NotifyCgroupManager PROVE QueueInv'
  <2> DEFINE m == [sys EXCEPT !.cgroup_manager = TRUE]
  <2>1. sys' = job_class_induct_jobs(m) /\ poll' = poll /\ Idle
    BY <1>5 DEF NotifyCgroupManager
  <2>2. Settled(m, NoEvent) /\ Quiet(m)
    BY <1>0, ManagerUp DEF Calm
  <2> HIDE DEF m
  <2>3. Calm(sys')
    BY <2>1, <2>2, InductsJobs DEF Seen, Calm
  <2> QED BY <2>1, <2>3, IdleStep
<1>6. Commanded \subseteq Class
  BY NameAssumption
<1> QED BY <1>1, <1>2, <1>3, <1>4, <1>5, <1>6

\* What the processes of a job do.
LEMMA ProcessStep ==
  ASSUME QueueInv, NEW c \in Class, NEW ok \in BOOLEAN,
         SpawnEnds(c, ok) \/ MainEnds(c, ok) \/ EndingEnds(c, ok) \/ PreStopEnds(c)
  PROVE  QueueInv'
<1>0. Calm(sys)
  BY CalmIsSound DEF QueueInv
<1> DEFINE gone == [sys EXCEPT !.job[c].main = FALSE]
<1>1. Calm(gone) /\ gone.job[c].stage = sys.job[c].stage /\ gone.job[c].goal = sys.job[c].goal
  BY <1>0, MainGone
<1>2. CASE SpawnEnds(c, ok)
  <2> DEFINE t == IF ok THEN sys ELSE FailJob(sys, c)
  <2>1. sys' = Advance(t, c) /\ poll' = poll /\ Idle /\ sys.job[c].stage = "spawning"
    BY <1>2 DEF SpawnEnds
  <2>2. Calm(t) /\ t.job[c].stage = "spawning"
    BY <1>0, <2>1, FailsJob
  <2> HIDE DEF t
  <2>3. Calm(sys')
    BY <2>1, <2>2, GoesOn
  <2> QED BY <2>1, <2>3, IdleStep
<1>3. CASE EndingEnds(c, ok)
  <2> DEFINE t == IF ok THEN gone ELSE FailJob(gone, c)
  <2>1. sys' = Advance(t, c) /\ poll' = poll /\ Idle /\ sys.job[c].stage = "ending"
    BY <1>3 DEF EndingEnds
  <2> HIDE DEF gone
  <2>2. Calm(t) /\ t.job[c].stage = "ending"
    BY <1>1, <2>1, FailsJob
  <2> HIDE DEF t
  <2>3. Calm(sys')
    BY <2>1, <2>2, GoesOn
  <2> QED BY <2>1, <2>3, IdleStep
<1>4. CASE MainEnds(c, ok)
  <2>1. /\ poll' = poll /\ Idle /\ sys.job[c].stage # "waiting"
        /\ sys' \in {FailJob(gone, c), job_change_goal(gone, c, "stop"), gone}
    BY <1>4 DEF MainEnds
  <2> HIDE DEF gone
  <2>2. Calm(FailJob(gone, c)) /\ Calm(job_change_goal(gone, c, "stop"))
    BY <1>1, <2>1, FailsJob, StopsJob
  <2>3. Calm(sys')
    BY <1>1, <2>1, <2>2
  <2> QED BY <2>1, <2>3, IdleStep
<1>5. CASE PreStopEnds(c)
  <2>1. sys' = Advance(sys, c) /\ poll' = poll /\ Idle /\ sys.job[c].stage = "pre_stop"
    BY <1>5 DEF PreStopEnds
  <2>2. Calm(sys')
    BY <1>0, <2>1, GoesOn
  <2> QED BY <2>1, <2>2, IdleStep
<1> QED BY <1>2, <1>3, <1>4, <1>5

-----------------------------------------------------------------------------
(* Theorems                                                                *)

\* The invariant holds in every state of the daemon, if the events of jobs are its
\* own (event_new, init/event.c) and a class that needs the cgroup manager starts on
\* any event it mentions (job_class_induct_jobs, init/job_class.c).
THEOREM QueueInductive ==
  ASSUME OwnNames, AnyEventStarts
  PROVE  Spec => []QueueInv
<1>1. Init => QueueInv
  BY InitCalm
<1>2. ASSUME QueueInv, [Next]_vars PROVE QueueInv'
  <2>1. CASE Polling
    BY <1>2, <2>1, PollStep
  <2>2. CASE \/ \E x \in Stimuli, wait \in BOOLEAN : EmitEvent(x, wait)
             \/ \E c \in Commanded, wait \in BOOLEAN : Start(c, wait) \/ Stop(c, wait) \/ Restart(c, wait)
             \/ NotifyCgroupManager
    BY <1>2, <2>2, AskedStep
  <2>3. CASE \E c \in Class, ok \in BOOLEAN : SpawnEnds(c, ok) \/ MainEnds(c, ok) \/ EndingEnds(c, ok)
    BY <1>2, <2>3, ProcessStep
  <2>4. CASE \E c \in Class : PreStopEnds(c)
    <3>1. PICK c \in Class : PreStopEnds(c)
      BY <2>4
    <3>2. TRUE \in BOOLEAN
      OBVIOUS
    <3> QED BY <1>2, <3>1, <3>2, ProcessStep
  <2>5. CASE UNCHANGED vars
    <3>1. sys' = sys /\ poll' = poll
      BY <2>5 DEF vars
    <3> QED BY <1>2, <3>1 DEF QueueInv
  <2> QED BY <1>2, <2>1, <2>2, <2>3, <2>4, <2>5 DEF Next
<1> QED BY <1>1, <1>2, PTL DEF Spec

\* The references of class c.
StartsOf(c) == {<<"start_on", c, i, sys.start_on[c].event[i]>> : i \in Leaves(ClassOf[c].start_on)}
StopsOf(c) == {<<"stop_on", c, i, sys.job[c].stop_on.event[i]>> : i \in Leaves(ClassOf[c].stop_on)}
BlocksOf(c) == {<<"blocking", c, r[1], r[2]>> : r \in sys.job[c].blocking}

LEMMA ReferencesOf ==
  ASSUME NEW r
  PROVE  r \in Reference <=> \E c \in Class : r \in StartsOf(c) \/ r \in StopsOf(c) \/ r \in BlocksOf(c)
<1>1. Reference = (UNION {StartsOf(c) : c \in Class}) \cup (UNION {StopsOf(c) : c \in Class})
                    \cup (UNION {BlocksOf(c) : c \in Class})
  BY DEF Reference, StartsOf, StopsOf, BlocksOf
<1>2. r \in UNION {StartsOf(c) : c \in Class} <=> \E c \in Class : r \in StartsOf(c)
  OBVIOUS
<1>3. r \in UNION {StopsOf(c) : c \in Class} <=> \E c \in Class : r \in StopsOf(c)
  OBVIOUS
<1>4. r \in UNION {BlocksOf(c) : c \in Class} <=> \E c \in Class : r \in BlocksOf(c)
  OBVIOUS
<1>5. r \in Reference <=> \/ r \in UNION {StartsOf(c) : c \in Class} \/ r \in UNION {StopsOf(c) : c \in Class}
                          \/ r \in UNION {BlocksOf(c) : c \in Class}
  BY <1>1
<1> QED BY <1>2, <1>3, <1>4, <1>5

\* The references of the specification, sorted by the event.
LEMMA ReferenceIs ==
  ASSUME NEW e
  PROVE  {r \in Reference : r[4] = e} = RefsTo(sys.start_on, sys.job, e)
<1> DEFINE so == sys.start_on
           jb == sys.job
<1>1. ASSUME NEW r \in Reference, r[4] = e PROVE r \in RefsTo(so, jb, e)
  <2>1. CASE \E c \in Class : r \in StartsOf(c)
    <3>0. PICK c \in Class : \E i \in Leaves(ClassOf[c].start_on) : r = <<"start_on", c, i, so[c].event[i]>>
      BY <2>1 DEF StartsOf
    <3>1. PICK i \in Leaves(ClassOf[c].start_on) : r = <<"start_on", c, i, so[c].event[i]>>
      BY <3>0
    <3>2. so[c].event[i] = e
      BY <1>1, <3>1
    <3>3. r \in StartRefs(so, c, e)
      BY <3>1, <3>2 DEF StartRefs, Tags, Holding
    <3> QED BY <3>3 DEF RefsTo
  <2>2. CASE \E c \in Class : r \in StopsOf(c)
    <3>0. PICK c \in Class : \E i \in Leaves(ClassOf[c].stop_on) : r = <<"stop_on", c, i, jb[c].stop_on.event[i]>>
      BY <2>2 DEF StopsOf
    <3>1. PICK i \in Leaves(ClassOf[c].stop_on) : r = <<"stop_on", c, i, jb[c].stop_on.event[i]>>
      BY <3>0
    <3>2. jb[c].stop_on.event[i] = e
      BY <1>1, <3>1
    <3>3. r \in StopRefs(jb, c, e)
      BY <3>1, <3>2 DEF StopRefs, Tags, Holding
    <3> QED BY <3>3 DEF RefsTo
  <2>3. CASE \E c \in Class : r \in BlocksOf(c)
    <3>0. PICK c \in Class : \E p \in jb[c].blocking : r = <<"blocking", c, p[1], p[2]>>
      BY <2>3 DEF BlocksOf
    <3>1. PICK p \in jb[c].blocking : r = <<"blocking", c, p[1], p[2]>>
      BY <3>0
    <3>2. p[2] = e
      BY <1>1, <3>1
    <3>3. r \in BlockRefs(jb, c, e)
      BY <3>1, <3>2 DEF BlockRefs, Entries, Naming
    <3> QED BY <3>3 DEF RefsTo
  <2> QED BY <1>1, <2>1, <2>2, <2>3, ReferencesOf
<1>2. ASSUME NEW r \in RefsTo(so, jb, e) PROVE r \in Reference /\ r[4] = e
  <2>1. PICK c \in Class : r \in StartRefs(so, c, e) \cup StopRefs(jb, c, e) \cup BlockRefs(jb, c, e)
    BY DEF RefsTo
  <2>2. CASE r \in StartRefs(so, c, e)
    <3>1. PICK i \in Leaves(ClassOf[c].start_on) : r = <<"start_on", c, i, e>> /\ so[c].event[i] = e
      BY <2>2 DEF StartRefs, Tags, Holding
    <3>2. r \in StartsOf(c)
      BY <3>1 DEF StartsOf
    <3> QED BY <3>1, <3>2, ReferencesOf
  <2>3. CASE r \in StopRefs(jb, c, e)
    <3>1. PICK i \in Leaves(ClassOf[c].stop_on) : r = <<"stop_on", c, i, e>> /\ jb[c].stop_on.event[i] = e
      BY <2>3 DEF StopRefs, Tags, Holding
    <3>2. r \in StopsOf(c)
      BY <3>1 DEF StopsOf
    <3> QED BY <3>1, <3>2, ReferencesOf
  <2>4. CASE r \in BlockRefs(jb, c, e)
    <3>1. PICK p \in jb[c].blocking : r = <<"blocking", c, p[1], e>> /\ p[2] = e
      BY <2>4 DEF BlockRefs, Entries, Naming
    <3>2. r \in BlocksOf(c)
      BY <3>1 DEF BlocksOf
    <3> QED BY <3>1, <3>2, ReferencesOf
  <2> QED BY <2>1, <2>2, <2>3, <2>4
<1> QED BY <1>1, <1>2

\* Every reference is to an event there is, or to none.
LEMMA ReferenceLive ==
  ASSUME QueueInv, NEW r \in Reference
  PROVE  r[4] \in DOMAIN sys.event \cup {NoEvent}
<1>0. Core(sys) /\ sys \in System /\ Trees(sys.start_on, sys.job)
  BY DEF QueueInv, Sound, Core
<1>1. ASSUME NEW c \in Class
      PROVE  /\ \A i \in Leaves(ClassOf[c].start_on) : sys.start_on[c].event[i] \in Nat
             /\ \A i \in Leaves(ClassOf[c].stop_on) : sys.job[c].stop_on.event[i] \in Nat
             /\ \A p \in sys.job[c].blocking : p[2] \in Nat
  <2>1. Grown(ClassOf[c].start_on, sys.start_on[c]) /\ Grown(ClassOf[c].stop_on, sys.job[c].stop_on)
    BY <1>0 DEF Trees
  <2>2. sys.job[c] \in JobRecord
    BY <1>0, Parts
  <2>3. sys.job[c].blocking \in SUBSET (Nat \X Nat)
    BY <2>2 DEF JobRecord
  <2> QED BY <2>1, <2>3 DEF Grown, Leaves
<1>2. r[4] \in Nat
  <2>1. CASE \E c \in Class : r \in StartsOf(c)
    BY <1>1, <2>1 DEF StartsOf
  <2>2. CASE \E c \in Class : r \in StopsOf(c)
    BY <1>1, <2>2 DEF StopsOf
  <2>3. CASE \E c \in Class : r \in BlocksOf(c)
    BY <1>1, <2>3 DEF BlocksOf
  <2> QED BY <2>1, <2>2, <2>3, ReferencesOf
<1>3. CASE r[4] = 0
  BY <1>3, NoEventAssumption
<1>4. CASE r[4] # 0
  <2>1. r[4] \in Ids
    BY <1>2, <1>4 DEF Ids
  <2>2. r \in RefsTo(sys.start_on, sys.job, r[4])
    BY ReferenceIs
  <2> QED BY <1>0, <2>1, <2>2 DEF Core, Live
<1> QED BY <1>3, <1>4

LEMMA InvConsistent ==
  ASSUME QueueInv
  PROVE  Consistent
<1> DEFINE ev == sys.event
           jb == sys.job
<1>0. /\ Core(sys) /\ Waits(ev, jb, NoEvent, "none") /\ Stages(jb, "none")
      /\ StartsUnmet(sys.start_on, sys.cgmanager_wait, "none") /\ StopsUnmet(jb, "none")
      /\ poll \in [pos : 0..(Len(sys.queue) + 1), again : BOOLEAN]
  BY DEF QueueInv, Sound
<1>1. /\ jb \in [Class -> JobRecord] /\ ev \in [DOMAIN ev -> EventRecord] /\ DOMAIN ev \subseteq Ids
      /\ NoEvent \notin DOMAIN ev
  BY <1>0, Parts, NoEventAssumption DEF Core, Ids
<1>2. TypeOK
  <2>1. IsInjective(sys.queue) /\ DOMAIN ev = Range(sys.queue) /\ poll.pos \in 0..(Len(sys.queue) + 1)
    BY <1>0 DEF Core, Queued
  <2>2. \A e \in DOMAIN ev : /\ ev[e].progress \in {"pending", "handling"}
                             /\ ev[e].blocking \in Class \cup {"none", "emit"} /\ ev[e].blockers \in Nat
    BY <1>1 DEF EventRecord
  <2>3. \A c \in Class : jb[c].stage \in Stage /\ jb[c].goal \in {"start", "stop"}
    BY <1>1 DEF JobRecord
  <2> QED BY <2>1, <2>2, <2>3 DEF TypeOK
<1>3. NoFault
  BY <1>0 DEF Core, NoFault
<1>4. BlockersCounted
  BY <1>0, ReferenceIs DEF BlockersCounted, Core, Counts
<1>5. \A k \in Class : k \in Class \ {"none"}
  BY NameAssumption
<1>6. NoDangling
  <2>1. \A r \in Reference : r[4] \in DOMAIN ev \cup {NoEvent}
    BY ReferenceLive
  <2>2. ASSUME NEW c \in Class PROVE {e \in DOMAIN ev : ev[e].blocking = c} = {jb[c].blocker} \ {NoEvent}
    <3>1. ASSUME NEW e \in DOMAIN ev, ev[e].blocking = c PROVE e = jb[c].blocker /\ e # NoEvent
      BY <1>0, <1>1, <3>1 DEF Waits
    <3>2. ASSUME jb[c].blocker # NoEvent PROVE jb[c].blocker \in DOMAIN ev /\ ev[jb[c].blocker].blocking = c
      BY <1>0, <1>5, <3>2 DEF Waits
    <3> QED BY <3>1, <3>2
  <2> QED BY <2>1, <2>2 DEF NoDangling
<1>7. WaitsForDependents
  <2>1. ASSUME NEW e \in DOMAIN ev, ev[e].name \in {"starting", "stopping"}
        PROVE  LET c == ev[e].env[1].value IN jb[c].stage = ev[e].name /\ jb[c].blocker = e
    <3> DEFINE w == ev[e].blocking
    <3>1. w \in Class /\ ev[e].env[1].value = w
      BY <1>0, <2>1 DEF Waits, Blocked
    <3>2. jb[w].blocker = e /\ e # NoEvent
      BY <1>0, <1>1, <3>1 DEF Waits
    <3>3. jb[w].stage = ev[e].name
      BY <1>0, <1>5, <3>1, <3>2 DEF Waits
    <3> QED BY <3>1, <3>2, <3>3
  <2>2. \A r \in Reference : r[4] # NoEvent => r[4] \in DOMAIN ev
    BY ReferenceLive
  <2> QED BY <2>1, <2>2 DEF WaitsForDependents
<1>8. ConditionsReset
  <2>1. \A c \in Class : StartUnmet(c, sys.start_on[c], sys.cgmanager_wait[c]) /\ StopUnmet(c, jb[c].stop_on)
    BY <1>0, <1>5 DEF StartsUnmet, StopsUnmet
  <2> QED BY <2>1 DEF ConditionsReset, StartUnmet, StopUnmet
<1>9. NobodyHeldAtRest
  <2>1. \A c \in Class : Staged(c, jb[c])
    BY <1>0, <1>5 DEF Stages
  <2> QED BY <2>1 DEF NobodyHeldAtRest, Staged, Rests
<1> QED BY <1>2, <1>3, <1>4, <1>6, <1>7, <1>8, <1>9 DEF Consistent, Counted

\* Events live exactly as long as something refers to them, every job that waits is
\* woken by the event it waits for, no condition is left TRUE, and no caller waits for
\* a job at rest: for any classes, conditions, names and order of steps.
THEOREM EventsAreConsistent ==
  ASSUME OwnNames, AnyEventStarts
  PROVE  Spec => []Consistent
<1>1. Spec => []QueueInv
  BY QueueInductive
<1>2. QueueInv => Consistent
  BY InvConsistent
<1> QED BY <1>1, <1>2, PTL

=============================================================================
