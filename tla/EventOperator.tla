--------------------------- MODULE EventOperator ---------------------------
(***************************************************************************)
(* The conditions of `start on' and `stop on' (init/event_operator.c): a   *)
(* binary tree whose leaves match events and whose inner nodes are the     *)
(* operators `and' and `or'.                                               *)
(*                                                                         *)
(* A tree is the sequence of its nodes in post-order, the order in which   *)
(* NIH_TREE_FOREACH_POST visits them (and in which they are serialised);   *)
(* its root comes last.  What changes at run time is kept apart, in a      *)
(* record with the `value' and the `event' of every node.                  *)
(***************************************************************************)
EXTENDS Naturals, Sequences, FiniteSets

CONSTANTS
    NoEvent,      \* the NULL event
    ArgumentOf    \* how event_operator_match takes a word of a condition
                  \* apart: [word -> [key, negate, var, value]]

\* event_operator_new: a leaf, and the two operators.
EVENT_MATCH(name, env) == [type |-> "match", name |-> name, env |-> env]
EVENT_AND == [type |-> "and", name |-> "", env |-> << >>]
EVENT_OR == [type |-> "or", name |-> "", env |-> << >>]

Leaves(c) == {i \in DOMAIN c : c[i].type = "match"}

\* Number of nodes below and including each node.
Size(c) ==
    LET size[i \in 1..Len(c)] ==
            IF c[i].type = "match" THEN 1
            ELSE LET right == size[i - 1]
                 IN  1 + right + size[i - 1 - right]
    IN  size

\* The children of the inner node i.
Right(c, i) == i - 1
Left(c, i) == i - 1 - Size(c)[i - 1]

Parent(c, i) ==
    CHOOSE p \in DOMAIN c :
        c[p].type # "match" /\ (Left(c, p) = i \/ Right(c, p) = i)

-----------------------------------------------------------------------------
(* Matching one event                                                      *)

\* environ_lookup: where the variable is in a table, 0 if it is not there.
environ_lookup(env, key) ==
    LET found == {i \in DOMAIN env : env[i].key = key}
    IN  IF found = {} THEN 0
        ELSE CHOOSE i \in found : \A k \in found : i <= k

\* environ_expand of a value that is a variable reference or is not; the
\* empty set where the variable is not known.
environ_expand(arg, env) ==
    IF ~arg.var THEN {arg.value}
    ELSE {env[i].value : i \in {environ_lookup(env, arg.value)} \ {0}}

\* fnmatch, as far as the patterns used go.
fnmatch(pattern, value) == pattern \in {"*", value}

\* The entry of the event's table each argument is compared with: the one
\* after that of the argument before it, unless it names a variable.
Position(env, eenv) ==
    LET pos[i \in 1..Len(env)] ==
            LET arg == ArgumentOf[env[i]]
            IN  CASE arg.key # "" -> environ_lookup(eenv, arg.key)
                  [] arg.key = "" /\ i = 1 -> 1
                  [] arg.key = "" /\ i > 1 -> pos[i - 1] + 1
    IN  pos

\* Mutant: a negated argument is satisfied by a variable that is missing.
event_operator_match_Absent(node, event, env) ==
    /\ node.name = event.name
    /\ \A i \in DOMAIN node.env :
        LET arg == ArgumentOf[node.env[i]]
            pos == Position(node.env, event.env)[i]
        IN  IF pos \in DOMAIN event.env
            THEN \E pattern \in environ_expand(arg, env) :
                    fnmatch(pattern, event.env[pos].value) # arg.negate
            ELSE arg.negate

\* event_operator_match: the name, then every argument in turn.
event_operator_match(node, event, env) ==
    /\ node.name = event.name
    /\ \A i \in DOMAIN node.env :
        LET arg == ArgumentOf[node.env[i]]
            pos == Position(node.env, event.env)[i]
        IN  /\ pos \in DOMAIN event.env
            /\ \E pattern \in environ_expand(arg, env) :
                    fnmatch(pattern, event.env[pos].value) # arg.negate

-----------------------------------------------------------------------------
(* Keeping the values up to date                                           *)

\* event_operator_new on every node.
event_operator_new(c) ==
    [value |-> [i \in DOMAIN c |-> FALSE],
     event |-> [i \in DOMAIN c |-> NoEvent]]

\* The value of node i, where those of the nodes before it are `value'.
NodeValue(c, leaf, value, i) ==
    CASE c[i].type = "match" -> leaf[i]
      [] c[i].type = "and" -> value[Left(c, i)] /\ value[Right(c, i)]
      [] c[i].type = "or"  -> value[Left(c, i)] \/ value[Right(c, i)]

\* Mutant: an operator takes the value of the child visited last.
event_operator_update_Last(c, leaf) ==
    LET value[i \in 1..Len(c)] ==
            IF c[i].type = "match" THEN leaf[i] ELSE value[Right(c, i)]
    IN  value

\* event_operator_update of every inner node in post-order.
event_operator_update(c, leaf) ==
    LET value[i \in 1..Len(c)] == NodeValue(c, leaf, value, i) IN value

\* Mutant: a leaf takes every event it matches.
Taken_Again(c, o, event, env) ==
    {i \in Leaves(c) : event_operator_match(c[i], event, env)}

\* The leaves that take an event: a leaf keeps the first one it matched.
Taken(c, o, event, env) ==
    {i \in Leaves(c) : ~o.value[i] /\ event_operator_match(c[i], event, env)}

\* event_operator_handle; it returns TRUE where `taken' is not empty, and
\* has called event_block once for each of them.
event_operator_handle(c, o, e, taken) ==
    [value |-> event_operator_update(c,
                    [i \in DOMAIN c |-> o.value[i] \/ i \in taken]),
     event |-> [i \in DOMAIN c |-> IF i \in taken THEN e ELSE o.event[i]]]

\* event_operator_reset, which unblocks the events held.
event_operator_reset(c) ==
    [value |-> event_operator_update(c, [i \in DOMAIN c |-> FALSE]),
     event |-> [i \in DOMAIN c |-> NoEvent]]

\* How many times the tree holds event e.
Held(o, e) == Cardinality({i \in DOMAIN o.event : o.event[i] = e})

\* The value of the whole condition.
Value(c, o) == o.value[Len(c)]

\* NIH_TREE_FOREACH_FULL with event_operator_filter: the leaves reached from
\* the root through nodes that are TRUE.
Active(c, o) ==
    LET reached[i \in 1..Len(c)] ==
            o.value[i] /\ (i = Len(c) \/ reached[Parent(c, i)])
    IN  {i \in Leaves(c) : reached[i]}

-----------------------------------------------------------------------------
(* event_operator_collapse: back to the words of a condition               *)

\* What the code writes for a leaf.
LeafText(node) == <<node.name>> \o node.env

\* One inner node: the text of a child that is a leaf is at hand, that of any
\* other child is on the stack, the right one on top.
CollapseNode(stack, c, i) ==
    LET l == Left(c, i)
        r == Right(c, i)
        rightPops == c[r].type # "match"
        leftPops  == c[l].type # "match"
        right == IF rightPops THEN Head(stack) ELSE LeafText(c[r])
        rest  == IF rightPops THEN Tail(stack) ELSE stack
        left  == IF leftPops THEN Head(rest) ELSE LeafText(c[l])
        under == IF leftPops THEN Tail(rest) ELSE rest
    IN  <<<<"(">> \o left \o <<c[i].type>> \o right \o <<")">>>> \o under

event_operator_collapse(c) ==
    LET stack[i \in 0..Len(c)] ==
            CASE i = 0 -> << >>
              [] i > 0 /\ c[i].type = "match" -> stack[i - 1]
              [] i > 0 /\ c[i].type # "match" -> CollapseNode(stack[i - 1], c, i)
    IN  IF Len(c) = 1 THEN LeafText(c[1]) ELSE Head(stack[Len(c)])
=============================================================================
