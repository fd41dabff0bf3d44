----------------------------- MODULE Condition -----------------------------
(***************************************************************************)
(* The life of one `start on' or `stop on' condition: its words are parsed *)
(* one after the other (parse_on of init/parse_job.c), and the tree they   *)
(* make is then offered events until it is TRUE and is reset, again and    *)
(* again (init/event_operator.c).                                          *)
(*                                                                         *)
(* A word is what nih_config_next_token returns, quotes included.  The     *)
(* splitting of a file into words, comments and line ends is libnih's and  *)
(* left out; so is `paren', which only tells parse_on whether a line end   *)
(* ends the stanza.                                                        *)
(***************************************************************************)
EXTENDS EventOperator, SequencesExt

CONSTANTS
    Words,        \* the operands: names of events and arguments, as written
    Unquoted,     \* [word, in quotes or not -> word without its quotes]
    MaxWords,     \* bound on the length of a stanza
    MaxLeaves,    \* bound on the conditions that go on to handle events
    Event,        \* events: [name, env], env a sequence of [key, value]
    JobEnv        \* environment the values of the condition are expanded in

ASSUME WordsAssumption == Words \cap {"and", "or", "(", ")"} = {}

AnyWord == Words \cup {"and", "or", "(", ")"}

VARIABLES
    words,      \* the words read so far
    parser,     \* [stack, root, error]; top of the stack first
    cond,       \* the tree parse_on returned, << >> before
    oper,       \* value and event of its nodes
    blockers    \* event->blockers, as far as this condition goes

vars == <<words, parser, cond, oper, blockers>>

-----------------------------------------------------------------------------
(* The parser                                                              *)

\* A stack item: an open parenthesis (NULL data), an event, or an operator
\* that already has its left child.
Open == [type |-> "open", tree |-> << >>]

Fails(p, error) == [p EXCEPT !.error = error]

Push(p, item) == [p EXCEPT !.stack = <<item>> \o @]

\* Is the item on the top of the stack an event?
EventOnTop(p) == p.stack # << >> /\ Head(p.stack).type = "match"

\* Mutant: the collected tree becomes the left child.
CollectItem_Swapped(p, item) ==
    CASE p.error # "none" -> p
      [] p.error = "none" /\ item.type = "match" ->
            IF p.root = << >> THEN [p EXCEPT !.root = item.tree]
            ELSE Fails(p, "expected operator")
      [] p.error = "none" /\ item.type # "match" ->
            IF p.root = << >> THEN Fails(p, "expected event")
            ELSE [p EXCEPT !.root = @ \o item.tree \o
                    <<IF item.type = "and" THEN EVENT_AND ELSE EVENT_OR>>]

\* One turn of the loop of parse_on_collect.
CollectItem(p, item) ==
    CASE p.error # "none" -> p
      [] p.error = "none" /\ item.type = "match" ->
            IF p.root = << >> THEN [p EXCEPT !.root = item.tree]
            ELSE Fails(p, "expected operator")
      [] p.error = "none" /\ item.type # "match" ->
            IF p.root = << >> THEN Fails(p, "expected event")
            ELSE [p EXCEPT !.root = item.tree \o @ \o
                    <<IF item.type = "and" THEN EVENT_AND ELSE EVENT_OR>>]

\* parse_on_collect: everything down to the innermost open parenthesis.
parse_on_collect(p) ==
    LET opens == {i \in DOMAIN p.stack : p.stack[i].type = "open"}
        n == IF opens = {} THEN Len(p.stack)
             ELSE (CHOOSE i \in opens : \A k \in opens : i <= k) - 1
        q == FoldLeft(CollectItem, p, SubSeq(p.stack, 1, n))
        r == [q EXCEPT !.stack = SubSeq(p.stack, n + 1, Len(p.stack))]
    IN  CASE q.error # "none" -> q
          [] q.error = "none" /\ r.root = << >> -> Fails(r, "expected event")
          [] q.error = "none" /\ r.root # << >> -> r

\* parse_on_operator, for the two operator words.
parse_on_operator(p, word) ==
    LET c == parse_on_collect(p)
    IN  IF c.error # "none" THEN c
        ELSE Push([c EXCEPT !.root = << >>], [type |-> word, tree |-> c.root])

parse_on_paren(p, word) ==
    IF word = "("
    THEN IF p.root # << >> \/ EventOnTop(p) THEN Fails(p, "expected operator")
         ELSE Push(p, Open)
    ELSE LET c == parse_on_collect(p)
         IN  CASE c.error # "none" -> c
               [] c.error = "none" /\ c.stack = << >> ->
                    Fails(c, "mismatched parens")
               [] c.error = "none" /\ c.stack # << >> ->
                    [c EXCEPT !.stack = Tail(@)]

\* A positional argument after one that names its variable.
Misplaced(env) ==
    \E i, k \in DOMAIN env :
        i < k /\ ArgumentOf[env[i]].key # "" /\ ArgumentOf[env[k]].key = ""

\* parse_on_operand: an argument of the event on top, or a new event.
parse_on_operand(p, word) ==
    IF ~EventOnTop(p)
    THEN Push(p, [type |-> "match", tree |-> <<EVENT_MATCH(word, << >>)>>])
    ELSE LET node == Head(Head(p.stack).tree)
             env  == Append(node.env, word)
         IN  IF Misplaced(env) THEN Fails(p, "expected variable")
             ELSE [p EXCEPT !.stack[1].tree = <<EVENT_MATCH(node.name, env)>>]

\* One turn of the inner loop of parse_on; an error ends it.
ParseWord(p, word) ==
    CASE p.error # "none" -> p
      [] p.error = "none" /\ word \in {"(", ")"} -> parse_on_paren(p, word)
      [] p.error = "none" /\ word \in {"and", "or"} -> parse_on_operator(p, word)
      [] p.error = "none" /\ word \notin {"(", ")", "and", "or"} ->
            parse_on_operand(p, Unquoted[word])

\* The end of parse_on.
ParseEnd(p) ==
    LET c == parse_on_collect(p)
    IN  IF p.error # "none" THEN p
        ELSE IF c.error = "none" /\ c.stack # << >>
             THEN Fails(c, "mismatched parens")
             ELSE c

NewParser == [stack |-> << >>, root |-> << >>, error |-> "none"]

\* All of it, for a sequence of words.
parse_on(ws) == ParseEnd(FoldLeft(ParseWord, NewParser, ws))

-----------------------------------------------------------------------------
(* The life of a condition                                                 *)

Init ==
    /\ words = << >>
    /\ parser = NewParser
    /\ cond = << >>
    /\ oper = event_operator_new(<< >>)
    /\ blockers = [e \in Event |-> 0]

\* The next word; an error is the end.
ReadWord ==
    /\ cond = << >> /\ parser.error = "none" /\ Len(words) < MaxWords
    /\ \E word \in AnyWord :
        /\ words' = Append(words, word)
        /\ parser' = ParseWord(parser, word)
    /\ UNCHANGED <<cond, oper, blockers>>

\* The stanza ends and its condition is kept.
EndStanza ==
    /\ cond = << >> /\ words # << >>
    /\ LET p == ParseEnd(parser)
       IN  /\ p.error = "none"
           /\ Cardinality(Leaves(p.root)) <= MaxLeaves
           /\ cond' = p.root
           /\ oper' = event_operator_new(p.root)
    /\ UNCHANGED <<words, parser, blockers>>

\* event_pending_handle_jobs offers an event; the condition blocks it once for
\* every leaf that takes it.  A condition that is TRUE is reset in the same
\* handler, before it sees another event.
Handle(e) ==
    /\ cond # << >>
    /\ ~Value(cond, oper)
    /\ LET taken == Taken(cond, oper, e, JobEnv)
       IN  /\ oper' = event_operator_handle(cond, oper, e, taken)
           /\ blockers' = [blockers EXCEPT ![e] = @ + Cardinality(taken)]
    /\ UNCHANGED <<words, parser, cond>>

Reset ==
    /\ cond # << >>
    /\ Value(cond, oper)
    /\ oper' = event_operator_reset(cond)
    /\ blockers' = [e \in Event |-> blockers[e] - Held(oper, e)]
    /\ UNCHANGED <<words, parser, cond>>

Next ==
    \/ ReadWord
    \/ EndStanza
    \/ \E e \in Event : Handle(e)
    \/ Reset

Spec == Init /\ [][Next]_vars

-----------------------------------------------------------------------------
(* Reference definitions                                                   *)

\* The grammar of a condition, over the words from i to j: an event with its
\* arguments, a condition in parentheses, or a condition, an operator (both
\* bind alike, to the left) and one of the first two.  The trees it gives.
Grammar(ws) ==
    LET Span == (1..Len(ws) + 1) \X (0..Len(ws))
        IsEvent(i, j) == i <= j /\ \A k \in i..j : ws[k] \in Words
        EventOf(i, j) ==
            EVENT_MATCH(Unquoted[ws[i]],
                        [k \in 1..(j - i) |-> Unquoted[ws[i + k]]])
        tree[s \in Span] ==
            LET i == s[1]
                j == s[2]
                Term(a, b) ==
                    CASE IsEvent(a, b) ->
                            IF Misplaced(EventOf(a, b).env) THEN {}
                            ELSE {<<EventOf(a, b)>>}
                      [] ~IsEvent(a, b) /\ b > a /\ ws[a] = "(" /\ ws[b] = ")"
                         -> tree[<<a + 1, b - 1>>]
                      [] OTHER -> {}
                Joined(k) ==
                    {l \o r \o <<IF ws[k] = "and" THEN EVENT_AND ELSE EVENT_OR>> :
                        l \in tree[<<i, k - 1>>], r \in Term(k + 1, j)}
            IN  Term(i, j) \cup
                UNION {Joined(k) :
                    k \in {n \in (i + 1)..(j - 1) : ws[n] \in {"and", "or"}}}
    IN  tree[<<1, Len(ws)>>]

\* The ways a condition can come true: sets of leaves, each enough.
Ways(c) ==
    LET ways[i \in 1..Len(c)] ==
            CASE c[i].type = "match" -> {{i}}
              [] c[i].type = "and" -> {l \cup r : l \in ways[Left(c, i)],
                                                  r \in ways[Right(c, i)]}
              [] c[i].type = "or"  -> ways[Left(c, i)] \cup ways[Right(c, i)]
    IN  ways[Len(c)]

\* The ways that have come true.
Achieved == {w \in Ways(cond) : \A i \in w : oper.event[i] # NoEvent}

\* The comment on event_operator_match: arguments go by position until one
\* names its variable, by name from there on.
Documented(node, event) ==
    LET Satisfied(arg, variable) ==
            \E pattern \in environ_expand(arg, JobEnv) :
                fnmatch(pattern, variable.value) # arg.negate
    IN  /\ node.name = event.name
        /\ \A i \in DOMAIN node.env :
            LET arg == ArgumentOf[node.env[i]]
            IN  IF arg.key = ""
                THEN i \in DOMAIN event.env /\ Satisfied(arg, event.env[i])
                ELSE \E k \in DOMAIN event.env :
                        event.env[k].key = arg.key /\ Satisfied(arg, event.env[k])

-----------------------------------------------------------------------------
(* Properties                                                              *)

\* Every node has a value, and holds an event only if it is a leaf.
TypeOK ==
    /\ Len(words) <= MaxWords
    /\ parser.error \in {"none", "expected operator", "expected event",
                         "expected variable", "mismatched parens"}
    /\ oper.value \in [DOMAIN cond -> BOOLEAN]
    /\ oper.event \in [DOMAIN cond -> Event \cup {NoEvent}]
    /\ blockers \in [Event -> Nat]

\* parse_on accepts exactly the stanzas of the grammar, and gives the tree the
\* grammar gives: operators bind alike and to the left, parentheses group.
ParsesGrammar ==
    (cond = << >> /\ words # << >>) =>
        LET p == ParseEnd(parser)
        IN  Grammar(words) = IF p.error = "none" THEN {p.root} ELSE {}

\* parse_on gives up in the middle of a stanza only where no way to go on (by
\* up to two words) would have made it right.
GivesUpForGood ==
    (cond = << >> /\ parser.error # "none") =>
        \A n \in 1..2 : \A more \in [1..n -> AnyWord] :
            Grammar(words \o more) = {}

\* The text event_operator_collapse makes of a condition is read back as the
\* same condition, not as its mirror image or regrouped.
CollapseReadBack ==
    LET p == ParseEnd(parser)
    IN  (cond = << >> /\ p.error = "none") =>
            parse_on(event_operator_collapse(p.root)) = p

\* A condition is TRUE exactly when the events held by its leaves make it so,
\* after any sequence of events and resets.
ValueFollowsEvents ==
    cond # << >> => (Value(cond, oper) <=> Achieved # {})

\* The events event_operator_events blocks a job on, and whose environment
\* the job gets, are those that had a part in making the condition TRUE: not
\* those held by a branch that is still incomplete.
ActiveHadARole ==
    (cond # << >> /\ Value(cond, oper)) => Active(cond, oper) = UNION Achieved

\* An event is blocked once for every leaf that holds it, so that none is
\* finished while a condition refers to it and none is held for ever.
BlockedAsHeld ==
    \A e \in Event : blockers[e] = Held(oper, e)

\* A leaf of a parsed condition matches as documented, and an event is never
\* held by a leaf it does not match.
MatchesDocumented ==
    \A i \in Leaves(cond) :
        /\ \A e \in Event :
            event_operator_match(cond[i], e, JobEnv) <=> Documented(cond[i], e)
        /\ oper.event[i] # NoEvent => Documented(cond[i], oper.event[i])

\* A stanza is read as the grammar says or refused, and a condition can be
\* written and read again (parse_on, event_operator_collapse).
ReadsConditions == ParsesGrammar /\ GivesUpForGood /\ CollapseReadBack

\* The events a condition holds are held once for each leaf, and those it
\* names are those that made it TRUE (event_operator_handle, _events, _reset).
HoldsEvents == TypeOK /\ ActiveHadARole /\ BlockedAsHeld
=============================================================================
