------------------------------ MODULE Environ ------------------------------
(***************************************************************************)
(* Environment tables (init/environ.c) and the expansion of references in  *)
(* a text.                                                                 *)
(*                                                                         *)
(* A text, a name and a value are sequences of characters.  A string of a  *)
(* table is a record [key, eq, value]; without eq it is a bare name.       *)
(***************************************************************************)
EXTENDS SequencesExt, Integers

CONSTANTS Letter,    \* the characters a name is made of
          Getenv     \* the environment of init itself: a function on names

\* A string KEY=VALUE, and the bare name KEY.
Pair(k, v) == [key |-> k, eq |-> TRUE, value |-> v]
Bare(k)    == [key |-> k, eq |-> FALSE, value |-> << >>]

\* The first position from pos on that satisfies the test, or the one
\* behind the end.
First(s, pos, chars) ==
    LET at == {i \in pos..Len(s) : s[i] \in chars}
    IN  IF at = {} THEN Len(s) + 1 ELSE CHOOSE i \in at : \A j \in at : i <= j

-----------------------------------------------------------------------------
(* Tables                                                                  *)

\* environ_lookup: the position of the key, 0 where it is not in the table.
environ_lookup(env, key) ==
    LET at == {i \in DOMAIN env : env[i].key = key /\ env[i].eq}
    IN  IF at = {} THEN 0 ELSE CHOOSE i \in at : \A j \in at : i <= j

\* environ_getn and environ_get: a sequence of one value, or of none.
environ_getn(env, key) ==
    LET i == environ_lookup(env, key)
    IN  IF i = 0 THEN << >> ELSE <<env[i].value>>

\* The string that is added: a bare name takes its value from init's own
\* environment, and is left out where it has none there.
NewString(str) ==
    CASE str.eq                  -> <<str>>
      [] str.key \in DOMAIN Getenv /\ ~ str.eq -> <<Pair(str.key, Getenv[str.key])>>
      [] OTHER                   -> << >>

\* environ_add and environ_set
environ_add(env, replace, str) ==
    LET new == NewString(str)
        old == environ_lookup(env, str.key)
    IN  CASE old # 0 /\ replace /\ new # << >> -> [env EXCEPT ![old] = new[1]]
          [] old # 0 /\ replace /\ new = << >> -> RemoveAt(env, old)
          [] old # 0 /\ ~ replace              -> env
          [] OTHER                             -> env \o new

\* environ_append
RECURSIVE environ_append(_, _, _)
environ_append(env, replace, new_env) ==
    IF new_env = << >> THEN env
    ELSE environ_append(environ_add(env, replace, Head(new_env)), replace, Tail(new_env))

\* The loop of environ_remove.  An entry goes when its whole key begins the
\* name, and the entry behind it, which moves up, is not looked at.
RECURSIVE RemoveFrom(_, _, _)
RemoveFrom(env, i, name) ==
    CASE i > Len(env)                -> env
      [] i <= Len(env) /\ IsPrefix(env[i].key, name) ->
             RemoveFrom(RemoveAt(env, i), i + 1, name)
      [] OTHER                       -> RemoveFrom(env, i + 1, name)

\* environ_remove: a sequence of one table, or of none where it fails.
environ_remove(env, name) ==
    IF env = << >> THEN << >> ELSE <<RemoveFrom(env, 1, name)>>

\* environ_all_valid
environ_all_valid(env) == \A i \in DOMAIN env : env[i].eq

-----------------------------------------------------------------------------
(* Expansion                                                               *)

\* The character at a position; behind the end is the terminator.
At(s, pos) == IF pos <= Len(s) THEN s[pos] ELSE "end"

\* The operator of a bracketed reference at a position, and its length.
Operator(s, pos) ==
    CASE At(s, pos) = ":" /\ At(s, pos + 1) = "-" -> [op |-> "default", empty |-> TRUE, len |-> 2]
      [] At(s, pos) = ":" /\ At(s, pos + 1) = "+" -> [op |-> "alternate", empty |-> TRUE, len |-> 2]
      [] At(s, pos) = "-" -> [op |-> "default", empty |-> FALSE, len |-> 1]
      [] At(s, pos) = "+" -> [op |-> "alternate", empty |-> FALSE, len |-> 1]
      [] At(s, pos) \in {"}", "end"} -> [op |-> "value", empty |-> FALSE, len |-> 0]
      [] OTHER -> [op |-> "unexpected", empty |-> FALSE, len |-> 0]

\* What a reference stands for: a sequence of one text, or of none where the
\* variable is not known.
Substitute(env, name, oper, arg) ==
    LET value == environ_getn(env, name)
        none  == value = << >> \/ (oper.empty /\ value = << << >> >>)
    IN  CASE oper.op = "value"               -> value
          [] oper.op = "default" /\ none     -> <<arg>>
          [] oper.op = "default" /\ ~ none   -> value
          [] oper.op = "alternate" /\ none   -> << << >> >>
          [] oper.op = "alternate" /\ ~ none -> <<arg>>

Failure(error) == [error |-> error, str |-> << >>, pos |-> 0]

Simple(s, start) ==
    [error |-> "none", str |-> s, start |-> start, oper |-> Operator(<< >>, 1),
     name |-> SubSeq(s, start + 1, First(s, start + 1, {c \in Range(s) : c \notin Letter}) - 1),
     arg |-> << >>, end |-> First(s, start + 1, {c \in Range(s) : c \notin Letter})]

RECURSIVE environ_expand_until(_, _, _, _)

\* A bracketed reference that starts at a position: its name and its
\* argument are expanded where they stand, so the text may have changed.
Bracketed(s, start, env) ==
    LET n     == environ_expand_until(s, start + 2, env, {"}", ":", "-", "+"})
        oper  == Operator(n.str, n.pos)
        begin == n.pos + oper.len
        a     == environ_expand_until(n.str, begin, env, {"}"})
    IN  CASE n.error # "none"         -> n
          [] n.error = "none" /\ oper.op = "unexpected" -> Failure("expected operator")
          [] OTHER ->
               CASE a.error # "none"         -> a
                 [] a.error = "none" /\ At(a.str, a.pos) # "}" -> Failure("mismatched braces")
                 [] OTHER -> [error |-> "none", str |-> a.str, start |-> start, oper |-> oper,
                              name |-> SubSeq(a.str, start + 2, n.pos - 1),
                              arg |-> SubSeq(a.str, begin, a.pos - 1), end |-> a.pos + 1]

\* Mutant: the scan goes on with the first character of a value that is not
\* empty, so that a reference in it is expanded again.
Splice_Rescan(s, start, end, value, env, until) ==
    environ_expand_until(SubSeq(s, 1, start - 1) \o value \o SubSeq(s, end, Len(s)),
                         start + (IF Len(value) > 1 THEN 0 ELSE Len(value)), env, until)

\* The value takes the place of the text from start to end, and the scan
\* goes on behind it.
Splice(s, start, end, value, env, until) ==
    environ_expand_until(SubSeq(s, 1, start - 1) \o value \o SubSeq(s, end, Len(s)),
                         start + Len(value), env, until)

\* A reference that was read is looked up and replaced.
Replace(ref, env, until) ==
    LET value == Substitute(env, ref.name, ref.oper, ref.arg)
    IN  CASE ref.error # "none" -> ref
          [] ref.error = "none" /\ value = << >> -> Failure("unknown parameter")
          [] OTHER -> Splice(ref.str, ref.start, ref.end, value[1], env, until)

\* environ_expand_until: from a position to the first of the characters, or
\* to the end.
environ_expand_until(s, pos, env, until) ==
    LET start == First(s, pos, until \cup {"$"})
        next  == At(s, start + 1)
    IN  CASE At(s, start) # "$" -> [error |-> "none", str |-> s, pos |-> start]
          [] At(s, start) = "$" /\ next \in Letter -> Replace(Simple(s, start), env, until)
          [] At(s, start) = "$" /\ next = "{" /\ At(s, start + 2) = "}" ->
                 Splice(s, start, start + 3, <<"$">>, env, until)
          [] At(s, start) = "$" /\ next = "{" /\ At(s, start + 2) # "}" ->
                 Replace(Bracketed(s, start, env), env, until)
          [] OTHER -> environ_expand_until(s, start + 1, env, until)

\* environ_expand: a sequence of one text, or of none where it fails.
environ_expand(string, env) ==
    LET r == environ_expand_until(string, 1, env, {})
    IN  IF r.error = "none" THEN <<r.str>> ELSE << >>

-----------------------------------------------------------------------------
(* What a text with references means.  A template is a sequence of parts:  *)
(* a literal text, the dollar sign, or a reference whose name and argument *)
(* are templates themselves.                                               *)

Lit(text)            == [kind |-> "text", text |-> text]
Dollar               == [kind |-> "dollar"]
Ref(name, oper, arg) == [kind |-> "ref", name |-> name, oper |-> oper, arg |-> arg]
Var(name)            == [kind |-> "var", text |-> name]

OperatorText(oper) ==
    CASE oper = "value"      -> << >>
      [] oper = "default"    -> <<"-">>
      [] oper = "alternate"  -> <<"+">>
      [] oper = ":default"   -> <<":", "-">>
      [] oper = ":alternate" -> <<":", "+">>

\* The text of a template.
RECURSIVE Text(_)
TextOfPart(p) ==
    CASE p.kind = "text"   -> p.text
      [] p.kind = "dollar" -> <<"$", "{", "}">>
      [] p.kind = "var"    -> <<"$">> \o p.text
      [] p.kind = "ref"    -> <<"$", "{">> \o Text(p.name) \o OperatorText(p.oper)
                                \o Text(p.arg) \o <<"}">>
Text(t) == IF t = << >> THEN << >> ELSE TextOfPart(Head(t)) \o Text(Tail(t))

\* The value of a template: a sequence of one text, or of none.
RECURSIVE Value(_, _)
ValueOfRef(p, env) ==
    LET name  == Value(p.name, env)
        arg   == Value(p.arg, env)
        value == environ_getn(env, name[1])
        unset == \/ value = << >>
                 \/ p.oper \in {":default", ":alternate"} /\ value[1] = << >>
    IN  CASE name = << >> \/ arg = << >>               -> << >>
          [] name # << >> /\ arg # << >> /\ p.oper = "value" -> value
          [] name # << >> /\ arg # << >> /\ p.oper \in {"default", ":default"} ->
                 IF unset THEN arg ELSE value
          [] OTHER -> IF unset THEN << << >> >> ELSE arg
ValueOfPart(p, env) ==
    CASE p.kind = "text"   -> <<p.text>>
      [] p.kind = "dollar" -> << <<"$">> >>
      [] p.kind = "var"    -> environ_getn(env, p.text)
      [] p.kind = "ref"    -> ValueOfRef(p, env)
Value(t, env) ==
    IF t = << >> THEN << << >> >>
    ELSE LET head == ValueOfPart(Head(t), env)
             tail == Value(Tail(t), env)
         IN  IF head = << >> \/ tail = << >> THEN << >> ELSE <<head[1] \o tail[1]>>

=============================================================================
