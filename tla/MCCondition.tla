---------------------------- MODULE MCCondition ----------------------------
(***************************************************************************)
(* Conditions over one event name, two arguments (one by position, one by  *)
(* name, negated and with a variable) and five events.                     *)
(***************************************************************************)
EXTENDS Condition

MCArgumentOf ==
    [w \in {"a", "K!=$V"} |->
        IF w = "a" THEN [key |-> "", negate |-> FALSE, var |-> FALSE, value |-> "a"]
        ELSE [key |-> "K", negate |-> TRUE, var |-> TRUE, value |-> "V"]]

MCWords == {"'a'", "K!=$V"}

MCUnquoted ==
    [w \in {"a", "'a'", "K!=$V"} |-> IF w = "'a'" THEN "a" ELSE w]

Variable(key, value) == [key |-> key, value |-> value]

MCEvent ==
    {[name |-> "a", env |-> << >>],
     [name |-> "a", env |-> <<Variable("J", "a"), Variable("K", "y")>>],
     [name |-> "a", env |-> <<Variable("K", "a"), Variable("J", "a")>>],
     [name |-> "a", env |-> <<Variable("K", "y"), Variable("J", "z")>>],
     [name |-> "b", env |-> <<Variable("K", "y")>>]}

MCJobEnv == <<Variable("V", "y")>>
=============================================================================
