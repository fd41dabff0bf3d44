------------------------- MODULE MCJobEnvironment -------------------------
\* Two variables of which one begins the name of the other, a value that
\* looks like a reference, and two classes: one with an instance for each
\* value of a variable, one with a bare name among its variables.
EXTENDS JobEnvironment

a  == <<"a">>
ab == <<"a", "b">>
b  == <<"b">>

MCLetter   == {"a", "b"}
MCGetenv   == (b :> a)
MCClass    == {"each", "one"}
MCClassEnv == [c \in MCClass |-> IF c = "each" THEN <<Pair(a, b)>> ELSE <<Bare(b), Bare(ab)>>]
MCInstance == [c \in MCClass |-> IF c = "each" THEN <<Var(a)>> ELSE << >>]
MCGiven    == {<< >>, <<Pair(a, ab)>>, <<Bare(a)>>}
MCAssignments == {<<Pair(a, <<"$", "b">>)>>, <<Bare(ab), Pair(b, <<"}">>)>>, <<Pair(ab, ab)>>}
MCNames    == {<<a>>, <<ab>>, <<b>>, <<b, a>>}
MCDefaults == <<b, a>>

Oper == {"value", "default", "alternate", ":default", ":alternate"}
MCTemplates ==
    {<<Var(b), Lit(<<"$">>)>>, <<Dollar, Lit(a)>>, <<Lit(<<"$", "$">>), Dollar, Var(b)>>}
    \cup {<<Ref(<<Lit(k)>>, o, << >>), Lit(b)>> : k \in {ab, b}, o \in Oper}
    \cup {<<Ref(<<Ref(<<Lit(b)>>, "value", << >>)>>, o, <<Lit(a), Var(b)>>)>> : o \in Oper \ {"value"}}
    \cup {<<Ref(<<Lit(ab)>>, o, <<Lit(<<":">>), Ref(<<Lit(a)>>, "default", <<Lit(<<"-">>)>>)>>)>> :
              o \in Oper \ {"value"}}
=============================================================================
