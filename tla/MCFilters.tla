----------------------------- MODULE MCFilters -----------------------------
\* Filters with patterns that nest a repeat in a repeat, and a broken one.
EXTENDS Filters

Simple == {<<Lit("x")>>, <<Lit("x"), Lit("y")>>, <<Either(<<Lit("x")>>, <<Lit("x"), Lit("y")>>)>>,
           <<OneOf(TRUE, {"x"}), AnyChar>>, <<AtStart, Lit("x")>>, <<AtEnd>>}
Repeats(Bodies) == {Many(op, b) : op \in {"star", "plus", "quest"}, b \in Bodies}
Inner == Simple \cup {<<r>> : r \in Repeats(Simple)}
              \cup {<<r, Lit("x")>> : r \in Repeats(Simple)}
              \cup {<<r, s>> : r, s \in Repeats({<<Lit("x")>>, <<Lit("y")>>})}
Trees == Inner \cup {<<r>> : r \in Repeats(Inner)} \cup {<<r, Lit("x")>> : r \in Repeats(Inner)}
              \cup {<<Either(a, b)>> : a, b \in Inner}

Part(key, tree) == [key |-> key, tree |-> tree, text |-> Written(tree)]
Broken == [key |-> NoKey, tree |-> None, text |-> <<"(", "x">>]
Few == {Part(NoKey, <<Lit("x")>>), Part("user", <<Lit("y")>>), Part("ppid", <<AnyChar>>), Broken}
MCLists == {<<Part("user", t)>> : t \in Trees} \cup {<<a, b>> : a, b \in Few}

Proc(name, cmdline, user) == [fields |-> [name |-> name, user |-> user], cmdline |-> cmdline]
MCCandidates == {Proc(<<"y">>, <<<<"x">>>>, t) : t \in UNION {[1..n -> Chars] : n \in 0..3}}
               \cup {Proc(<<"x">>, <<>>, <<"x">>), Proc(<<"y">>, <<<<"y">>>>, <<"y">>)}
============================================================================
