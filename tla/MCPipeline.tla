----------------------------- MODULE MCPipeline -----------------------------
(***************************************************************************)
(* Pipelines over three names.  a leads to a single agent, a fork, a fork  *)
(* of no names or nowhere; b and c may lead back (a cycle), on, or end;    *)
(* c need not be registered.                                               *)
(***************************************************************************)
EXTENDS Pipeline

CONSTANTS a, b, c

MCAgents == {a, b, c}

Profile(rules, fallback, skippable, plugins) ==
    [rules |-> rules, fallback |-> fallback, skippable |-> skippable, plugins |-> plugins]

ProfilesOfA ==
    {Profile(rules, fallback, skippable, FALSE) :
        rules \in {<<>>, <<Single(b)>>, <<Fork(<<b, c>>), Single(c)>>, <<Fork(<<>>)>>},
        fallback \in {Fork(<<b, c>>)},
        skippable \in BOOLEAN}
    \cup {Profile(<<Fork(<<b, c>>), Single(c)>>, End, TRUE, FALSE)}
ProfilesOfB ==
    {Profile(rules, End, TRUE, FALSE) : rules \in {<<>>, <<Single(c), End>>, <<Single(a)>>}}
    \cup {Profile(<<>>, Fork(<<c, a>>), TRUE, FALSE)}
ProfilesOfC ==
    {Profile(<<>>, End, FALSE, FALSE), Profile(<<>>, Single(c), TRUE, FALSE),
     Profile(<<End, Fork(<<>>)>>, End, FALSE, TRUE)}

MCRegistries ==
    {[x \in MCAgents |-> IF x = a THEN pa ELSE IF x = b THEN pb ELSE pc] :
        pa \in ProfilesOfA, pb \in ProfilesOfB, pc \in ProfilesOfC}
    \cup {[x \in {a, b} |-> IF x = a THEN pa ELSE pb] :
        pa \in ProfilesOfA, pb \in ProfilesOfB}
=============================================================================
