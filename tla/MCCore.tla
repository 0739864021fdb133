------------------------------- MODULE MCCore -------------------------------
(***************************************************************************)
(* Small instances of what lies between an agent and a provider: routing   *)
(* a model name, compiling a prompt, encoding a conversation, reading the  *)
(* answer and choosing where its output goes.  They share no state: a      *)
(* behaviour exercises one of them (`part').                               *)
(***************************************************************************)
EXTENDS Invocation, ModelRouter, PromptCompiler, HandoffEval

CONSTANTS r1, r2

VARIABLE part

MCCalls      == {"x", "y"}
MCFunctionOf == [c \in MCCalls |-> "f"]
MCCallLists  == {<<>>, <<"x">>, <<"x", "y">>}

MCAnswers == <<
    \* text, and two calls that are both open when their arguments come
    <<<< <<"text", 0, 1, "wide">>, <<"call", 1, 0, "plain">>, <<"call", 2, 0, "plain">>,
         <<"args", 1, 2, "plain">>, <<"args", 2, 3, "wide">> >>, "tool_calls">>,
    \* text around an event that is too large
    <<<< <<"reason", 0, 1, "plain">>, <<"text", 0, 2, "big">>, <<"text", 0, 3, "plain">> >>,
      "stop">>,
    \* text that overflows the buffer
    <<<< <<"text", 0, 1, "plain">>, <<"text", 0, 2, "huge">>, <<"text", 0, 3, "plain">> >>,
      "length">>,
    \* the provider reports an error
    <<<< <<"text", 0, 1, "plain">> >>, "ended">>,
    <<<< <<"reason", 0, 1, "plain">> >>, "net">>,
    <<<<>>, "stop">> >>

MCResolvers == {r1, r2}
SymmetricResolvers == Permutations(MCResolvers)

MCNames == {"m1", "prov/m2", "al1", "al2", "c1-v1-v1", "pa/zz"}
\* a prefix and one version suffix are stripped at a time
MCNormal == [n \in MCNames \cup {"m2", "c1", "c1-v1", "zz"} |->
               CASE n = "prov/m2"  -> "m2"
                 [] n = "c1-v1-v1" -> "c1-v1"
                 [] n = "c1-v1"    -> "c1"
                 [] n = "pa/zz"    -> "zz"
                 [] OTHER          -> n]
\* two models open provider pa with different variables
MCCatalog ==
    "m1" :> <<<<"pb", 2, {"B"}, "hostname">>, <<"local", 1, {}, "empty">>,
              <<"pa", 1, {"A"}, "public">>>>
    @@ "m2" :> <<<<"pa", 1, {"B"}, "empty">>, <<"pc", 1, {}, "rejected">>>>
    @@ "m3" :> <<>>
MCAliases  == "al1" :> "m3"
MCDefaults == "pa" :> <<{"A"}, "public">> @@ "pb" :> <<{"B"}, "empty">>
MCSlashed  == "prov/m2" :> "prov" @@ "pa/zz" :> "pa"
MCKnown    == "local" :> {} @@ "pa" :> {"A"} @@ "pc" :> {"X"}
MCCustom   == <<<<"c1", {"al2"}, <<<<"pb", 1, {"B"}, "empty">>>>>>,
                <<"c1-v1", {"al2"}, <<<<"pc", 1, {}, "public">>>>>>>>

\* a system section with the priority of the system prompt itself, rules
\* with a fixed budget, and input of its own
MCContributors ==
    "other_system" :> <<Layers.System, 0, <<"dynamic", 0>>>>
    @@ "rules" :> <<Layers.Rules, 3, <<"fixed", 3>>>>
    @@ "more_input" :> <<Layers.Input, 9, <<"ratio", 2>>>>

\* "1+" is a decimal fraction within the tolerance of 1; 4 units are 1
MCNumberOf == "1" :> 4 @@ "1+" :> 5
MCBoolOf   == "true" :> TRUE
MCIndexOf  == "0" :> 0 @@ "1" :> 1
\* what a condition compares with, and the JSON text of what is no string
MCValues   == {<<"int", 4>>, <<"float", 4>>, <<"float", 8>>, <<"bool", TRUE>>, <<"null">>,
               <<"str", "1">>, <<"str", "1+">>, <<"str", "true">>, <<"str", "x">>,
               <<"str", "x1">>}
MCTextOf   == <<"int", 4>> :> "1" @@ <<"float", 4>> :> "1.0" @@ <<"float", 8>> :> "2.0"
              @@ <<"bool", TRUE>> :> "true" @@ <<"null">> :> "null"
MCWithin   == {<<w, w>> : w \in {"1", "1+", "true", "x", "x1"}}
              \cup {<<"x1", "x">>, <<"x1", "1">>, <<"1+", "1">>}

\* values of every type, at places that paths with one [any], two or none
\* lead to, and a path that is one too deep
MCElements == <<<<"obj", "a" :> <<"float", 4>> @@ "d" :> <<"arr", <<<<"int", 4>>>>>>>>,
                <<"obj", "a" :> <<"str", "x1">>>>, <<"bool", TRUE>>, <<"str", "1">>>>
MCDocuments ==
    {<<"obj", "a" :> <<"int", 4>> @@ "b" :> <<"arr", MCElements>> @@ "any" :> <<"str", "true">>
              @@ "d" :> <<"obj", "d" :> <<"obj", "d" :> <<"int", 4>>>>>>>>,
     <<"arr", MCElements>>,
     <<"null">>}
\* the values in them, and those of the conditions
MCJson ==
    LET Inside(v) == IF v[1] \in {"arr", "obj"} THEN Range(v[2]) ELSE {}
        More(S) == S \cup UNION {Inside(v) : v \in S}
    IN  More(More(More(MCDocuments))) \cup MCValues
MCPaths ==
    {<<"a">>, <<"any">>, <<"b", ".", "0">>, <<"[", "0", "]", ".", "a">>,
     <<"b", "[", "x", "]">>, <<"b", "[", "1">>, <<"b", "[", "1", "]", ".", "a">>,
     <<"[", "any", "]">>, <<"b", "[", "any", "]">>, <<"b", "[", "any", "]", ".", "a">>,
     <<"b", "[", "any", "]", ".", "d", "[", "0", "]">>,
     <<"b", "[", "any", "]", ".", "d", "[", "any", "]">>,
     <<"d", ".", "d">>, <<"d", ".", "d", ".", "d">>}
MCConditions ==
    [field : MCPaths, op : {"==", "!=", "<", ">", "<=", ">=", "contains", "~"}, value : MCValues]

NoRule == [default |-> FALSE, condition |-> <<>>, all |-> <<>>, any |-> <<>>,
           target |-> <<"end">>]
Default == [NoRule EXCEPT !.default = TRUE, !.target = <<"fork", <<"p", "", "q", "p">>>>]
\* one condition, a rule without a target in front of the default; and two
\* conditions under all and under any
MCRuleLists ==
    {<<[NoRule EXCEPT !.condition = <<c>>], Default>> : c \in MCConditions}
    \cup {LET c1 == [field |-> <<"a">>, op |-> "==", value |-> v]
               c2 == [field |-> <<"[", "any", "]">>, op |-> "!=", value |-> v]
           IN  <<NoRule, [NoRule EXCEPT !.all = <<<<>>>>, !.any = <<<<c1>>>>],
                 [NoRule EXCEPT !.all = <<<<c1, c2>>>>, !.target = <<"single", "p">>],
                 [NoRule EXCEPT !.any = <<<<c1, c2>>>>, !.target = <<"single", "q">>]>> :
          v \in MCValues}

coreVars == <<invocationVars, conversation, routerVars, promptVars, evalVars, part>>

CoreInit ==
    /\ part \in {"invocation", "conversation", "router", "prompt", "routing"}
    /\ InvocationInit
    /\ TransportInit
    /\ RouterInit
    /\ PromptInit
    /\ IF part = "routing" THEN EvalInit
       ELSE rules = <<>> /\ document = <<"null">> /\ decision = <<"none">>
    \* the parts that do not run start in one way only
    /\ part # "invocation" => answer = 1 /\ protocol = "openai"
    /\ part # "prompt" => context = 2 /\ hasBlobs

CoreNext ==
    \/ /\ part = "invocation" /\ InvocationNext
       /\ UNCHANGED <<conversation, routerVars, promptVars, evalVars, part>>
    \/ /\ part = "conversation" /\ TransportNext
       /\ UNCHANGED <<invocationVars, routerVars, promptVars, evalVars, part>>
    \/ /\ part = "router" /\ RouterNext
       /\ UNCHANGED <<invocationVars, conversation, promptVars, evalVars, part>>
    \/ /\ part = "prompt" /\ PromptNext
       /\ UNCHANGED <<invocationVars, conversation, routerVars, evalVars, part>>
    \/ /\ part = "routing" /\ Evaluate
       /\ UNCHANGED <<invocationVars, conversation, routerVars, promptVars, part>>

CoreSpec == CoreInit /\ [][CoreNext]_coreVars
=============================================================================
