----------------------------- MODULE HandoffEval ----------------------------
(***************************************************************************)
(* core/handoff.rs: which target the handoff rules of an agent choose for  *)
(* an output.  A JSON value is <<type, value>>; a string is one word, with *)
(* what parsing it gives in a table.  A path is a sequence of names, dots  *)
(* and brackets.  Numbers are counted in a unit smaller than               *)
(* FLOAT_EQ_EPSILON; a string that parses as NaN behaves like one that     *)
(* does not parse.                                                         *)
(***************************************************************************)
EXTENDS Integers, Sequences, SequencesExt, FiniteSets, TLC

CONSTANTS
    Values,          \* JSON values: what outputs and conditions are made of
    Documents,       \* outputs of an agent
    RuleLists,       \* lists of rules
    NumberOf,        \* word -> the number it parses as
    BoolOf,          \* word -> the Boolean it parses as
    IndexOf,         \* word -> the array index it parses as
    TextOf,          \* value that is no string -> its JSON text
    Within,          \* pairs of words, the second contained in the first
    Epsilon,         \* FLOAT_EQ_EPSILON
    MaxJsonDepth,    \* MAX_JSON_DEPTH
    MaxForkTargets   \* MAX_FORK_TARGETS

Condition == [field : Seq(STRING), op : STRING, value : Values]
Target    == {<<"end">>} \cup ({"single"} \X STRING) \cup ({"fork"} \X Seq(STRING))

\* A rule: whether it is the default, its condition, its conditions under
\* "all" and under "any", each as a sequence of at most one, and its target.
Rule == [default : BOOLEAN, condition : Seq(Condition), all : Seq(Seq(Condition)),
         any : Seq(Seq(Condition)), target : Target]

\* Numbers are integers, what an array or an object holds are values, and no
\* punctuation of a path parses as an index.
ASSUME EvalAssumption ==
    /\ MaxJsonDepth \in Nat /\ MaxForkTargets \in Nat /\ Epsilon \in Nat
    /\ \A w \in DOMAIN NumberOf : NumberOf[w] \in Int
    /\ \A w \in DOMAIN IndexOf : w \notin {"", ".", "[", "]", "any"} /\ IndexOf[w] \in Nat
    /\ \A v \in Values :
          /\ v[1] \in {"int", "float"} => v[2] \in Int
          /\ v[1] = "arr" => v[2] \in Seq(Values)
          /\ v[1] = "obj" => \A k \in DOMAIN v[2] : v[2][k] \in Values
    /\ Documents \subseteq Values /\ RuleLists \subseteq Seq(Rule)

VARIABLES
    rules,       \* handoff rules of a profile
    document,    \* the agent's output
    decision     \* what eval_rules chose

evalVars == <<rules, document, decision>>

----------------------------------------------------------------------------
(* Paths *)

Flushed(r) == IF r.word = "" THEN r
              ELSE [segs |-> Append(r.segs, <<"key", r.word>>), word |-> ""]

\* A bracket that holds neither "any" nor an index leaves no segment.
PathStep(r, t) ==
    CASE t \in {".", "["} -> Flushed(r)
      [] t = "]" ->
            [word |-> "",
             segs |-> r.segs \o (IF r.word = "any" THEN <<<<"any">>>>
                                 ELSE IF r.word \in DOMAIN IndexOf
                                 THEN <<<<"index", IndexOf[r.word]>>>> ELSE <<>>)]
      [] OTHER -> [r EXCEPT !.word = t]

Parsed(path) ==
    LET r[k \in 0 .. Len(path)] ==
            IF k = 0 THEN [segs |-> <<>>, word |-> ""] ELSE PathStep(r[k - 1], path[k])
    IN  r[Len(path)]

parse_path(path) == Flushed(Parsed(path)).segs

\* How a segment is written behind a path.
Written(path, s) ==
    CASE s[1] = "key" -> (IF path = <<>> THEN <<>> ELSE <<".">>) \o <<s[2]>>
      [] s[1] = "index" -> <<"[", CHOOSE w \in DOMAIN IndexOf : IndexOf[w] = s[2], "]">>
      [] OTHER -> <<"[", "any", "]">>

rebuild_path(segs) ==
    LET path[k \in 0 .. Len(segs)] ==
            IF k = 0 THEN <<>> ELSE path[k - 1] \o Written(path[k - 1], segs[k])
    IN  path[Len(segs)]

\* The first number of a set, 0 if it is empty
First(S) == IF S = {} THEN 0 ELSE Min(S)

FirstAny(segs) == First({i \in DOMAIN segs : segs[i][1] = "any"})

\* The path in front of the first [any] and the path behind it, or nothing.
split_at_any(path) ==
    LET segs == parse_path(path)
        i    == FirstAny(segs)
    IN  IF i = 0 THEN <<>>
        ELSE <<rebuild_path(SubSeq(segs, 1, i - 1)),
               rebuild_path(SubSeq(segs, i + 1, Len(segs)))>>

\* The member a segment names, as a set of at most one value.
Get(v, s) ==
    IF s[1] = "key"
    THEN IF v[1] = "obj" /\ s[2] \in DOMAIN v[2] THEN {v[2][s[2]]} ELSE {}
    ELSE IF v[1] = "arr" /\ s[2] + 1 \in DOMAIN v[2] THEN {v[2][s[2] + 1]} ELSE {}

\* [any] ends the traversal with the value reached so far.
Follow(r, s, depth) ==
    IF r.done THEN r
    ELSE IF depth > MaxJsonDepth THEN [done |-> TRUE, at |-> {}]
    ELSE IF s[1] = "any" THEN [r EXCEPT !.done = TRUE]
    ELSE [done |-> FALSE, at |-> UNION {Get(v, s) : v \in r.at}]

resolve_field(root, path) ==
    LET segs == parse_path(path)
        r[d \in 0 .. Len(segs)] ==
            IF d = 0 THEN [done |-> FALSE, at |-> {root}] ELSE Follow(r[d - 1], segs[d], d)
    IN  r[Len(segs)].at

----------------------------------------------------------------------------
(* Operators *)

IsNumber(v) == v[1] \in {"int", "float"}

\* The number a value stands for, as a set of at most one.
to_f64(v) == IF IsNumber(v) THEN {v[2]}
             ELSE IF v[1] = "str" /\ v[2] \in DOMAIN NumberOf THEN {NumberOf[v[2]]}
             ELSE {}

float_equal(x, y) == x - y < Epsilon /\ y - x < Epsilon

\* A string is parsed when the other side is a number, with a tolerance, or
\* is the value of the condition and the field a Boolean.  Two numbers must
\* be the same, and an integer is never a float.
values_equal(a, b) ==
    IF {a[1], b[1]} \in {{"str", "int"}, {"str", "float"}}
    THEN \E x \in to_f64(a), y \in to_f64(b) : float_equal(x, y)
    ELSE IF a[1] = "bool" /\ b[1] = "str"
    THEN b[2] \in DOMAIN BoolOf /\ BoolOf[b[2]] = a[2]
    ELSE a = b

\* How two numbers compare, as a set of at most one answer.
compare_values(a, b) ==
    {IF x < y THEN "Less" ELSE IF x > y THEN "Greater" ELSE "Equal" :
        x \in to_f64(a), y \in to_f64(b)}

string_contains(a, b) ==
    a[1] = "str" /\ <<a[2], IF b[1] = "str" THEN b[2] ELSE TextOf[b]>> \in Within

eval_operator(v, op, value) ==
    CASE op = "==" -> values_equal(v, value)
      [] op = "!=" -> ~values_equal(v, value)
      [] op = "<"  -> "Less" \in compare_values(v, value)
      [] op = ">"  -> "Greater" \in compare_values(v, value)
      [] op = "<=" -> compare_values(v, value) \cap {"Less", "Equal"} # {}
      [] op = ">=" -> compare_values(v, value) \cap {"Greater", "Equal"} # {}
      [] op = "contains" -> string_contains(v, value)
      [] OTHER -> FALSE

----------------------------------------------------------------------------
(* Rules *)

Satisfied(doc, path, c) ==
    \E v \in resolve_field(doc, path) : eval_operator(v, c.op, c.value)

\* Mutant of eval_condition: a path with [any] is followed as it stands.
EvalUnsplit(c, doc) == Satisfied(doc, c.field, c)

\* [any] means some element; a field that is missing satisfies no operator.
eval_condition(c, doc) ==
    LET split == split_at_any(c.field)
    IN  IF split = <<>> THEN Satisfied(doc, c.field, c)
        ELSE \E arr \in resolve_field(doc, split[1]) :
                arr[1] = "arr" /\ \E i \in DOMAIN arr[2] : Satisfied(arr[2][i], split[2], c)

\* Of a rule's conditions only the first kind that is there counts.
eval(rule, doc) ==
    IF rule.default THEN TRUE
    ELSE IF rule.condition # <<>> THEN eval_condition(rule.condition[1], doc)
    ELSE IF rule.all # <<>>
    THEN rule.all[1] # <<>> /\ \A i \in DOMAIN rule.all[1] : eval_condition(rule.all[1][i], doc)
    ELSE rule.any # <<>> /\ \E i \in DOMAIN rule.any[1] : eval_condition(rule.any[1][i], doc)

\* The names that are not blank.
NamesIn(names) ==
    LET some[k \in 0 .. Len(names)] ==
            IF k = 0 THEN <<>>
            ELSE IF names[k] = "" THEN some[k - 1] ELSE Append(some[k - 1], names[k])
    IN  some[Len(names)]

\* HandoffTarget::parse: the names of a fork that are not blank, cut short.
parse_target(t) ==
    IF t[1] # "fork" THEN t
    ELSE LET names == NamesIn(t[2])
         IN  <<"fork", IF Len(names) > MaxForkTargets THEN SubSeq(names, 1, MaxForkTargets)
                       ELSE names>>

\* The first rule that holds decides, also when it has no target.
eval_rules(q, doc) ==
    LET i == First({k \in DOMAIN q : eval(q[k], doc)})
    IN  IF i = 0 THEN <<"end">> ELSE parse_target(q[i].target)

EvalInit ==
    /\ rules \in RuleLists
    /\ document \in Documents
    /\ decision = <<"none">>

Evaluate ==
    /\ decision = <<"none">>
    /\ decision' = eval_rules(rules, document)
    /\ UNCHANGED <<rules, document>>

----------------------------------------------------------------------------
(* Properties *)

\* Where segments without [any] lead.
Reached(root, segs) ==
    LET at[k \in 0..Len(segs)] == IF k = 0 THEN {root}
                                  ELSE UNION {Get(v, segs[k]) : v \in at[k - 1]}
    IN  at[Len(segs)]

\* The values a condition speaks of: those that some choice of an element
\* for the first [any] leads to.  What follows a second [any] is ignored.
Denoted(c, doc) ==
    LET segs == parse_path(c.field)
        i    == FirstAny(segs)
        tail == SubSeq(segs, i + 1, Len(segs))
        j    == FirstAny(tail)
        rest == IF j = 0 THEN tail ELSE SubSeq(tail, 1, j - 1)
        Elements(v) == IF v[1] = "arr" THEN Range(v[2]) ELSE {}
    IN  IF \E n \in {i - 1, Len(rest), j} : n > MaxJsonDepth THEN {}
        ELSE IF i = 0 THEN Reached(doc, segs)
        ELSE UNION {Reached(e, rest) :
                      e \in UNION {Elements(v) : v \in Reached(doc, SubSeq(segs, 1, i - 1))}}

\* The conditions of a rule that count.
Conditions(rule) ==
    IF rule.condition # <<>> THEN {rule.condition[1]}
    ELSE IF rule.all # <<>> THEN Range(rule.all[1])
    ELSE IF rule.any # <<>> THEN Range(rule.any[1]) ELSE {}

\* eval_rules of core/handoff.rs follows its rules: the rule it chose holds
\* and none before it does, a condition with [any] holds when it holds of
\* some element, although the path is cut in two, written out and parsed
\* again on the way, and of a missing field nothing holds, != included.  The
\* operators agree with each other on whatever types meet: != is the
\* opposite of ==, numbers are less, greater or neither, and what is equal
\* is neither less nor greater, but for differences within the tolerance.
RoutingIsExact ==
    decision # <<"none">> =>
      LET Holds(c) == \E v \in Denoted(c, document) : eval_operator(v, c.op, c.value)
          Chosen(k) == LET r == rules[k] cs == Conditions(r)
                       IN  \/ r.default
                           \/ /\ cs # {}
                              /\ IF r.condition = <<>> /\ r.all # <<>>
                                 THEN \A c \in cs : Holds(c) ELSE \E c \in cs : Holds(c)
      IN  /\ \/ decision = <<"end">> /\ \A k \in DOMAIN rules : ~Chosen(k)
             \/ \E k \in DOMAIN rules :
                  /\ Chosen(k) /\ \A h \in 1..(k - 1) : ~Chosen(h)
                  /\ decision[1] = rules[k].target[1]
                  /\ decision[1] = "fork" =>
                       Len(decision[2]) <= MaxForkTargets /\ "" \notin Range(decision[2])
          /\ \A k \in DOMAIN rules : \A c \in Conditions(rules[k]) :
               \A v \in Denoted(c, document) :
                 LET Is(op) == eval_operator(v, op, c.value)
                 IN  /\ Is("!=") = ~Is("==")
                     /\ ~(Is("<") /\ Is(">"))
                     /\ Is("==") /\ (Is("<") \/ Is(">")) =>
                          \E x \in to_f64(v), y \in to_f64(c.value) : float_equal(x, y)
                     /\ (Is("<=") /\ Is(">=")) = (Is("<=") /\ ~Is("<"))
=============================================================================
