--------------------------- MODULE PromptCompiler ---------------------------
(***************************************************************************)
(* agent/prompt with agent/events_provider.rs and agent/blob.rs: what an   *)
(* agent sends at the start of a turn.  The system prompt and the context  *)
(* providers contribute sections, which compete for the tokens of the      *)
(* model's context; events too large to be inlined go to the blob store    *)
(* and leave a reference.                                                  *)
(***************************************************************************)
EXTENDS Integers, Sequences, SequencesExt, FiniteSets, FiniteSetsExt, Functions, TLC

CONSTANTS
    ContextLengths,  \* context_length of the models
    SafetyMargin,    \* SAFETY_MARGIN
    Contributors,    \* other providers: name -> <<layer, priority, budget>>
    Small, Large,    \* events below and above INLINE_THRESHOLD
    SectionTokens,   \* sizes of what a provider produces, in tokens
    InputTokens,     \* sizes of the user's input
    MaxProviders, MaxPending, MaxDay,
    KeepDays         \* age at which blobs are deleted

\* A layer is one of Layers, a priority a byte and a budget what BudgetHint
\* holds; the names are those of no other source of a section.
ASSUME PromptAssumption ==
    /\ ContextLengths \subseteq Nat /\ SafetyMargin \in Nat /\ KeepDays \in Nat
    /\ SectionTokens \subseteq Nat /\ InputTokens \subseteq Nat
    /\ \A p \in DOMAIN Contributors :
          /\ p \notin {"system", "user", "memory", "events"}
          /\ Contributors[p] \in (0 .. 5) \X (0 .. 255) \X ({"fixed", "ratio", "dynamic"} \X Nat)

VARIABLES
    context,         \* context_length of the agent's model
    agent, contract, \* deltas of the system prompt: "none" or blank, "ok", "bad"
    providers,       \* registered providers: "memory", "events" or another
    hasBlobs,        \* the agent has a blob store
    pending,         \* bus_event_collector
    blobs,           \* key -> day it was created
    day,
    prompt           \* the last prompt compiled

promptVars == <<context, agent, contract, providers, hasBlobs, pending, blobs, day, prompt>>

Layers == [System |-> 0, Rules |-> 1, Tools |-> 2, Memory |-> 3, Events |-> 4, Input |-> 5]

NoPrompt == [pairs |-> <<>>, allocated |-> <<>>, kept |-> {}, refs |-> {}, on |-> 0,
             messages |-> <<>>]

PromptInit ==
    /\ context \in ContextLengths
    /\ agent = "none" /\ contract = "none"
    /\ providers = <<>>
    /\ hasBlobs \in BOOLEAN
    /\ pending = <<>>
    /\ blobs = <<>>
    /\ day = 0
    /\ prompt = NoPrompt

----------------------------------------------------------------------------
(* The system prompt stack                                                 *)

\* The kernel and the runtime delta, then each delta that is not blank. A
\* template that cannot be rendered leaves the kernel and the runtime only.
SystemParts ==
    IF "bad" \in {agent, contract} THEN <<"kernel", "runtime">>
    ELSE <<"kernel", "runtime">> \o (IF agent = "ok" THEN <<"agent">> ELSE <<>>)
                                \o (IF contract = "ok" THEN <<"contract">> ELSE <<>>)

----------------------------------------------------------------------------
(* Sections <<layer, priority, tokens, source>> and budgets                *)

layer(s) == s[1]
tokens(s) == s[3]
source(s) == s[4]

SystemPair == <<<<Layers.System, 0, Len(SystemParts), "system">>, <<"fixed", Len(SystemParts)>>>>

InputPair(n) == <<<<Layers.Input, 255, n, "user">>, <<"fixed", n>>>>

\* Events provider: an event is inlined, or stored and referenced, or left
\* out when there is no store or the insertion fails.
Inline(events) == {i \in DOMAIN events : events[i] \in Small}
References(events, stored) == {i \in DOMAIN events : events[i] \in stored}

\* What provider p contributes: the pair, or none.
Produced(p, events, stored, n) ==
    CASE p = "memory" ->
           IF n = 0 THEN <<>> ELSE <<<<<<Layers.Memory, 5, n, p>>, <<"ratio", 1>>>>>>
      [] p = "events" ->
           LET size == Cardinality(Inline(events)) + Cardinality(References(events, stored))
           IN  IF size = 0 THEN <<>>
               ELSE <<<<<<Layers.Events, 5, size, p>>, <<"dynamic", 0>>>>>>
      [] OTHER ->
           IF n = 0 THEN <<>>
           ELSE <<<<<<Contributors[p][1], Contributors[p][2], n, p>>, Contributors[p][3]>>>>

\* collect: the system section, then every provider in order
collect(events, stored, sizes) ==
    <<SystemPair>> \o FlattenSeq([i \in DOMAIN providers |->
                                   Produced(providers[i], events, stored, sizes[i])])

\* Layer, then priority; the sort is stable.
Sorted(pairs) ==
    LET s(i) == pairs[i][1]
        Less(i, j) == \/ s(i)[1] < s(j)[1]
                      \/ s(i)[1] = s(j)[1] /\ s(i)[2] < s(j)[2]
                      \/ s(i)[1] = s(j)[1] /\ s(i)[2] = s(j)[2] /\ i < j
        order == CHOOSE f \in [DOMAIN pairs -> DOMAIN pairs] :
                    \A i, j \in DOMAIN pairs : i < j => Less(f[i], f[j])
    IN  [i \in DOMAIN pairs |-> pairs[order[i]]]

EffectiveBudget == IF context > SafetyMargin THEN context - SafetyMargin ELSE 0

\* What a pair claims of the tokens that remain; a ratio is in quarters.
Claim(pair, remaining) ==
    CASE pair[2][1] = "fixed" -> pair[2][2]
      [] pair[2][1] = "ratio" -> (remaining * pair[2][2]) \div 4
      [] OTHER -> tokens(pair[1])

\* The order in which the passes serve the pairs: fixed budgets, then ratios,
\* then dynamic ones, each in the order of the prompt
Served(pairs) ==
    LET pass(i) == CASE pairs[i][2][1] = "fixed" -> 1
                     [] pairs[i][2][1] = "ratio" -> 2
                     [] OTHER -> 3
        Sooner(i, j) == pass(i) < pass(j) \/ (pass(i) = pass(j) /\ i < j)
    IN  CHOOSE f \in [DOMAIN pairs -> DOMAIN pairs] :
            \A i, j \in DOMAIN pairs : i < j => Sooner(f[i], f[j])

Granted(pair, remaining) == Min({Claim(pair, remaining), remaining})

\* Mutant of RemainingAfter: a pass starts with the whole budget again.
RemainingAfterReset(pairs, served, budget) ==
    LET after[k \in 0 .. Len(served)] ==
          IF k = 0 \/ pairs[served[k]][2][1] = "dynamic" THEN budget
          ELSE LET r == after[k - 1] IN r - Granted(pairs[served[k]], r)
    IN  after

\* What remains of the budget after k grants
RemainingAfter(pairs, served, budget) ==
    LET after[k \in 0 .. Len(served)] ==
          IF k = 0 THEN budget
          ELSE LET r == after[k - 1] IN r - Granted(pairs[served[k]], r)
    IN  after

allocate_budgets(pairs, budget) ==
    LET served == Served(pairs)
        after == RemainingAfter(pairs, served, budget)
        At(i) == CHOOSE k \in DOMAIN served : served[k] = i
    IN  [i \in DOMAIN pairs |-> Granted(pairs[i], after[At(i) - 1])]

\* The places of the sections that stay: a section is kept whole or dropped,
\* and the input layer always stays.
Trimmed(pairs, allocated) ==
    {i \in DOMAIN pairs : \/ layer(pairs[i][1]) = Layers.Input
                          \/ allocated[i] >= tokens(pairs[i][1])}

\* render_messages: one system message, and one user message of the others
\* unless they are empty. A message holds sections in the order of their places.
render_messages(sections) ==
    LET system == {i \in DOMAIN sections : layer(sections[i]) = Layers.System}
        others == {i \in DOMAIN sections : /\ layer(sections[i]) # Layers.System
                                           /\ tokens(sections[i]) > 0}
    IN  (IF system = {} THEN <<>> ELSE <<<<"system", system>>>>)
        \o (IF others = {} THEN <<>> ELSE <<<<"user", others>>>>)

----------------------------------------------------------------------------
(* Operations                                                              *)

\* set_system_prompt and set_system_prompt_delta, between two turns
SetSystemPrompt(d) ==
    /\ prompt = NoPrompt
    /\ agent' = d
    /\ UNCHANGED <<context, contract, providers, hasBlobs, pending, blobs, day, prompt>>

SetOutputContract(d) ==
    /\ prompt = NoPrompt
    /\ contract' = d
    /\ UNCHANGED <<context, agent, providers, hasBlobs, pending, blobs, day, prompt>>

Register(p) ==
    /\ prompt = NoPrompt
    /\ Len(providers) < MaxProviders
    /\ providers' = Append(providers, p)
    /\ UNCHANGED <<context, agent, contract, hasBlobs, pending, blobs, day, prompt>>

Push(e) ==
    /\ prompt = NoPrompt
    /\ Len(pending) < MaxPending
    /\ pending' = Append(pending, e)
    /\ UNCHANGED <<context, agent, contract, providers, hasBlobs, blobs, day, prompt>>

\* One compilation: the collector is drained, the sections are collected
\* and compiled with an input of n tokens. An insertion into the blob store
\* may fail; INSERT OR REPLACE makes a blob new again.
CompilePrompt(n, stored, sizes) ==
    LET pairs == Sorted(Append(collect(pending, stored, sizes), InputPair(n)))
        allocated == allocate_budgets(pairs, EffectiveBudget)
        kept == Trimmed(pairs, allocated)
        sections == [i \in kept |-> pairs[i][1]]
        asked == \E i \in DOMAIN providers : providers[i] = "events"
    IN  /\ prompt = NoPrompt
        /\ stored \subseteq (IF hasBlobs /\ asked THEN Large \cap ToSet(pending) ELSE {})
        /\ blobs' = [k \in DOMAIN blobs \cup stored |-> IF k \in stored THEN day ELSE blobs[k]]
        /\ pending' = <<>>
        /\ prompt' = [pairs |-> pairs, allocated |-> allocated, kept |-> kept, on |-> day,
                      messages |-> render_messages(sections),
                      refs |-> IF \E i \in DOMAIN sections : source(sections[i]) = "events"
                               THEN stored ELSE {}]
        /\ UNCHANGED <<context, agent, contract, providers, hasBlobs, day>>

\* The turn is over; the next one compiles its prompt afresh.
EndTurn ==
    /\ prompt # NoPrompt
    /\ prompt' = NoPrompt
    /\ UNCHANGED <<context, agent, contract, providers, hasBlobs, pending, blobs, day>>

\* delete_older_than
DeleteOlderThan ==
    /\ blobs' = [k \in {b \in DOMAIN blobs : blobs[b] >= day - KeepDays} |-> blobs[k]]
    /\ blobs' # blobs
    /\ UNCHANGED <<context, agent, contract, providers, hasBlobs, pending, day, prompt>>

NextDay ==
    /\ day < MaxDay
    /\ day' = day + 1
    /\ UNCHANGED <<context, agent, contract, providers, hasBlobs, pending, blobs, prompt>>

\* What the providers produce this time; the events provider's part follows
\* from the events.
Sizes == {f \in [DOMAIN providers -> SectionTokens] :
            \A i \in DOMAIN providers : providers[i] = "events" => f[i] = 0}

PromptNext ==
    \/ \E d \in {"none", "ok", "bad"} : SetSystemPrompt(d) \/ SetOutputContract(d)
    \/ \E p \in {"memory", "events"} \cup DOMAIN Contributors : Register(p)
    \/ \E e \in Small \cup Large : Push(e)
    \/ \E n \in InputTokens, stored \in SUBSET Large :
          \E sizes \in Sizes : CompilePrompt(n, stored, sizes)
    \/ EndTurn
    \/ DeleteOlderThan
    \/ NextDay

----------------------------------------------------------------------------
(* Properties                                                              *)

Section(p, i) == p.pairs[i][1]

\* What holds of a prompt p as it is compiled.
Fits(p) ==
    LET n       == Len(p.pairs)
        size    == [i \in DOMAIN p.pairs |-> tokens(Section(p, i))]
        others  == {i \in p.kept : layer(Section(p, i)) # Layers.Input}
        granted == SumFunction(p.allocated)
        last    == Max(p.kept)
    IN  /\ SumFunctionOnSet(size, others) + p.allocated[n] <= EffectiveBudget
        /\ granted <= EffectiveBudget
        /\ source(Section(p, 1)) = "system"
        /\ 1 \in others <=> size[1] <= EffectiveBudget
        /\ source(Section(p, last)) = "user"
        /\ size[last] > 0 => Last(p.messages)[1] = "user"
        /\ \A i \in DOMAIN p.pairs \ p.kept :
              p.pairs[i][2][1] = "dynamic" => granted = EffectiveBudget

\* The sections kept before the input, and the share of the input, are never
\* more than the budget: all passes together grant it at most once. The
\* system prompt comes first and survives whenever it fits at all, whatever
\* the providers claim; the user's input comes last and always survives. A
\* dynamic section is dropped only when the budget is used up, and the blob
\* behind a reference in the prompt is there until its time is over.
PromptFits ==
    prompt # NoPrompt =>
        Fits(prompt) /\ (prompt.refs \subseteq DOMAIN blobs \/ day - prompt.on > KeepDays)
=============================================================================
