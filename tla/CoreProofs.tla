----------------------------- MODULE CoreProofs -----------------------------
(***************************************************************************)
(* What holds for any number of callers, of what lies between an agent and *)
(* a provider.                                                             *)
(***************************************************************************)
EXTENDS MCCore, SequenceLemmas, SequenceTheorems

----------------------------------------------------------------------------
(* The inductive invariant of the router                                   *)

Ids    == {Custom[k][1] : k \in DOMAIN Custom}
Models == ({"catalog"} \X DOMAIN Catalog) \cup ({"custom"} \X Ids)
Keys   == (Variables \X Nat) \cup {NoKey}
Results == {<<"none">>, <<"not_found">>, <<"missing">>} \cup ({"config"} \X Nat)
           \cup ({"ok"} \X Nat \X Keys) \cup ({"listing"} \X Models)

Modes == {"none", "resolve", "inspect", "override", "slashed", "list"}
Call  == [mode : Modes, pc : {"idle", "visit", "insert", "next"}, entries : Seq(Entry),
          seen : Seq(Keys), held : Keys, result : Results, todo : SUBSET Models,
          listed : SUBSET Models]

\* The models list_authenticated_models goes through, and their entries.
Known == ({"catalog"} \X DOMAIN Catalog) \cup ({"custom"} \X Registered)
EntriesOf(m) == IF m[1] = "catalog" THEN Catalog[m[2]] ELSE Custom[custom[m[2]]][3]

\* Whether the process has a credential for a cache key from elsewhere, and
\* whether a key may be cached for it.
Elsewhere(k) == (k[2] \cup VarsOf(k[1])) \cap External # {}
KeyFor(k, key) == /\ key[1] \in k[2] \cup VarsOf(k[1])
                  /\ key[1] \in External <=> key[2] = 0

Opens(e) == is_credentialless(e) \/ Elsewhere(credential_cache_key(e))

\* The environment and the registry have their types.
SettingInv ==
    /\ env \in [EnvVars -> Nat]
    /\ sets \in Nat
    /\ sets = 0 => \A v \in EnvVars : env[v] = 0
    /\ custom \in [Ids -> {0} \cup DOMAIN Custom]
    /\ call \in [Resolvers -> Call]

\* A cached key is a key of its entry; before the environment changes, None
\* is cached for the entries without an external credential only.
CacheInv ==
    \A k \in DOMAIN cache :
       /\ cache[k] \in Keys
       /\ cache[k] # NoKey => KeyFor(k, cache[k])
       /\ sets = 0 => (cache[k] # NoKey <=> Elsewhere(k))

Here(c) == c.entries[Len(c.seen) + 1]

\* A credentialless entry of another priority than the next one was passed.
Due(c) == /\ \E i \in DOMAIN c.seen : is_credentialless(c.entries[i])
          /\ \/ Len(c.seen) = Len(c.entries)
             \/ priority(Here(c)) # priority(c.entries[Len(c.seen)])

\* Where a call may be.
Placed(c) ==
    /\ Len(c.seen) <= Len(c.entries)
    /\ c.pc \in {"visit", "insert"} => c.mode # "none"
    /\ c.pc = "next" => c.mode = "list"
    /\ c.pc # "idle" => c.result[1] \in {"none", "listing"}
    /\ c.mode \in {"override", "slashed"} => Len(c.entries) = 1 /\ c.seen = <<>>
    /\ c.mode # "list" => c.todo = {}

\* Entries are visited by priority; those visited had no key, and those of
\* them that need none have the priority of the last one.
Ranked(c) ==
    c.mode \in {"resolve", "inspect"} =>
       /\ \A i, j \in DOMAIN c.entries :
             i <= j => priority(c.entries[i]) <= priority(c.entries[j])
       /\ \A i \in DOMAIN c.seen :
             /\ c.seen[i] = NoKey
             /\ is_credentialless(c.entries[i]) =>
                   priority(c.entries[i]) = priority(c.entries[Len(c.seen)])

KeysFit(c) ==
    \A i \in DOMAIN c.seen : c.seen[i] # NoKey => KeyOf(c.entries[i], c.seen[i])

\* Between the two locks: the key that is about to be cached.
Holding(c) ==
    c.pc = "insert" =>
       /\ Len(c.seen) < Len(c.entries)
       /\ c.held # NoKey => KeyOf(Here(c), c.held)
       /\ sets = 0 => (c.held # NoKey <=> Elsewhere(credential_cache_key(Here(c))))
       /\ c.mode \in {"resolve", "inspect", "list"} => ~is_credentialless(Here(c))
       /\ c.mode \in {"resolve", "inspect"} => ~Due(c)

\* What a call has answered.
Answered(c) ==
    /\ c.result[1] = "ok" =>
          LET i == c.result[2]
          IN  /\ c.result[3] # NoKey => KeyOf(c.entries[i], c.result[3])
              /\ c.mode = "resolve" => is_credentialless(c.entries[i]) \/ c.result[3] # NoKey
              /\ c.mode \in {"resolve", "override"} =>
                   \/ resolve_base_url(c.entries[i]) # "empty"
                   \/ is_credentialless(c.entries[i])
              /\ c.mode = "resolve" =>
                   /\ \A j \in DOMAIN c.seen : Usable(c, j) => Before(c, i, j)
                   /\ \A j \in Len(c.seen) + 1 .. Len(c.entries) : Before(c, i, j)
    /\ c.result[1] = "missing" /\ c.mode = "resolve" =>
          \A i \in DOMAIN c.entries : ~Usable(c, i)

\* The model list_authenticated_models is at, as a set of at most one.
Current(c) == IF c.result[1] = "listing" THEN {c.result[2]} ELSE {}

\* The list a call works through.
Listing(c) ==
    c.mode = "list" =>
       /\ c.todo \subseteq Known
       /\ Current(c) \subseteq Known \ c.todo
       /\ c.pc \in {"visit", "insert"} => Current(c) # {}
       /\ Current(c) = {} => c.seen = <<>>
       /\ \A m \in Current(c) : c.entries = EntriesOf(m)
       /\ c.pc = "idle" => c.todo = {} /\ Current(c) = {}

\* What the list holds, as long as the environment is what it was.
Listed(c) ==
    c.mode = "list" /\ sets = 0 =>
       /\ c.listed = {m \in Known \ (c.todo \cup Current(c)) :
                         \E i \in DOMAIN EntriesOf(m) : Opens(EntriesOf(m)[i])}
       /\ \A i \in DOMAIN c.seen :
             c.seen[i] # NoKey <=> Elsewhere(credential_cache_key(c.entries[i]))
       /\ c.pc \in {"visit", "insert"} => \A i \in DOMAIN c.seen : ~Opens(c.entries[i])
       /\ c.pc = "next" /\ Current(c) # {} =>
             \/ c.seen # <<>> /\ Opens(c.entries[Len(c.seen)])
             \/ \A i \in DOMAIN c.entries : ~Opens(c.entries[i]) /\ Len(c.seen) = Len(c.entries)

CallInv(c) == /\ Placed(c) /\ Ranked(c) /\ KeysFit(c) /\ Holding(c)
              /\ Answered(c) /\ Listing(c) /\ Listed(c)

RouterInv == SettingInv /\ CacheInv /\ \A r \in Resolvers : CallInv(call[r])

----------------------------------------------------------------------------
(* Providers by priority                                                   *)

\* t holds what s holds, by priority.
ByPriority(t, s) ==
    /\ t \in Seq(Entry) /\ Len(t) = Len(s)
    /\ \A i, j \in DOMAIN t : i <= j => priority(t[i]) <= priority(t[j])

\* SortedProviders sorts.
LEMMA SortedIs ==
    ASSUME NEW s \in Seq(Entry)
    PROVE  ByPriority(SortedProviders(s), s)
  <1> DEFINE n == Len(s)
             D == 1 .. n
             f == [i \in D |-> priority(s[i])]
             L == {x \in D \X D : f[x[1]] < f[x[2]] \/ (f[x[1]] = f[x[2]] /\ x[1] < x[2])}
             Earlier(i, j) == \/ priority(s[i]) < priority(s[j])
                              \/ priority(s[i]) = priority(s[j]) /\ i < j
             order == [k \in DOMAIN s |-> CHOOSE i \in DOMAIN s :
                         Cardinality({j \in DOMAIN s : Earlier(j, i)}) = k - 1]
  <1>1. n \in Nat /\ DOMAIN s = D
    OBVIOUS
  <1>2. f \in [D -> Nat] /\ \A i \in D : f[i] = priority(s[i])
    BY DEF Entry, priority
  <1> HIDE DEF n, f
  <1>3. \A i, j \in D : <<i, j>> \in L <=> f[i] < f[j] \/ (f[i] = f[j] /\ i < j)
    OBVIOUS
  <1> HIDE DEF L
  <1>4. Places(n, L)
    <2>1. \A i \in D : <<i, i>> \notin L
      BY <1>1, <1>2, <1>3
    <2>2. ASSUME NEW i \in D, NEW j \in D
          PROVE  i = j \/ <<i, j>> \in L \/ <<j, i>> \in L
      <3>1. i \in Nat /\ j \in Nat /\ f[i] \in Nat /\ f[j] \in Nat
        BY <1>1, <1>2
      <3>2. QED
        BY <3>1, <1>3
    <2>3. \A i, j, h \in D : <<i, j>> \in L /\ <<j, h>> \in L => <<i, h>> \in L
      BY <1>1, <1>2, <1>3
    <2>4. Orders(L, n)
      BY <2>1, <2>2, <2>3 DEF Orders
    <2>5. QED
      BY <1>1, <2>4, Ordering
  <1>5. \A k \in D : order[k] \in D /\ HasPlace(order[k], k, n, L)
    <2>1. \A i \in D : {j \in DOMAIN s : Earlier(j, i)} = {j \in D : <<j, i>> \in L}
      BY <1>1, <1>2, <1>3
    <2>2. \A k, i \in D : HasPlace(i, k, n, L)
                          <=> Cardinality({j \in DOMAIN s : Earlier(j, i)}) = k - 1
      BY <2>1 DEF HasPlace
    <2> HIDE DEF Earlier
    <2>3. ASSUME NEW k \in D
          PROVE  order[k] \in D /\ HasPlace(order[k], k, n, L)
      <3>1. \E i \in D : HasPlace(i, k, n, L)
        BY <1>4 DEF Places
      <3>2. \E i \in D : Cardinality({j \in DOMAIN s : Earlier(j, i)}) = k - 1
        BY <3>1, <2>2
      <3>3. order[k] \in D /\ Cardinality({j \in DOMAIN s : Earlier(j, order[k])}) = k - 1
        BY <1>1, <3>2
      <3>4. QED
        BY <3>3, <2>2
    <2>4. QED
      BY <2>3
  <1>6. SortedProviders(s) = [k \in D |-> s[order[k]]]
    BY <1>1 DEF SortedProviders
  <1> HIDE DEF order
  <1>7. \A i, j \in D : i < j => f[order[i]] <= f[order[j]]
    <2>1. ASSUME NEW i \in D, NEW j \in D, i < j
          PROVE  f[order[i]] <= f[order[j]]
      <3>1. order[i] \in D /\ order[j] \in D /\ <<order[i], order[j]>> \in L
        BY <1>4, <1>5, <2>1 DEF Places
      <3>2. f[order[i]] \in Nat /\ f[order[j]] \in Nat
        BY <1>2, <3>1
      <3>3. QED
        BY <1>3, <3>1, <3>2
    <2>2. QED
      BY <2>1
  <1> DEFINE t == SortedProviders(s)
  <1>8. t \in Seq(Entry) /\ Len(t) = n /\ DOMAIN t = D
    <2>1. \A i \in D : s[order[i]] \in Entry
      BY <1>1, <1>5
    <2>2. QED
      BY <1>1, <1>6, <2>1
  <1>9. \A i \in D : priority(t[i]) = f[order[i]]
    BY <1>2, <1>5, <1>6
  <1> HIDE DEF t
  <1>10. ASSUME NEW i \in D, NEW j \in D, i <= j
         PROVE  priority(t[i]) <= priority(t[j])
    <2>1. f[order[i]] \in Nat /\ f[order[j]] \in Nat
      BY <1>2, <1>5
    <2>2. i = j \/ i < j
      BY <1>1, <1>10
    <2>3. QED
      BY <2>1, <2>2, <1>7, <1>9
  <1>11. QED
    BY <1>8, <1>10 DEF ByPriority, t, n

----------------------------------------------------------------------------
(* What a step of a call changes                                           *)

\* call r becomes d, and nothing else changes but the cache.
Becomes(r, d) == call' = [call EXCEPT ![r] = d]
Steady == UNCHANGED <<env, sets, custom>>

\* A step of one caller.
LEMMA OneCall ==
    ASSUME RouterInv, NEW r \in Resolvers, NEW d \in Call, Becomes(r, d), Steady,
           CacheInv', CallInv(d)
    PROVE  RouterInv'
  <1>1. SettingInv'
    BY DEF RouterInv, SettingInv, Becomes, Steady
  <1>2. ASSUME NEW q \in Resolvers
        PROVE  CallInv(call'[q])
    <2>1. CASE q = r
      <3>1. call'[q] = d
        BY <2>1 DEF RouterInv, SettingInv, Becomes
      <3>2. QED
        BY <3>1
    <2>2. CASE q # r
      <3>1. call'[q] = call[q]
        BY <2>2 DEF RouterInv, SettingInv, Becomes
      <3>2. CallInv(call[q])
        BY DEF RouterInv
      <3>3. QED
        BY <3>1, <3>2
    <2>3. QED
      BY <2>1, <2>2
  <1>3. ASSUME NEW q \in Resolvers
        PROVE  CallInv(call[q])'
    <2>1. CallInv(call'[q])
      BY <1>2
    <2>2. sets' = sets /\ custom' = custom
      BY DEF Steady
    <2>3. QED
      BY <2>1, <2>2 DEF CallInv, Placed, Ranked, KeysFit, Holding, Answered, Listing, Listed,
            Known, Registered, EntriesOf
  <1>4. QED
    BY <1>1, <1>3 DEF RouterInv

\* The cache as it was.
LEMMA CacheStays ==
    ASSUME CacheInv, Steady, cache' = cache
    PROVE  CacheInv'
  BY DEF CacheInv, Steady

\* A model's entries.
LEMMA EntriesTyped ==
    ASSUME SettingInv, NEW m \in Known
    PROVE  m \in Models /\ EntriesOf(m) \in Seq(Entry)
  <1>1. ASSUME NEW id \in Registered
        PROVE  id \in Ids /\ Custom[custom[id]][3] \in Seq(Entry)
    <2>1. id \in Ids /\ custom[id] \in DOMAIN Custom
      BY DEF SettingInv, Registered
    <2>2. Custom[custom[id]] \in STRING \X (SUBSET STRING) \X Seq(Entry)
      BY <2>1, RouterAssumption
    <2>3. QED
      BY <2>1, <2>2
  <1>2. QED
    BY <1>1, RouterAssumption DEF Known, Models, EntriesOf

LEMMA ModelTyped ==
    ASSUME SettingInv, NEW name, NEW id \in Canonical(name)
    PROVE  get_model(id) \in Seq(Entry)
  <1>1. ASSUME NEW n, NEW x \in resolve_alias(n)
        PROVE  x \in DOMAIN Catalog \cup Registered
    BY <1>1, RouterAssumption DEF resolve_alias
  <1>2. id \in DOMAIN Catalog \cup Registered
    BY <1>1 DEF Canonical
  <1>3. ASSUME id \in Registered
        PROVE  Custom[custom[id]][3] \in Seq(Entry)
    <2>1. <<"custom", id>> \in Known
      BY <1>3 DEF Known
    <2>2. EntriesOf(<<"custom", id>>) \in Seq(Entry)
      BY <2>1, EntriesTyped
    <2>3. QED
      BY <2>2 DEF EntriesOf
  <1>4. QED
    BY <1>2, <1>3, RouterAssumption DEF get_model

----------------------------------------------------------------------------
(* Calls that begin                                                        *)

\* A call that has just begun, and what it may begin with.
Begun(mode, es) == [IdleCall EXCEPT !.mode = mode, !.pc = "visit", !.entries = es]
Suits(mode, es) ==
    /\ mode \in {"resolve", "inspect", "override", "slashed"}
    /\ es \in Seq(Entry)
    /\ mode \in {"resolve", "inspect"} =>
          \A i, j \in DOMAIN es : i <= j => priority(es[i]) <= priority(es[j])
    /\ mode \in {"override", "slashed"} => Len(es) = 1

\* An idle call.
LEMMA IdleIs ==
    /\ IdleCall \in Call
    /\ IdleCall.mode = "none" /\ IdleCall.pc = "idle" /\ IdleCall.entries = <<>>
    /\ IdleCall.seen = <<>> /\ IdleCall.held = NoKey /\ IdleCall.result = <<"none">>
    /\ IdleCall.todo = {} /\ IdleCall.listed = {}
  BY DEF IdleCall, Call, Modes, Keys, Results

LEMMA IdleKeeps == CallInv(IdleCall)
  BY IdleIs DEF CallInv, Placed, Ranked, KeysFit, Holding, Answered, Listing, Listed

LEMMA BegunKeeps ==
    ASSUME NEW mode, NEW es, Suits(mode, es)
    PROVE  Begun(mode, es) \in Call /\ CallInv(Begun(mode, es))
  <1> DEFINE d == Begun(mode, es)
  <1>1. /\ d \in Call /\ d.mode = mode /\ d.pc = "visit" /\ d.entries = es
        /\ d.seen = <<>> /\ d.result = <<"none">> /\ d.todo = {}
    <2>1. mode \in Modes /\ es \in Seq(Entry)
      BY DEF Suits, Modes
    <2>2. QED
      BY <2>1, IdleIs DEF Begun, Call
  <1>2. mode \in {"resolve", "inspect", "override", "slashed"}
    BY DEF Suits
  <1> HIDE DEF d
  <1>3. Placed(d)
    BY <1>1, <1>2 DEF Placed, Suits
  <1>4. Ranked(d)
    BY <1>1, <1>2 DEF Ranked, Suits
  <1>5. KeysFit(d) /\ Holding(d) /\ Answered(d)
    BY <1>1 DEF KeysFit, Holding, Answered
  <1>6. Listing(d) /\ Listed(d)
    BY <1>1, <1>2 DEF Listing, Listed
  <1>7. QED
    BY <1>1, <1>3, <1>4, <1>5, <1>6 DEF CallInv, d

\* A call that begins.
LEMMA BeginsKeeps ==
    ASSUME RouterInv, NEW r \in Resolvers, NEW mode, NEW es, Suits(mode, es),
           Begins(r, mode, es), UNCHANGED <<env, sets, cache, custom>>
    PROVE  RouterInv'
  <1> DEFINE d == Begun(mode, es)
  <1>1. Becomes(r, d)
    BY DEF Begins, Becomes, Begun
  <1>2. d \in Call /\ CallInv(d)
    BY BegunKeeps
  <1>3. Steady /\ CacheInv'
    BY CacheStays DEF Steady, RouterInv
  <1> HIDE DEF d
  <1>4. QED
    BY <1>1, <1>2, <1>3, OneCall

LEMMA BeginStep ==
    ASSUME RouterInv, NEW r \in Resolvers, NEW name, NEW mode \in {"resolve", "inspect"},
           Begin(r, name, mode)
    PROVE  RouterInv'
  <1>1. PICK id \in Canonical(name) : Begins(r, mode, SortedProviders(get_model(id)))
    BY DEF Begin
  <1> DEFINE s == get_model(id)
             t == SortedProviders(s)
  <1>2. s \in Seq(Entry)
    BY ModelTyped DEF RouterInv
  <1> HIDE DEF s
  <1>3. ByPriority(t, s)
    BY <1>2, SortedIs
  <1> HIDE DEF t
  <1>4. Suits(mode, t)
    BY <1>3 DEF ByPriority, Suits
  <1>5. UNCHANGED <<env, sets, cache, custom>>
    BY DEF Begin
  <1>6. Begins(r, mode, t)
    BY <1>1 DEF s, t
  <1>7. QED
    BY <1>4, <1>5, <1>6, BeginsKeeps

LEMMA OverrideStep ==
    ASSUME RouterInv, NEW r \in Resolvers, NEW name, NEW p, Override(r, name, p)
    PROVE  RouterInv'
  <1>1. PICK id \in Canonical(name) :
           LET own == {i \in DOMAIN get_model(id) : provider_id(get_model(id)[i]) = p}
           IN  /\ own # {}
               /\ Begins(r, "override",
                         <<get_model(id)[CHOOSE i \in own : \A j \in own : i <= j]>>)
    BY DEF Override
  <1> DEFINE s == get_model(id)
             own == {i \in DOMAIN s : provider_id(s[i]) = p}
             first == CHOOSE i \in own : \A j \in own : i <= j
             t == <<s[first]>>
  <1>2. s \in Seq(Entry)
    BY ModelTyped DEF RouterInv
  <1>3. own # {} /\ Begins(r, "override", t)
    BY <1>1
  <1> HIDE DEF s
  <1>4. own \subseteq Nat /\ own \subseteq DOMAIN s
    BY <1>2
  <1> HIDE DEF own
  <1>5. first \in DOMAIN s
    <2>1. \E i \in own : \A j \in own : i <= j
      BY <1>3, <1>4, LeastNatural
    <2>2. first \in own
      BY <2>1
    <2>3. QED
      BY <1>4, <2>2
  <1> HIDE DEF first
  <1>6. s[first] \in Entry
    BY <1>2, <1>5
  <1>7. Suits("override", t)
    BY <1>6 DEF Suits
  <1> HIDE DEF t
  <1>8. UNCHANGED <<env, sets, cache, custom>>
    BY DEF Override
  <1>9. QED
    BY <1>3, <1>7, <1>8, BeginsKeeps

LEMMA SlashedStep ==
    ASSUME RouterInv, NEW r \in Resolvers, NEW name, InspectSlashed(r, name)
    PROVE  RouterInv'
  <1> DEFINE p == Slashed[name]
             e == <<p, 1, Defaults[p][1], Defaults[p][2]>>
             t == <<e>>
  <1>1. p \in DOMAIN Defaults /\ Begins(r, "slashed", t) /\ UNCHANGED <<env, sets, cache, custom>>
    BY DEF InspectSlashed
  <1> HIDE DEF p
  <1>2. e \in Entry
    <2>1. p \in STRING /\ Defaults[p] \in (SUBSET Variables) \X Urls
      BY <1>1, RouterAssumption
    <2>2. QED
      BY <2>1 DEF Entry
  <1> HIDE DEF e
  <1>3. Suits("slashed", t)
    BY <1>2 DEF Suits
  <1> HIDE DEF t
  <1>4. QED
    BY <1>1, <1>3, BeginsKeeps

LEMMA NotFoundStep ==
    ASSUME RouterInv, NEW r \in Resolvers, NEW name, NEW mode, NotFound(r, name, mode)
    PROVE  RouterInv'
  <1> DEFINE d == [IdleCall EXCEPT !.result = <<"not_found">>]
  <1>1. Becomes(r, d) /\ UNCHANGED <<env, sets, cache, custom>>
    BY DEF NotFound, Becomes
  <1>2. /\ d \in Call /\ d.mode = "none" /\ d.pc = "idle" /\ d.entries = <<>> /\ d.seen = <<>>
        /\ d.result = <<"not_found">> /\ d.todo = {}
    BY IdleIs DEF Call, Results
  <1> HIDE DEF d
  <1>3. CallInv(d)
    BY <1>2 DEF CallInv, Placed, Ranked, KeysFit, Holding, Answered, Listing, Listed
  <1>4. Steady /\ CacheInv'
    BY <1>1, CacheStays DEF Steady, RouterInv
  <1>5. QED
    BY <1>1, <1>2, <1>3, <1>4, OneCall

----------------------------------------------------------------------------
(* Entries that are passed                                                 *)

\* A caller goes on to a call as it should be.
Moves(r) == \E d \in Call : Becomes(r, d) /\ CallInv(d)

LEMMA MovesKeeps ==
    ASSUME RouterInv, NEW r \in Resolvers, Moves(r), Steady, CacheInv'
    PROVE  RouterInv'
  <1>1. PICK d \in Call : Becomes(r, d) /\ CallInv(d)
    BY DEF Moves
  <1>2. QED
    BY <1>1, OneCall

\* The current entry of a call is there and has its type.
LEMMA HereIs ==
    ASSUME NEW c \in Call, Len(c.seen) < Len(c.entries)
    PROVE  /\ Len(c.seen) \in Nat /\ Len(c.entries) \in Nat
           /\ Len(c.seen) + 1 \in DOMAIN c.entries
           /\ Here(c) \in Entry
  <1>1. c.seen \in Seq(Keys) /\ c.entries \in Seq(Entry)
    BY DEF Call
  <1>2. QED
    BY <1>1 DEF Here

LEMMA DueIs ==
    ASSUME NEW r \in Resolvers
    PROVE  TakesCredentialless(r) <=>
              call[r].mode \in {"resolve", "inspect"} /\ Due(call[r])
  BY DEF TakesCredentialless, BestCredentialless, Due, Visited, At, Here

\* d is c with key seen at the current entry.
Extended(d, c, pc, key) ==
    /\ d.mode = c.mode /\ d.entries = c.entries /\ d.result = c.result
    /\ d.todo = c.todo /\ d.listed = c.listed
    /\ d.seen = Append(c.seen, key) /\ d.pc = pc

\* When a call may go on with key seen.
Passes(c, pc, key) ==
    /\ c.pc \in {"visit", "insert"}
    /\ Len(c.seen) < Len(c.entries)
    /\ key \in Keys
    /\ key # NoKey => KeyOf(Here(c), key)
    /\ c.mode \in {"resolve", "inspect", "list"}
    /\ c.mode \in {"resolve", "inspect"} => key = NoKey /\ pc = "visit" /\ ~Due(c)
    /\ c.mode = "list" /\ sets = 0 => (key # NoKey <=> Elsewhere(credential_cache_key(Here(c))))
    /\ c.mode = "list" =>
          pc = IF is_credentialless(Here(c)) \/ key # NoKey THEN "next" ELSE "visit"

LEMMA ExtendedKeeps ==
    ASSUME NEW c \in Call, NEW d \in Call, NEW pc, NEW key, CallInv(c),
           Extended(d, c, pc, key), Passes(c, pc, key)
    PROVE  CallInv(d)
  <1> DEFINE n == Len(c.seen)
             e == Here(c)
  <1>1. n \in Nat /\ Len(c.entries) \in Nat /\ n < Len(c.entries) /\ n + 1 \in DOMAIN c.entries
    BY HereIs DEF Passes
  <1>2. c.seen \in Seq(Keys) /\ c.entries \in Seq(Entry) /\ key \in Keys
    BY DEF Call, Passes
  <1>3. /\ Len(d.seen) = n + 1 /\ DOMAIN d.seen = 1 .. n + 1 /\ d.seen[n + 1] = key
        /\ \A i \in 1 .. n : d.seen[i] = c.seen[i]
        /\ d.seen # <<>>
    <2> DEFINE q == c.seen
               t == Append(q, key)
    <2>1. d.seen = t
      BY DEF Extended
    <2> HIDE DEF q
    <2>2. q \in Seq(Keys) /\ Len(q) = n
      BY <1>2 DEF q
    <2> HIDE DEF n
    <2>3. /\ Len(t) = n + 1 /\ DOMAIN t = 1 .. n + 1 /\ t[n + 1] = key
          /\ \A i \in 1 .. n : t[i] = q[i]
          /\ t # <<>>
      BY <1>1, <1>2, <2>2
    <2> HIDE DEF t
    <2>4. QED
      BY <2>1, <2>3 DEF q
  <1>4. DOMAIN c.seen = 1 .. n /\ \A i \in 1 .. n + 1 : i \in 1 .. n \/ i = n + 1
    BY <1>1, <1>2
  <1>5. e = c.entries[n + 1]
    BY DEF Here
  <1> HIDE DEF n, e
  <1>6. /\ d.mode = c.mode /\ d.entries = c.entries /\ d.result = c.result
        /\ d.todo = c.todo /\ d.listed = c.listed /\ d.pc = pc
    BY DEF Extended
  <1>7. c.mode \in {"resolve", "inspect", "list"} /\ c.pc \in {"visit", "insert"}
        /\ pc \in {"visit", "next"} /\ (pc = "next" => c.mode = "list")
    BY DEF Passes
  <1>8. Placed(d)
    <2>1. Placed(c)
      BY DEF CallInv
    <2>2. QED
      BY <2>1, <1>1, <1>3, <1>6, <1>7 DEF Placed
  <1>9. Ranked(d)
    <2>1. SUFFICES ASSUME c.mode \in {"resolve", "inspect"}
                   PROVE  Ranked(d)
      BY <1>6 DEF Ranked
    <2>2. key = NoKey /\ ~Due(c)
      BY <2>1 DEF Passes
    <2>3. /\ \A i, j \in DOMAIN c.entries :
                i <= j => priority(c.entries[i]) <= priority(c.entries[j])
          /\ \A i \in 1 .. n : /\ c.seen[i] = NoKey
                               /\ is_credentialless(c.entries[i]) =>
                                    priority(c.entries[i]) = priority(c.entries[n])
      BY <2>1, <1>4 DEF CallInv, Ranked, n
    <2>4. \A i \in 1 .. n : is_credentialless(c.entries[i]) => priority(e) = priority(c.entries[n])
      BY <2>2, <1>4 DEF Due, n, e
    <2>5. \A i \in 1 .. n + 1 : /\ d.seen[i] = NoKey
                                /\ is_credentialless(c.entries[i]) =>
                                     priority(c.entries[i]) = priority(c.entries[n + 1])
      BY <2>2, <2>3, <2>4, <1>3, <1>4, <1>5
    <2>6. QED
      BY <2>3, <2>5, <1>3, <1>6 DEF Ranked
  <1>10. KeysFit(d)
    <2>1. \A i \in 1 .. n : c.seen[i] # NoKey => KeyOf(c.entries[i], c.seen[i])
      BY <1>4 DEF CallInv, KeysFit
    <2>2. key # NoKey => KeyOf(c.entries[n + 1], key)
      BY <1>5 DEF Passes, e
    <2>3. QED
      BY <2>1, <2>2, <1>3, <1>4, <1>6 DEF KeysFit
  <1>11. Holding(d)
    BY <1>6, <1>7 DEF Holding
  <1>12. Answered(d)
    <2>1. c.result[1] \in {"none", "listing"}
      BY <1>7 DEF CallInv, Placed
    <2>2. QED
      BY <2>1, <1>6 DEF Answered
  <1>13. Listing(d)
    <2>1. Listing(c)
      BY DEF CallInv
    <2>2. QED
      BY <2>1, <1>6, <1>7 DEF Listing, Current
  <1>14. Listed(d)
    <2>1. SUFFICES ASSUME c.mode = "list", sets = 0
                   PROVE  Listed(d)
      BY <1>6 DEF Listed
    <2>2. key # NoKey <=> Elsewhere(credential_cache_key(e))
      BY <2>1 DEF Passes, e
    <2>3. pc = IF is_credentialless(e) \/ key # NoKey THEN "next" ELSE "visit"
      BY <2>1 DEF Passes, e
    <2>4. \A i \in 1 .. n : /\ ~Opens(c.entries[i])
                            /\ c.seen[i] # NoKey
                                  <=> Elsewhere(credential_cache_key(c.entries[i]))
      BY <2>1, <1>4, <1>7 DEF CallInv, Listed
    <2>5. Opens(e) <=> pc = "next"
      BY <2>2, <2>3 DEF Opens
    <2>6. d.listed = {m \in Known \ (d.todo \cup Current(d)) :
                         \E i \in DOMAIN EntriesOf(m) : Opens(EntriesOf(m)[i])}
      BY <2>1, <1>6 DEF CallInv, Listed, Current
    <2>7. \A i \in 1 .. n + 1 :
             d.seen[i] # NoKey <=> Elsewhere(credential_cache_key(d.entries[i]))
      BY <2>2, <2>4, <1>3, <1>4, <1>5, <1>6
    <2>8. pc = "visit" => \A i \in 1 .. n + 1 : ~Opens(d.entries[i])
      BY <2>4, <2>5, <1>4, <1>5, <1>6
    <2>9. pc = "next" => Opens(d.entries[n + 1])
      BY <2>5, <1>5, <1>6
    <2>10. d.pc \in {"visit", "insert"} => \A i \in DOMAIN d.seen : ~Opens(d.entries[i])
      BY <2>8, <1>3, <1>6, <1>7
    <2>11. d.pc = "next" => d.seen # <<>> /\ Opens(d.entries[Len(d.seen)])
      BY <2>9, <1>3, <1>6
    <2>12. \A i \in DOMAIN d.seen :
             d.seen[i] # NoKey <=> Elsewhere(credential_cache_key(d.entries[i]))
      BY <2>7, <1>3
    <2> HIDE DEF Opens, Elsewhere
    <2>13. QED
      BY <2>6, <2>10, <2>11, <2>12 DEF Listed
  <1>15. QED
    BY <1>8, <1>9, <1>10, <1>11, <1>12, <1>13, <1>14 DEF CallInv

----------------------------------------------------------------------------
(* Answers                                                                 *)

Returned(c, res) == [c EXCEPT !.pc = "idle", !.held = NoKey, !.result = res]

LEMMA ReturnedKeeps ==
    ASSUME NEW c \in Call, CallInv(c), c.mode # "list", NEW res \in Results,
           Answered(Returned(c, res))
    PROVE  Returned(c, res) \in Call /\ CallInv(Returned(c, res))
  <1> DEFINE d == Returned(c, res)
  <1>1. d \in Call
    BY DEF Returned, Call, Keys
  <1>2. /\ d.mode = c.mode /\ d.entries = c.entries /\ d.result = res /\ d.todo = c.todo
        /\ d.seen = c.seen /\ d.pc = "idle"
    BY DEF Returned, Call
  <1>3. Answered(d)
    OBVIOUS
  <1> HIDE DEF d
  <1>4. Placed(d)
    BY <1>2 DEF CallInv, Placed
  <1>5. Ranked(d) /\ KeysFit(d)
    BY <1>2 DEF CallInv, Ranked, KeysFit
  <1>6. Holding(d) /\ Listing(d) /\ Listed(d)
    BY <1>2 DEF Holding, Listing, Listed
  <1>7. QED
    BY <1>1, <1>3, <1>4, <1>5, <1>6 DEF CallInv, d

LEMMA ReturnsMoves ==
    ASSUME RouterInv, NEW r \in Resolvers, call[r].mode # "list", NEW res \in Results,
           Answered(Returned(call[r], res)), Returns(r, res)
    PROVE  Moves(r)
  <1> DEFINE c == call[r]
             d == Returned(c, res)
  <1>1. c \in Call /\ CallInv(c)
    BY DEF RouterInv, SettingInv
  <1>2. Becomes(r, d)
    BY DEF Returns, Becomes, Returned
  <1> HIDE DEF c
  <1>3. d \in Call /\ CallInv(d)
    BY <1>1, ReturnedKeeps DEF c
  <1> HIDE DEF d
  <1>4. QED
    BY <1>2, <1>3 DEF Moves

\* Entry i of a call, opened with key, is a right answer.
Right(c, i, key) ==
    /\ i \in Nat /\ key \in Keys
    /\ key # NoKey => KeyOf(c.entries[i], key)
    /\ c.mode \in {"resolve", "override"} => is_credentialless(c.entries[i]) \/ key # NoKey
    /\ c.mode = "resolve" =>
         /\ \A j \in DOMAIN c.seen : Usable(c, j) => Before(c, i, j)
         /\ \A j \in Len(c.seen) + 1 .. Len(c.entries) : Before(c, i, j)

LEMMA ChosenMoves ==
    ASSUME RouterInv, NEW r \in Resolvers, call[r].mode # "list", NEW i, NEW key,
           Right(call[r], i, key), Chosen(r, i, key)
    PROVE  Moves(r)
  <1> DEFINE c == call[r]
             url == resolve_base_url(c.entries[i])
             Empty == url = "empty" /\ c.mode \in {"resolve", "override"} /\ key # NoKey
  <1>1. PICK ok \in validate_base_url(url) :
           Returns(r, IF ~ok \/ Empty THEN <<"config", i>> ELSE <<"ok", i, key>>)
    BY DEF Chosen
  <1>2. c \in Call
    BY DEF RouterInv, SettingInv
  <1>3. i \in Nat /\ key \in Keys
    BY DEF Right
  <1>4. CASE ~ok \/ Empty
    <2> DEFINE res == <<"config", i>>
    <2>1. res \in Results /\ res[1] = "config"
      BY <1>3 DEF Results
    <2>2. Returns(r, res)
      BY <1>1, <1>4
    <2> HIDE DEF res, c
    <2>3. Returned(c, res).result = res
      BY <1>2 DEF Returned, Call
    <2>4. Answered(Returned(c, res))
      BY <2>1, <2>3 DEF Answered
    <2>5. QED
      BY <2>1, <2>2, <2>4, ReturnsMoves DEF c
  <1>5. CASE ~(~ok \/ Empty)
    <2> DEFINE res == <<"ok", i, key>>
               d == Returned(c, res)
    <2>1. res \in Results /\ res[1] = "ok" /\ res[2] = i /\ res[3] = key
      BY <1>3 DEF Results
    <2>2. Returns(r, res) /\ ~Empty
      BY <1>1, <1>5
    <2>3. url # "empty" \/ ~(c.mode \in {"resolve", "override"}) \/ key = NoKey
      BY <2>2
    <2>4. c.mode \in {"resolve", "override"} =>
            url # "empty" \/ is_credentialless(c.entries[i])
      BY <2>3 DEF Right
    <2>5. resolve_base_url(c.entries[i]) = url
      OBVIOUS
    <2>6. Right(c, i, key)
      OBVIOUS
    <2> HIDE DEF res, c, url
    <2>7. /\ d.result = res /\ d.mode = c.mode /\ d.entries = c.entries /\ d.seen = c.seen
      BY <1>2 DEF Returned, Call
    <2> HIDE DEF d
    <2>8. /\ \A j : Usable(d, j) <=> Usable(c, j)
          /\ \A j : Before(d, i, j) <=> Before(c, i, j)
      BY <2>7 DEF Usable, Before
    <2>9. c.mode = "resolve" =>
             /\ \A j \in DOMAIN d.seen : Usable(d, j) => Before(d, i, j)
             /\ \A j \in Len(d.seen) + 1 .. Len(d.entries) : Before(d, i, j)
      BY <2>6, <2>7, <2>8 DEF Right
    <2>10. /\ key # NoKey => KeyOf(c.entries[i], key)
           /\ c.mode = "resolve" => is_credentialless(c.entries[i]) \/ key # NoKey
      BY <2>6 DEF Right
    <2>11. Answered(d)
      BY <2>1, <2>4, <2>5, <2>7, <2>9, <2>10 DEF Answered
    <2>12. QED
      BY <2>1, <2>2, <2>11, ReturnsMoves DEF c, d
  <1>6. QED
    BY <1>4, <1>5

\* "missing" is right when nothing was usable.
LEMMA MissingMoves ==
    ASSUME RouterInv, NEW r \in Resolvers, call[r].mode # "list",
           call[r].mode = "resolve" => \A i \in DOMAIN call[r].entries : ~Usable(call[r], i),
           Returns(r, <<"missing">>)
    PROVE  Moves(r)
  <1> DEFINE c == call[r]
             res == <<"missing">>
             d == Returned(c, res)
  <1>1. c \in Call
    BY DEF RouterInv, SettingInv
  <1>2. res \in Results /\ res[1] = "missing" /\ Returns(r, res)
    BY DEF Results
  <1>3. c.mode = "resolve" => \A i \in DOMAIN c.entries : ~Usable(c, i)
    OBVIOUS
  <1> HIDE DEF c, res
  <1>4. d.result = res /\ d.mode = c.mode /\ d.entries = c.entries /\ d.seen = c.seen
    BY <1>1 DEF Returned, Call
  <1> HIDE DEF d
  <1>5. Answered(d)
    BY <1>2, <1>3, <1>4 DEF Answered, Usable
  <1>6. QED
    BY <1>2, <1>5, ReturnsMoves DEF c, d

\* The answer of a search at the current entry.
Ready(c, key) ==
    /\ c.pc \in {"visit", "insert"}
    /\ Len(c.seen) < Len(c.entries)
    /\ key \in Keys
    /\ key # NoKey => KeyOf(Here(c), key)
    /\ sets = 0 => (key # NoKey <=> Elsewhere(credential_cache_key(Here(c))))
    /\ c.mode \in {"resolve", "inspect", "list"} => ~is_credentialless(Here(c))
    /\ c.mode \in {"resolve", "inspect"} => ~Due(c)

\* The first entry with a key is the best one.
LEMMA HereIsRight ==
    ASSUME NEW c \in Call, CallInv(c), NEW key, Ready(c, key),
           key # NoKey \/ c.mode # "override" \/ is_credentialless(Here(c)),
           key # NoKey \/ c.mode # "resolve"
    PROVE  Right(c, Len(c.seen) + 1, key)
  <1> DEFINE n == Len(c.seen)
             m == Len(c.entries)
             e == Here(c)
             es == c.entries
  <1>1. n \in Nat /\ m \in Nat /\ n < m /\ e \in Entry /\ e = es[n + 1] /\ DOMAIN es = 1 .. m
        /\ es \in Seq(Entry) /\ DOMAIN c.seen = 1 .. n
    BY HereIs DEF Ready, Here, Call
  <1>2. key \in Keys /\ (key # NoKey => KeyOf(e, key))
    BY DEF Ready
  <1>3. ASSUME c.mode = "resolve"
        PROVE  /\ \A j \in DOMAIN c.seen : Usable(c, j) => Before(c, n + 1, j)
               /\ \A j \in n + 1 .. m : Before(c, n + 1, j)
    <2>1. ~is_credentialless(e) /\ ~Due(c)
      BY <1>3 DEF Ready
    <2>2. /\ \A i, j \in 1 .. m : i <= j => priority(es[i]) <= priority(es[j])
          /\ \A i \in 1 .. n : /\ c.seen[i] = NoKey
                               /\ is_credentialless(es[i]) => priority(es[i]) = priority(es[n])
      BY <1>1, <1>3 DEF CallInv, Ranked
    <2>3. \A i \in 1 .. n : is_credentialless(es[i]) => priority(e) = priority(es[n])
      BY <1>1, <2>1 DEF Due
    <2> HIDE DEF n, m, e, es
    <2>4. ASSUME NEW j \in 1 .. n, Usable(c, j)
          PROVE  Before(c, n + 1, j)
      <3>1. is_credentialless(es[j])
        BY <2>2, <2>4 DEF Usable, es
      <3>2. priority(es[n + 1]) = priority(es[j])
        BY <3>1, <2>2, <2>3, <1>1
      <3>3. QED
        BY <3>1, <3>2, <2>1, <1>1 DEF Before, es
    <2>5. ASSUME NEW j \in n + 1 .. m
          PROVE  Before(c, n + 1, j)
      <3>1. j \in 1 .. m /\ n + 1 \in 1 .. m /\ n + 1 <= j
        BY <1>1
      <3>2. priority(es[n + 1]) <= priority(es[j])
        BY <3>1, <2>2
      <3>3. es[j] \in Entry
        BY <3>1, <1>1
      <3>4. priority(es[n + 1]) \in Nat /\ priority(es[j]) \in Nat
        BY <3>3, <1>1 DEF Entry, priority
      <3>5. \/ priority(es[n + 1]) < priority(es[j])
            \/ priority(es[n + 1]) = priority(es[j])
        BY <3>2, <3>4
      <3>6. QED
        BY <3>1, <3>5, <2>1, <1>1 DEF Before, es
    <2>6. QED
      BY <1>1, <2>4, <2>5
  <1>4. QED
    BY <1>1, <1>2, <1>3 DEF Right

\* What follows a search.
LEMMA SawMoves ==
    ASSUME RouterInv, NEW r \in Resolvers, NEW key, Ready(call[r], key), Saw(r, key)
    PROVE  Moves(r)
  <1> DEFINE c == call[r]
             i == Len(c.seen) + 1
             d(pc) == [c EXCEPT !.pc = pc, !.held = NoKey, !.seen = Append(c.seen, key)]
  <1>1. c \in Call /\ CallInv(c) /\ Ready(c, key)
    BY DEF RouterInv, SettingInv
  <1>2. Here(c) = At(r)
    BY DEF Here, At
  <1>3. c.mode \in {"resolve", "inspect", "list", "override", "slashed"}
    BY <1>1 DEF CallInv, Placed, Ready, Call, Modes
  <1>4. ASSUME NEW pc \in {"visit", "next"}, Passes(c, pc, key), Becomes(r, d(pc))
        PROVE  Moves(r)
    <2> DEFINE t == Append(c.seen, key)
    <2>1. t \in Seq(Keys)
      BY <1>1, <1>4 DEF Passes, Call
    <2> HIDE DEF t
    <2> DEFINE q == [c EXCEPT !.pc = pc, !.held = NoKey, !.seen = t]
    <2>2. q = d(pc)
      BY DEF t
    <2> HIDE DEF c
    <2>3. q \in Call
      BY <1>1, <2>1 DEF Call, Keys
    <2>4. Extended(q, c, pc, key)
      BY <1>1, <2>1 DEF Extended, Call, t
    <2>5. Becomes(r, q)
      BY <1>4, <2>2 DEF c
    <2> HIDE DEF q
    <2>6. CallInv(q)
      BY <1>1, <1>4, <2>3, <2>4, ExtendedKeeps
    <2>7. QED
      BY <2>3, <2>5, <2>6 DEF Moves
  <1>5. CASE c.mode \in {"override", "slashed"}
    <2>1. CASE key = NoKey /\ c.mode = "override" /\ ~is_credentialless(At(r))
      <3>1. Returns(r, <<"missing">>)
        BY <1>5, <2>1 DEF Saw
      <3>2. QED
        BY <1>5, <3>1, MissingMoves
    <2>2. CASE ~(key = NoKey /\ c.mode = "override" /\ ~is_credentialless(At(r)))
      <3>1. Chosen(r, i, key)
        BY <1>5, <2>2 DEF Saw
      <3>2. Right(c, i, key)
        BY <1>1, <1>2, <1>5, <2>2, HereIsRight
      <3>3. QED
        BY <1>5, <3>1, <3>2, ChosenMoves
    <2>3. QED
      BY <2>1, <2>2
  <1>6. CASE c.mode \in {"resolve", "inspect", "list"}
    <2>1. CASE key = NoKey
      <3>1. Becomes(r, d("visit"))
        BY <1>6, <2>1 DEF Saw, Becomes
      <3>2. Passes(c, "visit", key)
        BY <1>1, <1>6, <2>1 DEF Passes, Ready
      <3>3. QED
        BY <3>1, <3>2, <1>4
    <2>2. CASE key # NoKey /\ c.mode = "list"
      <3>1. Becomes(r, d("next"))
        BY <1>6, <2>2 DEF Saw, Becomes
      <3>2. Passes(c, "next", key)
        BY <1>1, <1>6, <2>2 DEF Passes, Ready
      <3>3. QED
        BY <3>1, <3>2, <1>4
    <2>3. CASE key # NoKey /\ c.mode # "list"
      <3>1. Chosen(r, i, key)
        BY <1>6, <2>3 DEF Saw
      <3>2. Right(c, i, key)
        BY <1>1, <1>6, <2>3, HereIsRight
      <3>3. QED
        BY <1>6, <2>3, <3>1, <3>2, ChosenMoves
    <2>4. QED
      BY <2>1, <2>2, <2>3
  <1>7. QED
    BY <1>3, <1>5, <1>6

----------------------------------------------------------------------------
(* Searches and the cache                                                  *)

\* What a search finds.
LEMMA SearchFinds ==
    ASSUME SettingInv, NEW e \in Entry, NEW key \in Search(e)
    PROVE  /\ key \in Keys
           /\ key # NoKey => KeyOf(e, key)
           /\ sets = 0 => (key # NoKey <=> Elsewhere(credential_cache_key(e)))
  <1> DEFINE own == credential_keys(e)
             known == VarsOf(provider_id(e))
  <1>1. own \subseteq Variables /\ known \subseteq Variables
    BY RouterAssumption DEF Entry, credential_keys, VarsOf
  <1>2. Elsewhere(credential_cache_key(e)) <=> (own \cup known) \cap External # {}
    BY DEF Elsewhere, credential_cache_key
  <1>3. \/ \E v \in own \cup known : HasValue(v) /\ key = ValueOf(v)
        \/ key = NoKey /\ \A v \in own \cup known : ~HasValue(v)
    BY DEF Search
  <1>4. KeyOf(e, key) <=> key[1] \in own \cup known /\ (key[1] \in External <=> key[2] = 0)
    BY DEF KeyOf
  <1> HIDE DEF own, known
  <1>5. CASE key = NoKey /\ \A v \in own \cup known : ~HasValue(v)
    <2>1. (own \cup known) \cap External = {}
      BY <1>5 DEF HasValue
    <2>2. QED
      BY <1>2, <1>5, <2>1 DEF Keys
  <1>6. CASE \E v \in own \cup known : HasValue(v) /\ key = ValueOf(v)
    <2>1. PICK v \in own \cup known : HasValue(v) /\ key = ValueOf(v)
      BY <1>6
    <2>2. v \in Variables
      BY <1>1, <2>1
    <2>3. CASE v \in External
      <3>1. key = <<v, 0>>
        BY <2>1, <2>3 DEF ValueOf
      <3>2. key # NoKey /\ key \in Keys /\ key[1] = v /\ key[2] = 0
        BY <2>2, <2>3, <3>1, RouterAssumption DEF Keys
      <3>3. v \in (own \cup known) \cap External
        BY <2>1, <2>3
      <3>4. QED
        BY <1>2, <1>4, <2>1, <2>3, <3>2, <3>3
    <2>4. CASE v \notin External
      <3>1. v \in EnvVars /\ env[v] # 0 /\ env[v] \in Nat
        BY <2>1, <2>2, <2>4 DEF Variables, HasValue, SettingInv
      <3>2. key = <<v, env[v]>>
        BY <2>1, <2>4 DEF ValueOf
      <3>3. key \in Keys /\ key[1] = v /\ key[2] # 0
        BY <2>2, <3>1, <3>2 DEF Keys
      <3>4. sets # 0
        BY <3>1 DEF SettingInv
      <3>5. QED
        BY <1>4, <2>1, <2>4, <3>3, <3>4
    <2>5. QED
      BY <2>3, <2>4
  <1>7. QED
    BY <1>3, <1>5, <1>6

\* The call of a caller.
LEMMA CallIs ==
    ASSUME RouterInv, NEW r \in Resolvers
    PROVE  call[r] \in Call /\ CallInv(call[r])
  BY DEF RouterInv, SettingInv

\* A search is due at the current entry.
Seeking(c) ==
    /\ c.pc = "visit"
    /\ Len(c.seen) < Len(c.entries)
    /\ c.mode \in {"resolve", "inspect", "list"} => ~is_credentialless(Here(c))
    /\ c.mode \in {"resolve", "inspect"} => ~Due(c)

LEMMA NotVisited ==
    ASSUME RouterInv, NEW r \in Resolvers, ~Visited(r)
    PROVE  Len(call[r].seen) < Len(call[r].entries)
  <1>1. call[r] \in Call /\ Placed(call[r])
    BY CallIs DEF CallInv
  <1>2. Len(call[r].seen) \in Nat /\ Len(call[r].entries) \in Nat
    BY <1>1 DEF Call
  <1>3. QED
    BY <1>1, <1>2 DEF Placed, Visited

LEMMA SearchesSeeks ==
    ASSUME RouterInv, NEW r \in Resolvers, Searches(r)
    PROVE  Seeking(call[r]) /\ At(r) = Here(call[r]) /\ At(r) \in Entry
  <1>1. Len(call[r].seen) < Len(call[r].entries)
    BY NotVisited DEF Searches
  <1>2. At(r) = Here(call[r])
    BY DEF At, Here
  <1>3. Here(call[r]) \in Entry
    BY <1>1, CallIs, HereIs
  <1>4. QED
    BY <1>1, <1>2, <1>3, DueIs DEF Searches, Seeking

LEMMA HitStep ==
    ASSUME RouterInv, NEW r \in Resolvers, Hit(r)
    PROVE  RouterInv'
  <1> DEFINE c == call[r]
             e == Here(c)
             k == credential_cache_key(e)
             key == cache[k]
  <1>1. Seeking(c) /\ At(r) = e /\ e \in Entry
    BY SearchesSeeks DEF Hit
  <1>2. k \in DOMAIN cache /\ Saw(r, key) /\ UNCHANGED <<env, sets, calls, cache, custom>>
    BY <1>1 DEF Hit
  <1> HIDE DEF k
  <1>3. /\ key \in Keys
        /\ key # NoKey => KeyFor(k, key)
        /\ sets = 0 => (key # NoKey <=> Elsewhere(k))
    BY <1>2 DEF RouterInv, CacheInv
  <1> HIDE DEF key
  <1>4. KeyFor(k, key) => KeyOf(e, key)
    BY DEF KeyFor, KeyOf, k, credential_cache_key
  <1>5. Ready(c, key)
    BY <1>1, <1>3, <1>4 DEF Seeking, Ready, k
  <1> HIDE DEF e
  <1>6. Moves(r)
    BY <1>2, <1>5, SawMoves
  <1>7. Steady /\ CacheInv'
    BY <1>2, CacheStays DEF Steady, RouterInv
  <1>8. QED
    BY <1>6, <1>7, MovesKeeps

LEMMA MissStep ==
    ASSUME RouterInv, NEW r \in Resolvers, Miss(r)
    PROVE  RouterInv'
  <1> DEFINE c == call[r]
             e == Here(c)
  <1>1. Seeking(c) /\ At(r) = e /\ e \in Entry
    BY SearchesSeeks DEF Miss
  <1>2. PICK key \in Search(e) : call' = [call EXCEPT ![r].pc = "insert", ![r].held = key]
    BY <1>1 DEF Miss
  <1>3. SettingInv
    BY DEF RouterInv
  <1>4. c \in Call /\ CallInv(c)
    BY CallIs
  <1> HIDE DEF c
  <1> DEFINE d == [c EXCEPT !.pc = "insert", !.held = key]
  <1>5. Becomes(r, d)
    BY <1>2 DEF Becomes, c
  <1> HIDE DEF e
  <1>6. /\ key \in Keys
        /\ key # NoKey => KeyOf(e, key)
        /\ sets = 0 => (key # NoKey <=> Elsewhere(credential_cache_key(e)))
    BY <1>1, <1>2, <1>3, SearchFinds
  <1>7. /\ d \in Call /\ d.mode = c.mode /\ d.entries = c.entries /\ d.result = c.result
        /\ d.todo = c.todo /\ d.seen = c.seen /\ d.pc = "insert" /\ d.held = key
        /\ d.listed = c.listed
    BY <1>4, <1>6 DEF Call
  <1> HIDE DEF d
  <1>8. Here(d) = e /\ (Due(d) <=> Due(c))
    BY <1>7 DEF Here, Due, e
  <1>9. c.pc = "visit"
    BY <1>1 DEF Seeking
  <1>10. Placed(d) /\ Ranked(d) /\ KeysFit(d)
    BY <1>4, <1>7, <1>9 DEF CallInv, Placed, Ranked, KeysFit
  <1>11. Holding(d)
    BY <1>1, <1>6, <1>7, <1>8 DEF Seeking, Holding, e
  <1>12. Answered(d)
    BY <1>4, <1>7, <1>9 DEF CallInv, Placed, Answered
  <1>13. Listing(d) /\ Listed(d)
    BY <1>4, <1>7, <1>9 DEF CallInv, Listing, Listed, Current
  <1>14. Moves(r)
    BY <1>5, <1>7, <1>10, <1>11, <1>12, <1>13 DEF Moves, CallInv
  <1>15. Steady /\ CacheInv'
    BY CacheStays DEF Miss, Steady, RouterInv
  <1>16. QED
    BY <1>14, <1>15, MovesKeeps

LEMMA InsertStep ==
    ASSUME RouterInv, NEW r \in Resolvers, Insert(r)
    PROVE  RouterInv'
  <1> DEFINE c == call[r]
             e == Here(c)
             k == credential_cache_key(e)
             key == c.held
  <1>1. c \in Call /\ CallInv(c) /\ c.pc = "insert" /\ At(r) = e
    BY CallIs DEF Insert, At, Here
  <1>2. Holding(c) /\ key \in Keys
    BY <1>1 DEF CallInv, Call
  <1>3. Ready(c, key)
    BY <1>1, <1>2 DEF Holding, Ready
  <1>4. /\ Saw(r, key) /\ Steady
        /\ cache' = [x \in DOMAIN cache \cup {k} |-> IF x = k THEN key ELSE cache[x]]
    BY <1>1 DEF Insert, Steady
  <1>5. /\ key # NoKey => KeyOf(e, key)
        /\ sets = 0 => (key # NoKey <=> Elsewhere(k))
    BY <1>3 DEF Ready
  <1> HIDE DEF key, c
  <1>6. KeyOf(e, key) => KeyFor(k, key)
    BY DEF KeyFor, KeyOf, credential_cache_key
  <1> HIDE DEF k, e
  <1>7. CacheInv'
    <2>1. sets' = sets
      BY <1>4 DEF Steady
    <2>2. CacheInv
      BY DEF RouterInv
    <2>3. ASSUME NEW x \in DOMAIN cache'
          PROVE  /\ cache'[x] \in Keys
                 /\ cache'[x] # NoKey => KeyFor(x, cache'[x])
                 /\ sets = 0 => (cache'[x] # NoKey <=> Elsewhere(x))
      <3>1. CASE x = k
        <4>1. cache'[x] = key
          BY <1>4, <3>1
        <4>2. QED
          BY <1>2, <1>5, <1>6, <3>1, <4>1
      <3>2. CASE x # k
        <4>1. x \in DOMAIN cache /\ cache'[x] = cache[x]
          BY <1>4, <2>3, <3>2
        <4>2. QED
          BY <2>2, <4>1 DEF CacheInv
      <3>3. QED
        BY <3>1, <3>2
    <2>4. QED
      BY <2>1, <2>3 DEF CacheInv
  <1>8. Moves(r)
    BY <1>3, <1>4, SawMoves DEF c
  <1>9. QED
    BY <1>4, <1>7, <1>8, MovesKeeps

----------------------------------------------------------------------------
(* The other steps                                                         *)

LEMMA TakeStep ==
    ASSUME RouterInv, NEW r \in Resolvers, TakeCredentialless(r)
    PROVE  RouterInv'
  <1> DEFINE c == call[r]
             es == c.entries
             n == Len(c.seen)
             m == Len(es)
             best == BestCredentialless(r)
             i == CHOOSE x \in best : \A j \in best : x <= j
  <1>1. c \in Call /\ CallInv(c) /\ c.pc = "visit"
    BY CallIs DEF TakeCredentialless
  <1>2. c.mode \in {"resolve", "inspect"} /\ Due(c)
    BY DueIs DEF TakeCredentialless
  <1>3. Chosen(r, i, NoKey) /\ UNCHANGED <<env, sets, calls, cache, custom>>
    BY DEF TakeCredentialless
  <1>4. best = {x \in DOMAIN c.seen : is_credentialless(es[x])}
    BY DEF BestCredentialless
  <1>5. /\ n \in Nat /\ m \in Nat /\ n <= m /\ DOMAIN c.seen = 1 .. n /\ DOMAIN es = 1 .. m
        /\ es \in Seq(Entry)
    BY <1>1 DEF Call, CallInv, Placed
  <1>6. /\ \A x, j \in 1 .. m : x <= j => priority(es[x]) <= priority(es[j])
        /\ \A x \in 1 .. n : /\ c.seen[x] = NoKey
                             /\ is_credentialless(es[x]) => priority(es[x]) = priority(es[n])
    BY <1>1, <1>2, <1>5 DEF CallInv, Ranked
  <1>7. n = m \/ priority(es[n + 1]) # priority(es[n])
    BY <1>2 DEF Due, Here
  <1>8. best # {}
    BY <1>2, <1>4 DEF Due
  <1>9. \A x \in 1 .. m : priority(es[x]) \in Nat
    BY <1>5 DEF Entry, priority
  <1> HIDE DEF best
  <1>10. best \subseteq 1 .. n
    BY <1>4, <1>5
  <1>11. i \in best /\ \A j \in best : i <= j
    <2>1. best \subseteq Nat
      BY <1>10
    <2>2. \E x \in best : \A j \in best : x <= j
      BY <1>8, <2>1, LeastNatural
    <2>3. QED
      BY <2>2
  <1> HIDE DEF i
  <1>12. i \in 1 .. n /\ is_credentialless(es[i])
    BY <1>4, <1>10, <1>11
  <1>13. ASSUME NEW j \in DOMAIN c.seen, Usable(c, j)
         PROVE  Before(c, i, j)
    <2>1. j \in 1 .. n /\ is_credentialless(es[j])
      BY <1>5, <1>6, <1>13 DEF Usable
    <2>2. priority(es[i]) = priority(es[j])
      BY <1>6, <1>12, <2>1
    <2>3. i <= j
      BY <1>4, <1>5, <1>11, <2>1
    <2>4. QED
      BY <1>12, <2>1, <2>2, <2>3 DEF Before
  <1>14. ASSUME NEW j \in n + 1 .. m
         PROVE  Before(c, i, j)
    <2> HIDE DEF n, m, es
    <2>1. n \in 1 .. m /\ n + 1 \in 1 .. m /\ j \in 1 .. m /\ n <= n + 1 /\ n + 1 <= j
      BY <1>5, <1>12
    <2>2. /\ priority(es[n]) <= priority(es[n + 1]) /\ priority(es[n + 1]) <= priority(es[j])
          /\ priority(es[n]) # priority(es[n + 1]) /\ priority(es[i]) = priority(es[n])
      <3>1. n # m
        BY <1>5, <2>1
      <3>2. QED
        BY <3>1, <2>1, <1>6, <1>7, <1>12
    <2>3. priority(es[n]) \in Nat /\ priority(es[n + 1]) \in Nat /\ priority(es[j]) \in Nat
      BY <2>1, <1>9
    <2>4. priority(es[i]) < priority(es[j])
      BY <2>2, <2>3
    <2>5. QED
      BY <2>4 DEF Before, es
  <1>15. Right(c, i, NoKey)
    <2>1. i \in Nat /\ NoKey \in Keys
      BY <1>12 DEF Keys
    <2>2. QED
      BY <1>2, <1>12, <1>13, <1>14, <2>1 DEF Right
  <1>16. Moves(r)
    BY <1>2, <1>3, <1>15, ChosenMoves
  <1>17. Steady /\ CacheInv'
    BY <1>3, CacheStays DEF Steady, RouterInv
  <1>18. QED
    BY <1>16, <1>17, MovesKeeps

LEMMA PassStep ==
    ASSUME RouterInv, NEW r \in Resolvers, PassCredentialless(r)
    PROVE  RouterInv'
  <1> DEFINE c == call[r]
             pc == IF c.mode = "list" THEN "next" ELSE "visit"
             t == Append(c.seen, NoKey)
             d == [c EXCEPT !.seen = t, !.pc = pc]
  <1>1. c \in Call /\ CallInv(c) /\ c.pc = "visit"
    BY CallIs DEF PassCredentialless
  <1>2. Len(c.seen) < Len(c.entries)
    BY NotVisited DEF PassCredentialless
  <1>3. At(r) = Here(c)
    BY DEF At, Here
  <1>4. c.mode \in {"resolve", "inspect", "list"} /\ is_credentialless(Here(c))
    BY <1>3 DEF PassCredentialless
  <1>5. c.mode \in {"resolve", "inspect"} => ~Due(c)
    BY DueIs DEF PassCredentialless
  <1>6. Becomes(r, d)
    BY <1>1 DEF PassCredentialless, Becomes, Call
  <1>7. t \in Seq(Keys)
    BY <1>1 DEF Call, Keys
  <1>8. ~Elsewhere(credential_cache_key(Here(c)))
    BY <1>4 DEF is_credentialless, Elsewhere, credential_cache_key, VarsOf
  <1> HIDE DEF c, t, pc
  <1>9. pc \in {"visit", "next"}
    BY DEF pc
  <1>10. d \in Call /\ Extended(d, c, pc, NoKey)
    BY <1>1, <1>7, <1>9 DEF Call, Extended, t
  <1>11. Passes(c, pc, NoKey)
    BY <1>1, <1>2, <1>4, <1>5, <1>8 DEF Passes, Keys, pc
  <1> HIDE DEF d
  <1>12. CallInv(d)
    BY <1>1, <1>10, <1>11, ExtendedKeeps
  <1>13. Moves(r)
    BY <1>6, <1>10, <1>12 DEF Moves
  <1>14. Steady /\ CacheInv'
    BY CacheStays DEF PassCredentialless, Steady, RouterInv
  <1>15. QED
    BY <1>13, <1>14, MovesKeeps

LEMMA ExhaustedStep ==
    ASSUME RouterInv, NEW r \in Resolvers, Exhausted(r)
    PROVE  RouterInv'
  <1> DEFINE c == call[r]
  <1>1. c \in Call /\ CallInv(c) /\ c.pc = "visit" /\ Len(c.seen) = Len(c.entries)
    BY CallIs DEF Exhausted, Visited
  <1>2. c.mode \in {"resolve", "inspect"} => ~Due(c)
    BY DueIs DEF Exhausted
  <1>3. DOMAIN c.seen = DOMAIN c.entries
    BY <1>1 DEF Call
  <1>4. ASSUME c.mode = "list"
        PROVE  Moves(r)
    <2> DEFINE d == [c EXCEPT !.pc = "next"]
    <2>1. Becomes(r, d)
      BY <1>4 DEF Exhausted, Becomes
    <2> HIDE DEF c
    <2>2. /\ d \in Call /\ d.mode = c.mode /\ d.entries = c.entries /\ d.result = c.result
          /\ d.todo = c.todo /\ d.seen = c.seen /\ d.pc = "next" /\ d.listed = c.listed
      BY <1>1 DEF Call
    <2> HIDE DEF d
    <2>3. Placed(d) /\ Ranked(d) /\ KeysFit(d) /\ Holding(d) /\ Answered(d) /\ Listing(d)
      BY <1>1, <1>4, <2>2 DEF CallInv, Placed, Ranked, KeysFit, Holding, Answered, Listing, Current
    <2>4. Listed(d)
      <3>1. ASSUME sets = 0
            PROVE  \A i \in DOMAIN d.entries : ~Opens(d.entries[i]) /\ Len(d.seen) = Len(d.entries)
        BY <1>1, <1>3, <1>4, <2>2, <3>1 DEF CallInv, Listed
      <3>2. QED
        BY <1>1, <1>4, <2>2, <3>1 DEF CallInv, Listed, Current
    <2>5. QED
      BY <2>1, <2>2, <2>3, <2>4 DEF Moves, CallInv
  <1>5. ASSUME c.mode # "list" /\ c.entries = <<>>
        PROVE  Moves(r)
    <2> DEFINE res == <<"config", 0>>
               d == Returned(c, res)
    <2>1. Returns(r, res)
      BY <1>5 DEF Exhausted
    <2>2. res \in Results /\ res[1] = "config"
      BY DEF Results
    <2> HIDE DEF res
    <2>3. d.result = res
      BY <1>1 DEF Returned, Call
    <2> HIDE DEF d
    <2>4. Answered(d)
      BY <2>2, <2>3 DEF Answered
    <2>5. QED
      BY <1>5, <2>1, <2>2, <2>4, ReturnsMoves DEF d
  <1>6. ASSUME c.mode = "inspect" /\ c.entries # <<>>
        PROVE  Moves(r)
    <2>1. Chosen(r, 1, NoKey)
      BY <1>6 DEF Exhausted
    <2>2. Right(c, 1, NoKey)
      BY <1>6 DEF Right, Keys
    <2>3. QED
      BY <1>6, <2>1, <2>2, ChosenMoves
  <1>7. ASSUME c.mode \notin {"list", "inspect"} /\ c.entries # <<>>
        PROVE  Moves(r)
    <2>1. Returns(r, <<"missing">>)
      BY <1>7 DEF Exhausted
    <2>2. ASSUME c.mode = "resolve", NEW i \in DOMAIN c.entries
          PROVE  ~Usable(c, i)
      <3>1. c.seen[i] = NoKey
        BY <1>1, <1>3, <2>2 DEF CallInv, Ranked
      <3>2. ~is_credentialless(c.entries[i])
        BY <1>1, <1>2, <1>3, <2>2 DEF Due
      <3>3. QED
        BY <3>1, <3>2 DEF Usable
    <2>3. QED
      BY <1>7, <2>1, <2>2, MissingMoves
  <1>8. Moves(r)
    BY <1>4, <1>5, <1>6, <1>7
  <1>9. Steady /\ CacheInv'
    BY CacheStays DEF Exhausted, Steady, RouterInv
  <1>10. QED
    BY <1>8, <1>9, MovesKeeps

LEMMA ListModelsStep ==
    ASSUME RouterInv, NEW r \in Resolvers, ListModels(r)
    PROVE  RouterInv'
  <1> DEFINE d == [IdleCall EXCEPT !.mode = "list", !.pc = "next", !.todo = Known]
  <1>1. Known = {<<"catalog", id>> : id \in DOMAIN Catalog} \cup {<<"custom", id>> : id \in Registered}
    BY DEF Known
  <1>2. Becomes(r, d)
    BY <1>1 DEF ListModels, Becomes
  <1>3. Known \in SUBSET Models
    BY EntriesTyped DEF RouterInv
  <1>4. /\ d \in Call /\ d.mode = "list" /\ d.entries = <<>> /\ d.result = <<"none">>
        /\ d.todo = Known /\ d.seen = <<>> /\ d.pc = "next" /\ d.listed = {}
    BY <1>3, IdleIs DEF Call, Modes
  <1> HIDE DEF d
  <1>5. Placed(d) /\ Ranked(d) /\ KeysFit(d) /\ Holding(d) /\ Answered(d)
    BY <1>4 DEF Placed, Ranked, KeysFit, Holding, Answered
  <1>6. Listing(d) /\ Listed(d)
    BY <1>4 DEF Listing, Listed, Current
  <1>7. Moves(r)
    BY <1>2, <1>4, <1>5, <1>6 DEF Moves, CallInv
  <1>8. Steady /\ CacheInv'
    BY CacheStays DEF ListModels, Steady, RouterInv
  <1>9. QED
    BY <1>7, <1>8, MovesKeeps

LEMMA RegisterStep ==
    ASSUME RouterInv, NEW k \in DOMAIN Custom, RegisterModel(k)
    PROVE  RouterInv'
  <1>1. SettingInv'
    <2>1. Custom[k][1] \in Ids
      BY DEF Ids
    <2>2. QED
      BY <2>1, IdleIs DEF RouterInv, SettingInv, RegisterModel
  <1>2. CacheInv'
    BY DEF RouterInv, CacheInv, RegisterModel
  <1>3. ASSUME NEW r \in Resolvers
        PROVE  CallInv(call[r])'
    <2>1. call'[r] = IdleCall
      BY DEF RegisterModel
    <2>2. QED
      BY <2>1, IdleIs DEF CallInv, Placed, Ranked, KeysFit, Holding, Answered, Listing, Listed
  <1>4. QED
    BY <1>1, <1>2, <1>3 DEF RouterInv

LEMMA SetEnvStep ==
    ASSUME RouterInv, NEW v \in EnvVars, SetEnv(v)
    PROVE  RouterInv'
  <1>1. sets' \in Nat /\ sets' # 0
    BY DEF RouterInv, SettingInv, SetEnv
  <1>2. SettingInv'
    BY <1>1 DEF RouterInv, SettingInv, SetEnv
  <1>3. CacheInv'
    BY <1>1 DEF RouterInv, CacheInv, SetEnv
  <1>4. ASSUME NEW r \in Resolvers
        PROVE  CallInv(call[r])'
    <2>1. CallInv(call[r]) /\ call' = call /\ custom' = custom
      BY DEF RouterInv, SetEnv
    <2>2. QED
      BY <1>1, <2>1 DEF CallInv, Placed, Ranked, KeysFit, Holding, Answered, Listing, Listed,
            Known, Registered, EntriesOf
  <1>5. QED
    BY <1>2, <1>3, <1>4 DEF RouterInv

----------------------------------------------------------------------------
(* The list, and the theorem                                               *)

\* list_authenticated_models: the model that has been visited was found to
\* be one that can be used.
LEMMA FoundIs ==
    ASSUME RouterInv, NEW r \in Resolvers, call[r].pc = "next", sets = 0
    PROVE  LET c == call[r]
               found == IF LastUsable(r) THEN c.listed \cup {c.result[2]} ELSE c.listed
           IN  found = {m \in Known \ c.todo :
                          \E i \in DOMAIN EntriesOf(m) : Opens(EntriesOf(m)[i])}
  <1> DEFINE c == call[r]
             Good(m) == \E i \in DOMAIN EntriesOf(m) : Opens(EntriesOf(m)[i])
             found == IF LastUsable(r) THEN c.listed \cup {c.result[2]} ELSE c.listed
  <1>1. c \in Call /\ CallInv(c) /\ c.mode = "list" /\ c.pc = "next"
    BY CallIs DEF CallInv, Placed
  <1>2. c.listed = {m \in Known \ (c.todo \cup Current(c)) : Good(m)}
    BY <1>1 DEF CallInv, Listed
  <1>3. LastUsable(r) <=> c.seen # <<>> /\ Opens(c.entries[Len(c.seen)])
    <2>1. c.seen # <<>> => Last(c.seen) = c.seen[Len(c.seen)] /\ Len(c.seen) \in DOMAIN c.seen
      BY <1>1 DEF Call, Last
    <2>2. ASSUME c.seen # <<>>
          PROVE  Last(c.seen) # NoKey <=> Elsewhere(credential_cache_key(c.entries[Len(c.seen)]))
      BY <1>1, <2>1, <2>2 DEF CallInv, Listed
    <2>3. QED
      BY <2>2 DEF LastUsable, Opens
  <1>4. CASE Current(c) = {}
    <2>1. c.seen = <<>>
      BY <1>1, <1>4 DEF CallInv, Listing
    <2>2. QED
      BY <1>2, <1>3, <1>4, <2>1
  <1>5. CASE Current(c) # {}
    <2> DEFINE m == c.result[2]
    <2>1. Current(c) = {m}
      BY <1>5 DEF Current
    <2>2. m \in Known \ c.todo /\ c.entries = EntriesOf(m)
      BY <1>1, <2>1 DEF CallInv, Listing
    <2>3. LastUsable(r) <=> Good(m)
      <3>1. \/ c.seen # <<>> /\ Opens(c.entries[Len(c.seen)])
            \/ \A i \in DOMAIN c.entries : ~Opens(c.entries[i]) /\ Len(c.seen) = Len(c.entries)
        BY <1>1, <1>5 DEF CallInv, Listed
      <3>2. c.seen # <<>> => Len(c.seen) \in DOMAIN c.entries
        BY <1>1 DEF Call, CallInv, Placed
      <3>3. QED
        BY <1>3, <2>2, <3>1, <3>2
    <2>4. found = IF Good(m) THEN c.listed \cup {m} ELSE c.listed
      BY <2>3
    <2> DEFINE all == {x \in Known \ c.todo : Good(x)}
    <2> HIDE DEF m, Good, found
    <2>5. found = all
      <3>1. \A x : x \in c.listed <=> x \in Known /\ x \notin c.todo /\ x # m /\ Good(x)
        BY <1>2, <2>1
      <3>2. QED
        BY <2>2, <2>4, <3>1
    <2>6. QED
      BY <2>5 DEF Good, found
  <1>6. QED
    BY <1>4, <1>5

LEMMA ListNextStep ==
    ASSUME RouterInv, NEW r \in Resolvers, ListNext(r)
    PROVE  RouterInv'
  <1> DEFINE c == call[r]
             found == IF LastUsable(r) THEN c.listed \cup {c.result[2]} ELSE c.listed
             Usables(S) == {m \in S : \E i \in DOMAIN EntriesOf(m) : Opens(EntriesOf(m)[i])}
  <1>1. c \in Call /\ CallInv(c) /\ c.mode = "list" /\ c.pc = "next"
    BY CallIs DEF ListNext, CallInv, Placed
  <1>2. sets = 0 => found = Usables(Known \ c.todo)
    BY <1>1, FoundIs
  <1>3. found \in SUBSET Models
    <2>1. ASSUME LastUsable(r)
          PROVE  c.result[2] \in Models
      <3>1. Current(c) # {}
        BY <1>1, <2>1 DEF CallInv, Listing, LastUsable
      <3>2. c.result[1] = "listing"
        BY <3>1 DEF Current
      <3>3. QED
        BY <1>1, <3>2 DEF Call, Results
    <2>2. QED
      BY <1>1, <2>1 DEF Call
  <1>4. /\ c.todo = {} =>
             call' = [call EXCEPT ![r] = [IdleCall EXCEPT !.mode = "list", !.listed = found]]
        /\ c.todo # {} =>
             \E m \in c.todo :
                  call' = [call EXCEPT ![r].pc = "visit", ![r].seen = <<>>,
                             ![r].listed = found, ![r].todo = @ \ {m}, ![r].result = <<"listing", m>>,
                             ![r].entries = EntriesOf(m)]
    BY DEF ListNext, EntriesOf
  <1>5. Known \in SUBSET Models /\ \A m \in Known : EntriesOf(m) \in Seq(Entry)
    BY EntriesTyped DEF RouterInv
  <1> HIDE DEF found, Usables
  <1>6. ASSUME c.todo = {}
        PROVE  Moves(r)
    <2> DEFINE d == [IdleCall EXCEPT !.mode = "list", !.listed = found]
    <2>1. Becomes(r, d)
      BY <1>4, <1>6 DEF Becomes
    <2>2. /\ d \in Call /\ d.mode = "list" /\ d.entries = <<>> /\ d.result = <<"none">>
          /\ d.todo = {} /\ d.seen = <<>> /\ d.pc = "idle" /\ d.listed = found
      BY <1>3, IdleIs DEF Call, Modes
    <2> HIDE DEF d
    <2>3. Placed(d) /\ Ranked(d) /\ KeysFit(d) /\ Holding(d) /\ Answered(d)
      BY <2>2 DEF Placed, Ranked, KeysFit, Holding, Answered
    <2>4. Current(d) = {}
      BY <2>2 DEF Current
    <2>5. Listing(d)
      BY <2>2, <2>4 DEF Listing
    <2>6. sets = 0 => found = Usables(Known \ (d.todo \cup Current(d)))
      <3>1. Known \ (d.todo \cup Current(d)) = Known \ c.todo
        BY <1>6, <2>2, <2>4
      <3>2. QED
        BY <1>2, <3>1
    <2>7. Listed(d)
      BY <2>2, <2>4, <2>6 DEF Listed, Usables
    <2>8. QED
      BY <2>1, <2>2, <2>3, <2>5, <2>7 DEF Moves, CallInv
  <1>7. ASSUME c.todo # {}
        PROVE  Moves(r)
    <2>1. PICK m \in c.todo :
             call' = [call EXCEPT ![r].pc = "visit", ![r].seen = <<>>,
                             ![r].listed = found, ![r].todo = @ \ {m}, ![r].result = <<"listing", m>>,
                             ![r].entries = EntriesOf(m)]
      BY <1>4, <1>7
    <2> DEFINE t == c.todo \ {m}
               es == EntriesOf(m)
               d == [c EXCEPT !.pc = "visit", !.seen = <<>>, !.listed = found, !.todo = t,
                              !.result = <<"listing", m>>, !.entries = es]
    <2>2. m \in Known /\ c.todo \subseteq Known
      BY <1>1, <2>1 DEF CallInv, Listing
    <2>3. es \in Seq(Entry) /\ m \in Models /\ t \in SUBSET Models
      BY <1>1, <1>5, <2>2 DEF Call
    <2>4. Becomes(r, d)
      BY <2>1 DEF Becomes
    <2> HIDE DEF c
    <2>5. /\ d \in Call /\ d.mode = "list" /\ d.entries = es /\ d.result = <<"listing", m>>
          /\ d.todo = t /\ d.seen = <<>> /\ d.pc = "visit" /\ d.listed = found
      <3> HIDE DEF es, t
      <3>1. <<"listing", m>> \in Results /\ <<>> \in Seq(Keys)
        BY <2>3 DEF Results
      <3>2. QED
        BY <1>1, <1>3, <2>3, <3>1 DEF Call
    <2> HIDE DEF d
    <2>6. Placed(d) /\ Ranked(d) /\ KeysFit(d) /\ Holding(d) /\ Answered(d)
      <3>1. d.result[1] = "listing" /\ Len(d.seen) = 0 /\ Len(d.entries) \in Nat
        BY <2>3, <2>5
      <3>2. QED
        BY <2>5, <3>1 DEF Placed, Ranked, KeysFit, Holding, Answered
    <2>7. Current(d) = {m}
      BY <2>5 DEF Current
    <2>8. Listing(d)
      BY <2>2, <2>5, <2>7 DEF Listing
    <2>9. Known \ (d.todo \cup Current(d)) = Known \ c.todo
      BY <2>1, <2>5, <2>7
    <2>10. Listed(d)
      BY <1>2, <2>5, <2>9 DEF Listed, Usables
    <2>11. QED
      BY <2>4, <2>5, <2>6, <2>8, <2>10 DEF Moves, CallInv
  <1>8. Moves(r)
    BY <1>6, <1>7
  <1>9. Steady /\ CacheInv'
    BY CacheStays DEF ListNext, Steady, RouterInv
  <1>10. QED
    BY <1>8, <1>9, MovesKeeps

LEMMA RouterStep ==
    ASSUME RouterInv, RouterNext
    PROVE  RouterInv'
  <1>1. ASSUME NEW r \in Resolvers, NEW name \in Names,
               \/ Begin(r, name, "resolve")
               \/ Begin(r, name, "inspect")
               \/ \E p \in DOMAIN KnownVars : Override(r, name, p)
               \/ InspectSlashed(r, name)
               \/ \E mode \in {"resolve", "override", "inspect"} : NotFound(r, name, mode)
        PROVE  RouterInv'
    BY <1>1, BeginStep, OverrideStep, SlashedStep, NotFoundStep
  <1>2. ASSUME NEW r \in Resolvers,
               \/ TakeCredentialless(r) \/ PassCredentialless(r)
               \/ Hit(r) \/ Miss(r) \/ Insert(r)
               \/ Exhausted(r) \/ ListModels(r) \/ ListNext(r)
        PROVE  RouterInv'
    BY <1>2, TakeStep, PassStep, HitStep, MissStep, InsertStep, ExhaustedStep, ListModelsStep,
       ListNextStep
  <1>3. ASSUME NEW k \in DOMAIN Custom, RegisterModel(k)
        PROVE  RouterInv'
    BY <1>3, RegisterStep
  <1>4. ASSUME NEW v \in EnvVars, SetEnv(v)
        PROVE  RouterInv'
    BY <1>4, SetEnvStep
  <1>5. QED
    BY <1>1, <1>2, <1>3, <1>4 DEF RouterNext

LEMMA RouterStutters ==
    ASSUME RouterInv, UNCHANGED routerVars
    PROVE  RouterInv'
  <1>1. Steady /\ cache' = cache /\ call' = call
    BY DEF routerVars, Steady
  <1>2. SettingInv' /\ CacheInv'
    BY <1>1 DEF RouterInv, SettingInv, CacheInv, Steady
  <1>3. ASSUME NEW r \in Resolvers
        PROVE  CallInv(call[r])'
    <2>1. CallInv(call[r])
      BY DEF RouterInv
    <2>2. QED
      BY <1>1, <2>1 DEF Steady, CallInv, Placed, Ranked, KeysFit, Holding, Answered, Listing,
            Listed, Known, Registered, EntriesOf
  <1>4. QED
    BY <1>2, <1>3 DEF RouterInv

LEMMA RouterBegins ==
    ASSUME RouterInit
    PROVE  RouterInv
  <1>1. \A r \in Resolvers : call[r] = IdleCall
    BY DEF RouterInit
  <1>2. SettingInv
    BY IdleIs DEF RouterInit, SettingInv, Ids
  <1>3. CacheInv
    BY DEF RouterInit, CacheInv
  <1>4. QED
    BY <1>1, <1>2, <1>3, IdleKeeps DEF RouterInv

\* What the invariant is for.
LEMMA RouterImplies ==
    ASSUME RouterInv
    PROVE  ResolutionIsSound
  <1> DEFINE Open == {m \in {"catalog"} \X DOMAIN Catalog : CanBeUsed(Catalog[m[2]])}
             OpenCustom == {m \in {"custom"} \X Registered :
                                  CanBeUsed(Custom[custom[m[2]]][3])}
  <1>1. \A es : CanBeUsed(es) <=> \E i \in DOMAIN es : Opens(es[i])
    BY DEF CanBeUsed, Opens, Elsewhere, credential_cache_key
  <1>2. ASSUME NEW r \in Resolvers, call[r].mode = "list", call[r].pc = "idle", sets = 0
        PROVE  call[r].listed = Open \cup OpenCustom
    <2>1. CallInv(call[r])
      BY DEF RouterInv
    <2>2. call[r].todo = {} /\ Current(call[r]) = {}
      BY <1>2, <2>1 DEF CallInv, Listing
    <2>3. call[r].listed = {m \in Known : \E i \in DOMAIN EntriesOf(m) : Opens(EntriesOf(m)[i])}
      BY <1>2, <2>1, <2>2 DEF CallInv, Listed
    <2>4. call[r].listed = {m \in Known : CanBeUsed(EntriesOf(m))}
      BY <1>1, <2>3
    <2>5. \A m \in {"catalog"} \X DOMAIN Catalog : EntriesOf(m) = Catalog[m[2]]
      BY DEF EntriesOf
    <2>6. \A m \in {"custom"} \X Registered : EntriesOf(m) = Custom[custom[m[2]]][3]
      BY DEF EntriesOf
    <2>7. QED
      BY <2>4, <2>5, <2>6 DEF Known
  <1>3. ASSUME NEW r \in Resolvers
        PROVE  KeysFit(call[r]) /\ Answered(call[r])
    BY DEF RouterInv, CallInv
  <1>4. QED
    BY <1>2, <1>3 DEF ResolutionIsSound, KeysFit, Answered

\* A model name is resolved to the best provider that was found usable, with
\* a key of its own, however the calls of other threads, their insertions in
\* the shared credential cache and changes of the environment interleave with
\* ModelRouter::resolve; and list_authenticated_models is exact.
THEOREM ResolutionTheorem == CoreSpec => []ResolutionIsSound
  <1>1. CoreInit => RouterInv
    BY RouterBegins DEF CoreInit
  <1>2. RouterInv /\ [CoreNext]_coreVars => RouterInv'
    BY RouterStep, RouterStutters DEF CoreNext, coreVars
  <1>3. RouterInv => ResolutionIsSound
    BY RouterImplies
  <1>4. QED
    BY <1>1, <1>2, <1>3, PTL DEF CoreSpec

----------------------------------------------------------------------------
(* The turns of a conversation: what becomes of a message                  *)

CallNames == ToolCalls \cup {NoCall} \cup {FunctionOf[c] : c \in ToolCalls \cup {NoCall}}
Message   == {m \in [role : {"system", "user", "assistant", "tool"}, text : BOOLEAN,
                     calls : Seq(ToolCalls), call : ToolCalls \cup {NoCall}, named : BOOLEAN] :
                 m.role # "assistant" => m.calls = <<>>}

Speakers  == {"system", "user", "assistant", "tool", "model"}
CallBlock == {"call"} \X CallNames
Block     == ({"text"} \X Nat) \cup CallBlock \cup ({"result"} \X CallNames \X Nat)
TurnOf    == [role : Speakers, blocks : Seq(Block)]
Bodies    == [system : Seq(Nat), turns : Seq(TurnOf)]
Dialects  == {"openai", "anthropic", "gemini"}

\* Text and calls, and the turn they make.
LEMMA SpeechIs ==
    ASSUME NEW m \in Message, NEW i \in Nat \ {0}, NEW q \in Seq(CallBlock), NEW role \in Speakers
    PROVE  LET s == TextBlock(m, i) \o q
               t == [role |-> role, blocks |-> s]
               u == [role |-> role, blocks |-> OrPlaceholder(s)]
           IN  /\ s \in Seq(Block)
               /\ t \in TurnOf /\ Said(t) = s
               /\ u \in TurnOf /\ Said(u) = s /\ u.blocks # <<>>
  <1> DEFINE s == TextBlock(m, i) \o q
             p == <<<<"text", 0>>>>
             t == [role |-> role, blocks |-> s]
             u == [role |-> role, blocks |-> OrPlaceholder(s)]
  <1>1. CallBlock \subseteq Block /\ <<"text", i>> \in Block /\ <<"text", 0>> \in Block
    BY DEF Block
  <1>2. q \in Seq(Block) /\ p \in Seq(Block) /\ p # <<>> /\ p[1] = <<"text", 0>> /\ Len(p) = 1
    BY <1>1
  <1>3. TextBlock(m, i) \in Seq(Block)
    BY <1>1 DEF TextBlock
  <1>4. s \in Seq(Block)
    BY <1>2, <1>3
  <1>5. s # p
    <2>1. CASE m.text
      <3>1. TextBlock(m, i) = <<<<"text", i>>>>
        BY <2>1 DEF TextBlock
      <3>2. s[1] = <<"text", i>>
        BY <1>2, <3>1
      <3>3. <<"text", i>> # <<"text", 0>>
        OBVIOUS
      <3>4. QED
        BY <1>2, <3>2, <3>3
    <2>2. CASE ~m.text
      <3>1. TextBlock(m, i) = <<>>
        BY <2>2 DEF TextBlock
      <3>2. s = q
        BY <1>2, <3>1
      <3>3. ASSUME q = p
            PROVE  FALSE
        <4>1. q[1] \in CallBlock
          BY <1>2, <3>3
        <4>2. q[1] = <<"text", 0>>
          BY <1>2, <3>3
        <4>3. <<"text", 0>> \notin CallBlock
          BY DEF CallBlock
        <4>4. QED
          BY <4>1, <4>2, <4>3
      <3>4. QED
        BY <3>2, <3>3
    <2>3. QED
      BY <2>1, <2>2
  <1> HIDE DEF s, p
  <1>6. t \in TurnOf /\ t.blocks = s
    BY <1>4 DEF TurnOf
  <1>7. Said(t) = s
    BY <1>5, <1>6 DEF Said, p
  <1>8. OrPlaceholder(s) = IF s = <<>> THEN p ELSE s
    BY DEF OrPlaceholder, p
  <1>9. u \in TurnOf /\ u.blocks = IF s = <<>> THEN p ELSE s
    BY <1>2, <1>4, <1>8 DEF TurnOf
  <1>10. Said(u) = IF u.blocks = p THEN <<>> ELSE u.blocks
    BY DEF Said, p
  <1>11. Said(u) = s /\ u.blocks # <<>>
    BY <1>2, <1>5, <1>9, <1>10
  <1>12. QED
    BY <1>4, <1>6, <1>7, <1>9, <1>11 DEF s

\* Calls as blocks.
LEMMA CallsAre ==
    ASSUME NEW m \in Message
    PROVE  /\ CallBlocks(m) \in Seq(CallBlock)
           /\ [j \in DOMAIN m.calls |-> <<"call", FunctionOf[m.calls[j]]>>] \in Seq(CallBlock)
           /\ \A i \in Nat : /\ <<"result", m.call, i>> \in Block
                             /\ <<"result", FunctionOf[m.call], i>> \in Block
  <1>1. /\ m.calls \in Seq(ToolCalls) /\ m.call \in ToolCalls \cup {NoCall}
        /\ Len(m.calls) \in Nat /\ DOMAIN m.calls = 1 .. Len(m.calls)
        /\ \A j \in DOMAIN m.calls : m.calls[j] \in ToolCalls
    BY DEF Message
  <1>2. \A j \in DOMAIN m.calls : /\ <<"call", m.calls[j]>> \in CallBlock
                                  /\ <<"call", FunctionOf[m.calls[j]]>> \in CallBlock
    BY <1>1 DEF CallBlock, CallNames
  <1>3. m.call \in CallNames /\ FunctionOf[m.call] \in CallNames
    BY <1>1 DEF CallNames
  <1> DEFINE D == DOMAIN m.calls
             own == [j \in D |-> <<"call", m.calls[j]>>]
             named == [j \in D |-> <<"call", FunctionOf[m.calls[j]]>>]
  <1>4. own \in [D -> CallBlock] /\ named \in [D -> CallBlock]
    BY <1>2
  <1>5. CallBlocks(m) = own
    BY DEF CallBlocks
  <1>6. \A f \in [D -> CallBlock] : f \in Seq(CallBlock)
    <2> HIDE DEF own, named
    <2>1. D = 1 .. Len(m.calls)
      BY <1>1
    <2> HIDE DEF D
    <2>2. QED
      BY <1>1, <2>1
  <1>7. own \in Seq(CallBlock) /\ named \in Seq(CallBlock)
    <2> HIDE DEF own, named, D
    <2>1. QED
      BY <1>4, <1>6
  <1>8. \A i \in Nat : <<"result", m.call, i>> \in Block /\ <<"result", FunctionOf[m.call], i>> \in Block
    BY <1>3 DEF Block
  <1>9. QED
    BY <1>5, <1>7, <1>8

\* What a step does to the turns.
Stays(c, b)    == c.turns = b.turns
Adds(c, b, t)  == c.turns = Append(b.turns, t)
Joins(c, b, x) == c.turns = [b.turns EXCEPT ![Len(b.turns)].blocks = Append(@, x)]

\* The last turn takes another result.
OpenTurn(turns) ==
    LET n == Len(turns)
    IN  n > 0 /\ turns[n].role = "user" /\ turns[n].blocks[1][1] = "result"

\* The turn a message makes.
Makes(d, m, i, t) ==
    /\ t \in TurnOf
    /\ Said(t) = Meaning(d, m, i)
    /\ d # "openai" => t.blocks # <<>>
    /\ d = "anthropic" => IF m.role = "tool" THEN t.role = "user" /\ t.blocks = <<<<"result", m.call, i>>>>
                                             ELSE t.role = m.role

\* What becomes of a message.
Goes(d, b, m, i, c) ==
    /\ c \in Bodies
    /\ \/ /\ Stays(c, b) /\ m.role = "system"
          /\ d # "openai" /\ Meaning(d, m, i) = <<>>
       \/ /\ d = "anthropic" => m.role # "system" /\ (m.role = "tool" => ~OpenTurn(b.turns))
          /\ \E t : Makes(d, m, i, t) /\ Adds(c, b, t)
       \/ /\ d = "anthropic" /\ m.role = "tool" /\ OpenTurn(b.turns)
          /\ Joins(c, b, <<"result", m.call, i>>)
          /\ Meaning(d, m, i) = <<<<"result", m.call, i>>>>

\* A turn of one result.
LEMMA ResultTurn ==
    ASSUME NEW x \in CallNames, NEW i \in Nat, NEW role \in Speakers
    PROVE  LET t == [role |-> role, blocks |-> <<<<"result", x, i>>>>]
           IN  t \in TurnOf /\ Said(t) = <<<<"result", x, i>>>> /\ t.blocks # <<>>
  <1> DEFINE s == <<<<"result", x, i>>>>
             p == <<<<"text", 0>>>>
             t == [role |-> role, blocks |-> s]
  <1>1. s \in Seq(Block)
    BY DEF Block
  <1>2. s[1] = <<"result", x, i>> /\ p[1] = <<"text", 0>> /\ <<"result", x, i>> # <<"text", 0>>
    OBVIOUS
  <1>3. s # p /\ s # <<>>
    BY <1>2
  <1> HIDE DEF s, p
  <1>4. t \in TurnOf /\ t.blocks = s
    BY <1>1 DEF TurnOf
  <1>5. Said(t) = s
    BY <1>3, <1>4 DEF Said, p
  <1>6. QED
    BY <1>3, <1>4, <1>5 DEF s

\* A body with one turn more.
LEMMA TurnIs ==
    ASSUME NEW b \in Bodies, NEW role \in Speakers, NEW blocks \in Seq(Block)
    PROVE  LET t == [role |-> role, blocks |-> blocks]
           IN  t \in TurnOf /\ Turn(b, role, blocks) \in Bodies /\ Adds(Turn(b, role, blocks), b, t)
  <1> DEFINE t == [role |-> role, blocks |-> blocks]
  <1>1. t \in TurnOf
    BY DEF TurnOf
  <1> HIDE DEF t
  <1>2. b.turns \in Seq(TurnOf) /\ b.system \in Seq(Nat)
    BY DEF Bodies
  <1>3. Append(b.turns, t) \in Seq(TurnOf)
    BY <1>1, <1>2
  <1>4. Turn(b, role, blocks) = [b EXCEPT !.turns = Append(b.turns, t)]
    BY DEF Turn, t
  <1>5. QED
    BY <1>1, <1>3, <1>4 DEF Bodies, Adds, t

LEMMA MessageIs ==
    ASSUME NEW m \in Message
    PROVE  /\ m.role \in {"system", "user", "assistant", "tool"} /\ m.role \in Speakers
           /\ m.call \in CallNames /\ FunctionOf[m.call] \in CallNames
           /\ m.role # "assistant" => m.calls = <<>> /\ CallBlocks(m) = <<>>
  <1>1. /\ m.role \in {"system", "user", "assistant", "tool"}
        /\ m.call \in ToolCalls \cup {NoCall}
        /\ m.role # "assistant" => m.calls = <<>>
    <2>1. m \in [role : {"system", "user", "assistant", "tool"}, text : BOOLEAN,
                 calls : Seq(ToolCalls), call : ToolCalls \cup {NoCall}, named : BOOLEAN]
      BY DEF Message
    <2>2. m.role # "assistant" => m.calls = <<>>
      BY DEF Message
    <2>3. m.role \in {"system", "user", "assistant", "tool"}
      BY <2>1
    <2>4. m.call \in ToolCalls \cup {NoCall}
      BY <2>1
    <2>5. QED
      BY <2>2, <2>3, <2>4
  <1>2. m.call \in CallNames /\ FunctionOf[m.call] \in CallNames
    BY <1>1 DEF CallNames
  <1>3. m.calls = <<>> => CallBlocks(m) = <<>>
    BY DEF CallBlocks
  <1>4. m.role \in Speakers
    BY <1>1 DEF Speakers
  <1>5. QED
    BY <1>1, <1>2, <1>3, <1>4

LEMMA SystemIs ==
    ASSUME NEW b \in Bodies, NEW i \in Nat
    PROVE  LET c == [b EXCEPT !.system = Append(@, i)]
           IN  c \in Bodies /\ c.turns = b.turns
  <1> DEFINE s == Append(b.system, i)
  <1>1. s \in Seq(Nat)
    BY DEF Bodies
  <1>2. [b EXCEPT !.system = Append(@, i)] = [b EXCEPT !.system = s]
    OBVIOUS
  <1> HIDE DEF s
  <1>3. QED
    BY <1>1, <1>2 DEF Bodies

\* Every dialect makes of a message what it means.
LEMMA OpenAiGoes ==
    ASSUME NEW b \in Bodies, NEW m \in Message, NEW i \in Nat \ {0}
    PROVE  Goes("openai", b, m, i, OpenAiMessage(b, m, i))
  <1> DEFINE s == TextBlock(m, i) \o CallBlocks(m)
             x == <<<<"result", m.call, i>>>>
             c == OpenAiMessage(b, m, i)
  <1>1. m.role \in Speakers /\ m.call \in CallNames
    BY MessageIs
  <1>2. CallBlocks(m) \in Seq(CallBlock) /\ <<"result", m.call, i>> \in Block
    BY CallsAre
  <1>3. CASE m.role = "tool"
    <2> DEFINE t == [role |-> m.role, blocks |-> x]
    <2>1. t \in TurnOf /\ Said(t) = x
      BY <1>1, ResultTurn
    <2>2. x \in Seq(Block)
      BY <1>2
    <2>3. c = Turn(b, m.role, x)
      BY <1>3 DEF OpenAiMessage
    <2>4. Meaning("openai", m, i) = x
      BY <1>3 DEF Meaning
    <2> HIDE DEF x
    <2>5. c \in Bodies /\ Adds(c, b, t)
      BY <1>1, <2>2, <2>3, TurnIs
    <2> HIDE DEF t, c
    <2>6. Makes("openai", m, i, t)
      BY <2>1, <2>4 DEF Makes
    <2>7. QED
      BY <2>5, <2>6 DEF Goes, c
  <1>4. CASE m.role # "tool"
    <2> DEFINE t == [role |-> m.role, blocks |-> s]
    <2>1. s \in Seq(Block) /\ t \in TurnOf /\ Said(t) = s
      BY <1>1, <1>2, SpeechIs
    <2>3. c = Turn(b, m.role, s)
      BY <1>4 DEF OpenAiMessage
    <2>4. Said(t) = Meaning("openai", m, i)
      <3>1. CASE m.role = "system"
        <4>1. s = TextBlock(m, i) \o <<>> /\ TextBlock(m, i) \in {<<>>, <<<<"text", i>>>>}
          BY <3>1, MessageIs DEF TextBlock
        <4>2. s = TextBlock(m, i)
          BY <4>1
        <4>3. Meaning("openai", m, i) = TextBlock(m, i)
          BY <3>1 DEF Meaning
        <4>4. QED
          BY <2>1, <4>2, <4>3
      <3>2. CASE m.role # "system"
        <4>1. Meaning("openai", m, i) = s
          BY <1>4, <3>2 DEF Meaning, CallBlocks
        <4>2. QED
          BY <2>1, <4>1
      <3>3. QED
        BY <3>1, <3>2
    <2> HIDE DEF s
    <2>5. c \in Bodies /\ Adds(c, b, t)
      BY <1>1, <2>1, <2>3, TurnIs
    <2> HIDE DEF t, c
    <2>6. Makes("openai", m, i, t)
      BY <2>1, <2>4 DEF Makes
    <2>7. QED
      BY <2>5, <2>6 DEF Goes, c
  <1>5. QED
    BY <1>3, <1>4

LEMMA AnthropicGoes ==
    ASSUME NEW b \in Bodies, NEW m \in Message, NEW i \in Nat \ {0}
    PROVE  Goes("anthropic", b, m, i, AnthropicMessage(b, m, i))
  <1> DEFINE s == TextBlock(m, i) \o CallBlocks(m)
             result == <<"result", m.call, i>>
             x == <<result>>
             c == AnthropicMessage(b, m, i)
             n == Len(b.turns)
             join == OpenTurn(b.turns)
  <1>1. /\ m.role \in {"system", "user", "assistant", "tool"} /\ m.role \in Speakers
        /\ m.call \in CallNames /\ "user" \in Speakers
    BY MessageIs DEF Speakers
  <1>2. CallBlocks(m) \in Seq(CallBlock) /\ result \in Block
    BY CallsAre
  <1>3. b.turns \in Seq(TurnOf) /\ b.system \in Seq(Nat)
    BY DEF Bodies
  <1>4. CASE m.role = "system"
    <2>1. c = [b EXCEPT !.system = Append(@, i)]
      BY <1>4 DEF AnthropicMessage
    <2>2. c \in Bodies /\ c.turns = b.turns
      BY <2>1, SystemIs
    <2>3. Meaning("anthropic", m, i) = <<>>
      BY <1>4 DEF Meaning
    <2>4. QED
      BY <1>4, <2>2, <2>3 DEF Goes, Stays
  <1>5. CASE m.role = "tool" /\ join
    <2>1. c = [b EXCEPT !.turns[n].blocks = Append(@, result)]
      BY <1>5 DEF AnthropicMessage, OpenTurn
    <2>2. Meaning("anthropic", m, i) = x
      BY <1>5 DEF Meaning
    <2> HIDE DEF x, result
    <2> DEFINE u == [b.turns EXCEPT ![n].blocks = Append(@, result)]
    <2>3. u \in Seq(TurnOf)
      <3>1. n \in 1 .. n /\ DOMAIN b.turns = 1 .. n /\ b.turns[n] \in TurnOf /\ n \in Nat
        BY <1>3, <1>5 DEF OpenTurn
      <3>2. b.turns[n].blocks \in Seq(Block)
        BY <3>1 DEF TurnOf
      <3>3. Append(b.turns[n].blocks, result) \in Seq(Block)
        BY <1>2, <3>2
      <3> DEFINE t == [b.turns[n] EXCEPT !.blocks = Append(b.turns[n].blocks, result)]
      <3>4. t \in TurnOf
        BY <3>1, <3>3 DEF TurnOf
      <3>5. u = [b.turns EXCEPT ![n] = t]
        BY <3>1
      <3> HIDE DEF t, u, n
      <3>6. QED
        BY <1>3, <3>1, <3>4, <3>5
    <2>4. c.turns = u /\ c \in Bodies
      <3>1. c = [b EXCEPT !.turns = u]
        BY <2>1
      <3> HIDE DEF u, c
      <3>2. QED
        BY <2>3, <3>1 DEF Bodies
    <2>5. Joins(c, b, result)
      BY <1>5, <2>4 DEF Joins
    <2> HIDE DEF c
    <2>6. QED
      BY <1>5, <2>2, <2>4, <2>5 DEF Goes, x, result, c
  <1>6. CASE m.role = "tool" /\ ~join
    <2> DEFINE t == [role |-> "user", blocks |-> x]
    <2>1. t \in TurnOf /\ Said(t) = x /\ t.blocks # <<>>
      BY <1>1, ResultTurn
    <2>2. x \in Seq(Block)
      BY <1>2
    <2>3. c = Turn(b, "user", x)
      BY <1>6 DEF AnthropicMessage, OpenTurn
    <2>4. Meaning("anthropic", m, i) = x
      BY <1>6 DEF Meaning
    <2>5. c \in Bodies /\ Adds(c, b, t)
      <3> HIDE DEF x, c
      <3>1. QED
        BY <1>1, <2>2, <2>3, TurnIs
    <2>6. t.role = "user" /\ t.blocks = <<<<"result", m.call, i>>>>
      OBVIOUS
    <2> HIDE DEF t, c, x
    <2>7. Makes("anthropic", m, i, t)
      BY <1>6, <2>1, <2>4, <2>6 DEF Makes
    <2>8. QED
      BY <1>6, <2>5, <2>7 DEF Goes, c
  <1>7. CASE m.role \in {"user", "assistant"}
    <2> DEFINE p == OrPlaceholder(s)
               t == [role |-> m.role, blocks |-> p]
    <2>1. t \in TurnOf /\ Said(t) = s /\ t.blocks # <<>>
      BY <1>1, <1>2, SpeechIs
    <2>2. p \in Seq(Block)
      BY <2>1 DEF TurnOf
    <2>3. c = Turn(b, m.role, p)
      BY <1>7 DEF AnthropicMessage
    <2>4. Meaning("anthropic", m, i) = s
      BY <1>7 DEF Meaning, CallBlocks
    <2> HIDE DEF s, p
    <2>5. c \in Bodies /\ Adds(c, b, t)
      BY <1>1, <2>2, <2>3, TurnIs
    <2>6. t.role = m.role
      OBVIOUS
    <2> HIDE DEF t, c
    <2>7. Makes("anthropic", m, i, t)
      BY <1>7, <2>1, <2>4, <2>6 DEF Makes
    <2>8. QED
      BY <1>7, <2>5, <2>7 DEF Goes, c
  <1>8. QED
    BY <1>1, <1>4, <1>5, <1>6, <1>7

LEMMA GeminiGoes ==
    ASSUME NEW b \in Bodies, NEW m \in Message, NEW i \in Nat \ {0}
    PROVE  Goes("gemini", b, m, i, GeminiMessage(b, m, i))
  <1> DEFINE asked == [j \in DOMAIN m.calls |-> <<"call", FunctionOf[m.calls[j]]>>]
             s == TextBlock(m, i) \o asked
             name == IF m.named THEN FunctionOf[m.call] ELSE m.call
             x == <<<<"result", name, i>>>>
             c == GeminiMessage(b, m, i)
  <1>1. /\ m.role \in {"system", "user", "assistant", "tool"}
        /\ name \in CallNames /\ "user" \in Speakers /\ "model" \in Speakers
    BY MessageIs DEF Speakers
  <1>2. asked \in Seq(CallBlock) /\ <<"result", name, i>> \in Block
    BY CallsAre
  <1>3. b.turns \in Seq(TurnOf) /\ b.system \in Seq(Nat)
    BY DEF Bodies
  <1>4. CASE m.role = "system"
    <2>1. c = IF m.text THEN [b EXCEPT !.system = Append(@, i)] ELSE b
      BY <1>4 DEF GeminiMessage
    <2>2. c \in Bodies /\ c.turns = b.turns
      BY <2>1, SystemIs
    <2>3. Meaning("gemini", m, i) = <<>>
      BY <1>4 DEF Meaning
    <2>4. QED
      BY <1>4, <2>2, <2>3 DEF Goes, Stays
  <1>5. CASE m.role = "tool"
    <2> DEFINE t == [role |-> "user", blocks |-> x]
    <2>1. t \in TurnOf /\ Said(t) = x /\ t.blocks # <<>>
      <3> HIDE DEF name
      <3>1. QED
        BY <1>1, ResultTurn
    <2>2. x \in Seq(Block)
      BY <1>2
    <2>3. c = Turn(b, "user", x)
      BY <1>5 DEF GeminiMessage
    <2>4. Meaning("gemini", m, i) = x
      BY <1>5 DEF Meaning
    <2> HIDE DEF x
    <2>5. c \in Bodies /\ Adds(c, b, t)
      BY <1>1, <2>2, <2>3, TurnIs
    <2> HIDE DEF t, c
    <2>6. Makes("gemini", m, i, t)
      BY <2>1, <2>4 DEF Makes
    <2>7. QED
      BY <2>5, <2>6 DEF Goes, c
  <1>6. CASE m.role \in {"user", "assistant"}
    <2> DEFINE role == IF m.role = "user" THEN "user" ELSE "model"
               p == OrPlaceholder(s)
               t == [role |-> role, blocks |-> p]
    <2>1. role \in Speakers
      BY <1>1
    <2> HIDE DEF role
    <2>2. t \in TurnOf /\ Said(t) = s /\ t.blocks # <<>>
      <3> HIDE DEF asked
      <3>1. QED
        BY <1>2, <2>1, SpeechIs
    <2>3. p \in Seq(Block)
      BY <2>2 DEF TurnOf
    <2>4. m.role = "user" => s = TextBlock(m, i)
      <3>1. m.role = "user" => asked = <<>>
        BY MessageIs
      <3>2. TextBlock(m, i) \o <<>> = TextBlock(m, i)
        BY DEF TextBlock
      <3>3. QED
        BY <3>1, <3>2
    <2>5. c = Turn(b, role, p)
      BY <1>6, <2>4 DEF GeminiMessage, role
    <2>6. Meaning("gemini", m, i) = s
      BY <1>6 DEF Meaning
    <2> HIDE DEF s, p
    <2>7. c \in Bodies /\ Adds(c, b, t)
      BY <2>1, <2>3, <2>5, TurnIs
    <2> HIDE DEF t, c
    <2>8. Makes("gemini", m, i, t)
      BY <2>2, <2>6 DEF Makes
    <2>9. QED
      BY <2>7, <2>8 DEF Goes, c
  <1>7. QED
    BY <1>1, <1>4, <1>5, <1>6

LEMMA EncodedGoes ==
    ASSUME NEW d \in Dialects, NEW b \in Bodies, NEW m \in Message, NEW i \in Nat \ {0}
    PROVE  Goes(d, b, m, i, Encoded(d, b, m, i))
  <1>1. d \in {"openai", "anthropic", "gemini"}
    BY DEF Dialects
  <1>2. CASE d = "openai"
    BY <1>2, OpenAiGoes DEF Encoded
  <1>3. CASE d = "anthropic"
    BY <1>3, AnthropicGoes DEF Encoded
  <1>4. CASE d = "gemini"
    BY <1>4, GeminiGoes DEF Encoded
  <1>5. QED
    BY <1>1, <1>2, <1>3, <1>4

----------------------------------------------------------------------------
(* What becomes of a conversation                                          *)

\* The bodies of the first messages of s.
Builds(f, d, s) ==
    /\ f[0] = EmptyBody
    /\ \A i \in 1 .. Len(s) : f[i] = Encoded(d, f[i - 1], s[i], i)

LEMMA EncodedTyped ==
    ASSUME NEW d \in Dialects, NEW b \in Bodies, NEW m \in Message, NEW i \in Nat \ {0}
    PROVE  Encoded(d, b, m, i) \in Bodies
  BY EncodedGoes DEF Goes

LEMMA EmptyBodyIs == EmptyBody \in Bodies /\ EmptyBody.turns = <<>>
  BY DEF EmptyBody, Bodies

\* normalize_request encodes one message after the other.
LEMMA BodyIs ==
    ASSUME NEW d \in Dialects, NEW s \in Seq(Message)
    PROVE  \E f \in [0 .. Len(s) -> Bodies] :
              Builds(f, d, s) /\ normalize_request(d, s) = f[Len(s)]
  <1> DEFINE n == Len(s)
             G == [i \in 1 .. n |-> [b \in Bodies |-> Encoded(d, b, s[i], i)]]
             Step(f) == [i \in 0 .. n |->
                IF i = 0 THEN EmptyBody ELSE Encoded(d, f[i - 1], s[i], i)]
             c == CHOOSE f : f = Step(f)
  <1>1. n \in Nat /\ \A i \in 1 .. n : s[i] \in Message /\ i \in Nat \ {0}
    OBVIOUS
  <1>2. normalize_request(d, s) = c[n]
    BY Zenon DEF normalize_request
  <1> HIDE DEF n
  <1>3. \A i \in 1 .. n : \A b \in Bodies : Encoded(d, b, s[i], i) \in Bodies
    BY <1>1, EncodedTyped
  <1>4. G \in [1 .. n -> [Bodies -> Bodies]]
    BY <1>3
  <1>5. PICK f : Iterated(f, n, Bodies, EmptyBody, G)
    <2> HIDE DEF G
    <2>1. QED
      BY <1>1, <1>4, EmptyBodyIs, Iterates
  <1>6. /\ f \in [0 .. n -> Bodies] /\ f[0] = EmptyBody
        /\ \A i \in 1 .. n : f[i] = Encoded(d, f[i - 1], s[i], i)
    <2>1. f \in [0 .. n -> Bodies] /\ f[0] = EmptyBody /\ \A i \in 1 .. n : f[i] = G[i][f[i - 1]]
      BY <1>5 DEF Iterated
    <2>2. \A i \in 1 .. n : i - 1 \in 0 .. n /\ f[i - 1] \in Bodies
      BY <1>1, <2>1
    <2>3. \A i \in 1 .. n : G[i][f[i - 1]] = Encoded(d, f[i - 1], s[i], i)
      BY <2>2
    <2> HIDE DEF G
    <2>4. QED
      BY <2>1, <2>3
  <1>7. f = Step(f)
    <2>1. \A i \in 0 .. n : f[i] = IF i = 0 THEN EmptyBody ELSE Encoded(d, f[i - 1], s[i], i)
      <3>1. \A i \in 0 .. n : i = 0 \/ i \in 1 .. n
        BY <1>1
      <3>2. QED
        BY <1>6, <3>1
    <2>2. QED
      BY <1>6, <2>1
  <1>8. c = Step(c)
    <2> HIDE DEF Step
    <2>1. QED
      BY <1>7, Zenon
  <1> HIDE DEF c
  <1>9. c[0] = EmptyBody /\ \A i \in 1 .. n : c[i] = Encoded(d, c[i - 1], s[i], i)
    <2>1. c[0] = EmptyBody
      BY <1>1, <1>8
    <2>2. \A i \in 1 .. n : i \in 0 .. n /\ i # 0
      BY <1>1
    <2>3. QED
      BY <1>8, <2>1, <2>2
  <1> DEFINE T == {i \in 0 .. n : c[i] \in Bodies}
  <1>10. 0 \in T
    BY <1>1, <1>9, EmptyBodyIs
  <1>11. ASSUME NEW i \in 1 .. n, i - 1 \in T
         PROVE  i \in T
    <2>1. c[i] = Encoded(d, c[i - 1], s[i], i) /\ c[i - 1] \in Bodies
      BY <1>9, <1>11
    <2>2. c[i] \in Bodies /\ i \in 0 .. n
      BY <1>1, <1>3, <2>1
    <2>3. QED
      BY <2>2
  <1>12. 0 .. n \subseteq T
    <2> HIDE DEF T
    <2>1. QED
      BY <1>1, <1>10, <1>11, UpTo
  <1>13. c \in [0 .. n -> Bodies]
    <2>1. c = [i \in 0 .. n |-> c[i]]
      BY <1>8
    <2>2. QED
      BY <1>12, <2>1
  <1>14. Builds(c, d, s)
    BY <1>9 DEF Builds, n
  <1>15. QED
    BY <1>2, <1>13, <1>14 DEF n

\* One message more.
LEMMA BodyAppend ==
    ASSUME NEW d \in Dialects, NEW s \in Seq(Message), NEW m \in Message
    PROVE  /\ normalize_request(d, s) \in Bodies
           /\ normalize_request(d, Append(s, m)) =
                 Encoded(d, normalize_request(d, s), m, Len(s) + 1)
  <1> DEFINE n == Len(s)
             r == Append(s, m)
  <1>1. n \in Nat /\ r \in Seq(Message) /\ Len(r) = n + 1 /\ r[n + 1] = m /\ \A i \in 1 .. n : r[i] = s[i]
    OBVIOUS
  <1> HIDE DEF r
  <1>2. PICK f \in [0 .. n -> Bodies] : Builds(f, d, s) /\ normalize_request(d, s) = f[n]
    BY BodyIs
  <1>3. PICK g \in [0 .. Len(r) -> Bodies] : Builds(g, d, r) /\ normalize_request(d, r) = g[Len(r)]
    BY <1>1, BodyIs
  <1> DEFINE T == {i \in 0 .. n : f[i] = g[i]}
  <1>4. 0 \in T
    BY <1>1, <1>2, <1>3 DEF Builds
  <1>5. ASSUME NEW i \in 1 .. n, i - 1 \in T
        PROVE  i \in T
    <2>1. i \in 1 .. Len(r) /\ i \in 0 .. n /\ r[i] = s[i]
      BY <1>1
    <2>2. f[i] = Encoded(d, f[i - 1], s[i], i) /\ g[i] = Encoded(d, g[i - 1], r[i], i)
      BY <1>2, <1>3, <2>1 DEF Builds
    <2>3. f[i] = g[i]
      BY <1>5, <2>1, <2>2
    <2>4. QED
      BY <2>1, <2>3
  <1>6. 0 .. n \subseteq T
    <2> HIDE DEF T, n
    <2>1. QED
      BY <1>1, <1>4, <1>5, UpTo
  <1>7. f[n] = g[n]
    BY <1>1, <1>6
  <1>8. g[n + 1] = Encoded(d, g[n], m, n + 1)
    <2>1. n + 1 \in 1 .. Len(r) /\ (n + 1) - 1 = n
      BY <1>1
    <2>2. QED
      BY <1>1, <1>3, <2>1 DEF Builds
  <1>9. QED
    BY <1>1, <1>2, <1>3, <1>7, <1>8 DEF r

LEMMA BodyOfNone ==
    ASSUME NEW d \in Dialects
    PROVE  normalize_request(d, <<>>) = EmptyBody
  <1> DEFINE s == <<>>
  <1>1. s \in Seq(Message) /\ Len(s) = 0
    OBVIOUS
  <1> HIDE DEF s
  <1>2. PICK f \in [0 .. Len(s) -> Bodies] : Builds(f, d, s) /\ normalize_request(d, s) = f[Len(s)]
    BY <1>1, BodyIs
  <1>3. QED
    BY <1>1, <1>2 DEF Builds, s

----------------------------------------------------------------------------
(* What is said                                                            *)

Saids(turns)   == [k \in DOMAIN turns |-> Said(turns[k])]
Meanings(d, s) == [i \in DOMAIN s |-> Meaning(d, s[i], i)]

LEMMA MeaningTyped ==
    ASSUME NEW d \in Dialects, NEW m \in Message, NEW i \in Nat \ {0}
    PROVE  Meaning(d, m, i) \in Seq(Block)
  <1>1. Goes(d, EmptyBody, m, i, Encoded(d, EmptyBody, m, i))
    BY EmptyBodyIs, EncodedGoes
  <1>2. EmptyBody.turns = <<>>
    BY EmptyBodyIs
  <1>3. ASSUME NEW t, Makes(d, m, i, t)
        PROVE  Meaning(d, m, i) \in Seq(Block)
    <2>1. t \in TurnOf /\ Said(t) = Meaning(d, m, i)
      BY <1>3 DEF Makes
    <2>2. t.blocks \in Seq(Block) /\ <<>> \in Seq(Block)
      BY <2>1 DEF TurnOf
    <2>3. Said(t) \in Seq(Block)
      BY <2>2 DEF Said
    <2>4. QED
      BY <2>1, <2>3
  <1>4. ~OpenTurn(EmptyBody.turns)
    <2>1. Len(EmptyBody.turns) = 0
      BY <1>2
    <2>2. QED
      BY <2>1 DEF OpenTurn
  <1>5. <<>> \in Seq(Block)
    OBVIOUS
  <1>6. \/ Meaning(d, m, i) = <<>>
        \/ \E t : Makes(d, m, i, t)
        \/ OpenTurn(EmptyBody.turns)
    BY <1>1, Zenon DEF Goes
  <1>7. QED
    BY <1>3, <1>4, <1>5, <1>6

LEMMA MeaningsAppend ==
    ASSUME NEW d \in Dialects, NEW s \in Seq(Message), NEW m \in Message
    PROVE  FlattenSeq(Meanings(d, Append(s, m))) =
              FlattenSeq(Meanings(d, s)) \o Meaning(d, m, Len(s) + 1)
  <1> DEFINE n == Len(s)
             A == Seq(Block)
             q == Meanings(d, s)
             e == Meaning(d, m, n + 1)
             r == Append(s, m)
  <1>1. /\ n \in Nat /\ DOMAIN s = 1 .. n /\ DOMAIN r = 1 .. n + 1 /\ r[n + 1] = m
        /\ \A i \in 1 .. n : r[i] = s[i] /\ s[i] \in Message /\ i \in Nat \ {0}
    OBVIOUS
  <1>2. \A i \in 1 .. n : Meaning(d, s[i], i) \in A
    <2> HIDE DEF n
    <2>1. QED
      BY <1>1, MeaningTyped
  <1>3. e \in A
    <2>1. n + 1 \in Nat \ {0}
      BY <1>1
    <2> HIDE DEF n
    <2>2. QED
      BY <2>1, MeaningTyped
  <1> HIDE DEF n, A, r, e
  <1>4. q \in [1 .. n -> A] /\ \A i \in 1 .. n : q[i] = Meaning(d, s[i], i)
    BY <1>1, <1>2 DEF Meanings
  <1>5. q \in Seq(A) /\ Len(q) = n
    BY <1>1, <1>4
  <1>6. Meanings(d, r) = Append(q, e)
    <2> DEFINE u == Meanings(d, r)
               v == Append(q, e)
    <2>1. DOMAIN u = 1 .. n + 1 /\ \A i \in 1 .. n + 1 : u[i] = Meaning(d, r[i], i)
      BY <1>1 DEF Meanings
    <2>2. u = [i \in 1 .. n + 1 |-> u[i]]
      BY <1>1 DEF Meanings
    <2>3. v = [i \in 1 .. n + 1 |-> v[i]] /\ v[n + 1] = e /\ \A i \in 1 .. n : v[i] = q[i]
      <3>1. q \in Seq(A) /\ Len(q) = n /\ e \in A
        BY <1>3, <1>5
      <3> HIDE DEF q
      <3>2. v \in Seq(A) /\ Len(v) = n + 1
        BY <3>1
      <3>3. v[n + 1] = e /\ \A i \in 1 .. n : v[i] = q[i]
        BY <1>1, <3>1
      <3> HIDE DEF v
      <3>4. v = [i \in 1 .. n + 1 |-> v[i]]
        BY <3>2
      <3>5. QED
        BY <3>3, <3>4
    <2>4. \A i \in 1 .. n + 1 : i = n + 1 \/ i \in 1 .. n
      BY <1>1
    <2>5. n + 1 \in 1 .. n + 1
      BY <1>1
    <2> HIDE DEF u, v
    <2>6. \A i \in 1 .. n + 1 : u[i] = v[i]
      BY <1>1, <1>4, <2>1, <2>3, <2>4, <2>5 DEF e
    <2>7. QED
      BY <2>2, <2>3, <2>6 DEF u, v
  <1>7. FlattenSeq(Append(q, e)) = FlattenSeq(q) \o e
    <2> HIDE DEF q
    <2>1. QED
      BY <1>3, <1>5, FlattenAppend DEF A
  <1>8. QED
    BY <1>6, <1>7 DEF r, e, n

LEMMA SaidTyped ==
    ASSUME NEW t \in TurnOf
    PROVE  Said(t) \in Seq(Block)
  <1>1. t.blocks \in Seq(Block) /\ <<>> \in Seq(Block)
    BY DEF TurnOf
  <1>2. QED
    BY <1>1 DEF Said

LEMMA SaidsAre ==
    ASSUME NEW q \in Seq(TurnOf)
    PROVE  /\ Saids(q) \in Seq(Seq(Block)) /\ Len(Saids(q)) = Len(q)
           /\ \A k \in 1 .. Len(q) : Saids(q)[k] = Said(q[k])
  <1> DEFINE n == Len(q)
             A == Seq(Block)
             u == Saids(q)
  <1>1. n \in Nat /\ DOMAIN q = 1 .. n /\ \A k \in 1 .. n : q[k] \in TurnOf
    OBVIOUS
  <1> HIDE DEF n, A
  <1>2. \A k \in 1 .. n : Said(q[k]) \in A
    BY <1>1, SaidTyped DEF A
  <1>3. u \in [1 .. n -> A] /\ \A k \in 1 .. n : u[k] = Said(q[k])
    BY <1>1, <1>2 DEF Saids
  <1> HIDE DEF u
  <1>4. u \in Seq(A) /\ Len(u) = n
    BY <1>1, <1>3
  <1>5. QED
    BY <1>3, <1>4 DEF n, A, u

LEMMA SaidsAppend ==
    ASSUME NEW q \in Seq(TurnOf), NEW t \in TurnOf
    PROVE  FlattenSeq(Saids(Append(q, t))) = FlattenSeq(Saids(q)) \o Said(t)
  <1> DEFINE n == Len(q)
             A == Seq(Block)
             u == Saids(q)
             e == Said(t)
             r == Append(q, t)
             w == Saids(r)
             v == Append(u, e)
  <1>1. /\ n \in Nat /\ r \in Seq(TurnOf) /\ Len(r) = n + 1 /\ r[n + 1] = t
        /\ \A k \in 1 .. n : r[k] = q[k]
    OBVIOUS
  <1>2. u \in Seq(A) /\ Len(u) = n /\ \A k \in 1 .. n : u[k] = Said(q[k])
    BY SaidsAre
  <1> HIDE DEF r
  <1>3. w \in Seq(A) /\ Len(w) = Len(r) /\ \A k \in 1 .. Len(r) : w[k] = Said(r[k])
    BY <1>1, SaidsAre
  <1>4. e \in A
    BY SaidTyped
  <1> HIDE DEF n, A, u, w, e
  <1>5. v \in Seq(A) /\ Len(v) = n + 1 /\ v[n + 1] = e /\ \A k \in 1 .. n : v[k] = u[k]
    BY <1>1, <1>2, <1>4
  <1> HIDE DEF v
  <1>6. \A k \in 1 .. n + 1 : w[k] = v[k]
    <2>1. \A k \in 1 .. n + 1 : k = n + 1 \/ k \in 1 .. n
      BY <1>1
    <2>2. \A k \in 1 .. n + 1 : w[k] = Said(r[k])
      BY <1>1, <1>3
    <2>3. \A k \in 1 .. n : w[k] = v[k]
      <3>1. \A k \in 1 .. n : k \in 1 .. n + 1
        BY <1>1
      <3>2. QED
        BY <1>1, <1>2, <1>5, <2>2, <3>1
    <2>4. w[n + 1] = v[n + 1]
      <3>1. n + 1 \in 1 .. n + 1
        BY <1>1
      <3>2. QED
        BY <1>1, <1>5, <2>2, <3>1 DEF e
    <2>5. QED
      BY <2>1, <2>3, <2>4
  <1>7. w = v
    BY <1>1, <1>3, <1>5, <1>6
  <1>8. FlattenSeq(v) = FlattenSeq(u) \o e
    BY <1>2, <1>4, FlattenAppend DEF A, v
  <1>9. QED
    BY <1>7, <1>8 DEF w, u, e, r

----------------------------------------------------------------------------
(* Every turn says something, and together what was meant                  *)

Speaks(d, q) == d # "openai" => \A k \in 1 .. Len(q) : q[k].blocks # <<>>

LEMMA SpokenStep ==
    ASSUME NEW d \in Dialects, NEW b \in Bodies, NEW m \in Message, NEW i \in Nat \ {0}, NEW c,
           Goes(d, b, m, i, c), Speaks(d, b.turns)
    PROVE  /\ Speaks(d, c.turns)
           /\ FlattenSeq(Saids(c.turns)) = FlattenSeq(Saids(b.turns)) \o Meaning(d, m, i)
  <1> DEFINE q == b.turns
             r == c.turns
             n == Len(q)
             x == <<"result", m.call, i>>
             f == FlattenSeq(Saids(q))
             e == Meaning(d, m, i)
             Goal == Speaks(d, r) /\ FlattenSeq(Saids(r)) = f \o e
  <1>1. q \in Seq(TurnOf) /\ n \in Nat /\ \A k \in 1 .. n : q[k] \in TurnOf
    BY DEF Bodies
  <1>2. f \in Seq(Block)
    <2>1. Saids(q) \in Seq(Seq(Block))
      BY <1>1, SaidsAre
    <2>2. QED
      BY <2>1, ConcatIs, FlattenAppend
  <1>3. ASSUME Stays(c, b), e = <<>>
        PROVE  Goal
    <2>1. r = q
      BY <1>3 DEF Stays
    <2> HIDE DEF f, r, q, e
    <2>2. f \o <<>> = f
      BY <1>2
    <2>3. QED
      BY <1>3, <2>1, <2>2 DEF f, r, q
  <1>4. ASSUME NEW t, Makes(d, m, i, t), Adds(c, b, t)
        PROVE  Goal
    <2>1. t \in TurnOf /\ Said(t) = e /\ (d # "openai" => t.blocks # <<>>)
      BY <1>4 DEF Makes
    <2>2. r = Append(q, t)
      BY <1>4 DEF Adds
    <2> HIDE DEF f, r, q, e
    <2>3. FlattenSeq(Saids(r)) = f \o e
      BY <1>1, <2>1, <2>2, SaidsAppend DEF f
    <2>4. Speaks(d, r)
      <3>1. Len(r) = n + 1 /\ r[n + 1] = t /\ \A k \in 1 .. n : r[k] = q[k]
        BY <1>1, <2>1, <2>2
      <3>2. \A k \in 1 .. n + 1 : k = n + 1 \/ k \in 1 .. n
        BY <1>1
      <3>3. d # "openai" => \A k \in 1 .. n : q[k].blocks # <<>>
        BY DEF Speaks, q
      <3>4. QED
        BY <2>1, <3>1, <3>2, <3>3 DEF Speaks
    <2>5. QED
      BY <2>3, <2>4
  <1>5. ASSUME d = "anthropic", OpenTurn(q), Joins(c, b, x), e = <<x>>
        PROVE  Goal
    <2> HIDE DEF f, e
    <2> DEFINE l == q[n].blocks
               u == Saids(q)
               w == Saids(r)
    <2>1. n \in 1 .. n /\ q[n] \in TurnOf /\ l # <<>>
      BY <1>1, <1>5 DEF OpenTurn, Speaks
    <2>2. l \in Seq(Block) /\ x \in Block
      BY <2>1, CallsAre DEF TurnOf
    <2>3. l[1][1] = "result"
      BY <1>5 DEF OpenTurn
    <2>4. /\ Append(l, x) \in Seq(Block) /\ Append(l, x) # <<>> /\ Append(l, x)[1] = l[1]
          /\ Append(l, x) = l \o <<x>>
      <3> HIDE DEF l, x
      <3>1. QED
        BY <2>1, <2>2
    <2>5. \A p : p[1][1] = "result" => p # <<<<"text", 0>>>>
      OBVIOUS
    <2> DEFINE t == [q[n] EXCEPT !.blocks = Append(l, x)]
    <2>6. t \in TurnOf /\ t.blocks = Append(l, x)
      BY <2>1, <2>4 DEF TurnOf
    <2>7. r = [q EXCEPT ![n] = t]
      BY <1>5 DEF Joins
    <2>8. Said(q[n]) = l /\ Said(t) = Append(l, x)
      BY <2>3, <2>4, <2>5, <2>6 DEF Said
    <2> HIDE DEF r, q, l, t, x
    <2>9. r \in Seq(TurnOf) /\ Len(r) = n /\ r[n] = t /\ \A k \in 1 .. n - 1 : r[k] = q[k]
      BY <1>1, <2>1, <2>6, <2>7
    <2>10. Speaks(d, r)
      <3>1. \A k \in 1 .. n : k = n \/ k \in 1 .. n - 1
        BY <1>1
      <3>2. \A k \in 1 .. n : q[k].blocks # <<>>
        BY <1>5 DEF Speaks, q
      <3>3. \A k \in 1 .. n : r[k].blocks # <<>>
        <4>1. \A k \in 1 .. n - 1 : k \in 1 .. n
          BY <1>1
        <4>2. QED
          BY <2>4, <2>6, <2>9, <3>1, <3>2, <4>1
      <3>4. QED
        BY <2>9, <3>3 DEF Speaks
    <2>11. /\ u \in Seq(Seq(Block)) /\ Len(u) = n /\ \A k \in 1 .. n : u[k] = Said(q[k])
      BY <1>1, SaidsAre
    <2>12. /\ w \in Seq(Seq(Block)) /\ Len(w) = n /\ \A k \in 1 .. n : w[k] = Said(r[k])
      BY <2>9, SaidsAre
    <2> HIDE DEF u, w, n
    <2>13. \A k \in 1 .. n - 1 : k \in 1 .. n
      BY <1>1
    <2>14. \A k \in 1 .. n - 1 : w[k] = u[k]
      BY <2>9, <2>11, <2>12, <2>13
    <2>15. w[n] = u[n] \o <<x>>
      BY <2>1, <2>4, <2>8, <2>9, <2>11, <2>12
    <2>16. <<x>> \in Seq(Block)
      BY <2>2
    <2> DEFINE y == <<x>>
    <2> HIDE DEF y
    <2>17. n > 0 /\ y \in Seq(Block) /\ w[n] = u[n] \o y
      BY <1>1, <2>1, <2>15, <2>16 DEF y
    <2>18. FlattenSeq(w) = FlattenSeq(u) \o y
      <3>1. /\ Len(u) > 0 /\ Len(w) = Len(u) /\ w[Len(u)] = u[Len(u)] \o y
            /\ \A k \in 1 .. Len(u) - 1 : w[k] = u[k]
        BY <2>11, <2>12, <2>14, <2>17
      <3>2. u \in Seq(Seq(Block)) /\ w \in Seq(Seq(Block)) /\ y \in Seq(Block)
        BY <2>11, <2>12, <2>17
      <3>3. QED
        BY <3>1, <3>2, FlattenLast
    <2>19. QED
      BY <1>5, <2>10, <2>18 DEF f, u, w, y
  <1>6. \/ Stays(c, b) /\ e = <<>>
        \/ \E t : Makes(d, m, i, t) /\ Adds(c, b, t)
        \/ d = "anthropic" /\ OpenTurn(q) /\ Joins(c, b, x) /\ e = <<x>>
    BY Zenon DEF Goes
  <1> HIDE DEF Goal
  <1>7. Goal
    BY <1>3, <1>4, <1>5, <1>6
  <1>8. QED
    BY <1>7 DEF Goal

----------------------------------------------------------------------------
(* The results of a round                                                  *)

\* How many of the first elements of q are the assistant's.
Replies(q, i) == {j \in 1 .. i : q[j].role = "assistant"}
Count(q, i)   == Cardinality(Replies(q, i))

Quiet(s, i, k) == \A j \in i + 1 .. k : s[j].role \in {"tool", "system"}
HasResult(turn, k) == \E b \in Range(turn.blocks) : b[1] = "result" /\ b[3] = k
SoFar(q, n) == n = Len(q) \/ (n + 1 = Len(q) /\ OpenTurn(q))

\* Turn n is that of the assistant's message i.
Round(s, q, i, n) ==
    /\ n \in 1 .. Len(q) /\ q[n].role = "assistant" /\ Count(q, n) = Count(s, i)
    /\ Quiet(s, i, Len(s)) => SoFar(q, n)
    /\ \A k \in i + 1 .. Len(s) :
          s[k].role = "tool" /\ Quiet(s, i, k) => n + 1 \in 1 .. Len(q) /\ HasResult(q[n + 1], k)

Rounds(s, q) ==
    /\ Count(q, Len(q)) = Count(s, Len(s))
    /\ \A i \in 1 .. Len(s) : s[i].role = "assistant" => \E n : Round(s, q, i, n)

LEMMA RepliesAre ==
    ASSUME NEW q, NEW i \in Nat
    PROVE  IsFiniteSet(Replies(q, i)) /\ Count(q, i) \in Nat
  <1>1. IsFiniteSet(1 .. i)
    BY FS_Interval
  <1>2. Replies(q, i) \in SUBSET (1 .. i)
    BY DEF Replies
  <1>3. IsFiniteSet(Replies(q, i))
    BY <1>1, <1>2, FS_Subset
  <1>4. QED
    BY <1>3, FS_CardinalityType DEF Count

\* Elements with the same roles count the same.
LEMMA SameCount ==
    ASSUME NEW q, NEW r, NEW i \in Nat, \A j \in 1 .. i : (r[j].role = "assistant") <=> (q[j].role = "assistant")
    PROVE  Count(r, i) = Count(q, i)
  <1>1. Replies(r, i) = Replies(q, i)
    BY DEF Replies
  <1>2. QED
    BY <1>1 DEF Count

LEMMA CountNext ==
    ASSUME NEW q, NEW i \in Nat
    PROVE  Count(q, i + 1) = IF q[i + 1].role = "assistant" THEN Count(q, i) + 1 ELSE Count(q, i)
  <1>1. CASE q[i + 1].role = "assistant"
    <2>1. Replies(q, i + 1) = Replies(q, i) \cup {i + 1}
      BY <1>1 DEF Replies
    <2>2. i + 1 \notin Replies(q, i)
      BY DEF Replies
    <2>3. QED
      BY <1>1, <2>1, <2>2, RepliesAre, FS_AddElement DEF Count
  <1>2. CASE q[i + 1].role # "assistant"
    <2>1. Replies(q, i + 1) = Replies(q, i)
      BY <1>2 DEF Replies
    <2>2. QED
      BY <1>2, <2>1 DEF Count
  <1>3. QED
    BY <1>1, <1>2

\* No two of the assistant's elements have the same number.
LEMMA CountGrows ==
    ASSUME NEW q, NEW i \in Nat, NEW k \in Nat, i < k, q[k].role = "assistant"
    PROVE  Count(q, i) # Count(q, k)
  <1>1. k \in Replies(q, k) /\ k \notin Replies(q, i)
    BY DEF Replies
  <1>2. Replies(q, i) \in SUBSET Replies(q, k)
    BY DEF Replies
  <1>3. IsFiniteSet(Replies(q, k))
    BY RepliesAre
  <1>4. Replies(q, i) # Replies(q, k)
    BY <1>1
  <1>5. QED
    BY <1>2, <1>3, <1>4, FS_Subset DEF Count

----------------------------------------------------------------------------
(* One message more, at the end                                            *)

LEMMA Longer ==
    ASSUME NEW A, NEW q \in Seq(A), NEW x \in A
    PROVE  LET r == Append(q, x)
           IN  /\ Len(q) \in Nat /\ r \in Seq(A) /\ Len(r) = Len(q) + 1 /\ r[Len(q) + 1] = x
               /\ \A k \in 1 .. Len(q) : r[k] = q[k]
  OBVIOUS

\* The facts about a longer list that the proofs below use.
IsLonger(r, q, x) ==
    /\ Len(q) \in Nat /\ Len(r) = Len(q) + 1 /\ r[Len(q) + 1] = x
    /\ \A k \in 1 .. Len(q) : r[k] = q[k]

LEMMA LongerCounts ==
    ASSUME NEW q, NEW r, NEW x, IsLonger(r, q, x)
    PROVE  /\ \A i \in 1 .. Len(q) : Count(r, i) = Count(q, i)
           /\ Count(r, Len(r)) = IF x.role = "assistant" THEN Count(q, Len(q)) + 1
                                 ELSE Count(q, Len(q))
  <1> DEFINE n == Len(q)
  <1>1. n \in Nat /\ Len(r) = n + 1 /\ r[n + 1] = x /\ \A k \in 1 .. n : r[k] = q[k]
    BY DEF IsLonger
  <1> HIDE DEF n
  <1>2. ASSUME NEW i \in 0 .. n
        PROVE  Count(r, i) = Count(q, i)
    <2>1. i \in Nat /\ \A j \in 1 .. i : j \in 1 .. n
      BY <1>1
    <2>2. \A j \in 1 .. i : (r[j].role = "assistant") <=> (q[j].role = "assistant")
      BY <1>1, <2>1
    <2>3. QED
      BY <2>1, <2>2, SameCount
  <1>3. Count(r, n) = Count(q, n)
    BY <1>1, <1>2
  <1>4. Count(r, n + 1) = IF x.role = "assistant" THEN Count(r, n) + 1 ELSE Count(r, n)
    BY <1>1, CountNext
  <1>5. \A i \in 1 .. n : i \in 0 .. n
    BY <1>1
  <1>6. QED
    BY <1>1, <1>2, <1>3, <1>4, <1>5 DEF n

LEMMA QuietSoFar ==
    ASSUME NEW s, NEW r, NEW m, IsLonger(r, s, m), NEW i \in 1 .. Len(s)
    PROVE  /\ \A k \in i + 1 .. Len(s) : Quiet(r, i, k) <=> Quiet(s, i, k)
           /\ Quiet(r, i, Len(r)) => Quiet(s, i, Len(s)) /\ m.role \in {"tool", "system"}
  <1> DEFINE n == Len(s)
  <1>1. n \in Nat /\ Len(r) = n + 1 /\ r[n + 1] = m /\ \A k \in 1 .. n : r[k] = s[k]
    BY DEF IsLonger
  <1> HIDE DEF n
  <1>2. i \in 1 .. n
    BY DEF n
  <1>3. ASSUME NEW k \in i .. n
        PROVE  Quiet(r, i, k) <=> Quiet(s, i, k)
    <2>1. \A j \in i + 1 .. k : j \in 1 .. n
      BY <1>1, <1>2
    <2>2. \A j \in i + 1 .. k : r[j] = s[j]
      BY <1>1, <2>1
    <2>3. QED
      BY <2>2 DEF Quiet
  <1>4. ASSUME Quiet(r, i, n + 1)
        PROVE  Quiet(r, i, n) /\ m.role \in {"tool", "system"}
    <2>1. n + 1 \in i + 1 .. n + 1 /\ \A j \in i + 1 .. n : j \in i + 1 .. n + 1
      BY <1>1, <1>2
    <2>2. QED
      BY <1>1, <1>4, <2>1 DEF Quiet
  <1>5. n \in i .. n /\ \A k \in i + 1 .. n : k \in i .. n
    BY <1>1, <1>2
  <1>6. QED
    BY <1>1, <1>3, <1>4, <1>5 DEF n

LEMMA RoundStays ==
    ASSUME NEW s, NEW r, NEW m, NEW q, NEW i \in 1 .. Len(s), NEW n,
           IsLonger(r, s, m), Round(s, q, i, n), m.role = "system"
    PROVE  Round(r, q, i, n)
  <1> DEFINE l == Len(s)
  <1>1. /\ l \in Nat /\ Len(r) = l + 1 /\ r[l + 1] = m /\ i \in 1 .. l
        /\ \A k \in 1 .. l : r[k] = s[k]
    BY DEF IsLonger
  <1>2. Count(r, i) = Count(s, i)
    BY LongerCounts
  <1>3. /\ \A k \in i + 1 .. l : Quiet(r, i, k) <=> Quiet(s, i, k)
        /\ Quiet(r, i, Len(r)) => Quiet(s, i, l)
    BY QuietSoFar
  <1>4. n \in 1 .. Len(q) /\ q[n].role = "assistant" /\ Count(q, n) = Count(r, i)
    BY <1>2 DEF Round
  <1>5. Quiet(r, i, Len(r)) => SoFar(q, n)
    BY <1>3 DEF Round
  <1>6. ASSUME NEW k \in i + 1 .. Len(r), r[k].role = "tool", Quiet(r, i, k)
        PROVE  n + 1 \in 1 .. Len(q) /\ HasResult(q[n + 1], k)
    <2>1. k # l + 1
      BY <1>1, <1>6
    <2>2. k \in i + 1 .. l /\ k \in 1 .. l
      BY <1>1, <2>1
    <2>3. s[k].role = "tool" /\ Quiet(s, i, k)
      BY <1>1, <1>3, <1>6, <2>2
    <2>4. QED
      BY <2>2, <2>3 DEF Round
  <1>7. QED
    BY <1>4, <1>5, <1>6 DEF Round

LEMMA RoundAdds ==
    ASSUME NEW s, NEW r, NEW m, NEW q, NEW u, NEW t, NEW i \in 1 .. Len(s), NEW n,
           IsLonger(r, s, m), IsLonger(u, q, t), Round(s, q, i, n),
           m.role # "system",
           m.role = "tool" => /\ t.role = "user" /\ ~OpenTurn(q)
                              /\ t.blocks = <<<<"result", m.call, Len(s) + 1>>>>
    PROVE  Round(r, u, i, n)
  <1> DEFINE l == Len(s)
             h == Len(q)
             x == <<"result", m.call, l + 1>>
  <1>1. /\ l \in Nat /\ Len(r) = l + 1 /\ r[l + 1] = m /\ i \in 1 .. l
        /\ \A k \in 1 .. l : r[k] = s[k]
    BY DEF IsLonger
  <1>2. h \in Nat /\ Len(u) = h + 1 /\ u[h + 1] = t /\ \A k \in 1 .. h : u[k] = q[k]
    BY DEF IsLonger
  <1>3. n \in 1 .. h /\ q[n].role = "assistant" /\ Count(q, n) = Count(s, i)
    BY DEF Round
  <1>4. Count(r, i) = Count(s, i) /\ Count(u, n) = Count(q, n)
    BY <1>3, LongerCounts
  <1>5. /\ \A k \in i + 1 .. l : Quiet(r, i, k) <=> Quiet(s, i, k)
        /\ Quiet(r, i, Len(r)) => Quiet(s, i, l) /\ m.role \in {"tool", "system"}
    BY QuietSoFar
  <1>6. n \in 1 .. Len(u) /\ u[n].role = "assistant" /\ Count(u, n) = Count(r, i)
    BY <1>2, <1>3, <1>4
  <1>7. Quiet(r, i, Len(r)) => n = h /\ m.role = "tool"
    BY <1>5 DEF Round, SoFar
  <1> HIDE DEF x
  <1>8. m.role = "tool" => OpenTurn(u) /\ HasResult(t, l + 1)
    <2>1. SUFFICES ASSUME m.role = "tool" PROVE OpenTurn(u) /\ HasResult(t, l + 1)
      OBVIOUS
    <2>2. t.role = "user" /\ t.blocks = <<x>> /\ x[1] = "result" /\ x[3] = l + 1
      BY <2>1 DEF x
    <2>3. t.blocks[1] = x /\ 1 \in DOMAIN t.blocks
      BY <2>2
    <2>4. x \in Range(t.blocks)
      BY <2>3 DEF Range
    <2>5. OpenTurn(u)
      BY <1>2, <2>2, <2>3 DEF OpenTurn
    <2>6. HasResult(t, l + 1)
      BY <2>2, <2>4 DEF HasResult
    <2>7. QED
      BY <2>5, <2>6
  <1> HIDE DEF l, h
  <1>9. Quiet(r, i, Len(r)) => SoFar(u, n)
    BY <1>2, <1>7, <1>8 DEF SoFar
  <1>10. ASSUME NEW k \in i + 1 .. Len(r), r[k].role = "tool", Quiet(r, i, k)
         PROVE  n + 1 \in 1 .. Len(u) /\ HasResult(u[n + 1], k)
    <2>1. CASE k = l + 1
      <3>1. n = h /\ m.role = "tool"
        BY <1>1, <1>7, <1>10, <2>1
      <3>2. u[n + 1] = t /\ HasResult(t, k)
        BY <1>2, <1>8, <2>1, <3>1
      <3>3. QED
        BY <1>2, <3>1, <3>2
    <2>2. CASE k # l + 1
      <3>1. k \in i + 1 .. l /\ k \in 1 .. l
        BY <1>1, <2>2
      <3>2. s[k].role = "tool" /\ Quiet(s, i, k)
        BY <1>1, <1>5, <1>10, <3>1
      <3>3. n + 1 \in 1 .. h /\ HasResult(q[n + 1], k)
        BY <3>1, <3>2 DEF Round, l, h
      <3>4. u[n + 1] = q[n + 1] /\ n + 1 \in 1 .. Len(u)
        BY <1>2, <3>3
      <3>5. QED
        BY <3>3, <3>4
    <2>3. QED
      BY <2>1, <2>2
  <1>11. QED
    BY <1>6, <1>9, <1>10 DEF Round

LEMMA NewRound ==
    ASSUME NEW s, NEW r, NEW m, NEW q, NEW u, NEW t,
           IsLonger(r, s, m), IsLonger(u, q, t), Count(q, Len(q)) = Count(s, Len(s)),
           m.role = "assistant", t.role = "assistant"
    PROVE  Round(r, u, Len(r), Len(u))
  <1>1. Count(u, Len(u)) = Count(r, Len(r))
    BY LongerCounts
  <1>2. Len(q) \in Nat /\ Len(u) = Len(q) + 1 /\ u[Len(q) + 1] = t
    BY DEF IsLonger
  <1>3. Len(s) \in Nat /\ Len(r) = Len(s) + 1
    BY DEF IsLonger
  <1>4. Len(u) \in 1 .. Len(u) /\ u[Len(u)].role = "assistant" /\ SoFar(u, Len(u))
    BY <1>2 DEF SoFar
  <1>5. ~ \E k \in Len(r) + 1 .. Len(r) : TRUE
    BY <1>3
  <1>6. QED
    BY <1>1, <1>4, <1>5 DEF Round

\* The last element with another block.
IsJoinedTo(u, q, x) ==
    LET n == Len(q)
    IN  /\ n \in Nat /\ n > 0 /\ Len(u) = n
        /\ \A k \in 1 .. n - 1 : u[k] = q[k]
        /\ u[n].role = q[n].role
        /\ OpenTurn(q) /\ OpenTurn(u)
        /\ \A y : y \in Range(q[n].blocks) => y \in Range(u[n].blocks)
        /\ x \in Range(u[n].blocks)

LEMMA JoinIs ==
    ASSUME NEW q \in Seq(TurnOf), NEW x \in Block, OpenTurn(q),
           \A k \in 1 .. Len(q) : q[k].blocks # <<>>
    PROVE  IsJoinedTo([q EXCEPT ![Len(q)].blocks = Append(@, x)], q, x)
  <1> DEFINE n == Len(q)
             l == q[n].blocks
             t == [q[n] EXCEPT !.blocks = Append(l, x)]
             u == [q EXCEPT ![n].blocks = Append(@, x)]
             a == Append(l, x)
  <1>1. n \in Nat /\ n > 0 /\ n \in 1 .. n /\ q[n].role = "user" /\ l[1][1] = "result" /\ q[n] \in TurnOf
    BY DEF OpenTurn
  <1>2. l \in Seq(Block) /\ l # <<>>
    BY <1>1 DEF TurnOf
  <1>3. a \in Seq(Block) /\ a[1] = l[1] /\ x \in Range(a) /\ \A y : y \in Range(l) => y \in Range(a)
    <2> HIDE DEF l
    <2>1. a \in Seq(Block) /\ Len(a) = Len(l) + 1 /\ Len(l) \in Nat /\ Len(l) > 0
      BY <1>2
    <2>2. a[Len(a)] = x /\ \A j \in 1 .. Len(l) : a[j] = l[j]
      BY <1>2
    <2>3. DOMAIN l = 1 .. Len(l) /\ DOMAIN a = 1 .. Len(a)
      BY <1>2, <2>1
    <2> HIDE DEF a
    <2>4. \A j \in 1 .. Len(l) : j \in 1 .. Len(a)
      BY <2>1
    <2>5. x \in Range(a)
      BY <2>1, <2>2, <2>3 DEF Range
    <2>6. \A y : y \in Range(l) => y \in Range(a)
      BY <2>2, <2>3, <2>4 DEF Range
    <2>7. QED
      BY <2>1, <2>2, <2>5, <2>6
  <1>4. t \in TurnOf /\ t.blocks = a /\ t.role = q[n].role
    BY <1>1, <1>3 DEF TurnOf
  <1>5. u = [q EXCEPT ![n] = t]
    OBVIOUS
  <1> HIDE DEF u, t, l, a
  <1>6. Len(u) = n /\ u[n] = t /\ \A k \in 1 .. n - 1 : u[k] = q[k]
    BY <1>1, <1>4, <1>5
  <1>7. OpenTurn(u)
    BY <1>1, <1>3, <1>4, <1>6 DEF OpenTurn
  <1>8. IsJoinedTo(u, q, x)
    BY <1>1, <1>3, <1>4, <1>6, <1>7 DEF IsJoinedTo, l
  <1>9. QED
    BY <1>8 DEF u

LEMMA JoinCounts ==
    ASSUME NEW q, NEW u, NEW x, IsJoinedTo(u, q, x), NEW i \in 0 .. Len(q)
    PROVE  Count(u, i) = Count(q, i)
  <1> DEFINE n == Len(q)
  <1>1. n \in Nat /\ n > 0 /\ u[n].role = q[n].role /\ (\A k \in 1 .. n - 1 : u[k] = q[k]) /\ i \in 0 .. n
    BY DEF IsJoinedTo
  <1> HIDE DEF n
  <1>2. \A j \in 1 .. i : j = n \/ j \in 1 .. n - 1
    BY <1>1
  <1>3. \A j \in 1 .. i : (u[j].role = "assistant") <=> (q[j].role = "assistant")
    BY <1>1, <1>2
  <1>4. QED
    BY <1>1, <1>3, SameCount

LEMMA RoundJoins ==
    ASSUME NEW s, NEW r, NEW m, NEW q, NEW u, NEW x, NEW i \in 1 .. Len(s), NEW n,
           IsLonger(r, s, m), IsJoinedTo(u, q, x), Round(s, q, i, n),
           m.role = "tool", x[1] = "result", x[3] = Len(s) + 1
    PROVE  Round(r, u, i, n)
  <1> DEFINE l == Len(s)
             h == Len(q)
  <1>1. /\ l \in Nat /\ Len(r) = l + 1 /\ r[l + 1] = m /\ i \in 1 .. l
        /\ \A k \in 1 .. l : r[k] = s[k]
    BY DEF IsLonger
  <1>2. /\ h \in Nat /\ h > 0 /\ Len(u) = h /\ u[h].role = q[h].role
        /\ \A k \in 1 .. h - 1 : u[k] = q[k]
    BY DEF IsJoinedTo
  <1>3. q[h].role = "user" /\ OpenTurn(u)
    BY DEF IsJoinedTo, OpenTurn
  <1>4. n \in 1 .. h /\ q[n].role = "assistant" /\ Count(q, n) = Count(s, i)
    BY DEF Round
  <1>5. n # h /\ n \in 1 .. h - 1 /\ n \in 0 .. h /\ u[n] = q[n]
    <2>1. n # h
      BY <1>3, <1>4
    <2> HIDE DEF h
    <2>2. n \in 1 .. h - 1 /\ n \in 0 .. h
      BY <1>2, <1>4, <2>1
    <2>3. QED
      BY <1>2, <2>1, <2>2
  <1>6. Count(r, i) = Count(s, i) /\ Count(u, n) = Count(q, n)
    BY <1>5, LongerCounts, JoinCounts
  <1>7. /\ \A k \in i + 1 .. l : Quiet(r, i, k) <=> Quiet(s, i, k)
        /\ Quiet(r, i, Len(r)) => Quiet(s, i, l)
    BY QuietSoFar
  <1>8. Quiet(r, i, Len(r)) => n + 1 = h
    BY <1>5, <1>7 DEF Round, SoFar
  <1>9. HasResult(u[h], l + 1) /\ \A k : HasResult(q[h], k) => HasResult(u[h], k)
    BY DEF IsJoinedTo, HasResult
  <1> HIDE DEF l, h
  <1>10. Quiet(r, i, Len(r)) => SoFar(u, n)
    BY <1>2, <1>3, <1>8 DEF SoFar
  <1>11. ASSUME NEW k \in i + 1 .. Len(r), r[k].role = "tool", Quiet(r, i, k)
         PROVE  n + 1 \in 1 .. Len(u) /\ HasResult(u[n + 1], k)
    <2>1. CASE k = l + 1
      <3>1. n + 1 = h
        BY <1>1, <1>8, <1>11, <2>1
      <3>2. QED
        BY <1>2, <1>9, <2>1, <3>1
    <2>2. CASE k # l + 1
      <3>1. k \in i + 1 .. l /\ k \in 1 .. l
        BY <1>1, <2>2
      <3>2. s[k].role = "tool" /\ Quiet(s, i, k)
        BY <1>1, <1>7, <1>11, <3>1
      <3>3. n + 1 \in 1 .. h /\ HasResult(q[n + 1], k)
        BY <3>1, <3>2 DEF Round, l, h
      <3>4. n + 1 = h \/ n + 1 \in 1 .. h - 1
        BY <1>2, <3>3
      <3>5. HasResult(u[n + 1], k)
        BY <1>2, <1>9, <3>3, <3>4
      <3>6. QED
        BY <1>2, <3>3, <3>5
    <2>3. QED
      BY <2>1, <2>2
  <1>12. u[n].role = "assistant" /\ n \in 1 .. Len(u)
    BY <1>2, <1>4, <1>5
  <1>13. QED
    BY <1>4, <1>6, <1>10, <1>11, <1>12 DEF Round

LEMMA RoundsStep ==
    ASSUME NEW s \in Seq(Message), NEW m \in Message, NEW b \in Bodies, NEW c,
           Rounds(s, b.turns), Speaks("anthropic", b.turns),
           Goes("anthropic", b, m, Len(s) + 1, c)
    PROVE  Rounds(Append(s, m), c.turns)
  <1> DEFINE d == "anthropic"
             q == b.turns
             u == c.turns
             r == Append(s, m)
             l == Len(s)
             i1 == l + 1
             x == <<"result", m.call, l + 1>>
  <1>1. IsLonger(r, s, m)
    BY Longer DEF IsLonger
  <1>2. q \in Seq(TurnOf)
    BY DEF Bodies
  <1>3. /\ Count(q, Len(q)) = Count(s, l)
        /\ \A i \in 1 .. l : s[i].role = "assistant" => \E n : Round(s, q, i, n)
    BY DEF Rounds
  <1>4. m.role \in {"system", "user", "assistant", "tool"}
    BY MessageIs
  <1>5. l \in Nat /\ Len(r) = l + 1 /\ r[l + 1] = m /\ \A k \in 1 .. l : r[k] = s[k]
    BY <1>1 DEF IsLonger
  <1> HIDE DEF r
  <1>6. Count(r, Len(r)) = IF m.role = "assistant" THEN Count(s, l) + 1 ELSE Count(s, l)
    BY <1>1, LongerCounts
  <1>7. \A i \in 1 .. Len(r) : i = l + 1 \/ i \in 1 .. l
    BY <1>5
  <1> HIDE DEF l
  <1>8. ASSUME m.role = "system", Stays(c, b)
        PROVE  Rounds(r, u)
    <2>1. u = q
      BY <1>8 DEF Stays
    <2>2. ASSUME NEW i \in 1 .. Len(r), r[i].role = "assistant"
          PROVE  \E n : Round(r, u, i, n)
      <3>1. i \in 1 .. l /\ s[i].role = "assistant"
        BY <1>5, <1>7, <1>8, <2>2
      <3>2. PICK n : Round(s, q, i, n)
        BY <1>3, <3>1
      <3>3. i \in 1 .. Len(s)
        BY <3>1 DEF l
      <3>4. Round(r, q, i, n)
        BY <1>1, <1>8, <3>2, <3>3, RoundStays
      <3>5. QED
        BY <2>1, <3>4
    <2>3. QED
      BY <1>3, <1>6, <1>8, <2>1, <2>2 DEF Rounds
  <1>9. ASSUME m.role # "system", NEW t, Makes(d, m, l + 1, t), Adds(c, b, t),
               m.role = "tool" => ~OpenTurn(q)
        PROVE  Rounds(r, u)
    <2>1. /\ t \in TurnOf /\ (m.role # "tool" => t.role = m.role)
          /\ m.role = "tool" => t.role = "user" /\ t.blocks = <<x>>
      BY <1>9 DEF Makes
    <2>2. u = Append(q, t)
      BY <1>9 DEF Adds
    <2> HIDE DEF u, q
    <2>3. IsLonger(u, q, t)
      BY <1>2, <2>1, <2>2, Longer DEF IsLonger
    <2>4. Count(u, Len(u)) = IF t.role = "assistant" THEN Count(q, Len(q)) + 1 ELSE Count(q, Len(q))
      BY <2>3, LongerCounts
    <2>5. (t.role = "assistant") <=> (m.role = "assistant")
      BY <2>1
    <2>6. Count(u, Len(u)) = Count(r, Len(r))
      BY <1>3, <1>6, <2>4, <2>5
    <2>7. ASSUME NEW i \in 1 .. Len(r), r[i].role = "assistant"
          PROVE  \E n : Round(r, u, i, n)
      <3>1. CASE i = l + 1
        <4>1. m.role = "assistant" /\ t.role = "assistant"
          BY <1>5, <2>5, <2>7, <3>1
        <4>2. Round(r, u, Len(r), Len(u))
          BY <1>1, <1>3, <2>3, <4>1, NewRound DEF l
        <4>3. QED
          BY <1>5, <3>1, <4>2
      <3>2. CASE i \in 1 .. l
        <4>1. s[i].role = "assistant"
          BY <1>5, <2>7, <3>2
        <4>2. PICK n : Round(s, q, i, n)
          BY <1>3, <3>2, <4>1
        <4>3. i \in 1 .. Len(s)
          BY <3>2 DEF l
        <4>4. m.role = "tool" => /\ t.role = "user" /\ ~OpenTurn(q)
                                 /\ t.blocks = <<<<"result", m.call, Len(s) + 1>>>>
          BY <1>9, <2>1 DEF l
        <4>5. Round(r, u, i, n)
          BY <1>1, <1>9, <2>3, <4>2, <4>3, <4>4, RoundAdds
        <4>6. QED
          BY <4>5
      <3>3. QED
        BY <1>7, <3>1, <3>2
    <2>8. QED
      BY <2>6, <2>7 DEF Rounds
  <1>10. ASSUME m.role = "tool", OpenTurn(q), Joins(c, b, x)
         PROVE  Rounds(r, u)
    <2>1. u = [q EXCEPT ![Len(q)].blocks = Append(@, x)]
      BY <1>10 DEF Joins
    <2>2. \A k \in 1 .. Len(q) : q[k].blocks # <<>>
      BY DEF Speaks
    <2>3. x \in Block
      <3>1. l + 1 \in Nat
        BY <1>5
      <3>2. \A i \in Nat : <<"result", m.call, i>> \in Block
        BY CallsAre
      <3>3. QED
        BY <3>1, <3>2
    <2>4. x[1] = "result" /\ x[3] = Len(s) + 1
      BY DEF l
    <2> HIDE DEF u, q, x
    <2>5. IsJoinedTo(u, q, x)
      BY <1>2, <1>10, <2>1, <2>2, <2>3, JoinIs
    <2>6. Len(u) = Len(q) /\ Len(q) \in Nat
      BY <2>5 DEF IsJoinedTo
    <2>7. Count(u, Len(u)) = Count(r, Len(r))
      <3>1. Len(q) \in 0 .. Len(q)
        BY <2>6
      <3>2. Count(u, Len(q)) = Count(q, Len(q))
        BY <2>5, <3>1, JoinCounts
      <3>3. QED
        BY <1>3, <1>6, <1>10, <2>6, <3>2
    <2>8. ASSUME NEW i \in 1 .. Len(r), r[i].role = "assistant"
          PROVE  \E n : Round(r, u, i, n)
      <3>1. i \in 1 .. l /\ s[i].role = "assistant"
        BY <1>5, <1>7, <1>10, <2>8
      <3>2. PICK n : Round(s, q, i, n)
        BY <1>3, <3>1
      <3>3. i \in 1 .. Len(s)
        BY <3>1 DEF l
      <3>4. Round(r, u, i, n)
        BY <1>1, <1>10, <2>4, <2>5, <3>2, <3>3, RoundJoins
      <3>5. QED
        BY <3>4
    <2>9. QED
      BY <2>7, <2>8 DEF Rounds
  <1>11. \/ Stays(c, b) /\ m.role = "system"
         \/ /\ m.role # "system" /\ (m.role = "tool" => ~OpenTurn(q))
            /\ \E t : Makes(d, m, l + 1, t) /\ Adds(c, b, t)
         \/ m.role = "tool" /\ OpenTurn(q) /\ Joins(c, b, x)
    BY DEF Goes, l
  <1> HIDE DEF x, u, q, d
  <1>12. Rounds(r, u)
    BY <1>8, <1>9, <1>10, <1>11
  <1>13. QED
    BY <1>12 DEF r, u

----------------------------------------------------------------------------
(* TurnsSurvive                                                            *)

\* What holds of a conversation s in dialect d.
Survives(d, s) ==
    LET b == normalize_request(d, s)
    IN  /\ b \in Bodies
        /\ FlattenSeq(Saids(b.turns)) = FlattenSeq(Meanings(d, s))
        /\ Speaks(d, b.turns)

TurnsInv ==
    /\ conversation \in Seq(Message)
    /\ \A d \in Dialects : Survives(d, conversation)
    /\ Rounds(conversation, normalize_request("anthropic", conversation).turns)

LEMMA SurvivesStep ==
    ASSUME NEW s \in Seq(Message), NEW m \in Message, NEW d \in Dialects, Survives(d, s)
    PROVE  Survives(d, Append(s, m))
  <1> DEFINE b == normalize_request(d, s)
             r == Append(s, m)
             c == normalize_request(d, r)
             i == Len(s) + 1
             e == Meaning(d, m, i)
  <1>1. i \in Nat \ {0}
    OBVIOUS
  <1>2. b \in Bodies /\ c = Encoded(d, b, m, i)
    BY BodyAppend
  <1>3. FlattenSeq(Saids(b.turns)) = FlattenSeq(Meanings(d, s)) /\ Speaks(d, b.turns)
    BY DEF Survives
  <1>4. FlattenSeq(Meanings(d, r)) = FlattenSeq(Meanings(d, s)) \o e
    BY MeaningsAppend
  <1> HIDE DEF b, c, i, r, e
  <1>5. Goes(d, b, m, i, c)
    BY <1>1, <1>2, EncodedGoes
  <1>6. /\ Speaks(d, c.turns)
        /\ FlattenSeq(Saids(c.turns)) = FlattenSeq(Saids(b.turns)) \o e
    <2>1. Speaks(d, b.turns) /\ b \in Bodies /\ i \in Nat \ {0}
      BY <1>1, <1>2, <1>3
    <2>2. /\ Speaks(d, c.turns)
          /\ FlattenSeq(Saids(c.turns)) = FlattenSeq(Saids(b.turns)) \o Meaning(d, m, i)
      BY <1>5, <2>1, SpokenStep
    <2>3. QED
      BY <2>2 DEF e
  <1>7. c \in Bodies
    BY <1>5 DEF Goes
  <1>8. FlattenSeq(Saids(c.turns)) = FlattenSeq(Meanings(d, r))
    BY <1>3, <1>4, <1>6
  <1>9. QED
    BY <1>6, <1>7, <1>8 DEF Survives, c, r

LEMMA TurnsBegin ==
    ASSUME TransportInit
    PROVE  TurnsInv
  <1> DEFINE s == conversation
  <1>1. s = <<>> /\ s \in Seq(Message) /\ Len(s) = 0
    BY DEF TransportInit
  <1>2. ASSUME NEW d \in Dialects
        PROVE  normalize_request(d, s) = EmptyBody /\ Survives(d, s)
    <2>1. normalize_request(d, s) = EmptyBody
      BY <1>1, BodyOfNone
    <2>2. EmptyBody \in Bodies /\ EmptyBody.turns = <<>>
      BY EmptyBodyIs
    <2>3. Saids(<<>>) = <<>> /\ Meanings(d, <<>>) = <<>>
      BY DEF Saids, Meanings
    <2>4. Speaks(d, <<>>)
      BY DEF Speaks
    <2>5. QED
      BY <1>1, <2>1, <2>2, <2>3, <2>4 DEF Survives
  <1>3. "anthropic" \in Dialects
    BY DEF Dialects
  <1>4. Rounds(<<>>, <<>>)
    <2>1. Len(<<>>) = 0 /\ ~ \E i \in 1 .. 0 : TRUE
      OBVIOUS
    <2>2. QED
      BY <2>1 DEF Rounds, Count, Replies
  <1>5. QED
    BY <1>1, <1>2, <1>3, <1>4, EmptyBodyIs DEF TurnsInv

LEMMA TurnsStep ==
    ASSUME TurnsInv, TransportNext
    PROVE  TurnsInv'
  <1> DEFINE s == conversation
             b == normalize_request("anthropic", s)
  <1>1. PICK m \in Message : conversation' = Append(s, m)
    <2>1. ASSUME NEW role \in {"system", "user", "assistant", "tool"}, NEW text \in BOOLEAN,
                 NEW asked \in Seq(ToolCalls), NEW id \in ToolCalls \cup {NoCall},
                 NEW named \in BOOLEAN, role # "assistant" => asked = <<>>,
                 Say(role, text, asked, id, named)
          PROVE  \E m \in Message : conversation' = Append(s, m)
      <3> DEFINE m == [role |-> role, text |-> text, calls |-> asked, call |-> id, named |-> named]
      <3>1. m \in Message
        BY <2>1 DEF Message
      <3>2. conversation' = Append(s, m)
        BY <2>1 DEF Say
      <3> HIDE DEF m
      <3>3. QED
        BY <3>1, <3>2
    <2>2. <<>> \in Seq(ToolCalls) /\ CallLists \subseteq Seq(ToolCalls)
      BY TransportAssumption
    <2>3. CASE \E text \in BOOLEAN : SystemSays(text) \/ UserSays(text)
      BY <2>1, <2>2, <2>3 DEF SystemSays, UserSays
    <2>4. CASE \E text \in BOOLEAN, q \in CallLists : AssistantSays(text, q)
      BY <2>1, <2>2, <2>4 DEF AssistantSays
    <2>5. CASE \E c \in ToolCalls, named \in BOOLEAN : ToolSays(c, named)
      BY <2>1, <2>2, <2>5 DEF ToolSays
    <2>6. QED
      BY <2>3, <2>4, <2>5 DEF TransportNext
  <1> DEFINE r == Append(s, m)
             c == normalize_request("anthropic", r)
  <1>2. s \in Seq(Message) /\ r \in Seq(Message) /\ Len(s) + 1 \in Nat \ {0}
    BY DEF TurnsInv
  <1>3. \A d \in Dialects : Survives(d, r)
    BY <1>2, SurvivesStep DEF TurnsInv
  <1>4. "anthropic" \in Dialects
    BY DEF Dialects
  <1>5. b \in Bodies /\ c = Encoded("anthropic", b, m, Len(s) + 1)
    BY <1>2, <1>4, BodyAppend
  <1>6. Goes("anthropic", b, m, Len(s) + 1, c)
    <2> HIDE DEF b, c
    <2>1. QED
      BY <1>2, <1>4, <1>5, EncodedGoes
  <1>7. Rounds(s, b.turns) /\ Speaks("anthropic", b.turns)
    BY <1>4 DEF TurnsInv, Survives
  <1>8. Rounds(r, c.turns)
    <2> HIDE DEF b, c
    <2>1. QED
      BY <1>2, <1>5, <1>6, <1>7, RoundsStep
  <1>9. QED
    BY <1>1, <1>2, <1>3, <1>8 DEF TurnsInv

LEMMA TurnsImply ==
    ASSUME TurnsInv
    PROVE  TurnsSurvive
  <1> DEFINE s == conversation
             q == Turns("anthropic")
  <1>1. s \in Seq(Message) /\ Rounds(s, q)
    BY DEF TurnsInv, Turns
  <1>2. ASSUME NEW d \in Dialects
        PROVE  /\ Spoken(d) = Meant(d)
               /\ Turns(d) \in Seq(TurnOf)
               /\ d # "openai" => \A k \in DOMAIN Turns(d) : Turns(d)[k].blocks # <<>>
    <2>1. Survives(d, s)
      BY DEF TurnsInv
    <2>2. Turns(d) \in Seq(TurnOf)
      BY <2>1 DEF Survives, Turns, Bodies
    <2>3. Spoken(d) = FlattenSeq(Saids(Turns(d))) /\ Meant(d) = FlattenSeq(Meanings(d, s))
      BY DEF Spoken, Saids, Meant, Meanings
    <2>4. Spoken(d) = Meant(d)
      BY <2>1, <2>3 DEF Survives, Turns
    <2>5. Speaks(d, Turns(d))
      BY <2>1 DEF Survives, Turns
    <2>6. DOMAIN Turns(d) = 1 .. Len(Turns(d))
      BY <2>2
    <2>7. QED
      BY <2>2, <2>4, <2>5, <2>6 DEF Speaks
  <1>3. \A d \in {"openai", "anthropic", "gemini"} : d \in Dialects
    BY DEF Dialects
  <1>4. q \in Seq(TurnOf)
    BY <1>2, <1>3
  <1>5. DOMAIN q = 1 .. Len(q) /\ DOMAIN s = 1 .. Len(s) /\ Len(s) \in Nat /\ Len(q) \in Nat
    BY <1>1, <1>4
  <1>6. ASSUME NEW i \in DOMAIN s, NEW k \in DOMAIN s, SameRound(i, k), s[k].role = "tool"
        PROVE  LET at == Cardinality({j \in 1 .. i : s[j].role = "assistant"})
                   t  == CHOOSE n \in DOMAIN q :
                            /\ q[n].role = "assistant"
                            /\ Cardinality({j \in 1 .. n : q[j].role = "assistant"}) = at
               IN  \E b \in Range(q[t + 1].blocks) : b[1] = "result" /\ b[3] = k
    <2> DEFINE P(n) == n \in DOMAIN q /\ q[n].role = "assistant" /\ Count(q, n) = Count(s, i)
    <2> HIDE DEF q
    <2>1. i < k /\ s[i].role = "assistant" /\ Quiet(s, i, k)
      BY <1>6 DEF SameRound, Quiet
    <2>2. k \in i + 1 .. Len(s) /\ i \in 1 .. Len(s)
      BY <1>5, <2>1
    <2>3. PICK n : Round(s, q, i, n)
      BY <1>1, <2>1, <2>2 DEF Rounds
    <2>4. P(n) /\ HasResult(q[n + 1], k)
      BY <1>5, <1>6, <2>1, <2>2, <2>3 DEF Round
    <2>5. ASSUME NEW t, P(t)
          PROVE  t = n
      <3>1. t \in Nat /\ n \in Nat
        BY <1>5, <2>4, <2>5
      <3>2. ~(t < n) /\ ~(n < t)
        BY <2>4, <2>5, <3>1, CountGrows
      <3>3. QED
        BY <3>1, <3>2
    <2> DEFINE t == CHOOSE h \in DOMAIN q : q[h].role = "assistant" /\ Count(q, h) = Count(s, i)
    <2>6. t = n
      <3>1. P(t)
        BY <2>4
      <3>2. QED
        BY <2>5, <3>1
    <2>7. \E b \in Range(q[t + 1].blocks) : b[1] = "result" /\ b[3] = k
      BY <2>4, <2>6 DEF HasResult
    <2>8. QED
      BY <2>7 DEF Count, Replies
  <1>7. \A d \in {"openai", "anthropic", "gemini"} : Spoken(d) = Meant(d)
    BY <1>2, <1>3
  <1>8. \A d \in {"anthropic", "gemini"} :
           \A k \in DOMAIN Turns(d) : Turns(d)[k].blocks # <<>>
    BY <1>2, <1>3
  <1>9. \A i, k \in DOMAIN s :
           SameRound(i, k) /\ s[k].role = "tool" =>
              LET at == Cardinality({j \in 1 .. i : s[j].role = "assistant"})
                  t  == CHOOSE n \in DOMAIN q :
                           /\ q[n].role = "assistant"
                           /\ Cardinality({j \in 1 .. n : q[j].role = "assistant"}) = at
              IN  \E b \in Range(q[t + 1].blocks) : b[1] = "result" /\ b[3] = k
    <2> HIDE DEF s, q
    <2>1. QED
      BY <1>6, Zenon
  <1>10. QED
    BY <1>7, <1>8, <1>9, Zenon DEF TurnsSurvive

\* What the three dialects send says what the conversation says, in order;
\* Anthropic and Gemini get no empty turn; and the results of a round are in
\* the user turn right behind the assistant's (normalize_request of OpenAi,
\* Anthropic and Gemini), for conversations of any length.
THEOREM TurnsTheorem == CoreSpec => []TurnsSurvive
  <1>1. CoreInit => TurnsInv
    BY TurnsBegin DEF CoreInit
  <1>2. TurnsInv /\ [CoreNext]_coreVars => TurnsInv'
    <2>1. TurnsInv /\ UNCHANGED conversation => TurnsInv'
      BY DEF TurnsInv
    <2>2. QED
      BY <2>1, TurnsStep DEF CoreNext, coreVars
  <1>3. TurnsInv => TurnsSurvive
    BY TurnsImply
  <1>4. QED
    BY <1>1, <1>2, <1>3, PTL DEF CoreSpec

----------------------------------------------------------------------------
(* Sections and their order                                                *)

KnownProviders == {"memory", "events"} \cup DOMAIN Contributors
Sources   == {"system", "user"} \cup KnownProviders
SectionOf == (0 .. 5) \X (0 .. 255) \X Nat \X Sources
Budget    == {"fixed", "ratio", "dynamic"} \X Nat
PairOf    == SectionOf \X Budget

LEMMA PairIs ==
    ASSUME NEW p \in PairOf
    PROVE  /\ layer(p[1]) = p[1][1]
           /\ p[1][1] \in Nat /\ p[1][1] <= 5 /\ p[1][2] \in Nat /\ p[1][2] <= 255
           /\ tokens(p[1]) \in Nat /\ p[2][1] \in {"fixed", "ratio", "dynamic"} /\ p[2][2] \in Nat
  <1>1. p[1] \in SectionOf /\ p[2] \in Budget
    BY DEF PairOf
  <1>2. p[1][1] \in 0 .. 5 /\ p[1][2] \in 0 .. 255 /\ p[1][3] \in Nat
    BY <1>1 DEF SectionOf
  <1>3. /\ \A x \in 0 .. 5 : x \in Nat /\ x <= 5
        /\ \A x \in 0 .. 255 : x \in Nat /\ x <= 255
    OBVIOUS
  <1>4. p[1][1] \in Nat /\ p[1][1] <= 5 /\ p[1][2] \in Nat /\ p[1][2] <= 255
    BY <1>2, <1>3, Zenon
  <1>5. p[2][1] \in {"fixed", "ratio", "dynamic"} /\ p[2][2] \in Nat
    BY <1>1 DEF Budget
  <1>6. QED
    BY <1>2, <1>4, <1>5 DEF layer, tokens

LEMMA PairMade ==
    ASSUME NEW l \in 0 .. 5, NEW x \in 0 .. 255, NEW n \in Nat, NEW s \in Sources, NEW b \in Budget
    PROVE  <<<<l, x, n, s>>, b>> \in PairOf
  BY DEF PairOf, SectionOf

\* The system section, the first there is.
LEMMA SystemPairIs ==
    /\ SystemPair \in PairOf /\ SystemPair[1][1] = 0 /\ SystemPair[1][2] = 0
    /\ source(SystemPair[1]) = "system"
    /\ SystemPair[2][1] = "fixed" /\ SystemPair[2][2] = tokens(SystemPair[1])
  <1> DEFINE n == Len(SystemParts)
  <1>1. n \in Nat
    <2> DEFINE S == {"kernel", "runtime", "agent", "contract"}
               kernel == <<"kernel", "runtime">>
               first == IF agent = "ok" THEN <<"agent">> ELSE <<>>
               second == IF contract = "ok" THEN <<"contract">> ELSE <<>>
    <2>1. kernel \in Seq(S) /\ first \in Seq(S) /\ second \in Seq(S)
      <3>1. "kernel" \in S /\ "runtime" \in S /\ "agent" \in S /\ "contract" \in S
        OBVIOUS
      <3> HIDE DEF S
      <3>2. kernel \in Seq(S)
        BY <3>1
      <3>3. <<>> \in Seq(S) /\ <<"agent">> \in Seq(S) /\ <<"contract">> \in Seq(S)
        BY <3>1
      <3>4. QED
        BY <3>2, <3>3
    <2>2. SystemParts = IF "bad" \in {agent, contract} THEN kernel ELSE kernel \o first \o second
      BY DEF SystemParts
    <2> HIDE DEF S, kernel, first, second
    <2>3. SystemParts \in Seq(S)
      BY <2>1, <2>2
    <2>4. QED
      BY <2>3
  <1> HIDE DEF n
  <1>2. SystemPair = <<<<0, 0, n, "system">>, <<"fixed", n>>>>
    BY DEF SystemPair, Layers, n
  <1>3. <<"fixed", n>> \in Budget
    BY <1>1 DEF Budget
  <1>4. "system" \in Sources
    BY DEF Sources
  <1>5. SystemPair \in PairOf
    <2>1. 0 \in 0 .. 5 /\ 0 \in 0 .. 255
      OBVIOUS
    <2>2. QED
      BY <1>1, <1>2, <1>3, <1>4, <2>1, PairMade
  <1>6. QED
    BY <1>2, <1>5 DEF source, tokens

LEMMA InputPairIs ==
    ASSUME NEW n \in Nat
    PROVE  /\ InputPair(n) \in PairOf /\ InputPair(n)[1][1] = 5 /\ InputPair(n)[1][2] = 255
           /\ source(InputPair(n)[1]) = "user"
  <1>1. InputPair(n) = <<<<5, 255, n, "user">>, <<"fixed", n>>>>
    BY DEF InputPair, Layers
  <1>2. <<"fixed", n>> \in Budget
    BY DEF Budget
  <1>3. InputPair(n) \in PairOf
    <2>1. "user" \in Sources
      BY DEF Sources
    <2>2. 5 \in 0 .. 5 /\ 255 \in 0 .. 255
      OBVIOUS
    <2> DEFINE b == <<"fixed", n>>
    <2>3. b \in Budget
      BY <1>2
    <2> HIDE DEF b
    <2>4. <<<<5, 255, n, "user">>, b>> \in PairOf
      BY <2>1, <2>2, <2>3, PairMade
    <2>5. QED
      BY <1>1, <2>4 DEF b
  <1>4. QED
    BY <1>1, <1>3 DEF source

\* What the providers contribute.
LEMMA ProducedIs ==
    ASSUME NEW p \in KnownProviders, NEW E, NEW events \in Seq(E), NEW stored, NEW n \in Nat
    PROVE  Produced(p, events, stored, n) \in Seq(PairOf)
  <1> DEFINE size == Cardinality(Inline(events)) + Cardinality(References(events, stored))
             q == Produced(p, events, stored, n)
  <1>1. p \in Sources /\ <<>> \in Seq(PairOf)
    BY DEF Sources
  <1>2. CASE p = "memory"
    <2>1. q = IF n = 0 THEN <<>> ELSE <<<<<<3, 5, n, p>>, <<"ratio", 1>>>>>>
      BY <1>2 DEF Produced, Layers
    <2>2. <<"ratio", 1>> \in Budget /\ 3 \in 0 .. 5 /\ 5 \in 0 .. 255
      BY DEF Budget
    <2>3. <<<<3, 5, n, p>>, <<"ratio", 1>>>> \in PairOf
      BY <1>1, <2>2, PairMade
    <2>4. QED
      BY <1>1, <2>1, <2>3
  <1>3. CASE p = "events"
    <2>1. q = IF size = 0 THEN <<>> ELSE <<<<<<4, 5, size, p>>, <<"dynamic", 0>>>>>>
      BY <1>3 DEF Produced, Layers
    <2>2. <<"dynamic", 0>> \in Budget /\ 4 \in 0 .. 5 /\ 5 \in 0 .. 255
      BY DEF Budget
    <2>3. size \in Nat
      <3>1. IsFiniteSet(DOMAIN events)
        <4>1. DOMAIN events = 1 .. Len(events) /\ Len(events) \in Nat
          OBVIOUS
        <4>2. QED
          BY <4>1, FS_Interval
      <3>2. Inline(events) \in SUBSET DOMAIN events /\ References(events, stored) \in SUBSET DOMAIN events
        BY DEF Inline, References
      <3>3. IsFiniteSet(Inline(events)) /\ IsFiniteSet(References(events, stored))
        BY <3>1, <3>2, FS_Subset
      <3>4. QED
        BY <3>3, FS_CardinalityType
    <2> HIDE DEF size
    <2>4. <<<<4, 5, size, p>>, <<"dynamic", 0>>>> \in PairOf
      BY <1>1, <2>2, <2>3, PairMade
    <2>5. QED
      BY <1>1, <2>1, <2>4
  <1>4. CASE p \notin {"memory", "events"}
    <2> DEFINE c == Contributors[p]
    <2>1. q = IF n = 0 THEN <<>> ELSE <<<<<<c[1], c[2], n, p>>, c[3]>>>>
      BY <1>4 DEF Produced
    <2>2. p \in DOMAIN Contributors
      BY <1>4 DEF KnownProviders
    <2>3. c \in (0 .. 5) \X (0 .. 255) \X Budget
      BY <2>2, PromptAssumption DEF Budget
    <2> HIDE DEF c
    <2>4. c[1] \in 0 .. 5 /\ c[2] \in 0 .. 255 /\ c[3] \in Budget
      BY <2>3
    <2>5. <<<<c[1], c[2], n, p>>, c[3]>> \in PairOf
      BY <1>1, <2>4, PairMade
    <2>6. QED
      BY <1>1, <2>1, <2>5
  <1>5. QED
    BY <1>2, <1>3, <1>4

LEMMA CollectIs ==
    ASSUME providers \in Seq(KnownProviders), NEW E, NEW events \in Seq(E), NEW stored, NEW sizes,
           \A i \in DOMAIN providers : sizes[i] \in Nat
    PROVE  LET c == collect(events, stored, sizes)
           IN  c \in Seq(PairOf) /\ Len(c) > 0 /\ c[1] = SystemPair
  <1> DEFINE q == [i \in DOMAIN providers |-> Produced(providers[i], events, stored, sizes[i])]
             f == FlattenSeq(q)
             A == Seq(PairOf)
             n == Len(providers)
  <1>1. n \in Nat /\ DOMAIN providers = 1 .. n /\ \A i \in 1 .. n : providers[i] \in KnownProviders
    OBVIOUS
  <1>2. \A i \in 1 .. n : Produced(providers[i], events, stored, sizes[i]) \in A
    BY <1>1, ProducedIs
  <1> HIDE DEF n, A
  <1>3. q \in [1 .. n -> A]
    BY <1>1, <1>2
  <1> HIDE DEF q
  <1>4. q \in Seq(A)
    BY <1>1, <1>3
  <1>5. f \in Seq(PairOf)
    <2>1. <<>> \in Seq(PairOf)
      OBVIOUS
    <2>2. QED
      BY <1>4, <2>1, FlattenAppend DEF A
  <1> HIDE DEF f
  <1>6. SystemPair \in PairOf
    BY SystemPairIs
  <1>7. collect(events, stored, sizes) = <<SystemPair>> \o f
    BY DEF collect, f, q
  <1>8. QED
    BY <1>5, <1>6, <1>7

\* The lexicographic order of <<a, b, i>> and <<c, d, j>>
Ahead(a, b, i, c, d, j) ==
    \/ a < c
    \/ a = c /\ b < d
    \/ a = c /\ b = d /\ i < j

LEMMA AheadOrders ==
    ASSUME NEW a \in Nat, NEW b \in Nat, NEW i \in Nat, NEW c \in Nat, NEW d \in Nat, NEW j \in Nat
    PROVE  /\ ~Ahead(a, b, i, a, b, i)
           /\ i = j \/ Ahead(a, b, i, c, d, j) \/ Ahead(c, d, j, a, b, i)
  BY DEF Ahead

LEMMA AheadTransitive ==
    ASSUME NEW a \in Nat, NEW b \in Nat, NEW i \in Nat, NEW c \in Nat, NEW d \in Nat, NEW j \in Nat,
           NEW e \in Nat, NEW g \in Nat, NEW k \in Nat,
           Ahead(a, b, i, c, d, j), Ahead(c, d, j, e, g, k)
    PROVE  Ahead(a, b, i, e, g, k)
  BY DEF Ahead

\* The order of 1 .. n by a, then by b.
Lexical(n, a, b) ==
    {x \in (1 .. n) \X (1 .. n) :
        Ahead(a[x[1]], b[x[1]], x[1], a[x[2]], b[x[2]], x[2])}

LEMMA LexicalIs ==
    ASSUME NEW n \in Nat, NEW a, NEW b, NEW i \in 1 .. n, NEW j \in 1 .. n
    PROVE  <<i, j>> \in Lexical(n, a, b) <=> Ahead(a[i], b[i], i, a[j], b[j], j)
  BY DEF Lexical

LEMMA LexicalOrders ==
    ASSUME NEW n \in Nat, NEW a \in [1 .. n -> Nat], NEW b \in [1 .. n -> Nat]
    PROVE  Orders(Lexical(n, a, b), n)
  <1> DEFINE D == 1 .. n
             L == Lexical(n, a, b)
  <1>1. \A i \in D : i \in Nat /\ a[i] \in Nat /\ b[i] \in Nat
    OBVIOUS
  <1>2. \A i, j \in D : <<i, j>> \in L <=> Ahead(a[i], b[i], i, a[j], b[j], j)
    BY LexicalIs
  <1> HIDE DEF L, D
  <1>3. ASSUME NEW i \in D
        PROVE  <<i, i>> \notin L
    <2>1. ~Ahead(a[i], b[i], i, a[i], b[i], i)
      BY <1>1, AheadOrders
    <2>2. QED
      BY <1>2, <2>1
  <1>4. ASSUME NEW i \in D, NEW j \in D
        PROVE  i = j \/ <<i, j>> \in L \/ <<j, i>> \in L
    <2>1. i = j \/ Ahead(a[i], b[i], i, a[j], b[j], j) \/ Ahead(a[j], b[j], j, a[i], b[i], i)
      BY <1>1, AheadOrders
    <2>2. QED
      BY <1>2, <2>1
  <1>5. ASSUME NEW i \in D, NEW j \in D, NEW k \in D, <<i, j>> \in L, <<j, k>> \in L
        PROVE  <<i, k>> \in L
    <2>1. Ahead(a[i], b[i], i, a[j], b[j], j) /\ Ahead(a[j], b[j], j, a[k], b[k], k)
      BY <1>2, <1>5
    <2>2. Ahead(a[i], b[i], i, a[k], b[k], k)
      <3>1. /\ a[i] \in Nat /\ b[i] \in Nat /\ i \in Nat
            /\ a[j] \in Nat /\ b[j] \in Nat /\ j \in Nat
            /\ a[k] \in Nat /\ b[k] \in Nat /\ k \in Nat
        BY <1>1
      <3>2. QED
        BY <2>1, <3>1, AheadTransitive
    <2>3. QED
      BY <1>2, <2>2
  <1>6. QED
    BY <1>3, <1>4, <1>5 DEF Orders, L, D

\* The first of n pairs is of the system, the last is the input.
Framed(q, n) ==
    /\ q[1][1][1] = 0 /\ q[1][1][2] = 0
    /\ q[n][1][1] = 5 /\ q[n][1][2] = 255

\* Sorted keeps what the prompt begins and ends with.
LEMMA SortedPairs ==
    ASSUME NEW raw \in Seq(PairOf), NEW n \in Nat, n = Len(raw), n > 0, Framed(raw, n)
    PROVE  /\ Sorted(raw) \in Seq(PairOf) /\ Len(Sorted(raw)) = n
           /\ Sorted(raw)[1] = raw[1] /\ Sorted(raw)[n] = raw[n]
  <1> DEFINE D == 1 .. n
             a == [i \in D |-> raw[i][1][1]]
             b == [i \in D |-> raw[i][1][2]]
             L == Lexical(n, a, b)
             s(i) == raw[i][1]
             Less(i, j) == \/ s(i)[1] < s(j)[1]
                           \/ s(i)[1] = s(j)[1] /\ s(i)[2] < s(j)[2]
                           \/ s(i)[1] = s(j)[1] /\ s(i)[2] = s(j)[2] /\ i < j
             order == CHOOSE f \in [DOMAIN raw -> DOMAIN raw] :
                         \A i, j \in DOMAIN raw : i < j => Less(f[i], f[j])
  <1>1. DOMAIN raw = D /\ \A i \in D : raw[i] \in PairOf /\ i \in Nat
    OBVIOUS
  <1>2. \A i \in D : /\ a[i] \in Nat /\ a[i] <= 5 /\ b[i] \in Nat /\ b[i] <= 255
                     /\ i \in Nat /\ 1 <= i /\ i <= n
    <2>1. ASSUME NEW i \in D
          PROVE  /\ raw[i][1][1] \in Nat /\ raw[i][1][1] <= 5
                 /\ raw[i][1][2] \in Nat /\ raw[i][1][2] <= 255
      BY <1>1, PairIs
    <2>2. \A i \in D : i \in Nat /\ 1 <= i /\ i <= n
      OBVIOUS
    <2> HIDE DEF D
    <2>3. QED
      BY <2>1, <2>2
  <1>3. a \in [D -> Nat] /\ b \in [D -> Nat]
    <2>1. \A i \in D : raw[i][1][1] \in Nat /\ raw[i][1][2] \in Nat
      BY <1>2
    <2> HIDE DEF D
    <2>2. QED
      BY <2>1
  <1>4. \A i, j \in D : <<i, j>> \in L <=> Ahead(a[i], b[i], i, a[j], b[j], j)
    BY LexicalIs
  <1>5. ASSUME NEW i \in D, NEW j \in D
        PROVE  <<i, j>> \in L <=> Less(i, j)
    <2>1. Ahead(a[i], b[i], i, a[j], b[j], j) <=> Less(i, j)
      BY DEF Ahead
    <2> HIDE DEF L, Less, a, b
    <2>2. QED
      BY <1>4, <2>1
  <1>6. 1 \in D /\ n \in D /\ a[1] = 0 /\ b[1] = 0 /\ a[n] = 5 /\ b[n] = 255
    BY DEF Framed
  <1>7. Orders(L, n)
    BY <1>3, LexicalOrders
  <1>8. Sorted(raw) = [i \in D |-> raw[order[i]]]
    BY <1>1, Zenon DEF Sorted
  <1> HIDE DEF L, Less, a, b
  <1>9. \E f \in [D -> D] : \A i, j \in D : i < j => Less(f[i], f[j])
    <2>1. PICK f : InLine(f, n, L)
      BY <1>7, LineExists
    <2>2. f \in [D -> D] /\ \A i, j \in D : i < j => <<f[i], f[j]>> \in L
      BY <2>1 DEF InLine
    <2> HIDE DEF D
    <2>3. QED
      BY <2>2, <1>5
  <1>10. order \in [D -> D] /\ \A i, j \in D : i < j => Less(order[i], order[j])
    <2> HIDE DEF D
    <2>1. QED
      BY <1>1, <1>9
  <1> HIDE DEF order
  <1>11. InLine(order, n, L)
    <2>1. \A i, j \in D : i < j => <<order[i], order[j]>> \in L
      <3> HIDE DEF D
      <3>1. QED
        BY <1>5, <1>10
    <2>2. QED
      BY <1>10, <2>1 DEF InLine
  <1>12. ASSUME NEW x \in D
         PROVE  (x # 1 => <<1, x>> \in L) /\ (x # n => <<x, n>> \in L)
    <2>1. /\ a[x] \in Nat /\ a[x] <= 5 /\ b[x] \in Nat /\ b[x] <= 255
          /\ x \in Nat /\ 1 <= x /\ x <= n
      BY <1>2
    <2>2. x # 1 => Ahead(0, 0, 1, a[x], b[x], x)
      BY <2>1 DEF Ahead
    <2>3. x # n => Ahead(a[x], b[x], x, 5, 255, n)
      BY <2>1 DEF Ahead
    <2>4. x # 1 => Ahead(a[1], b[1], 1, a[x], b[x], x)
      BY <1>6, <2>2
    <2>5. x # n => Ahead(a[x], b[x], x, a[n], b[n], n)
      BY <1>6, <2>3
    <2> HIDE DEF D
    <2>6. QED
      BY <1>4, <1>6, <2>4, <2>5
  <1>13. order[1] = 1 /\ order[n] = n
    <2>1. LineEnds(order, n, L)
      BY <1>7, <1>11, LineIs
    <2>2. /\ (\A x \in D : x # 1 => <<1, x>> \in L) => order[1] = 1
          /\ (\A x \in D : x # n => <<x, n>> \in L) => order[n] = n
      BY <1>6, <2>1 DEF LineEnds
    <2> HIDE DEF D
    <2>3. QED
      BY <1>12, <2>2
  <1>14. \A i \in D : raw[order[i]] \in PairOf
    BY <1>1, <1>10
  <1>15. Sorted(raw) \in Seq(PairOf) /\ Len(Sorted(raw)) = n
    BY <1>8, <1>14
  <1>16. QED
    BY <1>6, <1>8, <1>13, <1>15

----------------------------------------------------------------------------
(* The grants                                                              *)

Pass(pair) == CASE pair[2][1] = "fixed" -> 1
                [] pair[2][1] = "ratio" -> 2
                [] OTHER -> 3

\* Served lists each place once; the system section, which is first and has
\* a fixed budget, comes first.
LEMMA ServedIs ==
    ASSUME NEW q \in Seq(PairOf), NEW n \in Nat, n = Len(q), n > 0, Pass(q[1]) = 1
    PROVE  /\ Served(q) \in [1 .. n -> 1 .. n] /\ Served(q)[1] = 1
           /\ \A i, j \in 1 .. n : Served(q)[i] = Served(q)[j] => i = j
           /\ \A x \in 1 .. n : \E k \in 1 .. n : Served(q)[k] = x
  <1> DEFINE D == 1 .. n
             a == [i \in D |-> Pass(q[i])]
             b == [i \in D |-> 0]
             L == Lexical(n, a, b)
             pass(i) == CASE q[i][2][1] = "fixed" -> 1
                          [] q[i][2][1] = "ratio" -> 2
                          [] OTHER -> 3
             Sooner(i, j) == pass(i) < pass(j) \/ (pass(i) = pass(j) /\ i < j)
             g == CHOOSE f \in [DOMAIN q -> DOMAIN q] :
                     \A i, j \in DOMAIN q : i < j => Sooner(f[i], f[j])
  <1>1. DOMAIN q = D /\ \A i \in D : i \in Nat
    OBVIOUS
  <1>2. a \in [D -> 1 .. 3] /\ b \in [D -> Nat] /\ a[1] = 1 /\ 1 \in D
    BY DEF Pass
  <1>3. a \in [D -> Nat]
    BY <1>2
  <1>4. ASSUME NEW i \in D, NEW j \in D
        PROVE  <<i, j>> \in L <=> a[i] < a[j] \/ (a[i] = a[j] /\ i < j)
    <2>1. <<i, j>> \in L <=> Ahead(a[i], b[i], i, a[j], b[j], j)
      BY LexicalIs
    <2>2. Ahead(a[i], b[i], i, a[j], b[j], j) <=> a[i] < a[j] \/ (a[i] = a[j] /\ i < j)
      BY DEF Ahead
    <2>3. QED
      BY <2>1, <2>2
  <1>5. \A i \in D : a[i] = pass(i)
    BY DEF Pass
  <1>6. Orders(L, n)
    BY <1>2, <1>3, LexicalOrders
  <1>7. Served(q) = g
    BY Zenon DEF Served
  <1> HIDE DEF L, a, b, pass
  <1>8. ASSUME NEW i \in D, NEW j \in D
        PROVE  <<i, j>> \in L <=> Sooner(i, j)
    <2>1. a[i] = pass(i) /\ a[j] = pass(j)
      BY <1>5
    <2>2. <<i, j>> \in L <=> a[i] < a[j] \/ (a[i] = a[j] /\ i < j)
      BY <1>4
    <2>3. QED
      BY <2>1, <2>2
  <1> HIDE DEF Sooner
  <1>9. \E f \in [D -> D] : \A i, j \in D : i < j => Sooner(f[i], f[j])
    <2>1. PICK f : InLine(f, n, L)
      BY <1>6, LineExists
    <2>2. f \in [D -> D] /\ \A i, j \in D : i < j => <<f[i], f[j]>> \in L
      BY <2>1 DEF InLine
    <2> HIDE DEF D
    <2>3. QED
      BY <2>2, <1>8
  <1>10. g \in [D -> D] /\ \A i, j \in D : i < j => Sooner(g[i], g[j])
    <2> HIDE DEF D
    <2>1. QED
      BY <1>1, <1>9
  <1> HIDE DEF g
  <1>11. InLine(g, n, L)
    <2>1. \A i, j \in D : i < j => <<g[i], g[j]>> \in L
      <3> HIDE DEF D
      <3>1. QED
        BY <1>8, <1>10
    <2>2. QED
      BY <1>10, <2>1 DEF InLine
  <1>12. /\ \A i, j \in 1 .. n : g[i] = g[j] => i = j
         /\ \A x \in 1 .. n : \E k \in 1 .. n : g[k] = x
    BY <1>6, <1>11, LineIs
  <1>13. g[1] = 1
    <2>1. \A x \in D : x \in Nat /\ 1 <= x /\ a[x] \in Nat /\ 1 <= a[x]
      BY <1>2
    <2>2. \A y \in D : (\A x \in D : x # y => <<y, x>> \in L) => g[1] = y
      <3>1. LineEnds(g, n, L)
        BY <1>6, <1>11, LineIs
      <3>2. QED
        BY <3>1 DEF LineEnds
    <2> HIDE DEF D
    <2>3. \A x \in D : x # 1 => <<1, x>> \in L
      BY <1>2, <1>4, <2>1
    <2>4. QED
      BY <1>2, <2>2, <2>3
  <1>14. QED
    BY <1>7, <1>10, <1>12, <1>13

LEMMA GrantedIs ==
    ASSUME NEW p \in PairOf, NEW r \in Nat
    PROVE  /\ Claim(p, r) \in Nat /\ Granted(p, r) \in Nat /\ Granted(p, r) <= r
           /\ Granted(p, r) <= Claim(p, r)
           /\ Granted(p, r) = r \/ Granted(p, r) = Claim(p, r)
  <1>1. tokens(p[1]) \in Nat /\ p[2][1] \in {"fixed", "ratio", "dynamic"} /\ p[2][2] \in Nat
    BY PairIs
  <1>2. (r * p[2][2]) \div 4 \in Nat
    <2> DEFINE c == p[2][2]
               m == r * c
    <2>1. m \in Nat
      BY <1>1
    <2> HIDE DEF m
    <2>2. m \div 4 \in Nat
      BY <2>1
    <2>3. QED
      BY <2>2 DEF m
  <1>3. Claim(p, r) \in Nat
    BY <1>1, <1>2 DEF Claim
  <1> DEFINE S == {Claim(p, r), r}
  <1>4. S \subseteq Nat /\ S # {}
    BY <1>3
  <1>5. Min(S) \in S /\ \A x \in S : Min(S) <= x
    <2> HIDE DEF S
    <2>1. QED
      BY <1>4, MinOfNaturals
  <1>6. Granted(p, r) = Min(S)
    BY DEF Granted
  <1>7. QED
    BY <1>3, <1>5, <1>6

\* c is what remains after each grant.
Remains(c, q, g, n, budget) ==
    /\ c[0] = budget
    /\ \A k \in 0 .. n : c[k] \in Nat
    /\ \A k \in 1 .. n : c[k] = c[k - 1] - Granted(q[g[k]], c[k - 1])

LEMMA RemainingIs ==
    ASSUME NEW q \in Seq(PairOf), NEW n \in Nat, n = Len(q), NEW g \in [1 .. n -> 1 .. n],
           NEW budget \in Nat
    PROVE  Remains(RemainingAfter(q, g, budget), q, g, n, budget)
  <1> DEFINE Less(k, r) == r - Granted(q[g[k]], r)
             G == [k \in 1 .. n |-> [r \in Nat |-> Less(k, r)]]
             Step(f) == [k \in 0 .. n |-> IF k = 0 THEN budget ELSE Less(k, f[k - 1])]
             s == CHOOSE f : f = Step(f)
             c == RemainingAfter(q, g, budget)
  <1>1. Len(g) = n
    OBVIOUS
  <1>2. c = s
    <2>1. c = CHOOSE f : f = [k \in 0 .. Len(g) |-> IF k = 0 THEN budget ELSE Less(k, f[k - 1])]
      BY Zenon DEF RemainingAfter
    <2> HIDE DEF c, Less
    <2>2. QED
      BY <1>1, <2>1
  <1> HIDE DEF c
  <1>3. \A k \in 1 .. n : \A r \in Nat : Less(k, r) \in Nat
    <2>1. ASSUME NEW k \in 1 .. n, NEW r \in Nat
          PROVE  Less(k, r) \in Nat
      <3> DEFINE p == q[g[k]]
      <3>1. p \in PairOf
        OBVIOUS
      <3> HIDE DEF p
      <3>2. Granted(p, r) \in Nat /\ Granted(p, r) <= r
        BY <3>1, GrantedIs
      <3>3. r - Granted(p, r) \in Nat
        BY <3>2
      <3>4. QED
        BY <3>3 DEF p
    <2>2. QED
      BY <2>1
  <1> HIDE DEF Less
  <1>4. G \in [1 .. n -> [Nat -> Nat]]
    BY <1>3
  <1>5. PICK f : Iterated(f, n, Nat, budget, G)
    <2> HIDE DEF G
    <2>1. QED
      BY <1>4, Iterates
  <1>6. /\ f \in [0 .. n -> Nat] /\ f[0] = budget
        /\ \A k \in 1 .. n : f[k] = Less(k, f[k - 1])
    <2>1. f \in [0 .. n -> Nat] /\ f[0] = budget /\ \A k \in 1 .. n : f[k] = G[k][f[k - 1]]
      BY <1>5 DEF Iterated
    <2>2. \A k \in 1 .. n : k - 1 \in 0 .. n /\ f[k - 1] \in Nat
      BY <2>1
    <2>3. \A k \in 1 .. n : G[k][f[k - 1]] = Less(k, f[k - 1])
      BY <2>2
    <2> HIDE DEF G
    <2>4. QED
      BY <2>1, <2>3
  <1>7. f = Step(f)
    <2>1. \A k \in 0 .. n : f[k] = IF k = 0 THEN budget ELSE Less(k, f[k - 1])
      <3>1. \A k \in 0 .. n : k = 0 \/ k \in 1 .. n
        OBVIOUS
      <3>2. QED
        BY <1>6, <3>1
    <2>2. QED
      BY <1>6, <2>1
  <1>8. s = Step(s)
    <2> HIDE DEF Step
    <2>1. QED
      BY <1>7, Zenon
  <1> HIDE DEF s
  <1>9. s[0] = budget /\ \A k \in 1 .. n : s[k] = Less(k, s[k - 1])
    <2>1. s[0] = budget
      BY <1>8
    <2>2. \A k \in 1 .. n : k \in 0 .. n /\ k # 0
      OBVIOUS
    <2>3. QED
      BY <1>8, <2>1, <2>2
  <1> DEFINE T == {k \in 0 .. n : s[k] \in Nat}
  <1>10. 0 \in T
    BY <1>9
  <1>11. ASSUME NEW k \in 1 .. n, k - 1 \in T
         PROVE  k \in T
    <2>1. s[k] = Less(k, s[k - 1]) /\ s[k - 1] \in Nat
      BY <1>9, <1>11
    <2>2. Less(k, s[k - 1]) \in Nat
      BY <1>3, <2>1
    <2>3. s[k] \in Nat
      BY <2>1, <2>2
    <2>4. QED
      BY <2>3
  <1>12. 0 .. n \subseteq T
    <2> HIDE DEF T
    <2>1. QED
      BY <1>10, <1>11, UpTo
  <1>13. QED
    <2>1. \A k \in 0 .. n : s[k] \in Nat
      BY <1>12
    <2>2. \A k \in 1 .. n : s[k] = s[k - 1] - Granted(q[g[k]], s[k - 1])
      BY <1>9 DEF Less
    <2>3. Remains(s, q, g, n, budget)
      BY <1>9, <2>1, <2>2 DEF Remains
    <2>4. QED
      BY <1>2, <2>3 DEF c

\* The pair at place g[k] is granted alloc[g[k]] of what remains after the
\* grants before it.
Spends(after, alloc, g, q, n, budget) ==
    /\ after[0] = budget
    /\ \A k \in 0 .. n : after[k] \in Nat
    /\ \A k \in 1 .. n : alloc[g[k]] = Granted(q[g[k]], after[k - 1])
    /\ \A k \in 1 .. n : after[k] = after[k - 1] - alloc[g[k]]

LEMMA AllocIs ==
    ASSUME NEW q \in Seq(PairOf), NEW n \in Nat, n = Len(q), n > 0, Pass(q[1]) = 1, NEW budget \in Nat
    PROVE  LET alloc == allocate_budgets(q, budget)
           IN  /\ alloc \in [1 .. n -> Nat]
               /\ \E after : Spends(after, alloc, Served(q), q, n, budget)
  <1> DEFINE D == 1 .. n
             g == Served(q)
             after == RemainingAfter(q, g, budget)
             Moment(i) == CHOOSE k \in DOMAIN g : g[k] = i
             alloc == allocate_budgets(q, budget)
  <1>1. DOMAIN q = D /\ \A i \in D : q[i] \in PairOf
    OBVIOUS
  <1>2. alloc = [i \in D |-> Granted(q[i], after[Moment(i) - 1])]
    BY <1>1, Zenon DEF allocate_budgets
  <1>3. /\ g \in [D -> D] /\ \A i, j \in D : g[i] = g[j] => i = j
        /\ \A x \in D : \E k \in D : g[k] = x
    BY ServedIs
  <1> HIDE DEF g
  <1>4. Remains(after, q, g, n, budget)
    BY <1>3, RemainingIs
  <1>5. /\ after[0] = budget /\ \A k \in 0 .. n : after[k] \in Nat
        /\ \A k \in D : after[k] = after[k - 1] - Granted(q[g[k]], after[k - 1])
    <2> HIDE DEF after
    <2>1. QED
      BY <1>4 DEF Remains
  <1>6. \A x \in D : Moment(x) \in D /\ g[Moment(x)] = x
    <2> HIDE DEF D
    <2>1. QED
      BY <1>3
  <1> HIDE DEF Moment, after, alloc
  <1>7. \A k \in D : Moment(g[k]) = k /\ g[k] \in D
    <2> HIDE DEF D
    <2>1. QED
      BY <1>3, <1>6
  <1>8. \A k \in D : alloc[g[k]] = Granted(q[g[k]], after[k - 1])
    <2> HIDE DEF D
    <2>1. QED
      BY <1>2, <1>7
  <1>9. ASSUME NEW i \in D
         PROVE  Granted(q[i], after[Moment(i) - 1]) \in Nat
    <2>1. Moment(i) \in D
      BY <1>6
    <2>2. Moment(i) - 1 \in 0 .. n
      BY <2>1
    <2>3. after[Moment(i) - 1] \in Nat /\ q[i] \in PairOf
      BY <1>1, <1>5, <2>2
    <2>4. QED
      BY <2>3, GrantedIs
  <1>10. alloc \in [D -> Nat]
    BY <1>2, <1>9
  <1>11. \A k \in D : after[k] = after[k - 1] - alloc[g[k]]
    BY <1>5, <1>8
  <1>12. Spends(after, alloc, g, q, n, budget)
    BY <1>5, <1>8, <1>11 DEF Spends
  <1>13. QED
    BY <1>10, <1>12 DEF alloc, g

\* q is a sorted list of n pairs with a system section and an input of m
\* tokens, and alloc what they are granted.
Compiled(q, n, m, alloc) ==
    /\ q \in Seq(PairOf) /\ n \in Nat /\ n > 1 /\ n = Len(q) /\ m \in Nat
    /\ q[1] = SystemPair /\ q[n] = InputPair(m)
    /\ alloc = allocate_budgets(q, EffectiveBudget)

LEMMA BudgetIs ==
    ASSUME context \in Nat
    PROVE  EffectiveBudget \in Nat
  BY PromptAssumption DEF EffectiveBudget

LEMMA EndsAre ==
    ASSUME NEW q, NEW n, NEW m, NEW alloc, Compiled(q, n, m, alloc)
    PROVE  /\ n \in Nat /\ n > 1 /\ 1 \in 1 .. n /\ n \in 1 .. n /\ DOMAIN q = 1 .. n
           /\ \A i \in 1 .. n : q[i] \in PairOf
           /\ q[1][1][1] = 0 /\ source(q[1][1]) = "system" /\ Pass(q[1]) = 1
           /\ q[1][2][1] = "fixed" /\ q[1][2][2] = tokens(q[1][1])
           /\ q[n][1][1] = 5 /\ source(q[n][1]) = "user"
  <1>1. /\ q \in Seq(PairOf) /\ n \in Nat /\ n > 1 /\ n = Len(q) /\ m \in Nat
        /\ q[1] = SystemPair /\ q[n] = InputPair(m)
    BY DEF Compiled
  <1>2. /\ 1 \in 1 .. n /\ n \in 1 .. n /\ DOMAIN q = 1 .. n
        /\ \A i \in 1 .. n : q[i] \in PairOf
    BY <1>1
  <1>3. /\ SystemPair[1][1] = 0 /\ source(SystemPair[1]) = "system"
        /\ SystemPair[2][1] = "fixed" /\ SystemPair[2][2] = tokens(SystemPair[1])
    BY SystemPairIs
  <1>4. InputPair(m)[1][1] = 5 /\ source(InputPair(m)[1]) = "user"
    BY <1>1, InputPairIs
  <1>5. Pass(SystemPair) = 1
    BY <1>3 DEF Pass
  <1>6. /\ q[1][1][1] = 0 /\ source(q[1][1]) = "system" /\ Pass(q[1]) = 1
        /\ q[1][2][1] = "fixed" /\ q[1][2][2] = tokens(q[1][1])
    BY <1>1, <1>3, <1>5
  <1>7. q[n][1][1] = 5 /\ source(q[n][1]) = "user"
    BY <1>1, <1>4
  <1>8. QED
    BY <1>1, <1>2, <1>6, <1>7

\* The grants add up to what is no longer there.
LEMMA GrantsAre ==
    ASSUME context \in Nat, NEW q, NEW n, NEW m, NEW alloc, Compiled(q, n, m, alloc)
    PROVE  /\ alloc \in [1 .. n -> Nat]
           /\ \E after : /\ Spends(after, alloc, Served(q), q, n, EffectiveBudget)
                         /\ SumFunctionOnSet(alloc, 1 .. n) = EffectiveBudget - after[n]
  <1> DEFINE g == Served(q)
             B == EffectiveBudget
  <1>1. q \in Seq(PairOf) /\ n \in Nat /\ n > 0 /\ n = Len(q) /\ Pass(q[1]) = 1 /\ B \in Nat
    BY EndsAre, BudgetIs DEF Compiled
  <1>2. alloc = allocate_budgets(q, B)
    BY DEF Compiled
  <1>3. Permutes(g, n)
    BY <1>1, ServedIs DEF Permutes
  <1> HIDE DEF B, g
  <1>4. alloc \in [1 .. n -> Nat] /\ \E after : Spends(after, alloc, Served(q), q, n, B)
    BY <1>1, <1>2, AllocIs
  <1>5. PICK after : Spends(after, alloc, g, q, n, B)
    BY <1>4 DEF g
  <1>6. after[0] = B /\ Drains(after, alloc, g, n)
    BY <1>1, <1>5 DEF Spends, Drains
  <1>7. \A x \in 1 .. n : alloc[x] \in Int
    BY <1>4
  <1>8. SumFunctionOnSet(alloc, 1 .. n) = after[0] - after[n]
    BY <1>1, <1>3, <1>6, <1>7, SumInOrder
  <1>9. QED
    BY <1>4, <1>5, <1>6, <1>8 DEF B, g

\* What remains does not grow.
Falls(after, less, n) ==
    /\ \A j \in 0 .. n : after[j] \in Nat
    /\ \A j \in 1 .. n : less[j] \in Nat /\ after[j] = after[j - 1] - less[j]

LEMMA NothingRemains ==
    ASSUME NEW n \in Nat, NEW after, NEW less, Falls(after, less, n), NEW k \in 1 .. n, after[k] = 0
    PROVE  after[n] = 0
  <1> DEFINE T == {j \in 0 .. n : j < k \/ after[j] = 0}
  <1>1. 0 \in T
    OBVIOUS
  <1>2. ASSUME NEW j \in 1 .. n, j - 1 \in T
        PROVE  j \in T
    <2>1. j < k \/ j = k \/ after[j - 1] = 0
      BY <1>2
    <2>2. after[j] \in Nat /\ less[j] \in Nat /\ after[j] = after[j - 1] - less[j] /\ j \in 0 .. n
      BY DEF Falls
    <2>3. ASSUME after[j - 1] = 0
          PROVE  after[j] = 0
      <3>1. after[j] = 0 - less[j]
        BY <2>2, <2>3
      <3>2. QED
        BY <2>2, <3>1
    <2>4. QED
      BY <2>1, <2>2, <2>3
  <1>3. 0 .. n \subseteq T
    <2> HIDE DEF T
    <2>1. QED
      BY <1>1, <1>2, UpTo
  <1>4. QED
    BY <1>3

\* A dynamic section is dropped when nothing remains.
LEMMA DynamicIs ==
    ASSUME context \in Nat, NEW q, NEW n, NEW m, NEW alloc, Compiled(q, n, m, alloc),
           NEW i \in 1 .. n, i \notin Trimmed(q, alloc), q[i][2][1] = "dynamic"
    PROVE  SumFunctionOnSet(alloc, 1 .. n) = EffectiveBudget
  <1> DEFINE g == Served(q)
             B == EffectiveBudget
             p == q[i]
  <1>1. /\ alloc \in [1 .. n -> Nat] /\ B \in Nat /\ n \in Nat /\ p \in PairOf /\ DOMAIN q = 1 .. n
        /\ q \in Seq(PairOf) /\ n > 0 /\ n = Len(q) /\ Pass(q[1]) = 1
    <2>1. alloc \in [1 .. n -> Nat] /\ B \in Nat
      BY GrantsAre, BudgetIs
    <2>2. n \in Nat /\ n > 1 /\ p \in PairOf /\ DOMAIN q = 1 .. n /\ Pass(q[1]) = 1
      BY EndsAre
    <2>3. q \in Seq(PairOf) /\ n = Len(q)
      BY DEF Compiled
    <2> HIDE DEF B, p
    <2>4. QED
      BY <2>1, <2>2, <2>3
  <1>2. PICK after : /\ Spends(after, alloc, g, q, n, B)
                     /\ SumFunctionOnSet(alloc, 1 .. n) = B - after[n]
    BY GrantsAre
  <1>3. g \in [1 .. n -> 1 .. n] /\ \A x \in 1 .. n : \E k \in 1 .. n : g[k] = x
    BY <1>1, ServedIs
  <1> HIDE DEF g, B
  <1>4. PICK k \in 1 .. n : g[k] = i
    BY <1>3
  <1> DEFINE r == after[k - 1]
  <1>5. /\ \A j \in 0 .. n : after[j] \in Nat
        /\ \A j \in 1 .. n : after[j] = after[j - 1] - alloc[g[j]]
        /\ alloc[i] = Granted(p, r)
    BY <1>2, <1>4 DEF Spends
  <1>6. r \in Nat /\ alloc[i] \in Nat
    <2>1. k - 1 \in 0 .. n
      BY <1>1
    <2>2. QED
      BY <1>1, <1>5, <2>1
  <1>7. alloc[i] < tokens(p[1])
    <2>1. ~(alloc[i] >= tokens(p[1]))
      BY <1>1 DEF Trimmed
    <2>2. tokens(p[1]) \in Nat
      BY <1>1, PairIs
    <2> HIDE DEF p
    <2>3. QED
      BY <1>6, <2>1, <2>2
  <1>8. Claim(p, r) = tokens(p[1])
    BY DEF Claim
  <1> HIDE DEF r, p
  <1>9. alloc[i] = r
    <2>1. Granted(p, r) = r \/ Granted(p, r) = Claim(p, r)
      BY <1>1, <1>6, GrantedIs
    <2>2. tokens(p[1]) \in Nat
      BY <1>1, PairIs
    <2>3. QED
      BY <1>5, <1>6, <1>7, <1>8, <2>1, <2>2
  <1>10. after[k] = 0
    BY <1>4, <1>5, <1>6, <1>9 DEF r
  <1> DEFINE less == [j \in 1 .. n |-> alloc[g[j]]]
  <1>11. \A j \in 1 .. n : less[j] \in Nat
    BY <1>1, <1>3
  <1>12. \A j \in 1 .. n : after[j] = after[j - 1] - less[j]
    BY <1>5
  <1> HIDE DEF less
  <1>13. after[n] = 0
    <2>1. Falls(after, less, n)
      BY <1>5, <1>11, <1>12 DEF Falls
    <2>2. QED
      BY <1>1, <1>10, <2>1, NothingRemains
  <1>14. QED
    BY <1>1, <1>2, <1>13 DEF B

\* The prompt p is compiled from the pairs q.
Renders(p, q, alloc) ==
    /\ p.pairs = q /\ p.allocated = alloc /\ p.kept = Trimmed(q, alloc)
    /\ p.messages = render_messages([i \in Trimmed(q, alloc) |-> q[i][1]])

\* Which sections stay.
LEMMA KeptIs ==
    ASSUME context \in Nat, NEW q, NEW n, NEW m, NEW alloc, Compiled(q, n, m, alloc)
    PROVE  /\ Trimmed(q, alloc) \subseteq 1 .. n /\ n \in Trimmed(q, alloc)
           /\ \A i \in Trimmed(q, alloc) :
                 q[i][1][1] = 5 \/ (alloc[i] \in Nat /\ tokens(q[i][1]) <= alloc[i])
           /\ 1 \in Trimmed(q, alloc) <=> tokens(q[1][1]) <= EffectiveBudget
  <1> DEFINE K == Trimmed(q, alloc)
             B == EffectiveBudget
             g == Served(q)
  <1>1. /\ n \in Nat /\ n > 1 /\ 1 \in 1 .. n /\ n \in 1 .. n /\ DOMAIN q = 1 .. n
        /\ q[1][1][1] = 0 /\ Pass(q[1]) = 1 /\ q[n][1][1] = 5 /\ q[1] \in PairOf
        /\ q[1][2][1] = "fixed" /\ q[1][2][2] = tokens(q[1][1])
    BY EndsAre
  <1>2. alloc \in [1 .. n -> Nat]
    BY GrantsAre
  <1>3. \A i : i \in K <=> i \in 1 .. n /\ (q[i][1][1] = 5 \/ alloc[i] >= tokens(q[i][1]))
    BY <1>1 DEF Trimmed, layer, Layers
  <1>4. K \subseteq 1 .. n /\ n \in K
    BY <1>1, <1>3
  <1>5. ASSUME NEW i \in K
        PROVE  q[i][1][1] = 5 \/ (alloc[i] \in Nat /\ tokens(q[i][1]) <= alloc[i])
    <2>1. i \in 1 .. n /\ (q[i][1][1] = 5 \/ alloc[i] >= tokens(q[i][1]))
      BY <1>3
    <2>2. alloc[i] \in Nat /\ q[i] \in PairOf
      BY <1>2, <2>1, EndsAre
    <2>3. tokens(q[i][1]) \in Nat
      BY <2>2, PairIs
    <2>4. QED
      BY <2>1, <2>2, <2>3
  <1>6. 1 \in K <=> alloc[1] >= tokens(q[1][1])
    BY <1>1, <1>3
  <1>7. PICK after : Spends(after, alloc, g, q, n, B)
    BY GrantsAre
  <1>8. g[1] = 1
    BY <1>1, ServedIs DEF Compiled
  <1>9. B \in Nat
    BY BudgetIs
  <1> HIDE DEF B, g, K
  <1>10. alloc[1] = Granted(q[1], B)
    <2>1. after[0] = B /\ alloc[g[1]] = Granted(q[g[1]], after[1 - 1])
      BY <1>1, <1>7 DEF Spends
    <2>2. 1 - 1 = 0
      OBVIOUS
    <2>3. QED
      BY <1>8, <2>1, <2>2
  <1> DEFINE t == tokens(q[1][1])
             a == alloc[1]
  <1>11. t \in Nat
    BY <1>1, PairIs
  <1>12. Claim(q[1], B) = t
    BY <1>1 DEF Claim
  <1>13. a \in Nat /\ a <= B /\ a <= t /\ (a = B \/ a = t)
    BY <1>1, <1>9, <1>10, <1>12, GrantedIs
  <1> HIDE DEF t, a
  <1>14. a >= t <=> t <= B
    BY <1>9, <1>11, <1>13
  <1>15. QED
    BY <1>4, <1>5, <1>6, <1>14 DEF t, a, K, B

\* The sections before the input, and the share of the input, are paid from
\* the budget.
LEMMA SumFits ==
    ASSUME context \in Nat, NEW q, NEW n, NEW m, NEW alloc, Compiled(q, n, m, alloc)
    PROVE  /\ SumFunctionOnSet(alloc, 1 .. n) <= EffectiveBudget
           /\ SumFunctionOnSet([i \in DOMAIN q |-> tokens(q[i][1])],
                               {i \in Trimmed(q, alloc) : q[i][1][1] # 5}) + alloc[n]
                 <= EffectiveBudget
  <1> DEFINE K == Trimmed(q, alloc)
             B == EffectiveBudget
             size == [i \in DOMAIN q |-> tokens(q[i][1])]
             others == {i \in K : q[i][1][1] # 5}
             l == n - 1
             total == SumFunctionOnSet(alloc, 1 .. n)
             before == SumFunctionOnSet(alloc, 1 .. l)
             told == SumFunctionOnSet(size, others)
  <1>1. n \in Nat /\ n > 1 /\ n \in 1 .. n /\ DOMAIN q = 1 .. n /\ q[n][1][1] = 5
    BY EndsAre
  <1>2. alloc \in [1 .. n -> Nat]
    BY GrantsAre
  <1>3. B \in Nat
    BY BudgetIs
  <1>4. /\ K \subseteq 1 .. n
        /\ \A i \in K : q[i][1][1] = 5 \/ (alloc[i] \in Nat /\ tokens(q[i][1]) <= alloc[i])
    BY KeptIs
  <1> HIDE DEF B, K
  <1>5. total <= B
    <2>1. PICK after : /\ Spends(after, alloc, Served(q), q, n, B)
                       /\ total = B - after[n]
      BY GrantsAre DEF B
    <2>2. after[n] \in Nat
      <3>1. n \in 0 .. n
        BY <1>1
      <3>2. QED
        BY <2>1, <3>1 DEF Spends
    <2> HIDE DEF total
    <2>3. QED
      BY <1>3, <2>1, <2>2
  <1>6. l \in Nat /\ 1 .. n = (1 .. l) \cup {n} /\ n \notin 1 .. l
    BY <1>1
  <1>7. others \subseteq 1 .. l
    <2>1. others \subseteq 1 .. n /\ n \notin others
      BY <1>1, <1>4
    <2> HIDE DEF others, l
    <2>2. QED
      BY <1>6, <2>1
  <1>8. \A x \in 1 .. l : alloc[x] \in Nat
    BY <1>1, <1>2
  <1>9. \A x \in others : size[x] \in Nat /\ size[x] <= alloc[x]
    <2>1. ASSUME NEW x \in others
          PROVE  size[x] \in Nat /\ size[x] <= alloc[x]
      <3>1. x \in 1 .. n /\ tokens(q[x][1]) <= alloc[x]
        BY <1>4
      <3>2. q[x] \in PairOf
        BY <3>1, EndsAre
      <3>3. tokens(q[x][1]) \in Nat
        BY <3>2, PairIs
      <3>4. QED
        BY <1>1, <3>1, <3>3
    <2>2. QED
      BY <2>1
  <1> HIDE DEF l, others, size
  <1>10. before \in Nat /\ told \in Nat /\ told <= before
    BY <1>6, <1>7, <1>8, <1>9, SumBelow
  <1>11. total = alloc[n] + before
    <2> DEFINE S == 1 .. l
    <2>1. IsFiniteSet(S)
      BY <1>6, FS_Interval
    <2>2. n \notin S /\ \A y \in S \cup {n} : alloc[y] \in Int
      BY <1>1, <1>2, <1>6, <1>8
    <2> HIDE DEF S
    <2>3. SumFunctionOnSet(alloc, S \cup {n}) = alloc[n] + SumFunctionOnSet(alloc, S)
      BY <2>1, <2>2, SumOfOneMore
    <2>4. QED
      BY <1>6, <2>3 DEF S
  <1>12. alloc[n] \in Nat
    BY <1>1, <1>2
  <1> HIDE DEF total, before, told
  <1>13. told + alloc[n] <= B
    BY <1>3, <1>5, <1>10, <1>11, <1>12
  <1>14. QED
    BY <1>5, <1>13 DEF total, told, B, K, others, size

LEMMA LastJoined ==
    ASSUME NEW S, NEW a \in Seq(S), NEW b \in Seq(S), Len(b) = 1
    PROVE  Last(a \o b) = b[1]
  <1> DEFINE u == a \o b
             l == Len(a)
  <1>1. u \in Seq(S) /\ IsJoined(u, a, b)
    BY Joined
  <1> HIDE DEF u
  <1>2. l \in Nat /\ Len(u) = l + 1 /\ \A i \in 1 .. 1 : u[l + i] = b[i]
    BY <1>1 DEF IsJoined
  <1> HIDE DEF l
  <1>3. u[l + 1] = b[1]
    BY <1>2
  <1>4. QED
    BY <1>2, <1>3 DEF Last, u

\* An input that is not empty is said by the user.
LEMMA InputIsSaid ==
    ASSUME context \in Nat, NEW q, NEW n, NEW m, NEW alloc, Compiled(q, n, m, alloc),
           tokens(q[n][1]) > 0
    PROVE  Last(render_messages([i \in Trimmed(q, alloc) |-> q[i][1]]))[1] = "user"
  <1> DEFINE K == Trimmed(q, alloc)
             s == [i \in K |-> q[i][1]]
             system == {i \in DOMAIN s : layer(s[i]) = Layers.System}
             others == {i \in DOMAIN s : layer(s[i]) # Layers.System /\ tokens(s[i]) > 0}
             a == IF system = {} THEN <<>> ELSE <<<<"system", system>>>>
             b == <<<<"user", others>>>>
             Role == {"system", "user"} \X {system, others}
  <1>1. n \in K
    BY KeptIs
  <1>2. q[n][1][1] = 5
    BY EndsAre
  <1>3. n \in others
    BY <1>1, <1>2 DEF layer, Layers
  <1>4. render_messages(s) = a \o b
    BY <1>3, Zenon DEF render_messages
  <1>5. a \in Seq(Role) /\ b \in Seq(Role) /\ Len(b) = 1 /\ b[1][1] = "user"
    <2> HIDE DEF system, others
    <2>1. QED
      OBVIOUS
  <1> HIDE DEF a, b, Role, s
  <1>6. Last(a \o b) = b[1]
    BY <1>5, LastJoined
  <1>7. QED
    BY <1>4, <1>5, <1>6 DEF s

LEMMA FitsIs ==
    ASSUME context \in Nat, NEW q, NEW n, NEW m, NEW alloc, Compiled(q, n, m, alloc),
           NEW p, Renders(p, q, alloc)
    PROVE  Fits(p)
  <1> DEFINE K == Trimmed(q, alloc)
             B == EffectiveBudget
             size == [i \in DOMAIN q |-> tokens(q[i][1])]
             others == {i \in K : q[i][1][1] # 5}
             granted == SumFunctionOnSet(alloc, 1 .. n)
  <1>1. /\ n \in Nat /\ n > 1 /\ 1 \in 1 .. n /\ n \in 1 .. n /\ DOMAIN q = 1 .. n
        /\ q[1][1][1] = 0 /\ source(q[1][1]) = "system" /\ source(q[n][1]) = "user"
    BY EndsAre
  <1>2. /\ Len(q) = n /\ p.pairs = q /\ p.allocated = alloc /\ p.kept = K
        /\ p.messages = render_messages([i \in K |-> q[i][1]])
    BY DEF Compiled, Renders
  <1>3. granted <= B /\ SumFunctionOnSet(size, others) + alloc[n] <= B
    BY SumFits
  <1>4. /\ K \subseteq 1 .. n /\ n \in K
        /\ 1 \in K <=> tokens(q[1][1]) <= B
    BY KeptIs
  <1>5. Max(K) = n
    <2> HIDE DEF K
    <2>1. K \subseteq Nat /\ K # {} /\ \A x \in K : x <= n
      BY <1>1, <1>4
    <2>2. Max(K) \in K /\ \A x \in K : x <= Max(K)
      BY <1>1, <2>1, MaxOfBounded
    <2>3. Max(K) \in Nat /\ Max(K) <= n /\ n <= Max(K)
      BY <1>4, <2>1, <2>2
    <2>4. QED
      BY <1>1, <2>3
  <1>6. tokens(q[n][1]) > 0 => Last(p.messages)[1] = "user"
    BY <1>2, InputIsSaid
  <1>7. \A i \in DOMAIN q \ K : q[i][2][1] = "dynamic" => granted = B
    BY <1>1, DynamicIs
  <1>8. DOMAIN alloc = 1 .. n
    BY GrantsAre
  <1>9. SumFunction(p.allocated) = granted
    BY <1>2, <1>8 DEF SumFunction
  <1>10. /\ size = [i \in DOMAIN p.pairs |-> tokens(Section(p, i))]
         /\ others = {i \in p.kept : layer(Section(p, i)) # Layers.Input}
    BY <1>2 DEF Section, layer, Layers
  <1>11. 1 \in others <=> size[1] <= B
    BY <1>1, <1>4
  <1>12. size[n] = tokens(q[n][1]) /\ Section(p, 1) = q[1][1] /\ Section(p, n) = q[n][1]
    BY <1>1, <1>2 DEF Section
  <1> HIDE DEF size, others, granted, B, K
  <1>13. QED
    BY <1>1, <1>2, <1>3, <1>5, <1>6, <1>7, <1>9, <1>10, <1>11, <1>12, Zenon DEF Fits, B

LEMMA CompiledIs ==
    ASSUME context \in Nat, providers \in Seq(KnownProviders), NEW E, NEW events \in Seq(E), NEW stored,
           NEW sizes, \A i \in DOMAIN providers : sizes[i] \in Nat, NEW m \in Nat
    PROVE  LET q == Sorted(Append(collect(events, stored, sizes), InputPair(m)))
           IN  Compiled(q, Len(q), m, allocate_budgets(q, EffectiveBudget))
  <1> DEFINE c == collect(events, stored, sizes)
             x == InputPair(m)
             raw == Append(c, x)
             n == Len(raw)
             q == Sorted(raw)
  <1>1. c \in Seq(PairOf) /\ Len(c) > 0 /\ c[1] = SystemPair
    BY CollectIs
  <1>2. x \in PairOf /\ x[1][1] = 5 /\ x[1][2] = 255
    BY InputPairIs
  <1>3. SystemPair[1][1] = 0 /\ SystemPair[1][2] = 0
    BY SystemPairIs
  <1> HIDE DEF c, x
  <1>4. raw \in Seq(PairOf) /\ n \in Nat /\ n > 1 /\ raw[1] = SystemPair /\ raw[n] = x
    BY <1>1, <1>2
  <1> HIDE DEF raw
  <1>5. Framed(raw, n)
    BY <1>2, <1>3, <1>4 DEF Framed
  <1> HIDE DEF n
  <1>6. q \in Seq(PairOf) /\ Len(q) = n /\ q[1] = raw[1] /\ q[n] = raw[n]
    <2>1. n = Len(raw) /\ n > 0
      BY <1>4 DEF n
    <2>2. QED
      BY <1>4, <1>5, <2>1, SortedPairs
  <1> HIDE DEF q
  <1>7. Compiled(q, Len(q), m, allocate_budgets(q, EffectiveBudget))
    BY <1>4, <1>6 DEF Compiled, x
  <1>8. QED
    BY <1>7 DEF q, raw, c, x

----------------------------------------------------------------------------
(* The invariant of the prompt                                             *)

\* The blobs of the prompt are as old as it is.
BlobsStay(p) ==
    /\ p.on \in Nat /\ p.on <= day
    /\ \A k \in p.refs : day - p.on > KeepDays \/ (k \in DOMAIN blobs /\ blobs[k] = p.on)

PromptInv ==
    /\ context \in Nat /\ providers \in Seq(KnownProviders)
    /\ pending \in Seq(Small \cup Large) /\ day \in Nat
    /\ prompt # NoPrompt => Fits(prompt) /\ BlobsStay(prompt)

LEMMA PromptImplies ==
    ASSUME PromptInv
    PROVE  PromptFits
  <1>1. ASSUME prompt # NoPrompt
        PROVE  Fits(prompt) /\ (prompt.refs \subseteq DOMAIN blobs \/ day - prompt.on > KeepDays)
    BY <1>1 DEF PromptInv, BlobsStay
  <1>2. QED
    BY <1>1 DEF PromptFits

LEMMA PromptBegins ==
    ASSUME PromptInit
    PROVE  PromptInv
  <1>1. context \in Nat /\ prompt = NoPrompt /\ day = 0
    BY PromptAssumption DEF PromptInit
  <1>2. providers \in Seq(KnownProviders) /\ pending \in Seq(Small \cup Large)
    BY DEF PromptInit
  <1>3. QED
    BY <1>1, <1>2 DEF PromptInv

\* What Fits and BlobsStay speak of
LEMMA FitStays ==
    ASSUME context' = context, prompt' = prompt, Fits(prompt)
    PROVE  Fits(prompt)'
  BY DEF Fits, EffectiveBudget, Section

LEMMA KeptStays ==
    ASSUME day' = day, blobs' = blobs, prompt' = prompt, BlobsStay(prompt)
    PROVE  BlobsStay(prompt)'
  BY DEF BlobsStay

\* Between two turns only what goes into the prompt changes.
LEMMA SettingStep ==
    ASSUME PromptInv, prompt = NoPrompt, prompt' = prompt, context' = context, day' = day,
           providers' \in Seq(KnownProviders), pending' \in Seq(Small \cup Large)
    PROVE  PromptInv'
  BY DEF PromptInv, NoPrompt

LEMMA CompileStep ==
    ASSUME PromptInv, NEW m \in InputTokens, NEW stored \in SUBSET Large, NEW sizes \in Sizes,
           CompilePrompt(m, stored, sizes)
    PROVE  PromptInv'
  <1> DEFINE q == Sorted(Append(collect(pending, stored, sizes), InputPair(m)))
             alloc == allocate_budgets(q, EffectiveBudget)
             K == Trimmed(q, alloc)
             s == [i \in K |-> q[i][1]]
             refs == IF \E i \in DOMAIN s : source(s[i]) = "events" THEN stored ELSE {}
             p == [pairs |-> q, allocated |-> alloc, kept |-> K, on |-> day,
                   messages |-> render_messages(s), refs |-> refs]
             b == [k \in DOMAIN blobs \cup stored |-> IF k \in stored THEN day ELSE blobs[k]]
  <1>1. /\ context \in Nat /\ providers \in Seq(KnownProviders)
        /\ pending \in Seq(Small \cup Large) /\ day \in Nat
    BY DEF PromptInv
  <1>2. m \in Nat /\ \A i \in DOMAIN providers : sizes[i] \in Nat
    BY PromptAssumption DEF Sizes
  <1>3. prompt' = p /\ blobs' = b /\ pending' = <<>>
    BY Zenon DEF CompilePrompt
  <1>4. context' = context /\ providers' = providers /\ day' = day
    BY DEF CompilePrompt
  <1>5. Compiled(q, Len(q), m, alloc)
    BY <1>1, <1>2, CompiledIs
  <1> HIDE DEF q, alloc
  <1>6. Renders(p, q, alloc)
    BY DEF Renders
  <1>7. refs \subseteq stored
    OBVIOUS
  <1> HIDE DEF K, s, refs
  <1>8. p.on = day /\ p.refs = refs
    OBVIOUS
  <1> HIDE DEF p
  <1>9. Fits(p)
    BY <1>1, <1>5, <1>6, FitsIs
  <1>10. Fits(prompt)'
    BY <1>3, <1>4, <1>9 DEF Fits, EffectiveBudget, Section
  <1>11. \A k \in stored : k \in DOMAIN b /\ b[k] = day
    OBVIOUS
  <1> HIDE DEF b
  <1>12. BlobsStay(prompt)'
    BY <1>1, <1>3, <1>4, <1>7, <1>8, <1>11 DEF BlobsStay
  <1>13. pending' \in Seq(Small \cup Large)
    BY <1>3
  <1>14. QED
    BY <1>1, <1>4, <1>10, <1>12, <1>13 DEF PromptInv

LEMMA DeleteStep ==
    ASSUME PromptInv, DeleteOlderThan
    PROVE  PromptInv'
  <1> DEFINE b == [k \in {x \in DOMAIN blobs : blobs[x] >= day - KeepDays} |-> blobs[k]]
  <1>1. blobs' = b
    BY DEF DeleteOlderThan
  <1>2. UNCHANGED <<context, providers, pending, day, prompt>>
    BY DEF DeleteOlderThan
  <1>3. day \in Nat /\ KeepDays \in Nat
    BY PromptAssumption DEF PromptInv
  <1>4. ASSUME prompt # NoPrompt
        PROVE  Fits(prompt)' /\ BlobsStay(prompt)'
    <2>1. Fits(prompt) /\ BlobsStay(prompt)
      BY <1>4 DEF PromptInv
    <2>2. Fits(prompt)'
      BY <1>2, <2>1, FitStays
    <2>3. prompt.on \in Nat /\ prompt.on <= day
      BY <2>1 DEF BlobsStay
    <2>4. ASSUME NEW k \in prompt.refs, ~(day - prompt.on > KeepDays)
          PROVE  k \in DOMAIN b /\ b[k] = prompt.on
      <3>1. k \in DOMAIN blobs /\ blobs[k] = prompt.on
        BY <2>1, <2>4 DEF BlobsStay
      <3>2. prompt.on >= day - KeepDays
        BY <1>3, <2>3, <2>4
      <3>3. QED
        BY <3>1, <3>2
    <2> HIDE DEF b
    <2>5. BlobsStay(prompt)'
      BY <1>1, <1>2, <2>3, <2>4 DEF BlobsStay
    <2>6. QED
      BY <2>2, <2>5
  <1>5. QED
    BY <1>2, <1>4 DEF PromptInv, NoPrompt

LEMMA NextDayStep ==
    ASSUME PromptInv, NextDay
    PROVE  PromptInv'
  <1>1. day' = day + 1 /\ UNCHANGED <<context, providers, pending, blobs, prompt>>
    BY DEF NextDay
  <1>2. day \in Nat /\ KeepDays \in Nat
    BY PromptAssumption DEF PromptInv
  <1>3. ASSUME prompt # NoPrompt
        PROVE  Fits(prompt)' /\ BlobsStay(prompt)'
    <2>1. Fits(prompt) /\ BlobsStay(prompt)
      BY <1>3 DEF PromptInv
    <2>2. Fits(prompt)'
      BY <1>1, <2>1, FitStays
    <2>3. prompt.on \in Nat /\ prompt.on <= day
      BY <2>1 DEF BlobsStay
    <2>4. prompt.on <= day + 1 /\ (day - prompt.on > KeepDays => day + 1 - prompt.on > KeepDays)
      BY <1>2, <2>3
    <2>5. \A k \in prompt.refs : day' - prompt.on > KeepDays
                                 \/ (k \in DOMAIN blobs /\ blobs[k] = prompt.on)
      <3>1. \A k \in prompt.refs : day - prompt.on > KeepDays
                                 \/ (k \in DOMAIN blobs /\ blobs[k] = prompt.on)
        BY <2>1 DEF BlobsStay
      <3>2. day - prompt.on > KeepDays => day' - prompt.on > KeepDays
        <4> DEFINE o == prompt.on
                   e == day'
        <4>1. e = day + 1 /\ o \in Nat
          BY <1>1, <2>3
        <4> HIDE DEF o, e
        <4>2. day - o > KeepDays => e - o > KeepDays
          BY <1>2, <4>1
        <4>3. QED
          BY <4>2 DEF o, e
      <3>3. QED
        BY <3>1, <3>2
    <2>6. BlobsStay(prompt)'
      <3>1. prompt.on <= day'
        BY <1>1, <2>4
      <3>2. prompt' = prompt /\ blobs' = blobs
        BY <1>1
      <3>3. QED
        BY <2>3, <2>5, <3>1, <3>2 DEF BlobsStay
    <2>7. QED
      BY <2>2, <2>6
  <1>4. QED
    BY <1>1, <1>2, <1>3 DEF PromptInv, NoPrompt

LEMMA PromptStep ==
    ASSUME PromptInv, PromptNext
    PROVE  PromptInv'
  <1>1. /\ context \in Nat /\ providers \in Seq(KnownProviders)
        /\ pending \in Seq(Small \cup Large) /\ day \in Nat
    BY DEF PromptInv
  <1>2. ASSUME NEW d, SetSystemPrompt(d) \/ SetOutputContract(d)
        PROVE  PromptInv'
    <2>1. prompt = NoPrompt /\ UNCHANGED <<prompt, context, day, providers, pending>>
      BY <1>2 DEF SetSystemPrompt, SetOutputContract
    <2>2. QED
      BY <1>1, <2>1, SettingStep
  <1>3. ASSUME NEW p \in {"memory", "events"} \cup DOMAIN Contributors, Register(p)
        PROVE  PromptInv'
    <2>1. prompt = NoPrompt /\ UNCHANGED <<prompt, context, day, pending>>
      BY <1>3 DEF Register
    <2>2. providers' = Append(providers, p) /\ p \in KnownProviders
      BY <1>3 DEF Register, KnownProviders
    <2>3. providers' \in Seq(KnownProviders)
      BY <1>1, <2>2
    <2>4. QED
      BY <1>1, <2>1, <2>3, SettingStep
  <1>4. ASSUME NEW e \in Small \cup Large, Push(e)
        PROVE  PromptInv'
    <2>1. prompt = NoPrompt /\ UNCHANGED <<prompt, context, day, providers>>
      BY <1>4 DEF Push
    <2>2. pending' = Append(pending, e)
      BY <1>4 DEF Push
    <2>3. pending' \in Seq(Small \cup Large)
      BY <1>1, <2>2
    <2>4. QED
      BY <1>1, <2>1, <2>3, SettingStep
  <1>5. ASSUME EndTurn
        PROVE  PromptInv'
    <2>1. prompt' = NoPrompt /\ UNCHANGED <<context, day, providers, pending>>
      BY <1>5 DEF EndTurn
    <2>2. QED
      BY <1>1, <2>1 DEF PromptInv, NoPrompt
  <1>6. QED
    BY <1>2, <1>3, <1>4, <1>5, CompileStep, DeleteStep, NextDayStep DEF PromptNext

LEMMA PromptStutters ==
    ASSUME PromptInv, UNCHANGED promptVars
    PROVE  PromptInv'
  <1>1. UNCHANGED <<context, providers, pending, day, blobs, prompt>>
    BY DEF promptVars
  <1>2. ASSUME prompt # NoPrompt
        PROVE  Fits(prompt)' /\ BlobsStay(prompt)'
    BY <1>1, <1>2, FitStays, KeptStays DEF PromptInv
  <1>3. QED
    BY <1>1, <1>2 DEF PromptInv, NoPrompt

\* Whatever the providers contribute and whatever the user says, the prompt
\* that PromptStack and ContextAssembler compile fits the budget, begins with
\* the system section if that fits, ends with the input, and drops a dynamic
\* section only when the budget is used up; the blobs it refers to are there
\* until delete_older_than may take them.
THEOREM PromptTheorem == CoreSpec => []PromptFits
  <1>1. CoreInit => PromptInv
    BY PromptBegins DEF CoreInit
  <1>2. PromptInv /\ [CoreNext]_coreVars => PromptInv'
    BY PromptStep, PromptStutters DEF CoreNext, coreVars
  <1>3. PromptInv => PromptFits
    BY PromptImplies
  <1>4. QED
    BY <1>1, <1>2, <1>3, PTL DEF CoreSpec
----------------------------------------------------------------------------
(* Paths of conditions: written out and parsed again                       *)

\* The words of a path that name something, and the segments made of them
Naming(K)    == K \ {"", ".", "[", "]"}
Segments(K) == ({"key"} \X Naming(K)) \cup ({"index"} \X {IndexOf[w] : w \in DOMAIN IndexOf})
                \cup {<<"any">>}
Parses(K)   == [segs : Seq(Segments(K)), word : Naming(K) \cup {""}]

Start == [segs |-> <<>>, word |-> ""]

\* A state in which no word is open
LEMMA ClosedIs ==
    ASSUME NEW K, NEW u \in Seq(Segments(K)), NEW v, v = [segs |-> u, word |-> ""]
    PROVE  v \in Parses(K) /\ v.word = "" /\ v.segs = u
  <1> DEFINE Q == Seq(Segments(K))
             W == Naming(K) \cup {""}
  <1>1. "" \in W /\ u \in Q
    OBVIOUS
  <1> HIDE DEF Q, W
  <1>2. v \in [segs : Q, word : W]
    BY <1>1
  <1>3. QED
    BY <1>2 DEF Parses, Q, W

LEMMA FlushedIs ==
    ASSUME NEW K, NEW r \in Parses(K)
    PROVE  /\ Flushed(r) \in Parses(K) /\ Flushed(r).word = ""
           /\ r.word = "" => Flushed(r) = r
           /\ r.word # "" => Flushed(r).segs = Append(r.segs, <<"key", r.word>>)
  <1> DEFINE S == Segments(K)
             e == <<"key", r.word>>
             q == r.segs
             u == Append(q, e)
  <1>1. q \in Seq(S) /\ r.word \in Naming(K) \cup {""}
    BY DEF Parses
  <1>2. CASE r.word = ""
    BY <1>2 DEF Flushed
  <1>3. CASE r.word # ""
    <2>1. e \in S
      BY <1>1, <1>3 DEF Segments
    <2>2. Flushed(r) = [segs |-> u, word |-> ""]
      BY <1>3, Zenon DEF Flushed
    <2>3. u \in Seq(S)
      <3> HIDE DEF S, e, q
      <3>1. QED
        BY <1>1, <2>1, AppendProperties
    <2>4. Flushed(r) \in Parses(K) /\ Flushed(r).word = "" /\ Flushed(r).segs = u
      <3> HIDE DEF u
      <3>1. QED
        BY <2>2, <2>3, ClosedIs
    <2>5. QED
      BY <1>3, <2>4
  <1>4. QED
    BY <1>2, <1>3

\* What each kind of word does.
LEMMA PathStepIs ==
    ASSUME NEW K, NEW r \in Parses(K), NEW t
    PROVE  /\ t \in K => PathStep(r, t) \in Parses(K)
           /\ t \in {".", "["} => PathStep(r, t) = Flushed(r)
           /\ t \notin {".", "[", "]"} =>
                 PathStep(r, t).segs = r.segs /\ PathStep(r, t).word = t
           /\ t = "]" /\ r.word = "any" =>
                 PathStep(r, t) = [segs |-> Append(r.segs, <<"any">>), word |-> ""]
           /\ t = "]" /\ r.word \in DOMAIN IndexOf =>
                 PathStep(r, t) =
                    [segs |-> Append(r.segs, <<"index", IndexOf[r.word]>>), word |-> ""]
  <1> DEFINE S == Segments(K)
             q == r.segs
  <1>1. q \in Seq(S) /\ r.word \in Naming(K) \cup {""}
    BY DEF Parses
  <1>2. CASE t \in {".", "["}
    <2>1. PathStep(r, t) = Flushed(r)
      BY <1>2 DEF PathStep
    <2>2. QED
      BY <1>2, <2>1, FlushedIs
  <1>3. CASE t = "]"
    <2> DEFINE more == IF r.word = "any" THEN <<<<"any">>>>
                       ELSE IF r.word \in DOMAIN IndexOf
                       THEN <<<<"index", IndexOf[r.word]>>>> ELSE <<>>
               u == q \o more
    <2>1. PathStep(r, t) = [segs |-> u, word |-> ""]
      BY <1>3 DEF PathStep
    <2>2. <<"any">> \in S /\ \A w \in DOMAIN IndexOf : <<"index", IndexOf[w]>> \in S
      BY DEF Segments
    <2>3. "any" \notin DOMAIN IndexOf
      BY EvalAssumption DEF EvalAssumption
    <2> HIDE DEF S, q
    <2>4. more \in Seq(S)
      BY <2>2
    <2>5. u \in Seq(S)
      <3> HIDE DEF more
      <3>1. QED
        BY <1>1, <2>4, ConcatProperties
    <2>6. \A x \in S : q \o <<x>> = Append(q, x)
      BY <1>1, AppendIsConcat
    <2>7. r.word = "any" => u = Append(q, <<"any">>)
      BY <2>2, <2>6, Zenon
    <2>8. r.word \in DOMAIN IndexOf => u = Append(q, <<"index", IndexOf[r.word]>>)
      BY <2>2, <2>3, <2>6, Zenon
    <2> HIDE DEF u
    <2>9. PathStep(r, t) \in Parses(K)
      BY <2>1, <2>5, ClosedIs DEF S
    <2>10. QED
      BY <1>3, <2>1, <2>7, <2>8, <2>9 DEF q
  <1>4. CASE t \notin {".", "[", "]"}
    <2>1. PathStep(r, t) = [r EXCEPT !.word = t]
      BY <1>4 DEF PathStep
    <2>2. t \in K => t \in Naming(K) \cup {""}
      BY <1>4 DEF Naming
    <2> HIDE DEF q, S
    <2>3. t \in K => [r EXCEPT !.word = t] \in Parses(K)
      BY <2>2 DEF Parses
    <2>4. [r EXCEPT !.word = t].segs = r.segs /\ [r EXCEPT !.word = t].word = t
      BY DEF Parses
    <2>5. t \notin {".", "["} /\ t # "]"
      BY <1>4
    <2>6. QED
      BY <2>1, <2>3, <2>4, <2>5, Zenon
  <1>5. QED
    BY <1>2, <1>3, <1>4, Zenon

\* f is what parse_path has after each word of p; WritesAs, ReachesAs and
\* ResolvesAs say the same of the other recursive functions.
ParsesAs(f, p, n, K) ==
    /\ f \in [0 .. n -> Parses(K)] /\ f[0] = Start
    /\ \A i \in 1 .. n : f[i] = PathStep(f[i - 1], p[i])
    /\ Parsed(p) = f[n]

LEMMA StartIs ==
    ASSUME NEW K
    PROVE  Start \in Parses(K)
  <1>1. <<>> \in Seq(Segments(K))
    OBVIOUS
  <1>2. QED
    BY <1>1, ClosedIs DEF Start

LEMMA ParsedIs ==
    ASSUME NEW K, NEW p \in Seq(K)
    PROVE  \E f : ParsesAs(f, p, Len(p), K)
  <1> DEFINE n == Len(p)
             A == Parses(K)
             G == [i \in 1 .. n |-> [r \in A |-> PathStep(r, p[i])]]
             Step(f) == [i \in 0 .. n |-> IF i = 0 THEN Start ELSE PathStep(f[i - 1], p[i])]
             c == CHOOSE f : f = Step(f)
  <1>1. n \in Nat /\ \A i \in 1 .. n : p[i] \in K
    OBVIOUS
  <1>2. Parsed(p) = c[n]
    BY Zenon DEF Parsed, Start
  <1> HIDE DEF n, A
  <1>3. G \in [1 .. n -> [A -> A]]
    <2>1. \A i \in 1 .. n : \A r \in A : PathStep(r, p[i]) \in A
      BY <1>1, PathStepIs DEF A
    <2>2. QED
      BY <2>1
  <1>4. Start \in A
    BY StartIs DEF A
  <1>5. PICK f : Iterated(f, n, A, Start, G)
    <2> HIDE DEF G
    <2>1. QED
      BY <1>1, <1>3, <1>4, Iterates
  <1>6. \A i \in 1 .. n : \A r \in A : G[i][r] = PathStep(r, p[i])
    OBVIOUS
  <1> HIDE DEF G
  <1>7. f = Step(f)
    <2>1. \A i \in 1 .. n : f[i] = PathStep(f[i - 1], p[i])
      <3>1. f \in [0 .. n -> A] /\ \A i \in 1 .. n : f[i] = G[i][f[i - 1]]
        BY <1>5 DEF Iterated
      <3>2. \A i \in 1 .. n : f[i - 1] \in A
        BY <1>1, <3>1
      <3>3. QED
        BY <1>6, <3>1, <3>2
    <2>2. \A i \in 0 .. n : i = 0 \/ i \in 1 .. n
      BY <1>1
    <2>3. f \in [0 .. n -> A] /\ f[0] = Start
      BY <1>5 DEF Iterated
    <2>4. QED
      BY <2>1, <2>2, <2>3
  <1>8. c = Step(c)
    <2> HIDE DEF Step
    <2>1. QED
      BY <1>7, Zenon
  <1> HIDE DEF c
  <1>9. /\ c = [i \in 0 .. n |-> c[i]] /\ c[0] = Start
        /\ \A i \in 1 .. n : c[i] = PathStep(c[i - 1], p[i])
    <2>1. \A i \in 1 .. n : i \in 0 .. n /\ i # 0
      BY <1>1
    <2>2. 0 \in 0 .. n
      BY <1>1
    <2>3. QED
      BY <1>8, <2>1, <2>2
  <1>10. Iterated(c, n, A, Start, G)
    <2>1. \A i \in 1 .. n : c[i - 1] \in A => c[i] = G[i][c[i - 1]]
      BY <1>6, <1>9
    <2>2. QED
      BY <1>1, <1>3, <1>4, <1>9, <2>1, Unrolled
  <1>11. ParsesAs(c, p, n, K)
    BY <1>2, <1>9, <1>10 DEF ParsesAs, Iterated, A
  <1>12. QED
    BY <1>11 DEF n

\* One word more.
LEMMA ParsedAppend ==
    ASSUME NEW K, NEW p \in Seq(K), NEW t \in K
    PROVE  Parsed(p) \in Parses(K) /\ Parsed(Append(p, t)) = PathStep(Parsed(p), t)
  <1> DEFINE n == Len(p)
             u == Append(p, t)
  <1>1. /\ n \in Nat /\ u \in Seq(K) /\ Len(u) = n + 1 /\ u[n + 1] = t
        /\ \A i \in 1 .. n : u[i] = p[i]
    OBVIOUS
  <1>2. PICK f : ParsesAs(f, p, n, K)
    BY ParsedIs
  <1> HIDE DEF u
  <1>3. PICK g : ParsesAs(g, u, n + 1, K)
    BY <1>1, ParsedIs
  <1> HIDE DEF n
  <1>4. f[0] = g[0] /\ \A i \in 1 .. n : f[i - 1] = g[i - 1] => f[i] = g[i]
    <2>1. \A i \in 1 .. n : i \in 1 .. n + 1
      BY <1>1
    <2>2. QED
      BY <1>1, <1>2, <1>3, <2>1 DEF ParsesAs
  <1>5. f[n] = g[n]
    BY <1>1, <1>4, Alike
  <1>6. g[n + 1] = PathStep(g[n], t)
    <2>1. n + 1 \in 1 .. n + 1 /\ (n + 1) - 1 = n
      BY <1>1
    <2>2. QED
      BY <1>1, <1>3, <2>1 DEF ParsesAs
  <1>7. f[n] \in Parses(K)
    BY <1>1, <1>2 DEF ParsesAs
  <1>8. QED
    BY <1>2, <1>3, <1>5, <1>6, <1>7 DEF ParsesAs, u

LEMMA ParsedOfNone ==
    ASSUME NEW K
    PROVE  Parsed(<<>>) = Start
  <1> DEFINE p == <<>>
  <1>1. p \in Seq(K) /\ Len(p) = 0
    OBVIOUS
  <1> HIDE DEF p
  <1>2. PICK f : ParsesAs(f, p, 0, K)
    BY <1>1, ParsedIs
  <1>3. QED
    BY <1>2 DEF ParsesAs, p

LEMMA PathIs ==
    ASSUME NEW K, NEW p \in Seq(K)
    PROVE  parse_path(p) \in Seq(Segments(K))
  <1>1. PICK f : ParsesAs(f, p, Len(p), K)
    BY ParsedIs
  <1>2. Parsed(p) \in Parses(K)
    BY <1>1 DEF ParsesAs
  <1>3. Flushed(Parsed(p)) \in Parses(K)
    BY <1>2, FlushedIs
  <1>4. QED
    BY <1>3 DEF parse_path, Parses

\* The words of a path that is written out
PathWords(K) == Naming(K) \cup {".", "[", "]", "any"} \cup DOMAIN IndexOf

\* One word behind a path, two, and three
LEMMA BehindOne ==
    ASSUME NEW K, NEW p \in Seq(K), NEW a \in K
    PROVE  p \o (<<>> \o <<a>>) = Append(p, a) /\ Append(p, a) \in Seq(K)
  <1>1. <<>> \o <<a>> = <<a>>
    OBVIOUS
  <1>2. QED
    BY <1>1, AppendProperties, AppendIsConcat

LEMMA BehindTwo ==
    ASSUME NEW K, NEW p \in Seq(K), NEW a \in K, NEW b \in K
    PROVE  /\ p \o (<<a>> \o <<b>>) = Append(Append(p, a), b)
           /\ Append(p, a) \in Seq(K) /\ Append(Append(p, a), b) \in Seq(K)
  <1> DEFINE A == Append(p, a)
             B == Append(A, b)
  <1>1. A \in Seq(K) /\ A = p \o <<a>>
    BY AppendProperties, AppendIsConcat
  <1>2. B \in Seq(K) /\ B = A \o <<b>>
    <2> HIDE DEF A
    <2>1. QED
      BY <1>1, AppendProperties, AppendIsConcat
  <1> HIDE DEF A, B
  <1>3. <<a>> \in Seq(K) /\ <<b>> \in Seq(K)
    OBVIOUS
  <1>4. B = p \o (<<a>> \o <<b>>)
    BY <1>1, <1>2, <1>3, ConcatAssociative
  <1>5. QED
    BY <1>1, <1>2, <1>4 DEF A, B

LEMMA BehindThree ==
    ASSUME NEW K, NEW p \in Seq(K), NEW a \in K, NEW b \in K, NEW c \in K
    PROVE  /\ p \o <<a, b, c>> = Append(Append(Append(p, a), b), c)
           /\ Append(Append(Append(p, a), b), c) \in Seq(K)
  <1> DEFINE x == Append(Append(Append(p, a), b), c)
             t == <<a, b, c>>
             y == p \o t
             n == Len(p)
  <1>1. n \in Nat /\ t \in Seq(K) /\ Len(t) = 3 /\ t[1] = a /\ t[2] = b /\ t[3] = c
    OBVIOUS
  <1>2. /\ x \in Seq(K) /\ Len(x) = n + 3 /\ x[n + 1] = a /\ x[n + 2] = b /\ x[n + 3] = c
        /\ \A i \in 1 .. n : x[i] = p[i]
    OBVIOUS
  <1> HIDE DEF t
  <1>3. y \in Seq(K) /\ IsJoined(y, p, t)
    BY <1>1, Joined
  <1> HIDE DEF y
  <1>4. Len(y) = n + 3 /\ (\A i \in 1 .. n : y[i] = p[i]) /\ \A i \in 1 .. 3 : y[n + i] = t[i]
    BY <1>1, <1>3 DEF IsJoined
  <1>5. y[n + 1] = a /\ y[n + 2] = b /\ y[n + 3] = c
    BY <1>1, <1>4
  <1> HIDE DEF x, n
  <1>6. \A i \in 1 .. n + 3 : i \in 1 .. n \/ i = n + 1 \/ i = n + 2 \/ i = n + 3
    BY <1>1
  <1>7. \A i \in 1 .. n + 3 : x[i] = y[i]
    BY <1>2, <1>4, <1>5, <1>6
  <1>8. x = y
    BY <1>2, <1>3, <1>4, <1>7, SeqEqual
  <1>9. QED
    BY <1>2, <1>8 DEF x, y, t

\* The three kinds of segments
LEMMA SegmentIs ==
    ASSUME NEW K, NEW s \in Segments(K)
    PROVE  \/ \E w \in Naming(K) : s = <<"key", w>>
           \/ \E w \in DOMAIN IndexOf : s = <<"index", IndexOf[w]>>
           \/ s = <<"any">>
  <1>1. CASE s \in {"key"} \X Naming(K)
    BY <1>1
  <1>2. CASE s \in {"index"} \X {IndexOf[w] : w \in DOMAIN IndexOf}
    BY <1>2
  <1>3. QED
    BY <1>1, <1>2 DEF Segments

\* A segment that is written behind a path is parsed as that segment.
LEMMA SegmentIsParsed ==
    ASSUME NEW K, NEW s \in Segments(K), NEW p \in Seq(PathWords(K))
    PROVE  /\ p \o Written(p, s) \in Seq(PathWords(K))
           /\ parse_path(p \o Written(p, s)) = Append(parse_path(p), s)
  <1> DEFINE W == PathWords(K)
             P == Parsed(p)
             u == p \o Written(p, s)
  <1>1. {".", "[", "]", "any"} \subseteq W /\ Naming(K) \subseteq W /\ DOMAIN IndexOf \subseteq W
    BY DEF PathWords
  <1> HIDE DEF W
  <1>2. p \in Seq(W)
    BY DEF W
  <1>3. P \in Parses(W)
    <2>1. PICK f : ParsesAs(f, p, Len(p), W)
      BY <1>2, ParsedIs
    <2>2. QED
      BY <2>1 DEF ParsesAs
  <1>4. Flushed(P) \in Parses(W) /\ Flushed(P).word = "" /\ parse_path(p) = Flushed(P).segs
    BY <1>3, FlushedIs DEF parse_path
  <1>5. ASSUME NEW w \in W, w \notin {".", "[", "]"}, NEW q \in Seq(W), Parsed(q) = Flushed(P)
        PROVE  /\ Parsed(Append(q, w)) \in Parses(W)
               /\ Parsed(Append(q, w)).segs = parse_path(p) /\ Parsed(Append(q, w)).word = w
    <2>1. Parsed(Append(q, w)) = PathStep(Flushed(P), w)
      BY <1>5, ParsedAppend
    <2> DEFINE F == Flushed(P)
               R == PathStep(F, w)
    <2>2. F \in Parses(W) /\ F.segs = parse_path(p)
      BY <1>4
    <2> HIDE DEF F
    <2>3. R \in Parses(W) /\ R.segs = F.segs /\ R.word = w
      BY <1>5, <2>2, PathStepIs
    <2> HIDE DEF R
    <2>4. Parsed(Append(q, w)) = R
      BY <2>1 DEF R, F
    <2>5. QED
      BY <2>2, <2>3, <2>4
  <1>6. ASSUME NEW w \in Naming(K), s = <<"key", w>>
        PROVE  u \in Seq(W) /\ parse_path(u) = Append(parse_path(p), s)
    <2>1. w \in W /\ w \notin {"", ".", "[", "]"} /\ s[1] = "key" /\ s[2] = w
      BY <1>1, <1>6 DEF Naming
    <2>2. ASSUME NEW q \in Seq(W), Parsed(q) = Flushed(P)
          PROVE  parse_path(Append(q, w)) = Append(parse_path(p), s)
      <3> DEFINE R == Parsed(Append(q, w))
      <3>1. R \in Parses(W) /\ R.segs = parse_path(p) /\ R.word = w
        BY <1>5, <2>1, <2>2
      <3>2. parse_path(Append(q, w)) = Flushed(R).segs
        BY DEF parse_path
      <3> HIDE DEF R
      <3>3. Flushed(R).segs = Append(R.segs, <<"key", R.word>>)
        BY <2>1, <3>1, FlushedIs
      <3>4. QED
        BY <1>6, <3>1, <3>2, <3>3
    <2>3. CASE p = <<>>
      <3>1. u = Append(p, w) /\ u \in Seq(W)
        <4>1. Written(p, s) = <<>> \o <<w>>
          BY <2>1, <2>3 DEF Written
        <4>2. p \o (<<>> \o <<w>>) = Append(p, w) /\ Append(p, w) \in Seq(W)
          BY <1>2, <2>1, BehindOne
        <4>3. QED
          BY <4>1, <4>2, Zenon
      <3>2. P = Start
        BY <2>3, ParsedOfNone
      <3> HIDE DEF P
      <3>3. P.word = ""
        BY <3>2 DEF Start
      <3>4. Flushed(P) = P
        BY <1>3, <3>3, FlushedIs
      <3>5. QED
        BY <1>2, <2>2, <3>1, <3>4 DEF P
    <2>4. CASE p # <<>>
      <3> DEFINE q == Append(p, ".")
      <3>1. u = Append(q, w) /\ u \in Seq(W) /\ q \in Seq(W)
        <4>1. Written(p, s) = <<".">> \o <<w>>
          BY <2>1, <2>4 DEF Written
        <4>2. "." \in W
          BY <1>1
        <4>3. ASSUME NEW dot \in W
              PROVE  /\ p \o (<<dot>> \o <<w>>) = Append(Append(p, dot), w)
                     /\ Append(p, dot) \in Seq(W) /\ Append(Append(p, dot), w) \in Seq(W)
          <5>1. w \in W
            BY <2>1
          <5> HIDE DEF q, u, P
          <5>2. QED
            BY <1>2, <5>1, BehindTwo
        <4>4. QED
          BY <4>1, <4>2, <4>3, Zenon
      <3>2. Parsed(q) = PathStep(P, ".")
        BY <1>1, <1>2, ParsedAppend
      <3>3. Parsed(q) = Flushed(P)
        BY <1>3, <3>2, PathStepIs
      <3> HIDE DEF q, u
      <3>4. QED
        BY <2>2, <3>1, <3>3 DEF u
    <2>5. QED
      BY <2>3, <2>4
  <1>7. ASSUME NEW w \in W, w \notin {".", "[", "]"}, u = p \o <<"[", w, "]">>,
               \/ w = "any" /\ s = <<"any">>
               \/ w \in DOMAIN IndexOf /\ s = <<"index", IndexOf[w]>>
        PROVE  u \in Seq(W) /\ parse_path(u) = Append(parse_path(p), s)
    <2> DEFINE q == Append(p, "[")
               r == Append(q, w)
               t == Append(r, "]")
    <2>1. u = t /\ q \in Seq(W) /\ r \in Seq(W) /\ t \in Seq(W)
      <3>1. "[" \in W /\ "]" \in W
        BY <1>1
      <3>2. q \in Seq(W) /\ r \in Seq(W)
        BY <1>2, <1>7, <3>1, BehindTwo
      <3>3. p \o <<"[", w, "]">> = t /\ t \in Seq(W)
        BY <1>2, <1>7, <3>1, BehindThree
      <3>4. QED
        BY <1>7, <3>2, <3>3
    <2>2. Parsed(q) = PathStep(P, "[")
      BY <1>1, <1>2, ParsedAppend
    <2>3. Parsed(q) = Flushed(P)
      BY <1>3, <2>2, PathStepIs
    <2> HIDE DEF q, u
    <2>4. Parsed(r) \in Parses(W) /\ Parsed(r).segs = parse_path(p) /\ Parsed(r).word = w
      BY <1>5, <1>7, <2>1, <2>3
    <2> HIDE DEF r
    <2>5. Parsed(t) = PathStep(Parsed(r), "]")
      BY <1>1, <2>1, ParsedAppend
    <2> DEFINE R == Parsed(r)
               T == Parsed(t)
    <2> HIDE DEF t, R, T
    <2>6. T = [segs |-> Append(R.segs, s), word |-> ""]
      <3>1. CASE w = "any" /\ s = <<"any">>
        <4>1. PathStep(R, "]") = [segs |-> Append(R.segs, <<"any">>), word |-> ""]
          BY <2>4, <3>1, PathStepIs DEF R
        <4>2. QED
          BY <2>5, <3>1, <4>1, Zenon DEF R, T
      <3>2. CASE w \in DOMAIN IndexOf /\ s = <<"index", IndexOf[w]>>
        <4>1. R.word = w
          BY <2>4 DEF R
        <4>2. PathStep(R, "]") =
                 [segs |-> Append(R.segs, <<"index", IndexOf[R.word]>>), word |-> ""]
          <5>1. R \in Parses(W) /\ R.word \in DOMAIN IndexOf
            BY <2>4, <3>2, <4>1 DEF R
          <5>2. QED
            BY <5>1, PathStepIs
        <4>3. QED
          BY <2>5, <3>2, <4>1, <4>2, Zenon DEF R, T
      <3>3. QED
        BY <1>7, <3>1, <3>2
    <2>7. T \in Parses(W)
      <3>1. "]" \in W /\ R \in Parses(W)
        BY <1>1, <2>4 DEF R
      <3>2. PathStep(R, "]") \in Parses(W)
        BY <3>1, PathStepIs
      <3>3. QED
        BY <2>5, <3>2, Zenon DEF R, T
    <2>8. T.word = "" /\ T.segs = Append(parse_path(p), s)
      <3>1. R.segs = parse_path(p)
        BY <2>4 DEF R
      <3>2. QED
        BY <2>6, <3>1
    <2>9. Flushed(T) = T
      BY <2>7, <2>8, FlushedIs
    <2>10. QED
      BY <2>1, <2>8, <2>9 DEF parse_path, T
  <1>8. ASSUME NEW y \in DOMAIN IndexOf, s = <<"index", IndexOf[y]>>
        PROVE  u \in Seq(W) /\ parse_path(u) = Append(parse_path(p), s)
    <2> DEFINE w == CHOOSE x \in DOMAIN IndexOf : IndexOf[x] = s[2]
    <2>1. s[1] = "index" /\ s[2] = IndexOf[y]
      BY <1>8
    <2>2. w \in DOMAIN IndexOf /\ IndexOf[w] = s[2]
      BY <2>1
    <2>3. Written(p, s) = <<"[", w, "]">>
      BY <2>1 DEF Written
    <2> HIDE DEF w
    <2>4. w \in W /\ w \notin {".", "[", "]"} /\ s = <<"index", IndexOf[w]>>
      BY <1>1, <1>8, <2>1, <2>2, EvalAssumption DEF EvalAssumption
    <2>5. u = p \o <<"[", w, "]">>
      BY <2>3
    <2> HIDE DEF u
    <2>6. QED
      BY <1>7, <2>2, <2>4, <2>5
  <1>9. ASSUME s = <<"any">>
        PROVE  u \in Seq(W) /\ parse_path(u) = Append(parse_path(p), s)
    <2>1. Written(p, s) = <<"[", "any", "]">>
      BY <1>9 DEF Written
    <2>2. u = p \o <<"[", "any", "]">>
      BY <2>1
    <2> HIDE DEF u
    <2>3. "any" \in W /\ "any" \notin {".", "[", "]"}
      BY <1>1
    <2>4. QED
      BY <1>7, <1>9, <2>2, <2>3
  <1> HIDE DEF u
  <1>10. u \in Seq(W) /\ parse_path(u) = Append(parse_path(p), s)
    BY <1>6, <1>8, <1>9, SegmentIs
  <1>11. QED
    BY <1>10 DEF u, W

WritesAs(f, q, n, W) ==
    /\ f \in [0 .. n -> Seq(W)] /\ f[0] = <<>>
    /\ \A i \in 1 .. n : f[i] = f[i - 1] \o Written(f[i - 1], q[i])
    /\ rebuild_path(q) = f[n]

LEMMA RebuiltIs ==
    ASSUME NEW K, NEW q \in Seq(Segments(K))
    PROVE  \E f : WritesAs(f, q, Len(q), PathWords(K))
  <1> DEFINE n == Len(q)
             A == Seq(PathWords(K))
             Then(i, p) == p \o Written(p, q[i])
             G == [i \in 1 .. n |-> [p \in A |-> Then(i, p)]]
             Step(f) == [i \in 0 .. n |-> IF i = 0 THEN <<>> ELSE Then(i, f[i - 1])]
             c == CHOOSE f : f = Step(f)
  <1>1. n \in Nat /\ <<>> \in A
    OBVIOUS
  <1>2. rebuild_path(q) = c[n]
    BY Zenon DEF rebuild_path
  <1>3. \A i \in 1 .. n : \A p \in A : Then(i, p) \in A
    <2>1. \A i \in 1 .. n : q[i] \in Segments(K)
      OBVIOUS
    <2>2. QED
      BY <2>1, SegmentIsParsed
  <1>4. \A i, p : Then(i, p) = p \o Written(p, q[i])
    OBVIOUS
  <1> HIDE DEF n, A, Then
  <1>5. G \in [1 .. n -> [A -> A]]
    BY <1>3
  <1>6. PICK f : Iterated(f, n, A, <<>>, G)
    <2> HIDE DEF G
    <2>1. QED
      BY <1>1, <1>5, Iterates
  <1>7. \A i \in 1 .. n : \A p \in A : G[i][p] = Then(i, p)
    OBVIOUS
  <1> HIDE DEF G
  <1>8. f = Step(f)
    <2>1. f \in [0 .. n -> A] /\ f[0] = <<>> /\ \A i \in 1 .. n : f[i] = G[i][f[i - 1]]
      BY <1>6 DEF Iterated
    <2>2. \A i \in 1 .. n : f[i - 1] \in A
      BY <1>1, <2>1
    <2>3. \A i \in 1 .. n : f[i] = Then(i, f[i - 1])
      BY <1>7, <2>1, <2>2
    <2>4. \A i \in 0 .. n : i = 0 \/ i \in 1 .. n
      BY <1>1
    <2>5. QED
      BY <2>1, <2>3, <2>4
  <1>9. c = Step(c)
    <2> HIDE DEF Step
    <2>1. QED
      BY <1>8, Zenon
  <1> HIDE DEF c
  <1>10. c = [i \in 0 .. n |-> c[i]] /\ c[0] = <<>> /\ \A i \in 1 .. n : c[i] = Then(i, c[i - 1])
    <2>1. \A i \in 1 .. n : i \in 0 .. n /\ i # 0
      BY <1>1
    <2>2. 0 \in 0 .. n
      BY <1>1
    <2>3. QED
      BY <1>9, <2>1, <2>2
  <1>11. Iterated(c, n, A, <<>>, G)
    <2>1. \A i \in 1 .. n : c[i - 1] \in A => c[i] = G[i][c[i - 1]]
      BY <1>7, <1>10
    <2>2. QED
      BY <1>1, <1>5, <1>10, <2>1, Unrolled
  <1>12. WritesAs(c, q, n, PathWords(K))
    BY <1>2, <1>4, <1>10, <1>11 DEF WritesAs, Iterated, A
  <1>13. QED
    BY <1>12 DEF n

\* What is written out is parsed as what it was.
LEMMA RoundTrip ==
    ASSUME NEW K, NEW q \in Seq(Segments(K))
    PROVE  rebuild_path(q) \in Seq(PathWords(K)) /\ parse_path(rebuild_path(q)) = q
  <1> DEFINE n == Len(q)
             W == PathWords(K)
             S == Segments(K)
             g == [i \in 0 .. n |-> SubSeq(q, 1, i)]
  <1>1. PICK f : WritesAs(f, q, n, W)
    BY RebuiltIs
  <1> DEFINE h == [i \in 0 .. n |-> parse_path(f[i])]
  <1>2. n \in Nat /\ \A i \in 1 .. n : q[i] \in S
    OBVIOUS
  <1>3. \A i \in 1 .. n : SubSeq(q, 1, i) = Append(SubSeq(q, 1, i - 1), q[i])
    <2>1. TAKE i \in 1 .. n
    <2> DEFINE a == SubSeq(q, 1, i)
               b == SubSeq(q, 1, i - 1)
               e == Append(b, q[i])
    <2>2. i \in Nat /\ i >= 1 /\ i <= n /\ i - 1 \in Nat
      BY <1>2
    <2> HIDE DEF S
    <2>3. a \in Seq(S) /\ Len(a) = i /\ \A k \in 1 .. i : a[k] = q[k]
      BY <1>2, <2>2
    <2>4. b \in Seq(S) /\ Len(b) = i - 1 /\ \A k \in 1 .. i - 1 : b[k] = q[k]
      BY <1>2, <2>2
    <2> HIDE DEF b, a
    <2>5. e \in Seq(S) /\ Len(e) = i /\ e[i] = q[i] /\ \A k \in 1 .. i - 1 : e[k] = b[k]
      BY <1>2, <2>2, <2>4
    <2> HIDE DEF e
    <2>6. \A k \in 1 .. i : k = i \/ k \in 1 .. i - 1
      BY <2>2
    <2>7. \A k \in 1 .. i : e[k] = a[k]
      BY <2>3, <2>4, <2>5, <2>6
    <2>8. a = e
      BY <2>3, <2>5, <2>7, SeqEqual
    <2>9. QED
      BY <2>8 DEF a, b, e
  <1>4. SubSeq(q, 1, n) = q /\ SubSeq(q, 1, 0) = <<>>
    OBVIOUS
  <1>5. f \in [0 .. n -> Seq(W)] /\ f[0] = <<>> /\ rebuild_path(q) = f[n]
    BY <1>1 DEF WritesAs
  <1> HIDE DEF n, W, S
  <1>6. \A i \in 1 .. n : i - 1 \in 0 .. n /\ i \in 0 .. n
    BY <1>2
  <1>7. \A i \in 1 .. n : parse_path(f[i]) = Append(parse_path(f[i - 1]), q[i])
    <2>1. TAKE i \in 1 .. n
    <2>2. q[i] \in Segments(K) /\ f[i - 1] \in Seq(PathWords(K))
      BY <1>2, <1>5, <1>6 DEF S, W
    <2>3. f[i] = f[i - 1] \o Written(f[i - 1], q[i])
      BY <1>1 DEF WritesAs
    <2>4. QED
      BY <2>2, <2>3, SegmentIsParsed
  <1>8. parse_path(<<>>) = <<>>
    <2>1. Parsed(<<>>) = Start
      BY ParsedOfNone
    <2>2. Flushed(Start) = Start
      BY DEF Flushed, Start
    <2>3. Start.segs = <<>>
      BY DEF Start
    <2>4. QED
      BY <2>1, <2>2, <2>3, Zenon DEF parse_path
  <1>9. h[n] = g[n]
    <2>1. h[0] = g[0] /\ \A i \in 1 .. n : h[i - 1] = g[i - 1] => h[i] = g[i]
      <3>1. 0 \in 0 .. n
        BY <1>2
      <3>2. \A i \in 0 .. n : h[i] = parse_path(f[i]) /\ g[i] = SubSeq(q, 1, i)
        OBVIOUS
      <3> HIDE DEF h, g
      <3>3. h[0] = g[0]
        BY <1>4, <1>5, <1>8, <3>1, <3>2, Zenon
      <3>4. \A i \in 1 .. n : h[i] = Append(h[i - 1], q[i]) /\ g[i] = Append(g[i - 1], q[i])
        BY <1>3, <1>6, <1>7, <3>2
      <3>5. QED
        BY <3>3, <3>4
    <2> HIDE DEF h, g
    <2>2. QED
      BY <1>2, <2>1, Alike
  <1>10. parse_path(f[n]) = SubSeq(q, 1, n)
    BY <1>2, <1>9
  <1>11. QED
    BY <1>2, <1>4, <1>5, <1>10 DEF W

----------------------------------------------------------------------------
(* What a path leads to                                                    *)

LEMMA GetIs ==
    ASSUME NEW v \in Values, NEW s
    PROVE  Get(v, s) \in SUBSET Values
  <1>1. /\ v[1] = "arr" => v[2] \in Seq(Values)
        /\ v[1] = "obj" => \A k \in DOMAIN v[2] : v[2][k] \in Values
    BY EvalAssumption DEF EvalAssumption
  <1>2. v[1] = "arr" => \A k \in DOMAIN v[2] : v[2][k] \in Values
    BY <1>1
  <1>3. QED
    BY <1>1, <1>2 DEF Get

LEMMA AllGot ==
    ASSUME NEW P \in SUBSET Values, NEW s
    PROVE  UNION {Get(v, s) : v \in P} \in SUBSET Values
  BY GetIs

ReachesAs(f, root, q, n) ==
    /\ f \in [0 .. n -> SUBSET Values] /\ f[0] = {root}
    /\ \A i \in 1 .. n : f[i] = UNION {Get(v, q[i]) : v \in f[i - 1]}
    /\ Reached(root, q) = f[n]

LEMMA ReachedIs ==
    ASSUME NEW root \in Values, NEW S, NEW q \in Seq(S)
    PROVE  \E f : ReachesAs(f, root, q, Len(q))
  <1> DEFINE n == Len(q)
             A == SUBSET Values
             Then(i, p) == UNION {Get(v, q[i]) : v \in p}
             G == [i \in 1 .. n |-> [p \in A |-> Then(i, p)]]
             Step(f) == [i \in 0 .. n |-> IF i = 0 THEN {root} ELSE Then(i, f[i - 1])]
             c == CHOOSE f : f = Step(f)
  <1>1. n \in Nat /\ {root} \in A
    OBVIOUS
  <1>2. Reached(root, q) = c[n]
    BY Zenon DEF Reached
  <1>3. \A i \in 1 .. n : \A p \in A : Then(i, p) \in A
    BY AllGot
  <1>4. \A i, p : Then(i, p) = UNION {Get(v, q[i]) : v \in p}
    OBVIOUS
  <1> HIDE DEF n, A, Then
  <1>5. G \in [1 .. n -> [A -> A]]
    BY <1>3
  <1>6. PICK f : Iterated(f, n, A, {root}, G)
    <2> HIDE DEF G
    <2>1. QED
      BY <1>1, <1>5, Iterates
  <1>7. \A i \in 1 .. n : \A p \in A : G[i][p] = Then(i, p)
    OBVIOUS
  <1> HIDE DEF G
  <1>8. f = Step(f)
    <2>1. f \in [0 .. n -> A] /\ f[0] = {root} /\ \A i \in 1 .. n : f[i] = G[i][f[i - 1]]
      BY <1>6 DEF Iterated
    <2>2. \A i \in 1 .. n : f[i - 1] \in A
      BY <1>1, <2>1
    <2>3. \A i \in 1 .. n : f[i] = Then(i, f[i - 1])
      BY <1>7, <2>1, <2>2
    <2>4. \A i \in 0 .. n : i = 0 \/ i \in 1 .. n
      BY <1>1
    <2>5. QED
      BY <2>1, <2>3, <2>4
  <1>9. c = Step(c)
    <2> HIDE DEF Step
    <2>1. QED
      BY <1>8, Zenon
  <1> HIDE DEF c
  <1>10. c = [i \in 0 .. n |-> c[i]] /\ c[0] = {root} /\ \A i \in 1 .. n : c[i] = Then(i, c[i - 1])
    <2>1. \A i \in 1 .. n : i \in 0 .. n /\ i # 0
      BY <1>1
    <2>2. 0 \in 0 .. n
      BY <1>1
    <2>3. QED
      BY <1>9, <2>1, <2>2
  <1>11. Iterated(c, n, A, {root}, G)
    <2>1. \A i \in 1 .. n : c[i - 1] \in A => c[i] = G[i][c[i - 1]]
      BY <1>7, <1>10
    <2>2. QED
      BY <1>1, <1>5, <1>10, <2>1, Unrolled
  <1>12. ReachesAs(c, root, q, n)
    BY <1>2, <1>4, <1>10, <1>11 DEF ReachesAs, Iterated, A
  <1>13. QED
    BY <1>12 DEF n

\* How far a traversal is
Walks == [done : BOOLEAN, at : SUBSET Values]
AtRoot(root) == [done |-> FALSE, at |-> {root}]

LEMMA FollowIs ==
    ASSUME NEW r \in Walks, NEW s, NEW d
    PROVE  Follow(r, s, d) \in Walks
  <1> DEFINE P == UNION {Get(v, s) : v \in r.at}
  <1>1. r.at \in SUBSET Values
    BY DEF Walks
  <1>2. P \in SUBSET Values
    BY <1>1, AllGot
  <1> HIDE DEF P
  <1>3. /\ [done |-> FALSE, at |-> P] \in Walks /\ [done |-> TRUE, at |-> {}] \in Walks
        /\ [r EXCEPT !.done = TRUE] \in Walks
    BY <1>2 DEF Walks
  <1>4. QED
    BY <1>3 DEF Follow, P

ResolvesAs(f, root, path, q, n) ==
    /\ f \in [0 .. n -> Walks] /\ f[0] = AtRoot(root)
    /\ \A i \in 1 .. n : f[i] = Follow(f[i - 1], q[i], i)
    /\ resolve_field(root, path) = f[n].at

LEMMA ResolvedIs ==
    ASSUME NEW root \in Values, NEW K, NEW path \in Seq(K)
    PROVE  \E f : ResolvesAs(f, root, path, parse_path(path), Len(parse_path(path)))
  <1> DEFINE n == Len(parse_path(path))
             A == Walks
             Then(i, p) == Follow(p, parse_path(path)[i], i)
             G == [i \in 1 .. n |-> [p \in A |-> Then(i, p)]]
             Step(f) == [i \in 0 .. n |-> IF i = 0 THEN AtRoot(root) ELSE Then(i, f[i - 1])]
             c == CHOOSE f : f = Step(f)
  <1>1. n \in Nat /\ AtRoot(root) \in A
    <2>1. parse_path(path) \in Seq(Segments(K))
      BY PathIs
    <2>2. {root} \in SUBSET Values
      OBVIOUS
    <2>3. AtRoot(root) \in Walks
      BY <2>2 DEF Walks, AtRoot
    <2>4. QED
      BY <2>1, <2>3
  <1>2. resolve_field(root, path) = c[n].at
    BY Zenon DEF resolve_field, AtRoot
  <1>3. \A i \in 1 .. n : \A p \in A : Then(i, p) \in A
    BY FollowIs
  <1>4. \A i, p : Then(i, p) = Follow(p, parse_path(path)[i], i)
    OBVIOUS
  <1> HIDE DEF n, A, Then
  <1>5. G \in [1 .. n -> [A -> A]]
    BY <1>3
  <1>6. PICK f : Iterated(f, n, A, AtRoot(root), G)
    <2> HIDE DEF G
    <2>1. QED
      BY <1>1, <1>5, Iterates
  <1>7. \A i \in 1 .. n : \A p \in A : G[i][p] = Then(i, p)
    OBVIOUS
  <1> HIDE DEF G
  <1>8. f = Step(f)
    <2>1. f \in [0 .. n -> A] /\ f[0] = AtRoot(root) /\ \A i \in 1 .. n : f[i] = G[i][f[i - 1]]
      BY <1>6 DEF Iterated
    <2>2. \A i \in 1 .. n : f[i - 1] \in A
      BY <1>1, <2>1
    <2>3. \A i \in 1 .. n : f[i] = Then(i, f[i - 1])
      BY <1>7, <2>1, <2>2
    <2>4. \A i \in 0 .. n : i = 0 \/ i \in 1 .. n
      BY <1>1
    <2>5. QED
      BY <2>1, <2>3, <2>4
  <1>9. c = Step(c)
    <2> HIDE DEF Step
    <2>1. QED
      BY <1>8, Zenon
  <1> HIDE DEF c
  <1>10. /\ c = [i \in 0 .. n |-> c[i]] /\ c[0] = AtRoot(root)
         /\ \A i \in 1 .. n : c[i] = Then(i, c[i - 1])
    <2>1. \A i \in 1 .. n : i \in 0 .. n /\ i # 0
      BY <1>1
    <2>2. 0 \in 0 .. n
      BY <1>1
    <2>3. QED
      BY <1>9, <2>1, <2>2
  <1>11. Iterated(c, n, A, AtRoot(root), G)
    <2>1. \A i \in 1 .. n : c[i - 1] \in A => c[i] = G[i][c[i - 1]]
      BY <1>7, <1>10
    <2>2. QED
      BY <1>1, <1>5, <1>10, <2>1, Unrolled
  <1>12. ResolvesAs(c, root, path, parse_path(path), n)
    BY <1>2, <1>4, <1>10, <1>11 DEF ResolvesAs, Iterated, A
  <1>13. QED
    BY <1>12 DEF n

\* The first of some places, and the first [any]
LEMMA FirstIs ==
    ASSUME NEW n \in Nat, NEW S, S \subseteq 1 .. n
    PROVE  \/ First(S) = 0 /\ S = {}
           \/ First(S) \in S /\ First(S) \in 1 .. n /\ \A x \in 1 .. First(S) - 1 : x \notin S
  <1>1. CASE S = {}
    BY <1>1 DEF First
  <1>2. CASE S # {}
    <2>1. S \subseteq Nat
      OBVIOUS
    <2>2. Min(S) \in S /\ \A x \in S : Min(S) <= x
      BY <1>2, <2>1, MinOfNaturals
    <2>3. First(S) = Min(S)
      BY <1>2 DEF First
    <2> DEFINE j == Min(S)
    <2> HIDE DEF j
    <2>4. j \in S /\ j \in 1 .. n /\ \A x \in S : j <= x
      BY <2>2 DEF j
    <2>5. \A x \in 1 .. j - 1 : x \notin S
      BY <2>4
    <2>6. QED
      BY <2>3, <2>4, <2>5 DEF j
  <1>3. QED
    BY <1>1, <1>2

\* What a path leads to: the part in front of the first [any], or all of it
UntilAny(q) == IF FirstAny(q) = 0 THEN q ELSE SubSeq(q, 1, FirstAny(q) - 1)

LEMMA FirstAnyIs ==
    ASSUME NEW S, NEW q \in Seq(S)
    PROVE  /\ \/ FirstAny(q) = 0 /\ \A i \in 1 .. Len(q) : q[i][1] # "any"
              \/ /\ FirstAny(q) \in 1 .. Len(q) /\ q[FirstAny(q)][1] = "any"
                 /\ \A i \in 1 .. FirstAny(q) - 1 : q[i][1] # "any"
           /\ UntilAny(q) \in Seq(S)
           /\ FirstAny(q) = 0 => Len(UntilAny(q)) = Len(q)
           /\ FirstAny(q) # 0 => Len(UntilAny(q)) = FirstAny(q) - 1
           /\ \A i \in 1 .. Len(UntilAny(q)) : UntilAny(q)[i] = q[i]
  <1> DEFINE n == Len(q)
             T == {i \in DOMAIN q : q[i][1] = "any"}
             j == FirstAny(q)
             r == SubSeq(q, 1, j - 1)
  <1>1. n \in Nat /\ DOMAIN q = 1 .. n /\ \A i \in 1 .. n : q[i] \in S
    OBVIOUS
  <1>2. j = First(T)
    BY DEF FirstAny
  <1>3. \A i \in 1 .. n : i \in T <=> q[i][1] = "any"
    BY <1>1
  <1>4. T \subseteq 1 .. n
    BY <1>1
  <1> HIDE DEF T, n, j
  <1>5. \/ j = 0 /\ T = {}
        \/ j \in T /\ j \in 1 .. n /\ \A x \in 1 .. j - 1 : x \notin T
    BY <1>1, <1>2, <1>4, FirstIs
  <1>6. CASE j = 0 /\ T = {}
    <2>1. UntilAny(q) = q
      BY <1>6 DEF UntilAny, j
    <2>2. QED
      BY <1>3, <1>6, <2>1 DEF n, j
  <1>7. CASE j \in T /\ j \in 1 .. n /\ \A x \in 1 .. j - 1 : x \notin T
    <2>1. j # 0 /\ j - 1 \in Nat /\ j - 1 <= n /\ \A x \in 1 .. j - 1 : x \in 1 .. n
      BY <1>1, <1>7
    <2>2. UntilAny(q) = r
      BY <2>1 DEF UntilAny, j
    <2>3. r \in Seq(S) /\ Len(r) = j - 1 /\ \A i \in 1 .. j - 1 : r[i] = q[i]
      BY <1>1, <2>1 DEF n
    <2> HIDE DEF r
    <2>4. q[j][1] = "any" /\ \A x \in 1 .. j - 1 : q[x][1] # "any"
      BY <1>3, <1>7, <2>1
    <2>5. QED
      BY <1>7, <2>1, <2>2, <2>3, <2>4 DEF n, j
  <1>8. QED
    BY <1>5, <1>6, <1>7

\* Following a path: a value reached is given up behind the bound on the
\* depth, and kept from the first [any] on.
Stops(r, at) == r = [done |-> TRUE, at |-> at]
GoesOn(r, at) == r = [done |-> FALSE, at |-> at]

LEMMA FollowGoes ==
    ASSUME NEW at, NEW r, GoesOn(r, at), NEW s, NEW d
    PROVE  /\ d > MaxJsonDepth => Stops(Follow(r, s, d), {})
           /\ ~(d > MaxJsonDepth) /\ s[1] = "any" => Stops(Follow(r, s, d), at)
           /\ ~(d > MaxJsonDepth) /\ s[1] # "any" =>
                 GoesOn(Follow(r, s, d), UNION {Get(v, s) : v \in at})
  BY DEF Follow, GoesOn, Stops

LEMMA FollowStops ==
    ASSUME NEW at, NEW r, Stops(r, at), NEW s, NEW d
    PROVE  Stops(Follow(r, s, d), at)
  BY DEF Follow, Stops

LEMMA ResolveIs ==
    ASSUME NEW root \in Values, NEW K, NEW path \in Seq(K),
           NEW q, q = parse_path(path), NEW e, e = UntilAny(q)
    PROVE  resolve_field(root, path) =
              IF Len(e) > MaxJsonDepth \/ FirstAny(q) > MaxJsonDepth THEN {}
              ELSE Reached(root, e)
  <1> DEFINE n == Len(q)
             m == Len(e)
             j == FirstAny(q)
             S == Segments(K)
             M == MaxJsonDepth
  <1>1. q \in Seq(S)
    BY PathIs
  <1> HIDE DEF S
  <1>2. /\ \/ j = 0 /\ (\A i \in 1 .. n : q[i][1] # "any") /\ m = n
           \/ /\ j \in 1 .. n /\ q[j][1] = "any" /\ m = j - 1
              /\ \A i \in 1 .. j - 1 : q[i][1] # "any"
        /\ e \in Seq(S) /\ \A i \in 1 .. m : e[i] = q[i]
    BY <1>1, FirstAnyIs
  <1>3. PICK f : ResolvesAs(f, root, path, q, n)
    BY ResolvedIs
  <1>4. PICK a : ReachesAs(a, root, e, m)
    BY <1>2, ReachedIs
  <1>5. n \in Nat /\ m \in Nat /\ M \in Nat
    <2>1. M \in Nat
      BY EvalAssumption DEF EvalAssumption
    <2>2. n \in Nat
      BY <1>1
    <2>3. m \in Nat
      BY <1>2
    <2>4. QED
      BY <2>1, <2>2, <2>3
  <1> HIDE DEF n, m, j, M
  <1> DEFINE End == IF j = 0 \/ j > M THEN {} ELSE a[m]
             OK(i) == IF i <= m /\ i <= M THEN GoesOn(f[i], a[i]) ELSE Stops(f[i], End)
             T == {i \in 0 .. n : OK(i)}
  <1>6. 0 \in T
    <2>1. f[0] = AtRoot(root) /\ a[0] = {root}
      BY <1>3, <1>4 DEF ResolvesAs, ReachesAs
    <2>2. GoesOn(f[0], a[0])
      BY <2>1, Zenon DEF GoesOn, AtRoot
    <2>3. 0 <= m /\ 0 <= M /\ 0 \in 0 .. n
      BY <1>5
    <2> HIDE DEF End
    <2>4. QED
      BY <2>2, <2>3
  <1>7. ASSUME NEW i \in 1 .. n, i - 1 \in T
        PROVE  i \in T
    <2>1. f[i] = Follow(f[i - 1], q[i], i) /\ OK(i - 1) /\ i \in 0 .. n /\ i \in Nat /\ i >= 1
      BY <1>3, <1>5, <1>7 DEF ResolvesAs
    <2> HIDE DEF End
    <2>2. CASE i <= m /\ i <= M
      <3>1. GoesOn(f[i - 1], a[i - 1]) /\ ~(i > MaxJsonDepth)
        BY <1>5, <2>1, <2>2 DEF M
      <3>2. i \in 1 .. m /\ q[i][1] # "any" /\ e[i] = q[i]
        BY <1>2, <1>5, <2>1, <2>2
      <3>3. a[i] = UNION {Get(v, q[i]) : v \in a[i - 1]}
        <4> DEFINE Level(s, P) == UNION {Get(v, s) : v \in P}
        <4>1. \A k \in 1 .. m : a[k] = Level(e[k], a[k - 1])
          BY <1>4 DEF ReachesAs
        <4> HIDE DEF Level
        <4>2. a[i] = Level(q[i], a[i - 1])
          BY <3>2, <4>1
        <4>3. QED
          BY <4>2 DEF Level
      <3>4. GoesOn(f[i], a[i])
        BY <2>1, <3>1, <3>2, <3>3, FollowGoes
      <3>5. QED
        BY <2>1, <2>2, <3>4
    <2>3. CASE i - 1 <= m /\ i - 1 <= M /\ i > M
      <3>1. GoesOn(f[i - 1], a[i - 1]) /\ i > MaxJsonDepth
        BY <2>1, <2>3 DEF M
      <3>2. Stops(f[i], {})
        BY <2>1, <3>1, FollowGoes
      <3>3. j = 0 \/ j > M
        BY <1>2, <1>5, <2>1, <2>3
      <3>4. End = {} /\ ~(i <= M)
        BY <1>5, <2>1, <2>3, <3>3 DEF End
      <3>5. QED
        BY <2>1, <3>2, <3>4
    <2>4. CASE i - 1 <= m /\ i <= M /\ i > m
      <3>1. GoesOn(f[i - 1], a[i - 1]) /\ ~(i > MaxJsonDepth) /\ i - 1 = m
        BY <1>5, <2>1, <2>4 DEF M
      <3>2. j = i /\ q[i][1] = "any"
        BY <1>2, <1>5, <2>1, <3>1
      <3>3. Stops(f[i], a[m])
        BY <2>1, <3>1, <3>2, FollowGoes
      <3>4. End = a[m] /\ ~(i <= m)
        BY <1>5, <2>1, <2>4, <3>2 DEF End
      <3>5. QED
        BY <2>1, <3>3, <3>4
    <2>5. CASE ~(i - 1 <= m /\ i - 1 <= M)
      <3>1. Stops(f[i - 1], End) /\ ~(i <= m /\ i <= M)
        BY <1>5, <2>1, <2>5
      <3>2. Stops(f[i], End)
        BY <2>1, <3>1, FollowStops
      <3>3. QED
        BY <2>1, <3>1, <3>2
    <2>6. QED
      BY <1>5, <2>1, <2>2, <2>3, <2>4, <2>5
  <1>8. OK(n)
    <2>1. 0 .. n \subseteq T
      <3> HIDE DEF T
      <3>1. QED
        BY <1>5, <1>6, <1>7, UpTo
    <2>2. QED
      BY <1>5, <2>1
  <1>9. Reached(root, e) = a[m] /\ resolve_field(root, path) = f[n].at
    BY <1>3, <1>4 DEF ResolvesAs, ReachesAs
  <1>10. CASE n <= m /\ n <= M
    <2>1. f[n].at = a[n]
      BY <1>8, <1>10 DEF GoesOn
    <2>2. m = n /\ j = 0 /\ ~(m > M) /\ ~(j > M)
      BY <1>2, <1>5, <1>10
    <2>3. QED
      BY <1>9, <2>1, <2>2 DEF m, M, j
  <1>11. CASE ~(n <= m /\ n <= M)
    <2>1. f[n].at = End
      <3> HIDE DEF End
      <3>1. Stops(f[n], End)
        BY <1>8, <1>11, Zenon
      <3>2. QED
        BY <3>1 DEF Stops
    <2>2. j = 0 \/ j > M <=> m > M \/ j > M
      BY <1>2, <1>5, <1>11
    <2>3. QED
      BY <1>9, <2>1, <2>2 DEF m, M, j
  <1>12. QED
    BY <1>10, <1>11

----------------------------------------------------------------------------
(* Conditions                                                              *)

BeforeAny(q) == SubSeq(q, 1, FirstAny(q) - 1)
BehindAny(q)  == SubSeq(q, FirstAny(q) + 1, Len(q))
ElementsOf(v) == IF v[1] = "arr" THEN Range(v[2]) ELSE {}
Meets(v, c) == eval_operator(v, c.op, c.value)

\* The definition of Denoted, with its parts named.
SpeaksOf(D, doc, q, i, rest, j) ==
    D = IF \E n \in {i - 1, Len(rest), j} : n > MaxJsonDepth THEN {}
        ELSE IF i = 0 THEN Reached(doc, q)
        ELSE UNION {Reached(e, rest) :
                      e \in UNION {ElementsOf(v) : v \in Reached(doc, BeforeAny(q))}}

LEMMA DenotedIs ==
    ASSUME NEW c, NEW doc, NEW q, q = parse_path(c.field)
    PROVE  SpeaksOf(Denoted(c, doc), doc, q, FirstAny(q), UntilAny(BehindAny(q)),
                    FirstAny(BehindAny(q)))
  BY Zenon DEF SpeaksOf, Denoted, BeforeAny, BehindAny, ElementsOf, UntilAny

LEMMA ReachedTyped ==
    ASSUME NEW root \in Values, NEW S, NEW q \in Seq(S)
    PROVE  Reached(root, q) \subseteq Values
  <1>1. PICK f : ReachesAs(f, root, q, Len(q))
    BY ReachedIs
  <1>2. Len(q) \in 0 .. Len(q)
    OBVIOUS
  <1>3. QED
    BY <1>1, <1>2 DEF ReachesAs

LEMMA ElementsTyped ==
    ASSUME NEW v \in Values
    PROVE  /\ ElementsOf(v) \subseteq Values
           /\ v[1] = "arr" => /\ ElementsOf(v) = {v[2][i] : i \in DOMAIN v[2]}
                              /\ \A i \in DOMAIN v[2] : v[2][i] \in Values
  <1>1. v[1] = "arr" => v[2] \in Seq(Values)
    BY EvalAssumption DEF EvalAssumption
  <1>2. v[1] = "arr" => \A i \in DOMAIN v[2] : v[2][i] \in Values
    BY <1>1
  <1>3. QED
    BY <1>2 DEF ElementsOf, Range

\* What holds of what a condition speaks of: without [any] ...
LEMMA PlainCondition ==
    ASSUME NEW c \in Condition, NEW doc \in Values, FirstAny(parse_path(c.field)) = 0
    PROVE  /\ Denoted(c, doc) \subseteq Values
           /\ eval_condition(c, doc) <=> \E v \in Denoted(c, doc) : Meets(v, c)
  <1> DEFINE q == parse_path(c.field)
             S == Segments(STRING)
             b == BehindAny(q)
             e == UntilAny(b)
             i == FirstAny(q)
             D == Denoted(c, doc)
             R == resolve_field(doc, c.field)
  <1>1. c.field \in Seq(STRING)
    BY DEF Condition
  <1>2. q \in Seq(S)
    BY <1>1, PathIs
  <1>3. i = 0
    OBVIOUS
  <1>4. SpeaksOf(D, doc, q, i, e, FirstAny(b))
    BY DenotedIs
  <1>5. R = IF Len(UntilAny(q)) > MaxJsonDepth \/ FirstAny(q) > MaxJsonDepth THEN {}
            ELSE Reached(doc, UntilAny(q))
    BY <1>1, ResolveIs
  <1>6. split_at_any(c.field) = <<>>
    BY <1>3, Zenon DEF split_at_any
  <1>7. eval_condition(c, doc) <=> Satisfied(doc, c.field, c)
    BY <1>6, Zenon DEF eval_condition
  <1>8. Satisfied(doc, c.field, c) <=> \E v \in R : Meets(v, c)
    BY Zenon DEF Satisfied, Meets
  <1>9. MaxJsonDepth \in Nat
    BY EvalAssumption DEF EvalAssumption
  <1> HIDE DEF q, S, i, D, R
  <1>10. b = q
    <2>1. FirstAny(q) + 1 = 1
      BY <1>3 DEF i
    <2>2. SubSeq(q, 1, Len(q)) = q
      BY <1>2
    <2>3. QED
      BY <2>1, <2>2, Zenon DEF BehindAny
  <1>11. e = q /\ UntilAny(q) = q
    BY <1>3, <1>10, Zenon DEF UntilAny, i
  <1>12. D = IF Len(q) > MaxJsonDepth THEN {} ELSE Reached(doc, q)
    <2>1. SpeaksOf(D, doc, q, 0, q, 0)
      BY <1>3, <1>4, <1>10, <1>11, Zenon DEF i
    <2>2. (\E n \in {0 - 1, Len(q), 0} : n > MaxJsonDepth) <=> Len(q) > MaxJsonDepth
      BY <1>2, <1>9
    <2>3. QED
      BY <2>1, <2>2, Zenon DEF SpeaksOf
  <1>13. R = D
    <2>1. ~(FirstAny(q) > MaxJsonDepth)
      BY <1>3, <1>9 DEF i
    <2>2. QED
      BY <1>5, <1>11, <1>12, <2>1, Zenon
  <1>14. D \subseteq Values
    <2>1. Reached(doc, q) \subseteq Values
      BY <1>2, ReachedTyped
    <2>2. QED
      BY <1>12, <2>1
  <1>15. QED
    BY <1>7, <1>8, <1>13, <1>14 DEF D

\* ... and with it.
LEMMA ElementCondition ==
    ASSUME NEW c \in Condition, NEW doc \in Values, FirstAny(parse_path(c.field)) # 0
    PROVE  /\ Denoted(c, doc) \subseteq Values
           /\ eval_condition(c, doc) <=> \E v \in Denoted(c, doc) : Meets(v, c)
  <1> DEFINE q == parse_path(c.field)
             S == Segments(STRING)
             W == PathWords(STRING)
             i == FirstAny(q)
             a == BeforeAny(q)
             b == BehindAny(q)
             e == UntilAny(b)
             j == FirstAny(b)
             D == Denoted(c, doc)
             P == rebuild_path(a)
             Q == rebuild_path(b)
             M == MaxJsonDepth
             V == Reached(doc, a)
  <1>1. c.field \in Seq(STRING)
    BY DEF Condition
  <1>2. q \in Seq(S)
    BY <1>1, PathIs
  <1>3. i # 0
    OBVIOUS
  <1>4. SpeaksOf(D, doc, q, i, e, j)
    BY DenotedIs
  <1>5. split_at_any(c.field) = <<P, Q>>
    BY <1>3, Zenon DEF split_at_any, BeforeAny, BehindAny
  <1>6. eval_condition(c, doc) <=>
          \E arr \in resolve_field(doc, P) :
             arr[1] = "arr" /\ \E k \in DOMAIN arr[2] : Satisfied(arr[2][k], Q, c)
    <2>1. <<P, Q>> # <<>> /\ <<P, Q>>[1] = P /\ <<P, Q>>[2] = Q
      <3> HIDE DEF P, Q
      <3>1. QED
        OBVIOUS
    <2>2. QED
      BY <1>5, <2>1, Zenon DEF eval_condition
  <1>7. \A v : Satisfied(v, Q, c) <=> \E x \in resolve_field(v, Q) : Meets(x, c)
    BY Zenon DEF Satisfied, Meets
  <1>8. M \in Nat
    BY EvalAssumption DEF EvalAssumption
  <1> HIDE DEF q, S, W, D
  <1>9. /\ i \in 1 .. Len(q) /\ i \in Nat /\ i >= 1 /\ Len(q) \in Nat
        /\ \A k \in 1 .. i - 1 : q[k][1] # "any"
    <2>1. i \in 1 .. Len(q) /\ \A k \in 1 .. i - 1 : q[k][1] # "any"
      BY <1>2, <1>3, FirstAnyIs
    <2>2. Len(q) \in Nat
      BY <1>2
    <2> HIDE DEF i
    <2>3. QED
      BY <2>1, <2>2
  <1>10. /\ a \in Seq(S) /\ Len(a) = i - 1 /\ \A k \in 1 .. i - 1 : a[k] = q[k]
    <2>1. \A k \in 1 .. i - 1 : q[k] \in S
      BY <1>2, <1>9
    <2>2. SubSeq(q, 1, i - 1) \in Seq(S) /\ Len(SubSeq(q, 1, i - 1)) = i - 1
          /\ \A k \in 1 .. i - 1 : SubSeq(q, 1, i - 1)[k] = q[k]
      <3> HIDE DEF i
      <3>1. QED
        BY <1>2, <1>9, <2>1
    <2>3. QED
      BY <2>2, Zenon DEF BeforeAny
  <1>11. b \in Seq(S)
    <2>1. SubSeq(q, i + 1, Len(q)) \in Seq(S)
      <3> HIDE DEF i
      <3>1. QED
        BY <1>2, <1>9
    <2>2. QED
      BY <2>1, Zenon DEF BehindAny
  <1> HIDE DEF i, a, b
  <1>12. FirstAny(a) = 0 /\ UntilAny(a) = a
    <2>1. \A k \in 1 .. Len(a) : a[k][1] # "any"
      BY <1>9, <1>10
    <2>2. FirstAny(a) = 0
      BY <1>10, <2>1, FirstAnyIs
    <2>3. QED
      BY <2>2 DEF UntilAny
  <1>13. P \in Seq(W) /\ parse_path(P) = a /\ Q \in Seq(W) /\ parse_path(Q) = b
    BY <1>10, <1>11, RoundTrip DEF S, W
  <1> HIDE DEF P, Q
  <1>14. resolve_field(doc, P) = IF i - 1 > M THEN {} ELSE V
    <2>1. resolve_field(doc, P) =
             IF Len(a) > MaxJsonDepth \/ FirstAny(a) > MaxJsonDepth THEN {} ELSE Reached(doc, a)
      BY <1>12, <1>13, ResolveIs
    <2>2. ~(FirstAny(a) > MaxJsonDepth) /\ Len(a) = i - 1
      BY <1>8, <1>10, <1>12
    <2>3. QED
      BY <2>1, <2>2
  <1>15. \A v \in Values : resolve_field(v, Q) = IF Len(e) > M \/ j > M THEN {} ELSE Reached(v, e)
    BY <1>13, ResolveIs
  <1>16. e \in Seq(S)
    BY <1>11, FirstAnyIs
  <1>17. V \subseteq Values
    BY <1>10, ReachedTyped
  <1>18. \A v \in Values : Reached(v, e) \subseteq Values
    BY <1>16, ReachedTyped
  <1> HIDE DEF e, j, V, M
  <1> DEFINE E == UNION {ElementsOf(v) : v \in V}
             B == i - 1 > M \/ Len(e) > M \/ j > M
  <1>19. E \subseteq Values
    BY <1>17, ElementsTyped
  <1>20. D = IF B THEN {} ELSE UNION {Reached(x, e) : x \in E}
    <2>1. (\E n \in {i - 1, Len(e), j} : n > MaxJsonDepth) <=> B
      BY DEF M
    <2>2. QED
      BY <1>3, <1>4, <2>1, Zenon DEF SpeaksOf, a, i, V
  <1>21. D \subseteq Values
    BY <1>18, <1>19, <1>20
  <1>22. \A arr \in V : arr[1] = "arr" =>
            /\ ElementsOf(arr) = {arr[2][k] : k \in DOMAIN arr[2]}
            /\ \A k \in DOMAIN arr[2] : arr[2][k] \in Values
    BY <1>17, ElementsTyped
  <1>23. ASSUME eval_condition(c, doc)
         PROVE  \E v \in D : Meets(v, c)
    <2>1. PICK arr \in resolve_field(doc, P) :
             arr[1] = "arr" /\ \E k \in DOMAIN arr[2] : Satisfied(arr[2][k], Q, c)
      BY <1>6, <1>23
    <2>2. PICK k \in DOMAIN arr[2] : Satisfied(arr[2][k], Q, c)
      BY <2>1
    <2> DEFINE y == arr[2][k]
    <2>3. PICK x \in resolve_field(y, Q) : Meets(x, c)
      BY <1>7, <2>2
    <2>4. ~(i - 1 > M) /\ arr \in V
      BY <1>14
    <2>5. y \in Values /\ y \in ElementsOf(arr)
      BY <1>22, <2>1, <2>4
    <2>6. y \in E
      BY <2>4, <2>5
    <2> HIDE DEF y, E
    <2>7. ~(Len(e) > M \/ j > M) /\ x \in Reached(y, e)
      BY <1>15, <2>3, <2>5
    <2>8. x \in D
      BY <1>20, <2>4, <2>6, <2>7
    <2>9. QED
      BY <2>3, <2>8
  <1>24. ASSUME NEW v \in D, Meets(v, c)
         PROVE  eval_condition(c, doc)
    <2>1. ~B
      BY <1>20
    <2>2. PICK y \in E : v \in Reached(y, e)
      BY <1>20, <2>1
    <2>3. PICK arr \in V : y \in ElementsOf(arr)
      BY <2>2
    <2>4. arr[1] = "arr"
      BY <2>3 DEF ElementsOf
    <2>5. PICK k \in DOMAIN arr[2] : y = arr[2][k]
      BY <1>22, <2>3, <2>4
    <2>6. y \in Values
      BY <1>19, <2>2
    <2>7. v \in resolve_field(y, Q)
      BY <1>15, <2>1, <2>2, <2>6
    <2>8. Satisfied(arr[2][k], Q, c)
      BY <1>7, <1>24, <2>5, <2>7
    <2>9. arr \in resolve_field(doc, P)
      BY <1>14, <2>1, <2>3
    <2>10. QED
      BY <1>6, <2>4, <2>8, <2>9
  <1>25. QED
    BY <1>21, <1>23, <1>24 DEF D

LEMMA ConditionIs ==
    ASSUME NEW c \in Condition, NEW doc \in Values
    PROVE  /\ Denoted(c, doc) \subseteq Values
           /\ eval_condition(c, doc) <=> \E v \in Denoted(c, doc) : Meets(v, c)
  BY PlainCondition, ElementCondition

----------------------------------------------------------------------------
(* Targets and rules                                                       *)

\* Names that are not blank
Agents == STRING \ {""}
TakesAs(f, names, n) == f \in [0 .. n -> Seq(Agents)] /\ NamesIn(names) = f[n]

LEMMA NamesAre ==
    ASSUME NEW names \in Seq(STRING)
    PROVE  \E f : TakesAs(f, names, Len(names))
  <1> DEFINE n == Len(names)
             A == Seq(Agents)
             Then(i, p) == IF names[i] = "" THEN p ELSE Append(p, names[i])
             G == [i \in 1 .. n |-> [p \in A |-> Then(i, p)]]
             Step(f) == [i \in 0 .. n |-> IF i = 0 THEN <<>> ELSE Then(i, f[i - 1])]
             c == CHOOSE f : f = Step(f)
  <1>1. n \in Nat /\ <<>> \in A
    OBVIOUS
  <1>2. NamesIn(names) = c[n]
    BY Zenon DEF NamesIn
  <1>3. \A i \in 1 .. n : \A p \in A : Then(i, p) \in A
    <2>1. \A i \in 1 .. n : names[i] = "" \/ names[i] \in Agents
      <3>1. \A i \in 1 .. Len(names) : names[i] \in STRING
        OBVIOUS
      <3>2. QED
        BY <3>1 DEF Agents
    <2>2. \A i \in 1 .. n : \A p \in A : names[i] = "" \/ Append(p, names[i]) \in A
      BY <2>1, AppendProperties
    <2>3. QED
      BY <2>2
  <1> HIDE DEF n, A, Then
  <1>5. G \in [1 .. n -> [A -> A]]
    BY <1>3
  <1>6. PICK f : Iterated(f, n, A, <<>>, G)
    <2> HIDE DEF G
    <2>1. QED
      BY <1>1, <1>5, Iterates
  <1>7. \A i \in 1 .. n : \A p \in A : G[i][p] = Then(i, p)
    OBVIOUS
  <1> HIDE DEF G
  <1>8. f = Step(f)
    <2>1. f \in [0 .. n -> A] /\ f[0] = <<>> /\ \A i \in 1 .. n : f[i] = G[i][f[i - 1]]
      BY <1>6 DEF Iterated
    <2>2. \A i \in 1 .. n : f[i - 1] \in A
      BY <1>1, <2>1
    <2>3. \A i \in 1 .. n : f[i] = Then(i, f[i - 1])
      BY <1>7, <2>1, <2>2
    <2>4. \A i \in 0 .. n : i = 0 \/ i \in 1 .. n
      BY <1>1
    <2>5. QED
      BY <2>1, <2>3, <2>4
  <1>9. c = Step(c)
    <2> HIDE DEF Step
    <2>1. QED
      BY <1>8, Zenon
  <1> HIDE DEF c
  <1>10. c = [i \in 0 .. n |-> c[i]] /\ c[0] = <<>> /\ \A i \in 1 .. n : c[i] = Then(i, c[i - 1])
    <2>1. \A i \in 1 .. n : i \in 0 .. n /\ i # 0
      BY <1>1
    <2>2. 0 \in 0 .. n
      BY <1>1
    <2>3. QED
      BY <1>9, <2>1, <2>2
  <1>11. Iterated(c, n, A, <<>>, G)
    <2>1. \A i \in 1 .. n : c[i - 1] \in A => c[i] = G[i][c[i - 1]]
      BY <1>7, <1>10
    <2>2. QED
      BY <1>1, <1>5, <1>10, <2>1, Unrolled
  <1>12. TakesAs(c, names, n)
    BY <1>2, <1>10, <1>11 DEF TakesAs, Iterated, A
  <1>13. QED
    BY <1>12 DEF n

\* What is left of the target of a rule
IsTarget(d, t) ==
    /\ d[1] = t[1]
    /\ d[1] = "fork" => Len(d[2]) <= MaxForkTargets /\ "" \notin Range(d[2])

LEMMA TargetIs ==
    ASSUME NEW t \in Target
    PROVE  IsTarget(parse_target(t), t)
  <1>1. CASE t[1] # "fork"
    BY <1>1 DEF parse_target, IsTarget
  <1>2. CASE t[1] = "fork"
    <2> DEFINE s == NamesIn(t[2])
               M == MaxForkTargets
               r == IF Len(s) > M THEN SubSeq(s, 1, M) ELSE s
    <2>1. t[2] \in Seq(STRING)
      BY <1>2 DEF Target
    <2>2. PICK f : TakesAs(f, t[2], Len(t[2]))
      BY <2>1, NamesAre
    <2>3. Len(t[2]) \in 0 .. Len(t[2])
      BY <2>1
    <2>4. s \in Seq(Agents)
      BY <2>2, <2>3 DEF TakesAs
    <2>5. parse_target(t) = <<"fork", r>>
      BY <1>2 DEF parse_target
    <2>6. M \in Nat
      BY EvalAssumption DEF EvalAssumption
    <2> HIDE DEF s, M
    <2>7. r \in Seq(Agents) /\ Len(r) <= M
      <3>1. CASE Len(s) > M
        <4> DEFINE u == SubSeq(s, 1, M)
        <4>1. \A i \in 1 .. M : s[i] \in Agents
          BY <2>4, <2>6, <3>1
        <4>2. u \in Seq(Agents) /\ Len(u) = M
          BY <2>4, <2>6, <3>1, <4>1
        <4>3. r = u
          BY <3>1
        <4> HIDE DEF u, r
        <4>4. QED
          BY <2>6, <4>2, <4>3
      <3>2. CASE ~(Len(s) > M)
        <4>1. r = s /\ Len(s) \in Nat
          BY <2>4, <3>2
        <4> HIDE DEF r
        <4>2. QED
          BY <2>4, <2>6, <3>2, <4>1
      <3>3. QED
        BY <3>1, <3>2
    <2> HIDE DEF r
    <2>8. "" \notin Range(r)
      <3>1. \A i \in DOMAIN r : r[i] \in Agents
        BY <2>7
      <3>2. "" \notin Agents
        BY DEF Agents
      <3>3. QED
        BY <3>1, <3>2, Zenon DEF Range
    <2> DEFINE d == <<"fork", r>>
    <2>9. d[1] = "fork" /\ d[2] = r
      OBVIOUS
    <2> HIDE DEF d
    <2>10. IsTarget(d, t)
      BY <1>2, <2>7, <2>8, <2>9 DEF IsTarget, M
    <2>11. QED
      BY <2>5, <2>10 DEF d
  <1>3. QED
    BY <1>1, <1>2

\* What a rule says, in terms of what its conditions speak of.
HoldsOf(c, doc) == \E v \in Denoted(c, doc) : Meets(v, c)
ChosenBy(r, doc) ==
    \/ r.default
    \/ /\ Conditions(r) # {}
       /\ IF r.condition = <<>> /\ r.all # <<>>
          THEN \A c \in Conditions(r) : HoldsOf(c, doc)
          ELSE \E c \in Conditions(r) : HoldsOf(c, doc)

LEMMA ConditionsAre ==
    ASSUME NEW q \in Seq(Condition)
    PROVE  /\ Range(q) = {q[i] : i \in DOMAIN q} /\ Range(q) \subseteq Condition
           /\ q = <<>> <=> Range(q) = {}
  <1>1. DOMAIN q = 1 .. Len(q) /\ Len(q) \in Nat /\ \A i \in 1 .. Len(q) : q[i] \in Condition
    OBVIOUS
  <1>2. q # <<>> => 1 \in DOMAIN q
    BY <1>1
  <1>3. q = <<>> => DOMAIN q = {}
    BY <1>1
  <1>4. QED
    BY <1>1, <1>2, <1>3 DEF Range

LEMMA EvalIs ==
    ASSUME NEW r \in Rule, NEW doc \in Values
    PROVE  Conditions(r) \subseteq Condition /\ (eval(r, doc) <=> ChosenBy(r, doc))
  <1>1. /\ r.default \in BOOLEAN /\ r.condition \in Seq(Condition)
        /\ r.all \in Seq(Seq(Condition)) /\ r.any \in Seq(Seq(Condition))
    BY DEF Rule
  <1>2. /\ r.condition # <<>> => r.condition[1] \in Condition
        /\ r.all # <<>> => r.all[1] \in Seq(Condition)
        /\ r.any # <<>> => r.any[1] \in Seq(Condition)
    BY <1>1
  <1>3. \A c \in Condition : eval_condition(c, doc) <=> HoldsOf(c, doc)
    BY ConditionIs DEF HoldsOf
  <1>4. CASE r.condition # <<>>
    <2>1. Conditions(r) = {r.condition[1]}
      BY <1>4 DEF Conditions
    <2>2. eval(r, doc) <=> r.default \/ eval_condition(r.condition[1], doc)
      BY <1>1, <1>4 DEF eval
    <2>3. ChosenBy(r, doc) <=> r.default \/ HoldsOf(r.condition[1], doc)
      BY <1>4, <2>1, Zenon DEF ChosenBy
    <2>4. QED
      BY <1>2, <1>3, <1>4, <2>1, <2>2, <2>3
  <1>5. CASE r.condition = <<>> /\ r.all # <<>>
    <2> DEFINE q == r.all[1]
    <2>1. Conditions(r) = Range(q)
      BY <1>5 DEF Conditions
    <2>2. /\ q \in Seq(Condition) /\ Range(q) = {q[i] : i \in DOMAIN q}
          /\ Range(q) \subseteq Condition /\ (q = <<>> <=> Range(q) = {})
      <3>1. q \in Seq(Condition)
        BY <1>2, <1>5
      <3> HIDE DEF q
      <3>2. QED
        BY <3>1, ConditionsAre
    <2>3. eval(r, doc) <=> r.default \/ (q # <<>> /\ \A i \in DOMAIN q : eval_condition(q[i], doc))
      BY <1>1, <1>5 DEF eval
    <2>4. ChosenBy(r, doc) <=> r.default \/ (Range(q) # {} /\ \A c \in Range(q) : HoldsOf(c, doc))
      BY <1>5, <2>1, Zenon DEF ChosenBy
    <2> HIDE DEF q
    <2>5. \A i \in DOMAIN q : q[i] \in Range(q) /\ (eval_condition(q[i], doc) <=> HoldsOf(q[i], doc))
      BY <1>3, <2>2
    <2>6. (\A i \in DOMAIN q : eval_condition(q[i], doc)) <=> \A c \in Range(q) : HoldsOf(c, doc)
      BY <2>2, <2>5
    <2>7. QED
      BY <2>1, <2>2, <2>3, <2>4, <2>6
  <1>6. CASE r.condition = <<>> /\ r.all = <<>> /\ r.any # <<>>
    <2> DEFINE q == r.any[1]
    <2>1. Conditions(r) = Range(q)
      BY <1>6 DEF Conditions
    <2>2. /\ q \in Seq(Condition) /\ Range(q) = {q[i] : i \in DOMAIN q}
          /\ Range(q) \subseteq Condition
      <3>1. q \in Seq(Condition)
        BY <1>2, <1>6
      <3> HIDE DEF q
      <3>2. QED
        BY <3>1, ConditionsAre
    <2>3. eval(r, doc) <=> r.default \/ \E i \in DOMAIN q : eval_condition(q[i], doc)
      BY <1>1, <1>6 DEF eval
    <2>4. ChosenBy(r, doc) <=> r.default \/ \E c \in Range(q) : HoldsOf(c, doc)
      BY <1>6, <2>1, Zenon DEF ChosenBy
    <2> HIDE DEF q
    <2>5. \A i \in DOMAIN q : q[i] \in Range(q) /\ (eval_condition(q[i], doc) <=> HoldsOf(q[i], doc))
      BY <1>3, <2>2
    <2>6. (\E i \in DOMAIN q : eval_condition(q[i], doc)) <=> \E c \in Range(q) : HoldsOf(c, doc)
      BY <2>2, <2>5
    <2>7. QED
      BY <2>1, <2>2, <2>3, <2>4, <2>6
  <1>7. CASE r.condition = <<>> /\ r.all = <<>> /\ r.any = <<>>
    <2>1. Conditions(r) = {}
      BY <1>7 DEF Conditions
    <2>2. QED
      BY <1>1, <1>7, <2>1 DEF eval, ChosenBy
  <1>8. QED
    BY <1>4, <1>5, <1>6, <1>7

----------------------------------------------------------------------------
(* Operators                                                               *)

Order(x, y) == IF x < y THEN "Less" ELSE IF x > y THEN "Greater" ELSE "Equal"

LEMMA NumberIs ==
    ASSUME NEW v \in Values
    PROVE  to_f64(v) = {} \/ \E x \in Int : to_f64(v) = {x}
  <1>1. v[1] \in {"int", "float"} => v[2] \in Int
    BY EvalAssumption DEF EvalAssumption
  <1>2. \A w \in DOMAIN NumberOf : NumberOf[w] \in Int
    BY EvalAssumption DEF EvalAssumption
  <1>3. QED
    BY <1>1, <1>2 DEF to_f64, IsNumber

\* Two values are compared by the numbers they stand for, if both do.
LEMMA ComparedIs ==
    ASSUME NEW a \in Values, NEW b \in Values
    PROVE  \/ compare_values(a, b) = {}
           \/ \E x, y \in Int : /\ to_f64(a) = {x} /\ to_f64(b) = {y}
                                /\ compare_values(a, b) = {Order(x, y)}
  <1> DEFINE X == to_f64(a)
             Y == to_f64(b)
             C == compare_values(a, b)
  <1>1. \A z : z \in C <=> \E x \in X, y \in Y : z = Order(x, y)
    BY DEF compare_values, Order
  <1>2. (X = {} \/ \E x \in Int : X = {x}) /\ (Y = {} \/ \E y \in Int : Y = {y})
    BY NumberIs
  <1> HIDE DEF X, Y, C
  <1>3. CASE X = {} \/ Y = {}
    <2>1. C = {}
      BY <1>1, <1>3
    <2>2. QED
      BY <2>1 DEF C
  <1>4. CASE X # {} /\ Y # {}
    <2>1. PICK x \in Int, y \in Int : X = {x} /\ Y = {y}
      BY <1>2, <1>4
    <2>2. \A z : z \in C <=> z = Order(x, y)
      BY <1>1, <2>1
    <2>3. C = {Order(x, y)}
      BY <2>2
    <2>4. QED
      BY <2>1, <2>3 DEF X, Y, C
  <1>5. QED
    BY <1>3, <1>4

\* Equal, less and greater, as an operator of a condition finds them.
LEMMA EqualIs ==
    ASSUME NEW a \in Values, NEW b \in Values, values_equal(a, b)
    PROVE  \/ a = b \/ to_f64(a) = {}
           \/ \E x \in to_f64(a), y \in to_f64(b) : float_equal(x, y)
  <1>1. CASE {a[1], b[1]} \in {{"str", "int"}, {"str", "float"}}
    BY <1>1 DEF values_equal
  <1>2. CASE /\ {a[1], b[1]} \notin {{"str", "int"}, {"str", "float"}}
             /\ a[1] = "bool" /\ b[1] = "str"
    <2>1. to_f64(a) = {}
      BY <1>2 DEF to_f64, IsNumber
    <2>2. QED
      BY <2>1
  <1>3. CASE /\ {a[1], b[1]} \notin {{"str", "int"}, {"str", "float"}}
             /\ ~(a[1] = "bool" /\ b[1] = "str")
    BY <1>3 DEF values_equal
  <1>4. QED
    BY <1>1, <1>2, <1>3

\* What RoutingIsExact says of the operators
Agree(v, w) ==
    LET Is(op) == eval_operator(v, op, w)
    IN  /\ Is("!=") = ~Is("==")
        /\ ~(Is("<") /\ Is(">"))
        /\ Is("==") /\ (Is("<") \/ Is(">")) =>
             \E x \in to_f64(v), y \in to_f64(w) : float_equal(x, y)
        /\ (Is("<=") /\ Is(">=")) = (Is("<=") /\ ~Is("<"))

LEMMA OperatorsAgree ==
    ASSUME NEW v \in Values, NEW w \in Values
    PROVE  Agree(v, w)
  <1> DEFINE C == compare_values(v, w)
             F == \E x \in to_f64(v), y \in to_f64(w) : float_equal(x, y)
  <1>1. /\ eval_operator(v, "==", w) = values_equal(v, w)
        /\ eval_operator(v, "!=", w) = ~values_equal(v, w)
        /\ eval_operator(v, "<", w) = ("Less" \in C)
        /\ eval_operator(v, ">", w) = ("Greater" \in C)
        /\ eval_operator(v, "<=", w) = (C \cap {"Less", "Equal"} # {})
        /\ eval_operator(v, ">=", w) = (C \cap {"Greater", "Equal"} # {})
    BY DEF eval_operator
  <1>2. C = {} \/ C = {"Less"} \/ C = {"Greater"} \/ C = {"Equal"}
    BY ComparedIs DEF Order
  <1>3. values_equal(v, w) /\ ("Less" \in C \/ "Greater" \in C) => F
    <2>1. SUFFICES ASSUME values_equal(v, w), "Less" \in C \/ "Greater" \in C
                   PROVE  F
      OBVIOUS
    <2>2. PICK x \in Int, y \in Int : to_f64(v) = {x} /\ to_f64(w) = {y} /\ C = {Order(x, y)}
      BY <2>1, ComparedIs
    <2>3. v # w
      <3>1. v = w => x = y
        BY <2>2
      <3>2. x = y => Order(x, y) = "Equal"
        BY DEF Order
      <3>3. QED
        BY <2>1, <2>2, <3>1, <3>2
    <2>4. to_f64(v) # {}
      BY <2>2
    <2>5. QED
      BY <2>1, <2>3, <2>4, EqualIs
  <1> HIDE DEF C, F
  <1>4. QED
    <2> DEFINE eq == eval_operator(v, "==", w)
               ne == eval_operator(v, "!=", w)
               lt == eval_operator(v, "<", w)
               gt == eval_operator(v, ">", w)
               le == eval_operator(v, "<=", w)
               ge == eval_operator(v, ">=", w)
    <2>1. (lt <=> "Less" \in C) /\ (gt <=> "Greater" \in C) /\ (ne = ~eq)
          /\ (eq <=> values_equal(v, w))
      BY <1>1
    <2>2. (le <=> "Less" \in C \/ "Equal" \in C) /\ (ge <=> "Greater" \in C \/ "Equal" \in C)
      BY <1>1
    <2>3. ~("Less" \in C /\ "Greater" \in C) /\ ~("Equal" \in C /\ "Less" \in C)
          /\ ~("Equal" \in C /\ "Greater" \in C)
      BY <1>2
    <2>4. (le /\ ge) = (le /\ ~lt)
      BY <2>1, <2>2, <2>3
    <2> HIDE DEF eq, ne, lt, gt, le, ge
    <2>5. (ne = ~eq) /\ ~(lt /\ gt) /\ (eq /\ (lt \/ gt) => F) /\ (le /\ ge) = (le /\ ~lt)
      BY <1>3, <2>1, <2>3, <2>4
    <2>6. QED
      BY <2>5, Zenon DEF Agree, eq, ne, lt, gt, le, ge, F

----------------------------------------------------------------------------
(* Which rule decides                                                      *)

\* What RoutingIsExact says of the decision
Decides(d, q, doc) ==
    \/ d = <<"end">> /\ \A k \in DOMAIN q : ~ChosenBy(q[k], doc)
    \/ \E k \in DOMAIN q :
         /\ ChosenBy(q[k], doc) /\ \A h \in 1 .. k - 1 : ~ChosenBy(q[h], doc)
         /\ IsTarget(d, q[k].target)

LEMMA RuleDecides ==
    ASSUME NEW q \in Seq(Rule), NEW doc \in Values
    PROVE  Decides(eval_rules(q, doc), q, doc)
  <1> DEFINE n == Len(q)
             S == {k \in DOMAIN q : eval(q[k], doc)}
             i == First(S)
  <1>1. n \in Nat /\ DOMAIN q = 1 .. n /\ \A k \in 1 .. n : q[k] \in Rule
    OBVIOUS
  <1>2. \A k \in 1 .. n : k \in S <=> ChosenBy(q[k], doc)
    BY <1>1, EvalIs
  <1>3. S \subseteq 1 .. n
    BY <1>1
  <1>4. eval_rules(q, doc) = IF i = 0 THEN <<"end">> ELSE parse_target(q[i].target)
    BY Zenon DEF eval_rules
  <1> HIDE DEF S, n
  <1>5. \/ i = 0 /\ S = {}
        \/ i \in S /\ i \in 1 .. n /\ \A x \in 1 .. i - 1 : x \notin S
    BY <1>1, <1>3, FirstIs
  <1> HIDE DEF i
  <1>6. CASE i = 0 /\ S = {}
    BY <1>1, <1>2, <1>4, <1>6 DEF Decides
  <1>7. CASE i \in S /\ i \in 1 .. n /\ \A x \in 1 .. i - 1 : x \notin S
    <2>1. i # 0 /\ \A x \in 1 .. i - 1 : x \in 1 .. n
      BY <1>1, <1>7
    <2>2. ChosenBy(q[i], doc) /\ \A x \in 1 .. i - 1 : ~ChosenBy(q[x], doc)
      BY <1>2, <1>7, <2>1
    <2>3. q[i].target \in Target
      BY <1>1, <1>7 DEF Rule
    <2>4. IsTarget(eval_rules(q, doc), q[i].target)
      BY <1>4, <2>1, <2>3, TargetIs
    <2>5. QED
      BY <1>1, <1>7, <2>2, <2>4 DEF Decides
  <1>8. QED
    BY <1>5, <1>6, <1>7

IsRead == rules \in Seq(Rule) /\ document \in Values

EvalInv == decision # <<"none">> => IsRead /\ Decides(decision, rules, document)

LEMMA EvalBegins ==
    ASSUME EvalInit
    PROVE  IsRead
  BY EvalAssumption DEF EvalInit, IsRead, EvalAssumption

LEMMA EvalStep ==
    ASSUME IsRead, Evaluate
    PROVE  IsRead' /\ EvalInv'
  <1>1. decision' = eval_rules(rules, document) /\ rules' = rules /\ document' = document
    BY DEF Evaluate
  <1>2. Decides(decision', rules, document)
    BY <1>1, RuleDecides DEF IsRead
  <1>3. Decides(decision', rules', document')
    BY <1>1, <1>2, Zenon
  <1>4. QED
    BY <1>1, <1>3 DEF EvalInv, IsRead

LEMMA EvalStutters ==
    ASSUME UNCHANGED evalVars
    PROVE  IsRead' = IsRead /\ EvalInv' = EvalInv
  <1>1. decision' = decision /\ rules' = rules /\ document' = document
    BY DEF evalVars
  <1>2. QED
    BY <1>1, Zenon DEF EvalInv, IsRead

LEMMA EvalImplies ==
    ASSUME EvalInv
    PROVE  RoutingIsExact
  <1>1. SUFFICES ASSUME decision # <<"none">>
                 PROVE  RoutingIsExact
    BY DEF RoutingIsExact
  <1>2. rules \in Seq(Rule) /\ document \in Values /\ Decides(decision, rules, document)
    BY <1>1 DEF EvalInv, IsRead
  <1>3. \A k \in DOMAIN rules : \A c \in Conditions(rules[k]) :
           \A v \in Denoted(c, document) : Agree(v, c.value)
    <2>1. TAKE k \in DOMAIN rules
    <2>2. rules[k] \in Rule
      BY <1>2
    <2>3. Conditions(rules[k]) \subseteq Condition
      BY <1>2, <2>2, EvalIs
    <2>4. TAKE c \in Conditions(rules[k])
    <2>5. c \in Condition /\ c.value \in Values
      BY <2>3 DEF Condition
    <2>6. Denoted(c, document) \subseteq Values
      BY <1>2, <2>5, ConditionIs
    <2>7. QED
      BY <2>5, <2>6, OperatorsAgree
  <1>4. QED
    BY <1>2, <1>3, Zenon DEF RoutingIsExact, Decides, IsTarget, ChosenBy, HoldsOf, Meets, Agree

RoutingInv == (part = "routing" => IsRead) /\ EvalInv

\* Whatever the rules, the documents and the tables of words are, the rule
\* that eval_rules follows holds and none before it does, in terms of the
\* values that its conditions speak of; a path with [any] is cut, written out
\* and parsed again without a change of what it leads to; a fork has no more
\* targets than MAX_FORK_TARGETS and none that is blank; and the operators
\* agree with each other on any two values.
THEOREM RoutingTheorem == CoreSpec => []RoutingIsExact
  <1>1. CoreInit => RoutingInv
    <2>1. CoreInit => decision = <<"none">> /\ (part = "routing" => IsRead)
      BY EvalBegins DEF CoreInit, EvalInit
    <2>2. QED
      BY <2>1 DEF RoutingInv, EvalInv
  <1>2. RoutingInv /\ [CoreNext]_coreVars => RoutingInv'
    <2>1. ASSUME RoutingInv, part = "routing", Evaluate, part' = part
          PROVE  RoutingInv'
      <3>1. IsRead
        BY <2>1 DEF RoutingInv
      <3>2. IsRead' /\ EvalInv'
        BY <2>1, <3>1, EvalStep
      <3>3. QED
        BY <3>2 DEF RoutingInv
    <2>2. ASSUME RoutingInv, UNCHANGED evalVars, part' = part
          PROVE  RoutingInv'
      <3>1. IsRead' = IsRead /\ EvalInv' = EvalInv
        BY <2>2, EvalStutters
      <3>2. QED
        BY <2>2, <3>1, Zenon DEF RoutingInv
    <2>3. QED
      BY <2>1, <2>2 DEF CoreNext, coreVars
  <1>3. RoutingInv => RoutingIsExact
    BY EvalImplies DEF RoutingInv
  <1>4. QED
    BY <1>1, <1>2, <1>3, PTL DEF CoreSpec
=============================================================================
