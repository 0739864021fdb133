---------------------------- MODULE ModelRouter ----------------------------
(***************************************************************************)
(* core/router.rs with core/catalog and core/security.rs: callers that     *)
(* share a router through &self resolve model names to a provider.  Each   *)
(* visits a model's providers one by one; the credential cache is locked   *)
(* for the lookup and again for the insertion, and not in between, while   *)
(* the process may change its environment.                                 *)
(***************************************************************************)
EXTENDS Integers, Sequences, SequencesExt, FiniteSets, TLC

CONSTANTS
    Resolvers,     \* threads that use the router
    Names,         \* what callers ask for
    Normal,        \* normalize_model_id, on the names and model ids
    Catalog,       \* model id -> sequence of provider entries
    CatalogAliases,  \* alias -> model id
    Defaults,      \* provider -> <<credential variables, base_url>>
    Slashed,       \* name -> the provider of a "provider/model" name
    KnownVars,     \* PROVIDER_CREDENTIALS_MAP: provider -> variables
    External,      \* variables with a non-empty external credential
    EnvVars,       \* environment variables
    Custom,        \* sequence of <<id, aliases, entries>> to register
    MaxSets,       \* changes of the environment
    MaxCalls,      \* calls of the router
    NoKey

VARIABLES
    env,           \* value number of each variable, 0 when unset or blank
    sets,          \* changes of the environment so far
    calls,         \* calls so far
    cache,         \* credential_cache
    custom,        \* custom_models: id -> number in Custom
    call           \* the call each resolver is in, or the last one it made

routerVars == <<env, sets, calls, cache, custom, call>>

\* What may hold a credential, and what there is to tell apart of URLs
Variables == EnvVars \cup External
Urls == {"empty", "public", "rejected", "hostname"}

\* CatalogProviderEntry: <<provider_id, priority, credential_keys, base_url>>
Entry == STRING \X Nat \X (SUBSET Variables) \X Urls

\* An alias of the catalog stands for a model of the catalog; NoKey is no
\* credential.
ASSUME RouterAssumption ==
    /\ \A id \in DOMAIN Catalog : Catalog[id] \in Seq(Entry)
    /\ \A n \in DOMAIN CatalogAliases : CatalogAliases[n] \in DOMAIN Catalog
    /\ \A p \in DOMAIN Defaults : p \in STRING /\ Defaults[p] \in (SUBSET Variables) \X Urls
    /\ \A p \in DOMAIN KnownVars : KnownVars[p] \subseteq Variables
    /\ Custom \in Seq(STRING \X (SUBSET STRING) \X Seq(Entry))
    /\ \A v \in External : <<v, 0>> # NoKey

provider_id(e) == e[1]
priority(e) == e[2]
credential_keys(e) == e[3]

IdleCall == [mode |-> "none", pc |-> "idle", entries |-> <<>>, seen |-> <<>>,
           held |-> NoKey, result |-> <<"none">>, todo |-> {}, listed |-> {}]

RouterInit ==
    /\ env = [v \in EnvVars |-> 0]
    /\ sets = 0
    /\ calls = 0
    /\ cache = <<>>
    /\ custom = [id \in {Custom[k][1] : k \in DOMAIN Custom} |-> 0]
    /\ call = [r \in Resolvers |-> IdleCall]

----------------------------------------------------------------------------
(* Names and entries                                                       *)

Registered == {id \in DOMAIN custom : custom[id] # 0}

\* resolve_alias: the model ids a name may stand for; custom aliases are
\* found in the order of a hash map.
resolve_alias(name) ==
    LET n == Normal[name]
    IN  IF n \in DOMAIN CatalogAliases THEN {CatalogAliases[n]}
        ELSE IF n \in DOMAIN Catalog \cup Registered THEN {n}
        ELSE {id \in Registered : n \in Custom[custom[id]][2]}

\* canonical_id of resolve and inspect_model
Canonical(name) ==
    LET n == Normal[name]
    IN  IF resolve_alias(n) # {} THEN resolve_alias(n)
        ELSE {n} \cap (DOMAIN Catalog \cup Registered)

\* A custom model never replaces a model of the catalog.
get_model(id) == IF id \in DOMAIN Catalog THEN Catalog[id]
                 ELSE Custom[custom[id]][3]

\* sort_by_key is stable: before an entry are those that come earlier.
SortedProviders(entries) ==
    LET Earlier(i, j) == \/ priority(entries[i]) < priority(entries[j])
                         \/ priority(entries[i]) = priority(entries[j]) /\ i < j
        order == [k \in DOMAIN entries |-> CHOOSE i \in DOMAIN entries :
                    Cardinality({j \in DOMAIN entries : Earlier(j, i)}) = k - 1]
    IN  [k \in DOMAIN entries |-> entries[order[k]]]

VarsOf(p) == IF p \in DOMAIN KnownVars THEN KnownVars[p] ELSE {}

is_credentialless(e) ==
    /\ credential_keys(e) = {}
    /\ provider_id(e) \in DOMAIN KnownVars
    /\ KnownVars[provider_id(e)] = {}

resolve_base_url(e) ==
    IF e[4] # "empty" THEN e[4]
    ELSE IF provider_id(e) \in DOMAIN Defaults THEN Defaults[provider_id(e)][2]
    ELSE "empty"

\* validate_base_url: which verdicts it may give. The answer for a host name
\* is the resolver's, at the time of the call.
validate_base_url(url) ==
    [empty |-> {TRUE}, public |-> {TRUE}, rejected |-> {FALSE},
     hostname |-> {TRUE, FALSE}][url]

----------------------------------------------------------------------------
(* Credentials                                                             *)

\* Mutant of credential_cache_key: the provider alone
CacheKeyProvider(e) == <<provider_id(e), {}>>

credential_cache_key(e) == <<provider_id(e), credential_keys(e)>>

ValueOf(v) == IF v \in External THEN <<v, 0>> ELSE <<v, env[v]>>

HasValue(v) == v \in External \/ env[v] # 0

\* The credential an uncached search finds: among the entry's own variables
\* in the order of a hash map, then among those known for the provider.
Search(e) ==
    LET own == {v \in credential_keys(e) : HasValue(v)}
        known == {v \in VarsOf(provider_id(e)) : HasValue(v)}
    IN  IF own # {} THEN {ValueOf(v) : v \in own}
        ELSE IF known # {} THEN {ValueOf(v) : v \in known}
        ELSE {NoKey}

----------------------------------------------------------------------------
(* Calls                                                                   *)

At(r) == call[r].entries[Len(call[r].seen) + 1]

Visited(r) == Len(call[r].seen) = Len(call[r].entries)

\* The first credentialless entry of the priority that is being visited
BestCredentialless(r) ==
    {i \in DOMAIN call[r].seen : is_credentialless(call[r].entries[i])}

\* A resolver that is in no call makes one.
Free(r) == /\ call[r].pc = "idle"
           /\ calls < MaxCalls
           /\ calls' = calls + 1

Returns(r, result) ==
    call' = [call EXCEPT ![r].pc = "idle", ![r].held = NoKey, ![r].result = result]

Begins(r, mode, entries) ==
    call' = [call EXCEPT ![r] = [IdleCall EXCEPT !.mode = mode, !.pc = "visit",
                                               !.entries = entries]]

\* resolve or inspect_model of a name without a provider
Begin(r, name, mode) ==
    /\ Free(r)
    /\ mode = "inspect" => name \notin DOMAIN Slashed
    /\ \E id \in Canonical(name) : Begins(r, mode, SortedProviders(get_model(id)))
    /\ UNCHANGED <<env, sets, cache, custom>>

\* resolve with provider_override: the first entry of the provider
Override(r, name, p) ==
    /\ Free(r)
    /\ \E id \in Canonical(name) :
         LET own == {i \in DOMAIN get_model(id) : provider_id(get_model(id)[i]) = p}
         IN  /\ own # {}
             /\ Begins(r, "override",
                       <<get_model(id)[CHOOSE i \in own : \A j \in own : i <= j]>>)
    /\ UNCHANGED <<env, sets, cache, custom>>

\* inspect_model of "provider/model": an entry made of the defaults
InspectSlashed(r, name) ==
    /\ Free(r)
    /\ name \in DOMAIN Slashed
    /\ Slashed[name] \in DOMAIN Defaults
    /\ LET p == Slashed[name]
       IN  Begins(r, "slashed", <<<<p, 1, Defaults[p][1], Defaults[p][2]>>>>)
    /\ UNCHANGED <<env, sets, cache, custom>>

\* The name, the override's provider or the defaults are unknown.
NotFound(r, name, mode) ==
    /\ Free(r)
    /\ CASE mode = "inspect" /\ name \in DOMAIN Slashed ->
              Slashed[name] \notin DOMAIN Defaults
         [] mode = "override" ->
              \/ Canonical(name) = {}
              \/ \E id \in Canonical(name), p \in DOMAIN KnownVars :
                    \A i \in DOMAIN get_model(id) : provider_id(get_model(id)[i]) # p
         [] OTHER -> Canonical(name) = {}
    /\ call' = [call EXCEPT ![r] = [IdleCall EXCEPT !.result = <<"not_found">>]]
    /\ UNCHANGED <<env, sets, cache, custom>>

\* What happens with the entry that won: its URL is validated, and an empty
\* URL is refused when resolve found a key for it.
Chosen(r, i, key) ==
    LET e == call[r].entries[i]
        url == resolve_base_url(e)
    IN  \E ok \in validate_base_url(url) :
           Returns(r, IF ~ok \/ /\ url = "empty"
                                /\ call[r].mode \in {"resolve", "override"}
                                /\ key # NoKey
                      THEN <<"config", i>> ELSE <<"ok", i, key>>)

\* What the visit of the current entry does with the key it saw
Saw(r, key) ==
    LET i == Len(call[r].seen) + 1
        seen == Append(call[r].seen, key)
    IN  IF call[r].mode \in {"override", "slashed"}
        THEN IF key = NoKey /\ call[r].mode = "override" /\ ~is_credentialless(At(r))
             THEN Returns(r, <<"missing">>)
             ELSE Chosen(r, i, key)
        ELSE IF key = NoKey
        THEN call' = [call EXCEPT ![r].pc = "visit", ![r].held = NoKey, ![r].seen = seen]
        ELSE IF call[r].mode = "list"
        THEN call' = [call EXCEPT ![r].pc = "next", ![r].held = NoKey, ![r].seen = seen]
        ELSE Chosen(r, i, key)

\* The priority changed, or the entries are used up: a credentialless entry
\* that was passed is taken now.
TakesCredentialless(r) ==
    /\ call[r].mode \in {"resolve", "inspect"}
    /\ BestCredentialless(r) # {}
    /\ \/ Visited(r)
       \/ priority(At(r)) # priority(call[r].entries[Len(call[r].seen)])

TakeCredentialless(r) ==
    /\ call[r].pc = "visit"
    /\ TakesCredentialless(r)
    /\ Chosen(r, CHOOSE i \in BestCredentialless(r) :
                    \A j \in BestCredentialless(r) : i <= j, NoKey)
    /\ UNCHANGED <<env, sets, calls, cache, custom>>

\* A credentialless entry needs no search. list_authenticated_models takes
\* the model, resolve remembers the entry.
PassCredentialless(r) ==
    /\ call[r].pc = "visit"
    /\ ~Visited(r)
    /\ ~TakesCredentialless(r)
    /\ call[r].mode \in {"resolve", "inspect", "list"}
    /\ is_credentialless(At(r))
    /\ call' = [call EXCEPT ![r].seen = Append(@, NoKey),
                            ![r].pc = IF call[r].mode = "list" THEN "next" ELSE "visit"]
    /\ UNCHANGED <<env, sets, calls, cache, custom>>

Searches(r) ==
    /\ call[r].pc = "visit"
    /\ ~Visited(r)
    /\ ~TakesCredentialless(r)
    /\ ~is_credentialless(At(r)) \/ call[r].mode \in {"override", "slashed"}

\* resolve_credentials, a hit: the cached answer, None too
Hit(r) ==
    /\ Searches(r)
    /\ credential_cache_key(At(r)) \in DOMAIN cache
    /\ Saw(r, cache[credential_cache_key(At(r))])
    /\ UNCHANGED <<env, sets, calls, cache, custom>>

\* A miss: external credentials and environment are read with no lock held.
Miss(r) ==
    /\ Searches(r)
    /\ credential_cache_key(At(r)) \notin DOMAIN cache
    /\ \E key \in Search(At(r)) :
          call' = [call EXCEPT ![r].pc = "insert", ![r].held = key]
    /\ UNCHANGED <<env, sets, calls, cache, custom>>

\* The insertion replaces what another caller has cached meanwhile.
Insert(r) ==
    /\ call[r].pc = "insert"
    /\ cache' = [k \in DOMAIN cache \cup {credential_cache_key(At(r))} |->
                    IF k = credential_cache_key(At(r)) THEN call[r].held ELSE cache[k]]
    /\ Saw(r, call[r].held)
    /\ UNCHANGED <<env, sets, calls, custom>>

\* No entry can be used. inspect_model returns the first all the same.
Exhausted(r) ==
    /\ call[r].pc = "visit"
    /\ Visited(r)
    /\ ~TakesCredentialless(r)
    /\ IF call[r].mode = "list" THEN call' = [call EXCEPT ![r].pc = "next"]
       ELSE IF call[r].entries = <<>> THEN Returns(r, <<"config", 0>>)
       ELSE IF call[r].mode = "inspect" THEN Chosen(r, 1, NoKey)
       ELSE Returns(r, <<"missing">>)
    /\ UNCHANGED <<env, sets, calls, cache, custom>>

\* list_authenticated_models: the catalog's models and the custom ones, in
\* the order of hash maps
ListModels(r) ==
    /\ Free(r)
    /\ call' = [call EXCEPT ![r] =
                  [IdleCall EXCEPT !.mode = "list", !.pc = "next",
                                 !.todo = {<<"catalog", id>> : id \in DOMAIN Catalog}
                                          \cup {<<"custom", id>> : id \in Registered}]]
    /\ UNCHANGED <<env, sets, cache, custom>>

\* The entry that ended the visit of a model was usable.
LastUsable(r) ==
    /\ call[r].seen # <<>>
    /\ \/ Last(call[r].seen) # NoKey
       \/ is_credentialless(call[r].entries[Len(call[r].seen)])

ListNext(r) ==
    /\ call[r].pc = "next"
    /\ LET found == IF LastUsable(r) THEN call[r].listed \cup {call[r].result[2]}
                                     ELSE call[r].listed
       IN  IF call[r].todo = {}
           THEN call' = [call EXCEPT ![r] = [IdleCall EXCEPT !.mode = "list", !.listed = found]]
           ELSE \E m \in call[r].todo :
                  call' = [call EXCEPT ![r].pc = "visit", ![r].seen = <<>>,
                             ![r].listed = found, ![r].todo = @ \ {m}, ![r].result = <<"listing", m>>,
                             ![r].entries = IF m[1] = "catalog" THEN Catalog[m[2]]
                                            ELSE Custom[custom[m[2]]][3]]
    /\ UNCHANGED <<env, sets, calls, cache, custom>>

\* register_model takes &mut self: no other call is in progress. A bad URL
\* is only a warning.
RegisterModel(k) ==
    /\ \A r \in Resolvers : call[r].pc = "idle"
    /\ custom[Custom[k][1]] # k
    /\ custom' = [custom EXCEPT ![Custom[k][1]] = k]
    /\ call' = [r \in Resolvers |-> IdleCall]
    /\ UNCHANGED <<env, sets, calls, cache>>

\* The process sets or removes one of its variables.
SetEnv(v) ==
    /\ sets < MaxSets
    /\ sets' = sets + 1
    /\ env' = [env EXCEPT ![v] = IF @ = 0 THEN sets + 1 ELSE 0]
    /\ UNCHANGED <<calls, cache, custom, call>>

RouterNext ==
    \/ \E r \in Resolvers :
         \/ \E name \in Names :
              \/ Begin(r, name, "resolve")
              \/ Begin(r, name, "inspect")
              \/ \E p \in DOMAIN KnownVars : Override(r, name, p)
              \/ InspectSlashed(r, name)
              \/ \E mode \in {"resolve", "override", "inspect"} : NotFound(r, name, mode)
         \/ TakeCredentialless(r)
         \/ PassCredentialless(r)
         \/ Hit(r)
         \/ Miss(r)
         \/ Insert(r)
         \/ Exhausted(r)
         \/ ListModels(r)
         \/ ListNext(r)
    \/ \E k \in DOMAIN Custom : RegisterModel(k)
    \/ \E v \in EnvVars : SetEnv(v)

----------------------------------------------------------------------------
(* Properties                                                              *)

\* A key belongs to one of the variables its entry may be opened with, and
\* it is the external one where there is one.
KeyOf(e, key) ==
    /\ key[1] \in credential_keys(e) \cup VarsOf(provider_id(e))
    /\ key[1] \in External <=> key[2] = 0

\* Entry i may be used, after what the call saw of it.
Usable(c, i) == is_credentialless(c.entries[i]) \/ c.seen[i] # NoKey

\* Entry i comes before entry j: a lower priority, then a key before no key,
\* then the order of the catalog.
Before(c, i, j) ==
    \/ priority(c.entries[i]) < priority(c.entries[j])
    \/ /\ priority(c.entries[i]) = priority(c.entries[j])
       /\ \/ is_credentialless(c.entries[j]) /\ ~is_credentialless(c.entries[i])
          \/ /\ is_credentialless(c.entries[i]) <=> is_credentialless(c.entries[j])
             /\ i <= j

\* Some entry needs no key, or has an external one.
CanBeUsed(entries) ==
    \E i \in DOMAIN entries :
       \/ is_credentialless(entries[i])
       \/ (credential_keys(entries[i]) \cup VarsOf(provider_id(entries[i])))
             \cap External # {}

\* Whatever the other callers and the environment do meanwhile, a call of
\* resolve or inspect_model that returns a provider returns the best one of
\* those it found usable, no entry it did not visit could have been better,
\* every key it saw is a key of the entry it was seen for, and it reports
\* missing credentials only when it found no usable entry at all. While
\* nobody changes the environment, list_authenticated_models is exact.
ResolutionIsSound ==
    \A r \in Resolvers :
      LET c == call[r]
      IN  /\ \A i \in DOMAIN c.seen : c.seen[i] # NoKey => KeyOf(c.entries[i], c.seen[i])
          /\ c.result[1] = "ok" =>
               LET i == c.result[2]
               IN  /\ c.result[3] # NoKey => KeyOf(c.entries[i], c.result[3])
                   /\ c.mode = "resolve" => is_credentialless(c.entries[i]) \/ c.result[3] # NoKey
                   /\ c.mode \in {"resolve", "override"} =>
                        \/ resolve_base_url(c.entries[i]) # "empty"
                        \/ is_credentialless(c.entries[i])
                   /\ c.mode = "resolve" =>
                        /\ \A j \in DOMAIN c.seen : Usable(c, j) => Before(c, i, j)
                        /\ \A j \in Len(c.seen) + 1 .. Len(c.entries) : Before(c, i, j)
          /\ c.result[1] = "missing" /\ c.mode = "resolve" =>
               \A i \in DOMAIN c.entries : ~Usable(c, i)
          /\ c.mode = "list" /\ c.pc = "idle" /\ sets = 0 =>
               c.listed = {m \in {"catalog"} \X DOMAIN Catalog : CanBeUsed(Catalog[m[2]])}
                          \cup {m \in {"custom"} \X Registered :
                                  CanBeUsed(Custom[custom[m[2]]][3])}
=============================================================================
