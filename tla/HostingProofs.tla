---------------------------- MODULE HostingProofs ---------------------------
(***************************************************************************)
(* Proofs about what hosts agents (MCHosting), for every set of profile    *)
(* directories, plugins and manifests, every plugin DAG and every limit.   *)
(* Each part has an inductive invariant of its own; the other parts leave  *)
(* its variables alone.                                                    *)
(***************************************************************************)
EXTENDS MCHosting, FiniteSetTheorems, TLAPS

\* The behaviour of the parts without the fairness of their threads: safety
\* follows from it alone.
LEMMA HostSafety == HostSpec => HostInit /\ [][HostNext]_hostVars
  BY PTL DEF HostSpec

----------------------------------------------------------------------------
(* Profiles *)

\* What was accepted since a sidecar was new is the sidecar's own content;
\* nothing was while there is none.
SidecarInv ==
    /\ sidecar \in [Dirs -> Toml \cup {Absent}]
    /\ toml \in [Dirs -> Toml \cup {Absent}]
    /\ edits \in 0..MaxEdits
    /\ reading # <<>> => DOMAIN reading = 1..3 /\ reading[1] \in Dirs /\ reading[2] \in Toml
    /\ accepted \in [Dirs -> SUBSET Toml]
    /\ \A d \in Dirs : accepted[d] \subseteq {sidecar[d]} \ {Absent}

\* Every step of the operator and of the watcher's thread keeps SidecarInv,
\* LoadProfile in both of its cases: a sidecar that was found is compared, a
\* missing one is written from the content that is accepted.
LEMMA SidecarStep ==
    ASSUME SidecarInv, ProfileNext
    PROVE  SidecarInv'
  <1> USE ProfileAssumption DEF SidecarInv
  <1>1. CASE Watch
    BY <1>1 DEF Watch, reloadVars
  <1>2. ASSUME NEW d \in Dirs, NEW n \in AgentNames, NEW v \in BOOLEAN, Write(d, n, v)
        PROVE  SidecarInv'
    <2>1. edits + 1 \in 0..MaxEdits /\ edits' = edits + 1
      BY <1>2 DEF Write, Notify
    <2>2. [name |-> n, version |-> edits + 1, valid |-> v] \in Toml
      BY <2>1 DEF Toml
    <2>3. QED
      BY <1>2, <2>1, <2>2 DEF Write, reloadVars
  <1>3. ASSUME NEW d \in Dirs, Delete(d)
        PROVE  SidecarInv'
    BY <1>3 DEF Delete, Notify, reloadVars
  <1>4. ASSUME NEW d \in Dirs, RemoveSidecar(d)
        PROVE  SidecarInv'
    BY <1>4 DEF RemoveSidecar, reloadVars
  <1>5. CASE BeginReload
    BY <1>5 DEF BeginReload
  <1>6. ASSUME NEW d \in Dirs, ReadProfile(d)
        PROVE  SidecarInv'
    BY <1>6 DEF ReadProfile
  <1>7. CASE FindSidecar
    <2>1. /\ DOMAIN reading' = DOMAIN reading
          /\ reading'[1] = reading[1] /\ reading'[2] = reading[2]
      BY <1>7 DEF FindSidecar
    <2>2. QED
      BY <1>7, <2>1 DEF FindSidecar
  <1>8. CASE LoadProfile
    <2> DEFINE d       == reading[1]
               content == reading[2]
    <2>1. d \in Dirs /\ content \in Toml
      BY <1>8 DEF LoadProfile
    <2>2. content.valid => content # Absent
      BY DEF Absent
    <2>3. CASE reading[3]
      <3>1. sidecar' = sidecar
        BY <1>8, <2>1, <2>3 DEF LoadProfile
      <3>2. CASE accepted' = accepted
        BY <1>8, <3>1, <3>2 DEF LoadProfile
      <3>3. CASE accepted' = [accepted EXCEPT ![d] = @ \cup {content}]
                 /\ content = sidecar[d] /\ content # Absent
        BY <1>8, <2>1, <3>1, <3>3 DEF LoadProfile
      <3>4. QED
        BY <1>8, <2>2, <2>3, <3>2, <3>3 DEF LoadProfile, Accepts
    <2>4. CASE ~reading[3]
      <3>1. sidecar[d] = Absent /\ sidecar' = [sidecar EXCEPT ![d] = content]
        BY <1>8, <2>4 DEF LoadProfile
      <3>2. accepted[d] = {}
        BY <2>1, <3>1
      <3>3. CASE accepted' = accepted
        BY <1>8, <2>1, <3>1, <3>2, <3>3 DEF LoadProfile
      <3>4. CASE accepted' = [accepted EXCEPT ![d] = @ \cup {content}] /\ content.valid
        BY <1>8, <2>1, <2>2, <3>1, <3>2, <3>4 DEF LoadProfile
      <3>5. QED
        BY <1>8, <2>4, <3>3, <3>4 DEF LoadProfile, Accepts
    <2>5. QED
      BY <2>3, <2>4
  <1>9. CASE Swap
    BY <1>9 DEF Swap
  <1>10. QED
    BY <1>1, <1>2, <1>3, <1>4, <1>5, <1>6, <1>7, <1>8, <1>9 DEF ProfileNext, Reload

\* A set of at most one element, counted.
LEMMA AtMostOne ==
    ASSUME NEW S, NEW e, S \subseteq {e}
    PROVE  Cardinality(S) <= 1
  <1>1. CASE S = {}
    BY <1>1, FS_EmptySet
  <1>2. CASE S = {e}
    BY <1>2, FS_Singleton
  <1>3. QED
    BY <1>1, <1>2

\* load_profile_verified: a directory whose sidecar stays never serves two
\* contents, whatever the operator edits between the steps of a reload.
THEOREM SidecarTheorem == HostSpec => []OneContentPerSidecar
  <1>1. HostInit => SidecarInv
    <2> SUFFICES ASSUME HostInit
                 PROVE  SidecarInv
      OBVIOUS
    <2>1. 0 \in 0..MaxEdits
      BY ProfileAssumption
    <2>2. \A t \in [name : AgentNames, version : {0}, valid : {TRUE}] : t \in Toml
      <3> SUFFICES ASSUME NEW t \in [name : AgentNames, version : {0}, valid : {TRUE}]
                   PROVE  t \in Toml
        OBVIOUS
      <3>1. t.name \in AgentNames /\ t.version = 0 /\ t.valid = TRUE
        OBVIOUS
      <3>2. t = [name |-> t.name, version |-> t.version, valid |-> t.valid]
        OBVIOUS
      <3>3. [name |-> t.name, version |-> t.version, valid |-> t.valid] \in Toml
        BY <2>1, <3>1 DEF Toml
      <3>4. QED
        BY <3>2, <3>3
    <2>3. toml \in [Dirs -> Toml \cup {Absent}]
      BY <2>2 DEF HostInit, ProfileInit
    <2>4. QED
      BY <2>3, ProfileAssumption DEF HostInit, ProfileInit, SidecarInv
  <1>2. SidecarInv /\ [HostNext]_hostVars => SidecarInv'
    <2> SUFFICES ASSUME SidecarInv, [HostNext]_hostVars
                 PROVE  SidecarInv'
      OBVIOUS
    <2>1. CASE ProfileNext
      BY <2>1, SidecarStep
    <2>2. CASE UNCHANGED profileVars
      BY <2>2 DEF profileVars, SidecarInv
    <2>3. QED
      BY <2>1, <2>2 DEF HostNext, DagPart, Registry, Runner, hostVars
  <1>3. SidecarInv => OneContentPerSidecar
    BY AtMostOne DEF SidecarInv, OneContentPerSidecar
  <1>4. QED
    BY <1>1, <1>2, <1>3, HostSafety, PTL

----------------------------------------------------------------------------
(* The agent runner *)

\* A verdict is given once, and only returning gives it.
RunnerInv ==
    /\ RunnerReturnsValid
    /\ at # "returned" => verdict = "none"

\* AgentRunner::run: with an output schema, only output that was validated
\* against it is returned as a success, on every path through the retries.
THEOREM RunnerTheorem == HostSpec => []RunnerReturnsValid
  <1>1. HostInit => RunnerInv
    BY DEF HostInit, RunnerInit, RunnerInv, RunnerReturnsValid
  <1>2. RunnerInv /\ [HostNext]_hostVars => RunnerInv'
    <2> SUFFICES ASSUME RunnerInv, [HostNext]_hostVars
                 PROVE  RunnerInv'
      OBVIOUS
    <2> USE DEF RunnerInv, RunnerReturnsValid
    <2>1. CASE SchemaUnusable
      BY <2>1 DEF SchemaUnusable, Returns
    <2>2. CASE FirstRun
      BY <2>2 DEF FirstRun
    <2>3. CASE RunOnceFails
      BY <2>3 DEF RunOnceFails, Returns
    <2>4. ASSUME NEW o \in {"raw", "json", "conforming"}, RunOnce(o)
          PROVE  RunnerInv'
      BY <2>4 DEF RunOnce, Returns
    <2>5. CASE Validate
      BY <2>5 DEF Validate, Returns
    <2>6. CASE UNCHANGED runnerVars
      BY <2>6 DEF runnerVars
    <2>7. QED
      BY <2>1, <2>2, <2>3, <2>4, <2>5, <2>6
      DEF HostNext, RunnerNext, Profiles, DagPart, Registry, hostVars
  <1>3. RunnerInv => RunnerReturnsValid
    BY DEF RunnerInv
  <1>4. QED
    BY <1>1, <1>2, <1>3, HostSafety, PTL

----------------------------------------------------------------------------
(* The plugin registry *)

\* The thread has one reload in hand: what it removes is not in the directory
\* it loaded, what it replaces is, and every bundle it puts in is a real one.
ReloadInv ==
    /\ files \in [Manifests -> Files]
    /\ plugins \in [Plugins -> Nat]
    /\ thread \in {"starting", "waiting", "removing", "replacing"}
    /\ \A n \in DOMAIN next : next[n] \in Nat \ {NoPlugin}
    /\ thread = "removing" => todo \cap DOMAIN next = {}
    /\ thread = "replacing" => todo \subseteq DOMAIN next

\* load_dir, where it succeeds, gives every name it found a bundle.
LEMMA LoadedIsABundle ==
    ASSUME files \in [Manifests -> Files], LoadOk, NEW n \in LoadedNames
    PROVE  Loaded[n] \in Nat \ {NoPlugin}
  <1>1. PICK f \in Present : files[f].name = n
    BY DEF LoadedNames
  <1>2. f \in Manifests /\ files[f] # Missing /\ files[f] # Broken /\ files[f] \in Files
    BY <1>1 DEF LoadOk, Present
  <1>3. files[f] \in [name : Plugins, version : Bundles]
    BY <1>2 DEF Files
  <1>4. files[f].version \in Bundles /\ files[f] = [name |-> n, version |-> files[f].version]
    BY <1>1, <1>3
  <1>5. \E v \in Bundles : \E g \in Present : files[g] = [name |-> n, version |-> v]
    BY <1>1, <1>4
  <1>6. Loaded[n] \in Bundles
    BY <1>5 DEF Loaded
  <1>7. \A v \in Bundles : v \in Nat \ {NoPlugin}
    BY PluginAssumption DEF Bundles, NoPlugin
  <1>8. QED
    BY <1>6, <1>7

\* An edit of a manifest and every step of the watcher keep ReloadInv.
LEMMA ReloadStep ==
    ASSUME ReloadInv, PluginNext
    PROVE  ReloadInv'
  <1> USE DEF ReloadInv
  <1>1. ASSUME NEW f \in Manifests, NEW file \in Files, EditManifest(f, file)
        PROVE  ReloadInv'
    BY <1>1 DEF EditManifest
  <1>2. CASE FirstScan
    BY <1>2 DEF FirstScan
  <1>3. CASE LoadFails
    BY <1>3 DEF LoadFails
  <1>4. CASE ReplaceWholeMap
    BY <1>4, LoadedIsABundle DEF ReplaceWholeMap, NoPlugin
  <1>5. CASE LoadBundles
    <2>1. DOMAIN Loaded = LoadedNames
      BY DEF Loaded
    <2>2. \A n \in DOMAIN Loaded : Loaded[n] \in Nat \ {NoPlugin}
      BY <1>5, <2>1, LoadedIsABundle DEF LoadBundles
    <2>3. (local \ LoadedNames) \cap DOMAIN Loaded = {}
      BY <2>1
    <2>4. QED
      BY <1>5, <2>2, <2>3 DEF LoadBundles
  <1>6. ASSUME NEW n \in Plugins, RemoveOne(n)
        PROVE  ReloadInv'
    BY <1>6 DEF RemoveOne, NoPlugin
  <1>7. ASSUME NEW n \in Plugins, ReplaceOne(n)
        PROVE  ReloadInv'
    BY <1>7 DEF ReplaceOne
  <1>8. CASE AllRemoved
    BY <1>8 DEF AllRemoved
  <1>9. CASE AllReplaced
    BY <1>9 DEF AllReplaced
  <1>10. QED
    BY <1>1, <1>2, <1>3, <1>4, <1>5, <1>6, <1>7, <1>8, <1>9 DEF PluginNext, Watcher

\* A step that unregisters a plugin is a removal of a name that is not in the
\* directory, one by one or with the whole map.
LEMMA Unregisters ==
    ASSUME ReloadInv, PluginNext, NEW n \in Plugins,
           plugins[n] # NoPlugin, plugins'[n] = NoPlugin
    PROVE  n \notin (IF thread = "waiting" THEN LoadedNames ELSE DOMAIN next)
  <1> USE DEF ReloadInv
  <1>1. CASE ReplaceWholeMap
    <2>1. thread = "waiting" /\ LoadOk
      BY <1>1 DEF ReplaceWholeMap
    <2>2. n \in LoadedNames => plugins'[n] # NoPlugin
      BY <1>1, <2>1, LoadedIsABundle DEF ReplaceWholeMap
    <2>3. QED
      BY <2>1, <2>2
  <1>2. ASSUME NEW m \in Plugins, RemoveOne(m)
        PROVE  thread = "removing" /\ n \notin DOMAIN next
    BY <1>2 DEF RemoveOne
  <1>3. ASSUME NEW m \in Plugins, ReplaceOne(m)
        PROVE  FALSE
    BY <1>3 DEF ReplaceOne
  <1>4. plugins' = plugins \/ ReplaceWholeMap \/ \E m \in Plugins : RemoveOne(m) \/ ReplaceOne(m)
    BY DEF PluginNext, Watcher, EditManifest, FirstScan, LoadFails, LoadBundles, AllRemoved,
           AllReplaced
  <1>5. QED
    BY <1>1, <1>2, <1>3, <1>4

\* ReloadInv is an invariant.
LEMMA ReloadHolds == HostSpec => []ReloadInv
  <1>1. HostInit => ReloadInv
    <2> SUFFICES ASSUME HostInit
                 PROVE  ReloadInv
      OBVIOUS
    <2>1. 2 \in Bundles
      BY PluginAssumption DEF Bundles
    <2>2. \A t \in [name : Plugins, version : {2}] : t \in [name : Plugins, version : Bundles]
      <3> SUFFICES ASSUME NEW t \in [name : Plugins, version : {2}]
                   PROVE  t \in [name : Plugins, version : Bundles]
        OBVIOUS
      <3>1. t.name \in Plugins /\ t.version \in Bundles /\ t = [name |-> t.name, version |-> t.version]
        BY <2>1
      <3>2. QED
        BY <3>1
    <2>3. files \in [Manifests -> Files]
      BY <2>2 DEF HostInit, PluginInit, Files
    <2>4. plugins \in [Plugins -> Nat]
      BY <2>3, LoadedIsABundle DEF HostInit, PluginInit, BuiltIn, NoPlugin
    <2>5. QED
      BY <2>3, <2>4 DEF HostInit, PluginInit, ReloadInv
  <1>2. ReloadInv /\ [HostNext]_hostVars => ReloadInv'
    <2> SUFFICES ASSUME ReloadInv, [HostNext]_hostVars
                 PROVE  ReloadInv'
      OBVIOUS
    <2>1. CASE PluginNext
      BY <2>1, ReloadStep
    <2>2. CASE UNCHANGED pluginVars
      BY <2>2 DEF pluginVars, ReloadInv, Present
    <2>3. QED
      BY <2>1, <2>2 DEF HostNext, Profiles, DagPart, Runner, hostVars, dagVars
  <1>3. QED
    BY <1>1, <1>2, HostSafety, PTL

\* The plugin watcher: no step of a reload unregisters a plugin that the
\* directory it loaded contains, whatever is edited meanwhile.
THEOREM KeepsPluginsTheorem == HostSpec => ReloadKeepsPlugins
  <1>1. ReloadInv /\ [HostNext]_hostVars =>
          [\A n \in Plugins : plugins[n] # NoPlugin /\ plugins'[n] = NoPlugin =>
             n \notin (IF thread = "waiting" THEN LoadedNames ELSE DOMAIN next)]_pluginVars
    <2> SUFFICES ASSUME ReloadInv, [HostNext]_hostVars, ~ UNCHANGED pluginVars,
                        NEW n \in Plugins, plugins[n] # NoPlugin, plugins'[n] = NoPlugin
                 PROVE  n \notin (IF thread = "waiting" THEN LoadedNames ELSE DOMAIN next)
      OBVIOUS
    <2>1. PluginNext
      BY DEF HostNext, Profiles, DagPart, Runner, hostVars, dagVars
    <2>2. QED
      BY <2>1, Unregisters
  <1>2. QED
    BY <1>1, ReloadHolds, HostSafety, PTL DEF ReloadKeepsPlugins

----------------------------------------------------------------------------
(* The plugin DAG *)

\* Where a walk can be: at a slot, or at the target of an edge, declared or
\* not.
Places == Slots \cup {EdgesOf(s)[i].target : s \in Slots, i \in DOMAIN Edges}

Results == {"none", "ok", "MaxSlotTransitionsExceeded", "SlotNotFound", "PluginNotFound",
            "SetupFailed", "ForkNotSupportedInDag", "MaxTurnsExceeded", "Other",
            "OutputTooLarge", "panicked", "Escalated", "Aborted"}

DagRuns == [pc : {"idle", "slot", "call", "route", "ended"}, slot : Places,
            transitions : Nat, bundle : Nat, attempt : Nat, turns : Nat, calls : Nat,
            visited : Seq(Slots), result : Results]

DagTypeOK == dag \in DagRuns

\* What a walk has counted so far: one visit for every transition, and the
\* slot it is leaving; one call for every attempt, and the answer it took.
DagCounts ==
    /\ dag.pc \in {"call", "route"} => /\ dag.slot \in Slots
                                       /\ dag.transitions < MaxTransitions
                                       /\ dag.calls <= SlotTurns[dag.slot]
    /\ dag.pc \in {"idle", "slot"} => dag.transitions <= MaxTransitions
    /\ dag.pc \in {"idle", "slot", "call"} => Len(dag.visited) = dag.transitions
    /\ dag.pc = "call" => dag.calls = dag.attempt
    /\ dag.pc = "route" => /\ Len(dag.visited) = dag.transitions + 1
                           /\ Last(dag.visited) = dag.slot
                           /\ dag.turns = dag.calls
    /\ dag.pc # "ended" => dag.result = "none"

\* The results that name a limit, and what they say of the run.
DagResults ==
    /\ Len(dag.visited) <= MaxTransitions
    /\ dag.result = "MaxTurnsExceeded" => dag.calls = SlotTurns[dag.slot]
    /\ dag.result = "MaxSlotTransitionsExceeded" => Len(dag.visited) = MaxTransitions
    /\ dag.result = "Escalated" => dag.calls > Behavior[dag.slot].retries
    /\ dag.result = "ok" => dag.visited # <<>> /\ Last(dag.visited) = dag.slot

DagInv == DagTypeOK /\ DagCounts /\ DagResults

\* The fields of a run and their types.
LEMMA DagFields ==
    ASSUME DagTypeOK
    PROVE  /\ dag.pc \in {"idle", "slot", "call", "route", "ended"} /\ dag.slot \in Places
           /\ dag.transitions \in Nat /\ dag.attempt \in Nat /\ dag.turns \in Nat
           /\ dag.calls \in Nat /\ dag.visited \in Seq(Slots) /\ Len(dag.visited) \in Nat
  BY DEF DagTypeOK, DagRuns

\* Moving on and trying again give a run again.
LEMMA RunsStayRuns ==
    ASSUME NEW r \in DagRuns, NEW n \in Nat, NEW t \in Places
    PROVE  /\ [r EXCEPT !.attempt = n] \in DagRuns
           /\ [r EXCEPT !.pc = "slot", !.slot = t, !.transitions = n] \in DagRuns
  BY DEF DagRuns

\* A run that ends keeps its counters.
LEMMA EndsKeeps ==
    ASSUME DagTypeOK, NEW r \in Results, Ends(r)
    PROVE  /\ DagTypeOK'
           /\ dag'.pc = "ended" /\ dag'.result = r /\ dag'.slot = dag.slot
           /\ dag'.calls = dag.calls /\ dag'.visited = dag.visited
  BY DEF DagTypeOK, DagRuns, Ends

\* The run ends without a call, with a result that names no limit.
LEMMA EndsQuietly ==
    ASSUME DagInv, NEW r \in {"SlotNotFound", "PluginNotFound", "SetupFailed", "ForkNotSupportedInDag"},
           Ends(r)
    PROVE  DagInv'
  <1>1. r \in Results
    BY DEF Results
  <1>2. QED
    BY <1>1, EndsKeeps DEF DagInv, DagCounts, DagResults

\* PluginDagRunner::run: entering a slot, following an edge, ending the walk.
LEMMA WalkStep ==
    ASSUME DagInv,
           \/ Start \/ TooManyTransitions \/ SlotNotFound \/ PluginNotFound \/ SetupFails
           \/ EnterSlot \/ Endpoint
           \/ \E i \in DOMAIN Edges : FollowEdge(i) \/ ForkInDag(i),
           plugins \in [Plugins -> Nat]
    PROVE  DagInv'
  <1> USE DagAssumption DEF DagInv
  <1>1. CASE Start
    <2>1. DagTypeOK'
      BY <1>1 DEF Start, DagTypeOK, DagRuns
    <2>2. /\ dag.pc = "idle" /\ dag'.pc = "slot"
          /\ dag'.transitions = dag.transitions /\ dag'.visited = dag.visited
          /\ dag'.result = dag.result
      BY <1>1 DEF Start, DagTypeOK, DagRuns
    <2>3. QED
      BY <2>1, <2>2 DEF DagCounts, DagResults
  <1>2. CASE TooManyTransitions
    <2>1. /\ DagTypeOK' /\ dag'.pc = "ended" /\ dag'.result = "MaxSlotTransitionsExceeded"
          /\ dag'.visited = dag.visited
      BY <1>2, EndsKeeps DEF TooManyTransitions, Results
    <2>2. dag.pc = "slot" /\ dag.transitions >= MaxTransitions
      BY <1>2 DEF TooManyTransitions
    <2>3. QED
      BY <2>1, <2>2, DagFields DEF DagCounts, DagResults
  <1>3. CASE SlotNotFound
    BY <1>3, EndsQuietly DEF SlotNotFound
  <1>4. CASE PluginNotFound
    BY <1>4, EndsQuietly DEF PluginNotFound
  <1>5. CASE SetupFails
    BY <1>5, EndsQuietly DEF SetupFails
  <1>6. CASE EnterSlot
    <2>1. /\ dag.slot \in Slots /\ PluginOf[dag.slot] \in Plugins /\ SlotTurns[dag.slot] \in Nat
          /\ plugins[PluginOf[dag.slot]] \in Nat
      BY <1>6 DEF EnterSlot
    <2>2. DagTypeOK'
      BY <1>6, <2>1 DEF EnterSlot, DagTypeOK, DagRuns
    <2>3. /\ dag'.pc = "call" /\ dag'.slot = dag.slot /\ dag'.transitions = dag.transitions
          /\ dag'.attempt = 0 /\ dag'.calls = 0 /\ dag'.visited = dag.visited
          /\ dag'.result = dag.result
      BY <1>6 DEF EnterSlot, DagTypeOK, DagRuns
    <2>4. dag.pc = "slot" /\ dag.transitions < MaxTransitions
      BY <1>6 DEF EnterSlot, SlotReady
    <2>5. QED
      BY <2>1, <2>2, <2>3, <2>4, DagFields DEF DagCounts, DagResults
  <1>7. CASE Endpoint
    <2>1. /\ DagTypeOK' /\ dag'.pc = "ended" /\ dag'.result = "ok"
          /\ dag'.visited = dag.visited /\ dag'.slot = dag.slot
      BY <1>7, EndsKeeps DEF Endpoint, Results
    <2>2. dag.pc = "route"
      BY <1>7 DEF Endpoint
    <2>3. Len(dag.visited) # 0 => dag.visited # <<>>
      OBVIOUS
    <2>4. QED
      BY <2>1, <2>2, <2>3, DagFields DEF DagCounts, DagResults
  <1>8. ASSUME NEW i \in DOMAIN Edges, FollowEdge(i)
        PROVE  DagInv'
    <2> DEFINE target == EdgesOf(dag.slot)[i].target
    <2>1. dag.pc = "route" /\ dag.slot \in Slots
      BY <1>8 DEF FollowEdge, DagCounts
    <2>2. target \in Places
      BY <2>1 DEF Places
    <2>3. dag' = [dag EXCEPT !.pc = "slot", !.slot = target, !.transitions = dag.transitions + 1]
      BY <1>8 DEF FollowEdge, DagTypeOK, DagRuns
    <2> HIDE DEF target
    <2>4. DagTypeOK'
      <3>1. dag.transitions + 1 \in Nat
        BY DagFields
      <3>2. QED
        BY <2>2, <2>3, <3>1, RunsStayRuns DEF DagTypeOK
    <2>5. /\ dag'.pc = "slot" /\ dag'.transitions = dag.transitions + 1
          /\ dag'.visited = dag.visited /\ dag'.result = dag.result
      BY <2>3 DEF DagTypeOK, DagRuns
    <2>6. QED
      BY <2>1, <2>4, <2>5, DagFields DEF DagCounts, DagResults
  <1>9. ASSUME NEW i \in DOMAIN Edges, ForkInDag(i)
        PROVE  DagInv'
    BY <1>9, EndsQuietly DEF ForkInDag
  <1>10. QED
    BY <1>1, <1>2, <1>3, <1>4, <1>5, <1>6, <1>7, <1>8, <1>9

\* A call is counted and changes nothing else.
LEMMA CalledCounts ==
    ASSUME DagTypeOK
    PROVE  /\ Called \in DagRuns /\ Called.calls = dag.calls + 1
           /\ Called.pc = dag.pc /\ Called.slot = dag.slot /\ Called.result = dag.result
           /\ Called.transitions = dag.transitions /\ Called.attempt = dag.attempt
           /\ Called.visited = dag.visited
  BY DEF Called, DagTypeOK, DagRuns

\* A call that ends the run: its answer is not taken.
LEMMA EndsByCall ==
    ASSUME DagInv, Calls, NEW r \in {"Other", "OutputTooLarge", "panicked", "Escalated", "Aborted"},
           r = "Escalated" => dag.attempt >= Behavior[dag.slot].retries,
           dag' = [Called EXCEPT !.pc = "ended", !.result = r]
    PROVE  DagInv'
  <1> USE DagAssumption DEF DagInv
  <1>1. r \in Results
    BY DEF Results
  <1>2. DagTypeOK'
    BY <1>1, CalledCounts DEF DagTypeOK, DagRuns
  <1>3. /\ dag'.pc = "ended" /\ dag'.result = r /\ dag'.slot = dag.slot
        /\ dag'.calls = dag.calls + 1 /\ dag'.visited = dag.visited
    BY CalledCounts DEF DagRuns
  <1>4. dag.pc = "call"
    BY DEF Calls
  <1>5. dag.slot \in Slots /\ Behavior[dag.slot].retries \in Nat
    BY <1>4 DEF DagCounts
  <1>6. DagCounts'
    BY <1>3 DEF DagCounts
  <1>7. dag'.result = "Escalated" => dag'.calls > Behavior[dag'.slot].retries
    BY <1>3, <1>4, <1>5, DagFields DEF DagCounts
  <1>8. Len(dag'.visited) <= MaxTransitions
    BY <1>3, <1>4, DagFields DEF DagCounts
  <1>9. DagResults'
    BY <1>3, <1>7, <1>8 DEF DagResults
  <1>10. QED
    BY <1>2, <1>6, <1>9

\* run_plugin_loop: every call is counted, retries stop at the limits.
LEMMA PluginLoopStep ==
    ASSUME DagInv,
           \/ TurnsExceeded \/ CallFails \/ LowConfidence \/ OutputTooLarge \/ Accepted
           \/ ParseRetries \/ HintPanics \/ ParseFails
    PROVE  DagInv'
  <1> USE DagAssumption DEF DagInv
  <1>1. dag.pc = "call"
    BY DEF TurnsExceeded, CallFails, LowConfidence, OutputTooLarge, Accepted, ParseRetries,
           HintPanics, ParseFails, Calls
  <1>2. /\ dag.slot \in Slots /\ SlotTurns[dag.slot] \in Nat
        /\ Behavior[dag.slot].retries \in Nat
    BY <1>1 DEF DagCounts
  <1>3. CASE TurnsExceeded
    <2>1. /\ DagTypeOK' /\ dag'.pc = "ended" /\ dag'.result = "MaxTurnsExceeded"
          /\ dag'.visited = dag.visited /\ dag'.calls = dag.calls /\ dag'.slot = dag.slot
      BY <1>3, EndsKeeps DEF TurnsExceeded, Results
    <2>2. dag.attempt >= SlotTurns[dag.slot]
      BY <1>3 DEF TurnsExceeded
    <2>3. QED
      BY <1>1, <1>2, <2>1, <2>2, DagFields DEF DagCounts, DagResults
  <1>4. CASE CallFails \/ OutputTooLarge \/ HintPanics
    BY <1>4, EndsByCall DEF CallFails, OutputTooLarge, HintPanics
  <1>5. CASE LowConfidence \/ ParseRetries
    <2>1. Calls /\ dag' = [Called EXCEPT !.attempt = @ + 1]
      BY <1>5 DEF LowConfidence, ParseRetries
    <2>2. DagTypeOK'
      <3>1. Called \in DagRuns /\ dag.slot \in Places /\ Called.attempt + 1 \in Nat
        BY CalledCounts, DagFields
      <3>2. dag' = [Called EXCEPT !.attempt = Called.attempt + 1]
        BY <2>1, <3>1 DEF DagRuns
      <3>3. QED
        BY <3>1, <3>2, RunsStayRuns DEF DagTypeOK
    <2>3. /\ dag'.pc = dag.pc /\ dag'.slot = dag.slot /\ dag'.transitions = dag.transitions
          /\ dag'.attempt = dag.attempt + 1 /\ dag'.calls = dag.calls + 1
          /\ dag'.visited = dag.visited /\ dag'.result = dag.result
      BY <2>1, CalledCounts DEF DagRuns
    <2>4. dag.attempt < SlotTurns[dag.slot]
      BY <2>1 DEF Calls
    <2>5. QED
      BY <1>1, <1>2, <2>2, <2>3, <2>4, DagFields DEF DagCounts, DagResults
  <1>6. CASE Accepted
    <2>1. /\ Append(dag.visited, dag.slot) \in Seq(Slots)
          /\ Len(Append(dag.visited, dag.slot)) = Len(dag.visited) + 1
          /\ Last(Append(dag.visited, dag.slot)) = dag.slot
      BY <1>2, DagFields DEF Last
    <2>2. dag.attempt + 1 \in Nat /\ dag.calls + 1 \in Nat
      BY DagFields
    <2>3. dag' = [[dag EXCEPT !.calls = dag.calls + 1]
                    EXCEPT !.pc = "route", !.turns = dag.attempt + 1,
                           !.visited = Append(dag.visited, dag.slot)]
      BY <1>6 DEF Accepted, Called, DagTypeOK, DagRuns
    <2>4. DagTypeOK'
      BY <2>1, <2>2, <2>3 DEF DagTypeOK, DagRuns
    <2>5. /\ dag'.pc = "route" /\ dag'.slot = dag.slot /\ dag'.transitions = dag.transitions
          /\ dag'.turns = dag.attempt + 1 /\ dag'.calls = dag.calls + 1
          /\ dag'.visited = Append(dag.visited, dag.slot) /\ dag'.result = dag.result
      BY <2>3 DEF DagTypeOK, DagRuns
    <2>6. dag.attempt < SlotTurns[dag.slot]
      BY <1>6 DEF Accepted, Calls
    <2>7. DagCounts'
      BY <1>1, <1>2, <2>1, <2>5, <2>6, DagFields DEF DagCounts
    <2>8. DagResults'
      BY <1>1, <2>1, <2>5, DagFields DEF DagCounts, DagResults
    <2>9. QED
      BY <2>4, <2>7, <2>8
  <1>7. CASE ParseFails
    <2>1. Behavior[dag.slot].mode = "strict" => dag.attempt >= Behavior[dag.slot].retries
      BY <1>2, <1>7, DagFields DEF ParseFails, MayRetry
    <2>2. QED
      BY <1>7, <2>1, EndsByCall DEF ParseFails
  <1>8. QED
    BY <1>3, <1>4, <1>5, <1>6, <1>7

\* PluginDagRunner: what a run reports of its turns, transitions and limits
\* is what happened, on every DAG and beside every reload of the registry.
THEOREM DagTheorem == HostSpec => []DagAccount
  <1>1. HostInit => DagInv
    <2> SUFFICES ASSUME HostInit
                 PROVE  DagInv
      OBVIOUS
    <2>1. dag = NoRun /\ Entry \in Slots
      BY DagAssumption DEF HostInit, DagInit
    <2>2. DagTypeOK
      BY <2>1 DEF NoRun, DagTypeOK, DagRuns, Places, NoPlugin, Results
    <2>3. QED
      BY <2>1, <2>2, DagAssumption DEF NoRun, DagInv, DagCounts, DagResults
  <1>2. DagInv /\ ReloadInv /\ [HostNext]_hostVars => DagInv'
    <2> SUFFICES ASSUME DagInv, ReloadInv, [HostNext]_hostVars
                 PROVE  DagInv'
      OBVIOUS
    <2>1. CASE DagNext
      BY <2>1, WalkStep, PluginLoopStep DEF DagNext, DagStep, ReloadInv
    <2>2. CASE UNCHANGED dag
      BY <2>2 DEF DagInv, DagTypeOK, DagRuns, DagCounts, DagResults
    <2>3. QED
      BY <2>1, <2>2 DEF HostNext, Profiles, Registry, Runner, hostVars, dagVars
  <1>3. DagInv => DagAccount
    BY DagFields DEF DagInv, DagCounts, DagResults, DagAccount
  <1>4. QED
    BY <1>1, <1>2, <1>3, ReloadHolds, HostSafety, PTL
=============================================================================
