---------------------------- MODULE ProfileReload ---------------------------
(***************************************************************************)
(* bus/profile.rs, bus/registry.rs and bus/watcher.rs: agent profiles on   *)
(* disk, their hash sidecars, the registry loaded from them and the thread *)
(* that reloads it.  A profile is its agent's name and a version; a blake3 *)
(* hash is identified with the content it was computed from.  notify (one  *)
(* message per change of a watched file) is external.                      *)
(***************************************************************************)
EXTENDS Naturals, FiniteSets, Functions

CONSTANTS
    Dirs,         \* directories below agents/
    AgentNames,   \* names a profile can give its agent
    MaxEdits      \* bound: edits of profiles by the operator

ASSUME ProfileAssumption == MaxEdits \in Nat

Absent == [name |-> "absent", version |-> 0, valid |-> FALSE]
Toml   == [name : AgentNames, version : 0..MaxEdits, valid : BOOLEAN]

VARIABLES
    toml,       \* agent.toml of a directory
    sidecar,    \* the content whose hash its agent.toml.hash holds
    edits,      \* edits so far
    watching,   \* Watcher::spawn was called
    signals,    \* messages waiting in the watcher's channel
    loading,    \* the thread is reloading
    scan,       \* directories the reload has still to read
    reading,    \* the profile it is at: directory, content, whether a sidecar was there
    building,   \* agents of the registry being loaded
    agents,     \* the registry the program uses: name -> profile
    accepted,   \* history: contents of a directory taken since its sidecar was new
    missed      \* history: an edit nobody was told about, and none since

profileVars == <<toml, sidecar, edits, watching, signals, loading, scan,
                 reading, building, agents, accepted, missed>>
reloadVars  == <<loading, scan, reading, building>>

----------------------------------------------------------------------------
(* load_profile_verified *)

\* Mutant of Accepts: the hash is not compared.
AcceptsAnything(content, side) == content.valid

\* A stored hash has to match; then the profile has to parse.
Accepts(content, side) == (side = Absent \/ side = content) /\ content.valid

\* What a scan of the whole disk can give; of two directories with one
\* agent's name the one read last wins.
Loadable == {d \in Dirs : toml[d] # Absent /\ Accepts(toml[d], sidecar[d])}
Fresh ==
    /\ DOMAIN agents = {toml[d].name : d \in Loadable}
    /\ \A n \in DOMAIN agents : \E d \in Loadable :
         toml[d].name = n /\ agents[n] = toml[d]

----------------------------------------------------------------------------
(* Starting: the registry is loaded, later the watcher is started *)

ProfileInit ==
    /\ toml \in [Dirs -> [name : AgentNames, version : {0}, valid : {TRUE}] \cup {Absent}]
    /\ sidecar = toml
    /\ edits = 0
    /\ watching = FALSE
    /\ signals = 0
    /\ loading = FALSE
    /\ scan = {}
    /\ reading = <<>>
    /\ building = <<>>
    /\ agents \in UNION {[S -> Toml] : S \in SUBSET AgentNames}
    /\ Fresh
    /\ accepted = [d \in Dirs |-> {toml[d]} \ {Absent}]
    /\ missed = FALSE

Watch ==
    /\ ~watching
    /\ watching' = TRUE
    /\ UNCHANGED <<toml, sidecar, edits, signals, reloadVars, agents, accepted, missed>>

----------------------------------------------------------------------------
(* The operator, and notify's callback *)

Notify ==
    /\ edits < MaxEdits
    /\ edits' = edits + 1
    /\ signals' = IF watching THEN signals + 1 ELSE signals
    /\ missed' = ~watching

\* agent.toml is created, changed (perhaps to something that does not parse)
\* or removed.
Write(d, name, valid) ==
    /\ Notify
    /\ toml' = [toml EXCEPT ![d] = [name |-> name, version |-> edits + 1, valid |-> valid]]
    /\ UNCHANGED <<sidecar, watching, reloadVars, agents, accepted>>

Delete(d) ==
    /\ toml[d] # Absent
    /\ Notify
    /\ toml' = [toml EXCEPT ![d] = Absent]
    /\ UNCHANGED <<sidecar, watching, reloadVars, agents, accepted>>

\* Removing the sidecar approves the next content.  The callback reacts to
\* agent.toml.sha256, so nobody hears of it.
RemoveSidecar(d) ==
    /\ sidecar[d] # Absent /\ edits < MaxEdits
    /\ edits' = edits + 1
    /\ sidecar' = [sidecar EXCEPT ![d] = Absent]
    /\ accepted' = [accepted EXCEPT ![d] = {}]
    /\ missed' = TRUE
    /\ UNCHANGED <<toml, watching, signals, reloadVars, agents>>

----------------------------------------------------------------------------
(* The watcher's thread: load_dir into a new registry, then swap *)

BeginReload ==
    /\ ~loading /\ signals > 0
    /\ signals' = signals - 1
    /\ loading' = TRUE
    /\ scan' = Dirs
    /\ missed' = FALSE
    /\ UNCHANGED <<toml, sidecar, edits, watching, reading, building, agents, accepted>>

\* Directories come in the order of read_dir.  The content is read once.
ReadProfile(d) ==
    /\ reading = <<>> /\ d \in scan
    /\ scan' = scan \ {d}
    /\ reading' = IF toml[d] = Absent THEN <<>> ELSE <<d, toml[d], FALSE>>
    /\ UNCHANGED <<toml, sidecar, edits, watching, signals, loading, building, agents,
                   accepted, missed>>

\* Whether there is a sidecar is asked before it is read.
FindSidecar ==
    /\ reading # <<>> /\ ~reading[3] /\ sidecar[reading[1]] # Absent
    /\ reading' = [reading EXCEPT ![3] = TRUE]
    /\ UNCHANGED <<toml, sidecar, edits, watching, signals, loading, scan, building,
                   agents, accepted, missed>>

\* Without a sidecar one is written, before the profile is parsed.  A profile
\* that fails is only listed, as is one whose sidecar went away after it was
\* found.
LoadProfile ==
    /\ reading # <<>>
    /\ LET d       == reading[1]
           content == reading[2]
           found   == reading[3]
           fails   == found /\ sidecar[d] = Absent
       IN  /\ found \/ sidecar[d] = Absent
           /\ sidecar' = [sidecar EXCEPT ![d] = IF found THEN @ ELSE content]
           /\ IF ~fails /\ Accepts(content, sidecar[d])
              THEN /\ building' = [n \in DOMAIN building \cup {content.name} |->
                                     IF n = content.name THEN content ELSE building[n]]
                   /\ accepted' = [accepted EXCEPT ![d] = @ \cup {content}]
              ELSE UNCHANGED <<building, accepted>>
    /\ reading' = <<>>
    /\ UNCHANGED <<toml, edits, watching, signals, loading, scan, agents, missed>>

Swap ==
    /\ loading /\ scan = {} /\ reading = <<>>
    /\ agents' = building
    /\ building' = <<>>
    /\ loading' = FALSE
    /\ UNCHANGED <<toml, sidecar, edits, watching, signals, scan, reading, accepted, missed>>

Reload ==
    \/ BeginReload
    \/ \E d \in Dirs : ReadProfile(d)
    \/ FindSidecar
    \/ LoadProfile
    \/ Swap

ProfileNext ==
    \/ Watch
    \/ \E d \in Dirs, n \in AgentNames, v \in BOOLEAN : Write(d, n, v)
    \/ \E d \in Dirs : Delete(d) \/ RemoveSidecar(d)
    \/ Reload

----------------------------------------------------------------------------
(* Properties *)

\* A directory whose sidecar stays never serves two contents: no interleaving
\* of edits with the steps of a reload gets a changed agent.toml past
\* load_profile_verified.
OneContentPerSidecar == \A d \in Dirs : Cardinality(accepted[d]) <= 1

\* Once edits stop and are all known to the watcher, the registry becomes and
\* stays what load_dir makes of the disk, whatever was edited during a scan.
ProfilesConverge == <>[](missed \/ Fresh)

\* What watcher.rs says of the thread: it reloads the registry when an
\* agent.toml is added, modified or removed.  So, with no reload to do, every
\* profile on the disk that parses is in the registry.
EditsAreServed ==
    watching /\ ~missed /\ ~loading /\ signals = 0 =>
      \A d \in Dirs : toml[d].valid => toml[d].name \in DOMAIN agents
=============================================================================
