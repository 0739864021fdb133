---------------------------- MODULE DryRunProofs ----------------------------
(***************************************************************************)
(* Proofs about DryRun for every registry.  WalkInv says how far the walk  *)
(* of dry_run has come: what it visited is closed under routes up to what  *)
(* is still queued, and each name it could not find left an issue.  So a   *)
(* registry that is called valid routes only to registered agents.         *)
(*                                                                         *)
(* ExactInv adds that nothing else is visited.  What the search for cycles *)
(* answers is a recursive function of a path: its only solution is found   *)
(* (SafeIsFound) and shown to be one (SearchIsExact), so that the search   *)
(* can be spoken of without its order.                                     *)
(***************************************************************************)
EXTENDS DryRun, SequenceLemmas

----------------------------------------------------------------------------
(* Sequences and sets *)

\* Taking a name from the queue and adding others.
LEMMA QueueHolds ==
    ASSUME NEW S, NEW s \in Seq(S), s # <<>>, NEW t \in Seq(S)
    PROVE  /\ Head(s) \in S
           /\ Tail(s) \in Seq(S)
           /\ Tail(s) \o t \in Seq(S)
           /\ ToSet(s) = {Head(s)} \cup ToSet(Tail(s))
           /\ ToSet(Tail(s) \o t) = ToSet(Tail(s)) \cup ToSet(t)
  <1>1. Head(s) = s[1] /\ Head(s) \in S /\ Tail(s) \in Seq(S) /\ Len(s) \in Nat \ {0}
    OBVIOUS
  <1>2. DOMAIN s = 1 .. Len(s) /\ DOMAIN Tail(s) = 1 .. Len(s) - 1
    OBVIOUS
  <1>3. \A i \in 1 .. Len(s) - 1 : Tail(s)[i] = s[i + 1]
    OBVIOUS
  <1>4. \A i \in 2 .. Len(s) : i - 1 \in DOMAIN Tail(s) /\ s[i] = Tail(s)[i - 1]
    BY <1>1, <1>2, <1>3
  <1>5. ToSet(s) = {Head(s)} \cup ToSet(Tail(s))
    <2>1. \A e \in ToSet(s) : e \in {Head(s)} \cup ToSet(Tail(s))
      <3> SUFFICES ASSUME NEW i \in 1 .. Len(s), s[i] # Head(s)
                   PROVE  s[i] \in ToSet(Tail(s))
        BY <1>2 DEF ToSet
      <3>1. i \in 2 .. Len(s)
        BY <1>1
      <3>2. QED
        BY <3>1, <1>4 DEF ToSet
    <2>2. Head(s) \in ToSet(s)
      BY <1>1, <1>2 DEF ToSet
    <2>3. ToSet(Tail(s)) \subseteq ToSet(s)
      BY <1>1, <1>2, <1>3 DEF ToSet
    <2> QED
      BY <2>1, <2>2, <2>3
  <1>6. \A u \in Seq(S) : u \o t \in Seq(S) /\ ToSet(u \o t) = ToSet(u) \cup ToSet(t)
    <2> SUFFICES ASSUME NEW u \in Seq(S)
                 PROVE  u \o t \in Seq(S) /\ ToSet(u \o t) = ToSet(u) \cup ToSet(t)
      OBVIOUS
    <2>1. /\ u \o t \in Seq(S)
          /\ Len(u) \in Nat /\ Len(t) \in Nat
          /\ DOMAIN u = 1 .. Len(u) /\ DOMAIN t = 1 .. Len(t)
          /\ DOMAIN (u \o t) = 1 .. Len(u) + Len(t)
          /\ \A i \in 1 .. Len(u) : (u \o t)[i] = u[i]
          /\ \A i \in 1 .. Len(t) : (u \o t)[Len(u) + i] = t[i]
      OBVIOUS
    <2>2. \A i \in 1 .. Len(u) + Len(t) :
             i \in 1 .. Len(u) \/ (i - Len(u) \in 1 .. Len(t) /\ i = Len(u) + (i - Len(u)))
      BY <2>1
    <2>3. \A i \in 1 .. Len(u) : i \in 1 .. Len(u) + Len(t)
      BY <2>1
    <2>4. \A i \in 1 .. Len(t) : Len(u) + i \in 1 .. Len(u) + Len(t)
      BY <2>1
    <2>5. ToSet(u \o t) \subseteq ToSet(u) \cup ToSet(t)
      BY <2>1, <2>2 DEF ToSet
    <2>6. ToSet(u) \cup ToSet(t) \subseteq ToSet(u \o t)
      BY <2>1, <2>3, <2>4 DEF ToSet
    <2> QED
      BY <2>1, <2>5, <2>6
  <1> QED
    BY <1>1, <1>5, <1>6

----------------------------------------------------------------------------
(* Profiles *)

\* The names a profile may route to are names of agents, and whatever it
\* decides leads to some of them.
LEMMA ProfileNames ==
    ASSUME NEW p \in Profiles
    PROVE  /\ Names(p.fallback) \subseteq OutNames(p)
           /\ RuleNames(p) \subseteq OutNames(p)
           /\ OutNames(p) \subseteq Agents
           /\ \A t \in Decisions(p) : t \in Targets /\ Names(t) \subseteq OutNames(p)
  <1>1. /\ p.rules \in Seq(Targets) /\ p.fallback \in Targets
        /\ ToSet(p.rules) \subseteq Targets
    BY DEF Profiles, ToSet
  <1>2. \A t \in Targets : Names(t) \subseteq Agents
    BY DEF Targets, Names, ToSet
  <1>3. End \in Targets /\ Names(End) = {}
    BY DEF End, Targets, Names, ToSet
  <1>4. /\ Names(p.fallback) \subseteq OutNames(p) /\ RuleNames(p) \subseteq OutNames(p)
        /\ \A t \in ToSet(p.rules) : Names(t) \subseteq OutNames(p)
    BY DEF OutNames, RuleNames
  <1>5. OutNames(p) \subseteq Agents
    BY <1>1, <1>2 DEF OutNames, RuleNames
  <1>6. \A t \in Decisions(p) : t \in Targets /\ Names(t) \subseteq OutNames(p)
    BY <1>1, <1>3, <1>4 DEF Decisions
  <1> QED
    BY <1>4, <1>5, <1>6

\* A registered agent has a name and a profile.
LEMMA RegisteredKnown ==
    ASSUME NEW r \in Registries
    PROVE  DOMAIN r \subseteq Agents /\ \A a \in DOMAIN r : r[a] \in Profiles
  BY HandoffAssumption

----------------------------------------------------------------------------
(* The walk *)

\* What the walk has visited leads to what it has visited or queued, and what
\* it did not find is an issue; a report is valid only when it is done and has
\* no issues, and it is done only when the queue is empty.
WalkInv ==
    /\ DryTypeOK
    /\ start \in visited \cup ToSet(todo)
    /\ \A a \in visited \ DOMAIN registry : report.issues # {}
    /\ \A a \in visited \cap DOMAIN registry :
          /\ OutNames(registry[a]) \cap DOMAIN registry \subseteq visited \cup ToSet(todo)
          /\ Unregistered(OutNames(registry[a])) # {} => report.issues # {}
    /\ report.done => todo = <<>>
    /\ report.valid => report.done /\ report.issues = {}

\* What a valid report promises a run: the start and all that any visited
\* agent may route to are visited, and all that was visited is registered.
Foreseen ==
    report.valid =>
        /\ start \in visited
        /\ \A a \in visited : a \in DOMAIN registry /\ OutNames(registry[a]) \subseteq visited

LEMMA WalkForesees == ASSUME WalkInv PROVE Foreseen
  <1> SUFFICES ASSUME report.valid
               PROVE  /\ start \in visited
                      /\ \A a \in visited : a \in DOMAIN registry /\ OutNames(registry[a]) \subseteq visited
    BY DEF Foreseen
  <1>1. report.issues = {} /\ todo = <<>>
    BY DEF WalkInv
  <1>2. ToSet(todo) = {}
    BY <1>1 DEF ToSet
  <1> QED
    BY <1>1, <1>2 DEF WalkInv, Unregistered

LEMMA WalkInitially == ASSUME DryInit PROVE WalkInv
  <1>1. todo = <<start>> /\ ToSet(todo) = {start} /\ todo \in Seq(Agents)
    BY DEF DryInit, ToSet
  <1>2. report \in [chain : Seq(Agents), issues : SUBSET Issues, reachable_end : BOOLEAN,
                    circular : BOOLEAN, valid : BOOLEAN, done : BOOLEAN]
    BY DEF DryInit
  <1>3. DryTypeOK
    BY <1>1, <1>2 DEF DryInit, DryTypeOK
  <1> QED
    BY <1>1, <1>3 DEF DryInit, WalkInv

\* The walk takes a name from its queue, and keeps all it has to remember.
LEMMA WalkStepKeeps == ASSUME WalkInv, Walk PROVE WalkInv'
  <1> DEFINE name == Head(todo)
             known == DOMAIN registry
             Report == [chain : Seq(Agents), issues : SUBSET Issues, reachable_end : BOOLEAN,
                        circular : BOOLEAN, valid : BOOLEAN, done : BOOLEAN]
  <1>1. /\ registry \in Registries /\ start \in Agents /\ visited \subseteq Agents
        /\ todo \in Seq(Agents) /\ report \in Report
    BY DEF WalkInv, DryTypeOK
  <1>2. ~report.done /\ ~report.valid /\ todo # <<>>
        /\ visited' = visited \cup {name} /\ registry' = registry /\ start' = start
    BY DEF Walk, WalkInv
  <1>3. /\ name \in Agents
        /\ Tail(todo) \in Seq(Agents)
        /\ ToSet(todo) = {name} \cup ToSet(Tail(todo))
    <2>1. <<>> \in Seq(Agents)
      OBVIOUS
    <2> QED
      BY <1>1, <1>2, <2>1, QueueHolds
  <1>4. visited' \subseteq Agents
    BY <1>1, <1>2, <1>3
  \* What is left to show of a step, with the queue and the issues it ends with.
  <1>5. ASSUME report' \in Report, todo' \in Seq(Agents),
               report'.done = report.done, report'.valid = report.valid,
               report.issues \subseteq report'.issues,
               ToSet(Tail(todo)) \subseteq ToSet(todo'),
               name \notin known => report'.issues # {},
               name \in known =>
                  /\ OutNames(registry[name]) \cap known \subseteq visited' \cup ToSet(todo')
                  /\ Unregistered(OutNames(registry[name])) # {} => report'.issues # {}
        PROVE  WalkInv'
    <2>1. DryTypeOK'
      BY <1>1, <1>2, <1>4, <1>5 DEF DryTypeOK
    <2>2. visited \cup ToSet(todo) \subseteq visited' \cup ToSet(todo')
      BY <1>2, <1>3, <1>5
    <2>3. start' \in visited' \cup ToSet(todo')
      BY <1>2, <2>2 DEF WalkInv
    <2>4. \A a \in visited' \ DOMAIN registry' : report'.issues # {}
      BY <1>2, <1>5 DEF WalkInv
    <2>5. \A a \in visited' \cap DOMAIN registry' :
             /\ OutNames(registry'[a]) \cap DOMAIN registry' \subseteq visited' \cup ToSet(todo')
             /\ (OutNames(registry'[a]) \ DOMAIN registry') # {} => report'.issues # {}
      <3> SUFFICES ASSUME NEW a \in visited' \cap known
                   PROVE  /\ OutNames(registry[a]) \cap known \subseteq visited' \cup ToSet(todo')
                          /\ (OutNames(registry[a]) \ known) # {} => report'.issues # {}
        BY <1>2
      <3>1. CASE a = name
        BY <3>1, <1>5 DEF Unregistered
      <3>2. CASE a \in visited
        BY <3>2, <1>5, <2>2 DEF WalkInv, Unregistered
      <3> QED
        BY <1>2, <3>1, <3>2
    <2>6. ~report'.done /\ ~report'.valid
      BY <1>2, <1>5
    <2> QED
      BY <2>1, <2>3, <2>4, <2>5, <2>6 DEF WalkInv, Unregistered
  <1>6. CASE name \in visited /\ todo' = Tail(todo) /\ UNCHANGED report
    <2>1. name \notin known => report'.issues # {}
      BY <1>6 DEF WalkInv
    <2>2. name \in known =>
             /\ OutNames(registry[name]) \cap known \subseteq visited' \cup ToSet(todo')
             /\ Unregistered(OutNames(registry[name])) # {} => report'.issues # {}
      BY <1>2, <1>3, <1>6 DEF WalkInv
    <2> QED
      BY <1>1, <1>3, <1>5, <1>6, <2>1, <2>2
  <1>7. CASE /\ name \notin visited \cup known /\ todo' = Tail(todo)
             /\ report' = [report EXCEPT !.issues = @ \cup {<<"missing", name>>}]
    <2>1. <<"missing", name>> \in Issues
      BY <1>3 DEF Issues
    <2>2. /\ report' \in Report /\ report'.done = report.done /\ report'.valid = report.valid
          /\ report'.issues = report.issues \cup {<<"missing", name>>}
      BY <1>1, <1>7, <2>1
    <2> QED
      BY <1>3, <1>5, <1>7, <2>2
  <1>8. CASE name \in known \ visited /\ Visit(name)
    <2> DEFINE p == registry[name]
               fresh == (OutNames(p) \cap known) \ (visited \cup {name})
               found == ({"rule_target"} \X Unregistered(RuleNames(p)))
                        \cup ({"fallback_target"} \X Unregistered(Names(p.fallback)))
    <2>1. p \in Profiles /\ OutNames(p) \subseteq Agents
      BY <1>1, <1>8, RegisteredKnown, ProfileNames
    <2>2. IsFiniteSet(fresh)
      <3>1. fresh \in SUBSET Agents
        BY <2>1
      <3> QED
        BY <3>1, HandoffAssumption, FS_Subset
    <2>3. PICK next \in SetToSeqs(fresh) : todo' = Tail(todo) \o next
      BY <1>8 DEF Visit, Enqueue
    <2>4. next \in Seq(fresh) /\ ToSet(next) = fresh
      BY <2>2, ListingHolds
    <2>5. next \in Seq(Agents)
      BY <2>1, <2>4
    <2>6. todo' \in Seq(Agents) /\ ToSet(todo') = ToSet(Tail(todo)) \cup fresh
      BY <1>1, <1>2, <2>3, <2>4, <2>5, QueueHolds
    <2>7. found \subseteq Issues
      BY <2>1, ProfileNames DEF Issues, Unregistered
    <2>8. report' = [report EXCEPT !.chain = Append(@, name), !.issues = @ \cup found,
                                   !.reachable_end = @ \/ ~HasOutgoing(p)]
      BY <1>8 DEF Visit
    <2>9. /\ report' \in Report /\ report'.done = report.done /\ report'.valid = report.valid
          /\ report'.issues = report.issues \cup found
      <3>1. Append(report.chain, name) \in Seq(Agents) /\ HasOutgoing(p) \in BOOLEAN
        BY <1>1, <1>3 DEF HasOutgoing
      <3> QED
        BY <1>1, <2>7, <2>8, <3>1
    <2>10. Unregistered(OutNames(p)) # {} => found # {}
      <3> SUFFICES ASSUME NEW a \in Unregistered(OutNames(p)) PROVE found # {}
        OBVIOUS
      <3>1. CASE a \in Unregistered(RuleNames(p))
        <4>1. <<"rule_target", a>> \in found
          BY <3>1
        <4> QED
          BY <4>1
      <3>2. CASE a \in Unregistered(Names(p.fallback))
        <4>1. <<"fallback_target", a>> \in found
          BY <3>2
        <4> QED
          BY <4>1
      <3> QED
        BY <3>1, <3>2 DEF Unregistered, OutNames
    <2>11. OutNames(p) \cap known \subseteq visited' \cup ToSet(todo')
      BY <1>2, <2>6
    <2> QED
      BY <1>5, <1>8, <2>6, <2>9, <2>10, <2>11
  <1> QED
    BY <1>6, <1>7, <1>8 DEF Walk

\* Drawing the conclusions adds issues, and calls the result valid only
\* when there are none.
LEMMA ConcludeKeeps == ASSUME WalkInv, Conclude PROVE WalkInv'
  <1> DEFINE cyclic == {a \in ToSet(report.chain) : CanReachSelf(a)}
             found  == ({"circular"} \X cyclic)
                       \cup (IF Len(report.chain) >= MaxChain
                             THEN {<<"too_long", start>>} ELSE {})
             issues == report.issues \cup found
             Report == [chain : Seq(Agents), issues : SUBSET Issues, reachable_end : BOOLEAN,
                        circular : BOOLEAN, valid : BOOLEAN, done : BOOLEAN]
  <1>1. /\ registry' = registry /\ start' = start /\ visited' = visited /\ todo' = todo
        /\ todo = <<>>
        /\ report' = [report EXCEPT !.issues = issues, !.circular = cyclic # {},
                                    !.valid = issues = {} /\ report.reachable_end /\ cyclic = {},
                                    !.done = TRUE]
    BY DEF Conclude
  <1>2. report \in Report /\ start \in Agents
    BY DEF WalkInv, DryTypeOK
  <1>3. cyclic \subseteq Agents
    BY <1>2 DEF ToSet
  <1>4. issues \subseteq Issues /\ report.issues \subseteq issues
    BY <1>2, <1>3 DEF Issues
  <1>5. /\ report' \in Report
        /\ report'.issues = issues /\ report.issues \subseteq report'.issues
        /\ report'.valid => report'.issues = {}
        /\ report'.done
    <2> DEFINE circular == cyclic # {}
               valid == issues = {} /\ report.reachable_end /\ cyclic = {}
    <2>1. circular \in BOOLEAN /\ valid \in BOOLEAN /\ (valid => issues = {})
      OBVIOUS
    <2>2. report' = [report EXCEPT !.issues = issues, !.circular = circular,
                                   !.valid = valid, !.done = TRUE]
      BY <1>1
    <2> HIDE DEF circular, valid, issues
    <2> QED
      BY <1>2, <1>4, <2>1, <2>2
  <1>6. DryTypeOK'
    BY <1>1, <1>5 DEF WalkInv, DryTypeOK
  <1>7. ToSet(todo') = {} /\ ToSet(todo) = {}
    BY <1>1 DEF ToSet
  <1> QED
    BY <1>1, <1>5, <1>6, <1>7 DEF WalkInv, Unregistered

LEMMA DryStepKeeps == ASSUME WalkInv, DryNext PROVE WalkInv'
  BY WalkStepKeeps, ConcludeKeeps DEF DryNext

LEMMA DryStutterKeeps == ASSUME WalkInv, UNCHANGED dryVars PROVE WalkInv'
  BY DEF WalkInv, dryVars, DryTypeOK, Unregistered

----------------------------------------------------------------------------
(* Cycles in a finite graph: out[a] holds the successors of a. *)

\* No successor is outside.
Closed(U, out) == \A a \in U : out[a] \subseteq U

\* A cycle is a set all of whose members lead on into it.
IsCycle(C, out) == C # {} /\ \A a \in C : out[a] \cap C # {}
Acyclic(U, out) == \A C : C \subseteq U => ~IsCycle(C, out)

\* From b no route leads back to itself or to the path.
Safe(b, path, N, out) ==
    \E U \in SUBSET N : b \in U /\ U \cap path = {} /\ Closed(U, out) /\ Acyclic(U, out)

\* What one step of the search says if F is what the search says.
Finds(F, N, out) ==
    [path \in SUBSET N |-> {b \in N : b \in path \/ \E next \in out[b] : next \in F[path \cup {b}]}]

\* A name is safe if it is not on the path and all it leads to are, with it
\* on the path.
LEMMA SafeStep ==
    ASSUME NEW N, NEW out \in [N -> SUBSET N], NEW b \in N, NEW path \in SUBSET N
    PROVE  Safe(b, path, N, out) <=>
             /\ b \notin path
             /\ \A next \in out[b] : Safe(next, path \cup {b}, N, out)
  <1>1. ASSUME Safe(b, path, N, out)
        PROVE  b \notin path
    BY <1>1 DEF Safe
  <1>2. ASSUME Safe(b, path, N, out), NEW next \in out[b]
        PROVE  Safe(next, path \cup {b}, N, out)
    <2>1. PICK U \in SUBSET N : /\ b \in U /\ U \cap path = {}
                                /\ Closed(U, out) /\ Acyclic(U, out)
      BY <1>2 DEF Safe
    <2>2. next \in U
      BY <1>2, <2>1 DEF Closed
    <2> DEFINE R == {x \in U : \A W \in SUBSET U : next \in W /\ Closed(W, out) => x \in W}
               C == {x \in R : \A W \in SUBSET U : x \in W /\ Closed(W, out) => b \in W}
    <2>3. next \in R /\ R \subseteq U
      BY <2>2
    <2>4. Closed(R, out)
      <3> SUFFICES ASSUME NEW x \in R, NEW y \in out[x]
                   PROVE  y \in R
        BY DEF Closed
      <3>1. y \in U
        BY <2>1 DEF Closed
      <3>2. \A W \in SUBSET U : next \in W /\ Closed(W, out) => y \in W
        BY DEF Closed
      <3>3. QED
        BY <3>1, <3>2
    <2>5. ASSUME b \in R
          PROVE  IsCycle(C, out)
      <3>1. b \in C
        BY <2>5
      <3>2. next \in C
        BY <2>3, <2>5
      <3>3. ASSUME NEW x \in C, x # b
            PROVE  out[x] \cap C # {}
        <4> SUFFICES ASSUME out[x] \cap C = {}
                     PROVE  FALSE
          OBVIOUS
        <4> DEFINE V == {y \in U : \E W \in SUBSET U : y \in W /\ Closed(W, out) /\ b \notin W}
        <4>1. Closed(V, out) /\ b \notin V /\ V \subseteq U
          BY DEF Closed
        <4>2. \A y \in out[x] : y \in R /\ y \in V
          BY <2>4 DEF Closed
        <4>3. Closed({x} \cup V, out) /\ {x} \cup V \in SUBSET U /\ b \notin {x} \cup V
          BY <3>3, <4>1, <4>2 DEF Closed
        <4>4. QED
          BY <4>3
      <3>4. QED
        BY <1>2, <3>1, <3>2, <3>3 DEF IsCycle
    <2>6. b \notin R
      BY <2>1, <2>3, <2>5 DEF Acyclic
    <2>7. Acyclic(R, out) /\ R \in SUBSET N
      BY <2>1, <2>3 DEF Acyclic
    <2> HIDE DEF R
    <2>8. QED
      BY <2>1, <2>3, <2>4, <2>6, <2>7 DEF Safe
  <1>3. ASSUME b \notin path, \A next \in out[b] : Safe(next, path \cup {b}, N, out)
        PROVE  Safe(b, path, N, out)
    <2> DEFINE IsPart(W) == /\ W \subseteq N /\ W \cap (path \cup {b}) = {}
                            /\ Closed(W, out) /\ Acyclic(W, out)
               V == {y \in N : \E W \in SUBSET N : y \in W /\ IsPart(W)}
               U == {b} \cup V
    <2>1. out[b] \subseteq V
      BY <1>3 DEF Safe
    <2>2. Closed(V, out) /\ V \cap (path \cup {b}) = {}
      BY DEF Closed
    <2>3. Closed(U, out) /\ U \cap path = {} /\ U \in SUBSET N
      BY <1>3, <2>1, <2>2 DEF Closed
    <2>4. ASSUME NEW C, C \subseteq U, IsCycle(C, out)
          PROVE  FALSE
      <3>1. PICK y \in C : y \in V
        <4>1. PICK x \in C : TRUE
          BY <2>4 DEF IsCycle
        <4>2. PICK z \in C : z \in out[x]
          BY <2>4 DEF IsCycle
        <4>3. QED
          BY <2>1, <2>4, <4>1, <4>2
      <3>2. PICK W \in SUBSET N : y \in W /\ IsPart(W)
        BY <3>1
      <3>3. \A x \in C \cap W : out[x] \cap (C \cap W) # {}
        BY <2>4, <3>2 DEF IsCycle, Closed
      <3>4. IsCycle(C \cap W, out)
        BY <3>1, <3>2, <3>3 DEF IsCycle
      <3>5. QED
        BY <3>2, <3>4 DEF Acyclic
    <2>5. Acyclic(U, out)
      BY <2>4 DEF Acyclic
    <2> HIDE DEF V
    <2>6. QED
      BY <2>3, <2>5 DEF Safe
  <1>4. QED
    BY <1>1, <1>2, <1>3

\* The search finds a way back from the names that are not safe.
LEMMA SafeIsFound ==
    ASSUME NEW N, NEW out \in [N -> SUBSET N]
    PROVE  \E F : F = Finds(F, N, out)
  <1> DEFINE F == [path \in SUBSET N |-> {b \in N : ~Safe(b, path, N, out)}]
  <1>1. ASSUME NEW path \in SUBSET N, NEW b \in N
        PROVE  b \in F[path] <=> b \in path \/ \E next \in out[b] : next \in F[path \cup {b}]
    <2>1. path \cup {b} \in SUBSET N /\ out[b] \subseteq N
      OBVIOUS
    <2>2. b \in F[path] <=> ~Safe(b, path, N, out)
      OBVIOUS
    <2>3. \A next \in out[b] : next \in F[path \cup {b}] <=> ~Safe(next, path \cup {b}, N, out)
      BY <2>1
    <2> HIDE DEF F
    <2>4. QED
      BY <2>2, <2>3, SafeStep
  <1>2. ASSUME NEW path \in SUBSET N
        PROVE  F[path] = {b \in N : b \in path \/ \E next \in out[b] : next \in F[path \cup {b}]}
    <2>1. F[path] \subseteq N
      OBVIOUS
    <2> HIDE DEF F
    <2>2. QED
      BY <1>1, <2>1
  <1>3. F = [path \in SUBSET N |-> F[path]]
    OBVIOUS
  <1> HIDE DEF F
  <1>4. F = Finds(F, N, out)
    BY <1>2, <1>3 DEF Finds
  <1>5. QED
    BY <1>4

\* And from no other: what the search says is determined by its equation.
LEMMA SearchIsExact ==
    ASSUME NEW N, IsFiniteSet(N), NEW out \in [N -> SUBSET N],
           NEW F, F = Finds(F, N, out), NEW b \in N
    PROVE  b \in F[{}] <=> ~Safe(b, {}, N, out)
  <1> DEFINE n == Cardinality(N)
             Right(path) == \A a \in N : a \in F[path] <=> ~Safe(a, path, N, out)
             T == {k \in 0 .. n : \A path \in SUBSET N : Cardinality(N \ path) = k => Right(path)}
  <1>1. n \in Nat /\ \A path \in SUBSET N : IsFiniteSet(N \ path) /\ Cardinality(N \ path) \in 0 .. n
    <2>1. n \in Nat
      BY FS_CardinalityType
    <2>2. ASSUME NEW path \in SUBSET N
          PROVE  IsFiniteSet(N \ path) /\ Cardinality(N \ path) \in 0 .. n
      <3>1. N \ path \in SUBSET N
        OBVIOUS
      <3>2. IsFiniteSet(N \ path) /\ Cardinality(N \ path) <= n
        BY <3>1, FS_Subset
      <3>3. QED
        BY <2>1, <3>2, FS_CardinalityType
    <2>3. QED
      BY <2>1, <2>2
  <1>2. ASSUME NEW path \in SUBSET N, NEW a \in N
        PROVE  a \in F[path] <=> a \in path \/ \E next \in out[a] : next \in F[path \cup {a}]
    <2>1. F[path] = {c \in N : c \in path \/ \E next \in out[c] : next \in F[path \cup {c}]}
      BY DEF Finds
    <2>2. QED
      BY <2>1
  <1>3. 0 \in T
    <2> SUFFICES ASSUME NEW path \in SUBSET N, Cardinality(N \ path) = 0
                 PROVE  Right(path)
      BY <1>1
    <2>1. N \ path = {}
      BY <1>1, FS_EmptySet
    <2>2. ASSUME NEW a \in N
          PROVE  a \in F[path] /\ ~Safe(a, path, N, out)
      <3>1. a \in path
        BY <2>1
      <3>2. QED
        BY <1>2, <3>1 DEF Safe
    <2>3. QED
      BY <2>2
  <1>4. ASSUME NEW k \in 1 .. n, k - 1 \in T
        PROVE  k \in T
    <2>1. ASSUME NEW path \in SUBSET N, Cardinality(N \ path) = k, NEW a \in N
          PROVE  a \in F[path] <=> ~Safe(a, path, N, out)
      <3>1. CASE a \in path
        BY <1>2, <3>1 DEF Safe
      <3>2. CASE a \notin path
        <4>1. path \cup {a} \in SUBSET N /\ N \ (path \cup {a}) = (N \ path) \ {a} /\ a \in N \ path
          BY <3>2
        <4>2. Cardinality((N \ path) \ {a}) = Cardinality(N \ path) - 1
          BY <1>1, <4>1, FS_RemoveElement
        <4>3. Right(path \cup {a})
          BY <1>4, <2>1, <4>1, <4>2
        <4>4. \A next \in out[a] : next \in F[path \cup {a}] <=> ~Safe(next, path \cup {a}, N, out)
          BY <4>3
        <4>5. Safe(a, path, N, out) <=> \A next \in out[a] : Safe(next, path \cup {a}, N, out)
          BY <3>2, SafeStep
        <4>6. a \in F[path] <=> \E next \in out[a] : next \in F[path \cup {a}]
          BY <1>2, <3>2
        <4> HIDE DEF T, Right
        <4>7. QED
          BY <4>4, <4>5, <4>6
      <3>3. QED
        BY <3>1, <3>2
    <2>2. \A path \in SUBSET N : Cardinality(N \ path) = k => Right(path)
      BY <2>1
    <2>3. k \in 0 .. n
      BY <1>1
    <2> HIDE DEF Right
    <2>4. QED
      BY <2>2, <2>3
  <1>5. 0 .. n \subseteq T
    <2> HIDE DEF T, n
    <2>1. QED
      BY <1>1, <1>3, <1>4, UpTo
  <1>6. {} \in SUBSET N /\ Cardinality(N \ {}) \in T
    BY <1>1, <1>5
  <1>7. Right({})
    BY <1>6
  <1>8. QED
    BY <1>7

----------------------------------------------------------------------------
(* can_reach_self *)

\* The routes of an agent, none if it is not registered.
Outs == [a \in Agents |-> IF a \in DOMAIN registry THEN OutNames(registry[a]) ELSE {}]

\* They are agents.
LEMMA OutsAre ==
    ASSUME registry \in Registries
    PROVE  Outs \in [Agents -> SUBSET Agents]
  BY RegisteredKnown, ProfileNames DEF Outs

\* can_reach_self answers what it is asked.
LEMMA CanReachSelfIs ==
    ASSUME registry \in Registries, NEW a \in Agents
    PROVE  CanReachSelf(a) <=> ~Safe(a, {}, Agents, Outs)
  <1> DEFINE Body(f) == [path \in SUBSET Agents |-> {b \in Agents :
                \/ b \in path
                \/ /\ b \in DOMAIN registry
                   /\ \E next \in OutNames(registry[b]) : next \in f[path \cup {b}]}]
             c == CHOOSE f : f = Body(f)
  <1>1. \A f : Body(f) = Finds(f, Agents, Outs)
    BY DEF Finds, Outs
  <1>2. PICK F : F = Body(F)
    <2>1. PICK F : F = Finds(F, Agents, Outs)
      BY OutsAre, SafeIsFound
    <2> HIDE DEF Body
    <2>2. QED
      BY <1>1, <2>1
  <1>3. c = Body(c)
    <2> HIDE DEF Body
    <2>1. QED
      BY <1>2, Zenon
  <1>4. CanReachSelf(a) <=> a \in c[{}]
    BY Zenon DEF CanReachSelf
  <1> HIDE DEF c
  <1>5. c = Finds(c, Agents, Outs)
    BY <1>1, <1>3
  <1> HIDE DEF Body
  <1>6. QED
    BY <1>4, <1>5, OutsAre, SearchIsExact, HandoffAssumption

----------------------------------------------------------------------------
(* What the walk finds *)

\* Reachable is the least closed set of registered agents.
LEMMA ReachableIs ==
    /\ Reachable \subseteq DOMAIN registry
    /\ start \in DOMAIN registry => start \in Reachable
    /\ \A a \in Reachable : Successors(a) \subseteq Reachable
    /\ \A S \in SUBSET DOMAIN registry :
         (start \in DOMAIN registry => start \in S) /\ (\A a \in S : Successors(a) \subseteq S)
           => Reachable \subseteq S
  BY DEF Reachable, Successors

\* The chain lists the registered agents that were visited, each once, and
\* what was visited or is queued is reachable.
ExactInv ==
    /\ \A i, j \in DOMAIN report.chain : report.chain[i] = report.chain[j] => i = j
    /\ ToSet(report.chain) = visited \cap DOMAIN registry
    /\ (visited \cup ToSet(todo)) \cap DOMAIN registry \subseteq Reachable
    /\ report.done => (report.circular <=> \E a \in ToSet(report.chain) : CanReachSelf(a))
    /\ report.valid => ~report.circular

\* A list without repetitions is as long as the set of its members is large.
LEMMA OnceEach ==
    ASSUME NEW S, IsFiniteSet(S), NEW s \in Seq(S), \A i, j \in DOMAIN s : s[i] = s[j] => i = j
    PROVE  /\ Len(s) = Cardinality(ToSet(s))
           /\ \A U : ToSet(s) \subseteq U /\ IsFiniteSet(U) => Len(s) <= Cardinality(U)
  <1> DEFINE n == Len(s)
             f == [i \in 1 .. n |-> s[i]]
  <1>1. n \in Nat /\ DOMAIN s = 1 .. n
    OBVIOUS
  <1>2. f \in Bijection(1 .. n, ToSet(s))
    <2>1. f \in Injection(1 .. n, ToSet(s))
      <3>1. f \in [1 .. n -> ToSet(s)]
        BY <1>1 DEF ToSet
      <3>2. \A i, j \in 1 .. n : f[i] = f[j] => i = j
        BY <1>1
      <3>3. QED
        BY <3>1, <3>2 DEF Injection, IsInjective
    <2>2. \A e \in ToSet(s) : \E i \in 1 .. n : f[i] = e
      BY <1>1 DEF ToSet
    <2>3. QED
      BY <2>1, <2>2 DEF Bijection, Surjection, Injection
  <1>3. IsFiniteSet(1 .. n) /\ Cardinality(1 .. n) = n
    BY <1>1, FS_Interval, CountTo
  <1>4. IsFiniteSet(ToSet(s)) /\ Cardinality(ToSet(s)) = n
    BY <1>2, <1>3, FS_Bijection DEF ExistsBijection
  <1>5. \A U : ToSet(s) \subseteq U /\ IsFiniteSet(U) => n <= Cardinality(U)
    BY <1>4, FS_Subset
  <1>6. QED
    BY <1>4, <1>5

\* Nothing is visited yet.
LEMMA ExactInitially == ASSUME DryInit PROVE ExactInv
  <1>1. /\ report.chain = <<>> /\ visited = {} /\ todo = <<start>> /\ ~report.done /\ ~report.valid
        /\ ToSet(report.chain) = {} /\ ToSet(todo) = {start}
    BY DEF DryInit, ToSet
  <1>2. QED
    BY <1>1, ReachableIs DEF ExactInv

\* Neither what is reachable nor who can reach itself changes.
LEMMA GraphStays ==
    ASSUME UNCHANGED <<registry, start>>
    PROVE  /\ Reachable' = Reachable
           /\ \A a : CanReachSelf(a)' <=> CanReachSelf(a)
           /\ \A a : Successors(a)' = Successors(a)
  BY DEF Reachable, Successors, CanReachSelf

\* The walk visits a registered agent once, and queues what it leads to.
LEMMA ExactWalkKeeps == ASSUME WalkInv, ExactInv, Walk PROVE ExactInv'
  <1> DEFINE name == Head(todo)
             known == DOMAIN registry
  <1>1. /\ registry \in Registries /\ start \in Agents /\ visited \subseteq Agents
        /\ todo \in Seq(Agents)
        /\ report \in [chain : Seq(Agents), issues : SUBSET Issues, reachable_end : BOOLEAN,
                       circular : BOOLEAN, valid : BOOLEAN, done : BOOLEAN]
    BY DEF WalkInv, DryTypeOK
  <1>2. ~report.done /\ ~report.valid /\ todo # <<>>
        /\ visited' = visited \cup {name} /\ registry' = registry /\ start' = start
    BY DEF Walk, WalkInv
  <1>3. Reachable' = Reachable /\ DOMAIN registry' = known
    BY <1>2, GraphStays
  <1>4. /\ name \in Agents /\ Tail(todo) \in Seq(Agents)
        /\ ToSet(todo) = {name} \cup ToSet(Tail(todo))
    <2>1. <<>> \in Seq(Agents)
      OBVIOUS
    <2> QED
      BY <1>1, <1>2, <2>1, QueueHolds
  <1>5. /\ name \in known => name \in Reachable
        /\ visited' \cap known \subseteq Reachable
        /\ ToSet(Tail(todo)) \cap known \subseteq Reachable
    BY <1>2, <1>4 DEF ExactInv
  <1>6. CASE name \notin known \ visited
    <2>1. /\ todo' = Tail(todo)
          /\ report'.chain = report.chain /\ report'.done = report.done /\ report'.valid = report.valid
      <3>1. CASE name \in visited
        BY <1>6, <3>1 DEF Walk
      <3>2. CASE name \notin visited
        <4>1. report' = [report EXCEPT !.issues = @ \cup {<<"missing", name>>}] /\ todo' = Tail(todo)
          BY <1>6, <3>2 DEF Walk
        <4>2. QED
          BY <1>1, <4>1
      <3>3. QED
        BY <3>1, <3>2
    <2>2. visited' \cap known = visited \cap known
      BY <1>2, <1>6
    <2>3. QED
      BY <1>2, <1>3, <1>5, <2>1, <2>2 DEF ExactInv
  <1>7. CASE name \in known \ visited
    <2> DEFINE p == registry[name]
               fresh == (OutNames(p) \cap known) \ (visited \cup {name})
    <2>1. Visit(name)
      BY <1>7 DEF Walk
    <2>2. /\ report'.chain = Append(report.chain, name)
          /\ report'.done = report.done /\ report'.valid = report.valid
      <3> DEFINE i == report.issues \cup ({"rule_target"} \X Unregistered(RuleNames(p)))
                                    \cup ({"fallback_target"} \X Unregistered(Names(p.fallback)))
                 e == report.reachable_end \/ ~HasOutgoing(p)
                 c == Append(report.chain, name)
      <3>1. report' = [report EXCEPT !.chain = c, !.issues = i, !.reachable_end = e]
        BY <2>1 DEF Visit
      <3> HIDE DEF c, i, e
      <3>2. report'.chain = c /\ report'.done = report.done /\ report'.valid = report.valid
        BY <1>1, <3>1
      <3>3. QED
        BY <3>2 DEF c
    <2>3. PICK next \in SetToSeqs(fresh) : todo' = Tail(todo) \o next
      BY <2>1 DEF Visit, Enqueue
    <2>4. IsFiniteSet(fresh) /\ fresh \subseteq Agents
      <3>1. fresh \subseteq Agents
        BY <1>1, RegisteredKnown
      <3>2. QED
        BY <3>1, HandoffAssumption, FS_Subset
    <2>5. next \in Seq(fresh) /\ ToSet(next) = fresh
      BY <2>4, ListingHolds
    <2>6. next \in Seq(Agents)
      BY <2>4, <2>5
    <2>7. ToSet(todo') = ToSet(Tail(todo)) \cup fresh
      BY <1>1, <1>2, <2>3, <2>5, <2>6, QueueHolds
    <2>8. fresh \subseteq Reachable
      BY <1>5, <1>7, ReachableIs DEF Successors
    <2>9. /\ ToSet(report'.chain) = ToSet(report.chain) \cup {name}
          /\ \A i, j \in DOMAIN report'.chain : report'.chain[i] = report'.chain[j] => i = j
      <3> DEFINE q == report.chain
                 n == Len(q)
      <3>1. q \in Seq(Agents) /\ n \in Nat /\ DOMAIN q = 1 .. n
        BY <1>1
      <3>2. \A i \in 1 .. n : q[i] # name
        <4>1. name \notin ToSet(q)
          BY <1>7 DEF ExactInv
        <4>2. QED
          BY <3>1, <4>1 DEF ToSet
      <3>3. \A i, j \in 1 .. n : q[i] = q[j] => i = j
        BY <3>1 DEF ExactInv
      <3>4. /\ DOMAIN Append(q, name) = 1 .. n + 1 /\ Append(q, name)[n + 1] = name
            /\ \A i \in 1 .. n : Append(q, name)[i] = q[i]
        BY <1>4, <3>1
      <3>5. ToSet(Append(q, name)) = ToSet(q) \cup {name}
        BY <1>4, <3>1, AppendToSet
      <3> HIDE DEF q, n, name
      <3>6. \A i \in 1 .. n + 1 : i = n + 1 \/ i \in 1 .. n
        BY <3>1
      <3>7. \A i, j \in 1 .. n + 1 : Append(q, name)[i] = Append(q, name)[j] => i = j
        BY <3>1, <3>2, <3>3, <3>4, <3>6
      <3>8. QED
        BY <2>2, <3>4, <3>5, <3>7 DEF q
    <2>10. visited' \cap known = (visited \cap known) \cup {name}
      BY <1>2, <1>7
    <2>11. (visited' \cup ToSet(todo')) \cap known \subseteq Reachable
      BY <1>5, <2>7, <2>8
    <2>12. ToSet(report'.chain) = visited' \cap known
      BY <2>9, <2>10 DEF ExactInv
    <2> HIDE DEF name
    <2>13. QED
      BY <1>2, <1>3, <2>2, <2>9, <2>11, <2>12 DEF ExactInv
  <1>8. QED
    BY <1>6, <1>7

\* What it concludes is what the search says of the chain.
LEMMA ExactConcludeKeeps == ASSUME WalkInv, ExactInv, Conclude PROVE ExactInv'
  <1> DEFINE cyclic == {a \in ToSet(report.chain) : CanReachSelf(a)}
             found  == ({"circular"} \X cyclic)
                       \cup (IF Len(report.chain) >= MaxChain
                             THEN {<<"too_long", start>>} ELSE {})
             issues == report.issues \cup found
             circular == cyclic # {}
             valid == issues = {} /\ report.reachable_end /\ cyclic = {}
  <1>1. /\ registry' = registry /\ start' = start /\ visited' = visited /\ todo' = todo
        /\ report' = [report EXCEPT !.issues = issues, !.circular = circular,
                                    !.valid = valid, !.done = TRUE]
    BY DEF Conclude
  <1>2. report \in [chain : Seq(Agents), issues : SUBSET Issues, reachable_end : BOOLEAN,
                    circular : BOOLEAN, valid : BOOLEAN, done : BOOLEAN]
    BY DEF WalkInv, DryTypeOK
  <1>3. valid => ~circular
    OBVIOUS
  <1>4. circular <=> \E a \in ToSet(report.chain) : CanReachSelf(a)
    OBVIOUS
  <1>5. report'.chain = report.chain /\ (report'.circular <=> circular) /\ (report'.valid <=> valid)
    <2> HIDE DEF circular, valid, issues
    <2>1. QED
      BY <1>1, <1>2
  <1>6. /\ Reachable' = Reachable /\ DOMAIN registry' = DOMAIN registry
        /\ \A a : CanReachSelf(a)' <=> CanReachSelf(a)
    BY <1>1, GraphStays
  <1> HIDE DEF circular, valid
  <1>7. QED
    BY <1>1, <1>3, <1>4, <1>5, <1>6 DEF ExactInv

\* While the dry run does not move, all of it holds on.
LEMMA ExactStutterKeeps == ASSUME ExactInv, UNCHANGED dryVars PROVE ExactInv'
  <1>1. UNCHANGED <<registry, start, visited, todo, report>>
    BY DEF dryVars
  <1>2. /\ Reachable' = Reachable /\ DOMAIN registry' = DOMAIN registry
        /\ \A a : CanReachSelf(a)' <=> CanReachSelf(a)
    BY <1>1, GraphStays
  <1>3. QED
    BY <1>1, <1>2 DEF ExactInv

\* Every step of the dry run.
LEMMA ExactStepKeeps == ASSUME WalkInv, ExactInv, DryNext PROVE ExactInv'
  BY ExactWalkKeeps, ExactConcludeKeeps DEF DryNext

\* When the walk is over, what it visited is closed, and what is closed and
\* has no cycle is safe.
LEMMA WalkIsExact == ASSUME WalkInv, ExactInv PROVE DryRunIsExact
  <1> DEFINE known == DOMAIN registry
             V == ToSet(report.chain)
  <1>1. /\ registry \in Registries /\ start \in Agents /\ visited \subseteq Agents
        /\ report.chain \in Seq(Agents) /\ known \subseteq Agents
    BY RegisteredKnown DEF WalkInv, DryTypeOK
  <1>2. V = visited \cap known /\ V \subseteq Reachable /\ V \subseteq Agents
    BY <1>1 DEF ExactInv
  <1>3. IsFiniteSet(Reachable) /\ IsFiniteSet(Agents)
    BY <1>1, ReachableIs, HandoffAssumption, FS_Subset
  <1>4. Len(report.chain) <= Cardinality(Reachable)
    BY <1>1, <1>2, <1>3, OnceEach DEF ExactInv
  <1>5. ASSUME report.done
        PROVE  /\ V = Reachable
               /\ report.circular <=>
                    \E C \in SUBSET Reachable : C # {} /\ \A a \in C : Successors(a) \cap C # {}
    <2>1. ToSet(todo) = {}
      BY <1>5 DEF WalkInv, ToSet
    <2>2. V \in SUBSET known /\ (start \in known => start \in V)
      BY <1>2, <2>1 DEF WalkInv
    <2>3. \A a \in V : Successors(a) \subseteq V
      BY <1>2, <2>1 DEF WalkInv, Successors
    <2>4. V = Reachable
      BY <1>2, <2>2, <2>3, ReachableIs
    <2>5. \A a \in V : CanReachSelf(a) <=> ~Safe(a, {}, Agents, Outs)
      BY <1>1, <1>2, CanReachSelfIs
    <2>6. /\ Outs \in [Agents -> SUBSET Agents]
          /\ \A a \in known : Outs[a] = OutNames(registry[a]) /\ Successors(a) = Outs[a] \cap known
          /\ \A a \in Agents : a \notin known => Outs[a] = {}
      BY <1>1, OutsAre DEF Outs, Successors
    <2>7. ASSUME NEW a \in V, CanReachSelf(a)
          PROVE  \E C \in SUBSET Reachable : C # {} /\ \A b \in C : Successors(b) \cap C # {}
      <3> DEFINE U == V \cup (Agents \ known)
      <3>1. U \in SUBSET Agents /\ a \in U /\ U \cap {} = {}
        BY <1>2
      <3>2. Closed(U, Outs)
        <4> SUFFICES ASSUME NEW b \in U
                     PROVE  Outs[b] \subseteq U
          BY DEF Closed
        <4>1. CASE b \notin known
          BY <2>6, <3>1, <4>1
        <4>2. CASE b \in known
          <5>1. b \in V /\ Outs[b] \subseteq Agents /\ Outs[b] \cap known \subseteq V
            BY <1>1, <2>3, <2>6, <4>2
          <5>2. QED
            BY <5>1
        <4>3. QED
          BY <4>1, <4>2
      <3>3. ~Acyclic(U, Outs)
        BY <2>5, <2>7, <3>1, <3>2 DEF Safe
      <3>4. PICK C : C \subseteq U /\ IsCycle(C, Outs)
        BY <3>3 DEF Acyclic
      <3>5. C \subseteq known
        BY <2>6, <3>1, <3>4 DEF IsCycle
      <3>6. C \in SUBSET Reachable
        BY <2>4, <3>4, <3>5
      <3>7. C # {} /\ \A b \in C : Successors(b) \cap C # {}
        BY <2>6, <3>4, <3>5 DEF IsCycle
      <3>8. QED
        BY <3>6, <3>7
    <2>8. ASSUME NEW C \in SUBSET Reachable, C # {}, \A b \in C : Successors(b) \cap C # {}
          PROVE  \E a \in V : CanReachSelf(a)
      <3>1. PICK a \in C : TRUE
        BY <2>8
      <3>2. a \in V
        BY <2>4
      <3>3. ASSUME Safe(a, {}, Agents, Outs)
            PROVE  FALSE
        <4>1. PICK U \in SUBSET Agents : a \in U /\ Closed(U, Outs) /\ Acyclic(U, Outs)
          BY <3>3 DEF Safe
        <4>2. \A b \in C : b \in known /\ Outs[b] \cap C # {}
          BY <2>4, <2>6, <2>8, <1>2
        <4>3. \A b \in C \cap U : Outs[b] \cap (C \cap U) # {}
          BY <4>1, <4>2 DEF Closed
        <4>4. IsCycle(C \cap U, Outs)
          BY <4>1, <4>3 DEF IsCycle
        <4>5. QED
          BY <4>1, <4>4 DEF Acyclic
      <3>4. QED
        BY <2>5, <3>2, <3>3
    <2>9. QED
      BY <1>5, <2>4, <2>7, <2>8 DEF ExactInv
  <1>6. QED
    BY <1>4, <1>5 DEF DryRunIsExact
=============================================================================
