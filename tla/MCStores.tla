------------------------------ MODULE MCStores ------------------------------
(***************************************************************************)
(* Small instances of what agents leave behind: memory fed by events and   *)
(* replies, the feed of WebSocket clients and the audit log.  They share   *)
(* no state: a behaviour exercises one of them (`part'), and of PubSub     *)
(* either the micro agent or the other callers of the bus.                 *)
(***************************************************************************)
EXTENDS PubSub, EventFeed, AuditLog, TLC

CONSTANTS a1, a2, a3, t1, t2, p1, k1, k2

VARIABLE part

MCTopics     == {t1}
MCSources    == {a1, a2, a3}
MCPartitions == {p1}
\* a2 may use another topic only, until it is deregistered
MCMay        == a1 :> {t1} @@ a2 :> {t2} @@ a3 :> {}
MCAccess     == [read |-> {All}, write |-> {p1}]

MCConns      == {k1, k2}
SymmetricConns == Permutations(MCConns)

storeVars == <<pubSubVars, feedVars, auditVars, part>>

StoreInit ==
    /\ part \in {"memory", "bus", "feed", "audit"}
    /\ PubSubInit
    /\ FeedInit
    /\ AuditInit
    \* the parts that do not run start in one way only
    /\ part # "audit" => content = <<>>
    /\ part # "memory" => sqlite

StoreNext ==
    \/ part = "memory" /\ LoopStep /\ UNCHANGED <<feedVars, auditVars, part>>
    \/ part = "bus" /\ BusStep /\ UNCHANGED <<feedVars, auditVars, part>>
    \/ part = "feed" /\ FeedNext /\ UNCHANGED <<pubSubVars, auditVars, part>>
    \/ part = "audit" /\ AuditNext /\ UNCHANGED <<pubSubVars, feedVars, part>>

StoreSpec == StoreInit /\ [][StoreNext]_storeVars

\* What memory promises of both its implementations: an entry is found, and
\* the newest entries come first where a limit cuts the list.
MemoryFinds == SavedIsFound /\ NewestFirst

\* What the two kinds of subscribers are promised.
SubscribersAreServed == DeliveryIsExact /\ FeedInOrder
=============================================================================
