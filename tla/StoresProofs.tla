---------------------------- MODULE StoresProofs ----------------------------
(***************************************************************************)
(* Proofs about what agents leave behind (MCStores), for every set of      *)
(* topics, subscribers, clients and connections and every limit: the feed  *)
(* of WebSocket clients, deliveries on the bus, both memories, and the     *)
(* files of the audit log.                                                 *)
(***************************************************************************)
EXTENDS MCStores, SequenceLemmas

----------------------------------------------------------------------------
(* The feed of WebSocket clients *)

ClientStates == [state : {"offline", "refused", "online", "gone"}, start : Nat, cursor : Nat,
                 seen : Seq(Nat), lagged : Nat]

\* What FeedInOrder says of one client, and that it has seen nothing beyond
\* its cursor, which does not pass the n events sent.
Account(start, cursor, seen, lagged, n) ==
    /\ \A i, j \in DOMAIN seen : i < j => seen[i] < seen[j]
    /\ \A i \in DOMAIN seen : seen[i] <= cursor
    /\ start + Len(seen) + lagged = cursor
    /\ cursor <= n

FeedInv ==
    /\ sent \in Nat
    /\ client \in [Clients -> ClientStates]
    /\ \A c \in Clients : LET cl == client[c]
                          IN  Account(cl.start, cl.cursor, cl.seen, cl.lagged, sent)

\* An account stays one when an event is sent, forwarded or skipped.
LEMMA AccountKeeps ==
    ASSUME NEW start \in Nat, NEW cursor \in Nat, NEW seen \in Seq(Nat), NEW lagged \in Nat,
           NEW n \in Nat, Account(start, cursor, seen, lagged, n)
    PROVE  /\ Account(start, cursor, seen, lagged, n + 1)
           /\ cursor < n => Account(start, cursor + 1, Append(seen, cursor + 1), lagged, n)
           /\ \A k \in Nat : n - cursor > k =>
                Account(start, n - k, seen, lagged + (n - cursor) - k, n)
  <1> DEFINE l == Len(seen)
  <1>1. /\ l \in Nat /\ DOMAIN seen = 1 .. l
        /\ \A i \in 1 .. l : seen[i] \in Nat /\ seen[i] <= cursor
        /\ \A i, j \in 1 .. l : i < j => seen[i] < seen[j]
        /\ start + l + lagged = cursor /\ cursor <= n
    BY DEF Account
  <1>2. ASSUME cursor < n
        PROVE  Account(start, cursor + 1, Append(seen, cursor + 1), lagged, n)
    <2> DEFINE t == Append(seen, cursor + 1)
    <2>1. /\ DOMAIN t = 1 .. l + 1 /\ Len(t) = l + 1 /\ t[l + 1] = cursor + 1
          /\ \A i \in 1 .. l : t[i] = seen[i]
      OBVIOUS
    <2> HIDE DEF t, l
    <2>2. \A i \in 1 .. l + 1 : i \in 1 .. l \/ i = l + 1
      BY <1>1
    <2>3. \A i \in 1 .. l : t[i] \in Nat /\ t[i] <= cursor
      BY <1>1, <2>1
    <2>4. \A i \in 1 .. l + 1 : t[i] <= cursor + 1
      BY <2>1, <2>2, <2>3
    <2>5. ASSUME NEW i \in 1 .. l + 1, NEW j \in 1 .. l + 1, i < j
          PROVE  t[i] < t[j]
      <3>1. i \in 1 .. l
        BY <1>1, <2>5
      <3>2. CASE j \in 1 .. l
        BY <1>1, <2>1, <2>5, <3>1, <3>2
      <3>3. CASE j = l + 1
        BY <2>1, <2>3, <3>1, <3>3
      <3>4. QED
        BY <2>2, <3>2, <3>3
    <2>6. start + (l + 1) + lagged = cursor + 1 /\ cursor + 1 <= n
      BY <1>1, <1>2
    <2>7. QED
      BY <2>1, <2>4, <2>5, <2>6 DEF Account, t
  <1>3. ASSUME NEW k \in Nat, n - cursor > k
        PROVE  Account(start, n - k, seen, lagged + (n - cursor) - k, n)
    <2> HIDE DEF l
    <2>1. start + l + (lagged + (n - cursor) - k) = n - k /\ n - k <= n
      BY <1>1, <1>3
    <2>2. \A i \in 1 .. l : seen[i] <= n - k
      BY <1>1, <1>3
    <2>3. QED
      BY <1>1, <2>1, <2>2 DEF Account, l
  <1>4. Account(start, cursor, seen, lagged, n + 1)
    BY <1>1 DEF Account
  <1>5. QED
    BY <1>2, <1>3, <1>4

\* Each step of the channel and of a client's send_task keeps FeedInv.
LEMMA FeedStep ==
    ASSUME FeedInv, FeedNext
    PROVE  FeedInv'
  <1>1. CASE Send
    <2>1. \A c \in Clients : client[c] \in ClientStates
      BY DEF FeedInv
    <2>2. QED
      BY <1>1, <2>1, AccountKeeps DEF Send, FeedInv, ClientStates
  <1> SUFFICES ASSUME NEW c \in Clients,
                      Refuse(c) \/ Connect(c) \/ Forward(c) \/ Lagged(c) \/ Disconnect(c)
               PROVE  FeedInv'
    BY <1>1 DEF FeedNext
  <1> DEFINE old == client[c]
             new == client'[c]
  <1>2. /\ sent' = sent /\ \A d \in Clients \ {c} : client'[d] = client[d]
        /\ client' = [d \in Clients |-> client'[d]]
    BY DEF Refuse, Connect, Forward, Lagged, Disconnect, FeedInv
  <1>3. SUFFICES new \in ClientStates /\ Account(new.start, new.cursor, new.seen, new.lagged, sent)
    <2>1. \A d \in Clients : client'[d] \in ClientStates
      BY <1>2, <1>3 DEF FeedInv
    <2>2. QED
      BY <1>2, <1>3, <2>1 DEF FeedInv
  <1>4. /\ old \in ClientStates /\ sent \in Nat
        /\ Account(old.start, old.cursor, old.seen, old.lagged, sent)
    BY DEF FeedInv
  <1>5. old.start \in Nat /\ old.cursor \in Nat /\ old.lagged \in Nat /\ old.seen \in Seq(Nat)
    BY <1>4 DEF ClientStates
  <1>6. CASE Refuse(c) \/ Disconnect(c)
    <2>1. PICK s \in {"refused", "gone"} : new = [old EXCEPT !.state = s]
      BY <1>6 DEF Refuse, Disconnect, FeedInv
    <2>2. QED
      BY <1>4, <2>1 DEF ClientStates
  <1>7. CASE Connect(c)
    <2>1. new = [state |-> "online", start |-> sent, cursor |-> sent, seen |-> <<>>, lagged |-> 0]
      BY <1>7 DEF Connect, FeedInv, Offline
    <2>2. Account(sent, sent, <<>>, 0, sent)
      BY <1>4 DEF Account
    <2>3. QED
      BY <1>4, <2>1, <2>2 DEF ClientStates
  <1>8. CASE Forward(c)
    <2>1. new = [old EXCEPT !.cursor = old.cursor + 1, !.seen = Append(old.seen, old.cursor + 1)]
      BY <1>4, <1>8 DEF Forward, FeedInv, ClientStates
    <2>2. old.cursor < sent
      BY <1>4, <1>5, <1>8 DEF Forward, Behind
    <2>3. old.cursor + 1 \in Nat /\ Append(old.seen, old.cursor + 1) \in Seq(Nat)
      BY <1>5
    <2>4. Account(old.start, old.cursor + 1, Append(old.seen, old.cursor + 1), old.lagged, sent)
      BY <1>4, <1>5, <2>2, AccountKeeps
    <2> HIDE DEF old, new
    <2>5. QED
      BY <1>4, <2>1, <2>3, <2>4 DEF ClientStates
  <1>9. CASE Lagged(c)
    <2> DEFINE more == old.lagged + (sent - old.cursor) - Capacity
    <2>1. new = [old EXCEPT !.cursor = sent - Capacity, !.lagged = more]
      BY <1>4, <1>9 DEF Lagged, Behind, FeedInv, ClientStates
    <2>2. sent - old.cursor > Capacity
      BY <1>9 DEF Lagged, Behind
    <2>3. sent - Capacity \in Nat /\ more \in Nat
      BY <1>4, <1>5, <2>2, FeedAssumption
    <2>4. Account(old.start, sent - Capacity, old.seen, more, sent)
      BY <1>4, <1>5, <2>2, AccountKeeps, FeedAssumption
    <2> HIDE DEF old, new, more
    <2>5. QED
      BY <1>4, <2>1, <2>3, <2>4 DEF ClientStates
  <1>10. QED
    BY <1>6, <1>7, <1>8, <1>9

----------------------------------------------------------------------------
(* Deliveries on the bus *)

Events      == 1 .. MaxEvents
Subscribers == [sub : 1 .. MaxSubs, stores : BOOLEAN]
Deliveries  == [event : Events, sub : 1 .. MaxSubs, stores : BOOLEAN, attempt : 1 .. Attempts]

BusTypeOK ==
    /\ nextEvent \in Nat \ {0} /\ nextSub \in Nat \ {0}
    /\ subs \in [Topics -> Seq(Subscribers)]
    /\ checked \subseteq [event : Events, topic : Topics]
    /\ tasks \subseteq Deliveries
    /\ owed \subseteq Events \X (1 .. MaxSubs)
    /\ runs \in [Events \X (1 .. MaxSubs) -> Nat]
    /\ handled \subseteq owed

\* Numbers are given once: no two subscribers of a topic and no two publish
\* calls share one, and an event that was not fanned out is owed to nobody.
FreshNumbers ==
    /\ \A t \in Topics : \A r, s \in ToSet(subs[t]) : r.sub < nextSub /\ (r.sub = s.sub => r = s)
    /\ \A p, q \in checked : p.event < nextEvent /\ (p.event = q.event => p = q)
    /\ \A x \in owed : x[1] < nextEvent /\ \A p \in checked : p.event # x[1]

\* One task for a delivery that is not settled, at the attempt after those
\* that ran.
OneTask ==
    /\ \A t \in tasks : Key(t) \in owed \ handled /\ t.attempt = runs[Key(t)] + 1
    /\ \A t, u \in tasks : Key(t) = Key(u) => t = u
    /\ \A x \in DOMAIN runs : runs[x] <= IF x \in owed THEN Attempts ELSE 0
    /\ \A x \in owed \ handled : runs[x] = Attempts \/ \E t \in tasks : Key(t) = x

DeliveryInv == BusTypeOK /\ FreshNumbers /\ OneTask

\* subscribe gives its handler a number of its own.
LEMMA SubscribeKeeps ==
    ASSUME DeliveryInv, NEW t \in Topics, NEW stores \in BOOLEAN, Subscribe(t, stores)
    PROVE  DeliveryInv'
  <1> DEFINE new == [sub |-> nextSub, stores |-> stores]
  <1>1. new \in Subscribers /\ subs[t] \in Seq(Subscribers)
    <2>1. nextSub \in 1 .. MaxSubs
      BY PubSubAssumption DEF Subscribe, DeliveryInv, BusTypeOK
    <2>2. QED
      BY <2>1 DEF DeliveryInv, BusTypeOK, Subscribers
  <1>2. /\ Append(subs[t], new) \in Seq(Subscribers)
        /\ ToSet(Append(subs[t], new)) = ToSet(subs[t]) \cup {new}
    BY <1>1, AppendToSet
  <1>3. /\ subs' = [subs EXCEPT ![t] = Append(subs[t], new)] /\ nextSub' = nextSub + 1
        /\ UNCHANGED <<nextEvent, checked, tasks, owed, runs, handled>>
    BY DEF Subscribe
  <1> HIDE DEF new
  <1>4. BusTypeOK'
    BY <1>2, <1>3 DEF DeliveryInv, BusTypeOK
  <1>5. \A u \in Topics : ToSet(subs'[u]) = ToSet(subs[u]) \cup (IF u = t THEN {new} ELSE {})
    BY <1>2, <1>3 DEF DeliveryInv, BusTypeOK
  <1>6. \A u \in Topics : \A r \in ToSet(subs[u]) : r.sub \in Nat /\ r.sub < nextSub
    <2> SUFFICES ASSUME NEW u \in Topics, NEW i \in DOMAIN subs[u]
                 PROVE  subs[u][i].sub \in Nat
      BY DEF ToSet, DeliveryInv, FreshNumbers
    <2>1. subs[u] \in Seq(Subscribers)
      BY DEF DeliveryInv, BusTypeOK
    <2>2. subs[u][i] \in Subscribers
      BY <2>1
    <2>3. QED
      BY <2>2 DEF Subscribers
  <1>7. new.sub = nextSub /\ nextSub \in Nat
    BY DEF new, DeliveryInv, BusTypeOK
  <1>8. \A u \in Topics : \A r, s \in ToSet(subs'[u]) : r.sub < nextSub' /\ (r.sub = s.sub => r = s)
    <2> SUFFICES ASSUME NEW u \in Topics, NEW r \in ToSet(subs'[u]), NEW s \in ToSet(subs'[u])
                 PROVE  r.sub < nextSub + 1 /\ (r.sub = s.sub => r = s)
      BY <1>3
    <2>1. (r = new \/ r \in ToSet(subs[u])) /\ (s = new \/ s \in ToSet(subs[u]))
      BY <1>5
    <2>2. r \in ToSet(subs[u]) => r.sub \in Nat /\ r.sub < nextSub /\ r.sub < nextSub + 1
      BY <1>6, <1>7
    <2>3. s \in ToSet(subs[u]) => s.sub \in Nat /\ s.sub < nextSub
      BY <1>6
    <2>4. r \in ToSet(subs[u]) /\ s \in ToSet(subs[u]) => (r.sub = s.sub => r = s)
      BY DEF DeliveryInv, FreshNumbers
    <2>5. nextSub < nextSub + 1 /\ ~(nextSub < nextSub)
      BY <1>7
    <2>6. QED
      BY <1>7, <2>1, <2>2, <2>3, <2>4, <2>5
  <1>9. FreshNumbers'
    BY <1>3, <1>8 DEF DeliveryInv, FreshNumbers
  <1>10. OneTask'
    BY <1>3 DEF DeliveryInv, OneTask, Key
  <1>11. QED
    BY <1>4, <1>9, <1>10 DEF DeliveryInv

\* unsubscribe only empties a list; tasks that run stay.
LEMMA UnsubscribeKeeps ==
    ASSUME DeliveryInv, NEW t \in Topics, Unsubscribe(t)
    PROVE  DeliveryInv'
  <1>1. subs' = [subs EXCEPT ![t] = <<>>] /\ UNCHANGED <<nextSub, nextEvent, checked, tasks, owed, runs, handled>>
    BY DEF Unsubscribe
  <1>2. ToSet(<<>>) = {}
    BY DEF ToSet
  <1>3. \A u \in Topics : subs'[u] = (IF u = t THEN <<>> ELSE subs[u])
    BY <1>1 DEF DeliveryInv, BusTypeOK
  <1>4. \A u \in Topics : ToSet(subs'[u]) \subseteq ToSet(subs[u])
    BY <1>2, <1>3
  <1>5. BusTypeOK'
    BY <1>1 DEF DeliveryInv, BusTypeOK
  <1>6. FreshNumbers'
    BY <1>1, <1>4 DEF DeliveryInv, FreshNumbers
  <1>7. OneTask'
    BY <1>1 DEF DeliveryInv, OneTask, Key
  <1>8. QED
    BY <1>5, <1>6, <1>7 DEF DeliveryInv

\* publish takes the next event number before it reads the subscribers.
LEMMA CheckPublishKeeps ==
    ASSUME DeliveryInv, NEW a, NEW t \in Topics, CheckPublish(a, t)
    PROVE  DeliveryInv'
  <1> DEFINE new == [event |-> nextEvent, topic |-> t]
  <1>1. /\ checked' = checked \cup {new} /\ nextEvent' = nextEvent + 1
        /\ UNCHANGED <<subs, nextSub, tasks, owed, runs, handled>>
        /\ nextEvent \in Nat \ {0} /\ nextEvent <= MaxEvents
    BY DEF CheckPublish, DeliveryInv, BusTypeOK
  <1>2. new \in [event : Events, topic : Topics]
    BY <1>1, PubSubAssumption DEF Events
  <1>3. BusTypeOK'
    BY <1>1, <1>2 DEF DeliveryInv, BusTypeOK
  <1>4. /\ \A p \in checked : p.event \in Nat /\ p.event < nextEvent
        /\ \A x \in owed : x[1] \in Nat /\ x[1] < nextEvent
    BY DEF DeliveryInv, BusTypeOK, FreshNumbers, Events
  <1>5. new.event = nextEvent
    OBVIOUS
  <1> HIDE DEF new
  <1>6. \A n \in Nat : n < nextEvent => n < nextEvent + 1 /\ n # nextEvent
    BY <1>1
  <1>7. nextEvent < nextEvent + 1
    BY <1>1
  <1>8. FreshNumbers'
    BY <1>1, <1>4, <1>5, <1>6, <1>7 DEF DeliveryInv, FreshNumbers
  <1>9. OneTask'
    BY <1>1 DEF DeliveryInv, OneTask, Key
  <1>10. QED
    BY <1>3, <1>8, <1>9 DEF DeliveryInv

\* publish spawns one task for each subscriber of the moment; the event is
\* new to all of them.
LEMMA FanOutKeeps ==
    ASSUME DeliveryInv, NEW p \in checked, FanOut(p)
    PROVE  DeliveryInv'
  <1> DEFINE targets == ToSet(subs[p.topic])
             task(s) == [event |-> p.event, sub |-> s.sub, stores |-> s.stores, attempt |-> 1]
             key(s)  == <<p.event, s.sub>>
  <1>1. /\ checked' = checked \ {p}
        /\ tasks' = tasks \cup {task(s) : s \in targets}
        /\ owed' = owed \cup {key(s) : s \in targets}
        /\ UNCHANGED <<subs, nextSub, nextEvent, runs, handled>>
    BY DEF FanOut
  <1>2. p.event \in Events /\ p.topic \in Topics
    BY DEF DeliveryInv, BusTypeOK
  <1>3. \A s \in targets : s.sub \in 1 .. MaxSubs /\ s.stores \in BOOLEAN
    <2> SUFFICES ASSUME NEW i \in DOMAIN subs[p.topic]
                 PROVE  subs[p.topic][i].sub \in 1 .. MaxSubs /\ subs[p.topic][i].stores \in BOOLEAN
      BY DEF ToSet
    <2>1. subs[p.topic] \in Seq(Subscribers)
      BY <1>2 DEF DeliveryInv, BusTypeOK
    <2>2. subs[p.topic][i] \in Subscribers
      BY <2>1
    <2>3. QED
      BY <2>2 DEF Subscribers
  <1>4. 1 \in 1 .. Attempts
    BY PubSubAssumption
  <1>5. \A s \in targets : task(s) \in Deliveries /\ key(s) \in Events \X (1 .. MaxSubs)
    BY <1>2, <1>3, <1>4 DEF Deliveries
  <1>6. BusTypeOK'
    BY <1>1, <1>5 DEF DeliveryInv, BusTypeOK
  <1>7. \A r, s \in targets : r.sub = s.sub => r = s
    BY <1>2 DEF DeliveryInv, FreshNumbers
  <1>8. \A s \in targets : key(s) \notin owed /\ Key(task(s)) = key(s) /\ key(s)[1] = p.event
    BY DEF DeliveryInv, FreshNumbers, Key
  <1>9. \A s \in targets : runs[key(s)] = 0 /\ task(s).attempt = 1
    <2>1. \A s \in targets : key(s) \in DOMAIN runs /\ runs[key(s)] \in Nat
      BY <1>5 DEF DeliveryInv, BusTypeOK
    <2>2. \A s \in targets : runs[key(s)] <= 0
      BY <1>8, <2>1 DEF DeliveryInv, OneTask
    <2>3. QED
      BY <2>1, <2>2
  <1>10. \A r, s \in targets : key(r) = key(s) => r = s
    BY <1>7
  <1>11. p.event < nextEvent
    BY DEF DeliveryInv, FreshNumbers
  <1>12. \A q \in checked \ {p} : q.event # p.event
    BY DEF DeliveryInv, FreshNumbers
  <1> HIDE DEF targets, task, key
  <1>13. FreshNumbers'
    BY <1>1, <1>8, <1>11, <1>12 DEF DeliveryInv, FreshNumbers
  <1>14. OneTask'
    <2>1. \A t \in tasks' : Key(t) \in owed' \ handled' /\ t.attempt = runs'[Key(t)] + 1
      BY <1>1, <1>8, <1>9 DEF DeliveryInv, BusTypeOK, OneTask
    <2>2. \A t, u \in tasks' : Key(t) = Key(u) => t = u
      <3> SUFFICES ASSUME NEW t \in tasks', NEW u \in tasks', Key(t) = Key(u)
                   PROVE  t = u
        OBVIOUS
      <3>1. \A v \in tasks : Key(v) \in owed
        BY DEF DeliveryInv, OneTask
      <3>2. CASE t \in tasks /\ u \in tasks
        BY <3>2 DEF DeliveryInv, OneTask
      <3>3. CASE t \in tasks /\ u \notin tasks
        BY <1>1, <1>8, <3>1, <3>3
      <3>4. CASE t \notin tasks /\ u \in tasks
        BY <1>1, <1>8, <3>1, <3>4
      <3>5. CASE t \notin tasks /\ u \notin tasks
        BY <1>1, <1>8, <1>10, <3>5
      <3>6. QED
        BY <3>2, <3>3, <3>4, <3>5
    <2>3. \A x \in DOMAIN runs' : runs'[x] <= IF x \in owed' THEN Attempts ELSE 0
      <3> SUFFICES ASSUME NEW x \in DOMAIN runs
                   PROVE  runs[x] <= IF x \in owed' THEN Attempts ELSE 0
        BY <1>1
      <3>1. CASE \E s \in targets : x = key(s)
        <4>1. x \in owed' /\ runs[x] = 0
          BY <1>1, <1>9, <3>1
        <4>2. QED
          BY <4>1, PubSubAssumption
      <3>2. CASE ~\E s \in targets : x = key(s)
        <4>1. x \in owed' <=> x \in owed
          BY <1>1, <3>2
        <4>2. QED
          BY <4>1 DEF DeliveryInv, OneTask
      <3>3. QED
        BY <3>1, <3>2
    <2>4. \A x \in owed' \ handled' : runs'[x] = Attempts \/ \E t \in tasks' : Key(t) = x
      BY <1>1, <1>8 DEF DeliveryInv, OneTask
    <2>5. QED
      BY <2>1, <2>2, <2>3, <2>4 DEF OneTask
  <1>15. QED
    BY <1>6, <1>13, <1>14 DEF DeliveryInv

\* A handler ran, with success or not: its task is the only one for its key.
LEMMA HandlerKeeps ==
    ASSUME DeliveryInv, NEW t \in tasks, HandlerOk(t) \/ HandlerFails(t)
    PROVE  DeliveryInv'
  <1> DEFINE x == Key(t)
             again == [t EXCEPT !.attempt = @ + 1]
  <1>1. /\ UNCHANGED <<subs, nextSub, nextEvent, checked, owed>>
        /\ runs' = [runs EXCEPT ![x] = @ + 1]
    BY DEF HandlerOk, HandlerFails
  <1>2. /\ t \in Deliveries /\ t.attempt \in 1 .. Attempts /\ x \in owed \ handled
        /\ t.attempt = runs[x] + 1
    BY DEF DeliveryInv, BusTypeOK, OneTask, Deliveries
  <1>3. x \in Events \X (1 .. MaxSubs) /\ runs[x] \in Nat
    BY <1>2 DEF DeliveryInv, BusTypeOK
  <1>4. \A u \in tasks \ {t} : Key(u) # x
    BY DEF DeliveryInv, OneTask
  <1>5. \A y \in DOMAIN runs : runs'[y] = IF y = x THEN runs[x] + 1 ELSE runs[y]
    BY <1>1, <1>3 DEF DeliveryInv, BusTypeOK
  <1>6. runs' \in [Events \X (1 .. MaxSubs) -> Nat]
    BY <1>1, <1>3 DEF DeliveryInv, BusTypeOK
  <1>7. runs[x] + 1 <= Attempts
    BY <1>2, <1>3, PubSubAssumption
  <1>8. FreshNumbers'
    BY <1>1 DEF DeliveryInv, FreshNumbers
  <1>9. \A y \in DOMAIN runs' : runs'[y] <= IF y \in owed' THEN Attempts ELSE 0
    BY <1>1, <1>2, <1>5, <1>6, <1>7 DEF DeliveryInv, OneTask, BusTypeOK
  <1>10. CASE HandlerOk(t)
    <2>1. tasks' = tasks \ {t} /\ handled' = handled \cup {x}
      BY <1>10 DEF HandlerOk
    <2>2. BusTypeOK'
      BY <1>1, <1>2, <1>6, <2>1 DEF DeliveryInv, BusTypeOK
    <2> HIDE DEF x
    <2>3. OneTask'
      BY <1>1, <1>2, <1>4, <1>5, <1>9, <2>1 DEF DeliveryInv, OneTask, BusTypeOK
    <2>4. QED
      BY <1>8, <2>2, <2>3 DEF DeliveryInv
  <1>11. CASE HandlerFails(t) /\ t.attempt = Attempts
    <2>1. tasks' = tasks \ {t} /\ handled' = handled
      BY <1>11 DEF HandlerFails
    <2>2. BusTypeOK'
      BY <1>1, <1>6, <2>1 DEF DeliveryInv, BusTypeOK
    <2>3. runs'[x] = Attempts
      BY <1>2, <1>3, <1>5, <1>11 DEF DeliveryInv, BusTypeOK
    <2> HIDE DEF x
    <2>4. OneTask'
      BY <1>1, <1>2, <1>4, <1>5, <1>9, <2>1, <2>3 DEF DeliveryInv, OneTask, BusTypeOK
    <2>5. QED
      BY <1>8, <2>2, <2>4 DEF DeliveryInv
  <1>12. CASE HandlerFails(t) /\ t.attempt # Attempts
    <2>1. tasks' = (tasks \ {t}) \cup {again} /\ handled' = handled
      BY <1>12 DEF HandlerFails
    <2>2. t.attempt + 1 \in 1 .. Attempts
      BY <1>2, <1>12, PubSubAssumption
    <2>3. again \in Deliveries /\ Key(again) = x /\ again.attempt = t.attempt + 1
      BY <1>2, <2>2 DEF Deliveries, Key
    <2>4. BusTypeOK'
      BY <1>1, <1>6, <2>1, <2>3 DEF DeliveryInv, BusTypeOK
    <2> HIDE DEF x, again
    <2>5. runs'[x] = t.attempt
      BY <1>2, <1>3, <1>5 DEF DeliveryInv, BusTypeOK
    <2>6. OneTask'
      BY <1>1, <1>2, <1>4, <1>5, <1>9, <2>1, <2>3, <2>5 DEF DeliveryInv, OneTask, BusTypeOK
    <2>7. QED
      BY <1>8, <2>4, <2>6 DEF DeliveryInv
  <1>13. QED
    BY <1>10, <1>11, <1>12

\* Steps that leave the lists and the tasks of the bus alone.
LEMMA BusUntouched ==
    ASSUME DeliveryInv, UNCHANGED <<subs, nextSub, nextEvent, checked, tasks, owed, runs, handled>>
    PROVE  DeliveryInv'
  BY DEF DeliveryInv, BusTypeOK, FreshNumbers, OneTask, Key

\* A micro agent with its memory, and the other callers of the bus.
LEMMA DeliveryStep ==
    ASSUME DeliveryInv, LoopStep \/ BusStep
    PROVE  DeliveryInv'
  <1>1. CASE MemoryStep \/ Replied \/ \E c \in Conns : SaveOutput(c)
    BY <1>1, BusUntouched DEF MemoryStep, Replied, SaveOutput, busVars
  <1>2. ASSUME NEW t \in Topics, SpawnSubscribes(t)
        PROVE  DeliveryInv'
    BY <1>2, SubscribeKeeps DEF SpawnSubscribes
  <1>3. CASE PublishOutput
    BY <1>3, CheckPublishKeeps DEF PublishOutput
  <1>4. ASSUME NEW p \in checked, FanOut(p)
        PROVE  DeliveryInv'
    BY <1>4, FanOutKeeps
  <1>5. ASSUME NEW t \in tasks, NEW c \in Conns, StoreEvent(t, c)
        PROVE  DeliveryInv'
    BY <1>5, HandlerKeeps DEF StoreEvent
  <1>6. ASSUME NEW a \in Sources, Deregister(a)
        PROVE  DeliveryInv'
    BY <1>6, BusUntouched DEF Deregister
  <1>7. ASSUME NEW t \in Topics, Unsubscribe(t)
        PROVE  DeliveryInv'
    BY <1>7, UnsubscribeKeeps
  <1>8. ASSUME NEW a \in Sources, NEW t \in Topics, SubscribeAs(a, t)
        PROVE  DeliveryInv'
    BY <1>8, SubscribeKeeps DEF SubscribeAs
  <1>9. ASSUME NEW a \in Sources, NEW t \in Topics, Publish(a, t)
        PROVE  DeliveryInv'
    BY <1>9, CheckPublishKeeps DEF Publish
  <1>10. ASSUME NEW t \in tasks, RunHandler(t)
         PROVE  DeliveryInv'
    BY <1>10, HandlerKeeps DEF RunHandler
  <1>11. QED
    BY <1>1, <1>2, <1>3, <1>4, <1>5, <1>6, <1>7, <1>8, <1>9, <1>10 DEF LoopStep, BusStep

\* Nobody has subscribed and nothing was published.
LEMMA DeliveryInit == StoreInit => DeliveryInv
  <1> SUFFICES ASSUME StoreInit
               PROVE  DeliveryInv
    OBVIOUS
  <1>1. BusTypeOK
    BY DEF StoreInit, PubSubInit, BusTypeOK, Events
  <1>2. FreshNumbers
    <2>1. ToSet(<<>>) = {}
      BY DEF ToSet
    <2>2. QED
      BY <2>1 DEF StoreInit, PubSubInit, FreshNumbers
  <1>3. OneTask
    BY DEF StoreInit, PubSubInit, OneTask
  <1>4. QED
    BY <1>1, <1>2, <1>3 DEF DeliveryInv

\* InMemoryBus::publish and ws.rs: a delivery runs at most Attempts times and
\* never after a success, a handler that was not subscribed never runs, and
\* a WebSocket client misses no event silently, in every interleaving.
THEOREM ServedTheorem == StoreSpec => []SubscribersAreServed
  <1>1. StoreInit => FeedInv /\ DeliveryInv
    <2> SUFFICES ASSUME StoreInit
                 PROVE  FeedInv /\ DeliveryInv
      OBVIOUS
    <2>1. FeedInv
      <3>1. Account(0, 0, <<>>, 0, 0)
        BY DEF Account
      <3>2. sent = 0 /\ client = [c \in Clients |-> Offline]
        BY DEF StoreInit, FeedInit
      <3>3. QED
        BY <3>1, <3>2 DEF FeedInv, Offline, ClientStates
    <2>2. QED
      BY <2>1, DeliveryInit
  <1>2. FeedInv /\ DeliveryInv /\ [StoreNext]_storeVars => FeedInv' /\ DeliveryInv'
    <2> SUFFICES ASSUME FeedInv, DeliveryInv, [StoreNext]_storeVars
                 PROVE  FeedInv' /\ DeliveryInv'
      OBVIOUS
    <2>1. UNCHANGED feedVars => FeedInv'
      BY DEF feedVars, FeedInv
    <2>2. UNCHANGED pubSubVars => DeliveryInv'
      BY BusUntouched DEF pubSubVars, busVars
    <2>3. CASE (LoopStep \/ BusStep) /\ UNCHANGED feedVars
      BY <2>1, <2>3, DeliveryStep
    <2>4. CASE FeedNext /\ UNCHANGED pubSubVars
      BY <2>2, <2>4, FeedStep
    <2>5. CASE UNCHANGED <<feedVars, pubSubVars>>
      BY <2>1, <2>2, <2>5
    <2>6. QED
      BY <2>3, <2>4, <2>5 DEF StoreNext, storeVars
  <1>3. FeedInv /\ DeliveryInv => SubscribersAreServed
    <2>1. FeedInv => FeedInOrder
      BY DEF FeedInv, FeedInOrder, Account
    <2>2. DeliveryInv => DeliveryIsExact
      BY DEF DeliveryInv, BusTypeOK, OneTask, DeliveryIsExact
    <2>3. QED
      BY <2>1, <2>2 DEF SubscribersAreServed
  <1>4. QED
    BY <1>1, <1>2, <1>3, PTL DEF StoreSpec

----------------------------------------------------------------------------
(* Memory *)

Fields == {"step", "id", "word", "partition"}

\* What SQLite holds between and during saves: row numbers are unique, a save
\* that is indexing has its row, and every row that is not being saved and
\* was not left half saved is in the index.
SqliteInv ==
    /\ DOMAIN save = Conns
    /\ \A c \in Conns : save[c] # NoSave =>
         /\ DOMAIN save[c] = Fields
         /\ save[c].step \in {"replace", "index"}
         /\ save[c].step = "index" => save[c].id \in DOMAIN rows
    /\ \A i \in DOMAIN rows : rows[i].row \in Nat
    /\ \E b \in Nat : \A i \in DOMAIN rows : rows[i].row <= b
    /\ \A i, j \in DOMAIN rows : rows[i].row = rows[j].row => i = j
    /\ \A i \in DOMAIN rows \ (Saving \cup broken) :
         [row |-> rows[i].row, word |-> rows[i].word] \in fts

\* An id is being saved as long as some connection saves it.
LEMMA SavingIs == \A i : i \in Saving <=> \E c \in Conns : save[c] # NoSave /\ save[c].id = i
  BY DEF Saving

\* The first statement unindexes the row of the id that is saved, and no
\* other.
LEMMA BeginSaveKeeps ==
    ASSUME SqliteInv, NEW c \in Conns, NEW id, NEW word, NEW partition,
           BeginSave(c, id, word, partition)
    PROVE  SqliteInv'
  <1> DEFINE new == [step |-> "replace", id |-> id, word |-> word, partition |-> partition]
  <1>1. /\ save' = [save EXCEPT ![c] = new] /\ save[c] = NoSave /\ UNCHANGED <<rows, broken>>
        /\ fts' = {x \in fts : id \notin DOMAIN rows \/ x.row # rows[id].row}
    BY DEF BeginSave
  <1>2. new # NoSave /\ DOMAIN new = Fields /\ new.step = "replace" /\ new.id = id
    BY DEF NoSave, Fields
  <1> HIDE DEF new
  <1>3. /\ DOMAIN save' = Conns /\ save'[c] = new
        /\ \A d \in Conns \ {c} : save'[d] = save[d]
    BY <1>1 DEF SqliteInv
  <1>4. Saving' = Saving \cup {id}
    <2>1. \A i : i \in Saving' <=> \E d \in Conns : save'[d] # NoSave /\ save'[d].id = i
      BY DEF Saving
    <2>2. QED
      BY <1>1, <1>2, <1>3, <2>1, SavingIs
  <1>5. ASSUME NEW i \in DOMAIN rows \ (Saving' \cup broken)
        PROVE  [row |-> rows[i].row, word |-> rows[i].word] \in fts'
    <2>1. [row |-> rows[i].row, word |-> rows[i].word] \in fts /\ i # id
      BY <1>4 DEF SqliteInv
    <2>2. id \in DOMAIN rows => rows[i].row # rows[id].row
      BY <2>1 DEF SqliteInv
    <2>3. QED
      BY <1>1, <2>1, <2>2
  <1>6. \A d \in Conns : save'[d] # NoSave =>
          /\ DOMAIN save'[d] = Fields
          /\ save'[d].step \in {"replace", "index"}
          /\ save'[d].step = "index" => save'[d].id \in DOMAIN rows
    BY <1>2, <1>3 DEF SqliteInv
  <1>7. QED
    BY <1>1, <1>3, <1>5, <1>6 DEF SqliteInv

\* The next row number is larger than that of every other row.
LEMMA NextRowIsNew ==
    ASSUME SqliteInv, NEW id
    PROVE  NextRow(id) \in Nat /\ \A i \in DOMAIN rows \ {id} : rows[i].row < NextRow(id)
  <1> DEFINE S == {0} \cup {rows[i].row : i \in DOMAIN rows \ {id}}
  <1>1. PICK b \in Nat : \A i \in DOMAIN rows : rows[i].row <= b
    BY DEF SqliteInv
  <1>2. S \subseteq Nat /\ S # {} /\ \A x \in S : x <= b
    BY <1>1 DEF SqliteInv
  <1>3. Max(S) \in Nat /\ \A x \in S : x <= Max(S)
    BY <1>2, MaxOfBounded
  <1>4. NextRow(id) = Max(S) + 1
    BY DEF NextRow
  <1>5. \A i \in DOMAIN rows \ {id} : rows[i].row \in S /\ rows[i].row \in Nat
    BY DEF SqliteInv
  <1> HIDE DEF S
  <1>6. QED
    BY <1>3, <1>4, <1>5

\* INSERT OR REPLACE gives the id a row number nobody has.
LEMMA ReplaceRowKeeps ==
    ASSUME SqliteInv, NEW c \in Conns, ReplaceRow(c)
    PROVE  SqliteInv'
  <1> DEFINE id  == save[c].id
             new == [row |-> NextRow(id), word |-> save[c].word, partition |-> save[c].partition]
  <1>1. /\ rows' = [i \in DOMAIN rows \cup {id} |-> IF i = id THEN new ELSE rows[i]]
        /\ save' = [save EXCEPT ![c].step = "index"] /\ UNCHANGED <<fts, broken>>
        /\ save[c].step = "replace"
    BY DEF ReplaceRow
  <1>2. save[c] # NoSave /\ DOMAIN save[c] = Fields
    BY <1>1 DEF SqliteInv, NoSave
  <1>3. /\ DOMAIN save' = Conns /\ \A d \in Conns \ {c} : save'[d] = save[d]
        /\ save'[c] = [save[c] EXCEPT !.step = "index"]
    BY <1>1 DEF SqliteInv
  <1>4. /\ DOMAIN save'[c] = Fields /\ save'[c].step = "index" /\ save'[c].id = id
        /\ save'[c] # NoSave
    BY <1>2, <1>3 DEF Fields, NoSave
  <1>5. NextRow(id) \in Nat /\ \A i \in DOMAIN rows \ {id} : rows[i].row < NextRow(id)
    BY NextRowIsNew
  <1>6. /\ DOMAIN rows' = DOMAIN rows \cup {id} /\ rows'[id].row = NextRow(id)
        /\ \A i \in DOMAIN rows \ {id} : rows'[i] = rows[i]
    BY <1>1
  <1>7. Saving' = Saving /\ id \in Saving
    <2>1. \A i : i \in Saving' <=> \E d \in Conns : save'[d] # NoSave /\ save'[d].id = i
      BY DEF Saving
    <2>2. \A d \in Conns : /\ save'[d] # NoSave <=> save[d] # NoSave
                          /\ save'[d].id = save[d].id
      BY <1>2, <1>3, <1>4
    <2>3. \A i : i \in Saving' <=> i \in Saving
      BY <2>1, <2>2, SavingIs
    <2>4. QED
      BY <1>2, <2>3, SavingIs
  <1> HIDE DEF id, new
  <1>8. \A i \in DOMAIN rows' : rows'[i].row \in Nat
    BY <1>5, <1>6 DEF SqliteInv
  <1>9. \E b \in Nat : \A i \in DOMAIN rows' : rows'[i].row <= b
    <2>1. \A i \in DOMAIN rows' : rows'[i].row <= NextRow(id)
      BY <1>5, <1>6, <1>8
    <2>2. QED
      BY <1>5, <2>1
  <1>10. \A i, j \in DOMAIN rows' : rows'[i].row = rows'[j].row => i = j
    <2>1. \A i \in DOMAIN rows \ {id} : rows'[i].row # NextRow(id)
      BY <1>5, <1>6, <1>8
    <2>2. QED
      BY <1>6, <2>1 DEF SqliteInv
  <1>11. \A i \in DOMAIN rows' \ (Saving' \cup broken') :
           [row |-> rows'[i].row, word |-> rows'[i].word] \in fts'
    BY <1>1, <1>6, <1>7 DEF SqliteInv
  <1>12. \A d \in Conns : save'[d] # NoSave =>
           /\ DOMAIN save'[d] = Fields
           /\ save'[d].step \in {"replace", "index"}
           /\ save'[d].step = "index" => save'[d].id \in DOMAIN rows'
    BY <1>3, <1>4, <1>6 DEF SqliteInv
  <1>13. QED
    BY <1>3, <1>8, <1>9, <1>10, <1>11, <1>12 DEF SqliteInv

\* The last statement indexes what the table holds for the id by then; a save
\* that stops marks its id.
LEMMA EndSaveKeeps ==
    ASSUME SqliteInv, NEW c \in Conns, IndexRow(c) \/ StatementFails(c)
    PROVE  SqliteInv'
  <1> DEFINE id == save[c].id
  <1>1. save[c] # NoSave /\ save' = [save EXCEPT ![c] = NoSave] /\ rows' = rows
    BY DEF IndexRow, StatementFails, NoSave
  <1>2. /\ DOMAIN save' = Conns /\ save'[c] = NoSave
        /\ \A d \in Conns \ {c} : save'[d] = save[d]
    BY <1>1 DEF SqliteInv
  <1>3. Saving \subseteq Saving' \cup {id}
    <2>1. \A i : i \in Saving' <=> \E d \in Conns : save'[d] # NoSave /\ save'[d].id = i
      BY DEF Saving
    <2>2. QED
      BY <1>2, <2>1, SavingIs
  <1>4. fts \subseteq fts'
    BY DEF IndexRow, StatementFails
  <1>5. \A i \in DOMAIN rows \ (Saving' \cup broken') :
          [row |-> rows[i].row, word |-> rows[i].word] \in fts'
    <2> SUFFICES ASSUME NEW i \in DOMAIN rows \ (Saving' \cup broken')
                 PROVE  [row |-> rows[i].row, word |-> rows[i].word] \in fts'
      OBVIOUS
    <2>1. CASE i # id
      BY <1>3, <1>4, <2>1 DEF SqliteInv, IndexRow, StatementFails
    <2>2. CASE i = id
      BY <2>2 DEF IndexRow, StatementFails
    <2>3. QED
      BY <2>1, <2>2
  <1>6. QED
    BY <1>1, <1>2, <1>5 DEF SqliteInv

\* The row that recall looks for is in its index, or recall reads the table.
LEMMA IndexedIsFound == SqliteInv => SavedIsFound
  <1> SUFFICES ASSUME SqliteInv, NEW i \in DOMAIN rows \ (Saving \cup broken)
               PROVE  /\ i \in Recall(rows[i].word)
                      /\ rows[i].partition # Private /\ CanRead(rows[i].partition) =>
                           i \in ReadShared(rows[i].partition, rows[i].word)
    BY DEF SavedIsFound
  <1>1. [row |-> rows[i].row, word |-> rows[i].word] \in fts
    BY DEF SqliteInv
  <1>2. \E x \in fts : x.row = rows[i].row /\ x.word = rows[i].word
    BY <1>1
  <1>3. i \in Recall(rows[i].word)
    BY <1>2 DEF Recall
  <1>4. QED
    BY <1>3 DEF ReadShared

Entries == [id : [what : {"output", "shared", "event"}, ms : Nat], word : Nat]

\* The list of InMemoryMemory, newest first.
ListInv ==
    /\ now \in Nat
    /\ store \in Seq(Entries)
    /\ NewestFirst

\* The first n of f descend; P are those that are at least m.
Descends(f, n) == \A i, j \in 1 .. n : i < j => f[i] >= f[j]
AtLeast(P, f, n, m) == \A i : i \in P <=> i \in 1 .. n /\ f[i] >= m

\* In a list that descends, what is at least m is a first part of it.
LEMMA FirstPart ==
    ASSUME NEW n \in Nat, NEW f \in [1 .. n -> Nat], NEW m \in Nat, Descends(f, n),
           NEW P, AtLeast(P, f, n, m)
    PROVE  \E k \in 0 .. n : P = 1 .. k
  <1> USE DEF Descends, AtLeast
  <1>1. CASE P = {}
    <2>1. 0 \in 0 .. n /\ 1 .. 0 = {}
      OBVIOUS
    <2>2. QED
      BY <1>1, <2>1
  <1>2. CASE P # {}
    <2>1. P \subseteq Nat /\ \A i \in P : i <= n
      OBVIOUS
    <2>2. PICK k \in P : \A i \in P : i <= k
      BY <1>2, <2>1, MaxOfBounded
    <2>3. k \in 1 .. n /\ f[k] >= m /\ k \in 0 .. n
      BY <2>2
    <2>4. \A i \in 1 .. k : i \in P
      <3> SUFFICES ASSUME NEW i \in 1 .. k, i # k
                   PROVE  i \in P
        BY <2>2
      <3>1. i \in 1 .. n /\ i < k
        BY <2>3
      <3>2. f[i] >= f[k] /\ f[i] \in Nat /\ f[k] \in Nat
        BY <2>3, <3>1
      <3>3. QED
        BY <2>3, <3>1, <3>2
    <2>5. \A i \in P : i \in 1 .. k
      BY <2>1, <2>2, <2>3
    <2>6. P = 1 .. k
      BY <2>4, <2>5
    <2>7. QED
      BY <2>3, <2>6
  <1>3. QED
    BY <1>1, <1>2

\* An entry is inserted before the first older one.
LEMMA ListKeeps ==
    ASSUME ListInv, NEW id \in [what : {"output", "shared", "event"}, ms : Nat], NEW word \in Nat,
           SaveInMemory(id, word)
    PROVE  ListInv'
  <1> DEFINE n == Len(store)
             f == [i \in 1 .. n |-> store[i].id.ms]
             m == id.ms
             e == [id |-> id, word |-> word]
  <1>1. n \in Nat /\ DOMAIN store = 1 .. n /\ m \in Nat /\ e \in Entries /\ e.id.ms = m
    BY DEF ListInv, Entries
  <1>2. \A i \in 1 .. n : store[i] \in Entries /\ store[i].id.ms \in Nat
    <2>1. \A x \in Entries : x.id.ms \in Nat
      BY DEF Entries
    <2>2. \A i \in 1 .. n : store[i] \in Entries
      BY DEF ListInv
    <2>3. QED
      BY <2>1, <2>2
  <1>3. f \in [1 .. n -> Nat] /\ Descends(f, n)
    BY <1>1, <1>2 DEF ListInv, NewestFirst, Descends
  <1> DEFINE P == {i \in DOMAIN store : store[i].id.ms >= id.ms}
  <1>4. AtLeast(P, f, n, m)
    BY <1>1 DEF AtLeast
  <1>5. PICK k \in 0 .. n : P = 1 .. k
    <2> HIDE DEF f, n, m, e, P
    <2>1. n \in Nat /\ m \in Nat
      BY <1>1
    <2>2. QED
      BY <1>3, <1>4, <2>1, FirstPart
  <1>6. k \in Nat /\ k <= n /\ Cardinality(1 .. k) = k
    BY <1>1, <1>5, CountTo
  <1>7. store' = InsertAt(store, k + 1, e) /\ now' = now
    BY <1>4, <1>5, <1>6 DEF SaveInMemory
  <1>8. store \in Seq(Entries)
    BY DEF ListInv
  <1>9. \A i \in 1 .. n : (i <= k => f[i] >= m) /\ (k < i => m >= f[i])
    <2> HIDE DEF f, n, m
    <2> SUFFICES ASSUME NEW i \in 1 .. n
                 PROVE  (i <= k => f[i] >= m) /\ (k < i => m >= f[i])
      OBVIOUS
    <2>1. i \in 1 .. k <=> i <= k
      BY <1>6
    <2>2. f[i] >= m <=> i \in 1 .. k
      BY <1>4, <1>5 DEF AtLeast
    <2>3. f[i] \in Nat
      BY <1>3
    <2>4. QED
      BY <1>1, <1>6, <2>1, <2>2, <2>3
  <1>10. store' \in Seq(Entries) /\ IsInserted(store', store, k, e)
    <2>1. k \in 0 .. Len(store)
      BY <1>5
    <2> HIDE DEF e
    <2>2. e \in Entries
      BY <1>1
    <2>3. QED
      BY <1>7, <1>8, <2>1, <2>2, Inserted
  <1> DEFINE g == [i \in 1 .. n + 1 |-> store'[i].id.ms]
  <1>11. /\ \A i \in 1 .. k : g[i] = f[i]
         /\ g[k + 1] = m
         /\ \A i \in k + 1 .. n : g[i + 1] = f[i]
    BY <1>1, <1>6, <1>10 DEF IsInserted
  <1>12. \A i \in 1 .. n + 1 : store'[i].id.ms = g[i]
    OBVIOUS
  <1>13. DOMAIN store' = 1 .. n + 1
    BY <1>10 DEF IsInserted
  <1> HIDE DEF f, g, n, m, e
  <1> USE DEF Descends
  <1>14. \A i \in 1 .. n + 1 : i \in 1 .. k \/ i = k + 1 \/ (i - 1 \in k + 1 .. n /\ (i - 1) + 1 = i)
    BY <1>1, <1>6
  <1>15. ASSUME NEW i \in 1 .. n + 1, NEW j \in 1 .. n + 1, i < j
         PROVE  g[i] >= g[j]
    <2>1. CASE i \in 1 .. k /\ j \in 1 .. k
      BY <1>1, <1>3, <1>6, <1>11, <1>15, <2>1
    <2>2. CASE i \in 1 .. k /\ j = k + 1
      BY <1>1, <1>6, <1>9, <1>11, <2>2
    <2>3. CASE i \in 1 .. k /\ j - 1 \in k + 1 .. n /\ (j - 1) + 1 = j
      <3>1. i < j - 1 /\ g[i] = f[i] /\ g[j] = f[j - 1]
        BY <1>6, <1>11, <2>3
      <3>2. i \in 1 .. n /\ j - 1 \in 1 .. n
        BY <1>1, <1>6, <2>3
      <3>3. QED
        BY <1>3, <3>1, <3>2
    <2>4. CASE i = k + 1 /\ j - 1 \in k + 1 .. n /\ (j - 1) + 1 = j
      <3>1. g[i] = m /\ g[j] = f[j - 1]
        BY <1>11, <2>4
      <3>2. j - 1 \in 1 .. n /\ k < j - 1
        BY <1>1, <1>6, <2>4
      <3>3. QED
        BY <1>9, <3>1, <3>2
    <2>5. CASE /\ i - 1 \in k + 1 .. n /\ (i - 1) + 1 = i
               /\ j - 1 \in k + 1 .. n /\ (j - 1) + 1 = j
      <3>1. g[i] = f[i - 1] /\ g[j] = f[j - 1]
        BY <1>11, <2>5
      <3>2. i - 1 \in 1 .. n /\ j - 1 \in 1 .. n /\ i - 1 < j - 1
        BY <1>1, <1>6, <1>15, <2>5
      <3>3. QED
        BY <1>3, <3>1, <3>2
    <2>6. k + 1 < k + 1 => FALSE
      BY <1>6
    <2>7. QED
      BY <1>6, <1>14, <1>15, <2>1, <2>2, <2>3, <2>4, <2>5
  <1>16. NewestFirst'
    BY <1>12, <1>13, <1>15 DEF NewestFirst
  <1>17. QED
    BY <1>7, <1>10, <1>16 DEF ListInv

\* The steps that touch a memory: its own, an output and an event that is
\* saved.  Words are numbers of events.
LEMMA MemoryStepKeeps ==
    ASSUME SqliteInv, ListInv, DeliveryInv, LoopStep \/ BusStep
    PROVE  SqliteInv' /\ ListInv'
  <1>1. UNCHANGED <<rows, fts, save, broken>> => SqliteInv'
    BY DEF SqliteInv, Saving
  <1>2. UNCHANGED <<now, store>> => ListInv'
    BY DEF ListInv, NewestFirst
  <1>3. UNCHANGED memoryVars => SqliteInv' /\ ListInv'
    BY <1>1, <1>2 DEF memoryVars
  <1>4. CASE Tick
    <2>1. now' \in Nat /\ store' = store
      BY <1>4 DEF Tick, ListInv
    <2>2. QED
      BY <1>1, <1>4, <2>1 DEF Tick, ListInv, NewestFirst
  <1>5. ASSUME NEW c \in Conns, ReplaceRow(c) \/ IndexRow(c) \/ StatementFails(c)
        PROVE  SqliteInv' /\ ListInv'
    BY <1>2, <1>5, ReplaceRowKeeps, EndSaveKeeps DEF ReplaceRow, IndexRow, StatementFails
  <1>6. ASSUME NEW c \in Conns, NEW id, NEW word, NEW p, BeginSave(c, id, word, p)
        PROVE  SqliteInv' /\ ListInv'
    BY <1>2, <1>6, BeginSaveKeeps DEF BeginSave
  <1>7. ASSUME NEW id \in [what : {"output", "shared", "event"}, ms : Nat], NEW word \in Nat,
               SaveInMemory(id, word)
        PROVE  SqliteInv' /\ ListInv'
    BY <1>1, <1>7, ListKeeps DEF SaveInMemory
  <1>8. ASSUME NEW c \in Conns, SaveOutput(c)
        PROVE  SqliteInv' /\ ListInv'
    <2> DEFINE id == [what |-> IF Head(loop) = Private THEN "output" ELSE "shared", ms |-> now]
    <2>1. id \in [what : {"output", "shared", "event"}, ms : Nat] /\ nextEvent \in Nat
      BY DEF ListInv, DeliveryInv, BusTypeOK
    <2>2. \/ BeginSave(c, id, nextEvent, Head(loop))
          \/ SaveInMemory(id, nextEvent)
          \/ UNCHANGED memoryVars
      BY <1>8 DEF SaveOutput
    <2> HIDE DEF id
    <2>3. QED
      BY <1>3, <1>6, <1>7, <2>1, <2>2
  <1>9. ASSUME NEW t \in tasks, NEW c \in Conns, StoreEvent(t, c)
        PROVE  SqliteInv' /\ ListInv'
    <2> DEFINE id == [what |-> "event", ms |-> now]
    <2>1. id \in [what : {"output", "shared", "event"}, ms : Nat]
      BY DEF ListInv
    <2>2. t.event \in Nat
      BY DEF DeliveryInv, BusTypeOK, Deliveries, Events
    <2>3. BeginSave(c, id, t.event, Private) \/ SaveInMemory(id, t.event)
      BY <1>9 DEF StoreEvent
    <2> HIDE DEF id
    <2>4. QED
      BY <1>6, <1>7, <2>1, <2>2, <2>3
  <1>10. CASE MemoryStep
    BY <1>4, <1>5, <1>10 DEF MemoryStep
  <1>11. CASE \/ \E t \in Topics : SpawnSubscribes(t)
              \/ Replied
              \/ PublishOutput
              \/ \E p \in checked : FanOut(p)
    BY <1>3, <1>11 DEF SpawnSubscribes, Subscribe, Replied, PublishOutput, FanOut
  <1>12. CASE BusStep
    BY <1>3, <1>12
       DEF BusStep, Deregister, Unsubscribe, SubscribeAs, Subscribe, Publish, FanOut, RunHandler
  <1>13. QED
    BY <1>8, <1>9, <1>10, <1>11, <1>12 DEF LoopStep

\* SqliteMemory::insert_entry and InMemoryMemory::save_entry: what was saved
\* is found by recall and read_shared, whatever another connection saves
\* between the three statements and whichever of them fails, and the list in
\* memory stays newest first.
THEOREM MemoryTheorem == StoreSpec => []MemoryFinds
  <1> DEFINE Inv == SqliteInv /\ ListInv /\ DeliveryInv
  <1>1. StoreInit => Inv
    <2> SUFFICES ASSUME StoreInit
                 PROVE  Inv
      OBVIOUS
    <2>1. /\ now = 0 /\ rows = <<>> /\ save = [c \in Conns |-> NoSave] /\ store = <<>>
          /\ DOMAIN rows = {} /\ DOMAIN store = {}
      BY DEF StoreInit, PubSubInit, MemoryInit
    <2>2. SqliteInv
      BY <2>1 DEF SqliteInv
    <2>3. ListInv
      BY <2>1 DEF ListInv, NewestFirst
    <2>4. DeliveryInv
      BY DeliveryInit
    <2>5. QED
      BY <2>2, <2>3, <2>4
  <1>2. Inv /\ [StoreNext]_storeVars => Inv'
    <2> SUFFICES ASSUME Inv, [StoreNext]_storeVars
                 PROVE  Inv'
      OBVIOUS
    <2>1. CASE LoopStep \/ BusStep
      BY <2>1, MemoryStepKeeps, DeliveryStep
    <2>2. CASE UNCHANGED pubSubVars
      <3>1. SqliteInv' /\ ListInv'
        BY <2>2 DEF pubSubVars, memoryVars, SqliteInv, Saving, ListInv, NewestFirst
      <3>2. DeliveryInv'
        BY <2>2, BusUntouched DEF pubSubVars, busVars
      <3>3. QED
        BY <3>1, <3>2
    <2>3. QED
      BY <2>1, <2>2 DEF StoreNext, storeVars
  <1>3. Inv => MemoryFinds
    BY IndexedIsFound DEF ListInv, MemoryFinds
  <1>4. QED
    BY <1>1, <1>2, <1>3, PTL DEF StoreSpec

----------------------------------------------------------------------------
(* The audit log *)

\* The files that the names of d point to in c, oldest first.
Held(d, c, n) == IF d[n] = NoFile THEN NoList ELSE c[d[n]]
PartsOf(d, c) == [i \in 1 .. MaxFiles + 1 |-> Held(d, c, (MaxFiles + 1) - i)]
Content(d, c) == FlattenSeq(PartsOf(d, c))

\* A disk d whose names point to the files c, or to no file.
DiskOf(d, c) == c \in Seq(Lists) /\ d \in [Names -> 0 .. Len(c)]

\* What is held under a name depends on the file of that name only.
LEMMA HeldIs ==
    ASSUME NEW c, NEW d, NEW e, NEW n, NEW m
    PROVE  /\ e[n] = d[m] => Held(e, c, n) = Held(d, c, m)
           /\ e[n] = NoFile => Held(e, c, n) = NoList
  BY DEF Held

\* The list of a name, and that nothing but lists are flattened.
LEMMA PartsAre ==
    ASSUME NEW c, NEW d, DiskOf(d, c)
    PROVE  /\ PartsOf(d, c) \in Seq(Lists) /\ Len(PartsOf(d, c)) = MaxFiles + 1
           /\ \A n \in Names : /\ (MaxFiles + 1) - n \in 1 .. MaxFiles + 1
                               /\ PartsOf(d, c)[(MaxFiles + 1) - n] = Held(d, c, n)
           /\ \A i \in 1 .. MaxFiles + 1 : (MaxFiles + 1) - i \in Names
  <1> DEFINE p == PartsOf(d, c)
             N == MaxFiles + 1
  <1>1. N \in Nat /\ Names = 0 .. N - 1
    BY AuditAssumption DEF Names
  <1> HIDE DEF N
  <1>2. \A i \in 1 .. N : N - i \in Names
    BY <1>1
  <1>3. \A n \in Names : N - n \in 1 .. N /\ N - (N - n) = n
    BY <1>1
  <1>4. p = [i \in 1 .. N |-> Held(d, c, N - i)]
    BY DEF PartsOf, N
  <1>5. \A n \in Names : Held(d, c, n) \in Lists
    <2>1. \A n \in Names : d[n] # NoFile => d[n] \in 1 .. Len(c)
      BY DEF DiskOf, NoFile
    <2>2. \A k \in 1 .. Len(c) : c[k] \in Lists
      BY DEF DiskOf
    <2>3. QED
      BY <2>1, <2>2, ChainedIs DEF Held
  <1>6. p \in [1 .. N -> Lists]
    BY <1>2, <1>4, <1>5
  <1> HIDE DEF p
  <1>7. p \in Seq(Lists) /\ Len(p) = N
    BY <1>1, <1>6
  <1>8. \A n \in Names : p[N - n] = Held(d, c, n)
    BY <1>3, <1>4
  <1>9. QED
    BY <1>2, <1>3, <1>7, <1>8 DEF p, N

\* The content of a disk is the last of the lists chained up.
LEMMA ContentFlattens ==
    ASSUME NEW c, NEW d, DiskOf(d, c)
    PROVE  \E f : Flattens(f, PartsOf(d, c), MaxFiles + 1) /\ Content(d, c) = f[MaxFiles + 1]
  <1>1. MaxFiles + 1 \in Nat \ {0}
    BY AuditAssumption
  <1>2. QED
    BY <1>1, PartsAre, FlattenIs DEF Content

\* The lists of two disks and the values they lead to.
LEMMA PairIs ==
    ASSUME NEW c, NEW d, DiskOf(d, c), NEW b, NEW e, DiskOf(e, b)
    PROVE  \E f, g : /\ Pair(f, PartsOf(d, c), g, PartsOf(e, b), MaxFiles + 1)
                     /\ Content(d, c) = f[MaxFiles + 1] /\ Content(e, b) = g[MaxFiles + 1]
  <1>1. PICK f : Flattens(f, PartsOf(d, c), MaxFiles + 1) /\ Content(d, c) = f[MaxFiles + 1]
    BY ContentFlattens
  <1>2. PICK g : Flattens(g, PartsOf(e, b), MaxFiles + 1) /\ Content(e, b) = g[MaxFiles + 1]
    BY ContentFlattens
  <1>3. QED
    BY <1>1, <1>2, PartsAre DEF Pair

\* It is a list.
LEMMA ContentIs ==
    ASSUME NEW c, NEW d, DiskOf(d, c)
    PROVE  Content(d, c) \in Lists
  <1>1. PICK f, g : /\ Pair(f, PartsOf(d, c), g, PartsOf(d, c), MaxFiles + 1)
                    /\ Content(d, c) = f[MaxFiles + 1]
    BY PairIs
  <1>2. QED
    BY <1>1, AuditAssumption DEF Pair, Flattens

\* e is d with the file of s - 1 moved to s.
IsMoved(e, d, s) ==
    /\ e[s] = d[s - 1] /\ e[s - 1] = NoFile
    /\ \A n \in Names : n # s /\ n # s - 1 => e[n] = d[n]

\* A file moved to the next name replaces nothing, or the oldest.
LEMMA MoveKeeps ==
    ASSUME NEW c, NEW d, DiskOf(d, c), NEW s \in 1 .. MaxFiles,
           d[s] = NoFile \/ \A n \in s + 1 .. MaxFiles : d[n] = NoFile,
           NEW e, DiskOf(e, c), IsMoved(e, d, s)
    PROVE  LastPart(Content(e, c), Content(d, c))
  <1> DEFINE N == MaxFiles + 1
             j == N - (s - 1)
             q == PartsOf(d, c)
             r == PartsOf(e, c)
  <1>1. /\ N \in Nat /\ s \in Names /\ s - 1 \in Names /\ s # s - 1 /\ j \in 2 .. N
        /\ N - s = j - 1 /\ j - 1 \in 1 .. N /\ j - 2 \in 0 .. N /\ (j - 1) - 1 = j - 2
        /\ j \in 1 .. N /\ j \in 0 .. N /\ j - 1 \in 0 .. N
    BY AuditAssumption DEF Names
  <1>3. PICK f, g : Pair(f, q, g, r, N) /\ Content(d, c) = f[N] /\ Content(e, c) = g[N]
    BY PairIs
  <1>4. e[s] = d[s - 1] /\ e[s - 1] = NoFile /\ \A n \in Names : n # s /\ n # s - 1 => e[n] = d[n]
    BY DEF IsMoved
  <1>5. /\ \A n \in Names : q[N - n] = Held(d, c, n)
        /\ \A n \in Names : r[N - n] = Held(e, c, n)
        /\ \A i \in 1 .. N : N - i \in Names
    BY PartsAre
  <1> HIDE DEF q, r, N
  <1>a. (\A i \in 1 .. N : N - (N - i) = i) /\ j = N - (s - 1)
    BY <1>1
  <1> HIDE DEF j
  <1>b. /\ Held(e, c, s) = Held(d, c, s - 1) /\ Held(e, c, s - 1) = NoList
        /\ \A n \in Names : n # s /\ n # s - 1 => Held(e, c, n) = Held(d, c, n)
    BY <1>4, HeldIs
  <1>6. r[j - 1] = q[j] /\ r[j] = NoList
    <2>1. r[N - s] = q[N - (s - 1)] /\ r[N - (s - 1)] = NoList
      BY <1>1, <1>5, <1>b
    <2>2. QED
      BY <1>1, <1>a, <2>1
  <1>7. ASSUME NEW i \in 1 .. N, i # j, i # j - 1
        PROVE  r[i] = q[i]
    <2>1. N - i # s /\ N - i # s - 1 /\ N - i \in Names
      BY <1>1, <1>5, <1>7, <1>a
    <2>2. r[N - (N - i)] = q[N - (N - i)]
      BY <1>5, <1>b, <2>1
    <2>3. QED
      BY <1>a, <2>2
  <1>8. q[j - 1] = NoList \/ \A i \in 1 .. j - 2 : q[i] = NoList
    <2>1. CASE d[s] = NoFile
      <3>1. q[N - s] = NoList
        BY <1>1, <1>5, <2>1 DEF Held
      <3>2. QED
        BY <1>1, <3>1
    <2>2. CASE \A n \in s + 1 .. MaxFiles : d[n] = NoFile
      <3>1. ASSUME NEW i \in 1 .. j - 2
            PROVE  q[i] = NoList
        <4>1. i \in 1 .. N /\ N - i \in s + 1 .. MaxFiles
          BY <1>1, <1>a, AuditAssumption DEF N
        <4>2. N - i \in Names /\ N - (N - i) = i /\ d[N - i] = NoFile
          BY <1>5, <1>a, <2>2, <4>1
        <4>3. q[N - (N - i)] = NoList
          BY <1>5, <4>2 DEF Held
        <4>4. QED
          BY <4>2, <4>3
      <3>2. QED
        BY <3>1
    <2>3. QED
      BY <2>1, <2>2
  <1>9. /\ f[j] = Chained(f[j - 1], q[j]) /\ f[j - 1] = Chained(f[j - 2], q[j - 1])
        /\ g[j] = Chained(g[j - 1], r[j]) /\ g[j - 1] = Chained(g[j - 2], r[j - 1])
        /\ f[j - 2] \in Lists /\ g[j - 2] \in Lists /\ g[j - 1] \in Lists /\ f[j - 1] \in Lists
    BY <1>1, <1>3 DEF Pair, Flattens
  <1>10. q[j] \in Lists /\ q[j - 1] \in Lists
    BY <1>1, <1>3 DEF Pair
  <1>11. g[j - 2] = f[j - 2]
    <2>1. \A k \in 1 .. j - 2 : r[k] = q[k]
      BY <1>1, <1>7
    <2>2. \A k \in 0 .. j - 2 : g[k] = f[k]
      BY <1>1, <1>3, <2>1, SameIs
    <2>3. QED
      BY <1>1, <2>2
  <1>12. LastPart(g[j - 2], f[j - 1])
    <2>1. CASE q[j - 1] = NoList
      BY <1>9, <1>11, <2>1, ChainedIs
    <2>2. CASE \A i \in 1 .. j - 2 : q[i] = NoList
      <3>1. Flattens(f, q, N)
        BY <1>3 DEF Pair
      <3>2. \A k \in 0 .. j - 2 : f[k] = NoList
        BY <1>1, <2>2, <3>1, BlankIs
      <3>3. f[j - 2] = NoList
        BY <1>1, <3>2
      <3>4. QED
        BY <1>9, <1>11, <3>3, ChainedIs
    <2>3. QED
      BY <1>8, <2>1, <2>2
  <1>13. g[j] = Chained(g[j - 2], q[j])
    <2>1. g[j] = g[j - 1]
      BY <1>6, <1>9, ChainedIs
    <2>2. QED
      BY <1>6, <1>9, <2>1
  <1>14. LastPart(g[j], f[j])
    <2>1. LastPart(Chained(g[j - 2], q[j]), Chained(f[j - 1], q[j]))
      BY <1>9, <1>10, <1>12, BothEnd
    <2>2. QED
      BY <1>9, <1>13, <2>1
  <1>15. LastPart(g[N], f[N])
    <2>1. \A k \in j + 1 .. N : r[k] = q[k]
      BY <1>1, <1>7
    <2>2. QED
      BY <1>1, <1>3, <1>14, <2>1, RestKeeps
  <1>16. QED
    BY <1>3, <1>15 DEF N

\* The last name is given up.
LEMMA DropKeeps ==
    ASSUME NEW c, NEW d, DiskOf(d, c), NEW e, e = [d EXCEPT ![MaxFiles] = NoFile]
    PROVE  DiskOf(e, c) /\ LastPart(Content(e, c), Content(d, c))
  <1> DEFINE N == MaxFiles + 1
             q == PartsOf(d, c)
             r == PartsOf(e, c)
  <1>1. N \in Nat /\ MaxFiles \in Names /\ N - MaxFiles = 1 /\ 1 \in 1 .. N /\ 1 \in 0 .. N
    BY AuditAssumption DEF Names
  <1>2. DiskOf(e, c)
    BY <1>1 DEF DiskOf, NoFile
  <1>3. PICK f, g : Pair(f, q, g, r, N) /\ Content(d, c) = f[N] /\ Content(e, c) = g[N]
    BY <1>2, PairIs
  <1>4. e[MaxFiles] = NoFile /\ \A n \in Names : n # MaxFiles => e[n] = d[n]
    BY <1>1 DEF DiskOf
  <1>5. /\ \A n \in Names : q[N - n] = Held(d, c, n)
        /\ \A n \in Names : r[N - n] = Held(e, c, n)
        /\ \A i \in 1 .. N : N - i \in Names
    BY <1>2, PartsAre
  <1> HIDE DEF q, r
  <1>a. \A i \in 1 .. N : N - (N - i) = i /\ (i # 1 => N - i # MaxFiles)
    BY AuditAssumption
  <1>6. r[1] = NoList /\ \A i \in 2 .. N : r[i] = q[i]
    <2>1. r[1] = NoList
      BY <1>1, <1>4, <1>5 DEF Held
    <2>2. ASSUME NEW i \in 2 .. N
          PROVE  r[i] = q[i]
      <3>1. i \in 1 .. N /\ i # 1
        OBVIOUS
      <3>2. r[N - (N - i)] = q[N - (N - i)]
        BY <1>4, <1>5, <1>a, <3>1 DEF Held
      <3>3. QED
        BY <1>a, <3>1, <3>2
    <2>3. QED
      BY <2>1, <2>2
  <1> HIDE DEF N
  <1>7. g[1] = NoList /\ f[1] \in Lists
    <2>1. g[1 - 1] = NoList /\ g[1] = Chained(g[1 - 1], r[1]) /\ f[1] \in Lists
      BY <1>1, <1>3 DEF Pair, Flattens
    <2>2. QED
      BY <1>6, <2>1, ChainedIs
  <1>8. LastPart(g[1], f[1])
    BY <1>7, ChainedIs
  <1>9. LastPart(g[N], f[N])
    <2>1. \A k \in 1 + 1 .. N : r[k] = q[k]
      BY <1>6
    <2>2. QED
      BY <1>1, <1>3, <1>8, <2>1, RestKeeps
  <1>10. QED
    BY <1>2, <1>3, <1>9 DEF N

\* The files of a disk differ, and w is the one that was written last: what
\* is on the disk is older, or w itself.
Distinct(d) == \A n, m \in Names : d[n] = d[m] /\ d[n] # NoFile => n = m
Youngest(d, w) == \A n \in Names : d[n] # NoFile => \E m \in 0 .. n : d[m] = w

\* One more event.
More(s, x) == Append(s, x)

\* It goes to the end of the last part and of the chain alike.
LEMMA MoreIs ==
    ASSUME NEW s \in Lists, NEW t \in Lists, NEW x \in Nat
    PROVE  /\ More(s, x) \in Lists
           /\ LastPart(s, t) => LastPart(More(s, x), More(t, x))
           /\ Chained(t, More(s, x)) = More(Chained(t, s), x)
  <1>1. Append(s, x) \in Lists /\ (LastPart(s, t) => LastPart(Append(s, x), Append(t, x)))
    BY EndsOn, Zenon
  <1>2. t \o Append(s, x) = Append(t \o s, x)
    BY EndsOn, Zenon
  <1>3. QED
    BY <1>1, <1>2, Zenon DEF More, Chained

\* b is c with x written to the file w.
IsWritten(b, c, w, x) ==
    /\ b[w] = More(c[w], x)
    /\ \A k \in 1 .. Len(c) : k # w => b[k] = c[k]

\* An event at the end of the youngest file is one at the end of the disk,
\* and if that file is gone there is nothing on the disk.
LEMMA WriteKeeps ==
    ASSUME NEW c, NEW d, DiskOf(d, c), NEW b, DiskOf(d, b), NEW w, NEW x \in Nat,
           IsWritten(b, c, w, x), Distinct(d), Youngest(d, w),
           w # NoFile, NEW t \in Lists, LastPart(Content(d, c), t)
    PROVE  LastPart(Content(d, b), More(t, x))
  <1> DEFINE N == MaxFiles + 1
             q == PartsOf(d, c)
             r == PartsOf(d, b)
  <1>1. N \in Nat /\ Names = 0 .. N - 1 /\ N \in 0 .. N /\ N >= 2
    BY AuditAssumption DEF Names
  <1>2. PICK f, g : Pair(f, q, g, r, N) /\ Content(d, c) = f[N] /\ Content(d, b) = g[N]
    BY PairIs
  <1>3. /\ \A n \in Names : q[N - n] = Held(d, c, n)
        /\ \A n \in Names : r[N - n] = Held(d, b, n)
        /\ \A i \in 1 .. N : N - i \in Names
    BY PartsAre
  <1>4. \A i \in 1 .. N : q[i] \in Lists
    BY <1>2 DEF Pair
  <1> HIDE DEF q, r, N
  <1>5. \A i \in 1 .. N : N - (N - i) = i
    BY <1>1
  <1>6. More(t, x) \in Lists
    BY MoreIs
  <1>7. CASE \A n \in Names : d[n] # w
    <2>1. \A n \in Names : d[n] = NoFile
      <3>1. \A n \in Names : 0 .. n \subseteq Names
        BY <1>1
      <3>2. QED
        BY <1>7, <3>1 DEF Youngest
    <2>2. \A n \in Names : Held(d, b, n) = NoList
      BY <2>1, HeldIs
    <2>3. \A i \in 1 .. N : r[i] = NoList
      BY <1>3, <1>5, <2>2
    <2>4. Flattens(g, r, N)
      BY <1>2 DEF Pair
    <2>5. \A k \in 0 .. N : g[k] = NoList
      BY <1>1, <2>3, <2>4, BlankIs
    <2>6. g[N] = NoList
      BY <1>1, <2>5
    <2>7. QED
      BY <1>2, <1>6, <2>6, ChainedIs
  <1>8. ASSUME NEW m \in Names, d[m] = w
        PROVE  LastPart(g[N], More(t, x))
    <2> DEFINE i == N - m
    <2>1. i \in 1 .. N /\ i - 1 \in 0 .. N /\ i \in 0 .. N
      BY <1>1
    <2>2. q[i] = c[w] /\ r[i] = b[w]
      BY <1>3, <1>8 DEF Held
    <2>3. ASSUME NEW n \in Names, n # m
          PROVE  d[n] # w
      BY <1>8, <2>3 DEF Distinct
    <2>4. ASSUME NEW n \in Names, n # m
          PROVE  Held(d, b, n) = Held(d, c, n)
      <3>1. CASE d[n] = NoFile
        BY <3>1, HeldIs
      <3>2. CASE d[n] # NoFile
        <4>1. d[n] \in 1 .. Len(c) /\ d[n] # w
          BY <2>3, <2>4, <3>2 DEF DiskOf, NoFile
        <4>2. b[d[n]] = c[d[n]]
          BY <4>1 DEF IsWritten
        <4>3. QED
          BY <3>2, <4>2 DEF Held
      <3>3. QED
        BY <3>1, <3>2
    <2>5. ASSUME NEW n \in Names, n < m
          PROVE  Held(d, b, n) = NoList /\ Held(d, c, n) = NoList
      <3>1. ~(\E l \in 0 .. n : d[l] = w)
        <4>1. \A l \in 0 .. n : l \in Names /\ l # m
          BY <1>1, <2>5
        <4>2. QED
          BY <2>3, <4>1
      <3>2. d[n] = NoFile
        BY <3>1 DEF Youngest
      <3>3. QED
        BY <3>2, HeldIs
    <2>6. \A k \in 1 .. i - 1 : r[k] = q[k]
      <3>1. \A k \in 1 .. i - 1 : k \in 1 .. N /\ N - k # m
        BY <1>1
      <3>2. \A k \in 1 .. i - 1 : r[N - (N - k)] = q[N - (N - k)]
        BY <1>3, <2>4, <3>1
      <3>3. QED
        BY <1>5, <3>1, <3>2
    <2>7. \A k \in i + 1 .. N : r[k] = NoList /\ q[k] = NoList
      <3>1. \A k \in i + 1 .. N : k \in 1 .. N /\ N - k < m
        BY <1>1
      <3>2. \A k \in i + 1 .. N : r[N - (N - k)] = NoList /\ q[N - (N - k)] = NoList
        BY <1>3, <2>5, <3>1
      <3>3. QED
        BY <1>5, <3>1, <3>2
    <2> HIDE DEF i
    <2>8. r[i] = More(q[i], x)
      BY <2>2 DEF IsWritten
    <2>9. g[i - 1] = f[i - 1]
      <3>1. \A k \in 0 .. i - 1 : g[k] = f[k]
        BY <1>1, <1>2, <2>1, <2>6, SameIs
      <3>2. QED
        BY <2>1, <3>1
    <2>10. g[i] = More(f[i], x)
      <3>1. /\ g[i] = Chained(g[i - 1], r[i]) /\ f[i] = Chained(f[i - 1], q[i])
            /\ f[i - 1] \in Lists /\ q[i] \in Lists
        BY <1>2, <1>4, <2>1 DEF Pair, Flattens
      <3>2. Chained(f[i - 1], More(q[i], x)) = More(Chained(f[i - 1], q[i]), x)
        BY <3>1, MoreIs
      <3>3. QED
        BY <2>8, <2>9, <3>1, <3>2
    <2> DEFINE T == {k \in 0 .. N : k >= i => g[k] = More(f[k], x)}
    <2>11. 0 \in T
      BY <1>1, <2>1
    <2>12. ASSUME NEW k \in 1 .. N, k - 1 \in T
           PROVE  k \in T
      <3>1. CASE k <= i
        <4>1. k >= i => k = i
          BY <2>1, <3>1
        <4>2. QED
          BY <2>10, <4>1
      <3>2. CASE k > i
        <4>1. k \in i + 1 .. N /\ k - 1 >= i /\ k - 1 \in 0 .. N
          BY <1>1, <2>1, <3>2
        <4>2. g[k - 1] = More(f[k - 1], x) /\ r[k] = NoList /\ q[k] = NoList
          BY <2>7, <2>12, <4>1
        <4>3. /\ g[k] = Chained(g[k - 1], r[k]) /\ f[k] = Chained(f[k - 1], q[k])
              /\ f[k - 1] \in Lists /\ g[k - 1] \in Lists
          BY <1>2, <4>1 DEF Pair, Flattens
        <4>4. g[k] = g[k - 1] /\ f[k] = f[k - 1]
          BY <4>2, <4>3, ChainedIs
        <4>5. g[k] = More(f[k], x)
          BY <4>2, <4>4
        <4>6. QED
          BY <4>5
      <3>3. QED
        BY <2>1, <3>1, <3>2
    <2>13. 0 .. N \subseteq T
      <3> HIDE DEF T
      <3>1. QED
        BY <1>1, <2>11, <2>12, UpTo
    <2>14. g[N] = More(f[N], x)
      BY <1>1, <2>1, <2>13
    <2>15. f[N] \in Lists
      BY <1>1, <1>2 DEF Pair, Flattens
    <2>16. LastPart(More(f[N], x), More(t, x))
      BY <1>2, <2>15, MoreIs
    <2>17. QED
      BY <2>14, <2>16
  <1>9. QED
    BY <1>2, <1>7, <1>8

\* The types of the log.
AuditTypeOK ==
    /\ DiskOf(disk, content)
    /\ writer \in 0 .. Len(content)
    /\ issued \in Nat /\ pending \subseteq Nat /\ logging \in Nat /\ shift \in Nat
    /\ rotation \in {"off", "shift", "rename", "delete", "reset"}
    /\ logged \in Lists
    /\ created \in BOOLEAN

\* Where a rotation is says which name is free: the next one to move a file
\* to, but for the first, which replaces the oldest file; the current one,
\* once everything has moved.  And the file the writer has open, whatever
\* its name is by now, is the youngest on the disk.
AuditInv ==
    /\ AuditTypeOK
    /\ logging # 0 => writer # NoFile
    /\ rotation = "shift" => shift <= MaxFiles - 1
    /\ MaxFiles >= 2 => disk[MaxFiles] = NoFile
    /\ Distinct(disk)
    /\ ~created =>
         /\ rotation = "shift" /\ shift < MaxFiles - 1 => disk[shift] = NoFile
         /\ rotation \in {"rename", "reset"} => disk[0] = NoFile
         /\ writer # NoFile => Youngest(disk, writer)
         /\ LastPart(Content(disk, content), logged)

\* What a rename does to a disk.
LEMMA RenamedIs ==
    ASSUME NEW c, NEW d, DiskOf(d, c), Distinct(d), NEW s \in 1 .. MaxFiles, d[s - 1] # NoFile,
           NEW e, e = [d EXCEPT ![s] = d[s - 1], ![s - 1] = NoFile]
    PROVE  DiskOf(e, c) /\ IsMoved(e, d, s) /\ Distinct(e)
  <1>1. s \in Names /\ s - 1 \in Names /\ s # s - 1
    BY AuditAssumption DEF Names
  <1> DEFINE x == [d EXCEPT ![s] = d[s - 1]]
  <1>2. d[s - 1] \in 0 .. Len(c) /\ NoFile \in 0 .. Len(c) /\ d \in [Names -> 0 .. Len(c)]
    BY <1>1 DEF DiskOf, NoFile
  <1>3. x \in [Names -> 0 .. Len(c)] /\ e = [x EXCEPT ![s - 1] = NoFile]
    BY <1>2
  <1>4. x[s] = d[s - 1] /\ \A n \in Names : n # s => x[n] = d[n]
    BY <1>1, <1>2
  <1> HIDE DEF x
  <1>5. e \in [Names -> 0 .. Len(c)]
    BY <1>2, <1>3
  <1>6. e[s - 1] = NoFile /\ \A n \in Names : n # s - 1 => e[n] = x[n]
    BY <1>1, <1>3
  <1>7. IsMoved(e, d, s)
    BY <1>1, <1>4, <1>6 DEF IsMoved
  <1>8. Distinct(e)
    <2> SUFFICES ASSUME NEW n \in Names, NEW m \in Names, e[n] = e[m], e[n] # NoFile
                 PROVE  n = m
      BY DEF Distinct
    <2> DEFINE from(k) == IF k = s THEN s - 1 ELSE k
    <2>1. \A k \in Names : k # s - 1 => from(k) \in Names /\ e[k] = d[from(k)]
      BY <1>1, <1>4, <1>6
    <2>2. n # s - 1 /\ m # s - 1
      BY <1>6
    <2>3. from(n) = from(m)
      BY <2>1, <2>2 DEF Distinct
    <2>4. QED
      BY <2>2, <2>3
  <1>9. QED
    BY <1>5, <1>7, <1>8 DEF DiskOf

\* The youngest file stays the youngest when it, or an older one, moves.
LEMMA YoungestMoves ==
    ASSUME NEW d, NEW e, NEW s \in 1 .. MaxFiles, IsMoved(e, d, s), d[s - 1] # NoFile,
           NEW w, Youngest(d, w), w # NoFile
    PROVE  Youngest(e, w)
  <1>1. /\ s \in Names /\ s - 1 \in Names /\ s \in Nat
        /\ \A n \in Names : n \in Nat /\ 0 .. n \subseteq Names
    BY AuditAssumption DEF Names
  <1>2. PICK m \in 0 .. s - 1 : d[m] = w
    BY <1>1 DEF Youngest
  <1>3. ASSUME NEW n \in Names, e[n] # NoFile
        PROVE  \E k \in 0 .. n : e[k] = w
    <2>1. CASE n < s - 1
      <3>1. PICK k \in 0 .. n : d[k] = w
        BY <1>3, <2>1 DEF Youngest, IsMoved
      <3>2. k \in Names /\ k # s /\ k # s - 1
        BY <1>1, <2>1
      <3>3. QED
        BY <3>1, <3>2 DEF IsMoved
    <2>2. CASE n >= s - 1
      <3>1. n # s - 1
        BY <1>3 DEF IsMoved
      <3>2. n >= s
        BY <1>1, <2>2, <3>1
      <3>3. CASE m = s - 1
        BY <1>1, <1>2, <3>2, <3>3 DEF IsMoved
      <3>4. CASE m # s - 1
        <4>1. m \in 0 .. n /\ m \in Names /\ m # s
          BY <1>1, <1>2, <3>2
        <4>2. QED
          BY <1>2, <3>4, <4>1 DEF IsMoved
      <3>5. QED
        BY <3>3, <3>4
    <2>3. QED
      BY <1>1, <2>1, <2>2
  <1>4. QED
    BY <1>3 DEF Youngest

\* The same lists under the same names.
LEMMA SameContent ==
    ASSUME NEW c, NEW d, NEW b, NEW e, \A n \in Names : Held(e, b, n) = Held(d, c, n)
    PROVE  Content(e, b) = Content(d, c)
  <1>1. \A i \in 1 .. MaxFiles + 1 : (MaxFiles + 1) - i \in Names
    BY AuditAssumption DEF Names
  <1>2. PartsOf(e, b) = PartsOf(d, c)
    BY <1>1 DEF PartsOf
  <1>3. QED
    BY <1>2 DEF Content

\* The disk after a file is renamed from s - 1 to s.
Renaming(d, s) == IF d[s - 1] = NoFile THEN d ELSE [d EXCEPT ![s] = d[s - 1], ![s - 1] = NoFile]

\* Name s may be replaced: no file has it, or nothing is older.
MayReplace(d, s) == d[s] = NoFile \/ \A n \in s + 1 .. MaxFiles : d[n] = NoFile

\* What such a step keeps.
IsKept(e, d, s, c) ==
    /\ DiskOf(e, c) /\ Distinct(e) /\ e[s - 1] = NoFile
    /\ \A n \in Names : n # s /\ n # s - 1 => e[n] = d[n]
    /\ \A w : Youngest(d, w) /\ w # NoFile => Youngest(e, w)
    /\ \A t \in Lists : LastPart(Content(d, c), t) => LastPart(Content(e, c), t)

\* And a rename does, when s may be replaced.
LEMMA RenameKeeps ==
    ASSUME NEW c, NEW d, DiskOf(d, c), Distinct(d), NEW s \in 1 .. MaxFiles, MayReplace(d, s)
    PROVE  IsKept(Renaming(d, s), d, s, c)
  <1> DEFINE e == Renaming(d, s)
  <1> USE DEF MayReplace, IsKept
  <1>1. CASE d[s - 1] = NoFile
    BY <1>1 DEF Renaming
  <1>2. CASE d[s - 1] # NoFile
    <2>1. e = [d EXCEPT ![s] = d[s - 1], ![s - 1] = NoFile]
      BY <1>2 DEF Renaming
    <2> HIDE DEF e
    <2>2. DiskOf(e, c) /\ IsMoved(e, d, s) /\ Distinct(e)
      BY <1>2, <2>1, RenamedIs
    <2>3. LastPart(Content(e, c), Content(d, c))
      BY <2>2, MoveKeeps
    <2>4. \A t \in Lists : LastPart(Content(d, c), t) => LastPart(Content(e, c), t)
      BY <2>2, <2>3, ContentIs, ChainedIs
    <2>5. \A w : Youngest(d, w) /\ w # NoFile => Youngest(e, w)
      BY <1>2, <2>2, YoungestMoves
    <2>6. QED
      BY <2>2, <2>4, <2>5 DEF IsMoved, e
  <1>3. QED
    BY <1>1, <1>2

\* A writer without a file opens audit.jsonl, or creates it.
LEMMA OpenKeeps ==
    ASSUME AuditInv, NEW e \in pending, Open(e)
    PROVE  AuditInv'
  <1> USE DEF AuditInv, AuditTypeOK
  <1>1. 0 \in Names /\ e \in Nat
    BY AuditAssumption DEF Names
  <1>2. CASE writer # NoFile
    BY <1>1, <1>2 DEF Open
  <1>3. CASE writer = NoFile /\ disk[0] # NoFile
    <2>1. /\ writer' = disk[0] /\ logging' = e /\ pending' = pending \ {e}
          /\ UNCHANGED <<content, disk, created, issued, rotation, shift, logged>>
      BY <1>3 DEF Open
    <2>2. writer' \in 0 .. Len(content)
      BY <1>1, <2>1 DEF DiskOf
    <2>3. Youngest(disk, disk[0])
      BY <1>1 DEF Youngest, Names
    <2>4. QED
      BY <1>1, <1>3, <2>1, <2>2, <2>3
  <1>4. CASE writer = NoFile /\ disk[0] = NoFile
    <2> DEFINE new == Len(content) + 1
    <2>1. /\ content' = Append(content, <<>>) /\ disk' = [disk EXCEPT ![0] = new]
          /\ writer' = new /\ created' = (created \/ rotation # "off")
          /\ logging' = e /\ pending' = pending \ {e}
          /\ UNCHANGED <<issued, rotation, shift, logged>>
      BY <1>4 DEF Open
    <2>2. content \in Seq(Lists) /\ disk \in [Names -> 0 .. Len(content)] /\ Len(content) \in Nat
      BY DEF DiskOf
    <2>3. /\ content' \in Seq(Lists) /\ Len(content') = new
          /\ \A k \in 1 .. Len(content) : content'[k] = content[k]
          /\ content'[new] = NoList
      BY <2>1, <2>2, ChainedIs DEF NoList
    <2>4. disk'[0] = new /\ \A n \in Names : n # 0 => disk'[n] = disk[n]
      BY <1>1, <2>1, <2>2
    <2>5. new \in 0 .. new /\ \A k \in 0 .. Len(content) : k \in 0 .. new /\ k # new
      BY <2>2
    <2>6. disk' \in [Names -> 0 .. new]
      BY <1>1, <2>1, <2>2, <2>5
    <2> HIDE DEF new
    <2>7. DiskOf(disk', content') /\ writer' \in 0 .. Len(content')
      BY <2>1, <2>3, <2>5, <2>6 DEF DiskOf
    <2>8. Distinct(disk')
      BY <2>2, <2>4, <2>5 DEF Distinct
    <2>9. new # NoFile
      BY <2>2 DEF new, NoFile
    <2>10. Youngest(disk', writer')
      BY <1>1, <2>1, <2>4 DEF Youngest, Names
    <2>11. ASSUME NEW n \in Names
           PROVE  Held(disk', content', n) = Held(disk, content, n)
      <3>1. CASE n = 0
        BY <1>4, <2>3, <2>4, <3>1 DEF Held
      <3>2. CASE n # 0 /\ disk[n] = NoFile
        BY <2>4, <3>2 DEF Held
      <3>3. CASE n # 0 /\ disk[n] # NoFile
        <4>1. disk[n] \in 1 .. Len(content) /\ disk'[n] = disk[n]
          BY <2>2, <2>4, <3>3 DEF NoFile
        <4>2. QED
          BY <2>3, <3>3, <4>1 DEF Held
      <3>4. QED
        BY <3>1, <3>2, <3>3
    <2>12. Content(disk', content') = Content(disk, content)
      BY <2>11, SameContent
    <2>13. MaxFiles >= 2 => disk'[MaxFiles] = NoFile
      BY <2>4, AuditAssumption DEF Names
    <2>14. ~created' => ~created /\ rotation' = "off"
      BY <2>1
    <2>15. created' \in BOOLEAN /\ logging' \in Nat /\ pending' \subseteq Nat
      BY <1>1, <2>1
    <2>16. QED
      BY <2>1, <2>7, <2>8, <2>9, <2>10, <2>12, <2>13, <2>14, <2>15
  <1>5. QED
    BY <1>2, <1>3, <1>4

\* An event is written to the file the writer has open.
LEMMA WriteStep ==
    ASSUME AuditInv, Write
    PROVE  AuditInv'
  <1> USE DEF AuditInv, AuditTypeOK
  <1>1. /\ logging # 0 /\ logging' = 0 /\ writer # NoFile
        /\ content' = [content EXCEPT ![writer] = Append(@, logging)]
        /\ logged' = Append(logged, logging)
        /\ UNCHANGED <<disk, writer, issued, pending, rotation, shift, created>>
    BY DEF Write
  <1>2. content \in Seq(Lists) /\ disk \in [Names -> 0 .. Len(content)] /\ Len(content) \in Nat
    BY DEF DiskOf
  <1>3. writer \in 1 .. Len(content) /\ content[writer] \in Lists
    BY <1>1, <1>2 DEF NoFile
  <1>4. More(content[writer], logging) \in Lists /\ More(logged, logging) \in Lists
    BY <1>3, MoreIs
  <1>5. content' = [content EXCEPT ![writer] = More(content[writer], logging)]
    BY <1>1 DEF More
  <1>6. logged' = More(logged, logging)
    BY <1>1 DEF More
  <1>7. /\ content' \in Seq(Lists) /\ Len(content') = Len(content)
        /\ content'[writer] = More(content[writer], logging)
        /\ \A k \in 1 .. Len(content) : k # writer => content'[k] = content[k]
    BY <1>2, <1>3, <1>4, <1>5
  <1>8. DiskOf(disk', content') /\ IsWritten(content', content, writer, logging)
    BY <1>1, <1>2, <1>7 DEF DiskOf, IsWritten
  <1>9. ASSUME ~created
        PROVE  LastPart(Content(disk, content'), More(logged, logging))
    <2>1. DiskOf(disk, content')
      BY <1>1, <1>8
    <2>2. QED
      BY <1>1, <1>8, <1>9, <2>1, WriteKeeps
  <1>10. QED
    BY <1>1, <1>4, <1>6, <1>7, <1>8, <1>9

\* One rename of a rotation.
LEMMA ShiftKeeps ==
    ASSUME AuditInv, ShiftFile
    PROVE  AuditInv'
  <1> USE DEF AuditInv, AuditTypeOK
  <1>1. /\ rotation = "shift" /\ shift > 0 /\ shift' = shift - 1
        /\ disk' = Renaming(disk, shift)
        /\ UNCHANGED <<content, writer, issued, pending, logging, rotation, logged, created>>
    BY DEF ShiftFile, Renamed, Renaming
  <1>2. shift \in 1 .. MaxFiles /\ MaxFiles >= 2 /\ shift' \in Nat /\ shift' <= MaxFiles - 1
    BY <1>1, AuditAssumption
  <1>3. CASE created
    <2>1. DiskOf(disk', content) /\ Distinct(disk') /\ (MaxFiles >= 2 => disk'[MaxFiles] = NoFile)
      <3>1. CASE disk[shift - 1] = NoFile
        BY <1>1, <3>1 DEF Renaming
      <3>2. CASE disk[shift - 1] # NoFile
        <4>1. disk' = [disk EXCEPT ![shift] = disk[shift - 1], ![shift - 1] = NoFile]
          BY <1>1, <3>2 DEF Renaming
        <4>2. DiskOf(disk', content) /\ IsMoved(disk', disk, shift) /\ Distinct(disk')
          BY <1>2, <3>2, <4>1, RenamedIs
        <4>3. MaxFiles # shift /\ MaxFiles # shift - 1 /\ MaxFiles \in Names
          BY <1>1, <1>2, AuditAssumption DEF Names
        <4>4. QED
          BY <1>2, <4>2, <4>3 DEF IsMoved
      <3>3. QED
        BY <3>1, <3>2
    <2>2. QED
      BY <1>1, <1>2, <1>3, <2>1
  <1>4. CASE ~created
    <2>0. /\ DiskOf(disk, content) /\ Distinct(disk) /\ disk[MaxFiles] = NoFile
          /\ shift < MaxFiles - 1 => disk[shift] = NoFile
          /\ MaxFiles \in Nat /\ shift \in Nat /\ shift <= MaxFiles - 1
      BY <1>1, <1>2, <1>4, AuditAssumption
    <2> HIDE DEF AuditInv, AuditTypeOK
    <2>1. MayReplace(disk, shift)
      <3>1. CASE shift < MaxFiles - 1
        BY <2>0, <3>1 DEF MayReplace
      <3>2. CASE shift = MaxFiles - 1
        <4>1. \A n \in shift + 1 .. MaxFiles : n = MaxFiles
          BY <2>0, <3>2
        <4>2. QED
          BY <2>0, <4>1 DEF MayReplace
      <3>3. QED
        BY <2>0, <3>1, <3>2
    <2>a. IsKept(Renaming(disk, shift), disk, shift, content)
      BY <1>2, <2>0, <2>1, RenameKeeps
    <2>2. /\ DiskOf(disk', content) /\ Distinct(disk') /\ disk'[shift - 1] = NoFile
          /\ \A n \in Names : n # shift /\ n # shift - 1 => disk'[n] = disk[n]
          /\ \A w : Youngest(disk, w) /\ w # NoFile => Youngest(disk', w)
          /\ \A t \in Lists : LastPart(Content(disk, content), t) => LastPart(Content(disk', content), t)
      BY <1>1, <2>a DEF IsKept
    <2> USE DEF AuditInv, AuditTypeOK
    <2>3. MaxFiles # shift /\ MaxFiles # shift - 1 /\ MaxFiles \in Names
      BY <1>1, <1>2, AuditAssumption DEF Names
    <2>4. disk'[MaxFiles] = NoFile
      BY <1>2, <2>2, <2>3
    <2>5. QED
      BY <1>1, <1>2, <1>4, <2>2, <2>4
  <1>5. QED
    BY <1>3, <1>4

\* The last rename, which has something to do if there is one other name.
LEMMA RenameCurrentKeeps ==
    ASSUME AuditInv, RenameCurrent
    PROVE  AuditInv'
  <1>1. /\ rotation = "shift" /\ shift = 0 /\ rotation' = "rename" /\ disk' = Renaming(disk, 1)
        /\ UNCHANGED <<content, writer, issued, pending, logging, shift, logged, created>>
    BY DEF RenameCurrent, Renamed, Renaming
  <1>2. 1 \in 1 .. MaxFiles /\ 1 - 1 = 0 /\ 0 \in Names
    BY AuditAssumption DEF Names
  <1>3. DiskOf(disk, content) /\ Distinct(disk)
    BY DEF AuditInv, AuditTypeOK
  <1>4. /\ DiskOf(disk', content) /\ Distinct(disk') /\ disk'[0] = NoFile
        /\ MaxFiles >= 2 => disk'[MaxFiles] = NoFile
    <2>1. CASE disk[0] = NoFile
      BY <1>1, <1>2, <2>1 DEF Renaming, AuditInv, AuditTypeOK
    <2>2. CASE disk[0] # NoFile
      <3>1. disk' = [disk EXCEPT ![1] = disk[1 - 1], ![1 - 1] = NoFile]
        BY <1>1, <1>2, <2>2 DEF Renaming
      <3>2. DiskOf(disk', content) /\ IsMoved(disk', disk, 1) /\ Distinct(disk')
        BY <1>2, <1>3, <2>2, <3>1, RenamedIs
      <3>3. MaxFiles >= 2 => MaxFiles \in Names /\ MaxFiles # 1 /\ MaxFiles # 1 - 1
        BY AuditAssumption DEF Names
      <3>4. MaxFiles >= 2 => disk[MaxFiles] = NoFile
        BY DEF AuditInv
      <3>5. QED
        BY <1>2, <3>2, <3>3, <3>4 DEF IsMoved
    <2>3. QED
      BY <2>1, <2>2
  <1>5. ASSUME ~created
        PROVE  /\ writer # NoFile => Youngest(disk', writer)
               /\ LastPart(Content(disk', content), logged)
    <2>1. /\ writer # NoFile => Youngest(disk, writer)
          /\ LastPart(Content(disk, content), logged) /\ logged \in Lists
      BY <1>5 DEF AuditInv, AuditTypeOK
    <2>2. CASE MaxFiles = 1
      <3>1. MayReplace(disk, 1)
        BY <2>2 DEF MayReplace
      <3>2. IsKept(Renaming(disk, 1), disk, 1, content)
        BY <1>2, <1>3, <3>1, RenameKeeps
      <3>3. QED
        BY <1>1, <2>1, <3>2 DEF IsKept
    <2>3. CASE MaxFiles # 1
      <3>1. disk[0] = NoFile
        BY <1>1, <1>5, <2>3, AuditAssumption DEF AuditInv
      <3>2. disk' = disk
        BY <1>1, <1>2, <3>1 DEF Renaming
      <3>3. QED
        BY <2>1, <3>2
    <2>4. QED
      BY <2>2, <2>3
  <1>6. QED
    BY <1>1, <1>4, <1>5 DEF AuditInv, AuditTypeOK

\* What is deleted is the oldest file, if it is there at all.
LEMMA DeleteKeeps ==
    ASSUME AuditInv, DeleteExcess
    PROVE  AuditInv'
  <1>1. /\ rotation = "rename" /\ rotation' = "reset"
        /\ disk' = [disk EXCEPT ![MaxFiles] = NoFile]
        /\ UNCHANGED <<content, writer, issued, pending, logging, shift, logged, created>>
    BY DEF DeleteExcess
  <1>2. DiskOf(disk, content) /\ Distinct(disk) /\ logged \in Lists
    BY DEF AuditInv, AuditTypeOK
  <1>3. DiskOf(disk', content) /\ LastPart(Content(disk', content), Content(disk, content))
    BY <1>1, <1>2, DropKeeps
  <1>4. /\ MaxFiles \in Names /\ 0 \in Names /\ 0 # MaxFiles /\ disk'[MaxFiles] = NoFile
        /\ \A n \in Names : n # MaxFiles => disk'[n] = disk[n]
    BY <1>1, <1>2, AuditAssumption DEF DiskOf, Names
  <1>5. Distinct(disk')
    BY <1>2, <1>4 DEF Distinct
  <1>6. ASSUME ~created
        PROVE  /\ disk'[0] = NoFile
               /\ writer # NoFile => Youngest(disk', writer)
               /\ LastPart(Content(disk', content), logged)
    <2>1. disk[0] = NoFile /\ (writer # NoFile => Youngest(disk, writer))
      BY <1>1, <1>6 DEF AuditInv
    <2>2. LastPart(Content(disk, content), logged)
      BY <1>6 DEF AuditInv
    <2>3. LastPart(Content(disk', content), logged)
      BY <1>2, <1>3, <2>2, ContentIs, ChainedIs
    <2>4. ASSUME writer # NoFile
          PROVE  Youngest(disk', writer)
      <3>1. CASE MaxFiles = 1
        <4>1. \A n \in Names : n = 0 \/ n = MaxFiles
          BY <3>1 DEF Names
        <4>2. QED
          BY <1>4, <2>1, <4>1 DEF Youngest
      <3>2. CASE MaxFiles # 1
        <4>1. disk[MaxFiles] = NoFile
          BY <3>2, AuditAssumption DEF AuditInv
        <4>2. \A n \in Names : disk'[n] = disk[n]
          BY <1>4, <4>1
        <4>3. \A n \in Names : \A m \in 0 .. n : m \in Names
          BY AuditAssumption DEF Names
        <4>4. QED
          BY <2>1, <2>4, <4>2, <4>3 DEF Youngest
      <3>3. QED
        BY <3>1, <3>2
    <2>5. QED
      BY <1>4, <2>1, <2>3, <2>4
  <1>7. QED
    BY <1>1, <1>3, <1>4, <1>5, <1>6 DEF AuditInv, AuditTypeOK

\* Every step of the log.
LEMMA AuditStep ==
    ASSUME AuditInv, AuditNext
    PROVE  AuditInv'
  <1>1. CASE LogSync
    BY <1>1 DEF LogSync, AuditInv, AuditTypeOK
  <1>2. ASSUME NEW e \in pending, OpenFails(e)
        PROVE  AuditInv'
    BY <1>2 DEF OpenFails, AuditInv, AuditTypeOK
  <1>3. CASE WriteFails
    BY <1>3 DEF WriteFails, AuditInv, AuditTypeOK
  <1>4. CASE Rotate
    BY <1>4, AuditAssumption DEF Rotate, AuditInv, AuditTypeOK
  <1>5. CASE ResetWriter
    BY <1>5 DEF ResetWriter, AuditInv, AuditTypeOK, NoFile, DiskOf
  <1>6. CASE Restart
    BY <1>6 DEF Restart, AuditInv, AuditTypeOK, NoFile, DiskOf
  <1>7. QED
    BY <1>1, <1>2, <1>3, <1>4, <1>5, <1>6, OpenKeeps, WriteStep, ShiftKeeps, RenameCurrentKeeps,
       DeleteKeeps DEF AuditNext

\* What an earlier process left is on the disk and was logged.
LEMMA AuditInitKeeps == AuditInit => AuditInv
  <1> SUFFICES ASSUME AuditInit PROVE AuditInv
    OBVIOUS
  <1>1. NoList \in Lists /\ <<1>> \in Lists /\ Names = 0 .. MaxFiles /\ MaxFiles \in Nat \ {0}
    BY ChainedIs, AuditAssumption DEF Lists, Names
  <1>2. CASE content = <<>>
    <2>1. /\ disk = [n \in Names |-> NoFile] /\ writer = NoFile /\ issued = 0 /\ logged = NoList
          /\ pending = {} /\ logging = 0 /\ rotation = "off" /\ shift = 0 /\ created = FALSE
      <3>1. FlattenSeq(<<>>) = <<>>
        BY Zenon DEF FlattenSeq
      <3>2. QED
        BY <1>2, <3>1 DEF AuditInit, NoList
    <2>2. content \in Seq(Lists) /\ Len(content) = 0
      BY <1>2
    <2>3. DiskOf(disk, content) /\ Distinct(disk)
      BY <1>1, <2>1, <2>2 DEF DiskOf, NoFile, Distinct
    <2>4. LastPart(Content(disk, content), NoList)
      <3>1. PICK f, g : /\ Pair(f, PartsOf(disk, content), g, PartsOf(disk, content), MaxFiles + 1)
                        /\ Content(disk, content) = f[MaxFiles + 1]
        BY <2>3, PairIs
      <3>2. \A i \in 1 .. MaxFiles + 1 : PartsOf(disk, content)[i] = NoList
        <4>1. \A i \in 1 .. MaxFiles + 1 : (MaxFiles + 1) - i \in Names
          BY <1>1
        <4>2. \A n \in Names : Held(disk, content, n) = NoList
          BY <2>1, HeldIs
        <4>3. QED
          BY <4>1, <4>2 DEF PartsOf
      <3>3. MaxFiles + 1 \in Nat /\ MaxFiles + 1 \in 0 .. MaxFiles + 1
        BY <1>1
      <3>4. Flattens(f, PartsOf(disk, content), MaxFiles + 1)
        BY <3>1 DEF Pair
      <3>5. f[MaxFiles + 1] = NoList
        BY <3>2, <3>3, <3>4, BlankIs
      <3>6. QED
        BY <1>1, <3>1, <3>5, ChainedIs
    <2>5. QED
      BY <1>1, <2>1, <2>2, <2>3, <2>4 DEF AuditInv, AuditTypeOK, NoFile
  <1>3. CASE content = <<<<1>>>>
    <2>1. /\ disk = [n \in Names |-> IF n = 0 THEN 1 ELSE NoFile] /\ writer = NoFile /\ issued = 1
          /\ pending = {} /\ logging = 0 /\ rotation = "off" /\ shift = 0 /\ created = FALSE
          /\ logged = FlattenSeq(content)
      BY <1>3 DEF AuditInit
    <2>2. content \in Seq(Lists) /\ Len(content) = 1 /\ content[1] = <<1>> /\ 0 \in Names
      BY <1>1, <1>3
    <2>3. DiskOf(disk, content) /\ Distinct(disk)
      BY <1>1, <2>1, <2>2 DEF DiskOf, NoFile, Distinct
    <2>4. FlattenSeq(content) = <<1>>
      <3>1. 1 \in Nat \ {0}
        OBVIOUS
      <3>2. PICK f : Flattens(f, content, 1) /\ FlattenSeq(content) = f[1]
        BY <2>2, <3>1, FlattenIs
      <3>3. f[1] = Chained(f[1 - 1], content[1]) /\ f[1 - 1] = NoList
        BY <3>2 DEF Flattens
      <3>4. QED
        BY <1>1, <2>2, <3>2, <3>3, ChainedIs
    <2>5. LastPart(Content(disk, content), <<1>>)
      <3> DEFINE N == MaxFiles + 1
                 q == PartsOf(disk, content)
      <3>1. PICK f, g : Pair(f, q, g, q, N) /\ Content(disk, content) = f[N]
        BY <2>3, PairIs
      <3>2. N \in Nat /\ N - 1 \in 0 .. N /\ N \in 1 .. N /\ N - N = 0
        BY <1>1
      <3>3. \A i \in 1 .. N - 1 : q[i] = NoList
        <4>1. \A i \in 1 .. N - 1 : i \in 1 .. N /\ N - i \in Names /\ N - i # 0
          BY <1>1
        <4>2. \A n \in Names : n # 0 => Held(disk, content, n) = NoList
          BY <2>1, HeldIs
        <4>3. \A i \in 1 .. N : q[i] = Held(disk, content, N - i)
          BY DEF PartsOf
        <4>4. QED
          BY <4>1, <4>2, <4>3
      <3>4. q[N] = <<1>>
        <4>1. q[N] = Held(disk, content, N - N)
          BY <3>2 DEF PartsOf
        <4>2. disk[0] = 1 /\ 1 # NoFile
          BY <2>1, <2>2 DEF NoFile
        <4>3. QED
          BY <2>2, <3>2, <4>1, <4>2 DEF Held
      <3> HIDE DEF N, q
      <3>5. Flattens(f, q, N)
        BY <3>1 DEF Pair
      <3>6. \A k \in 0 .. N - 1 : f[k] = NoList
        BY <3>2, <3>3, <3>5, BlankIs
      <3>7. f[N - 1] = NoList /\ f[N] = Chained(f[N - 1], q[N])
        BY <3>2, <3>5, <3>6 DEF Flattens
      <3>8. f[N] = <<1>>
        BY <1>1, <3>4, <3>7, ChainedIs
      <3>9. QED
        BY <1>1, <3>1, <3>8, ChainedIs
    <2>6. logged = <<1>>
      BY <2>1, <2>4
    <2>7. AuditTypeOK
      <3>1. Len(content) \in Nat /\ 0 \in 0 .. Len(content)
        BY <2>2
      <3>2. QED
        BY <1>1, <2>1, <2>3, <2>6, <3>1 DEF AuditTypeOK, NoFile
    <2>8. MaxFiles >= 2 => disk[MaxFiles] = NoFile
      BY <1>1, <2>1
    <2>9. QED
      BY <2>1, <2>3, <2>5, <2>6, <2>7, <2>8 DEF AuditInv, NoFile
  <1>4. QED
    BY <1>2, <1>3 DEF AuditInit

\* agent/audit.rs: what is on the disk is the end of what was logged.
THEOREM AuditTheorem == StoreSpec => []AuditKeeps
  <1>1. StoreInit => AuditInv
    BY AuditInitKeeps DEF StoreInit
  <1>2. ASSUME AuditInv, [StoreNext]_storeVars
        PROVE  AuditInv'
    <2>1. CASE AuditNext
      BY <1>2, <2>1, AuditStep
    <2>2. CASE UNCHANGED auditVars
      BY <1>2, <2>2 DEF auditVars, AuditInv, AuditTypeOK
    <2>3. QED
      BY <1>2, <2>1, <2>2 DEF StoreNext, storeVars
  <1>3. AuditInv => AuditKeeps
    <2> SUFFICES ASSUME AuditInv, ~created
                 PROVE  IsSuffix(OnDisk, logged)
      BY DEF AuditKeeps
    <2>1. OnDisk = Content(disk, content)
      <3>1. OnDisk = FlattenSeq(PartsOf(disk, content))
        <4>1. ASSUME NEW i \in 1 .. MaxFiles + 1
              PROVE  Held(disk, content, (MaxFiles + 1) - i)
                       = IF disk[MaxFiles + 1 - i] = NoFile THEN <<>>
                         ELSE content[disk[MaxFiles + 1 - i]]
          <5>1. (MaxFiles + 1) - i = MaxFiles + 1 - i
            BY AuditAssumption
          <5>2. QED
            BY <5>1, Zenon DEF Held, NoList
        <4>2. PartsOf(disk, content) = [i \in 1 .. MaxFiles + 1 |->
                IF disk[MaxFiles + 1 - i] = NoFile THEN <<>>
                ELSE content[disk[MaxFiles + 1 - i]]]
          BY <4>1, Zenon DEF PartsOf
        <4>3. QED
          BY <4>2, Zenon DEF OnDisk
      <3>2. QED
        BY <3>1 DEF Content
    <2>2. DiskOf(disk, content) /\ logged \in Lists /\ LastPart(Content(disk, content), logged)
      BY DEF AuditInv, AuditTypeOK
    <2>3. Content(disk, content) \in Lists
      BY <2>2, ContentIs
    <2>4. QED
      BY <2>1, <2>2, <2>3, SuffixIs
  <1>4. QED
    BY <1>1, <1>2, <1>3, PTL DEF StoreSpec
=============================================================================
