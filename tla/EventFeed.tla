------------------------------ MODULE EventFeed -----------------------------
(***************************************************************************)
(* bus/events.rs and bus/ws.rs: pipeline events broadcast to WebSocket     *)
(* clients.  Events are numbered as they are sent; the broadcast channel   *)
(* (external) keeps the last Capacity of them for receivers that fall      *)
(* behind.                                                                 *)
(***************************************************************************)
EXTENDS Naturals, Sequences

CONSTANTS
    Clients,
    Capacity,    \* of the channel
    MaxSent      \* bound: events sent

ASSUME FeedAssumption == Capacity \in Nat \ {0}

VARIABLES
    sent,        \* events sent
    client       \* state of a client's connection and its send_task

feedVars == <<sent, client>>

Offline == [state |-> "offline", start |-> 0, cursor |-> 0, seen |-> <<>>, lagged |-> 0]

FeedInit ==
    /\ sent = 0
    /\ client = [c \in Clients |-> Offline]

\* EventBus::send never waits for a client.
Send ==
    /\ sent < MaxSent
    /\ sent' = sent + 1
    /\ UNCHANGED client

\* ws_handler: a wrong token, or with a secret a foreign origin, gets an
\* error message and no subscription.
Refuse(c) ==
    /\ client[c].state = "offline"
    /\ client' = [client EXCEPT ![c].state = "refused"]
    /\ UNCHANGED sent

\* handle_socket subscribes: the feed starts with the next event.
Connect(c) ==
    /\ client[c].state = "offline"
    /\ client' = [client EXCEPT ![c] = [Offline EXCEPT !.state = "online", !.start = sent, !.cursor = sent]]
    /\ UNCHANGED sent

Behind(c) == sent - client[c].cursor

Forward(c) ==
    /\ client[c].state = "online" /\ Behind(c) \in 1..Capacity
    /\ client' = [client EXCEPT ![c].cursor = @ + 1, ![c].seen = Append(@, client[c].cursor + 1)]
    /\ UNCHANGED sent

\* A client that fell behind too far goes on with the oldest event kept.
Lagged(c) ==
    /\ client[c].state = "online" /\ Behind(c) > Capacity
    /\ client' = [client EXCEPT ![c].cursor = sent - Capacity, ![c].lagged = @ + Behind(c) - Capacity]
    /\ UNCHANGED sent

\* The client leaves or its socket fails: send_task ends.
Disconnect(c) ==
    /\ client[c].state = "online"
    /\ client' = [client EXCEPT ![c].state = "gone"]
    /\ UNCHANGED sent

FeedNext ==
    \/ Send
    \/ \E c \in Clients :
         Refuse(c) \/ Connect(c) \/ Forward(c) \/ Lagged(c) \/ Disconnect(c)

----------------------------------------------------------------------------
\* A client sees events once and in their order, and every event since it
\* connected was forwarded, is still to come or was reported as lagged: none
\* is missed silently.
FeedInOrder ==
    \A c \in Clients :
      LET cl == client[c]
      IN  /\ \A i, j \in DOMAIN cl.seen : i < j => cl.seen[i] < cl.seen[j]
          /\ cl.start + Len(cl.seen) + cl.lagged = cl.cursor
=============================================================================
