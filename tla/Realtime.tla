------------------------------ MODULE Realtime ------------------------------
(***************************************************************************)
(* The WebSocket gateway of an API process (websocket.gateway.ts, its      *)
(* RoomManager and WebSocketAuth) and the Redis channel that carries the   *)
(* messages of Notifications to it.                                        *)
(*                                                                         *)
(* A connection is authenticated, registered and put into rooms across     *)
(* awaits, and its close handler is registered last.  Every check of       *)
(* access is a read whose result is used in a later step: `client.setup`,  *)
(* `sub` and `beat` hold the results in between.                           *)
(***************************************************************************)
EXTENDS Notifications

CONSTANTS Clients,  \* ids of connections
          Nothing   \* no room, and no answer yet

ASSUME GatewayAssumption == Nothing \notin BOOLEAN /\ Nothing \notin Rooms

VARIABLES
    client,  \* the connections and their WSClient records
    member,  \* RoomManager: <<client, room>>
    sub,     \* the access check of a subscribe message
    beat     \* the check that a heartbeat has started

gateway     == <<client, member, sub, beat>>
gatewayVars == <<people, notification, bus, faults, gateway>>

(* phase: new, authenticating, setup (in the map, the tenant room being    *)
(* checked), on (handlers registered) or over.  listed: in the clients map *)
WSClients == [phase : {"new", "authenticating", "setup", "on", "over"},
              user : Persons, listed : BOOLEAN, open : BOOLEAN, alive : BOOLEAN,
              rooms : SUBSET Rooms, answer : BOOLEAN \cup {Nothing}]

NotConnected == [phase |-> "new", user |-> "customer", listed |-> FALSE, open |-> FALSE,
                 alive |-> FALSE, rooms |-> {}, answer |-> Nothing]

Idle == [stage |-> "idle", todo |-> {}, room |-> Nothing, answer |-> Nothing]

GatewayTypeOK ==
    /\ NotificationTypeOK
    /\ client \in [Clients -> WSClients]
    /\ member \subseteq Clients \X Rooms
    /\ sub \in [Clients -> [room : Rooms \cup {Nothing}, answer : BOOLEAN \cup {Nothing}]]
    /\ beat \in [Clients -> [stage : {"idle", "account", "rooms"}, todo : SUBSET Rooms,
                             room : Rooms \cup {Nothing}, answer : BOOLEAN \cup {Nothing}]]

NoSub == [room |-> Nothing, answer |-> Nothing]

GatewayInit ==
    /\ NotificationInit
    /\ client = [c \in Clients |-> NotConnected]
    /\ member = {}
    /\ sub = [c \in Clients |-> NoSub]
    /\ beat = [c \in Clients |-> Idle]

(***************************************************************************)
(* Who may enter a room, by what the tables say now                        *)
(***************************************************************************)

(* TicketAccessPolicy.canView, with resolveViewer for customers. *)
canView(u) == CASE u = "manager"  -> TRUE
                [] u = "agent"    -> assigned
                [] u = "customer" -> linked

(* hasPermission(user, 'realtime:tenant') *)
canAccessTenantRoom(u) == u = "manager" \/ (u = "agent" /\ granted)

canAccessRoom(u, room) == CASE room = "tenant" -> canAccessTenantRoom(u)
                            [] room = "ticket" -> canView(u)
                            [] OTHER           -> room = u

(* authenticate and isStillAuthorized: the account as in the token. *)
isStillAuthorized(u) == u \in active

(***************************************************************************)
(* Connecting                                                              *)
(***************************************************************************)
Connect(c, u) ==
    /\ client[c].phase = "new"
    /\ client' = [client EXCEPT ![c].phase = "authenticating", ![c].user = u, ![c].open = TRUE]
    /\ UNCHANGED <<people, notification, bus, faults, member, sub, beat>>

(* removeClient and clients.delete *)
Disconnected(c) == [client[c] EXCEPT !.listed = FALSE, !.open = FALSE, !.alive = FALSE]
Left(c)         == {m \in member : m[1] # c}

Refuse(c) ==
    /\ client[c].phase = "authenticating" /\ ~isStillAuthorized(client[c].user)
    /\ client' = [client EXCEPT ![c].phase = "over", ![c].open = FALSE]
    /\ UNCHANGED <<people, notification, bus, faults, member, sub, beat>>

Authenticate(c) ==
    /\ client[c].phase = "authenticating" /\ isStillAuthorized(client[c].user)
    /\ client' = [client EXCEPT ![c].phase = "setup", ![c].listed = TRUE, ![c].alive = TRUE,
                                ![c].rooms = {client[c].user}]
    /\ member' = member \cup {<<c, client[c].user>>}
    /\ UNCHANGED <<people, notification, bus, faults, sub, beat>>

CheckTenantRoom(c) ==
    /\ client[c].phase = "setup" /\ client[c].answer = Nothing
    /\ client' = [client EXCEPT ![c].answer = canAccessTenantRoom(client[c].user)]
    /\ UNCHANGED <<people, notification, bus, faults, member, sub, beat>>

(* The rest of handleConnection, whatever has become of the socket. *)
FinishSetup(c) ==
    /\ client[c].phase = "setup" /\ client[c].answer # Nothing
    /\ client' = [client EXCEPT ![c].phase = "on", ![c].answer = Nothing,
                                ![c].rooms = @ \cup (IF client[c].answer THEN {"tenant"} ELSE {})]
    /\ member' = member \cup (IF client[c].answer THEN {<<c, "tenant">>} ELSE {})
    /\ UNCHANGED <<people, notification, bus, faults, sub, beat>>

(* The check throws: the socket is closed, the client stays listed. *)
SetupFails(c) ==
    /\ client[c].phase = "setup" /\ client[c].answer = Nothing
    /\ Fault
    /\ client' = [client EXCEPT ![c].phase = "over", ![c].open = FALSE]
    /\ UNCHANGED <<people, notification, bus, member, sub, beat>>

(* The peer closes the socket: nobody listens before the setup is over. *)
SocketCloses(c) ==
    /\ client[c].open
    /\ IF client[c].phase = "on"
         THEN /\ client' = [client EXCEPT ![c] = Disconnected(c)]
              /\ member' = IF client[c].listed THEN Left(c) ELSE member
         ELSE /\ client' = [client EXCEPT ![c].open = FALSE]
              /\ UNCHANGED member
    /\ UNCHANGED <<people, notification, bus, faults, sub, beat>>

(***************************************************************************)
(* Messages of the client                                                  *)
(***************************************************************************)
Speaks(c) == client[c].phase = "on" /\ client[c].open

Subscribe(c, room) ==
    /\ Speaks(c) /\ sub[c].room = Nothing /\ room \notin Persons
    /\ sub' = [sub EXCEPT ![c].room = room]
    /\ UNCHANGED <<people, notification, bus, faults, client, member, beat>>

CheckSubscription(c) ==
    /\ sub[c].room # Nothing /\ sub[c].answer = Nothing
    /\ sub' = [sub EXCEPT ![c].answer = canAccessRoom(client[c].user, sub[c].room)]
    /\ UNCHANGED <<people, notification, bus, faults, client, member, beat>>

(* MUTANT: the client may have gone in the meantime. *)
JoinRoomAnyway(c) ==
    /\ sub[c].answer # Nothing
    /\ sub' = [sub EXCEPT ![c] = NoSub]
    /\ IF sub[c].answer
         THEN /\ client' = [client EXCEPT ![c].rooms = @ \cup {sub[c].room}]
              /\ member' = member \cup {<<c, sub[c].room>>}
         ELSE UNCHANGED <<client, member>>
    /\ UNCHANGED <<people, notification, bus, faults, beat>>

(* The rest of handleSubscribe. *)
JoinRoom(c) ==
    /\ sub[c].answer # Nothing
    /\ sub' = [sub EXCEPT ![c] = NoSub]
    /\ IF sub[c].answer /\ client[c].listed
         THEN /\ client' = [client EXCEPT ![c].rooms = @ \cup {sub[c].room}]
              /\ member' = member \cup {<<c, sub[c].room>>}
         ELSE UNCHANGED <<client, member>>
    /\ UNCHANGED <<people, notification, bus, faults, beat>>

(* The check throws, or denies: nothing else. *)
SubscribeFails(c) ==
    /\ sub[c].room # Nothing /\ sub[c].answer = Nothing
    /\ Fault
    /\ sub' = [sub EXCEPT ![c] = NoSub]
    /\ UNCHANGED <<people, notification, bus, client, member, beat>>

Unsubscribe(c, room) ==
    /\ Speaks(c) /\ <<c, room>> \in member
    /\ client' = [client EXCEPT ![c].rooms = @ \ {room}]
    /\ member' = member \ {<<c, room>>}
    /\ UNCHANGED <<people, notification, bus, faults, sub, beat>>

Pong(c) ==
    /\ Speaks(c) /\ client[c].listed /\ ~client[c].alive
    /\ client' = [client EXCEPT ![c].alive = TRUE]
    /\ UNCHANGED <<people, notification, bus, faults, member, sub, beat>>

(***************************************************************************)
(* The heartbeat                                                           *)
(***************************************************************************)

(* A beat starts the recheck of the account, pings, and drops a client     *)
(* that has not answered the last ping.  One recheck of a client at a time *)
(* is kept (the checks of a beat take less than the 30 s between beats).   *)
Heartbeat(c) ==
    /\ client[c].listed /\ beat[c] = Idle
    /\ beat' = [beat EXCEPT ![c].stage = "account"]
    /\ IF client[c].alive
         THEN client' = [client EXCEPT ![c].alive = FALSE] /\ UNCHANGED member
         ELSE client' = [client EXCEPT ![c] = Disconnected(c)] /\ member' = Left(c)
    /\ UNCHANGED <<people, notification, bus, faults, sub>>

RecheckAccount(c) ==
    /\ beat[c].stage = "account" /\ beat[c].answer = Nothing
    /\ beat' = [beat EXCEPT ![c].answer = isStillAuthorized(client[c].user)]
    /\ UNCHANGED <<people, notification, bus, faults, client, member, sub>>

(* Not authorized: the socket is closed and the client removed; otherwise  *)
(* revalidateRooms goes through a copy of its rooms.                       *)
AccountRechecked(c) ==
    /\ beat[c].stage = "account" /\ beat[c].answer # Nothing
    /\ IF beat[c].answer
         THEN /\ beat' = [beat EXCEPT ![c] = [Idle EXCEPT !.stage = "rooms",
                                                  !.todo = client[c].rooms \ Persons]]
              /\ UNCHANGED <<client, member>>
         ELSE /\ beat' = [beat EXCEPT ![c] = Idle]
              /\ client' = [client EXCEPT ![c] = Disconnected(c)]
              /\ member' = IF client[c].listed THEN Left(c) ELSE member
    /\ UNCHANGED <<people, notification, bus, faults, sub>>

RecheckRoom(c) ==
    /\ beat[c].stage = "rooms" /\ beat[c].room = Nothing
    /\ \E room \in beat[c].todo :
          beat' = [beat EXCEPT ![c].room = room, ![c].todo = @ \ {room},
                               ![c].answer = canAccessRoom(client[c].user, room)]
    /\ UNCHANGED <<people, notification, bus, faults, client, member, sub>>

(* MUTANT: the client's own set of rooms is updated, the manager's not. *)
RoomRecheckedHalf(c) ==
    /\ beat[c].stage = "rooms" /\ beat[c].room # Nothing
    /\ beat' = [beat EXCEPT ![c].room = Nothing, ![c].answer = Nothing]
    /\ client' = IF beat[c].answer THEN client
                 ELSE [client EXCEPT ![c].rooms = @ \ {beat[c].room}]
    /\ UNCHANGED <<people, notification, bus, faults, member, sub>>

RoomRechecked(c) ==
    /\ beat[c].stage = "rooms" /\ beat[c].room # Nothing
    /\ beat' = [beat EXCEPT ![c].room = Nothing, ![c].answer = Nothing]
    /\ IF beat[c].answer
         THEN UNCHANGED <<client, member>>
         ELSE /\ client' = [client EXCEPT ![c].rooms = @ \ {beat[c].room}]
              /\ member' = member \ {<<c, beat[c].room>>}
    /\ UNCHANGED <<people, notification, bus, faults, sub>>

RecheckEnds(c) ==
    /\ beat[c].stage = "rooms" /\ beat[c].room = Nothing /\ beat[c].todo = {}
    /\ beat' = [beat EXCEPT ![c] = Idle]
    /\ UNCHANGED <<people, notification, bus, faults, client, member, sub>>

(* A read of the recheck fails: it is given up until the next beat. *)
RecheckFails(c) ==
    /\ beat[c] # Idle
    /\ Fault
    /\ beat' = [beat EXCEPT ![c] = Idle]
    /\ UNCHANGED <<people, notification, bus, client, member, sub>>

(***************************************************************************)
(* Messages from the channel                                               *)
(***************************************************************************)
Receives(c, room) == client[c].listed /\ client[c].open /\ <<c, room>> \in member

(* broadcastToRoom sends to everybody who Receives from the room. *)
Deliver(m) ==
    /\ bus' = bus \ {m}
    /\ UNCHANGED <<people, notification, faults, gateway>>

(* Publishing failed, or the subscriber was not connected. *)
MessageLost(m) ==
    /\ Fault
    /\ bus' = bus \ {m}
    /\ UNCHANGED <<people, notification, gateway>>

(***************************************************************************)
(* Specification                                                           *)
(***************************************************************************)
Recheck(c) == RecheckAccount(c) \/ AccountRechecked(c) \/ RecheckRoom(c) \/ RoomRechecked(c)
                \/ RecheckEnds(c)

GatewayStep ==
    \/ \E c \in Clients :
          \/ \E u \in Persons : Connect(c, u)
          \/ Refuse(c) \/ Authenticate(c) \/ CheckTenantRoom(c) \/ FinishSetup(c) \/ SetupFails(c)
          \/ SocketCloses(c) \/ CheckSubscription(c) \/ JoinRoom(c) \/ SubscribeFails(c) \/ Pong(c)
          \/ \E room \in Rooms : Subscribe(c, room) \/ Unsubscribe(c, room)
          \/ Heartbeat(c) \/ Recheck(c) \/ RecheckFails(c)
    \/ \E m \in bus : Deliver(m) \/ MessageLost(m)

GatewayNext ==
    \/ GatewayStep
    \/ NotificationStep /\ UNCHANGED gateway
    \/ Change /\ UNCHANGED gateway

(* The interval timer fires, and a read is answered or fails. *)
GatewayFairness == \A c \in Clients : WF_gatewayVars(Heartbeat(c)) /\ WF_gatewayVars(Recheck(c))

GatewaySpec == GatewayInit /\ [][GatewayNext]_gatewayVars

(***************************************************************************)
(* Properties                                                              *)
(***************************************************************************)

(* The person behind c may not have what room sends. *)
Barred(c, room) == ~isStillAuthorized(client[c].user) \/ ~canAccessRoom(client[c].user, room)

(* The heartbeat: whoever loses the account, the assignment, the link or   *)
(* the permission stops receiving the room's messages, although joins      *)
(* whose check was made before may still be under way.                     *)
EvictionEnds ==
    \A c \in Clients, room \in Rooms :
        Receives(c, room) /\ Barred(c, room) ~> ~Receives(c, room) \/ ~Barred(c, room)

(* "The client may have disconnected while access was being checked": the  *)
(* room manager and the clients' records agree, and it keeps no room of a  *)
(* client that is gone, except the tenant room that a connection removed   *)
(* during its setup joins at its end.                                      *)
RoomsAgree ==
    \A c \in Clients :
        LET mine == {room \in Rooms : <<c, room>> \in member}
        IN IF client[c].listed THEN mine = client[c].rooms ELSE mine \subseteq {"tenant"}
=============================================================================
