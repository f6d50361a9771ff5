---------------------------- MODULE WsConnections ----------------------------
(***************************************************************************)
(* The chat sockets of the relay: ConnectionManager and                    *)
(* handle_websocket_connection of server/ws/chat_manager.py, with the      *)
(* routes that change who is in a chat. There is one chat (chats meet only *)
(* in the sockets of their members) and one server instance (the Redis bus *)
(* delivers to another instance with the same broadcast_local).            *)
(*                                                                         *)
(* Everything runs on one event loop: a step is what a coroutine does from *)
(* one await that suspends to the next. The awaits are the ones on a       *)
(* socket: accept, close, receive and send_json. A cast is a coroutine in  *)
(* the middle of sending one event to several users.                       *)
(***************************************************************************)
EXTENDS Integers, FiniteSets

CONSTANTS
    Users,
    Conns,          \* Conns[u]: bound: sockets user u opens
    Members,        \* those in the chat to begin with
    MaxMessages,    \* bound: messages sent
    MaxChanges,     \* bound: changes of membership
    None

ASSUME ConnsAssumption == Conns \in [Users -> Nat] /\ Members \subseteq Users
ASSUME BoundsAssumption == MaxMessages \in Nat /\ MaxChanges \in Nat
ASSUME NoneAssumption == None \notin Users

VARIABLES
    phase,     \* phase[u][k]: where the handler of socket k of u is
    link,      \* link[u][k]: the transport: "up", "silent" (nobody reads), "down"
    active,    \* active_connections: the socket registered for u, 0 if none
    listed,    \* the users whose user_chats names the chat
    indexed,   \* chat_users of the chat
    members,   \* ChatParticipant rows of the chat
    online,    \* User.is_online
    offline,   \* the users with a task that will clear User.is_online
    casts,     \* the casts in progress
    messages, changes,
    log,       \* history: how the broadcasts of messages ended
    behind     \* history: users whose row a route has changed behind the indexes

sockets == <<phase, link>>
registry == <<active, listed, indexed, offline>>
counters == <<messages, changes>>
history == <<log, behind>>
vars == <<sockets, registry, members, online, casts, counters, history>>

Phases == {"none", "connecting", "announcing", "serving", "busy", "left"}

Ks(u) == 1..Conns[u]

Init ==
    /\ phase = [u \in Users |-> [k \in Ks(u) |-> "none"]]
    /\ link = [u \in Users |-> [k \in Ks(u) |-> "up"]]
    /\ active = [u \in Users |-> 0]
    /\ listed = {} /\ indexed = {} /\ members = Members
    /\ online = [u \in Users |-> FALSE]
    /\ offline = {} /\ casts = {} /\ log = {} /\ behind = {}
    /\ messages = 0 /\ changes = 0

SetPhase(u, k, p) == phase' = [phase EXCEPT ![u][k] = p]
SetLink(u, k, l) == link' = [link EXCEPT ![u][k] = l]

-----------------------------------------------------------------------------
(* Casts. k = 0: a task of its own, not the coroutine of a socket. A cast   *)
(* over the live set chat_users has no list of targets; to is the user a    *)
(* send is suspended on and on the socket it goes to, size the size of the  *)
(* set when the loop began (None: not begun). stayed is a history field:    *)
(* who has been registered and indexed since then.                          *)

FreshId == CHOOSE i \in 0..Cardinality(casts) : \A c \in casts : c.id # i

NewCast(kind, u, k, targets) ==
    [id |-> FreshId, kind |-> kind, from |-> u, k |-> k, targets |-> targets,
     visited |-> {}, size |-> None, to |-> None, on |-> 0, got |-> {}, stayed |-> {}]

Live(c) == c.kind \in {"message", "online", "offline"}

(* What disconnect(user_id) leaves of the registry, and the task it makes.  *)
Same == [active |-> active, indexed |-> indexed, offline |-> offline]

(* Mutant: no task for the database.                                        *)
Disconnected_NoTask(u) ==
    [Same EXCEPT !.active[u] = 0, !.indexed = IF u \in listed THEN @ \ {u} ELSE @]

Disconnected(u) ==
    [active  |-> [active EXCEPT ![u] = 0],
     indexed |-> IF u \in listed THEN indexed \ {u} ELSE indexed,
     offline |-> offline \cup {u}]
Bereft(u, cs) ==
    {[c EXCEPT !.stayed = @ \ {u}] : c \in cs} \cup
        (IF u \in listed THEN {NewCast("offline", u, 0, {})} ELSE {})

Commit(r, cs) ==
    active' = r.active /\ indexed' = r.indexed /\ offline' = r.offline /\ casts' = cs

Targets(c, r) ==
    {w \in (IF Live(c) THEN r.indexed \ {c.from} ELSE c.targets) \ c.visited : r.active[w] # 0}

SendTo(c, r, w) == [c EXCEPT !.visited = @ \cup {w}, !.to = w, !.on = r.active[w]]

(* The coroutine of the socket, if it is the one that runs the cast.        *)
Resumes(c, p) == IF c.k = 0 THEN UNCHANGED phase ELSE SetPhase(c.from, c.k, p)

Log(c, acked) ==
    log' = IF c.kind = "message"
           THEN log \cup {[acked |-> acked, missed |-> c.stayed \ c.got]} ELSE log

Ack(c) == [NewCast("ack", c.from, c.k, {c.from}) EXCEPT !.size = 0, !.id = c.id]

(* The loop ends; after the broadcast of a message its sender is told.      *)
Completed(c, others, r) ==
    /\ Log(c, TRUE)
    /\ UNCHANGED link
    /\ IF c.kind = "message" /\ r.active[c.from] # 0
       THEN /\ Commit(r, others \cup {SendTo(Ack(c), r, c.from)})
            /\ Resumes(c, "busy")
       ELSE Commit(r, others) /\ Resumes(c, "serving")

(* Mutant: the error of the loop is swallowed inside it.                    *)
Raised_Swallowed(c, others, r) == Completed(c, others, r)

(* The loop raises: handle_message swallows the error, connect does not and *)
(* its caller has no handler for it either: the socket's coroutine is gone. *)
Raised(c, others, r) ==
    /\ Commit(r, others)
    /\ Log(c, FALSE)
    /\ IF c.kind = "online"
       THEN Resumes(c, "left") /\ SetLink(c.from, c.k, "down")
       ELSE Resumes(c, "serving") /\ UNCHANGED link

(* The loop head: broadcast_local iterates over the live set, and a set     *)
(* whose size has changed raises. r is the registry by then.                *)
Iterate(c, others, r) ==
    IF Live(c) /\ Cardinality(r.indexed) # c.size THEN Raised(c, others, r)
    ELSE \/ \E w \in Targets(c, r) :
              /\ Commit(r, others \cup {SendTo(c, r, w)})
              /\ Resumes(c, IF c.kind = "online" THEN "announcing" ELSE "busy")
              /\ UNCHANGED <<link, log>>
         \/ Targets(c, r) = {} /\ Completed(c, others, r)

Begin(c, others, r) ==
    Iterate([c EXCEPT !.size = Cardinality(r.indexed),
                      !.stayed = {w \in r.indexed \ {c.from} : r.active[w] # 0}], others, r)

(* A task disconnect has made starts.                                       *)
StartTask(c) ==
    /\ c \in casts /\ c.kind = "offline" /\ c.size = None
    /\ Begin(c, casts \ {c}, Same)
    /\ UNCHANGED <<listed, members, online, counters, behind>>

(* A send_json ends. It fails if the transport is down, and then the user   *)
(* is disconnected: whatever socket is registered for him by now.           *)
SendEnds(c) ==
    /\ c \in casts /\ c.size # None
    /\ IF link[c.to][c.on] # "down"
       THEN Iterate([c EXCEPT !.got = @ \cup {c.to}], casts \ {c}, Same)
       ELSE IF active[c.to] = 0 THEN Iterate(c, casts \ {c}, Same)
       ELSE Iterate([c EXCEPT !.stayed = @ \ {c.to}], Bereft(c.to, casts \ {c}),
                    Disconnected(c.to))
    /\ UNCHANGED <<listed, members, online, counters, behind>>

-----------------------------------------------------------------------------
(* The coroutine of a socket.                                               *)

(* connect: an older socket is closed, then both awaits (close and accept). *)
Arrive(u, k) ==
    /\ phase[u][k] = "none" /\ \A j \in 1..(k - 1) : phase[u][j] # "none"
    /\ SetPhase(u, k, "connecting")
    /\ IF active[u] # 0 THEN SetLink(u, active[u], "down") ELSE UNCHANGED link
    /\ UNCHANGED <<registry, members, online, casts, counters, history>>

(* _load_user_chats, and the registry connect leaves.                       *)
UserChats(u) == IF u \in members THEN listed \cup {u} ELSE listed \ {u}
Connected(u, k) ==
    [active  |-> [active EXCEPT ![u] = k],
     indexed |-> IF u \in members THEN indexed \cup {u} ELSE indexed,
     offline |-> offline]

(* accept has returned: the slot is taken, the chats are loaded, is_online  *)
(* is set, and the members are told before the socket is served.            *)
Register(u, k) ==
    /\ phase[u][k] = "connecting" /\ link[u][k] # "down"
    /\ listed' = UserChats(u)
    /\ online' = [online EXCEPT ![u] = TRUE]
    /\ behind' = behind \ (members \cap {u})
    /\ IF u \in members
       THEN Begin(NewCast("online", u, k, {}), casts, Connected(u, k))
       ELSE /\ Commit(Connected(u, k), casts)
            /\ SetPhase(u, k, "serving") /\ UNCHANGED <<link, log>>
    /\ UNCHANGED <<members, counters>>

ConnectFails(u, k) ==
    /\ phase[u][k] = "connecting" /\ link[u][k] = "down"
    /\ SetPhase(u, k, "left")
    /\ UNCHANGED <<link, registry, members, online, casts, counters, history>>

(* _handle_new_message, once the row is committed.                          *)
Message(u, k) ==
    /\ phase[u][k] = "serving" /\ link[u][k] = "up"
    /\ u \in members /\ messages < MaxMessages
    /\ messages' = messages + 1
    /\ Begin(NewCast("message", u, k, {}), casts, Same)
    /\ UNCHANGED <<listed, members, online, changes, behind>>

(* receive_text raises: disconnect(user_id, websocket).                     *)
HandlerStops(u, k) ==
    /\ phase[u][k] = "serving" /\ link[u][k] = "down"
    /\ SetPhase(u, k, "left")
    /\ IF active[u] = k THEN Commit(Disconnected(u), Bereft(u, casts))
                        ELSE Commit(Same, casts)
    /\ UNCHANGED <<link, listed, members, online, counters, history>>

(* The two breaks of the loop: no answer for two minutes, or a token that   *)
(* is no longer valid. Neither leads to a disconnect.                       *)
IdleTimeout(u, k) ==
    /\ phase[u][k] = "serving" /\ link[u][k] = "silent"
    /\ SetPhase(u, k, "left") /\ SetLink(u, k, "down")
    /\ UNCHANGED <<registry, members, online, casts, counters, history>>

TokenExpires(u, k) ==
    /\ phase[u][k] = "serving" /\ link[u][k] = "up"
    /\ SetPhase(u, k, "left") /\ SetLink(u, k, "down")
    /\ UNCHANGED <<registry, members, online, casts, counters, history>>

(* The network: a peer that vanishes, a connection that ends.               *)
LinkChanges(u, k) ==
    /\ phase[u][k] \notin {"none", "left"}
    /\ \E l \in {"silent", "down"} :
         /\ link[u][k] # "down" /\ link[u][k] # l
         /\ SetLink(u, k, l)
    /\ UNCHANGED <<phase, registry, members, online, casts, counters, history>>

(* The task of disconnect that writes to the database.                      *)
RecordOffline(u) ==
    /\ u \in offline
    /\ offline' = offline \ {u}
    /\ online' = [online EXCEPT ![u] = FALSE]
    /\ UNCHANGED <<sockets, active, listed, indexed, members, casts, counters, history>>

-----------------------------------------------------------------------------
(* Routes that change who is in the chat.                                   *)

Change == changes < MaxChanges /\ changes' = changes + 1

AddUserToChat(u) ==
    /\ listed' = listed \cup {u}
    /\ indexed' = IF u \in listed THEN indexed ELSE indexed \cup {u}

RemoveUserFromChat(u) ==
    /\ listed' = listed \ {u}
    /\ indexed' = IF u \in listed THEN indexed \ {u} ELSE indexed

(* Mutant: the row without add_user_to_chat.                                *)
Join_RowOnly(u) ==
    /\ Change
    /\ members' = members \cup {u}
    /\ UNCHANGED <<sockets, registry, online, casts, messages, history>>

(* create_chat, accept_group_invite: the row, unless add_participant has    *)
(* made it since the invitation, then add_user_to_chat.                     *)
Join(u) ==
    /\ Change
    /\ members' = members \cup {u}
    /\ AddUserToChat(u)
    /\ UNCHANGED <<sockets, active, offline, online, casts, messages, history>>

(* delete_chat: the row, then remove_user_from_chat.                        *)
DeleteChat(u) ==
    /\ Change /\ u \in members
    /\ members' = members \ {u}
    /\ RemoveUserFromChat(u)
    /\ casts' = {[c EXCEPT !.stayed = @ \ {u}] : c \in casts}
    /\ UNCHANGED <<sockets, active, offline, online, messages, history>>

(* add_participant: the row only.                                           *)
AddParticipant(u) ==
    /\ Change /\ u \notin members
    /\ members' = members \cup {u}
    /\ behind' = behind \cup {u}
    /\ UNCHANGED <<sockets, registry, online, casts, messages, log>>

(* remove_participant, leave_group: the row, then the members that remain   *)
(* are told to fetch the new group key, except when one removes oneself.    *)
RemoveParticipant(u) ==
    /\ Change /\ u \in members
    /\ members' = members \ {u}
    /\ behind' = behind \cup {u}
    /\ \/ Begin([NewCast("notice", u, 0, members \ {u}) EXCEPT !.size = 0], casts, Same)
       \/ Commit(Same, casts) /\ UNCHANGED <<sockets, log>>
    /\ UNCHANGED <<listed, online, messages>>

-----------------------------------------------------------------------------
SocketStep(u, k) ==
    \/ Arrive(u, k) \/ Register(u, k) \/ ConnectFails(u, k)
    \/ Message(u, k) \/ HandlerStops(u, k) \/ IdleTimeout(u, k) \/ TokenExpires(u, k)
    \/ LinkChanges(u, k)

RouteStep(u) == Join(u) \/ DeleteChat(u) \/ AddParticipant(u) \/ RemoveParticipant(u)

Next ==
    \/ \E u \in Users : RouteStep(u) \/ RecordOffline(u) \/ \E k \in Ks(u) : SocketStep(u, k)
    \/ \E c \in casts : StartTask(c) \/ SendEnds(c)

Spec == Init /\ [][Next]_vars

-----------------------------------------------------------------------------
(* Properties.                                                              *)

(* Every variable keeps its type, and a send in progress names a socket     *)
(* (chat_manager.py, ConnectionManager).                                    *)
TypeOK ==
    /\ phase \in [Users -> UNION {[Ks(u) -> Phases] : u \in Users}]
    /\ \A u \in Users : active[u] \in 0..Conns[u] /\ online[u] \in BOOLEAN
    /\ \A u \in Users : \A k \in Ks(u) : link[u][k] \in {"up", "silent", "down"}
    /\ listed \subseteq Users /\ indexed \subseteq Users /\ members \subseteq Users
    /\ offline \subseteq Users /\ behind \subseteq Users
    /\ \A c \in casts : c.size # None => c.to \in Users /\ c.on \in Ks(c.to)
    /\ \A c, d \in casts : c.id = d.id => c = d

(* The two indexes agree: whoever is indexed for the chat lists it, so that *)
(* disconnect and remove_user_from_chat can find the entry; and a           *)
(* registered user who lists it is indexed (chat_manager.py:251-272). The   *)
(* users in behind are exempt until they connect as members.                *)
IndexesAgree ==
    \A u \in Users \ behind :
        /\ u \in indexed => u \in listed
        /\ u \in listed /\ active[u] # 0 => u \in indexed

(* A broadcast goes to the registered members of the chat, to all of them   *)
(* and to nobody else (comment at chat_manager.py:453), with the same       *)
(* exemption.                                                               *)
BroadcastsToMembers ==
    \A u \in Users \ behind : active[u] # 0 => (u \in indexed <=> u \in members)

(* A sender who is told message_delivered has had the message sent to every *)
(* member who was registered while it went round (chat_manager.py:453-470). *)
AckMeansDelivered ==
    \A e \in log : e.acked => e.missed = {}

(* A user without a socket whose row says online is about to be recorded    *)
(* offline: no order of reconnects, failed sends and tasks leaves the row   *)
(* online for good (chat_manager.py:60-82).                                 *)
OfflineIsRecorded ==
    \A u \in Users : online[u] /\ active[u] = 0 => u \in offline

(* A message reaches every member who was registered all along, whatever    *)
(* happens to the others (comment at chat_manager.py:453).                  *)
EveryoneGetsIt ==
    \A e \in log : e.missed = {}
=============================================================================
