------------------------ MODULE WsConnectionsProofs -------------------------
(***************************************************************************)
(* Theorems about WsConnections for every set of users, every number of    *)
(* sockets and every bound: the online flag, the two indexes, and what an  *)
(* acknowledged message has reached.                                       *)
(***************************************************************************)
EXTENDS WsConnections, TLAPS

-----------------------------------------------------------------------------
(* What the loop of a broadcast does to the registry.                       *)

LEMMA IterateRegistry ==
  ASSUME NEW c, NEW others, NEW r, Iterate(c, others, r)
  PROVE  active' = r.active /\ indexed' = r.indexed /\ offline' = r.offline
  BY DEF Iterate, Raised, Completed, Commit

LEMMA BeginRegistry ==
  ASSUME NEW c, NEW others, NEW r, Begin(c, others, r)
  PROVE  active' = r.active /\ indexed' = r.indexed /\ offline' = r.offline
  BY IterateRegistry DEF Begin

(* Three ways a step may treat the registry: not at all, by a disconnect of *)
(* one user, or by the steps of a socket and a route named in Next.         *)
Kept == UNCHANGED <<active, indexed, offline>>
DisconnectOf(u) == /\ active' = [active EXCEPT ![u] = 0]
                   /\ indexed' = IF u \in listed THEN indexed \ {u} ELSE indexed
                   /\ offline' = offline \cup {u}

LEMMA SlotSet ==
  ASSUME active \in [Users -> Nat], NEW u, NEW k \in Nat
  PROVE  /\ [active EXCEPT ![u] = k] \in [Users -> Nat]
         /\ \A w \in Users : [active EXCEPT ![u] = k][w] = IF w = u THEN k ELSE active[w]
  OBVIOUS

LEMMA CommitSame ==
  ASSUME NEW cs, Commit(Same, cs) PROVE Kept
  BY DEF Commit, Same, Kept

LEMMA CommitDisconnected ==
  ASSUME NEW u, NEW cs, Commit(Disconnected(u), cs) PROVE DisconnectOf(u)
  BY DEF Commit, Disconnected, DisconnectOf

LEMMA StartTaskRegistry ==
  ASSUME NEW c, StartTask(c) PROVE Kept /\ UNCHANGED <<listed, members, online, behind>>
  BY BeginRegistry DEF StartTask, Same, Kept

LEMMA SendEndsRegistry ==
  ASSUME NEW c, SendEnds(c)
  PROVE  (Kept \/ DisconnectOf(c.to)) /\ UNCHANGED <<listed, members, online, behind>>
<1>1. UNCHANGED <<listed, members, online, behind>>
  BY DEF SendEnds
<1>2. CASE link[c.to][c.on] # "down"
  BY <1>1, <1>2, IterateRegistry DEF SendEnds, Same, Kept
<1>3. CASE link[c.to][c.on] = "down" /\ active[c.to] = 0
  BY <1>1, <1>3, IterateRegistry DEF SendEnds, Same, Kept
<1>4. CASE link[c.to][c.on] = "down" /\ active[c.to] # 0
  BY <1>1, <1>4, IterateRegistry DEF SendEnds, Disconnected, DisconnectOf
<1> QED BY <1>2, <1>3, <1>4

LEMMA MessageRegistry ==
  ASSUME NEW u, NEW k, Message(u, k) PROVE Kept /\ UNCHANGED <<listed, members, online, behind>>
  BY BeginRegistry DEF Message, Same, Kept

LEMMA HandlerStopsRegistry ==
  ASSUME NEW u, NEW k, HandlerStops(u, k)
  PROVE  (Kept \/ DisconnectOf(u)) /\ UNCHANGED <<listed, members, online, behind>>
  BY CommitSame, CommitDisconnected DEF HandlerStops, history

LEMMA RegisterRegistry ==
  ASSUME NEW u, NEW k, Register(u, k)
  PROVE  /\ active' = [active EXCEPT ![u] = k] /\ offline' = offline
         /\ indexed' = IF u \in members THEN indexed \cup {u} ELSE indexed
         /\ listed' = IF u \in members THEN listed \cup {u} ELSE listed \ {u}
         /\ online' = [online EXCEPT ![u] = TRUE] /\ members' = members
         /\ behind' = behind \ (members \cap {u})
  BY BeginRegistry DEF Register, Connected, UserChats, Commit

LEMMA RemoveParticipantRegistry ==
  ASSUME NEW u, RemoveParticipant(u)
  PROVE  Kept /\ UNCHANGED <<listed, online>>
  BY BeginRegistry, CommitSame DEF RemoveParticipant, Same, Kept

(* A step of Next, from the point of view of the registry and the rows.     *)
RegistryStep ==
  \/ Kept /\ UNCHANGED <<listed, members, online, behind>>
  \/ \E u : DisconnectOf(u) /\ UNCHANGED <<listed, members, online, behind>>
  \/ \E u \in Users : \E k \in Ks(u) : Register(u, k)
  \/ \E u \in Users : RecordOffline(u) \/ RouteStep(u)

LEMMA StepOfRegistry ==
  ASSUME [Next]_vars PROVE RegistryStep
<1>1. CASE UNCHANGED vars
  BY <1>1 DEF vars, registry, history, RegistryStep, Kept
<1>2. ASSUME NEW c \in casts, StartTask(c) \/ SendEnds(c) PROVE RegistryStep
  BY <1>2, StartTaskRegistry, SendEndsRegistry DEF RegistryStep
<1>3. ASSUME NEW u \in Users, NEW k \in Ks(u), SocketStep(u, k) PROVE RegistryStep
  <2>1. CASE Arrive(u, k) \/ ConnectFails(u, k) \/ IdleTimeout(u, k) \/ TokenExpires(u, k)
             \/ LinkChanges(u, k)
    BY <2>1 DEF Arrive, ConnectFails, IdleTimeout, TokenExpires, LinkChanges, registry, history,
                Kept, RegistryStep
  <2>2. CASE Message(u, k) \/ HandlerStops(u, k)
    BY <2>2, MessageRegistry, HandlerStopsRegistry DEF RegistryStep
  <2>3. CASE Register(u, k)
    BY <2>3 DEF RegistryStep
  <2> QED BY <1>3, <2>1, <2>2, <2>3 DEF SocketStep
<1>4. ASSUME NEW u \in Users, RouteStep(u) \/ RecordOffline(u) PROVE RegistryStep
  BY <1>4 DEF RegistryStep
<1> QED BY <1>1, <1>2, <1>3, <1>4 DEF Next

-----------------------------------------------------------------------------
(* The online flag.                                                         *)

OnlineInv == /\ active \in [Users -> Nat] /\ online \in [Users -> BOOLEAN]
             /\ OfflineIsRecorded

LEMMA OnlineInit == Init => OnlineInv
  BY DEF Init, OnlineInv, OfflineIsRecorded

LEMMA OnlineStep == OnlineInv /\ [Next]_vars => OnlineInv'
<1> SUFFICES ASSUME OnlineInv, RegistryStep PROVE OnlineInv'
  BY StepOfRegistry
<1> USE DEF OnlineInv, OfflineIsRecorded
<1>1. CASE Kept /\ UNCHANGED <<listed, members, online, behind>>
  BY <1>1 DEF Kept
<1>2. ASSUME NEW u, DisconnectOf(u), UNCHANGED <<listed, members, online, behind>> PROVE OnlineInv'
  <2>1. active' \in [Users -> Nat] /\ \A w \in Users : active'[w] # 0 \/ active[w] = 0 \/ w = u
    BY <1>2, SlotSet DEF DisconnectOf
  <2>2. offline' = offline \cup {u} /\ UNCHANGED online
    BY <1>2 DEF DisconnectOf
  <2>3. \A w \in Users : active'[w] = 0 => active[w] = 0 \/ w = u
    BY <2>1
  <2>4. online' \in [Users -> BOOLEAN]
    BY <2>2
  <2>5. OfflineIsRecorded'
    BY <2>2, <2>3, Zenon
  <2> QED BY <2>1, <2>4, <2>5
<1>3. ASSUME NEW u \in Users, NEW k \in Ks(u), Register(u, k) PROVE OnlineInv'
  <2>1. k \in Nat /\ k # 0
    BY ConnsAssumption DEF Ks
  <2>2. /\ active' \in [Users -> Nat]
        /\ \A w \in Users : active'[w] = 0 => active[w] = 0 /\ w # u
    BY <1>3, <2>1, RegisterRegistry, SlotSet
  <2>3. offline' = offline /\ online' = [online EXCEPT ![u] = TRUE]
    BY <1>3, RegisterRegistry
  <2>4. /\ online' \in [Users -> BOOLEAN]
        /\ \A w \in Users : w # u => (online'[w] <=> online[w])
    BY <2>3, Zenon
  <2>5. OfflineIsRecorded'
    BY <2>2, <2>3, <2>4, Zenon
  <2> QED BY <2>2, <2>4, <2>5
<1>4. ASSUME NEW u \in Users, RecordOffline(u) PROVE OnlineInv'
  BY <1>4 DEF RecordOffline
<1>5. ASSUME NEW u \in Users, RouteStep(u) PROVE OnlineInv'
  <2>1. Kept \/ Join(u) \/ DeleteChat(u)
    BY <1>5, RemoveParticipantRegistry DEF RouteStep, AddParticipant, registry, Kept
  <2>2. UNCHANGED online
    BY <1>5, RemoveParticipantRegistry DEF RouteStep, AddParticipant, Join, DeleteChat
  <2>3. UNCHANGED <<active, offline>>
    BY <2>1 DEF Kept, Join, DeleteChat
  <2> QED BY <2>2, <2>3
<1> QED BY <1>1, <1>2, <1>3, <1>4, <1>5 DEF RegistryStep

(* A user without a socket whose row says online is about to be recorded    *)
(* offline (chat_manager.py:60-82), for every set of users and sockets and  *)
(* whatever routes are used.                                                *)
THEOREM OnlineFlagCorrect == Spec => []OfflineIsRecorded
<1>1. OnlineInv => OfflineIsRecorded
  BY DEF OnlineInv
<1> QED BY <1>1, OnlineInit, OnlineStep, PTL DEF Spec

-----------------------------------------------------------------------------
(* The two indexes. The inductive invariant says of an entry whose user is  *)
(* not registered that it is one of a member who lists the chat: a socket   *)
(* that registers may find a stale one.                                     *)

Listed(u) == u \in indexed => u \in listed
Indexed(u) == u \in listed /\ active[u] # 0 => u \in indexed
Member(u) == u \in indexed => u \in members
Told(u) == u \in members /\ active[u] # 0 => u \in indexed
IndexInv == /\ active \in [Users -> Nat]
            /\ \A u \in Users \ behind : Listed(u) /\ Indexed(u) /\ Member(u) /\ Told(u)

LEMMA IndexInit == Init => IndexInv
  BY DEF Init, IndexInv, Listed, Indexed, Member, Told

LEMMA IndexStep == IndexInv /\ [Next]_vars => IndexInv'
<1> SUFFICES ASSUME IndexInv, RegistryStep PROVE IndexInv'
  BY StepOfRegistry
<1> USE DEF IndexInv, Listed, Indexed, Member, Told
<1>1. CASE Kept /\ UNCHANGED <<listed, members, online, behind>>
  BY <1>1 DEF Kept
<1>2. ASSUME NEW u, DisconnectOf(u), UNCHANGED <<listed, members, online, behind>>
      PROVE  IndexInv'
  <2>1. /\ active' \in [Users -> Nat]
        /\ \A w \in Users : active'[w] # 0 => w # u /\ active[w] # 0
    BY <1>2, SlotSet DEF DisconnectOf
  <2>2. /\ indexed' = IF u \in listed THEN indexed \ {u} ELSE indexed
        /\ UNCHANGED <<listed, members, behind>>
    BY <1>2 DEF DisconnectOf
  <2> QED BY <2>1, <2>2
<1>3. ASSUME NEW u \in Users, NEW k \in Ks(u), Register(u, k) PROVE IndexInv'
  <2>1. /\ active' \in [Users -> Nat]
        /\ \A w \in Users : active'[w] # 0 => w = u \/ active[w] # 0
    BY <1>3, ConnsAssumption, RegisterRegistry, SlotSet DEF Ks
  <2>2. CASE u \in members
    BY <1>3, <2>1, <2>2, RegisterRegistry
  <2>3. CASE u \notin members
    BY <1>3, <2>1, <2>3, RegisterRegistry
  <2> QED BY <2>2, <2>3
<1>4. ASSUME NEW u \in Users, RecordOffline(u) PROVE IndexInv'
  BY <1>4 DEF RecordOffline, history
<1>5. ASSUME NEW u \in Users, RouteStep(u) PROVE IndexInv'
  <2>1. CASE Join(u)
    BY <2>1 DEF Join, AddUserToChat, history
  <2>2. CASE DeleteChat(u)
    BY <2>2 DEF DeleteChat, RemoveUserFromChat, history
  <2>3. CASE AddParticipant(u)
    BY <2>3 DEF AddParticipant, registry
  <2>4. CASE RemoveParticipant(u)
    BY <2>4, RemoveParticipantRegistry DEF RemoveParticipant, Kept
  <2> QED BY <1>5, <2>1, <2>2, <2>3, <2>4 DEF RouteStep
<1> QED BY <1>1, <1>2, <1>3, <1>4, <1>5 DEF RegistryStep

(* Whoever is indexed lists the chat, and a registered user who lists it is *)
(* indexed (chat_manager.py:251-272), but for the users whose row           *)
(* add_participant, remove_participant or leave_group has changed since.    *)
THEOREM IndexesCorrect == Spec => []IndexesAgree
<1>1. IndexInv => IndexesAgree
  BY DEF IndexInv, IndexesAgree, Listed, Indexed
<1> QED BY <1>1, IndexInit, IndexStep, PTL DEF Spec

(* A broadcast goes to exactly the registered members of the chat           *)
(* (chat_manager.py:453), but for those users.                              *)
THEOREM BroadcastsCorrect == Spec => []BroadcastsToMembers
<1>1. IndexInv => BroadcastsToMembers
  BY DEF IndexInv, BroadcastsToMembers, Member, Told
<1> QED BY <1>1, IndexInit, IndexStep, PTL DEF Spec

-----------------------------------------------------------------------------
(* What message_delivered stands for. The inductive invariant follows the   *)
(* broadcast of a message: who has stayed is registered and indexed, and of *)
(* those the loop has visited all but the one it is suspended on have it.   *)

IsCast(c) == c = [id |-> c.id, kind |-> c.kind, from |-> c.from, k |-> c.k,
                  targets |-> c.targets, visited |-> c.visited, size |-> c.size,
                  to |-> c.to, on |-> c.on, got |-> c.got, stayed |-> c.stayed]

Tracked(c, a, x) == \A w \in c.stayed : w \in x /\ w # c.from /\ a[w] # 0

(* Suspended on a send, and at the head of the loop.                        *)
InFlight(c, a, x) ==
  c.kind = "message" =>
    Tracked(c, a, x) /\ \A w \in c.stayed : w \in c.visited => w \in c.got \/ w = c.to
AtHead(c, a, x) ==
  c.kind = "message" => Tracked(c, a, x) /\ \A w \in c.stayed : w \in c.visited => w \in c.got

AllInFlight(cs, a, x) == \A c \in cs : IsCast(c) /\ InFlight(c, a, x)

AckInv == /\ active \in [Users -> Nat] /\ indexed \subseteq Users /\ members \subseteq Users
          /\ AllInFlight(casts, active, indexed)
          /\ AckMeansDelivered

LEMMA SendToFields ==
  ASSUME NEW c, IsCast(c), NEW r, NEW w
  PROVE  /\ IsCast(SendTo(c, r, w)) /\ SendTo(c, r, w).kind = c.kind
         /\ SendTo(c, r, w).from = c.from /\ SendTo(c, r, w).stayed = c.stayed
         /\ SendTo(c, r, w).got = c.got /\ SendTo(c, r, w).to = w
         /\ SendTo(c, r, w).visited = c.visited \cup {w}
<1> DEFINE c1 == [c EXCEPT !.visited = @ \cup {w}]
           c2 == [c1 EXCEPT !.to = w]
           c3 == [c2 EXCEPT !.on = r.active[w]]
<1>1. SendTo(c, r, w) = c3
  BY DEF SendTo
<1>2. /\ IsCast(c1) /\ c1.kind = c.kind /\ c1.from = c.from /\ c1.stayed = c.stayed
      /\ c1.got = c.got /\ c1.visited = c.visited \cup {w}
  BY DEF IsCast
<1>3. /\ IsCast(c2) /\ c2.kind = c1.kind /\ c2.from = c1.from /\ c2.stayed = c1.stayed
      /\ c2.got = c1.got /\ c2.visited = c1.visited /\ c2.to = w
  <2> HIDE DEF c1
  <2> QED BY <1>2 DEF IsCast
<1>4. /\ IsCast(c3) /\ c3.kind = c2.kind /\ c3.from = c2.from /\ c3.stayed = c2.stayed
      /\ c3.got = c2.got /\ c3.visited = c2.visited /\ c3.to = w
  <2> HIDE DEF c2
  <2> QED BY <1>3 DEF IsCast
<1> HIDE DEF c1, c2, c3
<1> QED BY <1>1, <1>2, <1>3, <1>4

LEMMA NewCastFields ==
  ASSUME NEW kind, NEW u, NEW k, NEW targets
  PROVE  /\ IsCast(NewCast(kind, u, k, targets)) /\ NewCast(kind, u, k, targets).kind = kind
         /\ NewCast(kind, u, k, targets).from = u /\ NewCast(kind, u, k, targets).got = {}
         /\ NewCast(kind, u, k, targets).visited = {}
  BY DEF IsCast, NewCast

LEMMA StayedSet ==
  ASSUME NEW c, IsCast(c), NEW S
  PROVE  LET d == [c EXCEPT !.stayed = S]
         IN  /\ IsCast(d) /\ d.kind = c.kind /\ d.from = c.from /\ d.to = c.to
             /\ d.visited = c.visited /\ d.got = c.got /\ d.stayed = S
  BY DEF IsCast

LEMMA SizeSet ==
  ASSUME NEW c, IsCast(c), NEW S
  PROVE  LET d == [c EXCEPT !.size = S]
         IN  /\ IsCast(d) /\ d.kind = c.kind /\ d.from = c.from /\ d.to = c.to
             /\ d.visited = c.visited /\ d.got = c.got /\ d.stayed = c.stayed
  BY DEF IsCast

LEMMA GotSet ==
  ASSUME NEW c, IsCast(c), NEW S
  PROVE  LET d == [c EXCEPT !.got = S]
         IN  /\ IsCast(d) /\ d.kind = c.kind /\ d.from = c.from /\ d.to = c.to
             /\ d.visited = c.visited /\ d.stayed = c.stayed /\ d.got = S
  BY DEF IsCast

(* One turn of the loop, from its head to the next send or to the end.      *)
LEMMA IterateKeeps ==
  ASSUME NEW c, NEW others, NEW r, IsCast(c), AtHead(c, r.active, r.indexed),
         AllInFlight(others, r.active, r.indexed), AckMeansDelivered, Iterate(c, others, r)
  PROVE  AllInFlight(casts, active, indexed)' /\ AckMeansDelivered'
<1>1. active' = r.active /\ indexed' = r.indexed
  BY IterateRegistry
<1>2. CASE Raised(c, others, r)
  <2>1. casts' = others
    BY <1>2 DEF Raised, Commit
  <2>2. \A e \in log' : e \in log \/ e = [acked |-> FALSE, missed |-> c.stayed \ c.got]
    BY <1>2 DEF Raised, Log
  <2>3. AckMeansDelivered'
    BY <2>2 DEF AckMeansDelivered
  <2> QED BY <1>1, <2>1, <2>3 DEF AllInFlight
<1>3. CASE Targets(c, r) = {} /\ Completed(c, others, r)
  <2> DEFINE sent == SendTo(Ack(c), r, c.from)
  <2>1. \A d \in casts' : d \in others \/ d = sent
    BY <1>3 DEF Completed, Commit
  <2>2. IsCast(sent) /\ sent.kind # "message"
    <3>1. IsCast(Ack(c)) /\ Ack(c).kind = "ack"
      <4> DEFINE n == NewCast("ack", c.from, c.k, {c.from})
      <4>1. IsCast(n) /\ n.kind = "ack"
        BY NewCastFields
      <4> DEFINE n0 == [n EXCEPT !.size = 0]
                 n1 == [n0 EXCEPT !.id = c.id]
      <4>2. Ack(c) = n1
        BY DEF Ack
      <4>3. IsCast(n0) /\ n0.kind = "ack"
        <5> HIDE DEF n
        <5> QED BY <4>1, SizeSet
      <4>4. IsCast(n1) /\ n1.kind = "ack"
        <5> HIDE DEF n0
        <5> QED BY <4>3 DEF IsCast
      <4> HIDE DEF n1
      <4> QED BY <4>2, <4>4
    <3> QED BY <3>1, SendToFields
  <2>3. IsCast(sent) /\ InFlight(sent, active', indexed')
    BY <2>2 DEF InFlight
  <2>4. AllInFlight(casts, active, indexed)'
    <3> HIDE DEF sent
    <3> QED BY <1>1, <2>1, <2>3 DEF AllInFlight
  <2>5. CASE c.kind = "message"
    <3>1. \A w \in c.stayed : w \in c.got
      BY <1>3, <2>5 DEF AtHead, Tracked, Targets, Live
    <3>2. \A e \in log' : e \in log \/ e = [acked |-> TRUE, missed |-> c.stayed \ c.got]
      BY <1>3 DEF Completed, Log
    <3>3. AckMeansDelivered'
      BY <3>1, <3>2 DEF AckMeansDelivered
    <3> QED BY <2>4, <3>3
  <2>6. CASE c.kind # "message"
    <3>1. log' = log
      BY <1>3, <2>6 DEF Completed, Log
    <3> QED BY <2>4, <3>1 DEF AckMeansDelivered
  <2> QED BY <2>5, <2>6
<1>4. ASSUME NEW w \in Targets(c, r), Commit(r, others \cup {SendTo(c, r, w)}), UNCHANGED log
      PROVE  AllInFlight(casts, active, indexed)' /\ AckMeansDelivered'
  <2> DEFINE sent == SendTo(c, r, w)
  <2>1. casts' = others \cup {sent}
    BY <1>4 DEF Commit
  <2>2. /\ IsCast(sent) /\ sent.kind = c.kind /\ sent.from = c.from /\ sent.stayed = c.stayed
        /\ sent.got = c.got /\ sent.to = w /\ sent.visited = c.visited \cup {w}
    BY SendToFields
  <2> HIDE DEF sent
  <2>3. InFlight(sent, r.active, r.indexed)
    BY <2>2 DEF InFlight, AtHead, Tracked
  <2> QED BY <1>1, <1>4, <2>1, <2>2, <2>3 DEF AllInFlight, AckMeansDelivered
<1> QED BY <1>2, <1>3, <1>4 DEF Iterate

(* A broadcast begins, for nobody or for all who are registered by then.    *)
LEMMA BeginKeeps ==
  ASSUME NEW c, NEW others, NEW r, IsCast(c), c.kind = "message" => c.visited = {},
         AllInFlight(others, r.active, r.indexed), AckMeansDelivered, Begin(c, others, r)
  PROVE  AllInFlight(casts, active, indexed)' /\ AckMeansDelivered'
<1> DEFINE c1 == [c EXCEPT !.size = Cardinality(r.indexed)]
           stay == {w \in r.indexed \ {c.from} : r.active[w] # 0}
           c2 == [c1 EXCEPT !.stayed = stay]
<1>1. Iterate(c2, others, r)
  BY DEF Begin
<1>2. /\ IsCast(c1) /\ c1.kind = c.kind /\ c1.from = c.from /\ c1.visited = c.visited
  BY SizeSet
<1>3. /\ IsCast(c2) /\ c2.kind = c1.kind /\ c2.from = c1.from /\ c2.visited = c1.visited
      /\ c2.stayed = stay
  <2> HIDE DEF c1, stay
  <2> QED BY <1>2, StayedSet
<1>4. AtHead(c2, r.active, r.indexed)
  <2> HIDE DEF c1, c2
  <2> QED BY <1>2, <1>3 DEF AtHead, Tracked
<1> HIDE DEF c2
<1> QED BY <1>1, <1>3, <1>4, IterateKeeps

(* Whoever is removed from the index or loses his slot has not stayed.      *)
LEMMA StrikeKeeps ==
  ASSUME NEW c, IsCast(c), NEW u, NEW a, NEW x, InFlight(c, active, indexed),
         \A w \in c.stayed \ {u} : w \in indexed /\ active[w] # 0 => w \in x /\ a[w] # 0
  PROVE  LET d == [c EXCEPT !.stayed = @ \ {u}] IN IsCast(d) /\ InFlight(d, a, x)
<1> DEFINE d == [c EXCEPT !.stayed = c.stayed \ {u}]
<1>1. /\ IsCast(d) /\ d.kind = c.kind /\ d.from = c.from /\ d.to = c.to
      /\ d.visited = c.visited /\ d.got = c.got /\ d.stayed = c.stayed \ {u}
  BY StayedSet
<1> HIDE DEF d
<1>2. InFlight(d, a, x)
  BY <1>1 DEF InFlight, Tracked
<1> QED BY <1>1, <1>2 DEF d

LEMMA BereftKeeps ==
  ASSUME NEW u, NEW cs, active \in [Users -> Nat], indexed \subseteq Users,
         AllInFlight(cs, active, indexed)
  PROVE  AllInFlight(Bereft(u, cs), Disconnected(u).active, Disconnected(u).indexed)
<1> DEFINE a == [active EXCEPT ![u] = 0]
           x == IF u \in listed THEN indexed \ {u} ELSE indexed
<1>1. Disconnected(u).active = a /\ Disconnected(u).indexed = x
  BY DEF Disconnected
<1>2. \A w \in indexed \ {u} : w \in x /\ a[w] = active[w]
  BY SlotSet
<1>3. ASSUME NEW d \in Bereft(u, cs) PROVE IsCast(d) /\ InFlight(d, a, x)
  <2> HIDE DEF a, x
  <2>1. CASE d = NewCast("offline", u, 0, {})
    BY <2>1, NewCastFields DEF InFlight
  <2>2. ASSUME NEW c \in cs, d = [c EXCEPT !.stayed = @ \ {u}]
        PROVE  IsCast(d) /\ InFlight(d, a, x)
    BY <1>2, <2>2, StrikeKeeps DEF AllInFlight
  <2> QED BY <2>1, <2>2 DEF Bereft
<1> HIDE DEF a, x
<1> QED BY <1>1, <1>3 DEF AllInFlight

(* The part of the invariant that is about types.                           *)
AckTypes == active \in [Users -> Nat] /\ indexed \subseteq Users /\ members \subseteq Users

LEMMA AckTypesStep == AckTypes /\ [Next]_vars => AckTypes'
<1> SUFFICES ASSUME AckTypes, RegistryStep PROVE AckTypes'
  BY StepOfRegistry
<1> USE DEF AckTypes
<1>1. CASE Kept /\ UNCHANGED <<listed, members, online, behind>>
  BY <1>1 DEF Kept
<1>2. ASSUME NEW u, DisconnectOf(u), UNCHANGED <<listed, members, online, behind>> PROVE AckTypes'
  BY <1>2, SlotSet DEF DisconnectOf
<1>3. ASSUME NEW u \in Users, NEW k \in Ks(u), Register(u, k) PROVE AckTypes'
  BY <1>3, ConnsAssumption, RegisterRegistry, SlotSet DEF Ks
<1>4. ASSUME NEW u \in Users, RecordOffline(u) PROVE AckTypes'
  BY <1>4 DEF RecordOffline
<1>5. ASSUME NEW u \in Users, RouteStep(u) PROVE AckTypes'
  <2>1. CASE Join(u) \/ AddParticipant(u) \/ DeleteChat(u)
    BY <2>1 DEF Join, AddUserToChat, AddParticipant, DeleteChat, RemoveUserFromChat, registry
  <2>2. CASE RemoveParticipant(u)
    BY <2>2, RemoveParticipantRegistry DEF RemoveParticipant, Kept
  <2> QED BY <1>5, <2>1, <2>2 DEF RouteStep
<1> QED BY <1>1, <1>2, <1>3, <1>4, <1>5 DEF RegistryStep

LEMMA AckInit == Init => AckInv
  BY ConnsAssumption DEF Init, AckInv, AllInFlight, AckMeansDelivered

LEMMA SendEndsKeeps ==
  ASSUME AckInv, NEW c, SendEnds(c)
  PROVE  AllInFlight(casts, active, indexed)' /\ AckMeansDelivered'
<1>1. IsCast(c) /\ InFlight(c, active, indexed)
  BY DEF SendEnds, AckInv, AllInFlight
<1>2. /\ AllInFlight(casts \ {c}, active, indexed) /\ AckMeansDelivered
      /\ Same.active = active /\ Same.indexed = indexed
  BY DEF AckInv, AllInFlight, Same
<1>3. CASE link[c.to][c.on] # "down"
  <2> DEFINE d == [c EXCEPT !.got = c.got \cup {c.to}]
  <2>1. Iterate(d, casts \ {c}, Same)
    BY <1>3 DEF SendEnds
  <2>2. /\ IsCast(d) /\ d.kind = c.kind /\ d.from = c.from /\ d.visited = c.visited
        /\ d.stayed = c.stayed /\ d.got = c.got \cup {c.to}
    BY <1>1, GotSet
  <2> HIDE DEF d
  <2>3. AtHead(d, active, indexed)
    BY <1>1, <2>2 DEF AtHead, InFlight, Tracked
  <2> QED BY <1>2, <2>1, <2>2, <2>3, IterateKeeps
<1>4. CASE link[c.to][c.on] = "down" /\ active[c.to] = 0
  <2>1. AtHead(c, active, indexed)
    BY <1>1, <1>4 DEF AtHead, InFlight, Tracked
  <2>2. Iterate(c, casts \ {c}, Same)
    BY <1>4 DEF SendEnds
  <2> QED BY <1>1, <1>2, <2>1, <2>2, IterateKeeps
<1>5. CASE link[c.to][c.on] = "down" /\ active[c.to] # 0
  <2> DEFINE d == [c EXCEPT !.stayed = c.stayed \ {c.to}]
             r == Disconnected(c.to)
  <2>1. Iterate(d, Bereft(c.to, casts \ {c}), r)
    BY <1>5 DEF SendEnds
  <2>2. AllInFlight(Bereft(c.to, casts \ {c}), r.active, r.indexed)
    BY <1>2, BereftKeeps DEF AckInv
  <2>3. /\ IsCast(d) /\ d.kind = c.kind /\ d.from = c.from /\ d.to = c.to
        /\ d.visited = c.visited /\ d.got = c.got /\ d.stayed = c.stayed \ {c.to}
    BY <1>1, StayedSet
  <2>4. \A w \in indexed \ {c.to} : w \in r.indexed /\ r.active[w] = active[w]
    BY SlotSet DEF Disconnected, AckInv
  <2> HIDE DEF d, r
  <2>5. AtHead(d, r.active, r.indexed)
    BY <1>1, <2>3, <2>4 DEF AtHead, InFlight, Tracked
  <2> QED BY <1>2, <2>1, <2>2, <2>3, <2>5, IterateKeeps
<1> QED BY <1>3, <1>4, <1>5

LEMMA RegisterKeeps ==
  ASSUME AckInv, NEW u \in Users, NEW k \in Ks(u), Register(u, k)
  PROVE  AllInFlight(casts, active, indexed)' /\ AckMeansDelivered'
<1> DEFINE r == Connected(u, k)
           n == NewCast("online", u, k, {})
<1>1. /\ indexed \subseteq r.indexed
      /\ \A w \in indexed : active[w] # 0 => r.active[w] # 0
  BY ConnsAssumption, SlotSet DEF Connected, Ks, AckInv
<1>2. IsCast(n) /\ n.kind = "online"
  BY NewCastFields
<1>3. (Begin(n, casts, r) /\ u \in members) \/ (Commit(r, casts) /\ UNCHANGED log)
  BY DEF Register
<1> HIDE DEF r, n
<1>4. AllInFlight(casts, r.active, r.indexed)
  BY <1>1 DEF AckInv, AllInFlight, InFlight, Tracked
<1>5. CASE Begin(n, casts, r)
  BY <1>2, <1>4, <1>5, BeginKeeps DEF AckInv
<1>6. CASE Commit(r, casts) /\ UNCHANGED log
  BY <1>4, <1>6 DEF AckInv, Commit, AllInFlight, AckMeansDelivered
<1> QED BY <1>3, <1>5, <1>6

LEMMA RouteKeeps ==
  ASSUME AckInv, NEW u \in Users, RouteStep(u)
  PROVE  AllInFlight(casts, active, indexed)' /\ AckMeansDelivered'
<1> USE DEF AckInv
<1>1. CASE Join(u) \/ AddParticipant(u)
  <2>1. /\ UNCHANGED <<active, casts, log>> /\ indexed \subseteq indexed'
    BY <1>1 DEF Join, AddUserToChat, AddParticipant, registry, history
  <2> QED BY <2>1 DEF AllInFlight, InFlight, Tracked, AckMeansDelivered
<1>2. CASE DeleteChat(u)
  <2>1. /\ UNCHANGED <<active, log>> /\ \A w \in indexed \ {u} : w \in indexed'
        /\ casts' = {[c EXCEPT !.stayed = @ \ {u}] : c \in casts}
    BY <1>2 DEF DeleteChat, RemoveUserFromChat, history
  <2>2. ASSUME NEW d \in casts' PROVE IsCast(d) /\ InFlight(d, active, indexed')
    <3>1. PICK c \in casts : d = [c EXCEPT !.stayed = @ \ {u}]
      BY <2>1, <2>2
    <3> QED BY <2>1, <3>1, StrikeKeeps DEF AllInFlight
  <2> QED BY <2>1, <2>2 DEF AllInFlight, AckMeansDelivered
<1>3. CASE RemoveParticipant(u)
  <2> DEFINE n == NewCast("notice", u, 0, members \ {u})
             n0 == [n EXCEPT !.size = 0]
  <2>1. Begin(n0, casts, Same) \/ (Commit(Same, casts) /\ UNCHANGED log)
    BY <1>3 DEF RemoveParticipant
  <2>2. IsCast(n) /\ n.kind = "notice"
    BY NewCastFields
  <2> HIDE DEF n
  <2>3. IsCast(n0) /\ n0.kind = "notice"
    BY <2>2, SizeSet
  <2> HIDE DEF n0
  <2>4. Same.active = active /\ Same.indexed = indexed
    BY DEF Same
  <2> QED BY <2>1, <2>3, <2>4, BeginKeeps DEF Commit, AllInFlight, AckMeansDelivered
<1> QED BY <1>1, <1>2, <1>3 DEF RouteStep

LEMMA SocketKeeps ==
  ASSUME AckInv, NEW u \in Users, NEW k \in Ks(u), SocketStep(u, k)
  PROVE  AllInFlight(casts, active, indexed)' /\ AckMeansDelivered'
<1> USE DEF AckInv
<1>1. CASE Arrive(u, k) \/ ConnectFails(u, k) \/ IdleTimeout(u, k) \/ TokenExpires(u, k)
           \/ LinkChanges(u, k)
  BY <1>1 DEF Arrive, ConnectFails, IdleTimeout, TokenExpires, LinkChanges, registry, history,
              AllInFlight, AckMeansDelivered
<1>2. CASE Message(u, k)
  <2> DEFINE n == NewCast("message", u, k, {})
  <2>1. Begin(n, casts, Same) /\ Same.active = active /\ Same.indexed = indexed
    BY <1>2 DEF Message, Same
  <2>2. IsCast(n) /\ n.visited = {}
    BY NewCastFields
  <2> HIDE DEF n
  <2> QED BY <2>1, <2>2, BeginKeeps
<1>3. CASE HandlerStops(u, k)
  <2>1. UNCHANGED log
    BY <1>3 DEF HandlerStops, history
  <2>2. CASE Commit(Disconnected(u), Bereft(u, casts))
    BY <2>1, <2>2, BereftKeeps DEF Commit, AllInFlight, AckMeansDelivered
  <2>3. CASE Commit(Same, casts)
    BY <2>1, <2>3 DEF Commit, Same, AllInFlight, AckMeansDelivered
  <2> QED BY <1>3, <2>2, <2>3 DEF HandlerStops
<1>4. CASE Register(u, k)
  BY <1>4, RegisterKeeps
<1> QED BY <1>1, <1>2, <1>3, <1>4 DEF SocketStep

LEMMA AckStep == AckInv /\ [Next]_vars => AckInv'
<1> SUFFICES ASSUME AckInv, [Next]_vars
             PROVE  AllInFlight(casts, active, indexed)' /\ AckMeansDelivered'
  BY AckTypesStep DEF AckInv, AckTypes
<1>1. CASE UNCHANGED vars
  BY <1>1 DEF vars, registry, history, AckInv, AllInFlight, AckMeansDelivered
<1>2. ASSUME NEW c \in casts, StartTask(c)
      PROVE  AllInFlight(casts, active, indexed)' /\ AckMeansDelivered'
  <2>1. IsCast(c) /\ c.kind = "offline" /\ Begin(c, casts \ {c}, Same)
    BY <1>2 DEF StartTask, AckInv, AllInFlight
  <2>2. AllInFlight(casts \ {c}, Same.active, Same.indexed) /\ AckMeansDelivered
    BY DEF AckInv, AllInFlight, Same
  <2> QED BY <2>1, <2>2, BeginKeeps
<1>3. ASSUME NEW c \in casts, SendEnds(c)
      PROVE  AllInFlight(casts, active, indexed)' /\ AckMeansDelivered'
  BY <1>3, SendEndsKeeps
<1>4. ASSUME NEW u \in Users, NEW k \in Ks(u), SocketStep(u, k)
      PROVE  AllInFlight(casts, active, indexed)' /\ AckMeansDelivered'
  BY <1>4, SocketKeeps
<1>5. ASSUME NEW u \in Users, RouteStep(u)
      PROVE  AllInFlight(casts, active, indexed)' /\ AckMeansDelivered'
  BY <1>5, RouteKeeps
<1>6. ASSUME NEW u \in Users, RecordOffline(u)
      PROVE  AllInFlight(casts, active, indexed)' /\ AckMeansDelivered'
  BY <1>6 DEF RecordOffline, history, AckInv, AllInFlight, AckMeansDelivered
<1> QED BY <1>1, <1>2, <1>3, <1>4, <1>5, <1>6 DEF Next

(* A sender who is told message_delivered has had the message sent to every *)
(* member who was registered while it went round (chat_manager.py:453-470), *)
(* for every set of users and sockets and whatever routes are used.         *)
THEOREM AcksCorrect == Spec => []AckMeansDelivered
<1>1. AckInv => AckMeansDelivered
  BY DEF AckInv
<1> QED BY <1>1, AckInit, AckStep, PTL DEF Spec
=============================================================================
