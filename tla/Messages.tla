------------------------------ MODULE Messages ------------------------------
(***************************************************************************)
(* The message rows of one chat of a deaf relay (RELAY_DEAF, the default): *)
(* server/routes/chat.py, the message handlers of ws/chat_manager.py, the  *)
(* background loop of core/background_tasks.py and the ephemeral job of    *)
(* utils/file_cleanup.py.                                                  *)
(*                                                                         *)
(* Handlers run on one event loop and block it while they use the          *)
(* database, so a handler is one step except where it commits twice. The   *)
(* history route is a plain def and runs in a thread. The loop awaits a    *)
(* broadcast for each row and commits after the last one. Time is four     *)
(* marks on a row that may each pass at any moment.                        *)
(***************************************************************************)
EXTENDS Naturals, FiniteSets

CONSTANTS
    Users,
    Ids,            \* the messages that may be sent
    Members,        \* those in the chat to begin with
    MaxChanges,     \* bound: changes of membership
    MaxFails,       \* bound: ticks of the loop that fail, restarts
    None

ASSUME ChatAssumption == Members \subseteq Users
ASSUME NoneAssumption == None \notin Users \cup Ids

VARIABLES
    rows,       \* rows[m]: the Message row of m and its MessageReadStatus rows
    members,    \* ChatParticipant rows of the chat
    sending,    \* the message a handler is between its two commits of, or None
    fetch,      \* the history request in progress, or None
    job,        \* the tick of the background loop
    said,       \* history: said[m]: new_message events of the loop
    doubt,      \* history: messages stamped delivered by other than their reader
    changes, fails

vars == <<rows, members, sending, fetch, job, said, doubt, changes, fails>>

(* any: there are statuses; unread: whose is unread. since and served are   *)
(* history: who has been in the chat ever since the message was sent, and   *)
(* who has read it or got it from the history route.                        *)
NoRow == [state |-> "none", author |-> None, once |-> FALSE, viewer |-> None,
          ttl |-> "never", due |-> "no", got |-> "no", age |-> "young",
          any |-> FALSE, unread |-> {}, since |-> {}, served |-> {}]
Resting == [step |-> "rest", todo |-> {}, done |-> {}]

Init ==
    /\ rows = [m \in Ids |-> NoRow]
    /\ members = Members
    /\ sending = None /\ fetch = None /\ job = Resting
    /\ said = [m \in Ids |-> 0]
    /\ doubt = {} /\ changes = 0 /\ fails = 0

Exists(m) == rows[m].state \in {"half", "kept", "withdrawn"}
Shown(m) == rows[m].state \in {"half", "kept"}      \* ~is_deleted
LoopFree == sending = None

-----------------------------------------------------------------------------
(* Handlers. A message is stored in two commits: the row, then an unread    *)
(* status for every other participant. "half" is a row without them.        *)

Store(u, m, once, ttl, due) ==
    /\ LoopFree /\ u \in members /\ rows[m].state = "none"
    /\ rows' = [rows EXCEPT ![m] = [NoRow EXCEPT !.state = "half", !.author = u,
                    !.once = once, !.ttl = ttl, !.due = due, !.since = members]]
    /\ sending' = m
    /\ UNCHANGED <<members, fetch, job, said, doubt, changes, fails>>

(* The inputs: a message has at most one of the flags the route takes.      *)
SendMessage(u, m) ==
    \/ \E once \in BOOLEAN : Store(u, m, once, "never", "no")
    \/ Store(u, m, FALSE, "running", "no")
    \/ Store(u, m, FALSE, "never", "later")
SendEphemeral(u, m) == Store(u, m, FALSE, "running", "no")
(* The socket's handler drops the flags and times the frame may carry.      *)
NewMessage(u, m) == Store(u, m, FALSE, "never", "no")

Statuses ==
    /\ sending # None
    /\ LET others == members \ {rows[sending].author}
       IN rows' = [rows EXCEPT ![sending].state = "kept", ![sending].any = others # {},
                               ![sending].unread = others]
    /\ sending' = None
    /\ UNCHANGED <<members, fetch, job, said, doubt, changes, fails>>

(* The second commit raises: 500 for the sender, the row stays.             *)
StatusesFail ==
    /\ sending # None /\ sending' = None
    /\ UNCHANGED <<rows, members, fetch, job, said, doubt, changes, fails>>

(* u's status of each of ms becomes read, and is made if there was none.    *)
Read(u, ms) ==
    rows' = [m \in Ids |->
                IF m \in ms
                THEN [rows[m] EXCEPT !.any = TRUE, !.unread = @ \ {u}, !.served = @ \cup {u}]
                ELSE rows[m]]

(* Nothing looks at the statuses of a withdrawn row: they are left out.     *)
MarkRead(u, m) ==
    /\ LoopFree /\ u \in members /\ Shown(m)
    /\ Read(u, {m})
    /\ UNCHANGED <<members, sending, fetch, job, said, doubt, changes, fails>>

(* The receipt of a socket: the same row, then the others are told.         *)
ReadReceipt(u, m) == MarkRead(u, m)

MarkChatRead(u) ==
    /\ LoopFree /\ u \in members
    /\ Read(u, {m \in Ids : Shown(m) /\ u \in rows[m].unread})
    /\ UNCHANGED <<members, sending, fetch, job, said, doubt, changes, fails>>

Withdrawn(ms) ==
    [m \in Ids |->
        IF m \in ms /\ Exists(m)
        THEN [NoRow EXCEPT !.state = "withdrawn", !.author = rows[m].author,
                           !.once = rows[m].once, !.viewer = rows[m].viewer]
        ELSE rows[m]]

(* The route asks only for the author, the socket for a participant too.    *)
DeleteMessage(u, m) ==
    /\ LoopFree /\ Exists(m) /\ rows[m].author = u
    /\ rows' = Withdrawn({m})
    /\ UNCHANGED <<members, sending, fetch, job, said, doubt, changes, fails>>
DeleteFrame(u, m) == u \in members /\ DeleteMessage(u, m)

(* Gives the content once, to one who is not the author; a withdrawn        *)
(* message can still be opened.                                             *)
MarkViewed(u, m) ==
    /\ LoopFree /\ u \in members /\ Exists(m) /\ rows[m].once
    /\ rows[m].author # u /\ rows[m].viewer = None
    /\ rows' = [Withdrawn({m}) EXCEPT ![m].viewer = u]
    /\ UNCHANGED <<members, sending, fetch, job, said, doubt, changes, fails>>

-----------------------------------------------------------------------------
(* The history route, in a thread: it reads a page of what is shown, then   *)
(* counts the participants and stamps what it read of others.               *)

FetchHistory(u) ==
    /\ fetch = None /\ u \in members
    /\ \E page \in SUBSET {m \in Ids : Shown(m) /\ rows[m].ttl # "past"} \ {{}} :
          fetch' = [by |-> u, page |-> page,
                    new |-> {m \in page : rows[m].author # u /\ rows[m].got = "no"}]
    /\ UNCHANGED <<rows, members, sending, job, said, doubt, changes, fails>>

Pair == Cardinality(members) = 2

StampDelivered ==
    /\ fetch # None
    /\ LET seen == [m \in Ids |-> IF m \in fetch.page /\ Shown(m) THEN [rows[m] EXCEPT !.served = @ \cup {fetch.by}]
                                                      ELSE rows[m]]
           stamped == IF Pair THEN {m \in fetch.new : Shown(m)} ELSE {}
       IN /\ rows' = [m \in Ids |-> IF m \in stamped THEN [seen[m] EXCEPT !.got = "fresh"] ELSE seen[m]]
          /\ doubt' = doubt \cup {m \in stamped : /\ Cardinality(members) = 2
                                                  /\ members # {rows[m].author, fetch.by}}
    /\ fetch' = None
    /\ UNCHANGED <<members, sending, job, said, changes, fails>>

-----------------------------------------------------------------------------
(* Participants: the rows of add_participant, accept_group_invite and       *)
(* create_chat, and those leave_group, remove_participant, delete_chat take.*)

Join(u) ==
    /\ LoopFree /\ u \notin members /\ changes < MaxChanges
    /\ members' = members \cup {u} /\ changes' = changes + 1
    /\ UNCHANGED <<rows, sending, fetch, job, said, doubt, fails>>

Leave(u) ==
    /\ LoopFree /\ u \in members /\ changes < MaxChanges
    /\ members' = members \ {u} /\ changes' = changes + 1
    /\ rows' = [m \in Ids |-> [rows[m] EXCEPT !.since = @ \ {u}]]
    /\ UNCHANGED <<sending, fetch, job, said, doubt, fails>>

-----------------------------------------------------------------------------
(* The background loop: expired, scheduled, purge. Where a query is empty   *)
(* nothing is awaited and the loop is at the next one in the same step.     *)

Late(m) == members \ rows[m].since      \* joined_at > created_at

(* Mutant: those who joined later do not count.                             *)
AllRead_Early(m) ==
    /\ rows[m].any /\ rows[m].unread = {}
    /\ ~rows[m].once \/ rows[m].viewer # None

AllRead(m) ==
    /\ rows[m].any /\ rows[m].unread = {}
    /\ Late(m) = {}
    /\ ~rows[m].once \/ rows[m].viewer # None

(* Mutant: the age is not looked at.                                        *)
Doomed_NoRetention(m, rs) ==
    /\ rs[m].state \in {"half", "kept"} /\ rs[m].due = "no"
    /\ rs[m].got = "past" \/ AllRead(m)

Doomed(m, rs) ==
    /\ rs[m].state \in {"half", "kept"} /\ rs[m].due = "no"
    /\ rs[m].got = "past" \/ rs[m].age = "old" \/ AllRead(m)

(* _deaf_relay_purge deletes the row; its statuses go with it.              *)
Purge(rs) == [m \in Ids |-> IF Doomed(m, rs) THEN [NoRow EXCEPT !.state = "purged"] ELSE rs[m]]

AtScheduled(rs) ==
    LET due == {m \in Ids : rs[m].due = "now" /\ rs[m].state \in {"half", "kept"}}
    IN IF due = {} THEN rows' = Purge(rs) /\ job' = Resting
       ELSE rows' = rs /\ job' = [step |-> "scheduled", todo |-> due, done |-> {}]

Expired == {m \in Ids : Shown(m) /\ rows[m].ttl = "past"}

StartTick ==
    /\ LoopFree /\ job = Resting
    /\ IF Expired = {} THEN AtScheduled(rows)
       ELSE job' = [step |-> "expired", todo |-> Expired, done |-> {}] /\ UNCHANGED rows
    /\ UNCHANGED <<members, sending, fetch, said, doubt, changes, fails>>

(* The broadcast of one row. Nothing is written before the commit.          *)
Announce(m) ==
    /\ LoopFree /\ m \in job.todo
    /\ job' = [job EXCEPT !.todo = @ \ {m}, !.done = @ \cup {m}]
    /\ said' = IF job.step = "scheduled" THEN [said EXCEPT ![m] = @ + 1] ELSE said
    /\ UNCHANGED <<rows, members, sending, fetch, doubt, changes, fails>>

(* Mutant: scheduled_at is kept.                                            *)
Sent_Again(ms) == rows
Sent(ms) == [m \in Ids |-> IF m \in ms THEN [rows[m] EXCEPT !.due = "no"] ELSE rows[m]]

CommitTick ==
    /\ LoopFree /\ job.step # "rest" /\ job.todo = {}
    /\ IF job.step = "expired" THEN AtScheduled(Withdrawn(job.done))
       ELSE rows' = Purge(Sent(job.done)) /\ job' = Resting
    /\ UNCHANGED <<members, sending, fetch, said, doubt, changes, fails>>

(* A broadcast raises: nothing is committed, and the loop goes on.          *)
TickFails ==
    /\ LoopFree /\ job.step # "rest" /\ fails < MaxFails
    /\ fails' = fails + 1
    /\ IF job.step = "expired" THEN AtScheduled(rows)
       ELSE rows' = Purge(rows) /\ job' = Resting
    /\ UNCHANGED <<members, sending, fetch, said, doubt, changes>>

(* The ephemeral job does the same work without a broadcast.                *)
CleanupEphemeral ==
    /\ LoopFree /\ Expired # {}
    /\ rows' = Withdrawn(Expired)
    /\ UNCHANGED <<members, sending, fetch, job, said, doubt, changes, fails>>

(* The server stops and starts: only the rows are left.                     *)
Restart ==
    /\ fails < MaxFails /\ fails' = fails + 1
    /\ sending' = None /\ fetch' = None /\ job' = Resting
    /\ UNCHANGED <<rows, members, said, doubt, changes>>

(* Time: the retention, the grace after a fetch, expires_at, scheduled_at.  *)
GrowOld(m) ==
    /\ Shown(m) /\ rows[m].age = "young"
    /\ rows' = [rows EXCEPT ![m].age = "old"]
    /\ UNCHANGED <<members, sending, fetch, job, said, doubt, changes, fails>>
GraceEnds(m) ==
    /\ Shown(m) /\ rows[m].got = "fresh"
    /\ rows' = [rows EXCEPT ![m].got = "past"]
    /\ UNCHANGED <<members, sending, fetch, job, said, doubt, changes, fails>>
Expires(m) ==
    /\ Shown(m) /\ rows[m].ttl = "running"
    /\ rows' = [rows EXCEPT ![m].ttl = "past"]
    /\ UNCHANGED <<members, sending, fetch, job, said, doubt, changes, fails>>
FallsDue(m) ==
    /\ Shown(m) /\ rows[m].due = "later"
    /\ rows' = [rows EXCEPT ![m].due = "now"]
    /\ UNCHANGED <<members, sending, fetch, job, said, doubt, changes, fails>>

-----------------------------------------------------------------------------
UserStep(u) ==
    \/ Join(u) \/ Leave(u) \/ FetchHistory(u) \/ MarkChatRead(u)
    \/ \E m \in Ids : \/ SendMessage(u, m) \/ SendEphemeral(u, m) \/ NewMessage(u, m)
                      \/ MarkRead(u, m) \/ ReadReceipt(u, m) \/ MarkViewed(u, m)
                      \/ DeleteMessage(u, m) \/ DeleteFrame(u, m)

LoopStep == StartTick \/ CommitTick \/ TickFails \/ \E m \in Ids : Announce(m)
TimeStep(m) == GrowOld(m) \/ GraceEnds(m) \/ Expires(m) \/ FallsDue(m)

Next ==
    \/ \E u \in Users : UserStep(u)
    \/ Statuses \/ StatusesFail \/ StampDelivered
    \/ LoopStep \/ CleanupEphemeral \/ Restart
    \/ \E m \in Ids : TimeStep(m)

Spec == Init /\ [][Next]_vars

(* The handlers return, the loop ticks (every BACKGROUND_LOOP_SECONDS, and  *)
(* its steps are never blocked for good), and time passes.                  *)
FairSpec ==
    /\ Spec
    /\ WF_vars(Statuses \/ StatusesFail)
    /\ WF_vars(LoopStep)
    /\ \A m \in Ids : WF_vars(GrowOld(m)) /\ WF_vars(FallsDue(m))

-----------------------------------------------------------------------------
(* Properties.                                                              *)

(* A row, its MessageReadStatus rows and the history of it (models.py).     *)
MessageRow ==
    [state : {"none", "half", "kept", "withdrawn", "purged"},
     author : Users \cup {None}, viewer : Users \cup {None}, once : BOOLEAN,
     ttl : {"never", "running", "past"}, due : {"no", "later", "now"},
     got : {"no", "fresh", "past"}, age : {"young", "old"}, any : BOOLEAN,
     unread : SUBSET Users, since : SUBSET Users, served : SUBSET Users]

(* Every variable keeps its type, and a handler between its two commits has *)
(* stored a row without statuses (models.py, Message, MessageReadStatus).   *)
TypeOK ==
    /\ rows \in [Ids -> MessageRow]
    /\ members \subseteq Users /\ doubt \subseteq Ids
    /\ sending \in Ids \cup {None}
    /\ sending \in Ids => rows[sending].state = "half"
    /\ fetch = None \/ fetch \in [by : Users, page : SUBSET Ids, new : SUBSET Ids]
    /\ job \in [step : {"rest", "expired", "scheduled"}, todo : SUBSET Ids, done : SUBSET Ids]
    /\ said \in [Ids -> Nat] /\ changes \in Nat /\ fails \in Nat

(* Whom the relay owes message m: the members who have neither read nor     *)
(* fetched it; once it is stamped, those who were there all along.          *)
Owed(m) ==
    IF Shown(m)
    THEN (IF rows[m].got = "no" THEN members ELSE rows[m].since)
            \ ({rows[m].author} \cup rows[m].served)
    ELSE {}

(* Released: older than the retention, withdrawn, left without statuses, or *)
(* stamped by a fetch that was not the other participant's.                 *)
Released(m) ==
    \/ rows[m].state \in {"withdrawn", "purged"}
    \/ rows[m].state = "half" /\ sending # m
    \/ Exists(m) /\ (rows[m].age = "old" \/ m \in doubt)

MailPhase(m) ==
    CASE rows[m].state = "none" -> "new" [] rows[m].state = "purged" -> "gone" [] OTHER -> "held"

Promise == INSTANCE Mailbox WITH
    phase <- [m \in Ids |-> MailPhase(m)],
    owed <- [m \in Ids |-> Owed(m)],
    free <- {m \in Ids : Released(m)}

(* The relay keeps the promise of Mailbox: whatever the order of reads,     *)
(* fetches, joins and purges, a row goes before its retention only when     *)
(* nobody is owed it (docstring at background_tasks.py:91-107).             *)
PromiseKept == Promise!Spec

(* The loop announces a scheduled message once, and once more at most for   *)
(* each tick that failed or was cut off (background_tasks.py:54-87).        *)
AnnouncedOnce == \A m \in Ids : said[m] <= 1 + fails

(* Nothing stays that is not withdrawn: every row is purged some day        *)
(* (docstring at background_tasks.py:101).                                  *)
EveryRowLeaves ==
    \A m \in Ids : Shown(m) ~> ~Shown(m)

(* A view-once message nobody has opened is not purged before it is older   *)
(* than the retention (docstring at background_tasks.py:102-103).           *)
UnseenIsKept ==
    [][\A m \in Ids : rows'[m].state = "purged" /\ rows[m].once =>
            rows[m].viewer # None \/ rows[m].age = "old"]_vars
=============================================================================
