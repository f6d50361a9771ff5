---------------------------- MODULE GroupRatchet ----------------------------
(***************************************************************************)
(* A group chat: the group key that the relay keeps sealed for each member *)
(* (routes group-key of server/routes/chat.py, wiped by the routes of      *)
(* server/routes/contacts_groups.py), and the hash chain every client runs *)
(* from it (frontend/src/services/groupE2E.ts), with the calls that the    *)
(* chat page makes of them (hooks/useChatActions.ts, useChatMessages.ts).  *)
(*                                                                         *)
(* A key is a number, a message key the pair of a key and a step: every    *)
(* chain starts from the group key itself, so the two determine it, and    *)
(* what is encrypted under one opens under the same one only. A client has *)
(* several calls in progress: each fetches the key over HTTP and then      *)
(* queues for the lock of the chat.                                        *)
(***************************************************************************)
EXTENDS Integers, FiniteSets, Sequences

CONSTANTS
    Users,
    Creator,       \* who created the group
    Members,       \* those in it to begin with
    Slots,         \* Slots[u]: bound: calls in progress at client u
    MaxSkip,       \* MAX_GROUP_SKIP
    MaxKeys,       \* bound: group keys generated
    MaxMessages,   \* bound: messages sent
    MaxReads,      \* bound: decryptions
    MaxChanges,    \* bound: changes of membership
    None

(* An instance of Slots: the creator has two calls in progress.             *)
BusyCreator == [u \in Users |-> IF u = Creator THEN 2 ELSE 1]

ASSUME GroupAssumption == Creator \in Members /\ Members \subseteq Users /\ IsFiniteSet(Users)
ASSUME BoundAssumption == /\ Slots \in [Users -> Nat]
                          /\ {MaxSkip, MaxKeys, MaxMessages, MaxReads, MaxChanges} \subseteq Nat

(* The copies of a group key on the relay, the state of a client's chain,   *)
(* and a message as far as it is told apart here.                           *)
SealedKey == [key : Nat, by : Users, for : SUBSET Users]
GroupRatchetState == [key : Nat, step : Nat, skipped : SUBSET Nat, used : SUBSET Nat, run : Nat]
Message == [from : Users, key : Nat, step : Nat, run : Nat, without : SUBSET Users]

ASSUME NoneAssumption ==
    None \notin Nat \cup Users \cup SealedKey \cup GroupRatchetState \cup {"send", "read"}

VARIABLES
    members,      \* server: ChatParticipant rows
    group_key,    \* server: Chat.group_key: the key, who sealed it and for whom, or None
    key_creator,  \* server: Chat.group_key_creator_id
    notices,      \* group_key_rotated events on their way
    roster,       \* roster[u]: selectedChat.participants at client u
    ratchet,      \* ratchet[u]: the GroupRatchetState of the chat at client u, or None
    job,          \* job[u][s]: the call in slot s
    queue,        \* queue[u]: _chatLocks: the slots that hold or wait for the lock
    keys,         \* how many group keys have been generated
    messages,     \* the messages, in the order of the relay
    reads, changes,
    removed,      \* history: who was removed or left and has not come back
    held,         \* history: held[u]: the keys client u has made or unwrapped
    restarts      \* history: how often the chain of client u has begun anew

server == <<members, group_key, key_creator>>
client == <<ratchet, job, queue>>
history == <<removed, held, restarts>>
vars == <<server, notices, roster, client, keys, messages, reads, changes, history>>

Idle == [pc |-> "idle", op |-> None, msg |-> None, key |-> None, without |-> {}, state |-> None]

Init ==
    /\ members = Members /\ key_creator \in {Creator, None}
    /\ group_key = IF key_creator = None THEN None   \* initGroupKey failed on creation
                   ELSE [key |-> 1, by |-> Creator, for |-> Members \ {Creator}]
    /\ keys = 1 /\ notices = {} /\ messages = <<>> /\ reads = 0 /\ changes = 0
    /\ roster = [u \in Users |-> Members]
    /\ ratchet = [u \in Users |-> None]
    /\ job = [u \in Users |-> [s \in 1..Slots[u] |-> Idle]]
    /\ queue = [u \in Users |-> <<>>]
    /\ removed = {} /\ restarts = [u \in Users |-> 0]
    /\ held = [u \in Users |-> IF u = Creator THEN {1} ELSE {}]

SetJob(u, s, j) == job' = [job EXCEPT ![u][s] = j]

-----------------------------------------------------------------------------
(* The calls, up to the lock.                                               *)

(* encryptCaption of a group chat.                                          *)
SendStart(u, s) ==
    /\ job[u][s].pc = "idle" /\ Len(messages) < MaxMessages
    /\ SetJob(u, s, [Idle EXCEPT !.pc = "get", !.op = "send"])
    /\ UNCHANGED <<server, notices, roster, ratchet, queue, keys, messages, reads, changes, history>>

(* A message arrives on the socket or in the history, again if it may be.   *)
ReadStart(u, s, m) ==
    /\ job[u][s].pc = "idle" /\ reads < MaxReads
    /\ u \in members /\ messages[m].from # u
    /\ reads' = reads + 1
    /\ SetJob(u, s, [Idle EXCEPT !.pc = "get", !.op = "read", !.msg = m])
    /\ UNCHANGED <<server, notices, roster, ratchet, queue, keys, messages, changes, history>>

(* Mutant: whoever the key is sealed for gets it, member or not.            *)
Sealed_NoParticipantCheck(u) ==
    group_key # None /\ u \in group_key.for /\ key_creator = group_key.by

(* get_group_key has a copy for u, and it opens with the creator's public   *)
(* key.                                                                     *)
Sealed(u) ==
    /\ u \in members
    /\ group_key # None /\ u \in group_key.for /\ key_creator = group_key.by

(* fetchGroupKey returns: the key, if no error has been swallowed. A caller *)
(* that wants to send makes a key when there was none, once.                *)
KeyAnswer(u, s) ==
    LET j == job[u][s]
    IN  /\ j.pc \in {"get", "again"}
        /\ \/ /\ Sealed(u)
              /\ SetJob(u, s, [j EXCEPT !.pc = "lock", !.key = group_key.key, !.without = removed])
              /\ queue' = [queue EXCEPT ![u] = Append(@, s)]
              /\ held' = [held EXCEPT ![u] = @ \cup {group_key.key}]
           \/ /\ SetJob(u, s, IF j.pc = "get" /\ j.op = "send" /\ Cardinality(roster[u]) > 1
                              THEN [j EXCEPT !.pc = "init"] ELSE Idle)
              /\ UNCHANGED <<queue, held>>
        /\ UNCHANGED <<server, notices, roster, ratchet, keys, messages, reads, changes, removed,
                       restarts>>

(* set_group_key refuses all but the creator of a key that is there.        *)
MaySet(u) == u \in members /\ (group_key = None \/ key_creator \in {u, None})

(* initGroupKey: a new key, sealed for the participants the client knows    *)
(* of, and posted; a refusal ends the call.                                 *)
InitGroupKey(u, s) ==
    /\ job[u][s].pc = "init" /\ keys < MaxKeys
    /\ keys' = keys + 1 /\ held' = [held EXCEPT ![u] = @ \cup {keys + 1}]
    /\ IF MaySet(u)
       THEN /\ group_key' = [key |-> keys + 1, by |-> u, for |-> roster[u]]
            /\ key_creator' = IF key_creator = None THEN u ELSE key_creator
            /\ SetJob(u, s, [job[u][s] EXCEPT !.pc = "again"])
       ELSE UNCHANGED <<group_key, key_creator>> /\ SetJob(u, s, Idle)
    /\ UNCHANGED <<members, notices, roster, ratchet, queue, messages, reads, changes, removed,
                   restarts>>

-----------------------------------------------------------------------------
(* Under the lock of the chat. A ratchet state is the key of the chain, its *)
(* step and the skipped steps whose keys are kept; run and used are history *)
(* fields: which restart of the client it stems from, the steps consumed.   *)

Restart(u, key) ==
    [key |-> key, step |-> 0, skipped |-> {}, used |-> {}, run |-> restarts[u] + 1]

Save(u, r) ==
    /\ ratchet' = [ratchet EXCEPT ![u] = r]
    /\ restarts' = IF r = None THEN restarts ELSE [restarts EXCEPT ![u] = r.run]

(* Mutant: a call enters as soon as it is queued.                           *)
MayEnter_NoLock(u, s) == job[u][s].pc = "lock"

(* _withChatLock: first come, first served.                                 *)
MayEnter(u, s) == job[u][s].pc = "lock" /\ Head(queue[u]) = s

(* The state is read; what follows awaits several digests.                  *)
Enter(u, s) ==
    LET j == job[u][s]
    IN  /\ MayEnter(u, s)
        /\ SetJob(u, s, [j EXCEPT !.pc = "body", !.state =
               IF ratchet[u] = None \/ ratchet[u].key # j.key THEN Restart(u, j.key) ELSE ratchet[u]])
        /\ UNCHANGED <<server, notices, roster, ratchet, queue, keys, messages, reads, changes,
                       history>>

Leave(u, s) ==
    /\ SetJob(u, s, Idle)
    /\ queue' = [queue EXCEPT ![u] = Tail(@)]

(* encryptGroupMessageRatcheted, then the message is posted, if its author  *)
(* is a member.                                                             *)
Encrypt(u, s) ==
    LET j == job[u][s]
        r == j.state
    IN  /\ j.pc = "body" /\ j.op = "send"
        /\ Save(u, [r EXCEPT !.step = @ + 1, !.used = @ \cup {r.step}])
        /\ messages' = IF u \in members
                       THEN Append(messages, [from |-> u, key |-> r.key, step |-> r.step,
                                              run |-> r.run, without |-> j.without])
                       ELSE messages
        /\ Leave(u, s)
        /\ UNCHANGED <<server, notices, roster, keys, reads, changes, removed, held>>

(* The history is decrypted in a loop, under the one key fetched before it. *)
NextOfHistory(u, s) ==
    /\ reads < MaxReads /\ reads' = reads + 1
    /\ \E m \in (job[u][s].msg + 1)..Len(messages) :
         /\ messages[m].from # u
         /\ SetJob(u, s, [job[u][s] EXCEPT !.pc = "lock", !.msg = m, !.state = None])
    /\ queue' = [queue EXCEPT ![u] = Append(Tail(@), s)]

(* The steps a message at step n jumps over.                                *)
Passed(r, n) == r.step..(n - 1)

(* The state after a message at step n, opened or not: the chain is past    *)
(* it, and the oldest skipped keys go.                                      *)
Advanced(r, n) ==
    [r EXCEPT !.step = n + 1, !.used = @ \cup {n},
              !.skipped = {k \in @ \cup Passed(r, n) : k >= n + 1 - MaxSkip}]

(* decryptGroupMessageRatcheted: a skipped key, the next key or one ahead;  *)
(* nothing else is saved.                                                   *)
Decrypt(u, s) ==
    LET j == job[u][s]
        r == j.state
        m == messages[j.msg]
        new == IF m.step \in r.skipped
               THEN IF m.key = r.key
                    THEN [r EXCEPT !.skipped = @ \ {m.step}, !.used = @ \cup {m.step}]
                    ELSE ratchet[u]
               ELSE IF m.step >= r.step /\ m.step - r.step <= MaxSkip
                    THEN Advanced(r, m.step)
                    ELSE ratchet[u]
    IN  /\ j.pc = "body" /\ j.op = "read"
        /\ Save(u, new)
        /\ \/ Leave(u, s) /\ UNCHANGED reads
           \/ NextOfHistory(u, s)
        /\ UNCHANGED <<server, notices, roster, keys, messages, changes, removed, held>>

-----------------------------------------------------------------------------
(* Events and routes.                                                       *)

(* group_key_rotated: clearGroupRatchet, which does not take the lock.      *)
Rotated(u) ==
    /\ u \in notices
    /\ notices' = notices \ {u}
    /\ ratchet' = [ratchet EXCEPT ![u] = None]
    /\ UNCHANGED <<server, roster, job, queue, keys, messages, reads, changes, history>>

(* The chat is opened from a list that has been loaded again.               *)
OpenChat(u) ==
    /\ u \in members /\ roster[u] # members
    /\ roster' = [roster EXCEPT ![u] = members]
    /\ UNCHANGED <<server, notices, client, keys, messages, reads, changes, history>>

Change == changes < MaxChanges /\ changes' = changes + 1
Wipe == group_key' = None /\ key_creator' = None

(* history: who comes back may be given what was written without him.       *)
ComesBack(u) ==
    /\ removed' = removed \ {u}
    /\ messages' = [m \in DOMAIN messages |-> [messages[m] EXCEPT !.without = @ \ {u}]]
    /\ job' = [v \in Users |-> [s \in 1..Slots[v] |-> [job[v][s] EXCEPT !.without = @ \ {u}]]]

AddParticipant(u) ==
    /\ Change /\ u \notin members /\ members # {}   \* an admin calls it
    /\ members' = members \cup {u}
    /\ Wipe /\ ComesBack(u)
    /\ UNCHANGED <<notices, roster, ratchet, queue, keys, reads, held, restarts>>

(* accept_group_invite leaves the key alone.                                *)
AcceptInvite(u) ==
    /\ Change /\ u \notin members
    /\ members' = members \cup {u}
    /\ ComesBack(u)
    /\ UNCHANGED <<group_key, key_creator, notices, roster, ratchet, queue, keys, reads, held, restarts>>

(* remove_participant and leave_group; those who remain are told, if they   *)
(* are online and nobody removed himself.                                   *)
RemoveParticipant(u) ==
    /\ Change /\ u \in members
    /\ members' = members \ {u}
    /\ Wipe
    /\ \E told \in SUBSET (members \ {u}) : notices' = notices \cup told
    /\ removed' = removed \cup {u}
    /\ UNCHANGED <<roster, client, keys, messages, reads, held, restarts>>

(* delete_chat leaves the key alone.                                        *)
DeleteChat(u) ==
    /\ Change /\ u \in members
    /\ members' = members \ {u}
    /\ UNCHANGED <<group_key, key_creator, notices, roster, client, keys, messages, reads, history>>

-----------------------------------------------------------------------------
CallStep(u, s) ==
    \/ SendStart(u, s) \/ (\E m \in DOMAIN messages : ReadStart(u, s, m))
    \/ KeyAnswer(u, s) \/ InitGroupKey(u, s)
    \/ Enter(u, s) \/ Encrypt(u, s) \/ Decrypt(u, s)

UserStep(u) ==
    \/ Rotated(u) \/ OpenChat(u)
    \/ AddParticipant(u) \/ AcceptInvite(u) \/ RemoveParticipant(u) \/ DeleteChat(u)

Next == \E u \in Users : UserStep(u) \/ \E s \in 1..Slots[u] : CallStep(u, s)

Spec == Init /\ [][Next]_vars

-----------------------------------------------------------------------------
(* Properties.                                                              *)

(* Every variable keeps its type; the lock queue holds the calls that are   *)
(* in it, once each (groupE2E.ts).                                          *)
TypeOK ==
    /\ members \subseteq Users /\ notices \subseteq Users /\ removed \subseteq Users
    /\ group_key # None => /\ group_key.key \in 1..keys /\ group_key.by \in Users
                           /\ group_key.for \subseteq Users
    /\ key_creator \in Users \cup {None}
    /\ \A u \in Users :
         /\ roster[u] \subseteq Users /\ held[u] \subseteq 1..keys
         /\ restarts[u] \in Nat
         /\ ratchet[u] # None => /\ ratchet[u].key \in held[u] /\ ratchet[u].step \in Nat
                                 /\ ratchet[u].skipped \subseteq Nat
         /\ \A s \in 1..Slots[u] :
              /\ job[u][s].pc \in {"idle", "get", "init", "again", "lock", "body"}
              /\ job[u][s].pc \in {"lock", "body"} <=> \E i \in DOMAIN queue[u] : queue[u][i] = s
         /\ \A i, k \in DOMAIN queue[u] : queue[u][i] = queue[u][k] => i = k

(* The lock makes a client draw every step of its chain once, whatever the  *)
(* order in which its calls get the key, read and write: between two        *)
(* restarts no two of its messages share a message key (comment at          *)
(* groupE2E.ts:271-272).                                                    *)
OwnStepsFresh ==
    \A i, k \in DOMAIN messages :
        /\ i # k /\ messages[i].from = messages[k].from /\ messages[i].run = messages[k].run
        => messages[i].step # messages[k].step

(* No step of a chain is lost: one that the chain is past has been used, or *)
(* its key is kept, or it is older than the window; no key is kept that was *)
(* used, and no more than the window holds (groupE2E.ts:359-400).           *)
StepsAccounted ==
    \A u \in Users : ratchet[u] # None =>
        LET r == ratchet[u]
        IN  /\ \A n \in 0..(r.step - 1) : n \in r.used \cup r.skipped \/ n < r.step - MaxSkip
            /\ r.used \cap r.skipped = {}
            /\ Cardinality(r.skipped) <= MaxSkip

(* The creator the relay names is the one whose public key opens the        *)
(* copies, whoever posts keys at the same time (chat.py:1239-1249).         *)
KeyNamesItsCreator == group_key # None => key_creator = group_key.by

(* Who was removed or left the group and has not come back cannot read what *)
(* is written by anybody who has fetched the key since                      *)
(* (docs/E2E_AND_TRANSPORT.md:81-86).                                       *)
RemovedCannotRead ==
    \A i \in DOMAIN messages : \A u \in messages[i].without : messages[i].key \notin held[u]

(* A client never uses a step twice, nor skips one unaccounted for          *)
(* (groupE2E.ts:271-330).                                                   *)
StepsHold == OwnStepsFresh /\ StepsAccounted

(* The stored key opens with its creator's public key, and who is out of    *)
(* the group has no key fetched since (chat.py, the group-key routes).      *)
KeyHolds == KeyNamesItsCreator /\ RemovedCannotRead

(* Every message has a message key of its own (docs/E2E_AND_TRANSPORT.md:73). *)
EveryMessageOwnKey ==
    \A i, k \in DOMAIN messages :
        i # k => <<messages[i].key, messages[i].step>> # <<messages[k].key, messages[k].step>>
=============================================================================
