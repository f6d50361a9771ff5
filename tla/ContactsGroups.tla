---------------------------- MODULE ContactsGroups ----------------------------
(***************************************************************************)
(* Contacts, contact requests and blocks: the contact routes of            *)
(* server/routes/contacts_groups.py, server/routes/contact_requests.py and *)
(* the block routes of chat.py. Every handler commits once, without an     *)
(* await before it. No constraint of the database forbids a second row, so *)
(* contacts and blocks are counted.                                        *)
(*                                                                         *)
(* Who is in a group: the invitations and the group management of          *)
(* contacts_groups.py, delete_chat and the group key routes of chat.py.    *)
(* accept_group_invite commits twice; nothing is awaited in between, so    *)
(* only a failure comes between the two. No route asks for the contacts of *)
(* who is invited: the two halves share no rows.                           *)
(***************************************************************************)
EXTENDS Naturals

CONSTANTS
    Users,
    Founder,        \* who made the group: its first admin
    MaxInvites,     \* bound: invitations sent
    None

VARIABLES
    contacts,   \* contacts[u][v]: rows of u for v
    requests,   \* <<u, v>>: u's pending request to v
    blocks,     \* blocks[u][v]: rows of u against v
    wanted,     \* history: <<u, v>> that u added, asked for or accepted
    participants, admins,    \* ChatParticipant rows, those with is_admin
    invitees,           \* the users with a pending invitation
    accepting,          \* the user between the two commits of an acceptance
    key_creator,        \* group_key_creator_id while there is a group_key, or None
    invited, entered,   \* history: invitations sent to each, entries by one
    holders,            \* history: the key was sealed for them, and they left since
    deleters            \* history: the holders who left by delete_chat

contactVars == <<contacts, requests, blocks, wanted>>
groupVars == <<participants, admins, invitees, accepting, key_creator, invited, entered, holders, deleters>>

-----------------------------------------------------------------------------
(* Contacts.                                                                *)

None0 == [u \in Users |-> [v \in Users |-> 0]]

ContactInit ==
    /\ contacts = None0 /\ blocks = None0
    /\ requests = {} /\ wanted = {}

AddContact(u, v) ==
    /\ u # v /\ contacts[u][v] = 0
    /\ contacts' = [contacts EXCEPT ![u][v] = 1]
    /\ wanted' = wanted \cup {<<u, v>>}
    /\ UNCHANGED <<requests, blocks>>

RemoveContact(u, v) ==
    /\ contacts[u][v] > 0
    /\ contacts' = [contacts EXCEPT ![u][v] = @ - 1]
    /\ UNCHANGED <<requests, blocks, wanted>>

SendRequest(u, v) ==
    /\ u # v /\ <<u, v>> \notin requests
    /\ requests' = requests \cup {<<u, v>>}
    /\ wanted' = wanted \cup {<<u, v>>}
    /\ UNCHANGED <<contacts, blocks>>

(* The row each way, if it is not there.                                    *)
Befriended(u, v) ==
    [contacts EXCEPT ![u][v] = IF @ = 0 THEN 1 ELSE @, ![v][u] = IF @ = 0 THEN 1 ELSE @]

MayAnswer(u, v) == <<v, u>> \in requests

Answered(u, v) == requests' = requests \ {<<v, u>>}

AcceptRequest(u, v) ==
    /\ MayAnswer(u, v) /\ Answered(u, v)
    /\ contacts' = Befriended(u, v)
    /\ wanted' = wanted \cup (IF <<v, u>> \in requests THEN {<<u, v>>} ELSE {})
    /\ UNCHANGED blocks

RejectRequest(u, v) ==
    /\ MayAnswer(u, v) /\ Answered(u, v)
    /\ UNCHANGED <<contacts, blocks, wanted>>

Block(u, v) ==
    /\ u # v /\ blocks[u][v] = 0
    /\ blocks' = [blocks EXCEPT ![u][v] = 1]
    /\ UNCHANGED <<contacts, requests, wanted>>

Unblock(u, v) ==
    /\ blocks[u][v] > 0
    /\ blocks' = [blocks EXCEPT ![u][v] = @ - 1]
    /\ UNCHANGED <<contacts, requests, wanted>>

ContactNext == \E u, v \in Users :
    \/ AddContact(u, v) \/ RemoveContact(u, v) \/ SendRequest(u, v)
    \/ AcceptRequest(u, v) \/ RejectRequest(u, v) \/ Block(u, v) \/ Unblock(u, v)

-----------------------------------------------------------------------------
(* Groups.                                                                  *)

history == <<invited, entered>>

GroupInit ==
    /\ participants = {Founder} /\ admins = {Founder}
    /\ invitees = {} /\ accepting = None /\ key_creator = None
    /\ invited = [u \in Users |-> 0] /\ entered = [u \in Users |-> 0]
    /\ holders = {} /\ deleters = {}

Free == accepting = None

(* group_key and group_key_creator_id are set to NULL.                      *)
WipeKey == key_creator' = None /\ holders' = {} /\ deleters' = {}
KeepKey == UNCHANGED <<key_creator, holders, deleters>>

InviteToGroup(u, v) ==
    /\ Free /\ u \in participants /\ v \notin participants /\ v \notin invitees
    /\ invited[v] < MaxInvites
    /\ invitees' = invitees \cup {v}
    /\ invited' = [invited EXCEPT ![v] = @ + 1]
    /\ KeepKey /\ UNCHANGED <<participants, admins, accepting, entered>>

(* Mutant: the status stays pending.                                        *)
AcceptInvite_Pending(u) ==
    /\ Free /\ u \in invitees
    /\ accepting' = u
    /\ KeepKey /\ UNCHANGED <<participants, admins, invitees, history>>

AcceptInvite(u) ==
    /\ Free /\ u \in invitees
    /\ invitees' = invitees \ {u} /\ accepting' = u
    /\ KeepKey /\ UNCHANGED <<participants, admins, history>>

(* The row, unless he has become a participant since he was invited; the    *)
(* group key is not wiped.                                                  *)
EnterByInvite ==
    /\ ~Free
    /\ participants' = participants \cup {accepting}
    /\ entered' = IF accepting \in participants THEN entered ELSE [entered EXCEPT ![accepting] = @ + 1]
    /\ accepting' = None
    /\ KeepKey /\ UNCHANGED <<admins, invitees, invited>>

(* The second commit fails: the invitation is spent.                        *)
EnterFails ==
    /\ ~Free /\ accepting' = None
    /\ KeepKey /\ UNCHANGED <<participants, admins, invitees, history>>

DeclineInvite(u) ==
    /\ Free /\ u \in invitees /\ invitees' = invitees \ {u}
    /\ KeepKey /\ UNCHANGED <<participants, admins, accepting, history>>

AddParticipant(u, v) ==
    /\ Free /\ u \in admins /\ v \notin participants
    /\ participants' = participants \cup {v}
    /\ WipeKey /\ UNCHANGED <<admins, invitees, accepting, history>>

Gone(v) == participants' = participants \ {v} /\ admins' = admins \ {v}

(* By an admin, or by oneself.                                              *)
RemoveParticipant(u, v) ==
    /\ Free /\ v \in participants
    /\ u \in admins \/ u = v
    /\ Gone(v) /\ WipeKey
    /\ UNCHANGED <<invitees, accepting, history>>

LeaveGroup(u) ==
    /\ Free /\ u \in participants
    /\ Gone(u) /\ WipeKey
    /\ UNCHANGED <<invitees, accepting, history>>

(* delete_chat takes the row and leaves the key.                            *)
DeleteChat(u) ==
    /\ Free /\ u \in participants
    /\ Gone(u)
    /\ holders' = IF key_creator = None THEN {} ELSE holders \cup {u}
    /\ deleters' = IF key_creator = None THEN {} ELSE deleters \cup {u}
    /\ UNCHANGED <<invitees, accepting, history, key_creator>>

SetAdmin(u, v) ==
    /\ Free /\ u \in admins /\ v \in participants
    /\ admins' = IF v \in admins THEN admins \ {v} ELSE admins \cup {v}
    /\ KeepKey /\ UNCHANGED <<participants, invitees, accepting, history>>

(* The first to set a key is its creator; after that only he may.           *)
SetGroupKey(u) ==
    /\ Free /\ u \in participants /\ key_creator \in {None, u}
    /\ key_creator' = u /\ holders' = {} /\ deleters' = {}
    /\ UNCHANGED <<participants, admins, invitees, accepting, history>>

GroupNext ==
    \/ EnterByInvite \/ EnterFails
    \/ \E u \in Users :
          \/ AcceptInvite(u) \/ DeclineInvite(u) \/ LeaveGroup(u) \/ DeleteChat(u) \/ SetGroupKey(u)
          \/ \E v \in Users : \/ InviteToGroup(u, v) \/ AddParticipant(u, v)
                              \/ RemoveParticipant(u, v) \/ SetAdmin(u, v)

-----------------------------------------------------------------------------
Init == ContactInit /\ GroupInit
Next == (ContactNext /\ UNCHANGED groupVars) \/ (GroupNext /\ UNCHANGED contactVars)

Spec == Init /\ [][Next]_<<contactVars, groupVars>>

-----------------------------------------------------------------------------
(* Properties.                                                              *)

(* Every variable keeps its type, and nobody has two rows for another, in   *)
(* whatever order both ask, add and accept: removing or unblocking once is  *)
(* enough (contact_requests.py:160-182, chat.py:960-968).                   *)
RowsOnce ==
    /\ contacts \in [Users -> [Users -> 0..1]] /\ blocks \in [Users -> [Users -> 0..1]]
    /\ requests \subseteq Users \X Users

(* Nobody is in a contact list by the wish of one side only: the owner of a *)
(* contact row added it, asked for it or accepted it                        *)
(* (contact_requests.py:143-182).                                           *)
ContactsAreWanted ==
    \A u, v \in Users : contacts[u][v] > 0 => <<u, v>> \in wanted
(* An invitation lets its invitee in once: nobody who left or was removed   *)
(* comes back by one he has used or declined (contacts_groups.py:271-330).  *)
InviteIsSpentOnce ==
    \A u \in Users : entered[u] + (IF u \in invitees THEN 1 ELSE 0) <= invited[u]

(* While the server keeps a group key, nobody it was sealed for has left    *)
(* except by deleting the chat (contacts_groups.py:430-434, 471-477).       *)
KeyEndsWithItsMembers == holders \subseteq deleters
=============================================================================
