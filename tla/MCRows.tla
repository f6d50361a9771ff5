------------------------------- MODULE MCRows -------------------------------
(***************************************************************************)
(* Five components that keep rows of the database and share no state in    *)
(* these models: the messages of a chat, an attached file, contacts, a     *)
(* group, the edits of a message. A behaviour is one of one component,     *)
(* chosen at the start; the others rest in their initial states.           *)
(***************************************************************************)
EXTENDS Messages, TLC

CONSTANTS
    Couple, Owner, Posts, MaxLosses,    \* of Files, and of the contacts
    Crowd, Founder, MaxInvites,         \* of the groups
    Kept, MaxEdits                      \* of Edits

ASSUME KeptAssumption == Kept \in Nat

VARIABLES
    part,
    bytes, row, age, posts, readers, tokens, task, losses,
    contacts, requests, blocks, wanted,
    participants, admins, invitees, accepting, key_creator, invited, entered, holders, deleters,
    content, edit_history, deleted, casts, shown, edits, written, overtaken

File == INSTANCE Files WITH Users <- Couple
Contact == INSTANCE ContactsGroups WITH Users <- Couple
Group == INSTANCE ContactsGroups WITH Users <- Crowd
Edited == INSTANCE Edits

fileVars == <<bytes, row, age, posts, readers, tokens, task, losses>>
contactVars == <<contacts, requests, blocks, wanted>>
groupVars == <<participants, admins, invitees, accepting, key_creator, invited, entered, holders, deleters>>
editVars == <<content, edit_history, deleted, casts, shown, edits, written, overtaken>>

MCInit ==
    /\ part \in {"messages", "file", "contacts", "group", "edits"}
    /\ Init /\ File!Init /\ Contact!ContactInit /\ Group!GroupInit /\ Edited!Init

MCNext ==
    /\ UNCHANGED part
    /\ IF part = "messages" THEN Next ELSE UNCHANGED vars
    /\ IF part = "file" THEN File!Next ELSE UNCHANGED fileVars
    /\ IF part = "contacts" THEN Contact!ContactNext ELSE UNCHANGED contactVars
    /\ IF part = "group" THEN Group!GroupNext ELSE UNCHANGED groupVars
    /\ IF part = "edits" THEN Edited!Next ELSE UNCHANGED editVars

MCSpec ==
    /\ MCInit
    /\ [][MCNext]_<<part, vars, fileVars, contactVars, groupVars, editVars>>

Symmetry == Permutations(Users) \cup Permutations(Crowd \ {Founder})

-----------------------------------------------------------------------------
(* The properties of the parts; their modules say what each of them means.  *)

(* A file's bytes and its row go together (Files).                          *)
BytesFollowRow == File!BytesFollowRow

(* Contacts and members are those who were asked and agreed: no row twice,  *)
(* no contact against a refusal, an invitation lets in once, and a group    *)
(* key is not kept when one who holds it has gone (ContactsGroups).         *)
MembershipHolds ==
    /\ Contact!RowsOnce /\ Contact!ContactsAreWanted
    /\ Group!InviteIsSpentOnce /\ Group!KeyEndsWithItsMembers

(* The history of a message is a suffix of what was written, and what its   *)
(* readers are shown is its content (Edits).                                *)
EditsHold == Edited!HistoryIsSuffix /\ Edited!ShownIsContent
=============================================================================
