------------------------------- MODULE Edits -------------------------------
(***************************************************************************)
(* The edits of one message: edit_message of server/routes/chat.py and     *)
(* _handle_edit_message of ws/chat_manager.py, the bounded edit_history    *)
(* they keep, and what the members' clients are told. Contents are         *)
(* numbered in the order they are written; 0 is the mark of a clean-up.    *)
(***************************************************************************)
EXTENDS Naturals, Sequences

CONSTANTS
    Kept,           \* the length of edit_history: 50 in the code
    MaxEdits        \* bound: edits made

VARIABLES
    content,        \* what the row holds
    edit_history,   \* what it held before, the newest last
    deleted,        \* is_deleted
    casts,          \* the edit events on their way to a member's client
    shown,          \* what a member's client shows
    edits,          \* history: how often it has been edited
    written,        \* history: every content the row has held before
    overtaken       \* history: an edit was made while another was under way

vars == <<content, edit_history, deleted, casts, shown, edits, written, overtaken>>

Init ==
    /\ content = 1 /\ edit_history = <<>> /\ deleted = FALSE
    /\ casts = {} /\ shown = 1 /\ edits = 0 /\ written = <<>> /\ overtaken = FALSE

(* Mutant: the oldest are kept.                                             *)
Trimmed_First(h) == IF Len(h) > Kept THEN SubSeq(h, 1, Kept) ELSE h

(* history[-50:].                                                           *)
Trimmed(h) == IF Len(h) > Kept THEN SubSeq(h, Len(h) - Kept + 1, Len(h)) ELSE h

(* The row is changed and committed, then the chat is told.                 *)
Edit ==
    /\ edits < MaxEdits /\ edits' = edits + 1
    /\ edit_history' = Trimmed(Append(edit_history, content))
    /\ written' = Append(written, content)
    /\ content' = edits + 2
    /\ casts' = casts \cup {edits + 2}
    /\ overtaken' = (overtaken \/ casts # {})
    /\ UNCHANGED <<deleted, shown>>

(* The route does not ask whether the message is deleted, nor does the      *)
(* handler of the socket; the latter wants the author to be a participant.  *)
EditMessage == Edit

EditFrame == Edit

(* The ephemeral job overwrites the content of an expired message.          *)
CleanupEphemeral ==
    /\ ~deleted /\ deleted' = TRUE
    /\ content' = 0
    /\ UNCHANGED <<edit_history, casts, shown, edits, written, overtaken>>

DeleteMessage ==
    /\ ~deleted /\ deleted' = TRUE
    /\ UNCHANGED <<content, edit_history, casts, shown, edits, written, overtaken>>

(* Two broadcasts in progress reach a socket in any order: each awaits the  *)
(* members before it.                                                       *)
Show(c) ==
    /\ c \in casts
    /\ shown' = c /\ casts' = casts \ {c}
    /\ UNCHANGED <<content, edit_history, deleted, edits, written, overtaken>>

Next == EditMessage \/ EditFrame \/ CleanupEphemeral \/ DeleteMessage \/ \E c \in casts : Show(c)

Spec == Init /\ [][Next]_vars

-----------------------------------------------------------------------------
(* Properties.                                                              *)

(* edit_history is exactly the last Kept contents the row had before the    *)
(* last edit, in their order (chat.py:661-690, chat_manager.py:672-697).    *)
HistoryIsSuffix ==
    LET n == Len(written)
        k == IF n < Kept THEN n ELSE Kept
    IN edit_history = SubSeq(written, n - k + 1, n)

(* A client that has seen every event shows what the row holds, unless one  *)
(* edit overtook another or the row was cleaned up: the job tells nobody    *)
(* (chat.py:692-707, file_cleanup.py:118-124).                              *)
ShownIsContent == casts = {} /\ content # 0 /\ ~overtaken => shown = content
=============================================================================
