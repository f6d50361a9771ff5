------------------------------- MODULE ChatView -------------------------------
(***************************************************************************)
(* The open chat of the chat page (pages/ChatPage.tsx with                 *)
(* hooks/useChatMessages.ts): its rows, its input with the drafts          *)
(* (utils/drafts.ts), and the answers that arrive after the user has gone  *)
(* to another chat. A row and a text are known by the chat they are of.    *)
(***************************************************************************)
CONSTANTS Chats, Nothing

VARIABLES
    selected,   \* selectedChat
    history,    \* chatIdRef of useChatMessages: the chat whose history is wanted
    shown,      \* the chats of the rows on screen
    loads,      \* loadMessages under way
    late,       \* older rows (loadMore) and frames of the socket, not shown yet
    input,      \* the chat the text in the input was written in
    drafts,
    draftTimer, \* half a second after the last key
    post,       \* handleSend
    sent,       \* <<written in, sent to>> of the last text
    strayed,    \* an unguarded answer came late (see there)
    jumped      \* the chat was changed around handleSelectChat

viewVars == <<selected, history, shown, loads, late, input, drafts, draftTimer, post, sent,
              strayed, jumped>>

Init ==
    /\ selected = Nothing /\ history = Nothing /\ shown = {} /\ loads = {} /\ late = {}
    /\ input = Nothing /\ drafts = [c \in Chats |-> Nothing]
    /\ draftTimer = Nothing /\ post = Nothing /\ sent = Nothing
    /\ strayed = FALSE /\ jumped = FALSE

Shows(c) ==
    /\ shown' = shown \cup {c} /\ strayed' = (strayed \/ c # selected)

-----------------------------------------------------------------------------
(* Another chat: the draft is kept, its own is taken up, the history asked. *)
Select(c) ==
    /\ selected' = c /\ history' = c /\ shown' = {} /\ loads' = loads \cup {c}
    /\ drafts' = IF selected = Nothing THEN drafts ELSE [drafts EXCEPT ![selected] = input]
    /\ input' = drafts'[c] /\ strayed' = FALSE
    /\ UNCHANGED <<late, draftTimer, post, sent, jumped>>

(* Previous and next by the keyboard; a chat just created, with no rows.    *)
Jump(c) ==
    /\ c # selected /\ selected' = c
    /\ shown' \in {shown, {}}
    /\ jumped' = TRUE /\ strayed' = TRUE
    /\ UNCHANGED <<history, loads, late, input, drafts, draftTimer, post, sent>>

-----------------------------------------------------------------------------
(* Mutant: the answer is not compared with the chat wanted now.             *)
Loaded_Late(c) ==
    /\ c \in loads /\ loads' = loads \ {c} /\ shown' = {c}
    /\ UNCHANGED <<selected, history, late, input, drafts, draftTimer, post, sent,
                   strayed, jumped>>
Loaded(c) ==
    /\ c \in loads /\ loads' = loads \ {c}
    /\ shown' = IF history = c THEN {c} ELSE shown
    /\ UNCHANGED <<selected, history, late, input, drafts, draftTimer, post, sent,
                   strayed, jumped>>

(* Older rows and decrypted frames are added without a look at the chat.    *)
Awaited ==
    /\ selected # Nothing /\ late' = late \cup {selected}
    /\ UNCHANGED <<selected, history, shown, loads, input, drafts, draftTimer, post, sent, strayed,
                   jumped>>
Added(c) ==
    /\ c \in late /\ late' = late \ {c} /\ Shows(c)
    /\ UNCHANGED <<selected, history, loads, input, drafts, draftTimer, post, sent, jumped>>

-----------------------------------------------------------------------------
(* The input, its draft, handleSend.                                        *)

HandleInputChange ==
    /\ selected # Nothing
    /\ input' = IF input = Nothing THEN selected ELSE input
    /\ draftTimer' = <<selected, input'>>
    /\ UNCHANGED <<selected, history, shown, loads, late, drafts, post, sent, strayed,
                   jumped>>

SaveDraft ==
    /\ draftTimer # Nothing /\ draftTimer' = Nothing
    /\ drafts' = [drafts EXCEPT ![draftTimer[1]] = draftTimer[2]]
    /\ UNCHANGED <<selected, history, shown, loads, late, input, post, sent, strayed,
                   jumped>>

HandleSend ==
    /\ selected # Nothing /\ input # Nothing /\ post = Nothing
    /\ post' = <<input, selected>>
    /\ UNCHANGED <<selected, history, shown, loads, late, input, drafts, draftTimer, sent,
                   strayed, jumped>>

(* Sent: the input is emptied, whatever it holds by now; refused: it stays. *)
HandleSent ==
    /\ post # Nothing /\ post' = Nothing
    /\ \/ /\ sent' = post /\ Shows(post[2])
          /\ input' = Nothing /\ drafts' = [drafts EXCEPT ![post[2]] = Nothing]
       \/ UNCHANGED <<sent, shown, strayed, input, drafts>>
    /\ UNCHANGED <<selected, history, loads, late, draftTimer, jumped>>

-----------------------------------------------------------------------------
Next ==
    \/ Awaited \/ HandleInputChange \/ SaveDraft \/ HandleSend \/ HandleSent
    \/ \E c \in Chats : Select(c) \/ Jump(c) \/ Loaded(c) \/ Added(c)

Spec == Init /\ [][Next]_viewVars

-----------------------------------------------------------------------------
(* Property: a text goes to the chat it was written in, and the rows on     *)
(* screen are of the open chat, in whatever order answers, drafts and       *)
(* changes of the chat come, as long as the chat is changed by              *)
(* handleSelectChat and no unguarded answer (older rows, a frame, the own   *)
(* message) comes after a change (ChatPage.tsx:508-549,                     *)
(* useChatMessages.ts:95-111).                                              *)
RightChat ==
    /\ ~jumped => (sent # Nothing => sent[1] = sent[2])
    /\ ~strayed => shown \subseteq {selected}

-----------------------------------------------------------------------------
(* What it follows from: as long as every change of the chat is one of      *)
(* handleSelectChat, what is in the input, a draft, the timer or a request  *)
(* was written in the chat it is kept for; and the history that is wanted   *)
(* is that of the open chat until a change goes by it.                      *)
WrittenWhereKept ==
    /\ input \in {Nothing, selected}
    /\ \A c \in Chats : drafts[c] \in {Nothing, c}
    /\ draftTimer # Nothing => draftTimer[2] \in {Nothing, draftTimer[1]}
    /\ post # Nothing => post[1] = post[2]

ViewInv ==
    /\ drafts = [c \in Chats |-> drafts[c]]
    /\ ~jumped => WrittenWhereKept
    /\ ~strayed => history = selected
    /\ RightChat
=============================================================================
