------------------------------- MODULE Reactions -------------------------------
(***************************************************************************)
(* The marks on one message of a 1:1 chat (hooks/useChatActions.ts:        *)
(* handleReaction, services/e2e.ts: groupReactionRows,                     *)
(* server/routes/chat.py: toggle_reaction). A client shows its mark at     *)
(* once; the relay keeps rows it cannot read and toggles them by a tag;    *)
(* its answer, a frame or the history replaces all the client shows by the *)
(* rows the client can decrypt.                                            *)
(***************************************************************************)
EXTENDS Naturals, Sequences, FiniteSets

CONSTANTS
    Users,
    Emojis,
    Slots,      \* requests of a client at a time
    MaxRows,    \* rows ever made
    MaxWire     \* frames under way to a client

VARIABLES
    rows,       \* the rows of the message at the relay
    rowsMade,
    marks,      \* the marks a client shows: who, and with what
    req,        \* requests of a client
    frames,     \* reaction_update frames under way
    read,       \* rows a client has decrypted once
    doubt       \* since the last history something may have left a wrong mark

reactionVars == <<rows, rowsMade, marks, req, frames, read, doubt>>

Idle == [at |-> "none"]
Mark(row) == <<row.by, row.emoji>>
Others(u, s) == \E o \in Slots \ {s} : req[u][o] # Idle

Init ==
    /\ rows = {} /\ rowsMade = 0
    /\ marks = [u \in Users |-> {}] /\ read = [u \in Users |-> {}]
    /\ req = [u \in Users |-> [s \in Slots |-> Idle]]
    /\ frames = [u \in Users |-> 0] /\ doubt = [u \in Users |-> FALSE]

(* decryptReactionRow: an envelope opens once, and never for who wrote it;  *)
(* one of a session given up in the meantime does not open at all.          *)
Readable(u, some) == {row \in some : row.by # u /\ row.n \notin read[u]}

(* groupReactionRows, with what of the readable rows does open.             *)
Grouped(u, some, open) ==
    /\ marks' = [marks EXCEPT ![u] = {Mark(row) : row \in open}]
    /\ read' = [read EXCEPT ![u] = @ \cup {row.n : row \in Readable(u, some)}]

-----------------------------------------------------------------------------
(* handleReaction shows or takes back the mark, then seals it.              *)
Shown(u, emoji, add) ==
    IF add THEN marks[u] \cup {<<u, emoji>>} ELSE marks[u] \ {<<u, emoji>>}

Click(u, s, emoji, add) ==
    /\ req[u][s] = Idle
    /\ add \/ <<u, emoji>> \in marks[u]
    /\ marks' = [marks EXCEPT ![u] = Shown(u, emoji, add)]
    /\ req' = [req EXCEPT ![u][s] = [at |-> "sealing", emoji |-> emoji, add |-> add]]
    /\ doubt' = [doubt EXCEPT ![u] = @ \/ Others(u, s)]
    /\ UNCHANGED <<rows, rowsMade, frames, read>>

(* Without keys, a session or the network the mark is turned back. Mutant:  *)
(* it is left as it is.                                                     *)
Revert_Never(u, s) == UNCHANGED marks
Revert(u, s) == marks' = [marks EXCEPT ![u] = Shown(u, req[u][s].emoji, ~req[u][s].add)]

Failed(u, s) ==
    /\ req[u][s].at \in {"sealing", "lost"}
    /\ Revert(u, s) /\ req' = [req EXCEPT ![u][s] = Idle]
    /\ UNCHANGED <<rows, rowsMade, frames, read, doubt>>

(* toggle_reaction: the row with the tag goes, or one is made; the others   *)
(* of the chat are told; the answer has all rows, if it arrives.            *)
Toggled(u, emoji) ==
    LET own == {row \in rows : Mark(row) = <<u, emoji>>} IN
    IF own # {} THEN rows' = rows \ own /\ UNCHANGED rowsMade
    ELSE /\ rowsMade < MaxRows /\ rowsMade' = rowsMade + 1
         /\ rows' = rows \cup {[n |-> rowsMade + 1, by |-> u, emoji |-> emoji]}

ToggleReaction(u, s) ==
    /\ req[u][s].at = "sealing"
    /\ Toggled(u, req[u][s].emoji)
    /\ \A p \in Users \ {u} : frames[p] < MaxWire
    /\ frames' = [p \in Users |-> IF p = u THEN frames[p] ELSE frames[p] + 1]
    /\ \/ req' = [req EXCEPT ![u][s] = [at |-> "answer", rows |-> rows']] /\ UNCHANGED doubt
       \/ /\ req' = [req EXCEPT ![u][s].at = "lost"]
          /\ doubt' = [doubt EXCEPT ![u] = TRUE]
    /\ UNCHANGED <<marks, read>>

(* The history of the chat is asked for; what it says of the message comes  *)
(* like an answer.                                                          *)
LoadHistory(u, s) ==
    /\ req[u][s] = Idle
    /\ req' = [req EXCEPT ![u][s] = [at |-> "answer", rows |-> rows]]
    /\ doubt' = [doubt EXCEPT ![u] = Others(u, s)]
    /\ UNCHANGED <<rows, rowsMade, marks, frames, read>>

Answered(u, s) ==
    /\ req[u][s].at = "answer"
    /\ \E open \in SUBSET Readable(u, req[u][s].rows) : Grouped(u, req[u][s].rows, open)
    /\ req' = [req EXCEPT ![u][s] = Idle]
    /\ UNCHANGED <<rows, rowsMade, frames, doubt>>

-----------------------------------------------------------------------------
(* reaction_update: the socket cannot decrypt, and shows only marks in the  *)
(* old plain form, of which there are none any more.                        *)
Hear(u) ==
    /\ frames[u] > 0 /\ frames' = [frames EXCEPT ![u] = @ - 1]
    /\ marks' = [marks EXCEPT ![u] = {}]
    /\ doubt' = [doubt EXCEPT ![u] = @ \/ \E s \in Slots : req[u][s].at = "answer"]
    /\ UNCHANGED <<rows, rowsMade, req, read>>

(* A frame is lost when the socket is down; nothing sends it again.         *)
Missed(u) ==
    /\ frames[u] > 0 /\ frames' = [frames EXCEPT ![u] = @ - 1]
    /\ doubt' = [doubt EXCEPT ![u] = TRUE]
    /\ UNCHANGED <<rows, rowsMade, marks, req, read>>

-----------------------------------------------------------------------------
Next ==
    \E u \in Users :
        \/ Hear(u) \/ Missed(u)
        \/ \E s \in Slots :
            \/ \E emoji \in Emojis, add \in BOOLEAN : Click(u, s, emoji, add)
            \/ Failed(u, s) \/ ToggleReaction(u, s) \/ LoadHistory(u, s) \/ Answered(u, s)

Spec == Init /\ [][Next]_reactionVars

-----------------------------------------------------------------------------
(* Property: when a client has no request out and no frame is under way to  *)
(* it, every mark it shows is a row at the relay: a mark shown in advance   *)
(* is taken back when it does not get there (useChatActions.ts:189-200),    *)
(* and one another has taken back is gone (useChatSocket.ts:207-219). After *)
(* a lost answer, a lost frame, two requests at a time or an answer that a  *)
(* frame overtook, only from the next history on.                           *)
Settled(u) == frames[u] = 0 /\ ~doubt[u] /\ \A s \in Slots : req[u][s] = Idle

NoPhantomMarks == \A u \in Users : Settled(u) => marks[u] \subseteq {Mark(row) : row \in rows}

(* Claimed by useChatMessages.ts:87-88, and not so: a client shows its own  *)
(* marks again once the history is loaded.                                  *)
OwnMarkShown ==
    [][\A u \in Users, s \in Slots :
        Answered(u, s) => \A row \in req[u][s].rows : row.by = u => Mark(row) \in marks'[u]]_reactionVars

-----------------------------------------------------------------------------
(* What it follows from, of a client without doubt: it has one request out  *)
(* at most. The marks it will show if that request fails are rows, its own  *)
(* whatever frames are under way, those of the others when none is; and the *)
(* rows an answer brings are there when it comes, but for its own.          *)
Requesting == {Idle} \cup [at : {"sealing", "lost"}, emoji : Emojis, add : BOOLEAN]
                     \cup {[at |-> "answer", rows |-> some] : some \in SUBSET [n : Nat, by : Users, emoji : Emojis]}
Listed(some) == {Mark(row) : row \in some}
Backed(u, some) ==
    /\ \A x \in some : x[1] = u => x \in Listed(rows)
    /\ frames[u] = 0 => some \subseteq Listed(rows)

CertainOf(u) ==
    /\ \A s, o \in Slots : req[u][s] # Idle /\ req[u][o] # Idle => s = o
    /\ (\A s \in Slots : req[u][s] = Idle) => Backed(u, marks[u])
    /\ \A s \in Slots :
          /\ req[u][s].at # "lost"
          /\ req[u][s].at = "sealing" =>
                Backed(u, Shown(u, req[u][s].emoji, ~req[u][s].add))
          /\ req[u][s].at = "answer" /\ frames[u] = 0 =>
                \A row \in req[u][s].rows : row.by # u => row \in rows

ReactionInv ==
    /\ rows \subseteq [n : Nat, by : Users, emoji : Emojis] /\ rowsMade \in Nat
    /\ req \in [Users -> [Slots -> Requesting]]
    /\ marks \in [Users -> SUBSET (Users \X Emojis)] /\ frames \in [Users -> Nat]
    /\ doubt \in [Users -> BOOLEAN]
    /\ \A u \in Users : ~doubt[u] => CertainOf(u)
================================================================================
