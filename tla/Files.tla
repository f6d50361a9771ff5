------------------------------- MODULE Files -------------------------------
(***************************************************************************)
(* One uploaded file: its bytes on the disk (core/storage.py), its row,    *)
(* the messages of a chat it is attached to (server/routes/files.py), and  *)
(* the jobs that take it away (utils/file_cleanup.py). The bytes are       *)
(* written and removed before the row is.                                  *)
(***************************************************************************)
EXTENDS Naturals

CONSTANTS
    Users,
    Owner,          \* who uploads it
    Posts,          \* the messages that may carry it
    MaxLosses,      \* bound: second steps that never come
    None

VARIABLES
    bytes, row,     \* the file on the disk, the File row
    age,            \* of the upload: "new", "day" (over 24 h), "ttl" (over FILE_TTL_DAYS)
    posts,          \* posts[k]: the message row
    readers,        \* participants of the chat
    tokens,         \* the users with a file token that has not expired
    task,           \* what is between two steps
    losses

vars == <<bytes, row, age, posts, readers, tokens, task, losses>>

NoPost == [state |-> "none", by |-> None, once |-> FALSE, viewer |-> None]

Init ==
    /\ bytes = FALSE /\ row = FALSE /\ age = "new"
    /\ posts = [k \in Posts |-> NoPost]
    /\ readers = Users
    /\ tokens = {} /\ task = "none" /\ losses = 0

Linked == {k \in Posts : posts[k].state \in {"live", "withdrawn"}}

(* The row goes: file_id of its messages is set to NULL.                    *)
Unlinked == [k \in Posts |-> IF k \in Linked THEN [posts[k] EXCEPT !.state = "bare"] ELSE posts[k]]

-----------------------------------------------------------------------------
(* upload_file: save_file writes the bytes, awaiting each chunk, then the   *)
(* row is committed. Type, size and virus checks refuse before that.        *)
SaveFile ==
    /\ task = "none" /\ ~bytes /\ ~row /\ age = "new" /\ Linked = {}
    /\ bytes' = TRUE /\ task' = "upload"
    /\ UNCHANGED <<row, age, posts, readers, tokens, losses>>

UploadFile ==
    /\ task = "upload" /\ task' = "none"
    /\ row' = TRUE
    /\ UNCHANGED <<bytes, age, posts, readers, tokens, losses>>

(* A message with this file_id: the sender's own, or one that a message of  *)
(* the chat carries already.                                                *)
Attach(u, k) ==
    /\ row /\ u \in readers /\ posts[k].state = "none"
    /\ u = Owner \/ Linked # {}
    /\ \E once \in BOOLEAN :
          posts' = [posts EXCEPT ![k] = [state |-> "live", by |-> u, once |-> once, viewer |-> None]]
    /\ UNCHANGED <<bytes, row, age, readers, tokens, task, losses>>

(* mark_view_once_viewed.                                                   *)
Open(u, k) ==
    /\ posts[k].state \in {"live", "withdrawn"} /\ posts[k].once
    /\ u \in readers /\ u # posts[k].by /\ posts[k].viewer = None
    /\ posts' = [posts EXCEPT ![k].state = "withdrawn", ![k].viewer = u]
    /\ UNCHANGED <<bytes, row, age, readers, tokens, task, losses>>

Withdraw(k) ==
    /\ posts[k].state = "live"
    /\ posts' = [posts EXCEPT ![k].state = "withdrawn"]
    /\ UNCHANGED <<bytes, row, age, readers, tokens, task, losses>>

Purge(k) ==
    /\ posts[k].state = "live"
    /\ posts' = [posts EXCEPT ![k].state = "gone"]
    /\ UNCHANGED <<bytes, row, age, readers, tokens, task, losses>>

Leave(u) ==
    /\ u \in readers /\ readers' = readers \ {u}
    /\ UNCHANGED <<bytes, row, age, posts, tokens, task, losses>>

-----------------------------------------------------------------------------
(* Both queries take the first message that matches, in no given order.     *)
HasAccess(u) ==
    u = Owner \/ (u \in readers /\ \E k \in Posts : posts[k].state = "live")

MintFileToken(u) ==
    /\ row /\ HasAccess(u)
    /\ tokens' = tokens \cup {u}
    /\ UNCHANGED <<bytes, row, age, posts, readers, task, losses>>

TokenExpires(u) ==
    /\ u \in tokens /\ tokens' = tokens \ {u}
    /\ UNCHANGED <<bytes, row, age, posts, readers, task, losses>>

Once == {k \in Linked : posts[k].once}
Opened(u, k) == posts[k].by = u \/ posts[k].viewer = u
MayDownload(u, k) == HasAccess(u) /\ (k # None => Opened(u, k))

(* download_file, when k is the view-once message it finds first.           *)
Serves(u, k) == row /\ bytes /\ MayDownload(u, k)

(* The response is sent; an attachment opened once is to be burnt then.     *)
DownloadFile(u) ==
    /\ u \in tokens
    /\ \E k \in IF Once = {} THEN {None} ELSE Once :
          /\ Serves(u, k)
          /\ task' = IF k # None /\ posts[k].by # u THEN "burn" ELSE task
    /\ UNCHANGED <<bytes, row, age, posts, readers, tokens, losses>>

(* _burn_view_once, in a thread: the bytes, then the row.                   *)
BurnBytes ==
    /\ task = "burn" /\ task' = "burnt"
    /\ bytes' = FALSE
    /\ UNCHANGED <<row, posts, age, readers, tokens, losses>>

(* Mutant: the row survives the fire.                                       *)
BurnRow_Keeps ==
    /\ task = "burnt" /\ task' = "none"
    /\ UNCHANGED <<bytes, row, posts, age, readers, tokens, losses>>

BurnRow ==
    /\ task = "burnt" /\ task' = "none"
    /\ row' = FALSE /\ posts' = Unlinked
    /\ UNCHANGED <<bytes, age, readers, tokens, losses>>

Delete ==
    /\ row /\ bytes' = FALSE /\ row' = FALSE /\ posts' = Unlinked
    /\ UNCHANGED <<age, readers, tokens, task, losses>>

(* delete_file of the owner: unlink, then the row.                          *)
DeleteFile == Delete
(* The jobs: files over their time, files no message names.                 *)
CleanupExpired == age = "ttl" /\ Delete
CleanupMine == CleanupExpired     \* the owner's own call of it
CleanupOrphaned == age \in {"day", "ttl"} /\ Linked = {} /\ Delete

(* The commit of a deletion fails, or the server stops before the row is    *)
(* written or removed.                                                      *)
Loss ==
    /\ losses < MaxLosses /\ losses' = losses + 1
    /\ \/ task # "none" /\ task' = "none" /\ UNCHANGED bytes
       \/ row /\ bytes /\ bytes' = FALSE /\ UNCHANGED task
    /\ UNCHANGED <<row, age, posts, readers, tokens>>

Time ==
    /\ row /\ age # "ttl"
    /\ age' = IF age = "new" THEN "day" ELSE "ttl"
    /\ UNCHANGED <<bytes, row, posts, readers, tokens, task, losses>>

Next ==
    \/ SaveFile \/ UploadFile \/ BurnBytes \/ BurnRow \/ DeleteFile \/ CleanupExpired \/ CleanupMine \/ CleanupOrphaned
    \/ Loss \/ Time
    \/ \E u \in Users : \/ MintFileToken(u) \/ TokenExpires(u) \/ DownloadFile(u) \/ Leave(u)
                        \/ \E k \in Posts : Attach(u, k) \/ Open(u, k)
    \/ \E k \in Posts : Withdraw(k) \/ Purge(k)

Spec == Init /\ [][Next]_vars

-----------------------------------------------------------------------------
(* Properties.                                                              *)

(* The bytes are on the disk exactly while there is a row, but in the       *)
(* middle of an upload or a burning, unless a step has failed               *)
(* (files.py:156-172, 386-392, file_cleanup.py:42-47).                      *)
BytesFollowRow == losses = 0 /\ task = "none" => (bytes <=> row)

(* Whoever opened a view-once message can fetch its attachment              *)
(* (docstring of mark_view_once_viewed, chat.py:768).                       *)
OpenedCanBeFetched ==
    \A k \in Posts : \A u \in Users :
        row /\ bytes /\ posts[k].viewer = u /\ u \in readers /\ Once = {k} => MayDownload(u, k)
=============================================================================
