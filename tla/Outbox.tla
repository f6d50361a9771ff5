-------------------------------- MODULE Outbox --------------------------------
(***************************************************************************)
(* Sending a text (hooks/useChatActions.ts) and the queue of texts that    *)
(* could not be sent (services/outbox.ts): one encrypted value that every  *)
(* operation loads, changes and saves, with awaits between. A flush starts *)
(* at a reconnect and when the network is back, also while another runs    *)
(* (useChatSocket.ts:332-335, ChatPage.tsx:399).                           *)
(***************************************************************************)
EXTENDS Naturals, Sequences, FiniteSets, SequencesExt

CONSTANTS
    Texts,
    Flushes,        \* flushes that may run at a time
    MaxAttempts,    \* 10
    MaxReloads

VARIABLES
    stored,     \* the queue on disk: [id, text, attempts]
    reached,    \* texts the server has
    promised,   \* texts handleSend returned true for
    refused,    \* given up: poison, or the chat is gone
    send,       \* handleSend
    flush,      \* per flush: entries left, what it is at, its copy of the queue
    chatGone,
    reloads,
    crossed     \* two flushes, or two changes of the queue, overlapped

outboxVars == <<stored, reached, promised, refused, send, flush, chatGone, reloads, crossed>>

NoSend == [at |-> "none"]
Idle == [at |-> "none", items |-> <<>>]

Init ==
    /\ stored = <<>> /\ reached = {} /\ promised = {} /\ refused = {}
    /\ send = NoSend /\ flush = [f \in Flushes |-> Idle]
    /\ chatGone = FALSE /\ reloads = 0 /\ crossed = FALSE

Ids(q) == {q[i].id : i \in DOMAIN q}
Queued == {stored[i].text : i \in DOMAIN stored}
NextId(q) == IF q = <<>> THEN 1 ELSE 1 + CHOOSE m \in Ids(q) : \A n \in Ids(q) : n <= m
Without(q, id) ==       \* an id is there once
    IF id \in Ids(q) THEN RemoveAt(q, CHOOSE i \in DOMAIN q : q[i].id = id) ELSE q
Changing(f) == flush[f].at \in {"saveRemove", "saveBump"}
InFlight == send.at = "save" \/ \E f \in Flushes : Changing(f)

-----------------------------------------------------------------------------
(* handleSend; one at a time (sendingRef).                                  *)

Post(t) ==
    /\ send = NoSend /\ t \notin reached \cup promised \cup refused \cup Queued
    /\ send' = [at |-> "post", text |-> t]
    /\ UNCHANGED <<stored, reached, promised, refused, flush, chatGone, reloads, crossed>>

(* Answered; answered but the answer is lost; not sent; refused for its     *)
(* missing envelope, with the text left in the input.                       *)
Posted ==
    /\ send.at = "post"
    /\ \/ /\ ~chatGone /\ reached' = reached \cup {send.text}
          /\ promised' = promised \cup {send.text} /\ send' = NoSend
       \/ /\ ~chatGone /\ reached' = reached \cup {send.text}
          /\ send' = [send EXCEPT !.at = "load"] /\ UNCHANGED promised
       \/ send' = [send EXCEPT !.at = "load"] /\ UNCHANGED <<reached, promised>>
       \/ send' = NoSend /\ UNCHANGED <<reached, promised>>
    /\ UNCHANGED <<stored, refused, flush, chatGone, reloads, crossed>>

(* queueOutboxMessage.                                                      *)
QueueLoad ==
    /\ send.at = "load"
    /\ send' = [at |-> "save", text |-> send.text, copy |-> stored]
    /\ crossed' = (crossed \/ InFlight)
    /\ UNCHANGED <<stored, reached, promised, refused, flush, chatGone, reloads>>

QueueSave ==
    /\ send.at = "save"
    /\ stored' = Append(send.copy, [id |-> NextId(send.copy), text |-> send.text, attempts |-> 0])
    /\ promised' = promised \cup {send.text} /\ send' = NoSend
    /\ UNCHANGED <<reached, refused, flush, chatGone, reloads, crossed>>

-----------------------------------------------------------------------------
(* flushOutbox.                                                             *)

FlushStart(f) ==
    /\ flush[f].at = "none" /\ stored # <<>>
    /\ flush' = [flush EXCEPT ![f] = [at |-> "next", items |-> stored]]
    /\ crossed' = (crossed \/ \E g \in Flushes \ {f} : flush[g].at # "none")
    /\ UNCHANGED <<stored, reached, promised, refused, send, chatGone, reloads>>

(* The next entry: poison or of a deleted chat, sent, or failed.            *)
(* Mutant: an entry that failed is removed, too.                            *)
FlushItem_DropsFailed(f) ==
    /\ flush[f].at = "next" /\ flush[f].items # <<>>
    /\ LET item == Head(flush[f].items) IN
       \/ /\ item.attempts >= MaxAttempts \/ chatGone
          /\ flush' = [flush EXCEPT ![f].at = "remove"]
          /\ refused' = refused \cup {item.text} /\ UNCHANGED reached
       \/ /\ item.attempts < MaxAttempts /\ ~chatGone
          /\ reached' = reached \cup {item.text}
          /\ \E at \in {"remove", "bump"} : flush' = [flush EXCEPT ![f].at = at]
          /\ UNCHANGED refused
       \/ /\ item.attempts < MaxAttempts
          /\ flush' = [flush EXCEPT ![f].at = "remove"] /\ UNCHANGED <<reached, refused>>
    /\ UNCHANGED <<stored, promised, send, chatGone, reloads, crossed>>

FlushItem(f) ==
    /\ flush[f].at = "next" /\ flush[f].items # <<>>
    /\ LET item == Head(flush[f].items) IN
       \/ /\ item.attempts >= MaxAttempts \/ chatGone
          /\ flush' = [flush EXCEPT ![f].at = "remove"]
          /\ refused' = refused \cup {item.text} /\ UNCHANGED reached
       \/ /\ item.attempts < MaxAttempts /\ ~chatGone
          /\ reached' = reached \cup {item.text}
          /\ \E at \in {"remove", "bump"} : flush' = [flush EXCEPT ![f].at = at]
          /\ UNCHANGED refused
       \/ /\ item.attempts < MaxAttempts
          /\ flush' = [flush EXCEPT ![f].at = "bump"] /\ UNCHANGED <<reached, refused>>
    /\ UNCHANGED <<stored, promised, send, chatGone, reloads, crossed>>

(* removeOutbox and bumpOutboxAttempts.                                     *)
ChangeLoad(f) ==
    /\ flush[f].at \in {"remove", "bump"}
    /\ flush' = [flush EXCEPT ![f] = [at |-> IF @.at = "remove" THEN "saveRemove" ELSE "saveBump",
                                      items |-> @.items, copy |-> stored]]
    /\ crossed' = (crossed \/ InFlight)
    /\ UNCHANGED <<stored, reached, promised, refused, send, chatGone, reloads>>

ChangeSave(f) ==
    /\ Changing(f)
    /\ LET q == flush[f].copy
           id == Head(flush[f].items).id
       IN stored' = IF flush[f].at = "saveRemove" THEN Without(q, id)
                    ELSE [i \in DOMAIN q |-> IF q[i].id = id
                                             THEN [q[i] EXCEPT !.attempts = @ + 1] ELSE q[i]]
    /\ flush' = [flush EXCEPT ![f] = [at |-> "next", items |-> Tail(@.items)]]
    /\ UNCHANGED <<reached, promised, refused, send, chatGone, reloads, crossed>>

FlushEnd(f) ==
    /\ flush[f].at = "next" /\ flush[f].items = <<>>
    /\ flush' = [flush EXCEPT ![f] = Idle]
    /\ UNCHANGED <<stored, reached, promised, refused, send, chatGone, reloads, crossed>>

DeleteChat ==
    /\ ~chatGone /\ chatGone' = TRUE
    /\ UNCHANGED <<stored, reached, promised, refused, send, flush, reloads, crossed>>

(* The page goes at any point.                                              *)
ReloadPage ==
    /\ reloads < MaxReloads /\ reloads' = reloads + 1
    /\ send' = NoSend /\ flush' = [f \in Flushes |-> Idle]
    /\ UNCHANGED <<stored, reached, promised, refused, chatGone, crossed>>

-----------------------------------------------------------------------------
Next ==
    \/ \E t \in Texts : Post(t)
    \/ Posted \/ QueueLoad \/ QueueSave \/ DeleteChat \/ ReloadPage
    \/ \E f \in Flushes : FlushStart(f) \/ FlushItem(f) \/ ChangeLoad(f) \/ ChangeSave(f) \/ FlushEnd(f)

Spec == Init /\ [][Next]_outboxVars

-----------------------------------------------------------------------------
Kept(t) == t \in reached \cup Queued \cup refused

(* Property: a text the user was told is sent or queued is on the server or *)
(* in the queue until it is given up, whatever answers are lost and         *)
(* whenever the page goes, as long as no two flushes and no two changes of  *)
(* the queue overlap (useChatActions.ts:70-182, outbox.ts:116-150).         *)
PromisedIsKept == ~crossed => \A t \in promised : Kept(t)

(* Without the proviso: "the text is in the reliable queue"                 *)
(* (useChatActions.ts:134).                                                 *)
QueueIsReliable == \A t \in promised : Kept(t)

-----------------------------------------------------------------------------
(* What PromisedIsKept follows from, as long as nothing overlapped: an id   *)
(* is in the queue once, the copy that is about to be saved is the queue    *)
(* without one change, and the entries a flush has before it are in the     *)
(* queue; what it is about to remove was sent or given up.                  *)
Entry == [id : Nat, text : Texts, attempts : Nat]
Distinct(q) == \A i, j \in DOMAIN q : q[i].id = q[j].id => i = j
Stocked(e) == \E i \in DOMAIN stored : stored[i].id = e.id /\ stored[i].text = e.text

SendOK ==
    /\ send \in {NoSend} \cup [at : {"post", "load"}, text : Texts]
                         \cup [at : {"save"}, text : Texts, copy : Seq(Entry)]
    /\ send.at = "save" => send.copy = stored /\ \A f \in Flushes : ~Changing(f)

FlushOK(f) ==
    /\ flush[f] \in {Idle} \cup [at : {"next", "remove", "bump"}, items : Seq(Entry)]
            \cup [at : {"saveRemove", "saveBump"}, items : Seq(Entry), copy : Seq(Entry)]
    /\ Distinct(flush[f].items) /\ \A i \in DOMAIN flush[f].items : Stocked(flush[f].items[i])
    /\ flush[f].at \notin {"none", "next"} => flush[f].items # <<>>
    /\ flush[f].at \in {"remove", "saveRemove"} => flush[f].items[1].text \in reached \cup refused
    /\ Changing(f) => flush[f].copy = stored

QueueOK ==
    /\ stored \in Seq(Entry) /\ Distinct(stored)
    /\ SendOK /\ \A f \in Flushes : FlushOK(f)
    /\ \A f, g \in Flushes : flush[f].at # "none" /\ flush[g].at # "none" => f = g

OutboxInv ==
    /\ crossed \in BOOLEAN /\ flush = [f \in Flushes |-> flush[f]]
    /\ ~crossed => QueueOK /\ PromisedIsKept
=============================================================================
