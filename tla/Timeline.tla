------------------------------- MODULE Timeline -------------------------------
(***************************************************************************)
(* The rows of the open chat on screen (hooks/useChatMessages.ts,          *)
(* hooks/useChatSocket.ts, pages/ChatPage.tsx) against the rows of the     *)
(* relay: the history, older pages, live frames that are decrypted side by *)
(* side, own texts and deletions, and the catching up after a gap of the   *)
(* socket. A row is known by its place in the relay's order. Content and   *)
(* edits are in Edits; answers for another chat in ChatView.               *)
(***************************************************************************)
EXTENDS Naturals, Sequences, FiniteSets, SequencesExt

CONSTANTS
    MaxRows,
    PageSize,   \* 50
    MaxBreaks

VARIABLES
    server,     \* per row: who wrote it and whether it is "live", "announced" or "silent"
                \* (deleted, with or without a frame)
    wire,       \* frames on the socket: <<"new", i>>, <<"del", i>>
    opening,    \* rows whose envelope is being decrypted; two of one row count as one
    screen,     \* messages
    load,       \* loadMessages
    older,      \* loadMore
    hasMore,
    answers,    \* own <<"sent", i>> and <<"deleted", i>> that were not answered yet
    last,       \* lastMessageAt, 0 for null
    link,       \* "open", "waiting" for a timer, or "closed" and to be reopened by another event
    syncs,      \* the since of each syncMissedMessages under way
    breaks,
    raced       \* something came in an order the page does not handle (see there)

timelineVars == <<server, wire, opening, screen, load, older, hasMore, answers, last, link, syncs,
                  breaks, raced>>

Nothing == [at |-> "none"]
Row(i, gone) == [id |-> i, gone |-> gone]
Ids(rows) == {rows[k].id : k \in DOMAIN rows}
Live == {i \in DOMAIN server : server[i].state = "live"}
FromPeer == {i \in DOMAIN server : server[i].by = "peer"}

Init ==
    /\ server = <<>> /\ wire = <<>> /\ opening = {} /\ screen = <<>>
    /\ load = Nothing /\ older = Nothing /\ hasMore = TRUE /\ answers = {}
    /\ last = 0 /\ link = "open" /\ syncs = {} /\ breaks = 0 /\ raced = FALSE

Newer(i) == Cardinality({j \in Live : j > i})
InOrder(rows) ==
    [k \in 1 .. Cardinality(rows) |-> CHOOSE i \in rows : Cardinality({j \in rows : j <= i}) = k]

(* get_chat_messages: a page of the rows that are not deleted, newest first *)
(* by offset, given in order.                                               *)
History(skip) ==
    LET page == InOrder({i \in Live : skip <= Newer(i) /\ Newer(i) < skip + PageSize})
    IN [k \in DOMAIN page |-> Row(page[k], FALSE)]

(* addMessage. Mutant: without the look for the id.                         *)
Added_Blind(rows, i) == Append(rows, Row(i, FALSE))
Added(rows, i) == IF i \in Ids(rows) THEN rows ELSE Append(rows, Row(i, FALSE))

Deleted(rows, i) == [k \in DOMAIN rows |-> IF rows[k].id = i THEN Row(i, TRUE) ELSE rows[k]]

(* What will be shown when it is decrypted, heard or answered.              *)
OnWire == {i \in DOMAIN server : <<"new", i>> \in Range(wire)}
Sent == {i \in DOMAIN server : <<"sent", i>> \in answers}
Coming == opening \cup OnWire \cup Sent

Tells(frame) == IF link = "open" THEN Append(wire, frame) ELSE wire

-----------------------------------------------------------------------------
(* The relay.                                                               *)

PeerWrites ==
    /\ Len(server) < MaxRows
    /\ server' = Append(server, [by |-> "peer", state |-> "live"])
    /\ wire' = Tells(<<"new", Len(server) + 1>>)
    /\ UNCHANGED <<opening, screen, load, older, hasMore, answers, last, link, syncs, breaks, raced>>

(* A row opened once, expired or withdrawn over the socket is announced;    *)
(* one withdrawn by the DELETE route is not.                                *)
RowGoes(i) ==
    /\ i \in Live /\ i \in FromPeer
    /\ \/ /\ server' = [server EXCEPT ![i].state = "announced"] /\ wire' = Tells(<<"del", i>>)
          /\ raced' = (raced \/ link # "open")
       \/ server' = [server EXCEPT ![i].state = "silent"] /\ UNCHANGED <<wire, raced>>
    /\ UNCHANGED <<opening, screen, load, older, hasMore, answers, last, link, syncs, breaks>>

-----------------------------------------------------------------------------
(* The user's own rows.                                                     *)

(* handleSend: the relay has the row; the answer comes, or is lost.         *)
Send ==
    /\ Len(server) < MaxRows
    /\ server' = Append(server, [by |-> "me", state |-> "live"])
    /\ \/ answers' = answers \cup {<<"sent", Len(server) + 1>>} /\ UNCHANGED raced
       \/ raced' = TRUE /\ UNCHANGED answers
    /\ UNCHANGED <<wire, opening, screen, load, older, hasMore, last, link, syncs, breaks>>

(* handleDeleteMessage, for all.                                            *)
Withdraw(i) ==
    /\ i \in Live \ FromPeer /\ i \in Ids(screen)
    /\ server' = [server EXCEPT ![i].state = "announced"]
    /\ answers' = answers \cup {<<"deleted", i>>}
    /\ raced' = (raced \/ <<"sent", i>> \in answers)
    /\ UNCHANGED <<wire, opening, screen, load, older, hasMore, last, link, syncs, breaks>>

Answered(a) ==
    /\ a \in answers /\ answers' = answers \ {a}
    /\ screen' = IF a[1] = "sent" THEN Added(screen, a[2]) ELSE Deleted(screen, a[2])
    /\ UNCHANGED <<server, wire, opening, load, older, hasMore, last, link, syncs, breaks, raced>>

-----------------------------------------------------------------------------
(* handleWsEvent and onMessage. A deletion changes the rows on screen only: *)
(* it is lost on a row that is still being decrypted or fetched.            *)
Hear ==
    /\ wire # <<>> /\ wire' = Tail(wire)
    /\ LET i == Head(wire)[2] IN
       \/ /\ Head(wire)[1] = "new"
          /\ opening' = opening \cup {i} /\ last' = i /\ UNCHANGED <<screen, raced>>
       \/ /\ Head(wire)[1] = "del"
          /\ screen' = Deleted(screen, i)
          /\ raced' = (raced \/ i \in opening \/ load.at = "read" \/ older.at = "read")
          /\ UNCHANGED <<opening, last>>
    /\ UNCHANGED <<server, load, older, hasMore, answers, link, syncs, breaks>>

Opened(i) ==
    /\ i \in opening /\ opening' = opening \ {i}
    /\ screen' = Added(screen, i)
    /\ UNCHANGED <<server, wire, load, older, hasMore, answers, last, link, syncs, breaks, raced>>

-----------------------------------------------------------------------------
(* handleSelectChat, loadMessages and loadMore.                             *)

OpenHistory ==
    /\ load = Nothing /\ load' = [at |-> "asked"]
    /\ screen' = <<>> /\ hasMore' = TRUE /\ raced' = (older # Nothing \/ (raced /\ (opening # {} \/ answers # {})))
    /\ UNCHANGED <<server, wire, opening, older, answers, last, link, syncs, breaks>>

LoadRead ==
    /\ load.at = "asked" /\ load' = [at |-> "read", rows |-> History(0)]
    /\ UNCHANGED <<server, wire, opening, screen, older, hasMore, answers, last, link, syncs,
                   breaks, raced>>

(* The answer takes the place of what is on screen, newer or not; an older  *)
(* row that is still to come is put after it, without those between.        *)
Loaded ==
    /\ load.at = "read" /\ load' = Nothing
    /\ screen' = load.rows /\ hasMore' = (Len(load.rows) >= PageSize)
    /\ raced' = \/ raced
                 \/ ~(Range(screen) \subseteq Range(load.rows))
                 \/ (load.rows # <<>> /\ \E i \in Coming : \A j \in Ids(load.rows) : i < j)
    /\ UNCHANGED <<server, wire, opening, older, answers, last, link, syncs, breaks>>

LoadFails ==
    /\ load # Nothing /\ load' = Nothing /\ raced' = TRUE
    /\ UNCHANGED <<server, wire, opening, screen, older, hasMore, answers, last, link, syncs, breaks>>

LoadMore ==
    /\ load = Nothing /\ older = Nothing /\ hasMore /\ screen # <<>>
    /\ older' = [at |-> "asked", skip |-> Len(screen)]
    /\ UNCHANGED <<server, wire, opening, screen, load, hasMore, answers, last, link, syncs,
                   breaks, raced>>

(* The offset counts the rows on screen, deleted ones too, and the relay    *)
(* counts the live rows it has by then.                                     *)
OlderRead ==
    /\ older.at = "asked"
    /\ raced' = (raced \/ ~({i \in Live : Newer(i) < older.skip} \subseteq Ids(screen)))
    /\ older' = [at |-> "read", rows |-> History(older.skip)]
    /\ UNCHANGED <<server, wire, opening, screen, load, hasMore, answers, last, link, syncs, breaks>>

(* Put before the others, without a look for the ids. On a failure the next *)
(* scroll asks again.                                                       *)
OlderLoaded ==
    /\ older.at = "read" /\ older' = Nothing
    /\ \/ /\ screen' = older.rows \o screen /\ hasMore' = (Len(older.rows) >= PageSize)
          /\ raced' = (raced \/ Ids(older.rows) \cap Ids(screen) # {})
       \/ UNCHANGED <<screen, hasMore, raced>>
    /\ UNCHANGED <<server, wire, opening, load, answers, last, link, syncs, breaks>>

-----------------------------------------------------------------------------
(* The socket breaks, with what is in it. It is reopened by the timer; or   *)
(* after a refresh of the token or at the browser's online event, which set *)
(* reconnectAttempts to 0 first and so hide the gap.                        *)
Break ==
    /\ link = "open" /\ breaks < MaxBreaks /\ breaks' = breaks + 1
    /\ link' \in {"waiting", "closed"}
    /\ wire' = <<>> /\ raced' = (raced \/ \E k \in DOMAIN wire : wire[k][1] = "del")
    /\ UNCHANGED <<server, opening, screen, load, older, hasMore, answers, last, syncs>>

(* onopen: a gap is caught up from the last message heard.                  *)
Reopen ==
    /\ link # "open" /\ link' = "open"
    /\ IF link = "waiting" /\ last # 0
       THEN syncs' = syncs \cup {last} /\ UNCHANGED raced
       ELSE /\ raced' = (raced \/ ~({i \in FromPeer : i > last} \subseteq Ids(screen) \cup opening))
            /\ UNCHANGED syncs
    /\ UNCHANGED <<server, wire, opening, screen, load, older, hasMore, answers, last, breaks>>

(* syncMissedMessages: the rows since, up to 100, of 10 chats; own rows are *)
(* heard and not shown, those neither that are newer than a row it does     *)
(* show. A failure is silent.                                               *)
Synced(s) ==
    /\ s \in syncs /\ syncs' = syncs \ {s}
    /\ LET rows == {i \in Live : i > s} IN
       \/ /\ opening' = opening \cup (rows \cap FromPeer)
          /\ \/ rows = {} /\ UNCHANGED last
             \/ last' \in {m \in rows : \A i \in rows : i <= m}
          /\ raced' = \/ raced
                       \/ /\ load = Nothing
                          /\ \E i \in rows \ FromPeer, j \in rows \cap FromPeer :
                                 j < i /\ i \notin Ids(screen) \cup Sent
       \/ raced' = TRUE /\ UNCHANGED <<opening, last>>
    /\ UNCHANGED <<server, wire, screen, load, older, hasMore, answers, link, breaks>>

-----------------------------------------------------------------------------
Next ==
    \/ PeerWrites \/ Send \/ Hear \/ OpenHistory \/ LoadRead \/ Loaded \/ LoadFails
    \/ LoadMore \/ OlderRead \/ OlderLoaded \/ Break \/ Reopen
    \/ \E i \in DOMAIN server : RowGoes(i) \/ Withdraw(i)
    \/ \E a \in answers : Answered(a)
    \/ \E i \in opening : Opened(i)
    \/ \E s \in syncs : Synced(s)

Spec == Init /\ [][Next]_timelineVars

-----------------------------------------------------------------------------
(* Property: once everything has arrived, the screen has every row once, no *)
(* live row of the newest ones is missing, and no row whose deletion was    *)
(* announced is shown as if it were there, though frames, answers, pages    *)
(* and the catching up after a gap came in any order (useChatMessages.ts:   *)
(* 97-123, 172-177; useChatSocket.ts:271-288). `raced` names the orders in  *)
(* which this is not so.                                                    *)
Quiet ==
    /\ wire = <<>> /\ opening = {} /\ load = Nothing /\ older = Nothing /\ answers = {}
    /\ syncs = {} /\ link = "open"

Newest == {i \in Live : \E j \in Ids(screen) : j <= i}

ScreenIsServer ==
    Quiet /\ ~raced =>
        /\ Cardinality(Ids(screen)) = Len(screen)
        /\ Newest \subseteq Ids(screen)
        /\ \A k \in DOMAIN screen :
               server[screen[k].id].state = "announced" => screen[k].gone

(* Why it holds. The frames of rows are in the order of the relay and the   *)
(* frame of a deletion comes after that of its row; what a catching up will *)
(* ask for, or the loss of the socket will make it ask for, is still to be  *)
(* heard; and a live row that is neither shown, nor to come, nor to be      *)
(* heard, is older than all that is shown or to come, or than the page that *)
(* was read. A deletion that was announced is on the wire or not answered   *)
(* as long as the row is shown as if it were there.                         *)
Announced == {i \in DOMAIN server : server[i].state = "announced"}
Told == {i \in DOMAIN server : <<"del", i>> \in Range(wire)}
Withdrawn == {i \in DOMAIN server : <<"deleted", i>> \in answers}
Shown(gone) == {i \in DOMAIN server : Row(i, gone) \in Range(screen)}
Page == IF load.at = "read" THEN load.rows ELSE <<>>
Above == IF older.at = "read" THEN older.rows ELSE <<>>
Once(rows) == \A k, l \in DOMAIN rows : rows[k].id = rows[l].id => k = l

LineTypes ==
    /\ server \in Seq([by : {"me", "peer"}, state : {"live", "announced", "silent"}])
    /\ wire \in Seq({"new", "del"} \X FromPeer)
    /\ opening \subseteq FromPeer
    /\ answers \subseteq {"sent", "deleted"} \X (DOMAIN server \ FromPeer)
    /\ (load = Nothing \/ load = [at |-> "asked"] \/ load = [at |-> "read", rows |-> Page])
    /\ \/ older = Nothing
       \/ older.at = "asked" /\ older = [at |-> "asked", skip |-> older.skip] /\ older.skip \in Nat
       \/ older = [at |-> "read", rows |-> Above]
    /\ {screen, Page, Above} \subseteq Seq([id : DOMAIN server, gone : BOOLEAN])
    /\ link \in {"open", "waiting", "closed"} /\ raced \in BOOLEAN
    /\ last \in 0 .. Len(server) /\ syncs \subseteq 0 .. Len(server)

FramesInOrder ==
    /\ link # "open" => wire = <<>>
    /\ \A k \in DOMAIN wire : wire[k][1] = "new" =>
           /\ \A l \in DOMAIN wire : k < l /\ wire[l][1] = "new" => wire[k][2] < wire[l][2]
           /\ wire[k][2] \in Announced => \E l \in DOMAIN wire : k < l /\ wire[l] = <<"del", wire[k][2]>>
           /\ \A s \in syncs : s < wire[k][2]
    /\ \A i \in Live, s \in syncs : last < i => s < i

PagesApart ==
    /\ load # Nothing /\ older # Nothing => raced
    /\ Once(Page) /\ Once(Above)

DeletionsFollow ==
    /\ Announced \cap opening \subseteq Told
    /\ Announced \cap Sent = {}
    /\ Announced \cap Shown(FALSE) \subseteq Told \cup Withdrawn
    /\ Announced \cap Ids(Page) \subseteq Told \cup (Withdrawn \cap Ids(screen)) \cup Shown(TRUE)
    /\ Announced \cap Ids(Above) \subseteq Told \cup Ids(screen)

(* Shown, or to come, or to be heard: on the wire or in a catching up.      *)
Due(i) ==
    \/ i \in Ids(screen) \cup Ids(Page) \cup opening \cup Sent
    \/ /\ i \in FromPeer
       /\ \/ \E s \in syncs : s < i
          \/ last < i /\ (link # "open" \/ i \in OnWire)

NothingBetween ==
    /\ load = Nothing => \A i \in Live :
           /\ \A j \in Ids(screen) \cup Coming : j <= i => Due(i)
           /\ \A j \in Ids(Above) : j <= i => Due(i) \/ i \in Ids(Above)
    /\ load.at = "read" => \A i \in Live :
           Due(i) \/ (load.rows # <<>> /\ \A j \in Ids(load.rows) : i < j)

LineInv ==
    /\ LineTypes /\ FramesInOrder /\ PagesApart
    /\ ~raced => Once(screen) /\ DeletionsFollow /\ NothingBetween

(* Claimed by useChatSocket.ts:323-328, and not so: what was missed in a    *)
(* gap of the socket is asked for when it is open again.                    *)
GapIsCaughtUp ==
    [][(link # "open" /\ link' = "open" /\ ~({i \in FromPeer : i > last} \subseteq Ids(screen)))
        => syncs' # {}]_timelineVars
================================================================================
