----------------------------- MODULE RowsProofs -----------------------------
(***************************************************************************)
(* Proofs about the rows of the relay, for any users, messages and bounds. *)
(* Messages: types, the refinement of Mailbox (nothing goes while it is    *)
(* owed to somebody), and that scheduled messages are not announced again  *)
(* without a failure. Files, ContactsGroups and Edits, as MCRows           *)
(* composes them: an inductive invariant for each, of its own variables.   *)
(***************************************************************************)
EXTENDS MCRows, SequenceTheorems, TLAPS


-----------------------------------------------------------------------------
(* Types.                                                                   *)

Kinds == {"none", "half", "kept", "withdrawn", "purged"}

(* The row a message begins with, what is left of one that is withdrawn.    *)
LEMMA EmptyRow ==
  /\ NoRow \in MessageRow
  /\ NoRow.state = "none" /\ NoRow.since = {} /\ NoRow.served = {} /\ NoRow.got = "no"
  /\ NoRow.due = "no" /\ NoRow.age = "young" /\ NoRow.unread = {} /\ NoRow.viewer = None
BY DEF NoRow, MessageRow

Remains(r) == [NoRow EXCEPT !.state = "withdrawn", !.author = r.author,
                            !.once = r.once, !.viewer = r.viewer]

LEMMA WithdrawnRow ==
  ASSUME NEW r \in MessageRow
  PROVE  /\ Remains(r) \in MessageRow
         /\ Remains(r).state = "withdrawn" /\ Remains(r).since = {} /\ Remains(r).due = "no"
<1>1. r.author \in Users \cup {None} /\ r.viewer \in Users \cup {None} /\ r.once \in BOOLEAN
  BY DEF MessageRow
<1> QED BY <1>1, EmptyRow DEF Remains, MessageRow

LEMMA InitialTypes == Init => TypeOK
BY EmptyRow, ChatAssumption, NoneAssumption DEF Init, TypeOK, Resting

LEMMA WithdrawnType ==
  ASSUME rows \in [Ids -> MessageRow], NEW ms \in SUBSET Ids
  PROVE  /\ Withdrawn(ms) \in [Ids -> MessageRow]
         /\ \A m \in Ids : Withdrawn(ms)[m] = IF m \in ms /\ Exists(m) THEN Remains(rows[m]) ELSE rows[m]
<1>1. \A m \in Ids : Withdrawn(ms)[m] = IF m \in ms /\ Exists(m) THEN Remains(rows[m]) ELSE rows[m]
  BY DEF Withdrawn, Remains
<1>2. \A m \in Ids : Withdrawn(ms)[m] \in MessageRow
  BY <1>1, WithdrawnRow
<1> QED BY <1>1, <1>2 DEF Withdrawn

LEMMA SentType ==
  ASSUME rows \in [Ids -> MessageRow], NEW ms
  PROVE  Sent(ms) \in [Ids -> MessageRow]
BY DEF Sent, MessageRow

PurgedRow == [NoRow EXCEPT !.state = "purged"]

LEMMA PurgeType ==
  ASSUME NEW rs \in [Ids -> MessageRow]
  PROVE  /\ Purge(rs) \in [Ids -> MessageRow]
         /\ \A m \in Ids : Purge(rs)[m] = IF Doomed(m, rs) THEN PurgedRow ELSE rs[m]
         /\ PurgedRow.state = "purged" /\ PurgedRow.since = {} /\ PurgedRow.due = "no"
<1>1. PurgedRow \in MessageRow /\ PurgedRow.state = "purged" /\ PurgedRow.since = {} /\ PurgedRow.due = "no"
  BY EmptyRow DEF PurgedRow, MessageRow
<1> QED BY <1>1 DEF Purge, PurgedRow

(* The purge ends a tick whatever came before it.                           *)
LEMMA AtScheduledType ==
  ASSUME NEW rs \in [Ids -> MessageRow], AtScheduled(rs)
  PROVE  /\ rows' \in [Ids -> MessageRow]
         /\ job' \in [step : {"rest", "expired", "scheduled"}, todo : SUBSET Ids, done : SUBSET Ids]
BY PurgeType DEF AtScheduled, Resting

-----------------------------------------------------------------------------
(* The invariant, a row at a time. Who has been there since a complete      *)
(* message was sent has it unread or was served; once a fetch has stamped   *)
(* it, and it was the other participant's, he was served; nobody can have   *)
(* been there who is not there.                                             *)

RowInv(m) ==
    /\ rows[m].state = "kept" => rows[m].since \ {rows[m].author} \subseteq rows[m].unread \cup rows[m].served
    /\ Shown(m) /\ rows[m].got # "no" /\ m \notin doubt => rows[m].since \ {rows[m].author} \subseteq rows[m].served
    /\ rows[m].since \subseteq members

FetchInv == fetch # None => fetch.new \subseteq fetch.page

MailInv == TypeOK /\ FetchInv /\ \A m \in Ids : RowInv(m)

(* What a step may do to a message in the eyes of Mailbox, unless it stores *)
(* one or lets somebody in.                                                 *)
Effect(m) ==
    /\ Owed(m)' \subseteq Owed(m)
    /\ Released(m) => Released(m)'
    /\ MailPhase(m)' # MailPhase(m) =>
          MailPhase(m) = "held" /\ MailPhase(m)' = "gone" /\ (Owed(m) = {} \/ Released(m))
    /\ rows'[m].due # "no" => rows[m].due # "no"

LEMMA MailTypes ==
  ASSUME TypeOK, NEW m \in Ids PROVE Owed(m) \in SUBSET Users /\ MailPhase(m) \in {"new", "held", "gone"}
<1>1. rows[m] \in MessageRow
  BY DEF TypeOK
<1>2. rows[m].since \in SUBSET Users
  BY <1>1 DEF MessageRow
<1> QED BY <1>2 DEF Owed, MailPhase, TypeOK

LEMMA ForgetStep ==
  ASSUME TypeOK, TypeOK', \A m \in Ids : Effect(m) PROVE Promise!Forget
<1>1. \A m \in Ids : Owed(m)' \in SUBSET Users /\ MailPhase(m)' \in {"new", "held", "gone"}
  <2> SUFFICES ASSUME NEW m \in Ids PROVE Owed(m)' \in SUBSET Users /\ MailPhase(m)' \in {"new", "held", "gone"}
    OBVIOUS
  <2>1. rows'[m] \in MessageRow
    BY DEF TypeOK
  <2>2. rows'[m].since \in SUBSET Users
    BY <2>1 DEF MessageRow
  <2> QED BY <2>2 DEF Owed, MailPhase, TypeOK
<1> QED BY <1>1 DEF Effect, Promise!Forget

(* A row that stays as it is.                                               *)
LEMMA SameRow ==
  ASSUME NEW m \in Ids, RowInv(m), rows'[m] = rows[m], members' = members, doubt \subseteq doubt',
         rows[m].state = "half" /\ sending # m => sending' # m
  PROVE  RowInv(m)' /\ Effect(m)
BY DEF RowInv, Effect, Owed, Released, MailPhase, Shown, Exists

Harmless == TypeOK' /\ \A m \in Ids : RowInv(m)' /\ Effect(m)

-----------------------------------------------------------------------------
(* The steps that leave the rows alone.                                     *)

LEMMA SameRows ==
  ASSUME MailInv, TypeOK', UNCHANGED <<rows, members>>, doubt \subseteq doubt', sending' \in {sending, None}
  PROVE  Harmless
<1> SUFFICES ASSUME NEW m \in Ids PROVE RowInv(m)' /\ Effect(m)
  BY DEF Harmless
<1> QED BY SameRow, NoneAssumption DEF MailInv, TypeOK

LEMMA StatusesFailStep == ASSUME MailInv, StatusesFail PROVE Harmless
<1>1. TypeOK'
  BY NoneAssumption DEF MailInv, TypeOK, StatusesFail
<1> QED BY <1>1, SameRows DEF StatusesFail

LEMMA FetchStep == ASSUME MailInv, NEW u \in Users, FetchHistory(u) PROVE Harmless
<1>1. TypeOK'
  <2>1. fetch' \in [by : Users, page : SUBSET Ids, new : SUBSET Ids]
    BY DEF FetchHistory
  <2> QED BY <2>1 DEF MailInv, TypeOK, FetchHistory
<1> QED BY <1>1, SameRows DEF FetchHistory

LEMMA AnnounceStep == ASSUME MailInv, NEW m \in Ids, Announce(m) PROVE Harmless
<1>1. job' \in [step : {"rest", "expired", "scheduled"}, todo : SUBSET Ids, done : SUBSET Ids]
  BY DEF MailInv, TypeOK, Announce
<1>2. said' \in [Ids -> Nat]
  BY DEF MailInv, TypeOK, Announce
<1>3. TypeOK'
  BY <1>1, <1>2 DEF MailInv, TypeOK, Announce
<1> QED BY <1>3, SameRows DEF Announce

LEMMA RestartStep == ASSUME MailInv, Restart PROVE Harmless
<1>1. TypeOK'
  BY NoneAssumption DEF MailInv, TypeOK, Restart, Resting
<1> QED BY <1>1, SameRows DEF Restart

-----------------------------------------------------------------------------
(* The handlers that change rows.                                           *)

LEMMA StatusesStep == ASSUME MailInv, Statuses PROVE Harmless
<1>0. PICK s \in Ids : s = sending
  BY DEF MailInv, TypeOK, Statuses
<1>1. rows[s].state = "half" /\ rows[s] \in MessageRow /\ sending' = None /\ rows \in [Ids -> MessageRow]
  BY <1>0 DEF MailInv, TypeOK, Statuses
<1>2. PICK others \in SUBSET Users : others = members \ {rows[s].author}
  BY DEF MailInv, TypeOK
<1>3. PICK r : r = [rows[s] EXCEPT !.state = "kept", !.any = others # {}, !.unread = others]
  OBVIOUS
<1>4. /\ r \in MessageRow /\ r.state = "kept" /\ r.unread = others
      /\ r.author = rows[s].author /\ r.since = rows[s].since
      /\ r.served = rows[s].served /\ r.got = rows[s].got /\ r.age = rows[s].age /\ r.due = rows[s].due
  BY <1>1, <1>3 DEF MessageRow
<1>5. rows' = [rows EXCEPT ![s] = r]
  BY <1>0, <1>1, <1>2, <1>3 DEF Statuses
<1>6. rows' \in [Ids -> MessageRow] /\ rows'[s] = r /\ \A m \in Ids : m # s => rows'[m] = rows[m]
  BY <1>1, <1>4, <1>5
<1>7. TypeOK'
  BY <1>1, <1>6, NoneAssumption DEF MailInv, TypeOK, Statuses
<1>8. ASSUME NEW m \in Ids, m # s PROVE RowInv(m)' /\ Effect(m)
  BY <1>0, <1>1, <1>6, <1>8, SameRow, NoneAssumption DEF MailInv, Statuses
<1>9. RowInv(s)' /\ Effect(s)
  BY <1>0, <1>1, <1>2, <1>4, <1>6 DEF MailInv, RowInv, Effect, Owed, Released, MailPhase, Shown, Exists, Statuses
<1> QED BY <1>7, <1>8, <1>9 DEF Harmless

(* u's status of each of ms is read.                                        *)
LEMMA ReadStep ==
  ASSUME MailInv, NEW u \in Users, NEW ms \in SUBSET Ids, LoopFree, Read(u, ms), \A m \in ms : Shown(m),
         UNCHANGED <<members, sending, fetch, job, said, doubt, changes, fails>>
  PROVE  Harmless
<1>1. rows \in [Ids -> MessageRow]
  BY DEF MailInv, TypeOK
<1>2. \A m \in Ids : m \notin ms => rows'[m] = rows[m]
  BY DEF Read
<1>3. ASSUME NEW m \in ms
      PROVE  /\ rows'[m] \in MessageRow /\ rows'[m].state = rows[m].state
             /\ rows'[m].unread = rows[m].unread \ {u} /\ rows'[m].served = rows[m].served \cup {u}
             /\ rows'[m].author = rows[m].author /\ rows'[m].since = rows[m].since
             /\ rows'[m].got = rows[m].got /\ rows'[m].age = rows[m].age /\ rows'[m].due = rows[m].due
  <2>1. rows[m] \in MessageRow /\ rows[m].unread \in SUBSET Users /\ rows[m].served \in SUBSET Users
    BY <1>1 DEF MessageRow
  <2>2. PICK un \in SUBSET Users, se \in SUBSET Users :
           un = rows[m].unread \ {u} /\ se = rows[m].served \cup {u}
    BY <2>1
  <2>3. rows'[m] = [rows[m] EXCEPT !.any = TRUE, !.unread = un, !.served = se]
    BY <2>2 DEF Read
  <2> QED BY <2>1, <2>2, <2>3 DEF MessageRow
<1>4. rows' \in [Ids -> MessageRow]
  <2>1. \A m \in Ids : rows'[m] \in MessageRow
    BY <1>1, <1>2, <1>3
  <2> QED BY <2>1 DEF Read
<1>5. TypeOK'
  BY <1>4, NoneAssumption DEF MailInv, TypeOK, LoopFree
<1>6. ASSUME NEW m \in Ids, m \notin ms PROVE RowInv(m)' /\ Effect(m)
  BY <1>2, <1>6, SameRow DEF MailInv
<1>7. ASSUME NEW m \in ms PROVE RowInv(m)' /\ Effect(m)
  BY <1>3, <1>7 DEF MailInv, RowInv, Effect, Owed, Released, MailPhase, Shown, Exists
<1> QED BY <1>5, <1>6, <1>7 DEF Harmless

LEMMA MarkReadStep ==
  ASSUME MailInv, NEW u \in Users, NEW m \in Ids, MarkRead(u, m) PROVE Harmless
BY ReadStep DEF MarkRead

LEMMA MarkChatReadStep ==
  ASSUME MailInv, NEW u \in Users, MarkChatRead(u) PROVE Harmless
<1>1. PICK ms \in SUBSET Ids : ms = {m \in Ids : Shown(m) /\ u \in rows[m].unread}
  OBVIOUS
<1> QED BY <1>1, ReadStep DEF MarkChatRead

(* Rows that are withdrawn are owed to nobody, and the relay is free.       *)
LEMMA WithdrawnEffect ==
  ASSUME MailInv, NEW m \in Ids, Exists(m), NEW r \in MessageRow, rows'[m] = r,
         r.state = "withdrawn", r.since = {}, r.due = "no"
  PROVE  RowInv(m)' /\ Effect(m)
BY DEF MailInv, RowInv, Effect, Owed, Released, MailPhase, Shown, Exists

LEMMA WithdrawStep ==
  ASSUME MailInv, LoopFree, NEW ms \in SUBSET Ids, rows' = Withdrawn(ms),
         UNCHANGED <<members, sending, fetch, job, said, doubt, changes, fails>>
  PROVE  Harmless
<1>1. rows \in [Ids -> MessageRow] /\ sending = None
  BY DEF MailInv, TypeOK, LoopFree
<1>2. /\ rows' \in [Ids -> MessageRow]
      /\ \A m \in Ids : rows'[m] = IF m \in ms /\ Exists(m) THEN Remains(rows[m]) ELSE rows[m]
  BY <1>1, WithdrawnType
<1>3. TypeOK'
  BY <1>1, <1>2, NoneAssumption DEF MailInv, TypeOK
<1>4. ASSUME NEW m \in Ids, m \in ms, Exists(m) PROVE RowInv(m)' /\ Effect(m)
  <2>1. rows[m] \in MessageRow
    BY <1>1
  <2> QED BY <1>2, <1>4, <2>1, WithdrawnRow, WithdrawnEffect
<1>5. ASSUME NEW m \in Ids, ~(m \in ms /\ Exists(m)) PROVE RowInv(m)' /\ Effect(m)
  BY <1>2, <1>5, SameRow DEF MailInv
<1> QED BY <1>3, <1>4, <1>5 DEF Harmless

LEMMA DeleteStep ==
  ASSUME MailInv, NEW u \in Users, NEW m \in Ids, DeleteMessage(u, m) PROVE Harmless
BY WithdrawStep DEF DeleteMessage

LEMMA CleanupStep == ASSUME MailInv, CleanupEphemeral PROVE Harmless
BY WithdrawStep DEF CleanupEphemeral, Expired

LEMMA ViewedStep ==
  ASSUME MailInv, NEW u \in Users, NEW m \in Ids, MarkViewed(u, m) PROVE Harmless
<1>1. rows \in [Ids -> MessageRow] /\ sending = None
  BY DEF MailInv, TypeOK, LoopFree, MarkViewed
<1>2. PICK w : w = Withdrawn({m})
  OBVIOUS
<1>3. /\ w \in [Ids -> MessageRow] /\ w[m] = Remains(rows[m])
      /\ \A x \in Ids : x # m => w[x] = rows[x]
  <2>1. {m} \in SUBSET Ids /\ Exists(m)
    BY DEF MarkViewed
  <2> QED BY <1>1, <1>2, <2>1, WithdrawnType
<1>4. PICK r : r = [w[m] EXCEPT !.viewer = u]
  OBVIOUS
<1>5. r \in MessageRow /\ r.state = "withdrawn" /\ r.since = {} /\ r.due = "no"
  <2>1. rows[m] \in MessageRow
    BY <1>1
  <2>2. w[m] \in MessageRow /\ w[m].state = "withdrawn" /\ w[m].since = {} /\ w[m].due = "no"
    BY <1>3, <2>1, WithdrawnRow
  <2> QED BY <1>4, <2>2 DEF MessageRow
<1>6. rows' = [w EXCEPT ![m] = r]
  BY <1>2, <1>3, <1>4 DEF MarkViewed
<1>7. rows' \in [Ids -> MessageRow] /\ rows'[m] = r /\ \A x \in Ids : x # m => rows'[x] = rows[x]
  BY <1>3, <1>5, <1>6
<1>8. TypeOK'
  BY <1>1, <1>7, NoneAssumption DEF MailInv, TypeOK, MarkViewed
<1>9. RowInv(m)' /\ Effect(m)
  BY <1>5, <1>7, WithdrawnEffect DEF MarkViewed
<1>10. ASSUME NEW x \in Ids, x # m PROVE RowInv(x)' /\ Effect(x)
  BY <1>7, <1>10, SameRow DEF MailInv, MarkViewed
<1> QED BY <1>8, <1>9, <1>10 DEF Harmless

(* A thread has stamped what it read: either the other participant read it, *)
(* or the message is in doubt.                                              *)
LEMMA StampStep == ASSUME MailInv, StampDelivered PROVE Harmless
<1>1. rows \in [Ids -> MessageRow] /\ fetch \in [by : Users, page : SUBSET Ids, new : SUBSET Ids]
  BY DEF MailInv, TypeOK, StampDelivered
<1>2. fetch.page \in SUBSET Ids /\ fetch.by \in Users /\ fetch.new \in SUBSET Ids
  BY <1>1
<1>3. PICK seen : seen = [m \in Ids |-> IF m \in fetch.page /\ Shown(m) THEN [rows[m] EXCEPT !.served = @ \cup {fetch.by}]
                                       ELSE rows[m]]
  OBVIOUS
<1>4. PICK stamped \in SUBSET Ids : stamped = IF Pair THEN {m \in fetch.new : Shown(m)} ELSE {}
  BY <1>1
<1>5. /\ rows' = [m \in Ids |-> IF m \in stamped THEN [seen[m] EXCEPT !.got = "fresh"] ELSE seen[m]]
      /\ doubt' = doubt \cup {m \in stamped : Cardinality(members) = 2 /\ members # {rows[m].author, fetch.by}}
      /\ fetch' = None /\ UNCHANGED <<members, sending, job, said, changes, fails>>
  BY <1>3, <1>4 DEF StampDelivered, Pair
<1>6. stamped \subseteq fetch.page /\ (\A m \in stamped : Shown(m)) /\ (stamped # {} => Cardinality(members) = 2)
  <2>1. fetch.new \subseteq fetch.page
    BY NoneAssumption DEF MailInv, FetchInv, StampDelivered
  <2> QED BY <1>4, <2>1 DEF Pair
<1>7. ASSUME NEW m \in Ids
      PROVE  /\ seen[m] \in MessageRow /\ seen[m].state = rows[m].state /\ seen[m].unread = rows[m].unread
             /\ seen[m].author = rows[m].author /\ seen[m].since = rows[m].since
             /\ seen[m].got = rows[m].got /\ seen[m].age = rows[m].age /\ seen[m].due = rows[m].due
             /\ rows[m].served \subseteq seen[m].served
             /\ m \in fetch.page /\ Shown(m) => fetch.by \in seen[m].served
  <2>1. rows[m] \in MessageRow /\ rows[m].served \in SUBSET Users
    BY <1>1 DEF MessageRow
  <2>2. PICK se \in SUBSET Users : se = rows[m].served \cup {fetch.by}
    BY <1>2, <2>1
  <2>3. seen[m] = IF m \in fetch.page /\ Shown(m) THEN [rows[m] EXCEPT !.served = se] ELSE rows[m]
    BY <1>3, <2>2
  <2> QED BY <2>1, <2>2, <2>3 DEF MessageRow
<1>8. ASSUME NEW m \in Ids
      PROVE  /\ rows'[m] \in MessageRow /\ rows'[m].state = rows[m].state /\ rows'[m].unread = rows[m].unread
             /\ rows'[m].author = rows[m].author /\ rows'[m].since = rows[m].since /\ rows'[m].age = rows[m].age
             /\ rows'[m].due = rows[m].due
             /\ rows'[m].got = IF m \in stamped THEN "fresh" ELSE rows[m].got
             /\ rows[m].served \subseteq rows'[m].served
             /\ m \in stamped => fetch.by \in rows'[m].served
  <2>1. rows'[m] = IF m \in stamped THEN [seen[m] EXCEPT !.got = "fresh"] ELSE seen[m]
    BY <1>5
  <2>2. CASE m \in stamped
    BY <1>6, <1>7, <2>1, <2>2 DEF MessageRow
  <2>3. CASE m \notin stamped
    BY <1>7, <2>1, <2>3
  <2> QED BY <2>2, <2>3
<1>9. TypeOK'
  <2>1. rows' \in [Ids -> MessageRow]
    BY <1>5, <1>8
  <2> QED BY <1>5, <1>8, <2>1, NoneAssumption DEF MailInv, TypeOK
<1>10. ASSUME NEW m \in Ids PROVE RowInv(m)'
  <2>1. CASE m \in stamped /\ m \notin doubt'
    <3>1. members = {rows[m].author, fetch.by}
      BY <1>5, <1>6, <2>1
    <3>2. /\ rows[m].since \subseteq members
          /\ rows[m].state = "kept" => rows[m].since \ {rows[m].author} \subseteq rows[m].unread \cup rows[m].served
      BY DEF MailInv, RowInv
    <3>3. rows'[m].since \ {rows'[m].author} \subseteq rows'[m].served
      BY <1>8, <2>1, <3>1, <3>2
    <3>4. members' = members
      BY <1>5
    <3> QED BY <1>8, <3>2, <3>3, <3>4 DEF RowInv
  <2>2. CASE m \notin stamped \/ m \in doubt'
    <3>1. rows'[m].got # "no" /\ m \notin doubt' => rows[m].got # "no" /\ m \notin doubt
      BY <1>5, <1>8, <2>2
    <3>2. RowInv(m) /\ members' = members
      BY <1>5 DEF MailInv
    <3> QED BY <1>8, <3>1, <3>2 DEF RowInv, Shown
  <2> QED BY <2>1, <2>2
<1>11. ASSUME NEW m \in Ids PROVE Effect(m)
  <2>1. rows[m].since \subseteq members /\ (rows'[m].got = "no" => rows[m].got = "no")
    BY <1>8 DEF MailInv, RowInv
  <2>2. Owed(m)' \subseteq Owed(m)
    BY <1>5, <1>8, <2>1 DEF Owed, Shown, MailInv, RowInv
  <2> QED BY <1>5, <1>8, <2>2 DEF Effect, Released, MailPhase, Exists
<1> QED BY <1>9, <1>10, <1>11 DEF Harmless

LEMMA LeaveStep == ASSUME MailInv, NEW u \in Users, Leave(u) PROVE Harmless
<1>1. rows \in [Ids -> MessageRow] /\ members' = members \ {u} /\ UNCHANGED <<sending, doubt>>
  BY DEF MailInv, TypeOK, Leave
<1>2. ASSUME NEW m \in Ids
      PROVE  /\ rows'[m] \in MessageRow /\ rows'[m].state = rows[m].state /\ rows'[m].unread = rows[m].unread
             /\ rows'[m].author = rows[m].author /\ rows'[m].since = rows[m].since \ {u}
             /\ rows'[m].got = rows[m].got /\ rows'[m].age = rows[m].age /\ rows'[m].served = rows[m].served
             /\ rows'[m].due = rows[m].due
  <2>1. rows[m] \in MessageRow /\ rows[m].since \in SUBSET Users
    BY <1>1 DEF MessageRow
  <2>2. PICK si \in SUBSET Users : si = rows[m].since \ {u}
    BY <2>1
  <2>3. rows'[m] = [rows[m] EXCEPT !.since = si]
    BY <2>2 DEF Leave
  <2> QED BY <2>1, <2>2, <2>3 DEF MessageRow
<1>3. TypeOK'
  <2>1. rows' \in [Ids -> MessageRow]
    BY <1>2 DEF Leave
  <2> QED BY <1>2, <2>1, NoneAssumption DEF MailInv, TypeOK, Leave
<1>4. ASSUME NEW m \in Ids PROVE RowInv(m)' /\ Effect(m)
  BY <1>1, <1>2 DEF MailInv, RowInv, Effect, Owed, Released, MailPhase, Shown, Exists
<1> QED BY <1>3, <1>4 DEF Harmless

(* Time passes: a mark of a row moves on.                                   *)
LEMMA TimeEffect ==
  ASSUME MailInv, NEW m \in Ids, NEW r \in MessageRow, rows' = [rows EXCEPT ![m] = r], Shown(m),
         r.state = rows[m].state, r.author = rows[m].author, r.unread = rows[m].unread,
         r.since = rows[m].since, r.served = rows[m].served,
         r.got = "no" <=> rows[m].got = "no", r.due # "no" => rows[m].due # "no", rows[m].age = "old" => r.age = "old",
         UNCHANGED <<members, sending, fetch, job, said, doubt, changes, fails>>
  PROVE  Harmless
<1>1. rows \in [Ids -> MessageRow]
  BY DEF MailInv, TypeOK
<1>2. rows' \in [Ids -> MessageRow] /\ rows'[m] = r /\ \A x \in Ids : x # m => rows'[x] = rows[x]
  BY <1>1
<1>3. TypeOK'
  BY <1>2, NoneAssumption DEF MailInv, TypeOK
<1>4. RowInv(m)' /\ Effect(m)
  BY <1>2 DEF MailInv, RowInv, Effect, Owed, Released, MailPhase, Shown, Exists
<1>5. ASSUME NEW x \in Ids, x # m PROVE RowInv(x)' /\ Effect(x)
  BY <1>2, <1>5, SameRow DEF MailInv
<1> QED BY <1>3, <1>4, <1>5 DEF Harmless

LEMMA TimeStepHarmless == ASSUME MailInv, NEW m \in Ids, TimeStep(m) PROVE Harmless
<1>1. rows[m] \in MessageRow
  BY DEF MailInv, TypeOK
<1>2. CASE GrowOld(m)
  <2>1. PICK r : r = [rows[m] EXCEPT !.age = "old"]
    OBVIOUS
  <2> QED BY <1>1, <1>2, <2>1, TimeEffect DEF GrowOld, MessageRow
<1>3. CASE GraceEnds(m)
  <2>1. PICK r : r = [rows[m] EXCEPT !.got = "past"]
    OBVIOUS
  <2> QED BY <1>1, <1>3, <2>1, TimeEffect DEF GraceEnds, MessageRow
<1>4. CASE Expires(m)
  <2>1. PICK r : r = [rows[m] EXCEPT !.ttl = "past"]
    OBVIOUS
  <2> QED BY <1>1, <1>4, <2>1, TimeEffect DEF Expires, MessageRow
<1>5. CASE FallsDue(m)
  <2>1. PICK r : r = [rows[m] EXCEPT !.due = "now"]
    OBVIOUS
  <2> QED BY <1>1, <1>5, <2>1, TimeEffect DEF FallsDue, MessageRow
<1> QED BY <1>2, <1>3, <1>4, <1>5 DEF TimeStep

-----------------------------------------------------------------------------
(* The ticks of the loop. What a purge takes is owed to nobody, or the      *)
(* relay is free of it.                                                     *)
LEMMA Doom ==
  ASSUME MailInv, LoopFree, NEW m \in Ids, Shown(m),
         rows[m].got = "past" \/ rows[m].age = "old" \/ AllRead(m)
  PROVE  Owed(m) = {} \/ Released(m)
<1>1. RowInv(m)
  BY DEF MailInv
<1>2. CASE rows[m].got = "past"
  BY <1>1, <1>2 DEF RowInv, Owed, Released, Exists, Shown
<1>3. CASE rows[m].age = "old"
  BY <1>3 DEF Released, Exists, Shown
<1>4. CASE AllRead(m)
  <2>1. rows[m].unread = {} /\ members \subseteq rows[m].since
    BY <1>4 DEF AllRead, Late
  <2>2. rows[m].state = "half" => Released(m)
    BY NoneAssumption DEF Released, LoopFree
  <2> QED BY <1>1, <2>1, <2>2 DEF RowInv, Owed, Shown
<1> QED BY <1>2, <1>3, <1>4

(* A tick leaves a row but for its time, withdraws it or purges it.         *)
Alike(r, m) ==
    /\ r.state = rows[m].state /\ r.author = rows[m].author /\ r.unread = rows[m].unread
    /\ r.since = rows[m].since /\ r.served = rows[m].served /\ r.got = rows[m].got
    /\ r.age = rows[m].age /\ (r.due # "no" => rows[m].due # "no")
Gone(r, m) == Exists(m) /\ r.state = "withdrawn" /\ r.since = {} /\ r.due = "no"

LEMMA TickRows ==
  ASSUME MailInv, LoopFree, NEW rs \in [Ids -> MessageRow], \A m \in Ids : Alike(rs[m], m) \/ Gone(rs[m], m),
         rows' = rs \/ rows' = Purge(rs), TypeOK', UNCHANGED <<members, sending, doubt>>
  PROVE  Harmless
<1> SUFFICES ASSUME NEW m \in Ids PROVE RowInv(m)' /\ Effect(m)
  BY DEF Harmless
<1>1. RowInv(m) /\ sending # m
  BY NoneAssumption DEF MailInv, LoopFree
<1>2. CASE rows'[m] = rs[m] /\ Alike(rs[m], m)
  BY <1>1, <1>2 DEF Alike, RowInv, Effect, Owed, Released, MailPhase, Shown, Exists
<1>3. CASE rows'[m] = rs[m] /\ Gone(rs[m], m)
  BY <1>1, <1>3 DEF Gone, RowInv, Effect, Owed, Released, MailPhase, Shown, Exists
<1>4. CASE rows'[m] # rs[m]
  <2>1. Doomed(m, rs) /\ rows'[m] = PurgedRow
    BY <1>4, PurgeType
  <2>2. Alike(rs[m], m) /\ Shown(m) /\ (rows[m].got = "past" \/ rows[m].age = "old" \/ AllRead(m))
    BY <2>1 DEF Doomed, Alike, Gone, Shown
  <2>3. Owed(m) = {} \/ Released(m)
    BY <2>2, Doom
  <2> QED BY <1>1, <2>1, <2>2, <2>3, PurgeType DEF RowInv, Effect, Owed, Released, MailPhase, Shown, Exists
<1> QED BY <1>2, <1>3, <1>4

LEMMA SentRows ==
  ASSUME MailInv, NEW ms
  PROVE  Sent(ms) \in [Ids -> MessageRow] /\ \A m \in Ids : Alike(Sent(ms)[m], m) /\ (m \in ms => Sent(ms)[m].due = "no")
<1>1. rows \in [Ids -> MessageRow]
  BY DEF MailInv, TypeOK
<1>2. ASSUME NEW m \in Ids PROVE Alike(Sent(ms)[m], m) /\ (m \in ms => Sent(ms)[m].due = "no")
  <2>1. rows[m] \in MessageRow
    BY <1>1
  <2>2. Sent(ms)[m] = IF m \in ms THEN [rows[m] EXCEPT !.due = "no"] ELSE rows[m]
    BY DEF Sent
  <2> QED BY <2>1, <2>2 DEF Alike, MessageRow
<1> QED BY <1>1, <1>2, SentType

LEMMA WithdrawnRows ==
  ASSUME MailInv, NEW ms \in SUBSET Ids
  PROVE  /\ Withdrawn(ms) \in [Ids -> MessageRow]
         /\ \A m \in Ids : Alike(Withdrawn(ms)[m], m) \/ Gone(Withdrawn(ms)[m], m)
<1>1. rows \in [Ids -> MessageRow]
  BY DEF MailInv, TypeOK
<1>2. ASSUME NEW m \in Ids PROVE Alike(Withdrawn(ms)[m], m) \/ Gone(Withdrawn(ms)[m], m)
  <2>1. rows[m] \in MessageRow
    BY <1>1
  <2>2. Withdrawn(ms)[m] = IF m \in ms /\ Exists(m) THEN Remains(rows[m]) ELSE rows[m]
    BY <1>1, WithdrawnType
  <2> QED BY <2>1, <2>2, WithdrawnRow DEF Alike, Gone
<1> QED BY <1>1, <1>2, WithdrawnType

LEMMA AtScheduledHarmless ==
  ASSUME MailInv, LoopFree, NEW rs \in [Ids -> MessageRow], \A m \in Ids : Alike(rs[m], m) \/ Gone(rs[m], m),
         AtScheduled(rs), UNCHANGED <<members, sending, fetch, said, doubt, changes>>, fails' \in Nat
  PROVE  Harmless
<1>1. TypeOK'
  BY AtScheduledType, NoneAssumption DEF MailInv, TypeOK, LoopFree
<1>2. rows' = rs \/ rows' = Purge(rs)
  BY DEF AtScheduled
<1> QED BY <1>1, <1>2, TickRows

LEMMA RowsAlike == ASSUME MailInv PROVE rows \in [Ids -> MessageRow] /\ \A m \in Ids : Alike(rows[m], m)
BY DEF MailInv, TypeOK, Alike

LEMMA PurgeHarmless ==
  ASSUME MailInv, LoopFree, NEW rs \in [Ids -> MessageRow], \A m \in Ids : Alike(rs[m], m),
         rows' = Purge(rs), job' = Resting, UNCHANGED <<members, sending, fetch, said, doubt, changes>>, fails' \in Nat
  PROVE  Harmless
<1>1. TypeOK'
  BY PurgeType, NoneAssumption DEF MailInv, TypeOK, LoopFree, Resting
<1> QED BY <1>1, TickRows

LEMMA StartTickStep == ASSUME MailInv, StartTick PROVE Harmless
<1>0. LoopFree /\ UNCHANGED <<members, sending, fetch, said, doubt, changes, fails>> /\ fails' \in Nat
  BY DEF MailInv, TypeOK, StartTick
<1>1. CASE Expired = {}
  <2>1. AtScheduled(rows)
    BY <1>1 DEF StartTick
  <2> QED BY <1>0, <2>1, RowsAlike, AtScheduledHarmless
<1>2. CASE Expired # {}
  <2>1. rows' = rows /\ job' \in [step : {"rest", "expired", "scheduled"}, todo : SUBSET Ids, done : SUBSET Ids]
    BY <1>2 DEF StartTick, Expired
  <2>2. TypeOK'
    BY <1>0, <2>1 DEF MailInv, TypeOK
  <2> QED BY <1>0, <2>1, <2>2, SameRows
<1> QED BY <1>1, <1>2

LEMMA CommitTickStep == ASSUME MailInv, CommitTick PROVE Harmless
<1>0. /\ LoopFree /\ UNCHANGED <<members, sending, fetch, said, doubt, changes, fails>> /\ fails' \in Nat
      /\ job.done \in SUBSET Ids
  BY DEF MailInv, TypeOK, CommitTick
<1>1. CASE job.step = "expired"
  <2>1. AtScheduled(Withdrawn(job.done))
    BY <1>1 DEF CommitTick
  <2> QED BY <1>0, <2>1, WithdrawnRows, AtScheduledHarmless
<1>2. CASE job.step # "expired"
  <2>1. rows' = Purge(Sent(job.done)) /\ job' = Resting
    BY <1>2 DEF CommitTick
  <2> QED BY <1>0, <2>1, SentRows, PurgeHarmless
<1> QED BY <1>1, <1>2

LEMMA TickFailsStep == ASSUME MailInv, TickFails PROVE Harmless
<1>0. LoopFree /\ UNCHANGED <<members, sending, fetch, said, doubt, changes>> /\ fails' \in Nat
  BY DEF MailInv, TypeOK, TickFails
<1>1. CASE job.step = "expired"
  <2>1. AtScheduled(rows)
    BY <1>1 DEF TickFails
  <2> QED BY <1>0, <2>1, RowsAlike, AtScheduledHarmless
<1>2. CASE job.step # "expired"
  <2>1. rows' = Purge(rows) /\ job' = Resting
    BY <1>2 DEF TickFails
  <2> QED BY <1>0, <2>1, RowsAlike, PurgeHarmless
<1> QED BY <1>1, <1>2

-----------------------------------------------------------------------------
(* The two steps that make the relay owe more.                              *)

LEMMA StoreStep ==
  ASSUME MailInv, NEW u \in Users, NEW m \in Ids, NEW once \in BOOLEAN, NEW ttl \in {"never", "running"},
         NEW due \in {"no", "later"}, Store(u, m, once, ttl, due)
  PROVE  /\ TypeOK' /\ Promise!Store(m) /\ rows[m].state = "none" /\ job' = job /\ said' = said /\ fails' = fails
         /\ \A x \in Ids : RowInv(x)' /\ (x # m => rows'[x] = rows[x])
<1>1. /\ rows \in [Ids -> MessageRow] /\ sending = None /\ members \in SUBSET Users
      /\ rows[m].state = "none" /\ sending' = m /\ UNCHANGED <<members, fetch, job, said, doubt, changes, fails>>
  BY DEF MailInv, TypeOK, Store, LoopFree
<1>2. PICK r : r = [NoRow EXCEPT !.state = "half", !.author = u, !.once = once, !.ttl = ttl,
                                 !.due = due, !.since = members]
  OBVIOUS
<1>3. /\ r \in MessageRow /\ r.state = "half" /\ r.author = u /\ r.since = members
      /\ r.got = "no" /\ r.age = "young"
  BY <1>1, <1>2, EmptyRow DEF MessageRow
<1>4. rows' = [rows EXCEPT ![m] = r]
  BY <1>2 DEF Store
<1>5. rows' \in [Ids -> MessageRow] /\ rows'[m] = r /\ \A x \in Ids : x # m => rows'[x] = rows[x]
  BY <1>1, <1>3, <1>4
<1>6. TypeOK'
  BY <1>1, <1>3, <1>5, NoneAssumption DEF MailInv, TypeOK
<1>7. ASSUME NEW x \in Ids PROVE RowInv(x)'
  <2>1. RowInv(x)
    BY DEF MailInv
  <2> QED BY <1>1, <1>3, <1>5, <2>1 DEF RowInv, Shown
<1>8. ASSUME NEW x \in Ids, x # m
      PROVE  MailPhase(x)' = MailPhase(x) /\ Owed(x)' = Owed(x) /\ (Released(x) => Released(x)')
  BY <1>1, <1>5, <1>8 DEF MailPhase, Owed, Released, Shown, Exists
<1>9. MailPhase(m) = "new" /\ MailPhase(m)' = "held" /\ ~Released(m)
  BY <1>1, <1>3, <1>5 DEF MailPhase, Released, Exists
<1>10. Owed(m)' \in SUBSET Users
  <2>1. rows'[m].since \in SUBSET Users /\ members' \in SUBSET Users
    BY <1>1, <1>3, <1>5
  <2> QED BY <2>1 DEF Owed
<1>11. Promise!Store(m)
  <2>1. [x \in Ids |-> MailPhase(x)]' = [[x \in Ids |-> MailPhase(x)] EXCEPT ![m] = "held"]
    BY <1>8, <1>9
  <2>2. [x \in Ids |-> Owed(x)]' = [[x \in Ids |-> Owed(x)] EXCEPT ![m] = Owed(m)']
    BY <1>8
  <2>3. {x \in Ids : Released(x)} \subseteq {x \in Ids : Released(x)}'
    BY <1>8, <1>9
  <2> QED BY <1>9, <1>10, <2>1, <2>2, <2>3 DEF Promise!Store
<1> QED BY <1>1, <1>5, <1>6, <1>7, <1>11

LEMMA JoinStep ==
  ASSUME MailInv, NEW u \in Users, Join(u)
  PROVE  TypeOK' /\ Promise!Join(u) /\ \A x \in Ids : RowInv(x)'
<1>1. members' = members \cup {u} /\ UNCHANGED <<rows, sending, fetch, job, said, doubt, fails>>
  BY DEF Join
<1>2. TypeOK'
  BY <1>1 DEF MailInv, TypeOK, Join
<1>3. ASSUME NEW x \in Ids
      PROVE  /\ RowInv(x)' /\ MailPhase(x)' = MailPhase(x) /\ (Released(x)' <=> Released(x))
             /\ Owed(x)' \in SUBSET Users /\ Owed(x)' \subseteq Owed(x) \cup {u}
  <2>1. rows[x] \in MessageRow /\ members' \in SUBSET Users
    BY <1>2 DEF MailInv, TypeOK
  <2>2. rows[x].since \in SUBSET Users
    BY <2>1 DEF MessageRow
  <2>3. RowInv(x)
    BY DEF MailInv
  <2> QED BY <1>1, <2>1, <2>2, <2>3 DEF RowInv, MailPhase, Owed, Released, Shown, Exists
<1>4. Promise!Join(u)
  BY <1>3 DEF Promise!Join
<1> QED BY <1>2, <1>3, <1>4

-----------------------------------------------------------------------------
(* The announcements. A message the loop has not announced in the tick it   *)
(* is in, and still has to, has been announced once for each failure at     *)
(* most; a tick that fails makes the announced ones wait again.             *)

Waiting(m) ==
    \/ rows[m].state = "none"
    \/ rows[m].due # "no" /\ ~(job.step = "scheduled" /\ m \in job.done)
    \/ job.step = "scheduled" /\ m \in job.todo

SaidInv == \A m \in Ids : said[m] <= 1 + fails /\ (Waiting(m) => said[m] <= fails)

(* What the loop announces has been stored.                                 *)
JobInv == \A m \in Ids : m \in job.todo => rows[m].state # "none"

(* What a step does to the rows and makes nothing wait that did not.        *)
Quiet == \A m \in Ids :
    /\ rows'[m].state = "none" => rows[m].state = "none"
    /\ rows'[m].due # "no" => rows[m].due # "no" \/ rows[m].state = "none"

LEMMA HarmlessQuiet == ASSUME Harmless PROVE Quiet
BY DEF Harmless, Effect, MailPhase, Quiet

LEMMA SaidStays == ASSUME SaidInv, Quiet, UNCHANGED <<job, said, fails>> PROVE SaidInv'
BY DEF SaidInv, Waiting, Quiet

(* A failure makes room for one announcement more.                          *)
LEMMA SaidFails == ASSUME TypeOK, SaidInv, said' = said, fails' = fails + 1 PROVE SaidInv'
BY DEF TypeOK, SaidInv

(* A tick starts or stays before its scheduled messages, or ends; those it  *)
(* takes up have been waiting.                                              *)
LEMMA SaidAtScheduled ==
  ASSUME TypeOK, SaidInv, Quiet, job.step # "scheduled", NEW rs, AtScheduled(rs), said' = said, fails' = fails
  PROVE  SaidInv'
<1>1. CASE job' = Resting
  BY <1>1 DEF SaidInv, Waiting, Quiet, Resting
<1>2. CASE job' # Resting
  <2>1. PICK due : due = {m \in Ids : rs[m].due = "now" /\ rs[m].state \in {"half", "kept"}}
    OBVIOUS
  <2>2. rows' = rs /\ job' = [step |-> "scheduled", todo |-> due, done |-> {}]
    BY <1>2, <2>1 DEF AtScheduled
  <2>3. \A m \in Ids : Waiting(m)' => Waiting(m)
    BY <2>1, <2>2 DEF Waiting, Quiet
  <2> QED BY <2>3 DEF SaidInv
<1> QED BY <1>1, <1>2

LEMMA JobStays == ASSUME JobInv, Quiet, job'.todo \subseteq job.todo PROVE JobInv'
BY DEF JobInv, Quiet

LEMMA JobAtScheduled == ASSUME NEW rs, AtScheduled(rs) PROVE JobInv'
<1>1. CASE job' = Resting
  BY <1>1 DEF JobInv, Resting
<1>2. CASE job' # Resting
  <2>1. PICK due : due = {m \in Ids : rs[m].due = "now" /\ rs[m].state \in {"half", "kept"}}
    OBVIOUS
  <2>2. rows' = rs /\ job' = [step |-> "scheduled", todo |-> due, done |-> {}]
    BY <1>2, <2>1 DEF AtScheduled
  <2> QED BY <2>1, <2>2 DEF JobInv
<1> QED BY <1>1, <1>2

LEMMA JobRests == ASSUME job' = Resting PROVE JobInv'
BY DEF JobInv, Resting

LEMMA SaidCommit ==
  ASSUME MailInv, SaidInv, CommitTick, job.step = "scheduled", Quiet PROVE SaidInv'
<1>1. rows' = Purge(Sent(job.done)) /\ job' = Resting /\ job.todo = {} /\ UNCHANGED <<said, fails>>
  BY DEF CommitTick
<1>2. ASSUME NEW m \in Ids, Waiting(m)' PROVE Waiting(m)
  <2>1. rows'[m].state = "none" \/ rows'[m].due # "no"
    BY <1>1, <1>2 DEF Waiting, Resting
  <2>2. m \in job.done => rows'[m].due = "no"
    BY <1>1, SentRows, PurgeType
  <2> QED BY <2>1, <2>2 DEF Waiting, Quiet
<1> QED BY <1>1, <1>2 DEF SaidInv

LEMMA SaidAnnounce == ASSUME MailInv, SaidInv, JobInv, NEW m \in Ids, Announce(m) PROVE SaidInv'
<1>1. /\ rows' = rows /\ fails' = fails /\ m \in job.todo /\ fails \in Nat /\ said \in [Ids -> Nat]
      /\ job \in [step : {"rest", "expired", "scheduled"}, todo : SUBSET Ids, done : SUBSET Ids]
  BY DEF MailInv, TypeOK, Announce
<1>2. job'.step = job.step /\ job'.todo = job.todo \ {m} /\ job'.done = job.done \cup {m}
  BY <1>1 DEF Announce
<1>3. CASE job.step = "scheduled"
  <2>1. said' = [said EXCEPT ![m] = @ + 1]
    BY <1>3 DEF Announce
  <2>2. said[m] <= fails /\ said'[m] = said[m] + 1 /\ \A x \in Ids : x # m => said'[x] = said[x]
    BY <1>1, <1>3, <2>1 DEF SaidInv, Waiting
  <2>3. ASSUME NEW x \in Ids, x # m, Waiting(x)' PROVE Waiting(x)
    BY <1>1, <1>2, <2>3 DEF Waiting
  <2>4. ~Waiting(m)'
    BY <1>1, <1>2, <1>3 DEF Waiting, JobInv
  <2> QED BY <1>1, <2>2, <2>3, <2>4 DEF SaidInv
<1>4. CASE job.step # "scheduled"
  BY <1>1, <1>2, <1>4 DEF SaidInv, Waiting, Announce
<1> QED BY <1>3, <1>4

-----------------------------------------------------------------------------
(* The whole invariant.                                                     *)

Inv == MailInv /\ JobInv /\ SaidInv

LEMMA InvInit == Init => Inv
<1> SUFFICES ASSUME Init PROVE Inv
  OBVIOUS
<1>1. TypeOK
  BY InitialTypes
<1>2. \A m \in Ids : rows[m] = NoRow /\ said[m] = 0 /\ fetch = None /\ job.todo = {} /\ fails = 0
  BY DEF Init, Resting
<1>3. \A m \in Ids : RowInv(m)
  BY <1>2, EmptyRow DEF RowInv, Shown
<1> QED BY <1>1, <1>2, <1>3 DEF Init, Inv, MailInv, FetchInv, JobInv, SaidInv

(* The history requests in progress.                                        *)
LEMMA FetchNext == ASSUME MailInv, Next PROVE FetchInv'
<1>1. fetch' = fetch \/ fetch' = None \/ \E u \in Users : FetchHistory(u)
  BY DEF Next, UserStep, LoopStep, TimeStep, Join, Leave, MarkChatRead, SendMessage, SendEphemeral,
         NewMessage, Store, MarkRead, ReadReceipt, MarkViewed, DeleteMessage, DeleteFrame, Statuses,
         StatusesFail, StampDelivered, StartTick, CommitTick, TickFails, Announce, CleanupEphemeral,
         Restart, GrowOld, GraceEnds, Expires, FallsDue
<1>2. ASSUME NEW u \in Users, FetchHistory(u) PROVE FetchInv'
  BY <1>2 DEF FetchHistory, FetchInv
<1> QED BY <1>1, <1>2 DEF MailInv, FetchInv

(* Every step but a store or a join is one Mailbox may forget in.           *)
Quietly == Harmless /\ UNCHANGED <<job, said, fails>>
Ticking == StartTick \/ CommitTick \/ TickFails \/ Restart \/ \E m \in Ids : Announce(m)
Adding ==
    \/ \E u \in Users : Join(u)
    \/ \E u \in Users, m \in Ids, once \in BOOLEAN, ttl \in {"never", "running"}, due \in {"no", "later"} :
          Store(u, m, once, ttl, due)

LEMMA Steps == ASSUME MailInv, Next PROVE Adding \/ Ticking \/ Quietly
<1>1. ASSUME NEW u \in Users, UserStep(u) PROVE Adding \/ Quietly
  <2>1. CASE Leave(u)
    BY <2>1, LeaveStep DEF Leave, Quietly
  <2>2. CASE FetchHistory(u)
    BY <2>2, FetchStep DEF FetchHistory, Quietly
  <2>3. CASE MarkChatRead(u)
    BY <2>3, MarkChatReadStep DEF MarkChatRead, Quietly
  <2>4. ASSUME NEW m \in Ids, MarkRead(u, m) \/ ReadReceipt(u, m) PROVE Quietly
    BY <2>4, MarkReadStep DEF ReadReceipt, MarkRead, Quietly
  <2>5. ASSUME NEW m \in Ids, MarkViewed(u, m) PROVE Quietly
    BY <2>5, ViewedStep DEF MarkViewed, Quietly
  <2>6. ASSUME NEW m \in Ids, DeleteMessage(u, m) \/ DeleteFrame(u, m) PROVE Quietly
    BY <2>6, DeleteStep DEF DeleteFrame, DeleteMessage, Quietly
  <2>7. ASSUME NEW m \in Ids, SendMessage(u, m) \/ SendEphemeral(u, m) \/ NewMessage(u, m) PROVE Adding
    BY <2>7 DEF SendMessage, SendEphemeral, NewMessage, Adding
  <2> QED BY <1>1, <2>1, <2>2, <2>3, <2>4, <2>5, <2>6, <2>7 DEF UserStep, Adding
<1>2. CASE Statuses
  BY <1>2, StatusesStep DEF Statuses, Quietly
<1>3. CASE StatusesFail
  BY <1>3, StatusesFailStep DEF StatusesFail, Quietly
<1>4. CASE StampDelivered
  BY <1>4, StampStep DEF StampDelivered, Quietly
<1>5. CASE CleanupEphemeral
  BY <1>5, CleanupStep DEF CleanupEphemeral, Quietly
<1>6. ASSUME NEW m \in Ids, TimeStep(m) PROVE Quietly
  <2>1. Harmless
    BY <1>6, TimeStepHarmless
  <2>2. UNCHANGED <<job, said, fails>>
    BY <1>6 DEF TimeStep, GrowOld, GraceEnds, Expires, FallsDue
  <2> QED BY <2>1, <2>2 DEF Quietly
<1> QED BY <1>1, <1>2, <1>3, <1>4, <1>5, <1>6 DEF Next, LoopStep, Ticking

LEMMA TickingHarmless == ASSUME MailInv, Ticking PROVE Harmless
BY StartTickStep, CommitTickStep, TickFailsStep, RestartStep, AnnounceStep DEF Ticking

LEMMA TickingSaid == ASSUME Inv, Ticking, Quiet PROVE SaidInv' /\ JobInv'
<1>0. MailInv /\ TypeOK /\ SaidInv /\ JobInv
  BY DEF Inv, MailInv
<1>1. CASE StartTick
  <2>1. job.step # "scheduled" /\ UNCHANGED <<said, fails>>
    BY <1>1 DEF StartTick, Resting
  <2>2. CASE Expired = {}
    <3>1. AtScheduled(rows)
      BY <1>1, <2>2 DEF StartTick
    <3> QED BY <1>0, <2>1, <3>1, SaidAtScheduled, JobAtScheduled
  <2>3. CASE Expired # {}
    <3>1. job' = [step |-> "expired", todo |-> Expired, done |-> {}] /\ rows' = rows
      BY <1>1, <2>3 DEF StartTick
    <3> QED BY <1>0, <2>1, <3>1 DEF SaidInv, Waiting, JobInv, Expired, Shown
  <2> QED BY <2>2, <2>3
<1>2. CASE CommitTick
  <2>1. CASE job.step = "expired"
    <3>1. AtScheduled(Withdrawn(job.done)) /\ UNCHANGED <<said, fails>>
      BY <1>2, <2>1 DEF CommitTick
    <3> QED BY <1>0, <2>1, <3>1, SaidAtScheduled, JobAtScheduled
  <2>2. CASE job.step # "expired"
    <3>1. job.step = "scheduled"
      BY <1>0, <1>2, <2>2 DEF CommitTick, TypeOK
    <3>2. job' = Resting
      BY <1>2, <2>2 DEF CommitTick
    <3> QED BY <1>0, <1>2, <3>1, <3>2, SaidCommit, JobRests
  <2> QED BY <2>1, <2>2
<1>3. CASE TickFails
  <2>1. SaidInv'
    BY <1>0, <1>3, SaidFails DEF TickFails
  <2>2. JobInv'
    BY <1>3, JobAtScheduled, JobRests DEF TickFails
  <2> QED BY <2>1, <2>2
<1>4. CASE Restart
  BY <1>0, <1>4, SaidFails, JobRests DEF Restart
<1>5. ASSUME NEW m \in Ids, Announce(m) PROVE SaidInv' /\ JobInv'
  <2>1. job'.todo \subseteq job.todo
    BY <1>0, <1>5 DEF Announce, TypeOK
  <2> QED BY <1>0, <1>5, <2>1, SaidAnnounce, JobStays
<1> QED BY <1>1, <1>2, <1>3, <1>4, <1>5 DEF Ticking

LEMMA AddingInv ==
  ASSUME Inv, Adding
  PROVE  /\ TypeOK' /\ (\A m \in Ids : RowInv(m)') /\ SaidInv' /\ JobInv'
         /\ (\E m \in Ids : Promise!Store(m)) \/ (\E u \in Users : Promise!Join(u))
<1>0. MailInv /\ SaidInv /\ JobInv
  BY DEF Inv
<1>1. ASSUME NEW u \in Users, Join(u)
      PROVE  TypeOK' /\ (\A m \in Ids : RowInv(m)') /\ SaidInv' /\ JobInv' /\ Promise!Join(u)
  <2>1. rows' = rows /\ UNCHANGED <<job, said, fails>>
    BY <1>1 DEF Join
  <2>2. Quiet
    BY <2>1 DEF Quiet
  <2> QED BY <1>0, <1>1, <2>1, <2>2, JoinStep, SaidStays, JobStays
<1>2. ASSUME NEW u \in Users, NEW m \in Ids, NEW once \in BOOLEAN, NEW ttl \in {"never", "running"},
             NEW due \in {"no", "later"}, Store(u, m, once, ttl, due)
      PROVE  TypeOK' /\ (\A x \in Ids : RowInv(x)') /\ SaidInv' /\ JobInv' /\ Promise!Store(m)
  <2>1. /\ TypeOK' /\ Promise!Store(m) /\ rows[m].state = "none" /\ UNCHANGED <<job, said, fails>>
        /\ \A x \in Ids : RowInv(x)' /\ (x # m => rows'[x] = rows[x])
    BY <1>0, <1>2, StoreStep
  <2>2. rows'[m].state # "none"
    <3>1. PICK r : r = [NoRow EXCEPT !.state = "half", !.author = u, !.once = once, !.ttl = ttl,
                                     !.due = due, !.since = members]
      OBVIOUS
    <3>2. r.state = "half" /\ rows' = [rows EXCEPT ![m] = r] /\ rows \in [Ids -> MessageRow]
      BY <1>0, <1>2, <3>1 DEF NoRow, Store, MailInv, TypeOK
    <3> QED BY <3>2
  <2>3. Quiet
    BY <2>1, <2>2 DEF Quiet
  <2> QED BY <1>0, <2>1, <2>3, SaidStays, JobStays
<1> QED BY <1>1, <1>2 DEF Adding

LEMMA InvNext ==
  ASSUME Inv, Next
  PROVE  Inv' /\ ((\E m \in Ids : Promise!Store(m)) \/ (\E u \in Users : Promise!Join(u)) \/ Promise!Forget)
<1>0. MailInv /\ TypeOK /\ SaidInv /\ JobInv /\ FetchInv'
  BY FetchNext DEF Inv, MailInv
<1>1. CASE Adding
  BY <1>0, <1>1, AddingInv DEF Inv, MailInv
<1>2. CASE Harmless
  <2>1. Quiet
    BY <1>2, HarmlessQuiet
  <2>2. Promise!Forget
    BY <1>0, <1>2, ForgetStep DEF Harmless
  <2>3. CASE Ticking
    BY <1>0, <1>2, <2>1, <2>2, <2>3, TickingSaid DEF Inv, MailInv, Harmless
  <2>4. CASE UNCHANGED <<job, said, fails>>
    BY <1>0, <1>2, <2>1, <2>2, <2>4, SaidStays, JobStays DEF Inv, MailInv, Harmless
  <2>5. Adding \/ Ticking \/ Quietly
    BY <1>0, Steps
  <2> QED BY <1>1, <2>3, <2>4, <2>5 DEF Quietly
<1> QED BY <1>0, <1>1, <1>2, Steps, TickingHarmless DEF Quietly

LEMMA InvStutters == ASSUME Inv, UNCHANGED vars PROVE Inv' /\ UNCHANGED Promise!mail
BY DEF vars, Inv, MailInv, TypeOK, FetchInv, RowInv, JobInv, SaidInv, Waiting, Shown, Exists,
       Promise!mail, MailPhase, Owed, Released

LEMMA PromiseInit == Init => Promise!Init
<1> SUFFICES ASSUME Init PROVE Promise!Init
  OBVIOUS
<1>1. \A m \in Ids : rows[m].state = "none"
  BY EmptyRow DEF Init
<1> QED BY <1>1 DEF Promise!Init, MailPhase, Owed, Released, Shown, Exists

-----------------------------------------------------------------------------
(* The inductive invariant holds of every behaviour of the relay.           *)
THEOREM RelayInvariant == Spec => []Inv
<1>1. Inv /\ [Next]_vars => Inv'
  BY InvNext, InvStutters
<1> QED BY <1>1, InvInit, PTL DEF Spec

(* The rows, the history requests and the tick of the loop keep their       *)
(* types, and a handler between its two commits has stored a row without    *)
(* statuses (models.py, Message; chat.py, send_message).                    *)
THEOREM RelayTypes == Spec => []TypeOK
<1>1. Inv => TypeOK
  BY DEF Inv, MailInv
<1> QED BY <1>1, RelayInvariant, PTL

(* For any number of users and messages the relay is a Mailbox: a row goes  *)
(* before its retention only when nobody is owed it, whatever the order of  *)
(* reads, fetches, joins and ticks (docstring at background_tasks.py:91).   *)
THEOREM RelayKeepsPromise == Spec => PromiseKept
<1>1. Inv /\ Next => Promise!Next
  BY InvNext DEF Promise!Next
<1>2. Inv /\ [Next]_vars => [Promise!Next]_Promise!mail
  BY <1>1, InvStutters
<1> QED BY <1>2, PromiseInit, RelayInvariant, PTL DEF Spec, PromiseKept, Promise!Spec

(* A scheduled message is announced once, and once more at most for every   *)
(* tick that failed and restart (background_tasks.py:54-87).                *)
THEOREM RelayAnnouncesOnce == Spec => []AnnouncedOnce
<1>1. Inv => AnnouncedOnce
  BY DEF Inv, SaidInv, AnnouncedOnce
<1> QED BY <1>1, RelayInvariant, PTL

-----------------------------------------------------------------------------
(* The composition: a step of one part leaves the others alone.             *)

allVars == <<part, vars, fileVars, contactVars, groupVars, editVars>>

-----------------------------------------------------------------------------
(* Files: what a step may rely on before anything has failed.               *)

FileInv ==
    /\ losses \in Nat /\ bytes \in BOOLEAN /\ row \in BOOLEAN
    /\ losses = 0 =>
          /\ task \in {"none", "upload", "burn", "burnt"}
          /\ task \in {"none", "burn"} => (bytes <=> row)
          /\ task = "upload" => bytes /\ ~row
          /\ task = "burnt" => ~bytes

LEMMA FileInvInit == File!Init => FileInv
<1> SUFFICES ASSUME File!Init PROVE FileInv
  OBVIOUS
<1>1. bytes = FALSE /\ row = FALSE /\ task = "none" /\ losses = 0
  BY DEF File!Init
<1>2. losses \in Nat
  BY <1>1
<1>3. "none" # "upload" /\ "none" # "burnt"
  OBVIOUS
<1> QED BY <1>1, <1>2, <1>3, Zenon DEF FileInv

LEMMA FileInvNext == FileInv /\ [File!Next]_fileVars => FileInv'
<1> SUFFICES ASSUME FileInv, [File!Next]_fileVars PROVE FileInv'
  OBVIOUS
<1> USE DEF FileInv
<1>1. CASE UNCHANGED fileVars
  BY <1>1 DEF fileVars
<1>2. CASE File!SaveFile
  BY <1>2 DEF File!SaveFile
<1>3. CASE File!UploadFile
  BY <1>3 DEF File!UploadFile
<1>4. CASE File!BurnBytes
  BY <1>4 DEF File!BurnBytes
<1>5. CASE File!BurnRow
  BY <1>5 DEF File!BurnRow
<1>6. CASE File!Delete
  BY <1>6 DEF File!Delete
<1>7. CASE File!Loss
  <2>1. losses' \in Nat /\ losses' # 0
    BY <1>7 DEF File!Loss
  <2>2. bytes' \in BOOLEAN /\ row' \in BOOLEAN
    BY <1>7, Zenon DEF File!Loss
  <2> QED BY <2>1, <2>2
<1>8. CASE File!Time
  BY <1>8 DEF File!Time
<1>9. ASSUME NEW u, File!DownloadFile(u) PROVE FileInv'
  BY <1>9 DEF File!DownloadFile, File!Serves
<1>10. ASSUME NEW u, File!MintFileToken(u) \/ File!TokenExpires(u) \/ File!Leave(u) PROVE FileInv'
  BY <1>10 DEF File!MintFileToken, File!TokenExpires, File!Leave
<1>11. ASSUME NEW u, NEW k, File!Attach(u, k) \/ File!Open(u, k) PROVE FileInv'
  BY <1>11 DEF File!Attach, File!Open
<1>12. ASSUME NEW k, File!Withdraw(k) \/ File!Purge(k) PROVE FileInv'
  BY <1>12 DEF File!Withdraw, File!Purge
<1> QED
  BY <1>1, <1>2, <1>3, <1>4, <1>5, <1>6, <1>7, <1>8, <1>9, <1>10, <1>11, <1>12
     DEF File!Next, File!DeleteFile, File!CleanupExpired, File!CleanupMine, File!CleanupOrphaned

\* Bytes and row of a file agree whenever nothing is under way and no step was cut short,
\* for any chat, messages and readers: every path writes and removes them in one order.
THEOREM BytesAndRow == MCSpec => []BytesFollowRow
<1>1. MCInit => FileInv
  BY FileInvInit DEF MCInit
<1>2. FileInv /\ [MCNext]_allVars => FileInv'
  BY FileInvNext DEF MCNext, allVars
<1>3. FileInv => BytesFollowRow
  BY DEF FileInv, BytesFollowRow, File!BytesFollowRow
<1> QED BY <1>1, <1>2, <1>3, PTL DEF MCSpec, allVars

-----------------------------------------------------------------------------
(* Contacts and groups.                                                     *)

\* A request is a wish of who sent it.
ContactInv == Contact!RowsOnce /\ Contact!ContactsAreWanted /\ requests \subseteq wanted

LEMMA ContactInvInit == Contact!ContactInit => ContactInv
BY DEF Contact!ContactInit, Contact!None0, ContactInv, Contact!RowsOnce, Contact!ContactsAreWanted

LEMMA ContactInvNext == ContactInv /\ [Contact!ContactNext]_contactVars => ContactInv'
<1> SUFFICES ASSUME ContactInv, [Contact!ContactNext]_contactVars PROVE ContactInv'
  OBVIOUS
<1> USE DEF ContactInv, Contact!RowsOnce, Contact!ContactsAreWanted
<1>1. CASE UNCHANGED contactVars
  BY <1>1 DEF contactVars
<1>2. ASSUME NEW u \in Couple, NEW v \in Couple, Contact!AddContact(u, v) PROVE ContactInv'
  BY <1>2 DEF Contact!AddContact
<1>3. ASSUME NEW u \in Couple, NEW v \in Couple, Contact!RemoveContact(u, v) PROVE ContactInv'
  BY <1>3 DEF Contact!RemoveContact
<1>4. ASSUME NEW u \in Couple, NEW v \in Couple, Contact!SendRequest(u, v) PROVE ContactInv'
  BY <1>4 DEF Contact!SendRequest
<1>5. ASSUME NEW u \in Couple, NEW v \in Couple, Contact!AcceptRequest(u, v) PROVE ContactInv'
  <2>1. <<v, u>> \in requests /\ <<v, u>> \in wanted
    BY <1>5 DEF Contact!AcceptRequest, Contact!MayAnswer
  <2>2. wanted' = wanted \cup {<<u, v>>} /\ requests' = requests \ {<<v, u>>} /\ blocks' = blocks
    BY <1>5, <2>1 DEF Contact!AcceptRequest, Contact!Answered
  <2>3. contacts' \in [Couple -> [Couple -> 0..1]]
    <3> DEFINE C1 == [contacts EXCEPT ![u][v] = IF @ = 0 THEN 1 ELSE @]
    <3>1. C1 \in [Couple -> [Couple -> 0..1]]
      OBVIOUS
    <3>2. contacts' = [C1 EXCEPT ![v][u] = IF @ = 0 THEN 1 ELSE @]
      BY <1>5 DEF Contact!AcceptRequest, Contact!Befriended
    <3> HIDE DEF C1
    <3> QED BY <3>1, <3>2
  <2>4. \A x, y \in Couple : contacts'[x][y] = contacts[x][y] \/ <<x, y>> \in {<<u, v>>, <<v, u>>}
    BY <1>5 DEF Contact!AcceptRequest, Contact!Befriended
  <2> QED BY <2>1, <2>2, <2>3, <2>4
<1>6. ASSUME NEW u \in Couple, NEW v \in Couple, Contact!RejectRequest(u, v) PROVE ContactInv'
  BY <1>6 DEF Contact!RejectRequest, Contact!Answered
<1>7. ASSUME NEW u \in Couple, NEW v \in Couple, Contact!Block(u, v) \/ Contact!Unblock(u, v)
      PROVE  ContactInv'
  <2>1. CASE Contact!Block(u, v)
    BY <2>1 DEF Contact!Block
  <2>2. CASE Contact!Unblock(u, v)
    <3>1. blocks[u][v] = 1
      BY <2>2 DEF Contact!Unblock
    <3> QED BY <2>2, <3>1 DEF Contact!Unblock
  <2> QED BY <1>7, <2>1, <2>2
<1> QED BY <1>1, <1>2, <1>3, <1>4, <1>5, <1>6, <1>7 DEF Contact!ContactNext

\* An invitation is pending, being accepted, used or declined: one of them at a time.
Entering(u) == IF accepting = u /\ accepting # None THEN 1 ELSE 0
Awaiting(u) == IF u \in invitees THEN 1 ELSE 0
GroupInv ==
    /\ invited \in [Crowd -> Nat] /\ entered \in [Crowd -> Nat]
    /\ accepting \in Crowd \cup {None}
    /\ \A u \in Crowd : entered[u] + Awaiting(u) + Entering(u) <= invited[u]
    /\ holders \subseteq deleters

LEMMA GroupInvInit == Group!GroupInit => GroupInv
BY DEF Group!GroupInit, GroupInv, Entering, Awaiting

LEMMA GroupInvNext == GroupInv /\ [Group!GroupNext]_groupVars => GroupInv'
<1> SUFFICES ASSUME GroupInv, [Group!GroupNext]_groupVars PROVE GroupInv'
  OBVIOUS
<1> USE DEF GroupInv, Group!Free, Group!KeepKey, Group!WipeKey, Group!history
<1>1. CASE UNCHANGED groupVars
  BY <1>1 DEF groupVars, Entering, Awaiting
<1>2. CASE Group!EnterByInvite
  BY <1>2 DEF Group!EnterByInvite, Entering, Awaiting
<1>3. CASE Group!EnterFails
  BY <1>3 DEF Group!EnterFails, Entering, Awaiting
<1>4. ASSUME NEW u \in Crowd, Group!AcceptInvite(u) PROVE GroupInv'
  BY <1>4 DEF Group!AcceptInvite, Entering, Awaiting
<1>5. ASSUME NEW u \in Crowd, Group!DeclineInvite(u) PROVE GroupInv'
  BY <1>5 DEF Group!DeclineInvite, Entering, Awaiting
<1>6. ASSUME NEW u \in Crowd, Group!LeaveGroup(u) \/ Group!DeleteChat(u) \/ Group!SetGroupKey(u)
      PROVE  GroupInv'
  BY <1>6 DEF Group!LeaveGroup, Group!DeleteChat, Group!SetGroupKey, Entering, Awaiting
<1>7. ASSUME NEW u \in Crowd, NEW v \in Crowd, Group!InviteToGroup(u, v) PROVE GroupInv'
  BY <1>7 DEF Group!InviteToGroup, Entering, Awaiting
<1>8. ASSUME NEW u \in Crowd, NEW v \in Crowd,
             Group!AddParticipant(u, v) \/ Group!RemoveParticipant(u, v) \/ Group!SetAdmin(u, v)
      PROVE  GroupInv'
  BY <1>8 DEF Group!AddParticipant, Group!RemoveParticipant, Group!SetAdmin, Entering, Awaiting
<1> QED BY <1>1, <1>2, <1>3, <1>4, <1>5, <1>6, <1>7, <1>8 DEF Group!GroupNext

\* For any users and any number of invitations: no second row, no contact that neither
\* side wished for, no way in by a spent invitation, no group key kept past its holders.
THEOREM MembersAreAsked == MCSpec => []MembershipHolds
<1>1. MCInit => ContactInv /\ GroupInv
  BY ContactInvInit, GroupInvInit DEF MCInit
<1>2. ContactInv /\ GroupInv /\ [MCNext]_allVars => ContactInv' /\ GroupInv'
  BY ContactInvNext, GroupInvNext DEF MCNext, allVars
<1>3. ContactInv /\ GroupInv => MembershipHolds
  <2> SUFFICES ASSUME ContactInv, GroupInv PROVE MembershipHolds
    OBVIOUS
  <2>1. Group!InviteIsSpentOnce
    BY DEF GroupInv, Awaiting, Entering, Group!InviteIsSpentOnce
  <2> QED BY <2>1 DEF ContactInv, GroupInv, MembershipHolds, Group!KeyEndsWithItsMembers
<1> QED BY <1>1, <1>2, <1>3, PTL DEF MCSpec, allVars
-----------------------------------------------------------------------------
(* Edits.                                                                   *)

\* h is what Kept leaves of w, entry by entry.
EndsAs(h, w) ==
    /\ Len(h) = IF Len(w) < Kept THEN Len(w) ELSE Kept
    /\ \A i \in 1..Len(h) : h[i] = w[Len(w) - Len(h) + i]

\* Two edits under way at once have overtaken one another.
EditInv ==
    /\ content \in Nat /\ edits \in Nat
    /\ written \in Seq(Nat) /\ edit_history \in Seq(Nat) /\ EndsAs(edit_history, written)
    /\ content \in {0, edits + 1}
    /\ ~overtaken => \/ casts = {} /\ shown = edits + 1
                     \/ casts = {edits + 1}

LEMMA EndIsSuffix ==
  ASSUME NEW h \in Seq(Nat), NEW w \in Seq(Nat), EndsAs(h, w)
  PROVE  LET n == Len(w)
             k == IF n < Kept THEN n ELSE Kept
         IN  h = SubSeq(w, n - k + 1, n)
<1> DEFINE n == Len(w)
           k == IF n < Kept THEN n ELSE Kept
           r == SubSeq(w, n - k + 1, n)
<1>1. n \in Nat /\ k \in Nat /\ k <= n /\ n - k + 1 \in Int /\ n \in Int
  BY KeptAssumption
<1>2. Len(h) = k /\ \A i \in 1..k : h[i] = w[n - k + i]
  BY DEF EndsAs
<1> HIDE DEF k
<1>3. \A i \in (n - k + 1)..n : w[i] \in Nat
  BY <1>1
<1>4. /\ r \in Seq(Nat)
      /\ Len(r) = IF n - k + 1 <= n THEN n - (n - k + 1) + 1 ELSE 0
      /\ \A i \in 1..(n - (n - k + 1) + 1) : r[i] = w[n - k + 1 + i - 1]
  BY <1>1, <1>3, SubSeqProperties
<1> HIDE DEF r, n
<1>5. Len(r) = k /\ \A i \in 1..k : r[i] = w[n - k + i]
  <2>1. Len(r) = k /\ n - (n - k + 1) + 1 = k
    BY <1>1, <1>4
  <2>2. ASSUME NEW i \in 1..k PROVE r[i] = w[n - k + i]
    <3>1. i \in Int /\ n - k + 1 + i - 1 = n - k + i
      BY <1>1
    <3> QED BY <1>4, <2>1, <3>1
  <2> QED BY <2>1, <2>2
<1>6. h = r
  BY <1>2, <1>4, <1>5, SeqEqual
<1> QED BY <1>6 DEF r, n, k

\* A further content drops the oldest when there are more than Kept.
LEMMA TrimmedEnds ==
  ASSUME NEW h \in Seq(Nat), NEW w \in Seq(Nat), NEW c \in Nat, EndsAs(h, w)
  PROVE  /\ Edited!Trimmed(Append(h, c)) \in Seq(Nat)
         /\ EndsAs(Edited!Trimmed(Append(h, c)), Append(w, c))
<1> DEFINE a == Append(h, c)
           b == Append(w, c)
<1>1. /\ a \in Seq(Nat) /\ Len(a) = Len(h) + 1 /\ \A i \in 1..Len(a) : a[i] = IF i <= Len(h) THEN h[i] ELSE c
      /\ b \in Seq(Nat) /\ Len(b) = Len(w) + 1 /\ \A i \in 1..Len(b) : b[i] = IF i <= Len(w) THEN w[i] ELSE c
  OBVIOUS
<1>2. Len(h) \in Nat /\ Len(w) \in Nat /\ Len(h) <= Len(w) /\ Len(h) <= Kept /\ Kept \in Nat
  BY KeptAssumption DEF EndsAs
<1> HIDE DEF a, b
<1>3. \A i \in 1..Len(a) : a[i] = b[Len(b) - Len(a) + i]
  <2> TAKE i \in 1..Len(a)
  <2>1. i \in Nat /\ Len(b) - Len(a) + i \in 1..Len(b) /\ Len(b) - Len(a) = Len(w) - Len(h)
    BY <1>1, <1>2
  <2>2. CASE i <= Len(h)
    <3>1. a[i] = h[i] /\ h[i] = w[Len(w) - Len(h) + i]
      <4>1. i \in 1..Len(h)
        BY <1>2, <2>1, <2>2
      <4> QED BY <1>1, <2>1, <2>2, <4>1 DEF EndsAs
    <3>2. Len(w) - Len(h) + i <= Len(w)
      BY <1>2, <2>1, <2>2
    <3> QED BY <1>1, <2>1, <3>1, <3>2
  <2>3. CASE ~(i <= Len(h))
    <3>1. a[i] = c /\ ~(Len(b) - Len(a) + i <= Len(w))
      BY <1>1, <1>2, <2>1, <2>3
    <3> QED BY <1>1, <2>1, <3>1
  <2> QED BY <2>2, <2>3
<1>4. CASE Len(a) > Kept
  <2> DEFINE r == SubSeq(a, Len(a) - Kept + 1, Len(a))
  <2>1. Len(a) = Kept + 1 /\ Len(a) - Kept + 1 = 2 /\ Len(w) >= Kept
    BY <1>1, <1>2, <1>4 DEF EndsAs
  <2>2. \A i \in 2..Len(a) : a[i] \in Nat
    <3> TAKE i \in 2..Len(a)
    <3>1. i \in 1..Len(a)
      BY <1>1, <1>2
    <3> QED BY <1>1, <3>1
  <2>3. /\ r \in Seq(Nat)
        /\ Len(r) = IF 2 <= Len(a) THEN Len(a) - 2 + 1 ELSE 0
        /\ \A i \in 1..(Len(a) - 2 + 1) : r[i] = a[2 + i - 1]
    <3>1. Len(a) \in Int /\ 2 \in Int
      BY <1>1, <1>2
    <3>2. /\ SubSeq(a, 2, Len(a)) \in Seq(Nat)
          /\ Len(SubSeq(a, 2, Len(a))) = IF 2 <= Len(a) THEN Len(a) - 2 + 1 ELSE 0
          /\ \A i \in 1..(Len(a) - 2 + 1) : SubSeq(a, 2, Len(a))[i] = a[2 + i - 1]
      BY <2>2, <3>1, SubSeqProperties
    <3> QED BY <2>1, <3>2
  <2> HIDE DEF r
  <2>4. Len(r) = Kept /\ \A i \in 1..Kept : r[i] = a[i + 1]
    <3>1. Len(r) = Kept /\ Len(a) - 2 + 1 = Kept
      BY <1>2, <2>1, <2>3
    <3>2. ASSUME NEW i \in 1..Kept PROVE r[i] = a[i + 1]
      <4>1. i \in Int /\ 2 + i - 1 = i + 1
        BY <1>2
      <4> QED BY <2>3, <3>1, <4>1
    <3> QED BY <3>1, <3>2
  <2>5. \A i \in 1..Kept : a[i + 1] = b[Len(b) - Kept + i]
    <3> TAKE i \in 1..Kept
    <3>1. i \in Int /\ Kept \in Int /\ Len(b) \in Int /\ i + 1 \in 1..Len(a)
      BY <1>1, <1>2, <2>1
    <3>2. Len(b) - Len(a) + (i + 1) = Len(b) - Kept + i
      BY <2>1, <3>1
    <3> QED BY <1>3, <3>1, <3>2
  <2>6. Len(b) >= Kept
    BY <1>1, <1>2, <2>1
  <2>7. EndsAs(r, b)
    <3>1. Len(r) = IF Len(b) < Kept THEN Len(b) ELSE Kept
      BY <1>1, <1>2, <2>4, <2>6
    <3>2. \A i \in 1..Len(r) : r[i] = b[Len(b) - Len(r) + i]
      BY <2>4, <2>5
    <3> QED BY <3>1, <3>2 DEF EndsAs
  <2> QED BY <1>4, <2>3, <2>7 DEF r, a, b, Edited!Trimmed
<1>5. CASE ~(Len(a) > Kept)
  <2>1. Len(a) = Len(b)
    BY <1>1, <1>2, <1>5 DEF EndsAs
  <2>2. EndsAs(a, b)
    <3>1. Len(a) = IF Len(b) < Kept THEN Len(b) ELSE Kept
      BY <1>1, <1>2, <1>5, <2>1
    <3> QED BY <1>3, <3>1 DEF EndsAs
  <2> QED BY <1>1, <1>5, <2>2 DEF a, b, Edited!Trimmed
<1> QED BY <1>4, <1>5

LEMMA EditInvInit == Edited!Init => EditInv
<1> SUFFICES ASSUME Edited!Init PROVE EditInv
  OBVIOUS
<1>1. EndsAs(<<>>, <<>>)
  BY KeptAssumption DEF EndsAs
<1> QED BY <1>1 DEF Edited!Init, EditInv

LEMMA EditInvNext == EditInv /\ [Edited!Next]_editVars => EditInv'
<1> SUFFICES ASSUME EditInv, [Edited!Next]_editVars PROVE EditInv'
  OBVIOUS
<1>1. CASE UNCHANGED editVars
  BY <1>1 DEF editVars, EditInv, EndsAs
<1>2. CASE Edited!Edit
  <2>1. /\ edits' = edits + 1 /\ content' = edits + 2
        /\ edit_history' = Edited!Trimmed(Append(edit_history, content))
        /\ written' = Append(written, content)
    BY <1>2 DEF Edited!Edit
  <2>2. edit_history' \in Seq(Nat) /\ written' \in Seq(Nat) /\ EndsAs(edit_history, written)'
    <3>1. /\ Edited!Trimmed(Append(edit_history, content)) \in Seq(Nat)
          /\ EndsAs(Edited!Trimmed(Append(edit_history, content)), Append(written, content))
      BY TrimmedEnds DEF EditInv
    <3>2. Append(written, content) \in Seq(Nat)
      BY DEF EditInv
    <3> QED BY <2>1, <3>1, <3>2 DEF EndsAs
  <2>3. ~overtaken' => casts' = {edits' + 1}
    <3>1. overtaken' = (overtaken \/ casts # {}) /\ casts' = casts \cup {edits + 2}
      BY <1>2 DEF Edited!Edit
    <3>2. ~overtaken' => casts = {}
      BY <3>1, Zenon
    <3>3. edits + 2 = edits + 1 + 1
      BY DEF EditInv
    <3> QED BY <2>1, <3>1, <3>2, <3>3
  <2>4. content' \in Nat /\ edits' \in Nat /\ content' = edits' + 1
    BY <2>1 DEF EditInv
  <2> QED BY <2>2, <2>3, <2>4 DEF EditInv
<1>3. CASE Edited!CleanupEphemeral
  BY <1>3 DEF Edited!CleanupEphemeral, EditInv, EndsAs
<1>5. CASE Edited!DeleteMessage
  BY <1>5 DEF Edited!DeleteMessage, EditInv, EndsAs
<1>4. ASSUME NEW c \in casts, Edited!Show(c) PROVE EditInv'
  BY <1>4 DEF Edited!Show, EditInv, EndsAs
<1> QED BY <1>1, <1>2, <1>3, <1>4, <1>5 DEF Edited!Next, Edited!EditMessage, Edited!EditFrame

\* However long the history kept and however many edits: it is the last contents in their
\* order, and a client that has seen every edit shows the content of the row.
THEOREM HistoryAndView == MCSpec => []EditsHold
<1>1. MCInit => EditInv
  BY EditInvInit DEF MCInit
<1>2. EditInv /\ [MCNext]_allVars => EditInv'
  BY EditInvNext DEF MCNext, allVars
<1>3. EditInv => EditsHold
  <2> SUFFICES ASSUME EditInv PROVE EditsHold
    OBVIOUS
  <2>1. Edited!HistoryIsSuffix
    BY EndIsSuffix DEF EditInv, Edited!HistoryIsSuffix
  <2>2. Edited!ShownIsContent
    BY DEF EditInv, Edited!ShownIsContent
  <2> QED BY <2>1, <2>2 DEF EditsHold
<1> QED BY <1>1, <1>2, <1>3, PTL DEF MCSpec, allVars
=============================================================================
