---------------------------------- MODULE Notes ----------------------------------
(***************************************************************************)
(* What a client keeps in plain text in localStorage for each profile: the *)
(* favourites (store/favoritesStore.ts), of which every tab has a copy     *)
(* made when it was loaded, and the text of the messages sent from here    *)
(* (services/plaintextCache.ts), read anew each time, which is the only    *)
(* way to show them again: a ratchet does not open its own messages. Notes *)
(* and messages are numbers.                                               *)
(***************************************************************************)
EXTENDS Naturals, Sequences, SequencesExt

CONSTANTS
    Tabs,
    Profiles,
    MaxEntries,     \* MAX_ENTRIES
    MaxNotes, MaxTexts

VARIABLES
    active,     \* the active profile, one for the device
    of,         \* the profile a tab was loaded with
    items,      \* the favourites a tab has in memory
    stored,     \* the favourites stored per profile
    written,    \* notes and texts written
    wanted,     \* per profile the notes made in it and not removed since, in order
    mixed,      \* a tab wrote its copy over another one
    texts,      \* per profile the cached messages with their text, in order
    sent,       \* per profile the messages sent, in order, as they were sent
    cut         \* profiles whose cache was cleared, halved or replaced

noteVars == <<active, of, items, stored, written, wanted, mixed, texts, sent, cut>>

Nowhere == [p \in Profiles |-> <<>>]

Init ==
    /\ active \in Profiles /\ of = [t \in Tabs |-> active]
    /\ items = [t \in Tabs |-> <<>>] /\ stored = Nowhere /\ written = [note |-> 0, text |-> 0]
    /\ wanted = Nowhere /\ mixed = FALSE
    /\ texts = Nowhere /\ sent = Nowhere /\ cut = {}

(* The newest entries stay. Mutant: the oldest do.                          *)
Newest_Oldest(s) == SubSeq(s, 1, IF Len(s) < MaxEntries THEN Len(s) ELSE MaxEntries)
Newest(s) == SubSeq(s, IF Len(s) > MaxEntries THEN Len(s) - MaxEntries + 1 ELSE 1, Len(s))

(* A note has a number of its own: what is filtered out is one entry.       *)
Without(list, n) ==
    IF n \in ToSet(list) THEN RemoveAt(list, CHOOSE i \in DOMAIN list : list[i] = n) ELSE list

-----------------------------------------------------------------------------
(* Every change writes all the tab has to the profile active now.           *)
Written(t, list) ==
    /\ items' = [items EXCEPT ![t] = list] /\ stored' = [stored EXCEPT ![active] = list]
    /\ mixed' = (mixed \/ of[t] # active \/ items[t] # stored[active])

(* addNote and addForwarded.                                                *)
AddNote(t) ==
    /\ written.note < MaxNotes /\ written' = [written EXCEPT !.note = @ + 1]
    /\ Written(t, Newest(Append(items[t], written.note + 1)))
    /\ wanted' = [wanted EXCEPT ![of[t]] = Append(@, written.note + 1)]
    /\ UNCHANGED <<active, of, texts, sent, cut>>

RemoveNote(t, n) ==
    /\ n \in ToSet(items[t])
    /\ Written(t, Without(items[t], n))
    /\ wanted' = [p \in Profiles |-> Without(wanted[p], n)]
    /\ UNCHANGED <<active, of, written, texts, sent, cut>>

Clear(t) ==
    /\ items[t] # <<>> /\ Written(t, <<>>)
    /\ wanted' = [wanted EXCEPT ![of[t]] = <<>>]
    /\ UNCHANGED <<active, of, written, texts, sent, cut>>

(* A tab is loaded; after switchToProfile it is the tab that switched. A    *)
(* sign-in with another account changes the profile without a reload.       *)
Reload(t) ==
    /\ of' = [of EXCEPT ![t] = active] /\ items' = [items EXCEPT ![t] = stored[active]]
    /\ UNCHANGED <<active, stored, written, wanted, mixed, texts, sent, cut>>

SwitchToProfile(t, p) ==
    /\ p # active /\ active' = p
    /\ of' = [of EXCEPT ![t] = p] /\ items' = [items EXCEPT ![t] = stored[p]]
    /\ UNCHANGED <<stored, written, wanted, mixed, texts, sent, cut>>

SignIn(p) ==
    /\ p # active /\ active' = p
    /\ UNCHANGED <<of, items, stored, written, wanted, mixed, texts, sent, cut>>

(* claimLocalKeys, when the keys of the profile are another user's, and     *)
(* releaseLocalKeys: both are emptied.                                      *)
Claimed(t) ==
    /\ Written(t, <<>>) /\ wanted' = [wanted EXCEPT ![active] = <<>>]
    /\ texts' = [texts EXCEPT ![active] = <<>>] /\ cut' = cut \cup {active}
    /\ UNCHANGED <<active, of, written, sent>>

-----------------------------------------------------------------------------
(* savePlaintext; with the storage full, the older half goes and the rest   *)
(* is tried once more.                                                      *)
SavePlaintext ==
    /\ written.text < MaxTexts /\ written' = [written EXCEPT !.text = @ + 1]
    /\ sent' = [sent EXCEPT ![active] = Append(@, written.text + 1)]
    /\ LET all == Newest(Append(texts[active], written.text + 1)) IN
       \/ texts' = [texts EXCEPT ![active] = all] /\ UNCHANGED cut
       \/ /\ cut' = cut \cup {active}
          /\ \/ texts' = [texts EXCEPT ![active] = SubSeq(all, (Len(all) + 1) \div 2 + 1, Len(all))]
             \/ UNCHANGED texts
    /\ UNCHANGED <<active, of, items, stored, wanted, mixed>>

(* replacePlaintextCache: another device's texts instead.                   *)
ReplacePlaintextCache ==
    /\ cut' = cut \cup {active}
    /\ \E p \in Profiles : texts' = [texts EXCEPT ![active] = Newest(texts[p])]
    /\ UNCHANGED <<active, of, items, stored, written, wanted, mixed, sent>>

-----------------------------------------------------------------------------
Next ==
    \/ \E t \in Tabs :
        \/ AddNote(t) \/ Clear(t) \/ Reload(t) \/ Claimed(t)
        \/ \E n \in 1 .. MaxNotes : RemoveNote(t, n)
        \/ \E p \in Profiles : SwitchToProfile(t, p)
    \/ \E p \in Profiles : SignIn(p)
    \/ SavePlaintext \/ ReplacePlaintextCache

Spec == Init /\ [][Next]_noteVars

-----------------------------------------------------------------------------
(* Property: as long as no tab has written over another one, the stored     *)
(* favourites of a profile are the last notes made in it and not removed    *)
(* (favoritesStore.ts:67-98); and the texts of the last messages sent from  *)
(* here are there to be shown, of every profile, whatever profile the tabs  *)
(* are in (plaintextCache.ts:54-64).                                        *)
NotesKept == ~mixed => \A p \in Profiles : IsSuffix(stored[p], wanted[p])
                         /\ (written.note <= MaxEntries => stored[p] = wanted[p])
OwnTextsKept == \A p \in Profiles \ cut : texts[p] = Newest(sent[p])

KeptInPlain == NotesKept /\ OwnTextsKept

(* Claimed by favoritesStore.ts:27, and not so: each account has its own    *)
(* favourites. The tab that signed in anew still has the other account's.   *)
NotesStayHome == \A p, q \in Profiles : p # q => ToSet(stored[p]) \cap ToSet(wanted[q]) = {}

-----------------------------------------------------------------------------
(* What KeptInPlain follows from: a note is wanted in one place and has a   *)
(* number of its own; what is stored is the end of what is wanted, all of   *)
(* it as long as there have not been too many; and the cached texts are the *)
(* newest of those sent.                                                    *)
Lists == Seq(Nat)
Ends(s, w) == Len(s) <= Len(w) /\ \A i \in DOMAIN s : s[i] = w[i + (Len(w) - Len(s))]
WantedOnce ==
    /\ \A p, q \in Profiles : \A i \in DOMAIN wanted[p], j \in DOMAIN wanted[q] :
          wanted[p][i] = wanted[q][j] => p = q /\ i = j
    /\ \A p \in Profiles :
          /\ Len(wanted[p]) <= written.note
          /\ \A i \in DOMAIN wanted[p] : wanted[p][i] <= written.note

NotesInv ==
    /\ active \in Profiles /\ of \in [Tabs -> Profiles] /\ mixed \in BOOLEAN
    /\ written \in [note : Nat, text : Nat] /\ items \in [Tabs -> Lists]
    /\ {stored, wanted, texts, sent} \subseteq [Profiles -> Lists]
    /\ WantedOnce
    /\ ~mixed => \A p \in Profiles : Ends(stored[p], wanted[p])
                    /\ (written.note <= MaxEntries => stored[p] = wanted[p])
    /\ OwnTextsKept
==================================================================================
