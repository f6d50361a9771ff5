----------------------------- MODULE SessionStore -----------------------------
(***************************************************************************)
(* Where the sessions of the Double Ratchet live (services/e2e.ts): in the *)
(* memory of the page, and as one record in the storage of the device that *)
(* every use writes anew, sealed under the device's own secret. Moving the *)
(* account to another device (services/transferBundle.ts) takes the record *)
(* along. A session is known by its handshake and the steps sent on it.    *)
(***************************************************************************)
EXTENDS Naturals, Sequences, SequencesExt

CONSTANTS
    Devices, First,     \* the device that has the account's keys
    Chats,
    Slots,              \* messages being sent at a time on a device
    MaxGens, MaxSteps,
    MaxSaves,
    None

VARIABLES
    mem,        \* sessionCache: the handshake of the chat's session
    steps,      \* per handshake the steps sent on the page's session object
    disk,       \* the record of the sessions, with the device it is sealed for
    use,        \* getOrCreateSession and encryptMessage under way
    saves,      \* persistSessions under way, in the order they were called
    given,      \* <<chat, handshake, step>> of the envelopes that left the device
    gens,       \* handshakes made
    dropped,    \* handshakes given up for a reason: failed decryption, new key of the peer
    home,       \* devices with the account's keys
    bundle,     \* a transfer bundle, as it was exported
    reused,     \* a step left a device twice
    lost,       \* a chat got a new handshake though its session was good
    odd         \* which of the things below happened

sessionVars == <<mem, steps, disk, use, saves, given, gens, dropped, home, bundle, reused, lost, odd>>

Empty == [c \in Chats |-> None]
Idle == [at |-> "none"]

Init ==
    /\ mem = [d \in Devices |-> Empty] /\ steps = [d \in Devices |-> [g \in 1 .. MaxGens |-> 0]]
    /\ disk = [d \in Devices |-> [by |-> d, held |-> Empty]]
    /\ use = [d \in Devices |-> [s \in Slots |-> Idle]]
    /\ saves = [d \in Devices |-> <<>>]
    /\ given = {} /\ gens = 0 /\ dropped = {} /\ home = {First} /\ bundle = None
    /\ reused = FALSE /\ lost = FALSE /\ odd = {}

(* loadSessionsFromStorage: a record that does not open counts as none.     *)
Loaded(d, record) == IF record.by = d THEN record.held ELSE Empty

Opened(d, record) ==
    LET held == Loaded(d, record) IN
    /\ mem' = [mem EXCEPT ![d] = [c \in Chats |-> IF held[c] = None THEN None ELSE held[c].gen]]
    /\ steps' = [steps EXCEPT ![d] = [g \in 1 .. MaxGens |->
                   LET of == {c \in Chats : held[c] # None /\ held[c].gen = g} IN
                   IF of = {} THEN 0 ELSE held[CHOOSE c \in of : TRUE].step]]

(* persistSessions takes all sessions as they are now.                      *)
Saving(d, slot, out) ==
    /\ Len(saves[d]) < MaxSaves
    /\ saves' = [saves EXCEPT ![d] = Append(@,
                   [slot |-> slot, out |-> out,
                    held |-> [c \in Chats |-> IF mem'[d][c] = None THEN None
                                ELSE [gen |-> mem'[d][c], step |-> steps'[d][mem'[d][c]]]]])]

IsGood(c) == \E g \in given : g[1] = c /\ g[2] \notin dropped

(* A handshake, as the one who writes first or as the one who answers.      *)
Made(d, c) ==
    /\ gens < MaxGens /\ gens' = gens + 1
    /\ mem' = [mem EXCEPT ![d][c] = gens + 1] /\ UNCHANGED steps
    /\ lost' = (lost \/ IsGood(c))

-----------------------------------------------------------------------------
(* encryptMessage.                                                          *)

SendStart(d, s, c) ==
    /\ d \in home /\ use[d][s] = Idle
    /\ use' = [use EXCEPT ![d][s] =
                 IF mem[d][c] = None THEN [at |-> "bundle", chat |-> c]
                 ELSE [at |-> "step", chat |-> c, gen |-> mem[d][c]]]
    /\ odd' = IF mem[d][c] = None /\ \E r \in Slots : use[d][r] = [at |-> "bundle", chat |-> c]
              THEN odd \cup {"overlapped"} ELSE odd
    /\ UNCHANGED <<mem, steps, disk, saves, given, gens, dropped, home, bundle, reused, lost>>

(* The pre-keys of the peer are here; the new session is saved first.       *)
Bundled(d, s) ==
    /\ use[d][s].at = "bundle" /\ Made(d, use[d][s].chat)
    /\ Saving(d, s, None)
    /\ use' = [use EXCEPT ![d][s] = [at |-> "made", chat |-> @.chat, gen |-> gens + 1]]
    /\ UNCHANGED <<disk, given, dropped, home, bundle, reused, odd>>

(* Mutant: the envelope leaves first.                                       *)
Step_SendsFirst(d, s) ==
    /\ use[d][s].at = "step"
    /\ LET o == use[d][s]
           step == steps[d][o.gen] + 1 IN
       /\ step <= MaxSteps
       /\ steps' = [steps EXCEPT ![d][o.gen] = step] /\ UNCHANGED mem
       /\ Saving(d, None, None)
       /\ given' = given \cup {<<o.chat, o.gen, step>>}
       /\ reused' = (reused \/ <<o.chat, o.gen, step>> \in given)
       /\ use' = [use EXCEPT ![d][s] = Idle]
    /\ UNCHANGED <<disk, gens, dropped, home, bundle, lost, odd>>

(* The step is taken, on the session found before; the record is written    *)
(* before the envelope leaves.                                              *)
Step(d, s) ==
    /\ use[d][s].at = "step"
    /\ LET o == use[d][s]
           step == steps[d][o.gen] + 1 IN
       /\ step <= MaxSteps
       /\ steps' = [steps EXCEPT ![d][o.gen] = step] /\ UNCHANGED mem
       /\ Saving(d, s, <<o.chat, o.gen, step>>)
       /\ use' = [use EXCEPT ![d][s] = [at |-> "save"]]
    /\ UNCHANGED <<disk, given, gens, dropped, home, bundle, reused, lost, odd>>

(* A write ends, or fails, which is no error to the sender. Two may end in  *)
(* the other order.                                                         *)
Land(d, k) ==
    /\ k \in DOMAIN saves[d]
    /\ LET save == saves[d][k] IN
       /\ saves' = [saves EXCEPT ![d] = RemoveAt(@, k)]
       /\ \/ disk' = [disk EXCEPT ![d] = [by |-> d, held |-> save.held]]
             /\ odd' = IF k > 1 THEN odd \cup {"crossed"} ELSE odd
          \/ UNCHANGED disk /\ odd' = odd \cup {"failed"}
       /\ IF save.slot = None THEN UNCHANGED use
          ELSE use' = [use EXCEPT ![d][save.slot] =
                         IF save.out = None THEN [@ EXCEPT !.at = "step"] ELSE Idle]
       /\ IF save.out = None THEN UNCHANGED <<given, reused>>
          ELSE given' = given \cup {save.out} /\ reused' = (reused \/ save.out \in given)
    /\ UNCHANGED <<mem, steps, gens, dropped, home, bundle, lost>>

-----------------------------------------------------------------------------
(* decryptMessage: a message is read; or it is not, and the session is      *)
(* dropped; or there is none, and one is made from the message.             *)
Receive(d, c) ==
    /\ d \in home
    /\ \/ mem[d][c] # None /\ UNCHANGED <<mem, steps, gens, dropped, lost>>
       \/ /\ mem[d][c] # None /\ UNCHANGED <<steps, gens, lost>>
          /\ mem' = [mem EXCEPT ![d][c] = None] /\ dropped' = dropped \cup {mem[d][c]}
       \/ mem[d][c] = None /\ Made(d, c) /\ UNCHANGED dropped
    /\ Saving(d, None, None)
    /\ odd' = IF \E r \in Slots : use[d][r] = [at |-> "bundle", chat |-> c]
              THEN odd \cup {"overlapped"} ELSE odd
    /\ UNCHANGED <<disk, use, given, home, bundle, reused>>

(* invalidateSessionsForUser, at the notice that the peer has a new key.    *)
KeyChanged(d, c) ==
    /\ mem[d][c] # None /\ UNCHANGED steps
    /\ mem' = [mem EXCEPT ![d][c] = None] /\ dropped' = dropped \cup {mem[d][c]}
    /\ Saving(d, None, None)
    /\ UNCHANGED <<disk, use, given, gens, home, bundle, reused, lost, odd>>

-----------------------------------------------------------------------------
(* The page is loaded anew.                                                 *)
Reload(d) ==
    /\ Opened(d, disk[d])
    /\ use' = [use EXCEPT ![d] = [s \in Slots |-> Idle]]
    /\ saves' = [saves EXCEPT ![d] = <<>>]
    /\ UNCHANGED <<disk, given, gens, dropped, home, bundle, reused, lost, odd>>

(* Ten minutes without use, or an ordinary logout: the memory is emptied.   *)
(* Only a load of the page, or unlocking with a PIN, opens the record again.*)
Cleared(d) ==
    /\ mem[d] # Empty /\ mem' = [mem EXCEPT ![d] = Empty]
    /\ odd' = odd \cup {"cleared"}
    /\ UNCHANGED <<steps, disk, use, saves, given, gens, dropped, home, bundle, reused, lost>>

AutoClear(d) == saves[d] = <<>> /\ Cleared(d)
ResetMemoryCaches(d) == Cleared(d)

-----------------------------------------------------------------------------
(* exportTransferBundle: the record as it lies in the storage.              *)
Exported(d) == disk[d]

(* wipeProfileData.                                                         *)
Wiped(d) ==
    /\ mem' = [mem EXCEPT ![d] = Empty]
    /\ disk' = [disk EXCEPT ![d] = [by |-> d, held |-> Empty]]
    /\ use' = [use EXCEPT ![d] = [s \in Slots |-> Idle]]
    /\ saves' = [saves EXCEPT ![d] = <<>>] /\ home' = home \ {d}

(* The file: the device is wiped afterwards, if the box is left checked.    *)
ExportFile(d) ==
    /\ d \in home /\ bundle = None /\ bundle' = Exported(d) /\ Wiped(d)
    /\ UNCHANGED <<steps, given, gens, dropped, reused, lost, odd>>

(* The file without the wipe, or the QR code, which offers none.            *)
ExportCopy(d) ==
    /\ d \in home /\ bundle = None /\ bundle' = Exported(d)
    /\ odd' = odd \cup {"forked"}
    /\ UNCHANGED <<mem, steps, disk, use, saves, given, gens, dropped, home, reused, lost>>

(* decryptTransferBundle: a wrong password or a file of another kind ends   *)
(* the import before anything is written.                                   *)
Decrypted == bundle # None

(* importTransferBundle, then the page is loaded.                           *)
Import(d) ==
    /\ Decrypted /\ bundle' = None
    /\ disk' = [disk EXCEPT ![d] = bundle] /\ home' = home \cup {d}
    /\ Opened(d, bundle)
    /\ use' = [use EXCEPT ![d] = [s \in Slots |-> Idle]]
    /\ saves' = [saves EXCEPT ![d] = <<>>]
    /\ odd' = IF bundle.by # d THEN odd \cup {"moved"} ELSE odd
    /\ UNCHANGED <<given, gens, dropped, reused, lost>>

-----------------------------------------------------------------------------
Next ==
    \E d \in Devices :
        \/ \E s \in Slots : Bundled(d, s) \/ Step(d, s) \/ \E c \in Chats : SendStart(d, s, c)
        \/ \E c \in Chats : Receive(d, c) \/ KeyChanged(d, c)
        \/ \E k \in DOMAIN saves[d] : Land(d, k)
        \/ Reload(d) \/ AutoClear(d) \/ ResetMemoryCaches(d)
        \/ ExportFile(d) \/ ExportCopy(d) \/ Import(d)

Spec == Init /\ [][Next]_sessionVars

-----------------------------------------------------------------------------
(* Property: no step of a session leaves a device twice, whatever the page  *)
(* forgets and whenever it is closed, since encryptMessage waits for the    *)
(* write (e2e.ts:700-704). Only a write that failed or was overtaken        *)
(* (:703 says a failure is not fatal), or a bundle exported from a device   *)
(* that goes on writing, breaks it.                                         *)
StepOnce == reused => odd \cap {"failed", "crossed", "forked"} # {}

(* Property: a chat keeps its session as long as both sides can read: it    *)
(* makes a new one only after the peer's key or a failed decryption made it *)
(* give the old one up (e2e.ts:525-607, 641-677). `odd` names the ways      *)
(* in which good sessions are lost all the same.                            *)
SessionKept == lost => odd # {}

(* Claimed by e2e.ts:1019-1024, and not so: after an ordinary logout the    *)
(* same user can log in again and keeps the sessions.                       *)
LogoutKeepsSessions == lost => odd \ {"cleared"} # {}

(* Claimed by transferBundle.ts:4-5, and not so: the second device goes on  *)
(* from the same place.                                                     *)
MoveKeepsSessions == lost => odd \ {"moved"} # {}

-----------------------------------------------------------------------------
(* What StepOnce and SessionKept follow from. A call that waits for a write *)
(* waits for one of its own. As long as writes end, in order, and no bundle *)
(* is a copy, one device has the account, the session objects in its memory *)
(* are past every step that has left it or is about to, and every record,   *)
(* on the disk, on its way to it or in the bundle, is past those that have  *)
(* left by the time it counts (Bounds). As long as nothing odd happens, the *)
(* session of every envelope is in all of them, or was given up (Keeps).    *)
Gens == 1 .. MaxGens
Sessions == [Chats -> [gen : Gens, step : Nat] \cup {None}]
Envelopes == Chats \X Gens \X Nat
Record == [by : Devices, held : Sessions]
Save == [slot : Slots \cup {None}, out : Envelopes \cup {None}, held : Sessions]
Use == [at : {"bundle"}, chat : Chats] \cup [at : {"made", "step"}, chat : Chats, gen : Gens]
           \cup [at : {"none", "save"}]
Types ==
    /\ mem \in [Devices -> [Chats -> Gens \cup {None}]] /\ steps \in [Devices -> [Gens -> Nat]]
    /\ disk \in [Devices -> Record] /\ bundle \in Record \cup {None}
    /\ use \in [Devices -> [Slots -> Use]] /\ saves \in [Devices -> Seq(Save)]
    /\ given \subseteq Envelopes /\ gens \in 0 .. MaxGens /\ home \subseteq Devices

(* The envelope that waits for the i-th write of d is x.                    *)
Waits(d, i, x) == i \in DOMAIN saves[d] /\ saves[d][i].out = x /\ x # None
Uses(d, s, g) == use[d][s].at \in {"made", "step"} /\ use[d][s].gen = g
Live(d, g) == (\E c \in Chats : mem[d][c] = g) \/ \E s \in Slots : Uses(d, s, g)

SlotsOK(d) == \A i \in DOMAIN saves[d] : LET s == saves[d][i].slot IN s # None =>
    /\ use[d][s].at = IF saves[d][i].out = None THEN "made" ELSE "save"
    /\ \A j \in DOMAIN saves[d] : saves[d][j].slot = s => i = j

GensKnown ==
    /\ \A d \in Devices :
          /\ \A g \in Gens : Live(d, g) => g <= gens
          /\ \A i \in DOMAIN saves[d], x \in Envelopes : Waits(d, i, x) => x[2] <= gens
    /\ \A x \in given : x[2] <= gens
HeldKnown(held) == \A c \in Chats : held[c] # None => held[c].gen <= gens
RecordsKnown ==
    /\ \A d \in Devices : HeldKnown(disk[d].held)
                          /\ \A i \in DOMAIN saves[d] : HeldKnown(saves[d][i].held)
    /\ bundle # None => HeldKnown(bundle.held)

OneHome ==
    /\ \A d, e \in home : d = e
    /\ bundle # None => home = {}
    /\ \A d \in Devices \ home :
          mem[d] = Empty /\ disk[d].held = Empty /\ use[d] = [s \in Slots |-> Idle] /\ saves[d] = <<>>

Past(held, x) == \A c \in Chats : held[c] # None /\ held[c].gen = x[2] => x[3] <= held[c].step
Ahead(d) == \A g \in Gens : Live(d, g) =>
    /\ \A x \in given : x[2] = g => x[3] <= steps[d][g]
    /\ \A i \in DOMAIN saves[d], x \in Envelopes : Waits(d, i, x) /\ x[2] = g => x[3] <= steps[d][g]
WritesAhead(d) == \A i \in DOMAIN saves[d] :
    /\ \A x \in given : Past(saves[d][i].held, x)
    /\ \A j \in 1 .. i, x \in Envelopes : Waits(d, j, x) => Past(saves[d][i].held, x)
OutOnce(d) == \A i \in DOMAIN saves[d], x \in Envelopes : Waits(d, i, x) =>
    x \notin given /\ \A j \in DOMAIN saves[d] : Waits(d, j, x) => i = j
Bounds ==
    /\ \A d \in Devices : Ahead(d) /\ WritesAhead(d) /\ OutOnce(d)
                          /\ \A x \in given : Past(disk[d].held, x)
    /\ bundle # None => \A x \in given : Past(bundle.held, x)
    /\ ~reused

Has(held, x) == x[2] \in dropped \/ (held[x[1]] # None /\ held[x[1]].gen = x[2])
InMemory(d, x) == x[2] \in dropped \/ mem[d][x[1]] = x[2]
KeepsAt(d) ==
    /\ disk[d].by = d /\ \A x \in given : InMemory(d, x) /\ Has(disk[d].held, x)
    /\ \A i \in DOMAIN saves[d] :
          /\ \A x \in given : Has(saves[d][i].held, x)
          /\ \A x \in Envelopes : Waits(d, i, x) => InMemory(d, x)
          /\ \A j \in 1 .. i, x \in Envelopes : Waits(d, j, x) => Has(saves[d][i].held, x)
    /\ \A s \in Slots : LET o == use[d][s] IN
          /\ o.at \in {"made", "step"} => o.gen \in dropped \/ mem[d][o.chat] = o.gen
          /\ o.at = "bundle" => mem[d][o.chat] = None /\ \A r \in Slots : use[d][r] = o => r = s
Keeps ==
    /\ \A d \in home : KeepsAt(d)
    /\ bundle # None => \A x \in given : Has(bundle.held, x)
    /\ ~lost

Steady == odd \cap {"failed", "crossed", "forked"} = {}
SessionsInv ==
    /\ Types /\ GensKnown /\ RecordsKnown /\ \A d \in Devices : SlotsOK(d)
    /\ Steady => OneHome /\ Bounds
    /\ odd = {} => Keeps
================================================================================
