------------------------------- MODULE Identity -------------------------------
(***************************************************************************)
(* The identity keys of a device: moved from localStorage, where earlier   *)
(* versions kept them, to IndexedDB when the page starts                   *)
(* (services/e2e.ts: initSecureStorage, services/secureStorage.ts:         *)
(* migrateAllFromLocalStorage), and made anew by a registration            *)
(* (pages/LoginPage.tsx), with or without a PIN. The page may be closed    *)
(* between any two writes. An identity is a number, 0 the old one. How all *)
(* records are sealed anew when the PIN changes is in Keystore.            *)
(***************************************************************************)
EXTENDS Naturals, Sequences

CONSTANTS
    MaxIds,     \* registrations
    None

VARIABLES
    had,        \* the device comes from the old version
    legacy,     \* what localStorage still has of it
    secret,     \* whether it has the secret these are sealed with
    db,         \* the identity in IndexedDB, and whether a PIN seals it
    moved,      \* pre-keys in IndexedDB that came from localStorage
    pin, pass,  \* a PIN is set; its passphrase is in memory
    boot,       \* initSecureStorage
    gate,       \* the login page asks for the PIN
    reg,        \* a registration: "none", "asked" or "accepted"
    made,       \* identities made
    server,     \* the identity of the account at the relay, 0 for the old one
    saved,      \* a registration saved its keys
    odd         \* what happened that may cost an identity (see there)

identityVars == <<had, legacy, secret, db, moved, pin, pass, boot, gate, reg, made, server, saved, odd>>

Order == <<"identity", "spk", "opks">>
Locked == pin /\ ~pass
Done == [at |-> "done"]
After(k) == IF k = Len(Order) THEN Done ELSE [at |-> "write", k |-> k + 1]

Init ==
    /\ had \in BOOLEAN /\ legacy = (IF had THEN {"identity", "spk", "opks", "sessions"} ELSE {})
    /\ secret \in BOOLEAN
    /\ db = None /\ moved = {} /\ pin = FALSE /\ pass = FALSE
    /\ boot = [at |-> "asked"] /\ gate = FALSE
    /\ reg = "none" /\ made = 0 /\ server = 0 /\ saved = FALSE /\ odd = {}

-----------------------------------------------------------------------------
(* initSecureStorage: nothing while the PIN is not given; nothing to move   *)
(* without the old identity, or when it does not open.                      *)
InitSecureStorage ==
    /\ boot.at = "asked"
    /\ boot' = IF ~Locked /\ "identity" \in legacy /\ secret THEN [at |-> "write", k |-> 1] ELSE Done
    /\ UNCHANGED <<had, legacy, secret, db, moved, pin, pass, gate, reg, made, server, saved, odd>>

(* A part is written to IndexedDB, or the write fails and the next part has *)
(* its turn. The one-time keys come without their secrets. Mutant: nobody   *)
(* waits for the write, so its failure goes unnoticed.                      *)
Write_Unawaited(k) ==
    /\ boot = [at |-> "write", k |-> k] /\ Order[k] \in legacy
    /\ boot' = [at |-> "erase", k |-> k]
    /\ IF k = 1 THEN db' \in {db, [id |-> 0, sealed |-> pass]} /\ UNCHANGED moved
       ELSE moved' = moved \cup {Order[k]} /\ UNCHANGED db
    /\ UNCHANGED <<had, legacy, secret, pin, pass, gate, reg, made, server, saved, odd>>

Write(k) ==
    /\ boot = [at |-> "write", k |-> k]
    /\ \/ /\ Order[k] \in legacy
          /\ boot' = [at |-> "erase", k |-> k]
          /\ IF k = 1 THEN db' = [id |-> 0, sealed |-> pass] /\ UNCHANGED moved
             ELSE moved' = moved \cup {Order[k]} /\ UNCHANGED db
          /\ UNCHANGED odd
       \/ /\ boot' = After(k) /\ UNCHANGED <<db, moved>>
          /\ odd' = IF Order[k] \in legacy THEN odd \cup {"failed"} ELSE odd
    /\ UNCHANGED <<had, legacy, secret, pin, pass, gate, reg, made, server, saved>>

(* Then it is removed; with the identity the old sessions, which are not    *)
(* moved.                                                                   *)
Erase(k) ==
    /\ boot = [at |-> "erase", k |-> k]
    /\ legacy' = legacy \ (IF k = 1 THEN {"identity", "sessions"} ELSE {Order[k]})
    /\ boot' = After(k)
    /\ UNCHANGED <<had, secret, db, moved, pin, pass, gate, reg, made, server, saved, odd>>

-----------------------------------------------------------------------------
(* The page is closed or loaded anew, in the midst of anything.             *)
PageLoads ==
    /\ boot' = [at |-> "asked"] /\ pass' = FALSE /\ gate' = pin
    /\ reg' = "none" /\ odd' = IF reg = "none" THEN odd ELSE odd \cup {"cut"}
    /\ UNCHANGED <<had, legacy, secret, db, moved, pin, made, server, saved>>

(* The PIN: set and unset in the settings, given on the login page (the     *)
(* page waits for initSecureStorage) and dropped at a logout.               *)
SetPin ==
    /\ boot = Done /\ reg = "none" /\ ~Locked
    /\ db # None /\ db.sealed = pass
    /\ pin' = ~pin /\ pass' = ~pin /\ db' = [db EXCEPT !.sealed = ~pin]
    /\ UNCHANGED <<had, legacy, secret, moved, boot, gate, reg, made, server, saved, odd>>

PinGiven ==
    /\ gate /\ Locked /\ pass' = TRUE /\ boot' = [at |-> "asked"]
    /\ UNCHANGED <<had, legacy, secret, db, moved, pin, gate, reg, made, server, saved, odd>>

PinUnlocked ==
    /\ gate /\ ~Locked /\ boot = Done /\ gate' = FALSE
    /\ UNCHANGED <<had, legacy, secret, db, moved, pin, pass, boot, reg, made, server, saved, odd>>

Logout ==
    /\ boot = Done /\ reg = "none" /\ ~gate /\ pass' = FALSE /\ gate' = pin
    /\ UNCHANGED <<had, legacy, secret, db, moved, pin, boot, reg, made, server, saved, odd>>

-----------------------------------------------------------------------------
(* handleRegister: keys are made, the relay gets the public ones, and only  *)
(* when it has accepted are they saved.                                     *)
HandleRegister ==
    /\ ~gate /\ reg = "none" /\ made < MaxIds
    /\ made' = made + 1 /\ reg' = "asked"
    /\ UNCHANGED <<had, legacy, secret, db, moved, pin, pass, boot, gate, server, saved, odd>>

(* The relay accepts, refuses, or accepts and the answer is lost.           *)
Registered ==
    /\ reg = "asked"
    /\ \/ reg' = "accepted" /\ server' = made /\ UNCHANGED odd
       \/ reg' = "none" /\ UNCHANGED <<server, odd>>
       \/ reg' = "none" /\ server' = made /\ odd' = odd \cup {"cut"}
    /\ UNCHANGED <<had, legacy, secret, db, moved, pin, pass, boot, gate, made, saved>>

(* claimLocalKeys and saveKeys: what an earlier owner had is wiped first,   *)
(* and clearAll forgets the passphrase with it.                             *)
SaveKeys ==
    /\ reg = "accepted" /\ reg' = "none"
    /\ \E wiped \in {FALSE, db # None} :
        /\ pass' = (pass /\ ~wiped) /\ moved' = (IF wiped THEN {} ELSE moved)
        /\ db' = [id |-> made, sealed |-> pass']
        /\ odd' = odd \cup (IF wiped /\ pin THEN {"forgot"} ELSE {})
                      \cup (IF boot = Done THEN {} ELSE {"overlap"})
    /\ saved' = TRUE
    /\ UNCHANGED <<had, legacy, secret, pin, boot, gate, made, server>>

-----------------------------------------------------------------------------
Next ==
    \/ InitSecureStorage \/ PageLoads
    \/ \E k \in 1 .. Len(Order) : Write(k) \/ Erase(k)
    \/ SetPin \/ PinGiven \/ PinUnlocked \/ Logout
    \/ HandleRegister \/ Registered \/ SaveKeys

Spec == Init /\ [][Next]_identityVars

-----------------------------------------------------------------------------
(* Property: wherever the page is closed, the old identity is in            *)
(* localStorage or in IndexedDB until a registration replaces it (it is     *)
(* written before it is removed, secureStorage.ts:631-634); the identity    *)
(* the relay knows is the one the device keeps, and opens with the PIN that *)
(* is set (LoginPage.tsx:120-123). `odd` names what breaks this: a          *)
(* registration cut off after it was accepted; a move that failed before a  *)
(* registration and succeeds after it, or overlaps with it; the passphrase  *)
(* forgotten with the records of an earlier owner.                          *)
OldIsKept == had /\ ~saved => "identity" \in legacy \/ (db # None /\ db.id = 0)
NewIsKept ==
    server > 0 /\ reg = "none" /\ odd \cap {"cut", "failed", "overlap"} = {}
        => db # None /\ db.id = server
Opens == db # None /\ "forgot" \notin odd => (db.sealed <=> pin)

IdentityKept == OldIsKept /\ NewIsKept /\ Opens

(* Claimed by e2e.ts:940, and not so: what localStorage has of the old      *)
(* version is moved when the app starts. A page closed after the identity   *)
(* was moved leaves the pre-keys where they are for good.                   *)
AllMoves == boot = Done /\ secret /\ ~Locked /\ "failed" \notin odd => legacy = {}

-----------------------------------------------------------------------------
(* What IdentityKept follows from, part by part. A move is under way only   *)
(* with the secret, and writes before it erases; as long as no write failed,*)
(* what can be moved is moved before anything else happens, and nothing of  *)
(* it is left to overwrite what a registration saved; whoever is past the   *)
(* gate, or moves the identity, has the passphrase of the PIN.              *)
Moving == boot.at \in {"write", "erase"}
Movable == secret /\ "identity" \in legacy
Clean == odd \cap {"cut", "failed", "overlap"} = {}

Types ==
    /\ {had, secret, pin, pass, gate, saved} \subseteq BOOLEAN
    /\ db \in {None} \cup [id : Nat, sealed : BOOLEAN]
    /\ boot \in [at : {"asked", "done"}] \cup [at : {"write", "erase"}, k : 1..Len(Order)]
    /\ reg \in {"none", "asked", "accepted"} /\ made \in Nat /\ server \in 0..made

MoveOK ==
    /\ Moving => secret
    /\ boot = [at |-> "erase", k |-> 1] /\ ~saved => db # None /\ db.id = 0
    /\ "failed" \notin odd /\ Movable =>
          ~pin /\ boot \in {[at |-> "asked"], [at |-> "write", k |-> 1], [at |-> "erase", k |-> 1]}

AccountOK ==
    /\ reg = "accepted" => server = made
    /\ Clean /\ server > 0 /\ reg # "accepted" => db # None /\ db.id = server /\ ~Movable

PinOK ==
    /\ pass => pin
    /\ reg # "none" => ~gate
    /\ "forgot" \notin odd => (Moving \/ ~gate => (pass <=> pin))

IdentityInv == Types /\ MoveOK /\ AccountOK /\ PinOK /\ OldIsKept /\ Opens
================================================================================
