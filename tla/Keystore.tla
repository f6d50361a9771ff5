------------------------------- MODULE Keystore -------------------------------
(***************************************************************************)
(* The encrypted store of a device (services/secureStorage.ts) and the PIN *)
(* in front of it (pinLock.ts, PinLock.tsx, the PIN forms of               *)
(* SettingsPage.tsx). A record is known by the passphrase it is under.     *)
(*                                                                         *)
(* Left out: the device secret, which every key has in common, the second  *)
(* namespace, legacy formats, a second tab (which keeps the passphrase it  *)
(* has when the first one changes the PIN).                                *)
(***************************************************************************)
EXTENDS Naturals

CONSTANTS
    Pins,
    Records,    \* records of the three stores; "vault" is the refresh token
    MaxFalls    \* bound: reloads and failed transactions

NoPin == "no pin"
Gone == "gone"
Keys == Pins \cup {NoPin}
MaxAttempts == 3
Vault == "vault"
All == Records \cup {Vault}

VARIABLES
    disk,       \* the key each record is under
    gate,       \* pin_hash
    wrong,      \* pin_attempts; MaxAttempts: locked out
    guard,      \* "shut" behind the PIN, "open"
    pass,       \* devicePassphrase
    rewrap,     \* the change of PIN under way
    puts,       \* encrypted, not stored yet: <<record, key>>
    falls,
    spoilt      \* something happened the store does not survive (see there)

keystoreVars == <<disk, gate, wrong, guard, pass, rewrap, puts, falls, spoilt>>

NoRewrap == [at |-> "none", to |-> NoPin, has |-> {}]
Busy == rewrap # NoRewrap

Init ==
    /\ disk = [r \in All |-> Gone] /\ gate = NoPin /\ wrong = 0
    /\ guard = "open" /\ pass = NoPin
    /\ rewrap = NoRewrap /\ puts = {} /\ falls = 0 /\ spoilt = FALSE

-----------------------------------------------------------------------------
(* Storing: encryptAtRest with the key of now, then the put.                *)

Encrypt(r) ==
    /\ guard = "open" /\ ~\E k \in Keys : <<r, k>> \in puts
    /\ puts' = puts \cup {<<r, pass>>}
    /\ spoilt' = (spoilt \/ Busy)           \* nothing holds it back meanwhile
    /\ UNCHANGED <<disk, gate, wrong, guard, pass, rewrap, falls>>

Put(r, k) ==
    /\ <<r, k>> \in puts /\ puts' = puts \ {<<r, k>>}
    /\ disk' = [disk EXCEPT ![r] = k]
    /\ UNCHANGED <<gate, wrong, guard, pass, rewrap, falls, spoilt>>

(* clearAll, on "delete my keys": the passphrase goes too, the PIN stays.   *)
ClearNamespace ==
    /\ guard = "open" /\ rewrap = NoRewrap
    /\ disk' = [r \in All |-> IF r = Vault THEN disk[r] ELSE Gone]
    /\ pass' = NoPin
    /\ spoilt' = (spoilt \/ gate # NoPin)
    /\ UNCHANGED <<gate, wrong, guard, rewrap, puts, falls>>

-----------------------------------------------------------------------------
(* The lock screen.                                                         *)

UnlockWithPin(pin) ==
    /\ guard = "shut" /\ wrong < MaxAttempts
    /\ IF pin = gate
       THEN /\ wrong' = 0 /\ pass' = pin
            /\ guard' = "open"
       ELSE /\ wrong' = wrong + 1 /\ UNCHANGED guard
            /\ pass' = IF wrong' = MaxAttempts THEN NoPin ELSE pass
    /\ UNCHANGED <<disk, gate, rewrap, puts, falls, spoilt>>

LockoutEnds ==
    /\ wrong = MaxAttempts /\ wrong' = 0
    /\ UNCHANGED <<disk, gate, guard, pass, rewrap, puts, falls, spoilt>>

Shut == IF gate = NoPin THEN "open" ELSE "shut"

(* lockCrypto at a logout.                                                  *)
LockCrypto ==
    /\ guard = "open" /\ rewrap = NoRewrap
    /\ pass' = NoPin /\ guard' = Shut
    /\ UNCHANGED <<disk, gate, wrong, rewrap, puts, falls, spoilt>>

(* A reload, between any two steps.                                         *)
Reload ==
    /\ falls < MaxFalls /\ falls' = falls + 1
    /\ pass' = NoPin /\ guard' = Shut
    /\ rewrap' = NoRewrap
    /\ puts' = {}
    /\ spoilt' = (spoilt \/ rewrap.at \in {"written", "gate"})
    /\ UNCHANGED <<disk, gate, wrong>>

-----------------------------------------------------------------------------
(* enablePin (from NoPin), changePin, disablePin (to NoPin), in their steps.*)

(* Mutant: the gate is stored before the records are under the new key.     *)
Begin_GateFirst(from, to) ==
    /\ guard = "open" /\ rewrap = NoRewrap
    /\ from = gate /\ from # to
    /\ pass' = from
    /\ rewrap' = [at |-> "read", to |-> to, has |-> {}]
    /\ spoilt' = (spoilt \/ puts # {})
    /\ gate' = to
    /\ UNCHANGED <<disk, wrong, guard, puts, falls>>

(* The current PIN is verified against the gate, then it is the passphrase. *)
Begin(from, to) ==
    /\ guard = "open" /\ rewrap = NoRewrap
    /\ from = gate /\ from # to
    /\ pass' = from
    /\ rewrap' = [at |-> "read", to |-> to, has |-> {}]
    /\ spoilt' = (spoilt \/ puts # {})
    /\ UNCHANGED <<disk, gate, wrong, guard, puts, falls>>

(* rewrapSecureStorage: every record is read and decrypted, or none is      *)
(* touched; then the passphrase is the new one.                             *)
DecryptAll ==
    /\ rewrap.at = "read"
    /\ IF \A r \in Records : disk[r] \in {Gone, pass}
       THEN /\ pass' = rewrap.to
            /\ rewrap' = [rewrap EXCEPT !.at = "write", !.has = {r \in Records : disk[r] # Gone}]
       ELSE /\ rewrap' = NoRewrap /\ UNCHANGED pass
    /\ UNCHANGED <<disk, gate, wrong, guard, puts, falls, spoilt>>

(* One transaction; when it fails the passphrase is the new one all the     *)
(* same (pinLock.ts:150 has storage work as before).                        *)
WriteAll ==
    /\ rewrap.at = "write"
    /\ \/ /\ disk' = [r \in All |-> IF r \in rewrap.has THEN rewrap.to ELSE disk[r]]
          /\ rewrap' = [rewrap EXCEPT !.at = "written"]
          /\ UNCHANGED <<falls, spoilt>>
       \/ /\ falls < MaxFalls /\ falls' = falls + 1 /\ spoilt' = TRUE
          /\ rewrap' = NoRewrap /\ UNCHANGED disk
    /\ UNCHANGED <<gate, wrong, guard, pass, puts>>

RepersistRefresh ==
    /\ rewrap.at = "written"
    /\ disk' = [disk EXCEPT ![Vault] = IF @ = Gone THEN Gone ELSE pass]
    /\ rewrap' = [rewrap EXCEPT !.at = "gate"]
    /\ UNCHANGED <<gate, wrong, guard, pass, puts, falls, spoilt>>

(* setPin or clearPin.                                                      *)
SetPin ==
    /\ rewrap.at = "gate"
    /\ gate' = rewrap.to /\ wrong' = 0
    /\ pass' = rewrap.to
    /\ rewrap' = NoRewrap
    /\ UNCHANGED <<disk, guard, puts, falls, spoilt>>

-----------------------------------------------------------------------------
Next ==
    \/ \E r \in All : Encrypt(r) \/ \E k \in Keys : Put(r, k)
    \/ \E pin \in Pins : UnlockWithPin(pin)
    \/ \E from, to \in Keys : Begin(from, to)
    \/ ClearNamespace \/ LockCrypto \/ Reload \/ LockoutEnds
    \/ DecryptAll \/ WriteAll \/ RepersistRefresh \/ SetPin

Spec == Init /\ [][Next]_keystoreVars

-----------------------------------------------------------------------------
(* Property: the PIN that opens the app opens every record (a PIN set,      *)
(* changed, removed, mistyped, a reload before the records are written,     *)
(* secureStorage.ts:471-520, pinLock.ts:147-187), unless a record was       *)
(* stored during a change, the keys were deleted under a PIN, the           *)
(* transaction failed or the app died right after it.                       *)
KeysReadable == (~spoilt /\ ~Busy /\ puts = {}) => \A r \in All : disk[r] \in {Gone, gate}

-----------------------------------------------------------------------------
(* What KeysReadable follows from. Between two changes of the PIN what is   *)
(* encrypted and stored is under the key of the gate, and whoever is past   *)
(* the gate has its passphrase. During a change nothing is on its way, and  *)
(* the records are under the old key up to the transaction, under the new   *)
(* one after it, the refresh token one step later.                          *)
Types ==
    /\ disk \in [All -> Keys \cup {Gone}] /\ {gate, pass} \subseteq Keys
    /\ rewrap \in [at : {"none", "read", "write", "written", "gate"}, to : Keys, has : SUBSET Records]
    /\ rewrap.at = "none" => ~Busy
Under(k, rs) == \A r \in rs : disk[r] \in {Gone, k}

KeystoreInv ==
    /\ Types
    /\ ~spoilt /\ ~Busy =>
          /\ \A x \in puts : x[2] = gate
          /\ guard = "open" => pass = gate
          /\ Under(gate, All)
    /\ ~spoilt /\ Busy =>
          /\ puts = {} /\ guard = "open"
          /\ rewrap.at \in {"read", "write"} => Under(gate, All)
          /\ rewrap.at = "read" => pass = gate
          /\ rewrap.at = "write" => rewrap.has = {r \in Records : disk[r] # Gone}
          /\ rewrap.at \in {"written", "gate"} => Under(rewrap.to, Records)
          /\ rewrap.at = "written" => disk[Vault] \in {Gone, gate, rewrap.to}
          /\ rewrap.at = "gate" => Under(rewrap.to, All)
          /\ rewrap.at \in {"write", "written", "gate"} => pass = rewrap.to
=============================================================================
