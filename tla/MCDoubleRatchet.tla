---------------------------- MODULE MCDoubleRatchet ----------------------------
(***************************************************************************)
(* Two instances of DoubleRatchet over the same variables; a behaviour is  *)
(* one of one of them. In "late" Alice sends five envelopes that arrive in *)
(* any order, with small windows for the skipped keys. In "turns" both     *)
(* write, everything arrives in order and the pages are reloaded.          *)
(***************************************************************************)
EXTENDS DoubleRatchet

CONSTANTS alice, bob,
          TurnsSent, TurnsReloads,  \* MaxSent and MaxReloads of "turns"
          Parts     \* the instances to check

ASSUME TurnsAssumption == TurnsSent \in [Users -> Nat] /\ TurnsReloads \in Nat

VARIABLE part

Both == {alice, bob}
OnlyAlice == {alice}

Four == [u \in Both |-> 4]
FiveFromAlice == [u \in Both |-> IF u = alice THEN 5 ELSE 0]
FourAndOne == [u \in Both |-> IF u = alice THEN 4 ELSE 1]

Turns == INSTANCE DoubleRatchet WITH
    MaxSent <- TurnsSent, MaxReloads <- TurnsReloads, Window <- 0, MaxAgain <- 0

MCInit == part \in Parts /\ Init

MCNext ==
    /\ UNCHANGED part
    /\ \/ part = "late" /\ Next
       \/ part = "turns" /\ Turns!Next

MCSpec == MCInit /\ [][MCNext]_<<part, vars>>

-----------------------------------------------------------------------------
(* A message key is used for one envelope, the one whose header names it   *)
(* (doubleRatchet.ts:365-388).                                              *)
KeysNameEnvelopes == KeyUsedOnce /\ HeaderNamesKey

(* The clients stay on one line of root keys, the keys kept for overtaken   *)
(* envelopes are those that open them, and as long as envelopes arrive in   *)
(* order all of them are read (doubleRatchet.ts:276-343, 428-442).          *)
ClientsAgree == RootsAgree /\ SkippedKeysOpen /\ (part = "turns" => EveryMessageRead)
================================================================================
