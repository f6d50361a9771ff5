------------------------------ MODULE Mailbox ------------------------------
(***************************************************************************)
(* What the deaf relay promises about the messages it stores, whatever the *)
(* order of its handlers, its threads and its background loop: it is a     *)
(* mailbox that forgets a message only when it owes it to nobody, unless   *)
(* it has been released from the promise (retention, withdrawal).          *)
(***************************************************************************)
CONSTANTS Users, Ids

VARIABLES
    phase,     \* phase[m]: "new", "held" or "gone"
    owed,      \* owed[m]: the users the relay still owes m to
    free       \* the messages it is released from

mail == <<phase, owed, free>>

Init ==
    /\ phase = [m \in Ids |-> "new"]
    /\ owed = [m \in Ids |-> {}]
    /\ free = {}

Store(m) ==
    /\ phase[m] = "new"
    /\ phase' = [phase EXCEPT ![m] = "held"]
    /\ \E to \in SUBSET Users : owed' = [owed EXCEPT ![m] = to]
    /\ free \subseteq free'

(* Users read, fetch or leave; messages are withdrawn or grow old.          *)
Serve ==
    /\ UNCHANGED phase /\ free \subseteq free'
    /\ owed' \in [Ids -> SUBSET Users]
    /\ \A m \in Ids : owed'[m] \subseteq owed[m]

(* A user who joins may be owed what nobody has been given yet.             *)
Join(u) ==
    /\ UNCHANGED <<phase, free>>
    /\ owed' \in [Ids -> SUBSET Users]
    /\ \A m \in Ids : owed'[m] \subseteq owed[m] \cup {u}

Forget ==
    /\ phase' \in [Ids -> {"new", "held", "gone"}]
    /\ owed' \in [Ids -> SUBSET Users]
    /\ free \subseteq free'
    /\ \A m \in Ids :
          /\ owed'[m] \subseteq owed[m]
          /\ phase'[m] # phase[m] =>
                phase[m] = "held" /\ phase'[m] = "gone" /\ (owed[m] = {} \/ m \in free)

Next == (\E m \in Ids : Store(m)) \/ Serve \/ (\E u \in Users : Join(u)) \/ Forget

Spec == Init /\ [][Next]_mail
=============================================================================
