---------------------------- MODULE CallLifecycle ----------------------------
(***************************************************************************)
(* What signalling promises about one call, whatever the coroutines of     *)
(* server/ws/signaling.py interleave: an id is rung once, by one user for  *)
(* another; it is answered at most once and only while it rings; once      *)
(* forgotten it never comes back.                                          *)
(***************************************************************************)
CONSTANTS Users, Calls
VARIABLE calls

Ring(c, u, v) == /\ calls[c].status = "fresh" /\ u # v
                 /\ calls' = [calls EXCEPT ![c] = [status |-> "ringing", caller |-> u, callee |-> v]]
Answer(c) == /\ calls[c].status = "ringing"
             /\ calls' = [calls EXCEPT ![c].status = "active"]
\* A hang-up, a rejection, a timeout or a failed delivery ends one call, a restart all.
Forget(S) == /\ \A c \in S : calls[c].status \in {"ringing", "active"}
             /\ calls' = [c \in Calls |-> IF c \in S THEN [calls[c] EXCEPT !.status = "gone"]
                                          ELSE calls[c]]

Init == \E u \in Users :
          calls = [c \in Calls |-> [status |-> "fresh", caller |-> u, callee |-> u]]
Next == \/ \E c \in Calls, u, v \in Users : Ring(c, u, v)
        \/ \E c \in Calls : Answer(c)
        \/ \E S \in SUBSET Calls : Forget(S)
Spec == Init /\ [][Next]_calls
=============================================================================
