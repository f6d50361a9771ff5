---------------------------- MODULE MCWsConnections ----------------------------
(***************************************************************************)
(* Two instances of WsConnections over the same variables; a behaviour is  *)
(* one of one of them. In "delivery" one of three members sends a message  *)
(* while sockets vanish, close and lose their tokens. In "routes" the      *)
(* chat has two members, one of whom reconnects, and its membership        *)
(* changes twice; cat stays away.                                          *)
(***************************************************************************)
EXTENDS WsConnections, TLC

CONSTANTS ann, ben, cat

VARIABLE part

Three == {ann, ben, cat}
Once == [u \in Three |-> 1]
BenTwice == ann :> 1 @@ ben :> 2 @@ cat :> 0

Routes == INSTANCE WsConnections WITH
    Conns <- BenTwice, Members <- {ann, ben}, MaxMessages <- 0, MaxChanges <- 2

MCInit ==
    \/ part = "delivery" /\ Init
    \/ part = "routes" /\ Routes!Init

MCNext ==
    /\ UNCHANGED part
    /\ \/ part = "delivery" /\ Next
       \/ part = "routes" /\ Routes!Next /\ cat \notin members'

MCSpec == MCInit /\ [][MCNext]_<<part, vars>>

(* Users differ in the number of their sockets in "routes", so that none of *)
(* its states is the image of another.                                      *)
Symmetric == Permutations(Three)
================================================================================
