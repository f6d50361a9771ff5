-------------------------- MODULE DoubleRatchetProofs --------------------------
(***************************************************************************)
(* Proofs about DoubleRatchet for any bounds, rotation and windows, while  *)
(* the calls of one client do not overlap (Slots = 1): whatever the relay  *)
(* repeats or reorders, no message key seals two envelopes; in the turns   *)
(* of two clients that read in order every envelope is read; and of one    *)
(* chain whose envelopes arrive in any order none costs a session.         *)
(***************************************************************************)
EXTENDS MCDoubleRatchet, FiniteSetTheorems, SequenceTheorems, TLAPS

\* A key pair u has made; one that no header has named yet; one its peer may know.
Made(u, k) == k = <<u, k[2]>> /\ k[2] \in Nat /\ 1 <= k[2] /\ k[2] < nextKey[u]
Unnamed(u, k) == Made(u, k) /\ 2 <= k[2] /\ \A i \in DOMAIN relay[u] : relay[u][i].dh # k
Known(u) == {<<u, 0>>, <<u, 1>>} \cup {relay[u][i].dh : i \in DOMAIN relay[u]}

\* root ends with the shared secret of k, a key of u, and one of its peer.
EndsWith(u, root, k) ==
    /\ root \in Seq(Secrets) /\ root # <<>>
    /\ \E p \in Known(Peer(u)) : Last(root) = {k, p}

IsSequence(s) == Len(s) \in Nat /\ s = [i \in 1..Len(s) |-> s[i]]

IsSession(x) ==
    x = [dhs |-> x.dhs, wiped |-> x.wiped, dhr |-> x.dhr, rk |-> x.rk, cks |-> x.cks,
         ckr |-> x.ckr, ns |-> x.ns, pn |-> x.pn, skipped |-> x.skipped, seen |-> x.seen,
         pending |-> x.pending, fresh |-> x.fresh]

\* The sending chain of x is where the envelopes sealed with it end.
Sends(u, x) ==
    /\ x.cks = [root |-> x.cks.root, step |-> x.ns]
    /\ 2 <= x.dhs[2] /\ EndsWith(u, x.cks.root, x.dhs)
    /\ \A i \in DOMAIN relay[u] : relay[u][i].dh = x.dhs =>
          relay[u][i].key.root = x.cks.root /\ relay[u][i].key.step < x.ns

SessionInv(u, x) ==
    /\ IsSession(x)
    /\ Made(u, x.dhs) /\ x.dhr \in Known(Peer(u))
    /\ x.rk \in Seq(Secrets) /\ x.ns \in Nat
    /\ x.fresh \in BOOLEAN /\ x.pending \in BOOLEAN
    /\ x.fresh => x.pending /\ Unnamed(u, x.dhs)
    /\ ~x.pending /\ x.cks # None => Sends(u, x)

CallInv(u, o) ==
    \/ o = None
    \/ o = [pc |-> "bundle"]
    \/ o.pc = "bob" /\ \E n \in DOMAIN relay[Peer(u)] : o = [pc |-> "bob", msg |-> n]
    \/ /\ cur[u] # 0
       /\ \/ /\ o.pc = "dh" /\ o = [pc |-> "dh", sid |-> cur[u], msg |-> o.msg, root |-> o.root]
             /\ o.msg \in DOMAIN relay[Peer(u)] /\ o.root \in Seq(Secrets)
          \/ /\ o.pc = "chain" /\ o = [pc |-> "chain", sid |-> cur[u], msg |-> o.msg, chain |-> o.chain]
             /\ o.msg \in DOMAIN relay[Peer(u)]
          \/ /\ o.pc = "ratchet"
             /\ o = [pc |-> "ratchet", sid |-> cur[u], place |-> o.place, dhs |-> o.dhs, root |-> o.root]
             /\ o.place \in 1..3 /\ Unnamed(u, o.dhs) /\ EndsWith(u, o.root, o.dhs)
             /\ ~heap[u][cur[u]].fresh
          \/ /\ o.pc = "key" /\ o = [pc |-> "key", sid |-> cur[u], chain |-> heap[u][cur[u]].cks]
             /\ ~heap[u][cur[u]].pending /\ heap[u][cur[u]].cks # None

ClientInv(u) ==
    /\ nextKey[u] \in Nat /\ 2 <= nextKey[u]
    /\ IsSequence(heap[u]) /\ IsSequence(relay[u])
    /\ cur[u] \in Nat /\ cur[u] <= Len(heap[u])
    /\ cur[u] # 0 => SessionInv(u, heap[u][cur[u]])
    /\ stored[u] # None => SessionInv(u, stored[u])
    /\ \A s \in 1..Slots : CallInv(u, op[u][s])

\* An envelope names the chain it comes from; the header's key, its root; the two, its step.
EnvelopeInv(u, i) ==
    LET m == relay[u][i]
    IN  /\ Made(u, m.dh) /\ 2 <= m.dh[2]
        /\ m.key = [root |-> m.key.root, step |-> m.ns] /\ m.ns \in Nat
        /\ EndsWith(u, m.key.root, m.dh)
        /\ \A j \in DOMAIN relay[u] : j # i /\ relay[u][j].dh = m.dh =>
              relay[u][j].key.root = m.key.root /\ relay[u][j].ns # m.ns

Apart(u, v) ==
    \A i \in DOMAIN relay[u], j \in DOMAIN relay[v] : relay[u][i].key.root # relay[v][j].key.root

Shape ==
    /\ heap = [u \in Users |-> heap[u]] /\ cur = [u \in Users |-> cur[u]]
    /\ stored = [u \in Users |-> stored[u]] /\ nextKey = [u \in Users |-> nextKey[u]]
    /\ op = [u \in Users |-> [s \in 1..Slots |-> op[u][s]]] /\ relay = [u \in Users |-> relay[u]]

KeyInv ==
    /\ Shape
    /\ \A u \in Users : ClientInv(u) /\ \A i \in DOMAIN relay[u] : EnvelopeInv(u, i)
    /\ \A u, v \in Users : u # v => Apart(u, v)

\* A step of u leaves the other client alone.
Elsewhere(u) ==
    \A v \in Users \ {u} :
        /\ heap'[v] = heap[v] /\ cur'[v] = cur[v] /\ stored'[v] = stored[v]
        /\ nextKey'[v] = nextKey[v] /\ op'[v] = op[v] /\ relay'[v] = relay[v]

-----------------------------------------------------------------------------
(* Users, sequences, keys.                                                  *)

LEMMA PeerIsOther == \A u \in Users : Peer(u) \in Users /\ Peer(u) # u
<1> TAKE u \in Users
<1>1. \E v \in Users : v # u
  <2> SUFFICES ASSUME \A v \in Users : v = u PROVE FALSE
    OBVIOUS
  <2>1. Users = {u}
    OBVIOUS
  <2>2. Cardinality({u}) = 1
    BY FS_Singleton
  <2> QED BY <2>1, <2>2, UsersAssumption
<1> QED BY <1>1 DEF Peer

LEMMA SequenceOf ==
  ASSUME NEW s, IsSequence(s)
  PROVE  s \in Seq({s[i] : i \in 1..Len(s)}) /\ DOMAIN s = 1..Len(s)
<1> DEFINE S == {s[i] : i \in 1..Len(s)}
<1>1. s \in [1..Len(s) -> S]
  BY DEF IsSequence
<1>2. Len(s) \in Nat
  BY DEF IsSequence
<1>3. [1..Len(s) -> S] \subseteq Seq(S)
  BY <1>2, SeqDef
<1> QED BY <1>1, <1>3

LEMMA IsOne == ASSUME NEW S, NEW s \in Seq(S) PROVE IsSequence(s) /\ DOMAIN s = 1..Len(s)
<1>1. Len(s) \in Nat /\ s \in [1..Len(s) -> S]
  BY LenProperties
<1> QED BY <1>1 DEF IsSequence

LEMMA AppendedTo ==
  ASSUME NEW s, IsSequence(s), NEW x
  PROVE  /\ IsSequence(Append(s, x)) /\ Len(Append(s, x)) = Len(s) + 1
         /\ \A i \in 1..Len(s) : Append(s, x)[i] = s[i]
         /\ Append(s, x)[Len(s) + 1] = x
         /\ DOMAIN s = 1..Len(s) /\ DOMAIN Append(s, x) = 1..(Len(s) + 1)
<1> DEFINE S == {s[i] : i \in 1..Len(s)} \cup {x}
<1>1. s \in Seq(S)
  <2> DEFINE R == {s[i] : i \in 1..Len(s)}
  <2>1. s \in Seq(R)
    BY SequenceOf
  <2>2. R \subseteq S
    OBVIOUS
  <2> HIDE DEF R, S
  <2> QED BY <2>1, <2>2, SeqMonotonic
<1>2. x \in S
  OBVIOUS
<1> HIDE DEF S
<1>3. Append(s, x) \in Seq(S) /\ Len(Append(s, x)) = Len(s) + 1
  BY <1>1, <1>2
<1>4. /\ IsSequence(Append(s, x)) /\ DOMAIN s = 1..Len(s)
      /\ DOMAIN Append(s, x) = 1..(Len(s) + 1)
  BY <1>1, <1>3, IsOne
<1> QED BY <1>1, <1>2, <1>3, <1>4

LEMMA RootGrows ==
  ASSUME NEW r \in Seq(Secrets), NEW d \in Secrets
  PROVE  Append(r, d) \in Seq(Secrets) /\ Append(r, d) # <<>> /\ Last(Append(r, d)) = d
BY DEF Last

\* What a step of u that adds nothing to the relay keeps: time only adds to what is made.
LEMMA Steady ==
  ASSUME NEW u, relay' = relay, nextKey[u] \in Nat, nextKey'[u] \in Nat, nextKey[u] <= nextKey'[u]
  PROVE  /\ \A k : Made(u, k) => Made(u, k)'
         /\ \A k : Unnamed(u, k) => Unnamed(u, k)'
         /\ \A w : Known(w)' = Known(w)
         /\ \A r, k : EndsWith(u, r, k) => EndsWith(u, r, k)'
         /\ \A x : SessionInv(u, x) => SessionInv(u, x)'
<1>1. \A k : Made(u, k) => Made(u, k)'
  BY DEF Made
<1>2. \A k : Unnamed(u, k) => Unnamed(u, k)'
  BY <1>1 DEF Unnamed
<1>3. \A w : Known(w)' = Known(w)
  BY DEF Known
<1>4. \A r, k : EndsWith(u, r, k) => EndsWith(u, r, k)'
  BY <1>3 DEF EndsWith
<1>5. \A x : Sends(u, x) => Sends(u, x)'
  BY <1>4 DEF Sends
<1>6. \A x : SessionInv(u, x) => SessionInv(u, x)'
  BY <1>1, <1>2, <1>3, <1>5 DEF SessionInv
<1> QED BY <1>1, <1>2, <1>3, <1>4, <1>6

\* What a session is to its client, but for what came and what was passed over.
Same(x, y) ==
    /\ IsSession(y)
    /\ y.dhs = x.dhs /\ y.dhr = x.dhr /\ y.rk = x.rk /\ y.ns = x.ns /\ y.cks = x.cks
    /\ y.fresh = x.fresh /\ y.pending = x.pending

LEMMA SameSession ==
  ASSUME NEW u, NEW x, NEW y, SessionInv(u, x), Same(x, y)
  PROVE  SessionInv(u, y)
BY DEF SessionInv, Same, Sends

LEMMA PutAt ==
  ASSUME heap = [v \in Users |-> heap[v]], NEW u \in Users, IsSequence(heap[u]),
         NEW i \in Nat, 1 <= i, i <= Len(heap[u]) + 1, NEW x, Put(u, i, x)
  PROVE  /\ heap' = [v \in Users |-> heap'[v]] /\ \A v \in Users \ {u} : heap'[v] = heap[v]
         /\ IsSequence(heap'[u]) /\ heap'[u][i] = x /\ i <= Len(heap'[u])
<1>1. /\ heap' = [v \in Users |-> heap'[v]] /\ \A v \in Users \ {u} : heap'[v] = heap[v]
      /\ heap'[u] = IF i > Len(heap[u]) THEN Append(heap[u], x) ELSE [heap[u] EXCEPT ![i] = x]
  BY DEF Put
<1>2. Len(heap[u]) \in Nat
  BY DEF IsSequence
<1>3. CASE i > Len(heap[u])
  <2>1. i = Len(heap[u]) + 1 /\ heap'[u] = Append(heap[u], x)
    BY <1>1, <1>2, <1>3
  <2> QED BY <1>1, <2>1, AppendedTo
<1>4. CASE ~(i > Len(heap[u]))
  <2> DEFINE S == {heap[u][j] : j \in 1..Len(heap[u])} \cup {x}
  <2>1. heap[u] \in Seq(S) /\ x \in S
    <3> DEFINE R == {heap[u][j] : j \in 1..Len(heap[u])}
    <3>1. heap[u] \in Seq(R)
      BY SequenceOf
    <3>2. R \subseteq S
      OBVIOUS
    <3>3. x \in S
      OBVIOUS
    <3> HIDE DEF R, S
    <3> QED BY <3>1, <3>2, <3>3, SeqMonotonic
  <2>2. heap'[u] = [heap[u] EXCEPT ![i] = x] /\ i \in 1..Len(heap[u])
    BY <1>1, <1>2, <1>4
  <2> HIDE DEF S
  <2>3. heap'[u] \in Seq(S) /\ Len(heap'[u]) = Len(heap[u]) /\ heap'[u][i] = x
    BY <2>1, <2>2, ExceptSeq
  <2>4. IsSequence(heap'[u])
    BY <2>3, IsOne
  <2> QED BY <1>1, <2>2, <2>3, <2>4
<1> QED BY <1>3, <1>4

-----------------------------------------------------------------------------
(* Steps of one client that add nothing to the relay.                       *)

LEMMA QuietStep ==
  ASSUME KeyInv, NEW u \in Users, Shape', Elsewhere(u), relay' = relay,
         nextKey[u] <= nextKey'[u], ClientInv(u)'
  PROVE  KeyInv'
<1>1. \A v \in Users : nextKey[v] \in Nat /\ nextKey'[v] \in Nat /\ nextKey[v] <= nextKey'[v]
  BY DEF KeyInv, ClientInv, Elsewhere
<1>2. ASSUME NEW v \in Users PROVE ClientInv(v)'
  <2>1. CASE v = u
    BY <2>1
  <2>2. CASE v # u
    <3>1. /\ heap'[v] = heap[v] /\ cur'[v] = cur[v] /\ stored'[v] = stored[v]
          /\ nextKey'[v] = nextKey[v] /\ op'[v] = op[v]
      BY <2>2 DEF Elsewhere
    <3>2. ClientInv(v)
      BY DEF KeyInv
    <3>3. \A x : SessionInv(v, x) => SessionInv(v, x)'
      BY <1>1, Steady
    <3>4. ASSUME NEW o, CallInv(v, o) PROVE CallInv(v, o)'
      <4>1. Unnamed(v, o.dhs) => Unnamed(v, o.dhs)'
        BY <1>1, Steady
      <4>2. EndsWith(v, o.root, o.dhs) => EndsWith(v, o.root, o.dhs)'
        BY <1>1, Steady
      <4> QED BY <3>1, <3>4, <4>1, <4>2 DEF CallInv
    <3> QED BY <3>1, <3>2, <3>3, <3>4 DEF ClientInv
  <2> QED BY <2>1, <2>2
<1>3. ASSUME NEW v \in Users, NEW i \in DOMAIN relay[v] PROVE EnvelopeInv(v, i)'
  <2>1. EnvelopeInv(v, i)
    BY DEF KeyInv
  <2>2. Made(v, relay[v][i].dh)' /\ EndsWith(v, relay[v][i].key.root, relay[v][i].dh)'
    <3>1. Made(v, relay[v][i].dh) /\ EndsWith(v, relay[v][i].key.root, relay[v][i].dh)
      BY <2>1 DEF EnvelopeInv
    <3>2. \A k : Made(v, k) => Made(v, k)'
      BY <1>1, Steady
    <3>3. \A r, k : EndsWith(v, r, k) => EndsWith(v, r, k)'
      BY <1>1, Steady
    <3> QED BY <3>1, <3>2, <3>3
  <2> QED BY <2>1, <2>2 DEF EnvelopeInv
<1>4. \A v, w \in Users : v # w => Apart(v, w)'
  BY DEF KeyInv, Apart
<1> QED BY <1>2, <1>3, <1>4 DEF KeyInv

\* The same from what it does to its session: i is its session then, x its value.
LEMMA SessionStep ==
  ASSUME KeyInv, Slots = 1, NEW u \in Users, NEW s \in 1..Slots, NEW i \in Nat, NEW x, NEW o,
         1 <= i, i <= Len(heap[u]) + 1, Put(u, i, x), Suspend(u, s, o), relay' = relay,
         nextKey' = nextKey \/ nextKey' = [nextKey EXCEPT ![u] = @ + 1],
         cur' = [cur EXCEPT ![u] = 0] \/ cur' = [cur EXCEPT ![u] = i],
         NEW z, stored' = [stored EXCEPT ![u] = z],
         SessionInv(u, x)', z # None => SessionInv(u, z)', CallInv(u, o)'
  PROVE  KeyInv'
<1>1. Shape /\ ClientInv(u)
  BY DEF KeyInv
<1>2. /\ heap' = [v \in Users |-> heap'[v]] /\ \A v \in Users \ {u} : heap'[v] = heap[v]
      /\ IsSequence(heap'[u]) /\ heap'[u][i] = x /\ i <= Len(heap'[u])
  BY <1>1, PutAt DEF Shape, ClientInv
<1>3. /\ op' = [v \in Users |-> [t \in 1..Slots |-> op'[v][t]]] /\ op'[u][s] = o
      /\ \A v \in Users \ {u} : op'[v] = op[v]
  <2>1. \A v \in Users : DOMAIN op[v] = 1..Slots /\ op[v] = [t \in 1..Slots |-> op[v][t]]
    BY <1>1 DEF Shape
  <2>2. DOMAIN op = Users
    BY <1>1 DEF Shape
  <2>3. op' = [v \in Users |-> IF v = u THEN [op[u] EXCEPT ![s] = o] ELSE op[v]]
    BY <1>1, <2>2 DEF Suspend
  <2>4. \A v \in Users : op'[v] = [t \in 1..Slots |-> op'[v][t]]
    BY <2>1, <2>3
  <2> QED BY <2>1, <2>3, <2>4
<1>4. /\ nextKey' = [v \in Users |-> nextKey'[v]] /\ nextKey'[u] \in {nextKey[u], nextKey[u] + 1}
      /\ \A v \in Users \ {u} : nextKey'[v] = nextKey[v]
  BY <1>1 DEF Shape
<1>5. /\ cur' = [v \in Users |-> cur'[v]] /\ cur'[u] \in {0, i}
      /\ \A v \in Users \ {u} : cur'[v] = cur[v]
  BY <1>1 DEF Shape
<1>6. /\ stored' = [v \in Users |-> stored'[v]] /\ stored'[u] = z
      /\ \A v \in Users \ {u} : stored'[v] = stored[v]
  BY <1>1 DEF Shape
<1>7. Shape' /\ Elsewhere(u)
  BY <1>1, <1>2, <1>3, <1>4, <1>5, <1>6 DEF Shape, Elsewhere
<1>8. nextKey[u] \in Nat /\ nextKey'[u] \in Nat /\ nextKey[u] <= nextKey'[u] /\ 2 <= nextKey'[u]
  BY <1>1, <1>4 DEF ClientInv
<1>9. ClientInv(u)'
  <2>1. IsSequence(relay'[u])
    BY <1>1 DEF ClientInv
  <2>2. cur'[u] \in Nat /\ cur'[u] <= Len(heap'[u]) /\ (cur'[u] # 0 => heap'[u][cur'[u]] = x)
    BY <1>2, <1>5 DEF IsSequence
  <2>3. \A t \in 1..Slots : op'[u][t] = o
    BY <1>3
  <2> QED BY <1>2, <1>6, <1>8, <2>1, <2>2, <2>3 DEF ClientInv
<1> QED BY <1>7, <1>8, <1>9, QuietStep

-----------------------------------------------------------------------------
(* Sending: up to the message key.                                          *)

LEMMA KeysAreKeys ==
  ASSUME KeyInv, NEW u \in Users
  PROVE  Known(u) \subseteq Keys /\ \A k : Made(u, k) => k \in Keys
<1>1. \A k : Made(u, k) => k \in Keys
  BY DEF Made, Keys
<1>2. \A i \in DOMAIN relay[u] : relay[u][i].dh \in Keys
  BY <1>1 DEF KeyInv, EnvelopeInv
<1>3. <<u, 0>> \in Keys /\ <<u, 1>> \in Keys
  BY DEF Keys
<1> QED BY <1>1, <1>2, <1>3 DEF Known

\* The number of the next key pair is in no header yet.
LEMMA NextIsUnnamed ==
  ASSUME KeyInv, NEW u \in Users, relay' = relay, nextKey' = [nextKey EXCEPT ![u] = @ + 1],
         NEW k, k = <<u, nextKey[u]>>
  PROVE  Unnamed(u, k)' /\ nextKey'[u] = nextKey[u] + 1
<1>1. nextKey[u] \in Nat /\ 2 <= nextKey[u] /\ nextKey'[u] = nextKey[u] + 1
  BY DEF KeyInv, ClientInv, Shape
<1>2. k[2] = nextKey[u] /\ k = <<u, k[2]>>
  OBVIOUS
<1>3. \A i \in DOMAIN relay[u] : relay[u][i].dh # k
  <2> TAKE i \in DOMAIN relay[u]
  <2>1. relay[u][i].dh[2] < nextKey[u]
    BY DEF KeyInv, EnvelopeInv, Made
  <2> QED BY <1>1, <1>2, <2>1
<1>4. Made(u, k)'
  BY <1>1, <1>2 DEF Made
<1>5. Unnamed(u, k)'
  BY <1>1, <1>2, <1>3, <1>4 DEF Unnamed
<1> QED BY <1>1, <1>5

LEMMA RatchetRoot ==
  ASSUME KeyInv, NEW u \in Users, NEW r \in Seq(Secrets), NEW p \in Known(Peer(u)), NEW k \in Keys
  PROVE  EndsWith(u, Append(r, DH(p, k)), k)
<1>1. p \in Keys
  BY PeerIsOther, KeysAreKeys
<1>2. DH(p, k) \in Secrets /\ DH(p, k) = {k, p}
  BY <1>1 DEF DH, Secrets
<1> QED BY <1>2, RootGrows DEF EndsWith

LEMMA LeastPlace ==
  ASSUME NEW from \in 1..4, NEW S, S \subseteq from..3
  PROVE  /\ Min(S \cup {4}) \in S \cup {4}
         /\ Min(S \cup {4}) = 4 => S = {}
<1> DEFINE T == S \cup {4}
<1>1. \E p \in T : \A q \in T : p <= q
  <2>1. \A p \in T : p \in {1, 2, 3, 4}
    OBVIOUS
  <2>2. CASE 1 \in T
    BY <2>1, <2>2
  <2>3. CASE 1 \notin T /\ 2 \in T
    BY <2>1, <2>3
  <2>4. CASE 1 \notin T /\ 2 \notin T /\ 3 \in T
    BY <2>1, <2>4
  <2>5. CASE 1 \notin T /\ 2 \notin T /\ 3 \notin T
    BY <2>1, <2>5
  <2> QED BY <2>2, <2>3, <2>4, <2>5
<1> HIDE DEF T
<1>2. Min(T) \in T /\ \A q \in T : Min(T) <= q
  BY <1>1 DEF Min
<1>3. Min(T) = 4 => S = {}
  <2> SUFFICES ASSUME Min(T) = 4, NEW q \in S PROVE FALSE
    OBVIOUS
  <2>1. q \in T /\ q \in 1..3
    BY DEF T
  <2> QED BY <1>2, <2>1
<1> QED BY <1>2, <1>3 DEF T

LEMMA EncryptStep ==
  ASSUME KeyInv, Slots = 1, NEW u \in Users, NEW s \in 1..Slots, NEW x, NEW from \in 1..4,
         NEW i, i = cur[u], i # 0, SessionInv(u, x),
         from # 1 => ~x.pending, from \in {3, 4} => x.cks # None,
         Encrypt(u, s, i, x, from), UNCHANGED <<cur, stored, relay>>
  PROVE  KeyInv'
<1> DEFINE due == {p \in from..3 : RatchetDue(x, p)}
           place == Min(due \cup {4})
<1>1. place \in due \cup {4} /\ (place = 4 => due = {})
  <2>1. due \subseteq from..3
    OBVIOUS
  <2> HIDE DEF due
  <2> QED BY <2>1, LeastPlace
<1>2. Shape /\ ClientInv(u) /\ i \in Nat /\ 1 <= i /\ i <= Len(heap[u]) /\ nextKey[u] \in Nat
  BY DEF KeyInv, ClientInv
<1>3. cur' = [cur EXCEPT ![u] = i] /\ stored' = [stored EXCEPT ![u] = stored[u]] /\ relay' = relay
  BY <1>2 DEF Shape
<1>4. Len(heap[u]) \in Nat /\ i <= Len(heap[u]) + 1
  BY <1>2 DEF ClientInv, IsSequence
<1>5. PICK z : z = stored[u] /\ (z # None => SessionInv(u, z))
  BY <1>2 DEF ClientInv
<1>6. stored' = [stored EXCEPT ![u] = z] /\ cur'[u] = i
  BY <1>2, <1>3, <1>5
<1>7. CASE place = 4
  <2>1. Suspend(u, s, [pc |-> "key", sid |-> i, chain |-> x.cks]) /\ Put(u, i, x) /\ nextKey' = nextKey
    BY <1>7 DEF Encrypt
  <2>2. ~x.pending /\ x.cks # None
    <3>1. due = {}
      BY <1>1, <1>7
    <3>2. from = 1 => ~x.pending
      BY <3>1 DEF RatchetDue
    <3>3. from \in {1, 2} => x.cks # None
      BY <3>1 DEF RatchetDue
    <3> QED BY <3>2, <3>3
  <2>3. SessionInv(u, x)' /\ (z # None => SessionInv(u, z)')
    BY <1>2, <1>3, <1>5, <2>1, Steady
  <2>4. heap'[u][i] = x
    BY <1>2, <1>4, <2>1, PutAt DEF Shape, ClientInv
  <2>5. PICK o : o = [pc |-> "key", sid |-> i, chain |-> x.cks]
    OBVIOUS
  <2>6. CallInv(u, o)'
    BY <1>6, <2>2, <2>4, <2>5 DEF CallInv
  <2>7. Suspend(u, s, o)
    BY <2>1, <2>5
  <2> HIDE DEF place, due
  <2> QED BY <1>2, <1>3, <1>4, <1>6, <2>1, <2>3, <2>6, <2>7, SessionStep
<1>8. CASE place # 4
  <2>1. PICK d : d = IF x.fresh THEN x.dhs ELSE <<u, nextKey[u]>>
    OBVIOUS
  <2>2. PICK r : r = Append(x.rk, DH(x.dhr, d))
    OBVIOUS
  <2>3. PICK o : o = [pc |-> "ratchet", sid |-> i, place |-> place, dhs |-> d, root |-> r]
    OBVIOUS
  <2>4. PICK y : y = [x EXCEPT !.fresh = FALSE, !.wiped = ~x.fresh]
    OBVIOUS
  <2>5. /\ Suspend(u, s, o) /\ Put(u, i, y)
        /\ nextKey' = [nextKey EXCEPT ![u] = IF x.fresh THEN @ ELSE @ + 1]
    BY <1>8, <2>1, <2>2, <2>3, <2>4 DEF Encrypt
  <2>6. place \in 1..3
    BY <1>1, <1>8
  <2> HIDE DEF place, due
  <2>7. nextKey' = nextKey \/ nextKey' = [nextKey EXCEPT ![u] = @ + 1]
    BY <1>2, <2>5 DEF Shape
  <2>8. nextKey'[u] \in Nat /\ nextKey[u] <= nextKey'[u]
    BY <1>2, <2>5 DEF Shape
  <2>9. IsSession(y) /\ y.dhs = x.dhs /\ y.dhr = x.dhr /\ y.rk = x.rk /\ y.ns = x.ns /\ y.cks = x.cks
        /\ y.fresh = FALSE /\ y.pending = x.pending
    <3>1. IsSession(x)
      BY DEF SessionInv
    <3>2. x = [dhs |-> x.dhs, wiped |-> x.wiped, dhr |-> x.dhr, rk |-> x.rk, cks |-> x.cks,
               ckr |-> x.ckr, ns |-> x.ns, pn |-> x.pn, skipped |-> x.skipped, seen |-> x.seen,
               pending |-> x.pending, fresh |-> x.fresh]
      BY <3>1 DEF IsSession
    <3> QED BY <2>4, <3>2 DEF IsSession
  <2>10. SessionInv(u, y)
    BY <2>9 DEF SessionInv, Sends
  <2>11. SessionInv(u, y)' /\ (z # None => SessionInv(u, z)')
    BY <1>2, <1>3, <1>5, <2>8, <2>10, Steady
  <2>12. Unnamed(u, d)'
    <3>1. CASE x.fresh
      <4>1. Unnamed(u, d)
        BY <2>1, <3>1 DEF SessionInv
      <4> QED BY <1>2, <1>3, <2>8, <4>1, Steady
    <3>2. CASE ~x.fresh
      <4>1. nextKey' = [nextKey EXCEPT ![u] = @ + 1] /\ d = <<u, nextKey[u]>>
        BY <2>1, <2>5, <3>2
      <4> QED BY <1>3, <4>1, NextIsUnnamed
    <3> QED BY <3>1, <3>2
  <2>13. EndsWith(u, r, d)'
    <3>1. d \in Keys
      <4>1. x.dhs \in Keys
        BY KeysAreKeys DEF SessionInv
      <4>2. <<u, nextKey[u]>> \in Keys
        BY <1>2 DEF Keys
      <4> QED BY <2>1, <4>1, <4>2
    <3>2. x.rk \in Seq(Secrets) /\ x.dhr \in Known(Peer(u))
      BY DEF SessionInv
    <3>3. EndsWith(u, r, d)
      BY <2>2, <3>1, <3>2, RatchetRoot
    <3> QED BY <1>2, <1>3, <2>8, <3>3, Steady
  <2>14. CallInv(u, o)'
    <3>1. cur'[u] # 0
      BY <1>6
    <3>2. heap'[u][i] = y
      BY <1>2, <1>4, <2>5, PutAt DEF Shape, ClientInv
    <3> QED BY <1>6, <2>3, <2>6, <2>9, <2>12, <2>13, <3>1, <3>2 DEF CallInv
  <2> QED BY <1>2, <1>3, <1>4, <1>6, <2>5, <2>7, <2>11, <2>14, SessionStep
<1> QED BY <1>7, <1>8

-----------------------------------------------------------------------------
(* The two instances differ in their bounds only: the steps that read none  *)
(* of them are the same.                                                    *)

LEMMA SameHelpers ==
  ASSUME NEW u, NEW s, NEW o, NEW i, NEW x
  PROVE  /\ Turns!Suspend(u, s, o) <=> Suspend(u, s, o)
         /\ Turns!Put(u, i, x) <=> Put(u, i, x)
         /\ Turns!Persist(u, i, x) <=> Persist(u, i, x)
BY DEF Turns!Suspend, Suspend, Turns!Put, Put, Turns!Persist, Persist

LEMMA SameEncrypt ==
  ASSUME NEW u, NEW s, NEW i, NEW x, NEW from
  PROVE  Turns!Encrypt(u, s, i, x, from) <=> Encrypt(u, s, i, x, from)
BY DEF Turns!Encrypt, Encrypt, Turns!Suspend, Suspend, Turns!Put, Put, Turns!RatchetDue, RatchetDue,
       Turns!Min, Min, Turns!DH, DH

LEMMA SameSends ==
  ASSUME NEW u, NEW s
  PROVE  /\ Turns!BundleAnswer(u, s) <=> BundleAnswer(u, s)
         /\ Turns!SendRatchet(u, s) <=> SendRatchet(u, s)
         /\ Turns!SendKey(u, s) <=> SendKey(u, s)
         /\ Turns!RecvBob(u, s) <=> RecvBob(u, s)
<1>1. Turns!BundleAnswer(u, s) <=> BundleAnswer(u, s)
  BY DEF Turns!BundleAnswer, BundleAnswer, Turns!Put, Put, Turns!Suspend, Suspend,
         Turns!InitializeAsAlice, InitializeAsAlice, Turns!NewSession, NewSession, Turns!X3DH, X3DH,
         Turns!DH, DH, Turns!Chain, Chain, Turns!IdentityKey, IdentityKey, Turns!SignedPrekey,
         SignedPrekey, Turns!Peer, Peer, Turns!bounds, bounds
<1>2. Turns!SendRatchet(u, s) <=> SendRatchet(u, s)
  BY DEF Turns!SendRatchet, SendRatchet, Turns!DhRatchetSend, DhRatchetSend, Turns!Chain, Chain,
         Turns!bounds, bounds, Turns!Encrypt, Encrypt, Turns!Suspend, Suspend, Turns!Put, Put,
         Turns!RatchetDue, RatchetDue, Turns!Min, Min, Turns!DH, DH
<1>3. Turns!SendKey(u, s) <=> SendKey(u, s)
  BY DEF Turns!SendKey, SendKey, Turns!Put, Put, Turns!Persist, Persist, Turns!Return, Return,
         Turns!Suspend, Suspend, Turns!NextChain, NextChain, Turns!bounds, bounds
<1>4. Turns!RecvBob(u, s) <=> RecvBob(u, s)
  BY DEF Turns!RecvBob, RecvBob, Turns!Put, Put, Turns!Suspend, Suspend, Turns!InitializeAsBob,
         InitializeAsBob, Turns!NewSession, NewSession, Turns!X3DH, X3DH, Turns!DH, DH, Turns!Chain,
         Chain, Turns!IdentityKey, IdentityKey, Turns!SignedPrekey, SignedPrekey, Turns!Peer, Peer,
         Turns!Envelope, Envelope, Turns!bounds, bounds
<1> QED BY <1>1, <1>2, <1>3, <1>4

-----------------------------------------------------------------------------
(* The steps of the two calls before the relay hears of them.               *)

\* A call that only begins.
LEMMA CallBegins ==
  ASSUME KeyInv, Slots = 1, NEW u \in Users, NEW s \in 1..Slots, NEW o, Suspend(u, s, o),
         UNCHANGED <<heap, cur, stored, nextKey, relay>>, CallInv(u, o)'
  PROVE  KeyInv'
<1>1. Shape /\ ClientInv(u)
  BY DEF KeyInv
<1>2. \A v \in Users : DOMAIN op[v] = 1..Slots /\ op[v] = [t \in 1..Slots |-> op[v][t]]
  BY <1>1 DEF Shape
<1>3. op' = [v \in Users |-> IF v = u THEN [op[u] EXCEPT ![s] = o] ELSE op[v]]
  BY <1>1 DEF Shape, Suspend
<1>4. /\ op' = [v \in Users |-> [t \in 1..Slots |-> op'[v][t]]]
      /\ \A t \in 1..Slots : op'[u][t] = o
      /\ \A v \in Users \ {u} : op'[v] = op[v]
  <2>1. \A t \in 1..Slots : t = s
    OBVIOUS
  <2>2. op'[u] = [t \in 1..Slots |-> o]
    BY <1>2, <1>3, <2>1
  <2> QED BY <1>2, <1>3, <2>2
<1>5. Shape' /\ Elsewhere(u)
  BY <1>1, <1>4 DEF Shape, Elsewhere
<1>6. nextKey[u] \in Nat /\ nextKey'[u] = nextKey[u]
  BY <1>1 DEF ClientInv
<1>7. \A x : SessionInv(u, x) => SessionInv(u, x)'
  BY <1>6, Steady
<1>8. ClientInv(u)'
  BY <1>1, <1>4, <1>7 DEF ClientInv
<1> QED BY <1>5, <1>6, <1>8, QuietStep

LEMMA SendStartStep ==
  ASSUME KeyInv, Slots = 1, NEW u \in Users, NEW s \in 1..Slots,
         SendStart(u, s) \/ Turns!SendStart(u, s)
  PROVE  KeyInv'
<1>1. /\ UNCHANGED <<cur, stored, relay>>
      /\ cur[u] = 0 => Suspend(u, s, [pc |-> "bundle"]) /\ UNCHANGED <<heap, nextKey>>
      /\ cur[u] # 0 => Encrypt(u, s, cur[u], heap[u][cur[u]], 1)
  <2>1. CASE SendStart(u, s)
    BY <2>1 DEF SendStart
  <2>2. CASE Turns!SendStart(u, s)
    <3>1. /\ UNCHANGED <<cur, stored, relay>>
          /\ cur[u] = 0 => Turns!Suspend(u, s, [pc |-> "bundle"]) /\ UNCHANGED <<heap, nextKey>>
          /\ cur[u] # 0 => Turns!Encrypt(u, s, cur[u], heap[u][cur[u]], 1)
      BY <2>2 DEF Turns!SendStart
    <3> QED BY <3>1, SameHelpers, SameEncrypt
  <2> QED BY <2>1, <2>2
<1>2. CASE cur[u] = 0
  <2>1. PICK o : o = [pc |-> "bundle"]
    OBVIOUS
  <2>2. CallInv(u, o)'
    BY <2>1 DEF CallInv
  <2> QED BY <1>1, <1>2, <2>1, <2>2, CallBegins
<1>3. CASE cur[u] # 0
  <2>1. PICK i, x : i = cur[u] /\ x = heap[u][i]
    OBVIOUS
  <2>2. SessionInv(u, x)
    BY <1>3, <2>1 DEF KeyInv, ClientInv
  <2>3. Encrypt(u, s, i, x, 1)
    BY <1>1, <1>3, <2>1
  <2>4. 1 \in 1..4 /\ 1 \notin {3, 4}
    OBVIOUS
  <2> QED BY <1>1, <1>3, <2>1, <2>2, <2>3, <2>4, EncryptStep
<1> QED BY <1>2, <1>3

\* The root of an X3DH from u ends with its ephemeral key and the prekey it took.
LEMMA HandshakeRoot ==
  ASSUME NEW a \in Keys, NEW b \in Keys, NEW c \in Keys, NEW d \in Keys, NEW r, r = X3DH(a, b, c, d)
  PROVE  r \in Seq(Secrets) /\ r # <<>> /\ Last(r) = DH(d, b)
<1>1. DH(d, a) \in Secrets /\ DH(c, b) \in Secrets /\ DH(d, b) \in Secrets
  BY DEF DH, Secrets
<1> QED BY <1>1 DEF X3DH, Last

LEMMA BundleStep ==
  ASSUME KeyInv, Slots = 1, NEW u \in Users, NEW s \in 1..Slots, BundleAnswer(u, s)
  PROVE  KeyInv'
<1>1. Shape /\ ClientInv(u) /\ nextKey[u] \in Nat /\ Len(heap[u]) \in Nat
  BY DEF KeyInv, ClientInv, IsSequence
<1>2. relay' = relay /\ nextKey' = [nextKey EXCEPT ![u] = @ + 1]
  BY DEF BundleAnswer
<1>3. PICK e, i, prekey, x, o :
        /\ e = <<u, nextKey[u]>> /\ i = Len(heap[u]) + 1
        /\ prekey \in {SignedPrekey(Peer(u)), IdentityKey(Peer(u))}
        /\ x = InitializeAsAlice(u, e, prekey)
        /\ o = [pc |-> "key", sid |-> i, chain |-> x.cks]
        /\ Put(u, i, x) /\ Suspend(u, s, o)
        /\ cur' = [cur EXCEPT ![u] = i] /\ stored' = [stored EXCEPT ![u] = x]
  BY DEF BundleAnswer
<1>4. Unnamed(u, e)' /\ nextKey'[u] = nextKey[u] + 1
  BY <1>2, <1>3, NextIsUnnamed
<1>5. PICK r : r = X3DH(IdentityKey(u), e, IdentityKey(Peer(u)), prekey)
  OBVIOUS
<1>6. /\ x = [dhs |-> e, wiped |-> FALSE, dhr |-> prekey, rk |-> r, cks |-> [root |-> r, step |-> 0],
              ckr |-> None, ns |-> 0, pn |-> 0, skipped |-> <<>>, seen |-> {}, pending |-> FALSE,
              fresh |-> FALSE]
  BY <1>3, <1>5 DEF InitializeAsAlice, NewSession, Chain
<1>7. prekey \in Known(Peer(u)) /\ prekey \in Keys /\ r \in Seq(Secrets) /\ r # <<>>
      /\ Last(r) = {e, prekey}
  <2>1. prekey \in Known(Peer(u)) /\ prekey \in Keys
    BY <1>3, PeerIsOther DEF SignedPrekey, IdentityKey, Known, Keys
  <2>2. e \in Keys /\ IdentityKey(u) \in Keys /\ IdentityKey(Peer(u)) \in Keys
    BY <1>1, <1>3, PeerIsOther DEF IdentityKey, Keys
  <2>3. DH(prekey, e) = {e, prekey}
    BY DEF DH
  <2>4. PICK a, c : a = IdentityKey(u) /\ c = IdentityKey(Peer(u))
    OBVIOUS
  <2>5. r \in Seq(Secrets) /\ r # <<>> /\ Last(r) = DH(prekey, e)
    <3>1. a \in Keys /\ e \in Keys /\ c \in Keys /\ prekey \in Keys
      BY <2>1, <2>2, <2>4
    <3>3. r = X3DH(a, e, c, prekey)
      BY <1>5, <2>4
    <3> QED BY <3>1, <3>3, HandshakeRoot
  <2> QED BY <2>1, <2>3, <2>5
<1>8. Known(Peer(u))' = Known(Peer(u))
  BY <1>2 DEF Known
<1>9. EndsWith(u, r, e)'
  BY <1>7, <1>8 DEF EndsWith
<1>10. Sends(u, x)'
  BY <1>4, <1>6, <1>9 DEF Sends, Unnamed
<1>11. SessionInv(u, x)'
  <2>1. IsSession(x) /\ x.dhs = e /\ x.dhr = prekey /\ x.rk = r /\ x.ns = 0 /\ x.fresh = FALSE
        /\ x.pending = FALSE
    BY <1>6 DEF IsSession
  <2>2. Made(u, e)'
    BY <1>4 DEF Unnamed
  <2>3. Made(u, x.dhs)' /\ (x.dhr \in Known(Peer(u)))'
    BY <1>7, <1>8, <2>1, <2>2
  <2>4. x.rk \in Seq(Secrets) /\ x.ns \in Nat
    BY <1>7, <2>1
  <2>5. x.fresh \in BOOLEAN /\ x.pending \in BOOLEAN /\ ~x.fresh
    BY <2>1
  <2> QED BY <1>10, <2>1, <2>3, <2>4, <2>5 DEF SessionInv
<1>12. x.cks # None /\ x.pending = FALSE
  <2>1. [root |-> r, step |-> 0] \in Chains
    BY <1>7 DEF Chains
  <2> QED BY <1>6, <2>1, NoneAssumption
<1>13. i \in Nat /\ 1 <= i /\ i <= Len(heap[u]) + 1
  BY <1>1, <1>3
<1>14. CallInv(u, o)'
  <2>1. heap'[u][i] = x
    BY <1>1, <1>3, <1>13, PutAt DEF Shape, ClientInv
  <2>2. cur'[u] = i /\ i # 0
    BY <1>1, <1>3, <1>13 DEF Shape
  <2> QED BY <1>3, <1>12, <2>1, <2>2 DEF CallInv
<1> QED BY <1>2, <1>3, <1>11, <1>13, <1>14, SessionStep

LEMMA SendRatchetStep ==
  ASSUME KeyInv, Slots = 1, NEW u \in Users, NEW s \in 1..Slots, SendRatchet(u, s)
  PROVE  KeyInv'
<1>1. PICK o, x, i : o = op[u][s] /\ i = o.sid /\ x = heap[u][i]
  OBVIOUS
<1>2. o # None /\ o.pc = "ratchet" /\ UNCHANGED <<cur, stored, relay>>
  BY <1>1 DEF SendRatchet
<1>3. PICK y : y = DhRatchetSend(x, o)
  OBVIOUS
<1>4. Encrypt(u, s, i, y, o.place + 1)
  BY <1>1, <1>3 DEF SendRatchet
<1>5. /\ cur[u] # 0
      /\ o = [pc |-> "ratchet", sid |-> cur[u], place |-> o.place, dhs |-> o.dhs, root |-> o.root]
      /\ o.place \in 1..3 /\ Unnamed(u, o.dhs) /\ EndsWith(u, o.root, o.dhs) /\ ~heap[u][cur[u]].fresh
  <2>1. CallInv(u, o)
    BY <1>1 DEF KeyInv, ClientInv
  <2> QED BY <1>2, <2>1 DEF CallInv
<1>6. i = cur[u] /\ SessionInv(u, x) /\ ~x.fresh
  BY <1>1, <1>5 DEF KeyInv, ClientInv
<1>7. /\ IsSession(y) /\ y.rk = o.root /\ y.cks = [root |-> o.root, step |-> 0] /\ y.ns = 0
      /\ y.dhs = o.dhs /\ y.pending = FALSE /\ y.dhr = x.dhr /\ y.fresh = x.fresh
  <2>1. x = [dhs |-> x.dhs, wiped |-> x.wiped, dhr |-> x.dhr, rk |-> x.rk, cks |-> x.cks,
             ckr |-> x.ckr, ns |-> x.ns, pn |-> x.pn, skipped |-> x.skipped, seen |-> x.seen,
             pending |-> x.pending, fresh |-> x.fresh]
    BY <1>6 DEF SessionInv, IsSession
  <2> QED BY <1>3, <2>1 DEF DhRatchetSend, Chain, IsSession
<1>8. Sends(u, y)
  BY <1>5, <1>7 DEF Sends, Unnamed
<1>9. SessionInv(u, y)
  <2>1. o.root \in Seq(Secrets) /\ Made(u, o.dhs)
    BY <1>5 DEF EndsWith, Unnamed
  <2>2. Made(u, y.dhs) /\ y.dhr \in Known(Peer(u)) /\ y.rk \in Seq(Secrets) /\ y.ns \in Nat
    BY <1>6, <1>7, <2>1 DEF SessionInv
  <2>3. y.fresh \in BOOLEAN /\ y.pending \in BOOLEAN /\ ~y.fresh
    BY <1>6, <1>7 DEF SessionInv
  <2>4. IsSession(y)
    BY <1>7
  <2> QED BY <1>8, <2>2, <2>3, <2>4 DEF SessionInv
<1>10. y.cks # None
  <2>1. o.root \in Seq(Secrets)
    BY <1>5 DEF EndsWith
  <2>2. y.cks \in Chains
    BY <1>7, <2>1 DEF Chains
  <2> QED BY <2>2, NoneAssumption
<1>11. PICK from \in 1..4 : from = o.place + 1
  BY <1>5
<1>12. Encrypt(u, s, i, y, from) /\ i # 0
  BY <1>4, <1>5, <1>6, <1>11
<1> QED BY <1>2, <1>6, <1>7, <1>9, <1>10, <1>12, EncryptStep

-----------------------------------------------------------------------------
(* Receiving: what it may leave of the session, whatever the windows are.   *)

Reads(u, s, i, x) ==
    \E y, o, z :
        /\ Same(x, y) /\ Put(u, i, y) /\ Suspend(u, s, o) /\ relay' = relay
        /\ stored' = [stored EXCEPT ![u] = z] /\ z \in {None, stored[u], y}
        /\ \/ cur' = [cur EXCEPT ![u] = 0] /\ o = None
           \/ /\ cur' = [cur EXCEPT ![u] = i]
              /\ \/ o = None
                 \/ /\ o.pc = "dh" /\ o = [pc |-> "dh", sid |-> i, msg |-> o.msg, root |-> o.root]
                    /\ o.msg \in DOMAIN relay[Peer(u)] /\ o.root \in Seq(Secrets)
                 \/ /\ o.pc = "chain"
                    /\ o = [pc |-> "chain", sid |-> i, msg |-> o.msg, chain |-> o.chain]
                    /\ o.msg \in DOMAIN relay[Peer(u)]

LEMMA ReadsStep ==
  ASSUME KeyInv, Slots = 1, NEW u \in Users, NEW s \in 1..Slots, NEW i, i = cur[u], i # 0, NEW x,
         Reads(u, s, i, x), SessionInv(u, x)',
         nextKey' = nextKey \/ nextKey' = [nextKey EXCEPT ![u] = @ + 1]
  PROVE  KeyInv'
<1>1. Shape /\ ClientInv(u) /\ i \in Nat /\ 1 <= i /\ i <= Len(heap[u]) + 1 /\ Len(heap[u]) \in Nat
  BY DEF KeyInv, ClientInv, IsSequence
<1>2. PICK y, o, z :
        /\ Same(x, y) /\ Put(u, i, y) /\ Suspend(u, s, o) /\ relay' = relay
        /\ stored' = [stored EXCEPT ![u] = z] /\ z \in {None, stored[u], y}
        /\ \/ cur' = [cur EXCEPT ![u] = 0] /\ o = None
           \/ /\ cur' = [cur EXCEPT ![u] = i]
              /\ \/ o = None
                 \/ /\ o.pc = "dh" /\ o = [pc |-> "dh", sid |-> i, msg |-> o.msg, root |-> o.root]
                    /\ o.msg \in DOMAIN relay[Peer(u)] /\ o.root \in Seq(Secrets)
                 \/ /\ o.pc = "chain"
                    /\ o = [pc |-> "chain", sid |-> i, msg |-> o.msg, chain |-> o.chain]
                    /\ o.msg \in DOMAIN relay[Peer(u)]
  BY DEF Reads
<1>3. SessionInv(u, y)'
  BY <1>2 DEF SessionInv, Same, Sends
<1>4. z # None => SessionInv(u, z)'
  <2>1. CASE z = stored[u] /\ z # None
    <3>1. SessionInv(u, z)
      BY <1>1, <2>1 DEF ClientInv
    <3>2. nextKey[u] \in Nat /\ nextKey'[u] \in Nat /\ nextKey[u] <= nextKey'[u]
      BY <1>1 DEF ClientInv, Shape
    <3> QED BY <1>2, <3>1, <3>2, Steady
  <2> QED BY <1>2, <1>3, <2>1
<1>5. CallInv(u, o)'
  <2>1. CASE o = None
    BY <2>1 DEF CallInv
  <2>2. CASE cur' = [cur EXCEPT ![u] = i]
    <3>1. cur'[u] = i
      BY <1>1, <2>2 DEF Shape
    <3> QED BY <1>2, <3>1 DEF CallInv
  <2> QED BY <1>2, <2>1, <2>2
<1> QED BY <1>1, <1>2, <1>3, <1>4, <1>5, SessionStep

LEMMA SameFinish ==
  ASSUME NEW u, NEW s, NEW n, NEW i, NEW x, NEW outcome
  PROVE  Turns!Finish(u, s, n, i, x, outcome) <=> Finish(u, s, n, i, x, outcome)
BY DEF Turns!Finish, Finish, Turns!Return, Return, Turns!Suspend, Suspend, Turns!Put, Put,
       Turns!Persist, Persist, Turns!Peer, Peer

LEMMA FinishReads ==
  ASSUME NEW u, NEW s, NEW n, NEW i, i = cur[u], i # 0, NEW x, NEW y, Same(x, y), NEW outcome,
         outcome \in {"read", "undecryptable", "refused"}, relay' = relay,
         Shape, u \in Users, Finish(u, s, n, i, y, outcome)
  PROVE  Reads(u, s, i, x)
<1>1. Put(u, i, y) /\ Suspend(u, s, None)
  BY DEF Finish, Return
<1>2. PICK w : w = stored[u]
  OBVIOUS
<1>3. CASE outcome = "read"
  <2>1. Persist(u, i, y) /\ cur' = cur
    BY <1>3 DEF Finish
  <2>2. stored' = [stored EXCEPT ![u] = y] /\ cur' = [cur EXCEPT ![u] = i]
    BY <2>1 DEF Persist, Shape
  <2> QED BY <1>1, <2>2 DEF Reads
<1>4. CASE outcome = "undecryptable"
  <2>1. stored' = [stored EXCEPT ![u] = None] /\ cur' = [cur EXCEPT ![u] = 0]
    BY <1>4 DEF Finish
  <2> QED BY <1>1, <2>1 DEF Reads
<1>5. CASE outcome = "refused"
  <2>1. UNCHANGED <<cur, stored>>
    BY <1>5 DEF Finish
  <2>2. stored' = [stored EXCEPT ![u] = w] /\ cur' = [cur EXCEPT ![u] = i]
    BY <1>2, <2>1 DEF Shape
  <2> QED BY <1>1, <1>2, <2>2 DEF Reads
<1> QED BY <1>3, <1>4, <1>5

\* Fields of a session that receiving alone changes.
LEMMA Received ==
  ASSUME NEW x, IsSession(x), NEW a
  PROVE  /\ Same(x, x) /\ Same(x, [x EXCEPT !.seen = a]) /\ Same(x, [x EXCEPT !.skipped = a])
         /\ Same(x, [x EXCEPT !.pn = a]) /\ Same(x, [x EXCEPT !.ckr = a])
<1>1. x = [dhs |-> x.dhs, wiped |-> x.wiped, dhr |-> x.dhr, rk |-> x.rk, cks |-> x.cks,
           ckr |-> x.ckr, ns |-> x.ns, pn |-> x.pn, skipped |-> x.skipped, seen |-> x.seen,
           pending |-> x.pending, fresh |-> x.fresh]
  BY DEF IsSession
<1> QED BY <1>1 DEF Same, IsSession

LEMMA SameIsTransitive ==
  ASSUME NEW x, NEW y, NEW z, Same(x, y), Same(y, z)
  PROVE  Same(x, z)
BY DEF Same

LEMMA OpenReads ==
  ASSUME NEW u, NEW s, NEW n, NEW i, i = cur[u], i # 0, NEW x, NEW y, Same(x, y), NEW key,
         relay' = relay, Shape, u \in Users,
         Open(u, s, n, i, y, key) \/ Turns!Open(u, s, n, i, y, key)
  PROVE  Reads(u, s, i, x)
<1>1. \E z, outcome : /\ Same(x, z) /\ outcome \in {"read", "undecryptable", "refused"}
                      /\ Finish(u, s, n, i, z, outcome)
  <2>1. \A a : Same(x, [y EXCEPT !.seen = a])
    <3> TAKE a
    <3>1. Same(y, [y EXCEPT !.seen = a])
      BY Received DEF Same
    <3> QED BY <3>1, SameIsTransitive
  <2>2. CASE Open(u, s, n, i, y, key)
    BY <2>1, <2>2 DEF Open
  <2>3. CASE Turns!Open(u, s, n, i, y, key)
    <3>1. \E z, outcome : /\ Same(x, z) /\ outcome \in {"read", "undecryptable", "refused"}
                          /\ Turns!Finish(u, s, n, i, z, outcome)
      BY <2>1, <2>3 DEF Turns!Open
    <3> QED BY <3>1, SameFinish
  <2> QED BY <2>2, <2>3
<1> QED BY <1>1, FinishReads

LEMMA AdvanceReads ==
  ASSUME NEW u, NEW s, NEW n \in DOMAIN relay[Peer(u)], NEW i, i = cur[u], i # 0,
         NEW x, NEW y, Same(x, y), relay' = relay, Shape, u \in Users,
         Advance(u, s, n, i, y) \/ Turns!Advance(u, s, n, i, y)
  PROVE  Reads(u, s, i, x)
<1>1. PICK o : o = [pc |-> "chain", sid |-> i, msg |-> n, chain |-> y.ckr]
  OBVIOUS
<1>2. \/ Finish(u, s, n, i, y, "refused")
      \/ Suspend(u, s, o) /\ Put(u, i, y) /\ UNCHANGED <<cur, stored>>
  <2>1. CASE Advance(u, s, n, i, y)
    BY <1>1, <2>1 DEF Advance
  <2>2. CASE Turns!Advance(u, s, n, i, y)
    <3>1. \/ Turns!Finish(u, s, n, i, y, "refused")
          \/ Turns!Suspend(u, s, o) /\ Turns!Put(u, i, y) /\ UNCHANGED <<cur, stored>>
      BY <1>1, <2>2 DEF Turns!Advance
    <3> QED BY <3>1, SameFinish, SameHelpers
  <2> QED BY <2>1, <2>2
<1>3. CASE Finish(u, s, n, i, y, "refused")
  BY <1>3, FinishReads
<1>4. CASE Suspend(u, s, o) /\ Put(u, i, y) /\ UNCHANGED <<cur, stored>>
  <2>1. PICK w : w = stored[u]
    OBVIOUS
  <2>2. stored' = [stored EXCEPT ![u] = w] /\ cur' = [cur EXCEPT ![u] = i]
    BY <1>4, <2>1 DEF Shape
  <2>3. o.pc = "chain" /\ o.msg = n /\ o = [pc |-> "chain", sid |-> i, msg |-> o.msg, chain |-> o.chain]
    BY <1>1
  <2> QED BY <1>4, <2>1, <2>2, <2>3 DEF Reads
<1> QED BY <1>2, <1>3, <1>4

\* The secret a client computes with is a key, wiped or not.
LEMMA SecretsAreKeys ==
  ASSUME KeyInv, NEW u \in Users, NEW x, SessionInv(u, x), NEW n \in DOMAIN relay[Peer(u)]
  PROVE  Append(x.rk, DH(Envelope(u, n).dh, Secret(u, x))) \in Seq(Secrets)
<1>1. Secret(u, x) \in Keys
  <2>1. x.dhs \in Keys
    BY KeysAreKeys DEF SessionInv
  <2>2. Wiped(u) \in Keys
    BY DEF Wiped, Keys
  <2> QED BY <2>1, <2>2 DEF Secret
<1>2. Envelope(u, n).dh \in Keys
  BY PeerIsOther, KeysAreKeys DEF Envelope, KeyInv, EnvelopeInv
<1>3. DH(Envelope(u, n).dh, Secret(u, x)) \in Secrets
  BY <1>1, <1>2 DEF DH, Secrets
<1>4. x.rk \in Seq(Secrets)
  BY DEF SessionInv
<1> QED BY <1>3, <1>4, RootGrows

LEMMA DecryptReads ==
  ASSUME KeyInv, NEW u \in Users, NEW s, NEW n \in DOMAIN relay[Peer(u)], NEW i, i = cur[u], i # 0,
         NEW x, SessionInv(u, x), relay' = relay,
         Decrypt(u, s, n, i, x) \/ Turns!Decrypt(u, s, n, i, x)
  PROVE  Reads(u, s, i, x)
<1>1. Shape /\ IsSession(x)
  BY DEF KeyInv, SessionInv
<1>2. Same(x, x)
  BY <1>1, Received
<1>3. PICK root, o, y :
        /\ root = Append(x.rk, DH(Envelope(u, n).dh, Secret(u, x)))
        /\ o = [pc |-> "dh", sid |-> i, msg |-> n, root |-> root]
        /\ y = [x EXCEPT !.pn = Envelope(u, n).pn]
  OBVIOUS
<1>4. /\ Turns!Envelope(u, n) = Envelope(u, n) /\ Turns!MsgId(Envelope(u, n)) = MsgId(Envelope(u, n))
      /\ Turns!Secret(u, x) = Secret(u, x) /\ \A a, b : Turns!DH(a, b) = DH(a, b)
      /\ \A id : Turns!TakeSkipped(x, id) = TakeSkipped(x, id)
  BY DEF Turns!Envelope, Envelope, Turns!Peer, Peer, Turns!MsgId, MsgId, Turns!Secret, Secret,
         Turns!Wiped, Wiped, Turns!DH, DH, Turns!TakeSkipped, TakeSkipped, Turns!RemoveAt, RemoveAt
<1>5. \A id : Same(x, TakeSkipped(x, id))
  <2> TAKE id
  <2>1. x = [dhs |-> x.dhs, wiped |-> x.wiped, dhr |-> x.dhr, rk |-> x.rk, cks |-> x.cks,
             ckr |-> x.ckr, ns |-> x.ns, pn |-> x.pn, skipped |-> x.skipped, seen |-> x.seen,
             pending |-> x.pending, fresh |-> x.fresh]
    BY <1>1 DEF IsSession
  <2>2. PICK q, e : /\ q = RemoveAt(x.skipped, CHOOSE j \in DOMAIN x.skipped : x.skipped[j].id = id)
                    /\ e = x.seen \cup {id}
    OBVIOUS
  <2>3. TakeSkipped(x, id) = [x EXCEPT !.skipped = q, !.seen = e]
    BY <2>1, <2>2 DEF TakeSkipped
  <2> QED BY <2>1, <2>3 DEF Same, IsSession
<1>6. \/ Finish(u, s, n, i, x, "refused")
      \/ \E z, key : Same(x, z) /\ (Open(u, s, n, i, z, key) \/ Turns!Open(u, s, n, i, z, key))
      \/ Suspend(u, s, o) /\ Put(u, i, y) /\ UNCHANGED <<cur, stored>>
      \/ Advance(u, s, n, i, x) \/ Turns!Advance(u, s, n, i, x)
  <2>1. CASE Decrypt(u, s, n, i, x)
    BY <1>3, <1>5, <2>1 DEF Decrypt
  <2>2. CASE Turns!Decrypt(u, s, n, i, x)
    <3>1. \/ Turns!Finish(u, s, n, i, x, "refused")
          \/ \E z, key : Same(x, z) /\ Turns!Open(u, s, n, i, z, key)
          \/ Turns!Suspend(u, s, o) /\ Turns!Put(u, i, y) /\ UNCHANGED <<cur, stored>>
          \/ Turns!Advance(u, s, n, i, x)
      BY <1>3, <1>4, <1>5, <2>2 DEF Turns!Decrypt
    <3> QED BY <3>1, SameFinish, SameHelpers
  <2> QED BY <2>1, <2>2
<1>7. CASE Finish(u, s, n, i, x, "refused")
  BY <1>1, <1>2, <1>7, FinishReads
<1>8. CASE \E z, key : Same(x, z) /\ (Open(u, s, n, i, z, key) \/ Turns!Open(u, s, n, i, z, key))
  BY <1>1, <1>8, OpenReads
<1>9. CASE Advance(u, s, n, i, x) \/ Turns!Advance(u, s, n, i, x)
  BY <1>1, <1>2, <1>9, AdvanceReads
<1>10. CASE Suspend(u, s, o) /\ Put(u, i, y) /\ UNCHANGED <<cur, stored>>
  <2>1. PICK w : w = stored[u]
    OBVIOUS
  <2>2. stored' = [stored EXCEPT ![u] = w] /\ cur' = [cur EXCEPT ![u] = i]
    BY <1>1, <1>10, <2>1 DEF Shape
  <2>3. root \in Seq(Secrets)
    BY <1>3, SecretsAreKeys
  <2>4. o.pc = "dh" /\ o = [pc |-> "dh", sid |-> i, msg |-> o.msg, root |-> o.root]
        /\ o.msg = n /\ o.root = root
    BY <1>3
  <2>5. Same(x, y)
    BY <1>1, <1>3, Received
  <2> QED BY <1>10, <2>1, <2>2, <2>3, <2>4, <2>5 DEF Reads
<1> QED BY <1>6, <1>7, <1>8, <1>9, <1>10

LEMMA RecvStartStep ==
  ASSUME KeyInv, Slots = 1, NEW u \in Users, NEW s \in 1..Slots,
         RecvStart(u, s) \/ Turns!RecvStart(u, s)
  PROVE  KeyInv'
<1>1. UNCHANGED <<nextKey, relay>>
  BY DEF RecvStart, Turns!RecvStart
<1>2. PICK n \in DOMAIN relay[Peer(u)] :
        IF cur[u] = 0
        THEN Suspend(u, s, [pc |-> "bob", msg |-> n]) /\ UNCHANGED <<heap, cur, stored>>
        ELSE \/ Decrypt(u, s, n, cur[u], heap[u][cur[u]])
             \/ Turns!Decrypt(u, s, n, cur[u], heap[u][cur[u]])
  <2>1. CASE RecvStart(u, s)
    BY <2>1 DEF RecvStart
  <2>2. CASE Turns!RecvStart(u, s)
    <3>1. Turns!Peer(u) = Peer(u)
      BY DEF Turns!Peer, Peer
    <3>2. \E n \in DOMAIN relay[Peer(u)] :
            IF cur[u] = 0
            THEN Turns!Suspend(u, s, [pc |-> "bob", msg |-> n]) /\ UNCHANGED <<heap, cur, stored>>
            ELSE Turns!Decrypt(u, s, n, cur[u], heap[u][cur[u]])
      BY <2>2, <3>1 DEF Turns!RecvStart
    <3> QED BY <3>2, SameHelpers
  <2> QED BY <2>1, <2>2
<1>3. CASE cur[u] = 0
  <2>1. PICK o : o = [pc |-> "bob", msg |-> n]
    OBVIOUS
  <2>2. CallInv(u, o)'
    BY <1>1, <2>1 DEF CallInv
  <2> QED BY <1>1, <1>2, <1>3, <2>1, <2>2, CallBegins
<1>4. CASE cur[u] # 0
  <2>1. PICK i, x : i = cur[u] /\ x = heap[u][i]
    OBVIOUS
  <2>2. SessionInv(u, x)
    BY <1>4, <2>1 DEF KeyInv, ClientInv
  <2>3. Reads(u, s, i, x)
    BY <1>1, <1>2, <1>4, <2>1, <2>2, DecryptReads
  <2>4. SessionInv(u, x)'
    <3>1. nextKey[u] \in Nat /\ nextKey'[u] = nextKey[u]
      BY <1>1 DEF KeyInv, ClientInv
    <3> QED BY <1>1, <2>2, <3>1, Steady
  <2> QED BY <1>1, <1>4, <2>1, <2>3, <2>4, ReadsStep
<1> QED BY <1>3, <1>4

LEMMA RecvBobStep ==
  ASSUME KeyInv, Slots = 1, NEW u \in Users, NEW s \in 1..Slots, RecvBob(u, s)
  PROVE  KeyInv'
<1>1. Shape /\ ClientInv(u) /\ Len(heap[u]) \in Nat
  BY DEF KeyInv, ClientInv, IsSequence
<1>2. PICK n, i, x, o, z :
        /\ op[u][s].pc = "bob" /\ op[u][s] # None /\ n = op[u][s].msg /\ i = Len(heap[u]) + 1
        /\ x = InitializeAsBob(u, Envelope(u, n).dh) /\ z = stored[u]
        /\ o = [pc |-> "chain", sid |-> i, msg |-> n, chain |-> x.ckr]
        /\ Suspend(u, s, o) /\ Put(u, i, x) /\ cur' = [cur EXCEPT ![u] = i]
        /\ UNCHANGED <<stored, nextKey, relay>>
  BY DEF RecvBob
<1>3. n \in DOMAIN relay[Peer(u)]
  <2>1. PICK c : c = op[u][s]
    OBVIOUS
  <2>2. CallInv(u, c)
    BY <1>1, <2>1 DEF ClientInv
  <2>3. c.pc = "bob" /\ c # None
    BY <1>2, <2>1
  <2>4. c # [pc |-> "bundle"]
    BY <2>3
  <2>5. \E m \in DOMAIN relay[Peer(u)] : c = [pc |-> "bob", msg |-> m]
    BY <2>2, <2>3, <2>4 DEF CallInv
  <2> QED BY <1>2, <2>1, <2>5
<1>4. PICK e, r : /\ e = Envelope(u, n).dh
                  /\ r = X3DH(IdentityKey(Peer(u)), e, IdentityKey(u), SignedPrekey(u))
  OBVIOUS
<1>5. /\ x.dhs = <<u, 1>> /\ x.dhr = e /\ x.rk = r /\ x.cks = None /\ x.ns = 0
      /\ x.fresh = FALSE /\ x.pending = FALSE /\ IsSession(x)
  BY <1>2, <1>4 DEF InitializeAsBob, NewSession, SignedPrekey, IsSession
<1>6. e \in Known(Peer(u)) /\ e \in Keys
  BY <1>3, <1>4, PeerIsOther, KeysAreKeys DEF Envelope, Known
<1>7. r \in Seq(Secrets)
  <2>1. PICK a, b, c : a = IdentityKey(Peer(u)) /\ b = IdentityKey(u) /\ c = SignedPrekey(u)
    OBVIOUS
  <2>2. a \in Keys /\ b \in Keys /\ c \in Keys
    BY <2>1, PeerIsOther DEF IdentityKey, SignedPrekey, Keys
  <2>3. r = X3DH(a, e, b, c)
    BY <1>4, <2>1
  <2> QED BY <1>6, <2>2, <2>3, HandshakeRoot
<1>8. Made(u, <<u, 1>>)
  BY <1>1 DEF ClientInv, Made
<1>9. SessionInv(u, x)
  <2>1. Made(u, x.dhs) /\ x.dhr \in Known(Peer(u)) /\ x.rk \in Seq(Secrets) /\ x.ns \in Nat
    BY <1>5, <1>6, <1>7, <1>8
  <2>2. x.fresh \in BOOLEAN /\ x.pending \in BOOLEAN /\ ~x.fresh
    BY <1>5
  <2> QED BY <1>5, <2>1, <2>2 DEF SessionInv
<1>10. nextKey[u] \in Nat /\ nextKey'[u] = nextKey[u] /\ relay' = relay
  BY <1>1, <1>2 DEF ClientInv
<1>11. SessionInv(u, x)' /\ (z # None => SessionInv(u, z)')
  <2>1. z # None => SessionInv(u, z)
    BY <1>1, <1>2 DEF ClientInv
  <2> QED BY <1>9, <1>10, <2>1, Steady
<1>12. i \in Nat /\ 1 <= i /\ i <= Len(heap[u]) + 1
  BY <1>1, <1>2
<1>13. CallInv(u, o)'
  <2>1. cur'[u] = i /\ i # 0
    BY <1>1, <1>2, <1>12 DEF Shape
  <2>2. o.msg = n /\ o.pc = "chain" /\ o = [pc |-> "chain", sid |-> i, msg |-> o.msg, chain |-> o.chain]
    BY <1>2
  <2> QED BY <1>3, <1>10, <2>1, <2>2 DEF CallInv
<1>14. stored' = [stored EXCEPT ![u] = z]
  BY <1>1, <1>2 DEF Shape
<1> QED BY <1>2, <1>10, <1>11, <1>12, <1>13, <1>14, SessionStep

LEMMA RecvDhStep ==
  ASSUME KeyInv, Slots = 1, NEW u \in Users, NEW s \in 1..Slots,
         RecvDh(u, s) \/ Turns!RecvDh(u, s)
  PROVE  KeyInv'
<1>1. relay' = relay /\ nextKey' = [nextKey EXCEPT ![u] = @ + 1]
  BY DEF RecvDh, Turns!RecvDh
<1>2. PICK o, i, n, k, x, y :
        /\ o = op[u][s] /\ i = o.sid /\ n = o.msg /\ k = <<u, nextKey[u]>> /\ x = heap[u][i]
        /\ y = DhRatchetRecv(x, o, Envelope(u, n).dh, k)
  OBVIOUS
<1>3. o # None /\ o.pc = "dh" /\ (Advance(u, s, n, i, y) \/ Turns!Advance(u, s, n, i, y))
  <2>1. CASE RecvDh(u, s)
    BY <1>2, <2>1 DEF RecvDh
  <2>2. CASE Turns!RecvDh(u, s)
    <3>1. /\ Turns!Envelope(u, n) = Envelope(u, n)
          /\ Turns!DhRatchetRecv(x, o, Envelope(u, n).dh, k) = DhRatchetRecv(x, o, Envelope(u, n).dh, k)
      BY DEF Turns!Envelope, Envelope, Turns!Peer, Peer, Turns!DhRatchetRecv, DhRatchetRecv,
             Turns!Chain, Chain
    <3> QED BY <1>2, <2>2, <3>1 DEF Turns!RecvDh
  <2> QED BY <2>1, <2>2
<1>4. /\ cur[u] # 0 /\ n \in DOMAIN relay[Peer(u)] /\ o.root \in Seq(Secrets)
      /\ o = [pc |-> "dh", sid |-> cur[u], msg |-> o.msg, root |-> o.root]
  <2>1. CallInv(u, o)
    BY <1>2 DEF KeyInv, ClientInv
  <2> QED BY <1>2, <1>3, <2>1 DEF CallInv
<1>5. i = cur[u] /\ i # 0 /\ SessionInv(u, x)
  BY <1>2, <1>4 DEF KeyInv, ClientInv
<1>6. PICK e : e = Envelope(u, n).dh
  OBVIOUS
<1>7. e \in Known(Peer(u))
  BY <1>4, <1>6 DEF Envelope, Known
<1>8. /\ IsSession(y) /\ y.dhs = k /\ y.dhr = e /\ y.rk = o.root /\ y.ns = x.ns
      /\ y.pending = TRUE /\ y.fresh = TRUE
  <2>1. x = [dhs |-> x.dhs, wiped |-> x.wiped, dhr |-> x.dhr, rk |-> x.rk, cks |-> x.cks,
             ckr |-> x.ckr, ns |-> x.ns, pn |-> x.pn, skipped |-> x.skipped, seen |-> x.seen,
             pending |-> x.pending, fresh |-> x.fresh]
    BY <1>5 DEF SessionInv, IsSession
  <2> QED BY <1>2, <1>6, <2>1 DEF DhRatchetRecv, Chain, IsSession
<1>9. Unnamed(u, k)'
  BY <1>1, <1>2, NextIsUnnamed
<1>10. (e \in Known(Peer(u)))'
  BY <1>1, <1>7 DEF Known
<1>11. SessionInv(u, y)'
  <2>1. Made(u, y.dhs)' /\ (y.dhr \in Known(Peer(u)))' /\ Unnamed(u, y.dhs)'
    BY <1>8, <1>9, <1>10 DEF Unnamed
  <2>2. y.rk \in Seq(Secrets) /\ y.ns \in Nat
    BY <1>4, <1>5, <1>8 DEF SessionInv
  <2>3. y.fresh \in BOOLEAN /\ y.pending \in BOOLEAN /\ y.pending
    BY <1>8
  <2> QED BY <1>8, <2>1, <2>2, <2>3 DEF SessionInv
<1>12. Reads(u, s, i, y)
  <2>1. Shape /\ Same(y, y)
    BY <1>8, Received DEF KeyInv
  <2> QED BY <1>1, <1>3, <1>4, <1>5, <2>1, AdvanceReads
<1> QED BY <1>1, <1>5, <1>11, <1>12, ReadsStep

LEMMA RecvChainStep ==
  ASSUME KeyInv, Slots = 1, NEW u \in Users, NEW s \in 1..Slots,
         RecvChain(u, s) \/ Turns!RecvChain(u, s)
  PROVE  KeyInv'
<1>1. relay' = relay /\ nextKey' = nextKey
  BY DEF RecvChain, Turns!RecvChain
<1>2. PICK o, i, n, x, y, p, id :
        /\ o = op[u][s] /\ i = o.sid /\ n = o.msg /\ x = heap[u][i]
        /\ y = [x EXCEPT !.ckr = NextChain(o.chain)] /\ p = [o EXCEPT !.chain = y.ckr]
        /\ id = <<Envelope(u, n).dh, o.chain.step>>
  OBVIOUS
<1>3. /\ o # None /\ o.pc = "chain"
      /\ \/ /\ Suspend(u, s, p) /\ UNCHANGED <<cur, stored>>
            /\ Put(u, i, KeepSkipped(y, id, o.chain)) \/ Put(u, i, Turns!KeepSkipped(y, id, o.chain))
         \/ Open(u, s, n, i, y, o.chain) \/ Turns!Open(u, s, n, i, y, o.chain)
  <2>1. CASE RecvChain(u, s)
    BY <1>2, <2>1 DEF RecvChain
  <2>2. CASE Turns!RecvChain(u, s)
    <3>1. Turns!Envelope(u, n) = Envelope(u, n) /\ Turns!NextChain(o.chain) = NextChain(o.chain)
      BY DEF Turns!Envelope, Envelope, Turns!Peer, Peer, Turns!NextChain, NextChain
    <3>2. /\ o # None /\ o.pc = "chain"
          /\ \/ /\ Turns!Suspend(u, s, p) /\ UNCHANGED <<cur, stored>>
                /\ Turns!Put(u, i, Turns!KeepSkipped(y, id, o.chain))
             \/ Turns!Open(u, s, n, i, y, o.chain)
      BY <1>2, <2>2, <3>1 DEF Turns!RecvChain
    <3> QED BY <3>2, SameHelpers
  <2> QED BY <2>1, <2>2
<1>4. /\ cur[u] # 0 /\ n \in DOMAIN relay[Peer(u)]
      /\ o = [pc |-> "chain", sid |-> cur[u], msg |-> o.msg, chain |-> o.chain]
  <2>1. CallInv(u, o)
    BY <1>2 DEF KeyInv, ClientInv
  <2> QED BY <1>2, <1>3, <2>1 DEF CallInv
<1>5. i = cur[u] /\ i # 0 /\ SessionInv(u, x) /\ Shape
  BY <1>2, <1>4 DEF KeyInv, ClientInv
<1>6. SessionInv(u, x)'
  <2>1. nextKey[u] \in Nat /\ nextKey'[u] = nextKey[u]
    BY <1>1 DEF KeyInv, ClientInv
  <2> QED BY <1>1, <1>5, <2>1, Steady
<1>7. Same(x, y)
  BY <1>2, <1>5, Received DEF SessionInv
<1>8. CASE Open(u, s, n, i, y, o.chain) \/ Turns!Open(u, s, n, i, y, o.chain)
  <2>1. Reads(u, s, i, x)
    BY <1>1, <1>5, <1>7, <1>8, OpenReads
  <2> QED BY <1>1, <1>5, <1>6, <2>1, ReadsStep
<1>9. CASE /\ Suspend(u, s, p) /\ UNCHANGED <<cur, stored>>
           /\ Put(u, i, KeepSkipped(y, id, o.chain)) \/ Put(u, i, Turns!KeepSkipped(y, id, o.chain))
  <2>1. Same(x, KeepSkipped(y, id, o.chain)) /\ Same(x, Turns!KeepSkipped(y, id, o.chain))
    <3>1. Same(y, y) /\ \A a : Same(y, [y EXCEPT !.skipped = a])
      <4>1. IsSession(y)
        BY <1>7 DEF Same
      <4> QED BY <4>1, Received
    <3>2. Same(y, KeepSkipped(y, id, o.chain)) /\ Same(y, Turns!KeepSkipped(y, id, o.chain))
      BY <3>1 DEF KeepSkipped, Turns!KeepSkipped
    <3> QED BY <1>7, <3>2, SameIsTransitive
  <2>2. PICK z : Same(x, z) /\ Put(u, i, z)
    BY <1>9, <2>1
  <2>3. PICK w : w = stored[u]
    OBVIOUS
  <2>4. stored' = [stored EXCEPT ![u] = w] /\ cur' = [cur EXCEPT ![u] = i]
    BY <1>5, <1>9, <2>3 DEF Shape
  <2>5. /\ p.pc = "chain" /\ p = [pc |-> "chain", sid |-> i, msg |-> p.msg, chain |-> p.chain]
        /\ p.msg = n
    BY <1>2, <1>3, <1>4, <1>5
  <2>6. Reads(u, s, i, x)
    BY <1>1, <1>4, <1>9, <2>2, <2>3, <2>4, <2>5 DEF Reads
  <2> QED BY <1>1, <1>5, <1>6, <2>6, ReadsStep
<1> QED BY <1>3, <1>8, <1>9

LEMMA ReloadStep ==
  ASSUME KeyInv, NEW u \in Users, Reload(u) \/ Turns!Reload(u)
  PROVE  KeyInv'
<1>1. /\ heap' = [heap EXCEPT ![u] = IF stored[u] = None THEN <<>> ELSE <<stored[u]>>]
      /\ cur' = [cur EXCEPT ![u] = IF stored[u] = None THEN 0 ELSE 1]
      /\ op' = [op EXCEPT ![u] = [s \in 1..Slots |-> None]]
      /\ UNCHANGED <<stored, nextKey, relay>>
  BY DEF Reload, Turns!Reload, Deserialize, Turns!Deserialize
<1>2. Shape /\ ClientInv(u)
  BY DEF KeyInv
<1>3. /\ heap'[u] = IF stored[u] = None THEN <<>> ELSE <<stored[u]>>
      /\ heap' = [v \in Users |-> heap'[v]] /\ \A v \in Users \ {u} : heap'[v] = heap[v]
  BY <1>1, <1>2 DEF Shape
<1>4. /\ cur'[u] = IF stored[u] = None THEN 0 ELSE 1
      /\ cur' = [v \in Users |-> cur'[v]] /\ \A v \in Users \ {u} : cur'[v] = cur[v]
  BY <1>1, <1>2 DEF Shape
<1>5. /\ \A s \in 1..Slots : op'[u][s] = None
      /\ op' = [v \in Users |-> [s \in 1..Slots |-> op'[v][s]]]
      /\ \A v \in Users \ {u} : op'[v] = op[v]
  <2>1. op' = [v \in Users |-> IF v = u THEN [s \in 1..Slots |-> None] ELSE op[v]]
    BY <1>1, <1>2 DEF Shape
  <2>2. \A v \in Users : op[v] = [s \in 1..Slots |-> op[v][s]]
    BY <1>2 DEF Shape
  <2> QED BY <2>1, <2>2
<1>6. Shape' /\ Elsewhere(u)
  BY <1>1, <1>2, <1>3, <1>4, <1>5 DEF Shape, Elsewhere
<1>7. nextKey[u] \in Nat /\ 2 <= nextKey[u] /\ nextKey'[u] = nextKey[u]
  BY <1>1, <1>2 DEF ClientInv
<1>8. ClientInv(u)'
  <2>1. \A x : SessionInv(u, x) => SessionInv(u, x)'
    BY <1>1, <1>7, Steady
  <2>2. stored'[u] = stored[u] /\ relay'[u] = relay[u]
    BY <1>1
  <2>3. \A s \in 1..Slots : CallInv(u, op[u][s])'
    BY <1>5 DEF CallInv
  <2>4. CASE stored[u] = None
    <3>1. heap'[u] = <<>> /\ cur'[u] = 0
      BY <1>3, <1>4, <2>4
    <3>2. IsSequence(<<>>) /\ Len(<<>>) = 0
      BY DEF IsSequence
    <3> QED BY <1>2, <1>7, <2>2, <2>3, <2>4, <3>1, <3>2 DEF ClientInv
  <2>5. CASE stored[u] # None
    <3>1. heap'[u] = <<stored[u]>> /\ cur'[u] = 1
      BY <1>3, <1>4, <2>5
    <3>2. PICK z : z = stored[u]
      OBVIOUS
    <3>3. IsSequence(<<z>>) /\ Len(<<z>>) = 1 /\ <<z>>[1] = z
      BY DEF IsSequence
    <3>4. SessionInv(u, z)'
      BY <1>2, <2>1, <2>5, <3>2 DEF ClientInv
    <3> QED BY <1>2, <1>7, <2>2, <2>3, <3>1, <3>2, <3>3, <3>4 DEF ClientInv
  <2> QED BY <2>4, <2>5
<1> QED BY <1>1, <1>6, <1>7, <1>8, QuietStep

-----------------------------------------------------------------------------
(* The envelope goes out.                                                   *)

LEMMA OwnerOfKeys ==
  ASSUME KeyInv, NEW u \in Users
  PROVE  (\A k \in Known(u) : k[1] = u) /\ (\A k : Made(u, k) => k[1] = u)
<1>1. \A k : Made(u, k) => k[1] = u
  BY DEF Made
<1>2. \A i \in DOMAIN relay[u] : relay[u][i].dh[1] = u
  BY <1>1 DEF KeyInv, EnvelopeInv
<1> QED BY <1>1, <1>2 DEF Known

\* A root names the key of the client that ended it.
LEMMA EndIsOwn ==
  ASSUME KeyInv, NEW u \in Users, NEW r, NEW a, NEW b, Made(u, a), Made(u, b),
         EndsWith(u, r, a), EndsWith(u, r, b)
  PROVE  a = b
<1>1. PICK p \in Known(Peer(u)) : Last(r) = {a, p}
  BY DEF EndsWith
<1>2. PICK q \in Known(Peer(u)) : Last(r) = {b, q}
  BY DEF EndsWith
<1>3. a[1] = u /\ q[1] # u
  BY PeerIsOther, OwnerOfKeys
<1> QED BY <1>1, <1>2, <1>3

\* A root that two clients would share was named by each of them before.
LEMMA EndIsKnown ==
  ASSUME KeyInv, NEW u \in Users, NEW v \in Users, u # v, NEW r, NEW a, NEW b, Made(u, a), Made(v, b),
         2 <= a[2], EndsWith(u, r, a), EndsWith(v, r, b)
  PROVE  \E i \in DOMAIN relay[u] : relay[u][i].dh = a
<1>1. PICK p \in Known(Peer(u)) : Last(r) = {a, p}
  BY DEF EndsWith
<1>2. PICK q \in Known(Peer(v)) : Last(r) = {b, q}
  BY DEF EndsWith
<1>3. a[1] = u /\ b[1] = v /\ q[1] = Peer(v)
  BY PeerIsOther, OwnerOfKeys
<1>4. a = q /\ Peer(v) = u
  BY <1>1, <1>2, <1>3
<1>5. a # <<u, 0>> /\ a # <<u, 1>>
  BY DEF Made
<1> QED BY <1>2, <1>4, <1>5 DEF Known

LEMMA SendKeyStep ==
  ASSUME KeyInv, Slots = 1, NEW u \in Users, NEW s \in 1..Slots, SendKey(u, s)
  PROVE  KeyInv'
<1>1. PICK o, i, x, y, m, n :
        /\ o = op[u][s] /\ i = o.sid /\ x = heap[u][i]
        /\ y = [x EXCEPT !.cks = NextChain(o.chain), !.ns = @ + 1]
        /\ m = [dh |-> x.dhs, pn |-> x.pn, ns |-> x.ns, key |-> o.chain] /\ n = Len(relay[u])
  OBVIOUS
<1>2. /\ o # None /\ o.pc = "key" /\ Put(u, i, y) /\ Persist(u, i, y)
      /\ relay' = [relay EXCEPT ![u] = Append(@, m)] /\ Suspend(u, s, None)
      /\ UNCHANGED <<cur, nextKey>>
  BY <1>1 DEF SendKey, Return
<1>3. Shape /\ ClientInv(u) /\ nextKey[u] \in Nat /\ Len(heap[u]) \in Nat
  BY DEF KeyInv, ClientInv, IsSequence
<1>4. /\ cur[u] # 0 /\ ~heap[u][cur[u]].pending /\ heap[u][cur[u]].cks # None
      /\ o = [pc |-> "key", sid |-> cur[u], chain |-> heap[u][cur[u]].cks]
  <2>1. CallInv(u, o)
    BY <1>1, <1>3 DEF ClientInv
  <2> QED BY <1>2, <2>1 DEF CallInv
<1>5. /\ i = cur[u] /\ o.chain = x.cks /\ ~x.pending /\ SessionInv(u, x) /\ Sends(u, x) /\ ~x.fresh
      /\ i \in Nat /\ 1 <= i /\ i <= Len(heap[u]) + 1
  <2>1. i = cur[u] /\ o.chain = x.cks /\ ~x.pending /\ x.cks # None /\ i # 0
    BY <1>1, <1>4
  <2>2. SessionInv(u, x)
    BY <1>1, <1>3, <2>1 DEF ClientInv
  <2> QED BY <1>3, <2>1, <2>2 DEF SessionInv, ClientInv
<1>6. PICK r : r = x.cks.root /\ x.cks = [root |-> r, step |-> x.ns] /\ x.ns \in Nat
  BY <1>5 DEF Sends, SessionInv
<1>7. /\ IsSession(y) /\ y.cks = [root |-> r, step |-> x.ns + 1] /\ y.ns = x.ns + 1 /\ y.dhs = x.dhs
      /\ y.dhr = x.dhr /\ y.rk = x.rk /\ y.pending = x.pending /\ y.fresh = x.fresh
  <2>1. x = [dhs |-> x.dhs, wiped |-> x.wiped, dhr |-> x.dhr, rk |-> x.rk, cks |-> x.cks,
             ckr |-> x.ckr, ns |-> x.ns, pn |-> x.pn, skipped |-> x.skipped, seen |-> x.seen,
             pending |-> x.pending, fresh |-> x.fresh]
    BY <1>5 DEF SessionInv, IsSession
  <2>2. NextChain(o.chain) = [root |-> r, step |-> x.ns + 1]
    BY <1>5, <1>6 DEF NextChain
  <2> QED BY <1>1, <2>1, <2>2 DEF IsSession
<1>8. m.dh = x.dhs /\ m.ns = x.ns /\ m.key = [root |-> r, step |-> x.ns]
  BY <1>1, <1>5, <1>6
<1>9. /\ relay' = [v \in Users |-> relay'[v]] /\ \A v \in Users \ {u} : relay'[v] = relay[v]
      /\ relay'[u] = Append(relay[u], m)
  BY <1>2, <1>3 DEF Shape
<1>10. /\ IsSequence(relay'[u]) /\ n \in Nat /\ DOMAIN relay[u] = 1..n /\ DOMAIN relay'[u] = 1..(n + 1)
       /\ \A j \in 1..n : relay'[u][j] = relay[u][j]
       /\ relay'[u][n + 1] = m
  <2>1. IsSequence(relay[u]) /\ n \in Nat
    BY <1>1, <1>3 DEF ClientInv, IsSequence
  <2>2. PICK q, w : q = relay[u] /\ w = Append(q, m)
    OBVIOUS
  <2>3. IsSequence(q) /\ n = Len(q)
    BY <1>1, <2>1, <2>2
  <2>4. /\ IsSequence(w) /\ DOMAIN q = 1..n /\ DOMAIN w = 1..(n + 1)
        /\ \A j \in 1..n : w[j] = q[j]
        /\ w[n + 1] = m
    BY <2>2, <2>3, AppendedTo
  <2>5. relay'[u] = w
    BY <1>9, <2>2
  <2> QED BY <2>1, <2>2, <2>4, <2>5
<1>11. /\ heap' = [v \in Users |-> heap'[v]] /\ \A v \in Users \ {u} : heap'[v] = heap[v]
       /\ IsSequence(heap'[u]) /\ heap'[u][i] = y /\ i <= Len(heap'[u])
  BY <1>2, <1>3, <1>5, PutAt DEF Shape, ClientInv
<1>12. /\ stored' = [v \in Users |-> stored'[v]] /\ \A v \in Users \ {u} : stored'[v] = stored[v]
       /\ stored'[u] = y
  BY <1>2, <1>3, <1>4, <1>5 DEF Shape, Persist
<1>13. /\ op' = [v \in Users |-> [t \in 1..Slots |-> op'[v][t]]]
       /\ \A t \in 1..Slots : op'[u][t] = None
       /\ \A v \in Users \ {u} : op'[v] = op[v]
  <2>1. \A v \in Users : DOMAIN op[v] = 1..Slots /\ op[v] = [t \in 1..Slots |-> op[v][t]]
    BY <1>3 DEF Shape
  <2>2. op' = [v \in Users |-> IF v = u THEN [op[u] EXCEPT ![s] = None] ELSE op[v]]
    BY <1>2, <1>3 DEF Shape, Suspend
  <2>3. \A t \in 1..Slots : t = s
    OBVIOUS
  <2>4. op'[u] = [t \in 1..Slots |-> None]
    BY <2>1, <2>2, <2>3
  <2> QED BY <2>1, <2>2, <2>4
<1>14. Shape' /\ \A v \in Users : nextKey'[v] = nextKey[v] /\ cur'[v] = cur[v]
  BY <1>2, <1>3, <1>9, <1>11, <1>12, <1>13 DEF Shape
<1>15. /\ \A v \in Users : Known(v) \subseteq Known(v)'
       /\ \A v \in Users : \A k : Made(v, k) => Made(v, k)'
  <2>1. \A v \in Users : Known(v) \subseteq Known(v)'
    <3> TAKE v \in Users
    <3>1. CASE v = u
      BY <1>10, <3>1 DEF Known
    <3>2. CASE v # u
      BY <1>9, <3>2 DEF Known
    <3> QED BY <3>1, <3>2
  <2>2. \A v \in Users : \A k : Made(v, k) => Made(v, k)'
    BY <1>14 DEF Made
  <2> QED BY <2>1, <2>2
<1>16. \A v \in Users : \A q, k : EndsWith(v, q, k) => EndsWith(v, q, k)'
  BY <1>15, PeerIsOther DEF EndsWith
<1>17. SessionInv(u, y)'
  <2>1. Made(u, y.dhs)' /\ (y.dhr \in Known(Peer(u)))' /\ y.rk \in Seq(Secrets) /\ y.ns \in Nat
    BY <1>5, <1>6, <1>7, <1>15, PeerIsOther DEF SessionInv
  <2>2. y.fresh \in BOOLEAN /\ y.pending \in BOOLEAN /\ ~y.fresh
    BY <1>5, <1>7 DEF SessionInv
  <2>3. EndsWith(u, r, x.dhs)' /\ 2 <= x.dhs[2]
    BY <1>5, <1>6, <1>16 DEF Sends
  <2>4. ASSUME NEW j \in DOMAIN relay'[u], relay'[u][j].dh = x.dhs
        PROVE  relay'[u][j].key.root = r /\ relay'[u][j].key.step < x.ns + 1
    <3>1. CASE j \in 1..n
      <4>1. relay[u][j].key.root = r /\ relay[u][j].key.step < x.ns
        BY <1>5, <1>6, <1>10, <2>4, <3>1 DEF Sends
      <4>2. relay[u][j].key.step \in Nat
        <5>1. EnvelopeInv(u, j)
          BY <1>10, <3>1 DEF KeyInv
        <5> QED BY <5>1 DEF EnvelopeInv
      <4> QED BY <1>6, <1>10, <3>1, <4>1, <4>2
    <3>2. CASE j = n + 1
      BY <1>6, <1>8, <1>10, <3>2
    <3> QED BY <1>10, <3>1, <3>2
  <2>5. Sends(u, y)'
    BY <1>7, <2>3, <2>4 DEF Sends
  <2> QED BY <1>7, <2>1, <2>2, <2>5 DEF SessionInv
<1>18. ASSUME NEW v \in Users PROVE ClientInv(v)'
  <2>1. CASE v = u
    <3>1. cur'[u] = i /\ nextKey'[u] = nextKey[u] /\ 2 <= nextKey[u]
      BY <1>3, <1>5, <1>14 DEF ClientInv
    <3>2. \A t \in 1..Slots : CallInv(u, op[u][t])'
      BY <1>13 DEF CallInv
    <3> QED BY <1>3, <1>5, <1>10, <1>11, <1>12, <1>17, <2>1, <3>1, <3>2 DEF ClientInv
  <2>2. CASE v # u
    <3>1. /\ heap'[v] = heap[v] /\ cur'[v] = cur[v] /\ stored'[v] = stored[v]
          /\ nextKey'[v] = nextKey[v] /\ op'[v] = op[v] /\ relay'[v] = relay[v]
      BY <1>9, <1>11, <1>12, <1>13, <1>14, <2>2
    <3>2. ClientInv(v) /\ Peer(v) \in Users
      BY PeerIsOther DEF KeyInv
    <3>3. \A k : Unnamed(v, k) => Unnamed(v, k)'
      BY <1>15, <3>1 DEF Unnamed
    <3>4. \A z : Sends(v, z) => Sends(v, z)'
      BY <1>16, <3>1 DEF Sends
    <3>5. \A z : SessionInv(v, z) => SessionInv(v, z)'
      BY <1>15, <3>2, <3>3, <3>4 DEF SessionInv
    <3>6. DOMAIN relay[Peer(v)] \subseteq DOMAIN relay'[Peer(v)]
      BY <1>9, <1>10, <3>2
    <3>7. ASSUME NEW c, CallInv(v, c) PROVE CallInv(v, c)'
      BY <1>16, <3>1, <3>3, <3>6, <3>7 DEF CallInv
    <3> QED BY <3>1, <3>2, <3>5, <3>7 DEF ClientInv
  <2> QED BY <2>1, <2>2
<1>19. ASSUME NEW v \in Users, NEW j \in DOMAIN relay'[v] PROVE EnvelopeInv(v, j)'
  <2>1. CASE v # u
    <3>1. relay'[v] = relay[v] /\ EnvelopeInv(v, j)
      BY <1>9, <2>1 DEF KeyInv
    <3> QED BY <1>15, <1>16, <3>1 DEF EnvelopeInv
  <2>2. CASE v = u /\ j \in 1..n
    <3>1. EnvelopeInv(u, j) /\ relay'[u][j] = relay[u][j]
      BY <1>10, <2>2 DEF KeyInv
    <3>2. ASSUME NEW k \in DOMAIN relay'[u], k # j, relay'[u][k].dh = relay[u][j].dh
          PROVE  relay'[u][k].key.root = relay[u][j].key.root /\ relay'[u][k].ns # relay[u][j].ns
      <4>1. CASE k \in 1..n
        BY <1>10, <3>1, <3>2, <4>1 DEF EnvelopeInv
      <4>2. CASE k = n + 1
        <5>1. relay[u][j].dh = x.dhs
          BY <1>8, <1>10, <3>2, <4>2
        <5>2. relay[u][j].key.root = r /\ relay[u][j].key.step < x.ns
          BY <1>5, <1>6, <1>10, <2>2, <5>1 DEF Sends
        <5>3. relay[u][j].ns = relay[u][j].key.step /\ relay[u][j].ns \in Nat
          BY <3>1 DEF EnvelopeInv
        <5> QED BY <1>6, <1>8, <1>10, <4>2, <5>2, <5>3
      <4> QED BY <1>10, <4>1, <4>2
    <3> QED BY <1>15, <1>16, <2>2, <3>1, <3>2 DEF EnvelopeInv
  <2>3. CASE v = u /\ j = n + 1
    <3>1. Made(u, x.dhs) /\ 2 <= x.dhs[2] /\ EndsWith(u, r, x.dhs)
      BY <1>5, <1>6 DEF SessionInv, Sends
    <3>2. ASSUME NEW k \in DOMAIN relay'[u], k # j, relay'[u][k].dh = x.dhs
          PROVE  relay'[u][k].key.root = r /\ relay'[u][k].ns # x.ns
      <4>1. k \in 1..n /\ relay'[u][k] = relay[u][k]
        BY <1>10, <2>3, <3>2
      <4>2. relay[u][k].key.root = r /\ relay[u][k].key.step < x.ns
        BY <1>5, <1>6, <1>10, <3>2, <4>1 DEF Sends
      <4>3. relay[u][k].ns = relay[u][k].key.step /\ relay[u][k].ns \in Nat
        <5>1. EnvelopeInv(u, k)
          BY <1>10, <4>1 DEF KeyInv
        <5> QED BY <5>1 DEF EnvelopeInv
      <4> QED BY <1>6, <4>1, <4>2, <4>3
    <3> QED BY <1>6, <1>8, <1>10, <1>15, <1>16, <2>3, <3>1, <3>2 DEF EnvelopeInv
  <2> QED BY <1>10, <2>1, <2>2, <2>3
<1>20. ASSUME NEW v \in Users, v # u, NEW j \in DOMAIN relay[v] PROVE relay[v][j].key.root # r
  <2>1. EnvelopeInv(v, j)
    BY <1>20 DEF KeyInv
  <2> SUFFICES ASSUME relay[v][j].key.root = r PROVE FALSE
    OBVIOUS
  <2>2. Made(v, relay[v][j].dh) /\ EndsWith(v, r, relay[v][j].dh)
    BY <2>1 DEF EnvelopeInv
  <2>3. Made(u, x.dhs) /\ 2 <= x.dhs[2] /\ EndsWith(u, r, x.dhs)
    BY <1>5, <1>6 DEF SessionInv, Sends
  <2>4. PICK k \in DOMAIN relay[u] : relay[u][k].dh = x.dhs
    BY <1>20, <2>2, <2>3, EndIsKnown
  <2>5. relay[u][k].key.root = r
    BY <1>5, <1>6, <2>4 DEF Sends
  <2> QED BY <1>20, <2>5 DEF KeyInv, Apart
<1>21. ASSUME NEW v \in Users, NEW w \in Users, v # w PROVE Apart(v, w)'
  <2>1. Apart(v, w)
    BY <1>21 DEF KeyInv
  <2>2. CASE v = u
    BY <1>8, <1>9, <1>10, <1>20, <1>21, <2>1, <2>2 DEF Apart
  <2>3. CASE w = u
    BY <1>8, <1>9, <1>10, <1>20, <1>21, <2>1, <2>3 DEF Apart
  <2>4. CASE v # u /\ w # u
    BY <1>9, <2>1, <2>4 DEF Apart
  <2> QED BY <2>2, <2>3, <2>4
<1> QED BY <1>14, <1>18, <1>19, <1>21 DEF KeyInv

-----------------------------------------------------------------------------
(* Theorems.                                                                *)

LEMMA KeyInvInit == Init => KeyInv
<1> SUFFICES ASSUME Init PROVE KeyInv
  OBVIOUS
<1>1. IsSequence(<<>>) /\ Len(<<>>) = 0 /\ DOMAIN <<>> = {}
  BY DEF IsSequence
<1>2. Shape
  BY DEF Init, Shape
<1>3. \A u \in Users : /\ heap[u] = <<>> /\ cur[u] = 0 /\ stored[u] = None /\ nextKey[u] = 2
                       /\ relay[u] = <<>> /\ \A s \in 1..Slots : op[u][s] = None
  BY DEF Init
<1>4. \A u \in Users : ClientInv(u)
  BY <1>1, <1>3 DEF ClientInv, CallInv
<1> QED BY <1>1, <1>2, <1>3, <1>4 DEF KeyInv, Apart

LEMMA KeyInvNext ==
  ASSUME KeyInv, Slots = 1, [MCNext]_<<part, vars>>
  PROVE  KeyInv'
<1>1. CASE UNCHANGED vars
  <2>1. UNCHANGED <<heap, cur, stored, nextKey, op, relay>>
    BY <1>1 DEF vars, sessionVars
  <2>2. \A u : Known(u)' = Known(u)
    BY <2>1 DEF Known
  <2>3. \A u, r, k : EndsWith(u, r, k)' <=> EndsWith(u, r, k)
    BY <2>2 DEF EndsWith
  <2>4. \A u, k : (Made(u, k)' <=> Made(u, k)) /\ (Unnamed(u, k)' <=> Unnamed(u, k))
    BY <2>1 DEF Made, Unnamed
  <2>5. \A u, x : SessionInv(u, x)' <=> SessionInv(u, x)
    BY <2>1, <2>2, <2>3, <2>4 DEF SessionInv, Sends
  <2>6. \A u, o : CallInv(u, o)' <=> CallInv(u, o)
    BY <2>1, <2>3, <2>4 DEF CallInv
  <2>7. \A u \in Users : ClientInv(u)'
    BY <2>1, <2>5, <2>6 DEF KeyInv, ClientInv
  <2>8. \A u \in Users : (\A i \in DOMAIN relay[u] : EnvelopeInv(u, i))'
    BY <2>1, <2>3, <2>4 DEF KeyInv, EnvelopeInv
  <2>9. Shape' /\ \A u, v \in Users : u # v => Apart(u, v)'
    BY <2>1 DEF KeyInv, Shape, Apart
  <2> QED BY <2>7, <2>8, <2>9 DEF KeyInv
<1>2. CASE Next \/ Turns!Next
  <2>1. PICK u \in Users :
          \/ \E s \in 1..Slots : SendSteps(u, s) \/ RecvSteps(u, s)
          \/ \E s \in 1..Slots : Turns!SendSteps(u, s) \/ Turns!RecvSteps(u, s)
          \/ Reload(u) \/ Turns!Reload(u)
    BY <1>2 DEF Next, Turns!Next
  <2>2. ASSUME NEW s \in 1..Slots, SendSteps(u, s) \/ Turns!SendSteps(u, s) PROVE KeyInv'
    <3>1. \/ SendStart(u, s) \/ Turns!SendStart(u, s) \/ BundleAnswer(u, s)
          \/ SendRatchet(u, s) \/ SendKey(u, s)
      BY <2>2, SameSends DEF SendSteps, Turns!SendSteps
    <3> QED BY <3>1, SendStartStep, BundleStep, SendRatchetStep, SendKeyStep
  <2>3. ASSUME NEW s \in 1..Slots, RecvSteps(u, s) \/ Turns!RecvSteps(u, s) PROVE KeyInv'
    <3>1. \/ RecvStart(u, s) \/ Turns!RecvStart(u, s) \/ RecvBob(u, s)
          \/ RecvDh(u, s) \/ Turns!RecvDh(u, s) \/ RecvChain(u, s) \/ Turns!RecvChain(u, s)
      BY <2>3, SameSends DEF RecvSteps, Turns!RecvSteps
    <3> QED BY <3>1, RecvStartStep, RecvBobStep, RecvDhStep, RecvChainStep
  <2> QED BY <2>1, <2>2, <2>3, ReloadStep
<1> QED BY <1>1, <1>2 DEF MCNext

LEMMA KeyInvNames == ASSUME KeyInv PROVE KeysNameEnvelopes
<1>1. KeyUsedOnce
  <2> SUFFICES ASSUME NEW u \in Users, NEW v \in Users, NEW i \in DOMAIN relay[u],
                      NEW j \in DOMAIN relay[v], relay[u][i].key = relay[v][j].key
               PROVE  u = v /\ i = j
    BY DEF KeyUsedOnce
  <2>1. CASE u # v
    BY <2>1 DEF KeyInv, Apart
  <2>2. CASE u = v /\ i # j
    <3>1. EnvelopeInv(u, i) /\ EnvelopeInv(u, j)
      BY <2>2 DEF KeyInv
    <3>2. PICK a, b, r : a = relay[u][i].dh /\ b = relay[u][j].dh /\ r = relay[u][i].key.root
      OBVIOUS
    <3>3. Made(u, a) /\ EndsWith(u, r, a) /\ relay[u][i].ns = relay[u][i].key.step
      BY <3>1, <3>2 DEF EnvelopeInv
    <3>4. Made(u, b) /\ EndsWith(u, r, b) /\ relay[u][j].ns = relay[u][j].key.step
      BY <2>2, <3>1, <3>2 DEF EnvelopeInv
    <3>5. a = b
      BY <3>3, <3>4, EndIsOwn
    <3>6. relay[u][j].ns # relay[u][i].ns
      BY <2>2, <3>1, <3>2, <3>5 DEF EnvelopeInv
    <3> QED BY <2>2, <3>3, <3>4, <3>6
  <2> QED BY <2>1, <2>2
<1>2. HeaderNamesKey
  <2> SUFFICES ASSUME NEW m \in Envelopes PROVE m.dh \in Last(m.key.root) /\ m.ns = m.key.step
    BY DEF HeaderNamesKey
  <2>0. PICK u \in Users : m \in ToSet(relay[u])
    BY DEF Envelopes
  <2>1. PICK i \in DOMAIN relay[u] : m = relay[u][i]
    BY <2>0 DEF ToSet
  <2>2. EnvelopeInv(u, i)
    BY DEF KeyInv
  <2> QED BY <2>1, <2>2 DEF EnvelopeInv, EndsWith
<1> QED BY <1>1, <1>2 DEF KeysNameEnvelopes

\* No message key seals two envelopes and every header names the chain its key came from: for
\* any two clients, turns, losses, repeats, reorderings, rotations and reloads, while the calls
\* of one client do not overlap.
THEOREM OneEnvelopePerKey == Slots = 1 => (MCSpec => []KeysNameEnvelopes)
<1> SUFFICES ASSUME Slots = 1 PROVE MCSpec => []KeysNameEnvelopes
  OBVIOUS
<1>1. MCInit => KeyInv
  BY KeyInvInit DEF MCInit
<1>2. KeyInv /\ [MCNext]_<<part, vars>> => KeyInv'
  BY KeyInvNext
<1>3. KeyInv => KeysNameEnvelopes
  BY KeyInvNames
<1> QED BY <1>1, <1>2, <1>3, PTL DEF MCSpec

-----------------------------------------------------------------------------
(* "turns": what is stored of the two clients, between two calls.           *)

IsChain(c) == c = [root |-> c.root, step |-> c.step] /\ c.root \in Seq(Secrets) /\ c.step \in Nat

\* Envelope m is number n of the chain of root, its header naming dh.
Numbered(m, dh, root, n) == m.dh = dh /\ m.ns = n /\ m.key = [root |-> root, step |-> n]

\* The first r of the envelopes R have been read, F being their fates, by a client with session x.
ReadTo(R, F, r, x) ==
    /\ r \in 0..Len(R) /\ Len(F) = Len(R)
    /\ \A i \in 1..Len(R) : F[i] = IF i <= r THEN "read" ELSE "sent"
    /\ x.seen \subseteq {MsgId(R[i]) : i \in 1..r}

\* One envelope more, and one of them read.
Sent(R, F, m, Q, G) == Q = Append(R, m) /\ G = Append(F, "sent")
Marked(F, n, G) == G = [F EXCEPT ![n] = "read"]

\* Session z is x one envelope further along the chain it reads.
ReadOn(x, z, m) ==
    /\ z.dhr = x.dhr /\ z.ckr = [root |-> x.ckr.root, step |-> x.ckr.step + 1]
    /\ z.seen \subseteq x.seen \cup {MsgId(m)}

FirstUnread(R, F, n) ==
    n \in 1..Len(R) /\ F[n] = "sent" /\ \A k \in 1..(n - 1) : F[k] = "read"

\* y writes R, x reads it: x is on the chain that y writes;
Level(R, F, y, x) ==
    \E r \in 0..Len(R) :
        /\ ReadTo(R, F, r, x)
        /\ IsChain(y.cks) /\ y.cks.step = y.ns /\ Len(R) - r <= y.ns /\ y.ns <= Len(R)
        /\ x.ckr = [root |-> y.cks.root, step |-> y.ns - (Len(R) - r)]
        /\ \A i \in (r + 1)..Len(R) : Numbered(R[i], x.dhr, y.cks.root, y.ns - Len(R) + i - 1)

\* or y has begun a chain that x has read nothing of.
Ahead(R, F, y, x) ==
    \E r \in 0..Len(R) :
        /\ ReadTo(R, F, r, x)
        /\ y.ns \in Nat /\ r + y.ns <= Len(R) /\ y.dhs # x.dhr
        /\ r + y.ns < Len(R) => IsChain(x.ckr)
        /\ \A i \in (r + 1)..(Len(R) - y.ns) :
              Numbered(R[i], x.dhr, x.ckr.root, x.ckr.step + i - r - 1)
        /\ \A i \in (Len(R) - y.ns + 1)..Len(R) :
              Numbered(R[i], y.dhs, y.rk, i - (Len(R) - y.ns) - 1)

Silent(R, F, x) == R = <<>> /\ F = <<>> /\ x.ckr = None /\ x.seen = {}

\* A session between two calls, and one whose sending chain is that of its root.
AtRest(x) == x \in Sessions /\ ~x.wiped /\ x.skipped = <<>>
Writing(x) == ~x.pending /\ ~x.fresh /\ x.cks = [root |-> x.rk, step |-> x.ns] /\ IsChain(x.cks)

\* One that makes a DH step before it writes.
MustTurn(x) == (x.pending /\ x.fresh) \/ (~x.pending /\ ~x.fresh /\ x.cks = None /\ x.ns = 0)

\* u made the last DH step to send, v has a session y: behind it, or level with it.
Behind(u, v, x, y) ==
    /\ Ahead(relay[u], fate[u], x, y) /\ Level(relay[v], fate[v], y, x)
    /\ Writing(y) /\ x.dhr = y.dhs /\ x.rk = Append(y.rk, DH(y.dhs, x.dhs))

Abreast(u, v, x, y) ==
    /\ Level(relay[u], fate[u], x, y)
    /\ IF y.cks = None THEN Silent(relay[v], fate[v], x) ELSE Level(relay[v], fate[v], y, x)
    /\ MustTurn(y) /\ x.dhs = y.dhr /\ x.rk = y.rk

Greeted(u, v, x) ==
    /\ u \in FirstSpeakers
    /\ x.ns = Len(relay[u]) /\ Len(fate[u]) = Len(relay[u])
    /\ \A i \in 1..Len(relay[u]) :
          fate[u][i] = "sent" /\ Numbered(relay[u][i], x.dhs, x.rk, i - 1)
    /\ x.dhr = SignedPrekey(v)
    /\ x.rk = X3DH(IdentityKey(u), x.dhs, IdentityKey(v), SignedPrekey(v))
    /\ Silent(relay[v], fate[v], x)

Pair(u, v) ==
    LET x == stored[u]
        y == stored[v]
    IN  /\ AtRest(x) /\ Writing(x)
        /\ \/ y = None /\ Greeted(u, v, x)
           \/ AtRest(y) /\ (Behind(u, v, x, y) \/ Abreast(u, v, x, y))

Unmet == \A u \in Users : stored[u] = None /\ relay[u] = <<>> /\ fate[u] = <<>>

(* "turns": a call of u, by what is stored of u.                            *)

TurnedRoot(x, dhs) == Append(x.rk, DH(x.dhr, dhs))
Emptied(x) == [x EXCEPT !.fresh = FALSE, !.wiped = ~x.fresh]
Turned(x, dhs) == DhRatchetSend(Emptied(x), [dhs |-> dhs, root |-> TurnedRoot(x, dhs)])
ReadRoot(x, dh) == Append(x.rk, DH(dh, x.dhs))

\* R and F are the envelopes of the peer and their fates, i is the cursor of u, y its session there.
Idle(i, o, x, y) == o = None /\ IF i = 0 THEN x = None ELSE x # None /\ y = x

Meeting(u, R, F, i, o, x) ==
    /\ i = 0 /\ x = None
    /\ \/ o = [pc |-> "bundle"] /\ u \in FirstSpeakers
       \/ o = [pc |-> "bob", msg |-> o.msg] /\ FirstUnread(R, F, o.msg)

Turning(i, o, x, y) ==
    /\ MustTurn(x) /\ y = Emptied(x) /\ o.place \in {1, 2} /\ o.dhs \in Keys
    /\ o = [pc |-> "ratchet", sid |-> i, place |-> o.place, dhs |-> o.dhs,
            root |-> TurnedRoot(x, o.dhs)]

Sealing(i, o, x, y) ==
    /\ o = [pc |-> "key", sid |-> i, chain |-> y.cks]
    /\ (Writing(x) /\ y = x) \/ (MustTurn(x) /\ y = Turned(x, y.dhs))

Stepping(u, R, i, o, x, y) ==
    /\ x # None /\ R[o.msg].dh # x.dhr
    /\ o = [pc |-> "dh", sid |-> i, msg |-> o.msg, root |-> ReadRoot(x, R[o.msg].dh)]
    /\ y = [x EXCEPT !.pn = y.pn]

\* The session that reads an envelope naming dh: the first one, the one there is, one step on.
FirstOrNext(u, x, y, dh) ==
    \/ x = None /\ y = InitializeAsBob(u, dh)
    \/ x # None /\ dh = x.dhr /\ y = x
    \/ /\ x # None /\ dh # x.dhr
       /\ y = DhRatchetRecv(x, [root |-> ReadRoot(x, dh)], dh, y.dhs)

Unsealing(u, R, i, o, x, y) ==
    /\ o = [pc |-> "chain", sid |-> i, msg |-> o.msg, chain |-> y.ckr] /\ IsChain(y.ckr)
    /\ FirstOrNext(u, x, y, R[o.msg].dh)

Busy(u, R, F, i, o, x, y) ==
    \/ Idle(i, o, x, y) \/ Meeting(u, R, F, i, o, x)
    \/ i # 0 /\ x # None /\ (Turning(i, o, x, y) \/ Sealing(i, o, x, y))
    \/ /\ i # 0 /\ FirstUnread(R, F, o.msg)
       /\ Stepping(u, R, i, o, x, y) \/ Unsealing(u, R, i, o, x, y)

AtWork(u) ==
    /\ cur[u] = Len(heap[u]) /\ Len(heap[u]) <= 1
    /\ Busy(u, relay[Peer(u)], fate[Peer(u)], cur[u], op[u][1], stored[u], heap[u][cur[u]])

FateShape ==
    fate = [u \in Users |-> fate[u]] /\ \A u \in Users : IsSequence(fate[u])

TurnsInv ==
    /\ FateShape
    /\ Unmet \/ \E u \in Users : Pair(u, Peer(u))
    /\ \A u \in Users : AtWork(u)

-----------------------------------------------------------------------------
(* One direction of the relay: R its envelopes, F their fates.              *)

\* The envelope read next is the one after those read.
LEMMA NextRead ==
  ASSUME NEW R, NEW F, NEW x, IsSequence(R), NEW r \in 0..Len(R), ReadTo(R, F, r, x), NEW n,
         FirstUnread(R, F, n)
  PROVE  n = r + 1 /\ n \in 1..Len(R)
<1>1. Len(R) \in Nat /\ n \in 1..Len(R) /\ n \in Nat
  BY DEF FirstUnread, IsSequence
<1>2. ~(n <= r)
  BY <1>1 DEF FirstUnread, ReadTo
<1>3. ~(n > r + 1)
  <2> SUFFICES ASSUME n > r + 1 PROVE FALSE
    OBVIOUS
  <2>1. r + 1 \in 1..(n - 1) /\ r + 1 \in 1..Len(R) /\ ~(r + 1 <= r)
    BY <1>1
  <2> QED BY <2>1 DEF FirstUnread, ReadTo
<1> QED BY <1>1, <1>2, <1>3

LEMMA ReadOne ==
  ASSUME NEW R, NEW F, NEW x, IsSequence(R), IsSequence(F), NEW r \in 0..Len(R), ReadTo(R, F, r, x),
         NEW n, FirstUnread(R, F, n), NEW G, Marked(F, n, G), NEW y,
         y.seen \subseteq x.seen \cup {MsgId(R[n])}
  PROVE  ReadTo(R, G, n, y) /\ n \in 0..Len(R)
<1>0. n = r + 1 /\ n \in 1..Len(R) /\ G = [F EXCEPT ![n] = "read"]
  BY NextRead DEF Marked
<1>1. Len(R) \in Nat /\ Len(F) = Len(R) /\ n \in 0..Len(R)
  BY <1>0 DEF IsSequence, ReadTo
<1>2. IsSequence(G) /\ Len(G) = Len(F) /\ G[n] = "read" /\ \A i \in 1..Len(R) : i # n => G[i] = F[i]
  <2>1. F \in Seq({F[i] : i \in 1..Len(F)}) /\ DOMAIN F = 1..Len(F)
    BY SequenceOf
  <2> DEFINE S == {F[i] : i \in 1..Len(F)} \cup {"read"}
  <2>2. F \in Seq(S)
    BY <2>1, SeqMonotonic
  <2>3. "read" \in S
    OBVIOUS
  <2> HIDE DEF S
  <2>4. G \in Seq(S) /\ Len(G) = Len(F)
    BY <1>0, <1>1, <2>2, <2>3, ExceptSeq
  <2>5. IsSequence(G)
    BY <2>4, IsOne
  <2> QED BY <1>0, <1>1, <2>1, <2>4, <2>5
<1>3. \A i \in 1..Len(R) : G[i] = IF i <= n THEN "read" ELSE "sent"
  <2> TAKE i \in 1..Len(R)
  <2>1. F[i] = IF i <= r THEN "read" ELSE "sent"
    BY DEF ReadTo
  <2> QED BY <1>0, <1>1, <1>2, <2>1
<1>4. y.seen \subseteq {MsgId(R[i]) : i \in 1..n}
  <2>1. x.seen \subseteq {MsgId(R[i]) : i \in 1..r}
    BY DEF ReadTo
  <2>2. \A i \in 1..r : i \in 1..n
    BY <1>0, <1>1
  <2>3. n \in 1..n
    BY <1>0, <1>1
  <2> QED BY <2>1, <2>2, <2>3
<1> QED BY <1>1, <1>2, <1>3, <1>4 DEF ReadTo

LEMMA SentOne ==
  ASSUME NEW R, NEW F, NEW x, IsSequence(R), IsSequence(F), NEW r \in 0..Len(R), ReadTo(R, F, r, x),
         NEW m, NEW Q, NEW G, Sent(R, F, m, Q, G)
  PROVE  /\ ReadTo(Q, G, r, x) /\ r \in 0..Len(Q) /\ Len(Q) = Len(R) + 1
         /\ Q[Len(R) + 1] = m /\ \A i \in 1..Len(R) : Q[i] = R[i]
<1>1. /\ Len(Q) = Len(R) + 1 /\ Q[Len(R) + 1] = m /\ \A i \in 1..Len(R) : Q[i] = R[i]
  BY AppendedTo DEF Sent
<1>2. /\ Len(G) = Len(F) + 1 /\ G[Len(F) + 1] = "sent" /\ \A i \in 1..Len(F) : G[i] = F[i]
  BY AppendedTo DEF Sent
<1>3. Len(R) \in Nat /\ Len(F) = Len(R)
  BY DEF IsSequence, ReadTo
<1>4. \A i \in 1..Len(Q) : G[i] = IF i <= r THEN "read" ELSE "sent"
  <2> TAKE i \in 1..Len(Q)
  <2>1. CASE i \in 1..Len(R)
    BY <1>2, <1>3, <2>1 DEF ReadTo
  <2>2. CASE i = Len(R) + 1
    BY <1>2, <1>3, <2>2
  <2> QED BY <1>1, <1>3, <2>1, <2>2
<1>5. {MsgId(R[i]) : i \in 1..r} = {MsgId(Q[i]) : i \in 1..r}
  <2>1. \A i \in 1..r : Q[i] = R[i]
    BY <1>1, <1>3
  <2> QED BY <2>1
<1> QED BY <1>1, <1>2, <1>3, <1>4, <1>5 DEF ReadTo

LEMMA LevelSends ==
  ASSUME NEW R, NEW F, NEW x, NEW y, IsSequence(R), IsSequence(F), Level(R, F, y, x),
         NEW m, Numbered(m, x.dhr, y.cks.root, y.ns), NEW z, z.ns = y.ns + 1,
         z.cks = [root |-> y.cks.root, step |-> y.ns + 1], NEW Q, NEW G, Sent(R, F, m, Q, G)
  PROVE  Level(Q, G, z, x)
<1>2. PICK r \in 0..Len(R) :
        /\ ReadTo(R, F, r, x)
        /\ IsChain(y.cks) /\ y.cks.step = y.ns /\ Len(R) - r <= y.ns /\ y.ns <= Len(R)
        /\ x.ckr = [root |-> y.cks.root, step |-> y.ns - (Len(R) - r)]
        /\ \A i \in (r + 1)..Len(R) : Numbered(R[i], x.dhr, y.cks.root, y.ns - Len(R) + i - 1)
  BY DEF Level
<1>3. /\ ReadTo(Q, G, r, x) /\ r \in 0..Len(Q) /\ Len(Q) = Len(R) + 1
      /\ Q[Len(R) + 1] = m /\ \A i \in 1..Len(R) : Q[i] = R[i]
  <2>1. ReadTo(R, F, r, x)
    BY <1>2
  <2> QED BY <2>1, SentOne
<1>4. Len(R) \in Nat /\ y.ns \in Nat /\ y.cks.root \in Seq(Secrets)
  BY <1>2 DEF IsSequence, IsChain
<1>5. /\ IsChain(z.cks) /\ z.cks.step = z.ns /\ Len(Q) - r <= z.ns /\ z.ns <= Len(Q)
      /\ z.cks.root = y.cks.root
  BY <1>2, <1>3, <1>4 DEF IsChain
<1>6. y.ns - (Len(R) - r) = z.ns - (Len(Q) - r)
  BY <1>3, <1>4
<1>7. \A i \in (r + 1)..Len(Q) : Numbered(Q[i], x.dhr, z.cks.root, z.ns - Len(Q) + i - 1)
  <2> TAKE i \in (r + 1)..Len(Q)
  <2>1. z.ns - Len(Q) + i - 1 = y.ns - Len(R) + i - 1
    BY <1>3, <1>4
  <2>2. CASE i <= Len(R)
    <3>1. i \in (r + 1)..Len(R) /\ i \in 1..Len(R)
      BY <1>3, <1>4, <2>2
    <3>2. Q[i] = R[i]
      BY <1>3, <3>1
    <3> QED BY <1>2, <1>5, <2>1, <3>1, <3>2
  <2>3. CASE i = Len(R) + 1
    <3>1. y.ns - Len(R) + i - 1 = y.ns
      BY <1>4, <2>3
    <3> QED BY <1>3, <1>5, <2>1, <2>3, <3>1
  <2> QED BY <1>3, <1>4, <2>2, <2>3
<1> QED BY <1>2, <1>3, <1>5, <1>6, <1>7 DEF Level

LEMMA LevelReads ==
  ASSUME NEW R, NEW F, NEW x, NEW y, IsSequence(R), IsSequence(F), Level(R, F, y, x),
         NEW n, FirstUnread(R, F, n)
  PROVE  /\ Numbered(R[n], x.dhr, x.ckr.root, x.ckr.step) /\ IsChain(x.ckr)
         /\ \A z, G : ReadOn(x, z, R[n]) /\ Marked(F, n, G) => Level(R, G, y, z)
<1>2. PICK r \in 0..Len(R) :
        /\ ReadTo(R, F, r, x)
        /\ IsChain(y.cks) /\ y.cks.step = y.ns /\ Len(R) - r <= y.ns /\ y.ns <= Len(R)
        /\ x.ckr = [root |-> y.cks.root, step |-> y.ns - (Len(R) - r)]
        /\ \A i \in (r + 1)..Len(R) : Numbered(R[i], x.dhr, y.cks.root, y.ns - Len(R) + i - 1)
  BY DEF Level
<1>3. Len(R) \in Nat /\ y.ns \in Nat /\ y.cks.root \in Seq(Secrets)
  BY <1>2 DEF IsSequence, IsChain
<1>4. n = r + 1 /\ n \in 1..Len(R)
  BY <1>2, NextRead
<1>5. Numbered(R[n], x.dhr, x.ckr.root, x.ckr.step) /\ IsChain(x.ckr)
  <2>1. n \in (r + 1)..Len(R) /\ y.ns - Len(R) + n - 1 = y.ns - (Len(R) - r)
    BY <1>3, <1>4
  <2>2. x.ckr.root = y.cks.root /\ x.ckr.step = y.ns - (Len(R) - r) /\ x.ckr.step \in Nat
    BY <1>2, <1>3
  <2> QED BY <1>2, <1>3, <2>1, <2>2 DEF IsChain
<1>6. ASSUME NEW z, NEW G, ReadOn(x, z, R[n]), Marked(F, n, G)
      PROVE  Level(R, G, y, z)
  <2>1. /\ z.dhr = x.dhr /\ z.ckr = [root |-> x.ckr.root, step |-> x.ckr.step + 1]
        /\ z.seen \subseteq x.seen \cup {MsgId(R[n])}
    BY <1>6 DEF ReadOn
  <2>2. ReadTo(R, G, n, z) /\ n \in 0..Len(R)
    <3>1. ReadTo(R, F, r, x)
      BY <1>2
    <3> QED BY <1>6, <2>1, <3>1, ReadOne
  <2>3. Len(R) - n <= y.ns
    BY <1>2, <1>3, <1>4
  <2>4. z.ckr = [root |-> y.cks.root, step |-> y.ns - (Len(R) - n)]
    <3>1. x.ckr.root = y.cks.root /\ x.ckr.step = y.ns - (Len(R) - r)
      BY <1>2
    <3>2. x.ckr.step + 1 = y.ns - (Len(R) - n)
      BY <1>3, <1>4, <3>1
    <3> QED BY <2>1, <3>1, <3>2
  <2>5. \A i \in (n + 1)..Len(R) : Numbered(R[i], z.dhr, y.cks.root, y.ns - Len(R) + i - 1)
    <3> TAKE i \in (n + 1)..Len(R)
    <3>1. i \in (r + 1)..Len(R)
      BY <1>3, <1>4
    <3> QED BY <1>2, <2>1, <3>1
  <2> QED BY <1>2, <2>2, <2>3, <2>4, <2>5 DEF Level
<1> QED BY <1>5, <1>6

LEMMA AheadSends ==
  ASSUME NEW R, NEW F, NEW x, NEW y, IsSequence(R), IsSequence(F), Ahead(R, F, y, x),
         NEW m, Numbered(m, y.dhs, y.rk, y.ns), NEW z, z.ns = y.ns + 1, z.dhs = y.dhs, z.rk = y.rk,
         NEW Q, NEW G, Sent(R, F, m, Q, G)
  PROVE  Ahead(Q, G, z, x)
<1>2. PICK r \in 0..Len(R) :
        /\ ReadTo(R, F, r, x)
        /\ y.ns \in Nat /\ r + y.ns <= Len(R) /\ y.dhs # x.dhr
        /\ r + y.ns < Len(R) => IsChain(x.ckr)
        /\ \A i \in (r + 1)..(Len(R) - y.ns) :
              Numbered(R[i], x.dhr, x.ckr.root, x.ckr.step + i - r - 1)
        /\ \A i \in (Len(R) - y.ns + 1)..Len(R) :
              Numbered(R[i], y.dhs, y.rk, i - (Len(R) - y.ns) - 1)
  BY DEF Ahead
<1>3. /\ ReadTo(Q, G, r, x) /\ r \in 0..Len(Q) /\ Len(Q) = Len(R) + 1
      /\ Q[Len(R) + 1] = m /\ \A i \in 1..Len(R) : Q[i] = R[i]
  <2>1. ReadTo(R, F, r, x)
    BY <1>2
  <2> QED BY <2>1, SentOne
<1>4. Len(R) \in Nat /\ Len(Q) - z.ns = Len(R) - y.ns /\ z.ns \in Nat
  <2>1. Len(R) \in Nat
    BY DEF IsSequence
  <2>2. y.ns \in Nat
    BY <1>2
  <2>3. Len(Q) = Len(R) + 1
    BY <1>3
  <2> QED BY <2>1, <2>2, <2>3
<1>5. r + z.ns <= Len(Q) /\ (r + z.ns < Len(Q) => IsChain(x.ckr)) /\ z.dhs # x.dhr
  <2>1. r + z.ns < Len(Q) => r + y.ns < Len(R)
    BY <1>2, <1>3, <1>4
  <2> QED BY <1>2, <1>3, <1>4, <2>1
<1>6. \A i \in (r + 1)..(Len(Q) - z.ns) : Numbered(Q[i], x.dhr, x.ckr.root, x.ckr.step + i - r - 1)
  <2> TAKE i \in (r + 1)..(Len(Q) - z.ns)
  <2>1. i \in (r + 1)..(Len(R) - y.ns) /\ i \in 1..Len(R)
    BY <1>2, <1>4
  <2> QED BY <1>2, <1>3, <2>1
<1>7. \A i \in (Len(Q) - z.ns + 1)..Len(Q) : Numbered(Q[i], z.dhs, z.rk, i - (Len(Q) - z.ns) - 1)
  <2> TAKE i \in (Len(Q) - z.ns + 1)..Len(Q)
  <2>1. i - (Len(Q) - z.ns) - 1 = i - (Len(R) - y.ns) - 1
    BY <1>4
  <2>2. CASE i <= Len(R)
    <3>1. i \in (Len(R) - y.ns + 1)..Len(R) /\ i \in 1..Len(R)
      BY <1>2, <1>4, <2>2
    <3>2. Q[i] = R[i]
      BY <1>3, <3>1
    <3> QED BY <1>2, <2>1, <3>1, <3>2
  <2>3. CASE i = Len(R) + 1
    <3>1. i - (Len(R) - y.ns) - 1 = y.ns
      <4>1. Len(R) \in Nat /\ y.ns \in Nat
        BY <1>2 DEF IsSequence
      <4> QED BY <2>3, <4>1
    <3> QED BY <1>3, <2>1, <2>3, <3>1
  <2> QED BY <1>2, <1>3, <1>4, <2>2, <2>3
<1> QED BY <1>3, <1>4, <1>5, <1>6, <1>7 DEF Ahead

\* A reader behind the writer reads on in the old chain, or finds a new key in the header.
LEMMA AheadReads ==
  ASSUME NEW R, NEW F, NEW x, NEW y, IsSequence(R), IsSequence(F), Ahead(R, F, y, x),
         NEW n, FirstUnread(R, F, n)
  PROVE  /\ R[n].dh = x.dhr =>
              /\ Numbered(R[n], x.dhr, x.ckr.root, x.ckr.step) /\ IsChain(x.ckr)
              /\ \A z, G : ReadOn(x, z, R[n]) /\ Marked(F, n, G) => Ahead(R, G, y, z)
         /\ R[n].dh # x.dhr =>
              /\ Numbered(R[n], y.dhs, y.rk, 0)
              /\ \A z, G : /\ y.cks = [root |-> y.rk, step |-> y.ns] /\ IsChain(y.cks)
                           /\ z.dhr = y.dhs /\ z.ckr = [root |-> y.rk, step |-> 1]
                           /\ z.seen \subseteq x.seen \cup {MsgId(R[n])} /\ Marked(F, n, G)
                           => Level(R, G, y, z)
<1>1. PICK r \in 0..Len(R) :
        /\ ReadTo(R, F, r, x)
        /\ y.ns \in Nat /\ r + y.ns <= Len(R) /\ y.dhs # x.dhr
        /\ r + y.ns < Len(R) => IsChain(x.ckr)
        /\ \A i \in (r + 1)..(Len(R) - y.ns) :
              Numbered(R[i], x.dhr, x.ckr.root, x.ckr.step + i - r - 1)
        /\ \A i \in (Len(R) - y.ns + 1)..Len(R) :
              Numbered(R[i], y.dhs, y.rk, i - (Len(R) - y.ns) - 1)
  BY DEF Ahead
<1>2. Len(R) \in Nat
  BY DEF IsSequence
<1>3. n = r + 1 /\ n \in 1..Len(R)
  BY <1>1, NextRead
<1>5. \A z, G : z.seen \subseteq x.seen \cup {MsgId(R[n])} /\ Marked(F, n, G)
                => ReadTo(R, G, n, z) /\ n \in 0..Len(R)
  <2>1. ReadTo(R, F, r, x)
    BY <1>1
  <2> QED BY <2>1, ReadOne
<1>6. CASE r + y.ns < Len(R)
  <2>1. n \in (r + 1)..(Len(R) - y.ns)
    BY <1>1, <1>2, <1>3, <1>6
  <2>2. Numbered(R[n], x.dhr, x.ckr.root, x.ckr.step + n - r - 1)
    BY <1>1, <2>1
  <2>3. IsChain(x.ckr) /\ x.ckr.step + n - r - 1 = x.ckr.step
    BY <1>1, <1>3, <1>6 DEF IsChain
  <2>4. R[n].dh = x.dhr
    BY <2>2 DEF Numbered
  <2>5. ASSUME NEW z, NEW G, ReadOn(x, z, R[n]), Marked(F, n, G)
        PROVE  Ahead(R, G, y, z)
    <3>0. /\ z.dhr = x.dhr /\ z.ckr = [root |-> x.ckr.root, step |-> x.ckr.step + 1]
          /\ z.seen \subseteq x.seen \cup {MsgId(R[n])}
      BY <2>5 DEF ReadOn
    <3>1. ReadTo(R, G, n, z) /\ n \in 0..Len(R)
      BY <1>5, <2>5, <3>0
    <3>2. n + y.ns <= Len(R) /\ y.dhs # z.dhr /\ IsChain(z.ckr)
      BY <1>1, <1>2, <1>3, <1>6, <2>3, <3>0 DEF IsChain
    <3>3. \A i \in (n + 1)..(Len(R) - y.ns) :
             Numbered(R[i], z.dhr, z.ckr.root, z.ckr.step + i - n - 1)
      <4> TAKE i \in (n + 1)..(Len(R) - y.ns)
      <4>1. i \in (r + 1)..(Len(R) - y.ns)
        BY <1>1, <1>2, <1>3
      <4>2. z.ckr.step + i - n - 1 = x.ckr.step + i - r - 1 /\ z.ckr.root = x.ckr.root
        <5>1. z.ckr.step = x.ckr.step + 1 /\ z.ckr.root = x.ckr.root
          BY <3>0
        <5>2. x.ckr.step \in Nat
          BY <2>3 DEF IsChain
        <5>3. i \in Nat /\ r \in Nat
          BY <1>2, <4>1
        <5>4. (x.ckr.step + 1) + i - (r + 1) - 1 = x.ckr.step + i - r - 1
          BY <5>2, <5>3
        <5>5. n = r + 1
          BY <1>3
        <5> QED BY <5>1, <5>4, <5>5
      <4> QED BY <1>1, <3>0, <4>1, <4>2
    <3> QED BY <1>1, <3>1, <3>2, <3>3 DEF Ahead
  <2> QED BY <2>2, <2>3, <2>4, <2>5
<1>7. CASE r + y.ns = Len(R)
  <2>1. n \in (Len(R) - y.ns + 1)..Len(R) /\ n - (Len(R) - y.ns) - 1 = 0
    BY <1>1, <1>2, <1>3, <1>7
  <2>2. Numbered(R[n], y.dhs, y.rk, 0)
    BY <1>1, <2>1
  <2>3. R[n].dh # x.dhr
    BY <1>1, <2>2 DEF Numbered
  <2>4. ASSUME NEW z, NEW G, y.cks = [root |-> y.rk, step |-> y.ns], IsChain(y.cks),
               z.dhr = y.dhs, z.ckr = [root |-> y.rk, step |-> 1],
               z.seen \subseteq x.seen \cup {MsgId(R[n])}, Marked(F, n, G)
        PROVE  Level(R, G, y, z)
    <3>1. ReadTo(R, G, n, z) /\ n \in 0..Len(R)
      BY <1>5, <2>4
    <3>2. /\ y.cks.step = y.ns /\ Len(R) - n <= y.ns /\ y.ns <= Len(R) /\ y.cks.root = y.rk
          /\ y.ns - (Len(R) - n) = 1
      BY <1>1, <1>2, <1>3, <1>7, <2>4
    <3>3. \A i \in (n + 1)..Len(R) : Numbered(R[i], z.dhr, y.cks.root, y.ns - Len(R) + i - 1)
      <4> TAKE i \in (n + 1)..Len(R)
      <4>1. i \in (Len(R) - y.ns + 1)..Len(R)
        BY <1>1, <1>2, <1>3, <1>7
      <4>2. i - (Len(R) - y.ns) - 1 = y.ns - Len(R) + i - 1
        BY <1>1, <1>2, <1>3, <4>1
      <4> QED BY <1>1, <2>4, <3>2, <4>1, <4>2
    <3> QED BY <2>4, <3>1, <3>2, <3>3 DEF Level
  <2> QED BY <2>2, <2>3, <2>4
<1>8. r + y.ns < Len(R) \/ r + y.ns = Len(R)
  <2>1. y.ns \in Nat /\ r + y.ns <= Len(R)
    BY <1>1
  <2> QED BY <1>2, <2>1
<1> QED BY <1>6, <1>7, <1>8

\* The writer makes a DH step: level with its reader it gets ahead of it.
LEMMA LevelTurns ==
  ASSUME NEW R, NEW F, NEW x, NEW y, IsSequence(R), IsSequence(F), Level(R, F, y, x),
         NEW z, z.ns = 1, z.dhs # x.dhr, NEW m, Numbered(m, z.dhs, z.rk, 0),
         NEW Q, NEW G, Sent(R, F, m, Q, G)
  PROVE  Ahead(Q, G, z, x)
<1>2. PICK r \in 0..Len(R) :
        /\ ReadTo(R, F, r, x)
        /\ IsChain(y.cks) /\ y.cks.step = y.ns /\ Len(R) - r <= y.ns /\ y.ns <= Len(R)
        /\ x.ckr = [root |-> y.cks.root, step |-> y.ns - (Len(R) - r)]
        /\ \A i \in (r + 1)..Len(R) : Numbered(R[i], x.dhr, y.cks.root, y.ns - Len(R) + i - 1)
  BY DEF Level
<1>3. /\ ReadTo(Q, G, r, x) /\ r \in 0..Len(Q) /\ Len(Q) = Len(R) + 1
      /\ Q[Len(R) + 1] = m /\ \A i \in 1..Len(R) : Q[i] = R[i]
  <2>1. ReadTo(R, F, r, x)
    BY <1>2
  <2> QED BY <2>1, SentOne
<1>4. Len(R) \in Nat /\ y.ns \in Nat /\ y.cks.root \in Seq(Secrets)
  BY <1>2 DEF IsSequence, IsChain
<1>5. IsChain(x.ckr) /\ x.ckr.root = y.cks.root /\ x.ckr.step = y.ns - (Len(R) - r)
  BY <1>2, <1>4 DEF IsChain
<1>6. \A i \in (r + 1)..(Len(Q) - z.ns) : Numbered(Q[i], x.dhr, x.ckr.root, x.ckr.step + i - r - 1)
  <2> TAKE i \in (r + 1)..(Len(Q) - z.ns)
  <2>1. i \in (r + 1)..Len(R) /\ i \in 1..Len(R)
    BY <1>3, <1>4
  <2>2. x.ckr.step + i - r - 1 = y.ns - Len(R) + i - 1
    BY <1>4, <1>5, <2>1
  <2> QED BY <1>2, <1>3, <1>5, <2>1, <2>2
<1>7. \A i \in (Len(Q) - z.ns + 1)..Len(Q) : Numbered(Q[i], z.dhs, z.rk, i - (Len(Q) - z.ns) - 1)
  <2> TAKE i \in (Len(Q) - z.ns + 1)..Len(Q)
  <2>1. i = Len(R) + 1 /\ i - (Len(Q) - z.ns) - 1 = 0
    BY <1>3, <1>4
  <2> QED BY <1>3, <2>1
<1>8. r + z.ns <= Len(Q) /\ z.ns \in Nat
  BY <1>3, <1>4
<1> QED BY <1>3, <1>5, <1>6, <1>7, <1>8 DEF Ahead

LEMMA SilentTurns ==
  ASSUME NEW R, NEW F, NEW x, Silent(R, F, x),
         NEW z, z.ns = 1, z.dhs # x.dhr, NEW m, Numbered(m, z.dhs, z.rk, 0),
         NEW Q, NEW G, Sent(R, F, m, Q, G)
  PROVE  Ahead(Q, G, z, x)
<1>2. IsSequence(R) /\ IsSequence(F) /\ Len(R) = 0 /\ Len(F) = 0 /\ x.seen = {}
  BY DEF Silent, IsSequence
<1>3. ReadTo(R, F, 0, x) /\ 0 \in 0..Len(R)
  BY <1>2 DEF ReadTo
<1>4. /\ ReadTo(Q, G, 0, x) /\ 0 \in 0..Len(Q) /\ Len(Q) = 1 /\ Q[1] = m
  <2>1. Len(R) + 1 = 1
    BY <1>2
  <2>2. IsSequence(R) /\ IsSequence(F)
    BY <1>2
  <2>3. PICK r \in 0..Len(R) : r = 0 /\ ReadTo(R, F, r, x)
    BY <1>3
  <2>4. ReadTo(R, F, r, x)
    BY <2>3
  <2>5. /\ ReadTo(Q, G, r, x) /\ r \in 0..Len(Q) /\ Len(Q) = Len(R) + 1
        /\ Q[Len(R) + 1] = m /\ \A i \in 1..Len(R) : Q[i] = R[i]
    BY <2>2, <2>4, SentOne
  <2> QED BY <2>1, <2>3, <2>5
<1>5. \A i \in (0 + 1)..(Len(Q) - z.ns) : Numbered(Q[i], x.dhr, x.ckr.root, x.ckr.step + i - 0 - 1)
  BY <1>4
<1>6. \A i \in (Len(Q) - z.ns + 1)..Len(Q) : Numbered(Q[i], z.dhs, z.rk, i - (Len(Q) - z.ns) - 1)
  <2> TAKE i \in (Len(Q) - z.ns + 1)..Len(Q)
  <2>1. i = 1 /\ i - (Len(Q) - z.ns) - 1 = 0
    BY <1>4
  <2> QED BY <1>4, <2>1
<1> QED BY <1>4, <1>5, <1>6 DEF Ahead

-----------------------------------------------------------------------------
(* Two clients, and what a step of one of them leaves to the other.         *)

LEMMA OtherIsPeer ==
  ASSUME NEW u \in Users, NEW v \in Users, v # u
  PROVE  v = Peer(u) /\ u = Peer(v)
<1>1. ASSUME NEW a \in Users, NEW b \in Users, NEW c \in Users, a # b, a # c, b # c PROVE FALSE
  <2>1. Cardinality({a}) = 1 /\ IsFiniteSet({a})
    BY FS_Singleton
  <2>2. IsFiniteSet({a} \cup {b}) /\ Cardinality({a} \cup {b}) = 2
    <3>1. b \notin {a}
      BY <1>1
    <3> QED BY <2>1, <3>1, FS_AddElement
  <2>3. IsFiniteSet(({a} \cup {b}) \cup {c}) /\ Cardinality(({a} \cup {b}) \cup {c}) = 3
    <3>1. c \notin {a} \cup {b}
      BY <1>1
    <3> QED BY <2>2, <3>1, FS_AddElement
  <2>4. ({a} \cup {b}) \cup {c} \subseteq Users
    OBVIOUS
  <2> QED BY <2>3, <2>4, FS_Subset, UsersAssumption
<1>2. Peer(u) \in Users /\ Peer(u) # u /\ Peer(v) \in Users /\ Peer(v) # v
  BY PeerIsOther
<1> QED BY <1>1, <1>2

LEMMA SamePair ==
  ASSUME UNCHANGED <<stored, relay, fate>>
  PROVE  /\ \A u, v : Pair(u, v)' <=> Pair(u, v)
         /\ Unmet' <=> Unmet
BY DEF Pair, Behind, Abreast, Greeted, Unmet

\* What u was about to read it is still about to read when the peer has written more.
LEMMA StillUnread ==
  ASSUME NEW R, NEW F, IsSequence(R), IsSequence(F), Len(F) = Len(R), NEW n, FirstUnread(R, F, n),
         NEW m, NEW Q, NEW G, Sent(R, F, m, Q, G)
  PROVE  FirstUnread(Q, G, n) /\ Q[n] = R[n]
<1>1. /\ Len(Q) = Len(R) + 1 /\ \A i \in 1..Len(R) : Q[i] = R[i]
      /\ \A i \in 1..Len(F) : G[i] = F[i]
  BY AppendedTo DEF Sent
<1>2. Len(R) \in Nat /\ n \in 1..Len(R)
  BY DEF IsSequence, FirstUnread
<1>3. n \in 1..Len(Q) /\ \A k \in 1..(n - 1) : k \in 1..Len(F)
  BY <1>1, <1>2
<1> QED BY <1>1, <1>2, <1>3 DEF FirstUnread

LEMMA StillBusy ==
  ASSUME NEW u, NEW R, NEW F, IsSequence(R), IsSequence(F), Len(F) = Len(R),
         NEW i, NEW o, NEW x, NEW y, Busy(u, R, F, i, o, x, y),
         NEW m, NEW Q, NEW G, Sent(R, F, m, Q, G)
  PROVE  Busy(u, Q, G, i, o, x, y)
<1>1. FirstUnread(R, F, o.msg) => FirstUnread(Q, G, o.msg) /\ Q[o.msg] = R[o.msg]
  BY StillUnread
<1> QED BY <1>1 DEF Busy, Meeting, Stepping, Unsealing

LEMMA OtherAtWork ==
  ASSUME NEW v \in Users, AtWork(v), IsSequence(relay[Peer(v)]), IsSequence(fate[Peer(v)]),
         Len(fate[Peer(v)]) = Len(relay[Peer(v)]),
         heap'[v] = heap[v], cur'[v] = cur[v], op'[v] = op[v], stored'[v] = stored[v],
         \/ relay'[Peer(v)] = relay[Peer(v)] /\ fate'[Peer(v)] = fate[Peer(v)]
         \/ \E m : Sent(relay[Peer(v)], fate[Peer(v)], m, relay'[Peer(v)], fate'[Peer(v)])
  PROVE  AtWork(v)'
<1>1. Busy(v, relay[Peer(v)], fate[Peer(v)], cur[v], op[v][1], stored[v], heap[v][cur[v]])
  BY DEF AtWork
<1>2. Busy(v, relay'[Peer(v)], fate'[Peer(v)], cur[v], op[v][1], stored[v], heap[v][cur[v]])
  <2>1. CASE relay'[Peer(v)] = relay[Peer(v)] /\ fate'[Peer(v)] = fate[Peer(v)]
    BY <1>1, <2>1
  <2>2. CASE \E m : Sent(relay[Peer(v)], fate[Peer(v)], m, relay'[Peer(v)], fate'[Peer(v)])
    BY <1>1, <2>2, StillBusy
  <2> QED BY <2>1, <2>2
<1> QED BY <1>2 DEF AtWork

\* The fates of the envelopes of u are as many as these.
LEMMA FatesOf ==
  ASSUME KeyInv, TurnsInv, NEW u \in Users
  PROVE  /\ IsSequence(relay[u]) /\ IsSequence(fate[u]) /\ Len(fate[u]) = Len(relay[u])
         /\ \A i \in 1..Len(relay[u]) : fate[u][i] \in {"sent", "read"}
<1>1. IsSequence(relay[u]) /\ IsSequence(fate[u])
  BY DEF KeyInv, ClientInv, TurnsInv, FateShape
<1>2. \A R, F, r, x : ReadTo(R, F, r, x) =>
        Len(F) = Len(R) /\ \A i \in 1..Len(R) : F[i] \in {"sent", "read"}
  BY DEF ReadTo
<1>3. \A R, F, x, y : Level(R, F, y, x) \/ Ahead(R, F, y, x) =>
        Len(F) = Len(R) /\ \A i \in 1..Len(R) : F[i] \in {"sent", "read"}
  <2> TAKE R, F, x, y
  <2> SUFFICES ASSUME Level(R, F, y, x) \/ Ahead(R, F, y, x)
               PROVE  Len(F) = Len(R) /\ \A i \in 1..Len(R) : F[i] \in {"sent", "read"}
    OBVIOUS
  <2>1. \E r : ReadTo(R, F, r, x)
    <3>1. CASE Level(R, F, y, x)
      BY <3>1 DEF Level
    <3>2. CASE Ahead(R, F, y, x)
      BY <3>2 DEF Ahead
    <3> QED BY <3>1, <3>2
  <2> QED BY <1>2, <2>1
<1>4. \A R, F, x : Silent(R, F, x) =>
        Len(F) = Len(R) /\ \A i \in 1..Len(R) : F[i] \in {"sent", "read"}
  BY DEF Silent
<1>5. CASE Unmet
  BY <1>1, <1>5 DEF Unmet
<1>6. CASE \E w \in Users : Pair(w, Peer(w))
  <2>1. PICK w \in Users : Pair(w, Peer(w))
    BY <1>6
  <2>2. u = w \/ u = Peer(w)
    BY OtherIsPeer
  <2>3. CASE Greeted(w, Peer(w), stored[w])
    BY <1>1, <1>4, <2>2, <2>3 DEF Greeted
  <2>4. CASE Behind(w, Peer(w), stored[w], stored[Peer(w)])
    BY <1>1, <1>3, <2>2, <2>4 DEF Behind
  <2>5. CASE Abreast(w, Peer(w), stored[w], stored[Peer(w)])
    BY <1>1, <1>3, <1>4, <2>2, <2>5 DEF Abreast
  <2> QED BY <2>1, <2>3, <2>4, <2>5 DEF Pair
<1> QED BY <1>5, <1>6 DEF TurnsInv

LEMMA QuietTurn ==
  ASSUME KeyInv, TurnsInv, NEW u \in Users, UNCHANGED <<stored, relay, fate>>,
         Elsewhere(u), AtWork(u)'
  PROVE  TurnsInv'
<1>1. FateShape' /\ (Unmet \/ \E w \in Users : Pair(w, Peer(w)))'
  BY SamePair DEF TurnsInv, FateShape
<1>2. ASSUME NEW v \in Users PROVE AtWork(v)'
  <2>1. CASE v # u
    <3>1. /\ heap'[v] = heap[v] /\ cur'[v] = cur[v] /\ stored'[v] = stored[v] /\ op'[v] = op[v]
          /\ Peer(v) \in Users
      BY <2>1, PeerIsOther DEF Elsewhere
    <3>2. AtWork(v) /\ relay'[Peer(v)] = relay[Peer(v)] /\ fate'[Peer(v)] = fate[Peer(v)]
      BY DEF TurnsInv
    <3>3. IsSequence(relay[Peer(v)]) /\ IsSequence(fate[Peer(v)]) /\ Len(fate[Peer(v)]) = Len(relay[Peer(v)])
      BY <3>1, FatesOf
    <3> QED BY <3>1, <3>2, <3>3, OtherAtWork
  <2> QED BY <2>1
<1> QED BY <1>1, <1>2 DEF TurnsInv

LEMMA PutOne ==
  ASSUME heap = [v \in Users |-> heap[v]], NEW u \in Users, IsSequence(heap[u]), Len(heap[u]) <= 1,
         NEW x, Put(u, 1, x)
  PROVE  /\ heap' = [v \in Users |-> heap'[v]] /\ \A v \in Users \ {u} : heap'[v] = heap[v]
         /\ Len(heap'[u]) = 1 /\ heap'[u][1] = x
<1>1. Len(heap[u]) \in Nat
  BY DEF IsSequence
<1>2. /\ heap' = [v \in Users |-> heap'[v]] /\ \A v \in Users \ {u} : heap'[v] = heap[v]
      /\ IsSequence(heap'[u]) /\ heap'[u][1] = x
  BY <1>1, PutAt
<1>3. heap'[u] = IF 1 > Len(heap[u]) THEN Append(heap[u], x) ELSE [heap[u] EXCEPT ![1] = x]
  BY DEF Put
<1>4. CASE 1 > Len(heap[u])
  <2>1. Len(heap[u]) = 0 /\ heap'[u] = Append(heap[u], x)
    BY <1>1, <1>3, <1>4
  <2>2. Len(Append(heap[u], x)) = Len(heap[u]) + 1
    BY AppendedTo
  <2> QED BY <1>2, <2>1, <2>2
<1>5. CASE ~(1 > Len(heap[u]))
  <2>0. Len(heap[u]) = 1
    <3>1. PICK n : n = Len(heap[u])
      OBVIOUS
    <3>2. n \in Nat /\ n <= 1
      BY <1>1, <3>1
    <3>3. ~(1 > n)
      BY <1>5, <3>1
    <3>4. n = 1
      BY <3>2, <3>3
    <3> QED BY <3>1, <3>4
  <2>1. heap'[u] = [heap[u] EXCEPT ![1] = x]
    BY <1>3, <1>5
  <2>2. DOMAIN heap[u] = 1..1
    BY <2>0, SequenceOf
  <2>3. DOMAIN heap'[u] = 1..1
    BY <2>1, <2>2
  <2>4. DOMAIN heap'[u] = 1..Len(heap'[u]) /\ Len(heap'[u]) \in Nat
    BY <1>2, SequenceOf DEF IsSequence
  <2>5. Len(heap'[u]) = 1
    <3>1. 1..Len(heap'[u]) = 1..1
      BY <2>3, <2>4
    <3>2. 1 \in 1..Len(heap'[u])
      BY <3>1
    <3>3. PICK n : n = Len(heap'[u])
      OBVIOUS
    <3>4. n \in Nat /\ 1 \in 1..n /\ 1..n = 1..1
      BY <2>4, <3>1, <3>2, <3>3
    <3>5. n \in 1..n
      BY <3>4
    <3>6. n = 1
      BY <3>4, <3>5
    <3> QED BY <3>3, <3>6
  <2> QED BY <1>2, <2>5
<1> QED BY <1>4, <1>5

\* A step of u that puts its session and its call where they are.
LEMMA CallOf ==
  ASSUME KeyInv, Slots = 1, NEW u \in Users, NEW s \in 1..Slots, AtWork(u),
         NEW y, NEW o, Put(u, 1, y), Suspend(u, s, o),
         (cur' = cur /\ cur[u] # 0) \/ cur' = [cur EXCEPT ![u] = 1],
         \A v \in Users \ {u} : nextKey'[v] = nextKey[v] /\ stored'[v] = stored[v] /\ relay'[v] = relay[v],
         Busy(u, relay'[Peer(u)], fate'[Peer(u)], 1, o, stored'[u], y)
  PROVE  Elsewhere(u) /\ AtWork(u)'
<1>1. Shape /\ ClientInv(u) /\ cur[u] = Len(heap[u]) /\ Len(heap[u]) <= 1 /\ Len(heap[u]) \in Nat
  BY DEF KeyInv, ClientInv, IsSequence, AtWork
<1>2. /\ heap' = [v \in Users |-> heap'[v]] /\ \A v \in Users \ {u} : heap'[v] = heap[v]
      /\ Len(heap'[u]) = 1 /\ heap'[u][1] = y
  BY <1>1, PutOne DEF Shape, ClientInv
<1>3. op'[u][1] = o /\ \A v \in Users \ {u} : op'[v] = op[v]
  <2>1. DOMAIN op[u] = 1..Slots /\ DOMAIN op = Users
    BY <1>1 DEF Shape
  <2> QED BY <2>1 DEF Suspend
<1>4. cur'[u] = 1 /\ \A v \in Users \ {u} : cur'[v] = cur[v]
  <2>1. CASE cur' = cur /\ cur[u] # 0
    BY <1>1, <2>1
  <2>2. CASE cur' = [cur EXCEPT ![u] = 1]
    BY <1>1, <2>2 DEF Shape
  <2> QED BY <2>1, <2>2
<1>5. Elsewhere(u)
  BY <1>2, <1>3, <1>4 DEF Elsewhere
<1>6. heap'[u][cur'[u]] = y
  BY <1>2, <1>4
<1>7. AtWork(u)'
  BY <1>2, <1>3, <1>4, <1>6 DEF AtWork
<1> QED BY <1>5, <1>7

LEMMA CallTurns ==
  ASSUME KeyInv, TurnsInv, Slots = 1, NEW u \in Users, NEW s \in 1..Slots,
         NEW y, NEW o, Put(u, 1, y), Suspend(u, s, o),
         (cur' = cur /\ cur[u] # 0) \/ cur' = [cur EXCEPT ![u] = 1],
         \A v \in Users \ {u} : nextKey'[v] = nextKey[v], UNCHANGED <<stored, relay, fate>>,
         Busy(u, relay[Peer(u)], fate[Peer(u)], 1, o, stored[u], y)
  PROVE  TurnsInv'
<1>1. AtWork(u)
  BY DEF TurnsInv
<1>2. Busy(u, relay'[Peer(u)], fate'[Peer(u)], 1, o, stored'[u], y)
  OBVIOUS
<1>3. \A v \in Users \ {u} : nextKey'[v] = nextKey[v] /\ stored'[v] = stored[v] /\ relay'[v] = relay[v]
  OBVIOUS
<1>4. Elsewhere(u) /\ AtWork(u)'
  BY <1>1, <1>2, <1>3, CallOf
<1> QED BY <1>4, QuietTurn

LEMMA MeetingTurns ==
  ASSUME KeyInv, TurnsInv, Slots = 1, NEW u \in Users, NEW s \in 1..Slots,
         NEW o, Suspend(u, s, o), UNCHANGED <<heap, cur, stored, nextKey, relay, fate>>,
         cur[u] = 0, Meeting(u, relay[Peer(u)], fate[Peer(u)], 0, o, stored[u])
  PROVE  TurnsInv'
<1>1. Shape /\ AtWork(u)
  BY DEF KeyInv, TurnsInv
<1>2. op'[u][1] = o /\ \A v \in Users \ {u} : op'[v] = op[v]
  <2>1. DOMAIN op[u] = 1..Slots /\ DOMAIN op = Users
    BY <1>1 DEF Shape
  <2> QED BY <2>1 DEF Suspend
<1>3. Elsewhere(u)
  BY <1>2 DEF Elsewhere
<1>4. AtWork(u)'
  BY <1>1, <1>2 DEF AtWork, Busy
<1> QED BY <1>3, <1>4, QuietTurn

-----------------------------------------------------------------------------
(* Writing.                                                                 *)

LEMMA ChainsAreSome == \A c : IsChain(c) => c # None /\ c \in Chains
<1>1. \A c : IsChain(c) => c \in Chains
  BY DEF IsChain, Chains
<1> QED BY <1>1, NoneAssumption

LEMMA RestIsSome == \A x : AtRest(x) => x # None
BY NoneAssumption DEF AtRest

\* What is not a call is no step of one.
LEMMA NotCalling ==
  ASSUME KeyInv, NEW u \in Users, NEW i \in Nat, NEW o, o = None, NEW x, x # None => AtRest(x),
         NEW y, i # 0 => y.dhs \in Keys, Busy(u, relay[Peer(u)], fate[Peer(u)], i, o, x, y)
  PROVE  Idle(i, o, x, y)
<1>1. o \notin Calls
  BY NoneAssumption
<1>2. PICK R, F : R = relay[Peer(u)] /\ F = fate[Peer(u)]
  OBVIOUS
<1>3. \A n : FirstUnread(R, F, n) => n \in Nat /\ R[n].dh \in Keys
  <2>1. IsSequence(R) /\ Peer(u) \in Users
    BY <1>2, PeerIsOther DEF KeyInv, ClientInv
  <2>2. \A n \in 1..Len(R) : n \in DOMAIN R
    BY <2>1, SequenceOf
  <2>3. \A n \in DOMAIN R : R[n].dh \in Keys
    <3>1. \A n \in DOMAIN R : R[n].dh \in Known(Peer(u))
      BY <1>2 DEF Known
    <3> QED BY <2>1, <3>1, KeysAreKeys
  <2> QED BY <2>1, <2>2, <2>3 DEF FirstUnread, IsSequence
<1>4. ASSUME x # None, NEW k \in Keys
      PROVE  TurnedRoot(x, k) \in Seq(Secrets) /\ ReadRoot(x, k) \in Seq(Secrets)
  <2>1. x.rk \in Seq(Secrets) /\ x.dhr \in Keys /\ x.dhs \in Keys
    BY <1>4 DEF AtRest, Sessions
  <2>2. DH(x.dhr, k) \in Secrets /\ DH(k, x.dhs) \in Secrets
    BY <2>1 DEF DH, Secrets
  <2> QED BY <2>1, <2>2, RootGrows DEF TurnedRoot, ReadRoot
<1>5. ~Meeting(u, R, F, i, o, x)
  <2>1. o # [pc |-> "bundle"]
    BY <1>1 DEF Calls
  <2>2. FirstUnread(R, F, o.msg) => o # [pc |-> "bob", msg |-> o.msg]
    BY <1>1, <1>3 DEF Calls
  <2> QED BY <2>1, <2>2 DEF Meeting
<1>6. ~(x # None /\ Turning(i, o, x, y))
  <2> SUFFICES ASSUME x # None, Turning(i, o, x, y) PROVE FALSE
    OBVIOUS
  <2>1. PICK p, k, r : /\ p \in {1, 2} /\ k \in Keys /\ r = TurnedRoot(x, k)
                       /\ o = [pc |-> "ratchet", sid |-> i, place |-> p, dhs |-> k, root |-> r]
    BY DEF Turning
  <2>2. r \in Seq(Secrets)
    BY <1>4, <2>1
  <2> QED BY <1>1, <2>1, <2>2 DEF Calls
<1>7. ~(i # 0 /\ x # None /\ Sealing(i, o, x, y))
  <2> SUFFICES ASSUME i # 0, x # None, Sealing(i, o, x, y) PROVE FALSE
    OBVIOUS
  <2>1. PICK c : c = y.cks /\ o = [pc |-> "key", sid |-> i, chain |-> c]
    BY DEF Sealing
  <2>2. c \in Chains
    <3>1. CASE Writing(x) /\ y = x
      BY <2>1, <3>1, ChainsAreSome DEF Writing
    <3>2. CASE y = Turned(x, y.dhs)
      <4>1. PICK k : k = y.dhs /\ k \in Keys
        OBVIOUS
      <4>2. x \in Sessions
        BY DEF AtRest
      <4>3. Turned(x, k).cks = Chain(TurnedRoot(x, k))
        BY <4>2 DEF Turned, DhRatchetSend, Emptied, Sessions
      <4>4. Chain(TurnedRoot(x, k)) \in Chains
        BY <1>4, <4>1 DEF Chain, Chains
      <4> QED BY <2>1, <3>2, <4>1, <4>3, <4>4
    <3> QED BY <3>1, <3>2 DEF Sealing
  <2> QED BY <1>1, <2>1, <2>2 DEF Calls
<1>8. ~(FirstUnread(R, F, o.msg) /\ Stepping(u, R, i, o, x, y))
  <2> SUFFICES ASSUME FirstUnread(R, F, o.msg), Stepping(u, R, i, o, x, y) PROVE FALSE
    OBVIOUS
  <2>1. PICK n, r : /\ n = o.msg /\ r = ReadRoot(x, R[n].dh)
                    /\ o = [pc |-> "dh", sid |-> i, msg |-> n, root |-> r]
    BY DEF Stepping
  <2>2. n \in Nat /\ r \in Seq(Secrets)
    BY <1>3, <1>4, <2>1 DEF Stepping
  <2> QED BY <1>1, <2>1, <2>2 DEF Calls
<1>9. ~(FirstUnread(R, F, o.msg) /\ Unsealing(u, R, i, o, x, y))
  <2> SUFFICES ASSUME FirstUnread(R, F, o.msg), Unsealing(u, R, i, o, x, y) PROVE FALSE
    OBVIOUS
  <2>1. PICK n, c : /\ n = o.msg /\ c = y.ckr /\ IsChain(c)
                    /\ o = [pc |-> "chain", sid |-> i, msg |-> n, chain |-> c]
    BY DEF Unsealing
  <2>2. n \in Nat /\ c \in Chains
    BY <1>3, <2>1, ChainsAreSome
  <2> QED BY <1>1, <2>1, <2>2 DEF Calls
<1> QED BY <1>2, <1>5, <1>6, <1>7, <1>8, <1>9 DEF Busy

\* What is stored can write at once or after a DH step, and has a chain no longer than the relay.
LEMMA StoredKinds ==
  ASSUME KeyInv, TurnsInv, NEW u \in Users, stored[u] # None
  PROVE  /\ AtRest(stored[u]) /\ (Writing(stored[u]) \/ MustTurn(stored[u]))
         /\ stored[u].cks # None => stored[u].cks.step \in Nat /\ stored[u].cks.step <= Len(relay[u])
<1>0. Len(relay[u]) \in Nat
  BY FatesOf DEF IsSequence
<1>1. PICK w \in Users : Pair(w, Peer(w))
  BY DEF TurnsInv, Unmet
<1>2. PICK v, x, y : v = Peer(w) /\ x = stored[w] /\ y = stored[v]
  OBVIOUS
<1>3. /\ AtRest(x) /\ Writing(x)
      /\ \/ y = None /\ Greeted(w, v, x)
         \/ AtRest(y) /\ (Behind(w, v, x, y) \/ Abreast(w, v, x, y))
  BY <1>1, <1>2 DEF Pair
<1>4. x.cks.step = x.ns /\ x.ns \in Nat
  <2>1. x.cks = [root |-> x.rk, step |-> x.ns] /\ IsChain(x.cks)
    BY <1>3 DEF Writing
  <2> QED BY <2>1 DEF IsChain
<1>5. \A R, F, a, b : Level(R, F, a, b) => IsChain(a.cks) /\ a.cks.step = a.ns /\ a.ns <= Len(R)
  BY DEF Level
<1>6. ASSUME NEW R, NEW F, NEW a, NEW b, Ahead(R, F, a, b), Len(R) \in Nat
      PROVE  a.ns <= Len(R)
  <2>1. PICK r \in 0..Len(R) : r + a.ns <= Len(R) /\ a.ns \in Nat
    BY <1>6 DEF Ahead
  <2> QED BY <1>6, <2>1
<1>7. CASE u = w
  <2>1. x.ns <= Len(relay[u])
    <3>1. CASE Greeted(w, v, x)
      BY <1>0, <1>7, <3>1 DEF Greeted
    <3>2. CASE Behind(w, v, x, y)
      BY <1>0, <1>6, <1>7, <3>2 DEF Behind
    <3>3. CASE Abreast(w, v, x, y)
      BY <1>5, <1>7, <3>3 DEF Abreast
    <3> QED BY <1>3, <3>1, <3>2, <3>3
  <2> QED BY <1>2, <1>3, <1>4, <1>7, <2>1
<1>8. CASE u # w
  <2>1. u = v
    BY <1>2, <1>8, OtherIsPeer
  <2>2. AtRest(y) /\ y = stored[u] /\ (Behind(w, v, x, y) \/ Abreast(w, v, x, y))
    BY <1>2, <1>3, <2>1
  <2>3. CASE Behind(w, v, x, y)
    <3>1. Writing(y) /\ Level(relay[v], fate[v], y, x)
      BY <2>3 DEF Behind
    <3> QED BY <1>5, <2>1, <2>2, <3>1 DEF IsChain
  <2>4. CASE Abreast(w, v, x, y)
    <3>1. MustTurn(y) /\ (y.cks # None => Level(relay[v], fate[v], y, x))
      BY <2>4 DEF Abreast
    <3> QED BY <1>5, <2>1, <2>2, <3>1 DEF IsChain
  <2> QED BY <2>2, <2>3, <2>4
<1> QED BY <1>7, <1>8

\* A client without a session has read nothing, and only the first speaker may be alone with one.
LEMMA NotMet ==
  ASSUME KeyInv, TurnsInv, NEW u \in Users, stored[u] = None
  PROVE  /\ \A i \in DOMAIN fate[Peer(u)] : fate[Peer(u)][i] = "sent"
         /\ Unmet \/ (Pair(Peer(u), u) /\ Greeted(Peer(u), u, stored[Peer(u)]))
<1>0. Peer(u) \in Users /\ IsSequence(fate[Peer(u)])
  BY PeerIsOther, FatesOf
<1>1. CASE Unmet
  <2>1. fate[Peer(u)] = <<>>
    BY <1>0, <1>1 DEF Unmet
  <2> QED BY <1>1, <2>1
<1>2. CASE \E w \in Users : Pair(w, Peer(w))
  <2>1. PICK w \in Users : Pair(w, Peer(w))
    BY <1>2
  <2>2. stored[w] # None
    BY <2>1, RestIsSome DEF Pair
  <2>3. w = Peer(u) /\ u = Peer(w)
    BY <2>2, OtherIsPeer
  <2>4. Pair(w, u) /\ Greeted(w, u, stored[w])
    BY <2>1, <2>3, RestIsSome DEF Pair
  <2>5. DOMAIN fate[w] = 1..Len(fate[w])
    BY <1>0, <2>3, SequenceOf
  <2>6. \A i \in DOMAIN fate[w] : fate[w][i] = "sent"
    BY <2>4, <2>5 DEF Greeted
  <2> QED BY <2>3, <2>4, <2>6
<1> QED BY <1>1, <1>2 DEF TurnsInv

LEMMA RestingCall ==
  ASSUME KeyInv, TurnsInv, NEW u \in Users, NEW o, o = op[u][1], o = None
  PROVE  Idle(cur[u], o, stored[u], heap[u][cur[u]])
<1>1. ClientInv(u) /\ Busy(u, relay[Peer(u)], fate[Peer(u)], cur[u], o, stored[u], heap[u][cur[u]])
  BY DEF KeyInv, TurnsInv, AtWork
<1>2. PICK i, x, y : i = cur[u] /\ x = stored[u] /\ y = heap[u][cur[u]]
  OBVIOUS
<1>3. i \in Nat /\ (i # 0 => SessionInv(u, y))
  BY <1>1, <1>2 DEF ClientInv
<1>4. i # 0 => y.dhs \in Keys
  BY <1>3, KeysAreKeys DEF SessionInv
<1>5. x # None => AtRest(x)
  BY <1>2, StoredKinds
<1>6. Busy(u, relay[Peer(u)], fate[Peer(u)], i, o, x, y)
  BY <1>1, <1>2
<1>7. Idle(i, o, x, y)
  BY <1>3, <1>4, <1>5, <1>6, NotCalling
<1> QED BY <1>2, <1>7

LEMMA EncryptTurns ==
  ASSUME NEW u \in Users, NEW s, NEW i, NEW x, NEW from \in 1..4, Encrypt(u, s, i, x, from),
         ~RatchetDue(x, 3), x.dhs \in Keys, nextKey[u] \in Nat
  PROVE  \/ /\ \A p \in from..2 : ~RatchetDue(x, p)
            /\ Suspend(u, s, [pc |-> "key", sid |-> i, chain |-> x.cks]) /\ Put(u, i, x)
            /\ UNCHANGED nextKey
         \/ \E p \in from..2, dhs \in Keys :
               /\ RatchetDue(x, p)
               /\ Suspend(u, s, [pc |-> "ratchet", sid |-> i, place |-> p, dhs |-> dhs,
                                 root |-> TurnedRoot(x, dhs)])
               /\ Put(u, i, Emptied(x))
               /\ nextKey' = [nextKey EXCEPT ![u] = IF x.fresh THEN @ ELSE @ + 1]
<1> DEFINE due == {p \in from..3 : RatchetDue(x, p)}
           place == Min(due \cup {4})
<1>1. place \in due \cup {4} /\ (place = 4 => due = {})
  <2>1. due \subseteq from..3
    OBVIOUS
  <2> HIDE DEF due
  <2> QED BY <2>1, LeastPlace
<1>2. CASE place = 4
  <2>1. Suspend(u, s, [pc |-> "key", sid |-> i, chain |-> x.cks]) /\ Put(u, i, x) /\ nextKey' = nextKey
    BY <1>2 DEF Encrypt
  <2>2. \A p \in from..2 : ~RatchetDue(x, p)
    <3>1. \A p \in from..2 : p \in from..3
      OBVIOUS
    <3> QED BY <1>1, <1>2, <3>1
  <2> QED BY <2>1, <2>2
<1>3. CASE place # 4
  <2>1. PICK d \in Keys : d = IF x.fresh THEN x.dhs ELSE <<u, nextKey[u]>>
    <3>1. <<u, nextKey[u]>> \in Keys
      BY DEF Keys
    <3> QED BY <3>1
  <2>2. /\ Suspend(u, s, [pc |-> "ratchet", sid |-> i, place |-> place, dhs |-> d,
                          root |-> TurnedRoot(x, d)])
        /\ Put(u, i, Emptied(x))
        /\ nextKey' = [nextKey EXCEPT ![u] = IF x.fresh THEN @ ELSE @ + 1]
    BY <1>3, <2>1 DEF Encrypt, TurnedRoot, Emptied
  <2>3. PICK p : p = place
    OBVIOUS
  <2>4. p \in from..3 /\ RatchetDue(x, p)
    BY <1>1, <1>3, <2>3
  <2>5. p \in from..2
    BY <2>4
  <2> HIDE DEF place, due
  <2> QED BY <2>2, <2>3, <2>4, <2>5
<1> QED BY <1>2, <1>3

LEMMA SameCount == \A S : Turns!Cardinality(S) = Cardinality(S)
BY DEF Turns!Cardinality, Cardinality, Turns!IsFiniteSet, IsFiniteSet

LEMMA SendStartTurns ==
  ASSUME KeyInv, TurnsInv, Slots = 1, NEW u \in Users, NEW s \in 1..Slots, TurnsSent[u] <= Rotation,
         Turns!SendStart(u, s)
  PROVE  TurnsInv'
<1>1. /\ UNCHANGED <<cur, stored, relay, fate>> /\ op[u][s] = None /\ s = 1
      /\ cur[u] = 0 => Suspend(u, s, [pc |-> "bundle"]) /\ UNCHANGED <<heap, nextKey>>
      /\ cur[u] # 0 => Encrypt(u, s, cur[u], heap[u][cur[u]], 1)
  <2>1. /\ UNCHANGED <<cur, stored, relay, fate>> /\ op[u][s] = None
        /\ cur[u] = 0 => Turns!Suspend(u, s, [pc |-> "bundle"]) /\ UNCHANGED <<heap, nextKey>>
        /\ cur[u] # 0 => Turns!Encrypt(u, s, cur[u], heap[u][cur[u]], 1)
    BY DEF Turns!SendStart
  <2> QED BY <2>1, SameHelpers, SameEncrypt
<1>2. /\ u \in FirstSpeakers \/ \E i \in DOMAIN fate[Peer(u)] : fate[Peer(u)][i] # "sent"
      /\ Len(relay[u]) < TurnsSent[u]
  <2>1. Turns!Peer(u) = Peer(u)
    BY DEF Turns!Peer, Peer
  <2>2. /\ u \in FirstSpeakers \/ \E i \in DOMAIN fate[Peer(u)] : fate[Peer(u)][i] # "sent"
        /\ Len(relay[u]) + Cardinality({t \in 1..Slots : op[u][t] # None}) < TurnsSent[u]
    <3>1. Turns!MaySpeak(u)
      BY DEF Turns!SendStart
    <3>2. /\ u \in FirstSpeakers \/ \E i \in DOMAIN fate[Peer(u)] : fate[Peer(u)][i] \in {"read", "lost"}
          /\ Len(relay[u]) + Cardinality({t \in 1..Slots : op[u][t] # None}) < TurnsSent[u]
      BY <2>1, <3>1, SameCount DEF Turns!MaySpeak
    <3>3. \A c : c \in {"read", "lost"} => c # "sent"
      OBVIOUS
    <3> QED BY <3>2, <3>3
  <2>3. {t \in 1..Slots : op[u][t] # None} = {}
    BY <1>1
  <2>4. Len(relay[u]) \in Nat
    BY FatesOf DEF IsSequence
  <2> QED BY <2>2, <2>3, <2>4, FS_EmptySet
<1>3. Shape /\ cur[u] = Len(heap[u]) /\ Len(heap[u]) <= 1 /\ Len(heap[u]) \in Nat
  BY DEF KeyInv, TurnsInv, AtWork, ClientInv, IsSequence
<1>4. /\ cur[u] = 0 => stored[u] = None
      /\ cur[u] # 0 => stored[u] # None /\ heap[u][cur[u]] = stored[u]
  <2>1. PICK o : o = op[u][1] /\ o = None
    BY <1>1
  <2>2. Idle(cur[u], o, stored[u], heap[u][cur[u]])
    BY <2>1, RestingCall
  <2> QED BY <2>2 DEF Idle
<1>5. CASE cur[u] = 0
  <2>1. stored[u] = None
    BY <1>4, <1>5
  <2>2. u \in FirstSpeakers
    BY <1>2, <2>1, NotMet
  <2>3. PICK o : o = [pc |-> "bundle"]
    OBVIOUS
  <2>4. Meeting(u, relay[Peer(u)], fate[Peer(u)], 0, o, stored[u])
    BY <2>1, <2>2, <2>3 DEF Meeting
  <2> QED BY <1>1, <1>5, <2>3, <2>4, MeetingTurns
<1>6. CASE cur[u] # 0
  <2>1. cur[u] = 1
    <3>1. PICK n : n = Len(heap[u])
      OBVIOUS
    <3>2. n \in Nat /\ n <= 1 /\ n # 0
      BY <1>3, <1>6, <3>1
    <3>3. n = 1
      BY <3>2
    <3> QED BY <1>3, <3>1, <3>3
  <2>2. PICK x : x = stored[u]
    OBVIOUS
  <2>3. x # None /\ heap[u][1] = x
    BY <1>4, <1>6, <2>1, <2>2
  <2>4. /\ AtRest(x) /\ (Writing(x) \/ MustTurn(x))
        /\ x.cks # None => x.cks.step \in Nat /\ x.cks.step <= Len(relay[u])
    BY <2>2, <2>3, StoredKinds
  <2>5. ~RatchetDue(x, 3)
    <3>1. TurnsSent[u] \in Nat /\ Rotation \in Nat /\ Len(relay[u]) \in Nat
      BY FatesOf, TurnsAssumption, BoundsAssumption DEF IsSequence
    <3> QED BY <1>2, <2>4, <3>1 DEF RatchetDue
  <2>6. Encrypt(u, s, 1, x, 1) /\ 1 \in 1..4
    BY <1>1, <2>1, <2>3
  <2>9. x.dhs \in Keys /\ nextKey[u] \in Nat
    BY <2>4 DEF AtRest, Sessions, KeyInv, ClientInv
  <2>7. CASE /\ \A p \in 1..2 : ~RatchetDue(x, p)
             /\ Suspend(u, s, [pc |-> "key", sid |-> 1, chain |-> x.cks]) /\ Put(u, 1, x)
             /\ UNCHANGED nextKey
    <3>1. PICK o : o = [pc |-> "key", sid |-> 1, chain |-> x.cks]
      OBVIOUS
    <3>2. ~MustTurn(x)
      <4>1. ~RatchetDue(x, 1) /\ ~RatchetDue(x, 2)
        BY <2>7
      <4> QED BY <4>1 DEF RatchetDue, MustTurn
    <3>3. Sealing(1, o, x, x)
      BY <2>4, <3>1, <3>2 DEF Sealing
    <3>4. Busy(u, relay[Peer(u)], fate[Peer(u)], 1, o, x, x)
      BY <2>3, <3>3 DEF Busy
    <3> QED BY <1>1, <1>6, <2>2, <2>7, <3>1, <3>4, CallTurns
  <2>8. CASE \E p \in 1..2, dhs \in Keys :
               /\ RatchetDue(x, p)
               /\ Suspend(u, s, [pc |-> "ratchet", sid |-> 1, place |-> p, dhs |-> dhs,
                                 root |-> TurnedRoot(x, dhs)])
               /\ Put(u, 1, Emptied(x))
               /\ nextKey' = [nextKey EXCEPT ![u] = IF x.fresh THEN @ ELSE @ + 1]
    <3>1. PICK p \in 1..2, dhs \in Keys :
               /\ RatchetDue(x, p)
               /\ Suspend(u, s, [pc |-> "ratchet", sid |-> 1, place |-> p, dhs |-> dhs,
                                 root |-> TurnedRoot(x, dhs)])
               /\ Put(u, 1, Emptied(x))
               /\ nextKey' = [nextKey EXCEPT ![u] = IF x.fresh THEN @ ELSE @ + 1]
      BY <2>8
    <3>2. PICK o : o = [pc |-> "ratchet", sid |-> 1, place |-> p, dhs |-> dhs,
                        root |-> TurnedRoot(x, dhs)]
      OBVIOUS
    <3>3. MustTurn(x)
      <4>1. ~Writing(x)
        BY <3>1, ChainsAreSome DEF RatchetDue, Writing
      <4> QED BY <2>4, <4>1
    <3>4. Turning(1, o, x, Emptied(x))
      BY <3>2, <3>3 DEF Turning
    <3>5. PICK y : y = Emptied(x)
      OBVIOUS
    <3>6. Busy(u, relay[Peer(u)], fate[Peer(u)], 1, o, x, y)
      BY <2>3, <3>4, <3>5 DEF Busy
    <3>7. \A v \in Users \ {u} : nextKey'[v] = nextKey[v]
      BY <1>3, <3>1 DEF Shape
    <3> QED BY <1>1, <1>6, <2>2, <3>1, <3>2, <3>5, <3>6, <3>7, CallTurns
  <2> QED BY <2>5, <2>6, <2>7, <2>8, <2>9, EncryptTurns
<1> QED BY <1>5, <1>6

-----------------------------------------------------------------------------
(* What a call is at, and what its end changes.                             *)

LEMMA WhichCall ==
  ASSUME NEW u, NEW R, NEW F, NEW i, NEW o, o # None, NEW x, NEW y, Busy(u, R, F, i, o, x, y)
  PROVE  /\ o.pc = "bundle" => i = 0 /\ x = None /\ u \in FirstSpeakers
         /\ o.pc = "bob" => i = 0 /\ x = None /\ FirstUnread(R, F, o.msg)
         /\ o.pc = "ratchet" => i # 0 /\ x # None /\ Turning(i, o, x, y)
         /\ o.pc = "key" => i # 0 /\ x # None /\ Sealing(i, o, x, y)
         /\ o.pc = "dh" => i # 0 /\ FirstUnread(R, F, o.msg) /\ Stepping(u, R, i, o, x, y)
         /\ o.pc = "chain" => i # 0 /\ FirstUnread(R, F, o.msg) /\ Unsealing(u, R, i, o, x, y)
<1>1. Meeting(u, R, F, i, o, x) =>
        \/ o.pc = "bundle" /\ i = 0 /\ x = None /\ u \in FirstSpeakers
        \/ o.pc = "bob" /\ i = 0 /\ x = None /\ FirstUnread(R, F, o.msg)
  BY DEF Meeting
<1>2. Turning(i, o, x, y) => o.pc = "ratchet"
  BY DEF Turning
<1>3. Sealing(i, o, x, y) => o.pc = "key"
  BY DEF Sealing
<1>4. Stepping(u, R, i, o, x, y) => o.pc = "dh"
  BY DEF Stepping
<1>5. Unsealing(u, R, i, o, x, y) => o.pc = "chain"
  BY DEF Unsealing
<1> QED BY <1>1, <1>2, <1>3, <1>4, <1>5 DEF Busy, Idle

\* The call of u, and the session it works on.
LEMMA CallAt ==
  ASSUME KeyInv, TurnsInv, Slots = 1, NEW u \in Users, NEW s \in 1..Slots, NEW o, o = op[u][s], o # None
  PROVE  /\ CallInv(u, o) /\ Busy(u, relay[Peer(u)], fate[Peer(u)], cur[u], o, stored[u], heap[u][cur[u]])
         /\ cur[u] = Len(heap[u]) /\ cur[u] \in {0, 1} /\ (cur[u] # 0 => SessionInv(u, heap[u][cur[u]]))
<1>1. ClientInv(u) /\ AtWork(u) /\ s = 1
  BY DEF KeyInv, TurnsInv
<1>2. cur[u] \in {0, 1}
  <2>1. PICK n : n = Len(heap[u])
    OBVIOUS
  <2>2. n \in Nat /\ n <= 1
    BY <1>1, <2>1 DEF ClientInv, AtWork, IsSequence
  <2>3. n \in {0, 1}
    BY <2>2
  <2> QED BY <1>1, <2>1, <2>3 DEF AtWork
<1> QED BY <1>1, <1>2 DEF ClientInv, AtWork

\* To its peer a session is what it reads with.
ReadsAlike(x, z) == z.dhr = x.dhr /\ z.ckr = x.ckr /\ z.seen = x.seen

LEMMA SameReader ==
  ASSUME NEW R, NEW F, NEW y, NEW x, NEW z, ReadsAlike(x, z)
  PROVE  /\ Level(R, F, y, x) => Level(R, F, y, z)
         /\ Ahead(R, F, y, x) => Ahead(R, F, y, z)
         /\ Silent(R, F, x) => Silent(R, F, z)
<1>1. \A r : ReadTo(R, F, r, x) => ReadTo(R, F, r, z)
  BY DEF ReadTo, ReadsAlike
<1> QED BY <1>1 DEF Level, Ahead, Silent, ReadsAlike

LEMMA TurnOf ==
  ASSUME KeyInv, TurnsInv, NEW u \in Users, Elsewhere(u), AtWork(u)', FateShape',
         NEW w \in Users, Pair(w, Peer(w))',
         \/ relay'[u] = relay[u] /\ fate'[u] = fate[u]
         \/ \E m : Sent(relay[u], fate[u], m, relay'[u], fate'[u])
  PROVE  TurnsInv'
<1>1. ASSUME NEW v \in Users PROVE AtWork(v)'
  <2>1. CASE v # u
    <3>1. /\ heap'[v] = heap[v] /\ cur'[v] = cur[v] /\ stored'[v] = stored[v] /\ op'[v] = op[v]
          /\ Peer(v) = u
      BY <2>1, OtherIsPeer DEF Elsewhere
    <3>2. AtWork(v)
      BY DEF TurnsInv
    <3>3. IsSequence(relay[Peer(v)]) /\ IsSequence(fate[Peer(v)]) /\ Len(fate[Peer(v)]) = Len(relay[Peer(v)])
      BY <3>1, FatesOf
    <3> QED BY <3>1, <3>2, <3>3, OtherAtWork
  <2> QED BY <2>1
<1> QED BY <1>1 DEF TurnsInv

LEMMA SendRatchetTurns ==
  ASSUME KeyInv, TurnsInv, Slots = 1, NEW u \in Users, NEW s \in 1..Slots, SendRatchet(u, s)
  PROVE  TurnsInv'
<1>1. PICK o, x, h : o = op[u][s] /\ x = stored[u] /\ h = heap[u][cur[u]]
  OBVIOUS
<1>2. /\ o # None /\ o.pc = "ratchet" /\ UNCHANGED <<cur, stored, relay, fate>>
      /\ Encrypt(u, s, o.sid, DhRatchetSend(heap[u][o.sid], o), o.place + 1)
  BY <1>1 DEF SendRatchet
<1>3. cur[u] # 0 /\ x # None /\ Turning(cur[u], o, x, h)
  BY <1>1, <1>2, CallAt, WhichCall
<1>4. cur[u] = 1 /\ o.sid = 1
  BY <1>1, <1>2, <1>3, CallAt DEF Turning
<1>5. PICK k, z : k = o.dhs /\ z = Turned(x, k)
  OBVIOUS
<1>6. MustTurn(x) /\ h = Emptied(x) /\ o.place \in {1, 2} /\ k \in Keys /\ o.root = TurnedRoot(x, k)
  BY <1>3, <1>5 DEF Turning
<1>7. x \in Sessions
  BY <1>1, <1>3, StoredKinds DEF AtRest
<1>8. z = DhRatchetSend(h, o)
  BY <1>5, <1>6 DEF Turned, DhRatchetSend
<1>9. z.dhs = k /\ z.pending = FALSE /\ z.cks = [root |-> TurnedRoot(x, k), step |-> 0]
  BY <1>5, <1>7 DEF Turned, DhRatchetSend, Emptied, Sessions, Chain
<1>10. z.cks # None
  <2>1. x.rk \in Seq(Secrets) /\ DH(x.dhr, k) \in Secrets
    BY <1>6, <1>7 DEF Sessions, DH, Secrets
  <2>2. z.cks \in Chains
    BY <1>9, <2>1, RootGrows DEF TurnedRoot, Chains
  <2> QED BY <2>2, NoneAssumption
<1>11. ~RatchetDue(z, 2) /\ ~RatchetDue(z, 3)
  BY <1>9, <1>10, BoundsAssumption DEF RatchetDue
<1>12. PICK from : from = o.place + 1 /\ from \in {2, 3}
  BY <1>6
<1>13. Encrypt(u, s, 1, z, from) /\ from \in 1..4 /\ z.dhs \in Keys /\ nextKey[u] \in Nat
  BY <1>1, <1>2, <1>4, <1>6, <1>8, <1>9, <1>12 DEF KeyInv, ClientInv
<1>14. Suspend(u, s, [pc |-> "key", sid |-> 1, chain |-> z.cks]) /\ Put(u, 1, z) /\ UNCHANGED nextKey
  <2>1. \A p \in from..2 : ~RatchetDue(z, p)
    BY <1>11, <1>12
  <2> QED BY <1>11, <1>13, <2>1, EncryptTurns
<1>15. PICK c : c = [pc |-> "key", sid |-> 1, chain |-> z.cks]
  OBVIOUS
<1>16. Sealing(1, c, x, z)
  BY <1>5, <1>6, <1>9, <1>15 DEF Sealing
<1>17. Busy(u, relay[Peer(u)], fate[Peer(u)], 1, c, x, z)
  BY <1>3, <1>16 DEF Busy
<1> QED BY <1>1, <1>2, <1>4, <1>14, <1>15, <1>17, CallTurns

LEMMA BundleTurns ==
  ASSUME KeyInv, TurnsInv, Slots = 1, ~BundleMayFail, NEW f, FirstSpeakers \subseteq {f},
         NEW u \in Users, NEW s \in 1..Slots, BundleAnswer(u, s)
  PROVE  TurnsInv'
<1>1. PICK o, v : o = op[u][s] /\ v = Peer(u)
  OBVIOUS
<1>2. o # None /\ o.pc = "bundle" /\ UNCHANGED <<relay, fate>> /\ nextKey' = [nextKey EXCEPT ![u] = @ + 1]
  BY <1>1 DEF BundleAnswer
<1>3. cur[u] = 0 /\ stored[u] = None /\ u \in FirstSpeakers /\ Len(heap[u]) = 0
  BY <1>1, <1>2, CallAt, WhichCall
<1>4. v \in Users /\ v # u
  BY <1>1, PeerIsOther
<1>5. Unmet
  <2>1. v \notin FirstSpeakers
    BY <1>3, <1>4
  <2> QED BY <1>1, <1>3, <2>1, NotMet DEF Greeted
<1>6. PICK e, r, x, c :
        /\ e = <<u, nextKey[u]>> /\ r = X3DH(IdentityKey(u), e, IdentityKey(v), SignedPrekey(v))
        /\ x = InitializeAsAlice(u, e, SignedPrekey(v))
        /\ c = [pc |-> "key", sid |-> 1, chain |-> x.cks]
        /\ Put(u, 1, x) /\ Suspend(u, s, c)
        /\ cur' = [cur EXCEPT ![u] = 1] /\ stored' = [stored EXCEPT ![u] = x]
  <2>1. Len(heap[u]) + 1 = 1
    BY <1>3
  <2> QED BY <1>1, <2>1 DEF BundleAnswer
<1>7. x = [dhs |-> e, wiped |-> FALSE, dhr |-> SignedPrekey(v), rk |-> r,
           cks |-> [root |-> r, step |-> 0], ckr |-> None, ns |-> 0, pn |-> 0,
           skipped |-> <<>>, seen |-> {}, pending |-> FALSE, fresh |-> FALSE]
  BY <1>1, <1>6 DEF InitializeAsAlice, NewSession, Chain
<1>8. e \in Keys /\ SignedPrekey(v) \in Keys /\ r \in Seq(Secrets)
  <2>1. nextKey[u] \in Nat
    BY DEF KeyInv, ClientInv
  <2>2. PICK a, b, d : a = IdentityKey(u) /\ b = IdentityKey(v) /\ d = SignedPrekey(v)
    OBVIOUS
  <2>3. a \in Keys /\ b \in Keys /\ d \in Keys /\ e \in Keys
    BY <1>4, <1>6, <2>1, <2>2 DEF IdentityKey, SignedPrekey, Keys
  <2>4. r = X3DH(a, e, b, d)
    BY <1>6, <2>2
  <2>5. r \in Seq(Secrets)
    BY <2>3, <2>4, HandshakeRoot
  <2> QED BY <2>2, <2>3, <2>5
<1>9. IsChain([root |-> r, step |-> 0]) /\ [root |-> r, step |-> 0] \in Chains
  BY <1>8 DEF IsChain, Chains
<1>10. x \in Sessions
  BY <1>7, <1>8, <1>9 DEF Sessions
<1>11. AtRest(x) /\ Writing(x)
  BY <1>7, <1>9, <1>10 DEF AtRest, Writing
<1>12. Shape
  BY DEF KeyInv
<1>13. /\ stored'[u] = x /\ stored'[v] = None
       /\ \A w \in Users \ {u} : stored'[w] = stored[w] /\ nextKey'[w] = nextKey[w] /\ relay'[w] = relay[w]
  BY <1>2, <1>4, <1>5, <1>6, <1>12 DEF Shape, Unmet
<1>14. relay'[u] = <<>> /\ fate'[u] = <<>> /\ relay'[v] = <<>> /\ fate'[v] = <<>>
  BY <1>2, <1>4, <1>5 DEF Unmet
<1>15. Pair(u, Peer(u))'
  <2>1. Greeted(u, v, x)'
    <3>1. Silent(relay'[v], fate'[v], x)
      BY <1>7, <1>14 DEF Silent
    <3>2. x.ns = 0 /\ x.dhr = SignedPrekey(v) /\ x.rk = r /\ x.dhs = e
      BY <1>7
    <3>3. Len(relay'[u]) = 0 /\ Len(fate'[u]) = 0
      BY <1>14
    <3> QED BY <1>3, <1>6, <3>1, <3>2, <3>3 DEF Greeted
  <2> QED BY <1>1, <1>11, <1>13, <2>1 DEF Pair
<1>16. Sealing(1, c, x, x)
  BY <1>6, <1>11 DEF Sealing
<1>17. Busy(u, relay'[Peer(u)], fate'[Peer(u)], 1, c, stored'[u], x)
  BY <1>11, <1>13, <1>16, RestIsSome DEF Busy
<1>18. Elsewhere(u) /\ AtWork(u)'
  <2>1. AtWork(u)
    BY DEF TurnsInv
  <2>2. (cur' = cur /\ cur[u] # 0) \/ cur' = [cur EXCEPT ![u] = 1]
    BY <1>6
  <2> QED BY <1>6, <1>13, <1>17, <2>1, <2>2, CallOf
<1>19. FateShape'
  BY <1>2 DEF TurnsInv, FateShape
<1> QED BY <1>2, <1>15, <1>18, <1>19, TurnOf

\* The session after an envelope: a number further along its chain, and the same to its peer.
WroteOn(h, y) ==
    /\ y.cks = [root |-> h.cks.root, step |-> h.ns + 1] /\ y.ns = h.ns + 1
    /\ y.dhs = h.dhs /\ y.rk = h.rk /\ ReadsAlike(h, y)

LEMMA LeaderWrites ==
  ASSUME NEW u \in Users, NEW v, v = Peer(u), NEW x, Writing(x), stored[u] = x,
         NEW y, WroteOn(x, y), AtRest(y), Writing(y), NEW m, Numbered(m, x.dhs, x.rk, x.ns),
         IsSequence(relay[u]), IsSequence(fate[u]), v # u,
         Sent(relay[u], fate[u], m, relay'[u], fate'[u]),
         relay'[v] = relay[v], fate'[v] = fate[v], stored'[v] = stored[v], stored'[u] = y,
         Pair(u, v)
  PROVE  Pair(u, v)'
<1>1. PICK z : z = stored[v]
  OBVIOUS
<1>2. /\ y.cks = [root |-> x.cks.root, step |-> x.ns + 1] /\ y.ns = x.ns + 1
      /\ y.dhs = x.dhs /\ y.rk = x.rk /\ ReadsAlike(x, y) /\ y.dhr = x.dhr
  BY DEF WroteOn, ReadsAlike
<1>3. x.cks.root = x.rk
  BY DEF Writing
<1>4. CASE z = None /\ Greeted(u, v, x)
  <2>1. /\ u \in FirstSpeakers /\ x.ns = Len(relay[u]) /\ Len(fate[u]) = Len(relay[u])
        /\ \A i \in 1..Len(relay[u]) :
             fate[u][i] = "sent" /\ Numbered(relay[u][i], x.dhs, x.rk, i - 1)
        /\ x.dhr = SignedPrekey(v) /\ x.rk = X3DH(IdentityKey(u), x.dhs, IdentityKey(v), SignedPrekey(v))
        /\ Silent(relay[v], fate[v], x)
    BY <1>4 DEF Greeted
  <2>2. Len(relay[u]) \in Nat
    BY DEF IsSequence
  <2>3. /\ Len(relay'[u]) = Len(relay[u]) + 1 /\ Len(fate'[u]) = Len(fate[u]) + 1
        /\ relay'[u][Len(relay[u]) + 1] = m /\ fate'[u][Len(fate[u]) + 1] = "sent"
        /\ \A i \in 1..Len(relay[u]) : relay'[u][i] = relay[u][i]
        /\ \A i \in 1..Len(fate[u]) : fate'[u][i] = fate[u][i]
    BY AppendedTo DEF Sent
  <2>4. \A i \in 1..Len(relay'[u]) :
          fate'[u][i] = "sent" /\ Numbered(relay'[u][i], y.dhs, y.rk, i - 1)
    <3> TAKE i \in 1..Len(relay'[u])
    <3>1. CASE i \in 1..Len(relay[u])
      BY <1>2, <2>1, <2>3, <3>1
    <3>2. CASE i = Len(relay[u]) + 1
      <4>1. i - 1 = x.ns
        BY <2>1, <2>2, <3>2
      <4> QED BY <1>2, <2>1, <2>3, <3>2, <4>1
    <3> QED BY <2>2, <2>3, <3>1, <3>2
  <2>5. Silent(relay'[v], fate'[v], y)
    BY <1>2, <2>1, SameReader
  <2>6. Greeted(u, v, y)'
    BY <1>2, <2>1, <2>3, <2>4, <2>5 DEF Greeted
  <2> QED BY <1>1, <1>4, <2>6 DEF Pair
<1>5. CASE AtRest(z) /\ Behind(u, v, x, z)
  <2>1. Ahead(relay[u], fate[u], x, z) /\ Level(relay[v], fate[v], z, x)
    BY <1>5 DEF Behind
  <2>2. Ahead(relay'[u], fate'[u], y, z)
    BY <1>2, <2>1, AheadSends
  <2>3. Level(relay'[v], fate'[v], z, y)
    BY <1>2, <2>1, SameReader
  <2>4. Behind(u, v, y, z)'
    BY <1>2, <1>5, <2>2, <2>3 DEF Behind
  <2> QED BY <1>1, <1>5, <2>4 DEF Pair
<1>6. CASE AtRest(z) /\ Abreast(u, v, x, z)
  <2>1. /\ Level(relay[u], fate[u], x, z) /\ MustTurn(z) /\ x.dhs = z.dhr /\ x.rk = z.rk
        /\ IF z.cks = None THEN Silent(relay[v], fate[v], x) ELSE Level(relay[v], fate[v], z, x)
    BY <1>6 DEF Abreast
  <2>2. Level(relay'[u], fate'[u], y, z)
    BY <1>2, <1>3, <2>1, LevelSends
  <2>3. IF z.cks = None THEN Silent(relay'[v], fate'[v], y) ELSE Level(relay'[v], fate'[v], z, y)
    BY <1>2, <2>1, SameReader
  <2>4. Abreast(u, v, y, z)'
    BY <1>2, <2>1, <2>2, <2>3 DEF Abreast
  <2> QED BY <1>1, <1>6, <2>4 DEF Pair
<1>7. (z = None /\ Greeted(u, v, x)) \/ (AtRest(z) /\ (Behind(u, v, x, z) \/ Abreast(u, v, x, z)))
  BY <1>1 DEF Pair
<1> QED BY <1>4, <1>5, <1>6, <1>7

LEMMA FollowerWrites ==
  ASSUME NEW w \in Users, NEW u, u = Peer(w), NEW x, Writing(x), stored[u] = x, x # None,
         NEW y, WroteOn(x, y), AtRest(y), Writing(y), NEW m, Numbered(m, x.dhs, x.rk, x.ns),
         IsSequence(relay[u]), IsSequence(fate[u]), w # u,
         Sent(relay[u], fate[u], m, relay'[u], fate'[u]),
         relay'[w] = relay[w], fate'[w] = fate[w], stored'[w] = stored[w], stored'[u] = y,
         Pair(w, u)
  PROVE  Pair(w, u)'
<1>1. PICK z : z = stored[w] /\ AtRest(z) /\ Writing(z) /\ (Behind(w, u, z, x) \/ Abreast(w, u, z, x))
  BY DEF Pair
<1>2. /\ y.cks = [root |-> x.cks.root, step |-> x.ns + 1] /\ y.ns = x.ns + 1
      /\ y.dhs = x.dhs /\ y.rk = x.rk /\ ReadsAlike(x, y) /\ y.dhr = x.dhr
  BY DEF WroteOn, ReadsAlike
<1>3. x.cks.root = x.rk /\ ~MustTurn(x)
  BY ChainsAreSome DEF Writing, MustTurn
<1>4. /\ Ahead(relay[w], fate[w], z, x) /\ Level(relay[u], fate[u], x, z)
      /\ z.dhr = x.dhs /\ z.rk = Append(x.rk, DH(x.dhs, z.dhs))
  BY <1>1, <1>3 DEF Behind, Abreast
<1>5. Level(relay'[u], fate'[u], y, z)
  BY <1>2, <1>3, <1>4, LevelSends
<1>6. Ahead(relay'[w], fate'[w], z, y)
  BY <1>2, <1>4, SameReader
<1>7. Behind(w, u, z, y)'
  BY <1>2, <1>4, <1>5, <1>6 DEF Behind
<1> QED BY <1>1, <1>7 DEF Pair

\* The follower makes its DH step: now it leads, and the other is behind it.
LEMMA FollowerTurns ==
  ASSUME NEW w \in Users, NEW u, u = Peer(w), NEW x, MustTurn(x), stored[u] = x, AtRest(x),
         NEW h, h = Turned(x, h.dhs),
         NEW y, WroteOn(h, y), AtRest(y), Writing(y), NEW m, Numbered(m, h.dhs, h.rk, 0),
         \A k \in Known(u) : k # h.dhs, stored[w].dhr \in Known(u),
         IsSequence(relay[u]), IsSequence(fate[u]), w # u, Peer(u) = w,
         Sent(relay[u], fate[u], m, relay'[u], fate'[u]),
         relay'[w] = relay[w], fate'[w] = fate[w], stored'[w] = stored[w], stored'[u] = y,
         Pair(w, u)
  PROVE  Pair(u, w)'
<1>1. PICK z : z = stored[w] /\ AtRest(z) /\ Writing(z) /\ (Behind(w, u, z, x) \/ Abreast(w, u, z, x))
  BY RestIsSome DEF Pair
<1>2. ~Writing(x)
  BY ChainsAreSome DEF Writing, MustTurn
<1>3. /\ Level(relay[w], fate[w], z, x) /\ z.dhs = x.dhr /\ z.rk = x.rk
      /\ IF x.cks = None THEN Silent(relay[u], fate[u], z) ELSE Level(relay[u], fate[u], x, z)
  BY <1>1, <1>2 DEF Behind, Abreast
<1>4. PICK k : k = h.dhs
  OBVIOUS
<1>5. /\ h.rk = TurnedRoot(x, k) /\ h.ns = 0 /\ h.dhr = x.dhr /\ h.ckr = x.ckr /\ h.seen = x.seen
  <2>1. x \in Sessions /\ h = Turned(x, k)
    BY <1>4 DEF AtRest
  <2> QED BY <2>1 DEF Turned, DhRatchetSend, Emptied, Sessions
<1>6. /\ y.ns = 1 /\ y.dhs = k /\ y.rk = TurnedRoot(x, k) /\ ReadsAlike(x, y) /\ y.dhr = x.dhr
  BY <1>4, <1>5 DEF WroteOn, ReadsAlike
<1>7. y.dhs # z.dhr
  BY <1>1, <1>4, <1>6
<1>8. Ahead(relay'[u], fate'[u], y, z)
  <2>1. Numbered(m, y.dhs, y.rk, 0)
    BY <1>4, <1>5, <1>6
  <2>2. CASE x.cks = None
    <3>1. Silent(relay[u], fate[u], z)
      BY <1>3, <2>2
    <3> QED BY <1>6, <1>7, <2>1, <3>1, SilentTurns
  <2>3. CASE x.cks # None
    <3>1. Level(relay[u], fate[u], x, z)
      BY <1>3, <2>3
    <3> QED BY <1>6, <1>7, <2>1, <3>1, LevelTurns
  <2> QED BY <2>2, <2>3
<1>9. Level(relay'[w], fate'[w], z, y)
  BY <1>3, <1>6, SameReader
<1>10. Behind(u, w, y, z)'
  <2>1. y.rk = Append(z.rk, DH(z.dhs, y.dhs)) /\ y.dhr = z.dhs
    BY <1>3, <1>6 DEF TurnedRoot
  <2> QED BY <1>1, <1>8, <1>9, <2>1 DEF Behind
<1> QED BY <1>1, <1>10 DEF Pair

LEMMA SendKeyTurns ==
  ASSUME KeyInv, TurnsInv, Slots = 1, NEW u \in Users, NEW s \in 1..Slots, SendKey(u, s)
  PROVE  TurnsInv'
<1>1. PICK o, x, h : o = op[u][s] /\ x = stored[u] /\ h = heap[u][cur[u]]
  OBVIOUS
<1>2. PICK y, m :
        /\ y = [heap[u][o.sid] EXCEPT !.cks = NextChain(o.chain), !.ns = @ + 1]
        /\ m = [dh |-> heap[u][o.sid].dhs, pn |-> heap[u][o.sid].pn, ns |-> heap[u][o.sid].ns, key |-> o.chain]
        /\ o # None /\ o.pc = "key" /\ Put(u, o.sid, y) /\ Persist(u, o.sid, y)
        /\ relay' = [relay EXCEPT ![u] = Append(@, m)]
        /\ fate' = [fate EXCEPT ![u] = Append(@, "sent")] /\ Suspend(u, s, None)
        /\ UNCHANGED <<cur, nextKey>>
  BY <1>1 DEF SendKey, Return
<1>3. /\ cur[u] # 0 /\ x # None /\ Sealing(cur[u], o, x, h) /\ CallInv(u, o) /\ cur[u] = 1
      /\ SessionInv(u, h)
  <2>1. /\ CallInv(u, o) /\ Busy(u, relay[Peer(u)], fate[Peer(u)], cur[u], o, x, h)
        /\ cur[u] \in {0, 1} /\ (cur[u] # 0 => SessionInv(u, h))
    BY <1>1, <1>2, CallAt
  <2>2. cur[u] # 0 /\ x # None /\ Sealing(cur[u], o, x, h)
    BY <1>2, <2>1, WhichCall
  <2> QED BY <2>1, <2>2
<1>4. o.sid = 1 /\ o.chain = h.cks /\ heap[u][1] = h
  BY <1>1, <1>3 DEF Sealing
<1>5. ~h.pending /\ h.cks # None /\ Sends(u, h)
  <2>1. ~h.pending /\ h.cks # None
    <3>1. o # [pc |-> "bundle"]
      BY <1>2
    <3>2. \/ o.pc \in {"bob", "dh", "chain", "ratchet"}
          \/ ~heap[u][cur[u]].pending /\ heap[u][cur[u]].cks # None
      BY <1>2, <1>3, <3>1 DEF CallInv
    <3> QED BY <1>1, <1>2, <3>2
  <2> QED BY <1>3, <2>1 DEF SessionInv
<1>6. PICK w \in Users : Pair(w, Peer(w))
  <2>1. ~Unmet
    BY <1>1, <1>3 DEF Unmet
  <2> QED BY <2>1 DEF TurnsInv
<1>7. PICK v : v = Peer(u) /\ v \in Users /\ v # u /\ Peer(v) = u
  BY PeerIsOther, OtherIsPeer
<1>8. AtRest(x) /\ (Writing(x) \/ MustTurn(x))
  BY <1>1, <1>3, StoredKinds
<1>9. x \in Sessions
  BY <1>8 DEF AtRest
<1>10. h \in Sessions /\ ~h.wiped /\ h.skipped = <<>> /\ h.fresh = FALSE /\ h.cks = [root |-> h.rk, step |-> h.ns]
  <2>1. CASE Writing(x) /\ h = x
    BY <1>8, <2>1 DEF AtRest, Writing, Sessions
  <2>2. CASE MustTurn(x) /\ h = Turned(x, h.dhs)
    <3>1. PICK k, r : k = h.dhs /\ r = TurnedRoot(x, k)
      OBVIOUS
    <3>2. k \in Keys
      BY <1>3, <3>1, KeysAreKeys DEF SessionInv
    <3>3. r \in Seq(Secrets)
      <4>1. x.rk \in Seq(Secrets) /\ DH(x.dhr, k) \in Secrets
        BY <1>9, <3>2 DEF Sessions, DH, Secrets
      <4> QED BY <3>1, <4>1, RootGrows DEF TurnedRoot
    <3>4. [root |-> r, step |-> 0] \in Chains
      BY <3>3 DEF Chains
    <3>5. h = [x EXCEPT !.fresh = FALSE, !.wiped = FALSE, !.rk = r, !.cks = [root |-> r, step |-> 0],
                        !.pn = x.ns, !.ns = 0, !.dhs = k, !.pending = FALSE]
      BY <1>9, <2>2, <3>1 DEF Turned, DhRatchetSend, Emptied, Chain, Sessions
    <3> QED BY <1>8, <1>9, <3>2, <3>3, <3>4, <3>5 DEF Sessions, AtRest
  <2> QED BY <1>3, <2>1, <2>2 DEF Sealing
<1>11. IsChain(h.cks) /\ h.ns \in Nat
  BY <1>10 DEF Sessions, IsChain
<1>12. NextChain(h.cks) = [root |-> h.rk, step |-> h.ns + 1] /\ [root |-> h.rk, step |-> h.ns + 1] \in Chains
  BY <1>10, <1>11 DEF NextChain, IsChain, Chains
<1>13. y = [h EXCEPT !.cks = [root |-> h.rk, step |-> h.ns + 1], !.ns = h.ns + 1]
  BY <1>2, <1>4, <1>12
<1>14. AtRest(y) /\ Writing(y) /\ WroteOn(h, y)
  <2>1. y \in Sessions /\ ~y.wiped /\ y.skipped = <<>>
    <3>1. PICK c, n : c = [root |-> h.rk, step |-> h.ns + 1] /\ n = h.ns + 1
      OBVIOUS
    <3>2. c \in Chains /\ n \in Nat /\ y = [h EXCEPT !.cks = c, !.ns = n]
      BY <1>11, <1>12, <1>13, <3>1
    <3> QED BY <1>10, <3>2 DEF Sessions
  <2>2. /\ y.cks = [root |-> h.rk, step |-> h.ns + 1] /\ y.ns = h.ns + 1 /\ y.rk = h.rk
        /\ y.dhs = h.dhs /\ y.dhr = h.dhr /\ y.ckr = h.ckr /\ y.seen = h.seen
        /\ y.pending = h.pending /\ y.fresh = FALSE
    BY <1>10, <1>13 DEF Sessions
  <2>3. IsChain(y.cks)
    BY <1>12, <2>2 DEF IsChain, Chains
  <2>4. h.cks.root = h.rk
    BY <1>10
  <2> QED BY <1>5, <2>1, <2>2, <2>3, <2>4 DEF AtRest, Writing, WroteOn, ReadsAlike
<1>15. Numbered(m, h.dhs, h.rk, h.ns)
  BY <1>2, <1>4, <1>10 DEF Numbered
<1>16. Shape /\ IsSequence(relay[u]) /\ IsSequence(fate[u]) /\ FateShape
  BY FatesOf DEF KeyInv, TurnsInv
<1>17. Sent(relay[u], fate[u], m, relay'[u], fate'[u])
  BY <1>2, <1>16 DEF Sent, Shape, FateShape
<1>18. /\ \A d \in Users \ {u} : relay'[d] = relay[d] /\ fate'[d] = fate[d] /\ stored'[d] = stored[d]
                                 /\ nextKey'[d] = nextKey[d]
       /\ stored'[u] = y
  BY <1>2, <1>3, <1>4, <1>16 DEF Shape, FateShape, Persist
<1>19. relay'[v] = relay[v] /\ fate'[v] = fate[v] /\ stored'[v] = stored[v]
  BY <1>7, <1>18
<1>20. \E d \in Users : Pair(d, Peer(d))'
  <2>1. w = u \/ (w = v /\ Peer(w) = u)
    BY <1>7, OtherIsPeer
  <2>2. CASE Writing(x) /\ h = x /\ w = u
    <3>1. Pair(u, v)
      BY <1>6, <1>7, <2>2
    <3>2. WroteOn(x, y) /\ Numbered(m, x.dhs, x.rk, x.ns) /\ stored[u] = x
      BY <1>1, <1>14, <1>15, <2>2
    <3>3. Pair(u, v)'
      BY <1>7, <1>14, <1>16, <1>17, <1>18, <1>19, <2>2, <3>1, <3>2, LeaderWrites
    <3> QED BY <1>7, <3>3
  <2>3. CASE Writing(x) /\ h = x /\ w = v
    <3>1. Pair(v, u)
      BY <1>6, <1>7, <2>3
    <3>2. WroteOn(x, y) /\ Numbered(m, x.dhs, x.rk, x.ns) /\ stored[u] = x
      BY <1>1, <1>14, <1>15, <2>3
    <3>3. u = Peer(v)
      BY <1>7
    <3>4. Pair(v, u)'
      BY <1>3, <1>7, <1>14, <1>16, <1>17, <1>18, <1>19, <2>3, <3>1, <3>2, <3>3, FollowerWrites
    <3> QED BY <1>7, <3>4
  <2>4. CASE MustTurn(x) /\ h = Turned(x, h.dhs)
    <3>1. ~Writing(x)
      BY <2>4, ChainsAreSome DEF Writing, MustTurn
    <3>2. w = v /\ Pair(v, u)
      BY <1>1, <1>6, <1>7, <2>1, <3>1 DEF Pair
    <3>3. h.ns = 0 /\ Numbered(m, h.dhs, h.rk, 0)
      <4>1. PICK k : k = h.dhs
        OBVIOUS
      <4>2. h.ns = 0
        BY <1>9, <2>4, <4>1 DEF Turned, DhRatchetSend, Emptied, Sessions
      <4> QED BY <1>15, <4>2
    <3>4. \A k \in Known(u) : k # h.dhs
      <4>1. \A i \in DOMAIN relay[u] : relay[u][i].dh # h.dhs
        <5> SUFFICES ASSUME NEW i \in DOMAIN relay[u], relay[u][i].dh = h.dhs PROVE FALSE
          OBVIOUS
        <5>1. relay[u][i].key.step < 0
          BY <1>5, <3>3 DEF Sends
        <5>2. relay[u][i].key.step \in Nat
          <6>1. EnvelopeInv(u, i)
            BY DEF KeyInv
          <6>2. relay[u][i].key = [root |-> relay[u][i].key.root, step |-> relay[u][i].ns]
                /\ relay[u][i].ns \in Nat
            BY <6>1 DEF EnvelopeInv
          <6> QED BY <6>2
        <5> QED BY <5>1, <5>2
      <4>2. h.dhs # <<u, 0>> /\ h.dhs # <<u, 1>>
        BY <1>5 DEF Sends
      <4> QED BY <4>1, <4>2 DEF Known
    <3>5. stored[v].dhr \in Known(u)
      <4>1. stored[v] # None
        BY <3>2, RestIsSome DEF Pair
      <4>2. SessionInv(v, stored[v])
        BY <1>7, <4>1 DEF KeyInv, ClientInv
      <4> QED BY <1>7, <4>2 DEF SessionInv
    <3>6. u = Peer(v) /\ stored[u] = x
      BY <1>1, <1>7
    <3>7. Pair(u, v)'
      BY <1>7, <1>8, <1>14, <1>16, <1>17, <1>18, <1>19, <2>4, <3>2, <3>3, <3>4, <3>5, <3>6, FollowerTurns
    <3> QED BY <1>7, <3>7
  <2> QED BY <1>3, <2>1, <2>2, <2>3, <2>4 DEF Sealing
<1>21. Busy(u, relay'[Peer(u)], fate'[Peer(u)], 1, None, stored'[u], y)
  BY <1>14, <1>18, RestIsSome DEF Busy, Idle
<1>22. Elsewhere(u) /\ AtWork(u)'
  <2>1. AtWork(u) /\ Put(u, 1, y) /\ cur' = cur
    BY <1>2, <1>4 DEF TurnsInv
  <2>2. (cur' = cur /\ cur[u] # 0) \/ cur' = [cur EXCEPT ![u] = 1]
    BY <1>3, <2>1
  <2> QED BY <1>2, <1>18, <1>21, <2>1, <2>2, CallOf
<1>23. FateShape'
  <2>1. fate' = [d \in Users |-> fate'[d]]
    BY <1>2, <1>16 DEF FateShape
  <2>2. IsSequence(fate'[u])
    BY <1>16, <1>17, AppendedTo DEF Sent
  <2>3. \A d \in Users \ {u} : IsSequence(fate'[d])
    BY <1>16, <1>18 DEF FateShape
  <2> QED BY <2>1, <2>2, <2>3 DEF FateShape
<1> QED BY <1>17, <1>20, <1>22, <1>23, TurnOf

-----------------------------------------------------------------------------
(* Reading: what the next envelope is, and what it leaves of the session.   *)

\* To its peer a session is also what it writes with.
WritesAlike(x, z) ==
    z.dhs = x.dhs /\ z.rk = x.rk /\ z.cks = x.cks /\ z.ns = x.ns

LEMMA SameWriter ==
  ASSUME NEW R, NEW F, NEW x, NEW y, NEW z, WritesAlike(y, z)
  PROVE  /\ Level(R, F, y, x) => Level(R, F, z, x)
         /\ Ahead(R, F, y, x) => Ahead(R, F, z, x)
BY DEF Level, Ahead, WritesAlike

LEMMA SilentIsUnread ==
  ASSUME NEW R, NEW F, NEW x, Silent(R, F, x), NEW n
  PROVE  ~FirstUnread(R, F, n)
BY DEF Silent, FirstUnread

\* All that has been read comes before.
LEMMA NotSeen ==
  ASSUME NEW v \in Users, KeyInv, NEW F, NEW x, NEW r \in 0..Len(relay[v]), ReadTo(relay[v], F, r, x),
         NEW n, FirstUnread(relay[v], F, n)
  PROVE  MsgId(relay[v][n]) \notin x.seen
<1>1. IsSequence(relay[v]) /\ DOMAIN relay[v] = 1..Len(relay[v]) /\ Len(relay[v]) \in Nat
  BY SequenceOf DEF KeyInv, ClientInv, IsSequence
<1>2. n = r + 1 /\ n \in 1..Len(relay[v])
  BY <1>1, NextRead
<1> SUFFICES ASSUME MsgId(relay[v][n]) \in x.seen PROVE FALSE
  OBVIOUS
<1>3. PICK i \in 1..r : MsgId(relay[v][i]) = MsgId(relay[v][n])
  BY DEF ReadTo
<1>4. i \in DOMAIN relay[v] /\ n \in DOMAIN relay[v] /\ i # n
  BY <1>1, <1>2
<1>5. relay[v][i].dh = relay[v][n].dh /\ relay[v][i].ns = relay[v][n].ns
  BY <1>3 DEF MsgId
<1>6. EnvelopeInv(v, n)
  BY <1>4 DEF KeyInv
<1> QED BY <1>4, <1>5, <1>6 DEF EnvelopeInv

LEMMA HasRead ==
  ASSUME NEW R, NEW F, NEW x, NEW y, Level(R, F, y, x) \/ Ahead(R, F, y, x)
  PROVE  \E r \in 0..Len(R) : ReadTo(R, F, r, x)
BY DEF Level, Ahead

\* What waits for a client without a session is the first envelope of the first speaker.
LEMMA FirstArrives ==
  ASSUME KeyInv, TurnsInv, NEW u \in Users, NEW v, v = Peer(u), stored[u] = None,
         NEW n, FirstUnread(relay[v], fate[v], n)
  PROVE  /\ Pair(v, u) /\ Greeted(v, u, stored[v]) /\ n = 1 /\ AtRest(stored[v]) /\ Writing(stored[v])
         /\ Numbered(relay[v][n], stored[v].dhs, stored[v].rk, 0)
<1>1. v \in Users /\ IsSequence(relay[v]) /\ IsSequence(fate[v]) /\ DOMAIN fate[v] = 1..Len(fate[v])
      /\ Len(fate[v]) = Len(relay[v]) /\ Len(relay[v]) \in Nat
  BY PeerIsOther, FatesOf, SequenceOf DEF IsSequence
<1>2. n \in 1..Len(relay[v]) /\ n \in Nat
  BY <1>1 DEF FirstUnread
<1>3. ~Unmet
  <2> SUFFICES ASSUME Unmet PROVE FALSE
    OBVIOUS
  <2>1. Len(relay[v]) = 0
    BY <1>1 DEF Unmet
  <2> QED BY <1>2, <2>1
<1>4. Pair(v, u) /\ Greeted(v, u, stored[v])
  BY <1>3, NotMet
<1>5. n = 1
  <2> SUFFICES ASSUME n # 1 PROVE FALSE
    OBVIOUS
  <2>1. 1 \in 1..(n - 1) /\ 1 \in 1..Len(relay[v])
    BY <1>1, <1>2
  <2>2. fate[v][1] = "read"
    BY <2>1 DEF FirstUnread
  <2>3. fate[v][1] = "sent"
    BY <1>4, <2>1 DEF Greeted
  <2> QED BY <2>2, <2>3
<1>6. Numbered(relay[v][n], stored[v].dhs, stored[v].rk, 0)
  <2>1. Numbered(relay[v][n], stored[v].dhs, stored[v].rk, n - 1)
    BY <1>2, <1>4 DEF Greeted
  <2>2. n - 1 = 0
    BY <1>5
  <2> QED BY <2>1, <2>2
<1> QED BY <1>4, <1>5, <1>6 DEF Pair

\* What waits for a client with one is next in the chain it reads, or begins the next chain.
LEMMA NextArrives ==
  ASSUME KeyInv, TurnsInv, NEW u \in Users, NEW v, v = Peer(u), NEW x, x = stored[u], x # None,
         NEW n, FirstUnread(relay[v], fate[v], n)
  PROVE  /\ MsgId(relay[v][n]) \notin x.seen
         /\ relay[v][n].dh = x.dhr =>
              Numbered(relay[v][n], x.dhr, x.ckr.root, x.ckr.step) /\ IsChain(x.ckr)
         /\ relay[v][n].dh # x.dhr =>
              /\ Pair(v, u) /\ Behind(v, u, stored[v], x)
              /\ Numbered(relay[v][n], stored[v].dhs, stored[v].rk, 0)
<1>1. v \in Users /\ u = Peer(v) /\ IsSequence(relay[v]) /\ IsSequence(fate[v])
  BY PeerIsOther, OtherIsPeer, FatesOf
<1>2. PICK m, y : m = relay[v][n] /\ y = stored[v]
  OBVIOUS
<1>3. CASE Level(relay[v], fate[v], y, x)
  <2>1. Numbered(m, x.dhr, x.ckr.root, x.ckr.step) /\ IsChain(x.ckr)
    BY <1>1, <1>2, <1>3, LevelReads
  <2>2. MsgId(m) \notin x.seen
    BY <1>1, <1>2, <1>3, HasRead, NotSeen
  <2>3. m.dh = x.dhr
    BY <2>1 DEF Numbered
  <2> QED BY <1>2, <2>1, <2>2, <2>3
<1>4. CASE Pair(v, u) /\ Behind(v, u, y, x)
  <2>1. Ahead(relay[v], fate[v], y, x)
    BY <1>4 DEF Behind
  <2>2. /\ m.dh = x.dhr => Numbered(m, x.dhr, x.ckr.root, x.ckr.step) /\ IsChain(x.ckr)
        /\ m.dh # x.dhr => Numbered(m, y.dhs, y.rk, 0)
    BY <1>1, <1>2, <2>1, AheadReads
  <2>3. MsgId(m) \notin x.seen
    BY <1>1, <1>2, <2>1, HasRead, NotSeen
  <2> QED BY <1>2, <1>4, <2>2, <2>3
<1>5. ~Silent(relay[v], fate[v], x)
  BY SilentIsUnread
<1>6. PICK w \in Users : Pair(w, Peer(w))
  BY DEF TurnsInv, Unmet
<1>7. CASE w = u
  <2>1. \/ y = None /\ Greeted(u, v, x)
        \/ AtRest(y) /\ (Behind(u, v, x, y) \/ Abreast(u, v, x, y))
    BY <1>2, <1>6, <1>7 DEF Pair
  <2>2. ~Greeted(u, v, x)
    BY <1>5 DEF Greeted
  <2>3. Behind(u, v, x, y) => Level(relay[v], fate[v], y, x)
    BY DEF Behind
  <2>4. Abreast(u, v, x, y) => Level(relay[v], fate[v], y, x)
    BY <1>5 DEF Abreast
  <2> QED BY <1>3, <2>1, <2>2, <2>3, <2>4
<1>8. CASE w # u
  <2>1. w = v
    BY <1>1, <1>8, OtherIsPeer
  <2>2. Pair(v, u)
    BY <1>1, <1>6, <2>1
  <2>3. Behind(v, u, y, x) \/ Abreast(v, u, y, x)
    BY <1>2, <2>2 DEF Pair
  <2>4. Abreast(v, u, y, x) => Level(relay[v], fate[v], y, x)
    BY DEF Abreast
  <2> QED BY <1>3, <1>4, <2>2, <2>3, <2>4
<1> QED BY <1>7, <1>8

\* What reading envelope n of v changes of the pair.
ReadIt(u, v, n, z) ==
    /\ Marked(fate[v], n, fate'[v]) /\ fate'[u] = fate[u]
    /\ relay'[v] = relay[v] /\ relay'[u] = relay[u]
    /\ stored'[v] = stored[v] /\ stored'[u] = z

LEMMA ReadsFirst ==
  ASSUME KeyInv, TurnsInv, NEW u \in Users, NEW v, v = Peer(u), stored[u] = None,
         NEW n, FirstUnread(relay[v], fate[v], n), NEW z, AtRest(z), ReadIt(u, v, n, z),
         z.dhr = stored[v].dhs, z.rk = stored[v].rk, z.cks = None, z.ns = 0, ~z.pending, ~z.fresh,
         z.ckr = [root |-> stored[v].rk, step |-> 1], z.seen = {MsgId(relay[v][n])}
  PROVE  Pair(v, u)'
<1>1. PICK y, R, F, G : y = stored[v] /\ R = relay[v] /\ F = fate[v] /\ G = fate'[v]
  OBVIOUS
<1>2. Greeted(v, u, y) /\ n = 1 /\ AtRest(y) /\ Writing(y)
  BY <1>1, FirstArrives
<1>3. /\ relay'[v] = R /\ stored'[v] = y /\ stored'[u] = z /\ relay'[u] = relay[u] /\ fate'[u] = fate[u]
      /\ Marked(F, n, G)
  BY <1>1 DEF ReadIt
<1>4. /\ IsSequence(R) /\ IsSequence(F) /\ Len(R) \in Nat /\ 1 \in 1..Len(R)
  BY <1>1, <1>2, PeerIsOther, FatesOf DEF FirstUnread, IsSequence
<1>5. /\ y.ns = Len(R) /\ Len(F) = Len(R)
      /\ \A i \in 1..Len(R) : F[i] = "sent" /\ Numbered(R[i], y.dhs, y.rk, i - 1)
      /\ Silent(relay[u], fate[u], y)
  BY <1>1, <1>2 DEF Greeted
<1>6. IsChain(y.cks) /\ y.cks.step = y.ns /\ y.cks.root = y.rk
  BY <1>2 DEF Writing
<1>7. PICK e : e = [z EXCEPT !.seen = {}]
  OBVIOUS
<1>8. e.seen = {}
  <2>1. z \in Sessions
    BY DEF AtRest
  <2> QED BY <1>7, <2>1 DEF Sessions
<1>9. ReadTo(R, G, 1, z)
  <2>1. ReadTo(R, F, 0, e) /\ 0 \in 0..Len(R)
    BY <1>4, <1>5, <1>8 DEF ReadTo
  <2>2. FirstUnread(R, F, n) /\ z.seen \subseteq e.seen \cup {MsgId(R[n])}
    BY <1>1, <1>8
  <2> QED BY <1>2, <1>3, <1>4, <2>1, <2>2, ReadOne
<1>10. Level(R, G, y, z)
  <2>1. z.ckr = [root |-> y.cks.root, step |-> y.ns - (Len(R) - 1)]
    <3>1. y.ns - (Len(R) - 1) = 1
      BY <1>4, <1>5
    <3> QED BY <1>1, <1>6, <3>1
  <2>2. \A i \in 2..Len(R) : Numbered(R[i], z.dhr, y.cks.root, y.ns - Len(R) + i - 1)
    <3> TAKE i \in 2..Len(R)
    <3>1. i \in 1..Len(R) /\ y.ns - Len(R) + i - 1 = i - 1
      BY <1>4, <1>5
    <3>2. Numbered(R[i], y.dhs, y.rk, i - 1)
      BY <1>5, <3>1
    <3> QED BY <1>1, <1>6, <3>1, <3>2
  <2>3. Len(R) - 1 <= y.ns /\ y.ns <= Len(R) /\ 1 \in 0..Len(R) /\ 1 + 1 = 2
    BY <1>4, <1>5
  <2> QED BY <1>6, <1>9, <2>1, <2>2, <2>3 DEF Level
<1>11. Abreast(v, u, y, z)'
  <2>1. MustTurn(z)
    BY DEF MustTurn
  <2>2. Silent(relay'[u], fate'[u], y)
    BY <1>3, <1>5
  <2> QED BY <1>1, <1>3, <1>10, <2>1, <2>2 DEF Abreast
<1> QED BY <1>2, <1>3, <1>11 DEF Pair

LEMMA ReadsNext ==
  ASSUME KeyInv, TurnsInv, NEW u \in Users, NEW v, v = Peer(u), NEW x, x = stored[u], x # None,
         NEW n, FirstUnread(relay[v], fate[v], n), relay[v][n].dh = x.dhr,
         NEW z, AtRest(z), ReadIt(u, v, n, z), WritesAlike(x, z), ReadOn(x, z, relay[v][n]),
         z.pending = x.pending, z.fresh = x.fresh
  PROVE  \E w \in Users : Pair(w, Peer(w))'
<1>1. v \in Users /\ u = Peer(v) /\ IsSequence(relay[v]) /\ IsSequence(fate[v])
  BY PeerIsOther, OtherIsPeer, FatesOf
<1>2. PICK y, R, F, G : y = stored[v] /\ R = relay[v] /\ F = fate[v] /\ G = fate'[v]
  OBVIOUS
<1>3. /\ relay'[v] = R /\ stored'[v] = y /\ stored'[u] = z /\ relay'[u] = relay[u] /\ fate'[u] = fate[u]
      /\ Marked(F, n, G)
  BY <1>2 DEF ReadIt
<1>4. z.dhr = x.dhr /\ z.dhs = x.dhs /\ z.rk = x.rk /\ z.cks = x.cks /\ z.ns = x.ns
  BY DEF ReadOn, WritesAlike
<1>5. (Writing(x) => Writing(z)) /\ (MustTurn(x) => MustTurn(z))
  BY <1>4 DEF Writing, MustTurn
<1>6. Level(R, F, y, x) => Level(R, G, y, z)
  BY <1>1, <1>2, <1>3, LevelReads
<1>7. Ahead(R, F, y, x) => Ahead(R, G, y, z)
  BY <1>1, <1>2, <1>3, AheadReads
<1>8. ~Silent(R, F, x)
  BY <1>2, SilentIsUnread
<1>9. PICK w \in Users : Pair(w, Peer(w))
  BY DEF TurnsInv, Unmet
<1>10. CASE w = u
  <2>1. /\ AtRest(x) /\ Writing(x)
        /\ (y = None /\ Greeted(u, v, x)) \/ (AtRest(y) /\ (Behind(u, v, x, y) \/ Abreast(u, v, x, y)))
    BY <1>2, <1>9, <1>10 DEF Pair
  <2>2. ~Greeted(u, v, x)
    BY <1>2, <1>8 DEF Greeted
  <2>3. CASE Behind(u, v, x, y)
    <3>1. Behind(u, v, z, y)'
      <4>1. Ahead(relay[u], fate[u], x, y) /\ Level(R, F, y, x)
        BY <1>2, <2>3 DEF Behind
      <4>2. Ahead(relay'[u], fate'[u], z, y) /\ Level(relay'[v], fate'[v], y, z)
        BY <1>2, <1>3, <1>6, <4>1, SameWriter
      <4> QED BY <1>4, <2>3, <4>2 DEF Behind
    <3>2. AtRest(y)
      BY <2>1, <2>2
    <3> QED BY <1>3, <1>5, <2>1, <3>1, <3>2 DEF Pair
  <2>4. CASE Abreast(u, v, x, y)
    <3>1. Abreast(u, v, z, y)'
      <4>1. Level(relay[u], fate[u], x, y) /\ Level(R, F, y, x) /\ y.cks # None
        BY <1>2, <1>8, <2>4 DEF Abreast
      <4>2. Level(relay'[u], fate'[u], z, y) /\ Level(relay'[v], fate'[v], y, z)
        BY <1>2, <1>3, <1>6, <4>1, SameWriter
      <4> QED BY <1>4, <2>4, <4>1, <4>2 DEF Abreast
    <3>2. AtRest(y)
      BY <2>1, <2>2
    <3> QED BY <1>3, <1>5, <2>1, <3>1, <3>2 DEF Pair
  <2> QED BY <2>1, <2>2, <2>3, <2>4
<1>11. CASE w # u
  <2>1. w = v
    BY <1>1, <1>11, OtherIsPeer
  <2>2. AtRest(y) /\ Writing(y) /\ (Behind(v, u, y, x) \/ Abreast(v, u, y, x))
    BY <1>1, <1>2, <1>9, <2>1 DEF Pair
  <2>3. CASE Behind(v, u, y, x)
    <3>1. Behind(v, u, y, z)'
      <4>1. Ahead(R, F, y, x) /\ Level(relay[u], fate[u], x, y) /\ Writing(x)
        BY <1>2, <2>3 DEF Behind
      <4>2. Ahead(relay'[v], fate'[v], y, z) /\ Level(relay'[u], fate'[u], z, y) /\ Writing(z)
        BY <1>2, <1>3, <1>5, <1>7, <4>1, SameWriter
      <4> QED BY <1>4, <2>3, <4>2 DEF Behind
    <3> QED BY <1>1, <1>3, <2>2, <3>1 DEF Pair
  <2>4. CASE Abreast(v, u, y, x)
    <3>1. Abreast(v, u, y, z)'
      <4>1. /\ Level(R, F, y, x) /\ MustTurn(x)
            /\ IF x.cks = None THEN Silent(relay[u], fate[u], y) ELSE Level(relay[u], fate[u], x, y)
        BY <1>2, <2>4 DEF Abreast
      <4>2. /\ Level(relay'[v], fate'[v], y, z) /\ MustTurn(z)
            /\ IF z.cks = None THEN Silent(relay'[u], fate'[u], y) ELSE Level(relay'[u], fate'[u], z, y)
        BY <1>2, <1>3, <1>4, <1>5, <1>6, <4>1, SameWriter
      <4> QED BY <1>4, <2>4, <4>2 DEF Abreast
    <3> QED BY <1>1, <1>3, <2>2, <3>1 DEF Pair
  <2> QED BY <2>2, <2>3, <2>4
<1> QED BY <1>10, <1>11

\* The first envelope of the next chain: the reader has made the DH step the writer made.
LEMMA ReadsTurn ==
  ASSUME KeyInv, TurnsInv, NEW u \in Users, NEW v, v = Peer(u), NEW x, x = stored[u], x # None,
         NEW n, FirstUnread(relay[v], fate[v], n), relay[v][n].dh # x.dhr,
         NEW z, AtRest(z), ReadIt(u, v, n, z), z.pending, z.fresh, z.cks = x.cks, z.ns = x.ns,
         z.dhr = relay[v][n].dh, z.rk = ReadRoot(x, relay[v][n].dh),
         z.ckr = [root |-> z.rk, step |-> 1], z.seen = x.seen \cup {MsgId(relay[v][n])}
  PROVE  \E w \in Users : Pair(w, Peer(w))'
<1>1. v \in Users /\ u = Peer(v) /\ IsSequence(relay[v]) /\ IsSequence(fate[v])
  BY PeerIsOther, OtherIsPeer, FatesOf
<1>2. PICK y, R, F, G : y = stored[v] /\ R = relay[v] /\ F = fate[v] /\ G = fate'[v]
  OBVIOUS
<1>3. /\ relay'[v] = R /\ stored'[v] = y /\ stored'[u] = z /\ relay'[u] = relay[u] /\ fate'[u] = fate[u]
      /\ Marked(F, n, G)
  BY <1>2 DEF ReadIt
<1>4. Pair(v, u) /\ Behind(v, u, y, x) /\ Numbered(R[n], y.dhs, y.rk, 0)
  BY <1>2, NextArrives
<1>5. /\ Ahead(R, F, y, x) /\ Level(relay[u], fate[u], x, y) /\ Writing(x)
      /\ y.dhr = x.dhs /\ y.rk = Append(x.rk, DH(x.dhs, y.dhs))
  BY <1>2, <1>4 DEF Behind
<1>6. AtRest(y) /\ Writing(y)
  BY <1>2, <1>4 DEF Pair
<1>7. z.dhr = y.dhs /\ z.rk = y.rk
  <2>1. R[n].dh = y.dhs
    BY <1>4 DEF Numbered
  <2>2. DH(x.dhs, y.dhs) = DH(y.dhs, x.dhs)
    BY DEF DH
  <2> QED BY <1>2, <1>5, <2>1, <2>2 DEF ReadRoot
<1>8. Level(R, G, y, z)
  <2>1. y.cks = [root |-> y.rk, step |-> y.ns] /\ IsChain(y.cks)
    BY <1>6 DEF Writing
  <2>2. /\ z.dhr = y.dhs /\ z.ckr = [root |-> y.rk, step |-> 1]
        /\ z.seen \subseteq x.seen \cup {MsgId(R[n])} /\ R[n].dh # x.dhr
    BY <1>2, <1>7
  <2>3. FirstUnread(R, F, n) /\ Marked(F, n, G) /\ IsSequence(R) /\ IsSequence(F)
    BY <1>1, <1>2, <1>3
  <2> QED BY <1>5, <2>1, <2>2, <2>3, AheadReads
<1>9. Level(relay[u], fate[u], z, y) /\ z.cks # None
  <2>1. \A Q, H, a : Level(Q, H, x, a) => Level(Q, H, z, a)
    BY DEF Level
  <2> QED BY <1>5, <2>1, ChainsAreSome DEF Writing
<1>10. MustTurn(z)
  BY DEF MustTurn
<1>11. Abreast(v, u, y, z)'
  BY <1>2, <1>3, <1>7, <1>8, <1>9, <1>10, <1>5 DEF Abreast
<1>12. Abreast(v, u, y, z)' => Pair(v, u)'
  BY <1>3, <1>6 DEF Pair
<1> QED BY <1>1, <1>11, <1>12

-----------------------------------------------------------------------------
(* The steps of a read.                                                     *)

\* The two instances differ in what the relay delivers, not in what a client does with it.
LEMMA SameOpen ==
  ASSUME NEW u, NEW s, NEW n, NEW i, NEW x
  PROVE  /\ \A key : Turns!Open(u, s, n, i, x, key) <=> Open(u, s, n, i, x, key)
         /\ Turns!Advance(u, s, n, i, x) <=> Advance(u, s, n, i, x)
<1>1. Turns!Envelope(u, n) = Envelope(u, n) /\ \A m : Turns!MsgId(m) = MsgId(m)
  BY DEF Turns!Envelope, Envelope, Turns!Peer, Peer, Turns!MsgId, MsgId
<1>2. \A y, c : Turns!Finish(u, s, n, i, y, c) <=> Finish(u, s, n, i, y, c)
  BY SameFinish
<1>3. \A key : Turns!Open(u, s, n, i, x, key) <=> Open(u, s, n, i, x, key)
  BY <1>1, <1>2 DEF Turns!Open, Open
<1>4. Turns!Advance(u, s, n, i, x) <=> Advance(u, s, n, i, x)
  BY <1>1, <1>2, SameHelpers DEF Turns!Advance, Advance
<1> QED BY <1>3, <1>4

LEMMA SameRecvDh ==
  ASSUME NEW u, NEW s
  PROVE  Turns!RecvDh(u, s) <=> RecvDh(u, s)
<1>1. \A n, x, o, k : /\ Turns!Envelope(u, n) = Envelope(u, n)
                      /\ Turns!DhRatchetRecv(x, o, Envelope(u, n).dh, k) = DhRatchetRecv(x, o, Envelope(u, n).dh, k)
  BY DEF Turns!Envelope, Envelope, Turns!Peer, Peer, Turns!DhRatchetRecv, DhRatchetRecv,
         Turns!Chain, Chain
<1> QED BY <1>1, SameOpen DEF Turns!RecvDh, RecvDh, Turns!bounds, bounds

LEMMA SameRecvChain ==
  ASSUME NEW u, NEW s
  PROVE  Turns!RecvChain(u, s) <=> RecvChain(u, s)
<1>1. \A n : Turns!Envelope(u, n) = Envelope(u, n)
  BY DEF Turns!Envelope, Envelope, Turns!Peer, Peer
<1>2. \A c : Turns!NextChain(c) = NextChain(c)
  BY DEF Turns!NextChain, NextChain
<1>3. \A x : Turns!SkippedIds(x) = SkippedIds(x)
  BY DEF Turns!SkippedIds, SkippedIds, Turns!ToSet, ToSet
<1>4. \A x, id, key : Turns!KeepSkipped(x, id, key) = KeepSkipped(x, id, key)
  BY <1>3 DEF Turns!KeepSkipped, KeepSkipped
<1>5. \A n, i, x, key : Turns!Open(u, s, n, i, x, key) <=> Open(u, s, n, i, x, key)
  BY SameOpen
<1>6. \A o, i, x : /\ Turns!Suspend(u, s, o) <=> Suspend(u, s, o)
                   /\ Turns!Put(u, i, x) <=> Put(u, i, x)
  BY SameHelpers
<1> QED BY <1>1, <1>2, <1>4, <1>5, <1>6 DEF Turns!RecvChain, RecvChain, Turns!bounds, bounds

\* In order: what is delivered is the oldest envelope that nobody has read.
LEMMA InOrder ==
  ASSUME KeyInv, TurnsInv, again = 0, Slots = 1, NEW u \in Users, op[u][1] = None,
         NEW n, Turns!Deliver(u, n)
  PROVE  FirstUnread(relay[Peer(u)], fate[Peer(u)], n) /\ again' = again
<1>1. PICK R, F : R = relay[Peer(u)] /\ F = fate[Peer(u)]
  OBVIOUS
<1>2. /\ Len(F) \in Nat /\ DOMAIN F = 1..Len(F) /\ Len(F) = Len(R)
      /\ \A i \in 1..Len(R) : F[i] \in {"sent", "read"}
  BY <1>1, PeerIsOther, FatesOf, SequenceOf DEF IsSequence
<1>3. Turns!Peer(u) = Peer(u) /\ Turns!Opening(u) = {}
  <2>1. Turns!Peer(u) = Peer(u)
    BY DEF Turns!Peer, Peer
  <2>2. \A t \in 1..Slots : op[u][t] = None
    OBVIOUS
  <2> QED BY <2>1, <2>2 DEF Turns!Opening
<1>4. PICK waiting : waiting = {k \in DOMAIN F : F[k] = "sent"} \ {}
  OBVIOUS
<1>5. /\ n \in waiting /\ Turns!Cardinality({k \in waiting : k < n}) <= 0 /\ again' = again
  <2>1. \/ /\ n \in waiting /\ Turns!Cardinality({k \in waiting : k < n}) <= 0 /\ again' = again
        \/ again < 0
    BY <1>1, <1>3, <1>4 DEF Turns!Deliver
  <2> QED BY <2>1
<1>6. {k \in waiting : k < n} = {}
  <2> DEFINE S == {k \in waiting : k < n}
  <2>1. IsFiniteSet(S)
    <3>1. IsFiniteSet(1..Len(F))
      BY <1>2, FS_Interval
    <3>2. S \subseteq 1..Len(F)
      BY <1>2, <1>4
    <3> QED BY <3>1, <3>2, FS_Subset
  <2>2. Cardinality(S) <= 0
    BY <1>5, SameCount
  <2>3. Cardinality(S) \in Nat /\ (Cardinality(S) = 0 <=> S = {})
    BY <2>1, FS_CardinalityType, FS_EmptySet
  <2> HIDE DEF S
  <2>4. S = {}
    BY <2>2, <2>3
  <2> QED BY <2>4 DEF S
<1>7. \A k \in 1..(n - 1) : F[k] = "read"
  <2> TAKE k \in 1..(n - 1)
  <2>1. n \in 1..Len(F) /\ n \in Nat
    BY <1>2, <1>4, <1>5
  <2>2. k \in 1..Len(F) /\ k < n
    BY <1>2, <2>1
  <2>3. F[k] # "sent"
    BY <1>2, <1>4, <1>6, <2>2
  <2> QED BY <1>2, <2>2, <2>3
<1> QED BY <1>1, <1>2, <1>4, <1>5, <1>7 DEF FirstUnread

\* A number that is next in a chain is not refused.
LEMMA NextIsNotRefused ==
  ASSUME NEW u, NEW s, NEW n, NEW i, NEW x, NEW root,
         Numbered(Envelope(u, n), Envelope(u, n).dh, root, x.ckr.step), IsChain(x.ckr),
         Advance(u, s, n, i, x)
  PROVE  /\ Suspend(u, s, [pc |-> "chain", sid |-> i, msg |-> n, chain |-> x.ckr])
         /\ Put(u, i, x) /\ UNCHANGED <<cur, stored, fate, cache>>
<1>1. x.ckr # None /\ x.ckr.step \in Nat /\ Envelope(u, n).ns = x.ckr.step
  BY ChainsAreSome DEF IsChain, Numbered
<1>2. ~(x.ckr = None \/ Envelope(u, n).ns < x.ckr.step \/ Envelope(u, n).ns - x.ckr.step > MaxSkipGap)
  BY <1>1, BoundsAssumption
<1> QED BY <1>2 DEF Advance

LEMMA DecryptTurns ==
  ASSUME KeyInv, TurnsInv, Slots = 1, NEW u \in Users, NEW s \in 1..Slots,
         NEW n, FirstUnread(relay[Peer(u)], fate[Peer(u)], n), NEW x, x = stored[u], x # None,
         cur[u] = 1, Decrypt(u, s, n, 1, x) \/ Turns!Decrypt(u, s, n, 1, x), UNCHANGED <<nextKey, relay>>
  PROVE  TurnsInv'
<1>1. PICK m : m = relay[Peer(u)][n] /\ m = Envelope(u, n)
  BY DEF Envelope
<1>2. AtRest(x) /\ x \in Sessions /\ x.skipped = <<>> /\ Secret(u, x) = x.dhs
  BY StoredKinds DEF AtRest, Secret
<1>3. PICK o, y : o = [pc |-> "dh", sid |-> 1, msg |-> n, root |-> ReadRoot(x, m.dh)] /\ y = [x EXCEPT !.pn = m.pn]
  OBVIOUS
<1>4. \/ m.dh # x.dhr /\ Suspend(u, s, o) /\ Put(u, 1, y) /\ UNCHANGED <<cur, stored, fate>>
      \/ m.dh = x.dhr /\ Advance(u, s, n, 1, x)
  <2>1. \A e : e \notin {d \in ToSet(x.skipped) : d.id = MsgId(m)}
    BY <1>2 DEF ToSet
  <2>2. \A e : e \notin {d \in Turns!ToSet(x.skipped) : d.id = Turns!MsgId(m)}
    BY <1>2 DEF Turns!ToSet
  <2>3. CASE Decrypt(u, s, n, 1, x)
    BY <1>1, <1>2, <1>3, <2>1, <2>3 DEF Decrypt, ReadRoot
  <2>4. CASE Turns!Decrypt(u, s, n, 1, x)
    <3>1. Turns!Envelope(u, n) = m /\ Turns!Secret(u, x) = x.dhs /\ \A a, b : Turns!DH(a, b) = DH(a, b)
      BY <1>1, <1>2 DEF Turns!Envelope, Envelope, Turns!Peer, Peer, Turns!Secret, Turns!DH, DH, AtRest
    <3>2. \/ m.dh # x.dhr /\ Turns!Suspend(u, s, o) /\ Turns!Put(u, 1, y) /\ UNCHANGED <<cur, stored, fate>>
          \/ m.dh = x.dhr /\ Turns!Advance(u, s, n, 1, x)
      BY <1>3, <2>2, <2>4, <3>1 DEF Turns!Decrypt, ReadRoot
    <3> QED BY <3>2, SameHelpers, SameOpen
  <2> QED BY <2>3, <2>4
<1>5. CASE m.dh # x.dhr /\ Suspend(u, s, o) /\ Put(u, 1, y) /\ UNCHANGED <<cur, stored, fate>>
  <2>1. y = [x EXCEPT !.pn = y.pn]
    BY <1>2, <1>3 DEF Sessions
  <2>2. Stepping(u, relay[Peer(u)], 1, o, x, y)
    BY <1>1, <1>3, <1>5, <2>1 DEF Stepping
  <2>3. Busy(u, relay[Peer(u)], fate[Peer(u)], 1, o, x, y)
    BY <1>3, <2>2 DEF Busy
  <2> QED BY <1>5, <2>3, CallTurns
<1>6. CASE m.dh = x.dhr /\ Advance(u, s, n, 1, x)
  <2>1. Numbered(m, x.dhr, x.ckr.root, x.ckr.step) /\ IsChain(x.ckr)
    BY <1>1, <1>6, NextArrives
  <2>2. PICK c : c = [pc |-> "chain", sid |-> 1, msg |-> n, chain |-> x.ckr]
    OBVIOUS
  <2>3. Suspend(u, s, c) /\ Put(u, 1, x) /\ UNCHANGED <<cur, stored, fate>>
    BY <1>1, <1>6, <2>1, <2>2, NextIsNotRefused
  <2>4. Unsealing(u, relay[Peer(u)], 1, c, x, x)
    BY <1>1, <1>6, <2>1, <2>2 DEF Unsealing, FirstOrNext
  <2>5. Busy(u, relay[Peer(u)], fate[Peer(u)], 1, c, x, x)
    BY <2>2, <2>4 DEF Busy
  <2> QED BY <2>3, <2>5, CallTurns
<1> QED BY <1>4, <1>5, <1>6

LEMMA RecvStartTurns ==
  ASSUME KeyInv, TurnsInv, again = 0, Slots = 1, NEW u \in Users, NEW s \in 1..Slots, Turns!RecvStart(u, s)
  PROVE  TurnsInv' /\ again' = again
<1>1. Turns!Peer(u) = Peer(u)
  BY DEF Turns!Peer, Peer
<1>2. PICK n : /\ Turns!Deliver(u, n) /\ op[u][s] = None /\ UNCHANGED <<nextKey, relay>>
               /\ IF cur[u] = 0
                  THEN Turns!Suspend(u, s, [pc |-> "bob", msg |-> n]) /\ UNCHANGED <<heap, cur, stored, fate, cache>>
                  ELSE Turns!Decrypt(u, s, n, cur[u], heap[u][cur[u]])
  BY DEF Turns!RecvStart
<1>3. s = 1 /\ op[u][1] = None
  BY <1>2
<1>4. FirstUnread(relay[Peer(u)], fate[Peer(u)], n) /\ again' = again
  BY <1>2, <1>3, InOrder
<1>5. /\ cur[u] = 0 => stored[u] = None
      /\ cur[u] # 0 => stored[u] # None /\ heap[u][cur[u]] = stored[u]
  <2>1. PICK o : o = op[u][1] /\ o = None
    BY <1>3
  <2>2. Idle(cur[u], o, stored[u], heap[u][cur[u]])
    BY <2>1, RestingCall
  <2> QED BY <2>2 DEF Idle
<1>6. CASE cur[u] = 0
  <2>1. PICK o : o = [pc |-> "bob", msg |-> n]
    OBVIOUS
  <2>2. Suspend(u, s, o) /\ UNCHANGED <<heap, cur, stored, fate>>
    BY <1>2, <1>6, <2>1, SameHelpers
  <2>3. o.msg = n
    BY <2>1
  <2>4. Meeting(u, relay[Peer(u)], fate[Peer(u)], 0, o, stored[u])
    BY <1>4, <1>5, <1>6, <2>1, <2>3 DEF Meeting
  <2> QED BY <1>2, <1>4, <1>6, <2>2, <2>4, MeetingTurns
<1>7. CASE cur[u] # 0
  <2>1. cur[u] = 1
    <3>1. PICK k : k = Len(heap[u])
      OBVIOUS
    <3>2. k \in Nat /\ k <= 1 /\ k = cur[u]
      BY <3>1 DEF KeyInv, ClientInv, TurnsInv, AtWork, IsSequence
    <3> QED BY <1>7, <3>2
  <2>2. PICK x : x = stored[u] /\ x # None
    BY <1>5, <1>7
  <2>3. Turns!Decrypt(u, s, n, 1, x)
    BY <1>2, <1>5, <1>7, <2>1, <2>2
  <2> QED BY <1>2, <1>4, <2>1, <2>2, <2>3, DecryptTurns
<1> QED BY <1>6, <1>7

LEMMA RecvBobTurns ==
  ASSUME KeyInv, TurnsInv, Slots = 1, NEW u \in Users, NEW s \in 1..Slots, RecvBob(u, s)
  PROVE  TurnsInv'
<1>1. PICK o, v : o = op[u][s] /\ v = Peer(u)
  OBVIOUS
<1>2. PICK n, m, x, c :
        /\ n = o.msg /\ m = relay[v][n] /\ x = InitializeAsBob(u, m.dh)
        /\ c = [pc |-> "chain", sid |-> Len(heap[u]) + 1, msg |-> n, chain |-> x.ckr]
        /\ o # None /\ o.pc = "bob" /\ Suspend(u, s, c) /\ Put(u, Len(heap[u]) + 1, x)
        /\ cur' = [cur EXCEPT ![u] = Len(heap[u]) + 1]
        /\ UNCHANGED <<stored, nextKey, relay, fate>>
  BY <1>1 DEF RecvBob, Envelope
<1>3. cur[u] = 0 /\ stored[u] = None /\ FirstUnread(relay[v], fate[v], n) /\ Len(heap[u]) = 0
  <2>1. /\ Busy(u, relay[v], fate[v], cur[u], o, stored[u], heap[u][cur[u]]) /\ cur[u] = Len(heap[u])
    BY <1>1, <1>2, CallAt
  <2>2. cur[u] = 0 /\ stored[u] = None /\ FirstUnread(relay[v], fate[v], n)
    BY <1>2, <2>1, WhichCall
  <2> QED BY <2>1, <2>2
<1>4. Len(heap[u]) + 1 = 1
  BY <1>3
<1>5. Numbered(m, stored[v].dhs, stored[v].rk, 0) /\ v \in Users /\ stored[v] # None
  BY <1>1, <1>2, <1>3, PeerIsOther, FirstArrives, RestIsSome
<1>6. PICK a, b, p, r : /\ a = IdentityKey(v) /\ b = IdentityKey(u) /\ p = SignedPrekey(u)
                        /\ r = X3DH(a, m.dh, b, p)
  OBVIOUS
<1>7. r \in Seq(Secrets)
  <2>1. m.dh \in Keys
    <3>1. SessionInv(v, stored[v])
      BY <1>5 DEF KeyInv, ClientInv
    <3>2. stored[v].dhs \in Keys
      BY <1>5, <3>1, KeysAreKeys DEF SessionInv
    <3> QED BY <1>5, <3>2 DEF Numbered
  <2>2. a \in Keys /\ b \in Keys /\ p \in Keys
    BY <1>5, <1>6 DEF IdentityKey, SignedPrekey, Keys
  <2> QED BY <1>6, <2>1, <2>2, HandshakeRoot
<1>8. x.ckr = [root |-> r, step |-> 0]
  BY <1>1, <1>2, <1>6 DEF InitializeAsBob, NewSession, Chain
<1>9. IsChain(x.ckr)
  BY <1>7, <1>8 DEF IsChain
<1>10. c = [pc |-> "chain", sid |-> 1, msg |-> c.msg, chain |-> x.ckr] /\ c.msg = n
  BY <1>2, <1>4
<1>11. Unsealing(u, relay[v], 1, c, None, x)
  BY <1>2, <1>9, <1>10 DEF Unsealing, FirstOrNext
<1>12. Busy(u, relay[Peer(u)], fate[Peer(u)], 1, c, stored[u], x)
  BY <1>1, <1>3, <1>10, <1>11 DEF Busy
<1> QED BY <1>2, <1>4, <1>12, CallTurns

LEMMA RecvDhTurns ==
  ASSUME KeyInv, TurnsInv, Slots = 1, NEW u \in Users, NEW s \in 1..Slots, RecvDh(u, s)
  PROVE  TurnsInv'
<1>1. PICK o, v, x, h : o = op[u][s] /\ v = Peer(u) /\ x = stored[u] /\ h = heap[u][cur[u]]
  OBVIOUS
<1>2. PICK n, m, k, z :
        /\ n = o.msg /\ m = Envelope(u, n) /\ k = <<u, nextKey[u]>>
        /\ z = DhRatchetRecv(heap[u][o.sid], o, m.dh, k)
        /\ o # None /\ o.pc = "dh" /\ Advance(u, s, n, o.sid, z)
        /\ nextKey' = [nextKey EXCEPT ![u] = @ + 1] /\ relay' = relay
  BY <1>1 DEF RecvDh
<1>3. cur[u] # 0 /\ FirstUnread(relay[v], fate[v], n) /\ Stepping(u, relay[v], cur[u], o, x, h) /\ cur[u] = 1
  <2>1. Busy(u, relay[v], fate[v], cur[u], o, x, h) /\ cur[u] \in {0, 1}
    BY <1>1, <1>2, CallAt
  <2> QED BY <1>2, <2>1, WhichCall
<1>4. m = relay[v][n]
  BY <1>1, <1>2 DEF Envelope
<1>5. /\ x # None /\ m.dh # x.dhr /\ o.sid = 1 /\ o.root = ReadRoot(x, m.dh) /\ h = [x EXCEPT !.pn = h.pn]
  BY <1>2, <1>3, <1>4 DEF Stepping
<1>6. AtRest(x) /\ x \in Sessions
  BY <1>1, <1>5, StoredKinds DEF AtRest
<1>7. Pair(v, u) /\ Numbered(m, stored[v].dhs, stored[v].rk, 0) /\ v \in Users
  BY <1>1, <1>3, <1>4, <1>5, NextArrives, PeerIsOther
<1>8. PICK r : r = ReadRoot(x, m.dh)
  OBVIOUS
<1>9. z = DhRatchetRecv(x, [root |-> r], m.dh, k)
  <2>1. PICK q : q = h.pn /\ h = [x EXCEPT !.pn = q]
    BY <1>5
  <2>2. heap[u][o.sid] = h
    BY <1>1, <1>3, <1>5
  <2> QED BY <1>2, <1>5, <1>6, <1>8, <2>1, <2>2 DEF DhRatchetRecv, Sessions
<1>10. z.ckr = [root |-> r, step |-> 0] /\ z.dhs = k
  BY <1>6, <1>9 DEF DhRatchetRecv, Chain, Sessions
<1>11. r \in Seq(Secrets)
  <2>1. m.dh \in Keys
    <3>1. SessionInv(v, stored[v])
      BY <1>7, RestIsSome DEF KeyInv, ClientInv, Pair
    <3>2. stored[v].dhs \in Keys
      BY <1>7, <3>1, KeysAreKeys DEF SessionInv
    <3> QED BY <1>7, <3>2 DEF Numbered
  <2>2. x.rk \in Seq(Secrets) /\ DH(m.dh, x.dhs) \in Secrets
    BY <1>6, <2>1 DEF Sessions, DH, Secrets
  <2> QED BY <1>8, <2>2, RootGrows DEF ReadRoot
<1>12. IsChain(z.ckr)
  BY <1>10, <1>11 DEF IsChain
<1>13. PICK c : c = [pc |-> "chain", sid |-> 1, msg |-> n, chain |-> z.ckr]
  OBVIOUS
<1>14. Suspend(u, s, c) /\ Put(u, 1, z) /\ UNCHANGED <<cur, stored, fate>>
  <2>1. Numbered(m, m.dh, stored[v].rk, z.ckr.step)
    <3>1. z.ckr.step = 0
      BY <1>10
    <3> QED BY <1>7, <3>1 DEF Numbered
  <2>2. Advance(u, s, n, 1, z)
    BY <1>2, <1>5
  <2> QED BY <1>2, <1>12, <1>13, <2>1, <2>2, NextIsNotRefused
<1>15. Unsealing(u, relay[v], 1, c, x, z)
  <2>1. FirstOrNext(u, x, z, m.dh)
    BY <1>5, <1>8, <1>9, <1>10 DEF FirstOrNext
  <2>2. c = [pc |-> "chain", sid |-> 1, msg |-> c.msg, chain |-> z.ckr] /\ c.msg = n
    BY <1>13
  <2> QED BY <1>4, <1>12, <2>1, <2>2 DEF Unsealing
<1>16. Busy(u, relay[Peer(u)], fate[Peer(u)], 1, c, stored[u], z)
  BY <1>1, <1>3, <1>13, <1>15 DEF Busy
<1>17. \A w \in Users \ {u} : nextKey'[w] = nextKey[w]
  BY <1>2 DEF KeyInv, Shape
<1> QED BY <1>2, <1>3, <1>14, <1>16, <1>17, CallTurns

LEMMA ReloadTurns ==
  ASSUME KeyInv, TurnsInv, Slots = 1, NEW u \in Users, Turns!Reload(u)
  PROVE  TurnsInv'
<1>1. /\ heap' = [heap EXCEPT ![u] = IF stored[u] = None THEN <<>> ELSE <<stored[u]>>]
      /\ cur' = [cur EXCEPT ![u] = IF stored[u] = None THEN 0 ELSE 1]
      /\ op' = [op EXCEPT ![u] = [s \in 1..Slots |-> None]]
      /\ UNCHANGED <<stored, nextKey, relay, fate>>
  BY DEF Turns!Reload, Turns!Deserialize
<1>2. Shape /\ 1 \in 1..Slots
  BY DEF KeyInv
<1>3. Elsewhere(u)
  BY <1>1, <1>2 DEF Shape, Elsewhere
<1>4. op'[u][1] = None
  BY <1>1, <1>2 DEF Shape
<1>5. AtWork(u)'
  <2>1. CASE stored[u] = None
    <3>1. heap'[u] = <<>> /\ cur'[u] = 0
      BY <1>1, <1>2, <2>1 DEF Shape
    <3>2. Len(heap'[u]) = 0
      BY <3>1
    <3>3. Idle(cur'[u], op'[u][1], stored'[u], heap'[u][cur'[u]])
      BY <1>1, <1>4, <2>1, <3>1 DEF Idle
    <3> QED BY <3>1, <3>2, <3>3 DEF AtWork, Busy
  <2>2. CASE stored[u] # None
    <3>1. heap'[u] = <<stored[u]>> /\ cur'[u] = 1
      BY <1>1, <1>2, <2>2 DEF Shape
    <3>2. Len(heap'[u]) = 1 /\ heap'[u][1] = stored[u]
      BY <3>1
    <3>3. Idle(cur'[u], op'[u][1], stored'[u], heap'[u][cur'[u]])
      BY <1>1, <1>4, <2>2, <3>1, <3>2 DEF Idle
    <3> QED BY <3>1, <3>2, <3>3 DEF AtWork, Busy
  <2> QED BY <2>1, <2>2
<1> QED BY <1>1, <1>3, <1>5, QuietTurn

\* The key the chain gives is the one the envelope was sealed with.
LEMMA KeyFits ==
  ASSUME KeyInv, TurnsInv, NEW u \in Users, NEW v, v = Peer(u), NEW x, x = stored[u],
         NEW n, FirstUnread(relay[v], fate[v], n), NEW m, m = relay[v][n],
         NEW h, FirstOrNext(u, x, h, m.dh), IsChain(h.ckr), h.dhs \in Keys
  PROVE  /\ m.key = h.ckr /\ m.ns = h.ckr.step /\ m.dh \in Keys /\ MsgId(m) \notin h.seen
         /\ h \in Sessions /\ ~h.wiped /\ h.skipped = <<>>
<1>1. v \in Users /\ DOMAIN relay[v] = 1..Len(relay[v]) /\ n \in 1..Len(relay[v])
  BY PeerIsOther, FatesOf, SequenceOf DEF FirstUnread
<1>2. m.dh \in Keys
  <2>1. Made(v, m.dh)
    BY <1>1 DEF KeyInv, EnvelopeInv
  <2> QED BY <1>1, <2>1, KeysAreKeys
<1>3. PICK y : y = stored[v]
  OBVIOUS
<1>4. h.ckr = [root |-> h.ckr.root, step |-> h.ckr.step]
  BY DEF IsChain
<1>5. CASE x = None /\ h = InitializeAsBob(u, m.dh)
  <2>1. Greeted(v, u, y) /\ Numbered(m, y.dhs, y.rk, 0)
    BY <1>3, <1>5, FirstArrives
  <2>2. y.rk = X3DH(IdentityKey(v), m.dh, IdentityKey(u), SignedPrekey(u))
    BY <2>1 DEF Greeted, Numbered
  <2>3. h = [dhs |-> SignedPrekey(u), wiped |-> FALSE, dhr |-> m.dh, rk |-> y.rk, cks |-> None,
             ckr |-> [root |-> y.rk, step |-> 0], ns |-> 0, pn |-> 0, skipped |-> <<>>, seen |-> {},
             pending |-> FALSE, fresh |-> FALSE]
    BY <1>5, <2>2 DEF InitializeAsBob, NewSession, Chain
  <2>4. m.key = h.ckr /\ m.ns = h.ckr.step /\ MsgId(m) \notin h.seen
    BY <2>1, <2>3 DEF Numbered
  <2>5. h.ckr \in Chains /\ y.rk \in Seq(Secrets)
    <3>1. h.ckr.root = y.rk
      BY <2>3
    <3> QED BY <3>1, ChainsAreSome DEF IsChain
  <2>6. [root |-> y.rk, step |-> 0] \in Chains /\ SignedPrekey(u) \in Keys
    BY <2>5 DEF Chains, SignedPrekey, Keys
  <2>7. h \in Sessions /\ ~h.wiped /\ h.skipped = <<>>
    BY <1>2, <2>3, <2>5, <2>6 DEF Sessions
  <2> QED BY <1>2, <2>4, <2>7
<1>6. CASE x # None /\ m.dh = x.dhr /\ h = x
  <2>1. Numbered(m, x.dhr, x.ckr.root, x.ckr.step) /\ MsgId(m) \notin x.seen
    BY <1>6, NextArrives
  <2>2. AtRest(x)
    BY <1>6, StoredKinds
  <2> QED BY <1>2, <1>4, <1>6, <2>1, <2>2 DEF Numbered, AtRest
<1>7. CASE x # None /\ m.dh # x.dhr /\ h = DhRatchetRecv(x, [root |-> ReadRoot(x, m.dh)], m.dh, h.dhs)
  <2>1. Behind(v, u, y, x) /\ Numbered(m, y.dhs, y.rk, 0) /\ MsgId(m) \notin x.seen
    BY <1>3, <1>7, NextArrives
  <2>2. y.rk = ReadRoot(x, m.dh)
    <3>1. y.rk = Append(x.rk, DH(x.dhs, y.dhs)) /\ m.dh = y.dhs
      BY <2>1 DEF Behind, Numbered
    <3>2. DH(x.dhs, y.dhs) = DH(y.dhs, x.dhs)
      BY DEF DH
    <3> QED BY <3>1, <3>2 DEF ReadRoot
  <2>3. AtRest(x) /\ x \in Sessions
    BY <1>7, StoredKinds DEF AtRest
  <2>4. PICK k, r : k = h.dhs /\ r = y.rk
    OBVIOUS
  <2>5. h = [x EXCEPT !.rk = r, !.ckr = [root |-> r, step |-> 0], !.pn = x.ns, !.dhr = m.dh, !.dhs = k,
                      !.wiped = FALSE, !.fresh = TRUE, !.pending = TRUE]
    BY <1>7, <2>2, <2>4 DEF DhRatchetRecv, Chain
  <2>6. h.ckr = [root |-> r, step |-> 0] /\ h.seen = x.seen
    BY <2>3, <2>5 DEF Sessions
  <2>7. r \in Seq(Secrets) /\ [root |-> r, step |-> 0] \in Chains
    <3>1. h.ckr.root = r
      BY <2>6
    <3> QED BY <2>6, <3>1, ChainsAreSome DEF IsChain
  <2>8. h \in Sessions /\ ~h.wiped /\ h.skipped = <<>>
    BY <1>2, <2>3, <2>4, <2>5, <2>7 DEF Sessions, AtRest
  <2>9. m.key = h.ckr /\ m.ns = h.ckr.step /\ MsgId(m) \notin h.seen
    BY <2>1, <2>4, <2>6 DEF Numbered
  <2> QED BY <1>2, <2>8, <2>9
<1> QED BY <1>5, <1>6, <1>7 DEF FirstOrNext

LEMMA ReadsOnward ==
  ASSUME KeyInv, TurnsInv, NEW u \in Users, NEW v, v = Peer(u), NEW x, x = stored[u],
         NEW n, FirstUnread(relay[v], fate[v], n), NEW m, m = relay[v][n],
         NEW h, FirstOrNext(u, x, h, m.dh), IsChain(h.ckr), h.dhs \in Keys,
         NEW z, z = [h EXCEPT !.ckr = NextChain(h.ckr), !.seen = @ \cup {MsgId(m)}], ReadIt(u, v, n, z)
  PROVE  AtRest(z) /\ \E w \in Users : Pair(w, Peer(w))'
<1>1. /\ m.key = h.ckr /\ m.ns = h.ckr.step /\ m.dh \in Keys /\ MsgId(m) \notin h.seen
      /\ h \in Sessions /\ ~h.wiped /\ h.skipped = <<>>
  BY KeyFits
<1>2. NextChain(h.ckr) = [root |-> h.ckr.root, step |-> h.ckr.step + 1]
      /\ [root |-> h.ckr.root, step |-> h.ckr.step + 1] \in Chains /\ m.ns \in Nat
  BY <1>1 DEF NextChain, IsChain, Chains
<1>3. PICK c, e : c = [root |-> h.ckr.root, step |-> h.ckr.step + 1] /\ e = h.seen \cup {MsgId(m)}
  OBVIOUS
<1>4. z = [h EXCEPT !.ckr = c, !.seen = e] /\ e \subseteq Keys \X Nat /\ c \in Chains
  <2>1. MsgId(m) \in Keys \X Nat
    BY <1>1, <1>2 DEF MsgId
  <2>2. h.seen \subseteq Keys \X Nat
    BY <1>1 DEF Sessions
  <2>3. z = [h EXCEPT !.ckr = c, !.seen = e]
    BY <1>1, <1>2, <1>3 DEF Sessions
  <2> QED BY <1>2, <1>3, <2>1, <2>2, <2>3
<1>5. /\ z.dhs = h.dhs /\ z.wiped = h.wiped /\ z.dhr = h.dhr /\ z.rk = h.rk /\ z.cks = h.cks /\ z.ckr = c
      /\ z.ns = h.ns /\ z.skipped = <<>> /\ z.seen = e /\ z.pending = h.pending /\ z.fresh = h.fresh
  BY <1>1, <1>4 DEF Sessions
<1>6. AtRest(z)
  <2>1. z \in Sessions
    BY <1>1, <1>4 DEF Sessions
  <2> QED BY <1>1, <1>5, <2>1 DEF AtRest
<1>7. CASE x = None /\ h = InitializeAsBob(u, m.dh)
  <2>1. Greeted(v, u, stored[v]) /\ Numbered(m, stored[v].dhs, stored[v].rk, 0)
    BY <1>7, FirstArrives
  <2>2. stored[v].rk = X3DH(IdentityKey(v), m.dh, IdentityKey(u), SignedPrekey(u)) /\ m.dh = stored[v].dhs
    BY <2>1 DEF Greeted, Numbered
  <2>3. h = [dhs |-> SignedPrekey(u), wiped |-> FALSE, dhr |-> m.dh, rk |-> stored[v].rk, cks |-> None,
             ckr |-> [root |-> stored[v].rk, step |-> 0], ns |-> 0, pn |-> 0, skipped |-> <<>>, seen |-> {},
             pending |-> FALSE, fresh |-> FALSE]
    BY <1>7, <2>2 DEF InitializeAsBob, NewSession, Chain
  <2>4. /\ z.dhr = stored[v].dhs /\ z.rk = stored[v].rk /\ z.cks = None /\ z.ns = 0 /\ ~z.pending
        /\ ~z.fresh /\ z.ckr = [root |-> stored[v].rk, step |-> 1] /\ z.seen = {MsgId(relay[v][n])}
    BY <1>3, <1>5, <2>2, <2>3
  <2>5. Pair(v, u)' /\ v \in Users /\ u = Peer(v)
    BY <1>6, <1>7, <2>4, ReadsFirst, PeerIsOther, OtherIsPeer
  <2> QED BY <1>6, <2>5
<1>8. CASE x # None /\ m.dh = x.dhr /\ h = x
  <2>1. WritesAlike(x, z) /\ z.pending = x.pending /\ z.fresh = x.fresh
    BY <1>5, <1>8 DEF WritesAlike
  <2>2. ReadOn(x, z, m)
    BY <1>3, <1>5, <1>8 DEF ReadOn
  <2>3. \E w \in Users : Pair(w, Peer(w))'
    BY <1>6, <1>8, <2>1, <2>2, ReadsNext
  <2> QED BY <1>6, <2>3
<1>9. CASE x # None /\ m.dh # x.dhr /\ h = DhRatchetRecv(x, [root |-> ReadRoot(x, m.dh)], m.dh, h.dhs)
  <2>1. x \in Sessions
    BY <1>9, StoredKinds DEF AtRest
  <2>2. PICK k, r : k = h.dhs /\ r = ReadRoot(x, m.dh)
    OBVIOUS
  <2>3. h = [x EXCEPT !.rk = r, !.ckr = [root |-> r, step |-> 0], !.pn = x.ns, !.dhr = m.dh, !.dhs = k,
                      !.wiped = FALSE, !.fresh = TRUE, !.pending = TRUE]
    BY <1>9, <2>2 DEF DhRatchetRecv, Chain
  <2>4. /\ h.rk = r /\ h.ckr = [root |-> r, step |-> 0] /\ h.dhr = m.dh /\ h.fresh = TRUE /\ h.pending = TRUE
        /\ h.cks = x.cks /\ h.ns = x.ns /\ h.seen = x.seen
    BY <2>1, <2>3 DEF Sessions
  <2>5. /\ z.pending /\ z.fresh /\ z.cks = x.cks /\ z.ns = x.ns /\ z.dhr = relay[v][n].dh
        /\ z.rk = ReadRoot(x, relay[v][n].dh) /\ z.ckr = [root |-> z.rk, step |-> 1]
        /\ z.seen = x.seen \cup {MsgId(relay[v][n])}
    BY <1>3, <1>5, <2>2, <2>4
  <2>6. \E w \in Users : Pair(w, Peer(w))'
    BY <1>6, <1>9, <2>5, ReadsTurn
  <2> QED BY <1>6, <2>6
<1> QED BY <1>7, <1>8, <1>9 DEF FirstOrNext

LEMMA RecvChainTurns ==
  ASSUME KeyInv, TurnsInv, Slots = 1, NEW u \in Users, NEW s \in 1..Slots, RecvChain(u, s)
  PROVE  TurnsInv'
<1>1. PICK o, v, x, h : o = op[u][s] /\ v = Peer(u) /\ x = stored[u] /\ h = heap[u][cur[u]]
  OBVIOUS
<1>2. /\ Busy(u, relay[v], fate[v], cur[u], o, x, h) /\ cur[u] \in {0, 1}
      /\ (cur[u] # 0 => SessionInv(u, h)) /\ o # None /\ o.pc = "chain"
  <2>1. o # None /\ o.pc = "chain"
    BY <1>1 DEF RecvChain
  <2> QED BY <1>1, <2>1, CallAt
<1>3. cur[u] = 1 /\ FirstUnread(relay[v], fate[v], o.msg) /\ Unsealing(u, relay[v], 1, o, x, h)
  BY <1>2, WhichCall
<1>4. PICK n, m : n = o.msg /\ m = relay[v][n]
  OBVIOUS
<1>5. o.sid = 1 /\ o.chain = h.ckr /\ IsChain(h.ckr) /\ FirstOrNext(u, x, h, m.dh)
  BY <1>3, <1>4 DEF Unsealing
<1>6. h.dhs \in Keys
  BY <1>2, <1>3, KeysAreKeys DEF SessionInv
<1>7. /\ m.key = h.ckr /\ m.ns = h.ckr.step /\ m.dh \in Keys /\ MsgId(m) \notin h.seen
      /\ h \in Sessions /\ ~h.wiped /\ h.skipped = <<>>
  BY <1>1, <1>3, <1>4, <1>5, <1>6, KeyFits
<1>8. ~(o.chain.step < m.ns)
  BY <1>5, <1>7 DEF IsChain
<1>9. PICK y : y = [h EXCEPT !.ckr = NextChain(o.chain)]
  OBVIOUS
<1>10. Open(u, s, n, 1, y, o.chain) /\ UNCHANGED <<nextKey, relay>>
  <2>1. Envelope(u, n) = m /\ heap[u][o.sid] = h
    BY <1>1, <1>3, <1>4, <1>5 DEF Envelope
  <2> QED BY <1>1, <1>4, <1>5, <1>8, <1>9, <2>1 DEF RecvChain
<1>11. y.seen = h.seen
  BY <1>7, <1>9 DEF Sessions
<1>12. PICK z : z = [h EXCEPT !.ckr = NextChain(h.ckr), !.seen = @ \cup {MsgId(m)}]
  OBVIOUS
<1>13. Finish(u, s, n, 1, z, "read")
  <2>1. Envelope(u, n) = m
    BY <1>1, <1>4 DEF Envelope
  <2>2. z = [y EXCEPT !.seen = @ \cup {MsgId(m)}]
    BY <1>5, <1>7, <1>9, <1>12 DEF Sessions
  <2>3. o.chain = m.key /\ MsgId(m) \notin y.seen
    BY <1>5, <1>7, <1>11
  <2> QED BY <1>10, <2>1, <2>2, <2>3 DEF Open
<1>14. /\ Suspend(u, s, None) /\ Put(u, 1, z) /\ Persist(u, 1, z) /\ cur' = cur
       /\ fate' = [fate EXCEPT ![v][n] = IF @ = "read" THEN @ ELSE "read"]
  BY <1>1, <1>13 DEF Finish, Return
<1>15. /\ Shape /\ FateShape /\ v \in Users /\ v # u /\ IsSequence(fate[v]) /\ DOMAIN fate[v] = 1..Len(fate[v])
       /\ n \in 1..Len(fate[v])
  BY <1>1, <1>3, <1>4, PeerIsOther, FatesOf, SequenceOf DEF KeyInv, TurnsInv, FirstUnread
<1>16. /\ fate'[v] = [fate[v] EXCEPT ![n] = "read"] /\ \A w \in Users \ {v} : fate'[w] = fate[w]
       /\ fate' = [w \in Users |-> fate'[w]]
  BY <1>14, <1>15 DEF FateShape
<1>17. /\ stored'[u] = z
       /\ \A w \in Users \ {u} : nextKey'[w] = nextKey[w] /\ stored'[w] = stored[w] /\ relay'[w] = relay[w]
  BY <1>3, <1>10, <1>14, <1>15 DEF Shape, Persist
<1>18. ReadIt(u, v, n, z)
  BY <1>10, <1>15, <1>16, <1>17 DEF ReadIt, Marked
<1>19. AtRest(z) /\ \E w \in Users : Pair(w, Peer(w))'
  BY <1>1, <1>3, <1>4, <1>5, <1>6, <1>12, <1>18, ReadsOnward
<1>20. Busy(u, relay'[Peer(u)], fate'[Peer(u)], 1, None, stored'[u], z)
  BY <1>17, <1>19, RestIsSome DEF Busy, Idle
<1>21. Elsewhere(u) /\ AtWork(u)'
  <2>1. AtWork(u) /\ ((cur' = cur /\ cur[u] # 0) \/ cur' = [cur EXCEPT ![u] = 1])
    BY <1>3, <1>14 DEF TurnsInv
  <2> QED BY <1>14, <1>17, <1>20, <2>1, CallOf
<1>22. FateShape'
  <2>1. IsSequence(fate'[v])
    <3> DEFINE S == {fate[v][i] : i \in 1..Len(fate[v])} \cup {"read"}
    <3>1. fate[v] \in Seq({fate[v][i] : i \in 1..Len(fate[v])})
      BY <1>15, SequenceOf
    <3>2. fate[v] \in Seq(S) /\ "read" \in S
      BY <3>1, SeqMonotonic
    <3> HIDE DEF S
    <3>3. fate'[v] \in Seq(S)
      BY <1>15, <1>16, <3>2, ExceptSeq
    <3> QED BY <3>3, IsOne
  <2>2. \A w \in Users \ {v} : IsSequence(fate'[w])
    BY <1>15, <1>16 DEF FateShape
  <2> QED BY <1>16, <2>1, <2>2 DEF FateShape
<1>23. relay'[u] = relay[u] /\ fate'[u] = fate[u]
  BY <1>10, <1>15, <1>16
<1> QED BY <1>19, <1>21, <1>22, <1>23, TurnOf
-----------------------------------------------------------------------------
(* "turns" as a whole: what its invariant says of the roots, the kept keys  *)
(* and the fates.                                                           *)

LEMMA TurnsInvInit ==
  ASSUME Init, Slots = 1
  PROVE  TurnsInv /\ again = 0
<1>1. \A u \in Users : /\ heap[u] = <<>> /\ cur[u] = 0 /\ stored[u] = None
                       /\ relay[u] = <<>> /\ fate[u] = <<>> /\ op[u][1] = None
  BY DEF Init
<1>2. FateShape
  <2>1. fate = [u \in Users |-> fate[u]]
    BY DEF Init
  <2>2. IsSequence(<<>>)
    BY DEF IsSequence
  <2> QED BY <1>1, <2>1, <2>2 DEF FateShape
<1>3. \A u \in Users : AtWork(u)
  BY <1>1 DEF AtWork, Busy, Idle
<1> QED BY <1>1, <1>2, <1>3 DEF TurnsInv, Unmet, Init

LEMMA TurnsStutter ==
  ASSUME KeyInv, TurnsInv, UNCHANGED vars
  PROVE  TurnsInv' /\ again' = again
<1>1. UNCHANGED <<heap, cur, stored, op, relay, fate, again>>
  BY DEF vars, sessionVars, bounds
<1>2. FateShape'
  BY <1>1 DEF TurnsInv, FateShape
<1>3. Unmet' \/ \E w \in Users : Pair(w, Peer(w))'
  BY <1>1, SamePair DEF TurnsInv
<1>4. ASSUME NEW v \in Users PROVE AtWork(v)'
  <2>1. AtWork(v) /\ Peer(v) \in Users
    BY PeerIsOther DEF TurnsInv
  <2>2. IsSequence(relay[Peer(v)]) /\ IsSequence(fate[Peer(v)]) /\ Len(fate[Peer(v)]) = Len(relay[Peer(v)])
    BY <2>1, FatesOf
  <2> QED BY <1>1, <2>1, <2>2, OtherAtWork
<1> QED BY <1>1, <1>2, <1>3, <1>4 DEF TurnsInv

LEMMA TurnsNext ==
  ASSUME KeyInv, TurnsInv, again = 0, Slots = 1, ~BundleMayFail, NEW f, FirstSpeakers \subseteq {f},
         \A u \in Users : TurnsSent[u] <= Rotation, Turns!Next
  PROVE  TurnsInv' /\ again' = 0
<1>1. PICK u \in Users :
        \/ \E s \in 1..Slots : Turns!SendSteps(u, s) \/ Turns!RecvSteps(u, s)
        \/ Turns!Reload(u)
  BY DEF Turns!Next
<1>2. ASSUME NEW s \in 1..Slots, Turns!SendSteps(u, s) PROVE TurnsInv' /\ again' = 0
  <2>1. \/ Turns!SendStart(u, s) \/ Turns!BundleAnswer(u, s)
        \/ Turns!SendRatchet(u, s) \/ Turns!SendKey(u, s)
    BY <1>2 DEF Turns!SendSteps
  <2>2. again' = 0
    BY <2>1 DEF Turns!SendStart, Turns!BundleAnswer, Turns!SendRatchet, Turns!SendKey, Turns!bounds
  <2>3. TurnsSent[u] <= Rotation
    OBVIOUS
  <2>4. TurnsInv'
    <3>1. Turns!SendStart(u, s) \/ BundleAnswer(u, s) \/ SendRatchet(u, s) \/ SendKey(u, s)
      BY <2>1, SameSends
    <3>2. CASE Turns!SendStart(u, s)
      BY <2>3, <3>2, SendStartTurns
    <3>3. CASE BundleAnswer(u, s)
      BY <3>3, BundleTurns
    <3>4. CASE SendRatchet(u, s)
      BY <3>4, SendRatchetTurns
    <3>5. CASE SendKey(u, s)
      BY <3>5, SendKeyTurns
    <3> QED BY <3>1, <3>2, <3>3, <3>4, <3>5
  <2> QED BY <2>2, <2>4
<1>3. ASSUME NEW s \in 1..Slots, Turns!RecvSteps(u, s) PROVE TurnsInv' /\ again' = 0
  <2>1. Turns!RecvStart(u, s) \/ Turns!RecvBob(u, s) \/ Turns!RecvDh(u, s) \/ Turns!RecvChain(u, s)
    BY <1>3 DEF Turns!RecvSteps
  <2>2. CASE Turns!RecvStart(u, s)
    BY <2>2, RecvStartTurns
  <2>3. CASE Turns!RecvBob(u, s)
    <3>1. RecvBob(u, s) /\ again' = 0
      BY <2>3, SameSends DEF Turns!RecvBob, Turns!bounds
    <3> QED BY <3>1, RecvBobTurns
  <2>4. CASE Turns!RecvDh(u, s)
    <3>1. RecvDh(u, s) /\ again' = 0
      BY <2>4, SameRecvDh DEF Turns!RecvDh, Turns!bounds
    <3> QED BY <3>1, RecvDhTurns
  <2>5. CASE Turns!RecvChain(u, s)
    <3>1. RecvChain(u, s) /\ again' = 0
      BY <2>5, SameRecvChain DEF Turns!RecvChain, Turns!bounds
    <3> QED BY <3>1, RecvChainTurns
  <2> QED BY <2>1, <2>2, <2>3, <2>4, <2>5
<1>4. CASE Turns!Reload(u)
  <2>1. again' = 0
    BY <1>4 DEF Turns!Reload
  <2> QED BY <1>4, <2>1, ReloadTurns
<1> QED BY <1>1, <1>2, <1>3, <1>4

\* In the turns every fate is "sent" or "read".
LEMMA TurnsAreRead == ASSUME KeyInv, TurnsInv PROVE EveryMessageRead
<1> SUFFICES ASSUME NEW u \in Users, NEW i \in DOMAIN fate[u] PROVE fate[u][i] \in {"sent", "read"}
  BY DEF EveryMessageRead
<1>1. IsSequence(fate[u]) /\ Len(fate[u]) = Len(relay[u])
  BY FatesOf
<1>2. i \in 1..Len(relay[u])
  <2> DEFINE F == fate[u]
  <2>1. IsSequence(F) /\ i \in DOMAIN F /\ Len(F) = Len(relay[u])
    BY <1>1
  <2> HIDE DEF F
  <2> QED BY <2>1, SequenceOf
<1> QED BY <1>2, FatesOf

\* What is in memory of a session, by what is stored of it and of the peer's.
InStep(u, v, x, h) ==
    /\ h.skipped = <<>>
    /\ \/ x # None /\ h.rk = x.rk
       \/ x # None /\ MustTurn(x) /\ \E d : h.rk = Append(x.rk, d)
       \/ Pair(v, u) /\ stored[v] # None /\ h.rk = stored[v].rk

LEMMA InMemory ==
  ASSUME KeyInv, TurnsInv, NEW u \in Users, cur[u] # 0
  PROVE  InStep(u, Peer(u), stored[u], heap[u][cur[u]])
<1>0. PICK v, x, h : v = Peer(u) /\ x = stored[u] /\ h = heap[u][cur[u]]
  OBVIOUS
<1> SUFFICES /\ h.skipped = <<>>
             /\ \/ x # None /\ h.rk = x.rk
                \/ x # None /\ MustTurn(x) /\ \E d : h.rk = Append(x.rk, d)
                \/ Pair(v, u) /\ stored[v] # None /\ h.rk = stored[v].rk
  BY <1>0 DEF InStep
<1>1. PICK i, o, R, F :
        i = cur[u] /\ o = op[u][1] /\ R = relay[v] /\ F = fate[v] /\ i # 0 /\ Busy(u, R, F, i, o, x, h)
  BY <1>0 DEF TurnsInv, AtWork
<1>2. x # None => x \in Sessions /\ x.skipped = <<>>
  BY <1>0, StoredKinds DEF AtRest
<1>3. CASE Idle(i, o, x, h)
  BY <1>1, <1>2, <1>3 DEF Idle
<1>4. CASE x # None /\ Turning(i, o, x, h)
  <2>1. h = Emptied(x)
    BY <1>4 DEF Turning
  <2> QED BY <1>2, <1>4, <2>1 DEF Emptied, Sessions
<1>5. CASE x # None /\ Sealing(i, o, x, h)
  <2>1. h = x \/ (MustTurn(x) /\ h = Turned(x, h.dhs))
    BY <1>5 DEF Sealing
  <2>2. CASE h = x
    BY <1>2, <1>5, <2>2
  <2>3. CASE MustTurn(x) /\ h = Turned(x, h.dhs)
    <3>1. PICK k : k = h.dhs /\ h = Turned(x, k)
      BY <2>3
    <3>2. PICK d : d = DH(x.dhr, k)
      OBVIOUS
    <3>3. h.skipped = <<>> /\ h.rk = Append(x.rk, d)
      BY <1>2, <1>5, <3>1, <3>2 DEF Turned, DhRatchetSend, TurnedRoot, Emptied, Sessions
    <3> QED BY <1>5, <2>3, <3>3
  <2> QED BY <2>1, <2>2, <2>3
<1>6. CASE x # None /\ Stepping(u, R, i, o, x, h)
  <2>1. PICK p : h = [x EXCEPT !.pn = p]
    BY <1>6 DEF Stepping
  <2> QED BY <1>2, <1>6, <2>1 DEF Sessions
<1>7. CASE FirstUnread(R, F, o.msg) /\ Unsealing(u, R, i, o, x, h)
  <2>1. PICK n, e : n = o.msg /\ e = R[n].dh
    OBVIOUS
  <2>2. FirstUnread(relay[v], fate[v], n) /\ FirstOrNext(u, x, h, e)
    BY <1>1, <1>7, <2>1 DEF Unsealing
  <2>3. CASE x = None /\ h = InitializeAsBob(u, e)
    <3>1. Pair(v, u) /\ Greeted(v, u, stored[v]) /\ AtRest(stored[v]) /\ e = stored[v].dhs
      <4>1. Pair(v, u) /\ Greeted(v, u, stored[v]) /\ AtRest(stored[v])
        BY <1>0, <2>2, <2>3, FirstArrives
      <4>2. Numbered(relay[v][n], stored[v].dhs, stored[v].rk, 0)
        BY <1>0, <2>2, <2>3, FirstArrives
      <4> QED BY <1>1, <2>1, <4>1, <4>2 DEF Numbered
    <3>2. stored[v].rk = X3DH(IdentityKey(v), e, IdentityKey(u), SignedPrekey(u))
      BY <3>1 DEF Greeted
    <3>3. h.rk = stored[v].rk /\ h.skipped = <<>>
      BY <1>0, <2>3, <3>2 DEF InitializeAsBob, NewSession
    <3> QED BY <3>1, <3>3, RestIsSome
  <2>4. CASE x # None /\ h = x
    BY <1>2, <2>4
  <2>5. CASE x # None /\ e # x.dhr /\ h = DhRatchetRecv(x, [root |-> ReadRoot(x, e)], e, h.dhs)
    <3>1. Pair(v, u) /\ Behind(v, u, stored[v], x) /\ Numbered(relay[v][n], stored[v].dhs, stored[v].rk, 0)
      BY <1>0, <1>1, <2>1, <2>2, <2>5, NextArrives
    <3>2. stored[v].rk = Append(x.rk, DH(x.dhs, stored[v].dhs)) /\ e = stored[v].dhs
      BY <1>1, <2>1, <3>1 DEF Behind, Numbered
    <3>3. PICK k : h = DhRatchetRecv(x, [root |-> ReadRoot(x, e)], e, k)
      BY <2>5
    <3>4. h.rk = ReadRoot(x, e) /\ h.skipped = <<>>
      BY <1>2, <2>5, <3>3 DEF DhRatchetRecv, Sessions
    <3>5. DH(x.dhs, e) = DH(e, x.dhs)
      BY DEF DH
    <3>6. stored[v] # None
      <4>1. v \in Users /\ Peer(v) = u
        BY <1>0, PeerIsOther, OtherIsPeer
      <4> QED BY <3>1, RestIsSome DEF Pair
    <3> QED BY <3>1, <3>2, <3>4, <3>5, <3>6 DEF ReadRoot
  <2> QED BY <2>2, <2>3, <2>4, <2>5 DEF FirstOrNext
<1>8. ~Meeting(u, R, F, i, o, x)
  BY <1>1 DEF Meeting
<1>9. \/ Idle(i, o, x, h) \/ (x # None /\ Turning(i, o, x, h)) \/ (x # None /\ Sealing(i, o, x, h))
      \/ (x # None /\ Stepping(u, R, i, o, x, h))
      \/ (FirstUnread(R, F, o.msg) /\ Unsealing(u, R, i, o, x, h))
  BY <1>1, <1>8 DEF Busy, Stepping
<1> QED BY <1>3, <1>4, <1>5, <1>6, <1>7, <1>9

LEMMA PrefixOf ==
  ASSUME NEW r \in Seq(Secrets), NEW q \in Seq(Secrets), Len(r) <= Len(q),
         \A i \in 1..Len(r) : q[i] = r[i]
  PROVE  IsPrefix(r, q)
<1>1. SubSeq(q, 1, Len(r)) = SubSeq(r, 1, Len(r))
  OBVIOUS
<1> QED BY <1>1 DEF IsPrefix

\* r, or r one ratchet on.
LEMMA NearRoots ==
  ASSUME NEW r \in Seq(Secrets), NEW d, NEW a, NEW b, Append(r, d) \in Seq(Secrets),
         a \in {r, Append(r, d)}, b \in {r, Append(r, d)}
  PROVE  IsPrefix(a, b) \/ IsPrefix(b, a)
<1>1. PICK q : q = Append(r, d)
  OBVIOUS
<1>2. q \in Seq(Secrets) /\ Len(r) <= Len(q) /\ \A i \in 1..Len(r) : q[i] = r[i]
  <2>1. Len(q) = Len(r) + 1 /\ Len(r) \in Nat /\ \A i \in 1..Len(r) : q[i] = r[i]
    <3> DEFINE S == Secrets \cup {d}
    <3>1. r \in Seq(S) /\ d \in S
      <4>1. Secrets \subseteq S /\ d \in S
        OBVIOUS
      <4> HIDE DEF S
      <4> QED BY <4>1, SeqMonotonic
    <3> HIDE DEF S
    <3> QED BY <1>1, <3>1
  <2> QED BY <1>1, <2>1
<1>3. IsPrefix(r, q) /\ IsPrefix(r, r) /\ IsPrefix(q, q)
  <2>1. Len(r) \in Nat /\ Len(q) \in Nat
    BY <1>2
  <2> QED BY <1>2, <2>1, PrefixOf
<1> QED BY <1>1, <1>3

\* One pair of users: of any two, either they are the same or one is the other's peer.
LEMMA TurnsRoots == ASSUME KeyInv, TurnsInv PROVE RootsAgree
<1> SUFFICES ASSUME NEW a \in Users, NEW b \in Users, cur[a] # 0, cur[b] # 0
             PROVE  IsPrefix(Root(a), Root(b)) \/ IsPrefix(Root(b), Root(a))
  BY DEF RootsAgree
<1>1. \A u \in Users : cur[u] # 0 => SessionInv(u, heap[u][cur[u]]) /\ Root(u) \in Seq(Secrets)
  BY DEF KeyInv, ClientInv, SessionInv, Root
<1>2. CASE Unmet
  <2>1. stored[a] = None /\ stored[Peer(a)] = None
    BY <1>2, PeerIsOther DEF Unmet
  <2>2. InStep(a, Peer(a), stored[a], heap[a][cur[a]])
    BY InMemory
  <2> QED BY <2>1, <2>2 DEF InStep
<1>3. CASE \E u \in Users : Pair(u, Peer(u))
  <2>1. PICK w \in Users, v \in Users : v = Peer(w) /\ w = Peer(v) /\ v # w /\ Pair(w, v)
    BY <1>3, PeerIsOther, OtherIsPeer
  <2>2. PICK x, y : x = stored[w] /\ y = stored[v]
    OBVIOUS
  <2>3. /\ x # None /\ Writing(x) /\ ~MustTurn(x)
        /\ \/ y = None
           \/ y # None /\ (Behind(w, v, x, y) \/ Abreast(w, v, x, y))
    <3>1. AtRest(x) /\ Writing(x) /\ (y = None \/ (AtRest(y) /\ (Behind(w, v, x, y) \/ Abreast(w, v, x, y))))
      BY <2>1, <2>2 DEF Pair
    <3>2. ~MustTurn(x)
      BY <3>1, ChainsAreSome DEF Writing, MustTurn
    <3> QED BY <3>1, <3>2, RestIsSome
  <2>4. ASSUME cur[w] # 0 PROVE Root(w) = x.rk \/ (y # None /\ Root(w) = y.rk)
    <3>1. PICK h : h = heap[w][cur[w]]
      OBVIOUS
    <3>3. InStep(w, Peer(w), stored[w], h)
      BY <2>1, <2>4, <3>1, InMemory
    <3>2. \/ h.rk = x.rk \/ MustTurn(x) \/ (y # None /\ h.rk = y.rk)
      BY <2>1, <2>2, <3>1, <3>3 DEF InStep
    <3> QED BY <2>3, <3>1, <3>2 DEF Root
  <2>5. ASSUME cur[v] # 0
        PROVE  \/ y # None /\ Root(v) = y.rk
               \/ y # None /\ MustTurn(y) /\ \E d : Root(v) = Append(y.rk, d)
               \/ Root(v) = x.rk
    <3>1. PICK h : h = heap[v][cur[v]]
      OBVIOUS
    <3>3. InStep(v, Peer(v), stored[v], h)
      BY <2>1, <2>5, <3>1, InMemory
    <3>2. \/ y # None /\ h.rk = y.rk
          \/ y # None /\ MustTurn(y) /\ \E d : h.rk = Append(y.rk, d)
          \/ h.rk = x.rk
      BY <2>1, <2>2, <2>3, <3>1, <3>3 DEF InStep
    <3> QED BY <3>1, <3>2 DEF Root
  <2>6. x.rk \in Seq(Secrets) /\ (y # None => y.rk \in Seq(Secrets))
    BY <2>1, <2>2, <2>3 DEF KeyInv, ClientInv, SessionInv
  <2>7. PICK r, d : /\ r \in Seq(Secrets) /\ Append(r, d) \in Seq(Secrets)
                    /\ \A u \in {v, w} : cur[u] # 0 => Root(u) \in {r, Append(r, d)}
    <3>1. CASE y = None
      <4>1. PICK d \in Secrets : TRUE
        BY DEF Secrets
      <4>2. \A u \in {v, w} : cur[u] # 0 => Root(u) = x.rk
        BY <2>4, <2>5, <3>1
      <4> QED BY <2>6, <4>1, <4>2
    <3>2. CASE y # None /\ Behind(w, v, x, y)
      <4>1. ~MustTurn(y)
        BY <3>2, ChainsAreSome DEF Behind, Writing, MustTurn
      <4>2. PICK d : x.rk = Append(y.rk, d)
        BY <3>2 DEF Behind
      <4> QED BY <2>4, <2>5, <2>6, <3>2, <4>1, <4>2
    <3>3. CASE y # None /\ Abreast(w, v, x, y)
      <4>1. x.rk = y.rk
        BY <3>3 DEF Abreast
      <4>2. cur[w] # 0 => Root(w) = y.rk
        BY <2>4, <4>1
      <4>3. CASE cur[v] # 0 /\ \E d : Root(v) = Append(y.rk, d)
        BY <1>1, <2>1, <2>6, <3>3, <4>2, <4>3
      <4>4. CASE ~(cur[v] # 0 /\ \E d : Root(v) = Append(y.rk, d))
        <5>1. \A u \in {v, w} : cur[u] # 0 => Root(u) = y.rk
          BY <2>5, <4>1, <4>2, <4>4
        <5>2. PICK d \in Secrets : TRUE
          BY DEF Secrets
        <5> QED BY <2>6, <3>3, <5>1, <5>2
      <4> QED BY <4>3, <4>4
    <3> QED BY <2>3, <3>1, <3>2, <3>3
  <2>8. a \in {v, w} /\ b \in {v, w}
    BY <2>1, OtherIsPeer
  <2>9. Root(a) \in {r, Append(r, d)} /\ Root(b) \in {r, Append(r, d)}
    BY <2>7, <2>8
  <2>10. PICK p, q : p = Root(a) /\ q = Root(b)
    OBVIOUS
  <2>11. IsPrefix(p, q) \/ IsPrefix(q, p)
    BY <2>7, <2>9, <2>10, NearRoots
  <2> QED BY <2>10, <2>11
<1> QED BY <1>2, <1>3 DEF TurnsInv

LEMMA TurnsKeepNone == ASSUME KeyInv, TurnsInv PROVE SkippedKeysOpen
<1> SUFFICES ASSUME NEW u \in Users, NEW i \in DOMAIN heap[u]
             PROVE  /\ Len(heap[u][i].skipped) <= MaxSkipped
                    /\ SkippedIds(heap[u][i]) \cap heap[u][i].seen = {}
                    /\ \A e \in ToSet(heap[u][i].skipped), m \in ToSet(relay[Peer(u)]) :
                          MsgId(m) = e.id => e.key = m.key
  BY DEF SkippedKeysOpen
<1>1. i = cur[u] /\ cur[u] # 0
  <2>1. PICK h : h = heap[u]
    OBVIOUS
  <2>2. IsSequence(h) /\ Len(h) <= 1 /\ cur[u] = Len(h)
    BY <2>1 DEF KeyInv, ClientInv, TurnsInv, AtWork
  <2>3. DOMAIN h = 1..Len(h) /\ Len(h) \in Nat
    BY <2>2, SequenceOf DEF IsSequence
  <2> QED BY <2>1, <2>2, <2>3
<1>2. heap[u][i].skipped = <<>>
  BY <1>1, InMemory DEF InStep
<1>3. Len(<<>>) = 0 /\ ToSet(<<>>) = {}
  BY DEF ToSet
<1> QED BY <1>2, <1>3, BoundsAssumption DEF SkippedIds
-----------------------------------------------------------------------------
(* "late": w writes, its envelopes arrive in any order.                     *)

\* No two skipped keys have one id.
Distinct(q) == \A i, j \in DOMAIN q : q[i].id = q[j].id => i = j

\* The key kept for number t of the chain of root, whose header names dh.
Kept(dh, root, t) == [id |-> <<dh, t>>, key |-> [root |-> root, step |-> t]]

\* The keys of q and the ids of seen are behind number n of that chain, and apart.
KeysBehind(q, seen, n, dh, root) ==
    \A e \in ToSet(q) : \E t \in Nat : t < n /\ e = Kept(dh, root, t) /\ <<dh, t>> \notin seen
IdsBehind(seen, n, dh) == \A id \in seen : \E t \in Nat : t < n /\ id = <<dh, t>>

\* h reads the chain of root.
Follows(h, dh, root) ==
    /\ h \in Sessions /\ h.dhr = dh /\ h.rk = root
    /\ h.ckr = [root |-> root, step |-> h.ckr.step] /\ h.ckr.step \in Nat
    /\ Len(h.skipped) <= MaxSkipped
    /\ Distinct(h.skipped)
    /\ KeysBehind(h.skipped, h.seen, h.ckr.step, dh, root) /\ IdsBehind(h.seen, h.ckr.step, dh)

\* The envelope before the one its chain is at has been read.
CaughtUp(h, F) == h.ckr.step \in 1..Len(F) /\ F[h.ckr.step] = "read"

\* The number of the chain that envelope i is.
InOneChain(R, dh, root) == \A i \in 1..Len(R) : Numbered(R[i], dh, root, i - 1)

\* R is the relay of w, q its heap, i its cursor, o its call, x what is stored of it.
LateSession(w, R, x) ==
    /\ x \in Sessions /\ Writing(x) /\ x.skipped = <<>> /\ x.ckr = None
    /\ x.ns = Len(R) /\ InOneChain(R, x.dhs, x.rk)
    /\ x.dhr = SignedPrekey(Peer(w))
    /\ x.rk = X3DH(IdentityKey(w), x.dhs, IdentityKey(Peer(w)), SignedPrekey(Peer(w)))

LateWriter(w, R, q, i, o, x) ==
    /\ Len(q) = i /\ i \in {0, 1}
    /\ i = 0 => x = None /\ R = <<>> /\ (o = None \/ o = [pc |-> "bundle"])
    /\ i = 1 => /\ LateSession(w, R, x) /\ q[1] = x
                /\ o = None \/ o = [pc |-> "key", sid |-> 1, chain |-> x.cks]

\* The same of its peer: F are the fates of the envelopes, whose headers name dh.
Listening(o, h, F) ==
    \/ o = None /\ CaughtUp(h, F)
    \/ /\ o = [pc |-> "chain", sid |-> 1, msg |-> o.msg, chain |-> h.ckr]
       /\ o.msg \in 1..Len(F) /\ h.ckr.step < o.msg

LateReader(q, i, o, x, dh, root, F) ==
    /\ Len(q) = i /\ i \in {0, 1}
    /\ x = None \/ (Follows(x, dh, root) /\ CaughtUp(x, F))
    /\ i = 0 => /\ x = None
                /\ o = None \/ (o = [pc |-> "bob", msg |-> o.msg] /\ o.msg \in 1..Len(F))
    /\ i = 1 => Follows(q[1], dh, root) /\ Listening(o, q[1], F)

Harmless(F) ==
    \A i \in 1..Len(F) :
        /\ F[i] # "undecryptable"
        /\ F[i] = "refused" =>
             (\E j \in 1..Len(F) : j > i /\ F[j] = "read") \/ i > MaxSkipGap + 1

LateReads(v, x, F) ==
    LateReader(heap[v], cur[v], op[v][1], stored[v], x.dhs, x.rk, F)

LateInv(w) ==
    /\ FateShape /\ relay[Peer(w)] = <<>> /\ fate[Peer(w)] = <<>>
    /\ Len(fate[w]) = Len(relay[w]) /\ Harmless(fate[w])
    /\ LateWriter(w, relay[w], heap[w], cur[w], op[w][1], stored[w])
    /\ LateReads(Peer(w), stored[w], fate[w])
-----------------------------------------------------------------------------
(* The skipped keys.                                                        *)

LEMMA DroppedAt ==
  ASSUME NEW S, NEW q \in Seq(S), NEW i \in 1..Len(q), NEW p, p = RemoveAt(q, i)
  PROVE  /\ p \in Seq(S) /\ Len(p) = Len(q) - 1
         /\ \A j \in 1..(Len(q) - 1) : p[j] = IF j < i THEN q[j] ELSE q[j + 1]
<1>1. PICK n \in Nat : n = Len(q) /\ i \in 1..n
  OBVIOUS
<1>2. PICK a, b : a = SubSeq(q, 1, i - 1) /\ b = SubSeq(q, i + 1, n)
  OBVIOUS
<1>3. a \in Seq(S) /\ Len(a) = i - 1 /\ \A j \in 1..(i - 1) : a[j] = q[j]
  <2>1. \A j \in 1..(i - 1) : q[j] \in S
    BY <1>1
  <2>2. i - 1 \in Int /\ 1 \in Int
    BY <1>1
  <2>3. /\ a \in Seq(S) /\ Len(a) = IF 1 <= i - 1 THEN i - 1 - 1 + 1 ELSE 0
        /\ \A j \in 1..(i - 1 - 1 + 1) : a[j] = q[1 + j - 1]
    BY <1>2, <2>1, <2>2, SubSeqProperties
  <2> QED BY <1>1, <2>3
<1>4. b \in Seq(S) /\ Len(b) = n - i /\ \A j \in 1..(n - i) : b[j] = q[i + j]
  <2>1. \A j \in (i + 1)..n : q[j] \in S
    BY <1>1
  <2>2. i + 1 \in Int /\ n \in Int
    BY <1>1
  <2>3. /\ b \in Seq(S) /\ Len(b) = IF i + 1 <= n THEN n - (i + 1) + 1 ELSE 0
        /\ \A j \in 1..(n - (i + 1) + 1) : b[j] = q[(i + 1) + j - 1]
    BY <1>2, <2>1, <2>2, SubSeqProperties
  <2> QED BY <1>1, <2>3
<1>5. p = a \o b
  BY <1>1, <1>2 DEF RemoveAt
<1>6. /\ p \in Seq(S) /\ Len(p) = n - 1
      /\ \A j \in 1..(n - 1) : p[j] = IF j <= i - 1 THEN a[j] ELSE b[j - (i - 1)]
  <2>1. /\ a \o b \in Seq(S) /\ Len(a \o b) = Len(a) + Len(b)
        /\ \A j \in 1..(Len(a) + Len(b)) : (a \o b)[j] = IF j <= Len(a) THEN a[j] ELSE b[j - Len(a)]
    BY <1>3, <1>4, ConcatProperties
  <2>2. Len(a) + Len(b) = n - 1
    BY <1>1, <1>3, <1>4
  <2> QED BY <1>3, <1>5, <2>1, <2>2
<1>7. ASSUME NEW j \in 1..(n - 1) PROVE p[j] = IF j < i THEN q[j] ELSE q[j + 1]
  <2>1. CASE j < i
    <3>1. j <= i - 1 /\ j \in 1..(i - 1)
      BY <1>1, <1>7, <2>1
    <3>2. p[j] = a[j]
      BY <1>6, <1>7, <3>1
    <3>3. a[j] = q[j]
      BY <1>3, <3>1
    <3> QED BY <2>1, <3>2, <3>3
  <2>2. CASE ~(j < i)
    <3>1. p[j] = b[j - (i - 1)] /\ j - (i - 1) \in 1..(n - i)
      <4>1. j - (i - 1) \in 1..(n - i) /\ ~(j <= i - 1)
        BY <1>1, <1>7, <2>2
      <4> QED BY <1>6, <1>7, <4>1
    <3>2. i + (j - (i - 1)) = j + 1
      BY <1>1, <1>7
    <3>3. b[j - (i - 1)] = q[i + (j - (i - 1))]
      BY <1>4, <3>1
    <3> QED BY <2>2, <3>1, <3>2, <3>3
  <2> QED BY <2>1, <2>2
<1> QED BY <1>1, <1>3, <1>4, <1>6, <1>7

LEMMA DroppedIds ==
  ASSUME NEW S, NEW q \in Seq(S), Distinct(q), NEW i \in DOMAIN q, NEW p, p = RemoveAt(q, i)
  PROVE  /\ p \in Seq(S) /\ Len(p) < Len(q) /\ Distinct(p)
         /\ \A e \in ToSet(p) : e \in ToSet(q) /\ e.id # q[i].id
<1>1. PICK n \in Nat : n = Len(q) /\ DOMAIN q = 1..n /\ i \in 1..n
  OBVIOUS
<1>2. /\ p \in Seq(S) /\ Len(p) = n - 1
      /\ \A j \in 1..(n - 1) : p[j] = IF j < i THEN q[j] ELSE q[j + 1]
  BY <1>1, DroppedAt
<1>3. DOMAIN p = 1..(n - 1)
  BY <1>1, <1>2
<1>4. ASSUME NEW j \in 1..(n - 1)
      PROVE  \E k \in 1..n : k # i /\ p[j] = q[k] /\ k = IF j < i THEN j ELSE j + 1
  BY <1>1, <1>2, <1>4
<1>5. Distinct(p)
  <2> SUFFICES ASSUME NEW j \in 1..(n - 1), NEW k \in 1..(n - 1), p[j].id = p[k].id PROVE j = k
    BY <1>3 DEF Distinct
  <2>1. PICK a \in 1..n : p[j] = q[a] /\ a = IF j < i THEN j ELSE j + 1
    BY <1>4
  <2>2. PICK b \in 1..n : p[k] = q[b] /\ b = IF k < i THEN k ELSE k + 1
    BY <1>4
  <2>3. a = b
    BY <1>1, <2>1, <2>2 DEF Distinct
  <2> QED BY <1>1, <2>1, <2>2, <2>3
<1>6. ASSUME NEW e \in ToSet(p) PROVE e \in ToSet(q) /\ e.id # q[i].id
  <2>1. PICK j \in 1..(n - 1) : e = p[j]
    BY <1>3, <1>6 DEF ToSet
  <2>2. PICK k \in 1..n : k # i /\ p[j] = q[k]
    BY <1>4
  <2> QED BY <1>1, <2>1, <2>2 DEF ToSet, Distinct
<1> QED BY <1>1, <1>2, <1>5, <1>6

LEMMA KeptIds ==
  ASSUME NEW S, NEW q \in Seq(S), Distinct(q), NEW e \in S, \A d \in ToSet(q) : d.id # e.id,
         NEW p, p = Append(q, e)
  PROVE  /\ p \in Seq(S) /\ Len(p) = Len(q) + 1 /\ Distinct(p)
         /\ \A d \in ToSet(p) : d \in ToSet(q) \/ d = e
<1>1. PICK n \in Nat : n = Len(q) /\ DOMAIN q = 1..n
  OBVIOUS
<1>2. /\ p \in Seq(S) /\ Len(p) = n + 1 /\ DOMAIN p = 1..(n + 1)
      /\ p[n + 1] = e /\ \A j \in 1..n : p[j] = q[j]
  BY <1>1
<1>3. \A j \in 1..n : q[j] \in ToSet(q)
  BY <1>1 DEF ToSet
<1>4. Distinct(p)
  <2> SUFFICES ASSUME NEW j \in 1..(n + 1), NEW k \in 1..(n + 1), p[j].id = p[k].id PROVE j = k
    BY <1>2 DEF Distinct
  <2>1. CASE j \in 1..n /\ k \in 1..n
    BY <1>1, <1>2, <2>1 DEF Distinct
  <2>2. CASE j = n + 1 /\ k \in 1..n
    BY <1>2, <1>3, <2>2
  <2>3. CASE k = n + 1 /\ j \in 1..n
    BY <1>2, <1>3, <2>3
  <2>4. CASE j = n + 1 /\ k = n + 1
    BY <2>4
  <2> QED BY <1>1, <2>1, <2>2, <2>3, <2>4
<1>5. ASSUME NEW d \in ToSet(p) PROVE d \in ToSet(q) \/ d = e
  <2>1. PICK j \in 1..(n + 1) : d = p[j]
    BY <1>2, <1>5 DEF ToSet
  <2>2. CASE j \in 1..n
    BY <1>2, <1>3, <2>1, <2>2
  <2>3. CASE j = n + 1
    BY <1>2, <2>1, <2>3
  <2> QED BY <1>1, <2>2, <2>3
<1> QED BY <1>1, <1>2, <1>4, <1>5

LEMMA EvictedIds ==
  ASSUME NEW S, NEW q \in Seq(S), Distinct(q), q # <<>>, NEW p, p = Tail(q)
  PROVE  /\ p \in Seq(S) /\ Len(p) = Len(q) - 1 /\ Distinct(p)
         /\ \A d \in ToSet(p) : d \in ToSet(q)
<1>1. PICK n \in Nat : n = Len(q) /\ DOMAIN q = 1..n /\ n # 0
  OBVIOUS
<1>2. p \in Seq(S) /\ Len(p) = n - 1 /\ DOMAIN p = 1..(n - 1) /\ \A j \in 1..(n - 1) : p[j] = q[j + 1]
  BY <1>1
<1>3. Distinct(p)
  <2> SUFFICES ASSUME NEW j \in 1..(n - 1), NEW k \in 1..(n - 1), p[j].id = p[k].id PROVE j = k
    BY <1>2 DEF Distinct
  <2>1. j + 1 \in 1..n /\ k + 1 \in 1..n /\ q[j + 1].id = q[k + 1].id
    BY <1>1, <1>2
  <2>2. j + 1 = k + 1
    BY <1>1, <2>1 DEF Distinct
  <2> QED BY <1>1, <2>2
<1>4. ASSUME NEW d \in ToSet(p) PROVE d \in ToSet(q)
  <2>1. PICK j \in 1..(n - 1) : d = p[j]
    BY <1>2, <1>4 DEF ToSet
  <2>2. j + 1 \in 1..n /\ d = q[j + 1]
    BY <1>1, <1>2, <2>1
  <2> QED BY <1>1, <2>2 DEF ToSet
<1> QED BY <1>1, <1>2, <1>3, <1>4
-----------------------------------------------------------------------------
(* The session that reads in "late".                                        *)

SkippedKeys == [id : Keys \X Nat, key : Chains]

\* The parts of a session that reads.
LEMMA FollowsParts ==
  ASSUME NEW h, NEW dh, NEW root, Follows(h, dh, root)
  PROVE  /\ h \in Sessions /\ h.dhr = dh /\ h.rk = root /\ dh \in Keys /\ root \in Seq(Secrets)
         /\ h.ckr = [root |-> root, step |-> h.ckr.step] /\ h.ckr.step \in Nat
         /\ h.skipped \in Seq(SkippedKeys) /\ Len(h.skipped) <= MaxSkipped /\ Distinct(h.skipped)
         /\ h.ckr \in Chains /\ h.ckr # None
         /\ KeysBehind(h.skipped, h.seen, h.ckr.step, dh, root) /\ IdsBehind(h.seen, h.ckr.step, dh)
<1>1. /\ h \in Sessions /\ h.dhr = dh /\ h.rk = root
      /\ h.ckr = [root |-> root, step |-> h.ckr.step] /\ h.ckr.step \in Nat
      /\ Len(h.skipped) <= MaxSkipped /\ Distinct(h.skipped)
      /\ KeysBehind(h.skipped, h.seen, h.ckr.step, dh, root) /\ IdsBehind(h.seen, h.ckr.step, dh)
  BY DEF Follows
<1>2. h.dhr \in Keys /\ h.rk \in Seq(Secrets) /\ h.skipped \in Seq(SkippedKeys)
  BY <1>1 DEF Sessions, SkippedKeys
<1>3. h.ckr \in Chains
  BY <1>1, <1>2 DEF Chains
<1> QED BY <1>1, <1>2, <1>3, NoneAssumption

\* And a session put together from them.
Rebuilt(h, root, n, q, seen) ==
    [h EXCEPT !.ckr = [root |-> root, step |-> n], !.skipped = q, !.seen = seen]

LEMMA FollowsFrom ==
  ASSUME NEW h, NEW dh, NEW root, Follows(h, dh, root), NEW n \in Nat, NEW q \in Seq(SkippedKeys),
         Len(q) <= MaxSkipped, Distinct(q), NEW seen, seen \subseteq Keys \X Nat,
         KeysBehind(q, seen, n, dh, root), IdsBehind(seen, n, dh),
         NEW y, y = Rebuilt(h, root, n, q, seen)
  PROVE  Follows(y, dh, root) /\ y.ckr = [root |-> root, step |-> n] /\ y.seen = seen /\ y.skipped = q
<1>1. h \in Sessions /\ h.dhr = dh /\ h.rk = root /\ root \in Seq(Secrets)
  BY FollowsParts
<1>2. [root |-> root, step |-> n] \in Chains
  BY <1>1 DEF Chains
<1>3. /\ y \in Sessions /\ y.dhr = dh /\ y.rk = root /\ y.ckr = [root |-> root, step |-> n]
      /\ y.skipped = q /\ y.seen = seen
  BY <1>1, <1>2 DEF Sessions, SkippedKeys, Rebuilt
<1>4. y.ckr.step = n
  BY <1>3
<1>5. KeysBehind(y.skipped, y.seen, y.ckr.step, dh, root) /\ IdsBehind(y.seen, y.ckr.step, dh)
  BY <1>3, <1>4
<1>6. Len(y.skipped) <= MaxSkipped /\ Distinct(y.skipped)
  BY <1>3
<1> QED BY <1>3, <1>4, <1>5, <1>6 DEF Follows

LEMMA FartherBehind ==
  ASSUME NEW q, NEW seen, NEW k \in Nat, NEW dh, NEW root,
         KeysBehind(q, seen, k, dh, root), IdsBehind(seen, k, dh)
  PROVE  /\ KeysBehind(q, seen, k + 1, dh, root) /\ IdsBehind(seen, k + 1, dh)
         /\ KeysBehind(q, seen \cup {<<dh, k>>}, k + 1, dh, root)
         /\ IdsBehind(seen \cup {<<dh, k>>}, k + 1, dh)
         /\ <<dh, k>> \notin seen /\ \A e \in ToSet(q) : e.id # <<dh, k>>
<1>1. KeysBehind(q, seen, k + 1, dh, root) /\ IdsBehind(seen, k + 1, dh)
  BY DEF KeysBehind, IdsBehind
<1>2. KeysBehind(q, seen \cup {<<dh, k>>}, k + 1, dh, root)
  <2> SUFFICES ASSUME NEW e \in ToSet(q)
               PROVE  \E t \in Nat : t < k + 1 /\ e = Kept(dh, root, t) /\ <<dh, t>> \notin seen \cup {<<dh, k>>}
    BY DEF KeysBehind
  <2>1. PICK t \in Nat : t < k /\ e = Kept(dh, root, t) /\ <<dh, t>> \notin seen
    BY DEF KeysBehind
  <2>2. <<dh, t>> # <<dh, k>> /\ t < k + 1
    BY <2>1
  <2> QED BY <2>1, <2>2
<1>3. IdsBehind(seen \cup {<<dh, k>>}, k + 1, dh)
  <2> SUFFICES ASSUME NEW id \in seen \cup {<<dh, k>>} PROVE \E t \in Nat : t < k + 1 /\ id = <<dh, t>>
    BY DEF IdsBehind
  <2>1. CASE id \in seen
    <3>1. PICK t \in Nat : t < k /\ id = <<dh, t>>
      BY <2>1 DEF IdsBehind
    <3> QED BY <3>1
  <2>2. CASE id = <<dh, k>>
    BY <2>2
  <2> QED BY <2>1, <2>2
<1>4. <<dh, k>> \notin seen
  <2> SUFFICES ASSUME <<dh, k>> \in seen PROVE FALSE
    OBVIOUS
  <2>1. PICK t \in Nat : t < k /\ <<dh, k>> = <<dh, t>>
    BY DEF IdsBehind
  <2> QED BY <2>1
<1>5. \A e \in ToSet(q) : e.id # <<dh, k>>
  <2> SUFFICES ASSUME NEW e \in ToSet(q) PROVE e.id # <<dh, k>>
    OBVIOUS
  <2>1. PICK t \in Nat : t < k /\ e = Kept(dh, root, t)
    BY DEF KeysBehind
  <2>2. e.id = <<dh, t>>
    BY <2>1 DEF Kept
  <2>3. <<dh, t>> # <<dh, k>>
    BY <2>1
  <2> QED BY <2>2, <2>3
<1> QED BY <1>1, <1>2, <1>3, <1>4, <1>5

LEMMA FollowsKeeps ==
  ASSUME NEW h, NEW dh, NEW root, Follows(h, dh, root), NEW k, k = h.ckr.step,
         NEW x, x = [h EXCEPT !.ckr = [root |-> root, step |-> k + 1]],
         NEW y, y = KeepSkipped(x, <<dh, k>>, [root |-> root, step |-> k])
  PROVE  Follows(y, dh, root) /\ y.ckr = [root |-> root, step |-> k + 1]
<1>1. PICK g, seen : g = h.skipped /\ seen = h.seen
  OBVIOUS
<1>2. /\ h \in Sessions /\ dh \in Keys /\ root \in Seq(Secrets) /\ k \in Nat
      /\ g \in Seq(SkippedKeys) /\ Len(g) <= MaxSkipped /\ Distinct(g)
      /\ KeysBehind(g, seen, k, dh, root) /\ IdsBehind(seen, k, dh)
  BY <1>1, FollowsParts
<1>3. seen \subseteq Keys \X Nat
  BY <1>1, <1>2 DEF Sessions
<1>4. /\ KeysBehind(g, seen, k + 1, dh, root) /\ IdsBehind(seen, k + 1, dh)
      /\ <<dh, k>> \notin seen /\ \A e \in ToSet(g) : e.id # <<dh, k>>
  BY <1>2, FartherBehind
<1>5. x.skipped = g /\ x.seen = seen
  BY <1>1, <1>2 DEF Sessions
<1>6. <<dh, k>> \notin x.seen \cup SkippedIds(x)
  BY <1>4, <1>5 DEF SkippedIds
<1>7. PICK e, p, q : /\ e = [id |-> <<dh, k>>, key |-> [root |-> root, step |-> k]]
                     /\ p = Append(g, e) /\ q = IF Len(p) > MaxSkipped THEN Tail(p) ELSE p
  OBVIOUS
<1>8. y = [x EXCEPT !.skipped = q]
  BY <1>5, <1>6, <1>7 DEF KeepSkipped
<1>9. y = Rebuilt(h, root, k + 1, q, seen)
  BY <1>1, <1>2, <1>8 DEF Sessions, Rebuilt
<1>10. e \in SkippedKeys /\ e = Kept(dh, root, k) /\ e.id = <<dh, k>>
  <2>1. [root |-> root, step |-> k] \in Chains /\ <<dh, k>> \in Keys \X Nat
    BY <1>2 DEF Chains
  <2> QED BY <1>7, <2>1 DEF SkippedKeys, Kept
<1>11. \A d \in ToSet(g) : d.id # e.id
  BY <1>4, <1>10
<1>12. /\ p \in Seq(SkippedKeys) /\ Len(p) = Len(g) + 1 /\ Distinct(p)
       /\ \A d \in ToSet(p) : d \in ToSet(g) \/ d = e
  BY <1>2, <1>7, <1>10, <1>11, KeptIds
<1>13. Len(g) \in Nat /\ Len(p) \in Nat /\ MaxSkipped \in Nat
  BY <1>2, <1>12, BoundsAssumption
<1>14. /\ q \in Seq(SkippedKeys) /\ Len(q) <= MaxSkipped /\ Distinct(q)
       /\ \A d \in ToSet(q) : d \in ToSet(g) \/ d = e
  <2>1. CASE Len(p) > MaxSkipped
    <3>1. p # <<>> /\ q = Tail(p)
      BY <1>7, <1>12, <1>13, <2>1
    <3>2. q \in Seq(SkippedKeys) /\ Len(q) = Len(p) - 1 /\ Distinct(q) /\ \A d \in ToSet(q) : d \in ToSet(p)
      BY <1>12, <3>1, EvictedIds
    <3>3. Len(q) <= MaxSkipped
      BY <1>2, <1>12, <1>13, <3>2
    <3> QED BY <1>12, <3>2, <3>3
  <2>2. CASE ~(Len(p) > MaxSkipped)
    <3>1. q = p
      BY <1>7, <2>2
    <3> QED BY <1>12, <1>13, <2>2, <3>1
  <2> QED BY <2>1, <2>2
<1>15. KeysBehind(q, seen, k + 1, dh, root)
  <2> SUFFICES ASSUME NEW d \in ToSet(q)
               PROVE  \E t \in Nat : t < k + 1 /\ d = Kept(dh, root, t) /\ <<dh, t>> \notin seen
    BY DEF KeysBehind
  <2>1. CASE d \in ToSet(g)
    BY <1>4, <2>1 DEF KeysBehind
  <2>2. CASE d = e
    <3>1. k \in Nat /\ k < k + 1 /\ d = Kept(dh, root, k) /\ <<dh, k>> \notin seen
      BY <1>2, <1>4, <1>10, <2>2
    <3> QED BY <3>1
  <2> QED BY <1>14, <2>1, <2>2
<1>16. k + 1 \in Nat
  BY <1>2
<1> QED BY <1>3, <1>4, <1>9, <1>14, <1>15, <1>16, FollowsFrom

LEMMA FollowsReads ==
  ASSUME NEW h, NEW dh, NEW root, Follows(h, dh, root), NEW k, k = h.ckr.step,
         NEW y, y = Rebuilt(h, root, k + 1, h.skipped, h.seen \cup {<<dh, k>>})
  PROVE  /\ Follows(y, dh, root) /\ y.ckr = [root |-> root, step |-> k + 1]
         /\ <<dh, k>> \notin h.seen
<1>1. PICK g, seen, new : g = h.skipped /\ seen = h.seen /\ new = seen \cup {<<dh, k>>}
  OBVIOUS
<1>2. /\ h \in Sessions /\ dh \in Keys /\ root \in Seq(Secrets) /\ k \in Nat
      /\ g \in Seq(SkippedKeys) /\ Len(g) <= MaxSkipped /\ Distinct(g)
      /\ KeysBehind(g, seen, k, dh, root) /\ IdsBehind(seen, k, dh)
  BY <1>1, FollowsParts
<1>3. new \subseteq Keys \X Nat /\ k + 1 \in Nat
  BY <1>1, <1>2 DEF Sessions
<1>4. KeysBehind(g, new, k + 1, dh, root) /\ IdsBehind(new, k + 1, dh) /\ <<dh, k>> \notin seen
  BY <1>1, <1>2, FartherBehind
<1>5. y = Rebuilt(h, root, k + 1, g, new)
  BY <1>1
<1>6. Len(g) <= MaxSkipped /\ Distinct(g) /\ g \in Seq(SkippedKeys)
  BY <1>2
<1>7. Follows(y, dh, root) /\ y.ckr = [root |-> root, step |-> k + 1]
  BY <1>3, <1>4, <1>5, <1>6, FollowsFrom
<1> QED BY <1>1, <1>4, <1>7

LEMMA FollowsTakes ==
  ASSUME NEW h, NEW dh, NEW root, Follows(h, dh, root), NEW t \in Nat, t < h.ckr.step,
         NEW e \in ToSet(h.skipped), e.id = <<dh, t>>, NEW y, y = TakeSkipped(h, <<dh, t>>)
  PROVE  Follows(y, dh, root) /\ y.ckr = h.ckr /\ <<dh, t>> \in y.seen
<1>1. PICK g, seen, new, k : g = h.skipped /\ seen = h.seen /\ new = seen \cup {<<dh, t>>} /\ k = h.ckr.step
  OBVIOUS
<1>2. /\ h \in Sessions /\ dh \in Keys /\ k \in Nat /\ h.ckr = [root |-> root, step |-> k]
      /\ g \in Seq(SkippedKeys) /\ Len(g) <= MaxSkipped /\ Distinct(g)
      /\ KeysBehind(g, seen, k, dh, root) /\ IdsBehind(seen, k, dh)
  BY <1>1, FollowsParts
<1>3. new \subseteq Keys \X Nat
  BY <1>1, <1>2 DEF Sessions
<1>4. PICK i : i = CHOOSE j \in DOMAIN g : g[j].id = <<dh, t>>
  OBVIOUS
<1>5. i \in DOMAIN g /\ g[i].id = <<dh, t>>
  <2>1. \E j \in DOMAIN g : g[j].id = <<dh, t>>
    BY <1>1 DEF ToSet
  <2> QED BY <1>4, <2>1
<1>6. PICK p : p = RemoveAt(g, i)
  OBVIOUS
<1>7. /\ p \in Seq(SkippedKeys) /\ Len(p) < Len(g) /\ Distinct(p)
      /\ \A d \in ToSet(p) : d \in ToSet(g) /\ d.id # g[i].id
  BY <1>2, <1>5, <1>6, DroppedIds
<1>8. y = Rebuilt(h, root, k, p, new)
  BY <1>1, <1>2, <1>4, <1>6 DEF TakeSkipped, Sessions, Rebuilt
<1>9. Len(p) <= MaxSkipped
  <2>1. Len(p) \in Nat /\ Len(g) \in Nat /\ MaxSkipped \in Nat
    BY <1>2, <1>7, BoundsAssumption
  <2> QED BY <1>2, <1>7, <2>1
<1>10. KeysBehind(p, new, k, dh, root)
  <2> SUFFICES ASSUME NEW d \in ToSet(p)
               PROVE  \E a \in Nat : a < k /\ d = Kept(dh, root, a) /\ <<dh, a>> \notin new
    BY DEF KeysBehind
  <2>1. d \in ToSet(g) /\ d.id # <<dh, t>>
    BY <1>5, <1>7
  <2>2. PICK a \in Nat : a < k /\ d = Kept(dh, root, a) /\ <<dh, a>> \notin seen
    BY <1>2, <2>1 DEF KeysBehind
  <2>3. d.id = <<dh, a>>
    BY <2>2 DEF Kept
  <2> QED BY <1>1, <2>1, <2>2, <2>3
<1>11. IdsBehind(new, k, dh)
  <2> SUFFICES ASSUME NEW id \in new PROVE \E a \in Nat : a < k /\ id = <<dh, a>>
    BY DEF IdsBehind
  <2> QED BY <1>1, <1>2 DEF IdsBehind
<1>12. Follows(y, dh, root) /\ y.ckr = [root |-> root, step |-> k] /\ y.seen = new
  BY <1>2, <1>3, <1>7, <1>8, <1>9, <1>10, <1>11, FollowsFrom
<1> QED BY <1>1, <1>2, <1>12
-----------------------------------------------------------------------------
(* What a fate leaves of the others, and of the two clients.                *)

\* F with what became of n, unless it was read before; every envelope read stays read.
Fated(F, n, outcome, G) == G = [F EXCEPT ![n] = IF @ = "read" THEN @ ELSE outcome]
StillRead(F, G) == Len(F) <= Len(G) /\ \A j \in 1..Len(F) : F[j] = "read" => G[j] = "read"

LEMMA SentIsHarmless ==
  ASSUME NEW F, IsSequence(F), Harmless(F), NEW G, G = Append(F, "sent")
  PROVE  Harmless(G) /\ StillRead(F, G) /\ IsSequence(G) /\ Len(G) = Len(F) + 1
<1>1. PICK l \in Nat : l = Len(F)
  BY DEF IsSequence
<1>2. /\ IsSequence(G) /\ Len(G) = l + 1 /\ G[l + 1] = "sent" /\ \A i \in 1..l : G[i] = F[i]
  BY <1>1, AppendedTo
<1>3. Harmless(G)
  <2> SUFFICES ASSUME NEW i \in 1..(l + 1)
               PROVE  /\ G[i] # "undecryptable"
                      /\ G[i] = "refused" =>
                           (\E j \in 1..(l + 1) : j > i /\ G[j] = "read") \/ i > MaxSkipGap + 1
    BY <1>2 DEF Harmless
  <2>1. CASE i = l + 1
    BY <1>2, <2>1
  <2>2. CASE i # l + 1
    <3>1. i \in 1..l /\ G[i] = F[i]
      BY <1>2, <2>2
    <3>2. /\ F[i] # "undecryptable"
          /\ F[i] = "refused" => (\E j \in 1..l : j > i /\ F[j] = "read") \/ i > MaxSkipGap + 1
      BY <1>1, <3>1 DEF Harmless
    <3>3. \A j \in 1..l : j \in 1..(l + 1) /\ G[j] = F[j]
      BY <1>2
    <3> QED BY <3>1, <3>2, <3>3
  <2> QED BY <2>1, <2>2
<1>4. StillRead(F, G)
  BY <1>1, <1>2 DEF StillRead
<1> QED BY <1>1, <1>2, <1>3, <1>4

LEMMA FatedIsHarmless ==
  ASSUME NEW F, IsSequence(F), Harmless(F), NEW n \in 1..Len(F), NEW outcome, NEW G,
         Fated(F, n, outcome, G),
         \/ outcome = "read"
         \/ /\ outcome = "refused"
            /\ F[n] = "read" \/ (\E j \in 1..Len(F) : j > n /\ F[j] = "read") \/ n > MaxSkipGap + 1
  PROVE  /\ Harmless(G) /\ StillRead(F, G) /\ IsSequence(G) /\ Len(G) = Len(F)
         /\ outcome = "read" => G[n] = "read"
<1>1. PICK l \in Nat : l = Len(F)
  BY DEF IsSequence
<1>2. F = [i \in 1..l |-> F[i]] /\ DOMAIN F = 1..l
  BY <1>1, SequenceOf DEF IsSequence
<1>3. /\ G = [i \in 1..l |-> G[i]] /\ G[n] = IF F[n] = "read" THEN "read" ELSE outcome
      /\ \A i \in 1..l : i # n => G[i] = F[i]
  BY <1>1, <1>2 DEF Fated
<1>4. IsSequence(G) /\ Len(G) = l
  <2> DEFINE S == {G[i] : i \in 1..l}
  <2>1. G \in [1..l -> S]
    BY <1>3
  <2>2. G \in Seq(S)
    BY <2>1, SeqDef
  <2>3. Len(G) = l
    BY <2>1, <2>2, LenProperties
  <2> QED BY <1>3, <2>3 DEF IsSequence
<1>5. \A j \in 1..l : F[j] = "read" => G[j] = "read"
  BY <1>3
<1>6. Harmless(G)
  <2> SUFFICES ASSUME NEW i \in 1..l
               PROVE  /\ G[i] # "undecryptable"
                      /\ G[i] = "refused" =>
                           (\E j \in 1..l : j > i /\ G[j] = "read") \/ i > MaxSkipGap + 1
    BY <1>4 DEF Harmless
  <2>1. CASE i = n
    BY <1>1, <1>3, <1>5, <2>1
  <2>2. CASE i # n
    <3>1. G[i] = F[i]
      BY <1>3, <2>2
    <3>2. /\ F[i] # "undecryptable"
          /\ F[i] = "refused" => (\E j \in 1..l : j > i /\ F[j] = "read") \/ i > MaxSkipGap + 1
      BY <1>1 DEF Harmless
    <3> QED BY <1>5, <3>1, <3>2
  <2> QED BY <2>1, <2>2
<1>7. StillRead(F, G)
  BY <1>1, <1>4, <1>5 DEF StillRead
<1> QED BY <1>1, <1>3, <1>4, <1>6, <1>7

LEMMA StaysCaughtUp ==
  ASSUME NEW h, NEW F, NEW G, CaughtUp(h, F), StillRead(F, G), Len(F) \in Nat, Len(G) \in Nat
  PROVE  CaughtUp(h, G)
BY DEF CaughtUp, StillRead

LEMMA ReaderStays ==
  ASSUME NEW q, NEW i, NEW o, NEW x, NEW dh, NEW root, NEW F, LateReader(q, i, o, x, dh, root, F),
         NEW G, StillRead(F, G), Len(F) \in Nat, Len(G) \in Nat, NEW k, NEW r,
         (k = dh /\ r = root) \/ Len(F) = 0
  PROVE  LateReader(q, i, o, x, k, r, G)
<1>1. PICK l, j : l = Len(F) /\ j = Len(G) /\ l \in Nat /\ j \in Nat /\ l <= j
  BY DEF StillRead
<1>2. 1..l \subseteq 1..j
  BY <1>1
<1>3. CASE l # 0
  <2>1. k = dh /\ r = root
    BY <1>1, <1>3
  <2>2. \A h : CaughtUp(h, F) => CaughtUp(h, G)
    BY StaysCaughtUp
  <2>3. \A h : Listening(o, h, F) => Listening(o, h, G)
    BY <1>1, <1>2, <2>2 DEF Listening
  <2> QED BY <1>1, <1>2, <2>1, <2>2, <2>3 DEF LateReader
<1>4. CASE l = 0
  <2>1. \A h : ~CaughtUp(h, F)
    BY <1>1, <1>4 DEF CaughtUp
  <2>2. \A h : ~Listening(o, h, F)
    BY <1>1, <1>4, <2>1 DEF Listening
  <2>3. i = 0 /\ x = None /\ o = None
    BY <1>1, <1>4, <2>1, <2>2 DEF LateReader
  <2> QED BY <2>3 DEF LateReader
<1> QED BY <1>3, <1>4

\* A step of the writer, and one of the reader.
LEMMA WriterMoves ==
  ASSUME KeyInv, NEW w \in Users, LateInv(w), Elsewhere(w), FateShape',
         fate'[Peer(w)] = fate[Peer(w)], Len(fate'[w]) = Len(relay'[w]), Harmless(fate'[w]),
         StillRead(fate[w], fate'[w]),
         LateWriter(w, relay'[w], heap'[w], cur'[w], op'[w][1], stored'[w]),
         (stored'[w].dhs = stored[w].dhs /\ stored'[w].rk = stored[w].rk) \/ Len(fate[w]) = 0
  PROVE  LateInv(w)'
<1>1. PICK v : v = Peer(w) /\ v \in Users /\ v # w
  BY PeerIsOther
<1>2. /\ heap'[v] = heap[v] /\ cur'[v] = cur[v] /\ stored'[v] = stored[v] /\ op'[v] = op[v]
      /\ relay'[v] = relay[v]
  BY <1>1 DEF Elsewhere
<1>3. LateReader(heap[v], cur[v], op[v][1], stored[v], stored[w].dhs, stored[w].rk, fate[w])
  BY <1>1 DEF LateInv, LateReads
<1>4. Len(fate[w]) \in Nat /\ Len(fate'[w]) \in Nat
  BY DEF LateInv, FateShape, IsSequence
<1>5. LateReader(heap[v], cur[v], op[v][1], stored[v], stored'[w].dhs, stored'[w].rk, fate'[w])
  BY <1>3, <1>4, ReaderStays
<1>6. LateReads(v, stored[w], fate[w])'
  BY <1>2, <1>5 DEF LateReads
<1>7. relay'[v] = <<>> /\ fate'[v] = <<>>
  BY <1>1, <1>2 DEF LateInv
<1> QED BY <1>1, <1>6, <1>7 DEF LateInv

LEMMA ReaderMoves ==
  ASSUME KeyInv, NEW w \in Users, LateInv(w), Elsewhere(Peer(w)), FateShape', relay' = relay,
         fate'[Peer(w)] = fate[Peer(w)], Len(fate'[w]) = Len(fate[w]), Harmless(fate'[w]),
         LateReads(Peer(w), stored[w], fate[w])'
  PROVE  LateInv(w)'
<1>1. Peer(w) \in Users /\ Peer(w) # w
  BY PeerIsOther
<1>2. heap'[w] = heap[w] /\ cur'[w] = cur[w] /\ stored'[w] = stored[w] /\ op'[w] = op[w]
  BY <1>1 DEF Elsewhere
<1> QED BY <1>2 DEF LateInv
-----------------------------------------------------------------------------
(* "late": the steps of the client that writes.                             *)

LEMMA CallAlone ==
  ASSUME KeyInv, Slots = 1, NEW u \in Users, NEW s \in 1..Slots, Len(heap[u]) \in {0, 1},
         NEW y, NEW o, Put(u, 1, y), Suspend(u, s, o),
         (cur' = cur /\ cur[u] = 1) \/ cur' = [cur EXCEPT ![u] = 1],
         \A v \in Users \ {u} : nextKey'[v] = nextKey[v] /\ stored'[v] = stored[v] /\ relay'[v] = relay[v]
  PROVE  /\ Elsewhere(u) /\ cur'[u] = 1 /\ op'[u][1] = o
         /\ Len(heap'[u]) = 1 /\ heap'[u][1] = y
<1>1. Shape /\ IsSequence(heap[u]) /\ Len(heap[u]) <= 1
  <2>1. PICK n : n = Len(heap[u])
    OBVIOUS
  <2>2. n \in {0, 1}
    BY <2>1
  <2>3. n <= 1
    BY <2>2
  <2> QED BY <2>1, <2>3 DEF KeyInv, ClientInv
<1>2. /\ \A v \in Users \ {u} : heap'[v] = heap[v]
      /\ Len(heap'[u]) = 1 /\ heap'[u][1] = y
  BY <1>1, PutOne DEF Shape
<1>3. op'[u][1] = o /\ \A v \in Users \ {u} : op'[v] = op[v]
  <2>1. DOMAIN op[u] = 1..Slots /\ DOMAIN op = Users
    BY <1>1 DEF Shape
  <2> QED BY <2>1 DEF Suspend
<1>4. cur'[u] = 1 /\ \A v \in Users \ {u} : cur'[v] = cur[v]
  <2>1. CASE cur' = cur /\ cur[u] = 1
    BY <2>1
  <2>2. CASE cur' = [cur EXCEPT ![u] = 1]
    BY <1>1, <2>2 DEF Shape
  <2> QED BY <2>1, <2>2
<1> QED BY <1>2, <1>3, <1>4 DEF Elsewhere

LEMMA LateCall ==
  ASSUME KeyInv, NEW w \in Users, LateInv(w), Slots = 1, NEW s \in 1..Slots,
         NEW o, o = op[w][s], NEW x, x = stored[w]
  PROVE  /\ s = 1 /\ LateWriter(w, relay[w], heap[w], cur[w], o, x) /\ Len(heap[w]) = cur[w]
         /\ cur[w] \in {0, 1} /\ Peer(w) \in Users /\ Peer(w) # w
         /\ Shape /\ FateShape /\ Len(fate[w]) = Len(relay[w]) /\ Len(relay[w]) \in Nat
         /\ IsSequence(relay[w]) /\ IsSequence(fate[w]) /\ Harmless(fate[w]) /\ StillRead(fate[w], fate[w])
<1>1. s = 1 /\ LateWriter(w, relay[w], heap[w], cur[w], op[w][1], stored[w])
  BY DEF LateInv
<1>2. Len(heap[w]) = cur[w] /\ cur[w] \in {0, 1}
  BY <1>1 DEF LateWriter
<1>3. IsSequence(relay[w]) /\ IsSequence(fate[w]) /\ Len(relay[w]) \in Nat /\ Len(fate[w]) = Len(relay[w])
  BY DEF LateInv, KeyInv, ClientInv, FateShape, IsSequence
<1>4. StillRead(fate[w], fate[w])
  BY <1>3 DEF StillRead
<1> QED BY <1>1, <1>2, <1>3, <1>4, PeerIsOther DEF LateInv, KeyInv

\* What a late writer is at.
LEMMA WritesNow ==
  ASSUME NEW w, NEW R, NEW q, NEW i, NEW o, NEW x, LateWriter(w, R, q, i, o, x), o # None
  PROVE  \/ o = [pc |-> "bundle"] /\ i = 0 /\ R = <<>>
         \/ o = [pc |-> "key", sid |-> 1, chain |-> x.cks] /\ i = 1 /\ LateSession(w, R, x) /\ q[1] = x
BY DEF LateWriter

LEMMA SendStartLate ==
  ASSUME KeyInv, NEW w \in Users, LateInv(w), Slots = 1, NEW s \in 1..Slots, SendStart(w, s)
  PROVE  LateInv(w)'
<1>1. PICK x : x = stored[w]
  OBVIOUS
<1>2. /\ s = 1 /\ LateWriter(w, relay[w], heap[w], cur[w], op[w][s], x) /\ Len(heap[w]) = cur[w]
      /\ cur[w] \in {0, 1} /\ Shape /\ FateShape /\ Len(fate[w]) = Len(relay[w]) /\ Harmless(fate[w])
      /\ StillRead(fate[w], fate[w])
  BY <1>1, LateCall
<1>3. /\ UNCHANGED <<cur, stored, relay, fate>> /\ op[w][s] = None
      /\ cur[w] = 0 => Suspend(w, s, [pc |-> "bundle"]) /\ UNCHANGED <<heap, nextKey>>
      /\ cur[w] # 0 => Encrypt(w, s, cur[w], heap[w][cur[w]], 1)
  BY DEF SendStart
<1>4. FateShape'
  BY <1>2, <1>3 DEF FateShape
<1>5. CASE cur[w] = 0
  <2>1. PICK o : o = [pc |-> "bundle"] /\ Suspend(w, s, o) /\ UNCHANGED <<heap, nextKey>>
    BY <1>3, <1>5
  <2>2. op'[w][1] = o /\ \A v \in Users \ {w} : op'[v] = op[v]
    <3>1. DOMAIN op[w] = 1..Slots /\ DOMAIN op = Users
      BY <1>2 DEF Shape
    <3> QED BY <1>2, <2>1, <3>1 DEF Suspend
  <2>3. Elsewhere(w)
    BY <1>3, <2>1, <2>2 DEF Elsewhere
  <2>4. LateWriter(w, relay[w], heap[w], cur[w], o, x)
    BY <1>2, <1>5, <2>1 DEF LateWriter
  <2>5. LateWriter(w, relay'[w], heap'[w], cur'[w], op'[w][1], stored'[w])
    BY <1>1, <1>3, <2>1, <2>2, <2>4
  <2> QED BY <1>2, <1>3, <1>4, <2>3, <2>5, WriterMoves
<1>6. CASE cur[w] # 0
  <2>1. cur[w] = 1 /\ LateSession(w, relay[w], x) /\ heap[w][1] = x
    BY <1>2, <1>6 DEF LateWriter
  <2>2. x \in Sessions /\ Writing(x) /\ x.ckr = None /\ x.dhs \in Keys
    BY <2>1 DEF LateSession, Sessions
  <2>3. ~RatchetDue(x, 1) /\ ~RatchetDue(x, 2) /\ ~RatchetDue(x, 3)
    BY <2>2, ChainsAreSome DEF RatchetDue, Writing
  <2>4. Encrypt(w, s, 1, x, 1) /\ nextKey[w] \in Nat
    BY <1>3, <1>6, <2>1 DEF KeyInv, ClientInv
  <2>5. PICK o : /\ o = [pc |-> "key", sid |-> 1, chain |-> x.cks] /\ Suspend(w, s, o) /\ Put(w, 1, x)
                 /\ UNCHANGED nextKey
    <3>1. 1 \in 1..4
      OBVIOUS
    <3>2. ~(\E p \in 1..2, dhs \in Keys :
               /\ RatchetDue(x, p)
               /\ Suspend(w, s, [pc |-> "ratchet", sid |-> 1, place |-> p, dhs |-> dhs,
                                 root |-> TurnedRoot(x, dhs)])
               /\ Put(w, 1, Emptied(x))
               /\ nextKey' = [nextKey EXCEPT ![w] = IF x.fresh THEN @ ELSE @ + 1])
      <4>1. \A p \in 1..2 : ~RatchetDue(x, p)
        <5>1. \A p \in 1..2 : p = 1 \/ p = 2
          OBVIOUS
        <5> QED BY <2>3, <5>1
      <4> QED BY <4>1
    <3>3. /\ Suspend(w, s, [pc |-> "key", sid |-> 1, chain |-> x.cks]) /\ Put(w, 1, x)
          /\ UNCHANGED nextKey
      BY <2>2, <2>3, <2>4, <3>1, <3>2, EncryptTurns
    <3> QED BY <3>3
  <2>6. /\ Elsewhere(w) /\ cur'[w] = 1 /\ op'[w][1] = o
        /\ Len(heap'[w]) = 1 /\ heap'[w][1] = x
    BY <1>2, <1>3, <2>1, <2>5, CallAlone
  <2>7. LateWriter(w, relay'[w], heap'[w], cur'[w], op'[w][1], stored'[w])
    BY <1>1, <1>3, <2>1, <2>5, <2>6 DEF LateWriter
  <2> QED BY <1>2, <1>3, <1>4, <2>6, <2>7, WriterMoves
<1> QED BY <1>5, <1>6

LEMMA BundleLate ==
  ASSUME KeyInv, NEW w \in Users, LateInv(w), Slots = 1, ~BundleMayFail, NEW s \in 1..Slots,
         BundleAnswer(w, s)
  PROVE  LateInv(w)'
<1>1. PICK o, v : o = op[w][s] /\ v = Peer(w)
  OBVIOUS
<1>2. o # None /\ o.pc = "bundle" /\ UNCHANGED <<relay, fate>> /\ nextKey' = [nextKey EXCEPT ![w] = @ + 1]
  BY <1>1 DEF BundleAnswer
<1>3. /\ s = 1 /\ LateWriter(w, relay[w], heap[w], cur[w], o, stored[w]) /\ Len(heap[w]) = cur[w]
      /\ v \in Users /\ v # w /\ Shape /\ FateShape /\ Len(fate[w]) = Len(relay[w]) /\ Harmless(fate[w])
      /\ StillRead(fate[w], fate[w])
  BY <1>1, LateCall
<1>4. cur[w] = 0 /\ Len(heap[w]) = 0 /\ relay[w] = <<>> /\ Len(fate[w]) = 0
  BY <1>2, <1>3, WritesNow
<1>5. PICK e, r, x, c :
        /\ e = <<w, nextKey[w]>> /\ r = X3DH(IdentityKey(w), e, IdentityKey(v), SignedPrekey(v))
        /\ x = InitializeAsAlice(w, e, SignedPrekey(v))
        /\ c = [pc |-> "key", sid |-> 1, chain |-> x.cks]
        /\ Put(w, 1, x) /\ Suspend(w, s, c)
        /\ cur' = [cur EXCEPT ![w] = 1] /\ stored' = [stored EXCEPT ![w] = x]
  <2>1. Len(heap[w]) + 1 = 1
    BY <1>4
  <2> QED BY <1>1, <2>1 DEF BundleAnswer
<1>6. x = [dhs |-> e, wiped |-> FALSE, dhr |-> SignedPrekey(v), rk |-> r,
           cks |-> [root |-> r, step |-> 0], ckr |-> None, ns |-> 0, pn |-> 0,
           skipped |-> <<>>, seen |-> {}, pending |-> FALSE, fresh |-> FALSE]
  BY <1>1, <1>5 DEF InitializeAsAlice, NewSession, Chain
<1>7. e \in Keys /\ SignedPrekey(v) \in Keys /\ r \in Seq(Secrets)
  <2>1. nextKey[w] \in Nat
    BY DEF KeyInv, ClientInv
  <2>2. PICK a, b, d : a = IdentityKey(w) /\ b = IdentityKey(v) /\ d = SignedPrekey(v)
    OBVIOUS
  <2>3. a \in Keys /\ b \in Keys /\ d \in Keys /\ e \in Keys
    BY <1>3, <1>5, <2>1, <2>2 DEF IdentityKey, SignedPrekey, Keys
  <2>4. r = X3DH(a, e, b, d)
    BY <1>5, <2>2
  <2>5. r \in Seq(Secrets)
    BY <2>3, <2>4, HandshakeRoot
  <2> QED BY <2>2, <2>3, <2>5
<1>8. IsChain([root |-> r, step |-> 0]) /\ [root |-> r, step |-> 0] \in Chains
  BY <1>7 DEF IsChain, Chains
<1>9. x \in Sessions
  BY <1>6, <1>7, <1>8 DEF Sessions
<1>10. LateSession(w, <<>>, x)
  <2>1. x.ns = 0 /\ x.dhr = SignedPrekey(v) /\ x.rk = r /\ x.dhs = e /\ x.skipped = <<>> /\ x.ckr = None
    BY <1>6
  <2>2. Writing(x)
    BY <1>6, <1>8 DEF Writing
  <2>3. InOneChain(<<>>, x.dhs, x.rk)
    BY DEF InOneChain
  <2> QED BY <1>1, <1>5, <1>9, <2>1, <2>2, <2>3 DEF LateSession
<1>11. /\ stored'[w] = x
       /\ \A u \in Users \ {w} : stored'[u] = stored[u] /\ nextKey'[u] = nextKey[u] /\ relay'[u] = relay[u]
  BY <1>2, <1>3, <1>5 DEF Shape
<1>12. /\ Elsewhere(w) /\ cur'[w] = 1 /\ op'[w][1] = c
       /\ Len(heap'[w]) = 1 /\ heap'[w][1] = x
  <2>1. Len(heap[w]) \in {0, 1} /\ ((cur' = cur /\ cur[w] = 1) \/ cur' = [cur EXCEPT ![w] = 1])
    BY <1>4, <1>5
  <2>2. Put(w, 1, x) /\ Suspend(w, s, c)
    BY <1>5
  <2>3. \A u \in Users \ {w} : nextKey'[u] = nextKey[u] /\ stored'[u] = stored[u] /\ relay'[u] = relay[u]
    BY <1>11
  <2> QED BY <2>1, <2>2, <2>3, CallAlone
<1>13. LateWriter(w, relay'[w], heap'[w], cur'[w], op'[w][1], stored'[w])
  BY <1>2, <1>4, <1>5, <1>10, <1>11, <1>12 DEF LateWriter
<1>14. FateShape'
  BY <1>2, <1>3 DEF FateShape
<1> QED BY <1>2, <1>3, <1>4, <1>12, <1>13, <1>14, WriterMoves

LEMMA SendKeyLate ==
  ASSUME KeyInv, NEW w \in Users, LateInv(w), Slots = 1, NEW s \in 1..Slots, SendKey(w, s)
  PROVE  LateInv(w)'
<1>1. PICK o, x : o = op[w][s] /\ x = stored[w]
  OBVIOUS
<1>2. PICK y, m :
        /\ y = [heap[w][o.sid] EXCEPT !.cks = NextChain(o.chain), !.ns = @ + 1]
        /\ m = [dh |-> heap[w][o.sid].dhs, pn |-> heap[w][o.sid].pn, ns |-> heap[w][o.sid].ns, key |-> o.chain]
        /\ o # None /\ o.pc = "key" /\ Put(w, o.sid, y) /\ Persist(w, o.sid, y)
        /\ relay' = [relay EXCEPT ![w] = Append(@, m)]
        /\ fate' = [fate EXCEPT ![w] = Append(@, "sent")] /\ Suspend(w, s, None)
        /\ UNCHANGED <<cur, nextKey>>
  BY <1>1 DEF SendKey, Return
<1>3. PICK R, F : R = relay[w] /\ F = fate[w]
  OBVIOUS
<1>4. /\ s = 1 /\ LateWriter(w, R, heap[w], cur[w], o, x) /\ Len(heap[w]) = cur[w]
      /\ Peer(w) \in Users /\ Peer(w) # w /\ Shape /\ FateShape
      /\ Len(F) = Len(R) /\ Len(R) \in Nat /\ IsSequence(R) /\ IsSequence(F) /\ Harmless(F)
  BY <1>1, <1>3, LateCall
<1>5. o = [pc |-> "key", sid |-> 1, chain |-> x.cks] /\ cur[w] = 1 /\ LateSession(w, R, x) /\ heap[w][1] = x
  BY <1>2, <1>4, WritesNow
<1>6. o.sid = 1 /\ o.chain = x.cks
  BY <1>5
<1>7. /\ x \in Sessions /\ Writing(x) /\ x.skipped = <<>> /\ x.ckr = None /\ x.ns = Len(R)
      /\ InOneChain(R, x.dhs, x.rk) /\ x.dhr = SignedPrekey(Peer(w))
      /\ x.rk = X3DH(IdentityKey(w), x.dhs, IdentityKey(Peer(w)), SignedPrekey(Peer(w)))
  BY <1>5 DEF LateSession
<1>8. PICK c, n : c = [root |-> x.rk, step |-> x.ns + 1] /\ n = x.ns + 1
  OBVIOUS
<1>9. x.cks = [root |-> x.rk, step |-> x.ns] /\ x.ns \in Nat /\ x.rk \in Seq(Secrets)
  BY <1>7 DEF Writing, Sessions
<1>10. y = [x EXCEPT !.cks = c, !.ns = n] /\ c \in Chains /\ n \in Nat
  <2>1. y = [x EXCEPT !.cks = NextChain(x.cks), !.ns = @ + 1]
    BY <1>2, <1>5, <1>6
  <2>2. NextChain(x.cks) = c
    BY <1>8, <1>9 DEF NextChain
  <2>3. y = [x EXCEPT !.cks = c, !.ns = n]
    BY <1>8, <2>1, <2>2
  <2>4. n \in Nat /\ c \in Chains
    BY <1>8, <1>9 DEF Chains
  <2> QED BY <2>3, <2>4
<1>11. /\ y \in Sessions /\ y.cks = c /\ y.ns = n /\ y.rk = x.rk /\ y.dhs = x.dhs /\ y.dhr = x.dhr
       /\ y.ckr = None /\ y.skipped = <<>> /\ y.pending = x.pending /\ y.fresh = x.fresh
  BY <1>7, <1>10 DEF Sessions
<1>12. Writing(y)
  <2>1. ~x.pending /\ ~x.fresh
    BY <1>7 DEF Writing
  <2>2. IsChain(c)
    BY <1>8, <1>9 DEF IsChain
  <2> QED BY <1>8, <1>11, <2>1, <2>2 DEF Writing
<1>13. Numbered(m, x.dhs, x.rk, x.ns)
  BY <1>2, <1>5, <1>6, <1>9 DEF Numbered
<1>14. PICK Q, G : Q = Append(R, m) /\ G = Append(F, "sent")
  OBVIOUS
<1>15. relay'[w] = Q /\ fate'[w] = G
  BY <1>2, <1>3, <1>4, <1>14 DEF Shape, FateShape
<1>16. Harmless(G) /\ StillRead(F, G) /\ IsSequence(G) /\ Len(G) = Len(F) + 1
  BY <1>4, <1>14, SentIsHarmless
<1>17. Len(Q) = Len(R) + 1 /\ InOneChain(Q, x.dhs, x.rk)
  <2>1. /\ Len(Q) = Len(R) + 1 /\ \A i \in 1..Len(R) : Q[i] = R[i]
        /\ Q[Len(R) + 1] = m
    BY <1>4, <1>14, AppendedTo
  <2>2. PICK l \in Nat : l = Len(R)
    BY <1>4
  <2> SUFFICES ASSUME NEW i \in 1..(l + 1) PROVE Numbered(Q[i], x.dhs, x.rk, i - 1)
    BY <2>1, <2>2 DEF InOneChain
  <2>3. CASE i = l + 1
    <3>1. i - 1 = x.ns /\ Q[i] = m
      BY <1>7, <2>1, <2>2, <2>3
    <3> QED BY <1>13, <3>1
  <2>4. CASE i # l + 1
    <3>1. i \in 1..l /\ Q[i] = R[i]
      BY <2>1, <2>2, <2>4
    <3> QED BY <1>7, <2>2, <3>1 DEF InOneChain
  <2> QED BY <2>3, <2>4
<1>18. LateSession(w, Q, y)
  <2>1. y.ns = Len(Q)
    BY <1>7, <1>8, <1>11, <1>17
  <2> QED BY <1>7, <1>11, <1>12, <1>17, <2>1 DEF LateSession
<1>19. /\ \A u \in Users \ {w} : relay'[u] = relay[u] /\ fate'[u] = fate[u] /\ stored'[u] = stored[u]
                                 /\ nextKey'[u] = nextKey[u]
       /\ stored'[w] = y
  BY <1>2, <1>4, <1>5, <1>6 DEF Shape, FateShape, Persist
<1>20. /\ Elsewhere(w) /\ cur'[w] = 1 /\ op'[w][1] = None
       /\ Len(heap'[w]) = 1 /\ heap'[w][1] = y
  BY <1>2, <1>4, <1>5, <1>6, <1>19, CallAlone
<1>21. LateWriter(w, relay'[w], heap'[w], cur'[w], op'[w][1], stored'[w])
  BY <1>15, <1>18, <1>19, <1>20 DEF LateWriter
<1>22. FateShape'
  <2>1. fate' = [d \in Users |-> fate'[d]]
    BY <1>2, <1>4 DEF FateShape
  <2>2. \A d \in Users \ {w} : IsSequence(fate'[d])
    BY <1>4, <1>19 DEF FateShape
  <2> QED BY <1>15, <1>16, <2>1, <2>2 DEF FateShape
<1>23. fate'[Peer(w)] = fate[Peer(w)] /\ stored'[w].dhs = stored[w].dhs /\ stored'[w].rk = stored[w].rk
  BY <1>1, <1>4, <1>11, <1>19
<1>24. Len(fate'[w]) = Len(relay'[w]) /\ Harmless(fate'[w]) /\ StillRead(fate[w], fate'[w])
  BY <1>3, <1>4, <1>15, <1>16, <1>17
<1> QED BY <1>20, <1>21, <1>22, <1>23, <1>24, WriterMoves
-----------------------------------------------------------------------------
(* "late": the steps of the client that reads.                              *)

\* What a late reader is at, and what it has to read.
LEMMA LateRead ==
  ASSUME KeyInv, NEW w \in Users, LateInv(w), NEW v, v = Peer(w), Slots = 1, NEW s \in 1..Slots,
         NEW o, o = op[v][s], NEW y, y = stored[w]
  PROVE  /\ s = 1 /\ v \in Users /\ v # w /\ Peer(v) = w /\ Shape /\ FateShape
         /\ LateReader(heap[v], cur[v], o, stored[v], y.dhs, y.rk, fate[w])
         /\ Len(heap[v]) = cur[v] /\ cur[v] \in {0, 1} /\ Len(heap[v]) \in {0, 1}
         /\ Len(fate[w]) = Len(relay[w]) /\ Len(fate[w]) \in Nat
         /\ IsSequence(relay[w]) /\ IsSequence(fate[w]) /\ Harmless(fate[w]) /\ StillRead(fate[w], fate[w])
         /\ Len(relay[w]) # 0 => LateSession(w, relay[w], y)
<1>1. v \in Users /\ v # w /\ Peer(v) = w
  BY PeerIsOther, OtherIsPeer
<1>2. s = 1 /\ LateReader(heap[v], cur[v], o, stored[v], y.dhs, y.rk, fate[w])
  BY DEF LateInv, LateReads
<1>3. Len(heap[v]) = cur[v] /\ cur[v] \in {0, 1} /\ Len(heap[v]) \in {0, 1}
  BY <1>2 DEF LateReader
<1>4. PICK c : c = op[w][1]
  OBVIOUS
<1>5. /\ LateWriter(w, relay[w], heap[w], cur[w], c, y) /\ cur[w] \in {0, 1}
      /\ Shape /\ FateShape /\ Len(fate[w]) = Len(relay[w]) /\ Len(relay[w]) \in Nat
      /\ IsSequence(relay[w]) /\ IsSequence(fate[w]) /\ Harmless(fate[w]) /\ StillRead(fate[w], fate[w])
  BY <1>4, LateCall
<1>6. Len(relay[w]) # 0 => LateSession(w, relay[w], y)
  <2>1. cur[w] = 0 => relay[w] = <<>>
    BY <1>5 DEF LateWriter
  <2>2. cur[w] = 1 => LateSession(w, relay[w], y)
    BY <1>5 DEF LateWriter
  <2>3. Len(<<>>) = 0
    OBVIOUS
  <2> QED BY <1>5, <2>1, <2>2, <2>3
<1> QED BY <1>1, <1>2, <1>3, <1>5, <1>6

\* Envelope n of its peer.
LEMMA LateEnvelope ==
  ASSUME KeyInv, NEW w \in Users, LateInv(w), Slots = 1, NEW n \in 1..Len(relay[w]),
         NEW y, y = stored[w], NEW m, m = relay[w][n]
  PROVE  /\ Numbered(m, y.dhs, y.rk, n - 1) /\ MsgId(m) = <<y.dhs, n - 1>> /\ y.dhs \in Keys
         /\ y.rk = X3DH(IdentityKey(w), m.dh, IdentityKey(Peer(w)), SignedPrekey(Peer(w)))
         /\ n \in Nat /\ n - 1 \in Nat /\ n \in 1..Len(fate[w])
<1>1. PICK o, l : o = op[Peer(w)][1] /\ l = Len(relay[w])
  OBVIOUS
<1>2. Len(fate[w]) = l /\ l \in Nat /\ (l # 0 => LateSession(w, relay[w], y))
  BY <1>1, LateRead
<1>3. n \in 1..l
  BY <1>1
<1>4. LateSession(w, relay[w], y) /\ n \in Nat /\ n - 1 \in Nat
  BY <1>2, <1>3
<1>5. Numbered(m, y.dhs, y.rk, n - 1)
  BY <1>4 DEF LateSession, InOneChain
<1>6. MsgId(m) = <<y.dhs, n - 1>> /\ m.dh = y.dhs
  BY <1>5 DEF MsgId, Numbered
<1>7. y.dhs \in Keys
  BY <1>4 DEF LateSession, Sessions
<1> QED BY <1>1, <1>2, <1>4, <1>5, <1>6, <1>7 DEF LateSession

\* A call goes on, or begins: no fate changes.
LEMMA LateGoesOn ==
  ASSUME KeyInv, NEW w \in Users, LateInv(w), NEW v, v = Peer(w), Slots = 1, NEW s \in 1..Slots,
         NEW h, NEW n \in 1..Len(relay[w]), NEW c, c = [pc |-> "chain", sid |-> 1, msg |-> n, chain |-> h.ckr],
         Follows(h, stored[w].dhs, stored[w].rk), h.ckr.step < n,
         Put(v, 1, h), Suspend(v, s, c), (cur' = cur /\ cur[v] = 1) \/ cur' = [cur EXCEPT ![v] = 1],
         UNCHANGED <<stored, nextKey, relay, fate>>
  PROVE  LateInv(w)'
<1>1. PICK o, y : o = op[v][s] /\ y = stored[w]
  OBVIOUS
<1>2. /\ s = 1 /\ v \in Users /\ FateShape /\ Len(heap[v]) \in {0, 1} /\ Len(fate[w]) = Len(relay[w])
      /\ Harmless(fate[w]) /\ LateReader(heap[v], cur[v], o, stored[v], y.dhs, y.rk, fate[w])
  BY <1>1, LateRead
<1>3. /\ Elsewhere(v) /\ cur'[v] = 1 /\ op'[v][1] = c
      /\ Len(heap'[v]) = 1 /\ heap'[v][1] = h
  BY <1>2, CallAlone
<1>4. c.msg = n /\ Listening(c, h, fate[w])
  BY <1>2 DEF Listening
<1>5. stored[v] = None \/ (Follows(stored[v], y.dhs, y.rk) /\ CaughtUp(stored[v], fate[w]))
  BY <1>2 DEF LateReader
<1>6. Follows(h, y.dhs, y.rk)
  BY <1>1
<1>7. LateReader(heap'[v], cur'[v], op'[v][1], stored[v], y.dhs, y.rk, fate[w])
  BY <1>3, <1>4, <1>5, <1>6 DEF LateReader
<1>8. LateReads(v, stored[w], fate[w])'
  BY <1>1, <1>7 DEF LateReads
<1>9. FateShape'
  BY <1>2 DEF FateShape
<1> QED BY <1>2, <1>3, <1>8, <1>9, ReaderMoves

\* A call ends: an envelope is read, or refused without harm.
LEMMA LateEnds ==
  ASSUME KeyInv, NEW w \in Users, LateInv(w), NEW v, v = Peer(w), Slots = 1, NEW s \in 1..Slots,
         NEW h, NEW n \in 1..Len(relay[w]), NEW outcome, Finish(v, s, n, 1, h, outcome), cur[v] = 1,
         Follows(h, stored[w].dhs, stored[w].rk), UNCHANGED <<nextKey, relay>>,
         \/ outcome = "read" /\ h.ckr.step = n
         \/ /\ outcome = "refused" /\ CaughtUp(h, fate[w])
            /\ \/ fate[w][n] = "read" \/ \E j \in 1..Len(fate[w]) : j > n /\ fate[w][j] = "read"
               \/ n > MaxSkipGap + 1
  PROVE  LateInv(w)'
<1>1. PICK o, y, F : o = op[v][s] /\ y = stored[w] /\ F = fate[w]
  OBVIOUS
<1>2. /\ s = 1 /\ v \in Users /\ v # w /\ Peer(v) = w /\ Shape /\ FateShape /\ Len(heap[v]) \in {0, 1}
      /\ Len(F) = Len(relay[w]) /\ Len(F) \in Nat
      /\ IsSequence(F) /\ Harmless(F) /\ LateReader(heap[v], cur[v], o, stored[v], y.dhs, y.rk, F)
  BY <1>1, LateRead
<1>3. PICK G : G = fate'[w]
  OBVIOUS
<1>4. /\ Put(v, 1, h) /\ Suspend(v, s, None)
      /\ fate' = [fate EXCEPT ![w][n] = IF @ = "read" THEN @ ELSE outcome]
      /\ outcome = "read" => Persist(v, 1, h) /\ UNCHANGED cur
      /\ outcome = "refused" => UNCHANGED <<cur, stored>>
  BY <1>2 DEF Finish, Return
<1>5. /\ Fated(F, n, outcome, G) /\ \A u \in Users \ {w} : fate'[u] = fate[u]
      /\ fate' = [u \in Users |-> fate'[u]]
  BY <1>1, <1>2, <1>3, <1>4 DEF FateShape, Fated
<1>6. /\ Harmless(G) /\ StillRead(F, G) /\ IsSequence(G) /\ Len(G) = Len(F)
      /\ outcome = "read" => G[n] = "read"
  BY <1>1, <1>2, <1>5, FatedIsHarmless
<1>7. /\ cur' = cur /\ \A u \in Users \ {v} : stored'[u] = stored[u]
      /\ stored'[v] = stored[v] \/ (outcome = "read" /\ stored'[v] = h)
  BY <1>2, <1>4 DEF Shape, Persist
<1>8. /\ Elsewhere(v) /\ cur'[v] = 1 /\ op'[v][1] = None
      /\ Len(heap'[v]) = 1 /\ heap'[v][1] = h
  <2>1. \A u \in Users \ {v} : nextKey'[u] = nextKey[u] /\ stored'[u] = stored[u] /\ relay'[u] = relay[u]
    BY <1>7
  <2>2. (cur' = cur /\ cur[v] = 1) \/ cur' = [cur EXCEPT ![v] = 1]
    BY <1>7
  <2> QED BY <1>2, <1>4, <2>1, <2>2, CallAlone
<1>9. CaughtUp(h, G)
  <2>1. CASE outcome = "read" /\ h.ckr.step = n
    <3>1. n \in 1..Len(G)
      BY <1>2, <1>6
    <3> QED BY <1>6, <2>1, <3>1 DEF CaughtUp
  <2>2. CASE CaughtUp(h, fate[w])
    BY <1>1, <1>2, <1>6, <2>2, StaysCaughtUp
  <2> QED BY <2>1, <2>2
<1>10. stored'[v] = None \/ (Follows(stored'[v], y.dhs, y.rk) /\ CaughtUp(stored'[v], G))
  <2>1. CASE stored'[v] = h
    BY <1>1, <1>9, <2>1
  <2>2. CASE stored'[v] = stored[v]
    <3>1. PICK x : x = stored[v]
      OBVIOUS
    <3>2. x = None \/ (Follows(x, y.dhs, y.rk) /\ CaughtUp(x, F))
      BY <1>2, <3>1 DEF LateReader
    <3>3. x = None \/ (Follows(x, y.dhs, y.rk) /\ CaughtUp(x, G))
      BY <1>2, <1>6, <3>2, StaysCaughtUp
    <3> QED BY <2>2, <3>1, <3>3
  <2> QED BY <1>7, <2>1, <2>2
<1>11. LateReader(heap'[v], cur'[v], op'[v][1], stored'[v], y.dhs, y.rk, G)
  <2>1. Listening(None, h, G) /\ Follows(h, y.dhs, y.rk)
    BY <1>1, <1>9 DEF Listening
  <2> QED BY <1>8, <1>10, <2>1 DEF LateReader
<1>12. stored'[w] = y
  BY <1>1, <1>2, <1>7
<1>13. LateReads(v, stored[w], fate[w])'
  BY <1>3, <1>11, <1>12 DEF LateReads
<1>14. FateShape'
  <2>1. \A u \in Users : IsSequence(fate'[u])
    BY <1>2, <1>3, <1>5, <1>6 DEF FateShape
  <2> QED BY <1>5, <2>1 DEF FateShape
<1>15. fate'[v] = fate[v] /\ Len(fate'[w]) = Len(fate[w]) /\ Harmless(fate'[w])
  BY <1>1, <1>2, <1>3, <1>5, <1>6
<1> QED BY <1>8, <1>13, <1>14, <1>15, ReaderMoves
LEMMA DecryptLate ==
  ASSUME KeyInv, NEW w \in Users, LateInv(w), NEW v, v = Peer(w), Slots = 1, NEW s \in 1..Slots,
         op[v][s] = None, NEW n \in 1..Len(relay[w]), NEW h, heap[v][1] = h, cur[v] = 1,
         Decrypt(v, s, n, 1, h), UNCHANGED <<nextKey, relay>>
  PROVE  LateInv(w)'
<1>1. PICK o, y, F, m : o = op[v][s] /\ y = stored[w] /\ F = fate[w] /\ m = relay[w][n]
  OBVIOUS
<1>2. /\ v \in Users /\ Peer(v) = w /\ Len(F) \in Nat
      /\ LateReader(heap[v], cur[v], o, stored[v], y.dhs, y.rk, F)
  BY <1>1, LateRead
<1>3. PICK dh, root : dh = y.dhs /\ root = y.rk
  OBVIOUS
<1>4. /\ Numbered(m, dh, root, n - 1) /\ MsgId(m) = <<dh, n - 1>> /\ n \in Nat /\ n - 1 \in Nat
      /\ n \in 1..Len(F)
  BY <1>1, <1>3, LateEnvelope
<1>5. Follows(h, dh, root) /\ CaughtUp(h, F)
  <2>1. Follows(h, dh, root) /\ Listening(o, h, F)
    BY <1>2, <1>3 DEF LateReader
  <2>2. o = None
    BY <1>1
  <2>3. \A j \in 1..Len(F) : o # [pc |-> "chain", sid |-> 1, msg |-> j, chain |-> h.ckr]
    <3>1. h.ckr \in Chains
      BY <2>1, FollowsParts
    <3>2. 1..Len(F) \subseteq Nat
      OBVIOUS
    <3> QED BY <2>2, <3>1, <3>2, NoneAssumption DEF Calls
  <2> QED BY <2>1, <2>3 DEF Listening
<1>6. PICK k : k = h.ckr.step
  OBVIOUS
<1>7. /\ k \in 1..Len(F) /\ F[k] = "read" /\ k \in Nat
      /\ h.dhr = dh /\ h.ckr # None /\ KeysBehind(h.skipped, h.seen, k, dh, root)
  <2>1. k \in 1..Len(F) /\ F[k] = "read"
    BY <1>5, <1>6 DEF CaughtUp
  <2>2. k \in Nat /\ h.dhr = dh /\ h.ckr # None /\ KeysBehind(h.skipped, h.seen, k, dh, root)
    BY <1>5, <1>6, FollowsParts
  <2> QED BY <2>1, <2>2
<1>8. n <= k => F[n] = "read" \/ \E j \in 1..Len(F) : j > n /\ F[j] = "read"
  <2> SUFFICES ASSUME n <= k, k # n PROVE k > n
    BY <1>7
  <2> QED BY <1>4, <1>7
<1>9. Envelope(v, n) = m /\ m.dh = dh /\ m.ns = n - 1
  BY <1>1, <1>2, <1>4 DEF Envelope, Numbered
<1>10. PICK id : id = MsgId(m)
  OBVIOUS
<1>11. CASE \E e \in ToSet(h.skipped) : e.id = id /\
             IF e.id \in h.seen THEN Finish(v, s, n, 1, h, "refused")
             ELSE Open(v, s, n, 1, TakeSkipped(h, e.id), e.key)
  <2>1. PICK e \in ToSet(h.skipped) :
          /\ e.id = id
          /\ IF e.id \in h.seen THEN Finish(v, s, n, 1, h, "refused")
             ELSE Open(v, s, n, 1, TakeSkipped(h, e.id), e.key)
    BY <1>11
  <2>2. PICK t \in Nat : t < k /\ e = Kept(dh, root, t)
    BY <1>7, <2>1 DEF KeysBehind
  <2>3. id = <<dh, t>>
    BY <2>1, <2>2 DEF Kept
  <2>4. t = n - 1 /\ n <= k
    <3>1. t = n - 1
      BY <1>4, <1>10, <2>3
    <3> QED BY <1>4, <1>7, <2>2, <3>1
  <2>5. F[n] = "read" \/ \E j \in 1..Len(F) : j > n /\ F[j] = "read"
    BY <1>8, <2>4
  <2>6. CASE Finish(v, s, n, 1, h, "refused")
    BY <1>1, <1>3, <1>5, <2>5, <2>6, LateEnds
  <2>7. CASE Open(v, s, n, 1, TakeSkipped(h, id), e.key)
    <3>1. PICK z : z = TakeSkipped(h, <<dh, t>>)
      OBVIOUS
    <3>2. Follows(z, dh, root) /\ z.ckr = h.ckr /\ <<dh, t>> \in z.seen
      BY <1>5, <1>6, <2>1, <2>2, <2>3, <3>1, FollowsTakes
    <3>3. Finish(v, s, n, 1, z, "refused")
      BY <1>9, <1>10, <2>3, <2>7, <3>1, <3>2 DEF Open
    <3>4. CaughtUp(z, F)
      BY <1>5, <3>2 DEF CaughtUp
    <3> QED BY <1>1, <1>3, <2>5, <3>2, <3>3, <3>4, LateEnds
  <2> QED BY <2>1, <2>6, <2>7
<1>12. CASE Advance(v, s, n, 1, h)
  <2>1. CASE Finish(v, s, n, 1, h, "refused") /\ (n - 1 < k \/ (n - 1) - k > MaxSkipGap)
    <3>1. MaxSkipGap \in Nat
      BY BoundsAssumption
    <3>2. n <= k \/ n > MaxSkipGap + 1
      BY <1>4, <1>7, <2>1, <3>1
    <3>3. F[n] = "read" \/ (\E j \in 1..Len(F) : j > n /\ F[j] = "read") \/ n > MaxSkipGap + 1
      BY <1>8, <3>2
    <3> QED BY <1>1, <1>3, <1>5, <2>1, <3>3, LateEnds
  <2>2. CASE /\ ~(n - 1 < k)
             /\ Suspend(v, s, [pc |-> "chain", sid |-> 1, msg |-> n, chain |-> h.ckr])
             /\ Put(v, 1, h) /\ UNCHANGED <<cur, stored, fate>>
    <3>1. PICK c : c = [pc |-> "chain", sid |-> 1, msg |-> n, chain |-> h.ckr]
      OBVIOUS
    <3>2. k < n
      BY <1>4, <1>7, <2>2
    <3>3. (cur' = cur /\ cur[v] = 1) \/ cur' = [cur EXCEPT ![v] = 1]
      BY <2>2
    <3>4. Put(v, 1, h) /\ Suspend(v, s, c) /\ UNCHANGED <<stored, nextKey, relay, fate>>
      BY <2>2, <3>1
    <3> QED BY <1>1, <1>3, <1>5, <1>6, <3>1, <3>2, <3>3, <3>4, LateGoesOn
  <2> QED BY <1>6, <1>7, <1>9, <1>12, <2>1, <2>2 DEF Advance
<1> QED BY <1>7, <1>9, <1>10, <1>11, <1>12 DEF Decrypt

LEMMA RecvStartLate ==
  ASSUME KeyInv, NEW w \in Users, LateInv(w), NEW v, v = Peer(w), Slots = 1, NEW s \in 1..Slots,
         RecvStart(v, s)
  PROVE  LateInv(w)'
<1>1. PICK o, y : o = op[v][s] /\ y = stored[w]
  OBVIOUS
<1>2. /\ s = 1 /\ v \in Users /\ v # w /\ Peer(v) = w /\ Shape /\ FateShape
      /\ LateReader(heap[v], cur[v], o, stored[v], y.dhs, y.rk, fate[w])
      /\ Len(heap[v]) = cur[v] /\ cur[v] \in {0, 1} /\ IsSequence(relay[w])
      /\ Len(fate[w]) = Len(relay[w]) /\ Harmless(fate[w])
  BY <1>1, LateRead
<1>3. PICK n \in DOMAIN relay[w] :
        /\ cur[v] = 0 => /\ Suspend(v, s, [pc |-> "bob", msg |-> n])
                         /\ UNCHANGED <<heap, cur, stored, fate>>
        /\ cur[v] # 0 => Decrypt(v, s, n, cur[v], heap[v][cur[v]])
  BY <1>2 DEF RecvStart
<1>4. o = None /\ UNCHANGED <<nextKey, relay>> /\ n \in 1..Len(relay[w])
  BY <1>1, <1>2, <1>3, SequenceOf DEF RecvStart
<1>5. CASE cur[v] = 0
  <2>1. PICK c : c = [pc |-> "bob", msg |-> n] /\ Suspend(v, s, c) /\ UNCHANGED <<heap, cur, stored, fate>>
    BY <1>3, <1>5
  <2>2. op'[v][1] = c /\ \A u \in Users \ {v} : op'[u] = op[u]
    <3>1. DOMAIN op[v] = 1..Slots /\ DOMAIN op = Users
      BY <1>2 DEF Shape
    <3> QED BY <1>2, <2>1, <3>1 DEF Suspend
  <2>3. Elsewhere(v)
    BY <1>4, <2>1, <2>2 DEF Elsewhere
  <2>4. c = [pc |-> "bob", msg |-> c.msg] /\ c.msg \in 1..Len(fate[w])
    BY <1>2, <1>4, <2>1
  <2>5. LateReader(heap[v], cur[v], c, stored[v], y.dhs, y.rk, fate[w])
    BY <1>2, <1>5, <2>4 DEF LateReader
  <2>6. LateReads(v, stored[w], fate[w])'
    BY <1>1, <2>1, <2>2, <2>5 DEF LateReads
  <2>7. FateShape'
    BY <1>2, <2>1 DEF FateShape
  <2> QED BY <1>2, <1>4, <2>1, <2>3, <2>6, <2>7, ReaderMoves
<1>6. CASE cur[v] # 0
  <2>1. cur[v] = 1
    BY <1>2, <1>6
  <2>2. PICK h : h = heap[v][1]
    OBVIOUS
  <2>3. Decrypt(v, s, n, 1, h) /\ op[v][s] = None
    BY <1>1, <1>3, <1>4, <1>6, <2>1, <2>2
  <2> QED BY <1>4, <2>1, <2>2, <2>3, DecryptLate
<1> QED BY <1>5, <1>6

\* What the call of a late reader is.
LEMMA ReadsNow ==
  ASSUME NEW q, NEW i, NEW o, NEW x, NEW dh, NEW root, NEW F, LateReader(q, i, o, x, dh, root, F), o # None
  PROVE  \/ o = [pc |-> "bob", msg |-> o.msg] /\ i = 0 /\ o.msg \in 1..Len(F)
         \/ /\ o = [pc |-> "chain", sid |-> 1, msg |-> o.msg, chain |-> q[1].ckr] /\ i = 1
            /\ o.msg \in 1..Len(F) /\ q[1].ckr.step < o.msg /\ Follows(q[1], dh, root)
BY DEF LateReader, Listening

LEMMA RecvBobLate ==
  ASSUME KeyInv, NEW w \in Users, LateInv(w), NEW v, v = Peer(w), Slots = 1, NEW s \in 1..Slots,
         RecvBob(v, s)
  PROVE  LateInv(w)'
<1>1. PICK o, y : o = op[v][s] /\ y = stored[w]
  OBVIOUS
<1>2. /\ v \in Users /\ Peer(v) = w /\ Len(heap[v]) = cur[v] /\ Len(fate[w]) = Len(relay[w])
      /\ LateReader(heap[v], cur[v], o, stored[v], y.dhs, y.rk, fate[w])
  BY <1>1, LateRead
<1>3. PICK n, m, x, c :
        /\ n = o.msg /\ m = relay[w][n] /\ x = InitializeAsBob(v, m.dh)
        /\ c = [pc |-> "chain", sid |-> Len(heap[v]) + 1, msg |-> n, chain |-> x.ckr]
        /\ o # None /\ o.pc = "bob" /\ Suspend(v, s, c) /\ Put(v, Len(heap[v]) + 1, x)
        /\ cur' = [cur EXCEPT ![v] = Len(heap[v]) + 1]
        /\ UNCHANGED <<stored, nextKey, relay, fate>>
  BY <1>1, <1>2 DEF RecvBob, Envelope
<1>4. cur[v] = 0 /\ n \in 1..Len(relay[w])
  <2>1. \/ o = [pc |-> "bob", msg |-> o.msg] /\ cur[v] = 0 /\ o.msg \in 1..Len(fate[w])
        \/ o = [pc |-> "chain", sid |-> 1, msg |-> o.msg, chain |-> heap[v][1].ckr]
    BY <1>2, <1>3, ReadsNow
  <2> QED BY <1>2, <1>3, <2>1
<1>5. Len(heap[v]) + 1 = 1
  BY <1>2, <1>4
<1>6. /\ Numbered(m, y.dhs, y.rk, n - 1) /\ y.dhs \in Keys
      /\ y.rk = X3DH(IdentityKey(w), m.dh, IdentityKey(v), SignedPrekey(v)) /\ n \in Nat /\ n \in 1..Len(fate[w])
  BY <1>1, <1>3, <1>4, LateEnvelope
<1>7. PICK dh, root : dh = y.dhs /\ root = y.rk
  OBVIOUS
<1>8. m.dh = dh
  BY <1>6, <1>7 DEF Numbered
<1>9. root \in Seq(Secrets) /\ SignedPrekey(v) \in Keys
  <2>1. PICK a, b, p : a = IdentityKey(w) /\ b = IdentityKey(v) /\ p = SignedPrekey(v)
    OBVIOUS
  <2>2. a \in Keys /\ b \in Keys /\ p \in Keys
    BY <1>2, <2>1 DEF IdentityKey, SignedPrekey, Keys
  <2>3. root = X3DH(a, dh, b, p)
    BY <1>6, <1>7, <1>8, <2>1
  <2>4. root \in Seq(Secrets)
    BY <1>6, <1>7, <2>2, <2>3, HandshakeRoot
  <2> QED BY <2>1, <2>2, <2>4
<1>10. x = [dhs |-> SignedPrekey(v), wiped |-> FALSE, dhr |-> dh, rk |-> root, cks |-> None,
            ckr |-> [root |-> root, step |-> 0], ns |-> 0, pn |-> 0, skipped |-> <<>>, seen |-> {},
            pending |-> FALSE, fresh |-> FALSE]
  BY <1>2, <1>3, <1>6, <1>7, <1>8 DEF InitializeAsBob, NewSession, Chain
<1>11. Follows(x, dh, root) /\ x.ckr.step = 0
  <2>1. [root |-> root, step |-> 0] \in Chains
    BY <1>9 DEF Chains
  <2>2. x \in Sessions
    BY <1>6, <1>7, <1>9, <1>10, <2>1 DEF Sessions
  <2>3. /\ x.dhr = dh /\ x.rk = root /\ x.ckr = [root |-> root, step |-> 0] /\ x.ckr.step = 0
        /\ x.skipped = <<>> /\ x.seen = {}
    BY <1>10
  <2>4. MaxSkipped \in Nat /\ Len(<<>>) = 0 /\ DOMAIN <<>> = {} /\ ToSet(<<>>) = {}
    BY BoundsAssumption DEF ToSet
  <2>5. Len(x.skipped) <= MaxSkipped /\ Distinct(x.skipped)
    BY <2>3, <2>4 DEF Distinct
  <2>6. KeysBehind(x.skipped, x.seen, 0, dh, root) /\ IdsBehind(x.seen, 0, dh)
    BY <2>3, <2>4 DEF KeysBehind, IdsBehind
  <2> QED BY <2>2, <2>3, <2>5, <2>6 DEF Follows
<1>12. c = [pc |-> "chain", sid |-> 1, msg |-> n, chain |-> x.ckr] /\ Put(v, 1, x) /\ Suspend(v, s, c)
       /\ ((cur' = cur /\ cur[v] = 1) \/ cur' = [cur EXCEPT ![v] = 1])
  BY <1>3, <1>5
<1>13. x.ckr.step < n
  BY <1>4, <1>6, <1>11
<1> QED BY <1>1, <1>3, <1>4, <1>7, <1>11, <1>12, <1>13, LateGoesOn
LEMMA RecvChainLate ==
  ASSUME KeyInv, NEW w \in Users, LateInv(w), NEW v, v = Peer(w), Slots = 1, NEW s \in 1..Slots,
         RecvChain(v, s)
  PROVE  LateInv(w)'
<1>1. PICK o, y : o = op[v][s] /\ y = stored[w]
  OBVIOUS
<1>2. /\ v \in Users /\ Peer(v) = w /\ Len(fate[w]) = Len(relay[w]) /\ Len(fate[w]) \in Nat
      /\ LateReader(heap[v], cur[v], o, stored[v], y.dhs, y.rk, fate[w])
  BY <1>1, LateRead
<1>3. PICK n, m, h, x, kept :
        /\ n = o.msg /\ m = relay[w][n] /\ h = heap[v][o.sid] /\ x = [h EXCEPT !.ckr = NextChain(o.chain)]
        /\ kept = KeepSkipped(x, <<m.dh, o.chain.step>>, o.chain)
        /\ o # None /\ o.pc = "chain"
        /\ IF o.chain.step < m.ns
           THEN Suspend(v, s, [o EXCEPT !.chain = x.ckr]) /\ Put(v, o.sid, kept)
                /\ UNCHANGED <<cur, stored, fate>>
           ELSE Open(v, s, n, o.sid, x, o.chain)
        /\ UNCHANGED <<nextKey, relay>>
  BY <1>1, <1>2 DEF RecvChain, Envelope
<1>4. PICK dh, root, k : dh = y.dhs /\ root = y.rk /\ k = heap[v][1].ckr.step
  OBVIOUS
<1>5. /\ o = [pc |-> "chain", sid |-> 1, msg |-> n, chain |-> heap[v][1].ckr] /\ cur[v] = 1
      /\ n \in 1..Len(relay[w]) /\ k < n /\ Follows(heap[v][1], dh, root)
  <2>1. \/ o = [pc |-> "bob", msg |-> o.msg]
        \/ /\ o = [pc |-> "chain", sid |-> 1, msg |-> o.msg, chain |-> heap[v][1].ckr] /\ cur[v] = 1
           /\ o.msg \in 1..Len(fate[w]) /\ heap[v][1].ckr.step < o.msg
           /\ Follows(heap[v][1], y.dhs, y.rk)
    BY <1>2, <1>3, ReadsNow
  <2> QED BY <1>2, <1>3, <1>4, <2>1
<1>6. o.sid = 1 /\ h = heap[v][1] /\ o.chain = h.ckr
  BY <1>3, <1>5
<1>7. /\ Follows(h, dh, root) /\ k = h.ckr.step /\ h.ckr = [root |-> root, step |-> k] /\ k \in Nat
      /\ h \in Sessions
  BY <1>4, <1>5, <1>6, FollowsParts
<1>8. /\ Numbered(m, dh, root, n - 1) /\ MsgId(m) = <<dh, n - 1>> /\ n \in Nat /\ n - 1 \in Nat
      /\ n \in 1..Len(fate[w])
  <2>1. m = relay[w][n] /\ n \in 1..Len(relay[w])
    BY <1>3, <1>5
  <2>2. /\ Numbered(m, y.dhs, y.rk, n - 1) /\ MsgId(m) = <<y.dhs, n - 1>> /\ n \in Nat /\ n - 1 \in Nat
        /\ n \in 1..Len(fate[w])
    BY <1>1, <2>1, LateEnvelope
  <2> QED BY <1>4, <2>2
<1>9. /\ x = [h EXCEPT !.ckr = [root |-> root, step |-> k + 1]] /\ o.chain = [root |-> root, step |-> k]
      /\ o.chain.step = k /\ x.ckr = [root |-> root, step |-> k + 1] /\ m.dh = dh /\ m.ns = n - 1
  <2>1. NextChain(o.chain) = [root |-> root, step |-> k + 1]
    BY <1>6, <1>7 DEF NextChain
  <2>2. o.chain = [root |-> root, step |-> k] /\ o.chain.step = k
    BY <1>6, <1>7
  <2>3. x = [h EXCEPT !.ckr = [root |-> root, step |-> k + 1]]
    BY <1>3, <2>1
  <2>4. x.ckr = [root |-> root, step |-> k + 1]
    BY <1>7, <2>3 DEF Sessions
  <2> QED BY <1>8, <2>2, <2>3, <2>4 DEF Numbered
<1>10. CASE k < n - 1
  <2>1. Suspend(v, s, [o EXCEPT !.chain = x.ckr]) /\ Put(v, 1, kept) /\ UNCHANGED <<cur, stored, fate>>
    BY <1>3, <1>6, <1>9, <1>10
  <2>2. kept = KeepSkipped(x, <<dh, k>>, [root |-> root, step |-> k])
    BY <1>3, <1>9
  <2>3. Follows(kept, dh, root) /\ kept.ckr = [root |-> root, step |-> k + 1]
    BY <1>7, <1>9, <2>2, FollowsKeeps
  <2>4. kept.ckr.step < n
    BY <1>7, <1>8, <1>10, <2>3
  <2>5. PICK c : c = [pc |-> "chain", sid |-> 1, msg |-> n, chain |-> kept.ckr]
    OBVIOUS
  <2>6. [o EXCEPT !.chain = x.ckr] = c
    BY <1>5, <1>9, <2>3, <2>5
  <2>7. (cur' = cur /\ cur[v] = 1) \/ cur' = [cur EXCEPT ![v] = 1]
    BY <1>5, <2>1
  <2>8. Put(v, 1, kept) /\ Suspend(v, s, c) /\ UNCHANGED <<stored, nextKey, relay, fate>>
    BY <1>3, <2>1, <2>6
  <2> QED BY <1>1, <1>4, <1>5, <2>3, <2>4, <2>5, <2>7, <2>8, LateGoesOn
<1>11. CASE ~(k < n - 1)
  <2>1. k = n - 1 /\ k + 1 = n
    BY <1>5, <1>7, <1>8, <1>11
  <2>2. Open(v, s, n, 1, x, o.chain) /\ Envelope(v, n) = m
    BY <1>2, <1>3, <1>6, <1>9, <1>11 DEF Envelope
  <2>3. PICK z : z = Rebuilt(h, root, k + 1, h.skipped, h.seen \cup {<<dh, k>>})
    OBVIOUS
  <2>4. Follows(z, dh, root) /\ z.ckr = [root |-> root, step |-> k + 1] /\ <<dh, k>> \notin h.seen
    BY <1>7, <2>3, FollowsReads
  <2>5. x.seen = h.seen /\ [x EXCEPT !.seen = x.seen \cup {<<dh, k>>}] = z
    BY <1>7, <1>9, <2>3 DEF Sessions, Rebuilt
  <2>6. MsgId(m) = <<dh, k>> /\ m.key = o.chain
    BY <1>8, <1>9, <2>1 DEF Numbered
  <2>7. Finish(v, s, n, 1, z, "read")
    BY <2>2, <2>4, <2>5, <2>6 DEF Open
  <2>8. z.ckr.step = n
    BY <2>1, <2>4
  <2> QED BY <1>1, <1>3, <1>4, <1>5, <2>4, <2>7, <2>8, LateEnds
<1> QED BY <1>10, <1>11

LEMMA ReloadLate ==
  ASSUME KeyInv, NEW w \in Users, LateInv(w), Slots = 1, NEW u \in Users, Reload(u)
  PROVE  LateInv(w)'
<1>1. /\ heap' = [heap EXCEPT ![u] = IF stored[u] = None THEN <<>> ELSE <<stored[u]>>]
      /\ cur' = [cur EXCEPT ![u] = IF stored[u] = None THEN 0 ELSE 1]
      /\ op' = [op EXCEPT ![u] = [s \in 1..Slots |-> None]]
      /\ UNCHANGED <<stored, nextKey, relay, fate>>
  BY DEF Reload, Deserialize
<1>2. PICK v, c, d, x, y : v = Peer(w) /\ c = op[w][1] /\ d = op[v][1] /\ x = stored[u] /\ y = stored[w]
  OBVIOUS
<1>3. 1 \in 1..Slots
  OBVIOUS
<1>4. /\ LateWriter(w, relay[w], heap[w], cur[w], c, y) /\ cur[w] \in {0, 1} /\ v \in Users /\ v # w
      /\ Shape /\ FateShape /\ Len(fate[w]) = Len(relay[w]) /\ Harmless(fate[w])
      /\ StillRead(fate[w], fate[w])
  BY <1>2, <1>3, LateCall
<1>5. LateReader(heap[v], cur[v], d, stored[v], y.dhs, y.rk, fate[w])
  BY <1>2, <1>3, LateRead
<1>6. Elsewhere(u)
  BY <1>1, <1>4 DEF Shape, Elsewhere
<1>7. op'[u][1] = None /\ FateShape'
  BY <1>1, <1>3, <1>4 DEF Shape, FateShape
<1>8. \/ x = None /\ heap'[u] = <<>> /\ Len(heap'[u]) = 0 /\ cur'[u] = 0
      \/ x # None /\ Len(heap'[u]) = 1 /\ heap'[u][1] = x /\ cur'[u] = 1
  BY <1>1, <1>2, <1>4 DEF Shape
<1>9. CASE u = w
  <2>1. cur[w] = 1 => y \in Sessions
    BY <1>4 DEF LateWriter, LateSession
  <2>2. (cur[w] = 1 <=> x # None) /\ (cur[w] = 0 <=> x = None)
    BY <1>2, <1>4, <1>9, <2>1, NoneAssumption DEF LateWriter
  <2>3. LateWriter(w, relay[w], heap'[w], cur'[w], None, y)
    BY <1>2, <1>4, <1>8, <1>9, <2>2 DEF LateWriter
  <2>4. LateWriter(w, relay'[w], heap'[w], cur'[w], op'[w][1], stored'[w])
    BY <1>1, <1>2, <1>7, <1>9, <2>3
  <2> QED BY <1>1, <1>4, <1>6, <1>7, <1>9, <2>4, WriterMoves
<1>10. CASE u # w
  <2>1. u = v
    BY <1>2, <1>10, OtherIsPeer
  <2>2. x = None \/ (Follows(x, y.dhs, y.rk) /\ CaughtUp(x, fate[w]))
    BY <1>2, <1>5, <2>1 DEF LateReader
  <2>3. LateReader(heap'[v], cur'[v], None, x, y.dhs, y.rk, fate[w])
    <3>1. PICK q, i : q = heap'[v] /\ i = cur'[v]
      OBVIOUS
    <3>2. \/ x = None /\ Len(q) = 0 /\ i = 0
          \/ x # None /\ Len(q) = 1 /\ q[1] = x /\ i = 1
      BY <1>8, <2>1, <3>1
    <3>3. x # None => Follows(x, y.dhs, y.rk) /\ Listening(None, x, fate[w])
      BY <2>2 DEF Listening
    <3>4. LateReader(q, i, None, x, y.dhs, y.rk, fate[w])
      BY <2>2, <3>2, <3>3 DEF LateReader
    <3> QED BY <3>1, <3>4
  <2>4. LateReads(v, stored[w], fate[w])'
    BY <1>1, <1>2, <1>7, <2>1, <2>3 DEF LateReads
  <2>5. Elsewhere(Peer(w)) /\ LateReads(Peer(w), stored[w], fate[w])'
    BY <1>2, <1>6, <2>1, <2>4
  <2> QED BY <1>1, <1>4, <1>7, <2>5, ReaderMoves
<1> QED BY <1>9, <1>10

LEMMA LateInvInit ==
  ASSUME Init, Slots = 1, NEW w \in Users
  PROVE  LateInv(w)
<1>1. \A u \in Users : /\ heap[u] = <<>> /\ cur[u] = 0 /\ stored[u] = None
                       /\ relay[u] = <<>> /\ fate[u] = <<>> /\ op[u][1] = None
  BY DEF Init
<1>2. Peer(w) \in Users /\ Len(<<>>) = 0
  BY PeerIsOther
<1>3. FateShape
  <2>1. fate = [u \in Users |-> fate[u]]
    BY DEF Init
  <2>2. IsSequence(<<>>)
    BY DEF IsSequence
  <2> QED BY <1>1, <2>1, <2>2 DEF FateShape
<1>4. LateWriter(w, relay[w], heap[w], cur[w], op[w][1], stored[w])
  BY <1>1, <1>2 DEF LateWriter
<1>5. LateReads(Peer(w), stored[w], fate[w])
  BY <1>1, <1>2 DEF LateReads, LateReader
<1>6. Harmless(fate[w])
  BY <1>1, <1>2 DEF Harmless
<1> QED BY <1>1, <1>2, <1>3, <1>4, <1>5, <1>6 DEF LateInv

LEMMA LateStutter ==
  ASSUME KeyInv, NEW w \in Users, LateInv(w), UNCHANGED vars
  PROVE  LateInv(w)'
BY DEF vars, sessionVars, LateInv, LateReads, FateShape

\* The client that does not write never begins to, and neither is at a call of the other.
LEMMA LateNext ==
  ASSUME KeyInv, NEW w \in Users, LateInv(w), Slots = 1, ~BundleMayFail,
         \A u \in Users \ {w} : MaxSent[u] = 0, Next
  PROVE  LateInv(w)'
<1>1. PICK u \in Users :
        \/ \E s \in 1..Slots : SendSteps(u, s) \/ RecvSteps(u, s)
        \/ Reload(u)
  BY DEF Next
<1>2. PICK v, y : v = Peer(w) /\ v \in Users /\ v # w /\ Peer(v) = w /\ y = stored[w] /\ (u = w \/ u = v)
  BY PeerIsOther, OtherIsPeer
<1>3. ASSUME NEW s \in 1..Slots, SendSteps(u, s) PROVE LateInv(w)'
  <2>1. SendStart(u, s) \/ BundleAnswer(u, s) \/ SendRatchet(u, s) \/ SendKey(u, s)
    BY <1>3 DEF SendSteps
  <2>2. CASE u = w
    <3>1. PICK o : o = op[w][s]
      OBVIOUS
    <3>2. LateWriter(w, relay[w], heap[w], cur[w], o, y)
      BY <1>2, <3>1, LateCall
    <3>3. ~SendRatchet(w, s)
      BY <3>1, <3>2, WritesNow DEF SendRatchet
    <3> QED BY <2>1, <2>2, <3>3, SendStartLate, BundleLate, SendKeyLate
  <2>3. CASE u = v
    <3>1. PICK o : o = op[v][s]
      OBVIOUS
    <3>2. LateReader(heap[v], cur[v], o, stored[v], y.dhs, y.rk, fate[w])
      BY <1>2, <3>1, LateRead
    <3>3. o = None \/ o.pc \in {"bob", "chain"}
      BY <3>2, ReadsNow
    <3>4. ~BundleAnswer(v, s) /\ ~SendRatchet(v, s) /\ ~SendKey(v, s)
      BY <3>1, <3>3 DEF BundleAnswer, SendRatchet, SendKey
    <3>5. ~MaySpeak(v)
      <4>1. Len(relay[v]) = 0 /\ MaxSent[v] = 0
        BY <1>2 DEF LateInv
      <4>2. Cardinality({t \in 1..Slots : op[v][t] # None}) \in Nat
        <5>1. IsFiniteSet({1})
          BY FS_Singleton
        <5>2. {t \in 1..Slots : op[v][t] # None} \subseteq {1}
          OBVIOUS
        <5>3. IsFiniteSet({t \in 1..Slots : op[v][t] # None})
          BY <5>1, <5>2, FS_Subset
        <5> QED BY <5>3, FS_CardinalityType
      <4> QED BY <4>1, <4>2 DEF MaySpeak
    <3> QED BY <2>1, <2>3, <3>4, <3>5 DEF SendStart
  <2> QED BY <1>2, <2>2, <2>3
<1>4. ASSUME NEW s \in 1..Slots, RecvSteps(u, s) PROVE LateInv(w)'
  <2>1. RecvStart(u, s) \/ RecvBob(u, s) \/ RecvDh(u, s) \/ RecvChain(u, s)
    BY <1>4 DEF RecvSteps
  <2>2. CASE u = w
    <3>1. PICK o : o = op[w][s]
      OBVIOUS
    <3>2. LateWriter(w, relay[w], heap[w], cur[w], o, y)
      BY <1>2, <3>1, LateCall
    <3>3. o = None \/ o.pc \in {"bundle", "key"}
      BY <3>2, WritesNow
    <3>4. ~RecvBob(w, s) /\ ~RecvDh(w, s) /\ ~RecvChain(w, s)
      BY <3>1, <3>3 DEF RecvBob, RecvDh, RecvChain
    <3>5. ~RecvStart(w, s)
      BY <1>2 DEF RecvStart, LateInv
    <3> QED BY <2>1, <2>2, <3>4, <3>5
  <2>3. CASE u = v
    <3>1. PICK o : o = op[v][s]
      OBVIOUS
    <3>2. LateReader(heap[v], cur[v], o, stored[v], y.dhs, y.rk, fate[w])
      BY <1>2, <3>1, LateRead
    <3>3. o = None \/ o.pc \in {"bob", "chain"}
      BY <3>2, ReadsNow
    <3>4. ~RecvDh(v, s)
      BY <3>1, <3>3 DEF RecvDh
    <3> QED BY <1>2, <2>1, <2>3, <3>4, RecvStartLate, RecvBobLate, RecvChainLate
  <2> QED BY <1>2, <2>2, <2>3
<1> QED BY <1>1, <1>3, <1>4, ReloadLate
-----------------------------------------------------------------------------
(* "late" as a whole: what its invariant says of the roots, the kept keys   *)
(* and the fates.                                                           *)

LEMMA LateParts ==
  ASSUME KeyInv, Slots = 1, NEW w \in Users, LateInv(w), NEW v, v = Peer(w), NEW y, y = stored[w]
  PROVE  /\ v \in Users /\ v # w /\ Peer(v) = w /\ \A u \in Users : u = w \/ u = v
         /\ \A u \in Users : (cur[u] # 0 <=> cur[u] = 1) /\ (\A i \in DOMAIN heap[u] : i = 1 /\ cur[u] = 1)
         /\ cur[w] = 1 => heap[w][1] = y /\ LateSession(w, relay[w], y)
         /\ cur[v] = 1 => Follows(heap[v][1], y.dhs, y.rk)
         /\ IsSequence(relay[w]) /\ (Len(relay[w]) # 0 => LateSession(w, relay[w], y))
<1>1. PICK o, d : o = op[w][1] /\ d = op[v][1]
  OBVIOUS
<1>2. 1 \in 1..Slots
  OBVIOUS
<1>3. LateWriter(w, relay[w], heap[w], cur[w], o, y)
  BY <1>1, <1>2, LateCall
<1>4. /\ v \in Users /\ v # w /\ Peer(v) = w /\ LateReader(heap[v], cur[v], d, stored[v], y.dhs, y.rk, fate[w])
      /\ IsSequence(relay[w]) /\ (Len(relay[w]) # 0 => LateSession(w, relay[w], y))
  BY <1>1, <1>2, LateRead
<1>5. \A u \in Users : u = w \/ u = v
  BY OtherIsPeer
<1>6. ASSUME NEW u \in Users
      PROVE  (cur[u] # 0 <=> cur[u] = 1) /\ (\A i \in DOMAIN heap[u] : i = 1 /\ cur[u] = 1)
  <2>1. Len(heap[u]) = cur[u] /\ cur[u] \in {0, 1}
    BY <1>3, <1>4, <1>5 DEF LateWriter, LateReader
  <2>2. PICK h, c : h = heap[u] /\ c = cur[u]
    OBVIOUS
  <2>3. IsSequence(h)
    BY <2>2 DEF KeyInv, ClientInv
  <2>4. DOMAIN h = 1..Len(h)
    BY <2>3, SequenceOf
  <2>5. DOMAIN h = 1..c /\ c \in {0, 1}
    BY <2>1, <2>2, <2>4
  <2>6. \A i \in DOMAIN h : i = 1 /\ c = 1
    BY <2>5
  <2> QED BY <2>1, <2>2, <2>6
<1>7. cur[w] = 1 => heap[w][1] = y /\ LateSession(w, relay[w], y)
  BY <1>3 DEF LateWriter
<1>8. cur[v] = 1 => Follows(heap[v][1], y.dhs, y.rk)
  BY <1>4 DEF LateReader
<1> QED BY <1>4, <1>5, <1>6, <1>7, <1>8

LEMMA LateRoots ==
  ASSUME KeyInv, Slots = 1, NEW w \in Users, LateInv(w)
  PROVE  RootsAgree
<1> SUFFICES ASSUME NEW a \in Users, NEW b \in Users, cur[a] # 0, cur[b] # 0
             PROVE  IsPrefix(Root(a), Root(b)) \/ IsPrefix(Root(b), Root(a))
  BY DEF RootsAgree
<1>1. PICK v, y : v = Peer(w) /\ y = stored[w]
  OBVIOUS
<1>2. ASSUME NEW u \in Users, cur[u] # 0 PROVE Root(u) = y.rk /\ Root(u) \in Seq(Secrets)
  <2>1. cur[u] = 1 /\ (u = w \/ u = v)
    BY <1>1, <1>2, LateParts
  <2>2. Root(u) = y.rk
    <3>1. CASE u = w
      BY <1>1, <2>1, <3>1, LateParts DEF Root
    <3>2. CASE u = v
      <4>1. Follows(heap[v][1], y.dhs, y.rk)
        BY <1>1, <2>1, <3>2, LateParts
      <4> QED BY <2>1, <3>2, <4>1 DEF Root, Follows
    <3> QED BY <2>1, <3>1, <3>2
  <2>3. SessionInv(u, heap[u][cur[u]])
    BY <1>2 DEF KeyInv, ClientInv
  <2> QED BY <2>2, <2>3 DEF SessionInv, Root
<1>3. PICK r \in Seq(Secrets) : r = Root(a) /\ r = Root(b)
  BY <1>2
<1>4. Len(r) <= Len(r)
  <2>1. Len(r) \in Nat
    BY <1>3, LenProperties
  <2> QED BY <2>1
<1>5. IsPrefix(r, r)
  BY <1>4, PrefixOf
<1> QED BY <1>3, <1>5

LEMMA LateKeysOpen ==
  ASSUME KeyInv, Slots = 1, NEW w \in Users, LateInv(w)
  PROVE  SkippedKeysOpen
<1> SUFFICES ASSUME NEW u \in Users, NEW i \in DOMAIN heap[u]
             PROVE  /\ Len(heap[u][i].skipped) <= MaxSkipped
                    /\ SkippedIds(heap[u][i]) \cap heap[u][i].seen = {}
                    /\ \A e \in ToSet(heap[u][i].skipped), m \in ToSet(relay[Peer(u)]) :
                          MsgId(m) = e.id => e.key = m.key
  BY DEF SkippedKeysOpen
<1>1. PICK v, y, h : v = Peer(w) /\ y = stored[w] /\ h = heap[u][1]
  OBVIOUS
<1>2. i = 1 /\ cur[u] = 1 /\ (u = w \/ u = v) /\ Peer(v) = w
  BY <1>1, LateParts
<1>3. CASE u = w
  <2>1. h.skipped = <<>>
    BY <1>1, <1>2, <1>3, LateParts DEF LateSession
  <2>2. Len(<<>>) = 0 /\ ToSet(<<>>) = {}
    BY DEF ToSet
  <2> QED BY <1>1, <1>2, <2>1, <2>2, BoundsAssumption DEF SkippedIds
<1>4. CASE u = v
  <2>1. PICK dh, root : dh = y.dhs /\ root = y.rk
    OBVIOUS
  <2>2. Follows(h, dh, root)
    BY <1>1, <1>2, <1>4, <2>1, LateParts
  <2>3. PICK k : k = h.ckr.step
    OBVIOUS
  <2>4. Len(h.skipped) <= MaxSkipped /\ KeysBehind(h.skipped, h.seen, k, dh, root)
    BY <2>2, <2>3, FollowsParts
  <2>5. SkippedIds(h) \cap h.seen = {}
    <3> SUFFICES ASSUME NEW e \in ToSet(h.skipped), e.id \in h.seen PROVE FALSE
      BY DEF SkippedIds
    <3>1. PICK t \in Nat : e = Kept(dh, root, t) /\ <<dh, t>> \notin h.seen
      BY <2>4 DEF KeysBehind
    <3> QED BY <3>1 DEF Kept
  <2>6. ASSUME NEW e \in ToSet(h.skipped), NEW m \in ToSet(relay[w]), MsgId(m) = e.id
        PROVE  e.key = m.key
    <3>1. PICK t \in Nat : e = Kept(dh, root, t)
      BY <2>4 DEF KeysBehind
    <3>2. PICK l, n : l = Len(relay[w]) /\ n \in 1..l /\ m = relay[w][n]
      <4>1. IsSequence(relay[w])
        BY <1>1, LateParts
      <4> QED BY <4>1, SequenceOf DEF ToSet
    <3>3. n \in 1..Len(relay[w])
      BY <3>2
    <3>4. Numbered(m, dh, root, n - 1) /\ MsgId(m) = <<dh, n - 1>> /\ n - 1 \in Nat
      BY <1>1, <2>1, <3>2, <3>3, LateEnvelope
    <3>5. e.id = <<dh, t>> /\ e.key = [root |-> root, step |-> t]
      BY <3>1 DEF Kept
    <3>6. t = n - 1
      <4>1. PICK p : p = n - 1
        OBVIOUS
      <4>2. <<dh, t>> = <<dh, p>>
        BY <2>6, <3>4, <3>5, <4>1
      <4>3. t = p
        BY <4>2
      <4> QED BY <4>1, <4>3
    <3> QED BY <3>4, <3>5, <3>6 DEF Numbered
  <2> QED BY <1>1, <1>2, <1>4, <2>4, <2>5, <2>6
<1> QED BY <1>2, <1>3, <1>4

LEMMA LateHarm ==
  ASSUME KeyInv, Slots = 1, NEW w \in Users, LateInv(w)
  PROVE  LateIsHarmless
<1> SUFFICES ASSUME NEW u \in Users, NEW i \in DOMAIN fate[u]
             PROVE  /\ fate[u][i] # "undecryptable"
                    /\ fate[u][i] = "refused" =>
                         \/ \E j \in DOMAIN fate[u] : j > i /\ fate[u][j] = "read"
                         \/ i > MaxSkipGap + 1
  BY DEF LateIsHarmless
<1>1. fate[Peer(w)] = <<>> /\ Harmless(fate[w]) /\ IsSequence(fate[w])
  BY DEF LateInv, FateShape
<1>2. u = w
  <2>1. CASE u = Peer(w)
    BY <1>1, <2>1
  <2> QED BY <2>1, OtherIsPeer
<1>3. DOMAIN fate[w] = 1..Len(fate[w])
  BY <1>1, SequenceOf
<1> QED BY <1>1, <1>2, <1>3 DEF Harmless

LEMMA ReadIsHarmless == ASSUME EveryMessageRead PROVE LateIsHarmless
<1> SUFFICES ASSUME NEW u \in Users, NEW i \in DOMAIN fate[u]
             PROVE  fate[u][i] # "undecryptable" /\ fate[u][i] # "refused"
  BY DEF LateIsHarmless
<1>1. fate[u][i] = "sent" \/ fate[u][i] = "read"
  BY DEF EveryMessageRead
<1> QED BY <1>1

-----------------------------------------------------------------------------
(* The two instances.                                                       *)

\* The two parts, as MCRatchet.cfg has them: one client begins the chat, its peer has
\* published a bundle and in the turns no chain is as long as KEY_ROTATION_INTERVAL; in "late" only w writes.
Instances(w) ==
    /\ Slots = 1 /\ ~BundleMayFail /\ Parts \subseteq {"late", "turns"}
    /\ \E f \in Users : FirstSpeakers \subseteq {f}
    /\ \A u \in Users : TurnsSent[u] <= Rotation
    /\ w \in Users /\ \A u \in Users \ {w} : MaxSent[u] = 0

ChatInv(w) ==
    /\ KeyInv /\ part \in {"late", "turns"}
    /\ part = "turns" => TurnsInv /\ again = 0
    /\ part = "late" => LateInv(w)

LEMMA ChatInvInit ==
  ASSUME NEW w, Instances(w), MCInit
  PROVE  ChatInv(w)
<1>1. Init /\ Slots = 1 /\ w \in Users /\ part \in {"late", "turns"}
  BY DEF Instances, MCInit
<1> QED BY <1>1, KeyInvInit, TurnsInvInit, LateInvInit DEF ChatInv

LEMMA ChatInvNext ==
  ASSUME NEW w, Instances(w), ChatInv(w), [MCNext]_<<part, vars>>
  PROVE  ChatInv(w)'
<1>1. PICK f \in Users : FirstSpeakers \subseteq {f}
  BY DEF Instances
<1>2. /\ Slots = 1 /\ ~BundleMayFail /\ w \in Users /\ \A u \in Users : TurnsSent[u] <= Rotation
      /\ \A u \in Users \ {w} : MaxSent[u] = 0
  BY DEF Instances
<1>3. KeyInv /\ KeyInv'
  BY <1>2, KeyInvNext DEF ChatInv
<1>4. part' = part /\ part \in {"late", "turns"}
  BY DEF ChatInv, MCNext
<1>5. CASE part = "turns"
  <2>1. TurnsInv /\ again = 0 /\ (Turns!Next \/ UNCHANGED vars)
    BY <1>5 DEF ChatInv, MCNext
  <2>2. TurnsInv' /\ again' = 0
    <3>1. CASE Turns!Next
      BY <1>1, <1>2, <1>3, <2>1, <3>1, TurnsNext
    <3>2. CASE UNCHANGED vars
      BY <1>3, <2>1, <3>2, TurnsStutter
    <3> QED BY <2>1, <3>1, <3>2
  <2> QED BY <1>3, <1>4, <1>5, <2>2 DEF ChatInv
<1>6. CASE part = "late"
  <2>1. LateInv(w) /\ (Next \/ UNCHANGED vars)
    BY <1>6 DEF ChatInv, MCNext
  <2>2. LateInv(w)'
    <3>1. CASE Next
      BY <1>2, <1>3, <2>1, <3>1, LateNext
    <3>2. CASE UNCHANGED vars
      BY <1>2, <1>3, <2>1, <3>2, LateStutter
    <3> QED BY <2>1, <3>1, <3>2
  <2> QED BY <1>3, <1>4, <1>6, <2>2 DEF ChatInv
<1> QED BY <1>4, <1>5, <1>6

LEMMA ChatInvAgrees ==
  ASSUME NEW w, Instances(w), ChatInv(w)
  PROVE  ClientsAgree /\ LateIsHarmless
<1>1. KeyInv /\ Slots = 1 /\ w \in Users /\ part \in {"late", "turns"}
  BY DEF ChatInv, Instances
<1>2. CASE part = "turns"
  <2>1. TurnsInv
    BY <1>2 DEF ChatInv
  <2> QED BY <1>1, <2>1, TurnsRoots, TurnsKeepNone, TurnsAreRead, ReadIsHarmless DEF ClientsAgree
<1>3. CASE part = "late"
  <2>1. LateInv(w) /\ part # "turns"
    BY <1>3 DEF ChatInv
  <2> QED BY <1>1, <2>1, LateRoots, LateKeysOpen, LateHarm DEF ClientsAgree
<1> QED BY <1>1, <1>2, <1>3

\* The two clients stay on one line of root keys, every key kept for an overtaken envelope opens
\* it, and in the turns every envelope that arrives is read: for any number of envelopes, turns,
\* reloads, skipped keys and windows.
THEOREM ClientsStayTogether == \A w \in Users : Instances(w) => (MCSpec => []ClientsAgree)
<1> SUFFICES ASSUME NEW w \in Users, Instances(w) PROVE MCSpec => []ClientsAgree
  OBVIOUS
<1>1. MCInit => ChatInv(w)
  BY ChatInvInit
<1>2. ChatInv(w) /\ [MCNext]_<<part, vars>> => ChatInv(w)'
  BY ChatInvNext
<1>3. ChatInv(w) => ClientsAgree
  BY ChatInvAgrees
<1> QED BY <1>1, <1>2, <1>3, PTL DEF MCSpec

\* Envelopes of one chain in any order cost nobody a session, and one that was refused had been
\* overtaken by one that was read or was further ahead than MAX_SKIP_GAP.
THEOREM LateEnvelopesAreHarmless == \A w \in Users : Instances(w) => (MCSpec => []LateIsHarmless)
<1> SUFFICES ASSUME NEW w \in Users, Instances(w) PROVE MCSpec => []LateIsHarmless
  OBVIOUS
<1>1. MCInit => ChatInv(w)
  BY ChatInvInit
<1>2. ChatInv(w) /\ [MCNext]_<<part, vars>> => ChatInv(w)'
  BY ChatInvNext
<1>3. ChatInv(w) => LateIsHarmless
  BY ChatInvAgrees
<1> QED BY <1>1, <1>2, <1>3, PTL DEF MCSpec
==============================================================================
