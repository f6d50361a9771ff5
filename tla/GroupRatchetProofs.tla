-------------------------- MODULE GroupRatchetProofs --------------------------
(***************************************************************************)
(* What holds of GroupRatchet for any members, calls in progress, keys,    *)
(* messages and changes of membership: types and the queue of the lock,    *)
(* the steps of the chains, and who holds which key.                       *)
(***************************************************************************)
EXTENDS GroupRatchet, FiniteSetTheorems, TLAPS

Calls == {"idle", "get", "init", "again", "lock", "body"}
Job ==
    [pc : Calls, op : {"send", "read", None}, msg : Nat \cup {None}, key : Nat \cup {None},
     without : SUBSET Users, state : GroupRatchetState \cup {None}]

(* Nothing of a chain is lost, kept twice or kept for too long.             *)
ChainOK(r) ==
    /\ r \in GroupRatchetState
    /\ r.used \subseteq 0..(r.step - 1) /\ r.skipped \subseteq 0..(r.step - 1)
    /\ r.used \cap r.skipped = {}
    /\ Cardinality(r.skipped) <= MaxSkip
    /\ \A n \in 0..(r.step - 1) : n \in r.used \cup r.skipped \/ n < r.step - MaxSkip

(* The chain r of client u is past whatever he has sent with it.            *)
Newest(u, r, M) ==
    \A i \in 1..Len(M) : M[i].from = u /\ M[i].run = r.run => M[i].step < r.step

(* What a client keeps, a call in progress, the messages: M are the         *)
(* messages, H the keys held, R who is removed, n the restarts of u.        *)
RatchetOK(u, r, H, M, n) ==
    /\ r \in GroupRatchetState \cup {None}
    /\ r # None => ChainOK(r) /\ r.key \in H[u] /\ r.run = n /\ Newest(u, r, M)

JobOK(u, j, H, R, M, n) ==
    /\ j \in Job /\ j.without \subseteq R
    /\ j.op = "read" => j.msg \in 1..Len(M)
    /\ j.pc \in {"lock", "body"} => j.key \in H[u] /\ \A v \in j.without : j.key \notin H[v]
    /\ j.pc = "body" => /\ ChainOK(j.state) /\ j.state.key = j.key
                        /\ j.state.run \in {n, n + 1} /\ Newest(u, j.state, M)

MessageOK(m, H, R, K, rs) ==
    /\ m \in Message /\ m.key \in 1..K /\ m.without \subseteq R /\ m.run <= rs[m.from]
    /\ \A v \in m.without : m.key \notin H[v]

ServerInv ==
    /\ members \subseteq Users /\ removed \subseteq Users /\ notices \subseteq Users
    /\ members \cap removed = {}
    /\ roster \in [Users -> SUBSET Users]
    /\ keys \in Nat /\ restarts \in [Users -> Nat]
    /\ held \in [Users -> SUBSET (1..keys)]
    /\ group_key \in SealedKey \cup {None} /\ key_creator \in Users \cup {None}
    /\ group_key = None => key_creator = None
    /\ KeyNamesItsCreator
    /\ group_key # None => /\ group_key.key \in 1..keys
                           /\ \A u \in removed : group_key.key \notin held[u]

ChainInv ==
    /\ ratchet = [u \in Users |-> ratchet[u]]
    /\ \A u \in Users : RatchetOK(u, ratchet[u], held, messages, restarts[u])

JobInv ==
    /\ job = [u \in Users |-> job[u]]
    /\ \A u \in Users :
         /\ job[u] = [s \in 1..Slots[u] |-> job[u][s]]
         /\ \A s \in 1..Slots[u] : JobOK(u, job[u][s], held, removed, messages, restarts[u])

(* The queue q of the lock holds the calls jb that are in it, and the one   *)
(* that works is its head.                                                  *)
QueueOK(q, jb, n) ==
    /\ q \in Seq(1..n)
    /\ \A s \in 1..n : jb[s].pc \in {"lock", "body"} <=> \E i \in 1..Len(q) : q[i] = s
    /\ \A i, k \in 1..Len(q) : q[i] = q[k] => i = k
    /\ \A s \in 1..n : jb[s].pc = "body" => q[1] = s

QueueInv ==
    /\ queue = [u \in Users |-> queue[u]]
    /\ \A u \in Users : QueueOK(queue[u], job[u], Slots[u])

MessageInv ==
    /\ messages \in Seq(Message)
    /\ \A i \in 1..Len(messages) : MessageOK(messages[i], held, removed, keys, restarts)
    /\ OwnStepsFresh

GroupInv == ServerInv /\ ChainInv /\ JobInv /\ QueueInv /\ MessageInv

-----------------------------------------------------------------------------
(* Chains.                                                                  *)

(* Intervals are finite, and as long as they look.                          *)
LEMMA Intervals ==
    /\ \A a, b \in Int : IsFiniteSet(a..b)
    /\ \A a, b \in Int : Cardinality(a..b) = IF a > b THEN 0 ELSE b - a + 1
BY FS_Interval

(* A chain at its start.                                                    *)
LEMMA ChainStarts ==
    ASSUME NEW r, r \in GroupRatchetState, r.step = 0, r.used = {}, r.skipped = {}
    PROVE  ChainOK(r)
BY FS_EmptySet, BoundAssumption DEF ChainOK

(* The steps of a chain are finitely many.                                  *)
LEMMA SkippedFinite ==
    ASSUME NEW r, ChainOK(r)
    PROVE  IsFiniteSet(r.skipped) /\ Cardinality(r.skipped) \in Nat
<1>1. PICK b \in Int : r.skipped \subseteq 0..b
  BY DEF ChainOK, GroupRatchetState
<1>2. IsFiniteSet(0..b)
  BY Intervals
<1> QED
  BY <1>1, <1>2, FS_Subset, FS_CardinalityType

(* To encrypt is to use the next step.                                      *)
LEMMA ChainEncrypts ==
    ASSUME NEW r, ChainOK(r)
    PROVE  LET q == [r EXCEPT !.step = @ + 1, !.used = @ \cup {r.step}]
           IN  ChainOK(q) /\ q.run = r.run /\ q.key = r.key /\ q.step = r.step + 1
<1> DEFINE q == [r EXCEPT !.step = r.step + 1, !.used = r.used \cup {r.step}]
<1>1. r \in GroupRatchetState /\ r.step \in Nat /\ MaxSkip \in Nat
  BY BoundAssumption DEF ChainOK, GroupRatchetState
<1>2. /\ q \in GroupRatchetState /\ q.run = r.run /\ q.key = r.key /\ q.step = r.step + 1
      /\ q.used = r.used \cup {r.step} /\ q.skipped = r.skipped
  <2>1. r.step + 1 \in Nat /\ r.used \cup {r.step} \in SUBSET Nat
    BY <1>1 DEF GroupRatchetState
  <2> QED
    BY <1>1, <2>1 DEF GroupRatchetState
<1>3. q.used \subseteq 0..(q.step - 1) /\ q.skipped \subseteq 0..(q.step - 1)
  BY <1>1, <1>2 DEF ChainOK
<1>4. q.used \cap q.skipped = {} /\ Cardinality(q.skipped) <= MaxSkip
  BY <1>1, <1>2 DEF ChainOK
<1>5. \A n \in 0..(q.step - 1) : n \in q.used \cup q.skipped \/ n < q.step - MaxSkip
  BY <1>1, <1>2 DEF ChainOK
<1> QED
  BY <1>2, <1>3, <1>4, <1>5 DEF ChainOK

(* A skipped key is used once.                                              *)
LEMMA ChainRecalls ==
    ASSUME NEW r, ChainOK(r), NEW k \in r.skipped
    PROVE  LET q == [r EXCEPT !.skipped = @ \ {k}, !.used = @ \cup {k}]
           IN  ChainOK(q) /\ q.run = r.run /\ q.key = r.key /\ q.step = r.step
<1> DEFINE q == [r EXCEPT !.skipped = r.skipped \ {k}, !.used = r.used \cup {k}]
<1>1. r \in GroupRatchetState /\ r.step \in Nat /\ k \in Nat /\ MaxSkip \in Nat
  BY BoundAssumption DEF ChainOK, GroupRatchetState
<1>2. /\ q \in GroupRatchetState /\ q.run = r.run /\ q.key = r.key /\ q.step = r.step
      /\ q.used = r.used \cup {k} /\ q.skipped = r.skipped \ {k}
  BY <1>1 DEF GroupRatchetState
<1>3. Cardinality(q.skipped) <= MaxSkip
  <2>1. Cardinality(r.skipped \ {k}) = Cardinality(r.skipped) - 1
    BY SkippedFinite, FS_RemoveElement
  <2> QED
    BY <1>1, <1>2, <2>1, SkippedFinite DEF ChainOK
<1>4. /\ q.used \subseteq 0..(q.step - 1) /\ q.skipped \subseteq 0..(q.step - 1)
      /\ q.used \cap q.skipped = {}
      /\ \A n \in 0..(q.step - 1) : n \in q.used \cup q.skipped \/ n < q.step - MaxSkip
  BY <1>1, <1>2 DEF ChainOK
<1> QED
  BY <1>2, <1>3, <1>4 DEF ChainOK

(* A chain that goes past step n keeps what it jumped over, as far as the   *)
(* window reaches.                                                          *)
LEMMA ChainAdvances ==
    ASSUME NEW r, ChainOK(r), NEW n \in Nat, n >= r.step
    PROVE  LET q == Advanced(r, n)
           IN  ChainOK(q) /\ q.run = r.run /\ q.key = r.key /\ q.step = n + 1
<1> DEFINE q == Advanced(r, n)
           kept == {k \in r.skipped \cup (r.step..(n - 1)) : k >= n + 1 - MaxSkip}
<1>1. r \in GroupRatchetState /\ r.step \in Nat /\ MaxSkip \in Nat
  BY BoundAssumption DEF ChainOK, GroupRatchetState
<1>2. kept \subseteq Nat /\ kept \subseteq (n + 1 - MaxSkip)..(n - 1) /\ kept \subseteq 0..n
  BY <1>1 DEF ChainOK
<1>3. /\ q \in GroupRatchetState /\ q.run = r.run /\ q.key = r.key /\ q.step = n + 1
      /\ q.used = r.used \cup {n} /\ q.skipped = kept
  <2>1. n + 1 \in Nat /\ r.used \cup {n} \in SUBSET Nat /\ kept \in SUBSET Nat
    BY <1>1, <1>2 DEF GroupRatchetState
  <2>2. q = [r EXCEPT !.step = n + 1, !.used = r.used \cup {n}, !.skipped = kept]
    BY DEF Advanced, Passed
  <2> HIDE DEF kept, q
  <2> QED
    BY <1>1, <2>1, <2>2 DEF GroupRatchetState
<1>4. Cardinality(kept) <= MaxSkip
  <2> DEFINE a == n + 1 - MaxSkip
             b == n - 1
  <2>1. a \in Int /\ b \in Int /\ b - a + 1 = MaxSkip - 1 /\ (a > b => MaxSkip >= 0)
    BY <1>1
  <2>2. kept \subseteq a..b
    BY <1>2
  <2> HIDE DEF kept, a, b
  <2>3. IsFiniteSet(a..b) /\ Cardinality(a..b) = IF a > b THEN 0 ELSE b - a + 1
    BY <2>1, Intervals
  <2>4. Cardinality(a..b) <= MaxSkip
    BY <1>1, <2>1, <2>3
  <2>5. Cardinality(kept) <= Cardinality(a..b) /\ Cardinality(kept) \in Nat /\ Cardinality(a..b) \in Nat
    BY <2>2, <2>3, FS_Subset, FS_CardinalityType
  <2> QED
    BY <1>1, <2>4, <2>5
<1>5. q.used \subseteq 0..(q.step - 1) /\ q.skipped \subseteq 0..(q.step - 1)
  BY <1>1, <1>2, <1>3 DEF ChainOK
<1>6. q.used \cap q.skipped = {}
  BY <1>1, <1>2, <1>3 DEF ChainOK
<1>7. \A k \in 0..(q.step - 1) : k \in q.used \cup q.skipped \/ k < q.step - MaxSkip
  <2>1. SUFFICES ASSUME NEW k \in 0..n, k # n, k >= n + 1 - MaxSkip
                 PROVE  k \in r.used \/ k \in kept
    BY <1>1, <1>3
  <2>2. CASE k >= r.step
    BY <1>1, <2>1, <2>2
  <2>3. CASE k < r.step
    BY <1>1, <2>1, <2>3 DEF ChainOK
  <2> QED
    BY <1>1, <2>2, <2>3
<1> QED
  BY <1>3, <1>4, <1>5, <1>6, <1>7 DEF ChainOK

-----------------------------------------------------------------------------
(* What a step may do around a client and its calls.                        *)

(* The keys held grow; whoever is removed gets no key that was there.       *)
Grown(H, K, H2, R2) ==
    \A v \in Users : /\ H[v] \subseteq H2[v]
                     /\ v \in R2 => \A k \in H2[v] : k \in H[v] \/ k > K

(* The messages grow, and their content stays.                              *)
Longer(M, M2) ==
    /\ Len(M) \in Nat /\ Len(M2) \in Nat /\ Len(M) <= Len(M2)
    /\ \A i \in 1..Len(M) : /\ M2[i].from = M[i].from /\ M2[i].run = M[i].run
                            /\ M2[i].step = M[i].step

(* Nothing new is from u.                                                   *)
NoneOf(u, M, M2) == \A i \in 1..Len(M2) : M2[i].from = u => i \in 1..Len(M)

(* A call stays in order when others move.                                  *)
LEMMA JobStays ==
    ASSUME NEW u \in Users, NEW j, NEW H, NEW R, NEW M, NEW n, NEW K \in Nat,
           NEW H2, NEW R2, NEW M2, NEW n2,
           JobOK(u, j, H, R, M, n), H[u] \subseteq 1..K, R2 \subseteq Users,
           Grown(H, K, H2, R2), Longer(M, M2), j.without \subseteq R2,
           j.pc = "body" => n2 = n /\ NoneOf(u, M, M2)
    PROVE  JobOK(u, j, H2, R2, M2, n2)
<1>1. j \in Job /\ (j.op = "read" => j.msg \in 1..Len(M2))
  BY DEF JobOK, Longer
<1>2. j.pc \in {"lock", "body"} => j.key \in H2[u] /\ \A v \in j.without : j.key \notin H2[v]
  BY DEF JobOK, Grown
<1>3. j.pc = "body" => Newest(u, j.state, M2)
  BY DEF JobOK, Newest, Longer, NoneOf
<1> QED
  BY <1>1, <1>2, <1>3 DEF JobOK

(* So does the chain a client keeps.                                        *)
LEMMA RatchetStays ==
    ASSUME NEW u \in Users, NEW r, NEW H, NEW M, NEW n, NEW H2, NEW M2,
           RatchetOK(u, r, H, M, n), H[u] \subseteq H2[u], Longer(M, M2), NoneOf(u, M, M2)
    PROVE  RatchetOK(u, r, H2, M2, n)
<1>1. Newest(u, r, M) => Newest(u, r, M2)
  BY DEF Newest, Longer, NoneOf
<1> QED
  BY <1>1 DEF RatchetOK

(* And a message.                                                           *)
LEMMA MessageStays ==
    ASSUME NEW m, NEW H, NEW R, NEW K \in Nat, NEW rs \in [Users -> Nat],
           NEW H2, NEW R2, NEW K2 \in Nat, NEW rs2 \in [Users -> Nat],
           MessageOK(m, H, R, K, rs), m.without \subseteq R2, R2 \subseteq Users,
           Grown(H, K, H2, R2), K <= K2, \A v \in Users : rs[v] <= rs2[v]
    PROVE  MessageOK(m, H2, R2, K2, rs2)
<1>1. m \in Message /\ m.key \in 1..K /\ m.from \in Users /\ m.run \in Nat
  BY DEF MessageOK, Message
<1>2. m.key \in 1..K2 /\ m.run <= rs2[m.from]
  <2>1. rs[m.from] \in Nat /\ rs2[m.from] \in Nat /\ rs[m.from] <= rs2[m.from] /\ m.run <= rs[m.from]
    BY <1>1 DEF MessageOK
  <2> QED
    BY <1>1, <2>1
<1>3. \A v \in m.without : m.key \notin H2[v]
  BY <1>1 DEF MessageOK, Grown
<1> QED
  BY <1>1, <1>2, <1>3 DEF MessageOK

(* One call changes, the others stay.                                       *)
LEMMA OneJob ==
    ASSUME JobInv, NEW u \in Users, NEW s \in 1..Slots[u], NEW j,
           job' = [job EXCEPT ![u][s] = j],
           JobOK(u, j, held', removed', messages', restarts'[u]),
           \A v \in Users : \A t \in 1..Slots[v] :
              (v # u \/ t # s) => JobOK(v, job[v][t], held', removed', messages', restarts'[v])
    PROVE  JobInv'
<1>1. job' = [v \in Users |-> job'[v]]
  BY DEF JobInv
<1>2. ASSUME NEW v \in Users
      PROVE  job'[v] = IF v = u THEN [job[u] EXCEPT ![s] = j] ELSE job[v]
  BY DEF JobInv
<1>3. ASSUME NEW v \in Users
      PROVE  /\ job'[v] = [t \in 1..Slots[v] |-> job'[v][t]]
             /\ \A t \in 1..Slots[v] : job'[v][t] = IF v = u /\ t = s THEN j ELSE job[v][t]
  <2>1. job[v] = [t \in 1..Slots[v] |-> job[v][t]]
    BY DEF JobInv
  <2>2. CASE v # u
    BY <1>2, <2>1, <2>2
  <2>3. CASE v = u
    <3>1. job'[u] = [t \in 1..Slots[u] |-> IF t = s THEN j ELSE job[u][t]]
      BY <1>2, <2>1, <2>3
    <3> QED
      BY <2>3, <3>1
  <2> QED
    BY <2>2, <2>3
<1> QED
  BY <1>1, <1>3 DEF JobInv

-----------------------------------------------------------------------------
(* The queue of the lock.                                                   *)

(* A call moves on and stays where it is in the queue, or out of it.        *)
LEMMA QueueSame ==
    ASSUME NEW n \in Nat, NEW q, NEW jb, NEW jb2, NEW s \in 1..n, QueueOK(q, jb, n),
           \A t \in 1..n : t # s => jb2[t] = jb[t],
           jb[s].pc \in {"lock", "body"} <=> jb2[s].pc \in {"lock", "body"},
           jb2[s].pc = "body" => q[1] = s
    PROVE  QueueOK(q, jb2, n)
BY DEF QueueOK

(* A call joins the queue.                                                  *)
LEMMA QueueJoins ==
    ASSUME NEW n \in Nat, NEW q, NEW jb, NEW jb2, NEW s \in 1..n, QueueOK(q, jb, n),
           \A t \in 1..n : t # s => jb2[t] = jb[t],
           jb[s].pc \notin {"lock", "body"}, jb2[s].pc = "lock"
    PROVE  QueueOK(Append(q, s), jb2, n)
<1> DEFINE p == Append(q, s)
<1>1. q \in Seq(1..n) /\ p \in Seq(1..n) /\ Len(p) = Len(q) + 1 /\ Len(q) \in Nat
  BY DEF QueueOK
<1>2. (\A i \in 1..Len(q) : p[i] = q[i]) /\ p[Len(q) + 1] = s
  BY <1>1
<1>3. \A i \in 1..Len(q) : q[i] # s
  BY DEF QueueOK
<1>4. \A t \in 1..n : jb2[t].pc \in {"lock", "body"} <=> \E i \in 1..Len(p) : p[i] = t
  <2>1. SUFFICES ASSUME NEW t \in 1..n
                 PROVE  jb2[t].pc \in {"lock", "body"} <=> \E i \in 1..Len(p) : p[i] = t
    OBVIOUS
  <2>2. (\E i \in 1..Len(p) : p[i] = t) <=> ((\E i \in 1..Len(q) : q[i] = t) \/ t = s)
    BY <1>1, <1>2
  <2>3. jb[t].pc \in {"lock", "body"} <=> \E i \in 1..Len(q) : q[i] = t
    BY DEF QueueOK
  <2> QED
    BY <2>2, <2>3
<1>5. \A i, k \in 1..Len(p) : p[i] = p[k] => i = k
  <2>1. SUFFICES ASSUME NEW i \in 1..Len(p), NEW k \in 1..Len(p), p[i] = p[k]
                 PROVE  i = k
    OBVIOUS
  <2>2. (i \in 1..Len(q) \/ i = Len(q) + 1) /\ (k \in 1..Len(q) \/ k = Len(q) + 1)
    BY <1>1
  <2>3. CASE i \in 1..Len(q) /\ k \in 1..Len(q)
    <3>1. q[i] = q[k]
      BY <1>2, <2>1, <2>3
    <3> QED
      BY <2>3, <3>1 DEF QueueOK
  <2>4. CASE i = Len(q) + 1 /\ k \in 1..Len(q)
    BY <1>2, <1>3, <2>1, <2>4
  <2>5. CASE i \in 1..Len(q) /\ k = Len(q) + 1
    BY <1>2, <1>3, <2>1, <2>5
  <2> QED
    BY <2>2, <2>3, <2>4, <2>5
<1>6. \A t \in 1..n : jb2[t].pc = "body" => p[1] = t
  <2>1. SUFFICES ASSUME NEW t \in 1..n, jb2[t].pc = "body"
                 PROVE  p[1] = t
    OBVIOUS
  <2>2. t # s /\ jb[t].pc = "body"
    BY <2>1
  <2>3. q[1] = t /\ Len(q) >= 1
    BY <1>1, <2>2 DEF QueueOK
  <2> QED
    BY <1>1, <1>2, <2>3
<1> QED
  BY <1>1, <1>4, <1>5, <1>6 DEF QueueOK

(* The call that works leaves the queue.                                    *)
LEMMA QueueLeaves ==
    ASSUME NEW n \in Nat, NEW q, NEW jb, NEW jb2, NEW s \in 1..n, QueueOK(q, jb, n),
           \A t \in 1..n : t # s => jb2[t] = jb[t],
           jb[s].pc = "body", jb2[s].pc \notin {"lock", "body"}
    PROVE  QueueOK(Tail(q), jb2, n)
<1> DEFINE p == Tail(q)
<1>1. q \in Seq(1..n) /\ Len(q) \in Nat /\ q[1] = s /\ Len(q) >= 1
  BY DEF QueueOK
<1>2. p \in Seq(1..n) /\ Len(p) = Len(q) - 1 /\ \A i \in 1..Len(p) : p[i] = q[i + 1]
  BY <1>1
<1>3. \A i \in 1..Len(q) : q[i] = s => i = 1
  BY <1>1 DEF QueueOK
<1>4. \A t \in 1..n : jb2[t].pc \in {"lock", "body"} <=> \E i \in 1..Len(p) : p[i] = t
  <2>1. SUFFICES ASSUME NEW t \in 1..n
                 PROVE  jb2[t].pc \in {"lock", "body"} <=> \E i \in 1..Len(p) : p[i] = t
    OBVIOUS
  <2>2. CASE t = s
    BY <1>1, <1>2, <1>3, <2>2
  <2>3. CASE t # s
    <3>1. ASSUME NEW i \in 1..Len(q), q[i] = t PROVE \E k \in 1..Len(p) : p[k] = t
      <4>1. i # 1 /\ i - 1 \in 1..Len(p) /\ p[i - 1] = t
        BY <1>1, <1>2, <2>3, <3>1
      <4> QED
        BY <4>1
    <3>2. ASSUME NEW k \in 1..Len(p), p[k] = t PROVE \E i \in 1..Len(q) : q[i] = t
      <4>1. k + 1 \in 1..Len(q) /\ q[k + 1] = t
        BY <1>1, <1>2, <3>2
      <4> QED
        BY <4>1
    <3>3. jb[t].pc \in {"lock", "body"} <=> \E i \in 1..Len(q) : q[i] = t
      BY DEF QueueOK
    <3> QED
      BY <2>3, <3>1, <3>2, <3>3
  <2> QED
    BY <2>2, <2>3
<1>5. \A i, k \in 1..Len(p) : p[i] = p[k] => i = k
  BY <1>1, <1>2 DEF QueueOK
<1>6. \A t \in 1..n : jb2[t].pc # "body"
  BY <1>1 DEF QueueOK
<1> QED
  BY <1>2, <1>4, <1>5, <1>6 DEF QueueOK

(* The queue of a client whose call s changes to j.                         *)
LEMMA OneQueue ==
    ASSUME JobInv, QueueInv, NEW u \in Users, NEW s \in 1..Slots[u], NEW j, NEW q,
           job' = [job EXCEPT ![u][s] = j], queue' = [queue EXCEPT ![u] = q],
           QueueOK(q, [job[u] EXCEPT ![s] = j], Slots[u])
    PROVE  QueueInv'
<1>1. queue' = [v \in Users |-> queue'[v]] /\ queue'[u] = q /\ job'[u] = [job[u] EXCEPT ![s] = j]
  BY DEF QueueInv, JobInv
<1>2. \A v \in Users : v # u => queue'[v] = queue[v] /\ job'[v] = job[v]
  BY DEF QueueInv, JobInv
<1> QED
  BY <1>1, <1>2 DEF QueueInv

(* What is under the index s of the calls, and elsewhere.                   *)
LEMMA CallAt ==
    ASSUME JobInv, NEW u \in Users, NEW s \in 1..Slots[u], NEW j
    PROVE  /\ [job[u] EXCEPT ![s] = j][s] = j
           /\ \A t \in 1..Slots[u] : t # s => [job[u] EXCEPT ![s] = j][t] = job[u][t]
           /\ Slots[u] \in Nat
<1>1. job[u] = [t \in 1..Slots[u] |-> job[u][t]]
  BY DEF JobInv
<1> QED
  BY <1>1, BoundAssumption
-----------------------------------------------------------------------------
(* What stays in order around the step of a call.                           *)

(* A sequence is as long as itself.                                         *)
LEMMA Still ==
    ASSUME MessageInv, NEW u
    PROVE  Longer(messages, messages) /\ NoneOf(u, messages, messages)
<1>1. Len(messages) \in Nat
  BY DEF MessageInv
<1> QED
  BY <1>1 DEF Longer, NoneOf

(* Who is in the lock is alone there.                                       *)
LEMMA Alone ==
    ASSUME QueueInv, NEW u \in Users, NEW s \in 1..Slots[u], NEW t \in 1..Slots[u],
           job[u][s].pc = "body", t # s
    PROVE  job[u][t].pc # "body"
BY DEF QueueInv, QueueOK

(* The other calls, when call s of u takes a step.                          *)
LEMMA OthersStay ==
    ASSUME GroupInv, NEW u \in Users, NEW s \in 1..Slots[u],
           removed' = removed, Grown(held, keys, held', removed'), Longer(messages, messages'),
           \A v \in Users : v # u => restarts'[v] = restarts[v] /\ NoneOf(v, messages, messages'),
           job[u][s].pc = "body" \/ (restarts' = restarts /\ NoneOf(u, messages, messages'))
    PROVE  \A v \in Users : \A t \in 1..Slots[v] :
              (v # u \/ t # s) => JobOK(v, job[v][t], held', removed', messages', restarts'[v])
<1>1. SUFFICES ASSUME NEW v \in Users, NEW t \in 1..Slots[v], v # u \/ t # s
               PROVE  JobOK(v, job[v][t], held', removed', messages', restarts'[v])
  OBVIOUS
<1>2. JobOK(v, job[v][t], held, removed, messages, restarts[v])
  BY DEF GroupInv, JobInv
<1>3. held[v] \subseteq 1..keys /\ keys \in Nat /\ removed' \subseteq Users
  BY DEF GroupInv, ServerInv
<1>4. job[v][t].without \subseteq removed'
  BY <1>2 DEF JobOK
<1>5. job[v][t].pc = "body" => restarts'[v] = restarts[v] /\ NoneOf(v, messages, messages')
  <2>1. CASE v # u
    BY <2>1
  <2>2. CASE v = u
    BY <1>1, <2>2, Alone DEF GroupInv
  <2> QED
    BY <2>1, <2>2
<1> QED
  BY <1>2, <1>3, <1>4, <1>5, JobStays

(* The messages, when nothing is written.                                   *)
LEMMA MessagesStay ==
    ASSUME GroupInv, messages' = messages, removed \subseteq removed', removed' \subseteq Users,
           keys' \in Nat, keys <= keys',
           Grown(held, keys, held', removed'), restarts' \in [Users -> Nat],
           \A v \in Users : restarts[v] <= restarts'[v]
    PROVE  MessageInv'
<1>1. OwnStepsFresh' /\ messages' \in Seq(Message)
  BY DEF GroupInv, MessageInv, OwnStepsFresh
<1>2. ASSUME NEW i \in 1..Len(messages)
      PROVE  MessageOK(messages[i], held', removed', keys', restarts')
  <2>1. MessageOK(messages[i], held, removed, keys, restarts)
    BY DEF GroupInv, MessageInv
  <2>2. messages[i].without \subseteq removed'
    BY <2>1 DEF MessageOK
  <2>3. keys \in Nat /\ restarts \in [Users -> Nat]
    BY DEF GroupInv, ServerInv
  <2> QED
    BY <2>1, <2>2, <2>3, MessageStays
<1> QED
  BY <1>1, <1>2 DEF MessageInv

(* The chains, when no client changes its own.                              *)
LEMMA ChainsStay ==
    ASSUME GroupInv, UNCHANGED <<ratchet, messages, restarts>>,
           \A v \in Users : held[v] \subseteq held'[v]
    PROVE  ChainInv'
<1>1. ASSUME NEW v \in Users
      PROVE  RatchetOK(v, ratchet[v], held', messages, restarts[v])
  BY Still, RatchetStays DEF GroupInv, ChainInv
<1> QED
  BY <1>1 DEF GroupInv, ChainInv

(* The keys held do not change.                                             *)
LEMMA GrownSame ==
    ASSUME NEW R PROVE Grown(held, keys, held, R)
BY DEF Grown

(* Call s of u moves to j, and nothing else happens that touches the        *)
(* others, the queue, the chains or the messages.                           *)
LEMMA CallMoves ==
    ASSUME GroupInv, NEW u \in Users, NEW s \in 1..Slots[u], NEW j,
           job' = [job EXCEPT ![u][s] = j],
           UNCHANGED <<ratchet, queue, messages, removed, restarts>>,
           ServerInv', keys <= keys', Grown(held, keys, held', removed'),
           JobOK(u, j, held', removed', messages', restarts'[u]),
           job[u][s].pc \in {"lock", "body"} <=> j.pc \in {"lock", "body"},
           j.pc = "body" => queue[u][1] = s
    PROVE  GroupInv'
<1>1. ChainInv'
  BY ChainsStay DEF Grown
<1>2. JobInv'
  <2>1. Longer(messages, messages') /\ \A v : NoneOf(v, messages, messages')
    BY Still DEF GroupInv
  <2> QED
    BY <2>1, OthersStay, OneJob DEF GroupInv
<1>3. QueueInv'
  <2>1. QueueOK(queue[u], job[u], Slots[u])
    BY DEF GroupInv, QueueInv
  <2>2. QueueOK(queue[u], [job[u] EXCEPT ![s] = j], Slots[u])
    <3> DEFINE jb2 == [job[u] EXCEPT ![s] = j]
    <3>1. /\ jb2[s] = j /\ Slots[u] \in Nat
          /\ \A t \in 1..Slots[u] : t # s => jb2[t] = job[u][t]
      BY CallAt DEF GroupInv
    <3> HIDE DEF jb2
    <3>2. QueueOK(queue[u], jb2, Slots[u])
      BY <2>1, <3>1, QueueSame
    <3> QED
      BY <3>2 DEF jb2
  <2>3. queue' = [queue EXCEPT ![u] = queue[u]]
    BY DEF GroupInv, QueueInv
  <2> QED
    BY <2>2, <2>3, OneQueue DEF GroupInv
<1>4. MessageInv'
  <2>1. restarts' \in [Users -> Nat] /\ keys' \in Nat /\ removed' \subseteq Users
    BY DEF ServerInv
  <2>2. \A v \in Users : restarts[v] <= restarts'[v]
    BY <2>1
  <2> QED
    BY <2>1, <2>2, MessagesStay
<1> QED
  BY <1>1, <1>2, <1>3, <1>4 DEF GroupInv

-----------------------------------------------------------------------------
(* The steps of a call.                                                     *)

(* An idle call.                                                            *)
LEMMA IdleOK ==
    ASSUME NEW u, NEW H, NEW R, NEW M, NEW n
    PROVE  /\ JobOK(u, Idle, H, R, M, n) /\ Idle \in Job /\ Idle.without = {}
           /\ Idle.pc = "idle" /\ Idle.op = None
BY NoneAssumption DEF JobOK, Job, Idle, Calls

LEMMA SendStartOK ==
    ASSUME GroupInv, NEW u \in Users, NEW s \in 1..Slots[u], SendStart(u, s)
    PROVE  GroupInv'
<1> DEFINE j == [Idle EXCEPT !.pc = "get", !.op = "send"]
<1>1. job[u][s].pc = "idle" /\ job' = [job EXCEPT ![u][s] = j]
  BY DEF SendStart, SetJob
<1>2. j \in Job /\ j.pc = "get" /\ j.op = "send" /\ j.without = {}
  BY IdleOK DEF Job, Calls
<1> HIDE DEF j
<1>3. JobOK(u, j, held', removed', messages', restarts'[u])
  BY <1>2 DEF JobOK
<1>4. ServerInv' /\ keys <= keys' /\ Grown(held, keys, held', removed')
  BY DEF GroupInv, ServerInv, KeyNamesItsCreator, SendStart, server, history, Grown
<1> QED
  BY <1>1, <1>2, <1>3, <1>4, CallMoves DEF SendStart, history, server

LEMMA ReadStartOK ==
    ASSUME GroupInv, NEW u \in Users, NEW s \in 1..Slots[u], NEW m \in DOMAIN messages,
           ReadStart(u, s, m)
    PROVE  GroupInv'
<1> DEFINE j == [Idle EXCEPT !.pc = "get", !.op = "read", !.msg = m]
<1>1. job[u][s].pc = "idle" /\ job' = [job EXCEPT ![u][s] = j]
  BY DEF ReadStart, SetJob
<1>2. m \in 1..Len(messages) /\ m \in Nat /\ messages' = messages
  BY DEF GroupInv, MessageInv, ReadStart
<1>3. j \in Job /\ j.pc = "get" /\ j.op = "read" /\ j.msg = m /\ j.without = {}
  BY <1>2, IdleOK DEF Job, Calls
<1> HIDE DEF j
<1>4. JobOK(u, j, held', removed', messages', restarts'[u])
  BY <1>2, <1>3 DEF JobOK
<1>5. ServerInv' /\ keys <= keys' /\ Grown(held, keys, held', removed')
  BY DEF GroupInv, ServerInv, KeyNamesItsCreator, ReadStart, server, history, Grown
<1> QED
  BY <1>1, <1>3, <1>4, <1>5, CallMoves DEF ReadStart, history, server

(* The key of the relay goes to a member, and so to nobody removed.         *)
LEMMA KeyAnswerOK ==
    ASSUME GroupInv, NEW u \in Users, NEW s \in 1..Slots[u], KeyAnswer(u, s)
    PROVE  GroupInv'
<1> DEFINE o == job[u][s]
<1>1. /\ o.pc \in {"get", "again"} /\ JobOK(u, o, held, removed, messages, restarts[u]) /\ o \in Job
      /\ UNCHANGED <<ratchet, messages, removed, restarts, members, notices, roster, keys,
                     group_key, key_creator>>
  BY DEF GroupInv, JobInv, JobOK, KeyAnswer, server
<1>2. CASE /\ Sealed(u)
           /\ SetJob(u, s, [o EXCEPT !.pc = "lock", !.key = group_key.key, !.without = removed])
           /\ queue' = [queue EXCEPT ![u] = Append(@, s)]
           /\ held' = [held EXCEPT ![u] = @ \cup {group_key.key}]
  <2> DEFINE g == group_key.key
             j == [o EXCEPT !.pc = "lock", !.key = g, !.without = removed]
  <2>1. /\ u \in members /\ u \notin removed /\ group_key # None /\ g \in 1..keys /\ g \in Nat
        /\ \A v \in removed : g \notin held[v]
    BY <1>2 DEF Sealed, GroupInv, ServerInv
  <2>2. /\ j \in Job /\ j.pc = "lock" /\ j.key = g /\ j.without = removed
        /\ j.op = o.op /\ j.msg = o.msg
    BY <1>1, <2>1 DEF Job, Calls, GroupInv, ServerInv
  <2>3. job' = [job EXCEPT ![u][s] = j]
    BY <1>2 DEF SetJob
  <2> HIDE DEF j, g
  <2>4. /\ held' \in [Users -> SUBSET (1..keys)] /\ held'[u] = held[u] \cup {g}
        /\ \A v \in Users : v # u => held'[v] = held[v]
    BY <1>2, <2>1 DEF GroupInv, ServerInv, g
  <2>5. Grown(held, keys, held', removed')
    BY <1>1, <2>1, <2>4 DEF Grown
  <2>6. ServerInv'
    <3>1. \A v \in removed : g \notin held'[v]
      BY <2>1, <2>4 DEF GroupInv, ServerInv
    <3> QED
      BY <1>1, <2>4, <3>1 DEF GroupInv, ServerInv, KeyNamesItsCreator, g
  <2>7. JobOK(u, j, held', removed', messages', restarts'[u])
    <3>1. o.op = "read" => o.msg \in 1..Len(messages)
      BY <1>1 DEF JobOK
    <3>2. \A v \in removed : g \notin held'[v]
      BY <2>1, <2>4 DEF GroupInv, ServerInv
    <3> QED
      BY <1>1, <2>2, <2>4, <3>1, <3>2 DEF JobOK
  <2>8. ChainInv' /\ MessageInv'
    <3>1. /\ restarts' \in [Users -> Nat] /\ keys' \in Nat /\ removed' \subseteq Users /\ keys <= keys'
          /\ \A v \in Users : restarts[v] <= restarts'[v]
      BY <1>1, <2>6 DEF ServerInv
    <3> QED
      BY <1>1, <2>5, <3>1, ChainsStay, MessagesStay DEF Grown
  <2>9. JobInv'
    <3>1. Longer(messages, messages') /\ \A v : NoneOf(v, messages, messages')
      BY <1>1, Still DEF GroupInv
    <3> QED
      BY <1>1, <2>3, <2>5, <2>7, <3>1, OthersStay, OneJob DEF GroupInv
  <2>10. QueueInv'
    <3> DEFINE jb2 == [job[u] EXCEPT ![s] = j]
    <3>1. /\ jb2[s] = j /\ Slots[u] \in Nat
          /\ \A t \in 1..Slots[u] : t # s => jb2[t] = job[u][t]
      BY CallAt DEF GroupInv
    <3>2. QueueOK(queue[u], job[u], Slots[u]) /\ queue' = [queue EXCEPT ![u] = Append(queue[u], s)]
      BY <1>2 DEF GroupInv, QueueInv
    <3> HIDE DEF jb2
    <3>3. QueueOK(Append(queue[u], s), jb2, Slots[u])
      BY <1>1, <2>2, <3>1, <3>2, QueueJoins
    <3> QED
      BY <2>3, <3>2, <3>3, OneQueue DEF GroupInv, jb2
  <2> QED
    BY <2>6, <2>8, <2>9, <2>10 DEF GroupInv
<1>3. CASE /\ SetJob(u, s, IF o.pc = "get" /\ o.op = "send" /\ Cardinality(roster[u]) > 1
                           THEN [o EXCEPT !.pc = "init"] ELSE Idle)
           /\ UNCHANGED <<queue, held>>
  <2>1. PICK j : /\ job' = [job EXCEPT ![u][s] = j]
                 /\ j = Idle \/ (j = [o EXCEPT !.pc = "init"] /\ o.op = "send")
    BY <1>3 DEF SetJob
  <2>2. JobOK(u, j, held', removed', messages', restarts'[u]) /\ j.pc \in {"idle", "init"}
    <3>1. CASE j = Idle
      BY <3>1, IdleOK
    <3>2. CASE j = [o EXCEPT !.pc = "init"] /\ o.op = "send"
      <4>1. /\ j \in Job /\ j.pc = "init" /\ j.op = o.op /\ j.msg = o.msg /\ j.without = o.without
        BY <1>1, <3>2 DEF Job, Calls
      <4> QED
        BY <1>1, <3>2, <4>1 DEF JobOK
    <3> QED
      BY <2>1, <3>1, <3>2
  <2>3. ServerInv' /\ keys <= keys' /\ Grown(held, keys, held', removed')
    BY <1>1, <1>3 DEF GroupInv, ServerInv, KeyNamesItsCreator, Grown
  <2> QED
    BY <1>1, <1>3, <2>1, <2>2, <2>3, CallMoves
<1> QED
  BY <1>2, <1>3 DEF KeyAnswer

(* A new key is above all that are in use, so nobody removed holds it.      *)
LEMMA InitGroupKeyOK ==
    ASSUME GroupInv, NEW u \in Users, NEW s \in 1..Slots[u], InitGroupKey(u, s)
    PROVE  GroupInv'
<1> DEFINE o == job[u][s]
           g == [key |-> keys + 1, by |-> u, for |-> roster[u]]
<1>1. /\ o.pc = "init" /\ JobOK(u, o, held, removed, messages, restarts[u]) /\ o \in Job
      /\ UNCHANGED <<ratchet, queue, messages, removed, restarts, members, notices, roster>>
      /\ keys' = keys + 1 /\ keys \in Nat /\ keys + 1 \in Nat
  BY DEF GroupInv, ServerInv, JobInv, JobOK, InitGroupKey
<1>2. /\ held' \in [Users -> SUBSET (1..(keys + 1))] /\ held'[u] = held[u] \cup {keys + 1}
      /\ \A v \in Users : v # u => held'[v] = held[v]
  <2>1. held \in [Users -> SUBSET (1..keys)] /\ held' = [held EXCEPT ![u] = held[u] \cup {keys + 1}]
    BY DEF GroupInv, ServerInv, InitGroupKey
  <2>2. ASSUME NEW v \in Users
        PROVE  held'[v] = (IF v = u THEN held[u] \cup {keys + 1} ELSE held[v]) /\ held[v] \subseteq 1..keys
    BY <2>1
  <2>3. \A v \in Users : held'[v] \subseteq 1..(keys + 1)
    BY <1>1, <2>2
  <2> QED
    BY <2>1, <2>2, <2>3
<1>3. Grown(held, keys, held', removed')
  BY <1>1, <1>2 DEF Grown
<1>4. ServerInv'
  <2>1. CASE MaySet(u)
    <3>1. /\ group_key' = g /\ key_creator' = u /\ u \in members /\ u \notin removed
          /\ roster[u] \in SUBSET Users
      BY <2>1 DEF InitGroupKey, MaySet, GroupInv, ServerInv
    <3>2. g \in SealedKey /\ g.key = keys + 1 /\ g.by = u
      BY <1>1, <3>1 DEF SealedKey
    <3>3. \A v \in removed : keys + 1 \notin held'[v]
      <4>1. \A v \in removed : v \in Users /\ held'[v] = held[v] /\ held[v] \subseteq 1..keys
        BY <1>2, <3>1 DEF GroupInv, ServerInv
      <4> QED
        BY <1>1, <4>1
    <3>4. g # None /\ g.key \in 1..(keys + 1)
      BY <1>1, <3>2, NoneAssumption
    <3> HIDE DEF g
    <3> QED
      BY <1>1, <1>2, <3>1, <3>2, <3>3, <3>4 DEF GroupInv, ServerInv, KeyNamesItsCreator
  <2>2. CASE ~ MaySet(u)
    <3>1. group_key' = group_key /\ key_creator' = key_creator
      BY <2>2 DEF InitGroupKey
    <3>2. group_key # None => /\ group_key.key \in 1..(keys + 1)
                              /\ \A v \in removed : group_key.key \notin held'[v]
      BY <1>1, <1>2 DEF GroupInv, ServerInv
    <3> QED
      BY <1>1, <1>2, <3>1, <3>2 DEF GroupInv, ServerInv, KeyNamesItsCreator
  <2> QED
    BY <2>1, <2>2
<1>5. PICK j : /\ job' = [job EXCEPT ![u][s] = j]
               /\ j = Idle \/ j = [o EXCEPT !.pc = "again"]
  BY DEF InitGroupKey, SetJob
<1>6. JobOK(u, j, held', removed', messages', restarts'[u]) /\ j.pc \in {"idle", "again"}
  <2>1. CASE j = Idle
    BY <2>1, IdleOK
  <2>2. CASE j = [o EXCEPT !.pc = "again"]
    <3>1. j \in Job /\ j.pc = "again" /\ j.op = o.op /\ j.msg = o.msg /\ j.without = o.without
      BY <1>1, <2>2 DEF Job, Calls
    <3> QED
      BY <1>1, <3>1 DEF JobOK
  <2> QED
    BY <1>5, <2>1, <2>2
<1>7. keys <= keys' /\ job[u][s].pc \notin {"lock", "body"} /\ j.pc \notin {"lock", "body"}
  BY <1>1, <1>6
<1> QED
  BY <1>1, <1>3, <1>4, <1>5, <1>6, <1>7, CallMoves

(* What the head of the queue reads is in order, and newer than whatever    *)
(* its client has sent.                                                     *)
LEMMA EnterOK ==
    ASSUME GroupInv, NEW u \in Users, NEW s \in 1..Slots[u], Enter(u, s)
    PROVE  GroupInv'
<1> DEFINE o == job[u][s]
           st == IF ratchet[u] = None \/ ratchet[u].key # o.key THEN Restart(u, o.key) ELSE ratchet[u]
           j == [o EXCEPT !.pc = "body", !.state = st]
<1>1. /\ o.pc = "lock" /\ JobOK(u, o, held, removed, messages, restarts[u]) /\ o \in Job
      /\ UNCHANGED <<ratchet, queue, messages, removed, restarts, members, notices, roster, keys,
                     group_key, key_creator, held>>
      /\ job' = [job EXCEPT ![u][s] = j] /\ queue[u][1] = s
      /\ o.key \in held[u] /\ held[u] \subseteq 1..keys /\ o.key \in Nat /\ restarts[u] \in Nat
  <2>1. /\ o.pc = "lock" /\ JobOK(u, o, held, removed, messages, restarts[u]) /\ o \in Job
        /\ UNCHANGED <<ratchet, queue, messages, removed, restarts, members, notices, roster, keys,
                       group_key, key_creator, held>>
        /\ job' = [job EXCEPT ![u][s] = j]
    BY DEF GroupInv, JobInv, JobOK, Enter, MayEnter, SetJob, server, history
  <2>2. queue[u][1] = s
    <3>1. queue[u] \in Seq(1..Slots[u]) /\ \E i \in 1..Len(queue[u]) : queue[u][i] = s
      BY <2>1 DEF GroupInv, QueueInv, QueueOK
    <3> QED
      BY <3>1 DEF Enter, MayEnter
  <2>3. o.key \in held[u] /\ held[u] \subseteq 1..keys /\ keys \in Nat /\ restarts[u] \in Nat
    BY <2>1 DEF JobOK, GroupInv, ServerInv
  <2> QED
    BY <2>1, <2>2, <2>3
<1>2. /\ ChainOK(st) /\ st.key = o.key /\ st.run \in {restarts[u], restarts[u] + 1}
      /\ Newest(u, st, messages)
  <2>1. CASE ratchet[u] = None \/ ratchet[u].key # o.key
    <3>1. st = [key |-> o.key, step |-> 0, skipped |-> {}, used |-> {}, run |-> restarts[u] + 1]
      BY <2>1 DEF Restart
    <3>2. st \in GroupRatchetState
      BY <1>1, <3>1 DEF GroupRatchetState
    <3>3. st.step = 0 /\ st.used = {} /\ st.skipped = {} /\ st.run = restarts[u] + 1 /\ st.key = o.key
      BY <3>1
    <3> HIDE DEF st
    <3>4. Newest(u, st, messages)
      <4>1. ASSUME NEW i \in 1..Len(messages), messages[i].from = u
            PROVE  messages[i].run \in Nat /\ messages[i].run <= restarts[u]
        BY <4>1 DEF GroupInv, MessageInv, MessageOK, Message
      <4> QED
        BY <1>1, <3>3, <4>1 DEF Newest
    <3> QED
      BY <3>2, <3>3, <3>4, ChainStarts
  <2>2. CASE ratchet[u] # None /\ ratchet[u].key = o.key
    <3>1. st = ratchet[u]
      BY <2>2
    <3> QED
      BY <2>2, <3>1 DEF GroupInv, ChainInv, RatchetOK
  <2> QED
    BY <2>1, <2>2
<1>3. /\ j \in Job /\ j.pc = "body" /\ j.state = st /\ j.key = o.key /\ j.without = o.without
      /\ j.op = o.op /\ j.msg = o.msg
  <2>1. st \in GroupRatchetState
    BY <1>2 DEF ChainOK
  <2> HIDE DEF st
  <2> QED
    BY <1>1, <2>1 DEF Job, Calls
<1> HIDE DEF j, st
<1>4. JobOK(u, j, held', removed', messages', restarts'[u])
  <2>1. /\ o.op = "read" => o.msg \in 1..Len(messages)
        /\ o.key \in held[u] /\ \A v \in o.without : o.key \notin held[v]
        /\ o.without \subseteq removed
    BY <1>1 DEF JobOK
  <2> QED
    BY <1>1, <1>2, <1>3, <2>1 DEF JobOK
<1>5. ServerInv' /\ keys <= keys' /\ Grown(held, keys, held', removed')
  BY <1>1 DEF GroupInv, ServerInv, KeyNamesItsCreator, Grown
<1> QED
  BY <1>1, <1>3, <1>4, <1>5, CallMoves

(* A client saves the chain r.                                              *)
LEMMA SaveOK ==
    ASSUME GroupInv, NEW u \in Users, NEW r, Save(u, r), held' = held,
           Longer(messages, messages'), \A v \in Users : v # u => NoneOf(v, messages, messages'),
           r # None => /\ ChainOK(r) /\ r.key \in held[u] /\ Newest(u, r, messages')
                       /\ r.run \in {restarts[u], restarts[u] + 1}
    PROVE  /\ ChainInv' /\ restarts' \in [Users -> Nat]
           /\ \A v \in Users : restarts[v] <= restarts'[v] /\ (v # u => restarts'[v] = restarts[v])
           /\ r # None => restarts'[u] = r.run
<1>1. restarts \in [Users -> Nat] /\ ratchet = [v \in Users |-> ratchet[v]]
  BY DEF GroupInv, ServerInv, ChainInv
<1>2. /\ restarts' \in [Users -> Nat]
      /\ \A v \in Users : restarts[v] <= restarts'[v] /\ (v # u => restarts'[v] = restarts[v])
      /\ r # None => restarts'[u] = r.run
  <2>1. CASE r = None
    BY <1>1, <2>1 DEF Save
  <2>2. CASE r # None
    <3> DEFINE n == r.run
    <3>1. n \in {restarts[u], restarts[u] + 1} /\ restarts[u] \in Nat
      BY <1>1, <2>2
    <3>2. restarts' = [restarts EXCEPT ![u] = n]
      BY <2>2 DEF Save
    <3> HIDE DEF n
    <3>3. n \in Nat /\ restarts[u] <= n
      BY <3>1
    <3>4. restarts' \in [Users -> Nat] /\ restarts'[u] = n
      BY <1>1, <3>2, <3>3
    <3>5. \A v \in Users : v # u => restarts'[v] = restarts[v]
      BY <1>1, <3>2
    <3>6. \A v \in Users : restarts[v] <= restarts'[v]
      BY <1>1, <3>3, <3>4, <3>5
    <3> QED
      BY <3>4, <3>5, <3>6 DEF n
  <2> QED
    BY <2>1, <2>2
<1>3. /\ ratchet' = [v \in Users |-> ratchet'[v]] /\ ratchet'[u] = r
      /\ \A v \in Users : v # u => ratchet'[v] = ratchet[v]
  BY <1>1 DEF Save
<1>4. ASSUME NEW v \in Users
      PROVE  RatchetOK(v, ratchet'[v], held', messages', restarts'[v])
  <2>1. CASE v = u
    BY <1>2, <1>3, <2>1 DEF RatchetOK, ChainOK
  <2>2. CASE v # u
    <3>1. RatchetOK(v, ratchet[v], held, messages, restarts[v]) /\ NoneOf(v, messages, messages')
      BY <2>2 DEF GroupInv, ChainInv
    <3> QED
      BY <1>2, <1>3, <2>2, <3>1, RatchetStays
  <2> QED
    BY <2>1, <2>2
<1> QED
  BY <1>2, <1>3, <1>4 DEF ChainInv

(* Leaving the lock.                                                        *)
LEMMA LeaveOK ==
    ASSUME GroupInv, NEW u \in Users, NEW s \in 1..Slots[u], job[u][s].pc = "body", Leave(u, s),
           \A v \in Users : \A t \in 1..Slots[v] :
              (v # u \/ t # s) => JobOK(v, job[v][t], held', removed', messages', restarts'[v])
    PROVE  JobInv' /\ QueueInv'
<1>1. job' = [job EXCEPT ![u][s] = Idle] /\ queue' = [queue EXCEPT ![u] = Tail(queue[u])]
  BY DEF Leave, SetJob, GroupInv, QueueInv
<1>2. QueueInv'
  <2> DEFINE jb2 == [job[u] EXCEPT ![s] = Idle]
  <2>1. /\ jb2[s] = Idle /\ Slots[u] \in Nat
        /\ \A t \in 1..Slots[u] : t # s => jb2[t] = job[u][t]
    BY CallAt DEF GroupInv
  <2>2. QueueOK(queue[u], job[u], Slots[u]) /\ Idle.pc \notin {"lock", "body"}
    BY IdleOK DEF GroupInv, QueueInv
  <2> HIDE DEF jb2
  <2>3. QueueOK(Tail(queue[u]), jb2, Slots[u])
    BY <2>1, <2>2, QueueLeaves
  <2> QED
    BY <1>1, <2>3, OneQueue DEF GroupInv, jb2
<1> QED
  BY <1>1, <1>2, IdleOK, OneJob DEF GroupInv

(* A message takes the next step of a chain that is newer than all its      *)
(* client has sent, and the chain is then past it.                          *)
LEMMA EncryptOK ==
    ASSUME GroupInv, NEW u \in Users, NEW s \in 1..Slots[u], Encrypt(u, s)
    PROVE  GroupInv'
<1> DEFINE o == job[u][s]
           r == o.state
           q == [r EXCEPT !.step = @ + 1, !.used = @ \cup {r.step}]
           x == [from |-> u, key |-> r.key, step |-> r.step, run |-> r.run, without |-> o.without]
<1>1. /\ o.pc = "body" /\ o.without \subseteq removed /\ o.key \in held[u]
      /\ \A v \in o.without : o.key \notin held[v]
      /\ ChainOK(r) /\ r.key = o.key /\ r.run \in {restarts[u], restarts[u] + 1}
      /\ Newest(u, r, messages)
  BY DEF GroupInv, JobInv, JobOK, Encrypt
<1>2. /\ Save(u, q) /\ Leave(u, s)
      /\ UNCHANGED <<members, group_key, key_creator, notices, roster, keys, removed, held>>
      /\ messages' = IF u \in members THEN Append(messages, x) ELSE messages
  BY DEF Encrypt, server
<1>3. ChainOK(q) /\ q.run = r.run /\ q.key = r.key /\ q.step = r.step + 1 /\ q # None
  BY <1>1, ChainEncrypts, NoneAssumption DEF ChainOK
<1>4. /\ x \in Message /\ x.from = u /\ x.key = r.key /\ x.step = r.step /\ x.run = r.run
      /\ x.without = o.without /\ r.step \in Nat /\ r.key \in 1..keys
  <2>1. r.key \in Nat /\ r.step \in Nat /\ r.run \in Nat /\ o.without \in SUBSET Users
    BY <1>1 DEF ChainOK, GroupRatchetState, GroupInv, ServerInv
  <2>2. r.key \in 1..keys
    BY <1>1 DEF GroupInv, ServerInv
  <2> QED
    BY <2>1, <2>2 DEF Message
<1> HIDE DEF q, x
<1> DEFINE L == Len(messages)
<1>5. /\ messages \in Seq(Message) /\ L \in Nat
      /\ messages' \in Seq(Message) /\ Len(messages') \in {L, L + 1}
      /\ \A i \in 1..L : messages'[i] = messages[i]
      /\ Len(messages') = L + 1 => messages'[L + 1] = x
      /\ \A i \in 1..L : messages[i].step \in Nat
  <2>1. messages \in Seq(Message) /\ L \in Nat
    BY DEF GroupInv, MessageInv
  <2>2. \A i \in 1..L : messages[i].step \in Nat
    BY DEF GroupInv, MessageInv, MessageOK, Message
  <2>3. CASE u \in members
    BY <1>2, <1>4, <2>1, <2>2, <2>3
  <2>4. CASE u \notin members
    BY <1>2, <2>1, <2>2, <2>4
  <2> QED
    BY <2>3, <2>4
<1>6. Longer(messages, messages') /\ \A v \in Users : v # u => NoneOf(v, messages, messages')
  <2>1. Longer(messages, messages')
    BY <1>5 DEF Longer
  <2>2. ASSUME NEW v \in Users, v # u, NEW i \in 1..Len(messages'), messages'[i].from = v
        PROVE  i \in 1..L
    <3>1. i # L + 1 \/ Len(messages') = L
      BY <1>4, <1>5, <2>2
    <3> QED
      BY <1>5, <3>1
  <2> QED
    BY <2>1, <2>2 DEF NoneOf
<1>7. Newest(u, q, messages')
  <2>1. SUFFICES ASSUME NEW i \in 1..Len(messages'), messages'[i].from = u, messages'[i].run = q.run
                 PROVE  messages'[i].step < q.step
    BY DEF Newest
  <2>2. CASE i \in 1..L
    <3>1. messages[i].step < r.step
      BY <1>1, <1>3, <1>5, <2>1, <2>2 DEF Newest
    <3>2. messages[i].step \in Nat
      BY <1>5, <2>2
    <3> QED
      BY <1>3, <1>4, <1>5, <2>2, <3>1, <3>2
  <2>3. CASE i = L + 1 /\ Len(messages') = L + 1
    BY <1>3, <1>4, <1>5, <2>3
  <2> QED
    BY <1>5, <2>2, <2>3
<1>8. /\ ChainInv' /\ restarts' \in [Users -> Nat]
      /\ \A v \in Users : restarts[v] <= restarts'[v] /\ (v # u => restarts'[v] = restarts[v])
      /\ restarts'[u] = r.run
  BY <1>1, <1>2, <1>3, <1>6, <1>7, SaveOK
<1>9. ServerInv' /\ Grown(held, keys, held', removed')
  BY <1>2, <1>8 DEF GroupInv, ServerInv, KeyNamesItsCreator, Grown
<1>10. JobInv' /\ QueueInv'
  <2>1. \A v \in Users : \A t \in 1..Slots[v] :
           (v # u \/ t # s) => JobOK(v, job[v][t], held', removed', messages', restarts'[v])
    BY <1>1, <1>2, <1>6, <1>8, <1>9, OthersStay
  <2> QED
    BY <1>1, <1>2, <2>1, LeaveOK
<1>11. MessageInv'
  <2>1. ASSUME NEW i \in 1..Len(messages')
        PROVE  MessageOK(messages'[i], held', removed', keys', restarts')
    <3>1. CASE i \in 1..L
      <4>1. /\ MessageOK(messages[i], held, removed, keys, restarts)
            /\ messages'[i] = messages[i] /\ keys \in Nat /\ restarts \in [Users -> Nat]
            /\ removed \subseteq Users
        BY <1>5, <3>1 DEF GroupInv, MessageInv, ServerInv
      <4>2. /\ messages[i].without \subseteq removed' /\ removed' \subseteq Users
            /\ keys' \in Nat /\ keys <= keys'
        BY <1>2, <4>1 DEF MessageOK
      <4>3. \A v \in Users : restarts[v] <= restarts'[v]
        BY <1>8
      <4>4. MessageOK(messages[i], held', removed', keys', restarts')
        BY <1>8, <1>9, <4>1, <4>2, <4>3, MessageStays
      <4> QED
        BY <4>1, <4>4
    <3>2. CASE i = L + 1 /\ Len(messages') = L + 1
      BY <1>1, <1>2, <1>4, <1>5, <1>8, <3>2 DEF MessageOK
    <3> QED
      BY <1>5, <3>1, <3>2
  <2>2. OwnStepsFresh'
    <3>1. SUFFICES ASSUME NEW i \in 1..Len(messages'), NEW k \in 1..Len(messages'), i # k,
                          messages'[i].from = messages'[k].from, messages'[i].run = messages'[k].run
                   PROVE  messages'[i].step # messages'[k].step
      BY <1>5 DEF OwnStepsFresh
    <3>2. ASSUME NEW a \in 1..L, x.from = messages[a].from, x.run = messages[a].run
          PROVE  x.step # messages[a].step
      <4>1. messages[a].step < r.step
        BY <1>1, <1>4, <1>5, <3>2 DEF Newest
      <4>2. messages[a].step \in Nat
        BY <1>5
      <4> QED
        BY <1>4, <4>1, <4>2
    <3>3. CASE i \in 1..L /\ k \in 1..L
      <4>1. OwnStepsFresh /\ DOMAIN messages = 1..L
        BY <1>5 DEF GroupInv, MessageInv
      <4>2. messages'[i] = messages[i] /\ messages'[k] = messages[k]
        BY <1>5, <3>3
      <4> QED
        BY <3>1, <3>3, <4>1, <4>2 DEF OwnStepsFresh
    <3>4. CASE i = L + 1 /\ k \in 1..L
      BY <1>5, <3>1, <3>2, <3>4
    <3>5. CASE i \in 1..L /\ k = L + 1
      BY <1>5, <3>1, <3>2, <3>5
    <3> QED
      BY <1>5, <3>1, <3>3, <3>4, <3>5
  <2> QED
    BY <1>5, <2>1, <2>2 DEF MessageInv
<1> QED
  BY <1>8, <1>9, <1>10, <1>11 DEF GroupInv

(* A call leaves the lock and queues again.                                 *)
LEMMA Requeues ==
    ASSUME GroupInv, NEW u \in Users, NEW s \in 1..Slots[u], NEW j, j.pc = "lock",
           job[u][s].pc = "body"
    PROVE  QueueOK(Append(Tail(queue[u]), s), [job[u] EXCEPT ![s] = j], Slots[u])
<1> DEFINE jb1 == [job[u] EXCEPT ![s] = Idle]
           jb2 == [job[u] EXCEPT ![s] = j]
<1>0. JobInv
  BY DEF GroupInv
<1>1. jb1[s] = Idle /\ Slots[u] \in Nat /\ \A t \in 1..Slots[u] : t # s => jb1[t] = job[u][t]
  BY <1>0, CallAt
<1>2. jb2[s] = j /\ \A t \in 1..Slots[u] : t # s => jb2[t] = job[u][t]
  BY <1>0, CallAt
<1>3. QueueOK(queue[u], job[u], Slots[u]) /\ Idle.pc = "idle"
  BY IdleOK DEF GroupInv, QueueInv
<1> HIDE DEF jb1, jb2
<1>4. QueueOK(Tail(queue[u]), jb1, Slots[u])
  BY <1>1, <1>3, QueueLeaves
<1>5. QueueOK(Append(Tail(queue[u]), s), jb2, Slots[u])
  BY <1>1, <1>2, <1>3, <1>4, QueueJoins
<1> QED
  BY <1>5 DEF jb2

(* The history goes on: the call leaves the lock and queues again.          *)
LEMMA NextOfHistoryOK ==
    ASSUME GroupInv, NEW u \in Users, NEW s \in 1..Slots[u],
           job[u][s].pc = "body", job[u][s].op = "read",
           NextOfHistory(u, s), UNCHANGED <<messages, held, removed>>,
           \A v \in Users : \A t \in 1..Slots[v] :
              (v # u \/ t # s) => JobOK(v, job[v][t], held', removed', messages', restarts'[v])
    PROVE  JobInv' /\ QueueInv'
<1> DEFINE o == job[u][s]
<1>1. PICK m \in (o.msg + 1)..Len(messages) :
         job' = [job EXCEPT ![u][s] = [o EXCEPT !.pc = "lock", !.msg = m, !.state = None]]
  BY DEF NextOfHistory, SetJob
<1> DEFINE j == [o EXCEPT !.pc = "lock", !.msg = m, !.state = None]
<1>2. /\ queue' = [queue EXCEPT ![u] = Append(Tail(queue[u]), s)]
      /\ QueueOK(queue[u], job[u], Slots[u])
  BY DEF NextOfHistory, GroupInv, QueueInv
<1>3. /\ o \in Job /\ JobOK(u, o, held, removed, messages, restarts[u])
      /\ o.key \in held[u] /\ (\A v \in o.without : o.key \notin held[v]) /\ o.without \subseteq removed
  BY DEF GroupInv, JobInv, JobOK
<1>4. PICK n \in Nat : Len(messages) = n
  BY DEF GroupInv, MessageInv
<1>5. j \in Job /\ j.pc = "lock" /\ j.key = o.key /\ j.without = o.without /\ j.msg \in 1..Len(messages)
  <2>1. m \in 1..Len(messages) /\ m \in Nat
    <3>1. o.msg \in 1..Len(messages)
      BY <1>3 DEF JobOK
    <3> QED
      BY <1>1, <1>4, <3>1
  <2> QED
    BY <1>3, <2>1 DEF Job, Calls
<1> HIDE DEF j
<1>6. JobOK(u, j, held', removed', messages', restarts'[u])
  BY <1>3, <1>5 DEF JobOK
<1>7. job' = [job EXCEPT ![u][s] = j]
  BY <1>1 DEF j
<1>8. QueueInv'
  BY <1>2, <1>5, <1>7, Requeues, OneQueue DEF GroupInv
<1> QED
  BY <1>6, <1>7, <1>8, OneJob DEF GroupInv

(* Whatever a message says, the chain that is saved is in order.            *)
LEMMA DecryptOK ==
    ASSUME GroupInv, NEW u \in Users, NEW s \in 1..Slots[u], Decrypt(u, s)
    PROVE  GroupInv'
<1> DEFINE o == job[u][s]
           r == o.state
           m == messages[o.msg]
           recalled == [r EXCEPT !.skipped = @ \ {m.step}, !.used = @ \cup {m.step}]
           new == IF m.step \in r.skipped
                  THEN IF m.key = r.key THEN recalled ELSE ratchet[u]
                  ELSE IF m.step >= r.step /\ m.step - r.step <= MaxSkip
                       THEN Advanced(r, m.step)
                       ELSE ratchet[u]
<1>1. /\ o.pc = "body" /\ o.op = "read" /\ o.msg \in 1..Len(messages) /\ o.key \in held[u]
      /\ ChainOK(r) /\ r.key = o.key /\ r.run \in {restarts[u], restarts[u] + 1}
      /\ Newest(u, r, messages)
  BY DEF GroupInv, JobInv, JobOK, Decrypt
<1>2. /\ Save(u, new) /\ (Leave(u, s) \/ NextOfHistory(u, s))
      /\ UNCHANGED <<members, group_key, key_creator, notices, roster, keys, messages, removed, held>>
  BY DEF Decrypt, server
<1>3. /\ m.step \in Nat /\ r.step \in Nat /\ \A i \in 1..Len(messages) : messages[i].step \in Nat
  BY <1>1 DEF GroupInv, MessageInv, MessageOK, Message, ChainOK, GroupRatchetState
<1>4. new # None => /\ ChainOK(new) /\ new.key \in held[u] /\ Newest(u, new, messages)
                    /\ new.run \in {restarts[u], restarts[u] + 1}
  <2>1. CASE new = ratchet[u]
    <3>1. RatchetOK(u, ratchet[u], held, messages, restarts[u])
      BY DEF GroupInv, ChainInv
    <3> HIDE DEF new
    <3> QED
      BY <2>1, <3>1 DEF RatchetOK
  <2>2. CASE m.step \in r.skipped /\ new = recalled
    <3>1. ChainOK(recalled) /\ recalled.run = r.run /\ recalled.key = r.key /\ recalled.step = r.step
      BY <1>1, <2>2, ChainRecalls
    <3> HIDE DEF new, recalled
    <3> QED
      BY <1>1, <2>2, <3>1 DEF Newest
  <2>3. CASE m.step >= r.step /\ new = Advanced(r, m.step)
    <3> HIDE DEF new
    <3>1. ChainOK(new) /\ new.run = r.run /\ new.key = r.key /\ new.step = m.step + 1
      BY <1>1, <1>3, <2>3, ChainAdvances
    <3>2. Newest(u, new, messages)
      <4>1. SUFFICES ASSUME NEW i \in 1..Len(messages), messages[i].from = u, messages[i].run = new.run
                     PROVE  messages[i].step < new.step
        BY DEF Newest
      <4>2. messages[i].step < r.step
        BY <1>1, <3>1, <4>1 DEF Newest
      <4> QED
        BY <1>3, <2>3, <3>1, <4>2
    <3> QED
      BY <1>1, <3>1, <3>2
  <2> QED
    BY <2>1, <2>2, <2>3
<1> HIDE DEF new
<1>5. Longer(messages, messages') /\ \A v : NoneOf(v, messages, messages')
  BY <1>2, Still DEF GroupInv
<1>6. /\ ChainInv' /\ restarts' \in [Users -> Nat]
      /\ \A v \in Users : restarts[v] <= restarts'[v] /\ (v # u => restarts'[v] = restarts[v])
  BY <1>2, <1>4, <1>5, SaveOK
<1>7. ServerInv' /\ Grown(held, keys, held', removed')
  BY <1>2, <1>6 DEF GroupInv, ServerInv, KeyNamesItsCreator, Grown
<1>8. JobInv' /\ QueueInv'
  <2>1. \A v \in Users : \A t \in 1..Slots[v] :
           (v # u \/ t # s) => JobOK(v, job[v][t], held', removed', messages', restarts'[v])
    BY <1>1, <1>2, <1>5, <1>6, <1>7, OthersStay
  <2> QED
    BY <1>1, <1>2, <2>1, LeaveOK, NextOfHistoryOK
<1>9. MessageInv'
  <2>1. keys' \in Nat /\ keys <= keys' /\ removed' \subseteq Users /\ removed \subseteq removed'
    BY <1>2 DEF GroupInv, ServerInv
  <2> QED
    BY <1>2, <1>6, <1>7, <2>1, MessagesStay
<1> QED
  BY <1>6, <1>7, <1>8, <1>9 DEF GroupInv

-----------------------------------------------------------------------------
(* The other steps.                                                         *)

(* No call moves; a client may lose its chain, and somebody be removed.     *)
LEMMA NobodyMoves ==
    ASSUME GroupInv, ServerInv', UNCHANGED <<job, queue, messages, held, restarts, keys>>,
           removed \subseteq removed',
           ratchet' = ratchet \/ \E u \in Users : ratchet' = [ratchet EXCEPT ![u] = None]
    PROVE  GroupInv'
<1>1. /\ Longer(messages, messages') /\ \A v : NoneOf(v, messages, messages')
      /\ Grown(held, keys, held', removed') /\ removed' \subseteq Users /\ keys \in Nat
      /\ restarts' \in [Users -> Nat] /\ \A v \in Users : restarts[v] <= restarts'[v]
      /\ held \in [Users -> SUBSET (1..keys)] /\ keys <= keys' /\ keys' \in Nat
  BY Still DEF GroupInv, ServerInv, Grown
<1>2. ChainInv'
  <2>1. /\ ratchet' = [v \in Users |-> ratchet'[v]]
        /\ \A v \in Users : ratchet'[v] \in {ratchet[v], None}
    BY DEF GroupInv, ChainInv
  <2>2. ASSUME NEW v \in Users
        PROVE  RatchetOK(v, ratchet'[v], held', messages', restarts'[v])
    BY <2>1 DEF GroupInv, ChainInv, RatchetOK
  <2> QED
    BY <2>1, <2>2 DEF ChainInv
<1>3. JobInv'
  <2>1. ASSUME NEW v \in Users, NEW t \in 1..Slots[v]
        PROVE  JobOK(v, job[v][t], held', removed', messages', restarts'[v])
    <3>1. JobOK(v, job[v][t], held, removed, messages, restarts[v])
      BY DEF GroupInv, JobInv
    <3>2. job[v][t].without \subseteq removed'
      BY <3>1 DEF JobOK
    <3>3. held[v] \subseteq 1..keys
      BY <1>1
    <3> QED
      BY <1>1, <3>1, <3>2, <3>3, JobStays
  <2> QED
    BY <2>1 DEF GroupInv, JobInv
<1>4. QueueInv'
  BY DEF GroupInv, QueueInv
<1>5. MessageInv'
  BY <1>1, MessagesStay
<1> QED
  BY <1>2, <1>3, <1>4, <1>5 DEF GroupInv

LEMMA RotatedOK ==
    ASSUME GroupInv, NEW u \in Users, Rotated(u)
    PROVE  GroupInv'
<1>1. ServerInv'
  BY DEF GroupInv, ServerInv, KeyNamesItsCreator, Rotated, server, history
<1> QED
  BY <1>1, NobodyMoves DEF Rotated, server, history

LEMMA OpenChatOK ==
    ASSUME GroupInv, NEW u \in Users, OpenChat(u)
    PROVE  GroupInv'
<1>1. ServerInv'
  BY DEF GroupInv, ServerInv, KeyNamesItsCreator, OpenChat, server, history
<1> QED
  BY <1>1, NobodyMoves DEF OpenChat, server, history, client

LEMMA RemoveParticipantOK ==
    ASSUME GroupInv, NEW u \in Users, RemoveParticipant(u)
    PROVE  GroupInv'
<1>1. ServerInv'
  BY DEF GroupInv, ServerInv, KeyNamesItsCreator, RemoveParticipant, Wipe
<1> QED
  BY <1>1, NobodyMoves DEF RemoveParticipant, client

LEMMA DeleteChatOK ==
    ASSUME GroupInv, NEW u \in Users, DeleteChat(u)
    PROVE  GroupInv'
<1>1. ServerInv'
  BY DEF GroupInv, ServerInv, KeyNamesItsCreator, DeleteChat, history
<1> QED
  BY <1>1, NobodyMoves DEF DeleteChat, client, history

(* Who comes back is forgotten among the removed, in every call and every   *)
(* message.                                                                 *)
LEMMA ComesBackOK ==
    ASSUME GroupInv, NEW u \in Users, ComesBack(u), members' = members \cup {u},
           UNCHANGED <<notices, roster, ratchet, queue, keys, held, restarts>>,
           Wipe \/ UNCHANGED <<group_key, key_creator>>
    PROVE  GroupInv'
<1>1. ServerInv'
  BY DEF GroupInv, ServerInv, KeyNamesItsCreator, ComesBack, Wipe
<1>2. PICK L \in Nat : Len(messages) = L /\ DOMAIN messages = 1..L
  BY DEF GroupInv, MessageInv
<1>3. ASSUME NEW i \in 1..L
      PROVE  /\ messages'[i] \in Message
             /\ messages'[i].from = messages[i].from /\ messages'[i].run = messages[i].run
             /\ messages'[i].step = messages[i].step /\ messages'[i].key = messages[i].key
             /\ messages'[i].without = messages[i].without \ {u}
  <2>1. messages[i] \in Message
    BY <1>2 DEF GroupInv, MessageInv, MessageOK
  <2>2. messages'[i] = [messages[i] EXCEPT !.without = messages[i].without \ {u}]
    BY <1>2 DEF ComesBack
  <2> QED
    BY <2>1, <2>2 DEF Message
<1>4. messages' \in Seq(Message) /\ Len(messages') = L /\ DOMAIN messages' = 1..L
  <2>1. messages' = [i \in 1..L |-> messages'[i]]
    BY <1>2 DEF ComesBack
  <2>2. \A i \in 1..L : messages'[i] \in Message
    BY <1>3
  <2> QED
    BY <2>1, <2>2
<1>5. /\ Longer(messages, messages') /\ \A v : NoneOf(v, messages, messages')
      /\ Grown(held, keys, held', removed') /\ removed' \subseteq Users /\ keys \in Nat
      /\ restarts \in [Users -> Nat] /\ held \in [Users -> SUBSET (1..keys)]
  BY <1>2, <1>3, <1>4, <1>1 DEF ServerInv, Grown, Longer, NoneOf
<1>6. ChainInv'
  <2>1. ASSUME NEW v \in Users
        PROVE  RatchetOK(v, ratchet[v], held', messages', restarts[v])
    BY <1>5, RatchetStays DEF GroupInv, ChainInv
  <2> QED
    BY <2>1 DEF GroupInv, ChainInv
<1>7. ASSUME NEW v \in Users, NEW t \in 1..Slots[v]
      PROVE  /\ job'[v][t].pc = job[v][t].pc
             /\ JobOK(v, job'[v][t], held', removed', messages', restarts'[v])
  <2> DEFINE o == job[v][t]
             j == job'[v][t]
  <2>1. JobOK(v, o, held, removed, messages, restarts[v]) /\ o \in Job
    BY DEF GroupInv, JobInv, JobOK
  <2>2. j = [o EXCEPT !.without = o.without \ {u}]
    BY DEF ComesBack
  <2> HIDE DEF j, o
  <2>3. /\ j \in Job /\ j.pc = o.pc /\ j.op = o.op /\ j.msg = o.msg /\ j.key = o.key
        /\ j.state = o.state /\ j.without = o.without \ {u}
    BY <2>1, <2>2 DEF Job
  <2>4. JobOK(v, j, held, removed, messages, restarts[v])
    BY <2>1, <2>3 DEF JobOK
  <2>5. j.without \subseteq removed'
    BY <2>1, <2>3 DEF JobOK, ComesBack
  <2>6. held[v] \subseteq 1..keys
    BY <1>5
  <2>7. JobOK(v, j, held', removed', messages', restarts'[v])
    BY <1>5, <2>4, <2>5, <2>6, JobStays
  <2> QED
    BY <2>3, <2>7 DEF j, o
<1>8. JobInv'
  <2>1. /\ job' = [v \in Users |-> job'[v]]
        /\ \A v \in Users : job'[v] = [t \in 1..Slots[v] |-> job'[v][t]]
    BY DEF ComesBack
  <2> QED
    BY <1>7, <2>1 DEF JobInv
<1>9. QueueInv'
  <2>1. ASSUME NEW v \in Users
        PROVE  QueueOK(queue[v], job'[v], Slots[v])
    <3>1. QueueOK(queue[v], job[v], Slots[v])
      BY DEF GroupInv, QueueInv
    <3>2. \A t \in 1..Slots[v] : job'[v][t].pc = job[v][t].pc
      BY <1>7
    <3> QED
      BY <3>1, <3>2 DEF QueueOK
  <2> QED
    BY <2>1 DEF GroupInv, QueueInv
<1>10. MessageInv'
  <2>1. ASSUME NEW i \in 1..L
        PROVE  MessageOK(messages'[i], held', removed', keys', restarts')
    <3>1. MessageOK(messages[i], held, removed, keys, restarts)
      BY <1>2 DEF GroupInv, MessageInv
    <3>2. MessageOK(messages'[i], held, removed, keys, restarts)
      BY <1>3, <3>1 DEF MessageOK
    <3>3. messages'[i].without \subseteq removed'
      BY <1>3, <3>1 DEF MessageOK, ComesBack
    <3>4. held' = held /\ keys' = keys /\ restarts' = restarts
      OBVIOUS
    <3> QED
      BY <3>2, <3>3, <3>4 DEF MessageOK
  <2>2. OwnStepsFresh'
    BY <1>2, <1>3, <1>4 DEF GroupInv, MessageInv, OwnStepsFresh
  <2> QED
    BY <1>4, <2>1, <2>2 DEF MessageInv
<1> QED
  BY <1>1, <1>6, <1>8, <1>9, <1>10 DEF GroupInv

-----------------------------------------------------------------------------
(* The group, its keys and its chains begin in order.                       *)
LEMMA InitOK ==
    ASSUME Init
    PROVE  GroupInv
<1>1. ServerInv
  <2>1. /\ members \subseteq Users /\ removed = {} /\ notices = {} /\ keys = 1
        /\ roster \in [Users -> SUBSET Users] /\ restarts \in [Users -> Nat]
        /\ Creator \in Users
    BY GroupAssumption DEF Init
  <2>2. held \in [Users -> SUBSET (1..keys)]
    <3>1. \A u \in Users : (IF u = Creator THEN {1} ELSE {}) \in SUBSET (1..1)
      OBVIOUS
    <3> QED
      BY <2>1, <3>1 DEF Init
  <2>3. /\ key_creator \in Users \cup {None} /\ group_key \in SealedKey \cup {None}
        /\ group_key = None => key_creator = None
        /\ group_key # None => group_key.key = 1 /\ group_key.by = key_creator
    <3> DEFINE g == [key |-> 1, by |-> Creator, for |-> Members \ {Creator}]
    <3>1. g \in SealedKey /\ g.key = 1 /\ g.by = Creator
      BY GroupAssumption DEF SealedKey
    <3>2. g # None
      BY <3>1, NoneAssumption
    <3>3. CASE key_creator = None
      BY <3>3 DEF Init
    <3>4. CASE key_creator # None
      <4>1. key_creator = Creator /\ group_key = g
        BY <3>4 DEF Init
      <4> HIDE DEF g
      <4> QED
        BY <2>1, <3>1, <3>2, <4>1
    <3> QED
      BY <3>3, <3>4
  <2> QED
    BY <2>1, <2>2, <2>3 DEF ServerInv, KeyNamesItsCreator
<1>2. ChainInv
  <2>1. ratchet = [u \in Users |-> None]
    BY DEF Init
  <2> QED
    BY <2>1 DEF ChainInv, RatchetOK
<1>3. job = [u \in Users |-> [s \in 1..Slots[u] |-> Idle]]
  BY DEF Init
<1>4. JobInv
  <2>1. ASSUME NEW u \in Users, NEW s \in 1..Slots[u]
        PROVE  job[u][s] = Idle
    BY <1>3
  <2>2. ASSUME NEW u \in Users
        PROVE  job[u] = [s \in 1..Slots[u] |-> job[u][s]]
    BY <1>3
  <2>3. ASSUME NEW u \in Users, NEW s \in 1..Slots[u]
        PROVE  JobOK(u, job[u][s], held, removed, messages, restarts[u])
    BY <2>1, IdleOK
  <2>4. job = [u \in Users |-> job[u]]
    BY <1>3
  <2> QED
    BY <2>2, <2>3, <2>4 DEF JobInv
<1>5. QueueInv
  <2>1. queue = [u \in Users |-> <<>>]
    BY DEF Init
  <2>2. ASSUME NEW u \in Users
        PROVE  QueueOK(queue[u], job[u], Slots[u])
    <3>1. queue[u] = <<>> /\ \A s \in 1..Slots[u] : job[u][s] = Idle
      BY <1>3, <2>1
    <3>2. Idle.pc = "idle"
      BY IdleOK
    <3> QED
      BY <3>1, <3>2 DEF QueueOK
  <2> QED
    BY <2>1, <2>2 DEF QueueInv
<1>6. MessageInv
  <2>1. messages = <<>>
    BY DEF Init
  <2> QED
    BY <2>1 DEF MessageInv, OwnStepsFresh
<1> QED
  BY <1>1, <1>2, <1>4, <1>5, <1>6 DEF GroupInv

(* Every step keeps the group in order.                                     *)
LEMMA StepOK ==
    ASSUME GroupInv, [Next]_vars
    PROVE  GroupInv'
<1>1. CASE UNCHANGED vars
  BY <1>1 DEF vars, server, client, history, GroupInv, ServerInv, ChainInv, JobInv, QueueInv,
              MessageInv, KeyNamesItsCreator, OwnStepsFresh
<1>2. ASSUME NEW u \in Users, UserStep(u)
      PROVE  GroupInv'
  <2>1. CASE AddParticipant(u)
    BY <2>1, ComesBackOK DEF AddParticipant
  <2>2. CASE AcceptInvite(u)
    BY <2>2, ComesBackOK DEF AcceptInvite
  <2> QED
    BY <1>2, <2>1, <2>2, RotatedOK, OpenChatOK, RemoveParticipantOK, DeleteChatOK DEF UserStep
<1>3. ASSUME NEW u \in Users, NEW s \in 1..Slots[u], CallStep(u, s)
      PROVE  GroupInv'
  BY <1>3, SendStartOK, ReadStartOK, KeyAnswerOK, InitGroupKeyOK, EnterOK, EncryptOK, DecryptOK
     DEF CallStep
<1> QED
  BY <1>1, <1>2, <1>3 DEF Next

(* The invariant of a group: the types, the queue of every lock with the    *)
(* working call at its head, chains of which nothing is lost, and keys that *)
(* nobody removed before their use holds (groupE2E.ts, chat.py).            *)
THEOREM GroupInvariant == Spec => []GroupInv
<1>1. Init => GroupInv
  BY InitOK
<1>2. GroupInv /\ [Next]_vars => GroupInv'
  BY StepOK
<1> QED
  BY <1>1, <1>2, PTL DEF Spec

(* Between two restarts no client draws a step of its chain twice, and      *)
(* nothing of a chain is lost or kept too long, whatever the order in which *)
(* its calls get the key, read, write and see the chain cleared             *)
(* (groupE2E.ts:271-400).                                                   *)
THEOREM StepsAlwaysHold == Spec => []StepsHold
<1>1. GroupInv => StepsHold
  <2>1. SUFFICES ASSUME GroupInv PROVE StepsHold
    OBVIOUS
  <2>2. ASSUME NEW u \in Users, ratchet[u] # None
        PROVE  ChainOK(ratchet[u])
    BY <2>1, <2>2 DEF GroupInv, ChainInv, RatchetOK
  <2>3. StepsAccounted
    BY <2>2 DEF StepsAccounted, ChainOK
  <2> QED
    BY <2>1, <2>3 DEF StepsHold, GroupInv, MessageInv
<1> QED
  BY <1>1, GroupInvariant, PTL

(* The key on the relay names who sealed it, and nobody who has left and    *)
(* not come back holds the key of a message written by a client that has    *)
(* fetched the key since (chat.py:1239-1249, docs/E2E_AND_TRANSPORT.md:81). *)
THEOREM KeyAlwaysHolds == Spec => []KeyHolds
<1>1. GroupInv => KeyHolds
  <2>1. SUFFICES ASSUME GroupInv PROVE KeyHolds
    OBVIOUS
  <2>2. DOMAIN messages = 1..Len(messages) /\ KeyNamesItsCreator
    BY <2>1 DEF GroupInv, MessageInv, ServerInv
  <2>3. RemovedCannotRead
    BY <2>1, <2>2 DEF RemovedCannotRead, GroupInv, MessageInv, MessageOK
  <2> QED
    BY <2>2, <2>3 DEF KeyHolds
<1> QED
  BY <1>1, GroupInvariant, PTL
=============================================================================
