---------------------------- MODULE TimelineProofs ----------------------------
(***************************************************************************)
(* The rows on screen are the rows of the relay, for any number of rows,   *)
(* any page size and any number of breaks. The instance Line of Timeline   *)
(* in MCScreen has v1 .. v13 for its variables: server, wire, opening,     *)
(* screen, load, older, hasMore, answers, last, link, syncs, breaks,       *)
(* raced. LineInv is stated with its reasons in Timeline; there is a lemma *)
(* per action that the action keeps it.                                    *)
(***************************************************************************)
EXTENDS MCScreen, TLAPS, SequenceTheorems, WellFoundedInduction, FiniteSetTheorems, FunctionTheorems

-----------------------------------------------------------------------------
LEMMA Least ==
  ASSUME NEW T, T \subseteq Nat, T # {} PROVE \E x \in T : \A y \in T : x <= y
<1>1. PICK x \in T : \A y \in T : ~(<<y, x>> \in OpToRel(<, Nat))
  BY NatLessThanWellFounded, WFMin, Zenon
<1>2. \A y \in T : ~(y < x)
  BY <1>1 DEF OpToRel
<1> QED BY <1>2

(* Pages of the history: the rows by their rank.                            *)

LEMMA LineCardinality == ASSUME NEW S PROVE Line!Cardinality(S) = Cardinality(S)
BY Zenon DEF Line!Cardinality, Cardinality

LEMMA SeqWider == ASSUME NEW S, NEW T, S \subseteq T PROVE Seq(S) \subseteq Seq(T)
OBVIOUS

LEMMA RankInto ==
  ASSUME NEW S \in SUBSET Nat, IsFiniteSet(S)
  PROVE  [i \in S |-> Cardinality({j \in S : j <= i})] \in Injection(S, 1..Cardinality(S))
<1> DEFINE under(i) == {j \in S : j <= i}
           rank == [i \in S |-> Cardinality(under(i))]
<1>1. \A i \in S : /\ IsFiniteSet(under(i)) /\ Cardinality(under(i)) \in Nat
                   /\ Cardinality(under(i)) <= Cardinality(S)
  <2> TAKE i \in S
  <2>1. under(i) \in SUBSET S OBVIOUS
  <2> QED BY <2>1, FS_Subset, FS_CardinalityType
<1>2. Cardinality(S) \in Nat BY FS_CardinalityType
<1>3. ASSUME NEW i \in S PROVE Cardinality(under(i)) # 0
  <2>1. i \in under(i) OBVIOUS
  <2> QED BY <1>1, <2>1, FS_EmptySet
<1>4. rank \in [S -> 1..Cardinality(S)]
  <2>1. \A i \in S : Cardinality(under(i)) \in 1..Cardinality(S) BY <1>1, <1>2, <1>3
  <2> QED BY <2>1
<1>5. ASSUME NEW i \in S, NEW j \in S, i < j PROVE Cardinality(under(i)) # Cardinality(under(j))
  <2>1. under(i) \in SUBSET under(j)
    <3>1. \A k \in S : k <= i => k <= j BY <1>5
    <3> QED BY <3>1
  <2>2. j \in under(j) /\ j \notin under(i) BY <1>5
  <2>3. under(i) # under(j) BY <2>2, Zenon
  <2> QED BY <1>1, <2>1, <2>3, FS_Subset
<1>6. ASSUME NEW i \in S, NEW j \in S, rank[i] = rank[j] PROVE i = j
  <2>1. Cardinality(under(i)) = Cardinality(under(j)) BY <1>6
  <2>2. ~(i < j) /\ ~(j < i) BY <1>5, <2>1
  <2> QED BY <2>2
<1> HIDE DEF rank
<1>7. IsInjective(rank)
  <2>1. DOMAIN rank = S BY <1>4
  <2> QED BY <1>6, <2>1, Zenon DEF IsInjective
<1>8. rank \in Injection(S, 1..Cardinality(S)) BY <1>4, <1>7, Zenon DEF Injection
<1> QED BY <1>8 DEF rank

LEMMA InOrderIs ==
  ASSUME NEW S \in SUBSET Nat, IsFiniteSet(S)
  PROVE  /\ Cardinality(S) \in Nat /\ DOMAIN Line!InOrder(S) = 1..Cardinality(S)
         /\ \A k \in 1..Cardinality(S) : Line!InOrder(S)[k] \in S
         /\ \A k, l \in 1..Cardinality(S) : Line!InOrder(S)[k] = Line!InOrder(S)[l] => k = l
         /\ \A i \in S : \E k \in 1..Cardinality(S) : Line!InOrder(S)[k] = i
<1> DEFINE n == Cardinality(S)
           rank == [i \in S |-> Cardinality({j \in S : j <= i})]
<1>1. n \in Nat BY FS_CardinalityType
<1>2. rank \in Injection(S, 1..n) BY RankInto
<1>3. IsFiniteSet(1..n) /\ Cardinality(1..n) = n BY <1>1, FS_Interval
<1>4. rank \in Surjection(S, 1..n) BY <1>2, <1>3, FS_Injection
<1>5. \A k \in 1..n : \E i \in S : rank[i] = k BY <1>4, Zenon DEF Surjection
<1>6. \A i, j \in S : rank[i] = rank[j] => i = j BY <1>2, Zenon DEF Injection, IsInjective
<1>7. \A i \in S : rank[i] \in 1..n BY <1>2, Zenon DEF Injection
<1>8. \A i \in S : rank[i] = Line!Cardinality({j \in S : j <= i}) BY LineCardinality
<1> HIDE DEF rank
<1>9. DOMAIN Line!InOrder(S) = 1..n
      /\ \A k \in 1..n : Line!InOrder(S)[k] = CHOOSE i \in S : Line!Cardinality({j \in S : j <= i}) = k
  <2>1. n = Line!Cardinality(S) BY LineCardinality
  <2> HIDE DEF n
  <2> QED BY <2>1 DEF Line!InOrder
<1> HIDE DEF n
<1>10. ASSUME NEW k \in 1..n PROVE Line!InOrder(S)[k] \in S /\ rank[Line!InOrder(S)[k]] = k
  <2>1. \E i \in S : Line!Cardinality({j \in S : j <= i}) = k BY <1>5, <1>8
  <2>2. /\ Line!InOrder(S)[k] \in S
        /\ Line!Cardinality({j \in S : j <= Line!InOrder(S)[k]}) = k
    BY <1>9, <2>1, Zenon
  <2> QED BY <1>8, <2>2
<1>11. \A k, l \in 1..n : Line!InOrder(S)[k] = Line!InOrder(S)[l] => k = l BY <1>10
<1>12. \A i \in S : Line!InOrder(S)[rank[i]] = i BY <1>6, <1>7, <1>10
<1>13. \A i \in S : \E k \in 1..n : Line!InOrder(S)[k] = i BY <1>7, <1>12
<1> QED BY <1>1, <1>9, <1>10, <1>11, <1>13 DEF n

LEMMA ServerIs ==
  ASSUME Line!LineTypes
  PROVE  /\ Len(v1) \in Nat /\ DOMAIN v1 = 1..Len(v1)
         /\ IsFiniteSet(Line!Live) /\ Line!Live \subseteq 1..Len(v1) /\ Line!Live \in SUBSET Nat
         /\ Line!FromPeer \subseteq 1..Len(v1) /\ Line!Announced \subseteq 1..Len(v1)
         /\ Line!Live \cap Line!Announced = {}
<1>1. Len(v1) \in Nat /\ DOMAIN v1 = 1..Len(v1)
  BY DEF Line!LineTypes
<1>2. Line!Live \subseteq 1..Len(v1) /\ Line!FromPeer \subseteq 1..Len(v1)
      /\ Line!Announced \subseteq 1..Len(v1) /\ Line!Live \cap Line!Announced = {}
  BY <1>1 DEF Line!Live, Line!FromPeer, Line!Announced
<1>3. IsFiniteSet(1..Len(v1)) BY <1>1, FS_Interval
<1>4. IsFiniteSet(Line!Live) BY <1>2, <1>3, FS_Subset
<1>5. Line!Live \in SUBSET Nat BY <1>1, <1>2
<1> QED BY <1>1, <1>2, <1>4, <1>5

LEMMA NewerIs ==
  ASSUME Line!LineTypes
  PROVE  /\ \A i \in Line!Live : Line!Newer(i) \in Nat
         /\ \A i, j \in Line!Live : j <= i => Line!Newer(i) <= Line!Newer(j)
         /\ Line!Live # {} => \E i \in Line!Live : Line!Newer(i) = 0
<1>1. IsFiniteSet(Line!Live) /\ Line!Live \in SUBSET Nat /\ Line!Live \subseteq 1..Len(v1) /\ Len(v1) \in Nat
  BY ServerIs
<1> DEFINE over(i) == {j \in Line!Live : j > i}
<1>2. \A i : IsFiniteSet(over(i)) /\ Cardinality(over(i)) \in Nat /\ Line!Newer(i) = Cardinality(over(i))
  <2> TAKE i
  <2>1. over(i) \in SUBSET Line!Live OBVIOUS
  <2>2. IsFiniteSet(over(i)) BY <1>1, <2>1, FS_Subset
  <2> HIDE DEF over
  <2>3. Line!Cardinality(over(i)) = Cardinality(over(i)) BY LineCardinality
  <2>4. Line!Newer(i) = Line!Cardinality(over(i)) BY DEF Line!Newer, over
  <2> QED BY <2>2, <2>3, <2>4, FS_CardinalityType
<1>3. ASSUME NEW i \in Line!Live, NEW j \in Line!Live, j <= i PROVE Line!Newer(i) <= Line!Newer(j)
  <2>1. \A k \in Line!Live : k > i => k > j
    <3>1. i \in Nat /\ j \in Nat /\ \A k \in Line!Live : k \in Nat BY <1>1
    <3> QED BY <1>3, <3>1
  <2>2. over(i) \in SUBSET over(j) BY <2>1
  <2> QED BY <1>2, <2>2, FS_Subset
<1>4. ASSUME Line!Live # {} PROVE \E i \in Line!Live : Line!Newer(i) = 0
  <2> DEFINE T == {m \in Nat : \A i \in Line!Live : i <= m}
  <2>1. Len(v1) \in T BY <1>1
  <2>2. PICK m \in T : \A y \in T : m <= y
    <3>1. T \subseteq Nat /\ T # {} BY <2>1
    <3> HIDE DEF T
    <3> QED BY <3>1, Least
  <2>3. \A y \in T : ~(y < m)
    <3>1. m \in Nat /\ \A y \in T : y \in Nat OBVIOUS
    <3> QED BY <2>2, <3>1
  <2>4. m \in Line!Live
    <3> SUFFICES ASSUME m \notin Line!Live PROVE FALSE
      OBVIOUS
    <3>1. PICK i \in Line!Live : TRUE BY <1>4
    <3>2. i \in Nat /\ i >= 1 /\ i <= m /\ m \in Nat BY <1>1
    <3>3. m - 1 \in Nat BY <3>2
    <3>4. \A k \in Line!Live : k <= m - 1
      <4> TAKE k \in Line!Live
      <4>1. k \in Nat /\ k <= m /\ k # m BY <1>1
      <4> QED BY <3>2, <4>1
    <3>5. m - 1 \in T BY <3>3, <3>4
    <3> QED BY <2>3, <3>2, <3>5
  <2>5. over(m) = {}
    <3>1. ASSUME NEW k \in Line!Live PROVE ~(k > m)
      <4>1. k \in Nat /\ m \in Nat /\ k <= m BY <1>1
      <4> QED BY <4>1
    <3> QED BY <3>1
  <2>6. Line!Newer(m) = 0
    <3> HIDE DEF over
    <3> QED BY <1>2, <2>5, FS_EmptySet
  <2> QED BY <2>4, <2>6
<1> HIDE DEF over
<1> QED BY <1>2, <1>3, <1>4

LEMMA HistoryIs ==
  ASSUME Line!LineTypes, NEW skip \in Nat
  PROVE  /\ Line!History(skip) \in Seq([id : DOMAIN v1, gone : BOOLEAN])
         /\ Line!Once(Line!History(skip))
         /\ Line!Ids(Line!History(skip)) = {i \in Line!Live : skip <= Line!Newer(i) /\ Line!Newer(i) < skip + PageSize}
<1> DEFINE S == {i \in Line!Live : skip <= Line!Newer(i) /\ Line!Newer(i) < skip + PageSize}
           h == Line!History(skip)
<1>1. S \in SUBSET Line!Live OBVIOUS
<1>2. S \in SUBSET Nat /\ IsFiniteSet(S) BY <1>1, ServerIs, FS_Subset
<1>3. h = [k \in DOMAIN Line!InOrder(S) |-> Line!Row(Line!InOrder(S)[k], FALSE)]
  BY DEF Line!History
<1>4. S \subseteq DOMAIN v1 BY ServerIs
<1> HIDE DEF S, h
<1> DEFINE n == Cardinality(S)
<1>5. n \in Nat /\ DOMAIN h = 1..n /\ \A k \in 1..n : Line!InOrder(S)[k] \in S /\ h[k] = Line!Row(Line!InOrder(S)[k], FALSE)
  BY <1>2, <1>3, InOrderIs
<1>6. h = [k \in 1..n |-> Line!Row(Line!InOrder(S)[k], FALSE)] BY <1>3, <1>5
<1> HIDE DEF n
<1>7. \A k \in 1..n : Line!Row(Line!InOrder(S)[k], FALSE) \in [id : DOMAIN v1, gone : BOOLEAN]
  BY <1>4, <1>5 DEF Line!Row
<1>8. h \in Seq([id : DOMAIN v1, gone : BOOLEAN])
  <2> DEFINE T == [id : DOMAIN v1, gone : BOOLEAN]
  <2>1. h \in [1..n -> T] BY <1>6, <1>7
  <2> HIDE DEF T
  <2>2. h \in Seq(T) BY <1>5, <2>1
  <2> QED BY <2>2 DEF T
<1>9. \A k \in 1..n : h[k].id = Line!InOrder(S)[k] BY <1>5 DEF Line!Row
<1>10. Line!Once(h)
  <2>1. \A k, l \in 1..n : Line!InOrder(S)[k] = Line!InOrder(S)[l] => k = l BY <1>2, InOrderIs DEF n
  <2> QED BY <1>5, <1>9, <2>1 DEF Line!Once
<1>11. Line!Ids(h) = S
  <2>1. \A i \in S : \E k \in 1..n : Line!InOrder(S)[k] = i BY <1>2, InOrderIs DEF n
  <2>2. \A i : i \in Line!Ids(h) <=> \E k \in 1..n : h[k].id = i BY <1>5 DEF Line!Ids
  <2>3. ASSUME NEW i \in Line!Ids(h) PROVE i \in S
    <3>1. PICK k \in 1..n : h[k].id = i BY <2>2
    <3> QED BY <1>5, <1>9, <3>1
  <2>4. \A i \in S : i \in Line!Ids(h) BY <1>9, <2>1, <2>2
  <2> QED BY <2>3, <2>4
<1> QED BY <1>8, <1>10, <1>11 DEF S, h

-----------------------------------------------------------------------------
LEMMA SeqItems ==
  ASSUME NEW T, NEW q \in Seq(T)
  PROVE  Len(q) \in Nat /\ DOMAIN q = 1..Len(q) /\ \A k \in DOMAIN q : q[k] \in T
OBVIOUS

LEMMA SeqMade ==
  ASSUME NEW T, NEW n \in Nat, NEW q \in [1..n -> T]
  PROVE  q \in Seq(T) /\ Len(q) = n
OBVIOUS

(* What a step does to the sets of rows.                                    *)
LEMMA RowMade ==
  ASSUME Line!LineTypes, NEW b \in {"me", "peer"}, v1' = Append(v1, [by |-> b, state |-> "live"])
  PROVE  /\ v1' \in Seq([by : {"me", "peer"}, state : {"live", "announced", "silent"}])
         /\ Len(v1)' = Len(v1) + 1 /\ DOMAIN v1' = 1..(Len(v1) + 1)
         /\ Line!Live' = Line!Live \cup {Len(v1) + 1} /\ Line!Announced' = Line!Announced
         /\ Line!FromPeer' = Line!FromPeer \cup {i \in {Len(v1) + 1} : b = "peer"}
<1>1. Len(v1) \in Nat /\ DOMAIN v1 = 1..Len(v1) BY ServerIs
<1> DEFINE n == Len(v1) + 1
<1>2. v1' \in Seq([by : {"me", "peer"}, state : {"live", "announced", "silent"}])
      /\ Len(v1)' = n /\ DOMAIN v1' = 1..n
      /\ v1'[n] = [by |-> b, state |-> "live"] /\ \A i \in 1..Len(v1) : v1'[i] = v1[i]
  BY <1>1 DEF Line!LineTypes
<1>3. 1..n = (1..Len(v1)) \cup {n} /\ n \notin 1..Len(v1) BY <1>1
<1> HIDE DEF n
<1>4. \A i : i \in Line!Live' <=> i \in Line!Live \/ i = n BY <1>1, <1>2, <1>3 DEF Line!Live
<1>5. \A i : i \in Line!Announced' <=> i \in Line!Announced BY <1>1, <1>2, <1>3 DEF Line!Announced
<1>6. \A i : i \in Line!FromPeer' <=> i \in Line!FromPeer \/ (i = n /\ b = "peer") BY <1>1, <1>2, <1>3 DEF Line!FromPeer
<1> QED BY <1>2, <1>4, <1>5, <1>6 DEF n

LEMMA RowGone ==
  ASSUME Line!LineTypes, NEW i \in Line!Live, NEW s \in {"announced", "silent"}, v1' = [v1 EXCEPT ![i].state = s]
  PROVE  /\ v1' \in Seq([by : {"me", "peer"}, state : {"live", "announced", "silent"}])
         /\ Len(v1)' = Len(v1) /\ DOMAIN v1' = DOMAIN v1
         /\ Line!Live' = Line!Live \ {i} /\ Line!FromPeer' = Line!FromPeer
         /\ Line!Announced' = Line!Announced \cup {j \in {i} : s = "announced"}
<1>1. Len(v1) \in Nat /\ DOMAIN v1 = 1..Len(v1) /\ i \in 1..Len(v1) /\ v1[i].state = "live"
  BY ServerIs DEF Line!Live
<1>2. \A j \in 1..Len(v1) : v1[j] \in [by : {"me", "peer"}, state : {"live", "announced", "silent"}]
  BY <1>1, SeqItems DEF Line!LineTypes
<1>3. /\ DOMAIN v1' = 1..Len(v1)
      /\ \A j \in 1..Len(v1) : v1'[j] = IF j = i THEN [v1[i] EXCEPT !.state = s] ELSE v1[j]
  BY <1>1
<1>4. /\ v1'[i].state = s /\ v1'[i].by = v1[i].by
      /\ v1'[i] \in [by : {"me", "peer"}, state : {"live", "announced", "silent"}]
  BY <1>1, <1>2, <1>3
<1>5. \A j \in 1..Len(v1) : j # i => v1'[j] = v1[j] BY <1>3
<1>6. v1' \in Seq([by : {"me", "peer"}, state : {"live", "announced", "silent"}]) /\ Len(v1)' = Len(v1)
  <2> DEFINE T == [by : {"me", "peer"}, state : {"live", "announced", "silent"}]
  <2>1. \A j \in 1..Len(v1) : v1'[j] \in T BY <1>2, <1>4, <1>5
  <2> HIDE DEF T
  <2>2. v1' = [j \in 1..Len(v1) |-> v1'[j]] BY <1>1
  <2>3. v1' \in [1..Len(v1) -> T] BY <2>1, <2>2
  <2>4. PICK n \in Nat : n = Len(v1) BY <1>1
  <2>5. PICK q \in [1..n -> T] : q = v1' BY <2>3, <2>4
  <2>6. q \in Seq(T) /\ Len(q) = n BY SeqMade
  <2> QED BY <2>4, <2>5, <2>6 DEF T
<1>7. \A j : j \in Line!Live' <=> j \in Line!Live /\ j # i
  BY <1>1, <1>3, <1>4, <1>5 DEF Line!Live
<1>8. \A j : j \in Line!FromPeer' <=> j \in Line!FromPeer
  BY <1>1, <1>3, <1>4, <1>5 DEF Line!FromPeer
<1>9. \A j : j \in Line!Announced' <=> j \in Line!Announced \/ (j = i /\ s = "announced")
  BY <1>1, <1>3, <1>4, <1>5 DEF Line!Announced
<1> QED BY <1>1, <1>3, <1>6, <1>7, <1>8, <1>9

(* The relay's rows stay as they are.                                       *)
LEMMA RowsStay ==
  ASSUME v1' = v1
  PROVE  Line!Live' = Line!Live /\ Line!FromPeer' = Line!FromPeer /\ Line!Announced' = Line!Announced
BY DEF Line!Live, Line!FromPeer, Line!Announced

LEMMA WireStays ==
  ASSUME Line!LineTypes, v2' = v2, DOMAIN v1 \subseteq DOMAIN v1'
  PROVE  Line!OnWire' = Line!OnWire /\ Line!Told' = Line!Told
<1>1. Line!FromPeer \subseteq DOMAIN v1 BY DEF Line!FromPeer
<1>2. \A i, k : <<k, i>> \in Line!Range(v2) => i \in DOMAIN v1
  <2>1. \A m \in DOMAIN v2 : v2[m] \in {"new", "del"} \X Line!FromPeer BY DEF Line!LineTypes
  <2> QED BY <1>1, <2>1 DEF Line!Range
<1>3. \A i : i \in Line!OnWire' <=> i \in Line!OnWire BY <1>2 DEF Line!OnWire
<1>4. \A i : i \in Line!Told' <=> i \in Line!Told BY <1>2 DEF Line!Told
<1> QED BY <1>3, <1>4

LEMMA AnswersStay ==
  ASSUME Line!LineTypes, v8' = v8, DOMAIN v1 \subseteq DOMAIN v1'
  PROVE  Line!Sent' = Line!Sent /\ Line!Withdrawn' = Line!Withdrawn
<1>1. \A i, k : <<k, i>> \in v8 => i \in DOMAIN v1
  BY DEF Line!LineTypes
<1>2. \A i : i \in Line!Sent' <=> i \in Line!Sent BY <1>1 DEF Line!Sent
<1>3. \A i : i \in Line!Withdrawn' <=> i \in Line!Withdrawn BY <1>1 DEF Line!Withdrawn
<1> QED BY <1>2, <1>3

LEMMA ScreenStays ==
  ASSUME Line!LineTypes, v4' = v4, DOMAIN v1 \subseteq DOMAIN v1'
  PROVE  \A g \in BOOLEAN : Line!Shown(g)' = Line!Shown(g)
<1> TAKE g \in BOOLEAN
<1>1. \A i : Line!Row(i, g) \in Line!Range(v4) => i \in DOMAIN v1
  <2>1. \A m \in DOMAIN v4 : v4[m] \in [id : DOMAIN v1, gone : BOOLEAN] BY SeqItems DEF Line!LineTypes
  <2> QED BY <2>1 DEF Line!Range, Line!Row
<1>2. \A i : i \in Line!Shown(g)' <=> i \in Line!Shown(g) BY <1>1 DEF Line!Shown
<1> QED BY <1>2

LEMMA FrameSent ==
  ASSUME Line!LineTypes, DOMAIN v1 \subseteq DOMAIN v1', NEW kind \in {"new", "del"}, NEW i \in DOMAIN v1',
         v2' = Append(v2, <<kind, i>>)
  PROVE  /\ Line!OnWire' = Line!OnWire \cup {j \in {i} : kind = "new"}
         /\ Line!Told' = Line!Told \cup {j \in {i} : kind = "del"}
         /\ Len(v2) \in Nat /\ DOMAIN v2 = 1..Len(v2) /\ DOMAIN v2' = 1..(Len(v2) + 1)
         /\ \A k \in 1..Len(v2) : v2'[k] = v2[k]
         /\ v2'[Len(v2) + 1] = <<kind, i>>
<1>1. /\ Len(v2) \in Nat /\ DOMAIN v2 = 1..Len(v2) /\ DOMAIN v2' = 1..(Len(v2) + 1)
      /\ \A k \in 1..Len(v2) : v2'[k] = v2[k]
      /\ v2'[Len(v2) + 1] = <<kind, i>>
  BY DEF Line!LineTypes
<1>2. \A f : f \in Line!Range(v2') <=> f \in Line!Range(v2) \/ f = <<kind, i>>
  <2>1. \A k : k \in 1..(Len(v2) + 1) <=> k \in 1..Len(v2) \/ k = Len(v2) + 1 BY <1>1
  <2> QED BY <1>1, <2>1 DEF Line!Range
<1>3. \A f \in Line!Range(v2) : f[2] \in DOMAIN v1
  <2>1. \A m \in DOMAIN v2 : v2[m] \in {"new", "del"} \X Line!FromPeer BY DEF Line!LineTypes
  <2> QED BY <2>1 DEF Line!Range, Line!FromPeer
<1>4. \A j : j \in Line!OnWire' <=> j \in Line!OnWire \/ (j = i /\ kind = "new") BY <1>2, <1>3 DEF Line!OnWire
<1>5. \A j : j \in Line!Told' <=> j \in Line!Told \/ (j = i /\ kind = "del") BY <1>2, <1>3 DEF Line!Told
<1> QED BY <1>1, <1>4, <1>5

LEMMA FrameHeard ==
  ASSUME Line!LineTypes, v1' = v1, v2 # <<>>, v2' = Tail(v2)
  PROVE  /\ Len(v2) \in Nat \ {0} /\ DOMAIN v2 = 1..Len(v2) /\ DOMAIN v2' = 1..(Len(v2) - 1)
         /\ \A k \in 1..(Len(v2) - 1) : v2'[k] = v2[k + 1]
         /\ v2[1] = Head(v2) /\ v2[1] \in {"new", "del"} \X Line!FromPeer
         /\ v2' \in Seq({"new", "del"} \X Line!FromPeer)
         /\ Line!OnWire = Line!OnWire' \cup {j \in {v2[1][2]} : v2[1][1] = "new"}
         /\ Line!Told = Line!Told' \cup {j \in {v2[1][2]} : v2[1][1] = "del"}
<1>1. /\ Len(v2) \in Nat \ {0} /\ DOMAIN v2 = 1..Len(v2) /\ DOMAIN v2' = 1..(Len(v2) - 1)
      /\ \A k \in 1..(Len(v2) - 1) : v2'[k] = v2[k + 1]
      /\ v2[1] = Head(v2) /\ v2[1] \in {"new", "del"} \X Line!FromPeer
      /\ v2' \in Seq({"new", "del"} \X Line!FromPeer)
  BY DEF Line!LineTypes
<1>2. \A f : f \in Line!Range(v2) <=> f \in Line!Range(v2') \/ f = v2[1]
  <2>1. \A f \in Line!Range(v2') : f \in Line!Range(v2)
    <3>1. \A k \in 1..(Len(v2) - 1) : k + 1 \in 1..Len(v2) BY <1>1
    <3> QED BY <1>1, <3>1 DEF Line!Range
  <2>2. ASSUME NEW k \in 1..Len(v2), k # 1 PROVE v2[k] \in Line!Range(v2')
    <3>1. k - 1 \in 1..(Len(v2) - 1) /\ (k - 1) + 1 = k BY <1>1, <2>2
    <3>2. v2'[k - 1] = v2[k] BY <1>1, <3>1
    <3> QED BY <1>1, <3>1, <3>2 DEF Line!Range
  <2>3. v2[1] \in Line!Range(v2) BY <1>1 DEF Line!Range
  <2>4. \A f \in Line!Range(v2) : f = v2[1] \/ f \in Line!Range(v2')
    <3>1. \A f \in Line!Range(v2) : \E k \in 1..Len(v2) : f = v2[k] BY <1>1 DEF Line!Range
    <3> QED BY <2>2, <3>1
  <2> QED BY <2>1, <2>3, <2>4
<1>3. v2[1] = <<v2[1][1], v2[1][2]>> /\ v2[1][2] \in DOMAIN v1 BY <1>1 DEF Line!FromPeer
<1>4. \A j : j \in Line!OnWire <=> j \in Line!OnWire' \/ (j = v2[1][2] /\ v2[1][1] = "new") BY <1>2, <1>3 DEF Line!OnWire
<1>5. \A j : j \in Line!Told <=> j \in Line!Told' \/ (j = v2[1][2] /\ v2[1][1] = "del") BY <1>2, <1>3 DEF Line!Told
<1> QED BY <1>1, <1>4, <1>5

LEMMA SeqGrown ==
  ASSUME NEW T, NEW q \in Seq(T), NEW e \in T, NEW n \in Nat, n = Len(q)
  PROVE  /\ Append(q, e) \in Seq(T)
         /\ DOMAIN q = 1..n /\ DOMAIN Append(q, e) = 1..(n + 1)
         /\ \A k \in 1..n : Append(q, e)[k] = q[k]
         /\ Append(q, e)[n + 1] = e
OBVIOUS

LEMMA RowShown ==
  ASSUME Line!LineTypes, v1' = v1, NEW i \in DOMAIN v1, v4' = Line!Added(v4, i)
  PROVE  /\ v4' \in Seq([id : DOMAIN v1, gone : BOOLEAN])
         /\ Line!Ids(v4') = Line!Ids(v4) \cup {i}
         /\ Line!Once(v4) => Line!Once(v4')
         /\ Line!Shown(TRUE)' = Line!Shown(TRUE) /\ Line!Shown(FALSE)' \subseteq Line!Shown(FALSE) \cup {i}
<1> DEFINE R == [id : DOMAIN v1, gone : BOOLEAN]
<1>1. v4 \in Seq(R) BY DEF Line!LineTypes
<1>2. Line!Row(i, FALSE) \in R BY DEF Line!Row
<1>3. CASE i \in Line!Ids(v4)
  <2>1. v4' = v4 BY <1>3 DEF Line!Added
  <2>2. Line!Shown(TRUE)' = Line!Shown(TRUE) /\ Line!Shown(FALSE)' = Line!Shown(FALSE) BY <2>1 DEF Line!Shown
  <2>3. Line!Ids(v4') = Line!Ids(v4) \cup {i} BY <1>3, <2>1
  <2> QED BY <1>1, <2>1, <2>2, <2>3
<1>4. CASE i \notin Line!Ids(v4)
  <2> HIDE DEF R
  <2> DEFINE n == Len(v4)
  <2>1. v4' = Append(v4, Line!Row(i, FALSE)) BY <1>4 DEF Line!Added
  <2>2. /\ n \in Nat /\ DOMAIN v4 = 1..n /\ DOMAIN v4' = 1..(n + 1)
        /\ v4' \in Seq(R)
        /\ \A k \in 1..n : v4'[k] = v4[k]
        /\ v4'[n + 1] = Line!Row(i, FALSE)
    <3>1. n \in Nat BY <1>1
    <3> HIDE DEF n
    <3>2. n = Len(v4) BY DEF n
    <3>3. PICK e \in R : e = Line!Row(i, FALSE) BY <1>2
    <3>4. PICK q \in Seq(R) : q = v4 BY <1>1
    <3>5. n = Len(q) BY <3>2, <3>4
    <3>6. /\ Append(q, e) \in Seq(R)
          /\ DOMAIN q = 1..n /\ DOMAIN Append(q, e) = 1..(n + 1)
          /\ \A k \in 1..n : Append(q, e)[k] = q[k]
          /\ Append(q, e)[n + 1] = e
      BY <3>1, <3>5, SeqGrown
    <3> QED BY <2>1, <3>1, <3>3, <3>4, <3>6
  <2> HIDE DEF n
  <2>3. \A k : k \in 1..(n + 1) <=> k \in 1..n \/ k = n + 1 BY <2>2
  <2>4. \A k \in 1..n : k # n + 1 BY <2>2
  <2>5. v4'[n + 1].id = i BY <2>2 DEF Line!Row
  <2>6. \A j : j \in Line!Ids(v4') <=> j \in Line!Ids(v4) \/ j = i
    <3>1. \A j : j \in Line!Ids(v4) <=> \E k \in 1..n : j = v4[k].id BY <2>2 DEF Line!Ids
    <3>2. \A j : j \in Line!Ids(v4') <=> \E k \in 1..(n + 1) : j = v4'[k].id BY <2>2 DEF Line!Ids
    <3>3. \A k \in 1..n : v4'[k].id = v4[k].id /\ k \in 1..(n + 1) BY <2>2, <2>3
    <3>4. \A j \in Line!Ids(v4) : j \in Line!Ids(v4') BY <3>1, <3>2, <3>3
    <3>5. i \in Line!Ids(v4') BY <2>3, <2>5, <3>2
    <3>6. \A j \in Line!Ids(v4') : j \in Line!Ids(v4) \/ j = i BY <2>3, <2>5, <3>1, <3>2, <3>3
    <3> QED BY <3>4, <3>5, <3>6
  <2>7. ASSUME Line!Once(v4) PROVE Line!Once(v4')
    <3>1. \A k \in 1..n : v4[k].id # i BY <1>4, <2>2 DEF Line!Ids
    <3>2. \A k, l \in 1..n : v4[k].id = v4[l].id => k = l BY <2>2, <2>7 DEF Line!Once
    <3>3. ASSUME NEW k \in 1..(n + 1), NEW l \in 1..(n + 1), v4'[k].id = v4'[l].id PROVE k = l
      <4>1. CASE k \in 1..n /\ l \in 1..n BY <2>2, <3>2, <3>3, <4>1
      <4>2. CASE k \in 1..n /\ l = n + 1 BY <2>2, <2>5, <3>1, <3>3, <4>2
      <4>3. CASE k = n + 1 /\ l \in 1..n BY <2>2, <2>5, <3>1, <3>3, <4>3
      <4> QED BY <2>3, <4>1, <4>2, <4>3
    <3> QED BY <2>2, <3>3 DEF Line!Once
  <2>8. \A r : r \in Line!Range(v4') <=> r \in Line!Range(v4) \/ r = Line!Row(i, FALSE)
    <3>1. \A r : r \in Line!Range(v4) <=> \E k \in 1..n : r = v4[k] BY <2>2 DEF Line!Range
    <3>2. \A r : r \in Line!Range(v4') <=> \E k \in 1..(n + 1) : r = v4'[k] BY <2>2 DEF Line!Range
    <3>3. \A k \in 1..n : v4'[k] = v4[k] /\ k \in 1..(n + 1) BY <2>2, <2>3
    <3>4. \A r \in Line!Range(v4) : r \in Line!Range(v4') BY <3>1, <3>2, <3>3
    <3>5. v4'[n + 1] \in Line!Range(v4') BY <2>3, <3>2
    <3>6. \A r \in Line!Range(v4') : r \in Line!Range(v4) \/ r = v4'[n + 1]
      BY <2>3, <3>1, <3>2, <3>3
    <3> QED BY <2>2, <3>4, <3>5, <3>6
  <2>9. \A j : j \in Line!Shown(TRUE)' <=> j \in Line!Shown(TRUE)
    <3>1. \A j : Line!Row(j, TRUE) # Line!Row(i, FALSE) BY DEF Line!Row
    <3> QED BY <2>8, <3>1 DEF Line!Shown
  <2>10. \A j : j \in Line!Shown(FALSE)' => j \in Line!Shown(FALSE) \/ j = i
    <3>1. \A j : Line!Row(j, FALSE) = Line!Row(i, FALSE) => j = i BY DEF Line!Row
    <3> QED BY <2>8, <3>1 DEF Line!Shown
  <2> QED BY <2>2, <2>6, <2>7, <2>9, <2>10 DEF R
<1> QED BY <1>3, <1>4

LEMMA RowMarked ==
  ASSUME Line!LineTypes, v1' = v1, NEW i \in DOMAIN v1, v4' = Line!Deleted(v4, i)
  PROVE  /\ v4' \in Seq([id : DOMAIN v1, gone : BOOLEAN])
         /\ Line!Ids(v4') = Line!Ids(v4)
         /\ Line!Once(v4) => Line!Once(v4')
         /\ Line!Shown(TRUE) \cup ({i} \cap Line!Ids(v4)) \subseteq Line!Shown(TRUE)'
         /\ Line!Shown(FALSE)' \subseteq Line!Shown(FALSE) \ {i}
<1> DEFINE R == [id : DOMAIN v1, gone : BOOLEAN]
           n == Len(v4)
<1>1. n \in Nat /\ DOMAIN v4 = 1..n /\ \A k \in 1..n : v4[k] \in R
  <2>1. v4 \in Seq(R) BY DEF Line!LineTypes
  <2> HIDE DEF R
  <2> QED BY <2>1, SeqItems
<1>2. Line!Row(i, TRUE) \in R BY DEF Line!Row
<1>3. v4' = [k \in 1..n |-> IF v4[k].id = i THEN Line!Row(i, TRUE) ELSE v4[k]]
  BY <1>1 DEF Line!Deleted
<1>4. DOMAIN v4' = 1..n /\ \A k \in 1..n : v4'[k] = IF v4[k].id = i THEN Line!Row(i, TRUE) ELSE v4[k]
  BY <1>3
<1>5. v4' \in Seq(R)
  <2> HIDE DEF R, n
  <2>1. v4' \in [1..n -> R] BY <1>1, <1>2, <1>3
  <2>2. PICK q \in [1..n -> R] : q = v4' BY <2>1
  <2>3. q \in Seq(R) BY <1>1, SeqMade
  <2> QED BY <2>2, <2>3
<1> HIDE DEF n
<1>6. \A k \in 1..n : v4'[k].id = v4[k].id BY <1>4 DEF Line!Row
<1>7. Line!Ids(v4') = Line!Ids(v4) BY <1>1, <1>4, <1>6 DEF Line!Ids
<1>8. Line!Once(v4) => Line!Once(v4') BY <1>1, <1>4, <1>6 DEF Line!Once
<1>9. ASSUME NEW j \in Line!Shown(TRUE) PROVE j \in Line!Shown(TRUE)'
  <2>1. PICK k \in 1..n : v4[k] = Line!Row(j, TRUE) BY <1>1 DEF Line!Shown, Line!Range
  <2>2. v4'[k] = Line!Row(j, TRUE) BY <1>4, <2>1 DEF Line!Row
  <2> QED BY <1>4, <1>9, <2>2 DEF Line!Shown, Line!Range
<1>10. ASSUME i \in Line!Ids(v4) PROVE i \in Line!Shown(TRUE)'
  <2>1. PICK k \in 1..n : v4[k].id = i BY <1>1, <1>10 DEF Line!Ids
  <2> QED BY <1>4, <2>1 DEF Line!Shown, Line!Range
<1>11. ASSUME NEW j \in Line!Shown(FALSE)' PROVE j \in Line!Shown(FALSE) /\ j # i
  <2>1. PICK k \in 1..n : v4'[k] = Line!Row(j, FALSE) /\ j \in DOMAIN v1 BY <1>4, <1>11 DEF Line!Shown, Line!Range
  <2>2. v4[k].id # i BY <1>4, <2>1 DEF Line!Row
  <2>3. v4[k] = Line!Row(j, FALSE) BY <1>4, <2>1, <2>2
  <2>4. j # i BY <2>2, <2>3 DEF Line!Row
  <2>5. Line!Row(j, FALSE) \in Line!Range(v4) BY <1>1, <2>3 DEF Line!Range
  <2> QED BY <2>1, <2>4, <2>5 DEF Line!Shown
<1> QED BY <1>5, <1>7, <1>8, <1>9, <1>10, <1>11

LEMMA AnswerAwaited ==
  ASSUME Line!LineTypes, DOMAIN v1 \subseteq DOMAIN v1', NEW kind \in {"sent", "deleted"}, NEW i \in DOMAIN v1',
         v8' = v8 \cup {<<kind, i>>}
  PROVE  /\ Line!Sent' = Line!Sent \cup {j \in {i} : kind = "sent"}
         /\ Line!Withdrawn' = Line!Withdrawn \cup {j \in {i} : kind = "deleted"}
<1>1. \A f \in v8 : f[2] \in DOMAIN v1 BY DEF Line!LineTypes
<1>2. \A f : f \in v8' <=> f \in v8 \/ f = <<kind, i>> OBVIOUS
<1>3. \A j : j \in Line!Sent' <=> j \in Line!Sent \/ (j = i /\ kind = "sent") BY <1>1, <1>2 DEF Line!Sent
<1>4. \A j : j \in Line!Withdrawn' <=> j \in Line!Withdrawn \/ (j = i /\ kind = "deleted") BY <1>1, <1>2 DEF Line!Withdrawn
<1> QED BY <1>3, <1>4

LEMMA AnswerHere ==
  ASSUME Line!LineTypes, v1' = v1, NEW kind \in {"sent", "deleted"}, NEW i, <<kind, i>> \in v8,
         v8' = v8 \ {<<kind, i>>}
  PROVE  /\ Line!Sent' = Line!Sent \ {j \in {i} : kind = "sent"}
         /\ Line!Withdrawn' = Line!Withdrawn \ {j \in {i} : kind = "deleted"}
         /\ i \in IF kind = "sent" THEN Line!Sent ELSE Line!Withdrawn
         /\ i \in DOMAIN v1 \ Line!FromPeer
<1>1. i \in DOMAIN v1 \ Line!FromPeer BY DEF Line!LineTypes
<1>2. \A f : f \in v8' <=> f \in v8 /\ f # <<kind, i>> OBVIOUS
<1>3. \A j : j \in Line!Sent' <=> j \in Line!Sent /\ ~(j = i /\ kind = "sent") BY <1>2 DEF Line!Sent
<1>4. \A j : j \in Line!Withdrawn' <=> j \in Line!Withdrawn /\ ~(j = i /\ kind = "deleted") BY <1>2 DEF Line!Withdrawn
<1>5. i \in IF kind = "sent" THEN Line!Sent ELSE Line!Withdrawn BY <1>1 DEF Line!Sent, Line!Withdrawn
<1> QED BY <1>1, <1>3, <1>4, <1>5

(* Whose the rows are that are to come.                                     *)
LEMMA ComesFrom ==
  ASSUME Line!LineTypes
  PROVE  Line!Sent \cap Line!FromPeer = {} /\ Line!OnWire \subseteq Line!FromPeer /\ Line!Told \subseteq Line!FromPeer /\ v3 \subseteq Line!FromPeer
<1>1. Line!Sent \cap Line!FromPeer = {} BY DEF Line!LineTypes, Line!Sent
<1>2. \A f \in Line!Range(v2) : f \in {"new", "del"} \X Line!FromPeer BY SeqItems DEF Line!LineTypes, Line!Range
<1> QED BY <1>1, <1>2 DEF Line!LineTypes, Line!OnWire, Line!Told

LEMMA PagesStay ==
  ASSUME v5' = v5, v6' = v6
  PROVE  Line!Page' = Line!Page /\ Line!Above' = Line!Above
BY DEF Line!Page, Line!Above

LEMMA FramesStay ==
  ASSUME Line!FramesInOrder, v2' = v2, v10' = v10, v11' = v11, v9' = v9,
         Line!Live' \subseteq Line!Live, Line!Announced' = Line!Announced
  PROVE  Line!FramesInOrder'
BY DEF Line!FramesInOrder

(* The types of what a step leaves alone.                                   *)
LEMMA ScreenTyped ==
  ASSUME Line!LineTypes, v1' = v1, v2' = v2, v3' \subseteq Line!FromPeer, v5' = v5, v6' = v6,
         v8' \subseteq v8, v4' \in Seq([id : DOMAIN v1, gone : BOOLEAN]),
         v9' = v9, v10' = v10, v11' = v11, v13' = v13
  PROVE  Line!LineTypes'
<1>1. Line!FromPeer' = Line!FromPeer BY RowsStay
<1>2. Line!Page' = Line!Page /\ Line!Above' = Line!Above BY PagesStay
<1> QED BY <1>1, <1>2 DEF Line!LineTypes

-----------------------------------------------------------------------------
(* A lemma per action.                                                      *)

LEMMA OpenedKeepsLine ==
  ASSUME Line!LineInv, NEW i \in v3, Line!Opened(i)
  PROVE  Line!LineInv'
<1>1. /\ v3' = v3 \ {i} /\ v4' = Line!Added(v4, i)
      /\ UNCHANGED <<v1, v2, v5, v6, v8, v9, v10, v11, v13>>
  BY DEF Line!Opened
<1>2. Line!LineTypes /\ Line!FramesInOrder /\ Line!PagesApart BY DEF Line!LineInv
<1>3. v3 \subseteq Line!FromPeer /\ i \in DOMAIN v1 BY <1>2 DEF Line!LineTypes, Line!FromPeer
<1>4. /\ v4' \in Seq([id : DOMAIN v1, gone : BOOLEAN])
      /\ Line!Ids(v4') = Line!Ids(v4) \cup {i}
      /\ Line!Once(v4) => Line!Once(v4')
      /\ Line!Shown(TRUE)' = Line!Shown(TRUE) /\ Line!Shown(FALSE)' \subseteq Line!Shown(FALSE) \cup {i}
  BY <1>1, <1>2, <1>3, RowShown
<1>5. /\ Line!Live' = Line!Live /\ Line!FromPeer' = Line!FromPeer /\ Line!Announced' = Line!Announced
      /\ Line!OnWire' = Line!OnWire /\ Line!Told' = Line!Told /\ Line!Sent' = Line!Sent /\ Line!Withdrawn' = Line!Withdrawn
      /\ Line!Page' = Line!Page /\ Line!Above' = Line!Above
  BY <1>1, <1>2, RowsStay, WireStays, AnswersStay, PagesStay
<1>6. Line!LineTypes' BY <1>1, <1>2, <1>3, <1>4, ScreenTyped
<1>7. Line!FramesInOrder' BY <1>1, <1>2, <1>5, FramesStay
<1>8. Line!PagesApart' BY <1>1, <1>2, <1>5 DEF Line!PagesApart, Line!Nothing
<1>9. ASSUME ~v13' PROVE Line!Once(v4') /\ Line!DeletionsFollow' /\ Line!NothingBetween'
  <2>1. Line!Once(v4) /\ Line!DeletionsFollow /\ Line!NothingBetween BY <1>1, <1>9 DEF Line!LineInv
  <2>2. Line!DeletionsFollow'
    <3>1. Line!Announced' \cap v3' \subseteq Line!Told' BY <1>1, <1>4, <1>5, <2>1 DEF Line!DeletionsFollow
    <3>2. Line!Announced' \cap Line!Sent' = {} BY <1>1, <1>4, <1>5, <2>1 DEF Line!DeletionsFollow
    <3>3. Line!Announced' \cap Line!Shown(FALSE)' \subseteq Line!Told' \cup Line!Withdrawn' BY <1>1, <1>4, <1>5, <2>1 DEF Line!DeletionsFollow
    <3>4. Line!Announced' \cap Line!Ids(Line!Page') \subseteq Line!Told' \cup (Line!Withdrawn' \cap Line!Ids(v4')) \cup Line!Shown(TRUE)'
    <4>1. Line!Announced \cap Line!Ids(Line!Page) \subseteq Line!Told \cup (Line!Withdrawn \cap Line!Ids(v4)) \cup Line!Shown(TRUE)
      BY <2>1 DEF Line!DeletionsFollow
    <4>2. Line!Ids(Line!Page') = Line!Ids(Line!Page) BY <1>5
    <4> QED BY <1>4, <1>5, <4>1, <4>2
    <3>5. Line!Announced' \cap Line!Ids(Line!Above') \subseteq Line!Told' \cup Line!Ids(v4') BY <1>1, <1>4, <1>5, <2>1 DEF Line!DeletionsFollow
    <3> QED BY <3>1, <3>2, <3>3, <3>4, <3>5 DEF Line!DeletionsFollow
  <2>3. \A j : Line!Due(j)' <=> Line!Due(j) BY <1>1, <1>4, <1>5 DEF Line!Due
  <2>4. (Line!Ids(v4) \cup Line!Coming)' = Line!Ids(v4) \cup Line!Coming BY <1>1, <1>4, <1>5 DEF Line!Coming
  <2>5. Line!NothingBetween' BY <1>1, <1>5, <2>1, <2>3, <2>4 DEF Line!NothingBetween, Line!Nothing
  <2> QED BY <1>4, <2>1, <2>2, <2>5
<1> QED BY <1>6, <1>7, <1>8, <1>9 DEF Line!LineInv

LEMMA AnsweredKeepsLine ==
  ASSUME Line!LineInv, NEW a \in v8, Line!Answered(a)
  PROVE  Line!LineInv'
<1>1. Line!LineTypes /\ Line!FramesInOrder /\ Line!PagesApart BY DEF Line!LineInv
<1>2. PICK kind \in {"sent", "deleted"}, i \in DOMAIN v1 \ Line!FromPeer : a = <<kind, i>>
  BY <1>1 DEF Line!LineTypes
<1>3. /\ <<kind, i>> \in v8 /\ v8' = v8 \ {<<kind, i>>}
      /\ v4' = IF kind = "sent" THEN Line!Added(v4, i) ELSE Line!Deleted(v4, i)
      /\ UNCHANGED <<v1, v2, v3, v5, v6, v9, v10, v11, v13>>
  BY <1>2 DEF Line!Answered
<1>4. /\ Line!Sent' = Line!Sent \ {j \in {i} : kind = "sent"}
      /\ Line!Withdrawn' = Line!Withdrawn \ {j \in {i} : kind = "deleted"}
      /\ i \in IF kind = "sent" THEN Line!Sent ELSE Line!Withdrawn
  BY <1>1, <1>3, AnswerHere
<1>5. /\ Line!Live' = Line!Live /\ Line!FromPeer' = Line!FromPeer /\ Line!Announced' = Line!Announced
      /\ Line!OnWire' = Line!OnWire /\ Line!Told' = Line!Told /\ Line!Page' = Line!Page /\ Line!Above' = Line!Above
  BY <1>1, <1>3, RowsStay, WireStays, PagesStay
<1>6. Line!PagesApart' BY <1>1, <1>3, <1>5 DEF Line!PagesApart, Line!Nothing
<1>7. Line!FramesInOrder' BY <1>1, <1>3, <1>5, FramesStay
<1>8. v3' \subseteq Line!FromPeer /\ v8' \subseteq v8 BY <1>1, <1>3 DEF Line!LineTypes
<1>9. CASE kind = "sent"
  <2>1. /\ v4' \in Seq([id : DOMAIN v1, gone : BOOLEAN])
        /\ Line!Ids(v4') = Line!Ids(v4) \cup {i}
        /\ Line!Once(v4) => Line!Once(v4')
        /\ Line!Shown(TRUE)' = Line!Shown(TRUE) /\ Line!Shown(FALSE)' \subseteq Line!Shown(FALSE) \cup {i}
    BY <1>1, <1>2, <1>3, <1>9, RowShown
  <2>2. Line!LineTypes' BY <1>1, <1>3, <1>8, <2>1, ScreenTyped
  <2>3. Line!Sent' = Line!Sent \ {i} /\ i \in Line!Sent /\ Line!Withdrawn' = Line!Withdrawn BY <1>4, <1>9
  <2>4. ASSUME ~v13' PROVE Line!Once(v4') /\ Line!DeletionsFollow' /\ Line!NothingBetween'
    <3>1. Line!Once(v4) /\ Line!DeletionsFollow /\ Line!NothingBetween BY <1>3, <2>4 DEF Line!LineInv
    <3>2. Line!DeletionsFollow'
      <4>1. Line!Announced' \cap v3' \subseteq Line!Told' BY <1>3, <1>5, <2>1, <2>3, <3>1 DEF Line!DeletionsFollow
      <4>2. Line!Announced' \cap Line!Sent' = {} BY <1>3, <1>5, <2>1, <2>3, <3>1 DEF Line!DeletionsFollow
      <4>3. Line!Announced' \cap Line!Shown(FALSE)' \subseteq Line!Told' \cup Line!Withdrawn' BY <1>3, <1>5, <2>1, <2>3, <3>1 DEF Line!DeletionsFollow
      <4>4. Line!Announced' \cap Line!Ids(Line!Page') \subseteq Line!Told' \cup (Line!Withdrawn' \cap Line!Ids(v4')) \cup Line!Shown(TRUE)'
      <5>1. Line!Announced \cap Line!Ids(Line!Page) \subseteq Line!Told \cup (Line!Withdrawn \cap Line!Ids(v4)) \cup Line!Shown(TRUE)
        BY <3>1 DEF Line!DeletionsFollow
      <5>2. Line!Ids(Line!Page') = Line!Ids(Line!Page) BY <1>5
      <5> QED BY <1>5, <2>1, <2>3, <5>1, <5>2
      <4>5. Line!Announced' \cap Line!Ids(Line!Above') \subseteq Line!Told' \cup Line!Ids(v4') BY <1>3, <1>5, <2>1, <2>3, <3>1 DEF Line!DeletionsFollow
      <4> QED BY <4>1, <4>2, <4>3, <4>4, <4>5 DEF Line!DeletionsFollow
    <3>3. \A j : Line!Due(j)' <=> Line!Due(j) BY <1>3, <1>5, <2>1, <2>3 DEF Line!Due
    <3>4. (Line!Ids(v4) \cup Line!Coming)' = Line!Ids(v4) \cup Line!Coming BY <1>3, <1>5, <2>1, <2>3 DEF Line!Coming
    <3>5. Line!NothingBetween' BY <1>3, <1>5, <3>1, <3>3, <3>4 DEF Line!NothingBetween, Line!Nothing
    <3> QED BY <2>1, <3>1, <3>2, <3>5
  <2> QED BY <1>6, <1>7, <2>2, <2>4 DEF Line!LineInv
<1>10. CASE kind = "deleted"
  <2>1. /\ v4' \in Seq([id : DOMAIN v1, gone : BOOLEAN])
        /\ Line!Ids(v4') = Line!Ids(v4)
        /\ Line!Once(v4) => Line!Once(v4')
        /\ Line!Shown(TRUE) \cup ({i} \cap Line!Ids(v4)) \subseteq Line!Shown(TRUE)'
        /\ Line!Shown(FALSE)' \subseteq Line!Shown(FALSE) \ {i}
    BY <1>1, <1>2, <1>3, <1>10, RowMarked
  <2>2. Line!LineTypes' BY <1>1, <1>3, <1>8, <2>1, ScreenTyped
  <2>3. Line!Sent' = Line!Sent /\ Line!Withdrawn' = Line!Withdrawn \ {i} BY <1>4, <1>10
  <2>4. ASSUME ~v13' PROVE Line!Once(v4') /\ Line!DeletionsFollow' /\ Line!NothingBetween'
    <3>1. Line!Once(v4) /\ Line!DeletionsFollow /\ Line!NothingBetween BY <1>3, <2>4 DEF Line!LineInv
    <3>2. Line!DeletionsFollow' BY <1>3, <1>5, <2>1, <2>3, <3>1 DEF Line!DeletionsFollow
    <3>3. \A j : Line!Due(j)' <=> Line!Due(j) BY <1>3, <1>5, <2>1, <2>3 DEF Line!Due
    <3>4. (Line!Ids(v4) \cup Line!Coming)' = Line!Ids(v4) \cup Line!Coming BY <1>3, <1>5, <2>1, <2>3 DEF Line!Coming
    <3>5. Line!NothingBetween' BY <1>3, <1>5, <3>1, <3>3, <3>4 DEF Line!NothingBetween, Line!Nothing
    <3> QED BY <2>1, <3>1, <3>2, <3>5
  <2> QED BY <1>6, <1>7, <2>2, <2>4 DEF Line!LineInv
<1> QED BY <1>9, <1>10

LEMMA PeerWritesKeepsLine ==
  ASSUME Line!LineInv, Line!PeerWrites
  PROVE  Line!LineInv'
<1>1. Line!LineTypes /\ Line!FramesInOrder /\ Line!PagesApart BY DEF Line!LineInv
<1>0. PICK n \in Nat : n = Len(v1) + 1
  <2>1. Len(v1) \in Nat BY <1>1, ServerIs
  <2> QED BY <2>1
<1>2. /\ v1' = Append(v1, [by |-> "peer", state |-> "live"])
      /\ v2' = IF v10 = "open" THEN Append(v2, <<"new", n>>) ELSE v2
      /\ UNCHANGED <<v3, v4, v5, v6, v8, v9, v10, v11, v13>>
  BY <1>0 DEF Line!PeerWrites, Line!Tells
<1>3. /\ v1' \in Seq([by : {"me", "peer"}, state : {"live", "announced", "silent"}])
      /\ Len(v1)' = n /\ DOMAIN v1' = 1..n /\ Line!Live' = Line!Live \cup {n} /\ Line!Announced' = Line!Announced
      /\ Line!FromPeer' = Line!FromPeer \cup {n}
  <2>1. {i \in {n} : "peer" = "peer"} = {n} OBVIOUS
  <2> QED BY <1>0, <1>1, <1>2, <2>1, RowMade
<1>4. /\ Len(v1) \in Nat /\ DOMAIN v1 = 1..Len(v1) /\ Line!Live \subseteq 1..Len(v1)
      /\ Line!FromPeer \subseteq 1..Len(v1) /\ Line!Announced \subseteq 1..Len(v1)
  BY <1>1, ServerIs
<1>5. n \in Nat /\ DOMAIN v1 \subseteq DOMAIN v1' /\ n \in DOMAIN v1' /\ n \notin 1..Len(v1)
      /\ \A i \in 1..Len(v1) : i < n
  BY <1>0, <1>3, <1>4
<1>6. /\ Line!Sent' = Line!Sent /\ Line!Withdrawn' = Line!Withdrawn /\ Line!Page' = Line!Page /\ Line!Above' = Line!Above
      /\ \A g \in BOOLEAN : Line!Shown(g)' = Line!Shown(g)
  BY <1>1, <1>2, <1>5, AnswersStay, PagesStay, ScreenStays
<1>7. Line!OnWire' = Line!OnWire \cup {j \in {n} : v10 = "open"} /\ Line!Told' = Line!Told
  <2>1. CASE v10 = "open"
    <3>1. {j \in {n} : "new" = "new"} = {n} /\ {j \in {n} : "new" = "del"} = {} OBVIOUS
    <3>2. v2' = Append(v2, <<"new", n>>) BY <1>2, <2>1
    <3>3. Line!OnWire' = Line!OnWire \cup {j \in {n} : "new" = "new"} /\ Line!Told' = Line!Told \cup {j \in {n} : "new" = "del"}
      BY <1>1, <1>5, <3>2, FrameSent
    <3> QED BY <2>1, <3>1, <3>3
  <2>2. CASE v10 # "open"
    <3>1. Line!OnWire' = Line!OnWire /\ Line!Told' = Line!Told BY <1>1, <1>2, <1>5, <2>2, WireStays
    <3> QED BY <2>2, <3>1
  <2> QED BY <2>1, <2>2
<1>8. v9 \in 0..Len(v1) /\ v11 \subseteq 0..Len(v1) BY <1>1 DEF Line!LineTypes
<1>9. v9 < n /\ \A s \in v11 : s < n BY <1>0, <1>4, <1>8
<1>10. Line!LineTypes'
  <2>1. v2' \in Seq({"new", "del"} \X Line!FromPeer')
    <3> DEFINE T == {"new", "del"} \X Line!FromPeer'
    <3>1. v2 \in Seq({"new", "del"} \X Line!FromPeer) BY <1>1 DEF Line!LineTypes
    <3>2. {"new", "del"} \X Line!FromPeer \subseteq T BY <1>3
    <3>3. <<"new", n>> \in T BY <1>3
    <3> HIDE DEF T
    <3>4. v2 \in Seq(T) BY <3>1, <3>2, SeqWider
    <3>5. Append(v2, <<"new", n>>) \in Seq(T) BY <3>3, <3>4
    <3> QED BY <1>2, <3>4, <3>5 DEF T
  <2>2. {v4', Line!Page', Line!Above'} \subseteq Seq([id : DOMAIN v1', gone : BOOLEAN])
    <3>1. [id : DOMAIN v1, gone : BOOLEAN] \subseteq [id : DOMAIN v1', gone : BOOLEAN] BY <1>5
    <3>2. {v4, Line!Page, Line!Above} \subseteq Seq([id : DOMAIN v1, gone : BOOLEAN]) BY <1>1 DEF Line!LineTypes
    <3>3. Seq([id : DOMAIN v1, gone : BOOLEAN]) \subseteq Seq([id : DOMAIN v1', gone : BOOLEAN])
      BY <3>1, SeqWider
    <3> QED BY <1>2, <1>6, <3>2, <3>3
  <2>3. v3' \subseteq Line!FromPeer' /\ v8' \subseteq {"sent", "deleted"} \X (DOMAIN v1' \ Line!FromPeer')
    <3>1. DOMAIN v1 \ Line!FromPeer \subseteq DOMAIN v1' \ Line!FromPeer' BY <1>3, <1>4, <1>5
    <3>2. v3 \subseteq Line!FromPeer /\ v8 \subseteq {"sent", "deleted"} \X (DOMAIN v1 \ Line!FromPeer)
      BY <1>1 DEF Line!LineTypes
    <3> QED BY <1>2, <1>3, <3>1, <3>2
  <2>4. v9' \in 0..Len(v1)' /\ v11' \subseteq 0..Len(v1)' BY <1>0, <1>2, <1>3, <1>4, <1>8
  <2> QED BY <1>1, <1>2, <1>3, <1>6, <2>1, <2>2, <2>3, <2>4 DEF Line!LineTypes
<1>11. Line!FramesInOrder'
  <2>1. \A i \in Line!Live', s \in v11' : v9' < i => s < i
    <3>1. \A i \in Line!Live, s \in v11 : v9 < i => s < i BY <1>1 DEF Line!FramesInOrder
    <3> QED BY <1>2, <1>3, <1>9, <3>1
  <2>2. CASE v10 # "open"
    <3>1. v2 = <<>> /\ v2' = <<>> BY <1>1, <1>2, <2>2 DEF Line!FramesInOrder
    <3>2. DOMAIN v2' = {} BY <3>1
    <3> QED BY <2>1, <3>1, <3>2 DEF Line!FramesInOrder
  <2>3. CASE v10 = "open"
    <3> DEFINE L == Len(v2)
    <3>1. /\ L \in Nat /\ DOMAIN v2 = 1..L /\ DOMAIN v2' = 1..(L + 1)
          /\ \A k \in 1..L : v2'[k] = v2[k]
          /\ v2'[L + 1] = <<"new", n>>
      BY <1>1, <1>2, <1>5, <2>3, FrameSent
    <3> HIDE DEF L
    <3>2. \A k : k \in 1..(L + 1) <=> k \in 1..L \/ k = L + 1 BY <3>1
    <3>3. \A k \in 1..L : k < L + 1 /\ v2[k][2] \in 1..Len(v1)
      <4>1. \A k \in 1..L : v2[k] \in {"new", "del"} \X Line!FromPeer BY <1>1, <3>1, SeqItems DEF Line!LineTypes
      <4>2. \A k \in 1..L : k < L + 1 BY <3>1
      <4> QED BY <1>4, <4>1, <4>2
    <3>4. ASSUME NEW k \in 1..(L + 1), v2'[k][1] = "new"
          PROVE  /\ \A l \in 1..(L + 1) : k < l /\ v2'[l][1] = "new" => v2'[k][2] < v2'[l][2]
                 /\ v2'[k][2] \in Line!Announced => \E l \in 1..(L + 1) : k < l /\ v2'[l] = <<"del", v2'[k][2]>>
                 /\ \A s \in v11 : s < v2'[k][2]
      <4>1. CASE k = L + 1
        <5>1. v2'[k][2] = n /\ \A l \in 1..(L + 1) : ~(k < l) BY <3>1, <4>1
        <5>2. n \notin Line!Announced BY <1>4, <1>5
        <5> QED BY <1>9, <5>1, <5>2
      <4>2. CASE k \in 1..L
        <5>1. /\ \A l \in 1..L : k < l /\ v2[l][1] = "new" => v2[k][2] < v2[l][2]
              /\ v2[k][2] \in Line!Announced => \E l \in 1..L : k < l /\ v2[l] = <<"del", v2[k][2]>>
              /\ \A s \in v11 : s < v2[k][2]
          BY <1>1, <3>1, <3>4, <4>2 DEF Line!FramesInOrder
        <5>2. v2[k][2] < n BY <1>5, <3>3, <4>2
        <5>3. \A l \in 1..(L + 1) : k < l /\ v2'[l][1] = "new" => v2[k][2] < v2'[l][2]
          BY <3>1, <3>2, <5>1, <5>2
        <5>4. v2[k][2] \in Line!Announced => \E l \in 1..(L + 1) : k < l /\ v2'[l] = <<"del", v2[k][2]>>
          BY <3>1, <3>2, <5>1
        <5> QED BY <3>1, <4>2, <5>1, <5>3, <5>4
      <4> QED BY <3>2, <4>1, <4>2
    <3>5. v10' = "open" /\ v11' = v11 /\ Line!Announced' = Line!Announced BY <1>2, <1>3, <2>3
    <3> QED BY <2>1, <3>1, <3>4, <3>5 DEF Line!FramesInOrder
  <2> QED BY <2>2, <2>3
<1>12. Line!PagesApart' BY <1>1, <1>2, <1>6 DEF Line!PagesApart, Line!Nothing
<1>13. ASSUME ~v13' PROVE Line!Once(v4') /\ Line!DeletionsFollow' /\ Line!NothingBetween'
  <2>1. Line!Once(v4) /\ Line!DeletionsFollow /\ Line!NothingBetween BY <1>2, <1>13 DEF Line!LineInv
  <2>2. Line!Ids(v4') = Line!Ids(v4) /\ Line!Ids(Line!Page') = Line!Ids(Line!Page) /\ Line!Ids(Line!Above') = Line!Ids(Line!Above) BY <1>2, <1>6
  <2>3. Line!DeletionsFollow' BY <1>2, <1>3, <1>6, <1>7, <2>1, <2>2 DEF Line!DeletionsFollow
  <2>4. \A j : Line!Due(j) => Line!Due(j)' BY <1>2, <1>3, <1>6, <1>7, <2>2 DEF Line!Due
  <2>5. Line!Due(n)'
    <3>1. n \in Line!FromPeer' /\ v9' < n BY <1>2, <1>3, <1>9
    <3>2. v10' # "open" \/ n \in Line!OnWire' BY <1>2, <1>7
    <3> QED BY <3>1, <3>2 DEF Line!Due
  <2>6. (Line!Ids(v4) \cup Line!Coming)' \subseteq Line!Ids(v4) \cup Line!Coming \cup {n} BY <1>2, <1>6, <1>7 DEF Line!Coming
  <2>7. \A i \in Line!Live : ~(n <= i) BY <1>4, <1>5
  <2>8. Line!NothingBetween'
    <3>1. ASSUME v5' = Line!Nothing, NEW i \in Line!Live', NEW j \in (Line!Ids(v4) \cup Line!Coming)', j <= i PROVE Line!Due(i)'
      <4>1. CASE i = n BY <2>5, <4>1
      <4>2. CASE i \in Line!Live
        <5>1. j \in Line!Ids(v4) \cup Line!Coming BY <2>6, <2>7, <3>1, <4>2
        <5> QED BY <1>2, <2>1, <2>4, <3>1, <4>2, <5>1 DEF Line!NothingBetween
      <4> QED BY <1>3, <4>1, <4>2
    <3>2. ASSUME v5' = Line!Nothing, NEW i \in Line!Live', NEW j \in Line!Ids(Line!Above'), j <= i PROVE Line!Due(i)' \/ i \in Line!Ids(Line!Above')
      <4>1. CASE i = n BY <2>5, <4>1
      <4>2. CASE i \in Line!Live
        <5>1. Line!Due(i) \/ i \in Line!Ids(Line!Above) BY <1>2, <2>1, <2>2, <3>2, <4>2 DEF Line!NothingBetween
        <5> QED BY <2>2, <2>4, <5>1
      <4> QED BY <1>3, <4>1, <4>2
    <3>3. ASSUME v5'.at = "read", NEW i \in Line!Live'
          PROVE  Line!Due(i)' \/ (v5'.rows # <<>> /\ \A j \in Line!Ids(v5'.rows) : i < j)
      <4>1. CASE i = n BY <2>5, <4>1
      <4>2. CASE i \in Line!Live
        <5>1. Line!Due(i) \/ (v5.rows # <<>> /\ \A j \in Line!Ids(v5.rows) : i < j)
          BY <1>2, <2>1, <3>3, <4>2 DEF Line!NothingBetween
        <5> QED BY <1>2, <2>4, <5>1
      <4> QED BY <1>3, <4>1, <4>2
    <3> QED BY <3>1, <3>2, <3>3 DEF Line!NothingBetween, Line!Nothing
  <2> QED BY <1>2, <2>1, <2>3, <2>8
<1> QED BY <1>10, <1>11, <1>12, <1>13 DEF Line!LineInv

LEMMA SendKeepsLine ==
  ASSUME Line!LineInv, Line!Send
  PROVE  Line!LineInv'
<1>1. Line!LineTypes /\ Line!FramesInOrder /\ Line!PagesApart BY DEF Line!LineInv
<1>0. PICK n \in Nat : n = Len(v1) + 1
  <2>1. Len(v1) \in Nat BY <1>1, ServerIs
  <2> QED BY <2>1
<1>2. /\ v1' = Append(v1, [by |-> "me", state |-> "live"])
      /\ \/ v8' = v8 \cup {<<"sent", n>>} /\ v13' = v13
         \/ v13' = TRUE /\ v8' = v8
      /\ UNCHANGED <<v2, v3, v4, v5, v6, v9, v10, v11>>
  BY <1>0 DEF Line!Send
<1>3. /\ v1' \in Seq([by : {"me", "peer"}, state : {"live", "announced", "silent"}])
      /\ Len(v1)' = n /\ DOMAIN v1' = 1..n /\ Line!Live' = Line!Live \cup {n} /\ Line!Announced' = Line!Announced
      /\ Line!FromPeer' = Line!FromPeer
  <2>1. {i \in {n} : "me" = "peer"} = {} OBVIOUS
  <2> QED BY <1>0, <1>1, <1>2, <2>1, RowMade
<1>4. /\ Len(v1) \in Nat /\ DOMAIN v1 = 1..Len(v1) /\ Line!Live \subseteq 1..Len(v1)
      /\ Line!FromPeer \subseteq 1..Len(v1) /\ Line!Announced \subseteq 1..Len(v1)
  BY <1>1, ServerIs
<1>5. DOMAIN v1 \subseteq DOMAIN v1' /\ n \in DOMAIN v1' /\ n \notin 1..Len(v1)
      /\ \A i \in 1..Len(v1) : i < n
  BY <1>0, <1>3, <1>4
<1>6. /\ Line!OnWire' = Line!OnWire /\ Line!Told' = Line!Told /\ Line!Page' = Line!Page /\ Line!Above' = Line!Above
      /\ \A g \in BOOLEAN : Line!Shown(g)' = Line!Shown(g)
  BY <1>1, <1>2, <1>5, WireStays, PagesStay, ScreenStays
<1>7. v9 \in 0..Len(v1) /\ v11 \subseteq 0..Len(v1) BY <1>1 DEF Line!LineTypes
<1>8. \A s \in v11 : s < n BY <1>0, <1>4, <1>7
<1>9. Line!LineTypes'
  <2>1. {v4', Line!Page', Line!Above'} \subseteq Seq([id : DOMAIN v1', gone : BOOLEAN])
    <3>1. [id : DOMAIN v1, gone : BOOLEAN] \subseteq [id : DOMAIN v1', gone : BOOLEAN] BY <1>5
    <3>2. {v4, Line!Page, Line!Above} \subseteq Seq([id : DOMAIN v1, gone : BOOLEAN]) BY <1>1 DEF Line!LineTypes
    <3>3. Seq([id : DOMAIN v1, gone : BOOLEAN]) \subseteq Seq([id : DOMAIN v1', gone : BOOLEAN])
      BY <3>1, SeqWider
    <3> QED BY <1>2, <1>6, <3>2, <3>3
  <2>2. v8' \subseteq {"sent", "deleted"} \X (DOMAIN v1' \ Line!FromPeer')
    <3>1. DOMAIN v1 \ Line!FromPeer \subseteq DOMAIN v1' \ Line!FromPeer' BY <1>3, <1>5
    <3>2. v8 \subseteq {"sent", "deleted"} \X (DOMAIN v1 \ Line!FromPeer) BY <1>1 DEF Line!LineTypes
    <3>3. n \in DOMAIN v1' \ Line!FromPeer' BY <1>3, <1>4, <1>5
    <3> QED BY <1>2, <3>1, <3>2, <3>3
  <2>3. v9' \in 0..Len(v1)' /\ v11' \subseteq 0..Len(v1)' BY <1>0, <1>2, <1>3, <1>4, <1>7
  <2>4. v13' \in BOOLEAN BY <1>1, <1>2 DEF Line!LineTypes
  <2> QED BY <1>1, <1>2, <1>3, <1>6, <2>1, <2>2, <2>3, <2>4 DEF Line!LineTypes
<1>10. Line!FramesInOrder'
  <2>1. \A i \in Line!Live', s \in v11' : v9' < i => s < i
    <3>1. \A i \in Line!Live, s \in v11 : v9 < i => s < i BY <1>1 DEF Line!FramesInOrder
    <3> QED BY <1>2, <1>3, <1>8, <3>1
  <2> QED BY <1>1, <1>2, <1>3, <2>1 DEF Line!FramesInOrder
<1>11. Line!PagesApart' BY <1>1, <1>2, <1>6 DEF Line!PagesApart, Line!Nothing
<1>12. ASSUME ~v13' PROVE Line!Once(v4') /\ Line!DeletionsFollow' /\ Line!NothingBetween'
  <2>1. Line!Once(v4) /\ Line!DeletionsFollow /\ Line!NothingBetween BY <1>2, <1>12 DEF Line!LineInv
  <2>2. Line!Sent' = Line!Sent \cup {n} /\ Line!Withdrawn' = Line!Withdrawn
    <3>1. v8' = v8 \cup {<<"sent", n>>} BY <1>2, <1>12
    <3>2. Line!Sent' = Line!Sent \cup {j \in {n} : "sent" = "sent"} /\ Line!Withdrawn' = Line!Withdrawn \cup {j \in {n} : "sent" = "deleted"}
      BY <1>1, <1>5, <3>1, AnswerAwaited
    <3> QED BY <3>2
  <2>3. Line!Ids(v4') = Line!Ids(v4) /\ Line!Ids(Line!Page') = Line!Ids(Line!Page) /\ Line!Ids(Line!Above') = Line!Ids(Line!Above) BY <1>2, <1>6
  <2>4. n \notin Line!Announced BY <1>4, <1>5
  <2>5. Line!DeletionsFollow' BY <1>2, <1>3, <1>6, <2>1, <2>2, <2>3, <2>4 DEF Line!DeletionsFollow
  <2>6. \A j : Line!Due(j) => Line!Due(j)' BY <1>2, <1>3, <1>6, <2>2, <2>3 DEF Line!Due
  <2>7. Line!Due(n)' BY <2>2 DEF Line!Due
  <2>8. (Line!Ids(v4) \cup Line!Coming)' \subseteq Line!Ids(v4) \cup Line!Coming \cup {n} BY <1>2, <1>6, <2>2 DEF Line!Coming
  <2>9. \A i \in Line!Live : ~(n <= i) BY <1>4, <1>5
  <2>10. Line!NothingBetween'
    <3>1. ASSUME v5' = Line!Nothing, NEW i \in Line!Live', NEW j \in (Line!Ids(v4) \cup Line!Coming)', j <= i PROVE Line!Due(i)'
      <4>1. CASE i = n BY <2>7, <4>1
      <4>2. CASE i \in Line!Live
        <5>1. j \in Line!Ids(v4) \cup Line!Coming BY <2>8, <2>9, <3>1, <4>2
        <5> QED BY <1>2, <2>1, <2>6, <3>1, <4>2, <5>1 DEF Line!NothingBetween
      <4> QED BY <1>3, <4>1, <4>2
    <3>2. ASSUME v5' = Line!Nothing, NEW i \in Line!Live', NEW j \in Line!Ids(Line!Above'), j <= i PROVE Line!Due(i)' \/ i \in Line!Ids(Line!Above')
      <4>1. CASE i = n BY <2>7, <4>1
      <4>2. CASE i \in Line!Live
        <5>1. Line!Due(i) \/ i \in Line!Ids(Line!Above) BY <1>2, <2>1, <2>3, <3>2, <4>2 DEF Line!NothingBetween
        <5> QED BY <2>3, <2>6, <5>1
      <4> QED BY <1>3, <4>1, <4>2
    <3>3. ASSUME v5'.at = "read", NEW i \in Line!Live'
          PROVE  Line!Due(i)' \/ (v5'.rows # <<>> /\ \A j \in Line!Ids(v5'.rows) : i < j)
      <4>1. CASE i = n BY <2>7, <4>1
      <4>2. CASE i \in Line!Live
        <5>1. Line!Due(i) \/ (v5.rows # <<>> /\ \A j \in Line!Ids(v5.rows) : i < j)
          BY <1>2, <2>1, <3>3, <4>2 DEF Line!NothingBetween
        <5> QED BY <1>2, <2>6, <5>1
      <4> QED BY <1>3, <4>1, <4>2
    <3> QED BY <3>1, <3>2, <3>3 DEF Line!NothingBetween, Line!Nothing
  <2> QED BY <1>2, <2>1, <2>5, <2>10
<1> QED BY <1>9, <1>10, <1>11, <1>12 DEF Line!LineInv

(* A row that is withdrawn or expires: fewer live rows only.                *)
LEMMA FewerBetween ==
  ASSUME Line!NothingBetween, Line!Live' \subseteq Line!Live, Line!FromPeer' = Line!FromPeer, Line!OnWire' = Line!OnWire, Line!Sent' = Line!Sent,
         Line!Page' = Line!Page, Line!Above' = Line!Above,
         v4' = v4, v3' = v3, v5' = v5, v9' = v9, v10' = v10, v11' = v11
  PROVE  Line!NothingBetween'
<1>1. \A j : Line!Due(j)' <=> Line!Due(j) BY DEF Line!Due
<1>2. (Line!Ids(v4) \cup Line!Coming)' = Line!Ids(v4) \cup Line!Coming BY DEF Line!Coming
<1>3. ASSUME v5' = Line!Nothing, NEW i \in Line!Live', NEW j \in (Line!Ids(v4) \cup Line!Coming)', j <= i PROVE Line!Due(i)'
  BY <1>1, <1>2, <1>3 DEF Line!NothingBetween
<1>4. ASSUME v5' = Line!Nothing, NEW i \in Line!Live', NEW j \in Line!Ids(Line!Above'), j <= i PROVE Line!Due(i)' \/ i \in Line!Ids(Line!Above')
  <2>1. Line!Ids(Line!Above') = Line!Ids(Line!Above) OBVIOUS
  <2> QED BY <1>1, <1>4, <2>1 DEF Line!NothingBetween
<1>5. ASSUME v5'.at = "read", NEW i \in Line!Live'
      PROVE  Line!Due(i)' \/ (v5'.rows # <<>> /\ \A j \in Line!Ids(v5'.rows) : i < j)
  BY <1>1, <1>5 DEF Line!NothingBetween
<1> QED BY <1>3, <1>4, <1>5 DEF Line!NothingBetween, Line!Nothing

LEMMA WithdrawKeepsLine ==
  ASSUME Line!LineInv, NEW i, Line!Withdraw(i)
  PROVE  Line!LineInv'
<1>1. Line!LineTypes /\ Line!FramesInOrder /\ Line!PagesApart BY DEF Line!LineInv
<1>2. /\ i \in Line!Live \ Line!FromPeer /\ i \in Line!Ids(v4)
      /\ v1' = [v1 EXCEPT ![i].state = "announced"]
      /\ v8' = v8 \cup {<<"deleted", i>>}
      /\ v13' = (v13 \/ <<"sent", i>> \in v8)
      /\ UNCHANGED <<v2, v3, v4, v5, v6, v9, v10, v11>>
  BY DEF Line!Withdraw
<1>3. /\ v1' \in Seq([by : {"me", "peer"}, state : {"live", "announced", "silent"}])
      /\ Len(v1)' = Len(v1) /\ DOMAIN v1' = DOMAIN v1
      /\ Line!Live' = Line!Live \ {i} /\ Line!FromPeer' = Line!FromPeer /\ Line!Announced' = Line!Announced \cup {i}
  <2>1. {j \in {i} : "announced" = "announced"} = {i} OBVIOUS
  <2> QED BY <1>1, <1>2, <2>1, RowGone
<1>4. i \in DOMAIN v1 BY <1>1, <1>2, ServerIs
<1>5. Line!Sent' = Line!Sent /\ Line!Withdrawn' = Line!Withdrawn \cup {i}
  <2>1. Line!Sent' = Line!Sent \cup {j \in {i} : "deleted" = "sent"} /\ Line!Withdrawn' = Line!Withdrawn \cup {j \in {i} : "deleted" = "deleted"}
    BY <1>1, <1>2, <1>3, <1>4, AnswerAwaited
  <2> QED BY <2>1
<1>6. /\ Line!OnWire' = Line!OnWire /\ Line!Told' = Line!Told /\ Line!Page' = Line!Page /\ Line!Above' = Line!Above
      /\ \A g \in BOOLEAN : Line!Shown(g)' = Line!Shown(g)
  BY <1>1, <1>2, <1>3, WireStays, PagesStay, ScreenStays
<1>7. Line!LineTypes'
  <2>1. v8' \subseteq {"sent", "deleted"} \X (DOMAIN v1' \ Line!FromPeer')
    BY <1>1, <1>2, <1>3, <1>4 DEF Line!LineTypes
  <2>2. v13' \in BOOLEAN BY <1>1, <1>2 DEF Line!LineTypes
  <2> QED BY <1>1, <1>2, <1>3, <1>6, <2>1, <2>2 DEF Line!LineTypes
<1>8. Line!FramesInOrder'
  <2>1. \A k \in DOMAIN v2 : v2[k][2] \in Line!FromPeer BY <1>1, SeqItems DEF Line!LineTypes
  <2>2. \A k \in DOMAIN v2 : v2[k][2] \in Line!Announced' => v2[k][2] \in Line!Announced BY <1>2, <1>3, <2>1
  <2>3. \A j \in Line!Live', s \in v11' : v9' < j => s < j BY <1>1, <1>2, <1>3 DEF Line!FramesInOrder
  <2> QED BY <1>1, <1>2, <2>2, <2>3 DEF Line!FramesInOrder
<1>9. Line!PagesApart' BY <1>1, <1>2, <1>6 DEF Line!PagesApart, Line!Nothing
<1>10. ASSUME ~v13' PROVE Line!Once(v4') /\ Line!DeletionsFollow' /\ Line!NothingBetween'
  <2>1. Line!Once(v4) /\ Line!DeletionsFollow /\ Line!NothingBetween BY <1>2, <1>10 DEF Line!LineInv
  <2>2. i \notin Line!Sent BY <1>2, <1>10 DEF Line!Sent
  <2>3. i \notin v3 BY <1>1, <1>2 DEF Line!LineTypes
  <2>4. Line!Ids(v4') = Line!Ids(v4) /\ Line!Ids(Line!Page') = Line!Ids(Line!Page) /\ Line!Ids(Line!Above') = Line!Ids(Line!Above) BY <1>2, <1>6
  <2>5. Line!DeletionsFollow'
    <3>1. Line!Announced' \cap v3' \subseteq Line!Told' BY <1>2, <1>3, <1>6, <2>1, <2>3 DEF Line!DeletionsFollow
    <3>2. Line!Announced' \cap Line!Sent' = {} BY <1>3, <1>5, <2>1, <2>2 DEF Line!DeletionsFollow
    <3>3. Line!Announced' \cap Line!Shown(FALSE)' \subseteq Line!Told' \cup Line!Withdrawn'
      BY <1>3, <1>5, <1>6, <2>1 DEF Line!DeletionsFollow
    <3>4. Line!Announced' \cap Line!Ids(Line!Page') \subseteq Line!Told' \cup (Line!Withdrawn' \cap Line!Ids(v4')) \cup Line!Shown(TRUE)'
      <4>1. Line!Announced \cap Line!Ids(Line!Page) \subseteq Line!Told \cup (Line!Withdrawn \cap Line!Ids(v4)) \cup Line!Shown(TRUE)
        BY <2>1 DEF Line!DeletionsFollow
      <4>2. SUFFICES ASSUME NEW j \in Line!Announced', j \in Line!Ids(Line!Page')
                     PROVE  j \in Line!Told' \cup (Line!Withdrawn' \cap Line!Ids(v4')) \cup Line!Shown(TRUE)'
        OBVIOUS
      <4>3. CASE j = i BY <1>2, <1>5, <2>4, <4>3
      <4>4. CASE j \in Line!Announced
        <5>1. j \in Line!Told \cup (Line!Withdrawn \cap Line!Ids(v4)) \cup Line!Shown(TRUE) BY <2>4, <4>1, <4>2, <4>4
        <5> QED BY <1>5, <1>6, <2>4, <5>1
      <4> QED BY <1>3, <4>2, <4>3, <4>4
    <3>5. Line!Announced' \cap Line!Ids(Line!Above') \subseteq Line!Told' \cup Line!Ids(v4')
      <4>1. Line!Announced \cap Line!Ids(Line!Above) \subseteq Line!Told \cup Line!Ids(v4) BY <2>1 DEF Line!DeletionsFollow
      <4> QED BY <1>2, <1>3, <1>6, <2>4, <4>1
    <3> QED BY <3>1, <3>2, <3>3, <3>4, <3>5 DEF Line!DeletionsFollow
  <2>6. Line!NothingBetween' BY <1>2, <1>3, <1>5, <1>6, <2>1, FewerBetween
  <2> QED BY <1>2, <2>1, <2>5, <2>6
<1> QED BY <1>7, <1>8, <1>9, <1>10 DEF Line!LineInv

LEMMA RowGoesKeepsLine ==
  ASSUME Line!LineInv, NEW i, Line!RowGoes(i)
  PROVE  Line!LineInv'
<1>1. Line!LineTypes /\ Line!FramesInOrder /\ Line!PagesApart BY DEF Line!LineInv
<1>2. i \in Line!Live \cap Line!FromPeer /\ UNCHANGED <<v3, v4, v5, v6, v8, v9, v10, v11>>
  BY DEF Line!RowGoes
<1>3. i \in DOMAIN v1 BY <1>1, <1>2, ServerIs
<1>4. ASSUME v1' = [v1 EXCEPT ![i].state = "silent"], v2' = v2, v13' = v13
      PROVE  Line!LineInv'
  <2>1. /\ v1' \in Seq([by : {"me", "peer"}, state : {"live", "announced", "silent"}])
        /\ Len(v1)' = Len(v1) /\ DOMAIN v1' = DOMAIN v1
        /\ Line!Live' = Line!Live \ {i} /\ Line!FromPeer' = Line!FromPeer /\ Line!Announced' = Line!Announced
    <3>1. {j \in {i} : "silent" = "announced"} = {} OBVIOUS
    <3> QED BY <1>1, <1>2, <1>4, <3>1, RowGone
  <2>2. /\ Line!OnWire' = Line!OnWire /\ Line!Told' = Line!Told /\ Line!Page' = Line!Page /\ Line!Above' = Line!Above
        /\ Line!Sent' = Line!Sent /\ Line!Withdrawn' = Line!Withdrawn
        /\ \A g \in BOOLEAN : Line!Shown(g)' = Line!Shown(g)
    BY <1>1, <1>2, <1>4, <2>1, WireStays, PagesStay, AnswersStay, ScreenStays
  <2>3. Line!LineTypes' BY <1>1, <1>2, <1>4, <2>1, <2>2 DEF Line!LineTypes
  <2>4. Line!FramesInOrder' BY <1>1, <1>2, <1>4, <2>1, FramesStay
  <2>5. Line!PagesApart' BY <1>1, <1>2, <1>4, <2>2 DEF Line!PagesApart, Line!Nothing
  <2>6. ASSUME ~v13' PROVE Line!Once(v4') /\ Line!DeletionsFollow' /\ Line!NothingBetween'
    <3>1. Line!Once(v4) /\ Line!DeletionsFollow /\ Line!NothingBetween BY <1>4, <2>6 DEF Line!LineInv
    <3>2. Line!NothingBetween' BY <1>2, <2>1, <2>2, <3>1, FewerBetween
    <3>3. Line!DeletionsFollow' BY <1>2, <2>1, <2>2, <3>1 DEF Line!DeletionsFollow
    <3> QED BY <1>2, <3>1, <3>2, <3>3
  <2> QED BY <2>3, <2>4, <2>5, <2>6 DEF Line!LineInv
<1>5. ASSUME v1' = [v1 EXCEPT ![i].state = "announced"],
             v2' = IF v10 = "open" THEN Append(v2, <<"del", i>>) ELSE v2,
             v13' = (v13 \/ v10 # "open")
      PROVE  Line!LineInv'
  <2>1. /\ v1' \in Seq([by : {"me", "peer"}, state : {"live", "announced", "silent"}])
        /\ Len(v1)' = Len(v1) /\ DOMAIN v1' = DOMAIN v1
        /\ Line!Live' = Line!Live \ {i} /\ Line!FromPeer' = Line!FromPeer /\ Line!Announced' = Line!Announced \cup {i}
    <3>1. {j \in {i} : "announced" = "announced"} = {i} OBVIOUS
    <3> QED BY <1>1, <1>2, <1>5, <3>1, RowGone
  <2>2. /\ Line!Page' = Line!Page /\ Line!Above' = Line!Above /\ Line!Sent' = Line!Sent /\ Line!Withdrawn' = Line!Withdrawn
        /\ \A g \in BOOLEAN : Line!Shown(g)' = Line!Shown(g)
    BY <1>1, <1>2, <1>5, <2>1, PagesStay, AnswersStay, ScreenStays
  <2> DEFINE L == Len(v2)
  <2>3. CASE v10 = "open"
    <3>1. v2' = Append(v2, <<"del", i>>) BY <1>5, <2>3
    <3>2. /\ Line!OnWire' = Line!OnWire \cup {j \in {i} : "del" = "new"}
          /\ Line!Told' = Line!Told \cup {j \in {i} : "del" = "del"}
          /\ L \in Nat /\ DOMAIN v2 = 1..L /\ DOMAIN v2' = 1..(L + 1)
          /\ \A k \in 1..L : v2'[k] = v2[k]
          /\ v2'[L + 1] = <<"del", i>>
      BY <1>1, <1>3, <2>1, <3>1, FrameSent
    <3> HIDE DEF L
    <3>3. Line!OnWire' = Line!OnWire /\ Line!Told' = Line!Told \cup {i} BY <3>2
    <3>4. Line!LineTypes'
      <4>1. v2' \in Seq({"new", "del"} \X Line!FromPeer)
        <5> DEFINE T == {"new", "del"} \X Line!FromPeer
        <5>1. v2 \in Seq(T) BY <1>1 DEF Line!LineTypes
        <5>2. <<"del", i>> \in T BY <1>2
        <5> HIDE DEF T
        <5>3. Append(v2, <<"del", i>>) \in Seq(T) BY <5>1, <5>2
        <5> QED BY <3>1, <5>3 DEF T
      <4>2. v13' \in BOOLEAN BY <1>1, <1>5 DEF Line!LineTypes
      <4> QED BY <1>1, <1>2, <2>1, <2>2, <4>1, <4>2 DEF Line!LineTypes
    <3>5. Line!FramesInOrder'
      <4>1. \A k : k \in 1..(L + 1) <=> k \in 1..L \/ k = L + 1 BY <3>2
      <4>2. \A k \in 1..L : k < L + 1 BY <3>2
      <4>3. v2'[L + 1][1] # "new" BY <3>2
      <4>4. ASSUME NEW k \in 1..(L + 1), v2'[k][1] = "new"
            PROVE  /\ \A l \in 1..(L + 1) : k < l /\ v2'[l][1] = "new" => v2'[k][2] < v2'[l][2]
                   /\ v2'[k][2] \in Line!Announced' => \E l \in 1..(L + 1) : k < l /\ v2'[l] = <<"del", v2'[k][2]>>
                   /\ \A s \in v11 : s < v2'[k][2]
        <5>1. k \in 1..L /\ v2'[k] = v2[k] BY <3>2, <4>1, <4>3, <4>4
        <5>2. /\ \A l \in 1..L : k < l /\ v2[l][1] = "new" => v2[k][2] < v2[l][2]
              /\ v2[k][2] \in Line!Announced => \E l \in 1..L : k < l /\ v2[l] = <<"del", v2[k][2]>>
              /\ \A s \in v11 : s < v2[k][2]
          BY <1>1, <3>2, <4>4, <5>1 DEF Line!FramesInOrder
        <5>3. \A l \in 1..(L + 1) : k < l /\ v2'[l][1] = "new" => v2[k][2] < v2'[l][2]
          BY <3>2, <4>1, <4>3, <5>2
        <5>4. ASSUME v2[k][2] \in Line!Announced'
              PROVE  \E l \in 1..(L + 1) : k < l /\ v2'[l] = <<"del", v2[k][2]>>
          <6>1. CASE v2[k][2] = i BY <3>2, <4>1, <4>2, <5>1, <6>1
          <6>2. CASE v2[k][2] \in Line!Announced BY <3>2, <4>1, <5>2, <6>2
          <6> QED BY <2>1, <5>4, <6>1, <6>2
        <5> QED BY <5>1, <5>2, <5>3, <5>4
      <4>5. \A j \in Line!Live', s \in v11' : v9' < j => s < j BY <1>1, <1>2, <2>1 DEF Line!FramesInOrder
      <4>6. v10' = "open" /\ v11' = v11 BY <1>2, <2>3
      <4> QED BY <3>2, <4>4, <4>5, <4>6 DEF Line!FramesInOrder
    <3>6. Line!PagesApart' BY <1>1, <1>2, <1>5, <2>2 DEF Line!PagesApart, Line!Nothing
    <3>7. ASSUME ~v13' PROVE Line!Once(v4') /\ Line!DeletionsFollow' /\ Line!NothingBetween'
      <4>1. Line!Once(v4) /\ Line!DeletionsFollow /\ Line!NothingBetween BY <1>5, <3>7 DEF Line!LineInv
      <4>2. Line!NothingBetween' BY <1>2, <2>1, <2>2, <3>3, <4>1, FewerBetween
      <4>3. i \notin Line!Sent BY <1>1, <1>2, ComesFrom
      <4>4. Line!Ids(v4') = Line!Ids(v4) /\ Line!Ids(Line!Page') = Line!Ids(Line!Page) /\ Line!Ids(Line!Above') = Line!Ids(Line!Above) BY <1>2, <2>2
      <4>5. Line!DeletionsFollow'
        <5>1. Line!Announced' \cap v3' \subseteq Line!Told' BY <1>2, <2>1, <3>3, <4>1 DEF Line!DeletionsFollow
        <5>2. Line!Announced' \cap Line!Sent' = {} BY <2>1, <2>2, <4>1, <4>3 DEF Line!DeletionsFollow
        <5>3. Line!Announced' \cap Line!Shown(FALSE)' \subseteq Line!Told' \cup Line!Withdrawn'
          BY <2>1, <2>2, <3>3, <4>1 DEF Line!DeletionsFollow
        <5>4. ASSUME NEW j \in Line!Announced', j \in Line!Ids(Line!Page')
              PROVE  j \in Line!Told' \cup (Line!Withdrawn' \cap Line!Ids(v4')) \cup Line!Shown(TRUE)'
          <6>1. CASE j = i BY <3>3, <6>1
          <6>2. CASE j \in Line!Announced
            <7>1. j \in Line!Told \cup (Line!Withdrawn \cap Line!Ids(v4)) \cup Line!Shown(TRUE)
              BY <4>1, <4>4, <5>4, <6>2 DEF Line!DeletionsFollow
            <7> QED BY <2>2, <3>3, <4>4, <7>1
          <6> QED BY <2>1, <5>4, <6>1, <6>2
        <5>5. Line!Announced' \cap Line!Ids(Line!Above') \subseteq Line!Told' \cup Line!Ids(v4')
          BY <2>1, <3>3, <4>1, <4>4 DEF Line!DeletionsFollow
        <5> QED BY <5>1, <5>2, <5>3, <5>4, <5>5 DEF Line!DeletionsFollow
      <4> QED BY <1>2, <4>1, <4>2, <4>5
    <3> QED BY <3>4, <3>5, <3>6, <3>7 DEF Line!LineInv
  <2>4. CASE v10 # "open"
    <3>1. v2' = v2 /\ v13' = TRUE BY <1>5, <2>4
    <3>2. Line!LineTypes' BY <1>1, <1>2, <2>1, <2>2, <3>1 DEF Line!LineTypes
    <3>3. v2 = <<>> /\ DOMAIN v2' = {} BY <1>1, <2>4, <3>1 DEF Line!FramesInOrder
    <3>4. \A j \in Line!Live', s \in v11' : v9' < j => s < j BY <1>1, <1>2, <2>1 DEF Line!FramesInOrder
    <3>5. Line!FramesInOrder' BY <3>1, <3>3, <3>4 DEF Line!FramesInOrder
    <3>6. Line!PagesApart' BY <1>1, <2>2, <3>1 DEF Line!PagesApart
    <3> QED BY <3>1, <3>2, <3>5, <3>6 DEF Line!LineInv
  <2> QED BY <2>3, <2>4
<1>6. \/ v1' = [v1 EXCEPT ![i].state = "silent"] /\ v2' = v2 /\ v13' = v13
      \/ /\ v1' = [v1 EXCEPT ![i].state = "announced"]
         /\ v2' = IF v10 = "open" THEN Append(v2, <<"del", i>>) ELSE v2
         /\ v13' = (v13 \/ v10 # "open")
  BY DEF Line!RowGoes, Line!Tells
<1> QED BY <1>4, <1>5, <1>6

LEMMA HearKeepsLine ==
  ASSUME Line!LineInv, Line!Hear
  PROVE  Line!LineInv'
<1>1. Line!LineTypes /\ Line!FramesInOrder /\ Line!PagesApart BY DEF Line!LineInv
<1>2. v2 # <<>> /\ v2' = Tail(v2) /\ UNCHANGED <<v1, v5, v6, v8, v10, v11>>
  BY DEF Line!Hear
<1> DEFINE L == Len(v2) - 1
<1>3. PICK i : i = v2[1][2] OBVIOUS
<1>4. /\ Len(v2) \in Nat \ {0} /\ DOMAIN v2 = 1..Len(v2) /\ DOMAIN v2' = 1..L
      /\ \A k \in 1..L : v2'[k] = v2[k + 1]
      /\ v2[1] = Head(v2) /\ v2[1] \in {"new", "del"} \X Line!FromPeer
      /\ v2' \in Seq({"new", "del"} \X Line!FromPeer)
      /\ Line!OnWire = Line!OnWire' \cup {j \in {i} : v2[1][1] = "new"}
      /\ Line!Told = Line!Told' \cup {j \in {i} : v2[1][1] = "del"}
  BY <1>1, <1>2, <1>3, FrameHeard
<1>5. /\ Line!Live' = Line!Live /\ Line!FromPeer' = Line!FromPeer /\ Line!Announced' = Line!Announced
      /\ Line!Sent' = Line!Sent /\ Line!Withdrawn' = Line!Withdrawn /\ Line!Page' = Line!Page /\ Line!Above' = Line!Above
  BY <1>1, <1>2, RowsStay, AnswersStay, PagesStay
<1>6. i \in Line!FromPeer /\ i \in DOMAIN v1 BY <1>3, <1>4 DEF Line!FromPeer
<1>7. v2 # <<>> => v10 = "open" BY <1>1 DEF Line!FramesInOrder
<1>8. L \in Nat /\ \A k \in 1..L : k + 1 \in DOMAIN v2 /\ 1 < k + 1 BY <1>4
<1>9. \A k, l \in 1..L : k < l => k + 1 < l + 1 BY <1>8
<1>10. ASSUME NEW k \in 1..L, v2'[k][1] = "new"
       PROVE  /\ \A l \in 1..L : k < l /\ v2'[l][1] = "new" => v2'[k][2] < v2'[l][2]
              /\ v2'[k][2] \in Line!Announced => \E l \in 1..L : k < l /\ v2'[l] = <<"del", v2'[k][2]>>
              /\ \A s \in v11 : s < v2'[k][2]
  <2>1. PICK m \in DOMAIN v2 : m = k + 1 /\ v2'[k] = v2[m] BY <1>4, <1>8
  <2>2. /\ \A l \in DOMAIN v2 : m < l /\ v2[l][1] = "new" => v2[m][2] < v2[l][2]
        /\ v2[m][2] \in Line!Announced => \E l \in DOMAIN v2 : m < l /\ v2[l] = <<"del", v2[m][2]>>
        /\ \A s \in v11 : s < v2[m][2]
    BY <1>1, <1>10, <2>1 DEF Line!FramesInOrder
  <2>3. \A l \in 1..L : k < l /\ v2'[l][1] = "new" => v2'[k][2] < v2'[l][2]
    BY <1>4, <1>8, <1>9, <2>1, <2>2
  <2>4. ASSUME v2'[k][2] \in Line!Announced
        PROVE  \E l \in 1..L : k < l /\ v2'[l] = <<"del", v2'[k][2]>>
    <3>1. PICK l \in DOMAIN v2 : m < l /\ v2[l] = <<"del", v2[m][2]>> BY <2>1, <2>2, <2>4
    <3>2. l - 1 \in 1..L /\ k < l - 1 /\ (l - 1) + 1 = l BY <1>4, <2>1, <3>1
    <3> QED BY <1>4, <2>1, <3>1, <3>2
  <2> QED BY <2>1, <2>2, <2>3, <2>4
<1>11. ASSUME v9' = v9 \/ (v2[1][1] = "new" /\ v9' = i)
       PROVE  \A j \in Line!Live, s \in v11 : v9' < j => s < j
  <2>1. CASE v9' = v9 BY <1>1, <2>1 DEF Line!FramesInOrder
  <2>2. CASE v2[1][1] = "new" /\ v9' = i
    <3>1. 1 \in DOMAIN v2 BY <1>4
    <3>2. \A s \in v11 : s < i BY <1>1, <1>3, <2>2, <3>1 DEF Line!FramesInOrder
    <3>3. v11 \subseteq 0..Len(v1) BY <1>1 DEF Line!LineTypes
    <3>4. Len(v1) \in Nat /\ Line!Live \subseteq 1..Len(v1) /\ i \in 1..Len(v1) BY <1>1, <1>6, ServerIs
    <3> QED BY <2>2, <3>2, <3>3, <3>4
  <2> QED BY <1>11, <2>1, <2>2
<1>12. ASSUME v9' = v9 \/ (v2[1][1] = "new" /\ v9' = i)
       PROVE  Line!FramesInOrder'
  <2>1. v10' = "open" /\ v11' = v11 /\ Line!Announced' = Line!Announced /\ Line!Live' = Line!Live /\ DOMAIN v2' = 1..L
    BY <1>2, <1>4, <1>5, <1>7
  <2> HIDE DEF L
  <2> QED BY <1>10, <1>11, <1>12, <2>1 DEF Line!FramesInOrder
<1>13. CASE v2[1][1] = "new"
  <2>1. v3' = v3 \cup {i} /\ v9' = i /\ v4' = v4 /\ v13' = v13
    BY <1>2, <1>3, <1>4, <1>13 DEF Line!Hear
  <2>2. Line!OnWire = Line!OnWire' \cup {i} /\ Line!Told' = Line!Told BY <1>4, <1>13
  <2>3. \A g \in BOOLEAN : Line!Shown(g)' = Line!Shown(g) BY <1>1, <1>2, <2>1, ScreenStays
  <2>4. Line!LineTypes'
    <3>1. v9' \in 0..Len(v1) BY <1>1, <1>6, <2>1, ServerIs
    <3> QED BY <1>1, <1>2, <1>4, <1>5, <1>6, <2>1, <3>1 DEF Line!LineTypes
  <2>5. Line!FramesInOrder' BY <1>12, <1>13, <2>1
  <2>6. Line!PagesApart' BY <1>1, <1>2, <1>5, <2>1 DEF Line!PagesApart, Line!Nothing
  <2>7. ASSUME ~v13' PROVE Line!Once(v4') /\ Line!DeletionsFollow' /\ Line!NothingBetween'
    <3>1. Line!Once(v4) /\ Line!DeletionsFollow /\ Line!NothingBetween BY <2>1, <2>7 DEF Line!LineInv
    <3>2. i \in Line!Announced => i \in Line!Told
      <4>1. 1 \in DOMAIN v2 BY <1>4
      <4>2. i \in Line!Announced => \E l \in DOMAIN v2 : v2[l] = <<"del", i>> BY <1>1, <1>3, <1>13, <4>1 DEF Line!FramesInOrder
      <4> QED BY <1>6, <4>2 DEF Line!Told, Line!Range
    <3>3. Line!Ids(v4') = Line!Ids(v4) /\ Line!Ids(Line!Page') = Line!Ids(Line!Page) /\ Line!Ids(Line!Above') = Line!Ids(Line!Above) BY <1>5, <2>1
    <3>4. Line!DeletionsFollow' BY <1>5, <2>1, <2>2, <2>3, <3>1, <3>2, <3>3 DEF Line!DeletionsFollow
    <3>5. \A j \in Line!OnWire' : i < j
      <4>1. ASSUME NEW j \in Line!OnWire' PROVE i < j
        <5>1. PICK k \in 1..L : v2'[k] = <<"new", j>> BY <1>4, <4>1 DEF Line!OnWire, Line!Range
        <5>2. v2[k + 1] = <<"new", j>> /\ k + 1 \in DOMAIN v2 /\ 1 < k + 1 /\ 1 \in DOMAIN v2
          BY <1>4, <1>8, <5>1
        <5> QED BY <1>1, <1>3, <1>13, <5>2 DEF Line!FramesInOrder
      <4> QED BY <4>1
    <3>6. \A j : Line!Due(j) => Line!Due(j)'
      <4> TAKE j
      <4>1. v10 = "open" /\ v10' = v10 BY <1>2, <1>7
      <4>2. CASE j \in Line!OnWire /\ j \in Line!FromPeer
        <5>1. j = i \/ (j \in Line!OnWire' /\ v9' < j) BY <2>1, <2>2, <3>5, <4>2
        <5> QED BY <1>5, <2>1, <4>2, <5>1 DEF Line!Due
      <4>3. CASE ~(j \in Line!OnWire /\ j \in Line!FromPeer)
        BY <1>2, <1>5, <2>1, <3>3, <4>1, <4>3 DEF Line!Due
      <4> QED BY <4>2, <4>3
    <3>7. (Line!Ids(v4) \cup Line!Coming)' = Line!Ids(v4) \cup Line!Coming BY <1>5, <2>1, <2>2 DEF Line!Coming
    <3>8. Line!NothingBetween'
      <4>1. ASSUME v5' = Line!Nothing, NEW h \in Line!Live', NEW j \in (Line!Ids(v4) \cup Line!Coming)', j <= h PROVE Line!Due(h)'
        BY <1>2, <1>5, <3>1, <3>6, <3>7, <4>1 DEF Line!NothingBetween
      <4>2. ASSUME v5' = Line!Nothing, NEW h \in Line!Live', NEW j \in Line!Ids(Line!Above'), j <= h PROVE Line!Due(h)' \/ h \in Line!Ids(Line!Above')
        BY <1>2, <1>5, <3>1, <3>3, <3>6, <4>2 DEF Line!NothingBetween
      <4>3. ASSUME v5'.at = "read", NEW h \in Line!Live'
            PROVE  Line!Due(h)' \/ (v5'.rows # <<>> /\ \A j \in Line!Ids(v5'.rows) : h < j)
        BY <1>2, <1>5, <3>1, <3>6, <4>3 DEF Line!NothingBetween
      <4> QED BY <4>1, <4>2, <4>3 DEF Line!NothingBetween, Line!Nothing
    <3> QED BY <2>1, <3>1, <3>4, <3>8
  <2> QED BY <2>4, <2>5, <2>6, <2>7 DEF Line!LineInv
<1>14. CASE v2[1][1] = "del"
  <2>1. /\ v4' = Line!Deleted(v4, i) /\ v3' = v3 /\ v9' = v9
        /\ v13' = (v13 \/ i \in v3 \/ v5.at = "read" \/ v6.at = "read")
    BY <1>2, <1>3, <1>4, <1>14 DEF Line!Hear
  <2>2. Line!OnWire' = Line!OnWire /\ Line!Told = Line!Told' \cup {i} BY <1>4, <1>14
  <2>3. /\ v4' \in Seq([id : DOMAIN v1, gone : BOOLEAN])
        /\ Line!Ids(v4') = Line!Ids(v4)
        /\ Line!Once(v4) => Line!Once(v4')
        /\ Line!Shown(TRUE) \cup ({i} \cap Line!Ids(v4)) \subseteq Line!Shown(TRUE)'
        /\ Line!Shown(FALSE)' \subseteq Line!Shown(FALSE) \ {i}
    BY <1>1, <1>2, <1>6, <2>1, RowMarked
  <2>4. Line!LineTypes'
    <3>1. v13' \in BOOLEAN BY <1>1, <2>1 DEF Line!LineTypes
    <3> QED BY <1>1, <1>2, <1>4, <1>5, <2>1, <2>3, <3>1 DEF Line!LineTypes
  <2>5. Line!FramesInOrder' BY <1>12, <2>1
  <2>6. Line!PagesApart' BY <1>1, <1>2, <1>5, <2>1 DEF Line!PagesApart, Line!Nothing
  <2>7. ASSUME ~v13' PROVE Line!Once(v4') /\ Line!DeletionsFollow' /\ Line!NothingBetween'
    <3>1. Line!Once(v4) /\ Line!DeletionsFollow /\ Line!NothingBetween /\ i \notin v3 BY <2>1, <2>7 DEF Line!LineInv
    <3>2. Line!Page' = <<>> /\ Line!Above' = <<>> BY <1>5, <2>1, <2>7 DEF Line!Page, Line!Above
    <3>3. Line!Ids(Line!Page') = {} /\ Line!Ids(Line!Above') = {} BY <3>2 DEF Line!Ids
    <3>4. Line!DeletionsFollow' BY <1>5, <2>1, <2>2, <2>3, <3>1, <3>3 DEF Line!DeletionsFollow
    <3>5. \A j : Line!Due(j)' <=> Line!Due(j) BY <1>2, <1>5, <2>1, <2>2, <2>3 DEF Line!Due
    <3>6. (Line!Ids(v4) \cup Line!Coming)' = Line!Ids(v4) \cup Line!Coming BY <1>5, <2>1, <2>2, <2>3 DEF Line!Coming
    <3>7. Line!NothingBetween'
      <4>1. ASSUME v5' = Line!Nothing, NEW h \in Line!Live', NEW j \in (Line!Ids(v4) \cup Line!Coming)', j <= h PROVE Line!Due(h)'
        BY <1>2, <1>5, <3>1, <3>5, <3>6, <4>1 DEF Line!NothingBetween
      <4>2. ASSUME v5' = Line!Nothing, NEW h \in Line!Live', NEW j \in Line!Ids(Line!Above'), j <= h PROVE Line!Due(h)' \/ h \in Line!Ids(Line!Above')
        BY <3>3, <4>2
      <4>3. ASSUME v5'.at = "read", NEW h \in Line!Live'
            PROVE  Line!Due(h)' \/ (v5'.rows # <<>> /\ \A j \in Line!Ids(v5'.rows) : h < j)
        BY <1>2, <1>5, <3>1, <3>5, <4>3 DEF Line!NothingBetween
      <4> QED BY <4>1, <4>2, <4>3 DEF Line!NothingBetween, Line!Nothing
    <3> QED BY <2>3, <3>1, <3>4, <3>7
  <2> QED BY <2>4, <2>5, <2>6, <2>7 DEF Line!LineInv
<1> QED BY <1>4, <1>13, <1>14

LEMMA OpenHistoryKeepsLine ==
  ASSUME Line!LineInv, Line!OpenHistory
  PROVE  Line!LineInv'
<1>1. Line!LineTypes /\ Line!FramesInOrder /\ Line!PagesApart BY DEF Line!LineInv
<1>2. /\ v5 = Line!Nothing /\ v5' = [at |-> "asked"] /\ v4' = <<>>
      /\ v13' = (v6 # Line!Nothing \/ (v13 /\ (v3 # {} \/ v8 # {})))
      /\ UNCHANGED <<v1, v2, v3, v6, v8, v9, v10, v11>>
  BY DEF Line!OpenHistory
<1>3. /\ Line!Live' = Line!Live /\ Line!FromPeer' = Line!FromPeer /\ Line!Announced' = Line!Announced
      /\ Line!OnWire' = Line!OnWire /\ Line!Told' = Line!Told /\ Line!Sent' = Line!Sent /\ Line!Withdrawn' = Line!Withdrawn
  BY <1>1, <1>2, RowsStay, WireStays, AnswersStay
<1>4. Line!Page = <<>> /\ Line!Page' = <<>> /\ Line!Above' = Line!Above BY <1>2 DEF Line!Page, Line!Above, Line!Nothing
<1>5. Line!Ids(v4') = {} /\ Line!Ids(Line!Page') = {} /\ Line!Shown(FALSE)' = {} /\ Line!Once(v4')
  BY <1>2, <1>4 DEF Line!Ids, Line!Shown, Line!Range, Line!Once
<1>6. Line!LineTypes'
  <2>1. v13' \in BOOLEAN BY <1>1, <1>2 DEF Line!LineTypes
  <2>2. \A T : <<>> \in Seq(T) OBVIOUS
  <2>3. {v4', Line!Page', Line!Above'} \subseteq Seq([id : DOMAIN v1', gone : BOOLEAN])
    BY <1>1, <1>2, <1>4, <2>2 DEF Line!LineTypes
  <2> QED BY <1>1, <1>2, <1>3, <1>4, <2>1, <2>3 DEF Line!LineTypes
<1>7. Line!FramesInOrder' BY <1>1, <1>2, <1>3, FramesStay
<1>8. Line!PagesApart' BY <1>1, <1>2, <1>4 DEF Line!PagesApart, Line!Nothing
<1>9. ASSUME ~v13' PROVE Line!Once(v4') /\ Line!DeletionsFollow' /\ Line!NothingBetween'
  <2>1. v6 = Line!Nothing /\ (~v13 \/ (v3 = {} /\ v8 = {})) BY <1>2, <1>9
  <2>2. Line!Above' = <<>> /\ Line!Ids(Line!Above') = {} BY <1>4, <2>1 DEF Line!Above, Line!Nothing, Line!Ids
  <2>3. Line!Announced \cap v3 \subseteq Line!Told /\ Line!Announced \cap Line!Sent = {}
    <3>1. CASE ~v13 BY <3>1 DEF Line!LineInv, Line!DeletionsFollow
    <3>2. CASE v3 = {} /\ v8 = {} BY <3>2 DEF Line!Sent
    <3> QED BY <2>1, <3>1, <3>2
  <2>4. Line!DeletionsFollow' BY <1>2, <1>3, <1>5, <2>2, <2>3 DEF Line!DeletionsFollow
  <2>5. Line!NothingBetween' BY <1>2 DEF Line!NothingBetween, Line!Nothing
  <2> QED BY <1>5, <2>4, <2>5
<1> QED BY <1>6, <1>7, <1>8, <1>9 DEF Line!LineInv

LEMMA LoadReadKeepsLine ==
  ASSUME Line!LineInv, Line!LoadRead
  PROVE  Line!LineInv'
<1>1. Line!LineTypes /\ Line!FramesInOrder /\ Line!PagesApart BY DEF Line!LineInv
<1>2. /\ v5.at = "asked" /\ v5' = [at |-> "read", rows |-> Line!History(0)]
      /\ UNCHANGED <<v1, v2, v3, v4, v6, v8, v9, v10, v11, v13>>
  BY DEF Line!LoadRead
<1>3. /\ Line!Live' = Line!Live /\ Line!FromPeer' = Line!FromPeer /\ Line!Announced' = Line!Announced
      /\ Line!OnWire' = Line!OnWire /\ Line!Told' = Line!Told /\ Line!Sent' = Line!Sent /\ Line!Withdrawn' = Line!Withdrawn
      /\ \A g \in BOOLEAN : Line!Shown(g)' = Line!Shown(g)
  BY <1>1, <1>2, RowsStay, WireStays, AnswersStay, ScreenStays
<1> DEFINE h == Line!History(0)
<1>4. /\ h \in Seq([id : DOMAIN v1, gone : BOOLEAN]) /\ Line!Once(h)
      /\ Line!Ids(h) = {i \in Line!Live : 0 <= Line!Newer(i) /\ Line!Newer(i) < 0 + PageSize}
  BY <1>1, HistoryIs
<1>5. v5'.at = "read" /\ v5'.rows = h BY <1>2
<1>6. Line!Page' = h /\ Line!Above' = Line!Above BY <1>2, <1>5 DEF Line!Page, Line!Above
<1> HIDE DEF h
<1>7. v5 # Line!Nothing /\ v5' # Line!Nothing /\ Line!Page = <<>> BY <1>2 DEF Line!Nothing, Line!Page
<1>8. Line!LineTypes'
  <2>1. v5' = [at |-> "read", rows |-> Line!Page'] BY <1>2, <1>6 DEF h
  <2>2. {v4', Line!Page', Line!Above'} \subseteq Seq([id : DOMAIN v1', gone : BOOLEAN])
    BY <1>1, <1>2, <1>4, <1>6 DEF Line!LineTypes
  <2> QED BY <1>1, <1>2, <1>3, <1>6, <2>1, <2>2 DEF Line!LineTypes
<1>9. Line!FramesInOrder' BY <1>1, <1>2, <1>3, FramesStay
<1>10. Line!PagesApart' BY <1>1, <1>2, <1>4, <1>6, <1>7 DEF Line!PagesApart, Line!Nothing
<1>11. ASSUME ~v13' PROVE Line!Once(v4') /\ Line!DeletionsFollow' /\ Line!NothingBetween'
  <2>1. Line!Once(v4) /\ Line!DeletionsFollow /\ Line!NothingBetween BY <1>2, <1>11 DEF Line!LineInv
  <2>2. Line!Announced \cap Line!Ids(h) = {} BY <1>1, <1>4, ServerIs
  <2>3. Line!Ids(v4') = Line!Ids(v4) /\ Line!Ids(Line!Page') = Line!Ids(h) /\ Line!Ids(Line!Above') = Line!Ids(Line!Above) BY <1>2, <1>6
  <2>4. Line!DeletionsFollow' BY <1>2, <1>3, <2>1, <2>2, <2>3 DEF Line!DeletionsFollow
  <2>5. ASSUME NEW i \in Line!Live, i \notin Line!Ids(h)
        PROVE  h # <<>> /\ \A j \in Line!Ids(h) : i < j
    <3>1. /\ \A j \in Line!Live : Line!Newer(j) \in Nat
          /\ \A j, k \in Line!Live : k <= j => Line!Newer(j) <= Line!Newer(k)
          /\ \E j \in Line!Live : Line!Newer(j) = 0
      BY <1>1, <2>5, NewerIs
    <3>2. PageSize \in Nat \ {0} BY BoundsAssumption
    <3>3. Line!Newer(i) >= PageSize BY <1>4, <2>5, <3>1, <3>2
    <3>4. PICK m \in Line!Live : Line!Newer(m) = 0 BY <3>1
    <3>5. m \in Line!Ids(h) BY <1>4, <3>2, <3>4
    <3>6. h # <<>> BY <3>5 DEF Line!Ids
    <3>7. ASSUME NEW j \in Line!Ids(h) PROVE i < j
      <4>1. j \in Line!Live /\ Line!Newer(j) < PageSize BY <1>4, <3>1, <3>2
      <4>2. ~(j <= i) BY <2>5, <3>1, <3>2, <3>3, <4>1
      <4>3. i \in Nat /\ j \in Nat BY <1>1, <4>1, ServerIs
      <4> QED BY <4>2, <4>3
    <3> QED BY <3>6, <3>7
  <2>6. \A i \in Line!Ids(h) : Line!Due(i)' BY <2>3 DEF Line!Due
  <2>7. \A i \in Line!Live' : Line!Due(i)' \/ (v5'.rows # <<>> /\ \A j \in Line!Ids(v5'.rows) : i < j)
    BY <1>3, <1>5, <2>5, <2>6
  <2>8. Line!NothingBetween' BY <1>7, <2>7 DEF Line!NothingBetween, Line!Nothing
  <2> QED BY <1>2, <2>1, <2>4, <2>8
<1> QED BY <1>8, <1>9, <1>10, <1>11 DEF Line!LineInv

LEMMA LoadedKeepsLine ==
  ASSUME Line!LineInv, Line!Loaded
  PROVE  Line!LineInv'
<1>1. Line!LineTypes /\ Line!FramesInOrder /\ Line!PagesApart BY DEF Line!LineInv
<1>2. /\ v5.at = "read" /\ v5' = Line!Nothing /\ v4' = v5.rows
      /\ v13' = (v13 \/ ~(Line!Range(v4) \subseteq Line!Range(v5.rows))
                         \/ (v5.rows # <<>> /\ \E i \in Line!Coming : \A j \in Line!Ids(v5.rows) : i < j))
      /\ UNCHANGED <<v1, v2, v3, v6, v8, v9, v10, v11>>
  BY DEF Line!Loaded
<1>3. /\ Line!Live' = Line!Live /\ Line!FromPeer' = Line!FromPeer /\ Line!Announced' = Line!Announced
      /\ Line!OnWire' = Line!OnWire /\ Line!Told' = Line!Told /\ Line!Sent' = Line!Sent /\ Line!Withdrawn' = Line!Withdrawn
  BY <1>1, <1>2, RowsStay, WireStays, AnswersStay
<1>4. Line!Page = v5.rows /\ v4' = Line!Page /\ v5 # Line!Nothing BY <1>2 DEF Line!Page, Line!Nothing
<1>5. Line!Page' = <<>> /\ Line!Above' = Line!Above /\ Line!Ids(Line!Page') = {} /\ Line!Once(Line!Page') BY <1>2 DEF Line!Page, Line!Above, Line!Nothing, Line!Ids, Line!Once
<1>6. Line!LineTypes'
  <2>1. v13' \in BOOLEAN BY <1>1, <1>2 DEF Line!LineTypes
  <2>2. \A T : <<>> \in Seq(T) OBVIOUS
  <2>3. {v4', Line!Page', Line!Above'} \subseteq Seq([id : DOMAIN v1', gone : BOOLEAN])
    BY <1>1, <1>2, <1>4, <1>5, <2>2 DEF Line!LineTypes
  <2> QED BY <1>1, <1>2, <1>3, <1>5, <2>1, <2>3 DEF Line!LineTypes
<1>7. Line!FramesInOrder' BY <1>1, <1>2, <1>3, FramesStay
<1>8. Line!PagesApart' BY <1>1, <1>2, <1>5 DEF Line!PagesApart
<1>9. ASSUME ~v13' PROVE Line!Once(v4') /\ Line!DeletionsFollow' /\ Line!NothingBetween'
  <2>1. ~v13 /\ Line!Once(v4) /\ Line!DeletionsFollow /\ Line!NothingBetween BY <1>2, <1>9 DEF Line!LineInv
  <2>2. Line!Range(v4) \subseteq Line!Range(Line!Page) BY <1>2, <1>4, <1>9
  <2>3. \A i \in Line!Coming : Line!Page = <<>> \/ \E j \in Line!Ids(Line!Page) : ~(i < j) BY <1>2, <1>4, <1>9
  <2>4. v6 = Line!Nothing BY <1>1, <1>4, <2>1 DEF Line!PagesApart
  <2>5. Line!Above = <<>> /\ Line!Ids(Line!Above') = {} BY <1>5, <2>4 DEF Line!Above, Line!Nothing, Line!Ids
  <2>6. Line!Once(Line!Page) BY <1>1 DEF Line!PagesApart
  <2>7. Line!Ids(v4) \subseteq Line!Ids(Line!Page) BY <2>2 DEF Line!Range, Line!Ids
  <2>8. Line!Announced \cap Line!Shown(FALSE)' \subseteq Line!Told \cup Line!Withdrawn
    <3>1. ASSUME NEW j \in Line!Announced, j \in Line!Shown(FALSE)' PROVE j \in Line!Told \cup Line!Withdrawn
      <4>1. Line!Row(j, FALSE) \in Line!Range(Line!Page) BY <1>4, <3>1 DEF Line!Shown
      <4>2. PICK k \in DOMAIN Line!Page : Line!Page[k] = Line!Row(j, FALSE) BY <4>1 DEF Line!Range
      <4>3. j \in Line!Ids(Line!Page) BY <4>2 DEF Line!Ids, Line!Row
      <4>4. j \notin Line!Shown(TRUE)
        <5> SUFFICES ASSUME j \in Line!Shown(TRUE) PROVE FALSE
          OBVIOUS
        <5>1. Line!Row(j, TRUE) \in Line!Range(Line!Page) BY <2>2 DEF Line!Shown
        <5>2. PICK l \in DOMAIN Line!Page : Line!Page[l] = Line!Row(j, TRUE) BY <5>1 DEF Line!Range
        <5>3. k = l BY <2>6, <4>2, <5>2 DEF Line!Once, Line!Row
        <5> QED BY <4>2, <5>2, <5>3 DEF Line!Row
      <4> QED BY <2>1, <4>3, <4>4 DEF Line!DeletionsFollow
    <3> QED BY <3>1
  <2>9. Line!DeletionsFollow' BY <1>2, <1>3, <1>5, <2>1, <2>5, <2>8 DEF Line!DeletionsFollow
  <2>10. \A i : i \in Line!Ids(Line!Page) \/ Line!Due(i) => Line!Due(i)' BY <1>2, <1>3, <1>4, <2>7 DEF Line!Due
  <2>11. \A i \in Line!Live : Line!Due(i) \/ (Line!Page # <<>> /\ \A j \in Line!Ids(Line!Page) : i < j)
    BY <1>2, <1>4, <2>1 DEF Line!NothingBetween
  <2>12. Line!Coming' = Line!Coming BY <1>2, <1>3 DEF Line!Coming
  <2>13. ASSUME NEW i \in Line!Live, NEW j \in Line!Ids(Line!Page) \cup Line!Coming, j <= i PROVE Line!Due(i)'
    <3>1. CASE Line!Due(i) BY <2>10, <3>1
    <3>2. CASE Line!Page # <<>> /\ \A k \in Line!Ids(Line!Page) : i < k
      <4>1. i \in Nat /\ j \in Nat /\ \A k \in Line!Ids(Line!Page) : k \in Nat
        <5>1. \A k \in DOMAIN Line!Page : Line!Page[k] \in [id : DOMAIN v1, gone : BOOLEAN] BY <1>1, SeqItems DEF Line!LineTypes
        <5>2. Line!Ids(Line!Page) \subseteq DOMAIN v1 BY <5>1 DEF Line!Ids
        <5>3. Line!Coming \subseteq DOMAIN v1 BY <1>1, ComesFrom, ServerIs DEF Line!Coming, Line!OnWire, Line!Sent
        <5>4. DOMAIN v1 \subseteq Nat /\ Line!Live \subseteq DOMAIN v1 BY <1>1, ServerIs
        <5> QED BY <5>2, <5>3, <5>4
      <4>2. \A k \in Line!Ids(Line!Page) : j < k BY <2>13, <3>2, <4>1
      <4>3. j \notin Line!Ids(Line!Page) BY <4>1, <4>2
      <4> QED BY <2>3, <2>13, <3>2, <4>2, <4>3
    <3> QED BY <2>11, <3>1, <3>2
  <2>14. Line!NothingBetween'
    <3>1. ASSUME NEW i \in Line!Live', NEW j \in (Line!Ids(v4) \cup Line!Coming)', j <= i PROVE Line!Due(i)'
      BY <1>3, <1>4, <2>12, <2>13, <3>1
    <3>2. v5'.at # "read" BY <1>2 DEF Line!Nothing
    <3> QED BY <2>5, <3>1, <3>2 DEF Line!NothingBetween, Line!Nothing
  <2> QED BY <1>4, <2>6, <2>9, <2>14
<1> QED BY <1>6, <1>7, <1>8, <1>9 DEF Line!LineInv

LEMMA LoadFailsKeepsLine ==
  ASSUME Line!LineInv, Line!LoadFails
  PROVE  Line!LineInv'
<1>1. Line!LineTypes /\ Line!FramesInOrder /\ Line!PagesApart BY DEF Line!LineInv
<1>2. /\ v5' = Line!Nothing /\ v13' = TRUE
      /\ UNCHANGED <<v1, v2, v3, v4, v6, v8, v9, v10, v11>>
  BY DEF Line!LoadFails
<1>3. Line!Live' = Line!Live /\ Line!FromPeer' = Line!FromPeer /\ Line!Announced' = Line!Announced BY <1>2, RowsStay
<1>4. Line!Page' = <<>> /\ Line!Above' = Line!Above /\ Line!Once(Line!Page') BY <1>2 DEF Line!Page, Line!Above, Line!Nothing, Line!Once
<1>5. \A T : <<>> \in Seq(T) OBVIOUS
<1>6. {v4', Line!Page', Line!Above'} \subseteq Seq([id : DOMAIN v1', gone : BOOLEAN])
  BY <1>1, <1>2, <1>4, <1>5 DEF Line!LineTypes
<1>7. Line!LineTypes' BY <1>1, <1>2, <1>3, <1>4, <1>6 DEF Line!LineTypes
<1>8. Line!FramesInOrder' BY <1>1, <1>2, <1>3, FramesStay
<1>9. Line!PagesApart' BY <1>1, <1>2, <1>4 DEF Line!PagesApart
<1> QED BY <1>2, <1>7, <1>8, <1>9 DEF Line!LineInv

LEMMA LoadMoreKeepsLine ==
  ASSUME Line!LineInv, Line!LoadMore
  PROVE  Line!LineInv'
<1>1. Line!LineTypes /\ Line!FramesInOrder /\ Line!PagesApart BY DEF Line!LineInv
<1>2. /\ v5 = Line!Nothing /\ v6 = Line!Nothing /\ v6' = [at |-> "asked", skip |-> Len(v4)]
      /\ UNCHANGED <<v1, v2, v3, v4, v5, v8, v9, v10, v11, v13>>
  BY DEF Line!LoadMore
<1>3. /\ Line!Live' = Line!Live /\ Line!FromPeer' = Line!FromPeer /\ Line!Announced' = Line!Announced
      /\ Line!OnWire' = Line!OnWire /\ Line!Told' = Line!Told /\ Line!Sent' = Line!Sent /\ Line!Withdrawn' = Line!Withdrawn
      /\ \A g \in BOOLEAN : Line!Shown(g)' = Line!Shown(g)
  BY <1>1, <1>2, RowsStay, WireStays, AnswersStay, ScreenStays
<1>4. Line!Page' = Line!Page /\ Line!Above' = Line!Above BY <1>2 DEF Line!Page, Line!Above, Line!Nothing
<1>5. Line!Ids(v4') = Line!Ids(v4) /\ Line!Ids(Line!Page') = Line!Ids(Line!Page) /\ Line!Ids(Line!Above') = Line!Ids(Line!Above) BY <1>2, <1>4
<1>6. Line!LineTypes'
  <2>1. Len(v4) \in Nat BY <1>1, SeqItems DEF Line!LineTypes
  <2>2. v6'.at = "asked" /\ v6'.skip = Len(v4) BY <1>2
  <2> QED BY <1>1, <1>2, <1>3, <1>4, <2>1, <2>2 DEF Line!LineTypes
<1>7. Line!FramesInOrder' BY <1>1, <1>2, <1>3, FramesStay
<1>8. Line!PagesApart' BY <1>1, <1>2, <1>4 DEF Line!PagesApart
<1>9. ASSUME ~v13' PROVE Line!Once(v4') /\ Line!DeletionsFollow' /\ Line!NothingBetween'
  <2>1. Line!Once(v4) /\ Line!DeletionsFollow /\ Line!NothingBetween BY <1>2, <1>9 DEF Line!LineInv
  <2>2. Line!DeletionsFollow' BY <1>2, <1>3, <1>5, <2>1 DEF Line!DeletionsFollow
  <2>3. \A j : Line!Due(j)' <=> Line!Due(j) BY <1>2, <1>3, <1>5 DEF Line!Due
  <2>4. (Line!Ids(v4) \cup Line!Coming)' = Line!Ids(v4) \cup Line!Coming BY <1>2, <1>3, <1>5 DEF Line!Coming
  <2>5. Line!NothingBetween' BY <1>2, <1>3, <1>5, <2>1, <2>3, <2>4 DEF Line!NothingBetween, Line!Nothing
  <2> QED BY <1>2, <2>1, <2>2, <2>5
<1> QED BY <1>6, <1>7, <1>8, <1>9 DEF Line!LineInv

LEMMA OlderReadKeepsLine ==
  ASSUME Line!LineInv, Line!OlderRead
  PROVE  Line!LineInv'
<1>1. Line!LineTypes /\ Line!FramesInOrder /\ Line!PagesApart BY DEF Line!LineInv
<1>2. /\ v6.at = "asked" /\ v6' = [at |-> "read", rows |-> Line!History(v6.skip)]
      /\ v13' = (v13 \/ ~({i \in Line!Live : Line!Newer(i) < v6.skip} \subseteq Line!Ids(v4)))
      /\ UNCHANGED <<v1, v2, v3, v4, v5, v8, v9, v10, v11>>
  BY DEF Line!OlderRead
<1>3. /\ Line!Live' = Line!Live /\ Line!FromPeer' = Line!FromPeer /\ Line!Announced' = Line!Announced
      /\ Line!OnWire' = Line!OnWire /\ Line!Told' = Line!Told /\ Line!Sent' = Line!Sent /\ Line!Withdrawn' = Line!Withdrawn
      /\ \A g \in BOOLEAN : Line!Shown(g)' = Line!Shown(g)
  BY <1>1, <1>2, RowsStay, WireStays, AnswersStay, ScreenStays
<1>4. PICK skip \in Nat : skip = v6.skip BY <1>1, <1>2 DEF Line!LineTypes, Line!Nothing
<1> DEFINE h == Line!History(skip)
<1>5. /\ h \in Seq([id : DOMAIN v1, gone : BOOLEAN]) /\ Line!Once(h)
      /\ Line!Ids(h) = {i \in Line!Live : skip <= Line!Newer(i) /\ Line!Newer(i) < skip + PageSize}
  BY <1>1, HistoryIs
<1>6. v6' = [at |-> "read", rows |-> h] BY <1>2, <1>4
<1> HIDE DEF h
<1>7. Line!Page' = Line!Page /\ Line!Above' = h BY <1>2, <1>6 DEF Line!Page, Line!Above
<1>8. v6 # Line!Nothing /\ v6' # Line!Nothing BY <1>2, <1>6 DEF Line!Nothing
<1>9. Line!Ids(v4') = Line!Ids(v4) /\ Line!Ids(Line!Page') = Line!Ids(Line!Page) /\ Line!Ids(Line!Above') = Line!Ids(h) BY <1>2, <1>7
<1>10. Line!LineTypes'
  <2>1. {v4', Line!Page', Line!Above'} \subseteq Seq([id : DOMAIN v1', gone : BOOLEAN])
    BY <1>1, <1>2, <1>5, <1>7 DEF Line!LineTypes
  <2>2. v13' \in BOOLEAN BY <1>1, <1>2 DEF Line!LineTypes
  <2> QED BY <1>1, <1>2, <1>3, <1>6, <1>7, <2>1, <2>2 DEF Line!LineTypes
<1>11. Line!FramesInOrder' BY <1>1, <1>2, <1>3, FramesStay
<1>12. Line!PagesApart' BY <1>1, <1>2, <1>5, <1>7, <1>8 DEF Line!PagesApart
<1>13. ASSUME ~v13' PROVE Line!Once(v4') /\ Line!DeletionsFollow' /\ Line!NothingBetween'
  <2>1. ~v13 /\ Line!Once(v4) /\ Line!DeletionsFollow /\ Line!NothingBetween BY <1>2, <1>13 DEF Line!LineInv
  <2>2. v5 = Line!Nothing /\ v5' = Line!Nothing BY <1>1, <1>2, <1>8, <2>1 DEF Line!PagesApart
  <2>3. Line!Announced \cap Line!Ids(h) = {} BY <1>1, <1>5, ServerIs
  <2>4. Line!DeletionsFollow' BY <1>2, <1>3, <1>9, <2>1, <2>3 DEF Line!DeletionsFollow
  <2>5. \A j : Line!Due(j)' <=> Line!Due(j) BY <1>2, <1>3, <1>9 DEF Line!Due
  <2>6. (Line!Ids(v4) \cup Line!Coming)' = Line!Ids(v4) \cup Line!Coming BY <1>2, <1>3, <1>9 DEF Line!Coming
  <2>7. ASSUME NEW i \in Line!Live, NEW j \in Line!Ids(h), j <= i PROVE Line!Due(i)' \/ i \in Line!Ids(h)
    <3>1. j \in Line!Live /\ Line!Newer(j) < skip + PageSize BY <1>5
    <3>2. Line!Newer(i) \in Nat /\ Line!Newer(j) \in Nat /\ Line!Newer(i) <= Line!Newer(j) BY <1>1, <2>7, <3>1, NewerIs
    <3>3. PageSize \in Nat BY BoundsAssumption
    <3>4. Line!Newer(i) < skip + PageSize BY <3>1, <3>2, <3>3
    <3>5. CASE Line!Newer(i) < skip
      <4>1. i \in Line!Ids(v4) BY <1>2, <1>4, <1>13, <3>5
      <4> QED BY <1>9, <4>1 DEF Line!Due
    <3>6. CASE ~(Line!Newer(i) < skip)
      <4>1. skip <= Line!Newer(i) BY <3>2, <3>6
      <4> QED BY <1>5, <3>4, <4>1
    <3> QED BY <3>5, <3>6
  <2>8. Line!NothingBetween'
    <3>1. \A i \in Line!Live', j \in (Line!Ids(v4) \cup Line!Coming)' : j <= i => Line!Due(i)'
      BY <1>3, <2>1, <2>2, <2>5, <2>6 DEF Line!NothingBetween
    <3>2. \A i \in Line!Live', j \in Line!Ids(Line!Above') : j <= i => Line!Due(i)' \/ i \in Line!Ids(Line!Above')
      BY <1>3, <1>9, <2>7
    <3>3. v5'.at # "read" BY <2>2 DEF Line!Nothing
    <3> QED BY <3>1, <3>2, <3>3 DEF Line!NothingBetween
  <2> QED BY <1>2, <2>1, <2>4, <2>8
<1> QED BY <1>10, <1>11, <1>12, <1>13 DEF Line!LineInv

LEMMA SeqJoined ==
  ASSUME NEW T, NEW p \in Seq(T), NEW q \in Seq(T)
  PROVE  /\ p \o q \in Seq(T)
         /\ Len(p) \in Nat /\ Len(q) \in Nat
         /\ DOMAIN p = 1..Len(p) /\ DOMAIN q = 1..Len(q) /\ DOMAIN (p \o q) = 1..(Len(p) + Len(q))
         /\ \A k \in 1..(Len(p) + Len(q)) : (p \o q)[k] = IF k <= Len(p) THEN p[k] ELSE q[k - Len(p)]
OBVIOUS

(* Two lists of rows, one put before the other.                             *)
LEMMA RowsJoined ==
  ASSUME NEW T, NEW p \in Seq(T), NEW q \in Seq(T)
  PROVE  /\ p \o q \in Seq(T)
         /\ Line!Ids(p \o q) = Line!Ids(p) \cup Line!Ids(q)
         /\ \A r : r \in Line!Range(p \o q) <=> r \in Line!Range(p) \/ r \in Line!Range(q)
         /\ Line!Once(p) /\ Line!Once(q) /\ Line!Ids(p) \cap Line!Ids(q) = {} => Line!Once(p \o q)
<1> DEFINE a == p \o q
<1>1. PICK m \in Nat, n \in Nat : m = Len(p) /\ n = Len(q) BY SeqJoined
<1>2. /\ a \in Seq(T) /\ DOMAIN p = 1..m /\ DOMAIN q = 1..n /\ DOMAIN a = 1..(m + n)
      /\ \A k \in 1..(m + n) : a[k] = IF k <= m THEN p[k] ELSE q[k - m]
  BY <1>1, SeqJoined
<1> HIDE DEF a
<1>3. \A k \in 1..m : k \in 1..(m + n) /\ a[k] = p[k] BY <1>2
<1>4. \A k \in 1..n : m + k \in 1..(m + n) /\ a[m + k] = q[k]
  <2> TAKE k \in 1..n
  <2>1. m + k \in 1..(m + n) /\ ~(m + k <= m) /\ (m + k) - m = k OBVIOUS
  <2> QED BY <1>2, <2>1
<1>5. \A k \in 1..(m + n) : (k \in 1..m /\ a[k] = p[k]) \/ (~(k \in 1..m) /\ k - m \in 1..n /\ a[k] = q[k - m])
  BY <1>2
<1>6. \A r : r \in Line!Range(a) <=> r \in Line!Range(p) \/ r \in Line!Range(q)
  <2>1. \A r \in Line!Range(p) : r \in Line!Range(a) BY <1>2, <1>3 DEF Line!Range
  <2>2. ASSUME NEW r \in Line!Range(q) PROVE r \in Line!Range(a)
    <3>1. PICK k \in 1..n : r = q[k] BY <1>2 DEF Line!Range
    <3>2. PICK l \in 1..(m + n) : a[l] = r BY <1>4, <3>1
    <3> QED BY <1>2, <3>2 DEF Line!Range
  <2>3. \A r \in Line!Range(a) : r \in Line!Range(p) \/ r \in Line!Range(q) BY <1>2, <1>5 DEF Line!Range
  <2> QED BY <2>1, <2>2, <2>3
<1>7. Line!Ids(a) = Line!Ids(p) \cup Line!Ids(q)
  <2>1. \A s, i : i \in Line!Ids(s) <=> \E r \in Line!Range(s) : i = r.id BY DEF Line!Ids, Line!Range
  <2> QED BY <1>6, <2>1
<1>8. ASSUME Line!Once(p), Line!Once(q), Line!Ids(p) \cap Line!Ids(q) = {} PROVE Line!Once(a)
  <2>1. SUFFICES ASSUME NEW k \in 1..(m + n), NEW l \in 1..(m + n), a[k].id = a[l].id PROVE k = l
    BY <1>2 DEF Line!Once
  <2>2. \A x \in 1..m, y \in 1..n : p[x].id # q[y].id BY <1>2, <1>8 DEF Line!Ids
  <2>3. CASE k \in 1..m /\ l \in 1..m BY <1>2, <1>5, <1>8, <2>1, <2>3 DEF Line!Once
  <2>4. CASE ~(k \in 1..m) /\ ~(l \in 1..m)
    <3>1. k - m \in 1..n /\ l - m \in 1..n /\ q[k - m].id = q[l - m].id BY <1>5, <2>1, <2>4
    <3>2. k - m = l - m BY <1>2, <1>8, <3>1 DEF Line!Once
    <3> QED BY <3>2
  <2>5. CASE k \in 1..m /\ ~(l \in 1..m)
    <3>1. a[k] = p[k] BY <1>3, <2>5
    <3>2. PICK y \in 1..n : a[l] = q[y] BY <1>5, <2>5
    <3> QED BY <2>1, <2>2, <2>5, <3>1, <3>2
  <2>6. CASE ~(k \in 1..m) /\ l \in 1..m
    <3>1. a[l] = p[l] BY <1>3, <2>6
    <3>2. PICK y \in 1..n : a[k] = q[y] BY <1>5, <2>6
    <3> QED BY <2>1, <2>2, <2>6, <3>1, <3>2
  <2> QED BY <2>3, <2>4, <2>5, <2>6
<1> QED BY <1>2, <1>6, <1>7, <1>8 DEF a

LEMMA OlderLoadedKeepsLine ==
  ASSUME Line!LineInv, Line!OlderLoaded
  PROVE  Line!LineInv'
<1> DEFINE R == [id : DOMAIN v1, gone : BOOLEAN]
<1>1. Line!LineTypes /\ Line!FramesInOrder /\ Line!PagesApart BY DEF Line!LineInv
<1>2. /\ v6.at = "read" /\ v6' = Line!Nothing
      /\ UNCHANGED <<v1, v2, v3, v5, v8, v9, v10, v11>>
  BY DEF Line!OlderLoaded
<1>3. \/ v4' = Line!Above \o v4 /\ v13' = (v13 \/ Line!Ids(Line!Above) \cap Line!Ids(v4) # {})
      \/ v4' = v4 /\ v13' = v13
  BY DEF Line!OlderLoaded, Line!Above
<1>4. /\ Line!Live' = Line!Live /\ Line!FromPeer' = Line!FromPeer /\ Line!Announced' = Line!Announced
      /\ Line!OnWire' = Line!OnWire /\ Line!Told' = Line!Told /\ Line!Sent' = Line!Sent /\ Line!Withdrawn' = Line!Withdrawn
  BY <1>1, <1>2, RowsStay, WireStays, AnswersStay
<1>5. Line!Page' = Line!Page /\ Line!Above' = <<>> /\ Line!Once(Line!Above') /\ Line!Ids(Line!Above') = {} /\ Line!Ids(Line!Page') = Line!Ids(Line!Page)
  BY <1>2 DEF Line!Page, Line!Above, Line!Nothing, Line!Once, Line!Ids
<1>6. /\ Line!Above \o v4 \in Seq(R)
      /\ Line!Ids(Line!Above \o v4) = Line!Ids(Line!Above) \cup Line!Ids(v4)
      /\ \A r : r \in Line!Range(Line!Above \o v4) <=> r \in Line!Range(Line!Above) \/ r \in Line!Range(v4)
      /\ Line!Once(Line!Above) /\ Line!Once(v4) /\ Line!Ids(Line!Above) \cap Line!Ids(v4) = {} => Line!Once(Line!Above \o v4)
  <2>1. Line!Above \in Seq(R) /\ v4 \in Seq(R) BY <1>1 DEF Line!LineTypes
  <2> HIDE DEF R
  <2> QED BY <2>1, RowsJoined
<1>7. Line!LineTypes'
  <2>1. v4' \in Seq(R) /\ v13' \in BOOLEAN BY <1>1, <1>3, <1>6 DEF Line!LineTypes
  <2>2. \A T : <<>> \in Seq(T) OBVIOUS
  <2>3. {v4', Line!Page', Line!Above'} \subseteq Seq([id : DOMAIN v1', gone : BOOLEAN])
    BY <1>1, <1>2, <1>5, <2>1, <2>2 DEF Line!LineTypes
  <2> QED BY <1>1, <1>2, <1>4, <1>5, <2>1, <2>3 DEF Line!LineTypes
<1>8. Line!FramesInOrder' BY <1>1, <1>2, <1>4, FramesStay
<1>9. Line!PagesApart' BY <1>1, <1>2, <1>5 DEF Line!PagesApart
<1>10. ASSUME ~v13' PROVE Line!Once(v4') /\ Line!DeletionsFollow' /\ Line!NothingBetween'
  <2> ~v13 BY <1>3, <1>10
  <2>1. ~v13 /\ Line!Once(v4) /\ Line!DeletionsFollow /\ Line!NothingBetween BY DEF Line!LineInv
  <2>2. v5 = Line!Nothing /\ v5' = Line!Nothing
    <3>1. v6 # Line!Nothing BY <1>2 DEF Line!Nothing
    <3> QED BY <1>1, <1>2, <2>1, <3>1 DEF Line!PagesApart
  <2>3. Line!Page = <<>> /\ Line!Ids(Line!Page) = {} BY <2>2 DEF Line!Page, Line!Nothing, Line!Ids
  <2>4. v5'.at # "read" BY <2>2 DEF Line!Nothing
  <2>5. CASE v4' = Line!Above \o v4 /\ Line!Ids(Line!Above) \cap Line!Ids(v4) = {}
    <3>1. Line!Ids(v4') = Line!Ids(Line!Above) \cup Line!Ids(v4) BY <1>6, <2>5
    <3>2. Line!Once(v4') BY <1>1, <1>6, <2>1, <2>5 DEF Line!PagesApart
    <3>3. \A j : j \in Line!Shown(FALSE)' => j \in Line!Shown(FALSE) \/ j \in Line!Ids(Line!Above)
      <4> SUFFICES ASSUME NEW j, j \in Line!Shown(FALSE)' PROVE j \in Line!Shown(FALSE) \/ j \in Line!Ids(Line!Above)
        OBVIOUS
      <4>1. j \in DOMAIN v1 /\ Line!Row(j, FALSE) \in Line!Range(Line!Above \o v4) BY <1>2, <2>5 DEF Line!Shown
      <4>2. CASE Line!Row(j, FALSE) \in Line!Range(Line!Above)
        <5>1. PICK k \in DOMAIN Line!Above : Line!Above[k] = Line!Row(j, FALSE) BY <4>2 DEF Line!Range
        <5>2. Line!Above[k].id = j BY <5>1 DEF Line!Row
        <5> QED BY <5>1, <5>2 DEF Line!Ids
      <4>3. CASE Line!Row(j, FALSE) \in Line!Range(v4) BY <4>1, <4>3 DEF Line!Shown
      <4> QED BY <1>6, <4>1, <4>2, <4>3
    <3>4. Line!Announced \cap Line!Shown(FALSE)' \subseteq Line!Told \cup Line!Withdrawn BY <2>1, <2>5, <3>3 DEF Line!DeletionsFollow
    <3>5. Line!DeletionsFollow' BY <1>2, <1>4, <1>5, <2>1, <2>3, <3>4 DEF Line!DeletionsFollow
    <3>6. \A i : Line!Due(i) \/ i \in Line!Ids(Line!Above) => Line!Due(i)' BY <1>2, <1>4, <1>5, <3>1 DEF Line!Due
    <3>7. (Line!Ids(v4) \cup Line!Coming)' = Line!Ids(Line!Above) \cup Line!Ids(v4) \cup Line!Coming BY <1>2, <1>4, <3>1 DEF Line!Coming
    <3>8. \A i \in Line!Live', j \in (Line!Ids(v4) \cup Line!Coming)' : j <= i => Line!Due(i)'
      BY <1>4, <2>1, <2>2, <3>6, <3>7 DEF Line!NothingBetween
    <3>9. Line!NothingBetween' BY <1>5, <2>4, <3>8 DEF Line!NothingBetween
    <3> QED BY <3>2, <3>5, <3>9
  <2>6. CASE v4' = v4
    <3>1. \A g \in BOOLEAN : Line!Shown(g)' = Line!Shown(g) BY <1>1, <1>2, <2>6, ScreenStays
    <3>2. Line!Ids(v4') = Line!Ids(v4) BY <2>6
    <3>3. Line!DeletionsFollow' BY <1>2, <1>4, <1>5, <2>1, <3>1, <3>2 DEF Line!DeletionsFollow
    <3>4. \A j : Line!Due(j)' <=> Line!Due(j) BY <1>2, <1>4, <1>5, <3>2 DEF Line!Due
    <3>5. (Line!Ids(v4) \cup Line!Coming)' = Line!Ids(v4) \cup Line!Coming BY <1>2, <1>4, <3>2 DEF Line!Coming
    <3>6. \A i \in Line!Live', j \in (Line!Ids(v4) \cup Line!Coming)' : j <= i => Line!Due(i)'
      BY <1>4, <2>1, <2>2, <3>4, <3>5 DEF Line!NothingBetween
    <3>7. Line!NothingBetween' BY <1>5, <2>4, <3>6 DEF Line!NothingBetween
    <3> QED BY <2>1, <2>6, <3>3, <3>7
  <2> QED BY <1>3, <1>10, <2>5, <2>6
<1> QED BY <1>7, <1>8, <1>9, <1>10 DEF Line!LineInv

LEMMA BreakKeepsLine ==
  ASSUME Line!LineInv, Line!Break
  PROVE  Line!LineInv'
<1>1. Line!LineTypes /\ Line!FramesInOrder /\ Line!PagesApart BY DEF Line!LineInv
<1>2. /\ v10 = "open" /\ v10' \in {"waiting", "closed"} /\ v2' = <<>>
      /\ v13' = (v13 \/ \E k \in DOMAIN v2 : v2[k][1] = "del")
      /\ UNCHANGED <<v1, v3, v4, v5, v6, v8, v9, v11>>
  BY DEF Line!Break
<1>3. /\ Line!Live' = Line!Live /\ Line!FromPeer' = Line!FromPeer /\ Line!Announced' = Line!Announced
      /\ Line!Sent' = Line!Sent /\ Line!Withdrawn' = Line!Withdrawn /\ Line!Page' = Line!Page /\ Line!Above' = Line!Above
      /\ \A g \in BOOLEAN : Line!Shown(g)' = Line!Shown(g)
  BY <1>1, <1>2, RowsStay, AnswersStay, ScreenStays, PagesStay
<1>4. DOMAIN v2' = {} BY <1>2
<1>5. Line!OnWire' = {} BY <1>4 DEF Line!OnWire, Line!Range
<1>6. Line!Ids(v4') = Line!Ids(v4) /\ Line!Ids(Line!Page') = Line!Ids(Line!Page) /\ Line!Ids(Line!Above') = Line!Ids(Line!Above) BY <1>2, <1>3
<1>7. Line!LineTypes'
  <2>1. \A T : <<>> \in Seq(T) OBVIOUS
  <2>2. v13' \in BOOLEAN BY <1>1, <1>2 DEF Line!LineTypes
  <2> QED BY <1>1, <1>2, <1>3, <2>1, <2>2 DEF Line!LineTypes
<1>8. Line!FramesInOrder'
  <2>1. \A i \in Line!Live', s \in v11' : v9' < i => s < i BY <1>1, <1>2, <1>3 DEF Line!FramesInOrder
  <2> QED BY <1>2, <1>4, <2>1 DEF Line!FramesInOrder
<1>9. Line!PagesApart' BY <1>1, <1>2, <1>3 DEF Line!PagesApart
<1>10. ASSUME ~v13' PROVE Line!Once(v4') /\ Line!DeletionsFollow' /\ Line!NothingBetween'
  <2>1. Line!Once(v4) /\ Line!DeletionsFollow /\ Line!NothingBetween BY <1>2, <1>10 DEF Line!LineInv
  <2>2. \A k \in DOMAIN v2 : v2[k][1] # "del" BY <1>2, <1>10
  <2>3. Line!Told = {} BY <2>2 DEF Line!Told, Line!Range
  <2>4. Line!DeletionsFollow' BY <1>2, <1>3, <1>6, <2>1, <2>3 DEF Line!DeletionsFollow
  <2>5. \A j : Line!Due(j) => Line!Due(j)' BY <1>2, <1>3, <1>6 DEF Line!Due
  <2>6. (Line!Ids(v4) \cup Line!Coming)' \subseteq Line!Ids(v4) \cup Line!Coming BY <1>2, <1>3, <1>5, <1>6 DEF Line!Coming
  <2>7. Line!NothingBetween'
    <3>1. ASSUME v5' = Line!Nothing, NEW i \in Line!Live', NEW j \in (Line!Ids(v4) \cup Line!Coming)', j <= i PROVE Line!Due(i)'
      BY <1>2, <1>3, <2>1, <2>5, <2>6, <3>1 DEF Line!NothingBetween
    <3>2. ASSUME v5' = Line!Nothing, NEW i \in Line!Live', NEW j \in Line!Ids(Line!Above'), j <= i PROVE Line!Due(i)' \/ i \in Line!Ids(Line!Above')
      BY <1>2, <1>3, <1>6, <2>1, <2>5, <3>2 DEF Line!NothingBetween
    <3>3. ASSUME v5'.at = "read", NEW i \in Line!Live'
          PROVE  Line!Due(i)' \/ (v5'.rows # <<>> /\ \A j \in Line!Ids(v5'.rows) : i < j)
      BY <1>2, <1>3, <2>1, <2>5, <3>3 DEF Line!NothingBetween
    <3> QED BY <3>1, <3>2, <3>3 DEF Line!NothingBetween, Line!Nothing
  <2> QED BY <1>2, <2>1, <2>4, <2>7
<1> QED BY <1>7, <1>8, <1>9, <1>10 DEF Line!LineInv

LEMMA ReopenKeepsLine ==
  ASSUME Line!LineInv, Line!Reopen
  PROVE  Line!LineInv'
<1>1. Line!LineTypes /\ Line!FramesInOrder /\ Line!PagesApart BY DEF Line!LineInv
<1>2. /\ v10 # "open" /\ v10' = "open"
      /\ UNCHANGED <<v1, v2, v3, v4, v5, v6, v8, v9>>
  BY DEF Line!Reopen
<1>3. \/ v11' = v11 \cup {v9} /\ v13' = v13
      \/ /\ v13' = (v13 \/ ~({i \in Line!FromPeer : i > v9} \subseteq Line!Ids(v4) \cup v3))
         /\ v11' = v11
  BY DEF Line!Reopen
<1>4. /\ Line!Live' = Line!Live /\ Line!FromPeer' = Line!FromPeer /\ Line!Announced' = Line!Announced
      /\ Line!OnWire' = Line!OnWire /\ Line!Told' = Line!Told /\ Line!Sent' = Line!Sent /\ Line!Withdrawn' = Line!Withdrawn
      /\ Line!Page' = Line!Page /\ Line!Above' = Line!Above /\ \A g \in BOOLEAN : Line!Shown(g)' = Line!Shown(g)
  BY <1>1, <1>2, RowsStay, WireStays, AnswersStay, ScreenStays, PagesStay
<1>5. Line!Ids(v4') = Line!Ids(v4) /\ Line!Ids(Line!Page') = Line!Ids(Line!Page) /\ Line!Ids(Line!Above') = Line!Ids(Line!Above) BY <1>2, <1>4
<1>6. DOMAIN v2' = {} /\ Line!OnWire = {}
  <2>1. v2 = <<>> BY <1>1, <1>2 DEF Line!FramesInOrder
  <2> QED BY <1>2, <2>1 DEF Line!OnWire, Line!Range
<1>7. Line!LineTypes'
  <2>1. v13' \in BOOLEAN /\ v11' \subseteq 0..Len(v1) BY <1>1, <1>3 DEF Line!LineTypes
  <2> QED BY <1>1, <1>2, <1>4, <2>1 DEF Line!LineTypes
<1>8. Line!FramesInOrder'
  <2>1. \A i \in Line!Live', s \in v11' : v9' < i => s < i BY <1>1, <1>2, <1>3, <1>4 DEF Line!FramesInOrder
  <2> QED BY <1>2, <1>6, <2>1 DEF Line!FramesInOrder
<1>9. Line!PagesApart' BY <1>1, <1>2, <1>3, <1>4 DEF Line!PagesApart
<1>10. ASSUME ~v13' PROVE Line!Once(v4') /\ Line!DeletionsFollow' /\ Line!NothingBetween'
  <2>1. Line!Once(v4) /\ Line!DeletionsFollow /\ Line!NothingBetween BY <1>3, <1>10 DEF Line!LineInv
  <2>2. Line!DeletionsFollow' BY <1>2, <1>4, <1>5, <2>1 DEF Line!DeletionsFollow
  <2>3. \A i : Line!Due(i) => Line!Due(i)'
    <3> SUFFICES ASSUME NEW i, Line!Due(i) PROVE Line!Due(i)'
      OBVIOUS
    <3>1. CASE i \in Line!Ids(v4) \cup Line!Ids(Line!Page) \cup v3 \cup Line!Sent BY <1>2, <1>4, <1>5, <3>1 DEF Line!Due
    <3>2. CASE i \in Line!FromPeer /\ \E s \in v11 : s < i BY <1>3, <1>4, <3>2 DEF Line!Due
    <3>3. CASE i \in Line!FromPeer /\ v9 < i
      <4>1. CASE v11' = v11 \cup {v9} BY <1>4, <3>3, <4>1 DEF Line!Due
      <4>2. CASE {j \in Line!FromPeer : j > v9} \subseteq Line!Ids(v4) \cup v3
        <5>1. i \in Nat /\ v9 \in Nat BY <1>1, <3>3, ServerIs DEF Line!LineTypes
        <5>2. i \in Line!Ids(v4) \cup v3 BY <3>3, <4>2, <5>1
        <5> QED BY <1>2, <1>5, <5>2 DEF Line!Due
      <4> QED BY <1>3, <1>10, <4>1, <4>2
    <3> QED BY <3>1, <3>2, <3>3 DEF Line!Due
  <2>4. (Line!Ids(v4) \cup Line!Coming)' = Line!Ids(v4) \cup Line!Coming BY <1>2, <1>4, <1>5 DEF Line!Coming
  <2>5. Line!NothingBetween'
    <3>1. ASSUME v5' = Line!Nothing, NEW i \in Line!Live', NEW j \in (Line!Ids(v4) \cup Line!Coming)', j <= i PROVE Line!Due(i)'
      BY <1>2, <1>4, <2>1, <2>3, <2>4, <3>1 DEF Line!NothingBetween
    <3>2. ASSUME v5' = Line!Nothing, NEW i \in Line!Live', NEW j \in Line!Ids(Line!Above'), j <= i PROVE Line!Due(i)' \/ i \in Line!Ids(Line!Above')
      BY <1>2, <1>4, <1>5, <2>1, <2>3, <3>2 DEF Line!NothingBetween
    <3>3. ASSUME v5'.at = "read", NEW i \in Line!Live'
          PROVE  Line!Due(i)' \/ (v5'.rows # <<>> /\ \A j \in Line!Ids(v5'.rows) : i < j)
      BY <1>2, <1>4, <2>1, <2>3, <3>3 DEF Line!NothingBetween
    <3> QED BY <3>1, <3>2, <3>3 DEF Line!NothingBetween, Line!Nothing
  <2> QED BY <1>2, <2>1, <2>2, <2>5
<1> QED BY <1>7, <1>8, <1>9, <1>10 DEF Line!LineInv

LEMMA SyncedKeepsLine ==
  ASSUME Line!LineInv, NEW s \in v11, Line!Synced(s)
  PROVE  Line!LineInv'
<1> DEFINE rows == {i \in Line!Live : i > s}
<1>1. Line!LineTypes /\ Line!FramesInOrder /\ Line!PagesApart BY DEF Line!LineInv
<1>2. /\ v11' = v11 \ {s}
      /\ UNCHANGED <<v1, v2, v4, v5, v6, v8, v10>>
  BY DEF Line!Synced
<1>3. \/ /\ v3' = v3 \cup (rows \cap Line!FromPeer)
         /\ \/ rows = {} /\ v9' = v9
            \/ v9' \in {m \in rows : \A i \in rows : i <= m}
         /\ v13' = \/ v13
                      \/ /\ v5 = Line!Nothing
                         /\ \E i \in rows \ Line!FromPeer, j \in rows \cap Line!FromPeer :
                                j < i /\ i \notin Line!Ids(v4) \cup Line!Sent
      \/ v13' = TRUE /\ v3' = v3 /\ v9' = v9
  BY DEF Line!Synced
<1>4. /\ Line!Live' = Line!Live /\ Line!FromPeer' = Line!FromPeer /\ Line!Announced' = Line!Announced
      /\ Line!OnWire' = Line!OnWire /\ Line!Told' = Line!Told /\ Line!Sent' = Line!Sent /\ Line!Withdrawn' = Line!Withdrawn
      /\ Line!Page' = Line!Page /\ Line!Above' = Line!Above /\ \A g \in BOOLEAN : Line!Shown(g)' = Line!Shown(g)
  BY <1>1, <1>2, RowsStay, WireStays, AnswersStay, ScreenStays, PagesStay
<1>5. Line!Ids(v4') = Line!Ids(v4) /\ Line!Ids(Line!Page') = Line!Ids(Line!Page) /\ Line!Ids(Line!Above') = Line!Ids(Line!Above) BY <1>2, <1>4
<1>6. /\ Len(v1) \in Nat /\ DOMAIN v1 = 1..Len(v1) /\ Line!Live \subseteq 1..Len(v1)
      /\ Line!FromPeer \subseteq 1..Len(v1) /\ Line!Live \cap Line!Announced = {}
  BY <1>1, ServerIs
<1>7. v9 \in Nat /\ v11 \subseteq Nat BY <1>1, <1>6 DEF Line!LineTypes
<1>8. \A i \in Line!Live : i \in Nat /\ (i \in rows <=> s < i) BY <1>6, <1>7
<1>9. rows \subseteq Line!Live OBVIOUS
<1> HIDE DEF rows
<1>10. v9' = v9 \/ (v9' \in rows /\ \A i \in rows : i <= v9') BY <1>3
<1>11. Line!LineTypes'
  <2>1. v9' \in 0..Len(v1) BY <1>1, <1>6, <1>9, <1>10 DEF Line!LineTypes
  <2>2. v3' \subseteq Line!FromPeer /\ v13' \in BOOLEAN BY <1>1, <1>3 DEF Line!LineTypes
  <2> QED BY <1>1, <1>2, <1>4, <2>1, <2>2 DEF Line!LineTypes
<1>12. \A i \in Line!Live, t \in v11 : v9' < i => t < i
  <2>1. CASE v9' = v9 BY <1>1, <2>1 DEF Line!FramesInOrder
  <2>2. CASE v9' \in rows /\ \A i \in rows : i <= v9'
    <3>1. ASSUME NEW i \in Line!Live, v9' < i PROVE FALSE
      <4>1. v9' \in Line!Live /\ v9' \in Nat /\ s < v9' BY <1>8, <1>9, <2>2
      <4>2. s < i BY <1>7, <1>8, <3>1, <4>1
      <4>3. i <= v9' BY <1>8, <2>2, <4>2
      <4> QED BY <1>8, <3>1, <4>1, <4>3
    <3> QED BY <3>1
  <2> QED BY <1>10, <2>1, <2>2
<1>13. Line!FramesInOrder'
  <2>1. \A i \in Line!Live', t \in v11' : v9' < i => t < i BY <1>2, <1>4, <1>12
  <2>2. v10' # "open" => v2' = <<>> BY <1>1, <1>2 DEF Line!FramesInOrder
  <2>3. \A k \in DOMAIN v2' : v2'[k][1] = "new" =>
            /\ \A l \in DOMAIN v2' : k < l /\ v2'[l][1] = "new" => v2'[k][2] < v2'[l][2]
            /\ v2'[k][2] \in Line!Announced' => \E l \in DOMAIN v2' : k < l /\ v2'[l] = <<"del", v2'[k][2]>>
            /\ \A t \in v11' : t < v2'[k][2]
    BY <1>1, <1>2, <1>4 DEF Line!FramesInOrder
  <2> QED BY <2>1, <2>2, <2>3 DEF Line!FramesInOrder
<1>14. Line!PagesApart'
  <2>1. v13 => v13' BY <1>3
  <2> QED BY <1>1, <1>2, <1>4, <2>1 DEF Line!PagesApart
<1>15. ASSUME ~v13' PROVE Line!Once(v4') /\ Line!DeletionsFollow' /\ Line!NothingBetween'
  <2>1. /\ ~v13 /\ v3' = v3 \cup (rows \cap Line!FromPeer)
        /\ v5 = Line!Nothing => \A i \in rows \ Line!FromPeer, j \in rows \cap Line!FromPeer :
                                 j < i => i \in Line!Ids(v4) \cup Line!Sent
    BY <1>3, <1>15
  <2>2. Line!Once(v4) /\ Line!DeletionsFollow /\ Line!NothingBetween BY <2>1 DEF Line!LineInv
  <2>3. Line!Announced \cap v3' \subseteq Line!Told BY <1>6, <1>9, <2>1, <2>2 DEF Line!DeletionsFollow
  <2>4. Line!DeletionsFollow' BY <1>4, <1>5, <2>2, <2>3 DEF Line!DeletionsFollow
  <2>5. ASSUME NEW i \in Line!Live, Line!Due(i) PROVE Line!Due(i)'
    <3>1. CASE i \in Line!Ids(v4) \cup Line!Ids(Line!Page) \cup v3 \cup Line!Sent BY <1>4, <1>5, <2>1, <3>1 DEF Line!Due
    <3>2. ASSUME i \in Line!FromPeer, s < i PROVE Line!Due(i)'
      BY <1>8, <2>1, <3>2 DEF Line!Due
    <3>3. CASE i \in Line!FromPeer /\ \E t \in v11 : t < i
      <4>1. PICK t \in v11 : t < i BY <3>3
      <4>2. CASE t = s BY <3>2, <3>3, <4>1, <4>2
      <4>3. CASE t # s BY <1>2, <1>4, <3>3, <4>1, <4>3 DEF Line!Due
      <4> QED BY <4>2, <4>3
    <3>4. CASE i \in Line!FromPeer /\ v9 < i
      <4>1. s < i BY <1>1, <3>4 DEF Line!FramesInOrder
      <4> QED BY <3>2, <3>4, <4>1
    <3> QED BY <2>5, <3>1, <3>3, <3>4 DEF Line!Due
  <2>6. (Line!Ids(v4) \cup Line!Coming)' = Line!Ids(v4) \cup Line!Coming \cup (rows \cap Line!FromPeer)
    BY <1>4, <1>5, <2>1 DEF Line!Coming
  <2>7. Line!NothingBetween'
    <3>1. ASSUME v5' = Line!Nothing, NEW i \in Line!Live', NEW j \in (Line!Ids(v4) \cup Line!Coming)', j <= i PROVE Line!Due(i)'
      <4>1. v5 = Line!Nothing /\ i \in Line!Live BY <1>2, <1>4, <3>1
      <4>2. CASE j \in Line!Ids(v4) \cup Line!Coming BY <2>2, <2>5, <3>1, <4>1, <4>2 DEF Line!NothingBetween
      <4>3. CASE j \in rows \cap Line!FromPeer
        <5>1. j \in Nat /\ s < j /\ i \in Nat /\ s \in Nat BY <1>7, <1>8, <1>9, <4>1, <4>3
        <5>2. i \in rows
          <6>1. s < i BY <3>1, <5>1
          <6> QED BY <1>8, <4>1, <6>1
        <5>3. CASE i \in Line!FromPeer BY <2>1, <5>2, <5>3 DEF Line!Due
        <5>4. CASE i \notin Line!FromPeer
          <6>1. j < i BY <3>1, <4>3, <5>1, <5>4
          <6>2. i \in Line!Ids(v4) \cup Line!Sent BY <2>1, <4>1, <4>3, <5>2, <5>4, <6>1
          <6> QED BY <1>4, <1>5, <6>2 DEF Line!Due
        <5> QED BY <5>3, <5>4
      <4> QED BY <2>6, <3>1, <4>2, <4>3
    <3>2. ASSUME v5' = Line!Nothing, NEW i \in Line!Live', NEW j \in Line!Ids(Line!Above'), j <= i PROVE Line!Due(i)' \/ i \in Line!Ids(Line!Above')
      BY <1>2, <1>4, <1>5, <2>2, <2>5, <3>2 DEF Line!NothingBetween
    <3>3. ASSUME v5'.at = "read", NEW i \in Line!Live'
          PROVE  Line!Due(i)' \/ (v5'.rows # <<>> /\ \A j \in Line!Ids(v5'.rows) : i < j)
      BY <1>2, <1>4, <2>2, <2>5, <3>3 DEF Line!NothingBetween
    <3> QED BY <3>1, <3>2, <3>3 DEF Line!NothingBetween, Line!Nothing
  <2> QED BY <1>2, <2>2, <2>4, <2>7
<1> QED BY <1>11, <1>13, <1>14, <1>15 DEF Line!LineInv

-----------------------------------------------------------------------------
(* At first, at every step, and what it says of a quiet page.               *)

LEMMA TimelineInit == ASSUME Line!Init PROVE Line!LineInv
<1>1. /\ v1 = <<>> /\ v2 = <<>> /\ v3 = {} /\ v4 = <<>>
      /\ v5 = Line!Nothing /\ v6 = Line!Nothing /\ v8 = {}
      /\ v9 = 0 /\ v10 = "open" /\ v11 = {} /\ v13 = FALSE
  BY DEF Line!Init
<1>2. Line!Page = <<>> /\ Line!Above = <<>> BY <1>1 DEF Line!Page, Line!Above, Line!Nothing
<1>3. \A T : <<>> \in Seq(T) OBVIOUS
<1>4. Len(v1) = 0 /\ DOMAIN v1 = {} /\ DOMAIN v2 = {} /\ DOMAIN v4 = {}
      /\ DOMAIN Line!Page = {} /\ DOMAIN Line!Above = {}
  BY <1>1, <1>2
<1>5. Line!Live = {} /\ Line!FromPeer = {} /\ Line!Announced = {} BY <1>4 DEF Line!Live, Line!FromPeer, Line!Announced
<1>6. Line!LineTypes
  <2>1. v1 \in Seq([by : {"me", "peer"}, state : {"live", "announced", "silent"}])
        /\ v2 \in Seq({"new", "del"} \X Line!FromPeer)
    BY <1>1, <1>3
  <2>2. {v4, Line!Page, Line!Above} \subseteq Seq([id : DOMAIN v1, gone : BOOLEAN]) BY <1>1, <1>2, <1>3
  <2>3. v9 \in 0..Len(v1) /\ v11 \subseteq 0..Len(v1) BY <1>1, <1>4
  <2> QED BY <1>1, <2>1, <2>2, <2>3 DEF Line!LineTypes
<1>7. Line!FramesInOrder BY <1>1, <1>4, <1>5 DEF Line!FramesInOrder
<1>8. Line!PagesApart /\ Line!Once(v4) BY <1>1, <1>4 DEF Line!PagesApart, Line!Once
<1>9. Line!DeletionsFollow BY <1>5 DEF Line!DeletionsFollow
<1>10. Line!NothingBetween BY <1>5 DEF Line!NothingBetween
<1> QED BY <1>6, <1>7, <1>8, <1>9, <1>10 DEF Line!LineInv

LEMMA TimelineNext == ASSUME Line!LineInv, Line!Next \/ UNCHANGED slots PROVE Line!LineInv'
<1>1. CASE UNCHANGED slots
  <2>1. UNCHANGED <<v1, v2, v3, v4, v5, v6, v8, v9, v10, v11, v13>>
    BY <1>1 DEF slots
  <2>2. Line!LineTypes /\ Line!FramesInOrder /\ Line!PagesApart BY DEF Line!LineInv
  <2>3. /\ Line!Live' = Line!Live /\ Line!FromPeer' = Line!FromPeer /\ Line!Announced' = Line!Announced
        /\ Line!OnWire' = Line!OnWire /\ Line!Told' = Line!Told /\ Line!Sent' = Line!Sent /\ Line!Withdrawn' = Line!Withdrawn
        /\ Line!Page' = Line!Page /\ Line!Above' = Line!Above /\ \A g \in BOOLEAN : Line!Shown(g)' = Line!Shown(g)
    BY <2>1, <2>2, RowsStay, WireStays, AnswersStay, ScreenStays, PagesStay
  <2>4. Line!Ids(v4') = Line!Ids(v4) /\ Line!Ids(Line!Page') = Line!Ids(Line!Page) /\ Line!Ids(Line!Above') = Line!Ids(Line!Above) BY <2>1, <2>3
  <2>5. Line!LineTypes' BY <2>1, <2>2, <2>3 DEF Line!LineTypes
  <2>6. Line!FramesInOrder' BY <2>1, <2>2, <2>3, FramesStay
  <2>7. Line!PagesApart' BY <2>1, <2>2, <2>3 DEF Line!PagesApart
  <2>8. ASSUME ~v13' PROVE Line!Once(v4') /\ Line!DeletionsFollow' /\ Line!NothingBetween'
    <3>1. Line!Once(v4) /\ Line!DeletionsFollow /\ Line!NothingBetween BY <2>1, <2>8 DEF Line!LineInv
    <3>2. Line!DeletionsFollow' BY <2>1, <2>3, <2>4, <3>1 DEF Line!DeletionsFollow
    <3>3. \A j : Line!Due(j)' <=> Line!Due(j) BY <2>1, <2>3, <2>4 DEF Line!Due
    <3>4. (Line!Ids(v4) \cup Line!Coming)' = Line!Ids(v4) \cup Line!Coming BY <2>1, <2>3, <2>4 DEF Line!Coming
    <3>5. Line!NothingBetween' BY <2>1, <2>3, <2>4, <3>1, <3>3, <3>4 DEF Line!NothingBetween
    <3> QED BY <2>1, <3>1, <3>2, <3>5
  <2> QED BY <2>5, <2>6, <2>7, <2>8 DEF Line!LineInv
<1> QED
  BY <1>1, PeerWritesKeepsLine, SendKeepsLine, HearKeepsLine, OpenHistoryKeepsLine, LoadReadKeepsLine,
     LoadedKeepsLine, LoadFailsKeepsLine, LoadMoreKeepsLine, OlderReadKeepsLine, OlderLoadedKeepsLine,
     BreakKeepsLine, ReopenKeepsLine, RowGoesKeepsLine, WithdrawKeepsLine, AnsweredKeepsLine,
     OpenedKeepsLine, SyncedKeepsLine DEF Line!Next

LEMMA ScreenThen == ASSUME Line!LineInv PROVE Line!ScreenIsServer
<1> SUFFICES ASSUME Line!Quiet, ~v13
             PROVE  /\ Line!Cardinality(Line!Ids(v4)) = Len(v4)
                    /\ Line!Newest \subseteq Line!Ids(v4)
                    /\ \A k \in DOMAIN v4 :
                           v1[v4[k].id].state = "announced" => v4[k].gone
  BY DEF Line!ScreenIsServer
<1>1. Line!LineTypes /\ Line!Once(v4) /\ Line!DeletionsFollow /\ Line!NothingBetween BY DEF Line!LineInv
<1>2. /\ v2 = <<>> /\ v3 = {} /\ v5 = Line!Nothing /\ v6 = Line!Nothing /\ v8 = {}
      /\ v11 = {} /\ v10 = "open"
  BY DEF Line!Quiet
<1> DEFINE R == [id : DOMAIN v1, gone : BOOLEAN]
<1>3. PICK n \in Nat : n = Len(v4) /\ DOMAIN v4 = 1..n /\ \A k \in 1..n : v4[k] \in R
  BY <1>1, SeqItems DEF Line!LineTypes
<1>4. Line!Cardinality(Line!Ids(v4)) = Len(v4)
  <2> DEFINE f == [k \in 1..n |-> v4[k].id]
  <2>1. f \in Bijection(1..n, Line!Ids(v4))
    <3>1. \A k \in 1..n : v4[k].id \in Line!Ids(v4) BY <1>3 DEF Line!Ids
    <3>2. f \in [1..n -> Line!Ids(v4)] BY <3>1
    <3>3. \A k, l \in 1..n : f[k] = f[l] => k = l BY <1>1, <1>3 DEF Line!Once
    <3>4. \A i \in Line!Ids(v4) : \E k \in 1..n : f[k] = i BY <1>3 DEF Line!Ids
    <3> HIDE DEF f
    <3>5. DOMAIN f = 1..n BY <3>2
    <3>6. IsInjective(f) BY <3>3, <3>5, Zenon DEF IsInjective
    <3>7. f \in Injection(1..n, Line!Ids(v4)) BY <3>2, <3>6, Zenon DEF Injection
    <3>8. f \in Surjection(1..n, Line!Ids(v4)) BY <3>2, <3>4, Zenon DEF Surjection
    <3> QED BY <3>7, <3>8, Zenon DEF Bijection
  <2>2. IsFiniteSet(1..n) /\ Cardinality(1..n) = n BY FS_Interval
  <2> HIDE DEF f
  <2>3. Cardinality(Line!Ids(v4)) = Cardinality(1..n)
    <3>1. PICK T : T = Line!Ids(v4) OBVIOUS
    <3>2. PICK S : S = 1..n OBVIOUS
    <3>3. IsFiniteSet(S) /\ f \in Bijection(S, T) BY <2>1, <2>2, <3>1, <3>2
    <3>4. ExistsBijection(S, T) BY <3>3, Zenon DEF ExistsBijection
    <3>5. Cardinality(T) = Cardinality(S) BY <3>3, <3>4, FS_Bijection
    <3> QED BY <3>1, <3>2, <3>5
  <2> QED BY <1>3, <2>2, <2>3, LineCardinality
<1>5. Line!Newest \subseteq Line!Ids(v4)
  <2>1. Line!Page = <<>> /\ Line!Ids(Line!Page) = {} BY <1>2 DEF Line!Page, Line!Nothing, Line!Ids
  <2>2. Line!OnWire = {} /\ Line!Sent = {} BY <1>2 DEF Line!OnWire, Line!Sent, Line!Range
  <2>3. \A i : Line!Due(i) => i \in Line!Ids(v4) BY <1>2, <2>1, <2>2 DEF Line!Due
  <2>4. \A i \in Line!Live, j \in Line!Ids(v4) : j <= i => Line!Due(i) BY <1>1, <1>2 DEF Line!NothingBetween
  <2> QED BY <2>3, <2>4 DEF Line!Newest
<1>6. ASSUME NEW k \in DOMAIN v4, v1[v4[k].id].state = "announced" PROVE v4[k].gone
  <2>1. Line!Told = {} /\ Line!Withdrawn = {} BY <1>2 DEF Line!Told, Line!Withdrawn, Line!Range
  <2>2. v4[k] \in R BY <1>3, <1>6
  <2>3. PICK i \in DOMAIN v1, g \in BOOLEAN : v4[k] = Line!Row(i, g) BY <2>2 DEF Line!Row
  <2>4. v4[k].id = i /\ v4[k].gone = g BY <2>3 DEF Line!Row
  <2>5. i \in Line!Announced BY <1>6, <2>4 DEF Line!Announced
  <2>6. i \in Line!Shown(g) BY <1>3, <2>3 DEF Line!Shown, Line!Range
  <2>7. i \notin Line!Shown(FALSE) BY <1>1, <2>1, <2>5 DEF Line!DeletionsFollow
  <2> QED BY <2>4, <2>6, <2>7
<1> QED BY <1>4, <1>5, <1>6

LEMMA LineStep ==
  ASSUME [MCNext]_<<part, slots, paddingVars>>
  PROVE  part' = part /\ (part = "timeline" => Line!Next \/ UNCHANGED slots)
BY Zenon DEF MCNext

(* Once all has arrived, the screen has the rows of the relay once, none of *)
(* the newest is missing and none that was withdrawn is shown as if it were *)
(* there, but in the orders raced names (useChatMessages.ts,                *)
(* useChatSocket.ts).                                                       *)
THEOREM ScreenFollows == MCSpec => []ScreenIsServer
<1> DEFINE I == part = "timeline" => Line!LineInv
<1>1. MCInit => I BY TimelineInit DEF MCInit
<1>2. I /\ [MCNext]_<<part, slots, paddingVars>> => I' BY LineStep, TimelineNext
<1>3. I => ScreenIsServer BY ScreenThen DEF ScreenIsServer
<1> QED BY <1>1, <1>2, <1>3, PTL DEF MCSpec
=============================================================================
