---------------------------- MODULE DeviceProofs ----------------------------
(***************************************************************************)
(* What holds of one device and its account, a part at a time, for any     *)
(* values of their constants: RefreshTokens first, of which MCDevice is an *)
(* extension, then the PIN and the encrypted store, the pre-keys, the      *)
(* identity, the profiles, the sessions and signing in. Each part has an   *)
(* inductive invariant in its own module, the lock-out here; a behaviour   *)
(* of MCDevice is one of one part that was chosen, and PartSteps says so.  *)
(***************************************************************************)
EXTENDS MCDevice, FiniteSetTheorems, SequenceTheorems, TLAPS

Steps == {"idle", "unlock", "try", "write", "confirm", "wait", "asked", "ok", "no", "late", "store"}
Asking == {"try", "write", "confirm", "wait", "asked", "ok", "no", "late"}

TabType(n) ==
    [mem : 0..n, open : BOOLEAN, step : Steps, rt : 0..n, got : 0..n, own : BOOLEAN,
     again : BOOLEAN, bumped : BOOLEAN, robbed : BOOLEAN, spurned : BOOLEAN]

ServerOK ==
    /\ issued \in 1..MaxTokens
    /\ black \subseteq 1..issued /\ stale \subseteq 1..issued /\ lost \subseteq 1..issued
    /\ loaded \in BOOLEAN /\ aware \in BOOLEAN /\ tight \in BOOLEAN
    /\ stored \in [Tokens -> {"none", "fresh", "old"}] /\ Persisted \subseteq 1..issued
    /\ logins \in Nat /\ undone \in Nat

(* A tab that refreshes presents a token that was issued.                   *)
DeviceOK ==
    /\ cipher \in 0..issued
    /\ tab \in [Tabs -> TabType(issued)]
    /\ echo \in [Tabs -> 0..issued]
    /\ \A t \in Tabs : tab[t].step \in Asking => tab[t].rt # 0

(* A token revoked in memory only is one whose revocation has been undone.  *)
MemoryIsKept == black \subseteq Persisted \cup lost

(* The tokens honoured now or after a restart.                              *)
Live == {k \in 1..issued : k \notin stale /\ (k \notin Persisted \/ (loaded /\ k \notin black))}
LiveBound == Cardinality(Live) <= logins + undone

RelayOK == ServerOK /\ MemoryIsKept /\ LiveBound
TokenInv == RelayOK /\ DeviceOK

(* What a step leaves true of the relay.                                    *)
RelayKept == ServerOK' /\ MemoryIsKept' /\ LiveBound' /\ RefusedStays

-----------------------------------------------------------------------------
(* Counting.                                                                *)

(* Every set of issued tokens is finite.                                    *)
LEMMA TokensFinite ==
    ASSUME NEW n \in Nat, NEW S \in SUBSET (1..n)
    PROVE  IsFiniteSet(S) /\ Cardinality(S) \in Nat
<1>1. IsFiniteSet(1..n)
  BY FS_Interval
<1> QED
  BY <1>1, FS_Subset, FS_CardinalityType

(* The live tokens after a step that adds at most those of U.               *)
LEMMA Grows ==
    ASSUME NEW A, NEW B, NEW U, IsFiniteSet(A), IsFiniteSet(U), B \subseteq A \cup U
    PROVE  Cardinality(B) <= Cardinality(A) + Cardinality(U)
<1>1. /\ IsFiniteSet(A \cup U)
      /\ Cardinality(A \cup U) = Cardinality(A) + Cardinality(U) - Cardinality(A \cap U)
  BY FS_Union
<1>2. Cardinality(B) <= Cardinality(A \cup U)
  BY <1>1, FS_Subset
<1>3. IsFiniteSet(A \cap U) /\ IsFiniteSet(B)
  BY <1>1, FS_Subset
<1>4. /\ Cardinality(A) \in Nat /\ Cardinality(U) \in Nat /\ Cardinality(A \cap U) \in Nat
      /\ Cardinality(B) \in Nat
  BY <1>3, FS_CardinalityType
<1> QED
  BY <1>1, <1>2, <1>4

(* One token replaces another that was live, or is counted as undone.       *)
LEMMA Replaces ==
    ASSUME NEW A, NEW B, NEW U, NEW k, NEW new, IsFiniteSet(A), IsFiniteSet(U),
           \/ k \in A /\ B \subseteq ((A \ {k}) \cup U) \cup {new}
           \/ k \in U /\ B \subseteq (A \cup (U \ {k})) \cup {new}
    PROVE  Cardinality(B) <= Cardinality(A) + Cardinality(U)
<1>1. \A X, Y : /\ IsFiniteSet(X) /\ IsFiniteSet(Y)
                /\ B \subseteq (X \cup Y) \cup {new}
                /\ Cardinality(X) + Cardinality(Y) = Cardinality(A) + Cardinality(U) - 1
                => Cardinality(B) <= Cardinality(A) + Cardinality(U)
  <2> SUFFICES ASSUME NEW X, NEW Y, IsFiniteSet(X), IsFiniteSet(Y),
                      B \subseteq (X \cup Y) \cup {new},
                      Cardinality(X) + Cardinality(Y) = Cardinality(A) + Cardinality(U) - 1
               PROVE  Cardinality(B) <= Cardinality(A) + Cardinality(U)
    OBVIOUS
  <2>1. IsFiniteSet(X \cup Y) /\ IsFiniteSet({new}) /\ Cardinality({new}) = 1
    BY FS_Union, FS_Singleton
  <2>2. Cardinality(B) <= Cardinality(X \cup Y) + 1
    BY <2>1, Grows
  <2>3. Cardinality(X \cup Y) <= Cardinality(X) + Cardinality(Y)
    BY Grows
  <2>4. IsFiniteSet(B)
    <3>1. IsFiniteSet((X \cup Y) \cup {new})
      BY <2>1, FS_Union
    <3> QED
      BY <3>1, FS_Subset
  <2>5. /\ Cardinality(B) \in Nat /\ Cardinality(X \cup Y) \in Nat
        /\ Cardinality(X) \in Nat /\ Cardinality(Y) \in Nat
        /\ Cardinality(A) \in Nat /\ Cardinality(U) \in Nat
    BY <2>1, <2>4, FS_CardinalityType
  <2> QED
    BY <2>2, <2>3, <2>5
<1>2. Cardinality(A) \in Nat /\ Cardinality(U) \in Nat
  BY FS_CardinalityType
<1>3. CASE k \in A /\ B \subseteq ((A \ {k}) \cup U) \cup {new}
  <2>1. IsFiniteSet(A \ {k}) /\ Cardinality(A \ {k}) = Cardinality(A) - 1
    BY <1>3, FS_RemoveElement
  <2> QED
    BY <1>1, <1>2, <1>3, <2>1
<1>4. CASE k \in U /\ B \subseteq (A \cup (U \ {k})) \cup {new}
  <2>1. IsFiniteSet(U \ {k}) /\ Cardinality(U \ {k}) = Cardinality(U) - 1
    BY <1>4, FS_RemoveElement
  <2> QED
    BY <1>1, <1>2, <1>4, <2>1
<1> QED
  BY <1>3, <1>4

(* Who is honoured, said without the memory of a check.                     *)
LEMMA HonouredIs ==
    ASSUME ServerOK
    PROVE  Honoured = {k \in 1..issued : k \notin black /\ k \notin stale
                                         /\ (loaded \/ k \notin Persisted)}
BY DEF ServerOK, Honoured, Accepts, Memory, Aware

(* The same of the next state.                                              *)
LEMMA HonouredThen ==
    ASSUME ServerOK'
    PROVE  Honoured' = {k \in 1..issued' : k \notin black' /\ k \notin stale'
                                           /\ (loaded' \/ k \notin Persisted')}
BY DEF ServerOK, Honoured, Accepts, Memory, Aware

(* Live tokens are issued tokens.                                           *)
LEMMA LiveFinite ==
    ASSUME ServerOK
    PROVE  IsFiniteSet(Live) /\ Cardinality(Live) \in Nat
<1>1. issued \in Nat /\ Live \in SUBSET (1..issued)
  BY DEF ServerOK, Live
<1> QED
  BY <1>1, TokensFinite

(* A step that issues nothing, and undoes the revocations of U at most.     *)
LEMMA NothingIssued ==
    ASSUME RelayOK, NEW U \in SUBSET (1..issued),
           ServerOK', logins' = logins, undone' = undone + Cardinality(U),
           Live' \subseteq Live \cup U
    PROVE  LiveBound'
<1>0. issued \in Nat
  BY DEF RelayOK, ServerOK
<1>1. IsFiniteSet(U) /\ Cardinality(U) \in Nat
  BY <1>0, TokensFinite
<1>2. IsFiniteSet(Live) /\ Cardinality(Live) \in Nat
  BY LiveFinite DEF RelayOK
<1>3. Cardinality(Live') <= Cardinality(Live) + Cardinality(U)
  BY <1>1, <1>2, Grows
<1>4. Cardinality(Live') \in Nat
  <2>1. issued' \in Nat /\ Live' \in SUBSET (1..issued')
    BY DEF ServerOK, Live
  <2> QED
    BY <2>1, TokensFinite
<1> QED
  BY <1>1, <1>2, <1>3, <1>4 DEF LiveBound, RelayOK, ServerOK

(* A step that issues a token for the one it takes.                         *)
LEMMA OneForAnother ==
    ASSUME RelayOK, NEW U \in SUBSET (1..issued), NEW k, NEW new,
           ServerOK', logins' = logins, undone' = undone + Cardinality(U),
           \/ k \in Live /\ Live' \subseteq ((Live \ {k}) \cup U) \cup {new}
           \/ k \in U /\ Live' \subseteq (Live \cup (U \ {k})) \cup {new}
    PROVE  LiveBound'
<1>0. issued \in Nat
  BY DEF RelayOK, ServerOK
<1>1. IsFiniteSet(U) /\ Cardinality(U) \in Nat
  BY <1>0, TokensFinite
<1>2. IsFiniteSet(Live) /\ Cardinality(Live) \in Nat
  BY LiveFinite DEF RelayOK
<1>3. Cardinality(Live') <= Cardinality(Live) + Cardinality(U)
  BY <1>1, <1>2, Replaces
<1>4. Cardinality(Live') \in Nat
  <2>1. issued' \in Nat /\ Live' \in SUBSET (1..issued')
    BY DEF ServerOK, Live
  <2> QED
    BY <2>1, TokensFinite
<1> QED
  BY <1>1, <1>2, <1>3, <1>4 DEF LiveBound, RelayOK, ServerOK

(* A token that is taken is in the table only if the list was taken for     *)
(* loaded; it is cut only if nobody could look the cut up.                  *)
LEMMA WhoIsTaken ==
    ASSUME RelayOK, NEW k \in 1..issued, NEW down \in BOOLEAN, Accepts(k, down)
    PROVE  /\ k \notin black
           /\ k \in Persisted => loaded \/ down
           /\ k \in stale => ~aware /\ down
<1>1. k \notin Memory(k, down)
  BY DEF Accepts
<1>2. k \notin black /\ (k \in Persisted => loaded \/ down)
  BY <1>1 DEF Memory
<1>3. Aware(k, down) <=> aware \/ ~down
  BY <1>1 DEF Aware
<1>4. k \in stale => ~Aware(k, down)
  BY DEF Accepts
<1> QED
  BY <1>2, <1>3, <1>4 DEF RelayOK, ServerOK

-----------------------------------------------------------------------------
(* The steps of the relay.                                                  *)

(* A step of a tab leaves the relay alone.                                  *)
LEMMA QuietKeeps ==
    ASSUME RelayOK, UNCHANGED <<server, logins, lost, undone>>
    PROVE  RelayKept
BY DEF RelayOK, RelayKept, ServerOK, MemoryIsKept, LiveBound, Live, Persisted, RefusedStays,
       Honoured, Accepts, Memory, Aware, server

(* A restart forgets what is not in the table: that was undone before.      *)
LEMMA RestartKeeps ==
    ASSUME RelayOK, Restart
    PROVE  RelayKept
<1>1. ServerOK' /\ Persisted' = Persisted
  BY DEF RelayOK, ServerOK, Restart, Persisted
<1>2. MemoryIsKept'
  BY DEF Restart, MemoryIsKept
<1>3. LiveBound'
  <2>1. Live' \subseteq Live
    BY <1>1 DEF Restart, Live
  <2>2. Cardinality(Live') <= Cardinality(Live) /\ Cardinality(Live') \in Nat
    BY <2>1, LiveFinite, FS_Subset, FS_CardinalityType DEF RelayOK
  <2> QED
    BY <2>2, LiveFinite DEF Restart, LiveBound, RelayOK, ServerOK
<1>4. RefusedStays
  BY <1>1, HonouredIs, HonouredThen DEF RelayOK, MemoryIsKept, Restart, RefusedStays, ServerOK
<1> QED
  BY <1>1, <1>2, <1>3, <1>4 DEF RelayKept

(* A check of another token loads the list, or takes it for loaded.         *)
LEMMA VerifyKeeps ==
    ASSUME RelayOK, NEW down \in BOOLEAN, VerifyToken(down)
    PROVE  RelayKept
<1> DEFINE U == Undone(down)
<1>1. Persisted' = Persisted
  BY DEF VerifyToken, Persisted
<1>2. U \subseteq Persisted /\ U \in SUBSET (1..issued)
  BY DEF Undone, RelayOK, ServerOK
<1>3. lost' = lost \cup U /\ undone' = undone + Cardinality(U) /\ Cardinality(U) \in Nat
  <2>1. issued \in Nat
    BY DEF RelayOK, ServerOK
  <2>2. Cardinality(U) \in Nat
    BY <1>2, <2>1, TokensFinite
  <2> QED
    BY <2>2 DEF VerifyToken, Lose
<1>4. ServerOK'
  <2>1. /\ issued' = issued /\ stored' = stored /\ stale' = stale /\ tight' = tight
        /\ logins' = logins /\ loaded' = TRUE /\ aware' = (aware \/ ~down)
        /\ black' \subseteq black \cup Persisted
    BY DEF VerifyToken
  <2>2. aware' \in BOOLEAN
    BY <2>1
  <2>3. black' \subseteq 1..issued' /\ lost' \subseteq 1..issued'
    BY <1>2, <1>3, <2>1 DEF RelayOK, ServerOK
  <2> QED
    BY <1>1, <1>3, <2>1, <2>2, <2>3 DEF RelayOK, ServerOK
<1>5. MemoryIsKept'
  BY <1>1, <1>3 DEF VerifyToken, RelayOK, MemoryIsKept
<1>6. LiveBound'
  <2>1. Live' \subseteq Live \cup U
    BY <1>1 DEF VerifyToken, Live, Undone
  <2> QED
    BY <1>2, <1>3, <1>4, <2>1, NothingIssued DEF VerifyToken
<1>7. RefusedStays
  BY <1>1, <1>3, <1>4, HonouredIs, HonouredThen DEF VerifyToken, RelayOK, RefusedStays, Undone
<1> QED
  BY <1>4, <1>5, <1>6, <1>7 DEF RelayKept

(* Refusing a token can only refuse more.                                   *)
LEMMA RejectKeeps ==
    ASSUME RelayOK, NEW t \in Tabs, NEW down \in BOOLEAN, tab[t].rt \in 1..issued,
           MayFail(tab[t].rt, down), Reject(t, down), UNCHANGED <<logins>>
    PROVE  RelayKept
<1> DEFINE k == tab[t].rt
           U == Undone(down)
<1>1. Persisted' = Persisted
  BY DEF Reject, Persisted
<1>2. U \subseteq Persisted /\ U \in SUBSET (1..issued)
  BY DEF Undone, RelayOK, ServerOK
<1>3. lost' = lost \cup U /\ undone' = undone + Cardinality(U) /\ Cardinality(U) \in Nat
  <2>1. issued \in Nat
    BY DEF RelayOK, ServerOK
  <2>2. Cardinality(U) \in Nat
    BY <1>2, <2>1, TokensFinite
  <2> QED
    BY <2>2 DEF Reject, Lose
<1>4. /\ issued' = issued /\ stored' = stored
      /\ black' = Memory(k, down) /\ loaded' = (loaded \/ k \notin black)
  BY DEF Reject
<1>5. /\ stale \subseteq stale' /\ stale' \subseteq 1..issued
      /\ aware' \in BOOLEAN /\ tight' \in BOOLEAN
  <2>1. CASE stored[k] = "old"
    BY <2>1 DEF Reject, CutAll, RelayOK, ServerOK
  <2>2. CASE stored[k] # "old"
    BY <2>2 DEF Reject, RelayOK, ServerOK, Aware
  <2> QED
    BY <2>1, <2>2
<1>6. ServerOK'
  <2>1. black' \subseteq 1..issued' /\ lost' \subseteq 1..issued' /\ loaded' \in BOOLEAN
    BY <1>2, <1>3, <1>4 DEF RelayOK, ServerOK, Memory
  <2>2. logins' \in Nat /\ undone' \in Nat
    BY <1>3 DEF RelayOK, ServerOK
  <2> QED
    BY <1>1, <1>4, <1>5, <2>1, <2>2 DEF RelayOK, ServerOK
<1>7. MemoryIsKept'
  BY <1>1, <1>3, <1>4 DEF RelayOK, MemoryIsKept, Memory
<1>8. LiveBound'
  <2>1. Live' \subseteq Live \cup U
    BY <1>1, <1>4, <1>5 DEF Live, Undone, Memory
  <2> QED
    BY <1>2, <1>3, <1>6, <2>1, NothingIssued
<1>9. RefusedStays
  BY <1>1, <1>3, <1>4, <1>5, <1>6, HonouredIs, HonouredThen DEF RelayOK, RefusedStays, Undone, Memory
<1> QED
  BY <1>6, <1>7, <1>8, <1>9 DEF RelayKept

(* A rotation gives a token for the one it takes, and takes it for good     *)
(* unless the database fails.                                               *)
LEMMA RotateKeeps ==
    ASSUME RelayOK, NEW t \in Tabs, NEW down \in BOOLEAN, NEW kept \in BOOLEAN,
           tab[t].rt \in 1..issued, Rotate(t, down, kept), UNCHANGED <<logins>>
    PROVE  RelayKept
<1> DEFINE k == tab[t].rt
           U == Undone(down) \cup (stale \cap {k}) \cup (IF kept THEN {} ELSE {k})
<1>0. k \in Tokens /\ 1..issued \subseteq Tokens /\ issued \in Nat
  BY BoundsAssumption DEF RelayOK, ServerOK, Tokens
<1>1. stored' = IF kept THEN [stored EXCEPT ![k] = "fresh"] ELSE stored
  BY DEF Rotate, RevokeOld
<1>2. Persisted' = IF kept THEN Persisted \cup {k} ELSE Persisted
  BY <1>0, <1>1 DEF Persisted, RelayOK, ServerOK
<1>3. U \in SUBSET (1..issued)
  BY DEF Undone, RelayOK, ServerOK
<1>4. lost' = lost \cup U /\ undone' = undone + Cardinality(U) /\ Cardinality(U) \in Nat
  <2>1. lost' = lost \cup U /\ undone' = undone + Cardinality(U)
    BY DEF Rotate, Lose
  <2> QED
    BY <1>0, <1>3, <2>1, TokensFinite
<1>5. /\ Accepts(k, down) /\ black' = Memory(k, down) \cup {k}
      /\ issued < MaxTokens /\ issued' = issued + 1
      /\ stale' = (IF tight THEN stale \cup {issued + 1} ELSE stale)
      /\ tight' = tight /\ aware' = Aware(k, down)
      /\ loaded' = (loaded \/ k \notin black)
  BY DEF Rotate, Issue, Checked
<1>6. /\ k \notin black
      /\ k \in Persisted => loaded \/ down
      /\ k \in stale => ~aware /\ down
  BY <1>5, WhoIsTaken
<1>7. loaded' = TRUE /\ aware' \in BOOLEAN
  BY <1>5, <1>6 DEF Aware, RelayOK, ServerOK
<1>8. ServerOK'
  <2>1. issued' \in 1..MaxTokens /\ 1..issued \subseteq 1..issued'
    BY <1>5, BoundsAssumption DEF RelayOK, ServerOK
  <2>2. stored' \in [Tokens -> {"none", "fresh", "old"}]
    BY <1>1 DEF RelayOK, ServerOK
  <2>3. Persisted' \subseteq 1..issued /\ black' \subseteq 1..issued /\ lost' \subseteq 1..issued
    BY <1>2, <1>3, <1>4, <1>5 DEF RelayOK, ServerOK, Memory
  <2>4. stale' \subseteq 1..issued'
    BY <1>5, <2>1 DEF RelayOK, ServerOK
  <2> QED
    BY <1>4, <1>5, <1>7, <2>1, <2>2, <2>3, <2>4 DEF RelayOK, ServerOK
<1>9. MemoryIsKept'
  BY <1>2, <1>4, <1>5 DEF RelayOK, MemoryIsKept, Memory
<1>10. \A j \in 1..issued : j # k /\ j \in Live' => j \in Live \/ j \in Undone(down)
  BY <1>2, <1>5, <1>6, <1>7 DEF Live, Undone, Memory
<1>11. k \in Live' => k \in U /\ k \in Live
  BY <1>2, <1>5, <1>6 DEF Live
<1>12. k \in Live \/ k \in U
  BY <1>6 DEF Live, Undone
<1>13. \A j \in Live' : j \in 1..issued \/ j = issued + 1
  BY <1>0, <1>5 DEF Live
<1>14. LiveBound'
  <2>1. CASE k \in Live
    <3>1. Live' \subseteq ((Live \ {k}) \cup U) \cup {issued + 1}
      BY <1>10, <1>11, <1>13
    <3> QED
      BY <1>3, <1>4, <1>8, <2>1, <3>1, OneForAnother
  <2>2. CASE k \notin Live
    <3>1. Live' \subseteq (Live \cup (U \ {k})) \cup {issued + 1}
      BY <1>10, <1>11, <1>13, <2>2
    <3> QED
      BY <1>3, <1>4, <1>8, <1>12, <2>2, <3>1, OneForAnother
  <2> QED
    BY <2>1, <2>2
<1>15. RefusedStays
  <2>1. SUFFICES ASSUME NEW j \in 1..issued, j \notin lost', j \notin Honoured
                 PROVE  j \notin Honoured'
    BY DEF RefusedStays
  <2>2. Honoured' = {i \in 1..issued' : i \notin black' /\ i \notin stale'
                                        /\ (loaded' \/ i \notin Persisted')}
    BY <1>8, HonouredThen
  <2>3. j \in black \/ j \in stale \/ (~loaded /\ j \in Persisted)
    BY <2>1, HonouredIs DEF RelayOK
  <2>4. j \in black' \/ j \in stale'
    BY <1>4, <1>5, <1>6, <2>1, <2>3 DEF Memory, Undone
  <2> QED
    BY <2>2, <2>4
<1> QED
  BY <1>8, <1>9, <1>14, <1>15 DEF RelayKept

(* A login adds a token and a login.                                        *)
LEMMA LoginKeeps ==
    ASSUME RelayOK, NEW t \in Tabs, Login(t)
    PROVE  RelayKept
<1>0. issued \in Nat /\ logins \in Nat /\ undone \in Nat
  BY DEF RelayOK, ServerOK
<1>1. /\ issued < MaxTokens /\ issued' = issued + 1 /\ logins' = logins + 1
      /\ stale' = (IF tight THEN stale \cup {issued + 1} ELSE stale)
      /\ black' = black /\ loaded' = loaded /\ stored' = stored /\ aware' = aware
      /\ tight' = tight /\ lost' = lost /\ undone' = undone
  BY DEF Login, Issue
<1>2. Persisted' = Persisted
  BY <1>1 DEF Persisted
<1>3. 1..issued \subseteq 1..issued' /\ issued' \in 1..MaxTokens /\ issued + 1 \in 1..issued'
  BY <1>1, BoundsAssumption DEF RelayOK, ServerOK
<1>4. ServerOK'
  <2>1. stale' \subseteq 1..issued'
    BY <1>1, <1>3 DEF RelayOK, ServerOK
  <2> QED
    BY <1>0, <1>1, <1>2, <1>3, <2>1 DEF RelayOK, ServerOK
<1>5. MemoryIsKept'
  BY <1>1, <1>2 DEF RelayOK, MemoryIsKept
<1>6. LiveBound'
  <2>1. Live' \subseteq Live \cup {issued + 1}
    BY <1>0, <1>1, <1>2 DEF Live
  <2>2. IsFiniteSet(Live) /\ Cardinality(Live) \in Nat
    BY LiveFinite DEF RelayOK
  <2>3. Cardinality(Live') <= Cardinality(Live) + 1
    BY <2>1, <2>2, FS_Singleton, Grows
  <2>4. Cardinality(Live') \in Nat
    <3>1. issued' \in Nat /\ Live' \in SUBSET (1..issued')
      BY <1>0, <1>1 DEF Live
    <3> QED
      BY <3>1, TokensFinite
  <2> QED
    BY <1>0, <1>1, <2>2, <2>3, <2>4 DEF LiveBound, RelayOK
<1>7. RefusedStays
  BY <1>1, <1>2, <1>4, HonouredIs, HonouredThen DEF RelayOK, RefusedStays
<1> QED
  BY <1>4, <1>5, <1>6, <1>7 DEF RelayKept

(* Leaving all devices refuses every token there is.                        *)
LEMMA LogoutAllKeeps ==
    ASSUME RelayOK, NEW t \in Tabs, LogoutAll(t)
    PROVE  RelayKept
<1>1. /\ issued' = issued /\ logins' = logins /\ undone' = undone /\ lost' = lost
      /\ black' = black /\ loaded' = loaded /\ stored' = stored
      /\ stale' = 1..issued /\ aware' = TRUE /\ tight' = TRUE
  BY DEF LogoutAll, CutAll, counts
<1>2. Persisted' = Persisted
  BY <1>1 DEF Persisted
<1>3. ServerOK'
  BY <1>1, <1>2 DEF RelayOK, ServerOK
<1>4. Live' = {}
  BY <1>1 DEF Live
<1>5. LiveBound'
  BY <1>1, <1>4, FS_EmptySet DEF LiveBound, RelayOK, ServerOK
<1>6. MemoryIsKept'
  BY <1>1, <1>2 DEF RelayOK, MemoryIsKept
<1>7. RefusedStays
  BY <1>1, <1>3, HonouredThen DEF RefusedStays
<1> QED
  BY <1>3, <1>5, <1>6, <1>7 DEF RelayKept

(* The clock: a revocation grows old, the second of a cut ends.             *)
LEMMA ClockKeeps ==
    ASSUME RelayOK, SecondEnds \/ \E k \in Tokens : GraceEnds(k)
    PROVE  RelayKept
<1>1. /\ issued' = issued /\ logins' = logins /\ undone' = undone /\ lost' = lost
      /\ black' = black /\ loaded' = loaded /\ stale' = stale /\ aware' = aware
      /\ tight' \in BOOLEAN
  BY DEF SecondEnds, GraceEnds, counts, RelayOK, ServerOK
<1>2. stored' \in [Tokens -> {"none", "fresh", "old"}] /\ Persisted' = Persisted
  BY DEF SecondEnds, GraceEnds, Persisted, RelayOK, ServerOK
<1>3. ServerOK'
  BY <1>1, <1>2 DEF RelayOK, ServerOK
<1>4. MemoryIsKept' /\ LiveBound'
  <2>1. Live' = Live
    BY <1>1, <1>2 DEF Live
  <2> QED
    BY <1>1, <1>2, <2>1 DEF RelayOK, MemoryIsKept, LiveBound
<1>5. RefusedStays
  BY <1>1, <1>2, <1>3, HonouredIs, HonouredThen DEF RelayOK, RefusedStays
<1> QED
  BY <1>3, <1>4, <1>5 DEF RelayKept

-----------------------------------------------------------------------------
(* The tabs.                                                                *)

(* What a tab knows stays a token that was issued.                          *)
LEMMA TypeGrows ==
    ASSUME ServerOK, ServerOK', DeviceOK, issued <= issued'
    PROVE  /\ 0..issued \subseteq 0..issued'
           /\ TabType(issued) \subseteq TabType(issued')
<1>1. 0..issued \subseteq 0..issued'
  BY DEF ServerOK
<1> QED
  BY <1>1 DEF TabType

(* The steps of a tab within its refresh, and those of the user and of time *)
(* that leave the relay alone.                                              *)
QuietStep ==
    \/ \E t \in Tabs : \/ RefreshAccessToken(t) \/ RefreshRefused(t) \/ TabStep(t)
                       \/ Echo(t) \/ Logout(t) \/ Reload(t)
    \/ LockExpires

(* They do leave it alone.                                                  *)
LEMMA QuietIsQuiet ==
    ASSUME QuietStep
    PROVE  UNCHANGED <<server, logins, lost, undone>>
BY DEF QuietStep, RefreshAccessToken, RefreshRefused, TabStep, Echo, Logout, Reload, LockExpires,
       Unlocked, CheckLock, WriteLock, ConfirmLock, RequestLost, Rotated, Refused, WaitEnds, Stored,
       Fail, Go, NoLock, counts

(* A tab's record, one of whose fields changes.                             *)
LEMMA FreshTyped == \A n \in Nat : Fresh \in TabType(n)
BY DEF Fresh, TabType, Steps

(* The end of a refresh.                                                    *)
LEMMA IdleTyped ==
    ASSUME NEW n \in Nat, NEW r \in TabType(n), NEW alone \in BOOLEAN
    PROVE  /\ Idle(r) \in TabType(n) /\ Idle(r).step = "idle"
           /\ Failed(r, alone) \in TabType(n) /\ Failed(r, alone).step = "idle"
           /\ Cleared(Failed(r, alone)) \in TabType(n) /\ Cleared(Failed(r, alone)).step = "idle"
           /\ Cleared(r) \in TabType(n) /\ Cleared(r).step = r.step /\ Cleared(r).rt = r.rt
<1>1. r.mem \in 0..n /\ r.open \in BOOLEAN /\ r.robbed \in BOOLEAN /\ 0 \in 0..n
  BY DEF TabType
<1>2. \A q \in TabType(n) : /\ Cleared(q) \in TabType(n)
                            /\ Cleared(q).step = q.step /\ Cleared(q).rt = q.rt
  BY <1>1 DEF Cleared, TabType
<1>3. Idle(r) \in TabType(n) /\ Idle(r).step = "idle"
  <2>1. Fresh \in TabType(n) /\ Fresh.step = "idle"
    BY FreshTyped DEF Fresh
  <2> QED
    BY <1>1, <2>1 DEF Idle, TabType
<1>4. (r.robbed /\ alone) \in BOOLEAN
  OBVIOUS
<1>5. Failed(r, alone) \in TabType(n) /\ Failed(r, alone).step = "idle"
  BY <1>3, <1>4 DEF Failed, TabType
<1> QED
  BY <1>2, <1>3, <1>5

(* A token is taken over.                                                   *)
LEMMA AdoptTyped ==
    ASSUME NEW n \in Nat, NEW r \in TabType(n), NEW k \in 0..n, NEW own \in BOOLEAN
    PROVE  Adopt(r, k, own) \in TabType(n) /\ Adopt(r, k, own).step = "store"
BY DEF Adopt, TabType, Steps

(* The tabs that hear of a token.                                           *)
LEMMA HeardTyped ==
    ASSUME NEW n \in Nat, NEW tabs \in [Tabs -> TabType(n)], NEW k \in 0..n,
           \A t \in Tabs : tabs[t].step \in Asking => tabs[t].rt # 0
    PROVE  /\ Heard(tabs, k) \in [Tabs -> TabType(n)]
           /\ \A t \in Tabs : Heard(tabs, k)[t].step \in Asking => Heard(tabs, k)[t].rt # 0
           /\ Bumped(tabs) \in [Tabs -> TabType(n)]
           /\ \A t \in Tabs : Bumped(tabs)[t].step \in Asking => Bumped(tabs)[t].rt # 0
<1>1. \A t \in Tabs : Adopt(tabs[t], k, FALSE) \in TabType(n) /\ Adopt(tabs[t], k, FALSE).step = "store"
  BY AdoptTyped
<1>2. \A t \in Tabs : LET r == [tabs[t] EXCEPT !.bumped = TRUE]
                      IN r \in TabType(n) /\ r.step = tabs[t].step /\ r.rt = tabs[t].rt
  BY DEF TabType
<1>3. "store" \notin Asking
  BY DEF Asking
<1> QED
  BY <1>1, <1>2, <1>3 DEF Heard, Bumped

(* A tab whose record changes to one that is in order.                      *)
LEMMA TabChanges ==
    ASSUME DeviceOK, NEW t \in Tabs, NEW r \in TabType(issued),
           r.step \in Asking => r.rt # 0,
           tab' = [tab EXCEPT ![t] = r], issued' = issued, echo' = echo,
           cipher' \in 0..issued
    PROVE  DeviceOK'
BY DEF DeviceOK

(* The end of a refresh leaves the device in order.                         *)
LEMMA FailKeeps ==
    ASSUME ServerOK, DeviceOK, NEW t \in Tabs, NEW alone \in BOOLEAN, Fail(t, alone)
    PROVE  DeviceOK'
<1>1. issued' = issued /\ echo' = echo
  BY DEF Fail, server
<1>2. issued \in Nat /\ tab[t] \in TabType(issued) /\ cipher \in 0..issued /\ 0 \in 0..issued
  BY DEF ServerOK, DeviceOK
<1>3. CASE tab' = [tab EXCEPT ![t] = Cleared(Failed(@, alone))] /\ cipher' = 0
  BY <1>1, <1>2, <1>3, IdleTyped, TabChanges DEF Asking
<1>4. CASE tab' = [tab EXCEPT ![t] = Failed(@, alone)] /\ UNCHANGED cipher
  BY <1>1, <1>2, <1>4, IdleTyped, TabChanges DEF Asking
<1> QED
  BY <1>3, <1>4 DEF Fail

(* One step of a refresh leads to the next.                                 *)
LEMMA GoKeeps ==
    ASSUME ServerOK, DeviceOK, NEW t \in Tabs, NEW to \in Steps, tab[t].rt # 0, Go(t, to)
    PROVE  DeviceOK'
<1> DEFINE r == [tab[t] EXCEPT !.step = to]
<1>1. tab' = [tab EXCEPT ![t] = r] /\ issued' = issued /\ echo' = echo /\ cipher' = cipher
  BY DEF Go, server, shared
<1>2. tab[t] \in TabType(issued) /\ cipher \in 0..issued
  BY DEF DeviceOK
<1>3. r \in TabType(issued) /\ r.rt # 0
  BY <1>2 DEF TabType
<1> QED
  BY <1>1, <1>2, <1>3, TabChanges

(* A refresh begins with the token in memory, or with the one on the disk.  *)
LEMMA BeginKeeps ==
    ASSUME ServerOK, DeviceOK, NEW t \in Tabs, RefreshAccessToken(t)
    PROVE  DeviceOK'
<1> DEFINE r == [tab[t] EXCEPT !.step = "try", !.rt = tab[t].mem, !.spurned = FALSE]
           q == [tab[t] EXCEPT !.step = "unlock", !.spurned = FALSE,
                               !.got = IF tab[t].mem = 0 THEN cipher ELSE 0]
<1>1. tab[t] \in TabType(issued) /\ cipher \in 0..issued /\ 0 \in 0..issued
  BY DEF ServerOK, DeviceOK
<1>2. CASE Fail(t, FALSE)
  BY <1>2, FailKeeps
<1>3. CASE /\ tab[t].mem # 0 /\ tab' = [tab EXCEPT ![t] = r]
           /\ UNCHANGED <<server, shared, echo>>
  <2>1. r \in TabType(issued) /\ (r.step \in Asking => r.rt # 0)
    BY <1>1, <1>3 DEF TabType, Steps
  <2> QED
    BY <1>1, <1>3, <2>1, TabChanges DEF server, shared
<1>4. CASE tab' = [tab EXCEPT ![t] = q] /\ UNCHANGED <<server, shared, echo>>
  <2>1. q \in TabType(issued) /\ q.step = "unlock"
    BY <1>1, <1>4 DEF TabType, Steps
  <2> QED
    BY <1>1, <1>4, <2>1, TabChanges DEF server, shared, Asking
<1> QED
  BY <1>2, <1>3, <1>4 DEF RefreshAccessToken

(* What was decrypted is presented.                                         *)
LEMMA UnlockedKeeps ==
    ASSUME ServerOK, DeviceOK, NEW t \in Tabs, Unlocked(t)
    PROVE  DeviceOK'
<1> DEFINE m == IF tab[t].got # 0 THEN tab[t].got ELSE tab[t].mem
           r == [tab[t] EXCEPT !.mem = m, !.open = TRUE, !.rt = m, !.got = 0,
                               !.step = IF m = 0 THEN "idle" ELSE "try"]
<1>1. tab[t] \in TabType(issued) /\ cipher \in 0..issued /\ 0 \in 0..issued
  BY DEF ServerOK, DeviceOK
<1>2. tab' = [tab EXCEPT ![t] = r] /\ issued' = issued /\ echo' = echo /\ cipher' = cipher
  BY DEF Unlocked, server, shared
<1>3. m \in 0..issued
  BY <1>1 DEF TabType
<1>4. r \in TabType(issued) /\ (r.step \in Asking => r.rt # 0)
  <2>1. (IF m = 0 THEN "idle" ELSE "try") \in Steps
    BY DEF Steps
  <2>2. r \in TabType(issued)
    BY <1>1, <1>3, <2>1 DEF TabType
  <2>3. r.step = (IF m = 0 THEN "idle" ELSE "try") /\ r.rt = m
    BY <1>1 DEF TabType
  <2> QED
    BY <2>2, <2>3 DEF Asking
<1> QED
  BY <1>1, <1>2, <1>4, TabChanges

(* The lock: given up for this turn, or waited for.                         *)
LEMMA NoLockKeeps ==
    ASSUME ServerOK, DeviceOK, NEW t \in Tabs, tab[t].rt # 0, NoLock(t)
    PROVE  DeviceOK'
BY FailKeeps, GoKeeps DEF NoLock, Steps

(* The three accesses to the lock.                                          *)
LEMMA LockKeeps ==
    ASSUME ServerOK, DeviceOK, NEW t \in Tabs, CheckLock(t) \/ WriteLock(t) \/ ConfirmLock(t)
    PROVE  DeviceOK'
<1>1. tab[t] \in TabType(issued) /\ cipher \in 0..issued /\ tab[t].rt # 0
  BY DEF DeviceOK, CheckLock, WriteLock, ConfirmLock, Asking
<1>2. CASE CheckLock(t)
  BY <1>1, <1>2, NoLockKeeps, GoKeeps DEF CheckLock, Steps
<1>3. CASE WriteLock(t)
  <2> DEFINE r == [tab[t] EXCEPT !.step = "confirm"]
  <2>1. tab' = [tab EXCEPT ![t] = r] /\ issued' = issued /\ echo' = echo /\ cipher' = cipher
    BY <1>3 DEF WriteLock, server
  <2>2. r \in TabType(issued) /\ r.rt # 0
    BY <1>1 DEF TabType, Steps
  <2> QED
    BY <1>1, <2>1, <2>2, TabChanges
<1>4. CASE ConfirmLock(t)
  <2> DEFINE r == [tab[t] EXCEPT !.step = "asked", !.bumped = FALSE]
  <2>1. CASE lock # t
    BY <1>1, <1>4, <2>1, NoLockKeeps DEF ConfirmLock
  <2>2. CASE lock = t
    <3>1. tab' = [tab EXCEPT ![t] = r] /\ issued' = issued /\ echo' = echo /\ cipher' = cipher
      BY <1>4, <2>2 DEF ConfirmLock, server, shared
    <3>2. r \in TabType(issued) /\ r.rt # 0
      BY <1>1 DEF TabType, Steps
    <3> QED
      BY <1>1, <3>1, <3>2, TabChanges
  <2> QED
    BY <2>1, <2>2
<1> QED
  BY <1>2, <1>3, <1>4

(* An answer is lost, taken over, or refused; a wait ends.                  *)
LEMMA AnswerKeeps ==
    ASSUME ServerOK, DeviceOK, NEW t \in Tabs,
           RequestLost(t) \/ Rotated(t) \/ Refused(t) \/ WaitEnds(t)
    PROVE  DeviceOK'
<1>0. tab[t].step \in Asking
  BY DEF RequestLost, Rotated, Refused, WaitEnds, Asking
<1>1. tab[t] \in TabType(issued) /\ cipher \in 0..issued /\ tab[t].rt # 0 /\ issued \in Nat
  BY <1>0 DEF ServerOK, DeviceOK
<1>2. CASE RequestLost(t)
  BY <1>2, FailKeeps DEF RequestLost
<1>3. CASE Rotated(t)
  <2>1. /\ tab' = [tab EXCEPT ![t] = Adopt(tab[t], tab[t].got, TRUE)]
        /\ issued' = issued /\ echo' = echo /\ cipher' = cipher
    BY <1>3 DEF Rotated, server, shared
  <2>2. tab[t].got \in 0..issued
    BY <1>1 DEF TabType
  <2>3. /\ Adopt(tab[t], tab[t].got, TRUE) \in TabType(issued)
        /\ Adopt(tab[t], tab[t].got, TRUE).step = "store"
    BY <1>1, <2>2, AdoptTyped
  <2> QED
    BY <1>1, <2>1, <2>3, TabChanges DEF Asking
<1>4. CASE Refused(t)
  BY <1>1, <1>4, FailKeeps, GoKeeps DEF Refused, Steps
<1>5. CASE WaitEnds(t)
  <2> DEFINE r == [tab[t] EXCEPT !.step = "try", !.again = TRUE]
  <2>1. CASE Fail(t, TRUE)
    BY <2>1, FailKeeps
  <2>2. CASE tab' = [tab EXCEPT ![t] = r] /\ UNCHANGED <<server, shared, echo>>
    <3>1. r \in TabType(issued) /\ r.rt # 0
      BY <1>1 DEF TabType, Steps
    <3> QED
      BY <1>1, <2>2, <3>1, TabChanges DEF server, shared
  <2> QED
    BY <1>5, <2>1, <2>2 DEF WaitEnds
<1> QED
  BY <1>2, <1>3, <1>4, <1>5

(* A token is stored, announced and heard.                                  *)
LEMMA StoredKeeps ==
    ASSUME ServerOK, DeviceOK, NEW t \in Tabs, Stored(t) \/ Echo(t)
    PROVE  DeviceOK'
<1>1. /\ tab[t] \in TabType(issued) /\ issued \in Nat /\ issued' = issued /\ 0 \in 0..issued
      /\ tab \in [Tabs -> TabType(issued)] /\ echo \in [Tabs -> 0..issued] /\ cipher \in 0..issued
      /\ \A u \in Tabs : tab[u].step \in Asking => tab[u].rt # 0
  BY DEF ServerOK, DeviceOK, Stored, Echo, server
<1>2. CASE Stored(t)
  <2> DEFINE k == tab[t].got
             done == [tab EXCEPT ![t] = Idle(tab[t])]
  <2>1. k \in 0..issued
    BY <1>1 DEF TabType
  <2>2. Idle(tab[t]) \in TabType(issued) /\ Idle(tab[t]).step = "idle"
    BY <1>1, IdleTyped
  <2>3. /\ done \in [Tabs -> TabType(issued)]
        /\ \A u \in Tabs : done[u].step \in Asking => done[u].rt # 0
    BY <1>1, <2>2 DEF Asking
  <2>4. /\ Heard(done, k) \in [Tabs -> TabType(issued)]
        /\ \A u \in Tabs : Heard(done, k)[u].step \in Asking => Heard(done, k)[u].rt # 0
    BY <1>1, <2>1, <2>3, HeardTyped
  <2>5. /\ Bumped(Heard(done, k)) \in [Tabs -> TabType(issued)]
        /\ \A u \in Tabs : Bumped(Heard(done, k))[u].step \in Asking
                           => Bumped(Heard(done, k))[u].rt # 0
    BY <1>1, <2>1, <2>4, HeardTyped
  <2>6. cipher' \in 0..issued
    BY <1>1, <1>2, <2>1 DEF Stored
  <2>7. \/ tab' = Bumped(Heard(done, k)) /\ echo' = [echo EXCEPT ![t] = k]
        \/ tab' = done /\ echo' = echo
    BY <1>2 DEF Stored
  <2> QED
    BY <1>1, <2>1, <2>3, <2>5, <2>6, <2>7 DEF DeviceOK
<1>3. CASE Echo(t)
  <2>1. /\ Heard(tab, echo[t]) \in [Tabs -> TabType(issued)]
        /\ \A u \in Tabs : Heard(tab, echo[t])[u].step \in Asking => Heard(tab, echo[t])[u].rt # 0
    BY <1>1, HeardTyped
  <2>2. /\ tab' = Heard(tab, echo[t]) /\ echo' = [echo EXCEPT ![t] = 0] /\ cipher' = cipher
    BY <1>3 DEF Echo, shared
  <2> QED
    BY <1>1, <2>1, <2>2 DEF DeviceOK
<1> QED
  BY <1>2, <1>3

(* What the user does: leaving, reloading; and a refusal before the handler. *)
LEMMA UserKeeps ==
    ASSUME ServerOK, DeviceOK, NEW t \in Tabs, Logout(t) \/ Reload(t) \/ RefreshRefused(t)
    PROVE  DeviceOK'
<1>1. tab[t] \in TabType(issued) /\ cipher \in 0..issued /\ issued \in Nat /\ 0 \in 0..issued
  BY DEF ServerOK, DeviceOK
<1>2. CASE Logout(t)
  <2>1. tab' = [tab EXCEPT ![t] = Cleared(tab[t])] /\ cipher' = 0 /\ issued' = issued /\ echo' = echo
    BY <1>2 DEF Logout, server
  <2>2. /\ Cleared(tab[t]) \in TabType(issued)
        /\ Cleared(tab[t]).step = tab[t].step /\ Cleared(tab[t]).rt = tab[t].rt
    BY <1>1, IdleTyped
  <2> QED
    BY <1>1, <2>1, <2>2, TabChanges DEF DeviceOK
<1>3. CASE Reload(t)
  <2>1. /\ tab' = [tab EXCEPT ![t] = Fresh] /\ echo' = [echo EXCEPT ![t] = 0]
        /\ issued' = issued /\ cipher' = cipher
    BY <1>3 DEF Reload, server, shared
  <2>2. Fresh \in TabType(issued) /\ Fresh.step \notin Asking
    BY <1>1, FreshTyped DEF Fresh, Asking
  <2> QED
    BY <1>1, <2>1, <2>2 DEF DeviceOK
<1>4. CASE RefreshRefused(t)
  <2> DEFINE r == [tab[t] EXCEPT !.step = "no", !.got = 0]
  <2>1. tab' = [tab EXCEPT ![t] = r] /\ issued' = issued /\ echo' = echo /\ cipher' = cipher
    BY <1>4 DEF RefreshRefused, Answer, server, shared
  <2>2. r \in TabType(issued) /\ r.rt = tab[t].rt
    BY <1>1 DEF TabType, Steps
  <2>3. tab[t].rt # 0
    BY <1>4 DEF RefreshRefused, DeviceOK, Asking
  <2> QED
    BY <1>1, <2>1, <2>2, <2>3, TabChanges
<1> QED
  BY <1>2, <1>3, <1>4

(* The steps that leave the relay alone leave the device in order.          *)
LEMMA QuietTabs ==
    ASSUME ServerOK, DeviceOK, QuietStep
    PROVE  DeviceOK'
<1>1. CASE LockExpires
  BY <1>1 DEF LockExpires, server, DeviceOK
<1>2. ASSUME NEW t \in Tabs, Unlocked(t) \/ RefreshAccessToken(t)
      PROVE  DeviceOK'
  BY <1>2, UnlockedKeeps, BeginKeeps
<1>3. ASSUME NEW t \in Tabs, CheckLock(t) \/ WriteLock(t) \/ ConfirmLock(t)
      PROVE  DeviceOK'
  BY <1>3, LockKeeps
<1>4. ASSUME NEW t \in Tabs, RequestLost(t) \/ Rotated(t) \/ Refused(t) \/ WaitEnds(t)
      PROVE  DeviceOK'
  BY <1>4, AnswerKeeps
<1>5. ASSUME NEW t \in Tabs, Stored(t) \/ Echo(t)
      PROVE  DeviceOK'
  BY <1>5, StoredKeeps
<1>6. ASSUME NEW t \in Tabs, Logout(t) \/ Reload(t) \/ RefreshRefused(t)
      PROVE  DeviceOK'
  BY <1>6, UserKeeps
<1> QED
  BY <1>1, <1>2, <1>3, <1>4, <1>5, <1>6 DEF QuietStep, TabStep

(* A tab gets the answer of the relay.                                      *)
LEMMA AskedTabs ==
    ASSUME TokenInv, ServerOK', NEW t \in Tabs, RefreshToken(t)
    PROVE  DeviceOK'
<1>1. /\ tab[t] \in TabType(issued) /\ cipher \in 0..issued /\ issued \in Nat /\ issued' \in Nat
      /\ tab \in [Tabs -> TabType(issued)] /\ echo \in [Tabs -> 0..issued]
      /\ \A u \in Tabs : tab[u].step \in Asking => tab[u].rt # 0
  BY DEF TokenInv, RelayOK, ServerOK, DeviceOK
<1>2. tab[t].rt # 0 /\ cipher' = cipher /\ echo' = echo
  BY <1>1 DEF RefreshToken, Asking, shared
<1>3. ASSUME NEW down \in BOOLEAN, NEW kept \in BOOLEAN, Rotate(t, down, kept)
      PROVE  DeviceOK'
  <2> DEFINE r == [tab[t] EXCEPT !.step = "ok", !.got = issued + 1]
             s(u) == [tab[u] EXCEPT !.robbed = @ \/ tab[u].rt = tab[t].rt]
  <2>1. issued' = issued + 1 /\ tab' = [u \in Tabs |-> IF u = t THEN r ELSE s(u)]
    BY <1>3 DEF Rotate, Issue, Robbed
  <2>2. TabType(issued) \subseteq TabType(issued') /\ 0..issued \subseteq 0..issued'
    BY <1>1, <2>1, TypeGrows DEF TokenInv, RelayOK
  <2>3. r \in TabType(issued') /\ r.rt # 0
    <3>1. tab[t] \in TabType(issued') /\ issued + 1 \in 0..issued'
      BY <1>1, <2>1, <2>2
    <3> QED
      BY <1>2, <3>1 DEF TabType, Steps
  <2>4. \A u \in Tabs : s(u) \in TabType(issued') /\ s(u).step = tab[u].step /\ s(u).rt = tab[u].rt
    <3>1. SUFFICES ASSUME NEW u \in Tabs
                   PROVE  s(u) \in TabType(issued') /\ s(u).step = tab[u].step /\ s(u).rt = tab[u].rt
      OBVIOUS
    <3>2. tab[u] \in TabType(issued')
      BY <1>1, <2>2
    <3>3. (tab[u].robbed \/ (tab[u].rt = tab[t].rt)) \in BOOLEAN
      OBVIOUS
    <3> QED
      BY <3>2, <3>3 DEF TabType
  <2> QED
    BY <1>1, <1>2, <2>1, <2>2, <2>3, <2>4 DEF DeviceOK
<1>4. ASSUME NEW down \in BOOLEAN, Reject(t, down)
      PROVE  DeviceOK'
  <2> DEFINE r == [tab[t] EXCEPT !.step = "no", !.got = 0]
  <2>1. tab' = [tab EXCEPT ![t] = r] /\ issued' = issued
    BY <1>4 DEF Reject, Answer
  <2>2. 0 \in 0..issued
    BY <1>1
  <2>3. r \in TabType(issued) /\ r.rt # 0
    BY <1>1, <1>2, <2>2 DEF TabType, Steps
  <2> QED
    BY <1>1, <1>2, <2>1, <2>3, TabChanges DEF TokenInv
<1> QED
  BY <1>3, <1>4 DEF RefreshToken

(* A tab signs in, or leaves all devices.                                   *)
LEMMA SignedTabs ==
    ASSUME TokenInv, ServerOK', NEW t \in Tabs, Login(t) \/ LogoutAll(t)
    PROVE  DeviceOK'
<1>1. /\ tab[t] \in TabType(issued) /\ cipher \in 0..issued /\ issued \in Nat /\ 0 \in 0..issued
      /\ tab \in [Tabs -> TabType(issued)] /\ echo \in [Tabs -> 0..issued]
      /\ \A u \in Tabs : tab[u].step \in Asking => tab[u].rt # 0
  BY DEF TokenInv, RelayOK, ServerOK, DeviceOK
<1>2. CASE Login(t)
  <2> DEFINE r == Adopt(tab[t], issued + 1, FALSE)
  <2>1. issued' = issued + 1 /\ tab' = [tab EXCEPT ![t] = r] /\ cipher' = cipher /\ echo' = echo
    BY <1>2 DEF Login, Issue, shared
  <2>2. TabType(issued) \subseteq TabType(issued') /\ 0..issued \subseteq 0..issued'
    BY <1>1, <2>1, TypeGrows DEF TokenInv, RelayOK
  <2>3. r \in TabType(issued') /\ r.step \notin Asking
    <3>1. tab[t] \in TabType(issued') /\ issued + 1 \in 0..issued' /\ issued' \in Nat
      BY <1>1, <2>1, <2>2
    <3> QED
      BY <3>1, AdoptTyped DEF Asking
  <2> QED
    BY <1>1, <2>1, <2>2, <2>3 DEF DeviceOK
<1>3. CASE LogoutAll(t)
  <2>1. tab' = [tab EXCEPT ![t] = Cleared(tab[t])] /\ cipher' = 0 /\ issued' = issued /\ echo' = echo
    BY <1>3 DEF LogoutAll
  <2>2. /\ Cleared(tab[t]) \in TabType(issued)
        /\ Cleared(tab[t]).step = tab[t].step /\ Cleared(tab[t]).rt = tab[t].rt
    BY <1>1, IdleTyped
  <2> QED
    BY <1>1, <2>1, <2>2, TabChanges DEF TokenInv
<1> QED
  BY <1>2, <1>3

-----------------------------------------------------------------------------
(* Every step, and the theorems.                                            *)

(* One step of the relay or of a tab.                                       *)
LEMMA StepKeeps ==
    ASSUME TokenInv, [Next]_tokenVars
    PROVE  RelayKept /\ DeviceOK'
<1> USE DEF TokenInv
<1>1. CASE QuietStep
  BY <1>1, QuietIsQuiet, QuietKeeps, QuietTabs DEF RelayOK
<1>2. ASSUME NEW t \in Tabs, RefreshToken(t)
      PROVE  RelayKept /\ DeviceOK'
  <2>1. tab[t].rt \in 1..issued /\ logins' = logins
    <3>1. tab[t].rt # 0 /\ tab[t].rt \in 0..issued /\ logins' = logins
      BY <1>2 DEF RefreshToken, DeviceOK, TabType, Asking
    <3> QED
      BY <3>1 DEF RelayOK, ServerOK
  <2>2. RelayKept
    BY <1>2, <2>1, RotateKeeps, RejectKeeps DEF RefreshToken
  <2> QED
    BY <1>2, <2>2, AskedTabs DEF RelayKept
<1>3. ASSUME NEW t \in Tabs, Login(t) \/ LogoutAll(t)
      PROVE  RelayKept /\ DeviceOK'
  <2>1. RelayKept
    BY <1>3, LoginKeeps, LogoutAllKeeps
  <2> QED
    BY <1>3, <2>1, SignedTabs DEF RelayKept
<1>4. CASE SecondEnds \/ \E k \in Tokens : GraceEnds(k)
  <2>1. RelayKept
    BY <1>4, ClockKeeps
  <2>2. UNCHANGED <<issued, shared, tab, echo>>
    BY <1>4 DEF SecondEnds, GraceEnds
  <2> QED
    BY <2>1, <2>2 DEF DeviceOK, shared
<1>5. CASE Restart \/ \E down \in BOOLEAN : VerifyToken(down)
  <2>1. RelayKept
    BY <1>5, RestartKeeps, VerifyKeeps
  <2>2. UNCHANGED <<issued, shared, tab, echo>>
    BY <1>5 DEF Restart, VerifyToken
  <2> QED
    BY <2>1, <2>2 DEF DeviceOK, shared
<1>6. CASE UNCHANGED tokenVars
  <2>1. UNCHANGED <<server, shared, tab, echo, logins, lost, undone>>
    BY <1>6 DEF tokenVars, counts
  <2>2. RelayKept
    BY <2>1, QuietKeeps
  <2> QED
    BY <2>1, <2>2 DEF DeviceOK, shared, server
<1> QED
  BY <1>1, <1>2, <1>3, <1>4, <1>5, <1>6 DEF Next, QuietStep

(* The start: one token, nothing revoked.                                   *)
LEMMA InitHolds == Init => TokenInv
<1> SUFFICES ASSUME Init PROVE TokenInv
  OBVIOUS
<1>1. issued = 1 /\ issued \in 1..MaxTokens /\ 0 \in 0..issued /\ 1 \in 0..issued
  BY BoundsAssumption DEF Init
<1>2. Persisted = {}
  BY DEF Init, Persisted
<1>3. ServerOK
  BY <1>1, <1>2 DEF Init, ServerOK
<1>4. MemoryIsKept
  BY DEF Init, MemoryIsKept
<1>5. LiveBound
  <2>1. Live \subseteq {1}
    BY <1>1 DEF Live
  <2>2. IsFiniteSet({1}) /\ Cardinality({1}) = 1
    BY FS_Singleton
  <2>3. Cardinality(Live) <= 1
    BY <2>1, <2>2, FS_Subset
  <2> QED
    BY <2>3 DEF LiveBound, Init
<1>6. DeviceOK
  <2>1. Fresh \in TabType(issued) /\ Fresh.step \notin Asking
    BY <1>1, FreshTyped DEF Fresh, Asking
  <2> QED
    BY <1>1, <2>1 DEF Init, DeviceOK
<1> QED
  BY <1>3, <1>4, <1>5, <1>6 DEF TokenInv, RelayOK

(* The relay's tables and the tabs keep their types, a refresh presents a   *)
(* token that was issued, and every token revoked in memory only is one     *)
(* whose revocation a failure of the database has undone.                   *)
THEOREM TokensInvariant == Spec => []TokenInv
<1>1. TokenInv /\ [Next]_tokenVars => TokenInv'
  BY StepKeeps DEF TokenInv, RelayOK, RelayKept
<1> QED
  BY InitHolds, <1>1, PTL DEF Spec

(* Honoured tokens are live ones.                                           *)
LEMMA HonouredAreFew == TokenInv => OneLiveToken
<1> SUFFICES ASSUME TokenInv PROVE OneLiveToken
  OBVIOUS
<1>1. ServerOK /\ LiveBound
  BY DEF TokenInv, RelayOK
<1>2. Honoured \subseteq Live
  BY <1>1, HonouredIs DEF Live
<1>3. IsFiniteSet(Live) /\ Cardinality(Live) \in Nat
  BY <1>1, LiveFinite
<1>4. Cardinality(Honoured) <= Cardinality(Live) /\ Cardinality(Honoured) \in Nat
  BY <1>2, <1>3, FS_Subset, FS_CardinalityType
<1> QED
  BY <1>1, <1>3, <1>4 DEF OneLiveToken, LiveBound, ServerOK

(* refresh (auth.py): rotation leaves one token per login that the relay    *)
(* takes, and one more for each time a failing database has undone a        *)
(* revocation, for any number of tabs, restarts and lost answers.           *)
THEOREM RotationLeavesOne == Spec => []OneLiveToken
BY TokensInvariant, HonouredAreFew, PTL

(* utils/security.py: what was refused stays refused, whatever is restarted *)
(* or reloaded, unless the database failed.                                 *)
THEOREM RevocationIsFinal == Spec => RevocationsLast
<1>1. TokenInv /\ [Next]_tokenVars => [RefusedStays]_tokenVars
  BY StepKeeps DEF RelayKept
<1> QED
  BY TokensInvariant, <1>1, PTL DEF Spec, RevocationsLast

-----------------------------------------------------------------------------
(* The PIN: the pad and its lock-out.                                       *)

LEMMA GateInit == ASSUME Gate!Init PROVE Gate!GateInv
BY DEF Gate!Init, Gate!GateInv, Gate!LockoutHolds

LEMMA GateNext == ASSUME Gate!GateInv, Gate!Next \/ UNCHANGED slots PROVE Gate!GateInv'
<1> USE DEF Gate!GateInv, Gate!LockoutHolds
<1>1. CASE UNCHANGED slots
  BY <1>1 DEF slots
<1>2. ASSUME NEW t \in Pair, Gate!SessionGood(t) PROVE Gate!GateInv'
  BY <1>2 DEF Gate!SessionGood, Gate!MountPad
<1>3. ASSUME NEW t \in Pair, Gate!SessionUnknown(t) \/ Gate!SessionRefused(t) PROVE Gate!GateInv'
  BY <1>3 DEF Gate!SessionUnknown, Gate!SessionRefused
<1>4. ASSUME NEW t \in Pair, Gate!Navigate(t) \/ Gate!Reload(t) PROVE Gate!GateInv'
  BY <1>4 DEF Gate!Navigate, Gate!Reload
<1>5. ASSUME NEW t \in Pair, (\E ok \in BOOLEAN : Gate!HandleDigit(t, ok)) \/ Gate!HandleDelete(t)
      PROVE  Gate!GateInv'
  BY <1>5 DEF Gate!HandleDigit, Gate!HandleDelete
<1>6. ASSUME NEW t \in Pair, Gate!LockoutEnds(t) PROVE Gate!GateInv'
  BY <1>6 DEF Gate!LockoutEnds
<1>7. ASSUME NEW c \in v10, Gate!Verified(c) \/ Gate!Unlocked(c) PROVE Gate!GateInv'
  BY <1>7 DEF Gate!Verified, Gate!Unlocked
<1>8. ASSUME NEW c \in v10, Gate!Failed(c) PROVE Gate!GateInv'
  BY <1>8, DeviceAssumption DEF Gate!Failed
<1>9. CASE Gate!Tick
  BY <1>9 DEF Gate!Tick
<1> QED BY <1>1, <1>2, <1>3, <1>4, <1>5, <1>6, <1>7, <1>8, <1>9 DEF Gate!Next

-----------------------------------------------------------------------------
(* The encrypted store.                                                     *)

LEMMA StoreInit == ASSUME Store!Init PROVE Store!KeystoreInv
BY DEF Store!Init, Store!KeystoreInv, Store!Types, Store!Under, Store!NoRewrap, Store!Busy,
       Store!Keys

LEMMA StoreNext == ASSUME Store!KeystoreInv, Store!Next \/ UNCHANGED slots PROVE Store!KeystoreInv'
<1> USE DEF Store!KeystoreInv, Store!Types, Store!Under, Store!NoRewrap, Store!Busy, Store!Keys
<1>1. CASE UNCHANGED slots
  BY <1>1 DEF slots
<1>2. ASSUME NEW r \in Store!All, Store!Encrypt(r) PROVE Store!KeystoreInv'
  <2>1. UNCHANGED <<v1, v2, v4, v5, v6>> /\ v4 = "open" /\ v7' = v7 \cup {<<r, v5>>}
        /\ (~v9' => ~v9 /\ ~Store!Busy)
    BY <1>2 DEF Store!Encrypt
  <2>2. ~v9 /\ ~Store!Busy => \A x \in v7' : x[2] = v2 BY <2>1
  <2> QED BY <2>1, <2>2
<1>3. ASSUME NEW r \in Store!All, NEW k \in Store!Keys, Store!Put(r, k) PROVE Store!KeystoreInv'
  BY <1>3 DEF Store!Put
<1>4. CASE Store!ClearNamespace
  BY <1>4 DEF Store!ClearNamespace, Store!All
<1>5. ASSUME NEW pin \in Pair, Store!UnlockWithPin(pin) PROVE Store!KeystoreInv'
  BY <1>5 DEF Store!UnlockWithPin
<1>6. CASE Store!LockoutEnds \/ Store!LockCrypto
  BY <1>6 DEF Store!LockoutEnds, Store!LockCrypto, Store!Shut
<1>7. CASE Store!Reload
  BY <1>7 DEF Store!Reload, Store!Shut
<1>8. ASSUME NEW from \in Store!Keys, NEW to \in Store!Keys, Store!Begin(from, to) PROVE Store!KeystoreInv'
  BY <1>8 DEF Store!Begin
<1>9. CASE Store!DecryptAll
  <2>1. UNCHANGED <<v1, v2, v4, v7, v9>> /\ v6.at = "read" /\ Store!Busy
    BY <1>9 DEF Store!DecryptAll
  <2>2. CASE \A r \in Records : v1[r] \in {Store!Gone, v5}
    <3>1. v5' = v6.to /\ v6' = [v6 EXCEPT !.at = "write", !.has = {r \in Records : v1[r] # Store!Gone}]
      BY <1>9, <2>2 DEF Store!DecryptAll
    <3>2. v6'.at = "write" /\ v6'.to = v6.to /\ v6'.has = {r \in Records : v1[r] # Store!Gone}
      BY <3>1
    <3>3. Store!Types' BY <2>1, <3>1, <3>2
    <3> QED BY <2>1, <3>1, <3>2, <3>3
  <2>3. CASE ~ \A r \in Records : v1[r] \in {Store!Gone, v5}
    <3>1. v6' = Store!NoRewrap /\ v5' = v5 BY <1>9, <2>3 DEF Store!DecryptAll
    <3> QED BY <2>1, <3>1 DEF Store!All
  <2> QED BY <2>2, <2>3
<1>10. CASE Store!WriteAll
  BY <1>10 DEF Store!WriteAll, Store!All
<1>11. CASE Store!RepersistRefresh
  BY <1>11 DEF Store!RepersistRefresh, Store!All
<1>12. CASE Store!SetPin
  BY <1>12 DEF Store!SetPin
<1> QED
  BY <1>1, <1>2, <1>3, <1>4, <1>5, <1>6, <1>7, <1>8, <1>9, <1>10, <1>11, <1>12 DEF Store!Next

-----------------------------------------------------------------------------
(* The pre-keys.                                                            *)

LEMMA PreKeysInit == ASSUME PreKey!Init PROVE PreKey!PreKeysInv
BY DeviceAssumption
   DEF PreKey!Init, PreKey!PreKeysInv, PreKey!ClaimedOnce, PreKey!CarriedOnce, PreKey!Got,
       PreKey!Carries, PreKey!At, PreKey!Idle, PreKey!MatchesIdentity

(* Keys that nobody asks for, claims or adds stay as they are claimed.      *)
LEMMA ClaimsRest ==
  ASSUME PreKey!ClaimedOnce, UNCHANGED <<v10, v11, v7>>, v6' \subseteq v6
  PROVE  PreKey!ClaimedOnce'
BY DEF PreKey!ClaimedOnce, PreKey!Got

LEMMA RequestsKeepClaims ==
  ASSUME PreKey!ClaimedOnce, NEW a \in Pair,
         \/ PreKey!AskBundle(a) \/ PreKey!FindCandidate(a)
         \/ PreKey!Claim(a) \/ PreKey!AnswerBundle(a)
  PROVE  PreKey!ClaimedOnce'
<1> USE DEF PreKey!ClaimedOnce, PreKey!Got
<1>1. UNCHANGED v7 BY DEF PreKey!AskBundle, PreKey!FindCandidate, PreKey!Claim,
       PreKey!AnswerBundle, PreKey!serverVars
<1>2. None \notin 1..v7 BY DeviceAssumption
<1>3. CASE PreKey!AskBundle(a) \/ PreKey!FindCandidate(a)
  <2>1. UNCHANGED <<v6, v11>> /\ v10[a][1] \in {"idle", "candidate"}
    BY <1>3 DEF PreKey!AskBundle, PreKey!FindCandidate, PreKey!serverVars
  <2>2. PICK pc, spk, opk, n : PreKey!Step(a, pc, spk, opk, n) /\ (pc \in {"answer", "done"} => opk = None)
    BY <1>3 DEF PreKey!AskBundle, PreKey!FindCandidate
  <2>3. PreKey!Got(a) = None BY <2>1
  <2>4. \A b \in Pair : v10'[b] = IF b = a THEN <<pc, spk, opk, n>> ELSE v10[b]
    BY <2>2 DEF PreKey!Step
  <2>5. \A b \in Pair : PreKey!Got(b)' = PreKey!Got(b) BY <2>2, <2>3, <2>4
  <2>6. v10' = [b \in Pair |-> v10'[b]] BY <2>2 DEF PreKey!Step
  <2> HIDE DEF PreKey!Got
  <2> QED BY <1>1, <2>1, <2>5, <2>6
<1>4. CASE PreKey!Claim(a)
  <2>1. UNCHANGED v11 /\ v10[a][1] = "claim" /\ v6' = v6 \ {v10[a][3]} BY <1>4 DEF PreKey!Claim
  <2>2. PICK pc, spk, opk, n :
          /\ PreKey!Step(a, pc, spk, opk, n)
          /\ pc \in {"answer", "done"} => opk = None \/ (opk = v10[a][3] /\ opk \in v6)
    BY <1>4 DEF PreKey!Claim
  <2>3. \A b \in Pair : v10'[b] = IF b = a THEN <<pc, spk, opk, n>> ELSE v10[b]
    BY <2>2 DEF PreKey!Step
  <2>4. v10' = [b \in Pair |-> v10'[b]] BY <2>2 DEF PreKey!Step
  <2>5. \A b \in Pair : b # a => PreKey!Got(b)' = PreKey!Got(b) BY <2>3
  <2>6. PreKey!Got(a) = None /\ (PreKey!Got(a)' = None \/ (PreKey!Got(a)' = v10[a][3] /\ v10[a][3] \in v6))
    BY <2>1, <2>2, <2>3
  <2> HIDE DEF PreKey!Got
  <2> QED BY <1>1, <1>2, <2>1, <2>4, <2>5, <2>6
<1>5. CASE PreKey!AnswerBundle(a)
  <2>1. UNCHANGED v6 /\ v11' = [v11 EXCEPT ![a] = v10[a][3]] /\ v10[a][1] = "answer"
        /\ PreKey!Step(a, "done", v10[a][2], v10[a][3], 0)
    BY <1>5 DEF PreKey!AnswerBundle
  <2>2. \A b \in Pair : PreKey!Got(b)' = PreKey!Got(b) BY <2>1 DEF PreKey!Step
  <2>3. v10' = [b \in Pair |-> v10'[b]] BY <2>1 DEF PreKey!Step
  <2>4. PreKey!Got(a) = v10[a][3] BY <2>1
  <2> HIDE DEF PreKey!Got
  <2> QED BY <1>1, <2>1, <2>2, <2>3, <2>4
<1> QED BY <1>3, <1>4, <1>5

(* The calls of the page leave the claims, and so does what the relay loses.*)
LEMMA PreKeysClaims ==
  ASSUME PreKey!ClaimedOnce, PreKey!Next \/ UNCHANGED slots PROVE PreKey!ClaimedOnce'
<1>1. CASE UNCHANGED slots BY <1>1, ClaimsRest DEF slots
<1>2. CASE PreKey!PageLoads \/ PreKey!CacheExpires \/ PreKey!DatabaseLost
  BY <1>2, ClaimsRest DEF PreKey!PageLoads, PreKey!CacheExpires, PreKey!DatabaseLost,
     PreKey!askVars, PreKey!serverVars
<1>3. ASSUME NEW h \in PreKey!Healers,
             \/ PreKey!ReadSetup(h) \/ PreKey!ReadEnsure(h) \/ PreKey!CheckServer(h)
             \/ PreKey!Land(h) \/ PreKey!LandAgain(h) \/ PreKey!Save(h) \/ PreKey!CallFails(h)
      PROVE  PreKey!ClaimedOnce'
  BY <1>3, ClaimsRest DEF PreKey!ReadSetup, PreKey!ReadEnsure, PreKey!CheckServer, PreKey!Land,
     PreKey!LandAgain, PreKey!Save, PreKey!CallFails, PreKey!Upload, PreKey!askVars,
     PreKey!serverVars
<1>4. ASSUME NEW h \in PreKey!Healers, PreKey!UploadOpks(h) PROVE PreKey!ClaimedOnce'
  <2>1. CASE UNCHANGED <<v6, v7>>
    BY <1>4, <2>1, ClaimsRest DEF PreKey!UploadOpks, PreKey!askVars
  <2>2. CASE v7' = v7 + 1 /\ v6' = v6 \cup {v7 + 1}
    BY <1>4, <2>2 DEF PreKey!UploadOpks, PreKey!askVars, PreKey!ClaimedOnce, PreKey!Got
  <2> QED BY <1>4, <2>1, <2>2 DEF PreKey!UploadOpks
<1> QED BY <1>1, <1>2, <1>3, <1>4, RequestsKeepClaims DEF PreKey!Next

LEMMA PreKeysCarried ==
  ASSUME PreKey!CarriedOnce, PreKey!Next \/ UNCHANGED slots PROVE PreKey!CarriedOnce'
<1> USE DEF PreKey!CarriedOnce, PreKey!Carries, PreKey!At, PreKey!Go
<1>1. CASE UNCHANGED slots BY <1>1 DEF slots, PreKey!MatchesIdentity
<1>2. CASE PreKey!PageLoads
  <2>1. UNCHANGED <<v1, v5, v12>> /\ (~v13' => ~v13 /\ \A h \in PreKey!Healers : ~PreKey!At(h, "landed"))
    BY <1>2 DEF PreKey!PageLoads, PreKey!serverVars
  <2>2. v3' = [h \in PreKey!Healers |-> v3'[h]] /\ \A h \in PreKey!Healers : v3'[h][1] \in {"read", "idle"}
    BY <1>2 DEF PreKey!PageLoads, PreKey!Idle
  <2> QED BY <2>1, <2>2
<1>3. CASE PreKey!CacheExpires \/ PreKey!DatabaseLost
  BY <1>3 DEF PreKey!CacheExpires, PreKey!DatabaseLost, PreKey!deviceVars, PreKey!MatchesIdentity
<1>4. ASSUME NEW a \in Pair,
             \/ PreKey!AskBundle(a) \/ PreKey!FindCandidate(a)
             \/ PreKey!Claim(a) \/ PreKey!AnswerBundle(a)
      PROVE  PreKey!CarriedOnce'
  BY <1>4 DEF PreKey!AskBundle, PreKey!FindCandidate, PreKey!Claim, PreKey!AnswerBundle,
     PreKey!deviceVars, PreKey!serverVars, PreKey!MatchesIdentity
<1>5. ASSUME NEW h \in PreKey!Healers, PreKey!ReadSetup(h) PROVE PreKey!CarriedOnce'
  <2>1. UNCHANGED <<v1, v5, v13>> /\ v3[h][1] \in {"read", "setup"}
    BY <1>5 DEF PreKey!ReadSetup, PreKey!serverVars
  <2>2. CASE PreKey!MatchesIdentity(v1)
    <3>1. v3' = [v3 EXCEPT ![h] = <<"idle", None>>] /\ v12' = v12
      BY <1>5, <2>2 DEF PreKey!ReadSetup
    <3> QED BY <2>1, <3>1 DEF PreKey!MatchesIdentity
  <2>3. CASE ~PreKey!MatchesIdentity(v1)
    <3>1. v3' = [v3 EXCEPT ![h] = <<"upload", v2 + 1>>]
          /\ (~v12' => ~v12 /\ \A g \in PreKey!Healers \ {h} : ~PreKey!Carries(g))
      BY <1>5, <2>3 DEF PreKey!ReadSetup, PreKey!MakeSpk
    <3>2. \A g \in PreKey!Healers : v3'[g] = IF g = h THEN <<"upload", v2 + 1>> ELSE v3[g]
      BY <3>1
    <3>3. v3' = [g \in PreKey!Healers |-> v3'[g]] BY <3>1
    <3>4. \A g \in PreKey!Healers : PreKey!At(g, "landed")' <=> PreKey!At(g, "landed")
      BY <2>1, <3>2
    <3>5. PreKey!MatchesIdentity(v1') <=> PreKey!MatchesIdentity(v1) BY <2>1
    <3> QED BY <2>1, <2>3, <3>1, <3>2, <3>3, <3>4, <3>5
  <2> QED BY <2>2, <2>3
<1>6. ASSUME NEW h \in PreKey!Healers, PreKey!ReadEnsure(h) PROVE PreKey!CarriedOnce'
  BY <1>6 DEF PreKey!ReadEnsure, PreKey!serverVars, PreKey!MatchesIdentity
<1>7. ASSUME NEW h \in PreKey!Healers, PreKey!CheckServer(h) PROVE PreKey!CarriedOnce'
  BY <1>7 DEF PreKey!CheckServer, PreKey!serverVars, PreKey!MatchesIdentity
<1>8. ASSUME NEW h \in PreKey!Healers, PreKey!Land(h) PROVE PreKey!CarriedOnce'
  BY <1>8 DEF PreKey!Land, PreKey!Upload, PreKey!MatchesIdentity
<1>9. ASSUME NEW h \in PreKey!Healers, PreKey!LandAgain(h) PROVE PreKey!CarriedOnce'
  BY <1>9 DEF PreKey!LandAgain, PreKey!Upload, PreKey!MatchesIdentity
<1>10. ASSUME NEW h \in PreKey!Healers, PreKey!Save(h) PROVE PreKey!CarriedOnce'
  BY <1>10 DEF PreKey!Save, PreKey!serverVars, PreKey!MatchesIdentity
<1>11. ASSUME NEW h \in PreKey!Healers, PreKey!CallFails(h) PROVE PreKey!CarriedOnce'
  BY <1>11 DEF PreKey!CallFails, PreKey!serverVars, PreKey!MatchesIdentity
<1>12. ASSUME NEW h \in PreKey!Healers, PreKey!UploadOpks(h) PROVE PreKey!CarriedOnce'
  BY <1>12 DEF PreKey!UploadOpks, PreKey!MatchesIdentity
<1> QED
  BY <1>1, <1>2, <1>3, <1>4, <1>5, <1>6, <1>7, <1>8, <1>9, <1>10, <1>11, <1>12 DEF PreKey!Next

LEMMA PreKeysThen == ASSUME PreKey!PreKeysInv PROVE PreKey!HandedOnce /\ PreKey!SpkOfTheDevice
<1>1. PreKey!HandedOnce BY DEF PreKey!PreKeysInv, PreKey!ClaimedOnce, PreKey!HandedOnce
<1>2. PreKey!SpkOfTheDevice
  BY DEF PreKey!PreKeysInv, PreKey!CarriedOnce, PreKey!SpkOfTheDevice, PreKey!At
<1> QED BY <1>1, <1>2

-----------------------------------------------------------------------------
(* The identity.                                                            *)

LEMMA OwnerInit == ASSUME Owner!Init PROVE Owner!IdentityInv
<1> USE DEF Owner!Init
<1>1. Owner!Types
  <2>1. v8 \in [at : {"asked", "done"}] OBVIOUS
  <2>2. {v1, v3, v6, v7, v9, v13} \subseteq BOOLEAN BY Zenon
  <2>3. v11 \in Nat /\ v12 \in 0..v11 OBVIOUS
  <2>4. v4 \in {None} /\ v10 \in {"none", "asked", "accepted"} OBVIOUS
  <2> HIDE DEF Owner!Init
  <2> QED BY <2>1, <2>2, <2>3, <2>4 DEF Owner!Types
<1>2. Owner!MoveOK BY DEF Owner!MoveOK, Owner!Moving, Owner!Movable
<1>3. Owner!AccountOK BY DEF Owner!AccountOK
<1>4. Owner!PinOK BY DEF Owner!PinOK
<1>5. Owner!OldIsKept /\ Owner!Opens BY DEF Owner!OldIsKept, Owner!Opens
<1> QED BY <1>1, <1>2, <1>3, <1>4, <1>5 DEF Owner!IdentityInv

LEMMA OwnerNext == ASSUME Owner!IdentityInv, Owner!Next \/ UNCHANGED slots PROVE Owner!IdentityInv'
<1> USE DEF Owner!IdentityInv, Owner!Types, Owner!MoveOK, Owner!AccountOK, Owner!PinOK,
            Owner!OldIsKept, Owner!Opens, Owner!Moving, Owner!Movable, Owner!Clean, Owner!Order,
            Owner!Done, Owner!After, Owner!Locked
<1>1. CASE UNCHANGED slots
  BY <1>1 DEF slots
<1>2. CASE Owner!InitSecureStorage
  BY <1>2 DEF Owner!InitSecureStorage
<1>3. CASE Owner!PageLoads
  BY <1>3 DEF Owner!PageLoads
<1>4. ASSUME NEW k \in 1..Len(Owner!Order), Owner!Write(k) PROVE Owner!IdentityInv'
  BY <1>4, DeviceAssumption DEF Owner!Write
<1>5. ASSUME NEW k \in 1..Len(Owner!Order), Owner!Erase(k) PROVE Owner!IdentityInv'
  BY <1>5 DEF Owner!Erase
<1>6. CASE Owner!SetPin
  BY <1>6, DeviceAssumption DEF Owner!SetPin
<1>7. CASE Owner!PinGiven \/ Owner!PinUnlocked
  <2>1. CASE Owner!PinGiven BY <1>7, <2>1 DEF Owner!PinGiven
  <2>2. CASE Owner!PinUnlocked BY <1>7, <2>2 DEF Owner!PinUnlocked
  <2> QED BY <1>7, <2>1, <2>2
<1>8. CASE Owner!Logout
  BY <1>8 DEF Owner!Logout
<1>9. CASE Owner!HandleRegister
  BY <1>9 DEF Owner!HandleRegister
<1>10. CASE Owner!Registered
  BY <1>10 DEF Owner!Registered
<1>11. CASE Owner!SaveKeys
  BY <1>11, DeviceAssumption DEF Owner!SaveKeys
<1> QED
  BY <1>1, <1>2, <1>3, <1>4, <1>5, <1>6, <1>7, <1>8, <1>9, <1>10, <1>11 DEF Owner!Next

LEMMA OwnerThen == ASSUME Owner!IdentityInv PROVE Owner!IdentityKept
<1> USE DEF Owner!IdentityInv, Owner!IdentityKept
<1>1. Owner!NewIsKept BY DEF Owner!NewIsKept, Owner!AccountOK, Owner!Clean
<1> QED BY <1>1

-----------------------------------------------------------------------------
(* The accounts of a device.                                                *)

LEMMA ProfileInit == ASSUME Profile!Init PROVE Profile!ProfilesInv
<1> USE DEF Profile!Init, Profile!NoSlots, Profile!Slots, Profile!Someone, Profile!Slot, Profile!SlotOf
<1>1. Profile!Types BY DEF Profile!Types
<1>2. Profile!NamespacesHold BY DeviceAssumption DEF Profile!NamespacesHold
<1>3. Profile!PageHolds BY DEF Profile!PageHolds
<1>4. Profile!SessionHolds BY DEF Profile!SessionHolds, Profile!Signing
<1>5. Profile!ListHolds BY DEF Profile!ListHolds
<1> QED BY <1>1, <1>2, <1>3, <1>4, <1>5 DEF Profile!ProfilesInv

(* upsertProfile puts an account where it was, or where nobody is.          *)
LEMMA UpsertHolds ==
  ASSUME Profile!Types, Profile!NamespacesHold, NEW u \in Homes, Profile!Upsert(u)
  PROVE  /\ v2' \in Profile!Slots /\ v1' = [v1 EXCEPT ![v2'] = u]
         /\ v2' \in {u, "legacy"} /\ v1[v2'] \in {None, u}
         /\ v2' = "legacy" /\ v1[v2'] = None => v1 = Profile!NoSlots
<1> USE DEF Profile!Slots, Profile!Upsert
<1>1. v2' = Profile!ProfileOf(u) OBVIOUS
<1>2. CASE \E s \in Profile!Slots : v1[s] = u
  <2>1. v2' \in Profile!Slots /\ v1[v2'] = u BY <1>1, <1>2 DEF Profile!ProfileOf
  <2>2. v2' \in Homes => v2' = u
    BY <2>1, DeviceAssumption DEF Profile!NamespacesHold
  <2> QED BY <2>1, <2>2, DeviceAssumption
<1>3. CASE ~ \E s \in Profile!Slots : v1[s] = u
  <2>1. v2' = IF v1 = Profile!NoSlots THEN "legacy" ELSE u BY <1>1, <1>3 DEF Profile!ProfileOf
  <2>2. v1[u] \in {None, u} BY DEF Profile!NamespacesHold
  <2> QED BY <2>1, <2>2, DeviceAssumption DEF Profile!NoSlots
<1> QED BY <1>2, <1>3

(* What went by the book did so before.                                     *)
LEMMA BookBefore == ASSUME Profile!Next \/ UNCHANGED slots, Profile!ByTheBook' PROVE Profile!ByTheBook
<1> USE DEF Profile!ByTheBook
<1>1. CASE UNCHANGED slots BY <1>1 DEF slots
<1>2. CASE Profile!Reload BY <1>2 DEF Profile!Reload
<1>3. CASE Profile!Enter BY <1>3 DEF Profile!Enter
<1>4. ASSUME NEW r \in Profile!Relays, Profile!Wander(r) PROVE Profile!ByTheBook
  BY <1>4 DEF Profile!Wander
<1>5. CASE UNCHANGED <<v19, v20, v21>> BY <1>5
<1>6. Profile!Next => \/ UNCHANGED <<v19, v20, v21>> \/ Profile!Reload \/ Profile!Enter
                     \/ \E r \in Profile!Relays : Profile!Wander(r)
  BY DEF Profile!Next, Profile!Verified, Profile!Refused, Profile!Unreached, Profile!SessionDies,
     Profile!Logout, Profile!DeleteAccount, Profile!AskSecondFactor, Profile!Wiped, Profile!Keyed,
     Profile!Imported, Profile!SignIn, Profile!Import, Profile!Listed, Profile!ListFails,
     Profile!SwitchToProfile, Profile!WipeProfileData, Profile!SwitchRelay
<1> QED BY <1>1, <1>2, <1>3, <1>4, <1>5, <1>6

LEMMA ProfileNext == ASSUME Profile!ProfilesInv, Profile!Next \/ UNCHANGED slots PROVE Profile!ProfilesInv'
<1> SUFFICES ASSUME Profile!ByTheBook', Profile!ByTheBook,
                    Profile!Types, Profile!NamespacesHold, Profile!PageHolds, Profile!SessionHolds,
                    Profile!ListHolds
             PROVE  Profile!ProfilesInv'
  BY BookBefore DEF Profile!ProfilesInv
<1> USE DEF Profile!ByTheBook, Profile!Slots, Profile!Someone, Profile!Slot,
            Profile!SlotOf, Profile!Signing, Profile!Types, Profile!NamespacesHold, Profile!PageHolds, Profile!SessionHolds,
            Profile!ListHolds, Profile!Loads, Profile!diskVars, Profile!pageVars, Profile!PerformLogout, Profile!Cleared, Profile!EnterChat, Profile!Signings, Profile!ProfilesInv
<1>1. CASE UNCHANGED slots
  BY <1>1 DEF slots, Profile!Home
<1>2. CASE Profile!Reload
  <2>0. v5[v11] \in Homes \cup {None} /\ v12' = v5[v11] /\ v11' = v11 BY <1>2 DEF Profile!Reload
  <2>1. Profile!Types' BY <1>2, <2>0 DEF Profile!Reload
  <2>2. Profile!NamespacesHold' BY <1>2, DeviceAssumption DEF Profile!Reload
  <2>3. Profile!PageHolds' BY <1>2, DeviceAssumption DEF Profile!Reload
  <2>4. Profile!SessionHolds' BY <1>2, DeviceAssumption DEF Profile!Reload
  <2>5. Profile!ListHolds' BY <1>2, DeviceAssumption DEF Profile!Reload
  <2> HIDE DEF Profile!Types, Profile!NamespacesHold, Profile!PageHolds, Profile!SessionHolds, Profile!ListHolds
  <2> QED BY <2>1, <2>2, <2>3, <2>4, <2>5
<1>3. CASE Profile!Verified
  BY <1>3, DeviceAssumption DEF Profile!Verified
<1>4. CASE Profile!Refused
  <2>1. Profile!Types' BY <1>4, DeviceAssumption DEF Profile!Refused
  <2>2. Profile!NamespacesHold' BY <1>4, DeviceAssumption DEF Profile!Refused
  <2>3. Profile!PageHolds' BY <1>4, DeviceAssumption DEF Profile!Refused
  <2>4. Profile!SessionHolds' BY <1>4, DeviceAssumption DEF Profile!Refused
  <2>5. Profile!ListHolds' BY <1>4, DeviceAssumption DEF Profile!Refused
  <2> HIDE DEF Profile!Types, Profile!NamespacesHold, Profile!PageHolds, Profile!SessionHolds, Profile!ListHolds
  <2> QED BY <2>1, <2>2, <2>3, <2>4, <2>5
<1>5. CASE Profile!Unreached
  BY <1>5, DeviceAssumption DEF Profile!Unreached
<1>6. CASE Profile!SessionDies
  BY <1>6, DeviceAssumption DEF Profile!SessionDies
<1>7. CASE Profile!Logout
  <2>1. Profile!Types' BY <1>7, DeviceAssumption DEF Profile!Logout
  <2>2. Profile!NamespacesHold' BY <1>7, DeviceAssumption DEF Profile!Logout
  <2>3. Profile!PageHolds' BY <1>7, DeviceAssumption DEF Profile!Logout
  <2>4. Profile!SessionHolds' BY <1>7, DeviceAssumption DEF Profile!Logout
  <2>5. Profile!ListHolds' BY <1>7, DeviceAssumption DEF Profile!Logout
  <2> HIDE DEF Profile!Types, Profile!NamespacesHold, Profile!PageHolds, Profile!SessionHolds, Profile!ListHolds
  <2> QED BY <2>1, <2>2, <2>3, <2>4, <2>5
<1>8. CASE Profile!DeleteAccount
  <2>1. Profile!Types' BY <1>8, DeviceAssumption DEF Profile!DeleteAccount
  <2>2. Profile!NamespacesHold' BY <1>8, DeviceAssumption DEF Profile!DeleteAccount
  <2>3. Profile!PageHolds' BY <1>8, DeviceAssumption DEF Profile!DeleteAccount
  <2>4. Profile!SessionHolds' BY <1>8, DeviceAssumption DEF Profile!DeleteAccount
  <2>5. Profile!ListHolds' BY <1>8, DeviceAssumption DEF Profile!DeleteAccount
  <2> HIDE DEF Profile!Types, Profile!NamespacesHold, Profile!PageHolds, Profile!SessionHolds, Profile!ListHolds
  <2> QED BY <2>1, <2>2, <2>3, <2>4, <2>5
<1>9. CASE Profile!AskSecondFactor
  BY <1>9, DeviceAssumption DEF Profile!AskSecondFactor
<1>10. ASSUME NEW u \in Homes, NEW how \in {"register", "login"}, Profile!SignIn(u, how) PROVE Profile!ProfilesInv'
  BY <1>10, DeviceAssumption DEF Profile!SignIn
<1>11. CASE Profile!Enter
  <2> DEFINE u == v14[1]
  <2>1. u \in Homes /\ v14 # None /\ v14[3] = "token" /\ v14[2] \in {"register", "login", "import"}
    BY <1>11, DeviceAssumption DEF Profile!Enter
  <2>2. Profile!Upsert(u) BY <1>11 DEF Profile!Enter
  <2>3. /\ v2' = v11 /\ v2' \in Profile!Slots /\ v1' = [v1 EXCEPT ![v11] = u]
        /\ v2' \in {u, "legacy"} /\ v1[v11] \in {None, u}
    BY <1>11, <2>1, <2>2, UpsertHolds DEF Profile!Enter
  <2>4. /\ v5' = [v5 EXCEPT ![v11] = u] /\ v14' # None /\ v14'[1] = u
        /\ UNCHANGED <<v3, v7, v8, v9, v10, v11, v12, v15, v16, v18, v22>>
    BY <1>11, <2>1, DeviceAssumption DEF Profile!Enter
  <2>5. \/ /\ v4[v11] \in {None, u} /\ v4' = [v4 EXCEPT ![v11] = u] /\ v14' = <<u, v14[2], "keys">>
        \/ v14' = <<u, v14[2], "wipe">> /\ UNCHANGED v4
    BY <1>11, <2>3 DEF Profile!Enter
  <2>6. v14' \in Profile!Signings /\ v14'[3] \in {"wipe", "keys"} BY <2>1, <2>5
  <2>7. u # None /\ v11 \in Profile!Slots /\ (v11 \in Homes => v11 = u) BY <2>1, <2>3, DeviceAssumption
  <2>8. Profile!Types' BY <2>1, <2>3, <2>4, <2>5, <2>6
  <2>9. Profile!NamespacesHold'
    <3>1. \A s \in Profile!Slots : /\ v1'[s] = IF s = v11 THEN u ELSE v1[s]
                                   /\ v5'[s] = IF s = v11 THEN u ELSE v5[s]
                                   /\ v4'[s] \in {v4[s], u} /\ (s # v11 => v4'[s] = v4[s])
      BY <2>3, <2>4, <2>5
    <3>2. \A s \in Homes : {v1[s], v3[s], v4[s], v5[s]}' \subseteq {None, s}
      BY <2>4, <2>7, <3>1
    <3>3. v3[v11] \in {None, u} \/ Profile!Signing({"wipe"})'
      BY <2>1, <2>3, <2>4, <2>5, <2>7
    <3>4. \A s \in Profile!Slots \ {v11} : s \notin {v11} /\ v1'[s] = v1[s] /\ v3'[s] = v3[s]
                                        /\ v4'[s] = v4[s] /\ v5'[s] = v5[s]
      BY <2>4, <3>1
    <3>5. \A s \in Profile!Slots \ {v11} :
            /\ v1[s] = None => v3[s] \in {None, v4[s]}
            /\ v1[s] # None => v5[s] \in {None, v1[s]} /\ v3[s] \in {None, v1[s]}
      OBVIOUS
    <3> QED BY <2>4, <2>7, <3>1, <3>2, <3>3, <3>4, <3>5
  <2>10. Profile!PageHolds'
    BY <2>1, <2>3, <2>4, <2>6, <2>7, DeviceAssumption
  <2>11. Profile!SessionHolds' BY <2>1, <2>3, <2>4, <2>6, <2>7, DeviceAssumption
  <2>12. Profile!ListHolds' BY <2>1, <2>4
  <2> HIDE DEF Profile!Types, Profile!NamespacesHold, Profile!PageHolds, Profile!SessionHolds, Profile!ListHolds
  <2> QED BY <2>8, <2>9, <2>10, <2>11, <2>12
<1>12. CASE Profile!Wiped
  BY <1>12, DeviceAssumption DEF Profile!Wiped
<1>13. CASE Profile!Keyed
  BY <1>13, DeviceAssumption DEF Profile!Keyed
<1>14. ASSUME NEW s \in Profile!Slots, Profile!SwitchToProfile(s) PROVE Profile!ProfilesInv'
  <2>1. Profile!Types' BY <1>14, DeviceAssumption DEF Profile!SwitchToProfile
  <2>2. Profile!NamespacesHold' BY <1>14, DeviceAssumption DEF Profile!SwitchToProfile
  <2>3. Profile!PageHolds' BY <1>14, DeviceAssumption DEF Profile!SwitchToProfile
  <2>4. Profile!SessionHolds' BY <1>14, DeviceAssumption DEF Profile!SwitchToProfile
  <2>5. Profile!ListHolds' BY <1>14, DeviceAssumption DEF Profile!SwitchToProfile
  <2> HIDE DEF Profile!Types, Profile!NamespacesHold, Profile!PageHolds, Profile!SessionHolds, Profile!ListHolds
  <2> QED BY <2>1, <2>2, <2>3, <2>4, <2>5
<1>15. ASSUME NEW s \in Profile!Slots, Profile!WipeProfileData(s) PROVE Profile!ProfilesInv'
  <2>1. Profile!Types' BY <1>15, DeviceAssumption DEF Profile!WipeProfileData
  <2>2. Profile!NamespacesHold' BY <1>15, DeviceAssumption DEF Profile!WipeProfileData
  <2>3. Profile!PageHolds'
    <3>1. v14 = None /\ v14' = None BY <1>15 DEF Profile!WipeProfileData
    <3>2. CASE s = v2
      <4>1. v2' = None /\ v5' = [v5 EXCEPT !["legacy"] = None] /\ UNCHANGED v7 /\ v11' = "legacy"
            /\ v10' = v7'
        BY <1>15, <3>2 DEF Profile!WipeProfileData
      <4>2. v5'["legacy"] = None BY <4>1
      <4>3. v12' = None /\ v18' = (v18 \/ (v12' # None /\ Profile!Home(v12') # v10'))
        BY <1>15, <3>2, <4>1, <4>2 DEF Profile!WipeProfileData
      <4> QED BY <4>1, <4>2, <4>3
    <3>3. CASE s # v2
      <4>1. UNCHANGED <<v2, v5, v7, v10, v11, v14, v18>> /\ v1' = [v1 EXCEPT ![s] = None]
        BY <1>15, <3>3 DEF Profile!WipeProfileData
      <4> QED BY <3>3, <4>1 DEF Profile!Home
    <3> QED BY <3>2, <3>3
  <2>4. Profile!SessionHolds' BY <1>15, DeviceAssumption DEF Profile!WipeProfileData
  <2>5. Profile!ListHolds' BY <1>15, DeviceAssumption DEF Profile!WipeProfileData
  <2> HIDE DEF Profile!Types, Profile!NamespacesHold, Profile!PageHolds, Profile!SessionHolds, Profile!ListHolds
  <2> QED BY <2>1, <2>2, <2>3, <2>4, <2>5
<1>16. ASSUME NEW u \in Homes, Profile!Import(u) PROVE Profile!ProfilesInv'
  <2>1. Profile!Types' BY <1>16, DeviceAssumption, UpsertHolds DEF Profile!Import
  <2>2. Profile!NamespacesHold'
    <3>1. Profile!Upsert(u) /\ v5' = [v5 EXCEPT ![v11] = None] /\ UNCHANGED <<v3, v4>>
          /\ v14' = <<u, "import", "import">> /\ v9 = "chat" /\ v14 = None
      BY <1>16 DEF Profile!Import
    <3>2. /\ v2' \in Profile!Slots /\ v1' = [v1 EXCEPT ![v2'] = u]
          /\ v2' \in {u, "legacy"} /\ v1[v2'] \in {None, u}
          /\ v2' = "legacy" /\ v1[v2'] = None => v1 = Profile!NoSlots
      BY <3>1, UpsertHolds
    <3>3. v1[v11] # None /\ v11 \in Profile!Slots BY <3>1
    <3>4. v2' = u \/ v1[v2'] = u BY <3>2, <3>3 DEF Profile!NoSlots
    <3>5. \A s \in Profile!Slots : /\ v1'[s] = IF s = v2' THEN u ELSE v1[s]
                                   /\ v5'[s] = IF s = v11 THEN None ELSE v5[s]
      BY <3>1, <3>2
    <3>6. u # None /\ u # "legacy" BY DeviceAssumption
    <3>7. \A s \in Homes : {v1[s], v3[s], v4[s], v5[s]}' \subseteq {None, s}
      BY <3>1, <3>2, <3>5, <3>6, DeviceAssumption
    <3>8. \A s \in Profile!Slots : v1[s] # None => v3[s] \in {None, v1[s]} /\ v5[s] \in {None, v1[s]}
      BY <3>1
    <3>9. {v3[v2'], v5[v2']} \subseteq {None, u} BY <3>2, <3>4, <3>6, <3>8
    <3> QED BY <3>1, <3>5, <3>7, <3>8, <3>9
  <2>3. Profile!PageHolds' BY <1>16, DeviceAssumption, UpsertHolds DEF Profile!Import
  <2>4. Profile!SessionHolds' BY <1>16, DeviceAssumption, UpsertHolds DEF Profile!Import
  <2>5. Profile!ListHolds' BY <1>16, DeviceAssumption, UpsertHolds DEF Profile!Import
  <2> HIDE DEF Profile!Types, Profile!NamespacesHold, Profile!PageHolds, Profile!SessionHolds, Profile!ListHolds
  <2> QED BY <2>1, <2>2, <2>3, <2>4, <2>5
<1>17. CASE Profile!Imported
  <2>1. Profile!Types' BY <1>17, DeviceAssumption DEF Profile!Imported
  <2>2. Profile!NamespacesHold' BY <1>17, DeviceAssumption DEF Profile!Imported
  <2>3. Profile!PageHolds'
    <3>1. /\ UNCHANGED <<v1, v2, v5>> /\ v14 # None /\ v14[3] = "import" /\ v7' = Profile!Home(v14[1])
          /\ v10' = v7' /\ v11' = v11 /\ v12' = v5[v11] /\ v14' = None
          /\ v18' = (v18 \/ (v12' # None /\ Profile!Home(v12') # v10'))
      BY <1>17 DEF Profile!Imported
    <3>2. v1[v11] = v14[1] /\ v14[1] # None /\ v11 \in Profile!Slots BY <3>1, DeviceAssumption
    <3>3. v5[v11] \in {None, v14[1]} BY <3>2
    <3>4. ~v18' BY <3>1, <3>3
    <3> QED BY <3>1, <3>3, <3>4 DEF Profile!Home
  <2>4. Profile!SessionHolds' BY <1>17, DeviceAssumption DEF Profile!Imported
  <2>5. Profile!ListHolds' BY <1>17, DeviceAssumption DEF Profile!Imported
  <2> HIDE DEF Profile!Types, Profile!NamespacesHold, Profile!PageHolds, Profile!SessionHolds, Profile!ListHolds
  <2> QED BY <2>1, <2>2, <2>3, <2>4, <2>5
<1>18. ASSUME NEW r \in Profile!Relays, Profile!SwitchRelay(r) PROVE Profile!ProfilesInv'
  <2>1. Profile!Types' BY <1>18, DeviceAssumption DEF Profile!SwitchRelay
  <2>2. Profile!NamespacesHold' BY <1>18, DeviceAssumption DEF Profile!SwitchRelay
  <2>3. Profile!PageHolds'
    <3>1. /\ UNCHANGED <<v1, v2>> /\ v7' = r /\ v10' = r /\ v11' = v11 /\ v14' = None /\ v14 = None
          /\ v12' = v5'[v11] /\ v18' = (v18 \/ (v12' # None /\ Profile!Home(v12') # v10'))
          /\ (v5' = [v5 EXCEPT ![v11] = None] \/ (v5' = v5 /\ v12 = None))
      BY <1>18 DEF Profile!SwitchRelay
    <3>2. v11 \in Profile!Slots /\ v5'[v11] = None BY <3>1
    <3> QED BY <3>1, <3>2
  <2>4. Profile!SessionHolds' BY <1>18, DeviceAssumption DEF Profile!SwitchRelay
  <2>5. Profile!ListHolds' BY <1>18, DeviceAssumption DEF Profile!SwitchRelay
  <2> HIDE DEF Profile!Types, Profile!NamespacesHold, Profile!PageHolds, Profile!SessionHolds, Profile!ListHolds
  <2> QED BY <2>1, <2>2, <2>3, <2>4, <2>5
<1>19. ASSUME NEW r \in Profile!Relays, Profile!Wander(r) PROVE Profile!ProfilesInv'
  BY <1>19 DEF Profile!Wander
<1>20. ASSUME NEW u \in Homes, Profile!Listed(u) \/ Profile!ListFails(u) PROVE Profile!ProfilesInv'
  BY <1>20, DeviceAssumption DEF Profile!Listed, Profile!ListFails
<1> QED
  BY <1>1, <1>2, <1>3, <1>4, <1>5, <1>6, <1>7, <1>8, <1>9, <1>10, <1>11, <1>12, <1>13, <1>14,
     <1>15, <1>16, <1>17, <1>18, <1>19, <1>20 DEF Profile!Next

LEMMA ProfileThen ==
  ASSUME Profile!ProfilesInv
  PROVE  Profile!KeysOfTheSession /\ Profile!TokensStayHome /\ Profile!ListIsOwn
BY DEF Profile!ProfilesInv, Profile!KeysOfTheSession, Profile!TokensStayHome, Profile!ListIsOwn,
       Profile!Types, Profile!NamespacesHold, Profile!PageHolds, Profile!SessionHolds,
       Profile!ListHolds, Profile!Signing, Profile!Slots, Profile!Slot, Profile!SlotOf

-----------------------------------------------------------------------------
(* The sessions.                                                            *)

(* persistSessions puts one more write at the end.                          *)
LEMMA SavingIs ==
  ASSUME Session!Types, NEW d \in Devices, NEW slot \in Calls \cup {None},
         NEW out \in Session!Envelopes \cup {None}, Session!Saving(d, slot, out),
         v1'[d] \in [Chats -> Session!Gens \cup {None}], v2'[d] \in [Session!Gens -> Nat]
  PROVE  /\ v5' \in [Devices -> Seq(Session!Save)]
         /\ \A e \in Devices : e # d => v5'[e] = v5[e]
         /\ Len(v5[d]) \in Nat /\ Len(v5'[d]) = Len(v5[d]) + 1
         /\ DOMAIN v5[d] = 1..Len(v5[d]) /\ DOMAIN v5'[d] = 1..(Len(v5[d]) + 1)
         /\ \A i \in DOMAIN v5[d] : v5'[d][i] = v5[d][i]
         /\ LET new == v5'[d][Len(v5[d]) + 1] IN
            /\ new \in Session!Save /\ new.slot = slot /\ new.out = out
            /\ \A c \in Chats : new.held[c] = IF v1'[d][c] = None THEN None
                                  ELSE [gen |-> v1'[d][c], step |-> v2'[d][v1'[d][c]]]
<1> DEFINE new == [slot |-> slot, out |-> out,
                   held |-> [c \in Chats |-> IF v1'[d][c] = None THEN None
                               ELSE [gen |-> v1'[d][c], step |-> v2'[d][v1'[d][c]]]]]
<1>1. new \in Session!Save
  <2>1. \A c \in Chats : v1'[d][c] # None => v1'[d][c] \in Session!Gens /\ v2'[d][v1'[d][c]] \in Nat
    OBVIOUS
  <2>2. new.held \in Session!Sessions BY <2>1 DEF Session!Sessions
  <2> QED BY <2>2 DEF Session!Save
<1>2. v5[d] \in Seq(Session!Save) /\ v5' = [v5 EXCEPT ![d] = Append(@, new)]
  BY DEF Session!Types, Session!Saving
<1>3. v5'[d] = Append(v5[d], new) /\ \A e \in Devices : e # d => v5'[e] = v5[e]
  BY <1>2 DEF Session!Types
<1> HIDE DEF new
<1>4. Append(v5[d], new) \in Seq(Session!Save) BY <1>1, <1>2
<1>5. v5' \in [Devices -> Seq(Session!Save)] BY <1>2, <1>4 DEF Session!Types
<1>6. /\ Len(v5[d]) \in Nat /\ Len(v5'[d]) = Len(v5[d]) + 1
      /\ DOMAIN v5[d] = 1..Len(v5[d]) /\ DOMAIN v5'[d] = 1..(Len(v5[d]) + 1)
      /\ \A i \in DOMAIN v5[d] : v5'[d][i] = v5[d][i]
      /\ v5'[d][Len(v5[d]) + 1] = new
  BY <1>2, <1>3, <1>1
<1> QED BY <1>1, <1>3, <1>5, <1>6 DEF new

(* The write that was added is for the call and the envelope it was given.  *)
LEMMA SavedIs ==
  ASSUME Session!Types, NEW d \in Devices, NEW slot, NEW out, Session!Saving(d, slot, out)
  PROVE  v5'[d][Len(v5[d]) + 1].slot = slot /\ v5'[d][Len(v5[d]) + 1].out = out
<1> DEFINE new == [slot |-> slot, out |-> out,
                   held |-> [c \in Chats |-> IF v1'[d][c] = None THEN None
                               ELSE [gen |-> v1'[d][c], step |-> v2'[d][v1'[d][c]]]]]
<1>1. v5[d] \in Seq(Session!Save) /\ v5' = [v5 EXCEPT ![d] = Append(@, new)]
  BY DEF Session!Types, Session!Saving
<1>2. new.slot = slot /\ new.out = out OBVIOUS
<1> HIDE DEF new
<1>3. v5'[d] = Append(v5[d], new) BY <1>1 DEF Session!Types
<1>4. v5'[d][Len(v5[d]) + 1] = new BY <1>1, <1>3
<1> QED BY <1>2, <1>4

(* A write that ends is taken out of its place.                             *)
LEMMA RemovedIs ==
  ASSUME NEW S, NEW s \in Seq(S), NEW k \in DOMAIN s
  PROVE  LET r == Session!RemoveAt(s, k) IN
         /\ r \in Seq(S) /\ Len(s) \in Nat /\ DOMAIN s = 1..Len(s) /\ DOMAIN r = 1..(Len(s) - 1)
         /\ \A i \in 1..(Len(s) - 1) : r[i] = s[IF i < k THEN i ELSE i + 1]
<1> DEFINE a == SubSeq(s, 1, k - 1)
           b == SubSeq(s, k + 1, Len(s))
<1>1. Len(s) \in Nat /\ DOMAIN s = 1..Len(s) /\ k \in 1..Len(s) OBVIOUS
<1>2. a \in Seq(S) /\ Len(a) = k - 1 /\ \A i \in 1..(k - 1) : a[i] = s[i]
  BY <1>1
<1>3. b \in Seq(S) /\ Len(b) = Len(s) - k /\ \A i \in 1..(Len(s) - k) : b[i] = s[k + i]
  BY <1>1
<1> HIDE DEF a, b
<1>4. a \o b \in Seq(S) /\ Len(a \o b) = Len(s) - 1
  <2>1. a \o b \in Seq(S) /\ Len(a \o b) = Len(a) + Len(b) BY <1>2, <1>3, ConcatProperties
  <2> QED BY <1>1, <1>2, <1>3, <2>1
<1>5. \A i \in 1..(Len(s) - 1) : (a \o b)[i] = IF i < k THEN a[i] ELSE b[i - (k - 1)]
  BY <1>1, <1>2, <1>3
<1>6. DOMAIN (a \o b) = 1..(Len(s) - 1) BY <1>4
<1>7. \A i \in 1..(Len(s) - 1) : (a \o b)[i] = s[IF i < k THEN i ELSE i + 1]
  <2> SUFFICES ASSUME NEW i \in 1..(Len(s) - 1) PROVE (a \o b)[i] = s[IF i < k THEN i ELSE i + 1]
    OBVIOUS
  <2>1. CASE i < k BY <1>1, <1>2, <1>5, <2>1
  <2>2. CASE ~(i < k)
    <3>1. i - (k - 1) \in 1..(Len(s) - k) /\ k + (i - (k - 1)) = i + 1 BY <1>1, <2>2
    <3>2. b[i - (k - 1)] = s[k + (i - (k - 1))] BY <1>3, <3>1
    <3> QED BY <1>5, <2>2, <3>1, <3>2
  <2> QED BY <2>1, <2>2
<1>8. Session!RemoveAt(s, k) = a \o b BY DEF Session!RemoveAt, a, b
<1> QED BY <1>1, <1>4, <1>6, <1>7, <1>8

(* loadSessionsFromStorage.                                                 *)
LEMMA OpenedIs ==
  ASSUME Session!Types, NEW d \in Devices, NEW record \in Session!Record, Session!Opened(d, record)
  PROVE  /\ v1' \in [Devices -> [Chats -> Session!Gens \cup {None}]]
         /\ v2' \in [Devices -> [Session!Gens -> Nat]]
         /\ \A e \in Devices : e # d => v1'[e] = v1[e] /\ v2'[e] = v2[e]
         /\ \A c \in Chats : v1'[d][c] = IF record.by = d /\ record.held[c] # None
                                         THEN record.held[c].gen ELSE None
         /\ \A g \in Session!Gens, c \in Chats : v1'[d][c] = g =>
               \E b \in Chats : /\ record.held[b] # None /\ record.held[b].gen = g
                                /\ v2'[d][g] = record.held[b].step
<1> DEFINE held == Session!Loaded(d, record)
<1>1. held \in Session!Sessions /\ held = IF record.by = d THEN record.held ELSE Session!Empty
  BY DEF Session!Loaded, Session!Record, Session!Sessions, Session!Empty
<1>2. \A c \in Chats : held[c] = IF record.by = d THEN record.held[c] ELSE None
  BY <1>1 DEF Session!Empty
<1>3. \A c \in Chats : held[c] # None => held[c].gen \in Session!Gens /\ held[c].step \in Nat
  BY <1>1 DEF Session!Sessions
<1> DEFINE at(g) == {c \in Chats : held[c] # None /\ held[c].gen = g}
           m == [c \in Chats |-> IF held[c] = None THEN None ELSE held[c].gen]
           t == [g \in Session!Gens |-> IF at(g) = {} THEN 0 ELSE held[CHOOSE c \in at(g) : TRUE].step]
<1>4. v1' = [v1 EXCEPT ![d] = m] /\ v2' = [v2 EXCEPT ![d] = t]
  BY DEF Session!Opened, Session!Gens
<1> HIDE DEF held
<1>5. \A g \in Session!Gens : at(g) # {} => (CHOOSE c \in at(g) : TRUE) \in at(g)
  OBVIOUS
<1>6. \A g \in Session!Gens : at(g) # {} => \E b \in at(g) : t[g] = held[b].step
  BY <1>5
<1>7. m \in [Chats -> Session!Gens \cup {None}] BY <1>3
<1>8. t \in [Session!Gens -> Nat]
  <2>1. \A g \in Session!Gens : (IF at(g) = {} THEN 0 ELSE held[CHOOSE c \in at(g) : TRUE].step) \in Nat
    BY <1>3, <1>5
  <2> QED BY <2>1
<1>9. \A g \in Session!Gens, c \in Chats : m[c] = g => c \in at(g)
  BY DeviceAssumption DEF Session!Gens
<1>10. \A c \in Chats : m[c] = IF record.by = d /\ record.held[c] # None THEN record.held[c].gen ELSE None
  BY <1>2
<1>11. \A g \in Session!Gens : \A b \in at(g) : record.held[b] # None /\ record.held[b].gen = g
                                              /\ held[b].step = record.held[b].step
  BY <1>2
<1> HIDE DEF m, t, at
<1>12. /\ v1'[d] = m /\ v2'[d] = t
       /\ v1' \in [Devices -> [Chats -> Session!Gens \cup {None}]] /\ v2' \in [Devices -> [Session!Gens -> Nat]]
       /\ \A e \in Devices : e # d => v1'[e] = v1[e] /\ v2'[e] = v2[e]
  BY <1>4, <1>7, <1>8 DEF Session!Types
<1>13. \A g \in Session!Gens, c \in Chats : v1'[d][c] = g =>
               \E b \in Chats : /\ record.held[b] # None /\ record.held[b].gen = g
                                /\ v2'[d][g] = record.held[b].step
  <2> SUFFICES ASSUME NEW g \in Session!Gens, NEW c \in Chats, m[c] = g
               PROVE  \E b \in Chats : /\ record.held[b] # None /\ record.held[b].gen = g
                                       /\ t[g] = record.held[b].step
    BY <1>12
  <2>1. PICK b \in at(g) : t[g] = held[b].step BY <1>6, <1>9
  <2>2. b \in Chats BY DEF at
  <2> QED BY <1>11, <2>1, <2>2
<1> QED BY <1>10, <1>12, <1>13

LEMMA NoneApart ==
  /\ None \notin Session!Gens /\ None \notin Calls
  /\ None \notin Session!Envelopes /\ None \notin Session!Record
  /\ \A g, n \in Nat : None # [gen |-> g, step |-> n]
BY DeviceAssumption DEF Session!Gens

LEMMA UseFields ==
  ASSUME NEW u \in Session!Use
  PROVE  /\ u.at \in {"bundle", "made", "step", "none", "save"}
         /\ u.at \in {"made", "step"} => u.chat \in Chats /\ u.gen \in Session!Gens
                                       /\ u = [at |-> u.at, chat |-> u.chat, gen |-> u.gen]
         /\ u.at = "bundle" => u.chat \in Chats /\ u = [at |-> "bundle", chat |-> u.chat]
<1>1. CASE u \in [at : {"bundle"}, chat : Chats] BY <1>1
<1>2. CASE u \in [at : {"made", "step"}, chat : Chats, gen : Session!Gens] BY <1>2
<1>3. CASE u \in [at : {"none", "save"}] BY <1>3
<1> QED BY <1>1, <1>2, <1>3 DEF Session!Use

LEMMA MadeSteps ==
  ASSUME NEW u, NEW c, NEW g, u = [at |-> "made", chat |-> c, gen |-> g]
  PROVE  [u EXCEPT !.at = "step"] = [at |-> "step", chat |-> c, gen |-> g]
OBVIOUS

LEMMA SessionTypes ==
  ASSUME Session!Types, \A d \in Devices : Session!SlotsOK(d), Session!Next \/ UNCHANGED slots
  PROVE  Session!Types'
<1> USE DEF Session!Types
<1>1. CASE UNCHANGED slots BY <1>1 DEF slots
<1>2. ASSUME NEW d \in Devices, NEW s \in Calls, NEW c \in Chats, Session!SendStart(d, s, c) PROVE Session!Types'
  <2>1. UNCHANGED <<v1, v2, v3, v5, v6, v7, v9, v10>> BY <1>2 DEF Session!SendStart
  <2>2. v4' \in [Devices -> [Calls -> Session!Use]]
    <3>1. v1[d][c] # None => v1[d][c] \in Session!Gens OBVIOUS
    <3> QED BY <1>2, <3>1 DEF Session!SendStart, Session!Use
  <2> QED BY <2>1, <2>2
<1>3. ASSUME NEW d \in Devices, NEW s \in Calls, Session!Bundled(d, s) PROVE Session!Types'
  <2>1. UNCHANGED <<v2, v3, v6, v9, v10>> /\ v7' = v7 + 1 /\ v7 < MaxGens
    BY <1>3 DEF Session!Bundled, Session!Made
  <2>2. v7 + 1 \in Session!Gens BY <2>1, DeviceAssumption DEF Session!Gens
  <2>3. v1' \in [Devices -> [Chats -> Session!Gens \cup {None}]]
    BY <1>3, <2>2 DEF Session!Bundled, Session!Made, Session!Use
  <2>4. v5' \in [Devices -> Seq(Session!Save)]
    <3>1. Session!Saving(d, s, None) BY <1>3 DEF Session!Bundled
    <3> QED BY <2>1, <2>3, <3>1, SavingIs
  <2>5. v4' \in [Devices -> [Calls -> Session!Use]]
    BY <1>3, <2>2 DEF Session!Bundled, Session!Use
  <2>6. v7' \in 0 .. MaxGens BY <2>1, DeviceAssumption
  <2> QED BY <2>1, <2>3, <2>4, <2>5, <2>6
<1>4. ASSUME NEW d \in Devices, NEW s \in Calls, Session!Step(d, s) PROVE Session!Types'
  <2> DEFINE o == v4[d][s]
             n == v2[d][o.gen] + 1
  <2>1. /\ UNCHANGED <<v1, v3, v6, v7, v9, v10>> /\ o.at = "step" /\ v2' = [v2 EXCEPT ![d][o.gen] = n]
        /\ Session!Saving(d, s, <<o.chat, o.gen, n>>)
        /\ v4' = [v4 EXCEPT ![d][s] = [at |-> "save"]]
    BY <1>4 DEF Session!Step
  <2>2. o.chat \in Chats /\ o.gen \in Session!Gens /\ n \in Nat BY <2>1, UseFields
  <2>3. v2' \in [Devices -> [Session!Gens -> Nat]] BY <2>1, <2>2
  <2>4. <<o.chat, o.gen, n>> \in Session!Envelopes BY <2>2 DEF Session!Envelopes
  <2>5. v5' \in [Devices -> Seq(Session!Save)] BY <2>1, <2>3, <2>4, SavingIs
  <2>6. v4' \in [Devices -> [Calls -> Session!Use]] BY <2>1 DEF Session!Use
  <2> QED BY <2>1, <2>3, <2>5, <2>6
<1>5. ASSUME NEW d \in Devices, NEW k \in DOMAIN v5[d], Session!Land(d, k) PROVE Session!Types'
  <2> DEFINE save == v5[d][k]
  <2>1. UNCHANGED <<v1, v2, v7, v9, v10>> BY <1>5 DEF Session!Land
  <2>2. save \in Session!Save OBVIOUS
  <2>3. v5' \in [Devices -> Seq(Session!Save)]
    <3>1. Session!RemoveAt(v5[d], k) \in Seq(Session!Save) BY RemovedIs
    <3> QED BY <1>5, <3>1 DEF Session!Land
  <2>4. v3' \in [Devices -> Session!Record]
    <3>1. [by |-> d, held |-> save.held] \in Session!Record BY <2>2 DEF Session!Save, Session!Record
    <3>2. v3' \in {v3, [v3 EXCEPT ![d] = [by |-> d, held |-> save.held]]} BY <1>5 DEF Session!Land
    <3> QED BY <3>1, <3>2
  <2>5. v6' \subseteq Session!Envelopes BY <1>5, <2>2 DEF Session!Land, Session!Save
  <2>6. v4' \in [Devices -> [Calls -> Session!Use]]
    <3>1. CASE save.slot = None BY <1>5, <3>1 DEF Session!Land
    <3>2. CASE save.slot # None
      <4>1. save.slot \in Calls BY <2>2, <3>2 DEF Session!Save
      <4>2. v4[d][save.slot].at = IF save.out = None THEN "made" ELSE "save"
        BY <3>2 DEF Session!SlotsOK
      <4>3. v4' = [v4 EXCEPT ![d][save.slot] = IF save.out = None THEN [@ EXCEPT !.at = "step"] ELSE Session!Idle]
        BY <1>5, <3>2 DEF Session!Land
      <4>4. CASE save.out = None
        <5> DEFINE u == v4[d][save.slot]
        <5>1. /\ u \in Session!Use /\ u.chat \in Chats /\ u.gen \in Session!Gens
              /\ u = [at |-> "made", chat |-> u.chat, gen |-> u.gen]
          BY <4>1, <4>2, <4>4, UseFields
        <5>2. [u EXCEPT !.at = "step"] = [at |-> "step", chat |-> u.chat, gen |-> u.gen] BY <5>1, MadeSteps
        <5>3. [u EXCEPT !.at = "step"] \in Session!Use BY <5>1, <5>2 DEF Session!Use
        <5> QED BY <4>1, <4>3, <4>4, <5>3
      <4>5. CASE save.out # None
        <5>1. Session!Idle \in Session!Use BY DEF Session!Idle, Session!Use
        <5> QED BY <4>1, <4>3, <4>5, <5>1
      <4> QED BY <4>4, <4>5
    <3> QED BY <3>1, <3>2
  <2> QED BY <2>1, <2>3, <2>4, <2>5, <2>6
<1>6. ASSUME NEW d \in Devices, NEW c \in Chats, Session!Receive(d, c) PROVE Session!Types'
  <2>1. UNCHANGED <<v2, v3, v4, v6, v9, v10>> /\ Session!Saving(d, None, None)
    BY <1>6 DEF Session!Receive, Session!Made
  <2>2. v1' \in [Devices -> [Chats -> Session!Gens \cup {None}]] /\ v7' \in 0 .. MaxGens
    <3>1. v7' # v7 => v7' = v7 + 1 /\ v7 < MaxGens /\ v1' = [v1 EXCEPT ![d][c] = v7 + 1]
      BY <1>6 DEF Session!Receive, Session!Made
    <3>2. v7' = v7 => v1' = v1 \/ v1' = [v1 EXCEPT ![d][c] = None]
      BY <1>6 DEF Session!Receive, Session!Made
    <3>3. v7' # v7 => v7 + 1 \in Session!Gens /\ v7' \in 0 .. MaxGens BY <3>1, DeviceAssumption DEF Session!Gens
    <3>4. CASE v7' = v7
      <4>1. CASE v1' = v1 BY <3>4, <4>1
      <4>2. CASE v1' = [v1 EXCEPT ![d][c] = None] BY <3>4, <4>2
      <4> QED BY <3>2, <3>4, <4>1, <4>2
    <3>5. CASE v7' # v7
      <4>1. v1' = [v1 EXCEPT ![d][c] = v7 + 1] BY <3>1, <3>5
      <4> QED BY <3>3, <3>5, <4>1
    <3> QED BY <3>4, <3>5
  <2>3. v5' \in [Devices -> Seq(Session!Save)] BY <2>1, <2>2, SavingIs
  <2> QED BY <2>1, <2>2, <2>3
<1>7. ASSUME NEW d \in Devices, NEW c \in Chats, Session!KeyChanged(d, c) PROVE Session!Types'
  <2>1. /\ UNCHANGED <<v2, v3, v4, v6, v7, v9, v10>> /\ Session!Saving(d, None, None)
        /\ v1' = [v1 EXCEPT ![d][c] = None]
    BY <1>7 DEF Session!KeyChanged
  <2>2. v1' \in [Devices -> [Chats -> Session!Gens \cup {None}]] BY <2>1
  <2>3. v5' \in [Devices -> Seq(Session!Save)] BY <2>1, <2>2, SavingIs
  <2> QED BY <2>1, <2>2, <2>3
<1> DEFINE idle == [s \in Calls |-> Session!Idle]
<1>8. idle \in [Calls -> Session!Use] /\ <<>> \in Seq(Session!Save)
      /\ Session!Empty \in [Chats -> Session!Gens \cup {None}] /\ Session!Empty \in Session!Sessions
  BY DEF Session!Idle, Session!Use, Session!Empty, Session!Sessions
<1> HIDE DEF idle
<1>9. ASSUME NEW d \in Devices, Session!Reload(d) \/ Session!Import(d) PROVE Session!Types'
  <2>1. /\ v4' = [v4 EXCEPT ![d] = idle] /\ v5' = [v5 EXCEPT ![d] = <<>>] /\ UNCHANGED <<v6, v7>>
    BY <1>9 DEF Session!Reload, Session!Import, idle
  <2>2. PICK record \in Session!Record :
          /\ Session!Opened(d, record) /\ v3' \in {v3, [v3 EXCEPT ![d] = record]}
    BY <1>9 DEF Session!Reload, Session!Import, Session!Decrypted
  <2>3. v9' \subseteq Devices /\ v10' \in Session!Record \cup {None}
    BY <1>9 DEF Session!Reload, Session!Import
  <2>4. /\ v1' \in [Devices -> [Chats -> Session!Gens \cup {None}]]
        /\ v2' \in [Devices -> [Session!Gens -> Nat]]
    BY <2>2, OpenedIs
  <2>5. v4' \in [Devices -> [Calls -> Session!Use]] /\ v5' \in [Devices -> Seq(Session!Save)]
    BY <1>8, <2>1
  <2>6. v3' \in [Devices -> Session!Record] BY <2>2
  <2> QED BY <2>1, <2>3, <2>4, <2>5, <2>6
<1>10. ASSUME NEW d \in Devices, Session!Cleared(d) PROVE Session!Types'
  BY <1>8, <1>10 DEF Session!Cleared
<1>11. ASSUME NEW d \in Devices, Session!ExportFile(d) PROVE Session!Types'
  <2>1. /\ v1' = [v1 EXCEPT ![d] = Session!Empty] /\ v3' = [v3 EXCEPT ![d] = [by |-> d, held |-> Session!Empty]]
        /\ v4' = [v4 EXCEPT ![d] = idle] /\ v5' = [v5 EXCEPT ![d] = <<>>] /\ v9' = v9 \ {d}
        /\ v10' = v3[d] /\ UNCHANGED <<v2, v6, v7>>
    BY <1>11 DEF Session!ExportFile, Session!Exported, Session!Wiped, idle
  <2>2. [by |-> d, held |-> Session!Empty] \in Session!Record BY <1>8 DEF Session!Record
  <2> QED BY <1>8, <2>1, <2>2
<1>12. ASSUME NEW d \in Devices, Session!ExportCopy(d) PROVE Session!Types'
  BY <1>12 DEF Session!ExportCopy, Session!Exported
<1> QED
  BY <1>1, <1>2, <1>3, <1>4, <1>5, <1>6, <1>7, <1>9, <1>10, <1>11, <1>12
     DEF Session!Next, Session!AutoClear, Session!ResetMemoryCaches

(* What a device does.                                                      *)
Acts(d) ==
    \/ \E s \in Calls : \/ Session!Bundled(d, s) \/ Session!Step(d, s)
                        \/ \E c \in Chats : Session!SendStart(d, s, c)
    \/ \E c \in Chats : Session!Receive(d, c) \/ Session!KeyChanged(d, c)
    \/ \E k \in DOMAIN v5[d] : Session!Land(d, k)
    \/ Session!Reload(d) \/ Session!Cleared(d)
    \/ Session!ExportFile(d) \/ Session!ExportCopy(d) \/ Session!Import(d)

LEMMA NextActs == Session!Next => \E d \in Devices : Acts(d)
BY DEF Session!Next, Session!AutoClear, Session!ResetMemoryCaches, Acts

Alone(e) == UNCHANGED <<v1[e], v2[e], v3[e], v4[e], v5[e]>>

LEMMA OthersRest ==
  ASSUME Session!Types, NEW d \in Devices, Acts(d), NEW e \in Devices, e # d
  PROVE  Alone(e)
<1> USE DEF Session!Types, Alone
<1>1. ASSUME NEW s \in Calls, Session!Bundled(d, s) PROVE Alone(e)
  BY <1>1 DEF Session!Bundled, Session!Made, Session!Saving
<1>2. ASSUME NEW s \in Calls, Session!Step(d, s) PROVE Alone(e)
  BY <1>2 DEF Session!Step, Session!Saving
<1>3. ASSUME NEW s \in Calls, NEW c \in Chats, Session!SendStart(d, s, c) PROVE Alone(e)
  BY <1>3 DEF Session!SendStart
<1>4. ASSUME NEW c \in Chats, Session!Receive(d, c) PROVE Alone(e)
  BY <1>4 DEF Session!Receive, Session!Made, Session!Saving
<1>5. ASSUME NEW c \in Chats, Session!KeyChanged(d, c) PROVE Alone(e)
  BY <1>5 DEF Session!KeyChanged, Session!Saving
<1>6. ASSUME NEW k \in DOMAIN v5[d], Session!Land(d, k) PROVE Alone(e)
  <2>1. UNCHANGED <<v1[e], v2[e], v3[e], v5[e]>> BY <1>6 DEF Session!Land
  <2>2. v4'[e] = v4[e] BY <1>6 DEF Session!Land
  <2> QED BY <2>1, <2>2
<1>7. CASE Session!Reload(d) \/ Session!Import(d)
  BY <1>7 DEF Session!Reload, Session!Import, Session!Opened
<1>8. CASE Session!Cleared(d)
  BY <1>8 DEF Session!Cleared
<1>9. CASE Session!ExportFile(d) \/ Session!ExportCopy(d)
  BY <1>9 DEF Session!ExportFile, Session!ExportCopy, Session!Wiped
<1> QED BY <1>1, <1>2, <1>3, <1>4, <1>5, <1>6, <1>7, <1>8, <1>9 DEF Acts

(* A device that rests has the sessions, the calls and the writes it had.   *)
LEMMA RestKeeps ==
  ASSUME NEW e \in Devices, Alone(e)
  PROVE  /\ \A g : Session!Live(e, g)' <=> Session!Live(e, g)
         /\ \A i, x : Session!Waits(e, i, x)' <=> Session!Waits(e, i, x)
         /\ Session!SlotsOK(e)' <=> Session!SlotsOK(e)
BY DEF Alone, Session!Live, Session!Uses, Session!Waits, Session!SlotsOK

Idles == [s \in Calls |-> Session!Idle]

(* A call that waits for the write it adds was not waiting for another.      *)
LEMMA SavingSlots ==
  ASSUME Session!Types, NEW d \in Devices, Session!SlotsOK(d),
         NEW slot \in Calls \cup {None}, NEW out \in Session!Envelopes \cup {None},
         Session!Saving(d, slot, out),
         v1'[d] \in [Chats -> Session!Gens \cup {None}], v2'[d] \in [Session!Gens -> Nat],
         slot # None => v4[d][slot].at \in {"bundle", "step"},
         slot # None => v4'[d][slot].at = IF out = None THEN "made" ELSE "save",
         \A r \in Calls : r # slot => v4'[d][r] = v4[d][r]
  PROVE  Session!SlotsOK(d)'
<1> DEFINE n == Len(v5[d])
           new == v5'[d][n + 1]
<1>1. /\ n \in Nat /\ DOMAIN v5[d] = 1..n /\ DOMAIN v5'[d] = 1..(n + 1)
      /\ \A i \in 1..n : v5'[d][i] = v5[d][i]
      /\ new.slot = slot /\ new.out = out
  <2>1. n \in Nat /\ DOMAIN v5[d] = 1..n /\ DOMAIN v5'[d] = 1..(n + 1) BY SavingIs
  <2>2. \A i \in DOMAIN v5[d] : v5'[d][i] = v5[d][i] BY SavingIs
  <2>3. new.slot = slot /\ new.out = out BY SavedIs
  <2> HIDE DEF n, new
  <2> QED BY <2>1, <2>2, <2>3
<1>2. \A i \in 1..n : v5[d][i].slot \in Calls \cup {None}
  <2>1. v5[d] \in Seq(Session!Save) BY DEF Session!Types
  <2> HIDE DEF n, new
  <2>2. \A i \in 1..n : v5[d][i] \in Session!Save BY <1>1, <2>1
  <2> QED BY <2>2 DEF Session!Save
<1> HIDE DEF n, new
<1>3. \A i \in 1..n : v5[d][i].slot # None =>
         v4[d][v5[d][i].slot].at = IF v5[d][i].out = None THEN "made" ELSE "save"
  BY <1>1 DEF Session!SlotsOK
<1>4. \A i, j \in 1..n : v5[d][i].slot # None /\ v5[d][j].slot = v5[d][i].slot => i = j
  BY <1>1 DEF Session!SlotsOK
<1>5. slot # None => \A i \in 1..n : v5[d][i].slot # slot
  <2>1. ASSUME NEW i \in 1..n, slot # None, v5[d][i].slot = slot PROVE FALSE
    <3>1. v4[d][slot].at \in {"made", "save"} BY <1>3, <2>1
    <3> QED BY <2>1, <3>1
  <2> QED BY <2>1
<1>6. \A i \in 1..n : v5[d][i].slot # None => v4'[d][v5[d][i].slot] = v4[d][v5[d][i].slot]
  <2>1. ASSUME NEW i \in 1..n, v5[d][i].slot # None
        PROVE  v4'[d][v5[d][i].slot] = v4[d][v5[d][i].slot]
    <3>1. v5[d][i].slot \in Calls BY <1>2, <2>1
    <3>2. v5[d][i].slot # slot BY <1>5, <2>1
    <3> QED BY <3>1, <3>2
  <2> QED BY <2>1
<1>7. ASSUME NEW i \in 1..(n + 1), v5'[d][i].slot # None
      PROVE  /\ v4'[d][v5'[d][i].slot].at = IF v5'[d][i].out = None THEN "made" ELSE "save"
             /\ \A j \in 1..(n + 1) : v5'[d][j].slot = v5'[d][i].slot => i = j
  <2>1. \A j \in 1..(n + 1) : j \in 1..n \/ j = n + 1 BY <1>1
  <2>2. \A j \in 1..n : v5'[d][j] = v5[d][j] BY <1>1
  <2>3. v5'[d][n + 1].slot = slot /\ v5'[d][n + 1].out = out BY <1>1 DEF new
  <2>4. CASE i \in 1..n
    <3>1. v5'[d][i] = v5[d][i] BY <2>2, <2>4
    <3>2. v4'[d][v5[d][i].slot].at = IF v5[d][i].out = None THEN "made" ELSE "save"
      BY <1>3, <1>6, <1>7, <2>4, <3>1
    <3>3. \A j \in 1..n : v5'[d][j].slot = v5'[d][i].slot => i = j
      BY <1>4, <1>7, <2>2, <2>4
    <3>4. slot # v5'[d][i].slot BY <1>5, <1>7, <2>4, <3>1
    <3> QED BY <2>1, <2>3, <3>1, <3>2, <3>3, <3>4
  <2>5. CASE i = n + 1
    <3>1. \A j \in 1..n : v5'[d][j].slot # slot BY <1>5, <1>7, <2>2, <2>3, <2>5
    <3> QED BY <1>7, <2>1, <2>3, <2>5, <3>1
  <2> QED BY <2>1, <2>4, <2>5
<1> QED BY <1>1, <1>7 DEF Session!SlotsOK

LEMMA SlotsKept ==
  ASSUME Session!Types, \A d \in Devices : Session!SlotsOK(d), Session!Next \/ UNCHANGED slots
  PROVE  \A d \in Devices : Session!SlotsOK(d)'
<1>1. CASE UNCHANGED slots BY <1>1 DEF slots, Session!SlotsOK
<1>2. CASE Session!Next
  <2>1. PICK d \in Devices : Acts(d) BY <1>2, NextActs
  <2> SUFFICES Session!SlotsOK(d)'
    BY <2>1, OthersRest, RestKeeps
  <2>2. Session!SlotsOK(d) OBVIOUS
  <2>3. \A i \in DOMAIN v5[d] : v5[d][i] \in Session!Save BY DEF Session!Types
  <2>4. ASSUME NEW s \in Calls, NEW c \in Chats, Session!SendStart(d, s, c) PROVE Session!SlotsOK(d)'
    <3>1. v5' = v5 /\ v4[d][s].at = "none" /\ \A r \in Calls : r # s => v4'[d][r] = v4[d][r]
      BY <2>4 DEF Session!SendStart, Session!Types, Session!Idle
    <3> QED BY <2>2, <2>3, <3>1 DEF Session!SlotsOK, Session!Save
  <2>6. Session!Types' BY <1>2, SessionTypes
  <2>7. v1'[d] \in [Chats -> Session!Gens \cup {None}] /\ v2'[d] \in [Session!Gens -> Nat]
    BY <2>6 DEF Session!Types
  <2>8. ASSUME NEW s \in Calls, Session!Bundled(d, s) PROVE Session!SlotsOK(d)'
    <3>1. /\ Session!Saving(d, s, None) /\ v4[d][s].at = "bundle" /\ v4'[d][s].at = "made"
          /\ \A r \in Calls : r # s => v4'[d][r] = v4[d][r]
      BY <2>8 DEF Session!Bundled, Session!Types
    <3> QED BY SavingSlots, <2>2, <2>7, <3>1
  <2>9. ASSUME NEW s \in Calls, Session!Step(d, s) PROVE Session!SlotsOK(d)'
    <3> DEFINE o == v4[d][s]
               out == <<o.chat, o.gen, v2[d][o.gen] + 1>>
    <3>1. /\ Session!Saving(d, s, out) /\ v4[d][s].at = "step" /\ v4'[d][s].at = "save"
          /\ \A r \in Calls : r # s => v4'[d][r] = v4[d][r]
      BY <2>9 DEF Session!Step, Session!Types
    <3>2. out \in Session!Envelopes
      <4>1. v4[d][s] \in Session!Use BY DEF Session!Types
      <4>2. o.chat \in Chats /\ o.gen \in Session!Gens BY <3>1, <4>1, UseFields
      <4> QED BY <4>2 DEF Session!Envelopes, Session!Types
    <3>3. out # None BY <3>2, NoneApart
    <3> HIDE DEF out
    <3> QED BY SavingSlots, <2>2, <2>7, <3>1, <3>2, <3>3
  <2>10. ASSUME NEW c \in Chats, Session!Receive(d, c) \/ Session!KeyChanged(d, c) PROVE Session!SlotsOK(d)'
    <3>1. Session!Saving(d, None, None) /\ v4' = v4
      BY <2>10 DEF Session!Receive, Session!KeyChanged
    <3> QED BY SavingSlots, <2>2, <2>7, <3>1
  <2>11. ASSUME NEW k \in DOMAIN v5[d], Session!Land(d, k) PROVE Session!SlotsOK(d)'
    <3> DEFINE n == Len(v5[d])
               save == v5[d][k]
               from(i) == IF i < k THEN i ELSE i + 1
    <3>1. v5[d] \in Seq(Session!Save) /\ v5'[d] = Session!RemoveAt(v5[d], k)
      BY <2>11 DEF Session!Land, Session!Types
    <3>2. /\ n \in Nat /\ DOMAIN v5[d] = 1..n /\ DOMAIN v5'[d] = 1..(n - 1)
          /\ \A i \in 1..(n - 1) : v5'[d][i] = v5[d][from(i)]
      BY <3>1, RemovedIs
    <3>3. \A r \in Calls : r # save.slot => v4'[d][r] = v4[d][r]
      BY <2>11 DEF Session!Land, Session!Types
    <3>4. k \in 1..n /\ (\A i \in 1..(n - 1) : from(i) \in 1..n /\ from(i) # k)
          /\ \A i, j \in 1..(n - 1) : from(i) = from(j) => i = j
      BY <3>2
    <3> HIDE DEF n, save, from
    <3>5. \A i \in 1..n : i # k /\ v5[d][i].slot # None => v5[d][i].slot # save.slot
      BY <2>2, <3>2, <3>4 DEF Session!SlotsOK, save
    <3>6. \A i \in 1..n : v5[d][i].slot # None => v5[d][i].slot \in Calls
      BY <2>3, <3>2 DEF Session!Save
    <3> SUFFICES ASSUME NEW i \in 1..(n - 1), v5'[d][i].slot # None
                 PROVE  /\ v4'[d][v5'[d][i].slot].at = IF v5'[d][i].out = None THEN "made" ELSE "save"
                        /\ \A j \in 1..(n - 1) : v5'[d][j].slot = v5'[d][i].slot => i = j
      BY <3>2 DEF Session!SlotsOK
    <3>7. v5'[d][i] = v5[d][from(i)] /\ from(i) \in 1..n /\ from(i) # k BY <3>2, <3>4
    <3>8. v5[d][from(i)].slot \in Calls /\ v5[d][from(i)].slot # save.slot BY <3>5, <3>6, <3>7
    <3>9. /\ v4[d][v5[d][from(i)].slot].at = IF v5[d][from(i)].out = None THEN "made" ELSE "save"
          /\ \A j \in 1..n : v5[d][j].slot = v5[d][from(i)].slot => from(i) = j
      BY <2>2, <3>2, <3>7 DEF Session!SlotsOK
    <3>10. \A j \in 1..(n - 1) : v5'[d][j].slot = v5'[d][i].slot => i = j
      BY <3>2, <3>4, <3>7, <3>9
    <3> QED BY <3>3, <3>7, <3>8, <3>9, <3>10
  <2>12. CASE Session!Reload(d) \/ Session!Import(d) \/ Session!ExportFile(d)
    <3>1. v5'[d] = <<>> BY <2>12 DEF Session!Reload, Session!Import, Session!ExportFile, Session!Wiped, Session!Types
    <3> QED BY <3>1 DEF Session!SlotsOK
  <2>13. CASE Session!Cleared(d) \/ Session!ExportCopy(d)
    BY <2>2, <2>13 DEF Session!Cleared, Session!ExportCopy, Session!SlotsOK
  <2> QED BY <2>1, <2>4, <2>8, <2>9, <2>10, <2>11, <2>12, <2>13 DEF Acts
<1> QED BY <1>1, <1>2

(* A call or an answer that writes the sessions: no envelope leaves yet. A  *)
(* session is added at most, with a handshake of its own, and an envelope   *)
(* that waits for the write is one step past the session it is of.          *)
AddsOne(d, out) ==
    /\ out \in Session!Envelopes \cup {None}
    /\ \E slot \in Calls \cup {None} : Session!Saving(d, slot, out)
    /\ UNCHANGED <<v3, v6, v9, v10, v11>> /\ v7' \in {v7, v7 + 1}
    /\ \A g \in Session!Gens : Session!Live(d, g)' =>
          Session!Live(d, g) \/ (g = v7 + 1 /\ v7' = v7 + 1)
    /\ \A g \in Session!Gens : v2[d][g] <= v2'[d][g]
    /\ out # None => /\ Session!Live(d, out[2]) /\ out[3] = v2[d][out[2]] + 1
                     /\ v2'[d][out[2]] = out[3]

LEMMA BundledAdds ==
  ASSUME Session!Types, NEW d \in Devices, NEW s \in Calls, Session!Bundled(d, s)
  PROVE  AddsOne(d, None)
<1> USE DEF Session!Live, Session!Uses
<1>0. /\ v1 \in [Devices -> [Chats -> Session!Gens \cup {None}]]
      /\ v2 \in [Devices -> [Session!Gens -> Nat]] /\ v4 \in [Devices -> [Calls -> Session!Use]]
      /\ v7 \in Nat
  BY DeviceAssumption DEF Session!Types
<1>1. /\ Session!Saving(d, s, None) /\ UNCHANGED <<v2, v3, v6, v9, v10, v11>> /\ v7' = v7 + 1
      /\ v1' = [v1 EXCEPT ![d][v4[d][s].chat] = v7 + 1]
      /\ v4' = [v4 EXCEPT ![d][s] = [at |-> "made", chat |-> @.chat, gen |-> v7 + 1]]
  BY DEF Session!Bundled, Session!Made
<1>2. \A g \in Session!Gens : (\E c \in Chats : v1'[d][c] = g) =>
        (\E c \in Chats : v1[d][c] = g) \/ g = v7 + 1
  BY <1>0, <1>1
<1>3. \A g \in Session!Gens, r \in Calls : v4'[d][r].at \in {"made", "step"} /\ v4'[d][r].gen = g =>
        (v4[d][r].at \in {"made", "step"} /\ v4[d][r].gen = g) \/ g = v7 + 1
  BY <1>0, <1>1
<1>4. \A g \in Session!Gens : Session!Live(d, g)' => Session!Live(d, g) \/ g = v7 + 1
  BY <1>2, <1>3
<1>5. \A g \in Session!Gens : v2[d][g] <= v2'[d][g] BY <1>0, <1>1
<1> HIDE DEF Session!Live
<1> QED BY <1>1, <1>4, <1>5 DEF AddsOne

LEMMA StepAdds ==
  ASSUME Session!Types, NEW d \in Devices, NEW s \in Calls, Session!Step(d, s)
  PROVE  AddsOne(d, <<v4[d][s].chat, v4[d][s].gen, v2[d][v4[d][s].gen] + 1>>)
<1> USE DEF Session!Live, Session!Uses
<1>0. /\ v1 \in [Devices -> [Chats -> Session!Gens \cup {None}]]
      /\ v2 \in [Devices -> [Session!Gens -> Nat]] /\ v4 \in [Devices -> [Calls -> Session!Use]]
      /\ v7 \in Nat
  BY DeviceAssumption DEF Session!Types
<1> DEFINE o == v4[d][s]
           n == v2[d][o.gen] + 1
           out == <<o.chat, o.gen, n>>
<1>1. /\ UNCHANGED <<v1, v3, v6, v7, v9, v10, v11>> /\ o.at = "step" /\ v2' = [v2 EXCEPT ![d][o.gen] = n]
      /\ Session!Saving(d, s, out)
      /\ v4' = [v4 EXCEPT ![d][s] = [at |-> "save"]]
  BY DEF Session!Step
<1>2. o.chat \in Chats /\ o.gen \in Session!Gens /\ n \in Nat BY <1>0, <1>1, UseFields
<1>3. out \in Session!Envelopes BY <1>2 DEF Session!Envelopes
<1>4. \A g \in Session!Gens : v2[d][g] <= v2'[d][g] BY <1>0, <1>1, <1>2
<1>5. Session!Live(d, o.gen) BY <1>1, <1>2
<1>6. v2'[d][o.gen] = n BY <1>0, <1>1, <1>2
<1>7. \A r \in Calls : v4'[d][r].at \in {"made", "step"} => v4'[d][r] = v4[d][r]
  BY <1>0, <1>1
<1>8. \A g \in Session!Gens : Session!Live(d, g)' => Session!Live(d, g) BY <1>1, <1>7
<1>9. out[2] = o.gen /\ out[3] = n OBVIOUS
<1> HIDE DEF Session!Live, o, n, out
<1>10. AddsOne(d, out)
  <2>1. out \in Session!Envelopes \cup {None} /\ v7' \in {v7, v7 + 1} BY <1>1, <1>3
  <2>2. Session!Live(d, out[2]) /\ out[3] = v2[d][out[2]] + 1 /\ v2'[d][out[2]] = out[3]
    BY <1>5, <1>6, <1>9 DEF n
  <2> QED BY <1>1, <1>4, <1>8, <2>1, <2>2 DEF AddsOne
<1> QED BY <1>10 DEF o, n, out

LEMMA AnswerAdds ==
  ASSUME Session!Types, NEW d \in Devices, NEW c \in Chats, Session!Receive(d, c) \/ Session!KeyChanged(d, c)
  PROVE  AddsOne(d, None)
<1> USE DEF Session!Live, Session!Uses
<1>0. /\ v1 \in [Devices -> [Chats -> Session!Gens \cup {None}]]
      /\ v2 \in [Devices -> [Session!Gens -> Nat]] /\ v4 \in [Devices -> [Calls -> Session!Use]]
      /\ v7 \in Nat
  BY DeviceAssumption DEF Session!Types
<1>1. Session!Saving(d, None, None) /\ UNCHANGED <<v2, v3, v4, v6, v9, v10, v11>>
  BY DEF Session!Receive, Session!KeyChanged, Session!Made
<1>2. \/ v1' = v1 /\ v7' = v7
      \/ v1' = [v1 EXCEPT ![d][c] = None] /\ v7' = v7
      \/ v1' = [v1 EXCEPT ![d][c] = v7 + 1] /\ v7' = v7 + 1
  BY DEF Session!Receive, Session!KeyChanged, Session!Made
<1>3. \A b \in Chats : v1'[d][b] \in {v1[d][b], None} \/ (v1'[d][b] = v7 + 1 /\ v7' = v7 + 1)
  <2>1. CASE v1' = v1 BY <2>1
  <2>2. CASE v1' = [v1 EXCEPT ![d][c] = None] BY <1>0, <2>2
  <2>3. CASE v1' = [v1 EXCEPT ![d][c] = v7 + 1] /\ v7' = v7 + 1 BY <1>0, <2>3
  <2> QED BY <1>2, <2>1, <2>2, <2>3
<1>4. \A g \in Session!Gens : Session!Live(d, g)' =>
        Session!Live(d, g) \/ (g = v7 + 1 /\ v7' = v7 + 1)
  BY <1>1, <1>3, NoneApart
<1>5. \A g \in Session!Gens : v2[d][g] <= v2'[d][g] BY <1>0, <1>1
<1> HIDE DEF Session!Live
<1> QED BY <1>1, <1>2, <1>4, <1>5 DEF AddsOne

LEMMA SessionsAdd ==
  ASSUME Session!Types, NEW d \in Devices,
         \/ \E s \in Calls : Session!Bundled(d, s) \/ Session!Step(d, s)
         \/ \E c \in Chats : Session!Receive(d, c) \/ Session!KeyChanged(d, c)
  PROVE  \E out \in Session!Envelopes \cup {None} : AddsOne(d, out)
BY BundledAdds, StepAdds, AnswerAdds DEF AddsOne

(* The writes that wait, after one was added.                               *)
LEMMA WaitsAdded ==
  ASSUME Session!Types, Session!Types', NEW d \in Devices, NEW out, AddsOne(d, out)
  PROVE  /\ Len(v5[d]) \in Nat /\ DOMAIN v5[d] = 1..Len(v5[d]) /\ DOMAIN v5'[d] = 1..(Len(v5[d]) + 1)
         /\ \A i \in 1..Len(v5[d]) : v5'[d][i] = v5[d][i]
         /\ \A i, x : Session!Waits(d, i, x)' <=>
               Session!Waits(d, i, x) \/ (i = Len(v5[d]) + 1 /\ x = out /\ x # None)
         /\ \A c \in Chats : v5'[d][Len(v5[d]) + 1].held[c] # None =>
               /\ v1'[d][c] \in Session!Gens
               /\ v5'[d][Len(v5[d]) + 1].held[c].gen = v1'[d][c]
               /\ v5'[d][Len(v5[d]) + 1].held[c].step = v2'[d][v1'[d][c]]
         /\ \A c \in Chats : v1'[d][c] # None => v5'[d][Len(v5[d]) + 1].held[c] # None
<1> DEFINE n == Len(v5[d])
           new == v5'[d][n + 1]
<1>1. PICK slot \in Calls \cup {None} : Session!Saving(d, slot, out) BY DEF AddsOne
<1>2. out \in Session!Envelopes \cup {None} BY DEF AddsOne
<1>3. v1'[d] \in [Chats -> Session!Gens \cup {None}] /\ v2'[d] \in [Session!Gens -> Nat]
  BY DEF Session!Types
<1>4. n \in Nat /\ DOMAIN v5[d] = 1..n /\ DOMAIN v5'[d] = 1..(n + 1) BY <1>1, <1>2, <1>3, SavingIs
<1>5. \A i \in DOMAIN v5[d] : v5'[d][i] = v5[d][i] BY <1>1, <1>2, <1>3, SavingIs
<1>6. new.out = out BY <1>1, <1>2, <1>3, SavedIs
<1>7. \A c \in Chats : new.held[c] = IF v1'[d][c] = None THEN None
                         ELSE [gen |-> v1'[d][c], step |-> v2'[d][v1'[d][c]]]
  BY <1>1, <1>2, <1>3, SavingIs
<1>8. /\ \A c \in Chats : new.held[c] # None =>
            /\ v1'[d][c] \in Session!Gens
            /\ new.held[c].gen = v1'[d][c] /\ new.held[c].step = v2'[d][v1'[d][c]]
      /\ \A c \in Chats : v1'[d][c] # None => new.held[c] # None
  <2>1. ASSUME NEW c \in Chats, v1'[d][c] # None
        PROVE  /\ v1'[d][c] \in Session!Gens /\ new.held[c] # None
               /\ new.held[c].gen = v1'[d][c] /\ new.held[c].step = v2'[d][v1'[d][c]]
    <3>1. v1'[d][c] \in Session!Gens /\ v2'[d][v1'[d][c]] \in Nat BY <1>3, <2>1
    <3>2. new.held[c] = [gen |-> v1'[d][c], step |-> v2'[d][v1'[d][c]]] BY <1>7, <2>1
    <3>3. v1'[d][c] \in Nat BY <3>1 DEF Session!Gens
    <3> HIDE DEF new
    <3> QED BY <3>1, <3>2, <3>3, NoneApart
  <2>2. \A c \in Chats : v1'[d][c] = None => new.held[c] = None BY <1>7
  <2> QED BY <2>1, <2>2
<1> HIDE DEF n, new
<1>9. ASSUME NEW i, NEW x PROVE Session!Waits(d, i, x)' <=>
               Session!Waits(d, i, x) \/ (i = n + 1 /\ x = out /\ x # None)
  <2>1. CASE i \in 1..n
    <3>1. i # n + 1 /\ i \in 1..(n + 1) BY <1>4, <2>1
    <3> QED BY <1>4, <1>5, <2>1, <3>1 DEF Session!Waits
  <2>2. CASE i = n + 1
    <3>1. i \notin 1..n /\ i \in 1..(n + 1) BY <1>4, <2>2
    <3> QED BY <1>4, <1>6, <2>2, <3>1 DEF Session!Waits, new
  <2>3. CASE i \notin 1..n /\ i # n + 1
    <3>1. i \notin 1..(n + 1) BY <1>4, <2>3
    <3> QED BY <1>4, <2>3, <3>1 DEF Session!Waits
  <2> QED BY <2>1, <2>2, <2>3
<1> QED BY <1>4, <1>5, <1>8, <1>9 DEF n, new

(* A write that ends: the calls in memory are those there were, and what    *)
(* leaves the device is what waited for it.                                 *)
From(k, i) == IF i < k THEN i ELSE i + 1

LEMMA LandIs ==
  ASSUME Session!Types, NEW d \in Devices, Session!SlotsOK(d), NEW k \in DOMAIN v5[d], Session!Land(d, k)
  PROVE  /\ Len(v5[d]) \in Nat /\ DOMAIN v5[d] = 1..Len(v5[d]) /\ DOMAIN v5'[d] = 1..(Len(v5[d]) - 1)
         /\ \A i \in 1..(Len(v5[d]) - 1) :
               v5'[d][i] = v5[d][From(k, i)] /\ From(k, i) \in 1..Len(v5[d]) /\ From(k, i) # k
         /\ \A i, x : Session!Waits(d, i, x)' => Session!Waits(d, From(k, i), x)
         /\ \A g : Session!Live(d, g)' => Session!Live(d, g)
         /\ \A x \in v6' : x \in v6 \/ Session!Waits(d, k, x)
         /\ v3'[d] = v3[d] \/ v3'[d] = [by |-> d, held |-> v5[d][k].held]
         /\ UNCHANGED <<v1, v2, v7, v8, v9, v10, v12>>
<1> DEFINE n == Len(v5[d])
           save == v5[d][k]
<1>0. v5[d] \in Seq(Session!Save) /\ save \in Session!Save BY DEF Session!Types
<1>1. v5'[d] = Session!RemoveAt(v5[d], k) BY DEF Session!Land, Session!Types
<1>2. n \in Nat /\ DOMAIN v5[d] = 1..n /\ DOMAIN v5'[d] = 1..(n - 1) BY <1>0, <1>1, RemovedIs
<1>3. \A i \in 1..(n - 1) : v5'[d][i] = v5[d][From(k, i)] BY <1>0, <1>1, RemovedIs DEF From
<1>4. \A i \in 1..(n - 1) : From(k, i) \in 1..n /\ From(k, i) # k BY <1>2 DEF From
<1>5. UNCHANGED <<v1, v2, v7, v8, v9, v10, v12>> BY DEF Session!Land
<1>6. v3'[d] = v3[d] \/ v3'[d] = [by |-> d, held |-> save.held] BY DEF Session!Land, Session!Types
<1>7. \A x \in v6' : x \in v6 \/ Session!Waits(d, k, x) BY DEF Session!Land, Session!Waits
<1>8. ASSUME NEW s \in Calls, v4'[d][s].at \in {"made", "step"}
      PROVE  v4[d][s].at \in {"made", "step"} /\ v4[d][s].gen = v4'[d][s].gen
  <2>1. CASE save.slot = None \/ s # save.slot BY <1>8, <2>1 DEF Session!Land, Session!Types
  <2>2. CASE save.slot # None /\ s = save.slot
    <3>1. v4' = [v4 EXCEPT ![d][s] = IF save.out = None THEN [@ EXCEPT !.at = "step"] ELSE Session!Idle]
      BY <2>2 DEF Session!Land
    <3>2. save.out = None BY <1>8, <3>1 DEF Session!Types, Session!Idle
    <3>3. v4[d][s].at = "made" BY <2>2, <3>2 DEF Session!SlotsOK
    <3>4. v4[d][s] \in Session!Use BY DEF Session!Types
    <3>5. v4[d][s] = [at |-> "made", chat |-> v4[d][s].chat, gen |-> v4[d][s].gen]
      BY <3>3, <3>4, UseFields
    <3>6. v4'[d][s] = [v4[d][s] EXCEPT !.at = "step"] BY <3>1, <3>2 DEF Session!Types
    <3>7. v4'[d][s] = [at |-> "step", chat |-> v4[d][s].chat, gen |-> v4[d][s].gen]
      BY <3>5, <3>6, MadeSteps
    <3> QED BY <3>3, <3>7
  <2> QED BY <2>1, <2>2
<1>9. \A g : Session!Live(d, g)' => Session!Live(d, g) BY <1>5, <1>8 DEF Session!Live, Session!Uses
<1>10. ASSUME NEW i, NEW x, Session!Waits(d, i, x)' PROVE Session!Waits(d, From(k, i), x)
  <2>1. i \in 1..(n - 1) /\ v5'[d][i].out = x /\ x # None BY <1>2, <1>10 DEF Session!Waits
  <2> QED BY <1>2, <1>3, <1>4, <2>1 DEF Session!Waits
<1> HIDE DEF n, save
<1>11. /\ n \in Nat /\ DOMAIN v5[d] = 1..n /\ DOMAIN v5'[d] = 1..(n - 1)
       /\ \A i \in 1..(n - 1) : v5'[d][i] = v5[d][From(k, i)] /\ From(k, i) \in 1..n /\ From(k, i) # k
  BY <1>2, <1>3, <1>4
<1> QED BY <1>5, <1>6, <1>7, <1>9, <1>10, <1>11 DEF n, save

(* What a device has is of handshakes that were made.                       *)
KnownAt(d) ==
    /\ \A g \in Session!Gens : Session!Live(d, g) => g <= v7
    /\ \A i \in DOMAIN v5[d], x \in Session!Envelopes : Session!Waits(d, i, x) => x[2] <= v7
    /\ Session!HeldKnown(v3[d].held)
    /\ \A i \in DOMAIN v5[d] : Session!HeldKnown(v5[d][i].held)
Known ==
    /\ \A d \in Devices : KnownAt(d)
    /\ \A x \in v6 : x[2] <= v7
    /\ v10 # None => Session!HeldKnown(v10.held)

LEMMA KnownIs == Session!GensKnown /\ Session!RecordsKnown <=> Known
BY DEF Session!GensKnown, Session!RecordsKnown, Known, KnownAt

LEMMA HeldStays ==
  ASSUME v7 \in Nat, v7' \in Nat, v7 <= v7', NEW held \in Session!Sessions, Session!HeldKnown(held)
  PROVE  \A c \in Chats : held[c] # None => held[c].gen <= v7'
BY DEF Session!HeldKnown, Session!Sessions, Session!Gens

LEMMA StartLives ==
  ASSUME Session!Types, NEW d \in Devices, NEW s \in Calls, NEW c \in Chats, Session!SendStart(d, s, c)
  PROVE  \A g \in Session!Gens : Session!Live(d, g)' => Session!Live(d, g)
<1>1. /\ v1' = v1
      /\ v4' = [v4 EXCEPT ![d][s] = IF v1[d][c] = None THEN [at |-> "bundle", chat |-> c]
                                    ELSE [at |-> "step", chat |-> c, gen |-> v1[d][c]]]
  BY DEF Session!SendStart
<1>2. \A r \in Calls : r # s => v4'[d][r] = v4[d][r] BY <1>1 DEF Session!Types
<1>3. v4'[d][s].at \in {"made", "step"} => v4'[d][s].gen = v1[d][c]
  <2>1. CASE v1[d][c] = None
    <3>1. v4'[d][s] = [at |-> "bundle", chat |-> c] BY <1>1, <2>1 DEF Session!Types
    <3> QED BY <3>1
  <2>2. CASE v1[d][c] # None
    <3>1. v4'[d][s] = [at |-> "step", chat |-> c, gen |-> v1[d][c]] BY <1>1, <2>2 DEF Session!Types
    <3> QED BY <3>1
  <2> QED BY <2>1, <2>2
<1> QED BY <1>1, <1>2, <1>3 DEF Session!Live, Session!Uses

LEMMA WipeLives ==
  ASSUME Session!Types, NEW d \in Devices,
         Session!Cleared(d) \/ Session!ExportFile(d) \/ Session!ExportCopy(d)
  PROVE  \A g \in Session!Gens : Session!Live(d, g)' => Session!Live(d, g)
<1>1. \A c \in Chats : v1'[d][c] \in {v1[d][c], None}
  BY DEF Session!Cleared, Session!ExportFile, Session!ExportCopy, Session!Wiped, Session!Empty, Session!Types
<1>2. \A s \in Calls : v4'[d][s] = v4[d][s] \/ v4'[d][s].at = "none"
  BY DEF Session!Cleared, Session!ExportFile, Session!ExportCopy, Session!Wiped, Session!Idle, Session!Types
<1> QED BY <1>1, <1>2, NoneApart DEF Session!Live, Session!Uses

(* The shapes of what a device does.                                        *)
LEMMA ActsAre ==
  ASSUME Session!Types, NEW d \in Devices, Acts(d)
  PROVE  \/ \E out \in Session!Envelopes \cup {None} : AddsOne(d, out)
         \/ \E k \in DOMAIN v5[d] : Session!Land(d, k)
         \/ Session!Reload(d) \/ Session!Import(d)
         \/ \E s \in Calls, c \in Chats : Session!SendStart(d, s, c)
         \/ Session!Cleared(d) \/ Session!ExportFile(d) \/ Session!ExportCopy(d)
BY SessionsAdd DEF Acts

LEMMA GensGrow ==
  ASSUME Session!Types, NEW d \in Devices, Acts(d)
  PROVE  v7 \in Nat /\ v7' \in {v7, v7 + 1}
<1>1. v7 \in Nat BY DeviceAssumption DEF Session!Types
<1> QED
  BY <1>1, ActsAre
     DEF AddsOne, Session!Land, Session!Reload, Session!Import, Session!SendStart,
         Session!Cleared, Session!ExportFile, Session!ExportCopy

KnownThen(held) == \A c \in Chats : held[c] # None => held[c].gen <= v7'

LEMMA KnownKept ==
  ASSUME Session!Types, Session!Types', \A d \in Devices : Session!SlotsOK(d), Known,
         Session!Next \/ UNCHANGED slots
  PROVE  Known'
<1>1. CASE UNCHANGED slots
  BY <1>1 DEF slots, Known, KnownAt, Session!Live, Session!Uses, Session!Waits, Session!HeldKnown
<1>2. CASE Session!Next
  <2>1. PICK d \in Devices : Acts(d) BY <1>2, NextActs
  <2>2. v7 \in Nat /\ v7' \in Nat /\ v7 <= v7' BY <2>1, GensGrow
  <2>3. \A g \in Session!Gens : g \in Nat BY DEF Session!Gens
  <2>4. \A held \in Session!Sessions : Session!HeldKnown(held) => KnownThen(held)
    BY <2>2, HeldStays DEF KnownThen
  <2>5. \A x \in Session!Envelopes : x[2] \in Nat BY <2>3 DEF Session!Envelopes
  <2>6. /\ \A e \in Devices : v3[e].held \in Session!Sessions
        /\ \A e \in Devices : \A i \in DOMAIN v5[e] : v5[e][i].held \in Session!Sessions
        /\ v10 # None => v10.held \in Session!Sessions
        /\ v6 \subseteq Session!Envelopes
    <3>1. \A e \in Devices : v5[e] \in Seq(Session!Save) BY DEF Session!Types
    <3>2. \A e \in Devices : \A i \in DOMAIN v5[e] : v5[e][i] \in Session!Save BY <3>1
    <3>3. \A e \in Devices : \A i \in DOMAIN v5[e] : v5[e][i].held \in Session!Sessions
      BY <3>2 DEF Session!Save
    <3>4. /\ \A e \in Devices : v3[e].held \in Session!Sessions
          /\ v10 # None => v10.held \in Session!Sessions
          /\ v6 \subseteq Session!Envelopes
      BY DEF Session!Types, Session!Record
    <3> QED BY <3>3, <3>4
  <2>7. \A e \in Devices : KnownAt(e) BY DEF Known
  <2>8. ASSUME NEW e \in Devices,
               \A g \in Session!Gens : Session!Live(e, g)' => g <= v7',
               \A i \in DOMAIN v5'[e], x \in Session!Envelopes : Session!Waits(e, i, x)' => x[2] <= v7',
               KnownThen(v3'[e].held), \A i \in DOMAIN v5'[e] : KnownThen(v5'[e][i].held)
        PROVE  KnownAt(e)'
    BY <2>8 DEF KnownAt, KnownThen, Session!HeldKnown
  <2>9. ASSUME NEW e \in Devices, e # d PROVE KnownAt(e)'
    <3>1. Alone(e) BY <2>1, <2>9, OthersRest
    <3>2. \A g \in Session!Gens : Session!Live(e, g)' => g <= v7'
      BY <2>2, <2>3, <2>7, <3>1, RestKeeps DEF KnownAt
    <3>3. v5'[e] = v5[e] /\ v3'[e] = v3[e] BY <3>1 DEF Alone
    <3>4. \A i \in DOMAIN v5'[e], x \in Session!Envelopes : Session!Waits(e, i, x)' => x[2] <= v7'
      BY <2>2, <2>5, <2>7, <3>1, <3>3, RestKeeps DEF KnownAt
    <3>5. KnownThen(v3'[e].held) /\ \A i \in DOMAIN v5'[e] : KnownThen(v5'[e][i].held)
      BY <2>4, <2>6, <2>7, <3>3 DEF KnownAt
    <3> QED BY <2>8, <3>2, <3>4, <3>5
  <2>10. ASSUME KnownAt(d)', \A x \in v6' : x[2] <= v7', v10' # None => KnownThen(v10'.held)
         PROVE  Known'
    BY <2>9, <2>10 DEF Known, KnownThen, Session!HeldKnown
  <2>11. \A x \in v6 : x[2] <= v7' BY <2>2, <2>5, <2>6 DEF Known
  <2>12. v10 # None => KnownThen(v10.held) BY <2>4, <2>6 DEF Known
  <2>13. ASSUME NEW out, AddsOne(d, out) PROVE Known'
    <3> DEFINE n == Len(v5[d])
    <3>1. /\ v3' = v3 /\ v6' = v6 /\ v10' = v10
          /\ \A g \in Session!Gens : Session!Live(d, g)' => Session!Live(d, g) \/ g = v7'
          /\ out # None => out \in Session!Envelopes /\ Session!Live(d, out[2])
      BY <2>13 DEF AddsOne
    <3>2. \A g \in Session!Gens : Session!Live(d, g)' => g <= v7'
      BY <2>2, <2>3, <2>7, <3>1 DEF KnownAt
    <3>3. /\ n \in Nat /\ DOMAIN v5[d] = 1..n /\ DOMAIN v5'[d] = 1..(n + 1)
          /\ \A i \in 1..n : v5'[d][i] = v5[d][i]
      BY <2>13, WaitsAdded
    <3>4. \A i, x : Session!Waits(d, i, x)' => Session!Waits(d, i, x) \/ (x = out /\ x # None)
      BY <2>13, WaitsAdded
    <3>5. \A c \in Chats : v5'[d][n + 1].held[c] # None =>
            v5'[d][n + 1].held[c].gen = v1'[d][c] /\ v1'[d][c] \in Session!Gens
      BY <2>13, WaitsAdded
    <3> HIDE DEF n
    <3>6. ASSUME NEW i \in DOMAIN v5'[d], NEW x \in Session!Envelopes, Session!Waits(d, i, x)'
          PROVE  x[2] <= v7'
      <4>1. CASE Session!Waits(d, i, x)
        <5>1. i \in DOMAIN v5[d] BY <4>1 DEF Session!Waits
        <5> QED BY <2>2, <2>5, <2>7, <4>1, <5>1 DEF KnownAt
      <4>2. CASE x = out /\ x # None
        <5>1. x[2] \in Session!Gens BY DEF Session!Envelopes
        <5> QED BY <2>2, <2>3, <2>7, <3>1, <4>2, <5>1 DEF KnownAt
      <4> QED BY <3>4, <3>6, <4>1, <4>2
    <3>7. KnownThen(v5'[d][n + 1].held)
      <4>1. \A c \in Chats, g \in Session!Gens : v1'[d][c] = g => Session!Live(d, g)' BY DEF Session!Live
      <4> QED BY <3>2, <3>5, <4>1 DEF KnownThen
    <3>8. \A i \in DOMAIN v5'[d] : KnownThen(v5'[d][i].held)
      <4>1. \A i \in 1..(n + 1) : i \in 1..n \/ i = n + 1 BY <3>3
      <4>2. \A i \in 1..n : KnownThen(v5[d][i].held) BY <2>4, <2>6, <2>7, <3>3 DEF KnownAt
      <4> QED BY <3>3, <3>7, <4>1, <4>2
    <3>9. KnownThen(v3'[d].held) BY <2>4, <2>6, <2>7, <3>1 DEF KnownAt
    <3>10. KnownAt(d)' BY <2>8, <3>2, <3>6, <3>8, <3>9
    <3> QED BY <2>10, <2>11, <2>12, <3>1, <3>10
  <2>14. ASSUME NEW k \in DOMAIN v5[d], Session!Land(d, k) PROVE Known'
    <3>1. /\ DOMAIN v5[d] = 1..Len(v5[d]) /\ DOMAIN v5'[d] = 1..(Len(v5[d]) - 1)
          /\ \A i \in 1..(Len(v5[d]) - 1) :
               v5'[d][i] = v5[d][From(k, i)] /\ From(k, i) \in 1..Len(v5[d])
      BY <2>14, LandIs
    <3>2. \A i, x : Session!Waits(d, i, x)' => Session!Waits(d, From(k, i), x) BY <2>14, LandIs
    <3>3. \A g : Session!Live(d, g)' => Session!Live(d, g) BY <2>14, LandIs
    <3>4. \A x \in v6' : x \in v6 \/ Session!Waits(d, k, x) BY <2>14, LandIs
    <3>5. v3'[d] = v3[d] \/ v3'[d] = [by |-> d, held |-> v5[d][k].held] BY <2>14, LandIs
    <3>6. v7' = v7 /\ v10' = v10 BY <2>14, LandIs
    <3>7. \A i : \A x \in Session!Envelopes : Session!Waits(d, i, x) => x[2] <= v7'
      <4>1. \A i, x : Session!Waits(d, i, x) => i \in DOMAIN v5[d] BY DEF Session!Waits
      <4> QED BY <2>7, <3>6, <4>1 DEF KnownAt
    <3>8. \A g \in Session!Gens : Session!Live(d, g)' => g <= v7' BY <2>7, <3>3, <3>6 DEF KnownAt
    <3>9. \A i \in DOMAIN v5'[d], x \in Session!Envelopes : Session!Waits(d, i, x)' => x[2] <= v7'
      BY <3>2, <3>7
    <3>10. \A i \in DOMAIN v5[d] : KnownThen(v5[d][i].held) BY <2>4, <2>6, <2>7 DEF KnownAt
    <3>11. KnownThen(v3'[d].held) BY <2>4, <2>6, <2>7, <3>5, <3>10 DEF KnownAt
    <3>12. \A i \in DOMAIN v5'[d] : KnownThen(v5'[d][i].held) BY <3>1, <3>10
    <3>13. KnownAt(d)' BY <2>8, <3>8, <3>9, <3>11, <3>12
    <3>14. v6' \subseteq Session!Envelopes BY DEF Session!Types
    <3>15. \A x \in v6' : x[2] <= v7' BY <2>11, <3>4, <3>7, <3>14
    <3> QED BY <2>10, <2>12, <3>6, <3>13, <3>15
  <2>15. CASE Session!Reload(d) \/ Session!Import(d)
    <3>1. PICK record \in Session!Record :
            /\ Session!Opened(d, record) /\ v3'[d] = record
            /\ (record = v3[d] \/ (v10 # None /\ record = v10))
      BY <2>15 DEF Session!Reload, Session!Import, Session!Decrypted, Session!Types
    <3>2. v6' = v6 /\ v7' = v7 /\ v10' \in {v10, None} /\ v5'[d] = <<>> /\ v4'[d] = Idles
      BY <2>15 DEF Session!Reload, Session!Import, Session!Types, Idles
    <3>3. Session!HeldKnown(record.held) BY <2>7, <3>1 DEF Known, KnownAt
    <3>4. \A g \in Session!Gens : Session!Live(d, g)' => g <= v7'
      <4>1. ASSUME NEW g \in Session!Gens, Session!Live(d, g)' PROVE g <= v7'
        <5>1. \A s \in Calls : v4'[d][s].at = "none" BY <3>2 DEF Idles, Session!Idle
        <5>2. PICK c \in Chats : v1'[d][c] = g BY <4>1, <5>1 DEF Session!Live, Session!Uses
        <5>3. \A h \in Session!Gens, c1 \in Chats : v1'[d][c1] = h =>
               \E b \in Chats : record.held[b] # None /\ record.held[b].gen = h
          BY <3>1, OpenedIs
        <5>4. PICK b \in Chats : record.held[b] # None /\ record.held[b].gen = g
          BY <5>2, <5>3
        <5> QED BY <3>2, <3>3, <5>4 DEF Session!HeldKnown
      <4> QED BY <4>1
    <3>5. KnownThen(v3'[d].held) BY <3>1, <3>2, <3>3 DEF KnownThen, Session!HeldKnown
    <3>6. DOMAIN v5'[d] = {} BY <3>2
    <3>7. KnownAt(d)' BY <2>8, <3>4, <3>5, <3>6
    <3> QED BY <2>10, <2>11, <2>12, <3>2, <3>7
  <2>16. ASSUME v7' = v7, v6' = v6, v10' \in {v10, v3[d]}, v5'[d] \in {v5[d], <<>>},
                v3'[d] = v3[d] \/ v3'[d].held = Session!Empty,
                \A g \in Session!Gens : Session!Live(d, g)' => Session!Live(d, g)
         PROVE  Known'
    <3>1. \A g \in Session!Gens : Session!Live(d, g)' => g <= v7' BY <2>7, <2>16 DEF KnownAt
    <3>2. \A i \in DOMAIN v5'[d] : i \in DOMAIN v5[d] /\ v5'[d] = v5[d]
      BY <2>16
    <3>3. \A i \in DOMAIN v5'[d], x \in Session!Envelopes : Session!Waits(d, i, x)' => x[2] <= v7'
      BY <2>7, <2>16, <3>2 DEF KnownAt, Session!Waits
    <3>4. KnownThen(v3'[d].held) BY <2>4, <2>6, <2>7, <2>16 DEF KnownAt, KnownThen, Session!Empty
    <3>5. \A i \in DOMAIN v5'[d] : KnownThen(v5'[d][i].held) BY <2>4, <2>6, <2>7, <3>2 DEF KnownAt
    <3>6. KnownAt(d)' BY <2>8, <3>1, <3>3, <3>4, <3>5
    <3>7. KnownThen(v3[d].held) BY <2>4, <2>6, <2>7 DEF KnownAt
    <3> QED BY <2>10, <2>11, <2>12, <2>16, <3>6, <3>7
  <2>17. ASSUME NEW s \in Calls, NEW c \in Chats, Session!SendStart(d, s, c) PROVE Known'
    <3>1. UNCHANGED <<v1, v3, v5, v6, v7, v10>> BY <2>17 DEF Session!SendStart
    <3>2. \A g \in Session!Gens : Session!Live(d, g)' => Session!Live(d, g) BY <2>1, <2>17, StartLives
    <3> QED BY <2>16, <3>1, <3>2
  <2>18. CASE Session!Cleared(d) \/ Session!ExportFile(d) \/ Session!ExportCopy(d)
    <3>1. v7' = v7 /\ v6' = v6 /\ v10' \in {v10, v3[d]}
      BY <2>18 DEF Session!Cleared, Session!ExportFile, Session!ExportCopy, Session!Exported
    <3>2. v5'[d] \in {v5[d], <<>>} /\ (v3'[d] = v3[d] \/ v3'[d].held = Session!Empty)
      BY <2>18 DEF Session!Cleared, Session!ExportFile, Session!ExportCopy, Session!Wiped, Session!Types
    <3>3. \A g \in Session!Gens : Session!Live(d, g)' => Session!Live(d, g) BY <2>18, WipeLives
    <3> QED BY <2>16, <3>1, <3>2, <3>3
  <2> QED BY <2>1, <2>13, <2>14, <2>15, <2>17, <2>18, ActsAre
<1> QED BY <1>1, <1>2

(* The parts of Bounds that speak of one device.                            *)
DevOK(d) ==
    /\ Session!Ahead(d) /\ Session!WritesAhead(d) /\ Session!OutOnce(d)
    /\ \A x \in v6 : Session!Past(v3[d].held, x)

LEMMA BoundsAre ==
  Session!Bounds <=> /\ \A d \in Devices : DevOK(d)
                     /\ v10 # None => \A x \in v6 : Session!Past(v10.held, x)
                     /\ ~v11
BY DEF Session!Bounds, DevOK

(* A device without the account has nothing that could be behind.           *)
LEMMA AwayDev ==
  ASSUME Session!Types', Session!OneHome', NEW e \in Devices, e \notin v9'
  PROVE  DevOK(e)'
<1>1. v1'[e] = Session!Empty /\ v3'[e].held = Session!Empty /\ v4'[e] = Idles /\ v5'[e] = <<>>
  BY DEF Session!OneHome, Idles
<1>2. \A g \in Session!Gens : ~Session!Live(e, g)'
  <2>1. \A c \in Chats : v1'[e][c] = None BY <1>1 DEF Session!Empty
  <2>2. \A s \in Calls : v4'[e][s].at = "none" BY <1>1 DEF Idles, Session!Idle
  <2> QED BY <2>1, <2>2, NoneApart DEF Session!Live, Session!Uses
<1>3. DOMAIN v5'[e] = {} BY <1>1
<1>4. \A x : Session!Past(v3'[e].held, x)
  BY <1>1 DEF Session!Past, Session!Empty
<1>5. Session!Ahead(e)' BY <1>2 DEF Session!Ahead
<1>6. Session!WritesAhead(e)' BY <1>3 DEF Session!WritesAhead
<1>7. Session!OutOnce(e)' BY <1>3 DEF Session!OutOnce
<1>8. \A x \in v6' : Session!Past(v3'[e].held, x) BY <1>4 DEF Session!Past
<1> QED BY <1>5, <1>6, <1>7, <1>8 DEF DevOK, Session!Past

LEMMA EnvelopeFields ==
  ASSUME NEW x \in Session!Envelopes
  PROVE  x[1] \in Chats /\ x[2] \in Session!Gens /\ x[2] \in Nat /\ x[3] \in Nat /\ x = <<x[1], x[2], x[3]>>
BY DEF Session!Envelopes, Session!Gens

LEMMA AddBounds ==
  ASSUME Session!Types, Session!Types', Known, NEW d \in Devices, NEW out, AddsOne(d, out), DevOK(d)
  PROVE  DevOK(d)'
<1> DEFINE n == Len(v5[d])
<1>1. /\ v3' = v3 /\ v6' = v6 /\ out \in Session!Envelopes \cup {None} /\ v7 \in Nat
      /\ \A g \in Session!Gens : Session!Live(d, g)' => Session!Live(d, g) \/ g = v7 + 1
      /\ \A g \in Session!Gens : v2[d][g] <= v2'[d][g] /\ v2[d][g] \in Nat /\ v2'[d][g] \in Nat
  BY DeviceAssumption DEF AddsOne, Session!Types
<1>2. out # None => /\ out \in Session!Envelopes /\ out[2] \in Session!Gens /\ out[2] \in Nat
                    /\ Session!Live(d, out[2]) /\ out[3] = v2[d][out[2]] + 1
                    /\ v2'[d][out[2]] = out[3]
  BY <1>1, EnvelopeFields DEF AddsOne
<1>3. /\ n \in Nat /\ DOMAIN v5[d] = 1..n /\ DOMAIN v5'[d] = 1..(n + 1)
      /\ \A i \in 1..n : v5'[d][i] = v5[d][i]
  BY WaitsAdded
<1>4. \A i, x : Session!Waits(d, i, x)' <=>
               Session!Waits(d, i, x) \/ (i = n + 1 /\ x = out /\ x # None)
  BY WaitsAdded
<1>5. \A c \in Chats : v5'[d][n + 1].held[c] # None =>
               /\ v1'[d][c] \in Session!Gens
               /\ v5'[d][n + 1].held[c].gen = v1'[d][c]
               /\ v5'[d][n + 1].held[c].step = v2'[d][v1'[d][c]]
  BY WaitsAdded
<1> HIDE DEF n
<1>6. \A i, x : Session!Waits(d, i, x) => i \in 1..n BY <1>3 DEF Session!Waits
<1>7. \A x \in v6 : x \in Session!Envelopes BY DEF Session!Types
<1>8. \A x \in v6 : x[2] <= v7 BY DEF Known
<1>9. \A i : \A x \in Session!Envelopes : Session!Waits(d, i, x) => x[2] <= v7
  BY <1>3, <1>6 DEF Known, KnownAt
<1>10. \A g \in Session!Gens : Session!Live(d, g) => \A x \in v6 : x[2] = g => x[3] <= v2[d][g]
  BY DEF DevOK, Session!Ahead
<1>11. \A g \in Session!Gens : Session!Live(d, g) =>
          \A i : \A x \in Session!Envelopes : Session!Waits(d, i, x) /\ x[2] = g => x[3] <= v2[d][g]
  BY <1>3, <1>6 DEF DevOK, Session!Ahead
<1>12. out # None => out \notin v6 /\ \A i : ~Session!Waits(d, i, out)
  <2>1. ASSUME out # None PROVE ~(out[3] <= v2[d][out[2]])
    BY <1>1, <1>2, <2>1
  <2> QED BY <1>2, <1>10, <1>11, <2>1
<1>13. ASSUME NEW g \in Session!Gens, Session!Live(d, g)', NEW x \in v6, x[2] = g PROVE x[3] <= v2'[d][g]
  <2>1. x[3] \in Nat /\ g \in Nat BY <1>7, <1>13, EnvelopeFields
  <2>2. g # v7 + 1 BY <1>1, <1>8, <1>13, <2>1
  <2>3. x[3] <= v2[d][g] BY <1>1, <1>10, <1>13, <2>2
  <2> QED BY <1>1, <2>1, <2>3
<1>14. ASSUME NEW g \in Session!Gens, Session!Live(d, g)', NEW i, NEW x \in Session!Envelopes,
              Session!Waits(d, i, x)', x[2] = g
       PROVE  x[3] <= v2'[d][g]
  <2>1. x[3] \in Nat /\ g \in Nat BY <1>14, EnvelopeFields
  <2>2. CASE x = out /\ x # None BY <1>1, <1>2, <1>14, <2>1, <2>2
  <2>3. CASE Session!Waits(d, i, x)
    <3>1. g # v7 + 1 BY <1>1, <1>9, <1>14, <2>1, <2>3
    <3>2. x[3] <= v2[d][g] BY <1>1, <1>11, <1>14, <2>3, <3>1
    <3> QED BY <1>1, <2>1, <3>2
  <2> QED BY <1>4, <1>14, <2>2, <2>3
<1>15. Session!Ahead(d)' BY <1>1, <1>13, <1>14 DEF Session!Ahead
<1>16. ASSUME NEW x \in Session!Envelopes, x \in v6 \/ \E i : Session!Waits(d, i, x)'
       PROVE  Session!Past(v5'[d][n + 1].held, x)
  <2>1. \A c \in Chats, g \in Session!Gens : v1'[d][c] = g => Session!Live(d, g)' BY DEF Session!Live
  <2>2. ASSUME NEW c \in Chats, v5'[d][n + 1].held[c] # None, v5'[d][n + 1].held[c].gen = x[2]
        PROVE  x[3] <= v5'[d][n + 1].held[c].step
    <3>1. x[2] \in Session!Gens /\ v1'[d][c] = x[2] /\ v5'[d][n + 1].held[c].step = v2'[d][x[2]]
      BY <1>5, <2>2
    <3>2. Session!Live(d, x[2])' BY <2>1, <3>1
    <3>3. x[3] <= v2'[d][x[2]] BY <1>13, <1>14, <1>16, <3>1, <3>2
    <3> QED BY <3>1, <3>3
  <2> QED BY <2>2 DEF Session!Past
<1>17. ASSUME NEW i \in 1..(n + 1)
       PROVE  /\ \A x \in v6 : Session!Past(v5'[d][i].held, x)
              /\ \A j \in 1..i, x \in Session!Envelopes : Session!Waits(d, j, x)' => Session!Past(v5'[d][i].held, x)
  <2>1. CASE i = n + 1 BY <1>7, <1>16, <2>1
  <2>2. CASE i \in 1..n
    <3>1. \A j \in 1..i : j # n + 1 BY <1>3, <2>2
    <3>2. v5'[d][i] = v5[d][i] BY <1>3, <2>2
    <3>3. /\ \A x \in v6 : Session!Past(v5[d][i].held, x)
          /\ \A j \in 1..i, x \in Session!Envelopes : Session!Waits(d, j, x) => Session!Past(v5[d][i].held, x)
      BY <1>3, <2>2 DEF DevOK, Session!WritesAhead
    <3>4. \A j \in 1..i, x \in Session!Envelopes : Session!Waits(d, j, x)' => Session!Waits(d, j, x)
      BY <1>4, <3>1
    <3> QED BY <3>2, <3>3, <3>4
  <2>3. i = n + 1 \/ i \in 1..n
    <3>1. n \in Nat BY <1>3
    <3> QED BY <3>1
  <2> QED BY <2>1, <2>2, <2>3, Zenon
<1>18. Session!WritesAhead(d)' BY <1>1, <1>3, <1>17 DEF Session!WritesAhead, Session!Past
<1>19. ASSUME NEW i \in 1..(n + 1), NEW x \in Session!Envelopes, Session!Waits(d, i, x)'
       PROVE  x \notin v6 /\ \A j \in 1..(n + 1) : Session!Waits(d, j, x)' => i = j
  <2>1. CASE Session!Waits(d, i, x)
    <3>1. x \notin v6 /\ \A j \in 1..n : Session!Waits(d, j, x) => i = j
      BY <1>3, <1>6, <2>1 DEF DevOK, Session!OutOnce
    <3> QED BY <1>4, <1>6, <1>12, <2>1, <3>1
  <2>2. CASE i = n + 1 /\ x = out /\ x # None
    BY <1>4, <1>12, <2>2
  <2> QED BY <1>4, <1>19, <2>1, <2>2
<1>20. Session!OutOnce(d)' BY <1>1, <1>3, <1>19 DEF Session!OutOnce
<1>21. \A x \in v6' : Session!Past(v3'[d].held, x) BY <1>1 DEF DevOK, Session!Past
<1> QED BY <1>15, <1>18, <1>20, <1>21 DEF DevOK, Session!Past

(* The first write ends, as the order wants it.                             *)
LEMMA LandBounds ==
  ASSUME Session!Types, Session!Types', NEW d \in Devices, Session!SlotsOK(d), 1 \in DOMAIN v5[d],
         Session!Land(d, 1), v3'[d] = [by |-> d, held |-> v5[d][1].held], DevOK(d)
  PROVE  DevOK(d)' /\ (~v11 => ~v11')
<1> DEFINE n == Len(v5[d])
<1>1. /\ n \in Nat /\ DOMAIN v5[d] = 1..n /\ DOMAIN v5'[d] = 1..(n - 1)
      /\ \A i \in 1..(n - 1) : v5'[d][i] = v5[d][From(1, i)]
  BY LandIs
<1>2. \A i \in 1..(n - 1) : From(1, i) = i + 1 /\ i + 1 \in 1..n BY <1>1 DEF From
<1>3. \A i \in 1..(n - 1) : v5'[d][i] = v5[d][i + 1] BY <1>1, <1>2
<1>4. \A i, x : Session!Waits(d, i, x)' => Session!Waits(d, From(1, i), x) BY LandIs
<1>5. \A i, x : Session!Waits(d, i, x)' => i \in 1..(n - 1) BY <1>1 DEF Session!Waits
<1>6. \A i, x : Session!Waits(d, i, x)' => Session!Waits(d, i + 1, x) BY <1>2, <1>4, <1>5
<1>7. \A g : Session!Live(d, g)' => Session!Live(d, g) BY LandIs
<1>8. \A x \in v6' : x \in v6 \/ Session!Waits(d, 1, x) BY LandIs
<1>9. v2' = v2 BY LandIs
<1>10. v6' \subseteq Session!Envelopes BY DEF Session!Types
<1> HIDE DEF n
<1>11. Session!Ahead(d)'
  <2>1. ASSUME NEW g \in Session!Gens, Session!Live(d, g) PROVE
           /\ \A x \in v6 : x[2] = g => x[3] <= v2[d][g]
           /\ \A i \in 1..n, x \in Session!Envelopes : Session!Waits(d, i, x) /\ x[2] = g => x[3] <= v2[d][g]
    BY <1>1, <2>1 DEF DevOK, Session!Ahead
  <2>2. 1 \in 1..n BY <1>1
  <2>3. ASSUME NEW g \in Session!Gens, Session!Live(d, g)', NEW x \in v6', x[2] = g
        PROVE  x[3] <= v2'[d][g]
    BY <1>7, <1>8, <1>9, <1>10, <2>1, <2>2, <2>3
  <2>4. ASSUME NEW g \in Session!Gens, Session!Live(d, g)', NEW i \in 1..(n - 1), NEW x \in Session!Envelopes,
               Session!Waits(d, i, x)', x[2] = g
        PROVE  x[3] <= v2'[d][g]
    <3>1. Session!Waits(d, i + 1, x) /\ i + 1 \in 1..n BY <1>2, <1>6, <2>4
    <3> QED BY <1>7, <1>9, <2>1, <2>4, <3>1
  <2> QED BY <1>1, <2>3, <2>4 DEF Session!Ahead
<1>12. \A i \in 1..n : /\ \A x \in v6 : Session!Past(v5[d][i].held, x)
                       /\ \A j \in 1..i, x \in Session!Envelopes :
                             Session!Waits(d, j, x) => Session!Past(v5[d][i].held, x)
  BY <1>1 DEF DevOK, Session!WritesAhead
<1>13. \A i \in 1..n : 1 \in 1..i BY <1>1
<1>14. \A i \in 1..n, x \in v6' : Session!Past(v5[d][i].held, x) BY <1>8, <1>10, <1>12, <1>13
<1>15. Session!WritesAhead(d)'
  <2>1. ASSUME NEW i \in 1..(n - 1), NEW j \in 1..i, NEW x \in Session!Envelopes, Session!Waits(d, j, x)'
        PROVE  Session!Past(v5'[d][i].held, x)
    <3>1. j + 1 \in 1..(i + 1) /\ i + 1 \in 1..n BY <1>1, <1>2
    <3>2. Session!Waits(d, j + 1, x) BY <1>6, <2>1
    <3> QED BY <1>3, <1>12, <3>1, <3>2
  <2>2. ASSUME NEW i \in 1..(n - 1), NEW x \in v6' PROVE Session!Past(v5'[d][i].held, x)
    BY <1>2, <1>3, <1>14
  <2> QED BY <1>1, <2>1, <2>2 DEF Session!WritesAhead, Session!Past
<1>16. \A i \in 1..n, x \in Session!Envelopes : Session!Waits(d, i, x) =>
          x \notin v6 /\ \A j \in 1..n : Session!Waits(d, j, x) => i = j
  BY <1>1 DEF DevOK, Session!OutOnce
<1>17. Session!OutOnce(d)'
  <2>1. ASSUME NEW i \in 1..(n - 1), NEW x \in Session!Envelopes, Session!Waits(d, i, x)'
        PROVE  x \notin v6' /\ \A j \in 1..(n - 1) : Session!Waits(d, j, x)' => i = j
    <3>1. Session!Waits(d, i + 1, x) /\ i + 1 \in 1..n /\ i + 1 # 1 /\ 1 \in 1..n BY <1>1, <1>2, <1>6, <2>1
    <3>2. x \notin v6 /\ ~Session!Waits(d, 1, x) BY <1>16, <3>1
    <3>3. ASSUME NEW j \in 1..(n - 1), Session!Waits(d, j, x)' PROVE i = j
      <4>1. Session!Waits(d, j + 1, x) /\ j + 1 \in 1..n BY <1>2, <1>6, <3>3
      <4>2. i + 1 = j + 1 BY <1>16, <3>1, <4>1
      <4> QED BY <1>1, <4>2
    <3> QED BY <1>8, <3>2, <3>3
  <2> QED BY <1>1, <2>1 DEF Session!OutOnce
<1>18. \A x \in v6' : Session!Past(v3'[d].held, x) BY <1>1, <1>14
<1>19. ~v11 => ~v11'
  <2>1. v5[d][1] \in Session!Save BY DEF Session!Types
  <2>2. CASE v5[d][1].out = None BY <2>2 DEF Session!Land
  <2>3. CASE v5[d][1].out # None
    <3>1. Session!Waits(d, 1, v5[d][1].out) BY <2>3 DEF Session!Waits
    <3>2. v5[d][1].out \notin v6 BY <1>1, <1>16, <2>1, <2>3, <3>1 DEF Session!Save
    <3> QED BY <2>3, <3>2 DEF Session!Land
  <2> QED BY <2>2, <2>3
<1> QED BY <1>11, <1>15, <1>17, <1>18, <1>19 DEF DevOK

(* A record is opened that is past all that has left.                       *)
LEMMA OpenBounds ==
  ASSUME Session!Types, Session!Types', NEW d \in Devices, NEW record \in Session!Record,
         Session!Opened(d, record), v3'[d] = record, v4'[d] = Idles, v5'[d] = <<>>, v6' = v6,
         \A x \in v6 : Session!Past(record.held, x)
  PROVE  DevOK(d)'
<1>1. DOMAIN v5'[d] = {} OBVIOUS
<1>2. \A s \in Calls : v4'[d][s].at = "none" BY DEF Idles, Session!Idle
<1>3. \A g \in Session!Gens, c \in Chats : v1'[d][c] = g =>
               \E b \in Chats : /\ record.held[b] # None /\ record.held[b].gen = g
                                /\ v2'[d][g] = record.held[b].step
  BY OpenedIs
<1>4. ASSUME NEW g \in Session!Gens, Session!Live(d, g)', NEW x \in v6, x[2] = g PROVE x[3] <= v2'[d][g]
  <2>1. PICK c \in Chats : v1'[d][c] = g BY <1>2, <1>4 DEF Session!Live, Session!Uses
  <2>2. PICK b \in Chats : /\ record.held[b] # None /\ record.held[b].gen = g
                           /\ v2'[d][g] = record.held[b].step
    BY <1>3, <2>1
  <2> QED BY <1>4, <2>2 DEF Session!Past
<1>5. Session!Ahead(d)' BY <1>1, <1>4 DEF Session!Ahead
<1>6. Session!WritesAhead(d)' BY <1>1 DEF Session!WritesAhead
<1>7. Session!OutOnce(d)' BY <1>1 DEF Session!OutOnce
<1> QED BY <1>5, <1>6, <1>7 DEF DevOK

LEMMA RestBounds ==
  ASSUME Session!Types, NEW d \in Devices, v2'[d] = v2[d], v3'[d] = v3[d], v5'[d] = v5[d], v6' = v6,
         \A g \in Session!Gens : Session!Live(d, g)' => Session!Live(d, g), DevOK(d)
  PROVE  DevOK(d)'
<1>1. \A i, x : Session!Waits(d, i, x)' <=> Session!Waits(d, i, x) BY DEF Session!Waits
<1>2. Session!Ahead(d)' BY <1>1 DEF DevOK, Session!Ahead
<1>3. Session!WritesAhead(d)' BY <1>1 DEF DevOK, Session!WritesAhead, Session!Past
<1>4. Session!OutOnce(d)' BY <1>1 DEF DevOK, Session!OutOnce
<1> QED BY <1>2, <1>3, <1>4 DEF DevOK

(* Odd things are not forgotten.                                            *)
LEMMA OddGrows ==
  ASSUME Session!Types, Session!Next \/ UNCHANGED slots
  PROVE  v13 \subseteq v13'
<1>1. CASE UNCHANGED slots BY <1>1 DEF slots
<1>2. CASE Session!Next
  <2>1. PICK d \in Devices : Acts(d) BY <1>2, NextActs
  <2>2. ASSUME NEW s \in Calls, Session!Bundled(d, s) \/ Session!Step(d, s) PROVE v13 \subseteq v13'
    BY <2>2 DEF Session!Bundled, Session!Step
  <2>3. ASSUME NEW s \in Calls, NEW c \in Chats, Session!SendStart(d, s, c) PROVE v13 \subseteq v13'
    BY <2>3 DEF Session!SendStart
  <2>4. ASSUME NEW c \in Chats, Session!Receive(d, c) \/ Session!KeyChanged(d, c) PROVE v13 \subseteq v13'
    BY <2>4 DEF Session!Receive, Session!KeyChanged
  <2>5. ASSUME NEW k \in DOMAIN v5[d], Session!Land(d, k) PROVE v13 \subseteq v13'
    BY <2>5 DEF Session!Land
  <2>6. CASE Session!Reload(d) \/ Session!Cleared(d) \/ Session!ExportFile(d)
             \/ Session!ExportCopy(d) \/ Session!Import(d)
    BY <2>6 DEF Session!Reload, Session!Cleared, Session!ExportFile, Session!ExportCopy, Session!Import
  <2> QED BY <2>1, <2>2, <2>3, <2>4, <2>5, <2>6 DEF Acts
<1> QED BY <1>1, <1>2

LEMMA SteadyBefore ==
  ASSUME Session!Types, Session!Next \/ UNCHANGED slots, Session!Steady' PROVE Session!Steady
BY OddGrows DEF Session!Steady

(* What a device without the account does.                                  *)
LEMMA AwayActs ==
  ASSUME Session!Types, Session!OneHome, NEW d \in Devices, d \notin v9, Acts(d)
  PROVE  Session!Reload(d) \/ Session!Import(d)
<1>1. v1[d] = Session!Empty /\ v4[d] = Idles /\ v5[d] = <<>>
  BY DEF Session!OneHome, Idles
<1>2. /\ \A s \in Calls : v4[d][s].at = "none"
      /\ DOMAIN v5[d] = {}
      /\ \A c \in Chats : v1[d][c] = None
  BY <1>1 DEF Idles, Session!Idle, Session!Empty
<1>3. ~\E s \in Calls : Session!Bundled(d, s) \/ Session!Step(d, s)
  BY <1>2 DEF Session!Bundled, Session!Step
<1>4. ~\E s \in Calls, c \in Chats : Session!SendStart(d, s, c) BY DEF Session!SendStart
<1>5. ~\E c \in Chats : Session!Receive(d, c) \/ Session!KeyChanged(d, c)
  BY <1>2 DEF Session!Receive, Session!KeyChanged
<1>6. ~\E k \in DOMAIN v5[d] : Session!Land(d, k) BY <1>2
<1>7. ~(Session!Cleared(d) \/ Session!ExportFile(d) \/ Session!ExportCopy(d))
  BY <1>1 DEF Session!Cleared, Session!ExportFile, Session!ExportCopy
<1> QED BY <1>3, <1>4, <1>5, <1>6, <1>7 DEF Acts

Away(e) ==
    v1[e] = Session!Empty /\ v3[e].held = Session!Empty /\ v4[e] = Idles /\ v5[e] = <<>>

LEMMA OneHomeIs ==
  Session!OneHome <=> /\ \A d, e \in v9 : d = e
                      /\ v10 # None => v9 = {}
                      /\ \A d \in Devices : d \notin v9 => Away(d)
BY DEF Session!OneHome, Away, Idles

LEMMA OneHomeKept ==
  ASSUME Session!Types, Session!Types', Session!OneHome, Session!Next \/ UNCHANGED slots, Session!Steady'
  PROVE  Session!OneHome'
<1> SUFFICES /\ \A d, e \in v9' : d = e
             /\ v10' # None => v9' = {}
             /\ \A d \in Devices : d \notin v9' => Away(d)'
  BY DEF Session!OneHome, Away, Idles
<1>0. /\ \A d, e \in v9 : d = e
      /\ v10 # None => v9 = {}
      /\ \A d \in Devices : d \notin v9 => Away(d)
  BY OneHomeIs
<1>1. CASE UNCHANGED slots BY <1>0, <1>1 DEF slots, Away
<1>2. CASE Session!Next
  <2>1. PICK d \in Devices : Acts(d) BY <1>2, NextActs
  <2>2. \A e \in Devices : e # d /\ Away(e) => Away(e)' BY <2>1, OthersRest DEF Alone, Away
  <2>3. CASE Session!Import(d)
    <3>1. v10 # None /\ v10' = None /\ v9' = v9 \cup {d} BY <2>3 DEF Session!Import, Session!Decrypted
    <3>2. v9' = {d} BY <1>0, <3>1
    <3> QED BY <1>0, <2>2, <3>1, <3>2
  <2>4. CASE d \notin v9 /\ ~Session!Import(d)
    <3>1. Session!Reload(d) BY <2>1, <2>4, AwayActs
    <3>2. v9' = v9 /\ v10' = v10 /\ v3' = v3 /\ v4'[d] = Idles /\ v5'[d] = <<>> /\ Session!Opened(d, v3[d])
      BY <3>1 DEF Session!Reload, Session!Types, Idles
    <3>3. v3[d] \in Session!Record /\ v3[d].held = Session!Empty BY <1>0, <2>4 DEF Session!Types, Away
    <3>4. \A c \in Chats : v3[d].held[c] = None BY <3>3 DEF Session!Empty
    <3>5. \A c \in Chats : v1'[d][c] = IF v3[d].by = d /\ v3[d].held[c] # None
                                       THEN v3[d].held[c].gen ELSE None
      BY <3>2, <3>3, OpenedIs
    <3>6. v1'[d] = Session!Empty
      <4>1. v1'[d] \in [Chats -> Session!Gens \cup {None}] BY DEF Session!Types
      <4> QED BY <3>4, <3>5, <4>1 DEF Session!Empty
    <3>7. Away(d)' BY <3>2, <3>3, <3>6 DEF Away
    <3> QED BY <1>0, <2>2, <3>2, <3>7
  <2>5. CASE d \in v9 /\ Session!ExportFile(d)
    <3>1. v9' = {} BY <1>0, <2>5 DEF Session!ExportFile, Session!Wiped
    <3>2. Away(d)' BY <2>5 DEF Session!ExportFile, Session!Wiped, Session!Types, Away, Idles
    <3> QED BY <1>0, <2>2, <2>5, <3>1, <3>2
  <2>6. CASE d \in v9 /\ v9' = v9 /\ v10' = v10 BY <1>0, <2>2, <2>6
  <2>7. CASE d \in v9 /\ Session!ExportCopy(d)
    BY <2>7 DEF Session!ExportCopy, Session!Steady
  <2>8. CASE Session!Reload(d) \/ Session!Cleared(d) \/ \E s \in Calls, c \in Chats : Session!SendStart(d, s, c)
    <3>1. v9' = v9 /\ v10' = v10 BY <2>8 DEF Session!Reload, Session!Cleared, Session!SendStart
    <3> QED BY <2>4, <2>6, <3>1, <2>3
  <2>9. CASE \E k \in DOMAIN v5[d] : Session!Land(d, k)
    <3>1. v9' = v9 /\ v10' = v10 BY <2>9 DEF Session!Land
    <3> QED BY <2>4, <2>6, <3>1, <2>3
  <2>10. CASE \E out \in Session!Envelopes \cup {None} : AddsOne(d, out)
    <3>1. v9' = v9 /\ v10' = v10 BY <2>10 DEF AddsOne
    <3> QED BY <2>4, <2>6, <3>1, <2>3
  <2> QED BY <2>1, <2>3, <2>4, <2>5, <2>7, <2>8, <2>9, <2>10, ActsAre
<1> QED BY <1>1, <1>2

LEMMA BoundsKept ==
  ASSUME Session!Types, Session!Types', \A d \in Devices : Session!SlotsOK(d), Known,
         Session!OneHome, Session!OneHome', Session!Bounds,
         Session!Next \/ UNCHANGED slots, Session!Steady'
  PROVE  Session!Bounds'
<1> SUFFICES /\ \A d \in Devices : d \in v9' => DevOK(d)'
             /\ v10' # None => \A x \in v6' : Session!Past(v10'.held, x)
             /\ ~v11'
  <2>1. \A d \in Devices : d \notin v9' => DevOK(d)' BY AwayDev
  <2> QED BY <2>1 DEF Session!Bounds, DevOK
<1>0. /\ \A d \in Devices : DevOK(d)
      /\ v10 # None => \A x \in v6 : Session!Past(v10.held, x)
      /\ ~v11
      /\ \A d \in Devices : \A x \in v6 : Session!Past(v3[d].held, x)
  BY BoundsAre DEF DevOK
<1>1. CASE UNCHANGED slots
  BY <1>0, <1>1 DEF slots, DevOK, Session!Ahead, Session!WritesAhead, Session!OutOnce, Session!Live,
     Session!Uses, Session!Waits, Session!Past
<1>2. CASE Session!Next
  <2>1. PICK d \in Devices : Acts(d) BY <1>2, NextActs
  <2>2. /\ \A e, f \in v9 : e = f
        /\ v10 # None => v9 = {}
        /\ \A e, f \in v9' : e = f
        /\ v9' \subseteq Devices
    BY DEF Session!OneHome, Session!Types
  <2>3. CASE Session!Import(d)
    <3>1. /\ v10 # None /\ v10' = None /\ v9' = v9 \cup {d} /\ Session!Opened(d, v10)
          /\ v3'[d] = v10 /\ v4'[d] = Idles /\ v5'[d] = <<>> /\ v6' = v6 /\ v11' = v11
      BY <2>3 DEF Session!Import, Session!Decrypted, Session!Types, Idles
    <3>2. v10 \in Session!Record BY <3>1 DEF Session!Types
    <3>3. DevOK(d)' BY <1>0, <3>1, <3>2, OpenBounds
    <3> QED BY <1>0, <2>2, <3>1, <3>3
  <2>4. CASE Session!Reload(d)
    <3>1. /\ v10' = v10 /\ v9' = v9 /\ Session!Opened(d, v3[d])
          /\ v3' = v3 /\ v4'[d] = Idles /\ v5'[d] = <<>> /\ v6' = v6 /\ v11' = v11
      BY <2>4 DEF Session!Reload, Session!Types, Idles
    <3>2. v3[d] \in Session!Record /\ v3'[d] = v3[d] BY <3>1 DEF Session!Types
    <3>3. DevOK(d)' BY <1>0, <3>1, <3>2, OpenBounds
    <3>4. ASSUME NEW e \in Devices, e # d PROVE DevOK(e)'
      <4>1. Alone(e) BY <2>1, <3>4, OthersRest
      <4>2. \A g \in Session!Gens : Session!Live(e, g)' => Session!Live(e, g) BY <4>1, RestKeeps
      <4>3. v2'[e] = v2[e] /\ v3'[e] = v3[e] /\ v5'[e] = v5[e] BY <4>1 DEF Alone
      <4> QED BY <1>0, <3>1, <4>2, <4>3, RestBounds
    <3> QED BY <1>0, <3>1, <3>3, <3>4
  <2>5. CASE d \notin v9 BY <2>1, <2>3, <2>4, <2>5, AwayActs
  <2>6. ASSUME d \in v9, DevOK(d)', v9' = v9, v10' = v10, ~v11'
        PROVE  /\ \A e \in Devices : e \in v9' => DevOK(e)'
               /\ v10' # None => \A x \in v6' : Session!Past(v10'.held, x)
               /\ ~v11'
    BY <2>2, <2>6
  <2>7. ASSUME d \in v9, NEW out, AddsOne(d, out)
        PROVE  /\ \A e \in Devices : e \in v9' => DevOK(e)'
               /\ v10' # None => \A x \in v6' : Session!Past(v10'.held, x)
               /\ ~v11'
    <3>1. v9' = v9 /\ v10' = v10 /\ v11' = v11 BY <2>7 DEF AddsOne
    <3>2. DevOK(d)' BY <1>0, <2>7, AddBounds
    <3> QED BY <1>0, <2>6, <2>7, <3>1, <3>2
  <2>8. ASSUME d \in v9, NEW k \in DOMAIN v5[d], Session!Land(d, k)
        PROVE  /\ \A e \in Devices : e \in v9' => DevOK(e)'
               /\ v10' # None => \A x \in v6' : Session!Past(v10'.held, x)
               /\ ~v11'
    <3>1. "failed" \notin v13' /\ "crossed" \notin v13' BY DEF Session!Steady
    <3>2. v3' = [v3 EXCEPT ![d] = [by |-> d, held |-> v5[d][k].held]] /\ ~(k > 1)
      BY <2>8, <3>1 DEF Session!Land
    <3>3. v9' = v9 /\ v10' = v10 BY <2>8 DEF Session!Land
    <3>4. k = 1
      <4>1. v5[d] \in Seq(Session!Save) BY DEF Session!Types
      <4>2. k \in 1..Len(v5[d]) /\ Len(v5[d]) \in Nat BY <4>1
      <4> QED BY <3>2, <4>2
    <3>5. v3'[d] = [by |-> d, held |-> v5[d][1].held] BY <3>2, <3>4 DEF Session!Types
    <3>6. DevOK(d)' /\ ~v11' BY <1>0, <2>8, <3>4, <3>5, LandBounds
    <3> QED BY <2>6, <2>8, <3>3, <3>6
  <2>9. ASSUME d \in v9, NEW s \in Calls, NEW c \in Chats, Session!SendStart(d, s, c)
        PROVE  /\ \A e \in Devices : e \in v9' => DevOK(e)'
               /\ v10' # None => \A x \in v6' : Session!Past(v10'.held, x)
               /\ ~v11'
    <3>1. UNCHANGED <<v2, v3, v5, v6, v9, v10, v11>> BY <2>9 DEF Session!SendStart
    <3>2. \A g \in Session!Gens : Session!Live(d, g)' => Session!Live(d, g) BY <2>9, StartLives
    <3>3. DevOK(d)' BY <1>0, <3>1, <3>2, RestBounds
    <3> QED BY <1>0, <2>6, <2>9, <3>1, <3>3
  <2>10. CASE d \in v9 /\ Session!Cleared(d)
    <3>1. UNCHANGED <<v2, v3, v5, v6, v9, v10, v11>> BY <2>10 DEF Session!Cleared
    <3>2. \A g \in Session!Gens : Session!Live(d, g)' => Session!Live(d, g) BY <2>10, WipeLives
    <3>3. DevOK(d)' BY <1>0, <3>1, <3>2, RestBounds
    <3> QED BY <1>0, <2>6, <2>10, <3>1, <3>3
  <2>11. CASE d \in v9 /\ Session!ExportFile(d)
    <3>1. v9' = v9 \ {d} /\ v10' = v3[d] /\ v6' = v6 /\ v11' = v11
      BY <2>11 DEF Session!ExportFile, Session!Exported, Session!Wiped
    <3>2. v9' = {} BY <2>2, <2>11, <3>1
    <3> QED BY <1>0, <3>1, <3>2
  <2>12. CASE d \in v9 /\ Session!ExportCopy(d)
    BY <2>12 DEF Session!ExportCopy, Session!Steady
  <2> QED BY <2>1, <2>3, <2>4, <2>5, <2>7, <2>8, <2>9, <2>10, <2>11, <2>12, ActsAre
<1> QED BY <1>1, <1>2

(* The parts of KeepsAt.                                                    *)
DiskKeeps(d) == v3[d].by = d /\ \A x \in v6 : Session!InMemory(d, x) /\ Session!Has(v3[d].held, x)
WritesKeep(d) == \A i \in DOMAIN v5[d] :
    /\ \A x \in v6 : Session!Has(v5[d][i].held, x)
    /\ \A x \in Session!Envelopes : Session!Waits(d, i, x) => Session!InMemory(d, x)
    /\ \A j \in 1 .. i, x \in Session!Envelopes : Session!Waits(d, j, x) => Session!Has(v5[d][i].held, x)
UseKeeps(d, s) ==
    /\ v4[d][s].at \in {"made", "step"} => v4[d][s].gen \in v8 \/ v1[d][v4[d][s].chat] = v4[d][s].gen
    /\ v4[d][s].at = "bundle" => /\ v1[d][v4[d][s].chat] = None
                                 /\ \A r \in Calls : v4[d][r] = v4[d][s] => r = s

LEMMA KeepsAtIs ==
  ASSUME NEW d \in Devices
  PROVE  Session!KeepsAt(d) <=> DiskKeeps(d) /\ WritesKeep(d) /\ \A s \in Calls : UseKeeps(d, s)
<1>1. Session!KeepsAt(d) => DiskKeeps(d) BY DEF Session!KeepsAt, DiskKeeps
<1>2. Session!KeepsAt(d) => WritesKeep(d) BY DEF Session!KeepsAt, WritesKeep
<1>3. Session!KeepsAt(d) => \A s \in Calls : UseKeeps(d, s) BY DEF Session!KeepsAt, UseKeeps
<1>4. DiskKeeps(d) /\ WritesKeep(d) /\ (\A s \in Calls : UseKeeps(d, s)) => Session!KeepsAt(d)
  BY DEF Session!KeepsAt, DiskKeeps, WritesKeep, UseKeeps
<1> QED BY <1>1, <1>2, <1>3, <1>4

LEMMA KeepsAtThen ==
  ASSUME NEW d \in Devices, DiskKeeps(d)', WritesKeep(d)', \A s \in Calls : UseKeeps(d, s)'
  PROVE  Session!KeepsAt(d)'
BY DEF Session!KeepsAt, DiskKeeps, WritesKeep, UseKeeps

(* The memory of a chat changes only from nothing, or by a drop.            *)
MemoryMoves(d) ==
    /\ v8 \subseteq v8'
    /\ \A c \in Chats : v1'[d][c] = v1[d][c] \/ v1[d][c] = None \/ v1[d][c] \in v8'

LEMMA StillInMemory ==
  ASSUME NEW d \in Devices, MemoryMoves(d), NEW x \in Session!Envelopes, Session!InMemory(d, x)
  PROVE  Session!InMemory(d, x)'
<1>1. x[1] \in Chats /\ x[2] # None BY EnvelopeFields, NoneApart
<1> QED BY <1>1 DEF MemoryMoves, Session!InMemory

LEMMA AddKeeps ==
  ASSUME Session!Types, Session!Types', NEW d \in Devices, NEW out, AddsOne(d, out),
         DiskKeeps(d), WritesKeep(d), MemoryMoves(d), out # None => Session!InMemory(d, out)
  PROVE  DiskKeeps(d)' /\ WritesKeep(d)'
<1> DEFINE n == Len(v5[d])
<1>1. v3' = v3 /\ v6' = v6 /\ v8 \subseteq v8' BY DEF AddsOne, MemoryMoves
<1>2. /\ n \in Nat /\ DOMAIN v5[d] = 1..n /\ DOMAIN v5'[d] = 1..(n + 1)
      /\ \A i \in 1..n : v5'[d][i] = v5[d][i]
  BY WaitsAdded
<1>3. \A i, x : Session!Waits(d, i, x)' <=>
               Session!Waits(d, i, x) \/ (i = n + 1 /\ x = out /\ x # None)
  BY WaitsAdded
<1>4. \A c \in Chats : v5'[d][n + 1].held[c] # None => v5'[d][n + 1].held[c].gen = v1'[d][c]
  BY WaitsAdded
<1>5. \A c \in Chats : v1'[d][c] # None => v5'[d][n + 1].held[c] # None BY WaitsAdded
<1>6. v6 \subseteq Session!Envelopes BY DEF Session!Types
<1> HIDE DEF n
<1>7. \A held, x : Session!Has(held, x) => (x[2] \in v8' \/ (held[x[1]] # None /\ held[x[1]].gen = x[2]))
  BY <1>1 DEF Session!Has
<1>8. \A x \in Session!Envelopes : Session!InMemory(d, x) => Session!InMemory(d, x)' BY StillInMemory
<1>9. \A i, x : Session!Waits(d, i, x) => i \in 1..n BY <1>2 DEF Session!Waits
<1>10. DiskKeeps(d)'
  <2>1. \A x \in v6 : Session!InMemory(d, x)' BY <1>6, <1>8 DEF DiskKeeps
  <2>2. \A x \in v6 : Session!Has(v3[d].held, x)' BY <1>1, <1>7 DEF DiskKeeps, Session!Has
  <2> QED BY <1>1, <2>1, <2>2 DEF DiskKeeps, Session!Has
<1>12. \A i : \A x \in Session!Envelopes : Session!Waits(d, i, x)' => Session!InMemory(d, x)'
  <2>1. ASSUME NEW i, NEW x \in Session!Envelopes, Session!Waits(d, i, x) PROVE Session!InMemory(d, x)
    BY <1>2, <1>9, <2>1 DEF WritesKeep
  <2> QED BY <1>3, <1>8, <2>1
<1>13. ASSUME NEW x \in Session!Envelopes, Session!InMemory(d, x)'
       PROVE  x[2] \in v8' \/ (v5'[d][n + 1].held[x[1]] # None /\ v5'[d][n + 1].held[x[1]].gen = x[2])
  <2>1. x[1] \in Chats /\ x[2] # None BY EnvelopeFields, NoneApart
  <2>2. x[2] \in v8' \/ v1'[d][x[1]] = x[2] BY <1>13 DEF Session!InMemory
  <2> QED BY <1>4, <1>5, <2>1, <2>2
<1> DEFINE HasThen(held, x) == x[2] \in v8' \/ (held[x[1]] # None /\ held[x[1]].gen = x[2])
<1>14. ASSUME NEW i \in 1..(n + 1)
       PROVE  /\ \A x \in v6 : HasThen(v5'[d][i].held, x)
              /\ \A j \in 1..i, x \in Session!Envelopes : Session!Waits(d, j, x)' => HasThen(v5'[d][i].held, x)
  <2>1. CASE i = n + 1
    <3>1. \A x \in v6 : Session!InMemory(d, x)' BY <1>6, <1>8 DEF DiskKeeps
    <3> QED BY <1>6, <1>12, <1>13, <2>1, <3>1
  <2>2. CASE i \in 1..n
    <3>1. \A j \in 1..i : j # n + 1 BY <1>2, <2>2
    <3>2. v5'[d][i] = v5[d][i] BY <1>2, <2>2
    <3>3. \A x \in v6 : Session!Has(v5[d][i].held, x) BY <1>2, <2>2 DEF WritesKeep
    <3>4. \A j \in 1..i, x \in Session!Envelopes : Session!Waits(d, j, x) => Session!Has(v5[d][i].held, x)
      BY <1>2, <2>2 DEF WritesKeep
    <3>5. \A j \in 1..i, x \in Session!Envelopes : Session!Waits(d, j, x)' => Session!Waits(d, j, x)
      BY <1>3, <3>1
    <3> QED BY <1>7, <3>2, <3>3, <3>4, <3>5
  <2> QED BY <1>2, <2>1, <2>2
<1>15. WritesKeep(d)' BY <1>1, <1>2, <1>12, <1>14 DEF WritesKeep, Session!Has
<1> QED BY <1>10, <1>15

LEMMA LandKeeps ==
  ASSUME Session!Types, Session!Types', NEW d \in Devices, Session!SlotsOK(d), 1 \in DOMAIN v5[d],
         Session!Land(d, 1), v3'[d] = [by |-> d, held |-> v5[d][1].held],
         DiskKeeps(d), WritesKeep(d)
  PROVE  DiskKeeps(d)' /\ WritesKeep(d)'
<1> DEFINE n == Len(v5[d])
<1>1. /\ n \in Nat /\ DOMAIN v5[d] = 1..n /\ DOMAIN v5'[d] = 1..(n - 1)
      /\ \A i \in 1..(n - 1) : v5'[d][i] = v5[d][From(1, i)]
  BY LandIs
<1>2. \A i \in 1..(n - 1) : From(1, i) = i + 1 /\ i + 1 \in 1..n BY <1>1 DEF From
<1>3. \A i \in 1..(n - 1) : v5'[d][i] = v5[d][i + 1] BY <1>1, <1>2
<1>4. \A i, x : Session!Waits(d, i, x)' => Session!Waits(d, From(1, i), x) BY LandIs
<1>5. \A i, x : Session!Waits(d, i, x)' => i \in 1..(n - 1) BY <1>1 DEF Session!Waits
<1>6. \A i, x : Session!Waits(d, i, x)' => Session!Waits(d, i + 1, x) BY <1>2, <1>4, <1>5
<1>7. v1' = v1 /\ v8' = v8 BY LandIs
<1>8. \A x \in v6' : x \in v6 \/ Session!Waits(d, 1, x) BY LandIs
<1>9. v6' \subseteq Session!Envelopes BY DEF Session!Types
<1> HIDE DEF n
<1>10. \A i \in 1..n : /\ \A x \in v6 : Session!Has(v5[d][i].held, x)
                       /\ \A x \in Session!Envelopes : Session!Waits(d, i, x) => Session!InMemory(d, x)
                       /\ \A j \in 1..i, x \in Session!Envelopes :
                             Session!Waits(d, j, x) => Session!Has(v5[d][i].held, x)
  BY <1>1 DEF WritesKeep
<1>11. 1 \in 1..n /\ \A i \in 1..n : 1 \in 1..i BY <1>1
<1>12. \A i \in 1..n, x \in v6' : Session!Has(v5[d][i].held, x) BY <1>8, <1>9, <1>10, <1>11
<1>13. \A x \in v6' : Session!InMemory(d, x) BY <1>8, <1>9, <1>10, <1>11 DEF DiskKeeps
<1>14. DiskKeeps(d)'
  <2>1. v3'[d].by = d /\ v3'[d].held = v5[d][1].held OBVIOUS
  <2> QED BY <1>7, <1>11, <1>12, <1>13, <2>1 DEF DiskKeeps, Session!InMemory, Session!Has
<1>15. ASSUME NEW i \in 1..(n - 1)
       PROVE  /\ \A x \in v6' : Session!Has(v5'[d][i].held, x)
              /\ \A x \in Session!Envelopes : Session!Waits(d, i, x)' => Session!InMemory(d, x)
              /\ \A j \in 1..i, x \in Session!Envelopes :
                             Session!Waits(d, j, x)' => Session!Has(v5'[d][i].held, x)
  <2>1. i + 1 \in 1..n /\ v5'[d][i] = v5[d][i + 1] BY <1>2, <1>3
  <2>2. ASSUME NEW j \in 1..i, NEW x \in Session!Envelopes, Session!Waits(d, j, x)'
        PROVE  Session!Has(v5'[d][i].held, x)
    <3>1. j + 1 \in 1..(i + 1) BY <1>1
    <3> QED BY <1>6, <1>10, <2>1, <2>2, <3>1
  <2> QED BY <1>6, <1>10, <1>12, <2>1, <2>2
<1>16. WritesKeep(d)' BY <1>1, <1>7, <1>15 DEF WritesKeep, Session!Has, Session!InMemory
<1> QED BY <1>14, <1>16

LEMMA OpenKeeps ==
  ASSUME Session!Types, Session!Types', NEW d \in Devices, NEW record \in Session!Record,
         Session!Opened(d, record), v3'[d] = record, v4'[d] = Idles, v5'[d] = <<>>, v6' = v6, v8' = v8,
         record.by = d, \A x \in v6 : Session!Has(record.held, x)
  PROVE  Session!KeepsAt(d)'
<1>1. DOMAIN v5'[d] = {} OBVIOUS
<1>2. \A s \in Calls : v4'[d][s].at = "none" BY DEF Idles, Session!Idle
<1>3. \A c \in Chats : v1'[d][c] = IF record.by = d /\ record.held[c] # None
                                         THEN record.held[c].gen ELSE None
  BY OpenedIs
<1>4. v6 \subseteq Session!Envelopes BY DEF Session!Types
<1>5. \A x \in v6 : x[1] \in Chats BY <1>4, EnvelopeFields
<1>6. \A x \in v6 : Session!InMemory(d, x)' BY <1>3, <1>5 DEF Session!Has, Session!InMemory
<1>7. DiskKeeps(d)' BY <1>6 DEF DiskKeeps, Session!Has
<1>8. WritesKeep(d)' BY <1>1 DEF WritesKeep
<1>9. \A s \in Calls : UseKeeps(d, s)' BY <1>2 DEF UseKeeps
<1> QED BY <1>7, <1>8, <1>9, KeepsAtThen

(* A session that is made where none was: no good one is lost, and no call  *)
(* but the one that made it, if any, was to use one of that chat.           *)
LEMMA NothingLost ==
  ASSUME Session!Types, NEW d \in Devices, DiskKeeps(d), NEW c \in Chats, v1[d][c] = None
  PROVE  ~Session!IsGood(c)
<1>1. \A x \in v6 : x[1] = c => x[2] \in v8
  <2>1. ASSUME NEW x \in v6, x[1] = c PROVE x[2] \in v8
    <3>1. x \in Session!Envelopes BY DEF Session!Types
    <3>2. x[2] # None BY <3>1, EnvelopeFields, NoneApart
    <3> QED BY <2>1, <3>2 DEF DiskKeeps, Session!InMemory
  <2> QED BY <2>1
<1> QED BY <1>1 DEF Session!IsGood

LEMMA BundleUse ==
  ASSUME Session!Types, NEW d \in Devices, NEW s \in Calls, v4[d][s].at = "bundle"
  PROVE  v4[d][s].chat \in Chats /\ v4[d][s] = [at |-> "bundle", chat |-> v4[d][s].chat]
<1>1. v4[d][s] \in Session!Use BY DEF Session!Types
<1> QED BY <1>1, UseFields

LEMMA MadeUse ==
  ASSUME Session!Types, NEW d \in Devices, NEW s \in Calls, v4[d][s].at \in {"made", "step"}
  PROVE  v4[d][s].chat \in Chats /\ v4[d][s].gen \in Session!Gens /\ v4[d][s].gen # None
<1>1. v4[d][s] \in Session!Use BY DEF Session!Types
<1> QED BY <1>1, UseFields, NoneApart

(* What an act of a device that has the account leaves true of it.          *)
ActKeeps(d) == Session!KeepsAt(d)' /\ (~v12 => ~v12')

LEMMA BundledKeeps ==
  ASSUME Session!Types, Session!Types', NEW d \in Devices, Session!KeepsAt(d),
         NEW s \in Calls, Session!Bundled(d, s)
  PROVE  ActKeeps(d)
<1> DEFINE c == v4[d][s].chat
<1>1. /\ v4[d][s].at = "bundle" /\ v1' = [v1 EXCEPT ![d][c] = v7 + 1] /\ v8' = v8
      /\ v12' = (v12 \/ Session!IsGood(c))
      /\ v4' = [v4 EXCEPT ![d][s] = [at |-> "made", chat |-> c, gen |-> v7 + 1]]
  BY DEF Session!Bundled, Session!Made, Session!Types
<1>2. c \in Chats /\ v4[d][s] = [at |-> "bundle", chat |-> c] BY <1>1, BundleUse
<1>3. DiskKeeps(d) /\ WritesKeep(d) /\ \A r \in Calls : UseKeeps(d, r) BY KeepsAtIs
<1>4. v1[d][c] = None /\ \A r \in Calls : v4[d][r] = v4[d][s] => r = s
  BY <1>1, <1>3 DEF UseKeeps
<1>5. v1'[d][c] = v7 + 1 /\ \A b \in Chats : b # c => v1'[d][b] = v1[d][b]
  BY <1>1, <1>2 DEF Session!Types
<1>6. v4'[d][s] = [at |-> "made", chat |-> c, gen |-> v7 + 1]
      /\ \A r \in Calls : r # s => v4'[d][r] = v4[d][r]
  BY <1>1 DEF Session!Types
<1> HIDE DEF c
<1>7. MemoryMoves(d) BY <1>1, <1>4, <1>5 DEF MemoryMoves
<1>8. DiskKeeps(d)' /\ WritesKeep(d)'
  <2>1. AddsOne(d, None) BY BundledAdds
  <2> QED BY <1>3, <1>7, <2>1, AddKeeps
<1>9. ASSUME NEW r \in Calls PROVE UseKeeps(d, r)'
  <2>1. CASE r = s BY <1>5, <1>6, <2>1 DEF UseKeeps
  <2>2. CASE r # s
    <3>1. v4'[d][r] = v4[d][r] BY <1>6, <2>2
    <3>2. CASE v4[d][r].at \in {"made", "step"}
      <4>1. v4[d][r].gen \in v8 \/ v1[d][v4[d][r].chat] = v4[d][r].gen BY <1>3, <3>2 DEF UseKeeps
      <4>2. v4[d][r].chat \in Chats /\ v4[d][r].gen # None BY <3>2, MadeUse
      <4>3. v4[d][r].gen \in v8 \/ v1'[d][v4[d][r].chat] = v4[d][r].gen
        BY <1>4, <1>5, <4>1, <4>2
      <4> QED BY <1>1, <3>1, <3>2, <4>3 DEF UseKeeps
    <3>3. CASE v4[d][r].at = "bundle"
      <4>1. v4[d][r].chat \in Chats /\ v4[d][r] = [at |-> "bundle", chat |-> v4[d][r].chat]
        BY <3>3, BundleUse
      <4>2. v4[d][r].chat # c BY <1>2, <1>4, <2>2, <4>1
      <4>3. v1'[d][v4[d][r].chat] = None BY <1>3, <1>5, <3>3, <4>1, <4>2 DEF UseKeeps
      <4>4. ASSUME NEW q \in Calls, v4'[d][q] = v4'[d][r] PROVE q = r
        <5>1. q # s BY <1>6, <3>1, <3>3, <4>4
        <5>2. v4[d][q] = v4[d][r] BY <1>6, <3>1, <4>4, <5>1
        <5> QED BY <1>3, <3>3, <5>2 DEF UseKeeps
      <4> QED BY <3>1, <3>3, <4>3, <4>4 DEF UseKeeps
    <3>4. CASE v4[d][r].at \notin {"made", "step", "bundle"} BY <3>1, <3>4 DEF UseKeeps
    <3> QED BY <3>2, <3>3, <3>4
  <2> QED BY <2>1, <2>2
<1>10. ~Session!IsGood(c) BY <1>2, <1>3, <1>4, NothingLost
<1> QED BY <1>1, <1>8, <1>9, <1>10, KeepsAtThen DEF ActKeeps

LEMMA TakesKeep ==
  ASSUME Session!Types, Session!Types', NEW d \in Devices, Session!KeepsAt(d),
         NEW s \in Calls, Session!Step(d, s)
  PROVE  ActKeeps(d)
<1> DEFINE o == v4[d][s]
           out == <<o.chat, o.gen, v2[d][o.gen] + 1>>
<1>1. /\ o.at = "step" /\ v1' = v1 /\ v8' = v8 /\ v12' = v12
      /\ v4' = [v4 EXCEPT ![d][s] = [at |-> "save"]]
  BY DEF Session!Step
<1>2. AddsOne(d, out) BY StepAdds
<1>3. DiskKeeps(d) /\ WritesKeep(d) /\ \A r \in Calls : UseKeeps(d, r) BY KeepsAtIs
<1>4. Session!InMemory(d, out) BY <1>1, <1>3 DEF UseKeeps, Session!InMemory
<1>5. MemoryMoves(d) BY <1>1 DEF MemoryMoves
<1>6. DiskKeeps(d)' /\ WritesKeep(d)' BY <1>2, <1>3, <1>4, <1>5, AddKeeps
<1>7. v4'[d][s].at = "save" /\ \A r \in Calls : r # s => v4'[d][r] = v4[d][r]
  BY <1>1 DEF Session!Types
<1>8. ASSUME NEW r \in Calls PROVE UseKeeps(d, r)'
  <2>1. CASE r = s BY <1>7, <2>1 DEF UseKeeps
  <2>2. CASE r # s
    <3>1. v4'[d][r] = v4[d][r] BY <1>7, <2>2
    <3>2. v4[d][r].at = "bundle" => \A q \in Calls : v4'[d][q] = v4'[d][r] => v4[d][q] = v4[d][r]
      BY <1>7, <3>1
    <3> QED BY <1>1, <1>3, <3>1, <3>2 DEF UseKeeps
  <2> QED BY <2>1, <2>2
<1> QED BY <1>1, <1>6, <1>8, KeepsAtThen DEF ActKeeps

LEMMA StartKeeps ==
  ASSUME Session!Types, Session!Types', NEW d \in Devices, Session!KeepsAt(d),
         NEW s \in Calls, NEW c \in Chats, Session!SendStart(d, s, c), v13' = {}
  PROVE  ActKeeps(d)
<1>1. /\ UNCHANGED <<v1, v3, v5, v6, v8, v12>> /\ v4[d][s] = Session!Idle
      /\ v4' = [v4 EXCEPT ![d][s] = IF v1[d][c] = None THEN [at |-> "bundle", chat |-> c]
                                    ELSE [at |-> "step", chat |-> c, gen |-> v1[d][c]]]
  BY DEF Session!SendStart
<1>2. v1[d][c] = None => \A r \in Calls : v4[d][r] # [at |-> "bundle", chat |-> c]
  BY DEF Session!SendStart
<1>3. DiskKeeps(d) /\ WritesKeep(d) /\ \A r \in Calls : UseKeeps(d, r) BY KeepsAtIs
<1>4. DiskKeeps(d)' BY <1>1, <1>3 DEF DiskKeeps, Session!InMemory, Session!Has
<1>5. WritesKeep(d)' BY <1>1, <1>3 DEF WritesKeep, Session!InMemory, Session!Has, Session!Waits
<1>6. \A r \in Calls : r # s => v4'[d][r] = v4[d][r] BY <1>1 DEF Session!Types
<1>7. CASE v1[d][c] = None
  <2>1. v4'[d][s] = [at |-> "bundle", chat |-> c] BY <1>1, <1>7 DEF Session!Types
  <2>2. UseKeeps(d, s)' BY <1>1, <1>2, <1>6, <1>7, <2>1 DEF UseKeeps
  <2>3. ASSUME NEW r \in Calls, r # s PROVE UseKeeps(d, r)'
    <3>1. v4'[d][r] = v4[d][r] BY <1>6, <2>3
    <3>2. \A q \in Calls : v4'[d][q] = v4'[d][r] => q # s /\ v4[d][q] = v4[d][r]
      BY <1>2, <1>6, <1>7, <2>1, <3>1
    <3> QED BY <1>1, <1>3, <3>1, <3>2 DEF UseKeeps
  <2> QED BY <1>1, <1>4, <1>5, <2>2, <2>3, KeepsAtThen DEF ActKeeps
<1>8. CASE v1[d][c] # None
  <2>1. v4'[d][s] = [at |-> "step", chat |-> c, gen |-> v1[d][c]] BY <1>1, <1>8 DEF Session!Types
  <2>2. UseKeeps(d, s)' BY <1>1, <2>1 DEF UseKeeps
  <2>3. ASSUME NEW r \in Calls, r # s PROVE UseKeeps(d, r)'
    <3>1. v4'[d][r] = v4[d][r] BY <1>6, <2>3
    <3>2. v4[d][r].at = "bundle" => \A q \in Calls : v4'[d][q] = v4'[d][r] => v4[d][q] = v4[d][r]
      BY <1>6, <2>1, <3>1
    <3> QED BY <1>1, <1>3, <3>1, <3>2 DEF UseKeeps
  <2> QED BY <1>1, <1>4, <1>5, <2>2, <2>3, KeepsAtThen DEF ActKeeps
<1> QED BY <1>7, <1>8

LEMMA ReadKeeps ==
  ASSUME Session!Types, Session!Types', NEW d \in Devices, Session!KeepsAt(d),
         NEW c \in Chats, Session!Receive(d, c) \/ Session!KeyChanged(d, c), v13' = {}
  PROVE  ActKeeps(d)
<1>1. v4' = v4 /\ AddsOne(d, None)
  BY AnswerAdds DEF Session!Receive, Session!KeyChanged
<1>2. DiskKeeps(d) /\ WritesKeep(d) /\ \A r \in Calls : UseKeeps(d, r) BY KeepsAtIs
<1>3. \/ v1' = v1 /\ v8' = v8 /\ v12' = v12
      \/ v1[d][c] # None /\ v1' = [v1 EXCEPT ![d][c] = None] /\ v8' = v8 \cup {v1[d][c]} /\ v12' = v12
      \/ /\ v1[d][c] = None /\ v1' = [v1 EXCEPT ![d][c] = v7 + 1] /\ v8' = v8
         /\ v12' = (v12 \/ Session!IsGood(c))
         /\ \A r \in Calls : v4[d][r] # [at |-> "bundle", chat |-> c]
  <2>1. CASE Session!KeyChanged(d, c) BY <2>1 DEF Session!KeyChanged
  <2>2. CASE Session!Receive(d, c)
    <3>1. \A r \in Calls : v4[d][r] # [at |-> "bundle", chat |-> c] BY <2>2 DEF Session!Receive
    <3> QED BY <2>2, <3>1 DEF Session!Receive, Session!Made
  <2> QED BY <2>1, <2>2
<1>4. ASSUME v8 \subseteq v8', \A b \in Chats : b # c => v1'[d][b] = v1[d][b],
             v1[d][c] = None \/ v1[d][c] \in v8' \/ v1'[d][c] = v1[d][c],
             \A r \in Calls : v4[d][r].at = "bundle" /\ v4[d][r].chat = c => v1'[d][c] = None,
             ~v12 => ~v12'
      PROVE  ActKeeps(d)
  <2>1. MemoryMoves(d) BY <1>4 DEF MemoryMoves
  <2>2. DiskKeeps(d)' /\ WritesKeep(d)' BY <1>1, <1>2, <2>1, AddKeeps
  <2>3. ASSUME NEW r \in Calls PROVE UseKeeps(d, r)'
    <3>1. CASE v4[d][r].at \in {"made", "step"}
      <4>1. v4[d][r].gen \in v8 \/ v1[d][v4[d][r].chat] = v4[d][r].gen BY <1>2, <3>1 DEF UseKeeps
      <4>2. v4[d][r].chat \in Chats /\ v4[d][r].gen # None BY <3>1, MadeUse
      <4>3. v4[d][r].gen \in v8' \/ v1'[d][v4[d][r].chat] = v4[d][r].gen
        BY <1>4, <4>1, <4>2
      <4> QED BY <1>1, <3>1, <4>3 DEF UseKeeps
    <3>2. CASE v4[d][r].at = "bundle"
      <4>1. v4[d][r].chat \in Chats BY <3>2, BundleUse
      <4>2. v1'[d][v4[d][r].chat] = None BY <1>2, <1>4, <3>2, <4>1 DEF UseKeeps
      <4> QED BY <1>1, <1>2, <3>2, <4>2 DEF UseKeeps
    <3>3. CASE v4[d][r].at \notin {"made", "step", "bundle"} BY <1>1, <3>3 DEF UseKeeps
    <3> QED BY <3>1, <3>2, <3>3
  <2> QED BY <1>4, <2>2, <2>3, KeepsAtThen DEF ActKeeps
<1>5. CASE v1' = v1 /\ v8' = v8 /\ v12' = v12
  <2>1. \A r \in Calls : v4[d][r].at = "bundle" /\ v4[d][r].chat = c => v1'[d][c] = None
    BY <1>2, <1>5 DEF UseKeeps
  <2> QED BY <1>4, <1>5, <2>1
<1>6. CASE v1[d][c] # None /\ v1' = [v1 EXCEPT ![d][c] = None] /\ v8' = v8 \cup {v1[d][c]} /\ v12' = v12
  <2>1. v1'[d][c] = None /\ \A b \in Chats : b # c => v1'[d][b] = v1[d][b] BY <1>6 DEF Session!Types
  <2> QED BY <1>4, <1>6, <2>1
<1>7. CASE /\ v1[d][c] = None /\ v1' = [v1 EXCEPT ![d][c] = v7 + 1] /\ v8' = v8
           /\ v12' = (v12 \/ Session!IsGood(c))
           /\ \A r \in Calls : v4[d][r] # [at |-> "bundle", chat |-> c]
  <2>1. \A b \in Chats : b # c => v1'[d][b] = v1[d][b] BY <1>7 DEF Session!Types
  <2>2. ~Session!IsGood(c) BY <1>2, <1>7, NothingLost
  <2>3. \A r \in Calls : ~(v4[d][r].at = "bundle" /\ v4[d][r].chat = c) BY <1>7, BundleUse
  <2> QED BY <1>4, <1>7, <2>1, <2>2, <2>3
<1> QED BY <1>3, <1>5, <1>6, <1>7

(* The first write ends: what it was to add is in its record.               *)
LEMMA FirstLandKeeps ==
  ASSUME Session!Types, Session!Types', NEW d \in Devices, Session!SlotsOK(d), Session!KeepsAt(d),
         1 \in DOMAIN v5[d], Session!Land(d, 1), v3'[d] = [by |-> d, held |-> v5[d][1].held]
  PROVE  Session!KeepsAt(d)'
<1> DEFINE save == v5[d][1]
<1>1. DiskKeeps(d) /\ WritesKeep(d) /\ \A r \in Calls : UseKeeps(d, r) BY KeepsAtIs
<1>2. DiskKeeps(d)' /\ WritesKeep(d)' BY <1>1, LandKeeps
<1>3. v1' = v1 /\ v8' = v8 BY LandIs
<1>4. ASSUME NEW r \in Calls, v4'[d][r] = v4[d][r],
             \A q \in Calls : v4'[d][q].at = "bundle" => v4'[d][q] = v4[d][q]
      PROVE  UseKeeps(d, r)'
  <2>1. v4[d][r].at = "bundle" => \A q \in Calls : v4'[d][q] = v4'[d][r] => v4[d][q] = v4[d][r]
    BY <1>4
  <2> QED BY <1>1, <1>3, <1>4, <2>1 DEF UseKeeps
<1>5. CASE save.slot = None
  <2>1. v4' = v4 BY <1>5 DEF Session!Land
  <2> QED BY <1>2, <1>4, <2>1, KeepsAtThen
<1>6. CASE save.slot # None
  <2>1. PICK s \in Calls : save.slot = s
    <3>1. v5[d] \in Seq(Session!Save) BY DEF Session!Types
    <3>2. save \in Session!Save BY <3>1
    <3> QED BY <1>6, <3>2 DEF Session!Save
  <2>2. v4' = [v4 EXCEPT ![d][s] = IF save.out = None THEN [@ EXCEPT !.at = "step"] ELSE Session!Idle]
    BY <1>6, <2>1 DEF Session!Land
  <2>3. \A r \in Calls : r # s => v4'[d][r] = v4[d][r] BY <2>2 DEF Session!Types
  <2>4. v4'[d][s].at # "bundle" /\ UseKeeps(d, s)'
    <3>1. CASE save.out = None
      <4>1. v4[d][s].at = "made" BY <1>6, <2>1, <3>1 DEF Session!SlotsOK
      <4>2. v4[d][s] \in Session!Use BY <2>1 DEF Session!Types
      <4>3. v4[d][s] = [at |-> "made", chat |-> v4[d][s].chat, gen |-> v4[d][s].gen]
        BY <4>1, <4>2, UseFields
      <4>4. v4'[d][s] = [v4[d][s] EXCEPT !.at = "step"] BY <2>1, <2>2, <3>1 DEF Session!Types
      <4>5. v4'[d][s] = [at |-> "step", chat |-> v4[d][s].chat, gen |-> v4[d][s].gen]
        BY <4>3, <4>4, MadeSteps
      <4> QED BY <1>1, <1>3, <2>1, <4>1, <4>5 DEF UseKeeps
    <3>2. CASE save.out # None
      <4>1. v4'[d][s] = Session!Idle BY <2>1, <2>2, <3>2 DEF Session!Types
      <4> QED BY <4>1 DEF Session!Idle, UseKeeps
    <3> QED BY <3>1, <3>2
  <2>5. \A r \in Calls : UseKeeps(d, r)' BY <1>4, <2>3, <2>4
  <2> QED BY <1>2, <2>5, KeepsAtThen
<1> QED BY <1>5, <1>6

KeptBundle == v10 # None => \A x \in v6 : Session!Has(v10.held, x)

LEMMA KeepsAre ==
  Session!Keeps <=> (\A d \in v9 : Session!KeepsAt(d)) /\ KeptBundle /\ ~v12
BY DEF Session!Keeps, KeptBundle

LEMMA KeepsKept ==
  ASSUME Session!Types, Session!Types', \A d \in Devices : Session!SlotsOK(d),
         Session!OneHome, Session!OneHome', Session!Keeps,
         Session!Next \/ UNCHANGED slots, v13' = {}
  PROVE  Session!Keeps'
<1> SUFFICES (\A d \in v9' : Session!KeepsAt(d)') /\ KeptBundle' /\ ~v12'
  BY DEF Session!Keeps, KeptBundle
<1>0. (\A d \in v9 : Session!KeepsAt(d)) /\ KeptBundle /\ ~v12
  BY KeepsAre
<1>1. CASE UNCHANGED slots
  BY <1>0, <1>1 DEF slots, KeptBundle, Session!KeepsAt, Session!InMemory, Session!Has, Session!Waits
<1>2. CASE Session!Next
  <2>1. PICK d \in Devices : Acts(d) BY <1>2, NextActs
  <2>2. /\ \A e, f \in v9 : e = f
        /\ v10 # None => v9 = {}
        /\ \A e, f \in v9' : e = f
        /\ v10' # None => v9' = {}
    BY DEF Session!OneHome
  <2>3. ASSUME d \in v9', Session!KeepsAt(d)', ~v12'
        PROVE  (\A e \in v9' : Session!KeepsAt(e)') /\ KeptBundle' /\ ~v12'
    <3>1. \A e \in v9' : e = d BY <2>2, <2>3
    <3>2. KeptBundle' BY <2>2, <2>3 DEF KeptBundle
    <3> QED BY <2>3, <3>1, <3>2
  <2>4. CASE Session!Import(d)
    <3>1. /\ v10 # None /\ v10' = None /\ v9' = v9 \cup {d} /\ Session!Opened(d, v10)
          /\ v3'[d] = v10 /\ v4'[d] = Idles /\ v5'[d] = <<>> /\ v6' = v6 /\ v12' = v12 /\ v8' = v8
      BY <2>4 DEF Session!Import, Session!Decrypted, Session!Types, Idles
    <3>2. v10 \in Session!Record BY <3>1 DEF Session!Types
    <3>3. v10.by = d BY <2>4 DEF Session!Import
    <3>4. Session!KeepsAt(d)' BY <1>0, <3>1, <3>2, <3>3, OpenKeeps DEF KeptBundle
    <3> QED BY <1>0, <2>3, <3>1, <3>4
  <2>5. CASE Session!Reload(d) /\ d \in v9
    <3>1. /\ v10' = v10 /\ v9' = v9 /\ Session!Opened(d, v3[d])
          /\ v3' = v3 /\ v4'[d] = Idles /\ v5'[d] = <<>> /\ v6' = v6 /\ v12' = v12 /\ v8' = v8
      BY <2>5 DEF Session!Reload, Session!Types, Idles
    <3>2. v3[d] \in Session!Record /\ v3'[d] = v3[d] BY <3>1 DEF Session!Types
    <3>3. v3[d].by = d /\ \A x \in v6 : Session!Has(v3[d].held, x) BY <1>0, <2>5 DEF Session!KeepsAt
    <3>4. Session!KeepsAt(d)' BY <3>1, <3>2, <3>3, OpenKeeps
    <3> QED BY <1>0, <2>3, <2>5, <3>1, <3>4
  <2>6. CASE d \notin v9 /\ ~Session!Import(d)
    <3>1. Session!Reload(d) BY <2>1, <2>6, AwayActs
    <3>2. UNCHANGED <<v6, v8, v9, v10, v12>> BY <3>1 DEF Session!Reload
    <3>3. ASSUME NEW e \in v9 PROVE Session!KeepsAt(e)'
      <4>1. e \in Devices /\ e # d BY <2>6 DEF Session!Types
      <4>2. Alone(e) BY <2>1, <4>1, OthersRest
      <4>3. Session!KeepsAt(e) BY <1>0
      <4>4. v1'[e] = v1[e] /\ v3'[e] = v3[e] /\ v4'[e] = v4[e] /\ v5'[e] = v5[e] BY <4>2 DEF Alone
      <4>5. DiskKeeps(e) /\ WritesKeep(e) /\ \A s \in Calls : UseKeeps(e, s) BY <4>1, <4>3, KeepsAtIs
      <4>6. DiskKeeps(e)' BY <3>2, <4>4, <4>5 DEF DiskKeeps, Session!InMemory, Session!Has
      <4>7. WritesKeep(e)' BY <3>2, <4>4, <4>5 DEF WritesKeep, Session!InMemory, Session!Has, Session!Waits
      <4>8. \A s \in Calls : UseKeeps(e, s)' BY <3>2, <4>4, <4>5 DEF UseKeeps
      <4> QED BY <4>1, <4>6, <4>7, <4>8, KeepsAtThen
    <3>4. KeptBundle' BY <1>0, <3>2 DEF KeptBundle, Session!Has
    <3> QED BY <1>0, <3>2, <3>3, <3>4
  <2>7. ASSUME d \in v9, ActKeeps(d), v9' = v9
        PROVE  (\A e \in v9' : Session!KeepsAt(e)') /\ KeptBundle' /\ ~v12'
    BY <1>0, <2>3, <2>7 DEF ActKeeps
  <2>8. ASSUME d \in v9, NEW s \in Calls, Session!Bundled(d, s) \/ Session!Step(d, s)
        PROVE  (\A e \in v9' : Session!KeepsAt(e)') /\ KeptBundle' /\ ~v12'
    <3>1. v9' = v9 BY <2>8 DEF Session!Bundled, Session!Step
    <3>2. ActKeeps(d) BY <1>0, <2>8, BundledKeeps, TakesKeep
    <3> QED BY <2>7, <2>8, <3>1, <3>2
  <2>9. ASSUME d \in v9, NEW s \in Calls, NEW c \in Chats, Session!SendStart(d, s, c)
        PROVE  (\A e \in v9' : Session!KeepsAt(e)') /\ KeptBundle' /\ ~v12'
    <3>1. v9' = v9 BY <2>9 DEF Session!SendStart
    <3>2. ActKeeps(d) BY <1>0, <2>9, StartKeeps
    <3> QED BY <2>7, <2>9, <3>1, <3>2
  <2>10. ASSUME d \in v9, NEW c \in Chats, Session!Receive(d, c) \/ Session!KeyChanged(d, c)
         PROVE  (\A e \in v9' : Session!KeepsAt(e)') /\ KeptBundle' /\ ~v12'
    <3>1. v9' = v9 BY <2>10 DEF Session!Receive, Session!KeyChanged
    <3>2. ActKeeps(d) BY <1>0, <2>10, ReadKeeps
    <3> QED BY <2>7, <2>10, <3>1, <3>2
  <2>11. ASSUME d \in v9, NEW k \in DOMAIN v5[d], Session!Land(d, k)
         PROVE  (\A e \in v9' : Session!KeepsAt(e)') /\ KeptBundle' /\ ~v12'
    <3>1. v3' = [v3 EXCEPT ![d] = [by |-> d, held |-> v5[d][k].held]] /\ ~(k > 1)
      BY <2>11 DEF Session!Land
    <3>2. v9' = v9 /\ v12' = v12 BY <2>11 DEF Session!Land
    <3>3. k = 1
      <4>1. v5[d] \in Seq(Session!Save) BY DEF Session!Types
      <4>2. k \in 1..Len(v5[d]) /\ Len(v5[d]) \in Nat BY <4>1
      <4> QED BY <3>1, <4>2
    <3>4. v3'[d] = [by |-> d, held |-> v5[d][1].held] BY <3>1, <3>3 DEF Session!Types
    <3>5. Session!KeepsAt(d)' BY <1>0, <2>11, <3>3, <3>4, FirstLandKeeps
    <3> QED BY <1>0, <2>3, <2>11, <3>2, <3>5
  <2>12. CASE d \in v9 /\ (Session!Cleared(d) \/ Session!ExportCopy(d))
    BY <2>12 DEF Session!Cleared, Session!ExportCopy
  <2>13. CASE d \in v9 /\ Session!ExportFile(d)
    <3>1. v9' = v9 \ {d} /\ v10' = v3[d] /\ v6' = v6 /\ v8' = v8 /\ v12' = v12
      BY <2>13 DEF Session!ExportFile, Session!Exported, Session!Wiped
    <3>2. v9' = {} BY <2>2, <2>13, <3>1
    <3>3. \A x \in v6 : Session!Has(v3[d].held, x) BY <1>0, <2>13 DEF Session!KeepsAt
    <3>4. KeptBundle' BY <3>1, <3>3 DEF KeptBundle, Session!Has
    <3> QED BY <1>0, <3>1, <3>2, <3>4
  <2> QED BY <2>1, <2>4, <2>5, <2>6, <2>8, <2>9, <2>10, <2>11, <2>12, <2>13 DEF Acts
<1> QED BY <1>1, <1>2

LEMMA SessionsInit == ASSUME Session!Init PROVE Session!SessionsInv
<1>1. /\ v1 = [d \in Devices |-> Session!Empty] /\ v2 = [d \in Devices |-> [g \in 1..MaxGens |-> 0]]
      /\ v3 = [d \in Devices |-> [by |-> d, held |-> Session!Empty]] /\ v4 = [d \in Devices |-> Idles]
      /\ v5 = [d \in Devices |-> <<>>] /\ v6 = {} /\ v7 = 0 /\ v9 = {First} /\ v10 = None
      /\ v11 = FALSE /\ v12 = FALSE /\ v13 = {}
  BY DEF Session!Init, Idles
<1>2. /\ Session!Empty \in [Chats -> Session!Gens \cup {None}] /\ Session!Empty \in Session!Sessions
      /\ Idles \in [Calls -> Session!Use] /\ <<>> \in Seq(Session!Save)
  BY DEF Session!Empty, Session!Sessions, Idles, Session!Idle, Session!Use
<1>3. Session!Types
  <2>1. \A d \in Devices : [by |-> d, held |-> Session!Empty] \in Session!Record BY <1>2 DEF Session!Record
  <2>2. v2 \in [Devices -> [Session!Gens -> Nat]] BY <1>1 DEF Session!Gens
  <2>3. v3 \in [Devices -> Session!Record] BY <1>1, <2>1
  <2>4. v7 \in 0 .. MaxGens BY <1>1, DeviceAssumption
  <2>5. v9 \subseteq Devices BY <1>1, DeviceAssumption
  <2> QED BY <1>1, <1>2, <2>2, <2>3, <2>4, <2>5 DEF Session!Types
<1>4. \A d \in Devices : /\ v1[d] = Session!Empty /\ v3[d].by = d /\ v3[d].held = Session!Empty
                         /\ v4[d] = Idles /\ v5[d] = <<>> /\ DOMAIN v5[d] = {}
  BY <1>1
<1>5. \A d \in Devices : \A s \in Calls : v4[d][s].at = "none"
  <2>1. \A s \in Calls : Idles[s].at = "none" BY DEF Idles, Session!Idle
  <2> QED BY <1>4, <2>1
<1>6. \A d \in Devices : \A g \in Session!Gens : ~Session!Live(d, g)
  <2>1. \A d \in Devices : \A c \in Chats : v1[d][c] = None BY <1>4 DEF Session!Empty
  <2> QED BY <1>5, <2>1, NoneApart DEF Session!Live, Session!Uses
<1>7. Session!HeldKnown(Session!Empty) BY DEF Session!HeldKnown, Session!Empty
<1>8. Known BY <1>1, <1>4, <1>6, <1>7 DEF Known, KnownAt
<1>9. \A d \in Devices : Session!SlotsOK(d) BY <1>4 DEF Session!SlotsOK
<1>10. Session!OneHome
  <2>1. \A d \in Devices : Away(d) BY <1>4 DEF Away
  <2> QED BY <1>1, <2>1, OneHomeIs
<1>11. Session!Bounds
  <2>1. \A d \in Devices : Session!Ahead(d) BY <1>6 DEF Session!Ahead
  <2>2. \A d \in Devices : Session!WritesAhead(d) BY <1>4 DEF Session!WritesAhead
  <2>3. \A d \in Devices : Session!OutOnce(d) BY <1>4 DEF Session!OutOnce
  <2> QED BY <1>1, <2>1, <2>2, <2>3 DEF Session!Bounds
<1>12. Session!Keeps
  <2>1. \A d \in Devices : Session!KeepsAt(d)
    <3>1. \A d \in Devices : DiskKeeps(d) BY <1>1, <1>4 DEF DiskKeeps
    <3>2. \A d \in Devices : WritesKeep(d) BY <1>4 DEF WritesKeep
    <3>3. \A d \in Devices : \A s \in Calls : UseKeeps(d, s) BY <1>5 DEF UseKeeps
    <3> QED BY <3>1, <3>2, <3>3, KeepsAtIs
  <2>2. v9 \subseteq Devices BY <1>1, DeviceAssumption
  <2> QED BY <1>1, <2>1, <2>2 DEF Session!Keeps
<1> QED BY <1>3, <1>8, <1>9, <1>10, <1>11, <1>12, KnownIs DEF Session!SessionsInv

LEMMA SessionsNext ==
  ASSUME Session!SessionsInv, Session!Next \/ UNCHANGED slots PROVE Session!SessionsInv'
<1>1. /\ Session!Types /\ Known /\ \A d \in Devices : Session!SlotsOK(d)
      /\ (Session!Steady => Session!OneHome /\ Session!Bounds)
      /\ (v13 = {} => Session!Keeps)
  BY KnownIs DEF Session!SessionsInv
<1>2. Session!Types' BY <1>1, SessionTypes
<1>3. \A d \in Devices : Session!SlotsOK(d)' BY <1>1, SlotsKept
<1>4. Known' BY <1>1, <1>2, KnownKept
<1>5. Session!GensKnown' /\ Session!RecordsKnown'
  BY <1>4 DEF Session!GensKnown, Session!RecordsKnown, Known, KnownAt
<1>6. ASSUME Session!Steady' PROVE Session!OneHome' /\ Session!Bounds'
  <2>1. Session!Steady BY <1>1, <1>6, SteadyBefore
  <2>2. Session!OneHome /\ Session!Bounds BY <1>1, <2>1
  <2>3. Session!OneHome' BY <1>1, <1>2, <1>6, <2>2, OneHomeKept
  <2> QED BY <1>1, <1>2, <1>6, <2>2, <2>3, BoundsKept
<1>7. ASSUME v13' = {} PROVE Session!Keeps'
  <2>1. Session!Steady' BY <1>7 DEF Session!Steady
  <2>2. v13 = {} BY <1>1, <1>7, OddGrows
  <2>3. Session!Steady BY <2>2 DEF Session!Steady
  <2> QED BY <1>1, <1>2, <1>6, <1>7, <2>1, <2>2, <2>3, KeepsKept
<1> QED BY <1>2, <1>3, <1>5, <1>6, <1>7 DEF Session!SessionsInv

LEMMA SessionsThen == ASSUME Session!SessionsInv PROVE Session!StepOnce /\ Session!SessionKept
BY DEF Session!SessionsInv, Session!Steady, Session!Bounds, Session!Keeps, Session!StepOnce,
       Session!SessionKept

-----------------------------------------------------------------------------
(* Lockout: the window is three times the lock (captcha.py:42-43), so the   *)
(* sum over it, a fold, is unrolled once; the rest is arithmetic.           *)

SumIn(h, s) ==
    (IF 0 \in s THEN h[0] ELSE 0) + (IF 1 \in s THEN h[1] ELSE 0) + (IF 2 \in s THEN h[2] ELSE 0)

Unrolls(h, f) ==
    f = [s \in SUBSET (0..2) |-> IF s = {} THEN 0
            ELSE h[CHOOSE x \in s : TRUE] + f[s \ {CHOOSE x \in s : TRUE}]]

(* There is a function as the fold asks for: the sum itself.                *)
LEMMA SumUnrolls ==
  ASSUME NEW h \in [0..2 -> Nat] PROVE \E f : Unrolls(h, f)
<1> DEFINE g == [s \in SUBSET (0..2) |-> SumIn(h, s)]
<1>1. ASSUME NEW s \in SUBSET (0..2)
      PROVE  g[s] = IF s = {} THEN 0 ELSE h[CHOOSE x \in s : TRUE] + g[s \ {CHOOSE x \in s : TRUE}]
  <2>1. CASE s = {}
    BY <2>1 DEF SumIn
  <2>2. CASE s # {}
    <3> DEFINE x == CHOOSE x \in s : TRUE
    <3>1. x \in s
      BY <2>2
    <3> HIDE DEF x
    <3>2. x = 0 \/ x = 1 \/ x = 2
      BY <3>1
    <3>3. SumIn(h, s) = h[x] + SumIn(h, s \ {x})
      BY <3>1, <3>2 DEF SumIn
    <3> QED BY <2>2, <3>3 DEF x
  <2> QED BY <2>1, <2>2
<1> HIDE DEF g
<1>2. g = [s \in SUBSET (0..2) |-> g[s]]
  BY DEF g
<1>3. Unrolls(h, g)
  BY <1>1, <1>2 DEF Unrolls
<1> QED BY <1>3

(* The total of a window.                                                   *)
LEMMA TotalIsSum ==
  ASSUME NEW h \in [0..2 -> Nat] PROVE Lock!Total(h) = h[0] + h[1] + h[2]
<1> DEFINE A == 0..2
<1>1. \E f : Unrolls(h, f)
  BY SumUnrolls
<1>2. PICK f : Unrolls(h, f) /\ Lock!Total(h) = f[A]
  <2>1. Lock!Ages = 0..2
    BY DEF Lock!Ages
  <2> QED BY <1>1, <2>1, Zenon DEF Lock!Total, Lock!MapThenSumSet, Lock!MapThenFoldSet, Unrolls
<1>3. \A s \in SUBSET A : f[s] = IF s = {} THEN 0
         ELSE h[CHOOSE x \in s : TRUE] + f[s \ {CHOOSE x \in s : TRUE}]
  BY <1>2, Zenon DEF Unrolls
<1>4. f[{}] = 0
  BY <1>3
<1>5. ASSUME NEW s \in SUBSET A, s # {}
      PROVE  \E x \in s : f[s] = h[x] + f[s \ {x}]
  BY <1>3, <1>5
<1>6. \A a \in A : f[{a}] = h[a]
  <2> TAKE a \in A
  <2>1. f[{a}] = h[a] + f[{a} \ {a}]
    BY <1>5
  <2>2. {a} \ {a} = {}
    OBVIOUS
  <2> QED BY <1>4, <2>1, <2>2
<1>7. \A a, b \in A : a # b => f[{a, b}] = h[a] + h[b]
  <2> TAKE a \in A, b \in A
  <2> HAVE a # b
  <2>1. PICK x \in {a, b} : f[{a, b}] = h[x] + f[{a, b} \ {x}]
    BY <1>5
  <2>2. CASE x = a
    <3>1. {a, b} \ {x} = {b}
      BY <2>2
    <3> QED BY <1>6, <2>1, <2>2, <3>1
  <2>3. CASE x = b
    <3>1. {a, b} \ {x} = {a}
      BY <2>3
    <3>2. f[{a, b}] = h[b] + h[a]
      BY <1>6, <2>1, <2>3, <3>1
    <3>3. h[a] \in Nat /\ h[b] \in Nat
      OBVIOUS
    <3> QED BY <3>2, <3>3
  <2> QED BY <2>2, <2>3
<1>8. PICK x \in A : f[A] = h[x] + f[A \ {x}]
  BY <1>5
<1>9. h[0] \in Nat /\ h[1] \in Nat /\ h[2] \in Nat /\ 0 \in A /\ 1 \in A /\ 2 \in A
  OBVIOUS
<1> HIDE DEF A
<1>10. CASE x = 0
  <2>1. A \ {x} = {1, 2}
    BY <1>10 DEF A
  <2> QED BY <1>2, <1>7, <1>8, <1>9, <1>10, <2>1
<1>11. CASE x = 1
  <2>1. A \ {x} = {0, 2}
    BY <1>11 DEF A
  <2> QED BY <1>2, <1>7, <1>8, <1>9, <1>11, <2>1
<1>12. CASE x = 2
  <2>1. A \ {x} = {0, 1}
    BY <1>12 DEF A
  <2> QED BY <1>2, <1>7, <1>8, <1>9, <1>12, <2>1
<1> QED BY <1>10, <1>11, <1>12 DEF A

LockTypes ==
    /\ v1 \in {"login", "register"}
    /\ v2 \in [{"redis", "memory"} -> [0..2 -> Nat]]
    /\ v3 \subseteq Clients /\ (v1 = "login" => v3 = {})
    /\ v4 \in [0..2 -> Nat] /\ v5 \in Nat

(* How the guesses of a window came about. Of those of age a, at most p[a]  *)
(* were let in by the count in Redis and are in it, and q[a] cost a call of *)
(* Redis; of the registrations that wait, m and n. For c units one round    *)
(* was let in at a time, when a lock had run out; those before were let in  *)
(* below the threshold.                                                     *)
Rounds(p0, p1, p2, m) ==
    LET older == Threshold - 1 + Lock!AtOnce
    IN  \/ p0 + p1 + p2 + m <= older
        \/ p0 + m <= Lock!AtOnce /\ p1 + p2 <= older
        \/ p0 + m <= Lock!AtOnce /\ p1 <= Lock!AtOnce /\ p2 <= older
Paid(p0, p1, p2, q0, q1, q2, m, n) ==
    /\ v4[0] <= p0 + q0 /\ v4[1] <= p1 + q1 /\ v4[2] <= p2 + q2
    /\ p0 <= v2["redis"][0] /\ p1 <= v2["redis"][1] /\ p2 <= v2["redis"][2]
    /\ Cardinality(v3) = m + n /\ q0 + q1 + q2 + n <= v5
    /\ Rounds(p0, p1, p2, m)

LockInv ==
    /\ LockTypes
    /\ \E p0, p1, p2, q0, q1, q2, m, n \in Nat : Paid(p0, p1, p2, q0, q1, q2, m, n)

LEMMA LockWaiting ==
  ASSUME LockTypes
  PROVE  /\ IsFiniteSet(v3) /\ Cardinality(v3) \in Nat
         /\ Lock!AtOnce \in Nat \ {0}
         /\ Cardinality(v3) <= Lock!AtOnce
<1>1. IsFiniteSet(Clients) /\ Clients # {}
  BY DeviceAssumption
<1>2. IsFiniteSet(v3) /\ Cardinality(v3) <= Cardinality(Clients)
  BY <1>1, FS_Subset DEF LockTypes
<1>3. Cardinality(v3) \in Nat /\ Cardinality(Clients) \in Nat /\ Cardinality(Clients) # 0
  BY <1>1, <1>2, FS_CardinalityType, FS_EmptySet
<1>4. CASE v1 = "login"
  <2>1. v3 = {} /\ Cardinality(v3) = 0
    BY <1>4, FS_EmptySet DEF LockTypes
  <2> QED BY <1>2, <1>4, <2>1 DEF Lock!AtOnce
<1>5. CASE v1 # "login"
  <2>1. Lock!AtOnce = Cardinality(Clients)
    BY <1>5, Zenon DEF Lock!AtOnce, Lock!Cardinality, Cardinality
  <2> QED BY <1>2, <1>3, <2>1
<1> QED BY <1>4, <1>5

(* The same of the next state.                                              *)
LEMMA LockFits ==
  ASSUME LockTypes'
  PROVE  Cardinality(v3') \in Nat /\ Cardinality(v3') <= Lock!AtOnce'
<1>1. IsFiniteSet(Clients) /\ Clients # {}
  BY DeviceAssumption
<1>2. IsFiniteSet(v3') /\ Cardinality(v3') <= Cardinality(Clients)
  BY <1>1, FS_Subset DEF LockTypes
<1>3. Cardinality(v3') \in Nat /\ Cardinality(Clients) \in Nat
  BY <1>1, <1>2, FS_CardinalityType
<1>4. CASE v1' = "login"
  <2>1. v3' = {} /\ Cardinality(v3') = 0
    BY <1>4, FS_EmptySet DEF LockTypes
  <2> QED BY <1>2, <1>4, <2>1 DEF Lock!AtOnce
<1>5. CASE v1' # "login"
  <2>1. Lock!AtOnce' = Cardinality(Clients)
    BY <1>5, Zenon DEF Lock!AtOnce, Lock!Cardinality, Cardinality
  <2> QED BY <1>2, <1>3, <2>1
<1> QED BY <1>4, <1>5

(* The bound, from how the guesses came about.                              *)
LEMMA RoundsBound ==
  ASSUME LockInv PROVE Lock!GuessesBounded
<1>1. PICK p0, p1, p2, q0, q1, q2, m, n \in Nat : Paid(p0, p1, p2, q0, q1, q2, m, n)
  BY DEF LockInv
<1>2. LockTypes /\ v4 \in [0..2 -> Nat] /\ v5 \in Nat
  BY DEF LockInv, LockTypes
<1>3. PICK A \in Nat \ {0}, T \in Nat \ {0} : A = Lock!AtOnce /\ T = Threshold
  BY <1>2, LockWaiting, DeviceAssumption
<1>4. v4[0] + v4[1] + v4[2] <= T - 1 + 3 * A + v5
  <2>1. p0 + p1 + p2 <= T - 1 + 3 * A
    BY <1>1, <1>3 DEF Paid, Rounds
  <2>2. q0 + q1 + q2 <= v5
    BY <1>1, <1>2 DEF Paid
  <2>3. v4[0] <= p0 + q0 /\ v4[1] <= p1 + q1 /\ v4[2] <= p2 + q2
    BY <1>1 DEF Paid
  <2>4. v4[0] \in Nat /\ v4[1] \in Nat /\ v4[2] \in Nat
    BY <1>2
  <2> QED BY <1>2, <2>1, <2>2, <2>3, <2>4
<1>5. 3 * A + v5 <= (3 + v5) * A
  <2>1. PICK k \in Nat : A = k + 1
    <3>1. A - 1 \in Nat /\ A = (A - 1) + 1
      BY <1>3
    <3> QED BY <3>1
  <2>2. v5 * (k + 1) = v5 * k + v5 /\ v5 * k \in Nat
    BY <1>2
  <2>3. (3 + v5) * (k + 1) = 3 * (k + 1) + v5 * (k + 1)
    BY <1>2
  <2> QED BY <1>2, <2>1, <2>2, <2>3
<1>6. v4[0] + v4[1] + v4[2] <= (T - 1) + (3 + v5) * A
  <2>1. PICK x \in Nat : x = v4[0] + v4[1] + v4[2]
    BY <1>2
  <2>2. PICK y \in Nat : y = (3 + v5) * A
    BY <1>2, <1>3
  <2> QED BY <1>2, <1>3, <1>4, <1>5, <2>1, <2>2
<1> QED BY <1>2, <1>3, <1>6, TotalIsSum DEF Lock!GuessesBounded

LEMMA LockInit ==
  ASSUME Lock!Init PROVE LockInv
<1>1. LockTypes
  BY DEF Lock!Init, LockTypes, Lock!Nothing, Lock!Ages
<1>2. v2["redis"] = v4 /\ v3 = {} /\ v4[0] = 0 /\ v4[1] = 0 /\ v4[2] = 0 /\ v5 = 0
  BY DEF Lock!Init, Lock!Nothing, Lock!Ages
<1>3. Cardinality(v3) = 0
  BY <1>2, FS_EmptySet
<1>4. PICK A \in Nat \ {0}, T \in Nat \ {0} : A = Lock!AtOnce /\ T = Threshold
  BY <1>1, LockWaiting, DeviceAssumption
<1>5. Rounds(0, 0, 0, 0)
  BY <1>4 DEF Rounds
<1>6. Paid(0, 0, 0, 0, 0, 0, 0, 0)
  BY <1>2, <1>3, <1>5 DEF Paid
<1> QED BY <1>1, <1>6 DEF LockInv

(* An open lock: fewer failures than the threshold, or none in this unit.   *)
LEMMA LockOpen ==
  ASSUME LockTypes, ~Lock!IsLockedOut(TRUE)
  PROVE  \/ v2["redis"][0] + v2["redis"][1] + v2["redis"][2] < Threshold
         \/ v2["redis"][0] = 0
<1>1. ~Lock!Locked(v2["redis"])
  BY DEF Lock!IsLockedOut
<1>2. v2["redis"] \in [0..2 -> Nat] /\ Threshold \in Nat
  BY DeviceAssumption DEF LockTypes
<1>3. PICK k \in [0..2 -> Nat] : k = v2["redis"]
  BY <1>2
<1>4. ~(k[0] + k[1] + k[2] >= Threshold /\ k[0] > 0)
  BY <1>1, <1>3, TotalIsSum DEF Lock!Locked
<1>5. k[0] \in Nat /\ k[1] \in Nat /\ k[2] \in Nat
  OBVIOUS
<1> QED BY <1>2, <1>3, <1>4, <1>5

(* Somebody is let in: m of those who wait now and k of this unit go        *)
(* against what the count allowed, and no more at once than AtOnce.         *)
LEMMA LetIn ==
  ASSUME NEW A \in Nat \ {0}, NEW T \in Nat \ {0}, A = Lock!AtOnce, T = Threshold,
         NEW p0 \in Nat, NEW p1 \in Nat, NEW p2 \in Nat, NEW m \in Nat, NEW k \in Nat,
         Rounds(p0, p1, p2, m), k <= A,
         p0 + p1 + p2 < T \/ p0 = 0
  PROVE  Rounds(p0, p1, p2, k)
<1>1. CASE p0 + p1 + p2 < T
  BY <1>1 DEF Rounds
<1>2. CASE p0 = 0
  BY <1>2 DEF Rounds
<1> QED BY <1>1, <1>2

(* Steps of the lock-out.                                                   *)
LEMMA LockStep ==
  ASSUME LockInv, Lock!Next
  PROVE  LockInv'
<1>1. PICK p0, p1, p2, q0, q1, q2, m, n \in Nat : Paid(p0, p1, p2, q0, q1, q2, m, n)
  BY DEF LockInv
<1>2. LockTypes
  BY DEF LockInv
<1>3. PICK A \in Nat \ {0}, T \in Nat \ {0} : A = Lock!AtOnce /\ T = Threshold
  BY <1>2, LockWaiting, DeviceAssumption
<1>4. PICK r, s \in [0..2 -> Nat], d \in [0..2 -> Nat] :
         r = v2["redis"] /\ s = v2["memory"] /\ d = v4
  BY <1>2 DEF LockTypes
<1>5. v5 \in Nat /\ IsFiniteSet(v3) /\ Cardinality(v3) \in Nat
  BY <1>2, LockWaiting DEF LockTypes
<1>6. /\ d[0] <= p0 + q0 /\ d[1] <= p1 + q1 /\ d[2] <= p2 + q2
      /\ p0 <= r[0] /\ p1 <= r[1] /\ p2 <= r[2]
      /\ Cardinality(v3) = m + n /\ q0 + q1 + q2 + n <= v5
      /\ Rounds(p0, p1, p2, m)
  BY <1>1, <1>4 DEF Paid
<1>7. /\ r[0] \in Nat /\ r[1] \in Nat /\ r[2] \in Nat
      /\ d[0] \in Nat /\ d[1] \in Nat /\ d[2] \in Nat
      /\ s[0] \in Nat /\ s[1] \in Nat /\ s[2] \in Nat
  OBVIOUS
<1>8. /\ LockTypes'
      /\ Cardinality(v3') \in Nat /\ Cardinality(v3') <= A
      /\ Lock!AtOnce' = A
  <2>1. LockTypes' /\ v1' = v1
    <3>1. DOMAIN v2 = {"redis", "memory"} /\ 0 \in 0..2
      BY <1>2 DEF LockTypes
    <3>2. \A h \in [0..2 -> Nat] : Lock!More(h) \in [0..2 -> Nat] /\ Lock!Aged(h) \in [0..2 -> Nat]
      BY DEF Lock!More, Lock!Aged, Lock!Ages
    <3>3. Lock!Nothing \in [0..2 -> Nat]
      BY DEF Lock!Nothing, Lock!Ages
    <3>4. \A up \in BOOLEAN : /\ Lock!RecordFailure(up) => v2' \in [{"redis", "memory"} -> [0..2 -> Nat]]
                              /\ Lock!RecordSuccess(up) => v2' \in [{"redis", "memory"} -> [0..2 -> Nat]]
                              /\ Lock!Reaches(up) => v5' \in Nat
      <4> TAKE up \in BOOLEAN
      <4>1. Lock!RecordFailure(up) => v2' \in [{"redis", "memory"} -> [0..2 -> Nat]]
        BY <1>2, <3>1, <3>2 DEF LockTypes, Lock!RecordFailure
      <4>2. Lock!RecordSuccess(up) => v2' \in [{"redis", "memory"} -> [0..2 -> Nat]]
        BY <1>2, <3>1, <3>3 DEF LockTypes, Lock!RecordSuccess
      <4>3. Lock!Reaches(up) => v5' \in Nat
        BY <1>5 DEF Lock!Reaches
      <4> QED BY <4>1, <4>2, <4>3
    <3>5. CASE Lock!WrongPassword
      BY <1>2, <3>2, <3>4, <3>5 DEF Lock!WrongPassword, LockTypes
    <3>6. CASE Lock!RightPassword
      BY <1>2, <3>3, <3>4, <3>6 DEF Lock!RightPassword, LockTypes
    <3>7. CASE Lock!TimePasses
      BY <1>2, <3>1, <3>2, <3>7 DEF Lock!TimePasses, LockTypes
    <3>8. CASE Lock!Restart
      BY <1>2, <3>1, <3>3, <3>8 DEF Lock!Restart, LockTypes
    <3>9. ASSUME NEW c \in Clients, Lock!Register(c) PROVE LockTypes' /\ v1' = v1
      BY <1>2, <3>4, <3>9 DEF Lock!Register, LockTypes
    <3>10. ASSUME NEW c \in Clients, Lock!CaptchaFails(c) PROVE LockTypes' /\ v1' = v1
      BY <1>2, <3>2, <3>4, <3>10 DEF Lock!CaptchaFails, LockTypes
    <3>11. ASSUME NEW c \in Clients, Lock!CaptchaPasses(c) PROVE LockTypes' /\ v1' = v1
      BY <1>2, <3>3, <3>4, <3>11 DEF Lock!CaptchaPasses, LockTypes
    <3> QED BY <3>5, <3>6, <3>7, <3>8, <3>9, <3>10, <3>11 DEF Lock!Next
  <2>2. Lock!AtOnce' = Lock!AtOnce
    BY <2>1 DEF Lock!AtOnce
  <2>3. v3' \subseteq Clients /\ (v1 = "login" => v3' = {})
    BY <2>1 DEF LockTypes
  <2>4. Cardinality(v3') \in Nat /\ Cardinality(v3') <= A
    BY <1>3, <2>1, <2>2, LockFits
  <2> QED BY <1>3, <2>1, <2>2, <2>4
<1> DEFINE Kept(a0, a1, a2, b0, b1, b2, i, j) ==
        /\ {a0, a1, a2, b0, b1, b2, i, j} \subseteq Nat
        /\ v4'[0] <= a0 + b0 /\ v4'[1] <= a1 + b1 /\ v4'[2] <= a2 + b2
        /\ a0 <= v2'["redis"][0] /\ a1 <= v2'["redis"][1] /\ a2 <= v2'["redis"][2]
        /\ Cardinality(v3') = i + j /\ b0 + b1 + b2 + j <= v5'
        /\ Rounds(a0, a1, a2, i)
<1>9. ASSUME NEW a0, NEW a1, NEW a2, NEW b0, NEW b1, NEW b2, NEW i, NEW j,
             Kept(a0, a1, a2, b0, b1, b2, i, j)
      PROVE  LockInv'
  <2>1. Rounds(a0, a1, a2, i)'
    BY <1>3, <1>8, <1>9 DEF Rounds
  <2>2. Paid(a0, a1, a2, b0, b1, b2, i, j)' 
    BY <1>9, <2>1 DEF Paid
  <2> QED BY <1>8, <1>9, <2>2 DEF LockInv
<1> HIDE DEF Kept
<1>10. CASE Lock!WrongPassword
  <2>1. PICK up \in BOOLEAN : Lock!Reaches(up) /\ ~Lock!IsLockedOut(up) /\ Lock!RecordFailure(up)
    BY <1>10 DEF Lock!WrongPassword
  <2>2. v3 = {} /\ v3' = {} /\ v4' = Lock!More(v4) /\ A = 1
    BY <1>2, <1>3, <1>10 DEF Lock!WrongPassword, LockTypes, Lock!AtOnce
  <2>3. v4'[0] = d[0] + 1 /\ v4'[1] = d[1] /\ v4'[2] = d[2]
    BY <1>4, <2>2 DEF Lock!More
  <2>4. Cardinality(v3) = 0 /\ Cardinality(v3') = 0 /\ m = 0 /\ n = 0
    BY <1>6, <2>2, FS_EmptySet
  <2>5. CASE up = TRUE
    <3>1. v5' = v5
      BY <2>1, <2>5 DEF Lock!Reaches
    <3>2. v2'["redis"][0] = r[0] + 1 /\ v2'["redis"][1] = r[1] /\ v2'["redis"][2] = r[2]
      BY <1>2, <1>4, <2>1, <2>5 DEF Lock!RecordFailure, Lock!More, LockTypes
    <3>3. r[0] + r[1] + r[2] < T \/ r[0] = 0
      BY <1>2, <1>3, <1>4, <2>1, <2>5, LockOpen
    <3>4. Rounds(p0 + 1, p1, p2, 0)
      <4>1. p0 + p1 + p2 < T \/ p0 = 0
        BY <1>3, <1>6, <1>7, <3>3
      <4>2. 1 \in Nat /\ 1 <= A
        OBVIOUS
      <4>3. Rounds(p0, p1, p2, m)
        BY <1>6
      <4>4. Rounds(p0, p1, p2, 1)
        BY <1>3, <4>1, <4>2, <4>3, LetIn
      <4> QED BY <1>3, <4>4 DEF Rounds
    <3>5. Kept(p0 + 1, p1, p2, q0, q1, q2, 0, 0)
      BY <1>6, <1>7, <2>3, <2>4, <3>1, <3>2, <3>4 DEF Kept
    <3> QED BY <1>9, <3>5
  <2>6. CASE up = FALSE
    <3>1. v5' = v5 + 1
      BY <2>1, <2>6 DEF Lock!Reaches
    <3>2. v2'["redis"] = r
      BY <1>2, <1>4, <2>1, <2>6 DEF Lock!RecordFailure, LockTypes
    <3>3. Kept(p0, p1, p2, q0 + 1, q1, q2, 0, 0)
      BY <1>5, <1>6, <1>7, <2>3, <2>4, <3>1, <3>2 DEF Kept
    <3> QED BY <1>9, <3>3
  <2> QED BY <2>5, <2>6
<1>11. ASSUME v4' = Lock!Nothing PROVE LockInv'
  <2>1. v4'[0] = 0 /\ v4'[1] = 0 /\ v4'[2] = 0
    BY <1>11 DEF Lock!Nothing, Lock!Ages
  <2>2. v2'["redis"] \in [0..2 -> Nat] /\ v5' \in Nat
    BY <1>8 DEF LockTypes
  <2>3. PICK k \in Nat : k = Cardinality(v3') /\ k <= A
    BY <1>8
  <2>4. Rounds(0, 0, 0, k)
    BY <1>3, <2>3 DEF Rounds
  <2>5. v2'["redis"][0] \in Nat /\ v2'["redis"][1] \in Nat /\ v2'["redis"][2] \in Nat
    BY <2>2
  <2>6. Kept(0, 0, 0, 0, 0, 0, k, 0)
    BY <2>1, <2>2, <2>3, <2>4, <2>5 DEF Kept
  <2> QED BY <1>9, <2>6
<1>12. CASE Lock!RightPassword
  BY <1>11, <1>12 DEF Lock!RightPassword
<1>13. CASE Lock!TimePasses
  <2>1. v3' = {} /\ v3 = {} /\ v5' = v5 /\ v4' = Lock!Aged(v4) /\ v2'["redis"] = Lock!Aged(r)
    BY <1>2, <1>4, <1>13 DEF Lock!TimePasses, LockTypes
  <2>2. /\ v4'[0] = 0 /\ v4'[1] = d[0] /\ v4'[2] = d[1]
        /\ v2'["redis"][0] = 0 /\ v2'["redis"][1] = r[0] /\ v2'["redis"][2] = r[1]
    BY <1>4, <2>1 DEF Lock!Aged, Lock!Ages
  <2>3. Cardinality(v3) = 0 /\ Cardinality(v3') = 0 /\ m = 0 /\ n = 0
    BY <1>6, <2>1, FS_EmptySet
  <2>4. Rounds(0, p0, p1, 0)
    BY <1>3, <1>6, <2>3 DEF Rounds
  <2>5. Kept(0, p0, p1, 0, q0, q1, 0, 0)
    BY <1>5, <1>6, <1>7, <2>1, <2>2, <2>3, <2>4 DEF Kept
  <2> QED BY <1>9, <2>5
<1>14. CASE Lock!Restart
  <2>1. v3' = {} /\ v5' = v5 /\ v4' = v4 /\ v2'["redis"] = r
    BY <1>2, <1>4, <1>14 DEF Lock!Restart, LockTypes
  <2>2. Cardinality(v3') = 0
    BY <2>1, FS_EmptySet
  <2>3. Rounds(p0, p1, p2, 0)
    BY <1>3, <1>6 DEF Rounds
  <2>4. Kept(p0, p1, p2, q0, q1, q2, 0, 0)
    BY <1>4, <1>5, <1>6, <1>7, <2>1, <2>2, <2>3 DEF Kept
  <2> QED BY <1>9, <2>4
<1>15. ASSUME NEW c \in Clients, Lock!Register(c) PROVE LockInv'
  <2>1. PICK up \in BOOLEAN : Lock!Reaches(up) /\ ~Lock!IsLockedOut(up)
    BY <1>15 DEF Lock!Register
  <2>2. c \notin v3 /\ v3' = v3 \cup {c} /\ v2' = v2 /\ v4' = v4
    BY <1>15 DEF Lock!Register
  <2>3. Cardinality(v3') = Cardinality(v3) + 1
    BY <1>5, <2>2, FS_AddElement
  <2>4. CASE up = TRUE
    <3>1. v5' = v5
      BY <2>1, <2>4 DEF Lock!Reaches
    <3>2. r[0] + r[1] + r[2] < T \/ r[0] = 0
      BY <1>2, <1>3, <1>4, <2>1, <2>4, LockOpen
    <3>3. PICK k \in Nat : k = Cardinality(v3') /\ k <= A
      BY <1>8
    <3>4. Rounds(p0, p1, p2, k)
      <4>1. p0 + p1 + p2 < T \/ p0 = 0
        BY <1>3, <1>6, <1>7, <3>2
      <4> QED BY <1>3, <1>6, <3>3, <4>1, LetIn
    <3>5. Kept(p0, p1, p2, q0, q1, q2, k, 0)
      BY <1>4, <1>5, <1>6, <1>7, <2>2, <3>1, <3>3, <3>4 DEF Kept
    <3> QED BY <1>9, <3>5
  <2>5. CASE up = FALSE
    <3>1. v5' = v5 + 1
      BY <2>1, <2>5 DEF Lock!Reaches
    <3>2. Kept(p0, p1, p2, q0, q1, q2, m, n + 1)
      BY <1>4, <1>5, <1>6, <1>7, <2>2, <2>3, <3>1 DEF Kept
    <3> QED BY <1>9, <3>2
  <2> QED BY <2>4, <2>5
<1>16. ASSUME NEW c \in Clients, Lock!CaptchaFails(c) PROVE LockInv'
  <2>1. PICK up \in BOOLEAN : Lock!Reaches(up) /\ Lock!RecordFailure(up)
    BY <1>16 DEF Lock!CaptchaFails
  <2>2. c \in v3 /\ v3' = v3 \ {c} /\ v4' = Lock!More(v4)
    BY <1>16 DEF Lock!CaptchaFails
  <2>3. Cardinality(v3') = Cardinality(v3) - 1
    BY <1>5, <2>2, FS_RemoveElement
  <2>4. v4'[0] = d[0] + 1 /\ v4'[1] = d[1] /\ v4'[2] = d[2]
    BY <1>4, <2>2 DEF Lock!More
  <2>5. m + n \in Nat /\ m + n >= 1 /\ Cardinality(v3') = m + n - 1
    BY <1>6, <1>8, <2>3
  <2>6. CASE up = TRUE /\ m >= 1
    <3>1. v5' = v5
      BY <2>1, <2>6 DEF Lock!Reaches
    <3>2. v2'["redis"][0] = r[0] + 1 /\ v2'["redis"][1] = r[1] /\ v2'["redis"][2] = r[2]
      BY <1>2, <1>4, <2>1, <2>6 DEF Lock!RecordFailure, Lock!More, LockTypes
    <3>3. Rounds(p0 + 1, p1, p2, m - 1)
      BY <1>3, <1>6, <2>6 DEF Rounds
    <3>4. Kept(p0 + 1, p1, p2, q0, q1, q2, m - 1, n)
      BY <1>5, <1>6, <1>7, <2>4, <2>5, <2>6, <3>1, <3>2, <3>3 DEF Kept
    <3> QED BY <1>9, <3>4
  <2>7. CASE up = TRUE /\ m = 0
    <3>1. v5' = v5
      BY <2>1, <2>7 DEF Lock!Reaches
    <3>2. v2'["redis"][0] = r[0] + 1 /\ v2'["redis"][1] = r[1] /\ v2'["redis"][2] = r[2]
      BY <1>2, <1>4, <2>1, <2>7 DEF Lock!RecordFailure, Lock!More, LockTypes
    <3>3. Kept(p0, p1, p2, q0 + 1, q1, q2, m, n - 1)
      BY <1>5, <1>6, <1>7, <2>4, <2>5, <2>7, <3>1, <3>2 DEF Kept
    <3> QED BY <1>9, <3>3
  <2>8. CASE up = FALSE
    <3>1. v5' = v5 + 1 /\ v2'["redis"] = r
      BY <1>2, <1>4, <2>1, <2>8 DEF Lock!Reaches, Lock!RecordFailure, LockTypes
    <3>2. CASE m >= 1
      <4>1. Rounds(p0, p1, p2, m - 1)
        BY <1>3, <1>6, <3>2 DEF Rounds
      <4>2. Kept(p0, p1, p2, q0 + 1, q1, q2, m - 1, n)
        BY <1>5, <1>6, <1>7, <2>4, <2>5, <3>1, <3>2, <4>1 DEF Kept
      <4> QED BY <1>9, <4>2
    <3>3. CASE m = 0
      <4>1. Kept(p0, p1, p2, q0 + 1, q1, q2, m, n - 1)
        BY <1>5, <1>6, <1>7, <2>4, <2>5, <3>1, <3>3 DEF Kept
      <4> QED BY <1>9, <4>1
    <3> QED BY <3>2, <3>3
  <2>9. m >= 1 \/ m = 0
    OBVIOUS
  <2>10. up = TRUE \/ up = FALSE
    OBVIOUS
  <2> QED BY <2>6, <2>7, <2>8, <2>9, <2>10
<1>17. ASSUME NEW c \in Clients, Lock!CaptchaPasses(c) PROVE LockInv'
  BY <1>11, <1>17 DEF Lock!CaptchaPasses
<1> QED BY <1>10, <1>12, <1>13, <1>14, <1>15, <1>16, <1>17 DEF Lock!Next

LEMMA LockNext ==
  ASSUME LockInv, Lock!Next \/ UNCHANGED slots
  PROVE  LockInv'
<1>1. CASE UNCHANGED slots
  <2>1. v1' = v1 /\ v2' = v2 /\ v3' = v3 /\ v4' = v4 /\ v5' = v5
    BY <1>1 DEF slots
  <2>2. Lock!AtOnce' = Lock!AtOnce
    BY <2>1 DEF Lock!AtOnce
  <2>3. LockTypes'
    BY <2>1 DEF LockInv, LockTypes
  <2>4. PICK p0, p1, p2, q0, q1, q2, m, n \in Nat : Paid(p0, p1, p2, q0, q1, q2, m, n)
    BY DEF LockInv
  <2>5. Rounds(p0, p1, p2, m)'
    BY <2>2, <2>4 DEF Paid, Rounds
  <2>6. Paid(p0, p1, p2, q0, q1, q2, m, n)'
    BY <2>1, <2>4, <2>5 DEF Paid
  <2> QED BY <2>3, <2>6 DEF LockInv
<1> QED BY <1>1, LockStep

-----------------------------------------------------------------------------
(* Accounts.                                                                *)

LEMMA AccountInit ==
  ASSUME Account!Init PROVE Account!AccountInv
BY DEF Account!Init, Account!AccountInv, Account!NoChallenge, Account!BackupCodeOnce,
       Account!SecondFactorFirst

(* A step that leaves alone what the invariant speaks of.                   *)
LEMMA AccountSame ==
  ASSUME Account!AccountInv, UNCHANGED <<v1, v2, v4, v6, v9, v10, v11, v12>>
  PROVE  Account!AccountInv'
BY DEF Account!AccountInv, Account!BackupCodeOnce, Account!SecondFactorFirst

(* A first factor, by password or passkey: full tokens only while the       *)
(* second one is off.                                                       *)
LEMMA Granted ==
  ASSUME Account!AccountInv, NEW a \in Attempts, Account!Grant(a), UNCHANGED <<v1, v11>>
  PROVE  /\ v9' \in [Attempts -> [got : {"nothing", "pending", "full"}, asked : {"off", "set", "on"}]]
         /\ Account!SecondFactorFirst'
<1>1. v1 \in {"off", "set", "on"} /\ v1' = v1
  BY DEF Account!AccountInv
<1>2. /\ v9 \in [Attempts -> [got : {"nothing", "pending", "full"}, asked : {"off", "set", "on"}]]
      /\ Account!SecondFactorFirst
  BY DEF Account!AccountInv
<1>3. PICK s : s = [got |-> IF v1 = "on" THEN "pending" ELSE "full", asked |-> v1]
  OBVIOUS
<1>4. v9' = [v9 EXCEPT ![a] = s]
  BY <1>3 DEF Account!Grant
<1>5. s \in [got : {"nothing", "pending", "full"}, asked : {"off", "set", "on"}]
  BY <1>1, <1>3
<1>6. s # [got |-> "full", asked |-> "on"]
  BY <1>3
<1>7. \A b \in Attempts : v9'[b] = IF b = a THEN s ELSE v9[b]
  BY <1>2, <1>4
<1> QED BY <1>2, <1>4, <1>5, <1>6, <1>7 DEF Account!SecondFactorFirst

LEMMA AccountStep ==
  ASSUME Account!AccountInv, Account!Next
  PROVE  Account!AccountInv'
<1>1. ASSUME NEW a \in Attempts, Account!Login(a) PROVE Account!AccountInv'
  BY <1>1, Granted DEF Account!Login, Account!AccountInv, Account!BackupCodeOnce
<1>2. ASSUME NEW a \in Attempts, Account!Verified(a)
      PROVE  /\ v9' \in [Attempts -> [got : {"nothing", "pending", "full"}, asked : {"off", "set", "on"}]]
             /\ Account!SecondFactorFirst'
  <2>1. v9 \in [Attempts -> [got : {"nothing", "pending", "full"}, asked : {"off", "set", "on"}]]
    BY DEF Account!AccountInv
  <2>2. v9' = [v9 EXCEPT ![a].got = "full"] /\ v11' = v11 \cup {a}
    BY <1>2 DEF Account!Verified
  <2>3. \A b \in Attempts : b # a => v9'[b] = v9[b]
    BY <2>1, <2>2
  <2> QED BY <2>1, <2>2, <2>3 DEF Account!AccountInv, Account!SecondFactorFirst
<1>3. ASSUME NEW a \in Attempts, Account!VerifyTotp(a) PROVE Account!AccountInv'
  <2>1. Account!Verified(a) /\ UNCHANGED <<v1, v2, v4, v6, v10, v12>>
    BY <1>3 DEF Account!VerifyTotp, Account!Verified
  <2> QED BY <1>2, <2>1 DEF Account!AccountInv, Account!BackupCodeOnce
<1>4. ASSUME NEW a \in Attempts, NEW c \in Codes, Account!VerifyBackup(a, c) PROVE Account!AccountInv'
  <2>1. Account!Verified(a) /\ UNCHANGED <<v1, v4, v6, v12>>
    BY <1>4 DEF Account!VerifyBackup, Account!Verified
  <2>2. v2' = v2 \ {c} /\ v10' = v10 \cup {c}
    BY <1>4 DEF Account!VerifyBackup
  <2>3. Account!BackupCodeOnce'
    BY <2>2 DEF Account!AccountInv, Account!BackupCodeOnce
  <2> QED BY <1>2, <2>1, <2>3 DEF Account!AccountInv
<1>5. ASSUME NEW a \in Attempts, Account!LoginVerify(a) PROVE Account!AccountInv'
  <2>1. /\ v4' = [n |-> 0, live |-> FALSE] /\ v4.n # 0
        /\ UNCHANGED <<v1, v2, v6, v10, v11>>
    BY <1>5 DEF Account!LoginVerify, Account!TakeChallenge, Account!NoChallenge
  <2>2. PICK r : IF Account!Passes(r)
                 THEN Account!Grant(a) /\ v12' = [v12 EXCEPT ![r.n] = @ + 1]
                 ELSE v9' = v9 /\ v12' = v12
    BY <1>5 DEF Account!LoginVerify, Account!GrantPasskey
  <2>3. /\ v9' \in [Attempts -> [got : {"nothing", "pending", "full"}, asked : {"off", "set", "on"}]]
        /\ Account!SecondFactorFirst'
    BY <2>1, <2>2, Granted DEF Account!AccountInv, Account!SecondFactorFirst
  <2>4. /\ v12' \in [1..MaxChallenges -> {0, 1}]
        /\ \A n \in 1..MaxChallenges : v12'[n] = 1 => n <= v6
    <3>1. /\ v12 \in [1..MaxChallenges -> {0, 1}]
          /\ \A n \in 1..MaxChallenges : v12[n] = 1 => n <= v6 /\ v4.n # n
          /\ v4.n <= v6
      BY DEF Account!AccountInv
    <3>2. CASE Account!Passes(r)
      <4>1. r.n = v4.n
        BY <3>2 DEF Account!Passes
      <4>2. v12' = [v12 EXCEPT ![v4.n] = @ + 1]
        BY <2>2, <3>2, <4>1
      <4>3. v4.n \in 1..MaxChallenges => v12[v4.n] = 0
        BY <3>1
      <4>4. PICK k : k = v4.n
        OBVIOUS
      <4>5. \A n \in 1..MaxChallenges : v12'[n] = IF n = k THEN 1 ELSE v12[n]
        BY <3>1, <4>2, <4>3, <4>4
      <4>6. v12' = [n \in 1..MaxChallenges |-> v12'[n]]
        BY <3>1, <4>2
      <4> QED BY <3>1, <4>4, <4>5, <4>6
    <3> QED BY <2>2, <3>1, <3>2
  <2> QED BY <2>1, <2>3, <2>4 DEF Account!AccountInv, Account!BackupCodeOnce
<1>6. CASE Account!Setup2FA
  BY <1>6 DEF Account!Setup2FA, Account!AccountInv, Account!BackupCodeOnce, Account!SecondFactorFirst
<1>7. CASE Account!Enable2FA
  BY <1>7 DEF Account!Enable2FA, Account!AccountInv, Account!BackupCodeOnce, Account!SecondFactorFirst
<1>8. CASE Account!Disable2FA
  BY <1>8 DEF Account!Disable2FA, Account!AccountInv, Account!BackupCodeOnce, Account!SecondFactorFirst
<1>9. CASE Account!LoginOptions
  BY <1>9 DEF Account!LoginOptions, Account!AccountInv, Account!BackupCodeOnce, Account!SecondFactorFirst
<1>10. CASE Account!ChallengeExpires
  BY <1>10 DEF Account!ChallengeExpires, Account!AccountInv, Account!BackupCodeOnce,
               Account!SecondFactorFirst
<1>11. CASE Account!Restart
  BY <1>11 DEF Account!Restart, Account!NoChallenge, Account!AccountInv, Account!BackupCodeOnce,
               Account!SecondFactorFirst
<1>12. CASE Account!RegistrationOptions
  BY <1>12, AccountSame DEF Account!RegistrationOptions
<1>13. ASSUME NEW k \in Passkeys,
              \/ Account!RegistrationVerify(k) \/ Account!DeleteCredential(k)
              \/ \E n \in 1..MaxChallenges : Account!Sign(n, k)
       PROVE  Account!AccountInv'
  BY <1>13, AccountSame DEF Account!RegistrationVerify, Account!DeleteCredential, Account!Sign
<1> QED BY <1>1, <1>3, <1>4, <1>5, <1>6, <1>7, <1>8, <1>9, <1>10, <1>11, <1>12, <1>13 DEF Account!Next

LEMMA AccountNext ==
  ASSUME Account!AccountInv, Account!Next \/ UNCHANGED slots
  PROVE  Account!AccountInv'
<1>1. CASE UNCHANGED slots
  BY <1>1, AccountSame DEF slots
<1> QED BY <1>1, AccountStep

LEMMA AccountThen ==
  ASSUME Account!AccountInv
  PROVE  Account!BackupCodeOnce /\ Account!SecondFactorFirst /\ Account!ChallengeOnce
BY DEF Account!AccountInv, Account!ChallengeOnce

-----------------------------------------------------------------------------
LEMMA PreKeysNext ==
  ASSUME PreKey!PreKeysInv, PreKey!Next \/ UNCHANGED slots PROVE PreKey!PreKeysInv'
BY PreKeysClaims, PreKeysCarried DEF PreKey!PreKeysInv

LEMMA StoreThen == ASSUME Store!KeystoreInv PROVE Store!KeysReadable
BY DEF Store!KeystoreInv, Store!KeysReadable, Store!Under, Store!Types

(* A part that was chosen goes on by its own steps.                         *)
LEMMA PartSteps ==
  ASSUME [MCNext]_<<part, slots, tokenVars>>
  PROVE  /\ part' = part
         /\ part = "store" => Store!Next \/ UNCHANGED slots
         /\ part = "pin" => Gate!Next \/ UNCHANGED slots
         /\ part = "identity" => Owner!Next \/ UNCHANGED slots
         /\ part \in {"sessions", "chain"} => Session!Next \/ UNCHANGED slots
         /\ part = "prekeys" => PreKey!Next \/ UNCHANGED slots
         /\ part = "profiles" => Profile!Next \/ UNCHANGED slots
         /\ part = "account" => Account!Next \/ UNCHANGED slots
         /\ part = "lockout" => Lock!Next \/ UNCHANGED slots
<1>1. part' = part BY DEF MCNext
<1>2. part = "store" => Store!Next \/ UNCHANGED slots BY Zenon DEF MCNext
<1>3. part = "pin" => Gate!Next \/ UNCHANGED slots BY Zenon DEF MCNext
<1>4. part = "identity" => Owner!Next \/ UNCHANGED slots BY Zenon DEF MCNext
<1>5. part \in {"sessions", "chain"} => Session!Next \/ UNCHANGED slots BY Zenon DEF MCNext
<1>6. part = "prekeys" => PreKey!Next \/ UNCHANGED slots BY Zenon DEF MCNext
<1>7. part = "profiles" => Profile!Next \/ UNCHANGED slots BY Zenon DEF MCNext
<1>8. part = "account" => Account!Next \/ UNCHANGED slots BY Zenon DEF MCNext
<1>9. part = "lockout" => Lock!Next \/ UNCHANGED slots BY Zenon DEF MCNext
<1> QED BY <1>1, <1>2, <1>3, <1>4, <1>5, <1>6, <1>7, <1>8, <1>9

(* What is stored can be read with the PIN of the gate (secureStorage.ts),  *)
(* and the lock-out of the gate holds in every tab (pinLock.ts).            *)
THEOREM PinsHold == MCSpec => []PinHolds
<1> DEFINE I == /\ part = "store" => Store!KeystoreInv
                /\ part = "pin" => Gate!GateInv
<1>1. MCInit => I BY StoreInit, GateInit DEF MCInit
<1>2. I /\ [MCNext]_<<part, slots, tokenVars>> => I' BY PartSteps, StoreNext, GateNext
<1>3. I => PinHolds BY StoreThen DEF PinHolds, Gate!GateInv
<1> QED BY <1>1, <1>2, <1>3, PTL DEF MCSpec

(* The newest identity survives its moves between the two stores, with and  *)
(* without a PIN, wherever the page is closed (secureStorage.ts).           *)
THEOREM IdentityStays == MCSpec => []IdentityKept
<1> DEFINE I == part = "identity" => Owner!IdentityInv
<1>1. MCInit => I BY OwnerInit DEF MCInit
<1>2. I /\ [MCNext]_<<part, slots, tokenVars>> => I' BY PartSteps, OwnerNext
<1>3. I => IdentityKept BY OwnerThen DEF IdentityKept
<1> QED BY <1>1, <1>2, <1>3, PTL DEF MCSpec

(* No step of a session leaves a device twice, and a chat keeps its good    *)
(* session, for any devices, chats and calls under way (e2e.ts,             *)
(* transferBundle.ts), but for what `odd` names.                            *)
THEOREM SessionsStay == MCSpec => []SessionsKept
<1> DEFINE I == part \in {"sessions", "chain"} => Session!SessionsInv
<1>1. MCInit => I BY SessionsInit DEF MCInit
<1>2. I /\ [MCNext]_<<part, slots, tokenVars>> => I' BY PartSteps, SessionsNext
<1>3. I => SessionsKept BY SessionsThen DEF SessionsKept
<1> QED BY <1>1, <1>2, <1>3, PTL DEF MCSpec

(* A one-time pre-key goes to one asker, and the signed pre-key at the      *)
(* relay is one the device can answer (e2e.ts, routes/keys.py).             *)
THEOREM PreKeysAreRight == MCSpec => []PreKeysHold
<1> DEFINE I == part = "prekeys" => PreKey!PreKeysInv
<1>1. MCInit => I BY PreKeysInit DEF MCInit
<1>2. I /\ [MCNext]_<<part, slots, tokenVars>> => I' BY PartSteps, PreKeysNext
<1>3. I => PreKeysHold BY PreKeysThen DEF PreKeysHold
<1> QED BY <1>1, <1>2, <1>3, PTL DEF MCSpec

(* The keys, tokens and chats in use are those of the account that is       *)
(* signed in (profiles.ts, LoginPage.tsx), for any accounts and relays.     *)
THEOREM SessionsAreOwn == MCSpec => []SessionIsOwn
<1> DEFINE I == part = "profiles" => Profile!ProfilesInv
<1>1. MCInit => I BY ProfileInit DEF MCInit
<1>2. I /\ [MCNext]_<<part, slots, tokenVars>> => I' BY PartSteps, ProfileNext
<1>3. I => SessionIsOwn BY ProfileThen DEF SessionIsOwn
<1> QED BY <1>1, <1>2, <1>3, PTL DEF MCSpec

(* Backup codes and challenges sign in once, the second factor is not       *)
(* passed by (routes/auth.py, webauthn.py), and the wrong guesses in a      *)
(* window are bounded whoever registers at once, Redis fails and the relay  *)
(* restarts (captcha.py).                                                   *)
THEOREM SignInsAreSafe == MCSpec => []SignInsHold
<1> DEFINE I == /\ part = "account" => Account!AccountInv
                /\ part = "lockout" => LockInv
<1>1. MCInit => I BY AccountInit, LockInit DEF MCInit
<1>2. I /\ [MCNext]_<<part, slots, tokenVars>> => I' BY PartSteps, AccountNext, LockNext
<1>3. I => SignInsHold BY AccountThen, RoundsBound DEF SignInsHold
<1> QED BY <1>1, <1>2, <1>3, PTL DEF MCSpec
=============================================================================
