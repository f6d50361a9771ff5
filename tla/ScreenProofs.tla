---------------------------- MODULE ScreenProofs ----------------------------
(***************************************************************************)
(* What holds of the components of MCScreen for any chats, users, texts,   *)
(* relays and bounds. Each has an inductive invariant, stated with it in   *)
(* its module, and two lemmas: it holds at first, and every step keeps it. *)
(***************************************************************************)
EXTENDS MCScreen, TLAPS, SequenceTheorems, WellFoundedInduction

-----------------------------------------------------------------------------
(* Keys of the others.                                                      *)

LEMMA TrustInit == ASSUME Trust!Init PROVE Trust!TrustInv
BY DEF Trust!Init, Trust!TrustInv, Trust!KeysWereShown

LEMMA TrustNext == ASSUME Trust!TrustInv, Trust!Next \/ UNCHANGED slots PROVE Trust!TrustInv'
<1> USE DEF Trust!TrustInv, Trust!KeysWereShown
<1>1. CASE UNCHANGED slots
  BY <1>1 DEF slots, Trust!SafetyNumber
<1>2. CASE Trust!RotateKey
  BY <1>2 DEF Trust!RotateKey
<1>3. CASE Trust!LoadChats \/ Trust!ChatsLoaded
  BY <1>3 DEF Trust!LoadChats, Trust!ChatsLoaded
<1>4. CASE Trust!SelectChat
  BY <1>4 DEF Trust!SelectChat, Trust!KeyStatus
<1>5. CASE Trust!OpenedBeside
  BY <1>5 DEF Trust!OpenedBeside
<1>6. CASE Trust!CloseChat \/ Trust!DismissWarning
  BY <1>6 DEF Trust!CloseChat, Trust!DismissWarning
<1>7. CASE Trust!KeyChanged \/ Trust!SessionRemoved
  BY <1>7 DEF Trust!KeyChanged, Trust!SessionRemoved
<1>8. CASE Trust!Send
  BY <1>8 DEF Trust!Send
<1>9. ASSUME NEW x \in {Trust!Me, Trust!Peer}, Trust!ShowNumber(x) PROVE Trust!TrustInv'
  <2>1. UNCHANGED <<v6, v5, v8, v10>> BY <1>9 DEF Trust!ShowNumber
  <2>2. v11' = [y \in {Trust!Me, Trust!Peer} |-> v11'[y]]
    BY <1>9 DEF Trust!ShowNumber
  <2>3. \A y \in {Trust!Me, Trust!Peer} : y # x => v11'[y] = v11[y]
    BY <1>9 DEF Trust!ShowNumber
  <2>4. v11'[x].reached => v11'[x].digits = Trust!SafetyNumber(Trust!Me, Trust!Peer)
    <3>1. Trust!Me \in Nat /\ Trust!Peer = Trust!Me + 1
      BY BoundsAssumption DEF Trust!Me, Trust!Peer
    <3>2. LET other == IF x = Trust!Me THEN Trust!Peer ELSE Trust!Me
          IN  Trust!SafetyNumber(x, other) = Trust!SafetyNumber(Trust!Me, Trust!Peer)
      BY <3>1 DEF Trust!SafetyNumber
    <3> HIDE DEF Trust!TrustInv
    <3>3. v11 = [y \in {Trust!Me, Trust!Peer} |-> v11[y]] BY DEF Trust!TrustInv
    <3> QED BY <1>9, <3>2, <3>3 DEF Trust!ShowNumber
  <2>5. \A a, b : Trust!SafetyNumber(a, b)' = Trust!SafetyNumber(a, b) BY DEF Trust!SafetyNumber
  <2>6. \A y \in {Trust!Me, Trust!Peer} :
          v11'[y] # None /\ v11'[y].reached => v11'[y].digits = Trust!SafetyNumber(Trust!Me, Trust!Peer)
    BY <2>3, <2>4
  <2> QED BY <2>1, <2>2, <2>6 DEF Trust!SafetyNumber
<1> QED BY <1>1, <1>2, <1>3, <1>4, <1>5, <1>6, <1>7, <1>8, <1>9 DEF Trust!Next

-----------------------------------------------------------------------------
(* The relay the app hosts.                                                 *)

LEMMA HostInit == ASSUME Host!Init PROVE Host!HostInv
BY BoundsAssumption DEF Host!Init, Host!HostInv, Host!Over, Host!Generations, Host!Steps

LEMMA HostNext == ASSUME Host!HostInv, Host!Next \/ UNCHANGED slots PROVE Host!HostInv'
<1> USE BoundsAssumption DEF Host!HostInv, Host!Over, Host!Current, Host!Generations, Host!Steps
<1>1. CASE UNCHANGED slots
  BY <1>1 DEF slots
<1>2. CASE Host!Start
  <2>1. v1' = v1 + 1 /\ v1' \in Host!Generations /\ UNCHANGED <<v5, v6>> /\ v11' \in BOOLEAN
    BY <1>2 DEF Host!Start
  <2>2. v3' = [v3 EXCEPT ![v1'] = "new"]
    BY <1>2 DEF Host!Start
  <2>3. v3' \in [Host!Generations -> Host!Steps]
    BY <2>1, <2>2
  <2>4. CASE v11'
    BY <2>1, <2>3, <2>4
  <2>5. CASE ~v11'
    <3>1. ~v11 /\ \A g \in Host!Generations : Host!Over(g)
      BY <1>2, <2>5 DEF Host!Start
    <3>2. v5 = {}
      BY <3>1
    <3>3. \A g \in Host!Generations : v3'[g] \notin {"none", "ended"} => g = v1'
      BY <2>1, <2>2, <3>1
    <3> QED BY <2>1, <2>3, <3>2, <3>3
  <2> QED BY <2>4, <2>5
<1>3. CASE Host!Stop
  <2>1. v1' \in Nat /\ v5' \subseteq Host!Generations
        /\ v3' \in [Host!Generations -> Host!Steps] /\ v11' \in BOOLEAN
    <3>1. v1' = v1 + 1 /\ v5' = v5 \ {v6} /\ v3' = v3
      BY <1>3 DEF Host!Stop
    <3>2. v11' \in BOOLEAN
      BY <1>3 DEF Host!Stop
    <3>3. v1' \in Nat BY <3>1
    <3>4. v5' \subseteq Host!Generations BY <3>1
    <3>5. v3' \in [Host!Generations -> Host!Steps] BY <3>1
    <3> QED BY <3>2, <3>3, <3>4, <3>5
  <2>2. CASE v11'
    BY <2>1, <2>2
  <2>3. CASE ~v11'
    <3>1. ~v11 /\ \A g \in Host!Generations : v3[g] # "url"
      BY <1>3, <2>3 DEF Host!Stop
    <3>2. \A g \in v5 : v6 = g
      <4> TAKE g \in v5
      <4>1. v3[g] # "url" /\ (v3[g] # "url" => v6 = g)
        BY <3>1
      <4> QED BY <4>1
    <3>3. v5' = {} /\ v3' = v3
      BY <1>3, <3>2 DEF Host!Stop
    <3> QED BY <2>1, <3>1, <3>3
  <2> QED BY <2>2, <2>3
<1>4. CASE Host!Mount \/ Host!Unmount \/ Host!Published \/ Host!ToggleInvite
  BY <1>4 DEF Host!Mount, Host!Unmount, Host!Published, Host!ToggleInvite, Host!hostVars
<1>5. ASSUME NEW g \in Host!Generations,
             Host!Begin(g) \/ Host!HasBinary(g) \/ Host!NoBinary(g)
      PROVE  Host!HostInv'
  BY <1>5 DEF Host!Begin, Host!HasBinary, Host!NoBinary, Host!Goes, Host!Fails
<1>6. ASSUME NEW g \in Host!Generations, Host!Spawn(g) \/ Host!NoAddress(g) \/ Host!HasAddress(g)
      PROVE  Host!HostInv'
  BY <1>6 DEF Host!Spawn, Host!NoAddress, Host!HasAddress, Host!Goes, Host!Fails, Host!Ends
<1>7. ASSUME NEW g \in Host!Generations, Host!NotHealthy(g) \/ Host!Healthy(g)
      PROVE  Host!HostInv'
  BY <1>7 DEF Host!NotHealthy, Host!Healthy, Host!Goes, Host!Fails, Host!Ends
<1>8. ASSUME NEW g \in Host!Generations, Host!WatchEmpty(g) PROVE Host!HostInv'
  <2>1. ~v11 => v5 = {}
    BY <1>8 DEF Host!WatchEmpty
  <2> QED BY <1>8, <2>1 DEF Host!WatchEmpty, Host!Goes, Host!Ends
<1>9. ASSUME NEW g \in Host!Generations, Host!WatchExited(g) PROVE Host!HostInv'
  <2>1. ~v11 => v5 = {}
    BY <1>9 DEF Host!WatchExited
  <2>2. \E s \in Host!Steps : Host!Goes(g, s)
    BY <1>9 DEF Host!WatchExited, Host!Fails, Host!Ends
  <2> QED BY <1>9, <2>1, <2>2 DEF Host!WatchExited, Host!Goes
<1>10. ASSUME NEW g \in Host!Generations, Host!ProcessDies(g) PROVE Host!HostInv'
  BY <1>10 DEF Host!ProcessDies
<1> QED BY <1>1, <1>2, <1>3, <1>4, <1>5, <1>6, <1>7, <1>8, <1>9, <1>10 DEF Host!Next

-----------------------------------------------------------------------------
(* Push notices.                                                            *)

LEMMA PushInit == ASSUME Notice!Init PROVE Notice!PushInv
BY NoneAssumption DEF Notice!Init, Notice!PushInv, Notice!Nothing, Notice!StaysSubscribed

LEMMA PushNext == ASSUME Notice!PushInv, Notice!Next \/ UNCHANGED slots PROVE Notice!PushInv'
<1> USE NoneAssumption DEF Notice!PushInv, Notice!StaysSubscribed
<1>1. CASE UNCHANGED slots
  BY <1>1 DEF slots
<1>2. CASE Notice!PerformLogout \/ Notice!Setting \/ Notice!InitPushNotifications
  BY <1>2 DEF Notice!PerformLogout, Notice!Setting, Notice!InitPushNotifications
<1>3. CASE Notice!Expires
  BY <1>3 DEF Notice!Expires
<1>4. CASE Notice!SubscribePush
  BY <1>4 DEF Notice!SubscribePush
<1>5. CASE Notice!Subscribed
  BY <1>5 DEF Notice!Subscribed
<1>6. CASE Notice!PushDone
  BY <1>6 DEF Notice!PushDone, Notice!Nothing
<1>7. ASSUME NEW u \in Pair, Notice!SignIn(u) PROVE Notice!PushInv'
  BY <1>7 DEF Notice!SignIn
<1>8. ASSUME NEW u \in Pair, Notice!StartPush(u) PROVE Notice!PushInv'
  BY <1>8 DEF Notice!StartPush
<1>9. ASSUME NEW row, Notice!PushOne(row) PROVE Notice!PushInv'
  <2> DEFINE rest == v9.left \ {row}
  <2>1. row \in v9.left /\ UNCHANGED <<v1, v2, v3, v4, v5, v6, v7, v8, v10>>
    BY <1>9 DEF Notice!PushOne
  <2>2. \/ v9' = [to |-> v9.to, left |-> rest, dead |-> v9.dead]
        \/ row[2] # v5 /\ v9' = [to |-> v9.to, left |-> rest, dead |-> v9.dead \cup {row}]
    <3>1. v9 = [to |-> v9.to, left |-> v9.left, dead |-> v9.dead]
      OBVIOUS
    <3> HIDE DEF Notice!PushInv
    <3> QED BY <1>9, <3>1 DEF Notice!PushOne
  <2>3. CASE v9' = [to |-> v9.to, left |-> rest, dead |-> v9.dead]
    BY <2>1, <2>3
  <2>4. CASE row[2] # v5 /\ v9' = [to |-> v9.to, left |-> rest, dead |-> v9.dead \cup {row}]
    BY <2>1, <2>4
  <2> QED BY <2>2, <2>3, <2>4
<1> QED BY <1>1, <1>2, <1>3, <1>4, <1>5, <1>6, <1>7, <1>8, <1>9 DEF Notice!Next

-----------------------------------------------------------------------------
(* The choice of a relay.                                                   *)

LEMMA BootInit == ASSUME Boot!Init PROVE Boot!BootInv
BY NoneAssumption, RelaysAssumption
   DEF Boot!Init, Boot!BootInv, Boot!AddressesOK, Boot!RelayIsSound, Boot!OnlyProvenIsSaved,
       Boot!SessionAtItsRelay, Boot!ApplyEndsSession, Boot!OnlyOne, Boot!Check

(* A load takes the address that was saved, or finds one.                   *)
LEMMA BootLoads ==
  ASSUME NEW keep \in Relays \cup {None}, NEW found \in Relays \cup {None}, Boot!Loads(keep, found)
  PROVE  Boot!AddressesOK' /\ v10' = None /\ v3' = keep /\ (keep # None => v5' = keep)
<1>1. v5' \in Relays /\ v4' \in Relays \cup {None} /\ v3' = keep /\ v10' = None
      /\ (keep # None => v5' = keep)
  BY RelaysAssumption DEF Boot!Loads, Boot!Resolved
<1>2. v9' = [p \in Probes |-> IF p = CHOOSE q \in Probes : TRUE THEN Boot!Check("base", v5')
                              ELSE Boot!Idle]
  BY DEF Boot!Loads, Boot!OnlyOne
<1>3. Boot!Check("base", v5') \in [kind : {"base", "manual"}, relay : Relays, mounted : BOOLEAN]
  BY <1>1 DEF Boot!Check
<1> QED BY <1>1, <1>2, <1>3 DEF Boot!AddressesOK, Boot!Idle

LEMMA BootNext == ASSUME Boot!BootInv, Boot!Next \/ UNCHANGED slots PROVE Boot!BootInv'
<1> USE NoneAssumption DEF Boot!BootInv, Boot!RelayIsSound, Boot!OnlyProvenIsSaved,
                           Boot!SessionAtItsRelay, Boot!ApplyEndsSession
<1>1. CASE UNCHANGED slots
  BY <1>1 DEF slots, Boot!AddressesOK, Boot!Idle
<1>2. CASE Boot!Reload
  BY <1>2, BootLoads DEF Boot!Reload, Boot!AddressesOK
<1>3. CASE Boot!ResetRelayConfig \/ Boot!HandleStartLocal \/ Boot!ApplyFails
  BY <1>3 DEF Boot!ResetRelayConfig, Boot!HandleStartLocal, Boot!ApplyFails, Boot!AddressesOK, Boot!Idle
<1>4. CASE Boot!Applied
  BY <1>4, BootLoads DEF Boot!Applied, Boot!Chosen, Boot!AddressesOK
<1>5. CASE Boot!SignIn \/ Boot!SignOut
  BY <1>5 DEF Boot!SignIn, Boot!SignOut, Boot!AddressesOK, Boot!Idle
<1>6. ASSUME NEW relay \in Relays, Boot!OpenLink(relay) PROVE Boot!BootInv'
  BY <1>6, BootLoads DEF Boot!OpenLink, Boot!Chosen
<1>7. ASSUME NEW relay \in Relays, Boot!ChangesHealth(relay) PROVE Boot!BootInv'
  BY <1>7 DEF Boot!ChangesHealth, Boot!AddressesOK, Boot!Idle
<1>8. ASSUME NEW relay \in Relays, Boot!HandleApplyRelay(relay) PROVE Boot!BootInv'
  BY <1>8 DEF Boot!HandleApplyRelay, Boot!Current, Boot!AddressesOK, Boot!Idle
<1>9. ASSUME NEW p \in Probes, NEW relay \in Relays,
             Boot!Poll(p) \/ Boot!HandleRetry(p) \/ Boot!RelayUnreachable(p) \/ Boot!ConnectTo(p, relay)
      PROVE  Boot!BootInv'
  <2>1. \E kind \in {"base", "manual"}, at \in Relays : v9' = [v9 EXCEPT ![p] = Boot!Check(kind, at)]
    BY <1>9 DEF Boot!Poll, Boot!HandleRetry, Boot!RelayUnreachable, Boot!ConnectTo, Boot!AddressesOK
  <2>2. \A kind \in {"base", "manual"}, at \in Relays :
          Boot!Check(kind, at) \in [kind : {"base", "manual"}, relay : Relays, mounted : BOOLEAN]
    BY DEF Boot!Check
  <2>3. v9' \in [Probes -> {Boot!Idle} \cup [kind : {"base", "manual"}, relay : Relays, mounted : BOOLEAN]]
    BY <2>1, <2>2 DEF Boot!AddressesOK
  <2>4. UNCHANGED <<v3, v4, v5, v10, v11, v12, v13>>
    BY <1>9 DEF Boot!Poll, Boot!HandleRetry, Boot!RelayUnreachable, Boot!ConnectTo
  <2> QED BY <2>3, <2>4 DEF Boot!AddressesOK, Boot!Idle
<1>11. ASSUME NEW p \in Probes, Boot!BaseAnswers(p) \/ Boot!ProbeFails(p) PROVE Boot!BootInv'
  <2> DEFINE check == [kind : {"base", "manual"}, relay : Relays, mounted : BOOLEAN]
  <2>1. \A q \in Probes : v9[q] # Boot!Idle => v9[q] \in check
    BY DEF Boot!AddressesOK
  <2>2. \A c \in check : [c EXCEPT !.mounted = FALSE] \in check
    OBVIOUS
  <2>3. v9' \in [Probes -> {Boot!Idle} \cup check]
    <3>1. CASE Boot!BaseAnswers(p)
      <4> HIDE DEF check
      <4> QED BY <2>1, <2>2, <3>1 DEF Boot!BaseAnswers
    <3>2. CASE Boot!ProbeFails(p)
      BY <3>2 DEF Boot!ProbeFails, Boot!AddressesOK
    <3> QED BY <1>11, <3>1, <3>2
  <2>4. UNCHANGED <<v3, v4, v5, v10, v11, v12, v13>>
    BY <1>11 DEF Boot!BaseAnswers, Boot!ProbeFails
  <2> QED BY <2>3, <2>4 DEF Boot!AddressesOK, Boot!Idle
<1>10. ASSUME NEW p \in Probes, Boot!ManualAnswers(p) PROVE Boot!BootInv'
  <2>1. v9[p].relay \in Relays
    BY <1>10 DEF Boot!ManualAnswers, Boot!AddressesOK, Boot!Idle
  <2>2. CASE Boot!Loads(v9[p].relay, None)
    BY <1>10, <2>1, <2>2, BootLoads DEF Boot!ManualAnswers, Boot!Current
  <2>3. CASE ~Boot!Loads(v9[p].relay, None)
    BY <1>10, <2>1, <2>3 DEF Boot!ManualAnswers, Boot!Chosen, Boot!AddressesOK, Boot!Idle
  <2> QED BY <2>2, <2>3
<1> QED BY <1>1, <1>2, <1>3, <1>4, <1>5, <1>6, <1>7, <1>8, <1>9, <1>10, <1>11, RelaysAssumption
   DEF Boot!Next

-----------------------------------------------------------------------------
(* The chat on screen.                                                      *)

LEMMA ViewInit == ASSUME View!Init PROVE View!ViewInv
BY DEF View!Init, View!ViewInv, View!RightChat, View!WrittenWhereKept

LEMMA ViewNext == ASSUME View!ViewInv, View!Next \/ UNCHANGED slots PROVE View!ViewInv'
<1> USE NoneAssumption DEF View!ViewInv, View!RightChat, View!WrittenWhereKept
<1>1. CASE UNCHANGED slots
  BY <1>1 DEF slots
<1>2. CASE View!Awaited
  BY <1>2 DEF View!Awaited
<1>3. CASE View!HandleInputChange
  BY <1>3 DEF View!HandleInputChange
<1>4. CASE View!SaveDraft
  BY <1>4 DEF View!SaveDraft
<1>5. CASE View!HandleSend
  BY <1>5 DEF View!HandleSend
<1>6. CASE View!HandleSent
  <2>1. v9 # None /\ v9' = None /\ UNCHANGED <<v1, v2, v8, v12>>
    BY <1>6 DEF View!HandleSent
  <2>2. CASE UNCHANGED <<v10, v3, v11, v6, v7>>
    BY <2>1, <2>2
  <2>3. CASE /\ v10' = v9 /\ View!Shows(v9[2])
             /\ v6' = None /\ v7' = [v7 EXCEPT ![v9[2]] = None]
    <3>1. v7' = [c \in Pair |-> v7'[c]] /\ \A c \in Pair : v7'[c] \in {None, v7[c]}
      BY <2>3
    <3>2. ~v11' => ~v11 /\ v3' \subseteq {v1}
      BY <2>3 DEF View!Shows
    <3>3. ~v12 => v9[1] = v9[2]
      BY <2>1
    <3> QED BY <2>1, <2>3, <3>1, <3>2, <3>3
  <2> QED BY <1>6, <2>2, <2>3 DEF View!HandleSent
<1>7. ASSUME NEW c \in Pair, View!Select(c) PROVE View!ViewInv'
  BY <1>7 DEF View!Select
<1>8. ASSUME NEW c \in Pair, View!Jump(c) PROVE View!ViewInv'
  BY <1>8 DEF View!Jump
<1>9. ASSUME NEW c \in Pair, View!Loaded(c) PROVE View!ViewInv'
  BY <1>9 DEF View!Loaded
<1>10. ASSUME NEW c \in Pair, View!Added(c) PROVE View!ViewInv'
  BY <1>10 DEF View!Added, View!Shows
<1> QED BY <1>1, <1>2, <1>3, <1>4, <1>5, <1>6, <1>7, <1>8, <1>9, <1>10 DEF View!Next

-----------------------------------------------------------------------------
(* Reactions.                                                               *)

LEMMA ReactionInit == ASSUME Reaction!Init PROVE Reaction!ReactionInv
BY DEF Reaction!Init, Reaction!ReactionInv, Reaction!CertainOf, Reaction!Backed, Reaction!Listed,
       Reaction!Requesting, Reaction!Idle

(* A client that takes no step stays certain: the rows that are its own     *)
(* stay, and when others change theirs a frame is under way to it.          *)
LEMMA CertainStays ==
  ASSUME NEW u \in Pair, Reaction!CertainOf(u), v4'[u] = v4[u], v3'[u] = v3[u],
         \/ v1' = v1 /\ v5'[u] = v5[u]
         \/ v5'[u] # 0 /\ \A row \in v1 : row.by = u => row \in v1'
  PROVE  Reaction!CertainOf(u)'
<1>1. \A some : Reaction!Backed(u, some) => Reaction!Backed(u, some)'
  <2> SUFFICES ASSUME NEW some, Reaction!Backed(u, some) PROVE Reaction!Backed(u, some)'
    OBVIOUS
  <2>1. ASSUME NEW x \in some, x[1] = u PROVE x \in Reaction!Listed(v1)'
    <3>1. PICK row \in v1 : x = Reaction!Mark(row)
      BY <2>1 DEF Reaction!Backed, Reaction!Listed
    <3>2. row.by = u
      BY <2>1, <3>1 DEF Reaction!Mark
    <3> QED BY <3>1, <3>2 DEF Reaction!Listed, Reaction!Mark
  <2>2. v5'[u] = 0 => some \subseteq Reaction!Listed(v1)'
    BY DEF Reaction!Backed, Reaction!Listed, Reaction!Mark
  <2> QED BY <2>1, <2>2 DEF Reaction!Backed
<1> QED BY <1>1 DEF Reaction!CertainOf, Reaction!Shown, Reaction!Idle

(* One request changes.                                                     *)
LEMMA RequestMoves ==
  ASSUME NEW u \in Pair, NEW s \in Requests, NEW r \in Reaction!Requesting,
         v4 \in [Pair -> [Requests -> Reaction!Requesting]], v4' = [v4 EXCEPT ![u][s] = r]
  PROVE  /\ v4' \in [Pair -> [Requests -> Reaction!Requesting]]
         /\ v4'[u][s] = r
         /\ \A o \in Requests \ {s} : v4'[u][o] = v4[u][o]
         /\ \A w \in Pair \ {u} : v4'[w] = v4[w]
OBVIOUS

LEMMA ClickKeeps ==
  ASSUME Reaction!ReactionInv, NEW u \in Pair, NEW s \in Requests, NEW emoji \in Emojis,
         NEW add \in BOOLEAN, Reaction!Click(u, s, emoji, add)
  PROVE  Reaction!ReactionInv'
<1> DEFINE r == [at |-> "sealing", emoji |-> emoji, add |-> add]
<1>1. r \in Reaction!Requesting
  BY DEF Reaction!Requesting
<1>2. v4' = [v4 EXCEPT ![u][s] = r] /\ v4 \in [Pair -> [Requests -> Reaction!Requesting]]
  BY DEF Reaction!Click, Reaction!ReactionInv
<1> HIDE DEF r
<1>3. /\ v4' \in [Pair -> [Requests -> Reaction!Requesting]]
      /\ v4'[u][s] = r
      /\ \A o \in Requests \ {s} : v4'[u][o] = v4[u][o]
      /\ \A w \in Pair \ {u} : v4'[w] = v4[w]
  BY <1>1, <1>2, RequestMoves
<1>4. /\ UNCHANGED <<v1, v2, v5>> /\ v4[u][s] = Reaction!Idle
      /\ v3' = [v3 EXCEPT ![u] = Reaction!Shown(u, emoji, add)]
      /\ v7' = [v7 EXCEPT ![u] = @ \/ Reaction!Others(u, s)]
      /\ add \/ <<u, emoji>> \in v3[u]
  BY DEF Reaction!Click
<1>5. /\ v3 \in [Pair -> SUBSET (Pair \X Emojis)] /\ v3' \in [Pair -> SUBSET (Pair \X Emojis)]
      /\ v7 \in [Pair -> BOOLEAN] /\ v7' \in [Pair -> BOOLEAN]
  BY <1>4 DEF Reaction!ReactionInv, Reaction!Shown
<1>6. ASSUME NEW w \in Pair \ {u}, ~v7'[w] PROVE Reaction!CertainOf(w)'
  <2>1. Reaction!CertainOf(w)
    BY <1>4, <1>5, <1>6 DEF Reaction!ReactionInv
  <2>2. v4'[w] = v4[w] /\ v3'[w] = v3[w] /\ v1' = v1 /\ v5'[w] = v5[w]
    BY <1>3, <1>4, <1>5
  <2> QED BY <2>1, <2>2, CertainStays
<1>7. ASSUME ~v7'[u] PROVE Reaction!CertainOf(u)'
  <2>1. ~v7[u] /\ ~Reaction!Others(u, s)
    BY <1>4, <1>5, <1>7
  <2>2. Reaction!CertainOf(u)
    BY <2>1 DEF Reaction!ReactionInv
  <2>3. \A o \in Requests \ {s} : v4'[u][o] = Reaction!Idle
    BY <1>3, <2>1 DEF Reaction!Others
  <2>4. Reaction!Backed(u, v3[u])
    BY <1>3, <1>4, <2>2, <2>3 DEF Reaction!CertainOf
  <2>5. Reaction!Shown(u, emoji, ~add)' \subseteq v3[u]
    BY <1>4, <1>5 DEF Reaction!Shown
  <2>6. Reaction!Backed(u, Reaction!Shown(u, emoji, ~add))'
    BY <1>4, <2>4, <2>5 DEF Reaction!Backed, Reaction!Listed, Reaction!Mark
  <2>7. v4'[u][s].at = "sealing" /\ v4'[u][s].emoji = emoji /\ v4'[u][s].add = add
    BY <1>3 DEF r
  <2> QED BY <2>3, <2>6, <2>7 DEF Reaction!CertainOf, Reaction!Idle
<1> QED BY <1>3, <1>4, <1>5, <1>6, <1>7 DEF Reaction!ReactionInv

LEMMA FailedKeeps ==
  ASSUME Reaction!ReactionInv, NEW u \in Pair, NEW s \in Requests, Reaction!Failed(u, s)
  PROVE  Reaction!ReactionInv'
<1>1. Reaction!Idle \in Reaction!Requesting
  BY DEF Reaction!Requesting
<1>2. v4' = [v4 EXCEPT ![u][s] = Reaction!Idle] /\ v4 \in [Pair -> [Requests -> Reaction!Requesting]]
  BY DEF Reaction!Failed, Reaction!ReactionInv
<1>3. /\ v4' \in [Pair -> [Requests -> Reaction!Requesting]]
      /\ v4'[u][s] = Reaction!Idle
      /\ \A o \in Requests \ {s} : v4'[u][o] = v4[u][o]
      /\ \A w \in Pair \ {u} : v4'[w] = v4[w]
  BY <1>1, <1>2, RequestMoves
<1>4. /\ UNCHANGED <<v1, v2, v5, v7>> /\ v4[u][s].at \in {"sealing", "lost"}
      /\ v3' = [v3 EXCEPT ![u] = Reaction!Shown(u, v4[u][s].emoji, ~v4[u][s].add)]
  BY DEF Reaction!Failed, Reaction!Revert
<1>5. v4[u][s].emoji \in Emojis
  <2>1. v4[u][s] \in Reaction!Requesting
    BY <1>2
  <2> QED BY <1>4, <2>1 DEF Reaction!Requesting, Reaction!Idle
<1>6. v3 \in [Pair -> SUBSET (Pair \X Emojis)] /\ v3' \in [Pair -> SUBSET (Pair \X Emojis)]
  BY <1>4, <1>5 DEF Reaction!ReactionInv, Reaction!Shown
<1>7. ASSUME NEW w \in Pair \ {u}, ~v7'[w] PROVE Reaction!CertainOf(w)'
  <2>1. Reaction!CertainOf(w)
    BY <1>4, <1>7 DEF Reaction!ReactionInv
  <2>2. v4'[w] = v4[w] /\ v3'[w] = v3[w] /\ v1' = v1 /\ v5'[w] = v5[w]
    BY <1>3, <1>4, <1>6
  <2> QED BY <2>1, <2>2, CertainStays
<1>8. ASSUME ~v7'[u] PROVE Reaction!CertainOf(u)'
  <2>1. Reaction!CertainOf(u)
    BY <1>4, <1>8 DEF Reaction!ReactionInv
  <2>2. v4[u][s].at = "sealing" /\ v4[u][s] # Reaction!Idle
    BY <1>4, <2>1 DEF Reaction!CertainOf, Reaction!Idle
  <2>3. \A o \in Requests : v4'[u][o] = Reaction!Idle
    BY <1>3, <2>1, <2>2 DEF Reaction!CertainOf
  <2>4. Reaction!Backed(u, v3'[u])
    BY <1>4, <1>6, <2>1, <2>2 DEF Reaction!CertainOf
  <2>5. Reaction!Backed(u, v3[u])'
    BY <1>4, <2>4 DEF Reaction!Backed, Reaction!Listed, Reaction!Mark
  <2> QED BY <2>3, <2>5 DEF Reaction!CertainOf, Reaction!Idle
<1> QED BY <1>3, <1>4, <1>6, <1>7, <1>8 DEF Reaction!ReactionInv

LEMMA ToggleKeeps ==
  ASSUME Reaction!ReactionInv, NEW u \in Pair, NEW s \in Requests, Reaction!ToggleReaction(u, s)
  PROVE  Reaction!ReactionInv'
<1> DEFINE Rows == [n : Nat, by : Pair, emoji : Emojis]
<1> DEFINE e == v4[u][s].emoji
<1>1. v4 \in [Pair -> [Requests -> Reaction!Requesting]] /\ v1 \subseteq Rows /\ v2 \in Nat
      /\ v5 \in [Pair -> Nat] /\ v7 \in [Pair -> BOOLEAN] /\ v4[u][s].at = "sealing"
  BY DEF Reaction!ToggleReaction, Reaction!ReactionInv
<1>2. v4[u][s] \in [at : {"sealing", "lost"}, emoji : Emojis, add : BOOLEAN]
  <2>1. v4[u][s] \in Reaction!Requesting
    BY <1>1
  <2> QED BY <1>1, <2>1 DEF Reaction!Requesting, Reaction!Idle
<1>3. /\ v1' \subseteq Rows /\ v2' \in Nat
      /\ \A row \in v1 : row.by # u => row \in v1'
  <2>1. Reaction!Toggled(u, e)
    BY DEF Reaction!ToggleReaction
  <2>2. \A row \in v1 : Reaction!Mark(row) = <<u, e>> => row.by = u
    BY DEF Reaction!Mark
  <2>3. CASE v1' = v1 \ {row \in v1 : Reaction!Mark(row) = <<u, e>>} /\ v2' = v2
    BY <1>1, <2>2, <2>3
  <2>4. CASE v2' = v2 + 1 /\ v1' = v1 \cup {[n |-> v2 + 1, by |-> u, emoji |-> e]}
    <3>1. v2 + 1 \in Nat /\ e \in Emojis
      BY <1>1, <1>2
    <3>2. [n |-> v2 + 1, by |-> u, emoji |-> e] \in Rows
      BY <3>1
    <3> QED BY <1>1, <2>4, <3>1, <3>2
  <2> QED BY <2>1, <2>3, <2>4 DEF Reaction!Toggled
<1>4. /\ v5' = [p \in Pair |-> IF p = u THEN v5[p] ELSE v5[p] + 1] /\ UNCHANGED <<v3, v6>>
      /\ \/ v4' = [v4 EXCEPT ![u][s] = [at |-> "answer", rows |-> v1']] /\ v7' = v7
         \/ v4' = [v4 EXCEPT ![u][s] = [v4[u][s] EXCEPT !.at = "lost"]] /\ v7' = [v7 EXCEPT ![u] = TRUE]
  BY DEF Reaction!ToggleReaction
<1>5. \E r \in Reaction!Requesting : v4' = [v4 EXCEPT ![u][s] = r]
  <2>1. [at |-> "answer", rows |-> v1'] \in Reaction!Requesting
    BY <1>3 DEF Reaction!Requesting
  <2>2. [v4[u][s] EXCEPT !.at = "lost"] \in Reaction!Requesting
    BY <1>2 DEF Reaction!Requesting
  <2> QED BY <1>4, <2>1, <2>2
<1>6. PICK r \in Reaction!Requesting : v4' = [v4 EXCEPT ![u][s] = r]
  BY <1>5
<1>7. /\ v4' \in [Pair -> [Requests -> Reaction!Requesting]]
      /\ v4'[u][s] = r
      /\ \A o \in Requests \ {s} : v4'[u][o] = v4[u][o]
      /\ \A w \in Pair \ {u} : v4'[w] = v4[w]
  BY <1>1, <1>6, RequestMoves
<1>8. v5' \in [Pair -> Nat] /\ v7' \in [Pair -> BOOLEAN]
      /\ \A w \in Pair \ {u} : v7'[w] = v7[w] /\ v5'[w] # 0
  <2>1. v5' \in [Pair -> Nat] /\ \A w \in Pair \ {u} : v5'[w] # 0
    BY <1>1, <1>4
  <2>2. v7' = v7 \/ v7' = [v7 EXCEPT ![u] = TRUE]
    BY <1>4
  <2>3. v7' \in [Pair -> BOOLEAN] /\ \A w \in Pair \ {u} : v7'[w] = v7[w]
    BY <1>1, <2>2
  <2> QED BY <2>1, <2>3
<1>9. ASSUME NEW w \in Pair \ {u}, ~v7'[w] PROVE Reaction!CertainOf(w)'
  <2>1. Reaction!CertainOf(w)
    BY <1>8, <1>9 DEF Reaction!ReactionInv
  <2>2. v4'[w] = v4[w] /\ v3'[w] = v3[w] /\ v5'[w] # 0
        /\ \A row \in v1 : row.by = w => row \in v1'
    BY <1>3, <1>4, <1>7, <1>8
  <2> QED BY <2>1, <2>2, CertainStays
<1>10. ASSUME ~v7'[u] PROVE Reaction!CertainOf(u)'
  <2>1. ~v7[u] /\ v4' = [v4 EXCEPT ![u][s] = [at |-> "answer", rows |-> v1']] /\ v7' = v7
    BY <1>1, <1>4, <1>10
  <2>2. Reaction!CertainOf(u) /\ v4[u][s] # Reaction!Idle
    BY <1>1, <2>1 DEF Reaction!ReactionInv, Reaction!Idle
  <2>3. \A o \in Requests \ {s} : v4'[u][o] = Reaction!Idle
    BY <1>7, <2>2 DEF Reaction!CertainOf
  <2>4. v4'[u][s] = [at |-> "answer", rows |-> v1']
    BY <1>1, <2>1
  <2> QED BY <2>3, <2>4 DEF Reaction!CertainOf, Reaction!Idle
<1>11. UNCHANGED v3
  BY <1>4
<1> QED BY <1>3, <1>7, <1>8, <1>9, <1>10, <1>11 DEF Reaction!ReactionInv

LEMMA HistoryKeeps ==
  ASSUME Reaction!ReactionInv, NEW u \in Pair, NEW s \in Requests, Reaction!LoadHistory(u, s)
  PROVE  Reaction!ReactionInv'
<1> DEFINE r == [at |-> "answer", rows |-> v1]
<1>1. r \in Reaction!Requesting
  BY DEF Reaction!Requesting, Reaction!ReactionInv
<1>2. v4' = [v4 EXCEPT ![u][s] = r] /\ v4 \in [Pair -> [Requests -> Reaction!Requesting]]
  BY DEF Reaction!LoadHistory, Reaction!ReactionInv
<1> HIDE DEF r
<1>3. /\ v4' \in [Pair -> [Requests -> Reaction!Requesting]]
      /\ v4'[u][s] = r
      /\ \A o \in Requests \ {s} : v4'[u][o] = v4[u][o]
      /\ \A w \in Pair \ {u} : v4'[w] = v4[w]
  BY <1>1, <1>2, RequestMoves
<1>4. UNCHANGED <<v1, v2, v3, v5>> /\ v7' = [v7 EXCEPT ![u] = Reaction!Others(u, s)]
  BY DEF Reaction!LoadHistory
<1>5. v7 \in [Pair -> BOOLEAN] /\ v7' \in [Pair -> BOOLEAN]
  BY <1>4 DEF Reaction!ReactionInv, Reaction!Others
<1>6. ASSUME NEW w \in Pair \ {u}, ~v7'[w] PROVE Reaction!CertainOf(w)'
  <2>1. Reaction!CertainOf(w)
    BY <1>4, <1>5, <1>6 DEF Reaction!ReactionInv
  <2>2. v4'[w] = v4[w] /\ v3'[w] = v3[w] /\ v1' = v1 /\ v5'[w] = v5[w]
    BY <1>3, <1>4
  <2> QED BY <2>1, <2>2, CertainStays
<1>7. ASSUME ~v7'[u] PROVE Reaction!CertainOf(u)'
  <2>1. \A o \in Requests \ {s} : v4'[u][o] = Reaction!Idle
    BY <1>3, <1>4, <1>5, <1>7 DEF Reaction!Others
  <2>2. v4'[u][s] = [at |-> "answer", rows |-> v1'] /\ v4'[u][s] # Reaction!Idle
    BY <1>3, <1>4 DEF r, Reaction!Idle
  <2> QED BY <2>1, <2>2 DEF Reaction!CertainOf, Reaction!Idle
<1> QED BY <1>3, <1>4, <1>5, <1>6, <1>7 DEF Reaction!ReactionInv

LEMMA AnswerKeeps ==
  ASSUME Reaction!ReactionInv, NEW u \in Pair, NEW s \in Requests, Reaction!Answered(u, s)
  PROVE  Reaction!ReactionInv'
<1> DEFINE some == v4[u][s].rows
<1>1. Reaction!Idle \in Reaction!Requesting
  BY DEF Reaction!Requesting
<1>2. v4' = [v4 EXCEPT ![u][s] = Reaction!Idle] /\ v4 \in [Pair -> [Requests -> Reaction!Requesting]]
  BY DEF Reaction!Answered, Reaction!ReactionInv
<1>3. /\ v4' \in [Pair -> [Requests -> Reaction!Requesting]]
      /\ v4'[u][s] = Reaction!Idle
      /\ \A o \in Requests \ {s} : v4'[u][o] = v4[u][o]
      /\ \A w \in Pair \ {u} : v4'[w] = v4[w]
  BY <1>1, <1>2, RequestMoves
<1>4. PICK open \in SUBSET Reaction!Readable(u, some) :
        v3' = [v3 EXCEPT ![u] = {Reaction!Mark(row) : row \in open}]
  BY DEF Reaction!Answered, Reaction!Grouped
<1>5. UNCHANGED <<v1, v2, v5, v7>> /\ v4[u][s].at = "answer"
  BY DEF Reaction!Answered
<1>6. some \subseteq [n : Nat, by : Pair, emoji : Emojis]
  <2>1. v4[u][s] \in Reaction!Requesting
    BY <1>2
  <2> QED BY <1>5, <2>1 DEF Reaction!Requesting, Reaction!Idle
<1>7. \A row \in open : row \in some /\ row.by # u /\ Reaction!Mark(row) \in Pair \X Emojis
  BY <1>6 DEF Reaction!Readable, Reaction!Mark
<1>8. v3 \in [Pair -> SUBSET (Pair \X Emojis)] /\ v3' \in [Pair -> SUBSET (Pair \X Emojis)]
  BY <1>4, <1>7 DEF Reaction!ReactionInv
<1>9. ASSUME NEW w \in Pair \ {u}, ~v7'[w] PROVE Reaction!CertainOf(w)'
  <2>1. Reaction!CertainOf(w)
    BY <1>5, <1>9 DEF Reaction!ReactionInv
  <2>2. v4'[w] = v4[w] /\ v3'[w] = v3[w] /\ v1' = v1 /\ v5'[w] = v5[w]
    BY <1>3, <1>4, <1>5, <1>8
  <2> QED BY <2>1, <2>2, CertainStays
<1>10. ASSUME ~v7'[u] PROVE Reaction!CertainOf(u)'
  <2>1. Reaction!CertainOf(u) /\ v4[u][s] # Reaction!Idle
    BY <1>5, <1>10 DEF Reaction!ReactionInv, Reaction!Idle
  <2>2. \A o \in Requests : v4'[u][o] = Reaction!Idle
    BY <1>3, <2>1 DEF Reaction!CertainOf
  <2>3. v3'[u] = {Reaction!Mark(row) : row \in open}
    BY <1>4, <1>8
  <2>4. \A x \in v3'[u] : x[1] # u
    BY <1>7, <2>3 DEF Reaction!Mark
  <2>5. v5[u] = 0 => \A row \in open : row \in v1
    BY <1>5, <1>7, <2>1 DEF Reaction!CertainOf
  <2>6. v5[u] = 0 => v3'[u] \subseteq Reaction!Listed(v1)
    BY <2>3, <2>5 DEF Reaction!Listed
  <2>7. Reaction!Backed(u, v3[u])'
    BY <1>5, <2>4, <2>6 DEF Reaction!Backed, Reaction!Listed, Reaction!Mark
  <2> QED BY <2>2, <2>7 DEF Reaction!CertainOf, Reaction!Idle
<1> QED BY <1>3, <1>5, <1>8, <1>9, <1>10 DEF Reaction!ReactionInv

LEMMA HearKeeps ==
  ASSUME Reaction!ReactionInv, NEW u \in Pair, Reaction!Hear(u)
  PROVE  Reaction!ReactionInv'
<1>1. /\ UNCHANGED <<v1, v2, v4>> /\ v5[u] > 0 /\ v5' = [v5 EXCEPT ![u] = @ - 1]
      /\ v3' = [v3 EXCEPT ![u] = {}]
  BY DEF Reaction!Hear
<1>2. v7' = [v7 EXCEPT ![u] = @ \/ \E s \in Requests : v4[u][s].at = "answer"]
  BY DEF Reaction!Hear
<1>3. /\ v3 \in [Pair -> SUBSET (Pair \X Emojis)] /\ v3' \in [Pair -> SUBSET (Pair \X Emojis)]
      /\ v5' \in [Pair -> Nat]
  BY <1>1 DEF Reaction!ReactionInv
<1>4. v7 \in [Pair -> BOOLEAN] /\ v7' \in [Pair -> BOOLEAN]
  BY <1>2 DEF Reaction!ReactionInv
<1>5. ASSUME NEW w \in Pair \ {u}, ~v7'[w] PROVE Reaction!CertainOf(w)'
  <2>1. Reaction!CertainOf(w)
    BY <1>2, <1>4, <1>5 DEF Reaction!ReactionInv
  <2>2. v4'[w] = v4[w] /\ v3'[w] = v3[w] /\ v1' = v1 /\ v5'[w] = v5[w]
    BY <1>1, <1>3 DEF Reaction!ReactionInv
  <2> QED BY <2>1, <2>2, CertainStays
<1>6. ASSUME ~v7'[u] PROVE Reaction!CertainOf(u)'
  <2>1. ~v7[u] /\ \A s \in Requests : v4[u][s].at # "answer"
    BY <1>2, <1>4, <1>6
  <2>2. Reaction!CertainOf(u)
    BY <2>1 DEF Reaction!ReactionInv
  <2>3. v3'[u] = {}
    BY <1>1, <1>3
  <2>4. ASSUME NEW s \in Requests, v4[u][s].at = "sealing"
        PROVE  Reaction!Backed(u, Reaction!Shown(u, v4[u][s].emoji, ~v4[u][s].add))'
    <3> DEFINE mine == <<u, v4[u][s].emoji>>
    <3>1. Reaction!Backed(u, Reaction!Shown(u, v4[u][s].emoji, ~v4[u][s].add))
      BY <2>2, <2>4 DEF Reaction!CertainOf
    <3>2. ~v4[u][s].add => mine \in Reaction!Listed(v1)
      BY <3>1 DEF Reaction!Backed, Reaction!Shown
    <3>3. Reaction!Shown(u, v4[u][s].emoji, ~v4[u][s].add)' \subseteq
            IF v4[u][s].add THEN {} ELSE {mine}
      BY <1>1, <2>3 DEF Reaction!Shown
    <3> QED BY <1>1, <3>2, <3>3 DEF Reaction!Backed, Reaction!Listed, Reaction!Mark
  <2>5. Reaction!Backed(u, v3[u])'
    BY <2>3 DEF Reaction!Backed
  <2> QED BY <1>1, <2>1, <2>2, <2>4, <2>5 DEF Reaction!CertainOf
<1> QED BY <1>1, <1>3, <1>4, <1>5, <1>6 DEF Reaction!ReactionInv

LEMMA MissedKeeps ==
  ASSUME Reaction!ReactionInv, NEW u \in Pair, Reaction!Missed(u)
  PROVE  Reaction!ReactionInv'
<1>1. /\ UNCHANGED <<v1, v2, v3, v4>> /\ v5[u] > 0 /\ v5' = [v5 EXCEPT ![u] = @ - 1]
      /\ v7' = [v7 EXCEPT ![u] = TRUE]
  BY DEF Reaction!Missed
<1>2. v5' \in [Pair -> Nat] /\ v7' \in [Pair -> BOOLEAN]
  BY <1>1 DEF Reaction!ReactionInv
<1>3. ASSUME NEW w \in Pair, ~v7'[w] PROVE Reaction!CertainOf(w)'
  <2>1. w # u /\ Reaction!CertainOf(w)
    BY <1>1, <1>2, <1>3 DEF Reaction!ReactionInv
  <2>2. v4'[w] = v4[w] /\ v3'[w] = v3[w] /\ v1' = v1 /\ v5'[w] = v5[w]
    BY <1>1, <2>1 DEF Reaction!ReactionInv
  <2> QED BY <2>1, <2>2, CertainStays
<1> QED BY <1>1, <1>2, <1>3 DEF Reaction!ReactionInv

LEMMA ReactionNext ==
  ASSUME Reaction!ReactionInv, Reaction!Next \/ UNCHANGED slots PROVE Reaction!ReactionInv'
<1>1. CASE UNCHANGED slots
  <2>1. UNCHANGED <<v1, v2, v3, v4, v5, v7>>
    BY <1>1 DEF slots
  <2>2. \A w \in Pair : Reaction!CertainOf(w) => Reaction!CertainOf(w)'
    <3>1. ASSUME NEW w \in Pair, Reaction!CertainOf(w) PROVE Reaction!CertainOf(w)'
      BY <2>1, <3>1, CertainStays
    <3> QED BY <3>1
  <2> QED BY <2>1, <2>2 DEF Reaction!ReactionInv
<1>2. CASE Reaction!Next
  BY <1>2, ClickKeeps, FailedKeeps, ToggleKeeps, HistoryKeeps, AnswerKeeps, HearKeeps, MissedKeeps
     DEF Reaction!Next
<1> QED BY <1>1, <1>2

LEMMA NoPhantoms == ASSUME Reaction!ReactionInv PROVE Reaction!NoPhantomMarks
BY DEF Reaction!ReactionInv, Reaction!CertainOf, Reaction!Backed, Reaction!Listed,
       Reaction!NoPhantomMarks, Reaction!Settled

-----------------------------------------------------------------------------
(* Sequences.                                                               *)

(* What is left of a sequence without its j-th member.                      *)
LEMMA Removed ==
  ASSUME NEW S, NEW q \in Seq(S), NEW j \in DOMAIN q
  PROVE  LET rest == SubSeq(q, 1, j - 1) \o SubSeq(q, j + 1, Len(q))
         IN  /\ rest \in Seq(S) /\ DOMAIN rest = 1 .. (Len(q) - 1)
             /\ \A i \in 1 .. (Len(q) - 1) : rest[i] = IF i < j THEN q[i] ELSE q[i + 1]
<1> DEFINE a == SubSeq(q, 1, j - 1)
           b == SubSeq(q, j + 1, Len(q))
<1>1. j \in 1 .. Len(q) /\ Len(q) \in Nat /\ \A i \in 1 .. Len(q) : q[i] \in S
  OBVIOUS
<1>2. a \in Seq(S) /\ Len(a) = j - 1 /\ \A i \in 1 .. (j - 1) : a[i] = q[i]
  BY <1>1, SubSeqProperties
<1>3. b \in Seq(S) /\ Len(b) = Len(q) - j /\ \A i \in 1 .. (Len(q) - j) : b[i] = q[i + j]
  <2>1. j + 1 \in Int /\ Len(q) \in Int /\ \A i \in (j + 1) .. Len(q) : q[i] \in S
    BY <1>1
  <2> DEFINE from == j + 1
             to == Len(q)
  <2>2. from \in Int /\ to \in Int /\ \A i \in from .. to : q[i] \in S
    BY <2>1
  <2> HIDE DEF from, to
  <2>3. /\ SubSeq(q, from, to) \in Seq(S)
        /\ Len(SubSeq(q, from, to)) = IF from <= to THEN to - from + 1 ELSE 0
        /\ \A i \in 1 .. (to - from + 1) : SubSeq(q, from, to)[i] = q[from + i - 1]
    BY <2>2, SubSeqProperties
  <2>4. /\ b \in Seq(S) /\ Len(b) = Len(q) - j
        /\ \A i \in 1 .. (Len(q) - j) : b[i] = q[j + 1 + i - 1]
    BY <1>1, <2>3 DEF from, to
  <2>5. \A i \in 1 .. (Len(q) - j) : b[i] = q[i + j]
    <3> TAKE i \in 1 .. (Len(q) - j)
    <3>1. b[i] = q[j + 1 + i - 1] /\ j + 1 + i - 1 = i + j
      BY <1>1, <2>4
    <3> QED BY <3>1
  <2> QED BY <2>4, <2>5
<1> HIDE DEF a, b
<1>4. /\ a \o b \in Seq(S) /\ Len(a \o b) = Len(q) - 1
      /\ \A i \in 1 .. (Len(q) - 1) : (a \o b)[i] = IF i < j THEN a[i] ELSE b[i - (j - 1)]
  <2>1. /\ a \o b \in Seq(S) /\ Len(a \o b) = Len(a) + Len(b)
        /\ \A i \in 1 .. (Len(a) + Len(b)) :
             (a \o b)[i] = IF i <= Len(a) THEN a[i] ELSE b[i - Len(a)]
    BY <1>2, <1>3, ConcatProperties
  <2>2. j - 1 + (Len(q) - j) = Len(q) - 1 /\ \A i \in Nat : i <= j - 1 <=> i < j
    BY <1>1
  <2> QED BY <1>2, <1>3, <2>1, <2>2
<1>5. ASSUME NEW i \in 1 .. (Len(q) - 1) PROVE (a \o b)[i] = IF i < j THEN q[i] ELSE q[i + 1]
  <2>1. CASE i < j
    BY <1>1, <1>2, <1>4, <2>1
  <2>2. CASE ~(i < j)
    <3>1. i - (j - 1) \in 1 .. (Len(q) - j) /\ i - (j - 1) + j = i + 1
      BY <1>1, <2>2
    <3> QED BY <1>3, <1>4, <2>2, <3>1
  <2> QED BY <2>1, <2>2
<1>6. DOMAIN (a \o b) = 1 .. (Len(q) - 1)
  BY <1>4
<1> QED BY <1>4, <1>5, <1>6 DEF a, b

(* A sequence of members of a set is one of members of a larger set.        *)
LEMMA SeqGrows == ASSUME NEW S, NEW T, S \subseteq T, NEW q \in Seq(S) PROVE q \in Seq(T)
OBVIOUS

-----------------------------------------------------------------------------
(* Files in a chat.                                                         *)

LEMMA FileInit == ASSUME File!Init PROVE File!AttachmentInv
BY NoneAssumption
   DEF File!Init, File!AttachmentInv, File!Sent, File!Entries, File!Views, File!Away, File!NoBlob, File!HasOwnUrl

(* On the way out nothing changes for a file that was sent.                 *)
LEMMA FileGoesOut ==
  ASSUME File!AttachmentInv, UNCHANGED <<v4, v5, v6, v7, v8, v9>>,
         v1' = [f \in Pair |-> v1'[f]], v2' = [f \in Pair |-> v2'[f]],
         \A f \in File!Sent : v1'[f] = "sent" /\ v2'[f] = v2[f],
         \A f \in v3' : f \in Pair /\ v1'[f] = "sent" /\ v2'[f] = "sealed",
         \A f \in v3' : f \in File!Sent => f \in v3
  PROVE  File!AttachmentInv'
<1>1. File!Sent \subseteq File!Sent' /\ v3' \subseteq {f \in File!Sent' : v2'[f] = "sealed"}
  BY DEF File!Sent
<1>2. File!Entries \subseteq File!Entries'
  BY <1>1 DEF File!Entries, File!What, File!Sent
<1>3. v8 \in Seq(File!Entries')
  BY <1>2, SeqGrows DEF File!AttachmentInv
<1>4. ASSUME NEW b \in Bubbles PROVE File!HasOwnUrl(b)'
  <2>1. File!HasOwnUrl(b) /\ v4[b].file \in File!Sent \cup {None}
    BY DEF File!AttachmentInv
  <2>2. v4[b].file \in v3' => v4[b].file \in v3
    <3>1. None \notin v3'
      BY NoneAssumption
    <3> QED BY <2>1, <3>1
  <2> QED BY <2>1, <2>2 DEF File!HasOwnUrl
<1>5. v8' \in Seq(File!Entries')
  BY <1>3
<1> QED BY <1>1, <1>4, <1>5 DEF File!AttachmentInv, File!Views, File!NoBlob

LEMMA OutNext ==
  ASSUME File!AttachmentInv, NEW f \in Pair,
         \/ File!Seal(f) \/ File!SealFails(f) \/ File!Upload(f)
         \/ File!SendMessage(f) \/ File!SendFails(f) \/ File!EditCaption(f)
  PROVE  File!AttachmentInv'
<1> USE DEF File!viewVars
<1>1. /\ v3 \subseteq {g \in File!Sent : v2[g] = "sealed"}
      /\ v1 = [g \in Pair |-> v1[g]] /\ v2 = [g \in Pair |-> v2[g]]
      /\ File!Sent = {g \in Pair : v1[g] = "sent"}
  BY DEF File!AttachmentInv, File!Sent
<1>2. CASE File!Seal(f) \/ File!SealFails(f)
  BY <1>1, <1>2, FileGoesOut DEF File!Seal, File!SealFails, File!Moves
<1>3. CASE File!Upload(f)
  BY <1>1, <1>3, FileGoesOut DEF File!Upload
<1>4. CASE File!SendMessage(f)
  BY <1>1, <1>4, FileGoesOut DEF File!SendMessage, File!Moves
<1>5. CASE File!SendFails(f)
  BY <1>1, <1>5, FileGoesOut DEF File!SendFails
<1>6. CASE File!EditCaption(f)
  BY <1>1, <1>6, FileGoesOut DEF File!EditCaption
<1> QED BY <1>2, <1>3, <1>4, <1>5, <1>6

LEMMA SameUrls ==
  ASSUME UNCHANGED <<v1, v2, v7>>
  PROVE  File!Sent' = File!Sent /\ File!Entries' = File!Entries
BY DEF File!Sent, File!Entries, File!What

LEMMA ViewFacts ==
  ASSUME File!AttachmentInv, NEW b \in Bubbles
  PROVE  /\ v4[b] \in File!Views /\ v7 \in Nat /\ v4 \in [Bubbles -> File!Views]
         /\ v4[b].file \in File!Sent \cup {None} /\ v4[b].url \in 1 .. v7 \cup {None}
         /\ v4[b].step # "done" => v5[b] = File!NoBlob
         /\ v4[b].step # "away" => v4[b].file # None /\ v4[b].file \in File!Sent
         /\ File!HasOwnUrl(b)
BY DEF File!AttachmentInv

(* What is true of a bubble's own URL stays true while neither the cache,   *)
(* nor another bubble, nor a revocation comes by it.                        *)
LEMMA OwnStays ==
  ASSUME NEW b \in Bubbles, File!HasOwnUrl(b), v7 \in Nat, v7' \in Nat, v7 <= v7',
         v3' = v3, v4'[b] = v4[b], v5'[b] = v5[b],
         \A u \in 1 .. v7 :
            /\ u \in v6
            /\ \A o \in Bubbles \ {b} : v4[o].url # u
            /\ \A i \in DOMAIN v8 : v8[i][2] # u
            => /\ u \in v6'
               /\ \A o \in Bubbles \ {b} : v4'[o].url # u
               /\ \A i \in DOMAIN v8' : v8'[i][2] # u
  PROVE  File!HasOwnUrl(b)'
BY DEF File!HasOwnUrl, File!NoBlob

LEMMA CacheFacts ==
  ASSUME File!AttachmentInv
  PROVE  /\ \A i \in DOMAIN v8 : /\ v8[i] \in File!Entries /\ v8[i][1] \in File!Sent
                                 /\ v8[i][2] \in 1 .. v7 /\ v8[i][3] = File!What(v8[i][1])
         /\ \A f \in v3 : File!What(f) = "cipher"
<1>1. \A e \in File!Entries : e[1] \in File!Sent /\ e[2] \in 1 .. v7 /\ e[3] = File!What(e[1])
  BY DEF File!Entries
<1>2. v8 \in Seq(File!Entries)
  BY DEF File!AttachmentInv
<1>3. \A i \in DOMAIN v8 : v8[i] \in File!Entries
  BY <1>2
<1> QED BY <1>1, <1>3 DEF File!AttachmentInv, File!What

(* Views of one bubble that changes.                                        *)
LEMMA MountKeeps ==
  ASSUME File!AttachmentInv, NEW a \in Bubbles, NEW f \in Pair, File!Mount(a, f)
  PROVE  File!AttachmentInv'
<1> DEFINE view == [file |-> f, step |-> IF f \in v3 THEN "open" ELSE "plain", url |-> None]
<1>1. /\ UNCHANGED <<v1, v2, v3, v5, v6, v7, v8, v9>> /\ f \in File!Sent /\ v4[a].step = "away"
      /\ v4' = [v4 EXCEPT ![a] = view]
  BY DEF File!Mount, File!Runs, File!sendVars, File!Sent
<1>2. view \in File!Views
  BY <1>1 DEF File!Views
<1>3. v7 \in Nat /\ v4 \in [Bubbles -> File!Views] /\ v4' \in [Bubbles -> File!Views]
  BY <1>1, <1>2 DEF File!AttachmentInv
<1>4. v4'[a] = view /\ \A b \in Bubbles \ {a} : v4'[b] = v4[b]
  BY <1>1, <1>3
<1>5. File!Sent' = File!Sent /\ File!Entries' = File!Entries
  BY <1>1 DEF File!Sent, File!Entries, File!What
<1>6. v5[a] = File!NoBlob
  BY <1>1 DEF File!AttachmentInv
<1>7. ASSUME NEW b \in Bubbles PROVE File!HasOwnUrl(b)'
  <2>1. CASE b = a
    BY <1>1, <1>6, <2>1 DEF File!HasOwnUrl, File!NoBlob
  <2>2. CASE b # a
    <3>1. File!HasOwnUrl(b)
      BY DEF File!AttachmentInv
    <3>2. \A u \in 1 .. v7 : v4'[a].url # u
      BY <1>4, NoneAssumption
    <3> QED BY <1>1, <1>3, <1>4, <2>2, <3>1, <3>2, OwnStays
  <2> QED BY <2>1, <2>2
<1>8. f # None
  BY NoneAssumption
<1> QED BY <1>1, <1>3, <1>4, <1>5, <1>6, <1>7, <1>8 DEF File!AttachmentInv, File!NoBlob

LEMMA OpenFailsKeeps ==
  ASSUME File!AttachmentInv, NEW a \in Bubbles, File!OpenFails(a)
  PROVE  File!AttachmentInv'
<1> DEFINE step == IF v4[a].step = "open" THEN "plain" ELSE "left plain"
<1> DEFINE view == [v4[a] EXCEPT !.step = step]
<1>1. /\ UNCHANGED <<v1, v2, v3, v5, v6, v7, v8, v9>> /\ v4[a].step # "done"
      /\ v4' = [v4 EXCEPT ![a] = view]
  BY DEF File!OpenFails, File!Runs, File!Step, File!sendVars
<1>2. v4[a] \in File!Views /\ v7 \in Nat /\ v4 \in [Bubbles -> File!Views]
  BY DEF File!AttachmentInv
<1>3. view \in File!Views /\ view.file = v4[a].file /\ view.url = v4[a].url /\ view.step # "done"
  BY <1>2 DEF File!Views
<1> HIDE DEF view
<1>4. v4'[a] = view /\ v4' \in [Bubbles -> File!Views] /\ \A b \in Bubbles \ {a} : v4'[b] = v4[b]
  BY <1>1, <1>2, <1>3
<1>5. File!Sent' = File!Sent /\ File!Entries' = File!Entries
  BY <1>1 DEF File!Sent, File!Entries, File!What
<1>6. v5[a] = File!NoBlob
  BY <1>1 DEF File!AttachmentInv
<1>7. ASSUME NEW b \in Bubbles PROVE File!HasOwnUrl(b)'
  <2>1. CASE b = a
    BY <1>1, <1>6, <2>1 DEF File!HasOwnUrl, File!NoBlob
  <2>2. CASE b # a
    <3>1. File!HasOwnUrl(b)
      BY DEF File!AttachmentInv
    <3> QED BY <1>1, <1>2, <1>3, <1>4, <2>2, <3>1, OwnStays
  <2> QED BY <2>1, <2>2
<1>8. v4[a].file # None
  BY <1>1, ViewFacts DEF File!OpenFails
<1> QED BY <1>1, <1>2, <1>3, <1>4, <1>5, <1>6, <1>7, <1>8 DEF File!AttachmentInv, File!NoBlob

(* More URLs are made, for the same files.                                  *)
LEMMA MoreUrls ==
  ASSUME UNCHANGED <<v1, v2>>, v7 \in Nat, v7' = v7 + 1
  PROVE  /\ File!Sent' = File!Sent /\ File!Entries \subseteq File!Entries'
         /\ \A f \in Pair : File!What(f)' = File!What(f)
         /\ v7' \in Nat /\ v7 <= v7' /\ 1 .. v7 \subseteq 1 .. v7'
         /\ v7' \in 1 .. v7' /\ v7' \notin 1 .. v7
<1>1. File!Sent' = File!Sent /\ \A f \in Pair : File!What(f)' = File!What(f)
  BY DEF File!Sent, File!What
<1>2. /\ v7' \in Nat /\ v7 <= v7' /\ 1 .. v7 \subseteq 1 .. v7'
      /\ v7' \in 1 .. v7' /\ v7' \notin 1 .. v7
  OBVIOUS
<1>3. File!Entries \subseteq File!Entries'
  <2> SUFFICES ASSUME NEW f \in File!Sent, NEW u \in 1 .. v7
               PROVE  <<f, u, File!What(f)>> \in File!Entries'
    BY DEF File!Entries
  <2>1. f \in File!Sent' /\ File!What(f)' = File!What(f) /\ u \in 1 .. v7'
    BY <1>1, <1>2 DEF File!Sent
  <2> QED BY <2>1 DEF File!Entries
<1> QED BY <1>1, <1>2, <1>3

LEMMA OpenedKeeps ==
  ASSUME File!AttachmentInv, NEW a \in Bubbles, File!Opened(a)
  PROVE  File!AttachmentInv'
<1> DEFINE full == [file |-> v4[a].file, step |-> "done", url |-> v7']
<1>1. v4[a] \in File!Views /\ v7 \in Nat /\ v4 \in [Bubbles -> File!Views]
      /\ v5 = [b \in Bubbles |-> v5[b]]
  BY DEF File!AttachmentInv
<1>2. /\ UNCHANGED <<v1, v2, v3, v8, v9>> /\ v7' = v7 + 1 /\ v6' = v6 \cup {v7'}
      /\ v4[a].step \in {"open", "left open"}
  BY DEF File!Opened, File!sendVars
<1>3. /\ File!Sent' = File!Sent /\ File!Entries \subseteq File!Entries'
      /\ v7' \in Nat /\ v7 <= v7' /\ 1 .. v7 \subseteq 1 .. v7'
      /\ v7' \in 1 .. v7' /\ v7' \notin 1 .. v7
  BY <1>1, <1>2, MoreUrls
<1>4. \/ v4[a].step = "open" /\ v4' = [v4 EXCEPT ![a] = full] /\ v5' = [v5 EXCEPT ![a] = <<v7', "plain">>]
      \/ v4[a].step # "open" /\ v4' = [v4 EXCEPT ![a] = File!Away] /\ v5' = v5
  <2>1. CASE v4[a].step = "open"
    <3>1. v4' = [[v4 EXCEPT ![a].step = "done"] EXCEPT ![a].url = v7'] /\ v5' = [v5 EXCEPT ![a] = <<v7', "plain">>]
      BY <1>2, <2>1 DEF File!Opened, File!Runs, File!Step
    <3>2. v4[a] = [file |-> v4[a].file, step |-> v4[a].step, url |-> v4[a].url]
      BY <1>1 DEF File!Views
    <3>3. [v4[a] EXCEPT !.step = "done"] = [file |-> v4[a].file, step |-> "done", url |-> v4[a].url]
      BY <3>2
    <3>4. [v4 EXCEPT ![a].step = "done"] = [v4 EXCEPT ![a] = [v4[a] EXCEPT !.step = "done"]]
      BY <1>1
    <3>5. [v4 EXCEPT ![a].step = "done"][a] = [file |-> v4[a].file, step |-> "done", url |-> v4[a].url]
      BY <1>1, <3>3, <3>4
    <3>6. [[v4 EXCEPT ![a].step = "done"][a] EXCEPT !.url = v7'] = full
      BY <3>5
    <3>7. [[v4 EXCEPT ![a].step = "done"] EXCEPT ![a].url = v7'] = [v4 EXCEPT ![a] = full]
      BY <1>1, <3>4, <3>6
    <3> QED BY <2>1, <3>1, <3>7
  <2>2. CASE v4[a].step # "open"
    BY <2>2 DEF File!Opened, File!Runs
  <2> QED BY <2>1, <2>2
<1>5. full \in File!Views /\ File!Away \in File!Views
  BY <1>1, <1>3 DEF File!Views, File!Away
<1>6. /\ v4' \in [Bubbles -> File!Views] /\ v5' = [b \in Bubbles |-> v5'[b]]
      /\ \A b \in Bubbles \ {a} : v4'[b] = v4[b] /\ v5'[b] = v5[b]
      /\ \/ v4[a].step = "open" /\ v4'[a] = full /\ v5'[a] = <<v7', "plain">>
         \/ v4[a].step # "open" /\ v4'[a] = File!Away /\ v5'[a] = v5[a]
  BY <1>1, <1>4, <1>5
<1>7. /\ v4'[a].file \in {v4[a].file, None} /\ v4'[a].url \in {v7', None}
      /\ v4'[a].step # "done" => v5'[a] = v5[a]
      /\ v4'[a].step # "away" => v4'[a].file # None
  <2>1. v4[a].file # None
    BY <1>2, ViewFacts
  <2> QED BY <1>6, <2>1 DEF File!Away
<1>8. v8' \in Seq(File!Entries')
  BY <1>2, <1>3, SeqGrows DEF File!AttachmentInv
<1>9. v5[a] = File!NoBlob
  BY <1>2 DEF File!AttachmentInv
<1>10. \A o \in Bubbles : v4[o].url # v7'
  BY <1>3, NoneAssumption DEF File!AttachmentInv
<1>11. \A i \in DOMAIN v8' : v8'[i][2] # v7'
  <2>1. \A i \in DOMAIN v8 : v8[i][2] \in 1 .. v7
    BY CacheFacts
  <2> QED BY <1>2, <1>3, <2>1
<1> HIDE DEF full
<1>12. ASSUME NEW b \in Bubbles PROVE File!HasOwnUrl(b)'
  <2>1. CASE b = a /\ v4[a].step = "open"
    <3>1. v5'[a][1] = v7' /\ v4'[a].url = v7' /\ v7' \in v6'
      BY <1>2, <1>6, <2>1 DEF full
    <3> QED BY <1>3, <1>6, <1>10, <1>11, <2>1, <3>1 DEF File!HasOwnUrl, File!NoBlob
  <2>2. CASE b = a /\ v4[a].step # "open"
    BY <1>6, <1>9, <2>2 DEF File!HasOwnUrl, File!NoBlob
  <2>3. CASE b # a
    <3>1. File!HasOwnUrl(b)
      BY DEF File!AttachmentInv
    <3>2. \A u \in 1 .. v7 : v4'[a].url # u
      BY <1>3, <1>7, NoneAssumption
    <3>3. v7' \in Nat /\ v7 <= v7' /\ v6 \subseteq v6'
      BY <1>2, <1>3
    <3> QED BY <1>1, <1>2, <1>6, <2>3, <3>1, <3>2, <3>3, OwnStays
  <2> QED BY <2>1, <2>2, <2>3
<1>13. \A b \in Bubbles : v4'[b].file \in File!Sent \cup {None} /\ v4'[b].url \in 1 .. v7' \cup {None}
  BY <1>3, <1>6, <1>7 DEF File!AttachmentInv
<1>14. \A b \in Bubbles : /\ v4'[b].step # "done" => v5'[b] = File!NoBlob
                          /\ v4'[b].step # "away" => v4'[b].file # None
  BY <1>6, <1>7, <1>9 DEF File!AttachmentInv
<1> QED BY <1>1, <1>2, <1>3, <1>6, <1>8, <1>12, <1>13, <1>14 DEF File!AttachmentInv, File!NoBlob

LEMMA CreateKeeps ==
  ASSUME File!AttachmentInv, NEW a \in Bubbles, File!GetOrCreate(a)
  PROVE  File!AttachmentInv'
<1> DEFINE f == v4[a].file
           p == File!Place(f)
<1>1. v4[a] \in File!Views /\ v7 \in Nat /\ v4 \in [Bubbles -> File!Views]
      /\ v5 = [b \in Bubbles |-> v5[b]] /\ v8 \in Seq(File!Entries)
  BY DEF File!AttachmentInv
<1>2. UNCHANGED <<v1, v2, v3, v6, v7>> /\ v4[a].step \in {"plain", "left plain"}
  BY DEF File!GetOrCreate, File!sendVars
<1>3. File!Sent' = File!Sent /\ File!Entries' = File!Entries
  BY <1>2, SameUrls
<1>4. f \in File!Sent /\ v4[a].url \in 1 .. v7 \cup {None} /\ v5[a] = File!NoBlob
  BY <1>2, ViewFacts
<1>5. v7 \in Nat /\ v7' = v7 /\ v3' = v3 /\ v6' = v6
  BY <1>1, <1>2
<1>6. v7' \in Nat /\ v7 <= v7'
  BY <1>5
<1>7. CASE File!Cached(f)
  <2>1. p \in DOMAIN v8 /\ v8[p][1] = f
    BY <1>7 DEF File!Cached, File!Place
  <2> HIDE DEF p
  <2>2. v8[p] \in File!Entries /\ v8[p][2] \in 1 .. v7 /\ v8[p][3] = File!What(f)
    BY <2>1, CacheFacts
  <2> DEFINE rest == SubSeq(v8, 1, p - 1) \o SubSeq(v8, p + 1, Len(v8))
  <2>3. v8' = Append(rest, v8[p]) /\ v9' = v9
    BY <1>7 DEF File!GetOrCreate, File!Others, File!Read, File!RemoveAt, File!Mine, p
  <2>4. /\ rest \in Seq(File!Entries)
        /\ \A i \in DOMAIN rest : \E j \in DOMAIN v8 : rest[i] = v8[j]
    <3>1. /\ rest \in Seq(File!Entries) /\ DOMAIN rest = 1 .. (Len(v8) - 1)
          /\ \A i \in 1 .. (Len(v8) - 1) : rest[i] = IF i < p THEN v8[i] ELSE v8[i + 1]
      BY <1>1, <2>1, Removed
    <3> HIDE DEF rest
    <3>2. \A i \in 1 .. (Len(v8) - 1) : i \in DOMAIN v8 /\ i + 1 \in DOMAIN v8
      BY <1>1
    <3> QED BY <3>1, <3>2
  <2> HIDE DEF rest
  <2>5. v8' \in Seq(File!Entries) /\ \A i \in DOMAIN v8' : \E j \in DOMAIN v8 : v8'[i] = v8[j]
    BY <2>1, <2>2, <2>3, <2>4
  <2> DEFINE full == [file |-> f, step |-> "done", url |-> v8[p][2]]
  <2>6. \/ /\ v4' = [v4 EXCEPT ![a] = full] /\ v5' = [v5 EXCEPT ![a] = <<v8[p][2], File!What(f)>>]
        \/ v4' = [v4 EXCEPT ![a] = File!Away] /\ v5' = v5
    <3>1. CASE v4[a].step = "plain"
      <4>1. /\ v4' = [[v4 EXCEPT ![a].step = "done"] EXCEPT ![a].url = v8[p][2]]
            /\ v5' = [v5 EXCEPT ![a] = <<v8[p][2], v8[p][3]>>]
        BY <1>7, <3>1 DEF File!GetOrCreate, File!Runs, File!Step, File!Mine, File!Read, p
      <4>2. v4[a] = [file |-> f, step |-> v4[a].step, url |-> v4[a].url]
        BY <1>1 DEF File!Views
      <4>3. [v4[a] EXCEPT !.step = "done"] = [file |-> f, step |-> "done", url |-> v4[a].url]
        BY <4>2
      <4>4. [v4 EXCEPT ![a].step = "done"] = [v4 EXCEPT ![a] = [v4[a] EXCEPT !.step = "done"]]
        BY <1>1
      <4>5. [v4 EXCEPT ![a].step = "done"][a] = [file |-> f, step |-> "done", url |-> v4[a].url]
        BY <1>1, <4>3, <4>4
      <4>6. [[v4 EXCEPT ![a].step = "done"][a] EXCEPT !.url = v8[p][2]] = full
        BY <4>5
      <4>7. [[v4 EXCEPT ![a].step = "done"] EXCEPT ![a].url = v8[p][2]] = [v4 EXCEPT ![a] = full]
        BY <1>1, <4>4, <4>6
      <4> QED BY <2>2, <4>1, <4>7
    <3>2. CASE v4[a].step # "plain"
      BY <1>7, <3>2 DEF File!GetOrCreate, File!Runs, File!Mine
    <3> QED BY <3>1, <3>2
  <2>7. full \in File!Views /\ File!Away \in File!Views
    <3>1. f \in Pair \cup {None}
      BY <1>1 DEF File!Views
    <3>2. v8[p][2] \in Nat \cup {None}
      BY <1>5, <2>2
    <3> QED BY <3>1, <3>2 DEF File!Views, File!Away
  <2>8. /\ v4' \in [Bubbles -> File!Views] /\ v5' = [b \in Bubbles |-> v5'[b]]
        /\ \A b \in Bubbles \ {a} : v4'[b] = v4[b] /\ v5'[b] = v5[b]
        /\ \/ v4'[a] = full /\ v5'[a] = <<v8[p][2], File!What(f)>>
           \/ v4'[a] = File!Away /\ v5'[a] = v5[a]
    BY <1>1, <2>6, <2>7
  <2>9. /\ v4'[a].file \in {f, None} /\ v4'[a].url \in {v8[p][2], None}
        /\ v4'[a].step # "done" => v5'[a] = v5[a]
        /\ v4'[a].step # "away" => v4'[a].file = f
    BY <2>8 DEF File!Away
  <2> HIDE DEF full
  <2>10. ASSUME NEW b \in Bubbles PROVE File!HasOwnUrl(b)'
    <3>1. CASE b = a
      <4>1. v5'[a] = <<v8[p][2], File!What(f)>> \/ v5'[a] = File!NoBlob
        BY <1>4, <2>8
      <4>2. None \notin v3
        BY NoneAssumption DEF File!AttachmentInv, File!Sent
      <4>3. v4'[a].file \in v3' => v5'[a] = File!NoBlob \/ v5'[a][2] = "cipher"
        <5>1. f \in v3 => File!What(f) = "cipher"
          BY CacheFacts
        <5> HIDE DEF f, p
        <5> QED BY <1>5, <2>9, <4>1, <4>2, <5>1
      <4> QED BY <3>1, <4>3 DEF File!HasOwnUrl, File!NoBlob
    <3>2. CASE b # a
      <4>1. File!HasOwnUrl(b)
        BY DEF File!AttachmentInv
      <4>2. ASSUME NEW u \in 1 .. v7, \A i \in DOMAIN v8 : v8[i][2] # u
            PROVE  v4'[a].url # u /\ \A i \in DOMAIN v8' : v8'[i][2] # u
        <5>1. None # u
          BY NoneAssumption
        <5> QED BY <2>1, <2>5, <2>9, <4>2, <5>1
      <4> QED BY <1>5, <1>6, <2>8, <3>2, <4>1, <4>2, OwnStays
    <3> QED BY <3>1, <3>2
  <2>11. \A b \in Bubbles : /\ v4'[b].file \in File!Sent \cup {None} /\ v4'[b].url \in 1 .. v7 \cup {None}
                            /\ v4'[b].step # "done" => v5'[b] = File!NoBlob
                            /\ v4'[b].step # "away" => v4'[b].file # None
    <3>1. f # None
      BY <1>4, NoneAssumption DEF File!Sent
    <3> QED BY <1>4, <2>2, <2>8, <2>9, <3>1 DEF File!AttachmentInv
  <2> QED BY <1>1, <1>2, <1>3, <2>3, <2>5, <2>8, <2>10, <2>11 DEF File!AttachmentInv, File!NoBlob
<1>8. CASE ~File!Cached(f)
  <2> DEFINE step == IF v4[a].step = "plain" THEN "fetch" ELSE "left fetch"
  <2> DEFINE view == [v4[a] EXCEPT !.step = step]
  <2>1. v8' = v8 /\ v5' = v5 /\ v9' = v9 \cup {f} /\ v4' = [v4 EXCEPT ![a] = view]
    BY <1>8 DEF File!GetOrCreate, File!Runs, File!Step, File!Mine
  <2>2. view \in File!Views /\ view.file = f /\ view.url = v4[a].url /\ view.step # "done"
    BY <1>1 DEF File!Views
  <2> HIDE DEF view
  <2>3. v4'[a] = view /\ v4' \in [Bubbles -> File!Views] /\ \A b \in Bubbles \ {a} : v4'[b] = v4[b]
    BY <1>1, <2>1, <2>2
  <2>4. ASSUME NEW b \in Bubbles PROVE File!HasOwnUrl(b)'
    <3>1. CASE b = a
      BY <1>4, <2>1, <3>1 DEF File!HasOwnUrl, File!NoBlob
    <3>2. CASE b # a
      <4>1. File!HasOwnUrl(b)
        BY DEF File!AttachmentInv
      <4>2. v4'[a].url = v4[a].url
        BY <2>2, <2>3
      <4> QED BY <1>5, <1>6, <2>1, <2>3, <3>2, <4>1, <4>2, OwnStays
    <3> QED BY <3>1, <3>2
  <2>5. f # None
    BY <1>4, NoneAssumption DEF File!Sent
  <2> QED BY <1>1, <1>2, <1>3, <1>4, <2>1, <2>2, <2>3, <2>4, <2>5 DEF File!AttachmentInv, File!NoBlob
<1> QED BY <1>7, <1>8

LEMMA FetchFailsKeeps ==
  ASSUME File!AttachmentInv, NEW f \in Pair, File!FetchFails(f)
  PROVE  File!AttachmentInv'
<1>1. v7 \in Nat /\ v4 \in [Bubbles -> File!Views]
  BY DEF File!AttachmentInv
<1>2. UNCHANGED <<v1, v2, v3, v5, v6, v7, v8>> /\ v9' \subseteq v9
  BY DEF File!FetchFails, File!sendVars
<1>3. File!Sent' = File!Sent /\ File!Entries' = File!Entries
  BY <1>2, SameUrls
<1>4. ASSUME NEW b \in Bubbles
      PROVE  \/ v4'[b] = v4[b]
             \/ /\ v4[b].step \in {"fetch", "left fetch"}
                /\ v4'[b] \in {[v4[b] EXCEPT !.step = "done"], File!Away}
  BY DEF File!FetchFails, File!Waits, File!Runs
<1>5. v4' = [b \in Bubbles |-> v4'[b]]
  BY DEF File!FetchFails
<1>6. ASSUME NEW b \in Bubbles
      PROVE  /\ v4'[b] \in File!Views /\ v4'[b].file \in {v4[b].file, None}
             /\ v4'[b].url \in {v4[b].url, None}
             /\ v4'[b].step # "away" => v4'[b].file # None
             /\ v4'[b] = v4[b] \/ v5[b] = File!NoBlob
  <2>1. v4[b] \in File!Views /\ File!Away \in File!Views
        /\ File!Away.file = None /\ File!Away.url = None /\ File!Away.step = "away"
    BY <1>1 DEF File!Views, File!Away
  <2>2. /\ [v4[b] EXCEPT !.step = "done"] \in File!Views
        /\ [v4[b] EXCEPT !.step = "done"].file = v4[b].file
        /\ [v4[b] EXCEPT !.step = "done"].url = v4[b].url
    BY <2>1 DEF File!Views
  <2>3. v4[b].step \in {"fetch", "left fetch"} => v5[b] = File!NoBlob /\ v4[b].file # None
    BY DEF File!AttachmentInv
  <2>4. v4[b].step # "away" => v4[b].file # None
    BY DEF File!AttachmentInv
  <2> QED BY <1>4, <2>1, <2>2, <2>3, <2>4
<1>7. ASSUME NEW b \in Bubbles PROVE File!HasOwnUrl(b)'
  <2>1. CASE v5[b] = File!NoBlob
    BY <1>2, <2>1 DEF File!HasOwnUrl, File!NoBlob
  <2>2. CASE v4'[b] = v4[b]
    <3>1. File!HasOwnUrl(b)
      BY DEF File!AttachmentInv
    <3>2. \A o \in Bubbles, u \in 1 .. v7 : v4[o].url # u => v4'[o].url # u
      BY <1>6, NoneAssumption
    <3> QED BY <1>1, <1>2, <2>2, <3>1, <3>2, OwnStays
  <2> QED BY <1>6, <2>1, <2>2
<1>8. v4' \in [Bubbles -> File!Views]
  BY <1>5, <1>6
<1>9. \A b \in Bubbles : /\ v4'[b].file \in File!Sent \cup {None} /\ v4'[b].url \in 1 .. v7 \cup {None}
                         /\ v4'[b].step # "done" => v5[b] = File!NoBlob
  BY <1>6 DEF File!AttachmentInv
<1> QED BY <1>1, <1>2, <1>3, <1>6, <1>7, <1>8, <1>9 DEF File!AttachmentInv, File!NoBlob

LEMMA FetchedKeeps ==
  ASSUME File!AttachmentInv, NEW f \in Pair, File!Fetched(f)
  PROVE  File!AttachmentInv'
<1> DEFINE new == <<f, v7', File!What(f)>>
           kept == Append(v8, new)
           full == [file |-> f, step |-> "done", url |-> v7']
<1>1. v7 \in Nat /\ v8 \in Seq(File!Entries) /\ v9 \subseteq File!Sent
  BY DEF File!AttachmentInv
<1>2. UNCHANGED <<v1, v2, v3>> /\ v7' = v7 + 1 /\ v9' \subseteq v9 /\ f \in File!Sent
  BY <1>1 DEF File!Fetched, File!sendVars
<1>3. /\ File!Sent' = File!Sent /\ File!Entries \subseteq File!Entries'
      /\ v7' \in Nat /\ v7 <= v7' /\ 1 .. v7 \subseteq 1 .. v7'
      /\ v7' \in 1 .. v7' /\ v7' \notin 1 .. v7 /\ File!What(f)' = File!What(f)
  BY <1>1, <1>2, MoreUrls
<1>4. new \in File!Entries'
  BY <1>2, <1>3 DEF File!Entries
<1>5. kept \in Seq(File!Entries')
  <2>1. v8 \in Seq(File!Entries')
    BY <1>1, <1>3, SeqGrows
  <2> HIDE DEF new
  <2> QED BY <1>4, <2>1
<1>6. \A i \in DOMAIN kept : kept[i] = new \/ \E j \in DOMAIN v8 : kept[i] = v8[j]
  <2> HIDE DEF new
  <2> QED BY <1>1
<1>7. \/ v8' = Tail(kept) /\ kept # <<>> /\ v6' = (v6 \cup {v7'}) \ {kept[1][2]}
      \/ v8' = kept /\ v6' = v6 \cup {v7'}
  <2>1. kept # <<>>
    <3> HIDE DEF new
    <3> QED BY <1>1
  <2> QED BY <1>2, <2>1 DEF File!Fetched
<1> HIDE DEF kept, new
<1>8. /\ v8' \in Seq(File!Entries')
      /\ \A i \in DOMAIN v8' : \E j \in DOMAIN kept : v8'[i] = kept[j]
  <2>1. CASE v8' = Tail(kept) /\ kept # <<>>
    BY <1>5, <2>1
  <2>2. CASE v8' = kept
    BY <1>5, <2>2
  <2> QED BY <1>7, <2>1, <2>2
<1>9. new[2] = v7'
  BY DEF new
<1>10. ASSUME NEW u \in 1 .. v7, u \in v6, \A i \in DOMAIN v8 : v8[i][2] # u
       PROVE  u \in v6' /\ \A i \in DOMAIN v8' : v8'[i][2] # u
  <2>1. \A i \in DOMAIN kept : kept[i][2] # u
    BY <1>3, <1>6, <1>9, <1>10
  <2>2. kept # <<>> => kept[1][2] # u
    BY <1>5, <2>1
  <2> QED BY <1>7, <1>8, <1>10, <2>1, <2>2
<1>11. ASSUME NEW b \in Bubbles
       PROVE  \/ v4'[b] = v4[b] /\ v5'[b] = v5[b]
              \/ v4'[b] = full /\ v5'[b] = <<v7', File!What(f)>>
              \/ v4'[b] = File!Away /\ v5'[b] = v5[b] /\ v4[b].step = "left fetch"
  BY <1>2 DEF File!Fetched, File!Waits, File!Runs
<1>12. v4' = [b \in Bubbles |-> v4'[b]] /\ v5' = [b \in Bubbles |-> v5'[b]]
  BY DEF File!Fetched
<1>13. /\ full \in File!Views /\ File!Away \in File!Views /\ f # None
       /\ full.file = f /\ full.step = "done" /\ full.url = v7'
       /\ File!Away.file = None /\ File!Away.step = "away" /\ File!Away.url = None
  BY <1>3, NoneAssumption DEF File!Views, File!Away
<1> HIDE DEF full
<1>14. ASSUME NEW b \in Bubbles
       PROVE  /\ v4'[b] \in File!Views /\ v4'[b].file \in File!Sent \cup {None}
              /\ v4'[b].url \in {v4[b].url, v7', None}
              /\ v4'[b].step # "done" => v5'[b] = File!NoBlob
              /\ v4'[b].step # "away" => v4'[b].file # None
  BY <1>2, <1>11, <1>13, ViewFacts
<1>15. ASSUME NEW b \in Bubbles PROVE File!HasOwnUrl(b)'
  <2>1. CASE v4'[b] = v4[b] /\ v5'[b] = v5[b]
    <3>1. File!HasOwnUrl(b)
      BY ViewFacts
    <3>2. \A o \in Bubbles, u \in 1 .. v7 : v4[o].url # u => v4'[o].url # u
      BY <1>3, <1>14, NoneAssumption
    <3> QED BY <1>1, <1>2, <1>3, <1>10, <2>1, <3>1, <3>2, OwnStays
  <2>2. CASE v4'[b] = full /\ v5'[b] = <<v7', File!What(f)>>
    <3>1. f \in v3 => File!What(f) = "cipher"
      BY CacheFacts
    <3>2. f \in v3 => v5'[b][2] = "cipher"
      BY <2>2, <3>1
    <3> QED BY <1>2, <1>13, <2>2, <3>2 DEF File!HasOwnUrl
  <2>3. CASE v4'[b] = File!Away /\ v5'[b] = v5[b] /\ v4[b].step = "left fetch"
    <3>1. v5'[b] = File!NoBlob
      BY <2>3, ViewFacts
    <3> QED BY <3>1 DEF File!HasOwnUrl, File!NoBlob
  <2> QED BY <1>11, <2>1, <2>2, <2>3
<1>16. \A b \in Bubbles : v4'[b].url \in 1 .. v7' \cup {None}
  BY <1>3, <1>14, ViewFacts
<1>17. v4' \in [Bubbles -> File!Views]
  BY <1>12, <1>14
<1> QED BY <1>1, <1>2, <1>3, <1>8, <1>12, <1>14, <1>15, <1>16, <1>17
        DEF File!AttachmentInv, File!NoBlob

LEMMA UnmountKeeps ==
  ASSUME File!AttachmentInv, NEW a \in Bubbles, File!Unmount(a)
  PROVE  File!AttachmentInv'
<1> DEFINE Views == {[v4[a] EXCEPT !.step = s] : s \in {"left open", "left plain", "left fetch"}}
                       \cup {File!Away}
<1>1. v7 \in Nat /\ v4 \in [Bubbles -> File!Views] /\ v5 = [b \in Bubbles |-> v5[b]]
  BY DEF File!AttachmentInv
<1>2. /\ UNCHANGED <<v1, v2, v3, v7, v8, v9>> /\ v5' = [v5 EXCEPT ![a] = File!NoBlob]
      /\ v6' = v6 \ {v4[a].url} /\ v4[a].step # "away"
  BY DEF File!Unmount, File!sendVars
<1>3. \E view : view \in Views /\ v4' = [v4 EXCEPT ![a] = view]
  BY DEF File!Unmount, File!Runs
<1>4. PICK view : view \in Views /\ v4' = [v4 EXCEPT ![a] = view]
  BY <1>3
<1>5. /\ v4[a] \in File!Views /\ v4[a].file \in File!Sent /\ v4[a].file # None
      /\ v4[a].url \in 1 .. v7 \cup {None}
  BY <1>2, ViewFacts
<1>6. /\ view \in File!Views /\ view.file \in {v4[a].file, None} /\ view.url \in {v4[a].url, None}
      /\ view.step # "done" /\ (view.step # "away" => view.file # None)
  <2>1. CASE \E s \in {"left open", "left plain", "left fetch"} : view = [v4[a] EXCEPT !.step = s]
    BY <1>5, <2>1 DEF File!Views
  <2>2. CASE view = File!Away
    BY <2>2 DEF File!Views, File!Away
  <2> QED BY <1>4, <2>1, <2>2
<1> HIDE DEF Views
<1>7. /\ v4' \in [Bubbles -> File!Views] /\ v5' = [b \in Bubbles |-> v5'[b]]
      /\ v4'[a] = view /\ v5'[a] = File!NoBlob
      /\ \A b \in Bubbles \ {a} : v4'[b] = v4[b] /\ v5'[b] = v5[b]
  BY <1>1, <1>2, <1>4, <1>6
<1>8. File!Sent' = File!Sent /\ File!Entries' = File!Entries
  BY <1>2, SameUrls
<1>9. v7 \in Nat /\ v7' \in Nat /\ v7 <= v7'
  BY <1>1, <1>2
<1>10. ASSUME NEW b \in Bubbles PROVE File!HasOwnUrl(b)'
  <2>1. CASE b = a
    BY <1>7, <2>1 DEF File!HasOwnUrl, File!NoBlob
  <2>2. CASE b # a
    <3>1. File!HasOwnUrl(b)
      BY ViewFacts
    <3>2. \A u \in 1 .. v7 : v4[a].url # u => v4'[a].url # u
      BY <1>6, <1>7, NoneAssumption
    <3>3. \A u \in 1 .. v7 : v4[a].url # u /\ u \in v6 => u \in v6'
      BY DEF File!Unmount
    <3> QED BY <1>2, <1>7, <1>9, <2>2, <3>1, <3>2, <3>3, OwnStays
  <2> QED BY <2>1, <2>2
<1>11. ASSUME NEW b \in Bubbles
       PROVE  /\ v4'[b].file \in File!Sent \cup {None} /\ v4'[b].url \in 1 .. v7 \cup {None}
              /\ v4'[b].step # "done" => v5'[b] = File!NoBlob
              /\ v4'[b].step # "away" => v4'[b].file # None
  BY <1>5, <1>6, <1>7, ViewFacts
<1> QED BY <1>1, <1>2, <1>7, <1>8, <1>10, <1>11 DEF File!AttachmentInv, File!NoBlob

LEMMA FileNext == ASSUME File!AttachmentInv, File!Next \/ UNCHANGED slots PROVE File!AttachmentInv'
<1>1. CASE UNCHANGED slots
  BY <1>1, FileGoesOut DEF slots, File!AttachmentInv, File!Sent
<1>2. CASE File!Next
  BY <1>2, OutNext, FetchedKeeps, FetchFailsKeeps, MountKeeps, OpenedKeeps, OpenFailsKeeps,
     CreateKeeps, UnmountKeeps DEF File!Next
<1> QED BY <1>1, <1>2

-----------------------------------------------------------------------------
(* The outbox.                                                              *)

LEMMA Least ==
  ASSUME NEW T, T \subseteq Nat, T # {} PROVE \E x \in T : \A y \in T : x <= y
<1>1. PICK x \in T : \A y \in T : ~(<<y, x>> \in OpToRel(<, Nat))
  BY NatLessThanWellFounded, WFMin, Zenon
<1>2. \A y \in T : ~(y < x)
  BY <1>1 DEF OpToRel
<1> QED BY <1>2

(* The ids of a queue have a greatest one, so that the next is a new one.   *)
LEMMA NewId ==
  ASSUME NEW q \in Seq(Queue!Entry)
  PROVE  Queue!NextId(q) \in Nat /\ \A i \in DOMAIN q : q[i].id # Queue!NextId(q)
<1>1. CASE q = <<>>
  BY <1>1 DEF Queue!NextId
<1>2. CASE q # <<>>
  <2>1. DOMAIN q = 1 .. Len(q) /\ Len(q) \in Nat /\ Len(q) # 0
    BY <1>2
  <2>2. \A i \in DOMAIN q : q[i].id \in Nat
    <3> TAKE i \in DOMAIN q
    <3>1. q[i] \in Queue!Entry
      BY <2>1
    <3> QED BY <3>1 DEF Queue!Entry
  <2>3. \A k \in 0 .. Len(q) : \E n \in Nat : \A i \in 1 .. k : q[i].id <= n
    <3> DEFINE Bounded(k) == \E n \in Nat : \A i \in 1 .. k : q[i].id <= n
               Rest == {k \in 0 .. Len(q) : ~Bounded(k)}
    <3> HIDE DEF Bounded
    <3> SUFFICES ASSUME Rest # {} PROVE FALSE
      BY DEF Bounded
    <3>1. Rest \subseteq Nat
      BY <2>1
    <3>2. PICK k \in Rest : \A o \in Rest : k <= o
      BY <3>1, Least, Zenon
    <3>3. k \in 0 .. Len(q) /\ ~Bounded(k) /\ \A o \in 0 .. Len(q) : ~Bounded(o) => k <= o
      BY <3>2
    <3> HIDE DEF Rest
    <3>4. k \in Nat /\ k <= Len(q)
      BY <2>1, <3>3
    <3>5. Bounded(0)
      <4>1. 0 \in Nat /\ \A i \in 1 .. 0 : q[i].id <= 0
        OBVIOUS
      <4> QED BY <4>1 DEF Bounded
    <3>6. k # 0
      BY <3>3, <3>5
    <3>7. k - 1 \in 0 .. Len(q) /\ ~(k <= k - 1)
      BY <2>1, <3>4, <3>6
    <3>8. Bounded(k - 1)
      BY <3>3, <3>7
    <3>9. PICK n \in Nat : \A i \in 1 .. (k - 1) : q[i].id <= n
      BY <3>8 DEF Bounded
    <3>10. k \in DOMAIN q
      BY <2>1, <3>4, <3>6
    <3>11. q[k].id \in Nat
      BY <2>2, <3>10
    <3>12. PICK m \in Nat : n <= m /\ q[k].id <= m
      <4> DEFINE kth == q[k].id
      <4>1. kth \in Nat
        BY <3>11
      <4> HIDE DEF kth
      <4>2. n <= n + kth /\ kth <= n + kth /\ n + kth \in Nat
        BY <4>1
      <4> QED BY <4>2 DEF kth
    <3>13. \A i \in 1 .. k : q[i].id <= m
      <4> TAKE i \in 1 .. k
      <4>1. CASE i = k
        BY <3>12, <4>1
      <4>2. CASE i # k
        <5>1. i \in 1 .. (k - 1) /\ i \in DOMAIN q
          BY <2>1, <3>4, <4>2
        <5>2. q[i].id <= n /\ q[i].id \in Nat
          BY <2>2, <3>9, <5>1
        <5> QED BY <3>12, <5>2
      <4> QED BY <4>1, <4>2
    <3> QED BY <3>3, <3>13 DEF Bounded
  <2>4. PICK b \in Nat : \A i \in DOMAIN q : q[i].id <= b
    <3>1. Len(q) \in 0 .. Len(q)
      BY <2>1
    <3> QED BY <2>1, <2>3, <3>1
  <2>5. \E n \in Nat : (\A i \in DOMAIN q : q[i].id <= n)
                 /\ \A m \in Nat : (\A i \in DOMAIN q : q[i].id <= m) => n <= m
    <3> DEFINE Above(n) == \A i \in DOMAIN q : q[i].id <= n
               Bounds == {n \in Nat : Above(n)}
    <3> HIDE DEF Above
    <3>1. Above(b)
      BY <2>4 DEF Above
    <3>2. b \in Bounds /\ Bounds \subseteq Nat
      BY <3>1
    <3>3. PICK n \in Bounds : \A m \in Bounds : n <= m
      BY <3>2, Least, Zenon
    <3>4. n \in Nat /\ Above(n) /\ \A m \in Nat : Above(m) => n <= m
      BY <3>3
    <3> QED BY <3>4 DEF Above
  <2>6. PICK n \in Nat : (\A i \in DOMAIN q : q[i].id <= n)
                 /\ \A m \in Nat : (\A i \in DOMAIN q : q[i].id <= m) => n <= m
    BY <2>5
  <2>7. \E i \in DOMAIN q : q[i].id = n
    <3> SUFFICES ASSUME \A i \in DOMAIN q : q[i].id # n PROVE FALSE
      OBVIOUS
    <3>1. 1 \in DOMAIN q
      BY <2>1
    <3>2. \A i \in DOMAIN q : q[i].id <= n - 1
      BY <2>2, <2>6
    <3>3. q[1].id \in Nat /\ q[1].id <= n - 1
      BY <2>2, <3>1, <3>2
    <3>4. n - 1 \in Nat /\ ~(n <= n - 1)
      <4> DEFINE first == q[1].id
      <4>1. first \in Nat /\ first <= n - 1
        BY <3>3
      <4> HIDE DEF first
      <4> QED BY <4>1
    <3> QED BY <2>6, <3>2, <3>4
  <2>8. n \in Queue!Ids(q) /\ \A m \in Queue!Ids(q) : m <= n
    BY <2>6, <2>7 DEF Queue!Ids
  <2> DEFINE most == CHOOSE m \in Queue!Ids(q) : \A o \in Queue!Ids(q) : o <= m
  <2>9. most \in Queue!Ids(q) /\ \A o \in Queue!Ids(q) : o <= most
    BY <2>8
  <2>10. Queue!NextId(q) = 1 + most
    BY <1>2 DEF Queue!NextId
  <2> HIDE DEF most
  <2>11. \A i \in DOMAIN q : q[i].id \in Queue!Ids(q)
    BY DEF Queue!Ids
  <2>12. most \in Nat
    BY <2>2, <2>9 DEF Queue!Ids
  <2>13. \A i \in DOMAIN q : q[i].id # 1 + most
    <3> SUFFICES ASSUME NEW i \in DOMAIN q, q[i].id = 1 + most PROVE FALSE
      OBVIOUS
    <3>1. 1 + most <= most
      BY <2>9, <2>11
    <3> QED BY <2>12, <3>1
  <2> QED BY <2>10, <2>12, <2>13
<1> QED BY <1>1, <1>2

-----------------------------------------------------------------------------
LEMMA QueueInit == ASSUME Queue!Init PROVE Queue!OutboxInv
<1>1. v1 = <<>> /\ v3 = {} /\ v5 = Queue!NoSend /\ v6 = [f \in Flushes |-> Queue!Idle] /\ v9 = FALSE
  BY DEF Queue!Init
<1>2. \A f \in Flushes : Queue!FlushOK(f)
  BY <1>1 DEF Queue!FlushOK, Queue!Idle, Queue!Distinct, Queue!Changing
<1>3. Queue!SendOK
  BY <1>1 DEF Queue!SendOK, Queue!NoSend
<1>4. \A f \in Flushes : v6[f].at = "none"
  BY <1>1 DEF Queue!Idle
<1>5. v1 \in Seq(Queue!Entry) /\ Queue!Distinct(v1)
  BY <1>1 DEF Queue!Distinct
<1>6. Queue!QueueOK
  BY <1>2, <1>3, <1>4, <1>5 DEF Queue!QueueOK
<1>7. v6 = [f \in Flushes |-> v6[f]]
  BY <1>1
<1> QED BY <1>1, <1>6, <1>7 DEF Queue!OutboxInv, Queue!PromisedIsKept

(* An entry is taken out of a queue, or counted: the others stay as they    *)
(* are.                                                                     *)
LEMMA WithoutOne ==
  ASSUME NEW q \in Seq(Queue!Entry), Queue!Distinct(q), NEW id
  PROVE  /\ Queue!Without(q, id) \in Seq(Queue!Entry) /\ Queue!Distinct(Queue!Without(q, id))
         /\ \A i \in DOMAIN q : q[i].id # id =>
              \E k \in DOMAIN Queue!Without(q, id) : Queue!Without(q, id)[k] = q[i]
<1>1. CASE id \notin Queue!Ids(q)
  BY <1>1 DEF Queue!Without
<1>2. CASE id \in Queue!Ids(q)
  <2>1. PICK j \in DOMAIN q : q[j].id = id /\ j = CHOOSE i \in DOMAIN q : q[i].id = id
    BY <1>2 DEF Queue!Ids
  <2> DEFINE rest == SubSeq(q, 1, j - 1) \o SubSeq(q, j + 1, Len(q))
  <2>2. Queue!Without(q, id) = rest
    BY <1>2, <2>1 DEF Queue!Without, Queue!RemoveAt
  <2>3. /\ rest \in Seq(Queue!Entry) /\ DOMAIN rest = 1 .. (Len(q) - 1)
        /\ \A i \in 1 .. (Len(q) - 1) : rest[i] = IF i < j THEN q[i] ELSE q[i + 1]
    BY Removed
  <2> HIDE DEF rest
  <2>4. DOMAIN q = 1 .. Len(q) /\ Len(q) \in Nat /\ j \in 1 .. Len(q)
    OBVIOUS
  <2>5. Queue!Distinct(rest)
    <3> SUFFICES ASSUME NEW i \in DOMAIN rest, NEW k \in DOMAIN rest, rest[i].id = rest[k].id
                 PROVE  i = k
      BY DEF Queue!Distinct
    <3> DEFINE at(x) == IF x < j THEN x ELSE x + 1
    <3>1. at(i) \in DOMAIN q /\ at(k) \in DOMAIN q /\ rest[i] = q[at(i)] /\ rest[k] = q[at(k)]
      BY <2>3, <2>4
    <3>2. at(i) = at(k)
      BY <3>1 DEF Queue!Distinct
    <3> QED BY <2>3, <2>4, <3>2
  <2>6. ASSUME NEW i \in DOMAIN q, q[i].id # id PROVE \E k \in DOMAIN rest : rest[k] = q[i]
    <3>1. i # j
      BY <2>1, <2>6
    <3>2. CASE i < j
      BY <2>3, <2>4, <3>2
    <3>3. CASE ~(i < j)
      <4>1. i - 1 \in DOMAIN rest /\ ~(i - 1 < j) /\ i - 1 + 1 = i
        BY <2>3, <2>4, <3>1, <3>3
      <4>2. rest[i - 1] = q[i]
        BY <2>3, <4>1
      <4> QED BY <4>1, <4>2
    <3> QED BY <3>2, <3>3
  <2> QED BY <2>2, <2>3, <2>5, <2>6
<1> QED BY <1>1, <1>2

LEMMA Counted ==
  ASSUME NEW e \in Queue!Entry, NEW c, c = [e EXCEPT !.attempts = @ + 1]
  PROVE  c \in Queue!Entry /\ c.id = e.id /\ c.text = e.text
BY DEF Queue!Entry

LEMMA Rest ==
  ASSUME NEW q \in Seq(Queue!Entry), q # <<>>, Queue!Distinct(q)
  PROVE  /\ Head(q) = q[1] /\ 1 \in DOMAIN q /\ Tail(q) \in Seq(Queue!Entry) /\ Queue!Distinct(Tail(q))
         /\ \A i \in DOMAIN Tail(q) :
              i + 1 \in DOMAIN q /\ Tail(q)[i] = q[i + 1] /\ Tail(q)[i].id # q[1].id
<1>1. DOMAIN q = 1 .. Len(q) /\ Len(q) \in Nat /\ Len(q) # 0 /\ Head(q) = q[1]
  OBVIOUS
<1>2. /\ Tail(q) \in Seq(Queue!Entry) /\ DOMAIN Tail(q) = 1 .. (Len(q) - 1)
      /\ \A i \in 1 .. (Len(q) - 1) : Tail(q)[i] = q[i + 1]
  BY <1>1
<1>3. \A i \in DOMAIN Tail(q) : i + 1 \in DOMAIN q /\ i + 1 # 1
  BY <1>1, <1>2
<1>4. 1 \in DOMAIN q
  BY <1>1
<1>5. ASSUME NEW i \in DOMAIN Tail(q), NEW k \in DOMAIN Tail(q), Tail(q)[i].id = Tail(q)[k].id
      PROVE  i = k
  <2>1. q[i + 1].id = q[k + 1].id /\ i + 1 \in DOMAIN q /\ k + 1 \in DOMAIN q
    BY <1>2, <1>3, <1>5
  <2>2. i + 1 = k + 1
    BY <2>1 DEF Queue!Distinct
  <2> QED BY <1>2, <2>2
<1>6. ASSUME NEW i \in DOMAIN Tail(q) PROVE Tail(q)[i].id # q[1].id
  <2>1. Tail(q)[i] = q[i + 1] /\ i + 1 \in DOMAIN q /\ i + 1 # 1
    BY <1>2, <1>3
  <2> QED BY <1>4, <2>1 DEF Queue!Distinct
<1>7. Queue!Distinct(Tail(q))
  BY <1>5 DEF Queue!Distinct
<1> QED BY <1>1, <1>2, <1>3, <1>4, <1>6, <1>7

-----------------------------------------------------------------------------
(* A flush that did nothing stays right, and so does one that is not there. *)
LEMMA FlushStays ==
  ASSUME NEW f \in Flushes, Queue!FlushOK(f), v6'[f] = v6[f], v1' = v1,
         v2 \subseteq v2', v4 \subseteq v4'
  PROVE  Queue!FlushOK(f)'
<1>1. Queue!Distinct(v6'[f].items) = Queue!Distinct(v6[f].items)
  BY DEF Queue!Distinct
<1> QED BY <1>1 DEF Queue!FlushOK, Queue!Stocked, Queue!Changing, Queue!Distinct

LEMMA FlushRests ==
  ASSUME NEW f \in Flushes, v6'[f] = Queue!Idle
  PROVE  Queue!FlushOK(f)' /\ ~Queue!Changing(f)' /\ v6'[f].at = "none"
BY DEF Queue!FlushOK, Queue!Idle, Queue!Changing, Queue!Distinct

LEMMA OnlyOne ==
  ASSUME Queue!QueueOK, NEW f \in Flushes, v6[f].at # "none", NEW g \in Flushes, g # f
  PROVE  v6[g] = Queue!Idle
<1>1. v6[g].at = "none"
  BY DEF Queue!QueueOK
<1>2. Queue!FlushOK(g)
  BY DEF Queue!QueueOK
<1> QED BY <1>1, <1>2 DEF Queue!FlushOK

(* Steps that leave the queue and the flushes alone.                        *)
LEMMA SendSteps ==
  ASSUME Queue!QueueOK, Queue!PromisedIsKept, ~v9, UNCHANGED <<v1, v4, v6>>, Queue!SendOK',
         v2 \subseteq v2', \A t \in v3' : t \in v3 \cup v2'
  PROVE  (Queue!QueueOK /\ Queue!PromisedIsKept)'
<1>1. \A f \in Flushes : Queue!FlushOK(f)'
  BY FlushStays DEF Queue!QueueOK
<1>2. Queue!Distinct(v1)' /\ (v1 \in Seq(Queue!Entry))'
  BY DEF Queue!QueueOK, Queue!Distinct
<1>3. \A f, g \in Flushes : v6'[f].at # "none" /\ v6'[g].at # "none" => f = g
  BY DEF Queue!QueueOK
<1>4. Queue!PromisedIsKept'
  <2>1. Queue!Queued' = Queue!Queued
    BY DEF Queue!Queued
  <2> QED BY <2>1 DEF Queue!PromisedIsKept, Queue!Kept
<1> QED BY <1>1, <1>2, <1>3, <1>4 DEF Queue!QueueOK

LEMMA SendKeeps ==
  ASSUME Queue!QueueOK, Queue!PromisedIsKept, ~v9, ~v9',
         \/ \E t \in Pair : Queue!Post(t)
         \/ Queue!Posted \/ Queue!QueueLoad \/ Queue!DeleteChat
  PROVE  (Queue!QueueOK /\ Queue!PromisedIsKept)'
<1>1. Queue!SendOK /\ v1 \in Seq(Queue!Entry)
  BY DEF Queue!QueueOK
<1>2. CASE \E t \in Pair : Queue!Post(t)
  <2>1. PICK t \in Pair : Queue!Post(t)
    BY <1>2
  <2>2. Queue!SendOK'
    BY <2>1 DEF Queue!Post, Queue!SendOK
  <2> QED BY <2>1, <2>2, SendSteps DEF Queue!Post
<1>3. CASE Queue!Posted
  <2>1. v5 \in [at : {"post", "load"}, text : Pair] /\ v5.at = "post"
    BY <1>1, <1>3 DEF Queue!Posted, Queue!SendOK, Queue!NoSend
  <2>2. [v5 EXCEPT !.at = "load"] \in [at : {"post", "load"}, text : Pair]
        /\ [v5 EXCEPT !.at = "load"].at = "load"
    BY <2>1
  <2>3. v5' = Queue!NoSend \/ v5' = [v5 EXCEPT !.at = "load"]
    BY <1>3 DEF Queue!Posted
  <2>4. Queue!SendOK'
    BY <2>2, <2>3 DEF Queue!SendOK, Queue!NoSend
  <2>5. UNCHANGED <<v1, v4, v6>> /\ v2 \subseteq v2' /\ \A t \in v3' : t \in v3 \cup v2'
    BY <1>3 DEF Queue!Posted
  <2> QED BY <2>4, <2>5, SendSteps
<1>4. CASE Queue!QueueLoad
  <2>1. v5 \in [at : {"post", "load"}, text : Pair]
    BY <1>1, <1>4 DEF Queue!QueueLoad, Queue!SendOK, Queue!NoSend
  <2>2. \A f \in Flushes : ~Queue!Changing(f)
    BY <1>4 DEF Queue!QueueLoad, Queue!InFlight
  <2>3. \A f \in Flushes : ~Queue!Changing(f)'
    BY <1>4, <2>2 DEF Queue!QueueLoad, Queue!Changing
  <2>4. v5' = [at |-> "save", text |-> v5.text, copy |-> v1] /\ v1' = v1
    BY <1>4 DEF Queue!QueueLoad
  <2>5. Queue!SendOK'
    BY <1>1, <2>1, <2>3, <2>4 DEF Queue!SendOK
  <2> QED BY <1>4, <2>5, SendSteps DEF Queue!QueueLoad
<1>5. CASE Queue!DeleteChat
  <2>1. Queue!SendOK'
    BY <1>1, <1>5 DEF Queue!DeleteChat, Queue!SendOK, Queue!Changing
  <2> QED BY <1>5, <2>1, SendSteps DEF Queue!DeleteChat
<1> QED BY <1>2, <1>3, <1>4, <1>5

(* A text goes into the queue under an id of its own.                       *)
LEMMA SaveKeeps ==
  ASSUME Queue!QueueOK, Queue!PromisedIsKept, ~v9, Queue!QueueSave
  PROVE  (Queue!QueueOK /\ Queue!PromisedIsKept)'
<1>1. /\ v1 \in Seq(Queue!Entry) /\ Queue!Distinct(v1) /\ v5.at = "save" /\ v5.copy = v1
      /\ v5.text \in Pair /\ \A f \in Flushes : ~Queue!Changing(f)
  <2>1. v1 \in Seq(Queue!Entry) /\ Queue!Distinct(v1) /\ Queue!SendOK /\ v5.at = "save"
    BY DEF Queue!QueueOK, Queue!QueueSave
  <2>2. v5.copy = v1 /\ \A f \in Flushes : ~Queue!Changing(f)
    BY <2>1 DEF Queue!SendOK
  <2>3. v5.text \in Pair
    BY <2>1 DEF Queue!SendOK, Queue!NoSend
  <2> QED BY <2>1, <2>2, <2>3
<1>2. Queue!NextId(v1) \in Nat /\ \A i \in DOMAIN v1 : v1[i].id # Queue!NextId(v1)
  BY <1>1, NewId
<1> DEFINE new == [id |-> Queue!NextId(v1), text |-> v5.text, attempts |-> 0]
<1>3. v1' = Append(v1, new)
  BY <1>1 DEF Queue!QueueSave
<1>4. new \in Queue!Entry /\ new.id = Queue!NextId(v1) /\ new.text = v5.text
  BY <1>1, <1>2 DEF Queue!Entry
<1> HIDE DEF new
<1>5. /\ v1' \in Seq(Queue!Entry) /\ DOMAIN v1' = 1 .. (Len(v1) + 1) /\ v1'[Len(v1) + 1] = new
      /\ DOMAIN v1 = 1 .. Len(v1) /\ Len(v1) \in Nat /\ \A i \in DOMAIN v1 : v1'[i] = v1[i]
  BY <1>1, <1>3, <1>4
<1>6. \A i \in DOMAIN v1' : i \in DOMAIN v1 \/ i = Len(v1) + 1
  BY <1>5
<1>7. Queue!Distinct(v1')
  <2> SUFFICES ASSUME NEW i \in DOMAIN v1', NEW k \in DOMAIN v1', v1'[i].id = v1'[k].id PROVE i = k
    BY DEF Queue!Distinct
  <2>1. CASE i \in DOMAIN v1 /\ k \in DOMAIN v1
    BY <1>1, <1>5, <2>1 DEF Queue!Distinct
  <2>2. CASE i = Len(v1) + 1 /\ k = Len(v1) + 1
    BY <2>2
  <2>3. CASE i = Len(v1) + 1 /\ k \in DOMAIN v1
    BY <1>2, <1>4, <1>5, <2>3
  <2>4. CASE k = Len(v1) + 1 /\ i \in DOMAIN v1
    BY <1>2, <1>4, <1>5, <2>4
  <2> QED BY <1>6, <2>1, <2>2, <2>3, <2>4
<1>8. \A i \in DOMAIN v1 : i \in DOMAIN v1'
  BY <1>5
<1>9. UNCHANGED <<v2, v4, v6>> /\ v5' = Queue!NoSend /\ v3' = v3 \cup {v5.text}
  BY DEF Queue!QueueSave
<1>10. ASSUME NEW f \in Flushes PROVE Queue!FlushOK(f)'
  <2>1. Queue!FlushOK(f) /\ v6'[f] = v6[f] /\ ~Queue!Changing(f)
    BY <1>1, <1>9 DEF Queue!QueueOK
  <2>2. \A i \in DOMAIN v6[f].items : Queue!Stocked(v6[f].items[i])'
    <3> TAKE i \in DOMAIN v6[f].items
    <3>1. PICK k \in DOMAIN v1 : v1[k].id = v6[f].items[i].id /\ v1[k].text = v6[f].items[i].text
      BY <2>1 DEF Queue!FlushOK, Queue!Stocked
    <3>2. k \in DOMAIN v1' /\ v1'[k] = v1[k]
      BY <1>5, <1>8
    <3> QED BY <1>9, <2>1, <3>1, <3>2 DEF Queue!Stocked
  <2>3. ~Queue!Changing(f)'
    BY <2>1 DEF Queue!Changing
  <2>4. Queue!Distinct(v6'[f].items)
    BY <2>1 DEF Queue!FlushOK
  <2>5. Queue!Distinct(v6[f].items)'
    BY <2>4 DEF Queue!Distinct
  <2> QED BY <1>9, <2>1, <2>2, <2>3, <2>5 DEF Queue!FlushOK
<1>11. Queue!SendOK'
  BY <1>9 DEF Queue!SendOK, Queue!NoSend
<1>12. Queue!PromisedIsKept'
  <2>1. Queue!Queued \subseteq Queue!Queued'
    <3> SUFFICES ASSUME NEW i \in DOMAIN v1 PROVE v1[i].text \in Queue!Queued'
      BY DEF Queue!Queued
    <3>1. i \in DOMAIN v1' /\ v1'[i] = v1[i]
      BY <1>5, <1>8
    <3> QED BY <3>1 DEF Queue!Queued
  <2>2. v5.text \in Queue!Queued'
    <3>1. Len(v1) + 1 \in DOMAIN v1' /\ v1'[Len(v1) + 1].text = v5.text
      BY <1>4, <1>5
    <3> QED BY <3>1 DEF Queue!Queued
  <2> QED BY <1>9, <2>1, <2>2 DEF Queue!PromisedIsKept, Queue!Kept
<1>13. Queue!Distinct(v1)'
  BY <1>7 DEF Queue!Distinct
<1>14. \A f, g \in Flushes : v6'[f].at # "none" /\ v6'[g].at # "none" => f = g
  BY <1>9 DEF Queue!QueueOK
<1> QED BY <1>5, <1>10, <1>11, <1>12, <1>13, <1>14 DEF Queue!QueueOK

(* A flush takes the next step; nobody else flushes.                        *)
LEMMA FlushSteps ==
  ASSUME Queue!QueueOK, Queue!PromisedIsKept, ~v9, NEW f \in Flushes, UNCHANGED <<v1, v3, v5>>,
         v2 \subseteq v2', v4 \subseteq v4', \A g \in Flushes : g # f => v6'[g] = v6[g],
         v6[f].at # "none" \/ \A g \in Flushes : g # f => v6[g].at = "none",
         Queue!Changing(f)' => v5.at # "save", Queue!FlushOK(f)'
  PROVE  (Queue!QueueOK /\ Queue!PromisedIsKept)'
<1>1. \A g \in Flushes : Queue!FlushOK(g)'
  BY FlushStays DEF Queue!QueueOK
<1>2. \A g \in Flushes : g # f => v6'[g].at = "none"
  BY DEF Queue!QueueOK
<1>3. Queue!SendOK'
  <2>1. \A g \in Flushes : g # f => ~Queue!Changing(g)'
    BY <1>2 DEF Queue!Changing
  <2>2. Queue!SendOK
    BY DEF Queue!QueueOK
  <2>3. v5.at = "save" => \A g \in Flushes : ~Queue!Changing(g)'
    BY <2>1
  <2> QED BY <2>2, <2>3 DEF Queue!SendOK
<1>4. Queue!Distinct(v1)' /\ (v1 \in Seq(Queue!Entry))'
  BY DEF Queue!QueueOK, Queue!Distinct
<1>5. Queue!PromisedIsKept'
  BY DEF Queue!PromisedIsKept, Queue!Kept, Queue!Queued
<1>6. \A g, h \in Flushes : v6'[g].at # "none" /\ v6'[h].at # "none" => g = h
  BY <1>2
<1> QED BY <1>1, <1>3, <1>4, <1>5, <1>6 DEF Queue!QueueOK

(* What a flush has before it after a step.                                 *)
LEMMA FlushIs ==
  ASSUME NEW f \in Flushes, NEW items \in Seq(Queue!Entry), v6'[f].items = items,
         v6'[f] \in [at : {"next", "remove", "bump"}, items : Seq(Queue!Entry)]
             \cup [at : {"saveRemove", "saveBump"}, items : Seq(Queue!Entry), copy : Seq(Queue!Entry)],
         Queue!Distinct(items),
         \A i \in DOMAIN items :
           \E k \in DOMAIN v1' : v1'[k].id = items[i].id /\ v1'[k].text = items[i].text,
         v6'[f].at # "next" => items # <<>>,
         v6'[f].at \in {"remove", "saveRemove"} => items[1].text \in v2' \cup v4',
         v6'[f].at \in {"saveRemove", "saveBump"} => v6'[f].copy = v1'
  PROVE  Queue!FlushOK(f)'
<1>1. (Queue!Distinct(v6[f].items))'
  BY DEF Queue!Distinct
<1>2. (\A i \in DOMAIN v6[f].items : Queue!Stocked(v6[f].items[i]))'
  BY DEF Queue!Stocked
<1>3. (Queue!Changing(f) => v6[f].copy = v1)'
  BY DEF Queue!Changing
<1> QED BY <1>1, <1>2, <1>3 DEF Queue!FlushOK

(* What a flush has before it is a list of entries.                         *)
LEMMA FlushItems ==
  ASSUME NEW f \in Flushes, Queue!FlushOK(f) PROVE v6[f].items \in Seq(Queue!Entry)
<1>1. v6[f] \in {Queue!Idle} \cup [at : {"next", "remove", "bump"}, items : Seq(Queue!Entry)]
                \cup [at : {"saveRemove", "saveBump"}, items : Seq(Queue!Entry), copy : Seq(Queue!Entry)]
  BY DEF Queue!FlushOK
<1>2. Queue!Idle.items \in Seq(Queue!Entry)
  <2>1. <<>> \in Seq(Queue!Entry)
    OBVIOUS
  <2> QED BY <2>1 DEF Queue!Idle
<1> QED BY <1>1, <1>2

LEMMA FlushKeeps ==
  ASSUME Queue!QueueOK, Queue!PromisedIsKept, ~v9, ~v9', v6 = [g \in Flushes |-> v6[g]],
         NEW f \in Flushes,
         Queue!FlushStart(f) \/ Queue!FlushItem(f) \/ Queue!ChangeLoad(f) \/ Queue!FlushEnd(f)
  PROVE  (Queue!QueueOK /\ Queue!PromisedIsKept)'
<1>1. Queue!FlushOK(f) /\ v1 \in Seq(Queue!Entry) /\ Queue!Distinct(v1)
  BY DEF Queue!QueueOK
<1>2. PICK items \in Seq(Queue!Entry) : items = v6[f].items
  BY <1>1, FlushItems
<1>3. UNCHANGED <<v1, v3, v5>>
  BY DEF Queue!FlushStart, Queue!FlushItem, Queue!ChangeLoad, Queue!FlushEnd
<1>4. /\ Queue!Distinct(items)
      /\ \A i \in DOMAIN items :
           \E k \in DOMAIN v1' : v1'[k].id = items[i].id /\ v1'[k].text = items[i].text
  BY <1>1, <1>2, <1>3 DEF Queue!FlushOK, Queue!Stocked
<1>5. CASE Queue!FlushStart(f)
  <2>1. v6'[f] = [at |-> "next", items |-> v1] /\ \A g \in Flushes : g # f => v6'[g] = v6[g]
    BY <1>5 DEF Queue!FlushStart
  <2>2. \A g \in Flushes : g # f => v6[g].at = "none"
    BY <1>5 DEF Queue!FlushStart
  <2>3. v6'[f].at = "next" /\ v6'[f].items = v1 /\ ~Queue!Changing(f)'
        /\ v6'[f] \in [at : {"next", "remove", "bump"}, items : Seq(Queue!Entry)]
    BY <1>1, <2>1 DEF Queue!Changing
  <2>4. \A i \in DOMAIN v1 :
          \E k \in DOMAIN v1' : v1'[k].id = v1[i].id /\ v1'[k].text = v1[i].text
    BY <1>3
  <2>6. Queue!FlushOK(f)'
    BY <1>1, <2>3, <2>4, FlushIs
  <2>7. UNCHANGED <<v2, v4>>
    BY <1>5 DEF Queue!FlushStart
  <2> QED BY <1>3, <2>1, <2>2, <2>3, <2>6, <2>7, FlushSteps
<1>6. CASE Queue!FlushItem(f)
  <2>1. v6[f].at = "next" /\ items # <<>> /\ Head(items) = items[1]
    BY <1>2, <1>6 DEF Queue!FlushItem
  <2>2. v6[f] \in [at : {"next", "remove", "bump"}, items : Seq(Queue!Entry)]
    BY <1>1, <2>1 DEF Queue!FlushOK, Queue!Idle
  <2>3. PICK at \in {"remove", "bump"} : v6' = [v6 EXCEPT ![f].at = at]
    BY <1>6 DEF Queue!FlushItem
  <2>4. v6'[f] = [at |-> at, items |-> items] /\ \A g \in Flushes : g # f => v6'[g] = v6[g]
    BY <1>2, <2>2, <2>3
  <2>5. v2 \subseteq v2' /\ v4 \subseteq v4'
    BY <1>6 DEF Queue!FlushItem
  <2>6. at = "remove" => items[1].text \in v2' \cup v4'
    BY <1>2, <1>6, <2>1, <2>4 DEF Queue!FlushItem
  <2>7. v6'[f].at = at /\ v6'[f].items = items /\ ~Queue!Changing(f)'
        /\ v6'[f] \in [at : {"next", "remove", "bump"}, items : Seq(Queue!Entry)]
    BY <1>2, <2>4 DEF Queue!Changing
  <2>9. Queue!FlushOK(f)'
    BY <1>2, <1>4, <2>1, <2>6, <2>7, FlushIs
  <2> QED BY <1>3, <2>1, <2>4, <2>5, <2>7, <2>9, FlushSteps
<1>7. CASE Queue!ChangeLoad(f)
  <2>1. v6[f].at \in {"remove", "bump"} /\ v6' = [v6 EXCEPT ![f] =
          [at |-> IF @.at = "remove" THEN "saveRemove" ELSE "saveBump", items |-> @.items, copy |-> v1]]
    BY <1>7 DEF Queue!ChangeLoad
  <2>2. items # <<>> /\ (v6[f].at = "remove" => items[1].text \in v2 \cup v4)
    BY <1>1, <1>2, <2>1 DEF Queue!FlushOK
  <2>3. v5.at # "save"
    BY <1>7 DEF Queue!ChangeLoad, Queue!InFlight
  <2> DEFINE to == IF v6[f].at = "remove" THEN "saveRemove" ELSE "saveBump"
  <2>4. to \in {"saveRemove", "saveBump"} /\ (to = "saveRemove" => v6[f].at = "remove")
    OBVIOUS
  <2>5. v6'[f] = [at |-> to, items |-> items, copy |-> v1] /\ \A g \in Flushes : g # f => v6'[g] = v6[g]
    BY <1>2, <2>1
  <2> HIDE DEF to
  <2>6. v6'[f].at = to /\ v6'[f].items = items /\ v6'[f].copy = v1
        /\ v6'[f] \in [at : {"saveRemove", "saveBump"}, items : Seq(Queue!Entry), copy : Seq(Queue!Entry)]
    BY <1>1, <1>2, <2>4, <2>5
  <2>8. UNCHANGED <<v2, v4>>
    BY <1>7 DEF Queue!ChangeLoad
  <2>9. Queue!FlushOK(f)'
    BY <1>2, <1>3, <1>4, <2>2, <2>4, <2>6, <2>8, FlushIs
  <2>10. v6[f].at # "none"
    BY <2>1
  <2> QED BY <1>3, <2>3, <2>5, <2>8, <2>9, <2>10, FlushSteps
<1>8. CASE Queue!FlushEnd(f)
  <2>1. v6'[f] = Queue!Idle /\ v6[f].at = "next" /\ \A g \in Flushes : g # f => v6'[g] = v6[g]
    BY <1>8 DEF Queue!FlushEnd
  <2>2. UNCHANGED <<v2, v4>>
    BY <1>8 DEF Queue!FlushEnd
  <2>3. v6[f].at # "none"
    BY <2>1
  <2>4. Queue!FlushOK(f)' /\ ~Queue!Changing(f)'
    BY <2>1, FlushRests
  <2> QED BY <1>3, <2>1, <2>2, <2>3, <2>4, FlushSteps
<1> QED BY <1>5, <1>6, <1>7, <1>8

LEMMA ReloadKeeps ==
  ASSUME Queue!QueueOK, Queue!PromisedIsKept, ~v9, Queue!ReloadPage
  PROVE  (Queue!QueueOK /\ Queue!PromisedIsKept)'
<1>1. UNCHANGED <<v1, v2, v3, v4>> /\ v5' = Queue!NoSend /\ \A f \in Flushes : v6'[f] = Queue!Idle
  BY DEF Queue!ReloadPage
<1>2. \A f \in Flushes : Queue!FlushOK(f)' /\ v6'[f].at = "none"
  BY <1>1, FlushRests
<1>3. Queue!SendOK'
  BY <1>1 DEF Queue!SendOK, Queue!NoSend
<1>4. Queue!Distinct(v1)' /\ (v1 \in Seq(Queue!Entry))'
  BY <1>1 DEF Queue!QueueOK, Queue!Distinct
<1>5. Queue!PromisedIsKept'
  BY <1>1 DEF Queue!PromisedIsKept, Queue!Kept, Queue!Queued
<1> QED BY <1>2, <1>3, <1>4, <1>5 DEF Queue!QueueOK

(* The changed queue is saved: what is left of it has the ids it had.       *)
LEMMA ChangeSteps ==
  ASSUME Queue!QueueOK, Queue!PromisedIsKept, ~v9, NEW f \in Flushes, Queue!ChangeSave(f)
  PROVE  /\ v1' \in Seq(Queue!Entry) /\ Queue!Distinct(v1')
         /\ \A i \in DOMAIN v1 : v1[i].id # v6[f].items[1].id =>
              \E k \in DOMAIN v1' : v1'[k].id = v1[i].id /\ v1'[k].text = v1[i].text
         /\ \A i \in DOMAIN v1 :
              \/ v1[i].text \in v2 \cup v4
              \/ \E k \in DOMAIN v1' : v1'[k].id = v1[i].id /\ v1'[k].text = v1[i].text
<1> DEFINE id == v6[f].items[1].id
<1>1. /\ v1 \in Seq(Queue!Entry) /\ Queue!Distinct(v1) /\ Queue!FlushOK(f)
      /\ v6[f].at \in {"saveRemove", "saveBump"} /\ v6[f].copy = v1 /\ v6[f].items # <<>>
  BY DEF Queue!QueueOK, Queue!FlushOK, Queue!ChangeSave, Queue!Changing
<1>2. v6[f].items \in Seq(Queue!Entry)
  BY <1>1 DEF Queue!FlushOK, Queue!Idle
<1>3. Head(v6[f].items) = v6[f].items[1] /\ 1 \in DOMAIN v6[f].items
  BY <1>1, <1>2
<1>4. CASE v6[f].at = "saveRemove"
  <2>1. v1' = Queue!Without(v1, id)
    BY <1>1, <1>3, <1>4 DEF Queue!ChangeSave
  <2>2. v6[f].items[1].text \in v2 \cup v4 /\ Queue!Stocked(v6[f].items[1])
    BY <1>1, <1>3, <1>4 DEF Queue!FlushOK
  <2>3. \A i \in DOMAIN v1 : v1[i].id = id => v1[i].text = v6[f].items[1].text
    BY <1>1, <2>2 DEF Queue!Stocked, Queue!Distinct
  <2> HIDE DEF id
  <2>4. /\ v1' \in Seq(Queue!Entry) /\ Queue!Distinct(v1')
        /\ \A i \in DOMAIN v1 : v1[i].id # id => \E k \in DOMAIN v1' : v1'[k] = v1[i]
    BY <1>1, <2>1, WithoutOne
  <2> QED BY <2>2, <2>3, <2>4 DEF id
<1>5. CASE v6[f].at = "saveBump"
  <2>1. v1' = [i \in DOMAIN v1 |-> IF v1[i].id = id THEN [v1[i] EXCEPT !.attempts = @ + 1] ELSE v1[i]]
    BY <1>1, <1>3, <1>5 DEF Queue!ChangeSave
  <2> HIDE DEF id
  <2>2. ASSUME NEW i \in DOMAIN v1
        PROVE  v1'[i] \in Queue!Entry /\ v1'[i].id = v1[i].id /\ v1'[i].text = v1[i].text
    <3>1. v1[i] \in Queue!Entry
      BY <1>1
    <3>2. v1'[i] = v1[i] \/ v1'[i] = [v1[i] EXCEPT !.attempts = @ + 1]
      BY <2>1
    <3>3. CASE v1'[i] = [v1[i] EXCEPT !.attempts = @ + 1]
      BY <3>1, <3>3, Counted
    <3> QED BY <3>1, <3>2, <3>3
  <2>3. DOMAIN v1' = DOMAIN v1 /\ v1' = [i \in DOMAIN v1 |-> v1'[i]]
    BY <2>1
  <2>4. v1' \in Seq(Queue!Entry)
    <3>1. DOMAIN v1 = 1 .. Len(v1) /\ Len(v1) \in Nat
      BY <1>1
    <3> QED BY <2>2, <2>3, <3>1
  <2>5. Queue!Distinct(v1')
    BY <1>1, <2>2, <2>3 DEF Queue!Distinct
  <2> QED BY <2>2, <2>3, <2>4, <2>5
<1> QED BY <1>1, <1>4, <1>5

LEMMA ChangeKeeps ==
  ASSUME Queue!QueueOK, Queue!PromisedIsKept, ~v9, v6 = [g \in Flushes |-> v6[g]],
         NEW f \in Flushes, Queue!ChangeSave(f)
  PROVE  (Queue!QueueOK /\ Queue!PromisedIsKept)'
<1>a. Queue!FlushOK(f) /\ Queue!SendOK /\ Queue!Changing(f) /\ v6[f].at # "none"
  BY DEF Queue!QueueOK, Queue!ChangeSave, Queue!Changing
<1>b. PICK items \in Seq(Queue!Entry) : items = v6[f].items
  BY <1>a DEF Queue!FlushOK, Queue!Idle
<1>1. /\ items # <<>> /\ Queue!Distinct(items)
      /\ \A i \in DOMAIN items : Queue!Stocked(items[i])
  BY <1>a, <1>b DEF Queue!FlushOK, Queue!Changing
<1>2. /\ UNCHANGED <<v2, v3, v4, v5>> /\ v6'[f] = [at |-> "next", items |-> Tail(items)]
      /\ \A g \in Flushes : g # f => v6'[g] = v6[g]
  BY <1>b DEF Queue!ChangeSave
<1>3. /\ v1' \in Seq(Queue!Entry) /\ Queue!Distinct(v1')
      /\ \A i \in DOMAIN v1 : v1[i].id # items[1].id =>
           \E k \in DOMAIN v1' : v1'[k].id = v1[i].id /\ v1'[k].text = v1[i].text
      /\ \A i \in DOMAIN v1 :
           \/ v1[i].text \in v2 \cup v4
           \/ \E k \in DOMAIN v1' : v1'[k].id = v1[i].id /\ v1'[k].text = v1[i].text
  BY <1>b, ChangeSteps
<1>4. PICK rest \in Seq(Queue!Entry) :
        /\ rest = Tail(items) /\ Queue!Distinct(rest)
        /\ \A i \in DOMAIN rest :
             i + 1 \in DOMAIN items /\ rest[i] = items[i + 1] /\ rest[i].id # items[1].id
  BY <1>1, Rest
<1>5. ASSUME NEW i \in DOMAIN rest
      PROVE  \E k \in DOMAIN v1' : v1'[k].id = rest[i].id /\ v1'[k].text = rest[i].text
  <2>1. Queue!Stocked(rest[i]) /\ rest[i].id # items[1].id
    BY <1>1, <1>4
  <2>2. PICK k \in DOMAIN v1 : v1[k].id = rest[i].id /\ v1[k].text = rest[i].text
    BY <2>1 DEF Queue!Stocked
  <2>3. PICK j \in DOMAIN v1' : v1'[j].id = v1[k].id /\ v1'[j].text = v1[k].text
    BY <1>3, <2>1, <2>2
  <2> QED BY <2>2, <2>3
<1>6. v6'[f].at = "next" /\ v6'[f].items = rest
      /\ v6'[f] \in [at : {"next", "remove", "bump"}, items : Seq(Queue!Entry)]
  BY <1>2, <1>4
<1>8. Queue!FlushOK(f)'
  BY <1>4, <1>5, <1>6, FlushIs
<1>9. \A g \in Flushes : g # f => v6'[g] = Queue!Idle
  BY <1>a, <1>2, OnlyOne
<1>10. \A g \in Flushes : Queue!FlushOK(g)'
  BY <1>8, <1>9, FlushRests
<1>11. \A g, h \in Flushes : v6'[g].at # "none" /\ v6'[h].at # "none" => g = h
  BY <1>9, FlushRests
<1>12. v5.at # "save"
  BY <1>a DEF Queue!SendOK
<1>13. Queue!SendOK'
  BY <1>a, <1>2, <1>12 DEF Queue!SendOK
<1>14. Queue!PromisedIsKept'
  <2> SUFFICES ASSUME NEW t \in v3 PROVE t \in v2' \cup v4' \cup Queue!Queued'
    BY <1>2 DEF Queue!PromisedIsKept, Queue!Kept
  <2>1. t \in v2 \cup v4 \/ t \in Queue!Queued
    BY DEF Queue!PromisedIsKept, Queue!Kept
  <2>2. CASE t \in Queue!Queued
    <3>1. PICK i \in DOMAIN v1 : v1[i].text = t
      BY <2>2 DEF Queue!Queued
    <3> QED BY <1>2, <1>3, <3>1 DEF Queue!Queued
  <2> QED BY <1>2, <2>1, <2>2
<1>15. Queue!Distinct(v1)'
  BY <1>3 DEF Queue!Distinct
<1> QED BY <1>3, <1>10, <1>11, <1>13, <1>14, <1>15 DEF Queue!QueueOK

LEMMA QueueNext == ASSUME Queue!OutboxInv, Queue!Next \/ UNCHANGED slots PROVE Queue!OutboxInv'
<1>1. CASE UNCHANGED slots
  <2>1. UNCHANGED <<v1, v2, v3, v4, v5, v6, v9>>
    BY <1>1 DEF slots
  <2> QED
    BY <2>1 DEF Queue!OutboxInv, Queue!QueueOK, Queue!SendOK, Queue!FlushOK, Queue!Distinct,
                Queue!Stocked, Queue!Changing, Queue!PromisedIsKept, Queue!Kept, Queue!Queued
<1>2. CASE Queue!Next
  <2>1. v9 \in BOOLEAN /\ v6 = [f \in Flushes |-> v6[f]]
        /\ (~v9 => Queue!QueueOK /\ Queue!PromisedIsKept)
    BY DEF Queue!OutboxInv
  <2>2. v9 => v9'
    BY <1>2, Zenon
       DEF Queue!Next, Queue!Post, Queue!Posted, Queue!QueueLoad, Queue!QueueSave, Queue!DeleteChat,
           Queue!ReloadPage, Queue!FlushStart, Queue!FlushItem, Queue!ChangeLoad, Queue!ChangeSave,
           Queue!FlushEnd
  <2>3. v9' \in BOOLEAN
    BY <1>2, <2>1
       DEF Queue!Next, Queue!Post, Queue!Posted, Queue!QueueLoad, Queue!QueueSave, Queue!DeleteChat,
           Queue!ReloadPage, Queue!FlushStart, Queue!FlushItem, Queue!ChangeLoad, Queue!ChangeSave,
           Queue!FlushEnd
  <2>4. v6' = [f \in Flushes |-> v6'[f]]
    BY <1>2, <2>1
       DEF Queue!Next, Queue!Post, Queue!Posted, Queue!QueueLoad, Queue!QueueSave, Queue!DeleteChat,
           Queue!ReloadPage, Queue!FlushStart, Queue!FlushItem, Queue!ChangeLoad, Queue!ChangeSave,
           Queue!FlushEnd
  <2>5. ASSUME ~v9' PROVE (Queue!QueueOK /\ Queue!PromisedIsKept)'
    <3>1. ~v9 /\ Queue!QueueOK /\ Queue!PromisedIsKept
      BY <2>1, <2>2, <2>5
    <3>2. \/ \/ \E t \in Pair : Queue!Post(t)
             \/ Queue!Posted \/ Queue!QueueLoad \/ Queue!DeleteChat
          \/ Queue!QueueSave \/ Queue!ReloadPage
          \/ \E f \in Flushes : Queue!ChangeSave(f)
          \/ \E f \in Flushes : \/ Queue!FlushStart(f) \/ Queue!FlushItem(f)
                                \/ Queue!ChangeLoad(f) \/ Queue!FlushEnd(f)
      BY <1>2, Zenon DEF Queue!Next
    <3> QED BY <2>1, <2>5, <3>1, <3>2, SendKeeps, SaveKeeps, ReloadKeeps, ChangeKeeps, FlushKeeps
  <2> QED BY <2>3, <2>4, <2>5 DEF Queue!OutboxInv
<1> QED BY <1>1, <1>2

-----------------------------------------------------------------------------
(* The padding of texts and files.                                          *)

LEMMA Multiple == ASSUME NEW k \in Nat, NEW b \in Nat \ {0} PROVE (k * b) % b = 0
BY SMT

LEMMA Buckets ==
  ASSUME NEW n \in Nat, NEW block \in Nat \ {0}
  PROVE  /\ Bucket(n, block) \in Nat /\ n <= Bucket(n, block) /\ Bucket(n, block) % block = 0
<1> DEFINE m == n + block - 1
           k == m \div block
<1>1. m \in Nat
  OBVIOUS
<1> HIDE DEF m
<1>2. k \in Nat /\ m = block * k + (m % block) /\ m % block < block
  BY <1>1
<1> HIDE DEF k
<1>3. n <= k * block
  BY <1>2 DEF m
<1>4. k * block \in Nat /\ (k * block) % block = 0
  BY <1>2, Multiple
<1> QED BY <1>3, <1>4 DEF Bucket, k, m

(* A byte, by a name the provers do not look into.                          *)
Octet == 0 .. 255

LEMMA Big ==
  ASSUME NEW n \in Nat, FourBytes(n)
  PROVE  BE(n) \in Seq(Octet) /\ Len(BE(n)) = 4
         /\ BE(n)[1] * 16777216 + BE(n)[2] * 65536 + BE(n)[3] * 256 + BE(n)[4] = n
<1>1. /\ (n \div 16777216) % 256 \in 0 .. 255 /\ (n \div 65536) % 256 \in 0 .. 255
      /\ (n \div 256) % 256 \in 0 .. 255 /\ n % 256 \in 0 .. 255
  BY SMT DEF FourBytes
<1>2. ((n \div 16777216) % 256) * 16777216 + ((n \div 65536) % 256) * 65536
       + ((n \div 256) % 256) * 256 + (n % 256) = n
  BY SMT DEF FourBytes
<1> QED BY <1>1, <1>2, SMT DEF BE, Octet

(* The four bytes of a length, read back wherever they are.                 *)
LEMMA ReadBack ==
  ASSUME NEW n \in Nat, FourBytes(n), NEW b, NEW at \in Nat,
         b[at] = BE(n)[1], b[at + 1] = BE(n)[2], b[at + 2] = BE(n)[3], b[at + 3] = BE(n)[4]
  PROVE  Uint32(b, at) = n
<1>1. Uint32(b, at) = BE(n)[1] * 16777216 + BE(n)[2] * 65536 + BE(n)[3] * 256 + BE(n)[4]
  BY SMT DEF Uint32
<1> QED BY <1>1, Big, SMT

(* Sequences put together and cut, by names the provers do not look into.   *)
Cat(s, t) == s \o t
Cut(s, m, n) == SubSeq(s, m, n)

LEMMA Joined ==
  ASSUME NEW S, NEW s \in Seq(S), NEW t \in Seq(S)
  PROVE  /\ Cat(s, t) \in Seq(S) /\ Len(Cat(s, t)) = Len(s) + Len(t)
         /\ \A i \in 1 .. (Len(s) + Len(t)) :
              Cat(s, t)[i] = IF i <= Len(s) THEN s[i] ELSE t[i - Len(s)]
BY ConcatProperties DEF Cat

LEMMA CutOut ==
  ASSUME NEW S, NEW s, NEW m \in Int, NEW n \in Int, \A i \in m .. n : s[i] \in S
  PROVE  /\ Cut(s, m, n) \in Seq(S) /\ Len(Cut(s, m, n)) = IF m <= n THEN n - m + 1 ELSE 0
         /\ \A i \in 1 .. (n - m + 1) : Cut(s, m, n)[i] = s[m + i - 1]
BY SubSeqProperties DEF Cut

(* The middle one of three sequences, cut out.                              *)
LEMMA Middle ==
  ASSUME NEW S, NEW a \in Seq(S), NEW q \in Seq(S), NEW c \in Seq(S)
  PROVE  LET b == Cat(Cat(a, q), c)
         IN  /\ Len(b) = Len(a) + Len(q) + Len(c) /\ \A i \in 1 .. Len(a) : b[i] = a[i]
             /\ Cut(b, Len(a) + 1, Len(a) + Len(q)) = q
<1> DEFINE aq == Cat(a, q)
           b == Cat(aq, c)
           from == Len(a) + 1
           to == Len(a) + Len(q)
           cut == Cut(b, from, to)
<1>1. Len(a) \in Nat /\ Len(q) \in Nat /\ Len(c) \in Nat
  BY LenProperties
<1>2. /\ aq \in Seq(S) /\ Len(aq) = Len(a) + Len(q)
      /\ \A i \in 1 .. (Len(a) + Len(q)) : aq[i] = IF i <= Len(a) THEN a[i] ELSE q[i - Len(a)]
  BY Joined
<1> HIDE DEF aq
<1>3. /\ b \in Seq(S) /\ Len(b) = Len(aq) + Len(c)
      /\ \A i \in 1 .. (Len(aq) + Len(c)) : b[i] = IF i <= Len(aq) THEN aq[i] ELSE c[i - Len(aq)]
  <2>1. aq \in Seq(S)
    BY <1>2
  <2> QED BY <2>1, Joined
<1> HIDE DEF b
<1>4. \A i \in 1 .. Len(a) : b[i] = a[i]
  BY <1>1, <1>2, <1>3
<1>5. \A i \in 1 .. Len(q) : b[Len(a) + i] = q[i]
  <2> TAKE i \in 1 .. Len(q)
  <2>1. Len(a) + i \in 1 .. (Len(a) + Len(q)) /\ ~(Len(a) + i <= Len(a)) /\ Len(a) + i - Len(a) = i
    BY <1>1
  <2>2. aq[Len(a) + i] = q[i]
    BY <1>2, <2>1
  <2> QED BY <1>1, <1>2, <1>3, <2>1, <2>2
<1>6. from \in Int /\ to \in Int /\ to - from + 1 = Len(q) /\ (from <= to <=> Len(q) # 0)
  BY <1>1
<1>7. \A i \in from .. to : b[i] \in S
  BY <1>1, <1>2, <1>3
<1>8. from = Len(a) + 1
  OBVIOUS
<1> HIDE DEF from, to
<1>9. /\ cut \in Seq(S) /\ Len(cut) = IF from <= to THEN to - from + 1 ELSE 0
      /\ \A i \in 1 .. (to - from + 1) : cut[i] = b[from + i - 1]
  BY <1>6, <1>7, CutOut
<1> HIDE DEF cut
<1>10. Len(cut) = Len(q)
  BY <1>1, <1>6, <1>9
<1>11. \A i \in 1 .. Len(q) : cut[i] = q[i]
  <2> TAKE i \in 1 .. Len(q)
  <2>1. cut[i] = b[from + i - 1] /\ from + i - 1 = Len(a) + i
    BY <1>1, <1>6, <1>8, <1>9
  <2> QED BY <1>5, <2>1
<1>12. cut = q
  BY <1>9, <1>10, <1>11, SeqEqual
<1>13. Len(b) = Len(a) + Len(q) + Len(c)
  BY <1>2, <1>3
<1> QED BY <1>4, <1>12, <1>13 DEF cut, from, to, b, aq

LEMMA BlockFacts ==
  /\ PadBlock \in Nat \ {0} /\ LegacyPadBlock \in Nat \ {0} /\ FilePadBlock \in Nat \ {0}
  /\ MaxText \in Nat /\ MaxLen \in Nat
BY BlocksAssumption

(* What a tail of TailLen bytes makes of a front and a body.                *)
LEMMA Whole ==
  ASSUME NEW n \in Nat, NEW front \in Nat, NEW block \in Nat \ {0},
         NEW rear, rear = TailLen(n + front, block)
  PROVE  rear \in Nat /\ (front + n + rear) % block = 0
<1> DEFINE whole == Bucket(n + front, block)
<1>1. n + front \in Nat
  OBVIOUS
<1>2. whole \in Nat /\ n + front <= whole /\ whole % block = 0
  BY <1>1, Buckets
<1>3. rear = whole - (n + front)
  BY DEF TailLen
<1> HIDE DEF whole
<1>4. rear \in Nat /\ front + n + rear = whole
  BY <1>2, <1>3
<1> QED BY <1>2, <1>4

(* A frame has its length before it and what it was made of in the middle.  *)
LEMMA TextFrame ==
  ASSUME NEW t \in Seq(Octet), FourBytes(Len(t)), NEW rear \in Seq(Octet)
  PROVE  LET b == PadBytes(t, rear)
         IN  /\ Len(b) = 4 + Len(t) + Len(rear) /\ Uint32(b, 1) = Len(t)
             /\ SubSeq(b, 5, 4 + Len(t)) = t
<1> DEFINE n == Len(t)
           front == BE(n)
           b == Cat(Cat(front, t), rear)
<1>1. n \in Nat
  OBVIOUS
<1>2. front \in Seq(Octet) /\ Len(front) = 4
  BY <1>1, Big
<1>3. b = PadBytes(t, rear)
  BY DEF PadBytes, Cat
<1>e. front = BE(n)
  OBVIOUS
<1> HIDE DEF front
<1>4. /\ Len(b) = Len(front) + Len(t) + Len(rear) /\ \A i \in 1 .. Len(front) : b[i] = front[i]
      /\ Cut(b, Len(front) + 1, Len(front) + Len(t)) = t
  <2>1. front \in Seq(Octet)
    BY <1>2
  <2> QED BY <2>1, Middle
<1> HIDE DEF b, n
<1>5. b[1] = front[1] /\ b[1 + 1] = front[2] /\ b[1 + 2] = front[3] /\ b[1 + 3] = front[4]
  BY <1>2, <1>4
<1>f. FourBytes(n)
  BY DEF n
<1>6. Uint32(b, 1) = n
  BY <1>1, <1>5, <1>e, <1>f, ReadBack
<1>7. Cut(b, 5, 4 + n) = t
  BY <1>2, <1>4 DEF n
<1>8. SubSeq(b, 5, 4 + n) = t
  BY <1>7 DEF Cut
<1> QED BY <1>2, <1>3, <1>4, <1>6, <1>8 DEF n

LEMMA FileFrame ==
  ASSUME NEW t \in Seq(Octet), FourBytes(Len(t)), NEW rear \in Seq(Octet)
  PROVE  LET b == PadFileBytes(t, rear)
         IN  /\ Len(b) = 8 + Len(t) + Len(rear) /\ Uint32(b, 5) = Len(t)
             /\ SubSeq(b, 9, 8 + Len(t)) = t
             /\ \A i \in 1 .. 4 : b[i] = Magic[i]
<1> DEFINE n == Len(t)
           size == BE(n)
           front == Cat(Magic, size)
           b == Cat(Cat(front, t), rear)
<1>1. n \in Nat
  OBVIOUS
<1>2. size \in Seq(Octet) /\ Len(size) = 4
  BY <1>1, Big
<1>3. Magic \in Seq(Octet) /\ Len(Magic) = 4
  <2>1. 78 \in Octet /\ 67 \in Octet /\ 70 \in Octet /\ 49 \in Octet
    BY DEF Octet
  <2> QED BY <2>1 DEF Magic
<1>4. b = PadFileBytes(t, rear)
  BY DEF PadFileBytes, Cat
<1>5. size = BE(n)
  OBVIOUS
<1> HIDE DEF size
<1>6. /\ front \in Seq(Octet) /\ Len(front) = Len(Magic) + Len(size)
      /\ \A i \in 1 .. (Len(Magic) + Len(size)) :
           front[i] = IF i <= Len(Magic) THEN Magic[i] ELSE size[i - Len(Magic)]
  BY <1>2, <1>3, Joined
<1> HIDE DEF front
<1>7. /\ Len(b) = Len(front) + Len(t) + Len(rear) /\ \A i \in 1 .. Len(front) : b[i] = front[i]
      /\ Cut(b, Len(front) + 1, Len(front) + Len(t)) = t
  BY <1>6, Middle
<1> HIDE DEF b, n
<1>8. Len(front) = 8 /\ \A i \in 1 .. 8 : front[i] = IF i <= 4 THEN Magic[i] ELSE size[i - 4]
  BY <1>2, <1>3, <1>6
<1>a. \A i \in 1 .. 8 : b[i] = IF i <= 4 THEN Magic[i] ELSE size[i - 4]
  <2> TAKE i \in 1 .. 8
  <2>1. Len(front) = 8 /\ front[i] = IF i <= 4 THEN Magic[i] ELSE size[i - 4]
    BY <1>8
  <2>2. b[i] = front[i]
    BY <1>7, <2>1
  <2> QED BY <2>1, <2>2
<1>9. b[5] = size[1] /\ b[5 + 1] = size[2] /\ b[5 + 2] = size[3] /\ b[5 + 3] = size[4]
  BY <1>a
<1>10. \A i \in 1 .. 4 : b[i] = Magic[i]
  <2> TAKE i \in 1 .. 4
  <2>1. i \in 1 .. 8 /\ i <= 4
    OBVIOUS
  <2> QED BY <1>a, <2>1
<1>11. FourBytes(n)
  BY DEF n
<1>12. Uint32(b, 5) = n
  BY <1>1, <1>5, <1>9, <1>11, ReadBack
<1>13. Cut(b, 9, 8 + n) = t
  BY <1>7, <1>8 DEF n
<1>14. SubSeq(b, 9, 8 + n) = t
  BY <1>13 DEF Cut
<1> QED BY <1>4, <1>7, <1>8, <1>10, <1>12, <1>14 DEF n

(* A frame with a tail up to the end of a bucket is read as what it was     *)
(* made of, whatever the tail is.                                           *)
LEMMA TextRead ==
  ASSUME NEW t \in Seq(Octet), FourBytes(Len(t)), Len(t) <= MaxText,
         NEW block, block = PadBlock \/ block = LegacyPadBlock,
         NEW rear \in Seq(Octet), Len(rear) = TailLen(Len(t) + 4, block)
  PROVE  UnpadBytes(PadBytes(t, rear)) = t
<1> DEFINE n == Len(t)
           r == Len(rear)
           b == PadBytes(t, rear)
<1>1. n \in Nat /\ n <= MaxText /\ r = TailLen(n + 4, block)
  OBVIOUS
<1>2. Len(b) = 4 + n + r /\ Uint32(b, 1) = n /\ SubSeq(b, 5, 4 + n) = t
  BY TextFrame
<1> HIDE DEF n, r, b
<1>3. r \in Nat /\ (4 + n + r) % block = 0
  <2>1. block \in Nat \ {0}
    BY BlockFacts
  <2> QED BY <1>1, <2>1, Whole
<1>4. ~(Len(b) < 4) /\ ~(n > Len(b) - 4) /\ ~(n > MaxText)
  <2>1. r \in Nat
    BY <1>3
  <2> DEFINE size == Len(b)
  <2>2. size = 4 + n + r
    BY <1>2
  <2> HIDE DEF size
  <2>3. ~(size < 4) /\ ~(n > size - 4)
    BY <1>1, <2>1, <2>2
  <2> QED BY <1>1, BlockFacts, <2>3 DEF size
<1>5. Len(b) % PadBlock = 0 \/ Len(b) % LegacyPadBlock = 0
  BY <1>2, <1>3
<1>6. UnpadBytes(b) = SubSeq(b, 5, 4 + n)
  BY <1>2, <1>4, <1>5, Zenon DEF UnpadBytes
<1> QED BY <1>2, <1>6 DEF b

LEMMA FileRead ==
  ASSUME NEW t \in Seq(Octet), FourBytes(Len(t)),
         NEW rear \in Seq(Octet), Len(rear) = TailLen(Len(t) + 8, FilePadBlock)
  PROVE  UnpadFileBytes(PadFileBytes(t, rear)) = t
<1> DEFINE n == Len(t)
           r == Len(rear)
           b == PadFileBytes(t, rear)
<1>1. n \in Nat /\ r = TailLen(n + 8, FilePadBlock)
  OBVIOUS
<1>2. /\ Len(b) = 8 + n + r /\ Uint32(b, 5) = n /\ SubSeq(b, 9, 8 + n) = t
      /\ b[1] = Magic[1] /\ b[2] = Magic[2] /\ b[3] = Magic[3] /\ b[4] = Magic[4]
  <2>1. Len(b) = 8 + n + r /\ Uint32(b, 5) = n /\ SubSeq(b, 9, 8 + n) = t
    BY FileFrame
  <2>2. \A i \in 1 .. 4 : b[i] = Magic[i]
    BY FileFrame
  <2> QED BY <2>1, <2>2
<1> HIDE DEF n, r, b
<1>3. r \in Nat /\ (8 + n + r) % FilePadBlock = 0
  <2>1. FilePadBlock \in Nat \ {0}
    BY BlockFacts
  <2> QED BY <1>1, <2>1, Whole
<1>4. ~(Len(b) < 8) /\ ~(n > Len(b) - 8)
  <2>1. r \in Nat
    BY <1>3
  <2> DEFINE size == Len(b)
  <2>2. size = 8 + n + r
    BY <1>2
  <2> HIDE DEF size
  <2>3. ~(size < 8) /\ ~(n > size - 8)
    BY <1>1, <2>1, <2>2
  <2> QED BY <2>3 DEF size
<1>5. Len(b) % FilePadBlock = 0
  BY <1>2, <1>3
<1>6. UnpadFileBytes(b) = SubSeq(b, 9, 8 + n)
  BY <1>2, <1>4, <1>5, Zenon DEF UnpadFileBytes
<1> QED BY <1>2, <1>6 DEF b

LEMMA Tails ==
  ASSUME NEW n \in Nat, NEW block \in Nat \ {0}, NEW byte \in Bytes
  PROVE  Tail_(n, block, byte) \in Seq(Octet) /\ Len(Tail_(n, block, byte)) = TailLen(n, block)
<1> DEFINE r == TailLen(n, block)
<1>1. r \in Nat
  <2>1. Bucket(n, block) \in Nat /\ n <= Bucket(n, block)
    BY Buckets
  <2> QED BY <2>1 DEF TailLen
<1>2. byte \in Octet
  BY BlocksAssumption DEF Octet
<1>3. Tail_(n, block, byte) = [i \in 1 .. r |-> byte]
  BY DEF Tail_
<1> HIDE DEF r
<1>4. [i \in 1 .. r |-> byte] \in Seq(Octet) /\ Len([i \in 1 .. r |-> byte]) = r
  BY <1>1, <1>2
<1> QED BY <1>3, <1>4 DEF r

LEMMA PaddingInit == ASSUME Init PROVE PaddingInv
<1>1. Magic \in Seq(0 .. 255) /\ <<>> \in Seq(0 .. 255) /\ Len(<<>>) = 0
  BY DEF Magic
<1>2. Len(<<>>) <= MaxLen
  BY <1>1, BlockFacts
<1> QED BY <1>1, <1>2 DEF Init, PaddingInv, ReadAsWritten

LEMMA Sized ==
  ASSUME PaddingInv
  PROVE  plain \in Seq(Octet) /\ Len(plain) \in Nat /\ FourBytes(Len(plain))
<1>1. plain \in Seq(Octet) /\ Len(plain) \in Nat
  BY DEF PaddingInv, Octet
<1>2. Len(plain) <= MaxLen \/ Len(plain) = 4
  BY DEF PaddingInv, Magic
<1> DEFINE n == Len(plain)
<1>3. n \in Nat /\ (n <= MaxLen \/ n = 4) /\ MaxLen \in Nat
  BY <1>1, <1>2, BlockFacts
<1> HIDE DEF n
<1>4. FourBytes(n)
  BY <1>3, LengthAssumption, SMT DEF FourBytes
<1> QED BY <1>1, <1>4 DEF n

LEMMA ReceiveKeeps ==
  ASSUME PaddingInv, Receive
  PROVE  PaddingInv'
<1>1. /\ plain \in Seq(Octet) /\ FourBytes(Len(plain)) /\ Len(plain) \in Nat
      /\ plain # Unread
  BY Sized, BlocksAssumption DEF Octet
<1>2. UNCHANGED <<plain, form, wire>> /\ form # Unread /\ Framed
  BY DEF Receive, PaddingInv
<1>3. shown' = IF form \in {"file", "plain file"} THEN DecryptFileBytes(wire) ELSE ReadText(wire)
  BY DEF Receive
<1>4. PICK byte \in Bytes :
        \/ form = "text" /\ wire = PadBytes(plain, Tail_(Len(plain) + 4, PadBlock, byte))
        \/ form = "old text" /\ wire = PadBytes(plain, Tail_(Len(plain) + 4, LegacyPadBlock, byte))
        \/ form = "file" /\ wire = PadFileBytes(plain, Tail_(Len(plain) + 8, FilePadBlock, byte))
        \/ form \in {"plain text", "plain file"} /\ wire = plain
  BY <1>2 DEF Framed
<1>5. ReadAsWritten'
  <2>1. CASE form = "text" \/ form = "old text"
    <3>1. PICK block : /\ block = PadBlock \/ block = LegacyPadBlock
                       /\ wire = PadBytes(plain, Tail_(Len(plain) + 4, block, byte))
      BY <1>4, <2>1
    <3>2. block \in Nat \ {0} /\ Len(plain) + 4 \in Nat
      BY <1>1, <3>1, BlockFacts
    <3>3. PICK rear \in Seq(Octet) :
            rear = Tail_(Len(plain) + 4, block, byte) /\ Len(rear) = TailLen(Len(plain) + 4, block)
      BY <3>2, Tails
    <3>4. CASE Len(plain) <= MaxText
      <4>1. UnpadBytes(PadBytes(plain, rear)) = plain
        BY <1>1, <3>1, <3>3, <3>4, TextRead
      <4>2. shown' = ReadText(wire) /\ UnpadBytes(wire) = plain
        BY <1>3, <2>1, <3>1, <3>3, <4>1
      <4> QED BY <1>1, <1>2, <4>2 DEF ReadText, ReadAsWritten
    <3>5. CASE Len(plain) > MaxText
      BY <1>2, <2>1, <3>5 DEF ReadAsWritten
    <3> QED BY <1>1, <3>4, <3>5, BlockFacts
  <2>2. CASE form = "file"
    <3>1. Len(plain) + 8 \in Nat /\ FilePadBlock \in Nat \ {0}
      BY <1>1, BlockFacts
    <3>2. PICK rear \in Seq(Octet) : /\ rear = Tail_(Len(plain) + 8, FilePadBlock, byte)
                                       /\ Len(rear) = TailLen(Len(plain) + 8, FilePadBlock)
      BY <3>1, Tails
    <3>3. UnpadFileBytes(PadFileBytes(plain, rear)) = plain
      BY <1>1, <3>2, FileRead
    <3>4. shown' = DecryptFileBytes(wire) /\ UnpadFileBytes(wire) = plain
      BY <1>3, <1>4, <2>2, <3>2, <3>3
    <3> QED BY <1>1, <1>2, <3>4 DEF DecryptFileBytes, ReadAsWritten
  <2>3. CASE form = "plain text"
    <3>1. wire = plain /\ shown' = ReadText(plain)
      BY <1>3, <1>4, <2>3
    <3> QED BY <1>2, <2>3, <3>1 DEF ReadText, ReadAsWritten, LooksFramed
  <2>4. CASE form = "plain file"
    <3>1. wire = plain /\ shown' = DecryptFileBytes(plain)
      BY <1>3, <1>4, <2>4
    <3> QED BY <1>2, <2>4, <3>1 DEF DecryptFileBytes, ReadAsWritten, LooksFramed
  <2> QED BY <1>4, <2>1, <2>2, <2>3, <2>4
<1>6. Framed'
  BY <1>2 DEF Framed
<1> QED BY <1>2, <1>5, <1>6 DEF PaddingInv

LEMMA PaddingNext == ASSUME PaddingInv, Next \/ UNCHANGED paddingVars PROVE PaddingInv'
<1>1. CASE UNCHANGED paddingVars
  BY <1>1 DEF paddingVars, PaddingInv, Framed, ReadAsWritten, LooksFramed
<1>2. ASSUME NEW byte \in Bytes, Write(byte) PROVE PaddingInv'
  <2>1. plain \in Seq(0 .. 255) /\ byte \in 0 .. 255 /\ Len(plain) \in Nat
    BY Sized, BlocksAssumption DEF Octet
  <2>2. plain' = Append(plain, byte) /\ Len(plain) < MaxLen /\ UNCHANGED <<form, wire, shown>>
        /\ form = Unread
    BY <1>2 DEF Write
  <2>3. plain' \in Seq(0 .. 255) /\ Len(plain') = Len(plain) + 1
    BY <2>1, <2>2
  <2>4. Len(plain') <= MaxLen
    BY <2>1, <2>2, <2>3, BlockFacts
  <2>5. shown' = Unread
    BY <2>2 DEF PaddingInv
  <2> QED BY <2>2, <2>3, <2>4, <2>5 DEF PaddingInv, ReadAsWritten
<1>3. ASSUME NEW byte \in Bytes, Send(byte) PROVE PaddingInv'
  <2>1. UNCHANGED <<plain, shown>> /\ form = Unread
    BY <1>3 DEF Send, Sends
  <2>2. shown = Unread
    BY <2>1 DEF PaddingInv
  <2>3. Framed'
    BY <1>3 DEF Send, Sends, Framed
  <2> QED BY <2>1, <2>2, <2>3 DEF PaddingInv, ReadAsWritten
<1> QED BY <1>1, <1>2, <1>3, ReceiveKeeps DEF Next

-----------------------------------------------------------------------------
(* Notes: ends of sequences.                                                *)

LEMMA NotesBounds == MaxEntries \in Nat
BY BoundsAssumption

LEMMA ListFacts ==
  ASSUME NEW s \in Note!Lists
  PROVE  /\ Len(s) \in Nat /\ DOMAIN s = 1 .. Len(s) /\ s = [i \in 1 .. Len(s) |-> s[i]]
         /\ \A i \in 1 .. Len(s) : s[i] \in Nat
BY DEF Note!Lists

(* The newest entries are the end of a sequence, and all of a short one.    *)
LEMMA NewestEnds ==
  ASSUME NEW s \in Note!Lists
  PROVE  /\ Note!Newest(s) \in Note!Lists /\ Note!Ends(Note!Newest(s), s)
         /\ Len(Note!Newest(s)) = IF Len(s) > MaxEntries THEN MaxEntries ELSE Len(s)
         /\ Len(s) <= MaxEntries => Note!Newest(s) = s
<1> DEFINE from == IF Len(s) > MaxEntries THEN Len(s) - MaxEntries + 1 ELSE 1
           to == Len(s)
           k == IF Len(s) > MaxEntries THEN MaxEntries ELSE Len(s)
<1>0. Len(s) \in Nat /\ MaxEntries \in Nat /\ \A i \in 1 .. Len(s) : s[i] \in Nat
  BY NotesBounds, ListFacts
<1>1. /\ from \in Int /\ to \in Int /\ \A i \in from .. to : s[i] \in Nat
      /\ from >= 1 /\ k = to - from + 1 /\ k \in Nat /\ k <= to
  BY <1>0
<1>2. /\ SubSeq(s, from, to) \in Seq(Nat)
      /\ Len(SubSeq(s, from, to)) = IF from <= to THEN to - from + 1 ELSE 0
      /\ \A i \in 1 .. (to - from + 1) : SubSeq(s, from, to)[i] = s[from + i - 1]
  <2> HIDE DEF from, to
  <2> QED BY <1>1, SubSeqProperties
<1> DEFINE r == SubSeq(s, from, to)
<1>3. Note!Newest(s) = r
  BY DEF Note!Newest
<1>4. r \in Note!Lists /\ Len(r) = k
  BY <1>1, <1>2 DEF Note!Lists
<1>5. Note!Ends(r, s)
  <2> SUFFICES ASSUME NEW i \in DOMAIN r PROVE Len(r) <= Len(s) /\ r[i] = s[i + (Len(s) - Len(r))]
    <3>1. Len(r) <= Len(s)
      BY <1>1, <1>4
    <3> QED BY <3>1 DEF Note!Ends
  <2>1. i \in 1 .. k
    BY <1>4, ListFacts
  <2>2. r[i] = s[from + i - 1]
    BY <1>1, <1>2, <2>1
  <2>3. from + i - 1 = i + (Len(s) - k)
    <3>1. from = Len(s) - k + 1 /\ i \in Int
      BY <1>0, <2>1
    <3> HIDE DEF from, k
    <3> QED BY <1>0, <1>1, <3>1
  <2>4. Len(r) <= Len(s) /\ Len(r) = k
    BY <1>1, <1>4
  <2> HIDE DEF from, to, k, r
  <2> QED BY <2>2, <2>3, <2>4
<1>6. ASSUME Len(s) <= MaxEntries PROVE r = s
  <2>1. k = Len(s) /\ Len(s) - Len(r) = 0
    BY <1>4, <1>6, ListFacts, NotesBounds
  <2> HIDE DEF r, k
  <2>2. \A i \in 1 .. Len(s) : r[i] = s[i]
    <3> TAKE i \in 1 .. Len(s)
    <3>1. i \in DOMAIN r /\ i + (Len(s) - Len(r)) = i
      BY <1>4, <2>1, ListFacts
    <3> QED BY <1>5, <3>1 DEF Note!Ends
  <2> QED BY <1>4, <2>1, <2>2, ListFacts
<1> HIDE DEF r
<1> QED BY <1>3, <1>4, <1>5, <1>6

LEMMA EndsTransitive ==
  ASSUME NEW r \in Note!Lists, NEW s \in Note!Lists, NEW t \in Note!Lists,
         Note!Ends(r, s), Note!Ends(s, t)
  PROVE  Note!Ends(r, t)
<1>1. Len(r) <= Len(s) /\ Len(s) <= Len(t) /\ Len(r) \in Nat /\ Len(s) \in Nat /\ Len(t) \in Nat
  BY ListFacts DEF Note!Ends
<1>2. ASSUME NEW i \in DOMAIN r PROVE r[i] = t[i + (Len(t) - Len(r))]
  <2> DEFINE j == i + (Len(s) - Len(r))
  <2>1. j \in DOMAIN s /\ r[i] = s[j] /\ j + (Len(t) - Len(s)) = i + (Len(t) - Len(r))
    BY <1>1, ListFacts DEF Note!Ends
  <2> HIDE DEF j
  <2> QED BY <2>1 DEF Note!Ends
<1> QED BY <1>1, <1>2 DEF Note!Ends

LEMMA EndsUnique ==
  ASSUME NEW r \in Note!Lists, NEW s \in Note!Lists, NEW t \in Note!Lists,
         Note!Ends(r, t), Note!Ends(s, t), Len(r) = Len(s)
  PROVE  r = s
<1>1. \A i \in 1 .. Len(s) : r[i] = s[i]
  BY ListFacts DEF Note!Ends
<1> QED BY <1>1, ListFacts

LEMMA Appended ==
  ASSUME NEW s \in Note!Lists, NEW x \in Nat
  PROVE  /\ Append(s, x) \in Note!Lists /\ Len(Append(s, x)) = Len(s) + 1
         /\ Append(s, x)[Len(s) + 1] = x /\ \A i \in 1 .. Len(s) : Append(s, x)[i] = s[i]
BY AppendProperties DEF Note!Lists

(* Both grow at the end.                                                    *)
LEMMA EndsGrow ==
  ASSUME NEW s \in Note!Lists, NEW w \in Note!Lists, Note!Ends(s, w), NEW x \in Nat
  PROVE  Note!Ends(Append(s, x), Append(w, x))
<1> DEFINE a == Append(s, x)
           b == Append(w, x)
<1>1. /\ a \in Note!Lists /\ Len(a) = Len(s) + 1 /\ a[Len(s) + 1] = x
      /\ \A i \in 1 .. Len(s) : a[i] = s[i]
  BY Appended
<1>2. /\ b \in Note!Lists /\ Len(b) = Len(w) + 1 /\ b[Len(w) + 1] = x
      /\ \A i \in 1 .. Len(w) : b[i] = w[i]
  BY Appended
<1> HIDE DEF a, b
<1>3. Len(s) \in Nat /\ Len(w) \in Nat /\ Len(s) <= Len(w)
  BY ListFacts DEF Note!Ends
<1>4. ASSUME NEW i \in DOMAIN a PROVE a[i] = b[i + (Len(b) - Len(a))]
  <2>1. i \in 1 .. (Len(s) + 1) /\ Len(b) - Len(a) = Len(w) - Len(s)
    BY <1>1, <1>2, <1>3, ListFacts
  <2>2. CASE i = Len(s) + 1
    BY <1>1, <1>2, <1>3, <2>1, <2>2
  <2>3. CASE i # Len(s) + 1
    <3>1. i \in 1 .. Len(s) /\ i + (Len(w) - Len(s)) \in 1 .. Len(w)
      BY <1>3, <2>1, <2>3
    <3>2. s[i] = w[i + (Len(w) - Len(s))]
      BY <3>1, ListFacts DEF Note!Ends
    <3> QED BY <1>1, <1>2, <2>1, <3>1, <3>2
  <2> QED BY <2>2, <2>3
<1>5. Len(a) <= Len(b)
  BY <1>1, <1>2, <1>3
<1> QED BY <1>4, <1>5 DEF Note!Ends, a, b

(* What was cut off before does not come back.                              *)
LEMMA NewestAgain ==
  ASSUME NEW s \in Note!Lists, NEW x \in Nat
  PROVE  Note!Newest(Append(Note!Newest(s), x)) = Note!Newest(Append(s, x))
<1> DEFINE n == Note!Newest(s)
           a == Append(n, x)
           b == Append(s, x)
<1>1. /\ n \in Note!Lists /\ Note!Ends(n, s)
      /\ Len(n) = IF Len(s) > MaxEntries THEN MaxEntries ELSE Len(s)
  BY NewestEnds
<1>2. /\ a \in Note!Lists /\ b \in Note!Lists /\ Note!Ends(a, b)
      /\ Len(a) = Len(n) + 1 /\ Len(b) = Len(s) + 1
  <2> HIDE DEF n
  <2> QED BY <1>1, Appended, EndsGrow
<1> HIDE DEF n, a, b
<1>3. /\ Note!Newest(a) \in Note!Lists /\ Note!Ends(Note!Newest(a), a)
      /\ Len(Note!Newest(a)) = IF Len(a) > MaxEntries THEN MaxEntries ELSE Len(a)
  BY <1>2, NewestEnds
<1>4. /\ Note!Newest(b) \in Note!Lists /\ Note!Ends(Note!Newest(b), b)
      /\ Len(Note!Newest(b)) = IF Len(b) > MaxEntries THEN MaxEntries ELSE Len(b)
  BY <1>2, NewestEnds
<1>5. Len(Note!Newest(a)) = Len(Note!Newest(b))
  <2>1. Len(s) \in Nat /\ MaxEntries \in Nat
    BY ListFacts, NotesBounds
  <2> QED BY <1>1, <1>2, <1>3, <1>4, <2>1
<1>6. Note!Ends(Note!Newest(a), b)
  BY <1>2, <1>3, EndsTransitive
<1>7. Note!Newest(a) = Note!Newest(b)
  BY <1>2, <1>3, <1>4, <1>5, <1>6, EndsUnique
<1> QED BY <1>7 DEF n, a, b

LEMMA EndsAreSuffixes ==
  ASSUME NEW s \in Note!Lists, NEW w \in Note!Lists, Note!Ends(s, w)
  PROVE  Note!IsSuffix(s, w)
<1> DEFINE a == Note!Reverse(s)
           b == Note!Reverse(w)
<1>1. /\ Len(s) \in Nat /\ Len(w) \in Nat /\ Len(s) <= Len(w)
      /\ \A i \in 1 .. Len(s) : s[i] \in Nat
      /\ \A i \in 1 .. Len(w) : w[i] \in Nat
  BY ListFacts DEF Note!Ends
<1>2. /\ a = [i \in 1 .. Len(s) |-> s[(Len(s) - i) + 1]]
      /\ b = [i \in 1 .. Len(w) |-> w[(Len(w) - i) + 1]]
  BY DEF Note!Reverse
<1> HIDE DEF a, b
<1>3. a \in Seq(Nat) /\ b \in Seq(Nat) /\ Len(a) = Len(s) /\ Len(b) = Len(w)
  BY <1>1, <1>2
<1>4. ASSUME NEW i \in 1 .. Len(s) PROVE a[i] = b[i]
  <2>1. /\ a[i] = s[(Len(s) - i) + 1] /\ b[i] = w[(Len(w) - i) + 1]
        /\ (Len(s) - i) + 1 \in 1 .. Len(s)
        /\ (Len(s) - i) + 1 + (Len(w) - Len(s)) = (Len(w) - i) + 1
    BY <1>1, <1>2
  <2> DEFINE j == (Len(s) - i) + 1
  <2>2. s[j] = w[j + (Len(w) - Len(s))]
    BY <2>1, ListFacts DEF Note!Ends
  <2> QED BY <2>1, <2>2
<1>5. /\ SubSeq(a, 1, Len(a)) = [i \in 1 .. Len(s) |-> a[i]]
      /\ SubSeq(b, 1, Len(a)) = [i \in 1 .. Len(s) |-> b[i]]
  BY <1>1, <1>3
<1>6. SubSeq(a, 1, Len(a)) = SubSeq(b, 1, Len(a))
  BY <1>4, <1>5
<1> QED BY <1>1, <1>3, <1>6 DEF Note!IsSuffix, Note!IsPrefix, a, b

(* A note is taken out, at its place, of a list that has it once.           *)
Once(s) == \A i, j \in DOMAIN s : s[i] = s[j] => i = j

LEMMA TakenOut ==
  ASSUME NEW s \in Note!Lists, Once(s), NEW j \in DOMAIN s
  PROVE  LET r == Note!Without(s, s[j])
         IN  /\ r \in Note!Lists /\ Len(r) = Len(s) - 1
             /\ \A i \in 1 .. Len(r) : r[i] = IF i < j THEN s[i] ELSE s[i + 1]
<1>1. s[j] \in Note!ToSet(s)
  BY DEF Note!ToSet
<1>2. (CHOOSE i \in DOMAIN s : s[i] = s[j]) = j
  BY DEF Once
<1> DEFINE rest == SubSeq(s, 1, j - 1) \o SubSeq(s, j + 1, Len(s))
<1>3. Note!Without(s, s[j]) = rest
  BY <1>1, <1>2 DEF Note!Without, Note!RemoveAt
<1>4. /\ rest \in Seq(Nat) /\ DOMAIN rest = 1 .. (Len(s) - 1)
      /\ \A i \in 1 .. (Len(s) - 1) : rest[i] = IF i < j THEN s[i] ELSE s[i + 1]
  BY Removed DEF Note!Lists
<1> HIDE DEF rest
<1>5. rest \in Note!Lists /\ Len(rest) = Len(s) - 1
  <2>1. rest \in Note!Lists /\ Len(s) \in Nat /\ j \in 1 .. Len(s)
    BY <1>4, ListFacts DEF Note!Lists
  <2>2. 1 .. Len(rest) = 1 .. (Len(s) - 1) /\ Len(rest) \in Nat
    BY <1>4, <2>1, ListFacts
  <2> QED BY <2>1, <2>2
<1> QED BY <1>3, <1>4, <1>5

LEMMA NotThere ==
  ASSUME NEW s \in Note!Lists, NEW n, \A i \in DOMAIN s : s[i] # n
  PROVE  Note!Without(s, n) = s
<1>1. n \notin Note!ToSet(s)
  BY DEF Note!ToSet
<1> QED BY <1>1 DEF Note!Without

(* What is left of a list are entries of it, at places in the same order.   *)
LEMMA LeftOver ==
  ASSUME NEW s \in Note!Lists, Once(s), NEW n
  PROVE  LET r == Note!Without(s, n)
         IN  /\ r \in Note!Lists /\ Len(r) <= Len(s)
             /\ \E at \in [DOMAIN r -> DOMAIN s] :
                   /\ \A i \in DOMAIN r : r[i] = s[at[i]]
                   /\ \A i, k \in DOMAIN r : at[i] = at[k] => i = k
<1> DEFINE r == Note!Without(s, n)
<1>1. CASE \E j \in DOMAIN s : s[j] = n
  <2>1. PICK j \in DOMAIN s : s[j] = n
    BY <1>1
  <2>2. /\ r \in Note!Lists /\ Len(r) = Len(s) - 1
        /\ \A i \in 1 .. Len(r) : r[i] = IF i < j THEN s[i] ELSE s[i + 1]
    BY <2>1, TakenOut
  <2> HIDE DEF r
  <2>3. /\ DOMAIN r = 1 .. (Len(s) - 1) /\ DOMAIN s = 1 .. Len(s)
        /\ Len(s) \in Nat /\ j \in 1 .. Len(s)
    BY <2>2, ListFacts
  <2> DEFINE at == [i \in DOMAIN r |-> IF i < j THEN i ELSE i + 1]
  <2>4. at \in [DOMAIN r -> DOMAIN s]
    BY <2>3
  <2>5. \A i \in DOMAIN r : r[i] = s[at[i]]
    BY <2>2, <2>3
  <2>6. \A i, k \in DOMAIN r : at[i] = at[k] => i = k
    BY <2>3
  <2>7. Len(r) <= Len(s)
    BY <2>2, <2>3
  <2> HIDE DEF at
  <2> QED BY <2>2, <2>4, <2>5, <2>6, <2>7 DEF r
<1>2. CASE \A j \in DOMAIN s : s[j] # n
  <2>1. r = s
    BY <1>2, NotThere
  <2> HIDE DEF r
  <2> DEFINE at == [i \in DOMAIN r |-> i]
  <2>2. at \in [DOMAIN r -> DOMAIN s] /\ \A i \in DOMAIN r : at[i] = i
    BY <2>1
  <2>3. Len(r) <= Len(s)
    BY <2>1, ListFacts
  <2> HIDE DEF at
  <2> QED BY <2>1, <2>2, <2>3 DEF r
<1> QED BY <1>1, <1>2

(* The end of a list without a note is the end of the list without it.      *)
LEMMA EndsShrink ==
  ASSUME NEW s \in Note!Lists, NEW w \in Note!Lists, Once(w), Note!Ends(s, w), NEW j \in DOMAIN s
  PROVE  Note!Ends(Note!Without(s, s[j]), Note!Without(w, s[j]))
<1> DEFINE k == j + (Len(w) - Len(s))
<1>1. /\ Len(s) \in Nat /\ Len(w) \in Nat /\ Len(s) <= Len(w)
      /\ DOMAIN s = 1 .. Len(s) /\ DOMAIN w = 1 .. Len(w)
  BY ListFacts DEF Note!Ends
<1>2. k \in DOMAIN w /\ k = j + (Len(w) - Len(s))
  BY <1>1
<1>3. w[k] = s[j]
  BY <1>1 DEF Note!Ends
<1> HIDE DEF k
<1>4. Once(s)
  <2> SUFFICES ASSUME NEW a \in DOMAIN s, NEW b \in DOMAIN s, s[a] = s[b] PROVE a = b
    BY DEF Once
  <2> DEFINE c == a + (Len(w) - Len(s))
             d == b + (Len(w) - Len(s))
  <2>1. c \in DOMAIN w /\ d \in DOMAIN w
    BY <1>1
  <2>2. w[c] = w[d]
    BY <1>1 DEF Note!Ends
  <2>3. c = d
    BY <2>1, <2>2 DEF Once
  <2> QED BY <1>1, <2>3
<1> DEFINE q == Note!Without(s, s[j])
           r == Note!Without(w, w[k])
<1>5. /\ q \in Note!Lists /\ Len(q) = Len(s) - 1
      /\ \A i \in 1 .. Len(q) : q[i] = IF i < j THEN s[i] ELSE s[i + 1]
  BY <1>4, TakenOut
<1>6. /\ r \in Note!Lists /\ Len(r) = Len(w) - 1
      /\ \A i \in 1 .. Len(r) : r[i] = IF i < k THEN w[i] ELSE w[i + 1]
  BY <1>2, TakenOut
<1> HIDE DEF q, r
<1>7. ASSUME NEW i \in DOMAIN q PROVE q[i] = r[i + (Len(r) - Len(q))]
  <2> DEFINE d == Len(w) - Len(s)
  <2>1. /\ d \in Nat /\ Len(r) - Len(q) = d /\ i \in 1 .. (Len(s) - 1) /\ i \in 1 .. Len(q)
        /\ i + d \in 1 .. Len(r) /\ k = j + d /\ j \in 1 .. Len(s) /\ Len(w) - Len(s) = d
    BY <1>1, <1>2, <1>5, <1>6, ListFacts
  <2>2. \A x \in 1 .. Len(s) : s[x] = w[x + d]
    BY <1>1 DEF Note!Ends
  <2> HIDE DEF d
  <2>3. CASE i < j
    <3>1. i \in 1 .. Len(s) /\ i + d < k
      BY <1>1, <2>1, <2>3
    <3>2. q[i] = s[i] /\ r[i + d] = w[i + d] /\ s[i] = w[i + d]
      BY <1>5, <1>6, <2>1, <2>2, <2>3, <3>1
    <3> QED BY <2>1, <3>2
  <2>4. CASE ~(i < j)
    <3>0. i \in Nat /\ j \in Nat /\ d \in Nat /\ k = j + d /\ i <= Len(s) - 1
      BY <1>1, <2>1
    <3>1. i + 1 \in 1 .. Len(s) /\ ~(i + d < k) /\ i + 1 + d = i + d + 1
      BY <1>1, <2>4, <3>0
    <3>2. q[i] = s[i + 1] /\ r[i + d] = w[i + d + 1] /\ s[i + 1] = w[i + 1 + d]
      BY <1>5, <1>6, <2>1, <2>2, <2>4, <3>1
    <3> QED BY <2>1, <3>1, <3>2
  <2> QED BY <2>3, <2>4
<1>8. Len(q) <= Len(r)
  BY <1>1, <1>5, <1>6
<1>9. Note!Ends(q, r)
  BY <1>7, <1>8 DEF Note!Ends
<1> QED BY <1>3, <1>9 DEF q, r

-----------------------------------------------------------------------------
(* Notes of two accounts.                                                   *)

LEMMA NotesInit == ASSUME Note!Init PROVE Note!NotesInv
<1>1. <<>> \in Note!Lists /\ DOMAIN <<>> = {} /\ Len(<<>>) = 0
  BY DEF Note!Lists
<1>2. Note!Newest(<<>>) = <<>>
  BY <1>1, NewestEnds, NotesBounds
<1>3. /\ v1 \in Profiles /\ v2 = [t \in Pair |-> v1] /\ v3 = [t \in Pair |-> <<>>]
      /\ v4 = [p \in Profiles |-> <<>>] /\ v5 = [note |-> 0, text |-> 0]
      /\ v6 = [p \in Profiles |-> <<>>] /\ v7 = FALSE
      /\ v8 = [p \in Profiles |-> <<>>] /\ v9 = [p \in Profiles |-> <<>>]
  BY DEF Note!Init, Note!Nowhere
<1>4. Note!WantedOnce
  BY <1>1, <1>3 DEF Note!WantedOnce
<1>5. \A p \in Profiles : Note!Ends(v4[p], v6[p]) /\ v4[p] = v6[p]
  BY <1>1, <1>3 DEF Note!Ends
<1>6. Note!OwnTextsKept
  BY <1>2, <1>3 DEF Note!OwnTextsKept
<1> QED BY <1>1, <1>3, <1>4, <1>5, <1>6 DEF Note!NotesInv

(* The stored list is the end of the wanted one, all of it while there are  *)
(* few.                                                                     *)
Covers(p) == Note!Ends(v4[p], v6[p]) /\ (v5.note <= MaxEntries => v4[p] = v6[p])

LEMMA NotesParts ==
  ASSUME Note!NotesInv
  PROVE  /\ v1 \in Profiles /\ v2 \in [Pair -> Profiles] /\ v7 \in BOOLEAN
         /\ v5 \in [note : Nat, text : Nat] /\ v3 \in [Pair -> Note!Lists]
         /\ v4 \in [Profiles -> Note!Lists] /\ v6 \in [Profiles -> Note!Lists]
         /\ v8 \in [Profiles -> Note!Lists] /\ v9 \in [Profiles -> Note!Lists]
         /\ Note!WantedOnce /\ Note!OwnTextsKept
         /\ ~v7 => \A p \in Profiles : Covers(p)
BY DEF Note!NotesInv, Covers

(* A change of the favourites leaves the sent texts alone.                  *)
LEMMA NotesChange ==
  ASSUME Note!NotesInv, v1' \in Profiles, v2' \in [Pair -> Profiles], v7' \in BOOLEAN,
         v5' \in [note : Nat, text : Nat], v3' \in [Pair -> Note!Lists],
         v4' \in [Profiles -> Note!Lists], v6' \in [Profiles -> Note!Lists],
         Note!WantedOnce', ~v7' => \A p \in Profiles : Covers(p)',
         UNCHANGED <<v8, v9, v10>> \/ (v8' \in [Profiles -> Note!Lists] /\ v9' \in [Profiles -> Note!Lists]
                                        /\ Note!OwnTextsKept')
  PROVE  Note!NotesInv'
BY DEF Note!NotesInv, Note!OwnTextsKept, Covers

LEMMA Wrote ==
  ASSUME Note!NotesInv, NEW t \in Pair, NEW list \in Note!Lists, Note!Written(t, list)
  PROVE  /\ v3' \in [Pair -> Note!Lists] /\ v4' \in [Profiles -> Note!Lists] /\ v7' \in BOOLEAN
         /\ v4' = [v4 EXCEPT ![v1] = list] /\ v4'[v1] = list
         /\ ~v7' => ~v7 /\ v2[t] = v1 /\ v3[t] = v4[v1]
<1> HIDE DEF Note!Lists
<1> QED BY NotesParts DEF Note!Written

(* Fewer are wanted, none of them anew.                                     *)
LEMMA FewerWanted ==
  ASSUME Note!NotesInv, UNCHANGED v5, v6' \in [Profiles -> Note!Lists],
         \A p \in Profiles :
            /\ Len(v6'[p]) <= Len(v6[p])
            /\ \E at \in [DOMAIN v6'[p] -> DOMAIN v6[p]] :
                  /\ \A i \in DOMAIN v6'[p] : v6'[p][i] = v6[p][at[i]]
                  /\ \A i, k \in DOMAIN v6'[p] : at[i] = at[k] => i = k
  PROVE  Note!WantedOnce'
<1>1. ASSUME NEW p \in Profiles, NEW q \in Profiles, NEW i \in DOMAIN v6'[p], NEW j \in DOMAIN v6'[q],
             v6'[p][i] = v6'[q][j]
      PROVE  p = q /\ i = j
  <2>1. PICK at \in [DOMAIN v6'[p] -> DOMAIN v6[p]] :
          /\ \A x \in DOMAIN v6'[p] : v6'[p][x] = v6[p][at[x]]
          /\ \A x, k \in DOMAIN v6'[p] : at[x] = at[k] => x = k
    OBVIOUS
  <2>2. PICK bt \in [DOMAIN v6'[q] -> DOMAIN v6[q]] : \A x \in DOMAIN v6'[q] : v6'[q][x] = v6[q][bt[x]]
    OBVIOUS
  <2>3. p = q
    BY <1>1, <2>1, <2>2, NotesParts DEF Note!WantedOnce
  <2>4. v6[p][at[i]] = v6[p][at[j]] /\ j \in DOMAIN v6'[p]
    BY <1>1, <2>1, <2>3
  <2>5. at[i] = at[j]
    BY <2>1, <2>4, NotesParts DEF Note!WantedOnce
  <2> QED BY <2>1, <2>3, <2>4, <2>5
<1>2. ASSUME NEW p \in Profiles
      PROVE  Len(v6'[p]) <= v5.note /\ \A i \in DOMAIN v6'[p] : v6'[p][i] <= v5.note
  <2>1. Len(v6'[p]) \in Nat /\ Len(v6[p]) \in Nat /\ v5.note \in Nat
        /\ Len(v6[p]) <= v5.note /\ Len(v6'[p]) <= Len(v6[p])
    BY NotesParts, ListFacts DEF Note!WantedOnce
  <2>2. \A i \in DOMAIN v6'[p] : v6'[p][i] <= v5.note
    BY NotesParts DEF Note!WantedOnce
  <2> QED BY <2>1, <2>2
<1> QED BY <1>1, <1>2 DEF Note!WantedOnce

(* Whatever is filtered out, a list is left.                                *)
LEMMA StaysAList ==
  ASSUME NEW s \in Note!Lists, NEW n PROVE Note!Without(s, n) \in Note!Lists
<1>1. CASE n \in Note!ToSet(s)
  <2>1. PICK j \in DOMAIN s : s[j] = n /\ j = CHOOSE i \in DOMAIN s : s[i] = n
    BY <1>1 DEF Note!ToSet
  <2>2. Note!Without(s, n) = SubSeq(s, 1, j - 1) \o SubSeq(s, j + 1, Len(s))
    BY <1>1, <2>1 DEF Note!Without, Note!RemoveAt
  <2> QED BY <2>2, Removed DEF Note!Lists
<1>2. CASE n \notin Note!ToSet(s)
  BY <1>2 DEF Note!Without
<1> QED BY <1>1, <1>2

(* A note is added at the end of both.                                      *)
LEMMA NoteAdded == ASSUME Note!NotesInv, NEW t \in Pair, Note!AddNote(t) PROVE Note!NotesInv'
<1> DEFINE n == v5.note + 1
<1>1. /\ v5' = [v5 EXCEPT !.note = n] /\ v6' = [v6 EXCEPT ![v2[t]] = Append(v6[v2[t]], n)]
      /\ Note!Written(t, Note!Newest(Append(v3[t], n))) /\ UNCHANGED <<v1, v2, v8, v9, v10>>
  BY DEF Note!AddNote
<1>2. n \in Nat /\ v5.note \in Nat /\ v5' \in [note : Nat, text : Nat] /\ v5'.note = n
  BY <1>1, NotesParts
<1>3. v3[t] \in Note!Lists /\ v2[t] \in Profiles /\ v6[v2[t]] \in Note!Lists
  BY NotesParts
<1> DEFINE h == v2[t]
           g == Append(v6[h], n)
           list == Note!Newest(Append(v3[t], n))
<1>4. /\ Append(v3[t], n) \in Note!Lists /\ list \in Note!Lists
  <2> HIDE DEF n
  <2> QED BY <1>2, <1>3, Appended, NewestEnds
<1>5. /\ g \in Note!Lists /\ Len(g) = Len(v6[h]) + 1 /\ g[Len(v6[h]) + 1] = n
      /\ \A i \in 1 .. Len(v6[h]) : g[i] = v6[h][i]
  <2> HIDE DEF n
  <2> QED BY <1>2, <1>3, Appended
<1> HIDE DEF g, n, list
<1>6. /\ v6' \in [Profiles -> Note!Lists] /\ v6'[h] = g
      /\ \A p \in Profiles \ {h} : v6'[p] = v6[p]
  BY <1>1, <1>3, <1>5, NotesParts DEF g
<1>7. /\ v3' \in [Pair -> Note!Lists] /\ v4' \in [Profiles -> Note!Lists] /\ v7' \in BOOLEAN
      /\ v4' = [v4 EXCEPT ![v1] = list] /\ v4'[v1] = list
      /\ ~v7' => ~v7 /\ v2[t] = v1 /\ v3[t] = v4[v1]
  BY <1>1, <1>4, Wrote DEF list, n
<1>8. \A p \in Profiles : \A i \in DOMAIN v6'[p] :
        \/ v6'[p][i] = n /\ p = h /\ i = Len(v6[h]) + 1
        \/ i \in DOMAIN v6[p] /\ v6'[p][i] = v6[p][i] /\ v6[p][i] <= v5.note /\ v6[p][i] \in Nat
  <2> SUFFICES ASSUME NEW p \in Profiles, NEW i \in DOMAIN v6'[p]
               PROVE  \/ v6'[p][i] = n /\ p = h /\ i = Len(v6[h]) + 1
                      \/ i \in DOMAIN v6[p] /\ v6'[p][i] = v6[p][i] /\ v6[p][i] <= v5.note /\ v6[p][i] \in Nat
    OBVIOUS
  <2>1. v6[p] \in Note!Lists /\ \A x \in DOMAIN v6[p] : v6[p][x] <= v5.note
    BY NotesParts DEF Note!WantedOnce
  <2>2. /\ Len(v6[p]) \in Nat /\ DOMAIN v6[p] = 1 .. Len(v6[p])
        /\ \A x \in 1 .. Len(v6[p]) : v6[p][x] \in Nat
    BY <2>1, ListFacts
  <2>3. CASE p # h
    BY <1>6, <2>1, <2>2, <2>3
  <2>4. CASE p = h
    <3>1. i \in 1 .. (Len(v6[h]) + 1)
      BY <1>5, <1>6, <2>4, ListFacts
    <3> QED BY <1>5, <1>6, <2>1, <2>2, <2>4, <3>1
  <2> QED BY <2>3, <2>4
<1>9. Note!WantedOnce'
  <2>1. ASSUME NEW p \in Profiles, NEW q \in Profiles, NEW i \in DOMAIN v6'[p], NEW j \in DOMAIN v6'[q],
               v6'[p][i] = v6'[q][j]
        PROVE  p = q /\ i = j
    <3>1. n = v5.note + 1 /\ v5.note \in Nat
      BY <1>2 DEF n
    <3>2. CASE v6'[p][i] = n
      <4>1. p = h /\ i = Len(v6[h]) + 1
        BY <1>8, <3>1, <3>2
      <4>2. v6'[q][j] = n
        BY <2>1, <3>2
      <4>3. q = h /\ j = Len(v6[h]) + 1
        BY <1>8, <3>1, <4>2
      <4> QED BY <4>1, <4>3
    <3>3. CASE v6'[p][i] # n
      <4>1. i \in DOMAIN v6[p] /\ j \in DOMAIN v6[q] /\ v6[p][i] = v6[q][j]
        BY <1>8, <2>1, <3>3
      <4> QED BY <4>1, NotesParts DEF Note!WantedOnce
    <3> QED BY <3>2, <3>3
  <2>2. ASSUME NEW p \in Profiles
        PROVE  Len(v6'[p]) <= n /\ \A i \in DOMAIN v6'[p] : v6'[p][i] <= n
    <3>1. n = v5.note + 1 /\ v5.note \in Nat
      BY <1>2 DEF n
    <3>2. Len(v6[p]) <= v5.note /\ Len(v6[p]) \in Nat
      BY NotesParts, ListFacts DEF Note!WantedOnce
    <3>3. Len(v6'[p]) <= n
      <4>1. CASE p = h
        BY <1>5, <1>6, <3>1, <3>2, <4>1
      <4>2. CASE p # h
        BY <1>6, <3>1, <3>2, <4>2
      <4> QED BY <4>1, <4>2
    <3>4. \A i \in DOMAIN v6'[p] : v6'[p][i] <= n
      BY <1>8, <3>1
    <3> QED BY <3>3, <3>4
  <2> QED BY <1>2, <2>1, <2>2 DEF Note!WantedOnce
<1>10. ASSUME ~v7', NEW p \in Profiles PROVE Covers(p)'
  <2>1. ~v7 /\ h = v1 /\ v3[t] = v4[v1] /\ \A x \in Profiles : Covers(x)
    BY <1>7, <1>10, NotesParts
  <2>2. CASE p # v1
    <3>1. v4'[p] = v4[p] /\ v6'[p] = v6[p]
      BY <1>6, <1>7, <2>1, <2>2, NotesParts
    <3>2. v5'.note <= MaxEntries => v5.note <= MaxEntries
      BY <1>2, NotesBounds DEF n
    <3> QED BY <2>1, <3>1, <3>2 DEF Covers, Note!Ends
  <2>3. CASE p = v1
    <3> DEFINE a == Append(v4[p], n)
    <3>1. /\ v4[p] \in Note!Lists /\ v6[p] \in Note!Lists /\ Note!Ends(v4[p], v6[p])
          /\ v5.note <= MaxEntries => v4[p] = v6[p]
      BY <2>1, NotesParts DEF Covers
    <3>2. a \in Note!Lists /\ Note!Ends(a, g) /\ Len(a) = Len(v4[p]) + 1
      BY <1>2, <2>1, <2>3, <3>1, Appended, EndsGrow DEF g
    <3>3. list = Note!Newest(a)
      BY <2>1, <2>3 DEF list
    <3> HIDE DEF a
    <3>4. Note!Ends(list, a) /\ (Len(a) <= MaxEntries => list = a)
      BY <3>2, <3>3, NewestEnds
    <3>5. Note!Ends(list, g)
      BY <1>4, <1>5, <3>2, <3>4, EndsTransitive
    <3>6. ASSUME n <= MaxEntries PROVE list = g
      <4>1. v5.note <= MaxEntries
        BY <1>2, <3>6, NotesBounds DEF n
      <4>2. a = g
        BY <2>1, <2>3, <3>1, <4>1 DEF a, g
      <4>3. Len(v6[p]) <= v5.note /\ Len(v6[p]) \in Nat
        BY NotesParts, ListFacts DEF Note!WantedOnce
      <4>4. Len(a) <= MaxEntries
        BY <1>2, <1>5, <2>1, <2>3, <3>6, <4>2, <4>3, NotesBounds DEF n
      <4> QED BY <3>4, <4>2, <4>4
    <3>7. v4'[p] = list /\ v6'[p] = g /\ v5'.note = n
      BY <1>2, <1>6, <1>7, <2>1, <2>3
    <3> QED BY <3>5, <3>6, <3>7 DEF Covers, Note!Ends
  <2> QED BY <2>2, <2>3
<1> QED BY <1>1, <1>2, <1>6, <1>7, <1>9, <1>10, NotesChange, NotesParts

(* A list stays wanted but for what a change takes out.                     *)
LEMMA SameList ==
  ASSUME NEW s \in Note!Lists, NEW r, r = s \/ r = <<>>
  PROVE  /\ r \in Note!Lists /\ Len(r) <= Len(s)
         /\ \E at \in [DOMAIN r -> DOMAIN s] :
               /\ \A i \in DOMAIN r : r[i] = s[at[i]]
               /\ \A i, k \in DOMAIN r : at[i] = at[k] => i = k
<1> DEFINE at == [i \in DOMAIN r |-> i]
<1>1. DOMAIN r \subseteq DOMAIN s /\ \A i \in DOMAIN r : r[i] = s[i]
  OBVIOUS
<1>2. at \in [DOMAIN r -> DOMAIN s] /\ \A i \in DOMAIN r : at[i] = i
  BY <1>1
<1>3. r \in Note!Lists /\ Len(r) <= Len(s)
  <2>1. Len(s) \in Nat /\ <<>> \in Note!Lists /\ Len(<<>>) = 0
    BY ListFacts DEF Note!Lists
  <2> QED BY <2>1
<1> HIDE DEF at
<1> QED BY <1>1, <1>2, <1>3

LEMMA NothingLeft == <<>> \in Note!Lists /\ Note!Ends(<<>>, <<>>)
BY DEF Note!Lists, Note!Ends

LEMMA NoteRemoved ==
  ASSUME Note!NotesInv, NEW t \in Pair, NEW n, Note!RemoveNote(t, n) PROVE Note!NotesInv'
<1>1. /\ n \in Note!ToSet(v3[t]) /\ Note!Written(t, Note!Without(v3[t], n))
      /\ v6' = [p \in Profiles |-> Note!Without(v6[p], n)] /\ UNCHANGED <<v1, v2, v5, v8, v9, v10>>
  BY DEF Note!RemoveNote
<1>2. ASSUME NEW p \in Profiles PROVE v6[p] \in Note!Lists /\ Once(v6[p])
  BY NotesParts DEF Note!WantedOnce, Once
<1>3. ASSUME NEW p \in Profiles
      PROVE  /\ v6'[p] \in Note!Lists /\ Len(v6'[p]) <= Len(v6[p])
             /\ \E at \in [DOMAIN v6'[p] -> DOMAIN v6[p]] :
                   /\ \A i \in DOMAIN v6'[p] : v6'[p][i] = v6[p][at[i]]
                   /\ \A i, k \in DOMAIN v6'[p] : at[i] = at[k] => i = k
  <2>1. v6'[p] = Note!Without(v6[p], n)
    BY <1>1
  <2> QED BY <1>2, <2>1, LeftOver
<1>4. v6' \in [Profiles -> Note!Lists]
  BY <1>1, <1>3
<1>5. Note!WantedOnce'
  BY <1>1, <1>3, <1>4, FewerWanted
<1>6. Note!Without(v3[t], n) \in Note!Lists
  <2>1. v3[t] \in Note!Lists
    BY NotesParts
  <2> QED BY <2>1, StaysAList
<1> DEFINE list == Note!Without(v3[t], n)
<1>7. /\ v3' \in [Pair -> Note!Lists] /\ v4' \in [Profiles -> Note!Lists] /\ v7' \in BOOLEAN
      /\ v4' = [v4 EXCEPT ![v1] = list] /\ v4'[v1] = list
      /\ ~v7' => ~v7 /\ v2[t] = v1 /\ v3[t] = v4[v1]
  BY <1>1, <1>6, Wrote
<1> HIDE DEF list
<1>8. ASSUME ~v7', NEW p \in Profiles PROVE Covers(p)'
  <2>1. ~v7 /\ v3[t] = v4[v1] /\ v1 \in Profiles /\ \A x \in Profiles : Covers(x)
    BY <1>7, <1>8, NotesParts
  <2>2. PICK j \in DOMAIN v4[v1] : v4[v1][j] = n
    BY <1>1, <2>1 DEF Note!ToSet
  <2>3. /\ v4[v1] \in Note!Lists /\ v6[v1] \in Note!Lists /\ Note!Ends(v4[v1], v6[v1])
        /\ v5.note <= MaxEntries => v4[v1] = v6[v1]
    BY <2>1, NotesParts DEF Covers
  <2>4. CASE p = v1
    <3>1. Note!Ends(Note!Without(v4[v1], n), Note!Without(v6[v1], n))
      BY <1>2, <2>1, <2>2, <2>3, EndsShrink
    <3>2. v4'[p] = Note!Without(v4[v1], n) /\ v6'[p] = Note!Without(v6[v1], n) /\ v5' = v5
      BY <1>1, <1>7, <2>1, <2>4 DEF list
    <3> QED BY <2>3, <3>1, <3>2 DEF Covers, Note!Ends
  <2>5. CASE p # v1
    <3>1. \E k \in DOMAIN v6[v1] : v6[v1][k] = n
      <4> DEFINE k == j + (Len(v6[v1]) - Len(v4[v1]))
      <4>1. v6[v1][k] = n
        BY <2>2, <2>3 DEF Note!Ends
      <4>2. k \in DOMAIN v6[v1]
        <5>1. /\ Len(v4[v1]) \in Nat /\ Len(v6[v1]) \in Nat /\ Len(v4[v1]) <= Len(v6[v1])
              /\ DOMAIN v4[v1] = 1 .. Len(v4[v1]) /\ DOMAIN v6[v1] = 1 .. Len(v6[v1])
          BY <2>3, ListFacts DEF Note!Ends
        <5>2. \A x, y \in Nat : \A z \in 1 .. x : x <= y => z + (y - x) \in 1 .. y
          OBVIOUS
        <5>3. j \in 1 .. Len(v4[v1])
          BY <2>2, <5>1
        <5> QED BY <5>1, <5>2, <5>3
      <4> QED BY <4>1, <4>2
    <3>2. \A i \in DOMAIN v6[p] : v6[p][i] # n
      BY <2>1, <2>5, <3>1, NotesParts DEF Note!WantedOnce
    <3>3. v6'[p] = v6[p]
      BY <1>1, <1>2, <3>2, NotThere
    <3>4. v4'[p] = v4[p] /\ v5' = v5
      BY <1>1, <1>7, <2>5, NotesParts
    <3> QED BY <2>1, <3>3, <3>4 DEF Covers, Note!Ends
  <2> QED BY <2>4, <2>5
<1> QED BY <1>1, <1>4, <1>5, <1>7, <1>8, NotesChange, NotesParts

(* All the favourites of a profile are dropped.                             *)
LEMMA NotesDropped ==
  ASSUME Note!NotesInv, NEW t \in Pair, NEW h \in Profiles, Note!Written(t, <<>>),
         v6' = [v6 EXCEPT ![h] = <<>>], UNCHANGED <<v1, v2, v5>>, ~v7' => h = v1,
         UNCHANGED <<v8, v9, v10>> \/ (v8' \in [Profiles -> Note!Lists] /\ v9' \in [Profiles -> Note!Lists]
                                        /\ Note!OwnTextsKept')
  PROVE  Note!NotesInv'
<1>1. ASSUME NEW p \in Profiles
      PROVE  /\ v6'[p] \in Note!Lists /\ Len(v6'[p]) <= Len(v6[p])
             /\ \E at \in [DOMAIN v6'[p] -> DOMAIN v6[p]] :
                   /\ \A i \in DOMAIN v6'[p] : v6'[p][i] = v6[p][at[i]]
                   /\ \A i, k \in DOMAIN v6'[p] : at[i] = at[k] => i = k
  <2>1. v6'[p] = v6[p] \/ v6'[p] = <<>>
    BY NotesParts
  <2>2. v6[p] \in Note!Lists
    BY NotesParts
  <2> QED BY <2>1, <2>2, SameList
<1>2. v6' \in [Profiles -> Note!Lists]
  BY NothingLeft, NotesParts
<1>3. Note!WantedOnce'
  BY <1>1, <1>2, FewerWanted
<1>4. /\ v3' \in [Pair -> Note!Lists] /\ v4' \in [Profiles -> Note!Lists] /\ v7' \in BOOLEAN
      /\ v4' = [v4 EXCEPT ![v1] = <<>>]
      /\ ~v7' => ~v7
  BY NothingLeft, Wrote
<1>5. ASSUME ~v7', NEW p \in Profiles PROVE Covers(p)'
  <2>1. h = v1 /\ Covers(p) /\ v5' = v5
    BY <1>4, <1>5, NotesParts
  <2>2. CASE p = h
    <3>1. v4'[p] = <<>> /\ v6'[p] = <<>>
      BY <1>4, <2>1, <2>2, NotesParts
    <3> QED BY <3>1, NothingLeft DEF Covers, Note!Ends
  <2>3. CASE p # h
    <3>1. v4'[p] = v4[p] /\ v6'[p] = v6[p]
      BY <1>4, <2>1, <2>3, NotesParts
    <3> QED BY <2>1, <3>1 DEF Covers, Note!Ends
  <2> QED BY <2>2, <2>3
<1> QED BY <1>2, <1>3, <1>4, <1>5, NotesChange, NotesParts

(* Only the cached texts change.                                            *)
LEMMA TextsChange ==
  ASSUME Note!NotesInv, UNCHANGED <<v1, v2, v3, v4, v6, v7>>, v5' \in [note : Nat, text : Nat],
         v5'.note = v5.note, v8' \in [Profiles -> Note!Lists], v9' \in [Profiles -> Note!Lists],
         Note!OwnTextsKept'
  PROVE  Note!NotesInv'
<1>1. Note!WantedOnce'
  BY NotesParts DEF Note!WantedOnce
<1>2. ASSUME ~v7', NEW p \in Profiles PROVE Covers(p)'
  BY <1>2, NotesParts DEF Covers, Note!Ends
<1> QED BY <1>1, <1>2, NotesChange, NotesParts

LEMMA TextSaved == ASSUME Note!NotesInv, Note!SavePlaintext PROVE Note!NotesInv'
<1> DEFINE n == v5.text + 1
           all == Note!Newest(Append(v8[v1], n))
<1>1. /\ v5' = [v5 EXCEPT !.text = n] /\ v9' = [v9 EXCEPT ![v1] = Append(v9[v1], n)]
      /\ UNCHANGED <<v1, v2, v3, v4, v6, v7>>
      /\ \/ v8' = [v8 EXCEPT ![v1] = all] /\ v10' = v10
         \/ /\ v10' = v10 \cup {v1}
            /\ \/ v8' = [v8 EXCEPT ![v1] = SubSeq(all, (Len(all) + 1) \div 2 + 1, Len(all))]
               \/ v8' = v8
  BY DEF Note!SavePlaintext
<1>2. n \in Nat /\ v5' \in [note : Nat, text : Nat] /\ v5'.note = v5.note
  BY <1>1, NotesParts
<1> HIDE DEF n
<1>3. /\ Append(v8[v1], n) \in Note!Lists /\ Append(v9[v1], n) \in Note!Lists
      /\ v8[v1] \in Note!Lists /\ v9[v1] \in Note!Lists /\ v1 \in Profiles
  BY <1>2, NotesParts, Appended
<1>4. all \in Note!Lists
  BY <1>3, NewestEnds
<1> HIDE DEF all
<1>5. SubSeq(all, (Len(all) + 1) \div 2 + 1, Len(all)) \in Note!Lists
  <2>1. /\ Len(all) \in Nat /\ (Len(all) + 1) \div 2 + 1 \in Nat
        /\ (Len(all) + 1) \div 2 + 1 >= 1
        /\ \A i \in 1 .. Len(all) : all[i] \in Nat
    <3>1. Len(all) \in Nat /\ \A i \in 1 .. Len(all) : all[i] \in Nat
      BY <1>4, ListFacts
    <3>2. \A x \in Nat : (x + 1) \div 2 + 1 \in Nat /\ (x + 1) \div 2 + 1 >= 1
      OBVIOUS
    <3> QED BY <3>1, <3>2
  <2> DEFINE from == (Len(all) + 1) \div 2 + 1
             to == Len(all)
  <2>2. from \in Int /\ to \in Int /\ \A i \in from .. to : all[i] \in Nat
    <3>1. from \in Int /\ to \in Int /\ from >= 1
      BY <2>1
    <3> HIDE DEF from
    <3> QED BY <2>1, <3>1
  <2> HIDE DEF from, to
  <2>3. SubSeq(all, from, to) \in Seq(Nat)
    BY <2>2, SubSeqProperties
  <2> QED BY <2>3 DEF from, to, Note!Lists
<1>6. v8' \in [Profiles -> Note!Lists] /\ v9' \in [Profiles -> Note!Lists]
  <2>1. v9' \in [Profiles -> Note!Lists]
    BY <1>1, <1>3, NotesParts
  <2>2. v8' = v8 \/ \E r \in Note!Lists : v8' = [v8 EXCEPT ![v1] = r]
    <3> DEFINE half == SubSeq(all, (Len(all) + 1) \div 2 + 1, Len(all))
    <3>1. v8' = v8 \/ v8' = [v8 EXCEPT ![v1] = all] \/ v8' = [v8 EXCEPT ![v1] = half]
      BY <1>1
    <3>2. half \in Note!Lists
      BY <1>5
    <3> HIDE DEF half
    <3> QED BY <1>4, <3>1, <3>2
  <2> QED BY <2>1, <2>2, NotesParts
<1>7. Note!OwnTextsKept'
  <2> SUFFICES ASSUME NEW p \in Profiles, p \notin v10' PROVE v8'[p] = Note!Newest(v9'[p])
    BY DEF Note!OwnTextsKept
  <2>1. v8' = [v8 EXCEPT ![v1] = all] \/ v8' = v8 \/ v8' = [v8 EXCEPT ![v1] = v8'[v1]]
    BY <1>1, NotesParts
  <2>2. p \notin v10
    BY <1>1
  <2>3. v8[p] = Note!Newest(v9[p])
    BY <2>2, NotesParts DEF Note!OwnTextsKept
  <2>4. CASE p # v1
    <3>1. v8'[p] = v8[p] /\ v9'[p] = v9[p]
      BY <1>1, <2>4, NotesParts
    <3> QED BY <2>3, <3>1
  <2>5. CASE p = v1
    <3>1. v8'[p] = all /\ v9'[p] = Append(v9[p], n)
      BY <1>1, <2>5, NotesParts
    <3>2. all = Note!Newest(Append(Note!Newest(v9[p]), n))
      BY <2>3, <2>5 DEF all
    <3> QED BY <1>2, <1>3, <2>5, <3>1, <3>2, NewestAgain
  <2> QED BY <2>4, <2>5
<1> QED BY <1>1, <1>2, <1>6, <1>7, TextsChange

LEMMA TextsReplaced == ASSUME Note!NotesInv, Note!ReplacePlaintextCache PROVE Note!NotesInv'
<1>1. PICK q \in Profiles : v8' = [v8 EXCEPT ![v1] = Note!Newest(v8[q])]
  BY DEF Note!ReplacePlaintextCache
<1>2. v10' = v10 \cup {v1} /\ UNCHANGED <<v1, v2, v3, v4, v5, v6, v7, v9>>
  BY DEF Note!ReplacePlaintextCache
<1>3. v8[q] \in Note!Lists
  BY NotesParts
<1>4. Note!Newest(v8[q]) \in Note!Lists
  BY <1>3, NewestEnds
<1>5. v8' \in [Profiles -> Note!Lists]
  BY <1>1, <1>4, NotesParts
<1>6. Note!OwnTextsKept'
  <2> SUFFICES ASSUME NEW p \in Profiles, p \notin v10' PROVE v8'[p] = Note!Newest(v9'[p])
    BY DEF Note!OwnTextsKept
  <2>1. p # v1 /\ p \notin v10
    BY <1>2
  <2>2. v8'[p] = v8[p] /\ v9'[p] = v9[p]
    BY <1>1, <1>2, <2>1, NotesParts
  <2> QED BY <2>1, <2>2, NotesParts DEF Note!OwnTextsKept
<1> QED BY <1>2, <1>5, <1>6, NotesParts, TextsChange

LEMMA NotesClaimed == ASSUME Note!NotesInv, NEW t \in Pair, Note!Claimed(t) PROVE Note!NotesInv'
<1>1. /\ Note!Written(t, <<>>) /\ v6' = [v6 EXCEPT ![v1] = <<>>]
      /\ v8' = [v8 EXCEPT ![v1] = <<>>] /\ v10' = v10 \cup {v1} /\ UNCHANGED <<v1, v2, v5, v9>>
  BY DEF Note!Claimed
<1>2. v8' \in [Profiles -> Note!Lists] /\ v9' \in [Profiles -> Note!Lists]
  BY <1>1, NothingLeft, NotesParts
<1>3. Note!OwnTextsKept'
  <2> SUFFICES ASSUME NEW p \in Profiles, p \notin v10' PROVE v8'[p] = Note!Newest(v9'[p])
    BY DEF Note!OwnTextsKept
  <2>1. p # v1 /\ p \notin v10
    BY <1>1
  <2>2. v8'[p] = v8[p] /\ v9'[p] = v9[p]
    BY <1>1, <2>1, NotesParts
  <2> QED BY <2>1, <2>2, NotesParts DEF Note!OwnTextsKept
<1>4. v1 \in Profiles
  BY NotesParts
<1> QED BY <1>1, <1>2, <1>3, <1>4, NotesDropped

LEMMA NotesNext == ASSUME Note!NotesInv, Note!Next \/ UNCHANGED slots PROVE Note!NotesInv'
<1>1. CASE UNCHANGED slots
  <2>1. UNCHANGED <<v1, v2, v3, v4, v5, v6, v7, v8, v9, v10>>
    BY <1>1 DEF slots
  <2>2. Note!OwnTextsKept'
    BY <2>1, NotesParts DEF Note!OwnTextsKept
  <2> QED BY <2>1, <2>2, NotesParts, TextsChange
<1>2. ASSUME NEW t \in Pair, Note!Clear(t) PROVE Note!NotesInv'
  <2>1. /\ Note!Written(t, <<>>) /\ v6' = [v6 EXCEPT ![v2[t]] = <<>>]
        /\ UNCHANGED <<v1, v2, v5, v8, v9, v10>>
    BY <1>2 DEF Note!Clear
  <2>2. v2[t] \in Profiles
    BY NotesParts
  <2>3. ~v7' => v2[t] = v1
    BY <2>1, NothingLeft, Wrote
  <2> QED BY <2>1, <2>2, <2>3, NotesDropped
<1>3. ASSUME NEW t \in Pair, NEW p \in Profiles, v1' = p, v2' = [v2 EXCEPT ![t] = p] \/ v2' = v2,
             v3' = [v3 EXCEPT ![t] = v4[p]] \/ v3' = v3, UNCHANGED <<v4, v5, v6, v7, v8, v9, v10>>
      PROVE  Note!NotesInv'
  <2>1. v2' \in [Pair -> Profiles] /\ v3' \in [Pair -> Note!Lists]
    BY <1>3, NotesParts
  <2>2. Note!WantedOnce'
    BY <1>3, NotesParts DEF Note!WantedOnce
  <2>3. ASSUME ~v7', NEW q \in Profiles PROVE Covers(q)'
    BY <1>3, <2>3, NotesParts DEF Covers, Note!Ends
  <2> QED BY <1>3, <2>1, <2>2, <2>3, NotesParts, NotesChange
<1>4. ASSUME NEW t \in Pair, Note!Reload(t) PROVE Note!NotesInv'
  <2>1. /\ v1 \in Profiles /\ v1' = v1 /\ v2' = [v2 EXCEPT ![t] = v1] /\ v3' = [v3 EXCEPT ![t] = v4[v1]]
        /\ UNCHANGED <<v4, v5, v6, v7, v8, v9, v10>>
    BY <1>4, NotesParts DEF Note!Reload
  <2> QED BY <1>3, <2>1
<1>5. ASSUME NEW t \in Pair, NEW p \in Profiles, Note!SwitchToProfile(t, p) PROVE Note!NotesInv'
  BY <1>3, <1>5 DEF Note!SwitchToProfile
<1>6. ASSUME NEW p \in Profiles, Note!SignIn(p) PROVE Note!NotesInv'
  <2>1. v1' = p /\ UNCHANGED <<v2, v3, v4, v5, v6, v7, v8, v9, v10>>
    BY <1>6 DEF Note!SignIn
  <2>2. Note!WantedOnce'
    BY <2>1, NotesParts DEF Note!WantedOnce
  <2>3. ASSUME ~v7', NEW q \in Profiles PROVE Covers(q)'
    BY <2>1, <2>3, NotesParts DEF Covers, Note!Ends
  <2> QED BY <2>1, <2>2, <2>3, NotesParts, NotesChange
<1> QED
  BY <1>1, <1>2, <1>4, <1>5, <1>6, NoteAdded, NoteRemoved, NotesClaimed, TextSaved, TextsReplaced
     DEF Note!Next

LEMMA KeptThen == ASSUME Note!NotesInv PROVE Note!KeptInPlain
<1>1. ASSUME ~v7, NEW p \in Profiles
      PROVE  Note!IsSuffix(v4[p], v6[p]) /\ (v5.note <= MaxEntries => v4[p] = v6[p])
  <2>1. v4[p] \in Note!Lists /\ v6[p] \in Note!Lists /\ Covers(p)
    BY <1>1, NotesParts
  <2> QED BY <2>1, EndsAreSuffixes DEF Covers
<1> QED BY <1>1, NotesParts DEF Note!KeptInPlain, Note!NotesKept

-----------------------------------------------------------------------------
(* A part that was chosen goes on by its own steps.                         *)
LEMMA PartSteps ==
  ASSUME [MCNext]_<<part, slots, paddingVars>>
  PROVE  /\ part' = part
         /\ part = "view" => View!Next \/ UNCHANGED slots
         /\ part = "reactions" => Reaction!Next \/ UNCHANGED slots
         /\ part = "keys" => Trust!Next \/ UNCHANGED slots
         /\ part = "push" => Notice!Next \/ UNCHANGED slots
         /\ part = "boot" => Boot!Next \/ UNCHANGED slots
         /\ part = "host" => Host!Next \/ UNCHANGED slots
         /\ part = "files" => File!Next \/ UNCHANGED slots
         /\ part = "outbox" => Queue!Next \/ UNCHANGED slots
         /\ part = "notes" => Note!Next \/ UNCHANGED slots
         /\ Next \/ UNCHANGED paddingVars
BY Zenon DEF MCNext

(* A text goes to the chat it was written in and the rows on screen are of  *)
(* the open chat (ChatPage.tsx), in any order of answers, drafts and        *)
(* changes of the chat.                                                     *)
THEOREM ChatRight == MCSpec => []RightChat
<1> DEFINE I == part = "view" => View!ViewInv
<1>1. MCInit => I BY ViewInit DEF MCInit
<1>2. I /\ [MCNext]_<<part, slots, paddingVars>> => I' BY PartSteps, ViewNext
<1>3. I => RightChat BY DEF RightChat, View!ViewInv
<1> QED BY <1>1, <1>2, <1>3, PTL DEF MCSpec

(* A settled client shows no mark that is not a row at the relay            *)
(* (useChatActions.ts).                                                     *)
THEOREM MarksReal == MCSpec => []NoPhantomMarks
<1> DEFINE I == part = "reactions" => Reaction!ReactionInv
<1>1. MCInit => I BY ReactionInit DEF MCInit
<1>2. I /\ [MCNext]_<<part, slots, paddingVars>> => I' BY PartSteps, ReactionNext
<1>3. I => NoPhantomMarks BY NoPhantoms DEF NoPhantomMarks
<1> QED BY <1>1, <1>2, <1>3, PTL DEF MCSpec

(* No key is used that the user did not see, and both users are shown one   *)
(* number (keyVerification.ts, SafetyNumberModal.tsx).                      *)
THEOREM KeysTrusted == MCSpec => []KeysAreTrusted
<1> DEFINE I == part = "keys" => Trust!TrustInv
<1>1. MCInit => I BY TrustInit DEF MCInit
<1>2. I /\ [MCNext]_<<part, slots, paddingVars>> => I' BY PartSteps, TrustNext
<1>3. I => KeysAreTrusted
  BY DEF KeysAreTrusted, Trust!TrustInv, Trust!KeysAreTrusted, Trust!NumbersAgree
<1> QED BY <1>1, <1>2, <1>3, PTL DEF MCSpec

(* The relay in use is a proven one and the one the session is of           *)
(* (ServerBootOverlay.tsx, config.ts, LoginPage.tsx); a tunnel that is open *)
(* is one of a run under way (host.rs); a subscription the relay confirmed  *)
(* stays (routes/push.py).                                                  *)
THEOREM RelaysSound == MCSpec => []RelaysServe
<1> DEFINE I == /\ part = "boot" => Boot!BootInv
                /\ part = "host" => Host!HostInv
                /\ part = "push" => Notice!PushInv
<1>1. MCInit => I BY BootInit, HostInit, PushInit DEF MCInit
<1>2. I /\ [MCNext]_<<part, slots, paddingVars>> => I'
  BY PartSteps, BootNext, HostNext, PushNext
<1>3. I => RelaysServe
  <2>1. Host!HostInv => Host!TunnelsAreRun
    BY DEF Host!HostInv, Host!TunnelsAreRun, Host!Over
  <2> QED BY <2>1 DEF RelaysServe, Boot!BootInv, Notice!PushInv
<1> QED BY <1>1, <1>2, <1>3, PTL DEF MCSpec

(* A file that was opened with a key stays open while its bubble is there,  *)
(* whatever is loaded, sent or cleared from the cache beside it             *)
(* (useFileBlobUrl.ts, blobManager.ts).                                     *)
THEOREM OpenedFilesStay == MCSpec => []OpenedStays
<1> DEFINE I == part = "files" => File!AttachmentInv
<1>1. MCInit => I BY FileInit DEF MCInit
<1>2. I /\ [MCNext]_<<part, slots, paddingVars>> => I' BY PartSteps, FileNext
<1>3. I => OpenedStays
  BY DEF OpenedStays, File!OpenedStays, File!AttachmentInv, File!HasOwnUrl
<1> QED BY <1>1, <1>2, <1>3, PTL DEF MCSpec

(* A text the user was told is sent or queued is on the server or in the    *)
(* queue until it is given up, whatever answers are lost and whenever the   *)
(* page goes, as long as no two flushes and no two changes of the queue     *)
(* overlap (useChatActions.ts, outbox.ts).                                  *)
THEOREM PromisesKept == MCSpec => []PromisedIsKept
<1> DEFINE I == part = "outbox" => Queue!OutboxInv
<1>1. MCInit => I BY QueueInit DEF MCInit
<1>2. I /\ [MCNext]_<<part, slots, paddingVars>> => I' BY PartSteps, QueueNext
<1>3. I => PromisedIsKept BY DEF PromisedIsKept, Queue!OutboxInv, Queue!PromisedIsKept
<1> QED BY <1>1, <1>2, <1>3, PTL DEF MCSpec

(* The favourites of a profile are kept, the newest of them if there are    *)
(* too many, as long as no tab writes over another; and so is the text of   *)
(* what was sent from here (favoritesStore.ts, plaintextCache.ts).          *)
THEOREM NotesAreKept == MCSpec => []KeptInPlain
<1> DEFINE I == part = "notes" => Note!NotesInv
<1>1. MCInit => I BY NotesInit DEF MCInit
<1>2. I /\ [MCNext]_<<part, slots, paddingVars>> => I' BY PartSteps, NotesNext
<1>3. I => KeptInPlain BY KeptThen DEF KeptInPlain
<1> QED BY <1>1, <1>2, <1>3, PTL DEF MCSpec

(* A text or a file is read as it was written, at every length and block    *)
(* size and whatever byte the tail repeats (e2e.ts, groupE2E.ts,            *)
(* fileE2E.ts: padBytes, unpadBytes), but for what LooksFramed and MaxText  *)
(* except.                                                                  *)
THEOREM ReadBackAsWritten == MCSpec => []ReadAsWritten
<1>1. MCInit => PaddingInv BY PaddingInit DEF MCInit
<1>2. PaddingInv /\ [MCNext]_<<part, slots, paddingVars>> => PaddingInv'
  BY PartSteps, PaddingNext
<1>3. PaddingInv => ReadAsWritten BY DEF PaddingInv
<1> QED BY <1>1, <1>2, <1>3, PTL DEF MCSpec
=============================================================================
