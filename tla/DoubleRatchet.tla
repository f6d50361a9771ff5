---------------------------- MODULE DoubleRatchet ----------------------------
(***************************************************************************)
(* One 1:1 chat between two clients: the Double Ratchet session of         *)
(* frontend/src/services/doubleRatchet.ts under the session manager of     *)
(* frontend/src/services/e2e.ts, over a relay that stores the envelopes.   *)
(*                                                                         *)
(* Cryptography is symbolic. A public key is <<owner, number>>, a shared   *)
(* secret the set of the two keys it was computed from, a root key the     *)
(* sequence of the shared secrets mixed into it, a chain a root and a step *)
(* and a message key the chain it was drawn from; an envelope opens with   *)
(* exactly the key that sealed it. The associated data (both identities,   *)
(* sorted) is the same on the two sides and is left out.                   *)
(*                                                                         *)
(* Every HKDF is a WebCrypto call, so encryptMessage and decryptMessage    *)
(* suspend at each of them and there is no lock around a session: Slots is *)
(* the number of calls one client may have suspended at once, and one slot *)
(* is the client whose calls never overlap.                                *)
(***************************************************************************)
EXTENDS Integers, Sequences, FiniteSets, SequencesExt, FiniteSetsExt

CONSTANTS
    Users,          \* the two participants of the chat
    FirstSpeakers,  \* those who may write before they have read anything
    Slots,          \* suspended calls per client
    Rotation,       \* KEY_ROTATION_INTERVAL
    MaxSkipGap,     \* MAX_SKIP_GAP
    MaxSkipped,     \* MAX_SKIPPED
    BundleMayFail,  \* the key bundle of the peer may be unavailable
    MaxSent,        \* bound: MaxSent[u] envelopes of user u
    Window,         \* bound: how many older envelopes one may overtake
    MaxReloads,     \* bound: page reloads
    MaxAgain,       \* bound: deliveries of an envelope that was delivered
    None

ASSUME UsersAssumption ==
    IsFiniteSet(Users) /\ Cardinality(Users) = 2 /\ FirstSpeakers \subseteq Users
ASSUME BoundsAssumption ==
    /\ {Window, MaxReloads, MaxAgain} \subseteq Nat
    /\ {Slots, Rotation, MaxSkipGap, MaxSkipped} \subseteq Nat \ {0}
    /\ MaxSent \in [Users -> Nat] /\ BundleMayFail \in BOOLEAN

Keys == Users \X Int
Secrets == SUBSET Keys
Chains == [root : Seq(Secrets), step : Nat]

Sessions ==
    [dhs : Keys, wiped : BOOLEAN, dhr : Keys, rk : Seq(Secrets), cks : Chains \cup {None},
     ckr : Chains \cup {None}, ns : Nat, pn : Nat, skipped : Seq([id : Keys \X Nat, key : Chains]),
     seen : SUBSET (Keys \X Nat), pending : BOOLEAN, fresh : BOOLEAN]

Calls ==
    [pc : {"bundle"}] \cup [pc : {"bob"}, msg : Nat]
    \cup [pc : {"dh"}, sid : Nat, msg : Nat, root : Seq(Secrets)]
    \cup [pc : {"chain"}, sid : Nat, msg : Nat, chain : Chains]
    \cup [pc : {"ratchet"}, sid : Nat, place : Nat, dhs : Keys, root : Seq(Secrets)]
    \cup [pc : {"key"}, sid : Nat, chain : Chains]

ASSUME NoneAssumption == None \notin Chains \cup Sessions \cup Calls

VARIABLES
    heap,      \* heap[u]: the session objects of u, in order of creation
    cur,       \* cur[u]: the one sessionCache holds for the chat, 0 if none
    stored,    \* stored[u]: the session in secure storage, or None
    nextKey,   \* nextKey[u]: number of the next key pair u generates
    op,        \* op[u][s]: the suspended call in slot s of u, or None
    relay,     \* relay[u]: the envelopes u has sent, in order
    fate,      \* fate[u][i]: what became of envelope i of u at the peer
    cache,     \* cache[u]: decryptedCache, the envelopes of the peer read
    reloads, again

sessionVars == <<heap, cur, stored, nextKey>>
bounds == <<reloads, again>>
vars == <<sessionVars, op, relay, fate, cache, bounds>>

-----------------------------------------------------------------------------
(* Symbolic keys.                                                           *)

Peer(u) == CHOOSE v \in Users : v # u
IdentityKey(u) == <<u, 0>>
SignedPrekey(u) == <<u, 1>>
Wiped(u) == <<u, -1>>                    \* a secret overwritten with zeros

DH(public, secret) == {public, secret}

Chain(root) == [root |-> root, step |-> 0]
NextChain(chain) == [chain EXCEPT !.step = @ + 1]

X3DH(identity, ephemeral, theirIdentity, theirPrekey) ==
    << DH(theirPrekey, identity), DH(theirIdentity, ephemeral), DH(theirPrekey, ephemeral) >>

-----------------------------------------------------------------------------
(* Sessions.                                                                *)

NewSession(dhs, dhr, root, cks, ckr) ==
    [dhs |-> dhs, wiped |-> FALSE, dhr |-> dhr, rk |-> root, cks |-> cks, ckr |-> ckr,
     ns |-> 0, pn |-> 0, skipped |-> <<>>, seen |-> {}, pending |-> FALSE, fresh |-> FALSE]

InitializeAsAlice(u, ephemeral, prekey) ==
    LET root == X3DH(IdentityKey(u), ephemeral, IdentityKey(Peer(u)), prekey)
    IN  NewSession(ephemeral, prekey, root, Chain(root), None)

(* Mutant: the responder uses its identity key as the signed prekey.        *)
InitializeAsBob_Identity(u, ephemeral) ==
    LET root == X3DH(IdentityKey(Peer(u)), ephemeral, IdentityKey(u), IdentityKey(u))
    IN  NewSession(IdentityKey(u), ephemeral, root, None, Chain(root))

InitializeAsBob(u, ephemeral) ==
    LET root == X3DH(IdentityKey(Peer(u)), ephemeral, IdentityKey(u), SignedPrekey(u))
    IN  NewSession(SignedPrekey(u), ephemeral, root, None, Chain(root))

Secret(u, x) == IF x.wiped THEN Wiped(u) ELSE x.dhs

DhRatchetSend(x, o) ==
    [x EXCEPT !.rk = o.root, !.cks = Chain(o.root), !.pn = x.ns, !.ns = 0,
              !.dhs = o.dhs, !.wiped = FALSE, !.pending = FALSE]

DhRatchetRecv(x, o, dh, newDhs) ==
    [x EXCEPT !.rk = o.root, !.ckr = Chain(o.root), !.pn = x.ns, !.dhr = dh,
              !.dhs = newDhs, !.wiped = FALSE, !.fresh = TRUE, !.pending = TRUE]

MsgId(m) == <<m.dh, m.ns>>

(* skippedKeys, a map in insertion order; the oldest entry is evicted.      *)
SkippedIds(x) == {e.id : e \in ToSet(x.skipped)}

KeepSkipped(x, id, key) ==
    IF id \in x.seen \cup SkippedIds(x) THEN x
    ELSE LET kept == Append(x.skipped, [id |-> id, key |-> key])
         IN  [x EXCEPT !.skipped = IF Len(kept) > MaxSkipped THEN Tail(kept) ELSE kept]

TakeSkipped(x, id) ==
    LET place == CHOOSE i \in DOMAIN x.skipped : x.skipped[i].id = id
    IN  [x EXCEPT !.skipped = RemoveAt(@, place), !.seen = @ \cup {id}]

(* serialize then deserialize: the private flags travel too.                *)
Deserialize(x) == x

-----------------------------------------------------------------------------
Init ==
    /\ heap = [u \in Users |-> <<>>]
    /\ cur = [u \in Users |-> 0]
    /\ stored = [u \in Users |-> None]
    /\ nextKey = [u \in Users |-> 2]
    /\ op = [u \in Users |-> [s \in 1..Slots |-> None]]
    /\ relay = [u \in Users |-> <<>>]
    /\ fate = [u \in Users |-> <<>>]
    /\ cache = [u \in Users |-> {}]
    /\ reloads = 0 /\ again = 0

Suspend(u, s, o) == op' = [op EXCEPT ![u][s] = o]
Return(u, s) == Suspend(u, s, None)
Put(u, i, x) == heap' = [heap EXCEPT ![u] = IF i > Len(@) THEN Append(@, x) ELSE [@ EXCEPT ![i] = x]]

(* persistSessions: the cached session, x being the new value of object i.  *)
Persist(u, i, x) ==
    stored' = [stored EXCEPT ![u] =
                 CASE cur[u] = 0 -> None [] cur[u] = i -> x [] OTHER -> heap[u][cur[u]]]

-----------------------------------------------------------------------------
(* encryptMessage. A DH ratchet step is due at one of three places of the   *)
(* code, each testing the session as it is by then; 4 is the message key.   *)

RatchetDue(x, place) ==
    \/ place = 1 /\ x.pending
    \/ place = 2 /\ x.cks = None
    \/ place = 3 /\ x.cks # None /\ x.cks.step >= Rotation /\ x.ckr # None

Encrypt(u, s, i, x, from) ==
    LET place == Min({p \in from..3 : RatchetDue(x, p)} \cup {4})
        dhs   == IF x.fresh THEN x.dhs ELSE <<u, nextKey[u]>>
        root  == Append(x.rk, DH(x.dhr, dhs))
    IN  IF place = 4
        THEN /\ Suspend(u, s, [pc |-> "key", sid |-> i, chain |-> x.cks])
             /\ Put(u, i, x)
             /\ UNCHANGED nextKey
        ELSE /\ Suspend(u, s, [pc |-> "ratchet", sid |-> i, place |-> place,
                               dhs |-> dhs, root |-> root])
             /\ Put(u, i, [x EXCEPT !.fresh = FALSE, !.wiped = ~x.fresh])
             /\ nextKey' = [nextKey EXCEPT ![u] = IF x.fresh THEN @ ELSE @ + 1]

MaySpeak(u) ==
    /\ u \in FirstSpeakers \/ \E i \in DOMAIN fate[Peer(u)] : fate[Peer(u)][i] \in {"read", "lost"}
    /\ Len(relay[u]) + Cardinality({s \in 1..Slots : op[u][s] # None}) < MaxSent[u]

SendStart(u, s) ==
    /\ op[u][s] = None /\ MaySpeak(u)
    /\ IF cur[u] = 0
       THEN Suspend(u, s, [pc |-> "bundle"]) /\ UNCHANGED <<heap, nextKey>>
       ELSE Encrypt(u, s, cur[u], heap[u][cur[u]], 1)
    /\ UNCHANGED <<cur, stored, relay, fate, cache, bounds>>

(* The bundle answer: X3DH towards the signed prekey, or towards the        *)
(* identity key when there is no bundle. The cache was tested before the    *)
(* request, so a session made meanwhile is replaced.                        *)
BundleAnswer(u, s) ==
    /\ op[u][s] # None /\ op[u][s].pc = "bundle"
    /\ \E prekey \in {SignedPrekey(Peer(u))} \cup
                     (IF BundleMayFail THEN {IdentityKey(Peer(u))} ELSE {}) :
         LET x == InitializeAsAlice(u, <<u, nextKey[u]>>, prekey)
             i == Len(heap[u]) + 1
         IN  /\ Put(u, i, x)
             /\ cur' = [cur EXCEPT ![u] = i]
             /\ stored' = [stored EXCEPT ![u] = x]
             /\ Suspend(u, s, [pc |-> "key", sid |-> i, chain |-> x.cks])
    /\ nextKey' = [nextKey EXCEPT ![u] = @ + 1]
    /\ UNCHANGED <<relay, fate, cache, bounds>>

SendRatchet(u, s) ==
    LET o == op[u][s]
    IN  /\ o # None /\ o.pc = "ratchet"
        /\ Encrypt(u, s, o.sid, DhRatchetSend(heap[u][o.sid], o), o.place + 1)
        /\ UNCHANGED <<cur, stored, relay, fate, cache, bounds>>

(* Mutant: the session is not persisted after an envelope was sealed.       *)
SendKey_NoPersist(u, s) ==
    LET o == op[u][s]
        x == heap[u][o.sid]
        y == [x EXCEPT !.cks = NextChain(o.chain), !.ns = @ + 1]
    IN  /\ o # None /\ o.pc = "key"
        /\ Put(u, o.sid, y)
        /\ relay' = [relay EXCEPT ![u] =
                       Append(@, [dh |-> x.dhs, pn |-> x.pn, ns |-> x.ns, key |-> o.chain])]
        /\ fate' = [fate EXCEPT ![u] = Append(@, "sent")]
        /\ Return(u, s)
        /\ UNCHANGED <<cur, stored, nextKey, cache, bounds>>

(* The message key is there: the chain advances, the header is written from *)
(* the session as it is now, the sessions are persisted, the envelope sent. *)
SendKey(u, s) ==
    LET o == op[u][s]
        x == heap[u][o.sid]
        y == [x EXCEPT !.cks = NextChain(o.chain), !.ns = @ + 1]
    IN  /\ o # None /\ o.pc = "key"
        /\ Put(u, o.sid, y)
        /\ Persist(u, o.sid, y)
        /\ relay' = [relay EXCEPT ![u] =
                       Append(@, [dh |-> x.dhs, pn |-> x.pn, ns |-> x.ns, key |-> o.chain])]
        /\ fate' = [fate EXCEPT ![u] = Append(@, "sent")]
        /\ Return(u, s)
        /\ UNCHANGED <<cur, nextKey, cache, bounds>>

-----------------------------------------------------------------------------
(* decryptMessage of envelope n of the peer.                                *)

Envelope(u, n) == relay[Peer(u)][n]

(* The end of the call: what the reader sees, and what it does to the cache *)
(* of sessions. x is the value session object i has by then.                *)
Finish(u, s, n, i, x, outcome) ==
    /\ Return(u, s)
    /\ Put(u, i, x)
    /\ fate' = [fate EXCEPT ![Peer(u)][n] = IF @ = "read" THEN @ ELSE outcome]
    /\ cache' = IF outcome = "read" THEN [cache EXCEPT ![u] = @ \cup {n}] ELSE cache
    /\ CASE outcome = "read" -> Persist(u, i, x) /\ UNCHANGED cur
         [] outcome = "undecryptable" ->
              /\ cur' = [cur EXCEPT ![u] = 0]
              /\ stored' = [stored EXCEPT ![u] = None]
         [] outcome = "refused" -> UNCHANGED <<cur, stored>>

(* decryptWithKey.                                                          *)
Open(u, s, n, i, x, key) ==
    LET m == Envelope(u, n)
        y == [x EXCEPT !.seen = @ \cup {MsgId(m)}]
    IN  IF MsgId(m) \in x.seen THEN Finish(u, s, n, i, x, "refused")
        ELSE Finish(u, s, n, i, y, IF key = m.key THEN "read" ELSE "undecryptable")

(* Mutant: no check for a number the chain has already passed.              *)
Advance_NoPast(u, s, n, i, x) ==
    IF x.ckr = None \/ Envelope(u, n).ns - x.ckr.step > MaxSkipGap
    THEN Finish(u, s, n, i, x, "refused")
    ELSE /\ Suspend(u, s, [pc |-> "chain", sid |-> i, msg |-> n, chain |-> x.ckr])
         /\ Put(u, i, x)
         /\ UNCHANGED <<cur, stored, fate, cache>>

(* The checks on the message number, then the receiving chain.              *)
Advance(u, s, n, i, x) ==
    LET m == Envelope(u, n)
        refused == x.ckr = None \/ m.ns < x.ckr.step \/ m.ns - x.ckr.step > MaxSkipGap
    IN  IF refused THEN Finish(u, s, n, i, x, "refused")
        ELSE /\ Suspend(u, s, [pc |-> "chain", sid |-> i, msg |-> n, chain |-> x.ckr])
             /\ Put(u, i, x)
             /\ UNCHANGED <<cur, stored, fate, cache>>

(* The id of a skipped envelope is marked as seen before it is opened.      *)
Decrypt(u, s, n, i, x) ==
    LET m == Envelope(u, n)
        skipped == {e \in ToSet(x.skipped) : e.id = MsgId(m)}
    IN  \/ \E e \in skipped :
             IF e.id \in x.seen THEN Finish(u, s, n, i, x, "refused")
             ELSE Open(u, s, n, i, TakeSkipped(x, e.id), e.key)
        \/ /\ skipped = {} /\ m.dh # x.dhr
           /\ Suspend(u, s, [pc |-> "dh", sid |-> i, msg |-> n,
                             root |-> Append(x.rk, DH(m.dh, Secret(u, x)))])
           /\ Put(u, i, [x EXCEPT !.pn = m.pn])
           /\ UNCHANGED <<cur, stored, fate, cache>>
        \/ /\ skipped = {} /\ m.dh = x.dhr
           /\ Advance(u, s, n, i, x)

Opening(u) == {op[u][s].msg : s \in {t \in 1..Slots :
                 op[u][t] # None /\ op[u][t].pc \in {"bob", "dh", "chain"}}}

(* A live frame, or the history: an envelope nobody has opened yet, in the  *)
(* order of the relay up to Window, or once more one that was opened and    *)
(* that decryptedCache does not hold.                                       *)
Deliver(u, n) ==
    LET waiting == {k \in DOMAIN fate[Peer(u)] : fate[Peer(u)][k] = "sent"} \ Opening(u)
    IN  \/ /\ n \in waiting
           /\ Cardinality({k \in waiting : k < n}) <= Window
           /\ UNCHANGED again
        \/ /\ fate[Peer(u)][n] # "sent" /\ n \notin cache[u]
           /\ again < MaxAgain
           /\ again' = again + 1

RecvStart(u, s) ==
    /\ op[u][s] = None
    /\ \E n \in DOMAIN relay[Peer(u)] :
         /\ Deliver(u, n)
         /\ IF cur[u] = 0
            THEN /\ Suspend(u, s, [pc |-> "bob", msg |-> n])
                 /\ UNCHANGED <<heap, cur, stored, fate, cache>>
            ELSE Decrypt(u, s, n, cur[u], heap[u][cur[u]])
    /\ UNCHANGED <<nextKey, relay, reloads>>

(* No session: the sender's ratchet key is taken for the ephemeral key of   *)
(* its X3DH. The new session replaces one made meanwhile.                   *)
RecvBob(u, s) ==
    LET o == op[u][s]
        i == Len(heap[u]) + 1
        x == InitializeAsBob(u, Envelope(u, o.msg).dh)
    IN  /\ o # None /\ o.pc = "bob"
        /\ Suspend(u, s, [pc |-> "chain", sid |-> i, msg |-> o.msg, chain |-> x.ckr])
        /\ Put(u, i, x)
        /\ cur' = [cur EXCEPT ![u] = i]
        /\ UNCHANGED <<stored, nextKey, relay, fate, cache, bounds>>

RecvDh(u, s) ==
    LET o == op[u][s]
        x == heap[u][o.sid]
    IN  /\ o # None /\ o.pc = "dh"
        /\ Advance(u, s, o.msg, o.sid,
                   DhRatchetRecv(x, o, Envelope(u, o.msg).dh, <<u, nextKey[u]>>))
        /\ nextKey' = [nextKey EXCEPT ![u] = @ + 1]
        /\ UNCHANGED <<relay, bounds>>

(* One turn of the chain: a skipped key is kept, the last one opens.        *)
RecvChain(u, s) ==
    LET o == op[u][s]
        m == Envelope(u, o.msg)
        x == [heap[u][o.sid] EXCEPT !.ckr = NextChain(o.chain)]
        kept == KeepSkipped(x, <<m.dh, o.chain.step>>, o.chain)
    IN  /\ o # None /\ o.pc = "chain"
        /\ IF o.chain.step < m.ns
           THEN /\ Suspend(u, s, [o EXCEPT !.chain = x.ckr])
                /\ Put(u, o.sid, kept)
                /\ UNCHANGED <<cur, stored, fate, cache>>
           ELSE Open(u, s, o.msg, o.sid, x, o.chain)
        /\ UNCHANGED <<nextKey, relay, bounds>>

-----------------------------------------------------------------------------
(* The page is reloaded: suspended calls and memory are gone, the session   *)
(* comes back from secure storage.                                          *)
Reload(u) ==
    /\ reloads < MaxReloads
    /\ reloads' = reloads + 1
    /\ heap' = [heap EXCEPT ![u] = IF stored[u] = None THEN <<>> ELSE <<Deserialize(stored[u])>>]
    /\ cur' = [cur EXCEPT ![u] = IF stored[u] = None THEN 0 ELSE 1]
    /\ op' = [op EXCEPT ![u] = [s \in 1..Slots |-> None]]
    /\ cache' = [cache EXCEPT ![u] = {}]
    /\ UNCHANGED <<stored, nextKey, relay, fate, again>>

SendSteps(u, s) == SendStart(u, s) \/ BundleAnswer(u, s) \/ SendRatchet(u, s) \/ SendKey(u, s)
RecvSteps(u, s) == RecvStart(u, s) \/ RecvBob(u, s) \/ RecvDh(u, s) \/ RecvChain(u, s)

Next == \E u \in Users :
            \/ \E s \in 1..Slots : SendSteps(u, s) \/ RecvSteps(u, s)
            \/ Reload(u)

Spec == Init /\ [][Next]_vars

-----------------------------------------------------------------------------
(* Properties.                                                              *)

Fates == {"sent", "read", "refused", "undecryptable"}
Envelopes == UNION {ToSet(relay[u]) : u \in Users}

(* Every variable keeps its type: cursors point into the heap, a call in    *)
(* progress at a session that exists, one fate per envelope, and the stored *)
(* session is one that can be loaded (e2e.ts:512-523, doubleRatchet.ts).    *)
TypeOK ==
    /\ \A u \in Users :
         /\ cur[u] \in 0..Len(heap[u])
         /\ nextKey[u] \in Nat \ {0, 1}
         /\ Len(fate[u]) = Len(relay[u]) /\ ToSet(fate[u]) \subseteq Fates
         /\ cache[u] \subseteq DOMAIN relay[Peer(u)]
         /\ \A s \in 1..Slots : op[u][s] # None /\ op[u][s].pc \notin {"bundle", "bob"}
                => op[u][s].sid \in DOMAIN heap[u]
    /\ reloads \in 0..MaxReloads /\ again \in 0..MaxAgain

(* A message key seals one envelope: whatever the interleaving of the two   *)
(* clients, their turns and their reloads, the chain that gave the key has  *)
(* been advanced and stored before the next one (doubleRatchet.ts:367-368). *)
KeyUsedOnce ==
    \A u, v \in Users : \A i \in DOMAIN relay[u], j \in DOMAIN relay[v] :
        relay[u][i].key = relay[v][j].key => u = v /\ i = j

(* Header and key agree: the public key is one of the last DH of the chain  *)
(* the key comes from (doubleRatchet.ts:156-159 names the mistake this      *)
(* excludes), the number its step, although the header is written after the *)
(* last await of the call and the key drawn before it (365-388).            *)
HeaderNamesKey ==
    \A m \in Envelopes : m.dh \in Last(m.key.root) /\ m.ns = m.key.step

(* No envelope that arrives is lost, turn after turn and across reloads.    *)
EveryMessageRead ==
    \A u \in Users : \A i \in DOMAIN fate[u] : fate[u][i] \in {"sent", "read"}

(* The two clients never derive diverging root keys: one of them is at most *)
(* some ratchet steps ahead (doubleRatchet.ts:276-343).                     *)
Root(u) == heap[u][cur[u]].rk
RootsAgree ==
    \A u, v \in Users : cur[u] # 0 /\ cur[v] # 0 =>
        IsPrefix(Root(u), Root(v)) \/ IsPrefix(Root(v), Root(u))

(* The keys kept for overtaken envelopes are the ones that open them, never *)
(* one of an envelope already read, and at most MAX_SKIPPED                 *)
(* (doubleRatchet.ts:428-442).                                              *)
SkippedKeysOpen ==
    \A u \in Users : \A i \in DOMAIN heap[u] :
        /\ Len(heap[u][i].skipped) <= MaxSkipped
        /\ SkippedIds(heap[u][i]) \cap heap[u][i].seen = {}
        /\ \A e \in ToSet(heap[u][i].skipped), m \in ToSet(relay[Peer(u)]) :
              MsgId(m) = e.id => e.key = m.key

(* Envelopes of one chain in any order: none of them costs the reader the   *)
(* session, and the newest one that arrived was read unless it was further  *)
(* ahead than MAX_SKIP_GAP (doubleRatchet.ts:420-446).                      *)
LateIsHarmless ==
    \A u \in Users : \A i \in DOMAIN fate[u] :
        /\ fate[u][i] # "undecryptable"
        /\ fate[u][i] = "refused" =>
             \/ \E j \in DOMAIN fate[u] : j > i /\ fate[u][j] = "read"
             \/ i > MaxSkipGap + 1

(* An envelope is refused as past or as a replay only if it was read before *)
(* (comment at e2e.ts:795).                                                 *)
OnlyDuplicatesRefused ==
    \A u \in Users : \A i \in DOMAIN fate[u] : fate[u][i] # "refused"
=============================================================================
