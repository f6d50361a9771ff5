------------------------------- MODULE PreKeys -------------------------------
(***************************************************************************)
(* The pre-keys of one user: how the page that has signed in puts them on  *)
(* the relay (services/e2e.ts: setupPreKeys, ensurePreKeysUploaded) and    *)
(* how the relay hands them to those who open a chat                       *)
(* (server/routes/keys.py). A signed pre-key (SPK) is a number, 0 when an  *)
(* identity signed it that the user has no more; a batch of one-time       *)
(* pre-keys is one key.                                                    *)
(***************************************************************************)
EXTENDS Naturals, FiniteSets

CONSTANTS
    Askers,                         \* requests for the user's bundle
    MaxSpks, MaxOpks,               \* bounds on the keys that are made,
    MaxLoads, MaxWipes,             \* on page loads and losses of the database
    NoKey

Healers == {"setup", "ensure"}      \* the two calls of healPreKeys
Opks == 1..MaxOpks

VARIABLES
    local, made,        \* IndexedDB: the SPK; the SPKs made so far
    healer,             \* each call: <<where it is, its SPK>>
    loads,
    server, pool,       \* the relay's active SPK; its unused one-time keys
    batches, wipes,
    bundle,             \* prekey_cache: the SPK of the cached bundle
    ask, handed,        \* each request: <<where, SPK, candidate, tries>>; what it got
    doubled,            \* history: both calls made an SPK
    unsaved             \* history: an upload landed that the page never heard of

deviceVars == <<local, made, healer, loads, doubled, unsaved>>
serverVars == <<server, pool, batches, wipes, bundle>>
askVars == <<ask, handed>>
preKeyVars == <<deviceVars, serverVars, askVars>>

Idle == <<"idle", NoKey>>

(* A device that has keys of the present identity has them on the relay.    *)
Init ==
    /\ local \in {NoKey, 0, 1} /\ server = IF local = 1 THEN 1 ELSE NoKey
    /\ made = 1 /\ healer = [h \in Healers |-> Idle] /\ loads = 0
    /\ pool = {} /\ batches = 0 /\ wipes = 0 /\ bundle = NoKey
    /\ ask = [a \in Askers |-> <<"idle", NoKey, NoKey, 0>>]
    /\ handed = [a \in Askers |-> NoKey]
    /\ doubled = FALSE /\ unsaved = FALSE

MatchesIdentity(spk) == spk \in Nat \ {0}         \* spkMatchesIdentity
Go(h, pc, spk) == healer' = [healer EXCEPT ![h] = <<pc, spk>>]
At(h, pc) == healer[h][1] = pc

-----------------------------------------------------------------------------
(* The device. A page that signs in calls both, one that was signed in only *)
(* ensure; the calls of the page before are gone, what landed stays.        *)

PageLoads ==
    /\ loads < MaxLoads /\ loads' = loads + 1
    /\ \E calls \in {Healers, {"ensure"}} :
            healer' = [h \in Healers |-> IF h \in calls THEN <<"read", NoKey>> ELSE Idle]
    /\ unsaved' = (unsaved \/ \E h \in Healers : At(h, "landed"))
    /\ UNCHANGED <<local, made, doubled, serverVars, askVars>>

MakeSpk(h) ==
    /\ made < MaxSpks /\ made' = made + 1 /\ Go(h, "upload", made + 1)
    /\ doubled' = (doubled \/ \E g \in Healers \ {h} : healer[g][1] \in {"upload", "landed"})

(* setupPreKeys: the SPK of the present identity stays, or one is made.     *)
ReadSetup(h) ==
    /\ \/ h = "setup" /\ At(h, "read")
       \/ At(h, "setup")
    /\ IF MatchesIdentity(local)
       THEN Go(h, "idle", NoKey) /\ UNCHANGED <<made, doubled>>
       ELSE MakeSpk(h)
    /\ UNCHANGED <<local, loads, unsaved, serverVars, askVars>>

(* ensurePreKeysUploaded: the copy it will send, or a setup of its own.     *)
ReadEnsure(h) ==
    /\ h = "ensure" /\ At(h, "read")
    /\ IF MatchesIdentity(local) THEN Go(h, "check", local) ELSE Go(h, "setup", NoKey)
    /\ UNCHANGED <<local, made, loads, doubled, unsaved, serverVars, askVars>>

Upload(spk) ==      \* upload_signed_prekey: the only active one, the cache dropped
    /\ server' = spk /\ bundle' = NoKey /\ UNCHANGED <<pool, batches, wipes>>

CheckServer(h) ==   \* 404: the copy is uploaded; any other answer ends it
    /\ At(h, "check")
    /\ IF server = NoKey THEN Go(h, "again", healer[h][2]) ELSE Go(h, "idle", NoKey)
    /\ UNCHANGED <<local, made, loads, doubled, unsaved, serverVars, askVars>>
Land(h) ==
    /\ At(h, "upload") /\ Go(h, "landed", healer[h][2]) /\ Upload(healer[h][2])
    /\ UNCHANGED <<local, made, loads, doubled, unsaved, askVars>>
LandAgain(h) ==
    /\ At(h, "again") /\ Go(h, "idle", NoKey) /\ Upload(healer[h][2])
    /\ UNCHANGED <<local, made, loads, doubled, unsaved, askVars>>
Save(h) ==
    /\ At(h, "landed") /\ local' = healer[h][2] /\ Go(h, "opks", NoKey)
    /\ UNCHANGED <<made, loads, doubled, unsaved, serverVars, askVars>>
CallFails(h) ==     \* the one-time keys are uploaded all the same
    /\ healer[h][1] \in {"upload", "landed", "check", "again"}
    /\ Go(h, IF healer[h][1] \in {"upload", "landed"} THEN "opks" ELSE "idle", NoKey)
    /\ unsaved' = (unsaved \/ At(h, "landed"))
    /\ UNCHANGED <<local, made, loads, doubled, serverVars, askVars>>

(* The count that is asked is the one of nobody: a batch every time.        *)
UploadOpks(h) ==
    /\ At(h, "opks") /\ Go(h, "idle", NoKey)
    /\ \/ /\ batches < MaxOpks /\ batches' = batches + 1 /\ pool' = pool \cup {batches + 1}
          /\ bundle' = NoKey
       \/ UNCHANGED <<pool, batches, bundle>>          \* it fails
    /\ UNCHANGED <<local, made, loads, doubled, unsaved, server, wipes, askVars>>

-----------------------------------------------------------------------------
(* The relay: get_prekey_bundle runs in a thread of its own.                *)

Step(a, pc, spk, opk, tries) == ask' = [ask EXCEPT ![a] = <<pc, spk, opk, tries>>]

AskBundle(a) ==
    /\ ask[a][1] = "idle"
    /\ IF bundle # NoKey THEN Step(a, "done", bundle, NoKey, 0)
       ELSE IF server = NoKey THEN Step(a, "done", NoKey, NoKey, 0)
       ELSE Step(a, "candidate", server, NoKey, 0)
    /\ UNCHANGED <<deviceVars, serverVars, handed>>

(* _claim_one_time_prekey: the oldest unused one is looked up, then taken   *)
(* if nobody did in between; else the next try.                             *)
FindCandidate(a) ==
    /\ ask[a][1] = "candidate"
    /\ IF pool = {} THEN Step(a, "answer", ask[a][2], NoKey, ask[a][4])
       ELSE Step(a, "claim", ask[a][2], CHOOSE k \in pool : \A j \in pool : k <= j, ask[a][4])
    /\ UNCHANGED <<deviceVars, serverVars, handed>>

(* Mutant: the update does not ask that the key is unused.                  *)
Claim_Blind(a) ==
    /\ ask[a][1] = "claim"
    /\ pool' = pool \ {ask[a][3]} /\ Step(a, "answer", ask[a][2], ask[a][3], ask[a][4])
    /\ UNCHANGED <<deviceVars, server, batches, wipes, bundle, handed>>
Claim(a) ==
    /\ ask[a][1] = "claim"
    /\ IF ask[a][3] \in pool THEN Step(a, "answer", ask[a][2], ask[a][3], ask[a][4])
       ELSE IF ask[a][4] < 2 THEN Step(a, "candidate", ask[a][2], NoKey, ask[a][4] + 1)
       ELSE Step(a, "answer", ask[a][2], NoKey, ask[a][4])
    /\ pool' = pool \ {ask[a][3]}
    /\ UNCHANGED <<deviceVars, server, batches, wipes, bundle, handed>>

(* A bundle without a one-time key is cached, even if its SPK is old now.   *)
AnswerBundle(a) ==
    /\ ask[a][1] = "answer" /\ handed' = [handed EXCEPT ![a] = ask[a][3]]
    /\ Step(a, "done", ask[a][2], ask[a][3], 0)
    /\ bundle' = IF ask[a][3] = NoKey THEN ask[a][2] ELSE NoKey
    /\ UNCHANGED <<deviceVars, server, pool, batches, wipes>>

CacheExpires ==
    /\ bundle # NoKey /\ bundle' = NoKey
    /\ UNCHANGED <<deviceVars, server, pool, batches, wipes, askVars>>
DatabaseLost ==
    /\ wipes < MaxWipes /\ wipes' = wipes + 1
    /\ server' = NoKey /\ pool' = {} /\ bundle' = NoKey
    /\ UNCHANGED <<deviceVars, batches, askVars>>

-----------------------------------------------------------------------------
Next ==
    \/ PageLoads \/ CacheExpires \/ DatabaseLost
    \/ \E h \in Healers :
        \/ ReadSetup(h) \/ ReadEnsure(h) \/ CheckServer(h) \/ Land(h) \/ LandAgain(h)
        \/ Save(h) \/ CallFails(h) \/ UploadOpks(h)
    \/ \E a \in Askers : AskBundle(a) \/ FindCandidate(a) \/ Claim(a) \/ AnswerBundle(a)

Spec == Init /\ [][Next]_preKeyVars

-----------------------------------------------------------------------------
(* A one-time key is handed out once (keys.py:176-208), whichever threads   *)
(* look for one at the same time and whatever is cached.                    *)
HandedOnce ==
    \A a, b \in Askers : a # b /\ handed[a] # NoKey => handed[a] # handed[b]

(* With no upload under way the SPK that peers get is the one whose secret  *)
(* the device has, if the two calls did not both make one and the page      *)
(* heard of every upload that landed.                                       *)
SpkOfTheDevice ==
    /\ ~doubled /\ ~unsaved
    /\ \A h \in Healers : healer[h][1] \in {"idle", "opks", "read"}
    => server \in {NoKey, local}

(* e2e.ts:426-430: an SPK is uploaded again when the relay has none only,   *)
(* "to avoid spurious SPK rotation (which would break peers' live           *)
(* sessions)". FALSE of the code: both calls of one sign-in make an SPK.    *)
NoSpuriousRotation == [][server = NoKey \/ server' \in {NoKey, server}]_server

-----------------------------------------------------------------------------
(* What HandedOnce follows from: a key that a request has claimed is in no  *)
(* batch on the relay any more and no other request has it.                 *)
Got(a) == IF ask[a][1] \in {"answer", "done"} THEN ask[a][3] ELSE NoKey
ClaimedOnce ==
    /\ ask = [a \in Askers |-> ask[a]] /\ handed = [a \in Askers |-> handed[a]]
    /\ batches \in Nat /\ pool \subseteq 1..batches
    /\ \A a \in Askers :
          /\ handed[a] \in {NoKey, Got(a)}
          /\ Got(a) # NoKey => Got(a) \in (1..batches) \ pool
    /\ \A a, b \in Askers : a # b /\ Got(a) # NoKey => Got(a) # Got(b)

(* What SpkOfTheDevice follows from: one call at a time carries a new SPK,  *)
(* only while the device has none of its identity, and the relay's SPK is   *)
(* the one of the call that has landed, else the one of the device.         *)
Carries(h) == healer[h][1] \in {"upload", "landed"}
CarriedOnce ==
    /\ healer = [h \in Healers |-> healer[h]]
    /\ ~doubled /\ ~unsaved =>
          /\ \A g, h \in Healers : Carries(g) /\ Carries(h) => g = h
          /\ \A h \in Healers :
                /\ Carries(h) => ~MatchesIdentity(local)
                /\ At(h, "landed") => server \in {NoKey, healer[h][2]}
                /\ healer[h][1] \in {"check", "again"} =>
                      healer[h][2] = local /\ MatchesIdentity(local)
          /\ (\A h \in Healers : ~At(h, "landed")) => server \in {NoKey, local}

PreKeysInv == ClaimedOnce /\ CarriedOnce
=============================================================================
