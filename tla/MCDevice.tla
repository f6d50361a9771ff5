-------------------------------- MODULE MCDevice --------------------------------
(***************************************************************************)
(* What one device and its account rest on, a component at a time: the     *)
(* encrypted store and its PIN, the identity, the sessions, the pre-keys,  *)
(* the profiles, the refresh tokens, signing in. They share no state in    *)
(* these models. A behaviour is one of one component, chosen at the start; *)
(* the others rest. v1, v2, ... are the variables of that component, in    *)
(* the order in which its module declares them; the refresh tokens have    *)
(* their own: one tab at a time and a relay that fails, or several tabs.   *)
(***************************************************************************)
EXTENDS RefreshTokens, Sequences, TLC

CONSTANTS
    Pair,                       \* PINs, tabs, askers: two of each are alike
    Records, MaxFalls,          \* of Keystore
    PinLength, Submit, MaxTries, LockoutTime, MaxChecks, MaxMounts,  \* of PinGate
    MaxIds,                     \* of Identity
    Devices, First, Chats, Calls, MaxGens, MaxSteps, MaxSaves,          \* of SessionStore
    FewGens, FewSteps, FewSaves,    \* of its two parts, the one with many sessions,
                                \* the other with long chains
    MaxSpks, MaxOpks, MaxLoads, MaxWipes,                               \* of PreKeys
    Homes, Abroad, MaxSignIns,  \* of Profiles: its accounts, those of another relay
    Attempts, Codes, Passkeys, MaxChallenges,   \* of Accounts
    Clients, Threshold, LockOutages, LockRestarts,      \* of Lockout
    FewTokens,                  \* of RefreshTokens, when several tabs race
    None

VARIABLES
    part,
    v1, v2, v3, v4, v5, v6, v7, v8, v9, v10, v11, v12, v13, v14, v15, v16, v17, v18,
    v19, v20, v21, v22

slots == <<v1, v2, v3, v4, v5, v6, v7, v8, v9, v10, v11, v12, v13, v14, v15, v16,
           v17, v18, v19, v20, v21, v22>>

Store == INSTANCE Keystore WITH
    Pins <- Pair, disk <- v1, gate <- v2, wrong <- v3, guard <- v4,
    pass <- v5, rewrap <- v6, puts <- v7, falls <- v8, spoilt <- v9

Gate == INSTANCE PinGate WITH
    Tabs <- Pair, MaxAttempts <- MaxTries, legacy <- v1, wrong <- v2, left <- v3,
    page <- v4, asked <- v5, verified <- v6, pass <- v7, typed <- v8, locked <- v9,
    checks <- v10, mounts <- v11, unaware <- v12

Owner == INSTANCE Identity WITH
    had <- v1, legacy <- v2, secret <- v3, db <- v4, moved <- v5,
    pin <- v6, pass <- v7, boot <- v8, gate <- v9, reg <- v10, made <- v11,
    server <- v12, saved <- v13, odd <- v14

Session == INSTANCE SessionStore WITH
    Slots <- Calls, mem <- v1, steps <- v2, disk <- v3, use <- v4, saves <- v5,
    given <- v6, gens <- v7, dropped <- v8, home <- v9, bundle <- v10, reused <- v11,
    lost <- v12, odd <- v13

PreKey == INSTANCE PreKeys WITH
    Askers <- Pair, NoKey <- None, local <- v1, made <- v2, healer <- v3, loads <- v4, server <- v5,
    pool <- v6, batches <- v7, wipes <- v8, bundle <- v9, ask <- v10, handed <- v11,
    doubled <- v12, unsaved <- v13

Profile == INSTANCE Profiles WITH
    Accounts <- Homes, Far <- Abroad, Nobody <- None,
    profiles <- v1, active <- v2, identity <- v3, owner <- v4, refresh <- v5,
    named <- v6, saved <- v7, cache <- v8, screen <- v9, base <- v10, ns <- v11,
    session <- v12, signins <- v13, sign <- v14, listed <- v15, asked <- v16,
    flight <- v17, strayed <- v18, mixed <- v19, cut <- v20, wandered <- v21,
    outlived <- v22

Account == INSTANCE Accounts WITH
    Keys <- Passkeys, totp <- v1, codes <- v2, passkeys <- v3, challenge <- v4,
    linking <- v5, challenges <- v6, device <- v7, signed <- v8, session <- v9,
    spent <- v10, proved <- v11, taken <- v12

Lock == INSTANCE Lockout WITH
    Window <- 3, MaxOutages <- LockOutages, MaxRestarts <- LockRestarts, route <- v1,
    kept <- v2, waiting <- v3, guesses <- v4, outages <- v5, restarts <- v6

ASSUME DeviceAssumption ==
    /\ LockoutTime \in Nat
    /\ None \notin Nat /\ None \notin [id : Nat, sealed : BOOLEAN]
    /\ {None, "legacy"} \cap Homes = {} /\ None # "legacy" /\ None \notin Profile!Signings
    /\ First \in Devices /\ MaxGens \in Nat
    /\ IsFiniteSet(Clients) /\ Clients # {} /\ Threshold \in Nat \ {0}
    /\ None \notin Calls \cup Session!Record \cup Session!Envelopes \cup [gen : Nat, step : Nat]

(* A part with n variables leaves the other slots alone.                    *)
Rests(n) ==
    /\ IF n < 7 THEN v7 = 0 ELSE TRUE
    /\ IF n < 8 THEN v8 = 0 ELSE TRUE
    /\ IF n < 9 THEN v9 = 0 ELSE TRUE
    /\ IF n < 10 THEN v10 = 0 ELSE TRUE
    /\ IF n < 11 THEN v11 = 0 ELSE TRUE
    /\ IF n < 12 THEN v12 = 0 ELSE TRUE
    /\ IF n < 13 THEN v13 = 0 ELSE TRUE
    /\ IF n < 14 THEN v14 = 0 ELSE TRUE
    /\ IF n < 15 THEN v15 = 0 ELSE TRUE
    /\ IF n < 16 THEN v16 = 0 ELSE TRUE
    /\ IF n < 17 THEN v17 = 0 ELSE TRUE
    /\ IF n < 18 THEN v18 = 0 ELSE TRUE
    /\ IF n < 19 THEN v19 = 0 ELSE TRUE
    /\ IF n < 20 THEN v20 = 0 ELSE TRUE
    /\ IF n < 21 THEN v21 = 0 ELSE TRUE
    /\ IF n < 22 THEN v22 = 0 ELSE TRUE

MCInit ==
    /\ Init
    /\ \/ part = "store" /\ Store!Init /\ Rests(9)
       \/ part = "pin" /\ Gate!Init /\ Rests(12)
       \/ part = "identity" /\ Owner!Init /\ Rests(14)
       \/ part \in {"sessions", "chain"} /\ Session!Init /\ Rests(13)
       \/ part = "prekeys" /\ PreKey!Init /\ Rests(13)
       \/ part = "profiles" /\ Profile!Init /\ Rests(22)
       \/ part = "account" /\ Account!Init /\ Rests(12)
       \/ part = "lockout" /\ Lock!Init /\ Rests(6)
       \/ /\ part \in {"tokens", "tabs"} /\ Rests(6)
          /\ v1 = 0 /\ v2 = 0 /\ v3 = 0 /\ v4 = 0 /\ v5 = 0 /\ v6 = 0

MCNext ==
    /\ UNCHANGED part
    /\ IF part \in {"tokens", "tabs"} THEN Next ELSE UNCHANGED tokenVars
    /\ \/ /\ part = "store" /\ Store!Next
          /\ UNCHANGED <<v10, v11, v12, v13, v14, v15, v16, v17, v18, v19, v20,
                        v21, v22>>
       \/ /\ part = "pin" /\ Gate!Next
          /\ UNCHANGED <<v13, v14, v15, v16, v17, v18, v19, v20, v21, v22>>
       \/ /\ part = "identity" /\ Owner!Next
          /\ UNCHANGED <<v15, v16, v17, v18, v19, v20, v21, v22>>
       \/ /\ part \in {"sessions", "chain"} /\ Session!Next
          /\ IF part = "chain" THEN v7' <= FewGens
             ELSE \A d \in Devices : /\ Len(v5'[d]) <= FewSaves
                                     /\ \A g \in 1 .. MaxGens : v2'[d][g] <= FewSteps
          /\ UNCHANGED <<v14, v15, v16, v17, v18, v19, v20, v21, v22>>
       \/ /\ part = "prekeys" /\ PreKey!Next
          /\ UNCHANGED <<v14, v15, v16, v17, v18, v19, v20, v21, v22>>
       \/ part = "profiles" /\ Profile!Next
       \/ /\ part = "account" /\ Account!Next
          /\ UNCHANGED <<v13, v14, v15, v16, v17, v18, v19, v20, v21, v22>>
       \/ /\ part = "lockout" /\ Lock!Next
          /\ UNCHANGED <<v7, v8, v9, v10, v11, v12, v13, v14, v15, v16, v17, v18,
                        v19, v20, v21, v22>>
       \/ /\ part = "tokens" /\ UNCHANGED slots
          /\ \E t \in Tabs : \A u \in Tabs \ {t} : tab'[u] = Fresh /\ echo'[u] = 0 /\ lock' # u
       \/ /\ part = "tabs" /\ UNCHANGED slots
          /\ issued' <= FewTokens /\ restarts' = 0 /\ outages' = 0

MCSpec == MCInit /\ [][MCNext]_<<part, slots, tokenVars>>

Symmetry == Permutations(Pair)

-----------------------------------------------------------------------------
(* The properties of the parts; their modules say what each of them means.  *)

(* pinLock.ts, secureStorage.ts: a record that is stored can be read with    *)
(* the PIN of the gate, and the lock-out of the gate holds.                 *)
PinHolds ==
    /\ part = "store" => Store!KeysReadable
    /\ part = "pin" => Gate!LockoutHolds

(* secureStorage.ts: the newest identity survives its moves.                *)
IdentityKept == part = "identity" => Owner!IdentityKept

(* e2e.ts: no step of a chain is used twice across a reload, and a session  *)
(* is there after it, but for what SessionStore names.                      *)
SessionsKept ==
    part \in {"sessions", "chain"} => Session!StepOnce /\ Session!SessionKept

(* e2e.ts, routes/keys.py: a one-time pre-key goes to one asker, and the     *)
(* relay's signed pre-key is one the device can answer.                     *)
PreKeysHold == part = "prekeys" => PreKey!HandedOnce /\ PreKey!SpkOfTheDevice

(* profiles.ts, LoginPage.tsx: keys, tokens and chats are those of the      *)
(* account that is signed in.                                               *)
SessionIsOwn ==
    part = "profiles" =>
        Profile!KeysOfTheSession /\ Profile!TokensStayHome /\ Profile!ListIsOwn

(* routes/auth.py, webauthn.py: codes and challenges sign in once, a second *)
(* factor is not passed by, the guesses at a password are bounded.          *)
SignInsHold ==
    /\ part = "account" =>
          Account!BackupCodeOnce /\ Account!SecondFactorFirst /\ Account!ChallengeOnce
    /\ part = "lockout" => Lock!GuessesBounded
===============================================================================
