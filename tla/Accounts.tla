------------------------------- MODULE Accounts -------------------------------
(***************************************************************************)
(* Signing in to one account: password, TOTP and backup codes              *)
(* (routes/auth.py, utils/security.py) and passkeys (routes/webauthn.py).  *)
(* The handlers have no await: each is one step. Passwords and TOTP codes  *)
(* are right or wrong; a wrong one changes nothing and is left out.        *)
(***************************************************************************)
EXTENDS Naturals, FiniteSets

CONSTANTS
    Attempts,       \* sign-ins in progress or done
    Codes,          \* the backup codes one setup hands out
    Keys,           \* authenticators of the user
    MaxChallenges   \* bound: challenges issued

VARIABLES
    totp,           \* totp_secret and is_2fa_enabled: "off", "set", "on"
    codes,          \* backup_codes: those still stored
    passkeys,       \* WebAuthnCredential rows: sign_count by key, for those linked
    challenge,      \* _challenges["auth:..."] : [n, live], 0: none
    linking,        \* _challenges["reg:..."] : is there a live one
    challenges,     \* how many challenges there were
    device,         \* the counter of each authenticator; "none": it does not count
    signed,         \* the responses the authenticators have given
    session,        \* session[a]: the tokens attempt a has got
    spent,          \* history: backup codes of this setup that were accepted
    proved,         \* history: attempts that gave a second factor
    taken           \* history: taken[n]: sign-ins by the response to challenge n

accountVars == <<totp, codes, passkeys, challenge, linking, challenges, device, signed,
                 session, spent, proved, taken>>

NoChallenge == [n |-> 0, live |-> FALSE]
Started(a) == session[a].got # "nothing"
FullSession == \E a \in Attempts : session[a].got = "full"      \* an access token

Init ==
    /\ totp = "off" /\ codes = {}
    /\ passkeys = [k \in {} |-> 0]
    /\ challenge = NoChallenge /\ linking = FALSE /\ challenges = 0
    /\ device \in [Keys -> {0, 99}]         \* 99: an authenticator without a counter
    /\ signed = {}
    /\ session = [a \in Attempts |-> [got |-> "nothing", asked |-> "off"]]
    /\ spent = {} /\ proved = {}
    /\ taken = [n \in 1..MaxChallenges |-> 0]

(* After the first factor: full tokens, or tokens that only verify-login    *)
(* takes. asked is history: what totp was.                                  *)
Grant(a) ==
    session' = [session EXCEPT ![a] = [got |-> IF totp = "on" THEN "pending" ELSE "full",
                                       asked |-> totp]]
GrantPasskey(a) == Grant(a)

Login(a) ==
    /\ ~Started(a) /\ Grant(a)
    /\ UNCHANGED <<totp, codes, passkeys, challenge, linking, challenges, device, signed,
                   spent, proved, taken>>

-----------------------------------------------------------------------------
(* TOTP. A setup may be repeated until it is enabled.                       *)

Setup2FA ==
    /\ FullSession /\ totp # "on"
    /\ totp' = "set" /\ codes' = Codes /\ spent' = {}
    /\ UNCHANGED <<passkeys, challenge, linking, challenges, device, signed, session, proved, taken>>

Enable2FA ==
    /\ FullSession /\ totp = "set" /\ totp' = "on"
    /\ UNCHANGED <<codes, passkeys, challenge, linking, challenges, device, signed, session,
                   spent, proved, taken>>

Verified(a) ==
    /\ session[a].got = "pending" /\ totp = "on"
    /\ session' = [session EXCEPT ![a].got = "full"]
    /\ proved' = proved \cup {a}
    /\ UNCHANGED <<totp, passkeys, challenge, linking, challenges, device, signed, taken>>

VerifyTotp(a) == Verified(a) /\ UNCHANGED <<codes, spent>>

VerifyBackup(a, c) ==
    /\ c \in codes /\ Verified(a)
    /\ codes' = codes \ {c} /\ spent' = spent \cup {c}

Disable2FA ==
    /\ FullSession /\ totp = "on"
    /\ totp' = "off" /\ codes' = {}
    /\ UNCHANGED <<passkeys, challenge, linking, challenges, device, signed, session,
                   spent, proved, taken>>

-----------------------------------------------------------------------------
(* Passkeys. A challenge lies in the memory of the process under its user:  *)
(* a later one replaces it.                                                 *)

RegistrationOptions ==
    /\ FullSession /\ linking' = TRUE
    /\ UNCHANGED <<totp, codes, passkeys, challenge, challenges, device, signed, session,
                   spent, proved, taken>>

(* registerPasskey: the new credential comes with the counter of now.       *)
FirstCount(k) == IF device[k] = 99 THEN 0 ELSE device[k]

RegistrationVerify(k) ==
    /\ FullSession /\ linking /\ linking' = FALSE
    /\ passkeys' = IF k \in DOMAIN passkeys THEN passkeys
                   ELSE [j \in DOMAIN passkeys \cup {k} |->
                            IF j = k THEN FirstCount(k) ELSE passkeys[j]]
    /\ UNCHANGED <<totp, codes, challenge, challenges, device, signed, session, spent, proved, taken>>

DeleteCredential(k) ==
    /\ FullSession /\ k \in DOMAIN passkeys
    /\ passkeys' = [j \in DOMAIN passkeys \ {k} |-> passkeys[j]]
    /\ UNCHANGED <<totp, codes, challenge, linking, challenges, device, signed, session,
                   spent, proved, taken>>

LoginOptions ==
    /\ DOMAIN passkeys # {} /\ challenges < MaxChallenges
    /\ challenges' = challenges + 1 /\ challenge' = [n |-> challenges + 1, live |-> TRUE]
    /\ UNCHANGED <<totp, codes, passkeys, linking, device, signed, session, spent, proved, taken>>

(* assertionToJSON: the answer of authenticator k to challenge n.           *)
Response(n, k) == [n |-> n, key |-> k, count |-> IF device[k] = 99 THEN 0 ELSE device[k] + 1]

(* loginWithPasskey: one challenge, one answer, to be verified when it is   *)
(* there.                                                                   *)
Sign(n, k) ==
    /\ n <= challenges /\ ~\E r \in signed : r.n = n
    /\ signed' = signed \cup {Response(n, k)}
    /\ device' = IF device[k] = 99 THEN device ELSE [device EXCEPT ![k] = @ + 1]
    /\ UNCHANGED <<totp, codes, passkeys, challenge, linking, challenges, session, spent, proved, taken>>

(* Mutant: the challenge is read and not removed.                           *)
TakeChallenge_Left == UNCHANGED challenge
TakeChallenge == challenge' = NoChallenge

(* The response is to the challenge of the user, its key is linked, and its *)
(* counter has grown, or never counts.                                      *)
Passes(r) ==
    /\ challenge = [n |-> r.n, live |-> TRUE]
    /\ r.key \in DOMAIN passkeys
    /\ r.count > passkeys[r.key] \/ (r.count = 0 /\ passkeys[r.key] = 0)

LoginVerify(a) ==
    /\ ~Started(a) /\ challenge.n # 0
    /\ TakeChallenge
    /\ \E r \in signed :
          IF Passes(r)
          THEN /\ passkeys' = [passkeys EXCEPT ![r.key] = r.count]
               /\ GrantPasskey(a) /\ taken' = [taken EXCEPT ![r.n] = @ + 1]
          ELSE UNCHANGED <<passkeys, session, taken>>
    /\ UNCHANGED <<totp, codes, linking, challenges, device, signed, spent, proved>>

ChallengeExpires ==
    /\ challenge.live /\ challenge' = [challenge EXCEPT !.live = FALSE]
    /\ UNCHANGED <<totp, codes, passkeys, linking, challenges, device, signed, session,
                   spent, proved, taken>>

(* The relay restarts: the challenges are gone.                             *)
Restart ==
    /\ challenge # NoChallenge \/ linking
    /\ challenge' = NoChallenge /\ linking' = FALSE
    /\ UNCHANGED <<totp, codes, passkeys, challenges, device, signed, session, spent, proved, taken>>

-----------------------------------------------------------------------------
Next ==
    \/ \E a \in Attempts :
          \/ Login(a) \/ VerifyTotp(a) \/ LoginVerify(a)
          \/ \E c \in Codes : VerifyBackup(a, c)
    \/ Setup2FA \/ Enable2FA \/ Disable2FA
    \/ RegistrationOptions \/ LoginOptions \/ ChallengeExpires \/ Restart
    \/ \E k \in Keys : \/ RegistrationVerify(k) \/ DeleteCredential(k)
                       \/ \E n \in 1..MaxChallenges : Sign(n, k)

-----------------------------------------------------------------------------
(* Properties.                                                              *)

(* A backup code signs in once, in whatever order sign-ins wait for their   *)
(* second factor (auth.py:845-848).                                         *)
BackupCodeOnce == codes \cap spent = {}

(* Whoever signed in while the second factor was on holds full tokens only  *)
(* after giving one, by password or by passkey (webauthn.py:279-280).       *)
SecondFactorFirst ==
    \A a \in Attempts : session[a] = [got |-> "full", asked |-> "on"] => a \in proved

(* The response to a challenge signs in once, though some authenticators    *)
(* have no counter (webauthn.py:91).                                        *)
ChallengeOnce == \A n \in 1..MaxChallenges : taken[n] <= 1

(* The inductive invariant: a challenge that was answered is not the one    *)
(* that waits, and none that is to come.                                    *)
AccountInv ==
    /\ session \in [Attempts -> [got : {"nothing", "pending", "full"}, asked : {"off", "set", "on"}]]
    /\ totp \in {"off", "set", "on"}
    /\ challenge \in [n : Nat, live : BOOLEAN] /\ challenges \in Nat /\ challenge.n <= challenges
    /\ taken \in [1..MaxChallenges -> {0, 1}]
    /\ \A n \in 1..MaxChallenges : taken[n] = 1 => n <= challenges /\ challenge.n # n
    /\ BackupCodeOnce /\ SecondFactorFirst
=============================================================================
