---------------------------- MODULE RefreshTokens ----------------------------
(***************************************************************************)
(* The refresh tokens of one account on one device: rotation, revocation   *)
(* and reuse detection on the relay (routes/auth.py, utils/security.py),   *)
(* and the tabs that share the encrypted token of the browser and a lock   *)
(* (services/api.ts, refreshSync.ts, tokenVault.ts).                       *)
(*                                                                         *)
(* Tokens are numbered in the order of issue. A handler of the relay has   *)
(* no await and is one step. A tab is at one of its awaits; the three      *)
(* accesses to the lock are steps, because tabs are processes. The token's *)
(* own expiry, PINs and other accounts are left out.                       *)
(***************************************************************************)
EXTENDS Naturals, FiniteSets

CONSTANTS
    Tabs,
    MaxTokens,      \* bound: refresh tokens issued
    MaxRestarts,    \* bound: restarts of the relay
    MaxOutages,     \* bound: uses of the database that fail
    Nobody

ASSUME BoundsAssumption ==
    MaxTokens \in Nat \ {0} /\ MaxRestarts \in Nat /\ MaxOutages \in Nat

VARIABLES
    issued,     \* how many tokens there are
    black,      \* _BLACKLIST
    loaded,     \* _blacklist_loaded
    stored,     \* stored[k]: the RevokedToken row of k, by the age of revoked_at
    stale,      \* tokens with iat <= users.tokens_valid_after
    aware,      \* _VALID_AFTER holds that time
    tight,      \* that time is the present second
    cipher,     \* the token on the disk of the device, 0: none
    lock,       \* refresh_lock: its owner
    expired,    \* its exp has passed
    tab,        \* tab[t]: the memory of t, and where its refresh is
    echo,       \* echo[t]: what t's announceTimer will post again, 0: none
    logins, restarts, outages,
    lost,       \* history: tokens whose revocation an outage has undone
    undone      \* history: how often that has happened to a token

server == <<issued, black, loaded, stored, stale, aware, tight>>
shared == <<cipher, lock, expired>>
counts == <<logins, restarts, outages, lost, undone>>
tokenVars == <<server, shared, tab, echo, counts>>

Tokens == 1..MaxTokens

(* A page that was just loaded: nothing decrypted, no refresh in progress.  *)
(* robbed and spurned are history: a sibling rotated the token during this  *)
(* refresh; and yet the refresh failed.                                     *)
Fresh == [mem |-> 0, open |-> FALSE, step |-> "idle", rt |-> 0, got |-> 0,
          own |-> FALSE, again |-> FALSE, bumped |-> FALSE, robbed |-> FALSE, spurned |-> FALSE]

Init ==
    /\ issued = 1 /\ black = {} /\ loaded = TRUE
    /\ stored = [k \in Tokens |-> "none"]
    /\ stale = {} /\ aware = TRUE /\ tight = FALSE
    /\ cipher = 1 /\ lock = Nobody /\ expired = FALSE
    /\ tab = [t \in Tabs |-> Fresh]
    /\ echo = [t \in Tabs |-> 0]
    /\ logins = 1 /\ restarts = 0 /\ outages = 0
    /\ lost = {} /\ undone = 0

-----------------------------------------------------------------------------
(* The relay.                                                               *)

Persisted == {k \in Tokens : stored[k] # "none"}

(* What is_token_revoked leaves in memory: it loads once, and counts as     *)
(* loaded even when the database failed; the time of the last logout from   *)
(* all devices is tried again.                                              *)
Memory(k, down) == IF k \in black \/ loaded \/ down THEN black ELSE black \cup Persisted
Aware(k, down) == aware \/ (k \notin Memory(k, down) /\ ~down)
Accepts(k, down) == k \notin Memory(k, down) /\ ~(Aware(k, down) /\ k \in stale)

(* The database fails under a check that needs it.                          *)
MayFail(k, down) ==
    down => /\ outages < MaxOutages /\ k \notin black
            /\ ~loaded \/ ~aware

Checked(k, down) ==
    /\ loaded' = (loaded \/ k \notin black)
    /\ aware' = Aware(k, down)

(* The next token, born stale when its second is that of the cut.           *)
Issue ==
    /\ issued < MaxTokens
    /\ issued' = issued + 1
    /\ stale' = IF tight THEN stale \cup {issued + 1} ELSE stale

CutAll ==
    /\ stale' = 1..issued
    /\ aware' = TRUE /\ tight' = TRUE

(* The revocations that are forgotten when the database is down: the list   *)
(* counts as loaded and is not.                                             *)
Undone(down) == IF down /\ ~loaded THEN Persisted \ black ELSE {}

Lose(tokens) ==
    /\ lost' = lost \cup tokens
    /\ undone' = undone + Cardinality(tokens)

(* Mutant: nothing is written to RevokedToken.                              *)
RevokeOld_NotStored(k, kept) == stored' = stored

(* revoke: into memory, and into the table if the database answers.         *)
RevokeOld(k, kept) == stored' = IF kept THEN [stored EXCEPT ![k] = "fresh"] ELSE stored

Answer(t, how, k) == tab' = [tab EXCEPT ![t].step = how, ![t].got = k]
Robbed(t) ==
    tab' = [u \in Tabs |-> IF u = t THEN [tab[u] EXCEPT !.step = "ok", !.got = issued + 1]
                           ELSE [tab[u] EXCEPT !.robbed = @ \/ tab[u].rt = tab[t].rt]]

(* Mutant: the old token stays good.                                        *)
Rotate_Keeps(t, down, kept) ==
    LET k == tab[t].rt IN
    /\ Accepts(k, down) /\ Issue /\ Checked(k, down)
    /\ black' = Memory(k, down)
    /\ Robbed(t)
    /\ Lose(Undone(down))
    /\ UNCHANGED <<tight, stored>>

Rotate(t, down, kept) ==
    LET k == tab[t].rt IN
    /\ Accepts(k, down) /\ Issue /\ Checked(k, down)
    /\ black' = Memory(k, down) \cup {k}
    /\ RevokeOld(k, kept)
    /\ Robbed(t)
    /\ Lose(Undone(down) \cup (stale \cap {k}) \cup (IF kept THEN {} ELSE {k}))
    /\ UNCHANGED tight

(* _kill_chain_on_refresh_reuse: a token revoked longer ago than the grace  *)
(* ends every session of the user.                                          *)
Reject(t, down) ==
    LET k == tab[t].rt IN
    /\ ~Accepts(k, down)
    /\ black' = Memory(k, down) /\ loaded' = (loaded \/ k \notin black)
    /\ IF stored[k] = "old" THEN CutAll
       ELSE aware' = Aware(k, down) /\ UNCHANGED <<stale, tight>>
    /\ Answer(t, "no", 0)
    /\ Lose(Undone(down))
    /\ UNCHANGED <<issued, stored>>

Failures(n) == outages + n <= MaxOutages /\ outages' = outages + n

RefreshToken(t) ==
    /\ tab[t].step = "asked"
    /\ \E down, kept \in BOOLEAN :
          /\ MayFail(tab[t].rt, down)
          /\ \/ /\ Failures((IF down THEN 1 ELSE 0) + (IF kept THEN 0 ELSE 1))
                /\ Rotate(t, down, kept)
             \/ kept /\ Failures(IF down THEN 1 ELSE 0) /\ Reject(t, down)
    /\ UNCHANGED <<shared, echo, logins, restarts>>

(* Refused before the handler: the rate limit, the CSRF check.              *)
RefreshRefused(t) ==
    /\ tab[t].step = "asked" /\ Answer(t, "no", 0)
    /\ UNCHANGED <<server, shared, echo, counts>>

(* Any request verifies its access token, and loads what is not loaded.     *)
VerifyToken(down) ==
    /\ ~loaded \/ ~aware
    /\ Failures(IF down THEN 1 ELSE 0)
    /\ black' = IF loaded \/ down THEN black ELSE black \cup Persisted
    /\ loaded' = TRUE /\ aware' = (aware \/ ~down)
    /\ Lose(Undone(down))
    /\ UNCHANGED <<issued, stored, stale, tight, shared, tab, echo, logins, restarts>>

GraceEnds(k) ==
    /\ stored[k] = "fresh" /\ stored' = [stored EXCEPT ![k] = "old"]
    /\ UNCHANGED <<issued, black, loaded, stale, aware, tight, shared, tab, echo,
                   counts>>
SecondEnds ==
    /\ tight /\ tight' = FALSE
    /\ UNCHANGED <<issued, black, loaded, stored, stale, aware, shared, tab, echo,
                   counts>>
Restart ==
    /\ restarts < MaxRestarts /\ restarts' = restarts + 1
    /\ black' = {} /\ loaded' = FALSE /\ aware' = FALSE
    /\ UNCHANGED <<issued, stored, stale, tight, shared, tab, echo, logins, outages, lost, undone>>

-----------------------------------------------------------------------------
(* A tab. The end of a refresh gives back the lock if it is the tab's own.  *)

Released(t) == lock' = IF lock = t THEN Nobody ELSE lock
Idle(r) == [Fresh EXCEPT !.mem = r.mem, !.open = r.open]
Failed(r, alone) == [Idle(r) EXCEPT !.spurned = r.robbed /\ alone]
Cleared(r) == [r EXCEPT !.mem = 0, !.open = FALSE]

(* After a failed refresh the request clears the session of the device; a   *)
(* socket that asked leaves it. alone: the tab gives up, nothing was lost.  *)
Fail(t, alone) ==
    /\ \/ tab' = [tab EXCEPT ![t] = Cleared(Failed(@, alone))] /\ cipher' = 0
       \/ tab' = [tab EXCEPT ![t] = Failed(@, alone)] /\ UNCHANGED cipher
    /\ Released(t)
    /\ UNCHANGED <<server, expired, echo, counts>>

Go(t, to) ==
    /\ tab' = [tab EXCEPT ![t].step = to]
    /\ UNCHANGED <<server, shared, echo, counts>>

RefreshAccessToken(t) ==
    /\ tab[t].step = "idle"
    /\ \/ tab[t].open /\ tab[t].mem = 0 /\ Fail(t, FALSE)
       \/ /\ tab[t].open /\ tab[t].mem # 0
          /\ tab' = [tab EXCEPT ![t].step = "try", ![t].rt = tab[t].mem, ![t].spurned = FALSE]
          /\ UNCHANGED <<server, shared, echo, counts>>
       \/ /\ ~tab[t].open
          /\ tab' = [tab EXCEPT ![t].step = "unlock", ![t].spurned = FALSE,
                                ![t].got = IF tab[t].mem = 0 THEN cipher ELSE 0]
          /\ UNCHANGED <<server, shared, echo, counts>>

(* doUnlock assigns what it decrypted, whatever the memory holds by now.    *)
Unlocked(t) ==
    LET m == IF tab[t].got # 0 THEN tab[t].got ELSE tab[t].mem IN
    /\ tab[t].step = "unlock"
    /\ tab' = [tab EXCEPT ![t].mem = m, ![t].open = TRUE, ![t].rt = m, ![t].got = 0,
                          ![t].step = IF m = 0 THEN "idle" ELSE "try"]
    /\ UNCHANGED <<server, shared, echo, counts>>

SiblingRefreshes(t) == lock \notin {t, Nobody} /\ ~expired

NoLock(t) == IF tab[t].again THEN Fail(t, TRUE) ELSE Go(t, "wait")

(* tryAcquireRefreshLock: read, write, read back.                           *)
CheckLock(t) ==
    /\ tab[t].step = "try"
    /\ IF SiblingRefreshes(t) THEN NoLock(t) ELSE Go(t, "write")
WriteLock(t) ==
    /\ tab[t].step = "write"
    /\ lock' = t /\ expired' = FALSE
    /\ tab' = [tab EXCEPT ![t].step = "confirm"]
    /\ UNCHANGED <<server, cipher, echo, counts>>
ConfirmLock(t) ==
    /\ tab[t].step = "confirm"
    /\ IF lock # t THEN NoLock(t)
       ELSE /\ tab' = [tab EXCEPT ![t].step = "asked", ![t].bumped = FALSE]
            /\ UNCHANGED <<server, shared, echo, counts>>

(* The 30 s of the request pass; the relay has handled it or never will.    *)
RequestLost(t) == tab[t].step \in {"asked", "ok", "no"} /\ Fail(t, FALSE)

Adopt(r, k, own) == [r EXCEPT !.mem = k, !.open = TRUE, !.got = k, !.own = own, !.step = "store"]

Rotated(t) ==
    /\ tab[t].step = "ok"
    /\ tab' = [tab EXCEPT ![t] = Adopt(@, tab[t].got, TRUE)]
    /\ UNCHANGED <<server, shared, echo, counts>>
Refused(t) ==
    /\ tab[t].step = "no"
    /\ IF tab[t].bumped \/ SiblingRefreshes(t) THEN Go(t, "late") ELSE Fail(t, TRUE)

WaitEnds(t) ==
    \/ /\ tab[t].step = "wait"
       /\ tab' = [tab EXCEPT ![t].step = "try", ![t].again = TRUE]
       /\ UNCHANGED <<server, shared, echo, counts>>
    \/ tab[t].step = "late" /\ Fail(t, TRUE)

(* A posted token reaches the tabs that wait, and nobody else.              *)
Heard(tabs, k) ==
    [u \in Tabs |-> IF tabs[u].step \in {"wait", "late"} THEN Adopt(tabs[u], k, FALSE) ELSE tabs[u]]
Bumped(tabs) ==
    [u \in Tabs |-> IF tabs[u].step \in {"asked", "ok", "no"} THEN [tabs[u] EXCEPT !.bumped = TRUE]
                    ELSE tabs[u]]

(* The token is encrypted and on the disk (or the disk failed); the winner  *)
(* announces it. A login is stored the same way.                            *)
Stored(t) ==
    LET k == tab[t].got
        done == [tab EXCEPT ![t] = Idle(@)]
    IN /\ tab[t].step = "store"
       /\ cipher' \in {k, 0}
       /\ IF tab[t].own
          THEN tab' = Bumped(Heard(done, k)) /\ echo' = [echo EXCEPT ![t] = k]
          ELSE tab' = done /\ UNCHANGED echo
       /\ Released(t)
       /\ UNCHANGED <<server, expired, counts>>

Echo(t) ==
    /\ echo[t] # 0 /\ echo' = [echo EXCEPT ![t] = 0]
    /\ tab' = Heard(tab, echo[t])
    /\ UNCHANGED <<server, shared, counts>>

LockExpires ==
    /\ lock # Nobody /\ ~expired /\ expired' = TRUE
    /\ UNCHANGED <<server, cipher, lock, tab, echo, counts>>

-----------------------------------------------------------------------------
(* The user. Logging out clears the device and tells the relay nothing it   *)
(* takes: the request has no CSRF token and names no refresh token.         *)

Login(t) ==
    /\ tab[t].step = "idle" /\ tab[t].mem = 0 /\ cipher = 0
    /\ Issue /\ logins' = logins + 1
    /\ tab' = [tab EXCEPT ![t] = Adopt(@, issued + 1, FALSE)]
    /\ UNCHANGED <<black, loaded, stored, aware, tight, shared, echo, restarts, outages, lost, undone>>

Logout(t) ==
    /\ tab[t].mem # 0
    /\ tab' = [tab EXCEPT ![t] = Cleared(@)] /\ cipher' = 0
    /\ UNCHANGED <<server, lock, expired, echo, counts>>

LogoutAll(t) ==
    /\ tab[t].mem # 0 /\ tab[t].mem \notin stale
    /\ CutAll
    /\ tab' = [tab EXCEPT ![t] = Cleared(@)] /\ cipher' = 0
    /\ UNCHANGED <<issued, black, loaded, stored, lock, expired, echo, counts>>

(* The page is reloaded or closed, whatever it is doing.                    *)
Reload(t) ==
    /\ tab[t] # Fresh
    /\ tab' = [tab EXCEPT ![t] = Fresh] /\ echo' = [echo EXCEPT ![t] = 0]
    /\ UNCHANGED <<server, shared, counts>>

-----------------------------------------------------------------------------
TabStep(t) ==
    \/ Unlocked(t) \/ CheckLock(t) \/ WriteLock(t) \/ ConfirmLock(t)
    \/ RequestLost(t) \/ Rotated(t) \/ Refused(t) \/ WaitEnds(t) \/ Stored(t)

Next ==
    \/ \E t \in Tabs :
          \/ RefreshAccessToken(t) \/ RefreshToken(t) \/ RefreshRefused(t) \/ TabStep(t)
          \/ Echo(t) \/ Login(t) \/ Logout(t) \/ LogoutAll(t) \/ Reload(t)
    \/ \E k \in Tokens : GraceEnds(k)
    \/ \E down \in BOOLEAN : VerifyToken(down)
    \/ SecondEnds \/ Restart \/ LockExpires

Spec == Init /\ [][Next]_tokenVars

-----------------------------------------------------------------------------
(* Properties.                                                              *)

Honoured == {k \in 1..issued : Accepts(k, FALSE)}

(* Rotation leaves one token per login that the relay takes, and one more   *)
(* for each time a failing database has undone a revocation (auth.py:1001). *)
OneLiveToken == Cardinality(Honoured) <= logins + undone

(* A token once refused is refused for good, across restarts too, unless    *)
(* the database failed (comment at utils/security.py:235).                  *)
RefusedStays == \A k \in 1..issued \ lost' : k \notin Honoured => k \notin Honoured'
RevocationsLast == [][RefusedStays]_tokenVars

(* A tab whose token a sibling rotates during its own refresh takes over    *)
(* the sibling's instead of failing (refreshSync.ts:82-86).                 *)
LoserHealed == \A t \in Tabs : ~tab[t].spurned
=============================================================================
