-------------------------------- MODULE PinGate --------------------------------
(***************************************************************************)
(* The lock screen of a device with a PIN: AuthGuard.tsx, which puts it    *)
(* before a page, PinLock.tsx, the pad, and pinLock.ts, which counts the   *)
(* wrong answers. The count and the lock-out are in localStorage, which    *)
(* the tabs share and a reload keeps; the pad's own `locked` is a tab's.   *)
(* A PIN is known by how many of the digits typed are right.               *)
(*                                                                         *)
(* Left out: turning the PIN on, off or changing it (module Keystore), the *)
(* hash itself, which tells the right PIN from every other, and a second   *)
(* getCurrentUser of a tab while one is under way.                         *)
(***************************************************************************)
EXTENDS Naturals, FiniteSets

CONSTANTS
    Tabs,
    PinLength,      \* digits of the PIN
    Submit,         \* a check starts from this digit on (4)
    MaxAttempts,    \* wrong answers before a lock-out (3)
    LockoutTime,    \* in ticks of the pad's interval
    MaxChecks,      \* bound: checks under way in a tab
    MaxMounts       \* bound: reloads and changes of page, of all tabs

VARIABLES
    legacy,     \* pin_hash is still of the first format
    wrong,      \* pin_attempts
    left,       \* what is left of pin_locked_until
    page,       \* "checking", "pad", "open" or "login"
    asked,      \* tabs whose getCurrentUser is under way
    verified,   \* sessionVerified
    pass,       \* tabs with the passphrase in memory
    typed,      \* the digits on the pad: how many, and how many right at first
    locked,     \* tabs whose pad is locked
    checks,     \* unlockWithPin calls under way
    mounts,
    unaware     \* tabs whose pad was there when another one locked the device

gateVars == <<legacy, wrong, left, page, asked, verified, pass, typed, locked,
              checks, mounts, unaware>>

Empty == [n |-> 0, good |-> 0]
Check == [tab : Tabs, right : BOOLEAN, at : {"verify", "vault"}, shown : BOOLEAN]

(* The checks of tab t outlive the pad they were started from.              *)
PadGone(t, cs) ==
    {c \in cs : c.tab # t} \cup {[c EXCEPT !.shown = FALSE] : c \in {d \in cs : d.tab = t}}

TypeOK ==
    /\ legacy \in BOOLEAN /\ wrong \in Nat /\ left \in 0..LockoutTime
    /\ page \in [Tabs -> {"checking", "pad", "open", "login"}]
    /\ asked \subseteq Tabs /\ verified \subseteq Tabs /\ pass \subseteq Tabs
    /\ \A t \in Tabs : typed[t].n \in 0..(Submit + MaxChecks)
    /\ locked \subseteq Tabs /\ checks \subseteq Check
    /\ mounts \in 0..MaxMounts /\ unaware \subseteq Tabs

Init ==
    /\ legacy \in BOOLEAN /\ wrong = 0 /\ left = 0
    /\ page = [t \in Tabs |-> "checking"] /\ asked = Tabs
    /\ verified = {} /\ pass = {}
    /\ typed = [t \in Tabs |-> Empty] /\ locked = {} /\ checks = {}
    /\ mounts = 0 /\ unaware = {}

-----------------------------------------------------------------------------
(* AuthGuard.                                                               *)

(* The pad appears, empty; it is locked when the device is locked out.      *)
MountPad(t) ==
    /\ page' = [page EXCEPT ![t] = "pad"]
    /\ typed' = [typed EXCEPT ![t] = Empty]
    /\ locked' = IF left > 0 THEN locked \cup {t} ELSE locked \ {t}
    /\ unaware' = unaware \ {t}

(* The session is good: the PIN is asked for, of whoever has given it too.  *)
SessionGood(t) ==
    /\ t \in asked /\ asked' = asked \ {t}
    /\ verified' = verified \cup {t}
    /\ IF page[t] = "pad" THEN UNCHANGED <<page, typed, locked, unaware>>
       ELSE MountPad(t)
    /\ UNCHANGED <<legacy, wrong, left, pass, checks, mounts>>

(* No answer that means anything: the page opens, without the PIN.          *)
SessionUnknown(t) ==
    /\ t \in asked /\ asked' = asked \ {t}
    /\ page' = [page EXCEPT ![t] = IF @ = "checking" THEN "open" ELSE @]
    /\ UNCHANGED <<legacy, wrong, left, verified, pass, typed, locked, checks,
                   mounts, unaware>>

(* 401 or 403: performLogout, which keeps the PIN and drops the passphrase. *)
SessionRefused(t) ==
    /\ t \in asked /\ asked' = asked \ {t}
    /\ verified' = verified \ {t} /\ pass' = pass \ {t}
    /\ page' = [page EXCEPT ![t] = "login"] /\ checks' = PadGone(t, checks)
    /\ UNCHANGED <<legacy, wrong, left, typed, locked, mounts, unaware>>

(* Another page: its guard shows it at once when the session was verified.  *)
Navigate(t) ==
    /\ page[t] \in {"open", "login"} /\ t \notin asked
    /\ mounts < MaxMounts /\ mounts' = mounts + 1
    /\ page' = [page EXCEPT ![t] = IF t \in verified THEN "open" ELSE "checking"]
    /\ asked' = asked \cup {t}
    /\ UNCHANGED <<legacy, wrong, left, verified, pass, typed, locked, checks,
                   unaware>>

Reload(t) ==
    /\ mounts < MaxMounts /\ mounts' = mounts + 1
    /\ page' = [page EXCEPT ![t] = "checking"] /\ asked' = asked \cup {t}
    /\ verified' = verified \ {t} /\ pass' = pass \ {t}
    /\ checks' = {c \in checks : c.tab # t}
    /\ UNCHANGED <<legacy, wrong, left, typed, locked, unaware>>

-----------------------------------------------------------------------------
(* The pad.                                                                 *)

Right(d) == d.n = PinLength /\ d.good = PinLength

(* handleDigit: from the fourth digit on, each one starts a check.          *)
HandleDigit(t, ok) ==
    LET d    == typed[t]
        good == IF ok /\ d.good = d.n /\ d.n < PinLength THEN d.n + 1 ELSE d.good
        next == [n |-> d.n + 1, good |-> good]
    IN  /\ page[t] = "pad" /\ t \notin locked
        /\ Cardinality({c \in checks : c.tab = t}) < MaxChecks
        /\ next.n <= Submit + MaxChecks
        /\ typed' = [typed EXCEPT ![t] = next]
        /\ checks' = IF next.n < Submit THEN checks
                     ELSE checks \cup {[tab |-> t, right |-> Right(next),
                                        at |-> "verify", shown |-> TRUE]}
        /\ UNCHANGED <<legacy, wrong, left, page, asked, verified, pass, locked,
                       mounts, unaware>>

HandleDelete(t) ==
    LET n == typed[t].n - 1
    IN  /\ page[t] = "pad" /\ t \notin locked /\ typed[t].n > 0
        /\ typed' = [typed EXCEPT ![t] =
                        [n |-> n, good |-> IF @.good > n THEN n ELSE @.good]]
        /\ UNCHANGED <<legacy, wrong, left, page, asked, verified, pass, locked,
                       checks, mounts, unaware>>

(* verifyPin holds: the hash is stored anew when it is old, and the         *)
(* passphrase is in memory before the refresh token is looked at again.     *)
Verified(c) ==
    /\ c \in checks /\ c.right /\ c.at = "verify"
    /\ checks' = (checks \ {c}) \cup {[c EXCEPT !.at = "vault"]}
    /\ pass' = pass \cup {c.tab}
    /\ legacy' = FALSE
    /\ wrong' = IF legacy THEN 0 ELSE wrong
    /\ left' = IF legacy THEN 0 ELSE left
    /\ UNCHANGED <<page, asked, verified, typed, locked, mounts, unaware>>

(* unlockWithPin answers true, whatever the pad shows by now.               *)
Unlocked(c) ==
    /\ c \in checks /\ c.at = "vault"
    /\ wrong' = 0 /\ left' = 0
    /\ IF c.shown THEN /\ page' = [page EXCEPT ![c.tab] = "open"]
                       /\ checks' = PadGone(c.tab, checks \ {c})
       ELSE checks' = checks \ {c} /\ UNCHANGED page
    /\ UNCHANGED <<legacy, asked, verified, pass, typed, locked, mounts, unaware>>

(* It answers false: recordFailedAttempt, and at the third the lock-out.    *)
Failed(c) ==
    /\ c \in checks /\ ~c.right
    /\ checks' = checks \ {c}
    /\ wrong' = IF wrong < MaxAttempts THEN wrong + 1 ELSE wrong
    /\ typed' = IF c.shown THEN [typed EXCEPT ![c.tab] = Empty] ELSE typed
    /\ IF wrong' < MaxAttempts THEN UNCHANGED <<left, pass, locked, unaware>>
       ELSE /\ left' = LockoutTime
            /\ pass' = pass \ {c.tab}
            /\ locked' = IF c.shown THEN locked \cup {c.tab} ELSE locked
            /\ unaware' = unaware \cup {t \in Tabs : page[t] = "pad" /\ t \notin locked'}
    /\ UNCHANGED <<legacy, page, asked, verified, mounts>>

(* The interval of a locked pad; its first look after the end resets.       *)
LockoutEnds(t) ==
    /\ page[t] = "pad" /\ t \in locked /\ left = 0
    /\ locked' = locked \ {t} /\ wrong' = 0
    /\ UNCHANGED <<legacy, left, page, asked, verified, pass, typed, checks,
                   mounts, unaware>>

Tick ==
    /\ left > 0 /\ left' = left - 1
    /\ UNCHANGED <<legacy, wrong, page, asked, verified, pass, typed, locked,
                   checks, mounts, unaware>>

Next ==
    \/ \E t \in Tabs :
        \/ SessionGood(t) \/ SessionUnknown(t) \/ SessionRefused(t)
        \/ Navigate(t) \/ Reload(t)
        \/ \E ok \in BOOLEAN : HandleDigit(t, ok)
        \/ HandleDelete(t) \/ LockoutEnds(t)
    \/ \E c \in checks : Verified(c) \/ Unlocked(c) \/ Failed(c)
    \/ Tick

Spec == Init /\ [][Next]_gateVars

-----------------------------------------------------------------------------
(* A lock-out holds across reloads, changes of page and whatever was still *)
(* being checked: a pad takes no digit while it runs, but for a pad that    *)
(* was already there when another one, of another tab or of the page before,*)
(* locked the device (PinLock reads the lock-out when it is mounted only).  *)
LockoutHolds ==
    left > 0 => \A t \in Tabs \ unaware : page[t] = "pad" => t \in locked

(* "device-level gate" (pinLock.ts:2): a page is seen after the PIN only.   *)
(* Refuted: AuthGuard.tsx:65-67 opens the page when the session could not   *)
(* be checked, and shows a page before the check once it has been one.      *)
PageIsGated ==
    \A t \in Tabs : page[t] = "open" => t \in pass

(* The passphrase stays while the page is open. Refuted: three digits typed *)
(* after the right four are three more checks, and their answers come after *)
(* the page opened.                                                         *)
OpenKeepsPass ==
    [][\A t \in Tabs : t \in pass /\ page[t] = "open" /\ page'[t] = "open"
                            /\ t \notin asked => t \in pass']_gateVars

-----------------------------------------------------------------------------
(* What LockoutHolds needs to be kept by every step: the types.             *)
GateInv ==
    /\ left \in Nat /\ page \in [Tabs -> {"checking", "pad", "open", "login"}]
    /\ LockoutHolds
===============================================================================
