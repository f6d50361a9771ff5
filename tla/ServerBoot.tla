------------------------------- MODULE ServerBoot -------------------------------
(***************************************************************************)
(* Which relay the app talks to (config.ts), the screen that covers it     *)
(* while that relay does not answer (components/ServerBootOverlay.tsx,     *)
(* App.tsx) and the choice of another one, there and on the login page     *)
(* (pages/LoginPage.tsx: handleApplyRelay). The address is read once, when *)
(* the page loads. An account lives on one relay.                          *)
(***************************************************************************)
EXTENDS Naturals

CONSTANTS
    Relays, Default,
    Public,         \* PUBLIC_RELAYS
    Probes,         \* health checks of the overlay at a time
    MaxFaults,      \* times a relay comes up or goes away
    None

VARIABLES
    alive,          \* the relays that answer now
    faults,
    saved,          \* the relay saved in localStorage
    resolved,       \* the public relay found earlier
    base,           \* BASE_URL
    overlay,        \* the overlay is shown
    phase,          \* of the overlay
    manual,         \* manualAttemptRef
    probes,         \* health checks in flight
    apply,          \* handleApplyRelay in flight
    signedIn,       \* the relay the session is of
    proven,         \* relays that were found healthy, or given with a link
    astray          \* a session was left with another relay: see below

bootVars == <<alive, faults, saved, resolved, base, overlay, phase, manual, probes, apply,
              signedIn, proven, astray>>

Idle == [kind |-> "none"]
Check(kind, relay) == [kind |-> kind, relay |-> relay, mounted |-> TRUE]
OnlyOne(probe) == [p \in Probes |-> IF p = CHOOSE q \in Probes : TRUE THEN probe ELSE Idle]

Init ==
    /\ alive \in SUBSET Relays /\ faults = 0
    /\ saved = None /\ resolved = None /\ base = Default
    /\ overlay = TRUE /\ phase = "checking" /\ manual = FALSE
    /\ probes = OnlyOne(Check("base", Default)) /\ apply = None
    /\ signedIn = None /\ proven = {} /\ astray = FALSE

-----------------------------------------------------------------------------
(* The page loads: the saved relay, or the public one found before, or one  *)
(* that answers, or the default.                                            *)
Resolved(keep, found) ==
    IF keep # None THEN base' = keep /\ resolved' = found
    ELSE IF found # None THEN base' = found /\ resolved' = found
    ELSE \/ Public \cap alive # {} /\ base' \in Public \cap alive /\ resolved' = base'
         \/ Public \cap alive = {} /\ base' = Default /\ resolved' = None

Loads(keep, found) ==
    /\ saved' = keep /\ Resolved(keep, found)
    /\ overlay' = TRUE /\ phase' = "checking" /\ manual' = FALSE
    /\ probes' = OnlyOne(Check("base", base')) /\ apply' = None

Reload ==
    /\ Loads(saved, resolved)
    /\ proven' = proven \cup (IF saved = None /\ base' \in Public THEN {base'} ELSE {})
    /\ astray' = (astray \/ (signedIn # None /\ base' # base))
    /\ UNCHANGED <<alive, faults, signedIn>>

(* resetRelayConfig, in the settings: for the next start.                   *)
ResetRelayConfig ==
    /\ ~overlay /\ saved' = None /\ resolved' = None
    /\ UNCHANGED <<alive, faults, base, overlay, phase, manual, probes, apply, signedIn, proven, astray>>

(* setRelayConfig, and the reload after it.                                 *)
Chosen(relay) == Loads(relay, None)

(* getRelayConfig, which does not know of a public relay found at the start.*)
Current == IF saved # None THEN saved ELSE Default

(* A link with ?relay= is saved unproven and leaves the session alone.      *)
OpenLink(relay) ==
    /\ Chosen(relay) /\ proven' = proven \cup {relay}
    /\ astray' = (astray \/ signedIn \notin {None, relay})
    /\ UNCHANGED <<alive, faults, signedIn>>

ChangesHealth(relay) ==
    /\ faults < MaxFaults /\ faults' = faults + 1
    /\ alive' = IF relay \in alive THEN alive \ {relay} ELSE alive \cup {relay}
    /\ UNCHANGED <<saved, resolved, base, overlay, phase, manual, probes, apply, signedIn, proven, astray>>

-----------------------------------------------------------------------------
(* The overlay. It asks every 5 s, but not while a manual attempt runs.     *)
Poll(p) ==
    /\ overlay /\ ~manual /\ probes[p] = Idle
    /\ probes' = [probes EXCEPT ![p] = Check("base", base)]
    /\ UNCHANGED <<alive, faults, saved, resolved, base, overlay, phase, manual, apply, signedIn, proven, astray>>

HandleRetry(p) ==
    /\ overlay /\ phase = "failed" /\ probes[p] = Idle
    /\ phase' = "checking" /\ probes' = [probes EXCEPT ![p] = Check("base", base)]
    /\ UNCHANGED <<alive, faults, saved, resolved, base, overlay, manual, apply, signedIn, proven, astray>>

HandleStartLocal ==
    /\ overlay /\ phase = "failed" /\ phase' = "setup"
    /\ UNCHANGED <<alive, faults, saved, resolved, base, overlay, manual, probes, apply, signedIn, proven, astray>>

ConnectTo(p, relay) ==
    /\ overlay /\ phase \in {"failed", "setup"} /\ probes[p] = Idle
    /\ manual' = TRUE /\ phase' = "checking"
    /\ probes' = [probes EXCEPT ![p] = Check("manual", relay)]
    /\ UNCHANGED <<alive, faults, saved, resolved, base, overlay, apply, signedIn, proven, astray>>

(* A check comes back well: a poll closes the overlay, also the one of an   *)
(* overlay that was closed before.                                          *)
BaseAnswers(p) ==
    /\ probes[p].kind = "base" /\ probes[p].relay \in alive
    /\ probes' = [q \in Probes |-> IF q = p \/ probes[q] = Idle THEN Idle
                                   ELSE [probes[q] EXCEPT !.mounted = FALSE]]
    /\ phase' = "ready" /\ overlay' = FALSE
    /\ UNCHANGED <<alive, faults, saved, resolved, base, manual, apply, signedIn, proven, astray>>

(* A manual attempt saves the relay and reloads; with a session of another  *)
(* relay after the user agreed, and signed out.                             *)
ManualAnswers(p) ==
    /\ probes[p].kind = "manual" /\ probes[p].relay \in alive
    /\ LET relay == probes[p].relay
           ends == relay # Current /\ signedIn # None IN
       \/ /\ Chosen(relay) /\ proven' = proven \cup {relay}
          /\ signedIn' = IF ends THEN None ELSE signedIn
          /\ astray' = (astray \/ Current # base)
       \/ /\ ends /\ manual' = FALSE /\ probes' = [probes EXCEPT ![p] = Idle]
          /\ phase' = IF probes[p].mounted THEN "failed" ELSE phase
          /\ UNCHANGED <<saved, resolved, base, overlay, apply, signedIn, proven, astray>>
    /\ UNCHANGED <<alive, faults>>

(* Or it does not, for a healthy relay also by its time limit.              *)
ProbeFails(p) ==
    /\ probes[p] # Idle
    /\ probes' = [probes EXCEPT ![p] = Idle]
    /\ manual' = (manual /\ probes[p].kind = "base")
    /\ phase' = IF probes[p].mounted /\ phase # "setup" THEN "failed" ELSE phase
    /\ UNCHANGED <<alive, faults, saved, resolved, base, overlay, apply, signedIn, proven, astray>>

(* A request fails with the relay gone: the overlay is shown anew.          *)
RelayUnreachable(p) ==
    /\ ~overlay /\ base \notin alive /\ probes[p] = Idle
    /\ overlay' = TRUE /\ phase' = "checking" /\ manual' = FALSE
    /\ probes' = [probes EXCEPT ![p] = Check("base", base)]
    /\ UNCHANGED <<alive, faults, saved, resolved, base, apply, signedIn, proven, astray>>

-----------------------------------------------------------------------------
(* The login page. Whether the session has to end is asked before the check.*)
HandleApplyRelay(relay) ==
    /\ ~overlay /\ apply = None
    /\ apply' = [relay |-> relay, ends |-> signedIn # None /\ relay # Current]
    /\ astray' = (astray \/ Current # base)
    /\ UNCHANGED <<alive, faults, saved, resolved, base, overlay, phase, manual, probes, signedIn, proven>>

Applied ==
    /\ apply # None /\ apply.relay \in alive
    /\ Chosen(apply.relay) /\ proven' = proven \cup {apply.relay}
    /\ signedIn' = IF apply.ends THEN None ELSE signedIn
    /\ UNCHANGED <<alive, faults, astray>>

ApplyFails ==
    /\ apply # None /\ apply' = None
    /\ UNCHANGED <<alive, faults, saved, resolved, base, overlay, phase, manual, probes, signedIn, proven, astray>>

SignIn ==
    /\ ~overlay /\ signedIn = None /\ base \in alive /\ signedIn' = base
    /\ astray' = (astray \/ (apply # None /\ apply.relay # base))
    /\ UNCHANGED <<alive, faults, saved, resolved, base, overlay, phase, manual, probes, apply, proven>>

SignOut ==
    /\ signedIn # None /\ signedIn' = None
    /\ UNCHANGED <<alive, faults, saved, resolved, base, overlay, phase, manual, probes, apply, proven, astray>>

-----------------------------------------------------------------------------
Next ==
    \/ Reload \/ ResetRelayConfig \/ HandleStartLocal \/ Applied \/ ApplyFails \/ SignIn \/ SignOut
    \/ \E relay \in Relays : OpenLink(relay) \/ ChangesHealth(relay) \/ HandleApplyRelay(relay)
    \/ \E p \in Probes :
        \/ Poll(p) \/ HandleRetry(p) \/ BaseAnswers(p) \/ ManualAnswers(p) \/ ProbeFails(p)
        \/ RelayUnreachable(p)
        \/ \E relay \in Relays : ConnectTo(p, relay)

Spec == Init /\ [][Next]_bootVars

-----------------------------------------------------------------------------
(* Property: a relay that never answered is never the saved one, unless a   *)
(* link named it (ServerBootOverlay.tsx:97-100), and a session is only used *)
(* with the relay it is of (LoginPage.tsx:187-189). Not guarded are: a      *)
(* sign-in while the login page checks another relay, a link, a start that  *)
(* finds another public relay or follows a reset, and a switch from a       *)
(* public relay.                                                            *)
OnlyProvenIsSaved == saved # None => saved \in proven
SessionAtItsRelay == signedIn # None /\ ~astray => base = signedIn

RelayIsSound == OnlyProvenIsSaved /\ SessionAtItsRelay

(* Claimed by ServerBootOverlay.tsx:30-32, and not so: no poll changes the  *)
(* screen of a manual attempt in flight. One sent before it does.           *)
ManualUndisturbed ==
    (overlay /\ \E p \in Probes : probes[p].kind = "manual" /\ probes[p].mounted) => phase = "checking"

-----------------------------------------------------------------------------
(* What it follows from: addresses are relays, and a relay the login page   *)
(* checks without an end of the session is the one the session is of.       *)
AddressesOK ==
    /\ base \in Relays /\ saved \in Relays \cup {None} /\ resolved \in Relays \cup {None}
    /\ probes \in [Probes -> {Idle} \cup
            [kind : {"base", "manual"}, relay : Relays, mounted : BOOLEAN]]
    /\ apply \in {None} \cup [relay : Relays, ends : BOOLEAN]
ApplyEndsSession ==
    apply # None /\ ~apply.ends /\ signedIn # None /\ ~astray => apply.relay = signedIn

BootInv == AddressesOK /\ RelayIsSound /\ ApplyEndsSession
================================================================================
