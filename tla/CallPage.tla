------------------------------- MODULE CallPage -------------------------------
(***************************************************************************)
(* The page of one call (pages/CallPage.tsx): its signalling socket, the   *)
(* microphone, the peer connection and the timers, from mount to after the *)
(* page is left. The relay (ws/signaling.py) and the other user's page are *)
(* reduced to what this page sees of them.                                 *)
(*                                                                         *)
(* Left out: ICE candidates, devices and their switches, the screen, the   *)
(* cipher of the bodies (only whether its keys are loaded).                *)
(***************************************************************************)
EXTENDS Naturals, Sequences

CONSTANTS
    MaxTries,   \* MAX_RECONNECT
    MaxBreaks,  \* bound: times the connections break
    NoStream

VARIABLES
    role,       \* "caller", "callee"
    page,       \* the refs of the page
    relay,      \* the call on the relay, its socket of this user, the other page
    access,     \* the access token in memory: "good", "expired"
    breaks

callVars == <<role, page, relay, access, breaks>>

Final == {"ended", "missed", "rejected", "failed"}
Last(p) == p.status \in Final

(* at: mounted, about to navigate away, or unmounted. sock: "boot" before a *)
(* silent refresh, "retry" while a reconnect is planned, "refresh" while a  *)
(* closed socket waits for a new token. first: it is the socket that opened *)
(* first. began: beginSignaling. mics: startMedia calls under way, named    *)
(* for who awaits them; streams are named likewise.                         *)
Init ==
    /\ role \in {"caller", "callee"}
    /\ \E boot \in {"opening", "boot"} :
          page = [at |-> "here", status |-> "connecting", sock |-> boot, tries |-> 0,
                  first |-> TRUE, began |-> "no", turn |-> FALSE, keys |-> FALSE, ring |-> FALSE,
                  mics |-> {}, live |-> {}, held |-> NoStream, pc |-> "none", queue |-> <<>>]
    /\ \E old \in {<<>>, <<"timeout">>} :       \* buffered since an earlier call
          relay = [call |-> IF role = "caller" THEN "none" ELSE "ringing",
                   up |-> FALSE, peer |-> "away", inbox |-> old]
    /\ access = "good" /\ breaks = 0

-----------------------------------------------------------------------------
(* The relay: what it does with a frame of this page, if it gets it.        *)

Told(r, frame) == [r EXCEPT !.inbox = Append(@, frame)]
Over(r) == [r EXCEPT !.call = IF @ \in {"ringing", "active"} THEN "over" ELSE @]

Requested(r, free) ==
    IF free /\ r.call = "none" THEN Told([r EXCEPT !.call = "ringing"], "sent")
    ELSE Told(r, "failed")
Joined(r) ==
    IF r.call = "over" THEN Told(r, "failed")
    ELSE Told([r EXCEPT !.call = "active", !.peer = IF r.call = "ringing" THEN "ready" ELSE @],
              "request")
Offered(r) == [r EXCEPT !.peer = IF @ = "away" THEN @ ELSE "asked"]
Answered(r) == [r EXCEPT !.peer = IF @ = "offered" THEN "stable" ELSE @]

Reaches(p) == p.sock = "open" /\ relay.up

(* The relay finds the socket closed and ends the call of its user.         *)
Unplugged(p, r) ==
    IF p.sock = "open" /\ r.up THEN [Over(r) EXCEPT !.up = FALSE, !.inbox = <<>>] ELSE r

(* The other page joins, rejects, hangs up, offers once it is accepted,     *)
(* answers. To a user without a socket the relay sends later.               *)
PeerActs ==
    /\ \/ /\ role = "caller" /\ relay.call = "ringing"
          /\ \/ relay' = Told([relay EXCEPT !.call = "active", !.peer = "ready"], "accepted")
             \/ relay' = Told(Over(relay), "rejected")
       \/ relay.call \in {"ringing", "active"} /\ relay' = Told(Over(relay), "ended")
       \/ role = "callee" /\ relay.call = "ringing" /\ relay' = Told(Over(relay), "timeout")
       \/ /\ role = "callee" /\ relay.peer = "ready" /\ relay.call = "active"
          /\ relay' = Told([relay EXCEPT !.peer = "offered"], "offer")
       \/ /\ relay.peer = "asked" /\ relay.call = "active"
          /\ relay' = Told([relay EXCEPT !.peer = "stable"], "answer")
    /\ UNCHANGED <<role, page, access, breaks>>

-----------------------------------------------------------------------------
(* cleanup, and the ways to a final status.                                 *)

Cleaned(p) ==
    [p EXCEPT !.ring = FALSE, !.sock = IF @ = "refresh" THEN @ ELSE "none", !.tries = 0,
              !.first = FALSE, !.live = @ \ {p.held}, !.held = NoStream, !.pc = "none"]
Finished(p, how) == [Cleaned(p) EXCEPT !.status = how, !.at = IF @ = "here" THEN "leaving" ELSE @]

(* onclose of the socket.                                                   *)
Closed(p, expired) ==
    IF (~expired \/ ~Last(p)) /\ p.tries < MaxTries
    THEN [p EXCEPT !.sock = "retry", !.tries = @ + 1, !.first = FALSE]
    ELSE IF expired THEN [p EXCEPT !.sock = "refresh", !.first = FALSE]
    ELSE [p EXCEPT !.sock = "none", !.status = "failed", !.first = FALSE,
                   !.at = IF @ = "here" THEN "leaving" ELSE @]

-----------------------------------------------------------------------------
(* The peer connection. Frames that came before it are processed when it is *)
(* made; a body that cannot be decrypted is dropped.                        *)

(* The other page seals a body with its key and ours (sealSignalingMessage);*)
(* ours reads it once it has the keys, and the frame stays without a body   *)
(* until then (unsealSignalingMessage).                                     *)
Unseals(p) == p.keys

Has(p, frame) == \E i \in DOMAIN p.queue : p.queue[i] = frame

CreatePeerConnection(p, initiator) ==
    IF p.pc # "none" THEN p
    ELSE [p EXCEPT !.queue = <<>>,
                   !.pc = IF Unseals(p) /\ Has(p, IF initiator THEN "answer" ELSE "offer") THEN "stable"
                          ELSE IF initiator THEN "offered" ELSE "new"]

(* What the relay hears of it: the offer, or the answer to a queued offer.  *)
Signalled(p, initiator) ==
    IF p.pc # "none" \/ ~Reaches(p) THEN relay
    ELSE IF initiator THEN Offered(relay)
    ELSE IF Unseals(p) /\ Has(p, "offer") THEN Answered(relay) ELSE relay

Initiator(tag) == tag = "accepted"

(* startMedia: a live stream serves again (its peer connection is there),   *)
(* else the user is asked.                                                  *)
StartMedia(p, tag) == IF p.held # NoStream THEN p ELSE [p EXCEPT !.mics = @ \cup {tag}]

MediaGranted(tag) ==
    LET p == [page EXCEPT !.mics = @ \ {tag}, !.live = @ \cup {tag}, !.held = tag]
    IN /\ tag \in page.mics
       /\ page' = CreatePeerConnection(p, Initiator(tag))
       /\ relay' = Signalled(p, Initiator(tag))
       /\ UNCHANGED <<role, access, breaks>>

(* The page only says so: the call and the socket stay.                     *)
MediaDenied(tag) ==
    /\ tag \in page.mics
    /\ page' = [page EXCEPT !.mics = @ \ {tag}, !.status = "failed"]
    /\ UNCHANGED <<role, relay, access, breaks>>

PcConnects ==
    /\ page.pc = "stable" /\ relay.peer = "stable"
    /\ page' = [page EXCEPT !.pc = "connected", !.status = "active"]
    /\ UNCHANGED <<role, relay, access, breaks>>

(* ICE is lost; only the initiator offers again.                            *)
PcDrops ==
    /\ page.pc = "connected" /\ breaks < MaxBreaks /\ breaks' = breaks + 1
    /\ IF role = "caller"
       THEN /\ page' = [page EXCEPT !.pc = "offered"]
            /\ relay' = IF Reaches(page) THEN Offered(relay) ELSE relay
       ELSE /\ page' = [page EXCEPT !.pc = "new"]
            /\ relay' = [relay EXCEPT !.peer = "ready"]
    /\ UNCHANGED <<role, access>>

PcFails ==
    /\ page.pc \in {"stable", "connected"}
    /\ page' = Finished(page, "failed") /\ relay' = Unplugged(page, relay)
    /\ UNCHANGED <<role, access, breaks>>

-----------------------------------------------------------------------------
(* Loading.                                                                 *)

KeysLoaded ==
    /\ ~page.keys /\ page.at # "gone" /\ page' = [page EXCEPT !.keys = TRUE]
    /\ UNCHANGED <<role, relay, access, breaks>>
TurnReady ==
    /\ ~page.turn /\ page.at # "gone" /\ page' = [page EXCEPT !.turn = TRUE]
    /\ UNCHANGED <<role, relay, access, breaks>>

(* The silent refresh of a reloaded page.                                   *)
Booted ==
    /\ page.sock = "boot" /\ page.at # "gone"
    /\ \/ page' = [page EXCEPT !.sock = "opening"]
       \/ page' = [page EXCEPT !.sock = "none", !.status = "failed"]
    /\ UNCHANGED <<role, relay, access, breaks>>

Open ==
    /\ page.sock = "opening" /\ access = "good"
    /\ page' = [page EXCEPT !.sock = "open", !.tries = 0,
                            !.began = IF @ = "no" THEN "waiting" ELSE @]
    /\ relay' = [relay EXCEPT !.up = TRUE]
    /\ UNCHANGED <<role, access, breaks>>

(* beginSignaling, once the ICE servers are there or five seconds later,    *)
(* whatever has become of the page; on a socket that is gone nothing goes.  *)
Begin ==
    /\ page.began = "waiting"
    /\ LET p == [page EXCEPT !.began = "done", !.status = "ringing", !.ring = TRUE]
           sent == page.first /\ Reaches(page)
       IN IF role = "callee"
          THEN /\ page' = StartMedia(p, "join")
               /\ relay' = IF sent THEN Joined(relay) ELSE relay
          ELSE /\ page' = p
               /\ \E free \in BOOLEAN : relay' = IF sent THEN Requested(relay, free) ELSE relay
    /\ UNCHANGED <<role, access, breaks>>

-----------------------------------------------------------------------------
(* onmessage. The call_id of a frame is not looked at.                      *)

(* Frames that stop the ringing timer.                                      *)
(* Mutant: so does the echo of a join.                                      *)
StopsRinging_Echo == {"accepted", "rejected", "failed", "sent", "request"}
StopsRinging == {"accepted", "rejected", "failed", "sent"}

Outcome(frame) == IF frame = "timeout" THEN "missed" ELSE frame

Receive ==
    /\ Reaches(page) /\ relay.inbox # <<>>
    /\ LET frame == Head(relay.inbox)
           r == [relay EXCEPT !.inbox = Tail(@)]
           p == IF frame \in StopsRinging THEN [page EXCEPT !.ring = FALSE] ELSE page
       IN \/ /\ frame = "sent" /\ page' = p /\ relay' = r
          \/ /\ frame \in {"rejected", "ended", "failed", "timeout"}
             /\ page' = Finished(p, Outcome(frame)) /\ relay' = Unplugged(page, r)
          \/ /\ frame = "request" /\ p.pc # "none" /\ page' = p /\ relay' = r
          \/ /\ frame = "request" /\ p.pc = "none" /\ relay' = r
             /\ page' = StartMedia([p EXCEPT !.status = "ringing"], "echo")
          \/ /\ frame = "accepted" /\ relay' = r
             /\ page' = StartMedia(p, "accepted")
          \/ /\ frame \in {"offer", "answer"} /\ p.pc = "none" /\ relay' = r
             /\ page' = [p EXCEPT !.queue = Append(@, frame)]
          \/ /\ frame = "offer" /\ p.pc # "none"
             /\ page' = IF Unseals(p) THEN [p EXCEPT !.pc = "stable"] ELSE p
             /\ relay' = IF Unseals(p) THEN Answered(r) ELSE r
          \/ /\ frame = "answer" /\ p.pc # "none" /\ relay' = r
             /\ page' = IF Unseals(p) /\ p.pc = "offered" THEN [p EXCEPT !.pc = "stable"] ELSE p
    /\ UNCHANGED <<role, access, breaks>>

-----------------------------------------------------------------------------
(* Timers and the user.                                                     *)

(* Thirty seconds are longer than a frame is on its way.                    *)
RingEnds ==
    /\ page.ring /\ (Reaches(page) => relay.inbox = <<>>)
    /\ IF page.status = "ringing"
       THEN /\ page' = Finished(page, "missed")
            /\ relay' = Unplugged(page, IF role = "caller" /\ Reaches(page) /\ relay.call = "ringing"
                                        THEN Over(relay) ELSE relay)
       ELSE page' = [page EXCEPT !.ring = FALSE] /\ UNCHANGED relay
    /\ UNCHANGED <<role, access, breaks>>

EndCall ==
    /\ page.at = "here" /\ ~Last(page)
    /\ page' = Finished(page, "ended") /\ relay' = Unplugged(page, relay)
    /\ UNCHANGED <<role, access, breaks>>

(* The back arrow at once, a final status after a moment.                   *)
Leave ==
    /\ page.at # "gone"
    /\ page' = [Cleaned(page) EXCEPT !.at = "gone", !.status = IF page.at = "here" THEN "ended" ELSE @]
    /\ relay' = Unplugged(page, relay)
    /\ UNCHANGED <<role, access, breaks>>

-----------------------------------------------------------------------------
(* The socket breaks, or the relay closes it for the expired token and      *)
(* leaves the call alone. A handshake fails with the network or the token.  *)

SocketLost ==
    /\ page.sock = "open" /\ breaks < MaxBreaks /\ breaks' = breaks + 1
    /\ page' = Closed(page, FALSE) /\ relay' = Unplugged(page, relay)
    /\ UNCHANGED <<role, access>>

TokenEnds ==
    /\ page.sock = "open" /\ access = "good" /\ breaks < MaxBreaks /\ breaks' = breaks + 1
    /\ access' = "expired"
    /\ page' = Closed(page, TRUE) /\ relay' = [relay EXCEPT !.up = FALSE, !.inbox = <<>>]
    /\ UNCHANGED role

OpenFails ==
    /\ page.sock = "opening" /\ (access = "expired" \/ page.tries > 0)
    /\ page' = Closed(page, FALSE)
    /\ UNCHANGED <<role, relay, access, breaks>>

Reconnect ==
    /\ page.sock = "retry" /\ page' = [page EXCEPT !.sock = "opening"]
    /\ UNCHANGED <<role, relay, access, breaks>>

(* A socket closed for its token, after a refresh, page or no page.         *)
Refreshed ==
    /\ page.sock = "refresh"
    /\ \/ access' = "good" /\ page' = [page EXCEPT !.sock = "opening", !.tries = 0]
       \/ /\ UNCHANGED access
          /\ page' = [page EXCEPT !.sock = "none", !.status = "failed",
                                  !.at = IF @ = "here" THEN "leaving" ELSE @]
    /\ UNCHANGED <<role, relay, breaks>>

-----------------------------------------------------------------------------
Tags == {"join", "echo", "accepted"}

Next ==
    \/ PeerActs \/ KeysLoaded \/ TurnReady \/ Booted \/ Open \/ Begin \/ Receive
    \/ PcConnects \/ PcDrops \/ PcFails \/ RingEnds \/ EndCall \/ Leave
    \/ SocketLost \/ TokenEnds \/ OpenFails \/ Reconnect \/ Refreshed
    \/ \E tag \in Tags : MediaGranted(tag) \/ MediaDenied(tag)

(* Timers fire; a socket is read.                                           *)
CallFairness == WF_callVars(RingEnds) /\ WF_callVars(Receive)

Spec == Init /\ [][Next]_callVars
FairSpec == Spec /\ CallFairness

-----------------------------------------------------------------------------
(* Properties.                                                              *)

Rings == page.status = "ringing" /\ page.at # "gone"

(* A page that was called does not ring for ever, whatever happens to its   *)
(* socket, its microphone or the caller (CallPage.tsx:490-498).             *)
IncomingSettles == (role = "callee" /\ Rings) ~> ~Rings

(* Nor does the page of the caller (docs/TUNNEL_FRIENDS.md:113).            *)
RingingEnds == Rings ~> ~Rings
=============================================================================
