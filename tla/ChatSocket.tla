------------------------------ MODULE ChatSocket ------------------------------
(***************************************************************************)
(* The chat socket of a mounted page (hooks/useChatSocket.ts, wsAuth.ts):  *)
(* every socket it opens reconnects for itself when it closes. The server  *)
(* keeps one socket per user and closes the one that is replaced           *)
(* (ws/chat_manager.py). A socket closed with 4001 waits for a new token.  *)
(***************************************************************************)
EXTENDS Naturals, FiniteSets

CONSTANTS
    Socks,      \* sockets at a time
    MaxOff,     \* bound: breaks of the network and ends of a token
    MaxWakes,   \* bound: returns to the tab
    NoSock

VARIABLES
    ws,         \* per socket: "none", "shake", "open", "closed", "rejected"
    latest,     \* wsRef
    timers,     \* reconnect timers under way
    refreshing, \* refreshes under way
    token,      \* "good", "expired"; "none": not in memory yet, after a reload
    mounted,    \* "start", "yes", "no", "out": the session is over
    up,         \* the relay can be reached
    cold,       \* the first refresh failed, no socket was opened since
    off, wakes

socketVars == <<ws, latest, timers, refreshing, token, mounted, up, cold, off, wakes>>

Init ==
    /\ ws = [s \in Socks |-> "none"] /\ latest = NoSock /\ timers = 0
    /\ \/ token = "good" /\ refreshing = 0
       \/ token = "none" /\ refreshing = 1          \* a reload: the token first
    /\ mounted = "start" /\ up = TRUE /\ cold = FALSE /\ off = 0 /\ wakes = 0

Free == {s \in Socks : ws[s] = "none" /\ s # latest}
Drop(s) == IF ws[s] \in {"shake", "open"} THEN "closed" ELSE ws[s]

-----------------------------------------------------------------------------
(* connect(), on top of the given states of the sockets: openAuthedSocket   *)
(* opens none without a token.                                              *)
Connect(socks) ==
    IF token' = "none" THEN ws' = socks /\ UNCHANGED <<latest, cold>>
    ELSE /\ \E s \in Free : ws' = [socks EXCEPT ![s] = "shake"] /\ latest' = s
         /\ cold' = FALSE

Mount ==
    /\ mounted = "start" /\ mounted' = "yes"
    /\ UNCHANGED <<timers, refreshing, token, up, off, wakes>>
    /\ IF refreshing = 0 THEN Connect(ws) ELSE UNCHANGED <<ws, latest, cold>>

(* The handshake: the server takes the socket in the place of another.      *)
Accept(s) ==
    /\ ws[s] = "shake" /\ up /\ token = "good"
    /\ ws' = [r \in Socks |-> IF r = s THEN "open" ELSE IF ws[r] = "open" THEN "closed" ELSE ws[r]]
    /\ UNCHANGED <<latest, timers, refreshing, token, mounted, up, cold, off, wakes>>

Reject(s) ==
    /\ ws[s] = "shake" /\ (~up \/ token = "expired")
    /\ ws' = [ws EXCEPT ![s] = IF up THEN "rejected" ELSE "closed"]
    /\ UNCHANGED <<latest, timers, refreshing, token, mounted, up, cold, off, wakes>>

(* onclose.                                                                 *)
(* Mutant: the fixed bug of useChatSocket.ts:297, no timer after a break    *)
(* while the relay is away.                                                 *)
OnClose_GivesUp(s) ==
    /\ ws[s] = "closed" /\ ws' = [ws EXCEPT ![s] = "none"]
    /\ timers' = IF mounted = "yes" /\ up THEN timers + 1 ELSE timers
    /\ UNCHANGED <<latest, refreshing, token, mounted, up, cold, off, wakes>>
OnClose(s) ==
    /\ ws[s] = "closed" /\ ws' = [ws EXCEPT ![s] = "none"]
    /\ timers' = IF mounted = "yes" THEN timers + 1 ELSE timers
    /\ UNCHANGED <<latest, refreshing, token, mounted, up, cold, off, wakes>>

OnReject(s) ==
    /\ ws[s] = "rejected" /\ ws' = [ws EXCEPT ![s] = "none"]
    /\ refreshing' = IF mounted = "yes" THEN refreshing + 1 ELSE refreshing
    /\ UNCHANGED <<latest, timers, token, mounted, up, cold, off, wakes>>

TimerFires ==
    /\ timers > 0 /\ timers' = timers - 1
    /\ UNCHANGED <<refreshing, token, mounted, up, off, wakes>>
    /\ IF mounted = "yes" THEN Connect(ws) ELSE UNCHANGED <<ws, latest, cold>>

(* A refresh that fails, be it for the network, ends the session; the first *)
(* one, after a reload, leaves the page without a token and a timer.        *)
Refresh ==
    /\ refreshing > 0 /\ refreshing' = refreshing - 1 /\ mounted # "start"
    /\ \/ /\ up /\ token' = "good" /\ UNCHANGED mounted
          /\ IF mounted = "yes" THEN Connect(ws) ELSE UNCHANGED <<ws, latest, cold>>
       \/ /\ ~up /\ mounted' = IF mounted = "yes" /\ token # "none" THEN "out" ELSE mounted
          /\ cold' = (token = "none") /\ UNCHANGED <<ws, latest, token>>
    /\ UNCHANGED <<timers, up, off, wakes>>

(* A request of the page got a 401 and refreshed; no socket comes of it.    *)
RequestRefreshes ==
    /\ up /\ mounted = "yes" /\ token # "good" /\ token' = "good"
    /\ UNCHANGED <<ws, latest, timers, refreshing, mounted, up, cold, off, wakes>>

-----------------------------------------------------------------------------
(* The network, the token, the tab.                                         *)

Break ==
    /\ up /\ off < MaxOff /\ off' = off + 1 /\ up' = FALSE
    /\ ws' = [s \in Socks |-> Drop(s)]
    /\ UNCHANGED <<latest, timers, refreshing, token, mounted, cold, wakes>>

(* The browser may say "online" then: one more socket (handleOnline).       *)
Restored ==
    /\ ~up /\ up' = TRUE
    /\ UNCHANGED <<timers, refreshing, token, mounted, off, wakes>>
    /\ \/ UNCHANGED <<ws, latest, cold>>
       \/ mounted = "yes" /\ Connect(ws)

(* The server looks at the token of an open socket again.                   *)
TokenEnds ==
    /\ token = "good" /\ off < MaxOff /\ off' = off + 1 /\ token' = "expired"
    /\ ws' = [s \in Socks |-> IF ws[s] = "open" THEN "rejected" ELSE ws[s]]
    /\ UNCHANGED <<latest, timers, refreshing, mounted, up, cold, wakes>>

(* Focus after 15 s of silence (the server pings an idle socket every 25 s):*)
(* the latest is closed, which reconnects it, and one more is opened.       *)
HandleVisibility ==
    /\ mounted = "yes" /\ wakes < MaxWakes /\ wakes' = wakes + 1
    /\ UNCHANGED <<timers, refreshing, token, mounted, up, off>>
    /\ Connect([s \in Socks |-> IF s = latest THEN Drop(s) ELSE ws[s]])

(* Unmount closes the latest socket only.                                   *)
Unmount ==
    /\ mounted = "yes" /\ mounted' = "no"
    /\ ws' = [s \in Socks |-> IF s = latest THEN Drop(s) ELSE ws[s]]
    /\ UNCHANGED <<latest, timers, refreshing, token, up, cold, off, wakes>>

-----------------------------------------------------------------------------
Own ==
    \/ Mount \/ TimerFires \/ Refresh \/ Restored
    \/ \E s \in Socks : Accept(s) \/ Reject(s) \/ OnClose(s) \/ OnReject(s)

Next == Own \/ RequestRefreshes \/ Break \/ TokenEnds \/ HandleVisibility \/ Unmount

(* Timers fire, close events arrive, requests are answered; the network     *)
(* comes back.                                                              *)
SocketFairness ==
    /\ WF_socketVars(Mount) /\ WF_socketVars(TimerFires) /\ WF_socketVars(Refresh)
    /\ WF_socketVars(Restored)
    /\ \A s \in Socks : WF_socketVars(Accept(s) \/ Reject(s) \/ OnClose(s) \/ OnReject(s))

Spec == Init /\ [][Next]_socketVars
FairSpec == Spec /\ SocketFairness

-----------------------------------------------------------------------------
Connected == \E s \in Socks : ws[s] = "open"

(* Property: however the network, the server and the token behave, a page   *)
(* that stays gets a socket again (useChatSocket.ts:297-301, 366-384),      *)
(* unless its first refresh failed: see SocketNeverGivesUp.                 *)
SocketComesBack == mounted = "yes" /\ ~cold ~> (Connected \/ mounted # "yes" \/ cold)

(* useChatSocket.ts:366: "the socket has to wait for the connection itself, *)
(* not lie down for good". FALSE of the code: a page that is reloaded while *)
(* the relay is away has no token and no timer (421-428), and "online" and  *)
(* "focus" open nothing without a token.                                    *)
SocketNeverGivesUp == mounted = "yes" ~> (Connected \/ mounted # "yes")

(* useChatSocket.ts:29-31: a socket that lives is left alone, a return to   *)
(* the tab raises no storm of reconnects. FALSE of the code: the socket the *)
(* return replaces reconnects too, and replaces its successor.              *)
NoStorm == <>[](\A s \in Socks : ws[s] # "shake")
=============================================================================
