---------------------------------- MODULE Push ----------------------------------
(***************************************************************************)
(* Web Push: the browser's subscription, which the page hands to the relay *)
(* for the account that is signed in (services/push.ts), and the relay,    *)
(* which pushes to an account without a socket and forgets a subscription  *)
(* the push service no longer knows (server/routes/push.py,                *)
(* server/ws/notifications.py). A subscription is its endpoint, a number.  *)
(***************************************************************************)
EXTENDS Naturals, FiniteSets

CONSTANTS
    Users,
    MaxEndpoints,
    None

VARIABLES
    user,       \* who is signed in on the device
    wanted,     \* the setting desktopNotifications
    granted,    \* the permission of the browser
    worker,     \* swRegistration of the page
    endpoint,   \* the browser's subscription
    made,       \* endpoints made
    step,       \* subscribePush under way
    rows,       \* push_subscriptions: whose, and which endpoint
    sending,    \* send_push_notification under way: for whom, to which rows, which were dead
    landed,     \* subscriptions the relay confirmed to the page
    foreign     \* a notification of one was shown to another who was signed in

pushVars == <<user, wanted, granted, worker, endpoint, made, step, rows, sending, landed, foreign>>

Nothing == [to |-> None, left |-> {}, dead |-> {}]

Init ==
    /\ user = None /\ wanted = TRUE /\ granted \in BOOLEAN /\ worker = FALSE
    /\ endpoint = None /\ made = 0 /\ step = "none" /\ rows = {} /\ sending = Nothing
    /\ landed = {} /\ foreign = FALSE

-----------------------------------------------------------------------------
(* Sign-in and logout; neither unsubscribes, nor does the setting.          *)
SignIn(u) ==
    /\ user = None /\ user' = u /\ step' = "none"
    /\ UNCHANGED <<wanted, granted, worker, endpoint, made, rows, sending, landed, foreign>>

PerformLogout ==
    /\ user # None /\ user' = None
    /\ UNCHANGED <<wanted, granted, worker, endpoint, made, step, rows, sending, landed, foreign>>

Setting ==
    /\ wanted' = ~wanted
    /\ UNCHANGED <<user, granted, worker, endpoint, made, step, rows, sending, landed, foreign>>

(* The browser drops the subscription: its endpoint is gone for good.       *)
Expires ==
    /\ endpoint # None /\ endpoint' = None
    /\ UNCHANGED <<user, wanted, granted, worker, made, step, rows, sending, landed, foreign>>

-----------------------------------------------------------------------------
(* initPushNotifications, when the chat page is shown.                      *)
InitPushNotifications ==
    /\ user # None /\ step = "none" /\ wanted
    /\ worker' = TRUE /\ step' = "subscribe"
    /\ UNCHANGED <<user, wanted, granted, endpoint, made, rows, sending, landed, foreign>>

(* subscribePush: the permission is asked for, the relay for its key, and   *)
(* the browser for its subscription or a new one. It may fail anywhere.     *)
SubscribePush ==
    /\ step = "subscribe" /\ worker
    /\ \/ step' = "none" /\ UNCHANGED <<granted, endpoint, made>>
       \/ /\ wanted /\ granted' = TRUE /\ step' = "send"
          /\ IF endpoint # None THEN UNCHANGED <<endpoint, made>>
             ELSE made < MaxEndpoints /\ made' = made + 1 /\ endpoint' = made + 1
    /\ UNCHANGED <<user, wanted, worker, rows, sending, landed, foreign>>

(* sendSubscriptionToServer and subscribe_push, with the token of whoever   *)
(* is signed in by then; the request or its answer may be lost.             *)
Subscribed ==
    /\ step = "send" /\ step' = "none"
    /\ \/ /\ user # None /\ endpoint # None
          /\ rows' = rows \cup {<<user, endpoint>>}
          /\ landed' \in {landed, landed \cup {<<user, endpoint>>}}
       \/ UNCHANGED <<rows, landed>>
    /\ UNCHANGED <<user, wanted, granted, worker, endpoint, made, sending, foreign>>

-----------------------------------------------------------------------------
(* send_push_notification reads the rows of a user without a socket.        *)
StartPush(u) ==
    /\ sending = Nothing /\ u # user
    /\ sending' = [to |-> u, left |-> {row \in rows : row[1] = u}, dead |-> {}]
    /\ sending'.left # {}
    /\ UNCHANGED <<user, wanted, granted, worker, endpoint, made, step, rows, landed, foreign>>

(* One of them: the notification is shown, or the push service knows the    *)
(* endpoint no more, or fails in another way.                               *)
PushOne(row) ==
    /\ row \in sending.left
    /\ \/ /\ row[2] = endpoint /\ foreign' = (foreign \/ user \notin {None, row[1]})
          /\ sending' = [sending EXCEPT !.left = @ \ {row}]
       \/ /\ row[2] # endpoint /\ UNCHANGED foreign
          /\ sending' = [sending EXCEPT !.left = @ \ {row}, !.dead = @ \cup {row}]
       \/ sending' = [sending EXCEPT !.left = @ \ {row}] /\ UNCHANGED foreign
    /\ UNCHANGED <<user, wanted, granted, worker, endpoint, made, step, rows, landed>>

(* At the end the dead ones are removed.                                    *)
PushDone ==
    /\ sending # Nothing /\ sending.left = {}
    /\ rows' = rows \ sending.dead /\ sending' = Nothing
    /\ UNCHANGED <<user, wanted, granted, worker, endpoint, made, step, landed, foreign>>

-----------------------------------------------------------------------------
Next ==
    \/ PerformLogout \/ Setting \/ Expires
    \/ InitPushNotifications \/ SubscribePush \/ Subscribed \/ PushDone
    \/ \E u \in Users : SignIn(u) \/ StartPush(u) \/ \E e \in 1 .. MaxEndpoints : PushOne(<<u, e>>)

Spec == Init /\ [][Next]_pushVars

-----------------------------------------------------------------------------
(* Property: what the relay confirmed stays while the browser has the       *)
(* subscription, through pushes that fail for other reasons, logins of      *)
(* others and lost answers (push.py:188-201): who subscribed is reached.    *)
StaysSubscribed == \A row \in landed : row[2] = endpoint => row \in rows

(* Not so: only the account that is signed in shows its notifications on a  *)
(* device (push.ts:82-95 takes the subscription back; nothing calls it).    *)
OnlyOwnShown == ~foreign

-----------------------------------------------------------------------------
(* What it follows from: rows are of endpoints that were made, and a row    *)
(* that was found dead is of one the browser has no more, and never will    *)
(* again.                                                                   *)
PushInv ==
    /\ made \in Nat /\ endpoint \in {None} \cup 1..made
    /\ sending = [to |-> sending.to, left |-> sending.left, dead |-> sending.dead]
    /\ \A row \in rows \cup landed \cup sending.left \cup sending.dead : row[2] \in 1..made
    /\ \A row \in sending.dead : row[2] # endpoint
    /\ StaysSubscribed
==================================================================================
