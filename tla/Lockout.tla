------------------------------- MODULE Lockout -------------------------------
(***************************************************************************)
(* The lock-out after wrong guesses (utils/captcha.py, LockoutManager) of  *)
(* one key: the user name at a login, or the address at a registration,    *)
(* which awaits the captcha service between its check and its record.      *)
(*                                                                         *)
(* A unit of time is lockout_seconds; the window is Window of them, and    *)
(* everything happens at whole units. What the two stores keep is the      *)
(* number of failures by age.                                              *)
(***************************************************************************)
EXTENDS Naturals, FiniteSetsExt

CONSTANTS
    Clients,        \* who may be registering at once
    Threshold, Window,
    MaxOutages,     \* bound: calls of Redis that fail
    MaxRestarts     \* bound: restarts of the relay

VARIABLES
    route,          \* "login", "register"
    kept,           \* kept["redis"], kept["memory"]: failures by age
    waiting,        \* registrations that await the captcha service
    guesses,        \* history: wrong guesses by age since the last success
    outages, restarts

lockVars == <<route, kept, waiting, guesses, outages, restarts>>

Ages == 0..Window - 1
Nothing == [a \in Ages |-> 0]
Total(h) == MapThenSumSet(LAMBDA a : h[a], Ages)
Aged(h) == [a \in Ages |-> IF a = 0 THEN 0 ELSE h[a - 1]]
More(h) == [h EXCEPT ![0] = @ + 1]

Init ==
    /\ route \in {"login", "register"}
    /\ kept = [where \in {"redis", "memory"} |-> Nothing]
    /\ waiting = {} /\ guesses = Nothing /\ outages = 0 /\ restarts = 0

(* The last failure lies less than LOCKOUT_SECONDS back.                    *)
Locked(h) == Total(h) >= Threshold /\ h[0] > 0

Reaches(up) == outages' = (IF up THEN outages ELSE outages + 1) /\ outages' <= MaxOutages
IsLockedOut(up) == (up /\ Locked(kept["redis"])) \/ Locked(kept["memory"])

RecordFailure(up) ==
    kept' = [where \in DOMAIN kept |->
                IF where = "memory" \/ up THEN More(kept[where]) ELSE kept[where]]
RecordSuccess(up) ==
    kept' = [where \in DOMAIN kept |->
                IF where = "memory" \/ up THEN Nothing ELSE kept[where]]

(* login has no await.                                                      *)
WrongPassword ==
    /\ route = "login"
    /\ \E up \in BOOLEAN : Reaches(up) /\ ~IsLockedOut(up) /\ RecordFailure(up)
    /\ guesses' = More(guesses)
    /\ UNCHANGED <<route, waiting, restarts>>

RightPassword ==
    /\ route = "login"
    /\ \E up \in BOOLEAN : Reaches(up) /\ ~IsLockedOut(up) /\ RecordSuccess(up)
    /\ guesses' = Nothing
    /\ UNCHANGED <<route, waiting, restarts>>

Register(c) ==
    /\ route = "register" /\ c \notin waiting
    /\ \E up \in BOOLEAN : Reaches(up) /\ ~IsLockedOut(up)
    /\ waiting' = waiting \cup {c}
    /\ UNCHANGED <<route, kept, guesses, restarts>>

CaptchaFails(c) ==
    /\ c \in waiting /\ waiting' = waiting \ {c}
    /\ \E up \in BOOLEAN : Reaches(up) /\ RecordFailure(up)
    /\ guesses' = More(guesses)
    /\ UNCHANGED <<route, restarts>>

CaptchaPasses(c) ==
    /\ c \in waiting /\ waiting' = waiting \ {c}
    /\ \E up \in BOOLEAN : Reaches(up) /\ RecordSuccess(up)
    /\ guesses' = Nothing
    /\ UNCHANGED <<route, restarts>>

(* The captcha service answers within ten seconds or counts as failed: no   *)
(* unit passes under a registration that waits.                             *)
TimePasses ==
    /\ waiting = {}
    /\ kept' = [where \in DOMAIN kept |-> Aged(kept[where])]
    /\ guesses' = Aged(guesses)
    /\ UNCHANGED <<route, waiting, outages, restarts>>

Restart ==
    /\ restarts < MaxRestarts /\ restarts' = restarts + 1
    /\ kept' = [kept EXCEPT !["memory"] = Nothing] /\ waiting' = {}
    /\ UNCHANGED <<route, guesses, outages>>

Next ==
    \/ WrongPassword \/ RightPassword \/ TimePasses \/ Restart
    \/ \E c \in Clients : Register(c) \/ CaptchaFails(c) \/ CaptchaPasses(c)

(* How many guesses can be under way when the check is made.                *)
AtOnce == IF route = "login" THEN 1 ELSE Cardinality(Clients)

(* In any window the relay tests a bounded number of wrong guesses: up to   *)
(* the threshold, those under way with the last of them, and as many again  *)
(* each time a lock runs out; a call of Redis that fails costs one more     *)
(* round after a restart (captcha.py:28-35).                                *)
GuessesBounded ==
    Total(guesses) <= (Threshold - 1) + (Window + outages) * AtOnce
=============================================================================
