---------------------------- MODULE CallSignaling ----------------------------
(***************************************************************************)
(* The relay's WebRTC signalling: class CallManager of                     *)
(* server/ws/signaling.py, with the chat-WebSocket shortcuts of            *)
(* server/ws/chat_manager.py and POST /end-call of server/routes/calls.py. *)
(*                                                                         *)
(* The server is one asyncio event loop.  A coroutine runs alone until an  *)
(* await suspends it; `loop` names the coroutine that is running, or None  *)
(* when the loop is free to resume any suspended coroutine or to hand a    *)
(* received frame to an idle one.  Each handler is split exactly at its    *)
(* awaits: every send to a registered socket, and every notification.      *)
(*                                                                         *)
(* Coroutines ("tasks"): <<u, k>> with k > 0 is handle_signaling for the   *)
(* k-th signalling socket of user u; <<u, 0>> is whatever else runs on     *)
(* u's behalf and reaches the manager: a chat-WebSocket frame or REST.     *)
(***************************************************************************)
EXTENDS Naturals, Sequences, FiniteSets, TLC

CONSTANTS
  Users,           \* user ids
  Calls,           \* call ids; CallPage.tsx mints a fresh one for each call
  MaxConns,        \* bound: signalling sockets a user opens over the run
  MaxRestarts,     \* bound: restarts of the server process
  MaxBusy,         \* bound: coroutines inside a handler at once
  MaxPending,      \* MAX_PENDING_PER_USER (50 in the code)
  MinimalMetadata, \* settings.CALLS_MINIMAL_METADATA: no CallLog rows
  RedisUp,         \* the pending buffer lives in Redis and survives a restart
  None             \* no call, no socket, no coroutine

Socks == Users \X (1..MaxConns)
Tasks == Users \X (0..MaxConns)
Owner(t) == t[1]

ASSUME UsersAssumption == Users # {} /\ None \notin Calls /\ None \notin Tasks
ASSUME BoundsAssumption == /\ MaxConns \in Nat /\ MaxRestarts \in Nat /\ MaxBusy \in Nat
                           /\ MaxPending \in Nat \ {0}
ASSUME SettingsAssumption == MinimalMetadata \in BOOLEAN /\ RedisUp \in BOOLEAN

VARIABLES
  calls,             \* active_calls: "ringing" or "active" while the id is a key,
                     \* "fresh" before it is registered and "gone" afterwards
  user_calls,        \* user -> call id the user is busy with
  call_websockets,   \* user -> registered signalling socket
  pending_messages,  \* user -> frames buffered while no socket is registered
  call_log,          \* ids that have a CallLog row
  task,              \* local state of each coroutine
  loop,              \* the running coroutine, or None
  got,               \* history: copies of call-accepted sent to the caller's socket
  told,              \* history: calls whose call-accepted reached a socket or the buffer
  restarts

vars == <<calls, user_calls, call_websockets, pending_messages, call_log,
          task, loop, got, told, restarts>>
history == <<got, told>>

Status == {"fresh", "ringing", "active", "gone"}
CallData == [status : Status, caller : Users, callee : Users]

\* A frame for a client.  call-accepted is told apart from the others: call-failed,
\* call-error, call-request, call-request-sent, call-rejected, call-ended, call-timeout,
\* and the forwarded offers, answers and candidates.
Accepted(c) == [kind |-> "call-accepted", call |-> c]
OtherFrame == [kind |-> "other", call |-> None]
Frame == {OtherFrame} \cup {Accepted(c) : c \in Calls}

\* Where a coroutine resumes after an await.
Labels == {"join_sent", "request_sent", "accept_sent", "reject_sent",
           "timeout_sent", "end_sent", "return"}
Pcs == Labels \cup {"new", "idle", "closed", "dropped", "flushing", "sending", "notifying"}

\* call: the call being handled; sock, msg: the await in progress; next: its
\* continuation; ok: its result;
\* closing: the handler runs inside handle_signaling's `except` clause;
\* queue: the entries _flush_pending_messages still has to send.
TaskState == [pc : Pcs, next : Labels, call : Calls \cup {None}, sock : Socks \cup {None},
              msg : Frame, ok : BOOLEAN, closing : BOOLEAN, queue : Seq(Frame)]
Blank(p) == [pc |-> p, next |-> "return", call |-> None, sock |-> None, msg |-> OtherFrame,
             ok |-> TRUE, closing |-> FALSE, queue |-> <<>>]

Init == /\ \E u \in Users :
             calls = [c \in Calls |-> [status |-> "fresh", caller |-> u, callee |-> u]]
        /\ user_calls = [u \in Users |-> None]
        /\ call_websockets = [u \in Users |-> None]
        /\ pending_messages = [u \in Users |-> <<>>]
        /\ call_log = {}
        /\ task = [t \in Tasks |-> Blank(IF t[2] = 0 THEN "idle" ELSE "new")]
        /\ loop = None
        /\ got = [c \in Calls |-> 0] /\ told = {} /\ restarts = 0

-----------------------------------------------------------------------------
(* Helpers of the manager. *)

InTable(c) == calls[c].status \in {"ringing", "active"}
Participants(c) == {calls[c].caller, calls[c].callee}
Other(u, c) == IF u = calls[c].caller THEN calls[c].callee ELSE calls[c].caller

\* Append to the buffer, dropping the oldest frame when it is full.
Push(buffer, m) ==
  Append(IF Len(buffer) >= MaxPending THEN Tail(buffer) ELSE buffer, m)

\* The coroutine leaves `await`: its state, the continuation it runs next.
Resume(t, ok) == [task[t] EXCEPT !.pc = task[t].next, !.ok = ok, !.sock = None,
                                 !.next = "return", !.msg = OtherFrame]

SendOnSocket(t, u, m, c, k) ==
  /\ call_websockets[u] # None
  /\ task' = [task EXCEPT ![t].pc = "sending", ![t].next = k, ![t].call = c,
                          ![t].msg = m, ![t].sock = call_websockets[u]]
  /\ loop' = None
  /\ UNCHANGED <<pending_messages, told>>

SendToBuffer(t, u, m, c, k) ==
  /\ call_websockets[u] = None
  /\ pending_messages' = [pending_messages EXCEPT ![u] = Push(@, m)]
  /\ told' = IF m.kind = "call-accepted" THEN told \cup {m.call} ELSE told
  /\ task' = [task EXCEPT ![t].pc = k, ![t].next = "return", ![t].call = c,
                          ![t].ok = TRUE]
  /\ loop' = t

\* await _send_to_user(u, m) about call c, then continue at k.  Buffering does not suspend.
Send(t, u, m, c, k) == /\ SendOnSocket(t, u, m, c, k) \/ SendToBuffer(t, u, m, c, k)
                       /\ UNCHANGED <<got, restarts>>

\* Mutant: the callee's entry survives the call.
CleanupCall_CallerOnly(c) ==
  IF InTable(c)
  THEN /\ calls' = [calls EXCEPT ![c].status = "gone"]
       /\ user_calls' = [user_calls EXCEPT ![calls[c].caller] = None]
  ELSE UNCHANGED <<calls, user_calls>>

\* _cleanup_call: whatever call the two participants are busy with now, they are freed.
CleanupCall(c) ==
  IF InTable(c)
  THEN /\ calls' = [calls EXCEPT ![c].status = "gone"]
       /\ user_calls' = [u \in Users |-> IF u \in Participants(c) THEN None ELSE user_calls[u]]
  ELSE UNCHANGED <<calls, user_calls>>

\* _save_call_to_db: insert or update the row of a call that is still in the table.
SaveCallToDb(c) ==
  call_log' = IF ~MinimalMetadata /\ InTable(c) THEN call_log \cup {c} ELSE call_log

\* The handler returns: back to the receive loop, or out through `finally`, which
\* deletes the user's registration whichever socket holds it.
Finish(t) == /\ loop' = None
             /\ IF task[t].closing
                THEN /\ task' = [task EXCEPT ![t] = Blank("closed")]
                     /\ call_websockets' = [call_websockets EXCEPT ![Owner(t)] = None]
                ELSE /\ task' = [task EXCEPT ![t] = Blank("idle")]
                     /\ UNCHANGED call_websockets

\* An idle coroutine takes a frame (or an error) off its socket.
AtRest == {"new", "idle", "closed"}
Receives(t) == /\ loop = None /\ task[t].pc = "idle"
               /\ Cardinality({s \in Tasks : task[s].pc \notin AtRest}) < MaxBusy
Running(t, label) == loop = t /\ task[t].pc = label

-----------------------------------------------------------------------------
(* handle_signaling: the life of one socket. *)

\* The socket is accepted and registered over any older one; the buffer is popped and
\* its oldest entries may have outlived PENDING_MESSAGE_TTL_SECONDS.
Connect(t) ==
  LET u == Owner(t) IN
  /\ loop = None /\ t[2] > 0 /\ task[t].pc = "new"
  /\ \A k \in 1..(t[2] - 1) : task[<<u, k>>].pc # "new"
  /\ call_websockets' = [call_websockets EXCEPT ![u] = t]
  /\ pending_messages' = [pending_messages EXCEPT ![u] = <<>>]
  /\ \E expired \in 0..Len(pending_messages[u]) :
       LET fresh == SubSeq(pending_messages[u], expired + 1, Len(pending_messages[u])) IN
       task' = [task EXCEPT ![t] = IF fresh = <<>> THEN Blank("idle")
                                   ELSE [Blank("flushing") EXCEPT !.queue = fresh, !.sock = t]]
  /\ UNCHANGED <<calls, user_calls, call_log, loop, history, restarts>>

Usable(s) == task[s].pc # "closed" /\ ~task[s].closing

\* _flush_pending_messages: the entry in flight was sent; the next ones go to the
\* socket registered by then, and are skipped when there is none.
FlushEntry(t) ==
  LET m == Head(task[t].queue)
      rest == Tail(task[t].queue)
      now == call_websockets[Owner(t)]
  IN
  /\ loop = None /\ task[t].pc = "flushing" /\ Usable(task[t].sock)
  /\ task' = [task EXCEPT ![t] = IF rest = <<>> \/ now = None THEN Blank("idle")
                                 ELSE [@ EXCEPT !.queue = rest, !.sock = now]]
  /\ got' = IF m.kind = "call-accepted" THEN [got EXCEPT ![m.call] = @ + 1] ELSE got
  /\ UNCHANGED <<calls, user_calls, call_websockets, pending_messages, call_log,
                 loop, told, restarts>>

\* A send raises: the loop breaks and the entries already popped are lost.
FlushBreak(t) ==
  /\ loop = None /\ task[t].pc = "flushing"
  /\ task' = [task EXCEPT ![t] = Blank("idle")]
  /\ UNCHANGED <<calls, user_calls, call_websockets, pending_messages, call_log,
                 loop, history, restarts>>

\* `break`: dead peer, refused token or a failed ping.  Only `finally` runs.
LeaveLoop(t) ==
  /\ Receives(t) /\ t \in Socks
  /\ task' = [task EXCEPT ![t] = Blank("closed")]
  /\ call_websockets' = [call_websockets EXCEPT ![Owner(t)] = None]
  /\ UNCHANGED <<calls, user_calls, pending_messages, call_log, loop, history, restarts>>

\* receive_text raises WebSocketDisconnect ...
Drop(t) ==
  /\ Receives(t) /\ t \in Socks
  /\ task' = [task EXCEPT ![t].pc = "dropped", ![t].closing = TRUE]
  /\ loop' = t
  /\ UNCHANGED <<calls, user_calls, call_websockets, pending_messages, call_log,
                 history, restarts>>

\* _handle_call_end up to its send; an unknown call or a stranger returns at once.
CallEnd(t, u, c) ==
  IF InTable(c) /\ u \in Participants(c)
  THEN /\ Send(t, Other(u, c), OtherFrame, c, "end_sent")
       /\ UNCHANGED call_websockets
  ELSE Finish(t) /\ UNCHANGED <<pending_messages, history, restarts>>

\* Mutant: a dropped socket is only unregistered.
HandleDisconnect_NoEnd(t) ==
  /\ Running(t, "dropped") /\ Finish(t)
  /\ UNCHANGED <<calls, user_calls, pending_messages, call_log, history, restarts>>

\* ... and _handle_call_disconnect ends the call the user is busy with now.
HandleDisconnect(t) ==
  /\ Running(t, "dropped")
  /\ IF user_calls[Owner(t)] # None
     THEN CallEnd(t, Owner(t), user_calls[Owner(t)])
     ELSE Finish(t) /\ UNCHANGED <<pending_messages, history, restarts>>
  /\ UNCHANGED <<calls, user_calls, call_log>>

\* The awaited send_json completes: the frame left on the socket it was started on.
SendDone(t) ==
  LET m == task[t].msg IN
  /\ loop = None /\ task[t].pc = "sending" /\ Usable(task[t].sock)
  /\ task' = [task EXCEPT ![t] = Resume(t, TRUE)] /\ loop' = t
  /\ IF m.kind = "call-accepted"
     THEN got' = [got EXCEPT ![m.call] = @ + 1] /\ told' = told \cup {m.call}
     ELSE UNCHANGED history
  /\ UNCHANGED <<calls, user_calls, call_websockets, pending_messages, call_log, restarts>>

\* Mutant: the frame is buffered and the registration kept.
SendFails_Buffers(t) ==
  /\ loop = None /\ task[t].pc = "sending"
  /\ task' = [task EXCEPT ![t] = Resume(t, FALSE)] /\ loop' = t
  /\ pending_messages' = [pending_messages EXCEPT ![Owner(task[t].sock)] = Push(@, task[t].msg)]
  /\ UNCHANGED <<calls, user_calls, call_websockets, call_log, history, restarts>>

\* It raises: the user's registration is deleted, whichever socket holds it by now.
SendFails(t) ==
  /\ loop = None /\ task[t].pc = "sending"
  /\ task' = [task EXCEPT ![t] = Resume(t, FALSE)] /\ loop' = t
  /\ call_websockets' = [call_websockets EXCEPT ![Owner(task[t].sock)] = None]
  /\ UNCHANGED <<calls, user_calls, pending_messages, call_log, history, restarts>>

\* The awaited notification (or chat event) returns; it never raises into the handler.
Notified(t) ==
  /\ loop = None /\ task[t].pc = "notifying"
  /\ task' = [task EXCEPT ![t] = Resume(t, TRUE)] /\ loop' = t
  /\ UNCHANGED <<calls, user_calls, call_websockets, pending_messages, call_log,
                 history, restarts>>

Return(t) ==
  /\ Running(t, "return") /\ Finish(t)
  /\ UNCHANGED <<calls, user_calls, pending_messages, call_log, history, restarts>>

-----------------------------------------------------------------------------
(* The frames of a signalling socket. *)

\* call-request refused: target offline or blocked (decided outside this module) or busy.
RefuseRequest(t, c) ==
  /\ Receives(t) /\ t \in Socks /\ calls[c].status = "fresh"
  /\ Send(t, Owner(t), OtherFrame, None, "return")
  /\ UNCHANGED <<calls, user_calls, call_websockets, call_log>>

\* call-request: only the target is checked for being busy, both are made busy.  The
\* call buttons are shown for the other user of a direct chat, never for oneself.
\* The request goes to the target's signalling socket or as a chat event.
CallRequest(t, target, c) ==
  LET u == Owner(t) IN
  /\ Receives(t) /\ t \in Socks /\ calls[c].status = "fresh"
  /\ target # u /\ user_calls[target] = None
  /\ calls' = [calls EXCEPT ![c] = [status |-> "ringing", caller |-> u, callee |-> target]]
  /\ user_calls' = [user_calls EXCEPT ![u] = c, ![target] = c]
  /\ \/ Send(t, target, OtherFrame, c, "request_sent") /\ call_websockets[target] # None
     \/ /\ call_websockets[target] = None
        /\ task' = [task EXCEPT ![t].pc = "notifying", ![t].next = "request_sent",
                                ![t].call = c]
        /\ UNCHANGED <<loop, pending_messages, history, restarts>>
  /\ UNCHANGED <<call_websockets, call_log>>

\* The tail of _handle_call_request.
RequestSent(t) ==
  LET c == task[t].call IN
  /\ Running(t, "request_sent")
  /\ IF task[t].ok THEN UNCHANGED <<calls, user_calls>> ELSE CleanupCall(c)
  /\ Send(t, Owner(t), OtherFrame, None, "return")
  /\ UNCHANGED <<call_websockets, call_log>>

\* Mutant: the status is not set before the await.
AcceptCall_StatusLater(t, c, k) ==
  /\ Send(t, calls[c].caller, Accepted(c), c, k)
  /\ UNCHANGED <<calls, user_calls, call_websockets, call_log>>
\* Mutant: anybody's accept counts, whatever state the call is in by now.
CallAccept_NoGuard(t, c) ==
  /\ Receives(t) /\ calls[c].status # "fresh"
  /\ calls' = [calls EXCEPT ![c].status = "active"]
  /\ Send(t, calls[c].caller, Accepted(c), c, "accept_sent")
  /\ UNCHANGED <<user_calls, call_websockets, call_log>>

\* The status is tested and set before the first await.
AcceptCall(t, c, k) ==
  /\ calls' = [calls EXCEPT ![c].status = "active"]
  /\ Send(t, calls[c].caller, Accepted(c), c, k)
  /\ UNCHANGED <<user_calls, call_websockets, call_log>>

\* call-join: the callee of a ringing call accepts it; anybody gets the request echoed.
CallJoin(t, c) ==
  LET u == Owner(t) IN
  /\ Receives(t) /\ t \in Socks
  /\ IF u = calls[c].callee /\ calls[c].status = "ringing"
     THEN AcceptCall(t, c, "join_sent")
     ELSE /\ Send(t, u, OtherFrame, None, "return")
          /\ UNCHANGED <<calls, user_calls, call_websockets, call_log>>

JoinSent(t) ==
  LET c == task[t].call IN
  /\ Running(t, "join_sent")
  /\ IF task[t].ok
     THEN /\ SaveCallToDb(c)
          /\ Send(t, Owner(t), OtherFrame, None, "return")
          /\ UNCHANGED call_websockets
     ELSE CallEnd(t, Owner(t), c) /\ UNCHANGED call_log
  /\ UNCHANGED <<calls, user_calls>>

\* call-accept, from the signalling socket or from the chat WebSocket.
CallAccept(t, c) ==
  LET u == Owner(t) IN
  /\ Receives(t)
  /\ IF u = calls[c].callee /\ calls[c].status = "ringing"
     THEN AcceptCall(t, c, "accept_sent")
     ELSE /\ Send(t, u, OtherFrame, None, "return")
          /\ UNCHANGED <<calls, user_calls, call_websockets, call_log>>

\* Mutant: the result of the send is ignored.
AcceptSent_IgnoreFailure(t) ==
  /\ Running(t, "accept_sent") /\ SaveCallToDb(task[t].call) /\ Finish(t)
  /\ UNCHANGED <<calls, user_calls, pending_messages, history, restarts>>

AcceptSent(t) ==
  LET c == task[t].call IN
  /\ Running(t, "accept_sent")
  /\ IF task[t].ok
     THEN SaveCallToDb(c) /\ Finish(t) /\ UNCHANGED <<pending_messages, history, restarts>>
     ELSE CallEnd(t, Owner(t), c) /\ UNCHANGED call_log
  /\ UNCHANGED <<calls, user_calls>>

\* call-reject, from either socket and either participant.
CallReject(t, c) ==
  /\ Receives(t) /\ InTable(c) /\ Owner(t) \in Participants(c)
  /\ Send(t, calls[c].caller, OtherFrame, c, "reject_sent")
  /\ UNCHANGED <<calls, user_calls, call_websockets, call_log>>

\* call-timeout: only the caller of a call that rings now.
CallTimeout(t, c) ==
  /\ Receives(t) /\ t \in Socks
  /\ Owner(t) = calls[c].caller /\ calls[c].status = "ringing"
  /\ Send(t, calls[c].callee, OtherFrame, c, "timeout_sent")
  /\ UNCHANGED <<calls, user_calls, call_websockets, call_log>>

\* reject and timeout go on to await a system notification, whatever the send returned.
Notify(t) ==
  /\ loop = t /\ task[t].pc \in {"reject_sent", "timeout_sent"}
  /\ task' = [task EXCEPT ![t].pc = "notifying", ![t].next = "end_sent"]
  /\ loop' = None
  /\ UNCHANGED <<calls, user_calls, call_websockets, pending_messages, call_log,
                 history, restarts>>

CallEndFrame(t, c) ==
  /\ Receives(t) /\ t \in Socks /\ InTable(c) /\ Owner(t) \in Participants(c)
  /\ CallEnd(t, Owner(t), c)
  /\ UNCHANGED <<calls, user_calls, call_log>>

\* Mutant: cleaned up first, so that the save finds no call.
EndSent_CleanupFirst(t) ==
  /\ Running(t, "end_sent") /\ CleanupCall(task[t].call) /\ Finish(t)
  /\ UNCHANGED <<pending_messages, call_log, history, restarts>>

\* The common tail of end, reject and timeout: save, then forget the call.
EndSent(t) ==
  LET c == task[t].call IN
  /\ Running(t, "end_sent")
  /\ SaveCallToDb(c)
  /\ CleanupCall(c)
  /\ Finish(t)
  /\ UNCHANGED <<pending_messages, history, restarts>>

\* offer, answer, ice-candidate: forwarded to the partner in the caller's current call.
Relay(t) ==
  LET c == user_calls[Owner(t)] IN
  /\ Receives(t) /\ t \in Socks /\ c # None /\ InTable(c)
  /\ Send(t, Other(Owner(t), c), OtherFrame, None, "return")
  /\ UNCHANGED <<calls, user_calls, call_websockets, call_log>>

\* POST /end-call with rows: found by its row, whatever the table says.
RestEndCall(t, c) ==
  LET u == Owner(t) IN
  /\ Receives(t) /\ t \notin Socks /\ ~MinimalMetadata
  /\ c \in call_log /\ u \in Participants(c)
  /\ Send(t, Other(u, c), OtherFrame, c, "end_sent")
  /\ UNCHANGED <<calls, user_calls, call_websockets, call_log>>

\* POST /end-call without rows: the frame is addressed to the call id, which is no
\* user, and the call is forgotten.  The client no longer uses this route.
RestEndCallMinimal(t, c) ==
  /\ Receives(t) /\ t \notin Socks /\ MinimalMetadata /\ InTable(c)
  /\ CleanupCall(c)
  /\ UNCHANGED <<call_websockets, pending_messages, call_log, task, loop, history, restarts>>

\* The process restarts: its tables are gone, the database stays and so does a
\* buffer kept in Redis.
Restart ==
  /\ loop = None /\ restarts < MaxRestarts
  /\ calls' = [c \in Calls |-> IF InTable(c) THEN [calls[c] EXCEPT !.status = "gone"] ELSE calls[c]]
  /\ user_calls' = [u \in Users |-> None]
  /\ call_websockets' = [u \in Users |-> None]
  /\ pending_messages' = IF RedisUp THEN pending_messages ELSE [u \in Users |-> <<>>]
  /\ task' = [t \in Tasks |-> IF t[2] = 0 THEN Blank("idle")
                              ELSE IF task[t].pc = "new" THEN task[t] ELSE Blank("closed")]
  /\ restarts' = restarts + 1
  /\ UNCHANGED <<call_log, loop, history>>

-----------------------------------------------------------------------------
SocketStep(t) == \/ Connect(t) \/ FlushEntry(t) \/ FlushBreak(t) \/ LeaveLoop(t) \/ Drop(t)

\* What a coroutine does once it has been started.
Continue(t) == \/ HandleDisconnect(t) \/ SendDone(t) \/ SendFails(t) \/ Notified(t) \/ Return(t)
               \/ RequestSent(t) \/ JoinSent(t) \/ AcceptSent(t) \/ Notify(t) \/ EndSent(t)

Handle(t, c) == \/ RefuseRequest(t, c)
                \/ \E target \in Users : CallRequest(t, target, c)
                \/ CallJoin(t, c) \/ CallAccept(t, c) \/ CallReject(t, c) \/ CallTimeout(t, c)
                \/ CallEndFrame(t, c) \/ RestEndCall(t, c) \/ RestEndCallMinimal(t, c)

Next == \/ \E t \in Tasks : SocketStep(t) \/ Continue(t) \/ Relay(t)
        \/ \E t \in Tasks, c \in Calls : Handle(t, c)
        \/ Restart

Spec == Init /\ [][Next]_vars

\* asyncio's ready queue is first-in first-out, so a coroutine that is ready again and
\* again runs; an awaited send completes or raises.
Fairness == \A t \in Tasks : SF_vars(Continue(t))
FairSpec == Spec /\ Fairness

-----------------------------------------------------------------------------
(* Properties. *)

TypeOK ==
  /\ calls \in [Calls -> CallData]
  /\ user_calls \in [Users -> Calls \cup {None}]
  /\ call_websockets \in [Users -> Socks \cup {None}]
  /\ pending_messages \in [Users -> Seq(Frame)]
  /\ call_log \in SUBSET Calls
  /\ task \in [Tasks -> TaskState]
  /\ loop \in Tasks \cup {None}
  /\ got \in [Calls -> Nat] /\ told \in SUBSET Calls /\ restarts \in Nat

\* A user is busy only with a call that is still in the table and that he takes part
\* in: no order of requests, hang-ups, timeouts and disconnects, at any of their
\* awaits, leaves a user busy with a call that nobody can end any more.
BusyWithLiveCall ==
  \A u \in Users : user_calls[u] # None =>
    InTable(user_calls[u]) /\ u \in Participants(user_calls[u])

\* No frame waits in the buffer of a user who has a registered socket: it would not be
\* sent before the next reconnect.  Registering and popping happen without an await
\* in between, and a sender tests the registration without an await before buffering.
BufferOnlyWhileOffline ==
  \A u \in Users : pending_messages[u] # <<>> => call_websockets[u] = None

\* The caller is sent one call-accepted at most, though the callee may accept on the
\* chat socket and again with call-join, on several sockets, and the frame may be
\* buffered and replayed: a second one would start a second offer.
AcceptDeliveredOnce == \A c \in Calls : got[c] <= 1

\* Once no coroutine works on an active call, its caller has been told that it was
\* accepted (on a socket or in the buffer); otherwise the call has been taken down.
ActiveCallerTold ==
  \A c \in Calls :
    calls[c].status = "active" /\ (\A t \in Tasks : task[t].call # c) => c \in told

\* The history row is written before a call is forgotten: _save_call_to_db reads the
\* table, so a cleanup that came first would silently lose the row.  Only a request
\* that could not be delivered and a restart forget a call without a row.
LoggedBeforeForgotten ==
  [][\A c \in Calls : InTable(c) /\ ~InTable(c)' =>
       \/ MinimalMetadata \/ c \in call_log' \/ restarts' # restarts
       \/ \E t \in Tasks : task[t].pc = "request_sent" /\ ~task[t].ok /\ task[t].call = c]_vars

\* When the socket of a user drops, the call he is busy with at that moment is ended,
\* whatever else the loop interleaves with the notification of his partner.
DisconnectEndsCall ==
  \A s \in Socks, c \in Calls :
    (task[s].pc = "dropped" /\ user_calls[Owner(s)] = c) ~> ~InTable(c)

Lifecycle == INSTANCE CallLifecycle
\* Every interleaving of the handlers is a call lifecycle: an id is answered at most
\* once, only while it rings, and is never used again after it was forgotten.
ImplementsLifecycle == Lifecycle!Spec

-----------------------------------------------------------------------------
\* For TLC: users take the same steps, and so do call ids.
Symmetry == Permutations(Users) \cup Permutations(Calls)
=============================================================================
