------------------------- MODULE CallSignalingProofs -------------------------
(***************************************************************************)
(* Theorems about CallSignaling for every set of users and calls and every *)
(* bound: type correctness, the busy index, the pending buffer, the        *)
(* refinement of CallLifecycle, the copies of a call-accepted, what the    *)
(* caller of an answered call is told, and the rows of forgotten calls.    *)
(***************************************************************************)
EXTENDS CallSignaling, SequenceTheorems, TLAPS

\* Local facts about coroutines: a continuation that needs a call has one, and a flush
\* always has an entry in flight.
NeedsCall == Labels \ {"return"}
LocalOK ==
  \A t \in Tasks : /\ task[t].pc \in NeedsCall \/ task[t].next \in NeedsCall => task[t].call \in Calls
                   /\ task[t].pc = "flushing" => task[t].queue # <<>>

\* The inductive invariant for type correctness and the pending buffer.
TypeInv == TypeOK /\ LocalOK /\ BufferOnlyWhileOffline

\* What a step may do to everything but the tables of calls.
LoopStep ==
  /\ task' \in [Tasks -> TaskState] /\ LocalOK' /\ loop' \in Tasks \cup {None}
  /\ call_websockets' \in [Users -> Socks \cup {None}]
  /\ pending_messages' \in [Users -> Seq(Frame)]
  /\ got' \in [Calls -> Nat] /\ told' \in SUBSET Calls /\ restarts' \in Nat
  /\ BufferOnlyWhileOffline'
TableStep == /\ calls' \in [Calls -> CallData]
             /\ user_calls' \in [Users -> Calls \cup {None}]
             /\ call_log' \in SUBSET Calls

LEMMA OwnerType == \A t \in Tasks : Owner(t) \in Users
  BY DEF Tasks, Owner

LEMMA SocksAreTasks == Socks \subseteq Tasks
  BY BoundsAssumption DEF Socks, Tasks

LEMMA FrameType == OtherFrame \in Frame /\ OtherFrame.kind # "call-accepted"
                   /\ (\A c \in Calls : Accepted(c) \in Frame)
                   /\ (\A m \in Frame : m.kind = "call-accepted" => m.call \in Calls)
<1>1. OtherFrame \in Frame /\ \A c \in Calls : Accepted(c) \in Frame
  BY DEF Frame
<1>2. OtherFrame.kind # "call-accepted"
  BY DEF OtherFrame
<1>3. ASSUME NEW m \in Frame, m.kind = "call-accepted" PROVE m.call \in Calls
  <2>1. PICK c \in Calls : m = Accepted(c)
    BY <1>2, <1>3 DEF Frame
  <2> QED BY <2>1 DEF Accepted
<1> QED BY <1>1, <1>2, <1>3

\* The initial local state of a coroutine is well typed.
LEMMA BlankType == \A p \in Pcs : Blank(p) \in TaskState /\ Blank(p).pc = p
                                  /\ Blank(p).next \notin NeedsCall
  BY FrameType DEF Blank, TaskState, Labels, NeedsCall

\* Pushing into a well-typed buffer keeps it well typed.
LEMMA PushType ==
  ASSUME NEW b \in Seq(Frame), NEW m \in Frame
  PROVE  Push(b, m) \in Seq(Frame)
<1>1. CASE Len(b) >= MaxPending
  <2>1. b # <<>>
    BY <1>1, BoundsAssumption
  <2>2. Tail(b) \in Seq(Frame)
    BY <2>1
  <2> QED BY <1>1, <2>2, AppendProperties DEF Push
<1>2. CASE ~(Len(b) >= MaxPending)
  BY <1>2, AppendProperties DEF Push
<1> QED BY <1>1, <1>2

\* One coroutine takes a new local state; the others keep theirs.
LEMMA TaskStep ==
  ASSUME TypeInv, NEW t \in Tasks, NEW new \in TaskState, task' = [task EXCEPT ![t] = new],
         new.pc \in NeedsCall \/ new.next \in NeedsCall => new.call \in Calls,
         new.pc = "flushing" => new.queue # <<>>
  PROVE  task' \in [Tasks -> TaskState] /\ LocalOK'
  BY DEF TypeInv, TypeOK, LocalOK

\* Frames are buffered only for users without a socket, and sockets only go away.
LEMMA BufferStep ==
  ASSUME TypeInv,
         \A w \in Users : pending_messages'[w] # pending_messages[w] => call_websockets'[w] = None,
         \A w \in Users : call_websockets'[w] # call_websockets[w] => call_websockets'[w] = None
  PROVE  BufferOnlyWhileOffline'
  BY DEF TypeInv, BufferOnlyWhileOffline

\* A send keeps the loop well typed and buffers only for a user who has no socket.
LEMMA SendStep ==
  ASSUME TypeInv, NEW t \in Tasks, NEW u \in Users, NEW m \in Frame,
         NEW c \in Calls \cup {None}, NEW k \in Labels, k \in NeedsCall => c \in Calls,
         Send(t, u, m, c, k), UNCHANGED call_websockets
  PROVE  LoopStep
<1> USE DEF TypeInv
<1>1. got' \in [Calls -> Nat] /\ restarts' \in Nat /\ call_websockets' \in [Users -> Socks \cup {None}]
  BY DEF Send, TypeOK
<1>2. CASE SendOnSocket(t, u, m, c, k)
  <2> DEFINE new == [task[t] EXCEPT !.pc = "sending", !.next = k, !.call = c,
                                    !.msg = m, !.sock = call_websockets[u]]
  <2>1. new \in TaskState /\ new.pc = "sending" /\ new.next = k /\ new.call = c
    BY <1>2 DEF SendOnSocket, TypeOK, TaskState, Pcs
  <2>2. task' = [task EXCEPT ![t] = new]
    BY <1>2 DEF SendOnSocket
  <2>3. task' \in [Tasks -> TaskState] /\ LocalOK'
    BY <2>1, <2>2, TaskStep DEF NeedsCall, Labels
  <2>4. BufferOnlyWhileOffline'
    BY <1>2 DEF SendOnSocket, BufferOnlyWhileOffline
  <2> QED BY <1>1, <1>2, <2>3, <2>4 DEF SendOnSocket, TypeOK, LoopStep
<1>3. CASE SendToBuffer(t, u, m, c, k)
  <2> DEFINE new == [task[t] EXCEPT !.pc = k, !.next = "return", !.call = c, !.ok = TRUE]
  <2>1. new \in TaskState /\ new.pc = k /\ new.next = "return" /\ new.call = c
    BY DEF TypeOK, TaskState, Pcs, Labels
  <2>2. task' = [task EXCEPT ![t] = new]
    BY <1>3 DEF SendToBuffer
  <2>3. task' \in [Tasks -> TaskState] /\ LocalOK'
    BY <2>1, <2>2, TaskStep DEF NeedsCall, Labels
  <2>4. Push(pending_messages[u], m) \in Seq(Frame)
    BY PushType DEF TypeOK
  <2>5. pending_messages' \in [Users -> Seq(Frame)]
    BY <1>3, <2>4 DEF SendToBuffer, TypeOK
  <2>6. \A w \in Users : pending_messages'[w] # pending_messages[w] => call_websockets[w] = None
    BY <1>3 DEF SendToBuffer, TypeOK
  <2>7. BufferOnlyWhileOffline'
    BY <2>6, BufferStep
  <2>8. told' \in SUBSET Calls /\ loop' \in Tasks \cup {None}
    BY <1>3, FrameType DEF SendToBuffer, TypeOK
  <2> QED BY <1>1, <2>3, <2>5, <2>7, <2>8 DEF LoopStep
<1> QED BY <1>2, <1>3 DEF Send

\* Returning from a handler, with or without `finally`.
LEMMA FinishStep ==
  ASSUME TypeInv, NEW t \in Tasks, Finish(t), UNCHANGED <<pending_messages, history, restarts>>
  PROVE  LoopStep
<1> USE DEF TypeInv
<1>1. Blank("closed") \in TaskState /\ Blank("idle") \in TaskState
      /\ Blank("closed").pc = "closed" /\ Blank("idle").pc = "idle"
      /\ Blank("closed").next \notin NeedsCall /\ Blank("idle").next \notin NeedsCall
  BY BlankType DEF Pcs
<1>2. task' \in [Tasks -> TaskState] /\ LocalOK'
  <2>1. task' = [task EXCEPT ![t] = Blank("closed")] \/ task' = [task EXCEPT ![t] = Blank("idle")]
    BY DEF Finish
  <2> QED BY <1>1, <2>1, TaskStep DEF NeedsCall, Labels
<1>3. /\ call_websockets' \in [Users -> Socks \cup {None}]
      /\ \A w \in Users : call_websockets'[w] # call_websockets[w] => call_websockets'[w] = None
  BY OwnerType DEF Finish, TypeOK
<1>4. BufferOnlyWhileOffline'
  BY <1>3, BufferStep
<1> QED BY <1>2, <1>3, <1>4 DEF Finish, TypeOK, LoopStep, history

LEMMA OtherType ==
  ASSUME TypeOK, NEW u \in Users, NEW c \in Calls PROVE Other(u, c) \in Users
  BY DEF Other, TypeOK, CallData

\* CallEnd sends, or returns at once.
LEMMA CallEndStep ==
  ASSUME TypeInv, NEW t \in Tasks, NEW u \in Users, NEW c \in Calls, CallEnd(t, u, c)
  PROVE  LoopStep
<1>1. CASE InTable(c) /\ u \in Participants(c)
  <2>1. Send(t, Other(u, c), OtherFrame, c, "end_sent") /\ UNCHANGED call_websockets
    BY <1>1 DEF CallEnd
  <2>2. "end_sent" \in Labels /\ Other(u, c) \in Users
    BY OtherType DEF Labels, TypeInv
  <2> QED BY <2>1, <2>2, SendStep, FrameType
<1>2. CASE ~(InTable(c) /\ u \in Participants(c))
  <2>1. Finish(t) /\ UNCHANGED <<pending_messages, history, restarts>>
    BY <1>2 DEF CallEnd
  <2> QED BY <2>1, FinishStep
<1> QED BY <1>1, <1>2

\* Cleaning up and saving keep the tables well typed.
LEMMA CleanupType ==
  ASSUME TypeOK, NEW c \in Calls, CleanupCall(c)
  PROVE  calls' \in [Calls -> CallData] /\ user_calls' \in [Users -> Calls \cup {None}]
<1>1. CASE InTable(c)
  <2>1. [calls[c] EXCEPT !.status = "gone"] \in CallData
    BY DEF TypeOK, CallData, Status
  <2>2. calls' = [calls EXCEPT ![c] = [calls[c] EXCEPT !.status = "gone"]]
    BY <1>1 DEF CleanupCall
  <2>3. user_calls' \in [Users -> Calls \cup {None}]
    BY <1>1 DEF CleanupCall, TypeOK
  <2> QED BY <2>1, <2>2, <2>3 DEF TypeOK
<1>2. CASE ~InTable(c)
  BY <1>2 DEF CleanupCall, TypeOK
<1> QED BY <1>1, <1>2

LEMMA SaveType ==
  ASSUME TypeOK, NEW c \in Calls, SaveCallToDb(c) PROVE call_log' \in SUBSET Calls
  BY DEF SaveCallToDb, TypeOK

LEMMA TablesUnchanged ==
  ASSUME TypeInv, UNCHANGED <<calls, user_calls, call_log>> PROVE TableStep
  BY DEF TypeInv, TypeOK, TableStep

\* A step of one coroutine that leaves buffers, sockets and tables alone.
LEMMA LocalStep ==
  ASSUME TypeInv, NEW t \in Tasks, NEW new \in TaskState, task' = [task EXCEPT ![t] = new],
         new.pc \in NeedsCall \/ new.next \in NeedsCall => new.call \in Calls,
         new.pc = "flushing" => new.queue # <<>>,
         loop' \in Tasks \cup {None}, got' \in [Calls -> Nat], told' \in SUBSET Calls,
         call_websockets' \in [Users -> Socks \cup {None}],
         \A w \in Users : call_websockets'[w] # call_websockets[w] => call_websockets'[w] = None,
         UNCHANGED <<pending_messages, restarts>>
  PROVE  LoopStep
<1>1. BufferOnlyWhileOffline'
  BY BufferStep
<1> QED BY <1>1, TaskStep DEF LoopStep, TypeInv, TypeOK

LEMMA ConnectInv ==
  ASSUME TypeInv, NEW t \in Tasks, Connect(t) PROVE LoopStep /\ TableStep
<1> USE DEF TypeInv
<1>1. t \in Socks
  BY DEF Connect, Tasks, Socks
<1>2. PICK n \in 0..Len(pending_messages[Owner(t)]) :
        LET fresh == SubSeq(pending_messages[Owner(t)], n + 1, Len(pending_messages[Owner(t)])) IN
        task' = [task EXCEPT ![t] = IF fresh = <<>> THEN Blank("idle")
                                    ELSE [Blank("flushing") EXCEPT !.queue = fresh, !.sock = t]]
  BY DEF Connect
<1> DEFINE buf == pending_messages[Owner(t)]
           fresh == SubSeq(buf, n + 1, Len(buf))
           new == IF fresh = <<>> THEN Blank("idle")
                  ELSE [Blank("flushing") EXCEPT !.queue = fresh, !.sock = t]
<1>3. buf \in Seq(Frame)
  BY OwnerType DEF TypeOK
<1>4. fresh \in Seq(Frame)
  <2>1. \A i \in (n + 1)..Len(buf) : buf[i] \in Frame
    BY <1>3
  <2> QED BY <1>3, <2>1, SubSeqProperties
<1>5. /\ new \in TaskState
      /\ new.pc \notin NeedsCall /\ new.next \notin NeedsCall
      /\ new.pc = "flushing" => new.queue # <<>>
  <2>1. CASE fresh = <<>>
    BY <2>1, BlankType DEF Pcs, NeedsCall, Labels
  <2>2. CASE fresh # <<>>
    <3>1. new = [Blank("flushing") EXCEPT !.queue = fresh, !.sock = t]
      BY <2>2
    <3>2. Blank("flushing") \in TaskState /\ Blank("flushing").pc = "flushing"
          /\ Blank("flushing").next \notin NeedsCall
      BY BlankType DEF Pcs
    <3> HIDE DEF new
    <3>3. new \in TaskState /\ new.pc = "flushing" /\ new.next \notin NeedsCall /\ new.queue = fresh
      BY <1>1, <1>4, <3>1, <3>2 DEF TaskState
    <3> QED BY <2>2, <3>3 DEF NeedsCall, Labels
  <2> QED BY <2>1, <2>2
<1>6. task' \in [Tasks -> TaskState] /\ LocalOK'
  <2>1. task' = [task EXCEPT ![t] = new]
    BY <1>2
  <2> HIDE DEF new
  <2> QED BY <1>5, <2>1, TaskStep
<1>7. /\ call_websockets' \in [Users -> Socks \cup {None}]
      /\ pending_messages' \in [Users -> Seq(Frame)]
  BY <1>1, OwnerType DEF Connect, TypeOK
<1>8. BufferOnlyWhileOffline'
  BY OwnerType DEF Connect, BufferOnlyWhileOffline, TypeOK
<1> QED BY <1>6, <1>7, <1>8, TablesUnchanged DEF Connect, LoopStep, TypeOK, history

LEMMA FlushInv ==
  ASSUME TypeInv, NEW t \in Tasks, FlushEntry(t) \/ FlushBreak(t) PROVE LoopStep /\ TableStep
<1> USE DEF TypeInv
<1>1. TableStep
  BY TablesUnchanged DEF FlushEntry, FlushBreak
<1>2. Blank("idle") \in TaskState /\ Blank("idle").pc = "idle" /\ Blank("idle").next \notin NeedsCall
  BY BlankType DEF Pcs
<1>3. CASE FlushBreak(t)
  <2>1. task' = [task EXCEPT ![t] = Blank("idle")] /\ loop' \in Tasks \cup {None}
        /\ UNCHANGED <<pending_messages, restarts, call_websockets, got, told>>
    BY <1>3 DEF FlushBreak, TypeOK, history
  <2> QED BY <1>1, <1>2, <2>1, LocalStep DEF NeedsCall, Labels, TypeOK
<1>4. CASE FlushEntry(t)
  <2> DEFINE rest == Tail(task[t].queue)
             now == call_websockets[Owner(t)]
             new == IF rest = <<>> \/ now = None THEN Blank("idle")
                    ELSE [task[t] EXCEPT !.queue = rest, !.sock = now]
  <2>1. task[t].pc = "flushing" /\ task[t].queue # <<>> /\ task[t].queue \in Seq(Frame)
    BY <1>4 DEF FlushEntry, LocalOK, TypeOK, TaskState
  <2>2. Head(task[t].queue) \in Frame /\ rest \in Seq(Frame)
    BY <2>1
  <2>3. task' = [task EXCEPT ![t] = new]
    BY <1>4 DEF FlushEntry
  <2>4. /\ new \in TaskState
        /\ new.pc = "flushing" => new.queue # <<>>
        /\ new.pc \in NeedsCall \/ new.next \in NeedsCall => new.call \in Calls
    <3>1. CASE rest = <<>> \/ now = None
      BY <1>2, <3>1 DEF NeedsCall, Labels
    <3>2. CASE ~(rest = <<>> \/ now = None)
      <4>1. new = [task[t] EXCEPT !.queue = rest, !.sock = now]
        BY <3>2
      <4>2. now \in Socks
        BY <3>2, OwnerType DEF TypeOK
      <4> HIDE DEF new
      <4>3. new \in TaskState /\ new.pc = task[t].pc /\ new.next = task[t].next
            /\ new.call = task[t].call /\ new.queue = rest
        BY <2>2, <4>1, <4>2 DEF TypeOK, TaskState
      <4> QED BY <3>2, <4>3 DEF LocalOK
    <3> QED BY <3>1, <3>2
  <2>5. got' \in [Calls -> Nat]
    <3> DEFINE m == Head(task[t].queue)
    <3>1. got' = IF m.kind = "call-accepted" THEN [got EXCEPT ![m.call] = @ + 1] ELSE got
      BY <1>4 DEF FlushEntry
    <3>2. m.kind = "call-accepted" => m.call \in Calls
      BY <2>2, FrameType
    <3> HIDE DEF m
    <3>3. CASE m.kind = "call-accepted"
      <4>1. m.call \in Calls /\ got' = [got EXCEPT ![m.call] = @ + 1]
        BY <3>1, <3>2, <3>3
      <4> QED BY <4>1 DEF TypeOK
    <3>4. CASE m.kind # "call-accepted"
      BY <3>1, <3>4 DEF TypeOK
    <3> QED BY <3>3, <3>4
  <2>6. loop' \in Tasks \cup {None} /\ told' \in SUBSET Calls /\ call_websockets' = call_websockets
        /\ UNCHANGED <<pending_messages, restarts>> /\ call_websockets' \in [Users -> Socks \cup {None}]
    BY <1>4 DEF FlushEntry, TypeOK
  <2> HIDE DEF new
  <2>7. \A w \in Users : call_websockets'[w] # call_websockets[w] => call_websockets'[w] = None
    BY <2>6
  <2>8. LoopStep
    BY <2>3, <2>4, <2>5, <2>6, <2>7, LocalStep
  <2> QED BY <1>1, <2>8
<1> QED BY <1>3, <1>4

LEMMA SocketInv ==
  ASSUME TypeInv, NEW t \in Tasks, LeaveLoop(t) \/ Drop(t) \/ HandleDisconnect(t) \/ Return(t)
  PROVE  LoopStep /\ TableStep
<1> USE DEF TypeInv
<1>1. TableStep
  BY TablesUnchanged DEF LeaveLoop, Drop, HandleDisconnect, Return
<1>2. CASE LeaveLoop(t)
  <2>1. Blank("closed") \in TaskState /\ Blank("closed").pc = "closed"
        /\ Blank("closed").next \notin NeedsCall
    BY BlankType DEF Pcs
  <2>2. /\ task' = [task EXCEPT ![t] = Blank("closed")]
        /\ call_websockets' = [call_websockets EXCEPT ![Owner(t)] = None]
        /\ UNCHANGED <<pending_messages, restarts, loop, got, told>>
    BY <1>2 DEF LeaveLoop, history
  <2>3. /\ call_websockets' \in [Users -> Socks \cup {None}]
        /\ \A w \in Users : call_websockets'[w] # call_websockets[w] => call_websockets'[w] = None
    BY <2>2, OwnerType DEF TypeOK
  <2> QED BY <1>1, <2>1, <2>2, <2>3, LocalStep DEF NeedsCall, Labels, TypeOK
<1>3. CASE Drop(t)
  <2> DEFINE new == [task[t] EXCEPT !.pc = "dropped", !.closing = TRUE]
  <2>1. /\ task' = [task EXCEPT ![t] = new] /\ loop' = t
        /\ UNCHANGED <<call_websockets, pending_messages, restarts, got, told>>
    BY <1>3 DEF Drop, history
  <2>2. new \in TaskState /\ new.pc = "dropped" /\ new.next = task[t].next /\ new.call = task[t].call
    BY DEF TypeOK, TaskState, Pcs
  <2>3. new.pc \in NeedsCall \/ new.next \in NeedsCall => new.call \in Calls
    BY <2>2 DEF LocalOK, NeedsCall, Labels
  <2> HIDE DEF new
  <2> QED BY <1>1, <2>1, <2>2, <2>3, LocalStep DEF TypeOK
<1>4. CASE HandleDisconnect(t)
  <2>1. CASE user_calls[Owner(t)] # None
    <3>1. Owner(t) \in Users /\ user_calls[Owner(t)] \in Calls
      BY <2>1, OwnerType DEF TypeOK
    <3> QED BY <1>1, <1>4, <2>1, <3>1, CallEndStep DEF HandleDisconnect
  <2>2. CASE user_calls[Owner(t)] = None
    BY <1>1, <1>4, <2>2, FinishStep DEF HandleDisconnect
  <2> QED BY <2>1, <2>2
<1>5. CASE Return(t)
  BY <1>1, <1>5, FinishStep DEF Return
<1> QED BY <1>2, <1>3, <1>4, <1>5

\* The three ways an await ends.
LEMMA ResumeInv ==
  ASSUME TypeInv, NEW t \in Tasks, SendDone(t) \/ SendFails(t) \/ Notified(t)
  PROVE  LoopStep /\ TableStep
<1> USE DEF TypeInv
<1>1. TableStep
  BY TablesUnchanged DEF SendDone, SendFails, Notified
<1>2. ASSUME NEW ok \in BOOLEAN
      PROVE  /\ Resume(t, ok) \in TaskState
             /\ Resume(t, ok).pc \in NeedsCall \/ Resume(t, ok).next \in NeedsCall
                  => Resume(t, ok).call \in Calls
             /\ Resume(t, ok).pc # "flushing"
  <2>1. Resume(t, ok) \in TaskState /\ Resume(t, ok).pc = task[t].next
        /\ Resume(t, ok).next = "return" /\ Resume(t, ok).call = task[t].call
    BY FrameType DEF Resume, TypeOK, TaskState, Pcs, Labels
  <2>2. task[t].next \in Labels
    BY DEF TypeOK, TaskState
  <2> QED BY <2>1, <2>2 DEF LocalOK, NeedsCall, Labels
<1>3. CASE SendDone(t)
  <2>1. task' = [task EXCEPT ![t] = Resume(t, TRUE)] /\ loop' = t
        /\ UNCHANGED <<call_websockets, pending_messages, restarts>>
    BY <1>3 DEF SendDone
  <2>2. got' \in [Calls -> Nat] /\ told' \in SUBSET Calls
    <3> DEFINE m == task[t].msg
    <3>1. m.kind = "call-accepted" => m.call \in Calls
      BY FrameType DEF TypeOK, TaskState
    <3>2. IF m.kind = "call-accepted"
          THEN got' = [got EXCEPT ![m.call] = @ + 1] /\ told' = told \cup {m.call}
          ELSE UNCHANGED history
      BY <1>3 DEF SendDone
    <3> HIDE DEF m
    <3> QED BY <3>1, <3>2 DEF TypeOK, history
  <2> QED BY <1>1, <1>2, <2>1, <2>2, LocalStep DEF TypeOK
<1>4. CASE SendFails(t)
  <2>1. task' = [task EXCEPT ![t] = Resume(t, FALSE)] /\ loop' = t
        /\ call_websockets' = [call_websockets EXCEPT ![Owner(task[t].sock)] = None]
        /\ UNCHANGED <<pending_messages, restarts, got, told>>
    BY <1>4 DEF SendFails, history
  <2>2. /\ call_websockets' \in [Users -> Socks \cup {None}]
        /\ \A w \in Users : call_websockets'[w] # call_websockets[w] => call_websockets'[w] = None
    BY <2>1 DEF TypeOK
  <2> QED BY <1>1, <1>2, <2>1, <2>2, LocalStep DEF TypeOK
<1>5. CASE Notified(t)
  <2>1. task' = [task EXCEPT ![t] = Resume(t, TRUE)] /\ loop' = t
        /\ UNCHANGED <<call_websockets, pending_messages, restarts, got, told>>
    BY <1>5 DEF Notified, history
  <2> QED BY <1>1, <1>2, <2>1, LocalStep DEF TypeOK
<1> QED BY <1>3, <1>4, <1>5

\* The continuations of the handlers.
LEMMA ContinueInv ==
  ASSUME TypeInv, NEW t \in Tasks,
         RequestSent(t) \/ JoinSent(t) \/ AcceptSent(t) \/ Notify(t) \/ EndSent(t)
  PROVE  LoopStep /\ TableStep
<1> USE DEF TypeInv
<1> DEFINE c == task[t].call
<1>1. task[t].pc \in NeedsCall => c \in Calls
  BY DEF LocalOK
<1>2. Owner(t) \in Users /\ "return" \in Labels /\ "return" \notin NeedsCall
  BY OwnerType DEF Labels, NeedsCall
<1>3. CASE RequestSent(t)
  <2>1. c \in Calls
    BY <1>1, <1>3 DEF RequestSent, Running, NeedsCall, Labels
  <2>2. LoopStep
    BY <1>2, <1>3, FrameType, SendStep DEF RequestSent
  <2>3. TableStep
    BY <1>3, <2>1, CleanupType DEF RequestSent, TableStep, TypeOK
  <2> QED BY <2>2, <2>3
<1>4. CASE JoinSent(t)
  <2>1. c \in Calls
    BY <1>1, <1>4 DEF JoinSent, Running, NeedsCall, Labels
  <2>2. CASE task[t].ok
    <3>1. LoopStep
      BY <1>2, <1>4, <2>2, FrameType, SendStep DEF JoinSent
    <3>2. TableStep
      BY <1>4, <2>1, <2>2, SaveType DEF JoinSent, TableStep, TypeOK
    <3> QED BY <3>1, <3>2
  <2>3. CASE ~task[t].ok
    <3>1. LoopStep
      BY <1>2, <1>4, <2>1, <2>3, CallEndStep DEF JoinSent
    <3> QED BY <1>4, <2>3, <3>1, TablesUnchanged DEF JoinSent
  <2> QED BY <2>2, <2>3
<1>5. CASE AcceptSent(t)
  <2>1. c \in Calls
    BY <1>1, <1>5 DEF AcceptSent, Running, NeedsCall, Labels
  <2>2. CASE task[t].ok
    <3>1. LoopStep
      BY <1>5, <2>2, FinishStep DEF AcceptSent
    <3>2. TableStep
      BY <1>5, <2>1, <2>2, SaveType DEF AcceptSent, TableStep, TypeOK
    <3> QED BY <3>1, <3>2
  <2>3. CASE ~task[t].ok
    <3>1. LoopStep
      BY <1>2, <1>5, <2>1, <2>3, CallEndStep DEF AcceptSent
    <3> QED BY <1>5, <2>3, <3>1, TablesUnchanged DEF AcceptSent
  <2> QED BY <2>2, <2>3
<1>6. CASE Notify(t)
  <2> DEFINE new == [task[t] EXCEPT !.pc = "notifying", !.next = "end_sent"]
  <2>1. c \in Calls
    BY <1>1, <1>6 DEF Notify, NeedsCall, Labels
  <2>2. new \in TaskState /\ new.pc = "notifying" /\ new.call = c
    BY DEF TypeOK, TaskState, Pcs, Labels
  <2>3. task' = [task EXCEPT ![t] = new] /\ loop' = None
        /\ UNCHANGED <<call_websockets, pending_messages, restarts, got, told>>
    BY <1>6 DEF Notify, history
  <2> HIDE DEF new, c
  <2>4. LoopStep
    BY <2>1, <2>2, <2>3, LocalStep DEF TypeOK
  <2> QED BY <1>6, <2>4, TablesUnchanged DEF Notify
<1>7. CASE EndSent(t)
  <2>1. c \in Calls
    BY <1>1, <1>7 DEF EndSent, Running, NeedsCall, Labels
  <2>2. LoopStep
    BY <1>7, FinishStep DEF EndSent
  <2>3. TableStep
    BY <1>7, <2>1, CleanupType, SaveType DEF EndSent, TableStep
  <2> QED BY <2>2, <2>3
<1> QED BY <1>3, <1>4, <1>5, <1>6, <1>7

\* The frames of a signalling socket, of the chat socket and of REST.
LEMMA RequestInv ==
  ASSUME TypeInv, NEW t \in Tasks, NEW c \in Calls,
         RefuseRequest(t, c) \/ \E target \in Users : CallRequest(t, target, c)
  PROVE  LoopStep /\ TableStep
<1> USE DEF TypeInv
<1>1. Owner(t) \in Users /\ "return" \in Labels /\ "return" \notin NeedsCall
      /\ "request_sent" \in Labels
  BY OwnerType DEF Labels, NeedsCall
<1>2. CASE RefuseRequest(t, c)
  BY <1>1, <1>2, FrameType, SendStep, TablesUnchanged DEF RefuseRequest
<1>3. ASSUME NEW target \in Users, CallRequest(t, target, c) PROVE LoopStep /\ TableStep
  <2>1. TableStep
    <3>1. [status |-> "ringing", caller |-> Owner(t), callee |-> target] \in CallData
      BY <1>1 DEF CallData, Status
    <3>2. calls' \in [Calls -> CallData]
      BY <1>3, <3>1 DEF CallRequest, TypeOK
    <3>3. user_calls' \in [Users -> Calls \cup {None}]
      <4>1. user_calls' = [user_calls EXCEPT ![Owner(t)] = c, ![target] = c]
        BY <1>3 DEF CallRequest
      <4> QED BY <4>1 DEF TypeOK
    <3> QED BY <1>3, <3>2, <3>3 DEF CallRequest, TableStep, TypeOK
  <2>2. CASE Send(t, target, OtherFrame, c, "request_sent")
    BY <1>1, <1>3, <2>1, <2>2, FrameType, SendStep DEF CallRequest
  <2>3. CASE /\ task' = [task EXCEPT ![t].pc = "notifying", ![t].next = "request_sent", ![t].call = c]
             /\ UNCHANGED <<loop, pending_messages, history, restarts>>
    <3> DEFINE new == [task[t] EXCEPT !.pc = "notifying", !.next = "request_sent", !.call = c]
    <3>1. new \in TaskState /\ new.pc = "notifying" /\ new.call = c
      BY DEF TypeOK, TaskState, Pcs, Labels
    <3>2. task' = [task EXCEPT ![t] = new]
      BY <2>3
    <3> HIDE DEF new
    <3>3. UNCHANGED call_websockets
      BY <1>3 DEF CallRequest
    <3> QED BY <2>1, <2>3, <3>1, <3>2, <3>3, LocalStep DEF TypeOK, history
  <2> QED BY <1>3, <2>1, <2>2, <2>3 DEF CallRequest
<1> QED BY <1>2, <1>3

LEMMA AcceptStep ==
  ASSUME TypeInv, NEW t \in Tasks, NEW c \in Calls, NEW k \in Labels, AcceptCall(t, c, k)
  PROVE  LoopStep /\ TableStep
<1> USE DEF TypeInv
<1>1. calls[c].caller \in Users /\ [calls[c] EXCEPT !.status = "active"] \in CallData
  BY DEF TypeOK, CallData, Status
<1>2. LoopStep
  BY <1>1, FrameType, SendStep DEF AcceptCall
<1>3. calls' = [calls EXCEPT ![c] = [calls[c] EXCEPT !.status = "active"]]
  BY DEF AcceptCall
<1>4. TableStep
  BY <1>1, <1>3 DEF AcceptCall, TableStep, TypeOK
<1> QED BY <1>2, <1>4

LEMMA JoinInv ==
  ASSUME TypeInv, NEW t \in Tasks, NEW c \in Calls, CallJoin(t, c) \/ CallAccept(t, c)
  PROVE  LoopStep /\ TableStep
<1>1. /\ "join_sent" \in Labels /\ "accept_sent" \in Labels
      /\ Owner(t) \in Users /\ "return" \in Labels /\ "return" \notin NeedsCall
  BY OwnerType DEF Labels, NeedsCall
<1>2. CASE Owner(t) = calls[c].callee /\ calls[c].status = "ringing"
  <2>1. AcceptCall(t, c, "join_sent") \/ AcceptCall(t, c, "accept_sent")
    BY <1>2 DEF CallJoin, CallAccept
  <2> QED BY <1>1, <2>1, AcceptStep
<1>3. CASE ~(Owner(t) = calls[c].callee /\ calls[c].status = "ringing")
  <2>1. /\ Send(t, Owner(t), OtherFrame, None, "return")
        /\ UNCHANGED <<calls, user_calls, call_websockets, call_log>>
    BY <1>3 DEF CallJoin, CallAccept
  <2> QED BY <1>1, <2>1, FrameType, SendStep, TablesUnchanged
<1> QED BY <1>2, <1>3

LEMMA EndingInv ==
  ASSUME TypeInv, NEW t \in Tasks, NEW c \in Calls,
         CallReject(t, c) \/ CallTimeout(t, c) \/ CallEndFrame(t, c) \/ RestEndCall(t, c)
  PROVE  LoopStep /\ TableStep
<1>1. /\ "reject_sent" \in Labels /\ "timeout_sent" \in Labels /\ "end_sent" \in Labels
      /\ Owner(t) \in Users /\ calls[c].caller \in Users /\ calls[c].callee \in Users
      /\ Other(Owner(t), c) \in Users
  BY OwnerType, OtherType DEF Labels, TypeInv, TypeOK, CallData
<1>2. TableStep
  BY TablesUnchanged DEF CallReject, CallTimeout, CallEndFrame, RestEndCall
<1>3. CASE CallReject(t, c)
  BY <1>1, <1>2, <1>3, FrameType, SendStep DEF CallReject
<1>4. CASE CallTimeout(t, c)
  BY <1>1, <1>2, <1>4, FrameType, SendStep DEF CallTimeout
<1>5. CASE CallEndFrame(t, c)
  BY <1>1, <1>2, <1>5, CallEndStep DEF CallEndFrame
<1>6. CASE RestEndCall(t, c)
  BY <1>1, <1>2, <1>6, FrameType, SendStep DEF RestEndCall
<1> QED BY <1>3, <1>4, <1>5, <1>6

LEMMA RelayInv ==
  ASSUME TypeInv, NEW t \in Tasks, Relay(t) PROVE LoopStep /\ TableStep
<1>1. Owner(t) \in Users /\ "return" \in Labels /\ "return" \notin NeedsCall
  BY OwnerType DEF Labels, NeedsCall
<1>2. user_calls[Owner(t)] \in Calls
  BY <1>1 DEF Relay, TypeInv, TypeOK
<1>3. Other(Owner(t), user_calls[Owner(t)]) \in Users
  BY <1>1, <1>2, OtherType DEF TypeInv
<1> QED BY <1>1, <1>3, FrameType, SendStep, TablesUnchanged DEF Relay

LEMMA MinimalInv ==
  ASSUME TypeInv, NEW t \in Tasks, NEW c \in Calls, RestEndCallMinimal(t, c) PROVE TypeInv'
  BY CleanupType DEF RestEndCallMinimal, TypeInv, TypeOK, LocalOK, BufferOnlyWhileOffline, history

LEMMA RestartInv ==
  ASSUME TypeInv, Restart PROVE TypeInv'
<1> USE DEF TypeInv
<1>1. calls' \in [Calls -> CallData]
  <2>1. \A c \in Calls : [calls[c] EXCEPT !.status = "gone"] \in CallData
    BY DEF TypeOK, CallData, Status
  <2> QED BY <2>1 DEF Restart, TypeOK
<1>2. Blank("closed") \in TaskState /\ Blank("idle") \in TaskState
      /\ Blank("closed").pc = "closed" /\ Blank("idle").pc = "idle"
      /\ Blank("closed").next \notin NeedsCall /\ Blank("idle").next \notin NeedsCall
  BY BlankType DEF Pcs
<1>3. task' \in [Tasks -> TaskState]
  BY <1>2 DEF Restart, TypeOK
<1>4. LocalOK'
  BY <1>2 DEF Restart, LocalOK, NeedsCall, Labels
<1>5. pending_messages' \in [Users -> Seq(Frame)]
  BY DEF Restart, TypeOK
<1> QED BY <1>1, <1>3, <1>4, <1>5 DEF Restart, TypeOK, BufferOnlyWhileOffline, history

LEMMA StepsKeepTypeInv ==
  ASSUME TypeInv, LoopStep, TableStep PROVE TypeInv'
  BY DEF LoopStep, TableStep, TypeInv, TypeOK

LEMMA TypeInvInit == Init => TypeInv
<1> SUFFICES ASSUME Init PROVE TypeInv
  OBVIOUS
<1>1. \A p \in {"idle", "new"} : Blank(p) \in TaskState /\ Blank(p).pc = p /\ Blank(p).next \notin NeedsCall
  BY BlankType DEF Pcs
<1>2. task \in [Tasks -> TaskState] /\ LocalOK
  BY <1>1 DEF Init, LocalOK, NeedsCall, Labels
<1>3. calls \in [Calls -> CallData]
  BY DEF Init, CallData, Status
<1>4. pending_messages \in [Users -> Seq(Frame)]
  BY DEF Init
<1> QED BY <1>2, <1>3, <1>4 DEF Init, TypeInv, TypeOK, BufferOnlyWhileOffline

LEMMA TypeInvNext == TypeInv /\ [Next]_vars => TypeInv'
<1> SUFFICES ASSUME TypeInv, [Next]_vars PROVE TypeInv'
  OBVIOUS
<1>1. CASE UNCHANGED vars
  BY <1>1 DEF vars, TypeInv, TypeOK, LocalOK, BufferOnlyWhileOffline
<1>2. ASSUME NEW t \in Tasks, SocketStep(t) \/ Continue(t) \/ Relay(t) PROVE TypeInv'
  BY <1>2, ConnectInv, FlushInv, SocketInv, ResumeInv, ContinueInv, RelayInv, StepsKeepTypeInv
     DEF SocketStep, Continue
<1>3. ASSUME NEW t \in Tasks, NEW c \in Calls, Handle(t, c) PROVE TypeInv'
  BY <1>3, RequestInv, JoinInv, EndingInv, MinimalInv, StepsKeepTypeInv DEF Handle
<1> QED BY <1>1, <1>2, <1>3, RestartInv DEF Next

\* Types are kept by every step: server/ws/signaling.py never stores a call, a socket or
\* a frame of the wrong kind.
THEOREM TypeCorrect == Spec => []TypeOK
<1>1. TypeInv => TypeOK
  BY DEF TypeInv
<1> QED BY <1>1, TypeInvInit, TypeInvNext, PTL DEF Spec

\* No frame waits in the buffer of a connected user, for any number of users, sockets,
\* suspended handlers and restarts.
THEOREM BufferedOnlyOffline == Spec => []BufferOnlyWhileOffline
<1>1. TypeInv => BufferOnlyWhileOffline
  BY DEF TypeInv
<1> QED BY <1>1, TypeInvInit, TypeInvNext, PTL DEF Spec

-----------------------------------------------------------------------------
(* The busy index and the lifecycle of a call depend only on how each step *)
(* changes the two tables; there are five ways.                            *)

Rings(c, u, v) == /\ calls[c].status = "fresh" /\ u # v
                  /\ calls' = [calls EXCEPT ![c] = [status |-> "ringing", caller |-> u, callee |-> v]]
                  /\ user_calls' = [user_calls EXCEPT ![u] = c, ![v] = c]
Answers(c) == /\ calls[c].status = "ringing"
              /\ calls' = [calls EXCEPT ![c].status = "active"] /\ user_calls' = user_calls
TableChange == \/ UNCHANGED <<calls, user_calls>>
               \/ \E c \in Calls, u, v \in Users : Rings(c, u, v)
               \/ \E c \in Calls : Answers(c)
               \/ \E c \in Calls : CleanupCall(c)
               \/ Restart

LEMMA StepsChangeTables == TypeInv /\ [Next]_vars => TableChange
<1> SUFFICES ASSUME TypeInv, [Next]_vars PROVE TableChange
  OBVIOUS
<1>1. CASE UNCHANGED vars
  BY <1>1 DEF vars, TableChange
<1>2. ASSUME NEW t \in Tasks, SocketStep(t) \/ Relay(t) PROVE TableChange
  BY <1>2 DEF SocketStep, Connect, FlushEntry, FlushBreak, LeaveLoop, Drop, Relay, TableChange
<1>3. ASSUME NEW t \in Tasks, Continue(t) PROVE TableChange
  <2>1. CASE RequestSent(t) \/ EndSent(t)
    <3>1. task[t].call \in Calls
      BY <2>1 DEF RequestSent, EndSent, Running, TypeInv, LocalOK, NeedsCall, Labels
    <3> QED BY <2>1, <3>1 DEF RequestSent, EndSent, TableChange
  <2>2. CASE ~(RequestSent(t) \/ EndSent(t))
    BY <1>3, <2>2 DEF Continue, HandleDisconnect, SendDone, SendFails, Notified, Return,
                      JoinSent, AcceptSent, Notify, TableChange
  <2> QED BY <2>1, <2>2
<1>4. ASSUME NEW t \in Tasks, NEW c \in Calls, Handle(t, c) PROVE TableChange
  <2>1. Owner(t) \in Users
    BY OwnerType
  <2>2. ASSUME NEW target \in Users, CallRequest(t, target, c) PROVE TableChange
    BY <2>1, <2>2 DEF CallRequest, Rings, TableChange
  <2>3. CASE CallJoin(t, c) \/ CallAccept(t, c)
    BY <2>3 DEF CallJoin, CallAccept, AcceptCall, Answers, TableChange
  <2>4. CASE RestEndCallMinimal(t, c)
    BY <2>4 DEF RestEndCallMinimal, TableChange
  <2>5. CASE RefuseRequest(t, c) \/ CallReject(t, c) \/ CallTimeout(t, c) \/ CallEndFrame(t, c)
             \/ RestEndCall(t, c)
    BY <2>5 DEF RefuseRequest, CallReject, CallTimeout, CallEndFrame, RestEndCall, TableChange
  <2> QED BY <1>4, <2>2, <2>3, <2>4, <2>5 DEF Handle
<1>5. CASE Restart
  BY <1>5 DEF TableChange
<1> QED BY <1>1, <1>2, <1>3, <1>4, <1>5 DEF Next

LEMMA BusyNext == TypeOK /\ BusyWithLiveCall /\ TableChange => BusyWithLiveCall'
<1> SUFFICES ASSUME TypeOK, BusyWithLiveCall, TableChange,
                    NEW u \in Users, user_calls'[u] # None
             PROVE  InTable(user_calls[u])' /\ u \in Participants(user_calls[u])'
  BY DEF BusyWithLiveCall
<1> USE DEF TypeOK
<1>1. CASE UNCHANGED <<calls, user_calls>>
  BY <1>1 DEF BusyWithLiveCall, InTable, Participants
<1>2. ASSUME NEW c \in Calls, NEW v \in Users, NEW w \in Users, Rings(c, v, w)
      PROVE  InTable(user_calls[u])' /\ u \in Participants(user_calls[u])'
  <2>1. CASE u \in {v, w}
    BY <1>2, <2>1 DEF Rings, InTable, Participants
  <2>2. CASE u \notin {v, w}
    <3>1. user_calls'[u] = user_calls[u] /\ user_calls[u] \in Calls
      BY <1>2, <2>2 DEF Rings
    <3>2. InTable(user_calls[u]) /\ u \in Participants(user_calls[u])
      BY <3>1 DEF BusyWithLiveCall
    <3>3. user_calls[u] # c
      BY <1>2, <3>2 DEF Rings, InTable
    <3> QED BY <1>2, <3>1, <3>2, <3>3 DEF Rings, InTable, Participants
  <2> QED BY <2>1, <2>2
<1>3. ASSUME NEW c \in Calls, Answers(c)
      PROVE  InTable(user_calls[u])' /\ u \in Participants(user_calls[u])'
  BY <1>3 DEF Answers, BusyWithLiveCall, InTable, Participants, CallData
<1>4. ASSUME NEW c \in Calls, CleanupCall(c)
      PROVE  InTable(user_calls[u])' /\ u \in Participants(user_calls[u])'
  <2>1. CASE ~InTable(c)
    BY <1>4, <2>1 DEF CleanupCall, BusyWithLiveCall, InTable, Participants
  <2>2. CASE InTable(c)
    <3>1. /\ calls' = [calls EXCEPT ![c].status = "gone"]
          /\ user_calls' = [x \in Users |-> IF x \in Participants(c) THEN None ELSE user_calls[x]]
      BY <1>4, <2>2 DEF CleanupCall
    <3>2. u \notin Participants(c) /\ user_calls'[u] = user_calls[u] /\ user_calls[u] \in Calls
      BY <3>1
    <3>3. InTable(user_calls[u]) /\ u \in Participants(user_calls[u])
      BY <3>2 DEF BusyWithLiveCall
    <3>4. user_calls[u] # c
      BY <3>2, <3>3
    <3>5. calls'[user_calls[u]] = calls[user_calls[u]]
      BY <3>1, <3>2, <3>4
    <3> QED BY <3>2, <3>3, <3>5 DEF InTable, Participants
  <2> QED BY <2>1, <2>2
<1>5. CASE Restart
  BY <1>5 DEF Restart
<1> QED BY <1>1, <1>2, <1>3, <1>4, <1>5 DEF TableChange

\* Whatever the handlers interleave, nobody is busy with a call that is not in the table
\* or that is not his: _cleanup_call frees both participants of the call it removes.
THEOREM BusyIndexCorrect == Spec => []BusyWithLiveCall
<1>1. Init => BusyWithLiveCall
  BY DEF Init, BusyWithLiveCall
<1>2. TypeInv /\ BusyWithLiveCall /\ [Next]_vars => BusyWithLiveCall'
  BY StepsChangeTables, BusyNext DEF TypeInv
<1> QED BY <1>1, <1>2, TypeInvInit, TypeInvNext, PTL DEF Spec

LEMMA LifecycleStep == TypeOK /\ TableChange => [Lifecycle!Next]_calls
<1> SUFFICES ASSUME TypeOK, TableChange PROVE [Lifecycle!Next]_calls
  OBVIOUS
<1> USE DEF TypeOK
<1>1. CASE UNCHANGED <<calls, user_calls>>
  BY <1>1
<1>2. ASSUME NEW c \in Calls, NEW u \in Users, NEW v \in Users, Rings(c, u, v) PROVE Lifecycle!Next
  BY <1>2 DEF Rings, Lifecycle!Next, Lifecycle!Ring
<1>3. ASSUME NEW c \in Calls, Answers(c) PROVE Lifecycle!Next
  BY <1>3 DEF Answers, Lifecycle!Next, Lifecycle!Answer
<1>4. ASSUME NEW c \in Calls, CleanupCall(c) PROVE [Lifecycle!Next]_calls
  <2>1. CASE ~InTable(c)
    BY <1>4, <2>1 DEF CleanupCall
  <2>2. CASE InTable(c)
    <3>1. calls' = [calls EXCEPT ![c].status = "gone"]
      BY <1>4, <2>2 DEF CleanupCall
    <3>2. calls' = [d \in Calls |-> IF d \in {c} THEN [calls[d] EXCEPT !.status = "gone"] ELSE calls[d]]
      BY <3>1
    <3>3. Lifecycle!Forget({c})
      BY <2>2, <3>2 DEF Lifecycle!Forget, InTable
    <3> QED BY <3>3 DEF Lifecycle!Next
  <2> QED BY <2>1, <2>2
<1>5. CASE Restart
  <2> DEFINE S == {c \in Calls : InTable(c)}
  <2>1. \A c \in S : calls[c].status \in {"ringing", "active"}
    BY DEF InTable
  <2>2. calls' = [c \in Calls |-> IF c \in S THEN [calls[c] EXCEPT !.status = "gone"] ELSE calls[c]]
    BY <1>5 DEF Restart
  <2>3. Lifecycle!Forget(S)
    BY <2>1, <2>2 DEF Lifecycle!Forget
  <2> QED BY <2>3 DEF Lifecycle!Next
<1> QED BY <1>1, <1>2, <1>3, <1>4, <1>5 DEF TableChange

\* The interleaved handlers implement the lifecycle of CallLifecycle for every instance:
\* an id is rung once, answered at most once, and never comes back.
THEOREM SignalingImplementsLifecycle == Spec => ImplementsLifecycle
<1>1. Init => Lifecycle!Init
  BY DEF Init, Lifecycle!Init
<1>2. TypeInv /\ [Next]_vars => [Lifecycle!Next]_calls
  BY StepsChangeTables, LifecycleStep DEF TypeInv
<1> QED BY <1>1, <1>2, TypeInvInit, TypeInvNext, PTL DEF Spec, ImplementsLifecycle, Lifecycle!Spec

-----------------------------------------------------------------------------
(* Copies of a call-accepted frame.                                        *)

Holds(s, m) == \E i \in 1..Len(s) : s[i] = m
Single(s, m) == \A i, j \in 1..Len(s) : s[i] = m /\ s[j] = m => i = j

\* Where a frame can be: a user's buffer, the entries a flush still has, a send.
Boxes == ({"buffer"} \X Users) \cup ({"queue", "msg"} \X Tasks)
Content(b) == IF b[1] = "buffer" THEN pending_messages[b[2]]
              ELSE IF b[1] = "queue" THEN task[b[2]].queue ELSE <<task[b[2]].msg>>
Carriers(c) == {b \in Boxes : Holds(Content(b), Accepted(c))}

\* The inductive invariant: a call-accepted exists once, in a box or at the caller, and
\* not before the call was answered.
Unanswered(c) == calls[c].status \in {"fresh", "ringing"}
OneCopy(c) == /\ \A b \in Boxes : Single(Content(b), Accepted(c))
              /\ \A b1, b2 \in Carriers(c) : b1 = b2
              /\ got[c] = 0 \/ (got[c] = 1 /\ Carriers(c) = {})
              /\ Unanswered(c) => got[c] = 0 /\ Carriers(c) = {}
CopyInv == \A c \in Calls : OneCopy(c)

\* A sequence made of some entries of another, in their order, holds no frame twice
\* that the other one holds once.
LEMMA SubSeqHolds ==
  ASSUME NEW s \in Seq(Frame), NEW n \in 0..Len(s), NEW m
  PROVE  LET r == SubSeq(s, n + 1, Len(s)) IN
         /\ r \in Seq(Frame)
         /\ Holds(r, m) => Holds(s, m)
         /\ Single(s, m) => Single(r, m)
<1> DEFINE r == SubSeq(s, n + 1, Len(s))
<1>1. \A i \in (n + 1)..Len(s) : s[i] \in Frame
  OBVIOUS
<1>2. n \in Int /\ n + 1 \in Int /\ Len(s) \in Int /\ Len(s) \in Nat /\ n \in Nat
  OBVIOUS
<1>3. /\ r \in Seq(Frame)
      /\ Len(r) = IF n + 1 <= Len(s) THEN Len(s) - (n + 1) + 1 ELSE 0
      /\ \A i \in 1..(Len(s) - (n + 1) + 1) : r[i] = s[n + 1 + i - 1]
  BY <1>1, <1>2, SubSeqProperties
<1> HIDE DEF r
<1>4. Len(r) = Len(s) - n /\ \A i \in 1..Len(r) : i + n \in 1..Len(s) /\ r[i] = s[i + n]
  BY <1>2, <1>3
<1>5. Holds(r, m) => Holds(s, m)
  BY <1>4 DEF Holds
<1>6. Single(s, m) => Single(r, m)
  <2> SUFFICES ASSUME Single(s, m), NEW i \in 1..Len(r), NEW j \in 1..Len(r), r[i] = m, r[j] = m
               PROVE  i = j
    BY DEF Single
  <2>1. i + n \in 1..Len(s) /\ j + n \in 1..Len(s) /\ s[i + n] = m /\ s[j + n] = m
    BY <1>4
  <2>2. i + n = j + n
    BY <2>1 DEF Single
  <2>3. i \in Int /\ j \in Int
    OBVIOUS
  <2> QED BY <1>2, <2>2, <2>3
<1> QED BY <1>3, <1>5, <1>6 DEF r

LEMMA TailHolds ==
  ASSUME NEW s \in Seq(Frame), s # <<>>, NEW m
  PROVE  /\ Holds(Tail(s), m) => Holds(s, m)
         /\ Single(s, m) => Single(Tail(s), m)
         /\ Head(s) = m => Holds(s, m)
         /\ Head(s) = m /\ Single(s, m) => ~Holds(Tail(s), m)
<1>1. Len(s) \in Nat /\ Len(s) > 0 /\ Head(s) = s[1]
  OBVIOUS
<1>2. Tail(s) \in Seq(Frame) /\ Len(Tail(s)) = Len(s) - 1
      /\ \A i \in 1..Len(Tail(s)) : Tail(s)[i] = s[i + 1]
  BY HeadTailProperties
<1> DEFINE r == Tail(s)
<1> HIDE DEF r
<1>3. \A i \in 1..Len(r) : i \in Nat /\ i + 1 \in 1..Len(s) /\ i + 1 # 1 /\ r[i] = s[i + 1]
  BY <1>1, <1>2 DEF r
<1>4. Holds(r, m) => Holds(s, m)
  BY <1>3 DEF Holds
<1>5. Single(s, m) => Single(r, m)
  BY <1>3 DEF Single
<1>6. Head(s) = m => Holds(s, m)
  BY <1>1 DEF Holds
<1>7. Head(s) = m /\ Single(s, m) => ~Holds(r, m)
  <2> SUFFICES ASSUME s[1] = m, Single(s, m), NEW i \in 1..Len(r), r[i] = m PROVE FALSE
    BY <1>1 DEF Holds
  <2>1. s[i + 1] = m /\ i + 1 \in 1..Len(s) /\ 1 \in 1..Len(s) /\ i + 1 # 1
    BY <1>1, <1>3
  <2> QED BY <2>1 DEF Single
<1> QED BY <1>4, <1>5, <1>6, <1>7 DEF r

LEMMA AppendHolds ==
  ASSUME NEW s \in Seq(Frame), NEW x \in Frame, NEW m
  PROVE  /\ Holds(Append(s, x), m) => x = m \/ Holds(s, m)
         /\ Single(s, m) /\ (x = m => ~Holds(s, m)) => Single(Append(s, x), m)
<1> DEFINE r == Append(s, x)
<1>1. Len(s) \in Nat /\ Len(r) = Len(s) + 1 /\ r[Len(s) + 1] = x
      /\ \A i \in 1..Len(s) : r[i] = s[i]
  OBVIOUS
<1> HIDE DEF r
<1>2. \A i \in 1..Len(r) : (i \in 1..Len(s) /\ r[i] = s[i]) \/ (i = Len(s) + 1 /\ r[i] = x)
  BY <1>1
<1>3. Holds(r, m) => x = m \/ Holds(s, m)
  BY <1>2 DEF Holds
<1>4. Single(s, m) /\ (x = m => ~Holds(s, m)) => Single(r, m)
  BY <1>2 DEF Single, Holds
<1> QED BY <1>3, <1>4 DEF r

\* Pushing adds the pushed frame and nothing else.
LEMMA PushHolds ==
  ASSUME NEW s \in Seq(Frame), NEW x \in Frame, NEW m
  PROVE  /\ Holds(Push(s, x), m) => x = m \/ Holds(s, m)
         /\ Single(s, m) /\ (x = m => ~Holds(s, m)) => Single(Push(s, x), m)
<1>1. CASE Len(s) >= MaxPending
  <2>1. s # <<>>
    BY <1>1, BoundsAssumption
  <2>2. Tail(s) \in Seq(Frame)
    BY <2>1
  <2>3. Push(s, x) = Append(Tail(s), x)
    BY <1>1 DEF Push
  <2>4. /\ Holds(Tail(s), m) => Holds(s, m)
        /\ Single(s, m) => Single(Tail(s), m)
    BY <2>1, TailHolds
  <2>5. /\ Holds(Append(Tail(s), x), m) => x = m \/ Holds(Tail(s), m)
        /\ Single(Tail(s), m) /\ (x = m => ~Holds(Tail(s), m)) => Single(Append(Tail(s), x), m)
    BY <2>2, AppendHolds
  <2> HIDE DEF Holds, Single
  <2> QED BY <2>3, <2>4, <2>5
<1>2. CASE ~(Len(s) >= MaxPending)
  BY <1>2, AppendHolds DEF Push
<1> QED BY <1>1, <1>2

LEMMA OneHolds == \A x, m : (Holds(<<x>>, m) <=> x = m) /\ Single(<<x>>, m) /\ ~Holds(<<>>, m) /\ Single(<<>>, m)
  BY DEF Holds, Single

\* Different calls have different frames.
LEMMA AcceptedFrames == \A c, d \in Calls : /\ Accepted(c) = Accepted(d) => c = d
                                            /\ Accepted(c) # OtherFrame
                                            /\ Accepted(c).kind = "call-accepted"
                                            /\ Accepted(c).call = c
  BY DEF Accepted, OtherFrame

-----------------------------------------------------------------------------
(* What a step does to the copies of call d: it adds none, it delivers one, *)
(* or it starts the first one.                                              *)

SinglesKept(d) == \A b \in Boxes : Single(Content(b), Accepted(d))'
\* Copies stay where they are, get lost or move together from one box to another.
Keeps(d) == /\ got'[d] = got[d]
            /\ \/ Carriers(d)' \subseteq Carriers(d)
               \/ \E from, to \in Boxes : /\ Carriers(d)' \subseteq (Carriers(d) \ {from}) \cup {to}
                                          /\ to \in Carriers(d)' => from \in Carriers(d)
Delivers(d) == \E b \in Carriers(d) : /\ Carriers(d)' \subseteq Carriers(d) \ {b}
                                      /\ got'[d] = got[d] + 1
Starts(d) == /\ Unanswered(d) /\ ~Unanswered(d)' /\ got'[d] = got[d]
             /\ \E b \in Boxes : Carriers(d)' \subseteq {b}
CopyStep(d) == SinglesKept(d) /\ (Keeps(d) \/ Delivers(d) \/ Starts(d))

\* A box holds a frame sequence.
LEMMA ContentType ==
  ASSUME TypeOK
  PROVE  /\ \A u \in Users : pending_messages[u] \in Seq(Frame)
         /\ \A t \in Tasks : task[t].queue \in Seq(Frame) /\ task[t].msg \in Frame
  BY DEF TypeOK, TaskState

\* What a box of each kind holds, before a step and after it.
LEMMA BufferCarrier ==
  ASSUME NEW d \in Calls, NEW u \in Users
  PROVE  /\ <<"buffer", u>> \in Carriers(d) <=> Holds(pending_messages[u], Accepted(d))
         /\ <<"buffer", u>> \in Carriers(d)' <=> Holds(pending_messages'[u], Accepted(d))
<1>1. <<"buffer", u>> \in Boxes
  BY DEF Boxes
<1>2. /\ Content(<<"buffer", u>>) = pending_messages[u]
      /\ Content(<<"buffer", u>>)' = pending_messages'[u]
  BY DEF Content
<1> QED BY <1>1, <1>2 DEF Carriers

LEMMA QueueCarrier ==
  ASSUME NEW d \in Calls, NEW t \in Tasks
  PROVE  /\ <<"queue", t>> \in Carriers(d) <=> Holds(task[t].queue, Accepted(d))
         /\ <<"queue", t>> \in Carriers(d)' <=> Holds(task'[t].queue, Accepted(d))
<1>1. <<"queue", t>> \in Boxes
  BY DEF Boxes
<1>2. /\ Content(<<"queue", t>>) = task[t].queue
      /\ Content(<<"queue", t>>)' = task'[t].queue
  BY DEF Content
<1> QED BY <1>1, <1>2 DEF Carriers

LEMMA MsgCarrier ==
  ASSUME NEW d \in Calls, NEW t \in Tasks
  PROVE  /\ <<"msg", t>> \in Carriers(d) <=> task[t].msg = Accepted(d)
         /\ <<"msg", t>> \in Carriers(d)' <=> task'[t].msg = Accepted(d)
<1>1. <<"msg", t>> \in Boxes
  BY DEF Boxes
<1>2. /\ Content(<<"msg", t>>) = <<task[t].msg>>
      /\ Content(<<"msg", t>>)' = <<task'[t].msg>>
  BY DEF Content
<1> QED BY <1>1, <1>2, OneHolds DEF Carriers

\* Every box is of one of the three kinds.
LEMMA BoxKinds ==
  \A b \in Boxes : \/ \E u \in Users : b = <<"buffer", u>>
                   \/ \E t \in Tasks : b = <<"queue", t>> \/ b = <<"msg", t>>
  BY DEF Boxes

\* Boxes that hold each frame once after a step.
LEMMA SinglesAfter ==
  ASSUME NEW d \in Calls,
         \A u \in Users : Single(pending_messages'[u], Accepted(d)),
         \A t \in Tasks : Single(task'[t].queue, Accepted(d))
  PROVE  SinglesKept(d)
<1> SUFFICES ASSUME NEW b \in Boxes PROVE Single(Content(b)', Accepted(d))
  BY DEF SinglesKept
<1> QED BY BoxKinds, OneHolds DEF Content

LEMMA SinglesBefore ==
  ASSUME NEW d \in Calls, OneCopy(d)
  PROVE  /\ \A u \in Users : Single(pending_messages[u], Accepted(d))
         /\ \A t \in Tasks : Single(task[t].queue, Accepted(d))
<1>1. /\ \A u \in Users : <<"buffer", u>> \in Boxes /\ Content(<<"buffer", u>>) = pending_messages[u]
      /\ \A t \in Tasks : <<"queue", t>> \in Boxes /\ Content(<<"queue", t>>) = task[t].queue
  BY DEF Boxes, Content
<1> QED BY <1>1 DEF OneCopy

LEMMA AcceptedKind == \A m \in Frame : m.kind = "call-accepted" => m = Accepted(m.call)
<1> TAKE m \in Frame
<1> HAVE m.kind = "call-accepted"
<1>1. PICK c \in Calls : m = Accepted(c)
  BY FrameType DEF Frame
<1> QED BY <1>1 DEF Accepted

LEMMA CopyStepKeeps ==
  ASSUME TypeOK, NEW d \in Calls, OneCopy(d), CopyStep(d), Unanswered(d)' => Unanswered(d)
  PROVE  OneCopy(d)'
<1>1. got[d] \in Nat
  BY DEF TypeOK
<1>2. \A b \in Boxes : Single(Content(b), Accepted(d))'
  BY DEF CopyStep, SinglesKept
<1>3. CASE Keeps(d)
  <2>1. Carriers(d) = {} => Carriers(d)' = {}
    BY <1>3 DEF Keeps
  <2>2. \A b1, b2 \in Carriers(d)' : b1 = b2
    BY <1>3 DEF Keeps, OneCopy
  <2> QED BY <1>2, <1>3, <2>1, <2>2 DEF Keeps, OneCopy
<1>4. CASE Delivers(d)
  <2>1. Carriers(d)' = {} /\ got'[d] = 1 /\ ~Unanswered(d)'
    BY <1>4 DEF Delivers, OneCopy
  <2> QED BY <1>2, <2>1 DEF OneCopy
<1>5. CASE Starts(d)
  <2>1. \A b1, b2 \in Carriers(d)' : b1 = b2
    BY <1>5 DEF Starts
  <2> QED BY <1>2, <1>5, <2>1 DEF Starts, OneCopy
<1> QED BY <1>3, <1>4, <1>5 DEF CopyStep

\* The carriers after a step are those before it and the boxes that were filled.
LEMMA CarriersAfter ==
  ASSUME NEW d \in Calls, NEW E,
         \A u \in Users : Holds(pending_messages'[u], Accepted(d))
                            => Holds(pending_messages[u], Accepted(d)) \/ <<"buffer", u>> \in E,
         \A t \in Tasks : Holds(task'[t].queue, Accepted(d))
                            => Holds(task[t].queue, Accepted(d)) \/ <<"queue", t>> \in E,
         \A t \in Tasks : task'[t].msg = Accepted(d)
                            => task[t].msg = Accepted(d) \/ <<"msg", t>> \in E
  PROVE  Carriers(d)' \subseteq Carriers(d) \cup E
<1> SUFFICES ASSUME NEW b \in Boxes, b \in Carriers(d)' PROVE b \in Carriers(d) \/ b \in E
  BY DEF Carriers
<1>1. ASSUME NEW u \in Users, b = <<"buffer", u>> PROVE b \in Carriers(d) \/ b \in E
  BY <1>1, BufferCarrier
<1>2. ASSUME NEW t \in Tasks, b = <<"queue", t>> PROVE b \in Carriers(d) \/ b \in E
  BY <1>2, QueueCarrier
<1>3. ASSUME NEW t \in Tasks, b = <<"msg", t>> PROVE b \in Carriers(d) \/ b \in E
  BY <1>3, MsgCarrier
<1> QED BY <1>1, <1>2, <1>3, BoxKinds

\* The running task takes a new local state that holds no frame more; buffers keep theirs.
LEMMA QuietTask ==
  ASSUME TypeOK, NEW d \in Calls, OneCopy(d), NEW t \in Tasks, NEW new, task' = [task EXCEPT ![t] = new],
         new.queue = <<>> \/ new.queue = task[t].queue,
         new.msg = Accepted(d) => task[t].msg = Accepted(d),
         UNCHANGED <<pending_messages, got>>
  PROVE  CopyStep(d)
<1>1. \A s \in Tasks : task'[s].queue = <<>> \/ task'[s].queue = task[s].queue
  BY DEF TypeOK
<1>2. \A s \in Tasks : task'[s].msg = Accepted(d) => task[s].msg = Accepted(d)
  BY DEF TypeOK
<1>3. SinglesKept(d)
  BY <1>1, SinglesBefore, SinglesAfter, OneHolds
<1>4. \A s \in Tasks : Holds(task'[s].queue, Accepted(d)) => Holds(task[s].queue, Accepted(d))
  BY <1>1, OneHolds
<1>5. Carriers(d)' \subseteq Carriers(d) \cup {}
  BY <1>2, <1>4, CarriersAfter
<1> QED BY <1>3, <1>5 DEF CopyStep, Keeps

\* A send starts the copies of the call it accepts, or adds nothing.
LEMMA SendCopies ==
  ASSUME TypeInv, NEW d \in Calls, OneCopy(d), NEW t \in Tasks, NEW u \in Users, NEW m \in Frame,
         NEW c, NEW k, Send(t, u, m, c, k),
         m = Accepted(d) => Unanswered(d) /\ ~Unanswered(d)'
  PROVE  CopyStep(d)
<1>1. TypeOK /\ got' = got
  BY DEF TypeInv, Send
<1>2. CASE SendOnSocket(t, u, m, c, k)
  <2> DEFINE new == [task[t] EXCEPT !.pc = "sending", !.next = k, !.call = c,
                                    !.msg = m, !.sock = call_websockets[u]]
  <2>1. task' = [task EXCEPT ![t] = new] /\ pending_messages' = pending_messages
    BY <1>2 DEF SendOnSocket
  <2>2. new.queue = task[t].queue /\ new.msg = m
    BY <1>1 DEF TypeOK, TaskState
  <2> HIDE DEF new
  <2>3. CASE m # Accepted(d)
    BY <1>1, <2>1, <2>2, <2>3, QuietTask
  <2>4. CASE m = Accepted(d)
    <3>1. \A s \in Tasks : task'[s].queue = task[s].queue
      BY <1>1, <2>1, <2>2 DEF TypeOK
    <3>2. \A s \in Tasks : task'[s].msg = Accepted(d) => task[s].msg = Accepted(d) \/ s = t
      BY <1>1, <2>1 DEF TypeOK
    <3>3. SinglesKept(d)
      BY <2>1, <3>1, SinglesBefore, SinglesAfter
    <3>4. Carriers(d)' \subseteq Carriers(d) \cup {<<"msg", t>>}
      BY <2>1, <3>1, <3>2, CarriersAfter
    <3>5. Carriers(d) = {}
      BY <2>4 DEF OneCopy
    <3>6. <<"msg", t>> \in Boxes
      BY DEF Boxes
    <3> QED BY <1>1, <2>4, <3>3, <3>4, <3>5, <3>6 DEF CopyStep, Starts
  <2> QED BY <2>3, <2>4
<1>3. CASE SendToBuffer(t, u, m, c, k)
  <2> DEFINE new == [task[t] EXCEPT !.pc = k, !.next = "return", !.call = c, !.ok = TRUE]
  <2>1. task' = [task EXCEPT ![t] = new]
    BY <1>3 DEF SendToBuffer
  <2>2. new.queue = task[t].queue /\ new.msg = task[t].msg
    BY <1>1 DEF TypeOK, TaskState
  <2> HIDE DEF new
  <2>3. \A s \in Tasks : task'[s].queue = task[s].queue /\ task'[s].msg = task[s].msg
    BY <1>1, <2>1, <2>2 DEF TypeOK
  <2>4. /\ pending_messages'[u] = Push(pending_messages[u], m)
        /\ \A w \in Users \ {u} : pending_messages'[w] = pending_messages[w]
    BY <1>1, <1>3 DEF SendToBuffer, TypeOK
  <2>5. pending_messages[u] \in Seq(Frame)
    BY <1>1 DEF TypeOK
  <2>6. /\ Holds(pending_messages'[u], Accepted(d)) => m = Accepted(d) \/ Holds(pending_messages[u], Accepted(d))
        /\ Single(pending_messages[u], Accepted(d))
              /\ (m = Accepted(d) => ~Holds(pending_messages[u], Accepted(d)))
             => Single(pending_messages'[u], Accepted(d))
    BY <2>4, <2>5, PushHolds
  <2>7. m = Accepted(d) => Carriers(d) = {}
    BY DEF OneCopy
  <2>8. m = Accepted(d) => ~Holds(pending_messages[u], Accepted(d))
    BY <2>7, BufferCarrier
  <2>9. SinglesKept(d)
    BY <2>3, <2>4, <2>6, <2>8, SinglesBefore, SinglesAfter
  <2>10. Carriers(d)' \subseteq Carriers(d) \cup (IF m = Accepted(d) THEN {<<"buffer", u>>} ELSE {})
    <3> DEFINE E == IF m = Accepted(d) THEN {<<"buffer", u>>} ELSE {}
    <3>1. \A w \in Users : Holds(pending_messages'[w], Accepted(d))
                            => Holds(pending_messages[w], Accepted(d)) \/ <<"buffer", w>> \in E
      BY <2>4, <2>6
    <3> HIDE DEF E
    <3>2. Carriers(d)' \subseteq Carriers(d) \cup E
      BY <2>3, <3>1, CarriersAfter
    <3> QED BY <3>2 DEF E
  <2>11. <<"buffer", u>> \in Boxes
    BY DEF Boxes
  <2>12. CASE m = Accepted(d)
    BY <1>1, <2>7, <2>9, <2>10, <2>11, <2>12 DEF CopyStep, Starts
  <2>13. CASE m # Accepted(d)
    BY <1>1, <2>9, <2>10, <2>13 DEF CopyStep, Keeps
  <2> QED BY <2>12, <2>13
<1> QED BY <1>2, <1>3 DEF Send

LEMMA BlankHolds == \A p : Blank(p).queue = <<>> /\ Blank(p).msg = OtherFrame
  BY DEF Blank

LEMMA FinishCopies ==
  ASSUME TypeInv, NEW d \in Calls, OneCopy(d), NEW t \in Tasks, Finish(t),
         UNCHANGED <<pending_messages, history, restarts>>
  PROVE  CopyStep(d)
<1>1. PICK p : task' = [task EXCEPT ![t] = Blank(p)]
  BY DEF Finish
<1>2. UNCHANGED <<pending_messages, got>> /\ TypeOK
  BY DEF history, TypeInv
<1> QED BY <1>1, <1>2, BlankHolds, AcceptedFrames, QuietTask

LEMMA CallEndCopies ==
  ASSUME TypeInv, NEW d \in Calls, OneCopy(d), NEW t \in Tasks, NEW u \in Users, NEW c \in Calls,
         CallEnd(t, u, c)
  PROVE  CopyStep(d)
<1>1. CASE InTable(c) /\ u \in Participants(c)
  <2>1. Send(t, Other(u, c), OtherFrame, c, "end_sent") /\ Other(u, c) \in Users
    BY <1>1, OtherType DEF CallEnd, TypeInv
  <2> QED BY <2>1, FrameType, AcceptedFrames, SendCopies
<1>2. CASE ~(InTable(c) /\ u \in Participants(c))
  BY <1>2, FinishCopies DEF CallEnd
<1> QED BY <1>1, <1>2

\* The frames buffered for a user go to the flush of the socket that connects.
LEMMA ConnectCopies ==
  ASSUME TypeInv, NEW d \in Calls, OneCopy(d), NEW t \in Tasks, Connect(t)
  PROVE  CopyStep(d)
<1> DEFINE u == Owner(t)
           buf == pending_messages[u]
<1>1. TypeOK /\ u \in Users /\ got' = got /\ buf \in Seq(Frame)
  BY OwnerType DEF TypeInv, TypeOK, Connect, history
<1>2. PICK n \in 0..Len(buf) :
        LET fresh == SubSeq(buf, n + 1, Len(buf)) IN
        task' = [task EXCEPT ![t] = IF fresh = <<>> THEN Blank("idle")
                                    ELSE [Blank("flushing") EXCEPT !.queue = fresh, !.sock = t]]
  BY DEF Connect
<1> DEFINE fresh == SubSeq(buf, n + 1, Len(buf))
           new == IF fresh = <<>> THEN Blank("idle")
                  ELSE [Blank("flushing") EXCEPT !.queue = fresh, !.sock = t]
<1>3. /\ Holds(fresh, Accepted(d)) => Holds(buf, Accepted(d))
      /\ Single(buf, Accepted(d)) => Single(fresh, Accepted(d))
  BY <1>1, SubSeqHolds
<1>4. task' = [task EXCEPT ![t] = new]
  BY <1>2
<1>5. new.queue = fresh /\ new.msg = OtherFrame
  BY DEF Blank
<1>6. pending_messages'[u] = <<>> /\ \A w \in Users \ {u} : pending_messages'[w] = pending_messages[w]
  BY <1>1 DEF Connect, TypeOK
<1> HIDE DEF new, fresh
<1>7. /\ task'[t].queue = fresh /\ task'[t].msg = OtherFrame
      /\ \A s \in Tasks \ {t} : task'[s] = task[s]
  BY <1>1, <1>4, <1>5 DEF TypeOK
<1>8. SinglesKept(d)
  <2>1. \A w \in Users : Single(pending_messages'[w], Accepted(d))
    BY <1>6, SinglesBefore, OneHolds
  <2>2. \A s \in Tasks : Single(task'[s].queue, Accepted(d))
    BY <1>1, <1>3, <1>7, SinglesBefore
  <2> QED BY <2>1, <2>2, SinglesAfter
<1>9. Carriers(d)' \subseteq Carriers(d) \cup {<<"queue", t>>}
  <2>1. \A w \in Users : Holds(pending_messages'[w], Accepted(d)) => Holds(pending_messages[w], Accepted(d))
    BY <1>6, OneHolds
  <2>2. \A s \in Tasks : Holds(task'[s].queue, Accepted(d))
                           => Holds(task[s].queue, Accepted(d)) \/ <<"queue", s>> \in {<<"queue", t>>}
    BY <1>7
  <2>3. \A s \in Tasks : task'[s].msg = Accepted(d) => task[s].msg = Accepted(d)
    BY <1>7, AcceptedFrames
  <2> QED BY <2>1, <2>2, <2>3, CarriersAfter
<1>10. <<"buffer", u>> \notin Carriers(d)'
  <2>1. ~Holds(pending_messages'[u], Accepted(d))
    BY <1>6, OneHolds
  <2> QED BY <1>1, <2>1, BufferCarrier
<1>11. <<"queue", t>> \in Carriers(d)' => <<"buffer", u>> \in Carriers(d)
  BY <1>1, <1>3, <1>7, BufferCarrier, QueueCarrier
<1>12. <<"buffer", u>> \in Boxes /\ <<"queue", t>> \in Boxes
  BY <1>1 DEF Boxes
<1> QED BY <1>1, <1>8, <1>9, <1>10, <1>11, <1>12 DEF CopyStep, Keeps

\* A frame leaves the box it was in and reaches the caller.
LEMMA FlushCopies ==
  ASSUME TypeInv, NEW d \in Calls, OneCopy(d), NEW t \in Tasks, FlushEntry(t) \/ FlushBreak(t)
  PROVE  CopyStep(d)
<1>1. CASE FlushBreak(t)
  BY <1>1, BlankHolds, AcceptedFrames, QuietTask DEF FlushBreak, TypeInv, history
<1>2. CASE FlushEntry(t)
  <2> DEFINE q == task[t].queue
             m == Head(q)
             rest == Tail(q)
             now == call_websockets[Owner(t)]
             new == IF rest = <<>> \/ now = None THEN Blank("idle")
                    ELSE [task[t] EXCEPT !.queue = rest, !.sock = now]
  <2>1. TypeOK /\ q \in Seq(Frame) /\ q # <<>> /\ pending_messages' = pending_messages
    BY <1>2 DEF FlushEntry, LocalOK, TypeInv, TypeOK, TaskState
  <2>2. task' = [task EXCEPT ![t] = new]
        /\ got' = IF m.kind = "call-accepted" THEN [got EXCEPT ![m.call] = @ + 1] ELSE got
    BY <1>2 DEF FlushEntry
  <2>3. (new.queue = <<>> \/ new.queue = rest) /\ (new.msg = OtherFrame \/ new.msg = task[t].msg)
    BY <2>1 DEF Blank, TypeOK, TaskState
  <2> HIDE DEF new
  <2>4. /\ task'[t].queue = <<>> \/ task'[t].queue = rest
        /\ task'[t].msg = OtherFrame \/ task'[t].msg = task[t].msg
        /\ \A s \in Tasks \ {t} : task'[s] = task[s]
    BY <2>1, <2>2, <2>3 DEF TypeOK
  <2>5. /\ Holds(rest, Accepted(d)) => Holds(q, Accepted(d))
        /\ Single(q, Accepted(d)) => Single(rest, Accepted(d))
        /\ m = Accepted(d) => Holds(q, Accepted(d))
        /\ m = Accepted(d) /\ Single(q, Accepted(d)) => ~Holds(rest, Accepted(d))
    BY <2>1, TailHolds
  <2>6. m \in Frame
    BY <2>1
  <2> HIDE DEF m, rest
  <2>7. Single(q, Accepted(d))
    BY SinglesBefore
  <2>8. SinglesKept(d)
    BY <2>1, <2>4, <2>5, <2>7, SinglesBefore, SinglesAfter, OneHolds
  <2>9. Carriers(d)' \subseteq Carriers(d) \cup {}
    <3>1. \A s \in Tasks : Holds(task'[s].queue, Accepted(d)) => Holds(task[s].queue, Accepted(d))
      BY <2>4, <2>5, OneHolds
    <3>2. \A s \in Tasks : task'[s].msg = Accepted(d) => task[s].msg = Accepted(d)
      BY <2>4, AcceptedFrames
    <3> QED BY <2>1, <3>1, <3>2, CarriersAfter
  <2>10. CASE m = Accepted(d)
    <3>1. <<"queue", t>> \in Carriers(d) /\ <<"queue", t>> \notin Carriers(d)'
      <4>1. ~Holds(task'[t].queue, Accepted(d))
        BY <2>4, <2>5, <2>7, <2>10, OneHolds
      <4>2. Holds(task[t].queue, Accepted(d))
        BY <2>5, <2>10
      <4> QED BY <4>1, <4>2, QueueCarrier
    <3>2. got'[d] = got[d] + 1
      BY <2>1, <2>2, <2>10, AcceptedFrames DEF TypeOK
    <3> QED BY <2>8, <2>9, <3>1, <3>2 DEF CopyStep, Delivers
  <2>11. CASE m # Accepted(d)
    <3>1. m.kind = "call-accepted" => m = Accepted(m.call)
      BY <2>6, AcceptedKind
    <3>2. got'[d] = got[d]
      BY <2>1, <2>2, <2>11, <3>1 DEF TypeOK
    <3> QED BY <2>8, <2>9, <3>2 DEF CopyStep, Keeps
  <2> QED BY <2>10, <2>11
<1> QED BY <1>1, <1>2

LEMMA ResumeHolds == \A t \in Tasks, ok \in BOOLEAN :
                       TypeOK => Resume(t, ok).queue = task[t].queue /\ Resume(t, ok).msg = OtherFrame
  BY DEF Resume, TypeOK, TaskState

LEMMA ResumeCopies ==
  ASSUME TypeInv, NEW d \in Calls, OneCopy(d), NEW t \in Tasks,
         SendDone(t) \/ SendFails(t) \/ Notified(t)
  PROVE  CopyStep(d)
<1>1. TypeOK
  BY DEF TypeInv
<1>2. CASE SendFails(t) \/ Notified(t)
  <2>1. PICK ok \in BOOLEAN : task' = [task EXCEPT ![t] = Resume(t, ok)]
    BY <1>2 DEF SendFails, Notified
  <2>2. UNCHANGED <<pending_messages, got>>
    BY <1>2 DEF SendFails, Notified, history
  <2> QED BY <1>1, <2>1, <2>2, ResumeHolds, AcceptedFrames, QuietTask
<1>3. CASE SendDone(t)
  <2> DEFINE m == task[t].msg
             new == Resume(t, TRUE)
  <2>1. task' = [task EXCEPT ![t] = new] /\ pending_messages' = pending_messages
        /\ IF m.kind = "call-accepted" THEN got' = [got EXCEPT ![m.call] = @ + 1] ELSE got' = got
    BY <1>3 DEF SendDone, history
  <2>2. new.queue = task[t].queue /\ new.msg = OtherFrame /\ m \in Frame
    BY <1>1, ResumeHolds DEF TypeOK, TaskState
  <2> HIDE DEF new, m
  <2>3. CASE m # Accepted(d)
    <3>1. m.kind = "call-accepted" => m = Accepted(m.call)
      BY <2>2, AcceptedKind
    <3>2. got'[d] = got[d]
      BY <1>1, <2>1, <2>3, <3>1 DEF TypeOK
    <3>3. /\ \A s \in Tasks : task'[s].queue = task[s].queue
          /\ \A s \in Tasks : task'[s].msg = Accepted(d) => task[s].msg = Accepted(d)
      BY <1>1, <2>1, <2>2, AcceptedFrames DEF TypeOK
    <3>4. SinglesKept(d)
      BY <2>1, <3>3, SinglesBefore, SinglesAfter
    <3>5. Carriers(d)' \subseteq Carriers(d) \cup {}
      BY <2>1, <3>3, CarriersAfter
    <3> QED BY <3>2, <3>4, <3>5 DEF CopyStep, Keeps
  <2>4. CASE m = Accepted(d)
    <3>1. got'[d] = got[d] + 1
      BY <1>1, <2>1, <2>4, AcceptedFrames DEF TypeOK
    <3>2. /\ \A s \in Tasks : task'[s].queue = task[s].queue
          /\ \A s \in Tasks : task'[s].msg = Accepted(d) => task[s].msg = Accepted(d)
          /\ task'[t].msg = OtherFrame
      BY <1>1, <2>1, <2>2, AcceptedFrames DEF TypeOK
    <3>3. SinglesKept(d)
      BY <2>1, <3>2, SinglesBefore, SinglesAfter
    <3>4. Carriers(d)' \subseteq Carriers(d) \cup {}
      BY <2>1, <3>2, CarriersAfter
    <3>5. <<"msg", t>> \in Carriers(d) /\ <<"msg", t>> \notin Carriers(d)'
      BY <2>4, <3>2, MsgCarrier, AcceptedFrames DEF m
    <3> QED BY <3>1, <3>3, <3>4, <3>5 DEF CopyStep, Delivers
  <2> QED BY <2>3, <2>4
<1> QED BY <1>2, <1>3

LEMMA ContinueCopies ==
  ASSUME TypeInv, NEW d \in Calls, OneCopy(d), NEW t \in Tasks,
         RequestSent(t) \/ JoinSent(t) \/ AcceptSent(t) \/ Notify(t) \/ EndSent(t)
           \/ HandleDisconnect(t) \/ Return(t)
  PROVE  CopyStep(d)
<1>1. TypeOK /\ Owner(t) \in Users
  BY OwnerType DEF TypeInv
<1>2. OtherFrame \in Frame /\ OtherFrame # Accepted(d)
  BY FrameType, AcceptedFrames
<1>3. CASE RequestSent(t)
  BY <1>1, <1>2, <1>3, SendCopies DEF RequestSent
<1>4. CASE JoinSent(t) \/ AcceptSent(t)
  <2>1. task[t].call \in Calls
    BY <1>4 DEF JoinSent, AcceptSent, Running, TypeInv, LocalOK, NeedsCall, Labels
  <2>2. CASE CallEnd(t, Owner(t), task[t].call)
    BY <1>1, <2>1, <2>2, CallEndCopies
  <2>3. CASE Send(t, Owner(t), OtherFrame, None, "return")
    BY <1>1, <1>2, <2>3, SendCopies
  <2>4. CASE Finish(t) /\ UNCHANGED <<pending_messages, history, restarts>>
    BY <2>4, FinishCopies
  <2> QED BY <1>4, <2>2, <2>3, <2>4 DEF JoinSent, AcceptSent
<1>5. CASE Notify(t)
  <2> DEFINE new == [task[t] EXCEPT !.pc = "notifying", !.next = "end_sent"]
  <2>1. task' = [task EXCEPT ![t] = new] /\ UNCHANGED <<pending_messages, got>>
    BY <1>5 DEF Notify, history
  <2>2. new.queue = task[t].queue /\ new.msg = task[t].msg
    BY <1>1 DEF TypeOK, TaskState
  <2> HIDE DEF new
  <2> QED BY <1>1, <2>1, <2>2, QuietTask
<1>6. CASE EndSent(t) \/ Return(t)
  BY <1>6, FinishCopies DEF EndSent, Return
<1>7. CASE HandleDisconnect(t)
  <2>1. CASE user_calls[Owner(t)] # None
    <3>1. user_calls[Owner(t)] \in Calls
      BY <1>1, <2>1 DEF TypeOK
    <3> QED BY <1>1, <1>7, <2>1, <3>1, CallEndCopies DEF HandleDisconnect
  <2>2. CASE user_calls[Owner(t)] = None
    BY <1>7, <2>2, FinishCopies DEF HandleDisconnect
  <2> QED BY <2>1, <2>2
<1> QED BY <1>3, <1>4, <1>5, <1>6, <1>7

LEMMA SocketCopies ==
  ASSUME TypeInv, NEW d \in Calls, OneCopy(d), NEW t \in Tasks, LeaveLoop(t) \/ Drop(t) \/ Relay(t)
  PROVE  CopyStep(d)
<1>1. TypeOK /\ Owner(t) \in Users
  BY OwnerType DEF TypeInv
<1>2. OtherFrame \in Frame /\ OtherFrame # Accepted(d)
  BY FrameType, AcceptedFrames
<1>3. CASE LeaveLoop(t)
  BY <1>1, <1>2, <1>3, BlankHolds, QuietTask DEF LeaveLoop, history
<1>4. CASE Drop(t)
  <2> DEFINE new == [task[t] EXCEPT !.pc = "dropped", !.closing = TRUE]
  <2>1. task' = [task EXCEPT ![t] = new] /\ UNCHANGED <<pending_messages, got>>
    BY <1>4 DEF Drop, history
  <2>2. new.queue = task[t].queue /\ new.msg = task[t].msg
    BY <1>1 DEF TypeOK, TaskState
  <2> HIDE DEF new
  <2> QED BY <1>1, <2>1, <2>2, QuietTask
<1>5. CASE Relay(t)
  <2>1. user_calls[Owner(t)] \in Calls
    BY <1>1, <1>5 DEF Relay, TypeOK
  <2>2. Other(Owner(t), user_calls[Owner(t)]) \in Users
    BY <1>1, <2>1, OtherType
  <2> QED BY <1>2, <1>5, <2>2, SendCopies DEF Relay
<1> QED BY <1>3, <1>4, <1>5

LEMMA AcceptCopies ==
  ASSUME TypeInv, NEW d \in Calls, OneCopy(d), NEW t \in Tasks, NEW c \in Calls, NEW k,
         calls[c].status = "ringing", AcceptCall(t, c, k)
  PROVE  CopyStep(d)
<1>1. calls[c].caller \in Users /\ calls' = [calls EXCEPT ![c].status = "active"]
      /\ Send(t, calls[c].caller, Accepted(c), c, k) /\ Accepted(c) \in Frame
  BY FrameType DEF AcceptCall, TypeInv, TypeOK, CallData
<1>2. Accepted(c) = Accepted(d) => Unanswered(d) /\ ~Unanswered(d)'
  <2>1. Accepted(c) = Accepted(d) => c = d
    BY AcceptedFrames
  <2>2. calls'[c].status = "active"
    BY <1>1 DEF TypeInv, TypeOK, CallData
  <2> QED BY <2>1, <2>2 DEF Unanswered
<1> QED BY <1>1, <1>2, SendCopies

LEMMA HandleCopies ==
  ASSUME TypeInv, NEW d \in Calls, OneCopy(d), NEW t \in Tasks, NEW c \in Calls, Handle(t, c)
  PROVE  CopyStep(d)
<1>1. TypeOK /\ Owner(t) \in Users /\ calls[c].caller \in Users /\ calls[c].callee \in Users
      /\ Other(Owner(t), c) \in Users
  BY OwnerType, OtherType DEF TypeInv, TypeOK, CallData
<1>2. OtherFrame \in Frame /\ OtherFrame # Accepted(d)
  BY FrameType, AcceptedFrames
<1>3. CASE RefuseRequest(t, c)
  BY <1>1, <1>2, <1>3, SendCopies DEF RefuseRequest
<1>4. ASSUME NEW target \in Users, CallRequest(t, target, c) PROVE CopyStep(d)
  <2>1. CASE Send(t, target, OtherFrame, c, "request_sent")
    BY <1>2, <2>1, SendCopies
  <2>2. CASE /\ task' = [task EXCEPT ![t].pc = "notifying", ![t].next = "request_sent", ![t].call = c]
             /\ UNCHANGED <<loop, pending_messages, history, restarts>>
    <3> DEFINE new == [task[t] EXCEPT !.pc = "notifying", !.next = "request_sent", !.call = c]
    <3>1. task' = [task EXCEPT ![t] = new] /\ UNCHANGED <<pending_messages, got>>
      BY <2>2 DEF history
    <3>2. new.queue = task[t].queue /\ new.msg = task[t].msg
      BY <1>1 DEF TypeOK, TaskState
    <3> HIDE DEF new
    <3> QED BY <1>1, <3>1, <3>2, QuietTask
  <2> QED BY <1>4, <2>1, <2>2 DEF CallRequest
<1>5. CASE CallJoin(t, c) \/ CallAccept(t, c)
  <2>1. CASE Owner(t) = calls[c].callee /\ calls[c].status = "ringing"
    BY <1>5, <2>1, AcceptCopies DEF CallJoin, CallAccept
  <2>2. CASE ~(Owner(t) = calls[c].callee /\ calls[c].status = "ringing")
    BY <1>1, <1>2, <1>5, <2>2, SendCopies DEF CallJoin, CallAccept
  <2> QED BY <2>1, <2>2
<1>6. CASE CallReject(t, c)
  BY <1>1, <1>2, <1>6, SendCopies DEF CallReject
<1>7. CASE CallTimeout(t, c)
  BY <1>1, <1>2, <1>7, SendCopies DEF CallTimeout
<1>8. CASE CallEndFrame(t, c)
  BY <1>1, <1>8, CallEndCopies DEF CallEndFrame
<1>9. CASE RestEndCall(t, c)
  BY <1>1, <1>2, <1>9, SendCopies DEF RestEndCall
<1>10. CASE RestEndCallMinimal(t, c)
  <2>1. task' = [task EXCEPT ![t] = task[t]] /\ UNCHANGED <<pending_messages, got>>
    BY <1>1, <1>10 DEF RestEndCallMinimal, TypeOK, history
  <2> QED BY <1>1, <2>1, QuietTask
<1> QED BY <1>3, <1>4, <1>5, <1>6, <1>7, <1>8, <1>9, <1>10 DEF Handle

\* A restart keeps at most the buffers.
LEMMA RestartCopies ==
  ASSUME TypeInv, NEW d \in Calls, OneCopy(d), Restart PROVE CopyStep(d)
<1>1. TypeOK /\ got' = got
  BY DEF TypeInv, Restart, history
<1>2. \A u \in Users : pending_messages'[u] = pending_messages[u] \/ pending_messages'[u] = <<>>
  BY <1>1 DEF Restart
<1>3. \A s \in Tasks : task'[s] = task[s] \/ \E p : task'[s] = Blank(p)
  BY DEF Restart
<1>4. \A s \in Tasks : /\ task'[s].queue = task[s].queue \/ task'[s].queue = <<>>
                       /\ task'[s].msg = task[s].msg \/ task'[s].msg = OtherFrame
  BY <1>3, BlankHolds
<1>5. SinglesKept(d)
  BY <1>2, <1>4, SinglesBefore, SinglesAfter, OneHolds
<1>6. Carriers(d)' \subseteq Carriers(d) \cup {}
  <2>1. \A u \in Users : Holds(pending_messages'[u], Accepted(d)) => Holds(pending_messages[u], Accepted(d))
    BY <1>2, OneHolds
  <2>2. \A s \in Tasks : Holds(task'[s].queue, Accepted(d)) => Holds(task[s].queue, Accepted(d))
    BY <1>4, OneHolds
  <2>3. \A s \in Tasks : task'[s].msg = Accepted(d) => task[s].msg = Accepted(d)
    BY <1>4, AcceptedFrames
  <2> QED BY <2>1, <2>2, <2>3, CarriersAfter
<1> QED BY <1>1, <1>5, <1>6 DEF CopyStep, Keeps

LEMMA UnansweredBack == TypeOK /\ TableChange => \A d \in Calls : Unanswered(d)' => Unanswered(d)
<1> SUFFICES ASSUME TypeOK, TableChange, NEW d \in Calls, Unanswered(d)' PROVE Unanswered(d)
  OBVIOUS
<1> USE DEF TypeOK
<1>1. CASE UNCHANGED <<calls, user_calls>>
  BY <1>1 DEF Unanswered
<1>2. ASSUME NEW c \in Calls, NEW u \in Users, NEW v \in Users, Rings(c, u, v) PROVE Unanswered(d)
  BY <1>2 DEF Rings, Unanswered
<1>3. ASSUME NEW c \in Calls, Answers(c) PROVE Unanswered(d)
  BY <1>3 DEF Answers, Unanswered, CallData
<1>4. ASSUME NEW c \in Calls, CleanupCall(c) PROVE Unanswered(d)
  BY <1>4 DEF CleanupCall, Unanswered, CallData
<1>5. CASE Restart
  BY <1>5 DEF Restart, Unanswered, InTable, CallData
<1> QED BY <1>1, <1>2, <1>3, <1>4, <1>5 DEF TableChange

LEMMA CopyInvNext == TypeInv /\ CopyInv /\ [Next]_vars => CopyInv'
<1> SUFFICES ASSUME TypeInv, CopyInv, [Next]_vars, NEW d \in Calls PROVE OneCopy(d)'
  BY DEF CopyInv
<1>1. OneCopy(d) /\ TypeOK
  BY DEF CopyInv, TypeInv
<1>2. Unanswered(d)' => Unanswered(d)
  BY <1>1, StepsChangeTables, UnansweredBack
<1>3. CopyStep(d)
  <2>1. CASE UNCHANGED vars
    <3>1. SinglesKept(d)
      BY <1>1, <2>1, SinglesBefore, SinglesAfter DEF vars
    <3>2. Carriers(d)' \subseteq Carriers(d) \cup {}
      BY <2>1, CarriersAfter DEF vars
    <3> QED BY <2>1, <3>1, <3>2 DEF CopyStep, Keeps, vars
  <2>2. ASSUME NEW t \in Tasks, SocketStep(t) \/ Continue(t) \/ Relay(t) PROVE CopyStep(d)
    BY <1>1, <2>2, ConnectCopies, FlushCopies, SocketCopies, ResumeCopies, ContinueCopies
       DEF SocketStep, Continue
  <2>3. ASSUME NEW t \in Tasks, NEW c \in Calls, Handle(t, c) PROVE CopyStep(d)
    BY <1>1, <2>3, HandleCopies
  <2> QED BY <1>1, <2>1, <2>2, <2>3, RestartCopies DEF Next
<1> QED BY <1>1, <1>2, <1>3, CopyStepKeeps

LEMMA CopyInvInit == Init => CopyInv
<1> SUFFICES ASSUME Init, NEW d \in Calls PROVE OneCopy(d)
  BY DEF CopyInv
<1>1. /\ \A u \in Users : pending_messages[u] = <<>>
      /\ \A t \in Tasks : task[t].queue = <<>> /\ task[t].msg = OtherFrame
  BY BlankHolds DEF Init
<1>2. \A b \in Boxes : Content(b) = <<>> \/ Content(b) = <<OtherFrame>>
  BY <1>1, BoxKinds DEF Content
<1>3. \A b \in Boxes : Single(Content(b), Accepted(d)) /\ ~Holds(Content(b), Accepted(d))
  <2>1. Accepted(d) # OtherFrame
    BY AcceptedFrames
  <2>2. Single(<<>>, Accepted(d)) /\ Single(<<OtherFrame>>, Accepted(d))
    BY OneHolds
  <2>3. ~Holds(<<>>, Accepted(d)) /\ ~Holds(<<OtherFrame>>, Accepted(d))
    BY <2>1, OneHolds
  <2> HIDE DEF Holds, Single
  <2> QED BY <1>2, <2>2, <2>3
<1> QED BY <1>3 DEF OneCopy, Carriers, Init

\* Whatever is replayed from the buffer, accepted on a second socket or joined again, the
\* caller gets one call-accepted at most.
THEOREM AcceptedOnce == Spec => []AcceptDeliveredOnce
<1>1. CopyInv => AcceptDeliveredOnce
  BY DEF CopyInv, OneCopy, AcceptDeliveredOnce
<1> QED BY <1>1, CopyInvInit, CopyInvNext, TypeInvInit, TypeInvNext, PTL DEF Spec

-----------------------------------------------------------------------------
(* An answered call is told to its caller or taken down.                   *)

\* A coroutine that will tell the caller of c, or take c down.
Answering == {"join_sent", "accept_sent"}
SeesTo(t, c) == /\ task[t].call = c /\ Owner(t) \in Participants(c)
                /\ \/ task[t].pc = "sending" /\ task[t].next \in Answering /\ task[t].msg = Accepted(c)
                   \/ task[t].pc \in Answering /\ ~task[t].ok
                   \/ task[t].pc = "sending" /\ task[t].next = "end_sent"
                   \/ task[t].pc = "end_sent"
\* The inductive invariant: an active call is told or has such a coroutine.
ToldInv == \A c \in Calls : calls[c].status = "active" => c \in told \/ \E t \in Tasks : SeesTo(t, c)

Answered(c) == calls[c].status = "active"

\* What a step does for call c: it stays answered and its coroutine goes on, ...
Cared(c) == c \in told' \/ ~Answered(c)' \/ \E t \in Tasks : SeesTo(t, c)'

\* The participants of an answered call do not change, and only an answer makes it active.
LEMMA AnsweredBack ==
  ASSUME TypeOK, TableChange, NEW c \in Calls, Answered(c)'
  PROVE  \/ Answered(c) /\ Participants(c)' = Participants(c)
         \/ Answers(c) /\ Participants(c)' = Participants(c)
<1> USE DEF TypeOK
<1>1. CASE UNCHANGED <<calls, user_calls>>
  BY <1>1 DEF Answered, Participants
<1>2. ASSUME NEW d \in Calls, NEW u \in Users, NEW v \in Users, Rings(d, u, v)
      PROVE  Answered(c) /\ Participants(c)' = Participants(c)
  BY <1>2 DEF Rings, Answered, Participants
<1>3. ASSUME NEW d \in Calls, Answers(d)
      PROVE  \/ Answered(c) /\ Participants(c)' = Participants(c)
             \/ Answers(c) /\ Participants(c)' = Participants(c)
  <2>1. calls'[c].caller = calls[c].caller /\ calls'[c].callee = calls[c].callee
    BY <1>3 DEF Answers, CallData
  <2>2. c # d => Answered(c)
    BY <1>3 DEF Answers, Answered
  <2> QED BY <1>3, <2>1, <2>2 DEF Participants
<1>4. ASSUME NEW d \in Calls, CleanupCall(d)
      PROVE  Answered(c) /\ Participants(c)' = Participants(c)
  BY <1>4 DEF CleanupCall, Answered, Participants, CallData
<1>5. CASE Restart
  BY <1>5 DEF Restart, Answered, Participants, InTable, CallData
<1> QED BY <1>1, <1>2, <1>3, <1>4, <1>5 DEF TableChange

\* The fields of a coroutine that has started a send, or that left its frame in a buffer.
LEMMA SendFields ==
  ASSUME TypeOK, NEW t \in Tasks, NEW u \in Users, NEW m \in Frame, NEW c \in Calls, NEW k \in Labels,
         Send(t, u, m, c, k)
  PROVE  /\ task'[t].call = c
         /\ \/ task'[t].pc = "sending" /\ task'[t].next = k /\ task'[t].msg = m
            \/ /\ task'[t].pc = k
               /\ m.kind = "call-accepted" => m.call \in told'
<1>1. CASE SendOnSocket(t, u, m, c, k)
  <2> DEFINE new == [task[t] EXCEPT !.pc = "sending", !.next = k, !.call = c,
                                    !.msg = m, !.sock = call_websockets[u]]
  <2>1. task' = [task EXCEPT ![t] = new]
    BY <1>1 DEF SendOnSocket
  <2>2. new.pc = "sending" /\ new.next = k /\ new.msg = m /\ new.call = c
    BY DEF TypeOK, TaskState
  <2> HIDE DEF new
  <2>3. task'[t] = new
    BY <2>1 DEF TypeOK
  <2> QED BY <2>2, <2>3
<1>2. CASE SendToBuffer(t, u, m, c, k)
  <2> DEFINE new == [task[t] EXCEPT !.pc = k, !.next = "return", !.call = c, !.ok = TRUE]
  <2>1. task' = [task EXCEPT ![t] = new]
    BY <1>2 DEF SendToBuffer
  <2>2. new.pc = k /\ new.call = c
    BY DEF TypeOK, TaskState
  <2> HIDE DEF new
  <2>3. task'[t] = new
    BY <2>1 DEF TypeOK
  <2> QED BY <1>2, <2>2, <2>3 DEF SendToBuffer
<1> QED BY <1>1, <1>2 DEF Send

LEMMA ResumeFields ==
  ASSUME TypeOK, NEW t \in Tasks, NEW ok \in BOOLEAN, task' = [task EXCEPT ![t] = Resume(t, ok)]
  PROVE  task'[t].pc = task[t].next /\ task'[t].call = task[t].call /\ task'[t].ok = ok
<1>1. Resume(t, ok).pc = task[t].next /\ Resume(t, ok).call = task[t].call /\ Resume(t, ok).ok = ok
  BY DEF Resume, TypeOK, TaskState
<1> QED BY <1>1 DEF TypeOK

\* The coroutine that answers a call starts to tell the caller.
LEMMA AnswerCared ==
  ASSUME TypeInv, NEW t \in Tasks, NEW c \in Calls, NEW k \in Answering,
         Owner(t) = calls[c].callee, AcceptCall(t, c, k)
  PROVE  Cared(c)
<1>1. calls[c].caller \in Users /\ Accepted(c) \in Frame /\ k \in Labels /\ TypeOK
  BY FrameType DEF TypeInv, TypeOK, CallData, Answering, Labels
<1>2. Send(t, calls[c].caller, Accepted(c), c, k)
  BY DEF AcceptCall
<1>3. /\ task'[t].call = c
      /\ \/ task'[t].pc = "sending" /\ task'[t].next = k /\ task'[t].msg = Accepted(c)
         \/ task'[t].pc = k /\ (Accepted(c).kind = "call-accepted" => Accepted(c).call \in told')
  BY <1>1, <1>2, SendFields
<1>4. Accepted(c).kind = "call-accepted" /\ Accepted(c).call = c
  BY DEF Accepted
<1>5. Owner(t) \in Participants(c)'
  BY DEF AcceptCall, TypeInv, TypeOK, CallData, Participants
<1> QED BY <1>3, <1>4, <1>5 DEF Cared, SeesTo

\* The coroutine that sees to a call goes on with it.
LEMMA OwnCared ==
  ASSUME TypeInv, NEW t \in Tasks, NEW c \in Calls, SeesTo(t, c), Answered(c), Continue(t),
         Answered(c)' => Participants(c)' = Participants(c)
  PROVE  Cared(c)
<1>1. TypeOK /\ task[t].call = c /\ Owner(t) \in Participants(c)
  BY DEF TypeInv, SeesTo
<1>2. ASSUME SendDone(t) PROVE Cared(c)
  <2>1. task' = [task EXCEPT ![t] = Resume(t, TRUE)] /\ task[t].pc = "sending"
    BY <1>2 DEF SendDone
  <2>2. task'[t].pc = task[t].next /\ task'[t].call = c
    BY <1>1, <2>1, ResumeFields
  <2>3. CASE task[t].next \in Answering /\ task[t].msg = Accepted(c)
    BY <1>2, <2>3 DEF SendDone, Accepted, Cared
  <2>4. CASE task[t].next = "end_sent"
    BY <1>1, <2>2, <2>4 DEF SeesTo, Cared
  <2> QED BY <2>1, <2>3, <2>4 DEF SeesTo, Answering
<1>3. ASSUME SendFails(t) PROVE Cared(c)
  <2>1. task' = [task EXCEPT ![t] = Resume(t, FALSE)] /\ task[t].pc = "sending"
    BY <1>3 DEF SendFails
  <2>2. task'[t].pc = task[t].next /\ task'[t].call = c /\ task'[t].ok = FALSE
    BY <1>1, <2>1, ResumeFields
  <2>3. task[t].next \in Answering \cup {"end_sent"}
    BY <2>1 DEF SeesTo, Answering
  <2> QED BY <1>1, <2>2, <2>3 DEF SeesTo, Cared
<1>4. ASSUME JoinSent(t) \/ AcceptSent(t) PROVE Cared(c)
  <2>1. ~task[t].ok /\ task[t].pc \in Answering
    BY <1>4 DEF JoinSent, AcceptSent, Running, SeesTo, Answering
  <2>2. CallEnd(t, Owner(t), c)
    BY <1>1, <1>4, <2>1 DEF JoinSent, AcceptSent
  <2>3. Send(t, Other(Owner(t), c), OtherFrame, c, "end_sent")
    BY <1>1, <2>2 DEF CallEnd, InTable, Answered
  <2>4. Other(Owner(t), c) \in Users /\ OtherFrame \in Frame /\ "end_sent" \in Labels
    BY <1>1, FrameType, OwnerType, OtherType DEF Labels
  <2>5. /\ task'[t].call = c
        /\ \/ task'[t].pc = "sending" /\ task'[t].next = "end_sent"
           \/ task'[t].pc = "end_sent"
    BY <1>1, <2>3, <2>4, SendFields
  <2> QED BY <1>1, <2>5 DEF SeesTo, Cared
<1>5. ASSUME EndSent(t) PROVE Cared(c)
  BY <1>1, <1>5 DEF EndSent, CleanupCall, InTable, Answered, Cared, TypeOK, CallData
<1>6. ASSUME HandleDisconnect(t) \/ Notified(t) \/ Return(t) \/ RequestSent(t) \/ Notify(t) PROVE FALSE
  BY <1>6 DEF HandleDisconnect, Notified, Return, RequestSent, Notify, Running, SeesTo, Answering
<1> QED BY <1>2, <1>3, <1>4, <1>5, <1>6 DEF Continue

\* A coroutine that sees to a call is not one that starts something else.
LEMMA OthersWait ==
  ASSUME TypeInv, NEW t \in Tasks, NEW c \in Calls, SeesTo(t, c)
  PROVE  /\ ~SocketStep(t) /\ ~Relay(t) /\ ~Receives(t)
<1>1. task[t].pc \in {"sending", "end_sent", "join_sent", "accept_sent"}
  BY DEF SeesTo, Answering
<1> QED BY <1>1 DEF SocketStep, Connect, FlushEntry, FlushBreak, LeaveLoop, Drop, Relay, Receives

OthersStay(t) == told \subseteq told' /\ \A s \in Tasks \ {t} : task'[s] = task[s]

\* Every step but a restart changes the local state of one coroutine.
LEMMA OneTask ==
  ASSUME TypeInv, NEW t \in Tasks,
         SocketStep(t) \/ Continue(t) \/ Relay(t) \/ \E c \in Calls : Handle(t, c)
  PROVE  OthersStay(t)
<1> USE DEF OthersStay
<1>1. TypeOK
  BY DEF TypeInv
<1>2. ASSUME NEW u, NEW m, NEW c, NEW k, Send(t, u, m, c, k) PROVE OthersStay(t)
  BY <1>1, <1>2 DEF Send, SendOnSocket, SendToBuffer, TypeOK
<1>3. ASSUME Finish(t), UNCHANGED <<pending_messages, history, restarts>>
      PROVE  OthersStay(t)
  BY <1>1, <1>3 DEF Finish, history, TypeOK
<1>4. ASSUME NEW u, NEW c, CallEnd(t, u, c) PROVE OthersStay(t)
  BY <1>2, <1>3, <1>4 DEF CallEnd
<1>5. CASE SocketStep(t)
  BY <1>1, <1>5 DEF SocketStep, Connect, FlushEntry, FlushBreak, LeaveLoop, Drop, history, TypeOK
<1>6. CASE Relay(t)
  BY <1>2, <1>6 DEF Relay
<1>7. CASE Continue(t)
  <2>1. CASE SendDone(t) \/ SendFails(t) \/ Notified(t) \/ Notify(t)
    BY <1>1, <2>1 DEF SendDone, SendFails, Notified, Notify, history, TypeOK
  <2>2. CASE HandleDisconnect(t) \/ Return(t) \/ EndSent(t)
    BY <1>3, <1>4, <2>2 DEF HandleDisconnect, Return, EndSent
  <2>3. CASE RequestSent(t)
    BY <1>2, <2>3 DEF RequestSent
  <2>4. CASE JoinSent(t)
    BY <1>2, <1>4, <2>4 DEF JoinSent
  <2>5. CASE AcceptSent(t)
    BY <1>3, <1>4, <2>5 DEF AcceptSent
  <2> QED BY <1>7, <2>1, <2>2, <2>3, <2>4, <2>5 DEF Continue
<1>8. ASSUME NEW c \in Calls, Handle(t, c) PROVE OthersStay(t)
  <2>1. CASE RefuseRequest(t, c) \/ CallReject(t, c) \/ CallTimeout(t, c) \/ RestEndCall(t, c)
    BY <1>2, <2>1 DEF RefuseRequest, CallReject, CallTimeout, RestEndCall
  <2>2. ASSUME NEW v \in Users, CallRequest(t, v, c) PROVE OthersStay(t)
    BY <1>1, <1>2, <2>2 DEF CallRequest, history, TypeOK
  <2>3. CASE CallJoin(t, c) \/ CallAccept(t, c)
    BY <1>2, <2>3 DEF CallJoin, CallAccept, AcceptCall
  <2>4. CASE CallEndFrame(t, c)
    BY <1>4, <2>4 DEF CallEndFrame
  <2>5. CASE RestEndCallMinimal(t, c)
    BY <2>5 DEF RestEndCallMinimal, history
  <2> QED BY <1>8, <2>1, <2>2, <2>3, <2>4, <2>5 DEF Handle
<1> QED BY <1>5, <1>6, <1>7, <1>8

\* Only call-join and call-accept answer a call.
LEMMA OnlyAcceptAnswers ==
  ASSUME TypeInv, NEW t \in Tasks, NEW c \in Calls, Answers(c),
         SocketStep(t) \/ Continue(t) \/ Relay(t) \/ \E d \in Calls : Handle(t, d)
  PROVE  \E k \in Answering : Owner(t) = calls[c].callee /\ AcceptCall(t, c, k)
<1>1. TypeOK
  BY DEF TypeInv
<1>2. calls[c].status = "ringing" /\ calls'[c].status = "active" /\ \A d \in Calls \ {c} : calls'[d] = calls[d]
  BY <1>1 DEF Answers, TypeOK, CallData
<1>3. ASSUME NEW d \in Calls, CleanupCall(d) PROVE FALSE
  BY <1>1, <1>2, <1>3 DEF CleanupCall, TypeOK, CallData
<1>4. CASE SocketStep(t) \/ Relay(t)
  BY <1>2, <1>4 DEF SocketStep, Connect, FlushEntry, FlushBreak, LeaveLoop, Drop, Relay
<1>5. CASE Continue(t)
  <2>1. CASE RequestSent(t) \/ EndSent(t)
    <3>1. task[t].call \in Calls
      BY <2>1 DEF RequestSent, EndSent, Running, TypeInv, LocalOK, NeedsCall, Labels
    <3> QED BY <1>2, <1>3, <2>1, <3>1 DEF RequestSent, EndSent
  <2>2. CASE ~(RequestSent(t) \/ EndSent(t))
    BY <1>2, <1>5, <2>2 DEF Continue, HandleDisconnect, SendDone, SendFails, Notified, Return,
                            JoinSent, AcceptSent, Notify
  <2> QED BY <2>1, <2>2
<1>6. ASSUME NEW d \in Calls, Handle(t, d)
      PROVE  \E k \in Answering : Owner(t) = calls[c].callee /\ AcceptCall(t, c, k)
  <2>1. ASSUME NEW v \in Users, CallRequest(t, v, d) PROVE FALSE
    <3>1. calls[d].status = "fresh" /\ calls'[d].status = "ringing"
      BY <1>1, <2>1 DEF CallRequest, TypeOK, CallData
    <3> QED BY <1>2, <3>1
  <2>2. CASE CallJoin(t, d) \/ CallAccept(t, d)
    <3>1. CASE Owner(t) = calls[d].callee /\ calls[d].status = "ringing"
      <4>1. PICK k \in Answering : AcceptCall(t, d, k)
        BY <2>2, <3>1 DEF CallJoin, CallAccept, Answering
      <4>2. calls'[d].status = "active"
        BY <1>1, <4>1 DEF AcceptCall, TypeOK, CallData
      <4>3. d = c
        BY <1>2, <3>1, <4>2
      <4> QED BY <3>1, <4>1, <4>3
    <3>2. CASE ~(Owner(t) = calls[d].callee /\ calls[d].status = "ringing")
      BY <1>2, <2>2, <3>2 DEF CallJoin, CallAccept
    <3> QED BY <3>1, <3>2
  <2>3. CASE RestEndCallMinimal(t, d)
    BY <1>3, <2>3 DEF RestEndCallMinimal
  <2>4. CASE RefuseRequest(t, d) \/ CallReject(t, d) \/ CallTimeout(t, d) \/ CallEndFrame(t, d)
             \/ RestEndCall(t, d)
    BY <1>2, <2>4 DEF RefuseRequest, CallReject, CallTimeout, CallEndFrame, RestEndCall
  <2> QED BY <1>6, <2>1, <2>2, <2>3, <2>4 DEF Handle
<1> QED BY <1>4, <1>5, <1>6

LEMMA HandleReceives == \A t \in Tasks, c \in Calls : Handle(t, c) => Receives(t)
  BY DEF Handle, RefuseRequest, CallRequest, CallJoin, CallAccept, CallReject, CallTimeout,
         CallEndFrame, RestEndCall, RestEndCallMinimal

LEMMA ToldInvNext == TypeInv /\ ToldInv /\ [Next]_vars => ToldInv'
<1> SUFFICES ASSUME TypeInv, ToldInv, [Next]_vars, NEW c \in Calls, Answered(c)' PROVE Cared(c)
  BY DEF ToldInv, Answered, Cared
<1>1. TypeOK
  BY DEF TypeInv
<1>2. \/ Answered(c) /\ Participants(c)' = Participants(c)
      \/ Answers(c) /\ Participants(c)' = Participants(c)
  BY <1>1, StepsChangeTables, AnsweredBack
<1>3. CASE UNCHANGED vars
  BY <1>3 DEF vars, ToldInv, Answered, Cared, SeesTo, Participants
<1>4. ASSUME NEW t \in Tasks,
             SocketStep(t) \/ Continue(t) \/ Relay(t) \/ \E d \in Calls : Handle(t, d)
      PROVE  Cared(c)
  <2>1. OthersStay(t)
    BY <1>4, OneTask
  <2>2. CASE Answers(c)
    BY <1>4, <2>2, OnlyAcceptAnswers, AnswerCared
  <2>3. CASE Answered(c) /\ c \in told
    BY <2>1, <2>3 DEF OthersStay, Cared
  <2>4. ASSUME Answered(c), NEW s \in Tasks, SeesTo(s, c) PROVE Cared(c)
    <3>1. Participants(c)' = Participants(c)
      BY <1>2
    <3>2. CASE s # t
      <4>1. task'[s] = task[s]
        BY <2>1, <3>2 DEF OthersStay
      <4>2. SeesTo(s, c)'
        BY <2>4, <3>1, <4>1 DEF SeesTo
      <4> QED BY <4>2 DEF Cared
    <3>3. CASE s = t
      <4>1. Continue(t)
        BY <1>4, <2>4, <3>3, OthersWait, HandleReceives
      <4> QED BY <2>4, <3>1, <3>3, <4>1, OwnCared
    <3> QED BY <3>2, <3>3
  <2> QED BY <1>2, <2>2, <2>3, <2>4 DEF ToldInv, Answered
<1>5. CASE Restart
  BY <1>1, <1>5 DEF Restart, Answered, InTable, TypeOK, CallData
<1> QED BY <1>3, <1>4, <1>5 DEF Next

\* Whatever fails on the way, a call that is active and that no handler works on any more
\* was announced to its caller: an accept that could not be sent takes the call down.
THEOREM AnsweredIsTold == Spec => []ActiveCallerTold
<1>1. ToldInv => ActiveCallerTold
  BY DEF ToldInv, ActiveCallerTold, SeesTo
<1>2. Init => ToldInv
  BY DEF Init, ToldInv
<1> QED BY <1>1, <1>2, ToldInvNext, TypeInvInit, TypeInvNext, PTL DEF Spec

-----------------------------------------------------------------------------
(* No call is forgotten without its row.                                   *)

\* Why call c may leave the table without a row.
Excused(c) == \/ MinimalMetadata \/ c \in call_log' \/ restarts' # restarts
              \/ \E t \in Tasks : task[t].pc = "request_sent" /\ ~task[t].ok /\ task[t].call = c

LEMMA LoggedNext ==
  ASSUME TypeInv, [Next]_vars, NEW c \in Calls, InTable(c), ~InTable(c)'
  PROVE  Excused(c)
<1>1. TypeOK
  BY DEF TypeInv
<1>2. calls' # calls
  BY DEF InTable
<1>3. ASSUME NEW d \in Calls, CleanupCall(d) PROVE d = c
  BY <1>1, <1>3 DEF CleanupCall, InTable, TypeOK
<1>4. ASSUME NEW t \in Tasks, SocketStep(t) \/ Continue(t) \/ Relay(t) PROVE Excused(c)
  <2>1. CASE RequestSent(t) \/ EndSent(t)
    <3>1. task[t].call \in Calls
      BY <2>1 DEF RequestSent, EndSent, Running, TypeInv, LocalOK, NeedsCall, Labels
    <3>2. CASE RequestSent(t)
      <4>1. ~task[t].ok /\ CleanupCall(task[t].call)
        BY <1>2, <3>2 DEF RequestSent
      <4> QED BY <1>3, <3>1, <3>2, <4>1 DEF RequestSent, Running, Excused
    <3>3. CASE EndSent(t)
      <4>1. task[t].call = c /\ SaveCallToDb(c)
        BY <1>3, <3>1, <3>3 DEF EndSent
      <4> QED BY <4>1 DEF SaveCallToDb, Excused
    <3> QED BY <2>1, <3>2, <3>3
  <2>2. CASE ~(RequestSent(t) \/ EndSent(t))
    BY <1>2, <1>4, <2>2
       DEF SocketStep, Connect, FlushEntry, FlushBreak, LeaveLoop, Drop, Relay, Continue,
           HandleDisconnect, SendDone, SendFails, Notified, Return, JoinSent, AcceptSent, Notify
  <2> QED BY <2>1, <2>2
<1>5. ASSUME NEW t \in Tasks, NEW d \in Calls, Handle(t, d) PROVE Excused(c)
  <2>1. ASSUME NEW v \in Users, CallRequest(t, v, d) PROVE FALSE
    <3>1. calls[d].status = "fresh" /\ \A e \in Calls \ {d} : calls'[e] = calls[e]
      BY <1>1, <2>1 DEF CallRequest, TypeOK
    <3> QED BY <3>1 DEF InTable
  <2>2. CASE CallJoin(t, d) \/ CallAccept(t, d)
    <3>1. calls' = [calls EXCEPT ![d].status = "active"]
      BY <1>2, <2>2 DEF CallJoin, CallAccept, AcceptCall
    <3>2. calls'[c].status = "active" \/ calls'[c] = calls[c]
      BY <1>1, <3>1 DEF TypeOK, CallData
    <3> QED BY <3>2 DEF InTable
  <2>3. CASE RestEndCallMinimal(t, d)
    BY <2>3 DEF RestEndCallMinimal, Excused
  <2>4. CASE RefuseRequest(t, d) \/ CallReject(t, d) \/ CallTimeout(t, d) \/ CallEndFrame(t, d)
             \/ RestEndCall(t, d)
    BY <1>2, <2>4 DEF RefuseRequest, CallReject, CallTimeout, CallEndFrame, RestEndCall
  <2> QED BY <1>5, <2>1, <2>2, <2>3, <2>4 DEF Handle
<1>6. CASE Restart
  <2>1. restarts \in Nat /\ restarts' = restarts + 1
    BY <1>1, <1>6 DEF Restart, TypeOK
  <2> QED BY <2>1 DEF Excused
<1>7. ~UNCHANGED vars
  BY <1>2 DEF vars
<1> QED BY <1>4, <1>5, <1>6, <1>7 DEF Next

\* A call leaves the table only after its row was written, unless nothing is ever
\* written, its request could not be delivered or the server restarts.
THEOREM ForgottenAreLogged == Spec => LoggedBeforeForgotten
<1>1. TypeInv /\ [Next]_vars =>
        [\A c \in Calls : InTable(c) /\ ~InTable(c)' =>
           \/ MinimalMetadata \/ c \in call_log' \/ restarts' # restarts
           \/ \E t \in Tasks : task[t].pc = "request_sent" /\ ~task[t].ok /\ task[t].call = c]_vars
  BY LoggedNext DEF Excused
<1> QED BY <1>1, TypeInvInit, TypeInvNext, PTL DEF Spec, LoggedBeforeForgotten
=============================================================================
