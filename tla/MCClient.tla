-------------------------------- MODULE MCClient --------------------------------
(***************************************************************************)
(* What must happen in the end, a component at a time: a page of a call    *)
(* stops ringing, the chats get their socket back, messages leave the      *)
(* relay. The components share no state in these models. A behaviour is    *)
(* one of one component, chosen at the start, under its fairness; the      *)
(* others rest in their initial states.                                    *)
(***************************************************************************)
EXTENDS Naturals

CONSTANTS
    Ids, Users,     \* of Messages
    Socks,          \* of ChatSocket
    None

VARIABLES
    part,
    role, page, relay, access, breaks,
    ws, latest, timers, refreshing, token, mounted, up, cold, off, wakes,
    rows, members, sending, fetch, job, said, doubt, changes, fails

pageVars == <<role, page, relay, access, breaks>>
socketVars == <<ws, latest, timers, refreshing, token, mounted, up, cold, off, wakes>>
rowVars == <<rows, members, sending, fetch, job, said, doubt, changes, fails>>

Page == INSTANCE CallPage WITH MaxTries <- 2, MaxBreaks <- 2, NoStream <- None

Socket == INSTANCE ChatSocket WITH MaxOff <- 2, MaxWakes <- 1,
    NoSock <- None

Row == INSTANCE Messages WITH Members <- Users, MaxChanges <- 1, MaxFails <- 1

MCInit ==
    /\ part \in {"page", "socket", "rows"}
    /\ Page!Init /\ Socket!Init /\ Row!Init
    /\ part # "page" => role = "caller" /\ page.sock = "opening" /\ relay.inbox = <<>>

MCNext ==
    /\ UNCHANGED part
    /\ IF part = "page" THEN Page!Next ELSE UNCHANGED pageVars
    /\ IF part = "socket" THEN Socket!Next ELSE UNCHANGED socketVars
    /\ IF part = "rows" THEN Row!Next ELSE UNCHANGED rowVars

(* The fairness of CallPage, ChatSocket and Messages.        *)
MCFairness ==
    /\ WF_pageVars(part = "page" /\ Page!RingEnds)
    /\ WF_pageVars(part = "page" /\ Page!Receive)
    /\ WF_socketVars(part = "socket" /\ Socket!Mount)
    /\ WF_socketVars(part = "socket" /\ Socket!TimerFires)
    /\ WF_socketVars(part = "socket" /\ Socket!Refresh)
    /\ WF_socketVars(part = "socket" /\ Socket!Restored)
    /\ \A s \in Socks :
          WF_socketVars(part = "socket" /\ (Socket!Accept(s) \/ Socket!Reject(s)
                                              \/ Socket!OnClose(s) \/ Socket!OnReject(s)))
    /\ WF_rowVars(part = "rows" /\ (Row!Statuses \/ Row!StatusesFail))
    /\ WF_rowVars(part = "rows" /\ Row!LoopStep)
    /\ \A m \in Ids : /\ WF_rowVars(part = "rows" /\ Row!GrowOld(m))
                            /\ WF_rowVars(part = "rows" /\ Row!FallsDue(m))

MCSpec == MCInit /\ [][MCNext]_<<part, pageVars, socketVars, rowVars>> /\ MCFairness

-----------------------------------------------------------------------------
(* The properties of the parts; their modules say what each of them means.  *)

(* A called page does not ring for ever (CallPage.tsx:490-498).*)
IncomingSettles == part = "page" => Page!IncomingSettles

(* A page that stays gets a socket again (useChatSocket.ts:297-301).        *)
SocketComesBack == part = "socket" => Socket!SocketComesBack

(* A row that is not withdrawn is purged some day (background_tasks.py:101).*)
EveryRowLeaves == part = "rows" => Row!EveryRowLeaves
===============================================================================
