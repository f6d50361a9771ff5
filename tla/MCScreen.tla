-------------------------------- MODULE MCScreen --------------------------------
(***************************************************************************)
(* What the app shows and keeps for its user, and the relay it does it     *)
(* with, a component at a time: the chat on screen, its timeline,          *)
(* reactions, files, the outbox, the notes kept in plain, the keys of the  *)
(* others, the choice of a relay, the relay it hosts, push notices, the    *)
(* padding of what is sent. They share no state in these models. A         *)
(* behaviour is one of one component, chosen at the start; v1, v2, ... are *)
(* the variables of that component, in the order in which its module       *)
(* declares them (Padding has its own).                                    *)
(***************************************************************************)
EXTENDS Padding, TLC

CONSTANTS
    Pair,               \* chats, users, texts, files, tabs: two of each are alike
    LineRows, PageSize, MaxBreaks,          \* bounds of Timeline
    Emojis, Requests, MarkRows, MaxWire,    \* of Reactions
    Flushes, MaxAttempts, MaxReloads,       \* of Outbox
    Bubbles, Capacity, MaxUrls,             \* of Attachments
    Profiles, MaxEntries, MaxNotes, MaxTexts,   \* of Notes
    MaxKeys, MaxFrames,                     \* of KeyTrust
    MaxEndpoints,                           \* of Push
    Relays, Default, Public, Probes, MaxFaults,     \* of ServerBoot
    MaxGenerations, MaxRestarts, MaxMounts,     \* of HostMode
    None

ASSUME NoneAssumption == None \notin Nat \cup Pair \cup Relays
ASSUME RelaysAssumption == Default \in Relays /\ Public \subseteq Relays
ASSUME BoundsAssumption ==
    /\ MaxKeys \in Nat /\ MaxGenerations \in Nat /\ MaxUrls \in Nat /\ Capacity \in Nat
    /\ MaxEntries \in Nat /\ PageSize \in Nat \ {0}

VARIABLES
    part,
    v1, v2, v3, v4, v5, v6, v7, v8, v9, v10, v11, v12, v13

slots == <<v1, v2, v3, v4, v5, v6, v7, v8, v9, v10, v11, v12, v13>>

View == INSTANCE ChatView WITH
    Chats <- Pair, Nothing <- None, selected <- v1, history <- v2, shown <- v3,
    loads <- v4, late <- v5, input <- v6, drafts <- v7, draftTimer <- v8,
    post <- v9, sent <- v10, strayed <- v11, jumped <- v12

Line == INSTANCE Timeline WITH
    MaxRows <- LineRows, server <- v1, wire <- v2,
    opening <- v3, screen <- v4, load <- v5, older <- v6, hasMore <- v7,
    answers <- v8, last <- v9, link <- v10, syncs <- v11, breaks <- v12,
    raced <- v13

Reaction == INSTANCE Reactions WITH
    Users <- Pair, Slots <- Requests, MaxRows <- MarkRows, rows <- v1,
    rowsMade <- v2, marks <- v3, req <- v4, frames <- v5, read <- v6, doubt <- v7

Queue == INSTANCE Outbox WITH
    Texts <- Pair, stored <- v1, reached <- v2,
    promised <- v3, refused <- v4, send <- v5, flush <- v6, chatGone <- v7,
    reloads <- v8, crossed <- v9

File == INSTANCE Attachments WITH
    Files <- Pair, NoUrl <- None, outgoing <- v1,
    relay <- v2, keyed <- v3, bubble <- v4, shown <- v5, urls <- v6, made <- v7,
    cache <- v8, inflight <- v9

Note == INSTANCE Notes WITH
    Tabs <- Pair, active <- v1,
    of <- v2, items <- v3, stored <- v4, written <- v5, wanted <- v6, mixed <- v7,
    texts <- v8, sent <- v9, cut <- v10

Trust == INSTANCE KeyTrust WITH
    key <- v1, frames <- v2, loading <- v3,
    list <- v4, selected <- v5, known <- v6, warning <- v7, told <- v8,
    session <- v9, used <- v10, number <- v11

Notice == INSTANCE Push WITH
    Users <- Pair, user <- v1, wanted <- v2, granted <- v3,
    worker <- v4, endpoint <- v5, made <- v6, step <- v7, rows <- v8, sending <- v9,
    landed <- v10, foreign <- v11

Boot == INSTANCE ServerBoot WITH
    alive <- v1, faults <- v2, saved <- v3, resolved <- v4,
    base <- v5, overlay <- v6, phase <- v7, manual <- v8, probes <- v9,
    apply <- v10, signedIn <- v11, proven <- v12, astray <- v13

Host == INSTANCE HostMode WITH
    generation <- v1,
    wanted <- v2, run <- v3, restarts <- v4, live <- v5, slot <- v6, status <- v7,
    panel <- v8, mounts <- v9, registration <- v10, overtaken <- v11

(* A part with n variables leaves the other slots alone.                    *)
Rests(n) ==
    /\ IF n < 1 THEN v1 = 0 ELSE TRUE
    /\ IF n < 2 THEN v2 = 0 ELSE TRUE
    /\ IF n < 3 THEN v3 = 0 ELSE TRUE
    /\ IF n < 4 THEN v4 = 0 ELSE TRUE
    /\ IF n < 5 THEN v5 = 0 ELSE TRUE
    /\ IF n < 6 THEN v6 = 0 ELSE TRUE
    /\ IF n < 7 THEN v7 = 0 ELSE TRUE
    /\ IF n < 8 THEN v8 = 0 ELSE TRUE
    /\ IF n < 9 THEN v9 = 0 ELSE TRUE
    /\ IF n < 10 THEN v10 = 0 ELSE TRUE
    /\ IF n < 11 THEN v11 = 0 ELSE TRUE
    /\ IF n < 12 THEN v12 = 0 ELSE TRUE
    /\ IF n < 13 THEN v13 = 0 ELSE TRUE

MCInit ==
    /\ Init
    /\ \/ part = "padding" /\ Rests(0)
       \/ part = "view" /\ View!Init /\ Rests(12)
       \/ part = "timeline" /\ Line!Init /\ Rests(13)
       \/ part = "reactions" /\ Reaction!Init /\ Rests(7)
       \/ part = "outbox" /\ Queue!Init /\ Rests(9)
       \/ part = "files" /\ File!Init /\ Rests(9)
       \/ part = "notes" /\ Note!Init /\ Rests(10)
       \/ part = "keys" /\ Trust!Init /\ Rests(11)
       \/ part = "push" /\ Notice!Init /\ Rests(11)
       \/ part = "boot" /\ Boot!Init /\ Rests(13)
       \/ part = "host" /\ Host!Init /\ Rests(11)

MCNext ==
    /\ UNCHANGED part
    /\ \/ part = "padding" /\ Next /\ UNCHANGED slots
       \/ /\ part = "view" /\ View!Next
          /\ UNCHANGED <<paddingVars, v13>>
       \/ /\ part = "timeline" /\ Line!Next
          /\ UNCHANGED <<paddingVars>>
       \/ /\ part = "reactions" /\ Reaction!Next
          /\ UNCHANGED <<paddingVars, v8, v9, v10, v11, v12, v13>>
       \/ /\ part = "outbox" /\ Queue!Next
          /\ UNCHANGED <<paddingVars, v10, v11, v12, v13>>
       \/ /\ part = "files" /\ File!Next
          /\ UNCHANGED <<paddingVars, v10, v11, v12, v13>>
       \/ /\ part = "notes" /\ Note!Next
          /\ UNCHANGED <<paddingVars, v11, v12, v13>>
       \/ /\ part = "keys" /\ Trust!Next
          /\ UNCHANGED <<paddingVars, v12, v13>>
       \/ /\ part = "push" /\ Notice!Next
          /\ UNCHANGED <<paddingVars, v12, v13>>
       \/ /\ part = "boot" /\ Boot!Next
          /\ UNCHANGED <<paddingVars>>
       \/ /\ part = "host" /\ Host!Next
          /\ UNCHANGED <<paddingVars, v12, v13>>

MCSpec == MCInit /\ [][MCNext]_<<part, slots, paddingVars>>

Symmetry == Permutations(Pair)

-----------------------------------------------------------------------------
(* The properties of the parts; their modules say what each of them means.  *)

(* ChatPage.tsx: what is sent and shown belongs to the chat it was meant    *)
(* for.                                                                     *)
RightChat == part = "view" => View!RightChat

(* useChatMessages.ts, useChatSocket.ts: the screen has the rows of the     *)
(* relay.                                                                   *)
ScreenIsServer == part = "timeline" => Line!ScreenIsServer

(* useChatActions.ts: no mark on a message that nobody put there.           *)
NoPhantomMarks == part = "reactions" => Reaction!NoPhantomMarks

(* outbox.ts: what the user was promised to be sent is sent or kept.        *)
PromisedIsKept == part = "outbox" => Queue!PromisedIsKept

(* useFileBlobUrl.ts: what was opened stays open.                           *)
OpenedStays == part = "files" => File!OpenedStays

(* favoritesStore.ts, plaintextCache.ts: the notes of a profile, and the    *)
(* texts it sent, are kept.                                                 *)
KeptInPlain == part = "notes" => Note!KeptInPlain

(* keyVerification.ts, SafetyNumberModal.tsx: no key is used unseen, and    *)
(* both users see one number.                                               *)
KeysAreTrusted == part = "keys" => Trust!KeysAreTrusted

(* ServerBootOverlay.tsx, config.ts: the relay in use is a proven one. Its  *)
(* neighbours: host.rs, a tunnel that is open is one the app knows of;      *)
(* push.ts, routes/push.py: who wants notices stays subscribed.             *)
RelaysServe ==
    /\ part = "boot" => Boot!RelayIsSound
    /\ part = "host" => Host!TunnelsAreRun
    /\ part = "push" => Notice!StaysSubscribed
===============================================================================
