-------------------------------- MODULE KeyTrust --------------------------------
(***************************************************************************)
(* What a client makes of the keys of the one it talks to                  *)
(* (services/keyVerification.ts, pages/ChatPage.tsx, SafetyNumberModal):   *)
(* the key the relay gives out reaches it with the list of chats; opening  *)
(* a chat takes a copy and compares it with the key known so far; a        *)
(* handshake uses the copy. The peer may replace its encryption key        *)
(* (server/routes/auth.py: rotate_key), never its signing key. Keys are    *)
(* numbers.                                                                *)
(***************************************************************************)
EXTENDS Naturals, Sequences

CONSTANTS
    MaxKeys,    \* encryption keys of the peer
    MaxFrames,  \* key_changed notices under way
    None

VARIABLES
    key,        \* the peer's key at the relay
    frames,     \* key_changed notices on their way to the client
    loading,    \* loadChats: the key its answer has
    list,       \* the key in the list of chats
    selected,   \* the open chat: the copy of the key, and how it was opened
    known,      \* known_public_keys
    warning,    \* the warning on the screen
    told,       \* keys the user was told of
    session,    \* the key the session of the chat was made with
    used,       \* handshakes: the key, and how the chat had been opened
    number      \* the safety number each of the two sees, and whether the relay was reached

trustVars == <<key, frames, loading, list, selected, known, warning, told, session, used, number>>

Me == MaxKeys + 1       \* the signing keys of the two
Peer == MaxKeys + 2

Init ==
    /\ key = 1 /\ frames = <<>> /\ loading = None /\ list = None /\ selected = None
    /\ known = None /\ warning = None /\ told = {} /\ session = None /\ used = {}
    /\ number = [x \in {Me, Peer} |-> None]

-----------------------------------------------------------------------------
(* rotate_key: the contacts are told, those that are connected.             *)
RotateKey ==
    /\ key < MaxKeys /\ key' = key + 1
    /\ \/ Len(frames) < MaxFrames /\ frames' = Append(frames, key + 1)
       \/ UNCHANGED frames
    /\ UNCHANGED <<loading, list, selected, known, warning, told, session, used, number>>

(* loadChats: the list is replaced, the open chat is not. Mutant: it is.    *)
LoadChats ==
    /\ loading = None /\ loading' = key
    /\ UNCHANGED <<key, frames, list, selected, known, warning, told, session, used, number>>

ChatsLoaded_Reopens ==
    /\ loading # None /\ loading' = None /\ list' = loading
    /\ selected' = IF selected = None THEN None ELSE [selected EXCEPT !.key = loading]
    /\ UNCHANGED <<key, frames, known, warning, told, session, used, number>>

ChatsLoaded ==
    /\ loading # None /\ loading' = None /\ list' = loading
    /\ UNCHANGED <<key, frames, selected, known, warning, told, session, used, number>>

-----------------------------------------------------------------------------
(* checkKeyStatus: a key is new, changed or as before, and is known from    *)
(* now on. Nothing ever calls markKeyVerified.                              *)
KeyStatus(k) == IF known = None THEN "new" ELSE IF known # k THEN "changed" ELSE "unknown"

(* handleSelectChat.                                                        *)
SelectChat ==
    /\ list # None
    /\ LET status == KeyStatus(list) IN
       /\ warning' = IF status = "unknown" THEN None ELSE status
       /\ told' = IF status = "unknown" THEN told ELSE told \cup {list}
    /\ known' = list /\ selected' = [key |-> list, checked |-> TRUE]
    /\ UNCHANGED <<key, frames, loading, list, session, used, number>>

(* The shortcuts to the next chat and a found message open it as it is in   *)
(* the list, handleStartChat and handleCreateChat as the relay gives it,    *)
(* without a look at the key.                                               *)
OpenedBeside ==
    /\ \/ list # None /\ selected' = [key |-> list, checked |-> FALSE]
       \/ selected' = [key |-> key, checked |-> FALSE]
    /\ UNCHANGED <<key, frames, loading, list, known, warning, told, session, used, number>>

CloseChat ==
    /\ selected # None /\ selected' = None
    /\ UNCHANGED <<key, frames, loading, list, known, warning, told, session, used, number>>

DismissWarning ==
    /\ warning # None /\ warning' = None
    /\ UNCHANGED <<key, frames, loading, list, selected, known, told, session, used, number>>

-----------------------------------------------------------------------------
(* The notice drops the session (invalidateSessionsForUser).                *)
KeyChanged ==
    /\ frames # <<>> /\ frames' = Tail(frames)
    /\ session' = None
    /\ UNCHANGED <<key, loading, list, selected, known, warning, told, used, number>>

(* handleSend: without a session, a handshake with the key of the open chat.*)
Send ==
    /\ selected # None /\ session = None
    /\ session' = selected.key /\ used' = used \cup {selected}
    /\ UNCHANGED <<key, frames, loading, list, selected, known, warning, told, number>>

(* removeSession, at a message that does not open.                          *)
SessionRemoved ==
    /\ session # None /\ session' = None
    /\ UNCHANGED <<key, frames, loading, list, selected, known, warning, told, used, number>>

-----------------------------------------------------------------------------
(* generateSafetyNumber: over the two keys, the smaller first.              *)
SafetyNumber(mine, theirs) == IF mine < theirs THEN <<mine, theirs>> ELSE <<theirs, mine>>

(* The dialog, at either: the own signing key and that of the other from    *)
(* the relay; when the relay is not reached, the key the caller has, which  *)
(* is the encryption key.                                                   *)
ShowNumber(x) ==
    /\ LET other == IF x = Me THEN Peer ELSE Me IN
       \/ number' = [number EXCEPT ![x] = [digits |-> SafetyNumber(x, other), reached |-> TRUE]]
       \/ /\ x = Me /\ selected # None
          /\ number' = [number EXCEPT ![x] =
                          [digits |-> SafetyNumber(x, selected.key), reached |-> FALSE]]
    /\ UNCHANGED <<key, frames, loading, list, selected, known, warning, told, session, used>>

-----------------------------------------------------------------------------
Next ==
    \/ RotateKey \/ LoadChats \/ ChatsLoaded
    \/ SelectChat \/ OpenedBeside \/ CloseChat \/ DismissWarning
    \/ KeyChanged \/ Send \/ SessionRemoved
    \/ \E x \in {Me, Peer} : ShowNumber(x)

Spec == Init /\ [][Next]_trustVars

-----------------------------------------------------------------------------
(* Property: a chat opened from the list seals only for a key the user was  *)
(* told of as new or changed when it came up (ChatPage.tsx:516-524), and    *)
(* two honest parties that both reach the relay see the same safety number, *)
(* whenever each of them looks (e2e.ts:147-153).                            *)
KeysWereShown == \A use \in used : use.checked => use.key \in told
NumbersAgree ==
    (\A x \in {Me, Peer} : number[x] # None /\ number[x].reached)
        => number[Me].digits = number[Peer].digits

KeysAreTrusted == KeysWereShown /\ NumbersAgree

(* Claimed by e2e.ts:620-621, and not so: after the notice that the peer    *)
(* has a new key the next message is sealed for the key of the notice or a  *)
(* newer one. A chat that is open keeps the copy with the old key.          *)
NewKeyIsUsed ==
    [][\A k \in 1 .. MaxKeys : KeyChanged /\ Head(frames) = k /\ selected # None
          => selected.key >= k]_trustVars

(* Claimed by SafetyNumberModal.tsx:31-36, and not so: a dialog opened      *)
(* while the relay is away shows the number too.                            *)
NumbersAgreeOffline ==
    (\A x \in {Me, Peer} : number[x] # None) => number[Me].digits = number[Peer].digits

-----------------------------------------------------------------------------
(* What both follow from: the user was told of the key known last and of    *)
(* that of a chat opened from the list, and a number made of the two keys   *)
(* of the relay is the same for both.                                       *)
TrustInv ==
    /\ known # None => known \in told
    /\ selected # None /\ selected.checked => selected.key \in told
    /\ KeysWereShown
    /\ number = [x \in {Me, Peer} |-> number[x]]
    /\ \A x \in {Me, Peer} :
          number[x] # None /\ number[x].reached => number[x].digits = SafetyNumber(Me, Peer)
=================================================================================
