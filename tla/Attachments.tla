----------------------------- MODULE Attachments -----------------------------
(***************************************************************************)
(* Files in a chat, on their way out (useChatActions.ts:                   *)
(* handleSendAttachment) and back (hooks/useFileBlobUrl.ts,                *)
(* services/blobManager.ts): the bytes are sealed with a key of their own, *)
(* which goes with the message (services/fileE2E.ts), and every bubble on  *)
(* screen turns its file into an object URL. The relay's side of the files *)
(* is in Files.                                                            *)
(***************************************************************************)
EXTENDS Naturals, Sequences, SequencesExt

CONSTANTS
    Files, Bubbles,
    Capacity,       \* MAX_CACHED
    MaxUrls,        \* bound on the object URLs that are made
    NoUrl

VARIABLES
    outgoing,       \* each file: where handleSendAttachment is with it
    relay,          \* what the relay stores of it: "nothing", "sealed", "clear"
    keyed,          \* the files whose message carries their key
    bubble,         \* each bubble: [file, step, url]; url is the effect's objectUrl
    shown,          \* what the bubble was given to show: <<>>, or <<url, what is in it>>
    urls, made,     \* the object URLs that are not revoked, those made so far
    cache,          \* blobManager: <<file, url, what>>, least recently used first
    inflight        \* files that are being fetched for the cache

sendVars == <<outgoing, relay, keyed>>
viewVars == <<bubble, shown, urls, made, cache, inflight>>
attachmentVars == <<sendVars, viewVars>>

Away == [file |-> NoUrl, step |-> "away", url |-> NoUrl]
NoBlob == <<>>

Init ==
    /\ outgoing = [f \in Files |-> "none"] /\ relay = [f \in Files |-> "nothing"] /\ keyed = {}
    /\ bubble = [b \in Bubbles |-> Away] /\ shown = [b \in Bubbles |-> NoBlob]
    /\ urls = {} /\ made = 0 /\ cache = <<>> /\ inflight = {}

-----------------------------------------------------------------------------
(* Out. When the bytes cannot be sealed they go as they are.                *)

Moves(f, from, to) == outgoing[f] = from /\ outgoing' = [outgoing EXCEPT ![f] = to]

Seal(f) == Moves(f, "none", "sealed") /\ UNCHANGED <<relay, keyed, viewVars>>
SealFails(f) == Moves(f, "none", "clear") /\ UNCHANGED <<relay, keyed, viewVars>>
Upload(f) ==
    /\ outgoing[f] \in {"sealed", "clear"}
    /\ outgoing' = [outgoing EXCEPT ![f] = "uploaded"]
    /\ relay' = [relay EXCEPT ![f] = outgoing[f]]
    /\ UNCHANGED <<keyed, viewVars>>

(* The caption is encrypted and the key put next to it; the message is      *)
(* sent. A failure leaves the bytes on the relay and gives the file up.     *)
SendMessage(f) ==
    /\ Moves(f, "uploaded", "sent")
    /\ keyed' = IF relay[f] = "sealed" THEN keyed \cup {f} ELSE keyed
    /\ UNCHANGED <<relay, viewVars>>
SendFails(f) ==
    /\ outgoing[f] \in {"sealed", "clear", "uploaded"}
    /\ outgoing' = [outgoing EXCEPT ![f] = "failed"]
    /\ UNCHANGED <<relay, keyed, viewVars>>

(* handleEditMessage: the new caption replaces what held the key.           *)
EditCaption(f) ==
    /\ outgoing[f] = "sent" /\ f \in keyed /\ keyed' = keyed \ {f}
    /\ \A b \in Bubbles : bubble[b].file # f    \* a bubble on screen would start again
    /\ UNCHANGED <<outgoing, relay, viewVars>>

-----------------------------------------------------------------------------
(* Back: the effect of one bubble. "left" is a run whose bubble has gone.   *)

Runs(b, step) == bubble[b].step = step
Step(b, step) == [bubble EXCEPT ![b].step = step]
Mine(b) == bubble[b].file
Cached(f) == \E i \in DOMAIN cache : cache[i][1] = f
Place(f) == CHOOSE i \in DOMAIN cache : cache[i][1] = f      \* a Map: one for a file
Read(f) == cache[Place(f)]
Others(f) == RemoveAt(cache, Place(f))
What(f) == IF relay[f] = "sealed" THEN "cipher" ELSE "plain"

Mount(b, f) ==
    /\ Runs(b, "away") /\ outgoing[f] = "sent"
    /\ bubble' = [bubble EXCEPT ![b] =
            [file |-> f, step |-> IF f \in keyed THEN "open" ELSE "plain", url |-> NoUrl]]
    /\ UNCHANGED <<sendVars, shown, urls, made, cache, inflight>>

(* A URL of the bubble's own. Mutant: it is shared through the cache.       *)
Opened_Shared(b) ==
    /\ Runs(b, "open")
    /\ IF Cached(Mine(b))
       THEN /\ bubble' = [Step(b, "done") EXCEPT ![b].url = Read(Mine(b))[2]]
            /\ shown' = [shown EXCEPT ![b] = <<Read(Mine(b))[2], "plain">>]
            /\ UNCHANGED <<urls, made, cache>>
       ELSE /\ made < MaxUrls /\ made' = made + 1 /\ urls' = urls \cup {made + 1}
            /\ bubble' = [Step(b, "done") EXCEPT ![b].url = made + 1]
            /\ shown' = [shown EXCEPT ![b] = <<made + 1, "plain">>]
            /\ cache' = Append(cache, <<Mine(b), made + 1, "plain">>)
    /\ UNCHANGED <<sendVars, inflight>>
Opened(b) ==
    /\ bubble[b].step \in {"open", "left open"}
    /\ made < MaxUrls /\ made' = made + 1 /\ urls' = urls \cup {made + 1}
    /\ IF Runs(b, "open")
       THEN /\ bubble' = [Step(b, "done") EXCEPT ![b].url = made + 1]
            /\ shown' = [shown EXCEPT ![b] = <<made + 1, "plain">>]
       ELSE bubble' = [bubble EXCEPT ![b] = Away] /\ UNCHANGED shown     \* never revoked
    /\ UNCHANGED <<sendVars, cache, inflight>>

(* No key for us, a failed fetch: what the relay has is shown.              *)
OpenFails(b) ==
    /\ bubble[b].step \in {"open", "left open"}
    /\ bubble' = Step(b, IF Runs(b, "open") THEN "plain" ELSE "left plain")
    /\ UNCHANGED <<sendVars, shown, urls, made, cache, inflight>>

(* getOrCreateBlobUrl: the cached URL, the fetch under way, or a new one.   *)
GetOrCreate(b) ==
    /\ bubble[b].step \in {"plain", "left plain"}
    /\ IF Cached(Mine(b))
       THEN /\ cache' = Append(Others(Mine(b)), Read(Mine(b))) /\ UNCHANGED inflight
            /\ IF Runs(b, "plain")
               THEN /\ bubble' = [Step(b, "done") EXCEPT ![b].url = Read(Mine(b))[2]]
                    /\ shown' = [shown EXCEPT ![b] = <<Read(Mine(b))[2], Read(Mine(b))[3]>>]
               ELSE bubble' = [bubble EXCEPT ![b] = Away] /\ UNCHANGED shown
       ELSE /\ bubble' = Step(b, IF Runs(b, "plain") THEN "fetch" ELSE "left fetch")
            /\ inflight' = inflight \cup {Mine(b)} /\ UNCHANGED <<cache, shown>>
    /\ UNCHANGED <<sendVars, urls, made>>

Waits(b, f) == Mine(b) = f /\ bubble[b].step \in {"fetch", "left fetch"}

(* One fetch serves all that wait; the oldest entry goes, its URL with it.  *)
Fetched(f) ==
    /\ f \in inflight /\ inflight' = inflight \ {f}
    /\ made < MaxUrls /\ made' = made + 1
    /\ LET kept == Append(cache, <<f, made + 1, What(f)>>)
       IN  IF Len(kept) > Capacity
           THEN cache' = Tail(kept) /\ urls' = (urls \cup {made + 1}) \ {kept[1][2]}
           ELSE cache' = kept /\ urls' = urls \cup {made + 1}
    /\ bubble' = [b \in Bubbles |->
            IF ~Waits(b, f) THEN bubble[b]
            ELSE IF Runs(b, "fetch") THEN [file |-> f, step |-> "done", url |-> made + 1]
            ELSE Away]
    /\ shown' = [b \in Bubbles |->
            IF Waits(b, f) /\ Runs(b, "fetch") THEN <<made + 1, What(f)>> ELSE shown[b]]
    /\ UNCHANGED sendVars
FetchFails(f) ==        \* a URL of the relay with a token of one minute
    /\ f \in inflight /\ inflight' = inflight \ {f}
    /\ bubble' = [b \in Bubbles |->
            IF ~Waits(b, f) THEN bubble[b]
            ELSE IF Runs(b, "fetch") THEN [bubble[b] EXCEPT !.step = "done"] ELSE Away]
    /\ UNCHANGED <<sendVars, shown, urls, made, cache>>

(* The clean-up revokes the URL the run got, whoever else has it.           *)
Unmount(b) ==
    /\ bubble[b].step \in {"open", "plain", "fetch", "done"}
    /\ bubble' = [bubble EXCEPT ![b] =
            CASE Runs(b, "open") -> [@ EXCEPT !.step = "left open"]
              [] Runs(b, "plain") -> [@ EXCEPT !.step = "left plain"]
              [] Runs(b, "fetch") -> [@ EXCEPT !.step = "left fetch"]
              [] OTHER -> Away]
    /\ shown' = [shown EXCEPT ![b] = NoBlob]
    /\ urls' = urls \ {bubble[b].url}
    /\ UNCHANGED <<sendVars, made, cache, inflight>>

-----------------------------------------------------------------------------
Next ==
    \/ \E f \in Files :
        \/ Seal(f) \/ SealFails(f) \/ Upload(f) \/ SendMessage(f) \/ SendFails(f)
        \/ EditCaption(f) \/ Fetched(f) \/ FetchFails(f)
    \/ \E b \in Bubbles :
        \/ \E f \in Files : Mount(b, f)
        \/ Opened(b) \/ OpenFails(b) \/ GetOrCreate(b) \/ Unmount(b)

Spec == Init /\ [][Next]_attachmentVars

-----------------------------------------------------------------------------
(* What a bubble opened with a key stays readable while the bubble is       *)
(* there, however many others show the file, come and go.                   *)
OpenedStays ==
    \A b \in Bubbles : bubble[b].file \in keyed /\ shown[b] # NoBlob /\ shown[b][2] = "plain" =>
        shown[b][1] \in urls

(* blobManager.ts:1-9: a stable URL for each file with "revoke safety".     *)
(* FALSE of the code: a bubble that goes revokes the URL of the others.     *)
ShownIsLive == \A b \in Bubbles : shown[b] # NoBlob => shown[b][1] \in urls

(* useChatActions.ts:296-297: "true E2E - the bytes are encrypted; the      *)
(* relay stores ciphertext only". FALSE of the code, see SealFails.         *)
RelayHasCiphertext == \A f \in Files : relay[f] # "clear"

-----------------------------------------------------------------------------
(* What OpenedStays follows from: what is on the relay of a file that was   *)
(* sent stays what it is; a file with a key is only ever fetched as         *)
(* ciphertext; so a bubble that shows it in plain has a URL of its own,     *)
(* which no other bubble revokes and the cache does not have.               *)
Sent == {f \in Files : outgoing[f] = "sent"}
Entries == {<<f, u, What(f)>> : f \in Sent, u \in 1..made}
Views == [file : Files \cup {NoUrl}, url : Nat \cup {NoUrl},
          step : {"away", "open", "plain", "fetch", "done", "left open", "left plain", "left fetch"}]

HasOwnUrl(b) ==
    bubble[b].file \in keyed /\ shown[b] # NoBlob /\ shown[b][2] = "plain" =>
        LET own == shown[b][1] IN
        /\ own \in urls /\ own \in 1..made /\ bubble[b].url = own
        /\ \A o \in Bubbles \ {b} : bubble[o].url # own
        /\ \A i \in DOMAIN cache : cache[i][2] # own

AttachmentInv ==
    /\ made \in Nat /\ keyed \subseteq {f \in Sent : relay[f] = "sealed"}
    /\ outgoing = [f \in Files |-> outgoing[f]] /\ relay = [f \in Files |-> relay[f]]
    /\ bubble \in [Bubbles -> Views] /\ shown = [b \in Bubbles |-> shown[b]]
    /\ inflight \subseteq Sent /\ cache \in Seq(Entries)
    /\ \A b \in Bubbles :
          /\ bubble[b].file \in Sent \cup {NoUrl} /\ bubble[b].url \in 1..made \cup {NoUrl}
          /\ bubble[b].step # "away" => bubble[b].file # NoUrl
          /\ bubble[b].step # "done" => shown[b] = NoBlob
          /\ HasOwnUrl(b)
=============================================================================
