# NurChat: a formal model of the relay and its client

NurChat is an end-to-end encrypted messenger: a FastAPI relay (`server/`), a
React client (`frontend/src/`) that runs in a browser or in a Tauri shell
(`src-tauri/`), and scripts around them. The relay is one asyncio event loop
that keeps live sockets, calls in progress and database rows; the clients keep
ratchet states, secrets, caches and queues. What can go wrong here is mostly an
order of steps nobody wrote a test for, and that is what the modules in this
directory are about.

All paths are relative to the repository (`src/` in PROJECT.json); client paths
are relative to `frontend/src/`.

## 1. Inventory

| Component | State | Operations | Hard because | Correct when |
|---|---|---|---|---|
| Call signalling, `server/ws/signaling.py`, `routes/calls.py` | `active_calls`, `user_calls`, `call_websockets`, buffers, `CallLog` rows | connect and flush, request, join, accept, reject, timeout, end, relay, disconnect, REST end | every handler awaits between its checks and its changes; two routes to accept; restarts | an id is answered once, only while it rings; nobody stays busy with a dead call; a caller learns of the acceptance |
| Call page, `pages/CallPage.tsx` | status, timers, socket, peer connection | dial, ring, accept, negotiate, end | timers against late frames, reconnects, permission dialogs | a called page stops ringing |
| Chat connections, `server/ws/chat_manager.py` | `active_connections`, `user_chats`, `chat_users`, `is_online`, tasks | connect, disconnect, broadcast, personal sends, new message, token check | broadcasts iterate over a live set with an await per member; reconnects race with failing sends | what is acknowledged was sent to all there; indexes, rows and sockets agree |
| Chat socket of the client, `hooks/useChatSocket.ts`, `services/wsAuth.ts` | sockets, timers, token | open, close, reject, wake up, refresh | every socket reconnects for itself | a page that stays gets a socket again |
| 1:1 encryption, `services/doubleRatchet.ts`, `services/e2e.ts` | session per chat, cache, stored copy | set-up, encrypt, decrypt, rotate, persist, load | awaits inside crypto calls, turns, reloads, envelopes overtaken or again | a key names its envelope, roots never diverge, nothing late does harm |
| Sessions in storage, `services/e2e.ts`, `transferBundle.ts` | one record, memory of the page, bundle | persist, load, wipe, export, import | crossed writes, failing storage, two devices | no step leaves a device twice |
| Group encryption, `services/groupE2E.ts`, group-key routes | sealed key and creator (relay); chain, step, skipped keys, lock (client) | set, fetch, wipe, encrypt, decrypt, clear | stale participant lists, late notices | steps are unique, who was removed cannot read on |
| Padding, `e2e.ts`, `groupE2E.ts`, `fileE2E.ts` | bytes | pad, unpad | bucket borders, three formats | what was written is read |
| Messages and retention, `routes/chat.py`, `core/background_tasks.py`, `utils/file_cleanup.py` | `Message`, `MessageReadStatus` rows | send, edit, delete, read, view once, schedule, expire, purge | two commits, a thread, announcements before the commit, a loop that fails | nothing goes while it is owed to somebody; announced once |
| Files, `routes/files.py`, `core/storage.py` | bytes, `File` rows, tokens | upload, attach, fetch, burn, clean up | bytes and rows change apart, in threads and jobs | bytes and rows go together |
| Contacts and groups, `routes/contacts_groups.py`, `contact_requests.py` | contacts, blocks, requests, invites, participants, admins, key creator | request, accept, block, invite, add, remove, leave, delete | two commits, several routes to one end | nobody is in by the wish of one side; keys end with their holders |
| Reactions, `routes/chat.py`, `useChatActions.ts` | rows, marks on screen | toggle, revert, refresh | optimistic marks against answers and frames | no mark nobody put there |
| Refresh tokens, `routes/auth.py`, `utils/security.py`, `services/api.ts`, `refreshSync.ts`, `tokenVault.ts` | revoked ids, `tokens_valid_after`; token and lock of a browser profile | rotate, detect reuse, revoke, log out everywhere | several tabs, lost answers, restarts | one live token per sign-in; revoked stays revoked |
| Accounts, `routes/auth.py`, `routes/webauthn.py`, `utils/captcha.py` | second factors, codes, passkeys, challenges, failures | log in, set up, remove, guess | challenges and codes used once; a captcha awaited in between | no session before the second factor; guesses bounded |
| Pre-keys, `routes/keys.py`, `e2e.ts` | signed and one-time pre-keys | make, upload, heal, claim | two makers, two askers | a one-time key goes to one; the signed one can be answered |
| Identity and device secrets, `secureStorage.ts`, `e2e.ts`, `LoginPage.tsx` | records, passphrase, legacy keys | migrate, register, rewrap | closes and failures between two writes | the identity survives; the PIN opens every record |
| PIN lock, `pinLock.ts`, `PinLock.tsx`, `AuthGuard.tsx` | attempts, lock-out, pads | type, check, lock | checks in flight, two tabs, reloads | a lock-out holds |
| Profiles and login, `profiles.ts`, `localSession.ts`, `LoginPage.tsx`, `chatStore.ts` | profiles, namespaces, keys, tokens, chat list | sign in, register, switch, move, log out | one browser, several accounts and relays | keys, token and list are the session's own |
| Chat on screen, `ChatPage.tsx`, `useChatMessages.ts`, `useChatSocket.ts`, `drafts.ts` | rows shown, input, drafts | open, load, append, delete, sync, send | answers for a chat that is no longer open | right chat, every row once |
| Outbox, `services/outbox.ts` | encrypted list | queue, flush, remove, count | load-modify-save with awaits, no lock | what was promised is sent or kept |
| Attachments, `useChatActions.ts`, `useFileBlobUrl.ts`, `blobManager.ts` | URLs with counts, loads in flight | upload, open, evict, revoke | release against reuse | what was opened stays open |
| Notes in plain, `favoritesStore.ts`, `plaintextCache.ts` | favourites, own texts | write, remove, cap | tabs, profiles, a cap | newest are kept, per profile |
| Trust in keys, `keyVerification.ts`, `ChatPage.tsx`, `SafetyNumberModal.tsx` | known key, copies, warning | load, open, compare, rotate | stale copies | no key is used unseen |
| Push, `services/push.ts`, `routes/push.py`, `ws/notifications.py` | endpoints, rows | subscribe, renew, push, drop | renewal against delivery | who subscribed stays subscribed |
| Choice of a relay, `config.ts`, `ServerBootOverlay.tsx`, `LoginPage.tsx` | saved and resolved address, probes | probe, poll, choose, reset, link | probes in flight, reloads | a saved relay is proven, a session stays at its relay |
| Host mode, `src-tauri/src/host.rs`, `HostModePanel.tsx`, `routes/host.py` | generation, run, tunnel process | start, stop, restart, close registration | starts and stops overlap | no tunnel nobody runs |
| Bus and Redis, `ws/bus.py`, `core/redis_manager.py` | channels, presence keys | publish, subscribe | several instances | (not modelled) |

The parts interact as follows. A client signs in (Accounts), keeps its token
(Refresh tokens), publishes keys (Pre-keys, Identity) and opens a chat socket
(Chat socket, Chat connections). A message goes from the screen through the
ratchet (1:1 or group) and the padding to the route that stores it (Messages),
from there as a broadcast to the sockets, and back onto a screen; what cannot be
sent waits in the Outbox. Calls take the same sockets plus one of their own
(Signalling, Call page). Membership routes touch the connection
indexes, the group key and what the purge counts. The models cut these chains
where one part only sees the result of another; every cut is named in the
header of the module.

PROJECT.json lists the parts with their status and, under `hazards`, the places
where each of these difficulties bites.

## 2. Modules

| Module | What it is |
|---|---|
| `CallSignaling`, `CallLifecycle`, `CallSignalingProofs` | the call manager, one action per handler segment between two awaits; the abstract life of a call id, which it implements; theorems |
| `WsConnections`, `WsConnectionsProofs` | connection manager and socket handler for one chat; theorems |
| `DoubleRatchet`, `DoubleRatchetProofs`, `SessionStore` | two clients of one 1:1 chat with symbolic keys; theorems about them; the stored record of the sessions of a device, its moves and its losses |
| `GroupRatchet`, `GroupRatchetProofs` | a group chat: the relay's sealed key, every client's chain and lock; theorems |
| `Messages`, `Mailbox` | the rows of a chat from their two commits to the purge; the abstract mailbox they implement |
| `Edits`, `Files`, `ContactsGroups` | the other rows: edits and their history, an attached file, contacts, requests and blocks, who is in a group |
| `RowsProofs` | theorems about all of these |
| `RefreshTokens`, `Accounts`, `Lockout` | tokens of one account in several tabs; signing in with second factors; failed guesses |
| `Identity`, `Keystore`, `PinGate`, `PreKeys`, `Profiles` | what a device keeps: identity, encrypted records, PIN pad, pre-keys, accounts |
| `DeviceProofs` | theorems about these two rows and `SessionStore`: what `MCDevice` composes |
| `ChatView`, `Timeline`, `Reactions`, `Outbox`, `Attachments`, `Notes`, `KeyTrust`, `Padding` | what the client shows and sends |
| `ChatSocket`, `CallPage` | the client's ends of the two kinds of sockets |
| `Push`, `ServerBoot`, `HostMode` | notices, the choice of a relay, the published relay |
| `ScreenProofs`, `TimelineProofs` | theorems about what the client shows and the three above; those about `Timeline` are apart |
| `MC...` | the compositions and instances TLC checks |

`MCRows`, `MCDevice`, `MCScreen` and `MCClient` hold several components that
share no state in these models: `part` chooses one at the start, so that the
run is the union of the runs of its parts and each property speaks of its own
part. `MCDoubleRatchet` and `MCWsConnections` do the same with two instances of
one module.

### CallSignaling

The event loop runs one coroutine at a time. `task[t]` is the coroutine of
signalling socket `t`, or (`<<u, 0>>`) whatever else runs for user `u` and
reaches the manager: a frame on the chat socket or a REST request. `loop` names
the coroutine that is running; when it is `None` the loop may resume any
suspended one. A handler is split exactly at its awaits, the sends to a
registered socket and the notifications, and a send to a user without a socket
does not suspend (it buffers). `CallRequest`, `CallJoin`, `CallAccept`,
`CallReject`, `CallTimeout`, `CallEndFrame`, `RestEndCall` are the handlers up
to their first await; `RequestSent`, `JoinSent`, `AcceptSent`, `Notify`,
`EndSent` what follows. `Drop` and `HandleDisconnect` are a socket that raises,
`LeaveLoop` the breaks of its loop, `Connect`, `FlushEntry`, `FlushBreak` a
registration and the replay of buffered frames (an expired prefix of them is
discarded), `Restart` a new process. `got` and `told` are history variables.

### WsConnections

One chat, one instance. `active`, `listed`, `indexed` are `active_connections`,
`user_chats` and `chat_users` restricted to that chat, `members` and `online`
the database. A *cast* is a coroutine in the middle of a broadcast: over the
live set `chat_users` for messages (`broadcast_local` iterates over the set
itself, so that a change of its size raises, as Python does), over a list for
announcements. Messages, announcements and offline tasks are casts; `SendEnds`
finishes one send, with `disconnect` if it failed. `Arrive` and `Register` are
the two halves of `connect` around its awaits. The routes that change the
members are `Join`, `DeleteChat`, which maintain the indexes, and
`AddParticipant`, `RemoveParticipant`, which do not; `behind` is a history
variable with the users whose row has been changed behind the indexes' back
and who have not connected since.

### DoubleRatchet and SessionStore

Keys are symbolic: a root key is the sequence of DH results mixed into it, a
chain key the pair of a root and a step, so two parties have the same key
exactly if they mixed the same DH results. `heap[u]` holds the session objects
of a client (a suspended call keeps using the object it began with, although
the cache may hold another one), `stored` the persisted copy, `op` the
suspended calls. `SendStart`, `BundleAnswer`, `SendRatchet`, `SendKey` are
`encryptMessage` between its awaits, `RecvStart`, `RecvBob`, `RecvDh`,
`RecvChain` `decryptMessage`, `Reload` a page reload, which keeps what was
persisted and kills suspended calls. `fate` says what became of each envelope.
There a session is persisted as the code means it to be; `SessionStore` is about
that: one record for all chats, `use` the sends between drawing a step and
having it written, `saves` the writes under way, `odd` the ways in which a good
session is lost (a failed or overtaken write, a wipe, a fork by export).

### GroupRatchet

A group key is a number, a message key a pair of key and step: all chains
start from the group key itself. `job[u][s]` is a call in progress: it fetches
the key (`KeyAnswer`, which may fail for reasons the client swallows), makes
one if there is none and it wants to send (`InitGroupKey`, sealed for the
participants the client last loaded), queues for the lock of the chat, reads
the state (`Enter`) and, after the digests, writes it (`Encrypt`, `Decrypt`).
The loop over the history goes on with the key it fetched first. The routes
wipe the key or do not, as in the code; `Rotated` is the notice that clears the
chain, without the lock.

### Messages and Mailbox

`rows[m]` is a row with its read statuses; time is four marks on it (older than
the retention, grace after a fetch over, expired, due) that may each pass at any
moment. Handlers block the loop while they use the database, so that each is one
step, except that sending commits twice (`Store`, `Statuses`, `StatusesFail`;
`sending` is the row in between). The history route is a plain `def` and runs in
a thread: `FetchHistory` reads a page, `StampDelivered` counts the members and
stamps what it read, whatever happened in between. A tick of the background
loop awaits a broadcast per row and commits after the last one (`StartTick`,
`Announce`, `CommitTick`, `TickFails`), and ends with the purge. `since` and
`served` are history: who has been there all along, who has got the message.
`Mailbox` has three phases of a message, the users it is owed to and the
messages the relay is free of; `Messages!Promise` maps `Owed` and `Released` to
them.

### The client's modules

Each has the state of one hook, service or page and a step from one await to
the next. A request in flight is a value of a variable (`load`, `use`, `ask`,
`flush`, `probes`, `run`), its answer a step that may come when the state has
changed; a lost answer, a failed write and a reload are steps too. Where the
code has an order of steps it does not handle, a history variable names it
(`strayed`, `jumped`, `raced`, `crossed`, `mixed`, `odd`, `overtaken`,
`doubled`, `unsaved`, `doubt`, `cut`, `outlived`, `wandered`, `spoilt`), the
property holds outside of it, and section 6 says what happens in it. What each
name covers is in the comment at the variable and at the step that sets it. In
`Timeline` a row is its place in the order of the relay, and a page of the history
is the live rows by their rank from the newest; opening a chat anew, with nothing
under way, ends what `raced` named.

`ContactsGroups` holds two components in one module, each with its own `Init`, `Next`
and variables: contacts (contacts, requests, blocks) and a group (participants,
invitees, the holder of the key). `MCRows` makes an instance for each.

## 3. Runs

Ten runs pass, one for each part of the system that is asked as a whole.

| Run | Question | Bounds, and why they are enough |
|---|---|---|
| `call_pair` | is a call accepted once, does its caller learn of it, are buffers empty while a socket is there | 2 users, 1 id, 2 signalling sockets and a chat socket each, 2 handlers suspended at once, a buffer of one frame: both accept routes, a replaced socket and a replay overlap pairwise |
| `call_triple` | busy index, history rows, refinement of `CallLifecycle` | 3 users, 2 ids, one handler suspended and others running: two calls share a user in either role |
| `call_restart` | a dropped socket ends the call of its user | 2 users, 1 id, 1 restart with buffers in Redis, the default minimal-metadata mode, fair scheduling |
| `ratchet` | does a key name its envelope, do two clients stay on one line, is a late envelope harmless | "turns": 4 envelopes each, 2 reloads: two full turns and a reload within any of them, with the windows of "late"; "late": 5 envelopes of one chain with both limits at 2, one delivered again, 1 reload: below, at and above the window |
| `ws` | what `message_delivered` stands for; recipients; the online flag | 3 members with a socket each, one message: a member before, at and after the failing send; 2 members, one with a reconnect, 2 changes of membership by any route |
| `group_chains` | the lock, the window, the creator, removed members | 2 members, one with 2 calls in progress, 2 messages and those in flight, 2 decryptions, a window of 2, 2 keys, 2 changes: removed and back by either route |
| `rows` | refinement of `Mailbox`, announcements, bytes and rows, memberships, edits | 3 users and one message with 2 changes and 1 failure (messages meet only in the loop, which treats each alike: the proofs are for any number); a file with 2 messages; 2 contacts; a group of 3; 4 edits with a history of 2 |
| `device` | PIN, identity, sessions, pre-keys, profiles, tokens, sign-in | 2 PINs, 2 tabs, 2 attempts; 2 identities and a crash anywhere; a chat of one device with 2 handshakes and a step of each, and one with a handshake, 2 steps and 2 writes under way; 3 signed pre-keys, 2 askers; 2 accounts on 2 relays with 3 sign-ins; 3 tokens of one of 2 tabs at a time with 2 restarts and 2 failures of the database, so that a revocation is undone, made again and undone again (with one of each, one more token for each *token* that was undone holds too, and is wrong); 2 tokens of 2 tabs; 3 sign-ins with a code, a passkey and 2 challenges; a lock-out after 3 guesses with 2 clients at once, an outage of Redis and a restart |
| `screen` | chat, timeline, marks, outbox, attachments, notes, keys, relays, texts | two of each kind of actor (chats, users, texts, tabs, files, probes): every hazard here is a race of two; `Padding` with buckets of 8, 6 and 12 bytes and texts of up to 6 bytes: below, at and above the border of each bucket and the limit of 5 |
| `client` | what must happen in the end | a page of a call in either role with 2 connections lost; 3 sockets of a page, 2 losses of the network, 1 wake-up; 1 message of 2 users with a failure |

The limits of the `ratchet` run are one crypto call at a time per client
(`Slots = 1`): the session has no lock and overlapping calls break it, see
section 6; "turns" has no late or repeated envelopes for the same reason.
Symmetry is over users, or over sets of which every member is alike, and never
in a run with a liveness property. Deadlock is not checked where every bound can
be used up.

Two runs end in a violation of what a test or a docstring says:

| Run | Says | Shows |
|---|---|---|
| `ratchet_rotation` | `test/conversation.test.ts:74`, rotation keeps working | after one reply, the envelope with the rotated key cannot be opened |
| `view_once_file` | `server/routes/chat.py:768`, the viewer is recorded for the download of the attachment | opening marks the message deleted, and no route hands out the file of a deleted message |

## 4. Fairness

- `call_restart`: `SF_vars(Continue(t))`, a coroutine that can run again and again
  runs. asyncio's ready queue is first-in first-out; a weak condition would not
  do because the loop is taken by others in between. An awaited send ends, with
  or without an exception; a socket that neither sends nor fails is closed by the
  transport.
- `client`, call page: weak fairness of the ringing timer (`RingEnds`) and of
  reading a socket that is open (`Receive`). Nothing is assumed of the user, the
  microphone, the peer or the relay.
- `client`, chat socket: weak fairness of the steps the browser takes by itself:
  the page mounts, a timer that is set fires, a socket that is opening is
  accepted, refused or closed and the close is reported, a refresh is answered
  in some way, and the network comes back (without it there is no socket).
  Wake-ups, losses and refusals are the environment's.
- `client`, rows: a handler that has committed once commits again or fails, the
  loop is never blocked for good (`BACKGROUND_LOOP_SECONDS`), and a row grows old
  and falls due. Readers, fetches and clean-up jobs may never come. Ticks may
  fail `MaxFails` times: the code goes on after each.

## 5. Proofs

Proved by TLAPS for every value of the constants that satisfies the `ASSUME`s:

- `CallSignalingProofs`. The inductive invariant is `TypeInv == TypeOK /\ LocalOK /\
  BufferOnlyWhileOffline`. `TypeOK` alone is not inductive: a continuation such as
  `AcceptSent` reads the call of its coroutine, so `LocalOK` says that a
  coroutine at such a label has one; and the buffer is empty while a socket is
  registered only because registering pops it in the same segment. One lemma per
  kind of step shows `LoopStep` and `TableStep`, what a step does to the loop and
  to the tables. `TypeCorrect` and `BufferedOnlyOffline` follow. A second
  abstraction, `TableChange`, lists the five things a step may do to the call
  tables (nothing, ring, answer, clean up one call, restart); `BusyIndexCorrect` and
  `SignalingImplementsLifecycle` are proved from it without looking at the
  handlers again. `CopyInv` gives `AcceptedOnce`: a `call-accepted` of an id exists once,
  in one of the boxes a frame can be in (a buffer, what a flush has left, a send) or
  at the caller, and not before the call was answered. It is kept because a flush
  takes the whole buffer before it sends and puts nothing back, and because what
  pushes a frame is the one step that leaves *ringing*. `ToldInv` gives `AnsweredIsTold`:
  an answered call was told or has a coroutine that will tell it or take it down;
  what can part a coroutine from its call is another one at the same await, hence
  the condition on the owner. `ForgottenAreLogged`, the action property, says of
  every step that it forgets a call only where the row is written, with the three
  exceptions it names.
- `DoubleRatchetProofs`. `OneEnvelopePerKey` holds for `Slots = 1`, the crypto calls of one
  client not overlapping: with two the property is false (section 6), so the
  hypothesis is the code's own. `KeyInv` says of a session, in memory or stored,
  that the root of its sending chain ends with the DH of the key it will name in
  the header (`EndsWith`), that its step is above every envelope of that key
  (`Sends`), and that a key not yet named is fresh (`Unnamed`); it ties what a
  suspended call has read to the session it read it from. That two clients never
  seal on one root is `Apart`: the root of a chain ends with the DH of a key its
  sender had not named before, that of the other with one he was named. A
  reload goes back to the stored session, which is the one that sent last, because
  `SendKey` persists.
  `ClientsStayTogether` and `LateEnvelopesAreHarmless` share one invariant, `ChatInv`, and
  the hypotheses `Instances(w)`, which an ordinary chat meets and without which the
  code does not keep the properties: calls of one client do not overlap (`Slots = 1`), the peer has
  a bundle and one client begins (two first messages build two sessions,
  section 6), no client sends more in "turns" than `KEY_ROTATION_INTERVAL` (a rotation within a
  turn breaks the chat, which is the run `ratchet_rotation`), and only `w` writes in
  "late". The numbers of envelopes, turns, reloads, repeats and the two windows are any.
  - In turns, two stored sessions are in one of three positions (`Pair`): the writer has
    greeted a peer without a session (`Greeted`), is a turn ahead of him (`Behind`), or
    writes on the chain they both have (`Abreast`). Each says what the envelopes not
    yet read are numbered and which root opens them. `AtWork` says of a suspended call
    how far the session in memory has come from the stored one: `Idle`, `Meeting`,
    `Turning`, `Sealing`, `Stepping`, `Unsealing`, by its await. So a reload at any await
    goes back to a position, and a step that stores goes on to one.
  - With late envelopes there is one chain. `LateWriter` says that the envelopes are
    numbered from 0 on the root the writer stored. `LateReader` follows it (`Follows`): every id
    that was seen, and every key that was kept, is behind the step of the chain, the
    kept ones apart from the seen; the chain stands right after an envelope that was
    read (`CaughtUp`), or will when the suspended call ends. `Harmless` follows from
    this: what is refused is behind the chain, and so behind that envelope, or more
    than `MaxSkipGap` ahead. A kept key is deleted by its place, as a `Map` does, and the
    oldest is evicted when there are too many.
- `WsConnectionsProofs`. `RegistryStep` abstracts `Next` to what it does to the
  registry. `OnlineInv` gives `OnlineFlagCorrect`. `IndexInv` adds to the two
  index properties that an unregistered user who is indexed is a listed member, as
  `DeleteChat` and a reconnect leave him; it gives `IndexesCorrect` and
  `BroadcastsCorrect`. `AckInv` follows a broadcast through its awaits: who was
  there from the start and is still registered (`stayed`) is in the live set, and
  those visited among them have been sent the message; an iteration that ends
  without an exception has a set of its original size, hence nobody unvisited.
  It gives `AcksCorrect`.
- `RowsProofs`, messages. That a purge takes nothing that is owed is not inductive: the
  purge looks at read statuses and a stamp, the promise speaks of who was given
  the message. `RowInv` ties them, a row at a time: whoever has been in the chat
  since a complete message was sent has it unread or was served; a stamp that
  is not in doubt means that he was served, because with two members who are
  the author and the reader there is no third; and nobody has been there who is
  not there. `FetchInv` says that a thread stamps only what it read. Every step
  but two is shown to be `Harmless`: to keep the types and the row invariant and
  to have an `Effect` on a message that `Mailbox` allows. The two that make the
  relay owe more, storing and joining, map to the steps of that name. `Doom` is
  the core: each of the three reasons to purge a row leaves nobody owed or sets
  the relay free. With `JobInv` and `SaidInv`, which count the announcements of a
  message that is waiting, `RelayTypes`, `RelayKeepsPromise` and
  `RelayAnnouncesOnce` follow.
- `RowsProofs`, the other rows. `MCRows` composes the components by `part`; a step of
  one leaves the variables of the others alone, so that each invariant needs the
  steps of its own part only. `FileInv` says what a step may rely on before anything
  has failed: which of bytes and row is there in the middle of an upload or a
  burning. `ContactInv` adds to the property that a pending request is the wish of
  its sender. `GroupInv` counts: an invitation is pending, being accepted (between
  the two commits) or used, one of them at a time, and who holds the key is
  somebody whose leaving wipes it. `EditInv` is stated entry by entry (`EndsAs`), since the
  trimmed history is a suffix of a sequence that grows at its end; two edits under
  way at once set `overtaken`. `BytesAndRow`, `MembersAreAsked` and `HistoryAndView`
  follow.
- `DeviceProofs`. `MCDevice` takes the bounds of its parts as constants; `DeviceAssumption`
  asks that `None`, and the name of the first namespace, are no values of the data, that
  the first device is one of the devices, and that two bounds are numbers. `PartSteps`:
  a step of `MCDevice` is one of the part that was chosen. The invariant of a part is
  at the end of its module, and TLC has checked each.
  - Tokens. How many are honoured now is not inductive: a restart forgets the list in
    memory and honours more. `Live` counts what is honoured now or after a restart;
    `LiveBound` bounds it by the logins and the revocations a failure has undone, and
    `MemoryIsKept` says that a token revoked in memory only is one of those. A
    rotation takes one live token, or one it counts as undone, for the one it issues
    (`OneForAnother`), which needs `DeviceOK`: a refresh presents a token that was
    issued. Everything else adds nothing to `Live` but what it counts
    (`NothingIssued`). `TokensInvariant`, `RotationLeavesOne`, `RevocationIsFinal` follow.
  - `PinsHold`: `KeystoreInv` says that between two changes of the PIN everything stored,
    or on its way, is under the key of the gate and every open page has it; and during
    one, step by step of `rewrap`, which records are under which key. Nothing is on
    its way then, because what is stored during a change is `spoilt`.
  - `IdentityStays`: `MoveOK` says that a move writes before it erases and that what can
    be moved is moved before there is a PIN; `AccountOK` that what the relay accepted
    is what is kept, as long as no registration was cut off and no move is left to
    overwrite it; `PinOK` that whoever writes has the passphrase of the PIN.
  - `PreKeysAreRight`: a one-time key that was claimed is in no pool and in one request
    (`ClaimedOnce`); one call at a time carries a new signed key, only while the device
    has none of its identity (`CarriedOnce`).
  - `SessionsAreOwn`: `ProfilesInv` ties, by the book, what is kept under a namespace to
    the account of its profile (`NamespacesHold`), the page to the active profile
    (`PageHolds`), the session to its token (`SessionHolds`) and the list to the session
    (`ListHolds`), with what a sign-in under way may still have to write or wipe.
  - `SessionsStay`: that a chain on the disk is past what has left the device is not
    inductive while writes are under way. `SessionsInv` says it of the memory and of
    every record, on the disk, in a bundle or in the queue of writes, each past what
    will have left when it lands (`Bounds`); writes land in order, so only the first
    one counts. `OneHome` says that one device has the account, until a bundle is a
    copy. With nothing odd, the session of every envelope is in all of them
    (`Keeps`). The steps are first reduced to three shapes: a call that adds one to a
    chain, a write that lands, a chat that is opened. `SessionStore` reads a chain and
    moves it on in one action, as one call of `encryptMessage` at a time does; calls
    that overlap in between are in `DoubleRatchet` and section 6.
  - `SignInsAreSafe`: `AccountInv` adds to the parts of the property that a challenge that was
    answered is neither the one that waits nor one to come. The lock-out needs more
    than a count: `LockInv` splits the guesses of each unit of time, and the
    registrations that wait, into those that the stored count has let in and those that
    an outage has cost (`Paid`), and bounds the former by the rounds of a window
    (`Rounds`): below the threshold, or one group at once after a lock that ran out, or
    two. The window is the three units `MCDevice` gives it; threshold, clients, outages
    and restarts are any.
- `GroupRatchetProofs`. `GroupInv` has a part per variable, each a conjunction over
  one chain, call, queue or message. `ChainOK` is what a chain keeps, proved of
  the three ways to move it (`ChainEncrypts`, `ChainRecalls`, `ChainAdvances`). That
  no step is drawn twice is not inductive: `Newest` adds that a chain, and the copy
  a working call has read, is past all its client has sent with it. What makes the
  copy stay so is the lock: `QueueOK` says that the working call is the head of the
  queue, so nobody else of that client writes. Clearing the chain does not take
  the lock; it can only make the next call start over. For the keys, the one on
  the relay is held by nobody removed, since a route that removes wipes it and a
  new one is above all in use; a call keeps that of the key it fetched, and
  its message after it. `GroupInvariant`, `StepsAlwaysHold` and `KeyAlwaysHolds`
  follow, for any members, calls, keys and changes of membership.

- `ScreenProofs`. The invariant of a component is stated at the end of its module
  and TLC has checked each. Eight properties of `MCScreen` follow:
  - `ChatRight`: `ViewInv` says that a draft, the input, the timer and the request are of
    the chat they are kept under, as long as every change of the chat is one of
    `handleSelectChat`.
  - `MarksReal`: a client without doubt has one request out at most; the marks it will
    show if that request fails are rows, its own in any case, those of the others
    when no frame is on its way; and the rows an answer brings are still there
    (`CertainOf`).
  - `KeysTrusted`: a key that is known, or that a chat was opened with, was told first;
    every number on screen is the number of both identities.
  - `RelaysSound`: `BootInv` is the property itself with the types of the addresses;
    `HostInv` says that, starts and stops not overlapping, one generation is not over,
    a live tunnel is its, and the slot has it once the address is known; `PushInv`
    that no endpoint found dead is the subscription's own.
  - `OpenedFilesStay`: `AttachmentInv` gives every bubble that opened a file with a key a
    URL that is in no cache entry and at no other bubble (`HasOwnUrl`). URLs are
    numbered, and the cache is a Map: removing an entry by its place keeps the others.
  - `PromisesKept`: `OutboxInv` follows a text from the answer the user was given through
    the copy of the queue that a change holds. What is loaded is what is stored,
    because without `crossed` no other change lies between load and save. That an id
    is above all that are in the queue comes from the maximum of a finite set, which
    is proved by well-foundedness: the library's induction is out of reach.
  - `ReadBackAsWritten`: `Framed` says what a frame is, the four bytes of the length, the
    text, a tail. It needs that the length is read back (`FourBytes`: the four quotients
    and remainders of a number below 2^32), that the bucket is long enough, and that
    an older format is either refused or looks like a frame. `LengthAssumption`
    bounds a file by what fits in the length; the relay takes 50 MB
    (`shared/config.py:154`).
  - `NotesAreKept`: `NotesInv` compares what is stored with the end of what is wanted,
    entry by entry. That removing a note keeps this needs `WantedOnce`: a note has a
    number of its own and is wanted in one place, so both lists lose the same entry
    or the stored one had none. For the cache, the newest of what is kept and one
    more are the newest of all and that one (`NewestAgain`): what was cut once is not
    missed later.

- `TimelineProofs`. `LineInv` is at the end of `Timeline` with its reasons. That the screen is
  complete is a statement about what is still to come: `NothingBetween` says that a live
  row that is not older than all that is shown, or coming, is `Due`: shown, in a page that
  was read, being decrypted, waiting for its answer, on the wire, or in what a
  catching up will ask for. It rests on `FramesInOrder`: the frames of rows come in the
  order of the relay and that of a deletion after that of its row, so that `last` is
  a bound for what was heard. `DeletionsFollow` says where an announced deletion is
  while its row is shown as if it were there, and `PagesApart` that two requests are
  under way only when `raced` names it. The pages need the rank of a row in a finite
  set: that ranks are a bijection onto 1..n, that a page is a sequence of its
  rows without repetition, and that a page at an offset leaves no live row between it
  and the newer ones. `ScreenFollows` holds for any number of rows and gaps, and any
  page size of one or more. The proof found two orders that the history variable had
  not named and that the small instance did not reach (section 6, *Screen*).

Every safety property of the passing runs is stated by a theorem. Only
model-checked are the liveness properties (`call_restart`, `client`): fairness and
`ENABLED` are out of the prover's reach. The theorems speak of the compositions the
runs check, with the bounds as parameters; what those compositions fix is named
there: a window of three units in the lock-out, the initial contents of a few
components, and one part at a time.

## 6. Divergences

What comments, documents and tests say and the code does not do, and orders of
steps it does not handle. The models contain the behaviour and the properties of
the runs hold next to it. Some modules state the refuted sentence as a
definition that no run checks (its comment says so: *FALSE of the code*, *refuted*,
*claimed and not so*); added to the `.cfg` of the run it gives a counterexample.

**Signalling and calls.** `user_calls` has one slot per user: dialling again
overwrites it and the clean-up of either call frees it, so a user in a live call
is rung (`signaling.py:237`). A flush that fails loses the popped frames (559);
the breaks of the loop (62) end no call. The caller's ringing timer is cleared by
`call-request-sent` (`CallPage.tsx:557`; `RingingEnds`, `docs/TUNNEL_FRIENDS.md:113`):
a caller whose callee never answers rings on. A buffered `call-ended` ends the next
call with that peer; a token that expires during a call is never refreshed; two
overlapping `startMedia` leak a stream; a denied microphone leaves the call up;
candidates may overtake the offer.

**Chat connections.** One dead socket ends a broadcast for those after it
(`chat_manager.py:207`, against the comment at 453). A failed send disconnects
whoever is registered by then (184), although `disconnect` takes a socket to
prevent this (62-63). The breaks at 754 and after an expired token skip
`disconnect`. `add_participant`, `remove_participant` and `leave_group` change rows
only (`contacts_groups.py:405`): until they reconnect, who was added gets no live
events and who was removed still gets them.

**1:1 encryption.** An overtaken envelope is refused on its only delivery: its id
is marked as seen before it is opened (`doubleRatchet.ts:407`, 450; against
`e2e.ts:795`). After a reload the history delivers envelopes of earlier turns
again, each ratchets before it is refused, and the next fresh one is lost
(413; `conversation.test.ts:65` tests one chain only). `encryptMessage` awaits
between drawing the key and writing the header (366, against the comment at
156-159); two first messages build two sessions (`e2e.ts:535`). A dropped session
meant to heal (792-794) meets a peer who takes the handshake for a ratchet step.

**Sessions in storage.** An ordinary logout loses them after ten minutes
(`LogoutKeepsSessions`, `e2e.ts:1019-1024`); a move takes the record of the moment of
the export (`MoveKeepsSessions`, `transferBundle.ts:4-5`), and an old device that
goes on after it forks the chains; a failed or crossed write before a reload
repeats steps. An export by QR code never offers the wipe.

**Group encryption.** `docs/E2E_AND_TRANSPORT.md:81` says the key is wiped on add,
remove and leave; accepting an invite and deleting the chat do not wipe it. All
members run one chain, so two who write at the same time use the same key
(against line 73). A late notice clears a chain in use (`groupE2E.ts:190`); history
under an old key advances the new chain (385).

**Padding.** A text of more than 8192 bytes is framed and not unframed: it is shown
with its length and tail (`LongTextsToo`, `e2e.ts:64-65`, 84; `groupE2E.ts:46`). Old
bytes that look like a frame are cut.

**Messages.** A view-once message nobody opened goes when a history fetch stamps it
although its text was blanked (`UnseenIsKept`, `background_tasks.py:102`). The stamp
counts two members, whoever they are now (`doubt`). A send whose second commit
fails leaves a row without statuses that counts as nothing owed. Withdrawn rows
are never purged. Search, the last message of a chat and export return view-once
and deleted content. Scheduled messages are broadcast when they are sent; the
ephemeral job announces nothing; the socket handler drops `expires_at`,
`scheduled_at` and `is_view_once`; `send_ephemeral` does not look at blocks. REST
deletion broadcasts nothing (`chat.py:583-607`). Overlapping edits are announced out
of order; an edit does not look at `is_deleted`.

**Files and groups.** A crash in an upload leaves bytes without a row; an avatar's
old file goes before the commit. `delete_chat` keeps the group key; a stale
invitation lets a removed member back in; a failing second commit spends the
invitation without letting in; the last admin may leave; notices of rotated keys
arrive out of order.

**Tokens and accounts.** `_load_persisted_blacklist` marks itself loaded before it
has loaded. The client's logout sends neither CSRF token nor body, so that the
refresh token is never revoked (`auth.py:483`). An idle tab keeps its old token and
later ends the chain (`LoserHealed`, `refreshSync.ts:82-86`). `clearSession` during a
refresh brings the session back; a network failure of a refresh logs out
(`api.ts:216-223`). A token issued in the second of a logout-all is born stale. A
registration awaits the captcha between test and record of the lock-out; a second
`login/options` replaces the first challenge.

**Device.** `PageIsGated` (`pinLock.ts:2`): a transient error opens the page without
the PIN (`AuthGuard.tsx:65-67`). Digits typed during a check start further checks,
whose answers come after the page opened (`OpenKeepsPass`); the pad submits at four
digits although a PIN may have six; the other tab is not locked; a wrong guess
after a lock-out that ended across a reload locks again. `AllMoves` (`e2e.ts:940`): a
page closed after the identity moved leaves the pre-keys behind; legacy one-time
keys move without secrets; a failed migration overwrites a newer identity; a
registration saves its keys after the relay accepted them. A reload between
rewrap and `setPin`, a failed transaction and a store during a rewrap leave
records no PIN opens (`pinLock.ts:149-151`); `handlePinChange` never compares the
confirmation. `PageIsOfTheProfile` (`secureStorage.ts:83-86`): `setToken` writes the
new account's token under the old namespace; a second registration overwrites
the first identity; auto-login never claims keys and clears the token on any
error (`LoginPage.tsx:249-252`); changing the relay by link or reset signs nobody
out. `NoSpuriousRotation` (`e2e.ts:426-430`): both calls of one sign-in make a signed
pre-key; the count of one-time keys is asked by public key and always 0.

**Screen.** `GapIsCaughtUp` (`useChatSocket.ts:323-328`): a gap before the first live
message is not synced; a sync covers 10 chats and 100 rows. An answer of the
history overwrites live rows; a row older than the page that is still being
decrypted, or an own one whose answer is late, is then appended to the page, out of
order and without the rows between (`useChatMessages.ts:172-177`); a catching up shows
rows of the peer and leaves out own ones between them (`useChatSocket.ts:271-288`); a
deletion during a decryption is lost; the offset of older pages counts deleted
rows. A voice message goes to the chat that is open
when the recording stops; shortcuts change the chat without loading its history; a
timer brings back the draft of a sent text; a lost answer sends a text twice.
`OwnMarkShown` (`useChatMessages.ts:87-88`): own reactions never open, can drop the
session, and disappear with the next frame. `QueueIsReliable` (`useChatActions.ts:134`):
two overlapping changes of the queue lose one. `ShownIsLive` (`blobManager.ts:1-9`): a
bubble that goes revokes the URL of the others; `RelayHasCiphertext`
(`useChatActions.ts:296-297`): a failed seal uploads the clear bytes; a caption edit
drops the file's key. `NotesStayHome` (`favoritesStore.ts:27`): a tab that signs in
anew still has the other account's notes. `NewKeyIsUsed` (`e2e.ts:620-621`), an open
chat keeps its copy; `NumbersAgreeOffline` (`SafetyNumberModal.tsx:31-36`).

**Relays and notices.** `OnlyOwnShown` (`push.ts:82-95`): nothing takes a
subscription back; a slot without a live socket suppresses notices.
`ManualUndisturbed` (`ServerBootOverlay.tsx:30-32`): a probe in flight changes the
screen of a manual attempt; a link saves an unproven address and keeps the
session. `StopEndsTunnel` (`host.rs:145`): a run that is downloading, or between its
checks, starts a tunnel after the stop; registration is closed only by a panel
that is open. `NoStorm` and `SocketNeverGivesUp` (`useChatSocket.ts:29-31`, 366): a
replaced socket reconnects and replaces its successor; a page reloaded while the
relay is away has neither token nor timer.

## 7. Not modelled

- Cryptographic strength (symbolic keys; `test/formal/*.pv` has ProVerif models),
  key derivation, the layout of frames, time beyond its order.
- Several relay instances: the bus and the presence keys (`ws/bus.py`,
  `core/redis_manager.py`); the deployment in the documents has one.
- Rendering, themes, languages, settings that are one request each
  (`SettingsPage.tsx`, `EmojiPicker.tsx`), search, export, statistics.
- Within modelled parts: what the header of each module lists under *left out*,
  and the notes of the components in PROJECT.json. The components are modelled one
  by one; of their compositions, `CallSignaling` has chat sockets and REST,
  `DoubleRatchet` a relay with history, `Messages` the routes with the loop.
- The relay's own child process in the shell (`server.rs`), windows and tray.

## 8. What is left

Two sessions between overlapping calls (`Slots = 2`) once the session has a lock; a
composition of `CallPage` with `CallSignaling`; a second relay instance.
