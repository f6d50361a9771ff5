------------------------------- MODULE Profiles -------------------------------
(***************************************************************************)
(* The accounts of one device: profiles (services/profiles.ts), the keys   *)
(* and the session of each (secureStorage.ts, tokenVault.ts,               *)
(* localSession.ts), the login page, the start of the app, changes of the  *)
(* account and of the relay, the move of an account to this device, and    *)
(* the cached chat list (store/chatStore.ts). One page of the app is open; *)
(* a key, a token or a list is known by the account it is of. An account   *)
(* that was deleted and one made anew under its name are the same here.    *)
(***************************************************************************)
EXTENDS Naturals

CONSTANTS
    Accounts, Far,  \* Far: the accounts that live on relay "b", not on "a"
    MaxSignIns,     \* bound on the sign-ins and moves that start
    Nobody

Relays == {"a", "b"}
Home(u) == IF u \in Far THEN "b" ELSE "a"
Slots == Accounts \cup {"legacy"}   \* namespaces: a profile's own; none for the first

VARIABLES
    profiles, active,   \* the account of each profile, the active profile
    identity,           \* IndexedDB: whose keys the records of a namespace are
    owner,              \* localStorage: e2e_keys_owner
    refresh, named,     \* refresh_token_enc; the namespaces with a stored user
    saved,              \* the relay of the next start
    cache,              \* nurchat_chats_cache, one for all profiles
    screen,             \* "login", "auth" (AuthGuard waits), "chat"
    base, ns,           \* BASE_URL and recordNamespace, set when the page loads
    session,            \* whose tokens are in memory
    signins,            \* sign-ins and moves so far
    sign,               \* <<who, how, step>>: a sign-in or a move under way
    listed, asked,      \* whose chats are on screen; loadChats not answered yet
    flight,             \* loadChatsInflight: the next call joins the one under way
    strayed,            \* history: a token went to a relay that had not issued it
    mixed,              \* history: a sign-in to a namespace that is not the page's
    cut,                \* history: the page was reloaded inside a sign-in or a move
    wandered,           \* history: the relay changed and nobody was signed out
    outlived            \* history: the chat list outlived its session (see there)

diskVars == <<profiles, active, identity, owner, refresh, named, saved, cache>>
pageVars == <<screen, base, ns, session, sign, listed, asked, flight>>
noteVars == <<mixed, cut, wandered, outlived>>
profileVars == <<diskVars, pageVars, signins, strayed, noteVars>>

SlotOf(p) == IF p = Nobody THEN "legacy" ELSE p
Slot == SlotOf(active)                      \* namespacedLSKey
NoSlots == [s \in Slots |-> Nobody]

Init ==
    /\ profiles = NoSlots /\ active = Nobody
    /\ \E u \in Accounts \cup {Nobody} :    \* from before there were profiles
            identity = [NoSlots EXCEPT !["legacy"] = u]
    /\ owner = identity /\ refresh = NoSlots /\ named = {} /\ cache = Nobody
    /\ saved \in Relays /\ base = saved /\ ns = "legacy"
    /\ screen = "login" /\ session = Nobody /\ sign = Nobody
    /\ listed = Nobody /\ asked = {} /\ flight = FALSE /\ signins = 0
    /\ strayed = FALSE /\ mixed = FALSE /\ cut = FALSE /\ wandered = FALSE /\ outlived = FALSE

-----------------------------------------------------------------------------
(* The page loads: what the disk says now is fixed until the next load. The *)
(* token of the active profile is decrypted and goes to the relay at once.  *)
Loads ==
    /\ base' = saved' /\ ns' = SlotOf(active')
    /\ session' = refresh'[ns'] /\ sign' = Nobody
    /\ screen' = IF session' = Nobody THEN "login" ELSE "auth"
    /\ listed' = cache' /\ asked' = {} /\ flight' = FALSE
    /\ strayed' = (strayed \/ (session' # Nobody /\ Home(session') # base'))

Reload ==
    /\ UNCHANGED diskVars /\ Loads
    /\ cut' = (cut \/ sign # Nobody) /\ UNCHANGED <<mixed, wandered, outlived, signins>>

(* clearSession: of the namespace that is active now.                       *)
Cleared ==
    /\ session' = Nobody /\ refresh' = [refresh EXCEPT ![Slot] = Nobody]
    /\ named' = named \ {Slot}

(* performLogout: the list too; an answer under way will bring it back.     *)
PerformLogout ==
    /\ Cleared /\ cache' = Nobody /\ listed' = Nobody /\ flight' = FALSE
    /\ outlived' = (outlived \/ asked # {})

EnterChat ==        \* ChatPage mounts: loadChats, unless one is under way
    /\ screen' = "chat" /\ flight' = TRUE
    /\ asked' = IF flight THEN asked ELSE asked \cup {session}

-----------------------------------------------------------------------------
(* AuthGuard and the automatic login: the server knows the token, refuses   *)
(* it, or cannot be reached.                                                *)

Verified ==
    /\ screen = "auth" /\ Home(session) = base
    /\ named' = named \cup {Slot} /\ EnterChat
    /\ UNCHANGED <<profiles, active, identity, owner, refresh, saved, cache, base, ns, session,
                   sign, listed, strayed, mixed, cut, wandered, outlived, signins>>

Refused ==
    /\ screen = "auth" /\ PerformLogout /\ screen' = "login"
    /\ UNCHANGED <<profiles, active, identity, owner, saved, base, ns, sign, asked, strayed,
                   mixed, cut, wandered, signins>>

Unreached ==
    /\ screen = "auth" /\ EnterChat
    /\ UNCHANGED <<diskVars, base, ns, session, sign, listed, strayed, mixed, cut, wandered,
                   outlived, signins>>

(* The refresh is refused later: notifyAuthExpired does not reset the list. *)
SessionDies ==
    /\ screen = "chat" /\ sign = Nobody /\ Cleared /\ screen' = "login"
    /\ outlived' = TRUE
    /\ UNCHANGED <<profiles, active, identity, owner, saved, cache, base, ns, sign, listed, asked, flight,
                   strayed, mixed, cut, wandered, signins>>

Logout ==
    /\ screen = "chat" /\ sign = Nobody /\ PerformLogout /\ screen' = "login"
    /\ UNCHANGED <<profiles, active, identity, owner, saved, base, ns, sign, asked, strayed,
                   mixed, cut, wandered, signins>>

DeleteAccount ==
    /\ screen = "chat" /\ sign = Nobody /\ PerformLogout /\ screen' = "login"
    /\ identity' = [identity EXCEPT ![ns] = Nobody]
    /\ owner' = [owner EXCEPT ![Slot] = Nobody]
    /\ UNCHANGED <<profiles, active, saved, base, ns, sign, asked, strayed, mixed, cut, wandered, signins>>

-----------------------------------------------------------------------------
(* The login page: register, password, passkey, second factor.              *)

AskSecondFactor ==      \* a token that is kept in memory only
    /\ screen = "login" /\ session = Nobody /\ sign = Nobody
    /\ refresh' = [refresh EXCEPT ![Slot] = Nobody]
    /\ UNCHANGED <<profiles, active, identity, owner, named, saved, cache, pageVars, strayed,
                   mixed, cut, wandered, outlived, signins>>

SignIn(u, how) ==
    /\ screen = "login" /\ session = Nobody /\ sign = Nobody /\ Home(u) = base
    /\ signins < MaxSignIns /\ signins' = signins + 1 /\ session' = u /\ sign' = <<u, how, "token">>
    /\ UNCHANGED <<diskVars, screen, base, ns, listed, asked, flight, strayed, mixed, cut, wandered,
                   outlived>>

(* upsertProfile: the first profile of the device has no prefix.            *)
ProfileOf(u) ==
    IF \E s \in Slots : profiles[s] = u THEN CHOOSE s \in Slots : profiles[s] = u
    ELSE IF profiles = NoSlots THEN "legacy" ELSE u
Upsert(u) ==
    /\ active' = ProfileOf(u)
    /\ profiles' = [profiles EXCEPT ![active'] = u]

(* The tokens and the user are written, the profile is changed, the keys    *)
(* are claimed: another owner's are to be wiped first. Mutant: they stay.   *)
Enter_NoWipe ==
    /\ sign # Nobody /\ sign[3] = "token"
    /\ refresh' = [refresh EXCEPT ![Slot] = sign[1]] /\ named' = named \cup {Slot}
    /\ Upsert(sign[1]) /\ mixed' = (mixed \/ active' # ns)
    /\ owner' = [owner EXCEPT ![active'] = sign[1]]
    /\ sign' = <<sign[1], sign[2], "keys">>
    /\ UNCHANGED <<identity, saved, cache, screen, base, ns, session, listed, asked, flight, strayed,
                   cut, wandered, outlived, signins>>
Enter ==
    /\ sign # Nobody /\ sign[3] = "token"
    /\ refresh' = [refresh EXCEPT ![Slot] = sign[1]] /\ named' = named \cup {Slot}
    /\ Upsert(sign[1]) /\ mixed' = (mixed \/ active' # ns)
    /\ IF owner[active'] \in {Nobody, sign[1]}
       THEN /\ owner' = [owner EXCEPT ![active'] = sign[1]]
            /\ sign' = <<sign[1], sign[2], "keys">>
       ELSE /\ sign' = <<sign[1], sign[2], "wipe">> /\ UNCHANGED owner
    /\ UNCHANGED <<identity, saved, cache, screen, base, ns, session, listed, asked, flight, strayed,
                   cut, wandered, outlived, signins>>

Wiped ==
    /\ sign # Nobody /\ sign[3] = "wipe"
    /\ identity' = [identity EXCEPT ![ns] = Nobody]
    /\ owner' = [owner EXCEPT ![Slot] = sign[1]]
    /\ sign' = <<sign[1], sign[2], "keys">>
    /\ UNCHANGED <<profiles, active, refresh, named, saved, cache, screen, base, ns, session,
                   listed, asked, flight, strayed, mixed, cut, wandered, outlived, signins>>

(* New keys are saved when the account is new; the chat page opens.         *)
Keyed ==
    /\ sign # Nobody /\ sign[3] = "keys" /\ sign' = Nobody
    /\ identity' = IF sign[2] = "register" THEN [identity EXCEPT ![ns] = sign[1]] ELSE identity
    /\ EnterChat
    /\ UNCHANGED <<profiles, active, owner, refresh, named, saved, cache, base, ns, session,
                   listed, strayed, mixed, cut, wandered, outlived, signins>>

-----------------------------------------------------------------------------
(* Another account of the device; one is removed; one is moved here.        *)

SwitchToProfile(s) ==
    /\ screen = "chat" /\ sign = Nobody /\ profiles[s] # Nobody /\ s # active
    /\ active' = s /\ saved' = Home(profiles[s])
    /\ UNCHANGED <<profiles, identity, owner, refresh, named, cache, mixed, cut, wandered, signins>>
    /\ Loads /\ outlived' = (outlived \/ cache # Nobody)

(* wipeProfileData: the encrypted token of the profile is not removed; the  *)
(* sign-out comes when no profile is active any more.                       *)
WipeProfileData(s) ==
    /\ screen = "chat" /\ sign = Nobody /\ profiles[s] # Nobody
    /\ owner' = [owner EXCEPT ![s] = Nobody]
    /\ identity' = [identity EXCEPT ![s] = Nobody]
    /\ profiles' = [profiles EXCEPT ![s] = Nobody]
    /\ IF s = active
       THEN /\ active' = Nobody /\ cache' = Nobody /\ named' = named \ {s, "legacy"}
            /\ refresh' = [refresh EXCEPT !["legacy"] = Nobody]
            /\ UNCHANGED saved /\ Loads
       ELSE /\ named' = named \ {s}
            /\ UNCHANGED <<active, cache, refresh, saved, pageVars, strayed>>
    /\ UNCHANGED <<mixed, cut, wandered, outlived, signins>>

(* importTransferBundle: signed out, a profile of its own, then its keys.   *)
Import(u) ==
    /\ screen = "chat" /\ sign = Nobody /\ PerformLogout /\ Upsert(u)
    /\ signins < MaxSignIns /\ signins' = signins + 1
    /\ ns' = active' /\ sign' = <<u, "import", "import">>
    /\ UNCHANGED <<identity, owner, saved, screen, base, asked, strayed, mixed, cut, wandered>>
Imported ==
    /\ sign # Nobody /\ sign[3] = "import"
    /\ identity' = [identity EXCEPT ![ns] = sign[1]]
    /\ saved' = Home(sign[1])
    /\ UNCHANGED <<profiles, active, owner, refresh, named, cache, mixed, cut, wandered, outlived, signins>>
    /\ Loads

-----------------------------------------------------------------------------
(* Another relay, that answered: from the login page (is there a session?), *)
(* the settings or the overlay (is there a stored user?): signed out first. *)
SwitchRelay(r) ==
    /\ r # base /\ sign = Nobody /\ saved' = r
    /\ IF session # Nobody \/ Slot \in named
       THEN /\ refresh' = [refresh EXCEPT ![Slot] = Nobody] /\ named' = named \ {Slot}
            /\ cache' = Nobody
       ELSE UNCHANGED <<refresh, named, cache>>
    /\ UNCHANGED <<profiles, active, identity, owner, mixed, cut, wandered, outlived, signins>>
    /\ Loads

(* A ?relay= link, "switch to my host", the empty address in the settings.  *)
Wander(r) ==
    /\ r # base /\ sign = Nobody /\ saved' = r /\ wandered' = TRUE
    /\ UNCHANGED <<profiles, active, identity, owner, refresh, named, cache, mixed, cut, outlived, signins>>
    /\ Loads

(* loadChats is answered, whoever is signed in by now.                      *)
Listed(u) ==
    /\ u \in asked /\ asked' = asked \ {u} /\ flight' = FALSE /\ listed' = u /\ cache' = u
    /\ UNCHANGED <<profiles, active, identity, owner, refresh, named, saved, screen, base, ns,
                   session, sign, strayed, mixed, cut, wandered, outlived, signins>>
ListFails(u) ==
    /\ u \in asked /\ asked' = asked \ {u} /\ flight' = FALSE
    /\ listed' = IF listed = Nobody THEN cache ELSE listed
    /\ UNCHANGED <<diskVars, screen, base, ns, session, sign, strayed, mixed, cut, wandered,
                   outlived, signins>>

-----------------------------------------------------------------------------
Next ==
    \/ Reload \/ Verified \/ Refused \/ Unreached \/ SessionDies \/ Logout \/ DeleteAccount
    \/ AskSecondFactor \/ Enter \/ Wiped \/ Keyed \/ Imported
    \/ \E u \in Accounts :
        \/ \E how \in {"register", "login"} : SignIn(u, how)
        \/ Import(u) \/ Listed(u) \/ ListFails(u)
    \/ \E s \in Slots : SwitchToProfile(s) \/ WipeProfileData(s)
    \/ \E r \in Relays : SwitchRelay(r) \/ Wander(r)

Spec == Init /\ [][Next]_profileVars

-----------------------------------------------------------------------------
(* Every change of the account went by the book: no sign-in changed the     *)
(* profile under the page, none was cut by a reload, and the relay never    *)
(* changed in a way that signs nobody out.                                  *)
ByTheBook == ~mixed /\ ~cut /\ ~wandered

(* Whoever reads the chats has their own keys, or none, under the page's    *)
(* records: never those of another account of the device.                   *)
KeysOfTheSession ==
    screen = "chat" /\ sign = Nobody /\ ByTheBook => identity[ns] \in {Nobody, session}

(* A session's token goes to the relay of its account only, on the start of *)
(* the app too.                                                             *)
TokensStayHome == strayed => ~ByTheBook

(* The chats on screen are of the session's own account, if the list was    *)
(* reset with every session before and no answer came after its reset.      *)
ListIsOwn ==
    screen = "chat" /\ sign = Nobody /\ ByTheBook /\ ~outlived => listed \in {Nobody, session}

(* secureStorage.ts:83-86: the namespace is set once at start, "the app     *)
(* reloads after a change of the profile, so there are no races": the page  *)
(* works in the namespace of the active profile. FALSE of the code.         *)
PageIsOfTheProfile == screen = "chat" /\ sign = Nobody => ns = Slot

-----------------------------------------------------------------------------
(* What the three follow from, as long as every change went by the book. A  *)
(* profile of an account is in its own namespace or the first, and what is  *)
(* kept under it (keys, owner, token) is the account's, or is known to be   *)
(* another owner's and about to be wiped. The page is of the profile that   *)
(* is active and at the relay of its token.                                 *)
Someone == Accounts \cup {Nobody}
Signings == Accounts \X {"register", "login", "import"} \X {"token", "wipe", "keys", "import"}
Signing(at) == sign # Nobody /\ sign[3] \in at
Types ==
    /\ {profiles, identity, owner, refresh} \subseteq [Slots -> Someone]
    /\ active \in Slots \cup {Nobody} /\ sign \in Signings \cup {Nobody}
    /\ {session, cache, listed} \subseteq Someone /\ asked \subseteq Accounts
    /\ screen \in {"login", "auth", "chat"}

NamespacesHold ==
    /\ \A s \in Accounts : {profiles[s], identity[s], owner[s], refresh[s]} \subseteq {Nobody, s}
    /\ \A s \in Slots :
          /\ profiles[s] = Nobody => identity[s] \in {Nobody, owner[s]}
          /\ profiles[s] # Nobody =>
                /\ refresh[s] \in {Nobody, profiles[s]}
                /\ identity[s] \in {Nobody, profiles[s]} \/ (s = ns /\ Signing({"wipe"}))

PageHolds ==
    /\ ns = Slot /\ base = saved /\ ~strayed
    /\ IF active = Nobody THEN refresh["legacy"] = Nobody ELSE profiles[active] # Nobody
    /\ refresh[Slot] # Nobody /\ ~Signing({"import"}) => Home(refresh[Slot]) = saved

SessionHolds ==
    /\ sign = Nobody => session = refresh[Slot]
    /\ sign = Nobody /\ screen # "login" => session # Nobody /\ session = profiles[ns]
    /\ sign # Nobody => screen = IF Signing({"import"}) THEN "chat" ELSE "login"
    /\ sign # Nobody => session = IF Signing({"import"}) THEN Nobody ELSE sign[1]
    /\ Signing({"token"}) => Home(sign[1]) = base
    /\ Signing({"wipe", "keys", "import"}) => profiles[ns] = sign[1]
    /\ Signing({"wipe", "keys"}) => refresh[Slot] = sign[1]

ListHolds ==
    ~outlived =>
        /\ {cache, listed} \subseteq {Nobody, session} /\ asked \subseteq {session}
        /\ sign # Nobody => cache = Nobody /\ listed = Nobody /\ asked = {}

ProfilesInv == ByTheBook => Types /\ NamespacesHold /\ PageHolds /\ SessionHolds /\ ListHolds
=============================================================================
