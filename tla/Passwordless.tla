----------------------------- MODULE Passwordless -----------------------------
(***************************************************************************)
(* The example server src/examples/axum_passwordless.rs: users who register *)
(* under a name and sign in without giving it, because their authenticator  *)
(* names them by the handle it kept.  A sign-in rotates the sid.            *)
(*                                                                          *)
(* Faults: the process stops and is started again, a reply is lost, a       *)
(* request arrives twice, and a handler is dropped at an await because its  *)
(* client is gone.                                                          *)
(***************************************************************************)
EXTENDS WebSession, SequencesExt

CONSTANTS
    Names,       \* the names that users type, already trimmed
    MaxFaults    \* bound on the faults

ASSUME NamesAssumption == None \notin Names /\ MaxFaults \in Nat

VARIABLES
    users,      \* by name: [handle, credentials]
    log,        \* history: what was accepted, in order
    asked,      \* history: the name that each registration's challenge was asked for
    minted,     \* history: per sid, the browser and the name it was minted for
    faults      \* how many faults there were

vars == <<web, users, log, asked, minted, faults>>

Wa == Configured(TRUE)

\* Mutant: nobody is a user without a name.
DefaultSession_nobody == [reg_state |-> None, auth_state |-> None, signed_in_as |-> "nobody"]

DefaultSession == [reg_state |-> None, auth_state |-> None, signed_in_as |-> None]

\* Sha256::digest(username)[..16], without collisions.
Handle(name) == <<"sha256", name>>

NoUsers == [name \in Names |-> None]

ASSUME NoneIsNoUser ==
    None \notin [handle : {Handle(name) : name \in Names}, credentials : Seq(PasskeyCredentials)]

Init ==
    /\ WebInit
    /\ users = NoUsers
    /\ log = <<>>
    /\ asked = [c \in 1..MaxChallenges |-> None]
    /\ minted = [s \in Sids |-> None]
    /\ faults = 0

Fault   == faults < MaxFaults /\ faults' = faults + 1
NoFault == UNCHANGED faults

\* json_with_sid, and the reply arrives or is lost.
Reply(t, place, data, sid) ==
    \/ Arrives(t, place, data, sid) /\ NoFault
    \/ Done(t) /\ UNCHANGED cookies /\ Fault

Take(t, section, field, next) ==
    /\ TakeState(t, section, field, next)
    /\ UNCHANGED <<users, log, asked, minted, faults>>

Event(kind, id, challenge, count, name) ==
    [kind |-> kind, id |-> id, challenge |-> challenge, count |-> count, name |-> name]

-----------------------------------------------------------------------------
(* POST /register/start and POST /register/finish *)

\* The name is looked up now, and taken when the registration finishes.
RegisterStart(t) ==
    /\ tabs[t].at = "register_start"
    /\ IF users[tabs[t].data.name] = None
       THEN GoTo(t, "register_start.save", tabs[t].data)
       ELSE Done(t)
    /\ UNCHANGED <<sessions, cookies, devices, drawn, users, log, asked, minted, faults>>

RegisterStartSave(t) ==
    LET name  == tabs[t].data.name
        state == start_registration(NewChallenge, Handle(name), Now)
    IN  /\ tabs[t].at = "register_start.save"
        /\ Save(sid_or_new(t), DefaultSession, "reg_state",
                [username |-> name, reg_state |-> state])
        /\ asked' = [asked EXCEPT ![NewChallenge] = name]
        /\ Reply(t, "create", [challenge |-> NewChallenge, handle |-> Handle(name),
                               exclude |-> {}, finish |-> "register_finish"], sid_or_new(t))
        /\ UNCHANGED <<devices, users, log, minted>>

RegisterFinish(t) == Take(t, "register_finish", "reg_state", "register_finish.push")

\* Mutant: the user is the one the page asked for last.
Filed_last(state) ==
    LET last == CHOOSE c \in DOMAIN asked :
                   asked[c] # None /\ \A e \in DOMAIN asked : asked[e] # None => e <= c
    IN  asked[last]

\* The user that a registration files its credential under.
Filed(state) == state.username

\* users.entry(username).or_default(), its handle, and push.
RegisterFinishPush(t) ==
    LET a        == tabs[t].data.answer
        state    == tabs[t].data.state
        name     == Filed(state)
        response == RegistrationOf(Wa, a)
        new      == NewCredential(response)
        passkey  == [id |-> new.id, counter |-> new.counter,
                     public_key_cose |-> new.public_key_cose]
    IN  /\ tabs[t].at = "register_finish.push"
        /\ IF finish_registration(Wa, state.reg_state, response, Now) = Ok
           THEN /\ users' = [users EXCEPT ![name] =
                      [handle      |-> Handle(name),
                       credentials |-> IF @ = None THEN <<passkey>>
                                       ELSE Append(@.credentials, passkey)]]
                /\ log' = Append(log, Event("create", new.id, a.challenge, new.counter, name))
           ELSE UNCHANGED <<users, log>>
        /\ Done(t)
        /\ UNCHANGED <<sessions, cookies, devices, drawn, asked, minted, faults>>

-----------------------------------------------------------------------------
(* POST /authenticate/start and POST /authenticate/finish *)

\* An empty allow list.
AuthenticateStart(t) ==
    /\ tabs[t].at = "authenticate_start"
    /\ Save(sid_or_new(t), DefaultSession, "auth_state",
            start_authentication(NewChallenge, {}, Now))
    /\ Reply(t, "get", [challenge |-> NewChallenge, allow |-> {}], sid_or_new(t))
    /\ UNCHANGED <<devices, users, log, asked, minted>>

AuthenticateFinish(t) ==
    Take(t, "authenticate_finish", "auth_state", "authenticate_finish.verify")

\* Where a credential is among those of a user; 0 if it is not.
Index(name, id) ==
    IF users[name] = None THEN 0 ELSE Find(users[name].credentials, id)

\* The user by the answer's handle, the credential among that user's.
Accepts(name, request) ==
    LET a == request.answer
        i == Index(name, a.id)
    IN  /\ users[name] # None
        /\ users[name].handle = a.handle
        /\ i # 0
        /\ finish_authentication(Wa, request.state, AssertionOf(Wa, a),
                                 users[name].credentials[i], Now) = Ok

\* Mutant: the counter is set in a copy of the credential.
AuthenticateFinishVerify_copy(t) ==
    LET a      == tabs[t].data.answer
        owners == {name \in Names : Accepts(name, tabs[t].data)}
    IN  /\ tabs[t].at = "authenticate_finish.verify"
        /\ \/ \E name \in owners :
                 /\ log' = Append(log, Event("get", a.id, a.challenge, a.count, name))
                 /\ GoTo(t, "authenticate_finish.rotate", [name |-> name])
           \/ owners = {} /\ Done(t) /\ UNCHANGED log
        /\ UNCHANGED <<sessions, cookies, devices, drawn, users, asked, minted, faults>>

\* Under the lock of the users: look up, verify, store the counter.
AuthenticateFinishVerify(t) ==
    LET a      == tabs[t].data.answer
        owners == {name \in Names : Accepts(name, tabs[t].data)}
    IN  /\ tabs[t].at = "authenticate_finish.verify"
        /\ \/ \E name \in owners :
                 /\ users' = [users EXCEPT ![name].credentials[Index(name, a.id)].counter =
                                 AssertionOf(Wa, a).authenticator_data.value.sign_count]
                 /\ log' = Append(log, Event("get", a.id, a.challenge, a.count, name))
                 /\ GoTo(t, "authenticate_finish.rotate", [name |-> name])
           \/ owners = {} /\ Done(t) /\ UNCHANGED <<users, log>>
        /\ UNCHANGED <<sessions, cookies, devices, drawn, asked, minted, faults>>

\* Mutant: the user is marked as signed in under the sid of the request.
AuthenticateFinishRotate_no_rotation(t) ==
    LET sid == tabs[t].sid
        name == tabs[t].data.name
    IN  /\ tabs[t].at = "authenticate_finish.rotate"
        /\ sessions' = [sessions EXCEPT ![sid] = [DefaultSession EXCEPT !.signed_in_as = name]]
        /\ minted' = [minted EXCEPT ![sid] = [browser |-> tabs[t].browser, name |-> name]]
        /\ Reply(t, "page", None, sid)
        /\ UNCHANGED <<devices, drawn, users, log, asked>>

\* The session of the request goes, with all it holds; a signed-in one comes
\* under a fresh sid.
AuthenticateFinishRotate(t) ==
    LET new_sid == drawn.sid + 1
        name    == tabs[t].data.name
    IN  /\ tabs[t].at = "authenticate_finish.rotate"
        /\ new_sid <= MaxSids
        /\ drawn' = [drawn EXCEPT !.sid = new_sid]
        /\ sessions' = [sessions EXCEPT ![tabs[t].sid] = None,
                                        ![new_sid] = [DefaultSession EXCEPT !.signed_in_as = name]]
        /\ minted' = [minted EXCEPT ![new_sid] = [browser |-> tabs[t].browser, name |-> name]]
        /\ Reply(t, "page", None, new_sid)
        /\ UNCHANGED <<devices, users, log, asked>>

Handler(t) ==
    \/ RegisterStart(t) \/ RegisterStartSave(t)
    \/ RegisterFinish(t) \/ RegisterFinishPush(t)
    \/ AuthenticateStart(t)
    \/ AuthenticateFinish(t) \/ AuthenticateFinishVerify(t) \/ AuthenticateFinishRotate(t)

-----------------------------------------------------------------------------
(* What goes wrong. *)

Requests == {"register_start", "register_finish", "authenticate_start", "authenticate_finish"}

Awaits == {"register_start.save", "register_finish.push", "authenticate_finish.verify",
           "authenticate_finish.rotate"}

\* A request does not arrive, or its handler is dropped between two sections.
Cancel(t) ==
    /\ tabs[t].at \in Requests \cup Awaits
    /\ Done(t)
    /\ Fault
    /\ UNCHANGED <<sessions, cookies, devices, drawn, users, log, asked, minted>>

\* Users, sessions and requests are lost; browsers and authenticators keep theirs.
Restart ==
    /\ Stop
    /\ users' = NoUsers
    /\ Fault
    /\ UNCHANGED <<log, asked, minted>>

Twice(t) ==
    /\ \E u \in Tabs : Duplicate(t, u)
    /\ Fault
    /\ UNCHANGED <<users, log, asked, minted>>

Faults == Restart \/ \E t \in Tabs : Cancel(t) \/ Twice(t)

-----------------------------------------------------------------------------
(* The page. *)

Page(t) ==
    /\ \/ \E name \in Names : Click(t, "register_start", [name |-> name])
       \/ Click(t, "authenticate_start", None)
       \/ Abandon(t)
       \/ \E d \in Devices : Create(t, d) \/ Get(t, d)
    /\ UNCHANGED <<users, log, asked, minted, faults>>

Next == Faults \/ \E t \in Tabs : Handler(t) \/ Page(t)

Spec == Init /\ [][Next]_vars

-----------------------------------------------------------------------------
(* Properties. *)

Places == {"page", "create", "get"} \cup Requests \cup Awaits

Events ==
    [kind : {"create", "get"}, id : Devices \X (1..MaxChallenges), challenge : 1..MaxChallenges,
     count : 0..MaxChallenges, name : Names]

UserOK(name) ==
    /\ DOMAIN users[name] = {"handle", "credentials"}
    /\ users[name].handle = Handle(name)
    /\ users[name].credentials \in Seq(PasskeyCredentials)
    /\ users[name].credentials # <<>>

\* A registration of one of n challenges, and the name its challenge was asked for.
RegistrationOK(state, names, n) ==
    /\ DOMAIN state = {"username", "reg_state"} /\ state.username \in Names
    /\ state.reg_state.challenge \in 1..n
    /\ names[state.reg_state.challenge] = state.username

AuthenticationOK(state, n) ==
    /\ DOMAIN state = {"challenge", "allow_credentials", "created_at", "user_handle"}
    /\ state.challenge \in 1..n /\ state.allow_credentials = {}

SessionOK(s) ==
    /\ sessions[s].reg_state # None
          => RegistrationOK(sessions[s].reg_state, asked, drawn.challenge)
    /\ sessions[s].auth_state # None
          => AuthenticationOK(sessions[s].auth_state, drawn.challenge)
    /\ sessions[s].signed_in_as \in Names \cup {None}

PlaceOK(t) ==
    LET data == tabs[t].data IN
    /\ tabs[t].at \in Places
    /\ tabs[t].at = "create" => data.finish = "register_finish"
    /\ tabs[t].at \in {"register_start", "register_start.save", "authenticate_finish.rotate"}
          => data.name \in Names
    /\ tabs[t].at = "register_finish.push"
          => RegistrationOK(data.state, asked, drawn.challenge)
    /\ tabs[t].at = "authenticate_finish.verify" => AuthenticationOK(data.state, drawn.challenge)

\* Every table, session and request holds values of its kind.
TypeOK ==
    /\ faults \in 0..MaxFaults
    /\ WebOK(DefaultSession)
    /\ DOMAIN users = Names /\ \A name \in Names : users[name] # None => UserOK(name)
    /\ log \in Seq(Events)
    /\ DOMAIN asked = 1..MaxChallenges /\ DOMAIN minted = Sids
    /\ \A s \in Sids : sessions[s] # None => SessionOK(s)
    /\ \A t \in Tabs : PlaceOK(t)

\* The states are taken out of the session before anything else: whatever is
\* delivered twice, dropped or cut off, a challenge is accepted at most once.
ChallengeAcceptedOnce ==
    \A i, j \in DOMAIN log : i # j => log[i].challenge # log[j].challenge

\* The name travels with the state of its ceremony: two registrations that
\* cross in one session never file a credential under the other's name.
FiledAsAsked ==
    \A n \in DOMAIN log : log[n].kind = "create" => log[n].name = asked[log[n].challenge]

\* The rotation: a browser whose sid is signed in is the one that signed in, as
\* the user that the sid was minted for, also when all browsers started with the
\* same planted sid and whatever was delivered twice or dropped.
OnlyItsBrowserIsSignedIn ==
    \A b \in Browsers :
        cookies[b] # None /\ sessions[cookies[b]] # None
                          /\ sessions[cookies[b]].signed_in_as # None
            => minted[cookies[b]] = [browser |-> b, name |-> sessions[cookies[b]].signed_in_as]

Accepted == {log[n].challenge : n \in DOMAIN log}

\* Take and push are sections of their own: between them the state is in the
\* request and no longer in the session, it is in one place at most, and in none
\* once its challenge was accepted.
InOnePlace == HeldOnce(InSessions, InRequests, Accepted, drawn.challenge)

\* Whoever carries a signed-in sid, also in a request that is on its way, is the
\* browser that it was minted for.
SidsCarriedByTheirBrowser ==
    \A s \in Sids : sessions[s] # None /\ sessions[s].signed_in_as # None
        => \A b \in Carriers(s) : minted[s] = [browser |-> b, name |-> sessions[s].signed_in_as]

\* The invariant that the others follow from.
IInv ==
    TypeOK /\ InOnePlace /\ ChallengeAcceptedOnce /\ FiledAsAsked /\ SidsCarriedByTheirBrowser

\* A credential was created for a challenge that is spent, also when it was lost in
\* a restart, so that no registration brings its id back; no two are stored with
\* one id, by whatever names.
StoredOnce ==
    /\ \A n \in DOMAIN log : log[n].id[2] \in Accepted
    /\ \A name \in Names : users[name] # None =>
          \A i \in DOMAIN users[name].credentials : users[name].credentials[i].id[2] \in Accepted
    /\ \A name, other \in Names : users[name] # None /\ users[other] # None =>
          \A i \in DOMAIN users[name].credentials, j \in DOMAIN users[other].credentials :
             users[name].credentials[i].id = users[other].credentials[j].id
                => name = other /\ i = j

\* Seen from outside, the server is a registry of the credentials of its users:
\* whoever is found by a handle is the owner of the credential that signs in.
Registry ==
    INSTANCE CredentialRegistry WITH
        Ids      <- Devices \X (1..MaxChallenges),
        Owners   <- Names,
        Counts   <- 0..MaxChallenges,
        Absent   <- None,
        durable  <- FALSE,
        registry <- [id \in Devices \X (1..MaxChallenges) |->
                        IF \A n \in Names : Index(n, id) = 0 THEN None
                        ELSE LET owner == CHOOSE n \in Names : Index(n, id) # 0 IN
                             [owner |-> owner,
                              count |-> users[owner].credentials[Index(owner, id)].counter]],
        history  <- [n \in DOMAIN log |->
                        [kind |-> log[n].kind, id |-> log[n].id, owner |-> log[n].name,
                         count |-> log[n].count]]

ImplementsRegistry == Registry!Spec

-----------------------------------------------------------------------------
(* A statement of the example that it does not keep. *)

\* Lines 93 and 105: a challenge is issued "for a NEW user", and "Refuse if the
\* username is already taken": a name gets one registration.
UsernameIsTakenOnce ==
    \A i, j \in DOMAIN log :
        i # j /\ log[i].kind = "create" /\ log[j].kind = "create" => log[i].name # log[j].name
=============================================================================
