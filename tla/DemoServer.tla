------------------------------ MODULE DemoServer ------------------------------
(***************************************************************************)
(* The three servers behind the page src/examples/static/index.html, which  *)
(* registers passkeys for one hard-coded user and signs in with them:       *)
(* axum_server.rs and rocket_server.rs keep everything in memory,           *)
(* axum_sqlite.rs keeps the user and the credentials in a database.  A      *)
(* session holds ceremony states only, and its sid never changes.           *)
(*                                                                          *)
(* Faults: the process stops and is started again, a reply is lost, a       *)
(* request arrives twice, and an axum handler is dropped at an await        *)
(* because its client is gone.  A rocket handler is a plain function.       *)
(***************************************************************************)
EXTENDS WebSession, SequencesExt

CONSTANTS
    Servers,     \* the servers to consider
    Visitor,     \* the tab of a user who keeps trying
    MaxFaults    \* bound on the faults

ASSUME DemoAssumption ==
    /\ Servers \subseteq {"axum_server", "rocket_server", "axum_sqlite"}
    /\ Visitor \in Tabs /\ MaxFaults \in Nat

VARIABLES
    server,     \* which of the three runs
    user,       \* the user: [id, credentials]; id 0 is none yet
    log,        \* history: what was accepted, in order
    acked,      \* history: the entries of log whose reply arrived
    faults      \* how many faults there were

vars == <<web, server, user, log, acked, faults>>

Durable == server = "axum_sqlite"
Async   == server # "rocket_server"

Wa == Configured(FALSE)

DefaultSession == [reg_state |-> None, auth_state |-> None]

NoUser == [id |-> 0, credentials |-> <<>>]

Init ==
    /\ WebInit
    /\ server \in Servers
    /\ user = NoUser
    /\ log = <<>>
    /\ acked = {}
    /\ faults = 0

-----------------------------------------------------------------------------
(* Replies and faults. *)

Fault    == faults < MaxFaults /\ faults' = faults + 1
NoFault  == UNCHANGED faults

\* json_with_sid pins the sid of the request; rocket's sid_or_new sets a cookie
\* only when it made one.
ReplyCookie(t) ==
    IF Async \/ tabs[t].sid = None THEN sid_or_new(t) ELSE Cookie(t)

Reply(t, place, data, cookie) ==
    \/ Arrives(t, place, data, cookie) /\ NoFault
    \/ Done(t) /\ UNCHANGED cookies /\ Fault

\* A reply that acknowledges entry n of the log.
Acknowledge(t, section) ==
    /\ tabs[t].at = section
    /\ \/ Done(t) /\ acked' = acked \cup {tabs[t].data.entry} /\ NoFault
       \/ Done(t) /\ UNCHANGED acked /\ Fault
    /\ UNCHANGED <<sessions, cookies, devices, drawn, server, user, log>>

Take(t, section, field, next) ==
    /\ TakeState(t, section, field, next)
    /\ UNCHANGED <<server, user, log, acked, faults>>

CredentialIds == {user.credentials[i].id : i \in DOMAIN user.credentials}

Event(kind, id, challenge, count, user_id) ==
    [kind |-> kind, id |-> id, challenge |-> challenge, count |-> count, user_id |-> user_id]

-----------------------------------------------------------------------------
(* POST /register/start *)

\* Mutant: an INSERT OR REPLACE with a fresh id.
UserId_fresh == drawn.handle + 1

\* The user's id, or a fresh one.
UserId == IF user.id = 0 THEN drawn.handle + 1 ELSE user.id

DrawUserId == drawn' = [drawn EXCEPT !.handle = IF UserId > @ THEN UserId ELSE @]

\* Both at once: Store::ensure_user, and what rocket_server does under its lock.
ensure_user == user' = [user EXCEPT !.id = UserId] /\ DrawUserId

ReadUser(t) ==
    /\ tabs[t].at = "register_start"
    /\ UserId <= MaxChallenges
    /\ GoTo(t, "register_start.save", [id |-> UserId, existing |-> CredentialIds])
    /\ UNCHANGED <<sessions, cookies, devices, server, log, acked, faults>>

\* axum_server makes an id up, and keeps it for a later section.
AxumRegisterStart(t)   == server = "axum_server" /\ ReadUser(t) /\ DrawUserId /\ UNCHANGED user
RocketRegisterStart(t) == server = "rocket_server" /\ ReadUser(t) /\ ensure_user
SqliteRegisterStart(t) == server = "axum_sqlite" /\ ReadUser(t) /\ ensure_user

RegisterStartSave(t) ==
    LET id       == tabs[t].data.id
        creation == [challenge |-> NewChallenge, handle |-> id,
                     exclude |-> tabs[t].data.existing, finish |-> "register_finish"]
    IN  /\ tabs[t].at = "register_start.save"
        /\ Save(sid_or_new(t), DefaultSession, "reg_state",
                start_registration(NewChallenge, id, Now))
        /\ IF server = "axum_server"
           THEN /\ tabs' = [tabs EXCEPT ![t].at = "register_start.persist",
                                        ![t].sid = sid_or_new(t), ![t].data = creation]
                /\ UNCHANGED <<cookies, faults>>
           ELSE Reply(t, "create", creation, ReplyCookie(t))
        /\ UNCHANGED <<devices, server, user, log, acked>>

AxumRegisterStartPersist(t) ==
    /\ tabs[t].at = "register_start.persist"
    /\ user' = [user EXCEPT !.id = IF @ = 0 THEN tabs[t].data.handle ELSE @]
    /\ Reply(t, "create", tabs[t].data, ReplyCookie(t))
    /\ UNCHANGED <<sessions, devices, drawn, server, log, acked>>

-----------------------------------------------------------------------------
(* POST /register/finish *)

RegisterFinish(t) == Take(t, "register_finish", "reg_state", "register_finish.push")

\* In the database an id is a primary key, and belongs to a user.
insert_credential(credential) ==
    IF Durable
    THEN /\ credential.id \notin CredentialIds
         /\ user' = [id |-> UserId, credentials |-> Append(user.credentials, credential)]
         /\ DrawUserId
    ELSE /\ user' = [user EXCEPT !.credentials = Append(@, credential)]
         /\ UNCHANGED drawn

RegisterFinishPush(t) ==
    /\ tabs[t].at = "register_finish.push"
    /\ \E response \in {RegistrationOf(Wa, tabs[t].data.answer)} :
          LET state == tabs[t].data.state
              new   == NewCredential(response)
          IN  \/ /\ finish_registration(Wa, state, response, Now) = Ok
                 /\ insert_credential([id |-> new.id, counter |-> new.counter,
                                       public_key_cose |-> new.public_key_cose])
                 /\ log' = Append(log, Event("create", new.id, tabs[t].data.answer.challenge,
                                             new.counter, state.user_id))
                 /\ GoTo(t, "register_finish.reply", [entry |-> Len(log) + 1])
              \/ /\ \/ finish_registration(Wa, state, response, Now) # Ok
                    \/ Durable /\ new.id \in CredentialIds
                 /\ Done(t)
                 /\ UNCHANGED <<user, log, drawn>>
    /\ UNCHANGED <<sessions, cookies, devices, server, acked, faults>>

RegisterFinishReply(t) == Acknowledge(t, "register_finish.reply")

-----------------------------------------------------------------------------
(* POST /authenticate/start and POST /authenticate/finish *)

\* What the page shows after a sign-in that came before any registration.
RegisterFirst == [status |-> "register a passkey first"]

\* Mutant: without credentials, any passkey will do.
Refuse_any(t) ==
    GoTo(t, "authenticate_start.save", [allow |-> {}]) /\ UNCHANGED <<cookies, drawn>>

\* rocket_server has made a sid before it refuses, and it goes out with the
\* error; json_with_sid is not reached by an error.
Refuse(t) ==
    IF Async THEN Show(t, "page", RegisterFirst) /\ UNCHANGED <<cookies, drawn>>
    ELSE /\ sid_or_new(t) <= MaxSids
         /\ drawn' = [drawn EXCEPT !.sid = IF sid_or_new(t) > @ THEN sid_or_new(t) ELSE @]
         /\ Arrives(t, "page", RegisterFirst, ReplyCookie(t))

AuthenticateStart(t) ==
    /\ tabs[t].at = "authenticate_start"
    /\ IF user.credentials = <<>> THEN Refuse(t)
       ELSE /\ GoTo(t, "authenticate_start.save", [allow |-> CredentialIds])
            /\ UNCHANGED <<cookies, drawn>>
    /\ ~Durable
    /\ UNCHANGED <<sessions, devices, server, user, log, acked, faults>>

SqliteAuthenticateStart(t) ==
    /\ tabs[t].at = "authenticate_start"
    /\ Durable
    /\ UserId <= MaxChallenges
    /\ ensure_user
    /\ IF user.credentials = <<>> THEN Show(t, "page", RegisterFirst)
       ELSE GoTo(t, "authenticate_start.save", [allow |-> CredentialIds, handle |-> UserId])
    /\ UNCHANGED <<sessions, cookies, devices, server, log, acked, faults>>

AuthenticateStartSave(t) ==
    LET allow == tabs[t].data.allow
        state == IF Durable
                 THEN start_authentication_for_user(NewChallenge, tabs[t].data.handle, allow, Now)
                 ELSE start_authentication(NewChallenge, allow, Now)
    IN  /\ tabs[t].at = "authenticate_start.save"
        /\ Save(sid_or_new(t), DefaultSession, "auth_state", state)
        /\ Reply(t, "get", [challenge |-> NewChallenge, allow |-> allow], ReplyCookie(t))
        /\ UNCHANGED <<devices, server, user, log, acked>>

AuthenticateFinish(t) ==
    Take(t, "authenticate_finish", "auth_state", "authenticate_finish.verify")

\* Mutant: the counter is set in the row that was read, and not written back.
AuthenticateFinishVerify_copy(t) ==
    /\ tabs[t].at = "authenticate_finish.verify"
    /\ \E response \in {AssertionOf(Wa, tabs[t].data.answer)} :
          LET a == tabs[t].data.answer
              i == Find(user.credentials, a.id)
          IN  IF i # 0 /\ finish_authentication(Wa, tabs[t].data.state, response,
                                                user.credentials[i], Now) = Ok
              THEN /\ log' = Append(log, Event("get", a.id, a.challenge, a.count, user.id))
                   /\ GoTo(t, "authenticate_finish.reply", [entry |-> Len(log) + 1])
              ELSE Done(t) /\ UNCHANGED log
    /\ UNCHANGED <<sessions, cookies, devices, drawn, server, user, acked, faults>>

\* Under the lock of the user, or of the store: find the credential, verify, and
\* write the counter, all before the reply.
AuthenticateFinishVerify(t) ==
    /\ tabs[t].at = "authenticate_finish.verify"
    /\ \E response \in {AssertionOf(Wa, tabs[t].data.answer)} :
          LET a == tabs[t].data.answer
              i == Find(user.credentials, a.id)
          IN  IF i # 0 /\ finish_authentication(Wa, tabs[t].data.state, response,
                                                user.credentials[i], Now) = Ok
              THEN /\ user' = [user EXCEPT !.credentials[i].counter =
                               response.authenticator_data.value.sign_count]
                   /\ log' = Append(log, Event("get", a.id, a.challenge, a.count, user.id))
                   /\ GoTo(t, "authenticate_finish.reply", [entry |-> Len(log) + 1])
              ELSE Done(t) /\ UNCHANGED <<user, log>>
    /\ UNCHANGED <<sessions, cookies, devices, drawn, server, acked, faults>>

AuthenticateFinishReply(t) == Acknowledge(t, "authenticate_finish.reply")

Handler(t) ==
    \/ AxumRegisterStart(t) \/ RocketRegisterStart(t) \/ SqliteRegisterStart(t)
    \/ RegisterStartSave(t) \/ AxumRegisterStartPersist(t)
    \/ RegisterFinish(t) \/ RegisterFinishPush(t) \/ RegisterFinishReply(t)
    \/ AuthenticateStart(t) \/ SqliteAuthenticateStart(t) \/ AuthenticateStartSave(t)
    \/ AuthenticateFinish(t) \/ AuthenticateFinishVerify(t) \/ AuthenticateFinishReply(t)

-----------------------------------------------------------------------------
(* What goes wrong. *)

Requests == {"register_start", "register_finish", "authenticate_start", "authenticate_finish"}

\* The sections that an axum handler enters through an await.
Awaits == {"register_start.save", "register_start.persist", "register_finish.push",
           "authenticate_start.save", "authenticate_finish.verify"}

\* A request does not arrive, or its handler is dropped between two sections.
Cancel(t) ==
    /\ tabs[t].at \in Requests \cup (IF Async THEN Awaits ELSE {})
    /\ Done(t)
    /\ Fault
    /\ UNCHANGED <<sessions, cookies, devices, drawn, server, user, log, acked>>

\* Mutant: the database is opened in memory.
Restart_in_memory ==
    /\ Stop
    /\ user' = NoUser
    /\ acked' = IF Durable THEN acked ELSE {}
    /\ Fault
    /\ UNCHANGED <<server, log>>

\* The process stops, between any two sections, and main runs again: requests
\* and sessions are lost, browsers keep their pages and cookies.
Restart ==
    /\ Stop
    /\ user' = IF Durable THEN user ELSE NoUser
    /\ acked' = IF Durable THEN acked ELSE {}
    /\ Fault
    /\ UNCHANGED <<server, log>>

Twice(t) ==
    /\ \E u \in Tabs : Duplicate(t, u)
    /\ Fault
    /\ UNCHANGED <<server, user, log, acked>>

Faults == Restart \/ \E t \in Tabs : Cancel(t) \/ Twice(t)

-----------------------------------------------------------------------------
(* The page. *)

Clicks(t) ==
    \E handler \in {"register_start", "authenticate_start"} : Click(t, handler, None)

Answers(t) == \E d \in Devices : Create(t, d) \/ Get(t, d)

Page(t) ==
    /\ Clicks(t) \/ Answers(t) \/ Abandon(t)
    /\ UNCHANGED <<server, user, log, acked, faults>>

Next == Faults \/ \E t \in Tabs : Handler(t) \/ Page(t)

Spec == Init /\ [][Next]_vars

-----------------------------------------------------------------------------
(* A user who keeps trying, in one tab, while the rest of the world goes wrong *)
(* or gets in the way a bounded number of times.                               *)

SignedInBefore == \E n \in acked : log[n].kind = "get"

\* Sign in; after "register first", and when no device has a passkey for the
\* challenge, register; when every device has one already, sign in again.
KeepTrying(t) ==
    /\ ~SignedInBefore
    /\ \/ /\ tabs[t].at = "page"
          /\ Click(t, IF tabs[t].data = RegisterFirst THEN "register_start"
                      ELSE "authenticate_start", None)
       \/ Answers(t)
       \/ /\ tabs[t].at = "create" /\ \A d \in Devices : Excluded(tabs[t].data, d)
          /\ Abandon(t)
       \/ /\ tabs[t].at = "get" /\ \A d \in Devices : Usable(tabs[t].data, d) = {}
          /\ Show(t, "page", RegisterFirst)
          /\ UNCHANGED <<sessions, cookies, devices, drawn>>
    /\ UNCHANGED <<server, user, log, acked, faults>>

\* Another tab's click, or a challenge that the user lets go.
Interfere ==
    /\ \/ \E t \in Tabs \ {Visitor} : Clicks(t) \/ Abandon(t)
       \/ Abandon(Visitor)
    /\ Fault
    /\ UNCHANGED <<server, user, log, acked>>

Elsewhere(t) ==
    /\ t # Visitor
    /\ Answers(t)
    /\ UNCHANGED <<server, user, log, acked, faults>>

LiveNext ==
    \/ Faults
    \/ KeepTrying(Visitor)
    \/ Interfere
    \/ \E t \in Tabs : Handler(t) \/ Elsewhere(t)

\* A handler that runs goes on: no lock is held across an await, and the worker
\* threads are scheduled.  The user does not give up.  Nothing else is fair.
Fairness ==
    /\ \A t \in Tabs : WF_vars(Handler(t))
    /\ WF_vars(KeepTrying(Visitor))

LiveSpec == Init /\ [][LiveNext]_vars /\ Fairness

-----------------------------------------------------------------------------
(* Properties. *)

Sections == {"page", "create", "get", "register_finish.reply", "authenticate_finish.reply"}
            \cup Requests \cup Awaits

Events ==
    [kind : {"create", "get"}, id : Devices \X (1..MaxChallenges), challenge : 1..MaxChallenges,
     count : 0..MaxChallenges, user_id : Nat]

\* The ids that a registration may be for.  But for axum_server it is the user's.
UserIds == {id \in 1..drawn.handle : server # "axum_server" => id = user.id}

RegistrationOK(state, ids, n) ==
    /\ DOMAIN state = {"challenge", "user_id", "created_at"}
    /\ state.challenge \in 1..n /\ state.user_id \in ids

AuthenticationOK(state, durable, n) ==
    /\ DOMAIN state = {"challenge", "allow_credentials", "created_at", "user_handle"}
    /\ state.challenge \in 1..n /\ state.allow_credentials # {}
    /\ state.user_handle # None <=> durable

SessionOK(s) ==
    /\ sessions[s].reg_state # None
          => RegistrationOK(sessions[s].reg_state, UserIds, drawn.challenge)
    /\ sessions[s].auth_state # None
          => AuthenticationOK(sessions[s].auth_state, Durable, drawn.challenge)

UserOK ==
    /\ DOMAIN user = {"id", "credentials"}
    /\ user.id \in 0..drawn.handle
    /\ user.credentials \in Seq(PasskeyCredentials)

\* The credential of an entry of the log is stored, with at least that count.
Stored(n) ==
    \E i \in DOMAIN user.credentials :
        user.credentials[i].id = log[n].id /\ user.credentials[i].counter >= log[n].count

\* What a request carries from one section to the next; what is written before a
\* reply is there when the reply is sent.
PlaceOK(t) ==
    LET data == tabs[t].data IN
    /\ tabs[t].at \in Sections
    /\ tabs[t].at = "register_start.save" => data.id \in UserIds
    /\ tabs[t].at = "register_start.persist" => data.handle \in UserIds /\ tabs[t].sid # None
    /\ tabs[t].at \in {"register_start.persist", "create"} => data.finish = "register_finish"
    /\ tabs[t].at = "register_finish.push" => RegistrationOK(data.state, UserIds, drawn.challenge)
    /\ tabs[t].at = "authenticate_start.save"
          => data.allow # {} /\ (Durable => data.handle \in UserIds)
    /\ tabs[t].at = "authenticate_finish.verify"
          => AuthenticationOK(data.state, Durable, drawn.challenge)
    /\ tabs[t].at \in {"register_finish.reply", "authenticate_finish.reply"}
          => data.entry \in DOMAIN log /\ Stored(data.entry)

\* Every table, session and request holds values of its kind.
TypeOK ==
    /\ server \in Servers /\ faults \in 0..MaxFaults
    /\ WebOK(DefaultSession)
    /\ UserOK
    /\ log \in Seq(Events)
    /\ acked \subseteq DOMAIN log
    /\ \A s \in Sids : sessions[s] # None => SessionOK(s)
    /\ \A t \in Tabs : PlaceOK(t)

\* register_finish and authenticate_finish take the state out of the session:
\* whatever is delivered twice, cancelled or cut off by a restart, a challenge is
\* accepted at most once.
ChallengeAcceptedOnce ==
    \A i, j \in DOMAIN log : i # j => log[i].challenge # log[j].challenge

\* Writes come before replies: what a page was told is in the table, with at
\* least that counter, and for axum_sqlite it survives restarts.
AcknowledgedIsStored ==
    \A n \in acked : Stored(n)

\* ensure_user, and rocket_server under its lock: two first registrations agree
\* on the user's id, so that every stored credential carries it.  axum_sqlite
\* needs that: its sign-in asks for the id.  axum_server draws the id in one
\* section and keeps it in a later one, so that a second draw may come between;
\* its sign-in asks for no id.
CredentialsCarryTheUserId ==
    \A n \in DOMAIN log :
        log[n].kind = "create" /\ log[n].id \in CredentialIds /\ server # "axum_server"
            => log[n].user_id = user.id

Accepted == {log[n].challenge : n \in DOMAIN log}

\* Take and push are sections of their own: between them the state is in the
\* request and no longer in the session, it is in one place at most, and in none
\* once its challenge was accepted.
InOnePlace == HeldOnce(InSessions, InRequests, Accepted, drawn.challenge)

\* The id of a credential tells the challenge that it was created for, so that no
\* later registration brings an id back, for another user id.
CreatedForItsChallenge ==
    \A n \in DOMAIN log :
        log[n].kind = "create" => log[n].id[2] = log[n].challenge /\ log[n].user_id # 0

\* The invariant that the others follow from.
IInv ==
    /\ TypeOK /\ InOnePlace /\ ChallengeAcceptedOnce
    /\ AcknowledgedIsStored /\ CreatedForItsChallenge /\ CredentialsCarryTheUserId

\* A credential was created for a challenge that is spent, also when it was lost in
\* a restart, so that no registration brings its id back; no two are stored with
\* one id, in memory as in the database.
StoredOnce ==
    /\ \A n \in DOMAIN log : log[n].id[2] \in Accepted
    /\ \A i \in DOMAIN user.credentials : user.credentials[i].id[2] \in Accepted
    /\ \A i, j \in DOMAIN user.credentials :
          user.credentials[i].id = user.credentials[j].id => i = j

\* Seen from outside, each server is a registry of the one user's credentials;
\* that of axum_sqlite outlives its process.
Registry ==
    INSTANCE CredentialRegistry WITH
        Ids      <- Devices \X (1..MaxChallenges),
        Owners   <- {"alice"},
        Counts   <- 0..MaxChallenges,
        Absent   <- None,
        durable  <- Durable,
        registry <- [id \in Devices \X (1..MaxChallenges) |->
                        LET i == Find(user.credentials, id) IN
                        IF i = 0 THEN None
                        ELSE [owner |-> "alice", count |-> user.credentials[i].counter]],
        history  <- [n \in DOMAIN log |->
                        [kind |-> log[n].kind, id |-> log[n].id, owner |-> "alice",
                         count |-> log[n].count]]

ImplementsRegistry == Registry!Spec

\* A user who keeps trying signs in at last, whichever server runs and wherever
\* restarts, lost replies, dropped handlers and another tab get in the way: no
\* session, cookie or half-done registration is a dead end.
PersistenceSignsIn == <>SignedInBefore
=============================================================================
