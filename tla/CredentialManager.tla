-------------------------- MODULE CredentialManager --------------------------
(***************************************************************************)
(* The example server src/examples/rocket_credential_manager.rs: one user   *)
(* who registers, signs in, and once signed in adds and removes credentials.*)
(* Its handlers run concurrently on worker threads and share the user and   *)
(* the session table, each behind a mutex.                                  *)
(***************************************************************************)
EXTENDS WebSession, SequencesExt

VARIABLES
    user,       \* the one user: [handle, credentials]
    log,        \* history: what was accepted and removed, in order
    minted      \* history: per sid, the browser whose sign-in it was minted for

vars == <<web, user, log, minted>>

Wa == Configured(FALSE)

DefaultSession == [reg_state |-> None, auth_state |-> None, signed_in |-> FALSE]

Init ==
    /\ WebInit
    /\ user = [handle |-> 0, credentials |-> <<>>]
    /\ log = <<>>
    /\ minted = [s \in Sids |-> None]

\* A handler's last section: the reply arrives or is lost.
Reply(t, place, data, cookie) ==
    \/ Arrives(t, place, data, cookie)
    \/ Done(t) /\ UNCHANGED cookies

\* The state is saved and the challenge sent, with the cookie if the request had
\* none.
SaveAndReply(t, field, state, place, data) ==
    /\ Save(sid_or_new(t), DefaultSession, field, state)
    /\ Reply(t, place, data, IF tabs[t].sid = None THEN sid_or_new(t) ELSE Cookie(t))
    /\ UNCHANGED <<user, devices, log, minted>>

SignedIn(sid) == sid # None /\ sessions[sid] # None /\ sessions[sid].signed_in

\* require_signed_in, the first section of a handler.
RequireSignedIn(t, handler, section) ==
    /\ tabs[t].at = handler
    /\ IF SignedIn(tabs[t].sid) THEN GoTo(t, section, tabs[t].data) ELSE Done(t)
    /\ UNCHANGED <<user, sessions, cookies, devices, drawn, log, minted>>

\* take_reg_state and take_auth_state.
Take(t, section, field, next) ==
    TakeState(t, section, field, next) /\ UNCHANGED <<user, log, minted>>

Event(kind, id, challenge, count) ==
    [kind |-> kind, id |-> id, challenge |-> challenge, count |-> count]

CredentialIds == {user.credentials[i].id : i \in DOMAIN user.credentials}

-----------------------------------------------------------------------------
(* POST /register/start and POST /register/finish *)

RegisterStart(t) ==
    /\ tabs[t].at = "register_start"
    /\ IF user.credentials = <<>> THEN GoTo(t, "register_start.handle", None) ELSE Done(t)
    /\ UNCHANGED <<user, sessions, cookies, devices, drawn, log, minted>>

RegisterStartHandle(t) ==
    LET handle == drawn.handle + 1 IN
    /\ tabs[t].at = "register_start.handle"
    /\ drawn.handle < MaxChallenges
    /\ drawn' = [drawn EXCEPT !.handle = handle]
    /\ user' = [user EXCEPT !.handle = handle]
    /\ GoTo(t, "register_start.save", [handle |-> handle])
    /\ UNCHANGED <<sessions, cookies, devices, log, minted>>

RegisterStartSave(t) ==
    LET handle == tabs[t].data.handle IN
    /\ tabs[t].at = "register_start.save"
    /\ SaveAndReply(t, "reg_state", start_registration(NewChallenge, handle, Now), "create",
                    [challenge |-> NewChallenge, handle |-> handle, exclude |-> {},
                     finish |-> "register_finish"])

RegisterFinish(t) == Take(t, "register_finish", "reg_state", "register_finish.push")

\* The last section of both registrations: verify, then push.
Push(t, section, kind) ==
    LET a        == tabs[t].data.answer
        response == RegistrationOf(Wa, a)
        new      == NewCredential(response)
    IN  /\ tabs[t].at = section
        /\ IF finish_registration(Wa, tabs[t].data.state, response, Now) = Ok
           THEN /\ user' = [user EXCEPT !.credentials =
                               Append(@, [id |-> new.id, counter |-> new.counter,
                                          public_key_cose |-> new.public_key_cose])]
                /\ log' = Append(log, Event(kind, new.id, a.challenge, new.counter))
           ELSE UNCHANGED <<user, log>>
        /\ Done(t)
        /\ UNCHANGED <<sessions, cookies, devices, drawn, minted>>

RegisterFinishPush(t) == Push(t, "register_finish.push", "create")

-----------------------------------------------------------------------------
(* POST /authenticate/start and POST /authenticate/finish *)

AuthenticateStart(t) ==
    /\ tabs[t].at = "authenticate_start"
    /\ IF user.credentials = <<>> THEN Done(t)
       ELSE GoTo(t, "authenticate_start.save", [handle |-> user.handle, allow |-> CredentialIds])
    /\ UNCHANGED <<user, sessions, cookies, devices, drawn, log, minted>>

\* Mutant: the ceremony is started for nobody.
AuthenticateStartSave_for_nobody(t) ==
    LET snapshot == tabs[t].data IN
    /\ tabs[t].at = "authenticate_start.save"
    /\ SaveAndReply(t, "auth_state", start_authentication(NewChallenge, snapshot.allow, Now),
                    "get", [challenge |-> NewChallenge, allow |-> snapshot.allow])

AuthenticateStartSave(t) ==
    LET snapshot == tabs[t].data IN
    /\ tabs[t].at = "authenticate_start.save"
    /\ SaveAndReply(t, "auth_state",
                    start_authentication_for_user(NewChallenge, snapshot.handle,
                                                  snapshot.allow, Now),
                    "get", [challenge |-> NewChallenge, allow |-> snapshot.allow])

AuthenticateFinish(t) ==
    Take(t, "authenticate_finish", "auth_state", "authenticate_finish.verify")

\* Mutant: the credential is the one that the ceremony started with, put back
\* when it is no longer there.
AuthenticateFinishVerify_stale(t) ==
    LET a        == tabs[t].data.answer
        response == AssertionOf(Wa, a)
        stale    == [id |-> a.id, counter |-> 0, public_key_cose |-> cose_pubkey(a.id)]
        others   == SelectSeq(user.credentials, LAMBDA c : c.id # a.id)
    IN  /\ tabs[t].at = "authenticate_finish.verify"
        /\ IF finish_authentication(Wa, tabs[t].data.state, response, stale, Now) = Ok
           THEN /\ user' = [user EXCEPT !.credentials =
                               Append(others, [stale EXCEPT !.counter = a.count])]
                /\ log' = Append(log, Event("get", a.id, a.challenge, a.count))
                /\ GoTo(t, "authenticate_finish.rotate", None)
           ELSE Done(t) /\ UNCHANGED <<user, log>>
        /\ UNCHANGED <<sessions, cookies, devices, drawn, minted>>

\* Under the user's lock: find the credential, verify, store the counter.
AuthenticateFinishVerify(t) ==
    LET a        == tabs[t].data.answer
        response == AssertionOf(Wa, a)
        i        == Find(user.credentials, a.id)
    IN  /\ tabs[t].at = "authenticate_finish.verify"
        /\ IF i # 0 /\ finish_authentication(Wa, tabs[t].data.state, response,
                                             user.credentials[i], Now) = Ok
           THEN /\ user' = [user EXCEPT !.credentials[i].counter =
                               response.authenticator_data.value.sign_count]
                /\ log' = Append(log, Event("get", a.id, a.challenge, a.count))
                /\ GoTo(t, "authenticate_finish.rotate", None)
           ELSE Done(t) /\ UNCHANGED <<user, log>>
        /\ UNCHANGED <<sessions, cookies, devices, drawn, minted>>

\* Mutant: the session is marked as signed in under its old sid.
AuthenticateFinishRotate_no_rotation(t) ==
    LET sid == tabs[t].sid IN
    /\ tabs[t].at = "authenticate_finish.rotate"
    /\ sessions' = [sessions EXCEPT ![sid] = [DefaultSession EXCEPT !.signed_in = TRUE]]
    /\ minted' = [minted EXCEPT ![sid] = tabs[t].browser]
    /\ Reply(t, "page", None, sid)
    /\ UNCHANGED <<user, devices, drawn, log>>

\* The old session goes, a signed-in one comes under a fresh sid.
AuthenticateFinishRotate(t) ==
    LET sid == drawn.sid + 1 IN
    /\ tabs[t].at = "authenticate_finish.rotate"
    /\ sid <= MaxSids
    /\ drawn' = [drawn EXCEPT !.sid = sid]
    /\ sessions' = [sessions EXCEPT ![tabs[t].sid] = None,
                                    ![sid] = [DefaultSession EXCEPT !.signed_in = TRUE]]
    /\ minted' = [minted EXCEPT ![sid] = tabs[t].browser]
    /\ Reply(t, "page", None, sid)
    /\ UNCHANGED <<user, devices, log>>

-----------------------------------------------------------------------------
(* POST /credentials/add/start, /credentials/add/finish and                   *)
(* /credentials/<id_b64>/delete                                               *)

AddCredentialStart(t) == RequireSignedIn(t, "add_credential_start", "add_credential_start.user")

AddCredentialStartUser(t) ==
    /\ tabs[t].at = "add_credential_start.user"
    /\ GoTo(t, "add_credential_start.save",
            [handle |-> user.handle, existing |-> CredentialIds])
    /\ UNCHANGED <<user, sessions, cookies, devices, drawn, log, minted>>

AddCredentialStartSave(t) ==
    LET snapshot == tabs[t].data IN
    /\ tabs[t].at = "add_credential_start.save"
    /\ SaveAndReply(t, "reg_state", start_registration(NewChallenge, snapshot.handle, Now),
                    "create",
                    [challenge |-> NewChallenge, handle |-> snapshot.handle,
                     exclude |-> snapshot.existing, finish |-> "add_credential_finish"])

AddCredentialFinish(t) ==
    RequireSignedIn(t, "add_credential_finish", "add_credential_finish.take")

AddCredentialFinishTake(t) ==
    Take(t, "add_credential_finish.take", "reg_state", "add_credential_finish.push")

AddCredentialFinishPush(t) == Push(t, "add_credential_finish.push", "add")

DeleteCredential(t) == RequireSignedIn(t, "delete", "delete.user")

\* `credentials.retain(|c| c.id != target)`: the others, in their order.  (The
\* SelectSeq of Sequences is recursive, and nothing can be proved about it.)
retain(credentials, target) ==
    LET others == {i \in DOMAIN credentials : credentials[i].id # target}
    IN  [n \in 1..Cardinality(others) |->
            credentials[CHOOSE i \in others : Cardinality({j \in others : j < i}) = n - 1]]

\* Mutant: off by one in the test for the last credential.
DeleteCredentialUser_last(t) ==
    LET target == tabs[t].data.target IN
    /\ tabs[t].at = "delete.user"
    /\ IF Len(user.credentials) >= 1 /\ target \in CredentialIds
       THEN /\ user' = [user EXCEPT !.credentials = retain(@, target)]
            /\ log' = Append(log, Event("delete", target, 0, 0))
       ELSE UNCHANGED <<user, log>>
    /\ Done(t)
    /\ UNCHANGED <<sessions, cookies, devices, drawn, minted>>

DeleteCredentialUser(t) ==
    LET target == tabs[t].data.target IN
    /\ tabs[t].at = "delete.user"
    /\ IF Len(user.credentials) > 1 /\ target \in CredentialIds
       THEN /\ user' = [user EXCEPT !.credentials = retain(@, target)]
            /\ log' = Append(log, Event("delete", target, 0, 0))
       ELSE UNCHANGED <<user, log>>
    /\ Done(t)
    /\ UNCHANGED <<sessions, cookies, devices, drawn, minted>>

Handler(t) ==
    \/ RegisterStart(t) \/ RegisterStartHandle(t) \/ RegisterStartSave(t)
    \/ RegisterFinish(t) \/ RegisterFinishPush(t)
    \/ AuthenticateStart(t) \/ AuthenticateStartSave(t)
    \/ AuthenticateFinish(t) \/ AuthenticateFinishVerify(t) \/ AuthenticateFinishRotate(t)
    \/ AddCredentialStart(t) \/ AddCredentialStartUser(t) \/ AddCredentialStartSave(t)
    \/ AddCredentialFinish(t) \/ AddCredentialFinishTake(t) \/ AddCredentialFinishPush(t)
    \/ DeleteCredential(t) \/ DeleteCredentialUser(t)

\* The rendered list may be any earlier one.
ClickRemove(t) ==
    \E i \in DOMAIN log : log[i].kind \in {"create", "add"} /\ Click(t, "delete", [target |-> log[i].id])

Page(t) ==
    /\ \/ \E handler \in {"register_start", "authenticate_start", "add_credential_start"} :
             Click(t, handler, None)
       \/ ClickRemove(t)
       \/ Abandon(t)
       \/ \E u \in Tabs : Duplicate(t, u)
       \/ \E d \in Devices : Create(t, d) \/ Get(t, d)
    /\ UNCHANGED <<user, log, minted>>

Next == \E t \in Tabs : Handler(t) \/ Page(t)

Spec == Init /\ [][Next]_vars

-----------------------------------------------------------------------------
(* Properties. *)

Sections ==
    {"page", "create", "get", "register_start", "register_start.handle",
     "register_start.save", "register_finish", "register_finish.push", "authenticate_start",
     "authenticate_start.save", "authenticate_finish", "authenticate_finish.verify",
     "authenticate_finish.rotate", "add_credential_start", "add_credential_start.user",
     "add_credential_start.save", "add_credential_finish", "add_credential_finish.take",
     "add_credential_finish.push", "delete", "delete.user"}

\* What the log holds: answers, and removals.
Answered ==
    [kind : {"create", "add", "get"}, id : Devices \X (1..MaxChallenges),
     challenge : 1..MaxChallenges, count : 0..MaxChallenges]
Removals ==
    [kind : {"delete"}, id : Devices \X (1..MaxChallenges), challenge : {0}, count : {0}]

\* A registration, and a sign-in, of one of n challenges; a handle is 0 or drawn.
RegistrationOK(state, handles, n) ==
    /\ DOMAIN state = {"challenge", "user_id", "created_at"}
    /\ state.challenge \in 1..n /\ state.user_id \in 0..handles

AuthenticationOK(state, handles, n) ==
    /\ DOMAIN state = {"challenge", "allow_credentials", "created_at", "user_handle"}
    /\ state.challenge \in 1..n /\ state.user_handle \in 0..handles

SessionOK(s) ==
    /\ sessions[s].reg_state # None
          => RegistrationOK(sessions[s].reg_state, drawn.handle, drawn.challenge)
    /\ sessions[s].auth_state # None
          => AuthenticationOK(sessions[s].auth_state, drawn.handle, drawn.challenge)
    /\ sessions[s].signed_in \in BOOLEAN

UserOK ==
    /\ DOMAIN user = {"handle", "credentials"}
    /\ user.handle \in 0..drawn.handle
    /\ user.credentials \in Seq(PasskeyCredentials)

\* What a request carries from one section to the next.
PlaceOK(t) ==
    LET data == tabs[t].data IN
    /\ tabs[t].at \in Sections
    /\ tabs[t].at \in {"register_start.save", "authenticate_start.save", "add_credential_start.save"}
          => data.handle \in 0..drawn.handle
    /\ tabs[t].at \in {"register_finish.push", "add_credential_finish.push"}
          => RegistrationOK(data.state, drawn.handle, drawn.challenge)
    /\ tabs[t].at = "authenticate_finish.verify"
          => AuthenticationOK(data.state, drawn.handle, drawn.challenge)

\* Every table, session and request holds values of its kind.
TypeOK ==
    /\ WebOK(DefaultSession)
    /\ UserOK
    /\ log \in Seq(Answered \cup Removals)
    /\ minted \in [Sids -> Browsers \cup {None}]
    /\ \A s \in Sids : sessions[s] # None => SessionOK(s)
    /\ \A t \in Tabs : PlaceOK(t)

\* take_reg_state and take_auth_state remove the state under the lock, before
\* anything is verified: however requests with one cookie interleave, and also
\* when one arrives twice, a challenge is accepted at most once.
ChallengeAcceptedOnce ==
    \A i, j \in DOMAIN log :
        i # j /\ log[i].kind # "delete" => log[i].challenge # log[j].challenge

\* delete_credential refuses to delete the last credential: two removals that
\* both saw two credentials never leave the user with none.
NeverLockedOut == [][user.credentials # <<>> => user'.credentials # <<>>]_vars

\* authenticate_finish looks the credential up when the answer arrives, not when
\* the ceremony starts: nothing is accepted for a credential after its removal,
\* and it does not come back.
RemovedStaysRemoved ==
    \A i, j \in DOMAIN log :
        i < j /\ log[i].kind = "delete" => log[j].id # log[i].id

\* The rotation in authenticate_finish, against session fixation: a browser that
\* sends a signed-in sid is the one whose sign-in minted it, also when all of
\* them started with the same planted cookie.
OnlyItsBrowserIsSignedIn ==
    \A b \in Browsers : SignedIn(cookies[b]) => minted[cookies[b]] = b

Accepted == {log[n].challenge : n \in DOMAIN log}

Removed == {log[n].id : n \in {m \in DOMAIN log : log[m].kind = "delete"}}

\* Take and push are sections of their own: between them the state is in the
\* request and no longer in the session, it is in one place at most, and in none
\* once its challenge was accepted.
InOnePlace == HeldOnce(InSessions, InRequests, Accepted, drawn.challenge)

\* A credential that is stored or was removed was created for a challenge that is
\* spent, so that no registration brings its id back; none is stored twice, or
\* after its removal.
StoredOnce ==
    /\ \A id \in CredentialIds \cup Removed : id[2] \in Accepted
    /\ CredentialIds \cap Removed = {}
    /\ \A i, j \in DOMAIN user.credentials :
          user.credentials[i].id = user.credentials[j].id => i = j

\* Whoever carries a signed-in sid, also in a request that is on its way, is the
\* browser that it was minted for.
SidsCarriedByTheirBrowser ==
    \A s \in Sids : SignedIn(s) => \A b \in Carriers(s) : minted[s] = b

\* The invariant that the others follow from.
IInv ==
    /\ TypeOK /\ InOnePlace /\ ChallengeAcceptedOnce
    /\ StoredOnce /\ RemovedStaysRemoved /\ SidsCarriedByTheirBrowser

\* Seen from outside, the server is a registry of its user's credentials: because
\* authenticate_finish verifies and stores under one lock, and both registrations
\* take their state first, an id is registered once, signs in with ever greater
\* counts whatever sign-ins run side by side, and only until it is removed.
Registry ==
    INSTANCE CredentialRegistry WITH
        Ids      <- Devices \X (1..MaxChallenges),
        Owners   <- {"alice"},
        Counts   <- 0..MaxChallenges,
        Absent   <- None,
        durable  <- TRUE,     \* there is no restart in this module
        registry <- [id \in Devices \X (1..MaxChallenges) |->
                        IF id \notin CredentialIds THEN None
                        ELSE LET i == CHOOSE i \in DOMAIN user.credentials :
                                         user.credentials[i].id = id
                             IN  [owner |-> "alice", count |-> user.credentials[i].counter]],
        history  <- [n \in DOMAIN log |->
                        [kind |-> CASE log[n].kind = "get" -> "get"
                                    [] log[n].kind = "delete" -> "remove"
                                    [] OTHER -> "create",
                         id |-> log[n].id, owner |-> "alice", count |-> log[n].count]]

ImplementsRegistry == Registry!Spec

-----------------------------------------------------------------------------
(* Statements of the example that it does not keep. *)

\* Lines 13-14: "After the first credential is registered, the user can sign in":
\* the handle that a sign-in asks for is the one that the credential was made
\* for, as long as its device still holds it.
RegisteredUserCanSignIn ==
    \A d \in Devices : \A k \in devices[d] :
        k.id \in CredentialIds => k.handle = user.handle

\* Lines 15-16: "Adding a new credential uses excludeCredentials so the user
\* cannot accidentally register the same authenticator twice".
AddedDeviceIsNew ==
    \A i, j \in DOMAIN user.credentials :
        i < j /\ user.credentials[i].id[1] = user.credentials[j].id[1]
            => \A n \in DOMAIN log : log[n].kind = "add" => log[n].id # user.credentials[j].id
=============================================================================
