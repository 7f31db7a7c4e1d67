------------------------------ MODULE WebSession ------------------------------
(***************************************************************************)
(* What the example servers of src/examples have in common around the       *)
(* ceremonies: a session table keyed by the sid cookie, browsers whose tabs *)
(* share that cookie, the script of the page in each tab, and               *)
(* authenticators.  A handler holds a mutex for one statement or block at a *)
(* time; a step of a server is one such section, and requests interleave    *)
(* between their sections.                                                  *)
(*                                                                          *)
(* A tab shows its page, waits for its authenticator, or waits for a        *)
(* request, which carries the cookie as it was when it was sent.  Random    *)
(* draws (challenges, user handles, sids) are counted, so that they never   *)
(* repeat.  The clock stands still.                                         *)
(***************************************************************************)
EXTENDS Authenticator, FiniteSets

CONSTANTS
    Tabs, Browsers,
    Arrangements,            \* the browser of each tab, and whether a sid was planted
    Devices,                 \* authenticators
    MaxChallenges, MaxSids   \* bounds

ASSUME WebAssumption ==
    /\ Arrangements \subseteq [browser_of : [Tabs -> Browsers], planted : BOOLEAN]
    /\ IsFiniteSet(Tabs)
    /\ MaxChallenges \in Nat /\ MaxSids \in Nat \ {0}
    /\ None \notin Nat

VARIABLES
    sessions,   \* the session table, by sid
    cookies,    \* each browser's sid cookie
    tabs,       \* each tab's page or request: [browser, at, sid, data]
    devices,    \* the credentials that each authenticator holds
    drawn       \* how many challenges, user handles and sids were drawn

web == <<sessions, cookies, tabs, devices, drawn>>

Sids == 1..MaxSids
Now  == 1

\* Webauthn::new; every example serves the same origin.
Configured(require_uv) ==
    [rp_id |-> "localhost", origin |-> "http://localhost:3000", require_uv |-> require_uv,
     strict_base64 |-> FALSE, require_user_handle |-> FALSE]

\* Browsers have no cookie, or one and the same was planted in each.
WebInit ==
    \E arranged \in Arrangements :
        /\ sessions = [s \in Sids |-> None]
        /\ cookies = [b \in Browsers |-> IF arranged.planted THEN 1 ELSE None]
        /\ tabs = [t \in Tabs |-> [browser |-> arranged.browser_of[t], at |-> "page",
                                   sid |-> None, data |-> None]]
        /\ devices = [d \in Devices |-> {}]
        /\ drawn = [challenge |-> 0, handle |-> 0, sid |-> IF arranged.planted THEN 1 ELSE 0]

-----------------------------------------------------------------------------
(* Requests and replies. *)

Cookie(t) == cookies[tabs[t].browser]

\* Tab t moves to a place, with nothing in flight.
Show(t, place, data) ==
    tabs' = [tabs EXCEPT ![t].at = place, ![t].sid = None, ![t].data = data]

\* Tab t sends a request, with the cookie its browser has.
Send(t, handler, data) ==
    tabs' = [tabs EXCEPT ![t].at = handler, ![t].sid = Cookie(t), ![t].data = data]

\* The handler goes on to its next section.
GoTo(t, section, data) == tabs' = [tabs EXCEPT ![t].at = section, ![t].data = data]

\* The request ends, by an error, a lost reply or a closed connection: the page
\* shows its buttons again.
Done(t) == Show(t, "page", None)

\* The reply arrives: the page goes on, and its browser takes the cookie.
Arrives(t, place, data, cookie) ==
    /\ Show(t, place, data)
    /\ cookies' = [cookies EXCEPT ![tabs[t].browser] = cookie]

-----------------------------------------------------------------------------
(* Sessions. *)

sid_or_new(t) == IF tabs[t].sid # None THEN tabs[t].sid ELSE drawn.sid + 1

NewChallenge == drawn.challenge + 1

\* Mutant: a sid from a cookie must have a session, as before a restart.
Save_known(sid, default, field, state) ==
    LET session == IF sessions[sid] = None THEN default ELSE sessions[sid] IN
    /\ drawn.challenge < MaxChallenges /\ sid <= MaxSids
    /\ drawn' = [drawn EXCEPT !.challenge = @ + 1,
                              !.sid = IF sid > @ THEN sid ELSE @]
    /\ sessions' = IF sessions[sid] = None /\ sid <= drawn.sid THEN sessions
                   ELSE [sessions EXCEPT ![sid] = [session EXCEPT ![field] = state]]

\* `sessions.entry(sid).or_default().<field> = Some(state)`, with a challenge
\* that was drawn for the state.
Save(sid, default, field, state) ==
    LET session == IF sessions[sid] = None THEN default ELSE sessions[sid] IN
    /\ drawn.challenge < MaxChallenges /\ sid <= MaxSids
    /\ drawn' = [drawn EXCEPT !.challenge = @ + 1,
                              !.sid = IF sid > @ THEN sid ELSE @]
    /\ sessions' = [sessions EXCEPT ![sid] = [session EXCEPT ![field] = state]]

\* Whether request t's session has a state in that field.
Pending(t, field) ==
    LET sid == tabs[t].sid IN
    sid # None /\ sessions[sid] # None /\ sessions[sid][field] # None

\* Mutant: the state is read and stays in the session.
TakeState_copy(t, section, field, next) ==
    /\ tabs[t].at = section
    /\ IF Pending(t, field)
       THEN GoTo(t, next, [answer |-> tabs[t].data, state |-> sessions[tabs[t].sid][field]])
       ELSE Done(t)
    /\ UNCHANGED <<sessions, cookies, devices, drawn>>

\* `get_mut(&sid).and_then(|s| s.<field>.take())`: the state leaves the session,
\* before anything is verified.
TakeState(t, section, field, next) ==
    /\ tabs[t].at = section
    /\ IF Pending(t, field)
       THEN /\ sessions' = [sessions EXCEPT ![tabs[t].sid][field] = None]
            /\ GoTo(t, next, [answer |-> tabs[t].data,
                              state  |-> sessions[tabs[t].sid][field]])
       ELSE Done(t) /\ UNCHANGED sessions
    /\ UNCHANGED <<cookies, devices, drawn>>

\* The process stops: its sessions and the requests on their way are lost,
\* browsers keep their pages and cookies.
Stop ==
    /\ sessions' = [s \in Sids |-> None]
    /\ tabs' = [t \in Tabs |-> IF tabs[t].at \in {"page", "create", "get"} THEN tabs[t]
                               ELSE [tabs[t] EXCEPT !.at = "page", !.sid = None, !.data = None]]
    /\ UNCHANGED <<cookies, devices, drawn>>

-----------------------------------------------------------------------------
(* Credentials. *)

\* `credentials.iter().find(|c| c.id == id)`: where it is; 0 if it is not there.
Find(credentials, id) == SelectInSeq(credentials, LAMBDA c : c.id = id)

-----------------------------------------------------------------------------
(* The pages. *)

Click(t, handler, data) ==
    /\ tabs[t].at = "page"
    /\ Send(t, handler, data)
    /\ UNCHANGED <<sessions, cookies, devices, drawn>>

\* The page is reloaded while the authenticator waits for its user.
Abandon(t) ==
    /\ tabs[t].at \in {"create", "get"}
    /\ Done(t)
    /\ UNCHANGED <<sessions, cookies, devices, drawn>>

\* A request reaches the server twice, as a retry or on a second connection.
Duplicate(t, u) ==
    /\ tabs[t].at \in {"register_finish", "authenticate_finish", "add_credential_finish"}
    /\ tabs[u].at = "page" /\ tabs[u].browser = tabs[t].browser
    /\ tabs' = [tabs EXCEPT ![u] = tabs[t]]
    /\ UNCHANGED <<sessions, cookies, devices, drawn>>

-----------------------------------------------------------------------------
(* Authenticators.  A credential id tells the device and the challenge it was *)
(* created for.                                                               *)

\* A device refuses when it holds an excluded credential.
Excluded(c, d) == \E k \in devices[d] : k.id \in c.exclude

\* With an empty allow list the user picks any passkey of the device.
Usable(c, d) == {k \in devices[d] : c.allow = {} \/ k.id \in c.allow}

\* A device keeps one credential per user handle.
Create(t, d) ==
    LET c  == tabs[t].data
        id == <<d, c.challenge>>
    IN  /\ tabs[t].at = "create"
        /\ ~Excluded(c, d)
        /\ devices' = [devices EXCEPT ![d] = {k \in @ : k.handle # c.handle}
                                             \cup {[id |-> id, handle |-> c.handle, count |-> 0]}]
        /\ Send(t, c.finish, [id |-> id, challenge |-> c.challenge])
        /\ UNCHANGED <<sessions, cookies, drawn>>

Get(t, d) ==
    LET c == tabs[t].data IN
    /\ tabs[t].at = "get"
    /\ \E k \in Usable(c, d) :
          /\ devices' = [devices EXCEPT ![d] = (@ \ {k}) \cup {[k EXCEPT !.count = @ + 1]}]
          /\ Send(t, "authenticate_finish",
                  [id |-> k.id, challenge |-> c.challenge, handle |-> k.handle,
                   count |-> k.count + 1])
    /\ UNCHANGED <<sessions, cookies, drawn>>

Gesture(wa) == IF wa.require_uv THEN {"UP", "UV"} ELSE {"UP"}

RegistrationOf(wa, a) ==
    RegistrationResponse(
        B64Url,
        none_attestation(auth_data_register(a.id, cose_pubkey(a.id), wa.rp_id, Gesture(wa), 0,
                                            "zeros")),
        client_data(TYPE_REGISTER, a.challenge, wa.origin))

AssertionOf(wa, a) ==
    AuthenticationResponse(
        B64Url, a.id, cose_pubkey(a.id),
        auth_data_authenticate(wa.rp_id, Gesture(wa), a.count), a.handle,
        client_data(TYPE_AUTHENTICATE, a.challenge, wa.origin))
-----------------------------------------------------------------------------
(* What is always true of browsers, requests and authenticators.             *)

PasskeyCredentials ==
    [id : Devices \X (1..MaxChallenges), counter : 0..MaxChallenges,
     public_key_cose : {cose_pubkey(id) : id \in Devices \X (1..MaxChallenges)}]

Issued == 1..drawn.challenge

\* Answers to a registration and to a sign-in, as a device gives them.
Registers(a) == a.challenge \in Issued /\ \E d \in Devices : a.id = <<d, a.challenge>>
SignsIn(a)   == a.challenge \in Issued /\ a.id \in Devices \X Issued /\ a.count \in Issued

RequestOK(t) ==
    LET data == tabs[t].data IN
    /\ DOMAIN tabs[t] = {"browser", "at", "sid", "data"}
    /\ tabs[t].browser \in Browsers
    /\ tabs[t].sid \in 1..drawn.sid \cup {None}
    /\ tabs[t].at \in {"register_start.persist", "create"}
          => data.challenge \in Issued
             /\ data.finish \in {"register_finish", "add_credential_finish"}
    /\ tabs[t].at = "get" => data.challenge \in Issued
    /\ tabs[t].at \in {"register_finish", "add_credential_finish", "add_credential_finish.take"}
          => Registers(data)
    /\ tabs[t].at \in {"register_finish.push", "add_credential_finish.push"}
          => Registers(data.answer)
    /\ tabs[t].at = "authenticate_finish" => SignsIn(data)
    /\ tabs[t].at = "authenticate_finish.verify" => SignsIn(data.answer)

TabsOK == DOMAIN tabs = Tabs /\ \A t \in Tabs : RequestOK(t)

SessionsOK(default) ==
    /\ DOMAIN sessions = Sids
    /\ \A s \in Sids : sessions[s] # None => s <= drawn.sid /\ DOMAIN sessions[s] = DOMAIN default

CookiesOK == cookies \in [Browsers -> 1..drawn.sid \cup {None}]

\* The browsers that have a sid, in their cookie or in a request.
Carriers(s) == {b \in Browsers : cookies[b] = s}
               \cup {tabs[t].browser : t \in {u \in Tabs : tabs[u].sid = s}}

\* The tabs whose page asks for a sign-in.
Getting == {t \in Tabs : tabs[t].at = "get"}

\* A device counts the sign-ins of a credential, each for another challenge.
DevicesOK ==
    /\ Cardinality(Getting) <= drawn.challenge
    /\ DOMAIN devices = Devices
    /\ \A d \in Devices : \A k \in devices[d] :
          /\ DOMAIN k = {"id", "handle", "count"}
          /\ k.id \in Devices \X Issued
          /\ k.count \in Nat
          /\ k.count + Cardinality(Getting) <= drawn.challenge

DrawnOK ==
    /\ DOMAIN drawn = {"challenge", "handle", "sid"}
    /\ drawn.challenge \in 0..MaxChallenges /\ drawn.handle \in Nat /\ drawn.sid \in 0..MaxSids

WebOK(default) ==
    TabsOK /\ SessionsOK(default) /\ CookiesOK /\ DevicesOK /\ DrawnOK

-----------------------------------------------------------------------------
(* Where the state of a ceremony can be: in a field of a session, or in a     *)
(* request that has taken it out.                                             *)

Fields  == {"reg_state", "auth_state"}
Holding == {"register_finish.push", "add_credential_finish.push", "authenticate_finish.verify"}

\* axum_passwordless saves a registration together with the name.
ChallengeOf(state) ==
    IF "username" \in DOMAIN state THEN state.reg_state.challenge ELSE state.challenge

\* The challenges of the states in the sessions and in the requests; 0 is none.
InSessions ==
    [s \in Sids |-> [f \in Fields |-> IF sessions[s] = None \/ sessions[s][f] = None THEN 0
                                      ELSE ChallengeOf(sessions[s][f])]]
InRequests ==
    [t \in Tabs |-> IF tabs[t].at \in Holding THEN ChallengeOf(tabs[t].data.state) ELSE 0]

\* Of n challenges, each is in one place at most, and no longer once it is spent.
HeldOnce(slots, requests, spent, n) ==
    /\ spent \subseteq 0..n
    /\ \A s \in Sids, f \in Fields : slots[s][f] \in 0..n /\ (slots[s][f] # 0 => slots[s][f] \notin spent)
    /\ \A t \in Tabs : requests[t] \in 0..n /\ (requests[t] # 0 => requests[t] \notin spent)
    /\ \A s, r \in Sids, f, g \in Fields :
          slots[s][f] # 0 /\ slots[s][f] = slots[r][g] => s = r /\ f = g
    /\ \A t, u \in Tabs : requests[t] # 0 /\ requests[t] = requests[u] => t = u
    /\ \A s \in Sids, f \in Fields, t \in Tabs : slots[s][f] # 0 => slots[s][f] # requests[t]
=============================================================================
