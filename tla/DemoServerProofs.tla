---------------------------- MODULE DemoServerProofs ----------------------------
(***************************************************************************)
(* Invariants of the three single-user servers, for any number of tabs,     *)
(* browsers, devices, challenges, sids and faults: IInv is inductive, and   *)
(* says that a challenge is accepted at most once, that what was            *)
(* acknowledged is stored, and that stored credentials carry the user's id. *)
(* At the end, that each of them implements the registry of credentials.    *)
(***************************************************************************)
EXTENDS DemoServer, WebSessionProofs

\* A session that was just made holds no state of a ceremony.
LEMMA DefaultFields ==
    /\ Fields = DOMAIN DefaultSession /\ \A f \in Fields : DefaultSession[f] = None
BY DEF Fields, DefaultSession

\* The parts of IInv that the lemmas of WebSessionProofs ask for.
LEMMA WebParts ==
    ASSUME IInv
    PROVE  /\ WebOK(DefaultSession) /\ Held(Accepted)
           /\ TabsOK /\ SessionsOK(DefaultSession) /\ CookiesOK /\ DevicesOK /\ DrawnOK
BY DEF IInv, TypeOK, WebOK, InOnePlace, Held

-----------------------------------------------------------------------------
(* What stays as it is while one tab moves.                                   *)

\* Draws only grow, and the user's id stays once there is one.
Grows ==
    /\ DrawnGrows /\ server' = server
    /\ UserIds \subseteq UserIds'

\* How a step comes to be one that Grows.
LEMMA UserIdsGrow ==
    ASSUME DrawnGrows, drawn.handle <= drawn'.handle, server' = server,
           server # "axum_server" /\ user.id # 0 => user'.id = user.id
    PROVE  Grows
<1>1. 1..drawn.handle \subseteq 1..drawn'.handle
  BY DEF DrawnGrows, DrawnOK
<1>2. ASSUME NEW id \in UserIds PROVE id \in UserIds'
  <2>1. id \in 1..drawn.handle /\ id # 0 /\ (server # "axum_server" => id = user.id)
    BY DEF UserIds, DrawnGrows, DrawnOK
  <2> QED  BY <1>1, <2>1 DEF UserIds
<1> QED  BY <1>2 DEF Grows

\* A state stays well-formed.
LEMMA StateKept ==
    ASSUME Grows, NEW state
    PROVE  /\ RegistrationOK(state, UserIds, drawn.challenge)
                 => RegistrationOK(state, UserIds', drawn'.challenge)
           /\ AuthenticationOK(state, Durable, drawn.challenge)
                 => AuthenticationOK(state, Durable', drawn'.challenge)
<1>1. 1..drawn.challenge \subseteq 1..drawn'.challenge
  BY DEF Grows, DrawnGrows, DrawnOK
<1>2. Durable' = Durable /\ UserIds \subseteq UserIds'
  BY DEF Grows, Durable
<1> HIDE DEF Durable, UserIds
<1> QED  BY <1>1, <1>2 DEF RegistrationOK, AuthenticationOK

\* What is stored stays stored, with the counts that it has or greater ones.
LEMMA StoredKept ==
    ASSUME NEW n \in DOMAIN log, Stored(n), log'[n] = log[n],
           user.credentials \in Seq(PasskeyCredentials),
           DOMAIN user.credentials \subseteq DOMAIN user'.credentials,
           \A i \in DOMAIN user.credentials :
              /\ user'.credentials[i].id = user.credentials[i].id
              /\ user'.credentials[i].counter \in Nat
              /\ user'.credentials[i].counter >= user.credentials[i].counter,
           log[n].count \in Nat
    PROVE  Stored(n)'
<1>1. PICK i \in DOMAIN user.credentials :
         user.credentials[i].id = log[n].id /\ user.credentials[i].counter >= log[n].count
  BY DEF Stored
<1>2. user.credentials[i].counter \in Nat
  <2>1. user.credentials[i] \in PasskeyCredentials
    OBVIOUS
  <2> QED  BY <2>1, WebAssumption DEF PasskeyCredentials
<1>3. user'.credentials[i].counter >= log[n].count
  BY <1>1, <1>2
<1> QED  BY <1>1, <1>3 DEF Stored

\* A request that does not move stays well-formed.
LEMMA PlacesMove ==
    ASSUME \A u \in Tabs : PlaceOK(u), Grows, DOMAIN log \subseteq DOMAIN log',
           \A n \in DOMAIN log : Stored(n) => Stored(n)',
           NEW t \in Tabs, NEW place, NEW sid, NEW data, Moves(t, place, sid, data), PlaceOK(t)'
    PROVE  (\A u \in Tabs : PlaceOK(u))'
<1>1. ASSUME NEW u \in Tabs, u # t PROVE PlaceOK(u)'
  <2>1. tabs'[u] = tabs[u]
    BY <1>1 DEF Moves
  <2>2. PICK d : d = tabs[u].data
    OBVIOUS
  <2>3. /\ RegistrationOK(d.state, UserIds, drawn.challenge)
              => RegistrationOK(d.state, UserIds', drawn'.challenge)
        /\ AuthenticationOK(d.state, Durable, drawn.challenge)
              => AuthenticationOK(d.state, Durable', drawn'.challenge)
    BY StateKept
  <2>4. UserIds \subseteq UserIds' /\ (Durable' <=> Durable)
    BY DEF Grows, Durable
  <2>5. d.entry \in DOMAIN log /\ Stored(d.entry)
           => d.entry \in DOMAIN log' /\ Stored(d.entry)'
    OBVIOUS
  <2>6. PlaceOK(u) /\ tabs[u].data = d /\ tabs'[u].data = d
    BY <2>1, <2>2
  <2>7. /\ tabs[u].at = "register_start.save" => d.id \in UserIds'
        /\ tabs[u].at = "register_start.persist" => d.handle \in UserIds'
        /\ tabs[u].at = "authenticate_start.save"
              => d.allow # {} /\ (Durable' => d.handle \in UserIds')
    BY <2>4, <2>6 DEF PlaceOK
  <2> HIDE DEF UserIds, Durable, Stored
  <2> QED  BY <2>1, <2>3, <2>5, <2>6, <2>7 DEF PlaceOK
<1> QED  BY <1>1

\* A session that does not change stays well-formed.
LEMMA SessionKept ==
    ASSUME Grows, NEW s, SessionOK(s), sessions'[s] = sessions[s]
    PROVE  SessionOK(s)'
<1>1. /\ RegistrationOK(sessions[s].reg_state, UserIds, drawn.challenge)
            => RegistrationOK(sessions[s].reg_state, UserIds', drawn'.challenge)
      /\ AuthenticationOK(sessions[s].auth_state, Durable, drawn.challenge)
            => AuthenticationOK(sessions[s].auth_state, Durable', drawn'.challenge)
  BY StateKept
<1> QED  BY <1>1 DEF SessionOK

-----------------------------------------------------------------------------
(* The kinds of steps.                                                        *)

\* A step of a tab that accepts nothing and leaves the credentials alone.
LEMMA QuietStep ==
    ASSUME IInv, NEW t \in Tabs, NEW place, NEW sid, NEW data, Moves(t, place, sid, data),
           Grows, PlaceOK(t)', WebOK(DefaultSession)',
           HeldOnce(InSessions', InRequests', Accepted, drawn'.challenge),
           (\A s \in Sids : sessions[s] # None => SessionOK(s))',
           DOMAIN user' = {"id", "credentials"}, user'.id \in 0..drawn'.handle,
           user'.credentials = user.credentials,
           server # "axum_server" /\ user.id # 0 => user'.id = user.id,
           UNCHANGED log,
           \A n \in acked' : n \in DOMAIN log /\ Stored(n),
           faults' \in 0..MaxFaults
    PROVE  IInv'
<1>1. \A n \in DOMAIN log : Stored(n) => Stored(n)'
  BY DEF Stored
<1>2. (\A u \in Tabs : PlaceOK(u))'
  BY <1>1, PlacesMove DEF IInv, TypeOK
<1>3. UserOK'
  BY DEF IInv, TypeOK, UserOK
<1>4. AcknowledgedIsStored' /\ acked' \subseteq DOMAIN log'
  BY <1>1 DEF AcknowledgedIsStored
<1>5. server' \in Servers /\ log' \in Seq(Events)
  BY DEF IInv, TypeOK, Grows
<1>6. TypeOK'
  BY <1>2, <1>3, <1>4, <1>5 DEF TypeOK
<1>7. InOnePlace' /\ ChallengeAcceptedOnce' /\ CreatedForItsChallenge'
  BY DEF IInv, InOnePlace, ChallengeAcceptedOnce, CreatedForItsChallenge, Accepted
<1>8. CredentialsCarryTheUserId'
  <2>1. ASSUME NEW n \in DOMAIN log, log[n].kind = "create", log[n].id \in CredentialIds,
               server # "axum_server"
        PROVE  log[n].user_id = user'.id
    <3>1. log[n].user_id = user.id /\ log[n].user_id # 0
      BY <2>1 DEF IInv, CredentialsCarryTheUserId, CreatedForItsChallenge
    <3> QED  BY <2>1, <3>1
  <2>2. CredentialIds' = CredentialIds
    BY DEF CredentialIds
  <2>3. server' = server
    BY DEF Grows
  <2> QED  BY <2>1, <2>2, <2>3 DEF CredentialsCarryTheUserId
<1> QED  BY <1>4, <1>6, <1>7, <1>8 DEF IInv

\* The tables stay, and a tab moves.
LEMMA TabStep ==
    ASSUME IInv, NEW t \in Tabs, NEW place, NEW sid, NEW data, Moves(t, place, sid, data),
           PlaceOK(t)', WebOK(DefaultSession)',
           HeldOnce(InSessions', InRequests', Accepted, drawn'.challenge),
           UNCHANGED <<sessions, drawn, server, user, log>>,
           \A n \in acked' : n \in acked \/ (n \in DOMAIN log /\ Stored(n)),
           faults' \in 0..MaxFaults
    PROVE  IInv'
<1>1. DrawnGrows
  BY WebParts, DrawnSame
<1>2. Grows
  <2>1. drawn.handle <= drawn'.handle
    BY <1>1 DEF DrawnGrows, DrawnOK
  <2> QED  BY <1>1, <2>1, UserIdsGrow
<1>3. (\A s \in Sids : sessions[s] # None => SessionOK(s))'
  BY <1>2, SessionKept DEF IInv, TypeOK
<1>4. \A n \in acked' : n \in DOMAIN log /\ Stored(n)
  BY DEF IInv, TypeOK, AcknowledgedIsStored
<1>5. /\ DOMAIN user' = {"id", "credentials"} /\ user'.id \in 0..drawn'.handle
      /\ user'.credentials = user.credentials
  BY DEF IInv, TypeOK, UserOK
<1> QED  BY <1>2, <1>3, <1>4, <1>5, QuietStep

\* A tab moves on within the server, or back to its page.
LEMMA StillStep ==
    ASSUME IInv, NEW t \in Tabs, NEW place, NEW sid, NEW data, Moves(t, place, sid, data),
           sid \in 1..drawn.sid \cup {None},
           UNCHANGED <<sessions, cookies, devices, drawn, server, user, log>>,
           \A n \in acked' : n \in acked \/ (n \in DOMAIN log /\ Stored(n)),
           faults' \in 0..MaxFaults,
           Free(place), place \notin Holding, PlaceOK(t)'
    PROVE  IInv'
<1>1. WebOK(DefaultSession)' /\ HeldOnce(InSessions', InRequests', Accepted, drawn'.challenge)
  BY WebParts, StillMoveOK
<1> QED  BY <1>1, TabStep

\* The request ends.
LEMMA EndStep ==
    ASSUME IInv, NEW t \in Tabs, NEW what, Show(t, "page", what), faults' \in 0..MaxFaults,
           UNCHANGED <<sessions, cookies, devices, drawn, server, user, log>>,
           \A n \in acked' : n \in acked \/ (n \in DOMAIN log /\ Stored(n))
    PROVE  IInv'
<1>1. Moves(t, "page", None, what)
  BY WebParts, ShowMoves
<1>2. PlaceOK(t)'
  BY <1>1 DEF PlaceOK, Sections, Moves
<1>3. Free("page") /\ "page" \notin Holding
  BY DEF Free, Holding
<1>4. None \in 1..drawn.sid \cup {None}
  OBVIOUS
<1> QED  BY <1>1, <1>2, <1>3, <1>4, StillStep

\* A page, a user or an authenticator acts, or a request arrives twice.
LEMMA GestureStep ==
    ASSUME IInv, NEW t \in Tabs, faults' \in 0..MaxFaults,
           UNCHANGED <<server, user, log, acked>>,
           \/ Clicks(t) \/ Answers(t) \/ Abandon(t)
           \/ \E u \in Tabs : Duplicate(t, u)
    PROVE  IInv'
<1>1. TabsOK /\ CookiesOK /\ DevicesOK /\ DrawnOK /\ WebOK(DefaultSession) /\ Held(Accepted)
  BY WebParts
<1>2. \A h \in {"register_start", "authenticate_start"} : Free(h) /\ h \notin Holding
  BY DEF Free, Holding
<1>3. WebOK(DefaultSession)' /\ HeldOnce(InSessions', InRequests', Accepted, drawn'.challenge)
  BY <1>1, <1>2, GesturesOK DEF Clicks, Answers
<1>4. CASE Clicks(t)
  <2>1. PICK h \in {"register_start", "authenticate_start"} : Click(t, h, None)
    BY <1>4 DEF Clicks
  <2>2. Moves(t, h, Cookie(t), None) /\ UNCHANGED <<sessions, drawn>>
    BY <1>1, <2>1, SendMoves DEF Click
  <2>3. PlaceOK(t)'
    BY <2>2 DEF PlaceOK, Sections, Requests, Moves
  <2> QED  BY <1>3, <2>2, <2>3, TabStep
<1>5. CASE Abandon(t)
  <2>1. Show(t, "page", None) /\ UNCHANGED <<sessions, cookies, devices, drawn>>
    BY <1>5 DEF Abandon, Done
  <2> QED  BY <2>1, EndStep
<1>6. CASE Answers(t)
  <2>1. PICK d \in Devices : Create(t, d) \/ Get(t, d)
    BY <1>6 DEF Answers
  <2>2. CASE Create(t, d)
    <3>1. /\ tabs[t].at = "create" /\ UNCHANGED <<sessions, drawn>>
          /\ \E data : Moves(t, tabs[t].data.finish, Cookie(t), data)
      BY <1>1, <2>2, CreateIs
    <3>2. tabs[t].data.finish = "register_finish"
      BY <3>1 DEF IInv, TypeOK, PlaceOK
    <3>3. PlaceOK(t)'
      BY <3>1, <3>2 DEF PlaceOK, Sections, Requests, Moves
    <3> QED  BY <1>3, <3>1, <3>3, TabStep
  <2>3. CASE Get(t, d)
    <3>1. UNCHANGED <<sessions, drawn>>
      BY <1>1, <2>3, GetIs
    <3>2. PICK data : Moves(t, "authenticate_finish", Cookie(t), data)
      BY <1>1, <2>3, GetIs
    <3>3. PlaceOK(t)'
      BY <3>2 DEF PlaceOK, Sections, Requests, Moves
    <3> QED  BY <1>3, <3>1, <3>2, <3>3, TabStep
  <2> QED  BY <2>1, <2>2, <2>3
<1>7. CASE \E u \in Tabs : Duplicate(t, u)
  <2>1. PICK u \in Tabs : Duplicate(t, u)
    BY <1>7
  <2>2. /\ tabs[t].at \in {"register_finish", "authenticate_finish", "add_credential_finish"}
        /\ tabs'[u] = tabs[t]
        /\ Moves(u, tabs[t].at, tabs[t].sid, tabs[t].data)
        /\ UNCHANGED <<sessions, drawn>>
    BY <1>1, <2>1, DuplicateIs
  <2>3. tabs[t].at \in Sections
    BY DEF IInv, TypeOK, PlaceOK
  <2>4. PlaceOK(u)'
    BY <2>2, <2>3 DEF PlaceOK
  <2> QED  BY <1>3, <2>2, <2>4, TabStep
<1> QED  BY <1>4, <1>5, <1>6, <1>7

\* The sid that a handler uses, and the cookie that it answers with.
LEMMA SidIs ==
    ASSUME IInv, NEW t \in Tabs, sid_or_new(t) <= MaxSids,
           drawn'.sid = IF sid_or_new(t) > drawn.sid THEN sid_or_new(t) ELSE drawn.sid
    PROVE  /\ sid_or_new(t) \in 1..MaxSids
           /\ sid_or_new(t) \in 1..drawn'.sid
           /\ ReplyCookie(t) \in 1..drawn'.sid \cup {None}
<1>1. TabsOK /\ CookiesOK /\ DrawnOK
  BY WebParts
<1>2. tabs[t].sid \in 1..drawn.sid \cup {None} /\ tabs[t].browser \in Browsers
  BY <1>1 DEF TabsOK, RequestOK
<1>3. sid_or_new(t) \in 1..drawn.sid \/ sid_or_new(t) = drawn.sid + 1
  BY <1>2 DEF sid_or_new
<1>4. drawn.sid \in Nat /\ MaxSids \in Nat
  BY <1>1, WebAssumption DEF DrawnOK
<1>5. Cookie(t) \in 1..drawn.sid \cup {None}
  BY <1>1, <1>2 DEF Cookie, CookiesOK
<1>6. ReplyCookie(t) = sid_or_new(t) \/ ReplyCookie(t) = Cookie(t)
  BY DEF ReplyCookie
<1> HIDE DEF sid_or_new, ReplyCookie, Cookie
<1>7. sid_or_new(t) \in 1..MaxSids /\ sid_or_new(t) \in 1..drawn'.sid
  BY <1>3, <1>4
<1>8. 1..drawn.sid \subseteq 1..drawn'.sid
  BY <1>3, <1>4
<1> QED  BY <1>5, <1>6, <1>7, <1>8

\* A start handler saves a state with a new challenge, and its tab moves on.
LEMMA SaveStep ==
    ASSUME IInv, NEW t \in Tabs, NEW field \in Fields, NEW state,
           Save(sid_or_new(t), DefaultSession, field, state), ChallengeOf(state) = NewChallenge,
           NEW place, NEW sid, NEW data, Moves(t, place, sid, data), place \notin Holding,
           CookiesOK', RequestOK(t)', PlaceOK(t)',
           UNCHANGED <<devices, server, user, log, acked>>, faults' \in 0..MaxFaults,
           field = "reg_state" => RegistrationOK(state, UserIds, NewChallenge),
           field = "auth_state" => AuthenticationOK(state, Durable, NewChallenge)
    PROVE  IInv'
<1>0. PICK saved : saved = sid_or_new(t)
  OBVIOUS
<1>1. /\ TabsOK /\ SessionsOK(DefaultSession) /\ CookiesOK /\ DevicesOK /\ DrawnOK
      /\ WebOK(DefaultSession) /\ Held(Accepted)
  BY WebParts
<1>2. saved \in 1..MaxSids
  <2>1. /\ sid_or_new(t) <= MaxSids
        /\ drawn'.sid = IF sid_or_new(t) > drawn.sid THEN sid_or_new(t) ELSE drawn.sid
    BY <1>1 DEF Save, DrawnOK
  <2> QED  BY <1>0, <2>1, SidIs
<1>3. /\ DOMAIN sessions' = Sids
      /\ \A s \in Sids \ {saved} : sessions'[s] = sessions[s]
      /\ sessions'[saved][field] = state
      /\ \A f \in Fields \ {field} :
            sessions'[saved][f] = IF sessions[saved] = None THEN None ELSE sessions[saved][f]
      /\ drawn'.challenge = NewChallenge
      /\ drawn'.handle = drawn.handle
      /\ DrawnGrows
  BY <1>0, <1>1, <1>2, DefaultFields, SaveIs DEF NewChallenge
<1>4. Grows
  <2>1. drawn.handle <= drawn'.handle
    BY <1>3 DEF DrawnGrows, DrawnOK
  <2> QED  BY <1>3, <2>1, UserIdsGrow
<1>5. WebOK(DefaultSession)' /\ HeldOnce(InSessions', InRequests', Accepted, drawn'.challenge)
  BY <1>0, <1>1, <1>2, DefaultFields, SaveOK
<1>6. (\A s \in Sids : sessions[s] # None => SessionOK(s))'
  <2>1. SessionOK(saved)'
    <3>1. saved \in Sids
      BY <1>2 DEF Sids
    <3>2. sessions[saved] # None => SessionOK(saved)
      BY <3>1 DEF IInv, TypeOK
    <3>3. \A x : /\ RegistrationOK(x, UserIds, drawn.challenge)
                       => RegistrationOK(x, UserIds', drawn'.challenge)
                 /\ AuthenticationOK(x, Durable, drawn.challenge)
                       => AuthenticationOK(x, Durable', drawn'.challenge)
      BY <1>4, StateKept
    <3>4. UserIds' = UserIds /\ Durable' = Durable
      BY <1>3 DEF UserIds, Durable
    <3> HIDE DEF UserIds, Durable
    <3>5. /\ sessions'[saved].reg_state # None
                => RegistrationOK(sessions'[saved].reg_state, UserIds', drawn'.challenge)
          /\ sessions'[saved].auth_state # None
                => AuthenticationOK(sessions'[saved].auth_state, Durable', drawn'.challenge)
      BY <1>3, <3>2, <3>3, <3>4 DEF SessionOK, Fields
    <3> QED  BY <3>5 DEF SessionOK
  <2>2. \A s \in Sids \ {saved} : sessions[s] # None => SessionOK(s)'
    BY <1>3, <1>4, SessionKept DEF IInv, TypeOK
  <2> QED  BY <1>3, <2>1, <2>2
<1>7. \A n \in acked' : n \in DOMAIN log /\ Stored(n)
  BY DEF IInv, TypeOK, AcknowledgedIsStored
<1>8. /\ DOMAIN user' = {"id", "credentials"} /\ user'.id \in 0..drawn'.handle
      /\ user'.credentials = user.credentials
  BY <1>3 DEF IInv, TypeOK, UserOK
<1> QED  BY <1>4, <1>5, <1>6, <1>7, <1>8, QuietStep

-----------------------------------------------------------------------------
(* The handlers.                                                              *)

\* The user's id, which may be a fresh one, is drawn, and the request carries it.
LEMMA RegisterStartStep ==
    ASSUME IInv, NEW t \in Tabs,
           AxumRegisterStart(t) \/ RocketRegisterStart(t) \/ SqliteRegisterStart(t)
    PROVE  IInv'
<1>1. /\ TabsOK /\ CookiesOK /\ DrawnOK /\ WebOK(DefaultSession) /\ Held(Accepted) /\ UserOK
  BY WebParts DEF IInv, TypeOK
<1>2. PICK id, data : id = UserId /\ data = [id |-> id, existing |-> CredentialIds]
  OBVIOUS
<1>3. /\ GoTo(t, "register_start.save", data)
      /\ drawn' = [drawn EXCEPT !.handle = IF id > @ THEN id ELSE @]
      /\ user' = user \/ user' = [user EXCEPT !.id = id]
      /\ server # "axum_server" => user' = [user EXCEPT !.id = id]
      /\ UNCHANGED <<sessions, cookies, devices, server, log, acked, faults>>
  BY <1>2 DEF AxumRegisterStart, RocketRegisterStart, SqliteRegisterStart, ReadUser, DrawUserId,
              ensure_user
<1>4. /\ id \in Nat \ {0} /\ id \in 1..drawn'.handle
      /\ DOMAIN drawn' = {"challenge", "handle", "sid"}
      /\ drawn'.challenge = drawn.challenge /\ drawn'.sid = drawn.sid
      /\ drawn'.handle \in Nat /\ drawn.handle <= drawn'.handle
      /\ user.id # 0 => id = user.id
  <2>1. /\ DOMAIN drawn' = {"challenge", "handle", "sid"}
        /\ drawn'.challenge = drawn.challenge /\ drawn'.sid = drawn.sid
        /\ drawn'.handle = IF id > drawn.handle THEN id ELSE drawn.handle
    BY <1>1, <1>3 DEF DrawnOK
  <2> QED  BY <1>1, <1>2, <2>1 DEF UserId, UserOK, DrawnOK
<1>5. /\ DOMAIN user' = {"id", "credentials"} /\ user'.id \in {user.id, id}
      /\ user'.credentials = user.credentials
      /\ server # "axum_server" => user'.id = id
  BY <1>1, <1>3 DEF UserOK
<1>6. DrawnGrows
  BY <1>1, <1>4 DEF DrawnGrows, DrawnOK
<1>7. Grows
  BY <1>3, <1>4, <1>5, <1>6, UserIdsGrow
<1>8. Moves(t, "register_start.save", tabs[t].sid, data)
  BY <1>1, <1>3, GoToMoves
<1>9. PlaceOK(t)'
  <2>1. id \in UserIds'
    BY <1>3, <1>4, <1>5 DEF UserIds
  <2>2. data.id = id
    BY <1>2
  <2> HIDE DEF UserIds
  <2> QED  BY <1>8, <2>1, <2>2 DEF PlaceOK, Sections, Awaits, Moves
<1>10. WebOK(DefaultSession)' /\ HeldOnce(InSessions', InRequests', Accepted, drawn'.challenge)
  <2>1. CookiesOK'
    BY <1>1, <1>3, <1>6, CookiesStay
  <2>2. tabs[t].sid \in 1..drawn'.sid \cup {None}
    BY <1>1, <1>4 DEF TabsOK, RequestOK
  <2>3. Free("register_start.save") /\ "register_start.save" \notin Holding
    BY DEF Free, Holding
  <2> QED  BY <1>1, <1>3, <1>6, <1>8, <2>1, <2>2, <2>3, FreeMoveOK
<1>11. (\A s \in Sids : sessions[s] # None => SessionOK(s))'
  BY <1>3, <1>7, SessionKept DEF IInv, TypeOK
<1>12. \A n \in acked' : n \in DOMAIN log /\ Stored(n)
  BY <1>3 DEF IInv, TypeOK, AcknowledgedIsStored
<1>13. user'.id \in 0..drawn'.handle
  <2>1. user.id \in 0..drawn'.handle /\ id \in 0..drawn'.handle
    BY <1>1, <1>4 DEF UserOK, DrawnOK
  <2> QED  BY <1>5, <2>1
<1>14. faults' \in 0..MaxFaults
  BY <1>3 DEF IInv, TypeOK
<1> QED  BY <1>3, <1>4, <1>5, <1>7, <1>8, <1>9, <1>10, <1>11, <1>12, <1>13, <1>14, QuietStep

\* A registration is started: axum_server goes on, the others reply.
LEMMA RegisterStartSaveStep ==
    ASSUME IInv, NEW t \in Tabs, RegisterStartSave(t)
    PROVE  IInv'
<1>1. /\ TabsOK /\ SessionsOK(DefaultSession) /\ CookiesOK /\ DrawnOK
  BY WebParts
<1>2. PICK id, state, data, sid, cookie :
         /\ id = tabs[t].data.id /\ sid = sid_or_new(t) /\ cookie = ReplyCookie(t)
         /\ state = start_registration(NewChallenge, id, Now)
         /\ data = [challenge |-> NewChallenge, handle |-> id,
                    exclude |-> tabs[t].data.existing, finish |-> "register_finish"]
  OBVIOUS
<1>3. /\ tabs[t].at = "register_start.save"
      /\ Save(sid_or_new(t), DefaultSession, "reg_state", state)
      /\ UNCHANGED <<devices, server, user, log, acked>>
  BY <1>2 DEF RegisterStartSave
<1>4. id \in UserIds
  BY <1>2, <1>3 DEF IInv, TypeOK, PlaceOK
<1>5. /\ sid \in 1..MaxSids /\ sid \in 1..drawn'.sid /\ cookie \in 1..drawn'.sid \cup {None}
      /\ drawn'.challenge = NewChallenge
  <2>1. /\ sid_or_new(t) <= MaxSids
        /\ drawn'.sid = IF sid_or_new(t) > drawn.sid THEN sid_or_new(t) ELSE drawn.sid
        /\ drawn'.challenge = NewChallenge
    BY <1>1, <1>3 DEF Save, DrawnOK, NewChallenge
  <2> QED  BY <1>2, <2>1, SidIs
<1>6. DrawnGrows /\ UserIds' = UserIds
  <2>1. DrawnGrows /\ drawn'.handle = drawn.handle
    BY <1>1, <1>2, <1>3, <1>5, DefaultFields, SaveIs DEF Fields
  <2> QED  BY <1>3, <2>1 DEF UserIds
<1>7. /\ data.challenge = NewChallenge /\ data.handle = id /\ data.finish = "register_finish"
      /\ ChallengeOf(state) = NewChallenge
      /\ RegistrationOK(state, UserIds, NewChallenge)
  <2>1. /\ DOMAIN state = {"challenge", "user_id", "created_at"}
        /\ state.challenge = NewChallenge /\ state.user_id = id
    BY <1>2 DEF start_registration
  <2>2. NewChallenge \in 1..NewChallenge
    BY <1>1 DEF NewChallenge, DrawnOK
  <2> QED  BY <1>2, <1>4, <2>1, <2>2 DEF RegistrationOK, ChallengeOf
<1>8. NewChallenge \in Issued' /\ tabs[t].browser \in Browsers
  BY <1>1, <1>5 DEF Issued, NewChallenge, DrawnOK, TabsOK, RequestOK
<1>9. "reg_state" \in Fields
  BY DEF Fields
<1>10. CASE server = "axum_server"
  <2> DEFINE new == [tabs[t] EXCEPT !.at = "register_start.persist", !.sid = sid, !.data = data]
  <2>1. tabs' = [tabs EXCEPT ![t] = new] /\ UNCHANGED <<cookies, faults>>
    BY <1>2, <1>10 DEF RegisterStartSave
  <2>2. DOMAIN tabs = Tabs /\ \A u \in Tabs : DOMAIN tabs[u] = {"browser", "at", "sid", "data"}
    BY <1>1 DEF TabsOK, RequestOK
  <2>3. /\ DOMAIN new = {"browser", "at", "sid", "data"}
        /\ new.browser = tabs[t].browser /\ new.at = "register_start.persist"
        /\ new.sid = sid /\ new.data = data
    BY <2>2
  <2> HIDE DEF new
  <2>4. Moves(t, "register_start.persist", sid, data)
    BY <2>1, <2>2, <2>3 DEF Moves
  <2>5. /\ DOMAIN tabs'[t] = {"browser", "at", "sid", "data"} /\ tabs'[t].browser \in Browsers
        /\ tabs'[t].at = "register_start.persist" /\ tabs'[t].sid = sid /\ tabs'[t].data = data
    BY <1>8, <2>4 DEF Moves
  <2>6. RequestOK(t)'
    BY <1>5, <1>7, <1>8, <2>5 DEF RequestOK
  <2>7. PlaceOK(t)'
    <3>1. sid # None
      BY <1>5, WebAssumption
    <3> QED  BY <1>4, <1>6, <1>7, <2>5, <3>1 DEF PlaceOK, Sections, Awaits
  <2>8. CookiesOK' /\ faults' \in 0..MaxFaults /\ "register_start.persist" \notin Holding
    BY <1>1, <1>6, <2>1, CookiesStay DEF IInv, TypeOK, Holding
  <2> QED  BY <1>3, <1>7, <1>9, <2>4, <2>6, <2>7, <2>8, SaveStep
<1>11. CASE server # "axum_server"
  <2>1. /\ \/ Arrives(t, "create", data, cookie)
           \/ Done(t) /\ UNCHANGED cookies
        /\ faults' \in 0..MaxFaults
    BY <1>2, <1>11, DemoAssumption DEF RegisterStartSave, Reply, Fault, NoFault, IInv, TypeOK
  <2>2. CookiesOK' /\ (Moves(t, "create", None, data) \/ Moves(t, "page", None, None))
    BY <1>1, <1>5, <1>6, <2>1, ReplyMoves
  <2>3. PICK where, what :
           /\ Moves(t, where, None, what)
           /\ (where = "create" /\ what = data) \/ (where = "page" /\ what = None)
    BY <2>2
  <2>4. /\ DOMAIN tabs'[t] = {"browser", "at", "sid", "data"} /\ tabs'[t].browser \in Browsers
        /\ tabs'[t].at = where /\ tabs'[t].sid = None /\ tabs'[t].data = what
    BY <1>8, <2>3 DEF Moves
  <2>5. RequestOK(t)'
    BY <1>7, <1>8, <2>3, <2>4 DEF RequestOK
  <2>6. PlaceOK(t)'
    BY <1>7, <2>3, <2>4 DEF PlaceOK, Sections
  <2>7. where \notin Holding
    BY <2>3 DEF Holding
  <2> QED  BY <1>3, <1>7, <1>9, <2>1, <2>2, <2>3, <2>5, <2>6, <2>7, SaveStep
<1> QED  BY <1>10, <1>11

\* axum_server keeps the id if there is none yet, and replies.
LEMMA PersistStep ==
    ASSUME IInv, NEW t \in Tabs, AxumRegisterStartPersist(t)
    PROVE  IInv'
<1>1. /\ TabsOK /\ SessionsOK(DefaultSession) /\ CookiesOK /\ DevicesOK /\ DrawnOK
      /\ WebOK(DefaultSession) /\ Held(Accepted) /\ UserOK
  BY WebParts DEF IInv, TypeOK
<1>2. PICK data, cookie : data = tabs[t].data /\ cookie = ReplyCookie(t)
  OBVIOUS
<1>3. /\ tabs[t].at = "register_start.persist"
      /\ user' = [user EXCEPT !.id = IF @ = 0 THEN data.handle ELSE @]
      /\ UNCHANGED <<sessions, devices, drawn, server, log, acked>>
      /\ \/ Arrives(t, "create", data, cookie)
         \/ Done(t) /\ UNCHANGED cookies
      /\ faults' \in 0..MaxFaults
  BY <1>2, DemoAssumption DEF AxumRegisterStartPersist, Reply, Fault, NoFault, IInv, TypeOK
<1>4. /\ data.handle \in UserIds /\ data.finish = "register_finish"
      /\ data.challenge \in Issued /\ tabs[t].browser \in Browsers
      /\ tabs[t].sid \in 1..drawn.sid
  BY <1>1, <1>2, <1>3 DEF IInv, TypeOK, PlaceOK, TabsOK, RequestOK
<1>5. DrawnGrows /\ drawn' = drawn
  BY <1>1, <1>3, DrawnSame
<1>6. cookie \in 1..drawn'.sid \cup {None}
  <2>1. sid_or_new(t) \in 1..drawn.sid
    BY <1>4, WebAssumption DEF sid_or_new
  <2>2. Cookie(t) \in 1..drawn.sid \cup {None}
    BY <1>1, <1>4 DEF Cookie, CookiesOK
  <2> QED  BY <1>2, <1>5, <2>1, <2>2 DEF ReplyCookie
<1>7. CookiesOK' /\ (Moves(t, "create", None, data) \/ Moves(t, "page", None, None))
  BY <1>1, <1>3, <1>5, <1>6, ReplyMoves
<1>8. PICK where, what :
         /\ Moves(t, where, None, what)
         /\ (where = "create" /\ what = data) \/ (where = "page" /\ what = None)
  BY <1>7
<1>9. /\ DOMAIN tabs'[t] = {"browser", "at", "sid", "data"} /\ tabs'[t].browser \in Browsers
      /\ tabs'[t].at = where /\ tabs'[t].sid = None /\ tabs'[t].data = what
  BY <1>4, <1>8 DEF Moves
<1>10. RequestOK(t)'
  <2>1. Issued' = Issued
    BY <1>5 DEF Issued
  <2> QED  BY <1>4, <1>8, <1>9, <2>1 DEF RequestOK
<1>11. PlaceOK(t)'
  BY <1>4, <1>8, <1>9 DEF PlaceOK, Sections
<1>12. WebOK(DefaultSession)' /\ HeldOnce(InSessions', InRequests', Accepted, drawn'.challenge)
  <2>1. where # "get" /\ where \notin Holding
    BY <1>8 DEF Holding
  <2>2. TabsOK' /\ SessionsOK(DefaultSession)' /\ DevicesOK'
    BY <1>1, <1>3, <1>5, <1>8, <1>10, <2>1, TabsMove, SessionsStay, DevicesStay
  <2>3. HeldOnce(InSessions', InRequests', Accepted, drawn'.challenge)
    BY <1>1, <1>3, <1>5, <1>8, <2>1, QuietHeld
  <2> QED  BY <1>5, <1>7, <2>2, <2>3 DEF WebOK, DrawnGrows
<1>13. /\ DOMAIN user' = {"id", "credentials"} /\ user'.credentials = user.credentials
       /\ user'.id \in {user.id, data.handle} /\ (user.id # 0 => user'.id = user.id)
  BY <1>1, <1>3 DEF UserOK
<1>14. user'.id \in 0..drawn'.handle
  BY <1>1, <1>4, <1>5, <1>13 DEF UserOK, UserIds, DrawnOK
<1>15. Grows
  <2>1. drawn.handle <= drawn'.handle
    BY <1>1, <1>5 DEF DrawnOK
  <2> QED  BY <1>3, <1>5, <1>13, <2>1, UserIdsGrow
<1>16. (\A s \in Sids : sessions[s] # None => SessionOK(s))'
  BY <1>3, <1>15, SessionKept DEF IInv, TypeOK
<1>17. \A n \in acked' : n \in DOMAIN log /\ Stored(n)
  BY <1>3 DEF IInv, TypeOK, AcknowledgedIsStored
<1> QED  BY <1>3, <1>8, <1>11, <1>12, <1>13, <1>14, <1>15, <1>16, <1>17, QuietStep

\* A reply that acknowledges an entry of the log: its credential is stored.
LEMMA AcknowledgeStep ==
    ASSUME IInv, NEW t \in Tabs,
           NEW section \in {"register_finish.reply", "authenticate_finish.reply"},
           Acknowledge(t, section)
    PROVE  IInv'
<1>1. /\ tabs[t].at = section /\ Done(t) /\ faults' \in 0..MaxFaults
      /\ acked' = acked \cup {tabs[t].data.entry} \/ acked' = acked
      /\ UNCHANGED <<sessions, cookies, devices, drawn, server, user, log>>
  BY DemoAssumption DEF Acknowledge, Fault, NoFault, IInv, TypeOK
<1>2. PlaceOK(t)
  BY DEF IInv, TypeOK
<1>3. tabs[t].data.entry \in DOMAIN log /\ Stored(tabs[t].data.entry)
  BY <1>1, <1>2 DEF PlaceOK
<1>4. \A n \in acked' : n \in acked \/ (n \in DOMAIN log /\ Stored(n))
  BY <1>1, <1>3
<1> QED  BY <1>1, <1>4, EndStep DEF Done

\* Which state a finish handler takes, and where it goes on.
Taking == {<<"register_finish", "reg_state", "register_finish.push">>,
           <<"authenticate_finish", "auth_state", "authenticate_finish.verify">>}

\* A finish handler takes the state out of the session.
LEMMA TakeStep ==
    ASSUME IInv, NEW t \in Tabs, NEW section, NEW field \in Fields, NEW next,
           <<section, field, next>> \in Taking,
           Take(t, section, field, next)
    PROVE  IInv'
<1>0. \/ section = "register_finish" /\ field = "reg_state" /\ next = "register_finish.push"
      \/ /\ section = "authenticate_finish" /\ field = "auth_state"
         /\ next = "authenticate_finish.verify"
  BY DEF Taking
<1>1. TakeState(t, section, field, next) /\ UNCHANGED <<server, user, log, acked, faults>>
  BY DEF Take
<1>2. /\ TabsOK /\ SessionsOK(DefaultSession) /\ DrawnOK /\ WebOK(DefaultSession)
      /\ Held(Accepted)
  BY WebParts
<1>3. WebOK(DefaultSession)' /\ HeldOnce(InSessions', InRequests', Accepted, drawn'.challenge)
  BY <1>0, <1>1, <1>2, DefaultFields, TakeOK DEF Takes
<1>4. PICK sid, what :
         sid = tabs[t].sid /\ what = [answer |-> tabs[t].data, state |-> sessions[sid][field]]
  OBVIOUS
<1>5. drawn' = drawn
  BY <1>1 DEF TakeState
<1>6. Grows
  <2>1. DrawnGrows /\ drawn.handle <= drawn'.handle
    BY <1>2, <1>5, DrawnSame DEF DrawnOK
  <2> QED  BY <1>1, <2>1, UserIdsGrow
<1>7. \A n \in acked' : n \in acked \/ (n \in DOMAIN log /\ Stored(n))
  BY <1>1
<1>8. faults' \in 0..MaxFaults
  BY <1>1 DEF IInv, TypeOK
<1>9. CASE UNCHANGED sessions /\ Moves(t, "page", None, None)
  <2>1. PlaceOK(t)'
    BY <1>9 DEF PlaceOK, Sections, Moves
  <2> QED  BY <1>1, <1>3, <1>5, <1>7, <1>8, <1>9, <2>1, TabStep
<1>10. CASE ~ (UNCHANGED sessions /\ Moves(t, "page", None, None))
  <2>1. /\ sid \in Sids /\ sessions[sid] # None /\ sessions[sid][field] # None
        /\ \A s \in Sids \ {sid} : sessions'[s] = sessions[s]
        /\ sessions'[sid][field] = None
        /\ \A f \in Fields \ {field} : sessions'[sid][f] = sessions[sid][f]
        /\ Moves(t, next, sid, what)
    <3>1. PICK default : default = DefaultSession
      OBVIOUS
    <3>2. Fields = DOMAIN default /\ SessionsOK(default)
      BY <1>2, <3>1, DefaultFields
    <3>3. /\ sid \in Sids /\ sessions[sid] # None /\ sessions[sid][field] # None
          /\ \A s \in Sids \ {sid} : sessions'[s] = sessions[s]
          /\ sessions'[sid][field] = None
          /\ \A f \in DOMAIN default \ {field} : sessions'[sid][f] = sessions[sid][f]
          /\ Moves(t, next, sid, what)
      BY <1>1, <1>2, <1>4, <1>10, <3>2, TakeIs
    <3> QED  BY <3>2, <3>3
  <2>2. SessionOK(sid)
    BY <2>1 DEF IInv, TypeOK
  <2>3. /\ next = "register_finish.push"
              => RegistrationOK(sessions[sid][field], UserIds', drawn'.challenge)
        /\ next = "authenticate_finish.verify"
              => AuthenticationOK(sessions[sid][field], Durable', drawn'.challenge)
    BY <1>0, <1>6, <2>1, <2>2, StateKept DEF SessionOK
  <2>4. PlaceOK(t)'
    <3>1. /\ tabs'[t].at = next /\ tabs'[t].data.state = sessions[sid][field]
      BY <1>4, <2>1 DEF Moves
    <3> QED  BY <1>0, <2>3, <3>1 DEF PlaceOK, Sections, Awaits
  <2>5. (\A s \in Sids : sessions[s] # None => SessionOK(s))'
    <3>1. SessionOK(sid)'
      <4>1. \A x : /\ RegistrationOK(x, UserIds, drawn.challenge)
                         => RegistrationOK(x, UserIds', drawn'.challenge)
                   /\ AuthenticationOK(x, Durable, drawn.challenge)
                         => AuthenticationOK(x, Durable', drawn'.challenge)
        BY <1>6, StateKept
      <4>2. /\ sessions'[sid].reg_state \in {None, sessions[sid].reg_state}
            /\ sessions'[sid].auth_state \in {None, sessions[sid].auth_state}
        BY <1>0, <2>1 DEF Fields
      <4> QED  BY <2>2, <4>1, <4>2 DEF SessionOK
    <3>2. \A s \in Sids \ {sid} : sessions[s] # None => SessionOK(s)'
      BY <1>6, <2>1, SessionKept DEF IInv, TypeOK
    <3> QED  BY <2>1, <3>1, <3>2
  <2>6. /\ DOMAIN user' = {"id", "credentials"} /\ user'.id \in 0..drawn'.handle
        /\ user'.credentials = user.credentials
    BY <1>1, <1>5 DEF IInv, TypeOK, UserOK
  <2>7. \A n \in acked' : n \in DOMAIN log /\ Stored(n)
    BY <1>1 DEF IInv, TypeOK, AcknowledgedIsStored
  <2> QED  BY <1>1, <1>3, <1>6, <1>8, <2>1, <2>4, <2>5, <2>6, <2>7, QuietStep
<1> QED  BY <1>9, <1>10

\* A sign-in is refused before any registration, or goes on with the ids of the
\* credentials.
LEMMA AuthenticateStartStep ==
    ASSUME IInv, NEW t \in Tabs, AuthenticateStart(t)
    PROVE  IInv'
<1>1. /\ TabsOK /\ CookiesOK /\ DrawnOK /\ WebOK(DefaultSession) /\ Held(Accepted) /\ UserOK
  BY WebParts DEF IInv, TypeOK
<1>2. /\ UNCHANGED <<sessions, devices, server, user, log, acked, faults>> /\ ~Durable
      /\ faults' \in 0..MaxFaults
      /\ tabs[t].sid \in 1..drawn.sid \cup {None}
  BY <1>1 DEF AuthenticateStart, IInv, TypeOK, TabsOK, RequestOK
<1>3. PICK data, cookie : data = [allow |-> CredentialIds] /\ cookie = ReplyCookie(t)
  OBVIOUS
<1>4. CASE user.credentials = <<>>
  <2>1. Refuse(t)
    BY <1>4 DEF AuthenticateStart
  <2>2. CASE Async
    BY <1>2, <2>1, <2>2, EndStep DEF Refuse
  <2>3. CASE ~Async
    <3>1. /\ sid_or_new(t) <= MaxSids
          /\ drawn' = [drawn EXCEPT !.sid = IF sid_or_new(t) > @ THEN sid_or_new(t) ELSE @]
          /\ Arrives(t, "page", RegisterFirst, cookie)
      BY <1>3, <2>1, <2>3 DEF Refuse
    <3>2. PICK sid : sid = sid_or_new(t)
      OBVIOUS
    <3>3. /\ DOMAIN drawn' = {"challenge", "handle", "sid"}
          /\ drawn'.challenge = drawn.challenge /\ drawn'.handle = drawn.handle
          /\ drawn'.sid = IF sid > drawn.sid THEN sid ELSE drawn.sid
      BY <1>1, <3>1, <3>2 DEF DrawnOK
    <3>4. sid \in 1..MaxSids /\ cookie \in 1..drawn'.sid \cup {None}
      BY <1>3, <3>1, <3>2, <3>3, SidIs
    <3>5. DrawnGrows /\ drawn.handle <= drawn'.handle
      BY <1>1, <3>3, <3>4, WebAssumption DEF DrawnGrows, DrawnOK
    <3>6. /\ CookiesOK'
          /\ Moves(t, "page", None, RegisterFirst) \/ Moves(t, "page", None, None)
      BY <1>1, <3>1, <3>4, <3>5, ReplyMoves
    <3>7. PICK what : Moves(t, "page", None, what)
      BY <3>6
    <3>8. Free("page") /\ "page" \notin Holding /\ None \in 1..drawn'.sid \cup {None}
      BY DEF Free, Holding
    <3>9. WebOK(DefaultSession)' /\ HeldOnce(InSessions', InRequests', Accepted, drawn'.challenge)
      BY <1>1, <1>2, <3>5, <3>6, <3>7, <3>8, FreeMoveOK
    <3>10. Grows
      BY <1>2, <3>5, UserIdsGrow
    <3>11. PlaceOK(t)'
      BY <3>7 DEF PlaceOK, Sections, Moves
    <3>12. (\A s \in Sids : sessions[s] # None => SessionOK(s))'
      BY <1>2, <3>10, SessionKept DEF IInv, TypeOK
    <3>13. \A n \in acked' : n \in DOMAIN log /\ Stored(n)
      BY <1>2 DEF IInv, TypeOK, AcknowledgedIsStored
    <3>14. /\ DOMAIN user' = {"id", "credentials"} /\ user'.id \in 0..drawn'.handle
           /\ user'.credentials = user.credentials
      BY <1>1, <1>2, <3>3 DEF UserOK
    <3> QED  BY <1>2, <3>7, <3>9, <3>10, <3>11, <3>12, <3>13, <3>14, QuietStep
  <2> QED  BY <2>2, <2>3
<1>5. CASE user.credentials # <<>>
  <2>1. /\ GoTo(t, "authenticate_start.save", data)
        /\ UNCHANGED <<cookies, drawn>>
    BY <1>3, <1>5 DEF AuthenticateStart
  <2>2. Moves(t, "authenticate_start.save", tabs[t].sid, data)
    BY <1>1, <2>1, GoToMoves
  <2>3. data.allow # {}
    <3>1. user.credentials \in Seq(PasskeyCredentials)
      BY <1>1 DEF UserOK
    <3>2. 1 \in DOMAIN user.credentials
      BY <1>5, <3>1
    <3> QED  BY <1>3, <3>2 DEF CredentialIds
  <2>4. PlaceOK(t)'
    BY <1>2, <2>2, <2>3 DEF PlaceOK, Sections, Awaits, Moves, Durable
  <2>5. Free("authenticate_start.save") /\ "authenticate_start.save" \notin Holding
    BY DEF Free, Holding
  <2>6. \A n \in acked' : n \in acked
    BY <1>2
  <2> QED  BY <1>2, <2>1, <2>2, <2>4, <2>5, <2>6, StillStep
<1> QED  BY <1>4, <1>5

\* axum_sqlite draws the user's id even for a sign-in, and asks for it.
LEMMA SqliteAuthenticateStartStep ==
    ASSUME IInv, NEW t \in Tabs, SqliteAuthenticateStart(t)
    PROVE  IInv'
<1>1. /\ TabsOK /\ CookiesOK /\ DrawnOK /\ WebOK(DefaultSession) /\ Held(Accepted) /\ UserOK
  BY WebParts DEF IInv, TypeOK
<1>2. PICK id, data : id = UserId /\ data = [allow |-> CredentialIds, handle |-> id]
  OBVIOUS
<1>3. /\ drawn' = [drawn EXCEPT !.handle = IF id > @ THEN id ELSE @]
      /\ user' = [user EXCEPT !.id = id]
      /\ UNCHANGED <<sessions, cookies, devices, server, log, acked, faults>>
      /\ server = "axum_sqlite"
      /\ \/ Show(t, "page", RegisterFirst)
         \/ user.credentials # <<>> /\ GoTo(t, "authenticate_start.save", data)
  BY <1>2 DEF SqliteAuthenticateStart, DrawUserId, ensure_user, Durable
<1>4. /\ id \in Nat \ {0} /\ id \in 1..drawn'.handle
      /\ DOMAIN drawn' = {"challenge", "handle", "sid"}
      /\ drawn'.challenge = drawn.challenge /\ drawn'.sid = drawn.sid
      /\ drawn'.handle \in Nat /\ drawn.handle <= drawn'.handle
      /\ user.id # 0 => id = user.id
  <2>1. /\ DOMAIN drawn' = {"challenge", "handle", "sid"}
        /\ drawn'.challenge = drawn.challenge /\ drawn'.sid = drawn.sid
        /\ drawn'.handle = IF id > drawn.handle THEN id ELSE drawn.handle
    BY <1>1, <1>3 DEF DrawnOK
  <2> QED  BY <1>1, <1>2, <2>1 DEF UserId, UserOK, DrawnOK
<1>5. /\ DOMAIN user' = {"id", "credentials"} /\ user'.id = id
      /\ user'.credentials = user.credentials
  BY <1>1, <1>3 DEF UserOK
<1>6. DrawnGrows
  BY <1>1, <1>4 DEF DrawnGrows, DrawnOK
<1>7. Grows
  BY <1>3, <1>4, <1>5, <1>6, UserIdsGrow
<1>8. PICK where, sid, what :
         /\ Moves(t, where, sid, what)
         /\ sid \in 1..drawn'.sid \cup {None}
         /\ where \in {"page", "authenticate_start.save"}
         /\ where = "authenticate_start.save" => what = data /\ user.credentials # <<>>
  <2>1. tabs[t].sid \in 1..drawn'.sid \cup {None}
    BY <1>1, <1>4 DEF TabsOK, RequestOK
  <2>2. CASE Show(t, "page", RegisterFirst)
    BY <1>1, <2>2, ShowMoves
  <2>3. CASE user.credentials # <<>> /\ GoTo(t, "authenticate_start.save", data)
    <3>1. Moves(t, "authenticate_start.save", tabs[t].sid, data)
      BY <1>1, <2>3, GoToMoves
    <3> QED  BY <2>1, <2>3, <3>1
  <2> QED  BY <1>3, <2>2, <2>3
<1>9. PlaceOK(t)'
  <2>1. id \in UserIds'
    BY <1>3, <1>4, <1>5 DEF UserIds
  <2>2. data.handle = id
    BY <1>2
  <2>3. user.credentials # <<>> => data.allow # {}
    <3>1. user.credentials \in Seq(PasskeyCredentials)
      BY <1>1 DEF UserOK
    <3>2. user.credentials # <<>> => 1 \in DOMAIN user.credentials
      BY <3>1
    <3> QED  BY <1>2, <3>2 DEF CredentialIds
  <2> HIDE DEF UserIds
  <2> QED  BY <1>8, <2>1, <2>2, <2>3 DEF PlaceOK, Sections, Awaits, Moves
<1>10. WebOK(DefaultSession)' /\ HeldOnce(InSessions', InRequests', Accepted, drawn'.challenge)
  <2>1. CookiesOK'
    BY <1>1, <1>3, <1>6, CookiesStay
  <2>2. Free(where) /\ where \notin Holding
    BY <1>8 DEF Free, Holding
  <2> QED  BY <1>1, <1>3, <1>6, <1>8, <2>1, <2>2, FreeMoveOK
<1>11. (\A s \in Sids : sessions[s] # None => SessionOK(s))'
  BY <1>3, <1>7, SessionKept DEF IInv, TypeOK
<1>12. \A n \in acked' : n \in DOMAIN log /\ Stored(n)
  BY <1>3 DEF IInv, TypeOK, AcknowledgedIsStored
<1>13. user'.id \in 0..drawn'.handle /\ faults' \in 0..MaxFaults
  BY <1>3, <1>4, <1>5 DEF IInv, TypeOK
<1> QED  BY <1>3, <1>4, <1>5, <1>7, <1>8, <1>9, <1>10, <1>11, <1>12, <1>13, QuietStep

\* A sign-in is started.
LEMMA AuthenticateStartSaveStep ==
    ASSUME IInv, NEW t \in Tabs, AuthenticateStartSave(t)
    PROVE  IInv'
<1>1. /\ TabsOK /\ SessionsOK(DefaultSession) /\ CookiesOK /\ DrawnOK
  BY WebParts
<1>2. PICK allow, state, data, cookie :
         /\ allow = tabs[t].data.allow /\ cookie = ReplyCookie(t)
         /\ state = IF Durable
                    THEN start_authentication_for_user(NewChallenge, tabs[t].data.handle, allow, Now)
                    ELSE start_authentication(NewChallenge, allow, Now)
         /\ data = [challenge |-> NewChallenge, allow |-> allow]
  OBVIOUS
<1>3. /\ tabs[t].at = "authenticate_start.save"
      /\ Save(sid_or_new(t), DefaultSession, "auth_state", state)
      /\ \/ Arrives(t, "get", data, cookie)
         \/ Done(t) /\ UNCHANGED cookies
      /\ UNCHANGED <<devices, server, user, log, acked>>
      /\ faults' \in 0..MaxFaults
  BY <1>2, DemoAssumption DEF AuthenticateStartSave, Reply, Fault, NoFault, IInv, TypeOK
<1>4. /\ cookie \in 1..drawn'.sid \cup {None} /\ drawn'.challenge = NewChallenge
      /\ sid_or_new(t) \in 1..MaxSids
  <2>1. /\ sid_or_new(t) <= MaxSids
        /\ drawn'.sid = IF sid_or_new(t) > drawn.sid THEN sid_or_new(t) ELSE drawn.sid
        /\ drawn'.challenge = NewChallenge
    BY <1>1, <1>3 DEF Save, DrawnOK, NewChallenge
  <2> QED  BY <1>2, <2>1, SidIs
<1>5. DrawnGrows
  <2>1. "auth_state" \in Fields
    BY DEF Fields
  <2> QED  BY <1>1, <1>3, <1>4, <2>1, DefaultFields, SaveIs
<1>6. AuthenticationOK(state, Durable, NewChallenge) /\ ChallengeOf(state) = NewChallenge
  <2>1. allow # {} /\ (Durable => tabs[t].data.handle \in 1..drawn.handle)
    BY <1>2, <1>3 DEF IInv, TypeOK, PlaceOK, UserIds
  <2>2. Durable => tabs[t].data.handle # None
    BY <1>1, <2>1, WebAssumption DEF DrawnOK
  <2>3. /\ DOMAIN state = {"challenge", "allow_credentials", "created_at", "user_handle"}
        /\ state.challenge = NewChallenge /\ state.allow_credentials = allow
        /\ state.user_handle = IF Durable THEN tabs[t].data.handle ELSE None
    BY <1>2 DEF start_authentication_for_user, start_authentication
  <2>4. NewChallenge \in 1..NewChallenge
    BY <1>1 DEF NewChallenge, DrawnOK
  <2> HIDE DEF Durable
  <2> QED  BY <2>1, <2>2, <2>3, <2>4 DEF AuthenticationOK, ChallengeOf
<1>7. CookiesOK' /\ (Moves(t, "get", None, data) \/ Moves(t, "page", None, None))
  BY <1>1, <1>3, <1>4, <1>5, ReplyMoves
<1>8. PICK where, what :
         /\ Moves(t, where, None, what)
         /\ (where = "get" /\ what = data) \/ (where = "page" /\ what = None)
  BY <1>7
<1>9. tabs[t].browser \in Browsers /\ NewChallenge \in Issued'
  BY <1>1, <1>4 DEF TabsOK, RequestOK, Issued, NewChallenge, DrawnOK
<1>10. /\ DOMAIN tabs'[t] = {"browser", "at", "sid", "data"} /\ tabs'[t].browser \in Browsers
       /\ tabs'[t].at = where /\ tabs'[t].sid = None /\ tabs'[t].data = what
  BY <1>8, <1>9 DEF Moves
<1>11. RequestOK(t)' /\ PlaceOK(t)'
  <2>1. data.challenge = NewChallenge
    BY <1>2
  <2>2. RequestOK(t)'
    BY <1>8, <1>9, <1>10, <2>1 DEF RequestOK
  <2>3. PlaceOK(t)'
    BY <1>8, <1>10 DEF PlaceOK, Sections
  <2> QED  BY <2>2, <2>3
<1>12. where \notin Holding /\ "auth_state" \in Fields
  BY <1>8 DEF Holding, Fields
<1> QED  BY <1>3, <1>6, <1>7, <1>8, <1>11, <1>12, SaveStep

\* A state is spent: its request goes on to the reply, and the log grows.
LEMMA AcceptStep ==
    ASSUME IInv, NEW t \in Tabs, tabs[t].at \in Holding,
           UNCHANGED <<sessions, cookies, devices, acked, faults>>, Grows,
           drawn'.challenge = drawn.challenge, drawn'.sid = drawn.sid,
           NEW place \in {"register_finish.reply", "authenticate_finish.reply"}, NEW data,
           Moves(t, place, tabs[t].sid, data), data.entry = Len(log) + 1,
           NEW e \in Events, e.challenge = ChallengeOf(tabs[t].data.state),
           log' = Append(log, e),
           UserOK', server # "axum_server" /\ user.id # 0 => user'.id = user.id,
           DOMAIN user.credentials \subseteq DOMAIN user'.credentials,
           \A i \in DOMAIN user.credentials :
              /\ user'.credentials[i].id = user.credentials[i].id
              /\ user'.credentials[i].counter \in Nat
              /\ user'.credentials[i].counter >= user.credentials[i].counter,
           \E i \in DOMAIN user'.credentials :
              user'.credentials[i].id = e.id /\ user'.credentials[i].counter >= e.count,
           \A id \in CredentialIds' : id \in CredentialIds \/ (id = e.id /\ e.kind = "create"),
           e.kind = "create" => e.id[2] = e.challenge /\ e.user_id # 0,
           e.kind = "create" /\ server # "axum_server" => e.user_id = user'.id
    PROVE  IInv'
<1>1. /\ TabsOK /\ CookiesOK /\ DrawnOK /\ WebOK(DefaultSession) /\ Held(Accepted)
      /\ DrawnGrows /\ server' = server
  BY WebParts DEF Grows
<1>2. PICK new : new = Len(log) + 1
  OBVIOUS
<1>3. /\ log \in Seq(Events) /\ user.credentials \in Seq(PasskeyCredentials)
      /\ \A n \in DOMAIN log : log[n].count \in Nat
  <2>1. log \in Seq(Events) /\ user.credentials \in Seq(PasskeyCredentials)
    BY DEF IInv, TypeOK, UserOK
  <2>2. \A x \in Events : x.count \in Nat
    BY DEF Events
  <2> QED  BY <2>1, <2>2
<1>4. e.challenge # 0
  BY DEF Events
<1>5. /\ WebOK(DefaultSession)' /\ e.challenge \notin Accepted
      /\ HeldOnce(InSessions', InRequests', Accepted \cup {e.challenge}, drawn'.challenge)
  <2>1. CookiesOK'
    BY <1>1, CookiesStay
  <2>2. tabs[t].sid \in 1..drawn'.sid \cup {None}
    BY <1>1 DEF TabsOK, RequestOK
  <2>3. Free(place) /\ place \notin Holding
    BY DEF Free, Holding
  <2>4. ChallengeOf(tabs[t].data.state) # 0 /\ UNCHANGED <<sessions, devices>>
    BY <1>4
  <2>5. LET c == ChallengeOf(tabs[t].data.state) IN
        /\ WebOK(DefaultSession)'
        /\ c \notin Accepted
        /\ HeldOnce(InSessions', InRequests', Accepted \cup {c}, drawn'.challenge)
    BY <1>1, <2>1, <2>2, <2>3, <2>4, SpendOK
  <2> QED  BY <2>5
<1>6. /\ log' \in Seq(Events)
      /\ DOMAIN log' = DOMAIN log \cup {new} /\ new \notin DOMAIN log
      /\ \A n \in DOMAIN log : log'[n] = log[n]
      /\ log'[new] = e
      /\ \A i, j \in DOMAIN log' : i # j => log'[i].challenge # log'[j].challenge
      /\ Accepted' = Accepted \cup {e.challenge}
  <2>1. \A i, j \in DOMAIN log : i # j => log[i].challenge # log[j].challenge
    BY DEF IInv, ChallengeAcceptedOnce
  <2>2. e.challenge \notin {log[n].challenge : n \in DOMAIN log}
    BY <1>5 DEF Accepted
  <2>3. /\ log' \in Seq(Events)
        /\ DOMAIN log' = DOMAIN log \cup {Len(log) + 1} /\ Len(log) + 1 \notin DOMAIN log
        /\ \A n \in DOMAIN log : log'[n] = log[n]
        /\ log'[Len(log) + 1] = e
        /\ \A i, j \in DOMAIN log' : i # j => log'[i].challenge # log'[j].challenge
        /\ Accepted' = Accepted \cup {e.challenge}
    BY <1>3, <2>1, <2>2, AppendOnce DEF Accepted
  <2> QED  BY <1>2, <2>3
<1>7. \A n \in DOMAIN log : Stored(n) => Stored(n)'
  BY <1>3, <1>6, StoredKept
<1>8. Stored(new)'
  BY <1>6 DEF Stored
<1>9. (\A u \in Tabs : PlaceOK(u))'
  <2>1. PICK entry : entry = data.entry
    OBVIOUS
  <2>2. entry \in DOMAIN log' /\ Stored(entry)'
    BY <1>2, <1>6, <1>8, <2>1
  <2>3. PlaceOK(t)'
    BY <2>1, <2>2 DEF PlaceOK, Sections, Moves
  <2> QED  BY <1>6, <1>7, <2>3, PlacesMove DEF IInv, TypeOK
<1>10. (\A s \in Sids : sessions[s] # None => SessionOK(s))'
  BY SessionKept DEF IInv, TypeOK
<1>11. AcknowledgedIsStored' /\ acked' \subseteq DOMAIN log'
  BY <1>6, <1>7 DEF IInv, TypeOK, AcknowledgedIsStored
<1>12. TypeOK'
  BY <1>1, <1>5, <1>6, <1>9, <1>10, <1>11 DEF IInv, TypeOK
<1>13. InOnePlace' /\ ChallengeAcceptedOnce'
  BY <1>5, <1>6 DEF InOnePlace, ChallengeAcceptedOnce
<1>14. CreatedForItsChallenge'
  BY <1>6 DEF IInv, CreatedForItsChallenge
<1>15. CredentialsCarryTheUserId'
  <2>1. ASSUME NEW n \in DOMAIN log, log[n].kind = "create", log[n].id \in CredentialIds',
               server # "axum_server"
        PROVE  log[n].user_id = user'.id
    <3>1. log[n].id[2] = log[n].challenge /\ log[n].user_id # 0
      BY <2>1 DEF IInv, CreatedForItsChallenge
    <3>2. log[n].challenge # e.challenge
      BY <1>5 DEF Accepted
    <3>3. log[n].id \in CredentialIds
      BY <2>1, <3>1, <3>2
    <3>4. log[n].user_id = user.id
      BY <2>1, <3>3 DEF IInv, CredentialsCarryTheUserId
    <3> QED  BY <2>1, <3>1, <3>4
  <2> QED  BY <1>1, <1>6, <2>1 DEF CredentialsCarryTheUserId
<1> QED  BY <1>11, <1>12, <1>13, <1>14, <1>15 DEF IInv

\* A credential is added behind the others.
LEMMA CredentialsAppend ==
    ASSUME UserOK, NEW passkey \in PasskeyCredentials,
           user'.credentials = Append(user.credentials, passkey)
    PROVE  /\ user'.credentials \in Seq(PasskeyCredentials)
           /\ DOMAIN user.credentials \subseteq DOMAIN user'.credentials
           /\ \A i \in DOMAIN user.credentials :
                 /\ user'.credentials[i].id = user.credentials[i].id
                 /\ user'.credentials[i].counter \in Nat
                 /\ user'.credentials[i].counter >= user.credentials[i].counter
           /\ \E i \in DOMAIN user'.credentials : user'.credentials[i] = passkey
           /\ \A id \in CredentialIds' : id \in CredentialIds \/ id = passkey.id
<1> DEFINE seq == user.credentials
           new == Append(seq, passkey)
<1>1. seq \in Seq(PasskeyCredentials)
  BY DEF UserOK
<1>2. /\ new \in Seq(PasskeyCredentials)
      /\ DOMAIN new = DOMAIN seq \cup {Len(seq) + 1}
      /\ \A i \in DOMAIN seq : new[i] = seq[i] /\ seq[i] \in PasskeyCredentials
      /\ new[Len(seq) + 1] = passkey
  BY <1>1
<1>3. \A k \in PasskeyCredentials : k.counter \in Nat /\ k.counter >= k.counter
  BY WebAssumption DEF PasskeyCredentials
<1> HIDE DEF new
<1>4. user'.credentials = new
  BY DEF new
<1>5. \A id \in CredentialIds' : id \in CredentialIds \/ id = passkey.id
  BY <1>2, <1>4 DEF CredentialIds
<1> QED  BY <1>2, <1>3, <1>4, <1>5

\* A registration is verified, and its credential inserted.
LEMMA PushStep ==
    ASSUME IInv, NEW t \in Tabs, RegisterFinishPush(t)
    PROVE  IInv'
<1>1. /\ TabsOK /\ CookiesOK /\ DrawnOK /\ WebOK(DefaultSession) /\ Held(Accepted) /\ UserOK
  BY WebParts DEF IInv, TypeOK
<1>2. PICK a, state, response, new :
         /\ a = tabs[t].data.answer /\ state = tabs[t].data.state
         /\ response = RegistrationOf(Wa, a) /\ new = NewCredential(response)
  OBVIOUS
<1>3. /\ tabs[t].at = "register_finish.push"
      /\ UNCHANGED <<sessions, cookies, devices, server, acked, faults>>
  BY DEF RegisterFinishPush
<1>4. ASSUME finish_registration(Wa, state, response, Now) = Ok,
             insert_credential([id |-> new.id, counter |-> new.counter,
                                public_key_cose |-> new.public_key_cose]),
             log' = Append(log, Event("create", new.id, a.challenge, new.counter, state.user_id)),
             GoTo(t, "register_finish.reply", [entry |-> Len(log) + 1])
      PROVE  IInv'
  <2>1. Registers(a) /\ RegistrationOK(state, UserIds, drawn.challenge)
    BY <1>1, <1>2, <1>3 DEF IInv, TypeOK, PlaceOK, TabsOK, RequestOK
  <2>2. a.challenge = state.challenge /\ a.id[2] = a.challenge
    BY <1>2, <1>4, <2>1, RegistersItsChallenge DEF Registers
  <2>3. /\ a.id \in Devices \X (1..MaxChallenges) /\ a.challenge \in 1..MaxChallenges
    BY <1>1, <2>1, RegistersInRange
  <2>4. new.id = a.id /\ new.counter = 0 /\ new.public_key_cose = cose_pubkey(a.id)
    BY <1>2, RegistrationIs
  <2>5. PICK passkey : passkey = [id |-> new.id, counter |-> new.counter,
                                  public_key_cose |-> new.public_key_cose]
    OBVIOUS
  <2>6. passkey.id = a.id /\ passkey.counter = 0 /\ passkey \in PasskeyCredentials
    <3>1. 0 \in 0..MaxChallenges
      BY WebAssumption
    <3> QED  BY <2>3, <2>4, <2>5, <3>1 DEF PasskeyCredentials
  <2>7. PICK e : e = Event("create", a.id, a.challenge, 0, state.user_id)
    OBVIOUS
  <2>8. /\ e.kind = "create" /\ e.id = a.id /\ e.challenge = a.challenge /\ e.count = 0
        /\ e.user_id = state.user_id /\ e \in Events
    <3>1. 0 \in 0..MaxChallenges /\ state.user_id \in Nat
      BY <2>1, WebAssumption DEF RegistrationOK, UserIds
    <3> QED  BY <2>3, <2>7, <3>1 DEF Event, Events
  <2>9. state.user_id # 0 /\ (server # "axum_server" => state.user_id = user.id)
    BY <2>1 DEF RegistrationOK, UserIds
  <2>10. /\ user'.id = user.id \/ (Durable /\ user'.id = UserId)
         /\ user'.credentials = Append(user.credentials, passkey)
         /\ DOMAIN user' = {"id", "credentials"}
         /\ UNCHANGED drawn \/ (Durable /\ DrawUserId)
    BY <1>1, <1>4, <2>5 DEF insert_credential, UserOK
  <2>11. /\ user'.id = user.id
         /\ DOMAIN drawn' = DOMAIN drawn
         /\ \A x \in DOMAIN drawn : drawn'[x] = drawn[x]
    <3>1. CASE Durable
      <4>1. user.id # 0 /\ user.id \in 0..drawn.handle /\ drawn.handle \in Nat
        BY <1>1, <2>9, <3>1 DEF Durable, UserOK, DrawnOK
      <4>2. UserId = user.id
        BY <4>1 DEF UserId
      <4>3. \/ UNCHANGED drawn
            \/ drawn' = [drawn EXCEPT !.handle = drawn.handle]
        <5>1. ~ (user.id > drawn.handle)
          BY <4>1
        <5> QED  BY <2>10, <4>2, <5>1 DEF DrawUserId
      <4> QED  BY <2>10, <4>2, <4>3
    <3> QED  BY <2>10, <3>1
  <2>12. /\ user'.credentials \in Seq(PasskeyCredentials)
         /\ DOMAIN user.credentials \subseteq DOMAIN user'.credentials
         /\ \A i \in DOMAIN user.credentials :
               /\ user'.credentials[i].id = user.credentials[i].id
               /\ user'.credentials[i].counter \in Nat
               /\ user'.credentials[i].counter >= user.credentials[i].counter
         /\ \E i \in DOMAIN user'.credentials : user'.credentials[i] = passkey
         /\ \A id \in CredentialIds' : id \in CredentialIds \/ id = passkey.id
    BY <1>1, <2>6, <2>10, CredentialsAppend
  <2>13. \E i \in DOMAIN user'.credentials :
            user'.credentials[i].id = e.id /\ user'.credentials[i].counter >= e.count
    BY <2>6, <2>8, <2>12
  <2>14. UserOK' /\ DrawnGrows /\ UNCHANGED <<drawn.challenge, drawn.handle, drawn.sid>>
    <3>1. /\ DOMAIN drawn' = {"challenge", "handle", "sid"}
          /\ UNCHANGED <<drawn.challenge, drawn.handle, drawn.sid>>
      BY <1>1, <2>11 DEF DrawnOK
    <3> QED  BY <1>1, <2>10, <2>11, <2>12, <3>1 DEF UserOK, DrawnGrows, DrawnOK
  <2>15. Grows
    <3>1. drawn.handle <= drawn'.handle
      BY <1>1, <2>14 DEF DrawnOK
    <3> QED  BY <1>3, <2>11, <2>14, <3>1, UserIdsGrow
  <2>16. PICK data : data = [entry |-> Len(log) + 1]
    OBVIOUS
  <2>17. Moves(t, "register_finish.reply", tabs[t].sid, data) /\ data.entry = Len(log) + 1
    BY <1>1, <1>4, <2>16, GoToMoves
  <2>18. /\ e.challenge = ChallengeOf(tabs[t].data.state) /\ tabs[t].at \in Holding
         /\ log' = Append(log, e)
    BY <1>2, <1>3, <1>4, <2>1, <2>2, <2>4, <2>7, <2>8 DEF RegistrationOK, ChallengeOf, Holding
  <2>19. drawn'.challenge = drawn.challenge /\ drawn'.sid = drawn.sid
    BY <2>14
  <2>20. \A id \in CredentialIds' : id \in CredentialIds \/ (id = e.id /\ e.kind = "create")
    BY <2>6, <2>8, <2>12
  <2>21. /\ e.kind = "create" => e.id[2] = e.challenge /\ e.user_id # 0
         /\ e.kind = "create" /\ server # "axum_server" => e.user_id = user'.id
    BY <2>2, <2>8, <2>9, <2>11
  <2> QED  BY <1>3, <2>8, <2>11, <2>12, <2>13, <2>14, <2>15, <2>17, <2>18, <2>19, <2>20, <2>21,
              AcceptStep
<1>5. CASE UNCHANGED <<user, log, drawn>> /\ Done(t)
  <2>1. faults' \in 0..MaxFaults
    BY <1>3 DEF IInv, TypeOK
  <2> QED  BY <1>3, <1>5, <2>1, EndStep DEF Done
<1> QED  BY <1>2, <1>4, <1>5 DEF RegisterFinishPush

\* A sign-in is verified, and its count stored, under the same credential.
LEMMA VerifyStep ==
    ASSUME IInv, NEW t \in Tabs, AuthenticateFinishVerify(t)
    PROVE  IInv'
<1>1. /\ TabsOK /\ CookiesOK /\ DrawnOK /\ WebOK(DefaultSession) /\ Held(Accepted) /\ UserOK
  BY WebParts DEF IInv, TypeOK
<1>2. PICK a, state, response, i :
         /\ a = tabs[t].data.answer /\ state = tabs[t].data.state
         /\ response = AssertionOf(Wa, a) /\ i = Find(user.credentials, a.id)
  OBVIOUS
<1>3. /\ tabs[t].at = "authenticate_finish.verify"
      /\ UNCHANGED <<sessions, cookies, devices, drawn, server, acked, faults>>
  BY DEF AuthenticateFinishVerify
<1>4. ASSUME i # 0,
             finish_authentication(Wa, state, response, user.credentials[i], Now) = Ok,
             user' = [user EXCEPT !.credentials[i].counter =
                         response.authenticator_data.value.sign_count],
             log' = Append(log, Event("get", a.id, a.challenge, a.count, user.id)),
             GoTo(t, "authenticate_finish.reply", [entry |-> Len(log) + 1])
      PROVE  IInv'
  <2>1. SignsIn(a) /\ AuthenticationOK(state, Durable, drawn.challenge)
    BY <1>1, <1>2, <1>3 DEF IInv, TypeOK, PlaceOK, TabsOK, RequestOK
  <2>2. PICK seq : seq = user.credentials
    OBVIOUS
  <2>3. seq \in Seq(PasskeyCredentials) /\ i \in DOMAIN seq /\ seq[i].id = a.id
    <3>1. seq \in Seq(PasskeyCredentials) /\ i = Find(seq, a.id)
      BY <1>1, <1>2, <2>2 DEF UserOK
    <3> QED  BY <1>4, <3>1, FoundById
  <2>4. /\ a.id \in Devices \X (1..MaxChallenges) /\ a.challenge \in 1..MaxChallenges
        /\ a.count \in 1..MaxChallenges /\ a.count \in 0..MaxChallenges
    BY <1>1, <2>1, SignsInInRange
  <2>5. a.challenge = state.challenge /\ seq[i].counter < a.count
    <3>1. finish_authentication(Wa, state, AssertionOf(Wa, a), seq[i], Now) = Ok
      BY <1>2, <1>4, <2>2
    <3>2. /\ a.challenge = state.challenge
          /\ seq[i].counter \in Nat /\ a.count \in Nat \ {0} => seq[i].counter < a.count
      BY <3>1, SignsInItsChallenge
    <3>3. seq[i].counter \in Nat
      <4>1. seq[i] \in PasskeyCredentials
        BY <2>3
      <4> QED  BY <4>1 DEF PasskeyCredentials
    <3>4. a.count \in Nat \ {0}
      BY <2>4
    <3> QED  BY <3>2, <3>3, <3>4
  <2>6. PICK passkey, new :
           /\ passkey = [seq[i] EXCEPT !.counter = a.count]
           /\ new = [seq EXCEPT ![i] = passkey]
    OBVIOUS
  <2>7. passkey \in PasskeyCredentials /\ passkey.id = a.id /\ passkey.counter = a.count
    <3>1. seq[i] \in PasskeyCredentials
      BY <2>3
    <3> QED  BY <2>3, <2>4, <2>6, <3>1 DEF PasskeyCredentials
  <2>8. /\ new \in Seq(PasskeyCredentials) /\ DOMAIN new = DOMAIN seq
        /\ new[i] = passkey /\ \A j \in DOMAIN seq : j # i => new[j] = seq[j]
    BY <2>3, <2>6, <2>7
  <2>9. user'.credentials = new /\ user'.id = user.id /\ DOMAIN user' = {"id", "credentials"}
    <3>1. response.authenticator_data.value.sign_count = a.count
      BY <1>2, AssertionIs
    <3>2. user' = [user EXCEPT !.credentials = new]
      BY <1>4, <2>2, <2>6, <3>1
    <3> QED  BY <1>1, <3>2 DEF UserOK
  <2>10. \A j \in DOMAIN seq :
            new[j].id = seq[j].id /\ new[j].counter \in Nat /\ new[j].counter >= seq[j].counter
    <3>1. ASSUME NEW j \in DOMAIN seq
          PROVE  new[j].id = seq[j].id /\ new[j].counter \in Nat
                 /\ new[j].counter >= seq[j].counter
      <4>1. seq[j] \in PasskeyCredentials
        BY <2>3
      <4>2. seq[j].counter \in Nat
        BY <4>1 DEF PasskeyCredentials
      <4>3. CASE j = i
        BY <2>3, <2>4, <2>5, <2>7, <2>8, <4>2, <4>3
      <4>4. CASE j # i
        BY <2>8, <4>2, <4>4
      <4> QED  BY <4>3, <4>4
    <3> QED  BY <3>1
  <2>11. PICK e : e = Event("get", a.id, a.challenge, a.count, user.id)
    OBVIOUS
  <2>12. /\ e.kind = "get" /\ e.id = a.id /\ e.challenge = a.challenge /\ e.count = a.count
         /\ e \in Events
    <3>1. user.id \in Nat
      BY <1>1 DEF UserOK, DrawnOK
    <3> QED  BY <2>4, <2>11, <3>1 DEF Event, Events
  <2>13. UserOK' /\ DrawnGrows
    BY <1>1, <1>3, <2>8, <2>9, DrawnSame DEF UserOK
  <2>14. Grows
    <3>1. drawn.handle <= drawn'.handle
      BY <1>1, <1>3 DEF DrawnOK
    <3> QED  BY <1>3, <2>9, <2>13, <3>1, UserIdsGrow
  <2>15. CredentialIds' = CredentialIds
    BY <2>2, <2>8, <2>9, <2>10 DEF CredentialIds
  <2>16. \E j \in DOMAIN user'.credentials :
            user'.credentials[j].id = e.id /\ user'.credentials[j].counter >= e.count
    BY <2>3, <2>4, <2>7, <2>8, <2>9, <2>12
  <2>17. /\ DOMAIN user.credentials \subseteq DOMAIN user'.credentials
         /\ \A j \in DOMAIN user.credentials :
               /\ user'.credentials[j].id = user.credentials[j].id
               /\ user'.credentials[j].counter \in Nat
               /\ user'.credentials[j].counter >= user.credentials[j].counter
    BY <2>2, <2>8, <2>9, <2>10
  <2>18. PICK data : data = [entry |-> Len(log) + 1]
    OBVIOUS
  <2>19. Moves(t, "authenticate_finish.reply", tabs[t].sid, data) /\ data.entry = Len(log) + 1
    BY <1>1, <1>4, <2>18, GoToMoves
  <2>20. /\ e.challenge = ChallengeOf(tabs[t].data.state) /\ tabs[t].at \in Holding
         /\ log' = Append(log, e)
    BY <1>2, <1>3, <1>4, <2>1, <2>5, <2>11, <2>12 DEF AuthenticationOK, ChallengeOf, Holding
  <2>21. e.kind # "create" /\ UNCHANGED drawn
    BY <1>3, <2>12
  <2> QED  BY <1>3, <2>9, <2>12, <2>13, <2>14, <2>15, <2>16, <2>17, <2>19, <2>20, <2>21, AcceptStep
<1>5. CASE UNCHANGED <<user, log>> /\ Done(t)
  <2>1. faults' \in 0..MaxFaults
    BY <1>3 DEF IInv, TypeOK
  <2> QED  BY <1>3, <1>5, <2>1, EndStep DEF Done
<1> QED  BY <1>2, <1>4, <1>5 DEF AuthenticateFinishVerify

\* After a restart no state is anywhere; a database keeps the user, and without one
\* nothing counts as acknowledged.
LEMMA RestartStep ==
    ASSUME IInv, Restart
    PROVE  IInv'
<1>0. tabs' = [t \in Tabs |-> IF tabs[t].at \in {"page", "create", "get"} THEN tabs[t]
                              ELSE [tabs[t] EXCEPT !.at = "page", !.sid = None, !.data = None]]
  BY DEF Restart, Stop
<1>1. /\ Stop
      /\ \A s \in Sids : sessions'[s] = None
      /\ drawn' = drawn /\ server' = server /\ log' = log
      /\ (user' = user /\ acked' = acked) \/ (user' = NoUser /\ acked' = {})
  BY DEF Restart, Stop
<1>2. /\ TabsOK /\ DrawnOK /\ WebOK(DefaultSession) /\ Held(Accepted) /\ UserOK
      /\ faults' \in 0..MaxFaults
  BY WebParts, DemoAssumption DEF Restart, Fault, IInv, TypeOK
<1>3. WebOK(DefaultSession)' /\ HeldOnce(InSessions', InRequests', Accepted, drawn'.challenge)
  BY <1>1, <1>2, RestartOK
<1>4. (\A t \in Tabs : PlaceOK(t))'
  <2>1. ASSUME NEW t \in Tabs PROVE PlaceOK(t)'
    <3>1. PlaceOK(t) /\ DOMAIN tabs[t] = {"browser", "at", "sid", "data"}
      BY <1>2 DEF IInv, TypeOK, TabsOK, RequestOK
    <3>2. CASE tabs[t].at \in {"page", "create", "get"}
      <4>1. tabs'[t] = tabs[t]
        BY <1>0, <3>2
      <4>2. tabs'[t].at \in {"page", "create", "get"}
        BY <3>2, <4>1
      <4>3. tabs'[t].at = "create" => tabs'[t].data.finish = "register_finish"
        BY <3>1, <4>1 DEF PlaceOK
      <4> QED  BY <4>2, <4>3 DEF PlaceOK, Sections
    <3>3. CASE tabs[t].at \notin {"page", "create", "get"}
      <4>1. tabs'[t].at = "page"
        BY <1>0, <3>1, <3>3
      <4> QED  BY <4>1 DEF PlaceOK, Sections
    <3> QED  BY <3>2, <3>3
  <2> QED  BY <2>1
<1>5. UserOK'
  <2>1. DOMAIN NoUser = {"id", "credentials"} /\ NoUser.id = 0 /\ NoUser.credentials = <<>>
    BY DEF NoUser
  <2>2. 0 \in 0..drawn.handle
    BY <1>2 DEF DrawnOK
  <2>3. CASE user' = user
    <3>1. UNCHANGED <<user, drawn>>
      BY <1>1, <2>3
    <3> QED  BY <1>2, <3>1 DEF UserOK
  <2>4. CASE user' = NoUser
    <3>1. user'.credentials = <<>> /\ user'.id = 0 /\ DOMAIN user' = {"id", "credentials"}
      BY <2>1, <2>4
    <3>2. user'.credentials \in Seq(PasskeyCredentials)
      BY <3>1
    <3> QED  BY <1>1, <2>2, <3>1, <3>2 DEF UserOK
  <2> QED  BY <1>1, <2>3, <2>4
<1>6. AcknowledgedIsStored' /\ acked' \subseteq DOMAIN log'
  BY <1>1 DEF IInv, TypeOK, AcknowledgedIsStored, Stored
<1>7. TypeOK'
  BY <1>1, <1>2, <1>3, <1>4, <1>5, <1>6 DEF IInv, TypeOK
<1>8. InOnePlace' /\ ChallengeAcceptedOnce' /\ CreatedForItsChallenge'
  BY <1>1, <1>3 DEF IInv, InOnePlace, ChallengeAcceptedOnce, Accepted, CreatedForItsChallenge
<1>9. CredentialsCarryTheUserId'
  <2>1. CASE user' = user
    BY <1>1, <2>1 DEF IInv, CredentialsCarryTheUserId, CredentialIds
  <2>2. CASE user' = NoUser
    <3>1. CredentialIds' = {}
      BY <2>2 DEF CredentialIds, NoUser
    <3> QED  BY <3>1 DEF CredentialsCarryTheUserId
  <2> QED  BY <1>1, <2>1, <2>2
<1> QED  BY <1>6, <1>7, <1>8, <1>9 DEF IInv

-----------------------------------------------------------------------------
(* The theorems.                                                              *)

\* Nothing has been asked for at first.
LEMMA InitIInv == ASSUME Init PROVE IInv
<1>1. /\ user = NoUser /\ log = <<>> /\ acked = {} /\ faults = 0 /\ server \in Servers /\ WebInit
  BY DEF Init
<1>2. /\ \A s \in Sids : sessions[s] = None
      /\ \A t \in Tabs : tabs[t].at = "page"
      /\ drawn.handle = 0
  BY <1>1, InitIs
<1>3. Accepted = {}
  BY <1>1 DEF Accepted
<1>4. WebOK(DefaultSession) /\ InOnePlace
  BY <1>1, <1>3, WebInitOK DEF InOnePlace
<1>5. \A t \in Tabs : PlaceOK(t)
  BY <1>2 DEF PlaceOK, Sections
<1>6. UserOK
  BY <1>1, <1>2 DEF UserOK, NoUser
<1>7. TypeOK
  <2>1. log \in Seq(Events)
    BY <1>1
  <2> QED  BY <1>1, <1>2, <1>4, <1>5, <1>6, <2>1, DemoAssumption DEF TypeOK
<1>8. /\ ChallengeAcceptedOnce /\ AcknowledgedIsStored /\ CreatedForItsChallenge
      /\ CredentialsCarryTheUserId
  BY <1>1 DEF ChallengeAcceptedOnce, AcknowledgedIsStored, CreatedForItsChallenge,
              CredentialsCarryTheUserId
<1> QED  BY <1>4, <1>7, <1>8 DEF IInv

\* Every step of a handler keeps the invariant.
LEMMA HandlerStep == ASSUME IInv, NEW t \in Tabs, Handler(t) PROVE IInv'
<1>1. CASE AxumRegisterStart(t) \/ RocketRegisterStart(t) \/ SqliteRegisterStart(t)
  BY <1>1, RegisterStartStep
<1>2. CASE RegisterStartSave(t)
  BY <1>2, RegisterStartSaveStep
<1>3. CASE AxumRegisterStartPersist(t)
  BY <1>3, PersistStep
<1>4. CASE RegisterFinish(t)
  BY <1>4, TakeStep DEF RegisterFinish, Taking, Fields
<1>5. CASE RegisterFinishPush(t)
  BY <1>5, PushStep
<1>6. CASE RegisterFinishReply(t) \/ AuthenticateFinishReply(t)
  BY <1>6, AcknowledgeStep DEF RegisterFinishReply, AuthenticateFinishReply
<1>7. CASE AuthenticateStart(t)
  BY <1>7, AuthenticateStartStep
<1>8. CASE SqliteAuthenticateStart(t)
  BY <1>8, SqliteAuthenticateStartStep
<1>9. CASE AuthenticateStartSave(t)
  BY <1>9, AuthenticateStartSaveStep
<1>10. CASE AuthenticateFinish(t)
  BY <1>10, TakeStep DEF AuthenticateFinish, Taking, Fields
<1>11. CASE AuthenticateFinishVerify(t)
  BY <1>11, VerifyStep
<1> QED
  BY <1>1, <1>2, <1>3, <1>4, <1>5, <1>6, <1>7, <1>8, <1>9, <1>10, <1>11 DEF Handler

\* Every step keeps the invariant.
LEMMA NextIInv == ASSUME IInv, [Next]_vars PROVE IInv'
<1>1. CASE Restart
  BY <1>1, RestartStep
<1>2. ASSUME NEW t \in Tabs, Cancel(t) PROVE IInv'
  BY <1>2, EndStep, DemoAssumption DEF Cancel, Fault, Done, IInv, TypeOK
<1>3. ASSUME NEW t \in Tabs, Twice(t) PROVE IInv'
  BY <1>3, GestureStep, DemoAssumption DEF Twice, Fault, IInv, TypeOK
<1>4. ASSUME NEW t \in Tabs, Handler(t) PROVE IInv'
  BY <1>4, HandlerStep
<1>5. ASSUME NEW t \in Tabs, Page(t) PROVE IInv'
  BY <1>5, GestureStep DEF Page, IInv, TypeOK
<1>6. CASE UNCHANGED vars
  <2>1. UNCHANGED web /\ UNCHANGED <<server, user, log, acked, faults>>
    BY <1>6 DEF vars
  <2>2. WebOK(DefaultSession) /\ Held(Accepted)
    BY WebParts
  <2>3. /\ WebOK(DefaultSession)'
        /\ HeldOnce(InSessions', InRequests', Accepted, drawn'.challenge)
        /\ UNCHANGED <<sessions, cookies, tabs, devices, drawn>>
    BY <2>1, <2>2, StutterOK
  <2>4. UNCHANGED <<UserIds, CredentialIds, Durable, Accepted>> /\ \A n : Stored(n)' = Stored(n)
    BY <2>1, <2>3 DEF UserIds, CredentialIds, Durable, Accepted, Stored
  <2>5. \A t \in Tabs : PlaceOK(t)'
    BY <2>1, <2>3, <2>4 DEF IInv, TypeOK, PlaceOK
  <2>6. \A s \in Sids : sessions'[s] # None => SessionOK(s)'
    BY <2>1, <2>3, <2>4 DEF IInv, TypeOK, SessionOK
  <2>7. TypeOK'
    BY <2>1, <2>3, <2>5, <2>6 DEF IInv, TypeOK, UserOK
  <2>8. /\ InOnePlace' /\ ChallengeAcceptedOnce' /\ AcknowledgedIsStored'
        /\ CreatedForItsChallenge' /\ CredentialsCarryTheUserId'
    BY <2>1, <2>3, <2>4 DEF IInv, InOnePlace, ChallengeAcceptedOnce, AcknowledgedIsStored,
                            CreatedForItsChallenge, CredentialsCarryTheUserId
  <2> QED  BY <2>7, <2>8 DEF IInv
<1> QED  BY <1>1, <1>2, <1>3, <1>4, <1>5, <1>6 DEF Next, Faults

\* The inductive invariant.
THEOREM DemoServerIInv == Spec => []IInv
<1>1. Init => IInv
  BY InitIInv
<1>2. IInv /\ [Next]_vars => IInv'
  BY NextIInv
<1> QED  BY <1>1, <1>2, PTL DEF Spec

\* Every table, session and request holds values of its kind.
THEOREM DemoServerTypeOK == Spec => []TypeOK
<1>1. IInv => TypeOK
  BY DEF IInv
<1> QED  BY <1>1, DemoServerIInv, PTL

\* A challenge is accepted at most once, by whichever server, whatever is delivered
\* twice, dropped or cut off by a restart.
THEOREM DemoServerChallengeAcceptedOnce == Spec => []ChallengeAcceptedOnce
<1>1. IInv => ChallengeAcceptedOnce
  BY DEF IInv
<1> QED  BY <1>1, DemoServerIInv, PTL

\* What a page was told is in the table, with at least that count, and in a
\* database it outlives the process.
THEOREM DemoServerAcknowledgedIsStored == Spec => []AcknowledgedIsStored
<1>1. IInv => AcknowledgedIsStored
  BY DEF IInv
<1> QED  BY <1>1, DemoServerIInv, PTL

\* Every stored credential was created for the user's id, unless axum_server drew it.
THEOREM DemoServerCredentialsCarryTheUserId == Spec => []CredentialsCarryTheUserId
<1>1. IInv => CredentialsCarryTheUserId
  BY DEF IInv
<1> QED  BY <1>1, DemoServerIInv, PTL
-----------------------------------------------------------------------------
(* The registry of the user's credentials.                                    *)

\* The history that the log is.
History(l) ==
    [n \in DOMAIN l |->
        [kind |-> l[n].kind, id |-> l[n].id, owner |-> "alice", count |-> l[n].count]]

\* One more event is one more entry of the history.
LEMMA HistoryAppends ==
    ASSUME NEW l \in Seq(Events), NEW e
    PROVE  /\ History(Append(l, e))
                 = Append(History(l), [kind |-> e.kind, id |-> e.id, owner |-> "alice",
                                       count |-> e.count])
           /\ History(Append(l, e)) # History(l)
<1> DEFINE Seen(x) == [kind |-> x.kind, id |-> x.id, owner |-> "alice", count |-> x.count]
<1>1. PICK longer : longer = Append(l, e)
  OBVIOUS
<1>2. /\ DOMAIN longer = 1..Len(l) + 1 /\ DOMAIN l = 1..Len(l) /\ Len(l) \in Nat
      /\ longer[Len(l) + 1] = e
      /\ \A i \in 1..Len(l) : longer[i] = l[i]
  BY <1>1
<1>3. PICK S : S = {Seen(l[i]) : i \in 1..Len(l)}
  OBVIOUS
<1>4. /\ History(l) = [n \in 1..Len(l) |-> Seen(l[n])]
      /\ History(longer) = [n \in 1..Len(l) + 1 |-> Seen(longer[n])]
  BY <1>2 DEF History
<1> HIDE DEF Seen
<1>5. History(l) \in Seq(S) /\ Len(History(l)) = Len(l)
  <2>1. History(l) \in [1..Len(l) -> S]
    BY <1>3, <1>4
  <2> QED  BY <1>2, <2>1
<1>6. PICK h : h = Append(History(l), Seen(e))
  OBVIOUS
<1>7. /\ DOMAIN h = 1..Len(l) + 1
      /\ h[Len(l) + 1] = Seen(e)
      /\ \A i \in 1..Len(l) : h[i] = Seen(l[i])
      /\ h = [n \in DOMAIN h |-> h[n]]
  BY <1>2, <1>4, <1>5, <1>6
<1>8. History(longer) = h
  BY <1>2, <1>4, <1>7
<1>9. History(longer) # History(l)
  <2>1. DOMAIN History(longer) = 1..Len(l) + 1 /\ DOMAIN History(l) = 1..Len(l)
    BY <1>4
  <2>2. Len(l) + 1 \in 1..Len(l) + 1 /\ Len(l) + 1 \notin 1..Len(l)
    BY <1>2
  <2> QED  BY <2>1, <2>2
<1> QED  BY <1>1, <1>6, <1>8, <1>9 DEF Seen

\* What leaves the credentials and the log alone cannot be seen.
LEMMA QuietRefines ==
    ASSUME StoredOnce, user'.credentials = user.credentials, UNCHANGED <<server, log>>
    PROVE  StoredOnce' /\ UNCHANGED Registry!vars
<1>1. Accepted' = Accepted
  BY DEF Accepted
<1>2. StoredOnce'
  BY <1>1 DEF StoredOnce
<1>3. UNCHANGED Registry!vars
  BY DEF Registry!vars, Durable
<1> QED  BY <1>2, <1>3

\* The challenge of a state that a request took is not spent.
LEMMA HeldIsUnspent ==
    ASSUME IInv, NEW t \in Tabs, tabs[t].at \in Holding, ChallengeOf(tabs[t].data.state) # 0
    PROVE  ChallengeOf(tabs[t].data.state) \notin Accepted
<1>1. InRequests[t] = ChallengeOf(tabs[t].data.state)
  BY DEF InRequests
<1> HIDE DEF InRequests
<1> QED  BY <1>1 DEF IInv, InOnePlace, HeldOnce

\* The log and what it says is spent, after an event.
LEMMA LogAppends ==
    ASSUME IInv, StoredOnce, NEW e \in Events, log' = Append(log, e)
    PROVE  /\ Accepted' = Accepted \cup {e.challenge}
           /\ e.id[2] \in Accepted' => \A n \in DOMAIN log' : log'[n].id[2] \in Accepted'
<1>1. log \in Seq(Events)
  BY DEF IInv, TypeOK
<1>2. /\ DOMAIN log' = DOMAIN log \cup {Len(log) + 1}
      /\ \A n \in DOMAIN log : log'[n] = log[n]
      /\ log'[Len(log) + 1] = e
  BY <1>1
<1>3. Accepted' = Accepted \cup {e.challenge}
  BY <1>2 DEF Accepted
<1> QED  BY <1>2, <1>3 DEF StoredOnce

\* register_finish registers an id that was never registered, or changes nothing.
LEMMA PushRefines ==
    ASSUME IInv, StoredOnce, NEW t \in Tabs, RegisterFinishPush(t)
    PROVE  StoredOnce' /\ [Registry!Next]_Registry!vars
<1>1. PICK a, state, new :
         /\ a = tabs[t].data.answer /\ state = tabs[t].data.state
         /\ new = NewCredential(RegistrationOf(Wa, a))
  OBVIOUS
<1>2. tabs[t].at = "register_finish.push" /\ server' = server
  BY DEF RegisterFinishPush
<1>3. ASSUME finish_registration(Wa, state, RegistrationOf(Wa, a), Now) = Ok,
             insert_credential([id |-> new.id, counter |-> new.counter,
                                public_key_cose |-> new.public_key_cose]),
             log' = Append(log, Event("create", new.id, a.challenge, new.counter, state.user_id))
      PROVE  StoredOnce' /\ [Registry!Next]_Registry!vars
  <2>1. PICK passkey, e :
           /\ passkey = [id |-> a.id, counter |-> 0, public_key_cose |-> cose_pubkey(a.id)]
           /\ e = Event("create", a.id, a.challenge, 0, state.user_id)
    OBVIOUS
  <2>2. new.id = a.id /\ new.counter = 0 /\ new.public_key_cose = cose_pubkey(a.id)
    BY <1>1, RegistrationIs
  <2>3. Registers(a) /\ RegistrationOK(state, UserIds, drawn.challenge) /\ DrawnOK /\ UserOK
    BY <1>1, <1>2, WebParts DEF IInv, TypeOK, PlaceOK, TabsOK, RequestOK
  <2>4. PICK seq : seq = user.credentials
    OBVIOUS
  <2>5. user'.credentials = Append(seq, passkey) /\ log' = Append(log, e)
    BY <1>3, <2>1, <2>2, <2>3, <2>4 DEF insert_credential, UserOK
  <2>6. /\ a.id \in Devices \X (1..MaxChallenges) /\ a.challenge \in 1..MaxChallenges
        /\ a.id[2] = a.challenge
    BY <2>3, RegistersInRange DEF Registers
  <2>7. /\ passkey \in PasskeyCredentials /\ passkey.id = a.id /\ passkey.counter = 0
        /\ e \in Events /\ e.kind = "create" /\ e.id = a.id /\ e.challenge = a.challenge
        /\ e.count = 0
    <3>1. 0 \in 0..MaxChallenges /\ state.user_id \in Nat
      BY <2>3, WebAssumption DEF RegistrationOK, UserIds
    <3> QED  BY <2>1, <2>6, <3>1 DEF PasskeyCredentials, Event, Events
  <2>8. a.challenge \notin Accepted
    <3>1. a.challenge = state.challenge
      BY <1>3, RegistersItsChallenge
    <3>2. ChallengeOf(tabs[t].data.state) = a.challenge
      BY <1>1, <2>3, <3>1 DEF ChallengeOf, RegistrationOK
    <3>3. a.challenge # 0 /\ tabs[t].at \in Holding
      BY <1>2, <2>6 DEF Holding
    <3> QED  BY <3>2, <3>3, HeldIsUnspent
  <2>9. /\ seq \in Seq(PasskeyCredentials) /\ Unique(seq)
        /\ \A i \in DOMAIN seq : seq[i].id[2] \in Accepted
    BY <2>3, <2>4 DEF UserOK, StoredOnce, Unique
  <2>10. \A i \in DOMAIN seq : seq[i].id # passkey.id
    BY <2>6, <2>7, <2>8, <2>9
  <2>11. PICK longer : longer = Append(seq, passkey)
    OBVIOUS
  <2>12. /\ Unique(longer) /\ TableOf(seq)[a.id] = None
         /\ TableOf(longer) = [TableOf(seq) EXCEPT ![a.id] = [owner |-> "alice", count |-> 0]]
    BY <2>7, <2>9, <2>10, <2>11, TableAppends
  <2>13. /\ Accepted' = Accepted \cup {a.challenge}
         /\ \A n \in DOMAIN log' : log'[n].id[2] \in Accepted'
    BY <2>5, <2>6, <2>7, LogAppends
  <2>14. \A i \in DOMAIN longer : longer[i].id[2] \in Accepted'
    <3>1. /\ DOMAIN longer = DOMAIN seq \cup {Len(seq) + 1}
          /\ longer[Len(seq) + 1] = passkey
          /\ \A i \in DOMAIN seq : longer[i] = seq[i]
      BY <2>7, <2>9, <2>11
    <3> QED  BY <2>6, <2>7, <2>9, <2>13, <3>1
  <2>15. StoredOnce'
    BY <2>5, <2>11, <2>12, <2>13, <2>14 DEF StoredOnce, Unique
  <2>16. /\ History(log') = Append(History(log), [kind |-> "create", id |-> a.id,
                                                  owner |-> "alice", count |-> 0])
         /\ History(log') # History(log)
    BY <2>5, <2>7, HistoryAppends DEF IInv, TypeOK
  <2>17. \A n \in DOMAIN History(log) : History(log)[n].id # a.id
    BY <2>6, <2>8 DEF History, StoredOnce
  <2>18. /\ TableOf(user.credentials)[a.id] = None
         /\ TableOf(user'.credentials)
               = [TableOf(user.credentials) EXCEPT ![a.id] = [owner |-> "alice", count |-> 0]]
    BY <2>4, <2>5, <2>11, <2>12
  <2>19. Durable' = Durable
    BY <1>2 DEF Durable
  <2>20. Registry!Register(a.id, "alice", 0)
    BY <2>16, <2>17, <2>18, <2>19
       DEF Registry!Register, Registry!Accept, TableOf, Ids, History
  <2>21. Registry!Next
    BY <2>6, <2>16, <2>20, WebAssumption DEF Registry!Next, History
  <2> QED  BY <2>15, <2>21
<1>4. ASSUME UNCHANGED <<user, log>> PROVE StoredOnce' /\ [Registry!Next]_Registry!vars
  BY <1>2, <1>4, QuietRefines
<1> QED  BY <1>1, <1>3, <1>4 DEF RegisterFinishPush

\* authenticate_finish signs the user in with a greater count, or changes nothing.
LEMMA VerifyRefines ==
    ASSUME IInv, StoredOnce, NEW t \in Tabs, AuthenticateFinishVerify(t)
    PROVE  StoredOnce' /\ [Registry!Next]_Registry!vars
<1>1. PICK a, state, seq, i :
         /\ a = tabs[t].data.answer /\ state = tabs[t].data.state
         /\ seq = user.credentials /\ i = Find(seq, a.id)
  OBVIOUS
<1>2. tabs[t].at = "authenticate_finish.verify" /\ server' = server
  BY DEF AuthenticateFinishVerify
<1>3. ASSUME i # 0, finish_authentication(Wa, state, AssertionOf(Wa, a), seq[i], Now) = Ok,
             user' = [user EXCEPT !.credentials[i].counter =
                         AssertionOf(Wa, a).authenticator_data.value.sign_count],
             log' = Append(log, Event("get", a.id, a.challenge, a.count, user.id))
      PROVE  StoredOnce' /\ [Registry!Next]_Registry!vars
  <2>1. SignsIn(a) /\ DrawnOK /\ UserOK
    BY <1>1, <1>2, WebParts DEF IInv, TypeOK, TabsOK, RequestOK
  <2>2. /\ a.id \in Devices \X (1..MaxChallenges) /\ a.challenge \in 1..MaxChallenges
        /\ a.count \in 0..MaxChallenges /\ a.count \in Nat \ {0}
    BY <2>1, SignsInInRange, WebAssumption
  <2>3. /\ seq \in Seq(PasskeyCredentials) /\ Unique(seq)
        /\ \A j \in DOMAIN seq : seq[j].id[2] \in Accepted
    BY <1>1, <2>1 DEF UserOK, StoredOnce, Unique
  <2>4. i \in DOMAIN seq /\ seq[i].id = a.id
    BY <1>1, <1>3, <2>3, FoundById
  <2>5. PICK old : old = seq[i].counter
    OBVIOUS
  <2>6. old < a.count
    <3>1. seq[i] \in PasskeyCredentials
      BY <2>3, <2>4
    <3>2. old \in Nat
      BY <2>5, <3>1 DEF PasskeyCredentials
    <3> QED  BY <1>3, <2>2, <2>5, <3>2, SignsInItsChallenge
  <2>7. PICK new : new = [seq EXCEPT ![i].counter = a.count]
    OBVIOUS
  <2>8. user'.credentials = new
    <3>1. AssertionOf(Wa, a).authenticator_data.value.sign_count = a.count
      BY AssertionIs
    <3>2. PICK passkey : passkey = [seq[i] EXCEPT !.counter = a.count]
      OBVIOUS
    <3>3. new = [seq EXCEPT ![i] = passkey]
      BY <2>7, <3>2
    <3>4. user' = [user EXCEPT !.credentials = new]
      BY <1>1, <1>3, <3>1, <3>2, <3>3
    <3> QED  BY <2>1, <3>4 DEF UserOK
  <2>9. /\ Unique(new) /\ DOMAIN new = DOMAIN seq
        /\ \A j \in DOMAIN seq : new[j].id = seq[j].id
        /\ TableOf(seq)[a.id] = [owner |-> "alice", count |-> old]
        /\ TableOf(new) = [TableOf(seq) EXCEPT ![a.id] = [owner |-> "alice", count |-> a.count]]
    <3>1. PICK n \in 0..MaxChallenges : n = a.count
      BY <2>2
    <3>2. seq \in Seq(PasskeyCredentials) /\ Unique(seq) /\ i \in DOMAIN seq
      BY <2>3, <2>4
    <3>3. LET made == [seq EXCEPT ![i].counter = n]
              id   == seq[i].id
          IN  /\ made \in Seq(PasskeyCredentials) /\ Unique(made) /\ DOMAIN made = DOMAIN seq
              /\ \A j \in DOMAIN seq : made[j].id = seq[j].id
              /\ id \in Ids
              /\ TableOf(seq)[id] = [owner |-> "alice", count |-> seq[i].counter]
              /\ TableOf(made) = [TableOf(seq) EXCEPT ![id] = [owner |-> "alice", count |-> n]]
      BY <3>2, TableCounts
    <3> QED  BY <2>4, <2>5, <2>7, <3>1, <3>3
  <2>10. PICK e : e = Event("get", a.id, a.challenge, a.count, user.id)
    OBVIOUS
  <2>11. /\ e.kind = "get" /\ e.id = a.id /\ e.challenge = a.challenge /\ e.count = a.count
         /\ e \in Events /\ log' = Append(log, e)
    <3>1. user.id \in Nat
      BY <2>1 DEF UserOK, DrawnOK
    <3> QED  BY <1>3, <2>2, <2>10, <3>1 DEF Event, Events
  <2>12. /\ Accepted' = Accepted \cup {a.challenge}
         /\ \A n \in DOMAIN log' : log'[n].id[2] \in Accepted'
    <3>1. e.id[2] \in Accepted
      BY <2>3, <2>4, <2>11
    <3> QED  BY <2>11, <3>1, LogAppends
  <2>13. StoredOnce'
    BY <2>3, <2>8, <2>9, <2>12 DEF StoredOnce, Unique
  <2>14. /\ History(log') = Append(History(log), [kind |-> "get", id |-> a.id,
                                                  owner |-> "alice", count |-> a.count])
         /\ History(log') # History(log)
    BY <2>11, HistoryAppends DEF IInv, TypeOK
  <2>15. /\ TableOf(user.credentials)[a.id].count = old
         /\ TableOf(user.credentials)[a.id]
               = [owner |-> "alice", count |-> TableOf(user.credentials)[a.id].count]
    BY <1>1, <2>9
  <2>16. TableOf(user'.credentials) = [TableOf(user.credentials) EXCEPT ![a.id].count = a.count]
    <3>1. [TableOf(seq)[a.id] EXCEPT !.count = a.count] = [owner |-> "alice", count |-> a.count]
      BY <2>9
    <3>2. [TableOf(seq) EXCEPT ![a.id].count = a.count]
             = [TableOf(seq) EXCEPT ![a.id] = [TableOf(seq)[a.id] EXCEPT !.count = a.count]]
      OBVIOUS
    <3> QED  BY <1>1, <2>8, <2>9, <3>1, <3>2
  <2>17. Registry!Accept("get", a.id, "alice", a.count)
    <3>1. Durable' = Durable
      BY <1>2 DEF Durable
    <3> QED  BY <2>14, <3>1 DEF Registry!Accept, History
  <2>18. Registry!SignIn(a.id, a.count)
    BY <2>6, <2>15, <2>16, <2>17 DEF Registry!SignIn, TableOf, Ids
  <2>19. Registry!Next
    BY <2>2, <2>14, <2>18 DEF Registry!Next, History
  <2> QED  BY <2>13, <2>19
<1>4. ASSUME UNCHANGED <<user, log>> PROVE StoredOnce' /\ [Registry!Next]_Registry!vars
  BY <1>2, <1>4, QuietRefines
<1> QED  BY <1>1, <1>3, <1>4 DEF AuthenticateFinishVerify

\* A restart empties the registry, unless it is in a database.
LEMMA RestartRefines ==
    ASSUME IInv, StoredOnce, Restart
    PROVE  StoredOnce' /\ [Registry!Next]_Registry!vars
<1>1. log' = log /\ server' = server
  BY DEF Restart
<1>2. CASE Durable
  BY <1>1, <1>2, QuietRefines DEF Restart
<1>3. CASE ~Durable
  <2>1. user'.credentials = <<>>
    BY <1>3 DEF Restart, NoUser
  <2>2. Accepted' = Accepted /\ Durable' = Durable
    BY <1>1 DEF Accepted, Durable
  <2>3. StoredOnce'
    BY <1>1, <2>1, <2>2 DEF StoredOnce
  <2>4. TableOf(user'.credentials) = [id \in Ids |-> None]
    <3>1. PICK none : none = <<>> /\ user'.credentials = none
      BY <2>1
    <3>2. none \in Seq(PasskeyCredentials) /\ DOMAIN none = {}
      BY <3>1
    <3>3. \A id \in Ids : TableOf(none)[id] = None
      BY <3>2, UnlistedIsAbsent DEF Listed
    <3>4. TableOf(none) = [id \in Ids |-> TableOf(none)[id]]
      BY DEF TableOf
    <3> HIDE DEF TableOf
    <3> QED  BY <3>1, <3>3, <3>4
  <2>5. Registry!Restart
    BY <1>1, <1>3, <2>2, <2>4 DEF Registry!Restart, Registry!Empty, TableOf, Ids
  <2>6. CASE TableOf(user'.credentials) = TableOf(user.credentials)
    <3>1. UNCHANGED Registry!vars
      BY <1>1, <2>2, <2>6 DEF Registry!vars, TableOf, Ids
    <3> QED  BY <2>3, <3>1
  <2>7. CASE TableOf(user'.credentials) # TableOf(user.credentials)
    <3>1. Registry!Next
      BY <2>5, <2>7 DEF Registry!Next, TableOf, Ids
    <3> QED  BY <2>3, <3>1
  <2> QED  BY <2>6, <2>7
<1> QED  BY <1>2, <1>3

\* The empty registry, and no history.
LEMMA InitRefines == ASSUME Init PROVE StoredOnce /\ Registry!Init
<1>1. user.credentials = <<>> /\ log = <<>>
  BY DEF Init, NoUser
<1>2. StoredOnce
  BY <1>1 DEF StoredOnce
<1>3. TableOf(user.credentials) = [id \in Ids |-> None]
  <2>1. PICK none : none = <<>> /\ user.credentials = none
    BY <1>1
  <2>2. none \in Seq(PasskeyCredentials) /\ DOMAIN none = {}
    BY <2>1
  <2>3. \A id \in Ids : TableOf(none)[id] = None
    BY <2>2, UnlistedIsAbsent DEF Listed
  <2>4. TableOf(none) = [id \in Ids |-> TableOf(none)[id]]
    BY DEF TableOf
  <2> HIDE DEF TableOf
  <2> QED  BY <2>1, <2>3, <2>4
<1>4. History(log) = <<>>
  BY <1>1 DEF History
<1>5. Durable \in BOOLEAN
  BY DEF Durable
<1>6. Registry!Init
  BY <1>3, <1>4, <1>5 DEF Registry!Init, Registry!Empty, TableOf, Ids, History
<1> QED  BY <1>2, <1>6

\* Every step is one of the registry, or changes nothing that can be seen.
LEMMA NextRefines ==
    ASSUME IInv, StoredOnce, [Next]_vars
    PROVE  StoredOnce' /\ [Registry!Next]_Registry!vars
<1>0. UserOK
  BY DEF IInv, TypeOK
<1>1. ASSUME user'.credentials = user.credentials, UNCHANGED <<server, log>>
      PROVE  StoredOnce' /\ [Registry!Next]_Registry!vars
  BY <1>1, QuietRefines
<1>2. CASE Restart
  BY <1>2, RestartRefines
<1>3. ASSUME NEW t \in Tabs, Cancel(t) \/ Twice(t) \/ Page(t)
      PROVE  StoredOnce' /\ [Registry!Next]_Registry!vars
  BY <1>1, <1>3 DEF Cancel, Twice, Page
<1>4. ASSUME NEW t \in Tabs, Handler(t)
      PROVE  StoredOnce' /\ [Registry!Next]_Registry!vars
  <2>1. CASE AxumRegisterStart(t) \/ RocketRegisterStart(t) \/ SqliteRegisterStart(t)
    BY <1>0, <1>1, <2>1 DEF AxumRegisterStart, RocketRegisterStart, SqliteRegisterStart,
                            ReadUser, ensure_user, UserOK
  <2>2. CASE RegisterStartSave(t) \/ AuthenticateStart(t) \/ AuthenticateStartSave(t)
    BY <1>1, <2>2 DEF RegisterStartSave, AuthenticateStart, AuthenticateStartSave
  <2>3. CASE AxumRegisterStartPersist(t)
    BY <1>0, <1>1, <2>3 DEF AxumRegisterStartPersist, UserOK
  <2>4. CASE SqliteAuthenticateStart(t)
    BY <1>0, <1>1, <2>4 DEF SqliteAuthenticateStart, ensure_user, UserOK
  <2>5. CASE RegisterFinish(t) \/ AuthenticateFinish(t)
    BY <1>1, <2>5 DEF RegisterFinish, AuthenticateFinish, Take
  <2>6. CASE RegisterFinishReply(t) \/ AuthenticateFinishReply(t)
    BY <1>1, <2>6 DEF RegisterFinishReply, AuthenticateFinishReply, Acknowledge
  <2>7. CASE RegisterFinishPush(t)
    BY <2>7, PushRefines
  <2>8. CASE AuthenticateFinishVerify(t)
    BY <2>8, VerifyRefines
  <2> QED  BY <1>4, <2>1, <2>2, <2>3, <2>4, <2>5, <2>6, <2>7, <2>8 DEF Handler
<1>5. CASE UNCHANGED vars
  BY <1>1, <1>5 DEF vars
<1> QED  BY <1>2, <1>3, <1>4, <1>5 DEF Next, Faults

\* No credential is stored twice, or comes back under an id that was registered.
THEOREM DemoServerStoredOnce == Spec => []StoredOnce
<1>1. Init => StoredOnce
  BY InitRefines
<1>2. IInv /\ StoredOnce /\ [Next]_vars => StoredOnce'
  BY NextRefines
<1> QED  BY <1>1, <1>2, DemoServerIInv, PTL DEF Spec

\* Whichever of the three runs, it is a registry of the user's credentials: an id
\* is registered once, signs in with ever greater counts, and is forgotten by a
\* restart only where there is no database.
THEOREM DemoServerImplementsRegistry == Spec => ImplementsRegistry
<1>1. Init => Registry!Init
  BY InitRefines
<1>2. IInv /\ StoredOnce /\ [Next]_vars => [Registry!Next]_Registry!vars
  BY NextRefines
<1> QED  BY <1>1, <1>2, DemoServerIInv, DemoServerStoredOnce, PTL
         DEF Spec, ImplementsRegistry, Registry!Spec
=============================================================================
