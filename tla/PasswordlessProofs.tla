-------------------------- MODULE PasswordlessProofs --------------------------
(***************************************************************************)
(* Invariants of the passwordless server, for any number of tabs, browsers, *)
(* devices, names, challenges, sids and faults: IInv is inductive, and says *)
(* that a challenge is accepted at most once, that a credential is filed    *)
(* under the name its challenge was asked for, and that a signed-in sid is  *)
(* carried by its own browser alone.  At the end, that it implements the    *)
(* registry of credentials.                                                 *)
(***************************************************************************)
EXTENDS Passwordless, WebSessionProofs

\* A session that was just made holds no state of a ceremony.
LEMMA DefaultFields ==
    Fields \subseteq DOMAIN DefaultSession /\ \A f \in Fields : DefaultSession[f] = None
BY DEF Fields, DefaultSession

\* The parts of IInv that the lemmas of WebSessionProofs ask for.
LEMMA WebParts ==
    ASSUME IInv
    PROVE  /\ WebOK(DefaultSession) /\ Held(Accepted)
           /\ TabsOK /\ SessionsOK(DefaultSession) /\ CookiesOK /\ DevicesOK /\ DrawnOK
BY DEF IInv, TypeOK, WebOK, InOnePlace, Held

-----------------------------------------------------------------------------
(* What stays as it is while one tab moves.                                   *)

\* Names of earlier challenges do not change.
AskedGrows ==
    /\ drawn.challenge \in Nat /\ drawn'.challenge \in Nat
    /\ drawn.challenge <= drawn'.challenge
    /\ \A c \in 1..drawn.challenge : asked'[c] = asked[c]

\* A state stays well-formed.
LEMMA StateKept ==
    ASSUME AskedGrows, NEW state
    PROVE  /\ RegistrationOK(state, asked, drawn.challenge)
                 => RegistrationOK(state, asked', drawn'.challenge)
           /\ AuthenticationOK(state, drawn.challenge) => AuthenticationOK(state, drawn'.challenge)
BY DEF AskedGrows, RegistrationOK, AuthenticationOK

\* A request that does not move stays well-formed.
LEMMA PlacesMove ==
    ASSUME \A u \in Tabs : PlaceOK(u), AskedGrows,
           NEW t \in Tabs, NEW place, NEW sid, NEW data, Moves(t, place, sid, data), PlaceOK(t)'
    PROVE  (\A u \in Tabs : PlaceOK(u))'
<1>1. ASSUME NEW u \in Tabs, u # t PROVE PlaceOK(u)'
  <2>1. tabs'[u] = tabs[u]
    BY <1>1 DEF Moves
  <2>2. /\ RegistrationOK(tabs[u].data.state, asked, drawn.challenge)
              => RegistrationOK(tabs[u].data.state, asked', drawn'.challenge)
        /\ AuthenticationOK(tabs[u].data.state, drawn.challenge)
              => AuthenticationOK(tabs[u].data.state, drawn'.challenge)
    BY StateKept
  <2> QED  BY <2>1, <2>2 DEF PlaceOK
<1> QED  BY <1>1

\* A session that does not change stays well-formed.
LEMMA SessionKept ==
    ASSUME AskedGrows, NEW s, SessionOK(s), sessions'[s] = sessions[s]
    PROVE  SessionOK(s)'
<1>1. /\ RegistrationOK(sessions[s].reg_state, asked, drawn.challenge)
            => RegistrationOK(sessions[s].reg_state, asked', drawn'.challenge)
      /\ AuthenticationOK(sessions[s].auth_state, drawn.challenge)
            => AuthenticationOK(sessions[s].auth_state, drawn'.challenge)
  BY StateKept
<1> QED  BY <1>1 DEF SessionOK

\* A signed-in session stays its browser's, when nobody else comes to carry its sid.
LEMMA SidsStayCarried ==
    ASSUME SidsCarriedByTheirBrowser,
           \A s \in Sids : sessions'[s] # None /\ sessions'[s].signed_in_as # None
              => /\ sessions[s] # None /\ sessions[s].signed_in_as = sessions'[s].signed_in_as
                 /\ minted'[s] = minted[s]
                 /\ \A b \in Carriers(s)' : b \in Carriers(s)
    PROVE  SidsCarriedByTheirBrowser'
BY DEF SidsCarriedByTheirBrowser

\* The log stays, and the names of its challenges.
LEMMA FiledStays ==
    ASSUME IInv, AskedGrows, UNCHANGED log PROVE FiledAsAsked'
<1>1. \A n \in DOMAIN log : log[n].challenge \in 1..drawn.challenge
  <2>1. \A n \in DOMAIN log : log[n] \in Events
    BY DEF IInv, TypeOK
  <2>2. Accepted \subseteq 0..drawn.challenge
    BY DEF IInv, InOnePlace, HeldOnce
  <2>3. AskedGrows => drawn.challenge \in Nat
    BY DEF AskedGrows
  <2>4. MaxChallenges \in Nat
    BY WebAssumption
  <2> QED  BY <2>1, <2>2, <2>3, <2>4 DEF Events, Accepted
<1> QED  BY <1>1 DEF FiledAsAsked, AskedGrows, IInv

-----------------------------------------------------------------------------
(* The kinds of steps.                                                        *)

\* Only a tab moves, with a sid that its browser had.
LEMMA QuietStep ==
    ASSUME IInv, NEW t \in Tabs, NEW place, NEW sid, NEW data, Moves(t, place, sid, data),
           sid = None \/ tabs[t].browser \in Carriers(sid),
           UNCHANGED <<sessions, cookies, drawn, users, log, asked, minted>>,
           faults' \in 0..MaxFaults, PlaceOK(t)', WebOK(DefaultSession)',
           HeldOnce(InSessions', InRequests', Accepted, drawn'.challenge)
    PROVE  IInv'
<1>1. TabsOK /\ CookiesOK /\ DrawnOK
  BY WebParts
<1>2. AskedGrows
  BY <1>1 DEF AskedGrows, DrawnOK
<1>3. (\A u \in Tabs : PlaceOK(u))'
  BY <1>2, PlacesMove DEF IInv, TypeOK
<1>4. (\A s \in Sids : sessions[s] # None => SessionOK(s))'
  BY <1>2, SessionKept DEF IInv, TypeOK
<1>5. (DOMAIN users = Names /\ \A name \in Names : users[name] # None => UserOK(name))'
  BY DEF IInv, TypeOK, UserOK
<1>6. (log \in Seq(Events) /\ DOMAIN asked = 1..MaxChallenges /\ DOMAIN minted = Sids)'
  BY DEF IInv, TypeOK
<1>7. TypeOK'
  BY <1>3, <1>4, <1>5, <1>6 DEF TypeOK
<1>8. InOnePlace' /\ ChallengeAcceptedOnce'
  BY DEF IInv, InOnePlace, ChallengeAcceptedOnce, Accepted
<1>9. FiledAsAsked'
  BY <1>2, FiledStays
<1>10. SidsCarriedByTheirBrowser'
  <2>1. ASSUME NEW s \in Sids, NEW b \in Carriers(s)' PROVE b \in Carriers(s)
    <3>1. s # None
      BY WebAssumption DEF Sids
    <3>2. cookies' \in {cookies, [cookies EXCEPT ![tabs[t].browser] = sid]}
      OBVIOUS
    <3>3. b \in Carriers(s) \/ (b = tabs[t].browser /\ s \in {sid, sid})
      BY <1>1, <3>2, CarriersStep
    <3> QED  BY <3>1, <3>3
  <2> QED  BY <2>1, SidsStayCarried DEF IInv
<1> QED  BY <1>7, <1>8, <1>9, <1>10 DEF IInv

\* A tab moves on within the server, or back to its page.
LEMMA StillStep ==
    ASSUME IInv, NEW t \in Tabs, NEW place, NEW sid, NEW data, Moves(t, place, sid, data),
           sid = None \/ (sid = tabs[t].sid),
           UNCHANGED <<sessions, cookies, devices, drawn, users, log, asked, minted>>,
           faults' \in 0..MaxFaults,
           Free(place), place \notin Holding, PlaceOK(t)'
    PROVE  IInv'
<1>1. sid \in 1..drawn.sid \cup {None} /\ tabs[t].browser \in Carriers(tabs[t].sid)
  BY WebParts, CarriersOf DEF TabsOK, RequestOK
<1>2. WebOK(DefaultSession)' /\ HeldOnce(InSessions', InRequests', Accepted, drawn'.challenge)
  BY <1>1, WebParts, StillMoveOK
<1> QED  BY <1>1, <1>2, QuietStep

\* The request ends.
LEMMA EndStep ==
    ASSUME IInv, NEW t \in Tabs, Done(t), faults' \in 0..MaxFaults,
           UNCHANGED <<sessions, cookies, devices, drawn, users, log, asked, minted>>
    PROVE  IInv'
<1>1. Moves(t, "page", None, None)
  BY WebParts, DoneMoves
<1>2. PlaceOK(t)'
  BY <1>1 DEF PlaceOK, Places, Moves
<1>3. Free("page") /\ "page" \notin Holding
  BY DEF Free, Holding
<1> QED  BY <1>1, <1>2, <1>3, StillStep

\* A page, a user or an authenticator acts, or a request arrives twice.
LEMMA GestureStep ==
    ASSUME IInv, NEW t \in Tabs, faults' \in 0..MaxFaults,
           UNCHANGED <<users, log, asked, minted>>,
           \/ \E name \in Names : Click(t, "register_start", [name |-> name])
           \/ Click(t, "authenticate_start", None)
           \/ Abandon(t)
           \/ \E d \in Devices : Create(t, d) \/ Get(t, d)
           \/ \E u \in Tabs : Duplicate(t, u)
    PROVE  IInv'
<1>1. TabsOK /\ CookiesOK /\ DevicesOK /\ DrawnOK /\ WebOK(DefaultSession) /\ Held(Accepted)
  BY WebParts
<1>2. \A h \in {"register_start", "authenticate_start"} : Free(h) /\ h \notin Holding
  BY DEF Free, Holding
<1>3. WebOK(DefaultSession)' /\ HeldOnce(InSessions', InRequests', Accepted, drawn'.challenge)
  BY <1>1, <1>2, GesturesOK
<1>4. tabs[t].browser \in Carriers(Cookie(t)) /\ tabs[t].browser \in Carriers(tabs[t].sid)
  BY <1>1, CarriersOf
<1>5. CASE \E name \in Names : Click(t, "register_start", [name |-> name])
  <2>1. PICK name \in Names : Click(t, "register_start", [name |-> name])
    BY <1>5
  <2>2. /\ Moves(t, "register_start", Cookie(t), [name |-> name])
        /\ UNCHANGED <<sessions, cookies, drawn>>
    BY <1>1, <2>1, SendMoves DEF Click
  <2>3. PlaceOK(t)'
    BY <2>2 DEF PlaceOK, Places, Requests, Moves
  <2> QED  BY <1>3, <1>4, <2>2, <2>3, QuietStep
<1>6. CASE Click(t, "authenticate_start", None)
  <2>1. /\ Moves(t, "authenticate_start", Cookie(t), None)
        /\ UNCHANGED <<sessions, cookies, drawn>>
    BY <1>1, <1>6, SendMoves DEF Click
  <2>2. PlaceOK(t)'
    BY <2>1 DEF PlaceOK, Places, Requests, Moves
  <2> QED  BY <1>3, <1>4, <2>1, <2>2, QuietStep
<1>7. CASE Abandon(t)
  BY <1>7, EndStep DEF Abandon
<1>8. CASE \E d \in Devices : Create(t, d)
  <2>1. PICK d \in Devices : Create(t, d)
    BY <1>8
  <2>2. /\ tabs[t].at = "create" /\ UNCHANGED <<sessions, cookies, drawn>>
        /\ \E data : Moves(t, tabs[t].data.finish, Cookie(t), data)
    BY <1>1, <2>1, CreateIs
  <2>3. tabs[t].data.finish = "register_finish"
    BY <2>2 DEF IInv, TypeOK, PlaceOK
  <2>4. PlaceOK(t)'
    BY <2>2, <2>3 DEF PlaceOK, Places, Requests, Moves
  <2> QED  BY <1>3, <1>4, <2>2, <2>4, QuietStep
<1>9. CASE \E d \in Devices : Get(t, d)
  <2>1. PICK d \in Devices : Get(t, d)
    BY <1>9
  <2>2. UNCHANGED <<sessions, cookies, drawn>>
    BY <1>1, <2>1, GetIs
  <2>3. PICK data : Moves(t, "authenticate_finish", Cookie(t), data)
    BY <1>1, <2>1, GetIs
  <2>4. PlaceOK(t)'
    BY <2>3 DEF PlaceOK, Places, Requests, Moves
  <2> QED  BY <1>3, <1>4, <2>2, <2>3, <2>4, QuietStep
<1>10. CASE \E u \in Tabs : Duplicate(t, u)
  <2>1. PICK u \in Tabs : Duplicate(t, u)
    BY <1>10
  <2>2. /\ tabs[t].at \in {"register_finish", "authenticate_finish", "add_credential_finish"}
        /\ tabs[u].browser = tabs[t].browser /\ tabs'[u] = tabs[t]
        /\ Moves(u, tabs[t].at, tabs[t].sid, tabs[t].data)
        /\ UNCHANGED <<sessions, cookies, devices, drawn>>
    BY <1>1, <2>1, DuplicateIs
  <2>3. PlaceOK(t)
    BY DEF IInv, TypeOK
  <2>4. PlaceOK(u)'
    BY <2>2, <2>3 DEF PlaceOK
  <2> QED  BY <1>3, <1>4, <2>2, <2>4, QuietStep
<1> QED  BY <1>5, <1>6, <1>7, <1>8, <1>9, <1>10

\* A start handler saves a state with a new challenge, and answers.
LEMMA SaveStep ==
    ASSUME IInv, NEW t \in Tabs, NEW field \in Fields, NEW state,
           NEW place \in {"create", "get"}, NEW data,
           Save(sid_or_new(t), DefaultSession, field, state), ChallengeOf(state) = NewChallenge,
           \/ Arrives(t, place, data, sid_or_new(t))
           \/ Done(t) /\ UNCHANGED cookies,
           UNCHANGED <<devices, users, log, minted>>, faults' \in 0..MaxFaults,
           DOMAIN asked' = 1..MaxChallenges,
           \A c \in 1..drawn.challenge : asked'[c] = asked[c],
           data.challenge = NewChallenge,
           place = "create" => data.finish = "register_finish",
           field = "reg_state" => RegistrationOK(state, asked', NewChallenge),
           field = "auth_state" => AuthenticationOK(state, NewChallenge)
    PROVE  IInv'
<1>0. PICK sid : sid = sid_or_new(t)
  OBVIOUS
<1>1. /\ TabsOK /\ SessionsOK(DefaultSession) /\ CookiesOK /\ DevicesOK /\ DrawnOK
      /\ WebOK(DefaultSession) /\ Held(Accepted)
  BY WebParts
<1>2. /\ sid \in 1..MaxSids
      /\ (sid = tabs[t].sid /\ sid \in 1..drawn.sid) \/ sid = drawn.sid + 1
  <2>1. sid <= MaxSids
    BY <1>0 DEF Save
  <2>2. tabs[t].sid \in 1..drawn.sid \cup {None}
    BY <1>1 DEF TabsOK, RequestOK
  <2>3. (sid = tabs[t].sid /\ sid \in 1..drawn.sid) \/ sid = drawn.sid + 1
    BY <1>0, <2>2 DEF sid_or_new
  <2> QED  BY <1>1, <2>1, <2>3, WebAssumption DEF DrawnOK
<1>3. /\ DOMAIN sessions' = Sids
      /\ \A s \in Sids \ {sid} : sessions'[s] = sessions[s]
      /\ sessions'[sid][field] = state
      /\ \A f \in DOMAIN DefaultSession \ {field} :
            sessions'[sid][f] = IF sessions[sid] = None THEN DefaultSession[f] ELSE sessions[sid][f]
      /\ drawn'.challenge = NewChallenge
      /\ drawn'.sid = IF sid > drawn.sid THEN sid ELSE drawn.sid
      /\ DrawnGrows
  BY <1>0, <1>1, <1>2, DefaultFields, SaveIs DEF NewChallenge
<1>4. sid \in 1..drawn'.sid \cup {None}
  BY <1>1, <1>2, <1>3 DEF DrawnOK
<1>5. /\ CookiesOK'
      /\ cookies' \in {cookies, [cookies EXCEPT ![tabs[t].browser] = sid]}
      /\ Moves(t, place, None, data) \/ Moves(t, "page", None, None)
  BY <1>0, <1>1, <1>3, <1>4, ReplyMoves
<1>6. PICK where, what : Moves(t, where, None, what) /\ <<where, what>> \in {<<place, data>>, <<"page", None>>}
  BY <1>5
<1>7. AskedGrows
  BY <1>1, <1>3 DEF AskedGrows, DrawnOK, DrawnGrows
<1>8. RequestOK(t)' /\ PlaceOK(t)'
  <2>1. tabs[t].browser \in Browsers
    BY <1>1 DEF TabsOK, RequestOK
  <2>2. data.challenge \in Issued'
    BY <1>1, <1>3 DEF DrawnOK, Issued, NewChallenge
  <2>3. /\ DOMAIN tabs'[t] = {"browser", "at", "sid", "data"}
        /\ tabs'[t].browser = tabs[t].browser
        /\ tabs'[t].at = where /\ tabs'[t].sid = None /\ tabs'[t].data = what
    BY <1>6 DEF Moves
  <2>4. RequestOK(t)'
    BY <1>6, <2>1, <2>2, <2>3 DEF RequestOK
  <2>5. PlaceOK(t)'
    BY <1>6, <2>3 DEF PlaceOK, Places
  <2> QED  BY <2>4, <2>5
<1>9. WebOK(DefaultSession)' /\ HeldOnce(InSessions', InRequests', Accepted, drawn'.challenge)
  <2>1. where \notin Holding
    BY <1>6 DEF Holding
  <2> QED  BY <1>0, <1>1, <1>2, <1>5, <1>6, <1>8, <2>1, DefaultFields, SaveOK
<1>10. (\A u \in Tabs : PlaceOK(u))'
  BY <1>6, <1>7, <1>8, PlacesMove DEF IInv, TypeOK
<1>11. (\A s \in Sids : sessions[s] # None => SessionOK(s))'
  <2>1. SessionOK(sid)'
    <3>1. sid \in Sids
      BY <1>2 DEF Sids
    <3>2. sessions[sid] # None => SessionOK(sid)
      BY <3>1 DEF IInv, TypeOK
    <3>3. \A x : /\ RegistrationOK(x, asked, drawn.challenge)
                       => RegistrationOK(x, asked', drawn'.challenge)
                 /\ AuthenticationOK(x, drawn.challenge)
                       => AuthenticationOK(x, drawn'.challenge)
      BY <1>7, StateKept
    <3>4. /\ sessions'[sid].reg_state # None
                => RegistrationOK(sessions'[sid].reg_state, asked', drawn'.challenge)
          /\ sessions'[sid].auth_state # None
                => AuthenticationOK(sessions'[sid].auth_state, drawn'.challenge)
          /\ sessions'[sid].signed_in_as \in Names \cup {None}
      BY <1>3, <3>2, <3>3 DEF SessionOK, DefaultSession, Fields
    <3> QED  BY <3>4 DEF SessionOK
  <2>2. \A s \in Sids \ {sid} : sessions[s] # None => SessionOK(s)'
    BY <1>3, <1>7, SessionKept DEF IInv, TypeOK
  <2> QED  BY <1>3, <2>1, <2>2
<1>12. TypeOK'
  BY <1>9, <1>10, <1>11 DEF IInv, TypeOK, UserOK
<1>13. InOnePlace' /\ ChallengeAcceptedOnce'
  BY <1>9 DEF IInv, InOnePlace, ChallengeAcceptedOnce, Accepted
<1>14. FiledAsAsked'
  BY <1>7, FiledStays
<1>15. SidsCarriedByTheirBrowser'
  <2>1. ASSUME NEW s \in Sids, sessions'[s] # None, sessions'[s].signed_in_as # None
        PROVE  /\ sessions[s] # None /\ sessions[s].signed_in_as = sessions'[s].signed_in_as
               /\ s # sid \/ s = tabs[t].sid
    <3>1. CASE s # sid
      BY <1>3, <2>1, <3>1
    <3>2. CASE s = sid
      <4>1. /\ sessions[s] # None
            /\ sessions[s].signed_in_as = sessions'[s].signed_in_as
        BY <1>3, <2>1, <3>2 DEF DefaultSession, Fields
      <4>2. s <= drawn.sid
        BY <1>1, <4>1 DEF SessionsOK
      <4> QED  BY <1>1, <1>2, <3>2, <4>1, <4>2 DEF DrawnOK
    <3> QED  BY <3>1, <3>2
  <2>2. ASSUME NEW s \in Sids, s # sid \/ s = tabs[t].sid, NEW b \in Carriers(s)'
        PROVE  b \in Carriers(s)
    <3>1. s # None
      BY WebAssumption DEF Sids
    <3>2. b \in Carriers(s) \/ (b = tabs[t].browser /\ s \in {None, sid})
      BY <1>1, <1>5, <1>6, CarriersStep
    <3>3. tabs[t].browser \in Carriers(tabs[t].sid)
      BY <1>1, CarriersOf
    <3> QED  BY <2>2, <3>1, <3>2, <3>3
  <2> QED  BY <2>1, <2>2, SidsStayCarried DEF IInv
<1> QED  BY <1>12, <1>13, <1>14, <1>15 DEF IInv

\* Which state a finish handler takes, and where it goes on.
Taking == {<<"register_finish", "reg_state", "register_finish.push">>,
           <<"authenticate_finish", "auth_state", "authenticate_finish.verify">>}

\* A finish handler takes the state out of the session.
LEMMA TakeStep ==
    ASSUME IInv, NEW t \in Tabs, NEW section, NEW field \in Fields, NEW next,
           <<section, field, next>> \in Taking,
           Take(t, section, field, next)
    PROVE  IInv'
<1>0. \/ section = "register_finish" /\ field = "reg_state" /\ next = "register_finish.push"
      \/ /\ section = "authenticate_finish" /\ field = "auth_state"
         /\ next = "authenticate_finish.verify"
  BY DEF Taking
<1>1. TakeState(t, section, field, next)
  BY DEF Take
<1>2. UNCHANGED <<users, log, asked, minted, faults>>
  BY DEF Take
<1>3. /\ TabsOK /\ SessionsOK(DefaultSession) /\ CookiesOK /\ DevicesOK /\ DrawnOK
      /\ WebOK(DefaultSession) /\ Held(Accepted)
  BY WebParts
<1>4. WebOK(DefaultSession)' /\ HeldOnce(InSessions', InRequests', Accepted, drawn'.challenge)
  BY <1>0, <1>1, <1>3, DefaultFields, TakeOK DEF Takes
<1>5. PICK sid, what :
         sid = tabs[t].sid /\ what = [answer |-> tabs[t].data, state |-> sessions[sid][field]]
  OBVIOUS
<1>6. /\ UNCHANGED <<cookies, devices, drawn>>
      /\ \/ UNCHANGED sessions /\ Moves(t, "page", None, None)
         \/ /\ sid \in Sids /\ sessions[sid] # None /\ sessions[sid][field] # None
            /\ \A s \in Sids \ {sid} : sessions'[s] = sessions[s]
            /\ sessions'[sid][field] = None
            /\ \A f \in DOMAIN DefaultSession \ {field} : sessions'[sid][f] = sessions[sid][f]
            /\ Moves(t, next, sid, what)
  <2>1. PICK default : default = DefaultSession
    OBVIOUS
  <2>2. Fields \subseteq DOMAIN default /\ SessionsOK(default)
    BY <1>3, <2>1, DefaultFields
  <2>3. UNCHANGED <<cookies, devices, drawn>>
    BY <1>1 DEF TakeState
  <2>4. CASE ~ (UNCHANGED sessions /\ Moves(t, "page", None, None))
    <3>1. /\ sid \in Sids /\ sessions[sid] # None /\ sessions[sid][field] # None
          /\ \A s \in Sids \ {sid} : sessions'[s] = sessions[s]
          /\ sessions'[sid][field] = None
          /\ \A f \in DOMAIN default \ {field} : sessions'[sid][f] = sessions[sid][f]
          /\ Moves(t, next, sid, what)
      BY <1>1, <1>3, <1>5, <2>2, <2>4, TakeIs
    <3> QED  BY <2>1, <2>3, <3>1
  <2> QED  BY <2>3, <2>4
<1>7. tabs[t].browser \in Carriers(sid)
  BY <1>3, <1>5, CarriersOf
<1>8. CASE UNCHANGED sessions /\ Moves(t, "page", None, None)
  <2>1. PlaceOK(t)'
    BY <1>8 DEF PlaceOK, Places, Moves
  <2>2. faults' \in 0..MaxFaults
    BY <1>2 DEF IInv, TypeOK
  <2> QED  BY <1>2, <1>4, <1>6, <1>8, <2>1, <2>2, QuietStep
<1>9. CASE ~ (UNCHANGED sessions /\ Moves(t, "page", None, None))
  <2>1. SessionOK(sid)
    BY <1>6, <1>9 DEF IInv, TypeOK
  <2>2. AskedGrows
    BY <1>2, <1>3, <1>6 DEF AskedGrows, DrawnOK
  <2>3. PlaceOK(t)'
    <3>1. /\ tabs'[t].at = next /\ tabs'[t].data.state = sessions[sid][field]
      BY <1>5, <1>6, <1>9 DEF Moves
    <3>2. /\ next = "register_finish.push"
                => RegistrationOK(sessions[sid][field], asked, drawn.challenge)
          /\ next = "authenticate_finish.verify"
                => AuthenticationOK(sessions[sid][field], drawn.challenge)
      BY <1>0, <1>6, <1>9, <2>1 DEF SessionOK
    <3> QED  BY <1>0, <1>2, <1>6, <3>1, <3>2 DEF PlaceOK, Places, Requests, Awaits
  <2>4. (\A u \in Tabs : PlaceOK(u))'
    BY <1>6, <1>9, <2>2, <2>3, PlacesMove DEF IInv, TypeOK
  <2>5. (\A s \in Sids : sessions[s] # None => SessionOK(s))'
    <3>1. SessionOK(sid)'
      <4>1. /\ sessions'[sid].reg_state \in {None, sessions[sid].reg_state}
            /\ sessions'[sid].auth_state \in {None, sessions[sid].auth_state}
            /\ sessions'[sid].signed_in_as = sessions[sid].signed_in_as
        BY <1>0, <1>6, <1>9 DEF DefaultSession
      <4> QED  BY <1>2, <1>6, <2>1, <4>1 DEF SessionOK
    <3>2. \A s \in Sids \ {sid} : sessions[s] # None => SessionOK(s)'
      BY <1>6, <1>9, <2>2, SessionKept DEF IInv, TypeOK
    <3> QED  BY <1>6, <1>9, <3>1, <3>2
  <2>6. TypeOK'
    BY <1>2, <1>4, <2>4, <2>5 DEF IInv, TypeOK, UserOK
  <2>7. InOnePlace' /\ ChallengeAcceptedOnce'
    BY <1>2, <1>4 DEF IInv, InOnePlace, ChallengeAcceptedOnce, Accepted
  <2>8. FiledAsAsked'
    BY <1>2, <2>2, FiledStays
  <2>9. SidsCarriedByTheirBrowser'
    <3>1. ASSUME NEW s \in Sids, sessions'[s] # None, sessions'[s].signed_in_as # None
          PROVE  /\ sessions[s] # None /\ sessions[s].signed_in_as = sessions'[s].signed_in_as
                 /\ minted'[s] = minted[s]
      <4>1. sessions[sid].signed_in_as = sessions'[sid].signed_in_as /\ sessions[sid] # None
        BY <1>0, <1>6, <1>9 DEF DefaultSession
      <4> QED  BY <1>2, <1>6, <1>9, <3>1, <4>1
    <3>2. ASSUME NEW s \in Sids, NEW b \in Carriers(s)' PROVE b \in Carriers(s)
      <4>1. cookies' \in {cookies, [cookies EXCEPT ![tabs[t].browser] = sid]}
        BY <1>6
      <4>2. b \in Carriers(s) \/ (b = tabs[t].browser /\ s \in {sid, sid})
        BY <1>3, <1>6, <1>9, <4>1, CarriersStep
      <4> QED  BY <1>7, <4>2
    <3> QED  BY <3>1, <3>2, SidsStayCarried DEF IInv
  <2> QED  BY <2>6, <2>7, <2>8, <2>9 DEF IInv
<1> QED  BY <1>8, <1>9

\* A request is accepted: its event goes into the log, and the users change.
LEMMA AcceptStep ==
    ASSUME IInv, NEW t \in Tabs, tabs[t].at \in Holding,
           UNCHANGED <<sessions, cookies, devices, drawn, asked, minted, faults>>,
           NEW place, NEW sid, NEW data, Moves(t, place, sid, data), sid = None \/ sid = tabs[t].sid,
           Free(place), place \notin Holding, PlaceOK(t)',
           NEW e \in Events, e.challenge = ChallengeOf(tabs[t].data.state),
           e.kind = "create" => e.name = asked[e.challenge],
           log' = Append(log, e),
           DOMAIN users' = Names, (\A name \in Names : users[name] # None => UserOK(name))'
    PROVE  IInv'
<1>1. /\ TabsOK /\ CookiesOK /\ DrawnOK /\ WebOK(DefaultSession) /\ Held(Accepted)
  BY WebParts
<1>2. sid \in 1..drawn.sid \cup {None} /\ (sid = None \/ tabs[t].browser \in Carriers(sid))
  BY <1>1, CarriersOf DEF TabsOK, RequestOK
<1>3. e.challenge # 0
  BY WebAssumption DEF Events
<1>4. /\ WebOK(DefaultSession)'
      /\ e.challenge \notin Accepted
      /\ HeldOnce(InSessions', InRequests', Accepted \cup {e.challenge}, drawn'.challenge)
  <2>1. DrawnGrows
    BY <1>1, DrawnSame
  <2>2. CookiesOK'
    BY <1>1, <2>1, CookiesStay
  <2>3. sid \in 1..drawn'.sid \cup {None} /\ drawn'.challenge = drawn.challenge
    BY <1>2
  <2>4. ChallengeOf(tabs[t].data.state) # 0 /\ UNCHANGED <<sessions, devices>>
    BY <1>3
  <2>5. LET c == ChallengeOf(tabs[t].data.state) IN
        /\ WebOK(DefaultSession)'
        /\ c \notin Accepted
        /\ HeldOnce(InSessions', InRequests', Accepted \cup {c}, drawn'.challenge)
    BY <1>1, <2>1, <2>2, <2>3, <2>4, SpendOK
  <2> QED  BY <2>5
<1>5. AskedGrows
  BY <1>1 DEF AskedGrows, DrawnOK
<1>6. /\ log' \in Seq(Events)
      /\ DOMAIN log' = DOMAIN log \cup {Len(log) + 1}
      /\ \A n \in DOMAIN log : log'[n] = log[n]
      /\ log'[Len(log) + 1] = e
      /\ \A i, j \in DOMAIN log' : i # j => log'[i].challenge # log'[j].challenge
      /\ Accepted' = Accepted \cup {e.challenge}
  <2>1. log \in Seq(Events)
    BY DEF IInv, TypeOK
  <2>2. \A i, j \in DOMAIN log : i # j => log[i].challenge # log[j].challenge
    BY DEF IInv, ChallengeAcceptedOnce
  <2>3. e.challenge \notin {log[n].challenge : n \in DOMAIN log}
    BY <1>4 DEF Accepted
  <2> QED  BY <2>1, <2>2, <2>3, AppendOnce DEF Accepted
<1>7. (\A u \in Tabs : PlaceOK(u))'
  BY <1>5, PlacesMove DEF IInv, TypeOK
<1>8. (\A s \in Sids : sessions[s] # None => SessionOK(s))'
  BY <1>5, SessionKept DEF IInv, TypeOK
<1>9. TypeOK'
  BY <1>4, <1>6, <1>7, <1>8 DEF IInv, TypeOK
<1>10. InOnePlace' /\ ChallengeAcceptedOnce'
  BY <1>4, <1>6 DEF InOnePlace, ChallengeAcceptedOnce
<1>11. FiledAsAsked'
  BY <1>6 DEF FiledAsAsked, IInv
<1>12. SidsCarriedByTheirBrowser'
  <2>1. ASSUME NEW s \in Sids, NEW b \in Carriers(s)' PROVE b \in Carriers(s)
    <3>1. s # None
      BY WebAssumption DEF Sids
    <3>2. cookies' \in {cookies, [cookies EXCEPT ![tabs[t].browser] = sid]}
      OBVIOUS
    <3>3. b \in Carriers(s) \/ (b = tabs[t].browser /\ s \in {sid, sid})
      BY <1>1, <3>2, CarriersStep
    <3> QED  BY <1>2, <3>1, <3>3
  <2> QED  BY <2>1, SidsStayCarried DEF IInv
<1> QED  BY <1>9, <1>10, <1>11, <1>12 DEF IInv

\* A registration is verified, and its credential pushed.
LEMMA PushStep ==
    ASSUME IInv, NEW t \in Tabs, RegisterFinishPush(t)
    PROVE  IInv'
<1>1. /\ TabsOK /\ CookiesOK /\ DrawnOK /\ WebOK(DefaultSession) /\ Held(Accepted)
  BY WebParts
<1>2. PICK a, state :
         a = tabs[t].data.answer /\ state = tabs[t].data.state
  OBVIOUS
<1>3. /\ tabs[t].at = "register_finish.push" /\ Done(t)
      /\ UNCHANGED <<sessions, cookies, devices, drawn, asked, minted, faults>>
  BY DEF RegisterFinishPush
<1>4. CASE finish_registration(Wa, state.reg_state, RegistrationOf(Wa, a), Now) = Ok
  <2> DEFINE passkey == [id |-> a.id, counter |-> 0, public_key_cose |-> cose_pubkey(a.id)]
             e       == Event("create", a.id, a.challenge, 0, state.username)
  <2>1. Registers(a) /\ RegistrationOK(state, asked, drawn.challenge)
    BY <1>1, <1>2, <1>3 DEF IInv, TypeOK, PlaceOK, TabsOK, RequestOK
  <2>2. a.challenge = state.reg_state.challenge
    BY <1>4, RegistersItsChallenge
  <2>3. a.id \in Devices \X (1..MaxChallenges) /\ a.challenge \in 1..MaxChallenges
    BY <1>1, <2>1, RegistersInRange
  <2>4. passkey \in PasskeyCredentials /\ e \in Events
    BY <2>1, <2>3, WebAssumption DEF PasskeyCredentials, Events, Event, RegistrationOK
  <2>5. /\ users' = [users EXCEPT ![state.username] =
                       [handle      |-> Handle(state.username),
                        credentials |-> IF users[state.username] = None THEN <<passkey>>
                                        ELSE Append(users[state.username].credentials, passkey)]]
        /\ log' = Append(log, e)
    <3> DEFINE new == NewCredential(RegistrationOf(Wa, a))
    <3>1. /\ users' = [users EXCEPT ![Filed(state)] =
                         [handle      |-> Handle(Filed(state)),
                          credentials |->
                             IF @ = None
                             THEN <<[id |-> new.id, counter |-> new.counter,
                                     public_key_cose |-> new.public_key_cose]>>
                             ELSE Append(@.credentials,
                                         [id |-> new.id, counter |-> new.counter,
                                          public_key_cose |-> new.public_key_cose])]]
          /\ log' = Append(log, Event("create", new.id, a.challenge, new.counter, Filed(state)))
      BY <1>2, <1>4 DEF RegisterFinishPush
    <3>2. /\ new.id = a.id /\ new.counter = 0
          /\ new.public_key_cose = cose_pubkey(a.id)
      BY RegistrationIs
    <3> QED  BY <3>1, <3>2 DEF Filed
  <2>6. DOMAIN users' = Names /\ (\A name \in Names : users[name] # None => UserOK(name))'
    <3> DEFINE user == [handle      |-> Handle(state.username),
                        credentials |-> IF users[state.username] = None THEN <<passkey>>
                                        ELSE Append(users[state.username].credentials, passkey)]
    <3>1. state.username \in Names
      BY <2>1 DEF RegistrationOK
    <3>2. DOMAIN users = Names /\ \A name \in Names : users[name] # None => UserOK(name)
      BY DEF IInv, TypeOK
    <3>3. /\ DOMAIN user = {"handle", "credentials"} /\ user.handle = Handle(state.username)
          /\ user.credentials \in Seq(PasskeyCredentials) /\ user.credentials # <<>>
      <4>1. users[state.username] # None
               => users[state.username].credentials \in Seq(PasskeyCredentials)
        BY <3>1, <3>2 DEF UserOK
      <4> HIDE DEF passkey
      <4> QED  BY <2>4, <4>1
    <3>4. /\ DOMAIN users' = Names /\ users'[state.username] = user
          /\ \A name \in Names \ {state.username} : users'[name] = users[name]
      BY <2>5, <3>1, <3>2
    <3> HIDE DEF user
    <3> QED  BY <3>2, <3>3, <3>4 DEF UserOK
  <2>7. Moves(t, "page", None, None)
    BY <1>1, <1>3, DoneMoves
  <2>8. PlaceOK(t)' /\ Free("page") /\ "page" \notin Holding /\ tabs[t].at \in Holding
    BY <1>3, <2>7 DEF PlaceOK, Places, Moves, Free, Holding
  <2>9. /\ e.challenge = ChallengeOf(tabs[t].data.state)
        /\ e.name = asked[e.challenge]
    BY <1>2, <2>1, <2>2 DEF RegistrationOK, ChallengeOf, Event
  <2> HIDE DEF e, passkey
  <2> QED  BY <1>3, <2>4, <2>5, <2>6, <2>7, <2>8, <2>9, AcceptStep
<1>5. CASE finish_registration(Wa, state.reg_state, RegistrationOf(Wa, a), Now) # Ok
  <2>1. UNCHANGED <<users, log>>
    BY <1>2, <1>5 DEF RegisterFinishPush
  <2>2. faults' \in 0..MaxFaults
    BY <1>3 DEF IInv, TypeOK
  <2> QED  BY <1>3, <2>1, <2>2, EndStep
<1> QED  BY <1>4, <1>5

\* The credential that Index finds.
LEMMA IndexFinds ==
    ASSUME IInv, NEW name \in Names, NEW id, Index(name, id) # 0
    PROVE  /\ users[name] # None /\ UserOK(name)
           /\ Index(name, id) \in DOMAIN users[name].credentials
           /\ users[name].credentials[Index(name, id)].id = id
<1>1. users[name] # None /\ UserOK(name)
  BY DEF Index, IInv, TypeOK
<1>2. Index(name, id) = Find(users[name].credentials, id)
  BY <1>1 DEF Index
<1>3. users[name].credentials \in Seq(PasskeyCredentials)
  BY <1>1 DEF UserOK
<1> QED  BY <1>1, <1>2, <1>3, FoundById

\* A sign-in is verified, and its count stored.
LEMMA VerifyStep ==
    ASSUME IInv, NEW t \in Tabs, AuthenticateFinishVerify(t)
    PROVE  IInv'
<1>1. /\ TabsOK /\ CookiesOK /\ DrawnOK /\ WebOK(DefaultSession) /\ Held(Accepted)
  BY WebParts
<1>2. PICK a, state :
         a = tabs[t].data.answer /\ state = tabs[t].data.state
  OBVIOUS
<1>3. /\ tabs[t].at = "authenticate_finish.verify"
      /\ UNCHANGED <<sessions, cookies, devices, drawn, asked, minted, faults>>
  BY DEF AuthenticateFinishVerify
<1>4. ASSUME NEW name \in Names, Accepts(name, tabs[t].data),
             users' = [users EXCEPT ![name].credentials[Index(name, a.id)].counter =
                          AssertionOf(Wa, a).authenticator_data.value.sign_count],
             log' = Append(log, Event("get", a.id, a.challenge, a.count, name)),
             GoTo(t, "authenticate_finish.rotate", [name |-> name])
      PROVE  IInv'
  <2> DEFINE i == Index(name, a.id)
             e == Event("get", a.id, a.challenge, a.count, name)
  <2>1. SignsIn(a) /\ AuthenticationOK(state, drawn.challenge)
    BY <1>1, <1>2, <1>3 DEF IInv, TypeOK, PlaceOK, TabsOK, RequestOK
  <2>2. i # 0 /\ a.challenge = state.challenge
    <3>1. /\ Index(name, a.id) # 0
          /\ finish_authentication(Wa, state, AssertionOf(Wa, a),
                                   users[name].credentials[Index(name, a.id)], Now) = Ok
      BY <1>2, <1>4 DEF Accepts
    <3> QED  BY <3>1, SignsInItsChallenge
  <2>3. /\ a.id \in Devices \X (1..MaxChallenges) /\ a.challenge \in 1..MaxChallenges
        /\ a.count \in 0..MaxChallenges
    BY <1>1, <2>1, SignsInInRange
  <2>4. e \in Events
    BY <2>3 DEF Events, Event
  <2>5. /\ users[name] # None /\ UserOK(name) /\ i \in DOMAIN users[name].credentials
    BY <2>2, IndexFinds
  <2>6. DOMAIN users' = Names /\ (\A n \in Names : users[n] # None => UserOK(n))'
    <3> DEFINE seq     == users[name].credentials
               passkey == [seq[i] EXCEPT !.counter = a.count]
               user    == [users[name] EXCEPT !.credentials = [seq EXCEPT ![i] = passkey]]
    <3>1. DOMAIN users = Names /\ \A n \in Names : users[n] # None => UserOK(n)
      BY DEF IInv, TypeOK
    <3>2. seq \in Seq(PasskeyCredentials) /\ seq # <<>>
      BY <2>5 DEF UserOK
    <3>3. passkey \in PasskeyCredentials
      <4>1. seq[i] \in PasskeyCredentials
        BY <2>5, <3>2
      <4> QED  BY <2>3, <4>1 DEF PasskeyCredentials
    <3> HIDE DEF passkey
    <3>4. [seq EXCEPT ![i] = passkey] \in Seq(PasskeyCredentials) \ {<<>>}
      BY <2>5, <3>2, <3>3
    <3>5. /\ DOMAIN user = {"handle", "credentials"} /\ user.handle = Handle(name)
          /\ user.credentials \in Seq(PasskeyCredentials) /\ user.credentials # <<>>
      BY <2>5, <3>4 DEF UserOK
    <3>6. users' = [users EXCEPT ![name] = user]
      BY <1>4, AssertionIs DEF passkey
    <3>7. /\ DOMAIN users' = Names /\ users'[name] = user
          /\ \A n \in Names \ {name} : users'[n] = users[n]
      BY <3>1, <3>6
    <3> HIDE DEF user
    <3> QED  BY <3>1, <3>5, <3>7 DEF UserOK
  <2>7. Moves(t, "authenticate_finish.rotate", tabs[t].sid, [name |-> name])
    BY <1>1, <1>4, GoToMoves
  <2>8. /\ PlaceOK(t)' /\ tabs[t].at \in Holding
        /\ Free("authenticate_finish.rotate") /\ "authenticate_finish.rotate" \notin Holding
    BY <1>3, <2>7 DEF PlaceOK, Places, Awaits, Moves, Free, Holding
  <2>9. /\ e.challenge = ChallengeOf(tabs[t].data.state)
        /\ e.kind = "create" => e.name = asked[e.challenge]
    BY <1>2, <2>1, <2>2 DEF AuthenticationOK, ChallengeOf, Event
  <2>10. log' = Append(log, e)
    BY <1>4
  <2> HIDE DEF e, i
  <2> QED  BY <1>3, <2>4, <2>6, <2>7, <2>8, <2>9, <2>10, AcceptStep
<1>5. ASSUME Done(t), UNCHANGED <<users, log>> PROVE IInv'
  <2>1. faults' \in 0..MaxFaults
    BY <1>3 DEF IInv, TypeOK
  <2> QED  BY <1>3, <1>5, <2>1, EndStep
<1> QED  BY <1>2, <1>4, <1>5 DEF AuthenticateFinishVerify

\* The session of a sign-in goes, and one comes that is signed in, under a sid that
\* its own browser alone gets to carry.
LEMMA RotateStep ==
    ASSUME IInv, NEW t \in Tabs, AuthenticateFinishRotate(t)
    PROVE  IInv'
<1>1. /\ TabsOK /\ SessionsOK(DefaultSession) /\ CookiesOK /\ DrawnOK
      /\ WebOK(DefaultSession) /\ Held(Accepted)
  BY WebParts
<1>2. PICK new_sid, name, browser, signed :
         /\ new_sid = drawn.sid + 1 /\ name = tabs[t].data.name /\ browser = tabs[t].browser
         /\ signed = [DefaultSession EXCEPT !.signed_in_as = name]
  OBVIOUS
<1>3. /\ tabs[t].at = "authenticate_finish.rotate"
      /\ new_sid <= MaxSids
      /\ drawn' = [drawn EXCEPT !.sid = new_sid]
      /\ sessions' = [sessions EXCEPT ![tabs[t].sid] = None, ![new_sid] = signed]
      /\ minted' = [minted EXCEPT ![new_sid] = [browser |-> browser, name |-> name]]
      /\ UNCHANGED <<devices, users, log, asked>>
  BY <1>2 DEF AuthenticateFinishRotate
<1>4. /\ \/ Arrives(t, "page", None, new_sid)
         \/ Done(t) /\ UNCHANGED cookies
      /\ faults' \in 0..MaxFaults
  BY <1>2, NamesAssumption DEF AuthenticateFinishRotate, Reply, Fault, NoFault, IInv, TypeOK
<1>5. /\ DOMAIN signed = DOMAIN DefaultSession /\ \A f \in Fields : signed[f] = None
      /\ signed.signed_in_as = name /\ signed.reg_state = None /\ signed.auth_state = None
  BY <1>2 DEF DefaultSession, Fields
<1>6. /\ WebOK(DefaultSession)'
      /\ HeldOnce(InSessions', InRequests', Accepted, drawn'.challenge)
      /\ DrawnGrows /\ drawn'.challenge = drawn.challenge
      /\ new_sid \in Sids /\ sessions'[new_sid] = signed
      /\ \A s \in Sids \ {new_sid} : sessions'[s] \in {sessions[s], None}
      /\ cookies' \in {cookies, [cookies EXCEPT ![tabs[t].browser] = new_sid]}
      /\ Moves(t, "page", None, None)
  <2>1. /\ drawn.sid + 1 <= MaxSids /\ drawn' = [drawn EXCEPT !.sid = drawn.sid + 1]
        /\ sessions' = [sessions EXCEPT ![tabs[t].sid] = None, ![drawn.sid + 1] = signed]
        /\ UNCHANGED devices
    BY <1>2, <1>3
  <2>2. \/ Arrives(t, "page", None, drawn.sid + 1)
        \/ Done(t) /\ UNCHANGED cookies
    BY <1>2, <1>4
  <2>3. /\ WebOK(DefaultSession)'
        /\ HeldOnce(InSessions', InRequests', Accepted, drawn'.challenge)
        /\ DrawnGrows /\ drawn'.challenge = drawn.challenge
        /\ drawn.sid + 1 \in Sids /\ sessions'[drawn.sid + 1] = signed
        /\ \A s \in Sids \ {drawn.sid + 1} : sessions'[s] \in {sessions[s], None}
        /\ cookies' \in {cookies, [cookies EXCEPT ![tabs[t].browser] = drawn.sid + 1]}
        /\ Moves(t, "page", None, None)
    BY <1>1, <1>5, <2>1, <2>2, DefaultFields, RotateOK
  <2> QED  BY <1>2, <2>3
<1>7. AskedGrows /\ name \in Names
  BY <1>1, <1>2, <1>3, <1>6 DEF AskedGrows, DrawnOK, IInv, TypeOK, PlaceOK
<1>8. (\A u \in Tabs : PlaceOK(u))'
  <2>1. PlaceOK(t)'
    BY <1>6 DEF PlaceOK, Places, Moves
  <2> QED  BY <1>6, <1>7, <2>1, PlacesMove DEF IInv, TypeOK
<1>9. (\A s \in Sids : sessions[s] # None => SessionOK(s))'
  <2>1. SessionOK(new_sid)'
    BY <1>5, <1>6, <1>7 DEF SessionOK
  <2>2. ASSUME NEW s \in Sids \ {new_sid}, sessions'[s] # None PROVE SessionOK(s)'
    <3>1. sessions'[s] = sessions[s] /\ sessions[s] # None
      BY <1>6, <2>2
    <3>2. SessionOK(s)
      BY <3>1 DEF IInv, TypeOK
    <3> QED  BY <1>7, <3>1, <3>2, SessionKept
  <2> QED  BY <2>1, <2>2
<1>10. TypeOK'
  BY <1>3, <1>4, <1>6, <1>8, <1>9 DEF IInv, TypeOK, UserOK
<1>11. InOnePlace' /\ ChallengeAcceptedOnce'
  BY <1>3, <1>6 DEF IInv, InOnePlace, ChallengeAcceptedOnce, Accepted
<1>12. FiledAsAsked'
  BY <1>3, <1>7, FiledStays
<1>13. SidsCarriedByTheirBrowser'
  <2>1. \A s \in Sids : \A b \in Carriers(s)' :
           b \in Carriers(s) \/ (b = browser /\ s = new_sid)
    <3>1. None \notin Sids
      BY WebAssumption DEF Sids
    <3>2. \A s, b : b \in Carriers(s)'
                       => b \in Carriers(s) \/ (b = tabs[t].browser /\ s \in {None, new_sid})
      BY <1>1, <1>6, CarriersStep
    <3> QED  BY <1>2, <3>1, <3>2
  <2>2. Carriers(new_sid) = {}
    BY <1>1, <1>2, CarriersFresh DEF DrawnOK
  <2>3. DOMAIN minted = Sids
    BY DEF IInv, TypeOK
  <2>4. /\ minted'[new_sid] = [browser |-> browser, name |-> name]
        /\ \A s \in Sids \ {new_sid} : minted'[s] = minted[s]
    BY <1>3, <1>6, <2>3
  <2>5. ASSUME NEW s \in Sids, sessions'[s] # None, sessions'[s].signed_in_as # None,
               NEW b \in Carriers(s)'
        PROVE  minted'[s] = [browser |-> b, name |-> sessions'[s].signed_in_as]
    <3>1. CASE s = new_sid
      BY <1>5, <1>6, <2>1, <2>2, <2>4, <3>1
    <3>2. CASE s # new_sid
      <4>1. sessions'[s] = sessions[s] /\ b \in Carriers(s) /\ minted'[s] = minted[s]
        BY <1>6, <2>1, <2>4, <2>5, <3>2
      <4> QED  BY <2>5, <4>1 DEF IInv, SidsCarriedByTheirBrowser
    <3> QED  BY <3>1, <3>2
  <2> QED  BY <2>5 DEF SidsCarriedByTheirBrowser
<1> QED  BY <1>10, <1>11, <1>12, <1>13 DEF IInv

\* After a restart nobody is signed in, and no state is anywhere.
LEMMA RestartStep ==
    ASSUME IInv, Restart
    PROVE  IInv'
<1>1. /\ Stop
      /\ sessions' = [s \in Sids |-> None]
      /\ users' = NoUsers
      /\ tabs' = [t \in Tabs |-> IF tabs[t].at \in {"page", "create", "get"} THEN tabs[t]
                                 ELSE [tabs[t] EXCEPT !.at = "page", !.sid = None, !.data = None]]
      /\ UNCHANGED <<cookies, devices, drawn, log, asked, minted>>
  BY DEF Restart, Stop
<1>2. /\ TabsOK /\ DrawnOK /\ WebOK(DefaultSession) /\ Held(Accepted)
      /\ faults' \in 0..MaxFaults
  BY WebParts, NamesAssumption DEF Restart, Fault, IInv, TypeOK
<1>3. WebOK(DefaultSession)' /\ HeldOnce(InSessions', InRequests', Accepted, drawn'.challenge)
  BY <1>1, <1>2, RestartOK
<1>4. AskedGrows
  <2>1. drawn' = drawn /\ asked' = asked
    BY <1>1
  <2> QED  BY <1>2, <2>1 DEF AskedGrows, DrawnOK
<1>5. (\A t \in Tabs : PlaceOK(t))'
  <2>1. ASSUME NEW t \in Tabs PROVE PlaceOK(t)'
    <3>1. PlaceOK(t) /\ DOMAIN tabs[t] = {"browser", "at", "sid", "data"}
      BY <1>2 DEF IInv, TypeOK, TabsOK, RequestOK
    <3>2. CASE tabs[t].at \in {"page", "create", "get"}
      <4>1. tabs'[t] = tabs[t]
        BY <1>1, <3>2
      <4> QED  BY <3>1, <3>2, <4>1 DEF PlaceOK
    <3>3. CASE tabs[t].at \notin {"page", "create", "get"}
      <4>1. tabs'[t].at = "page"
        BY <1>1, <3>1, <3>3
      <4> QED  BY <4>1 DEF PlaceOK, Places
    <3> QED  BY <3>2, <3>3
  <2> QED  BY <2>1
<1>6. TypeOK'
  BY <1>1, <1>2, <1>3, <1>5 DEF IInv, TypeOK, NoUsers
<1>7. InOnePlace' /\ ChallengeAcceptedOnce'
  BY <1>1, <1>3 DEF IInv, InOnePlace, ChallengeAcceptedOnce, Accepted
<1>8. FiledAsAsked'
  BY <1>1, <1>4, FiledStays
<1>9. SidsCarriedByTheirBrowser'
  BY <1>1 DEF SidsCarriedByTheirBrowser
<1> QED  BY <1>6, <1>7, <1>8, <1>9 DEF IInv

-----------------------------------------------------------------------------
(* The theorems.                                                              *)

\* Nothing has been asked for at first.
LEMMA InitIInv == ASSUME Init PROVE IInv
<1>1. /\ users = NoUsers /\ log = <<>> /\ asked = [c \in 1..MaxChallenges |-> None]
      /\ minted = [s \in Sids |-> None] /\ faults = 0 /\ WebInit
  BY DEF Init
<1>2. /\ \A s \in Sids : sessions[s] = None
      /\ \A t \in Tabs : tabs[t].at = "page"
  BY <1>1, InitIs
<1>3. Accepted = {}
  BY <1>1 DEF Accepted
<1>4. WebOK(DefaultSession) /\ InOnePlace
  BY <1>1, <1>3, WebInitOK DEF InOnePlace
<1>5. \A t \in Tabs : PlaceOK(t)
  BY <1>2 DEF PlaceOK, Places
<1>6. TypeOK
  <2>1. log \in Seq(Events)
    BY <1>1
  <2> QED  BY <1>1, <1>2, <1>4, <1>5, <2>1, NamesAssumption DEF TypeOK, NoUsers
<1>7. ChallengeAcceptedOnce /\ FiledAsAsked /\ SidsCarriedByTheirBrowser
  BY <1>1, <1>2 DEF ChallengeAcceptedOnce, FiledAsAsked, SidsCarriedByTheirBrowser
<1> QED  BY <1>4, <1>6, <1>7 DEF IInv

\* Every step of a handler keeps the invariant.
LEMMA HandlerStep == ASSUME IInv, NEW t \in Tabs, Handler(t) PROVE IInv'
<1>1. CASE RegisterStart(t)
  <2>1. tabs[t].data.name \in Names
    BY <1>1 DEF RegisterStart, IInv, TypeOK, PlaceOK
  <2>2. UNCHANGED <<sessions, cookies, devices, drawn, users, log, asked, minted>>
        /\ faults' \in 0..MaxFaults
    BY <1>1 DEF RegisterStart, IInv, TypeOK
  <2>3. CASE GoTo(t, "register_start.save", tabs[t].data)
    <3>1. Moves(t, "register_start.save", tabs[t].sid, tabs[t].data)
      BY <2>3, WebParts, GoToMoves
    <3>2. PlaceOK(t)'
      BY <2>1, <3>1 DEF PlaceOK, Places, Awaits, Moves
    <3>3. Free("register_start.save") /\ "register_start.save" \notin Holding
      BY DEF Free, Holding
    <3> QED  BY <2>2, <3>1, <3>2, <3>3, StillStep
  <2>4. CASE Done(t)
    BY <2>2, <2>4, EndStep
  <2> QED  BY <1>1, <2>3, <2>4 DEF RegisterStart
<1>2. CASE RegisterStartSave(t)
  <2>1. PICK name, state, data :
           /\ name = tabs[t].data.name
           /\ state = [username |-> name,
                       reg_state |-> start_registration(NewChallenge, Handle(name), Now)]
           /\ data = [challenge |-> NewChallenge, handle |-> Handle(name),
                      exclude |-> {}, finish |-> "register_finish"]
    OBVIOUS
  <2>2. /\ Save(sid_or_new(t), DefaultSession, "reg_state", state)
        /\ asked' = [asked EXCEPT ![NewChallenge] = name]
        /\ UNCHANGED <<devices, users, log, minted>>
    BY <1>2, <2>1 DEF RegisterStartSave
  <2>3. /\ \/ Arrives(t, "create", data, sid_or_new(t))
           \/ Done(t) /\ UNCHANGED cookies
        /\ faults' \in 0..MaxFaults
    BY <1>2, <2>1, NamesAssumption
       DEF RegisterStartSave, Reply, Fault, NoFault, IInv, TypeOK
  <2>4. /\ name \in Names /\ DOMAIN asked = 1..MaxChallenges /\ DrawnOK
        /\ drawn.challenge < MaxChallenges
    BY <1>2, <2>1, <2>2, WebParts DEF RegisterStartSave, IInv, TypeOK, PlaceOK, Save
  <2>5. /\ NewChallenge \in 1..MaxChallenges /\ NewChallenge \notin 1..drawn.challenge
    BY <2>4, WebAssumption DEF NewChallenge, DrawnOK
  <2>6. /\ DOMAIN asked' = 1..MaxChallenges /\ asked'[NewChallenge] = name
        /\ \A c \in 1..drawn.challenge : asked'[c] = asked[c]
    BY <2>2, <2>4, <2>5
  <2>7. RegistrationOK(state, asked', NewChallenge) /\ ChallengeOf(state) = NewChallenge
    <3>1. /\ DOMAIN state = {"username", "reg_state"} /\ state.username = name
          /\ state.reg_state.challenge = NewChallenge
      BY <2>1 DEF start_registration
    <3>2. NewChallenge \in 1..NewChallenge
      BY <2>4 DEF NewChallenge, DrawnOK
    <3> QED  BY <2>4, <2>6, <3>1, <3>2 DEF RegistrationOK, ChallengeOf
  <2>8. data.challenge = NewChallenge /\ data.finish = "register_finish"
    BY <2>1
  <2>9. "reg_state" \in Fields
    BY DEF Fields
  <2> QED  BY <2>2, <2>3, <2>6, <2>7, <2>8, <2>9, SaveStep
<1>3. CASE RegisterFinish(t)
  BY <1>3, TakeStep DEF RegisterFinish, Taking, Fields
<1>4. CASE RegisterFinishPush(t)
  BY <1>4, PushStep
<1>5. CASE AuthenticateStart(t)
  <2>1. PICK state, data :
           /\ state = start_authentication(NewChallenge, {}, Now)
           /\ data = [challenge |-> NewChallenge, allow |-> {}]
    OBVIOUS
  <2>2. /\ Save(sid_or_new(t), DefaultSession, "auth_state", state)
        /\ UNCHANGED <<devices, users, log, asked, minted>>
    BY <1>5, <2>1 DEF AuthenticateStart
  <2>3. /\ \/ Arrives(t, "get", data, sid_or_new(t))
           \/ Done(t) /\ UNCHANGED cookies
        /\ faults' \in 0..MaxFaults
    BY <1>5, <2>1, NamesAssumption
       DEF AuthenticateStart, Reply, Fault, NoFault, IInv, TypeOK
  <2>4. AuthenticationOK(state, NewChallenge) /\ ChallengeOf(state) = NewChallenge
    <3>1. /\ DOMAIN state = {"challenge", "allow_credentials", "created_at", "user_handle"}
          /\ state.challenge = NewChallenge /\ state.allow_credentials = {}
      BY <2>1 DEF start_authentication
    <3>2. NewChallenge \in 1..NewChallenge
      BY WebParts DEF NewChallenge, DrawnOK
    <3> QED  BY <3>1, <3>2 DEF AuthenticationOK, ChallengeOf
  <2>5. data.challenge = NewChallenge /\ DOMAIN asked' = 1..MaxChallenges
    BY <2>1, <2>2 DEF IInv, TypeOK
  <2>6. "auth_state" \in Fields
    BY DEF Fields
  <2> QED  BY <2>2, <2>3, <2>4, <2>5, <2>6, SaveStep
<1>6. CASE AuthenticateFinish(t)
  BY <1>6, TakeStep DEF AuthenticateFinish, Taking, Fields
<1>7. CASE AuthenticateFinishVerify(t)
  BY <1>7, VerifyStep
<1>8. CASE AuthenticateFinishRotate(t)
  BY <1>8, RotateStep
<1> QED  BY <1>1, <1>2, <1>3, <1>4, <1>5, <1>6, <1>7, <1>8 DEF Handler

\* Every step keeps the invariant.
LEMMA NextIInv == ASSUME IInv, [Next]_vars PROVE IInv'
<1>1. CASE Restart
  BY <1>1, RestartStep
<1>2. ASSUME NEW t \in Tabs, Cancel(t) PROVE IInv'
  BY <1>2, EndStep, NamesAssumption DEF Cancel, Fault, IInv, TypeOK
<1>3. ASSUME NEW t \in Tabs, Twice(t) PROVE IInv'
  BY <1>3, GestureStep, NamesAssumption DEF Twice, Fault, IInv, TypeOK
<1>4. ASSUME NEW t \in Tabs, Handler(t) PROVE IInv'
  BY <1>4, HandlerStep
<1>5. ASSUME NEW t \in Tabs, Page(t) PROVE IInv'
  BY <1>5, GestureStep DEF Page, IInv, TypeOK
<1>6. CASE UNCHANGED vars
  <2>1. UNCHANGED web /\ UNCHANGED <<users, log, asked, minted, faults>>
    BY <1>6 DEF vars
  <2>2. WebOK(DefaultSession) /\ Held(Accepted)
    BY WebParts
  <2>3. /\ WebOK(DefaultSession)'
        /\ HeldOnce(InSessions', InRequests', Accepted, drawn'.challenge)
        /\ UNCHANGED <<sessions, cookies, tabs, devices, drawn>>
        /\ \A s \in Sids : Carriers(s)' = Carriers(s)
    BY <2>1, <2>2, StutterOK
  <2>4. TypeOK'
    BY <2>1, <2>3 DEF IInv, TypeOK, UserOK, SessionOK, PlaceOK
  <2>5. InOnePlace' /\ ChallengeAcceptedOnce' /\ FiledAsAsked'
    BY <2>1, <2>3 DEF IInv, InOnePlace, Accepted, ChallengeAcceptedOnce, FiledAsAsked
  <2>6. SidsCarriedByTheirBrowser'
    BY <2>1, <2>3 DEF IInv, SidsCarriedByTheirBrowser
  <2> QED  BY <2>4, <2>5, <2>6 DEF IInv
<1> QED  BY <1>1, <1>2, <1>3, <1>4, <1>5, <1>6 DEF Next, Faults

\* The inductive invariant.
THEOREM PasswordlessIInv == Spec => []IInv
<1>1. Init => IInv
  BY InitIInv
<1>2. IInv /\ [Next]_vars => IInv'
  BY NextIInv
<1> QED  BY <1>1, <1>2, PTL DEF Spec

\* Every table, session and request holds values of its kind.
THEOREM PasswordlessTypeOK == Spec => []TypeOK
<1>1. IInv => TypeOK
  BY DEF IInv
<1> QED  BY <1>1, PasswordlessIInv, PTL

\* A challenge is accepted at most once, whatever is delivered twice, dropped or
\* cut off.
THEOREM PasswordlessChallengeAcceptedOnce == Spec => []ChallengeAcceptedOnce
<1>1. IInv => ChallengeAcceptedOnce
  BY DEF IInv
<1> QED  BY <1>1, PasswordlessIInv, PTL

\* A credential is filed under the name that its challenge was asked for.
THEOREM PasswordlessFiledAsAsked == Spec => []FiledAsAsked
<1>1. IInv => FiledAsAsked
  BY DEF IInv
<1> QED  BY <1>1, PasswordlessIInv, PTL

\* A browser whose sid is signed in is the one that signed in, as the user that
\* the sid was minted for.
THEOREM PasswordlessOnlyItsBrowserIsSignedIn == Spec => []OnlyItsBrowserIsSignedIn
<1>1. ASSUME IInv PROVE OnlyItsBrowserIsSignedIn
  <2>1. CookiesOK /\ DrawnOK
    BY <1>1, WebParts
  <2>2. ASSUME NEW b \in Browsers, cookies[b] # None
        PROVE  cookies[b] \in Sids /\ b \in Carriers(cookies[b])
    <3>1. cookies[b] \in 1..drawn.sid
      BY <2>1, <2>2 DEF CookiesOK
    <3>2. 1..drawn.sid \subseteq Sids
      BY <2>1, SidsAreSessions
    <3> QED  BY <3>1, <3>2 DEF Carriers
  <2> QED  BY <1>1, <2>2 DEF IInv, SidsCarriedByTheirBrowser, OnlyItsBrowserIsSignedIn
<1> QED  BY <1>1, PasswordlessIInv, PTL

-----------------------------------------------------------------------------
(* The refinement mapping.  The users are a parameter, so that what is said of *)
(* them is said of the state before a step and of the one after it.            *)

\* The user of that name has that credential, with that count.
Holds(us, name, id, n) ==
    /\ us[name] # None
    /\ \E i \in DOMAIN us[name].credentials :
          us[name].credentials[i].id = id /\ us[name].credentials[i].counter = n

UsersOK(us) ==
    \A name \in Names : us[name] # None => us[name].credentials \in Seq(PasskeyCredentials)

\* No two credentials have one id.
Distinct(us) ==
    \A name, other \in Names : us[name] # None /\ us[other] # None =>
        \A i \in DOMAIN us[name].credentials, j \in DOMAIN us[other].credentials :
            us[name].credentials[i].id = us[other].credentials[j].id => name = other /\ i = j

IndexIn(us, name, id) == IF us[name] = None THEN 0 ELSE Find(us[name].credentials, id)

\* The registry that the users are.
Table(us) ==
    [id \in Ids |->
        IF \A n \in Names : IndexIn(us, n, id) = 0 THEN None
        ELSE LET owner == CHOOSE n \in Names : IndexIn(us, n, id) # 0 IN
             [owner |-> owner, count |-> us[owner].credentials[IndexIn(us, owner, id)].counter]]

\* The history that the log is.
History(l) ==
    [n \in DOMAIN l |->
        [kind |-> l[n].kind, id |-> l[n].id, owner |-> l[n].name, count |-> l[n].count]]

\* Index finds what is held, and nothing else.
LEMMA IndexInFinds ==
    ASSUME NEW us, UsersOK(us), NEW name \in Names, NEW id
    PROVE  /\ IndexIn(us, name, id) = 0 => \A n : ~Holds(us, name, id, n)
           /\ IndexIn(us, name, id) # 0
                => /\ us[name] # None
                   /\ IndexIn(us, name, id) \in DOMAIN us[name].credentials
                   /\ us[name].credentials[IndexIn(us, name, id)].id = id
<1>1. CASE us[name] = None
  BY <1>1 DEF IndexIn, Holds
<1>2. CASE us[name] # None
  <2>1. us[name].credentials \in Seq(PasskeyCredentials)
    BY <1>2 DEF UsersOK
  <2>2. IndexIn(us, name, id) = Find(us[name].credentials, id)
    BY <1>2 DEF IndexIn
  <2>3. 0 \notin DOMAIN us[name].credentials
    BY <2>1
  <2>4. \/ /\ Find(us[name].credentials, id) \in DOMAIN us[name].credentials
           /\ us[name].credentials[Find(us[name].credentials, id)].id = id
        \/ /\ Find(us[name].credentials, id) = 0
           /\ \A j \in DOMAIN us[name].credentials : us[name].credentials[j].id # id
    BY <2>1, FoundById
  <2> QED  BY <1>2, <2>2, <2>3, <2>4 DEF Holds
<1> QED  BY <1>1, <1>2

\* A credential that is held is registered for its holder.
LEMMA HeldIsRegistered ==
    ASSUME NEW us, UsersOK(us), Distinct(us), NEW name \in Names, NEW id \in Ids, NEW n,
           Holds(us, name, id, n)
    PROVE  Table(us)[id] = [owner |-> name, count |-> n]
<1>1. PICK i \in DOMAIN us[name].credentials :
         us[name].credentials[i].id = id /\ us[name].credentials[i].counter = n
  BY DEF Holds
<1>2. us[name] # None
  BY DEF Holds
<1>3. IndexIn(us, name, id) # 0
  BY IndexInFinds
<1>4. ASSUME NEW other \in Names, IndexIn(us, other, id) # 0
      PROVE  other = name /\ IndexIn(us, other, id) = i
  <2>1. /\ us[other] # None
        /\ IndexIn(us, other, id) \in DOMAIN us[other].credentials
        /\ us[other].credentials[IndexIn(us, other, id)].id = id
    BY <1>4, IndexInFinds
  <2> QED  BY <1>1, <1>2, <2>1 DEF Distinct
<1>5. (CHOOSE m \in Names : IndexIn(us, m, id) # 0) = name
  BY <1>3, <1>4
<1>6. IndexIn(us, name, id) = i
  BY <1>3, <1>4
<1> QED  BY <1>1, <1>3, <1>5, <1>6 DEF Table

\* A credential that nobody holds is not registered.
LEMMA NotHeldIsAbsent ==
    ASSUME NEW us, UsersOK(us), NEW id \in Ids, \A name \in Names : \A n : ~Holds(us, name, id, n)
    PROVE  Table(us)[id] = None
<1>1. ASSUME NEW name \in Names PROVE IndexIn(us, name, id) = 0
  <2>1. SUFFICES ASSUME IndexIn(us, name, id) # 0 PROVE FALSE
    OBVIOUS
  <2>2. /\ us[name] # None
        /\ IndexIn(us, name, id) \in DOMAIN us[name].credentials
        /\ us[name].credentials[IndexIn(us, name, id)].id = id
    BY <2>1, IndexInFinds
  <2>3. Holds(us, name, id, us[name].credentials[IndexIn(us, name, id)].counter)
    BY <2>2 DEF Holds
  <2> QED  BY <2>3
<1> QED  BY <1>1 DEF Table

\* The registry changes where the credentials do.
LEMMA TableChanges ==
    ASSUME NEW us, UsersOK(us), Distinct(us), NEW vs, UsersOK(vs), Distinct(vs),
           NEW name \in Names, NEW id \in Ids, NEW n, Holds(vs, name, id, n),
           \A x \in Ids \ {id} : \A m \in Names : \A c : Holds(us, m, x, c) <=> Holds(vs, m, x, c)
    PROVE  Table(vs) = [Table(us) EXCEPT ![id] = [owner |-> name, count |-> n]]
<1>1. Table(vs)[id] = [owner |-> name, count |-> n]
  BY HeldIsRegistered
<1>2. ASSUME NEW x \in Ids \ {id} PROVE Table(vs)[x] = Table(us)[x]
  <2>1. CASE \E m \in Names : \E c : Holds(us, m, x, c)
    <3>1. PICK m \in Names : \E c : Holds(us, m, x, c)
      BY <2>1
    <3>2. PICK c : Holds(us, m, x, c)
      BY <3>1
    <3>3. Holds(vs, m, x, c)
      BY <3>2
    <3>4. Table(us)[x] = [owner |-> m, count |-> c]
      BY <3>2, HeldIsRegistered
    <3>5. Table(vs)[x] = [owner |-> m, count |-> c]
      BY <3>3, HeldIsRegistered
    <3> QED  BY <3>4, <3>5
  <2>2. CASE \A m \in Names : \A c : ~Holds(us, m, x, c)
    <3>1. \A m \in Names : \A c : ~Holds(vs, m, x, c)
      BY <2>2
    <3> QED  BY <2>2, <3>1, NotHeldIsAbsent
  <2> QED  BY <2>1, <2>2
<1>3. DOMAIN Table(us) = Ids /\ DOMAIN Table(vs) = Ids
      /\ Table(us) = [x \in Ids |-> Table(us)[x]] /\ Table(vs) = [x \in Ids |-> Table(vs)[x]]
  BY DEF Table
<1> HIDE DEF Table
<1> QED  BY <1>1, <1>2, <1>3

-----------------------------------------------------------------------------
(* Pushing a credential, and counting one.                                    *)

\* A credential comes, with an id that no other has.
LEMMA Pushed ==
    ASSUME NEW us, NEW vs, UsersOK(us), Distinct(us), NEW name \in Names,
           NEW new \in PasskeyCredentials,
           vs[name] # None, \A m \in Names \ {name} : vs[m] = us[m],
           vs[name].credentials = IF us[name] = None THEN <<new>>
                                  ELSE Append(us[name].credentials, new),
           \A m \in Names : \A c : ~Holds(us, m, new.id, c)
    PROVE  /\ UsersOK(vs) /\ Distinct(vs)
           /\ Table(us)[new.id] = None
           /\ Table(vs) = [Table(us) EXCEPT ![new.id] = [owner |-> name, count |-> new.counter]]
           /\ \A m \in Names : \A x : \A c : Holds(vs, m, x, c) => Holds(us, m, x, c) \/ x = new.id
<1>1. new.id \in Ids
  BY DEF PasskeyCredentials, Ids
<1>2. Table(us)[new.id] = None
  BY <1>1, NotHeldIsAbsent
<1> DEFINE before == IF us[name] = None THEN <<>> ELSE us[name].credentials
<1>3. before \in Seq(PasskeyCredentials)
  <2>1. CASE us[name] = None
    BY <2>1
  <2>2. CASE us[name] # None
    BY <2>2 DEF UsersOK
  <2> QED  BY <2>1, <2>2
<1>4. vs[name].credentials = Append(before, new)
  <2>1. CASE us[name] = None
    <3>1. before = <<>> /\ vs[name].credentials = <<new>>
      BY <2>1
    <3>2. Append(<<>>, new) = <<new>>
      OBVIOUS
    <3> HIDE DEF before
    <3> QED  BY <3>1, <3>2
  <2>2. CASE us[name] # None
    BY <2>2
  <2> QED  BY <2>1, <2>2
<1>5. us[name] = None => before = <<>>
  OBVIOUS
<1>6. us[name] # None => us[name].credentials = before
  OBVIOUS
<1> HIDE DEF before
<1>7. /\ vs[name].credentials \in Seq(PasskeyCredentials)
      /\ DOMAIN vs[name].credentials = DOMAIN before \cup {Len(before) + 1}
      /\ Len(before) + 1 \notin DOMAIN before
      /\ vs[name].credentials[Len(before) + 1] = new
      /\ \A i \in DOMAIN before : vs[name].credentials[i] = before[i]
  <2>1. PICK after : after = Append(before, new)
    OBVIOUS
  <2>2. /\ after \in Seq(PasskeyCredentials)
        /\ DOMAIN after = DOMAIN before \cup {Len(before) + 1}
        /\ Len(before) + 1 \notin DOMAIN before
        /\ after[Len(before) + 1] = new
        /\ \A i \in DOMAIN before : after[i] = before[i]
    BY <1>3, <2>1
  <2>3. vs[name].credentials = after
    BY <1>4, <2>1
  <2> QED  BY <2>2, <2>3
<1>8. \A i \in DOMAIN before : us[name] # None
  BY <1>5
<1>9. UsersOK(vs)
  <2>1. ASSUME NEW m \in Names, vs[m] # None PROVE vs[m].credentials \in Seq(PasskeyCredentials)
    <3>1. CASE m = name
      BY <1>7, <3>1
    <3>2. CASE m # name
      BY <2>1, <3>2 DEF UsersOK
    <3> QED  BY <3>1, <3>2
  <2> QED  BY <2>1 DEF UsersOK
<1>10. ASSUME NEW x, NEW m \in Names, NEW c
       PROVE  Holds(vs, m, x, c) <=> Holds(us, m, x, c) \/ (m = name /\ x = new.id /\ c = new.counter)
  <2>1. CASE m = name
    <3>1. Holds(vs, m, x, c) <=> \E i \in DOMAIN vs[name].credentials :
             vs[name].credentials[i].id = x /\ vs[name].credentials[i].counter = c
      BY <2>1 DEF Holds
    <3>2. Holds(us, m, x, c) <=> \E i \in DOMAIN before : before[i].id = x /\ before[i].counter = c
      BY <1>6, <1>8, <2>1 DEF Holds
    <3> QED  BY <1>7, <2>1, <3>1, <3>2
  <2>2. CASE m # name
    BY <2>2 DEF Holds
  <2> QED  BY <2>1, <2>2
<1>11. Distinct(vs)
  <2>1. ASSUME NEW m \in Names, us[m] # None, NEW i \in DOMAIN us[m].credentials
        PROVE  us[m].credentials[i].id # new.id
    <3>1. Holds(us, m, us[m].credentials[i].id, us[m].credentials[i].counter)
      BY <2>1 DEF Holds
    <3> QED  BY <3>1
  <2>2. ASSUME NEW m \in Names, vs[m] # None, NEW i \in DOMAIN vs[m].credentials
        PROVE  \/ m = name /\ i = Len(before) + 1 /\ vs[m].credentials[i] = new
               \/ /\ us[m] # None /\ i \in DOMAIN us[m].credentials
                  /\ vs[m].credentials[i] = us[m].credentials[i]
    BY <1>6, <1>7, <1>8, <2>2
  <2>3. ASSUME NEW m \in Names, NEW o \in Names, vs[m] # None, vs[o] # None,
               NEW i \in DOMAIN vs[m].credentials, NEW j \in DOMAIN vs[o].credentials,
               vs[m].credentials[i].id = vs[o].credentials[j].id
        PROVE  m = o /\ i = j
    <3>1. CASE m = name /\ i = Len(before) + 1 /\ vs[m].credentials[i] = new
      BY <2>1, <2>2, <2>3, <3>1
    <3>2. CASE o = name /\ j = Len(before) + 1 /\ vs[o].credentials[j] = new
      BY <2>1, <2>2, <2>3, <3>2
    <3>3. CASE /\ us[m] # None /\ i \in DOMAIN us[m].credentials
               /\ vs[m].credentials[i] = us[m].credentials[i]
               /\ us[o] # None /\ j \in DOMAIN us[o].credentials
               /\ vs[o].credentials[j] = us[o].credentials[j]
      BY <2>3, <3>3 DEF Distinct
    <3> QED  BY <2>2, <2>3, <3>1, <3>2, <3>3
  <2> QED  BY <2>3 DEF Distinct
<1>12. Holds(vs, name, new.id, new.counter)
  BY <1>10
<1>13. \A x \in Ids \ {new.id} : \A m \in Names : \A c :
          Holds(us, m, x, c) <=> Holds(vs, m, x, c)
  BY <1>10
<1>14. Table(vs) = [Table(us) EXCEPT ![new.id] = [owner |-> name, count |-> new.counter]]
  BY <1>1, <1>9, <1>11, <1>12, <1>13, TableChanges
<1> QED  BY <1>2, <1>9, <1>10, <1>11, <1>14

\* A credential gets another count.
LEMMA Counted ==
    ASSUME NEW us, NEW vs, UsersOK(us), Distinct(us), NEW name \in Names, us[name] # None,
           NEW i \in DOMAIN us[name].credentials, NEW n \in 0..MaxChallenges,
           vs[name] # None, \A m \in Names \ {name} : vs[m] = us[m],
           vs[name].credentials = [us[name].credentials EXCEPT ![i].counter = n]
    PROVE  /\ UsersOK(vs) /\ Distinct(vs)
           /\ LET id == us[name].credentials[i].id IN
              /\ id \in Ids
              /\ Table(us)[id] = [owner |-> name, count |-> us[name].credentials[i].counter]
              /\ Table(vs) = [Table(us) EXCEPT ![id] = [owner |-> name, count |-> n]]
           /\ \A m \in Names : \A x : \A c : Holds(vs, m, x, c) => \E b : Holds(us, m, x, b)
<1> DEFINE old == us[name].credentials
           new == [old[i] EXCEPT !.counter = n]
           id  == old[i].id
<1>1. old \in Seq(PasskeyCredentials) /\ old[i] \in PasskeyCredentials
  BY DEF UsersOK
<1>2. new \in PasskeyCredentials /\ new.id = id /\ new.counter = n
  BY <1>1 DEF PasskeyCredentials
<1>3. id \in Ids
  BY <1>1 DEF PasskeyCredentials, Ids
<1>4. vs[name].credentials = [old EXCEPT ![i] = new]
  OBVIOUS
<1> HIDE DEF new, id
<1>5. /\ vs[name].credentials \in Seq(PasskeyCredentials)
      /\ DOMAIN vs[name].credentials = DOMAIN old
      /\ vs[name].credentials[i] = new
      /\ \A j \in DOMAIN old \ {i} : vs[name].credentials[j] = old[j]
  BY <1>1, <1>2, <1>4
<1>6. UsersOK(vs)
  BY <1>5 DEF UsersOK
<1>7. ASSUME NEW m \in Names
      PROVE  /\ vs[m] = None <=> us[m] = None
             /\ us[m] # None =>
                  /\ DOMAIN vs[m].credentials = DOMAIN us[m].credentials
                  /\ \A j \in DOMAIN us[m].credentials :
                        /\ vs[m].credentials[j].id = us[m].credentials[j].id
                        /\ m # name \/ j # i => vs[m].credentials[j] = us[m].credentials[j]
  BY <1>2, <1>5 DEF id
<1>8. Distinct(vs)
  BY <1>7 DEF Distinct
<1>9. Holds(vs, name, id, n) /\ Holds(us, name, id, old[i].counter)
  BY <1>2, <1>5 DEF Holds, id
<1>10. ASSUME NEW x \in Ids \ {id}, NEW m \in Names, NEW c
       PROVE  Holds(us, m, x, c) <=> Holds(vs, m, x, c)
  <2>1. us[m] # None => \A j \in DOMAIN us[m].credentials :
           us[m].credentials[j].id = x => m # name \/ j # i
    BY <1>10 DEF id
  <2> QED  BY <1>7, <2>1 DEF Holds
<1>11. Table(us)[id] = [owner |-> name, count |-> old[i].counter]
  BY <1>3, <1>9, HeldIsRegistered
<1>12. Table(vs) = [Table(us) EXCEPT ![id] = [owner |-> name, count |-> n]]
  BY <1>3, <1>6, <1>8, <1>9, <1>10, TableChanges
<1>13. ASSUME NEW x, NEW m \in Names, NEW c, Holds(vs, m, x, c)
       PROVE  \E b : Holds(us, m, x, b)
  <2>1. us[m] # None
    BY <1>7, <1>13 DEF Holds
  <2>2. PICK j \in DOMAIN vs[m].credentials : vs[m].credentials[j].id = x
    BY <1>13 DEF Holds
  <2>3. j \in DOMAIN us[m].credentials /\ us[m].credentials[j].id = x
    BY <1>7, <2>1, <2>2
  <2>4. Holds(us, m, x, us[m].credentials[j].counter)
    BY <2>1, <2>3 DEF Holds
  <2> QED  BY <2>4
<1> QED  BY <1>3, <1>6, <1>8, <1>11, <1>12, <1>13 DEF id

-----------------------------------------------------------------------------
(* Every step is one of the registry, or none.                               *)

\* The credentials that are held were created for spent challenges.
Spent(us, spent) == \A m \in Names : \A x : \A c : Holds(us, m, x, c) => x[2] \in spent

\* What StoredOnce says of the users.
LEMMA StoredParts ==
    ASSUME IInv, StoredOnce
    PROVE  UsersOK(users) /\ Distinct(users) /\ Spent(users, Accepted)
<1>1. UsersOK(users)
  BY DEF UsersOK, IInv, TypeOK, UserOK
<1>2. Distinct(users)
  BY DEF Distinct, StoredOnce
<1>3. Spent(users, Accepted)
  BY DEF Spent, Holds, StoredOnce
<1> QED  BY <1>1, <1>2, <1>3

\* And from what follows that it holds after a step.
LEMMA StoredNext ==
    ASSUME Distinct(users'), Spent(users', Accepted'),
           \A n \in DOMAIN log' : log'[n].id[2] \in Accepted'
    PROVE  StoredOnce'
<1>1. ASSUME NEW name \in Names, users'[name] # None, NEW i \in DOMAIN users'[name].credentials
      PROVE  users'[name].credentials[i].id[2] \in Accepted'
  <2>1. Holds(users', name, users'[name].credentials[i].id, users'[name].credentials[i].counter)
    BY <1>1 DEF Holds
  <2> QED  BY <2>1 DEF Spent
<1> QED  BY <1>1 DEF Distinct, StoredOnce

\* One more event is one more entry of the history.
LEMMA HistoryAppends ==
    ASSUME NEW l \in Seq(Events), NEW e
    PROVE  /\ History(Append(l, e))
                 = Append(History(l), [kind |-> e.kind, id |-> e.id, owner |-> e.name,
                                       count |-> e.count])
           /\ History(Append(l, e)) # History(l)
<1> DEFINE Seen(x) == [kind |-> x.kind, id |-> x.id, owner |-> x.name, count |-> x.count]
<1>1. PICK longer : longer = Append(l, e)
  OBVIOUS
<1>2. /\ DOMAIN longer = 1..Len(l) + 1 /\ DOMAIN l = 1..Len(l) /\ Len(l) \in Nat
      /\ longer[Len(l) + 1] = e
      /\ \A i \in 1..Len(l) : longer[i] = l[i]
  BY <1>1
<1>3. PICK S : S = {Seen(l[i]) : i \in 1..Len(l)}
  OBVIOUS
<1>4. /\ History(l) = [n \in 1..Len(l) |-> Seen(l[n])]
      /\ History(longer) = [n \in 1..Len(l) + 1 |-> Seen(longer[n])]
  BY <1>2 DEF History
<1> HIDE DEF Seen
<1>5. History(l) \in Seq(S) /\ Len(History(l)) = Len(l)
  <2>1. History(l) \in [1..Len(l) -> S]
    BY <1>3, <1>4
  <2> QED  BY <1>2, <2>1
<1>6. PICK h : h = Append(History(l), Seen(e))
  OBVIOUS
<1>7. /\ DOMAIN h = 1..Len(l) + 1
      /\ h[Len(l) + 1] = Seen(e)
      /\ \A i \in 1..Len(l) : h[i] = Seen(l[i])
      /\ h = [n \in DOMAIN h |-> h[n]]
  BY <1>2, <1>4, <1>5, <1>6
<1>8. History(longer) = h
  BY <1>2, <1>4, <1>7
<1>9. History(longer) # History(l)
  <2>1. DOMAIN History(longer) = 1..Len(l) + 1 /\ DOMAIN History(l) = 1..Len(l)
    BY <1>4
  <2>2. Len(l) + 1 \in 1..Len(l) + 1 /\ Len(l) + 1 \notin 1..Len(l)
    BY <1>2
  <2> QED  BY <2>1, <2>2
<1> QED  BY <1>1, <1>6, <1>8, <1>9 DEF Seen

\* What leaves users and log alone cannot be seen.
LEMMA QuietRefines ==
    ASSUME StoredOnce, UNCHANGED <<users, log>>
    PROVE  StoredOnce' /\ UNCHANGED Registry!vars
<1>1. Accepted' = Accepted
  BY DEF Accepted
<1>2. StoredOnce'
  BY <1>1 DEF StoredOnce
<1>3. UNCHANGED Registry!vars
  BY DEF Registry!vars, Index
<1> QED  BY <1>2, <1>3

\* The challenge of a state that a request took is not spent.
LEMMA HeldIsUnspent ==
    ASSUME IInv, NEW t \in Tabs, tabs[t].at \in Holding, ChallengeOf(tabs[t].data.state) # 0
    PROVE  ChallengeOf(tabs[t].data.state) \notin Accepted
<1>1. InRequests[t] = ChallengeOf(tabs[t].data.state)
  BY DEF InRequests
<1> HIDE DEF InRequests
<1> QED  BY <1>1 DEF IInv, InOnePlace, HeldOnce

\* The log and what it says is spent, after an event.
LEMMA LogAppends ==
    ASSUME IInv, StoredOnce, NEW e \in Events, log' = Append(log, e)
    PROVE  /\ Accepted' = Accepted \cup {e.challenge}
           /\ e.id[2] \in Accepted' => \A n \in DOMAIN log' : log'[n].id[2] \in Accepted'
<1>1. log \in Seq(Events)
  BY DEF IInv, TypeOK
<1>2. /\ DOMAIN log' = DOMAIN log \cup {Len(log) + 1}
      /\ \A n \in DOMAIN log : log'[n] = log[n]
      /\ log'[Len(log) + 1] = e
  BY <1>1
<1>3. Accepted' = Accepted \cup {e.challenge}
  BY <1>2 DEF Accepted
<1> QED  BY <1>2, <1>3 DEF StoredOnce

\* register_finish registers an id that was never registered, or changes nothing.
LEMMA PushRefines ==
    ASSUME IInv, StoredOnce, NEW t \in Tabs, RegisterFinishPush(t)
    PROVE  StoredOnce' /\ [Registry!Next]_Registry!vars
<1>1. PICK a, state :
         a = tabs[t].data.answer /\ state = tabs[t].data.state
  OBVIOUS
<1>2. tabs[t].at = "register_finish.push"
  BY DEF RegisterFinishPush
<1>3. CASE finish_registration(Wa, state.reg_state, RegistrationOf(Wa, a), Now) = Ok
  <2> DEFINE e == Event("create", a.id, a.challenge, 0, state.username)
  <2>1. PICK passkey : passkey = [id |-> a.id, counter |-> 0, public_key_cose |-> cose_pubkey(a.id)]
    OBVIOUS
  <2>2. PICK name, entry :
           /\ name = state.username
           /\ entry = [handle      |-> Handle(name),
                       credentials |-> IF users[name] = None THEN <<passkey>>
                                       ELSE Append(users[name].credentials, passkey)]
    OBVIOUS
  <2>3. users' = [users EXCEPT ![name] = entry] /\ log' = Append(log, e)
    <3> DEFINE new == NewCredential(RegistrationOf(Wa, a))
    <3>1. /\ users' = [users EXCEPT ![Filed(state)] =
                         [handle      |-> Handle(Filed(state)),
                          credentials |->
                             IF @ = None
                             THEN <<[id |-> new.id, counter |-> new.counter,
                                     public_key_cose |-> new.public_key_cose]>>
                             ELSE Append(@.credentials,
                                         [id |-> new.id, counter |-> new.counter,
                                          public_key_cose |-> new.public_key_cose])]]
          /\ log' = Append(log, Event("create", new.id, a.challenge, new.counter, Filed(state)))
      BY <1>1, <1>3 DEF RegisterFinishPush
    <3>2. /\ new.id = a.id /\ new.counter = 0
          /\ new.public_key_cose = cose_pubkey(a.id)
      BY RegistrationIs
    <3> QED  BY <2>1, <2>2, <3>1, <3>2 DEF Filed
  <2>4. Registers(a) /\ RegistrationOK(state, asked, drawn.challenge) /\ DrawnOK
    BY <1>1, <1>2, WebParts DEF IInv, TypeOK, PlaceOK, TabsOK, RequestOK
  <2>5. /\ a.id \in Devices \X (1..MaxChallenges) /\ a.challenge \in 1..MaxChallenges
        /\ a.id[2] = a.challenge
    BY <2>4, RegistersInRange DEF Registers
  <2>6. name \in Names
    BY <2>2, <2>4 DEF RegistrationOK
  <2>7. /\ passkey \in PasskeyCredentials /\ e \in Events
        /\ passkey.id = a.id /\ passkey.counter = 0
    BY <2>1, <2>2, <2>5, <2>6, WebAssumption DEF PasskeyCredentials, Events, Event
  <2>8. a.challenge \notin Accepted
    <3>1. a.challenge = state.reg_state.challenge
      BY <1>3, RegistersItsChallenge
    <3>2. ChallengeOf(tabs[t].data.state) = a.challenge
      BY <1>1, <2>4, <3>1 DEF ChallengeOf, RegistrationOK
    <3>3. a.challenge # 0 /\ tabs[t].at \in Holding
      BY <1>2, <2>5 DEF Holding
    <3> QED  BY <3>2, <3>3, HeldIsUnspent
  <2>9. UsersOK(users) /\ Distinct(users) /\ Spent(users, Accepted) /\ DOMAIN users = Names
    BY StoredParts DEF IInv, TypeOK
  <2>10. \A m \in Names : \A c : ~Holds(users, m, passkey.id, c)
    BY <2>5, <2>7, <2>8, <2>9 DEF Spent
  <2>11. /\ users'[name] = entry
         /\ \A m \in Names \ {name} : users'[m] = users[m]
    BY <2>3, <2>6, <2>9
  <2>12. /\ users'[name] # None
         /\ users'[name].credentials = IF users[name] = None THEN <<passkey>>
                                       ELSE Append(users[name].credentials, passkey)
    <3>1. entry.credentials = IF users[name] = None THEN <<passkey>>
                              ELSE Append(users[name].credentials, passkey)
      BY <2>2
    <3>2. entry.credentials \in Seq(PasskeyCredentials)
      <4>1. CASE users[name] = None
        <5>1. entry.credentials = <<passkey>>
          BY <3>1, <4>1
        <5> QED  BY <2>7, <5>1
      <4>2. CASE users[name] # None
        <5>1. /\ entry.credentials = Append(users[name].credentials, passkey)
              /\ users[name].credentials \in Seq(PasskeyCredentials)
          BY <2>6, <2>9, <3>1, <4>2 DEF UsersOK
        <5> QED  BY <2>7, <5>1
      <4> QED  BY <4>1, <4>2
    <3>3. entry \in [handle : {Handle(n) : n \in Names}, credentials : Seq(PasskeyCredentials)]
      <4>1. entry = [handle |-> Handle(name), credentials |-> entry.credentials]
        BY <2>2
      <4> QED  BY <2>6, <3>2, <4>1
    <3>4. entry # None
      BY <3>3, NoneIsNoUser
    <3> QED  BY <2>11, <3>1, <3>4
  <2>13. /\ Distinct(users')
         /\ Table(users)[a.id] = None
         /\ Table(users') = [Table(users) EXCEPT ![a.id] = [owner |-> name, count |-> 0]]
         /\ \A m \in Names : \A x : \A c :
               Holds(users', m, x, c) => Holds(users, m, x, c) \/ x = a.id
    <3>1. PICK us, vs : us = users /\ vs = users'
      OBVIOUS
    <3>2. /\ vs[name] # None /\ \A m \in Names \ {name} : vs[m] = us[m]
          /\ vs[name].credentials = IF us[name] = None THEN <<passkey>>
                                    ELSE Append(us[name].credentials, passkey)
      BY <2>11, <2>12, <3>1
    <3>3. UsersOK(us) /\ Distinct(us) /\ \A m \in Names : \A c : ~Holds(us, m, passkey.id, c)
      BY <2>9, <2>10, <3>1
    <3>4. /\ Distinct(vs) /\ Table(us)[passkey.id] = None
          /\ Table(vs) = [Table(us) EXCEPT ![passkey.id] =
                                [owner |-> name, count |-> passkey.counter]]
          /\ \A m \in Names : \A x : \A c : Holds(vs, m, x, c) => Holds(us, m, x, c) \/ x = passkey.id
      BY <2>6, <2>7, <3>2, <3>3, Pushed
    <3> QED  BY <2>7, <3>1, <3>4
  <2>14. /\ e.kind = "create" /\ e.id = a.id /\ e.challenge = a.challenge
         /\ e.name = name /\ e.count = 0
    BY <2>2 DEF Event
  <2> HIDE DEF e
  <2>15. /\ Accepted' = Accepted \cup {a.challenge}
         /\ \A n \in DOMAIN log' : log'[n].id[2] \in Accepted'
    BY <2>3, <2>5, <2>7, <2>14, LogAppends
  <2>16. Spent(users', Accepted')
    BY <2>5, <2>9, <2>13, <2>15 DEF Spent
  <2>17. StoredOnce'
    BY <2>13, <2>15, <2>16, StoredNext
  <2>18. /\ History(log') = Append(History(log), [kind |-> "create", id |-> a.id,
                                                  owner |-> name, count |-> 0])
         /\ History(log') # History(log)
    BY <2>3, <2>14, HistoryAppends DEF IInv, TypeOK
  <2>19. \A n \in DOMAIN History(log) : History(log)[n].id # a.id
    BY <2>5, <2>8 DEF History, StoredOnce
  <2>20. Registry!Register(a.id, name, 0)
    BY <2>13, <2>18, <2>19
       DEF Registry!Register, Registry!Accept, Table, IndexIn, Index, Ids, History
  <2>21. Registry!Next
    BY <2>5, <2>6, <2>18, <2>20, WebAssumption DEF Registry!Next, History
  <2> QED  BY <2>17, <2>21
<1>4. CASE finish_registration(Wa, state.reg_state, RegistrationOf(Wa, a), Now) # Ok
  <2>1. UNCHANGED <<users, log>>
    BY <1>1, <1>4 DEF RegisterFinishPush
  <2> QED  BY <2>1, QuietRefines
<1> QED  BY <1>3, <1>4

\* authenticate_finish signs the owner in with a greater count, or changes nothing.
LEMMA VerifyRefines ==
    ASSUME IInv, StoredOnce, NEW t \in Tabs, AuthenticateFinishVerify(t)
    PROVE  StoredOnce' /\ [Registry!Next]_Registry!vars
<1>1. PICK a, state :
         a = tabs[t].data.answer /\ state = tabs[t].data.state
  OBVIOUS
<1>2. tabs[t].at = "authenticate_finish.verify"
  BY DEF AuthenticateFinishVerify
<1>3. ASSUME NEW name \in Names, Accepts(name, tabs[t].data),
             users' = [users EXCEPT ![name].credentials[Index(name, a.id)].counter =
                          AssertionOf(Wa, a).authenticator_data.value.sign_count],
             log' = Append(log, Event("get", a.id, a.challenge, a.count, name))
      PROVE  StoredOnce' /\ [Registry!Next]_Registry!vars
  <2> DEFINE e == Event("get", a.id, a.challenge, a.count, name)
  <2>1. PICK i : i = Index(name, a.id)
    OBVIOUS
  <2>2. /\ i # 0
        /\ finish_authentication(Wa, state, AssertionOf(Wa, a), users[name].credentials[i], Now) = Ok
    BY <1>1, <1>3, <2>1 DEF Accepts
  <2>3. /\ users[name] # None /\ UserOK(name) /\ i \in DOMAIN users[name].credentials
        /\ users[name].credentials[i].id = a.id
    BY <2>1, <2>2, IndexFinds
  <2>4. SignsIn(a) /\ DrawnOK
    BY <1>1, <1>2, WebParts DEF IInv, TypeOK, TabsOK, RequestOK
  <2>5. /\ a.id \in Devices \X (1..MaxChallenges) /\ a.challenge \in 1..MaxChallenges
        /\ a.count \in 0..MaxChallenges /\ a.count \in Nat \ {0}
    BY <2>4, SignsInInRange, WebAssumption
  <2>6. PICK old : old = users[name].credentials[i]
    OBVIOUS
  <2>7. old \in PasskeyCredentials /\ old.id = a.id /\ old.counter \in Nat
    <3>1. users[name].credentials \in Seq(PasskeyCredentials)
      BY <2>3 DEF UserOK
    <3>2. old \in PasskeyCredentials
      BY <2>3, <2>6, <3>1
    <3>3. old.counter \in Nat
      BY <3>2 DEF PasskeyCredentials
    <3> QED  BY <2>3, <2>6, <3>2, <3>3
  <2>8. old.counter < a.count
    BY <2>2, <2>5, <2>6, <2>7, SignsInItsChallenge
  <2>9. e \in Events
    BY <2>5 DEF Events, Event
  <2>10. UsersOK(users) /\ Distinct(users) /\ Spent(users, Accepted) /\ DOMAIN users = Names
    BY StoredParts DEF IInv, TypeOK
  <2>11. /\ users'[name] # None
         /\ \A m \in Names \ {name} : users'[m] = users[m]
         /\ users'[name].credentials = [users[name].credentials EXCEPT ![i].counter = a.count]
    <3>1. PICK credentials : credentials = [users[name].credentials EXCEPT ![i].counter = a.count]
      OBVIOUS
    <3>2. PICK user : user = [users[name] EXCEPT !.credentials = credentials]
      OBVIOUS
    <3>3. users' = [users EXCEPT ![name] = user]
      BY <1>3, <2>1, <3>1, <3>2, AssertionIs
    <3>4. credentials \in Seq(PasskeyCredentials)
      <4>1. PICK new : new = [old EXCEPT !.counter = a.count]
        OBVIOUS
      <4>2. new \in PasskeyCredentials
        BY <2>5, <2>7, <4>1 DEF PasskeyCredentials
      <4>3. credentials = [users[name].credentials EXCEPT ![i] = new]
        BY <2>6, <3>1, <4>1
      <4>4. users[name].credentials \in Seq(PasskeyCredentials)
        BY <2>3 DEF UserOK
      <4> QED  BY <2>3, <4>2, <4>3, <4>4
    <3>5. /\ DOMAIN user = {"handle", "credentials"} /\ user.handle = Handle(name)
          /\ user.credentials = credentials
      BY <2>3, <3>2 DEF UserOK
    <3>6. user # None
      <4>1. user = [handle |-> user.handle, credentials |-> user.credentials]
        BY <2>3, <3>2, <3>5 DEF UserOK
      <4>2. user \in [handle : {Handle(n) : n \in Names}, credentials : Seq(PasskeyCredentials)]
        BY <3>4, <3>5, <4>1
      <4> QED  BY <4>2, NoneIsNoUser
    <3> QED  BY <2>10, <3>1, <3>3, <3>5, <3>6
  <2>12. /\ Distinct(users')
         /\ Table(users)[a.id] = [owner |-> name, count |-> old.counter]
         /\ Table(users') = [Table(users) EXCEPT ![a.id] = [owner |-> name, count |-> a.count]]
         /\ \A m \in Names : \A x : \A c : Holds(users', m, x, c) => \E b : Holds(users, m, x, b)
    <3>1. PICK us, vs : us = users /\ vs = users'
      OBVIOUS
    <3>2. /\ vs[name] # None /\ \A m \in Names \ {name} : vs[m] = us[m]
          /\ vs[name].credentials = [us[name].credentials EXCEPT ![i].counter = a.count]
          /\ UsersOK(us) /\ Distinct(us) /\ us[name] # None /\ i \in DOMAIN us[name].credentials
          /\ us[name].credentials[i].id = a.id /\ us[name].credentials[i].counter = old.counter
      BY <2>3, <2>6, <2>10, <2>11, <3>1
    <3>3. /\ Distinct(vs)
          /\ LET id == us[name].credentials[i].id IN
             /\ Table(us)[id] = [owner |-> name, count |-> us[name].credentials[i].counter]
             /\ Table(vs) = [Table(us) EXCEPT ![id] = [owner |-> name, count |-> a.count]]
          /\ \A m \in Names : \A x : \A c : Holds(vs, m, x, c) => \E b : Holds(us, m, x, b)
      BY <2>5, <3>2, Counted
    <3> QED  BY <3>1, <3>2, <3>3
  <2>13. /\ e.kind = "get" /\ e.id = a.id /\ e.challenge = a.challenge
         /\ e.name = name /\ e.count = a.count
    BY DEF Event
  <2> HIDE DEF e
  <2>14. log' = Append(log, e)
    BY <1>3 DEF e
  <2>15. a.id[2] \in Accepted
    <3>1. Holds(users, name, a.id, old.counter)
      BY <2>3, <2>6 DEF Holds
    <3> QED  BY <2>10, <3>1 DEF Spent
  <2>16. /\ Accepted' = Accepted \cup {a.challenge}
         /\ \A n \in DOMAIN log' : log'[n].id[2] \in Accepted'
    BY <2>9, <2>13, <2>14, <2>15, LogAppends
  <2>17. Spent(users', Accepted')
    BY <2>10, <2>12, <2>16 DEF Spent
  <2>18. StoredOnce'
    BY <2>12, <2>16, <2>17, StoredNext
  <2>19. /\ History(log') = Append(History(log), [kind |-> "get", id |-> a.id,
                                                  owner |-> name, count |-> a.count])
         /\ History(log') # History(log)
    BY <2>13, <2>14, HistoryAppends DEF IInv, TypeOK
  <2>20. /\ Table(users)[a.id].count = old.counter
         /\ Table(users)[a.id] = [owner |-> name, count |-> Table(users)[a.id].count]
    BY <2>12
  <2>21. Table(users') = [Table(users) EXCEPT ![a.id].count = a.count]
    <3>1. [Table(users)[a.id] EXCEPT !.count = a.count] = [owner |-> name, count |-> a.count]
      BY <2>12
    <3>2. [Table(users) EXCEPT ![a.id].count = a.count]
             = [Table(users) EXCEPT ![a.id] = [Table(users)[a.id] EXCEPT !.count = a.count]]
      OBVIOUS
    <3> QED  BY <2>12, <3>1, <3>2
  <2>22. Registry!Accept("get", a.id, name, a.count)
    BY <2>19 DEF Registry!Accept, History
  <2>23. Registry!SignIn(a.id, a.count)
    BY <2>8, <2>20, <2>21, <2>22 DEF Registry!SignIn, Table, IndexIn, Index, Ids
  <2>24. Registry!Next
    BY <2>5, <2>19, <2>23 DEF Registry!Next, History
  <2> QED  BY <2>18, <2>24
<1>4. ASSUME UNCHANGED <<users, log>> PROVE StoredOnce' /\ [Registry!Next]_Registry!vars
  BY <1>4, QuietRefines
<1> QED  BY <1>1, <1>3, <1>4 DEF AuthenticateFinishVerify

\* The registry is not durable: a restart may empty it.
LEMMA RestartRefines ==
    ASSUME IInv, StoredOnce, Restart
    PROVE  StoredOnce' /\ [Registry!Next]_Registry!vars
<1>1. users' = NoUsers /\ log' = log
  BY DEF Restart
<1>2. Accepted' = Accepted
  BY <1>1 DEF Accepted
<1>3. \A name \in Names : users'[name] = None
  BY <1>1 DEF NoUsers
<1>4. StoredOnce'
  BY <1>1, <1>2, <1>3 DEF StoredOnce
<1>5. Table(users') = [id \in Ids |-> None]
  BY <1>3 DEF Table, IndexIn
<1>6. Registry!Restart
  BY <1>1, <1>5 DEF Registry!Restart, Registry!Empty, Table, IndexIn, Index, Ids
<1>7. History(log') = History(log)
  BY <1>1
<1>8. CASE Table(users') = Table(users)
  <2>1. UNCHANGED Registry!vars
    BY <1>7, <1>8 DEF Registry!vars, Table, IndexIn, Index, Ids, History
  <2> QED  BY <1>4, <2>1
<1>9. CASE Table(users') # Table(users)
  <2>1. Registry!Next
    BY <1>6, <1>9 DEF Registry!Next, Table, IndexIn, Index, Ids
  <2> QED  BY <1>4, <2>1
<1> QED  BY <1>8, <1>9

\* The empty table, and no history.
LEMMA InitRefines == ASSUME Init PROVE StoredOnce /\ Registry!Init
<1>1. users = NoUsers /\ log = <<>>
  BY DEF Init
<1>2. \A name \in Names : users[name] = None
  BY <1>1 DEF NoUsers
<1>3. StoredOnce
  BY <1>1, <1>2 DEF StoredOnce
<1>4. Table(users) = [id \in Ids |-> None]
  BY <1>2 DEF Table, IndexIn
<1>5. History(log) = <<>>
  BY <1>1 DEF History
<1>6. Registry!Init
  BY <1>4, <1>5 DEF Registry!Init, Registry!Empty, Table, IndexIn, Index, Ids, History
<1> QED  BY <1>3, <1>6

\* Every step is one of the registry, or changes nothing that can be seen.
LEMMA NextRefines ==
    ASSUME IInv, StoredOnce, [Next]_vars
    PROVE  StoredOnce' /\ [Registry!Next]_Registry!vars
<1>1. ASSUME UNCHANGED <<users, log>> PROVE StoredOnce' /\ [Registry!Next]_Registry!vars
  BY <1>1, QuietRefines
<1>2. CASE Restart
  BY <1>2, RestartRefines
<1>3. ASSUME NEW t \in Tabs, Cancel(t) \/ Twice(t) \/ Page(t)
      PROVE  StoredOnce' /\ [Registry!Next]_Registry!vars
  BY <1>1, <1>3 DEF Cancel, Twice, Page
<1>4. ASSUME NEW t \in Tabs, Handler(t)
      PROVE  StoredOnce' /\ [Registry!Next]_Registry!vars
  <2>1. CASE RegisterStart(t) \/ RegisterStartSave(t) \/ AuthenticateStart(t)
    BY <1>1, <2>1 DEF RegisterStart, RegisterStartSave, AuthenticateStart
  <2>2. CASE RegisterFinish(t) \/ AuthenticateFinish(t)
    BY <1>1, <2>2 DEF RegisterFinish, AuthenticateFinish, Take
  <2>3. CASE AuthenticateFinishRotate(t)
    BY <1>1, <2>3 DEF AuthenticateFinishRotate
  <2>4. CASE RegisterFinishPush(t)
    BY <2>4, PushRefines
  <2>5. CASE AuthenticateFinishVerify(t)
    BY <2>5, VerifyRefines
  <2> QED  BY <1>4, <2>1, <2>2, <2>3, <2>4, <2>5 DEF Handler
<1>5. CASE UNCHANGED vars
  BY <1>1, <1>5 DEF vars
<1> QED  BY <1>2, <1>3, <1>4, <1>5 DEF Next, Faults

\* No credential is stored twice, or comes back under an id that was registered.
THEOREM PasswordlessStoredOnce == Spec => []StoredOnce
<1>1. Init => StoredOnce
  BY InitRefines
<1>2. IInv /\ StoredOnce /\ [Next]_vars => StoredOnce'
  BY NextRefines
<1> QED  BY <1>1, <1>2, PasswordlessIInv, PTL DEF Spec

\* The server is a registry of its users' credentials: whatever is lost, dropped,
\* delivered twice or cut off by a restart, an id is registered once, and signs in
\* its own user with ever greater counts.
THEOREM PasswordlessImplementsRegistry == Spec => ImplementsRegistry
<1>1. Init => Registry!Init
  BY InitRefines
<1>2. IInv /\ StoredOnce /\ [Next]_vars => [Registry!Next]_Registry!vars
  BY NextRefines
<1> QED  BY <1>1, <1>2, PasswordlessIInv, PasswordlessStoredOnce, PTL
         DEF Spec, ImplementsRegistry, Registry!Spec
=============================================================================
