------------------------ MODULE CredentialManagerProofs ------------------------
(***************************************************************************)
(* Invariants of the credential manager, for any number of tabs, browsers,  *)
(* devices, challenges and sids: IInv is inductive, and says that a         *)
(* challenge is accepted at most once, that a removed credential stays      *)
(* removed, and that a signed-in sid is carried by its own browser alone.   *)
(* With it, no step leaves a user without credentials who has some.         *)
(* At the end, that it implements the registry of credentials.              *)
(***************************************************************************)
EXTENDS CredentialManager, WebSessionProofs

-----------------------------------------------------------------------------
(* `credentials.retain(|c| c.id != target)`.                                  *)

\* The elements of a finite set of numbers can be counted off: each number from 1
\* to its cardinality is the rank of one of them.
LEMMA Ranks ==
    ASSUME NEW K \in SUBSET Nat, IsFiniteSet(K)
    PROVE  /\ Cardinality(K) \in Nat
           /\ \A n \in 1..Cardinality(K) :
                 \E i \in K : Cardinality({j \in K : j < i}) = n - 1
           /\ \A i \in K : /\ Cardinality({j \in K : j < i}) \in Nat
                          /\ Cardinality({j \in K : j < i}) + 1 \in 1..Cardinality(K)
           /\ \A i, k \in K : Cardinality({j \in K : j < i}) = Cardinality({j \in K : j < k})
                                 => i = k
<1> DEFINE Below(i) == {j \in K : j < i}
           rank == [i \in K |-> Cardinality(Below(i)) + 1]
           N == Cardinality(K)
<1>1. N \in Nat
  BY FS_CardinalityType
<1>2. ASSUME NEW i \in K
      PROVE  /\ IsFiniteSet(Below(i)) /\ Cardinality(Below(i)) \in Nat
             /\ Cardinality(Below(i)) + 1 \in 1..N
  <2>1. Below(i) \in SUBSET K /\ Below(i) # K
    <3>1. i \in K /\ i \notin Below(i)
      OBVIOUS
    <3> QED  BY <3>1
  <2> HIDE DEF Below
  <2>2. IsFiniteSet(Below(i)) /\ Cardinality(Below(i)) <= N /\ Cardinality(Below(i)) # N
    BY <2>1, FS_Subset
  <2>3. Cardinality(Below(i)) \in Nat
    BY <2>2, FS_CardinalityType
  <2> HIDE DEF N
  <2> QED  BY <1>1, <2>2, <2>3
<1>3. ASSUME NEW i \in K, NEW k \in K, i < k
      PROVE  Cardinality(Below(i)) < Cardinality(Below(k))
  <2>0. i \in Nat /\ k \in Nat
    OBVIOUS
  <2>1. Below(i) \in SUBSET Below(k) /\ Below(i) # Below(k)
    <3>1. \A j \in K : j < i => j < k
      BY <1>3, <2>0
    <3>2. i \in Below(k) /\ i \notin Below(i)
      BY <1>3, <2>0
    <3>3. \A j \in Below(i) : j \in Below(k)
      BY <3>1
    <3> HIDE DEF Below
    <3> QED  BY <3>2, <3>3
  <2>2. IsFiniteSet(Below(k)) /\ Cardinality(Below(k)) \in Nat /\ Cardinality(Below(i)) \in Nat
    BY <1>2
  <2>3. Cardinality(Below(i)) <= Cardinality(Below(k))
        /\ Cardinality(Below(k)) # Cardinality(Below(i))
    BY <2>1, <2>2, FS_Subset
  <2> HIDE DEF Below
  <2> QED  BY <2>2, <2>3
<1>4. ASSUME NEW i \in K, NEW k \in K, Cardinality(Below(i)) = Cardinality(Below(k))
      PROVE  i = k
  <2>1. i \in Nat /\ k \in Nat
    OBVIOUS
  <2>2. Cardinality(Below(i)) \in Nat
    BY <1>2
  <2> HIDE DEF Below
  <2> QED  BY <1>3, <1>4, <2>1, <2>2
<1>5. rank \in [K -> 1..N]
  BY <1>2
<1>6. \A i, k \in K : rank[i] = rank[k] => i = k
  <2>1. \A i \in K : rank[i] = Cardinality(Below(i)) + 1 /\ Cardinality(Below(i)) \in Nat
    BY <1>2
  <2> HIDE DEF rank, Below
  <2> QED  BY <1>4, <2>1
<1>7. rank \in Injection(K, 1..N)
  <2>1. DOMAIN rank = K
    OBVIOUS
  <2> HIDE DEF rank
  <2> QED  BY <1>5, <1>6, <2>1 DEF Injection, IsInjective
<1>8. IsFiniteSet(1..N) /\ Cardinality(1..N) = N
  BY <1>1, FS_Interval
<1>9. rank \in Surjection(K, 1..N)
  BY <1>7, <1>8, FS_Injection
<1>10. \A n \in 1..N : \E i \in K : rank[i] = n
  BY <1>9 DEF Surjection
<1>11. \A n \in 1..N : \E i \in K : Cardinality(Below(i)) = n - 1
  <2>1. \A i \in K : rank[i] = Cardinality(Below(i)) + 1 /\ Cardinality(Below(i)) \in Nat
    BY <1>2
  <2> HIDE DEF rank, Below, N
  <2>2. ASSUME NEW n \in 1..N PROVE \E i \in K : Cardinality(Below(i)) = n - 1
    <3>1. PICK i \in K : rank[i] = n
      BY <1>10
    <3>2. Cardinality(Below(i)) = n - 1
      BY <1>1, <2>1, <3>1
    <3> QED  BY <3>2
  <2> QED  BY <2>2
<1> QED  BY <1>1, <1>2, <1>4, <1>11

\* What is retained: the credentials with another id, each where it is counted off.
LEMMA RetainIs ==
    ASSUME NEW S, NEW seq \in Seq(S), NEW target
    PROVE  LET kept == retain(seq, target) IN
           /\ kept \in Seq(S)
           /\ \A n \in DOMAIN kept :
                 \E i \in DOMAIN seq : kept[n] = seq[i] /\ seq[i].id # target
           /\ \A i \in DOMAIN seq :
                 seq[i].id # target => \E n \in DOMAIN kept : kept[n] = seq[i]
           /\ (\A i, j \in DOMAIN seq : seq[i].id = seq[j].id => i = j)
                 => \A m, n \in DOMAIN kept : kept[m].id = kept[n].id => m = n
<1> DEFINE K    == {i \in DOMAIN seq : seq[i].id # target}
           N    == Cardinality(K)
           Before(i) == Cardinality({j \in K : j < i})
           at(n) == CHOOSE i \in K : Before(i) = n - 1
           kept == retain(seq, target)
<1>1. K \in SUBSET Nat /\ IsFiniteSet(K)
  <2>1. DOMAIN seq = 1..Len(seq) /\ Len(seq) \in Nat
    OBVIOUS
  <2>2. IsFiniteSet(1..Len(seq))
    BY <2>1, FS_Interval
  <2>3. K \in SUBSET 1..Len(seq) /\ 1..Len(seq) \subseteq Nat
    BY <2>1
  <2> HIDE DEF K
  <2> QED  BY <2>2, <2>3, FS_Subset
<1>2. kept = [n \in 1..N |-> seq[at(n)]]
  BY DEF retain
<1>3. \A i \in K : i \in DOMAIN seq /\ seq[i].id # target /\ seq[i] \in S
  OBVIOUS
<1>4. \A i \in DOMAIN seq : seq[i].id # target => i \in K
  OBVIOUS
<1> HIDE DEF K, kept
<1>5. /\ N \in Nat
      /\ \A n \in 1..N : \E i \in K : Before(i) = n - 1
      /\ \A i \in K : Before(i) \in Nat /\ Before(i) + 1 \in 1..N
      /\ \A i, k \in K : Before(i) = Before(k) => i = k
  BY <1>1, Ranks
<1> HIDE DEF Before, N
<1>6. \A n \in 1..N : at(n) \in K /\ Before(at(n)) = n - 1
  BY <1>5
<1>7. \A i \in K : at(Before(i) + 1) = i
  <2>1. ASSUME NEW i \in K PROVE at(Before(i) + 1) = i
    <3>1. PICK n : n = Before(i) + 1
      OBVIOUS
    <3>2. n \in 1..N
      BY <1>5, <3>1
    <3>3. at(n) \in K /\ Before(at(n)) = n - 1
      BY <1>6, <3>2
    <3>4. n - 1 = Before(i)
      BY <1>5, <3>1
    <3> QED  BY <1>5, <3>1, <3>3, <3>4
  <2> QED  BY <2>1
<1> HIDE DEF at
<1>8. DOMAIN kept = 1..N /\ \A n \in 1..N : kept[n] = seq[at(n)]
  BY <1>2
<1>9. kept \in Seq(S)
  <2>1. \A n \in 1..N : seq[at(n)] \in S
    BY <1>3, <1>6
  <2> QED  BY <1>2, <1>5, <2>1
<1>10. \A n \in DOMAIN kept : \E i \in DOMAIN seq : kept[n] = seq[i] /\ seq[i].id # target
  BY <1>3, <1>6, <1>8
<1>11. \A i \in DOMAIN seq : seq[i].id # target => \E n \in DOMAIN kept : kept[n] = seq[i]
  BY <1>4, <1>5, <1>7, <1>8
<1>12. ASSUME \A i, j \in DOMAIN seq : seq[i].id = seq[j].id => i = j,
              NEW m \in DOMAIN kept, NEW n \in DOMAIN kept, kept[m].id = kept[n].id
       PROVE  m = n
  <2>1. m \in 1..N /\ n \in 1..N /\ at(m) \in K /\ at(n) \in K
    BY <1>6, <1>8
  <2>2. at(m) = at(n)
    BY <1>3, <1>8, <1>12, <2>1
  <2>3. m - 1 = n - 1
    BY <1>6, <2>1, <2>2
  <2> QED  BY <1>5, <2>1, <2>3
<1> QED  BY <1>9, <1>10, <1>11, <1>12 DEF kept

-----------------------------------------------------------------------------
(* What stays as it is while one tab moves.                                   *)

\* A session that was just made holds no state of a ceremony, and nobody is signed
\* in with it.
LEMMA DefaultFields ==
    /\ Fields \subseteq DOMAIN DefaultSession
    /\ \A f \in Fields : DefaultSession[f] = None
BY DEF Fields, DefaultSession

\* The parts of IInv that the lemmas of WebSessionProofs ask for.
LEMMA WebParts ==
    ASSUME IInv
    PROVE  /\ WebOK(DefaultSession) /\ Held(Accepted)
           /\ TabsOK /\ SessionsOK(DefaultSession) /\ CookiesOK /\ DevicesOK /\ DrawnOK
BY DEF IInv, TypeOK, WebOK, InOnePlace, Held

\* Draws are counted upwards, those of handles too.
Grows == DrawnGrows /\ drawn.handle <= drawn'.handle

\* A step that draws nothing.
LEMMA GrowsSame == ASSUME DrawnOK, UNCHANGED drawn PROVE Grows
BY DrawnSame DEF Grows, DrawnOK

\* A state stays well-formed.
LEMMA StateKept ==
    ASSUME Grows, NEW state
    PROVE  /\ RegistrationOK(state, drawn.handle, drawn.challenge)
                 => RegistrationOK(state, drawn'.handle, drawn'.challenge)
           /\ AuthenticationOK(state, drawn.handle, drawn.challenge)
                 => AuthenticationOK(state, drawn'.handle, drawn'.challenge)
<1>1. 1..drawn.challenge \subseteq 1..drawn'.challenge /\ 0..drawn.handle \subseteq 0..drawn'.handle
  BY DEF Grows, DrawnGrows, DrawnOK
<1> QED  BY <1>1 DEF RegistrationOK, AuthenticationOK

\* A request that does not move stays well-formed.
LEMMA PlacesMove ==
    ASSUME \A u \in Tabs : PlaceOK(u), Grows,
           NEW t \in Tabs, NEW place, NEW sid, NEW data, Moves(t, place, sid, data), PlaceOK(t)'
    PROVE  (\A u \in Tabs : PlaceOK(u))'
<1>1. ASSUME NEW u \in Tabs, u # t PROVE PlaceOK(u)'
  <2>1. tabs'[u] = tabs[u]
    BY <1>1 DEF Moves
  <2>2. /\ RegistrationOK(tabs[u].data.state, drawn.handle, drawn.challenge)
              => RegistrationOK(tabs[u].data.state, drawn'.handle, drawn'.challenge)
        /\ AuthenticationOK(tabs[u].data.state, drawn.handle, drawn.challenge)
              => AuthenticationOK(tabs[u].data.state, drawn'.handle, drawn'.challenge)
    BY StateKept
  <2>3. 0..drawn.handle \subseteq 0..drawn'.handle
    BY DEF Grows, DrawnGrows, DrawnOK
  <2> QED  BY <2>1, <2>2, <2>3 DEF PlaceOK
<1> QED  BY <1>1

\* A session that does not change stays well-formed.
LEMMA SessionKept ==
    ASSUME Grows, NEW s, SessionOK(s), sessions'[s] = sessions[s]
    PROVE  SessionOK(s)'
<1>1. /\ RegistrationOK(sessions[s].reg_state, drawn.handle, drawn.challenge)
            => RegistrationOK(sessions[s].reg_state, drawn'.handle, drawn'.challenge)
      /\ AuthenticationOK(sessions[s].auth_state, drawn.handle, drawn.challenge)
            => AuthenticationOK(sessions[s].auth_state, drawn'.handle, drawn'.challenge)
  BY StateKept
<1> QED  BY <1>1 DEF SessionOK

\* A signed-in sid stays its browser's, when nobody else comes to carry it.
LEMMA SidsStayCarried ==
    ASSUME SidsCarriedByTheirBrowser,
           \A s \in Sids : SignedIn(s)'
              => SignedIn(s) /\ minted'[s] = minted[s] /\ \A b \in Carriers(s)' : b \in Carriers(s)
    PROVE  SidsCarriedByTheirBrowser'
BY DEF SidsCarriedByTheirBrowser

-----------------------------------------------------------------------------
(* The kinds of steps.                                                        *)

\* A step of a tab that accepts nothing and leaves the credentials alone.
LEMMA QuietStep ==
    ASSUME IInv, NEW t \in Tabs, NEW place, NEW sid, NEW data, Moves(t, place, sid, data),
           Grows, PlaceOK(t)', WebOK(DefaultSession)',
           HeldOnce(InSessions', InRequests', Accepted, drawn'.challenge),
           (\A s \in Sids : sessions[s] # None => SessionOK(s))',
           DOMAIN user' = {"handle", "credentials"}, user'.handle \in 0..drawn'.handle,
           user'.credentials = user.credentials, UNCHANGED log,
           minted' \in [Sids -> Browsers \cup {None}], SidsCarriedByTheirBrowser'
    PROVE  IInv'
<1>1. (\A u \in Tabs : PlaceOK(u))'
  BY PlacesMove DEF IInv, TypeOK
<1>2. UserOK'
  BY DEF IInv, TypeOK, UserOK
<1>3. TypeOK'
  BY <1>1, <1>2 DEF IInv, TypeOK
<1>4. Accepted' = Accepted /\ Removed' = Removed /\ CredentialIds' = CredentialIds
  BY DEF Accepted, Removed, CredentialIds
<1>5. InOnePlace' /\ ChallengeAcceptedOnce' /\ RemovedStaysRemoved'
  BY <1>4 DEF IInv, InOnePlace, ChallengeAcceptedOnce, RemovedStaysRemoved
<1>6. StoredOnce'
  BY <1>4 DEF IInv, StoredOnce
<1> QED  BY <1>3, <1>5, <1>6 DEF IInv

\* The tables stay, and a tab moves, with a sid that its browser had.
LEMMA TabStep ==
    ASSUME IInv, NEW t \in Tabs, NEW place, NEW sid, NEW data, Moves(t, place, sid, data),
           sid = None \/ tabs[t].browser \in Carriers(sid),
           UNCHANGED <<sessions, cookies, drawn, user, log, minted>>,
           PlaceOK(t)', WebOK(DefaultSession)',
           HeldOnce(InSessions', InRequests', Accepted, drawn'.challenge)
    PROVE  IInv'
<1>1. TabsOK /\ CookiesOK /\ DrawnOK
  BY WebParts
<1>2. Grows
  BY <1>1, GrowsSame
<1>3. (\A s \in Sids : sessions[s] # None => SessionOK(s))'
  BY <1>2, SessionKept DEF IInv, TypeOK
<1>4. /\ DOMAIN user' = {"handle", "credentials"} /\ user'.handle \in 0..drawn'.handle
      /\ user'.credentials = user.credentials
  BY DEF IInv, TypeOK, UserOK
<1>5. SidsCarriedByTheirBrowser'
  <2>1. ASSUME NEW s \in Sids, NEW b \in Carriers(s)' PROVE b \in Carriers(s)
    <3>1. s # None
      BY WebAssumption DEF Sids
    <3>2. cookies' \in {cookies, [cookies EXCEPT ![tabs[t].browser] = sid]}
      OBVIOUS
    <3>3. b \in Carriers(s) \/ (b = tabs[t].browser /\ s \in {sid, sid})
      BY <1>1, <3>2, CarriersStep
    <3> QED  BY <3>1, <3>3
  <2>2. \A s \in Sids : SignedIn(s)' => SignedIn(s) /\ minted'[s] = minted[s]
    BY DEF SignedIn
  <2> QED  BY <2>1, <2>2, SidsStayCarried DEF IInv
<1>6. minted' \in [Sids -> Browsers \cup {None}]
  BY DEF IInv, TypeOK
<1> QED  BY <1>2, <1>3, <1>4, <1>5, <1>6, QuietStep

\* A request goes on within the server, or its tab back to the page.
LEMMA StillStep ==
    ASSUME IInv, NEW t \in Tabs, NEW place, NEW sid, NEW data, Moves(t, place, sid, data),
           sid = None \/ sid = tabs[t].sid,
           UNCHANGED <<sessions, cookies, devices, drawn, user, log, minted>>,
           Free(place) \/ RequestOK(t)', place \notin Holding, place # "get", PlaceOK(t)'
    PROVE  IInv'
<1>1. /\ TabsOK /\ SessionsOK(DefaultSession) /\ CookiesOK /\ DevicesOK /\ DrawnOK
      /\ Held(Accepted)
  BY WebParts
<1>2. /\ sid \in 1..drawn.sid \cup {None} /\ tabs[t].browser \in Browsers
      /\ tabs[t].browser \in Carriers(tabs[t].sid)
  BY <1>1, CarriersOf DEF TabsOK, RequestOK
<1>3. DrawnGrows
  BY <1>1, DrawnSame
<1>4. RequestOK(t)'
  BY <1>2 DEF RequestOK, Moves, Free
<1>5. TabsOK' /\ SessionsOK(DefaultSession)' /\ CookiesOK' /\ DevicesOK'
  BY <1>1, <1>3, <1>4, TabsMove, SessionsStay, CookiesStay, DevicesStay
<1>6. HeldOnce(InSessions', InRequests', Accepted, drawn'.challenge)
  BY <1>1, <1>3, QuietHeld
<1>7. WebOK(DefaultSession)'
  BY <1>3, <1>5 DEF WebOK, DrawnGrows
<1> QED  BY <1>2, <1>6, <1>7, TabStep

\* The request ends.
LEMMA EndStep ==
    ASSUME IInv, NEW t \in Tabs, Done(t),
           UNCHANGED <<sessions, cookies, devices, drawn, user, log, minted>>
    PROVE  IInv'
<1>1. Moves(t, "page", None, None)
  BY WebParts, DoneMoves
<1>2. PlaceOK(t)'
  BY <1>1 DEF PlaceOK, Sections, Moves
<1>3. Free("page") /\ "page" \notin Holding
  BY DEF Free, Holding
<1> QED  BY <1>1, <1>2, <1>3, StillStep

\* The places where neither RequestOK nor PlaceOK says anything about the data.
Plain == {"register_start.handle", "authenticate_finish.rotate", "add_credential_start.user",
          "delete.user"}

\* A handler goes on to a section that expects nothing of its data, or refuses.
LEMMA PlainStep ==
    ASSUME IInv, NEW t \in Tabs, NEW section \in Plain, NEW data,
           GoTo(t, section, data) \/ Done(t),
           UNCHANGED <<sessions, cookies, devices, drawn, user, log, minted>>
    PROVE  IInv'
<1>1. CASE GoTo(t, section, data)
  <2>1. Moves(t, section, tabs[t].sid, data)
    BY <1>1, WebParts, GoToMoves
  <2>2. PlaceOK(t)'
    BY <2>1 DEF PlaceOK, Sections, Plain, Moves
  <2>3. Free(section) /\ section \notin Holding /\ section # "get"
    BY DEF Free, Holding, Plain
  <2> QED  BY <2>1, <2>2, <2>3, StillStep
<1>2. CASE Done(t)
  BY <1>2, EndStep
<1> QED  BY <1>1, <1>2

\* require_signed_in before the state of a registration is taken.
LEMMA AddCredentialFinishStep ==
    ASSUME IInv, NEW t \in Tabs, AddCredentialFinish(t)
    PROVE  IInv'
<1>1. /\ tabs[t].at = "add_credential_finish"
      /\ GoTo(t, "add_credential_finish.take", tabs[t].data) \/ Done(t)
      /\ UNCHANGED <<sessions, cookies, devices, drawn, user, log, minted>>
  BY DEF AddCredentialFinish, RequireSignedIn
<1>2. CASE GoTo(t, "add_credential_finish.take", tabs[t].data)
  <2>1. Moves(t, "add_credential_finish.take", tabs[t].sid, tabs[t].data)
    BY <1>2, WebParts, GoToMoves
  <2>2. PlaceOK(t)'
    BY <2>1 DEF PlaceOK, Sections, Moves
  <2>3. RequestOK(t)'
    <3>1. RequestOK(t)
      BY WebParts DEF TabsOK
    <3>2. /\ Registers(tabs[t].data) /\ tabs[t].browser \in Browsers
          /\ tabs[t].sid \in 1..drawn.sid \cup {None}
      BY <1>1, <3>1 DEF RequestOK
    <3>3. Registers(tabs[t].data)'
      BY <1>1, <2>1, <3>2 DEF Registers, Issued, Moves
    <3> QED  BY <1>1, <2>1, <3>2, <3>3 DEF RequestOK, Moves
  <2>4. "add_credential_finish.take" \notin Holding
    BY DEF Holding
  <2> QED  BY <1>1, <2>1, <2>2, <2>3, <2>4, StillStep
<1>3. CASE Done(t)
  BY <1>1, <1>3, EndStep
<1> QED  BY <1>1, <1>2, <1>3

\* The buttons of the page.
Buttons == {"register_start", "authenticate_start", "add_credential_start", "delete"}

\* A page, a user or an authenticator acts, or a request arrives twice.
LEMMA GestureStep ==
    ASSUME IInv, NEW t \in Tabs, Page(t)
    PROVE  IInv'
<1>1. TabsOK /\ CookiesOK /\ DevicesOK /\ DrawnOK /\ WebOK(DefaultSession) /\ Held(Accepted)
  BY WebParts
<1>2. UNCHANGED <<user, log, minted>>
  BY DEF Page
<1>3. \/ \E h \in Buttons : \E data : Click(t, h, data)
      \/ Abandon(t)
      \/ \E d \in Devices : Create(t, d) \/ Get(t, d)
      \/ \E u \in Tabs : Duplicate(t, u)
  BY DEF Page, ClickRemove, Buttons
<1>4. \A h \in Buttons : Free(h) /\ h \notin Holding
  BY DEF Free, Holding, Buttons
<1>5. WebOK(DefaultSession)' /\ HeldOnce(InSessions', InRequests', Accepted, drawn'.challenge)
  BY <1>1, <1>3, <1>4, GesturesOK
<1>6. tabs[t].browser \in Carriers(Cookie(t)) /\ tabs[t].browser \in Carriers(tabs[t].sid)
  BY <1>1, CarriersOf
<1>7. ASSUME NEW h \in Buttons, NEW data, Click(t, h, data) PROVE IInv'
  <2>1. Moves(t, h, Cookie(t), data) /\ UNCHANGED <<sessions, cookies, drawn>>
    BY <1>1, <1>7, SendMoves DEF Click
  <2>2. PlaceOK(t)'
    BY <2>1 DEF PlaceOK, Sections, Buttons, Moves
  <2> QED  BY <1>2, <1>5, <1>6, <2>1, <2>2, TabStep
<1>8. CASE Abandon(t)
  BY <1>2, <1>8, EndStep DEF Abandon
<1>9. ASSUME NEW d \in Devices, Create(t, d) PROVE IInv'
  <2>1. /\ tabs[t].data.finish \in {"register_finish", "add_credential_finish"}
        /\ UNCHANGED <<sessions, cookies, drawn>>
        /\ \E data : Moves(t, tabs[t].data.finish, Cookie(t), data)
    BY <1>1, <1>9, CreateIs
  <2>2. PICK finish, data :
           /\ finish \in {"register_finish", "add_credential_finish"}
           /\ Moves(t, finish, Cookie(t), data)
    BY <2>1
  <2>3. PlaceOK(t)'
    BY <2>2 DEF PlaceOK, Sections, Moves
  <2> QED  BY <1>2, <1>5, <1>6, <2>1, <2>2, <2>3, TabStep
<1>10. ASSUME NEW d \in Devices, Get(t, d) PROVE IInv'
  <2>1. UNCHANGED <<sessions, cookies, drawn>>
    BY <1>1, <1>10, GetIs
  <2>2. PICK data : Moves(t, "authenticate_finish", Cookie(t), data)
    BY <1>1, <1>10, GetIs
  <2>3. PlaceOK(t)'
    BY <2>2 DEF PlaceOK, Sections, Moves
  <2> QED  BY <1>2, <1>5, <1>6, <2>1, <2>2, <2>3, TabStep
<1>11. ASSUME NEW u \in Tabs, Duplicate(t, u) PROVE IInv'
  <2>1. /\ tabs[t].at \in {"register_finish", "authenticate_finish", "add_credential_finish"}
        /\ tabs[u].browser = tabs[t].browser /\ tabs'[u] = tabs[t]
        /\ Moves(u, tabs[t].at, tabs[t].sid, tabs[t].data)
        /\ UNCHANGED <<sessions, cookies, devices, drawn>>
    BY <1>1, <1>11, DuplicateIs
  <2>2. PlaceOK(t)
    BY DEF IInv, TypeOK
  <2>3. PlaceOK(u)'
    BY <2>1, <2>2 DEF PlaceOK
  <2> QED  BY <1>2, <1>5, <1>6, <2>1, <2>3, TabStep
<1> QED  BY <1>3, <1>7, <1>8, <1>9, <1>10, <1>11

\* A start handler saves a state with a new challenge, and answers.
LEMMA SaveStep ==
    ASSUME IInv, NEW t \in Tabs, NEW field \in Fields, NEW state,
           NEW place \in {"create", "get"}, NEW data,
           SaveAndReply(t, field, state, place, data), ChallengeOf(state) = NewChallenge,
           data.challenge = NewChallenge,
           place = "create" => data.finish \in {"register_finish", "add_credential_finish"},
           field = "reg_state" => RegistrationOK(state, drawn.handle, NewChallenge),
           field = "auth_state" => AuthenticationOK(state, drawn.handle, NewChallenge)
    PROVE  IInv'
<1>0. PICK sid, cookie :
         sid = sid_or_new(t) /\ cookie = IF tabs[t].sid = None THEN sid_or_new(t) ELSE Cookie(t)
  OBVIOUS
<1>1. /\ TabsOK /\ SessionsOK(DefaultSession) /\ CookiesOK /\ DevicesOK /\ DrawnOK
      /\ WebOK(DefaultSession) /\ Held(Accepted)
  BY WebParts
<1>2. /\ Save(sid, DefaultSession, field, state)
      /\ \/ Arrives(t, place, data, cookie)
         \/ Done(t) /\ UNCHANGED cookies
      /\ UNCHANGED <<user, devices, log, minted>>
  BY <1>0 DEF SaveAndReply, Reply
<1>3. /\ sid \in 1..MaxSids
      /\ sid \in 1..drawn.sid \/ sid = drawn.sid + 1
      /\ cookie = Cookie(t) \/ (cookie = sid /\ sid = drawn.sid + 1)
  <2>1. sid <= MaxSids
    BY <1>2 DEF Save
  <2>2. tabs[t].sid \in 1..drawn.sid \cup {None}
    BY <1>1 DEF TabsOK, RequestOK
  <2>3. /\ sid \in 1..drawn.sid \/ sid = drawn.sid + 1
        /\ cookie = Cookie(t) \/ (cookie = sid /\ sid = drawn.sid + 1)
    BY <1>0, <2>2 DEF sid_or_new
  <2> QED  BY <1>1, <2>1, <2>3, WebAssumption DEF DrawnOK
<1>4. /\ DOMAIN sessions' = Sids
      /\ \A s \in Sids \ {sid} : sessions'[s] = sessions[s]
      /\ sessions'[sid][field] = state
      /\ \A f \in DOMAIN DefaultSession \ {field} :
            sessions'[sid][f] = IF sessions[sid] = None THEN DefaultSession[f] ELSE sessions[sid][f]
      /\ drawn'.challenge = NewChallenge
      /\ drawn'.handle = drawn.handle
      /\ drawn'.sid = IF sid > drawn.sid THEN sid ELSE drawn.sid
      /\ DrawnGrows
  BY <1>1, <1>2, <1>3, DefaultFields, SaveIs DEF NewChallenge
<1>5. Grows
  BY <1>4 DEF Grows, DrawnGrows, DrawnOK
<1>6. cookie \in 1..drawn'.sid \cup {None}
  <2>1. Cookie(t) \in 1..drawn.sid \cup {None}
    <3>1. tabs[t].browser \in Browsers
      BY <1>1 DEF TabsOK, RequestOK
    <3> QED  BY <1>1, <3>1 DEF CookiesOK, Cookie
  <2>2. 1..drawn.sid \subseteq 1..drawn'.sid
    BY <1>4 DEF DrawnGrows, DrawnOK
  <2>3. sid \in 1..drawn'.sid
    BY <1>1, <1>3, <1>4 DEF DrawnOK
  <2> QED  BY <1>3, <2>1, <2>2, <2>3
<1>7. /\ CookiesOK'
      /\ cookies' \in {cookies, [cookies EXCEPT ![tabs[t].browser] = cookie]}
      /\ Moves(t, place, None, data) \/ Moves(t, "page", None, None)
  BY <1>1, <1>2, <1>4, <1>6, ReplyMoves
<1>8. PICK where, what :
         /\ Moves(t, where, None, what)
         /\ (where = place /\ what = data) \/ (where = "page" /\ what = None)
  BY <1>7
<1>9. RequestOK(t)' /\ PlaceOK(t)'
  <2>1. tabs[t].browser \in Browsers
    BY <1>1 DEF TabsOK, RequestOK
  <2>2. data.challenge \in Issued'
    BY <1>1, <1>4 DEF DrawnOK, Issued, NewChallenge
  <2>3. /\ DOMAIN tabs'[t] = {"browser", "at", "sid", "data"}
        /\ tabs'[t].browser = tabs[t].browser
        /\ tabs'[t].at = where /\ tabs'[t].sid = None /\ tabs'[t].data = what
    BY <1>8 DEF Moves
  <2>4. RequestOK(t)'
    BY <1>8, <2>1, <2>2, <2>3 DEF RequestOK
  <2>5. PlaceOK(t)'
    BY <1>8, <2>3 DEF PlaceOK, Sections
  <2> QED  BY <2>4, <2>5
<1>10. WebOK(DefaultSession)' /\ HeldOnce(InSessions', InRequests', Accepted, drawn'.challenge)
  <2>1. where \notin Holding
    BY <1>8 DEF Holding
  <2> QED  BY <1>1, <1>2, <1>3, <1>7, <1>8, <1>9, <2>1, DefaultFields, SaveOK
<1>11. (\A s \in Sids : sessions[s] # None => SessionOK(s))'
  <2>1. SessionOK(sid)'
    <3>1. sid \in Sids
      BY <1>3 DEF Sids
    <3>2. sessions[sid] # None => SessionOK(sid)
      BY <3>1 DEF IInv, TypeOK
    <3>3. \A x : /\ RegistrationOK(x, drawn.handle, drawn.challenge)
                       => RegistrationOK(x, drawn'.handle, drawn'.challenge)
                 /\ AuthenticationOK(x, drawn.handle, drawn.challenge)
                       => AuthenticationOK(x, drawn'.handle, drawn'.challenge)
      BY <1>5, StateKept
    <3>4. /\ sessions'[sid].reg_state # None
                => RegistrationOK(sessions'[sid].reg_state, drawn'.handle, drawn'.challenge)
          /\ sessions'[sid].auth_state # None
                => AuthenticationOK(sessions'[sid].auth_state, drawn'.handle, drawn'.challenge)
          /\ sessions'[sid].signed_in \in BOOLEAN
      BY <1>4, <3>2, <3>3 DEF SessionOK, DefaultSession, Fields
    <3> QED  BY <3>4 DEF SessionOK
  <2>2. \A s \in Sids \ {sid} : sessions[s] # None => SessionOK(s)'
    BY <1>4, <1>5, SessionKept DEF IInv, TypeOK
  <2> QED  BY <1>4, <2>1, <2>2
<1>12. SidsCarriedByTheirBrowser'
  <2>1. ASSUME NEW s \in Sids, SignedIn(s)' PROVE SignedIn(s) /\ s <= drawn.sid
    <3>1. SignedIn(s)
      <4>1. CASE s # sid
        BY <1>4, <2>1, <4>1 DEF SignedIn
      <4>2. CASE s = sid
        BY <1>4, <2>1, <4>2 DEF SignedIn, DefaultSession, Fields
      <4> QED  BY <4>1, <4>2
    <3> QED  BY <1>1, <3>1 DEF SignedIn, SessionsOK
  <2>2. ASSUME NEW s \in Sids, s <= drawn.sid, NEW b \in Carriers(s)' PROVE b \in Carriers(s)
    <3>1. s # None /\ s # drawn.sid + 1
      BY <1>1, <2>2, WebAssumption DEF Sids, DrawnOK
    <3>2. b \in Carriers(s) \/ (b = tabs[t].browser /\ s \in {None, cookie})
      BY <1>1, <1>7, <1>8, CarriersStep
    <3>3. tabs[t].browser \in Carriers(Cookie(t))
      BY <1>1, CarriersOf
    <3> QED  BY <1>3, <3>1, <3>2, <3>3
  <2> QED  BY <1>2, <2>1, <2>2, SidsStayCarried DEF IInv
<1>13. /\ DOMAIN user' = {"handle", "credentials"} /\ user'.handle \in 0..drawn'.handle
       /\ user'.credentials = user.credentials /\ minted' \in [Sids -> Browsers \cup {None}]
       /\ UNCHANGED log
  BY <1>2, <1>4 DEF IInv, TypeOK, UserOK
<1> QED  BY <1>5, <1>8, <1>9, <1>10, <1>11, <1>12, <1>13, QuietStep

-----------------------------------------------------------------------------
(* The handlers.                                                              *)

\* The user's handle is drawn.
LEMMA RegisterStartHandleStep ==
    ASSUME IInv, NEW t \in Tabs, RegisterStartHandle(t)
    PROVE  IInv'
<1>1. PICK handle, data : handle = drawn.handle + 1 /\ data = [handle |-> handle]
  OBVIOUS
<1>2. /\ drawn' = [drawn EXCEPT !.handle = handle]
      /\ user' = [user EXCEPT !.handle = handle]
      /\ GoTo(t, "register_start.save", data)
      /\ UNCHANGED <<sessions, cookies, devices, log, minted>>
  BY <1>1 DEF RegisterStartHandle
<1>3. /\ TabsOK /\ CookiesOK /\ DrawnOK /\ WebOK(DefaultSession) /\ Held(Accepted) /\ UserOK
  BY WebParts DEF IInv, TypeOK
<1>4. /\ DOMAIN drawn' = {"challenge", "handle", "sid"} /\ drawn'.challenge = drawn.challenge
      /\ drawn'.handle = handle /\ drawn'.sid = drawn.sid
      /\ handle \in Nat /\ drawn.handle <= handle /\ handle \in 0..handle
  BY <1>1, <1>2, <1>3 DEF DrawnOK
<1>5. DrawnGrows /\ Grows
  BY <1>3, <1>4 DEF Grows, DrawnGrows, DrawnOK
<1>6. Moves(t, "register_start.save", tabs[t].sid, data)
  BY <1>2, <1>3, GoToMoves
<1>7. PlaceOK(t)'
  BY <1>1, <1>4, <1>6 DEF PlaceOK, Sections, Moves
<1>8. WebOK(DefaultSession)' /\ HeldOnce(InSessions', InRequests', Accepted, drawn'.challenge)
  <2>1. CookiesOK'
    BY <1>2, <1>3, <1>5, CookiesStay
  <2>2. tabs[t].sid \in 1..drawn'.sid \cup {None}
    BY <1>3, <1>4 DEF TabsOK, RequestOK
  <2>3. Free("register_start.save") /\ "register_start.save" \notin Holding
    BY DEF Free, Holding
  <2> QED  BY <1>2, <1>3, <1>5, <1>6, <2>1, <2>2, <2>3, FreeMoveOK
<1>9. (\A s \in Sids : sessions[s] # None => SessionOK(s))'
  BY <1>2, <1>5, SessionKept DEF IInv, TypeOK
<1>10. SidsCarriedByTheirBrowser'
  <2>1. ASSUME NEW s \in Sids, NEW b \in Carriers(s)' PROVE b \in Carriers(s)
    <3>0. PICK sid : sid = tabs[t].sid
      OBVIOUS
    <3>1. cookies' \in {cookies, [cookies EXCEPT ![tabs[t].browser] = sid]}
      BY <1>2
    <3>2. Moves(t, "register_start.save", sid, data)
      BY <1>6, <3>0
    <3>3. b \in Carriers(s) \/ (b = tabs[t].browser /\ s \in {sid, sid})
      BY <1>3, <3>1, <3>2, CarriersStep
    <3>4. tabs[t].browser \in Carriers(sid)
      BY <1>3, <3>0, CarriersOf
    <3> QED  BY <3>3, <3>4
  <2>2. \A s \in Sids : SignedIn(s)' => SignedIn(s) /\ minted'[s] = minted[s]
    BY <1>2 DEF SignedIn
  <2> QED  BY <2>1, <2>2, SidsStayCarried DEF IInv
<1>11. /\ DOMAIN user' = {"handle", "credentials"} /\ user'.handle \in 0..drawn'.handle
       /\ user'.credentials = user.credentials
  BY <1>2, <1>3, <1>4 DEF UserOK
<1>12. minted' \in [Sids -> Browsers \cup {None}] /\ UNCHANGED log
  BY <1>2 DEF IInv, TypeOK
<1> QED  BY <1>5, <1>6, <1>7, <1>8, <1>9, <1>10, <1>11, <1>12, QuietStep

\* Which state a finish handler takes, and where it goes on.
Taking == {<<"register_finish", "reg_state", "register_finish.push">>,
           <<"add_credential_finish.take", "reg_state", "add_credential_finish.push">>,
           <<"authenticate_finish", "auth_state", "authenticate_finish.verify">>}

\* A finish handler takes the state out of the session.
LEMMA TakeStep ==
    ASSUME IInv, NEW t \in Tabs, NEW section, NEW field \in Fields, NEW next,
           <<section, field, next>> \in Taking,
           Take(t, section, field, next)
    PROVE  IInv'
<1>0. \/ section = "register_finish" /\ field = "reg_state" /\ next = "register_finish.push"
      \/ /\ section = "add_credential_finish.take" /\ field = "reg_state"
         /\ next = "add_credential_finish.push"
      \/ /\ section = "authenticate_finish" /\ field = "auth_state"
         /\ next = "authenticate_finish.verify"
  BY DEF Taking
<1>1. TakeState(t, section, field, next)
  BY DEF Take
<1>2. UNCHANGED <<user, log, minted>>
  BY DEF Take
<1>3. /\ TabsOK /\ SessionsOK(DefaultSession) /\ CookiesOK /\ DevicesOK /\ DrawnOK
      /\ WebOK(DefaultSession) /\ Held(Accepted)
  BY WebParts
<1>4. WebOK(DefaultSession)' /\ HeldOnce(InSessions', InRequests', Accepted, drawn'.challenge)
  BY <1>0, <1>1, <1>3, DefaultFields, TakeOK DEF Takes
<1>5. PICK sid, what :
         sid = tabs[t].sid /\ what = [answer |-> tabs[t].data, state |-> sessions[sid][field]]
  OBVIOUS
<1>6. /\ UNCHANGED <<cookies, devices, drawn>>
      /\ \/ UNCHANGED sessions /\ Moves(t, "page", None, None)
         \/ /\ sid \in Sids /\ sessions[sid] # None /\ sessions[sid][field] # None
            /\ \A s \in Sids \ {sid} : sessions'[s] = sessions[s]
            /\ sessions'[sid][field] = None
            /\ \A f \in DOMAIN DefaultSession \ {field} : sessions'[sid][f] = sessions[sid][f]
            /\ Moves(t, next, sid, what)
  <2>1. PICK default : default = DefaultSession
    OBVIOUS
  <2>2. Fields \subseteq DOMAIN default /\ SessionsOK(default)
    BY <1>3, <2>1, DefaultFields
  <2>3. UNCHANGED <<cookies, devices, drawn>>
    BY <1>1 DEF TakeState
  <2>4. CASE ~ (UNCHANGED sessions /\ Moves(t, "page", None, None))
    <3>1. /\ sid \in Sids /\ sessions[sid] # None /\ sessions[sid][field] # None
          /\ \A s \in Sids \ {sid} : sessions'[s] = sessions[s]
          /\ sessions'[sid][field] = None
          /\ \A f \in DOMAIN default \ {field} : sessions'[sid][f] = sessions[sid][f]
          /\ Moves(t, next, sid, what)
      BY <1>1, <1>3, <1>5, <2>2, <2>4, TakeIs
    <3> QED  BY <2>1, <2>3, <3>1
  <2> QED  BY <2>3, <2>4
<1>7. tabs[t].browser \in Carriers(sid)
  BY <1>3, <1>5, CarriersOf
<1>8. CASE UNCHANGED sessions /\ Moves(t, "page", None, None)
  <2>1. PlaceOK(t)'
    BY <1>8 DEF PlaceOK, Sections, Moves
  <2> QED  BY <1>2, <1>4, <1>6, <1>8, <2>1, TabStep
<1>9. CASE ~ (UNCHANGED sessions /\ Moves(t, "page", None, None))
  <2>1. SessionOK(sid)
    BY <1>6, <1>9 DEF IInv, TypeOK
  <2>2. Grows
    BY <1>3, <1>6, GrowsSame
  <2>3. PlaceOK(t)'
    <3>1. /\ tabs'[t].at = next /\ tabs'[t].data.state = sessions[sid][field]
      BY <1>5, <1>6, <1>9 DEF Moves
    <3>2. /\ next \in {"register_finish.push", "add_credential_finish.push"}
                => RegistrationOK(sessions[sid][field], drawn.handle, drawn.challenge)
          /\ next = "authenticate_finish.verify"
                => AuthenticationOK(sessions[sid][field], drawn.handle, drawn.challenge)
      BY <1>0, <1>6, <1>9, <2>1 DEF SessionOK
    <3> QED  BY <1>0, <1>6, <3>1, <3>2 DEF PlaceOK, Sections
  <2>4. (\A s \in Sids : sessions[s] # None => SessionOK(s))'
    <3>1. SessionOK(sid)'
      <4>1. /\ sessions'[sid].reg_state \in {None, sessions[sid].reg_state}
            /\ sessions'[sid].auth_state \in {None, sessions[sid].auth_state}
            /\ sessions'[sid].signed_in = sessions[sid].signed_in
        BY <1>0, <1>6, <1>9 DEF DefaultSession
      <4> QED  BY <1>6, <2>1, <4>1 DEF SessionOK
    <3>2. \A s \in Sids \ {sid} : sessions[s] # None => SessionOK(s)'
      BY <1>6, <1>9, <2>2, SessionKept DEF IInv, TypeOK
    <3> QED  BY <1>6, <1>9, <3>1, <3>2
  <2>5. SidsCarriedByTheirBrowser'
    <3>1. ASSUME NEW s \in Sids, SignedIn(s)' PROVE SignedIn(s) /\ minted'[s] = minted[s]
      <4>1. sessions'[sid].signed_in = sessions[sid].signed_in /\ sessions[sid] # None
        BY <1>0, <1>6, <1>9 DEF DefaultSession
      <4>2. CASE s = sid
        BY <1>2, <3>1, <4>1, <4>2 DEF SignedIn
      <4>3. CASE s # sid
        BY <1>2, <1>6, <1>9, <3>1, <4>3 DEF SignedIn
      <4> QED  BY <4>2, <4>3
    <3>2. ASSUME NEW s \in Sids, NEW b \in Carriers(s)' PROVE b \in Carriers(s)
      <4>1. cookies' \in {cookies, [cookies EXCEPT ![tabs[t].browser] = sid]}
        BY <1>6
      <4>2. b \in Carriers(s) \/ (b = tabs[t].browser /\ s \in {sid, sid})
        BY <1>3, <1>6, <1>9, <4>1, CarriersStep
      <4> QED  BY <1>7, <4>2
    <3> QED  BY <3>1, <3>2, SidsStayCarried DEF IInv
  <2>6. /\ DOMAIN user' = {"handle", "credentials"} /\ user'.handle \in 0..drawn'.handle
        /\ user'.credentials = user.credentials /\ UNCHANGED log
        /\ minted' \in [Sids -> Browsers \cup {None}]
    BY <1>2, <1>6 DEF IInv, TypeOK, UserOK
  <2> QED  BY <1>4, <1>6, <1>9, <2>2, <2>3, <2>4, <2>5, <2>6, QuietStep
<1> QED  BY <1>8, <1>9

\* The session of a sign-in goes, and one comes that is signed in, under a sid that
\* its own browser alone gets to carry.
LEMMA RotateStep ==
    ASSUME IInv, NEW t \in Tabs, AuthenticateFinishRotate(t)
    PROVE  IInv'
<1>1. /\ TabsOK /\ SessionsOK(DefaultSession) /\ CookiesOK /\ DrawnOK
      /\ WebOK(DefaultSession) /\ Held(Accepted)
  BY WebParts
<1>2. PICK new_sid, browser, signed :
         /\ new_sid = drawn.sid + 1 /\ browser = tabs[t].browser
         /\ signed = [DefaultSession EXCEPT !.signed_in = TRUE]
  OBVIOUS
<1>3. /\ new_sid <= MaxSids
      /\ drawn' = [drawn EXCEPT !.sid = new_sid]
      /\ sessions' = [sessions EXCEPT ![tabs[t].sid] = None, ![new_sid] = signed]
      /\ minted' = [minted EXCEPT ![new_sid] = browser]
      /\ UNCHANGED <<user, devices, log>>
      /\ \/ Arrives(t, "page", None, new_sid)
         \/ Done(t) /\ UNCHANGED cookies
  BY <1>2 DEF AuthenticateFinishRotate, Reply
<1>4. /\ DOMAIN signed = DOMAIN DefaultSession /\ \A f \in Fields : signed[f] = None
      /\ signed.signed_in = TRUE /\ signed.reg_state = None /\ signed.auth_state = None
  BY <1>2 DEF DefaultSession, Fields
<1>5. /\ WebOK(DefaultSession)'
      /\ HeldOnce(InSessions', InRequests', Accepted, drawn'.challenge)
      /\ DrawnGrows /\ drawn'.challenge = drawn.challenge
      /\ new_sid \in Sids /\ sessions'[new_sid] = signed
      /\ \A s \in Sids \ {new_sid} : sessions'[s] \in {sessions[s], None}
      /\ cookies' \in {cookies, [cookies EXCEPT ![tabs[t].browser] = new_sid]}
      /\ Moves(t, "page", None, None)
  <2>1. /\ drawn.sid + 1 <= MaxSids /\ drawn' = [drawn EXCEPT !.sid = drawn.sid + 1]
        /\ sessions' = [sessions EXCEPT ![tabs[t].sid] = None, ![drawn.sid + 1] = signed]
        /\ UNCHANGED devices
        /\ \/ Arrives(t, "page", None, drawn.sid + 1)
           \/ Done(t) /\ UNCHANGED cookies
    BY <1>2, <1>3
  <2>2. /\ WebOK(DefaultSession)'
        /\ HeldOnce(InSessions', InRequests', Accepted, drawn'.challenge)
        /\ DrawnGrows /\ drawn'.challenge = drawn.challenge
        /\ drawn.sid + 1 \in Sids /\ sessions'[drawn.sid + 1] = signed
        /\ \A s \in Sids \ {drawn.sid + 1} : sessions'[s] \in {sessions[s], None}
        /\ cookies' \in {cookies, [cookies EXCEPT ![tabs[t].browser] = drawn.sid + 1]}
        /\ Moves(t, "page", None, None)
    BY <1>1, <1>4, <2>1, DefaultFields, RotateOK
  <2> QED  BY <1>2, <2>2
<1>6. Grows /\ drawn'.handle = drawn.handle
  <2>1. drawn'.handle = drawn.handle
    BY <1>1, <1>3 DEF DrawnOK
  <2> QED  BY <1>1, <1>5, <2>1 DEF Grows, DrawnOK
<1>7. PlaceOK(t)'
  BY <1>5 DEF PlaceOK, Sections, Moves
<1>8. (\A s \in Sids : sessions[s] # None => SessionOK(s))'
  <2>1. SessionOK(new_sid)'
    BY <1>4, <1>5 DEF SessionOK
  <2>2. ASSUME NEW s \in Sids \ {new_sid}, sessions'[s] # None PROVE SessionOK(s)'
    <3>1. sessions'[s] = sessions[s] /\ sessions[s] # None
      BY <1>5, <2>2
    <3>2. SessionOK(s)
      BY <3>1 DEF IInv, TypeOK
    <3> QED  BY <1>6, <3>1, <3>2, SessionKept
  <2> QED  BY <2>1, <2>2
<1>9. /\ minted' \in [Sids -> Browsers \cup {None}] /\ minted'[new_sid] = browser
      /\ \A s \in Sids \ {new_sid} : minted'[s] = minted[s]
  <2>1. minted \in [Sids -> Browsers \cup {None}] /\ browser \in Browsers
    BY <1>1, <1>2 DEF IInv, TypeOK, TabsOK, RequestOK
  <2> QED  BY <1>3, <1>5, <2>1
<1>10. SidsCarriedByTheirBrowser'
  <2>1. \A s \in Sids : \A b \in Carriers(s)' :
           b \in Carriers(s) \/ (b = browser /\ s = new_sid)
    <3>1. None \notin Sids
      BY WebAssumption DEF Sids
    <3>2. \A s, b : b \in Carriers(s)'
                       => b \in Carriers(s) \/ (b = tabs[t].browser /\ s \in {None, new_sid})
      BY <1>1, <1>5, CarriersStep
    <3> QED  BY <1>2, <3>1, <3>2
  <2>2. Carriers(new_sid) = {}
    BY <1>1, <1>2, CarriersFresh DEF DrawnOK
  <2>3. ASSUME NEW s \in Sids, SignedIn(s)', NEW b \in Carriers(s)'
        PROVE  minted'[s] = b
    <3>1. CASE s = new_sid
      BY <1>9, <2>1, <2>2, <2>3, <3>1
    <3>2. CASE s # new_sid
      <4>1. sessions'[s] = sessions[s] /\ b \in Carriers(s) /\ minted'[s] = minted[s]
        BY <1>5, <1>9, <2>1, <2>3, <3>2 DEF SignedIn
      <4>2. SignedIn(s)
        BY <2>3, <4>1 DEF SignedIn
      <4> QED  BY <4>1, <4>2 DEF IInv, SidsCarriedByTheirBrowser
    <3> QED  BY <3>1, <3>2
  <2> QED  BY <2>3 DEF SidsCarriedByTheirBrowser
<1>11. /\ DOMAIN user' = {"handle", "credentials"} /\ user'.handle \in 0..drawn'.handle
       /\ user'.credentials = user.credentials /\ UNCHANGED log
  BY <1>3, <1>6 DEF IInv, TypeOK, UserOK
<1> QED  BY <1>5, <1>6, <1>7, <1>8, <1>9, <1>10, <1>11, QuietStep

-----------------------------------------------------------------------------
(* What goes into the log.                                                    *)

\* The log with one more event.
LEMMA LogAppends ==
    ASSUME NEW S, NEW seq \in Seq(S), NEW e \in S
    PROVE  LET new  == Append(seq, e)
               last == Len(seq) + 1
           IN  /\ new \in Seq(S)
               /\ DOMAIN new = DOMAIN seq \cup {last}
               /\ last \notin DOMAIN seq
               /\ \A n \in DOMAIN seq : new[n] = seq[n] /\ n < last
               /\ new[last] = e
OBVIOUS

\* The state in a request has a challenge that was not accepted yet.
LEMMA HeldIsUnspent ==
    ASSUME IInv, NEW t \in Tabs, tabs[t].at \in Holding, ChallengeOf(tabs[t].data.state) # 0
    PROVE  ChallengeOf(tabs[t].data.state) \notin Accepted
<1>1. InRequests[t] = ChallengeOf(tabs[t].data.state)
  BY DEF InRequests
<1> HIDE DEF InRequests
<1> QED  BY <1>1 DEF IInv, InOnePlace, HeldOnce

\* An event goes into the log, and the credentials change with it.
LEMMA LogStep ==
    ASSUME IInv, NEW t \in Tabs, NEW place, NEW sid, NEW data, Moves(t, place, sid, data),
           sid = None \/ sid = tabs[t].sid,
           UNCHANGED <<sessions, cookies, drawn, minted>>,
           PlaceOK(t)', WebOK(DefaultSession)',
           NEW e \in Answered \cup Removals, log' = Append(log, e), e.id \notin Removed,
           HeldOnce(InSessions', InRequests', Accepted \cup {e.challenge}, drawn'.challenge),
           e.kind # "delete" => e.challenge \notin Accepted,
           e.kind = "delete" => e.id \in CredentialIds,
           UserOK',
           \A id \in CredentialIds' :
              /\ id \in CredentialIds \/ (id = e.id /\ id[2] = e.challenge)
              /\ e.kind = "delete" => id # e.id,
           \A i, j \in DOMAIN user'.credentials :
              user'.credentials[i].id = user'.credentials[j].id => i = j
    PROVE  IInv'
<1>1. TabsOK /\ CookiesOK /\ DrawnOK
  BY WebParts
<1>2. Grows
  BY <1>1, GrowsSame
<1>3. PICK last : last = Len(log) + 1
  OBVIOUS
<1>4. /\ log' \in Seq(Answered \cup Removals)
      /\ DOMAIN log' = DOMAIN log \cup {last}
      /\ last \notin DOMAIN log
      /\ \A n \in DOMAIN log : log'[n] = log[n] /\ n < last
      /\ log'[last] = e
  <2>1. log \in Seq(Answered \cup Removals)
    BY DEF IInv, TypeOK
  <2> QED  BY <1>3, <2>1, LogAppends
<1>5. Accepted' = Accepted \cup {e.challenge}
  BY <1>4 DEF Accepted
<1>6. /\ e.kind = "delete" => Removed' = Removed \cup {e.id}
      /\ e.kind # "delete" => Removed' = Removed
  BY <1>4 DEF Removed
<1>7. TypeOK'
  <2>1. (\A u \in Tabs : PlaceOK(u))'
    BY <1>2, PlacesMove DEF IInv, TypeOK
  <2>2. (\A s \in Sids : sessions[s] # None => SessionOK(s))'
    BY <1>2, SessionKept DEF IInv, TypeOK
  <2>3. minted' \in [Sids -> Browsers \cup {None}]
    BY DEF IInv, TypeOK
  <2> QED  BY <1>4, <2>1, <2>2, <2>3 DEF TypeOK
<1>8. InOnePlace'
  BY <1>5 DEF InOnePlace
<1>9. ChallengeAcceptedOnce'
  <2>1. \A n \in DOMAIN log : log[n].kind # "delete" => log[n].challenge # e.challenge
    <3>1. ASSUME NEW n \in DOMAIN log, log[n].kind # "delete"
          PROVE  log[n].challenge # e.challenge
      <4>1. log[n] \in Answered \cup Removals
        BY DEF IInv, TypeOK
      <4>2. log[n].challenge \in 1..MaxChallenges
        BY <3>1, <4>1 DEF Answered, Removals
      <4>3. CASE e.kind = "delete"
        <5>1. e.challenge = 0
          BY <4>3 DEF Answered, Removals
        <5> QED  BY <4>2, <5>1, WebAssumption
      <4>4. CASE e.kind # "delete"
        BY <4>4 DEF Accepted
      <4> QED  BY <4>3, <4>4
    <3> QED  BY <3>1
  <2>2. e.kind # "delete" => \A n \in DOMAIN log : log[n].challenge # e.challenge
    BY DEF Accepted
  <2> QED  BY <1>4, <2>1, <2>2 DEF IInv, ChallengeAcceptedOnce
<1>10. RemovedStaysRemoved'
  <2>1. \A n \in DOMAIN log : log[n].kind = "delete" => log[n].id # e.id
    BY DEF Removed
  <2>2. \A n \in DOMAIN log : ~ (last < n)
    <3>1. \A n \in DOMAIN log : n \in Nat /\ n < last
      <4>1. log \in Seq(Answered \cup Removals)
        BY DEF IInv, TypeOK
      <4> QED  BY <1>4, <4>1
    <3>2. last \in Nat
      <4>1. log \in Seq(Answered \cup Removals)
        BY DEF IInv, TypeOK
      <4> QED  BY <1>3, <4>1
    <3> QED  BY <3>1, <3>2
  <2>3. ~ (last < last)
    BY <1>4, <2>2 DEF IInv, TypeOK
  <2> QED  BY <1>4, <2>1, <2>2, <2>3 DEF IInv, RemovedStaysRemoved
<1>11. StoredOnce'
  <2>1. /\ \A id \in CredentialIds \cup Removed : id[2] \in Accepted
        /\ CredentialIds \cap Removed = {}
    BY DEF IInv, StoredOnce
  <2>2. \A id \in CredentialIds' \cup Removed' : id[2] \in Accepted'
    BY <1>5, <1>6, <2>1
  <2>3. CredentialIds' \cap Removed' = {}
    BY <1>6, <2>1
  <2> QED  BY <2>2, <2>3 DEF StoredOnce
<1>12. SidsCarriedByTheirBrowser'
  <2>1. ASSUME NEW s \in Sids, NEW b \in Carriers(s)' PROVE b \in Carriers(s)
    <3>1. s # None
      BY WebAssumption DEF Sids
    <3>2. cookies' \in {cookies, [cookies EXCEPT ![tabs[t].browser] = sid]}
      OBVIOUS
    <3>3. b \in Carriers(s) \/ (b = tabs[t].browser /\ s \in {sid, sid})
      BY <1>1, <3>2, CarriersStep
    <3>4. tabs[t].browser \in Carriers(tabs[t].sid)
      BY <1>1, CarriersOf
    <3> QED  BY <3>1, <3>3, <3>4
  <2>2. \A s \in Sids : SignedIn(s)' => SignedIn(s) /\ minted'[s] = minted[s]
    BY DEF SignedIn
  <2> QED  BY <2>1, <2>2, SidsStayCarried DEF IInv
<1> QED  BY <1>7, <1>8, <1>9, <1>10, <1>11, <1>12 DEF IInv

\* An answer is accepted: the challenge of the request's state is spent.
LEMMA AcceptStep ==
    ASSUME IInv, NEW t \in Tabs, tabs[t].at \in Holding,
           UNCHANGED <<sessions, cookies, devices, drawn, minted>>,
           NEW place, NEW sid, NEW data, Moves(t, place, sid, data), sid = None \/ sid = tabs[t].sid,
           Free(place), place \notin Holding, PlaceOK(t)',
           NEW e \in Answered, e.challenge = ChallengeOf(tabs[t].data.state),
           log' = Append(log, e), e.id \notin Removed, UserOK',
           \A id \in CredentialIds' : id \in CredentialIds \/ (id = e.id /\ id[2] = e.challenge),
           \A i, j \in DOMAIN user'.credentials :
              user'.credentials[i].id = user'.credentials[j].id => i = j
    PROVE  IInv'
<1>1. /\ TabsOK /\ CookiesOK /\ DrawnOK /\ WebOK(DefaultSession) /\ Held(Accepted)
  BY WebParts
<1>2. sid \in 1..drawn.sid \cup {None}
  BY <1>1 DEF TabsOK, RequestOK
<1>3. e.challenge # 0 /\ e.kind # "delete" /\ e \in Answered \cup Removals
  BY WebAssumption DEF Answered
<1>4. /\ WebOK(DefaultSession)'
      /\ e.challenge \notin Accepted
      /\ HeldOnce(InSessions', InRequests', Accepted \cup {e.challenge}, drawn'.challenge)
  <2>1. DrawnGrows
    BY <1>1, DrawnSame
  <2>2. CookiesOK'
    BY <1>1, <2>1, CookiesStay
  <2>3. sid \in 1..drawn'.sid \cup {None} /\ drawn'.challenge = drawn.challenge
    BY <1>2
  <2>4. ChallengeOf(tabs[t].data.state) # 0 /\ UNCHANGED <<sessions, devices>>
    BY <1>3
  <2>5. LET c == ChallengeOf(tabs[t].data.state) IN
        /\ WebOK(DefaultSession)'
        /\ c \notin Accepted
        /\ HeldOnce(InSessions', InRequests', Accepted \cup {c}, drawn'.challenge)
    BY <1>1, <2>1, <2>2, <2>3, <2>4, SpendOK
  <2> QED  BY <2>5
<1> QED  BY <1>3, <1>4, LogStep

\* A registration is verified, and its credential pushed.
LEMMA PushStep ==
    ASSUME IInv, NEW t \in Tabs, NEW section, NEW kind \in {"create", "add"},
           section \in {"register_finish.push", "add_credential_finish.push"},
           Push(t, section, kind)
    PROVE  IInv'
<1>1. /\ TabsOK /\ CookiesOK /\ DrawnOK /\ WebOK(DefaultSession) /\ Held(Accepted) /\ UserOK
  BY WebParts DEF IInv, TypeOK
<1>2. PICK a, state, response, seq :
         /\ a = tabs[t].data.answer /\ state = tabs[t].data.state
         /\ response = RegistrationOf(Wa, a) /\ seq = user.credentials
  OBVIOUS
<1>3. /\ tabs[t].at = section /\ Done(t)
      /\ UNCHANGED <<sessions, cookies, devices, drawn, minted>>
  BY DEF Push
<1>4. CASE finish_registration(Wa, state, response, Now) = Ok
  <2>1. Registers(a) /\ RegistrationOK(state, drawn.handle, drawn.challenge)
    BY <1>1, <1>2, <1>3 DEF IInv, TypeOK, PlaceOK, TabsOK, RequestOK
  <2>2. a.challenge = state.challenge
    BY <1>2, <1>4, RegistersItsChallenge
  <2>3. a.id \in Devices \X (1..MaxChallenges) /\ a.challenge \in 1..MaxChallenges
    BY <1>1, <2>1, RegistersInRange
  <2>4. PICK passkey, e :
           /\ passkey = [id |-> a.id, counter |-> 0, public_key_cose |-> cose_pubkey(a.id)]
           /\ e = Event(kind, a.id, a.challenge, 0)
    OBVIOUS
  <2>5. /\ passkey \in PasskeyCredentials /\ passkey.id = a.id
        /\ e \in Answered /\ e.id = a.id /\ e.challenge = a.challenge
    BY <2>3, <2>4, WebAssumption DEF PasskeyCredentials, Answered, Event
  <2>6. user' = [user EXCEPT !.credentials = Append(seq, passkey)] /\ log' = Append(log, e)
    <3> DEFINE new == NewCredential(response)
    <3>1. /\ user' = [user EXCEPT !.credentials =
                         Append(seq, [id |-> new.id, counter |-> new.counter,
                                      public_key_cose |-> new.public_key_cose])]
          /\ log' = Append(log, Event(kind, new.id, a.challenge, new.counter))
      BY <1>2, <1>4 DEF Push
    <3>2. /\ new.id = a.id /\ new.counter = 0
          /\ new.public_key_cose = cose_pubkey(a.id)
      BY <1>2, RegistrationIs
    <3> QED  BY <2>4, <3>1, <3>2
  <2>7. a.challenge = ChallengeOf(tabs[t].data.state) /\ tabs[t].at \in Holding
    BY <1>2, <1>3, <2>1, <2>2 DEF RegistrationOK, ChallengeOf, Holding
  <2>8. a.challenge \notin Accepted
    BY <2>3, <2>7, HeldIsUnspent
  <2>9. a.id[2] = a.challenge /\ a.id \notin CredentialIds \cup Removed
    <3>1. PICK d \in Devices : a.id = <<d, a.challenge>>
      BY <2>1 DEF Registers
    <3>2. a.id[2] = a.challenge
      BY <3>1
    <3> QED  BY <2>8, <3>2 DEF IInv, StoredOnce
  <2>10. PICK new, last : new = Append(seq, passkey) /\ last = Len(seq) + 1
    OBVIOUS
  <2>11. /\ new \in Seq(PasskeyCredentials) /\ DOMAIN new = DOMAIN seq \cup {last}
         /\ \A n \in DOMAIN seq : new[n] = seq[n]
         /\ new[last] = passkey
    <3>1. seq \in Seq(PasskeyCredentials)
      BY <1>1, <1>2 DEF UserOK
    <3> QED  BY <2>5, <2>10, <3>1, LogAppends
  <2>12. user'.credentials = new /\ user'.handle = user.handle /\ DOMAIN user' = DOMAIN user
    BY <1>1, <2>6, <2>10 DEF UserOK
  <2>13. UserOK'
    BY <1>1, <1>3, <2>11, <2>12 DEF UserOK
  <2>14. \A id \in CredentialIds' : id \in CredentialIds \/ (id = e.id /\ id[2] = e.challenge)
    BY <1>2, <2>5, <2>9, <2>11, <2>12 DEF CredentialIds
  <2>15. \A i, j \in DOMAIN user'.credentials :
            user'.credentials[i].id = user'.credentials[j].id => i = j
    <3>1. \A n \in DOMAIN seq : seq[n].id # a.id
      BY <1>2, <2>9 DEF CredentialIds
    <3>2. \A i, j \in DOMAIN seq : seq[i].id = seq[j].id => i = j
      BY <1>2 DEF IInv, StoredOnce
    <3> QED  BY <2>5, <2>11, <2>12, <3>1, <3>2
  <2>16. Moves(t, "page", None, None)
    BY <1>1, <1>3, DoneMoves
  <2>17. PlaceOK(t)' /\ Free("page") /\ "page" \notin Holding
    BY <2>16 DEF PlaceOK, Sections, Moves, Free, Holding
  <2>18. e.id \notin Removed /\ e.challenge = ChallengeOf(tabs[t].data.state)
    BY <2>5, <2>7, <2>9
  <2> QED  BY <1>3, <2>5, <2>6, <2>7, <2>13, <2>14, <2>15, <2>16, <2>17, <2>18, AcceptStep
<1>5. CASE finish_registration(Wa, state, response, Now) # Ok
  <2>1. UNCHANGED <<user, log>>
    BY <1>2, <1>5 DEF Push
  <2> QED  BY <1>3, <2>1, EndStep
<1> QED  BY <1>4, <1>5

\* A sign-in is verified, and its count stored.
LEMMA VerifyStep ==
    ASSUME IInv, NEW t \in Tabs, AuthenticateFinishVerify(t)
    PROVE  IInv'
<1>1. /\ TabsOK /\ CookiesOK /\ DrawnOK /\ WebOK(DefaultSession) /\ Held(Accepted) /\ UserOK
  BY WebParts DEF IInv, TypeOK
<1>2. PICK a, state, response, seq, i :
         /\ a = tabs[t].data.answer /\ state = tabs[t].data.state
         /\ response = AssertionOf(Wa, a) /\ seq = user.credentials
         /\ i = Find(user.credentials, a.id)
  OBVIOUS
<1>3. /\ tabs[t].at = "authenticate_finish.verify"
      /\ UNCHANGED <<sessions, cookies, devices, drawn, minted>>
  BY DEF AuthenticateFinishVerify
<1>4. ASSUME i # 0, finish_authentication(Wa, state, response, seq[i], Now) = Ok,
             user' = [user EXCEPT !.credentials[i].counter =
                         response.authenticator_data.value.sign_count],
             log' = Append(log, Event("get", a.id, a.challenge, a.count)),
             GoTo(t, "authenticate_finish.rotate", None)
      PROVE  IInv'
  <2>1. SignsIn(a) /\ AuthenticationOK(state, drawn.handle, drawn.challenge)
    BY <1>1, <1>2, <1>3 DEF IInv, TypeOK, PlaceOK, TabsOK, RequestOK
  <2>2. seq \in Seq(PasskeyCredentials) /\ i \in DOMAIN seq /\ seq[i].id = a.id
    <3>1. seq \in Seq(PasskeyCredentials) /\ i = Find(seq, a.id)
      BY <1>1, <1>2 DEF UserOK
    <3> QED  BY <1>4, <3>1, FoundById
  <2>3. /\ a.id \in Devices \X (1..MaxChallenges) /\ a.challenge \in 1..MaxChallenges
        /\ a.count \in 0..MaxChallenges
    BY <1>1, <2>1, SignsInInRange
  <2>4. a.challenge = state.challenge
    BY <1>2, <1>4, SignsInItsChallenge
  <2>5. PICK passkey, new, e :
           /\ passkey = [seq[i] EXCEPT !.counter = a.count]
           /\ new = [seq EXCEPT ![i] = passkey]
           /\ e = Event("get", a.id, a.challenge, a.count)
    OBVIOUS
  <2>6. passkey \in PasskeyCredentials /\ passkey.id = a.id
    <3>1. seq[i] \in PasskeyCredentials
      BY <2>2
    <3> QED  BY <2>2, <2>3, <2>5, <3>1 DEF PasskeyCredentials
  <2>7. e \in Answered /\ e.id = a.id /\ e.challenge = a.challenge
    BY <2>3, <2>5 DEF Event, Answered
  <2>8. /\ new \in Seq(PasskeyCredentials) /\ DOMAIN new = DOMAIN seq
        /\ \A j \in DOMAIN seq : new[j].id = seq[j].id
    <3>1. /\ new \in Seq(PasskeyCredentials) /\ DOMAIN new = DOMAIN seq
          /\ new[i] = passkey /\ \A j \in DOMAIN seq : j # i => new[j] = seq[j]
      BY <2>2, <2>5, <2>6
    <3> QED  BY <2>2, <2>6, <3>1
  <2>9. user'.credentials = new /\ user'.handle = user.handle /\ DOMAIN user' = DOMAIN user
    <3>1. response.authenticator_data.value.sign_count = a.count
      BY <1>2, AssertionIs
    <3>2. user' = [user EXCEPT !.credentials = new]
      BY <1>2, <1>4, <2>5, <3>1
    <3> QED  BY <1>1, <3>2 DEF UserOK
  <2>10. UserOK'
    BY <1>1, <1>3, <2>8, <2>9 DEF UserOK
  <2>11. CredentialIds' = CredentialIds /\ e.id \in CredentialIds
    BY <1>2, <2>2, <2>7, <2>8, <2>9 DEF CredentialIds
  <2>12. \A j, k \in DOMAIN user'.credentials :
            user'.credentials[j].id = user'.credentials[k].id => j = k
    <3>1. \A j, k \in DOMAIN seq : seq[j].id = seq[k].id => j = k
      BY <1>2 DEF IInv, StoredOnce
    <3> QED  BY <2>8, <2>9, <3>1
  <2>13. e.id \notin Removed
    BY <2>11 DEF IInv, StoredOnce
  <2>14. /\ e.challenge = ChallengeOf(tabs[t].data.state) /\ tabs[t].at \in Holding
         /\ log' = Append(log, e)
    BY <1>2, <1>3, <1>4, <2>1, <2>4, <2>5, <2>7 DEF AuthenticationOK, ChallengeOf, Holding
  <2>15. Moves(t, "authenticate_finish.rotate", tabs[t].sid, None)
    BY <1>1, <1>4, GoToMoves
  <2>16. /\ PlaceOK(t)' /\ Free("authenticate_finish.rotate")
         /\ "authenticate_finish.rotate" \notin Holding
    BY <2>15 DEF PlaceOK, Sections, Moves, Free, Holding
  <2>17. \A id \in CredentialIds' : id \in CredentialIds \/ (id = e.id /\ id[2] = e.challenge)
    BY <2>11
  <2> QED  BY <1>3, <2>7, <2>10, <2>12, <2>13, <2>14, <2>15, <2>16, <2>17, AcceptStep
<1>5. CASE UNCHANGED <<user, log>> /\ Done(t)
  BY <1>3, <1>5, EndStep
<1> QED  BY <1>2, <1>4, <1>5 DEF AuthenticateFinishVerify

\* A credential is removed, unless it is the last.
LEMMA DeleteStep ==
    ASSUME IInv, NEW t \in Tabs, DeleteCredentialUser(t)
    PROVE  IInv'
<1>1. /\ TabsOK /\ CookiesOK /\ DrawnOK /\ WebOK(DefaultSession) /\ Held(Accepted) /\ UserOK
  BY WebParts DEF IInv, TypeOK
<1>2. PICK target, seq, kept, e :
         /\ target = tabs[t].data.target /\ seq = user.credentials
         /\ kept = retain(seq, target) /\ e = Event("delete", target, 0, 0)
  OBVIOUS
<1>3. Done(t) /\ UNCHANGED <<sessions, cookies, devices, drawn, minted>>
  BY DEF DeleteCredentialUser
<1>4. ASSUME target \in CredentialIds,
             user' = [user EXCEPT !.credentials = kept], log' = Append(log, e)
      PROVE  IInv'
  <2>1. seq \in Seq(PasskeyCredentials)
    BY <1>1, <1>2 DEF UserOK
  <2>2. \A i, j \in DOMAIN seq : seq[i].id = seq[j].id => i = j
    BY <1>2 DEF IInv, StoredOnce
  <2>3. /\ kept \in Seq(PasskeyCredentials)
        /\ \A n \in DOMAIN kept : \E i \in DOMAIN seq : kept[n] = seq[i] /\ seq[i].id # target
        /\ \A m, n \in DOMAIN kept : kept[m].id = kept[n].id => m = n
    <3>1. /\ kept \in Seq(PasskeyCredentials)
          /\ \A n \in DOMAIN kept : \E i \in DOMAIN seq : kept[n] = seq[i] /\ seq[i].id # target
          /\ (\A i, j \in DOMAIN seq : seq[i].id = seq[j].id => i = j)
                => \A m, n \in DOMAIN kept : kept[m].id = kept[n].id => m = n
      <4>1. LET k == retain(seq, target) IN
            /\ k \in Seq(PasskeyCredentials)
            /\ \A n \in DOMAIN k : \E i \in DOMAIN seq : k[n] = seq[i] /\ seq[i].id # target
            /\ (\A i, j \in DOMAIN seq : seq[i].id = seq[j].id => i = j)
                  => \A m, n \in DOMAIN k : k[m].id = k[n].id => m = n
        BY <2>1, RetainIs
      <4> QED  BY <1>2, <4>1
    <3> QED  BY <2>2, <3>1
  <2>4. user'.credentials = kept /\ user'.handle = user.handle /\ DOMAIN user' = DOMAIN user
    BY <1>1, <1>4 DEF UserOK
  <2>5. UserOK'
    BY <1>1, <1>3, <2>3, <2>4 DEF UserOK
  <2>6. target \in Devices \X (1..MaxChallenges)
    <3>1. PICK i \in DOMAIN seq : target = seq[i].id
      BY <1>2, <1>4 DEF CredentialIds
    <3>2. seq[i] \in PasskeyCredentials
      BY <2>1
    <3> QED  BY <3>1, <3>2 DEF PasskeyCredentials
  <2>7. /\ e \in Removals /\ e \in Answered \cup Removals
        /\ e.id = target /\ e.challenge = 0 /\ e.kind = "delete"
    BY <1>2, <2>6 DEF Event, Removals
  <2>8. \A id \in CredentialIds' : id \in CredentialIds /\ id # target
    BY <1>2, <2>3, <2>4 DEF CredentialIds
  <2>9. e.id \notin Removed
    BY <1>4, <2>7 DEF IInv, StoredOnce
  <2>10. Moves(t, "page", None, None)
    BY <1>1, <1>3, DoneMoves
  <2>11. PlaceOK(t)' /\ Free("page") /\ "page" \notin Holding
    BY <2>10 DEF PlaceOK, Sections, Moves, Free, Holding
  <2>12. WebOK(DefaultSession)' /\ HeldOnce(InSessions', InRequests', Accepted, drawn'.challenge)
    BY <1>1, <1>3, <2>10, <2>11, StillMoveOK
  <2>13. HeldOnce(InSessions', InRequests', Accepted \cup {e.challenge}, drawn'.challenge)
    <3>1. drawn'.challenge \in Nat
      BY <1>1, <1>3 DEF DrawnOK
    <3> HIDE DEF InSessions, InRequests
    <3> QED  BY <2>7, <2>12, <3>1 DEF HeldOnce
  <2>14. \A m, n \in DOMAIN user'.credentials :
            user'.credentials[m].id = user'.credentials[n].id => m = n
    BY <2>3, <2>4
  <2>15. /\ e.kind # "delete" => e.challenge \notin Accepted
         /\ e.kind = "delete" => e.id \in CredentialIds
         /\ \A id \in CredentialIds' :
               /\ id \in CredentialIds \/ (id = e.id /\ id[2] = e.challenge)
               /\ e.kind = "delete" => id # e.id
    BY <1>4, <2>7, <2>8
  <2> QED  BY <1>3, <1>4, <2>5, <2>7, <2>9, <2>10, <2>11, <2>12, <2>13, <2>14, <2>15, LogStep
<1>5. CASE UNCHANGED <<user, log>>
  BY <1>3, <1>5, EndStep
<1> QED  BY <1>2, <1>4, <1>5 DEF DeleteCredentialUser

-----------------------------------------------------------------------------
(* The theorems.                                                              *)

\* Nothing has been registered at first.
LEMMA InitIInv == ASSUME Init PROVE IInv
<1>1. /\ user = [handle |-> 0, credentials |-> <<>>] /\ log = <<>>
      /\ minted = [s \in Sids |-> None] /\ WebInit
  BY DEF Init
<1>2. /\ \A s \in Sids : sessions[s] = None
      /\ \A t \in Tabs : tabs[t].at = "page"
      /\ drawn.challenge = 0 /\ drawn.handle = 0
  BY <1>1, InitIs
<1>3. /\ Accepted = {} /\ Removed = {} /\ CredentialIds = {}
      /\ DOMAIN log = {} /\ DOMAIN user.credentials = {}
  BY <1>1 DEF Accepted, Removed, CredentialIds
<1>4. WebOK(DefaultSession) /\ InOnePlace
  BY <1>1, <1>3, WebInitOK DEF InOnePlace
<1>5. \A t \in Tabs : PlaceOK(t)
  BY <1>2 DEF PlaceOK, Sections
<1>6. TypeOK
  <2>1. log \in Seq(Answered \cup Removals) /\ user.credentials \in Seq(PasskeyCredentials)
    BY <1>1
  <2>2. UserOK
    BY <1>1, <1>2, <2>1 DEF UserOK
  <2>3. minted \in [Sids -> Browsers \cup {None}]
    BY <1>1
  <2> QED  BY <1>2, <1>4, <1>5, <2>1, <2>2, <2>3 DEF TypeOK
<1>7. ChallengeAcceptedOnce /\ StoredOnce /\ RemovedStaysRemoved /\ SidsCarriedByTheirBrowser
  BY <1>2, <1>3 DEF ChallengeAcceptedOnce, StoredOnce, RemovedStaysRemoved,
                    SidsCarriedByTheirBrowser, SignedIn
<1> QED  BY <1>4, <1>6, <1>7 DEF IInv

\* A registration is started, for the first credential or for another one.
LEMMA RegistrationSaveStep ==
    ASSUME IInv, NEW t \in Tabs, NEW handle \in 0..drawn.handle, NEW exclude,
           NEW finish \in {"register_finish", "add_credential_finish"},
           SaveAndReply(t, "reg_state", start_registration(NewChallenge, handle, Now), "create",
                        [challenge |-> NewChallenge, handle |-> handle, exclude |-> exclude,
                         finish |-> finish])
    PROVE  IInv'
<1>1. PICK state, data :
         /\ state = start_registration(NewChallenge, handle, Now)
         /\ data = [challenge |-> NewChallenge, handle |-> handle, exclude |-> exclude,
                    finish |-> finish]
  OBVIOUS
<1>2. SaveAndReply(t, "reg_state", state, "create", data)
  BY <1>1
<1>3. NewChallenge \in 1..NewChallenge
  BY WebParts DEF NewChallenge, DrawnOK
<1>4. /\ DOMAIN state = {"challenge", "user_id", "created_at"}
      /\ state.challenge = NewChallenge /\ state.user_id = handle
  BY <1>1 DEF start_registration
<1>5. RegistrationOK(state, drawn.handle, NewChallenge) /\ ChallengeOf(state) = NewChallenge
  BY <1>3, <1>4 DEF RegistrationOK, ChallengeOf
<1>6. data.challenge = NewChallenge /\ data.finish = finish
  BY <1>1
<1>7. "reg_state" \in Fields
  BY DEF Fields
<1> QED  BY <1>2, <1>5, <1>6, <1>7, SaveStep

\* A sign-in is started, with the snapshot of the user that the request carries.
LEMMA AuthenticateStartSaveStep ==
    ASSUME IInv, NEW t \in Tabs, AuthenticateStartSave(t)
    PROVE  IInv'
<1>1. PICK handle, allow, state, data :
         /\ handle = tabs[t].data.handle /\ allow = tabs[t].data.allow
         /\ state = start_authentication_for_user(NewChallenge, handle, allow, Now)
         /\ data = [challenge |-> NewChallenge, allow |-> allow]
  OBVIOUS
<1>2. SaveAndReply(t, "auth_state", state, "get", data)
  BY <1>1 DEF AuthenticateStartSave
<1>3. handle \in 0..drawn.handle
  BY <1>1 DEF AuthenticateStartSave, IInv, TypeOK, PlaceOK
<1>4. NewChallenge \in 1..NewChallenge
  BY WebParts DEF NewChallenge, DrawnOK
<1>5. /\ DOMAIN state = {"challenge", "allow_credentials", "created_at", "user_handle"}
      /\ state.challenge = NewChallenge /\ state.user_handle = handle
  BY <1>1 DEF start_authentication_for_user, start_authentication
<1>6. AuthenticationOK(state, drawn.handle, NewChallenge) /\ ChallengeOf(state) = NewChallenge
  BY <1>3, <1>4, <1>5 DEF AuthenticationOK, ChallengeOf
<1>7. data.challenge = NewChallenge
  BY <1>1
<1>8. "auth_state" \in Fields
  BY DEF Fields
<1> QED  BY <1>2, <1>6, <1>7, <1>8, SaveStep

\* A start handler has read the user, and the request carries the handle.
LEMMA SnapshotStep ==
    ASSUME IInv, NEW t \in Tabs, NEW section, NEW data,
           section \in {"authenticate_start.save", "add_credential_start.save"},
           GoTo(t, section, data), data.handle = user.handle,
           UNCHANGED <<user, sessions, cookies, devices, drawn, log, minted>>
    PROVE  IInv'
<1>1. Moves(t, section, tabs[t].sid, data)
  BY WebParts, GoToMoves
<1>2. user.handle \in 0..drawn.handle
  BY DEF IInv, TypeOK, UserOK
<1>3. PlaceOK(t)'
  BY <1>1, <1>2 DEF PlaceOK, Sections, Moves
<1>4. Free(section) /\ section \notin Holding /\ section # "get"
  BY DEF Free, Holding
<1> QED  BY <1>1, <1>3, <1>4, StillStep

\* Every step of a handler keeps the invariant.
LEMMA HandlerStep == ASSUME IInv, NEW t \in Tabs, Handler(t) PROVE IInv'
<1>1. CASE RegisterStart(t)
  BY <1>1, PlainStep, EndStep DEF RegisterStart, Plain
<1>2. CASE RegisterStartHandle(t)
  BY <1>2, RegisterStartHandleStep
<1>3. CASE RegisterStartSave(t)
  <2>1. tabs[t].data.handle \in 0..drawn.handle
    BY <1>3 DEF RegisterStartSave, IInv, TypeOK, PlaceOK
  <2> QED  BY <1>3, <2>1, RegistrationSaveStep DEF RegisterStartSave
<1>4. CASE RegisterFinish(t)
  BY <1>4, TakeStep DEF RegisterFinish, Taking, Fields
<1>5. CASE RegisterFinishPush(t)
  BY <1>5, PushStep DEF RegisterFinishPush
<1>6. CASE AuthenticateStart(t)
  <2>1. UNCHANGED <<user, sessions, cookies, devices, drawn, log, minted>>
    BY <1>6 DEF AuthenticateStart
  <2>2. CASE Done(t)
    BY <2>1, <2>2, EndStep
  <2>3. CASE GoTo(t, "authenticate_start.save",
                  [handle |-> user.handle, allow |-> CredentialIds])
    BY <2>1, <2>3, SnapshotStep
  <2> QED  BY <1>6, <2>2, <2>3 DEF AuthenticateStart
<1>7. CASE AuthenticateStartSave(t)
  BY <1>7, AuthenticateStartSaveStep
<1>8. CASE AuthenticateFinish(t)
  BY <1>8, TakeStep DEF AuthenticateFinish, Taking, Fields
<1>9. CASE AuthenticateFinishVerify(t)
  BY <1>9, VerifyStep
<1>10. CASE AuthenticateFinishRotate(t)
  BY <1>10, RotateStep
<1>11. CASE AddCredentialStart(t)
  BY <1>11, PlainStep DEF AddCredentialStart, RequireSignedIn, Plain
<1>12. CASE AddCredentialStartUser(t)
  BY <1>12, SnapshotStep DEF AddCredentialStartUser
<1>13. CASE AddCredentialStartSave(t)
  <2>1. tabs[t].data.handle \in 0..drawn.handle
    BY <1>13 DEF AddCredentialStartSave, IInv, TypeOK, PlaceOK
  <2> QED  BY <1>13, <2>1, RegistrationSaveStep DEF AddCredentialStartSave
<1>14. CASE AddCredentialFinish(t)
  BY <1>14, AddCredentialFinishStep
<1>15. CASE AddCredentialFinishTake(t)
  BY <1>15, TakeStep DEF AddCredentialFinishTake, Taking, Fields
<1>16. CASE AddCredentialFinishPush(t)
  BY <1>16, PushStep DEF AddCredentialFinishPush
<1>17. CASE DeleteCredential(t)
  BY <1>17, PlainStep DEF DeleteCredential, RequireSignedIn, Plain
<1>18. CASE DeleteCredentialUser(t)
  BY <1>18, DeleteStep
<1> QED  BY <1>1, <1>2, <1>3, <1>4, <1>5, <1>6, <1>7, <1>8, <1>9, <1>10, <1>11, <1>12, <1>13,
            <1>14, <1>15, <1>16, <1>17, <1>18 DEF Handler

\* Every step keeps the invariant.
LEMMA NextIInv == ASSUME IInv, [Next]_vars PROVE IInv'
<1>1. ASSUME NEW t \in Tabs, Handler(t) PROVE IInv'
  BY <1>1, HandlerStep
<1>2. ASSUME NEW t \in Tabs, Page(t) PROVE IInv'
  BY <1>2, GestureStep
<1>3. CASE UNCHANGED vars
  <2>1. UNCHANGED web /\ UNCHANGED <<user, log, minted>>
    BY <1>3 DEF vars
  <2>2. WebOK(DefaultSession) /\ Held(Accepted)
    BY WebParts
  <2>3. /\ WebOK(DefaultSession)'
        /\ HeldOnce(InSessions', InRequests', Accepted, drawn'.challenge)
        /\ UNCHANGED <<sessions, cookies, tabs, devices, drawn>>
        /\ \A s \in Sids : Carriers(s)' = Carriers(s)
    BY <2>1, <2>2, StutterOK
  <2>4. TypeOK'
    BY <2>1, <2>3 DEF IInv, TypeOK, UserOK, SessionOK, PlaceOK
  <2>5. Accepted' = Accepted /\ Removed' = Removed /\ CredentialIds' = CredentialIds
    BY <2>1 DEF Accepted, Removed, CredentialIds
  <2>6. InOnePlace'
    BY <2>3, <2>5 DEF InOnePlace
  <2>7. ChallengeAcceptedOnce' /\ RemovedStaysRemoved'
    BY <2>1 DEF IInv, ChallengeAcceptedOnce, RemovedStaysRemoved
  <2>8. StoredOnce'
    BY <2>1, <2>5 DEF IInv, StoredOnce
  <2>9. SidsCarriedByTheirBrowser'
    BY <2>1, <2>3 DEF IInv, SidsCarriedByTheirBrowser, SignedIn
  <2> QED  BY <2>4, <2>6, <2>7, <2>8, <2>9 DEF IInv
<1> QED  BY <1>1, <1>2, <1>3 DEF Next

\* The inductive invariant.
THEOREM CredentialManagerIInv == Spec => []IInv
<1>1. Init => IInv
  BY InitIInv
<1>2. IInv /\ [Next]_vars => IInv'
  BY NextIInv
<1> QED  BY <1>1, <1>2, PTL DEF Spec

\* Every table, session and request holds values of its kind.
THEOREM CredentialManagerTypeOK == Spec => []TypeOK
<1>1. IInv => TypeOK
  BY DEF IInv
<1> QED  BY <1>1, CredentialManagerIInv, PTL

\* A challenge is accepted at most once, however the requests interleave and
\* whatever is delivered twice.
THEOREM CredentialManagerChallengeAcceptedOnce == Spec => []ChallengeAcceptedOnce
<1>1. IInv => ChallengeAcceptedOnce
  BY DEF IInv
<1> QED  BY <1>1, CredentialManagerIInv, PTL

\* Nothing is accepted for a credential after its removal, and it does not come back.
THEOREM CredentialManagerRemovedStaysRemoved == Spec => []RemovedStaysRemoved
<1>1. IInv => RemovedStaysRemoved
  BY DEF IInv
<1> QED  BY <1>1, CredentialManagerIInv, PTL

\* A browser whose sid is signed in is the one whose sign-in minted it.
THEOREM CredentialManagerOnlyItsBrowserIsSignedIn == Spec => []OnlyItsBrowserIsSignedIn
<1>1. ASSUME IInv PROVE OnlyItsBrowserIsSignedIn
  <2>1. CookiesOK /\ DrawnOK
    BY <1>1, WebParts
  <2>2. ASSUME NEW b \in Browsers, cookies[b] # None
        PROVE  cookies[b] \in Sids /\ b \in Carriers(cookies[b])
    <3>1. cookies[b] \in 1..drawn.sid
      BY <2>1, <2>2 DEF CookiesOK
    <3>2. 1..drawn.sid \subseteq Sids
      BY <2>1, SidsAreSessions
    <3> QED  BY <3>1, <3>2 DEF Carriers
  <2>3. ASSUME NEW b \in Browsers, SignedIn(cookies[b]) PROVE minted[cookies[b]] = b
    <3>1. cookies[b] # None
      BY <2>3 DEF SignedIn
    <3> QED  BY <1>1, <2>2, <2>3, <3>1 DEF IInv, SidsCarriedByTheirBrowser
  <2> QED  BY <2>3 DEF OnlyItsBrowserIsSignedIn
<1> QED  BY <1>1, CredentialManagerIInv, PTL

\* A removal leaves a credential, because another one has another id.
LEMMA DeleteLeavesOne ==
    ASSUME IInv, NEW t \in Tabs, DeleteCredentialUser(t), user.credentials # <<>>
    PROVE  user'.credentials # <<>>
<1>1. PICK target, seq, kept :
         /\ target = tabs[t].data.target /\ seq = user.credentials /\ kept = retain(seq, target)
  OBVIOUS
<1>2. /\ seq \in Seq(PasskeyCredentials) /\ DOMAIN user = {"handle", "credentials"}
      /\ \A i, j \in DOMAIN seq : seq[i].id = seq[j].id => i = j
  BY <1>1 DEF IInv, TypeOK, UserOK, StoredOnce
<1>3. CASE Len(seq) > 1 /\ user' = [user EXCEPT !.credentials = kept]
  <2>1. 1 \in DOMAIN seq /\ 2 \in DOMAIN seq
    BY <1>2, <1>3
  <2>2. PICK i \in DOMAIN seq : seq[i].id # target
    BY <1>2, <2>1
  <2>3. \E n \in DOMAIN kept : kept[n] = seq[i]
    BY <1>1, <1>2, <2>2, RetainIs
  <2>4. user'.credentials = kept
    BY <1>2, <1>3
  <2> QED  BY <2>3, <2>4
<1>4. CASE UNCHANGED user
  BY <1>4
<1> QED  BY <1>1, <1>3, <1>4 DEF DeleteCredentialUser

\* No step takes a user's last credential.
LEMMA KeepsACredential ==
    ASSUME IInv, [Next]_vars, user.credentials # <<>>
    PROVE  user'.credentials # <<>>
<1>1. UserOK
  BY DEF IInv, TypeOK
<1>2. CASE UNCHANGED user
  BY <1>2
<1>3. ASSUME NEW t \in Tabs, NEW section, NEW kind, Push(t, section, kind), user' # user
      PROVE  user'.credentials # <<>>
  <2>1. PICK seq : seq = user.credentials
    OBVIOUS
  <2>2. seq \in Seq(PasskeyCredentials)
    BY <1>1, <2>1 DEF UserOK
  <2>3. \E new : user' = [user EXCEPT !.credentials = Append(seq, new)]
    BY <1>3, <2>1 DEF Push
  <2>4. PICK new : user'.credentials = Append(seq, new)
    BY <1>1, <2>3 DEF UserOK
  <2> QED  BY <2>2, <2>4
<1>4. ASSUME NEW t \in Tabs, AuthenticateFinishVerify(t), user' # user
      PROVE  user'.credentials # <<>>
  <2>1. PICK i, count : user' = [user EXCEPT !.credentials[i].counter = count]
    BY <1>4 DEF AuthenticateFinishVerify
  <2>2. PICK new : user' = [user EXCEPT !.credentials = [user.credentials EXCEPT ![i] = new]]
    BY <2>1
  <2>3. user'.credentials = [user.credentials EXCEPT ![i] = new]
    BY <1>1, <2>2 DEF UserOK
  <2>4. DOMAIN user'.credentials = DOMAIN user.credentials /\ DOMAIN user.credentials # {}
    BY <1>1, <2>3 DEF UserOK
  <2> QED  BY <2>4
<1>5. ASSUME NEW t \in Tabs, RegisterStartHandle(t) PROVE user'.credentials # <<>>
  BY <1>1, <1>5 DEF RegisterStartHandle, UserOK
<1>6. ASSUME NEW t \in Tabs, Handler(t), user' # user PROVE user'.credentials # <<>>
  BY <1>3, <1>4, <1>5, <1>6, DeleteLeavesOne
     DEF Handler, RegisterStart, RegisterStartSave, RegisterFinish, RegisterFinishPush,
         AuthenticateStart, AuthenticateStartSave, AuthenticateFinish, AuthenticateFinishRotate,
         AddCredentialStart, AddCredentialStartUser, AddCredentialStartSave, AddCredentialFinish,
         AddCredentialFinishTake, AddCredentialFinishPush, DeleteCredential, RequireSignedIn,
         Take, SaveAndReply
<1>7. ASSUME NEW t \in Tabs, Page(t) PROVE UNCHANGED user
  BY <1>7 DEF Page
<1>8. UNCHANGED vars => UNCHANGED user
  BY DEF vars
<1> QED  BY <1>2, <1>6, <1>7, <1>8 DEF Next

\* A user who has a credential is never left without one.
THEOREM CredentialManagerNeverLockedOut == Spec => NeverLockedOut
<1>1. IInv /\ [Next]_vars => [user.credentials # <<>> => user'.credentials # <<>>]_vars
  BY KeepsACredential
<1> QED  BY <1>1, CredentialManagerIInv, PTL DEF Spec, NeverLockedOut

-----------------------------------------------------------------------------
(* The registry of the user's credentials.                                    *)

\* The table of the model's mapping.
Listing(seq) ==
    [id \in Ids |->
        IF id \notin {seq[i].id : i \in DOMAIN seq} THEN None
        ELSE LET i == CHOOSE i \in DOMAIN seq : seq[i].id = id
             IN  [owner |-> "alice", count |-> seq[i].counter]]

\* What the registry calls an event, and the history that the log is.
Kind(kind) == CASE kind = "get" -> "get" [] kind = "delete" -> "remove" [] OTHER -> "create"
History(l) ==
    [n \in DOMAIN l |->
        [kind |-> CASE l[n].kind = "get" -> "get"
                    [] l[n].kind = "delete" -> "remove"
                    [] OTHER -> "create",
         id |-> l[n].id, owner |-> "alice", count |-> l[n].count]]

\* The mapping finds what TableOf finds.
LEMMA ListingIsTable ==
    ASSUME NEW seq \in Seq(PasskeyCredentials), Unique(seq)
    PROVE  Listing(seq) = TableOf(seq)
<1>1. ASSUME NEW id \in Ids PROVE Listing(seq)[id] = TableOf(seq)[id]
  <2>1. CASE id \in {seq[i].id : i \in DOMAIN seq}
    <3>1. PICK i \in DOMAIN seq : seq[i].id = id
      BY <2>1
    <3>2. (CHOOSE j \in DOMAIN seq : seq[j].id = id) = i
      BY <3>1 DEF Unique
    <3>3. Listing(seq)[id] = [owner |-> "alice", count |-> seq[i].counter]
      BY <2>1, <3>2 DEF Listing
    <3>4. Listed(seq, id, seq[i].counter)
      BY <3>1 DEF Listed
    <3> QED  BY <3>3, <3>4, ListedIsRegistered
  <2>2. CASE id \notin {seq[i].id : i \in DOMAIN seq}
    <3>1. Listing(seq)[id] = None
      BY <2>2 DEF Listing
    <3>2. \A n : ~Listed(seq, id, n)
      BY <2>2 DEF Listed
    <3> QED  BY <3>1, <3>2, UnlistedIsAbsent
  <2> QED  BY <2>1, <2>2
<1>2. /\ Listing(seq) = [id \in Ids |-> Listing(seq)[id]]
      /\ TableOf(seq) = [id \in Ids |-> TableOf(seq)[id]]
  BY DEF Listing, TableOf
<1> HIDE DEF Listing, TableOf
<1> QED  BY <1>1, <1>2

\* One more event is one more entry of the history.
LEMMA HistoryAppends ==
    ASSUME NEW S, NEW l \in Seq(S), NEW e
    PROVE  /\ History(Append(l, e))
                 = Append(History(l), [kind |-> Kind(e.kind), id |-> e.id, owner |-> "alice",
                                       count |-> e.count])
           /\ History(Append(l, e)) # History(l)
<1> DEFINE Seen(x) == [kind |-> Kind(x.kind), id |-> x.id, owner |-> "alice", count |-> x.count]
<1>1. PICK longer : longer = Append(l, e)
  OBVIOUS
<1>2. /\ DOMAIN longer = 1..Len(l) + 1 /\ DOMAIN l = 1..Len(l) /\ Len(l) \in Nat
      /\ longer[Len(l) + 1] = e
      /\ \A i \in 1..Len(l) : longer[i] = l[i]
  BY <1>1
<1>3. PICK R : R = {Seen(l[i]) : i \in 1..Len(l)}
  OBVIOUS
<1>4. /\ History(l) = [n \in 1..Len(l) |-> Seen(l[n])]
      /\ History(longer) = [n \in 1..Len(l) + 1 |-> Seen(longer[n])]
  BY <1>2 DEF History, Kind
<1> HIDE DEF Seen
<1>5. History(l) \in Seq(R) /\ Len(History(l)) = Len(l)
  <2>1. History(l) \in [1..Len(l) -> R]
    BY <1>3, <1>4
  <2> QED  BY <1>2, <2>1
<1>6. PICK h : h = Append(History(l), Seen(e))
  OBVIOUS
<1>7. /\ DOMAIN h = 1..Len(l) + 1
      /\ h[Len(l) + 1] = Seen(e)
      /\ \A i \in 1..Len(l) : h[i] = Seen(l[i])
      /\ h = [n \in DOMAIN h |-> h[n]]
  BY <1>2, <1>4, <1>5, <1>6
<1>8. History(longer) = h
  BY <1>2, <1>4, <1>7
<1>9. History(longer) # History(l)
  <2>1. DOMAIN History(longer) = 1..Len(l) + 1 /\ DOMAIN History(l) = 1..Len(l)
    BY <1>4
  <2>2. Len(l) + 1 \in 1..Len(l) + 1 /\ Len(l) + 1 \notin 1..Len(l)
    BY <1>2
  <2> QED  BY <2>1, <2>2
<1> QED  BY <1>1, <1>6, <1>8, <1>9 DEF Seen

\* Whatever credential the log tells of was created for a challenge that is spent.
LoggedOnce == \A n \in DOMAIN log : log[n].id[2] \in Accepted

\* What leaves the credentials and the log alone cannot be seen.
LEMMA QuietRefines ==
    ASSUME LoggedOnce, user'.credentials = user.credentials, UNCHANGED log
    PROVE  LoggedOnce' /\ UNCHANGED Registry!vars
<1>1. Accepted' = Accepted /\ CredentialIds' = CredentialIds
  BY DEF Accepted, CredentialIds
<1>2. LoggedOnce'
  BY <1>1 DEF LoggedOnce
<1>3. UNCHANGED Registry!vars
  BY <1>1 DEF Registry!vars
<1> QED  BY <1>2, <1>3

\* The log and the history, after an event.
LEMMA LogRefines ==
    ASSUME IInv, LoggedOnce, NEW e \in Answered \cup Removals, log' = Append(log, e),
           e.id[2] \in Accepted \cup {e.challenge}
    PROVE  /\ LoggedOnce'
           /\ History(log') = Append(History(log), [kind |-> Kind(e.kind), id |-> e.id,
                                                    owner |-> "alice", count |-> e.count])
           /\ History(log') # History(log)
<1>1. log \in Seq(Answered \cup Removals)
  BY DEF IInv, TypeOK
<1>2. PICK last : last = Len(log) + 1
  OBVIOUS
<1>3. /\ DOMAIN log' = DOMAIN log \cup {last}
      /\ \A n \in DOMAIN log : log'[n] = log[n]
      /\ log'[last] = e
  BY <1>1, <1>2, LogAppends
<1>4. Accepted' = Accepted \cup {e.challenge}
  BY <1>3 DEF Accepted
<1>5. LoggedOnce'
  BY <1>3, <1>4 DEF LoggedOnce
<1> QED  BY <1>1, <1>5, HistoryAppends

\* The credentials, as the lemmas of WebSessionProofs want them.
LEMMA CredentialsParts ==
    ASSUME IInv
    PROVE  /\ user.credentials \in Seq(PasskeyCredentials) /\ Unique(user.credentials)
           /\ DOMAIN user = {"handle", "credentials"}
           /\ Listing(user.credentials) = TableOf(user.credentials)
<1>1. /\ user.credentials \in Seq(PasskeyCredentials) /\ Unique(user.credentials)
      /\ DOMAIN user = {"handle", "credentials"}
  BY DEF IInv, TypeOK, UserOK, StoredOnce, Unique
<1> QED  BY <1>1, ListingIsTable

\* Both registrations register an id that was never registered, or change nothing.
LEMMA PushRefines ==
    ASSUME IInv, IInv', LoggedOnce, NEW t \in Tabs, NEW section, NEW kind \in {"create", "add"},
           section \in {"register_finish.push", "add_credential_finish.push"},
           Push(t, section, kind)
    PROVE  LoggedOnce' /\ [Registry!Next]_Registry!vars
<1>1. PICK a, state, seq :
         /\ a = tabs[t].data.answer /\ state = tabs[t].data.state
         /\ seq = user.credentials
  OBVIOUS
<1>2. tabs[t].at = section
  BY DEF Push
<1>3. CASE finish_registration(Wa, state, RegistrationOf(Wa, a), Now) = Ok
  <2>1. PICK passkey, e :
           /\ passkey = [id |-> a.id, counter |-> 0, public_key_cose |-> cose_pubkey(a.id)]
           /\ e = Event(kind, a.id, a.challenge, 0)
    OBVIOUS
  <2>2. Registers(a) /\ RegistrationOK(state, drawn.handle, drawn.challenge) /\ DrawnOK
    BY <1>1, <1>2, WebParts DEF IInv, TypeOK, PlaceOK, TabsOK, RequestOK
  <2>3. /\ a.id \in Ids /\ a.challenge \in 1..MaxChallenges /\ a.id[2] = a.challenge
    BY <2>2, RegistersInRange DEF Registers, Ids
  <2>4. /\ passkey \in PasskeyCredentials /\ passkey.id = a.id /\ passkey.counter = 0
        /\ e \in Answered /\ e \in Answered \cup Removals
        /\ e.kind = kind /\ e.id = a.id /\ e.challenge = a.challenge /\ e.count = 0
    BY <2>1, <2>3, WebAssumption DEF PasskeyCredentials, Answered, Event, Ids
  <2>5. user' = [user EXCEPT !.credentials = Append(seq, passkey)] /\ log' = Append(log, e)
    <3> DEFINE new == NewCredential(RegistrationOf(Wa, a))
    <3>1. /\ user' = [user EXCEPT !.credentials =
                         Append(seq, [id |-> new.id, counter |-> new.counter,
                                      public_key_cose |-> new.public_key_cose])]
          /\ log' = Append(log, Event(kind, new.id, a.challenge, new.counter))
      BY <1>1, <1>3 DEF Push
    <3>2. /\ new.id = a.id /\ new.counter = 0
          /\ new.public_key_cose = cose_pubkey(a.id)
      BY RegistrationIs
    <3> QED  BY <2>1, <3>1, <3>2
  <2>6. user'.credentials = Append(seq, passkey)
    BY <2>5, CredentialsParts
  <2>7. a.challenge \notin Accepted
    <3>1. a.challenge = state.challenge
      BY <1>3, RegistersItsChallenge
    <3>2. ChallengeOf(tabs[t].data.state) = a.challenge /\ tabs[t].at \in Holding
      BY <1>1, <1>2, <2>2, <3>1 DEF ChallengeOf, RegistrationOK, Holding
    <3> QED  BY <2>3, <3>2, HeldIsUnspent
  <2>8. \A i \in DOMAIN seq : seq[i].id # passkey.id
    <3>1. \A i \in DOMAIN seq : seq[i].id[2] \in Accepted
      BY <1>1 DEF IInv, StoredOnce, CredentialIds
    <3> QED  BY <2>3, <2>4, <2>7, <3>1
  <2>9. PICK longer : longer = Append(seq, passkey)
    OBVIOUS
  <2>10. /\ TableOf(seq)[a.id] = None
         /\ TableOf(longer) = [TableOf(seq) EXCEPT ![a.id] = [owner |-> "alice", count |-> 0]]
    <3>1. seq \in Seq(PasskeyCredentials) /\ Unique(seq)
      BY <1>1, CredentialsParts
    <3> QED  BY <2>4, <2>8, <2>9, <3>1, TableAppends
  <2>11. Listing(user.credentials) = TableOf(seq) /\ Listing(user'.credentials) = TableOf(longer)
    <3>1. Listing(user.credentials) = TableOf(user.credentials)
      BY CredentialsParts
    <3>2. user'.credentials \in Seq(PasskeyCredentials) /\ Unique(user'.credentials)
      BY DEF IInv, TypeOK, UserOK, StoredOnce, Unique
    <3>3. Listing(user'.credentials) = TableOf(user'.credentials)
      BY <3>2, ListingIsTable
    <3> QED  BY <1>1, <2>6, <2>9, <3>1, <3>3
  <2>12. /\ LoggedOnce'
         /\ History(log') = Append(History(log), [kind |-> Kind(kind), id |-> a.id,
                                                  owner |-> "alice", count |-> 0])
         /\ History(log') # History(log)
    BY <2>3, <2>4, <2>5, LogRefines
  <2>13. Kind(kind) = "create"
    BY DEF Kind
  <2>14. \A n \in DOMAIN History(log) : History(log)[n].id # a.id
    BY <2>3, <2>7 DEF History, LoggedOnce
  <2>15. Registry!Register(a.id, "alice", 0)
    <3>1. /\ History(log') = Append(History(log), [kind |-> "create", id |-> a.id,
                                                   owner |-> "alice", count |-> 0])
          /\ Listing(user.credentials)[a.id] = None
          /\ Listing(user'.credentials) = [Listing(user.credentials) EXCEPT ![a.id] =
                                              [owner |-> "alice", count |-> 0]]
      BY <2>10, <2>11, <2>12, <2>13
    <3> QED  BY <2>14, <3>1
             DEF Registry!Register, Registry!Accept, Listing, CredentialIds, Ids, History
  <2>16. Registry!Next
    <3>1. a.id \in Devices \X (1..MaxChallenges) /\ 0 \in 0..MaxChallenges
      BY <2>3, WebAssumption DEF Ids
    <3>2. \E id \in Devices \X (1..MaxChallenges), n \in 0..MaxChallenges, owner \in {"alice"} :
             Registry!Register(id, owner, n)
      BY <2>15, <3>1
    <3> QED  BY <2>12, <3>2 DEF Registry!Next, History
  <2> QED  BY <2>12, <2>16
<1>4. CASE finish_registration(Wa, state, RegistrationOf(Wa, a), Now) # Ok
  <2>1. UNCHANGED <<user, log>>
    BY <1>1, <1>4 DEF Push
  <2> QED  BY <2>1, QuietRefines
<1> QED  BY <1>3, <1>4

\* authenticate_finish signs the user in with a greater count, or changes nothing.
LEMMA VerifyRefines ==
    ASSUME IInv, IInv', LoggedOnce, NEW t \in Tabs, AuthenticateFinishVerify(t)
    PROVE  LoggedOnce' /\ [Registry!Next]_Registry!vars
<1>1. PICK a, state, seq, i :
         /\ a = tabs[t].data.answer /\ state = tabs[t].data.state
         /\ seq = user.credentials /\ i = Find(seq, a.id)
  OBVIOUS
<1>2. tabs[t].at = "authenticate_finish.verify"
  BY DEF AuthenticateFinishVerify
<1>3. ASSUME i # 0, finish_authentication(Wa, state, AssertionOf(Wa, a), seq[i], Now) = Ok,
             user' = [user EXCEPT !.credentials[i].counter =
                         AssertionOf(Wa, a).authenticator_data.value.sign_count],
             log' = Append(log, Event("get", a.id, a.challenge, a.count))
      PROVE  LoggedOnce' /\ [Registry!Next]_Registry!vars
  <2>1. SignsIn(a) /\ DrawnOK
    BY <1>1, <1>2, WebParts DEF IInv, TypeOK, TabsOK, RequestOK
  <2>2. /\ a.id \in Ids /\ a.challenge \in 1..MaxChallenges
        /\ a.count \in 0..MaxChallenges /\ a.count \in Nat \ {0}
    BY <2>1, SignsInInRange, WebAssumption DEF Ids
  <2>3. seq \in Seq(PasskeyCredentials) /\ Unique(seq)
    BY <1>1, CredentialsParts
  <2>4. i \in DOMAIN seq /\ seq[i].id = a.id
    BY <1>1, <1>3, <2>3, FoundById
  <2>5. PICK old : old = seq[i].counter
    OBVIOUS
  <2>6. old < a.count
    <3>1. seq[i] \in PasskeyCredentials
      BY <2>3, <2>4
    <3>2. old \in Nat
      BY <2>5, <3>1 DEF PasskeyCredentials
    <3> QED  BY <1>3, <2>2, <2>5, <3>2, SignsInItsChallenge
  <2>7. PICK new : new = [seq EXCEPT ![i].counter = a.count]
    OBVIOUS
  <2>8. user'.credentials = new
    <3>1. AssertionOf(Wa, a).authenticator_data.value.sign_count = a.count
      BY AssertionIs
    <3>2. PICK passkey : passkey = [seq[i] EXCEPT !.counter = a.count]
      OBVIOUS
    <3>3. new = [seq EXCEPT ![i] = passkey]
      BY <2>7, <3>2
    <3>4. user' = [user EXCEPT !.credentials = new]
      BY <1>1, <1>3, <3>1, <3>2, <3>3
    <3> QED  BY <3>4, CredentialsParts
  <2>9. /\ TableOf(seq)[a.id] = [owner |-> "alice", count |-> old]
        /\ TableOf(new) = [TableOf(seq) EXCEPT ![a.id] = [owner |-> "alice", count |-> a.count]]
    <3>1. PICK n \in 0..MaxChallenges : n = a.count
      BY <2>2
    <3>2. LET made == [seq EXCEPT ![i].counter = n]
              id   == seq[i].id
          IN  /\ made \in Seq(PasskeyCredentials) /\ Unique(made) /\ DOMAIN made = DOMAIN seq
              /\ \A j \in DOMAIN seq : made[j].id = seq[j].id
              /\ id \in Ids
              /\ TableOf(seq)[id] = [owner |-> "alice", count |-> seq[i].counter]
              /\ TableOf(made) = [TableOf(seq) EXCEPT ![id] = [owner |-> "alice", count |-> n]]
      BY <2>3, <2>4, TableCounts
    <3> QED  BY <2>4, <2>5, <2>7, <3>1, <3>2
  <2>10. PICK e : e = Event("get", a.id, a.challenge, a.count)
    OBVIOUS
  <2>11. /\ e.kind = "get" /\ e.id = a.id /\ e.challenge = a.challenge /\ e.count = a.count
         /\ e \in Answered \cup Removals /\ log' = Append(log, e)
    BY <1>3, <2>2, <2>10 DEF Event, Answered, Ids
  <2>12. /\ LoggedOnce'
         /\ History(log') = Append(History(log), [kind |-> Kind("get"), id |-> a.id,
                                                  owner |-> "alice", count |-> a.count])
         /\ History(log') # History(log)
    <3>1. e.id[2] \in Accepted
      BY <1>1, <2>4, <2>11 DEF IInv, StoredOnce, CredentialIds
    <3> QED  BY <2>11, <3>1, LogRefines
  <2>13. Listing(user.credentials) = TableOf(seq) /\ Listing(user'.credentials) = TableOf(new)
    <3>1. Listing(user.credentials) = TableOf(user.credentials)
      BY CredentialsParts
    <3>2. user'.credentials \in Seq(PasskeyCredentials) /\ Unique(user'.credentials)
      BY DEF IInv, TypeOK, UserOK, StoredOnce, Unique
    <3>3. Listing(user'.credentials) = TableOf(user'.credentials)
      BY <3>2, ListingIsTable
    <3> QED  BY <1>1, <2>8, <3>1, <3>3
  <2>14. /\ Listing(user.credentials)[a.id].count = old
         /\ Listing(user.credentials)[a.id]
               = [owner |-> "alice", count |-> Listing(user.credentials)[a.id].count]
    BY <2>9, <2>13
  <2>15. Listing(user'.credentials) = [Listing(user.credentials) EXCEPT ![a.id].count = a.count]
    <3>1. [TableOf(seq)[a.id] EXCEPT !.count = a.count] = [owner |-> "alice", count |-> a.count]
      BY <2>9
    <3>2. [TableOf(seq) EXCEPT ![a.id].count = a.count]
             = [TableOf(seq) EXCEPT ![a.id] = [TableOf(seq)[a.id] EXCEPT !.count = a.count]]
      OBVIOUS
    <3> QED  BY <2>9, <2>13, <3>1, <3>2
  <2>16. Registry!Accept("get", a.id, "alice", a.count)
    <3>1. Kind("get") = "get"
      BY DEF Kind
    <3> QED  BY <2>12, <3>1 DEF Registry!Accept, History
  <2>17. Registry!SignIn(a.id, a.count)
    BY <2>6, <2>14, <2>15, <2>16 DEF Registry!SignIn, Listing, CredentialIds, Ids
  <2>18. Registry!Next
    BY <2>2, <2>12, <2>17 DEF Registry!Next, History, Ids
  <2> QED  BY <2>12, <2>18
<1>4. ASSUME UNCHANGED <<user, log>> PROVE LoggedOnce' /\ [Registry!Next]_Registry!vars
  BY <1>4, QuietRefines
<1> QED  BY <1>1, <1>3, <1>4 DEF AuthenticateFinishVerify

\* delete_credential removes the credential from the registry, or changes nothing.
LEMMA DeleteRefines ==
    ASSUME IInv, IInv', LoggedOnce, NEW t \in Tabs, DeleteCredentialUser(t)
    PROVE  LoggedOnce' /\ [Registry!Next]_Registry!vars
<1>1. PICK target, seq, kept, e :
         /\ target = tabs[t].data.target /\ seq = user.credentials
         /\ kept = retain(seq, target) /\ e = Event("delete", target, 0, 0)
  OBVIOUS
<1>2. seq \in Seq(PasskeyCredentials) /\ Unique(seq)
  BY <1>1, CredentialsParts
<1>3. ASSUME target \in CredentialIds, user' = [user EXCEPT !.credentials = kept],
             log' = Append(log, e)
      PROVE  LoggedOnce' /\ [Registry!Next]_Registry!vars
  <2>1. PICK i \in DOMAIN seq : seq[i].id = target
    BY <1>1, <1>3 DEF CredentialIds
  <2>2. PICK n : n = seq[i].counter
    OBVIOUS
  <2>3. target \in Ids /\ n \in 0..MaxChallenges
    <3>1. seq[i] \in PasskeyCredentials
      BY <1>2
    <3> QED  BY <2>1, <2>2, <3>1 DEF PasskeyCredentials, Ids
  <2>4. TableOf(seq)[target] = [owner |-> "alice", count |-> n]
    <3>1. Listed(seq, target, n)
      BY <2>1, <2>2 DEF Listed
    <3> QED  BY <1>2, <2>3, <3>1, ListedIsRegistered
  <2>5. user'.credentials = kept
    BY <1>3, CredentialsParts
  <2>6. kept \in Seq(PasskeyCredentials) /\ Unique(kept)
    <3>1. user'.credentials \in Seq(PasskeyCredentials) /\ Unique(user'.credentials)
      BY DEF IInv, TypeOK, UserOK, StoredOnce, Unique
    <3> QED  BY <2>5, <3>1
  <2>7. /\ \A m \in DOMAIN kept : \E j \in DOMAIN seq : kept[m] = seq[j] /\ seq[j].id # target
        /\ \A j \in DOMAIN seq : seq[j].id # target => \E m \in DOMAIN kept : kept[m] = seq[j]
    <3>1. LET k == retain(seq, target) IN
          /\ \A m \in DOMAIN k : \E j \in DOMAIN seq : k[m] = seq[j] /\ seq[j].id # target
          /\ \A j \in DOMAIN seq : seq[j].id # target => \E m \in DOMAIN k : k[m] = seq[j]
      BY <1>2, RetainIs
    <3> QED  BY <1>1, <3>1
  <2>8. TableOf(kept) = [TableOf(seq) EXCEPT ![target] = None]
    <3>1. \A c : ~Listed(kept, target, c)
      BY <2>7 DEF Listed
    <3>2. \A x \in Ids \ {target} : \A c : Listed(seq, x, c) <=> Listed(kept, x, c)
      BY <2>7 DEF Listed
    <3> QED  BY <1>2, <2>3, <2>6, <3>1, <3>2, TableRemoves
  <2>9. Listing(user.credentials) = TableOf(seq) /\ Listing(user'.credentials) = TableOf(kept)
    <3>1. Listing(user.credentials) = TableOf(user.credentials)
      BY CredentialsParts
    <3>2. Listing(kept) = TableOf(kept)
      BY <2>6, ListingIsTable
    <3> QED  BY <1>1, <2>5, <3>1, <3>2
  <2>10. /\ e.kind = "delete" /\ e.id = target /\ e.count = 0 /\ e.challenge = 0
         /\ e \in Answered \cup Removals
    BY <1>1, <2>3 DEF Event, Removals, Ids
  <2>11. /\ LoggedOnce'
         /\ History(log') = Append(History(log), [kind |-> Kind("delete"), id |-> target,
                                                  owner |-> "alice", count |-> 0])
         /\ History(log') # History(log)
    <3>1. e.id[2] \in Accepted
      BY <1>3, <2>10 DEF IInv, StoredOnce
    <3> QED  BY <1>3, <2>10, <3>1, LogRefines
  <2>12. Registry!Accept("remove", target, "alice", 0)
    <3>1. Kind("delete") = "remove"
      BY DEF Kind
    <3> QED  BY <2>11, <3>1 DEF Registry!Accept, History
  <2>13. /\ Listing(user.credentials)[target] = [owner |-> "alice", count |-> n]
         /\ Listing(user'.credentials) = [Listing(user.credentials) EXCEPT ![target] = None]
    BY <2>4, <2>8, <2>9
  <2>14. Registry!Remove(target)
    BY <2>3, <2>12, <2>13 DEF Registry!Remove, Listing, CredentialIds, Ids
  <2>15. Registry!Next
    BY <2>3, <2>11, <2>14 DEF Registry!Next, History, Ids
  <2> QED  BY <2>11, <2>15
<1>4. ASSUME UNCHANGED <<user, log>> PROVE LoggedOnce' /\ [Registry!Next]_Registry!vars
  BY <1>4, QuietRefines
<1> QED  BY <1>1, <1>3, <1>4 DEF DeleteCredentialUser

\* The empty registry, and no history.
LEMMA InitRefines == ASSUME Init PROVE LoggedOnce /\ Registry!Init
<1>1. user.credentials = <<>> /\ log = <<>>
  BY DEF Init
<1>2. LoggedOnce
  BY <1>1 DEF LoggedOnce
<1>3. CredentialIds = {}
  BY <1>1 DEF CredentialIds
<1>4. History(log) = <<>>
  BY <1>1 DEF History
<1>5. Registry!Init
  BY <1>3, <1>4 DEF Registry!Init, Registry!Empty, History
<1> QED  BY <1>2, <1>5

\* Every step is one of the registry, or changes nothing that can be seen.
LEMMA NextRefines ==
    ASSUME IInv, IInv', LoggedOnce, [Next]_vars
    PROVE  LoggedOnce' /\ [Registry!Next]_Registry!vars
<1>1. ASSUME user'.credentials = user.credentials, UNCHANGED log
      PROVE  LoggedOnce' /\ [Registry!Next]_Registry!vars
  BY <1>1, QuietRefines
<1>2. ASSUME NEW t \in Tabs, Page(t) PROVE LoggedOnce' /\ [Registry!Next]_Registry!vars
  BY <1>1, <1>2 DEF Page
<1>3. ASSUME NEW t \in Tabs, Handler(t) PROVE LoggedOnce' /\ [Registry!Next]_Registry!vars
  <2>1. CASE RegisterStartHandle(t)
    BY <1>1, <2>1, CredentialsParts DEF RegisterStartHandle
  <2>2. CASE RegisterFinishPush(t) \/ AddCredentialFinishPush(t)
    BY <2>2, PushRefines DEF RegisterFinishPush, AddCredentialFinishPush
  <2>3. CASE AuthenticateFinishVerify(t)
    BY <2>3, VerifyRefines
  <2>4. CASE DeleteCredentialUser(t)
    BY <2>4, DeleteRefines
  <2>5. CASE UNCHANGED <<user, log>>
    BY <1>1, <2>5
  <2> QED
    BY <1>3, <2>1, <2>2, <2>3, <2>4, <2>5
       DEF Handler, RegisterStart, RegisterStartSave, RegisterFinish, AuthenticateStart,
           AuthenticateStartSave, AuthenticateFinish, AuthenticateFinishRotate,
           AddCredentialStart, AddCredentialStartUser, AddCredentialStartSave,
           AddCredentialFinish, AddCredentialFinishTake, DeleteCredential, RequireSignedIn,
           Take, SaveAndReply
<1>4. CASE UNCHANGED vars
  BY <1>1, <1>4 DEF vars
<1> QED  BY <1>2, <1>3, <1>4 DEF Next

\* The server is a registry of its user's credentials: however sign-ins, additions
\* and removals run side by side, an id is registered once, signs in with ever
\* greater counts, and is gone once it is removed.
THEOREM CredentialManagerImplementsRegistry == Spec => ImplementsRegistry
<1>1. Init => LoggedOnce /\ Registry!Init
  BY InitRefines
<1>2. IInv /\ IInv' /\ LoggedOnce /\ [Next]_vars => LoggedOnce' /\ [Registry!Next]_Registry!vars
  BY NextRefines
<1> QED  BY <1>1, <1>2, CredentialManagerIInv, PTL DEF Spec, ImplementsRegistry, Registry!Spec
=============================================================================
