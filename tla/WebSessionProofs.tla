-------------------------- MODULE WebSessionProofs ---------------------------
(***************************************************************************)
(* Lemmas about the sessions, requests and authenticators that the example  *)
(* servers have in common: what each operation of WebSession does to them,  *)
(* that they stay well-formed, and that the state of a ceremony is in one   *)
(* place at most.                                                           *)
(***************************************************************************)
EXTENDS WebSession, WebauthnProofs, FiniteSetTheorems, SequenceTheorems

-----------------------------------------------------------------------------
(* The first element of a sequence that has some id. *)

\* A set of natural numbers that is not empty has a least element.
LEMMA MinExists ==
    ASSUME NEW I \in SUBSET Nat, I # {}
    PROVE  \E x \in I : \A y \in I : x <= y
<1> DEFINE R == OpToRel(<, Nat)
<1>1. \A x, y \in Nat : x < y => <<x, y>> \in R
  BY DEF OpToRel
<1>2. IsWellFoundedOn(R, Nat)
  BY NatLessThanWellFounded
<1> HIDE DEF R
<1>3. PICK x \in I : \A y \in I : ~ (<<y, x>> \in R)
  BY <1>2, WFMin
<1>4. \A y \in I : ~ (y < x)
  BY <1>1, <1>3
<1> QED  BY <1>4

\* `iter().find(|c| c.id == id)`: an index of an element with that id, or 0.
LEMMA FoundById ==
    ASSUME NEW S, NEW seq \in Seq(S), NEW id
    PROVE  LET i == Find(seq, id) IN
           \/ i \in DOMAIN seq /\ seq[i].id = id
           \/ i = 0 /\ \A j \in DOMAIN seq : seq[j].id # id
<1> DEFINE I == {j \in 1..Len(seq) : seq[j].id = id}
           i == Find(seq, id)
<1>1. i = IF I # {} THEN CHOOSE x \in I : \A y \in I : x <= y ELSE 0
  BY DEF Find, SelectInSeq, Min
<1>2. I \in SUBSET Nat /\ DOMAIN seq = 1..Len(seq)
  OBVIOUS
<1> HIDE DEF i
<1>3. CASE I # {}
  <2>1. \E x \in I : \A y \in I : x <= y
    BY <1>2, <1>3, MinExists
  <2>2. i = CHOOSE x \in I : \A y \in I : x <= y
    BY <1>1, <1>3
  <2>3. i \in I
    BY <2>1, <2>2
  <2> QED  BY <1>2, <2>3 DEF i
<1>4. CASE I = {}
  BY <1>1, <1>2, <1>4 DEF i
<1> QED  BY <1>3, <1>4

-----------------------------------------------------------------------------
(* A tab moves. *)

\* Tab t, and no other, goes to a place.
Moves(t, place, sid, data) ==
    /\ DOMAIN tabs' = Tabs
    /\ \A u \in Tabs : DOMAIN tabs'[u] = {"browser", "at", "sid", "data"}
    /\ \A u \in Tabs \ {t} : tabs'[u] = tabs[u]
    /\ tabs'[t].browser = tabs[t].browser
    /\ tabs'[t].at = place
    /\ tabs'[t].sid = sid
    /\ tabs'[t].data = data

\* Show, and with it Done and Arrives, moves the tab and ends its request.
LEMMA ShowMoves ==
    ASSUME TabsOK, NEW t \in Tabs, NEW place, NEW data, Show(t, place, data)
    PROVE  Moves(t, place, None, data)
<1> DEFINE new == [tabs[t] EXCEPT !.at = place, !.sid = None, !.data = data]
<1>1. DOMAIN tabs = Tabs /\ \A u \in Tabs : DOMAIN tabs[u] = {"browser", "at", "sid", "data"}
  BY DEF TabsOK, RequestOK
<1>2. tabs' = [tabs EXCEPT ![t] = new]
  BY DEF Show
<1>3. /\ DOMAIN new = {"browser", "at", "sid", "data"}
      /\ new.browser = tabs[t].browser /\ new.at = place /\ new.sid = None /\ new.data = data
  BY <1>1
<1> HIDE DEF new
<1> QED  BY <1>1, <1>2, <1>3 DEF Moves

\* A request that is sent has the cookie of its browser.
LEMMA SendMoves ==
    ASSUME TabsOK, NEW t \in Tabs, NEW handler, NEW data, Send(t, handler, data)
    PROVE  Moves(t, handler, Cookie(t), data)
<1> DEFINE new == [tabs[t] EXCEPT !.at = handler, !.sid = Cookie(t), !.data = data]
<1>1. DOMAIN tabs = Tabs /\ \A u \in Tabs : DOMAIN tabs[u] = {"browser", "at", "sid", "data"}
  BY DEF TabsOK, RequestOK
<1>2. tabs' = [tabs EXCEPT ![t] = new]
  BY DEF Send
<1>3. /\ DOMAIN new = {"browser", "at", "sid", "data"}
      /\ new.browser = tabs[t].browser /\ new.at = handler /\ new.sid = Cookie(t)
      /\ new.data = data
  BY <1>1
<1> HIDE DEF new
<1> QED  BY <1>1, <1>2, <1>3 DEF Moves

\* A request that goes on keeps its sid.
LEMMA GoToMoves ==
    ASSUME TabsOK, NEW t \in Tabs, NEW section, NEW data, GoTo(t, section, data)
    PROVE  Moves(t, section, tabs[t].sid, data)
<1> DEFINE new == [tabs[t] EXCEPT !.at = section, !.data = data]
<1>1. DOMAIN tabs = Tabs /\ \A u \in Tabs : DOMAIN tabs[u] = {"browser", "at", "sid", "data"}
  BY DEF TabsOK, RequestOK
<1>2. tabs' = [tabs EXCEPT ![t] = new]
  BY DEF GoTo
<1>3. /\ DOMAIN new = {"browser", "at", "sid", "data"}
      /\ new.browser = tabs[t].browser /\ new.at = section /\ new.sid = tabs[t].sid
      /\ new.data = data
  BY <1>1
<1> HIDE DEF new
<1> QED  BY <1>1, <1>2, <1>3 DEF Moves

\* A request that ends moves its tab back to the page.
LEMMA DoneMoves ==
    ASSUME TabsOK, NEW t \in Tabs, Done(t)
    PROVE  Moves(t, "page", None, None)
BY ShowMoves DEF Done

-----------------------------------------------------------------------------
(* The well-formedness of what a step leaves alone, or changes in one place. *)

\* Draws are counted upwards.
DrawnGrows ==
    DrawnOK /\ DrawnOK' /\ drawn.challenge <= drawn'.challenge /\ drawn.sid <= drawn'.sid

\* A step that draws nothing.
LEMMA DrawnSame == ASSUME DrawnOK, UNCHANGED drawn PROVE DrawnGrows
BY DEF DrawnGrows, DrawnOK

\* A request that does not move stays well-formed when more is drawn.
LEMMA RequestKept ==
    ASSUME DrawnGrows, NEW u, RequestOK(u), tabs'[u] = tabs[u]
    PROVE  RequestOK(u)'
<1>1. Issued \subseteq Issued' /\ 1..drawn.sid \subseteq 1..drawn'.sid
  BY DEF DrawnGrows, DrawnOK, Issued
<1> QED
  BY <1>1 DEF RequestOK, Registers, SignsIn

\* When one tab moves, and is well-formed where it goes, all tabs are.
LEMMA TabsMove ==
    ASSUME TabsOK, DrawnGrows, NEW t \in Tabs, NEW place, NEW sid, NEW data,
           Moves(t, place, sid, data), RequestOK(t)'
    PROVE  TabsOK'
<1>1. \A u \in Tabs \ {t} : RequestOK(u)'
  BY RequestKept DEF TabsOK, Moves
<1> QED  BY <1>1 DEF TabsOK, Moves

\* Tabs that do not move stay well-formed when more is drawn.
LEMMA TabsStay ==
    ASSUME TabsOK, DrawnGrows, UNCHANGED tabs PROVE TabsOK'
BY RequestKept DEF TabsOK

\* A place where nothing is said about the data.
Free(place) ==
    place \notin {"register_start.persist", "create", "get", "register_finish",
                  "add_credential_finish", "add_credential_finish.take",
                  "register_finish.push", "add_credential_finish.push",
                  "authenticate_finish", "authenticate_finish.verify"}

\* A tab may always move to a place that says nothing about its data.
LEMMA TabsMoveFree ==
    ASSUME TabsOK, DrawnGrows, NEW t \in Tabs, NEW place, NEW sid, NEW data,
           Moves(t, place, sid, data), Free(place), sid \in 1..drawn'.sid \cup {None}
    PROVE  TabsOK'
<1>1. RequestOK(t)'
  BY DEF TabsOK, RequestOK, Moves, Free
<1> QED  BY <1>1, TabsMove

\* Sessions that do not change stay well-formed when more is drawn.
LEMMA SessionsStay ==
    ASSUME NEW default, SessionsOK(default), DrawnGrows, UNCHANGED sessions
    PROVE  SessionsOK(default)'
BY DEF SessionsOK, DrawnGrows, DrawnOK, Sids

\* Cookies that do not change stay well-formed when more is drawn.
LEMMA CookiesStay ==
    ASSUME CookiesOK, DrawnGrows, UNCHANGED cookies PROVE CookiesOK'
<1>1. 1..drawn.sid \subseteq 1..drawn'.sid
  BY DEF DrawnGrows, DrawnOK
<1> QED  BY <1>1 DEF CookiesOK

\* A reply may set a cookie to any sid that was drawn.
LEMMA CookiesArrive ==
    ASSUME CookiesOK, DrawnGrows, NEW b \in Browsers, NEW cookie \in 1..drawn'.sid \cup {None},
           cookies' = [cookies EXCEPT ![b] = cookie]
    PROVE  CookiesOK'
<1>1. 1..drawn.sid \subseteq 1..drawn'.sid
  BY DEF DrawnGrows, DrawnOK
<1> QED  BY <1>1 DEF CookiesOK

\* A sid that a handler may use: its session exists, or may be made.
LEMMA SidsAreSessions ==
    ASSUME DrawnOK PROVE 1..drawn.sid \subseteq Sids
BY WebAssumption DEF DrawnOK, Sids

\* Save adds to a session, and to no other.
LEMMA SaveIs ==
    ASSUME NEW default, NEW sid \in 1..MaxSids, NEW field \in Fields, NEW state,
           SessionsOK(default), DrawnOK, Fields \subseteq DOMAIN default,
           Save(sid, default, field, state)
    PROVE  /\ DOMAIN sessions' = Sids
           /\ \A s \in Sids \ {sid} : sessions'[s] = sessions[s]
           /\ DOMAIN sessions'[sid] = DOMAIN default
           /\ sessions'[sid][field] = state
           /\ \A f \in DOMAIN default \ {field} :
                 sessions'[sid][f] = IF sessions[sid] = None THEN default[f] ELSE sessions[sid][f]
           /\ drawn.challenge < MaxChallenges
           /\ DOMAIN drawn' = {"challenge", "handle", "sid"}
           /\ drawn'.challenge = drawn.challenge + 1
           /\ drawn'.handle = drawn.handle
           /\ drawn'.sid = IF sid > drawn.sid THEN sid ELSE drawn.sid
           /\ DrawnGrows
<1> DEFINE session == IF sessions[sid] = None THEN default ELSE sessions[sid]
<1>1. sessions' = [sessions EXCEPT ![sid] = [session EXCEPT ![field] = state]]
  BY DEF Save
<1>2. DOMAIN session = DOMAIN default /\ DOMAIN sessions = Sids /\ sid \in Sids
  BY DEF SessionsOK, Sids
<1>3. /\ DOMAIN sessions' = Sids
      /\ \A s \in Sids \ {sid} : sessions'[s] = sessions[s]
      /\ sessions'[sid] = [session EXCEPT ![field] = state]
  BY <1>1, <1>2
<1>4. /\ DOMAIN sessions'[sid] = DOMAIN default
      /\ sessions'[sid][field] = state
      /\ \A f \in DOMAIN default \ {field} : sessions'[sid][f] = session[f]
  BY <1>2, <1>3
<1>5. /\ drawn.challenge < MaxChallenges
      /\ drawn' = [[drawn EXCEPT !.challenge = @ + 1] EXCEPT !.sid = IF sid > @ THEN sid ELSE @]
  BY DEF Save
<1>6. /\ DOMAIN drawn' = {"challenge", "handle", "sid"}
      /\ drawn'.challenge = drawn.challenge + 1
      /\ drawn'.handle = drawn.handle
      /\ drawn'.sid = IF sid > drawn.sid THEN sid ELSE drawn.sid
  BY <1>5 DEF DrawnOK
<1>7. DrawnGrows
  BY <1>5, <1>6, WebAssumption DEF DrawnGrows, DrawnOK
<1> QED  BY <1>3, <1>4, <1>5, <1>6, <1>7

\* Save keeps the session table well-formed.
LEMMA SessionsSave ==
    ASSUME NEW default, NEW sid \in 1..MaxSids, NEW field \in Fields, NEW state,
           SessionsOK(default), DrawnOK, Fields \subseteq DOMAIN default,
           Save(sid, default, field, state)
    PROVE  SessionsOK(default)'
<1>1. /\ DOMAIN sessions' = Sids
      /\ \A s \in Sids \ {sid} : sessions'[s] = sessions[s]
      /\ DOMAIN sessions'[sid] = DOMAIN default
      /\ drawn.sid <= drawn'.sid /\ sid <= drawn'.sid
      /\ drawn.sid \in Nat /\ drawn'.sid \in Nat
  BY SaveIs DEF DrawnGrows, DrawnOK
<1> HIDE DEF SessionsOK
<1>2. \A s \in Sids : sessions[s] # None => s <= drawn.sid /\ DOMAIN sessions[s] = DOMAIN default
  BY DEF SessionsOK
<1>3. Sids \subseteq Nat
  BY DEF Sids
<1> QED  BY <1>1, <1>2, <1>3 DEF SessionsOK

\* The field of a session that a finish handler finds filled is emptied, and its
\* state goes into the request.
LEMMA TakeIs ==
    ASSUME NEW default, NEW t \in Tabs, NEW section, NEW field \in Fields, NEW next,
           TabsOK, SessionsOK(default), DrawnOK, Fields \subseteq DOMAIN default,
           TakeState(t, section, field, next)
    PROVE  /\ tabs[t].at = section
           /\ UNCHANGED <<cookies, devices, drawn>>
           /\ \/ UNCHANGED sessions /\ Moves(t, "page", None, None)
              \/ LET sid == tabs[t].sid IN
                 /\ sid \in Sids /\ sessions[sid] # None /\ sessions[sid][field] # None
                 /\ DOMAIN sessions' = Sids
                 /\ \A s \in Sids \ {sid} : sessions'[s] = sessions[s]
                 /\ DOMAIN sessions'[sid] = DOMAIN default
                 /\ sessions'[sid][field] = None
                 /\ \A f \in DOMAIN default \ {field} : sessions'[sid][f] = sessions[sid][f]
                 /\ Moves(t, next, sid, [answer |-> tabs[t].data,
                                         state  |-> sessions[sid][field]])
<1> DEFINE sid == tabs[t].sid
<1>1. tabs[t].at = section /\ UNCHANGED <<cookies, devices, drawn>>
  BY DEF TakeState
<1>2. CASE ~Pending(t, field)
  BY <1>1, <1>2, DoneMoves DEF TakeState
<1>3. CASE Pending(t, field)
  <2>1. sid \in Sids /\ sessions[sid] # None /\ sessions[sid][field] # None
    BY <1>3, SidsAreSessions DEF Pending, TabsOK, RequestOK
  <2>2. /\ sessions' = [sessions EXCEPT ![sid] = [sessions[sid] EXCEPT ![field] = None]]
        /\ GoTo(t, next, [answer |-> tabs[t].data, state |-> sessions[sid][field]])
    BY <1>3 DEF TakeState
  <2>3. DOMAIN sessions = Sids /\ DOMAIN sessions[sid] = DOMAIN default
    BY <2>1 DEF SessionsOK
  <2>4. Moves(t, next, sid, [answer |-> tabs[t].data, state |-> sessions[sid][field]])
    BY <2>2, GoToMoves
  <2>5. /\ DOMAIN sessions' = Sids
        /\ \A s \in Sids \ {sid} : sessions'[s] = sessions[s]
        /\ sessions'[sid] = [sessions[sid] EXCEPT ![field] = None]
    BY <2>1, <2>2, <2>3
  <2>6. /\ DOMAIN sessions'[sid] = DOMAIN default
        /\ sessions'[sid][field] = None
        /\ \A f \in DOMAIN default \ {field} : sessions'[sid][f] = sessions[sid][f]
    BY <2>3, <2>5
  <2> QED  BY <1>1, <2>1, <2>4, <2>5, <2>6
<1> QED  BY <1>2, <1>3

-----------------------------------------------------------------------------
(* Where the state of a ceremony can be: four ways in which that changes.     *)

\* States stay where they are, or go.
LEMMA HeldFewer ==
    ASSUME NEW slots, NEW slots2, NEW requests, NEW requests2, NEW spent,
           NEW n \in Nat, NEW m \in Nat, n <= m,
           HeldOnce(slots, requests, spent, n),
           \A s \in Sids, f \in Fields : slots2[s][f] \in {0, slots[s][f]},
           \A t \in Tabs : requests2[t] \in {0, requests[t]}
    PROVE  HeldOnce(slots2, requests2, spent, m)
<1>1. 0..n \subseteq 0..m /\ 0 \in 0..m
  OBVIOUS
<1>2. spent \subseteq 0..m
  BY <1>1 DEF HeldOnce
<1>3. \A s \in Sids, f \in Fields :
         slots2[s][f] \in 0..m /\ (slots2[s][f] # 0 => slots2[s][f] \notin spent)
  BY <1>1 DEF HeldOnce
<1>4. \A t \in Tabs : requests2[t] \in 0..m /\ (requests2[t] # 0 => requests2[t] \notin spent)
  BY <1>1 DEF HeldOnce
<1>5. /\ \A s, r \in Sids, f, g \in Fields :
            slots2[s][f] # 0 /\ slots2[s][f] = slots2[r][g] => s = r /\ f = g
      /\ \A t, u \in Tabs : requests2[t] # 0 /\ requests2[t] = requests2[u] => t = u
      /\ \A s \in Sids, f \in Fields, t \in Tabs : slots2[s][f] # 0 => slots2[s][f] # requests2[t]
  BY DEF HeldOnce
<1> QED  BY <1>2, <1>3, <1>4, <1>5 DEF HeldOnce

\* A state with a new challenge goes into a session.
LEMMA HeldNew ==
    ASSUME NEW slots, NEW slots2, NEW requests, NEW requests2, NEW spent, NEW n \in Nat,
           HeldOnce(slots, requests, spent, n),
           NEW sid \in Sids, NEW field \in Fields, slots2[sid][field] = n + 1,
           \A s \in Sids, f \in Fields :
              s # sid \/ f # field => slots2[s][f] \in {0, slots[s][f]},
           \A t \in Tabs : requests2[t] \in {0, requests[t]}
    PROVE  HeldOnce(slots2, requests2, spent, n + 1)
<1>1. /\ 0..n \subseteq 0..n+1 /\ 0 \in 0..n+1 /\ n+1 \in 0..n+1 /\ n+1 # 0
      /\ \A k \in 0..n : k # n+1
  OBVIOUS
<1>2. spent \subseteq 0..n+1 /\ n+1 \notin spent
  BY <1>1 DEF HeldOnce
<1>3. \A s \in Sids, f \in Fields :
         slots2[s][f] \in 0..n+1 /\ (slots2[s][f] # 0 => slots2[s][f] \notin spent)
  BY <1>1, <1>2 DEF HeldOnce
<1>4. \A t \in Tabs : requests2[t] \in 0..n+1 /\ (requests2[t] # 0 => requests2[t] \notin spent)
  BY <1>1 DEF HeldOnce
<1>5. /\ \A s \in Sids, f \in Fields : s # sid \/ f # field => slots2[s][f] # n+1
      /\ \A t \in Tabs : requests2[t] # n+1
  BY <1>1 DEF HeldOnce
<1>6. \A s, r \in Sids, f, g \in Fields :
            slots2[s][f] # 0 /\ slots2[s][f] = slots2[r][g] => s = r /\ f = g
  BY <1>5 DEF HeldOnce
<1>7. /\ \A t, u \in Tabs : requests2[t] # 0 /\ requests2[t] = requests2[u] => t = u
      /\ \A s \in Sids, f \in Fields, t \in Tabs : slots2[s][f] # 0 => slots2[s][f] # requests2[t]
  BY <1>5 DEF HeldOnce
<1> QED  BY <1>2, <1>3, <1>4, <1>6, <1>7 DEF HeldOnce

\* A state goes from a session into a request.
LEMMA HeldMoved ==
    ASSUME NEW slots, NEW slots2, NEW requests, NEW requests2, NEW spent, NEW n \in Nat,
           HeldOnce(slots, requests, spent, n),
           NEW sid \in Sids, NEW field \in Fields, NEW t \in Tabs,
           slots2[sid][field] = 0, requests2[t] = slots[sid][field],
           \A s \in Sids, f \in Fields :
              s # sid \/ f # field => slots2[s][f] \in {0, slots[s][f]},
           \A u \in Tabs \ {t} : requests2[u] \in {0, requests[u]}
    PROVE  HeldOnce(slots2, requests2, spent, n)
<1>1. \A s \in Sids, f \in Fields :
         slots2[s][f] \in 0..n /\ (slots2[s][f] # 0 => slots2[s][f] \notin spent)
  BY DEF HeldOnce
<1>2. \A u \in Tabs : requests2[u] \in 0..n /\ (requests2[u] # 0 => requests2[u] \notin spent)
  BY DEF HeldOnce
<1>3. \A s, r \in Sids, f, g \in Fields :
            slots2[s][f] # 0 /\ slots2[s][f] = slots2[r][g] => s = r /\ f = g
  BY DEF HeldOnce
<1>4. \A u, v \in Tabs : requests2[u] # 0 /\ requests2[u] = requests2[v] => u = v
  BY DEF HeldOnce
<1>5. \A s \in Sids, f \in Fields, u \in Tabs : slots2[s][f] # 0 => slots2[s][f] # requests2[u]
  BY DEF HeldOnce
<1> QED  BY <1>1, <1>2, <1>3, <1>4, <1>5 DEF HeldOnce

\* A request ends by spending the challenge of its state.
LEMMA HeldSpent ==
    ASSUME NEW slots, NEW requests, NEW requests2, NEW spent, NEW n \in Nat,
           HeldOnce(slots, requests, spent, n),
           NEW t \in Tabs, requests[t] # 0, requests2[t] = 0,
           \A u \in Tabs \ {t} : requests2[u] \in {0, requests[u]}
    PROVE  /\ requests[t] \notin spent
           /\ HeldOnce(slots, requests2, spent \cup {requests[t]}, n)
<1>1. requests[t] \notin spent /\ requests[t] \in 0..n
  BY DEF HeldOnce
<1>2. spent \cup {requests[t]} \subseteq 0..n
  BY <1>1 DEF HeldOnce
<1>3. \A s \in Sids, f \in Fields :
         slots[s][f] \in 0..n
         /\ (slots[s][f] # 0 => slots[s][f] \notin spent \cup {requests[t]})
  BY DEF HeldOnce
<1>4. \A u \in Tabs : requests2[u] \in 0..n
                      /\ (requests2[u] # 0 => requests2[u] \notin spent \cup {requests[t]})
  BY <1>1 DEF HeldOnce
<1>5. /\ \A s, r \in Sids, f, g \in Fields :
            slots[s][f] # 0 /\ slots[s][f] = slots[r][g] => s = r /\ f = g
      /\ \A u, v \in Tabs : requests2[u] # 0 /\ requests2[u] = requests2[v] => u = v
      /\ \A s \in Sids, f \in Fields, u \in Tabs : slots[s][f] # 0 => slots[s][f] # requests2[u]
  BY DEF HeldOnce
<1> QED  BY <1>1, <1>2, <1>3, <1>4, <1>5 DEF HeldOnce

-----------------------------------------------------------------------------
(* The same, for the operations of WebSession.                                *)

Held(spent) == HeldOnce(InSessions, InRequests, spent, drawn.challenge)

\* The tab that moves, and no other, may hold another state.
LEMMA RequestsMove ==
    ASSUME NEW t \in Tabs, NEW place, NEW sid, NEW data, Moves(t, place, sid, data)
    PROVE  /\ \A u \in Tabs \ {t} : InRequests'[u] = InRequests[u]
           /\ InRequests'[t] = IF place \in Holding THEN ChallengeOf(data.state) ELSE 0
BY DEF Moves, InRequests

\* States stay where they are, or go.
LEMMA FewerHeld ==
    ASSUME NEW spent, Held(spent), DrawnGrows,
           \A s \in Sids, f \in Fields : InSessions'[s][f] \in {0, InSessions[s][f]},
           \A t \in Tabs : InRequests'[t] \in {0, InRequests[t]}
    PROVE  HeldOnce(InSessions', InRequests', spent, drawn'.challenge)
<1>1. drawn.challenge \in Nat /\ drawn'.challenge \in Nat /\ drawn.challenge <= drawn'.challenge
  BY DEF DrawnGrows, DrawnOK
<1> HIDE DEF InRequests, InSessions
<1> QED  BY <1>1, HeldFewer DEF Held

\* A tab that moves does not hold a state afterwards.
LEMMA QuietHeld ==
    ASSUME NEW spent, Held(spent), DrawnGrows, UNCHANGED sessions,
           NEW t \in Tabs, NEW place, NEW sid, NEW data,
           Moves(t, place, sid, data), place \notin Holding
    PROVE  HeldOnce(InSessions', InRequests', spent, drawn'.challenge)
<1>1. \A s \in Sids, f \in Fields : InSessions'[s][f] \in {0, InSessions[s][f]}
  BY DEF InSessions
<1>2. \A u \in Tabs : InRequests'[u] \in {0, InRequests[u]}
  BY RequestsMove
<1> QED  BY <1>1, <1>2, FewerHeld

\* A start handler saves a state with a new challenge.
LEMMA SaveHeld ==
    ASSUME NEW spent, NEW default, Held(spent), SessionsOK(default), DrawnOK,
           Fields \subseteq DOMAIN default, \A f \in Fields : default[f] = None,
           NEW saved \in 1..MaxSids, NEW field \in Fields, NEW state,
           Save(saved, default, field, state), ChallengeOf(state) = NewChallenge,
           NEW t \in Tabs, NEW place, NEW sid, NEW data,
           Moves(t, place, sid, data), place \notin Holding
    PROVE  HeldOnce(InSessions', InRequests', spent, drawn'.challenge)
<1>1. \A u \in Tabs : InRequests'[u] \in {0, InRequests[u]}
  BY RequestsMove
<1>2. /\ saved \in Sids
      /\ \A s \in Sids \ {saved} : sessions'[s] = sessions[s]
      /\ sessions'[saved][field] = state
      /\ \A f \in Fields \ {field} :
            sessions'[saved][f] = IF sessions[saved] = None THEN default[f] ELSE sessions[saved][f]
      /\ drawn'.challenge = drawn.challenge + 1
      /\ drawn.challenge \in Nat
  BY SaveIs DEF Sids, DrawnOK
<1>3. \A s \in Sids \ {saved}, f \in Fields : InSessions'[s][f] = InSessions[s][f]
  BY <1>2 DEF InSessions
<1>4. \A f \in Fields \ {field} : InSessions'[saved][f] \in {0, InSessions[saved][f]}
  BY <1>2 DEF InSessions
<1>5. InSessions'[saved][field] \in {0, drawn.challenge + 1}
  BY <1>2 DEF InSessions, NewChallenge
<1>6. HeldOnce(InSessions, InRequests, spent, drawn.challenge)
  BY DEF Held
<1> HIDE DEF InRequests, InSessions
<1>7. \A s \in Sids, f \in Fields :
         s # saved \/ f # field => InSessions'[s][f] \in {0, InSessions[s][f]}
  BY <1>3, <1>4
<1>8. CASE InSessions'[saved][field] = drawn.challenge + 1
  BY <1>1, <1>2, <1>6, <1>7, <1>8, HeldNew
<1>9. CASE InSessions'[saved][field] = 0
  <2>1. \A s \in Sids, f \in Fields : InSessions'[s][f] \in {0, InSessions[s][f]}
    BY <1>7, <1>9
  <2>2. drawn.challenge + 1 \in Nat /\ drawn.challenge <= drawn.challenge + 1
    BY <1>2
  <2> QED  BY <1>1, <1>2, <1>6, <2>1, <2>2, HeldFewer
<1> QED  BY <1>5, <1>8, <1>9

\* A finish handler takes the state, if there is one.
LEMMA TakeHeld ==
    ASSUME NEW spent, NEW default, Held(spent), TabsOK, SessionsOK(default), DrawnOK,
           Fields \subseteq DOMAIN default,
           NEW t \in Tabs, NEW section, NEW field \in Fields, NEW next \in Holding,
           TakeState(t, section, field, next)
    PROVE  HeldOnce(InSessions', InRequests', spent, drawn'.challenge)
<1>1. HeldOnce(InSessions, InRequests, spent, drawn.challenge)
      /\ drawn' = drawn /\ drawn.challenge \in Nat
  BY DEF Held, DrawnOK, TakeState
<1>2. CASE UNCHANGED sessions /\ Moves(t, "page", None, None)
  <2>1. DrawnGrows
    BY <1>1 DEF DrawnGrows, DrawnOK
  <2> QED  BY <1>2, <2>1, QuietHeld DEF Holding
<1>3. CASE ~ (UNCHANGED sessions /\ Moves(t, "page", None, None))
  <2> DEFINE sid == tabs[t].sid
             data == [answer |-> tabs[t].data, state |-> sessions[sid][field]]
  <2>1. /\ sid \in Sids /\ sessions[sid] # None /\ sessions[sid][field] # None
        /\ \A s \in Sids \ {sid} : sessions'[s] = sessions[s]
        /\ sessions'[sid][field] = None
        /\ \A f \in Fields \ {field} : sessions'[sid][f] = sessions[sid][f]
        /\ Moves(t, next, sid, data)
    BY <1>3, TakeIs
  <2>2. \A u \in Tabs \ {t} : InRequests'[u] = InRequests[u]
    BY <2>1, RequestsMove
  <2>3. InRequests'[t] = ChallengeOf(sessions[sid][field])
    BY <2>1, RequestsMove
  <2>4. /\ \A s \in Sids \ {sid}, f \in Fields : InSessions'[s][f] = InSessions[s][f]
        /\ \A f \in Fields \ {field} : InSessions'[sid][f] \in {0, InSessions[sid][f]}
        /\ InSessions'[sid][field] = 0
        /\ InSessions[sid][field] = ChallengeOf(sessions[sid][field])
    BY <2>1 DEF InSessions
  <2>5. \A s \in Sids, f \in Fields :
           s # sid \/ f # field => InSessions'[s][f] \in {0, InSessions[s][f]}
    BY <2>4
  <2> HIDE DEF InRequests, InSessions
  <2> QED  BY <1>1, <2>1, <2>2, <2>3, <2>4, <2>5, HeldMoved
<1> QED  BY <1>2, <1>3

\* A finish handler accepts the answer: the challenge of the state is spent.
LEMMA SpendHeld ==
    ASSUME NEW spent, Held(spent), DrawnOK,
           UNCHANGED sessions, drawn'.challenge = drawn.challenge,
           NEW t \in Tabs, tabs[t].at \in Holding, ChallengeOf(tabs[t].data.state) # 0,
           NEW place, NEW sid, NEW data, Moves(t, place, sid, data), place \notin Holding
    PROVE  LET c == ChallengeOf(tabs[t].data.state) IN
           /\ c \notin spent
           /\ HeldOnce(InSessions', InRequests', spent \cup {c}, drawn'.challenge)
<1> DEFINE c == ChallengeOf(tabs[t].data.state)
<1>1. InSessions' = InSessions
  BY DEF InSessions
<1>2. InRequests[t] = c
  BY DEF InRequests
<1>3. InRequests'[t] = 0 /\ \A u \in Tabs \ {t} : InRequests'[u] = InRequests[u]
  BY RequestsMove
<1>4. /\ HeldOnce(InSessions, InRequests, spent, drawn.challenge)
      /\ c # 0 /\ drawn.challenge \in Nat
  BY DEF Held, DrawnOK
<1> HIDE DEF InRequests, InSessions, c
<1>5. /\ InRequests[t] \notin spent
      /\ HeldOnce(InSessions, InRequests', spent \cup {InRequests[t]}, drawn.challenge)
  BY <1>2, <1>3, <1>4, HeldSpent
<1>6. c \notin spent /\ HeldOnce(InSessions', InRequests', spent \cup {c}, drawn'.challenge)
  BY <1>1, <1>2, <1>5
<1> QED  BY <1>6 DEF c
-----------------------------------------------------------------------------
(* Authenticators.                                                            *)

\* Getting is finite, and a tab that moves joins it or leaves it.
LEMMA GettingMoves ==
    ASSUME NEW t \in Tabs, NEW place, NEW sid, NEW data, Moves(t, place, sid, data)
    PROVE  /\ Cardinality(Getting) \in Nat /\ Cardinality(Getting') \in Nat
           /\ Cardinality(Getting') <= Cardinality(Getting) + 1
           /\ place # "get" => Cardinality(Getting') <= Cardinality(Getting)
           /\ tabs[t].at = "get" /\ place # "get"
                 => /\ Cardinality(Getting) >= 1
                    /\ Cardinality(Getting') = Cardinality(Getting) - 1
<1>1. IsFiniteSet(Getting) /\ IsFiniteSet(Getting')
  BY WebAssumption, FS_Subset DEF Getting
<1>2. Getting' \subseteq Getting \cup {t} /\ (place # "get" => Getting' \subseteq Getting)
  BY DEF Getting, Moves
<1>3. tabs[t].at = "get" /\ place # "get" => t \in Getting /\ Getting' = Getting \ {t}
  BY DEF Getting, Moves
<1> HIDE DEF Getting
<1>4. Cardinality(Getting) \in Nat /\ Cardinality(Getting') \in Nat
  BY <1>1, FS_CardinalityType
<1>5. /\ IsFiniteSet(Getting \cup {t})
      /\ Cardinality(Getting \cup {t}) \in {Cardinality(Getting), Cardinality(Getting) + 1}
  BY <1>1, FS_AddElement
<1>6. Cardinality(Getting') <= Cardinality(Getting \cup {t})
  BY <1>2, <1>5, FS_Subset
<1>7. place # "get" => Cardinality(Getting') <= Cardinality(Getting)
  BY <1>1, <1>2, FS_Subset
<1>8. ASSUME tabs[t].at = "get" /\ place # "get"
      PROVE  /\ Cardinality(Getting) >= 1
             /\ Cardinality(Getting') = Cardinality(Getting) - 1
  <2>1. Cardinality(Getting \ {t}) = Cardinality(Getting) - 1
    BY <1>1, <1>3, <1>8, FS_RemoveElement
  <2> QED  BY <1>3, <1>4, <1>8, <2>1
<1> QED  BY <1>4, <1>5, <1>6, <1>7, <1>8

\* No device is used, and a challenge is drawn when a page comes to ask for a
\* sign-in.
LEMMA DevicesStay ==
    ASSUME DevicesOK, DrawnGrows, UNCHANGED devices,
           NEW t \in Tabs, NEW place, NEW sid, NEW data, Moves(t, place, sid, data),
           place = "get" => drawn'.challenge = drawn.challenge + 1
    PROVE  DevicesOK'
<1>1. /\ drawn.challenge \in Nat /\ drawn'.challenge \in Nat
      /\ drawn.challenge <= drawn'.challenge /\ Issued \subseteq Issued'
  BY DEF DrawnGrows, DrawnOK, Issued
<1>2. /\ Cardinality(Getting) \in Nat /\ Cardinality(Getting') \in Nat
      /\ Cardinality(Getting') + drawn.challenge <= Cardinality(Getting) + drawn'.challenge
  BY <1>1, GettingMoves
<1>3. ASSUME NEW d \in Devices, NEW k \in devices[d]
      PROVE  /\ DOMAIN k = {"id", "handle", "count"}
             /\ k.id \in Devices \X Issued'
             /\ k.count \in Nat
             /\ k.count + Cardinality(Getting') <= drawn'.challenge
  <2>1. /\ DOMAIN k = {"id", "handle", "count"}
        /\ k.id \in Devices \X Issued
        /\ k.count \in Nat
        /\ k.count + Cardinality(Getting) <= drawn.challenge
    BY DEF DevicesOK
  <2> QED  BY <1>1, <1>2, <2>1
<1>4. Cardinality(Getting') <= drawn'.challenge /\ DOMAIN devices' = Devices
  BY <1>1, <1>2 DEF DevicesOK
<1> QED  BY <1>3, <1>4 DEF DevicesOK

\* A device makes a credential whose id names the challenge, and answers with it.
LEMMA CreateIs ==
    ASSUME TabsOK, CookiesOK, DevicesOK, DrawnOK, NEW t \in Tabs, NEW d \in Devices, Create(t, d)
    PROVE  LET c == tabs[t].data
               a == [id |-> <<d, c.challenge>>, challenge |-> c.challenge]
           IN  /\ tabs[t].at = "create"
               /\ Registers(a)
               /\ c.finish \in {"register_finish", "add_credential_finish"}
               /\ Moves(t, c.finish, Cookie(t), a)
               /\ TabsOK'
               /\ DevicesOK'
               /\ UNCHANGED <<sessions, cookies, drawn>>
<1> DEFINE c   == tabs[t].data
           id  == <<d, c.challenge>>
           a   == [id |-> id, challenge |-> c.challenge]
           new == [id |-> id, handle |-> c.handle, count |-> 0]
<1>1. /\ tabs[t].at = "create"
      /\ devices' = [devices EXCEPT ![d] = {k \in devices[d] : k.handle # c.handle} \cup {new}]
      /\ Send(t, c.finish, a)
      /\ UNCHANGED <<sessions, cookies, drawn>>
  BY DEF Create
<1>2. c.challenge \in Issued /\ c.finish \in {"register_finish", "add_credential_finish"}
  BY <1>1 DEF TabsOK, RequestOK
<1>3. Registers(a)
  BY <1>2 DEF Registers
<1>4. Moves(t, c.finish, Cookie(t), a)
  BY <1>1, SendMoves
<1>5. DrawnGrows
  BY <1>1 DEF DrawnGrows, DrawnOK
<1>6. Cookie(t) \in 1..drawn.sid \cup {None} /\ tabs[t].browser \in Browsers
  <2>1. tabs[t].browser \in Browsers
    BY DEF TabsOK, RequestOK
  <2> QED  BY <2>1 DEF Cookie, CookiesOK
<1>7. RequestOK(t)'
  <2>1. /\ DOMAIN tabs'[t] = {"browser", "at", "sid", "data"}
        /\ tabs'[t].browser \in Browsers /\ tabs'[t].at = c.finish
        /\ tabs'[t].sid \in 1..drawn'.sid \cup {None} /\ tabs'[t].data = a
    BY <1>1, <1>4, <1>6 DEF Moves
  <2>2. Registers(tabs[t].data)'
    BY <1>1, <1>3, <2>1 DEF Registers, Issued
  <2> HIDE DEF a
  <2> QED  BY <1>2, <2>1, <2>2 DEF RequestOK
<1>8. TabsOK'
  BY <1>4, <1>5, <1>7, TabsMove
<1>9. DevicesOK'
  <2>1. /\ Cardinality(Getting) \in Nat /\ Cardinality(Getting') \in Nat
        /\ Cardinality(Getting') <= Cardinality(Getting)
    BY <1>2, <1>4, GettingMoves
  <2>2. drawn' = drawn /\ drawn.challenge \in Nat /\ Issued' = Issued
    BY <1>1 DEF DrawnOK, Issued
  <2>3. /\ DOMAIN new = {"id", "handle", "count"} /\ new.id \in Devices \X Issued
        /\ new.count \in Nat /\ new.count = 0
    BY <1>2
  <2>4. ASSUME NEW e \in Devices, NEW k \in devices'[e]
        PROVE  k \in devices[e] \/ k = new
    BY <1>1 DEF DevicesOK
  <2>5. DOMAIN devices' = Devices
    BY <1>1 DEF DevicesOK
  <2> HIDE DEF new
  <2>6. ASSUME NEW e \in Devices, NEW k \in devices'[e]
        PROVE  /\ DOMAIN k = {"id", "handle", "count"}
               /\ k.id \in Devices \X Issued
               /\ k.count \in Nat
               /\ k.count + Cardinality(Getting') <= drawn.challenge
    <3>1. CASE k \in devices[e]
      <4>1. /\ DOMAIN k = {"id", "handle", "count"}
            /\ k.id \in Devices \X Issued
            /\ k.count \in Nat
            /\ k.count + Cardinality(Getting) <= drawn.challenge
        BY <3>1 DEF DevicesOK
      <4> QED  BY <2>1, <2>2, <4>1
    <3>2. CASE k = new
      <4>1. Cardinality(Getting) <= drawn.challenge
        BY DEF DevicesOK
      <4> QED  BY <2>1, <2>2, <2>3, <3>2, <4>1
    <3> QED  BY <2>4, <3>1, <3>2
  <2>7. Cardinality(Getting') <= drawn.challenge
    BY <2>1, <2>2 DEF DevicesOK
  <2> QED  BY <2>2, <2>5, <2>6, <2>7 DEF DevicesOK
<1> QED  BY <1>1, <1>2, <1>3, <1>4, <1>8, <1>9

\* A device counts the sign-in, and answers with the credential's id and count.
LEMMA GetIs ==
    ASSUME TabsOK, CookiesOK, DevicesOK, DrawnOK, NEW t \in Tabs, NEW d \in Devices, Get(t, d)
    PROVE  /\ tabs[t].at = "get"
           /\ TabsOK'
           /\ DevicesOK'
           /\ UNCHANGED <<sessions, cookies, drawn>>
           /\ \E k \in devices[d] :
                 Moves(t, "authenticate_finish", Cookie(t),
                       [id |-> k.id, challenge |-> tabs[t].data.challenge,
                        handle |-> k.handle, count |-> k.count + 1])
<1>1. PICK k \in devices[d] :
         /\ devices' = [devices EXCEPT ![d] = (devices[d] \ {k})
                                              \cup {[k EXCEPT !.count = @ + 1]}]
         /\ Send(t, "authenticate_finish",
                 [id |-> k.id, challenge |-> tabs[t].data.challenge,
                  handle |-> k.handle, count |-> k.count + 1])
  BY DEF Get, Usable
<1> DEFINE new == [k EXCEPT !.count = @ + 1]
           a   == [id |-> k.id, challenge |-> tabs[t].data.challenge,
                   handle |-> k.handle, count |-> k.count + 1]
<1>2. tabs[t].at = "get" /\ UNCHANGED <<sessions, cookies, drawn>>
  BY DEF Get
<1>3. tabs[t].data.challenge \in Issued
  BY <1>2 DEF TabsOK, RequestOK
<1>4. Moves(t, "authenticate_finish", Cookie(t), a)
  BY <1>1, SendMoves
<1>5. /\ Cardinality(Getting) \in Nat /\ Cardinality(Getting') \in Nat
      /\ Cardinality(Getting) >= 1
      /\ Cardinality(Getting') = Cardinality(Getting) - 1
  BY <1>2, <1>4, GettingMoves
<1>6. /\ DOMAIN k = {"id", "handle", "count"} /\ k.id \in Devices \X Issued /\ k.count \in Nat
      /\ k.count + Cardinality(Getting) <= drawn.challenge
  BY DEF DevicesOK
<1>7. drawn' = drawn /\ drawn.challenge \in Nat /\ Issued' = Issued
  BY <1>2 DEF DrawnOK, Issued
<1>8. k.count + 1 \in Issued
  BY <1>5, <1>6, <1>7 DEF Issued
<1>9. TabsOK'
  <2>1. DrawnGrows
    BY <1>2 DEF DrawnGrows, DrawnOK
  <2>2. Cookie(t) \in 1..drawn.sid \cup {None} /\ tabs[t].browser \in Browsers
    <3>1. tabs[t].browser \in Browsers
      BY DEF TabsOK, RequestOK
    <3> QED  BY <3>1 DEF Cookie, CookiesOK
  <2>3. /\ DOMAIN tabs'[t] = {"browser", "at", "sid", "data"}
        /\ tabs'[t].browser \in Browsers /\ tabs'[t].at = "authenticate_finish"
        /\ tabs'[t].sid \in 1..drawn'.sid \cup {None} /\ tabs'[t].data = a
    BY <1>4, <1>7, <2>2 DEF Moves
  <2>4. SignsIn(tabs[t].data)'
    BY <1>3, <1>6, <1>7, <1>8, <2>3 DEF SignsIn
  <2> HIDE DEF a
  <2>5. RequestOK(t)'
    BY <2>3, <2>4 DEF RequestOK
  <2> QED  BY <1>4, <2>1, <2>5, TabsMove
<1>10. DevicesOK'
  <2>1. /\ DOMAIN new = {"id", "handle", "count"} /\ new.id = k.id /\ new.count = k.count + 1
    BY <1>6
  <2>2. DOMAIN devices' = Devices
    BY <1>1 DEF DevicesOK
  <2>3. ASSUME NEW e \in Devices, NEW m \in devices'[e]
        PROVE  m \in devices[e] \/ m = new
    BY <1>1 DEF DevicesOK
  <2> HIDE DEF new
  <2>4. ASSUME NEW e \in Devices, NEW m \in devices'[e]
        PROVE  /\ DOMAIN m = {"id", "handle", "count"}
               /\ m.id \in Devices \X Issued
               /\ m.count \in Nat
               /\ m.count + Cardinality(Getting') <= drawn.challenge
    <3>1. CASE m \in devices[e]
      <4>1. /\ DOMAIN m = {"id", "handle", "count"}
            /\ m.id \in Devices \X Issued
            /\ m.count \in Nat
            /\ m.count + Cardinality(Getting) <= drawn.challenge
        BY <3>1 DEF DevicesOK
      <4> QED  BY <1>5, <1>7, <4>1
    <3>2. CASE m = new
      BY <1>5, <1>6, <1>7, <2>1, <3>2
    <3> QED  BY <2>3, <3>1, <3>2
  <2>5. Cardinality(Getting') <= drawn.challenge
    BY <1>5, <1>7 DEF DevicesOK
  <2> QED  BY <1>7, <2>2, <2>4, <2>5 DEF DevicesOK
<1>11. k \in devices[d]
  OBVIOUS
<1> HIDE DEF Moves
<1> QED  BY <1>2, <1>4, <1>9, <1>10, <1>11
-----------------------------------------------------------------------------
(* The browsers that carry a sid.                                             *)

\* A sid that was not drawn is carried by nobody.
LEMMA CarriersFresh ==
    ASSUME TabsOK, CookiesOK, DrawnOK, NEW s \in Nat, drawn.sid < s
    PROVE  Carriers(s) = {}
<1>1. s \notin 1..drawn.sid \cup {None}
  BY WebAssumption DEF DrawnOK
<1>2. \A b \in Browsers : cookies[b] # s
  BY <1>1 DEF CookiesOK
<1>3. \A t \in Tabs : tabs[t].sid # s
  BY <1>1 DEF TabsOK, RequestOK
<1> QED  BY <1>2, <1>3 DEF Carriers

\* A step of a tab gives its browser at most the sid that the request or the
\* cookie now has.
LEMMA CarriersStep ==
    ASSUME TabsOK, CookiesOK, NEW t \in Tabs, NEW place, NEW sid, NEW data, NEW cookie,
           Moves(t, place, sid, data),
           cookies' \in {cookies, [cookies EXCEPT ![tabs[t].browser] = cookie]},
           NEW s, NEW b \in Carriers(s)'
    PROVE  /\ b \in Browsers
           /\ b \in Carriers(s) \/ (b = tabs[t].browser /\ s \in {sid, cookie})
<1>1. \A u \in Tabs : tabs[u].browser \in Browsers
  BY DEF TabsOK, RequestOK
<1>2. DOMAIN cookies = Browsers
  BY DEF CookiesOK
<1>3. CASE b \in Browsers /\ cookies'[b] = s
  BY <1>1, <1>2, <1>3 DEF Carriers
<1>4. CASE \E u \in Tabs : tabs'[u].sid = s /\ b = tabs'[u].browser
  <2>1. PICK u \in Tabs : tabs'[u].sid = s /\ b = tabs'[u].browser
    BY <1>4
  <2>2. CASE u = t
    BY <1>1, <2>1, <2>2 DEF Moves
  <2>3. CASE u # t
    BY <1>1, <2>1, <2>3 DEF Carriers, Moves
  <2> QED  BY <2>2, <2>3
<1> QED  BY <1>3, <1>4 DEF Carriers

\* The browser of a request carries its sid and its cookie.
LEMMA CarriersOf ==
    ASSUME TabsOK, NEW t \in Tabs
    PROVE  tabs[t].browser \in Carriers(tabs[t].sid) /\ tabs[t].browser \in Carriers(Cookie(t))
BY DEF Carriers, Cookie, TabsOK, RequestOK

\* A request arrives a second time as that of another tab of its browser.
LEMMA DuplicateIs ==
    ASSUME TabsOK, NEW t \in Tabs, NEW u \in Tabs, Duplicate(t, u)
    PROVE  /\ tabs[t].at \in {"register_finish", "authenticate_finish", "add_credential_finish"}
           /\ tabs[u].browser = tabs[t].browser
           /\ tabs'[u] = tabs[t]
           /\ Moves(u, tabs[t].at, tabs[t].sid, tabs[t].data)
           /\ UNCHANGED <<sessions, cookies, devices, drawn>>
<1>1. /\ tabs[t].at \in {"register_finish", "authenticate_finish", "add_credential_finish"}
      /\ tabs[u].browser = tabs[t].browser
      /\ tabs' = [tabs EXCEPT ![u] = tabs[t]]
      /\ UNCHANGED <<sessions, cookies, devices, drawn>>
  BY DEF Duplicate
<1>2. DOMAIN tabs = Tabs /\ \A v \in Tabs : DOMAIN tabs[v] = {"browser", "at", "sid", "data"}
  BY DEF TabsOK, RequestOK
<1>3. tabs'[u] = tabs[t]
  BY <1>1, <1>2
<1>4. Moves(u, tabs[t].at, tabs[t].sid, tabs[t].data)
  BY <1>1, <1>2 DEF Moves
<1> QED  BY <1>1, <1>3, <1>4

-----------------------------------------------------------------------------
(* Whole steps: each keeps WebOK, and each state in its one place.            *)

\* A tab that moves to a place that says nothing about its data, with the draws
\* and cookies that go with it.
LEMMA FreeMoveOK ==
    ASSUME NEW default, NEW spent, WebOK(default), Held(spent), DrawnGrows, CookiesOK',
           UNCHANGED <<sessions, devices>>, NEW t \in Tabs, NEW place, NEW sid, NEW data,
           Moves(t, place, sid, data), Free(place), place \notin Holding,
           sid \in 1..drawn'.sid \cup {None}
    PROVE  WebOK(default)' /\ HeldOnce(InSessions', InRequests', spent, drawn'.challenge)
<1>1. TabsOK' /\ SessionsOK(default)' /\ DrawnOK'
  BY TabsMoveFree, SessionsStay DEF WebOK, DrawnGrows
<1>2. DevicesOK'
  BY DevicesStay DEF WebOK, Free
<1>3. HeldOnce(InSessions', InRequests', spent, drawn'.challenge)
  BY QuietHeld
<1> QED  BY <1>1, <1>2, <1>3 DEF WebOK

\* The same, for a step that draws nothing and leaves the cookies alone.
LEMMA StillMoveOK ==
    ASSUME NEW default, NEW spent, WebOK(default), Held(spent),
           UNCHANGED <<sessions, cookies, devices, drawn>>,
           NEW t \in Tabs, NEW place, NEW sid, NEW data,
           Moves(t, place, sid, data), Free(place), place \notin Holding,
           sid \in 1..drawn.sid \cup {None}
    PROVE  WebOK(default)' /\ HeldOnce(InSessions', InRequests', spent, drawn'.challenge)
<1>1. DrawnGrows
  BY DEF WebOK, DrawnGrows, DrawnOK
<1>2. CookiesOK'
  BY <1>1, CookiesStay DEF WebOK
<1> QED  BY <1>1, <1>2, FreeMoveOK

\* A reply that arrives or is lost.
LEMMA ReplyMoves ==
    ASSUME TabsOK, CookiesOK, DrawnGrows, NEW t \in Tabs, NEW place, NEW data,
           NEW cookie \in 1..drawn'.sid \cup {None},
           \/ Arrives(t, place, data, cookie)
           \/ Done(t) /\ UNCHANGED cookies
    PROVE  /\ CookiesOK'
           /\ cookies' \in {cookies, [cookies EXCEPT ![tabs[t].browser] = cookie]}
           /\ Moves(t, place, None, data) \/ Moves(t, "page", None, None)
<1>1. tabs[t].browser \in Browsers
  BY DEF TabsOK, RequestOK
<1>2. CASE Arrives(t, place, data, cookie)
  BY <1>1, <1>2, CookiesArrive, ShowMoves DEF Arrives
<1>3. CASE Done(t) /\ UNCHANGED cookies
  BY <1>3, CookiesStay, DoneMoves
<1> QED  BY <1>2, <1>3

\* A start handler saves its state, and its tab moves on.
LEMMA SaveOK ==
    ASSUME NEW default, NEW spent, WebOK(default), Held(spent), CookiesOK', UNCHANGED devices,
           Fields \subseteq DOMAIN default, \A f \in Fields : default[f] = None,
           NEW saved \in 1..MaxSids, NEW field \in Fields, NEW state,
           Save(saved, default, field, state), ChallengeOf(state) = NewChallenge,
           NEW t \in Tabs, NEW place, NEW sid, NEW data,
           Moves(t, place, sid, data), RequestOK(t)', place \notin Holding
    PROVE  /\ WebOK(default)'
           /\ HeldOnce(InSessions', InRequests', spent, drawn'.challenge)
           /\ DrawnGrows
<1>1. DrawnGrows /\ drawn'.challenge = drawn.challenge + 1
  BY SaveIs DEF WebOK
<1>2. TabsOK' /\ SessionsOK(default)' /\ DrawnOK'
  BY <1>1, TabsMove, SessionsSave DEF WebOK, DrawnGrows
<1>3. DevicesOK'
  BY <1>1, DevicesStay DEF WebOK
<1>4. HeldOnce(InSessions', InRequests', spent, drawn'.challenge)
  BY SaveHeld DEF WebOK
<1> QED  BY <1>1, <1>2, <1>3, <1>4 DEF WebOK

\* Where a finish handler takes the state, and where it goes on.
Takes == {<<"register_finish", "register_finish.push">>,
          <<"add_credential_finish.take", "add_credential_finish.push">>,
          <<"authenticate_finish", "authenticate_finish.verify">>}

\* A finish handler takes the state, if there is one.
LEMMA TakeOK ==
    ASSUME NEW default, NEW spent, WebOK(default), Held(spent), Fields \subseteq DOMAIN default,
           NEW t \in Tabs, NEW section, NEW field \in Fields, NEW next,
           <<section, next>> \in Takes, TakeState(t, section, field, next)
    PROVE  WebOK(default)' /\ HeldOnce(InSessions', InRequests', spent, drawn'.challenge)
<1>1. TabsOK /\ SessionsOK(default) /\ CookiesOK /\ DevicesOK /\ DrawnOK
  BY DEF WebOK
<1>2. next \in Holding
  BY DEF Takes, Holding
<1>3. HeldOnce(InSessions', InRequests', spent, drawn'.challenge)
  BY <1>1, <1>2, TakeHeld
<1>4. tabs[t].at = section /\ UNCHANGED <<cookies, devices, drawn>>
  BY DEF TakeState
<1>5. DrawnGrows
  BY <1>1, <1>4 DEF DrawnGrows, DrawnOK
<1>6. CASE UNCHANGED sessions /\ Moves(t, "page", None, None)
  <2>1. Free("page") /\ "page" \notin Holding
    BY DEF Free, Holding
  <2> QED  BY <1>4, <1>6, <2>1, StillMoveOK
<1>7. CASE ~ (UNCHANGED sessions /\ Moves(t, "page", None, None))
  <2> DEFINE sid  == tabs[t].sid
             data == [answer |-> tabs[t].data, state |-> sessions[sid][field]]
  <2>1. /\ sid \in Sids /\ sessions[sid] # None
        /\ DOMAIN sessions' = Sids
        /\ \A s \in Sids \ {sid} : sessions'[s] = sessions[s]
        /\ DOMAIN sessions'[sid] = DOMAIN default
        /\ Moves(t, next, sid, data)
    BY <1>1, <1>7, TakeIs
  <2>2. SessionsOK(default)'
    BY <1>1, <1>4, <2>1 DEF SessionsOK
  <2>3. DevicesOK'
    BY <1>1, <1>4, <1>5, <2>1, DevicesStay DEF Takes
  <2>4. CookiesOK'
    BY <1>1, <1>4, <1>5, CookiesStay
  <2>5. RequestOK(t)'
    <3>1. RequestOK(t)
      BY <1>1 DEF TabsOK
    <3>2. /\ tabs[t].browser \in Browsers /\ sid \in 1..drawn.sid \cup {None}
          /\ section \in {"register_finish", "add_credential_finish.take"}
                => Registers(tabs[t].data)
          /\ section = "authenticate_finish" => SignsIn(tabs[t].data)
      BY <1>4, <3>1 DEF RequestOK
    <3>3. /\ DOMAIN tabs'[t] = {"browser", "at", "sid", "data"}
          /\ tabs'[t].browser = tabs[t].browser /\ tabs'[t].at = next
          /\ tabs'[t].sid = sid /\ tabs'[t].data.answer = tabs[t].data
      BY <2>1 DEF Moves
    <3>4. /\ Registers(tabs[t].data) => Registers(tabs[t].data.answer)'
          /\ SignsIn(tabs[t].data) => SignsIn(tabs[t].data.answer)'
      BY <1>4, <3>3 DEF Registers, SignsIn, Issued
    <3> QED  BY <1>4, <3>2, <3>3, <3>4 DEF RequestOK, Takes
  <2>6. TabsOK'
    BY <1>1, <1>5, <2>1, <2>5, TabsMove
  <2> QED  BY <1>3, <1>5, <2>2, <2>3, <2>4, <2>6 DEF WebOK, DrawnGrows
<1> QED  BY <1>6, <1>7

\* A finish handler accepts the answer: the challenge of the state is spent, and
\* was not before.
LEMMA SpendOK ==
    ASSUME NEW default, NEW spent, WebOK(default), Held(spent), DrawnGrows, CookiesOK',
           drawn'.challenge = drawn.challenge, UNCHANGED <<sessions, devices>>,
           NEW t \in Tabs, tabs[t].at \in Holding, ChallengeOf(tabs[t].data.state) # 0,
           NEW place, NEW sid \in 1..drawn'.sid \cup {None}, NEW data,
           Moves(t, place, sid, data), Free(place), place \notin Holding
    PROVE  LET c == ChallengeOf(tabs[t].data.state) IN
           /\ WebOK(default)'
           /\ c \notin spent
           /\ HeldOnce(InSessions', InRequests', spent \cup {c}, drawn'.challenge)
<1>1. WebOK(default)'
  BY FreeMoveOK
<1> QED  BY <1>1, SpendHeld DEF WebOK

\* A gesture of the user in a tab, or a request that is delivered twice.
LEMMA GesturesOK ==
    ASSUME NEW default, NEW spent, WebOK(default), Held(spent), NEW t \in Tabs,
           \/ \E handler, data : Free(handler) /\ handler \notin Holding /\ Click(t, handler, data)
           \/ Abandon(t)
           \/ \E d \in Devices : Create(t, d) \/ Get(t, d)
           \/ \E u \in Tabs : Duplicate(t, u)
    PROVE  WebOK(default)' /\ HeldOnce(InSessions', InRequests', spent, drawn'.challenge)
<1>1. TabsOK /\ SessionsOK(default) /\ CookiesOK /\ DevicesOK /\ DrawnOK
  BY DEF WebOK
<1>2. ASSUME NEW u \in Tabs
      PROVE  tabs[u].browser \in Browsers /\ Cookie(u) \in 1..drawn.sid \cup {None}
  <2>1. tabs[u].browser \in Browsers
    BY <1>1 DEF TabsOK, RequestOK
  <2> QED  BY <1>1, <2>1 DEF Cookie, CookiesOK
<1>3. CASE \E handler, data : Free(handler) /\ handler \notin Holding /\ Click(t, handler, data)
  <2>1. PICK handler, data :
           Free(handler) /\ handler \notin Holding /\ Click(t, handler, data)
    BY <1>3
  <2>2. Moves(t, handler, Cookie(t), data) /\ UNCHANGED <<sessions, cookies, devices, drawn>>
    BY <1>1, <2>1, SendMoves DEF Click
  <2> QED  BY <1>2, <2>1, <2>2, StillMoveOK
<1>4. CASE Abandon(t)
  <2>1. Moves(t, "page", None, None) /\ UNCHANGED <<sessions, cookies, devices, drawn>>
    BY <1>1, <1>4, DoneMoves DEF Abandon
  <2>2. Free("page") /\ "page" \notin Holding
    BY DEF Free, Holding
  <2> QED  BY <2>1, <2>2, StillMoveOK
<1>5. CASE \E d \in Devices : Create(t, d) \/ Get(t, d)
  <2>1. PICK d \in Devices : Create(t, d) \/ Get(t, d)
    BY <1>5
  <2>2. /\ TabsOK' /\ DevicesOK' /\ UNCHANGED <<sessions, cookies, drawn>>
        /\ \E place, sid, data : Moves(t, place, sid, data) /\ place \notin Holding
    <3>1. CASE Create(t, d)
      BY <1>1, <3>1, CreateIs DEF Holding
    <3>2. CASE Get(t, d)
      <4>1. PICK k \in devices[d] :
               Moves(t, "authenticate_finish", Cookie(t),
                     [id |-> k.id, challenge |-> tabs[t].data.challenge,
                      handle |-> k.handle, count |-> k.count + 1])
        BY <1>1, <3>2, GetIs
      <4>2. "authenticate_finish" \notin Holding
        BY DEF Holding
      <4> QED  BY <1>1, <3>2, <4>1, <4>2, GetIs
    <3> QED  BY <2>1, <3>1, <3>2
  <2>3. DrawnGrows
    BY <1>1, <2>2 DEF DrawnGrows, DrawnOK
  <2>4. SessionsOK(default)' /\ CookiesOK'
    BY <1>1, <2>2, <2>3, SessionsStay, CookiesStay
  <2>5. HeldOnce(InSessions', InRequests', spent, drawn'.challenge)
    BY <2>2, <2>3, QuietHeld
  <2> QED  BY <2>2, <2>3, <2>4, <2>5 DEF WebOK, DrawnGrows
<1>6. CASE \E u \in Tabs : Duplicate(t, u)
  <2>1. PICK u \in Tabs : Duplicate(t, u)
    BY <1>6
  <2>2. /\ tabs[t].at \in {"register_finish", "authenticate_finish", "add_credential_finish"}
        /\ UNCHANGED <<sessions, cookies, devices, drawn>>
        /\ tabs'[u] = tabs[t]
        /\ Moves(u, tabs[t].at, tabs[t].sid, tabs[t].data)
    BY <1>1, <2>1, DuplicateIs
  <2>5. DrawnGrows
    BY <1>1, <2>2 DEF DrawnGrows, DrawnOK
  <2>6. RequestOK(t)
    BY <1>1 DEF TabsOK
  <2>7. RequestOK(u)'
    BY <2>2, <2>6 DEF RequestOK, Registers, SignsIn, Issued
  <2>8. TabsOK' /\ SessionsOK(default)' /\ CookiesOK' /\ DevicesOK'
    BY <1>1, <2>2, <2>5, <2>7, TabsMove, SessionsStay, CookiesStay, DevicesStay
  <2>9. HeldOnce(InSessions', InRequests', spent, drawn'.challenge)
    BY <2>2, <2>5, QuietHeld DEF Holding
  <2> QED  BY <2>5, <2>8, <2>9 DEF WebOK, DrawnGrows
<1> QED  BY <1>3, <1>4, <1>5, <1>6

\* After a restart there are no sessions, and no request is on its way.
LEMMA RestartOK ==
    ASSUME NEW default, NEW spent, WebOK(default), Held(spent), Stop
    PROVE  WebOK(default)' /\ HeldOnce(InSessions', InRequests', spent, drawn'.challenge)
<1>1. TabsOK /\ SessionsOK(default) /\ CookiesOK /\ DevicesOK /\ DrawnOK
  BY DEF WebOK
<1>0. /\ sessions' = [s \in Sids |-> None]
      /\ tabs' = [t \in Tabs |-> IF tabs[t].at \in {"page", "create", "get"} THEN tabs[t]
                                 ELSE [tabs[t] EXCEPT !.at = "page", !.sid = None, !.data = None]]
      /\ UNCHANGED <<cookies, devices, drawn>>
  BY DEF Stop
<1>2. DrawnGrows
  BY <1>0, <1>1, DrawnSame
<1>3. ASSUME NEW t \in Tabs
      PROVE  \/ tabs'[t] = tabs[t] /\ tabs[t].at \in {"page", "create", "get"}
             \/ /\ tabs[t].at \notin {"page", "create", "get"}
                /\ DOMAIN tabs'[t] = {"browser", "at", "sid", "data"}
                /\ tabs'[t].browser = tabs[t].browser
                /\ tabs'[t].at = "page" /\ tabs'[t].sid = None
  <2>1. DOMAIN tabs[t] = {"browser", "at", "sid", "data"}
    BY <1>1 DEF TabsOK, RequestOK
  <2> QED  BY <1>0, <2>1
<1>4. TabsOK'
  <2>1. ASSUME NEW t \in Tabs PROVE RequestOK(t)'
    <3>1. RequestOK(t)
      BY <1>1 DEF TabsOK
    <3>2. CASE tabs'[t] = tabs[t]
      BY <1>2, <3>1, <3>2, RequestKept
    <3>3. CASE tabs'[t] # tabs[t]
      <4>1. /\ DOMAIN tabs'[t] = {"browser", "at", "sid", "data"}
            /\ tabs'[t].browser = tabs[t].browser /\ tabs[t].browser \in Browsers
            /\ tabs'[t].at = "page" /\ tabs'[t].sid = None
        BY <1>3, <3>1, <3>3 DEF RequestOK
      <4> QED  BY <4>1 DEF RequestOK
    <3> QED  BY <3>2, <3>3
  <2> QED  BY <1>0, <2>1 DEF TabsOK
<1>5. SessionsOK(default)'
  BY <1>0 DEF SessionsOK
<1>6. DevicesOK'
  <2>1. Getting' = Getting
    BY <1>3 DEF Getting
  <2> QED  BY <1>0, <1>1, <2>1 DEF DevicesOK, Issued
<1>7. CookiesOK'
  BY <1>0, <1>1, <1>2, CookiesStay
<1>8. HeldOnce(InSessions', InRequests', spent, drawn'.challenge)
  <2>1. \A s \in Sids, f \in Fields : InSessions'[s][f] \in {0, InSessions[s][f]}
    BY <1>0 DEF InSessions
  <2>2. \A t \in Tabs : InRequests'[t] \in {0, InRequests[t]}
    BY <1>3 DEF InRequests, Holding
  <2> QED  BY <1>2, <2>1, <2>2, FewerHeld
<1> QED  BY <1>2, <1>4, <1>5, <1>6, <1>7, <1>8 DEF WebOK, DrawnGrows

\* Nothing happens.
LEMMA StutterOK ==
    ASSUME NEW default, NEW spent, WebOK(default), Held(spent), UNCHANGED web
    PROVE  /\ WebOK(default)'
           /\ HeldOnce(InSessions', InRequests', spent, drawn'.challenge)
           /\ UNCHANGED <<sessions, cookies, tabs, devices, drawn>>
           /\ \A s \in Sids : Carriers(s)' = Carriers(s)
<1>1. UNCHANGED <<sessions, cookies, tabs, devices, drawn>>
  BY DEF web
<1>2. DrawnGrows /\ TabsOK /\ SessionsOK(default) /\ CookiesOK /\ DevicesOK /\ DrawnOK
  BY <1>1, DrawnSame DEF WebOK
<1>3. TabsOK' /\ SessionsOK(default)' /\ CookiesOK' /\ DrawnOK'
  BY <1>1, <1>2, TabsStay, SessionsStay, CookiesStay DEF DrawnGrows
<1>4. DevicesOK'
  BY <1>1, <1>2 DEF DevicesOK, Getting, Issued
<1>5. HeldOnce(InSessions', InRequests', spent, drawn'.challenge)
  BY <1>1 DEF Held, InSessions, InRequests
<1>6. \A s \in Sids : Carriers(s)' = Carriers(s)
  BY <1>1 DEF Carriers
<1> QED  BY <1>1, <1>3, <1>4, <1>5, <1>6 DEF WebOK

\* A sign-in ends the session of the request, and makes another one under a new
\* sid, which goes to the browser.
LEMMA RotateOK ==
    ASSUME NEW default, NEW spent, WebOK(default), Held(spent), Fields \subseteq DOMAIN default,
           NEW t \in Tabs, NEW signed, DOMAIN signed = DOMAIN default,
           \A f \in Fields : signed[f] = None,
           drawn.sid + 1 <= MaxSids, drawn' = [drawn EXCEPT !.sid = drawn.sid + 1],
           sessions' = [sessions EXCEPT ![tabs[t].sid] = None, ![drawn.sid + 1] = signed],
           UNCHANGED devices,
           \/ Arrives(t, "page", None, drawn.sid + 1)
           \/ Done(t) /\ UNCHANGED cookies
    PROVE  /\ WebOK(default)'
           /\ HeldOnce(InSessions', InRequests', spent, drawn'.challenge)
           /\ DrawnGrows /\ drawn'.challenge = drawn.challenge
           /\ drawn.sid + 1 \in Sids /\ sessions'[drawn.sid + 1] = signed
           /\ \A s \in Sids \ {drawn.sid + 1} : sessions'[s] \in {sessions[s], None}
           /\ cookies' \in {cookies, [cookies EXCEPT ![tabs[t].browser] = drawn.sid + 1]}
           /\ Moves(t, "page", None, None)
<1> DEFINE new == drawn.sid + 1
<1>1. TabsOK /\ SessionsOK(default) /\ CookiesOK /\ DevicesOK /\ DrawnOK
  BY DEF WebOK
<1>2. /\ DrawnGrows /\ drawn'.challenge = drawn.challenge /\ drawn'.sid = new
      /\ new \in Sids /\ new \in 1..drawn'.sid
  BY <1>1 DEF DrawnGrows, DrawnOK, Sids
<1>3. /\ DOMAIN sessions' = Sids /\ sessions'[new] = signed
      /\ \A s \in Sids \ {new} : sessions'[s] \in {sessions[s], None}
  <2>1. DOMAIN sessions = Sids
    BY <1>1 DEF SessionsOK
  <2> QED  BY <1>2, <2>1
<1>4. /\ CookiesOK'
      /\ cookies' \in {cookies, [cookies EXCEPT ![tabs[t].browser] = new]}
      /\ Moves(t, "page", None, None)
  <2>1. new \in 1..drawn'.sid \cup {None}
    BY <1>2
  <2> HIDE DEF new
  <2> QED  BY <1>1, <1>2, <2>1, ReplyMoves DEF new
<1>5. TabsOK'
  BY <1>1, <1>2, <1>4, TabsMoveFree DEF Free
<1>6. SessionsOK(default)'
  <2>1. drawn.sid <= drawn'.sid /\ drawn.sid \in Nat
    BY <1>1, <1>2 DEF DrawnOK
  <2>2. \A s \in Sids : sessions[s] # None
                           => s <= drawn.sid /\ DOMAIN sessions[s] = DOMAIN default
    BY <1>1 DEF SessionsOK
  <2>3. Sids \subseteq Nat
    BY DEF Sids
  <2> QED  BY <1>2, <1>3, <2>1, <2>2, <2>3 DEF SessionsOK
<1>7. DevicesOK'
  BY <1>1, <1>2, <1>4, DevicesStay
<1>8. HeldOnce(InSessions', InRequests', spent, drawn'.challenge)
  <2>1. \A s \in Sids, f \in Fields : InSessions'[s][f] \in {0, InSessions[s][f]}
    BY <1>3 DEF InSessions
  <2>2. \A u \in Tabs : InRequests'[u] \in {0, InRequests[u]}
    BY <1>4, RequestsMove DEF Holding
  <2> QED  BY <1>2, <2>1, <2>2, FewerHeld
<1> QED  BY <1>2, <1>3, <1>4, <1>5, <1>6, <1>7, <1>8 DEF WebOK, DrawnGrows

\* Nothing has been sent, saved or drawn at first.
LEMMA WebInitOK ==
    ASSUME NEW default, WebInit
    PROVE  WebOK(default) /\ HeldOnce(InSessions, InRequests, {}, drawn.challenge)
<1>1. PICK arranged \in Arrangements :
         /\ sessions = [s \in Sids |-> None]
         /\ cookies = [b \in Browsers |-> IF arranged.planted THEN 1 ELSE None]
         /\ tabs = [t \in Tabs |-> [browser |-> arranged.browser_of[t], at |-> "page",
                                    sid |-> None, data |-> None]]
         /\ devices = [d \in Devices |-> {}]
         /\ drawn = [challenge |-> 0, handle |-> 0, sid |-> IF arranged.planted THEN 1 ELSE 0]
  BY DEF WebInit
<1>2. arranged.browser_of \in [Tabs -> Browsers] /\ arranged.planted \in BOOLEAN
  BY WebAssumption
<1>3. DrawnOK
  BY <1>1, <1>2, WebAssumption DEF DrawnOK
<1>4. CookiesOK
  BY <1>1, <1>2 DEF CookiesOK
<1>5. SessionsOK(default)
  BY <1>1 DEF SessionsOK
<1>6. TabsOK
  <2>1. ASSUME NEW t \in Tabs PROVE RequestOK(t)
    <3>1. /\ DOMAIN tabs[t] = {"browser", "at", "sid", "data"}
          /\ tabs[t].browser \in Browsers /\ tabs[t].at = "page" /\ tabs[t].sid = None
      BY <1>1, <1>2
    <3> QED  BY <3>1 DEF RequestOK
  <2> QED  BY <1>1, <2>1 DEF TabsOK
<1>7. DevicesOK
  <2>1. Getting = {}
    BY <1>1 DEF Getting
  <2>2. Cardinality(Getting) = 0
    BY <2>1, FS_EmptySet
  <2>3. /\ DOMAIN devices = Devices /\ \A d \in Devices : devices[d] = {}
        /\ drawn.challenge = 0
    BY <1>1
  <2> QED  BY <2>2, <2>3 DEF DevicesOK
<1>8. HeldOnce(InSessions, InRequests, {}, drawn.challenge)
  <2>1. \A s \in Sids, f \in Fields : InSessions[s][f] = 0
    BY <1>1 DEF InSessions
  <2>2. \A t \in Tabs : InRequests[t] = 0
    BY <1>1 DEF InRequests, Holding
  <2>3. drawn.challenge = 0
    BY <1>1
  <2> HIDE DEF InSessions, InRequests
  <2> QED  BY <2>1, <2>2, <2>3 DEF HeldOnce
<1> QED  BY <1>3, <1>4, <1>5, <1>6, <1>7, <1>8 DEF WebOK

\* All tabs show their pages at first, and no sid is signed in.
LEMMA InitIs ==
    ASSUME WebInit
    PROVE  /\ \A s \in Sids : sessions[s] = None
           /\ \A t \in Tabs : tabs[t].at = "page" /\ tabs[t].data = None
           /\ drawn.challenge = 0 /\ drawn.handle = 0
<1>1. PICK arranged \in Arrangements :
         /\ sessions = [s \in Sids |-> None]
         /\ tabs = [t \in Tabs |-> [browser |-> arranged.browser_of[t], at |-> "page",
                                    sid |-> None, data |-> None]]
         /\ drawn = [challenge |-> 0, handle |-> 0, sid |-> IF arranged.planted THEN 1 ELSE 0]
  BY DEF WebInit
<1> QED  BY <1>1

-----------------------------------------------------------------------------
(* The answers that are on their way are within the bounds.                   *)

\* The challenge and the id of an answer to a registration.
LEMMA RegistersInRange ==
    ASSUME DrawnOK, NEW a, Registers(a)
    PROVE  a.challenge \in 1..MaxChallenges /\ a.id \in Devices \X (1..MaxChallenges)
<1>1. Issued \subseteq 1..MaxChallenges
  BY WebAssumption DEF Issued, DrawnOK
<1>2. PICK d \in Devices : a.id = <<d, a.challenge>>
  BY DEF Registers
<1>3. a.challenge \in 1..MaxChallenges
  BY <1>1 DEF Registers
<1> QED  BY <1>2, <1>3

\* The challenge, the id and the count of an answer to a sign-in.
LEMMA SignsInInRange ==
    ASSUME DrawnOK, NEW a, SignsIn(a)
    PROVE  /\ a.challenge \in 1..MaxChallenges /\ a.id \in Devices \X (1..MaxChallenges)
           /\ a.count \in 1..MaxChallenges /\ a.count \in 0..MaxChallenges
<1>1. Issued \subseteq 1..MaxChallenges /\ 1..MaxChallenges \subseteq 0..MaxChallenges
  BY WebAssumption DEF Issued, DrawnOK
<1> QED  BY <1>1 DEF SignsIn

-----------------------------------------------------------------------------
(* Logs.                                                                      *)

\* An event is appended whose challenge no earlier event has.
LEMMA AppendOnce ==
    ASSUME NEW S, NEW seq \in Seq(S), NEW e \in S,
           \A i, j \in DOMAIN seq : i # j => seq[i].challenge # seq[j].challenge,
           e.challenge \notin {seq[n].challenge : n \in DOMAIN seq}
    PROVE  LET new == Append(seq, e) IN
           /\ new \in Seq(S)
           /\ DOMAIN new = DOMAIN seq \cup {Len(seq) + 1}
           /\ Len(seq) + 1 \notin DOMAIN seq
           /\ \A n \in DOMAIN seq : new[n] = seq[n]
           /\ new[Len(seq) + 1] = e
           /\ \A i, j \in DOMAIN new : i # j => new[i].challenge # new[j].challenge
           /\ {new[n].challenge : n \in DOMAIN new}
                 = {seq[n].challenge : n \in DOMAIN seq} \cup {e.challenge}
<1> DEFINE new == Append(seq, e)
<1>1. /\ new \in Seq(S)
      /\ DOMAIN new = DOMAIN seq \cup {Len(seq) + 1}
      /\ Len(seq) + 1 \notin DOMAIN seq
      /\ \A n \in DOMAIN seq : new[n] = seq[n]
      /\ new[Len(seq) + 1] = e
  OBVIOUS
<1> HIDE DEF new
<1>2. \A i, j \in DOMAIN new : i # j => new[i].challenge # new[j].challenge
  BY <1>1
<1>3. {new[n].challenge : n \in DOMAIN new}
         = {seq[n].challenge : n \in DOMAIN seq} \cup {e.challenge}
  BY <1>1
<1> QED  BY <1>1, <1>2, <1>3 DEF new

-----------------------------------------------------------------------------
(* The answers of the authenticators.                                         *)

\* An honest answer to a registration: its challenge and its credential.
LEMMA RegistrationIs ==
    ASSUME NEW wa, NEW a
    PROVE  LET response == RegistrationOf(wa, a) IN
           /\ response.client_data_json.value.challenge.value = a.challenge
           /\ NewCredential(response).id = a.id
           /\ NewCredential(response).counter = 0
           /\ NewCredential(response).public_key_cose = cose_pubkey(a.id)
BY DEF RegistrationOf, RegistrationResponse, client_data, none_attestation, attestation_object,
       auth_data_register, NewCredential, Attested, Text

\* What is registered was asked for by the state's challenge.
LEMMA RegistersItsChallenge ==
    ASSUME NEW wa, NEW a, NEW state, NEW time,
           finish_registration(wa, state, RegistrationOf(wa, a), time) = Ok
    PROVE  a.challenge = state.challenge
BY RegistrationIs, FinishRegistrationOk

\* An honest answer to a sign-in.
LEMMA AssertionIs ==
    ASSUME NEW wa, NEW a
    PROVE  LET response == AssertionOf(wa, a) IN
           /\ response.client_data_json.value.challenge.value = a.challenge
           /\ response.id.value = a.id
           /\ response.authenticator_data.value.sign_count = a.count
BY DEF AssertionOf, AuthenticationResponse, client_data, auth_data_authenticate, Text

\* A sign-in that is accepted answers the state's challenge, with the stored
\* credential and a greater count.
LEMMA SignsInItsChallenge ==
    ASSUME NEW wa, NEW a, NEW state, NEW st, NEW time,
           finish_authentication(wa, state, AssertionOf(wa, a), st, time) = Ok
    PROVE  /\ a.challenge = state.challenge
           /\ a.id = st.id
           /\ state.allow_credentials # {} => a.id \in state.allow_credentials
           /\ st.counter \in Nat /\ a.count \in Nat \ {0} => st.counter < a.count
<1> DEFINE response == AssertionOf(wa, a)
<1>1. /\ VerifyAssertion(wa, state, response, st, time) = Ok
      /\ CheckCounter(st, response.authenticator_data.value) = Ok
  BY FinishAuthenticationOk
<1>2. /\ a.challenge = state.challenge
      /\ a.id = st.id
      /\ state.allow_credentials # {} => a.id \in state.allow_credentials
  BY <1>1, AssertionIs, VerifyAssertionOk
<1>3. response.authenticator_data.value.sign_count = a.count
  BY AssertionIs
<1> HIDE DEF response
<1>4. st.counter \in Nat /\ a.count \in Nat \ {0} => st.counter < a.count
  BY <1>1, <1>3, CheckCounterOk
<1> QED  BY <1>2, <1>4
-----------------------------------------------------------------------------
(* The credentials of a single user, as a registry of them.                   *)

Ids == Devices \X (1..MaxChallenges)

\* No two credentials have one id.
Unique(seq) == \A i, j \in DOMAIN seq : seq[i].id = seq[j].id => i = j

\* A credential with that id, and that count, is there.
Listed(seq, id, n) == \E i \in DOMAIN seq : seq[i].id = id /\ seq[i].counter = n

TableOf(seq) ==
    [id \in Ids |-> LET i == Find(seq, id) IN
                    IF i = 0 THEN None ELSE [owner |-> "alice", count |-> seq[i].counter]]

\* A credential that is listed is registered.
LEMMA ListedIsRegistered ==
    ASSUME NEW seq \in Seq(PasskeyCredentials), Unique(seq), NEW id \in Ids, NEW n,
           Listed(seq, id, n)
    PROVE  TableOf(seq)[id] = [owner |-> "alice", count |-> n]
<1>1. PICK i \in DOMAIN seq : seq[i].id = id /\ seq[i].counter = n
  BY DEF Listed
<1>2. \/ Find(seq, id) \in DOMAIN seq /\ seq[Find(seq, id)].id = id
      \/ Find(seq, id) = 0 /\ \A j \in DOMAIN seq : seq[j].id # id
  BY FoundById
<1>3. Find(seq, id) = i
  BY <1>1, <1>2 DEF Unique
<1>4. i # 0
  BY <1>1
<1> QED  BY <1>1, <1>3, <1>4 DEF TableOf

\* One that is not listed is not.
LEMMA UnlistedIsAbsent ==
    ASSUME NEW seq \in Seq(PasskeyCredentials), NEW id \in Ids, \A n : ~Listed(seq, id, n)
    PROVE  TableOf(seq)[id] = None
<1>1. \/ Find(seq, id) \in DOMAIN seq /\ seq[Find(seq, id)].id = id
      \/ Find(seq, id) = 0
  BY FoundById
<1>2. ~(Find(seq, id) \in DOMAIN seq /\ seq[Find(seq, id)].id = id)
  BY DEF Listed
<1>3. Find(seq, id) = 0
  BY <1>1, <1>2
<1> QED  BY <1>3 DEF TableOf

\* Two lists that list the same credential make the same entry.
LEMMA SameEntry ==
    ASSUME NEW seq \in Seq(PasskeyCredentials), Unique(seq),
           NEW new \in Seq(PasskeyCredentials), Unique(new), NEW id \in Ids,
           \A n : Listed(seq, id, n) <=> Listed(new, id, n)
    PROVE  TableOf(new)[id] = TableOf(seq)[id]
<1>1. CASE \E n : Listed(seq, id, n)
  <2>1. PICK n : Listed(seq, id, n) /\ Listed(new, id, n)
    BY <1>1
  <2>2. TableOf(seq)[id] = [owner |-> "alice", count |-> n]
    BY <2>1, ListedIsRegistered
  <2>3. TableOf(new)[id] = [owner |-> "alice", count |-> n]
    BY <2>1, ListedIsRegistered
  <2> QED  BY <2>2, <2>3
<1>2. CASE \A n : ~Listed(seq, id, n)
  <2>1. \A n : ~Listed(new, id, n)
    BY <1>2
  <2>2. TableOf(seq)[id] = None
    BY <1>2, UnlistedIsAbsent
  <2>3. TableOf(new)[id] = None
    BY <2>1, UnlistedIsAbsent
  <2> QED  BY <2>2, <2>3
<1> QED  BY <1>1, <1>2

\* The registry changes where the list does.
LEMMA TableDiffers ==
    ASSUME NEW seq \in Seq(PasskeyCredentials), Unique(seq),
           NEW new \in Seq(PasskeyCredentials), Unique(new), NEW id \in Ids,
           \A x \in Ids \ {id} : \A n : Listed(seq, x, n) <=> Listed(new, x, n)
    PROVE  TableOf(new) = [TableOf(seq) EXCEPT ![id] = TableOf(new)[id]]
<1>1. \A x \in Ids \ {id} : TableOf(new)[x] = TableOf(seq)[x]
  BY SameEntry
<1>2. /\ DOMAIN TableOf(seq) = Ids /\ DOMAIN TableOf(new) = Ids
      /\ TableOf(seq) = [x \in Ids |-> TableOf(seq)[x]]
      /\ TableOf(new) = [x \in Ids |-> TableOf(new)[x]]
  BY DEF TableOf
<1> HIDE DEF TableOf
<1> QED  BY <1>1, <1>2

\* A credential is pushed, with a new id.
LEMMA TableAppends ==
    ASSUME NEW seq \in Seq(PasskeyCredentials), Unique(seq), NEW new \in PasskeyCredentials,
           \A i \in DOMAIN seq : seq[i].id # new.id
    PROVE  /\ Unique(Append(seq, new))
           /\ new.id \in Ids /\ TableOf(seq)[new.id] = None
           /\ TableOf(Append(seq, new))
                 = [TableOf(seq) EXCEPT ![new.id] = [owner |-> "alice", count |-> new.counter]]
<1>1. PICK longer : longer = Append(seq, new)
  OBVIOUS
<1>2. /\ longer \in Seq(PasskeyCredentials)
      /\ DOMAIN longer = DOMAIN seq \cup {Len(seq) + 1}
      /\ Len(seq) + 1 \notin DOMAIN seq
      /\ longer[Len(seq) + 1] = new
      /\ \A i \in DOMAIN seq : longer[i] = seq[i]
  BY <1>1
<1>3. new.id \in Ids
  BY DEF PasskeyCredentials, Ids
<1>4. Unique(longer)
  BY <1>2 DEF Unique
<1>5. TableOf(seq)[new.id] = None
  BY <1>3, UnlistedIsAbsent DEF Listed
<1>6. Listed(longer, new.id, new.counter)
  BY <1>2 DEF Listed
<1>7. TableOf(longer)[new.id] = [owner |-> "alice", count |-> new.counter]
  BY <1>2, <1>3, <1>4, <1>6, ListedIsRegistered
<1>8. \A x \in Ids \ {new.id} : \A n : Listed(seq, x, n) <=> Listed(longer, x, n)
  BY <1>2 DEF Listed
<1>9. TableOf(longer) = [TableOf(seq) EXCEPT ![new.id] = TableOf(longer)[new.id]]
  BY <1>2, <1>3, <1>4, <1>8, TableDiffers
<1> QED  BY <1>1, <1>3, <1>4, <1>5, <1>7, <1>9

\* A credential gets another count.
LEMMA TableCounts ==
    ASSUME NEW seq \in Seq(PasskeyCredentials), Unique(seq), NEW i \in DOMAIN seq,
           NEW n \in 0..MaxChallenges
    PROVE  LET new == [seq EXCEPT ![i].counter = n]
               id  == seq[i].id
           IN  /\ new \in Seq(PasskeyCredentials) /\ Unique(new) /\ DOMAIN new = DOMAIN seq
               /\ \A j \in DOMAIN seq : new[j].id = seq[j].id
               /\ id \in Ids
               /\ TableOf(seq)[id] = [owner |-> "alice", count |-> seq[i].counter]
               /\ TableOf(new) = [TableOf(seq) EXCEPT ![id] = [owner |-> "alice", count |-> n]]
<1>1. PICK passkey, new, id :
         /\ passkey = [seq[i] EXCEPT !.counter = n] /\ new = [seq EXCEPT ![i].counter = n]
         /\ id = seq[i].id
  OBVIOUS
<1>2. seq[i] \in PasskeyCredentials
  OBVIOUS
<1>3. passkey \in PasskeyCredentials /\ passkey.id = id /\ passkey.counter = n /\ id \in Ids
  BY <1>1, <1>2 DEF PasskeyCredentials, Ids
<1>4. new = [seq EXCEPT ![i] = passkey]
  BY <1>1
<1>5. /\ new \in Seq(PasskeyCredentials) /\ DOMAIN new = DOMAIN seq
      /\ new[i] = passkey /\ \A j \in DOMAIN seq \ {i} : new[j] = seq[j]
  BY <1>3, <1>4
<1>6. Unique(new) /\ \A j \in DOMAIN seq : new[j].id = seq[j].id
  BY <1>1, <1>3, <1>5 DEF Unique
<1>7. Listed(new, id, n) /\ Listed(seq, id, seq[i].counter)
  BY <1>1, <1>3, <1>5 DEF Listed
<1>8. TableOf(seq)[id] = [owner |-> "alice", count |-> seq[i].counter]
  BY <1>3, <1>7, ListedIsRegistered
<1>9. TableOf(new)[id] = [owner |-> "alice", count |-> n]
  BY <1>3, <1>5, <1>6, <1>7, ListedIsRegistered
<1>10. \A x \in Ids \ {id} : \A m : Listed(seq, x, m) <=> Listed(new, x, m)
  BY <1>1, <1>5, <1>6 DEF Listed
<1>11. TableOf(new) = [TableOf(seq) EXCEPT ![id] = TableOf(new)[id]]
  BY <1>3, <1>5, <1>6, <1>10, TableDiffers
<1> QED  BY <1>1, <1>3, <1>5, <1>6, <1>8, <1>9, <1>11

\* A credential goes.
LEMMA TableRemoves ==
    ASSUME NEW seq \in Seq(PasskeyCredentials), Unique(seq),
           NEW new \in Seq(PasskeyCredentials), Unique(new), NEW id \in Ids,
           \A n : ~Listed(new, id, n),
           \A x \in Ids \ {id} : \A n : Listed(seq, x, n) <=> Listed(new, x, n)
    PROVE  TableOf(new) = [TableOf(seq) EXCEPT ![id] = None]
<1>1. TableOf(new)[id] = None
  BY UnlistedIsAbsent
<1>2. TableOf(new) = [TableOf(seq) EXCEPT ![id] = TableOf(new)[id]]
  BY TableDiffers
<1> QED  BY <1>1, <1>2
=============================================================================
