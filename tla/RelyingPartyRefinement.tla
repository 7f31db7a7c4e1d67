------------------------ MODULE RelyingPartyRefinement ------------------------
(* The proof that RelyingParty implements CredentialRegistry, for every value *)
(* of its constants.                                                          *)
EXTENDS RelyingPartyProofs

-----------------------------------------------------------------------------
(* Counts stay within the bound, so that the registry's Counts hold them. *)

CountsAreBounded ==
    /\ \A d \in Passkeys : passkeys[d].counter <= MaxCount
    /\ \A a \in answers : a.count <= MaxCount

LEMMA InitBounded == Init => CountsAreBounded
BY PartyAssumption DEF Init, CountsAreBounded

\* Only Create and Get send an answer, only Get and Restore set a counter.
LEMMA NextBounded == TypeOK /\ CountsAreBounded /\ [Next]_vars => CountsAreBounded'
<1> SUFFICES ASSUME TypeOK, CountsAreBounded, [Next]_vars PROVE CountsAreBounded'
  OBVIOUS
<1> USE DEF CountsAreBounded
<1>1. ASSUME UNCHANGED <<passkeys, answers>> PROVE CountsAreBounded'
  BY <1>1
<1>2. ASSUME NEW d \in Passkeys, NEW c \in Challenges, NEW o \in Pages, NEW f \in Gestures,
             Create(d, c, o, f)
      PROVE  CountsAreBounded'
  <2> DEFINE a == Answer(d, c, o, f, passkeys[d].counter, None)
  <2>1. a.count = passkeys[d].counter
    BY DEF Answer
  <2>2. answers' = answers \cup {a}
    BY <1>2 DEF Create, Send
  <2>3. \A e \in Passkeys : passkeys'[e].counter = passkeys[e].counter
    BY <1>2 DEF Create, TypeOK
  <2> HIDE DEF a
  <2> QED  BY <2>1, <2>2, <2>3
<1>3. ASSUME NEW d \in Passkeys, NEW c \in Challenges, NEW o \in Pages, NEW f \in Gestures,
             NEW h \in Handle, Get(d, c, o, f, h)
      PROVE  CountsAreBounded'
  <2> DEFINE a == Answer(d, c, o, f, NextCount(d), h)
  <2>1. a.count = NextCount(d) /\ NextCount(d) <= MaxCount
    BY <1>3 DEF Answer, Get
  <2>2. answers' = answers \cup {a}
    BY <1>3 DEF Get, Send
  <2>3. \A e \in Passkeys :
           passkeys'[e].counter = IF e = d THEN NextCount(d) ELSE passkeys[e].counter
    BY <1>3 DEF Get, TypeOK
  <2> HIDE DEF a
  <2> QED  BY <2>1, <2>2, <2>3
<1>4. ASSUME NEW d \in Passkeys, Restore(d) PROVE CountsAreBounded'
  <2>1. PICK n \in 0..MaxCount : passkeys' = [passkeys EXCEPT ![d].counter = n]
    BY <1>4 DEF Restore
  <2>2. \A e \in Passkeys :
           passkeys'[e].counter = IF e = d THEN n ELSE passkeys[e].counter
    BY <2>1 DEF TypeOK
  <2> QED  BY <1>4, <2>1, <2>2, PartyAssumption DEF Restore
<1>5. ASSUME NEW u \in Users, StartRegistration(u) \/ StartAuthenticationForUser(u)
      PROVE  CountsAreBounded'
  BY <1>1, <1>5 DEF StartRegistration, StartAuthenticationForUser, Issue
<1>6. CASE StartAuthentication
  BY <1>1, <1>6 DEF StartAuthentication, Issue
<1>7. ASSUME NEW a \in answers, NEW c \in Challenges,
             FinishRegistration(a, c) \/ FinishAuthentication(a, c)
      PROVE  CountsAreBounded'
  BY <1>1, <1>7 DEF FinishRegistration, FinishAuthentication
<1>8. CASE Tick \/ SetBack
  BY <1>1, <1>8 DEF Tick, SetBack
<1>9. CASE UNCHANGED vars
  BY <1>1, <1>9 DEF vars
<1> QED  BY <1>2, <1>3, <1>4, <1>5, <1>6, <1>7, <1>8, <1>9 DEF Next

\* The bound is the model's own, that of Get and Restore.
LEMMA CountsStayBounded == Spec => []CountsAreBounded
<1>1. TypeOK /\ CountsAreBounded /\ [Next]_vars => CountsAreBounded'
  BY NextBounded
<1> QED  BY <1>1, InitBounded, TypeCorrect, PTL DEF Spec

-----------------------------------------------------------------------------
(* The refinement mapping. *)

\* What the registry's history shows of an acceptance, and of all of them.
Seen(e) == [kind |-> e.kind, id |-> e.id, owner |-> e.user, count |-> e.count]

History(l) == [i \in DOMAIN l |-> Seen(l[i])]

\* One more acceptance is one more entry of the history.
LEMMA HistoryAppend ==
    ASSUME NEW l \in Seq(AcceptanceType), NEW e
    PROVE  History(Append(l, e)) = Append(History(l), Seen(e))
<1>1. /\ DOMAIN Append(l, e) = 1..Len(l) + 1
      /\ DOMAIN l = 1..Len(l) /\ Len(l) \in Nat
      /\ Append(l, e)[Len(l) + 1] = e
      /\ \A i \in 1..Len(l) : Append(l, e)[i] = l[i]
  OBVIOUS
<1> DEFINE S == {Seen(l[i]) : i \in 1..Len(l)}
<1>2. History(l) \in Seq(S) /\ Len(History(l)) = Len(l)
  <2>1. History(l) = [i \in 1..Len(l) |-> Seen(l[i])]
    BY <1>1 DEF History
  <2>2. History(l) \in [1..Len(l) -> S]
    BY <2>1
  <2> QED  BY <1>1, <2>2
<1>3. /\ DOMAIN Append(History(l), Seen(e)) = 1..Len(l) + 1
      /\ Append(History(l), Seen(e))[Len(l) + 1] = Seen(e)
      /\ \A i \in 1..Len(l) : Append(History(l), Seen(e))[i] = Seen(l[i])
  BY <1>1, <1>2 DEF History
<1> QED  BY <1>1, <1>3 DEF History

Table(st) ==
    [d \in Passkeys |->
        IF st[d] = None THEN None ELSE [owner |-> st[d].owner, count |-> st[d].counter]]

\* A longer log is a longer history.
LEMMA HistoryGrows ==
    ASSUME NEW l \in Seq(AcceptanceType), NEW e
    PROVE  History(Append(l, e)) # History(l)
<1>1. DOMAIN Append(l, e) = 1..Len(l) + 1 /\ DOMAIN l = 1..Len(l) /\ Len(l) \in Nat
  OBVIOUS
<1>2. DOMAIN History(Append(l, e)) = 1..Len(l) + 1 /\ DOMAIN History(l) = 1..Len(l)
  BY <1>1 DEF History
<1>3. Len(l) + 1 \in 1..Len(l) + 1 /\ Len(l) + 1 \notin 1..Len(l)
  BY <1>1
<1> QED  BY <1>2, <1>3

LEMMA InitRefines == Init => Registry!Init
<1> SUFFICES ASSUME Init PROVE Registry!Init  OBVIOUS
<1>1. log = <<>> /\ stored = [d \in Passkeys |-> None]
  BY DEF Init
<1>2. Table(stored) = [d \in Passkeys |-> None]
  BY <1>1 DEF Table
<1>3. History(log) = <<>>
  BY <1>1 DEF History
<1> QED  BY <1>2, <1>3 DEF Registry!Init, Registry!Empty, Table, History, Seen

\* What leaves the table and the log alone is a stuttering step.
LEMMA QuietRefines ==
    ASSUME UNCHANGED <<stored, log>> PROVE UNCHANGED Registry!vars
BY DEF Registry!vars

\* finish_registration accepts: the id is new, also to the history.
LEMMA RegisterRefines ==
    ASSUME IInv, IInv', CountsAreBounded, NEW a \in answers, NEW c \in Challenges,
           FinishRegistration(a, c), RegistrationVerdict(a, c) = Ok, IsFree(a.passkey)
    PROVE  Registry!Next
<1> DEFINE p     == a.passkey
           owner == ceremonies[c].state.user_id
           new   == [id |-> p, counter |-> a.count, public_key_cose |-> cose_pubkey(p),
                     owner |-> owner]
           entry == Accepted(a, c, owner)
<1>1. /\ p \in Passkeys /\ a.count \in 0..MaxCount /\ a.kind = "create"
  BY PartyAssumption DEF IInv, TypeOK, AnswerType, CountsAreBounded, FinishRegistration
<1>2. owner \in Users
  BY DEF IInv, TypeOK, CeremonyType, Challenges, FinishRegistration
<1>3. /\ stored' = [stored EXCEPT ![p] = new]
      /\ log' = Append(log, entry)
  BY NewCredentialIs DEF FinishRegistration
<1>4. new # None /\ new.owner = owner /\ new.counter = a.count
  <2>1. new \in CredentialType
    BY <1>1, <1>2, PartyAssumption DEF CredentialType
  <2> QED  BY <2>1, NoneAssumption
<1>5. Seen(entry) = [kind |-> "create", id |-> p, owner |-> owner, count |-> a.count]
  BY <1>1 DEF Seen, Accepted
<1>6. History(log') = Append(History(log), Seen(entry))
  BY <1>3, HistoryAppend DEF IInv, TypeOK
<1>7. \A i \in DOMAIN log : log[i].id # p
  BY DEF IInv, StoredCounterIsLatest, IsFree
<1>8. \A i \in DOMAIN History(log) : History(log)[i].id # p
  BY <1>7 DEF History, Seen
<1>9. Table(stored)[p] = None
  BY <1>1 DEF Table, IsFree
<1>10. Table(stored') = [Table(stored) EXCEPT ![p] = [owner |-> owner, count |-> a.count]]
  <2> HIDE DEF new
  <2>1. stored \in [Passkeys -> CredentialType \cup {None}]
    BY DEF IInv, TypeOK
  <2>2. \A d \in Passkeys : stored'[d] = IF d = p THEN new ELSE stored[d]
    BY <1>1, <1>3, <2>1
  <2> QED  BY <1>1, <1>4, <2>2 DEF Table
<1> HIDE DEF p, owner, new, entry
<1>11. Registry!Register(p, owner, a.count)
  BY <1>5, <1>6, <1>8, <1>9, <1>10
     DEF Registry!Register, Registry!Accept, Table, History, Seen
<1>12. History(log') # History(log)
  BY <1>3, HistoryGrows DEF IInv, TypeOK
<1> QED  BY <1>1, <1>2, <1>11, <1>12 DEF Registry!Next, History, Seen

\* finish_authentication accepts: the owner signs in, beyond the last count.
LEMMA SignInRefines ==
    ASSUME IInv, IInv', CountsAreBounded, NEW a \in answers, NEW c \in Challenges,
           FinishAuthentication(a, c), AuthenticationVerdict(a, c) = Ok
    PROVE  Registry!Next
<1> DEFINE p     == a.passkey
           owner == stored[p].owner
           entry == Accepted(a, c, SignedIn(a, c))
<1>1. /\ a \in AnswerType /\ p \in Passkeys /\ a.count \in 0..MaxCount /\ a.kind = "get"
      /\ stored[p] # None /\ owner = SignedIn(a, c)
  BY PartyAssumption
     DEF IInv, TypeOK, AnswerType, CountsAreBounded, FinishAuthentication, FoundFor
<1>2. stored[p] \in CredentialType /\ owner \in Users /\ stored[p].counter \in Nat
  BY <1>1 DEF IInv, TypeOK, CredentialType
<1>3. /\ stored' = [stored EXCEPT ![p].counter = a.count]
      /\ log' = Append(log, entry)
  BY SignCountIs DEF FinishAuthentication
<1>4. /\ Verified(a, c) = Ok
      /\ CheckCounter(stored[p], AssertionOf(a).authenticator_data.value) = Ok
  BY VerdictSplits, TryOk DEF CounterVerdict
<1>5. stored[p].counter < a.count \/ (stored[p].counter = 0 /\ a.count = 0)
  BY <1>1, <1>2, <1>4, CounterOk
<1>6. Seen(entry) = [kind |-> "get", id |-> p, owner |-> owner, count |-> a.count]
  BY <1>1 DEF Seen, Accepted
<1>7. History(log') = Append(History(log), Seen(entry))
  BY <1>3, HistoryAppend DEF IInv, TypeOK
<1>8. Table(stored)[p] = [owner |-> owner, count |-> stored[p].counter]
  BY <1>1 DEF Table
<1>9. Table(stored') = [Table(stored) EXCEPT ![p].count = a.count]
  <2> DEFINE new == [stored[p] EXCEPT !.counter = a.count]
  <2>1. new \in CredentialType /\ new.owner = owner /\ new.counter = a.count
    BY <1>1, <1>2 DEF CredentialType
  <2>2. new # None
    BY <2>1, NoneAssumption
  <2>3. stored \in [Passkeys -> CredentialType \cup {None}]
    BY DEF IInv, TypeOK
  <2>4. stored' = [stored EXCEPT ![p] = new]
    BY <1>3
  <2> HIDE DEF new
  <2>5. \A d \in Passkeys : stored'[d] = IF d = p THEN new ELSE stored[d]
    BY <1>1, <2>3, <2>4
  <2>6. Table(stored') = [Table(stored) EXCEPT ![p] = [owner |-> owner, count |-> a.count]]
    BY <1>1, <2>1, <2>2, <2>5 DEF Table
  <2>7. [Table(stored)[p] EXCEPT !.count = a.count] = [owner |-> owner, count |-> a.count]
    BY <1>8
  <2>8. [Table(stored) EXCEPT ![p].count = a.count]
           = [Table(stored) EXCEPT ![p] = [Table(stored)[p] EXCEPT !.count = a.count]]
    BY <1>1 DEF Table
  <2> QED  BY <2>6, <2>7, <2>8
<1>10. Table(stored)[p] # None
  <2>1. [owner |-> owner, count |-> stored[p].counter] # None
    BY <1>2, NoneAssumption
  <2> QED  BY <1>8, <2>1
<1> HIDE DEF p, owner, entry
<1>11. /\ Table(stored)[p].count = stored[p].counter
       /\ Table(stored)[p] = [owner |-> owner, count |-> Table(stored)[p].count]
  BY <1>8
<1>12. Registry!Accept("get", p, owner, a.count)
  BY <1>6, <1>7 DEF Registry!Accept, History, Seen
<1>13. Registry!SignIn(p, a.count)
  BY <1>2, <1>5, <1>9, <1>11, <1>12 DEF Registry!SignIn, Table
<1>14. History(log') # History(log)
  BY <1>3, HistoryGrows DEF IInv, TypeOK
<1> QED  BY <1>1, <1>13, <1>14 DEF Registry!Next, History, Seen

LEMMA NextRefines ==
    IInv /\ IInv' /\ CountsAreBounded /\ [Next]_vars => [Registry!Next]_Registry!vars
<1> SUFFICES ASSUME IInv, IInv', CountsAreBounded, [Next]_vars
             PROVE  [Registry!Next]_Registry!vars
  OBVIOUS
<1>1. ASSUME UNCHANGED <<stored, log>> PROVE [Registry!Next]_Registry!vars
  BY <1>1, QuietRefines
<1>2. ASSUME NEW u \in Users, StartRegistration(u) \/ StartAuthenticationForUser(u)
      PROVE  [Registry!Next]_Registry!vars
  BY <1>1, <1>2 DEF StartRegistration, StartAuthenticationForUser, Issue
<1>3. CASE StartAuthentication
  BY <1>1, <1>3 DEF StartAuthentication, Issue
<1>4. ASSUME NEW d \in Passkeys, NEW c \in Challenges, NEW o \in Pages, NEW f \in Gestures,
             Create(d, c, o, f) \/ \E h \in Handle : Get(d, c, o, f, h)
      PROVE  [Registry!Next]_Registry!vars
  BY <1>1, <1>4 DEF Create, Get, Send
<1>5. ASSUME NEW d \in Passkeys, Restore(d) PROVE [Registry!Next]_Registry!vars
  BY <1>1, <1>5 DEF Restore
<1>6. ASSUME NEW a \in answers, NEW c \in Challenges, FinishRegistration(a, c)
      PROVE  [Registry!Next]_Registry!vars
  <2>1. CASE RegistrationVerdict(a, c) = Ok /\ IsFree(a.passkey)
    BY <1>6, <2>1, RegisterRefines
  <2>2. CASE ~(RegistrationVerdict(a, c) = Ok /\ IsFree(a.passkey))
    BY <1>1, <1>6, <2>2 DEF FinishRegistration
  <2> QED  BY <2>1, <2>2
<1>7. ASSUME NEW a \in answers, NEW c \in Challenges, FinishAuthentication(a, c)
      PROVE  [Registry!Next]_Registry!vars
  <2>1. CASE AuthenticationVerdict(a, c) = Ok
    BY <1>7, <2>1, SignInRefines
  <2>2. CASE AuthenticationVerdict(a, c) # Ok
    BY <1>1, <1>7, <2>2 DEF FinishAuthentication
  <2> QED  BY <2>1, <2>2
<1>8. CASE Tick \/ SetBack
  BY <1>1, <1>8 DEF Tick, SetBack
<1>9. CASE UNCHANGED vars
  BY <1>1, <1>9 DEF vars
<1> QED  BY <1>2, <1>3, <1>4, <1>5, <1>6, <1>7, <1>8, <1>9 DEF Next

\* The crate promises a registry: whatever the ceremonies, answers and clocks do,
\* finish_registration registers an id once and for one user, and
\* finish_authentication signs in that user with a count beyond the last one.
THEOREM PartyImplementsRegistry == Spec => ImplementsRegistry
<1>1. Spec => [](IInv /\ CountsAreBounded)
  BY IInvHolds, CountsStayBounded, PTL
<1>2. Init => Registry!Init
  BY InitRefines
<1>3. IInv /\ IInv' /\ CountsAreBounded /\ [Next]_vars => [Registry!Next]_Registry!vars
  BY NextRefines
<1> QED  BY <1>1, <1>2, <1>3, PTL DEF Spec, ImplementsRegistry, Registry!Spec
=============================================================================
