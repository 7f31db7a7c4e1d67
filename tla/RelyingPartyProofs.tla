------------------------- MODULE RelyingPartyProofs --------------------------
(* Proofs of the safety properties of RelyingParty, for every value of its  *)
(* constants.                                                               *)
EXTENDS RelyingParty, WebauthnProofs, SequenceTheorems

-----------------------------------------------------------------------------
(* What a verdict of Ok says of an answer. *)

\* The arguments of the facade's functions, for an answer and a ceremony.
Verified(a, c) ==
    VerifyAssertion(wa, ceremonies[c].state, AssertionOf(a), stored[a.passkey], now)

CounterVerdict(a) ==
    CheckCounter(stored[a.passkey], AssertionOf(a).authenticator_data.value)

LEMMA VerdictSplits ==
    ASSUME NEW a, NEW c
    PROVE  AuthenticationVerdict(a, c) = (Verified(a, c) ?? CounterVerdict(a))
BY DEF AuthenticationVerdict, finish_authentication, Verified, CounterVerdict

\* What finish_authentication has checked when it comes to the counter.
LEMMA VerifiedOk ==
    ASSUME NEW a \in AnswerType, NEW c, Verified(a, c) = Ok
    PROVE  LET s == ceremonies[c].state IN
           /\ check_not_expired(s.created_at, now) = Ok
           /\ s.allow_credentials # {} => a.passkey \in s.allow_credentials
           /\ s.user_handle # None /\ a.handle # None => a.handle = s.user_handle
           /\ wa.require_user_handle /\ s.user_handle # None => a.handle # None
           /\ a.challenge = s.challenge
           /\ a.origin = wa.origin
           /\ wa.require_uv => "UV" \in a.flags
<1> DEFINE s  == ceremonies[c].state
           r  == AssertionOf(a)
<1>1. VerifyAssertion(wa, s, r, stored[a.passkey], now) = Ok
  BY DEF Verified
<1>2. /\ r.id.value = a.passkey
      /\ r.client_data_json.value.challenge.value = a.challenge
      /\ r.client_data_json.value.origin = a.origin
      /\ r.authenticator_data.value.flags = a.flags
      /\ a.handle = None => r.user_handle = None
      /\ a.handle # None => r.user_handle # None /\ r.user_handle.value = a.handle
  BY NoneAssumption
     DEF AnswerType, Handle, AssertionOf, AuthenticationResponse, client_data,
         auth_data_authenticate, Text
<1> HIDE DEF s, r
<1> QED  BY <1>1, <1>2, VerifyAssertionOk DEF s

\* What finish_registration has checked when it returns a credential.
LEMMA RegistrationOk ==
    ASSUME NEW a \in AnswerType, NEW c, RegistrationVerdict(a, c) = Ok
    PROVE  /\ a.challenge = ceremonies[c].state.challenge
           /\ a.origin = wa.origin
           /\ wa.require_uv => "UV" \in a.flags
<1> DEFINE s == ceremonies[c].state
           r == RegistrationOf(a)
<1>1. finish_registration(wa, s, r, now) = Ok
  BY DEF RegistrationVerdict
<1>2. /\ r.client_data_json.value.challenge.value = a.challenge
      /\ r.client_data_json.value.origin = a.origin
      /\ r.attestation_object.value.auth_data.flags = a.flags \cup {"AT"}
  BY DEF RegistrationOf, RegistrationResponse, client_data, none_attestation,
         attestation_object, auth_data_register, Text
<1> HIDE DEF s, r
<1> QED  BY <1>1, <1>2, FinishRegistrationOk DEF s

\* The credential that finish_registration returns is the answering passkey's.
LEMMA NewCredentialIs ==
    ASSUME NEW a
    PROVE  /\ NewCredential(RegistrationOf(a)).id = a.passkey
           /\ NewCredential(RegistrationOf(a)).counter = a.count
           /\ NewCredential(RegistrationOf(a)).public_key_cose = cose_pubkey(a.passkey)
<1> DEFINE r == RegistrationOf(a)
<1>1. /\ "AT" \in r.attestation_object.value.auth_data.flags
      /\ r.attestation_object.value.auth_data.credential_id = a.passkey
      /\ r.attestation_object.value.auth_data.sign_count = a.count
      /\ r.attestation_object.value.auth_data.cose = cose_pubkey(a.passkey)
  BY DEF RegistrationOf, RegistrationResponse, none_attestation, attestation_object,
         auth_data_register, Text
<1> HIDE DEF r
<1> QED  BY <1>1, NewCredentialOf DEF r

LEMMA SignCountIs ==
    ASSUME NEW a PROVE AssertionOf(a).authenticator_data.value.sign_count = a.count
BY DEF AssertionOf, AuthenticationResponse, auth_data_authenticate, Text

\* finish_authentication, step 5.
LEMMA CounterOk ==
    ASSUME NEW a \in AnswerType, NEW st, st.counter \in Nat,
           CheckCounter(st, AssertionOf(a).authenticator_data.value) = Ok
    PROVE  st.counter < a.count \/ (a.count = 0 /\ st.counter = 0)
BY SignCountIs, CheckCounterOk DEF AnswerType

-----------------------------------------------------------------------------
(* Type correctness. *)

LEMMA InitTypeOK == Init => TypeOK
<1> SUFFICES ASSUME Init PROVE TypeOK  OBVIOUS
<1> USE PartyAssumption, NoneAssumption DEF Init
<1>1. ceremonies \in Seq(CeremonyType)
  <2>1. ASSUME NEW u \in LegacyUsers
        PROVE  [kind |-> "create", state |-> start_registration(1, u, 0)] \in CeremonyType
    BY DEF CeremonyType, start_registration
  <2>2. ASSUME NEW e \in CeremonyType PROVE <<e>> \in Seq(CeremonyType)
    OBVIOUS
  <2>3. CASE ceremonies = <<>>
    BY <2>3
  <2>4. ASSUME NEW u \in LegacyUsers,
               ceremonies = <<[kind |-> "create", state |-> start_registration(1, u, 0)]>>
        PROVE  ceremonies \in Seq(CeremonyType)
    BY <2>1, <2>2, <2>4
  <2> QED  BY <2>3, <2>4
<1>2. passkeys \in [Passkeys -> [counter : Nat, user : Handle]]
  BY DEF Handle
<1> QED  BY <1>1, <1>2 DEF TypeOK

\* One step per action; Handle and the record types are opened where they matter.
LEMMA NextTypeOK == TypeOK /\ [Next]_vars => TypeOK'
<1> SUFFICES ASSUME TypeOK, [Next]_vars PROVE TypeOK'  OBVIOUS
<1> USE PartyAssumption, NoneAssumption DEF TypeOK
<1>1. ASSUME NEW kind, NEW state, [kind |-> kind, state |-> state] \in CeremonyType,
             Issue(kind, state)
      PROVE  TypeOK'
  BY <1>1, AppendProperties DEF Issue
<1>2. NextChallenge \in Nat
  BY DEF NextChallenge
<1>3. ASSUME NEW u \in Users, StartRegistration(u) PROVE TypeOK'
  <2>1. [kind |-> "create", state |-> start_registration(NextChallenge, u, now)] \in CeremonyType
    BY <1>2 DEF CeremonyType, start_registration
  <2> QED  BY <1>1, <1>3, <2>1 DEF StartRegistration
<1>4. ASSUME StartAuthentication PROVE TypeOK'
  <2>1. [kind |-> "get", state |-> start_authentication(NextChallenge, {}, now)] \in CeremonyType
    BY <1>2 DEF CeremonyType, start_authentication, Handle
  <2> QED  BY <1>1, <1>4, <2>1 DEF StartAuthentication
<1>5. ASSUME NEW u \in Users, StartAuthenticationForUser(u) PROVE TypeOK'
  <2>1. CredentialsOf(u) \in SUBSET Passkeys
    BY DEF CredentialsOf
  <2>2. [kind  |-> "get",
         state |-> start_authentication_for_user(NextChallenge, u, CredentialsOf(u), now)]
           \in CeremonyType
    BY <1>2, <2>1
       DEF CeremonyType, start_authentication, start_authentication_for_user, Handle
  <2> QED  BY <1>1, <1>5, <2>2 DEF StartAuthenticationForUser
<1>6. ASSUME NEW c \in Challenges
      PROVE  /\ c \in Nat
             /\ ceremonies[c] \in CeremonyType
             /\ ceremonies[c].kind = "create" => ceremonies[c].state.user_id \in Users
             /\ ceremonies[c].kind = "get"
                   => /\ ceremonies[c].state.user_handle \in Handle
                      /\ ceremonies[c].state.allow_credentials \subseteq Passkeys
  <2>1. c \in Nat /\ ceremonies[c] \in CeremonyType
    BY DEF Challenges
  <2> QED  BY <2>1 DEF CeremonyType
<1>7. ASSUME NEW d \in Passkeys PROVE NextCount(d) \in Nat
  BY DEF NextCount
<1>8. ASSUME NEW d \in Passkeys, NEW c \in Challenges, NEW o \in Pages, NEW f \in Gestures,
             Create(d, c, o, f)
      PROVE  TypeOK'
  <2>1. Answer(d, c, o, f, passkeys[d].counter, None) \in AnswerType
    BY <1>6, <1>8 DEF Create, Answer, AnswerType, Handle
  <2>2. passkeys' \in [Passkeys -> [counter : Nat, user : Handle]]
    BY <1>6, <1>8 DEF Create, Handle
  <2> QED  BY <1>8, <2>1, <2>2 DEF Create, Send
<1>9. ASSUME NEW d \in Passkeys, NEW c \in Challenges, NEW o \in Pages, NEW f \in Gestures,
             NEW h \in Handle, Get(d, c, o, f, h)
      PROVE  TypeOK'
  <2>1. NextCount(d) \in Nat /\ c \in Nat /\ ceremonies[c].kind = "get"
    BY <1>6, <1>7, <1>9 DEF Get
  <2>2. Answer(d, c, o, f, NextCount(d), h) \in AnswerType
    BY <2>1 DEF Answer, AnswerType
  <2>3. passkeys' \in [Passkeys -> [counter : Nat, user : Handle]]
    <3>1. \A r \in [counter : Nat, user : Handle], m \in Nat :
             [r EXCEPT !.counter = m] \in [counter : Nat, user : Handle]
      OBVIOUS
    <3>2. passkeys' = [passkeys EXCEPT ![d] = [passkeys[d] EXCEPT !.counter = NextCount(d)]]
      BY <1>9 DEF Get
    <3>3. passkeys[d] \in [counter : Nat, user : Handle]
      OBVIOUS
    <3> QED  BY <2>1, <3>1, <3>2, <3>3
  <2> QED  BY <1>9, <2>2, <2>3 DEF Get, Send
<1>10. ASSUME NEW d \in Passkeys, Restore(d) PROVE TypeOK'
  <2>1. PICK n \in 0..MaxCount : passkeys' = [passkeys EXCEPT ![d].counter = n]
    BY <1>10 DEF Restore
  <2>2. n \in Nat
    OBVIOUS
  <2>3. [passkeys[d] EXCEPT !.counter = n] \in [counter : Nat, user : Handle]
    <3>1. \A r \in [counter : Nat, user : Handle], m \in Nat :
             [r EXCEPT !.counter = m] \in [counter : Nat, user : Handle]
      OBVIOUS
    <3>2. passkeys[d] \in [counter : Nat, user : Handle]
      OBVIOUS
    <3> QED  BY <2>2, <3>1, <3>2
  <2>4. passkeys' = [passkeys EXCEPT ![d] = [passkeys[d] EXCEPT !.counter = n]]
    BY <2>1
  <2>5. passkeys' \in [Passkeys -> [counter : Nat, user : Handle]]
    BY <2>3, <2>4
  <2> QED  BY <1>10, <2>5 DEF Restore
<1>11. ASSUME NEW a \in answers, NEW c \in Challenges, FinishRegistration(a, c)
       PROVE  TypeOK'
  <2>1. CASE UNCHANGED <<stored, log>>
    BY <1>11, <2>1 DEF FinishRegistration
  <2>2. CASE RegistrationVerdict(a, c) = Ok /\ IsFree(a.passkey)
    <3> DEFINE owner == ceremonies[c].state.user_id
               new   == [id |-> a.passkey, counter |-> a.count,
                         public_key_cose |-> cose_pubkey(a.passkey), owner |-> owner]
    <3>1. /\ a.passkey \in Passkeys /\ a.count \in Nat /\ a.kind \in {"create", "get"}
          /\ c \in Nat /\ owner \in Users
      BY <1>6, <1>11 DEF AnswerType, FinishRegistration
    <3>2. /\ stored' = [stored EXCEPT ![a.passkey] = new]
          /\ log' = Append(log, Accepted(a, c, owner))
      BY <1>11, <2>2, NewCredentialIs DEF FinishRegistration
    <3>3. new \in CredentialType
      BY <3>1 DEF CredentialType
    <3>4. Accepted(a, c, owner) \in AcceptanceType
      BY <3>1 DEF Accepted, AcceptanceType
    <3> HIDE DEF owner
    <3>5. /\ stored' \in [Passkeys -> CredentialType \cup {None}]
          /\ \A d \in Passkeys :
                stored'[d] # None
                    => stored'[d].id = d /\ stored'[d].public_key_cose = cose_pubkey(d)
      BY <3>1, <3>2, <3>3
    <3>6. log' \in Seq(AcceptanceType)
      BY <3>2, <3>4, AppendProperties
    <3> QED  BY <1>11, <3>5, <3>6 DEF FinishRegistration
  <2> QED  BY <1>11, <2>1, <2>2 DEF FinishRegistration
<1>12. ASSUME NEW a \in answers, NEW c \in Challenges, FinishAuthentication(a, c)
       PROVE  TypeOK'
  <2>1. CASE UNCHANGED <<stored, log>>
    BY <1>12, <2>1 DEF FinishAuthentication
  <2>2. CASE AuthenticationVerdict(a, c) = Ok
    <3>1. /\ a.passkey \in Passkeys /\ a.count \in Nat /\ a.kind \in {"create", "get"}
          /\ c \in Nat /\ stored[a.passkey] \in CredentialType
      BY <1>6, <1>12 DEF AnswerType, FinishAuthentication, FoundFor
    <3>2. /\ stored' = [stored EXCEPT ![a.passkey].counter = a.count]
          /\ log' = Append(log, Accepted(a, c, SignedIn(a, c)))
      BY <1>12, <2>2, SignCountIs DEF FinishAuthentication
    <3>3. SignedIn(a, c) \in Users
      BY <1>12, <3>1 DEF FinishAuthentication, FoundFor, CredentialType
    <3>4. Accepted(a, c, SignedIn(a, c)) \in AcceptanceType
      BY <3>1, <3>3 DEF Accepted, AcceptanceType
    <3>5. [stored[a.passkey] EXCEPT !.counter = a.count] \in CredentialType
      BY <3>1 DEF CredentialType
    <3>6. /\ stored' \in [Passkeys -> CredentialType \cup {None}]
          /\ \A d \in Passkeys :
                stored'[d] # None
                    => stored'[d].id = d /\ stored'[d].public_key_cose = cose_pubkey(d)
      <4>1. stored' = [stored EXCEPT ![a.passkey] = [stored[a.passkey] EXCEPT !.counter = a.count]]
        BY <3>2
      <4>2. /\ [stored[a.passkey] EXCEPT !.counter = a.count].id = stored[a.passkey].id
            /\ [stored[a.passkey] EXCEPT !.counter = a.count].public_key_cose
                  = stored[a.passkey].public_key_cose
        BY <3>1 DEF CredentialType
      <4>3. stored[a.passkey] # None
        BY <1>12 DEF FinishAuthentication, FoundFor
      <4> HIDE DEF CredentialType
      <4> QED  BY <3>1, <3>5, <4>1, <4>2, <4>3
    <3>7. log' \in Seq(AcceptanceType)
      BY <3>2, <3>4, AppendProperties
    <3> QED  BY <1>12, <3>6, <3>7 DEF FinishAuthentication
  <2> QED  BY <1>12, <2>1, <2>2 DEF FinishAuthentication
<1>13. CASE Tick
  BY <1>13 DEF Tick
<1>14. ASSUME SetBack PROVE TypeOK'
  BY <1>14 DEF SetBack
<1>15. CASE UNCHANGED vars
  BY <1>15 DEF vars
<1> QED
  BY <1>3, <1>4, <1>5, <1>8, <1>9, <1>10, <1>11, <1>12, <1>13, <1>14, <1>15 DEF Next

\* Every reachable state is well typed.
THEOREM TypeCorrect == Spec => []TypeOK
<1>1. Init => TypeOK               BY InitTypeOK
<1>2. TypeOK /\ [Next]_vars => TypeOK'  BY NextTypeOK
<1> QED  BY <1>1, <1>2, PTL DEF Spec

-----------------------------------------------------------------------------
(* The inductive invariant. *)

LEMMA InitIInv == Init => IInv
<1> SUFFICES ASSUME Init PROVE IInv  OBVIOUS
<1>1. TypeOK
  BY InitTypeOK
<1>2. /\ answers = {} /\ log = <<>>
      /\ \A d \in Passkeys : stored[d] = None
  BY DEF Init
<1>3. \A c \in Challenges : ceremonies[c].kind = "create" /\ ceremonies[c].state.challenge = c
  <2>1. CASE ceremonies = <<>>
    BY <2>1 DEF Challenges
  <2>2. ASSUME NEW u \in LegacyUsers,
               ceremonies = <<[kind |-> "create", state |-> start_registration(1, u, 0)]>>
        PROVE  \A c \in Challenges :
                  ceremonies[c].kind = "create" /\ ceremonies[c].state.challenge = c
    BY <2>2 DEF Challenges, start_registration
  <2> QED  BY <2>1, <2>2 DEF Init
<1> QED
  BY <1>1, <1>2, <1>3
     DEF IInv, ChallengesAreIndices, AnswersAreReal, AllowListsAreScoped,
         StoredCounterIsLatest, CountsStrictlyIncrease, AcceptedAnswersItsCeremony,
         FiledUnderItsUser

\* Starting a ceremony: the new state carries the next challenge, and its allow
\* list is scoped when it names a user.
LEMMA IssueStep ==
    ASSUME IInv, NEW kind, NEW state, Issue(kind, state), TypeOK',
           state.challenge = NextChallenge,
           kind = "get" /\ state.user_handle # None =>
              \A d \in state.allow_credentials :
                 stored[d] # None /\ stored[d].owner = state.user_handle
    PROVE  IInv'
<1> USE DEF IInv
<1>1. /\ UNCHANGED <<wa, now, passkeys, answers, stored, log>>
      /\ ceremonies' = Append(ceremonies, [kind |-> kind, state |-> state])
      /\ ceremonies \in Seq(CeremonyType) /\ ceremonies' \in Seq(CeremonyType)
  BY DEF Issue, TypeOK
<1>2. /\ Challenges \subseteq Challenges'
      /\ \A c \in Challenges : ceremonies'[c] = ceremonies[c]
      /\ \A c \in Challenges' \ Challenges :
            c = NextChallenge /\ ceremonies'[c] = [kind |-> kind, state |-> state]
  BY <1>1 DEF Challenges, NextChallenge
<1>3. ChallengesAreIndices'
  BY <1>2 DEF ChallengesAreIndices
<1>4. AnswersAreReal'
  BY <1>1, <1>2 DEF AnswersAreReal
<1>5. AllowListsAreScoped'
  <2> SUFFICES ASSUME NEW c \in Challenges', ceremonies'[c].kind = "get",
                      ceremonies'[c].state.user_handle # None,
                      NEW d \in ceremonies'[c].state.allow_credentials
               PROVE  stored[d] # None /\ stored[d].owner = ceremonies'[c].state.user_handle
    BY <1>1 DEF AllowListsAreScoped
  <2>1. CASE c \in Challenges
    BY <1>2, <2>1 DEF AllowListsAreScoped
  <2>2. CASE c \notin Challenges
    <3>1. ceremonies'[c].kind = kind /\ ceremonies'[c].state = state
      BY <1>2, <2>2
    <3> QED  BY <3>1
  <2> QED  BY <2>1, <2>2
<1> QED
  BY <1>1, <1>3, <1>4, <1>5
     DEF StoredCounterIsLatest, CountsStrictlyIncrease, AcceptedAnswersItsCeremony,
         FiledUnderItsUser

\* An answer: the passkeys that answered before keep their user.
LEMMA SendStep ==
    ASSUME IInv, TypeOK', NEW a, Send(a),
           \A d \in Passkeys : passkeys[d].user # None => passkeys'[d].user = passkeys[d].user,
           a.challenge \in Challenges,
           a.kind = ceremonies[a.challenge].kind,
           passkeys'[a.passkey].user # None,
           a.kind = "create" =>
              passkeys'[a.passkey].user = ceremonies[a.challenge].state.user_id
    PROVE  IInv'
<1> USE DEF IInv
<1>1. UNCHANGED <<wa, now, ceremonies, stored, log>> /\ answers' = answers \cup {a}
  BY DEF Send
<1>2. \A b \in answers : b.passkey \in Passkeys
  BY DEF TypeOK, AnswerType
<1>3. AnswersAreReal'
  BY <1>1, <1>2 DEF AnswersAreReal, Challenges
<1>4. AcceptedAnswersItsCeremony'
  BY <1>1 DEF AcceptedAnswersItsCeremony
<1>5. FiledUnderItsUser'
  <2>1. \A d \in Passkeys : stored[d] # None => stored[d].owner # None
    BY NoneAssumption DEF TypeOK, CredentialType
  <2> QED  BY <1>1, <2>1 DEF FiledUnderItsUser
<1> QED
  BY <1>1, <1>3, <1>4, <1>5
     DEF ChallengesAreIndices, AllowListsAreScoped, StoredCounterIsLatest,
         CountsStrictlyIncrease, Challenges

\* Nothing but counters of passkeys and the clock changes.
LEMMA QuietStep ==
    ASSUME IInv, TypeOK', UNCHANGED <<wa, ceremonies, answers, stored, log>>,
           \A d \in Passkeys : passkeys'[d].user = passkeys[d].user
    PROVE  IInv'
<1>1. \A a \in answers : a.passkey \in Passkeys
  BY DEF IInv, TypeOK, AnswerType
<1> QED
  BY <1>1
     DEF IInv, ChallengesAreIndices, AnswersAreReal, AllowListsAreScoped,
         StoredCounterIsLatest, CountsStrictlyIncrease, AcceptedAnswersItsCeremony,
         FiledUnderItsUser, Challenges

LEMMA AcceptancesAreTyped ==
    TypeOK => \A i \in DOMAIN log : log[i].id \in Passkeys /\ log[i].count \in Nat
<1>1. TypeOK => \A i \in DOMAIN log : log[i] \in AcceptanceType
  BY DEF TypeOK
<1> QED  BY <1>1 DEF AcceptanceType

\* finish_registration accepts: the passkey answered this ceremony, so it is the
\* ceremony's user's, and it had no row and so no acceptance yet.
LEMMA RegisterStep ==
    ASSUME IInv, TypeOK', NEW a \in answers, NEW c \in Challenges, FinishRegistration(a, c),
           RegistrationVerdict(a, c) = Ok, IsFree(a.passkey)
    PROVE  IInv'
<1> USE DEF IInv
<1> DEFINE p     == a.passkey
           owner == ceremonies[c].state.user_id
           entry == Accepted(a, c, owner)
<1>1. a \in AnswerType /\ p \in Passkeys /\ a.count \in Nat
  BY DEF TypeOK, AnswerType
<1>2. /\ UNCHANGED <<wa, now, ceremonies, passkeys, answers>>
      /\ log' = Append(log, entry)
      /\ stored' = [stored EXCEPT ![p] = [id |-> p, counter |-> a.count,
                        public_key_cose |-> cose_pubkey(p), owner |-> owner]]
      /\ a.kind = "create" /\ ceremonies[c].kind = "create"
  BY NewCredentialIs DEF FinishRegistration
<1>3. /\ a.challenge = c
      /\ a.origin = wa.origin
      /\ wa.require_uv => "UV" \in a.flags
  BY <1>1, RegistrationOk DEF ChallengesAreIndices
<1>4. /\ entry.id = p /\ entry.count = a.count /\ entry.kind = a.kind
      /\ entry.ceremony = c /\ entry.user = owner
  BY DEF Accepted
<1>5. /\ stored'[p] # None /\ stored'[p].counter = a.count /\ stored'[p].owner = owner
      /\ \A d \in Passkeys : d # p => stored'[d] = stored[d]
  <2>1. stored'[p] = [id |-> p, counter |-> a.count,
                      public_key_cose |-> cose_pubkey(p), owner |-> owner]
    BY <1>1, <1>2 DEF TypeOK
  <2>2. stored'[p] \in CredentialType
    <3>1. owner \in Users
      BY <1>2 DEF TypeOK, CeremonyType, Challenges
    <3> QED  BY <1>1, <2>1, <3>1 DEF CredentialType
  <2> HIDE DEF owner
  <2> QED  BY <1>1, <1>2, <2>1, <2>2, NoneAssumption DEF TypeOK
<1> HIDE DEF entry, owner
<1>6. /\ DOMAIN log' = DOMAIN log \cup {Len(log) + 1}
      /\ log'[Len(log) + 1] = entry
      /\ \A i \in DOMAIN log : /\ log'[i] = log[i] /\ log[i].id \in Passkeys
                               /\ log[i].id # p /\ i < Len(log) + 1
  <2>1. log \in Seq(AcceptanceType) /\ log' \in Seq(AcceptanceType)
    BY DEF TypeOK
  <2>2. \A i \in DOMAIN log : log[i].id \in Passkeys
    BY AcceptancesAreTyped
  <2>3. \A i \in DOMAIN log : log[i].id # p
    BY DEF StoredCounterIsLatest, IsFree
  <2> QED  BY <1>2, <2>1, <2>2, <2>3
<1>7. ChallengesAreIndices' /\ AnswersAreReal'
  BY <1>2 DEF ChallengesAreIndices, AnswersAreReal, Challenges
<1>8. AllowListsAreScoped'
  <2>1. \A e \in Challenges : ceremonies[e].kind = "get"
           => ceremonies[e].state.allow_credentials \subseteq Passkeys
    BY DEF TypeOK, CeremonyType, Challenges
  <2> QED  BY <1>2, <1>5, <2>1 DEF AllowListsAreScoped, Challenges, IsFree
<1>9. StoredCounterIsLatest'
  BY <1>1, <1>4, <1>5, <1>6 DEF StoredCounterIsLatest
<1>10. CountsStrictlyIncrease'
  BY <1>4, <1>6 DEF CountsStrictlyIncrease
<1>11. AcceptedAnswersItsCeremony'
  BY <1>2, <1>3, <1>4, <1>6 DEF AcceptedAnswersItsCeremony
<1>12. FiledUnderItsUser'
  <2>1. passkeys[p].user = owner
    BY <1>2, <1>3 DEF AnswersAreReal, owner
  <2> QED  BY <1>2, <1>5, <2>1 DEF FiledUnderItsUser
<1> QED  BY <1>7, <1>8, <1>9, <1>10, <1>11, <1>12

\* Once an assertion is verified, it answers this ceremony.
LEMMA VerifiedIsGenuine ==
    ASSUME IInv, NEW a \in answers, NEW c \in Challenges,
           Verified(a, c) = Ok
    PROVE  /\ a.challenge = c
           /\ a.origin = wa.origin
           /\ wa.require_uv => "UV" \in a.flags
           /\ check_not_expired(ceremonies[c].state.created_at, now) = Ok
<1>1. a \in AnswerType
  BY DEF IInv, TypeOK
<1>2. ceremonies[c].state.challenge = c
  BY DEF IInv, ChallengesAreIndices
<1> QED  BY <1>1, <1>2, VerifiedOk

\* finish_authentication accepts: the new count is beyond the stored one, which
\* bounds every accepted one.
LEMMA AuthenticateStep ==
    ASSUME IInv, TypeOK', NEW a \in answers, NEW c \in Challenges, FinishAuthentication(a, c),
           AuthenticationVerdict(a, c) = Ok
    PROVE  IInv'
<1> USE DEF IInv
<1> DEFINE p     == a.passkey
           entry == Accepted(a, c, SignedIn(a, c))
<1>1. a \in AnswerType /\ p \in Passkeys /\ a.count \in Nat
  BY DEF TypeOK, AnswerType
<1>2. /\ UNCHANGED <<wa, now, ceremonies, passkeys, answers>>
      /\ log' = Append(log, entry)
      /\ stored' = [stored EXCEPT ![p].counter = a.count]
      /\ a.kind = "get" /\ ceremonies[c].kind = "get" /\ stored[p] # None
  BY SignCountIs DEF FinishAuthentication, FoundFor
<1>3. /\ Verified(a, c) = Ok
      /\ CheckCounter(stored[p], AssertionOf(a).authenticator_data.value) = Ok
  BY VerdictSplits, TryOk DEF CounterVerdict
<1>4. stored[p] \in CredentialType /\ stored[p].counter \in Nat
  BY <1>1, <1>2 DEF TypeOK, CredentialType
<1>5. stored[p].counter < a.count \/ (a.count = 0 /\ stored[p].counter = 0)
  BY <1>1, <1>3, <1>4, CounterOk
<1>6. /\ a.challenge = c
      /\ a.origin = wa.origin
      /\ wa.require_uv => "UV" \in a.flags
  BY <1>3, VerifiedIsGenuine
<1>7. /\ entry.id = p /\ entry.count = a.count /\ entry.kind = a.kind
      /\ entry.ceremony = c
  BY DEF Accepted
<1>8. /\ stored'[p] # None /\ stored'[p].counter = a.count
      /\ stored'[p].owner = stored[p].owner
      /\ \A d \in Passkeys : d # p => stored'[d] = stored[d]
  <2>1. stored'[p] = [stored[p] EXCEPT !.counter = a.count]
    BY <1>1, <1>2 DEF TypeOK
  <2>2. /\ [stored[p] EXCEPT !.counter = a.count] \in CredentialType
        /\ [stored[p] EXCEPT !.counter = a.count].counter = a.count
        /\ [stored[p] EXCEPT !.counter = a.count].owner = stored[p].owner
    BY <1>1, <1>4 DEF CredentialType
  <2> QED  BY <1>1, <1>2, <2>1, <2>2, NoneAssumption DEF TypeOK
<1> HIDE DEF entry
<1>9. /\ DOMAIN log' = DOMAIN log \cup {Len(log) + 1}
      /\ log'[Len(log) + 1] = entry
      /\ \A i \in DOMAIN log : /\ log'[i] = log[i] /\ i < Len(log) + 1
                               /\ log[i].id \in Passkeys /\ log[i].count \in Nat
  <2>1. log \in Seq(AcceptanceType) /\ log' \in Seq(AcceptanceType)
    BY DEF TypeOK
  <2>2. \A i \in DOMAIN log : log[i].id \in Passkeys /\ log[i].count \in Nat
    BY AcceptancesAreTyped
  <2> QED  BY <1>2, <2>1, <2>2
<1>10. ChallengesAreIndices' /\ AnswersAreReal'
  BY <1>2 DEF ChallengesAreIndices, AnswersAreReal, Challenges
<1>11. AllowListsAreScoped'
  <2>1. \A e \in Challenges : ceremonies[e].kind = "get"
           => ceremonies[e].state.allow_credentials \subseteq Passkeys
    BY DEF TypeOK, CeremonyType, Challenges
  <2> QED  BY <1>2, <1>8, <2>1 DEF AllowListsAreScoped, Challenges
<1>12. StoredCounterIsLatest'
  <2> SUFFICES ASSUME NEW i \in DOMAIN log'
               PROVE  /\ stored'[log'[i].id] # None
                      /\ log'[i].count <= stored'[log'[i].id].counter
    BY DEF StoredCounterIsLatest
  <2>1. CASE i = Len(log) + 1
    BY <1>1, <1>7, <1>8, <1>9, <2>1
  <2>2. CASE i \in DOMAIN log /\ log[i].id = p
    BY <1>1, <1>4, <1>5, <1>8, <1>9, <2>2 DEF StoredCounterIsLatest
  <2>3. CASE i \in DOMAIN log /\ log[i].id # p
    BY <1>8, <1>9, <2>3 DEF StoredCounterIsLatest
  <2> QED  BY <1>9, <2>1, <2>2, <2>3
<1>13. CountsStrictlyIncrease'
  <2> SUFFICES ASSUME NEW i \in DOMAIN log', NEW j \in DOMAIN log', i < j,
                      log'[i].id = log'[j].id
               PROVE  \/ log'[i].count < log'[j].count
                      \/ log'[i].count + log'[j].count = 0
    BY DEF CountsStrictlyIncrease
  <2>1. CASE j \in DOMAIN log
    <3>1. i \in DOMAIN log
      BY <1>9, <2>1
    <3> QED  BY <1>9, <2>1, <3>1 DEF CountsStrictlyIncrease
  <2>2. CASE j = Len(log) + 1
    <3>1. i \in DOMAIN log /\ log[i].id = p
      BY <1>7, <1>9, <2>2
    <3>2. log[i].count <= stored[p].counter /\ log[i].count \in Nat
      BY <1>9, <3>1 DEF StoredCounterIsLatest
    <3> QED  BY <1>1, <1>4, <1>5, <1>7, <1>9, <2>2, <3>1, <3>2
  <2> QED  BY <1>9, <2>1, <2>2
<1>14. AcceptedAnswersItsCeremony'
  BY <1>2, <1>6, <1>7, <1>9 DEF AcceptedAnswersItsCeremony
<1>15. FiledUnderItsUser'
  BY <1>1, <1>2, <1>8 DEF FiledUnderItsUser
<1> QED  BY <1>10, <1>11, <1>12, <1>13, <1>14, <1>15

LEMMA NextIInv == IInv /\ [Next]_vars => IInv'
<1> SUFFICES ASSUME IInv, [Next]_vars PROVE IInv'  OBVIOUS
<1> USE DEF IInv
<1>0. TypeOK'
  BY NextTypeOK
<1>1. ASSUME NEW u \in Users, StartRegistration(u) PROVE IInv'
  <2> DEFINE state == start_registration(NextChallenge, u, now)
  <2>1. state.challenge = NextChallenge
    BY DEF start_registration
  <2>2. Issue("create", state)
    BY <1>1 DEF StartRegistration
  <2> HIDE DEF state, IInv
  <2> QED  BY <1>0, <2>1, <2>2, IssueStep
<1>2. ASSUME StartAuthentication PROVE IInv'
  <2> DEFINE state == start_authentication(NextChallenge, {}, now)
  <2>1. state.challenge = NextChallenge /\ state.user_handle = None
    BY DEF start_authentication
  <2>2. Issue("get", state)
    BY <1>2 DEF StartAuthentication
  <2> HIDE DEF state, IInv
  <2> QED  BY <1>0, <2>1, <2>2, IssueStep
<1>3. ASSUME NEW u \in Users, StartAuthenticationForUser(u) PROVE IInv'
  <2> DEFINE state == start_authentication_for_user(NextChallenge, u, CredentialsOf(u), now)
  <2>1. /\ state.challenge = NextChallenge /\ state.user_handle = u
        /\ state.allow_credentials = CredentialsOf(u)
    BY DEF start_authentication_for_user, start_authentication
  <2>2. Issue("get", state)
    BY <1>3 DEF StartAuthenticationForUser
  <2>3. \A d \in state.allow_credentials :
           stored[d] # None /\ stored[d].owner = state.user_handle
    BY <2>1 DEF CredentialsOf
  <2> HIDE DEF state, IInv
  <2> QED  BY <1>0, <2>1, <2>2, <2>3, IssueStep
<1>4. ASSUME NEW d \in Passkeys, NEW c \in Challenges, NEW o \in Pages, NEW f \in Gestures,
             Create(d, c, o, f)
      PROVE  IInv'
  <2> DEFINE a == Answer(d, c, o, f, passkeys[d].counter, None)
  <2>1. /\ a.challenge = c /\ a.kind = "create" /\ a.passkey = d
        /\ ceremonies[c].kind = "create" /\ Send(a)
    BY <1>4 DEF Create, Answer
  <2>2. /\ passkeys'[d].user = ceremonies[c].state.user_id
        /\ \A e \in Passkeys : e # d => passkeys'[e] = passkeys[e]
        /\ passkeys[d].user = None
    BY <1>4 DEF Create, TypeOK
  <2>3. ceremonies[c].state.user_id # None
    BY <2>1, NoneAssumption DEF TypeOK, CeremonyType, Challenges
  <2> HIDE DEF a, IInv
  <2> QED  BY <1>0, <2>1, <2>2, <2>3, SendStep
<1>5. ASSUME NEW d \in Passkeys, NEW c \in Challenges, NEW o \in Pages, NEW f \in Gestures,
             NEW h \in Handle, Get(d, c, o, f, h)
      PROVE  IInv'
  <2> DEFINE a == Answer(d, c, o, f, NextCount(d), h)
  <2>1. /\ a.challenge = c /\ a.kind = "get" /\ a.passkey = d
        /\ ceremonies[c].kind = "get" /\ Send(a)
    BY <1>5 DEF Get, Answer
  <2>2. /\ \A e \in Passkeys : passkeys'[e].user = passkeys[e].user
        /\ passkeys[d].user # None
    BY <1>5 DEF Get, TypeOK
  <2> HIDE DEF a, IInv
  <2> QED  BY <1>0, <2>1, <2>2, SendStep
<1>6. ASSUME NEW d \in Passkeys, Restore(d) PROVE IInv'
  <2>1. \A e \in Passkeys : passkeys'[e].user = passkeys[e].user
    BY <1>6 DEF Restore, TypeOK
  <2> QED  BY <1>0, <1>6, <2>1, QuietStep DEF Restore
<1>7. ASSUME NEW a \in answers, NEW c \in Challenges, FinishRegistration(a, c) PROVE IInv'
  <2>1. CASE RegistrationVerdict(a, c) = Ok /\ IsFree(a.passkey)
    BY <1>0, <1>7, <2>1, RegisterStep
  <2>2. CASE ~(RegistrationVerdict(a, c) = Ok /\ IsFree(a.passkey))
    BY <1>0, <1>7, <2>2, QuietStep DEF FinishRegistration
  <2> QED  BY <2>1, <2>2
<1>8. ASSUME NEW a \in answers, NEW c \in Challenges, FinishAuthentication(a, c) PROVE IInv'
  <2>1. CASE AuthenticationVerdict(a, c) = Ok
    BY <1>0, <1>8, <2>1, AuthenticateStep
  <2>2. CASE AuthenticationVerdict(a, c) # Ok
    BY <1>0, <1>8, <2>2, QuietStep DEF FinishAuthentication
  <2> QED  BY <2>1, <2>2
<1>9. CASE Tick
  BY <1>0, <1>9, QuietStep DEF Tick
<1>10. CASE SetBack
  BY <1>0, <1>10, QuietStep DEF SetBack
<1>11. CASE UNCHANGED vars
  BY <1>0, <1>11, QuietStep DEF vars
<1> QED
  BY <1>1, <1>2, <1>3, <1>4, <1>5, <1>6, <1>7, <1>8, <1>9, <1>10, <1>11 DEF Next

THEOREM IInvHolds == Spec => []IInv
<1>1. Init => IInv                BY InitIInv
<1>2. IInv /\ [Next]_vars => IInv'  BY NextIInv
<1> QED  BY <1>1, <1>2, PTL DEF Spec

-----------------------------------------------------------------------------
(* The properties, as theorems of the specification. *)

\* The signature counter check of finish_authentication: no credential is ever
\* accepted twice at one nonzero count, nor at a lower count than before.
THEOREM CountsIncrease == Spec => []CountsStrictlyIncrease
<1>1. IInv => CountsStrictlyIncrease  BY DEF IInv
<1> QED  BY <1>1, IInvHolds, PTL

\* Steps 1 to 4 of finish_*: an acceptance is of an answer to that ceremony.
THEOREM AcceptedAnswersAreTrue == Spec => []AcceptedAnswersItsCeremony
<1>1. IInv => AcceptedAnswersItsCeremony  BY DEF IInv
<1> QED  BY <1>1, IInvHolds, PTL

\* finish_registration: a credential is filed under the user it was created for.
THEOREM CredentialsFiledRight == Spec => []FiledUnderItsUser
<1>1. IInv => FiledUnderItsUser  BY DEF IInv
<1> QED  BY <1>1, IInvHolds, PTL

-----------------------------------------------------------------------------
(* What finish_authentication says of answers that are not accepted. *)

LEMMA TryNot == ASSUME NEW a, NEW b, NEW x, a # x, b # x PROVE (a ?? b) # x
BY DEF ??

\* None of the checks before the counter's returns CounterReplay.
LEMMA VerifiedIsNoAlarm == ASSUME NEW a, NEW c PROVE Verified(a, c) # "CounterReplay"
<1> DEFINE Alarm == "CounterReplay"
<1>1. ASSUME NEW strict, NEW text PROVE decode_b64(strict, text) # Alarm
  BY DEF decode_b64, b64url_decode, b64url_decode_strict, FailIf, Ok
<1>2. ASSUME NEW w, NEW s, NEW r PROVE CheckUserHandle(w, s, r) # Alarm
  <2>1. ASSUME NEW bad PROVE FailIf(bad, "UserHandleMismatch") # Alarm
    BY DEF FailIf, Ok
  <2> HIDE DEF Alarm
  <2> QED  BY <1>1, <2>1, TryNot DEF CheckUserHandle, Ok, Alarm
<1>3. ASSUME NEW e, NEW t, NEW ch, NEW o, NEW strict PROVE validate(e, t, ch, o, strict) # Alarm
  BY <1>1 DEF validate, FailIf, ??, Ok
<1>4. ASSUME NEW b PROVE ParseAuthenticatorData(b) # Alarm
  BY DEF ParseAuthenticatorData, ParseAttestedCredentialData, FailIf, ??, Ok
<1>5. ASSUME NEW w, NEW ad PROVE CheckAuthenticator(w, ad) # Alarm
  BY DEF CheckAuthenticator, FailIf, ??, Ok
<1>6. ASSUME NEW blob PROVE ParseCoseKey(blob) # Alarm
  BY DEF ParseCoseKey, CheckCoordinate, FailIf, ??, Ok
<1>7. ASSUME NEW key, NEW msg, NEW sig PROVE verify(key, msg, sig) # Alarm
  BY DEF verify, FailIf, ??, Ok
<1>8. ASSUME NEW created_at PROVE check_not_expired(created_at, now) # Alarm
  BY DEF check_not_expired, FailIf, Ok
<1> QED
  BY <1>1, <1>2, <1>3, <1>4, <1>5, <1>6, <1>7, <1>8
     DEF Verified, VerifyAssertion, FailIf, ??, Ok

\* The counter is reached only by what passed every other check.
LEMMA CounterIsLast ==
    ASSUME NEW a, NEW c, AuthenticationVerdict(a, c) \in {Ok, "CounterReplay"}
    PROVE  Verified(a, c) = Ok
BY VerdictSplits, VerifiedIsNoAlarm DEF ??, Ok

\* CounterReplay, which a caller should take for a cloned credential, is returned
\* only for a genuine, timely answer of the passkey to this very ceremony.
THEOREM AlarmsAreGenuine == Spec => []AlarmIsGenuine
<1>1. ASSUME IInv, NEW a \in answers, NEW c \in Challenges, a.kind = "get",
             ceremonies[c].kind = "get", AuthenticationVerdict(a, c) = "CounterReplay"
      PROVE  /\ a.challenge = c /\ a.origin = wa.origin
             /\ \/ ceremonies[c].state.created_at = 0
                \/ now <= ceremonies[c].state.created_at + CEREMONY_MAX_AGE_SECS
  <2>1. Verified(a, c) = Ok
    BY <1>1, CounterIsLast
  <2>2. /\ a.challenge = c /\ a.origin = wa.origin
        /\ check_not_expired(ceremonies[c].state.created_at, now) = Ok
    BY <1>1, <2>1, VerifiedIsGenuine
  <2>3. now \in Nat /\ ceremonies[c].state.created_at \in Nat
    BY <1>1 DEF IInv, TypeOK, CeremonyType, Challenges
  <2>4. \/ ceremonies[c].state.created_at = 0
        \/ now <= ceremonies[c].state.created_at + CEREMONY_MAX_AGE_SECS
    BY <2>2, <2>3, MaxAgeAssumption DEF check_not_expired, age, FailIf, Ok
  <2> QED  BY <2>2, <2>4
<1>2. IInv => AlarmIsGenuine
  BY <1>1 DEF AlarmIsGenuine
<1> QED  BY <1>2, IInvHolds, PTL

-----------------------------------------------------------------------------
(* Whose credential a ceremony for a user takes. *)

\* finish_authentication, the allow list and step 1b, without the caller's own
\* lookup: in a ceremony for a user, another user's credential gets as far as the
\* counter only when the user had none to list and the userHandle, which no
\* signature covers, does not name the passkey's user; with require_user_handle
\* it cannot be missing either.
THEOREM OwnersSignIn == Spec => []SignsInTheOwner
<1>1. ASSUME IInv, NEW a \in answers, NEW c \in Challenges, a.kind = "get",
             ceremonies[c].kind = "get", stored[a.passkey] # None,
             ceremonies[c].state.user_handle # None,
             AuthenticationVerdict(a, c) \in {Ok, "CounterReplay"}
      PROVE  \/ stored[a.passkey].owner = ceremonies[c].state.user_handle
             \/ /\ ceremonies[c].state.allow_credentials = {}
                /\ a.handle # passkeys[a.passkey].user
                /\ wa.require_user_handle => a.handle # None
  <2> DEFINE p == a.passkey
             s == ceremonies[c].state
  <2>1. a \in AnswerType /\ p \in Passkeys
    BY <1>1 DEF IInv, TypeOK, AnswerType
  <2>2. /\ s.allow_credentials # {} => p \in s.allow_credentials
        /\ a.handle # None => a.handle = s.user_handle
        /\ wa.require_user_handle => a.handle # None
    BY <1>1, <2>1, CounterIsLast, VerifiedOk
  <2>3. s.allow_credentials # {} => stored[p].owner = s.user_handle
    BY <1>1, <2>2 DEF IInv, AllowListsAreScoped
  <2>4. stored[p].owner = passkeys[p].user /\ passkeys[p].user # None
    BY <1>1, <2>1 DEF IInv, FiledUnderItsUser, AnswersAreReal
  <2> QED  BY <2>2, <2>3, <2>4
<1>2. IInv => SignsInTheOwner
  BY <1>1 DEF SignsInTheOwner
<1> QED  BY <1>2, IInvHolds, PTL
=============================================================================
