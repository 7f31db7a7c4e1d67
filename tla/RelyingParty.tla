---------------------------- MODULE RelyingParty -----------------------------
(***************************************************************************)
(* A relying party that uses the crate the way its documentation asks: the  *)
(* quick start of src/src/lib.rs, the usage section of src/README.md and    *)
(* the comments of start_* and finish_* in src/src/ceremony.rs.  It keeps   *)
(* the state of every ceremony, persists a credential when                  *)
(* finish_registration returns one, looks a credential up among those of    *)
(* the user being authenticated, and stores the new counter when            *)
(* finish_authentication succeeds.  It does not drop a ceremony state:      *)
(* neither the crate nor its quick start does.                              *)
(*                                                                          *)
(* Around it: passkeys that answer challenges, users' pages that may belong *)
(* to another origin of the same site, a network that delays, reorders,     *)
(* duplicates and loses answers and hands them to the wrong ceremony, and a *)
(* wall clock that runs and may be set back.                                *)
(***************************************************************************)
EXTENDS Authenticator, FiniteSets

CONSTANTS
    Users,          \* user handles
    Passkeys,       \* one element per credential that could be created
    Resident,       \* the passkeys that are discoverable
    Counting,       \* the passkeys with a signature counter; others report 0
    RpIdValue,      \* the RP id, also for its hash
    RpOrigin,       \* the configured origin
    Pages,          \* origins of pages with that RP id: its own, a subdomain
    Gestures,       \* the flags that users' gestures give: a tap, a PIN
    Configs,        \* the configurations of Webauthn to consider
    LegacyUsers,    \* users with a registration state from before created_at
    Boot,           \* the wall clock at start
    MinClock, MaxClock, MaxCeremonies, MaxAnswers, MaxCount, MaxAccepted   \* bounds

ASSUME PartyAssumption ==
    /\ RpOrigin \in Pages
    /\ Resident \subseteq Passkeys /\ Counting \subseteq Passkeys
    /\ LegacyUsers \subseteq Users
    /\ Configs \subseteq [rp_id : {RpIdValue}, origin : {RpOrigin}, require_uv : BOOLEAN,
                          strict_base64 : BOOLEAN, require_user_handle : BOOLEAN]
    /\ Gestures \subseteq SUBSET {"UP", "UV"}
    /\ Boot \in Nat /\ MinClock \in Nat /\ MaxClock \in Nat /\ MaxCount \in Nat

VARIABLES
    wa,           \* the Webauthn value, built once at boot
    now,          \* the wall clock, in seconds
    ceremonies,   \* the states start_* returned; a challenge is its index
    passkeys,     \* per passkey, its signature counter and the user it is for
    answers,      \* what authenticators have answered so far
    stored,       \* the credential table, keyed by credential id
    log           \* history: what finish_* accepted, in order

vars == <<wa, now, ceremonies, passkeys, answers, stored, log>>

Handle == Users \cup {None}

Challenges == DOMAIN ceremonies
NextChallenge == Len(ceremonies) + 1

Init ==
    /\ wa \in Configs
    /\ now = Boot
    /\ ceremonies \in {<<>>} \cup
           {<<[kind |-> "create", state |-> start_registration(1, u, 0)]>> : u \in LegacyUsers}
    /\ passkeys = [d \in Passkeys |-> [counter |-> 0, user |-> None]]
    /\ answers = {}
    /\ stored = [d \in Passkeys |-> None]
    /\ log = <<>>

-----------------------------------------------------------------------------
(* The relying party starts ceremonies. *)

Issue(kind, state) ==
    /\ Len(ceremonies) < MaxCeremonies
    /\ ceremonies' = Append(ceremonies, [kind |-> kind, state |-> state])
    /\ UNCHANGED <<wa, now, passkeys, answers, stored, log>>

StartRegistration(u) ==
    Issue("create", start_registration(NextChallenge, u, now))

\* Usernameless: the user is not known until the answer arrives.
StartAuthentication ==
    Issue("get", start_authentication(NextChallenge, {}, now))

CredentialsOf(u) == {d \in Passkeys : stored[d] # None /\ stored[d].owner = u}

StartAuthenticationForUser(u) ==
    Issue("get", start_authentication_for_user(NextChallenge, u, CredentialsOf(u), now))

-----------------------------------------------------------------------------
(* Passkeys answer challenges, from a page of some origin. *)

Answer(d, c, origin, flags, count, handle) ==
    [kind |-> ceremonies[c].kind, passkey |-> d, challenge |-> c, origin |-> origin,
     flags |-> flags, count |-> count, handle |-> handle]

Send(a) ==
    /\ Cardinality(answers \cup {a}) <= MaxAnswers
    /\ answers' = answers \cup {a}
    /\ UNCHANGED <<wa, now, ceremonies, stored, log>>

\* A passkey is created once, for the user.id of the challenge.
Create(d, c, origin, flags) ==
    /\ ceremonies[c].kind = "create"
    /\ passkeys[d].user = None
    /\ passkeys' = [passkeys EXCEPT ![d].user = ceremonies[c].state.user_id]
    /\ Send(Answer(d, c, origin, flags, passkeys[d].counter, None))

\* With an allow list the authenticator must hold a listed credential; without
\* one it needs a discoverable credential.
MayAnswer(d, allow) == d \in (IF allow = {} THEN Resident ELSE allow)

NextCount(d) == IF d \in Counting THEN passkeys[d].counter + 1 ELSE 0

\* userHandle is optional and no signature covers it: whatever the authenticator
\* says, the page may leave it out or put in another.
Get(d, c, origin, flags, handle) ==
    /\ ceremonies[c].kind = "get"
    /\ passkeys[d].user # None
    /\ MayAnswer(d, ceremonies[c].state.allow_credentials)
    /\ NextCount(d) <= MaxCount
    /\ passkeys' = [passkeys EXCEPT ![d].counter = NextCount(d)]
    /\ Send(Answer(d, c, origin, flags, NextCount(d), handle))

\* A copy of the passkey with an older counter takes its place.
Restore(d) ==
    /\ \E n \in 0..MaxCount :
          /\ n < passkeys[d].counter
          /\ passkeys' = [passkeys EXCEPT ![d].counter = n]
    /\ UNCHANGED <<wa, now, ceremonies, answers, stored, log>>

-----------------------------------------------------------------------------
(* Answers reach the relying party, which calls finish_*. *)

RegistrationOf(a) ==
    LET ad == auth_data_register(a.passkey, cose_pubkey(a.passkey), RpIdValue, a.flags,
                                 a.count, "zeros")
    IN  RegistrationResponse(B64Url, none_attestation(ad),
                             client_data(TYPE_REGISTER, a.challenge, a.origin))

AssertionOf(a) ==
    AuthenticationResponse(B64Url, a.passkey, cose_pubkey(a.passkey),
                           auth_data_authenticate(RpIdValue, a.flags, a.count), a.handle,
                           client_data(TYPE_AUTHENTICATE, a.challenge, a.origin))

RegistrationVerdict(a, c) ==
    finish_registration(wa, ceremonies[c].state, RegistrationOf(a), now)

AuthenticationVerdict(a, c) ==
    finish_authentication(wa, ceremonies[c].state, AssertionOf(a), stored[a.passkey], now)

\* The user being authenticated: the ceremony's, or the one whom the response of
\* a usernameless ceremony names.
SignedIn(a, c) ==
    IF ceremonies[c].state.user_handle # None THEN ceremonies[c].state.user_handle
    ELSE a.handle

\* Mutant: every credential of the table is searched.
FoundFor_global(user, d) == stored[d] # None

\* The caller contract: response.id is looked up among that user's credentials.
FoundFor(user, d) == stored[d] # None /\ stored[d].owner = user

Accepted(a, c, user) ==
    [kind |-> a.kind, id |-> a.passkey, ceremony |-> c, count |-> a.count,
     user |-> user, at |-> now]

\* A credential id is a key of the table: to store it a second time fails.
IsFree(d) == stored[d] = None

FinishRegistration(a, c) ==
    /\ a.kind = "create" /\ ceremonies[c].kind = "create"
    /\ IF RegistrationVerdict(a, c) = Ok /\ IsFree(a.passkey)
       THEN LET credential == NewCredential(RegistrationOf(a))
                owner      == ceremonies[c].state.user_id
            IN  /\ stored' = [stored EXCEPT ![credential.id] =
                       [id |-> credential.id, counter |-> credential.counter,
                        public_key_cose |-> credential.public_key_cose, owner |-> owner]]
                /\ log' = Append(log, Accepted(a, c, owner))
       ELSE UNCHANGED <<stored, log>>
    /\ UNCHANGED <<wa, now, ceremonies, passkeys, answers>>

\* Mutant: the new counter is not written back.
FinishAuthentication_no_update(a, c) ==
    /\ a.kind = "get" /\ ceremonies[c].kind = "get"
    /\ FoundFor(SignedIn(a, c), a.passkey)
    /\ IF AuthenticationVerdict(a, c) = Ok
       THEN /\ Len(log) < MaxAccepted
            /\ log' = Append(log, Accepted(a, c, SignedIn(a, c)))
       ELSE UNCHANGED log
    /\ UNCHANGED <<wa, now, ceremonies, passkeys, answers, stored>>

\* A response whose credential is not found is refused.  The counter is written
\* before the reply.
FinishAuthentication(a, c) ==
    /\ a.kind = "get" /\ ceremonies[c].kind = "get"
    /\ FoundFor(SignedIn(a, c), a.passkey)
    /\ IF AuthenticationVerdict(a, c) = Ok
       THEN /\ Len(log) < MaxAccepted
            /\ stored' = [stored EXCEPT ![a.passkey].counter =
                              AssertionOf(a).authenticator_data.value.sign_count]
            /\ log' = Append(log, Accepted(a, c, SignedIn(a, c)))
       ELSE UNCHANGED <<stored, log>>
    /\ UNCHANGED <<wa, now, ceremonies, passkeys, answers>>

-----------------------------------------------------------------------------
(* The wall clock. *)

Tick ==
    /\ now < MaxClock
    /\ now' = now + 1
    /\ UNCHANGED <<wa, ceremonies, passkeys, answers, stored, log>>

SetBack ==
    /\ now > MinClock
    /\ now' = now - 1
    /\ UNCHANGED <<wa, ceremonies, passkeys, answers, stored, log>>

Next ==
    \/ \E u \in Users : StartRegistration(u) \/ StartAuthenticationForUser(u)
    \/ StartAuthentication
    \/ \E d \in Passkeys, c \in Challenges, o \in Pages, f \in Gestures :
          \/ Create(d, c, o, f)
          \/ \E h \in Handle : Get(d, c, o, f, h)
    \/ \E d \in Passkeys : Restore(d)
    \/ \E a \in answers, c \in Challenges :
          FinishRegistration(a, c) \/ FinishAuthentication(a, c)
    \/ Tick
    \/ SetBack

Spec == Init /\ [][Next]_vars

-----------------------------------------------------------------------------
(* Properties. *)

CeremonyType ==
    [kind  : {"create"},
     state : [challenge : Nat, user_id : Users, created_at : Nat]]
    \cup
    [kind  : {"get"},
     state : [challenge : Nat, allow_credentials : SUBSET Passkeys, created_at : Nat,
              user_handle : Handle]]

AnswerType ==
    [kind : {"create", "get"}, passkey : Passkeys, challenge : Nat, origin : Pages,
     flags : Gestures, count : Nat, handle : Handle]

CredentialType ==
    [id : Passkeys, counter : Nat, public_key_cose : {cose_pubkey(d) : d \in Passkeys},
     owner : Users]

AcceptanceType ==
    [kind : {"create", "get"}, id : Passkeys, ceremony : Nat, count : Nat, user : Users,
     at : Nat]

\* An absent value is none of the values that can be there.
ASSUME NoneAssumption ==
    /\ None \notin Users \cup Passkeys \cup CredentialType \cup [owner : Users, count : Nat]
    /\ \A u \in Users : Text(B64Url, u) # None

\* Every variable holds a value of its kind, and the table files a credential,
\* with its key, under its own id.
TypeOK ==
    /\ wa \in Configs
    /\ now \in Nat
    /\ ceremonies \in Seq(CeremonyType)
    /\ passkeys \in [Passkeys -> [counter : Nat, user : Handle]]
    /\ answers \subseteq AnswerType
    /\ stored \in [Passkeys -> CredentialType \cup {None}]
    /\ \A d \in Passkeys :
          stored[d] # None => stored[d].id = d /\ stored[d].public_key_cose = cose_pubkey(d)
    /\ log \in Seq(AcceptanceType)

\* finish_authentication, step 5: of two acceptances of one credential the later
\* one has the greater count, or both are 0.  So a restored copy of a counting
\* passkey is never accepted at a count that was already used, whatever order
\* the answers arrive in and however many ceremonies are open.
CountsStrictlyIncrease ==
    \A i, j \in DOMAIN log :
        i < j /\ log[i].id = log[j].id
            => log[i].count < log[j].count \/ log[i].count + log[j].count = 0

\* Steps 1 to 4 of finish_*: whatever is accepted in a ceremony was answered by
\* that very passkey to that very challenge on a page of the configured origin,
\* with the user verified when the configuration asks for it.
AcceptedAnswersItsCeremony ==
    \A i \in DOMAIN log :
        \E a \in answers :
            /\ a.kind = log[i].kind /\ a.passkey = log[i].id /\ a.count = log[i].count
            /\ a.challenge = log[i].ceremony
            /\ a.origin = wa.origin
            /\ wa.require_uv => "UV" \in a.flags

\* finish_registration binds the key to the ceremony of one user: a credential
\* is filed under the user that the passkey was created for, even when several
\* users' registrations are open and their answers get mixed up.
FiledUnderItsUser ==
    \A d \in Passkeys : stored[d] # None => stored[d].owner = passkeys[d].user

\* finish_authentication, the allow list and step 1b: should the caller look up
\* response.id among all credentials, then a ceremony started for a user still
\* neither signs in nor raises the alarm for another user's credential, also when
\* the user had none to list.  In that case only the userHandle tells: it has to
\* name the user of the passkey, and only require_user_handle sees to it that it
\* names anybody.
SignsInTheOwner ==
    \A a \in answers, c \in Challenges :
        /\ a.kind = "get" /\ ceremonies[c].kind = "get" /\ stored[a.passkey] # None
        /\ ceremonies[c].state.user_handle # None
        /\ AuthenticationVerdict(a, c) \in {Ok, "CounterReplay"}
        => \/ stored[a.passkey].owner = ceremonies[c].state.user_handle
           \/ /\ ceremonies[c].state.allow_credentials = {}
              /\ a.handle # passkeys[a.passkey].user
              /\ wa.require_user_handle => a.handle # None

\* The counter is looked at last: CounterReplay, which a caller should take for
\* a cloned credential, is only returned for an answer that its passkey did give
\* to this challenge, on the configured origin, and that came in time.
AlarmIsGenuine ==
    \A a \in answers, c \in Challenges :
        /\ a.kind = "get" /\ ceremonies[c].kind = "get" /\ stored[a.passkey] # None
        /\ AuthenticationVerdict(a, c) = "CounterReplay"
        => /\ a.challenge = c /\ a.origin = wa.origin
           /\ \/ ceremonies[c].state.created_at = 0
              \/ now <= ceremonies[c].state.created_at + CEREMONY_MAX_AGE_SECS

\* Seen from outside, all of this is a registry of credentials: whatever the
\* ceremonies, answers and clocks do, finish_registration registers an id once,
\* for one user, and finish_authentication signs that user in with a count that
\* the credential has not used before.
Registry == INSTANCE CredentialRegistry WITH
    Ids      <- Passkeys,
    Owners   <- Users,
    Counts   <- 0..MaxCount,
    Absent   <- None,
    durable  <- TRUE,
    registry <- [d \in Passkeys |->
                    IF stored[d] = None THEN None
                    ELSE [owner |-> stored[d].owner, count |-> stored[d].counter]],
    history  <- [i \in DOMAIN log |->
                    [kind |-> log[i].kind, id |-> log[i].id, owner |-> log[i].user,
                     count |-> log[i].count]]

ImplementsRegistry == Registry!Spec

-----------------------------------------------------------------------------
(* The strengthening that makes the properties above inductive. *)

ChallengesAreIndices == \A c \in Challenges : ceremonies[c].state.challenge = c

\* An answer was given to an issued challenge of its kind, by a passkey that
\* still is for the user it was then for.
AnswersAreReal ==
    \A a \in answers :
        /\ a.challenge \in Challenges
        /\ ceremonies[a.challenge].kind = a.kind
        /\ passkeys[a.passkey].user # None
        /\ a.kind = "create"
              => passkeys[a.passkey].user = ceremonies[a.challenge].state.user_id

AllowListsAreScoped ==
    \A c \in Challenges :
        ceremonies[c].kind = "get" /\ ceremonies[c].state.user_handle # None
            => \A d \in ceremonies[c].state.allow_credentials :
                  stored[d] # None /\ stored[d].owner = ceremonies[c].state.user_handle

\* The stored counter is at least every count that was accepted.
StoredCounterIsLatest ==
    \A i \in DOMAIN log :
        stored[log[i].id] # None /\ log[i].count <= stored[log[i].id].counter

IInv ==
    /\ TypeOK
    /\ ChallengesAreIndices
    /\ AnswersAreReal
    /\ AllowListsAreScoped
    /\ StoredCounterIsLatest
    /\ CountsStrictlyIncrease
    /\ AcceptedAnswersItsCeremony
    /\ FiledUnderItsUser

-----------------------------------------------------------------------------
(* A statement of the repository that the code does not keep. *)

Began(c) == IF ceremonies[c].state.created_at = 0 THEN Boot ELSE ceremonies[c].state.created_at

\* src/types.rs:329-331: the ceiling holds "so a forgetful caller cannot accept a
\* registration response from yesterday".
NoAnswerFromYesterday ==
    \A i \in DOMAIN log :
        log[i].kind = "create" => log[i].at <= Began(log[i].ceremony) + CEREMONY_MAX_AGE_SECS
=============================================================================
