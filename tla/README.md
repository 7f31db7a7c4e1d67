# passkey-auth in TLA+

TLA+ models of the `passkey-auth` crate (WebAuthn / passkey verification) and of the servers in
`src/examples`, the TLC runs that check them, and TLAPS proofs of the central safety results.
Paths such as `ceremony.rs` are below `src/src/`; examples are below `src/examples/`.

## 1. The system

The crate is a pure verifier: `Webauthn` is built once, `start_*` return a challenge for the
browser and a *ceremony state* for the caller, `finish_*` take that state with the browser's
response and return a verdict. It stores nothing. All state, all concurrency and all failures are
therefore in the programs around it: the relying party that keeps ceremony states and credentials,
browsers and authenticators, and the network.

| Component | State | Operations | What is hard | What makes it correct |
|---|---|---|---|---|
| Error type (`error.rs`) | – | the verdicts | – | a check's first failure is the answer |
| Base64 decoding (`types.rs`) | – | `decode_b64`, strict and lenient | four engines tried in turn | stricter never accepts more |
| Client data (`client_data.rs`) | – | `validate` | the order of checks | type, challenge and origin are the ceremony's |
| Authenticator data (`auth_data.rs`) | – | `parse` | length boundaries, trailing bytes | only what the flags announce is read |
| COSE keys (`cose.rs`, `crypto.rs`) | – | parse, `verify` | duplicate entries, wide integers, two algorithms, bytes that are no point of the curve | a stored blob is read as it was when registered |
| Attestation (`attestation.rs`, `x509.rs`) | – | `verify_none/packed/fido_u2f` | what each format signs, present / absent / malformed | the signed bytes are the raw bytes |
| Ceremonies (`ceremony.rs`, `types.rs`) | ceremony states, at the caller | `start_registration`, `finish_registration`, `start_authentication`, `start_authentication_for_user`, `finish_authentication` | several open ceremonies, answers late, twice or at the wrong ceremony, clock changes, counters | see section 4 |
| Credential manager (`rocket_credential_manager.rs` and its page) | one user, session table, cookies | register, authenticate, add, delete, list, whoami | several lock sections per handler, session rotation, retries | single use of challenges, rotation, no lock-out, removals stick |
| Passwordless (`axum_passwordless.rs` and its page) | users by name, sessions | as above for many users | names claimed early and inserted late, cancelled handlers, crossing registrations | credentials filed as asked, rotation |
| SQLite (`axum_sqlite.rs`) | user and credentials on disk, sessions in memory | register, authenticate | restart between two steps, stale cookies | what was acknowledged survives, one user id |
| Single-user servers (`axum_server.rs`, `rocket_server.rs` and their page) | user and sessions in memory | register, authenticate | two tabs in one session, dropped handlers, lost replies | no dead end for a user who keeps trying |
| RP id parsing (`types.rs`) | – | `RpId::new`, `RpId::try_from_url` | string parsing | – |

The components interact by calls only: a server's handler calls `start_*`, puts the state into
the session behind a mutex, and in a later request takes it out and calls `finish_*`.

## 2. The modules

    Verdict            the verdicts, and  a ?? b : the `?` operator, "the first failure wins"
     └ Base64Wire      texts of some base64 form, decode_b64
        └ ClientData       validate
        └ CoseKey          the COSE map, ideal signatures, verify
           └ AuthenticatorData  parse
              └ Attestation     none, packed (self, x5c), fido-u2f, the leaf certificate
                 └ Webauthn         start_*, finish_*: the crate's whole interface
                    └ Authenticator     honest responses (what the tests' fixtures build)
                       ├ WebauthnProofs     lemmas: what a verdict of Ok says
                       ├ RelyingParty       caller + passkeys + pages + network + clock
                       │   ├ MCRelyingParty          instances for TLC
                       │   └ RelyingPartyProofs      theorems
                       │       └ RelyingPartyRefinement  it implements CredentialRegistry
                       ├ WireFaults         damaged responses
                       │   └ WireFaultsProofs        theorems
                       └ WebSession         sessions, cookies, tabs and authenticators
                           ├ WebSessionProofs   lemmas about them, for any server
                           ├ CredentialManager  rocket_credential_manager.rs
                           ├ DemoServer         axum_server.rs, rocket_server.rs, axum_sqlite.rs
                           └ Passwordless       axum_passwordless.rs
                               (each with an MC module of instances for TLC and a
                                Proofs module of theorems, which extends WebSessionProofs)

    CredentialRegistry  the abstract specification, implemented by RelyingParty,
                        CredentialManager, DemoServer and Passwordless

The modules up to `Webauthn` have no variables. The code there is a sequence of fallible calls
joined by `?`; a verdict is written as the same calls joined by `??`, in the code's order, so that
which error wins is the code's. They contain every check, and are evaluated by each of the
state machines: no machine assumes that a response is valid.

**RelyingParty** is the system as the crate's documentation describes it: quick start, usage section and the caller
contract of `finish_authentication`. `ceremonies` are the
states that `start_*` returned (a challenge is its index, so fresh by construction, as 32 random
bytes are); `stored` is the credential table, keyed by credential id; `wa` is the configuration,
chosen at the start; `passkeys` has each authenticator's own counter and user; `answers` is
everything the authenticators ever said, and any answer can be delivered at any time, any number of
times and to any ceremony of its kind, which covers loss, delay, duplication and reordering. `log` is a history
variable: what was accepted. `Restore` puts an older copy of a passkey in place, `Tick` and `SetBack`
move the wall clock. The caller does not drop a state after use: nothing in the crate does, and
whether a caller does is shown for each of the example servers by `ChallengeAcceptedOnce`.

Two things are the caller's there, and have an operator each. `FoundFor` is the contract at `ceremony.rs:539-556`: the credential is
looked up among those of the user being authenticated, who is the ceremony's, or in a usernameless ceremony the one whom the
`userHandle` names. `IsFree` keeps the table's key: an id that is stored is not stored again, as `axum_sqlite`'s `PRIMARY KEY`
has it; the crate's usage section says only "persist", and a caller that overwrites the row would set its counter back
when a registration is delivered again. `userHandle` is optional and unsigned: in `Get`, the page of any ceremony leaves it
out or puts any user in its place. `ImplementsRegistry` is about this caller. `SignsInTheOwner` is about `finish_authentication`
alone, with the table searched for the id only: what the allow list and `CheckUserHandle` catch, and the one case that
they leave to the caller.

**WireFaults** takes a complete honest response of each format and changes up to two parts of what
arrives: the base64 around a field, client data, header and attested part of the authenticator
data, entries of the COSE key (overwritten, lost, shadowed), the attestation statement, signature
and certificate chain; key coordinates also become bytes that are no point. The code cannot see why a part is wrong, so one action per part suffices.

**CredentialRegistry** is what all of this is for, without ceremonies, requests or signatures: a
credential id is registered once, for one owner; it signs that owner in with a count greater than
the last (or 0 after 0, for an authenticator that does not count); once removed it stays removed. `history`
tells all of that in order, removals included, and every step but a restart makes it longer. A
registry that is not durable may lose its credentials when the process restarts. Each of the four state
machines maps its table to `registry` and its log to `history`, and has `ImplementsRegistry` as a
property; the mapping is the `INSTANCE ... WITH` at the end of its module.

**WebSession** is what the example servers share: `sessions` by `sid`, `cookies` per browser, `devices`
with the credentials they hold, and `tabs`. `tabs[t].at` is where a tab's page or its request is;
a request keeps the `sid` it was sent with. A handler holds a mutex for a statement or a block, so an action
of a server is one such section, and requests interleave between sections. `Save` is the
`entry(sid).or_default()` of the start handlers and `TakeState` the `take()` of the finish handlers.
Browsers start without a cookie or with one and the same planted cookie, and a device keeps one credential per
user handle and honours allow and exclude lists.

**CredentialManager** has one action per lock section of a handler. A duplicated request
occupies another tab of the browser. Replies can be lost (`Reply`), after which the page shows its
buttons again.

**DemoServer** is three servers behind one page; `server` says which, and never changes. They differ in what the
code differs in: where the user id is drawn and kept (`AxumRegisterStart` and
`AxumRegisterStartPersist` in two sections, the others under one lock), whether a user id is asked
for at sign-in (`axum_sqlite` only), which replies carry a cookie (`ReplyCookie`, and `Refuse`, where
rocket has already made a sid), whether there are awaits to be dropped at (`Async`), and what survives a restart
(`Durable`). `axum_sqlite`'s `INSERT` and `UPDATE` run under the store's lock without an await,
each is atomic, and the counter is written before the reply.

**Passwordless** has several users by name. `register_start` looks a name up and `register_finish`
inserts it in another section; a sign-in finds its user by the answer's handle, stores the counter, and
in a further section removes the old session and mints a new sid.

*Faults* of the last two, each counted against `MaxFaults`: the process restarts between any two sections
(sessions and open requests are lost; browsers keep pages and cookies; memory is lost, a database is not), a
request or a reply is lost, an axum handler is dropped at an await because its client went
away, and a finish request is delivered twice.

## 3. Abstractions and assumptions

* A signature is a record that says which key made it over what; nobody makes one without the key,
  two messages never have the same hash, and the same message has one signature per shape. ECDSA's malleability, `s`
  against `-s`, is outside of the model; `crypto.rs` accepts both.
* Whether 32 bytes are a point of a curve is `IsPoint`: `None` stands for bytes that are none, and a P-256 point is its x and the
  y that belongs to it. Parsing a key does not ask for it, verifying a signature does, as in `crypto.rs`.
* A 32-byte challenge, a user handle or a session id never repeats: it is an index or a counter.
* In the models of the servers a credential id is made of its device and its challenge, so that a posted registration never
  has the id of a stored credential. No server but `axum_sqlite`, through its `PRIMARY KEY`, checks that: a client that registers a stored id
  once more, which the browser's authenticators do not do, is outside of `WebSession`. That an id is registered
  once (`ImplementsRegistry`, `StoredOnce`), and that `retain` removes one credential (`NeverLockedOut`), rest on it there, and the
  lookup by handle in `Passwordless` is not put to the test by two users with one id. The pages of the servers pass on the
  `userHandle` that the authenticator gave.
* `IntRange` stands for 2^64, the number of values of an `i64`. The runs give it 1024, larger than
  any constant of the COSE registry that the code compares with; the wrap at the boundary, which
  `WireFaults` reaches with `IntRange + ALG_ES256`, is the same.
* `CEREMONY_MAX_AGE_SECS` (300 s in the code) is a constant; the clock of the `RelyingParty` runs counts in units of that
  ceiling. `Boot` is 1, because 0 means "unknown" to `check_not_expired`.
* JSON and CBOR parsing are a flag each; lengths are numbers wherever the code compares them.
* `CHECK_DEADLOCK FALSE` everywhere: a behaviour of the model ends when its bounds are used up.

## 4. The runs

| Run | What is asked | Distinct states, about |
|---|---|---|
| `ceremonies` | `CountsStrictlyIncrease`: no count of a credential is accepted twice. `AlarmIsGenuine`: `CounterReplay` is only ever returned for a genuine and timely answer; the counter is checked last. `ImplementsRegistry`: the counts | 141 000 |
| `users` | `AcceptedAnswersItsCeremony`, `FiledUnderItsUser`: mixed-up answers never file the wrong user. `SignsInTheOwner`: which user's credential the crate takes, whatever the `userHandle` says or leaves out. `ImplementsRegistry`: the owners. `IInv`, the invariant of the proofs, in full | 148 000, up to symmetry |
| `wire_faults` | `PackedSealsEverything`, `CertificateNamesTheModel`, `U2fSealsTheCredential`, `AssertionIsSealed`: what each format seals. `TighteningOnlyRejects`: the three builder switches are monotone. `WhatRegistersSignsIn`: a credential that registers, from however odd a response, can sign in, unless it has no attestation and its key is no point of the curve | 64 000 |
| `manager` | `ChallengeAcceptedOnce`, `OnlyItsBrowserIsSignedIn` (rotation against fixation), `RemovedStaysRemoved`, `NeverLockedOut`, `ImplementsRegistry` (with it: counters never go back) | 560 000, up to symmetry |
| `demo` | `ChallengeAcceptedOnce`; `AcknowledgedIsStored`: what a page was told is in the table, and in `axum_sqlite` survives restarts; `CredentialsCarryTheUserId`: first registrations that race agree on the user id | 780 000 |
| `demo_live` | `PersistenceSignsIn`: a user who keeps trying signs in; `ImplementsRegistry` for the three servers | 20 000 |
| `passwordless` | `ChallengeAcceptedOnce`, `OnlyItsBrowserIsSignedIn`; `FiledAsAsked`: registrations that cross in one session are filed under the name they were asked for; `ImplementsRegistry` for several owners | 460 000, up to symmetry |

Each machine's type invariant is checked in one of its runs.

*Bounds.* `ceremonies`: three ceremonies may be open at once, and three answers
give a count that was skipped, one that is replayed and one of a restored copy. There the ceiling is 0 time units and
the clock goes from 1 to 2 and back, so that a ceremony is young enough, too old, or younger than it was. `users`: two users
and a passkey of each kind (discoverable or not, counting or not) are what mixing up needs; the users are interchangeable, and a `userHandle` is that of either or absent.
An answer is odd in one way there: its page, a user who is present but not verified, or its `userHandle` (the `CONSTRAINT` of the
cfg); in `ceremonies` handles are as the authenticator gives them.
`wire_faults`: a check that compares two parts needs two
changes to be deceived; a third was not tried, and the proofs allow any number. `manager`: two
requests in flight are what a race between two lock sections needs; four challenges allow a
registration, an addition and two sign-ins, which a removed credential needs to come back; two devices allow two removals
that compete. Four are drawn by two browsers, which share the session of a planted cookie until a sign-in rotates it; the tabs of
one browser, whose session both keep and where a request can arrive twice, draw three (the `CONSTRAINT` of the cfg). Two browsers
without any cookie were left out, because they differ only in that their ceremonies cannot meet.
`demo`: two tabs of one browser, three challenges (a registration and two sign-ins, or two
registrations and a sign-in) and one fault.
`passwordless`: two names, three challenges and one fault; the tabs share a browser, or are two browsers with the same
planted cookie. The runs were kept to a few minutes each; larger instances were checked once, with the same result: `ceremonies` and `users`
without their constraints (480 000 and 574 000 states), four challenges
for the tabs of one browser too in `manager` (1.8 million states), and two faults, such as a restart and a lost reply in one ceremony, in `demo` (2.3 million) and
`passwordless` (1 million). The safety proofs of section 6 have no bounds.
Devices are interchangeable, and so are names, and tabs that are browsers of their own: safety runs use that symmetry,
the liveness run does not.

*Mutants.* Beside each operation that a property watches stands a variant, marked `Mutant:`, with
a plausible bug (a counter compared with `<`, a state that is read but not taken, a removed check, a database
in memory). It is used by no specification; putting it in the operation's place makes its property fail.

*Fairness.* Only `demo_live` needs it. `LiveSpec` of `DemoServer` is about a `Visitor` who keeps trying in one tab:
signs in, registers when told to or when no device has a passkey, and starts again after any error.
It assumes weak fairness of each tab's `Handler`, because a mutex is held for a block without an await and a
tokio task or a rocket worker that can run is run, so that a section that is entered is left; and weak
fairness of the visitor, who is the subject of the statement. Nothing is assumed of the other tab,
of the network or of restarts: they may happen, up to `MaxFaults` in number, or not. Other tabs start a
ceremony or let one go as one of those faults (`Interfere`), since a tab that overwrites the session's state forever keeps
the visitor out forever. One fault is allowed with two tabs, of one browser or of two; with a single tab the
property also held with two faults. `MaxChallenges` is 12 there, so high
that no behaviour reaches it: a bound that is reached would end the behaviour and refute the property for nothing.

## 5. Where code and documentation disagree

Five runs end in a violation of a statement that the repository makes:

* `yesterday`: a registration state without `created_at` never expires, although `types.rs` promises
  a hard ceiling for forgetful callers.
* `algorithm`: an algorithm integer beyond 64 bits is cut (`as i64`) to an advertised one. The key that is
  registered is a proper key of that algorithm; what is odd is only its label.
* `manager_sign_in`: two initial registrations at once leave a credential whose user handle is no
  longer the user's; it can never sign in, from an authenticator that returns its `userHandle`, and no other can be registered.
* `manager_twice`: `excludeCredentials` is a snapshot that another registration outruns.
* `passwordless_claim`: a name is looked up at `register_start` and inserted at `register_finish`
  without another look, so that two visitors both register it and share the user.

`axum_server` has a race that does no harm: two first registrations may draw two user ids, of which the
first to be kept wins. Its sign-in does not ask for a user id, so `PersistenceSignsIn` holds and
`CredentialsCarryTheUserId` is stated for the other two servers only.

## 6. What is proved

Eight theorems are about the relying party, twenty-one about the servers, eight about damaged responses. All rest on
`WebauthnProofs`, lemmas on what a verdict of `Ok` says of the response, the state and the clock, for any of them (`ValidateOk`, `CheckAuthenticatorOk`,
`FinishRegistrationOk`, `VerifyAssertionOk`, `CheckCounterOk`): from the chain of `??`, each single check.

### The relying party

`RelyingPartyProofs` and `RelyingPartyRefinement` prove, for any sets of users, passkeys, pages, gestures and configurations, any
clock and any bounds:

| Theorem | Statement |
|---|---|
| `TypeCorrect` | `Spec => []TypeOK` |
| `IInvHolds` | `Spec => []IInv` |
| `CountsIncrease` | `Spec => []CountsStrictlyIncrease` |
| `AcceptedAnswersAreTrue` | `Spec => []AcceptedAnswersItsCeremony` |
| `CredentialsFiledRight` | `Spec => []FiledUnderItsUser` |
| `OwnersSignIn` | `Spec => []SignsInTheOwner` |
| `AlarmsAreGenuine` | `Spec => []AlarmIsGenuine` |
| `PartyImplementsRegistry` (`RelyingPartyRefinement`) | `Spec => ImplementsRegistry` |

*Assumptions.* `PartyAssumption` (the sets of the constants are what their comments say),
`NoneAssumption` (an absent value is none of the present ones), `MaxAgeAssumption` and
`IntRangeAssumption`. TLC evaluates all of them in the runs.

*Argument.* None of the
properties is inductive alone, so `IInv` adds to `TypeOK`, `CountsStrictlyIncrease`, `AcceptedAnswersItsCeremony` and
`FiledUnderItsUser` what ties the pieces of state together:

* `ChallengesAreIndices`: a state's challenge identifies its ceremony;
* `AnswersAreReal`: an answer was given to an issued challenge of its kind, by a passkey that is still
  for the user it was then for. Without it a passkey could change its user under a credential that is filed;
* `AllowListsAreScoped`: a list issued for a user names stored credentials of that user. It survives
  because a stored credential never changes its owner;
* `StoredCounterIsLatest`: the stored counter is at least every count that was accepted. It is the bridge from
  `CheckCounter`, which compares with the table, to `CountsStrictlyIncrease`, which compares with history.

`NextIInv` has a step per action. `IssueStep`, `SendStep` and `QuietStep` serve the actions that
do not accept anything; `RegisterStep` and `AuthenticateStep` are the two that matter, with one step
per conjunct. `AlarmIsGenuine` and `SignsInTheOwner` are about verdicts and no conjuncts of `IInv`: `VerdictSplits` divides
`finish_authentication` into what comes before the counter and the counter, `VerifiedIsNoAlarm` says
that the first part never raises the alarm, `CounterIsLast` that it succeeded when the verdict is `Ok` or `CounterReplay`, and
`VerifiedOk` and `VerifiedIsGenuine` what its success means. `OwnersSignIn` then goes by cases: a list that is not empty names only the user's
credentials (`AllowListsAreScoped`), and with an empty one a `userHandle` that names the passkey's user names the
credential's owner (`FiledUnderItsUser`).

`PartyImplementsRegistry` needs `IInv` in both states of a step and `CountsStayBounded`, a lemma on the model's own bound: its
counts are among those of the registry. `HistoryAppend` and `HistoryGrows` say what a longer log is under the mapping;
`RegisterRefines` and `SignInRefines` map an accepted answer to `Register` (from `StoredCounterIsLatest`: an
id in the log is in the table) and to `SignIn` (from `CounterOk`, and the owner from `FoundFor`); `NextRefines`
has a step per action, in which everything else leaves table and log alone and is a stutter.

### The servers

`PasswordlessProofs`, `DemoServerProofs` and `CredentialManagerProofs` prove, for any finite set of tabs, any browsers
(with or without planted cookies), devices and names, and any number of challenges, sids and faults:

| Statement | Passwordless | DemoServer (three servers) | CredentialManager |
|---|---|---|---|
| `Spec => []IInv`, the inductive invariant | yes | yes | yes |
| `Spec => []TypeOK` | yes | yes | yes |
| `Spec => []ChallengeAcceptedOnce` | yes | yes | yes |
| `Spec => []OnlyItsBrowserIsSignedIn` | yes | no rotation | yes |
| of its own | `FiledAsAsked` | `AcknowledgedIsStored`, `CredentialsCarryTheUserId` | `RemovedStaysRemoved`, and the action property `NeverLockedOut` |
| `Spec => []StoredOnce` | yes | yes | part of `IInv` |
| `Spec => ImplementsRegistry` | yes | yes | yes |

A theorem is named after its module and its statement, as in `PasswordlessFiledAsAsked`.

*Assumptions.* `WebAssumption` (tabs are finitely many; each arrangement gives every tab a browser; the bounds are numbers,
`MaxSids` not 0; `None` is no number), `NamesAssumption`, `DemoAssumption` and `NoneIsNoUser` (`None` is neither a
name nor a row of the table), and those of the crate. TLC evaluates all of them in the runs.

*Argument.* `ChallengeAcceptedOnce` says that a challenge is spent once, which no single step shows: two requests may hold a state
at the same time. `IInv` therefore says where states are. `InOnePlace` (`HeldOnce` of `WebSession`): a challenge is in
one slot of one session, or in one request between two sections of its handler, and not in both; it is in neither once it
was accepted, and it was drawn. The other conjuncts:

* `TypeOK`, which has the session table, cookies and requests well-formed: a request in its section has the
  data that the section reads, and the response it carries is one that a device gave;
* `SidsCarriedByTheirBrowser`: whoever carries a signed-in sid, in a cookie jar or in a request or a reply under way, is
  the browser it was minted for. A cookie jar alone is not enough, because a reply still has to arrive;
* `StoredOnce`: a credential's id tells the challenge that it was created for, that challenge is spent, and no two are
  stored with one id. So no registration brings an id back, after a removal or a restart (`CreatedForItsChallenge`
  says it for the log of `DemoServer`).

`WebSessionProofs` has what the servers share, once: what each operation of `WebSession` does to sessions, tabs, cookies
and devices (`SaveIs`, `TakeIs`, `CreateIs`, `GetIs`), that they stay well-formed (`SaveOK`, `TakeOK`, `GesturesOK`, `RestartOK`,
`RotateOK`), and how the places of a challenge change (`SaveHeld` adds one, `TakeHeld` moves one, `SpendHeld` ends one, `QuietHeld`
the rest). A server's proof has a step per action that picks the lemma and adds what it does to its own table.
`DuplicateIs` is where the single use is at stake: a finish request that is sent twice carries a sid, not a state.

`NeverLockedOut` is about the state before and after a removal: `RetainIs` says that `retain` keeps exactly the other
credentials, in their order, by `Ranks`, that the elements of a finite set of numbers can be counted off; with two stored
and no id stored twice, one is left. `retain` is defined by that counting off, not with `SelectSeq`, which is
recursive; `RetainIsSelectSeq` in `MCCredentialManager` has TLC compare the two on all sequences of up to four credentials.

The refinements go by `StoredOnce` and `TableOf`, the registry's view of a sequence of credentials: `TableAppends`,
`TableCounts` and `TableRemoves` say what a push, a counter update and a removal are under that view. A section that pushes maps
to `Register` (a new credential's challenge was held, so it is not spent, so its id is nowhere in the history), one that
verifies and stores the counter to `SignIn` (`CheckCounterOk`), one that retains to `Remove`, a restart to `Restart` if
there is something to lose, and all others to a stutter.

*Checked by TLC first:* the `IInv` of each server, and the `StoredOnce` of the refinements, were found to hold on the instances of section 4.
The runs of the servers list their consequences only, so that each ends within minutes.

### Damaged responses

`WireFaultsProofs` proves the properties of `WireFaults` for any number of changed parts:

| Theorem | Statement |
|---|---|
| `TighteningNeverAccepts` | `Spec => []TighteningOnlyRejects` |
| `CertificatesTell` | `Spec => []CertificateNamesTheModel` |
| `WireFaultsIInv` | `Spec => []IInv` |
| `WireFaultsTypeOK` | `Spec => []TypeOK` |
| `PackedSeals` | `Spec => []PackedSealsEverything` |
| `U2fSeals` | `Spec => []U2fSealsTheCredential` |
| `AssertionsAreSealed` | `Spec => []AssertionIsSealed` |
| `RegisteredCanSignIn` | `Spec => []WhatRegistersSignsIn` |

*Assumptions.* `FaultsAssumption` (`MaxFaults` is a number; an absent part and one of the wrong type are neither numbers nor
texts nor the passkey's bytes), and those of the crate.

*Argument.* The first two say something of every response, whatever it is, and need no invariant: `RegistrationSteps` and
`AssertionSteps` take an accepted response apart into the checks that it passed, and each check is as lax or laxer under a laxer
configuration (`DecodeLaxer`, `ValidateLaxer`, `AuthenticatorLaxer`, `UserHandleLaxer`). That `finish_*` returns `Ok` or
an `Error` follows call by call (`FailIfIn`, `TryIn`, and a lemma per function).

The seals are about what was signed, so about how the response came about. `IInv` says that what arrives has the parts of what was
sent, that its count is a number, and that every signature in it either covers what was sent or covers
nothing that the crate verifies (`Garbled`). It has a lemma per action; that nobody signs without
the key is built into `SignatureFaults`. `SignedIsSent` and `VerifiedIsOver` then say that a signature that verifies is
over the message that was sent: all of the authenticator data for `packed`; RP, client data, id and coordinates for `fido-u2f`,
which fix the key only because the algorithm is ES256 on both sides (`Es256IsRead`). `RegisteredCanSignIn` puts
the honest assertion through every check of `finish_authentication` (`HonestAssertionOk`): the key parses because
registration parsed it, the next count is greater because the count is a number, and the signature verifies when the key
is a point. It is one when a signature of `packed` or `fido-u2f` covered it (`AttestedKeyIsPoint`, with `HonestKeyIsPoint`);
without attestation, registration never finds out, and the statement excepts that case. TLC checked `IInv` on the
instance of `wire_faults`.

### Only model-checked

`PersistenceSignsIn`, and the violations of section 5. *Out of the prover's reach* are liveness under fairness
and `ENABLED`, induction over data, and recursive operators; the modules use none of the latter.

## 7. Not modelled

* RP id parsing (`RpId::new`, and `RpId::try_from_url`, the only place that constructs `Error::Internal`) and the
  transports of a credential: strings without state.
* The curve parameter of an attestation certificate: the code does not read it, and whether a point lies on
  a curve is arithmetic (for the keys of credentials too, where `IsPoint` stands for it).
* Expiry of sessions and the growth of the session table: no server has either an expiry or a bound.
* `whoami`, `list_credentials` and `healthz`, which change nothing; database errors and a row of
  another AAGUID length, which nothing in the code produces; poisoned mutexes.
* In `Passwordless`, the refusal of an empty name and of an answer without a `userHandle`: the page trims and checks the
  name, and the authenticators of this flow always name their user.
* In `CredentialManager`, restarts: all of its state is in memory, as in `rocket_server`, whose restart is in
  `DemoServer`.

## 8. Plan

1. *Done*: the crate, the relying party, faults on the wire, the four kinds of example servers with their faults,
   liveness of the single-user servers, the abstract registry, and the proofs of section 6.
2. Liveness of `Passwordless` (a user whose name was taken by the other of two crossing registrations still signs in).
