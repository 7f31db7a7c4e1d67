------------------------------ MODULE Webauthn -------------------------------
(***************************************************************************)
(* The facade the relying party calls (src/src/ceremony.rs).  A             *)
(* configuration wa is [rp_id, origin, require_uv, strict_base64,           *)
(* require_user_handle].  start_* build the state that the caller keeps for *)
(* the ceremony; a fresh challenge is an argument, drawn by the caller.     *)
(* finish_* are functions of the state, the response, the stored credential *)
(* and the clock: they return a verdict and change nothing, so that a state *)
(* answers as many responses as the caller hands to it.                     *)
(***************************************************************************)
EXTENDS Attestation

CONSTANT CEREMONY_MAX_AGE_SECS

ASSUME MaxAgeAssumption == CEREMONY_MAX_AGE_SECS \in Nat

ALLOWED_REGISTRATION_ALGS == {ALG_ES256, ALG_EDDSA}

start_registration(challenge, user_id, now) ==
    [challenge |-> challenge, user_id |-> user_id, created_at |-> now]

start_authentication(challenge, allow_credentials, now) ==
    [challenge |-> challenge, allow_credentials |-> allow_credentials,
     created_at |-> now, user_handle |-> None]

start_authentication_for_user(challenge, user_handle, allow_credentials, now) ==
    [start_authentication(challenge, allow_credentials, now)
        EXCEPT !.user_handle = user_handle]

\* now.saturating_sub(created_at); created_at 0 means that the age is unknown.
age(created_at, now) == IF now < created_at THEN 0 ELSE now - created_at

check_not_expired(created_at, now) ==
    FailIf(created_at # 0 /\ age(created_at, now) > CEREMONY_MAX_AGE_SECS, "CeremonyExpired")

\* The check of the authenticator data that the two finish_* have in common.
CheckAuthenticator(wa, ad) ==
       FailIf(ad.rp_id_hash # wa.rp_id, "RpIdHashMismatch")
    ?? FailIf(~user_present(ad), "UserNotPresent")
    ?? FailIf(wa.require_uv /\ ~user_verified(ad), "UserNotVerified")

\* Mutant: the algorithm is checked but not the rest of the key.
CheckCredentialKey_alg_only(blob) ==
    FailIf(~blob.cbor \/ blob.entries = WrongType, "Cbor")
    ?? FailIf(i64_of(Entry(blob, ALG)) \notin ALLOWED_REGISTRATION_ALGS, "UnsupportedAlg")

CheckCredentialKey(blob) ==
    ParseCoseKey(blob) ?? FailIf(KeyOf(blob).alg \notin ALLOWED_REGISTRATION_ALGS, "UnsupportedAlg")

finish_registration(wa, state, response, now) ==
    LET cdj == response.client_data_json
        att == response.attestation_object.value
        key == Attested(att.auth_data).public_key_cose
    IN  check_not_expired(state.created_at, now)
        ?? validate(cdj, TYPE_REGISTER, state.challenge, wa.origin, wa.strict_base64)
        ?? decode_b64(wa.strict_base64, response.attestation_object)
        ?? ParseAttestation(att)
        ?? CheckAuthenticator(wa, att.auth_data)
        ?? FailIf(Attested(att.auth_data) = None, "AuthData")
        ?? CheckCredentialKey(key)
        ?? verify_statement(att, KeyOf(key), cdj.value)

\* Mutant: the bytes of the id are kept as those of the key.
NewCredential_id_as_key(response) ==
    LET ad == response.attestation_object.value.auth_data IN
    [id              |-> Attested(ad).credential_id,
     public_key_cose |-> Attested(ad).credential_id,
     counter         |-> ad.sign_count,
     aaguid          |-> Attested(ad).aaguid]

\* The PasskeyCredential of a response that finish_registration accepts.
NewCredential(response) ==
    LET ad == response.attestation_object.value.auth_data IN
    [id              |-> Attested(ad).credential_id,
     public_key_cose |-> Attested(ad).public_key_cose,
     counter         |-> ad.sign_count,
     aaguid          |-> Attested(ad).aaguid]

\* Mutant: the userHandle is not looked at.
CheckUserHandle_never(wa, state, response) == Ok

\* WebAuthn-3 7.2 step 6.
CheckUserHandle(wa, state, response) ==
    IF state.user_handle = None THEN Ok
    ELSE IF response.user_handle = None
    THEN FailIf(wa.require_user_handle, "UserHandleMismatch")
    ELSE    decode_b64(wa.strict_base64, response.user_handle)
         ?? FailIf(response.user_handle.value # state.user_handle, "UserHandleMismatch")

\* Mutant: an equal counter is accepted.
CheckCounter_equal(stored, ad) ==
    FailIf((ad.sign_count # 0 \/ stored.counter # 0) /\ ad.sign_count < stored.counter,
           "CounterReplay")

\* Mutant: only an equal counter is refused.
CheckCounter_lower(stored, ad) ==
    FailIf(ad.sign_count # 0 /\ ad.sign_count = stored.counter, "CounterReplay")

\* Both counters 0: the authenticator does not count.
CheckCounter(stored, ad) ==
    FailIf((ad.sign_count # 0 \/ stored.counter # 0) /\ ad.sign_count <= stored.counter,
           "CounterReplay")

\* Everything finish_authentication checks before it looks at the counter.
VerifyAssertion(wa, state, response, stored, now) ==
    LET cdj == response.client_data_json
        ad  == response.authenticator_data
    IN  check_not_expired(state.created_at, now)
        ?? decode_b64(wa.strict_base64, response.id)
        ?? FailIf(/\ state.allow_credentials # {}
                  /\ response.id.value \notin state.allow_credentials, "BadSignature")
        ?? FailIf(response.id.value # stored.id, "BadSignature")
        ?? CheckUserHandle(wa, state, response)
        ?? validate(cdj, TYPE_AUTHENTICATE, state.challenge, wa.origin, wa.strict_base64)
        ?? decode_b64(wa.strict_base64, ad)
        ?? ParseAuthenticatorData(ad.value)
        ?? CheckAuthenticator(wa, ad.value)
        ?? ParseCoseKey(stored.public_key_cose)
        ?? decode_b64(wa.strict_base64, response.signature)
        ?? verify(KeyOf(stored.public_key_cose),
                  [auth_data |-> ad.value, cdj |-> cdj.value],
                  response.signature.value)

\* Mutant: the counter is looked at first.
finish_authentication_counter_first(wa, state, response, stored, now) ==
       CheckCounter(stored, response.authenticator_data.value)
    ?? VerifyAssertion(wa, state, response, stored, now)

finish_authentication(wa, state, response, stored, now) ==
       VerifyAssertion(wa, state, response, stored, now)
    ?? CheckCounter(stored, response.authenticator_data.value)
=============================================================================
