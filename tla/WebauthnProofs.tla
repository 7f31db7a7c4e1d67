---------------------------- MODULE WebauthnProofs ----------------------------
(***************************************************************************)
(* What a verdict of Ok says, for any configuration, state, response and    *)
(* clock: from the chain of checks in finish_registration and               *)
(* finish_authentication, the single facts that the proofs about the        *)
(* relying party and the servers rest on.                                   *)
(***************************************************************************)
EXTENDS Authenticator, TLAPS

\* `a?; b` succeeds exactly when both steps do.
LEMMA TryOk == ASSUME NEW a, NEW b PROVE (a ?? b) = Ok <=> a = Ok /\ b = Ok
BY DEF ??, Ok

\* client_data::validate succeeds only on the expected type, challenge and origin.
LEMMA ValidateOk ==
    ASSUME NEW encoded, NEW type, NEW challenge, NEW origin, NEW strict,
           validate(encoded, type, challenge, origin, strict) = Ok
    PROVE  /\ encoded.value.type = type
           /\ encoded.value.challenge.value = challenge
           /\ encoded.value.origin = origin
<1> DEFINE p == encoded.value
<1>1. /\ FailIf(p.type # type, "ClientDataType") = Ok
      /\ FailIf(p.challenge.value # challenge, "ChallengeMismatch") = Ok
      /\ FailIf(p.origin # origin, "OriginMismatch") = Ok
  BY DEF validate, ??, Ok
<1> QED  BY <1>1 DEF FailIf, Ok

\* The authenticator data belong to a ceremony with the user, verified when the
\* configuration asks for it.
LEMMA CheckAuthenticatorOk ==
    ASSUME NEW w, NEW ad, CheckAuthenticator(w, ad) = Ok
    PROVE  w.require_uv => "UV" \in ad.flags
BY DEF CheckAuthenticator, user_verified, user_present, FailIf, ??, Ok

\* What finish_registration has checked of a response when it returns a credential.
LEMMA FinishRegistrationOk ==
    ASSUME NEW w, NEW state, NEW response, NEW time,
           finish_registration(w, state, response, time) = Ok
    PROVE  LET cd == response.client_data_json.value IN
           /\ cd.challenge.value = state.challenge
           /\ cd.origin = w.origin
           /\ w.require_uv => "UV" \in response.attestation_object.value.auth_data.flags
<1>1. /\ validate(response.client_data_json, TYPE_REGISTER, state.challenge, w.origin,
                  w.strict_base64) = Ok
      /\ CheckAuthenticator(w, response.attestation_object.value.auth_data) = Ok
  BY DEF finish_registration, ??, Ok
<1> QED  BY <1>1, ValidateOk, CheckAuthenticatorOk

\* What finish_authentication has checked when it comes to the counter.
LEMMA VerifyAssertionOk ==
    ASSUME NEW w, NEW state, NEW response, NEW st, NEW time,
           VerifyAssertion(w, state, response, st, time) = Ok
    PROVE  LET cd == response.client_data_json.value IN
           /\ check_not_expired(state.created_at, time) = Ok
           /\ state.allow_credentials # {} => response.id.value \in state.allow_credentials
           /\ response.id.value = st.id
           /\ state.user_handle # None /\ response.user_handle # None
                 => response.user_handle.value = state.user_handle
           /\ w.require_user_handle /\ state.user_handle # None
                 => response.user_handle # None
           /\ cd.challenge.value = state.challenge
           /\ cd.origin = w.origin
           /\ w.require_uv => "UV" \in response.authenticator_data.value.flags
<1>1. /\ check_not_expired(state.created_at, time) = Ok
      /\ FailIf(/\ state.allow_credentials # {}
                /\ response.id.value \notin state.allow_credentials, "BadSignature") = Ok
      /\ FailIf(response.id.value # st.id, "BadSignature") = Ok
      /\ CheckUserHandle(w, state, response) = Ok
      /\ validate(response.client_data_json, TYPE_AUTHENTICATE, state.challenge, w.origin,
                  w.strict_base64) = Ok
      /\ CheckAuthenticator(w, response.authenticator_data.value) = Ok
  BY DEF VerifyAssertion, ??, Ok
<1>2. /\ state.user_handle # None /\ response.user_handle # None
            => response.user_handle.value = state.user_handle
      /\ w.require_user_handle /\ state.user_handle # None => response.user_handle # None
  BY <1>1 DEF CheckUserHandle, FailIf, ??, Ok
<1>3. /\ state.allow_credentials # {} => response.id.value \in state.allow_credentials
      /\ response.id.value = st.id
  BY <1>1 DEF FailIf, Ok
<1> QED  BY <1>1, <1>2, <1>3, ValidateOk, CheckAuthenticatorOk

\* The counter has grown, or the authenticator does not count.
LEMMA CheckCounterOk ==
    ASSUME NEW st, NEW ad, st.counter \in Nat, ad.sign_count \in Nat,
           CheckCounter(st, ad) = Ok
    PROVE  st.counter < ad.sign_count \/ (ad.sign_count = 0 /\ st.counter = 0)
BY DEF CheckCounter, FailIf, Ok

\* finish_authentication succeeds when both of its parts do.
LEMMA FinishAuthenticationOk ==
    ASSUME NEW w, NEW state, NEW response, NEW st, NEW time
    PROVE  finish_authentication(w, state, response, st, time) = Ok
              <=> /\ VerifyAssertion(w, state, response, st, time) = Ok
                  /\ CheckCounter(st, response.authenticator_data.value) = Ok
BY TryOk DEF finish_authentication

\* The credential of a response is the one that its authenticator data name.
LEMMA NewCredentialOf ==
    ASSUME NEW response,
           "AT" \in response.attestation_object.value.auth_data.flags
    PROVE  LET ad == response.attestation_object.value.auth_data IN
           /\ NewCredential(response).id = ad.credential_id
           /\ NewCredential(response).counter = ad.sign_count
           /\ NewCredential(response).public_key_cose = ad.cose
BY DEF NewCredential, Attested
=============================================================================
