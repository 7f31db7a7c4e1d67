--------------------------- MODULE WireFaultsProofs ---------------------------
(***************************************************************************)
(* The statements of WireFaults for any number of changed parts: what the   *)
(* signatures seal, and what holds of every response, however it came       *)
(* about.                                                                   *)
(***************************************************************************)
EXTENDS WireFaults, WebauthnProofs

-----------------------------------------------------------------------------
(* The checks that an accepted response has passed, each of them. *)

\* finish_registration succeeds exactly when each of its calls does.
LEMMA RegistrationSteps ==
    ASSUME NEW w, NEW state, NEW response, NEW time
    PROVE  LET cdj == response.client_data_json
               att == response.attestation_object.value
               key == Attested(att.auth_data).public_key_cose
           IN  finish_registration(w, state, response, time) = Ok
                 <=> /\ check_not_expired(state.created_at, time) = Ok
                     /\ validate(cdj, TYPE_REGISTER, state.challenge, w.origin, w.strict_base64) = Ok
                     /\ decode_b64(w.strict_base64, response.attestation_object) = Ok
                     /\ ParseAttestation(att) = Ok
                     /\ CheckAuthenticator(w, att.auth_data) = Ok
                     /\ Attested(att.auth_data) # None
                     /\ CheckCredentialKey(key) = Ok
                     /\ verify_statement(att, KeyOf(key), cdj.value) = Ok
BY DEF finish_registration, FailIf, ??, Ok

\* finish_authentication does, up to the counter.
LEMMA AssertionSteps ==
    ASSUME NEW w, NEW state, NEW response, NEW st, NEW time
    PROVE  LET cdj == response.client_data_json
               ad  == response.authenticator_data
           IN  VerifyAssertion(w, state, response, st, time) = Ok
                 <=> /\ check_not_expired(state.created_at, time) = Ok
                     /\ decode_b64(w.strict_base64, response.id) = Ok
                     /\ state.allow_credentials # {} => response.id.value \in state.allow_credentials
                     /\ response.id.value = st.id
                     /\ CheckUserHandle(w, state, response) = Ok
                     /\ validate(cdj, TYPE_AUTHENTICATE, state.challenge, w.origin,
                                 w.strict_base64) = Ok
                     /\ decode_b64(w.strict_base64, ad) = Ok
                     /\ ParseAuthenticatorData(ad.value) = Ok
                     /\ CheckAuthenticator(w, ad.value) = Ok
                     /\ ParseCoseKey(st.public_key_cose) = Ok
                     /\ decode_b64(w.strict_base64, response.signature) = Ok
                     /\ verify(KeyOf(st.public_key_cose),
                               PackedMessage(ad.value, cdj.value),
                               response.signature.value) = Ok
BY DEF VerifyAssertion, PackedMessage, FailIf, ??, Ok

-----------------------------------------------------------------------------
(* The builder switches. *)

\* What strict decoding accepts, the lenient one does: its engine is one of four.
LEMMA DecodeLaxer ==
    ASSUME NEW strict \in BOOLEAN, NEW lax \in BOOLEAN, lax => strict, NEW s,
           decode_b64(strict, s) = Ok
    PROVE  decode_b64(lax, s) = Ok
BY DEF decode_b64, b64url_decode, b64url_decode_strict, FailIf, Ok

\* The document is validated with the same decoder, twice.
LEMMA ValidateLaxer ==
    ASSUME NEW strict \in BOOLEAN, NEW lax \in BOOLEAN, lax => strict,
           NEW encoded, NEW type, NEW challenge, NEW origin,
           validate(encoded, type, challenge, origin, strict) = Ok
    PROVE  validate(encoded, type, challenge, origin, lax) = Ok
<1> DEFINE p == encoded.value
<1>1. /\ decode_b64(strict, encoded) = Ok
      /\ FailIf(~p.json, "ClientData") = Ok
      /\ FailIf(p.type # type, "ClientDataType") = Ok
      /\ decode_b64(strict, p.challenge) = Ok
      /\ FailIf(p.challenge.value # challenge, "ChallengeMismatch") = Ok
      /\ FailIf(p.origin # origin, "OriginMismatch") = Ok
  BY DEF validate, ??, Ok
<1>2. decode_b64(lax, encoded) = Ok /\ decode_b64(lax, p.challenge) = Ok
  BY <1>1, DecodeLaxer
<1> QED  BY <1>1, <1>2 DEF validate, ??, Ok

\* Without require_uv, the user need not be verified.
LEMMA AuthenticatorLaxer ==
    ASSUME NEW w1 \in Config, NEW w2 \in Config, StricterThan(w1, w2), NEW ad,
           CheckAuthenticator(w1, ad) = Ok
    PROVE  CheckAuthenticator(w2, ad) = Ok
<1>1. /\ FailIf(ad.rp_id_hash # w1.rp_id, "RpIdHashMismatch") = Ok
      /\ FailIf(~user_present(ad), "UserNotPresent") = Ok
      /\ FailIf(w1.require_uv /\ ~user_verified(ad), "UserNotVerified") = Ok
  BY DEF CheckAuthenticator, ??, Ok
<1>2. w1.rp_id = w2.rp_id /\ (w2.require_uv => w1.require_uv)
  BY DEF Config, StricterThan
<1>3. FailIf(w2.require_uv /\ ~user_verified(ad), "UserNotVerified") = Ok
  BY <1>1, <1>2 DEF FailIf, Ok
<1> QED  BY <1>1, <1>2, <1>3 DEF CheckAuthenticator, ??, Ok

\* Without require_user_handle, the user handle may be missing.
LEMMA UserHandleLaxer ==
    ASSUME NEW w1 \in Config, NEW w2 \in Config, StricterThan(w1, w2), NEW state, NEW response,
           CheckUserHandle(w1, state, response) = Ok
    PROVE  CheckUserHandle(w2, state, response) = Ok
<1>1. /\ w1.strict_base64 \in BOOLEAN /\ w2.strict_base64 \in BOOLEAN
      /\ w2.strict_base64 => w1.strict_base64
      /\ w2.require_user_handle => w1.require_user_handle
  BY DEF Config, StricterThan
<1>2. CASE state.user_handle = None
  BY <1>2 DEF CheckUserHandle
<1>3. CASE state.user_handle # None /\ response.user_handle = None
  BY <1>1, <1>3 DEF CheckUserHandle, FailIf, Ok
<1>4. CASE state.user_handle # None /\ response.user_handle # None
  <2>1. /\ decode_b64(w1.strict_base64, response.user_handle) = Ok
        /\ FailIf(response.user_handle.value # state.user_handle, "UserHandleMismatch") = Ok
    BY <1>4 DEF CheckUserHandle, ??, Ok
  <2>2. decode_b64(w2.strict_base64, response.user_handle) = Ok
    BY <1>1, <2>1, DecodeLaxer
  <2> QED  BY <1>4, <2>1, <2>2 DEF CheckUserHandle, ??, Ok
<1> QED  BY <1>2, <1>3, <1>4

\* A registration that a configuration accepts, a laxer one accepts.
LEMMA RegistrationLaxer ==
    ASSUME NEW w1 \in Config, NEW w2 \in Config, StricterThan(w1, w2),
           NEW state, NEW response, NEW time,
           finish_registration(w1, state, response, time) = Ok
    PROVE  finish_registration(w2, state, response, time) = Ok
<1> DEFINE cdj == response.client_data_json
           att == response.attestation_object
<1>1. /\ w1.strict_base64 \in BOOLEAN /\ w2.strict_base64 \in BOOLEAN
      /\ w2.strict_base64 => w1.strict_base64
      /\ w1.origin = w2.origin
  BY DEF Config, StricterThan
<1>2. /\ validate(cdj, TYPE_REGISTER, state.challenge, w1.origin, w1.strict_base64) = Ok
      /\ decode_b64(w1.strict_base64, att) = Ok
      /\ CheckAuthenticator(w1, att.value.auth_data) = Ok
  BY RegistrationSteps
<1>3. /\ validate(cdj, TYPE_REGISTER, state.challenge, w2.origin, w2.strict_base64) = Ok
      /\ decode_b64(w2.strict_base64, att) = Ok
      /\ CheckAuthenticator(w2, att.value.auth_data) = Ok
  BY <1>1, <1>2, ValidateLaxer, DecodeLaxer, AuthenticatorLaxer
<1> QED  BY <1>3, RegistrationSteps

\* So is an assertion.
LEMMA AssertionLaxer ==
    ASSUME NEW w1 \in Config, NEW w2 \in Config, StricterThan(w1, w2),
           NEW state, NEW response, NEW st, NEW time,
           finish_authentication(w1, state, response, st, time) = Ok
    PROVE  finish_authentication(w2, state, response, st, time) = Ok
<1> DEFINE cdj == response.client_data_json
           ad  == response.authenticator_data
<1>1. /\ w1.strict_base64 \in BOOLEAN /\ w2.strict_base64 \in BOOLEAN
      /\ w2.strict_base64 => w1.strict_base64
      /\ w1.origin = w2.origin
  BY DEF Config, StricterThan
<1>2. VerifyAssertion(w1, state, response, st, time) = Ok
  BY FinishAuthenticationOk
<1>3. /\ decode_b64(w1.strict_base64, response.id) = Ok
      /\ decode_b64(w1.strict_base64, ad) = Ok
      /\ decode_b64(w1.strict_base64, response.signature) = Ok
      /\ CheckUserHandle(w1, state, response) = Ok
      /\ validate(cdj, TYPE_AUTHENTICATE, state.challenge, w1.origin, w1.strict_base64) = Ok
      /\ CheckAuthenticator(w1, ad.value) = Ok
  BY <1>2, AssertionSteps
<1>4. /\ decode_b64(w2.strict_base64, response.id) = Ok
      /\ decode_b64(w2.strict_base64, ad) = Ok
      /\ decode_b64(w2.strict_base64, response.signature) = Ok
      /\ CheckUserHandle(w2, state, response) = Ok
      /\ validate(cdj, TYPE_AUTHENTICATE, state.challenge, w2.origin, w2.strict_base64) = Ok
      /\ CheckAuthenticator(w2, ad.value) = Ok
  BY <1>1, <1>3, DecodeLaxer, UserHandleLaxer, ValidateLaxer, AuthenticatorLaxer
<1>5. VerifyAssertion(w2, state, response, st, time) = Ok
  BY <1>2, <1>4, AssertionSteps
<1> QED  BY <1>5, FinishAuthenticationOk

\* The switches are monotone, whatever is received.
LEMMA TighteningRejects == TighteningOnlyRejects
<1> SUFFICES ASSUME NEW w1 \in Config, NEW w2 \in Config, StricterThan(w1, w2),
                    Verdict(w1, received) = Ok
             PROVE  Verdict(w2, received) = Ok
  BY DEF TighteningOnlyRejects
<1> QED  BY RegistrationLaxer, AssertionLaxer DEF Verdict

\* The three builder switches of Webauthn only ever make it stricter, for every
\* response that can arrive.
THEOREM TighteningNeverAccepts == Spec => []TighteningOnlyRejects
BY TighteningRejects, PTL

-----------------------------------------------------------------------------
(* Attestation certificates. *)

\* What Accepted means for a registration and for an assertion.
LEMMA AcceptedIs ==
    /\ Registering /\ Accepted
         => \E w \in Config : finish_registration(w, RegistrationState, received, 0) = Ok
    /\ Authenticating /\ Accepted
         => \E w \in Config : finish_authentication(w, AuthenticationState, received,
                                                    StoredCredential(cose_pubkey(P)), 0) = Ok
BY DEF Accepted, Verdict, Registering, Authenticating

\* A credential is returned only for authenticator data that were parsed and that
\* attest one.
LEMMA AcceptedRegistration ==
    ASSUME Registering, Accepted
    PROVE  LET ad == ReceivedObject.auth_data IN
           /\ ad \notin {None, WrongType}
           /\ "AT" \in ad.flags /\ Attested(ad) # None
           /\ ReceivedObject.fmt \notin {None, WrongType}
           /\ CheckCredentialKey(ad.cose) = Ok
           /\ verify_statement(ReceivedObject, KeyOf(ad.cose), received.client_data_json.value) = Ok
           /\ NewCredential(received) = [id |-> ad.credential_id, public_key_cose |-> ad.cose,
                                         counter |-> ad.sign_count, aaguid |-> ad.aaguid]
<1> DEFINE ad == ReceivedObject.auth_data
<1>1. PICK w \in Config : finish_registration(w, RegistrationState, received, 0) = Ok
  BY AcceptedIs
<1>2. /\ ParseAttestation(ReceivedObject) = Ok
      /\ Attested(ad) # None
      /\ CheckCredentialKey(Attested(ad).public_key_cose) = Ok
      /\ verify_statement(ReceivedObject, KeyOf(Attested(ad).public_key_cose),
                          received.client_data_json.value) = Ok
  BY <1>1, RegistrationSteps DEF ReceivedObject
<1>3. ad \notin {None, WrongType} /\ ReceivedObject.fmt \notin {None, WrongType}
  BY <1>2 DEF ParseAttestation, FailIf, ??, Ok
<1>4. "AT" \in ad.flags
  BY <1>2 DEF Attested
<1>5. Attested(ad) = [aaguid |-> ad.aaguid, credential_id |-> ad.credential_id,
                      public_key_cose |-> ad.cose]
  BY <1>4 DEF Attested
<1>6. NewCredential(received) = [id |-> ad.credential_id, public_key_cose |-> ad.cose,
                                 counter |-> ad.sign_count, aaguid |-> ad.aaguid]
  BY <1>5 DEF NewCredential, ReceivedObject
<1> QED  BY <1>2, <1>3, <1>4, <1>5, <1>6

\* verify_packed compares the certificate's model with the attested one before
\* it looks at the signature, and nothing but a readable model passes from_der.
LEMMA PackedNamesTheModel ==
    ASSUME NEW obj, NEW key, NEW cdj, obj.fmt = "packed",
           Attested(obj.auth_data) # None,
           obj.att_stmt.x5c # None, verify_statement(obj, key, cdj) = Ok
    PROVE  obj.att_stmt.x5c[1].aaguid \in {None, Attested(obj.auth_data).aaguid}
<1>1. verify_packed(obj, key, cdj) = Ok
  BY DEF verify_statement
<1>2. CASE obj.att_stmt = None
  <2>1. Statement(obj).sig = None
    BY <1>2 DEF Statement, NoStatement
  <2>2. FailIf(Statement(obj).sig \in {None, WrongType}, "Cbor") = Ok
    BY <1>1 DEF verify_packed, ParseStatement, ??, Ok
  <2> QED  BY <2>1, <2>2 DEF FailIf, Ok
<1>3. CASE obj.att_stmt # None
  <2>1. Statement(obj) = obj.att_stmt
    BY <1>3 DEF Statement
  <2>2. CheckModel(obj.att_stmt.x5c[1], obj.auth_data) = Ok
    BY <1>1, <2>1 DEF verify_packed, ??, Ok
  <2> QED  BY <2>2 DEF CheckModel, FailIf, Ok
<1> QED  BY <1>2, <1>3

\* The model that the attestation key's certificate names is the model that the
\* credential is filed under, whatever is received.
LEMMA CertificateTold == CertificateNamesTheModel
<1> SUFFICES ASSUME Registering, ReceivedObject.fmt = "packed", Accepted,
                    ReceivedObject.att_stmt.x5c # None
             PROVE  ReceivedObject.att_stmt.x5c[1].aaguid \in {None, NewCredential(received).aaguid}
  BY DEF CertificateNamesTheModel
<1> DEFINE ad == ReceivedObject.auth_data
<1>1. /\ "AT" \in ad.flags /\ Attested(ad) # None
      /\ verify_statement(ReceivedObject, KeyOf(ad.cose), received.client_data_json.value) = Ok
      /\ NewCredential(received).aaguid = ad.aaguid
  BY AcceptedRegistration
<1>2. Attested(ad).aaguid = ad.aaguid
  BY <1>1 DEF Attested
<1> QED  BY <1>1, <1>2, PackedNamesTheModel

\* No response is accepted whose certificate names another model, or one that
\* cannot be read.
THEOREM CertificatesTell == Spec => []CertificateNamesTheModel
BY CertificateTold, PTL

-----------------------------------------------------------------------------
(* Every call returns Ok or a variant of Error.                               *)

Outcomes == {Ok} \cup Error

\* FailIf returns Ok or the error it is given.
LEMMA FailIfIn == ASSUME NEW bad, NEW err \in Error PROVE FailIf(bad, err) \in Outcomes
BY DEF FailIf, Outcomes

\* `a?; b` returns what a or b returns.
LEMMA TryIn == ASSUME NEW a \in Outcomes, NEW b \in Outcomes PROVE (a ?? b) \in Outcomes
BY DEF ??

\* The decoders.
LEMMA DecodeIn == ASSUME NEW strict, NEW s PROVE decode_b64(strict, s) \in Outcomes
BY DEF decode_b64, b64url_decode, b64url_decode_strict, FailIf, Outcomes, Error

\* client_data::validate.
LEMMA ValidateIn ==
    ASSUME NEW encoded, NEW type, NEW challenge, NEW origin, NEW strict
    PROVE  validate(encoded, type, challenge, origin, strict) \in Outcomes
BY DecodeIn, FailIfIn, TryIn DEF validate, Error

\* The parsers of the authenticator data and of the attestation object.
LEMMA ParseIn ==
    ASSUME NEW x
    PROVE  ParseAuthenticatorData(x) \in Outcomes /\ ParseAttestation(x) \in Outcomes
<1>1. ASSUME NEW ad PROVE ParseAuthenticatorData(ad) \in Outcomes
  <2>1. ParseAttestedCredentialData(ad) \in Outcomes
    BY DEF ParseAttestedCredentialData, FailIf, ??, Ok, Outcomes, Error
  <2> QED  BY <2>1 DEF ParseAuthenticatorData, FailIf, ??, Ok, Outcomes, Error
<1>2. ParseAttestation(x) \in Outcomes
  BY <1>1 DEF ParseAttestation, FailIf, ??, Ok, Outcomes, Error
<1> QED  BY <1>1, <1>2

\* CoseKey::parse and verify.
LEMMA CoseIn ==
    ASSUME NEW blob, NEW key, NEW msg, NEW sig
    PROVE  /\ ParseCoseKey(blob) \in Outcomes
           /\ CheckCredentialKey(blob) \in Outcomes
           /\ verify(key, msg, sig) \in Outcomes
<1>1. \A k : CheckCoordinate(blob, k) \in Outcomes
  BY DEF CheckCoordinate, FailIf, ??, Ok, Outcomes, Error
<1>2. ParseCoseKey(blob) \in Outcomes
  BY <1>1 DEF ParseCoseKey, FailIf, ??, Ok, Outcomes, Error
<1> QED  BY <1>2 DEF CheckCredentialKey, verify, FailIf, ??, Ok, Outcomes, Error

\* The statement verifiers.
LEMMA StatementIn ==
    ASSUME NEW obj, NEW key, NEW cdj
    PROVE  verify_statement(obj, key, cdj) \in Outcomes
<1>1. \A stmt : ParseStatement(stmt) \in Outcomes
  BY DEF ParseStatement, FailIf, ??, Ok, Outcomes, Error
<1>2. \A cert : from_der(cert) \in Outcomes
  BY DEF from_der, FailIf, ??, Ok, Outcomes, Error
<1>3. \A cert, msg, sig : verify_es256_sec1(cert, msg, sig) \in Outcomes
  BY CoseIn DEF verify_es256_sec1
<1>4. \A leaf, ad : CheckModel(leaf, ad) \in Outcomes
  BY DEF CheckModel, FailIf, Ok, Outcomes, Error
<1>5. verify_packed(obj, key, cdj) \in Outcomes
  BY <1>1, <1>2, <1>3, <1>4, CoseIn, FailIfIn, TryIn DEF verify_packed, Error
<1>6. verify_fido_u2f(obj, key, cdj) \in Outcomes
  BY <1>1, <1>2, <1>3, FailIfIn, TryIn DEF verify_fido_u2f, Error
<1> QED  BY <1>5, <1>6 DEF verify_statement, Outcomes, Error

\* The checks of the authenticator data, the user handle, the age and the counter.
LEMMA ChecksIn ==
    ASSUME NEW w, NEW ad, NEW state, NEW response, NEW st, NEW created, NEW time
    PROVE  /\ CheckAuthenticator(w, ad) \in Outcomes
           /\ CheckUserHandle(w, state, response) \in Outcomes
           /\ CheckCounter(st, ad) \in Outcomes
           /\ check_not_expired(created, time) \in Outcomes
<1>1. CheckUserHandle(w, state, response) \in Outcomes
  BY DecodeIn, FailIfIn, TryIn DEF CheckUserHandle, Outcomes, Error
<1> QED  BY <1>1 DEF CheckAuthenticator, CheckCounter, check_not_expired, FailIf, ??, Ok, Outcomes, Error

\* The two finish_*.
LEMMA FinishIn ==
    ASSUME NEW w, NEW state, NEW response, NEW st, NEW time
    PROVE  /\ finish_registration(w, state, response, time) \in Outcomes
           /\ finish_authentication(w, state, response, st, time) \in Outcomes
<1>1. finish_registration(w, state, response, time) \in Outcomes
  BY ChecksIn, ValidateIn, DecodeIn, ParseIn, CoseIn, StatementIn, FailIfIn, TryIn
     DEF finish_registration, Error
<1>2. VerifyAssertion(w, state, response, st, time) \in Outcomes
  BY ChecksIn, ValidateIn, DecodeIn, ParseIn, CoseIn, FailIfIn, TryIn DEF VerifyAssertion, Error
<1> QED  BY <1>1, <1>2, ChecksIn, TryIn DEF finish_authentication

-----------------------------------------------------------------------------
(* What no step changes: the signatures that arrive are over what the         *)
(* authenticator signed, or over nothing of the crate's.                      *)

\* A signature that was damaged, or made by another key, over the same message.
SignatureOK(sig, honest) ==
    /\ DOMAIN sig = {"shape", "by", "over"}
    /\ sig.over \in {honest.over, Garbled}

\* The statement that is sent with format none has no signature.
StatementOK(stmt) ==
    /\ DOMAIN stmt = {"alg", "sig", "x5c"}
    /\ stmt.sig \notin {None, WrongType} =>
          SentObject.fmt # "none" /\ SignatureOK(stmt.sig, SentObject.att_stmt.sig)

CountOK(ad) == "sign_count" \in DOMAIN ad /\ ad.sign_count \in Nat

ObjectOK(obj) ==
    /\ DOMAIN obj = {"cbor", "map", "fmt", "att_stmt", "auth_data"}
    /\ obj.auth_data \notin {None, WrongType} => CountOK(obj.auth_data)
    /\ obj.att_stmt \notin {None, WrongType} => StatementOK(obj.att_stmt)

ResponseOK(r) ==
    /\ DOMAIN r = DOMAIN sent
    /\ DOMAIN r.client_data_json = {"form", "value"} /\ r.client_data_json.form \in Form
    /\ "attestation_object" \in DOMAIN r =>
          DOMAIN r.attestation_object = {"form", "value"} /\ ObjectOK(r.attestation_object.value)
    /\ "attestation_object" \notin DOMAIN r =>
          /\ DOMAIN r = {"id", "authenticator_data", "signature", "client_data_json", "user_handle"}
          /\ DOMAIN r.signature = {"form", "value"}
          /\ SignatureOK(r.signature.value, sent.signature.value)

\* The inductive invariant.
IInv ==
    /\ faults \in 0..MaxFaults
    /\ sent \in HonestResponse
    /\ ResponseOK(received)

\* The honest registrations, by format: what was signed, if anything.
LEMMA HonestObject ==
    ASSUME NEW obj \in HonestAttestation
    PROVE  /\ DOMAIN obj = {"cbor", "map", "fmt", "att_stmt", "auth_data"}
           /\ CountOK(obj.auth_data)
           /\ DOMAIN obj.att_stmt = {"alg", "sig", "x5c"}
           /\ \/ obj.fmt = "none" /\ obj.att_stmt.sig = None
              \/ /\ obj.fmt = "packed"
                 /\ DOMAIN obj.att_stmt.sig = {"shape", "by", "over"}
                 /\ obj.att_stmt.sig.over = PackedMessage(obj.auth_data, Created)
              \/ /\ obj.fmt = "fido-u2f"
                 /\ obj.auth_data = NewAuthData(cose_pubkey_es256(P), "zeros")
                 /\ DOMAIN obj.att_stmt.sig = {"shape", "by", "over"}
                 /\ obj.att_stmt.sig.over =
                       [rp_id_hash |-> RpId, cdj |-> Created, credential_id |-> P,
                        x |-> KeyOf(cose_pubkey_es256(P)).x, y |-> KeyOf(cose_pubkey_es256(P)).y]
<1>1. \A cose, aaguid : LET ad == NewAuthData(cose, aaguid) IN
         /\ CountOK(ad) /\ ad.rp_id_hash = RpId /\ ad.credential_id = P /\ ad.cose = cose
  BY DEF NewAuthData, auth_data_register, CountOK
<1>2. ASSUME NEW key, NEW msg
      PROVE  LET sig == Signature(key, msg) IN
             DOMAIN sig = {"shape", "by", "over"} /\ sig.over = msg
  BY DEF Signature
<1>3. ASSUME NEW cose, obj = none_attestation(NewAuthData(cose, "model"))
      PROVE  /\ DOMAIN obj = {"cbor", "map", "fmt", "att_stmt", "auth_data"}
             /\ CountOK(obj.auth_data)
             /\ DOMAIN obj.att_stmt = {"alg", "sig", "x5c"}
             /\ obj.fmt = "none" /\ obj.att_stmt.sig = None
  BY <1>1, <1>3 DEF none_attestation, attestation_object, NoStatement
<1>4. ASSUME NEW cose, obj = packed_self_attestation(NewAuthData(cose, "model"), Created)
      PROVE  /\ DOMAIN obj = {"cbor", "map", "fmt", "att_stmt", "auth_data"}
             /\ CountOK(obj.auth_data)
             /\ DOMAIN obj.att_stmt = {"alg", "sig", "x5c"}
             /\ obj.fmt = "packed"
             /\ DOMAIN obj.att_stmt.sig = {"shape", "by", "over"}
             /\ obj.att_stmt.sig.over = PackedMessage(obj.auth_data, Created)
  BY <1>1, <1>2, <1>4 DEF packed_self_attestation, attestation_object, PackedMessage
<1>5. ASSUME NEW cert, NEW cose,
             obj = packed_x5c_attestation(cert, NewAuthData(cose, "model"), Created)
      PROVE  /\ DOMAIN obj = {"cbor", "map", "fmt", "att_stmt", "auth_data"}
             /\ CountOK(obj.auth_data)
             /\ DOMAIN obj.att_stmt = {"alg", "sig", "x5c"}
             /\ obj.fmt = "packed"
             /\ DOMAIN obj.att_stmt.sig = {"shape", "by", "over"}
             /\ obj.att_stmt.sig.over = PackedMessage(obj.auth_data, Created)
  BY <1>1, <1>2, <1>5 DEF packed_x5c_attestation, attestation_object, PackedMessage
<1>6. ASSUME NEW cert,
             obj = fido_u2f_attestation(cert, NewAuthData(cose_pubkey_es256(P), "zeros"), Created)
      PROVE  /\ DOMAIN obj = {"cbor", "map", "fmt", "att_stmt", "auth_data"}
             /\ CountOK(obj.auth_data)
             /\ DOMAIN obj.att_stmt = {"alg", "sig", "x5c"}
             /\ obj.fmt = "fido-u2f"
             /\ obj.auth_data = NewAuthData(cose_pubkey_es256(P), "zeros")
             /\ DOMAIN obj.att_stmt.sig = {"shape", "by", "over"}
             /\ obj.att_stmt.sig.over =
                   [rp_id_hash |-> RpId, cdj |-> Created, credential_id |-> P,
                    x |-> KeyOf(cose_pubkey_es256(P)).x, y |-> KeyOf(cose_pubkey_es256(P)).y]
  BY <1>1, <1>2, <1>6 DEF fido_u2f_attestation, attestation_object
<1> DEFINE eddsa == NewAuthData(cose_pubkey(P), "model")
           es256 == NewAuthData(cose_pubkey_es256(P), "model")
           u2f   == NewAuthData(cose_pubkey_es256(P), "zeros")
<1>7. \/ obj = none_attestation(eddsa)
      \/ obj = packed_self_attestation(eddsa, Created)
      \/ obj = packed_self_attestation(es256, Created)
      \/ obj = packed_x5c_attestation(AttestationCert(Batch, "model"), es256, Created)
      \/ obj = fido_u2f_attestation(AttestationCert(Batch, None), u2f, Created)
  BY DEF HonestAttestation
<1> QED  BY <1>3, <1>4, <1>5, <1>6, <1>7

\* The honest responses.
LEMMA HonestIs ==
    ASSUME NEW r \in HonestResponse
    PROVE  \/ /\ DOMAIN r = {"client_data_json", "attestation_object"}
              /\ r.client_data_json = Text(B64Url, Created)
              /\ \E obj \in HonestAttestation : r.attestation_object = Text(B64Url, obj)
           \/ /\ DOMAIN r = {"id", "authenticator_data", "signature", "client_data_json", "user_handle"}
              /\ r.client_data_json = Text(B64Url, Asserted)
              /\ r.id = Text(B64Url, P)
              /\ r.authenticator_data = Text(B64Url, auth_data_authenticate(RpId, {"UP", "UV"}, 5))
              /\ r.signature = Text(B64Url,
                                    sign_assertion(cose_pubkey(P), r.authenticator_data.value, Asserted))
<1>1. CASE r \in {RegistrationResponse(B64Url, att, Created) : att \in HonestAttestation}
  <2>1. PICK att \in HonestAttestation : r = RegistrationResponse(B64Url, att, Created)
    BY <1>1
  <2> QED  BY <2>1 DEF RegistrationResponse
<1>2. ASSUME NEW handle,
             r = AuthenticationResponse(B64Url, P, cose_pubkey(P),
                                        auth_data_authenticate(RpId, {"UP", "UV"}, 5), handle, Asserted)
      PROVE  /\ DOMAIN r = {"id", "authenticator_data", "signature", "client_data_json", "user_handle"}
             /\ r.client_data_json = Text(B64Url, Asserted)
             /\ r.id = Text(B64Url, P)
             /\ r.authenticator_data = Text(B64Url, auth_data_authenticate(RpId, {"UP", "UV"}, 5))
             /\ r.signature = Text(B64Url,
                                   sign_assertion(cose_pubkey(P), r.authenticator_data.value, Asserted))
  BY <1>2 DEF AuthenticationResponse, Text
<1> QED  BY <1>1, <1>2 DEF HonestResponse

\* A behaviour starts with what was sent.
LEMMA InitIInv == Init => IInv
<1> SUFFICES ASSUME Init PROVE IInv
  OBVIOUS
<1>1. faults \in 0..MaxFaults /\ sent \in HonestResponse /\ received = sent
  BY FaultsAssumption DEF Init
<1>2. CASE "attestation_object" \in DOMAIN sent
  <2>1. PICK obj \in HonestAttestation :
           /\ sent.client_data_json = Text(B64Url, Created)
           /\ sent.attestation_object = Text(B64Url, obj)
    BY <1>1, <1>2, HonestIs
  <2>2. /\ DOMAIN sent.client_data_json = {"form", "value"} /\ sent.client_data_json.form \in Form
        /\ DOMAIN sent.attestation_object = {"form", "value"}
        /\ SentObject = obj /\ sent.attestation_object.value = obj
    BY <2>1 DEF Text, B64Url, Form, SentObject
  <2>3. ObjectOK(obj)
    BY <2>2, HonestObject DEF ObjectOK, StatementOK, SignatureOK
  <2> QED  BY <1>1, <1>2, <2>2, <2>3 DEF IInv, ResponseOK
<1>3. CASE "attestation_object" \notin DOMAIN sent
  <2>1. /\ DOMAIN sent = {"id", "authenticator_data", "signature", "client_data_json", "user_handle"}
        /\ sent.client_data_json = Text(B64Url, Asserted)
        /\ sent.signature = Text(B64Url, sign_assertion(cose_pubkey(P), sent.authenticator_data.value,
                                                        Asserted))
    BY <1>1, <1>3, HonestIs
  <2>2. /\ DOMAIN sent.client_data_json = {"form", "value"} /\ sent.client_data_json.form \in Form
        /\ DOMAIN sent.signature = {"form", "value"}
        /\ SignatureOK(sent.signature.value, sent.signature.value)
    BY <2>1 DEF Text, B64Url, Form, sign_assertion, Signature, SignatureOK
  <2> QED  BY <1>1, <1>3, <2>1, <2>2 DEF IInv, ResponseOK
<1> QED  BY <1>2, <1>3

\* What arrives may be replaced by another response of the same parts.
LEMMA ReceiveKeeps ==
    ASSUME IInv, NEW r, ResponseOK(r), Receive(r)
    PROVE  IInv'
<1>1. /\ faults < MaxFaults /\ faults' = faults + 1 /\ received' = r /\ sent' = sent
  BY DEF Receive
<1>2. faults' \in 0..MaxFaults
  BY <1>1, FaultsAssumption DEF IInv
<1>3. SentObject' = SentObject
  BY <1>1 DEF SentObject
<1>4. ResponseOK(received)'
  BY <1>1, <1>3 DEF ResponseOK, ObjectOK, StatementOK, SignatureOK
<1> QED  BY <1>1, <1>2, <1>4 DEF IInv

\* The attestation object may be replaced by another.
LEMMA ObjectReplaced ==
    ASSUME IInv, Registering, NEW obj, ObjectOK(obj), NEW r,
           r = [received EXCEPT !.attestation_object.value = obj]
    PROVE  ResponseOK(r)
<1>1. ResponseOK(received) /\ "attestation_object" \in DOMAIN received
  BY DEF IInv, Registering
<1>2. /\ DOMAIN r = DOMAIN received
      /\ r.client_data_json = received.client_data_json
      /\ r.attestation_object = [received.attestation_object EXCEPT !.value = obj]
  BY <1>1 DEF ResponseOK
<1>3. DOMAIN r.attestation_object = {"form", "value"} /\ r.attestation_object.value = obj
  BY <1>1, <1>2 DEF ResponseOK
<1> QED  BY <1>1, <1>2, <1>3 DEF ResponseOK

\* Another base64 form changes no value.
LEMMA ReencodeKeeps == ASSUME IInv, Reencode PROVE IInv'
<1>1. PICK field \in DOMAIN received, form \in Encodings :
         Receive([received EXCEPT ![field].form = form])
  BY DEF Reencode
<1>2. PICK r, part : r = [received EXCEPT ![field] = part] /\ part = [received[field] EXCEPT !.form = form]
  OBVIOUS
<1>3. r = [received EXCEPT ![field].form = form]
  BY <1>2
<1>4. ResponseOK(received)
  BY DEF IInv
<1>5. DOMAIN r = DOMAIN received /\ r[field] = part /\ \A f \in DOMAIN received : f # field => r[f] = received[f]
  BY <1>2
<1>6. form \in Form
  BY DEF Encodings, Form
<1>7. ASSUME DOMAIN received[field] = {"form", "value"}
      PROVE  DOMAIN part = {"form", "value"} /\ part.form = form /\ part.value = received[field].value
  BY <1>2, <1>7
<1>8. "client_data_json" \in DOMAIN received
  <2>1. sent \in HonestResponse /\ DOMAIN received = DOMAIN sent
    BY <1>4 DEF IInv, ResponseOK
  <2> QED  BY <2>1, HonestIs
<1>9. DOMAIN r.client_data_json = {"form", "value"} /\ r.client_data_json.form \in Form
  BY <1>4, <1>5, <1>6, <1>7, <1>8 DEF ResponseOK
<1>10. CASE "attestation_object" \in DOMAIN received
  <2>1. /\ DOMAIN r.attestation_object = {"form", "value"}
        /\ r.attestation_object.value = received.attestation_object.value
    BY <1>4, <1>5, <1>7, <1>10 DEF ResponseOK
  <2>2. ResponseOK(r)
    BY <1>4, <1>5, <1>9, <1>10, <2>1 DEF ResponseOK
  <2> QED  BY <1>1, <1>3, <2>2, ReceiveKeeps
<1>11. CASE "attestation_object" \notin DOMAIN received
  <2>1. /\ DOMAIN r.signature = {"form", "value"} /\ r.signature.value = received.signature.value
    BY <1>4, <1>5, <1>7, <1>11 DEF ResponseOK
  <2>2. ResponseOK(r)
    BY <1>4, <1>5, <1>9, <1>11, <2>1 DEF ResponseOK
  <2> QED  BY <1>1, <1>3, <2>2, ReceiveKeeps
<1> QED  BY <1>10, <1>11

\* Other client data change no signature.
LEMMA ClientDataKeeps == ASSUME IInv, ChangeClientData PROVE IInv'
<1>1. PICK cdj : Receive([received EXCEPT !.client_data_json.value = cdj])
  BY DEF ChangeClientData
<1>2. PICK r, part : /\ r = [received EXCEPT !.client_data_json = part]
                     /\ part = [received.client_data_json EXCEPT !.value = cdj]
  OBVIOUS
<1>3. r = [received EXCEPT !.client_data_json.value = cdj]
  BY <1>2
<1>4. ResponseOK(received) /\ "client_data_json" \in DOMAIN received
  <2>1. ResponseOK(received) /\ sent \in HonestResponse /\ DOMAIN received = DOMAIN sent
    BY DEF IInv, ResponseOK
  <2> QED  BY <2>1, HonestIs
<1>5. /\ DOMAIN r = DOMAIN received /\ r.client_data_json = part
      /\ \A f \in DOMAIN received : f # "client_data_json" => r[f] = received[f]
  BY <1>2, <1>4
<1>6. DOMAIN part = {"form", "value"} /\ part.form = received.client_data_json.form
  BY <1>2, <1>4 DEF ResponseOK
<1>7. ResponseOK(r)
  <2>1. CASE "attestation_object" \in DOMAIN received
    BY <1>4, <1>5, <1>6, <2>1 DEF ResponseOK
  <2>2. CASE "attestation_object" \notin DOMAIN received
    BY <1>4, <1>5, <1>6, <2>2 DEF ResponseOK
  <2> QED  BY <2>1, <2>2
<1> QED  BY <1>1, <1>3, <1>7, ReceiveKeeps

\* Damaged authenticator data still have a count.
LEMMA DamagedCounts ==
    ASSUME NEW ad, CountOK(ad), NEW d \in HeaderFaults(ad) \cup AttestedFaults(ad) \cup CoseFaults(ad)
    PROVE  CountOK(d)
<1>1. CASE d \in HeaderFaults(ad)
  <2>1. \/ d = [ad EXCEPT !.rp_id_hash = OtherRp]
        \/ \E n \in {0, 3, 4, 6} : d = [ad EXCEPT !.sign_count = n]
        \/ \E f \in Flags : d = [ad EXCEPT !.flags = (@ \ {f}) \cup ({f} \ @)]
        \/ \E n : d = [ad EXCEPT !.len = n]
        \/ \E n, ok : d = [ad EXCEPT !.len = n, !.extensions = ok]
    BY <1>1 DEF HeaderFaults
  <2>2. ASSUME NEW n \in {0, 3, 4, 6}, d = [ad EXCEPT !.sign_count = n]
        PROVE  CountOK(d)
    BY <2>2 DEF CountOK
  <2>3. ASSUME NEW n, NEW ok, \/ d = [ad EXCEPT !.rp_id_hash = n]
                              \/ d = [ad EXCEPT !.flags = n]
                              \/ d = [ad EXCEPT !.len = n]
                              \/ d = [ad EXCEPT !.len = n, !.extensions = ok]
        PROVE  CountOK(d)
    BY <2>3 DEF CountOK
  <2> QED  BY <2>1, <2>2, <2>3
<1>2. CASE d \in AttestedFaults(ad)
  BY <1>2 DEF AttestedFaults, CountOK
<1>3. CASE d \in CoseFaults(ad)
  <2> DEFINE entries == ad.cose.entries
  <2>1. PICK i \in DOMAIN entries, v \in Values : d \in EntryFaults(ad, i, v)
    BY <1>3 DEF CoseFaults
  <2>2. ASSUME NEW c, NEW m, NEW n, d = [ad EXCEPT !.cose.entries = c, !.cose_len = m, !.len = n]
        PROVE  CountOK(d)
    BY <2>2 DEF CountOK
  <2>3. CASE d = [ad EXCEPT !.cose.entries[i].val = v] \/ d = [ad EXCEPT !.cose.entries[i].key = WrongType]
    BY <2>3 DEF CountOK
  <2>4. CASE d = [ad EXCEPT !.cose.entries = Append(@, [ad.cose.entries[i] EXCEPT !.val = v]),
                            !.cose_len = @ + 2, !.len = @ + 2]
    BY <2>2, <2>4
  <2> QED  BY <2>1, <2>3, <2>4 DEF EntryFaults
<1> QED  BY <1>1, <1>2, <1>3

\* Damaged authenticator data change no signature.
LEMMA AuthDataKeeps == ASSUME IInv, ChangeAuthData PROVE IInv'
<1>1. CASE Registering
  <2>1. PICK ad : ad = received.attestation_object.value.auth_data
    OBVIOUS
  <2>2. /\ ad \notin {None, WrongType}
        /\ \E d \in HeaderFaults(ad) \cup AttestedFaults(ad) \cup CoseFaults(ad) :
              Receive([received EXCEPT !.attestation_object.value.auth_data = d])
    BY <1>1, <2>1 DEF ChangeAuthData, Authenticating
  <2>3. PICK d \in HeaderFaults(ad) \cup AttestedFaults(ad) \cup CoseFaults(ad) :
           Receive([received EXCEPT !.attestation_object.value.auth_data = d])
    BY <2>2
  <2>4. ObjectOK(ReceivedObject)
    BY <1>1 DEF IInv, ResponseOK, Registering, ReceivedObject
  <2>5. CountOK(d)
    BY <2>1, <2>2, <2>4, DamagedCounts DEF ObjectOK, ReceivedObject
  <2>6. PICK obj, r : /\ obj = [ReceivedObject EXCEPT !.auth_data = d]
                      /\ r = [received EXCEPT !.attestation_object.value = obj]
    OBVIOUS
  <2>7. ObjectOK(obj)
    BY <2>4, <2>5, <2>6 DEF ObjectOK
  <2>8. r = [received EXCEPT !.attestation_object.value.auth_data = d]
    BY <2>6 DEF ReceivedObject
  <2> QED  BY <1>1, <2>3, <2>6, <2>7, <2>8, ObjectReplaced, ReceiveKeeps
<1>2. CASE Authenticating
  <2>1. PICK d : Receive([received EXCEPT !.authenticator_data.value = d])
    BY <1>2 DEF ChangeAuthData, Authenticating
  <2>2. PICK r : r = [received EXCEPT !.authenticator_data.value = d]
    OBVIOUS
  <2>3. ResponseOK(received) /\ "attestation_object" \notin DOMAIN received
    BY <1>2 DEF IInv, Authenticating, Registering
  <2>4. /\ DOMAIN r = DOMAIN received /\ r.client_data_json = received.client_data_json
        /\ r.signature = received.signature
    BY <2>2, <2>3 DEF ResponseOK
  <2>5. ResponseOK(r)
    BY <2>3, <2>4 DEF ResponseOK
  <2> QED  BY <2>1, <2>2, <2>5, ReceiveKeeps
<1> QED  BY <1>1, <1>2 DEF Authenticating

\* Another header of the attestation object, or one with a part left out.
LEMMA ObjectKeeps == ASSUME IInv, ChangeObject PROVE IInv'
<1>1. PICK obj \in ObjectFaults(ReceivedObject) :
         Registering /\ Receive([received EXCEPT !.attestation_object.value = obj])
  BY DEF ChangeObject, ReceivedObject
<1>2. ObjectOK(ReceivedObject)
  BY <1>1 DEF IInv, ResponseOK, Registering, ReceivedObject
<1>3. ObjectOK(obj)
  BY <1>2 DEF ObjectFaults, ObjectOK
<1>4. PICK r : r = [received EXCEPT !.attestation_object.value = obj]
  OBVIOUS
<1> QED  BY <1>1, <1>3, <1>4, ObjectReplaced, ReceiveKeeps

\* No fault makes a signature over another message of the crate.
LEMMA DamagedSignature ==
    ASSUME NEW honest, NEW sig, sig \notin {None, WrongType}, SignatureOK(sig, honest),
           NEW s \in SignatureFaults(sig), s \notin {None, WrongType}
    PROVE  SignatureOK(s, honest)
<1>1. \/ \E shape : s = [sig EXCEPT !.shape = shape]
      \/ s = [sig EXCEPT !.over = Garbled]
      \/ \E k : s = [sig EXCEPT !.by = k]
  BY DEF SignatureFaults
<1> QED  BY <1>1 DEF SignatureOK

\* Damaged statements carry the honest signature, a damaged one or none.
LEMMA StatementKeeps == ASSUME IInv, ChangeStatement PROVE IInv'
<1>1. PICK old : old = received.attestation_object.value.att_stmt
  OBVIOUS
<1>2. PICK stmt \in StatementFaults(old) :
         Registering /\ Receive([received EXCEPT !.attestation_object.value.att_stmt = stmt])
  BY <1>1 DEF ChangeStatement
<1>3. ObjectOK(ReceivedObject)
  BY <1>2 DEF IInv, ResponseOK, Registering, ReceivedObject
<1>4. old \notin {None, WrongType} /\ StatementOK(old)
  BY <1>1, <1>2, <1>3 DEF StatementFaults, ObjectOK, ReceivedObject
<1>5. \/ \E a : stmt = [old EXCEPT !.alg = a]
      \/ \E sig \in SignatureFaults(old.sig) : stmt = [old EXCEPT !.sig = sig]
      \/ \E x5c : stmt = [old EXCEPT !.x5c = x5c]
  BY <1>2, <1>4 DEF StatementFaults
<1>6. StatementOK(stmt)
  <2>1. CASE \E sig \in SignatureFaults(old.sig) : stmt = [old EXCEPT !.sig = sig]
    <3>1. PICK sig \in SignatureFaults(old.sig) : stmt = [old EXCEPT !.sig = sig]
      BY <2>1
    <3>2. DOMAIN stmt = {"alg", "sig", "x5c"} /\ stmt.sig = sig
      BY <1>4, <3>1 DEF StatementOK
    <3>3. old.sig \notin {None, WrongType}
      BY <3>1 DEF SignatureFaults
    <3>4. sig \notin {None, WrongType} => SignatureOK(sig, SentObject.att_stmt.sig)
      BY <1>4, <3>3, DamagedSignature DEF StatementOK
    <3> QED  BY <1>4, <3>2, <3>3, <3>4 DEF StatementOK
  <2>2. CASE (\E a : stmt = [old EXCEPT !.alg = a]) \/ (\E x5c : stmt = [old EXCEPT !.x5c = x5c])
    BY <1>4, <2>2 DEF StatementOK
  <2> QED  BY <1>5, <2>1, <2>2
<1>7. PICK obj, r : /\ obj = [ReceivedObject EXCEPT !.att_stmt = stmt]
                    /\ r = [received EXCEPT !.attestation_object.value = obj]
  OBVIOUS
<1>8. ObjectOK(obj)
  BY <1>3, <1>6, <1>7 DEF ObjectOK
<1>9. r = [received EXCEPT !.attestation_object.value.att_stmt = stmt]
  BY <1>7 DEF ReceivedObject
<1> QED  BY <1>2, <1>7, <1>8, <1>9, ObjectReplaced, ReceiveKeeps

\* The other parts of an assertion, and its signature.
LEMMA AssertionKeeps == ASSUME IInv, ChangeAssertion PROVE IInv'
<1>1. ResponseOK(received) /\ Authenticating /\ "attestation_object" \notin DOMAIN received
  BY DEF IInv, ChangeAssertion, Authenticating, Registering
<1>2. CASE \E v : Receive([received EXCEPT !.id.value = v])
  <2>1. PICK v, r : r = [received EXCEPT !.id.value = v] /\ Receive(r)
    BY <1>2
  <2>2. /\ DOMAIN r = DOMAIN received /\ r.client_data_json = received.client_data_json
        /\ r.signature = received.signature
    BY <1>1, <2>1 DEF ResponseOK
  <2>3. ResponseOK(r)
    BY <1>1, <2>2 DEF ResponseOK
  <2> QED  BY <2>1, <2>3, ReceiveKeeps
<1>3. CASE \E v : Receive([received EXCEPT !.user_handle = v])
  <2>1. PICK v, r : r = [received EXCEPT !.user_handle = v] /\ Receive(r)
    BY <1>3
  <2>2. /\ DOMAIN r = DOMAIN received /\ r.client_data_json = received.client_data_json
        /\ r.signature = received.signature
    BY <1>1, <2>1 DEF ResponseOK
  <2>3. ResponseOK(r)
    BY <1>1, <2>2 DEF ResponseOK
  <2> QED  BY <2>1, <2>3, ReceiveKeeps
<1>4. CASE \E s \in SignatureFaults(received.signature.value) \ {None, WrongType} :
              Receive([received EXCEPT !.signature.value = s])
  <2>1. PICK s \in SignatureFaults(received.signature.value) \ {None, WrongType} :
           \E r : r = [received EXCEPT !.signature.value = s] /\ Receive(r)
    BY <1>4
  <2> PICK r : r = [received EXCEPT !.signature.value = s] /\ Receive(r)
    BY <2>1
  <2>2. SignatureOK(s, sent.signature.value)
    <3>1. received.signature.value \notin {None, WrongType}
      BY <2>1 DEF SignatureFaults
    <3> QED  BY <1>1, <2>1, <3>1, DamagedSignature DEF ResponseOK
  <2>3. /\ DOMAIN r = DOMAIN received /\ r.client_data_json = received.client_data_json
        /\ r.signature = [received.signature EXCEPT !.value = s]
    BY <1>1, <2>1 DEF ResponseOK
  <2>4. DOMAIN r.signature = {"form", "value"} /\ r.signature.value = s
    BY <1>1, <2>3 DEF ResponseOK
  <2>5. ResponseOK(r)
    BY <1>1, <2>2, <2>3, <2>4 DEF ResponseOK
  <2> QED  BY <2>1, <2>5, ReceiveKeeps
<1> QED  BY <1>2, <1>3, <1>4 DEF ChangeAssertion

\* IInv is inductive.
LEMMA NextIInv == IInv /\ [Next]_vars => IInv'
<1> SUFFICES ASSUME IInv, [Next]_vars PROVE IInv'
  OBVIOUS
<1>1. ASSUME UNCHANGED vars PROVE IInv'
  BY <1>1 DEF vars, IInv, ResponseOK, ObjectOK, StatementOK, SignatureOK, SentObject
<1> QED  BY <1>1, ReencodeKeeps, ClientDataKeeps, AuthDataKeeps, ObjectKeeps, StatementKeeps,
            AssertionKeeps DEF Next

\* Whatever arrives has the parts of what was sent, and signatures only over what
\* the authenticator signed or over nothing of the crate's.
THEOREM WireFaultsIInv == Spec => []IInv
BY InitIInv, NextIInv, PTL DEF Spec

-----------------------------------------------------------------------------
(* What each format seals.                                                    *)

\* What is received answers the ceremony that sent does.
LEMMA SameKind ==
    ASSUME IInv
    PROVE  /\ Registering => /\ SentObject \in HonestAttestation
                             /\ sent.client_data_json.value = Created
                             /\ ObjectOK(ReceivedObject)
           /\ Authenticating =>
                 /\ sent.client_data_json.value = Asserted
                 /\ sent.id.value = P
                 /\ sent.signature.value
                       = sign_assertion(cose_pubkey(P), sent.authenticator_data.value, Asserted)
                 /\ SignatureOK(received.signature.value, sent.signature.value)
<1>1. sent \in HonestResponse /\ DOMAIN received = DOMAIN sent /\ ResponseOK(received)
  BY DEF IInv, ResponseOK
<1>2. CASE Registering
  <2>1. PICK obj \in HonestAttestation :
           /\ sent.client_data_json = Text(B64Url, Created)
           /\ sent.attestation_object = Text(B64Url, obj)
    BY <1>1, <1>2, HonestIs DEF Registering
  <2> QED  BY <1>1, <1>2, <2>1 DEF Text, SentObject, ReceivedObject, ResponseOK, Registering, Authenticating
<1>3. CASE Authenticating
  <2>1. /\ sent.client_data_json = Text(B64Url, Asserted)
        /\ sent.id = Text(B64Url, P)
        /\ sent.signature = Text(B64Url,
                                 sign_assertion(cose_pubkey(P), sent.authenticator_data.value, Asserted))
    BY <1>1, <1>3, HonestIs DEF Registering, Authenticating
  <2> QED  BY <1>1, <1>3, <2>1 DEF Text, ResponseOK, Registering, Authenticating
<1> QED  BY <1>2, <1>3 DEF Authenticating

\* A signature that arrives and covers a message of the crate is over what was
\* signed, with the statement of some format that signs.
LEMMA SignedIsSent ==
    ASSUME IInv, Registering, ReceivedObject.att_stmt \notin {None, WrongType},
           ReceivedObject.att_stmt.sig \notin {None, WrongType},
           ReceivedObject.att_stmt.sig.over # Garbled
    PROVE  /\ ReceivedObject.att_stmt.sig.over = SentObject.att_stmt.sig.over
           /\ \/ SentObject.att_stmt.sig.over = PackedMessage(SentObject.auth_data, Created)
              \/ /\ SentObject.auth_data = NewAuthData(cose_pubkey_es256(P), "zeros")
                 /\ SentObject.att_stmt.sig.over =
                       [rp_id_hash |-> RpId, cdj |-> Created, credential_id |-> P,
                        x |-> KeyOf(cose_pubkey_es256(P)).x, y |-> KeyOf(cose_pubkey_es256(P)).y]
<1>1. SentObject \in HonestAttestation /\ ObjectOK(ReceivedObject)
  BY SameKind
<1>2. /\ SentObject.fmt # "none"
      /\ SignatureOK(ReceivedObject.att_stmt.sig, SentObject.att_stmt.sig)
  BY <1>1 DEF ObjectOK, StatementOK
<1> QED  BY <1>1, <1>2, HonestObject DEF SignatureOK

\* A verified statement is there, with a signature.
LEMMA StatementThere ==
    ASSUME NEW obj, ParseStatement(Statement(obj)) = Ok
    PROVE  /\ Statement(obj) = obj.att_stmt /\ obj.att_stmt \notin {None, WrongType}
           /\ obj.att_stmt.sig \notin {None, WrongType}
<1>1. /\ Statement(obj) # WrongType
      /\ Statement(obj).sig \notin {None, WrongType}
  BY DEF ParseStatement, FailIf, ??, Ok
<1>2. obj.att_stmt # None
  BY <1>1 DEF Statement, NoStatement
<1> QED  BY <1>1, <1>2 DEF Statement

\* What verifies was signed over the message, and no other.
LEMMA VerifiedIsOver ==
    ASSUME NEW key, NEW msg, NEW sig, verify(key, msg, sig) = Ok
    PROVE  sig.over = msg
BY DEF verify, Signature, FailIf, ??, Ok

\* verify_packed signs the authenticator data and the client data.
LEMMA PackedIsSigned ==
    ASSUME NEW obj, NEW key, NEW cdj, obj.fmt = "packed", verify_statement(obj, key, cdj) = Ok
    PROVE  /\ obj.att_stmt \notin {None, WrongType}
           /\ obj.att_stmt.sig \notin {None, WrongType}
           /\ obj.att_stmt.sig.over = PackedMessage(obj.auth_data, cdj)
<1>1. verify_packed(obj, key, cdj) = Ok
  BY DEF verify_statement
<1>2. ParseStatement(Statement(obj)) = Ok
  BY <1>1 DEF verify_packed, ??, Ok
<1>3. CASE Statement(obj).x5c = None
  <2>1. verify(key, PackedMessage(obj.auth_data, cdj), Statement(obj).sig) = Ok
    BY <1>1, <1>3 DEF verify_packed, ??, Ok
  <2> QED  BY <1>2, <2>1, StatementThere, VerifiedIsOver
<1>4. CASE Statement(obj).x5c # None
  <2>1. verify_es256_sec1(Statement(obj).x5c[1], PackedMessage(obj.auth_data, cdj),
                          Statement(obj).sig) = Ok
    BY <1>1, <1>4 DEF verify_packed, ??, Ok
  <2> QED  BY <1>2, <2>1, StatementThere, VerifiedIsOver DEF verify_es256_sec1
<1> QED  BY <1>3, <1>4

\* verify_fido_u2f signs RP, client data, credential id and coordinates.
LEMMA U2fIsSigned ==
    ASSUME NEW obj, NEW key, NEW cdj, obj.fmt = "fido-u2f", verify_statement(obj, key, cdj) = Ok
    PROVE  /\ key.alg = ALG_ES256
           /\ obj.att_stmt \notin {None, WrongType}
           /\ obj.att_stmt.sig \notin {None, WrongType}
           /\ obj.att_stmt.sig.over =
                 [rp_id_hash |-> obj.auth_data.rp_id_hash, cdj |-> cdj,
                  credential_id |-> Attested(obj.auth_data).credential_id,
                  x |-> key.x, y |-> key.y]
<1> DEFINE msg == [rp_id_hash |-> obj.auth_data.rp_id_hash, cdj |-> cdj,
                   credential_id |-> Attested(obj.auth_data).credential_id,
                   x |-> key.x, y |-> key.y]
<1>1. verify_fido_u2f(obj, key, cdj) = Ok
  BY DEF verify_statement
<1>2. /\ FailIf(key.alg # ALG_ES256, "Cbor") = Ok
      /\ ParseStatement(Statement(obj)) = Ok
      /\ verify_es256_sec1(Statement(obj).x5c[1], msg, Statement(obj).sig) = Ok
  BY <1>1 DEF verify_fido_u2f, ??, Ok
<1> HIDE DEF msg
<1>3. /\ obj.att_stmt \notin {None, WrongType}
      /\ obj.att_stmt.sig \notin {None, WrongType}
      /\ obj.att_stmt.sig.over = msg
  BY <1>2, StatementThere, VerifiedIsOver DEF verify_es256_sec1
<1>4. key.alg = ALG_ES256
  BY <1>2 DEF FailIf, Ok
<1> QED  BY <1>3, <1>4 DEF msg

\* Whoever accepts a packed attestation has what the authenticator signed.
LEMMA PackedSealed == IInv => PackedSealsEverything
<1> SUFFICES ASSUME IInv, Registering, ReceivedObject.fmt = "packed", Accepted
             PROVE  /\ ReceivedObject.auth_data = SentObject.auth_data
                    /\ received.client_data_json.value = sent.client_data_json.value
  BY DEF PackedSealsEverything
<1> DEFINE ad == ReceivedObject.auth_data
<1>1. verify_statement(ReceivedObject, KeyOf(ad.cose), received.client_data_json.value) = Ok
  BY AcceptedRegistration
<1>2. PICK over : over = PackedMessage(ad, received.client_data_json.value)
  OBVIOUS
<1>3. /\ ReceivedObject.att_stmt \notin {None, WrongType}
      /\ ReceivedObject.att_stmt.sig \notin {None, WrongType}
      /\ ReceivedObject.att_stmt.sig.over = over
  BY <1>1, <1>2, PackedIsSigned
<1>4. over # Garbled /\ DOMAIN over = {"auth_data", "cdj"}
  BY <1>2 DEF PackedMessage, Garbled
<1>5. over = PackedMessage(SentObject.auth_data, Created)
  BY <1>3, <1>4, SignedIsSent
<1> QED  BY <1>2, <1>5, SameKind DEF PackedMessage

\* Below half of the range an integer is its own low word.
LEMMA SmallIntegers == ASSUME NEW i \in -256..255 PROVE as_i64(i) = i
<1>1. PICK h : h = IntRange \div 2
  OBVIOUS
<1>2. h \in Nat /\ h > 256 /\ IntRange = 2 * h
  BY <1>1, IntRangeAssumption
<1>3. i + h \in Nat /\ i + h < 2 * h
  BY <1>2
<1>4. (i + h) % (2 * h) = i + h
  BY <1>2, <1>3
<1> QED  BY <1>1, <1>2, <1>4 DEF as_i64

\* A value is read as what it was written for.
LEMMA IntegerIsRead == ASSUME NEW i \in -256..255 PROVE i64_of(Integer(i)) = i
<1>1. Integer(i) \in [int : Int] /\ Integer(i).int = i /\ "int" \in DOMAIN Integer(i)
  BY DEF Integer
<1>2. Integer(i) \notin {None, WrongType}
  BY <1>1, FaultsAssumption
<1> QED  BY <1>1, <1>2, SmallIntegers DEF i64_of

LEMMA BytesAreRead ==
    ASSUME NEW b \in {P, <<P, "y">>}
    PROVE  /\ bytes_of(Bytes(b)) = Bytes(b) /\ Bytes(b) # None
           /\ Bytes(b).bytes = b
<1>1. /\ Bytes(b) \in [bytes : {P, <<P, "y">>}, len : {32}] /\ Bytes(b).bytes = b
      /\ "bytes" \in DOMAIN Bytes(b)
  BY DEF Bytes
<1>2. Bytes(b) \notin {None, WrongType}
  BY <1>1, FaultsAssumption
<1> QED  BY <1>1, <1>2 DEF bytes_of

\* In a map with each of the labels once, an entry is found under its label.
LEMMA EntryIs ==
    ASSUME NEW blob, NEW n \in {4, 5}, DOMAIN blob.entries = 1..n, NEW j \in 2..n,
           \A i \in 1..n : blob.entries[i].key = <<KTY, ALG, CRV, X, Y>>[i]
    PROVE  Entry(blob, <<KTY, ALG, CRV, X, Y>>[j]) = blob.entries[j].val
<1> DEFINE label == <<KTY, ALG, CRV, X, Y>>
           I == {i \in DOMAIN blob.entries :
                    blob.entries[i].key # WrongType /\ as_i64(blob.entries[i].key) = label[j]}
<1>0. /\ label[1] = 1 /\ label[2] = 3 /\ label[3] = -1 /\ label[4] = -2 /\ label[5] = -3
      /\ \A i \in 1..5 : i = 1 \/ i = 2 \/ i = 3 \/ i = 4 \/ i = 5
  BY DEF KTY, ALG, CRV, X, Y
<1> HIDE DEF label
<1>1. \A k \in {1, 3, -1, -2, -3} : as_i64(k) = k /\ k # WrongType
  <2>1. as_i64(1) = 1 /\ as_i64(3) = 3 /\ as_i64(-1) = -1 /\ as_i64(-2) = -2 /\ as_i64(-3) = -3
    BY SmallIntegers
  <2>2. WrongType \notin Int
    BY FaultsAssumption
  <2> QED  BY <2>1, <2>2
<1>2. \A i \in 1..n : as_i64(label[i]) = label[i] /\ label[i] # WrongType
  BY <1>0, <1>1
<1>3. \A i, k \in 1..5 : label[i] = label[k] => i = k
  BY <1>0
<1>4. I = {j}
  BY <1>2, <1>3 DEF label
<1>5. Max(I) = j
  BY <1>4 DEF Max
<1> QED  BY <1>4, <1>5 DEF Entry, label

\* The ES256 blob of the tests is read as the point that it was made from.
LEMMA Es256IsRead ==
    /\ KeyOf(cose_pubkey_es256(P)).alg = ALG_ES256
    /\ IsPoint(KeyOf(cose_pubkey_es256(P)))
<1> DEFINE blob == cose_pubkey_es256(P)
<1>1. /\ DOMAIN blob.entries = 1..5
      /\ \A i \in 1..5 : blob.entries[i].key = <<KTY, ALG, CRV, X, Y>>[i]
      /\ blob.entries[2].val = Integer(ALG_ES256)
      /\ blob.entries[4].val = Bytes(P)
      /\ blob.entries[5].val = Bytes(<<P, "y">>)
  BY DEF cose_pubkey_es256
<1> HIDE DEF blob
<1>2. /\ Entry(blob, ALG) = Integer(ALG_ES256)
      /\ Entry(blob, X) = Bytes(P)
      /\ Entry(blob, Y) = Bytes(<<P, "y">>)
  <2>1. \A j \in 2..5 : Entry(blob, <<KTY, ALG, CRV, X, Y>>[j]) = blob.entries[j].val
    BY <1>1, EntryIs
  <2> QED  BY <1>1, <2>1
<1>3. i64_of(Entry(blob, ALG)) = ALG_ES256
  BY <1>2, IntegerIsRead DEF ALG_ES256
<1>4. Coordinate(blob, X) = P /\ Coordinate(blob, Y) = <<P, "y">>
  BY <1>2, BytesAreRead DEF Coordinate
<1> QED  BY <1>3, <1>4, FaultsAssumption DEF KeyOf, IsPoint, blob

\* So is the EdDSA blob.
LEMMA EdDSAIsRead == IsPoint(KeyOf(cose_pubkey(P)))
<1> DEFINE blob == cose_pubkey(P)
<1>1. /\ DOMAIN blob.entries = 1..4
      /\ \A i \in 1..4 : blob.entries[i].key = <<KTY, ALG, CRV, X, Y>>[i]
      /\ blob.entries[2].val = Integer(ALG_EDDSA)
      /\ blob.entries[4].val = Bytes(P)
  BY DEF cose_pubkey
<1> HIDE DEF blob
<1>2. Entry(blob, ALG) = Integer(ALG_EDDSA) /\ Entry(blob, X) = Bytes(P)
  <2>1. \A j \in 2..4 : Entry(blob, <<KTY, ALG, CRV, X, Y>>[j]) = blob.entries[j].val
    BY <1>1, EntryIs
  <2> QED  BY <1>1, <2>1
<1>3. i64_of(Entry(blob, ALG)) # ALG_ES256
  BY <1>2, IntegerIsRead DEF ALG_EDDSA, ALG_ES256
<1>4. Coordinate(blob, X) = P
  BY <1>2, BytesAreRead DEF Coordinate
<1> QED  BY <1>3, <1>4, FaultsAssumption DEF KeyOf, IsPoint, ALG_ES256, ALG_EDDSA, blob

\* A key is its algorithm and coordinates.
LEMMA Es256Key ==
    ASSUME NEW blob, KeyOf(blob).alg = ALG_ES256
    PROVE  KeyOf(blob) = [alg |-> ALG_ES256, x |-> KeyOf(blob).x, y |-> KeyOf(blob).y]
<1>1. i64_of(Entry(blob, ALG)) = ALG_ES256
  BY DEF KeyOf, ALG_ES256, ALG_EDDSA
<1> QED  BY <1>1 DEF KeyOf

\* Whoever accepts a fido-u2f attestation has the credential that was made, with
\* the ES256 key.
LEMMA U2fKey ==
    ASSUME IInv, Registering, ReceivedObject.fmt = "fido-u2f", Accepted
    PROVE  /\ ReceivedObject.auth_data.rp_id_hash = SentObject.auth_data.rp_id_hash
           /\ received.client_data_json.value = sent.client_data_json.value
           /\ NewCredential(received).id = NewCredential(sent).id
           /\ KeyOf(NewCredential(received).public_key_cose) = KeyOf(cose_pubkey_es256(P))
           /\ NewCredential(sent).public_key_cose = cose_pubkey_es256(P)
<1> DEFINE ad == ReceivedObject.auth_data
           cdj == received.client_data_json.value
<1>1. /\ verify_statement(ReceivedObject, KeyOf(ad.cose), cdj) = Ok
      /\ "AT" \in ad.flags
      /\ NewCredential(received).id = ad.credential_id
      /\ NewCredential(received).public_key_cose = ad.cose
  BY AcceptedRegistration
<1>2. PICK over : over = [rp_id_hash |-> ad.rp_id_hash, cdj |-> cdj,
                          credential_id |-> Attested(ad).credential_id,
                          x |-> KeyOf(ad.cose).x, y |-> KeyOf(ad.cose).y]
  OBVIOUS
<1>3. /\ KeyOf(ad.cose).alg = ALG_ES256
      /\ ReceivedObject.att_stmt \notin {None, WrongType}
      /\ ReceivedObject.att_stmt.sig \notin {None, WrongType}
      /\ ReceivedObject.att_stmt.sig.over = over
  BY <1>1, <1>2, U2fIsSigned
<1>4. over # Garbled /\ DOMAIN over = {"rp_id_hash", "cdj", "credential_id", "x", "y"}
  BY <1>2 DEF Garbled
<1>5. over # PackedMessage(SentObject.auth_data, Created)
  BY <1>4 DEF PackedMessage
<1>6. /\ SentObject.auth_data = NewAuthData(cose_pubkey_es256(P), "zeros")
      /\ over = [rp_id_hash |-> RpId, cdj |-> Created, credential_id |-> P,
                 x |-> KeyOf(cose_pubkey_es256(P)).x, y |-> KeyOf(cose_pubkey_es256(P)).y]
  BY <1>3, <1>4, <1>5, SignedIsSent
<1>7. /\ ad.rp_id_hash = RpId /\ cdj = Created /\ Attested(ad).credential_id = P
      /\ KeyOf(ad.cose).x = KeyOf(cose_pubkey_es256(P)).x
      /\ KeyOf(ad.cose).y = KeyOf(cose_pubkey_es256(P)).y
  BY <1>2, <1>6
<1>8. Attested(ad).credential_id = ad.credential_id
  BY <1>1 DEF Attested
<1>9. /\ SentObject.auth_data.rp_id_hash = RpId
      /\ "AT" \in SentObject.auth_data.flags
      /\ SentObject.auth_data.credential_id = P
      /\ SentObject.auth_data.cose = cose_pubkey_es256(P)
  BY <1>6 DEF NewAuthData, auth_data_register
<1>10. NewCredential(sent).id = P /\ NewCredential(sent).public_key_cose = cose_pubkey_es256(P)
  BY <1>9 DEF NewCredential, Attested, SentObject
<1>11. KeyOf(ad.cose) = KeyOf(cose_pubkey_es256(P))
  BY <1>3, <1>7, Es256IsRead, Es256Key
<1> QED  BY <1>1, <1>7, <1>8, <1>9, <1>10, <1>11, SameKind

LEMMA U2fSealed == IInv => U2fSealsTheCredential
BY U2fKey DEF U2fSealsTheCredential

\* Whoever accepts an assertion has what the authenticator signed.
LEMMA AssertionSealed == IInv => AssertionIsSealed
<1> SUFFICES ASSUME IInv, Authenticating, Accepted
             PROVE  /\ received.authenticator_data.value = sent.authenticator_data.value
                    /\ received.client_data_json.value = sent.client_data_json.value
                    /\ received.id.value = sent.id.value
  BY DEF AssertionIsSealed
<1> PICK st : st = StoredCredential(cose_pubkey(P))
  OBVIOUS
<1>1. PICK w \in Config : finish_authentication(w, AuthenticationState, received, st, 0) = Ok
  BY AcceptedIs
<1>2. VerifyAssertion(w, AuthenticationState, received, st, 0) = Ok
  BY <1>1, FinishAuthenticationOk
<1>3. PICK over : over = PackedMessage(received.authenticator_data.value,
                                       received.client_data_json.value)
  OBVIOUS
<1>4. received.id.value = P /\ received.signature.value.over = over
  <2>1. /\ received.id.value = st.id
        /\ verify(KeyOf(st.public_key_cose), over, received.signature.value) = Ok
    BY <1>2, <1>3, AssertionSteps
  <2> QED  BY <1>1, <2>1, VerifiedIsOver DEF StoredCredential
<1>5. over # Garbled
  BY <1>3 DEF PackedMessage, Garbled
<1>6. sent.signature.value.over = PackedMessage(sent.authenticator_data.value, Asserted)
  BY SameKind DEF sign_assertion, Signature, PackedMessage
<1>7. over = PackedMessage(sent.authenticator_data.value, Asserted)
  BY <1>4, <1>5, <1>6, SameKind DEF SignatureOK
<1> QED  BY <1>3, <1>4, <1>7, SameKind DEF PackedMessage

-----------------------------------------------------------------------------
(* A credential that registers signs in.                                      *)

\* An honest assertion of a credential whose key parses and is a point, with the
\* next count, is accepted.
LEMMA HonestAssertionOk ==
    ASSUME NEW c, ParseCoseKey(c.public_key_cose) = Ok, IsPoint(KeyOf(c.public_key_cose)),
           c.counter \in Nat, NEW w \in Config
    PROVE  finish_authentication(
               w, start_authentication_for_user(Challenge, Alice, {c.id}, 0),
               AuthenticationResponse(B64Url, c.id, c.public_key_cose,
                                      auth_data_authenticate(RpId, {"UP", "UV"}, c.counter + 1),
                                      Alice, Asserted),
               c, 0) = Ok
<1> DEFINE theirs == auth_data_authenticate(RpId, {"UP", "UV"}, c.counter + 1)
<1>1. PICK ad, state, response :
         /\ ad = theirs
         /\ state = start_authentication_for_user(Challenge, Alice, {c.id}, 0)
         /\ response = AuthenticationResponse(B64Url, c.id, c.public_key_cose, theirs, Alice, Asserted)
  OBVIOUS
<1> HIDE DEF theirs
<1>2. /\ state.challenge = Challenge /\ state.created_at = 0
      /\ state.allow_credentials = {c.id} /\ state.user_handle = Alice
  BY <1>1 DEF start_authentication_for_user, start_authentication
<1>3. /\ response.id = Text(B64Url, c.id)
      /\ response.authenticator_data = Text(B64Url, ad)
      /\ response.signature = Text(B64Url, sign_assertion(c.public_key_cose, ad, Asserted))
      /\ response.client_data_json = Text(B64Url, Asserted)
      /\ response.user_handle = IF Alice = None THEN None ELSE Text(B64Url, Alice)
  BY <1>1 DEF AuthenticationResponse
<1>4. \A value : \A strict \in BOOLEAN : decode_b64(strict, Text(B64Url, value)) = Ok
  BY DEF decode_b64, b64url_decode, b64url_decode_strict, B64URL, UrlAlphabet, Text, B64Url, FailIf, Ok
<1>5. w.strict_base64 \in BOOLEAN /\ w.rp_id = RpId /\ w.origin = RpOrigin
  BY DEF Config
<1>6. /\ ad.len = HEADER /\ ad.rp_id_hash = RpId /\ ad.flags = {"UP", "UV"}
      /\ ad.sign_count = c.counter + 1
  BY <1>1 DEF theirs, auth_data_authenticate
<1>7. check_not_expired(state.created_at, 0) = Ok
  BY <1>2 DEF check_not_expired, FailIf, Ok
<1>8. CheckUserHandle(w, state, response) = Ok
  <2>1. CASE Alice = None
    BY <1>2, <2>1 DEF CheckUserHandle
  <2>2. CASE Alice # None
    <3>1. response.user_handle = Text(B64Url, Alice)
      BY <1>3, <2>2
    <3>2. response.user_handle # None
      <4>1. Text(B64Url, Alice) \in [form : Form, value : {Alice}]
        BY DEF Text, B64Url, Form
      <4> QED  BY <3>1, <4>1, FaultsAssumption
    <3>3. decode_b64(w.strict_base64, response.user_handle) = Ok
      BY <1>4, <1>5, <3>1
    <3>4. response.user_handle.value = state.user_handle
      BY <1>2, <3>1 DEF Text
    <3> QED  BY <1>2, <2>2, <3>2, <3>3, <3>4 DEF CheckUserHandle, FailIf, ??, Ok
  <2> QED  BY <2>1, <2>2
<1>9. validate(response.client_data_json, TYPE_AUTHENTICATE, state.challenge, w.origin,
               w.strict_base64) = Ok
  BY <1>2, <1>3, <1>4, <1>5 DEF validate, Asserted, client_data, FailIf, Text, ??, Ok
<1>10. ParseAuthenticatorData(ad) = Ok /\ CheckAuthenticator(w, ad) = Ok
  BY <1>5, <1>6 DEF ParseAuthenticatorData, CheckAuthenticator, user_present, user_verified, HEADER,
                    FailIf, ??, Ok
<1>11. verify(KeyOf(c.public_key_cose), PackedMessage(ad, Asserted), response.signature.value) = Ok
  BY <1>3 DEF verify, sign_assertion, PackedMessage, Text, FailIf, ??, Ok
<1>12. CheckCounter(c, ad) = Ok
  BY <1>6 DEF CheckCounter, FailIf, Ok
<1>13. /\ response.id.value = c.id /\ response.authenticator_data.value = ad
       /\ response.client_data_json.value = Asserted
  BY <1>3 DEF Text
<1>14. VerifyAssertion(w, state, response, c, 0) = Ok
  <2>1. /\ decode_b64(w.strict_base64, response.id) = Ok
        /\ decode_b64(w.strict_base64, response.authenticator_data) = Ok
        /\ decode_b64(w.strict_base64, response.signature) = Ok
    BY <1>3, <1>4, <1>5
  <2> QED  BY <1>2, <1>7, <1>8, <1>9, <1>10, <1>11, <1>13, <2>1, AssertionSteps
<1> QED  BY <1>1, <1>12, <1>13, <1>14, FinishAuthenticationOk DEF theirs

\* The key in an honest registration is a point.
LEMMA HonestKeyIsPoint ==
    ASSUME NEW obj \in HonestAttestation PROVE IsPoint(KeyOf(obj.auth_data.cose))
<1>1. \A cose, aaguid : NewAuthData(cose, aaguid).cose = cose
  BY DEF NewAuthData, auth_data_register
<1>2. obj.auth_data.cose \in {cose_pubkey(P), cose_pubkey_es256(P)}
  BY <1>1 DEF HonestAttestation, none_attestation, packed_self_attestation,
              packed_x5c_attestation, fido_u2f_attestation, attestation_object
<1> QED  BY <1>2, Es256IsRead, EdDSAIsRead

\* An attestation that is accepted shows that the key is a point: packed and
\* fido-u2f seal the authenticator's key.
LEMMA AttestedKeyIsPoint ==
    ASSUME IInv, Registering, Accepted, ReceivedObject.fmt # "none"
    PROVE  IsPoint(KeyOf(NewCredential(received).public_key_cose))
<1> DEFINE ad == ReceivedObject.auth_data
<1>1. /\ verify_statement(ReceivedObject, KeyOf(ad.cose), received.client_data_json.value) = Ok
      /\ NewCredential(received).public_key_cose = ad.cose
  BY AcceptedRegistration
<1>2. IsPoint(KeyOf(SentObject.auth_data.cose))
  BY SameKind, HonestKeyIsPoint
<1>3. CASE ReceivedObject.fmt = "packed"
  <2>1. ad = SentObject.auth_data
    BY <1>3, PackedSealed DEF PackedSealsEverything
  <2> QED  BY <1>1, <1>2, <2>1
<1>4. CASE ReceivedObject.fmt = "fido-u2f"
  BY <1>1, <1>4, U2fKey, Es256IsRead
<1>5. ReceivedObject.fmt \in {"packed", "fido-u2f"}
  BY <1>1 DEF verify_statement, Ok
<1> QED  BY <1>3, <1>4, <1>5

\* Whatever was done to the response, a returned credential can be used if its
\* key is a point.
LEMMA RegisteredIsUsable == IInv => WhatRegistersSignsIn
<1> SUFFICES ASSUME IInv, Registering, Accepted,
                    NEW c, c = NewCredential(received)
             PROVE  \/ UsableCredential(c)
                    \/ /\ ReceivedObject.fmt = "none"
                       /\ ParseCoseKey(c.public_key_cose) = Ok
                       /\ ~IsPoint(KeyOf(c.public_key_cose))
  BY DEF WhatRegistersSignsIn
<1> DEFINE ad == ReceivedObject.auth_data
<1>1. /\ ad \notin {None, WrongType}
      /\ CheckCredentialKey(ad.cose) = Ok
      /\ c.public_key_cose = ad.cose /\ c.counter = ad.sign_count
  BY AcceptedRegistration
<1>2. ParseCoseKey(c.public_key_cose) = Ok
  BY <1>1 DEF CheckCredentialKey, ??, Ok
<1>3. c.counter \in Nat
  BY <1>1, SameKind DEF ObjectOK, CountOK
<1>4. ASSUME IsPoint(KeyOf(c.public_key_cose)) PROVE UsableCredential(c)
  BY <1>2, <1>3, <1>4, HonestAssertionOk DEF UsableCredential
<1> QED  BY <1>2, <1>4, AttestedKeyIsPoint

-----------------------------------------------------------------------------
(* The theorems.                                                              *)

\* A response keeps its parts, and finish_* always returns Ok or an Error.
THEOREM WireFaultsTypeOK == Spec => []TypeOK
<1>1. IInv => TypeOK
  <2> SUFFICES ASSUME IInv, NEW wa \in Config
               PROVE  Verdict(wa, received) \in {Ok} \cup Error
    BY DEF IInv, ResponseOK, TypeOK
  <2> QED  BY FinishIn DEF Verdict, Outcomes
<1> QED  BY <1>1, WireFaultsIInv, PTL

\* A registration that is accepted as packed has the authenticator data and the
\* client data as the authenticator made them, however many parts were changed.
THEOREM PackedSeals == Spec => []PackedSealsEverything
BY PackedSealed, WireFaultsIInv, PTL

\* One that is accepted as fido-u2f has the credential that the authenticator made.
THEOREM U2fSeals == Spec => []U2fSealsTheCredential
BY U2fSealed, WireFaultsIInv, PTL

\* An accepted assertion is the authenticator's in all that decides whom it signs
\* in and what is stored.
THEOREM AssertionsAreSealed == Spec => []AssertionIsSealed
BY AssertionSealed, WireFaultsIInv, PTL

\* Only a registration without attestation, whose key is no point of its curve,
\* leaves its user with a credential that cannot sign in, however odd the response.
THEOREM RegisteredCanSignIn == Spec => []WhatRegistersSignsIn
BY RegisteredIsUsable, WireFaultsIInv, PTL
=============================================================================
