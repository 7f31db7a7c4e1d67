----------------------------- MODULE WireFaults ------------------------------
(***************************************************************************)
(* What finish_* makes of a response that is not the one the authenticator  *)
(* gave: a behaviour starts with a complete, honest response of one of the  *)
(* attestation formats, or an assertion, and each step changes one part of  *)
(* what arrives, from the base64 around it to an entry of the COSE key in   *)
(* the middle.  No step can make a signature over the changed parts.        *)
(***************************************************************************)
EXTENDS Authenticator

CONSTANTS Alice, Bob, RpId, OtherRp, RpOrigin, Elsewhere,
          P, Q,          \* the passkey that answered, and another
          Batch, Batch2, \* the authenticators' attestation keys
          MaxFaults      \* bound on the parts that are changed

ASSUME FaultsAssumption ==
    /\ MaxFaults \in Nat
    /\ \A absent \in {None, WrongType} :
          absent \notin Int \cup [int : Int] \cup [bytes : {P, <<P, "y">>}, len : {32}]
                        \cup [form : Form, value : {Alice}]
    /\ None # P

VARIABLES sent, received, faults

vars == <<sent, received, faults>>

Challenge == 1
Registering    == "attestation_object" \in DOMAIN received
Authenticating == ~Registering

\* The configurations a response may meet.
Config == [rp_id : {RpId}, origin : {RpOrigin}, require_uv : BOOLEAN,
           strict_base64 : BOOLEAN, require_user_handle : BOOLEAN]

RegistrationState   == start_registration(Challenge, Alice, 0)
AuthenticationState == start_authentication_for_user(Challenge, Alice, {P, Q}, 0)

StoredCredential(cose) == [id |-> P, public_key_cose |-> cose, counter |-> 4]

Verdict(wa, r) ==
    IF "attestation_object" \in DOMAIN r
    THEN finish_registration(wa, RegistrationState, r, 0)
    ELSE finish_authentication(wa, AuthenticationState, r, StoredCredential(cose_pubkey(P)), 0)

Accepted == \E wa \in Config : Verdict(wa, received) = Ok

-----------------------------------------------------------------------------
(* The honest responses. *)

Created  == client_data(TYPE_REGISTER, Challenge, RpOrigin)
Asserted == client_data(TYPE_AUTHENTICATE, Challenge, RpOrigin)

NewAuthData(cose, aaguid) == auth_data_register(P, cose, RpId, {"UP", "UV"}, 5, aaguid)

HonestAttestation ==
    LET eddsa == NewAuthData(cose_pubkey(P), "model")
        es256 == NewAuthData(cose_pubkey_es256(P), "model")
        u2f   == NewAuthData(cose_pubkey_es256(P), "zeros")
    IN  {none_attestation(eddsa),
         packed_self_attestation(eddsa, Created),
         packed_self_attestation(es256, Created),
         packed_x5c_attestation(AttestationCert(Batch, "model"), es256, Created),
         fido_u2f_attestation(AttestationCert(Batch, None), u2f, Created)}

HonestResponse ==
    {RegistrationResponse(B64Url, att, Created) : att \in HonestAttestation}
    \cup {AuthenticationResponse(B64Url, P, cose_pubkey(P),
                                 auth_data_authenticate(RpId, {"UP", "UV"}, 5), handle,
                                 Asserted) :
             handle \in {None, Alice}}

Init ==
    /\ sent \in HonestResponse
    /\ received = sent
    /\ faults = 0

-----------------------------------------------------------------------------
(* One change of one part. *)

Receive(r) ==
    /\ faults < MaxFaults
    /\ r # received
    /\ received' = r
    /\ faults' = faults + 1
    /\ UNCHANGED sent

\* Another base64 encoder's form, one that every decoder reads, and one that
\* none does.
Encodings ==
    [alphabet : {"url", "std"}, padding : {"absent", "present"}]
    \cup {[alphabet |-> "plain", padding |-> "unneeded"],
          [alphabet |-> "neither", padding |-> "absent"]}

Reencode ==
    \E field \in DOMAIN received, form \in Encodings :
        /\ received[field] # None
        /\ Receive([received EXCEPT ![field].form = form])

ClientDataFaults(cdj) ==
    {[cdj EXCEPT !.json = FALSE],
     [cdj EXCEPT !.type = IF @ = TYPE_REGISTER THEN TYPE_AUTHENTICATE ELSE TYPE_REGISTER],
     [cdj EXCEPT !.challenge.value = Challenge + 1],
     [cdj EXCEPT !.origin = Elsewhere],
     [cdj EXCEPT !.rest = "topOrigin"]}
    \cup {[cdj EXCEPT !.challenge.form = form] : form \in Encodings}

ChangeClientData ==
    \E cdj \in ClientDataFaults(received.client_data_json.value) :
        Receive([received EXCEPT !.client_data_json.value = cdj])

\* The header, the length of the whole, and what follows the part that counts.
HeaderFaults(ad) ==
    {[ad EXCEPT !.rp_id_hash = OtherRp]}
    \cup {[ad EXCEPT !.sign_count = n] : n \in {0, 3, 4, 6}}
    \cup {[ad EXCEPT !.flags = (@ \ {f}) \cup ({f} \ @)] : f \in Flags}
    \cup {[ad EXCEPT !.len = n] :
             n \in {HEADER - 1, ATTESTED - 1, ATTESTED + ad.id_len - 1, ExtensionsAt(ad) - 1}
                   \cap 0..(ad.len - 1)}
    \cup {[ad EXCEPT !.len = ExtensionsAt(ad) + 1, !.extensions = ok] : ok \in BOOLEAN}

AttestedFaults(ad) ==
    {[ad EXCEPT !.aaguid = "other"],
     [ad EXCEPT !.credential_id = Q],
     [ad EXCEPT !.id_len = 1024],
     [ad EXCEPT !.cose.cbor = FALSE],
     [ad EXCEPT !.cose.entries = WrongType]}

\* Bytes(None) are 32 bytes that are no point of a curve.
Values == {Integer(1), Integer(2), Integer(ALG_ES256), Integer(ALG_EDDSA),
           Integer(IntRange + ALG_ES256), Bytes(Q), Bytes(None), [bytes |-> Q, len |-> 31],
           WrongType}

\* An entry is overwritten, lost, or shadowed by a later one with its key.
EntryFaults(ad, i, v) ==
    {[ad EXCEPT !.cose.entries[i].val = v],
     [ad EXCEPT !.cose.entries[i].key = WrongType],
     [ad EXCEPT !.cose.entries = Append(@, [ad.cose.entries[i] EXCEPT !.val = v]),
                !.cose_len = @ + 2, !.len = @ + 2]}

CoseFaults(ad) ==
    IF ad.cose.entries = WrongType THEN {}
    ELSE UNION {EntryFaults(ad, i, v) : i \in DOMAIN ad.cose.entries, v \in Values}

\* The authenticator data of the response is damaged.
ChangeAuthData ==
    \/ /\ Registering
       /\ LET ad == received.attestation_object.value.auth_data IN
          /\ ad \notin {None, WrongType}
          /\ \E d \in HeaderFaults(ad) \cup AttestedFaults(ad) \cup CoseFaults(ad) :
                Receive([received EXCEPT !.attestation_object.value.auth_data = d])
    \/ /\ Authenticating
       /\ \E d \in HeaderFaults(received.authenticator_data.value) :
             Receive([received EXCEPT !.authenticator_data.value = d])

ObjectFaults(obj) ==
    {[obj EXCEPT !.cbor = FALSE], [obj EXCEPT !.map = FALSE],
     [obj EXCEPT !.att_stmt = None], [obj EXCEPT !.att_stmt = WrongType],
     [obj EXCEPT !.auth_data = None], [obj EXCEPT !.auth_data = WrongType]}
    \cup {[obj EXCEPT !.fmt = f] :
             f \in {"none", "packed", "fido-u2f", "tpm", None, WrongType}}

ChangeObject ==
    /\ Registering
    /\ \E obj \in ObjectFaults(received.attestation_object.value) :
          Receive([received EXCEPT !.attestation_object.value = obj])

\* What a signature covers that was made over no message of the crate.
Garbled == [garbled |-> TRUE]

\* A signature that another key made, another signature of the same key, and
\* the same one in another shape.
SignatureFaults(sig) ==
    IF sig \in {None, WrongType} THEN {}
    ELSE {None, WrongType, [sig EXCEPT !.shape = IF @ = "der" THEN "raw64" ELSE "der"],
          [sig EXCEPT !.over = Garbled]}
         \cup {[sig EXCEPT !.by = k] :
                  k \in {KeyOf(cose_pubkey(Q)), KeyOf(cose_pubkey_es256(Batch2))}}

CertificateFaults(cert) ==
    {[cert EXCEPT !.der = FALSE], [cert EXCEPT !.spki = "other"],
     [cert EXCEPT !.key = KeyOf(cose_pubkey_es256(Batch2))]}
    \cup {[cert EXCEPT !.aaguid = g] : g \in {None, WrongType, "other"}}

ChainFaults(x5c) ==
    {None, WrongType, <<>>, <<WrongType>>, <<AttestationCert(Batch, "model")>>}
    \cup (IF x5c \in {None, WrongType, <<>>, <<WrongType>>} THEN {}
          ELSE {<<AttestationCert(Batch2, None)>> \o x5c}
               \cup {[x5c EXCEPT ![1] = cert] : cert \in CertificateFaults(x5c[1])})

StatementFaults(stmt) ==
    IF stmt \in {None, WrongType} THEN {}
    ELSE {[stmt EXCEPT !.alg = a] : a \in {ALG_ES256, ALG_EDDSA, -257, None, WrongType}}
         \cup {[stmt EXCEPT !.sig = sig] : sig \in SignatureFaults(stmt.sig)}
         \cup {[stmt EXCEPT !.x5c = x5c] : x5c \in ChainFaults(stmt.x5c)}

ChangeStatement ==
    /\ Registering
    /\ \E stmt \in StatementFaults(received.attestation_object.value.att_stmt) :
          Receive([received EXCEPT !.attestation_object.value.att_stmt = stmt])

ChangeAssertion ==
    /\ Authenticating
    /\ \/ Receive([received EXCEPT !.id.value = Q])
       \/ Receive([received EXCEPT !.user_handle = None])
       \/ Receive([received EXCEPT !.user_handle = Text(B64Url, Bob)])
       \/ \E sig \in SignatureFaults(received.signature.value) \ {None, WrongType} :
             Receive([received EXCEPT !.signature.value = sig])

Next ==
    \/ Reencode
    \/ ChangeClientData
    \/ ChangeAuthData
    \/ ChangeObject
    \/ ChangeStatement
    \/ ChangeAssertion

Spec == Init /\ [][Next]_vars

-----------------------------------------------------------------------------
(* Properties. *)

\* sent and received are responses of one ceremony with the same parts.
TypeOK ==
    /\ faults \in 0..MaxFaults
    /\ DOMAIN received = DOMAIN sent
    /\ received.client_data_json.form \in Form
    /\ \A wa \in Config : Verdict(wa, received) \in {Ok} \cup Error

SentObject     == sent.attestation_object.value
ReceivedObject == received.attestation_object.value

\* verify_packed signs the raw authData and clientDataJSON, not what was parsed
\* from them: a registration that is accepted as packed has them as the
\* authenticator made them, members and trailing bytes the crate ignores too.
PackedSealsEverything ==
    Registering /\ ReceivedObject.fmt = "packed" /\ Accepted
        => /\ ReceivedObject.auth_data = SentObject.auth_data
           /\ received.client_data_json.value = sent.client_data_json.value

\* AttestationCert and verify_packed: the model that the attestation key's
\* certificate names is the model that the credential is filed under, and an
\* unreadable name is never taken for a missing one.
CertificateNamesTheModel ==
    Registering /\ ReceivedObject.fmt = "packed" /\ Accepted
        => \/ ReceivedObject.att_stmt.x5c = None
           \/ ReceivedObject.att_stmt.x5c[1].aaguid \in {None, NewCredential(received).aaguid}

\* verify_fido_u2f seals less, but all that the credential's identity needs: RP,
\* client data, credential id and public key are the authenticator's.
U2fSealsTheCredential ==
    Registering /\ ReceivedObject.fmt = "fido-u2f" /\ Accepted
        => /\ ReceivedObject.auth_data.rp_id_hash = SentObject.auth_data.rp_id_hash
           /\ received.client_data_json.value = sent.client_data_json.value
           /\ NewCredential(received).id = NewCredential(sent).id
           /\ KeyOf(NewCredential(received).public_key_cose)
                 = KeyOf(NewCredential(sent).public_key_cose)

\* finish_authentication: an accepted assertion is the authenticator's in every
\* part that decides whom it signs in and what is stored.
AssertionIsSealed ==
    Authenticating /\ Accepted
        => /\ received.authenticator_data.value = sent.authenticator_data.value
           /\ received.client_data_json.value = sent.client_data_json.value
           /\ received.id.value = sent.id.value

\* The three builder switches of Webauthn only ever make it stricter: what a
\* stricter configuration accepts, every laxer one accepts.
StricterThan(w1, w2) ==
    /\ w2.require_uv => w1.require_uv
    /\ w2.strict_base64 => w1.strict_base64
    /\ w2.require_user_handle => w1.require_user_handle

TighteningOnlyRejects ==
    LET accepting == {wa \in Config : Verdict(wa, received) = Ok} IN
    \A w1 \in accepting, w2 \in Config : StricterThan(w1, w2) => w2 \in accepting

\* The assertion of the credential's own key with the next count is accepted, by
\* every configuration.
UsableCredential(c) ==
    /\ ParseCoseKey(c.public_key_cose) = Ok
    /\ \A wa \in Config :
          finish_authentication(
              wa, start_authentication_for_user(Challenge, Alice, {c.id}, 0),
              AuthenticationResponse(B64Url, c.id, c.public_key_cose,
                                     auth_data_authenticate(RpId, {"UP", "UV"}, c.counter + 1),
                                     Alice, Asserted),
              c, 0) = Ok

\* A credential that finish_registration returns, whatever was done to the
\* response, can be used, with one exception: without an attestation nothing shows
\* that the key's bytes are a point, and the first to look is verify at a sign-in.
WhatRegistersSignsIn ==
    Registering /\ Accepted
        => LET c == NewCredential(received) IN
           \/ UsableCredential(c)
           \/ /\ ReceivedObject.fmt = "none"
              /\ ParseCoseKey(c.public_key_cose) = Ok
              /\ ~IsPoint(KeyOf(c.public_key_cose))

-----------------------------------------------------------------------------
(* A statement of the repository that the code does not keep. *)

\* src/ceremony.rs:28-30: finish_registration enforces that "the algorithm of the
\* credential the authenticator actually returned is one of the advertised
\* values", here the integer that the blob gives as its algorithm.
RegisteredAlgorithmIsAdvertised ==
    Registering /\ Accepted
        => Entry(NewCredential(received).public_key_cose, ALG).int
              \in ALLOWED_REGISTRATION_ALGS
=============================================================================
