---------------------------- MODULE Authenticator ----------------------------
(***************************************************************************)
(* The client side: the synthetic authenticators of the end-to-end tests    *)
(* (src/tests) and the browser's part of a ceremony.  A                *)
(* passkey is named by a value d that is its credential id and the secret   *)
(* behind its key.  The responses below are complete ones, in the encoding  *)
(* the browser's script uses; form says how its base64 looks.               *)
(***************************************************************************)
EXTENDS Webauthn

\* The challenge goes into the document as the crate sent it: url-safe, 32
\* bytes, no padding.
B64Url == [alphabet |-> "url", padding |-> "absent"]

\* rest stands for the members that the crate ignores, such as crossOrigin.
client_data(kind, challenge, origin) ==
    [json |-> TRUE, type |-> kind, challenge |-> Text(B64Url, challenge), origin |-> origin,
     rest |-> "crossOrigin"]

Integer(i) == [int |-> i]
Bytes(b)   == [bytes |-> b, len |-> 32]

cose_pubkey(d) ==
    [cbor    |-> TRUE,
     entries |-> << [key |-> KTY, val |-> Integer(KTY_OKP)],
                    [key |-> ALG, val |-> Integer(ALG_EDDSA)],
                    [key |-> CRV, val |-> Integer(CRV_ED25519)],
                    [key |-> X,   val |-> Bytes(d)] >>]

cose_pubkey_es256(d) ==
    [cbor    |-> TRUE,
     entries |-> << [key |-> KTY, val |-> Integer(KTY_EC2)],
                    [key |-> ALG, val |-> Integer(ALG_ES256)],
                    [key |-> CRV, val |-> Integer(CRV_P256)],
                    [key |-> X,   val |-> Bytes(d)],
                    [key |-> Y,   val |-> Bytes(<<d, "y">>)] >>]

\* The blob of an EdDSA key has 42 bytes, that of an ES256 key 77.
auth_data_register(d, cose, rp_id, flags, count, aaguid) ==
    LET cose_len == IF Len(cose.entries) = 4 THEN 42 ELSE 77 IN
    [len |-> ATTESTED + 20 + cose_len, rp_id_hash |-> rp_id, flags |-> flags \cup {"AT"},
     sign_count |-> count, aaguid |-> aaguid, id_len |-> 20, credential_id |-> d,
     cose_len |-> cose_len, cose |-> cose, extensions |-> FALSE]

\* The fields beyond the header are not in the bytes of an assertion.
auth_data_authenticate(rp_id, flags, count) ==
    [len |-> HEADER, rp_id_hash |-> rp_id, flags |-> flags, sign_count |-> count,
     aaguid |-> None, id_len |-> 0, credential_id |-> None, cose_len |-> 0,
     cose |-> [cbor |-> FALSE, entries |-> WrongType], extensions |-> FALSE]

attestation_object(fmt, stmt, auth_data) ==
    [cbor |-> TRUE, map |-> TRUE, fmt |-> fmt, att_stmt |-> stmt, auth_data |-> auth_data]

none_attestation(ad) == attestation_object("none", NoStatement, ad)

packed_self_attestation(ad, cdj) ==
    attestation_object(
        "packed",
        [alg |-> KeyOf(ad.cose).alg, x5c |-> None,
         sig |-> Signature(KeyOf(ad.cose), [auth_data |-> ad, cdj |-> cdj])],
        ad)

\* The certificate of a batch of authenticators, whose key is named by batch.
AttestationCert(batch, aaguid) ==
    [der |-> TRUE, spki |-> "p256", key |-> KeyOf(cose_pubkey_es256(batch)), aaguid |-> aaguid]

packed_x5c_attestation(cert, ad, cdj) ==
    attestation_object(
        "packed",
        [alg |-> ALG_ES256, x5c |-> <<cert>>,
         sig |-> Signature(cert.key, [auth_data |-> ad, cdj |-> cdj])],
        ad)

fido_u2f_attestation(cert, ad, cdj) ==
    attestation_object(
        "fido-u2f",
        [alg |-> None, x5c |-> <<cert>>,
         sig |-> Signature(cert.key,
                           [rp_id_hash |-> ad.rp_id_hash, cdj |-> cdj,
                            credential_id |-> ad.credential_id,
                            x |-> KeyOf(ad.cose).x, y |-> KeyOf(ad.cose).y])],
        ad)

RegistrationResponse(form, attestation, cdj) ==
    [client_data_json |-> Text(form, cdj), attestation_object |-> Text(form, attestation)]

sign_assertion(cose, auth_data, cdj) ==
    Signature(KeyOf(cose), [auth_data |-> auth_data, cdj |-> cdj])

\* make_assertion; handle is None when the authenticator sends no userHandle.
AuthenticationResponse(form, d, cose, ad, handle, cdj) ==
    [id                 |-> Text(form, d),
     authenticator_data |-> Text(form, ad),
     signature          |-> Text(form, sign_assertion(cose, ad, cdj)),
     client_data_json   |-> Text(form, cdj),
     user_handle        |-> IF handle = None THEN None ELSE Text(form, handle)]
=============================================================================
