----------------------------- MODULE Attestation -----------------------------
(***************************************************************************)
(* The attestation object and its statement (src/src/attestation.rs), with  *)
(* the leaf certificate of x5c (src/src/x509.rs).  The decoded object is    *)
(* [cbor, map, fmt, att_stmt, auth_data]; a statement is [alg, sig, x5c].   *)
(* Entries are None when absent and WrongType when of another CBOR type.    *)
(* A certificate is [der, spki, key, aaguid], spki being "p256" when the    *)
(* public key is an EC key in the form of an uncompressed 65-byte point,    *)
(* and aaguid the FIDO extension (WrongType: present but malformed).        *)
(***************************************************************************)
EXTENDS AuthenticatorData

NoStatement == [alg |-> None, sig |-> None, x5c |-> None]

ParseAttestation(obj) ==
       FailIf(~obj.cbor \/ ~obj.map, "Cbor")
    ?? FailIf(obj.fmt \in {None, WrongType}, "Cbor")
    ?? FailIf(obj.auth_data \in {None, WrongType}, "Cbor")
    ?? ParseAuthenticatorData(obj.auth_data)

Statement(obj) == IF obj.att_stmt = None THEN NoStatement ELSE obj.att_stmt

\* The part of the two attStmt parsers that they share.
ParseStatement(stmt) ==
       FailIf(stmt = WrongType, "Cbor")
    ?? FailIf(stmt.x5c = WrongType, "Cbor")
    ?? FailIf(stmt.x5c # None /\ \E i \in DOMAIN stmt.x5c : stmt.x5c[i] = WrongType, "Cbor")
    ?? FailIf(stmt.sig \in {None, WrongType}, "Cbor")

from_der(cert) ==
       FailIf(~cert.der, "Cbor")
    ?? FailIf(cert.spki # "p256", "Cbor")
    ?? FailIf(cert.aaguid = WrongType, "Cbor")

\* Mutant: the message is not part of what is verified.
verify_es256_sec1_any(cert, msg, sig) == FailIf(sig.by # cert.key, "BadSignature")

\* The key of a certificate verifies as an ES256 key whatever its curve
\* parameter says: from_der looks at the form of the point only.
verify_es256_sec1(cert, msg, sig) == verify(cert.key, msg, sig)

\* Mutant: the data is written out again from what was parsed.
PackedMessage_reserialised(ad, cdj) ==
    [auth_data |-> [ad EXCEPT !.len = ExtensionsAt(ad), !.extensions = FALSE], cdj |-> cdj]

\* The raw bytes of the authenticator data are signed, whatever was parsed.
PackedMessage(ad, cdj) == [auth_data |-> ad, cdj |-> cdj]

\* Mutant: the two model names are not compared.
CheckModel_never(leaf, ad) == Ok

\* WebAuthn-3 8.2.
CheckModel(leaf, ad) ==
    FailIf(/\ leaf.aaguid # None
           /\ Attested(ad) # None
           /\ leaf.aaguid # Attested(ad).aaguid, "Cbor")

verify_packed(obj, cred_key, cdj) ==
    LET stmt == Statement(obj)
        msg  == PackedMessage(obj.auth_data, cdj)
        leaf == stmt.x5c[1]
    IN  ParseStatement(stmt)
        ?? FailIf(stmt.alg \in {None, WrongType}, "Cbor")
        ?? (IF stmt.x5c = None
            THEN    FailIf(as_i64(stmt.alg) # cred_key.alg, "Cbor")
                 ?? verify(cred_key, msg, stmt.sig)
            ELSE    FailIf(as_i64(stmt.alg) # ALG_ES256, "Cbor")
                 ?? FailIf(stmt.x5c = <<>>, "Cbor")
                 ?? from_der(leaf)
                 ?? CheckModel(leaf, obj.auth_data)
                 ?? verify_es256_sec1(leaf, msg, stmt.sig))

verify_fido_u2f(obj, cred_key, cdj) ==
    LET stmt     == Statement(obj)
        attested == Attested(obj.auth_data)
    IN  FailIf(cred_key.alg # ALG_ES256, "Cbor")
        ?? ParseStatement(stmt)
        ?? FailIf(stmt.x5c = None, "Cbor")
        ?? FailIf(stmt.x5c = <<>>, "Cbor")
        ?? from_der(stmt.x5c[1])
        ?? FailIf(attested = None, "Cbor")
        ?? verify_es256_sec1(stmt.x5c[1],
                             [rp_id_hash    |-> obj.auth_data.rp_id_hash,
                              cdj           |-> cdj,
                              credential_id |-> attested.credential_id,
                              x             |-> cred_key.x,
                              y             |-> cred_key.y],
                             stmt.sig)

verify_statement(obj, cred_key, cdj) ==
    CASE obj.fmt = "none"     -> Ok
      [] obj.fmt = "packed"   -> verify_packed(obj, cred_key, cdj)
      [] obj.fmt = "fido-u2f" -> verify_fido_u2f(obj, cred_key, cdj)
      [] OTHER                -> "Cbor"
=============================================================================
