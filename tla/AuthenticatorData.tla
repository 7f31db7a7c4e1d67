-------------------------- MODULE AuthenticatorData --------------------------
(***************************************************************************)
(* Parsing of the binary authenticatorData (src/src/auth_data.rs).  The     *)
(* bytes are a record: len bytes in all; the fields of the fixed header;    *)
(* under the AT flag a credential id of id_len bytes and a COSE blob of     *)
(* cose_len bytes; extensions says whether what follows is valid CBOR.      *)
(* RP ids stand for their SHA-256 hashes, which do not collide.             *)
(***************************************************************************)
EXTENDS CoseKey

Flags == {"UP", "UV", "AT", "ED"}

HEADER   == 37
ATTESTED == HEADER + 18

\* Where the attested credential data ends and extensions may begin.
ExtensionsAt(b) ==
    IF "AT" \in b.flags THEN ATTESTED + b.id_len + b.cose_len ELSE HEADER

ParseAttestedCredentialData(b) ==
       FailIf(b.len < ATTESTED, "AuthData")
    ?? FailIf(b.id_len > 1023, "AuthData")
    ?? FailIf(b.len < ATTESTED + b.id_len, "AuthData")
    ?? FailIf(~b.cose.cbor \/ b.len < ExtensionsAt(b), "Cbor")

ParseAuthenticatorData(b) ==
       FailIf(b.len < HEADER, "AuthData")
    ?? (IF "AT" \in b.flags THEN ParseAttestedCredentialData(b) ELSE Ok)
    ?? FailIf("ED" \in b.flags /\ b.len > ExtensionsAt(b) /\ ~b.extensions, "AuthData")

Attested(b) ==
    IF "AT" \in b.flags
    THEN [aaguid |-> b.aaguid, credential_id |-> b.credential_id, public_key_cose |-> b.cose]
    ELSE None

user_present(b)  == "UP" \in b.flags
user_verified(b) == "UV" \in b.flags
=============================================================================
