----------------------------- MODULE ClientData ------------------------------
(***************************************************************************)
(* Validation of clientDataJSON (src/src/client_data.rs).  The decoded      *)
(* document is a record [json, type, challenge, origin]; json says whether  *)
(* it parses into the typed shape, and challenge is base64 text in turn.    *)
(* The record also stands for the raw bytes that are hashed and signed.     *)
(***************************************************************************)
EXTENDS Base64Wire

TYPE_REGISTER     == "webauthn.create"
TYPE_AUTHENTICATE == "webauthn.get"

\* Mutant: the origin is not compared.
validate_any_origin(encoded, expected_type, expected_challenge, expected_origin, strict) ==
    LET p == encoded.value IN
       decode_b64(strict, encoded)
    ?? FailIf(~p.json, "ClientData")
    ?? FailIf(p.type # expected_type, "ClientDataType")
    ?? decode_b64(strict, p.challenge)
    ?? FailIf(p.challenge.value # expected_challenge, "ChallengeMismatch")

\* Mutant: the challenge is decoded but not compared.
validate_any_challenge(encoded, expected_type, expected_challenge, expected_origin, strict) ==
    LET p == encoded.value IN
       decode_b64(strict, encoded)
    ?? FailIf(~p.json, "ClientData")
    ?? FailIf(p.type # expected_type, "ClientDataType")
    ?? decode_b64(strict, p.challenge)
    ?? FailIf(p.origin # expected_origin, "OriginMismatch")

validate(encoded, expected_type, expected_challenge, expected_origin, strict) ==
    LET p == encoded.value IN
       decode_b64(strict, encoded)
    ?? FailIf(~p.json, "ClientData")
    ?? FailIf(p.type # expected_type, "ClientDataType")
    ?? decode_b64(strict, p.challenge)
    ?? FailIf(p.challenge.value # expected_challenge, "ChallengeMismatch")
    ?? FailIf(p.origin # expected_origin, "OriginMismatch")
=============================================================================
