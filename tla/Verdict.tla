------------------------------- MODULE Verdict -------------------------------
(***************************************************************************)
(* The outcome of a fallible step of the crate (src/src/error.rs): Ok, or   *)
(* the variant of Error the step returned.  A variant's payload is for logs *)
(* only and is left out.  None stands for Rust's Option::None and for an    *)
(* absent CBOR map entry, WrongType for an entry of another CBOR type than  *)
(* the parser asks for.                                                     *)
(***************************************************************************)
CONSTANTS None, WrongType

\* Rust's `?`: the second step runs only when the first one succeeded.
a ?? b == IF a = "Ok" THEN b ELSE a

Ok == "Ok"

\* Error::Internal is left out: only RpId::try_from_url constructs it, before
\* there is a Webauthn.
Error == {"Base64", "ClientData", "ClientDataType", "ChallengeMismatch",
          "OriginMismatch", "RpIdHashMismatch", "UserNotPresent",
          "UserNotVerified", "AuthData", "Cbor", "UnsupportedAlg",
          "BadSignature", "CounterReplay", "CeremonyExpired",
          "UserHandleMismatch"}

\* `if bad { return Err(err) }`
FailIf(bad, err) == IF bad THEN err ELSE Ok
=============================================================================
