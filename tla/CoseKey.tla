------------------------------- MODULE CoseKey -------------------------------
(***************************************************************************)
(* COSE_Key parsing (src/src/cose.rs) and signature verification with the   *)
(* parsed key (src/src/crypto.rs).  A blob is [cbor, entries]: cbor says    *)
(* whether the bytes start with a CBOR item, entries is the item's sequence *)
(* of [key, val] pairs, or WrongType when it is not a map.  A value is      *)
(* [int |-> i], [bytes |-> b, len |-> l], or WrongType for anything else; a  *)
(* key is an integer or WrongType.  A CBOR integer i is in                  *)
(* -IntRange .. IntRange - 1, where IntRange is 2^64 in the code.           *)
(***************************************************************************)
EXTENDS ClientData, Integers, Sequences, SequencesExt

CONSTANT IntRange

ASSUME IntRangeAssumption == IntRange \in Nat /\ IntRange > 512 /\ IntRange % 2 = 0

\* `i128::from(i) as i64` keeps the low 64 bits.
as_i64(i) == ((i + (IntRange \div 2)) % IntRange) - (IntRange \div 2)

ALG_ES256 == -7
ALG_EDDSA == -8
KTY == 1
ALG == 3
CRV == -1
X   == -2
Y   == -3

KTY_OKP == 1
KTY_EC2 == 2
CRV_P256    == 1
CRV_ED25519 == 6

\* The map loop assigns at every matching key, so the last entry wins, and an
\* entry of the wrong type overwrites an earlier good one with None.
Entry(blob, k) ==
    LET e  == blob.entries
        at == {i \in DOMAIN e : e[i].key # WrongType /\ as_i64(e[i].key) = k}
    IN  IF at = {} THEN None ELSE e[Max(at)].val

i64_of(v)   == IF v \notin {None, WrongType} /\ "int" \in DOMAIN v THEN as_i64(v.int) ELSE None
bytes_of(v) == IF v \notin {None, WrongType} /\ "bytes" \in DOMAIN v THEN v ELSE None

CheckCoordinate(blob, k) ==
    LET v == bytes_of(Entry(blob, k)) IN
    FailIf(v = None, "Cbor") ?? FailIf(v.len # 32, "Cbor")

ParseCoseKey(blob) ==
    LET kty == i64_of(Entry(blob, KTY))
        alg == i64_of(Entry(blob, ALG))
        crv == i64_of(Entry(blob, CRV))
    IN  FailIf(~blob.cbor, "Cbor")
        ?? FailIf(blob.entries = WrongType, "Cbor")
        ?? FailIf(kty = None, "Cbor")
        ?? FailIf(alg = None, "Cbor")
        ?? FailIf(<<kty, alg>> \notin {<<KTY_EC2, ALG_ES256>>, <<KTY_OKP, ALG_EDDSA>>},
                  "UnsupportedAlg")
        ?? FailIf(crv # (IF alg = ALG_ES256 THEN CRV_P256 ELSE CRV_ED25519), "Cbor")
        ?? CheckCoordinate(blob, X)
        ?? (IF alg = ALG_ES256 THEN CheckCoordinate(blob, Y) ELSE Ok)

\* The key that a blob ParseCoseKey accepts holds.
Coordinate(blob, k) ==
    LET v == bytes_of(Entry(blob, k)) IN IF v = None THEN None ELSE v.bytes

KeyOf(blob) ==
    IF i64_of(Entry(blob, ALG)) = ALG_ES256
    THEN [alg |-> ALG_ES256, x |-> Coordinate(blob, X), y |-> Coordinate(blob, Y)]
    ELSE [alg |-> ALG_EDDSA, key |-> Coordinate(blob, X)]

\* A signature names the key that made it and the message it covers: nobody
\* makes one without the private key.  ES256 is DER on the wire, EdDSA raw.
Signature(key, msg) ==
    [shape |-> IF key.alg = ALG_ES256 THEN "der" ELSE "raw64",
     by    |-> key,
     over  |-> msg]

\* Whether the bytes of a parsed key are a point of its curve, which ParseCoseKey
\* does not ask.  None stands for 32 bytes that are none; a P-256 point is its x
\* and the y that belongs to it.
IsPoint(key) ==
    IF key.alg = ALG_ES256 THEN key.x # None /\ key.y = <<key.x, "y">>
    ELSE key.key # None

\* Mutant: the message is not part of what is verified.
verify_any_message(key, msg, sig) ==
    FailIf(~IsPoint(key) \/ sig.by # key \/ sig.shape # Signature(key, msg).shape,
           "BadSignature")

\* Mutant: a failed verification is reported as an internal error.
verify_internal(key, msg, sig) ==
    FailIf(~IsPoint(key) \/ sig # Signature(key, msg), "Internal")

verify(key, msg, sig) ==
    FailIf(~IsPoint(key), "BadSignature") ?? FailIf(sig # Signature(key, msg), "BadSignature")
=============================================================================
