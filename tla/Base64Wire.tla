----------------------------- MODULE Base64Wire ------------------------------
(***************************************************************************)
(* Base64 text on the wire (src/src/types.rs).  A text is the value it      *)
(* encodes together with the two things the four decoding engines tell      *)
(* apart: which alphabet's distinguishing characters it uses ("plain" when  *)
(* it has none of - _ + /, "neither" when no engine can read it) and its    *)
(* padding ("unneeded" when the data fills its last group).                 *)
(***************************************************************************)
EXTENDS Verdict

Form == [alphabet : {"plain", "url", "std", "neither"},
         padding  : {"unneeded", "absent", "present"}]

Text(form, value) == [form |-> form, value |-> value]

UrlAlphabet(s)      == s.form.alphabet \in {"plain", "url"}
StandardAlphabet(s) == s.form.alphabet \in {"plain", "std"}

\* A NO_PAD engine refuses padding, a padded one insists on canonical padding.
B64URL(s)        == UrlAlphabet(s) /\ s.form.padding # "present"
B64URL_PAD(s)    == UrlAlphabet(s) /\ s.form.padding # "absent"
B64STD_NO_PAD(s) == StandardAlphabet(s) /\ s.form.padding # "present"
B64STD(s)        == StandardAlphabet(s) /\ s.form.padding # "absent"

b64url_decode(s) ==
    FailIf(~(B64URL(s) \/ B64URL_PAD(s) \/ B64STD_NO_PAD(s) \/ B64STD(s)), "Base64")

b64url_decode_strict(s) == FailIf(~B64URL(s), "Base64")

\* Mutant: the lenient mode tries the standard alphabet only.
decode_b64_standard(strict, s) ==
    IF strict THEN b64url_decode_strict(s) ELSE FailIf(~(B64STD_NO_PAD(s) \/ B64STD(s)), "Base64")

decode_b64(strict, s) ==
    IF strict THEN b64url_decode_strict(s) ELSE b64url_decode(s)
=============================================================================
