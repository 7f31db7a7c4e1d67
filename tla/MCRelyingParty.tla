--------------------------- MODULE MCRelyingParty ----------------------------
(* Instances of RelyingParty for TLC. *)
EXTENDS RelyingParty, TLC

Config(uv, handle) ==
    [rp_id |-> RpIdValue, origin |-> RpOrigin, require_uv |-> uv,
     strict_base64 |-> FALSE, require_user_handle |-> handle]

Lax      == {Config(FALSE, FALSE)}
BothEnds == {Config(FALSE, FALSE), Config(TRUE, TRUE)}

Tap      == {{"UP"}}
TapOrPin == {{"UP"}, {"UP", "UV"}}

\* No user is told from another.
UserSymmetry == Permutations(Users)

\* An answer is odd by its page, by a user who was only present, or by its handle.
Oddities(a) ==
    {odd \in {"page", "gesture", "handle"} :
        CASE odd = "page"    -> a.origin # RpOrigin
          [] odd = "gesture" -> "UV" \notin a.flags
          [] odd = "handle"  -> a.kind = "get" /\ a.handle # passkeys[a.passkey].user}

OddInOneWay    == \A a \in answers : Cardinality(Oddities(a)) <= 1
HandlesAsGiven == \A a \in answers : "handle" \notin Oddities(a)
=============================================================================
