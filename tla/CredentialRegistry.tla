-------------------------- MODULE CredentialRegistry --------------------------
(***************************************************************************)
(* What a relying party that uses the crate promises, without ceremonies,   *)
(* sessions, requests or signatures: credentials that are registered once,  *)
(* sign their owner in with ever greater counts, and stay removed once they *)
(* are removed.  A registry that is not durable forgets its credentials     *)
(* when its process restarts.                                               *)
(***************************************************************************)
EXTENDS Naturals, Sequences

CONSTANTS Ids, Owners, Counts, Absent

VARIABLES
    durable,    \* whether a restart leaves the registry alone; never changes
    registry,   \* per credential id, its owner and the last count
    history     \* what was accepted or removed, in order

vars == <<durable, registry, history>>

Empty == [id \in Ids |-> Absent]

\* One more answer, or removal, is accepted.
Accept(kind, id, owner, n) ==
    /\ history' = Append(history, [kind |-> kind, id |-> id, owner |-> owner, count |-> n])
    /\ UNCHANGED durable

Init ==
    /\ durable \in BOOLEAN
    /\ registry = Empty
    /\ history = <<>>

\* An id is registered at most once, also when its credential is gone by now.
Register(id, owner, n) ==
    /\ Accept("create", id, owner, n)
    /\ registry[id] = Absent
    /\ \A i \in DOMAIN history : history[i].id # id
    /\ registry' = [registry EXCEPT ![id] = [owner |-> owner, count |-> n]]

\* A credential that does not count always reports 0.
SignIn(id, n) ==
    /\ \E owner \in Owners :
          Accept("get", id, owner, n) /\ registry[id] = [owner |-> owner, count |-> registry[id].count]
    /\ registry[id].count < n \/ (registry[id].count = 0 /\ n = 0)
    /\ registry' = [registry EXCEPT ![id].count = n]

Remove(id) ==
    /\ \E owner \in Owners, n \in Counts :
          registry[id] = [owner |-> owner, count |-> n] /\ Accept("remove", id, owner, 0)
    /\ registry' = [registry EXCEPT ![id] = Absent]

Restart ==
    /\ ~durable
    /\ registry' = Empty
    /\ UNCHANGED <<durable, history>>

\* Whatever is accepted makes the history longer, and nothing else does.
Next ==
    \/ /\ history' # history
       /\ \E id \in Ids :
             \/ \E n \in Counts :
                   \/ \E owner \in Owners : Register(id, owner, n)
                   \/ SignIn(id, n)
             \/ Remove(id)
    \/ registry' # registry /\ Restart

Spec == Init /\ [][Next]_vars
=============================================================================
