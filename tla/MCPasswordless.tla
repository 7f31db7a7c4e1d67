---------------------------- MODULE MCPasswordless ----------------------------
(* Instances of Passwordless for TLC. *)
EXTENDS Passwordless, TLC

Home == CHOOSE b \in Browsers : TRUE

Injections == {f \in [Tabs -> Browsers] : \A t, u \in Tabs : f[t] = f[u] => t = u}

\* Every tab has its own browser, with the same planted sid; or all share one.
EitherWay ==
    {[browser_of |-> CHOOSE f \in Injections : TRUE, planted |-> TRUE],
     [browser_of |-> [t \in Tabs |-> Home], planted |-> FALSE]}

NameSymmetry == Permutations(Names)
=============================================================================
