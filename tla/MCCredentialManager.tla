------------------------- MODULE MCCredentialManager -------------------------
(* Instances of CredentialManager for TLC. *)
EXTENDS CredentialManager, TLC

\* Every tab is a browser of its own, or all are tabs of one browser.
OwnBrowser == {[browser_of |-> [t \in Tabs |-> t], planted |-> p] : p \in BOOLEAN}
OneBrowser == {[browser_of |-> [t \in Tabs |-> b], planted |-> FALSE] : b \in Browsers \ Tabs}
Planted    == {a \in OwnBrowser : a.planted}
EitherWay  == Planted \cup OneBrowser

\* Two browsers may draw all challenges, the tabs of one browser three.
FewerForOneBrowser ==
    drawn.challenge <= 3 \/ \E t, u \in Tabs : tabs[t].browser # tabs[u].browser

\* retain is what SelectSeq is, on every sequence of up to four credentials.
ASSUME RetainIsSelectSeq ==
    \A n \in 0..4 : \A credentials \in [1..n -> [id : 1..3]] : \A target \in 1..3 :
        retain(credentials, target) = SelectSeq(credentials, LAMBDA c : c.id # target)

\* Devices have no order; nor have tabs that name their browsers.
DeviceSymmetry == Permutations(Devices)
FullSymmetry   == Permutations(Devices) \cup Permutations(Tabs)
=============================================================================
