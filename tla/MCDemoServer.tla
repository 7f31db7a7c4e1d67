----------------------------- MODULE MCDemoServer -----------------------------
(* Instances of DemoServer for TLC. *)
EXTENDS DemoServer

\* Browsers as they are when the first page is opened.
Arranged(browser_of) == [browser_of |-> browser_of, planted |-> FALSE]

Home == CHOOSE b \in Browsers : TRUE

\* All tabs share the visitor's browser.
OneBrowser == {Arranged([t \in Tabs |-> Home])}

\* The other tabs share the visitor's browser, or have another one.
EitherWay ==
    {Arranged([t \in Tabs |-> IF t = Visitor THEN Home ELSE b]) : b \in Browsers}
=============================================================================
