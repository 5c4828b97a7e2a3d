---------------------------- MODULE MCOsObserver ----------------------------
EXTENDS OsObserver, TLC

CONSTANTS m1, m2, w1

\* Two mobile networks and a wireless one.
TwoMobile == (m1 :> Mobile) @@ (m2 :> Mobile) @@ (w1 :> Wifi)

\* The mobile networks are interchangeable.
NetworkSymmetry == Permutations({m1, m2})

\* Lists of one item.
Singly == {{i} : i \in AllItems}
=============================================================================
