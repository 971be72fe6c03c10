-------------------------- MODULE MCYandexMachine --------------------------
(***************************************************************************)
(* Instances of YandexMachine for TLC.                                     *)
(***************************************************************************)
EXTENDS YandexMachine, TLC

CONSTANTS m1, m2, i1, i2, i3, a1, a2

OwnAddr    == i1 :> a1 @@ i2 :> a2
SharedAddr == i1 :> a1 @@ i2 :> a1   \* the cloud gives a freed address again
SomeShared == SharedAddr @@ i3 :> a2

Once(kinds) == [k \in FaultKinds |-> IF k \in kinds THEN 1 ELSE 0]

Failures   == Once({"stale", "crash", "cloud", "patch", "vm"})
Operator   == Once({"cluster", "tg"})
LiveFaults == Once({"crash", "cloud", "patch", "pause"})
OnlyStale  == Once({"stale"})
OnlyCrash  == Once({"crash"})
None       == Once({})

(***************************************************************************)
(* Instances are alike, together with their addresses; so are machines.    *)
(* With Machines = {m1} no state mentions m2, and exchanging m1 and m2     *)
(* identifies nothing.  With SomeShared, the two instances of a1 are alike.*)
(***************************************************************************)
Swapped      == i1 :> i2 @@ i2 :> i1 @@ a1 :> a2 @@ a2 :> a1
Symmetry     == Permutations({m1, m2}) \cup {Swapped}
PairSymmetry == Permutations({m1, m2}) \cup Permutations({i1, i2})
=============================================================================
