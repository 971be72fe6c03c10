-------------------------- MODULE MCYandexCluster --------------------------
(***************************************************************************)
(* Instances of YandexCluster for TLC.                                     *)
(***************************************************************************)
EXTENDS YandexCluster, TLC

AnyListener == Endpoints \cup {Nil}

Once(kinds) == [k \in FaultKinds |-> IF k \in kinds THEN 1 ELSE 0]

AllOnce  == Once(FaultKinds)
Failures == Once(FaultKinds \ {"stale"})
ByHand   == Once({"lost"})

(* No address is special: the one that is asked for is chosen by the user. *)
Symmetry == Permutations(Endpoints)
=============================================================================
