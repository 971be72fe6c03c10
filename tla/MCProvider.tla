----------------------------- MODULE MCProvider -----------------------------
(***************************************************************************)
(* Instances of Provider for TLC.                                          *)
(***************************************************************************)
EXTENDS Provider, TLC

CONSTANTS m1, i1, a1, e1

OwnAddr == i1 :> a1

(* The faults of both, each once.  The deletion of the cluster is a loss of  *)
(* the YandexCluster and of the target group to the machines.               *)
Once(kinds) ==
    [k \in kinds |-> IF k \in {"crash", "pause", "vm", "lost", "tg", "cluster"} THEN 1 ELSE 0]

MachineOnce == Once({"crash", "cloud", "patch", "stale", "vm", "tg", "pause", "cluster"})
ClusterOnce == Once({"crash", "cloud", "patch", "stale", "timeout", "pause",
                     "lost", "replaced", "group", "preset"})
=============================================================================
