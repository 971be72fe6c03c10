-------------------------- MODULE FinalizedObjects --------------------------
(***************************************************************************)
(* What a finalizer is for: Kubernetes objects that own resources outside  *)
(* the cluster.  Resources are acquired under a finalizer only, and the    *)
(* finalizer of a deleted object goes when nothing is left to clean up.    *)
(* Both controllers implement this specification: YandexMachine with its   *)
(* compute instances, YandexCluster with its load balancer.                *)
(***************************************************************************)
CONSTANTS
    Objects,     \* the objects of one kind
    Resources    \* what they may own in the cloud

VARIABLES
    life,     \* of each object: "none", "live", "deleting" or "gone"
    fin,      \* does it have its finalizer
    held,     \* the resources that exist for it
    leaked,   \* resources that the controller no longer knows
    faulty    \* something has failed

vars == <<life, fin, held, leaked, faulty>>

Init ==
    /\ life = [o \in Objects |-> "none"]
    /\ fin = [o \in Objects |-> FALSE]
    /\ held = [o \in Objects |-> {}]
    /\ leaked = {}
    /\ faulty = FALSE

Exists(o) == life[o] \in {"live", "deleting"}

(* The user creates the object or asks for its deletion, which the API      *)
(* server grants at once when there is no finalizer.                       *)
Create(o) ==
    /\ life[o] = "none"
    /\ life' = [life EXCEPT ![o] = "live"]
    /\ UNCHANGED <<fin, held>>

RequestDeletion(o) ==
    /\ life[o] = "live"
    /\ life' = [life EXCEPT ![o] = IF fin[o] THEN "deleting" ELSE "gone"]
    /\ UNCHANGED <<fin, held>>

Protect(o) ==
    /\ Exists(o)
    /\ fin' = [fin EXCEPT ![o] = TRUE]
    /\ UNCHANGED <<life, held>>

(* A resource comes into being, for an object that is protected or without  *)
(* the controller's knowledge ...                                          *)
Acquire(o, r) ==
    /\ (Exists(o) /\ fin[o]) \/ r \in leaked'
    /\ held' = [held EXCEPT ![o] = @ \cup {r}]
    /\ UNCHANGED <<life, fin>>

(* ... and goes, by the controller or by hand. *)
Release(o, r) ==
    /\ r \in held[o]
    /\ held' = [held EXCEPT ![o] = @ \ {r}]
    /\ UNCHANGED <<life, fin>>

Finalize(o) ==
    /\ life[o] = "deleting"
    /\ held[o] \subseteq leaked'
    /\ life' = [life EXCEPT ![o] = "gone"]
    /\ fin' = [fin EXCEPT ![o] = FALSE]
    /\ UNCHANGED held

(* What is leaked stays leaked, and nothing leaks while nothing fails. *)
Remember ==
    /\ leaked \subseteq leaked'
    /\ faulty => faulty'
    /\ leaked' # {} => faulty'

Next ==
    /\ Remember
    /\ \/ UNCHANGED <<life, fin, held>>
       \/ \E o \in Objects : \/ Create(o) \/ RequestDeletion(o)
                             \/ Protect(o) \/ Finalize(o)
                             \/ \E r \in Resources : Acquire(o, r) \/ Release(o, r)

Spec == Init /\ [][Next]_vars

(***************************************************************************)
(* The promise of every finalizer: an object that is gone leaves behind at *)
(* most what has leaked, and nothing leaks without a fault.                *)
(***************************************************************************)
Promise ==
    /\ \A o \in Objects : ~Exists(o) => held[o] \subseteq leaked
    /\ leaked # {} => faulty
=============================================================================
