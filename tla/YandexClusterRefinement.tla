---------------------- MODULE YandexClusterRefinement ----------------------
(***************************************************************************)
(* The YandexCluster controller implements FinalizedObjects, step by step, *)
(* and without its exceptions: nothing of the load balancer ever leaks.    *)
(***************************************************************************)
EXTENDS YandexClusterProofs

-----------------------------------------------------------------------------
(***************************************************************************)
(* The refinement mapping, by name: what the abstract life, fin and held   *)
(* are in a state of the controller.                                       *)
(***************************************************************************)
Parts == {"tg", "bg", "alb"}

Has(r) ==
    \/ r = "tg" /\ tg
    \/ r = "bg" /\ bg
    \/ r = "alb" /\ alb.st # "none"

Lives == [o \in {"yc"} |-> yc.life]
Fins  == [o \in {"yc"} |-> yc.fin]
Owned == [o \in {"yc"} |-> {r \in Parts : Has(r)}]

(* A step of the finalizer discipline, in these terms. *)
Maps ==
    \/ UNCHANGED <<Lives, Fins, Owned>>
    \/ \E o \in {"yc"} : \/ Finalizer!Create(o) \/ Finalizer!RequestDeletion(o)
                         \/ Finalizer!Protect(o) \/ Finalizer!Finalize(o)
                         \/ \E r \in Parts : Finalizer!Acquire(o, r) \/ Finalizer!Release(o, r)

(* A step that changes no life, no finalizer and no resource is a stutter. *)
LEMMA Stutter ==
    ASSUME yc'.life = yc.life, yc'.fin = yc.fin, \A r \in Parts : Has(r)' = Has(r)
    PROVE  Maps
  BY DEF Maps, Lives, Fins, Owned

(* Patches and other steps on the object leave the resources alone. *)
LEMMA SameOwned ==
    ASSUME UNCHANGED <<tg, bg, alb>>
    PROVE  UNCHANGED Owned /\ \A r \in Parts : Has(r)' = Has(r)
  BY DEF Owned, Has

(* One resource comes or goes; it comes only under the finalizer. *)
LEMMA PartMaps ==
    ASSUME UNCHANGED yc, NEW r \in Parts, \A s \in Parts \ {r} : Has(s)' = Has(s),
           Has(r)' /\ ~Has(r) => Exists(yc) /\ yc.fin
    PROVE  Maps
  <1>1. UNCHANGED <<Lives, Fins>>
    BY DEF Lives, Fins
  <1>2. CASE Has(r)' = Has(r)
    BY <1>2, Stutter
  <1>3. CASE Has(r)' /\ ~Has(r)
    <2>1. Owned' = [Owned EXCEPT !["yc"] = @ \cup {r}]
      BY <1>3 DEF Owned
    <2>2. Lives["yc"] = yc.life /\ Fins["yc"] = yc.fin
      BY DEF Lives, Fins
    <2>3. Finalizer!Acquire("yc", r)
      BY <1>1, <1>3, <2>1, <2>2
         DEF Finalizer!Acquire, Finalizer!Exists, Exists, Lives, Fins, Owned, Parts, Has
    <2>4. QED
      BY <2>3 DEF Maps
  <1>4. CASE ~Has(r)' /\ Has(r)
    <2>1. Owned' = [Owned EXCEPT !["yc"] = @ \ {r}] /\ r \in Owned["yc"]
      BY <1>4 DEF Owned
    <2>2. Finalizer!Release("yc", r)
      BY <1>1, <2>1 DEF Finalizer!Release, Lives, Fins, Owned, Parts, Has
    <2>3. QED
      BY <2>2 DEF Maps
  <1>5. Has(r)' \in BOOLEAN /\ Has(r) \in BOOLEAN
    BY DEF Has
  <1>6. QED
    BY <1>2, <1>3, <1>4, <1>5

(* The user creates the object or asks for its deletion. *)
LEMMA UserMaps ==
    ASSUME TypeOK, CreateCluster \/ DeleteCluster
    PROVE  Maps
  <1>1. UNCHANGED Owned
    BY SameOwned DEF CreateCluster, DeleteCluster, cloud
  <1>2. /\ yc'.fin = yc.fin
        /\ \/ yc.life = "none" /\ yc'.life = "live"
           \/ yc.life = "live" /\ yc'.life = IF yc.fin THEN "deleting" ELSE "gone"
    BY DEF CreateCluster, DeleteCluster, TypeOK, Object
  <1>3. Lives' = [Lives EXCEPT !["yc"] = yc'.life] /\ Fins' = Fins
    BY <1>2 DEF Lives, Fins
  <1>4. Lives["yc"] = yc.life /\ Fins["yc"] = yc.fin
    BY DEF Lives, Fins
  <1>5. Finalizer!Create("yc") \/ Finalizer!RequestDeletion("yc")
    BY <1>1, <1>2, <1>3, <1>4
       DEF Finalizer!Create, Finalizer!RequestDeletion, Lives, Fins, Owned, Parts, Has
  <1>6. QED
    BY <1>5 DEF Maps

(* The cloud, and hands in it. *)
LEMMA CloudMaps ==
    ASSUME TypeOK, ClusterInv,
           BalancerStarted \/ BalancerDeleted \/ BalancerLost \/ BalancerReplaced \/ GroupLost
    PROVE  Maps
  <1>1. UNCHANGED yc
    BY DEF BalancerStarted, BalancerDeleted, BalancerLost, BalancerReplaced, GroupLost, k8s
  <1>2. CASE BalancerStarted \/ BalancerDeleted \/ BalancerLost \/ BalancerReplaced
    <2>1. UNCHANGED <<tg, bg>>
      BY <1>2 DEF BalancerStarted, BalancerDeleted, BalancerLost, BalancerReplaced
    <2>2. alb.st = "none" /\ alb'.st # "none" => Exists(yc) /\ yc.fin
      BY <1>2 DEF BalancerStarted, BalancerDeleted, BalancerLost, BalancerReplaced,
                  NoBalancer, ClusterInv, ResourcesInv
    <2>3. \A s \in Parts \ {"alb"} : Has(s)' = Has(s)
      BY <2>1 DEF Parts, Has
    <2>4. Has("alb") = (alb.st # "none") /\ Has("alb")' = (alb'.st # "none")
      BY DEF Has
    <2>5. QED
      BY <1>1, <2>2, <2>3, <2>4, PartMaps DEF Parts
  <1>3. CASE tg /\ ~tg' /\ UNCHANGED <<bg, alb>>
    <2>1. (\A s \in Parts \ {"tg"} : Has(s)' = Has(s)) /\ ~Has("tg")'
      BY <1>3 DEF Parts, Has
    <2>2. QED
      BY <1>1, <2>1, PartMaps DEF Parts
  <1>4. CASE bg /\ ~bg' /\ UNCHANGED <<tg, alb>>
    <2>1. (\A s \in Parts \ {"bg"} : Has(s)' = Has(s)) /\ ~Has("bg")'
      BY <1>4 DEF Parts, Has
    <2>2. QED
      BY <1>1, <2>1, PartMaps DEF Parts
  <1>5. QED
    BY <1>2, <1>3, <1>4 DEF GroupLost

(* reconcile creates, and reconcileDelete deletes, one resource at a time.  *)
LEMMA CallMaps ==
    ASSUME TypeOK, ClusterInv, Calls \/ Describe
    PROVE  Maps
  <1>1. UNCHANGED yc
    BY DEF Calls, ReconcileTargetGroup, ReconcileBackendGroup, ReconcileBalancer, WaitBalancer,
           IsActive, Describe, Restart, DeleteBalancer, DeleteBackendGroup, DeleteTargetGroup, k8s
  <1>2. pc \in {"target", "backend", "balancer"} => Exists(yc) /\ yc.fin
    BY DEF ClusterInv, WorkerInv, Lags
  <1>3. CASE ReconcileTargetGroup \/ DeleteTargetGroup
    <2>1. UNCHANGED <<bg, alb>> /\ (ReconcileTargetGroup => pc = "target")
      BY <1>3 DEF ReconcileTargetGroup, DeleteTargetGroup
    <2>2. DeleteTargetGroup => (tg' => tg)
      BY Zenon DEF DeleteTargetGroup
    <2>3. \A s \in Parts \ {"tg"} : Has(s)' = Has(s)
      BY <2>1 DEF Parts, Has
    <2>4. Has("tg") = tg /\ Has("tg")' = tg'
      BY TypeStep DEF TypeOK, Has, Next, Reconcile, Calls
    <2>5. QED
      BY <1>1, <1>2, <1>3, <2>1, <2>2, <2>3, <2>4, PartMaps DEF Parts
  <1>4. CASE ReconcileBackendGroup \/ DeleteBackendGroup
    <2>1. UNCHANGED <<tg, alb>> /\ (ReconcileBackendGroup => pc = "backend")
      BY <1>4 DEF ReconcileBackendGroup, DeleteBackendGroup
    <2>2. DeleteBackendGroup => (bg' => bg)
      BY DEF DeleteBackendGroup, RemoveBackendGroup
    <2>3. \A s \in Parts \ {"bg"} : Has(s)' = Has(s)
      BY <2>1 DEF Parts, Has
    <2>4. Has("bg") = bg /\ Has("bg")' = bg'
      BY TypeStep DEF TypeOK, Has, Next, Reconcile, Calls
    <2>5. QED
      BY <1>1, <1>2, <1>4, <2>1, <2>2, <2>3, <2>4, PartMaps DEF Parts
  <1>5. CASE ReconcileBalancer \/ DeleteBalancer
    <2>1. UNCHANGED <<tg, bg>> /\ (ReconcileBalancer => pc = "balancer")
      BY <1>5 DEF ReconcileBalancer, DeleteBalancer
    <2>2. DeleteBalancer => (alb'.st # "none" => alb.st # "none")
      BY DEF DeleteBalancer
    <2>3. \A s \in Parts \ {"alb"} : Has(s)' = Has(s)
      BY <2>1 DEF Parts, Has
    <2>4. Has("alb") = (alb.st # "none") /\ Has("alb")' = (alb'.st # "none")
      BY DEF Has
    <2>5. QED
      BY <1>1, <1>2, <1>5, <2>1, <2>2, <2>3, <2>4, PartMaps DEF Parts
  <1>6. CASE WaitBalancer \/ IsActive \/ Describe
    <2>1. UNCHANGED <<tg, bg, alb>>
      BY <1>6 DEF WaitBalancer, IsActive, Describe, Restart, cloud
    <2>2. QED
      BY <1>1, <2>1, SameOwned, Stutter
  <1>7. QED
    BY <1>3, <1>4, <1>5, <1>6 DEF Calls

(* Only the patch of the metadata touches the finalizer: it adds it to an   *)
(* object that is there, or takes it from one that owns nothing.            *)
LEMMA PatchMaps ==
    ASSUME TypeOK, ClusterInv, PatchConds \/ PatchSpec \/ PatchStatus
    PROVE  Maps
  <1>1. UNCHANGED <<tg, bg, alb>>
    BY DEF PatchConds, PatchSpec, PatchStatus, cloud
  <1>2. yc \in Object /\ base \in Object /\ local \in Object
    BY DEF TypeOK
  <1>3. CASE yc'.fin = yc.fin /\ yc'.life = yc.life
    BY <1>1, <1>3, SameOwned, Stutter
  <1>4. CASE PatchConds \/ PatchStatus
    <2>1. yc' = yc \/ yc' = MergeConds(yc) \/ yc' = MergeStatus(yc)
      BY <1>4 DEF PatchConds, PatchStatus
    <2>2. yc'.fin = yc.fin /\ yc'.life = yc.life
      BY <1>2, <2>1, MergeFacts
    <2>3. QED
      BY <1>3, <2>2
  <1>5. CASE PatchSpec /\ ~(yc'.fin = yc.fin /\ yc'.life = yc.life)
    <2> DEFINE n == Finalized(MergeSpec(yc))
    <2>1. /\ pc = "spec" /\ yc' = n
          /\ local.fin # base.fin \/ local.ep # base.ep => Exists(yc)
      BY <1>5 DEF PatchSpec
    <2>2. /\ n.fin = IF local.fin = base.fin THEN yc.fin ELSE local.fin
          /\ n.life = IF yc.life = "deleting" /\ ~n.fin THEN "gone" ELSE yc.life
      BY <1>2, MergeSpecFacts
    <2> HIDE DEF n
    <2>3. local.fin # base.fin /\ Exists(yc) /\ Lags(base)
      BY <1>5, <2>1, <2>2 DEF ClusterInv, ResourcesInv, WorkerInv
    <2>4. Lives["yc"] = yc.life /\ Fins["yc"] = yc.fin
      BY DEF Lives, Fins
    <2>5. CASE local.fin
      <3>1. yc'.fin = TRUE /\ yc'.life = yc.life
        BY <1>2, <2>1, <2>2, <2>3, <2>5 DEF Object
      <3>2. Lives' = Lives /\ Fins' = [Fins EXCEPT !["yc"] = TRUE]
        BY <3>1 DEF Lives, Fins
      <3>3. Finalizer!Protect("yc")
        BY <1>1, <2>3, <2>4, <3>2, SameOwned
           DEF Finalizer!Protect, Finalizer!Exists, Exists, Lives, Fins, Owned, Parts, Has
      <3>4. QED
        BY <3>3 DEF Maps
    <2>6. CASE ~local.fin
      <3>1. base.life = "deleting" /\ ~tg /\ ~bg /\ alb.st = "none"
        BY <2>1, <2>6 DEF ClusterInv, WorkerInv
      <3>2. yc.life = "deleting"
        BY <2>3, <3>1 DEF Lags, Exists
      <3>3. yc'.fin = FALSE /\ yc'.life = "gone"
        BY <1>2, <2>1, <2>2, <2>3, <2>6, <3>2 DEF Object
      <3>4. /\ Lives' = [Lives EXCEPT !["yc"] = "gone"]
            /\ Fins' = [Fins EXCEPT !["yc"] = FALSE]
        BY <3>3 DEF Lives, Fins
      <3>5. Owned["yc"] = {}
        BY <3>1 DEF Owned, Has
      <3>6. Finalizer!Finalize("yc")
        BY <1>1, <2>4, <3>2, <3>4, <3>5, SameOwned
           DEF Finalizer!Finalize, Lives, Fins, Owned, Parts, Has
      <3>7. QED
        BY <3>6 DEF Maps
    <2>7. QED
      BY <2>5, <2>6
  <1>6. QED
    BY <1>3, <1>4, <1>5

(* Every step of the controller and its environment is a step of the        *)
(* abstract specification.                                                  *)
LEMMA StepMaps ==
    ASSUME TypeOK, ClusterInv, [Next]_vars
    PROVE  Finalizer!Next
  <1>1. Maps
    <2>1. CASE \/ SetOwnerRef \/ Pause \/ Unpause \/ Timeout \/ CacheSync
               \/ Skip \/ Begin \/ Crash \/ UNCHANGED vars
      <3>1. UNCHANGED <<yc, tg, bg, alb>>
        BY <2>1 DEF SetOwnerRef, Pause, Unpause, Timeout, CacheSync, Skip, Begin, Crash,
                    Restart, vars, k8s, cloud
      <3>2. QED
        BY <3>1, SameOwned, Stutter
    <2>2. QED
      BY <2>1, UserMaps, CloudMaps, CallMaps, PatchMaps
         DEF Next, Environment, Reconcile, Calls
  <1>2. QED
    BY <1>1 DEF Finalizer!Next, Finalizer!Remember, Maps, Lives, Fins, Owned, Parts, Has

-----------------------------------------------------------------------------
(***************************************************************************)
(* The controller implements the abstract specification of a finalizer     *)
(* with no exception: each of the three resources is created while the     *)
(* YandexCluster has ClusterFinalizer in the API server, and the finalizer *)
(* is removed only when all of them are gone.                              *)
(***************************************************************************)
THEOREM Refinement == Spec => FinalizerRespected
  <1>1. Init => Finalizer!Init
    BY DEF Init, Finalizer!Init, Absent, NoBalancer
  <1>2. TypeOK /\ ClusterInv /\ [Next]_vars => [Finalizer!Next]_(Finalizer!vars)
    BY StepMaps
  <1>3. QED
    BY <1>1, <1>2, Invariance, PTL DEF Spec, FinalizerRespected, Finalizer!Spec
=============================================================================
