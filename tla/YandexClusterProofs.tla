------------------------ MODULE YandexClusterProofs ------------------------
(***************************************************************************)
(* Proofs about the YandexCluster controller, for every set of addresses,  *)
(* every bound on the faults.                                              *)
(***************************************************************************)
EXTENDS YandexCluster, TLAPS

-----------------------------------------------------------------------------
(***************************************************************************)
(* Records, patches and the moves of the worker.                           *)
(***************************************************************************)

(* The balancers that exist. *)
Balancers == [st : BalancerStatus, addr : Endpoints]

(* Setting one field of a well-typed object gives one. *)
LEMMA SetField ==
    ASSUME NEW o \in Object
    PROVE  /\ \A l \in {"live", "deleting", "gone"} : [o EXCEPT !.life = l] \in Object
           /\ \A b \in BOOLEAN : [o EXCEPT !.fin = b] \in Object
           /\ \A c \in {"True", "False"} : [o EXCEPT !.cond = c] \in Object
           /\ \A b \in BOOLEAN : [o EXCEPT !.made = b] \in Object
  BY DEF Object

(* A patch of the conditions or the status leaves life, finalizer and       *)
(* endpoint alone.                                                         *)
LEMMA MergeFacts ==
    ASSUME TypeOK, NEW o \in Object
    PROVE  /\ MergeConds(o) \in Object
           /\ MergeConds(o).life = o.life
           /\ MergeConds(o).fin = o.fin
           /\ MergeConds(o).ep = o.ep
           /\ MergeStatus(o) \in Object
           /\ MergeStatus(o).life = o.life
           /\ MergeStatus(o).fin = o.fin
           /\ MergeStatus(o).ep = o.ep
  <1>1. base \in Object /\ local \in Object
    BY DEF TypeOK
  <1> DEFINE l == Patched(local.lb, base.lb, o.lb)
             r == Patched(local.ready, base.ready, o.ready)
             c == Patched(local.cond, base.cond, o.cond)
             d == Patched(local.made, base.made, o.made)
  <1>2. l \in Endpoints \cup {Nil} /\ c \in {Nil, "True", "False"}
    BY <1>1 DEF Object, Patched
  <1>3. r \in BOOLEAN /\ d \in BOOLEAN
    BY <1>1 DEF Object, Patched
  <1>4. MergeStatus(o) = [o EXCEPT !.lb = l, !.ready = r]
    BY DEF MergeStatus
  <1>5. MergeConds(o) = [o EXCEPT !.cond = c, !.made = d]
    BY DEF MergeConds
  <1> HIDE DEF l, r, c, d
  <1>6. QED
    BY <1>2, <1>3, <1>4, <1>5 DEF Object

(* A patch of metadata and spec sets what changed; the API server drops an  *)
(* object whose deletion was requested with its last finalizer.             *)
LEMMA MergeSpecFacts ==
    ASSUME TypeOK, NEW o \in Object
    PROVE  LET n == Finalized(MergeSpec(o))
           IN  /\ n \in Object
               /\ n.fin = IF local.fin = base.fin THEN o.fin ELSE local.fin
               /\ n.ep = IF local.ep = base.ep THEN o.ep ELSE local.ep
               /\ n.ep = MergeSpec(o).ep
               /\ n.life = IF o.life = "deleting" /\ ~n.fin THEN "gone" ELSE o.life
  <1> DEFINE p == MergeSpec(o)
  <1>1. /\ p \in Object
        /\ p.life = o.life
        /\ p.fin = IF local.fin = base.fin THEN o.fin ELSE local.fin
        /\ p.ep = IF local.ep = base.ep THEN o.ep ELSE local.ep
    BY DEF TypeOK, Object, MergeSpec, Patched
  <1> HIDE DEF p
  <1>2. QED
    BY <1>1 DEF Finalized, Object, p

(* The ways a step moves on keep the worker's variables well typed. *)
LEMMA WorkerMoves ==
    ASSUME TypeOK, NEW o \in Object
    PROVE  LET WorkerType == /\ pc' \in Steps /\ base' \in Object /\ local' \in Object
                             /\ res' \in {"none", "again", "error"} /\ expired' \in BOOLEAN
           IN  /\ \A step \in Steps : Goto(step) => WorkerType
               /\ \A r \in {"none", "again", "error"} : Return(o, r) => WorkerType
               /\ Fail => WorkerType
               /\ StillDeleting => WorkerType
               /\ Rest => WorkerType
               /\ Created => WorkerType
  <1>1. /\ [local EXCEPT !.cond = "False"] \in Object
        /\ [local EXCEPT !.made = TRUE] \in Object
    BY SetField DEF TypeOK
  <1>2. Absent \in Object
    BY DEF Absent, Object
  <1>3. QED
    BY <1>1, <1>2 DEF TypeOK, Steps, Goto, Return, Fail, StillDeleting, Rest, Created

(* No step forgets a fault. *)
Remembers == \A k \in FaultKinds : spent[k] > 0 => spent'[k] > 0

(* Every step is without a fault or has one of a known kind. *)
LEMMA OneFault ==
    ASSUME [Next]_vars
    PROVE  spent' = spent \/ \E k \in FaultKinds : Fault(k)
  <1>1. CASE Environment \/ CacheSync
    BY <1>1 DEF Environment, CreateCluster, DeleteCluster, SetOwnerRef, Pause, Unpause,
           CacheSync, BalancerStarted, BalancerDeleted, BalancerLost,
           BalancerReplaced, GroupLost, Timeout, FaultKinds
  <1>2. CASE Skip \/ Begin
    BY <1>2 DEF Skip, Begin, Take, FaultKinds
  <1>3. CASE \/ ReconcileTargetGroup \/ ReconcileBackendGroup \/ ReconcileBalancer
             \/ WaitBalancer \/ IsActive \/ Describe
             \/ DeleteBalancer \/ DeleteBackendGroup \/ DeleteTargetGroup
    BY <1>3 DEF ReconcileTargetGroup, ReconcileBackendGroup, ReconcileBalancer,
           WaitBalancer, IsActive, Describe, DeleteBalancer, DeleteBackendGroup,
           DeleteTargetGroup, CallSucceeds, CallFails, FaultKinds
  <1>4. CASE PatchConds \/ PatchSpec \/ PatchStatus
    BY <1>4 DEF PatchConds, PatchSpec, PatchStatus, PatchFails, FaultKinds
  <1>5. CASE Crash \/ UNCHANGED vars
    BY <1>5 DEF Crash, FaultKinds, vars
  <1>6. QED
    BY <1>1, <1>2, <1>3, <1>4, <1>5 DEF Next, Reconcile

(* Faults are counted and never forgotten. *)
LEMMA FaultStep ==
    ASSUME TypeOK, [Next]_vars
    PROVE  spent' \in [FaultKinds -> Nat] /\ Remembers
  <1>1. spent' = spent \/ \E k \in FaultKinds : Fault(k)
    BY OneFault
  <1>2. CASE spent' = spent
    BY <1>2 DEF TypeOK, Remembers
  <1>3. CASE \E k \in FaultKinds : Fault(k)
    <2>1. PICK k \in FaultKinds : Fault(k)
      BY <1>3
    <2>2. spent' = [spent EXCEPT ![k] = @ + 1]
      BY <2>1 DEF Fault
    <2>3. QED
      BY <2>1, <2>2 DEF TypeOK, Remembers
  <1>4. QED
    BY <1>1, <1>2, <1>3

-----------------------------------------------------------------------------
(***************************************************************************)
(* Type correctness.                                                       *)
(***************************************************************************)

(* A step of users, the Cluster API, the cloud or the informer. *)
LEMMA EnvironmentType ==
    ASSUME TypeOK, Environment \/ CacheSync
    PROVE  TypeOK'
  <1>1. spent' \in [FaultKinds -> Nat]
    BY FaultStep DEF Next
  <1>2. CASE CreateCluster \/ DeleteCluster
    <2>1. yc' \in Object
      <3>1. CASE CreateCluster
        <4>1. PICK w \in Listeners, e \in Endpoints \cup {Nil} :
                 yc' = [yc EXCEPT !.life = "live", !.want = w, !.ep = e]
          BY <3>1 DEF CreateCluster
        <4>2. QED
          BY <4>1, ClusterAssumption DEF TypeOK, Object
      <3>2. CASE DeleteCluster
        BY <3>2, SetField DEF TypeOK, DeleteCluster
      <3>3. QED
        BY <1>2, <3>1, <3>2
    <2>2. QED
      BY <1>1, <1>2, <2>1 DEF TypeOK, CreateCluster, DeleteCluster, cloud, worker
  <1>3. CASE SetOwnerRef \/ Pause \/ Unpause \/ CacheSync \/ Timeout
    BY <1>1, <1>3 DEF TypeOK, SetOwnerRef, Pause, Unpause, CacheSync, Timeout,
                      k8s, cloud, worker
  <1>4. CASE BalancerStarted \/ BalancerDeleted \/ BalancerLost \/ BalancerReplaced
    <2>1. alb' \in {NoBalancer} \cup Balancers
      BY <1>4 DEF TypeOK, BalancerStarted, BalancerDeleted, BalancerLost,
                  BalancerReplaced, Balancers, BalancerStatus, NoBalancer
    <2>2. QED
      BY <1>1, <1>4, <2>1 DEF TypeOK, BalancerStarted, BalancerDeleted, BalancerLost,
                  BalancerReplaced, Balancers, k8s, worker
  <1>5. CASE GroupLost
    BY <1>1, <1>5 DEF TypeOK, GroupLost, k8s, worker
  <1>6. QED
    BY <1>2, <1>3, <1>4, <1>5 DEF Environment

(* The end of a reconcile, and a restart. *)
LEMMA RestartType ==
    ASSUME TypeOK, Restart, spent' \in [FaultKinds -> Nat]
    PROVE  TypeOK'
  <1>1. Absent \in Object
    BY DEF Absent, Object
  <1>2. queued' \in BOOLEAN
    <2>1. (yc.life \in {"live", "deleting"}) \in BOOLEAN
      OBVIOUS
    <2>2. QED
      BY <2>1 DEF Restart, Exists
  <1>3. pc' \in Steps
    BY DEF Restart, Rest, Steps
  <1>4. QED
    BY <1>1, <1>2, <1>3 DEF TypeOK, Restart, Rest, cloud

(* The worker takes a key. *)
LEMMA BeginType ==
    ASSUME TypeOK, Skip \/ Begin
    PROVE  TypeOK'
  <1>1. spent' \in [FaultKinds -> Nat]
    BY FaultStep DEF Next
  <1>2. CASE Skip
    BY <1>1, <1>2 DEF TypeOK, Skip, Take, k8s, cloud, worker
  <1>3. CASE Begin
    <2>1. [cache EXCEPT !.fin = TRUE] \in Object
      BY SetField DEF TypeOK
    <2>2. QED
      BY <1>1, <1>3, <2>1 DEF TypeOK, Begin, Take, Steps, k8s, cloud
  <1>4. QED
    BY <1>2, <1>3

(* A step of reconcile or reconcileDelete. *)
LEMMA ReconcileType ==
    ASSUME TypeOK,
           \/ ReconcileTargetGroup \/ ReconcileBackendGroup \/ ReconcileBalancer
           \/ WaitBalancer \/ IsActive \/ Describe
           \/ DeleteBalancer \/ DeleteBackendGroup \/ DeleteTargetGroup
    PROVE  TypeOK'
  <1> DEFINE WorkerType == /\ pc' \in Steps /\ base' \in Object /\ local' \in Object
                           /\ res' \in {"none", "again", "error"} /\ expired' \in BOOLEAN
  <1>1. spent' \in [FaultKinds -> Nat]
    BY FaultStep DEF Next, Reconcile
  <1>2. local \in Object
    BY DEF TypeOK
  <1>3. CASE ReconcileTargetGroup \/ ReconcileBackendGroup
    <2>1. WorkerType
      BY <1>2, <1>3, WorkerMoves DEF ReconcileTargetGroup, ReconcileBackendGroup, Steps
    <2>2. QED
      BY <1>1, <1>3, <2>1 DEF TypeOK, ReconcileTargetGroup, ReconcileBackendGroup,
                              CreateBackendGroup, k8s
  <1>4. CASE ReconcileBalancer
    <2>1. WorkerType
      BY <1>2, <1>4, WorkerMoves DEF ReconcileBalancer, Steps
    <2>2. alb' \in {NoBalancer} \cup Balancers
      BY <1>4 DEF TypeOK, ReconcileBalancer, CreateBalancer, Balancers, BalancerStatus
    <2>3. links' \subseteq {"alb", "bg"}
      BY <1>4 DEF TypeOK, ReconcileBalancer, CreateBalancer
    <2>4. QED
      BY <1>1, <1>4, <2>1, <2>2, <2>3 DEF TypeOK, ReconcileBalancer, Balancers, k8s
  <1>5. CASE WaitBalancer \/ IsActive
    <2>1. WorkerType
      BY <1>2, <1>5, WorkerMoves DEF WaitBalancer, IsActive, Steps
    <2>2. QED
      BY <1>1, <1>5, <2>1 DEF TypeOK, WaitBalancer, IsActive, k8s, cloud
  <1>6. CASE Describe
    <2>1. CASE UNCHANGED <<k8s, cloud, queued>> /\ Fail
      <3>1. WorkerType
        BY <1>2, <2>1, WorkerMoves
      <3>2. QED
        BY <1>1, <2>1, <3>1 DEF TypeOK, k8s, cloud
    <2>2. CASE /\ UNCHANGED <<k8s, cloud, queued>>
               /\ alb.st # "none"
               /\ \/ Return([local EXCEPT !.ep = alb.addr, !.lb = alb.addr,
                                          !.ready = TRUE, !.cond = "True"], "none")
                  \/ Return(local, "error")
      <3>1. alb.addr \in Endpoints
        BY <2>2 DEF TypeOK, NoBalancer
      <3>2. [local EXCEPT !.ep = alb.addr, !.lb = alb.addr,
                          !.ready = TRUE, !.cond = "True"] \in Object
        BY <1>2, <3>1 DEF Object
      <3>3. WorkerType
        BY <1>2, <2>2, <3>2, WorkerMoves
      <3>4. QED
        BY <1>1, <2>2, <3>3 DEF TypeOK, k8s, cloud
    <2>3. CASE Restart
      BY <1>1, <2>3, RestartType
    <2>4. QED
      BY <1>6, <2>1, <2>2, <2>3 DEF Describe
  <1>7. CASE DeleteBalancer
    <2>1. WorkerType
      BY <1>2, <1>7, WorkerMoves DEF DeleteBalancer, Steps
    <2>2. alb' \in {NoBalancer} \cup Balancers
      BY <1>7 DEF TypeOK, DeleteBalancer, Balancers, BalancerStatus, NoBalancer
    <2>3. QED
      BY <1>1, <1>7, <2>1, <2>2 DEF TypeOK, DeleteBalancer, Balancers, k8s
  <1>8. CASE DeleteBackendGroup \/ DeleteTargetGroup
    <2>1. [local EXCEPT !.fin = FALSE] \in Object
      BY <1>2, SetField
    <2>2. WorkerType
      BY <1>2, <1>8, <2>1, WorkerMoves DEF DeleteBackendGroup, DeleteTargetGroup, Steps
    <2>3. QED
      BY <1>1, <1>8, <2>2 DEF TypeOK, DeleteBackendGroup, DeleteTargetGroup,
                              RemoveBackendGroup, k8s
  <1>9. QED
    BY <1>3, <1>4, <1>5, <1>6, <1>7, <1>8

(* A patch. *)
LEMMA PatchType ==
    ASSUME TypeOK, PatchConds \/ PatchSpec \/ PatchStatus
    PROVE  TypeOK'
  <1>1. spent' \in [FaultKinds -> Nat]
    BY FaultStep DEF Next, Reconcile
  <1>2. yc \in Object
    BY DEF TypeOK
  <1>3. yc' \in Object
    <2>1. \/ yc' = yc
          \/ yc' = MergeConds(yc)
          \/ yc' = Finalized(MergeSpec(yc))
          \/ yc' = MergeStatus(yc)
      BY DEF PatchConds, PatchSpec, PatchStatus
    <2>2. /\ MergeConds(yc) \in Object
          /\ MergeStatus(yc) \in Object
          /\ Finalized(MergeSpec(yc)) \in Object
      BY <1>2, MergeFacts, MergeSpecFacts, Zenon
    <2>3. QED
      BY <1>2, <2>1, <2>2, Zenon
  <1>4. Absent \in Object
    BY DEF Absent, Object
  <1>5. QED
    BY <1>1, <1>3, <1>4
       DEF TypeOK, PatchConds, PatchSpec, PatchStatus, PatchError, Rest, Steps, cloud

(* Every step of the specification preserves the types. *)
LEMMA TypeStep ==
    ASSUME TypeOK, [Next]_vars
    PROVE  TypeOK'
  <1>1. CASE Crash
    BY <1>1, FaultStep, RestartType DEF Crash, Next
  <1>2. CASE UNCHANGED vars
    BY <1>2 DEF TypeOK, vars, k8s, cloud, worker
  <1>3. QED
    BY <1>1, <1>2, EnvironmentType, BeginType, ReconcileType, PatchType
       DEF Next, Reconcile

-----------------------------------------------------------------------------
(***************************************************************************)
(* The inductive invariant.                                                *)
(***************************************************************************)

(* A step that leaves the finalizers alone and moves the object's life only *)
(* as a deletion request does keeps every view a late copy of the object.  *)
LEMMA LagsStable ==
    ASSUME TypeOK, ResourcesInv, NEW view \in Object, Lags(view),
           yc'.fin = yc.fin,
           \/ yc'.life = yc.life
           \/ yc.life = "none" /\ yc'.life = "live"
           \/ yc.life = "live" /\ yc.fin /\ yc'.life = "deleting"
           \/ yc.life = "live" /\ ~yc.fin /\ yc'.life = "gone"
    PROVE  /\ view.life = "live" /\ view.fin => Exists(yc') /\ yc'.fin
           /\ view.life = "deleting" => view.fin
           /\ view.life # "none" => yc'.life # "none"
           /\ view.life \in {"deleting", "gone"} => yc'.life \in {"deleting", "gone"}
  BY DEF TypeOK, Object, Lags, Exists, ResourcesInv

(* The exceptions for faults, once they apply, apply for good. *)
LEMMA SpentStays ==
    ASSUME Remembers
    PROVE  /\ Spent({"group"}) => Spent({"group"})'
           /\ Spent({"replaced"}) => Spent({"replaced"})'
  BY DEF Remembers, Spent, FaultKinds

(* A step that leaves the resources alone keeps their order. *)
LEMMA OrderStable ==
    ASSUME Remembers, TeardownOrder, UNCHANGED <<tg, bg, alb, links>>
    PROVE  TeardownOrder'
  BY SpentStays DEF TeardownOrder

(* Users and the Cluster API. *)
LEMMA UserStep ==
    ASSUME TypeOK, ClusterInv, Remembers,
           CreateCluster \/ DeleteCluster \/ SetOwnerRef \/ Pause \/ Unpause \/ Timeout
    PROVE  ClusterInv'
  <1>1. UNCHANGED <<cache, tg, bg, alb, links, pc, base, local>>
    BY DEF CreateCluster, DeleteCluster, SetOwnerRef, Pause, Unpause, Timeout,
           k8s, cloud, worker
  <1>2. /\ yc'.fin = yc.fin
        /\ \/ yc'.life = yc.life
           \/ yc.life = "none" /\ yc'.life = "live"
           \/ yc.life = "live" /\ yc.fin /\ yc'.life = "deleting"
           \/ yc.life = "live" /\ ~yc.fin /\ yc'.life = "gone"
    BY DEF CreateCluster, DeleteCluster, SetOwnerRef, Pause, Unpause, Timeout,
           k8s, TypeOK, Object
  <1>3. ResourcesInv'
    <2>1. TeardownOrder'
      BY <1>1, OrderStable DEF ClusterInv, ResourcesInv
    <2>2. yc'.life = "none" => yc'.ep = Nil
      BY DEF ClusterInv, ResourcesInv, CreateCluster, DeleteCluster, SetOwnerRef, Pause,
             Unpause, Timeout, k8s, TypeOK, Object
    <2>3. QED
      BY <1>1, <1>2, <2>1, <2>2 DEF ClusterInv, ResourcesInv, Exists, TypeOK, Object
  <1>4. Lags(cache)'
    BY <1>1, <1>2, LagsStable DEF ClusterInv, Lags, TypeOK
  <1>5. WorkerInv'
    <2>1. pc # "idle" => Lags(base)'
      BY <1>1, <1>2, LagsStable DEF ClusterInv, WorkerInv, Lags, TypeOK
    <2>2. QED
      BY <1>1, <2>1, SpentStays DEF ClusterInv, WorkerInv
  <1>6. QED
    BY <1>3, <1>4, <1>5 DEF ClusterInv

(* The cloud, and hands in it: a balancer appears only under a live object. *)
LEMMA CloudStep ==
    ASSUME TypeOK, ClusterInv, Remembers,
           BalancerStarted \/ BalancerDeleted \/ BalancerLost \/ BalancerReplaced
    PROVE  ClusterInv'
  <1>1. UNCHANGED <<yc, cache, tg, bg, pc, base, local>>
    BY DEF BalancerStarted, BalancerDeleted, BalancerLost, BalancerReplaced, k8s, worker
  <1>2. \/ alb'.st = "none"
        \/ alb.st # "none"
        \/ yc.life = "live" /\ tg /\ bg /\ alb.st = "none"
    BY DEF BalancerStarted, BalancerDeleted, BalancerLost, BalancerReplaced, NoBalancer
  <1>3. ResourcesInv'
    <2>1. "bg" \in links => "bg" \in links'
      BY DEF BalancerStarted, BalancerDeleted, BalancerLost, BalancerReplaced
    <2>2. \/ alb'.st = "none"
          \/ alb.st # "none" /\ links' = links
          \/ tg /\ bg /\ Spent({"replaced"})'
      <3>1. CASE BalancerReplaced
        <4>1. spent' = [spent EXCEPT !["replaced"] = @ + 1] /\ "replaced" \in FaultKinds
          BY <3>1 DEF BalancerReplaced, Fault, FaultKinds
        <4>2. Spent({"replaced"})'
          BY <4>1 DEF Spent, TypeOK
        <4>3. QED
          BY <3>1, <4>2 DEF BalancerReplaced
      <3>2. QED
        BY <3>1 DEF BalancerStarted, BalancerDeleted, BalancerLost, NoBalancer
    <2>3. TeardownOrder'
      BY <1>1, <2>1, <2>2, SpentStays DEF ClusterInv, ResourcesInv, TeardownOrder
    <2>4. QED
      BY <1>1, <1>2, <2>3 DEF ClusterInv, ResourcesInv, Exists
  <1>4. Lags(cache)' /\ (pc # "idle" => Lags(base)')
    BY <1>1 DEF ClusterInv, WorkerInv, Lags
  <1>5. pc \in {"delBackend", "delTarget"} => alb'.st = "none"
    BY <1>2 DEF ClusterInv, WorkerInv, Lags, BalancerStarted, BalancerDeleted,
                BalancerLost, NoBalancer
  <1>6. pc \in {"conds", "spec"} /\ ~local.fin => alb'.st = "none"
    BY <1>2 DEF ClusterInv, WorkerInv, Lags, BalancerStarted, BalancerDeleted,
                BalancerLost, NoBalancer
  <1>7. QED
    BY <1>1, <1>3, <1>4, <1>5, <1>6, SpentStays DEF ClusterInv, WorkerInv

(* A group that somebody deletes: from then on the order is not promised. *)
LEMMA GroupStep ==
    ASSUME TypeOK, ClusterInv, Remembers, GroupLost
    PROVE  ClusterInv'
  <1>1. UNCHANGED <<yc, cache, alb, pc, base, local>>
    BY DEF GroupLost, k8s, worker
  <1>2. (tg' => tg) /\ (bg' => bg)
    BY DEF GroupLost
  <1>3. Spent({"group"})'
    <2>1. spent' = [spent EXCEPT !["group"] = @ + 1] /\ "group" \in FaultKinds
      BY DEF GroupLost, Fault, FaultKinds
    <2>2. QED
      BY <2>1 DEF Spent, TypeOK
  <1>4. ResourcesInv'
    BY <1>1, <1>2, <1>3 DEF ClusterInv, ResourcesInv, TeardownOrder
  <1>5. Lags(cache)' /\ (pc # "idle" => Lags(base)')
    BY <1>1 DEF ClusterInv, WorkerInv, Lags
  <1>6. QED
    BY <1>1, <1>2, <1>3, <1>4, <1>5 DEF ClusterInv, WorkerInv

(* The informer, and a restart of the manager. *)
LEMMA ViewStep ==
    ASSUME TypeOK, ClusterInv, Remembers, CacheSync \/ Restart
    PROVE  ClusterInv'
  <1>1. UNCHANGED <<yc, tg, bg, alb, links>> /\ cache' = yc
    BY DEF CacheSync, Restart, cloud
  <1>2. ResourcesInv'
    BY <1>1, OrderStable DEF ClusterInv, ResourcesInv
  <1>3. Lags(cache)'
    BY <1>1 DEF ClusterInv, ResourcesInv, Lags, Exists
  <1>4. CASE CacheSync
    <2>1. UNCHANGED <<pc, base, local>>
      BY <1>4 DEF CacheSync, worker
    <2>2. pc # "idle" => Lags(base)'
      BY <1>1, <2>1 DEF ClusterInv, WorkerInv, Lags
    <2>3. pc # "idle" /\ base.life = "deleting" => cache'.life \in {"deleting", "gone"}
      BY <1>1 DEF ClusterInv, WorkerInv, Lags
    <2>4. QED
      BY <1>1, <1>2, <1>3, <2>1, <2>2, <2>3, SpentStays DEF ClusterInv, WorkerInv
  <1>5. CASE Restart
    <2>1. pc' = "idle"
      BY <1>5 DEF Restart, Rest
    <2>2. QED
      BY <1>2, <1>3, <2>1 DEF ClusterInv, WorkerInv
  <1>6. QED
    BY <1>4, <1>5

(* The worker takes a key: what it works on is the cache's view. *)
LEMMA BeginStep ==
    ASSUME TypeOK, ClusterInv, Remembers, Skip \/ Begin
    PROVE  ClusterInv'
  <1>1. UNCHANGED <<yc, cache, tg, bg, alb, links>>
    BY DEF Skip, Begin, k8s, cloud
  <1>2. ResourcesInv' /\ Lags(cache)'
    BY <1>1, OrderStable DEF ClusterInv, ResourcesInv, Lags
  <1>3. CASE Skip
    BY <1>1, <1>2, <1>3, SpentStays DEF ClusterInv, WorkerInv, Lags, Skip, worker
  <1>4. CASE Begin
    <2>1. base' = cache /\ cache.life \in {"live", "deleting"}
      BY <1>4 DEF Begin, Gated, Exists
    <2>2. \/ /\ cache.life = "live" /\ pc' = "conds" /\ local'.fin
          \/ /\ cache.life = "live" /\ cache.fin /\ pc' = "target" /\ local' = cache
          \/ /\ cache.life = "deleting" /\ cache.fin /\ pc' = "delBalancer" /\ local' = cache
      BY <1>4, <2>1 DEF Begin, TypeOK, Object
    <2>3. Lags(base)'
      BY <1>2, <2>1, <1>1 DEF Lags
    <2>4. QED
      BY <1>1, <1>2, <2>1, <2>2, <2>3 DEF ClusterInv, WorkerInv
  <1>5. QED
    BY <1>3, <1>4

(* How the worker moves: where it goes, and what becomes of the finalizer   *)
(* in its copy.                                                            *)
LEMMA MoveFacts ==
    ASSUME TypeOK
    PROVE  /\ \A step \in Steps : Goto(step) =>
                 pc' = step /\ UNCHANGED <<base, local>>
           /\ Fail \/ StillDeleting =>
                 pc' = "conds" /\ base' = base /\ local'.fin = local.fin
           /\ Created => pc' = "active" /\ base' = base /\ local'.fin = local.fin
           /\ \A r : Return(local, r) => pc' = "conds" /\ UNCHANGED <<base, local>>
  BY DEF Goto, Fail, StillDeleting, Return, Created, TypeOK, Object

(* Steps of reconcile: what they create, they create under a finalizer that *)
(* the object in the API server still has, and on top of what is below it. *)
LEMMA ProvisionStep ==
    ASSUME TypeOK, ClusterInv, Remembers,
           \/ ReconcileTargetGroup \/ ReconcileBackendGroup \/ ReconcileBalancer
           \/ WaitBalancer \/ IsActive \/ Describe
    PROVE  ClusterInv'
  <1>1. CASE Restart
    BY <1>1, ViewStep
  <1>2. CASE ~Restart
    <2>1. UNCHANGED <<yc, cache>>
      BY <1>2 DEF ReconcileTargetGroup, ReconcileBackendGroup, ReconcileBalancer,
                  WaitBalancer, IsActive, Describe, k8s
    <2>2. /\ pc \in {"target", "backend", "balancer", "wait", "active", "describe"}
          /\ base.life = "live" /\ base.fin /\ local.fin
      BY DEF ReconcileTargetGroup, ReconcileBackendGroup, ReconcileBalancer,
             WaitBalancer, IsActive, Describe, ClusterInv, WorkerInv
    <2>3. Exists(yc) /\ yc.fin
      BY <2>2 DEF ClusterInv, WorkerInv, Lags
    <2>4. /\ base' = base /\ local'.fin
          /\ pc' \in {"backend", "balancer", "wait", "active", "describe", "conds"}
          /\ pc' = "backend" => tg'
          /\ pc' = "balancer" => (tg' \/ Spent({"group"})') /\ bg'
      <3>1. CASE ReconcileTargetGroup
        BY <2>2, <3>1, MoveFacts DEF ReconcileTargetGroup, Steps
      <3>2. CASE ReconcileBackendGroup
        <4>1. UNCHANGED tg /\ (tg \/ Spent({"group"}))
          BY <3>2 DEF ReconcileBackendGroup, ClusterInv, WorkerInv
        <4>2. Fail \/ (Goto("balancer") /\ bg')
          BY <3>2 DEF ReconcileBackendGroup, CreateBackendGroup
        <4>3. QED
          BY <2>2, <4>1, <4>2, MoveFacts, SpentStays DEF Steps
      <3>3. CASE ReconcileBalancer \/ WaitBalancer \/ IsActive
        BY <2>2, <3>3, MoveFacts DEF ReconcileBalancer, WaitBalancer, IsActive, Steps
      <3>4. CASE Describe
        <4>1. \/ Fail
              \/ Return(local, "error")
              \/ Return([local EXCEPT !.ep = alb.addr, !.lb = alb.addr,
                                      !.ready = TRUE, !.cond = "True"], "none")
          BY <1>2, <3>4 DEF Describe
        <4>2. [local EXCEPT !.ep = alb.addr, !.lb = alb.addr,
                            !.ready = TRUE, !.cond = "True"].fin = local.fin
          BY DEF TypeOK, Object
        <4>3. QED
          BY <2>2, <4>1, <4>2, MoveFacts DEF Return
      <3>5. QED
        BY <3>1, <3>2, <3>3, <3>4
    <2>5. TeardownOrder'
      <3>1. CASE ReconcileTargetGroup
        <4>1. UNCHANGED <<bg, alb, links>> /\ (tg => tg')
          BY <3>1 DEF ReconcileTargetGroup, TypeOK
        <4>2. QED
          BY <4>1, SpentStays DEF ClusterInv, ResourcesInv, TeardownOrder
      <3>2. CASE ReconcileBackendGroup
        <4>1. UNCHANGED <<tg, alb>>
          BY <3>2 DEF ReconcileBackendGroup
        <4>2. \/ UNCHANGED <<bg, links>>
              \/ tg /\ ~bg /\ bg' /\ links' = links \cup {"bg"}
          BY <3>2 DEF ReconcileBackendGroup, CreateBackendGroup
        <4>3. QED
          BY <4>1, <4>2, SpentStays DEF ClusterInv, ResourcesInv, TeardownOrder
      <3>3. CASE ReconcileBalancer
        <4>1. UNCHANGED <<tg, bg>>
          BY <3>3 DEF ReconcileBalancer
        <4>2. \/ UNCHANGED <<alb, links>>
              \/ bg /\ links' = links \cup {"alb"}
          BY <3>3 DEF ReconcileBalancer, CreateBalancer, Creatable
        <4>3. QED
          BY <4>1, <4>2, SpentStays DEF ClusterInv, ResourcesInv, TeardownOrder
      <3>4. CASE WaitBalancer \/ IsActive \/ Describe
        <4>1. UNCHANGED <<tg, bg, alb, links>>
          BY <1>2, <3>4 DEF WaitBalancer, IsActive, Describe, cloud
        <4>2. QED
          BY <4>1, OrderStable DEF ClusterInv, ResourcesInv
      <3>5. QED
        BY <3>1, <3>2, <3>3, <3>4
    <2>6. ResourcesInv'
      BY <2>1, <2>3, <2>5 DEF ClusterInv, ResourcesInv
    <2>7. Lags(cache)' /\ Lags(base)'
      BY <2>1, <2>2, <2>4 DEF ClusterInv, WorkerInv, Lags
    <2>8. QED
      BY <2>1, <2>2, <2>4, <2>6, <2>7, SpentStays DEF ClusterInv, WorkerInv
  <1>3. QED
    BY <1>1, <1>2

(* Steps of reconcileDelete: each resource goes only after the one above,   *)
(* and the finalizer only after the last.                                  *)
LEMMA TeardownStep ==
    ASSUME TypeOK, ClusterInv, Remembers,
           DeleteBalancer \/ DeleteBackendGroup \/ DeleteTargetGroup
    PROVE  ClusterInv'
  <1>1. UNCHANGED <<yc, cache>>
    BY DEF DeleteBalancer, DeleteBackendGroup, DeleteTargetGroup, k8s
  <1>2. base.life = "deleting" /\ local.fin
    BY DEF DeleteBalancer, DeleteBackendGroup, DeleteTargetGroup, ClusterInv, WorkerInv
  <1>3. /\ tg' => tg
        /\ bg' => bg
        /\ alb'.st # "none" => alb.st # "none"
        /\ TeardownOrder'
    <2>1. CASE DeleteBalancer
      <3>1. UNCHANGED <<tg, bg, links>> /\ (alb'.st # "none" => alb.st # "none")
        BY <2>1 DEF DeleteBalancer
      <3>2. QED
        BY <3>1, SpentStays DEF ClusterInv, ResourcesInv, TeardownOrder
    <2>2. CASE DeleteBackendGroup
      <3>1. UNCHANGED <<tg, alb>> /\ alb.st = "none"
        BY <2>2 DEF DeleteBackendGroup, ClusterInv, WorkerInv
      <3>2. bg' => bg /\ links' = links
        BY <2>2 DEF DeleteBackendGroup, RemoveBackendGroup
      <3>3. QED
        BY <3>1, <3>2, SpentStays DEF ClusterInv, ResourcesInv, TeardownOrder
    <2>3. CASE DeleteTargetGroup
      <3>1. UNCHANGED <<bg, alb>> /\ alb.st = "none" /\ ~bg
        BY <2>3 DEF DeleteTargetGroup, ClusterInv, WorkerInv
      <3>2. tg' => tg
        BY <2>3, Zenon DEF DeleteTargetGroup
      <3>3. QED
        BY <3>1, <3>2 DEF TeardownOrder
    <2>4. QED
      BY <2>1, <2>2, <2>3
  <1>4. /\ base' = base
        /\ \/ pc' = "delBackend" /\ local'.fin /\ alb'.st = "none"
           \/ pc' = "delTarget" /\ local'.fin /\ alb'.st = "none" /\ ~bg'
           \/ pc' = "conds" /\ local'.fin
           \/ pc' = "conds" /\ alb'.st = "none" /\ ~bg' /\ ~tg'
    <2>1. CASE DeleteBalancer
      BY <1>2, <2>1, MoveFacts DEF DeleteBalancer, BalancerGone, Steps
    <2>2. CASE DeleteBackendGroup
      <3>1. alb' = alb /\ alb.st = "none"
        BY <2>2 DEF DeleteBackendGroup, ClusterInv, WorkerInv
      <3>2. StillDeleting \/ Fail \/ (Goto("delTarget") /\ ~bg')
        BY <2>2 DEF DeleteBackendGroup, RemoveBackendGroup
      <3>3. QED
        BY <1>2, <3>1, <3>2, MoveFacts DEF Steps
    <2>3. CASE DeleteTargetGroup
      <3>1. UNCHANGED <<alb, bg>> /\ alb.st = "none" /\ ~bg
        BY <2>3 DEF DeleteTargetGroup, ClusterInv, WorkerInv
      <3>2. StillDeleting \/ Fail \/ (Return([local EXCEPT !.fin = FALSE], "none") /\ ~tg')
        BY <2>3 DEF DeleteTargetGroup
      <3>3. QED
        BY <1>2, <3>1, <3>2, MoveFacts DEF Return
    <2>4. QED
      BY <2>1, <2>2, <2>3
  <1>5. ResourcesInv'
    BY <1>1, <1>3 DEF ClusterInv, ResourcesInv
  <1>6. Lags(base) /\ cache.life \in {"deleting", "gone"}
    BY <1>2 DEF ClusterInv, WorkerInv, DeleteBalancer, DeleteBackendGroup, DeleteTargetGroup
  <1>7. Lags(cache)' /\ Lags(base)'
    BY <1>1, <1>4, <1>6 DEF ClusterInv, Lags
  <1>8. QED
    BY <1>1, <1>2, <1>4, <1>5, <1>6, <1>7 DEF ClusterInv, WorkerInv

(* The patches: only that of the metadata touches the finalizer.  It adds   *)
(* it to an object that is still there, or removes it when everything is   *)
(* gone and no view shows the object without a deletion timestamp.         *)
LEMMA PatchStep ==
    ASSUME TypeOK, ClusterInv, Remembers, PatchConds \/ PatchSpec \/ PatchStatus
    PROVE  ClusterInv'
  <1>1. UNCHANGED <<cache, tg, bg, alb, links>> /\ TeardownOrder'
    <2>1. UNCHANGED <<cache, tg, bg, alb, links>>
      BY DEF PatchConds, PatchSpec, PatchStatus, cloud
    <2>2. QED
      BY <2>1, OrderStable DEF ClusterInv, ResourcesInv
  <1>2. yc \in Object /\ base \in Object /\ local \in Object /\ cache \in Object
    BY DEF TypeOK
  <1>3. pc # "idle"
    BY DEF PatchConds, PatchSpec, PatchStatus
  <1>4. \/ pc = "conds" /\ pc' = "spec" /\ UNCHANGED <<base, local>>
        \/ pc = "spec" /\ pc' = "status" /\ UNCHANGED <<base, local>>
        \/ pc = "status" /\ pc' = "idle"
    BY DEF PatchConds, PatchSpec, PatchStatus, Rest
  <1>5. CASE yc'.fin = yc.fin /\ yc'.life = yc.life
    <2>1. ResourcesInv'
      BY <1>1, <1>3, <1>5 DEF ClusterInv, ResourcesInv, WorkerInv, Lags, Exists
    <2>2. Lags(cache)'
      BY <1>1, <1>5 DEF ClusterInv, Lags, Exists
    <2>3. pc' # "idle" => Lags(base)'
      BY <1>3, <1>4, <1>5 DEF ClusterInv, WorkerInv, Lags, Exists
    <2>4. QED
      BY <1>1, <1>3, <1>4, <2>1, <2>2, <2>3 DEF ClusterInv, WorkerInv
  <1>6. CASE PatchConds \/ PatchStatus
    <2>1. \/ yc' = yc
          \/ yc' = MergeConds(yc)
          \/ yc' = MergeStatus(yc)
      BY <1>6 DEF PatchConds, PatchStatus
    <2>2. /\ MergeConds(yc).fin = yc.fin /\ MergeConds(yc).life = yc.life
          /\ MergeStatus(yc).fin = yc.fin /\ MergeStatus(yc).life = yc.life
      BY <1>2, MergeFacts, Zenon
    <2>3. yc'.fin = yc.fin /\ yc'.life = yc.life
      BY <2>1, <2>2
    <2>4. QED
      BY <1>5, <2>3
  <1>7. CASE PatchSpec /\ ~(yc'.fin = yc.fin /\ yc'.life = yc.life)
    <2> DEFINE n == Finalized(MergeSpec(yc))
    <2>1. yc' = n /\ (local.fin # base.fin \/ local.ep # base.ep => Exists(yc))
      BY <1>7 DEF PatchSpec
    <2>2. /\ n.fin = IF local.fin = base.fin THEN yc.fin ELSE local.fin
          /\ n.life = IF yc.life = "deleting" /\ ~n.fin THEN "gone" ELSE yc.life
      BY <1>2, MergeSpecFacts
    <2> HIDE DEF n
    <2>3. local.fin # base.fin
      BY <1>7, <2>1, <2>2 DEF ClusterInv, ResourcesInv
    <2>4. Exists(yc) /\ Lags(base)
      BY <1>3, <2>1, <2>3 DEF ClusterInv, WorkerInv
    <2>5. pc = "spec" /\ pc' = "status" /\ UNCHANGED <<base, local>>
      BY <1>7 DEF PatchSpec
    <2>6. CASE local.fin
      <3>1. yc'.fin /\ yc'.life = yc.life
        BY <2>1, <2>2, <2>3, <2>6
      <3>2. ResourcesInv'
        BY <1>1, <2>4, <3>1 DEF ClusterInv, ResourcesInv, Exists
      <3>3. Lags(cache)' /\ Lags(base)'
        BY <1>1, <2>4, <2>5, <3>1 DEF ClusterInv, Lags, Exists
      <3>4. QED
        BY <1>1, <2>5, <3>2, <3>3 DEF ClusterInv, WorkerInv
    <2>7. CASE ~local.fin
      <3>1. /\ base.life = "deleting" /\ ~tg /\ ~bg /\ alb.st = "none"
            /\ cache.life \in {"deleting", "gone"}
        BY <2>5, <2>7 DEF ClusterInv, WorkerInv
      <3>2. yc.life = "deleting"
        BY <2>4, <3>1 DEF Lags, Exists
      <3>3. ~yc'.fin /\ yc'.life = "gone"
        BY <2>1, <2>2, <2>3, <2>7, <3>2
      <3>4. ResourcesInv'
        BY <1>1, <3>1, <3>3 DEF ResourcesInv, TeardownOrder
      <3>5. Lags(cache)' /\ Lags(base)'
        BY <1>1, <2>4, <2>5, <3>1, <3>3 DEF ClusterInv, Lags
      <3>6. QED
        BY <1>1, <2>5, <3>1, <3>4, <3>5 DEF ClusterInv, WorkerInv
    <2>8. QED
      BY <2>6, <2>7
  <1>8. QED
    BY <1>5, <1>6, <1>7

(* Every step preserves the invariant. *)
LEMMA InvStep ==
    ASSUME TypeOK, ClusterInv, [Next]_vars
    PROVE  (TypeOK /\ ClusterInv)'
  <1>1. TypeOK' /\ Remembers
    BY TypeStep, FaultStep
  <1>2. CASE UNCHANGED vars
    <2>1. ClusterInv'
      BY <1>2 DEF vars, k8s, cloud, worker, ClusterInv, ResourcesInv, TeardownOrder,
                  Lags, WorkerInv, Spent, Exists
    <2>2. QED
      BY <1>1, <2>1
  <1>3. CASE Next
    <2>1. ClusterInv'
      BY <1>1, <1>3, UserStep, CloudStep, GroupStep, ViewStep, BeginStep, ProvisionStep,
         TeardownStep, PatchStep DEF Next, Environment, Reconcile, Crash
    <2>2. QED
      BY <1>1, <2>1
  <1>4. QED
    BY <1>2, <1>3

-----------------------------------------------------------------------------
(***************************************************************************)
(* The theorems.                                                           *)
(***************************************************************************)

(* It holds initially. *)
LEMMA InvInit ==
    ASSUME Init
    PROVE  TypeOK /\ ClusterInv
  <1>1. TypeOK
    <2>1. Absent \in Object
      BY DEF Absent, Object
    <2>2. "idle" \in Steps /\ [k \in FaultKinds |-> 0] \in [FaultKinds -> Nat]
      BY DEF Steps
    <2>3. QED
      BY <2>1, <2>2, Zenon DEF Init, TypeOK
  <1>2. ClusterInv
    BY DEF Init, ClusterInv, ResourcesInv, TeardownOrder, Lags, WorkerInv,
           Exists, Absent, NoBalancer
  <1>3. QED
    BY <1>1, <1>2

(***************************************************************************)
(* Every behaviour of the controller keeps the inductive invariant.        *)
(***************************************************************************)
THEOREM Invariance == Spec => [](TypeOK /\ ClusterInv)
  <1>1. Init => TypeOK /\ ClusterInv
    BY InvInit
  <1>2. TypeOK /\ ClusterInv /\ [Next]_vars => (TypeOK /\ ClusterInv)'
    BY InvStep
  <1>3. QED
    BY <1>1, <1>2, PTL DEF Spec

(***************************************************************************)
(* The types.                                                              *)
(***************************************************************************)
THEOREM TypeCorrect == Spec => []TypeOK
  BY Invariance, PTL

(***************************************************************************)
(* ClusterFinalizer keeps its promise whatever fails: a YandexCluster that *)
(* is gone leaves no target group, backend group or balancer.              *)
(***************************************************************************)
THEOREM FinalizerPromise == Spec => []NothingLeft
  <1>1. ClusterInv => NothingLeft
    BY DEF ClusterInv, ResourcesInv, NothingLeft
  <1>2. QED
    BY <1>1, Invariance, PTL

(***************************************************************************)
(* deleteALBService and reconcileALBService keep the balancer above the    *)
(* backend group and the backend group above the target group.             *)
(***************************************************************************)
THEOREM OrderKept == Spec => []TeardownOrder
  <1>1. ClusterInv => TeardownOrder
    BY DEF ClusterInv, ResourcesInv
  <1>2. QED
    BY <1>1, Invariance, PTL

-----------------------------------------------------------------------------
(***************************************************************************)
(* The endpoint.                                                           *)
(***************************************************************************)

(* The fields the endpoint is about. *)
SameEndpoint(o, n) == n.want = o.want /\ n.ep = o.ep /\ n.lb = o.lb /\ n.ready = o.ready

(* A fault, once it has happened, has happened for good. *)
LEMMA SpentGrows ==
    ASSUME TypeOK, [Next]_vars, NEW K \in SUBSET FaultKinds
    PROVE  Spent(K) => Spent(K)'
  BY FaultStep DEF Remembers, Spent

(* What the patches do to these fields. *)
LEMMA PatchedEndpoint ==
    ASSUME TypeOK, NEW o \in Object
    PROVE  /\ SameEndpoint(o, MergeConds(o))
           /\ LET n == Finalized(MergeSpec(o))
              IN  /\ n.want = o.want /\ n.lb = o.lb /\ n.ready = o.ready
                  /\ n.ep = IF local.ep = base.ep THEN o.ep ELSE local.ep
           /\ LET n == MergeStatus(o)
              IN  /\ n.want = o.want /\ n.ep = o.ep /\ n.life = o.life
                  /\ n.lb = IF local.lb = base.lb THEN o.lb ELSE local.lb
                  /\ n.ready = IF local.ready = base.ready THEN o.ready ELSE local.ready
  <1>1. SameEndpoint(o, MergeConds(o))
    BY DEF Object, MergeConds, SameEndpoint
  <1>2. LET n == Finalized(MergeSpec(o))
        IN  n.want = o.want /\ n.lb = o.lb /\ n.ready = o.ready
    BY DEF Object, MergeSpec, Finalized
  <1>3. LET n == MergeStatus(o)
        IN  /\ n.want = o.want
            /\ n.lb = IF local.lb = base.lb THEN o.lb ELSE local.lb
            /\ n.ready = IF local.ready = base.ready THEN o.ready ELSE local.ready
    BY DEF Object, MergeStatus, Patched
  <1>4. QED
    BY <1>1, <1>2, <1>3, MergeFacts, MergeSpecFacts

(* A step outside the worker: a balancer it leaves keeps its address. *)
Outside ==
    \/ SetOwnerRef \/ Pause \/ Unpause \/ BalancerStarted \/ BalancerDeleted
    \/ BalancerLost \/ BalancerReplaced \/ GroupLost \/ Timeout \/ CacheSync \/ Skip
    \/ UNCHANGED vars

LEMMA OutsideFacts ==
    ASSUME TypeOK, Outside
    PROVE  /\ UNCHANGED <<yc, pc, base, local>>
           /\ expired => expired'
           /\ \/ alb'.st = "none"
              \/ alb.st # "none" /\ alb'.addr = alb.addr
              \/ Spent({"replaced"})'
  <1>1. UNCHANGED <<yc, pc, base, local>> /\ (expired => expired')
    BY DEF Outside, SetOwnerRef, Pause, Unpause, BalancerStarted, BalancerDeleted,
           BalancerLost, BalancerReplaced, GroupLost, Timeout, CacheSync, Skip,
           vars, k8s, worker
  <1>2. CASE alb' = alb
    BY <1>1, <1>2
  <1>3. CASE BalancerStarted \/ BalancerDeleted \/ BalancerLost
    BY <1>1, <1>3 DEF TypeOK, BalancerStarted, BalancerDeleted, BalancerLost, NoBalancer
  <1>4. CASE BalancerReplaced
    <2>1. spent' = [spent EXCEPT !["replaced"] = @ + 1] /\ "replaced" \in FaultKinds
      BY <1>4 DEF BalancerReplaced, Fault, FaultKinds
    <2>2. Spent({"replaced"})'
      BY <2>1 DEF Spent, TypeOK
    <2>3. QED
      BY <1>1, <2>2
  <1>5. alb' = alb \/ BalancerStarted \/ BalancerDeleted \/ BalancerLost \/ BalancerReplaced
    BY DEF Outside, SetOwnerRef, Pause, Unpause, GroupLost, Timeout, CacheSync, Skip,
           vars, cloud
  <1>6. QED
    BY <1>1, <1>2, <1>3, <1>4, <1>5

(* The calls to the cloud, up to Describe, and those of reconcileDelete.    *)
Calls ==
    \/ ReconcileTargetGroup \/ ReconcileBackendGroup \/ ReconcileBalancer
    \/ WaitBalancer \/ IsActive
    \/ DeleteBalancer \/ DeleteBackendGroup \/ DeleteTargetGroup

(* They find out nothing about the endpoint, and a balancer that they make  *)
(* has the address that the cluster's endpoint does not contradict.         *)
LEMMA CallFacts ==
    ASSUME TypeOK, Calls
    PROVE  /\ yc' = yc /\ base' = base /\ SameEndpoint(local, local')
           /\ pc \notin {"idle", "conds", "spec", "status"}
           /\ pc' \notin {"idle", "spec", "status"}
           /\ \/ alb' = alb
              \/ alb'.addr = alb.addr /\ alb.st # "none"
              \/ /\ local.ep = Nil \/ local.want # Nil
                 /\ local.want # Nil => alb'.addr = local.want
                 /\ alb.st = "none"
  <1>1. local \in Object
    BY DEF TypeOK
  <1>2. /\ SameEndpoint(local, [local EXCEPT !.cond = "False"])
        /\ SameEndpoint(local, [local EXCEPT !.made = TRUE])
        /\ SameEndpoint(local, [local EXCEPT !.fin = FALSE])
        /\ SameEndpoint(local, local)
    BY <1>1 DEF Object, SameEndpoint
  <1>3. /\ yc' = yc
        /\ pc \notin {"idle", "conds", "spec", "status"}
    BY DEF Calls, ReconcileTargetGroup, ReconcileBackendGroup, ReconcileBalancer, WaitBalancer,
           IsActive, DeleteBalancer, DeleteBackendGroup, DeleteTargetGroup, k8s
  <1>4. /\ base' = base /\ SameEndpoint(local, local')
        /\ pc' \notin {"idle", "spec", "status"}
    BY <1>2
       DEF Calls, ReconcileTargetGroup, ReconcileBackendGroup, ReconcileBalancer, WaitBalancer,
           IsActive, DeleteBalancer, DeleteBackendGroup, DeleteTargetGroup,
           Goto, Created, Fail, StillDeleting, Return
  <1>5. CASE ReconcileBalancer
    <2>1. \/ alb' = alb
          \/ Creatable /\ CreateBalancer
      BY <1>5 DEF ReconcileBalancer
    <2>2. CASE Creatable /\ CreateBalancer
      <3>1. PICK a \in Endpoints : /\ local.want # Nil => a = local.want
                                   /\ alb' = [st |-> "CREATING", addr |-> a]
        BY <2>2 DEF CreateBalancer
      <3>2. alb.st = "none" /\ (local.ep = Nil \/ local.want # Nil)
        BY <2>2 DEF Creatable, Unrecoverable
      <3>3. QED
        BY <1>3, <1>4, <3>1, <3>2
    <2>3. QED
      BY <1>3, <1>4, <2>1, <2>2
  <1>6. CASE ~ReconcileBalancer
    <2>1. alb' = alb \/ (alb'.addr = alb.addr /\ alb.st # "none")
      BY <1>6 DEF Calls, ReconcileTargetGroup, ReconcileBackendGroup, WaitBalancer, IsActive,
                  DeleteBalancer, DeleteBackendGroup, DeleteTargetGroup, cloud, TypeOK, NoBalancer
    <2>2. QED
      BY <1>3, <1>4, <2>1
  <1>7. QED
    BY <1>5, <1>6

(* EndpointInv is preserved by every step. *)
LEMMA EndpointStep ==
    ASSUME TypeOK, ClusterInv, EndpointInv, [Next]_vars
    PROVE  EndpointInv'
  <1> SUFFICES ASSUME ~Spent({"stale"})'
               PROVE  SnapshotInv' /\ ReachInv' /\ ReadyInv'
    BY DEF EndpointInv
  <1>1. SnapshotInv /\ ReachInv /\ ReadyInv
    <2>1. ~Spent({"stale"})
      BY SpentGrows DEF FaultKinds
    <2>2. QED
      BY <2>1 DEF EndpointInv
  <1>2. /\ Spent({"replaced", "preset"}) => Spent({"replaced", "preset"})'
        /\ Spent({"patch"}) => Spent({"patch"})'
    BY SpentGrows DEF FaultKinds
  <1>3. yc \in Object /\ base \in Object /\ local \in Object /\ cache \in Object
    BY DEF TypeOK
  <1>4. CASE Outside
    <2>1. /\ UNCHANGED <<yc, pc, base, local>> /\ (expired => expired')
          /\ \/ alb'.st = "none"
             \/ alb.st # "none" /\ alb'.addr = alb.addr
             \/ Spent({"replaced", "preset"})'
      BY <1>4, OutsideFacts DEF Spent
    <2>2. SnapshotInv'
      BY <1>1, <2>1 DEF SnapshotInv, Noted
    <2>3. ReachInv'
      BY <1>1, <1>2, <2>1 DEF ReachInv
    <2>4. ReadyInv'
      BY <1>1, <1>2, <2>1 DEF ReadyInv
    <2>5. QED
      BY <2>2, <2>3, <2>4
  <1>5. CASE CreateCluster
    <2>1. yc.life = "none" /\ yc.ep = Nil /\ alb.st = "none" /\ pc = "idle"
      BY <1>5 DEF CreateCluster, ClusterInv, ResourcesInv, WorkerInv, Lags, Exists
    <2>2. UNCHANGED <<alb, pc>>
      BY <1>5 DEF CreateCluster, cloud, worker
    <2>3. PICK w \in Listeners, e \in Endpoints \cup {Nil} :
             /\ yc' = [yc EXCEPT !.life = "live", !.want = w, !.ep = e]
             /\ e # Nil => Fault("preset")
      BY <1>5 DEF CreateCluster
    <2>4. yc'.ep = e /\ yc'.lb = yc.lb /\ yc'.ready = yc.ready
      BY <1>3, <2>3 DEF Object
    <2>5. e # Nil => Spent({"replaced", "preset"})'
      BY <2>3 DEF Fault, Spent, FaultKinds, TypeOK
    <2>6. SnapshotInv'
      BY <2>1, <2>2 DEF SnapshotInv
    <2>7. ReachInv'
      BY <2>1, <2>2, <2>4, <2>5 DEF ReachInv
    <2>8. ReadyInv'
      BY <1>1, <1>2, <2>1, <2>2, <2>4 DEF ReadyInv
    <2>9. QED
      BY <2>6, <2>7, <2>8
  <1>6. CASE DeleteCluster
    <2>1. UNCHANGED <<alb, pc, base, local, expired>> /\ Exists(yc)
      BY <1>6 DEF DeleteCluster, cloud, worker, Exists
    <2>2. SameEndpoint(yc, yc')
      BY <1>3, <1>6 DEF DeleteCluster, Object, SameEndpoint
    <2>3. SnapshotInv'
      BY <1>1, <2>1, <2>2 DEF SnapshotInv, Noted, SameEndpoint
    <2>4. ReachInv'
      BY <1>1, <1>2, <2>1, <2>2 DEF ReachInv, SameEndpoint
    <2>5. ReadyInv'
      BY <1>1, <1>2, <2>1, <2>2 DEF ReadyInv, SameEndpoint
    <2>6. QED
      BY <2>3, <2>4, <2>5
  <1>7. CASE Restart
    <2>1. UNCHANGED <<yc, alb>> /\ pc' = "idle"
      BY <1>7 DEF Restart, Rest, cloud
    <2>2. QED
      BY <1>1, <1>2, <2>1 DEF SnapshotInv, ReachInv, ReadyInv
  <1>8. CASE Begin
    <2>1. UNCHANGED <<yc, alb>> /\ base' = cache /\ pc' # "status"
      BY <1>8 DEF Begin, k8s, cloud
    <2>2. cache = yc
      BY <1>8 DEF Begin, Take, Fault, Spent, FaultKinds, TypeOK
    <2>3. SameEndpoint(cache, local')
      BY <1>3, <1>8 DEF Begin, Object, SameEndpoint
    <2>4. SnapshotInv'
      BY <2>1, <2>2, <2>3 DEF SnapshotInv, Noted, SameEndpoint
    <2>5. ReachInv' /\ ReadyInv'
      BY <1>1, <1>2, <2>1, <2>2, <2>3 DEF ReachInv, ReadyInv, SameEndpoint
    <2>6. QED
      BY <2>4, <2>5
  <1>9. CASE Calls
    <2>1. /\ yc' = yc /\ base' = base /\ SameEndpoint(local, local')
          /\ pc \notin {"idle", "conds", "spec", "status"}
          /\ pc' \notin {"idle", "spec", "status"}
          /\ \/ alb' = alb
             \/ alb'.addr = alb.addr /\ alb.st # "none"
             \/ /\ local.ep = Nil \/ local.want # Nil
                /\ local.want # Nil => alb'.addr = local.want
                /\ alb.st = "none"
      BY <1>9, CallFacts
    <2>2. /\ ~Noted /\ local.want = yc.want /\ yc.ep = base.ep
      BY <1>1, <2>1 DEF SnapshotInv
    <2>3. SnapshotInv'
      BY <1>1, <2>1, <2>2 DEF SnapshotInv, Noted, SameEndpoint
    <2>4. ReachInv'
      BY <1>1, <1>2, <2>1, <2>2 DEF ReachInv, Noted, SameEndpoint
    <2>5. ReadyInv'
      BY <1>1, <1>2, <2>1 DEF ReadyInv
    <2>6. QED
      BY <2>3, <2>4, <2>5
  <1>10. CASE Describe /\ ~Restart
    <2>1. UNCHANGED <<yc, alb, base>> /\ pc = "describe" /\ pc' = "conds"
      BY <1>10 DEF Describe, Return, Fail, k8s, cloud
    <2>2. ~Noted /\ local.want = yc.want /\ yc.ep = base.ep
      BY <1>1, <2>1 DEF SnapshotInv
    <2>3. CASE SameEndpoint(local, local')
      <3>1. SnapshotInv'
        BY <1>1, <2>1, <2>2, <2>3 DEF SnapshotInv, Noted, SameEndpoint
      <3>2. ReachInv' /\ ReadyInv'
        BY <1>1, <1>2, <2>1, <2>2, <2>3 DEF ReachInv, ReadyInv, Noted, SameEndpoint
      <3>3. QED
        BY <3>1, <3>2
    <2>4. CASE /\ alb.st # "none" /\ local.ep \in {Nil, alb.addr}
               /\ local' = [local EXCEPT !.ep = alb.addr, !.lb = alb.addr,
                                         !.ready = TRUE, !.cond = "True"]
      <3>1. /\ local'.want = local.want /\ local'.ep = alb.addr
            /\ local'.lb = alb.addr /\ local'.ready
        BY <1>3, <2>4 DEF Object
      <3>2. alb.addr # Nil
        BY <2>4, ClusterAssumption DEF TypeOK, NoBalancer
      <3>3. SnapshotInv'
        BY <1>1, <2>1, <2>2, <2>4, <3>1, <3>2 DEF SnapshotInv, Noted
      <3>4. ReachInv' /\ ReadyInv'
        BY <1>1, <1>2, <2>1, <2>2, <2>4, <3>1 DEF ReachInv, ReadyInv
      <3>5. QED
        BY <3>3, <3>4
    <2>5. \/ Fail \/ Return(local, "error")
          \/ /\ alb.st # "none" /\ local.ep \in {Nil, alb.addr}
             /\ local' = [local EXCEPT !.ep = alb.addr, !.lb = alb.addr,
                                       !.ready = TRUE, !.cond = "True"]
      BY <1>10 DEF Describe, Return
    <2>6. Fail \/ Return(local, "error") => SameEndpoint(local, local')
      BY <1>3 DEF Fail, Return, SameEndpoint, Object
    <2>7. QED
      BY <2>3, <2>4, <2>5, <2>6
  <1>11. CASE PatchConds
    <2>1. UNCHANGED <<alb, base, local, expired>> /\ pc = "conds" /\ pc' = "spec"
      BY <1>11 DEF PatchConds, cloud
    <2>2. SameEndpoint(yc, yc')
      <3>1. yc' = yc \/ yc' = MergeConds(yc)
        BY <1>11 DEF PatchConds
      <3>2. QED
        BY <1>3, <3>1, PatchedEndpoint DEF SameEndpoint
    <2>3. SnapshotInv'
      BY <1>1, <2>1, <2>2 DEF SnapshotInv, Noted, SameEndpoint
    <2>4. ReachInv' /\ ReadyInv'
      BY <1>1, <1>2, <2>1, <2>2 DEF ReachInv, ReadyInv, SameEndpoint
    <2>5. QED
      BY <2>3, <2>4
  <1>12. CASE PatchSpec
    <2>1. UNCHANGED <<alb, base, local, expired>> /\ pc = "spec" /\ pc' = "status"
      BY <1>12 DEF PatchSpec, cloud
    <2>2. /\ base.want = yc.want /\ local.want = yc.want
          /\ yc.ready = base.ready /\ yc.lb = base.lb /\ yc.ep = base.ep
          /\ Noted => /\ local.ready /\ local.ep # Nil /\ local.lb = local.ep
                      /\ base.ep \in {Nil, local.ep}
      BY <1>1, <2>1 DEF SnapshotInv
    <2>3. CASE yc' = Finalized(MergeSpec(yc))
      <3>1. yc'.want = yc.want /\ yc'.lb = yc.lb /\ yc'.ready = yc.ready /\ yc'.ep = local.ep
        BY <1>3, <2>2, <2>3, PatchedEndpoint
      <3>2. SnapshotInv'
        BY <2>1, <2>2, <3>1 DEF SnapshotInv, Noted
      <3>3. ReachInv'
        BY <1>1, <1>2, <2>1, <2>2, <3>1 DEF ReachInv
      <3>4. ReadyInv'
        BY <1>1, <1>2, <2>1, <2>2, <3>1 DEF ReadyInv, Noted
      <3>5. QED
        BY <3>2, <3>3, <3>4
    <2>4. CASE /\ yc' = yc
               /\ PatchFails \/ ~Admitted(yc, MergeSpec(yc))
      <3>1. Admitted(yc, MergeSpec(yc))
        <4>1. MergeSpec(yc).ep = local.ep
          BY <1>3, <2>2, MergeSpecFacts
        <4>2. QED
          BY <2>2, <4>1 DEF Admitted, Noted
      <3>2. expired \/ ~Exists(yc) \/ Spent({"patch"})'
        <4>1. Fault("patch") => Spent({"patch"})'
          BY DEF Fault, Spent, FaultKinds, TypeOK
        <4>2. QED
          BY <2>4, <3>1, <4>1 DEF PatchFails
      <3>3. SnapshotInv'
        BY <2>1, <2>2, <2>4 DEF SnapshotInv, Noted
      <3>4. ReachInv'
        BY <1>1, <1>2, <2>1, <2>4 DEF ReachInv
      <3>5. ReadyInv'
        BY <1>1, <1>2, <2>1, <2>4, <3>2 DEF ReadyInv
      <3>6. QED
        BY <3>3, <3>4, <3>5
    <2>5. QED
      BY <1>12, <2>3, <2>4 DEF PatchSpec
  <1>13. CASE PatchStatus
    <2>1. UNCHANGED alb /\ pc = "status" /\ pc' = "idle"
      BY <1>13 DEF PatchStatus, Rest, cloud
    <2>2. SnapshotInv'
      BY <2>1 DEF SnapshotInv
    <2>3. /\ yc'.want = yc.want /\ yc'.ep = yc.ep
          /\ \/ yc'.lb = yc.lb /\ yc'.ready = yc.ready
             \/ /\ ~expired /\ Exists(yc) /\ Noted
                /\ yc'.lb = IF local.lb = base.lb THEN yc.lb ELSE local.lb
                /\ yc'.ready = IF local.ready = base.ready THEN yc.ready ELSE local.ready
      <3>1. CASE yc' = yc
        BY <3>1
      <3>2. CASE /\ MergeStatus(base) # base => ~expired /\ Exists(yc)
                 /\ yc' = MergeStatus(yc)
        <4>1. MergeStatus(base) = base => local.lb = base.lb /\ local.ready = base.ready
          BY <1>3, PatchedEndpoint
        <4>2. QED
          BY <1>3, <3>2, <4>1, PatchedEndpoint DEF Noted
      <3>3. QED
        BY <1>13, <3>1, <3>2 DEF PatchStatus
    <2>4. ReachInv'
      BY <1>1, <1>2, <2>1, <2>3 DEF ReachInv
    <2>5. ReadyInv'
      <3> SUFFICES ASSUME ~Spent({"patch"})', yc'.ready
                   PROVE  yc'.ep # Nil /\ yc'.lb = yc'.ep
        BY <2>1 DEF ReadyInv
      <3>1. /\ yc.ready => yc.ep # Nil /\ yc.lb = yc.ep
            /\ yc.ep = local.ep \/ expired \/ ~Exists(yc)
        BY <1>1, <1>2, <2>1 DEF ReadyInv
      <3>2. /\ yc.ready = base.ready /\ yc.lb = base.lb
            /\ Noted => local.ready /\ local.ep # Nil /\ local.lb = local.ep
        BY <1>1, <2>1 DEF SnapshotInv
      <3>3. QED
        BY <2>3, <3>1, <3>2
    <2>6. QED
      BY <2>2, <2>4, <2>5
  <1>14. QED
    BY <1>4, <1>5, <1>6, <1>7, <1>8, <1>9, <1>10, <1>11, <1>12, <1>13
       DEF Next, Environment, Reconcile, Crash, Outside, Calls

(***************************************************************************)
(* EndpointInv holds of every behaviour.                                   *)
(***************************************************************************)
THEOREM EndpointKept == Spec => []EndpointInv
  <1>1. Init => EndpointInv
    BY DEF Init, EndpointInv, SnapshotInv, ReachInv, ReadyInv, Absent, NoBalancer
  <1>2. TypeOK /\ ClusterInv /\ EndpointInv /\ [Next]_vars => EndpointInv'
    BY EndpointStep
  <1>3. QED
    BY <1>1, <1>2, Invariance, PTL DEF Spec

(***************************************************************************)
(* reconcileALB never puts a balancer under another address than the       *)
(* endpoint that clients already use, whatever is lost, fails, times out   *)
(* or crashes.                                                             *)
(***************************************************************************)
THEOREM Reachable == Spec => []EndpointReachable
  <1>1. EndpointInv => EndpointReachable
    BY DEF EndpointInv, ReachInv, EndpointReachable, Spent
  <1>2. QED
    BY <1>1, EndpointKept, PTL

-----------------------------------------------------------------------------
(***************************************************************************)
(* The balancer of a Ready cluster.                                        *)
(***************************************************************************)

(* Some view has the cluster Ready, or is about to. *)
Shown == yc.ready \/ cache.ready \/ base.ready \/ local.ready \/ pc = "describe"

(* A fault is a fault of its kind. *)
LEMMA FaultSpent ==
    ASSUME TypeOK, NEW k \in FaultKinds, Fault(k), NEW K \in SUBSET FaultKinds, k \in K
    PROVE  Spent(K)'
  BY DEF TypeOK, Fault, Spent

(* What an active balancer may become without the faults of its kind.  Only *)
(* a reconcile of a deleted object stops it.                                *)
LEMMA StaysActive ==
    ASSUME TypeOK, [Next]_vars, alb.st = "ACTIVE", pc # "delBalancer",
           ~Spent({"lost", "replaced"})'
    PROVE  alb'.st = "ACTIVE"
  <1>1. CASE BalancerLost \/ BalancerReplaced
    BY <1>1, FaultSpent DEF BalancerLost, BalancerReplaced, FaultKinds
  <1>2. CASE ReconcileBalancer
    BY <1>2 DEF ReconcileBalancer, Creatable
  <1>3. CASE ~(BalancerLost \/ BalancerReplaced \/ ReconcileBalancer)
    <2>1. alb' = alb
      BY <1>3 DEF Next, Environment, Reconcile, CreateCluster, DeleteCluster, SetOwnerRef,
             Pause, Unpause, CacheSync, BalancerStarted, BalancerDeleted, GroupLost, Timeout,
             Skip, Begin, ReconcileTargetGroup, ReconcileBackendGroup, WaitBalancer, IsActive,
             Describe, DeleteBalancer, DeleteBackendGroup, DeleteTargetGroup, PatchConds,
             PatchSpec, PatchStatus, Crash, Restart, vars, cloud
    <2>2. QED
      BY <2>1
  <1>4. QED
    BY <1>1, <1>2, <1>3

(* What a patch may do to the object. *)
LEMMA PatchReady ==
    ASSUME TypeOK, PatchConds \/ PatchSpec \/ PatchStatus
    PROVE  /\ pc \notin {"idle", "describe", "delBalancer"} /\ pc' # "describe"
           /\ cache' = cache
           /\ yc'.ready \in {yc.ready, local.ready}
           /\ yc'.life = yc.life \/ yc.life = "deleting"
           /\ \/ base' = base /\ local' = local /\ pc' # "idle"
              \/ ~base'.ready /\ ~local'.ready
  <1>1. yc \in Object /\ base \in Object /\ local \in Object
    BY DEF TypeOK
  <1>2. /\ yc'.ready \in {yc.ready, local.ready}
        /\ yc'.life = yc.life \/ yc.life = "deleting"
    <2>1. \/ yc' = yc \/ yc' = MergeConds(yc) \/ yc' = MergeStatus(yc)
          \/ yc' = Finalized(MergeSpec(yc))
      BY DEF PatchConds, PatchSpec, PatchStatus
    <2>2. MergeConds(yc).ready = yc.ready /\ MergeConds(yc).life = yc.life
      BY <1>1, PatchedEndpoint, MergeFacts DEF SameEndpoint
    <2>3. /\ MergeStatus(yc).ready \in {yc.ready, local.ready}
          /\ MergeStatus(yc).life = yc.life
      BY <1>1, PatchedEndpoint
    <2>4. /\ Finalized(MergeSpec(yc)).ready = yc.ready
          /\ Finalized(MergeSpec(yc)).life = yc.life \/ yc.life = "deleting"
      BY <1>1, PatchedEndpoint, MergeSpecFacts
    <2>5. QED
      BY <2>1, <2>2, <2>3, <2>4
  <1>3. /\ pc \notin {"idle", "describe", "delBalancer"} /\ pc' # "describe"
        /\ cache' = cache
    BY DEF PatchConds, PatchSpec, PatchStatus, Rest
  <1>4. \/ base' = base /\ local' = local /\ pc' # "idle"
        \/ ~base'.ready /\ ~local'.ready
    BY DEF PatchConds, PatchSpec, PatchStatus, Rest, Absent
  <1>5. QED
    BY <1>2, <1>3, <1>4

(* ActiveInv is preserved by every step. *)
LEMMA ActiveStep ==
    ASSUME TypeOK, ClusterInv, ActiveInv, [Next]_vars
    PROVE  ActiveInv'
  <1>1. /\ yc.life = "none" => ~yc.ready /\ ~cache.ready
        /\ pc = "idle" => ~base.ready /\ ~local.ready
        /\ ~Spent({"lost", "replaced"}) /\ yc.life = "live" => (Shown => alb.st = "ACTIVE")
    BY DEF ActiveInv, Shown
  <1>2. Spent({"lost", "replaced"}) => Spent({"lost", "replaced"})'
    BY SpentGrows DEF FaultKinds
  <1>3. pc # "idle" => yc.life # "none"
    BY DEF ClusterInv, WorkerInv, Lags
  <1>4. pc = "delBalancer" => yc.life \in {"deleting", "gone"}
    BY DEF ClusterInv, WorkerInv, Lags
  <1>5. yc \in Object /\ local \in Object /\ cache \in Object
    BY DEF TypeOK
  <1> SUFFICES
         /\ yc'.life = "none" => ~yc'.ready /\ ~cache'.ready
         /\ pc' = "idle" => ~base'.ready /\ ~local'.ready
         /\ ~Spent({"lost", "replaced"})' /\ yc'.life = "live" /\ Shown' => alb'.st = "ACTIVE"
    BY DEF ActiveInv, Shown
  <1> DEFINE Known == /\ yc'.life = "live" => yc.life = "live"
                      /\ yc'.life = "none" => yc.life = "none"
  <1>6. ASSUME Known, Shown' => Shown
        PROVE  ~Spent({"lost", "replaced"})' /\ yc'.life = "live" /\ Shown' => alb'.st = "ACTIVE"
    BY <1>1, <1>2, <1>4, <1>6, StaysActive
  <1>7. CASE Outside
    <2>1. UNCHANGED <<yc, pc, base, local>>
      BY <1>7, OutsideFacts
    <2>2. cache' \in {cache, yc}
      BY <1>7 DEF Outside, SetOwnerRef, Pause, Unpause, BalancerStarted, BalancerDeleted,
             BalancerLost, BalancerReplaced, GroupLost, Timeout, CacheSync, Skip, vars, k8s
    <2>3. Shown' => Shown
      BY <2>1, <2>2 DEF Shown
    <2>4. QED
      BY <1>1, <1>6, <2>1, <2>2, <2>3
  <1>8. CASE CreateCluster
    <2>1. UNCHANGED <<cache, pc, base, local>> /\ yc.life = "none"
      BY <1>8 DEF CreateCluster, worker
    <2>2. yc'.ready = yc.ready /\ yc'.life = "live"
      BY <1>5, <1>8 DEF CreateCluster, Object
    <2>3. pc = "idle"
      BY <1>3, <2>1
    <2>4. ~Shown'
      BY <1>1, <2>1, <2>2, <2>3 DEF Shown
    <2>5. QED
      BY <1>1, <2>1, <2>2, <2>4
  <1>9. CASE DeleteCluster
    <2>1. UNCHANGED <<pc, base, local>>
      BY <1>9 DEF DeleteCluster, worker
    <2>2. yc'.life \in {"deleting", "gone"}
      BY <1>5, <1>9 DEF DeleteCluster, Object
    <2>3. QED
      BY <1>1, <2>1, <2>2
  <1>10. CASE Restart
    <2>1. /\ yc' = yc /\ cache' = yc /\ pc' = "idle"
          /\ ~base'.ready /\ ~local'.ready
      BY <1>10 DEF Restart, Rest, Absent
    <2>2. Shown' => Shown
      BY <2>1 DEF Shown
    <2>3. QED
      BY <1>1, <1>6, <2>1, <2>2
  <1>11. CASE Begin
    <2>1. /\ UNCHANGED <<yc, cache>> /\ base' = cache
          /\ pc' \notin {"idle", "describe"}
      BY <1>11 DEF Begin, k8s
    <2>2. local'.ready = cache.ready
      BY <1>5, <1>11 DEF Begin, Object
    <2>3. Shown' => Shown
      BY <2>1, <2>2 DEF Shown
    <2>4. QED
      BY <1>1, <1>6, <2>1, <2>3
  <1>12. CASE Calls
    <2>1. /\ yc' = yc /\ base' = base /\ local'.ready = local.ready /\ pc' # "idle"
      BY <1>12, CallFacts DEF SameEndpoint
    <2>2. cache' = cache
      BY <1>12 DEF Calls, ReconcileTargetGroup, ReconcileBackendGroup, ReconcileBalancer,
             WaitBalancer, IsActive, DeleteBalancer, DeleteBackendGroup, DeleteTargetGroup, k8s
    <2>3. CASE pc' = "describe"
      <3>1. alb'.st = "ACTIVE"
        BY <1>12, <2>3 DEF Calls, ReconcileTargetGroup, ReconcileBackendGroup,
               ReconcileBalancer, WaitBalancer, IsActive, DeleteBalancer, DeleteBackendGroup,
               DeleteTargetGroup, Goto, Created, Fail, StillDeleting, Return, cloud
      <3>2. QED
        BY <1>1, <2>1, <2>2, <3>1
    <2>4. CASE pc' # "describe"
      <3>1. Shown' => Shown
        BY <2>1, <2>2, <2>4 DEF Shown
      <3>2. QED
        BY <1>1, <1>6, <2>1, <2>2, <3>1
    <2>5. QED
      BY <2>3, <2>4
  <1>13. CASE Describe /\ ~Restart
    <2>1. UNCHANGED <<yc, cache>> /\ pc = "describe" /\ pc' = "conds"
      BY <1>13 DEF Describe, Return, Fail, k8s
    <2>2. Shown
      BY <2>1 DEF Shown
    <2>3. QED
      BY <1>1, <1>6, <2>1, <2>2
  <1>14. CASE PatchConds \/ PatchSpec \/ PatchStatus
    <2>1. /\ pc # "idle" /\ pc' # "describe" /\ cache' = cache
          /\ yc'.ready \in {yc.ready, local.ready}
          /\ yc'.life = yc.life \/ yc.life = "deleting"
          /\ \/ base' = base /\ local' = local /\ pc' # "idle"
             \/ ~base'.ready /\ ~local'.ready
      BY <1>14, PatchReady
    <2>2. Shown' => Shown
      BY <2>1 DEF Shown
    <2>3. yc.life # "none" /\ (yc.life = "deleting" => yc'.life \in {"deleting", "gone"})
      <3>1. \/ yc' = yc \/ yc' = MergeConds(yc) \/ yc' = MergeStatus(yc)
            \/ yc' = Finalized(MergeSpec(yc))
        BY <1>14 DEF PatchConds, PatchSpec, PatchStatus
      <3>2. QED
        BY <1>3, <1>5, <2>1, <3>1, MergeFacts, MergeSpecFacts
    <2>4. Known /\ yc'.life # "none"
      BY <2>1, <2>3
    <2>5. QED
      BY <1>6, <2>1, <2>2, <2>4
  <1>15. QED
    BY <1>7, <1>8, <1>9, <1>10, <1>11, <1>12, <1>13, <1>14
       DEF Next, Environment, Reconcile, Crash, Outside, Calls

(***************************************************************************)
(* A YandexCluster that is Ready keeps an active balancer until it is      *)
(* deleted: no reconcile, retried, stale or interrupted, takes it down.    *)
(***************************************************************************)
THEOREM BalancerStays == Spec => []ActiveInv
  <1>1. Init => ActiveInv
    BY DEF Init, ActiveInv, Absent
  <1>2. TypeOK /\ ClusterInv /\ ActiveInv /\ [Next]_vars => ActiveInv'
    BY ActiveStep
  <1>3. QED
    BY <1>1, <1>2, Invariance, PTL DEF Spec

-----------------------------------------------------------------------------
(***************************************************************************)
(* What the machine controller relies on next to this one.                 *)
(***************************************************************************)

(* The object's life moves forward, and the informer shows it as it is now  *)
(* or as it has shown it before.                                            *)
LEMMA LifeFacts ==
    ASSUME TypeOK, [Next]_vars
    PROVE  /\ cache' = cache \/ (cache' = yc /\ yc' = yc)
           /\ \/ yc'.life = yc.life
              \/ yc.life = "none" /\ yc'.life = "live"
              \/ yc.life = "deleting" /\ yc'.life = "gone"
              \/ DeleteCluster
  <1>1. CASE CreateCluster
    BY <1>1 DEF CreateCluster, TypeOK, Object
  <1>2. CASE DeleteCluster
    BY <1>2 DEF DeleteCluster
  <1>3. CASE PatchConds \/ PatchSpec \/ PatchStatus
    <2>1. cache' = cache /\ yc \in Object
      BY <1>3 DEF PatchConds, PatchSpec, PatchStatus, TypeOK
    <2>2. \/ yc' = yc \/ yc' = MergeConds(yc) \/ yc' = MergeStatus(yc)
          \/ yc' = Finalized(MergeSpec(yc))
      BY <1>3 DEF PatchConds, PatchSpec, PatchStatus
    <2>3. QED
      BY <2>1, <2>2, MergeFacts, MergeSpecFacts
  <1>4. CASE Crash \/ Describe
    BY <1>4 DEF Crash, Describe, Restart, k8s
  <1>5. CASE CacheSync
    BY <1>5 DEF CacheSync
  <1>6. CASE \/ SetOwnerRef \/ Pause \/ Unpause \/ BalancerStarted \/ BalancerDeleted
             \/ BalancerLost \/ BalancerReplaced \/ GroupLost \/ Timeout \/ Skip \/ Begin
             \/ UNCHANGED vars
    BY <1>6 DEF SetOwnerRef, Pause, Unpause, BalancerStarted, BalancerDeleted, BalancerLost,
            BalancerReplaced, GroupLost, Timeout, Skip, Begin, k8s, vars
  <1>7. CASE Calls
    BY <1>7 DEF Calls, ReconcileTargetGroup, ReconcileBackendGroup, ReconcileBalancer,
            WaitBalancer, IsActive, DeleteBalancer, DeleteBackendGroup, DeleteTargetGroup, k8s
  <1>8. QED
    BY <1>1, <1>2, <1>3, <1>4, <1>5, <1>6, <1>7 DEF Next, Environment, Reconcile, Calls

(* A reconcile starts on a YandexCluster that the informer shows and whose   *)
(* owner is known, and works on a target group only while it shows it live. *)
LEMMA WorkFacts ==
    ASSUME TypeOK, [Next]_vars
    PROVE  /\ owned => owned'
           /\ owned' # owned => yc.life = "live" /\ cache' = cache
           /\ owned' # owned \/ cache' # cache => tg' = tg
           /\ pc' # "idle" => pc # "idle" \/ (owned /\ Exists(cache) /\ cache' = cache)
           /\ pc' = "target" => pc = "target" \/ (cache.life = "live" /\ cache' = cache)
           /\ ~tg /\ tg' => pc = "target"
  <1>1. CASE Environment \/ CacheSync \/ Skip \/ UNCHANGED vars
    <2>1. CASE SetOwnerRef
      BY <2>1 DEF SetOwnerRef, cloud, worker
    <2>2. CASE CacheSync
      BY <2>2 DEF CacheSync, cloud, worker
    <2>3. CASE UNCHANGED <<cache, owned, pc>> /\ (tg' = tg \/ GroupLost)
      BY <2>3 DEF GroupLost
    <2>4. QED
      BY <1>1, <2>1, <2>2, <2>3
         DEF Environment, CreateCluster, DeleteCluster, Pause, Unpause, BalancerStarted,
             BalancerDeleted, BalancerLost, BalancerReplaced, GroupLost, Timeout, Skip, k8s,
             cloud, worker, vars
  <1>2. CASE Begin
    BY <1>2 DEF Begin, Gated, k8s, cloud
  <1>3. CASE Crash
    BY <1>3 DEF Crash, Restart, Rest, cloud
  <1>4. CASE \/ WaitBalancer \/ IsActive \/ Describe \/ PatchConds \/ PatchSpec \/ PatchStatus
    BY <1>4 DEF WaitBalancer, IsActive, Describe, PatchConds, PatchSpec, PatchStatus, Created,
            Fail, Return, Goto, Restart, Rest, k8s, cloud
  <1>5. CASE \/ ReconcileTargetGroup \/ ReconcileBackendGroup \/ ReconcileBalancer
             \/ DeleteBalancer \/ DeleteBackendGroup \/ DeleteTargetGroup
    <2>1. UNCHANGED <<cache, owned>> /\ pc # "idle"
      BY <1>5 DEF ReconcileTargetGroup, ReconcileBackendGroup, ReconcileBalancer,
              DeleteBalancer, DeleteBackendGroup, DeleteTargetGroup, k8s
    <2>2. pc' # "target"
      BY <1>5 DEF ReconcileTargetGroup, ReconcileBackendGroup, ReconcileBalancer,
              DeleteBalancer, DeleteBackendGroup, DeleteTargetGroup, StillDeleting, Fail,
              Return, Goto
    <2>3. ~tg /\ tg' => pc = "target"
      BY <1>5 DEF ReconcileTargetGroup, ReconcileBackendGroup, ReconcileBalancer,
              DeleteBalancer, DeleteBackendGroup, DeleteTargetGroup
    <2>4. QED
      BY <2>1, <2>2, <2>3
  <1>6. QED
    BY <1>1, <1>2, <1>3, <1>4, <1>5 DEF Next, Reconcile

(* A target group goes by hand, or with the cluster whose deletion the       *)
(* informer shows.                                                          *)
LEMMA GroupFacts ==
    ASSUME TypeOK, ClusterInv, [Next]_vars, tg, ~tg'
    PROVE  \/ GroupLost
           \/ /\ yc'.life \in {"deleting", "gone"} /\ cache'.life \in {"deleting", "gone"}
              /\ pc' # "target"
  <1>1. CASE DeleteTargetGroup
    <2>1. yc' = yc /\ cache' = cache /\ pc = "delTarget" /\ pc' = "conds"
      BY <1>1 DEF DeleteTargetGroup, StillDeleting, Fail, Return, k8s
    <2>2. QED
      BY <2>1 DEF ClusterInv, WorkerInv, Lags
  <1>2. CASE tg' = tg \/ ReconcileTargetGroup
    BY <1>2 DEF ReconcileTargetGroup
  <1>3. QED
    BY <1>1, <1>2
       DEF Next, Environment, Reconcile, CreateCluster, DeleteCluster, SetOwnerRef, Pause,
           Unpause, BalancerStarted, BalancerDeleted, BalancerLost, BalancerReplaced, Timeout,
           CacheSync, Skip, Begin, ReconcileBackendGroup, ReconcileBalancer, WaitBalancer,
           IsActive, Describe, Restart, DeleteBalancer, DeleteBackendGroup, PatchConds,
           PatchSpec, PatchStatus, Crash, vars, cloud

(* Every loss of a group by hand counts, and they are bounded. *)
LEMMA GroupCount ==
    ASSUME TypeOK, [Next]_vars
    PROVE  /\ spent["group"] \in Nat /\ spent'["group"] \in Nat
           /\ spent["group"] <= spent'["group"]
           /\ spent["group"] <= MaxFaults["group"] => spent'["group"] <= MaxFaults["group"]
           /\ GroupLost => /\ spent["group"] < MaxFaults["group"]
                           /\ spent'["group"] = spent["group"] + 1
  <1>1. spent' = spent \/ \E k \in FaultKinds : Fault(k)
    BY OneFault
  <1>2. MaxFaults["group"] \in Nat /\ spent \in [FaultKinds -> Nat] /\ "group" \in FaultKinds
    BY ClusterAssumption DEF TypeOK, FaultKinds
  <1>3. ASSUME NEW k \in FaultKinds, Fault(k)
        PROVE  /\ spent'["group"] = IF k = "group" THEN spent["group"] + 1 ELSE spent["group"]
               /\ k = "group" => spent["group"] < MaxFaults["group"]
    BY <1>2, <1>3 DEF Fault
  <1>4. GroupLost => Fault("group")
    BY DEF GroupLost
  <1>5. QED
    BY <1>1, <1>2, <1>3, <1>4

-----------------------------------------------------------------------------
(***************************************************************************)
(* No wake-up is lost.                                                     *)
(***************************************************************************)

(* How a reconcile ends: without a requeue only when a live cluster is Ready *)
(* with its endpoint, or a cluster being deleted loses its finalizer.       *)
LEMMA ResultFacts ==
    ASSUME TypeOK, WorkerInv, Calls \/ Describe, ~Restart
    PROVE  /\ UNCHANGED <<yc, cache, owned, paused, queued, base>>
           /\ pc \notin {"idle", "conds", "spec", "status"}
           /\ pc' \notin {"idle", "spec", "status"}
           /\ pc' = "conds" /\ res' = "none" =>
                 /\ base.life = "live" => Announced(local')
                 /\ base.life = "deleting" => ~local'.fin
  <1>1. local \in Object
    BY DEF TypeOK
  <1>2. CASE Describe
    <2> DEFINE o == [local EXCEPT !.ep = alb.addr, !.lb = alb.addr, !.ready = TRUE, !.cond = "True"]
               f == [local EXCEPT !.cond = "False"]
    <2>1. alb.st # "none" => Announced(o)
      BY <1>1, ClusterAssumption DEF Object, Announced, TypeOK, NoBalancer
    <2>2. /\ pc = "describe" /\ UNCHANGED <<k8s, queued>>
          /\ \/ Return(o, "none") /\ alb.st # "none"
             \/ Return(local, "error")
             \/ Return(f, "error")
      BY <1>2 DEF Describe, Fail
    <2>3. base.life = "live"
      BY <2>2 DEF WorkerInv
    <2> HIDE DEF o, f
    <2>4. QED
      BY <2>1, <2>2, <2>3 DEF Return, k8s
  <1>3. CASE Calls
    <2>1. /\ base' = base
          /\ pc \notin {"idle", "conds", "spec", "status"}
          /\ pc' \notin {"idle", "spec", "status"}
      BY <1>3, CallFacts DEF SameEndpoint
    <2>2. UNCHANGED <<yc, cache, owned, paused, queued>>
      BY <1>3 DEF Calls, ReconcileTargetGroup, ReconcileBackendGroup, ReconcileBalancer,
             WaitBalancer, IsActive, DeleteBalancer, DeleteBackendGroup, DeleteTargetGroup, k8s
    <2>3. [local EXCEPT !.fin = FALSE].fin = FALSE
      BY <1>1 DEF Object
    <2>4. pc' = "conds" /\ res' = "none" => base.life = "deleting" /\ ~local'.fin
      BY <1>3, <2>3
         DEF Calls, ReconcileTargetGroup, ReconcileBackendGroup, ReconcileBalancer,
             WaitBalancer, IsActive, DeleteBalancer, DeleteBackendGroup, DeleteTargetGroup,
             Goto, Created, Fail, StillDeleting, Return, WorkerInv
    <2>5. QED
      BY <2>1, <2>2, <2>4
  <1>4. QED
    BY <1>2, <1>3

(* The closing patches: what they write and when they ask to come back. *)
LEMMA CloseFacts ==
    ASSUME TypeOK, WorkerInv, WakeInv, PatchConds \/ PatchSpec \/ PatchStatus
    PROVE  /\ UNCHANGED <<cache, owned, paused>> /\ (queued => queued')
           /\ yc.life # "none" => yc'.life # "none"
           /\ yc'.life \in {yc.life, "gone"}
           /\ \/ /\ PatchConds /\ pc = "conds" /\ pc' = "spec"
                 /\ UNCHANGED <<base, local, queued>> /\ res' \in {res, "error"}
              \/ /\ PatchSpec /\ pc = "spec" /\ pc' = "status"
                 /\ UNCHANGED <<base, local, queued>> /\ res' \in {res, "error"}
                 /\ res' = "none" /\ base.life = "deleting" /\ ~local.fin => yc'.life = "gone"
                 /\ res' = "none" /\ local.ep # base.ep => yc'.ep = local.ep
              \/ /\ PatchStatus /\ pc = "status" /\ pc' = "idle"
                 /\ queued' \/ /\ res = "none" /\ yc'.life = yc.life /\ yc'.ep = yc.ep
                               /\ local.ready # base.ready => yc'.ready = local.ready
                               /\ local.lb # base.lb => yc'.lb = local.lb
  <1>1. yc \in Object /\ base \in Object /\ local \in Object /\ pc # "idle"
    BY DEF TypeOK, PatchConds, PatchSpec, PatchStatus
  <1>2. UNCHANGED <<cache, owned, paused>>
    BY DEF PatchConds, PatchSpec, PatchStatus
  <1>4. CASE PatchConds
    <2>1. yc' = yc \/ yc' = MergeConds(yc)
      BY <1>4 DEF PatchConds
    <2>2. yc'.life = yc.life
      BY <1>1, <2>1, MergeFacts
    <2>3. /\ pc = "conds" /\ pc' = "spec"
          /\ UNCHANGED <<base, local, queued>> /\ res' \in {res, "error"}
      BY <1>4 DEF PatchConds, PatchError
    <2>4. QED
      BY <1>2, <1>4, <2>2, <2>3
  <1>5. CASE PatchSpec
    <2> DEFINE n == Finalized(MergeSpec(yc))
    <2>1. /\ n.fin = IF local.fin = base.fin THEN yc.fin ELSE local.fin
          /\ n.ep = IF local.ep = base.ep THEN yc.ep ELSE local.ep
          /\ n.life = IF yc.life = "deleting" /\ ~n.fin THEN "gone" ELSE yc.life
      BY <1>1, MergeSpecFacts
    <2>2. /\ pc = "spec" /\ pc' = "status"
          /\ UNCHANGED <<base, local, queued>> /\ res' \in {res, "error"}
          /\ yc' = yc \/ yc' = n
          /\ res' = "none" /\ (local.fin # base.fin \/ local.ep # base.ep) => yc' = n /\ Exists(yc)
      BY <1>5 DEF PatchSpec, PatchError
    <2> HIDE DEF n
    <2>3. base.life = "deleting" => base.fin /\ yc.life \in {"deleting", "gone"}
      BY <1>1 DEF WorkerInv, Lags
    <2>4. res' = "none" /\ base.life = "deleting" /\ ~local.fin => yc'.life = "gone"
      BY <2>1, <2>2, <2>3 DEF Exists
    <2>5. res' = "none" /\ local.ep # base.ep => yc'.ep = local.ep
      BY <2>1, <2>2
    <2>6. yc'.life \in {yc.life, "gone"} /\ (yc.life # "none" => yc'.life # "none")
      BY <2>1, <2>2
    <2>7. QED
      BY <1>2, <1>5, <2>2, <2>4, <2>5, <2>6
  <1>6. CASE PatchStatus
    <2> DEFINE n == MergeStatus(yc)
    <2>1. /\ n.ready = IF local.ready = base.ready THEN yc.ready ELSE local.ready
          /\ n.lb = IF local.lb = base.lb THEN yc.lb ELSE local.lb
          /\ n.ep = yc.ep /\ n.life = yc.life
      BY <1>1, PatchedEndpoint, MergeFacts
    <2>2. /\ pc = "status" /\ pc' = "idle" /\ (queued => queued')
          /\ yc' = yc \/ yc' = n
          /\ queued' \/ (res = "none" /\ yc' = n)
      BY <1>6 DEF PatchStatus, Rest
    <2> HIDE DEF n
    <2>3. QED
      BY <1>2, <1>6, <2>1, <2>2
  <1>7. QED
    BY <1>4, <1>5, <1>6

(* WakeInv is preserved by every step. *)
LEMMA WakeStep ==
    ASSUME TypeOK, ClusterInv, WakeInv, [Next]_vars
    PROVE  WakeInv'
  <1>1. WorkerInv /\ ResourcesInv /\ Lags(cache) /\ yc \in Object /\ cache \in Object
    BY DEF ClusterInv, TypeOK
  <1>2. CASE UNCHANGED <<yc, cache, owned, pc, base, local, res, queued>> /\ (paused' = paused \/ paused')
    BY <1>2 DEF WakeInv, Unfinished, Pending
  <1>3. CASE SetOwnerRef \/ Unpause \/ CacheSync
    <2>1. /\ queued' /\ UNCHANGED <<yc, pc, base, local, res>>
          /\ owned => owned'
          /\ owned' = owned \/ yc.life = "live"
      BY <1>3 DEF SetOwnerRef, Unpause, CacheSync, worker
    <2>2. QED
      BY <2>1 DEF WakeInv, Pending
  <1>4. CASE Skip \/ Begin
    <2>1. /\ pc = "idle" /\ UNCHANGED <<yc, cache, owned, paused>>
      BY <1>4 DEF Skip, Begin, Take, k8s
    <2>2. CASE Skip
      <3>1. Gated /\ UNCHANGED <<pc, base, local, res>>
        BY <2>2 DEF Skip, worker
      <3>2. Unfinished => cache # yc /\ (yc.life = "deleting" => cache.life # "deleting")
        BY <1>1, <3>1 DEF Gated, Unfinished, Exists, WakeInv, ResourcesInv, Lags
      <3>3. QED
        BY <2>1, <3>1, <3>2 DEF WakeInv, Unfinished, Pending
    <2>3. CASE Begin
      <3>1. /\ owned /\ Exists(cache) /\ base' = cache /\ pc' # "idle"
            /\ pc' \in {"conds", "spec", "status"} => res' = "again"
        BY <2>3 DEF Begin, Gated
      <3>2. QED
        BY <2>1, <3>1 DEF WakeInv, Unfinished, Pending
    <2>4. QED
      BY <1>4, <2>2, <2>3
  <1>5. CASE CreateCluster \/ DeleteCluster
    <2>1. UNCHANGED <<cache, owned, paused, pc, base, local, res, queued>>
      BY <1>5 DEF CreateCluster, DeleteCluster, worker
    <2>2. /\ yc'.ready = yc.ready /\ yc'.fin = yc.fin /\ yc'.life # "none"
          /\ \/ yc.life = "none" /\ yc'.life = "live"
             \/ yc.life = "live" /\ yc'.life \in {"deleting", "gone"} /\ yc'.ep = yc.ep
      <3>1. CASE CreateCluster
        <4>1. PICK w \in Listeners, e \in Endpoints \cup {Nil} :
                  yc' = [yc EXCEPT !.life = "live", !.want = w, !.ep = e]
          BY <3>1 DEF CreateCluster
        <4>2. QED
          BY <1>1, <3>1, <4>1 DEF CreateCluster, Object
      <3>2. CASE DeleteCluster
        BY <1>1, <3>2 DEF DeleteCluster, Object
      <3>3. QED
        BY <1>5, <3>1, <3>2
    <2>3. yc.life = "none" => pc = "idle"
      BY <1>1 DEF WorkerInv, Lags
    <2>4. yc.life = "live" => cache.life # "deleting" /\ (pc # "idle" => base.life # "deleting")
      BY <1>1 DEF WorkerInv, Lags
    <2>5. CASE yc.life = "none"
      BY <2>1, <2>2, <2>3, <2>5 DEF WakeInv, Unfinished
    <2>6. CASE yc.life = "live"
      BY <2>1, <2>2, <2>4, <2>6 DEF WakeInv, Unfinished
    <2>7. QED
      BY <2>2, <2>5, <2>6
  <1>6. CASE (Calls \/ Describe) /\ ~Restart
    <2>1. /\ UNCHANGED <<yc, cache, owned, paused, queued, base>>
          /\ pc # "idle" /\ pc' \notin {"idle", "spec", "status"}
          /\ pc' = "conds" /\ res' = "none" =>
                /\ base.life = "live" => Announced(local')
                /\ base.life = "deleting" => ~local'.fin
      BY <1>1, <1>6, ResultFacts
    <2>2. QED
      BY <2>1 DEF WakeInv, Unfinished, Pending
  <1>7. CASE Restart
    <2>1. /\ cache' = yc /\ UNCHANGED <<yc, owned>> /\ pc' = "idle"
          /\ Exists(yc) => queued'
      BY <1>7 DEF Restart, Rest
    <2>2. QED
      BY <2>1 DEF WakeInv, Unfinished, Pending, Exists
  <1>8. CASE PatchConds \/ PatchSpec \/ PatchStatus
    <2>1. pc # "idle" /\ owned /\ yc.life # "none" /\ (queued \/ cache = base)
      BY <1>1, <1>8 DEF PatchConds, PatchSpec, PatchStatus, WakeInv, WorkerInv, Lags
    <2>2. /\ UNCHANGED <<cache, owned, paused>> /\ (queued => queued')
          /\ yc'.life # "none"
          /\ yc'.life \in {yc.life, "gone"}
      BY <1>1, <1>8, <2>1, CloseFacts
    <2>3. yc.life = "live" => base.life = "live"
      BY <1>1, <2>1 DEF WorkerInv, Lags
    <2>4. CASE PatchConds \/ PatchSpec
      <3>1. /\ UNCHANGED <<base, local, queued>> /\ res' \in {res, "error"}
            /\ \/ pc = "conds" /\ pc' = "spec"
               \/ /\ pc = "spec" /\ pc' = "status"
                  /\ res' = "none" /\ base.life = "deleting" /\ ~local.fin => yc'.life = "gone"
                  /\ res' = "none" /\ local.ep # base.ep => yc'.ep = local.ep
        BY <1>1, <2>4, CloseFacts DEF PatchConds, PatchSpec, PatchStatus
      <3>2. QED
        BY <2>1, <2>2, <2>3, <3>1 DEF WakeInv, Unfinished, Pending
    <2>5. CASE PatchStatus
      <3>1. /\ pc = "status" /\ pc' = "idle"
            /\ queued' \/ /\ res = "none" /\ yc'.life = yc.life /\ yc'.ep = yc.ep
                          /\ local.ready # base.ready => yc'.ready = local.ready
                          /\ local.lb # base.lb => yc'.lb = local.lb
        BY <1>1, <2>5, CloseFacts DEF PatchConds, PatchSpec, PatchStatus
      \* A live cluster that is not announced after the last patch has been
      \* changed since it was read, and the event of that change is to come.
      <3>2. ASSUME Unfinished', yc'.life = "live", ~queued', cache' = yc'
            PROVE  FALSE
        <4>1. /\ res = "none" /\ base.life = "live" /\ base = yc' /\ ~Announced(yc')
              /\ yc'.ep = yc.ep
          BY <2>1, <2>2, <2>3, <3>1, <3>2 DEF Unfinished
        <4>2. Announced(local) /\ (local.ep # base.ep => yc.ep = local.ep)
          BY <3>1, <4>1 DEF WakeInv
        <4>3. local.ready = base.ready /\ local.lb = base.lb /\ local.ep = base.ep
          BY <3>1, <3>2, <4>1, <4>2
        <4>4. QED
          BY <4>1, <4>2, <4>3 DEF Announced
      <3>3. Unfinished' /\ yc'.life = "deleting" => queued' \/ cache.life # "deleting"
        BY <1>1, <2>1, <2>2, <3>1 DEF WakeInv, Unfinished, WorkerInv
      <3>4. QED
        BY <2>1, <2>2, <3>1, <3>2, <3>3 DEF WakeInv, Pending
    <2>6. QED
      BY <1>8, <2>4, <2>5
  <1>9. QED
    BY <1>2, <1>3, <1>4, <1>5, <1>6, <1>7, <1>8
       DEF Next, Environment, Reconcile, Calls, Crash, Pause, BalancerStarted, BalancerDeleted,
           BalancerLost, BalancerReplaced, GroupLost, Timeout, vars, k8s, worker

(* WakeInv holds initially. *)
LEMMA WakeInit ==
    ASSUME Init
    PROVE  WakeInv
  BY DEF Init, WakeInv, Unfinished, Absent

(***************************************************************************)
(* Every return of Reconcile without a requeue leaves the cluster to an    *)
(* event that comes, whatever failed, expired or crashed.                  *)
(***************************************************************************)
THEOREM WakeUps == Spec => []WakeInv
  <1>1. TypeOK /\ ClusterInv /\ WakeInv /\ [Next]_vars => WakeInv'
    BY WakeStep
  <1>2. QED
    BY <1>1, WakeInit, Invariance, PTL DEF Spec

(***************************************************************************)
(* A cluster with work left, the announcement of its endpoint included, is *)
(* never forgotten: the safety half of DeletionCompletes and               *)
(* ProvisioningCompletes.                                                  *)
(***************************************************************************)
THEOREM NeverForgotten == Spec => []NotForgotten
  <1>1. WakeInv => NotForgotten
    BY DEF WakeInv, NotForgotten, Unfinished, Pending
  <1>2. QED
    BY <1>1, WakeUps, PTL

(***************************************************************************)
(* Close patches spec and status one by one.  A Ready cluster has the      *)
(* endpoint it announces; if a failed or refused patch of the spec has     *)
(* left it without, a reconcile that will set it is on its way.            *)
(***************************************************************************)
THEOREM ReadyAnnounces == Spec => []ReadyHasEndpoint
  <1>1. EndpointInv /\ ~Spent({"patch", "stale"}) /\ yc.ready => Announced(yc)
    BY DEF EndpointInv, ReadyInv, Announced, Spent
  <1>2. WakeInv /\ yc.ready /\ ~Announced(yc) => yc.life # "live" \/ paused \/ Pending
    BY DEF WakeInv, Unfinished
  <1>3. EndpointInv /\ WakeInv => ReadyHasEndpoint
    BY <1>1, <1>2 DEF ReadyHasEndpoint
  <1>4. QED
    BY <1>3, EndpointKept, WakeUps, PTL

(***************************************************************************)
(* All the supporting invariants of the cluster controller together, for   *)
(* every number of addresses and faults.                                   *)
(***************************************************************************)
THEOREM Supported == Spec => []SupportInv
  <1>1. EndpointInv /\ ActiveInv /\ WakeInv => SupportInv
    BY DEF SupportInv
  <1>2. QED
    BY <1>1, EndpointKept, BalancerStays, WakeUps, PTL
=============================================================================
