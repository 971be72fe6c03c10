--------------------------- MODULE YandexCluster ---------------------------
(***************************************************************************)
(* The YandexCluster controller and its load balancer service: the target  *)
(* group, the backend group and the application load balancer of the       *)
(* cluster's API are created in this order, the listener becomes the       *)
(* control plane endpoint, and all three are deleted in reverse order.     *)
(* One reconcile runs under a deadline that its closing patch shares.      *)
(***************************************************************************)
EXTENDS Naturals, FiniteSets

CONSTANTS
    Endpoints,   \* listener addresses (with their port) the cloud can give
    Listeners,   \* what users may ask for: an address, or Nil for any
    Nil,         \* an empty endpoint or condition
    MaxFaults,   \* how often each kind of fault may happen
    MaxKinds     \* how many kinds of fault may happen in one behaviour

FaultKinds == {"crash", "cloud", "patch", "stale", "timeout", "pause",
               "lost", "replaced", "group", "preset"}

ASSUME ClusterAssumption ==
    /\ Nil \notin Endpoints
    /\ Listeners \subseteq Endpoints \cup {Nil}
    /\ MaxFaults \in [FaultKinds -> Nat]
    /\ MaxKinds \in Nat

(* "CREATING" stands for CREATING and STARTING, "DELETING" for DELETING and *)
(* STOPPING.                                                               *)
BalancerStatus == {"CREATING", "ACTIVE", "DELETING"}
NoBalancer == [st |-> "none", addr |-> Nil]

(* The YandexCluster object; life as in YandexMachine. *)
Object == [life  : {"none", "live", "deleting", "gone"},
           fin   : BOOLEAN,                  \* ClusterFinalizer
           want  : Endpoints \cup {Nil},     \* spec.loadBalancer.listener
           ep    : Endpoints \cup {Nil},     \* spec.controlPlaneEndpoint
           lb    : Endpoints \cup {Nil},     \* status.loadBalancer
           ready : BOOLEAN,                  \* status.ready
           cond  : {Nil, "True", "False"},   \* LoadBalancerReady condition
           made  : BOOLEAN]                  \* READY condition

Absent == [life |-> "none", fin |-> FALSE, want |-> Nil, ep |-> Nil, lb |-> Nil,
           ready |-> FALSE, cond |-> Nil, made |-> FALSE]

VARIABLES
    yc,       \* the YandexCluster object in the API server
    cache,    \* the informer's copy
    owned,    \* the owner reference to the Cluster is set
    paused,   \* Cluster.spec.paused
    tg, bg,   \* the target group and the backend group exist
    alb,      \* the application load balancer
    links,    \* "alb": its listener names the backend group that exists;
              \* "bg": the backend group names the target group that exists
    queued,   \* the object's key waits in the work queue
    pc,       \* the worker's next step
    base,     \* the patch helper's snapshot
    local,    \* clusterScope.YandexCluster
    res,      \* "none", "again" (Requeue, RequeueAfter) or "error"
    expired,  \* the deadline of this reconcile has passed
    spent     \* history: faults so far

k8s    == <<yc, cache, owned, paused>>
cloud  == <<tg, bg, alb, links>>
worker == <<pc, base, local, res, expired>>
vars   == <<k8s, cloud, queued, worker, spent>>

Steps == {"idle", "target", "backend", "balancer", "wait", "active", "describe",
          "delBalancer", "delBackend", "delTarget", "conds", "spec", "status"}

(* The type of every variable. *)
TypeOK ==
    /\ yc \in Object
    /\ cache \in Object
    /\ owned \in BOOLEAN
    /\ paused \in BOOLEAN
    /\ tg \in BOOLEAN
    /\ bg \in BOOLEAN
    /\ alb \in {NoBalancer} \cup [st : BalancerStatus, addr : Endpoints]
    /\ links \subseteq {"alb", "bg"}
    /\ queued \in BOOLEAN
    /\ pc \in Steps
    /\ base \in Object
    /\ local \in Object
    /\ res \in {"none", "again", "error"}
    /\ expired \in BOOLEAN
    /\ spent \in [FaultKinds -> Nat]

Init ==
    /\ yc = Absent
    /\ cache = Absent
    /\ owned = FALSE
    /\ paused = FALSE
    /\ tg = FALSE
    /\ bg = FALSE
    /\ alb = NoBalancer
    /\ links = {}
    /\ queued = FALSE
    /\ pc = "idle"
    /\ base = Absent
    /\ local = Absent
    /\ res = "none"
    /\ expired = FALSE
    /\ spent = [k \in FaultKinds |-> 0]

Exists(o) == o.life \in {"live", "deleting"}

Happened == {k \in FaultKinds : spent[k] > 0}

(* One more fault of kind k, within the bounds. *)
Fault(k) ==
    /\ spent[k] < MaxFaults[k]
    /\ Cardinality(Happened \cup {k}) <= MaxKinds
    /\ spent' = [spent EXCEPT ![k] = @ + 1]

-----------------------------------------------------------------------------
(***************************************************************************)
(* Users, the Cluster API, the informer and the cloud.                     *)
(***************************************************************************)

(* The user asks for a listener address or leaves it to the cloud; the      *)
(* webhook lets him set the endpoint as well, which the API documentation   *)
(* asks him not to do.                                                      *)
CreateCluster ==
    /\ yc.life = "none"
    /\ \E w \in Listeners, e \in Endpoints \cup {Nil} :
          /\ yc' = [yc EXCEPT !.life = "live", !.want = w, !.ep = e]
          /\ IF e = Nil THEN UNCHANGED spent ELSE Fault("preset")
    /\ UNCHANGED <<cache, owned, paused, cloud, queued, worker>>

DeleteCluster ==
    /\ yc.life = "live"
    /\ yc' = [yc EXCEPT !.life = IF yc.fin THEN "deleting" ELSE "gone"]
    /\ UNCHANGED <<cache, owned, paused, cloud, queued, worker, spent>>

SetOwnerRef ==
    /\ yc.life = "live"
    /\ ~owned
    /\ owned' = TRUE
    /\ queued' = TRUE
    /\ UNCHANGED <<yc, cache, paused, cloud, worker, spent>>

Pause ==
    /\ ~paused
    /\ paused' = TRUE
    /\ Fault("pause")
    /\ UNCHANGED <<yc, cache, owned, cloud, queued, worker>>

(* The ClusterUnpaused predicate lets this event through. *)
Unpause ==
    /\ paused
    /\ paused' = FALSE
    /\ queued' = TRUE
    /\ UNCHANGED <<yc, cache, owned, cloud, worker, spent>>

CacheSync ==
    /\ cache # yc
    /\ cache' = yc
    /\ queued' = TRUE
    /\ UNCHANGED <<yc, owned, paused, cloud, worker, spent>>

BalancerStarted ==
    /\ alb.st = "CREATING"
    /\ alb' = [alb EXCEPT !.st = "ACTIVE"]
    /\ UNCHANGED <<k8s, tg, bg, links, queued, worker, spent>>

BalancerDeleted ==
    /\ alb.st = "DELETING"
    /\ alb' = NoBalancer
    /\ links' = links \ {"alb"}
    /\ UNCHANGED <<k8s, tg, bg, queued, worker, spent>>

(* Somebody deletes the balancer by hand ... *)
BalancerLost ==
    /\ alb.st \in {"CREATING", "ACTIVE"}
    /\ alb' = NoBalancer
    /\ links' = links \ {"alb"}
    /\ Fault("lost")
    /\ UNCHANGED <<k8s, tg, bg, queued, worker>>

(* ... or makes another one under its name. *)
BalancerReplaced ==
    /\ yc.life = "live"
    /\ tg /\ bg
    /\ alb.st = "none"
    /\ \E a \in Endpoints : alb' = [st |-> "ACTIVE", addr |-> a]
    /\ links' \in {links, links \cup {"alb"}}
    /\ Fault("replaced")
    /\ UNCHANGED <<k8s, tg, bg, queued, worker>>

(* Somebody deletes the target group or the backend group by hand; whatever *)
(* names it points nowhere from then on.                                    *)
GroupLost ==
    /\ \/ tg /\ tg' = FALSE /\ links' = links \ {"bg"} /\ UNCHANGED bg
       \/ bg /\ bg' = FALSE /\ links' = {} /\ UNCHANGED tg
    /\ Fault("group")
    /\ UNCHANGED <<k8s, alb, queued, worker>>

-----------------------------------------------------------------------------
(***************************************************************************)
(* The worker.                                                             *)
(***************************************************************************)

Goto(step) ==
    /\ pc' = step
    /\ UNCHANGED <<base, local, res, expired>>

(* reconcileALB has made a balancer. *)
Created ==
    /\ pc' = "active"
    /\ local' = [local EXCEPT !.made = TRUE]
    /\ UNCHANGED <<base, res, expired>>

(* Return from reconcile or reconcileDelete: the deferred Close comes next. *)
Return(obj, result) ==
    /\ pc' = "conds"
    /\ local' = obj
    /\ res' = result
    /\ UNCHANGED <<base, expired>>

(* An error of the load balancer service, in either direction. *)
Fail == Return([local EXCEPT !.cond = "False"], "error")

(* A call to the cloud does not succeed: its deadline has passed, or the    *)
(* cloud or the network fails.                                             *)
CallFails ==
    \/ expired /\ UNCHANGED spent
    \/ ~expired /\ Fault("cloud")

CallSucceeds == ~expired /\ UNCHANGED spent

(* Reconcile's early returns, the ones of reconcileDelete included. *)
Gated ==
    \/ ~Exists(cache)
    \/ ~owned
    \/ paused
    \/ cache.life = "deleting" /\ ~cache.fin

Take ==
    /\ pc = "idle"
    /\ queued
    /\ queued' = FALSE
    /\ \/ cache = yc /\ UNCHANGED spent
       \/ cache # yc /\ Fault("stale")

Skip ==
    /\ Take
    /\ Gated
    /\ UNCHANGED <<k8s, cloud, worker>>

(* The first reconcile only adds the finalizer and asks to come back. *)
Begin ==
    /\ Take
    /\ ~Gated
    /\ base' = cache
    /\ \/ /\ cache.life = "live" /\ ~cache.fin
          /\ local' = [cache EXCEPT !.fin = TRUE]
          /\ pc' = "conds"
          /\ res' = "again"
       \/ /\ cache.fin
          /\ local' = cache
          /\ pc' = IF cache.life = "live" THEN "target" ELSE "delBalancer"
          /\ res' = "none"
    /\ expired' = FALSE
    /\ UNCHANGED <<k8s, cloud>>

(* Config.ReconcileTimeout elapses. *)
Timeout ==
    /\ pc # "idle"
    /\ ~expired
    /\ expired' = TRUE
    /\ Fault("timeout")
    /\ UNCHANGED <<k8s, cloud, queued, pc, base, local, res>>

(* reconcileALBTargetGroup: find by name, create when missing.  A failed    *)
(* call may have created the group.                                        *)
ReconcileTargetGroup ==
    /\ pc = "target"
    /\ \/ CallSucceeds /\ tg' = TRUE /\ Goto("backend")
       \/ CallFails /\ tg' \in {tg, TRUE} /\ Fail
    /\ UNCHANGED <<k8s, bg, alb, links, queued>>

(* The request names the target group of the step before. *)
Unlinked == bg' = TRUE /\ UNCHANGED links \* mutant: WithTargetGroupID is not called
CreateBackendGroup == bg' = TRUE /\ links' = links \cup {"bg"}

(* reconcileALBBackendGroup.  A group that exists is kept as it is.  The     *)
(* cloud refuses a request that names a group which is gone.                *)
ReconcileBackendGroup ==
    /\ pc = "backend"
    /\ \/ CallSucceeds /\ bg /\ Goto("balancer") /\ UNCHANGED <<bg, links>>
       \/ CallSucceeds /\ ~bg /\ tg /\ CreateBackendGroup /\ Goto("balancer")
       \/ CallSucceeds /\ ~bg /\ ~tg /\ Fail /\ UNCHANGED <<bg, links>>
       \/ CallFails /\ Fail /\ UNCHANGED <<bg, links>>
       \/ CallFails /\ Fail /\ ~bg /\ tg /\ CreateBackendGroup
    /\ UNCHANGED <<k8s, tg, alb, queued>>

(* The two cases that reconcileALB declares unrecoverable: the balancer has *)
(* another address than the specification asks for, or it is missing and   *)
(* its address, which the cloud chose, is the cluster's endpoint already.  *)
Recreate == alb.st = "ACTIVE" /\ local.want # Nil /\ alb.addr # local.want \* mutant: no check of the endpoint
NeverCreate == alb.st = "none" /\ local.want = Nil \* mutant: the endpoint need not be set
Unrecoverable ==
    \/ alb.st = "ACTIVE" /\ local.want # Nil /\ alb.addr # local.want
    \/ alb.st = "none" /\ local.ep # Nil /\ local.want = Nil

(* The listener gets the address of the specification, or one of the         *)
(* cloud's, and forwards to the backend group of the step before.            *)
CreateAsGiven == alb' = [st |-> "CREATING", addr |-> local.want] /\ UNCHANGED links \* mutant: an empty address is passed on
CreateBalancer ==
    /\ \E a \in Endpoints :
          /\ local.want # Nil => a = local.want
          /\ alb' = [st |-> "CREATING", addr |-> a]
    /\ links' = links \cup {"alb"}

Creatable == alb.st = "none" /\ ~Unrecoverable /\ bg

(* reconcileALB. *)
ReconcileBalancer ==
    /\ pc = "balancer"
    /\ \/ /\ CallSucceeds
          /\ \/ /\ alb.st # "none" /\ ~Unrecoverable
                /\ Goto("active")
                /\ UNCHANGED <<alb, links>>
             \/ /\ Creatable
                /\ CreateBalancer
                /\ Goto("wait")
             \/ /\ Unrecoverable \/ (alb.st = "none" /\ ~bg)
                /\ Fail
                /\ UNCHANGED <<alb, links>>
       \/ /\ CallFails
          /\ Fail
          /\ \/ UNCHANGED <<alb, links>>
             \/ Creatable /\ CreateBalancer
    /\ UNCHANGED <<k8s, tg, bg, queued>>

(* ALBCreate waits for the end of its operation, then READY is marked. *)
WaitBalancer ==
    /\ pc = "wait"
    /\ \/ alb.st = "ACTIVE" /\ CallSucceeds /\ Created
       \/ alb.st \in {"none", "DELETING"} /\ CallSucceeds /\ Fail
       \/ CallFails /\ Fail
    /\ UNCHANGED <<k8s, cloud, queued>>

IsPresent == \* mutant: the status of the balancer is not looked at
    /\ pc = "active"
    /\ \/ alb.st # "none" /\ CallSucceeds /\ Goto("describe")
       \/ alb.st = "none" /\ CallSucceeds /\ Return(local, "again")
       \/ CallFails /\ Fail
    /\ UNCHANGED <<k8s, cloud, queued>>

(* IsActive; a missing balancer is not active. *)
IsActive ==
    /\ pc = "active"
    /\ \/ alb.st = "ACTIVE" /\ CallSucceeds /\ Goto("describe")
       \/ alb.st # "ACTIVE" /\ CallSucceeds /\ Return(local, "again")
       \/ CallFails /\ Fail
    /\ UNCHANGED <<k8s, cloud, queued>>

Rest ==
    /\ pc' = "idle"
    /\ base' = Absent
    /\ local' = Absent
    /\ res' = "none"
    /\ expired' = FALSE

(* The manager starts again and its informer lists the object. *)
Restart ==
    /\ cache' = yc
    /\ queued' = Exists(yc)
    /\ Rest
    /\ UNCHANGED <<yc, owned, paused, cloud>>

(* Describe and the switch that follows it: the listener becomes the        *)
(* endpoint, or must be it.  A balancer that has disappeared since IsActive *)
(* is a nil pointer here, and the manager panics.                          *)
Describe ==
    /\ pc = "describe"
    /\ \/ /\ CallSucceeds
          /\ alb.st # "none"
          /\ IF local.ep \in {Nil, alb.addr}
             THEN Return([local EXCEPT !.ep = alb.addr, !.lb = alb.addr,
                                       !.ready = TRUE, !.cond = "True"], "none")
             ELSE Return(local, "error")
          /\ UNCHANGED <<k8s, cloud, queued>>
       \/ /\ CallFails
          /\ Fail
          /\ UNCHANGED <<k8s, cloud, queued>>
       \/ /\ CallSucceeds
          /\ alb.st = "none"
          /\ Restart

(* Return from reconcileDelete while something is left. *)
DeletingNoRequeue == Return([local EXCEPT !.cond = "False"], "none") \* mutant
StillDeleting == Return([local EXCEPT !.cond = "False"], "again")

(* Only a balancer that is not found has been deleted. *)
GoneOrDeleting == alb.st \in {"none", "DELETING"} \* mutant: does not wait for the end
BalancerGone == alb.st = "none"

(* deleteApplicationLoadBalancer. *)
DeleteBalancer ==
    /\ pc = "delBalancer"
    /\ \/ /\ CallSucceeds
          /\ \/ BalancerGone /\ Goto("delBackend") /\ UNCHANGED alb
             \/ alb.st = "DELETING" /\ StillDeleting /\ UNCHANGED alb
             \/ /\ alb.st \in {"CREATING", "ACTIVE"}
                /\ alb' = [alb EXCEPT !.st = "DELETING"]
                /\ StillDeleting
       \/ /\ CallFails
          /\ Fail
          /\ \/ UNCHANGED alb
             \/ alb.st # "none" /\ alb' = [alb EXCEPT !.st = "DELETING"]
    /\ UNCHANGED <<k8s, tg, bg, links, queued>>

(* deleteALBBackendGroup. *)
RemoveBackendGroup == bg' = FALSE /\ links' = links \ {"bg"}

DeleteBackendGroup ==
    /\ pc = "delBackend"
    /\ \/ CallSucceeds /\ bg /\ RemoveBackendGroup /\ StillDeleting
       \/ CallSucceeds /\ ~bg /\ UNCHANGED <<bg, links>> /\ Goto("delTarget")
       \/ CallFails /\ Fail /\ UNCHANGED <<bg, links>>
       \/ CallFails /\ Fail /\ bg /\ RemoveBackendGroup
    /\ UNCHANGED <<k8s, tg, alb, queued>>

(* deleteALBTargetGroup; when it is gone, so is the reason to stay. *)
DeleteTargetGroup ==
    /\ pc = "delTarget"
    /\ \/ CallSucceeds /\ tg /\ tg' = FALSE /\ StillDeleting
       \/ CallSucceeds /\ ~tg /\ UNCHANGED tg /\ Return([local EXCEPT !.fin = FALSE], "none")
       \/ CallFails /\ tg' \in {tg, FALSE} /\ Fail
    /\ UNCHANGED <<k8s, bg, alb, links, queued>>

-----------------------------------------------------------------------------
(***************************************************************************)
(* ClusterScope.Close under the deadline of the reconcile: conditions,     *)
(* metadata and spec, status, as in YandexMachine.                         *)
(***************************************************************************)

Patched(new, old, server) == IF new = old THEN server ELSE new

MergeConds(o)  == [o EXCEPT !.cond = Patched(local.cond, base.cond, @),
                            !.made = Patched(local.made, base.made, @)]

MergeSpec(o)   == [o EXCEPT !.fin = Patched(local.fin, base.fin, @),
                            !.ep = Patched(local.ep, base.ep, @)]
MergeStatus(o) == [o EXCEPT !.lb = Patched(local.lb, base.lb, @),
                            !.ready = Patched(local.ready, base.ready, @)]

Finalized(o) == IF o.life = "deleting" /\ ~o.fin THEN [o EXCEPT !.life = "gone"] ELSE o

(* ValidateUpdate: an endpoint that is set cannot change. *)
Admitted(old, new) == old.ep # Nil => new.ep = old.ep

PatchFails ==
    \/ expired /\ UNCHANGED spent
    \/ ~Exists(yc) /\ UNCHANGED spent
    \/ Fault("patch")

(* Patch collects the errors of its three requests. *)
ErrorDropped == UNCHANGED res \* mutant: only the last request's error counts
PatchError == res' = "error"

PatchConds ==
    /\ pc = "conds"
    /\ pc' = "spec"
    /\ LET changed == MergeConds(base) # base
       IN \/ /\ changed => ~expired /\ Exists(yc)
             /\ yc' = MergeConds(yc)
             /\ UNCHANGED <<res, spent>>
          \/ /\ changed
             /\ PatchFails
             /\ PatchError
             /\ UNCHANGED yc
    /\ UNCHANGED <<cache, owned, paused, cloud, queued, base, local, expired>>

PatchSpec ==
    /\ pc = "spec"
    /\ pc' = "status"
    /\ LET changed == local.fin # base.fin \/ local.ep # base.ep
           legal   == Admitted(yc, MergeSpec(yc))
       IN \/ /\ changed => ~expired /\ Exists(yc) /\ legal
             /\ yc' = Finalized(MergeSpec(yc))
             /\ UNCHANGED <<res, spent>>
          \/ /\ changed
             /\ PatchFails \/ (~legal /\ UNCHANGED spent)
             /\ PatchError
             /\ UNCHANGED yc
    /\ UNCHANGED <<cache, owned, paused, cloud, queued, base, local, expired>>

(* The last patch and the return from Reconcile. *)
PatchStatus ==
    /\ pc = "status"
    /\ LET changed == MergeStatus(base) # base
       IN \/ /\ changed => ~expired /\ Exists(yc)
             /\ yc' = MergeStatus(yc)
             /\ queued' = (queued \/ res # "none")
             /\ UNCHANGED spent
          \/ /\ changed
             /\ PatchFails
             /\ queued' = TRUE
             /\ UNCHANGED yc
    /\ Rest
    /\ UNCHANGED <<cache, owned, paused, cloud>>

Crash == Fault("crash") /\ Restart

-----------------------------------------------------------------------------
Environment ==
    \/ CreateCluster \/ DeleteCluster \/ SetOwnerRef \/ Pause \/ Unpause
    \/ BalancerStarted \/ BalancerDeleted \/ BalancerLost \/ BalancerReplaced
    \/ GroupLost
    \/ Timeout

Reconcile ==
    \/ ReconcileTargetGroup \/ ReconcileBackendGroup \/ ReconcileBalancer
    \/ WaitBalancer \/ IsActive \/ Describe
    \/ DeleteBalancer \/ DeleteBackendGroup \/ DeleteTargetGroup
    \/ PatchConds \/ PatchSpec \/ PatchStatus

Next == Environment \/ CacheSync \/ Skip \/ Begin \/ Reconcile \/ Crash

(* As in YandexMachine; the cloud ends what it starts. *)
Fairness ==
    /\ WF_vars(CacheSync)
    /\ WF_vars(Skip \/ Begin)
    /\ WF_vars(Reconcile)
    /\ WF_vars(BalancerStarted)
    /\ WF_vars(BalancerDeleted)

Spec == Init /\ [][Next]_vars
FairSpec == Spec /\ Fairness

-----------------------------------------------------------------------------
(***************************************************************************)
(* Properties.                                                             *)
(***************************************************************************)

Spent(kinds) == \E k \in kinds : spent[k] > 0

(***************************************************************************)
(* The promise of ClusterFinalizer: a YandexCluster that is gone leaves    *)
(* nothing behind in the cloud, whatever crashed, failed, timed out or was *)
(* read late.                                                              *)
(***************************************************************************)
NothingLeft == ~Exists(yc) => ~tg /\ ~bg /\ alb.st = "none"

(***************************************************************************)
(* reconcileALBService creates each resource with the id of the one below, *)
(* and deleteALBService waits for each to be gone before it deletes the    *)
(* one below: unless somebody deletes a group by hand, a balancer always   *)
(* forwards to the backend group, and the backend group to the target      *)
(* group, that exist.                                                      *)
(***************************************************************************)
TeardownOrder ==
    ~Spent({"group"}) =>
        /\ alb.st # "none" => bg /\ ("alb" \in links \/ Spent({"replaced"}))
        /\ bg => tg /\ "bg" \in links

(***************************************************************************)
(* Why these two hold: an inductive strengthening of them.                 *)
(***************************************************************************)

(* Resources exist only under a finalizer, and only one above the other. *)
ResourcesInv ==
    /\ yc.life \in {"none", "gone"} => ~yc.fin
    /\ yc.life = "none" => yc.ep = Nil
    /\ yc.life = "deleting" => yc.fin
    /\ tg \/ bg \/ alb.st # "none" => Exists(yc) /\ yc.fin
    /\ TeardownOrder

(* A view lags behind, but an object it shows with a finalizer and without  *)
(* a deletion timestamp still has the finalizer.                           *)
Lags(view) ==
    /\ view.life = "live" /\ view.fin => Exists(yc) /\ yc.fin
    /\ view.life = "deleting" => view.fin
    /\ view.life # "none" => yc.life # "none"
    /\ view.life \in {"deleting", "gone"} => yc.life \in {"deleting", "gone"}

(* The worker: what holds at each of its steps. *)
WorkerInv ==
    /\ pc # "idle" =>
          /\ Lags(base)
          /\ base.life \in {"live", "deleting"}
          /\ base.life = "deleting" => cache.life \in {"deleting", "gone"}
    /\ pc \in {"target", "backend", "balancer", "wait", "active", "describe"} =>
          base.life = "live" /\ base.fin /\ local.fin
    /\ pc \in {"backend", "balancer"} => tg \/ Spent({"group"})
    /\ pc = "balancer" => bg \/ Spent({"group"})
    /\ pc \in {"delBalancer", "delBackend", "delTarget"} =>
          base.life = "deleting" /\ local.fin
    /\ pc \in {"delBackend", "delTarget"} => alb.st = "none"
    /\ pc = "delTarget" => ~bg
    /\ pc \in {"conds", "spec"} /\ ~local.fin =>
          base.life = "deleting" /\ ~tg /\ ~bg /\ alb.st = "none"

(* The conjunction of the above, which every step preserves. *)
ClusterInv == ResourcesInv /\ Lags(cache) /\ WorkerInv

(***************************************************************************)
(* The controller never answers the loss of the balancer by making one     *)
(* under another address than the endpoint that clients already use.       *)
(***************************************************************************)
EndpointReachable ==
    ~Spent({"stale", "replaced", "preset"}) => (yc.ep # Nil /\ alb.st # "none" => alb.addr = yc.ep)

(***************************************************************************)
(* Ready tells the Cluster API to read the endpoint, so the endpoint must  *)
(* be there first.  The patches of one Close fail on their own: after a    *)
(* failed patch of the spec, or one that the webhook refused because it    *)
(* came from a stale read, the cluster is Ready without its endpoint, and  *)
(* then a reconcile that repairs it is on its way.                         *)
(***************************************************************************)
Announced(o) == o.ready /\ o.ep # Nil /\ o.lb = o.ep

Pending == queued \/ cache # yc \/ pc # "idle"

ReadyHasEndpoint ==
    yc.ready =>
        \/ Announced(yc)
        \/ Spent({"patch", "stale"}) /\ (yc.life # "live" \/ paused \/ Pending)

(***************************************************************************)
(* Why these two hold: an inductive strengthening, beside ClusterInv.      *)
(***************************************************************************)

(* Describe has found a listener that this reconcile is going to save. *)
Noted ==
    \/ local.ep # base.ep
    \/ local.lb # base.lb
    \/ local.ready # base.ready

(* The worker's snapshot is current, and only Describe adds to it.  A       *)
(* listener goes into spec and status alike.                                *)
SnapshotInv ==
    pc # "idle" =>
        /\ base.want = yc.want /\ local.want = yc.want
        /\ yc.ready = base.ready /\ yc.lb = base.lb
        /\ yc.ep = base.ep \/ (pc = "status" /\ yc.ep = local.ep)
        /\ Noted => /\ pc \in {"conds", "spec", "status"}
                    /\ local.ready /\ local.ep # Nil /\ local.lb = local.ep
                    /\ base.ep \in {Nil, local.ep}

(* Endpoint, wanted listener and balancer agree, the endpoint that is about *)
(* to be saved included.                                                    *)
ReachInv ==
    ~Spent({"replaced", "preset"}) =>
        /\ yc.ep # Nil /\ alb.st # "none" => alb.addr = yc.ep
        /\ yc.want # Nil => /\ yc.ep \in {Nil, yc.want}
                            /\ alb.st # "none" => alb.addr = yc.want
        /\ pc # "idle" /\ local.ep # base.ep =>
              /\ alb.st # "none" => alb.addr = local.ep
              /\ yc.want # Nil => local.ep = yc.want

(* A patch of the spec that was refused is followed by one of the status    *)
(* that will be refused for the same reason.                                *)
ReadyInv ==
    ~Spent({"patch"}) =>
        /\ yc.ready => yc.ep # Nil /\ yc.lb = yc.ep
        /\ pc = "status" => yc.ep = local.ep \/ expired \/ ~Exists(yc)

(* EndpointReachable and ReadyHasEndpoint, while no view lags. *)
EndpointInv == ~Spent({"stale"}) => SnapshotInv /\ ReachInv /\ ReadyInv

(***************************************************************************)
(* A YandexCluster that is Ready, or that a view shows or a reconcile is   *)
(* about to report Ready, has an active balancer until it is deleted, as   *)
(* long as nobody removes or replaces the balancer by hand.                *)
(***************************************************************************)
ActiveInv ==
    /\ yc.life = "none" => ~yc.ready /\ ~cache.ready
    /\ pc = "idle" => ~base.ready /\ ~local.ready
    /\ ~Spent({"lost", "replaced"}) /\ yc.life = "live" =>
          (yc.ready \/ cache.ready \/ base.ready \/ local.ready \/ pc = "describe"
              => alb.st = "ACTIVE")

(***************************************************************************)
(* No wake-up is lost.  Reconcile returns without a requeue at its gates,  *)
(* when it is done and when it waits for an event; so whenever the cluster *)
(* is being deleted, or is owned and not yet Ready with its endpoint, and  *)
(* is not paused, its key is in the queue, the informer still owes an      *)
(* event, or the worker is at it.                                          *)
(***************************************************************************)
Unfinished ==
    /\ ~paused
    /\ \/ yc.life = "deleting"
       \/ yc.life = "live" /\ owned /\ ~Announced(yc)

NotForgotten == Unfinished => Pending

(* Why: a reconcile that read the object in its present phase ends with a   *)
(* requeue or with the work done and saved; one that read it in an earlier  *)
(* phase is followed by the event of the change, and so is one whose own    *)
(* patches changed it.                                                     *)
WakeInv ==
    /\ yc.life = "none" => ~owned
    /\ yc.fin \/ yc.ready \/ pc # "idle" => owned
    /\ pc # "idle" => queued \/ cache = base
    /\ Unfinished /\ yc.life = "deleting" =>
          \/ queued
          \/ cache.life # "deleting"
          \/ pc # "idle" /\ base.life = "deleting"
    /\ Unfinished /\ yc.life = "live" => Pending
    /\ pc \in {"conds", "spec", "status"} /\ res = "none" =>
          /\ base.life = "live" =>
                /\ Announced(local)
                /\ pc = "status" /\ local.ep # base.ep => yc.ep = local.ep
          /\ base.life = "deleting" => ~local.fin /\ (pc = "status" => yc.life = "gone")

(***************************************************************************)
(* The invariants that the properties about the endpoint, the balancer of  *)
(* a Ready cluster and wake-ups rest on.                                   *)
(***************************************************************************)
SupportInv == EndpointInv /\ ActiveInv /\ WakeInv

(***************************************************************************)
(* With the Cluster unpaused for good, a deleted YandexCluster goes away.  *)
(***************************************************************************)
DeletionCompletes == <>[]~paused => ((yc.life = "deleting") ~> (yc.life = "gone"))

(***************************************************************************)
(* Likewise, an owned YandexCluster becomes Ready and shows its endpoint,  *)
(* unless it is deleted, somebody removed or replaced its balancer, or the *)
(* user set an endpoint that is not the listener address he asked for.     *)
(***************************************************************************)
ProvisioningCompletes ==
    <>[]~paused =>
        ((yc.life = "live" /\ owned)
            ~> (\/ yc.life # "live"
                \/ Announced(yc)
                \/ Spent({"lost", "replaced"})
                \/ Spent({"preset"}) /\ yc.ep # yc.want))

(***************************************************************************)
(* The abstract specification: the YandexCluster is an object with a       *)
(* finalizer that owns its three resources in the cloud.                   *)
(***************************************************************************)
Finalizer ==
    INSTANCE FinalizedObjects WITH
        Objects   <- {"yc"},
        Resources <- {"tg", "bg", "alb"},
        life      <- [o \in {"yc"} |-> yc.life],
        fin       <- [o \in {"yc"} |-> yc.fin],
        held      <- [o \in {"yc"} |-> {r \in {"tg", "bg", "alb"} :
                                           \/ r = "tg" /\ tg
                                           \/ r = "bg" /\ bg
                                           \/ r = "alb" /\ alb.st # "none"}],
        leaked    <- {},
        faulty    <- FALSE

(***************************************************************************)
(* The controller implements it, and nothing ever leaks: every resource is *)
(* created while the YandexCluster has ClusterFinalizer in the API server, *)
(* and the finalizer is removed only when all of them are gone.            *)
(***************************************************************************)
FinalizerRespected == Finalizer!Spec

(***************************************************************************)
(* "When load balancer is active, fetch his status": at the call of        *)
(* Describe there is a balancer to describe.                               *)
(***************************************************************************)
DescribeFindsBalancer == pc = "describe" => alb.st # "none"
=============================================================================
