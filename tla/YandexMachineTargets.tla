----------------------- MODULE YandexMachineTargets -----------------------
(***************************************************************************)
(* Proofs about what the YandexMachine controller tells and does to the    *)
(* outside: the failure reason, and the targets of the load balancer.      *)
(***************************************************************************)
EXTENDS YandexMachineProofs

-----------------------------------------------------------------------------
(***************************************************************************)
(* What each step does to the fields of the status.                        *)
(***************************************************************************)

(* Patches of conditions, metadata and spec leave the status alone, and a   *)
(* patch of the status sets what the reconcile changed.                     *)
LEMMA PatchFacts ==
    ASSUME TypeOK, NEW o \in Object
    PROVE  /\ /\ MergeConds(o).addr = o.addr
              /\ MergeConds(o).ready = o.ready
              /\ MergeConds(o).failed = o.failed
           /\ LET n == Finalized(MergeSpec(o))
              IN  n.addr = o.addr /\ n.ready = o.ready /\ n.failed = o.failed
           /\ /\ MergeStatus(o).addr = IF local.addr = base.addr THEN o.addr ELSE local.addr
              /\ MergeStatus(o).ready = IF local.ready = base.ready THEN o.ready ELSE local.ready
              /\ MergeStatus(o).failed = IF local.failed = base.failed THEN o.failed ELSE local.failed
  <1>1. /\ MergeConds(o).addr = o.addr
        /\ MergeConds(o).ready = o.ready
        /\ MergeConds(o).failed = o.failed
    BY DEF Object, MergeConds
  <1>2. LET n == Finalized(MergeSpec(o))
        IN  n.addr = o.addr /\ n.ready = o.ready /\ n.failed = o.failed
    BY DEF Object, MergeSpec, Finalized
  <1>3. /\ MergeStatus(o).addr = IF local.addr = base.addr THEN o.addr ELSE local.addr
        /\ MergeStatus(o).ready = IF local.ready = base.ready THEN o.ready ELSE local.ready
        /\ MergeStatus(o).failed = IF local.failed = base.failed THEN o.failed ELSE local.failed
    BY DEF Object, MergeStatus, Patched
  <1>4. QED
    BY <1>1, <1>2, <1>3

(* The fields that an operation on the object under reconcile keeps. *)
SameButStatus(o, n) == n.life = o.life /\ n.fin = o.fin /\ n.pid = o.pid

(* compute.Reconcile's lookup: the address of a running instance is noted;  *)
(* a control plane machine is not Ready before its registration.            *)
LEMMA GetFacts ==
    ASSUME TypeOK, WorkerInv, ComputeGet
    PROVE  /\ pc = "get" /\ local.pid \in Instances
           /\ cur' = cur /\ base' = base /\ SameButStatus(local, local')
           /\ local'.addr \in {local.addr, Addr[local.pid]}
           /\ \/ pc' = "conds"
              \/ pc' = "addTarget" /\ cur \in ControlPlane /\ local'.addr = Addr[local.pid]
           /\ cur \in ControlPlane => local'.ready = local.ready
           /\ inst[local.pid].st \in {"PROVISIONING", "RUNNING"} => local'.failed = local.failed
  <1>1. pc = "get" /\ local.pid \in Instances /\ local \in Object
    BY DEF TypeOK, Object, ComputeGet, WorkerInv
  <1> DEFINE o == [local EXCEPT !.addr = Addr[local.pid]]
             Kept(n) == /\ n \in Object /\ SameButStatus(local, n)
                        /\ n.ready = local.ready /\ n.failed = local.failed
  <1>2. Kept(o) /\ o.addr = Addr[local.pid]
    BY <1>1, ConstantsAssumption DEF Object, SameButStatus
  <1>3. \A r \in {"True", "False", "Unknown"} :
            Kept([local EXCEPT !.run = r]) /\ [local EXCEPT !.run = r].addr = local.addr
    BY <1>1 DEF Object, SameButStatus
  <1>4. Kept(local)
    BY <1>1 DEF SameButStatus
  <1>5. ASSUME NEW n, Kept(n), NEW s \in InstanceStatus, Conclude(n, s)
        PROVE  /\ pc' = "conds" /\ cur' = cur /\ base' = base
               /\ SameButStatus(local, local') /\ local'.addr = n.addr
               /\ s # "RUNNING" => local'.ready = local.ready
               /\ s \in {"PROVISIONING", "RUNNING"} => local'.failed = local.failed
    BY <1>5 DEF Conclude, Return, Object, SameButStatus
  <1>6. ASSUME NEW n, Kept(n), Return(n, "error")
        PROVE  /\ pc' = "conds" /\ cur' = cur /\ base' = base
               /\ SameButStatus(local, local') /\ local'.addr = n.addr
               /\ local'.ready = local.ready
               /\ local'.failed = local.failed
    BY <1>6 DEF Return
  <1>7. CASE inst[local.pid].st = "RUNNING" /\ cur \in ControlPlane /\ Goto("addTarget", o)
    BY <1>1, <1>2, <1>7 DEF Goto
  <1>8. CASE inst[local.pid].st = "RUNNING" /\ cur \notin ControlPlane /\ Conclude(o, "RUNNING")
    <2>1. "RUNNING" \in InstanceStatus
      BY DEF InstanceStatus, LiveStatus
    <2> HIDE DEF o
    <2>2. QED
      BY <1>1, <1>2, <1>5, <1>8, <2>1
  <1>9. CASE /\ inst[local.pid].st \in LiveStatus \ {"RUNNING"}
             /\ Conclude(local, inst[local.pid].st)
    <2>1. inst[local.pid].st \in InstanceStatus
      BY <1>9 DEF InstanceStatus
    <2>2. QED
      BY <1>1, <1>4, <1>5, <1>9, <2>1
  <1>10. CASE /\ inst[local.pid].st = "gone"
              /\ Conclude([local EXCEPT !.run = "False"], "DELETED")
    <2>1. "DELETED" \in InstanceStatus
      BY DEF InstanceStatus
    <2> HIDE DEF o
    <2>2. QED
      BY <1>1, <1>3, <1>5, <1>10, <2>1
  <1>11. CASE \E r \in {"False", "Unknown"} : Return([local EXCEPT !.run = r], "error")
    <2> HIDE DEF o
    <2>2. QED
      BY <1>1, <1>3, <1>6, <1>11
  <1>12. QED
    BY <1>7, <1>8, <1>9, <1>10, <1>11 DEF ComputeGet, SetAddresses

(* registerControlPlane: Ready only with the address registered. *)
LEMMA AddFacts ==
    ASSUME TypeOK, WorkerInv, AddTarget
    PROVE  /\ pc = "addTarget" /\ local.pid \in Instances
           /\ pc' = "conds" /\ cur' = cur /\ base' = base /\ SameButStatus(local, local')
           /\ local'.addr = local.addr /\ local'.failed = local.failed
           /\ targets' \in {targets, targets \cup {local.addr}}
           /\ local'.ready # local.ready => local'.ready /\ local.addr \in targets'
  <1>1. pc = "addTarget" /\ local.pid \in Instances /\ local \in Object
    BY DEF TypeOK, Object, AddTarget, WorkerInv
  <1>2. CASE Return(local, "error")
    BY <1>1, <1>2 DEF AddTarget, Return, WithTarget, SameButStatus
  <1>3. CASE Conclude(local, "RUNNING") /\ targets' = targets \cup {local.addr}
    BY <1>1, <1>3 DEF Conclude, Return, Object, SameButStatus
  <1>4. QED
    BY <1>2, <1>3 DEF AddTarget, WithTarget

(* compute.Delete's lookup: the instance of a control plane machine goes     *)
(* through the deregistration first.                                        *)
LEMMA DeleteGetFacts ==
    ASSUME TypeOK, WorkerInv, DeleteGet
    PROVE  /\ pc = "delGet" /\ local.pid \in Instances
           /\ pc' \in {"conds", "dereg", "deregGone", "vmDelete"}
           /\ cur' = cur /\ base' = base
           /\ local'.life = local.life /\ local'.pid = local.pid /\ local'.addr = local.addr
           /\ local'.ready = local.ready /\ local'.failed = local.failed
           /\ pc' = "vmDelete" => cur \notin ControlPlane
           /\ pc' \in {"dereg", "deregGone"} => cur \in ControlPlane
           /\ local'.fin # local.fin => cur \notin ControlPlane
  <1>1. pc = "delGet" /\ local.pid \in Instances /\ local \in Object
    BY DEF TypeOK, Object, DeleteGet, WorkerInv
  <1> DEFINE Kept(n) == /\ n.life = local.life /\ n.pid = local.pid /\ n.addr = local.addr
                        /\ n.ready = local.ready /\ n.failed = local.failed
  <1>2. Kept([local EXCEPT !.fin = FALSE])
    BY <1>1 DEF Object
  <1>3. LET o == [local EXCEPT !.st = inst[local.pid].st]
        IN  Kept(o) /\ o.fin = local.fin
    BY <1>1 DEF Object
  <1>4. QED
    BY <1>1, <1>2, <1>3 DEF DeleteGet, Goto, Return

(* deregisterControlPlane: what follows it finds the address deregistered. *)
LEMMA RemoveFacts ==
    ASSUME TypeOK, WorkerInv, RemoveTarget
    PROVE  /\ pc \in {"dereg", "deregGone"} /\ local.pid \in Instances
           /\ pc' \in {"conds", "vmDelete"} /\ cur' = cur /\ base' = base
           /\ local'.life = local.life /\ local'.pid = local.pid /\ local'.addr = local.addr
           /\ local'.ready = local.ready /\ local'.failed = local.failed
           /\ targets \ {local.addr} \subseteq targets' /\ targets' \subseteq targets
           /\ pc' = "vmDelete" \/ local'.fin # local.fin => local.addr \notin targets'
  <1>1. /\ pc \in {"dereg", "deregGone"} /\ local.pid \in Instances /\ local \in Object
        /\ Nil \notin targets
    BY ConstantsAssumption DEF TypeOK, Object, RemoveTarget, WorkerInv
  <1>2. LET n == [local EXCEPT !.fin = FALSE]
        IN  /\ n.life = local.life /\ n.pid = local.pid /\ n.addr = local.addr
            /\ n.ready = local.ready /\ n.failed = local.failed
    BY <1>1 DEF Object
  <1>3. QED
    BY <1>1, <1>2 DEF RemoveTarget, WithoutTarget, Goto, Return

(* A user creates an object or asks for its deletion. *)
LEMMA UserFacts ==
    ASSUME TypeOK, NEW m \in Machines, CreateMachine(m) \/ DeleteMachine(m)
    PROVE  /\ \A n \in Machines :
                 /\ ym'[n].fin = ym[n].fin /\ ym'[n].pid = ym[n].pid
                 /\ ym'[n].addr = ym[n].addr /\ ym'[n].ready = ym[n].ready
                 /\ ym'[n].failed = ym[n].failed
                 /\ n # m => ym'[n].life = ym[n].life
           /\ \/ ym[m].life = "none" /\ ym'[m].life = "live"
              \/ ym[m].life = "live" /\ ym[m].fin /\ ym'[m].life = "deleting"
              \/ ym[m].life = "live" /\ ~ym[m].fin /\ ym'[m].life = "gone"
           /\ UNCHANGED <<cache, inst, late, targets, pc, cur, base, local, lost, lostAddr, spent>>
  <1>1. PICK l \in {"live", "deleting", "gone"} :
            /\ ym' = [ym EXCEPT ![m] = [ym[m] EXCEPT !.life = l]]
            /\ \/ ym[m].life = "none" /\ l = "live"
               \/ ym[m].life = "live" /\ l = IF ym[m].fin THEN "deleting" ELSE "gone"
    BY DEF CreateMachine, DeleteMachine
  <1>2. LET o == [ym[m] EXCEPT !.life = l]
        IN  /\ o.life = l /\ o.fin = ym[m].fin /\ o.pid = ym[m].pid
            /\ o.addr = ym[m].addr /\ o.ready = ym[m].ready /\ o.failed = ym[m].failed
    BY DEF TypeOK, Object
  <1>3. UNCHANGED <<cache, inst, late, targets, pc, cur, base, local, lost, lostAddr, spent>>
    BY DEF CreateMachine, DeleteMachine, cloud, worker, memory
  <1>4. QED
    BY <1>1, <1>2, <1>3 DEF TypeOK, Object

(* The finalizer and the conditions are written. *)
LEMMA FinAndCondsFacts ==
    ASSUME TypeOK, AddFinalizer \/ PatchConds
    PROVE  /\ \A n \in Machines :
                 /\ ym'[n].life = ym[n].life /\ ym'[n].pid = ym[n].pid
                 /\ ym'[n].addr = ym[n].addr /\ ym'[n].ready = ym[n].ready
                 /\ ym'[n].failed = ym[n].failed
           /\ UNCHANGED <<cache, inst, late, targets, cur, base, lost, lostAddr>>
           /\ local'.life = local.life /\ local'.pid = local.pid /\ local'.addr = local.addr
           /\ local'.ready = local.ready /\ local'.failed = local.failed
           /\ cur \in Machines /\ pc # "idle"
           /\ \/ AddFinalizer /\ pc = "finalizer" /\ pc' \in {"create", "get", "conds"}
              \/ PatchConds /\ pc = "conds" /\ pc' = "spec" /\ local' = local
  <1>1. /\ cur \in Machines /\ pc # "idle" /\ ym[cur] \in Object /\ local \in Object
        /\ \/ AddFinalizer /\ pc = "finalizer" /\ pc' \in {"create", "get", "conds"}
           \/ PatchConds /\ pc = "conds" /\ pc' = "spec" /\ local' = local
    BY DEF TypeOK, AddFinalizer, PatchConds, Goto, Return
  <1> DEFINE Kept(n) == /\ n.life = ym[cur].life /\ n.pid = ym[cur].pid
                        /\ n.addr = ym[cur].addr /\ n.ready = ym[cur].ready
                        /\ n.failed = ym[cur].failed
  <1>2. Kept([ym[cur] EXCEPT !.fin = TRUE])
    BY <1>1 DEF Object
  <1>3. Kept(MergeConds(ym[cur]))
    BY <1>1, PatchFacts, MergeCondsFacts
  <1>4. \A n \in Machines :
            /\ ym'[n].life = ym[n].life /\ ym'[n].pid = ym[n].pid
            /\ ym'[n].addr = ym[n].addr /\ ym'[n].ready = ym[n].ready
            /\ ym'[n].failed = ym[n].failed
    <2>1. \/ ym' = ym
          \/ \E n : Kept(n) /\ ym' = [ym EXCEPT ![cur] = n]
      <3> HIDE DEF Kept
      <3>1. QED
        BY <1>2, <1>3 DEF AddFinalizer, PatchConds
    <2>2. QED
      BY <1>1, <2>1 DEF TypeOK
  <1>5. local' = local \/ local' = [local EXCEPT !.fin = TRUE]
    BY DEF AddFinalizer, PatchConds, Goto, Return
  <1>6. /\ local'.life = local.life /\ local'.pid = local.pid /\ local'.addr = local.addr
        /\ local'.ready = local.ready /\ local'.failed = local.failed
    BY <1>1, <1>5 DEF Object
  <1>7. UNCHANGED <<cache, inst, late, targets, cur, base, lost, lostAddr>>
    BY DEF AddFinalizer, PatchConds, cloud, Goto, Return
  <1>8. QED
    BY <1>1, <1>4, <1>6, <1>7

(* Metadata and spec are written, or the patch fails. *)
LEMMA SpecFacts ==
    ASSUME TypeOK, PatchSpec
    PROVE  /\ pc = "spec" /\ pc' = "status" /\ cur \in Machines
           /\ UNCHANGED <<cache, inst, late, targets, cur, base, local, lostAddr>>
           /\ \A n \in Machines :
                 /\ ym'[n].addr = ym[n].addr /\ ym'[n].ready = ym[n].ready
                 /\ ym'[n].failed = ym[n].failed
                 /\ n # cur => ym'[n] = ym[n]
           /\ \/ ym' = ym /\ lost' = lost \cup FreshPid
              \/ /\ ym'[cur].pid = IF local.pid = base.pid THEN ym[cur].pid ELSE local.pid
                 /\ ym'[cur].fin = IF local.fin = base.fin THEN ym[cur].fin ELSE local.fin
                 /\ ym'[cur].life = IF ym[cur].life = "deleting" /\ ~ym'[cur].fin
                                    THEN "gone" ELSE ym[cur].life
                 /\ lost' = lost \cup Overlooked
  <1> DEFINE n == Finalized(MergeSpec(ym[cur]))
  <1>1. /\ pc = "spec" /\ pc' = "status" /\ cur \in Machines /\ ym[cur] \in Object
        /\ UNCHANGED <<cache, inst, late, targets, cur, base, local, lostAddr>>
    BY DEF TypeOK, PatchSpec, cloud
  <1>2. /\ n.fin = IF local.fin = base.fin THEN ym[cur].fin ELSE local.fin
        /\ n.pid = IF local.pid = base.pid THEN ym[cur].pid ELSE local.pid
        /\ n.life = IF ym[cur].life = "deleting" /\ ~n.fin THEN "gone" ELSE ym[cur].life
        /\ n.addr = ym[cur].addr /\ n.ready = ym[cur].ready /\ n.failed = ym[cur].failed
    BY <1>1, MergeSpecFacts, PatchFacts
  <1>3. \/ ym' = ym /\ lost' = lost \cup FreshPid
        \/ ym' = [ym EXCEPT ![cur] = n] /\ lost' = lost \cup Overlooked
    BY DEF PatchSpec
  <1> HIDE DEF n
  <1>4. QED
    BY <1>1, <1>2, <1>3 DEF TypeOK

(* The status is written, or the patch fails, or the object is gone. *)
LEMMA StatusFacts ==
    ASSUME TypeOK, PatchStatus
    PROVE  /\ pc = "status" /\ pc' = "idle" /\ cur \in Machines
           /\ UNCHANGED <<cache, inst, late, targets, lost>>
           /\ cur' = Nil /\ base' = Absent /\ local' = Absent
           /\ \A n \in Machines :
                 /\ ym'[n].life = ym[n].life /\ ym'[n].fin = ym[n].fin
                 /\ ym'[n].pid = ym[n].pid
                 /\ n # cur => ym'[n] = ym[n]
           /\ \/ /\ Exists(ym[cur])
                 /\ ym'[cur].addr = IF local.addr = base.addr THEN ym[cur].addr ELSE local.addr
                 /\ ym'[cur].ready = IF local.ready = base.ready THEN ym[cur].ready ELSE local.ready
                 /\ ym'[cur].failed = IF local.failed = base.failed THEN ym[cur].failed ELSE local.failed
                 /\ lostAddr' = lostAddr \ FreshAddr
              \/ /\ ym' = ym
                 /\ local.addr = base.addr \/ local.life = "deleting"
                 /\ lostAddr' = lostAddr \ FreshAddr
              \/ ym' = ym /\ lostAddr' = lostAddr \cup FreshAddr
  <1> DEFINE n == MergeStatus(ym[cur])
  <1>1. /\ pc = "status" /\ pc' = "idle" /\ cur \in Machines /\ ym[cur] \in Object
        /\ base \in Object /\ local \in Object
        /\ UNCHANGED <<cache, inst, late, targets, lost>>
        /\ cur' = Nil /\ base' = Absent /\ local' = Absent
    BY DEF TypeOK, PatchStatus, Rest, cloud
  <1>2. /\ n.fin = ym[cur].fin /\ n.pid = ym[cur].pid /\ n.life = ym[cur].life
        /\ n.addr = IF local.addr = base.addr THEN ym[cur].addr ELSE local.addr
        /\ n.ready = IF local.ready = base.ready THEN ym[cur].ready ELSE local.ready
        /\ n.failed = IF local.failed = base.failed THEN ym[cur].failed ELSE local.failed
    BY <1>1, MergeStatusFacts, PatchFacts
  <1>3. MergeStatus(base) = base => local.addr = base.addr
    BY <1>1, PatchFacts
  <1>4. \/ /\ Exists(ym[cur])
           /\ ym' = [ym EXCEPT ![cur] = n] /\ lostAddr' = lostAddr \ FreshAddr
        \/ /\ ym' = ym
           /\ MergeStatus(base) = base \/ local.life = "deleting"
           /\ lostAddr' = lostAddr \ FreshAddr
        \/ ym' = ym /\ lostAddr' = lostAddr \cup FreshAddr
    BY DEF PatchStatus
  <1> HIDE DEF n
  <1>5. QED
    BY <1>1, <1>2, <1>3, <1>4 DEF TypeOK

(* An instance is created, or the call fails. *)
LEMMA CreateFacts ==
    ASSUME TypeOK, WorkerInv, ComputeCreate
    PROVE  /\ pc = "create" /\ cur \in Machines
           /\ UNCHANGED <<ym, cache, targets, cur, base, lostAddr>>
           /\ local.pid = Nil /\ base.pid = Nil /\ base.life = "live"
           /\ local'.life = local.life /\ local'.fin = local.fin /\ local'.addr = local.addr
           /\ local'.ready = local.ready /\ local'.failed = local.failed
           /\ \/ inst' = inst /\ lost' = lost /\ local'.pid = Nil /\ pc' = "conds"
              \/ \E i \in Instances :
                    /\ inst[i].st = "none"
                    /\ inst' = [inst EXCEPT ![i] = [m |-> cur, st |-> "PROVISIONING"]]
                    /\ \/ pc' = "get" /\ local'.pid = i /\ lost' = lost
                       \/ pc' = "conds" /\ local'.pid = Nil /\ lost' = lost \cup {i}
  <1>1. /\ pc = "create" /\ cur \in Machines /\ local \in Object
        /\ local.pid = Nil /\ base.pid = Nil /\ base.life = "live"
    BY DEF TypeOK, ComputeCreate, WorkerInv
  <1> DEFINE failed == [local EXCEPT !.run = "False"]
             made(i) == [local EXCEPT !.pid = i]
  <1>2. /\ failed.life = local.life /\ failed.fin = local.fin /\ failed.addr = local.addr
        /\ failed.ready = local.ready /\ failed.failed = local.failed /\ failed.pid = Nil
    BY <1>1 DEF Object
  <1>3. \A i \in Instances :
            /\ made(i).life = local.life /\ made(i).fin = local.fin /\ made(i).addr = local.addr
            /\ made(i).ready = local.ready /\ made(i).failed = local.failed /\ made(i).pid = i
    BY <1>1 DEF Object
  <1>4. UNCHANGED <<ym, cache, targets, cur, base, lostAddr>>
    BY DEF ComputeCreate, k8s, Goto, Return
  <1>5. \/ Return(failed, "error") /\ inst' = inst /\ lost' = lost
        \/ \E i \in Instances :
              /\ inst[i].st = "none"
              /\ inst' = [inst EXCEPT ![i] = [m |-> cur, st |-> "PROVISIONING"]]
              /\ \/ Goto("get", made(i)) /\ lost' = lost
                 \/ Return(failed, "error") /\ lost' = lost \cup {i}
    BY DEF ComputeCreate, Free
  <1> HIDE DEF failed, made
  <1>6. QED
    BY <1>1, <1>2, <1>3, <1>4, <1>5 DEF Goto, Return

(* The deletion of the instance is accepted, or the call fails. *)
LEMMA DeleteFacts ==
    ASSUME TypeOK, WorkerInv, ComputeDelete
    PROVE  /\ pc = "vmDelete" /\ pc' = "conds" /\ cur \in Machines
           /\ UNCHANGED <<ym, cache, targets, cur, base, local, lost, lostAddr>>
           /\ local.pid \in Instances /\ local.pid = base.pid /\ base.life = "deleting"
           /\ local.fin = base.fin
           /\ \/ inst' = inst
              \/ Alive(local.pid) /\ inst' = [inst EXCEPT ![local.pid].st = "DELETING"]
  BY DEF TypeOK, Object, WorkerInv, ComputeDelete, Return, k8s

(* The object read from the cache is the one in the API server, or stale.  *)
LEMMA BeginFacts ==
    ASSUME TypeOK, NEW m \in Machines, Begin(m)
    PROVE  /\ pc = "idle" /\ cur' = m /\ base' = cache[m]
           /\ UNCHANGED <<ym, cache, inst, late, targets, lost, lostAddr>>
           /\ local'.life = base'.life /\ local'.pid = base'.pid /\ local'.addr = base'.addr
           /\ local'.ready = base'.ready /\ local'.failed = base'.failed
           /\ pc' \in {"conds", "delGet", "finalizer"}
           /\ pc' # "conds" => local' = base'
           /\ pc' = "conds" => base'.pid = Nil
           /\ pc' = "delGet" => base'.life = "deleting"
           /\ ~Spent({"stale"})' => cache[m] = ym[m]
  <1>1. /\ pc = "idle" /\ cur' = m /\ base' = cache[m] /\ cache[m] \in Object
        /\ UNCHANGED <<ym, cache, inst, late, targets, lost, lostAddr>>
    BY DEF TypeOK, Begin, Take, k8s, cloud
  <1>2. \/ /\ local' = cache[m] /\ pc' \in {"delGet", "finalizer"}
           /\ pc' = "delGet" => cache[m].life = "deleting"
        \/ /\ local' = [cache[m] EXCEPT !.fin = FALSE] /\ pc' = "conds"
           /\ cache[m].pid = Nil
    BY DEF Begin
  <1>3. \A k \in {"stale"} : ~Spent({k})' => cache[m] = ym[m]
    BY DEF TypeOK, Begin, Take, Fault, Spent, FaultKinds
  <1>4. /\ local'.life = base'.life /\ local'.pid = base'.pid /\ local'.addr = base'.addr
        /\ local'.ready = base'.ready /\ local'.failed = base'.failed
    BY <1>1, <1>2 DEF Object
  <1>5. QED
    BY <1>1, <1>2, <1>3, <1>4

-----------------------------------------------------------------------------
(***************************************************************************)
(* A failure reason has a cause.                                           *)
(***************************************************************************)

(* UndisturbedInv is preserved by every step. *)
LEMMA UndisturbedStep ==
    ASSUME TypeOK, MachineInv, UndisturbedInv, [Next]_vars
    PROVE  UndisturbedInv'
  <1> SUFFICES ASSUME ~Spent({"vm", "stale"})'
               PROVE  /\ \A m \in Machines : ~ym'[m].failed /\ ~cache'[m].failed
                      /\ ~base'.failed /\ ~local'.failed
                      /\ \A i \in Instances :
                            inst'[i].st \notin {"none", "PROVISIONING", "RUNNING"} =>
                                ym'[inst'[i].m].life \in {"deleting", "gone"}
                      /\ base'.life = "live" /\ local'.pid # Nil =>
                            inst'[local'.pid].st \in {"PROVISIONING", "RUNNING"}
    BY DEF UndisturbedInv
  <1> DEFINE Goal == /\ \A m \in Machines : ~ym'[m].failed /\ ~cache'[m].failed
                     /\ ~base'.failed /\ ~local'.failed
                     /\ \A i \in Instances :
                           inst'[i].st \notin {"none", "PROVISIONING", "RUNNING"} =>
                               ym'[inst'[i].m].life \in {"deleting", "gone"}
                     /\ base'.life = "live" /\ local'.pid # Nil =>
                           inst'[local'.pid].st \in {"PROVISIONING", "RUNNING"}
  <1>1. /\ \A m \in Machines : ~ym[m].failed /\ ~cache[m].failed
        /\ ~base.failed /\ ~local.failed
        /\ \A i \in Instances :
              inst[i].st \notin {"none", "PROVISIONING", "RUNNING"} =>
                  ym[inst[i].m].life \in {"deleting", "gone"}
        /\ base.life = "live" /\ local.pid # Nil =>
              inst[local.pid].st \in {"PROVISIONING", "RUNNING"}
    <2>1. ~Spent({"vm", "stale"})
      BY SpentGrows DEF FaultKinds
    <2>2. QED
      BY <2>1 DEF UndisturbedInv
  <1>2. WorkerInv /\ ObjectsInv /\ ViewsInv
    BY DEF MachineInv
  <1>3. \A i \in Instances : inst[i].st # "none" => inst[i].m \in Machines
    BY <1>2 DEF ObjectsInv
  <1>4. local.pid \in Instances \cup {Nil} /\ Absent.failed = FALSE /\ Absent.life = "none"
    BY DEF TypeOK, Object, Absent
  <1>5. CASE UNCHANGED <<ym, cache, inst, base, local>>
    BY <1>1, <1>5
  <1>6. ASSUME NEW m \in Machines, CreateMachine(m) \/ DeleteMachine(m)
        PROVE  Goal
    BY <1>1, <1>3, <1>6, UserFacts
  <1>7. ASSUME NEW i \in Instances, VMStarted(i) \/ VMDeleted(i) \/ VMDisturbed(i)
        PROVE  Goal
    <2>1. ~Fault("vm")
      BY DEF TypeOK, Fault, Spent, FaultKinds
    <2>2. /\ UNCHANGED <<ym, cache, base, local>>
          /\ \/ inst[i].st # "DELETING" /\ inst' = [inst EXCEPT ![i].st = "RUNNING"]
             \/ inst[i].st = "DELETING" /\ inst' = [inst EXCEPT ![i].st = "gone"]
      BY <1>7, <2>1 DEF VMStarted, VMDeleted, VMDisturbed, SetStatus, k8s, worker
    <2>3. \A j \in Instances :
              /\ inst'[j].m = inst[j].m
              /\ inst'[j].st = inst[j].st \/ inst'[j].st = "RUNNING"
                 \/ (inst[j].st = "DELETING" /\ inst'[j].st = "gone")
      BY <2>2 DEF TypeOK
    <2>4. \A j \in Instances : inst'[j].st \notin {"none", "PROVISIONING", "RUNNING"} =>
              inst[j].st \notin {"none", "PROVISIONING", "RUNNING"}
      BY <2>3
    <2>5. QED
      BY <1>1, <1>4, <2>2, <2>3, <2>4
  <1>8. ASSUME NEW m \in Machines, LateCreate(m)
        PROVE  Goal
    <2>1. UNCHANGED <<ym, cache, base, local>>
      BY <1>8 DEF LateCreate, k8s, worker
    <2>2. PICK i \in Instances :
              inst[i].st = "none" /\ inst' = [inst EXCEPT ![i] = [m |-> m, st |-> "PROVISIONING"]]
      BY <1>8 DEF LateCreate, Free
    <2>3. inst'[i].st = "PROVISIONING" /\ \A j \in Instances : j # i => inst'[j] = inst[j]
      BY <2>2 DEF TypeOK
    <2>4. QED
      BY <1>1, <1>4, <2>1, <2>3
  <1>9. ASSUME NEW m \in Machines, CacheSync(m)
        PROVE  Goal
    <2>1. UNCHANGED <<ym, inst, base, local>> /\ cache' = [cache EXCEPT ![m] = ym[m]]
      BY <1>9 DEF CacheSync, cloud, worker
    <2>2. QED
      BY <1>1, <2>1 DEF TypeOK
  <1>10. ASSUME NEW m \in Machines, Begin(m)
         PROVE  Goal
    <2>1. cache[m] = ym[m]
      <3>1. ~Spent({"stale"})'
        BY DEF Spent
      <3>2. QED
        BY <1>10, <3>1, BeginFacts
    <2>2. ym[m].life = "live" /\ ym[m].pid # Nil =>
              inst[ym[m].pid].st \in {"PROVISIONING", "RUNNING"}
      BY <1>1, <1>2 DEF TypeOK, Object, ObjectsInv
    <2>3. QED
      BY <1>1, <1>10, <2>1, <2>2, BeginFacts
  <1>11. CASE AddFinalizer \/ PatchConds
    <2>1. \A i \in Instances : inst[i].st \notin {"none", "PROVISIONING", "RUNNING"} =>
              inst[i].m \in Machines
      BY <1>3
    <2>2. QED
      BY <1>1, <1>11, <2>1, FinAndCondsFacts
  <1>12. CASE ComputeCreate
    <2>1. /\ UNCHANGED <<ym, cache, base>> /\ local'.failed = local.failed
          /\ \/ inst' = inst /\ local'.pid = Nil
             \/ \E i \in Instances :
                   /\ inst' = [inst EXCEPT ![i] = [m |-> cur, st |-> "PROVISIONING"]]
                   /\ local'.pid \in {i, Nil}
      BY <1>2, <1>12, CreateFacts
    <2>2. CASE inst' = inst /\ local'.pid = Nil
      BY <1>1, <2>1, <2>2
    <2>3. ASSUME NEW i \in Instances,
                 inst' = [inst EXCEPT ![i] = [m |-> cur, st |-> "PROVISIONING"]],
                 local'.pid \in {i, Nil}
          PROVE  Goal
      <3>1. inst'[i].st = "PROVISIONING" /\ \A j \in Instances : j # i => inst'[j] = inst[j]
        BY <2>3 DEF TypeOK
      <3>2. QED
        BY <1>1, <2>1, <2>3, <3>1
    <2>4. QED
      BY <2>1, <2>2, <2>3
  <1>13. CASE ComputeGet \/ AddTarget \/ DeleteGet \/ RemoveTarget
    <2>1. UNCHANGED <<ym, cache, inst>>
      BY <1>13 DEF ComputeGet, AddTarget, DeleteGet, RemoveTarget, k8s, cloud
    <2>2. base' = base /\ local'.pid = local.pid
      BY <1>2, <1>13, GetFacts, AddFacts, DeleteGetFacts, RemoveFacts DEF SameButStatus
    <2>3. ComputeGet => base.life = "live" /\ local.pid # Nil
      BY <1>2 DEF ComputeGet, WorkerInv
    <2>4. local'.failed = local.failed
      BY <1>1, <1>2, <1>13, <2>3, GetFacts, AddFacts, DeleteGetFacts, RemoveFacts
    <2>5. QED
      BY <1>1, <2>1, <2>2, <2>4
  <1>14. CASE ComputeDelete
    <2>1. /\ UNCHANGED <<ym, cache, base, local>> /\ local.pid \in Instances
          /\ base.life = "deleting" /\ local.pid = base.pid /\ pc # "idle" /\ cur \in Machines
          /\ \/ inst' = inst
             \/ inst' = [inst EXCEPT ![local.pid].st = "DELETING"]
      BY <1>2, <1>14, DeleteFacts
    <2>2. inst[local.pid].m = cur /\ ym[cur].life \in {"deleting", "gone"}
      BY <1>2, <2>1, ConstantsAssumption DEF ViewsInv, Lags
    <2>3. \A j \in Instances : /\ inst'[j].m = inst[j].m
                               /\ j # local.pid => inst'[j] = inst[j]
      BY <2>1 DEF TypeOK
    <2>4. QED
      BY <1>1, <2>1, <2>2, <2>3
  <1>15. CASE PatchSpec
    <2>1. \A n \in Machines :
              ym[n].life \in {"deleting", "gone"} => ym'[n].life \in {"deleting", "gone"}
      BY <1>15, SpecFacts
    <2>2. QED
      BY <1>1, <1>3, <1>15, <2>1, SpecFacts
  <1>16. CASE PatchStatus
    BY <1>1, <1>3, <1>4, <1>16, StatusFacts
  <1>17. CASE Crash
    <2>1. UNCHANGED <<ym, inst>> /\ cache' = ym /\ base' = Absent /\ local' = Absent
      BY <1>17 DEF Crash, Rest, cloud
    <2>2. QED
      BY <1>1, <1>4, <2>1
  <1>18. QED
    BY <1>5, <1>6, <1>7, <1>8, <1>9, <1>10, <1>11, <1>12, <1>13, <1>14, <1>15, <1>16, <1>17
       DEF Next, Environment, Reconcile, SetOwnerRef, SetBootstrapData, Pause, Unpause,
           ClusterEvent, TargetGroupUp, TargetGroupLost, Skip, vars, k8s, cloud, worker

(***************************************************************************)
(* While nobody disturbs an instance and no read is stale, the controllers *)
(* themselves bring about no failure: only the deletion of a machine takes *)
(* its instance out of service, and the reconcile of a live machine meets  *)
(* an instance that starts or runs.                                        *)
(***************************************************************************)
THEOREM Undisturbed == Spec => []UndisturbedInv
  <1>1. Init => UndisturbedInv
    BY DEF Init, UndisturbedInv, Absent
  <1>2. TypeOK /\ MachineInv /\ UndisturbedInv /\ [Next]_vars => UndisturbedInv'
    BY UndisturbedStep
  <1>3. QED
    BY <1>1, <1>2, Invariance, PTL DEF Spec

(***************************************************************************)
(* A machine reports a failure only after its instance was disturbed or a  *)
(* read of a lagging cache.                                                *)
(***************************************************************************)
THEOREM FailureHasCause == Spec => []FailureJustified
  <1>1. UndisturbedInv => FailureJustified
    BY DEF UndisturbedInv, FailureJustified
  <1>2. QED
    BY <1>1, Undisturbed, PTL

-----------------------------------------------------------------------------
(***************************************************************************)
(* What a step leaves alone, whichever it is.                              *)
(***************************************************************************)

(* Steps outside the worker. *)
EnvironmentStep ==
    Environment \/ UNCHANGED vars \/ \E m \in Machines : CacheSync(m) \/ Skip(m)

(* They do not move the worker and forget nothing. *)
LEMMA OutsideFacts ==
    ASSUME TypeOK, EnvironmentStep
    PROVE  /\ UNCHANGED <<pc, cur, base, local, lostAddr>>
           /\ targets' \subseteq targets
           /\ targets' = targets \/ Fault("tg")
  BY DEF EnvironmentStep, Environment, CreateMachine, DeleteMachine, SetOwnerRef,
         SetBootstrapData, Pause, Unpause, ClusterEvent, LateCreate, VMStarted, VMDeleted,
         VMDisturbed, SetStatus, TargetGroupUp, TargetGroupLost, CacheSync, Skip,
         vars, k8s, cloud, worker, memory

(* An instance keeps its name, and only compute.Delete deletes it. *)
LEMMA InstanceFacts ==
    ASSUME TypeOK, WorkerInv, [Next]_vars, NEW i \in Instances
    PROVE  /\ inst[i].st # "none" => inst'[i].m = inst[i].m /\ inst'[i].st # "none"
           /\ inst'[i].st = "DELETING" =>
                 inst[i].st = "DELETING" \/ (ComputeDelete /\ i = local.pid)
  <1>1. CASE inst' = inst
    BY <1>1
  <1>2. ASSUME NEW j \in Instances, VMStarted(j) \/ VMDeleted(j) \/ VMDisturbed(j)
        PROVE  /\ inst[i].st # "none" => inst'[i].m = inst[i].m /\ inst'[i].st # "none"
               /\ inst'[i].st = "DELETING" => inst[i].st = "DELETING"
    BY <1>2 DEF TypeOK, VMStarted, VMDeleted, VMDisturbed, SetStatus
  <1>3. ASSUME NEW j \in Instances, NEW m, inst[j].st = "none",
               inst' = [inst EXCEPT ![j] = [m |-> m, st |-> "PROVISIONING"]]
        PROVE  /\ inst[i].st # "none" => inst'[i].m = inst[i].m /\ inst'[i].st # "none"
               /\ inst'[i].st = "DELETING" => inst[i].st = "DELETING"
    BY <1>3 DEF TypeOK
  <1>4. CASE \E m \in Machines : LateCreate(m)
    BY <1>3, <1>4 DEF LateCreate, Free
  <1>5. CASE ComputeCreate
    BY <1>1, <1>3, <1>5, CreateFacts
  <1>6. CASE ComputeDelete
    BY <1>6, DeleteFacts DEF TypeOK, Alive, LiveStatus
  <1>7. QED
    BY <1>1, <1>2, <1>4, <1>5, <1>6
       DEF Next, Environment, Reconcile, CreateMachine, DeleteMachine, SetOwnerRef,
           SetBootstrapData, Pause, Unpause, ClusterEvent, TargetGroupUp, TargetGroupLost,
           CacheSync, Skip, Begin, AddFinalizer, ComputeGet, AddTarget, DeleteGet,
           RemoveTarget, PatchConds, PatchSpec, PatchStatus, Crash, vars, cloud

(* The patches of spec and status are the only writers of what they hold. *)
LEMMA ObjectFacts ==
    ASSUME TypeOK, [Next]_vars, NEW m \in Machines
    PROVE  /\ ~PatchSpec => ym'[m].pid = ym[m].pid
           /\ ~PatchStatus => ym'[m].addr = ym[m].addr /\ ym'[m].ready = ym[m].ready
           /\ ym[m].life # "none" => ym'[m].life # "none"
           /\ ym[m].life \in {"deleting", "gone"} => ym'[m].life \in {"deleting", "gone"}
           /\ ym'[m].life = "live" => ym[m].life \in {"none", "live"}
           /\ ym'[m].life = "gone" /\ ~PatchSpec =>
                 ym[m].life = "gone" \/ (ym[m].life = "live" /\ ~ym[m].fin)
  <1>1. CASE ym' = ym
    BY <1>1
  <1>2. ASSUME NEW k \in Machines, CreateMachine(k) \/ DeleteMachine(k)
        PROVE  /\ ym'[m].pid = ym[m].pid
               /\ ym'[m].addr = ym[m].addr /\ ym'[m].ready = ym[m].ready
               /\ ym[m].life # "none" => ym'[m].life # "none"
               /\ ym[m].life \in {"deleting", "gone"} => ym'[m].life \in {"deleting", "gone"}
               /\ ym'[m].life = "live" => ym[m].life \in {"none", "live"}
               /\ ym'[m].life = "gone" =>
                     ym[m].life = "gone" \/ (ym[m].life = "live" /\ ~ym[m].fin)
    BY <1>2, UserFacts
  <1>3. CASE AddFinalizer \/ PatchConds
    BY <1>3, FinAndCondsFacts
  <1>4. CASE PatchSpec
    <2>1. ~PatchStatus
      BY <1>4 DEF PatchSpec, PatchStatus
    <2>2. QED
      BY <1>4, <2>1, SpecFacts
  <1>5. CASE PatchStatus
    BY <1>5, StatusFacts
  <1>6. QED
    BY <1>1, <1>2, <1>3, <1>4, <1>5
       DEF Next, Environment, Reconcile, SetOwnerRef, SetBootstrapData, Pause, Unpause,
           ClusterEvent, LateCreate, VMStarted, VMDeleted, VMDisturbed, SetStatus,
           TargetGroupUp, TargetGroupLost, CacheSync, Skip, Begin, ComputeCreate, ComputeGet,
           AddTarget, DeleteGet, RemoveTarget, ComputeDelete, Crash, vars, k8s

(* A machine that is gone does not come back, and only the user makes one. *)
LEMMA LifeFacts ==
    ASSUME TypeOK, [Next]_vars, NEW m \in Machines
    PROVE  /\ ym[m].life = "gone" => ym'[m].life = "gone"
           /\ ym[m].life = "none" => ym'[m].life = "none" \/ CreateMachine(m)
  <1>1. CASE ym' = ym
    BY <1>1
  <1>2. ASSUME NEW k \in Machines, CreateMachine(k) \/ DeleteMachine(k)
        PROVE  /\ ym[m].life = "gone" => ym'[m].life = "gone"
               /\ ym[m].life = "none" => ym'[m].life = "none" \/ CreateMachine(m)
    BY <1>2, UserFacts DEF DeleteMachine
  <1>3. CASE AddFinalizer \/ PatchConds
    BY <1>3, FinAndCondsFacts
  <1>4. CASE PatchSpec
    BY <1>4, SpecFacts
  <1>5. CASE PatchStatus
    BY <1>5, StatusFacts
  <1>6. QED
    BY <1>1, <1>2, <1>3, <1>4, <1>5
       DEF Next, Environment, Reconcile, SetOwnerRef, SetBootstrapData, Pause, Unpause,
           ClusterEvent, LateCreate, VMStarted, VMDeleted, VMDisturbed, SetStatus,
           TargetGroupUp, TargetGroupLost, CacheSync, Skip, Begin, ComputeCreate, ComputeGet,
           AddTarget, DeleteGet, RemoveTarget, ComputeDelete, Crash, vars, k8s

(* Every step is one of these. *)
LEMMA StepCases ==
    ASSUME [Next]_vars
    PROVE  \/ EnvironmentStep
           \/ \E m \in Machines : Begin(m)
           \/ AddFinalizer \/ PatchConds \/ ComputeCreate \/ ComputeGet \/ AddTarget
           \/ DeleteGet \/ RemoveTarget \/ ComputeDelete
           \/ PatchSpec \/ PatchStatus \/ Crash
  BY DEF Next, Reconcile, EnvironmentStep

(* The history of lost instances: an id is lost by the step that forgets it. *)
LEMMA LostFacts ==
    ASSUME TypeOK, MachineInv, ~Spent({"stale"}), [Next]_vars
    PROVE  /\ lost \subseteq lost'
           /\ \A i \in lost' \ lost :
                 \/ i \in Instances /\ inst[i].st = "none" /\ inst'[i].st # "none"
                 \/ /\ PatchSpec \/ Crash
                    /\ pc # "idle" /\ i = local.pid /\ local.pid # base.pid
                    /\ Crash => \A m \in Machines : ym[m].pid # i
  <1>1. lost' \subseteq Instances
    BY TypeStep DEF TypeOK, MachineInv
  <1>2. ASSUME NEW m \in Machines, NEW i \in Instances, inst[i].st = "none", lost' = lost \cup {i},
               inst' = [inst EXCEPT ![i] = [m |-> m, st |-> "PROVISIONING"]]
        PROVE  /\ lost \subseteq lost'
               /\ \A j \in lost' \ lost :
                     j \in Instances /\ inst[j].st = "none" /\ inst'[j].st # "none"
    BY <1>2 DEF TypeOK
  <1>3. CASE lost' = lost
    BY <1>3
  <1>4. CASE \E m \in Machines : LateCreate(m)
    BY <1>2, <1>4 DEF LateCreate, Free
  <1>5. CASE ComputeCreate
    BY <1>2, <1>3, <1>5, CreateFacts DEF MachineInv
  <1>6. CASE PatchSpec
    <2>1. pc = "spec" /\ lost' \in {lost \cup FreshPid, lost \cup Overlooked}
      BY <1>6 DEF PatchSpec
    <2>2. Overlooked = {}
      BY <2>1 DEF MachineInv, ViewsInv, Overlooked
    <2>3. QED
      BY <1>6, <2>1, <2>2 DEF FreshPid, PatchSpec, Crash, Rest
  <1>7. CASE Crash
    <2>1. lost' = lost \cup (FreshPid \ {ym[m].pid : m \in Machines})
      BY <1>7 DEF Crash
    <2>2. FreshPid # {} => pc # "idle"
      BY DEF FreshPid, MachineInv, WorkerInv
    <2>3. QED
      BY <1>7, <2>1, <2>2 DEF FreshPid
  <1>8. QED
    BY <1>3, <1>4, <1>5, <1>6, <1>7
       DEF Next, Environment, Reconcile, CreateMachine, DeleteMachine, SetOwnerRef,
           SetBootstrapData, Pause, Unpause, ClusterEvent, VMStarted, VMDeleted, VMDisturbed,
           SetStatus, TargetGroupUp, TargetGroupLost, CacheSync, Skip, Begin, AddFinalizer,
           ComputeGet, AddTarget, DeleteGet, RemoveTarget, ComputeDelete, PatchConds,
           PatchStatus, vars, memory

-----------------------------------------------------------------------------
(***************************************************************************)
(* Without stale reads, TargetsInv is inductive.                           *)
(***************************************************************************)

(* The instance that a reconcile works on, known or just created, has been  *)
(* created under the name of the machine.                                   *)
LEMMA OwnInstance ==
    ASSUME TypeOK, MachineInv, pc # "idle", local.pid # Nil
    PROVE  /\ local.pid \in Instances
           /\ inst[local.pid].m = cur
           /\ inst[local.pid].st # "none"
  BY DEF TypeOK, Object, MachineInv, WorkerInv, ViewsInv, Lags

(* SnapshotInv is preserved. *)
LEMMA SnapshotStep ==
    ASSUME TypeOK, MachineInv, ~Spent({"stale"}), ~Spent({"stale"})', SnapshotInv, KnownInv,
           [Next]_vars
    PROVE  SnapshotInv'
  <1> DEFINE Fields == /\ ym'[cur'].addr = base'.addr
                       /\ ym'[cur'].ready = base'.ready
                       /\ ym'[cur'].pid \in {base'.pid, local'.pid}
                       /\ local'.addr # base'.addr =>
                             base'.life = "live" /\ local'.pid # Nil /\ local'.addr = Addr[local'.pid]
                       /\ pc' = "addTarget" => cur' \in ControlPlane /\ local'.addr = Addr[local'.pid]
             Leaving == /\ pc' \in {"dereg", "deregGone"} => cur' \in ControlPlane
                        /\ pc' \in {"delGet", "dereg", "deregGone"} => ym'[cur'].life = "deleting"
             Unlost == pc' # "status" => local'.pid \notin lost'
             Undeleted == base'.life = "live" /\ local'.pid # Nil => inst'[local'.pid].st # "DELETING"
  <1> SUFFICES ASSUME pc' # "idle"
               PROVE  Fields /\ Leaving /\ Unlost /\ Undeleted
    BY DEF SnapshotInv
  <1>1. WorkerInv /\ ObjectsInv /\ ViewsInv /\ cur \in Machines \cup {Nil}
    BY DEF TypeOK, MachineInv
  <1>2. Nil \notin lost /\ Nil \notin lost' /\ Nil \notin Instances
    BY TypeStep, ConstantsAssumption DEF TypeOK, MachineInv
  <1>3. ASSUME NEW m \in Machines, Begin(m)
        PROVE  Fields /\ Leaving /\ Unlost /\ Undeleted
    <2>1. /\ cache[m] = ym[m] /\ cur' = m /\ base' = ym[m] /\ lost' = lost
          /\ UNCHANGED <<ym, inst>> /\ local'.pid = ym[m].pid /\ local'.addr = ym[m].addr
          /\ pc' \notin {"addTarget", "dereg", "deregGone"}
          /\ pc' = "delGet" => ym[m].life = "deleting"
      BY <1>3, BeginFacts
    <2>2. ym[m].life = "live" /\ ym[m].pid # Nil => inst[ym[m].pid].st # "DELETING"
      BY <1>1 DEF TypeOK, Object, ObjectsInv, KnownInv
    <2>3. QED
      BY <2>1, <2>2 DEF KnownInv
  <1>4. CASE pc = "idle" /\ ~\E m \in Machines : Begin(m)
    <2>1. pc' = "idle"
      BY <1>4, StepCases, OutsideFacts
         DEF AddFinalizer, PatchConds, ComputeCreate, ComputeGet, AddTarget, DeleteGet,
             RemoveTarget, ComputeDelete, PatchSpec, PatchStatus, Crash, Rest
    <2>2. QED
      BY <2>1
  <1>5. CASE pc # "idle"
    <2>1. /\ cur \in Machines
          /\ ym[cur].addr = base.addr /\ ym[cur].ready = base.ready
          /\ ym[cur].pid \in {base.pid, local.pid}
          /\ local.addr # base.addr =>
                base.life = "live" /\ local.pid # Nil /\ local.addr = Addr[local.pid]
          /\ pc = "addTarget" => cur \in ControlPlane /\ local.addr = Addr[local.pid]
          /\ pc # "status" => local.pid \notin lost
          /\ base.life = "live" /\ local.pid # Nil => inst[local.pid].st # "DELETING"
      BY <1>5 DEF TypeOK, SnapshotInv
    <2>2. ~Crash /\ ~PatchStatus /\ \A m \in Machines : ~Begin(m)
      BY <1>5 DEF Crash, PatchStatus, Rest, Begin, Take
    <2>3. cur' = cur /\ base' = base
      BY <1>1, <2>2, StepCases, OutsideFacts, FinAndCondsFacts, CreateFacts, GetFacts, AddFacts,
         DeleteGetFacts, RemoveFacts, DeleteFacts, SpecFacts
    <2>4. ym'[cur].addr = ym[cur].addr /\ ym'[cur].ready = ym[cur].ready
      BY <2>1, <2>2, ObjectFacts
    <2>5. \/ local'.pid = local.pid
          \/ ComputeCreate /\ local.pid = Nil /\ base.pid = Nil
      BY <1>1, <2>2, StepCases, OutsideFacts, FinAndCondsFacts, CreateFacts, GetFacts, AddFacts,
         DeleteGetFacts, RemoveFacts, DeleteFacts, SpecFacts DEF SameButStatus
    <2>6. ym'[cur].pid \in {base.pid, local'.pid}
      <3>1. CASE PatchSpec
        BY <2>1, <3>1, SpecFacts
      <3>2. CASE ~PatchSpec
        BY <2>1, <2>5, <3>2, ObjectFacts
      <3>3. QED
        BY <3>1, <3>2
    <2>7. \/ local'.addr = local.addr
          \/ ComputeGet /\ local'.addr = Addr[local.pid]
      BY <1>1, <2>2, StepCases, OutsideFacts, FinAndCondsFacts, CreateFacts, GetFacts, AddFacts,
         DeleteGetFacts, RemoveFacts, DeleteFacts, SpecFacts
    <2>8. ComputeGet => /\ base.life = "live" /\ local.pid # Nil /\ local'.pid = local.pid
                        /\ pc' = "addTarget" => cur \in ControlPlane /\ local'.addr = Addr[local.pid]
      BY <1>1, GetFacts DEF ComputeGet, WorkerInv, SameButStatus
    <2>9. pc' = "addTarget" => \/ ComputeGet
                               \/ pc = "addTarget" /\ local' = local
      BY <1>1, <2>2, StepCases, OutsideFacts, FinAndCondsFacts, CreateFacts, GetFacts, AddFacts,
         DeleteGetFacts, RemoveFacts, DeleteFacts, SpecFacts
    <2>10. Fields
      BY <2>1, <2>3, <2>4, <2>5, <2>6, <2>7, <2>8, <2>9
    <2>11. Unlost
      <3> SUFFICES ASSUME pc' # "status", local'.pid # Nil, local'.pid \in lost'
                   PROVE  FALSE
        BY <1>2
      <3>1. CASE ComputeCreate
        <4>1. PICK i \in Instances : inst[i].st = "none" /\ local'.pid = i /\ lost' = lost
          BY <1>1, <3>1, CreateFacts
        <4>2. QED
          BY <4>1 DEF KnownInv
      <3>2. CASE ~ComputeCreate
        <4>1. local'.pid = local.pid /\ inst[local.pid].st # "none" /\ pc # "status" /\ ~PatchSpec
          BY <1>1, <1>5, <2>2, <2>5, <3>2, OwnInstance, StepCases, OutsideFacts, FinAndCondsFacts,
             CreateFacts, GetFacts, AddFacts, DeleteGetFacts, RemoveFacts, DeleteFacts, SpecFacts
        <4>2. QED
          BY <2>1, <2>2, <4>1, LostFacts
      <3>3. QED
        BY <3>1, <3>2
    <2>12. Undeleted
      <3>1. CASE ComputeCreate
        <4>1. CASE local'.pid = Nil
          BY <4>1
        <4>2. ASSUME NEW i \in Instances, local'.pid = i,
                     inst' = [inst EXCEPT ![i] = [m |-> cur, st |-> "PROVISIONING"]]
              PROVE  inst'[local'.pid].st # "DELETING"
          BY <4>2 DEF TypeOK
        <4>3. QED
          BY <1>1, <3>1, <4>1, <4>2, CreateFacts
      <3>2. CASE ~ComputeCreate
        <4>1. ComputeDelete => base.life = "deleting"
          BY <1>1, DeleteFacts
        <4>2. QED
          BY <1>1, <1>5, <2>1, <2>3, <2>5, <3>2, <4>1, OwnInstance, InstanceFacts
      <3>3. QED
        BY <3>1, <3>2
    <2>13. Leaving
      <3> SUFFICES ASSUME pc' \in {"delGet", "dereg", "deregGone"}
                   PROVE  /\ pc' \in {"dereg", "deregGone"} => cur \in ControlPlane
                          /\ ym'[cur].life = "deleting"
        BY <2>3
      <3>1. /\ pc \in {"delGet", "dereg", "deregGone"}
            /\ pc' = pc \/ DeleteGet
        BY <1>1, <2>2, StepCases, OutsideFacts, FinAndCondsFacts, CreateFacts, GetFacts, AddFacts,
           DeleteGetFacts, RemoveFacts, DeleteFacts, SpecFacts
      <3>2. ym[cur].life = "deleting" /\ (pc \in {"dereg", "deregGone"} => cur \in ControlPlane)
        BY <3>1 DEF SnapshotInv
      <3>3. ym'[cur].life = "deleting"
        <4>1. ~PatchSpec
          BY <3>1, SpecFacts
        <4>2. ym'[cur].life \in {"deleting", "gone"} /\ ym'[cur].life # "gone"
          BY <2>1, <3>2, <4>1, ObjectFacts
        <4>3. QED
          BY <4>2
      <3>4. QED
        BY <1>1, <3>1, <3>2, <3>3, DeleteGetFacts
    <2>14. QED
      BY <2>10, <2>11, <2>12, <2>13
  <1>6. QED
    BY <1>3, <1>4, <1>5

(* KnownInv is preserved. *)
LEMMA KnownStep ==
    ASSUME TypeOK, MachineInv, ~Spent({"stale"}), SnapshotInv, KnownInv, [Next]_vars
    PROVE  KnownInv'
  <1>1. WorkerInv /\ ObjectsInv /\ ViewsInv
    BY DEF MachineInv
  <1>2. /\ Nil \notin Instances /\ Nil \notin Machines
        /\ lost \subseteq Instances /\ lost' \subseteq Instances
    BY TypeStep, ConstantsAssumption DEF TypeOK, MachineInv
  <1>3. \A i \in Instances : inst[i].st # "none" => inst[i].m \in Machines
    BY <1>1 DEF ObjectsInv
  <1>4. \A m \in Machines : ym[m].pid # Nil =>
            ym[m].pid \in Instances /\ inst[ym[m].pid].m = m /\ inst[ym[m].pid].st # "none"
    BY <1>1 DEF TypeOK, Object, ObjectsInv
  <1>5. pc \notin {"idle", "status"} => ym[cur].pid = base.pid
    BY <1>1 DEF ViewsInv
  <1>6. pc # "idle" /\ local.pid # base.pid => base.pid = Nil
    BY <1>1 DEF WorkerInv
  <1>7. ASSUME NEW i \in Instances, inst'[i].st # "none", i \notin lost',
               ~(ym'[inst'[i].m].pid = i)
        PROVE  InFlight' /\ cur' = inst'[i].m /\ local'.pid = i
    <2>1. i \notin lost
      BY <1>7, LostFacts
    <2>2. CASE inst[i].st = "none"
      <3>1. inst' # inst /\ ~(\E m \in Machines : LateCreate(m))
        <4>1. ASSUME NEW m \in Machines, LateCreate(m)
              PROVE  FALSE
          <5>1. PICK j \in Instances :
                    /\ inst' = [inst EXCEPT ![j] = [m |-> m, st |-> "PROVISIONING"]]
                    /\ lost' = lost \cup {j}
            BY <4>1 DEF LateCreate
          <5>2. QED
            BY <1>7, <2>2, <5>1 DEF TypeOK
        <4>2. QED
          BY <1>7, <2>2, <4>1
      <3>2. ComputeCreate
        <4>1. ASSUME NEW j \in Instances, VMStarted(j) \/ VMDeleted(j) \/ VMDisturbed(j)
              PROVE  FALSE
          BY <1>7, <2>2, <4>1 DEF TypeOK, VMStarted, VMDeleted, VMDisturbed, SetStatus
        <4>2. ~ComputeDelete
          BY <1>1, <1>7, <2>2, DeleteFacts DEF TypeOK, Alive, LiveStatus
        <4>3. QED
          BY <3>1, <4>1, <4>2
             DEF Next, Environment, Reconcile, CreateMachine, DeleteMachine, SetOwnerRef,
                 SetBootstrapData, Pause, Unpause, ClusterEvent, TargetGroupUp, TargetGroupLost,
                 CacheSync, Skip, Begin, AddFinalizer, ComputeGet, AddTarget, DeleteGet,
                 RemoveTarget, PatchConds, PatchSpec, PatchStatus, Crash, vars, cloud
      <3>3. PICK j \in Instances :
                /\ inst' = [inst EXCEPT ![j] = [m |-> cur, st |-> "PROVISIONING"]]
                /\ \/ pc' = "get" /\ local'.pid = j
                   \/ lost' = lost \cup {j}
        BY <1>1, <3>1, <3>2, CreateFacts
      <3>4. i = j /\ inst'[i].m = cur
        BY <1>7, <2>2, <3>3 DEF TypeOK
      <3>5. base' = base /\ base.pid = Nil /\ cur' = cur
        BY <1>1, <3>2, CreateFacts
      <3>6. QED
        BY <1>2, <1>7, <3>3, <3>4, <3>5 DEF InFlight
    <2>3. CASE inst[i].st # "none"
      <3>1. inst'[i].m = inst[i].m /\ inst[i].m \in Machines
        BY <1>1, <1>3, <2>3, InstanceFacts
      <3>2. CASE ym[inst[i].m].pid = i
        <4>1. PatchSpec
          BY <1>7, <3>1, <3>2, ObjectFacts
        <4>2. inst[i].m = cur /\ pc = "spec" /\ local.pid # base.pid
          BY <1>7, <3>1, <3>2, <4>1, SpecFacts
        <4>3. QED
          BY <1>2, <1>5, <1>6, <3>2, <4>2
      <3>3. CASE InFlight /\ cur = inst[i].m /\ local.pid = i
        <4>1. pc \in {"get", "addTarget", "conds", "spec"} /\ local.pid # base.pid
          BY <3>3 DEF InFlight
        <4>2. ~PatchSpec
          <5>1. FreshPid = {i}
            BY <1>2, <3>3, <4>1 DEF FreshPid
          <5>2. QED
            BY <1>7, <3>1, <3>3, <4>1, <5>1, SpecFacts
        <4>3. ~Crash
          <5>1. FreshPid = {i}
            BY <1>2, <3>3, <4>1 DEF FreshPid
          <5>2. \A m \in Machines : ym[m].pid # i
            BY <1>2, <1>4, <1>5, <1>6, <3>3, <4>1
          <5>3. QED
            BY <1>7, <5>1, <5>2 DEF Crash
        <4>4. CASE EnvironmentStep
          BY <3>1, <3>3, <4>4, OutsideFacts DEF InFlight
        <4>5. CASE AddFinalizer \/ PatchConds \/ ComputeGet \/ AddTarget
          <5>1. cur' = cur /\ base' = base /\ local'.pid = local.pid
            BY <1>1, <4>5, FinAndCondsFacts, GetFacts, AddFacts DEF SameButStatus
          <5>2. pc' \in {"addTarget", "conds", "spec"}
            BY <1>1, <4>1, <4>5, FinAndCondsFacts, GetFacts, AddFacts
          <5>3. QED
            BY <3>1, <3>3, <4>1, <5>1, <5>2 DEF InFlight
        <4>6. ~(ComputeCreate \/ DeleteGet \/ RemoveTarget \/ ComputeDelete \/ PatchStatus)
          BY <4>1 DEF ComputeCreate, DeleteGet, RemoveTarget, ComputeDelete, PatchStatus
        <4>7. \A m \in Machines : ~Begin(m)
          BY <4>1 DEF Begin, Take
        <4>8. QED
          BY <4>2, <4>3, <4>4, <4>5, <4>6, <4>7, StepCases
      <3>4. QED
        BY <2>1, <2>3, <3>2, <3>3 DEF KnownInv
    <2>4. QED
      BY <2>2, <2>3
  <1>8. ASSUME NEW i \in lost'
        PROVE  inst'[i].st # "none"
    <2>1. CASE i \in lost
      BY <1>1, <1>2, <2>1, InstanceFacts DEF KnownInv
    <2>2. CASE i = local.pid /\ pc # "idle" /\ local.pid # base.pid
      <3>1. local.pid # Nil
        BY <1>2, <1>8, <2>2
      <3>2. QED
        BY <1>1, <2>2, <3>1, OwnInstance, InstanceFacts
    <2>3. QED
      BY <1>8, <2>1, <2>2, LostFacts
  <1>9. ASSUME NEW m \in Machines
        PROVE  ym'[m].pid \notin lost'
    <2> SUFFICES ASSUME ym'[m].pid \in lost', ym'[m].pid # Nil
                 PROVE  FALSE
      BY <1>2
    <2>1. CASE PatchSpec
      <3>1. pc = "spec" /\ cur \in Machines /\ local.pid \notin lost
        BY <2>1, SpecFacts DEF SnapshotInv
      <3>2. CASE ym' = ym /\ lost' = lost \cup FreshPid
        <4>1. ym[m].pid \notin lost
          BY DEF KnownInv
        <4>2. ym[m].pid = local.pid /\ local.pid # base.pid
          BY <3>2, <4>1 DEF FreshPid
        <4>3. m = cur
          BY <1>4, <3>1, <3>2, <4>2, OwnInstance
        <4>4. QED
          BY <1>5, <3>1, <4>2, <4>3
      <3>3. CASE ym'[cur].pid = (IF local.pid = base.pid THEN ym[cur].pid ELSE local.pid)
                 /\ lost' = lost \cup Overlooked
        <4>1. Overlooked = {}
          BY <1>5, <3>1 DEF Overlooked
        <4>2. ym'[m].pid \in {ym[m].pid, local.pid}
          BY <2>1, <3>3, SpecFacts
        <4>3. QED
          BY <3>1, <3>3, <4>1, <4>2 DEF KnownInv
      <3>4. QED
        BY <2>1, <3>2, <3>3, SpecFacts
    <2>2. CASE ~PatchSpec
      <3>1. ym'[m].pid = ym[m].pid
        BY <2>2, ObjectFacts
      <3>2. ym[m].pid \notin lost /\ inst[ym[m].pid].st # "none"
        BY <1>4, <3>1 DEF KnownInv
      <3>3. QED
        BY <2>2, <3>1, <3>2, LostFacts
    <2>3. QED
      BY <2>1, <2>2
  <1>10. ASSUME NEW m \in Machines, ym'[m].addr # Nil
         PROVE  \E i \in Instances :
                    ym'[m].addr = Addr[i] /\ inst'[i].m = m /\ inst'[i].st # "none"
    <2>1. CASE ym'[m].addr = ym[m].addr
      <3>1. PICK i \in Instances : ym[m].addr = Addr[i] /\ inst[i].m = m /\ inst[i].st # "none"
        BY <1>10, <2>1 DEF KnownInv
      <3>2. QED
        BY <1>1, <2>1, <3>1, InstanceFacts
    <2>2. CASE ym'[m].addr # ym[m].addr
      <3>1. PatchStatus
        BY <2>2, ObjectFacts
      <3>2. m = cur /\ pc # "idle" /\ local.addr # base.addr /\ ym'[m].addr = local.addr
        BY <2>2, <3>1, StatusFacts
      <3>3. local.pid # Nil /\ local.addr = Addr[local.pid]
        BY <3>2 DEF SnapshotInv
      <3>4. QED
        BY <1>1, <3>2, <3>3, OwnInstance, InstanceFacts
    <2>3. QED
      BY <2>1, <2>2
  <1>11. ASSUME NEW i \in Instances, inst'[i].st = "DELETING"
         PROVE  ym'[inst'[i].m].life \in {"deleting", "gone"}
    <2>1. CASE inst[i].st = "DELETING"
      BY <1>1, <1>3, <2>1, InstanceFacts, ObjectFacts DEF KnownInv
    <2>2. CASE ComputeDelete /\ i = local.pid
      <3>1. /\ pc # "idle" /\ cur \in Machines /\ base.life = "deleting" /\ local.pid # Nil
            /\ ym' = ym
        BY <1>1, <1>2, <2>2, DeleteFacts
      <3>2. inst'[i].m = cur
        BY <1>1, <2>2, <3>1, OwnInstance, InstanceFacts
      <3>3. QED
        BY <1>1, <3>1, <3>2 DEF ViewsInv, Lags
    <2>3. QED
      BY <1>1, <1>11, <2>1, <2>2, InstanceFacts
  <1>12. QED
    BY <1>7, <1>8, <1>9, <1>10, <1>11 DEF KnownInv

(* The one instance of a machine that is not lost is the one its reconcile  *)
(* works on.                                                                *)
LEMMA OneInstance ==
    ASSUME TypeOK, MachineInv, SnapshotInv, KnownInv, pc # "idle",
           NEW i \in Instances, inst[i].st # "none", inst[i].m = cur, i \notin lost
    PROVE  local.pid = i
  <1>1. local.pid # base.pid => base.pid = Nil
    BY DEF MachineInv, WorkerInv
  <1>2. i # Nil
    BY ConstantsAssumption
  <1>3. QED
    BY <1>1, <1>2 DEF SnapshotInv, KnownInv

(* Addresses tell instances apart: none is given to a second instance. *)
AddressesUnique == \A i, j \in Instances : Addr[i] = Addr[j] => i = j

(* A fresh address is that of the instance under reconcile, and an address   *)
(* is forgotten or remembered by the patch of the status and a crash only.   *)
LEMMA AddressFacts ==
    ASSUME TypeOK, MachineInv, SnapshotInv, [Next]_vars
    PROVE  /\ \A a \in FreshAddr : /\ pc # "idle" /\ a = local.addr /\ local.addr # base.addr
                                   /\ base.life = "live" /\ local.pid # Nil
                                   /\ a = Addr[local.pid] /\ a \in targets
           /\ cur \in ControlPlane =>
                 \A a \in targets : local.addr = a /\ local.addr # base.addr => a \in FreshAddr
           /\ ~PatchStatus => lostAddr \subseteq lostAddr'
           /\ ~AddTarget => targets' \subseteq targets
  <1>1. WorkerInv
    BY DEF MachineInv
  <1>2. FreshAddr # {} => pc # "idle"
    BY <1>1 DEF FreshAddr, WorkerInv
  <1>3. \A a \in FreshAddr : /\ pc # "idle" /\ a = local.addr /\ local.addr # base.addr
                             /\ base.life = "live" /\ local.pid # Nil
                             /\ a = Addr[local.pid] /\ a \in targets
    BY <1>2 DEF FreshAddr, SnapshotInv
  <1>4. cur \in ControlPlane =>
            \A a \in targets : local.addr = a /\ local.addr # base.addr => a \in FreshAddr
    BY ConstantsAssumption DEF TypeOK, FreshAddr
  <1>5. ~PatchStatus => lostAddr \subseteq lostAddr'
    <2>1. Crash => lostAddr \subseteq lostAddr'
      BY DEF Crash
    <2>2. (\E m \in Machines : Begin(m)) => lostAddr' = lostAddr
      BY BeginFacts
    <2>3. ComputeGet \/ AddTarget \/ DeleteGet \/ RemoveTarget => lostAddr' = lostAddr
      BY DEF ComputeGet, AddTarget, DeleteGet, RemoveTarget
    <2>4. QED
      BY <1>1, <2>1, <2>2, <2>3, StepCases, OutsideFacts, FinAndCondsFacts, CreateFacts,
         DeleteFacts, SpecFacts
  <1>6. ~AddTarget => targets' \subseteq targets
    <2>1. Crash \/ ComputeGet \/ DeleteGet => targets' = targets
      BY DEF Crash, ComputeGet, DeleteGet, cloud
    <2>2. (\E m \in Machines : Begin(m)) => targets' = targets
      BY BeginFacts
    <2>3. QED
      BY <1>1, <2>1, <2>2, StepCases, OutsideFacts, FinAndCondsFacts, CreateFacts,
         RemoveFacts, DeleteFacts, SpecFacts, StatusFacts
  <1>7. QED
    BY <1>3, <1>4, <1>5, <1>6

(* RegisteredInv is preserved. *)
LEMMA RegisteredStep ==
    ASSUME TypeOK, MachineInv, ~Spent({"stale"}), SnapshotInv, KnownInv, RegisteredInv,
           [Next]_vars, AddressesUnique
    PROVE  RegisteredInv'
  <1>1. WorkerInv /\ ObjectsInv /\ ViewsInv
    BY DEF MachineInv
  <1>2. /\ Nil \notin Instances /\ Nil \notin Machines /\ Nil \notin Addrs
        /\ ControlPlane \subseteq Machines /\ targets \subseteq Addrs
        /\ \A i \in Instances : Addr[i] \in Addrs
    BY ConstantsAssumption DEF TypeOK
  <1> SUFFICES ASSUME NEW i \in Instances, Addr[i] \in targets'
               PROVE  /\ inst'[i].m \in ControlPlane
                      /\ inst'[i].st # "none"
                      /\ \/ i \in lost'
                         \/ Addr[i] \in lostAddr'
                         \/ ym'[inst'[i].m].addr = Addr[i]
                         \/ cur' = inst'[i].m /\ local'.addr = Addr[i]
    BY DEF RegisteredInv
  <1> DEFINE Goal == /\ inst'[i].m \in ControlPlane
                     /\ inst'[i].st # "none"
                     /\ \/ i \in lost'
                        \/ Addr[i] \in lostAddr'
                        \/ ym'[inst'[i].m].addr = Addr[i]
                        \/ cur' = inst'[i].m /\ local'.addr = Addr[i]
  <1>3. ASSUME Addr[i] \notin targets
        PROVE  Goal
    <2>1. AddTarget
      BY <1>3, AddressFacts
    <2>2. /\ pc = "addTarget" /\ local.pid \in Instances /\ cur' = cur
          /\ local'.addr = local.addr /\ Addr[i] = local.addr
      BY <1>1, <1>3, <2>1, AddFacts
    <2>3. cur \in ControlPlane /\ i = local.pid
      BY <2>2 DEF SnapshotInv, AddressesUnique
    <2>4. inst[i].m = cur /\ inst[i].st # "none"
      BY <1>2, <2>2, <2>3, OwnInstance
    <2>5. QED
      BY <1>1, <2>2, <2>3, <2>4, InstanceFacts
  <1>4. ASSUME Addr[i] \in targets
        PROVE  Goal
    <2>1. /\ inst[i].m \in ControlPlane /\ inst[i].m \in Machines
          /\ inst[i].st # "none"
          /\ \/ i \in lost
             \/ Addr[i] \in lostAddr
             \/ ym[inst[i].m].addr = Addr[i]
             \/ cur = inst[i].m /\ local.addr = Addr[i]
      BY <1>2, <1>4 DEF RegisteredInv
    <2>2. inst'[i].m = inst[i].m /\ inst'[i].st # "none"
      BY <1>1, <2>1, InstanceFacts
    <2> SUFFICES ASSUME i \notin lost'
                 PROVE  \/ Addr[i] \in lostAddr'
                        \/ ym'[inst[i].m].addr = Addr[i]
                        \/ cur' = inst[i].m /\ local'.addr = Addr[i]
      BY <2>1, <2>2
    <2>3. i \notin lost
      BY LostFacts
    <2>4. CASE PatchStatus
      <3>1. pc = "status" /\ cur \in Machines
        BY <2>4, StatusFacts
      <3>2. inst[i].m = cur => local.pid = i
        BY <2>1, <2>3, <3>1, OneInstance
      <3>3. local.pid # Nil => inst[local.pid].m = cur /\ local.pid \in Instances
        BY <3>1, OwnInstance
      <3>4. Addr[i] \in FreshAddr => inst[i].m = cur
        BY <3>3, AddressFacts DEF AddressesUnique
      <3>5. /\ ym[cur].addr = base.addr
            /\ local.addr # base.addr => local.addr = Addr[local.pid] /\ base.life = "live"
            /\ local.life = base.life
        BY <1>1, <3>1 DEF SnapshotInv, ViewsInv
      <3>6. inst[i].m = cur /\ local.addr = Addr[i] /\ local.addr # base.addr =>
                Addr[i] \in FreshAddr
        BY <1>4, <2>1, AddressFacts
      <3>7. FreshAddr \subseteq {local.addr} /\ (local.addr = base.addr => FreshAddr = {})
        BY AddressFacts
      <3>8. CASE inst[i].m # cur
        BY <2>1, <2>4, <3>4, <3>8, StatusFacts
      <3>9. CASE inst[i].m = cur
        BY <2>1, <2>4, <3>2, <3>5, <3>6, <3>7, <3>9, StatusFacts
      <3>10. QED
        BY <3>8, <3>9
    <2>5. CASE Crash
      <3>1. /\ lostAddr' = lostAddr \cup
                               (FreshAddr \ {ym[m].addr : m \in ControlPlane \cap Existing})
            /\ ym' = ym
        BY <2>5 DEF Crash
      <3>2. CASE cur = inst[i].m /\ local.addr = Addr[i]
        <4>1. pc # "idle"
          BY <1>1, <1>2, <3>2 DEF WorkerInv, Absent
        <4>2. local.addr = base.addr => ym[cur].addr = Addr[i]
          BY <3>2, <4>1 DEF SnapshotInv
        <4>3. CASE local.addr # base.addr
          <5>1. Addr[i] \in FreshAddr
            BY <1>4, <2>1, <3>2, <4>3, AddressFacts
          <5>2. ASSUME NEW m \in Machines, Addr[i] = ym[m].addr
                PROVE  m = inst[i].m
            BY <1>2, <5>2 DEF KnownInv, AddressesUnique
          <5>3. CASE Addr[i] \in {ym[m].addr : m \in ControlPlane \cap Existing}
            BY <1>2, <3>1, <5>2, <5>3
          <5>4. CASE Addr[i] \notin {ym[m].addr : m \in ControlPlane \cap Existing}
            BY <3>1, <5>1, <5>4
          <5>5. QED
            BY <5>3, <5>4
        <4>4. QED
          BY <3>1, <3>2, <4>2, <4>3
      <3>3. QED
        BY <2>1, <2>3, <3>1, <3>2
    <2>6. CASE ~PatchStatus /\ ~Crash
      <3>1. lostAddr \subseteq lostAddr' /\ ym'[inst[i].m].addr = ym[inst[i].m].addr
        BY <2>1, <2>6, AddressFacts, ObjectFacts
      <3>2. CASE cur = inst[i].m /\ local.addr = Addr[i]
        <4>1. pc # "idle"
          BY <1>1, <1>2, <3>2 DEF WorkerInv, Absent
        <4>2. local.pid = i
          BY <2>1, <2>3, <3>2, <4>1, OneInstance
        <4>3. \A m \in Machines : ~Begin(m)
          BY <4>1 DEF Begin, Take
        <4>4. cur' = cur /\ local'.addr = Addr[i]
          BY <1>1, <2>6, <3>2, <4>2, <4>3, StepCases, OutsideFacts, FinAndCondsFacts, CreateFacts,
             GetFacts, AddFacts, DeleteGetFacts, RemoveFacts, DeleteFacts, SpecFacts
        <4>5. QED
          BY <3>2, <4>4
      <3>3. QED
        BY <2>1, <2>3, <3>1, <3>2
    <2>7. QED
      BY <2>4, <2>5, <2>6
  <1>5. QED
    BY <1>3, <1>4

(* An instance without traffic gets none, unless it is under reconcile of a *)
(* live object that exists.                                                 *)
LEMMA SilenceKept ==
    ASSUME TypeOK, MachineInv, SnapshotInv, [Next]_vars, AddressesUnique,
           NEW i \in Instances, Silent(i),
           ~(/\ pc # "idle" /\ i = local.pid /\ base.life = "live" /\ Exists(ym[cur]))
    PROVE  Silent(i)'
  <1>1. WorkerInv /\ ViewsInv
    BY DEF MachineInv
  <1>2. CASE AddTarget
    <2>1. /\ pc = "addTarget" /\ local.pid \in Instances
          /\ targets' \in {targets, targets \cup {local.addr}}
      BY <1>1, <1>2, AddFacts
    <2>2. local.addr = Addr[local.pid] /\ base.life = "live" /\ Exists(ym[cur])
      BY <1>1, <2>1 DEF SnapshotInv, WorkerInv
    <2>3. Addr[i] # local.addr
      BY <2>1, <2>2 DEF AddressesUnique
    <2>4. lostAddr' = lostAddr
      BY <1>2 DEF AddTarget
    <2>5. QED
      BY <2>1, <2>3, <2>4 DEF Silent
  <1>3. CASE PatchStatus
    <2>1. /\ pc = "status" /\ targets' = targets
          /\ local.life = base.life
          /\ \/ lostAddr' = lostAddr \ FreshAddr /\ Exists(ym[cur])
             \/ /\ local.addr = base.addr \/ local.life = "deleting"
                /\ lostAddr' = lostAddr \ FreshAddr
             \/ lostAddr' = lostAddr \cup FreshAddr
      BY <1>1, <1>3, StatusFacts DEF ViewsInv
    <2>2. ASSUME Addr[i] \in FreshAddr, Exists(ym[cur])
          PROVE  FALSE
      <3>1. pc # "idle" /\ base.life = "live" /\ local.pid # Nil /\ Addr[i] = Addr[local.pid]
        BY <2>2, AddressFacts
      <3>2. i = local.pid
        BY <3>1, OwnInstance DEF AddressesUnique
      <3>3. QED
        BY <2>2, <3>1, <3>2
    <2>3. local.addr = base.addr \/ local.life = "deleting" => FreshAddr = {}
      BY <2>1, AddressFacts
    <2>4. QED
      BY <2>1, <2>2, <2>3 DEF Silent
  <1>4. CASE ~AddTarget /\ ~PatchStatus
    BY <1>4, AddressFacts DEF Silent
  <1>5. QED
    BY <1>2, <1>3, <1>4

(* DrainedInv is preserved. *)
LEMMA DrainedStep ==
    ASSUME TypeOK, MachineInv, MachineInv', ~Spent({"stale"}), SnapshotInv, KnownInv,
           RegisteredInv, DrainedInv, [Next]_vars, AddressesUnique
    PROVE  DrainedInv'
  <1>1. /\ WorkerInv /\ ObjectsInv /\ ViewsInv /\ WorkerInv' /\ ViewsInv'
        /\ Nil \notin Instances
    BY ConstantsAssumption DEF MachineInv
  <1>2. ASSUME NEW i \in Instances, inst'[i].st = "DELETING"
        PROVE  Silent(i)'
    <2>1. CASE inst[i].st = "DELETING"
      <3>1. Silent(i)
        BY <2>1 DEF DrainedInv
      <3>2. ~(pc # "idle" /\ i = local.pid /\ base.life = "live")
        BY <1>1, <2>1 DEF SnapshotInv
      <3>3. QED
        BY <3>1, <3>2, SilenceKept
    <2>2. CASE ComputeDelete /\ i = local.pid
      <3>1. Silent(i) /\ base.life = "deleting"
        BY <1>1, <2>2, DeleteFacts DEF DrainedInv
      <3>2. QED
        BY <3>1, SilenceKept
    <2>3. QED
      BY <1>1, <1>2, <2>1, <2>2, InstanceFacts
  <1>3. ASSUME NEW m \in Machines, ym'[m].life = "gone", ym'[m].pid # Nil
        PROVE  Silent(ym[m].pid)'
    <2>1. /\ ym'[m].pid = ym[m].pid
          /\ \/ ym[m].life = "gone"
             \/ PatchSpec /\ m = cur /\ base.life = "deleting" /\ Silent(ym[m].pid)
      <3>1. CASE ~PatchSpec
        BY <1>1, <1>3, <3>1, ObjectFacts DEF ObjectsInv
      <3>2. CASE PatchSpec /\ m # cur
        BY <1>3, <3>2, SpecFacts
      <3>3. CASE PatchSpec /\ m = cur
        <4>1. pc = "spec" /\ ym[cur].pid = base.pid /\ Lags(base, cur)
          BY <1>1, <3>3, SpecFacts DEF ViewsInv
        <4>2. local.pid # base.pid => Exists(ym[cur]) /\ ym[cur].fin /\ local.fin
          BY <1>1, <4>1 DEF WorkerInv, InFlight
        <4>3. ym[cur].life = "deleting" => ym[cur].fin
          BY <1>1, <3>3 DEF ObjectsInv
        <4>4. CASE ym' = ym
          BY <1>3, <4>4
        <4>5. CASE /\ ym'[cur].pid = IF local.pid = base.pid THEN ym[cur].pid ELSE local.pid
                   /\ ym'[cur].fin = IF local.fin = base.fin THEN ym[cur].fin ELSE local.fin
                   /\ ym'[cur].life = IF ym[cur].life = "deleting" /\ ~ym'[cur].fin
                                      THEN "gone" ELSE ym[cur].life
          <5>1. CASE ym[cur].life = "gone"
            BY <3>3, <4>2, <4>5, <5>1 DEF Exists
          <5>2. CASE ym[cur].life # "gone"
            <6>1. ym[cur].life = "deleting" /\ ~local.fin /\ ym'[cur].pid = ym[cur].pid
              BY <1>3, <3>3, <4>2, <4>3, <4>5, <5>2
            <6>2. base.life = "deleting"
              BY <1>1, <4>1, <6>1 DEF WorkerInv
            <6>3. Silent(base.pid)
              BY <1>3, <3>3, <4>1, <6>1 DEF DrainedInv
            <6>4. QED
              BY <3>3, <4>1, <6>1, <6>2, <6>3
          <5>3. QED
            BY <5>1, <5>2
        <4>6. QED
          BY <3>3, <4>4, <4>5, SpecFacts
      <3>4. QED
        BY <3>1, <3>2, <3>3
    <2>2. PICK i \in Instances : i = ym[m].pid
      BY <1>3, <2>1 DEF TypeOK, Object
    <2>3. inst[i].m = m
      BY <1>1, <1>3, <2>1, <2>2 DEF ObjectsInv
    <2>4. Silent(i)
      BY <1>3, <2>1, <2>2 DEF DrainedInv
    <2>5. ~(pc # "idle" /\ i = local.pid /\ base.life = "live" /\ Exists(ym[cur]))
      <3>1. pc # "idle" /\ i = local.pid => m = cur
        BY <1>1, <2>3, OwnInstance
      <3>2. QED
        BY <2>1, <3>1 DEF Exists
    <2>6. Silent(i)'
      BY <2>4, <2>5, SilenceKept
    <2>7. QED
      BY <2>1, <2>2, <2>6 DEF Silent
  <1>4. ASSUME DeleteGet \/ RemoveTarget, pc' = "vmDelete" \/ local'.fin # local.fin
        PROVE  Silent(local.pid)'
    <2>1. /\ pc \in {"delGet", "dereg", "deregGone"} /\ local.pid \in Instances
          /\ base.life = "deleting"
      BY <1>1, <1>4, DeleteGetFacts, RemoveFacts DEF WorkerInv
    <2>2. /\ inst[local.pid].m = cur /\ local.addr = base.addr /\ ym[cur].addr = base.addr
          /\ local.pid \notin lost
      BY <1>1, <2>1, OwnInstance DEF SnapshotInv
    <2>3. CASE DeleteGet
      <3>1. cur \notin ControlPlane /\ targets' = targets
        BY <1>1, <1>4, <2>3, DeleteGetFacts DEF DeleteGet, cloud
      <3>2. Addr[local.pid] \notin targets
        BY <2>1, <2>2, <3>1 DEF RegisteredInv
      <3>3. local'.pid = local.pid
        BY <1>1, <2>3, DeleteGetFacts
      <3>4. QED
        BY <3>1, <3>2, <3>3 DEF Silent
    <2>4. CASE RemoveTarget
      <3>1. /\ local.addr \notin targets' /\ targets' \subseteq targets
            /\ local'.pid = local.pid
        BY <1>1, <1>4, <2>4, RemoveFacts
      <3>2. lostAddr' = lostAddr
        BY <2>4 DEF RemoveTarget
      <3>3. ASSUME Addr[local.pid] \in targets'
            PROVE  Addr[local.pid] \in lostAddr
        BY <2>1, <2>2, <3>1, <3>3 DEF RegisteredInv
      <3>4. QED
        BY <3>1, <3>2, <3>3 DEF Silent
    <2>5. QED
      BY <1>4, <2>3, <2>4
  <1>5. ASSUME pc' = "vmDelete"
        PROVE  Silent(local.pid)'
    <2>1. CASE DeleteGet \/ RemoveTarget
      BY <1>4, <1>5, <2>1
    <2>2. CASE ~(DeleteGet \/ RemoveTarget)
      <3>1. ~\E m \in Machines : Begin(m)
        BY <1>5, BeginFacts
      <3>2. EnvironmentStep
        BY <1>1, <1>5, <2>2, <3>1, StepCases, FinAndCondsFacts, CreateFacts,
           GetFacts, AddFacts, DeleteFacts, SpecFacts, StatusFacts DEF Crash, Rest
      <3>3. pc = "vmDelete" /\ local' = local
        BY <1>5, <3>2, OutsideFacts
      <3>4. PICK i \in Instances : i = local.pid
        BY <1>1, <3>3 DEF TypeOK, Object, WorkerInv
      <3>5. Silent(i) /\ base.life = "deleting"
        BY <1>1, <3>3, <3>4 DEF DrainedInv, WorkerInv
      <3>6. Silent(i)'
        BY <3>5, SilenceKept
      <3>7. QED
        BY <3>3, <3>4, <3>6 DEF Silent
    <2>3. QED
      BY <2>1, <2>2
  <1>6. ASSUME pc' \in {"conds", "spec"}, ~local'.fin, base'.pid # Nil
        PROVE  Silent(base.pid)'
    <2>1. base'.life = "deleting"
      BY <1>1, <1>6 DEF WorkerInv
    <2>2. ~\E m \in Machines : Begin(m)
      BY <1>6, BeginFacts
    <2>3. ~Crash /\ ~PatchStatus /\ ~PatchSpec
      BY <1>6 DEF Crash, PatchStatus, PatchSpec, Rest
    <2>4. base' = base /\ cur' = cur
      BY <1>1, <2>2, <2>3, StepCases, OutsideFacts, FinAndCondsFacts, CreateFacts, GetFacts,
         AddFacts, DeleteGetFacts, RemoveFacts, DeleteFacts
    <2>5. CASE pc \in {"delGet", "dereg", "deregGone", "vmDelete"}
      <3>1. local.pid = base.pid /\ local.fin = base.fin /\ base.fin
        BY <1>1, <2>5 DEF WorkerInv, ViewsInv, Lags
      <3>2. DeleteGet \/ RemoveTarget
        <4>1. ~EnvironmentStep
          BY <1>6, <2>5, OutsideFacts
        <4>2. ~ComputeDelete
          BY <1>1, <1>6, <3>1, DeleteFacts
        <4>3. QED
          BY <2>2, <2>3, <2>5, <4>1, <4>2, StepCases
             DEF AddFinalizer, PatchConds, ComputeCreate, ComputeGet, AddTarget
      <3>3. Silent(local.pid)'
        BY <1>4, <1>6, <3>1, <3>2
      <3>4. local'.pid = local.pid
        BY <1>1, <3>2, DeleteGetFacts, RemoveFacts
      <3>5. QED
        BY <2>4, <3>1, <3>3, <3>4 DEF Silent
    <2>6. CASE pc \notin {"delGet", "dereg", "deregGone", "vmDelete"}
      <3>1. pc \in {"conds", "spec"} /\ local' = local
        <4>1. base.life = "deleting"
          BY <2>1, <2>4
        <4>2. pc \notin {"idle", "finalizer", "create", "get", "addTarget"}
          BY <1>1, <4>1 DEF WorkerInv, Absent
        <4>3. QED
          BY <1>6, <2>2, <2>3, <2>6, <4>2, StepCases, OutsideFacts, FinAndCondsFacts
             DEF ComputeCreate, ComputeGet, AddTarget, DeleteGet, RemoveTarget, ComputeDelete
      <3>2. PICK i \in Instances : i = base.pid
        BY <1>6, <2>4 DEF TypeOK, Object
      <3>3. Silent(i) /\ base.life = "deleting"
        BY <1>6, <2>1, <2>4, <3>1, <3>2 DEF DrainedInv
      <3>4. Silent(i)'
        BY <3>3, SilenceKept
      <3>5. QED
        BY <2>4, <3>2, <3>4 DEF Silent
    <2>7. QED
      BY <2>5, <2>6
  <1>7. QED
    BY <1>2, <1>3, <1>5, <1>6 DEF DrainedInv

(* TargetsInv is preserved. *)
LEMMA TargetsStep ==
    ASSUME TypeOK, MachineInv, MachineInv', TargetsInv, [Next]_vars, AddressesUnique
    PROVE  TargetsInv'
  <1> SUFFICES ASSUME ~Spent({"stale"})'
               PROVE  (SnapshotInv /\ KnownInv /\ RegisteredInv /\ DrainedInv)'
    BY DEF TargetsInv
  <1>1. ~Spent({"stale"})
    BY SpentGrows DEF FaultKinds
  <1>2. SnapshotInv /\ KnownInv /\ RegisteredInv /\ DrainedInv
    BY <1>1 DEF TargetsInv
  <1>3. SnapshotInv'
    BY <1>1, <1>2, SnapshotStep
  <1>4. KnownInv'
    BY <1>1, <1>2, KnownStep
  <1>5. RegisteredInv'
    BY <1>1, <1>2, RegisteredStep
  <1>6. DrainedInv'
    BY <1>1, <1>2, DrainedStep
  <1>7. QED
    BY <1>3, <1>4, <1>5, <1>6

(* What the invariant says of a gone machine's instance and of an instance   *)
(* that is being deleted.                                                   *)
LEMMA TargetsImply ==
    ASSUME TypeOK, MachineInv, TargetsInv
    PROVE  NoZombieTarget /\ DrainedBeforeDelete
  <1>1. NoZombieTarget
    <2> SUFFICES ASSUME ~Spent({"stale"}), NEW i \in Instances, inst[i].st # "none",
                        ym[inst[i].m].life = "gone", Addr[i] \in targets, i \notin lost
                 PROVE  Addr[i] \in lostAddr
      BY DEF NoZombieTarget
    <2>1. ~(InFlight /\ cur = inst[i].m)
      BY DEF MachineInv, WorkerInv, Exists
    <2>2. inst[i].m \in Machines /\ ym[inst[i].m].pid = i /\ i # Nil
      BY <2>1, ConstantsAssumption DEF TargetsInv, KnownInv, MachineInv, ObjectsInv
    <2>3. Silent(i)
      BY <2>2 DEF TargetsInv, DrainedInv
    <2>4. QED
      BY <2>3 DEF Silent
  <1>2. DrainedBeforeDelete
    BY DEF DrainedBeforeDelete, TargetsInv, DrainedInv, Silent
  <1>3. QED
    BY <1>1, <1>2

(* TargetsInv holds initially. *)
LEMMA TargetsInit ==
    ASSUME Init
    PROVE  TargetsInv
  <1>1. SnapshotInv /\ KnownInv
    BY ConstantsAssumption DEF Init, SnapshotInv, KnownInv, Absent
  <1>2. RegisteredInv /\ DrainedInv
    BY DEF Init, RegisteredInv, DrainedInv, Absent, Silent
  <1>3. QED
    BY <1>1, <1>2 DEF TargetsInv

(***************************************************************************)
(* The registration of control plane machines is kept in step with their   *)
(* lives: TargetsInv holds of every behaviour, whichever machines,         *)
(* instances and faults there are, if the cloud gives no address twice.    *)
(* (The violation runs show what happens when it does.)                    *)
(***************************************************************************)
THEOREM TargetsKept ==
    ASSUME AddressesUnique
    PROVE  Spec => []TargetsInv
  <1>1. Init => TargetsInv
    BY TargetsInit
  <1>2. TypeOK /\ MachineInv /\ MachineInv' /\ TargetsInv /\ [Next]_vars => TargetsInv'
    BY TargetsStep
  <1>3. QED
    BY <1>1, <1>2, TypeCorrect, Invariance, PTL DEF Spec

(***************************************************************************)
(* NoZombieTarget for every instance of the constants: the address of a    *)
(* machine that is gone is not behind the load balancer.                   *)
(***************************************************************************)
THEOREM NoZombie ==
    ASSUME AddressesUnique
    PROVE  Spec => []NoZombieTarget
  BY TargetsImply, TargetsKept, TypeCorrect, Invariance, PTL

(***************************************************************************)
(* compute.Delete drains an instance before it deletes it.                 *)
(***************************************************************************)
THEOREM DrainedFirst ==
    ASSUME AddressesUnique
    PROVE  Spec => []DrainedBeforeDelete
  BY TargetsImply, TargetsKept, TypeCorrect, Invariance, PTL

-----------------------------------------------------------------------------
(***************************************************************************)
(* Targets where addresses are given again.                                *)
(***************************************************************************)

(* As long as nobody deletes the target group, only deregisterControlPlane  *)
(* removes an address, and only the one in the status.                      *)
LEMMA TargetFacts ==
    ASSUME TypeOK, MachineInv, ~Spent({"tg"})', [Next]_vars
    PROVE  /\ ~RemoveTarget => targets \subseteq targets'
           /\ targets \ {local.addr} \subseteq targets'
  <1>1. WorkerInv
    BY DEF MachineInv
  <1>2. ~Fault("tg")
    BY DEF TypeOK, Fault, Spent, FaultKinds
  <1>3. EnvironmentStep => targets' = targets
    BY <1>2, OutsideFacts
  <1>4. Crash \/ ComputeGet \/ DeleteGet => targets' = targets
    BY DEF Crash, ComputeGet, DeleteGet, cloud
  <1>5. (\E m \in Machines : Begin(m)) => targets' = targets
    BY BeginFacts
  <1>6. ~RemoveTarget => targets \subseteq targets'
    BY <1>1, <1>3, <1>4, <1>5, StepCases, FinAndCondsFacts, CreateFacts, AddFacts,
       DeleteFacts, SpecFacts, StatusFacts
  <1>7. RemoveTarget => targets \ {local.addr} \subseteq targets'
    BY <1>1, RemoveFacts
  <1>8. QED
    BY <1>6, <1>7

(* Nothing but deregisterControlPlane removes a target while the group stays. *)
LEMMA LossFacts ==
    ASSUME TypeOK, MachineInv, [Next]_vars, tg', ~(targets \subseteq targets')
    PROVE  RemoveTarget
  <1>1. WorkerInv
    BY DEF MachineInv
  <1>2. EnvironmentStep => targets' = targets
    BY DEF EnvironmentStep, Environment, CreateMachine, DeleteMachine, SetOwnerRef,
           SetBootstrapData, Pause, Unpause, ClusterEvent, LateCreate, VMStarted, VMDeleted,
           VMDisturbed, SetStatus, TargetGroupUp, TargetGroupLost, CacheSync, Skip, vars, cloud
  <1>3. Crash \/ ComputeGet \/ DeleteGet => targets' = targets
    BY DEF Crash, ComputeGet, DeleteGet, cloud
  <1>4. (\E m \in Machines : Begin(m)) => targets' = targets
    BY BeginFacts
  <1>5. QED
    BY <1>1, <1>2, <1>3, <1>4, StepCases, FinAndCondsFacts, CreateFacts, AddFacts,
       DeleteFacts, SpecFacts, StatusFacts

(* What deregisterControlPlane removes is the address of a control plane     *)
(* machine that is being deleted.                                           *)
LEMMA DeregisterFacts ==
    ASSUME TypeOK, MachineInv, SnapshotInv, RemoveTarget,
           NEW m \in ControlPlane, ym[m].life = "live", ym[m].addr \in targets \ targets'
    PROVE  /\ Contested(m)
           /\ \E n \in ControlPlane \ {m} :
                 Busy(n) /\ ym[n].life = "deleting" /\ ym[n].addr = ym[m].addr
  <1>1. /\ pc \in {"dereg", "deregGone"} /\ ym[m].addr = local.addr
        /\ base.life = "deleting"
    BY RemoveFacts DEF MachineInv, WorkerInv
  <1>2. /\ cur \in ControlPlane /\ ym[cur].life = "deleting"
        /\ ym[cur].addr = base.addr /\ local.addr = base.addr
    BY <1>1 DEF SnapshotInv
  <1>3. cur # m /\ pc # "idle"
    BY <1>1, <1>2
  <1>4. QED
    BY <1>1, <1>2, <1>3 DEF Contested, Busy

(* The address of a machine on its way out does not change any more. *)
LEMMA ContestedKept ==
    ASSUME TypeOK, MachineInv, MachineInv', SnapshotInv, ~Spent({"stale"})', [Next]_vars,
           NEW m \in ControlPlane, Contested(m), ym'[m].addr = ym[m].addr
    PROVE  Contested(m)'
  <1>1. WorkerInv /\ ControlPlane \subseteq Machines
    BY ConstantsAssumption DEF MachineInv
  <1>2. PICK n \in ControlPlane \ {m} :
            /\ ym[n].life \in {"deleting", "gone"} /\ ym[n].addr = ym[m].addr
            /\ Busy(n) => base.life = "deleting"
    BY DEF Contested
  <1>3. ym'[n].life \in {"deleting", "gone"}
    BY <1>1, <1>2, ObjectFacts
  <1>4. ym'[n].addr = ym[n].addr
    <2>1. CASE PatchStatus
      <3>1. CASE n = cur
        <4>1. pc = "status" /\ base.life = "deleting"
          BY <1>2, <2>1, <3>1, StatusFacts DEF Busy
        <4>2. local.addr = base.addr
          BY <4>1 DEF SnapshotInv
        <4>3. QED
          BY <2>1, <3>1, <4>2, StatusFacts
      <3>2. CASE n # cur
        BY <1>1, <2>1, <3>2, StatusFacts
      <3>3. QED
        BY <3>1, <3>2
    <2>2. CASE ~PatchStatus
      BY <1>1, <2>2, ObjectFacts
    <2>3. QED
      BY <2>1, <2>2
  <1>5. Busy(n)' => base'.life = "deleting"
    <2> SUFFICES ASSUME pc' # "idle", cur' = n
                 PROVE  base'.life = "deleting"
      BY DEF Busy
    <2>1. CASE \E k \in Machines : Begin(k)
      <3>1. base' = ym[n]
        BY <2>1, BeginFacts
      <3>2. base'.life \in {"live", "deleting"}
        BY DEF MachineInv, ViewsInv
      <3>3. QED
        BY <1>2, <3>1, <3>2
    <2>2. CASE ~\E k \in Machines : Begin(k)
      <3>1. ~Crash /\ ~PatchStatus
        BY DEF Crash, PatchStatus, Rest
      <3>2. cur' = cur /\ base' = base /\ pc # "idle"
        BY <1>1, <2>2, <3>1, StepCases, OutsideFacts, FinAndCondsFacts, CreateFacts, GetFacts,
           AddFacts, DeleteGetFacts, RemoveFacts, DeleteFacts, SpecFacts
           DEF AddFinalizer
      <3>3. QED
        BY <1>2, <3>2 DEF Busy
    <2>3. QED
      BY <2>1, <2>2
  <1>6. QED
    BY <1>2, <1>3, <1>4, <1>5 DEF Contested

(* ServingInv is preserved. *)
LEMMA ServingStep ==
    ASSUME TypeOK, MachineInv, ~Spent({"stale"}), SnapshotInv, KnownInv, ServingInv,
           MachineInv', ~Spent({"stale"})', [Next]_vars
    PROVE  ServingInv'
  <1> SUFFICES ASSUME ~Spent({"tg"})'
               PROVE  /\ \A m \in ControlPlane :
                            ym'[m].ready /\ (\A i \in lost' : inst'[i].m # m) =>
                               /\ ym'[m].pid # Nil
                               /\ ym'[m].addr = Addr[ym'[m].pid]
                               /\ ym'[m].life = "live" => ym'[m].addr \in targets' \/ Contested(m)'
                      /\ cur' \in ControlPlane /\ local'.ready /\ ~base'.ready =>
                            /\ base'.life = "live" /\ local'.pid # Nil
                            /\ local'.addr = Addr[local'.pid] /\ local'.addr \in targets'
    BY DEF ServingInv
  <1>1. /\ WorkerInv /\ ObjectsInv /\ ViewsInv /\ Nil \notin Instances
        /\ ControlPlane \subseteq Machines /\ lost \subseteq Instances
    BY ConstantsAssumption DEF TypeOK, MachineInv
  <1>2. /\ \A m \in ControlPlane :
              ym[m].ready /\ (\A i \in lost : inst[i].m # m) =>
                 /\ ym[m].pid # Nil
                 /\ ym[m].addr = Addr[ym[m].pid]
                 /\ ym[m].life = "live" => ym[m].addr \in targets \/ Contested(m)
        /\ cur \in ControlPlane /\ local.ready /\ ~base.ready =>
              /\ base.life = "live" /\ local.pid # Nil
              /\ local.addr = Addr[local.pid] /\ local.addr \in targets
    <2>1. ~Spent({"tg"})
      BY SpentGrows DEF FaultKinds
    <2>2. QED
      BY <2>1 DEF ServingInv
  <1>3. ASSUME NEW m \in ControlPlane, ym'[m].ready, \A i \in lost' : inst'[i].m # m
        PROVE  /\ ym'[m].pid # Nil
               /\ ym'[m].addr = Addr[ym'[m].pid]
               /\ ym'[m].life = "live" => ym'[m].addr \in targets' \/ Contested(m)'
    <2>1. \A i \in lost : inst[i].m # m
      <3> SUFFICES ASSUME NEW i \in lost
                   PROVE  inst[i].m # m
        OBVIOUS
      <3>1. i \in Instances /\ i \in lost' /\ inst[i].st # "none"
        BY <1>1, LostFacts DEF KnownInv
      <3>2. inst'[i].m = inst[i].m
        BY <1>1, <3>1, InstanceFacts
      <3>3. QED
        BY <1>3, <3>1, <3>2
    <2>2. m \in Machines
      BY <1>1
    <2>3. CASE ~PatchStatus
      <3>1. ym'[m].addr = ym[m].addr /\ ym[m].ready
        BY <1>3, <2>2, <2>3, ObjectFacts
      <3>2. /\ ym[m].pid # Nil /\ ym[m].addr = Addr[ym[m].pid]
            /\ ym[m].life = "live" => ym[m].addr \in targets \/ Contested(m)
        BY <1>2, <2>1, <3>1
      <3>3. ym'[m].pid = ym[m].pid
        <4>1. CASE PatchSpec
          <5>1. pc = "spec"
            BY <4>1, SpecFacts
          <5>2. m = cur => local.pid = base.pid
            BY <1>1, <3>2, <5>1 DEF ViewsInv, WorkerInv
          <5>3. QED
            BY <2>2, <4>1, <5>2, SpecFacts
        <4>2. CASE ~PatchSpec
          BY <2>2, <4>2, ObjectFacts
        <4>3. QED
          BY <4>1, <4>2
      <3>4. ASSUME ym'[m].life = "live"
            PROVE  ym[m].addr \in targets' \/ Contested(m)'
        <4>1. ym[m].life = "live"
          BY <1>1, <2>2, <3>2, <3>4, ObjectFacts DEF ObjectsInv
        <4>2. CASE Contested(m)
          BY <3>1, <4>2, ContestedKept
        <4>3. CASE ym[m].addr \in targets /\ ~RemoveTarget
          BY <4>3, TargetFacts
        <4>4. CASE ym[m].addr \in targets /\ RemoveTarget
          <5>1. CASE ym[m].addr \in targets'
            BY <5>1
          <5>2. CASE ym[m].addr \notin targets'
            BY <4>1, <4>4, <5>2, DeregisterFacts, ContestedKept, <3>1
          <5>3. QED
            BY <5>1, <5>2
        <4>5. QED
          BY <3>2, <4>1, <4>2, <4>3, <4>4
      <3>5. QED
        BY <3>1, <3>2, <3>3, <3>4
    <2>4. CASE PatchStatus
      <3>1. /\ pc = "status" /\ cur \in Machines /\ targets' = targets
            /\ ym'[m].life = ym[m].life /\ ym'[m].pid = ym[m].pid
            /\ m # cur => ym'[m] = ym[m]
        BY <2>2, <2>4, StatusFacts
      <3>2. CASE ym'[m] = ym[m]
        BY <1>2, <1>3, <2>1, <3>1, <3>2, ContestedKept
      <3>3. CASE /\ m = cur
                 /\ ym'[cur].addr = IF local.addr = base.addr THEN ym[cur].addr ELSE local.addr
                 /\ ym'[cur].ready = IF local.ready = base.ready THEN ym[cur].ready ELSE local.ready
        <4>1. /\ ym[cur].addr = base.addr /\ ym[cur].ready = base.ready
              /\ local.addr # base.addr => local.pid # Nil /\ local.addr = Addr[local.pid]
          BY <3>1 DEF SnapshotInv
        <4>2. CASE local.ready = base.ready
          <5>1. /\ ym[cur].pid # Nil /\ ym[cur].addr = Addr[ym[cur].pid]
                /\ ym[cur].life = "live" => ym[cur].addr \in targets \/ Contested(cur)
            BY <1>2, <1>3, <2>1, <3>3, <4>2
          <5>2. local.pid = ym[cur].pid
            <6>1. PICK i \in Instances : i = ym[cur].pid
              BY <3>1, <5>1 DEF TypeOK, Object
            <6>2. inst[i].m = cur /\ inst[i].st # "none"
              BY <1>1, <3>1, <5>1, <6>1 DEF ObjectsInv
            <6>3. i \notin lost
              BY <2>1, <3>3, <6>2
            <6>4. QED
              BY <3>1, <6>1, <6>2, <6>3, OneInstance
          <5>3. ym'[cur].addr = ym[cur].addr
            BY <3>3, <4>1, <5>1, <5>2
          <5>4. QED
            BY <3>1, <3>3, <5>1, <5>3, ContestedKept
        <4>3. CASE local.ready # base.ready
          <5>1. local.ready /\ ~base.ready
            BY <1>3, <3>3, <4>3 DEF TypeOK, Object
          <5>2. /\ local.pid # Nil /\ local.addr = Addr[local.pid] /\ local.addr \in targets
            BY <1>2, <3>3, <5>1
          <5>3. local.pid \in Instances /\ inst[local.pid].m = cur /\ inst[local.pid].st # "none"
            BY <3>1, <5>2, OwnInstance
          <5>4. local.pid \notin lost
            BY <2>1, <3>3, <5>3
          <5>5. ym[cur].pid = local.pid
            BY <3>1, <5>3, <5>4 DEF KnownInv, InFlight
          <5>6. QED
            BY <3>1, <3>3, <4>1, <5>2, <5>5
        <4>4. QED
          BY <4>2, <4>3
      <3>4. QED
        BY <2>4, <3>1, <3>2, <3>3, StatusFacts
    <2>5. QED
      BY <2>3, <2>4
  <1>4. ASSUME cur' \in ControlPlane, local'.ready, ~base'.ready
        PROVE  /\ base'.life = "live" /\ local'.pid # Nil
               /\ local'.addr = Addr[local'.pid] /\ local'.addr \in targets'
    <2>1. ~\E m \in Machines : Begin(m)
      <3>1. ASSUME NEW m \in Machines, Begin(m)
            PROVE  FALSE
        <4>1. local'.ready = base'.ready
          BY <3>1, BeginFacts
        <4>2. QED
          BY <1>4, <4>1
      <3>2. QED
        BY <3>1
    <2>2. ~Crash /\ ~PatchStatus
      BY <1>4 DEF Crash, PatchStatus, Rest, Absent
    <2>3. cur' = cur /\ base' = base
      BY <1>1, <2>1, <2>2, StepCases, OutsideFacts, FinAndCondsFacts, CreateFacts, GetFacts,
         AddFacts, DeleteGetFacts, RemoveFacts, DeleteFacts, SpecFacts
    <2>4. CASE local.ready
      <3>1. /\ base.life = "live" /\ local.pid # Nil
            /\ local.addr = Addr[local.pid] /\ local.addr \in targets
        BY <1>2, <1>4, <2>3, <2>4
      <3>2. ~RemoveTarget /\ ~ComputeCreate
        BY <1>1, <3>1, CreateFacts DEF RemoveTarget, WorkerInv
      <3>3. targets \subseteq targets'
        BY <3>2, TargetFacts
      <3>4. local'.pid = local.pid
        BY <1>1, <2>1, <2>2, <3>2, StepCases, OutsideFacts, FinAndCondsFacts, GetFacts, AddFacts,
           DeleteGetFacts, DeleteFacts, SpecFacts DEF SameButStatus
      <3>5. local'.addr \in {local.addr, Addr[local.pid]}
        BY <1>1, <2>1, <2>2, <3>2, StepCases, OutsideFacts, FinAndCondsFacts, GetFacts, AddFacts,
           DeleteGetFacts, DeleteFacts, SpecFacts
      <3>6. QED
        BY <2>3, <3>1, <3>3, <3>4, <3>5
    <2>5. CASE ~local.ready
      <3>1. local'.ready # local.ready
        BY <1>4, <2>5
      <3>2. AddTarget
        BY <1>1, <1>4, <2>1, <2>2, <2>3, <3>1, StepCases, OutsideFacts, FinAndCondsFacts,
           CreateFacts, GetFacts, DeleteGetFacts, RemoveFacts, DeleteFacts, SpecFacts
      <3>3. /\ pc = "addTarget" /\ local'.pid = local.pid /\ local'.addr = local.addr
            /\ local.addr \in targets'
        BY <1>1, <3>1, <3>2, AddFacts DEF SameButStatus
      <3>4. base.life = "live" /\ local.pid # Nil /\ local.addr = Addr[local.pid]
        BY <1>1, <3>3 DEF WorkerInv, SnapshotInv
      <3>5. QED
        BY <2>3, <3>3, <3>4
    <2>6. QED
      BY <2>4, <2>5
  <1>5. QED
    BY <1>3, <1>4

(* RemovedInv is preserved. *)
LEMMA RemovedStep ==
    ASSUME TypeOK, MachineInv, MachineInv', ~Spent({"stale"}), SnapshotInv, RemovedInv,
           [Next]_vars
    PROVE  RemovedInv'
  <1> SUFFICES ASSUME pc' \in {"conds", "spec"}, ~local'.fin, cur' \in ControlPlane, base'.pid # Nil
               PROVE  base'.addr \notin targets'
    BY DEF RemovedInv
  <1>1. WorkerInv /\ ViewsInv /\ base'.life = "deleting"
    BY DEF MachineInv, WorkerInv
  <1>2. pc # "idle" /\ base.life = "deleting" => base.fin /\ local.addr = base.addr
    BY <1>1 DEF ViewsInv, Lags, SnapshotInv
  <1>3. ~(\E m \in Machines : Begin(m)) /\ ~Crash /\ ~PatchStatus /\ ~PatchSpec
    BY BeginFacts, SpecFacts, StatusFacts DEF Crash, Rest
  <1>4. ~AddFinalizer /\ ~ComputeCreate /\ ~ComputeGet /\ ~AddTarget
    BY <1>1, FinAndCondsFacts, CreateFacts, GetFacts, AddFacts
       DEF AddFinalizer, ComputeGet, AddTarget, WorkerInv
  <1>5. CASE EnvironmentStep
    BY <1>5, OutsideFacts DEF RemovedInv
  <1>6. CASE PatchConds
    <2>1. pc = "conds" /\ local' = local /\ UNCHANGED <<cur, base, targets>>
      BY <1>6, FinAndCondsFacts DEF PatchConds, AddFinalizer
    <2>2. QED
      BY <2>1 DEF RemovedInv
  <1>7. CASE DeleteGet \/ ComputeDelete
    BY <1>1, <1>2, <1>7, DeleteGetFacts, DeleteFacts DEF WorkerInv
  <1>8. CASE RemoveTarget
    <2>1. base' = base /\ pc \in {"dereg", "deregGone"}
      BY <1>1, <1>8, RemoveFacts
    <2>2. local.fin /\ local.addr = base.addr
      BY <1>1, <1>2, <2>1 DEF WorkerInv
    <2>3. QED
      BY <1>1, <1>8, <2>1, <2>2, RemoveFacts
  <1>9. QED
    BY <1>3, <1>4, <1>5, <1>6, <1>7, <1>8, StepCases

(* The addresses that NoStrayTarget allows for. *)
Covered ==
    {ym[m].addr : m \in ControlPlane \cap Existing} \cup FreshAddr
        \cup lostAddr \cup {Addr[i] : i \in lost}

(* An address that a status holds is that of a lost instance, or of the one *)
(* the machine still has.                                                   *)
LEMMA StatusAddress ==
    ASSUME TypeOK, KnownInv, NEW m \in Machines, ym[m].addr # Nil,
           \A i \in lost : ym[m].addr # Addr[i]
    PROVE  \E i \in Instances : /\ ym[m].addr = Addr[i] /\ inst[i].m = m /\ inst[i].st # "none"
                                /\ i \notin lost
                                /\ ym[m].pid = i \/ (InFlight /\ cur = m /\ local.pid = i)
  BY DEF KnownInv

(* The address in the status of an object stays there, or the object goes    *)
(* when it is deregistered or its instance is lost.                         *)
LEMMA StatusCovered ==
    ASSUME TypeOK, MachineInv, ~Spent({"stale"}), SnapshotInv, KnownInv, RemovedInv,
           [Next]_vars, NEW m \in ControlPlane, Exists(ym[m]), ym[m].addr \in targets'
    PROVE  ym[m].addr \in Covered'
  <1>1. /\ WorkerInv /\ ObjectsInv /\ ViewsInv /\ m \in Machines
        /\ Nil \notin Addrs /\ Nil \notin Instances
        /\ targets' \subseteq Addrs
    BY TypeStep, ConstantsAssumption DEF TypeOK, MachineInv
  <1> SUFFICES ASSUME \A i \in lost : ym[m].addr # Addr[i]
               PROVE  ym[m].addr \in Covered'
    BY LostFacts DEF Covered
  <1>2. PICK i \in Instances :
            /\ ym[m].addr = Addr[i] /\ inst[i].m = m /\ inst[i].st # "none" /\ i \notin lost
            /\ ym[m].pid = i \/ (InFlight /\ cur = m /\ local.pid = i)
    BY <1>1, StatusAddress
  <1>3. ym[m].fin
    BY <1>1, <1>2 DEF ObjectsInv, WorkerInv, Exists
  <1>4. ASSUME Exists(ym'[m]), ym'[m].addr = ym[m].addr
        PROVE  ym[m].addr \in Covered'
    BY <1>1, <1>4 DEF Covered, Existing
  <1>5. CASE PatchStatus
    <2>1. Exists(ym'[m])
      BY <1>1, <1>5, StatusFacts DEF Exists
    <2>2. CASE m = cur /\ local.addr # base.addr
      <3>1. pc # "idle" /\ ym[m].addr = base.addr /\ local.addr = Addr[local.pid]
        BY <1>5, <2>2, StatusFacts DEF SnapshotInv
      <3>2. local.pid = i
        BY <1>2, <2>2, <3>1, OneInstance
      <3>3. QED
        BY <1>2, <2>2, <3>1, <3>2
    <2>3. CASE ~(m = cur /\ local.addr # base.addr)
      BY <1>1, <1>4, <1>5, <2>1, <2>3, StatusFacts
    <2>4. QED
      BY <2>2, <2>3
  <1>6. CASE PatchSpec
    <2>1. ym'[m].addr = ym[m].addr /\ pc = "spec" /\ targets' = targets
      BY <1>1, <1>6, SpecFacts
    <2>2. CASE m = cur /\ ~Exists(ym'[m])
      <3>1. base.fin /\ ~local.fin
        BY <1>1, <1>3, <1>6, <2>2, SpecFacts DEF Exists, TypeOK, Object
      <3>2. local.pid = base.pid /\ ym[m].addr = base.addr /\ ym[m].pid = base.pid
        BY <1>1, <2>1, <2>2, <3>1 DEF WorkerInv, SnapshotInv
      <3>3. base.pid # Nil
        BY <1>1, <1>2, <3>2 DEF InFlight
      <3>4. QED
        BY <2>1, <2>2, <3>1, <3>2, <3>3 DEF RemovedInv
    <2>3. CASE m # cur
      BY <1>1, <1>4, <1>6, <2>1, <2>3, SpecFacts
    <2>4. QED
      BY <1>4, <2>1, <2>2, <2>3
  <1>7. CASE ~PatchStatus /\ ~PatchSpec
    <2>1. ym'[m].addr = ym[m].addr
      BY <1>1, <1>7, ObjectFacts
    <2>2. ym'[m].life \notin {"none", "gone"}
      <3>1. ym'[m].life # "gone"
        BY <1>1, <1>3, <1>7, ObjectFacts DEF Exists
      <3>2. ym'[m].life # "none"
        BY <1>1, ObjectFacts DEF Exists
      <3>3. QED
        BY <3>1, <3>2
    <2>3. Exists(ym'[m])
      BY <1>1, <2>2, TypeStep DEF TypeOK, Object, Exists, MachineInv
    <2>4. QED
      BY <1>4, <2>1, <2>3
  <1>8. QED
    BY <1>5, <1>6, <1>7

(* An address about to be saved is saved, or counted as lost. *)
LEMMA FreshCovered ==
    ASSUME TypeOK, MachineInv, SnapshotInv, [Next]_vars,
           NEW a \in FreshAddr, a \in targets'
    PROVE  a \in Covered'
  <1>1. /\ WorkerInv /\ ViewsInv /\ pc # "idle" /\ cur \in Machines /\ cur \in ControlPlane
        /\ a = local.addr /\ local.addr # base.addr /\ a = Addr[local.pid] /\ a # Nil
        /\ base.life = "live" /\ local.life = base.life
    BY AddressFacts DEF MachineInv, TypeOK, FreshAddr, ViewsInv
  <1>2. CASE PatchStatus
    <2>1. CASE Exists(ym[cur]) /\ ym'[cur].addr = local.addr
      <3>1. cur \in ControlPlane \cap Existing'
        BY <1>1, <1>2, <2>1, StatusFacts DEF Existing, Exists
      <3>2. QED
        BY <1>1, <2>1, <3>1 DEF Covered
    <2>2. CASE lostAddr' = lostAddr \cup FreshAddr
      BY <2>2 DEF Covered
    <2>3. QED
      BY <1>1, <1>2, <2>1, <2>2, StatusFacts
  <1>3. CASE Crash
    <2>1. /\ lostAddr' = lostAddr \cup
                           (FreshAddr \ {ym[m].addr : m \in ControlPlane \cap Existing})
          /\ ym' = ym
      BY <1>3 DEF Crash
    <2>2. Existing' = Existing
      BY <2>1 DEF Existing
    <2>3. QED
      BY <2>1, <2>2 DEF Covered
  <1>4. CASE ~PatchStatus /\ ~Crash
    <2>1. \A m \in Machines : ~Begin(m)
      BY <1>1 DEF Begin, Take
    <2>2. cur' = cur /\ base' = base /\ local'.addr = a
      BY <1>1, <1>4, <2>1, StepCases, OutsideFacts, FinAndCondsFacts, CreateFacts,
         GetFacts, AddFacts, DeleteGetFacts, RemoveFacts, DeleteFacts, SpecFacts
    <2>3. a \in FreshAddr'
      BY <1>1, <2>2 DEF FreshAddr
    <2>4. QED
      BY <2>3 DEF Covered
  <1>5. QED
    BY <1>2, <1>3, <1>4

(* StrayInv is preserved. *)
LEMMA StrayStep ==
    ASSUME TypeOK, MachineInv, MachineInv', StrayInv, [Next]_vars
    PROVE  StrayInv'
  <1> SUFFICES ASSUME ~Spent({"stale"})'
               PROVE  /\ SnapshotInv' /\ KnownInv' /\ RemovedInv' /\ ServingInv'
                      /\ targets' \subseteq Covered'
    BY DEF StrayInv, NoStrayTarget, Covered
  <1>1. ~Spent({"stale"})
    BY SpentGrows DEF FaultKinds
  <1>2. SnapshotInv /\ KnownInv /\ RemovedInv /\ ServingInv /\ targets \subseteq Covered
    BY <1>1 DEF StrayInv, NoStrayTarget, Covered
  <1>3. SnapshotInv' /\ KnownInv' /\ RemovedInv' /\ ServingInv'
    BY <1>1, <1>2, SnapshotStep, KnownStep, RemovedStep, ServingStep
  <1>4. ASSUME NEW a \in targets'
        PROVE  a \in Covered'
    <2>1. CASE a \notin targets
      <3>1. AddTarget
        BY <1>2, <2>1, <1>4, AddressFacts
      <3>2. /\ pc = "addTarget" /\ cur' = cur /\ base' = base
            /\ local'.addr = local.addr /\ a = local.addr /\ ym' = ym
        BY <1>4, <2>1, <3>1, AddFacts DEF MachineInv, AddTarget, k8s
      <3>3. cur \in ControlPlane /\ Exists(ym[cur]) /\ ym[cur].addr = base.addr
        BY <1>2, <3>2 DEF SnapshotInv, MachineInv, WorkerInv
      <3>4. CASE local.addr = base.addr
        <4>1. cur \in ControlPlane \cap Existing'
          BY <3>2, <3>3, ConstantsAssumption DEF Existing
        <4>2. QED
          BY <3>2, <3>3, <3>4, <4>1 DEF Covered
      <3>5. CASE local.addr # base.addr
        <4>1. a # Nil
          BY <1>4, TypeStep, ConstantsAssumption DEF TypeOK, MachineInv
        <4>2. a \in FreshAddr'
          BY <1>4, <3>2, <3>3, <3>5, <4>1 DEF FreshAddr
        <4>3. QED
          BY <4>2 DEF Covered
      <3>6. QED
        BY <3>4, <3>5
    <2>2. CASE a \in FreshAddr
      BY <1>2, <1>4, <2>2, FreshCovered
    <2>3. CASE a \in lostAddr
      <3>1. CASE a \notin lostAddr'
        <4>1. PatchStatus
          BY <1>2, <2>3, <3>1, AddressFacts
        <4>2. a \in FreshAddr
          BY <2>3, <3>1, <4>1, StatusFacts
        <4>3. QED
          BY <1>2, <1>4, <4>2, FreshCovered
      <3>2. QED
        BY <3>1 DEF Covered
    <2>4. CASE \E i \in lost : a = Addr[i]
      BY <1>1, <2>4, LostFacts DEF Covered
    <2>5. CASE \E m \in ControlPlane \cap Existing : a = ym[m].addr
      BY <1>1, <1>2, <1>4, <2>5, StatusCovered DEF Existing
    <2>6. QED
      BY <1>2, <2>1, <2>2, <2>3, <2>4, <2>5 DEF Covered
  <1>5. QED
    BY <1>3, <1>4

(* StrayInv holds initially. *)
LEMMA StrayInit ==
    ASSUME Init
    PROVE  StrayInv
  <1>1. targets = {} /\ SnapshotInv /\ KnownInv /\ RemovedInv /\ ServingInv
    BY ConstantsAssumption DEF Init, SnapshotInv, KnownInv, RemovedInv, ServingInv, Absent
  <1>2. QED
    BY <1>1 DEF StrayInv, NoStrayTarget

(***************************************************************************)
(* StrayInv holds of every behaviour, whichever addresses the cloud gives: *)
(* unlike TargetsKept it does not assume that they are unique.             *)
(***************************************************************************)
THEOREM StrayKept == Spec => []StrayInv
  <1>1. Init => StrayInv
    BY StrayInit
  <1>2. TypeOK /\ MachineInv /\ MachineInv' /\ StrayInv /\ [Next]_vars => StrayInv'
    BY StrayStep
  <1>3. QED
    BY <1>1, <1>2, TypeCorrect, Invariance, PTL DEF Spec

(***************************************************************************)
(* deregisterControlPlane leaves no target behind, even where the cloud    *)
(* gives a freed address to the next instance.                             *)
(***************************************************************************)
THEOREM NoStray == Spec => []NoStrayTarget
  <1>1. StrayInv => NoStrayTarget
    BY DEF StrayInv
  <1>2. QED
    BY <1>1, StrayKept, PTL

(***************************************************************************)
(* A control plane machine that is Ready serves, whichever addresses the   *)
(* cloud gives, unless a machine on its way out has the same one.          *)
(***************************************************************************)
THEOREM ReadyServes == Spec => []ReadyIsRegistered
  <1>1. StrayInv => ReadyIsRegistered
    <2>1. ~Spent({"stale", "tg"}) => ~Spent({"stale"}) /\ ~Spent({"tg"})
      BY DEF Spent
    <2>2. QED
      BY <2>1 DEF ReadyIsRegistered, StrayInv, ServingInv
  <1>2. QED
    BY <1>1, StrayKept, PTL

(***************************************************************************)
(* The target of a live, Ready machine is removed only together with the   *)
(* group, or when a machine that is being deleted and has the same address *)
(* is deregistered, whatever was lost, forgotten or retried before.        *)
(***************************************************************************)
THEOREM TargetStays == Spec => TargetKept
  <1> DEFINE Kept == \A m \in ControlPlane :
                 /\ ym[m].life = "live" /\ ym[m].ready
                 /\ ym[m].addr \in targets \ targets'
                 => \/ Spent({"stale"}) \/ ~tg'
                    \/ \E n \in ControlPlane \ {m} :
                          /\ Busy(n)
                          /\ ym[n].life = "deleting" /\ ym[n].addr = ym[m].addr
  <1>1. TypeOK /\ MachineInv /\ StrayInv /\ [Next]_vars => [Kept]_vars
    <2> SUFFICES ASSUME TypeOK, MachineInv, StrayInv, [Next]_vars, ~Spent({"stale"}), tg',
                        NEW m \in ControlPlane, ym[m].life = "live",
                        ym[m].addr \in targets \ targets'
                 PROVE  \E n \in ControlPlane \ {m} :
                            Busy(n) /\ ym[n].life = "deleting" /\ ym[n].addr = ym[m].addr
      OBVIOUS
    <2>1. RemoveTarget
      BY LossFacts
    <2>2. SnapshotInv
      BY DEF StrayInv
    <2>3. QED
      BY <2>1, <2>2, DeregisterFacts
  <1>2. QED
    BY <1>1, StrayKept, TypeCorrect, Invariance, PTL DEF Spec, TargetKept

-----------------------------------------------------------------------------
(***************************************************************************)
(* No wake-up is lost.                                                     *)
(***************************************************************************)

(* A key leaves the queue only when it is taken, or at a restart when there *)
(* is no object to list.                                                    *)
LEMMA QueueFacts ==
    ASSUME [Next]_vars, NEW m \in queue
    PROVE  m \in queue' \/ Skip(m) \/ Begin(m) \/ (Crash /\ m \notin Existing)
  <1>1. ASSUME NEW k \in Machines, Skip(k) \/ Begin(k)
        PROVE  m \in queue' \/ Skip(m) \/ Begin(m)
    <2>1. queue' = queue \ {k}
      BY <1>1 DEF Skip, Begin, Take
    <2>2. QED
      BY <1>1, <2>1
  <1>2. CASE Crash
    BY <1>2 DEF Crash
  <1>3. CASE PatchStatus
    BY <1>3 DEF PatchStatus, Requeue
  <1>4. CASE queue \subseteq queue'
    BY <1>4
  <1>5. QED
    BY <1>1, <1>2, <1>3, <1>4
       DEF Next, Environment, Reconcile, CreateMachine, DeleteMachine, SetOwnerRef,
           SetBootstrapData, Pause, Unpause, ClusterEvent, LateCreate, VMStarted, VMDeleted,
           VMDisturbed, SetStatus, TargetGroupUp, TargetGroupLost, CacheSync, AddFinalizer,
           ComputeCreate, ComputeGet, AddTarget, DeleteGet, RemoveTarget, ComputeDelete,
           PatchConds, PatchSpec, vars

(* A step of the worker that is not its last. *)
WorkerStep ==
    \/ AddFinalizer \/ ComputeCreate \/ ComputeGet \/ AddTarget \/ DeleteGet \/ RemoveTarget
    \/ ComputeDelete \/ PatchConds \/ PatchSpec

(* Who changes what: the gates are opened by events that enqueue the keys,  *)
(* and so does every change of an owner and of the cache.                   *)
LEMMA EventFacts ==
    ASSUME TypeOK, [Next]_vars
    PROVE  /\ infra # "absent" => infra' # "absent"
           /\ infra = "gone" => infra' = "gone"
           /\ (paused /\ ~paused') \/ (infra # "up" /\ infra' = "up") =>
                 ym' = ym /\ Existing \subseteq queue'
           /\ \A m \in Machines :
                 /\ owner'[m] # owner[m] =>
                       /\ UNCHANGED <<ym, pc, cur>> /\ m \in queue' /\ owner'[m] # "none"
                       /\ owner[m] = "none" => ym[m].life = "live"
                 /\ cache'[m] # cache[m] =>
                       /\ ym' = ym /\ cache'[m] = ym[m]
                       /\ m \in Existing => m \in queue'
           /\ UNCHANGED <<booted, res>> \/ WorkerStep \/ PatchStatus \/ Crash
              \/ \E m \in Machines : Begin(m)
  <1> DEFINE Events ==
           /\ infra # "absent" => infra' # "absent"
           /\ infra = "gone" => infra' = "gone"
           /\ (paused /\ ~paused') \/ (infra # "up" /\ infra' = "up") =>
                 ym' = ym /\ Existing \subseteq queue'
           Changes ==
             \A m \in Machines :
                 /\ owner'[m] # owner[m] =>
                       /\ UNCHANGED <<ym, pc, cur>> /\ m \in queue' /\ owner'[m] # "none"
                       /\ owner[m] = "none" => ym[m].life = "live"
                 /\ cache'[m] # cache[m] =>
                       /\ ym' = ym /\ cache'[m] = ym[m]
                       /\ m \in Existing => m \in queue'
           Kept == UNCHANGED <<booted, res>> \/ WorkerStep \/ PatchStatus \/ Crash
                   \/ \E m \in Machines : Begin(m)
  <1>1. CASE Crash
    <2>1. /\ ym' = ym /\ cache' = ym /\ queue' = Existing /\ UNCHANGED <<owner, paused>>
          /\ infra' \in {infra} \cup Later
      BY <1>1 DEF Crash
    <2>2. Events
      BY <2>1 DEF TypeOK, Later
    <2>3. QED
      BY <1>1, <2>1, <2>2
  <1>2. CASE ClusterEvent
    <2>1. /\ UNCHANGED <<ym, cache, owner, paused, booted, res>> /\ infra' \in Later
          /\ queue' = IF OwnerKnown THEN queue \cup Existing ELSE queue
      BY <1>2 DEF ClusterEvent, worker
    <2>2. Events
      BY <2>1 DEF TypeOK, Later, OwnerKnown
    <2>3. QED
      BY <2>1, <2>2
  <1>3. CASE Unpause
    BY <1>3 DEF Unpause, worker
  <1>4. ASSUME NEW k \in Machines, SetOwnerRef(k) \/ SetBootstrapData(k)
        PROVE  Events /\ Changes /\ Kept
    <2>1. /\ UNCHANGED <<ym, cache, infra, paused, pc, cur, booted, res>>
          /\ queue' = queue \cup {k}
          /\ \/ owner' = [owner EXCEPT ![k] = "owned"] /\ ym[k].life = "live"
             \/ owner' = [owner EXCEPT ![k] = "boot"] /\ owner[k] = "owned"
      BY <1>4 DEF SetOwnerRef, SetBootstrapData, worker
    <2>2. Changes
      BY <2>1 DEF TypeOK
    <2>3. QED
      BY <2>1, <2>2
  <1>5. ASSUME NEW k \in Machines, CacheSync(k)
        PROVE  Events /\ Changes /\ Kept
    <2>1. /\ UNCHANGED <<ym, owner, infra, paused, booted, res>>
          /\ queue' = queue \cup {k} /\ cache' = [cache EXCEPT ![k] = ym[k]]
      BY <1>5 DEF CacheSync, worker
    <2>2. Changes
      BY <2>1 DEF TypeOK
    <2>3. QED
      BY <2>1, <2>2
  <1>6. CASE UNCHANGED <<infra, owner, cache>> /\ (paused' = paused \/ paused') /\ Kept
    BY <1>6
  <1>7. QED
    BY <1>1, <1>2, <1>3, <1>4, <1>5, <1>6
       DEF Next, Environment, Reconcile, CreateMachine, DeleteMachine, Pause, LateCreate,
           VMStarted, VMDeleted, VMDisturbed, SetStatus, TargetGroupUp, TargetGroupLost, Skip,
           Begin, AddFinalizer, ComputeCreate, ComputeGet, AddTarget, DeleteGet, RemoveTarget,
           ComputeDelete, PatchConds, PatchSpec, PatchStatus, WorkerStep, vars, k8s, worker

(* How a reconcile ends: without a requeue only when a live machine with      *)
(* bootstrap data is Ready, or a machine being deleted loses its finalizer.   *)
LEMMA ResultFacts ==
    ASSUME TypeOK, WorkerInv,
           AddFinalizer \/ ComputeCreate \/ ComputeGet \/ AddTarget \/ DeleteGet
              \/ RemoveTarget \/ ComputeDelete
    PROVE  /\ pc \notin {"idle", "conds", "spec", "status"}
           /\ pc' \notin {"idle", "spec", "status"}
           /\ local.ready => local'.ready
           /\ pc' = "conds" /\ res' = "none" =>
                 /\ base.life = "live" /\ booted => local'.ready
                 /\ base.life = "deleting" => ~local'.fin
  <1> DEFINE Goal == /\ pc \notin {"idle", "conds", "spec", "status"}
                     /\ pc' \notin {"idle", "spec", "status"}
                     /\ local.ready => local'.ready
                     /\ pc' = "conds" /\ res' = "none" =>
                           /\ base.life = "live" /\ booted => local'.ready
                           /\ base.life = "deleting" => ~local'.fin
  <1>1. local \in Object
    BY DEF TypeOK
  <1>2. CASE AddFinalizer
    <2>1. pc = "finalizer" /\ base.life = "live"
      BY <1>2 DEF AddFinalizer, WorkerInv
    <2>2. [local EXCEPT !.fin = TRUE].ready = local.ready
      BY <1>1 DEF Object
    <2>3. QED
      BY <1>2, <2>1, <2>2 DEF AddFinalizer, Goto, Return
  <1>3. CASE ComputeCreate
    <2>1. pc = "create"
      BY <1>3 DEF ComputeCreate
    <2>2. /\ [local EXCEPT !.run = "False"].ready = local.ready
          /\ \A i \in Instances : [local EXCEPT !.pid = i].ready = local.ready
      BY <1>1 DEF Object
    <2>3. \/ Return([local EXCEPT !.run = "False"], "error")
          \/ \E i \in Instances : Goto("get", [local EXCEPT !.pid = i])
      BY <1>3 DEF ComputeCreate
    <2>4. QED
      BY <2>1, <2>2, <2>3 DEF Goto, Return
  <1>4. ASSUME NEW o \in Object, o.ready = local.ready, NEW s, Conclude(o, s), base.life = "live",
               pc \in {"get", "addTarget"}
        PROVE  Goal
    <2>1. \/ Return([o EXCEPT !.st = s], "after")
          \/ Return([[o EXCEPT !.st = s] EXCEPT !.ready = TRUE, !.run = "True"], "none")
          \/ Return([[o EXCEPT !.st = s] EXCEPT !.failed = TRUE], "after")
      BY <1>4 DEF Conclude
    <2>2. /\ [o EXCEPT !.st = s].ready = o.ready
          /\ [[o EXCEPT !.st = s] EXCEPT !.ready = TRUE, !.run = "True"].ready
          /\ [[o EXCEPT !.st = s] EXCEPT !.failed = TRUE].ready = o.ready
      BY <1>4 DEF Object
    <2>3. QED
      BY <1>4, <2>1, <2>2 DEF Return
  <1>5. CASE ComputeGet
    <2>1. pc = "get" /\ base.life = "live" /\ local.pid \in Instances
      BY <1>5 DEF ComputeGet, WorkerInv, TypeOK, Object
    <2> DEFINE o == [local EXCEPT !.addr = Addr[local.pid]]
               u(r) == [local EXCEPT !.run = r]
    <2>2. o \in Object /\ o.ready = local.ready
      BY <1>1, <2>1, ConstantsAssumption DEF Object
    <2>3. \A r \in {"False", "Unknown"} : u(r) \in Object /\ u(r).ready = local.ready
      BY <1>1 DEF Object
    <2>4. \/ Goto("addTarget", o)
          \/ \E s : Conclude(o, s) \/ Conclude(local, s) \/ Conclude(u("False"), s)
          \/ Return(u("Unknown"), "error") \/ Return(u("False"), "error")
      BY <1>5 DEF ComputeGet, SetAddresses
    <2> HIDE DEF o, u
    <2>5. QED
      BY <1>1, <1>4, <2>1, <2>2, <2>3, <2>4 DEF Goto, Return
  <1>6. CASE AddTarget
    <2>1. pc = "addTarget" /\ base.life = "live"
      BY <1>6 DEF AddTarget, WorkerInv
    <2>2. Conclude(local, "RUNNING") \/ Return(local, "error")
      BY <1>6 DEF AddTarget
    <2>3. QED
      BY <1>1, <1>4, <2>1, <2>2 DEF Return
  <1>7. CASE DeleteGet \/ RemoveTarget \/ ComputeDelete
    <2>1. pc \in {"delGet", "dereg", "deregGone", "vmDelete"} /\ base.life = "deleting"
      BY <1>7 DEF DeleteGet, RemoveTarget, ComputeDelete, WorkerInv
    <2> DEFINE o == [local EXCEPT !.st = inst[local.pid].st]
               f == [local EXCEPT !.fin = FALSE]
    <2>2. o.ready = local.ready /\ f.ready = local.ready /\ f.fin = FALSE
      BY <1>1 DEF Object
    <2>3. \/ \E s \in {"deregGone", "dereg", "vmDelete"} : Goto(s, local) \/ Goto(s, o)
          \/ Return(f, "none")
          \/ \E r \in {"after", "error"} : Return(o, r) \/ Return(local, r)
      BY <1>7 DEF DeleteGet, RemoveTarget, ComputeDelete
    <2> HIDE DEF o, f
    <2>4. QED
      BY <2>1, <2>2, <2>3 DEF Goto, Return
  <1>8. QED
    BY <1>2, <1>3, <1>5, <1>6, <1>7

(* What a step of the worker leaves alone, and how its patches end. *)
LEMMA WorkFacts ==
    ASSUME TypeOK, WorkerInv, ViewsInv, WorkerStep
    PROVE  /\ pc # "idle" /\ pc' # "idle" /\ cur \in Machines
           /\ UNCHANGED <<cache, owner, paused, infra, queue, cur, booted, base>>
           /\ local.ready => local'.ready
           /\ pc' \in {"conds", "spec", "status"} /\ res' = "none" =>
                 \/ /\ pc' = "conds"
                    /\ base.life = "live" /\ booted => local'.ready
                    /\ base.life = "deleting" => ~local'.fin
                 \/ /\ pc \in {"conds", "spec"} /\ res = "none" /\ local' = local
                    /\ pc' = "spec" \/ (pc' = "status" /\ PatchSpec)
  <1>1. CASE PatchConds \/ PatchSpec
    BY <1>1 DEF TypeOK, PatchConds, PatchSpec
  <1>2. CASE AddFinalizer \/ ComputeCreate \/ ComputeGet \/ AddTarget \/ DeleteGet
             \/ RemoveTarget \/ ComputeDelete
    <2>1. UNCHANGED <<cache, owner, paused, infra, queue, cur, booted, base>>
      BY <1>2 DEF AddFinalizer, ComputeCreate, ComputeGet, AddTarget, DeleteGet, RemoveTarget,
                  ComputeDelete, Conclude, Goto, Return, k8s
    <2>2. QED
      BY <1>2, <2>1, ResultFacts DEF TypeOK
  <1>3. QED
    BY <1>1, <1>2 DEF WorkerStep

(* The finalizer's removal without an error takes the object away. *)
LEMMA RemovalFacts ==
    ASSUME TypeOK, ViewsInv, PatchSpec, res' = "none", base.life = "deleting", ~local.fin
    PROVE  ym'[cur].life = "gone"
  <1>1. /\ pc = "spec" /\ cur \in Machines /\ ym[cur] \in Object
        /\ base.fin /\ ym[cur].life \in {"deleting", "gone"}
    BY DEF TypeOK, PatchSpec, ViewsInv, Lags
  <1>2. ym' = [ym EXCEPT ![cur] = Finalized(MergeSpec(ym[cur]))] /\ Exists(ym[cur])
    BY <1>1 DEF PatchSpec
  <1>3. Finalized(MergeSpec(ym[cur])).life = "gone"
    BY <1>1, <1>2, MergeSpecFacts DEF Exists
  <1>4. QED
    BY <1>1, <1>2, <1>3 DEF TypeOK

(* What the last patch leaves behind when the key is not requeued. *)
LEMMA EndFacts ==
    ASSUME TypeOK, PatchStatus
    PROVE  /\ pc = "status" /\ pc' = "idle" /\ cur \in Machines
           /\ UNCHANGED <<cache, owner, paused, infra>> /\ queue \subseteq queue'
           /\ cur \in queue' \/ /\ res = "none"
                                /\ Exists(ym[cur]) =>
                                      ym'[cur].ready = IF local.ready = base.ready
                                                       THEN ym[cur].ready ELSE local.ready
  <1>1. /\ pc = "status" /\ pc' = "idle" /\ cur \in Machines /\ ym[cur] \in Object
        /\ UNCHANGED <<cache, owner, paused, infra>> /\ queue \subseteq queue'
    BY DEF TypeOK, PatchStatus, Rest, Requeue
  <1>2. \/ cur \in queue'
        \/ /\ res = "none"
           /\ ym' = IF Exists(ym[cur]) THEN [ym EXCEPT ![cur] = MergeStatus(ym[cur])] ELSE ym
    BY DEF PatchStatus, Requeue
  <1>3. MergeStatus(ym[cur]).ready = IF local.ready = base.ready THEN ym[cur].ready ELSE local.ready
    BY <1>1, PatchFacts
  <1>4. QED
    BY <1>1, <1>2, <1>3 DEF TypeOK

(* Ready is never taken back. *)
LEMMA ReadyStays ==
    ASSUME TypeOK, WakeInv, [Next]_vars, NEW m \in Machines, ym[m].ready
    PROVE  ym'[m].ready
  <1>1. CASE PatchStatus
    <2>1. pc # "idle" /\ local.ready \in BOOLEAN /\ base.ready \in BOOLEAN
      BY <1>1 DEF TypeOK, Object, PatchStatus
    <2>2. base.ready => local.ready
      BY <2>1 DEF WakeInv
    <2>3. QED
      BY <1>1, <2>1, <2>2, StatusFacts
  <1>2. CASE ~PatchStatus
    BY <1>2, ObjectFacts
  <1>3. QED
    BY <1>1, <1>2

(* Before the gates open there is no finalizer and no reconcile. *)
LEMMA GatesKept ==
    ASSUME TypeOK, MachineInv, WakeInv, [Next]_vars
    PROVE  /\ infra' = "absent" => pc' = "idle"
           /\ \A m \in Machines :
                 /\ ym'[m].life = "none" => owner'[m] = "none"
                 /\ ym'[m].fin => owner'[m] # "none" /\ infra' # "absent"
                 /\ cache'[m].ready => ym'[m].ready
  <1>1. WorkerInv /\ ViewsInv
    BY DEF MachineInv
  <1>2. infra' = "absent" => pc' = "idle"
    <2> SUFFICES ASSUME infra' = "absent"
                 PROVE  pc' = "idle"
      OBVIOUS
    <2>1. infra = "absent" /\ pc = "idle"
      BY EventFacts DEF WakeInv
    <2>2. \A m \in Machines : ~Begin(m)
      BY <2>1 DEF Begin, Gated
    <2>3. QED
      BY <2>1, <2>2, StepCases, OutsideFacts
         DEF AddFinalizer, PatchConds, ComputeCreate, ComputeGet, AddTarget, DeleteGet,
             RemoveTarget, ComputeDelete, PatchSpec, PatchStatus, Crash, Rest
  <1>3. ASSUME NEW m \in Machines
        PROVE  ym'[m].life = "none" => owner'[m] = "none"
    BY EventFacts, ObjectFacts DEF WakeInv
  <1>4. ASSUME NEW m \in Machines, ym'[m].fin
        PROVE  owner'[m] # "none" /\ infra' # "absent"
    <2>1. ym[m].fin \/ (pc # "idle" /\ cur = m)
      <3>1. ASSUME NEW k \in Machines, CreateMachine(k) \/ DeleteMachine(k)
            PROVE  ym[m].fin
        BY <1>4, <3>1, UserFacts
      <3>2. CASE AddFinalizer \/ PatchConds \/ PatchSpec \/ PatchStatus
        <4>1. pc # "idle" /\ cur \in Machines /\ (m # cur => ym'[m] = ym[m])
          BY <3>2 DEF TypeOK, AddFinalizer, PatchConds, PatchSpec, PatchStatus
        <4>2. QED
          BY <1>4, <4>1
      <3>3. QED
        BY <1>4, <3>1, <3>2
           DEF Next, Environment, Reconcile, SetOwnerRef, SetBootstrapData, Pause, Unpause,
               ClusterEvent, LateCreate, VMStarted, VMDeleted, VMDisturbed, SetStatus,
               TargetGroupUp, TargetGroupLost, CacheSync, Skip, Begin, ComputeCreate,
               ComputeGet, AddTarget, DeleteGet, RemoveTarget, ComputeDelete, Crash, vars, k8s
    <2>2. owner[m] # "none" /\ infra # "absent"
      BY <2>1 DEF WakeInv
    <2>3. QED
      BY <2>2, EventFacts
  <1>5. ASSUME NEW m \in Machines
        PROVE  cache'[m].ready => ym'[m].ready
    BY EventFacts, ReadyStays DEF WakeInv
  <1>6. QED
    BY <1>2, <1>3, <1>4, <1>5

(* The worker's conjuncts. *)
LEMMA ResultKept ==
    ASSUME TypeOK, MachineInv, WakeInv, [Next]_vars
    PROVE  /\ pc' # "idle" =>
                 /\ owner'[cur'] # "none"
                 /\ base'.ready => ym'[cur'].ready /\ local'.ready
                 /\ ~booted' /\ owner'[cur'] = "boot" => cur' \in queue'
           /\ pc' \in {"conds", "spec", "status"} /\ res' = "none" =>
                 /\ base'.life = "live" /\ booted' => local'.ready
                 /\ base'.life = "deleting" =>
                       ~local'.fin /\ (pc' = "status" => ym'[cur'].life = "gone")
  <1>1. WorkerInv /\ ViewsInv
    BY DEF MachineInv
  <1> SUFFICES ASSUME pc' # "idle"
               PROVE  /\ /\ owner'[cur'] # "none"
                         /\ base'.ready => ym'[cur'].ready /\ local'.ready
                         /\ ~booted' /\ owner'[cur'] = "boot" => cur' \in queue'
                      /\ pc' \in {"conds", "spec", "status"} /\ res' = "none" =>
                            /\ base'.life = "live" /\ booted' => local'.ready
                            /\ base'.life = "deleting" =>
                                  ~local'.fin /\ (pc' = "status" => ym'[cur'].life = "gone")
    OBVIOUS
  <1>2. ASSUME NEW m \in Machines, Begin(m)
        PROVE  /\ /\ owner'[cur'] # "none"
                  /\ base'.ready => ym'[cur'].ready /\ local'.ready
                  /\ ~booted' /\ owner'[cur'] = "boot" => cur' \in queue'
               /\ pc' \in {"conds", "spec", "status"} =>
                     base'.life = "deleting" /\ ~local'.fin /\ pc' # "status"
    <2>1. /\ cur' = m /\ base' = cache[m] /\ owner' = owner /\ ym' = ym
          /\ owner[m] # "none" /\ booted' = (owner[m] = "boot")
      BY <1>2 DEF Begin, Gated, k8s
    <2>2. pc' \in {"conds", "spec", "status"} =>
              base'.life = "deleting" /\ ~local'.fin /\ pc' # "status"
      <3>1. cache[m] \in Object
        BY DEF TypeOK
      <3>2. [cache[m] EXCEPT !.fin = FALSE].fin = FALSE
        BY <3>1 DEF Object
      <3>3. QED
        BY <1>2, <3>2 DEF Begin
    <2>3. base'.ready => ym'[cur'].ready /\ local'.ready
      BY <1>2, <2>1, BeginFacts DEF WakeInv
    <2>4. QED
      BY <2>1, <2>2, <2>3
  <1>3. CASE WorkerStep
    <2>1. /\ pc # "idle" /\ cur \in Machines
          /\ UNCHANGED <<cache, owner, paused, infra, queue, cur, booted, base>>
          /\ local.ready => local'.ready
      BY <1>1, <1>3, WorkFacts
    <2>2. /\ owner[cur] # "none"
          /\ base.ready => ym[cur].ready /\ local.ready
          /\ ~booted /\ owner[cur] = "boot" => cur \in queue
      BY <2>1 DEF WakeInv
    <2>3. base.ready => ym'[cur].ready
      BY <2>1, <2>2, ReadyStays
    <2>4. ASSUME pc' \in {"conds", "spec", "status"}, res' = "none"
          PROVE  /\ base.life = "live" /\ booted => local'.ready
                 /\ base.life = "deleting" =>
                       ~local'.fin /\ (pc' = "status" => ym'[cur].life = "gone")
      <3>1. CASE /\ pc \in {"conds", "spec"} /\ res = "none" /\ local' = local
                 /\ pc' = "spec" \/ (pc' = "status" /\ PatchSpec)
        <4>1. /\ base.life = "live" /\ booted => local.ready
              /\ base.life = "deleting" => ~local.fin
          BY <3>1 DEF WakeInv
        <4>2. base.life = "deleting" /\ pc' = "status" => ym'[cur].life = "gone"
          BY <1>1, <2>4, <3>1, <4>1, RemovalFacts
        <4>3. QED
          BY <3>1, <4>1, <4>2
      <3>2. QED
        BY <1>1, <1>3, <2>4, <3>1, WorkFacts
    <2>5. QED
      BY <2>1, <2>2, <2>3, <2>4
  <1>4. CASE EnvironmentStep /\ ~Crash
    <2>1. /\ UNCHANGED <<pc, cur, base, local>> /\ pc # "idle" /\ cur \in Machines
          /\ \A m \in Machines : ~Begin(m) /\ ~Skip(m)
      BY <1>4, OutsideFacts DEF TypeOK, Begin, Skip, Take
    <2>2. /\ owner[cur] # "none"
          /\ base.ready => ym[cur].ready /\ local.ready
          /\ ~booted /\ owner[cur] = "boot" => cur \in queue
      BY <2>1 DEF WakeInv
    <2>3. UNCHANGED <<booted, res>>
      BY <1>4, <2>1
         DEF EnvironmentStep, Environment, CreateMachine, DeleteMachine, SetOwnerRef,
             SetBootstrapData, Pause, Unpause, ClusterEvent, LateCreate, VMStarted, VMDeleted,
             VMDisturbed, SetStatus, TargetGroupUp, TargetGroupLost, CacheSync, Skip, vars, worker
    <2>4. base.ready => ym'[cur].ready
      BY <2>1, <2>2, ReadyStays
    <2>5. owner'[cur] # "none" /\ (~booted /\ owner'[cur] = "boot" => cur \in queue')
      <3>1. CASE owner'[cur] = owner[cur]
        BY <1>4, <2>1, <2>2, <3>1, QueueFacts
      <3>2. CASE owner'[cur] # owner[cur]
        BY <2>1, <3>2, EventFacts
      <3>3. QED
        BY <3>1, <3>2
    <2>6. pc = "status" /\ ym[cur].life = "gone" => ym'[cur].life = "gone"
      BY <2>1, LifeFacts
    <2>7. pc \in {"conds", "spec", "status"} /\ res = "none" =>
              /\ base.life = "live" /\ booted => local.ready
              /\ base.life = "deleting" => ~local.fin /\ (pc = "status" => ym[cur].life = "gone")
      BY DEF WakeInv
    <2>8. QED
      BY <2>1, <2>2, <2>3, <2>4, <2>5, <2>6, <2>7
  <1>5. ~Crash /\ ~PatchStatus
    BY DEF Crash, PatchStatus, Rest
  <1>6. QED
    BY <1>2, <1>3, <1>4, <1>5, StepCases DEF WorkerStep

(* A deletion that may go on is awaited by somebody. *)
LEMMA DeletableKept ==
    ASSUME TypeOK, MachineInv, WakeInv, [Next]_vars, NEW m \in Machines, Deletable(m)'
    PROVE  \/ m \in queue'
           \/ cache'[m].life # "deleting"
           \/ Busy(m)' /\ base'.life = "deleting"
  <1> SUFFICES ASSUME m \notin queue', cache'[m].life = "deleting"
               PROVE  Busy(m)' /\ base'.life = "deleting"
    OBVIOUS
  <1>1. /\ WorkerInv /\ ObjectsInv /\ ViewsInv
        /\ ym'[m].life = "deleting" /\ ~paused' /\ infra' # "gone"
    BY DEF MachineInv, Deletable
  <1>2. cache[m] = cache'[m]
    <2> SUFFICES ASSUME cache[m] # cache'[m]
                 PROVE  FALSE
      OBVIOUS
    <2>1. ym' = ym /\ m \notin Existing
      BY EventFacts
    <2>2. QED
      BY <1>1, <2>1 DEF Existing, Exists
  <1>3. ym[m].life = "deleting"
    <2>1. ym[m].life \in {"deleting", "gone"}
      BY <1>1, <1>2 DEF ViewsInv, Lags
    <2>2. QED
      BY <1>1, <2>1, LifeFacts
  <1>4. m \in Existing /\ ~paused /\ infra # "gone"
    <2>1. m \in Existing
      BY <1>3 DEF Existing, Exists
    <2>2. QED
      BY <1>1, <2>1, EventFacts DEF TypeOK
  <1>5. CASE m \in queue
    <2>1. Skip(m) \/ Begin(m)
      BY <1>4, <1>5, QueueFacts
    <2>2. ~Gated(m)
      BY <1>1, <1>2, <1>3, <1>4 DEF Gated, Exists, WakeInv, ObjectsInv
    <2>3. Begin(m)
      BY <2>1, <2>2 DEF Skip
    <2>4. cur' = m /\ base'.life = "deleting" /\ pc' # "idle"
      BY <1>2, <2>3, BeginFacts
    <2>5. QED
      BY <2>4 DEF Busy
  <1>6. CASE m \notin queue
    <2>1. pc # "idle" /\ cur = m /\ base.life = "deleting"
      BY <1>2, <1>3, <1>4, <1>6 DEF WakeInv, Deletable, Busy
    <2>2. ~PatchStatus
      <3> SUFFICES ASSUME PatchStatus
                   PROVE  FALSE
        OBVIOUS
      <3>1. res = "none" /\ pc = "status"
        BY <2>1, EndFacts
      <3>2. QED
        BY <1>3, <2>1, <3>1 DEF WakeInv
    <2>3. ~Crash
      BY <1>4 DEF Crash
    <2>4. \A k \in Machines : ~Begin(k)
      BY <2>1 DEF Begin, Take
    <2>5. UNCHANGED <<cur, base>> /\ pc' # "idle"
      BY <1>1, <2>1, <2>2, <2>3, <2>4, StepCases, OutsideFacts, WorkFacts DEF WorkerStep
    <2>6. QED
      BY <2>1, <2>5 DEF Busy
  <1>7. QED
    BY <1>5, <1>6

(* So is a machine that may be provisioned and is not Ready. *)
LEMMA ProvisionableKept ==
    ASSUME TypeOK, MachineInv, WakeInv, [Next]_vars, NEW m \in Machines, Provisionable(m)'
    PROVE  \/ m \in queue'
           \/ cache'[m] # ym'[m]
           \/ Busy(m)' /\ base'.life = "live" /\ booted'
  <1> SUFFICES ASSUME m \notin queue', cache'[m] = ym'[m]
               PROVE  Busy(m)' /\ base'.life = "live" /\ booted'
    OBVIOUS
  <1>1. /\ WorkerInv /\ ObjectsInv /\ ViewsInv
        /\ ym'[m].life = "live" /\ ~ym'[m].ready /\ owner'[m] = "boot" /\ ~paused'
        /\ infra' = "up"
    BY DEF MachineInv, Provisionable
  <1>2. ~ym[m].ready /\ owner[m] = "boot" /\ ym[m].life = "live"
    <2>1. ~ym[m].ready
      BY <1>1, ReadyStays
    <2>2. owner[m] = "boot"
      BY <1>1, EventFacts
    <2>3. ym[m].life \in {"none", "live"}
      BY <1>1, ObjectFacts
    <2>4. QED
      BY <2>1, <2>2, <2>3 DEF WakeInv
  <1>3. m \in Existing /\ ~paused /\ infra = "up" /\ cache[m] = cache'[m]
    <2>1. m \in Existing
      BY <1>2 DEF Existing, Exists
    <2>2. QED
      BY <1>1, <2>1, EventFacts DEF TypeOK
  <1>4. Provisionable(m) /\ ~Crash
    BY <1>2, <1>3 DEF Provisionable, Crash
  <1>5. ASSUME pc # "idle", cur = m
        PROVE  base.life = "live"
    BY <1>1, <1>2, <1>5 DEF ViewsInv, Lags
  <1>6. ASSUME ~WorkerStep, ~PatchStatus
        PROVE  ym'[m] = ym[m]
    <2>1. ASSUME NEW k \in Machines, CreateMachine(k) \/ DeleteMachine(k)
          PROVE  ym'[m] = ym[m]
      <3>1. k # m
        BY <1>1, <1>2, <2>1, UserFacts
      <3>2. QED
        BY <2>1, <3>1 DEF CreateMachine, DeleteMachine, TypeOK
    <2>2. QED
      BY <1>6, <2>1
         DEF Next, Environment, Reconcile, WorkerStep, SetOwnerRef, SetBootstrapData, Pause,
             Unpause, ClusterEvent, LateCreate, VMStarted, VMDeleted, VMDisturbed, SetStatus,
             TargetGroupUp, TargetGroupLost, CacheSync, Skip, Begin, Crash, vars, k8s
  <1>7. CASE m \in queue
    <2>1. Skip(m) \/ Begin(m)
      BY <1>4, <1>7, QueueFacts
    <2>2. cache[m] = ym[m]
      BY <1>3, <2>1 DEF Skip, Begin, k8s
    <2>3. ~Gated(m)
      BY <1>2, <1>3, <2>2 DEF Gated, Exists
    <2>4. Begin(m)
      BY <2>1, <2>3 DEF Skip
    <2>5. cur' = m /\ base'.life = "live" /\ pc' # "idle" /\ booted'
      BY <1>2, <2>2, <2>4, BeginFacts DEF Begin
    <2>6. QED
      BY <2>5 DEF Busy
  <1>8. CASE m \notin queue
    <2>1. pc # "idle" /\ cur = m /\ base.life = "live" /\ booted
      <3>1. CASE cache[m] # ym[m]
        <4>1. ym'[m] # ym[m]
          BY <1>3, <3>1
        <4>2. pc # "idle" /\ cur = m
          <5>1. WorkerStep \/ PatchStatus
            BY <1>6, <4>1
          <5>2. pc # "idle" /\ cur \in Machines
            BY <1>1, <5>1, WorkFacts, EndFacts
          <5>3. cur # m => ym'[m] = ym[m]
            BY <5>1, <5>2
               DEF WorkerStep, AddFinalizer, ComputeCreate, ComputeGet, AddTarget, DeleteGet,
                   RemoveTarget, ComputeDelete, PatchConds, PatchSpec, PatchStatus, TypeOK, k8s
          <5>4. QED
            BY <4>1, <5>2, <5>3
        <4>3. booted
          BY <1>2, <1>8, <4>2 DEF WakeInv
        <4>4. QED
          BY <1>5, <4>2, <4>3
      <3>2. QED
        BY <1>4, <1>8, <3>1 DEF WakeInv, Busy
    <2>2. ~PatchStatus
      <3> SUFFICES ASSUME PatchStatus
                   PROVE  FALSE
        OBVIOUS
      <3>1. /\ res = "none" /\ pc = "status"
            /\ ym'[m].ready = IF local.ready = base.ready THEN ym[m].ready ELSE local.ready
        BY <1>3, <2>1, EndFacts DEF Existing
      <3>2. local.ready
        BY <2>1, <3>1 DEF WakeInv
      <3>3. ~base.ready
        BY <1>2, <2>1 DEF WakeInv
      <3>4. QED
        BY <1>1, <3>1, <3>2, <3>3
    <2>3. \A k \in Machines : ~Begin(k)
      BY <2>1 DEF Begin, Take
    <2>4. UNCHANGED <<cur, base, booted>> /\ pc' # "idle"
      <3>1. CASE WorkerStep
        BY <1>1, <3>1, WorkFacts
      <3>2. CASE ~WorkerStep
        BY <1>4, <2>1, <2>2, <2>3, <3>2, StepCases, OutsideFacts, EventFacts DEF WorkerStep
      <3>3. QED
        BY <3>1, <3>2
    <2>5. QED
      BY <2>1, <2>4 DEF Busy
  <1>9. QED
    BY <1>7, <1>8

(* WakeInv is preserved. *)
LEMMA WakeStep ==
    ASSUME TypeOK, MachineInv, WakeInv, [Next]_vars
    PROVE  WakeInv'
  <1>1. \A m \in Machines :
            /\ Deletable(m)' =>
                  \/ m \in queue'
                  \/ cache'[m].life # "deleting"
                  \/ Busy(m)' /\ base'.life = "deleting"
            /\ Provisionable(m)' =>
                  \/ m \in queue'
                  \/ cache'[m] # ym'[m]
                  \/ Busy(m)' /\ base'.life = "live" /\ booted'
    BY DeletableKept, ProvisionableKept
  <1>2. QED
    BY <1>1, GatesKept, ResultKept DEF WakeInv

(* WakeInv holds initially. *)
LEMMA WakeInit ==
    ASSUME Init
    PROVE  WakeInv
  BY DEF Init, WakeInv, Deletable, Provisionable, Absent

(***************************************************************************)
(* Every return of Reconcile without a requeue leaves the machine to an    *)
(* event that comes, with any number of machines and faults.               *)
(***************************************************************************)
THEOREM WakeUps == Spec => []WakeInv
  <1>1. TypeOK /\ MachineInv /\ WakeInv /\ [Next]_vars => WakeInv'
    BY WakeStep
  <1>2. QED
    BY <1>1, WakeInit, Invariance, PTL DEF Spec

(***************************************************************************)
(* No machine with work left is forgotten: the safety half of              *)
(* DeletionCompletes and ProvisioningCompletes, for every number of        *)
(* machines and faults.                                                    *)
(***************************************************************************)
THEOREM NeverForgotten == Spec => []NotForgotten
  <1>1. WakeInv => NotForgotten
    BY DEF WakeInv, NotForgotten, Deletable
  <1>2. QED
    BY <1>1, WakeUps, PTL

(***************************************************************************)
(* All the supporting invariants of the machine controller together, for   *)
(* every number of machines and faults, if no address is given twice.      *)
(***************************************************************************)
THEOREM Supported ==
    ASSUME AddressesUnique
    PROVE  Spec => []SupportInv
  <1>1. UndisturbedInv /\ TargetsInv /\ StrayInv /\ WakeInv => SupportInv
    BY DEF SupportInv
  <1>2. QED
    BY <1>1, Undisturbed, TargetsKept, StrayKept, WakeUps, PTL

-----------------------------------------------------------------------------
(***************************************************************************)
(* What the cluster controller relies on next to this one.                 *)
(***************************************************************************)

(* Before the informer shows a YandexCluster, no reconcile passes the gate,  *)
(* so no machine gets a finalizer and none waits for its deletion.          *)
LEMMA GateFacts ==
    ASSUME TypeOK, [Next]_vars, infra = "absent", pc = "idle",
           \A m \in Machines : ym[m].life # "deleting" /\ ~ym[m].fin
    PROVE  pc' = "idle" /\ \A m \in Machines : ym'[m].life # "deleting" /\ ~ym'[m].fin
  <1>1. \A m \in Machines : ~Begin(m)
    BY DEF Begin, Gated
  <1>2. ASSUME NEW k \in Machines, CreateMachine(k) \/ DeleteMachine(k)
        PROVE  pc' = "idle" /\ \A m \in Machines : ym'[m].life # "deleting" /\ ~ym'[m].fin
    BY <1>2, UserFacts
  <1>3. ~Reconcile
    BY DEF Reconcile, AddFinalizer, ComputeCreate, ComputeGet, AddTarget, DeleteGet,
           RemoveTarget, ComputeDelete, PatchConds, PatchSpec, PatchStatus
  <1>4. CASE Crash
    BY <1>4 DEF Crash, Rest
  <1>5. QED
    BY <1>1, <1>2, <1>3, <1>4
       DEF Next, Environment, SetOwnerRef, SetBootstrapData, Pause, Unpause, ClusterEvent,
           LateCreate, VMStarted, VMDeleted, VMDisturbed, SetStatus, TargetGroupUp,
           TargetGroupLost, CacheSync, Skip, vars, k8s, worker

(* The machine controller registers only in a group that is there. *)
LEMMA GroupFacts ==
    ASSUME TypeOK, [Next]_vars, tg' = tg, targets # {} => tg
    PROVE  targets' # {} => tg'
  <1>1. CASE AddTarget
    BY <1>1 DEF AddTarget
  <1>2. CASE targets' \subseteq targets
    BY <1>2
  <1>3. ASSUME RemoveTarget
        PROVE  targets' \subseteq targets
    BY <1>3 DEF RemoveTarget, WithoutTarget
  <1>4. QED
    BY <1>1, <1>2, <1>3
       DEF Next, Environment, Reconcile, CreateMachine, DeleteMachine, SetOwnerRef,
           SetBootstrapData, Pause, Unpause, ClusterEvent, LateCreate, VMStarted, VMDeleted,
           VMDisturbed, SetStatus, TargetGroupUp, TargetGroupLost, CacheSync, Skip, Begin,
           AddFinalizer, ComputeCreate, ComputeGet, DeleteGet, ComputeDelete, PatchConds,
           PatchSpec, PatchStatus, Crash, vars, cloud

(* Only the loss of the target group counts as one. *)
LEMMA GroupKept ==
    ASSUME TypeOK, [Next]_vars, tg' = tg
    PROVE  spent'["tg"] = spent["tg"]
  <1>1. ASSUME NEW k \in FaultKinds \ {"tg"}, Fault(k)
        PROVE  spent'["tg"] = spent["tg"]
    BY <1>1 DEF TypeOK, Fault, FaultKinds
  <1>2. spent' = spent \/ \E k \in FaultKinds \ {"tg"} : Fault(k)
    BY DEF Next, Environment, Reconcile, CreateMachine, DeleteMachine, SetOwnerRef,
           SetBootstrapData, Pause, Unpause, ClusterEvent, LateCreate, VMStarted, VMDeleted,
           VMDisturbed, TargetGroupUp, TargetGroupLost, CacheSync, Skip, Begin, Take,
           AddFinalizer, ComputeCreate, ComputeGet, AddTarget, DeleteGet, RemoveTarget,
           ComputeDelete, PatchConds, PatchSpec, PatchStatus, Crash, FaultKinds, vars, memory
  <1>3. QED
    BY <1>1, <1>2
=============================================================================
