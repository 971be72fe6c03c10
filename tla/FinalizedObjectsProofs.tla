----------------------- MODULE FinalizedObjectsProofs -----------------------
(***************************************************************************)
(* Every implementation of FinalizedObjects keeps the promise of its       *)
(* finalizer.                                                              *)
(***************************************************************************)
EXTENDS FinalizedObjects, TLAPS

(* What each variable of the abstract specification holds. *)
AbstractType ==
    /\ life \in [Objects -> {"none", "live", "deleting", "gone"}]
    /\ fin \in [Objects -> BOOLEAN]
    /\ held \in [Objects -> SUBSET Resources]

(* Promise says nothing of an object that exists without its finalizer, and *)
(* the API server removes such an object at once.  It has to be empty too.  *)
Covered ==
    /\ \A o \in Objects : ~(Exists(o) /\ fin[o]) => held[o] \subseteq leaked
    /\ leaked # {} => faulty

(***************************************************************************)
(* The promise of a finalizer follows from its discipline alone: acquire   *)
(* under the finalizer, and remove it when nothing is left.                *)
(***************************************************************************)
THEOREM FinalizerKeepsPromise == Spec => []Promise
  <1>1. Init => AbstractType /\ Covered
    BY DEF Init, AbstractType, Covered
  <1>2. AbstractType /\ Covered /\ [Next]_vars => (AbstractType /\ Covered)'
    <2> SUFFICES ASSUME AbstractType, Covered, [Next]_vars
                 PROVE  AbstractType' /\ Covered'
      OBVIOUS
    <2> USE DEF AbstractType, Covered, Exists
    <2>1. CASE Remember /\ UNCHANGED <<life, fin, held>>
      BY <2>1 DEF Remember
    <2>2. ASSUME Remember, NEW o \in Objects,
                 Create(o) \/ RequestDeletion(o) \/ Protect(o) \/ Finalize(o)
          PROVE  AbstractType' /\ Covered'
      <3>1. CASE Create(o)
        BY <2>2, <3>1 DEF Remember, Create
      <3>2. CASE RequestDeletion(o)
        BY <2>2, <3>2 DEF Remember, RequestDeletion
      <3>3. CASE Protect(o)
        BY <2>2, <3>3 DEF Remember, Protect
      <3>4. CASE Finalize(o)
        BY <2>2, <3>4 DEF Remember, Finalize
      <3>5. QED
        BY <2>2, <3>1, <3>2, <3>3, <3>4
    <2>3. ASSUME Remember, NEW o \in Objects, NEW r \in Resources,
                 Acquire(o, r) \/ Release(o, r)
          PROVE  AbstractType' /\ Covered'
      <3>1. CASE Acquire(o, r)
        BY <2>3, <3>1 DEF Remember, Acquire
      <3>2. CASE Release(o, r)
        BY <2>3, <3>2 DEF Remember, Release
      <3>3. QED
        BY <2>3, <3>1, <3>2
    <2>4. CASE UNCHANGED vars
      BY <2>4 DEF vars
    <2>5. QED
      BY <2>1, <2>2, <2>3, <2>4 DEF Next
  <1>3. Covered => Promise
    BY DEF Covered, Promise
  <1>4. QED
    BY <1>1, <1>2, <1>3, PTL DEF Spec
=============================================================================
