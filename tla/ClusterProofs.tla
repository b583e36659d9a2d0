---------------------------- MODULE ClusterProofs ---------------------------
(***************************************************************************)
(* Proofs about ClusterLifecycle, for every set of keys, of kinds of extra *)
(* resources and of service types, and every bound on failures.            *)
(***************************************************************************)
EXTENDS ClusterLifecycle, TLAPS

USE NoKeyAssumption, ServiceTypesAssumption, MaxFailuresAssumption

-----------------------------------------------------------------------------
(* Type correctness.                                                        *)

\* New and absent objects are objects.
LEMMA NewObjectType ==
    /\ \A f, e \in BOOLEAN : NewObject(f, e) \in Object
    /\ NoObject \in Object
BY DEF NewObject, NoObject, Object

\* What the deferred patch and the API server make of an object is one
\* (PatchKubevirtCluster).
LEMMA PatchType ==
    ASSUME NEW o \in Object, NEW b \in Object, NEW m \in Object
    PROVE  /\ ApplyDiff(o, b, m) \in Object
           /\ Collect(o) \in Object
<1>1. ApplyDiff(o, b, m) \in Object
  BY DEF ApplyDiff, Object
<1> QED
  BY <1>1, NewObjectType DEF Collect

\* A reconcile that goes on keeps the types.
LEMMA ContinueKeepsTypes ==
    ASSUME TypeOK, NEW m \in Object, NEW next \in Steps \ {"idle"}, Continue(m, next),
           service' \in Service, secret' \in Keys \cup {NoKey}, extras' \subseteq Kinds,
           failures' \in 0..MaxFailures
    PROVE  TypeOK'
BY DEF TypeOK, Continue

\* So does one whose call fails.
LEMMA ErrorKeepsTypes ==
    ASSUME TypeOK, NEW next \in Steps \ {"idle"}, Error(next)
    PROVE  TypeOK'
<1>1. failures' \in 0..MaxFailures /\ Continue(mem, next) /\ UNCHANGED <<service, secret, extras>>
  BY DEF Error, TypeOK
<1> QED
  BY <1>1, ContinueKeepsTypes DEF TypeOK

\* Every step keeps the types.
LEMMA NextKeepsTypes == TypeOK /\ [Next]_vars => TypeOK'
<1> SUFFICES ASSUME TypeOK, [Next]_vars PROVE TypeOK'
  OBVIOUS
<1> DEFINE Calls == Steps \ {"idle"}
<1>a. /\ "idle" \in Steps /\ "endpoint" \in Calls /\ "save" \in Calls /\ "keys" \in Calls
      /\ "persist" \in Calls /\ "report" \in Calls /\ "extras" \in Calls
      /\ "saveStatus" \in Calls
  BY DEF Steps
<1>b. /\ kc \in Object /\ cache \in Object /\ mem \in Object /\ before \in Object
      /\ service \in Service /\ secret \in Keys \cup {NoKey} /\ extras \subseteq Kinds
      /\ failures \in 0..MaxFailures
  BY DEF TypeOK
<1>c. /\ [mem EXCEPT !.endpoint = TRUE] \in Object
      /\ [mem EXCEPT !.ready = TRUE] \in Object
      /\ [mem EXCEPT !.finalizer = FALSE] \in Object
      /\ [mem EXCEPT !.keysRef = TRUE, !.ready = TRUE] \in Object
      /\ [cache EXCEPT !.finalizer = TRUE] \in Object
      /\ [kc EXCEPT !.ready = mem.ready] \in Object
      /\ [kc EXCEPT !.deleting = TRUE] \in Object
      /\ [kc EXCEPT !.foreign = FALSE] \in Object
  BY <1>b DEF Object
<1> HIDE DEF Calls
<1>1. CASE StartReconcile
  <2>1. Dispatch(cache, service) \in Steps /\ Dispatch(cache, service) # "idle"
    BY DEF Dispatch, Steps
  <2>2. mem' \in Object /\ before' \in Object /\ found' \in BOOLEAN
    BY <1>1, <1>b, <1>c DEF StartReconcile
  <2> QED
    BY <1>1, <2>1, <2>2 DEF StartReconcile, TypeOK, world
<1>2. CASE CreateLoadBalancer
  BY <1>2, <1>a, <1>b, ContinueKeepsTypes, ErrorKeepsTypes
     DEF CreateLoadBalancer, Calls, Service
<1>3. CASE SetEndpoint
  BY <1>3, <1>a, <1>b, <1>c, ContinueKeepsTypes, ErrorKeepsTypes DEF SetEndpoint, Calls
<1>4. CASE LookUpKeys
  BY <1>4, <1>a, <1>b, <1>c, ContinueKeepsTypes, ErrorKeepsTypes DEF LookUpKeys, Calls
<1>5. CASE PersistKeys
  BY <1>5, <1>a, <1>b, <1>c, ContinueKeepsTypes, ErrorKeepsTypes DEF PersistKeys, Calls
<1>6. CASE Save
  <2>1. kc' \in Object
    BY <1>6, <1>b, PatchType DEF Save
  <2>2. failures' \in 0..MaxFailures
    BY <1>6, <1>b DEF Save
  <2> QED
    BY <1>6, <2>1, <2>2, <1>a DEF Save, TypeOK, world, Calls
<1>7. CASE SaveStatus
  <2>1. kc' \in Object
    BY <1>7, <1>b, <1>c DEF SaveStatus
  <2>2. failures' \in 0..MaxFailures
    BY <1>7, <1>b DEF SaveStatus
  <2> QED
    BY <1>7, <2>1, <2>2, <1>a, NewObjectType DEF SaveStatus, EndReconcile, TypeOK, world
<1>8. CASE DeleteLoadBalancer
  BY <1>8, <1>a, <1>b, ContinueKeepsTypes, ErrorKeepsTypes
     DEF DeleteLoadBalancer, Calls, Service
<1>9. CASE ReportDeletion
  BY <1>9, <1>a, <1>b, ContinueKeepsTypes, ErrorKeepsTypes DEF ReportDeletion, Calls
<1>10. CASE DeleteExtras
  BY <1>10, <1>a, <1>b, <1>c, ContinueKeepsTypes, ErrorKeepsTypes DEF DeleteExtras, Calls
<1>11. CASE Crash
  <2>1. failures' \in 0..MaxFailures
    BY <1>11, <1>b DEF Crash
  <2> QED
    BY <1>11, <2>1, <1>a, NewObjectType DEF Crash, EndReconcile, TypeOK, world
<1>12. CASE SyncCache \/ SyncSecret \/ SetOwner
  BY <1>12 DEF SyncCache, SyncSecret, SetOwner, TypeOK, controller, world
<1>13. CASE AssignAddress
  BY <1>13 DEF AssignAddress, TypeOK, controller, Service
<1>14. CASE DeleteCluster \/ ReleaseForeign
  <2>1. kc' \in Object
    BY <1>14, <1>c, PatchType DEF DeleteCluster, ReleaseForeign
  <2> QED
    BY <1>14, <2>1 DEF DeleteCluster, ReleaseForeign, TypeOK, controller, world
<1>15. CASE UNCHANGED vars
  BY <1>15 DEF vars, TypeOK
<1> QED
  BY <1>1, <1>2, <1>3, <1>4, <1>5, <1>6, <1>7, <1>8, <1>9, <1>10, <1>11, <1>12,
     <1>13, <1>14, <1>15 DEF Next, Controller

\* A new KubevirtCluster has its type.
LEMMA InitTypes == Init => TypeOK
<1> SUFFICES ASSUME Init PROVE TypeOK
  OBVIOUS
<1>1. kc \in Object
  BY NewObjectType DEF Init
<1>2. pc \in Steps /\ service \in Service /\ failures \in 0..MaxFailures
  BY DEF Init, Steps, Service
<1> QED
  BY <1>1, <1>2, NewObjectType DEF Init, TypeOK

\* Whatever fails, the object stays well formed and no reconcile leaves state
\* behind in memory.
THEOREM ClusterTypes == Spec => []TypeOK
BY InitTypes, NextKeepsTypes, PTL DEF Spec

-----------------------------------------------------------------------------
(* The ssh keys.                                                            *)

\* The secret is written once: PersistKeys finds none and makes it.
LEMMA KeysAreKept == ASSUME TypeOK, [Next]_vars PROVE secret # NoKey => secret' = secret
<1>1. CASE StartReconcile \/ Save \/ SaveStatus \/ Crash \/ SyncCache \/ SyncSecret
           \/ DeleteCluster \/ ReleaseForeign
  BY <1>1 DEF StartReconcile, Save, SaveStatus, Crash, SyncCache, SyncSecret,
     DeleteCluster, ReleaseForeign, world
<1>2. CASE CreateLoadBalancer \/ SetEndpoint \/ LookUpKeys \/ DeleteLoadBalancer
           \/ ReportDeletion \/ DeleteExtras \/ SetOwner \/ AssignAddress
  BY <1>2 DEF CreateLoadBalancer, SetEndpoint, LookUpKeys, DeleteLoadBalancer,
     ReportDeletion, DeleteExtras, SetOwner, AssignAddress, Error
<1>3. CASE PersistKeys
  BY <1>3 DEF PersistKeys, Error
<1>4. CASE UNCHANGED vars
  BY <1>4 DEF vars
<1> QED
  BY <1>1, <1>2, <1>3, <1>4 DEF Next, Controller

\* A step keeps KeysInv that writes no new reference and keeps the secret: what
\* it makes of the objects refers to the keys only if some copy did.
LEMMA ReferencesKept ==
    ASSUME TypeOK, KeysInv, secret # NoKey => secret' = secret, UNCHANGED secretCache,
           kc'.keysRef => kc.keysRef \/ mem.keysRef,
           cache'.keysRef => kc.keysRef \/ cache.keysRef,
           mem'.keysRef => mem.keysRef \/ cache.keysRef,
           before'.keysRef => before.keysRef \/ cache.keysRef
    PROVE  KeysInv'
BY DEF KeysInv, TypeOK

\* A reconcile that goes on with the object it had is such a step.
LEMMA ContinueKeepsKeys ==
    ASSUME TypeOK, KeysInv, [Next]_vars, NEW m, NEW next, Continue(m, next),
           m.keysRef => mem.keysRef
    PROVE  KeysInv'
<1>1. UNCHANGED <<kc, cache, before, secretCache>> /\ mem' = m
  BY DEF Continue
<1> QED
  BY <1>1, KeysAreKept, ReferencesKept

\* Every step keeps the invariant of the keys.
LEMMA NextKeepsKeys == TypeOK /\ KeysInv /\ [Next]_vars => KeysInv'
<1> SUFFICES ASSUME TypeOK, KeysInv, [Next]_vars PROVE KeysInv'
  OBVIOUS
<1>a. secret # NoKey => secret' = secret
  BY KeysAreKept
<1>b. /\ kc \in Object /\ cache \in Object /\ mem \in Object /\ before \in Object
      /\ ~NoObject.keysRef
  BY DEF TypeOK, NoObject, NewObject
<1>c. ASSUME NEW o \in Object PROVE Collect(o).keysRef => o.keysRef
  BY <1>b DEF Collect
<1>1. CASE StartReconcile
  <2>1. /\ UNCHANGED <<kc, cache, secretCache>> /\ before' = cache
        /\ mem'.keysRef = cache.keysRef
    BY <1>1, <1>b DEF StartReconcile, Object
  <2> QED
    BY <2>1, <1>a, ReferencesKept
<1>2. CASE CreateLoadBalancer \/ DeleteLoadBalancer \/ ReportDeletion
  BY <1>2, ContinueKeepsKeys DEF CreateLoadBalancer, DeleteLoadBalancer, ReportDeletion, Error
<1>3. CASE SetEndpoint \/ DeleteExtras
  <2>1. /\ [mem EXCEPT !.endpoint = TRUE].keysRef = mem.keysRef
        /\ [mem EXCEPT !.finalizer = FALSE].keysRef = mem.keysRef
    BY <1>b DEF Object
  <2> QED
    BY <1>3, <2>1, ContinueKeepsKeys DEF SetEndpoint, DeleteExtras, Error
<1>4. CASE LookUpKeys
  <2>1. [mem EXCEPT !.ready = TRUE].keysRef = mem.keysRef
    BY <1>b DEF Object
  <2> QED
    BY <1>4, <2>1, ContinueKeepsKeys DEF LookUpKeys, Error
<1>5. CASE PersistKeys
  <2>1. CASE Continue(mem, "save")
    BY <2>1, ContinueKeepsKeys
  <2>2. CASE /\ secret' # NoKey
             /\ Continue([mem EXCEPT !.keysRef = TRUE, !.ready = TRUE], "save")
    <3>1. UNCHANGED <<kc, cache, before, secretCache>>
      BY <2>2 DEF Continue
    <3>2. secretCache # NoKey => secretCache = secret'
      BY <1>a DEF KeysInv
    <3> QED
      BY <2>2, <3>1, <3>2 DEF KeysInv
  <2>3. secretCache # NoKey => secret # NoKey
    BY DEF KeysInv
  <2> QED
    BY <1>5, <2>1, <2>2, <2>3 DEF PersistKeys, Error
<1>6. CASE Save
  <2>1. ApplyDiff(kc, before, mem).keysRef => kc.keysRef \/ mem.keysRef
    BY <1>b DEF ApplyDiff, Object
  <2>2. kc'.keysRef => kc.keysRef \/ mem.keysRef
    BY <1>6, <1>b, <1>c, <2>1, PatchType DEF Save
  <2>3. UNCHANGED <<cache, mem, before, secretCache>>
    BY <1>6 DEF Save
  <2> QED
    BY <1>a, <2>2, <2>3, ReferencesKept
<1>7. CASE SaveStatus \/ Crash
  <2>1. kc'.keysRef = kc.keysRef
    BY <1>7, <1>b DEF SaveStatus, Crash, Object
  <2>2. UNCHANGED <<cache, secretCache>> /\ mem' = NoObject /\ before' = NoObject
    BY <1>7 DEF SaveStatus, Crash, EndReconcile
  <2> QED
    BY <1>a, <1>b, <2>1, <2>2, ReferencesKept
<1>8. CASE SyncCache \/ SetOwner \/ AssignAddress
  BY <1>8, <1>a, ReferencesKept DEF SyncCache, SetOwner, AssignAddress, controller, world
<1>9. CASE SyncSecret
  BY <1>9 DEF SyncSecret, KeysInv, controller, world
<1>10. CASE DeleteCluster \/ ReleaseForeign
  <2>1. /\ [kc EXCEPT !.deleting = TRUE] \in Object
        /\ [kc EXCEPT !.foreign = FALSE] \in Object
        /\ [kc EXCEPT !.deleting = TRUE].keysRef = kc.keysRef
        /\ [kc EXCEPT !.foreign = FALSE].keysRef = kc.keysRef
    BY <1>b DEF Object
  <2>2. kc'.keysRef => kc.keysRef
    BY <1>10, <2>1, <1>c DEF DeleteCluster, ReleaseForeign
  <2>3. UNCHANGED <<cache, mem, before, secretCache>>
    BY <1>10 DEF DeleteCluster, ReleaseForeign, controller
  <2> QED
    BY <1>a, <2>2, <2>3, ReferencesKept
<1>11. CASE UNCHANGED vars
  BY <1>11 DEF vars, KeysInv
<1> QED
  BY <1>1, <1>2, <1>3, <1>4, <1>5, <1>6, <1>7, <1>8, <1>9, <1>10, <1>11 DEF Next, Controller

\* There is no reference to begin with.
LEMMA InitKeys == Init => KeysInv
<1> SUFFICES ASSUME Init PROVE KeysInv
  OBVIOUS
<1>1. ~kc.keysRef /\ ~NoObject.keysRef
  BY DEF Init, NewObject, NoObject
<1> QED
  BY <1>1 DEF Init, KeysInv

\* No step replaces the key pair, however stale the two caches and wherever an
\* earlier reconcile died (PersistKeysToSecret).
THEOREM KeysAreForever == Spec => KeysNeverChange
<1>1. TypeOK /\ [Next]_vars => [secret # NoKey => secret' = secret]_vars
  BY KeysAreKept
<1> QED
  BY <1>1, ClusterTypes, PTL DEF Spec, KeysNeverChange

\* A KubevirtCluster refers to its keys only once they are there, so that the
\* machine controller, which waits for the reference, finds them.
THEOREM KeysAreThere == Spec => []KeysBehindReference
<1>1. KeysInv => KeysBehindReference
  BY DEF KeysInv, KeysBehindReference
<1> QED
  BY <1>1, InitKeys, NextKeepsKeys, ClusterTypes, PTL DEF Spec

-----------------------------------------------------------------------------
(* The finalizer, the service and the extra resources.                      *)

\* What the API server makes of an object: it keeps every field or drops the
\* object, and drops only one that is being deleted and has no finalizer.
LEMMA Collected ==
    ASSUME NEW o \in Object
    PROVE  /\ Collect(o) # o => ~Collect(o).present /\ ~Collect(o).finalizer
                                /\ o.deleting /\ ~o.finalizer
           /\ Collect(o) # o => /\ ~Collect(o).ready /\ ~Collect(o).keysRef
                                /\ ~Collect(o).endpoint /\ ~Collect(o).deleting
BY DEF Collect, NoObject, NewObject

\* What DeleteCluster and ReleaseForeign change of the object.
LEMMA Withdrawn ==
    ASSUME TypeOK, DeleteCluster \/ ReleaseForeign
    PROVE  /\ UNCHANGED <<cache, pc, mem, before, found, service, serviceType, extras, failures>>
           /\ kc'.present => kc.present /\ kc'.deleting
           /\ kc.finalizer => kc'.finalizer /\ kc'.present = kc.present
           /\ kc'.ready => kc.ready
           /\ kc'.present \/ kc'.ready => /\ kc'.ready = kc.ready /\ kc'.keysRef = kc.keysRef
                                          /\ kc'.endpoint = kc.endpoint
<1>1. UNCHANGED <<cache, pc, mem, before, found, service, serviceType, extras, failures>>
  BY DEF DeleteCluster, ReleaseForeign, controller, world
<1>2. PICK o \in Object : /\ kc' = Collect(o) /\ o.deleting /\ o.present = kc.present
                          /\ o.finalizer = kc.finalizer /\ o.ready = kc.ready
                          /\ o.keysRef = kc.keysRef /\ o.endpoint = kc.endpoint
  <2>1. kc \in Object
    BY DEF TypeOK
  <2>2. CASE DeleteCluster
    <3>1. [kc EXCEPT !.deleting = TRUE] \in Object
      BY <2>1 DEF Object
    <3> QED
      BY <2>1, <2>2, <3>1 DEF DeleteCluster, Object
  <2>3. CASE ReleaseForeign
    <3>1. [kc EXCEPT !.foreign = FALSE] \in Object
      BY <2>1 DEF Object
    <3> QED
      BY <2>1, <2>3, <3>1 DEF ReleaseForeign, Object
  <2> QED
    BY <2>2, <2>3
<1>3. kc' = o \/ /\ ~kc'.present /\ ~kc'.finalizer /\ ~o.finalizer
                 /\ ~kc'.ready
  BY <1>2, Collected
<1> QED
  BY <1>1, <1>2, <1>3

\* What the deferred patch writes: the finalizer goes only if the reconcile
\* removed it, and only then may the object go.
LEMMA Saved ==
    ASSUME TypeOK, Save
    PROVE  /\ pc = "save" /\ pc' = "saveStatus"
           /\ UNCHANGED <<cache, mem, before, found, service, serviceType, extras>>
           /\ failures' = 0 => failures = 0
           /\ mem.finalizer /\ kc.finalizer => kc'.finalizer /\ kc'.present = kc.present
           /\ kc'.present => kc.present /\ kc'.deleting = kc.deleting
<1>1. /\ pc = "save" /\ pc' = "saveStatus"
      /\ UNCHANGED <<cache, mem, before, found, service, serviceType, extras>>
      /\ failures' = 0 => failures = 0
  BY DEF Save, world, TypeOK
<1> DEFINE o == ApplyDiff(kc, before, mem)
<1>2. kc \in Object /\ mem \in Object /\ before \in Object
  BY DEF TypeOK
<1>3. o \in Object
  BY <1>2, PatchType
<1>4. /\ o.present = kc.present /\ o.deleting = kc.deleting
      /\ mem.finalizer /\ kc.finalizer => o.finalizer
  BY <1>2 DEF ApplyDiff, Object
<1>5. kc' = kc \/ kc' = Collect(o)
  BY DEF Save
<1> HIDE DEF o
<1>6. CASE kc' = kc \/ kc' = o
  BY <1>1, <1>4, <1>6
<1>7. CASE kc' = Collect(o) /\ kc' # o
  <2>1. ~kc'.present /\ ~o.finalizer
    BY <1>3, <1>7, Collected
  <2> QED
    BY <1>1, <1>4, <2>1
<1> QED
  BY <1>5, <1>6, <1>7

\* A reconcile that provisions and goes on keeps the finalizer's invariant.
LEMMA ProvisionKeepsFinalizer ==
    ASSUME FinalizerInv, pc \in Provisions, NEW m, NEW next \in Provisions \cup {"save"},
           Continue(m, next), m.finalizer = mem.finalizer, UNCHANGED extras
    PROVE  FinalizerInv'
<1>1. UNCHANGED <<kc, cache>> /\ pc' = next /\ mem' = m
  BY DEF Continue
<1>2. mem.finalizer /\ kc.present /\ kc.finalizer
  BY DEF FinalizerInv
<1>3. mem'.finalizer /\ pc' \in Provisions \cup {"save"}
  BY <1>1, <1>2
<1> QED
  BY <1>1, <1>2, <1>3 DEF FinalizerInv, Releases, Provisions, Deletes

\* Every step keeps the finalizer's invariant.
LEMMA NextKeepsFinalizer == TypeOK /\ FinalizerInv /\ [Next]_vars => FinalizerInv'
<1> SUFFICES ASSUME TypeOK, FinalizerInv, [Next]_vars PROVE FinalizerInv'
  OBVIOUS
<1>a. /\ kc \in Object /\ cache \in Object /\ mem \in Object /\ before \in Object
      /\ failures \in Nat
  BY DEF TypeOK
<1>b. ASSUME NEW next, Error(next)
      PROVE  /\ failures' # 0 /\ Continue(mem, next)
             /\ UNCHANGED <<service, extras>>
  BY <1>a, <1>b DEF Error
<1> USE DEF Provisions, Deletes, Releases
<1>1. CASE StartReconcile
  <2>1. /\ mem'.finalizer /\ found' = (service # "none")
        /\ pc' = Dispatch(cache, service) /\ cache.present
        /\ UNCHANGED <<kc, cache, service, extras, failures>>
    BY <1>1, <1>a DEF StartReconcile, Object, world
  <2>2. pc' \in Provisions \cup Deletes \cup {"save"}
    BY <2>1 DEF Dispatch
  <2>3. pc' \in Provisions => cache.finalizer /\ ~cache.deleting
    BY <2>1 DEF Dispatch
  <2>4. pc' \in Deletes => cache.deleting /\ pc' = "deleteLB"
    BY <2>1 DEF Dispatch
  <2> QED
    BY <2>1, <2>2, <2>3, <2>4 DEF FinalizerInv
<1>2. CASE CreateLoadBalancer
  BY <1>2, <1>b, ProvisionKeepsFinalizer DEF CreateLoadBalancer
<1>3. CASE SetEndpoint
  <2>1. [mem EXCEPT !.endpoint = TRUE].finalizer = mem.finalizer
    BY <1>a DEF Object
  <2> QED
    BY <1>3, <1>b, <2>1, ProvisionKeepsFinalizer DEF SetEndpoint
<1>4. CASE LookUpKeys
  <2>1. [mem EXCEPT !.ready = TRUE].finalizer = mem.finalizer
    BY <1>a DEF Object
  <2> QED
    BY <1>4, <1>b, <2>1, ProvisionKeepsFinalizer DEF LookUpKeys
<1>5. CASE PersistKeys
  <2>1. [mem EXCEPT !.keysRef = TRUE, !.ready = TRUE].finalizer = mem.finalizer
    BY <1>a DEF Object
  <2> QED
    BY <1>5, <1>b, <2>1, ProvisionKeepsFinalizer DEF PersistKeys
<1>6. CASE Save
  BY <1>6, Saved DEF FinalizerInv
<1>7. CASE SaveStatus \/ Crash
  <2>1. kc'.present = kc.present /\ kc'.deleting = kc.deleting /\ kc'.finalizer = kc.finalizer
    BY <1>7, <1>a DEF SaveStatus, Crash, Object
  <2>2. /\ pc' = "idle" /\ UNCHANGED <<cache, service, extras>>
        /\ failures' = 0 => failures = 0
    BY <1>7, <1>a DEF SaveStatus, Crash, EndReconcile, world
  <2> QED
    BY <2>1, <2>2 DEF FinalizerInv
<1>8. CASE DeleteLoadBalancer
  BY <1>8, <1>b DEF DeleteLoadBalancer, Continue, FinalizerInv
<1>9. CASE ReportDeletion
  BY <1>9, <1>b DEF ReportDeletion, Continue, FinalizerInv
<1>10. CASE DeleteExtras
  <2>1. ~[mem EXCEPT !.finalizer = FALSE].finalizer
    BY <1>a DEF Object
  <2>2. CASE Continue(mem, "extras") /\ UNCHANGED <<service, failures>>
    BY <1>10, <2>2 DEF DeleteExtras, Continue, FinalizerInv
  <2>3. CASE Error("save")
    BY <1>10, <1>b, <2>3 DEF DeleteExtras, Continue, FinalizerInv
  <2>4. CASE /\ extras = {} /\ Continue([mem EXCEPT !.finalizer = FALSE], "save")
             /\ UNCHANGED <<service, extras, failures>>
    BY <1>10, <2>1, <2>4 DEF DeleteExtras, Continue, FinalizerInv
  <2> QED
    BY <1>10, <2>2, <2>3, <2>4 DEF DeleteExtras
<1>11. CASE SyncCache
  BY <1>11 DEF SyncCache, controller, world, FinalizerInv
<1>12. CASE SyncSecret \/ SetOwner
  BY <1>12 DEF SyncSecret, SetOwner, controller, world, FinalizerInv
<1>13. CASE AssignAddress
  BY <1>13 DEF AssignAddress, controller, FinalizerInv
<1>14. CASE DeleteCluster \/ ReleaseForeign
  BY <1>14, Withdrawn DEF FinalizerInv
<1>15. CASE UNCHANGED vars
  BY <1>15 DEF vars, FinalizerInv
<1> QED
  BY <1>1, <1>2, <1>3, <1>4, <1>5, <1>6, <1>7, <1>8, <1>9, <1>10, <1>11, <1>12,
     <1>13, <1>14, <1>15 DEF Next, Controller

\* A new object has no service.
LEMMA InitFinalizer == Init => FinalizerInv
BY DEF Init, FinalizerInv, Provisions, Deletes, Releases, NewObject

LEMMA FinalizerIsKept == Spec => [](TypeOK /\ FinalizerInv)
BY InitFinalizer, NextKeepsFinalizer, ClusterTypes, PTL DEF Spec

\* When no call fails and the controller does not crash, the service does not
\* outlive the object, however stale the cache (reconcileDelete).
THEOREM ServiceGoesFirst == Spec => []NoLeakWithoutFailures
<1>1. FinalizerInv => NoLeakWithoutFailures
  BY DEF FinalizerInv, NoLeakWithoutFailures, NoLoadBalancerLeaked
<1> QED
  BY <1>1, FinalizerIsKept, PTL

\* The finalizer is removed only when no extra resource is left, whatever fails
\* (deleteExtraGVK).
THEOREM ExtrasAreGone == Spec => ExtrasGoFirst
<1>1. ASSUME TypeOK, FinalizerInv, [Next]_vars
      PROVE  kc.finalizer /\ ~kc'.finalizer => extras = {}
  <2>1. kc \in Object /\ mem \in Object
    BY <1>1 DEF TypeOK
  <2>2. CASE Save
    BY <1>1, <2>1, <2>2, Saved DEF FinalizerInv, Releases, Object
  <2>3. CASE DeleteCluster \/ ReleaseForeign
    BY <1>1, <2>3, Withdrawn
  <2>4. CASE SaveStatus
    BY <2>1, <2>4 DEF SaveStatus, Object
  <2>5. CASE StartReconcile \/ Crash \/ SyncCache \/ SyncSecret \/ SetOwner \/ AssignAddress
             \/ UNCHANGED vars
    BY <2>5 DEF StartReconcile, Crash, SyncCache, SyncSecret, SetOwner, AssignAddress, vars
  <2>6. CASE CreateLoadBalancer \/ SetEndpoint \/ LookUpKeys \/ PersistKeys
             \/ DeleteLoadBalancer \/ ReportDeletion \/ DeleteExtras
    BY <2>6 DEF CreateLoadBalancer, SetEndpoint, LookUpKeys, PersistKeys,
       DeleteLoadBalancer, ReportDeletion, DeleteExtras, Error, Continue
  <2> QED
    BY <1>1, <2>2, <2>3, <2>4, <2>5, <2>6 DEF Next, Controller
<1>2. TypeOK /\ FinalizerInv /\ [Next]_vars
          => [kc.finalizer /\ ~kc'.finalizer => extras = {}]_vars
  BY <1>1
<1> QED
  BY <1>2, FinalizerIsKept, PTL DEF Spec, ExtrasGoFirst

-----------------------------------------------------------------------------
(* Readiness.                                                               *)

\* What the deferred patch leaves of the spec and the status: the reconcile's
\* own references and endpoint are there afterwards, unless the server refused
\* the patch or the call failed, and nothing that was there is lost.
LEMMA SavedSpec ==
    ASSUME TypeOK, Save, Follows(mem, before)
    PROVE  /\ kc'.present => Follows(kc', kc)
           /\ kc'.ready => kc'.ready = kc.ready /\ Follows(kc', kc)
           /\ kc'.present /\ failures' = 0 /\ kc' # kc /\ Follows(kc, before) => Follows(kc', mem)
           /\ kc'.present /\ failures' = 0 /\ kc' = kc /\ Follows(kc, before) =>
                  Follows(kc', mem) \/ Refused(kc, before, mem)
<1> DEFINE o == ApplyDiff(kc, before, mem)
<1>1. kc \in Object /\ mem \in Object /\ before \in Object /\ failures \in Nat
  BY DEF TypeOK
<1>2. o \in Object
  BY <1>1, PatchType
<1>3. o.ready = kc.ready /\ Follows(o, kc)
  BY <1>1 DEF ApplyDiff, Object, Follows
<1>4. Follows(kc, before) => Follows(o, mem)
  BY <1>1 DEF ApplyDiff, Object, Follows
<1>5. Follows(kc, kc)
  BY DEF Follows
<1>6. \/ kc' = kc /\ (failures' # 0 \/ ~kc.present \/ Refused(kc, before, mem))
      \/ kc' = Collect(o)
  BY <1>1 DEF Save
<1> HIDE DEF o
<1>7. CASE kc' = kc /\ (failures' # 0 \/ ~kc.present \/ Refused(kc, before, mem))
  BY <1>5, <1>7
<1>8. CASE kc' = o
  BY <1>3, <1>4, <1>8
<1>9. CASE kc' = Collect(o) /\ kc' # o
  <2>1. ~kc'.present /\ ~kc'.ready
    BY <1>2, <1>9, Collected
  <2> QED
    BY <2>1
<1> QED
  BY <1>6, <1>7, <1>8, <1>9

\* A reconcile that goes on keeps ReadyInv if the object in memory gains only
\* what makes it ready, in that order.
LEMMA ContinueKeepsReady ==
    ASSUME TypeOK, FinalizerInv, ReadyInv, NEW m \in Object,
           NEW next \in Provisions \cup Deletes \cup {"save"},
           Continue(m, next), pc \in Provisions \cup Deletes,
           service' = "hostname" => service = "hostname",
           failures' = 0 => failures = 0,
           Follows(m, mem), mem.ready => m.ready,
           pc \in Provisions => m.finalizer = mem.finalizer,
           pc \in Deletes => m.ready = mem.ready /\ next \notin Provisions,
           pc \in Provisions => next \notin Deletes,
           next \in {"keys", "persist"} => HasEndpoint(m),
           failures' = 0 => Provided(m)
    PROVE  ReadyInv'
<1>1. /\ UNCHANGED <<kc, cache, before, serviceType>> /\ pc' = next /\ mem' = m
      /\ next # "saveStatus"
  BY DEF Continue, Provisions, Deletes
<1>2. before.finalizer
  BY DEF ReadyInv, Provisions, Deletes, TypeOK, Object
<1>3. pc \in Provisions => m.finalizer
  BY DEF FinalizerInv
<1>4. ~m.finalizer \/ next \in Deletes => m.ready = before.ready
  BY <1>3 DEF ReadyInv
<1>5. Follows(m, before) /\ (before.ready => m.ready)
  BY DEF ReadyInv, Follows
<1>6. service' = "hostname" => serviceType = "LoadBalancer"
  BY DEF ReadyInv
<1>7. HasEndpoint(m)' = HasEndpoint(m) /\ HasEndpoint(mem)' = HasEndpoint(m)
  BY <1>1 DEF HasEndpoint
<1>8. Provided(mem)' = Provided(m) /\ Provided(kc)' = Provided(kc)
      /\ Provided(cache)' = Provided(cache) /\ Provided(before)' = Provided(before)
  BY <1>1 DEF Provided, HasEndpoint
<1> QED
  BY <1>1, <1>2, <1>4, <1>5, <1>6, <1>7, <1>8 DEF ReadyInv, Follows

\* Every step keeps what makes a cluster ready.
LEMMA NextKeepsReady == TypeOK /\ FinalizerInv /\ ReadyInv /\ [Next]_vars => ReadyInv'
<1> SUFFICES ASSUME TypeOK, FinalizerInv, ReadyInv, [Next]_vars PROVE ReadyInv'
  OBVIOUS
<1>a. /\ kc \in Object /\ cache \in Object /\ mem \in Object /\ before \in Object
      /\ failures \in Nat /\ NoObject \in Object
  BY NewObjectType DEF TypeOK
<1>b. ASSUME NEW next, Error(next)
      PROVE  /\ failures' # 0 /\ Continue(mem, next)
             /\ UNCHANGED <<service, extras>>
  BY <1>a, <1>b DEF Error
<1>c. Follows(mem, mem) /\ (failures = 0 => Provided(mem))
  BY DEF Follows, ReadyInv
<1>d. /\ {"createLB", "endpoint", "keys", "persist"} = Provisions
      /\ {"deleteLB", "report", "extras"} = Deletes
      /\ "save" \notin Provisions /\ "save" \notin Deletes
      /\ Provisions \cap Deletes = {}
  BY DEF Provisions, Deletes
<1>e. ~NoObject.ready /\ ~NoObject.keysRef /\ ~NoObject.endpoint /\ ~NoObject.finalizer
  BY DEF NoObject, NewObject
<1>1. CASE StartReconcile
  <2>1. /\ mem'.finalizer /\ mem'.ready = cache.ready /\ mem'.keysRef = cache.keysRef
        /\ mem'.endpoint = cache.endpoint /\ before' = cache
        /\ pc' = Dispatch(cache, service)
        /\ UNCHANGED <<kc, cache, service, serviceType, failures>>
    BY <1>1, <1>a DEF StartReconcile, Object, world
  <2>2. pc' \in {"save", "deleteLB", "createLB", "endpoint"} /\ (~cache.finalizer => pc' = "save")
    BY <2>1 DEF Dispatch
  <2>3. failures = 0 => Provided(cache)
    BY DEF ReadyInv
  <2>4. /\ Provided(cache)' = Provided(cache) /\ Provided(kc)' = Provided(kc)
        /\ Provided(mem)' = Provided(cache) /\ Provided(before)' = Provided(cache)
    BY <2>1 DEF Provided, HasEndpoint
  <2>5. Follows(mem', before') /\ (before'.ready => mem'.ready)
    BY <2>1 DEF Follows
  <2> QED
    BY <2>1, <2>2, <2>3, <2>4, <2>5 DEF ReadyInv
<1>2. CASE CreateLoadBalancer
  <2>1. pc = "createLB" /\ pc \in Provisions
    BY <1>2, <1>d DEF CreateLoadBalancer
  <2>2. CASE /\ service' = IF service = "none" THEN "created" ELSE service
             /\ Continue(mem, "endpoint") /\ UNCHANGED failures
    BY <2>1, <2>2, <1>a, <1>c, <1>d, ContinueKeepsReady
  <2>3. CASE Error("save")
    BY <2>1, <2>3, <1>a, <1>b, <1>c, <1>d, ContinueKeepsReady
  <2> QED
    BY <1>2, <2>2, <2>3 DEF CreateLoadBalancer
<1>3. CASE SetEndpoint
  <2>1. pc = "endpoint" /\ pc \in Provisions
    BY <1>3, <1>d DEF SetEndpoint
  <2>2. CASE (mem.endpoint \/ service = "hostname") /\ Continue(mem, "keys")
             /\ UNCHANGED <<service, failures>>
    <3>1. HasEndpoint(mem)
      BY <2>2 DEF HasEndpoint, ReadyInv
    <3> QED
      BY <2>1, <2>2, <3>1, <1>a, <1>c, <1>d, ContinueKeepsReady
  <2>3. CASE Continue([mem EXCEPT !.endpoint = TRUE], "keys") /\ UNCHANGED <<service, failures>>
    <3> DEFINE m == [mem EXCEPT !.endpoint = TRUE]
    <3>1. /\ m \in Object /\ m.endpoint /\ m.ready = mem.ready /\ m.keysRef = mem.keysRef
          /\ m.finalizer = mem.finalizer
      BY <1>a DEF Object
    <3> HIDE DEF m
    <3>2. Follows(m, mem) /\ HasEndpoint(m) /\ (failures = 0 => Provided(m))
      BY <3>1, <1>c DEF Follows, HasEndpoint, Provided
    <3>3. Continue(m, "keys")
      BY <2>3 DEF m
    <3> QED
      BY <2>1, <2>3, <3>1, <3>2, <3>3, <1>d, ContinueKeepsReady
  <2>4. CASE Continue(mem, "save") /\ UNCHANGED <<service, failures>>
    BY <2>1, <2>4, <1>a, <1>c, <1>d, ContinueKeepsReady
  <2>5. CASE Error("save")
    BY <2>1, <2>5, <1>a, <1>b, <1>c, <1>d, ContinueKeepsReady
  <2> QED
    BY <1>3, <2>2, <2>3, <2>4, <2>5 DEF SetEndpoint
<1>4. CASE LookUpKeys
  <2>1. pc = "keys" /\ pc \in Provisions /\ HasEndpoint(mem)
    BY <1>4, <1>d DEF LookUpKeys, ReadyInv
  <2>2. CASE /\ mem.keysRef /\ Continue([mem EXCEPT !.ready = TRUE], "save")
             /\ UNCHANGED <<service, failures>>
    <3> DEFINE m == [mem EXCEPT !.ready = TRUE]
    <3>1. /\ m \in Object /\ m.ready /\ m.endpoint = mem.endpoint /\ m.keysRef = mem.keysRef
          /\ m.finalizer = mem.finalizer
      BY <1>a DEF Object
    <3> HIDE DEF m
    <3>2. Follows(m, mem) /\ Provided(m)
      BY <2>1, <2>2, <3>1 DEF Follows, HasEndpoint, Provided
    <3>3. Continue(m, "save")
      BY <2>2 DEF m
    <3> QED
      BY <2>1, <2>2, <3>1, <3>2, <3>3, <1>d, ContinueKeepsReady
  <2>3. CASE Continue(mem, "persist") /\ UNCHANGED <<service, failures>>
    BY <2>1, <2>3, <1>a, <1>c, <1>d, ContinueKeepsReady
  <2>4. CASE Error("persist")
    BY <2>1, <2>4, <1>a, <1>b, <1>c, <1>d, ContinueKeepsReady
  <2> QED
    BY <1>4, <2>2, <2>3, <2>4 DEF LookUpKeys
<1>5. CASE PersistKeys
  <2>1. pc = "persist" /\ pc \in Provisions /\ HasEndpoint(mem)
    BY <1>5, <1>d DEF PersistKeys, ReadyInv
  <2>2. CASE /\ Continue([mem EXCEPT !.keysRef = TRUE, !.ready = TRUE], "save")
             /\ UNCHANGED <<service, failures>>
    <3> DEFINE m == [mem EXCEPT !.keysRef = TRUE, !.ready = TRUE]
    <3>1. /\ m \in Object /\ m.ready /\ m.endpoint = mem.endpoint /\ m.keysRef
          /\ m.finalizer = mem.finalizer
      BY <1>a DEF Object
    <3> HIDE DEF m
    <3>2. Follows(m, mem) /\ Provided(m)
      BY <2>1, <3>1 DEF Follows, HasEndpoint, Provided
    <3>3. Continue(m, "save")
      BY <2>2 DEF m
    <3> QED
      BY <2>1, <2>2, <3>1, <3>2, <3>3, <1>d, ContinueKeepsReady
  <2>3. CASE Continue(mem, "save") /\ UNCHANGED <<service, failures>>
    BY <2>1, <2>3, <1>a, <1>c, <1>d, ContinueKeepsReady
  <2>4. CASE Error("save")
    BY <2>1, <2>4, <1>a, <1>b, <1>c, <1>d, ContinueKeepsReady
  <2> QED
    BY <1>5, <2>2, <2>3, <2>4 DEF PersistKeys
<1>6. CASE Save
  <2>1. /\ pc' = "saveStatus"
        /\ failures' = 0 => failures = 0
        /\ UNCHANGED <<cache, mem, before, service, serviceType>>
        /\ kc'.present => kc.present
    BY <1>6, Saved
  <2>2. Follows(mem, before)
    BY DEF ReadyInv
  <2>3. /\ kc'.present => Follows(kc', cache) /\ Follows(kc', before)
        /\ kc'.ready => kc.ready /\ Follows(kc', kc)
    BY <1>6, <2>1, <2>2, SavedSpec DEF ReadyInv, Follows
  <2>4. failures' = 0 => Provided(kc)'
    BY <2>1, <2>3 DEF ReadyInv, Provided, HasEndpoint, Follows
  <2>5. kc'.present /\ failures' = 0 /\ mem.ready # before.ready
            => kc'.keysRef /\ HasEndpoint(kc')
    <3> SUFFICES ASSUME kc'.present, failures' = 0, mem.ready # before.ready
                 PROVE  kc'.keysRef /\ HasEndpoint(kc')
      OBVIOUS
    <3>1. before.finalizer /\ mem.finalizer /\ mem.ready
      BY <1>a DEF ReadyInv, Object
    <3>2. ~Refused(kc, before, mem)
      BY <3>1, <1>a DEF Refused, Object
    <3>3. Follows(kc, before)
      BY <2>1 DEF ReadyInv
    <3>4. Follows(kc', mem)
      BY <1>6, <2>2, <3>2, <3>3, SavedSpec
    <3>5. mem.keysRef /\ HasEndpoint(mem)
      BY <2>1, <3>1 DEF ReadyInv, Provided
    <3> QED
      BY <3>4, <3>5 DEF Follows, HasEndpoint
  <2>6. HasEndpoint(kc)' = HasEndpoint(kc') /\ Provided(cache)' = Provided(cache)
        /\ Provided(mem)' = Provided(mem) /\ Provided(before)' = Provided(before)
    BY <2>1 DEF HasEndpoint, Provided
  <2>7. ~before.finalizer \/ ~mem.finalizer \/ pc \in Deletes => mem.ready = before.ready
    BY DEF ReadyInv
  <2>8. pc' \notin Deletes
    BY <2>1 DEF Deletes
  <2> QED
    BY <2>1, <2>3, <2>4, <2>5, <2>6, <2>7, <2>8 DEF ReadyInv
<1>7. CASE SaveStatus \/ Crash
  <2>1. /\ kc'.present = kc.present /\ kc'.keysRef = kc.keysRef /\ kc'.endpoint = kc.endpoint
        /\ kc'.ready => kc.ready \/ /\ pc = "saveStatus" /\ kc.present
                                    /\ mem.ready # before.ready
    BY <1>7, <1>a DEF SaveStatus, Crash, Object
  <2>2. /\ pc' = "idle" /\ UNCHANGED <<cache, service, serviceType>>
        /\ failures' = 0 => failures = 0
        /\ mem' = NoObject /\ before' = NoObject
    BY <1>7, <1>a DEF SaveStatus, Crash, EndReconcile, world
  <2>3. failures' = 0 => Provided(kc)'
    BY <2>1, <2>2 DEF ReadyInv, Provided, HasEndpoint
  <2>4. Provided(cache)' = Provided(cache) /\ Provided(mem)' /\ Provided(before)'
    BY <2>2, <1>e DEF Provided, HasEndpoint
  <2>5. Follows(mem', before') /\ Follows(kc', before')
    BY <2>2, <1>e DEF Follows
  <2>6. kc'.present => Follows(kc', cache')
    BY <2>1, <2>2 DEF ReadyInv, Follows
  <2> QED
    BY <2>2, <2>3, <2>4, <2>5, <2>6 DEF ReadyInv, Deletes
<1>8. CASE DeleteLoadBalancer \/ ReportDeletion
  <2>1. /\ pc \in Deletes
        /\ \E next \in {"report", "extras", "save"} : Continue(mem, next)
        /\ failures' = 0 => failures = 0
        /\ service' = "hostname" => service = "hostname"
    BY <1>8, <1>b, <1>d DEF DeleteLoadBalancer, ReportDeletion
  <2> QED
    BY <2>1, <1>a, <1>c, <1>d, ContinueKeepsReady
<1>9. CASE DeleteExtras
  <2>1. pc = "extras" /\ pc \in Deletes
    BY <1>9, <1>d DEF DeleteExtras
  <2>2. CASE Continue([mem EXCEPT !.finalizer = FALSE], "save") /\ UNCHANGED <<service, failures>>
    <3> DEFINE m == [mem EXCEPT !.finalizer = FALSE]
    <3>1. /\ m \in Object /\ m.ready = mem.ready /\ m.endpoint = mem.endpoint
          /\ m.keysRef = mem.keysRef
      BY <1>a DEF Object
    <3> HIDE DEF m
    <3>2. Follows(m, mem) /\ (failures = 0 => Provided(m))
      BY <3>1, <1>c DEF Follows, HasEndpoint, Provided
    <3>3. Continue(m, "save")
      BY <2>2 DEF m
    <3> QED
      BY <2>1, <2>2, <3>1, <3>2, <3>3, <1>d, ContinueKeepsReady
  <2>3. CASE Continue(mem, "extras") /\ UNCHANGED <<service, failures>>
    BY <2>1, <2>3, <1>a, <1>c, <1>d, ContinueKeepsReady
  <2>4. CASE Error("save")
    BY <2>1, <2>4, <1>a, <1>b, <1>c, <1>d, ContinueKeepsReady
  <2> QED
    BY <1>9, <2>2, <2>3, <2>4 DEF DeleteExtras
<1>10. CASE SyncCache
  BY <1>10 DEF SyncCache, controller, world, ReadyInv, Follows, Provided, HasEndpoint
<1>11. CASE SyncSecret \/ SetOwner
  BY <1>11 DEF SyncSecret, SetOwner, controller, world, ReadyInv, Follows, Provided, HasEndpoint
<1>12. CASE AssignAddress
  <2>1. service' = "hostname" => serviceType = "LoadBalancer"
    BY <1>12 DEF AssignAddress
  <2> QED
    BY <1>12, <2>1 DEF AssignAddress, controller, ReadyInv, Follows, Provided, HasEndpoint
<1>13. CASE DeleteCluster \/ ReleaseForeign
  <2>1. /\ UNCHANGED <<cache, pc, mem, before, service, serviceType, failures>>
        /\ kc'.present => kc.present
        /\ kc'.ready => kc.ready
        /\ kc'.present \/ kc'.ready => kc'.keysRef = kc.keysRef /\ kc'.endpoint = kc.endpoint
    BY <1>13, Withdrawn
  <2> QED
    BY <2>1 DEF ReadyInv, Follows, Provided, HasEndpoint
<1>14. CASE UNCHANGED vars
  BY <1>14 DEF vars, ReadyInv, Follows, Provided, HasEndpoint
<1> QED
  BY <1>1, <1>2, <1>3, <1>4, <1>5, <1>6, <1>7, <1>8, <1>9, <1>10, <1>11, <1>12,
     <1>13, <1>14 DEF Next, Controller

\* A new object is not ready.
LEMMA InitReady == Init => ReadyInv
<1> SUFFICES ASSUME Init PROVE ReadyInv
  OBVIOUS
<1>1. /\ ~kc.ready /\ ~kc.keysRef /\ cache = kc /\ pc = "idle"
      /\ mem = NoObject /\ before = NoObject /\ service = "none"
  BY DEF Init, NewObject
<1>2. ~NoObject.ready /\ ~NoObject.keysRef /\ ~NoObject.endpoint
  BY DEF NoObject, NewObject
<1> QED
  BY <1>1, <1>2 DEF ReadyInv, Follows, Provided, HasEndpoint

\* As long as no call fails, a cluster that says it is ready refers to its keys
\* and has the endpoint its service can give it, although spec and status are
\* patched separately and from a copy that may be old (PatchKubevirtCluster).
THEOREM ReadyIsProvisioned == Spec => []ReadyMeansProvisioned
<1>1. ReadyInv => ReadyMeansProvisioned
  BY DEF ReadyInv, ReadyMeansProvisioned, Provided, HasEndpoint
<1> QED
  BY <1>1, InitReady, NextKeepsReady, FinalizerIsKept, PTL DEF Spec
=============================================================================
