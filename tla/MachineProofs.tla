---------------------------- MODULE MachineProofs ---------------------------
(***************************************************************************)
(* Proofs about MachineLifecycle, for every bound on failures, every set   *)
(* of disruptions and every way of checking the bootstrap of a guest.      *)
(*                                                                         *)
(***************************************************************************)
EXTENDS MachineLifecycle, TLAPS

USE MaxFailuresAssumption, RefPairsAssumption, ChecksBootstrapAssumption

-----------------------------------------------------------------------------
(* Types.                                                                   *)

\* A new KubevirtMachine, and the one that is gone, are objects.
LEMMA NewObjectType ==
    /\ \A r \in Clusters : NewObject(r) \in Object
    /\ NoObject \in Object
BY DEF NewObject, NoObject, Object, Clusters

\* What the patch helper writes is an object (PatchKubevirtMachine).
LEMMA ApplyDiffType ==
    ASSUME NEW o \in Object, NEW b \in Object, NEW m \in Object
    PROVE  ApplyDiff(o, b, m) \in Object
<1>1. /\ Merge(o.finalizer, b.finalizer, m.finalizer) \in BOOLEAN
      /\ Merge(o.ref, b.ref, m.ref) \in Clusters
      /\ Merge(o.ready, b.ready, m.ready) \in BOOLEAN
      /\ Merge(o.failed, b.failed, m.failed) \in BOOLEAN
      /\ Merge(o.ipKnown, b.ipKnown, m.ipKnown) \in BOOLEAN
      /\ Merge(o.bootstrapped, b.bootstrapped, m.bootstrapped) \in {"unset", "false", "true"}
      /\ Merge(o.providerID, b.providerID, m.providerID) \in BOOLEAN
      /\ Merge(o.nodeUpdated, b.nodeUpdated, m.nodeUpdated) \in BOOLEAN
  <2>1. \A x \in Object :
            /\ x.finalizer \in BOOLEAN /\ x.ref \in Clusters /\ x.ready \in BOOLEAN
            /\ x.failed \in BOOLEAN /\ x.ipKnown \in BOOLEAN
            /\ x.bootstrapped \in {"unset", "false", "true"}
            /\ x.providerID \in BOOLEAN /\ x.nodeUpdated \in BOOLEAN
    BY DEF Object
  <2> QED
    BY <2>1 DEF Merge
<1> QED
  BY <1>1 DEF ApplyDiff, Object

\* What a patch of the eviction leaves in memory is an object (Patch).
LEMMA DecodeType ==
    ASSUME NEW m \in Object, NEW s \in Object, NEW keep \in BOOLEAN
    PROVE  Decode(m, s, keep) \in Object
<1>1. \A x \in Object :
          /\ x.finalizer \in BOOLEAN /\ x.ref \in Clusters /\ x.failed \in BOOLEAN
          /\ x.ipKnown \in BOOLEAN /\ x.bootstrapped \in {"unset", "false", "true"}
          /\ x.providerID \in BOOLEAN
  BY DEF Object
<1>2. CASE ~keep
  BY <1>2 DEF Decode
<1>3. CASE keep
  <2> DEFINE f == s.finalizer \/ m.finalizer
             r == IF s.ref = "management" THEN m.ref ELSE s.ref
             g == s.failed \/ m.failed
             i == s.ipKnown \/ m.ipKnown
             b == IF s.bootstrapped = "unset" THEN m.bootstrapped ELSE s.bootstrapped
             p == s.providerID \/ m.providerID
             d == [s EXCEPT !.finalizer = f, !.ref = r, !.failed = g, !.ipKnown = i,
                            !.bootstrapped = b, !.providerID = p]
  <2>1. /\ f \in BOOLEAN /\ r \in Clusters /\ g \in BOOLEAN /\ i \in BOOLEAN
        /\ b \in {"unset", "false", "true"} /\ p \in BOOLEAN
    BY <1>1
  <2>2. Decode(m, s, keep) = d
    BY <1>3, Zenon DEF Decode
  <2> HIDE DEF f, r, g, i, b, p
  <2>3. d \in Object
    BY <2>1 DEF Object
  <2> QED
    BY <2>2, <2>3, Zenon
<1> QED
  BY <1>2, <1>3

\* Reconcile goes on with a call of the model and an object.
LEMMA DispatchType ==
    ASSUME TypeOK
    PROVE  Dispatch(cache) \in Steps \ {"idle"} /\ Defaulted(cache) \in Object
<1>1. cache \in Object /\ clusterRef \in Clusters
  BY DEF TypeOK
<1>2. [cache EXCEPT !.finalizer = TRUE] \in Object /\ [cache EXCEPT !.ref = clusterRef] \in Object
  BY <1>1 DEF Object
<1> QED
  BY <1>1, <1>2 DEF Dispatch, Defaulted, Steps

\* A reconcile that goes on keeps the types.
LEMMA ContinueKeepsTypes ==
    ASSUME TypeOK, NEW m \in Object, NEW next \in Steps \ {"idle"}, Continue(m, next),
           infra' \in Infra, node' \in NodeState, failures' \in 0..MaxFailures
    PROVE  TypeOK'
BY DEF Continue, TypeOK

\* So does one whose call fails.
LEMMA ErrorKeepsTypes ==
    ASSUME TypeOK, Error
    PROVE  TypeOK'
<1>1. mem \in Object /\ "save" \in Steps \ {"idle"}
  BY DEF TypeOK, Steps
<1>2. infra' \in Infra /\ node' \in NodeState /\ failures' \in 0..MaxFailures
  BY DEF Error, TypeOK
<1> QED
  BY <1>1, <1>2, ContinueKeepsTypes DEF Error

\* And one that ends without touching an object.
LEMMA DeleteErrorKeepsTypes ==
    ASSUME TypeOK, DeleteError
    PROVE  TypeOK'
<1>1. failures' \in 0..MaxFailures /\ "idle" \in Steps
  BY DEF DeleteError, TypeOK, Steps
<1> QED
  BY <1>1, NewObjectType DEF DeleteError, EndReconcile, TypeOK, world

\* Every step keeps the types.
LEMMA NextKeepsTypes == TypeOK /\ [Next]_vars => TypeOK'
<1> SUFFICES ASSUME TypeOK, [Next]_vars PROVE TypeOK'
  OBVIOUS
<1> DEFINE Calls == Steps \ {"idle"}
<1>a. /\ "newMachine" \in Calls /\ "createVM" \in Calls /\ "save" \in Calls
      /\ "bootstrap" \in Calls /\ "node" \in Calls /\ "deleteVM" \in Calls
      /\ "finalize" \in Calls /\ "idle" \in Steps
  BY DEF Steps
<1>b. mem \in Object /\ mem.ref \in Clusters /\ infra \in Infra /\ node \in NodeState
      /\ failures \in 0..MaxFailures
  BY DEF TypeOK, Object
<1>1. CASE StartReconcile
  BY <1>1, DispatchType DEF StartReconcile, TypeOK, world
<1>2. CASE ReconcileBootstrapSecret
  <2>1. [infra EXCEPT ![mem.ref].secret = TRUE] \in Infra
    BY <1>b DEF Infra
  <2> QED
    BY <1>2, <2>1, <1>a, <1>b, ContinueKeepsTypes, ErrorKeepsTypes DEF ReconcileBootstrapSecret
<1>3. CASE ReadMachine
  <2> DEFINE m == [mem EXCEPT !.failed = infra[mem.ref].terminal]
  <2>1. m \in Object
    BY <1>b DEF Object, Infra
  <2>2. [m EXCEPT !.ready = FALSE] \in Object /\ [m EXCEPT !.ready = @ /\ m.ipKnown] \in Object
    BY <2>1 DEF Object
  <2> HIDE DEF m
  <2>3. CASE /\ infra' = infra /\ node' = node /\ failures' = failures
             /\ \/ Continue([m EXCEPT !.ready = FALSE], "createVM")
                \/ Continue([m EXCEPT !.ready = FALSE], "save")
                \/ Continue([m EXCEPT !.ready = @ /\ m.ipKnown], "save")
                \/ Continue(m, "bootstrap")
    BY <2>3, <2>1, <2>2, <1>a, <1>b, ContinueKeepsTypes
  <2> QED
    BY <1>3, <2>3, ErrorKeepsTypes DEF ReadMachine, m
<1>4. CASE CreateVM
  <2>1. [infra EXCEPT ![mem.ref].vm = "down"] \in Infra
    BY <1>b DEF Infra
  <2> QED
    BY <1>4, <2>1, <1>a, <1>b, ContinueKeepsTypes, ErrorKeepsTypes DEF CreateVM
<1>5. CASE CheckBootstrap
  <2>1. [mem EXCEPT !.bootstrapped = "false", !.ready = FALSE] \in Object
    BY <1>b DEF Object
  <2>2. Provisioned(mem) \in Object
    BY <1>b DEF Provisioned, Object
  <2>3. failures' \in 0..MaxFailures
    BY <1>5, <1>b DEF CheckBootstrap
  <2> QED
    BY <1>5, <2>1, <2>2, <2>3, <1>a, <1>b, ContinueKeepsTypes DEF CheckBootstrap
<1>6. CASE Drain \/ HoldUp
  <2>1. \A keep \in BOOLEAN : Decode(mem, km, keep) \in Object
    BY DecodeType DEF TypeOK
  <2> QED
    BY <1>6, <2>1, <1>a, <1>b, ContinueKeepsTypes DEF Drain, HoldUp
<1>7. CASE UpdateNodeProviderID
  <2>1. [mem EXCEPT !.nodeUpdated = TRUE] \in Object /\ "hasProviderID" \in NodeState
    BY <1>b DEF Object, NodeState
  <2> QED
    BY <1>7, <2>1, <1>a, <1>b, ContinueKeepsTypes, ErrorKeepsTypes DEF UpdateNodeProviderID
<1>8. CASE Save
  <2>1. ApplyDiff(km, before, mem) \in Object
    BY ApplyDiffType DEF TypeOK
  <2>2. km' \in Object /\ failures' \in 0..MaxFailures
    BY <1>8, <2>1 DEF Save, TypeOK
  <2> QED
    BY <1>8, <2>2, <1>a, NewObjectType DEF Save, EndReconcile, TypeOK, world
<1>9. CASE DeleteBootstrapSecret
  <2>1. [infra EXCEPT ![mem.ref].secret = FALSE] \in Infra
    BY <1>b DEF Infra
  <2>2. CASE Continue(mem, "deleteVM") /\ infra' \in Infra /\ node' = node
             /\ failures' \in 0..MaxFailures
    BY <2>2, <1>a, <1>b, ContinueKeepsTypes
  <2>3. CASE DeleteError
    BY <2>3, DeleteErrorKeepsTypes
  <2>4. CASE /\ infra' = (IF "bootstrapData" \in inputs
                           THEN [infra EXCEPT ![mem.ref].secret = FALSE] ELSE infra)
             /\ Continue(mem, "deleteVM") /\ UNCHANGED <<node, failures>>
    BY <2>4, <2>1, <2>2, <1>b
  <2>5. CASE /\ failures < MaxFailures /\ failures' = failures + 1
             /\ Continue(mem, "deleteVM") /\ UNCHANGED <<infra, node>>
    BY <2>5, <2>2, <1>b
  <2> QED
    BY <1>9, <2>3, <2>4, <2>5 DEF DeleteBootstrapSecret
<1>10. CASE DeleteVM
  <2>1. [infra EXCEPT ![mem.ref].vm = "none", ![mem.ref].terminal = FALSE] \in Infra
    BY <1>b DEF Infra
  <2> QED
    BY <1>10, <2>1, <1>a, <1>b, ContinueKeepsTypes, DeleteErrorKeepsTypes DEF DeleteVM
<1>11. CASE RemoveFinalizer
  <2>1. CASE km' = NoObject /\ EndReconcile /\ UNCHANGED <<cache, world, failures>>
    BY <2>1, <1>a, NewObjectType DEF EndReconcile, TypeOK, world
  <2> QED
    BY <1>11, <2>1, DeleteErrorKeepsTypes DEF RemoveFinalizer
<1>12. CASE Crash
  BY <1>12, DeleteErrorKeepsTypes DEF Crash, DeleteError
<1>13. CASE SyncCache
  BY <1>13 DEF SyncCache, TypeOK, controller, world
<1>14. CASE ProvideInput
  BY <1>14 DEF ProvideInput, TypeOK, controller
<1>15. CASE DeleteMachine
  <2>1. [km EXCEPT !.deleting = TRUE] \in Object
    BY DEF TypeOK, Object
  <2> QED
    BY <1>15, <2>1, NewObjectType DEF DeleteMachine, TypeOK, controller, world
<1>16. CASE BootVM \/ LoseAddress
  <2>1. \A c \in Clusters : [infra EXCEPT ![c].vm = "noIP"] \in Infra
                            /\ [infra EXCEPT ![c].vm = "up"] \in Infra
    BY <1>b DEF Infra
  <2> QED
    BY <1>16, <2>1 DEF BootVM, LoseAddress, VMStep, TypeOK, controller
<1>17. CASE RestartVM
  <2>1. \A c \in Clusters, t \in BOOLEAN :
            [infra EXCEPT ![c].vm = "down", ![c].terminal = t] \in Infra
    BY <1>b DEF Infra
  <2>2. infra' \in Infra /\ booted' \in Booted
    BY <1>17, <2>1 DEF RestartVM, SentinelLost, TypeOK, Booted
  <2> QED
    BY <1>17, <2>2 DEF RestartVM, TypeOK, controller
<1>18. CASE LoseVM
  <2>1. \A c \in Clusters : [infra EXCEPT ![c].vm = "none", ![c].terminal = FALSE] \in Infra
    BY <1>b DEF Infra
  <2>2. infra' \in Infra /\ booted' \in Booted
    BY <1>18, <2>1 DEF LoseVM, SentinelLost, TypeOK, Booted
  <2> QED
    BY <1>18, <2>2 DEF LoseVM, TypeOK, controller
<1>19. CASE BecomeTerminal
  <2>1. \A c \in Clusters : [infra EXCEPT ![c].terminal = TRUE] \in Infra
    BY <1>b DEF Infra
  <2> QED
    BY <1>19, <2>1 DEF BecomeTerminal, TypeOK, controller
<1>20. CASE BootstrapGuest
  BY <1>20 DEF BootstrapGuest, TypeOK, controller, Booted
<1>21. CASE RegisterNode \/ DeleteNode
  BY <1>21 DEF RegisterNode, DeleteNode, TypeOK, controller, NodeState
<1>22. CASE UNCHANGED vars
  BY <1>22 DEF vars, TypeOK
<1> QED
  BY <1>1, <1>2, <1>3, <1>4, <1>5, <1>6, <1>7, <1>8, <1>9, <1>10, <1>11, <1>12,
     <1>13, <1>14, <1>15, <1>16, <1>17, <1>18, <1>19, <1>20, <1>21, <1>22
     DEF Next, Controller

\* A new machine is well typed.
LEMMA InitTypes == Init => TypeOK
<1> SUFFICES ASSUME Init PROVE TypeOK
  OBVIOUS
<1>1. km \in Object /\ clusterRef \in Clusters
  BY NewObjectType DEF Init
<1>2. infra \in Infra
  BY DEF Init, Infra
<1>3. pc \in Steps /\ booted \in Booted /\ node \in NodeState /\ failures \in 0..MaxFailures
  BY DEF Init, Steps, Booted, NodeState
<1> QED
  BY <1>1, <1>2, <1>3, NewObjectType DEF Init, TypeOK, BootstrapChecks

\* Whatever fails, the object stays well formed and no reconcile leaves state
\* behind in memory.
THEOREM MachineTypes == Spec => []TypeOK
BY InitTypes, NextKeepsTypes, PTL DEF Spec

-----------------------------------------------------------------------------
(* The machine invariant.  Its type part is proved above; this is the rest. *)

Rest == RefsAgree /\ FinalizerHolds /\ VMIsOwned
            /\ Earned(km) /\ Earned(cache) /\ Earned(mem) /\ Earned(before)

Provisions == {"secret", "newMachine", "createVM", "bootstrap", "node"}

Deletes == {"deleteSecret", "deleteVM", "finalize"}

\* A reconcile that goes on with the ref and the finalizer keeps the rest,
\* unless it creates or deletes a VM.
LEMMA ContinueKeepsRest ==
    ASSUME MachineInv, pc # "idle",
           NEW m \in Object, NEW next \in Steps, Continue(m, next),
           km.present => m.ref = mem.ref, mem.finalizer => m.finalizer, Earned(m),
           next \in Provisions => pc \in Provisions,
           next \in Deletes => pc \in Deletes, next # "finalize",
           \A c \in Clusters : infra'[c].vm = infra[c].vm
    PROVE  Rest'
<1> USE DEF MachineInv, Continue
<1>1. RefsAgree'
  BY DEF RefsAgree
<1>2. FinalizerHolds'
  BY DEF FinalizerHolds, Provisions, Deletes
<1>3. VMIsOwned'
  BY DEF VMIsOwned
<1>4. Earned(km)' /\ Earned(cache)' /\ Earned(mem)' /\ Earned(before)'
  BY DEF Earned
<1> QED
  BY <1>1, <1>2, <1>3, <1>4 DEF Rest

\* So does one whose call fails.
LEMMA ErrorKeepsRest ==
    ASSUME MachineInv, pc # "idle", Error
    PROVE  Rest'
<1>1. mem \in Object /\ "save" \in Steps /\ Earned(mem) /\ infra' = infra
      /\ Continue(mem, "save")
  BY DEF MachineInv, TypeOK, Steps, Error
<1>2. "save" \notin Provisions /\ "save" \notin Deletes /\ "save" # "finalize"
  BY DEF Provisions, Deletes
<1> QED
  BY <1>1, <1>2, ContinueKeepsRest

\* And one that ends: the object in memory is gone.
LEMMA EndKeepsRest ==
    ASSUME MachineInv, EndReconcile, UNCHANGED <<km, cache, world>>
    PROVE  Rest'
<1>1. ~NoObject.finalizer /\ ~NoObject.ready /\ NoObject.bootstrapped = "unset"
  BY DEF NoObject, NewObject
<1>2. RefsAgree'
  BY DEF MachineInv, RefsAgree, EndReconcile, world
<1>3. FinalizerHolds'
  BY <1>1 DEF MachineInv, FinalizerHolds, EndReconcile, world
<1>4. VMIsOwned'
  BY DEF MachineInv, VMIsOwned, EndReconcile, world
<1>5. Earned(km)' /\ Earned(cache)' /\ Earned(mem)' /\ Earned(before)'
  BY <1>1 DEF MachineInv, Earned, EndReconcile, world
<1> QED
  BY <1>2, <1>3, <1>4, <1>5 DEF Rest

\* A step of the world keeps it that touches no object, no reconcile and no
\* VM that is not there, and forgets no bootstrap.
LEMMA WorldKeepsRest ==
    ASSUME MachineInv, UNCHANGED <<km, cache, controller, clusterRef, checks>>,
           \A c \in Clusters : infra'[c].vm # "none" => infra[c].vm # "none",
           booted # "never" => booted' # "never"
    PROVE  Rest'
<1> USE DEF MachineInv, controller
<1>1. RefsAgree' /\ FinalizerHolds'
  BY DEF RefsAgree, FinalizerHolds
<1>2. VMIsOwned'
  BY DEF VMIsOwned
<1>3. Earned(km)' /\ Earned(cache)' /\ Earned(mem)' /\ Earned(before)'
  BY DEF Earned
<1> QED
  BY <1>1, <1>2, <1>3 DEF Rest

\* Every step keeps the rest.
LEMMA NextKeepsRest == MachineInv /\ [Next]_vars => Rest'
<1> SUFFICES ASSUME MachineInv, [Next]_vars PROVE Rest'
  OBVIOUS
<1>a. /\ {"newMachine", "createVM", "save", "bootstrap", "node", "deleteVM", "finalize"} \subseteq Steps
      /\ "save" \notin Provisions /\ "save" \notin Deletes
      /\ Provisions \cap Deletes = {} /\ "idle" \notin Provisions \cup Deletes
      /\ {"secret", "newMachine", "createVM", "bootstrap", "node"} = Provisions
      /\ {"deleteSecret", "deleteVM", "finalize"} = Deletes
  BY DEF Steps, Provisions, Deletes
<1>b. /\ km \in Object /\ cache \in Object /\ mem \in Object /\ before \in Object
      /\ mem.ref \in Clusters /\ infra \in Infra /\ Earned(mem)
  BY DEF MachineInv, TypeOK, Object
<1>1. CASE StartReconcile
  <2> DEFINE m == Defaulted(cache)
  <2>1. /\ km.present => m.ref = km.ref
        /\ cache.finalizer => m.finalizer
        /\ Earned(m)
    <3>1. CASE m = cache
      BY <3>1, <1>1 DEF MachineInv, RefsAgree, StartReconcile
    <3>2. CASE m = [cache EXCEPT !.finalizer = TRUE]
      <4>1. m.ref = cache.ref /\ m.finalizer /\ m.ready = cache.ready
            /\ m.bootstrapped = cache.bootstrapped
        BY <3>2, <1>b DEF Object
      <4> QED
        BY <4>1, <1>1 DEF MachineInv, RefsAgree, StartReconcile, Earned
    <3>3. CASE cache.ref = "management" /\ m = [cache EXCEPT !.ref = clusterRef]
      <4>1. m.ref = clusterRef /\ m.finalizer = cache.finalizer /\ m.ready = cache.ready
            /\ m.bootstrapped = cache.bootstrapped
        BY <3>3, <1>b DEF Object
      <4> QED
        BY <3>3, <4>1, <1>1 DEF MachineInv, RefsAgree, StartReconcile, Earned
    <3> QED
      BY <3>1, <3>2, <3>3 DEF Defaulted
  <2> HIDE DEF m
  <2>2. /\ mem' = m /\ before' = cache
        /\ UNCHANGED <<km, cache, clusterRef, infra, checks, booted>>
    BY <1>1 DEF StartReconcile, m, world
  <2>3. /\ pc' # "finalize"
        /\ pc' \in Provisions => cache.present /\ cache.finalizer /\ ~cache.deleting
        /\ pc' \in Deletes => cache.present /\ cache.deleting
    BY <1>1 DEF StartReconcile, Dispatch, Provisions, Deletes
  <2>4. RefsAgree'
    BY <1>1, <2>1, <2>2 DEF MachineInv, RefsAgree, StartReconcile
  <2>5. FinalizerHolds'
    BY <2>1, <2>2, <2>3, <1>a DEF MachineInv, FinalizerHolds
  <2>6. VMIsOwned'
    BY <2>2, <2>3 DEF MachineInv, VMIsOwned
  <2>7. Earned(km)' /\ Earned(cache)' /\ Earned(mem)' /\ Earned(before)'
    BY <2>1, <2>2 DEF MachineInv, Earned
  <2> QED
    BY <2>4, <2>5, <2>6, <2>7 DEF Rest
<1>2. CASE ReconcileBootstrapSecret
  <2>1. CASE /\ infra' = [infra EXCEPT ![mem.ref].secret = TRUE]
             /\ Continue(mem, "newMachine")
    <3>1. \A c \in Clusters : infra'[c].vm = infra[c].vm
      BY <2>1, <1>b DEF Infra
    <3>2. pc # "idle" /\ pc \in Provisions
      BY <1>2 DEF ReconcileBootstrapSecret, Provisions
    <3>3. "newMachine" \in Steps /\ "newMachine" \notin Deletes /\ "newMachine" # "finalize"
      BY DEF Steps, Deletes
    <3> QED
      BY <2>1, <3>1, <3>2, <3>3, <1>b, ContinueKeepsRest
  <2> QED
    BY <1>2, <2>1, ErrorKeepsRest DEF ReconcileBootstrapSecret
<1>3. CASE ReadMachine
  <2> DEFINE m == [mem EXCEPT !.failed = infra[mem.ref].terminal]
  <2>1. m \in Object
    BY <1>b DEF Object, Infra
  <2>2. m.ref = mem.ref /\ m.finalizer = mem.finalizer /\ m.ready = mem.ready
        /\ m.bootstrapped = mem.bootstrapped
    BY <1>b DEF Object
  <2> HIDE DEF m
  <2> DEFINE OK(x) == /\ x \in Object /\ x.ref = mem.ref /\ x.finalizer = mem.finalizer
                      /\ Earned(x)
  <2>3. OK(m)
    BY <2>1, <2>2, <1>b DEF Earned
  <2>4. OK([m EXCEPT !.ready = FALSE])
    <3>1. /\ [m EXCEPT !.ready = FALSE] \in Object
          /\ [m EXCEPT !.ready = FALSE].ref = m.ref
          /\ [m EXCEPT !.ready = FALSE].finalizer = m.finalizer
          /\ [m EXCEPT !.ready = FALSE].bootstrapped = m.bootstrapped
          /\ ~[m EXCEPT !.ready = FALSE].ready
      BY <2>1 DEF Object
    <3> QED
      BY <3>1, <2>2, <2>3 DEF Earned
  <2>5. OK([m EXCEPT !.ready = @ /\ m.ipKnown])
    <3> DEFINE n == [m EXCEPT !.ready = @ /\ m.ipKnown]
    <3>1. /\ n \in Object /\ n.ref = m.ref /\ n.finalizer = m.finalizer
          /\ n.bootstrapped = m.bootstrapped
      BY <2>1 DEF Object
    <3>2. n.ready => m.ready
      BY <2>1 DEF Object
    <3> HIDE DEF n
    <3>3. OK(n)
      BY <3>1, <3>2, <2>2, <2>3 DEF Earned
    <3> QED
      BY <3>3 DEF n
  <2> HIDE DEF OK
  <2>6. ASSUME NEW x, OK(x), NEW next \in {"createVM", "save", "bootstrap"},
               Continue(x, next), infra' = infra
        PROVE  Rest'
    <3>1. pc # "idle" /\ pc \in Provisions /\ next \in Steps /\ next \notin Deletes
          /\ next # "finalize"
      BY <1>3 DEF ReadMachine, Provisions, Steps, Deletes
    <3> QED
      BY <2>6, <3>1, ContinueKeepsRest DEF OK
  <2>7. CASE /\ infra' = infra
             /\ \/ Continue([m EXCEPT !.ready = FALSE], "createVM")
                \/ Continue([m EXCEPT !.ready = FALSE], "save")
                \/ Continue([m EXCEPT !.ready = @ /\ m.ipKnown], "save")
                \/ Continue(m, "bootstrap")
    BY <2>3, <2>4, <2>5, <2>6, <2>7
  <2> QED
    BY <1>3, <2>7, ErrorKeepsRest DEF ReadMachine, m
<1>4. CASE CreateVM
  <2>1. CASE /\ infra' = [infra EXCEPT ![mem.ref].vm = "down"]
             /\ Continue(mem, "save")
    <3> USE DEF Continue, MachineInv
    <3>1. km.present /\ km.finalizer /\ mem.ref = km.ref
      BY <1>4 DEF CreateVM, FinalizerHolds, RefsAgree
    <3>2. RefsAgree'
      BY <2>1, <1>4 DEF CreateVM, RefsAgree
    <3>3. FinalizerHolds'
      BY <2>1 DEF FinalizerHolds
    <3>4. \A c \in Clusters : infra'[c].vm # "none" => c = mem.ref \/ infra[c].vm # "none"
      BY <2>1, <1>b DEF Infra
    <3>5. VMIsOwned'
      BY <2>1, <3>1, <3>4 DEF VMIsOwned
    <3>6. Earned(km)' /\ Earned(cache)' /\ Earned(mem)' /\ Earned(before)'
      BY <2>1 DEF Earned
    <3> QED
      BY <3>2, <3>3, <3>5, <3>6 DEF Rest
  <2> QED
    BY <1>4, <2>1, ErrorKeepsRest DEF CreateVM
<1>5. CASE CheckBootstrap
  <2>1. CASE /\ infra' = infra
             /\ Continue([mem EXCEPT !.bootstrapped = "false", !.ready = FALSE], "save")
    <3> DEFINE n == [mem EXCEPT !.bootstrapped = "false", !.ready = FALSE]
    <3>1. /\ n \in Object /\ n.ref = mem.ref /\ n.finalizer = mem.finalizer
          /\ n.bootstrapped = "false" /\ ~n.ready
      BY <1>b DEF Object
    <3> HIDE DEF n
    <3>2. pc # "idle" /\ Continue(n, "save")
      BY <1>5, <2>1 DEF CheckBootstrap, n
    <3> QED
      BY <2>1, <3>1, <3>2, <1>a, ContinueKeepsRest DEF Earned
  <2>2. CASE /\ infra' = infra
             /\ ~SupportsCheckingIsBootstrapped \/ mem.bootstrapped = "true" \/ IsBootstrapped
             /\ Continue(Provisioned(mem), "node")
    <3>1. /\ Provisioned(mem) \in Object /\ Provisioned(mem).ref = mem.ref
          /\ Provisioned(mem).finalizer = mem.finalizer
      BY <1>b DEF Object, Provisioned
    <3>2. Earned(Provisioned(mem))
      BY <2>2, <1>b DEF Earned, SupportsCheckingIsBootstrapped, IsBootstrapped
    <3>3. pc # "idle" /\ pc \in Provisions /\ "node" \notin Deletes /\ "node" # "finalize"
      BY <1>5 DEF CheckBootstrap, Provisions, Deletes
    <3> QED
      BY <2>2, <3>1, <3>2, <3>3, <1>a, ContinueKeepsRest
  <2> QED
    BY <1>5, <2>1, <2>2 DEF CheckBootstrap
<1>6. CASE Drain \/ HoldUp
  <2>1. CASE Drain
    <3>1. PICK keep \in BOOLEAN : Continue(Decode(mem, km, keep), "bootstrap")
      BY <2>1 DEF Drain
    <3> DEFINE m == Decode(mem, km, keep)
    <3>2. pc = "bootstrap" /\ km.present /\ infra' = infra
      BY <2>1 DEF Drain
    <3>3. mem.ref = km.ref /\ km.finalizer
      BY <3>2 DEF MachineInv, RefsAgree, FinalizerHolds
    <3>4. m \in Object
      BY <1>b, DecodeType
    <3>5. /\ m.ref = mem.ref /\ m.finalizer /\ m.ready = km.ready
          /\ m.bootstrapped = km.bootstrapped \/ m.bootstrapped = mem.bootstrapped
      BY <3>3, <1>b DEF Decode, Object
    <3>6. Earned(m)
      BY <3>5, <1>b DEF MachineInv, Earned
    <3>7. pc # "idle" /\ pc \in Provisions /\ "bootstrap" \notin Deletes
          /\ "bootstrap" # "finalize"
      BY <3>2 DEF Provisions, Deletes
    <3> HIDE DEF m
    <3>8. Continue(m, "bootstrap")
      BY <3>1 DEF m
    <3> QED
      BY <3>2, <3>4, <3>5, <3>6, <3>7, <3>8, <1>a, ContinueKeepsRest
  <2>2. CASE HoldUp
    <3>1. pc # "idle" /\ Continue(mem, "save") /\ infra' = infra
      BY <2>2 DEF HoldUp
    <3> QED
      BY <3>1, <1>a, <1>b, ContinueKeepsRest
  <2> QED
    BY <1>6, <2>1, <2>2
<1>7. CASE UpdateNodeProviderID
  <2> DEFINE n == [mem EXCEPT !.nodeUpdated = TRUE]
  <2>1. /\ n \in Object /\ n.ref = mem.ref /\ n.finalizer = mem.finalizer
        /\ n.bootstrapped = mem.bootstrapped /\ n.ready = mem.ready
    BY <1>b DEF Object
  <2>2. Earned(n)
    BY <2>1, <1>b DEF Earned
  <2> HIDE DEF n
  <2>3. CASE infra' = infra /\ (Continue(mem, "save") \/ Continue(n, "save"))
    <3>1. pc # "idle"
      BY <1>7 DEF UpdateNodeProviderID
    <3> QED
      BY <2>1, <2>2, <2>3, <3>1, <1>a, <1>b, ContinueKeepsRest
  <2> QED
    BY <1>7, <2>3, ErrorKeepsRest DEF UpdateNodeProviderID, n
<1>8. CASE Save
  <2>1. CASE UNCHANGED km
    BY <1>8, <2>1, EndKeepsRest DEF Save
  <2>2. CASE km.present /\ km' = ApplyDiff(km, before, mem)
    <3>1. /\ km'.present = km.present /\ km'.deleting = km.deleting
          /\ km'.finalizer = Merge(km.finalizer, before.finalizer, mem.finalizer)
          /\ km'.ref = Merge(km.ref, before.ref, mem.ref)
          /\ km'.ready = Merge(km.ready, before.ready, mem.ready)
          /\ km'.bootstrapped = Merge(km.bootstrapped, before.bootstrapped, mem.bootstrapped)
      BY <2>2, <1>b DEF ApplyDiff, Object
    <3>2. km'.ref = km.ref
      BY <1>8, <2>2, <3>1 DEF Save, MachineInv, RefsAgree, Merge
    <3>3. km.finalizer => km'.finalizer
      <4>1. before.finalizer \in BOOLEAN /\ mem.finalizer \in BOOLEAN /\ km.finalizer \in BOOLEAN
        BY <1>b DEF Object
      <4> QED
        BY <3>1, <4>1 DEF MachineInv, FinalizerHolds, Merge
    <3>4. Earned(km)'
      <4>1. UNCHANGED <<checks, booted>>
        BY <1>8 DEF Save, world
      <4>2. km'.ready = km.ready \/ km'.ready = mem.ready
        BY <3>1 DEF Merge
      <4>3. km'.bootstrapped = km.bootstrapped \/ km'.bootstrapped = mem.bootstrapped
        BY <3>1 DEF Merge
      <4> QED
        BY <4>1, <4>2, <4>3 DEF MachineInv, Earned
    <3>5. /\ pc' = "idle" /\ UNCHANGED <<cache, clusterRef, infra, checks, booted>>
          /\ mem' = NoObject /\ before' = NoObject
      BY <1>8 DEF Save, EndReconcile, world
    <3>6. ~NoObject.finalizer /\ ~NoObject.ready /\ NoObject.bootstrapped = "unset"
      BY DEF NoObject, NewObject
    <3>7. RefsAgree'
      BY <3>1, <3>2, <3>5 DEF MachineInv, RefsAgree
    <3>8. FinalizerHolds'
      BY <3>1, <3>3, <3>5, <3>6 DEF MachineInv, FinalizerHolds
    <3>9. VMIsOwned'
      BY <3>1, <3>2, <3>3, <3>5 DEF MachineInv, VMIsOwned
    <3>10. Earned(cache)' /\ Earned(mem)' /\ Earned(before)'
      BY <3>5, <3>6 DEF MachineInv, Earned
    <3> QED
      BY <3>4, <3>7, <3>8, <3>9, <3>10 DEF Rest
  <2> QED
    BY <1>8, <2>1, <2>2 DEF Save
<1>9. CASE DeleteBootstrapSecret
  <2>1. CASE Continue(mem, "deleteVM") /\ \A c \in Clusters : infra'[c].vm = infra[c].vm
    <3>1. pc # "idle" /\ pc \in Deletes /\ "deleteVM" \notin Provisions /\ "deleteVM" # "finalize"
      BY <1>9 DEF DeleteBootstrapSecret, Deletes, Provisions
    <3> QED
      BY <2>1, <3>1, <1>a, <1>b, ContinueKeepsRest
  <2>2. CASE DeleteError
    BY <2>2, EndKeepsRest DEF DeleteError
  <2>3. \A c \in Clusters : [infra EXCEPT ![mem.ref].secret = FALSE][c].vm = infra[c].vm
    BY <1>b DEF Infra
  <2> QED
    BY <1>9, <2>1, <2>2, <2>3 DEF DeleteBootstrapSecret
<1>10. CASE DeleteVM
  <2>1. CASE /\ infra' = [infra EXCEPT ![mem.ref].vm = "none", ![mem.ref].terminal = FALSE]
             /\ Continue(mem, "finalize")
    <3> USE DEF Continue, MachineInv
    <3>1. \A c \in Clusters : infra[c].vm # "none" => c = mem.ref
      BY <1>10 DEF DeleteVM, VMIsOwned, RefsAgree
    <3>2. \A c \in Clusters : infra'[c].vm = IF c = mem.ref THEN "none" ELSE infra[c].vm
      BY <2>1, <1>b DEF Infra
    <3>3. \A c \in Clusters : infra'[c].vm = "none"
      BY <3>1, <3>2
    <3>4. RefsAgree'
      BY <2>1, <1>10 DEF DeleteVM, RefsAgree
    <3>5. FinalizerHolds'
      BY <2>1, <1>10 DEF DeleteVM, FinalizerHolds
    <3>6. VMIsOwned'
      BY <3>3 DEF VMIsOwned
    <3>7. Earned(km)' /\ Earned(cache)' /\ Earned(mem)' /\ Earned(before)'
      BY <2>1 DEF Earned
    <3> QED
      BY <3>4, <3>5, <3>6, <3>7 DEF Rest
  <2>2. CASE DeleteError
    BY <2>2, EndKeepsRest DEF DeleteError
  <2> QED
    BY <1>10, <2>1, <2>2 DEF DeleteVM
<1>11. CASE RemoveFinalizer
  <2>1. CASE km' = NoObject /\ EndReconcile /\ UNCHANGED <<cache, world>>
    <3> USE DEF MachineInv, EndReconcile, world
    <3>1. /\ ~NoObject.present /\ ~NoObject.finalizer /\ ~NoObject.ready
          /\ NoObject.bootstrapped = "unset"
      BY DEF NoObject, NewObject
    <3>2. RefsAgree'
      BY <2>1, <3>1 DEF RefsAgree
    <3>3. FinalizerHolds'
      BY <1>11, <2>1, <3>1 DEF RemoveFinalizer, FinalizerHolds
    <3>4. VMIsOwned'
      BY <1>11, <2>1 DEF RemoveFinalizer, VMIsOwned
    <3>5. Earned(km)' /\ Earned(cache)' /\ Earned(mem)' /\ Earned(before)'
      BY <2>1, <3>1 DEF Earned
    <3> QED
      BY <3>2, <3>3, <3>4, <3>5 DEF Rest
  <2>2. CASE DeleteError
    BY <2>2, EndKeepsRest DEF DeleteError
  <2> QED
    BY <1>11, <2>1, <2>2 DEF RemoveFinalizer
<1>12. CASE Crash
  BY <1>12, EndKeepsRest DEF Crash
<1>13. CASE SyncCache
  <2> USE <1>13 DEF SyncCache, controller, world, MachineInv
  <2>1. RefsAgree'
    BY DEF RefsAgree
  <2>2. FinalizerHolds'
    BY DEF FinalizerHolds
  <2>3. VMIsOwned'
    BY DEF VMIsOwned
  <2>4. Earned(km)' /\ Earned(cache)' /\ Earned(mem)' /\ Earned(before)'
    BY DEF Earned
  <2> QED
    BY <2>1, <2>2, <2>3, <2>4 DEF Rest
<1>14. CASE ProvideInput
  BY <1>14, WorldKeepsRest DEF ProvideInput, controller
<1>15. CASE DeleteMachine
  <2> USE DEF MachineInv
  <2>1. UNCHANGED <<cache, pc, mem, before, clusterRef, infra, checks, booted>>
    BY <1>15 DEF DeleteMachine, controller, world
  <2>2. CASE km.finalizer /\ km' = [km EXCEPT !.deleting = TRUE]
    <3>1. /\ km'.present = km.present /\ km'.deleting /\ km'.finalizer /\ km'.ref = km.ref
          /\ km'.ready = km.ready /\ km'.bootstrapped = km.bootstrapped
      BY <2>2, <1>b DEF Object
    <3>2. RefsAgree'
      BY <2>1, <3>1 DEF RefsAgree
    <3>3. FinalizerHolds'
      BY <2>1, <3>1 DEF FinalizerHolds
    <3>4. VMIsOwned'
      BY <2>1, <3>1 DEF VMIsOwned
    <3>5. Earned(km)' /\ Earned(cache)' /\ Earned(mem)' /\ Earned(before)'
      BY <2>1, <3>1 DEF Earned
    <3> QED
      BY <3>2, <3>3, <3>4, <3>5 DEF Rest
  <2>3. CASE ~km.finalizer /\ km' = NoObject
    <3>1. /\ ~NoObject.present /\ ~NoObject.ready /\ NoObject.bootstrapped = "unset"
      BY DEF NoObject, NewObject
    <3>2. RefsAgree'
      BY <2>1, <2>3, <3>1 DEF RefsAgree
    <3>3. FinalizerHolds'
      BY <2>1, <2>3, <3>1 DEF FinalizerHolds
    <3>4. VMIsOwned'
      BY <2>1, <2>3 DEF VMIsOwned
    <3>5. Earned(km)' /\ Earned(cache)' /\ Earned(mem)' /\ Earned(before)'
      BY <2>1, <2>3, <3>1 DEF Earned
    <3> QED
      BY <3>2, <3>3, <3>4, <3>5 DEF Rest
  <2> QED
    BY <1>15, <2>2, <2>3 DEF DeleteMachine
<1>16. CASE BootVM \/ LoseAddress
  <2>1. PICK c \in Clusters, v \in {"noIP", "up"} :
            infra[c].vm # "none" /\ infra' = [infra EXCEPT ![c].vm = v]
    BY <1>16 DEF BootVM, LoseAddress, VMStep
  <2>2. \A d \in Clusters : infra'[d].vm # "none" => infra[d].vm # "none"
    BY <2>1, <1>b DEF Infra
  <2> QED
    BY <1>16, <2>2, WorldKeepsRest DEF BootVM, LoseAddress, VMStep
<1>17. CASE RestartVM
  <2>1. PICK c \in Clusters, t \in BOOLEAN :
            /\ infra[c].vm \in {"up", "noIP"}
            /\ infra' = [infra EXCEPT ![c].vm = "down", ![c].terminal = t]
    BY <1>17 DEF RestartVM
  <2>2. \A d \in Clusters : infra'[d].vm # "none" => infra[d].vm # "none"
    BY <2>1, <1>b DEF Infra
  <2> QED
    BY <1>17, <2>2, WorldKeepsRest DEF RestartVM, SentinelLost
<1>18. CASE LoseVM
  <2>1. PICK c \in Clusters :
            infra' = [infra EXCEPT ![c].vm = "none", ![c].terminal = FALSE]
    BY <1>18 DEF LoseVM
  <2>2. \A d \in Clusters : infra'[d].vm # "none" => infra[d].vm # "none"
    BY <2>1, <1>b DEF Infra
  <2> QED
    BY <1>18, <2>2, WorldKeepsRest DEF LoseVM, SentinelLost
<1>19. CASE BecomeTerminal
  <2>1. PICK c \in Clusters : infra' = [infra EXCEPT ![c].terminal = TRUE]
    BY <1>19 DEF BecomeTerminal
  <2>2. \A d \in Clusters : infra'[d].vm # "none" => infra[d].vm # "none"
    BY <2>1, <1>b DEF Infra
  <2> QED
    BY <1>19, <2>2, WorldKeepsRest DEF BecomeTerminal
<1>20. CASE BootstrapGuest
  BY <1>20, WorldKeepsRest DEF BootstrapGuest
<1>21. CASE RegisterNode \/ DeleteNode
  BY <1>21, WorldKeepsRest DEF RegisterNode, DeleteNode
<1>22. CASE UNCHANGED vars
  BY <1>22, WorldKeepsRest DEF vars, controller
<1> QED
  BY <1>1, <1>2, <1>3, <1>4, <1>5, <1>6, <1>7, <1>8, <1>9, <1>10, <1>11, <1>12,
     <1>13, <1>14, <1>15, <1>16, <1>17, <1>18, <1>19, <1>20, <1>21, <1>22
     DEF Next, Controller

\* The refs of a machine are persisted from the start: it has one, or its
\* cluster has none that reconcileNormal could default it to.
RefsPersisted == \A p \in RefPairs : p[1] = "external" \/ p[2] = "management"

\* A new machine satisfies the invariant.
LEMMA InitRest ==
    ASSUME RefsPersisted, Init
    PROVE  Rest
<1>1. PICK p \in RefPairs : km = NewObject(p[1]) /\ clusterRef = p[2]
  BY DEF Init
<1>2. km.ref = p[1] /\ ~km.ready /\ ~km.finalizer /\ ~km.deleting /\ km.bootstrapped = "unset"
  BY <1>1 DEF NewObject
<1>3. ~NoObject.finalizer /\ ~NoObject.ready /\ NoObject.bootstrapped = "unset"
  BY DEF NoObject, NewObject
<1>4. /\ cache = km /\ pc = "idle" /\ mem = NoObject /\ before = NoObject
      /\ \A c \in Clusters : infra[c].vm = "none"
  BY DEF Init
<1>5. RefsAgree
  BY <1>1, <1>2, <1>4 DEF RefsPersisted, RefsAgree
<1>6. FinalizerHolds
  BY <1>2, <1>3, <1>4 DEF FinalizerHolds
<1>7. VMIsOwned
  BY <1>4 DEF VMIsOwned
<1>8. Earned(km) /\ Earned(cache) /\ Earned(mem) /\ Earned(before)
  BY <1>2, <1>3, <1>4 DEF Earned
<1> QED
  BY <1>5, <1>6, <1>7, <1>8 DEF Rest

\* The machine invariant holds in every reachable state: the ref, the
\* finalizer and the VM agree on what is left to clean up, and every copy of
\* the object that says Ready was written after the guest had bootstrapped.
THEOREM MachineInvariant ==
    ASSUME RefsPersisted
    PROVE  Spec => []MachineInv
<1>1. Init => MachineInv
  BY InitTypes, InitRest DEF MachineInv, Rest
<1>2. MachineInv /\ [Next]_vars => MachineInv'
  <2>1. MachineInv => TypeOK
    BY DEF MachineInv
  <2> QED
    BY <2>1, NextKeepsTypes, NextKeepsRest DEF MachineInv, Rest
<1> QED
  BY <1>1, <1>2, PTL DEF Spec

\* No VM outlives its KubevirtMachine (reconcileDelete and the finalizer),
\* whatever fails and however stale the cache, provided the infra cluster of
\* the machine is written in its object from the start.
THEOREM VMNotLeaked ==
    ASSUME RefsPersisted
    PROVE  Spec => []NoVMLeaked
<1>1. MachineInv => NoVMLeaked
  BY DEF MachineInv, VMIsOwned, NoVMLeaked
<1> QED
  BY <1>1, MachineInvariant, PTL

\* A machine with CAPK's keys and the CheckStrategy ssh is Ready only once its
\* guest has bootstrapped (reconcileNormal, IsBootstrapped), although the status
\* is written from a snapshot and the eviction's patches replace the object.
THEOREM ReadyIsTrue ==
    ASSUME RefsPersisted
    PROVE  Spec => []ReadyMeansBootstrapped
<1>1. MachineInv => ReadyMeansBootstrapped
  BY DEF MachineInv, Earned, ReadyMeansBootstrapped
<1> QED
  BY <1>1, MachineInvariant, PTL

-----------------------------------------------------------------------------
(* The bootstrap secret.                                                    *)

Fills == {"secret", "newMachine", "createVM", "bootstrap"}

Removes == {"deleteVM", "finalize"}

\* A step that makes no secret, takes no finalizer away and does not pass over
\* the deletion of the secret keeps secrets owned.
LEMMA QuietKeepsSecrets ==
    ASSUME SecretIsOwned, failures' = 0 => failures = 0,
           \A c \in Clusters : infra'[c].secret => infra[c].secret,
           inputs \subseteq inputs',
           km.present /\ km.finalizer => km'.present /\ km'.finalizer /\ km'.ref = km.ref,
           pc' \in Fills => pc \in Fills,
           pc' \in Removes => pc \in Removes
    PROVE  SecretIsOwned'
BY DEF SecretIsOwned, Fills, Removes

\* A call of a reconcile that makes no secret and leads to no deletion is such
\* a step ...
LEMMA ContinueKeepsSecrets ==
    ASSUME SecretIsOwned, MachineInv, NEW m, NEW next, Continue(m, next),
           failures' = 0 => failures = 0,
           next \in Fills => pc \in Fills, next \in Removes => pc \in Removes,
           \A c \in Clusters : infra'[c].secret => infra[c].secret
    PROVE  SecretIsOwned'
<1>1. UNCHANGED <<km, inputs>> /\ pc' = next
  BY DEF Continue
<1> QED
  BY <1>1, QuietKeepsSecrets

\* ... so is a call that fails ...
LEMMA ErrorKeepsSecrets ==
    ASSUME SecretIsOwned, MachineInv, Error
    PROVE  SecretIsOwned'
<1>1. failures' # 0
  BY DEF Error, MachineInv, TypeOK
<1>2. Continue(mem, "save") /\ UNCHANGED infra /\ "save" \notin Fills /\ "save" \notin Removes
  BY DEF Error, Fills, Removes
<1> QED
  BY <1>1, <1>2, ContinueKeepsSecrets

\* ... and so is the end of a reconcile.
LEMMA EndKeepsSecrets ==
    ASSUME SecretIsOwned, EndReconcile, UNCHANGED world, failures' = 0 => failures = 0,
           km.present /\ km.finalizer => km'.present /\ km'.finalizer /\ km'.ref = km.ref
    PROVE  SecretIsOwned'
<1>1. UNCHANGED <<infra, inputs>> /\ pc' \notin Fills /\ pc' \notin Removes
  BY DEF EndReconcile, world, Fills, Removes
<1> QED
  BY <1>1, QuietKeepsSecrets

\* The deferred patch keeps the ref and the finalizer.
LEMMA PatchKeepsOwner ==
    ASSUME MachineInv, pc = "save", km.present, km.finalizer
    PROVE  LET o == ApplyDiff(km, before, mem)
           IN  o.present /\ o.finalizer /\ o.ref = km.ref
<1>1. km \in Object /\ before.finalizer \in BOOLEAN /\ mem.finalizer \in BOOLEAN
      /\ km.finalizer \in BOOLEAN
  BY DEF MachineInv, TypeOK, Object
<1>2. /\ ApplyDiff(km, before, mem).present = km.present
      /\ ApplyDiff(km, before, mem).finalizer
             = Merge(km.finalizer, before.finalizer, mem.finalizer)
      /\ ApplyDiff(km, before, mem).ref = Merge(km.ref, before.ref, mem.ref)
  BY <1>1 DEF ApplyDiff, Object
<1>3. Merge(km.finalizer, before.finalizer, mem.finalizer)
  BY <1>1 DEF MachineInv, FinalizerHolds, Merge
<1>4. Merge(km.ref, before.ref, mem.ref) = km.ref
  BY DEF MachineInv, RefsAgree, Merge
<1> QED
  BY <1>2, <1>3, <1>4

\* Every step keeps bootstrap secrets owned.
LEMMA NextKeepsSecrets == MachineInv /\ SecretIsOwned /\ [Next]_vars => SecretIsOwned'
<1> SUFFICES ASSUME MachineInv, SecretIsOwned, [Next]_vars PROVE SecretIsOwned'
  OBVIOUS
<1>a. /\ mem.ref \in Clusters /\ infra \in Infra /\ failures \in Nat
      /\ pc \in {"secret", "newMachine", "createVM", "bootstrap"} <=> pc \in Fills
      /\ pc \in {"deleteVM", "finalize"} <=> pc \in Removes
  BY DEF MachineInv, TypeOK, Object, Fills, Removes
<1>b. ASSUME DeleteError PROVE SecretIsOwned'
  <2>1. failures' # 0 /\ EndReconcile /\ UNCHANGED <<km, world>>
    BY <1>a, <1>b DEF DeleteError
  <2> QED
    BY <2>1, EndKeepsSecrets
<1>1. CASE StartReconcile
  <2>1. UNCHANGED <<km, inputs, infra, failures>>
    BY <1>1 DEF StartReconcile, world
  <2>2. pc' \notin Removes /\ (pc' \in Fills => "bootstrapData" \in inputs)
    BY <1>1 DEF StartReconcile, Dispatch, Removes, Fills, Inputs
  <2> QED
    BY <2>1, <2>2 DEF SecretIsOwned, Removes, Fills
<1>2. CASE ReconcileBootstrapSecret
  <2>1. CASE /\ infra' = [infra EXCEPT ![mem.ref].secret = TRUE]
             /\ Continue(mem, "newMachine") /\ UNCHANGED failures
    <3>1. km.present /\ km.finalizer /\ mem.ref = km.ref /\ "bootstrapData" \in inputs
      BY <1>2 DEF ReconcileBootstrapSecret, MachineInv, FinalizerHolds, RefsAgree, SecretIsOwned
    <3>2. \A c \in Clusters : infra'[c].secret => c = mem.ref \/ infra[c].secret
      BY <2>1, <1>a DEF Infra
    <3>3. UNCHANGED <<km, inputs>> /\ pc' = "newMachine"
      BY <2>1 DEF Continue
    <3> QED
      BY <2>1, <3>1, <3>2, <3>3 DEF SecretIsOwned
  <2> QED
    BY <1>2, <2>1, ErrorKeepsSecrets DEF ReconcileBootstrapSecret
<1>3. CASE ReadMachine
  <2>1. CASE /\ UNCHANGED <<infra, failures>>
             /\ \E m : \/ Continue(m, "createVM") \/ Continue(m, "save")
                       \/ Continue(m, "bootstrap")
    <3>1. pc \in Fills /\ "createVM" \notin Removes /\ "save" \notin Removes
          /\ "bootstrap" \notin Removes
      BY <1>3 DEF ReadMachine, Fills, Removes
    <3> QED
      BY <2>1, <3>1, ContinueKeepsSecrets
  <2> QED
    BY <1>3, <2>1, ErrorKeepsSecrets DEF ReadMachine
<1>4. CASE CreateVM
  <2>1. CASE /\ infra' = [infra EXCEPT ![mem.ref].vm = "down"]
             /\ Continue(mem, "save") /\ UNCHANGED failures
    <3>1. \A c \in Clusters : infra'[c].secret = infra[c].secret
      BY <2>1, <1>a DEF Infra
    <3>2. "save" \notin Fills /\ "save" \notin Removes
      BY DEF Fills, Removes
    <3> QED
      BY <2>1, <3>1, <3>2, ContinueKeepsSecrets
  <2> QED
    BY <1>4, <2>1, ErrorKeepsSecrets DEF CreateVM
<1>5. CASE CheckBootstrap \/ Drain \/ HoldUp
  <2>1. /\ UNCHANGED infra /\ (failures' = 0 => failures = 0)
        /\ \E m : \/ Continue(m, "save") \/ Continue(m, "node")
                  \/ Continue(m, "bootstrap") /\ pc = "bootstrap"
    BY <1>5, <1>a DEF CheckBootstrap, Drain, HoldUp
  <2>2. /\ {"save", "node"} \cap Fills = {} /\ "bootstrap" \in Fills
        /\ {"save", "node", "bootstrap"} \cap Removes = {}
    BY DEF Fills, Removes
  <2> QED
    BY <2>1, <2>2, ContinueKeepsSecrets
<1>6. CASE UpdateNodeProviderID
  <2>1. CASE UNCHANGED <<infra, failures>> /\ \E m : Continue(m, "save")
    <3>1. "save" \notin Fills /\ "save" \notin Removes
      BY DEF Fills, Removes
    <3> QED
      BY <2>1, <3>1, ContinueKeepsSecrets
  <2> QED
    BY <1>6, <2>1, ErrorKeepsSecrets DEF UpdateNodeProviderID
<1>7. CASE Save
  <2>1. km.present /\ km.finalizer => km'.present /\ km'.finalizer /\ km'.ref = km.ref
    BY <1>7, PatchKeepsOwner DEF Save
  <2>2. EndReconcile /\ UNCHANGED world /\ (failures' = 0 => failures = 0)
    BY <1>7, <1>a DEF Save
  <2> QED
    BY <2>1, <2>2, EndKeepsSecrets
<1>8. CASE DeleteBootstrapSecret
  <2>1. CASE /\ infra' = IF "bootstrapData" \in inputs
                         THEN [infra EXCEPT ![mem.ref].secret = FALSE] ELSE infra
             /\ Continue(mem, "deleteVM") /\ UNCHANGED failures
    <3>1. \A c \in Clusters : infra'[c].secret => infra[c].secret
      BY <2>1, <1>a DEF Infra
    <3>2. "bootstrapData" \in inputs => ~infra'[mem.ref].secret
      BY <2>1, <1>a DEF Infra
    <3>3. failures = 0 => \A c \in Clusters :
              infra[c].secret => c = mem.ref /\ "bootstrapData" \in inputs
      BY <1>8 DEF DeleteBootstrapSecret, SecretIsOwned, MachineInv, RefsAgree
    <3>4. failures = 0 => \A c \in Clusters : ~infra'[c].secret
      BY <3>1, <3>2, <3>3
    <3>5. pc' = "deleteVM" /\ UNCHANGED <<km, inputs>>
      BY <2>1 DEF Continue
    <3> QED
      BY <2>1, <3>1, <3>4, <3>5 DEF SecretIsOwned
  <2>2. CASE failures' = failures + 1 /\ Continue(mem, "deleteVM")
    <3>1. failures' # 0 /\ pc' = "deleteVM"
      BY <2>2, <1>a DEF Continue
    <3> QED
      BY <3>1 DEF SecretIsOwned
  <2> QED
    BY <1>8, <2>1, <2>2, <1>b DEF DeleteBootstrapSecret
<1>9. CASE DeleteVM
  <2>1. CASE /\ infra' = [infra EXCEPT ![mem.ref].vm = "none", ![mem.ref].terminal = FALSE]
             /\ Continue(mem, "finalize") /\ UNCHANGED failures
    <3>1. \A c \in Clusters : infra'[c].secret = infra[c].secret
      BY <2>1, <1>a DEF Infra
    <3>2. "finalize" \notin Fills /\ pc \in Removes
      BY <1>9 DEF DeleteVM, Fills, Removes
    <3> QED
      BY <2>1, <3>1, <3>2, ContinueKeepsSecrets
  <2> QED
    BY <1>9, <2>1, <1>b DEF DeleteVM
<1>10. CASE RemoveFinalizer
  <2>1. CASE EndReconcile /\ UNCHANGED <<world, failures>>
    <3>1. failures = 0 => \A c \in Clusters : ~infra[c].secret
      BY <1>10 DEF RemoveFinalizer, SecretIsOwned
    <3>2. pc' = "idle" /\ UNCHANGED infra
      BY <2>1 DEF EndReconcile, world
    <3> QED
      BY <2>1, <3>1, <3>2 DEF SecretIsOwned
  <2> QED
    BY <1>10, <2>1, <1>b DEF RemoveFinalizer
<1>11. CASE Crash
  <2>1. failures' # 0 /\ EndReconcile /\ UNCHANGED <<km, world>>
    BY <1>11, <1>a DEF Crash
  <2> QED
    BY <2>1, EndKeepsSecrets
<1>12. CASE SyncCache \/ ProvideInput \/ BootstrapGuest \/ RegisterNode \/ DeleteNode
  <2>1. UNCHANGED <<km, pc, infra, failures>> /\ inputs \subseteq inputs'
    BY <1>12 DEF SyncCache, ProvideInput, BootstrapGuest, RegisterNode, DeleteNode,
       controller, world
  <2> QED
    BY <2>1, QuietKeepsSecrets
<1>13. CASE DeleteMachine
  <2>1. km.present /\ km.finalizer => km'.present /\ km'.finalizer /\ km'.ref = km.ref
    BY <1>13 DEF DeleteMachine, MachineInv, TypeOK, Object
  <2>2. UNCHANGED <<pc, infra, inputs, failures>>
    BY <1>13 DEF DeleteMachine, controller, world
  <2> QED
    BY <2>1, <2>2, QuietKeepsSecrets
<1>14. CASE BootVM \/ LoseAddress \/ RestartVM \/ LoseVM \/ BecomeTerminal
  <2>1. UNCHANGED <<km, pc, inputs, failures>>
    BY <1>14 DEF BootVM, LoseAddress, RestartVM, LoseVM, BecomeTerminal, VMStep, controller
  <2>2. \A c \in Clusters : infra'[c].secret = infra[c].secret
    <3>1. CASE BootVM \/ LoseAddress
      BY <3>1, <1>a DEF BootVM, LoseAddress, VMStep, Infra
    <3>2. CASE RestartVM
      BY <3>2, <1>a DEF RestartVM, Infra
    <3>3. CASE LoseVM
      BY <3>3, <1>a DEF LoseVM, Infra
    <3>4. CASE BecomeTerminal
      BY <3>4, <1>a DEF BecomeTerminal, Infra
    <3> QED
      BY <1>14, <3>1, <3>2, <3>3, <3>4
  <2> QED
    BY <2>1, <2>2, QuietKeepsSecrets
<1>15. CASE UNCHANGED vars
  BY <1>15 DEF vars, SecretIsOwned
<1> QED
  BY <1>1, <1>2, <1>3, <1>4, <1>5, <1>6, <1>7, <1>8, <1>9, <1>10, <1>11, <1>12,
     <1>13, <1>14, <1>15 DEF Next, Controller

\* As long as no call fails no bootstrap secret outlives its KubevirtMachine
\* (deleteKubevirtBootstrapSecret): the lookup whose errors pass for absence is
\* the only way to lose one that staleness and interleaving leave.
THEOREM SecretNotLeaked ==
    ASSUME RefsPersisted
    PROVE  Spec => []SecretLeaksOnlyByFailure
<1>1. Init => SecretIsOwned
  BY DEF Init, SecretIsOwned
<1>2. SecretIsOwned => SecretLeaksOnlyByFailure
  BY DEF SecretIsOwned, SecretLeaksOnlyByFailure
<1> QED
  BY <1>1, <1>2, NextKeepsSecrets, MachineInvariant, PTL DEF Spec
=============================================================================
