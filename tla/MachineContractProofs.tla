----------------------- MODULE MachineContractProofs ------------------------
(***************************************************************************)
(* MachineLifecycle implements MachineContract.  The invariant MachineInv  *)
(* of MachineProofs says that VM, finalizer and ref agree; what a          *)
(* reconcile is about to report needs ReportIsFounded besides.             *)
(***************************************************************************)
EXTENDS MachineProofs

\* NoObject, which stands for an object that is gone, reports nothing.
LEMMA NothingReported ==
    NoObject.present = FALSE /\ NoObject.ready = FALSE /\ NoObject.providerID = FALSE
BY DEF NoObject, NewObject

-----------------------------------------------------------------------------
(* What is reported is founded.                                             *)

\* A call keeps it that takes no provider ID back and changes the readiness in
\* memory only for an object that is kept.
LEMMA ContinueKeepsReport ==
    ASSUME MachineInv, ReportIsFounded, pc # "idle",
           NEW m, NEW next, Continue(m, next),
           before.providerID => m.providerID,
           m.ready = mem.ready \/ pc \in Provisions
    PROVE  ReportIsFounded'
<1>1. pc \in Provisions => km.finalizer
  BY DEF MachineInv, FinalizerHolds, Provisions
<1>. QED  BY <1>1 DEF ReportIsFounded, Continue

\* So does the end of a reconcile, if an object that is gone is gone for good
\* and its provider ID is kept.
LEMMA EndKeepsReport ==
    ASSUME ReportIsFounded, EndReconcile, ~km'.present => km' = NoObject,
           km'.present => km.present /\ (km.providerID => km'.providerID), UNCHANGED cache
    PROVE  ReportIsFounded'
BY NothingReported DEF ReportIsFounded, EndReconcile

\* Every step keeps it.
LEMMA NextKeepsReport == MachineInv /\ ReportIsFounded /\ [Next]_vars => ReportIsFounded'
<1>. SUFFICES ASSUME MachineInv, ReportIsFounded, [Next]_vars  PROVE ReportIsFounded'
  OBVIOUS
<1>a. km \in Object /\ cache \in Object /\ mem \in Object
  BY DEF MachineInv, TypeOK
<1>0. before.providerID => mem.providerID
  BY DEF ReportIsFounded
<1>b. ASSUME Error, pc # "idle"  PROVE ReportIsFounded'
  BY <1>b, <1>0, ContinueKeepsReport DEF Error
<1>c. ASSUME DeleteError \/ Crash  PROVE ReportIsFounded'
  <2>1. EndReconcile /\ UNCHANGED <<km, cache>>
    BY <1>c DEF DeleteError, Crash
  <2>. QED  BY <2>1, EndKeepsReport DEF ReportIsFounded
<1>1. CASE StartReconcile
  <2>1. Defaulted(cache).ready = cache.ready /\ Defaulted(cache).providerID = cache.providerID
    BY <1>a DEF Defaulted, Object
  <2>. QED  BY <1>1, <2>1 DEF StartReconcile, ReportIsFounded
<1>2. CASE ReconcileBootstrapSecret \/ CreateVM \/ HoldUp
  <2>1. pc # "idle"
    BY <1>2 DEF ReconcileBootstrapSecret, CreateVM, HoldUp
  <2>2. Error \/ \E next : Continue(mem, next)
    BY <1>2 DEF ReconcileBootstrapSecret, CreateVM, HoldUp
  <2>. QED  BY <1>0, <2>1, <2>2, <1>b, ContinueKeepsReport
<1>3. CASE ReadMachine
  <2>. DEFINE m == [mem EXCEPT !.failed = infra[mem.ref].terminal]
  <2>1. pc # "idle" /\ pc \in Provisions
    BY <1>3 DEF ReadMachine, Provisions
  <2>2. m.providerID = mem.providerID
    BY <1>a DEF Object
  <2>3. /\ [m EXCEPT !.ready = FALSE].providerID = mem.providerID
        /\ [m EXCEPT !.ready = @ /\ m.ipKnown].providerID = mem.providerID
    BY <1>a DEF Object
  <2>4. CASE ~Error
    <3>1. \E next : \/ Continue([m EXCEPT !.ready = FALSE], next)
                    \/ Continue([m EXCEPT !.ready = @ /\ m.ipKnown], next)
                    \/ Continue(m, next)
      BY <1>3, <2>4 DEF ReadMachine
    <3>. HIDE DEF m
    <3>. QED  BY <1>0, <2>1, <2>2, <2>3, <3>1, ContinueKeepsReport
  <2>. QED  BY <2>1, <2>4, <1>b
<1>4. CASE CheckBootstrap
  <2>1. pc # "idle" /\ pc \in Provisions
    BY <1>4 DEF CheckBootstrap, Provisions
  <2>2. /\ [mem EXCEPT !.bootstrapped = "false", !.ready = FALSE].providerID = mem.providerID
        /\ Provisioned(mem).providerID
    BY <1>a DEF Object, Provisioned
  <2>3. \E next : \/ Continue([mem EXCEPT !.bootstrapped = "false", !.ready = FALSE], next)
                  \/ Continue(Provisioned(mem), next)
    BY <1>4 DEF CheckBootstrap
  <2>. QED  BY <1>0, <2>1, <2>2, <2>3, ContinueKeepsReport
<1>11. CASE Drain
  <2>1. PICK keep \in BOOLEAN : Continue(Decode(mem, km, keep), "bootstrap")
    BY <1>11 DEF Drain
  <2>2. pc # "idle" /\ pc \in Provisions /\ km.present
    BY <1>11 DEF Drain, Provisions
  <2>3. km.providerID => Decode(mem, km, keep).providerID
    BY <1>a DEF Decode, Object
  <2>4. before.providerID => Decode(mem, km, keep).providerID
    BY <2>2, <2>3 DEF ReportIsFounded
  <2>. QED  BY <2>1, <2>2, <2>4, ContinueKeepsReport
<1>5. CASE UpdateNodeProviderID
  <2>1. pc # "idle"
    BY <1>5 DEF UpdateNodeProviderID
  <2>2. /\ [mem EXCEPT !.nodeUpdated = TRUE].providerID = mem.providerID
        /\ [mem EXCEPT !.nodeUpdated = TRUE].ready = mem.ready
    BY <1>a DEF Object
  <2>3. Error \/ Continue(mem, "save") \/ Continue([mem EXCEPT !.nodeUpdated = TRUE], "save")
    BY <1>5 DEF UpdateNodeProviderID
  <2>. QED  BY <1>0, <2>1, <2>2, <2>3, <1>b, ContinueKeepsReport
<1>6. CASE Save
  <2>1. /\ ApplyDiff(km, before, mem).present = km.present
        /\ ApplyDiff(km, before, mem).providerID
               = Merge(km.providerID, before.providerID, mem.providerID)
    BY <1>a DEF ApplyDiff, Object
  <2>2. km.providerID => Merge(km.providerID, before.providerID, mem.providerID)
    <3>1. {km.providerID, before.providerID, mem.providerID} \subseteq BOOLEAN
      BY DEF MachineInv, TypeOK, Object
    <3>. QED  BY <3>1, <1>0 DEF Merge
  <2>. QED  BY <1>6, <2>1, <2>2, EndKeepsReport DEF Save, ReportIsFounded
<1>7. CASE DeleteBootstrapSecret \/ DeleteVM
  <2>1. pc # "idle"
    BY <1>7 DEF DeleteBootstrapSecret, DeleteVM
  <2>2. DeleteError \/ \E next : Continue(mem, next)
    BY <1>7 DEF DeleteBootstrapSecret, DeleteVM
  <2>. QED  BY <1>0, <2>1, <2>2, <1>c, ContinueKeepsReport
<1>8. CASE RemoveFinalizer
  BY <1>8, <1>c, NothingReported, EndKeepsReport DEF RemoveFinalizer
<1>9. CASE DeleteMachine
  <2>1. km.finalizer => km'.present /\ km'.finalizer /\ km'.providerID = km.providerID
    BY <1>9, <1>a DEF DeleteMachine, Object
  <2>2. ~km.finalizer => km' = NoObject
    BY <1>9 DEF DeleteMachine
  <2>3. UNCHANGED <<cache, pc, mem, before>> /\ km.present
    BY <1>9 DEF DeleteMachine, controller
  <2>. QED  BY <2>1, <2>2, <2>3, NothingReported DEF ReportIsFounded
<1>10. CASE \/ SyncCache \/ ProvideInput \/ BootVM \/ LoseAddress \/ RestartVM \/ LoseVM
            \/ BecomeTerminal \/ BootstrapGuest \/ RegisterNode \/ DeleteNode \/ UNCHANGED vars
  <2>1. UNCHANGED <<km, pc, mem, before>> /\ cache' \in {cache, km}
    BY <1>10 DEF SyncCache, ProvideInput, BootVM, LoseAddress, RestartVM, LoseVM,
       BecomeTerminal, BootstrapGuest, RegisterNode, DeleteNode, VMStep, controller, vars
  <2>. QED  BY <2>1 DEF ReportIsFounded
<1>. QED
  BY <1>c, <1>1, <1>2, <1>3, <1>4, <1>5, <1>6, <1>7, <1>8, <1>9, <1>10,
     <1>11 DEF Next, Controller

-----------------------------------------------------------------------------
(* The refinement.                                                          *)

\* A step that writes no object and makes or loses no VM or bootstrap is none of
\* the contract's.
LEMMA QuietStep ==
    ASSUME UNCHANGED <<km, checks>>, (booted' = "never") = (booted = "never"),
           \A c \in Clusters : (infra'[c].vm = "none") = (infra[c].vm = "none")
    PROVE  UNCHANGED Contract!contractVars
<1>1. UNCHANGED VMs
  BY DEF VMs
<1>2. UNCHANGED <<Stage, Trusted>>
  BY DEF Stage, Trusted
<1>. QED  BY <1>1, <1>2 DEF Contract!contractVars

\* The deferred patch is a report.
LEMMA SaveReports ==
    ASSUME MachineInv, ReportIsFounded, Save, km' # km
    PROVE  Contract!Report
<1>. DEFINE o == ApplyDiff(km, before, mem)
<1>1. km.present /\ pc = "save" /\ km' = o
  BY DEF Save
<1>2. km \in Object /\ mem \in Object /\ before \in Object
  BY DEF MachineInv, TypeOK
<1>3. /\ o.present = km.present /\ o.deleting = km.deleting
      /\ o.finalizer = Merge(km.finalizer, before.finalizer, mem.finalizer)
      /\ o.ready = Merge(km.ready, before.ready, mem.ready)
      /\ o.providerID = Merge(km.providerID, before.providerID, mem.providerID)
  BY <1>2 DEF ApplyDiff, Object
<1>. HIDE DEF o
<1>4. /\ {km.ready, mem.ready, km.providerID, mem.providerID} \subseteq BOOLEAN
      /\ {km.finalizer, mem.finalizer, before.finalizer, before.providerID} \subseteq BOOLEAN
  BY <1>2 DEF Object
<1>5. km.finalizer => o.finalizer
  BY <1>3, <1>4 DEF Merge, MachineInv, FinalizerHolds
<1>6. o.ready \in BOOLEAN /\ o.providerID \in BOOLEAN
  BY <1>3, <1>4 DEF Merge
<1>7. km.providerID => o.providerID
  BY <1>3, <1>4 DEF Merge, ReportIsFounded
<1>8. o.ready /\ ~km.ready => Trusted /\ km.finalizer
  BY <1>1, <1>3 DEF Merge, ReportIsFounded, MachineInv, Earned, Trusted
<1>9. Stage # "gone" /\ (km.finalizer => Stage # "new")
  BY <1>1 DEF Stage
<1>10. Stage' \in {Stage} \cup (IF Stage = "new" THEN {"kept"} ELSE {})
  BY <1>1, <1>3, <1>5 DEF Stage
<1>11. UNCHANGED <<VMs, Trusted>>
  BY DEF Save, world, VMs, Trusted
<1>. QED  BY <1>1, <1>6, <1>7, <1>8, <1>9, <1>10, <1>11 DEF Contract!Report

\* The VM is made for an object that is kept, where it has no other.
LEMMA CreateMakesVM ==
    ASSUME MachineInv, pc = "createVM", Continue(mem, "save"),
           infra' = [infra EXCEPT ![mem.ref].vm = "down"]
    PROVE  Contract!MakeVM(mem.ref)
<1>1. mem.ref \in Clusters /\ infra \in Infra
  BY DEF MachineInv, TypeOK, Object
<1>2. km.present /\ km.finalizer /\ mem.ref = km.ref
  BY DEF MachineInv, FinalizerHolds, RefsAgree
<1>3. Stage \in {"kept", "deleted"} /\ UNCHANGED <<Stage, Trusted, km>>
  BY <1>2 DEF Stage, Trusted, Continue
<1>4. VMs \subseteq {mem.ref}
  BY <1>2 DEF VMs, MachineInv, VMIsOwned
<1>5. infra'[mem.ref].vm = "down" /\ \A c \in Clusters \ {mem.ref} : infra'[c].vm = infra[c].vm
  BY <1>1 DEF Infra
<1>6. VMs' = {mem.ref}
  BY <1>1, <1>4, <1>5 DEF VMs
<1>. QED  BY <1>3, <1>4, <1>6 DEF Contract!MakeVM

\* VMs may go, by the controller or not.
LEMMA VMsGo ==
    ASSUME UNCHANGED <<km, checks>>, (booted' = "never") = (booted = "never"),
           \A c \in Clusters : infra'[c].vm # "none" => infra[c].vm # "none"
    PROVE  Contract!LoseVM
<1>1. VMs' \in SUBSET VMs
  BY DEF VMs
<1>2. UNCHANGED <<Stage, Trusted>>
  BY DEF Stage, Trusted
<1>. QED  BY <1>1, <1>2 DEF Contract!LoseVM

\* An object that goes has no VM.
LEMMA ObjectGoes ==
    ASSUME km' = NoObject, UNCHANGED <<infra, checks, booted>>, VMs = {},
           Stage \in {"new", "deleted"}
    PROVE  Contract!Go
<1>1. UNCHANGED <<VMs, Trusted>> /\ Stage' = "gone"
  BY NothingReported DEF VMs, Trusted, Stage
<1>. QED  BY <1>1, NothingReported DEF Contract!Go

\* Every step of a machine is a step of the contract, or none.
LEMMA NextImplementsContract ==
    ASSUME MachineInv, ReportIsFounded, [Next]_vars
    PROVE  [Contract!ContractNext]_(Contract!contractVars)
<1>. USE DEF Contract!ContractNext
<1>a. mem.ref \in Clusters /\ infra \in Infra /\ km \in Object
  BY DEF MachineInv, TypeOK, Object
<1>b. ASSUME Error \/ DeleteError \/ Crash  PROVE UNCHANGED Contract!contractVars
  <2>1. UNCHANGED <<km, checks, booted, infra>>
    BY <1>b DEF Error, DeleteError, Crash, Continue, world
  <2>. QED  BY <2>1, QuietStep
<1>1. CASE \/ StartReconcile \/ ReconcileBootstrapSecret \/ ReadMachine \/ CheckBootstrap
           \/ Drain \/ HoldUp \/ UpdateNodeProviderID \/ DeleteBootstrapSecret
           \/ SyncCache \/ ProvideInput \/ RegisterNode \/ DeleteNode \/ UNCHANGED vars
  <2>1. CASE Error \/ DeleteError
    BY <2>1, <1>b
  <2>2. CASE ~Error /\ ~DeleteError
    <3>1. UNCHANGED <<km, checks, booted>>
      BY <1>1, <2>2 DEF StartReconcile, ReconcileBootstrapSecret, ReadMachine, CheckBootstrap,
         Drain, HoldUp, UpdateNodeProviderID, DeleteBootstrapSecret, SyncCache, ProvideInput,
         RegisterNode, DeleteNode, Continue, world, vars
    <3>2. \/ infra' = infra
          \/ infra' = [infra EXCEPT ![mem.ref].secret = TRUE]
          \/ infra' = [infra EXCEPT ![mem.ref].secret = FALSE]
      BY <1>1, <2>2 DEF StartReconcile, ReconcileBootstrapSecret, ReadMachine, CheckBootstrap,
         Drain, HoldUp, UpdateNodeProviderID, DeleteBootstrapSecret, SyncCache, ProvideInput,
         RegisterNode, DeleteNode, Continue, world, vars
    <3>3. \A c \in Clusters : infra'[c].vm = infra[c].vm
      BY <3>2, <1>a DEF Infra
    <3>. QED  BY <3>1, <3>3, QuietStep
  <2>. QED  BY <2>1, <2>2
<1>2. CASE Save
  <2>1. CASE km' = km
    <3>1. UNCHANGED <<km, checks, booted, infra>>
      BY <1>2, <2>1 DEF Save, world
    <3>. QED  BY <3>1, QuietStep
  <2>. QED  BY <1>2, <2>1, SaveReports
<1>3. CASE CreateVM
  <2>1. CASE Error
    BY <2>1, <1>b
  <2>. QED  BY <1>3, <2>1, <1>a, CreateMakesVM DEF CreateVM
<1>4. CASE DeleteVM
  <2>1. CASE DeleteError
    BY <2>1, <1>b
  <2>2. CASE /\ infra' = [infra EXCEPT ![mem.ref].vm = "none", ![mem.ref].terminal = FALSE]
             /\ Continue(mem, "finalize")
    <3>1. UNCHANGED <<km, checks, booted>>
      BY <2>2 DEF Continue
    <3>2. \A c \in Clusters : infra'[c].vm # "none" => infra[c].vm # "none"
      BY <2>2, <1>a DEF Infra
    <3>. QED  BY <3>1, <3>2, VMsGo
  <2>. QED  BY <1>4, <2>1, <2>2 DEF DeleteVM
<1>5. CASE RemoveFinalizer
  <2>1. CASE DeleteError
    BY <2>1, <1>b
  <2>2. CASE km' = NoObject /\ UNCHANGED world
    <3>1. UNCHANGED <<infra, checks, booted>>
      BY <2>2 DEF world
    <3>2. CASE ~km.present
      <4>1. UNCHANGED km
        BY <2>2, <3>2 DEF ReportIsFounded
      <4>. QED  BY <3>1, <4>1, QuietStep
    <3>3. CASE km.present
      <4>1. VMs = {} /\ Stage = "deleted"
        BY <1>5, <3>3 DEF RemoveFinalizer, VMs, Stage, MachineInv, VMIsOwned, FinalizerHolds
      <4>. QED  BY <2>2, <3>1, <4>1, ObjectGoes
    <3>. QED  BY <3>2, <3>3
  <2>. QED  BY <1>5, <2>1, <2>2 DEF RemoveFinalizer
<1>6. CASE Crash
  BY <1>6, <1>b
<1>7. CASE DeleteMachine
  <2>1. UNCHANGED <<infra, checks, booted>>
    BY <1>7 DEF DeleteMachine, world
  <2>2. CASE km.finalizer
    <3>1. /\ km'.present = km.present /\ km'.deleting
          /\ km'.ready = km.ready /\ km'.providerID = km.providerID
      BY <1>7, <2>2, <1>a DEF DeleteMachine, Object
    <3>2. Stage = "kept" /\ Stage' = "deleted"
      BY <1>7, <2>2, <3>1 DEF DeleteMachine, Stage
    <3>3. UNCHANGED <<VMs, Trusted>>
      BY <2>1 DEF VMs, Trusted
    <3>. QED  BY <3>1, <3>2, <3>3 DEF Contract!Delete
  <2>3. CASE ~km.finalizer
    <3>1. km' = NoObject /\ Stage = "new"
      BY <1>7, <2>3 DEF DeleteMachine, Stage
    <3>2. VMs = {}
      BY <2>3 DEF VMs, MachineInv, VMIsOwned
    <3>. QED  BY <2>1, <3>1, <3>2, ObjectGoes
  <2>. QED  BY <2>2, <2>3
<1>8. CASE BootVM \/ LoseAddress \/ BecomeTerminal
  <2>1. UNCHANGED <<km, checks, booted>>
    BY <1>8 DEF BootVM, LoseAddress, BecomeTerminal, VMStep
  <2>2. CASE BootVM \/ LoseAddress
    <3>1. \E c \in Clusters, to \in {"noIP", "up"} :
              infra[c].vm \in {"down", "noIP", "up"} /\ infra' = [infra EXCEPT ![c].vm = to]
      BY <2>2 DEF BootVM, LoseAddress, VMStep
    <3>2. \A c \in Clusters : (infra'[c].vm = "none") = (infra[c].vm = "none")
      BY <3>1, <1>a DEF Infra
    <3>. QED  BY <2>1, <3>2, QuietStep
  <2>3. CASE BecomeTerminal
    <3>1. \A c \in Clusters : infra'[c].vm = infra[c].vm
      BY <2>3, <1>a DEF BecomeTerminal, Infra
    <3>. QED  BY <2>1, <3>1, QuietStep
  <2>. QED  BY <1>8, <2>2, <2>3
<1>9. CASE RestartVM \/ LoseVM
  <2>1. UNCHANGED <<km, checks>> /\ (booted' = "never") = (booted = "never")
    BY <1>9 DEF RestartVM, LoseVM, SentinelLost
  <2>2. \A c \in Clusters : infra'[c].vm # "none" => infra[c].vm # "none"
    <3>1. CASE RestartVM
      BY <3>1, <1>a DEF RestartVM, Infra
    <3>2. CASE LoseVM
      BY <3>2, <1>a DEF LoseVM, Infra
    <3>. QED  BY <1>9, <3>1, <3>2
  <2>. QED  BY <2>1, <2>2, VMsGo
<1>10. CASE BootstrapGuest
  <2>1. Trusted' = TRUE
    BY <1>10 DEF BootstrapGuest, Trusted
  <2>2. UNCHANGED <<km, VMs, Stage>>
    BY <1>10 DEF BootstrapGuest, VMs, Stage
  <2>. QED  BY <2>1, <2>2 DEF Contract!Bootstrap
<1>. QED
  BY <1>1, <1>2, <1>3, <1>4, <1>5, <1>6, <1>7, <1>8, <1>9, <1>10 DEF Next, Controller

\* The machine controller, whatever fails, crashes or is stale, implements what
\* MachineContract promises (Reconcile, reconcileNormal, reconcileDelete), provided
\* the infra cluster of the machine is written in its object from the start.
THEOREM MachineContractKept ==
    ASSUME RefsPersisted
    PROVE  Spec => MachineImplementsContract
<1>1. Init => Contract!ContractInit /\ ReportIsFounded
  <2>. SUFFICES ASSUME Init  PROVE Contract!ContractInit /\ ReportIsFounded
    OBVIOUS
  <2>1. PICK p \in RefPairs : km = NewObject(p[1])
    BY DEF Init
  <2>2. /\ km.present /\ ~km.deleting /\ ~km.finalizer
        /\ ~km.ready /\ ~km.providerID
    BY <2>1 DEF NewObject
  <2>3. Stage = "new"
    BY <2>2 DEF Stage
  <2>4. VMs = {}
    BY DEF Init, VMs
  <2>5. Trusted \in BOOLEAN
    BY DEF Trusted
  <2>6. ReportIsFounded
    BY <2>2, NothingReported DEF Init, ReportIsFounded
  <2>. QED  BY <2>2, <2>3, <2>4, <2>5, <2>6 DEF Contract!ContractInit
<1>2. MachineInv /\ ReportIsFounded /\ [Next]_vars
          => [Contract!ContractNext]_(Contract!contractVars)
  BY NextImplementsContract
<1>. QED
  BY <1>1, <1>2, NextKeepsReport, MachineInvariant, PTL
     DEF Spec, MachineImplementsContract, Contract!ContractSpec
=============================================================================
