--------------------------- MODULE EvictionProofs ---------------------------
(***************************************************************************)
(* Proofs about Eviction, for every grace period, every bound on failures  *)
(* and migrations, both ways of decoding a response and every set of       *)
(* disruptions.                                                            *)
(***************************************************************************)
EXTENDS Eviction, TLAPS

USE GracePeriodAssumption, MaxFailuresAssumption, MaxMigrationsAssumption,
    DecodeKeepsAssumption

-----------------------------------------------------------------------------
(* Types of the helpers.                                                    *)

\* A decoded response is a set of annotations (mgmtClient.Patch).
LEMMA DecodeType ==
    ASSUME NEW old \in Annotations, NEW s \in Annotations, NEW keep \in BOOLEAN
    PROVE  Decode(old, s, keep) \in Annotations
BY DEF Decode, Annotations, GraceTime

\* So is what the patch helper writes (PatchKubevirtMachine).
LEMMA ApplyDiffType ==
    ASSUME NEW s \in Annotations, NEW b \in Annotations, NEW m \in Annotations
    PROVE  ApplyDiff(s, b, m) \in Annotations
BY DEF ApplyDiff, Annotations, GraceTime

\* And a deadline that is one tick nearer.
LEMMA AgeType ==
    ASSUME NEW a \in Annotations
    PROVE  Age(a) \in Annotations
<1>1. a.grace \in GraceTime
  BY DEF Annotations
<1>2. (IF a.grace > 0 THEN a.grace - 1 ELSE a.grace) \in GraceTime
  BY <1>1 DEF GraceTime, NoGrace, BadGrace
<1> QED
  BY <1>2 DEF Age, Annotations

\* Nothing ages where there is no deadline.
LEMMA AgeNone == Age(NoAnnotations) = NoAnnotations
<1>1. NoAnnotations.grace = -1
  BY DEF NoAnnotations, NoGrace
<1>2. [NoAnnotations EXCEPT !.grace = NoAnnotations.grace] = NoAnnotations
  BY DEF NoAnnotations
<1> QED
  BY <1>1, <1>2 DEF Age

\* DrainNodeIfNeeded goes on with one of the calls of the model.
LEMMA FirstCallType ==
    ASSUME NEW v \in VMI, NEW a \in Annotations
    PROVE  FirstCall(v, a) \in Steps \ {"idle"}
BY DEF FirstCall, tryMigrateVMI, shouldGracefulDeleteVMI, VMI, Annotations, Steps

\* The empty set of annotations is one of them.
LEMMA NoAnnotationsType == NoAnnotations \in Annotations
BY DEF NoAnnotations, Annotations, GraceTime

-----------------------------------------------------------------------------
(* Type correctness.                                                        *)

\* The calls of a reconcile keep the types: one that patches the object...
LEMMA PatchKeepsTypes ==
    ASSUME TypeOK, NEW s \in Annotations, NEW next \in Steps \ {"idle"},
           Patch(s, next)
    PROVE  TypeOK'
<1>1. mem' \in Annotations
  BY DecodeType DEF Patch, TypeOK
<1> QED
  BY <1>1 DEF Patch, Goto, TypeOK, kubevirt, guest, Steps

\* ... one that is not needed ...
LEMMA SkipKeepsTypes ==
    ASSUME TypeOK, NEW next \in Steps \ {"idle"}, Skip(next)
    PROVE  TypeOK'
BY DEF Skip, Goto, TypeOK, kubevirt, guest

\* ... and one that fails.
LEMMA ErrorKeepsTypes ==
    ASSUME TypeOK, NEW next \in Steps \ {"idle"}, Error(next)
    PROVE  TypeOK'
BY DEF Error, Goto, TypeOK, kubevirt, guest

\* cleanupMigrationAnnotations keeps the types.
LEMMA CleanupKeepsTypes ==
    ASSUME TypeOK, NEW next \in Steps \ {"idle"}, CleanupMigrationAnnotations(next)
    PROVE  TypeOK'
<1>1. [km EXCEPT !.submitted = FALSE, !.grace = NoGrace] \in Annotations
  BY DEF TypeOK, Annotations, GraceTime
<1>2. "save" \in Steps \ {"idle"}
  BY DEF Steps
<1> QED
  BY <1>1, <1>2, PatchKeepsTypes, SkipKeepsTypes, ErrorKeepsTypes
     DEF CleanupMigrationAnnotations

\* So does drainGracePeriodExceeded.
LEMMA GracePeriodKeepsTypes ==
    ASSUME TypeOK, NEW yes \in Steps \ {"idle"}, NEW no \in Steps \ {"idle"},
           DrainGracePeriodExceeded(yes, no)
    PROVE  TypeOK'
<1>1. [km EXCEPT !.grace = GracePeriod] \in Annotations
  BY DEF TypeOK, Annotations, GraceTime
<1>2. "save" \in Steps \ {"idle"}
  BY DEF Steps
<1> QED
  BY <1>1, <1>2, PatchKeepsTypes, SkipKeepsTypes, ErrorKeepsTypes
     DEF DrainGracePeriodExceeded

\* Every step of the controller, of KubeVirt and of the guest cluster keeps
\* the types.
LEMMA NextKeepsTypes == TypeOK /\ [Next]_vars => TypeOK'
<1> SUFFICES ASSUME TypeOK, [Next]_vars PROVE TypeOK'
  OBVIOUS
<1> USE NoAnnotationsType
<1> DEFINE Calls == Steps \ {"idle"}
<1>a. /\ "idle" \in Steps /\ "save" \in Calls /\ "uncordon" \in Calls /\ "removeCordoned" \in Calls
      /\ "setSubmitted" \in Calls /\ "fallback" \in Calls
      /\ "gracePeriod" \in Calls /\ "deleteVMI" \in Calls /\ "cordon" \in Calls
      /\ "setCordoned" \in Calls /\ "drain" \in Calls /\ "removeGrace" \in Calls
  BY DEF Steps
<1>b. /\ [km EXCEPT !.cordoned = FALSE] \in Annotations
      /\ [km EXCEPT !.cordoned = TRUE] \in Annotations
      /\ [km EXCEPT !.submitted = TRUE] \in Annotations
      /\ [km EXCEPT !.grace = NoGrace] \in Annotations
  BY DEF TypeOK, Annotations, GraceTime
<1> HIDE DEF Calls
<1>1. CASE StartReconcile
  <2>1. FirstCall(vmi, cache) \in Steps /\ FirstCall(vmi, cache) # "idle"
    BY FirstCallType DEF TypeOK
  <2> QED
    BY <1>1, <2>1 DEF StartReconcile, TypeOK, kubevirt, guest
<1>2. CASE Settle
  BY <1>2, <1>a, CleanupKeepsTypes DEF Settle, Calls
<1>3. CASE UncordonNodeIfNeeded
  <2>1. CASE Goto("removeCordoned") /\ node' = [node EXCEPT !.unschedulable = FALSE]
             /\ capkCordon' = FALSE
             /\ UNCHANGED <<km, cache, mem, kubevirt, failures>>
    BY <2>1, <1>a DEF Goto, TypeOK, kubevirt, Node, Calls
  <2> QED
    BY <1>3, <2>1, <1>a, SkipKeepsTypes, ErrorKeepsTypes DEF UncordonNodeIfNeeded, Calls
<1>4. CASE RemoveNodeCordonedAnnotation
  BY <1>4, <1>a, <1>b, PatchKeepsTypes, SkipKeepsTypes, ErrorKeepsTypes
     DEF RemoveNodeCordonedAnnotation, Calls
<1>5. CASE AwaitMigration
  BY <1>5, <1>a, GracePeriodKeepsTypes DEF AwaitMigration, Calls
<1>6. CASE CreateMigration
  <2>1. CASE Goto("setSubmitted")
             /\ migrations' = (IF migrations < MaxMigrations THEN migrations + 1
                                                            ELSE migrations)
             /\ UNCHANGED <<km, cache, mem, vmi, evicted, guest, failures>>
    <3>1. migrations' \in 0..MaxMigrations
      BY <2>1, SMT DEF TypeOK
    <3> QED
      BY <2>1, <3>1, <1>a DEF Goto, TypeOK, guest, Calls
  <2>2. CASE Skip("fallback")
    BY <2>2, <1>a, SkipKeepsTypes DEF Calls
  <2>3. CASE Error("fallback")
    BY <2>3, <1>a, ErrorKeepsTypes DEF Calls
  <2> QED
    BY <1>6, <2>1, <2>2, <2>3 DEF CreateMigration
<1>7. CASE SetMigrationSubmittedAnnotation
  BY <1>7, <1>a, <1>b, PatchKeepsTypes, ErrorKeepsTypes
     DEF SetMigrationSubmittedAnnotation, Calls
<1>8. CASE Migrated
  BY <1>8, <1>a, CleanupKeepsTypes DEF Migrated, Calls
<1>9. CASE Fallback
  BY <1>9, <1>a, CleanupKeepsTypes DEF Fallback, Calls
<1>10. CASE CheckGracePeriod
  BY <1>10, <1>a, GracePeriodKeepsTypes DEF CheckGracePeriod, Calls
<1>11. CASE Cordon
  <2>1. CASE Goto("setCordoned") /\ node' = [node EXCEPT !.unschedulable = TRUE]
             /\ capkCordon' = (capkCordon \/ ~node.unschedulable)
             /\ UNCHANGED <<km, cache, mem, kubevirt, failures>>
    BY <2>1, <1>a DEF Goto, TypeOK, kubevirt, Node, Calls
  <2> QED
    BY <1>11, <2>1, <1>a, SkipKeepsTypes, ErrorKeepsTypes DEF Cordon, Calls
<1>12. CASE SetNodeCordonedAnnotation
  BY <1>12, <1>a, <1>b, PatchKeepsTypes, ErrorKeepsTypes
     DEF SetNodeCordonedAnnotation, Calls
<1>13. CASE DrainNode
  <2>1. CASE Goto("deleteVMI") /\ node' = [node EXCEPT !.pods = FALSE]
             /\ UNCHANGED <<km, cache, mem, kubevirt, capkCordon, failures>>
    BY <2>1, <1>a DEF Goto, TypeOK, kubevirt, Node, Calls
  <2> QED
    BY <1>13, <2>1, <1>a, SkipKeepsTypes DEF DrainNode, Calls
<1>14. CASE DeleteVMI
  <2>1. CASE Goto("removeGrace") /\ vmi' = [vmi EXCEPT !.phase = "terminating"]
             /\ evicted' = TRUE
             /\ UNCHANGED <<km, cache, mem, migrations, guest, failures>>
    BY <2>1, <1>a DEF Goto, TypeOK, guest, VMI, Calls
  <2> QED
    BY <1>14, <2>1, <1>a, SkipKeepsTypes, ErrorKeepsTypes DEF DeleteVMI, Calls
<1>15. CASE RemoveGracePeriodAnnotation
  BY <1>15, <1>a, <1>b, PatchKeepsTypes, SkipKeepsTypes, ErrorKeepsTypes
     DEF RemoveGracePeriodAnnotation, Calls
<1>16. CASE Save
  <2>1. ApplyDiff(km, before, mem) \in Annotations
    BY ApplyDiffType DEF TypeOK
  <2>2. km' \in Annotations
    BY <1>16, <2>1 DEF Save, TypeOK
  <2>3. failures' \in 0..MaxFailures
    BY <1>16 DEF Save, TypeOK
  <2> QED
    BY <1>16, <2>2, <2>3, <1>a DEF Save, EndReconcile, TypeOK, kubevirt, guest
<1>17. CASE Crash
  <2>1. failures' \in 0..MaxFailures
    BY <1>17 DEF Crash, TypeOK
  <2> QED
    BY <1>17, <2>1, <1>a DEF Crash, EndReconcile, TypeOK, kubevirt, guest
<1>18. CASE SyncCache
  BY <1>18 DEF SyncCache, TypeOK, controller, kubevirt, guest
<1>19. CASE Tick
  <2>1. Age(NoAnnotations) = NoAnnotations
    BY AgeNone
  <2>2. /\ km' \in Annotations /\ cache' \in Annotations
        /\ mem' \in Annotations /\ before' \in Annotations
    BY <1>19, AgeType DEF Tick, TypeOK
  <2>3. pc = "idle" => mem' = NoAnnotations /\ before' = NoAnnotations
    BY <1>19, <2>1 DEF Tick, TypeOK
  <2> QED
    BY <1>19, <2>2, <2>3 DEF Tick, TypeOK, kubevirt, guest
<1>20. CASE KubeVirt
  <2> USE DEF InfraStep, TypeOK, controller, guest
  <2>1. CASE Evacuate
    BY <2>1 DEF Evacuate, VMI
  <2>2. CASE ClearEvacuation
    BY <2>2 DEF ClearEvacuation, VMI
  <2>3. CASE StartMigration
    BY <2>3 DEF StartMigration, VMI
  <2>4. CASE FinishMigration
    <3>1. vmi' \in VMI
      BY <2>4 DEF FinishMigration, VMI
    <3> QED
      BY <2>4, <3>1 DEF FinishMigration
  <2>5. CASE AbandonMigration
    BY <2>5 DEF AbandonMigration
  <2>6. CASE KillVMI
    BY <2>6 DEF KillVMI, VMI
  <2>7. CASE VMIGone
    <3>1. vmi' \in VMI
      BY <2>7 DEF VMIGone, VMI, FreshVMI
    <3> QED
      BY <2>7, <3>1 DEF VMIGone
  <2>8. CASE RecreateVMI
    <3>1. vmi' \in VMI
      BY <2>8 DEF RecreateVMI, VMI, FreshVMI
    <3> QED
      BY <2>8, <3>1 DEF RecreateVMI
  <2>9. CASE BootVMI
    <3>1. vmi' \in VMI /\ node' \in Node
      BY <2>9 DEF BootVMI, VMI, Node, NoNode
    <3> QED
      BY <2>9, <3>1 DEF BootVMI
  <2> QED
    BY <1>20, <2>1, <2>2, <2>3, <2>4, <2>5, <2>6, <2>7, <2>8, <2>9 DEF KubeVirt
<1>21. CASE Guest
  <2>1. node' \in Node /\ capkCordon' \in BOOLEAN
    <3>1. CASE SchedulePods
      BY <3>1 DEF SchedulePods, TypeOK, Node
    <3>2. CASE AdminCordon
      BY <3>2 DEF AdminCordon, TypeOK, Node
    <3>3. CASE AdminDeletesNode
      BY <3>3 DEF AdminDeletesNode, Node, NoNode
    <3> QED
      BY <1>21, <3>1, <3>2, <3>3 DEF Guest
  <2>2. GuestStep
    BY <1>21 DEF Guest, SchedulePods, AdminCordon, AdminDeletesNode
  <2> QED
    BY <2>1, <2>2 DEF GuestStep, TypeOK, controller, kubevirt
<1>22. CASE UNCHANGED vars
  BY <1>22 DEF vars, TypeOK
<1> QED
  BY <1>1, <1>2, <1>3, <1>4, <1>5, <1>6, <1>7, <1>8, <1>9, <1>10, <1>11, <1>12,
     <1>13, <1>14, <1>15, <1>16, <1>17, <1>18, <1>19, <1>20, <1>21, <1>22
     DEF Next, Controller

\* Initially nothing is going on.
LEMMA InitTypes == Init => TypeOK
<1> SUFFICES ASSUME Init PROVE TypeOK
  OBVIOUS
<1>1. km \in Annotations
  BY DEF Init, Annotations, NoAnnotations, GraceTime
<1>2. vmi \in VMI
  BY DEF Init, VMI, FreshVMI
<1>3. node \in Node /\ pc \in Steps
  BY DEF Init, Node, Steps
<1>4. 0 \in 0..MaxMigrations /\ 0 \in 0..MaxFailures
  OBVIOUS
<1> QED
  BY <1>1, <1>2, <1>3, <1>4, NoAnnotationsType DEF Init, TypeOK

\* Whatever fails, every annotation CAPK reads back is one it can have written
\* (or a malformed one it was given), and no reconcile leaves state behind in
\* memory.
THEOREM TypeCorrect == Spec => []TypeOK
BY InitTypes, NextKeepsTypes, PTL DEF Spec

-----------------------------------------------------------------------------
(* The safety invariant.  Its type part is proved above; this is the rest.  *)

Rest == CallIsJustified(pc, mem) /\ EvictedIsDown /\ ReadVMIHasBooted
            /\ CordonIsReal /\ SnapshotIsHarmless

\* A patch that leads to a call the controller may make keeps the rest: the
\* decoded object never lacks a cordon marker that the server holds.
LEMMA PatchKeepsRest ==
    ASSUME SafetyInv, NEW s \in Annotations, NEW next \in Steps \ {"idle"},
           Patch(s, next), CallIsJustified(next, mem')
    PROVE  Rest'
<1>1. SnapshotIsHarmless'
  BY DEF SafetyInv, TypeOK, Patch, Goto, SnapshotIsHarmless, Decode, Annotations
<1> QED
  BY <1>1 DEF Rest, SafetyInv, Patch, Goto, CallIsJustified, EvictedIsDown,
     ReadVMIHasBooted, CordonIsReal, kubevirt, guest

\* So does a call that is not needed ...
LEMMA SkipKeepsRest ==
    ASSUME SafetyInv, NEW next \in Steps \ {"idle"}, Skip(next),
           CallIsJustified(next, mem)
    PROVE  Rest'
BY DEF Rest, SafetyInv, Skip, Goto, CallIsJustified, EvictedIsDown,
   ReadVMIHasBooted, CordonIsReal, SnapshotIsHarmless, kubevirt, guest

\* ... or that fails.
LEMMA ErrorKeepsRest ==
    ASSUME SafetyInv, NEW next \in Steps \ {"idle"}, Error(next),
           CallIsJustified(next, mem)
    PROVE  Rest'
BY DEF Rest, SafetyInv, Error, Goto, CallIsJustified, EvictedIsDown,
   ReadVMIHasBooted, CordonIsReal, SnapshotIsHarmless, kubevirt, guest

\* cleanupMigrationAnnotations keeps the rest.
LEMMA CleanupKeepsRest ==
    ASSUME SafetyInv, NEW next \in {"save", "gracePeriod", "uncordon"},
           next = "uncordon" => ~evicted, CleanupMigrationAnnotations(next)
    PROVE  Rest'
<1>1. [km EXCEPT !.submitted = FALSE, !.grace = NoGrace] \in Annotations
  BY DEF SafetyInv, TypeOK, Annotations, GraceTime
<1>2. "save" \in Steps \ {"idle"} /\ next \in Steps \ {"idle"}
  BY DEF Steps
<1>3. /\ CallIsJustified(next, mem) /\ CallIsJustified(next, mem')
      /\ CallIsJustified("save", mem)
  BY DEF CallIsJustified
<1> QED
  BY <1>1, <1>2, <1>3, PatchKeepsRest, SkipKeepsRest, ErrorKeepsRest
     DEF CleanupMigrationAnnotations

\* drainGracePeriodExceeded leads to the deletion only past the deadline.
LEMMA GracePeriodKeepsRest ==
    ASSUME SafetyInv, NEW yes \in {"fallback", "deleteVMI"},
           NEW no \in {"save", "cordon"}, DrainGracePeriodExceeded(yes, no)
    PROVE  Rest'
<1>1. [km EXCEPT !.grace = GracePeriod] \in Annotations
  BY DEF SafetyInv, TypeOK, Annotations, GraceTime
<1>2. /\ "save" \in Steps \ {"idle"} /\ yes \in Steps \ {"idle"}
      /\ no \in Steps \ {"idle"}
  BY DEF Steps
<1>3. /\ CallIsJustified(no, mem) /\ CallIsJustified(no, mem')
      /\ CallIsJustified("save", mem)
      /\ mem.grace = 0 => CallIsJustified(yes, mem)
  BY DEF CallIsJustified
<1> QED
  BY <1>1, <1>2, <1>3, PatchKeepsRest, SkipKeepsRest, ErrorKeepsRest
     DEF DrainGracePeriodExceeded

\* Every step keeps the rest of the invariant.
LEMMA NextKeepsRest == SafetyInv /\ [Next]_vars => Rest'
<1> SUFFICES ASSUME SafetyInv, [Next]_vars PROVE Rest'
  OBVIOUS
<1> DEFINE Calls == Steps \ {"idle"}
<1>a. /\ "save" \in Calls /\ "uncordon" \in Calls /\ "removeCordoned" \in Calls
      /\ "setSubmitted" \in Calls /\ "fallback" \in Calls
      /\ "gracePeriod" \in Calls /\ "deleteVMI" \in Calls /\ "cordon" \in Calls
      /\ "setCordoned" \in Calls /\ "drain" \in Calls /\ "removeGrace" \in Calls
  BY DEF Steps
<1>b. /\ [km EXCEPT !.cordoned = FALSE] \in Annotations
      /\ [km EXCEPT !.cordoned = TRUE] \in Annotations
      /\ [km EXCEPT !.submitted = TRUE] \in Annotations
      /\ [km EXCEPT !.grace = NoGrace] \in Annotations
  BY DEF SafetyInv, TypeOK, Annotations, GraceTime
<1>c. /\ CallIsJustified("save", mem) /\ CallIsJustified("save", mem')
      /\ CallIsJustified("fallback", mem)
  BY DEF CallIsJustified
<1> HIDE DEF Calls
<1>1. CASE StartReconcile
  <2>1. FirstCall(vmi, cache) \in {"settle", "terminating", "migrated", "fallback",
                                   "migrating", "save", "createMigration", "gracePeriod"}
    BY DEF FirstCall, tryMigrateVMI, SafetyInv, TypeOK, VMI, Annotations
  <2>2. FirstCall(vmi, cache) = "settle" => vmi.phase # "terminating"
    BY DEF FirstCall
  <2>4. (EvictedIsDown /\ CordonIsReal)'
    BY <1>1 DEF StartReconcile, SafetyInv, EvictedIsDown, CordonIsReal, kubevirt, guest
  <2>5. ReadVMIHasBooted'
    BY <1>1 DEF StartReconcile, ReadVMIHasBooted, kubevirt
  <2>6. SnapshotIsHarmless'
    BY <1>1 DEF StartReconcile, SnapshotIsHarmless
  <2>7. CallIsJustified(pc, mem)'
    BY <1>1, <2>1, <2>2 DEF StartReconcile, CallIsJustified, SafetyInv, EvictedIsDown,
       kubevirt, guest
  <2> QED
    BY <2>4, <2>5, <2>6, <2>7 DEF Rest
<1>2. CASE Settle
  <2>1. pc = "settle" => ~evicted
    BY DEF SafetyInv, CallIsJustified
  <2> QED
    BY <1>2, <2>1, CleanupKeepsRest DEF Settle
<1>3. CASE UncordonNodeIfNeeded
  <2>1. CASE Skip("save")
    BY <2>1, <1>a, <1>c, SkipKeepsRest DEF Calls
  <2>2. CASE (~node.exists \/ ~node.unschedulable) /\ Skip("removeCordoned")
    <3>1. CallIsJustified("removeCordoned", mem)
      BY <2>2 DEF SafetyInv, CordonIsReal, CallIsJustified
    <3> QED
      BY <2>2, <3>1, <1>a, SkipKeepsRest DEF Calls
  <2>3. CASE /\ node' = [node EXCEPT !.unschedulable = FALSE]
             /\ capkCordon' = FALSE
             /\ Goto("removeCordoned")
             /\ UNCHANGED <<km, cache, mem, kubevirt, failures>>
    BY <2>3 DEF Goto, Rest, SafetyInv, TypeOK, Node, CallIsJustified, EvictedIsDown,
       ReadVMIHasBooted, CordonIsReal, SnapshotIsHarmless, kubevirt
  <2>4. CASE Error("save")
    BY <2>4, <1>a, <1>c, ErrorKeepsRest DEF Calls
  <2> QED
    BY <1>3, <2>1, <2>2, <2>3, <2>4 DEF UncordonNodeIfNeeded
<1>4. CASE RemoveNodeCordonedAnnotation
  BY <1>4, <1>a, <1>b, <1>c, PatchKeepsRest, SkipKeepsRest, ErrorKeepsRest
     DEF RemoveNodeCordonedAnnotation, Calls
<1>5. CASE AwaitMigration
  BY <1>5, GracePeriodKeepsRest DEF AwaitMigration
<1>6. CASE CreateMigration
  <2>1. CASE Goto("setSubmitted")
             /\ UNCHANGED <<km, cache, mem, vmi, evicted, guest, failures>>
    BY <2>1 DEF Goto, Rest, SafetyInv, CallIsJustified, EvictedIsDown,
       ReadVMIHasBooted, CordonIsReal, SnapshotIsHarmless, guest
  <2>2. CASE Skip("fallback") \/ Error("fallback")
    BY <2>2, <1>a, <1>c, SkipKeepsRest, ErrorKeepsRest DEF Calls
  <2> QED
    BY <1>6, <2>1, <2>2 DEF CreateMigration
<1>7. CASE SetMigrationSubmittedAnnotation
  BY <1>7, <1>a, <1>b, <1>c, PatchKeepsRest, ErrorKeepsRest
     DEF SetMigrationSubmittedAnnotation, Calls
<1>8. CASE Migrated
  BY <1>8, CleanupKeepsRest DEF Migrated
<1>9. CASE Fallback
  BY <1>9, CleanupKeepsRest DEF Fallback
<1>10. CASE CheckGracePeriod
  BY <1>10, GracePeriodKeepsRest DEF CheckGracePeriod
<1>11. CASE Cordon
  <2>1. CASE ~node.exists /\ Skip("deleteVMI")
    <3>1. CallIsJustified("deleteVMI", mem)
      BY <2>1 DEF CallIsJustified
    <3> QED
      BY <2>1, <3>1, <1>a, SkipKeepsRest DEF Calls
  <2>2. CASE /\ node.exists
             /\ node' = [node EXCEPT !.unschedulable = TRUE]
             /\ capkCordon' = (capkCordon \/ ~node.unschedulable)
             /\ Goto("setCordoned")
             /\ UNCHANGED <<km, cache, mem, kubevirt, failures>>
    BY <2>2 DEF Goto, Rest, SafetyInv, TypeOK, Node, CallIsJustified, EvictedIsDown,
       ReadVMIHasBooted, CordonIsReal, SnapshotIsHarmless, kubevirt
  <2>3. CASE Error("save")
    BY <2>3, <1>a, <1>c, ErrorKeepsRest DEF Calls
  <2> QED
    BY <1>11, <2>1, <2>2, <2>3 DEF Cordon
<1>12. CASE SetNodeCordonedAnnotation
  <2>1. CallIsJustified("drain", mem')
    BY <1>12 DEF SetNodeCordonedAnnotation, SafetyInv, CallIsJustified
  <2> QED
    BY <1>12, <2>1, <1>a, <1>b, <1>c, PatchKeepsRest, ErrorKeepsRest
       DEF SetNodeCordonedAnnotation, Calls
<1>13. CASE DrainNode
  <2>1. CASE /\ node' = [node EXCEPT !.pods = FALSE]
             /\ Goto("deleteVMI")
             /\ UNCHANGED <<km, cache, mem, kubevirt, capkCordon, failures>>
    BY <1>13, <2>1 DEF DrainNode, Goto, Rest, SafetyInv, TypeOK, Node, CallIsJustified,
       EvictedIsDown, ReadVMIHasBooted, CordonIsReal, SnapshotIsHarmless, kubevirt
  <2>2. CASE Skip("save")
    BY <2>2, <1>a, <1>c, SkipKeepsRest DEF Calls
  <2> QED
    BY <1>13, <2>1, <2>2 DEF DrainNode
<1>14. CASE DeleteVMI
  <2>1. CASE /\ vmi' = [vmi EXCEPT !.phase = "terminating"]
             /\ evicted' = TRUE
             /\ Goto("removeGrace")
             /\ UNCHANGED <<km, cache, mem, migrations, guest, failures>>
    BY <2>1 DEF Goto, Rest, SafetyInv, TypeOK, VMI, CallIsJustified, EvictedIsDown,
       ReadVMIHasBooted, CordonIsReal, SnapshotIsHarmless, guest
  <2>2. CASE Skip("save") \/ Error("save")
    BY <2>2, <1>a, <1>c, SkipKeepsRest, ErrorKeepsRest DEF Calls
  <2> QED
    BY <1>14, <2>1, <2>2 DEF DeleteVMI
<1>15. CASE RemoveGracePeriodAnnotation
  BY <1>15, <1>a, <1>b, <1>c, PatchKeepsRest, SkipKeepsRest, ErrorKeepsRest
     DEF RemoveGracePeriodAnnotation, Calls
<1>16. CASE Save \/ Crash
  BY <1>16 DEF Save, Crash, EndReconcile, Rest, SafetyInv, CallIsJustified,
     EvictedIsDown, ReadVMIHasBooted, CordonIsReal, SnapshotIsHarmless, NoAnnotations,
     kubevirt, guest
<1>17. CASE SyncCache
  BY <1>17 DEF SyncCache, Rest, SafetyInv, CallIsJustified, EvictedIsDown,
     ReadVMIHasBooted, CordonIsReal, SnapshotIsHarmless, controller, kubevirt, guest
<1>18. CASE Tick
  <2>1. /\ mem'.cordoned = mem.cordoned /\ before'.cordoned = before.cordoned
        /\ km'.cordoned = km.cordoned
        /\ mem.grace = 0 => mem'.grace = 0
    BY <1>18 DEF Tick, Age, SafetyInv, TypeOK, Annotations
  <2> QED
    BY <1>18, <2>1 DEF Tick, Rest, SafetyInv, CallIsJustified, EvictedIsDown,
       ReadVMIHasBooted, CordonIsReal, SnapshotIsHarmless, kubevirt, guest
<1>19. CASE KubeVirt
  <2> USE DEF InfraStep, Rest, SafetyInv, TypeOK, CallIsJustified, EvictedIsDown,
              ReadVMIHasBooted, CordonIsReal, SnapshotIsHarmless, controller, guest
  <2>1. CASE Evacuate \/ ClearEvacuation \/ StartMigration
    <3>1. vmi'.phase = vmi.phase
      BY <2>1 DEF Evacuate, ClearEvacuation, StartMigration, VMI
    <3>2. InfraStep /\ UNCHANGED <<sameVMI, evicted>>
      BY <2>1 DEF Evacuate, ClearEvacuation, StartMigration
    <3> QED
      BY <3>1, <3>2
  <2>2. CASE FinishMigration
    <3>1. vmi'.phase = vmi.phase
      BY <2>2 DEF FinishMigration, VMI
    <3> QED
      BY <2>2, <3>1 DEF FinishMigration
  <2>3. CASE AbandonMigration
    BY <2>3 DEF AbandonMigration
  <2>4. CASE KillVMI
    BY <2>4 DEF KillVMI, VMI
  <2>5. CASE VMIGone
    <3>1. vmi'.phase = "absent"
      BY <2>5 DEF VMIGone, FreshVMI
    <3> QED
      BY <2>5, <3>1 DEF VMIGone
  <2>6. CASE RecreateVMI
    BY <2>6 DEF RecreateVMI
  <2>7. CASE BootVMI
    <3>1. vmi'.phase = "running" /\ ~sameVMI /\ ~evicted
      BY <2>7 DEF BootVMI, VMI
    <3>2. (node.exists => node' = node) /\ (~node.exists => ~node'.pods /\ ~capkCordon)
      BY <2>7 DEF BootVMI, NoNode
    <3>3. ~node.exists => node'.exists
      BY <2>7 DEF BootVMI, NoNode
    <3> QED
      BY <2>7, <3>1, <3>2, <3>3 DEF BootVMI
  <2> QED
    BY <1>19, <2>1, <2>2, <2>3, <2>4, <2>5, <2>6, <2>7 DEF KubeVirt
<1>20. CASE Guest
  <2> USE DEF GuestStep, Rest, SafetyInv, TypeOK, Node, CallIsJustified, EvictedIsDown,
              ReadVMIHasBooted, CordonIsReal, SnapshotIsHarmless, controller, kubevirt
  <2>1. CASE SchedulePods
    BY <2>1 DEF SchedulePods
  <2>2. CASE AdminCordon
    BY <2>2 DEF AdminCordon
  <2>3. CASE AdminDeletesNode
    BY <2>3 DEF AdminDeletesNode, NoNode
  <2> QED
    BY <1>20, <2>1, <2>2, <2>3 DEF Guest
<1>21. CASE UNCHANGED vars
  BY <1>21 DEF vars, Rest, SafetyInv, CallIsJustified, EvictedIsDown,
     ReadVMIHasBooted, CordonIsReal, SnapshotIsHarmless
<1> QED
  BY <1>1, <1>2, <1>3, <1>4, <1>5, <1>6, <1>7, <1>8, <1>9, <1>10, <1>11, <1>12,
     <1>13, <1>14, <1>15, <1>16, <1>17, <1>18, <1>19, <1>20, <1>21 DEF Next, Controller

\* SafetyInv holds initially ...
LEMMA InitSafety == Init => SafetyInv
<1> SUFFICES ASSUME Init PROVE SafetyInv
  OBVIOUS
<1>1. TypeOK
  BY InitTypes
<1>2. vmi.phase = "running"
  BY DEF Init, FreshVMI
<1> QED
  BY <1>1, <1>2 DEF Init, SafetyInv, CallIsJustified, EvictedIsDown, ReadVMIHasBooted,
     CordonIsReal, SnapshotIsHarmless, NoAnnotations

\* ... and always: whenever the controller is about to uncordon, to drop the
\* cordon marker or to delete the VMI, the cluster is in a state where that is
\* right, although what it read may be out of date.
THEOREM SafetyInvariant == Spec => []SafetyInv
<1>1. SafetyInv /\ [Next]_vars => SafetyInv'
  BY NextKeepsTypes, NextKeepsRest DEF SafetyInv, Rest
<1> QED
  BY InitSafety, <1>1, PTL DEF Spec

-----------------------------------------------------------------------------
(* The action properties that follow.                                       *)

\* Only UncordonNodeIfNeeded makes a cordoned node schedulable, only DeleteVMI
\* evicts, and only RemoveNodeCordonedAnnotation removes the marker: the
\* deferred patch cannot, by SnapshotIsHarmless.
LEMMA WhoDoesWhat ==
    ASSUME SafetyInv, Next
    PROVE  /\ Uncordons => pc = "uncordon"
           /\ Evicts => pc = "deleteVMI" /\ UNCHANGED <<sameVMI, node, mem>>
           /\ km.cordoned /\ ~km'.cordoned =>
                  pc = "removeCordoned" /\ UNCHANGED capkCordon
<1> USE DEF Uncordons, Evicts
<1>1. CASE StartReconcile \/ AwaitMigration \/ Settle \/ Migrated \/ Fallback
           \/ CheckGracePeriod \/ SetMigrationSubmittedAnnotation
           \/ SetNodeCordonedAnnotation \/ RemoveGracePeriodAnnotation
  <2>1. UNCHANGED <<node, evicted>>
    BY <1>1 DEF StartReconcile, AwaitMigration, Settle, Migrated, Fallback,
       CheckGracePeriod, SetMigrationSubmittedAnnotation, SetNodeCordonedAnnotation,
       RemoveGracePeriodAnnotation, CleanupMigrationAnnotations,
       DrainGracePeriodExceeded, Patch, Skip, Error, kubevirt, guest
  <2>2. km.cordoned => km'.cordoned
    BY <1>1 DEF StartReconcile, AwaitMigration, Settle, Migrated, Fallback,
       CheckGracePeriod, SetMigrationSubmittedAnnotation, SetNodeCordonedAnnotation,
       RemoveGracePeriodAnnotation, CleanupMigrationAnnotations,
       DrainGracePeriodExceeded, Patch, Skip, Error, SafetyInv, TypeOK, Annotations
  <2> QED
    BY <2>1, <2>2
<1>2. CASE UncordonNodeIfNeeded
  BY <1>2 DEF UncordonNodeIfNeeded, Skip, Error, kubevirt
<1>3. CASE RemoveNodeCordonedAnnotation
  BY <1>3 DEF RemoveNodeCordonedAnnotation, Patch, Skip, Error, kubevirt, guest
<1>4. CASE CreateMigration
  BY <1>4 DEF CreateMigration, Skip, Error, kubevirt, guest
<1>5. CASE Cordon
  BY <1>5 DEF Cordon, Skip, Error, kubevirt, guest, SafetyInv, TypeOK, Node
<1>6. CASE DrainNode
  BY <1>6 DEF DrainNode, Skip, kubevirt, guest, SafetyInv, TypeOK, Node
<1>7. CASE DeleteVMI
  BY <1>7 DEF DeleteVMI, Goto, Skip, Error, kubevirt, guest
<1>8. CASE Save
  <2>1. km.cordoned => km'.cordoned
    <3>1. ApplyDiff(km, before, mem).cordoned =
              (IF mem.cordoned # before.cordoned THEN mem.cordoned ELSE km.cordoned)
      BY DEF ApplyDiff
    <3>2. mem.cordoned \in BOOLEAN /\ before.cordoned \in BOOLEAN
      BY DEF SafetyInv, TypeOK, Annotations
    <3>3. km.cordoned => ApplyDiff(km, before, mem).cordoned
      BY <3>1, <3>2, Zenon DEF SafetyInv, SnapshotIsHarmless
    <3> QED
      BY <1>8, <3>3 DEF Save
  <2> QED
    BY <1>8, <2>1 DEF Save, kubevirt, guest
<1>9. CASE Crash \/ SyncCache
  BY <1>9 DEF Crash, SyncCache, kubevirt, guest
<1>10. CASE Tick
  <2>1. km'.cordoned = km.cordoned
    BY <1>10 DEF Tick, Age, SafetyInv, TypeOK, Annotations
  <2> QED
    BY <1>10, <2>1 DEF Tick, kubevirt, guest
<1>11. CASE KubeVirt
  <2>1. UNCHANGED km /\ (evicted' => evicted)
    BY <1>11 DEF KubeVirt, Evacuate, ClearEvacuation, StartMigration, FinishMigration,
       AbandonMigration, KillVMI, VMIGone, RecreateVMI, BootVMI, InfraStep
  <2>2. node.exists => node' = node
    BY <1>11 DEF KubeVirt, Evacuate, ClearEvacuation, StartMigration, FinishMigration,
       AbandonMigration, KillVMI, VMIGone, RecreateVMI, BootVMI, InfraStep, guest
  <2> QED
    BY <2>1, <2>2
<1>12. CASE Guest
  <2>1. UNCHANGED <<km, evicted>>
    BY <1>12 DEF Guest, SchedulePods, AdminCordon, AdminDeletesNode, GuestStep, kubevirt
  <2>2. ~Uncordons
    BY <1>12 DEF Guest, SchedulePods, AdminCordon, AdminDeletesNode, NoNode
  <2> QED
    BY <2>1, <2>2
<1> QED
  BY <1>1, <1>2, <1>3, <1>4, <1>5, <1>6, <1>7, <1>8, <1>9, <1>10, <1>11, <1>12
     DEF Next, Controller

\* From the deletion of the VMI until it is recreated, CAPK never makes the
\* guest node schedulable (DrainNodeIfNeeded's DeletionTimestamp check).
THEOREM StaysCordoned == Spec => NodeStaysCordonedUntilVMIIsBack
<1>1. SafetyInv /\ [Next]_vars => [Uncordons => ~evicted]_vars
  BY WhoDoesWhat DEF SafetyInv, CallIsJustified
<1> QED
  BY <1>1, SafetyInvariant, PTL DEF Spec, NodeStaysCordonedUntilVMIIsBack

\* CAPK deletes the VMI it decided about only once the guest node is empty or a
\* deadline has passed, whatever was read from a stale cache, whichever calls
\* failed and wherever the controller was restarted.
THEOREM NoEarlyDelete == Spec => DrainedOrTimedOut
<1>1. SafetyInv /\ [Next]_vars =>
          [Evicts /\ sameVMI => ~node.pods \/ mem.grace = 0]_vars
  BY WhoDoesWhat DEF SafetyInv, CallIsJustified, CordonIsReal
<1> QED
  BY <1>1, SafetyInvariant, PTL DEF Spec, DrainedOrTimedOut

\* No step, not even the deferred patch computed from a stale snapshot, removes
\* the node-cordoned annotation while CAPK's cordon is in place.
THEOREM MarkerKept == Spec => MarkerOutlivesCordon
<1>1. SafetyInv /\ [Next]_vars => [km.cordoned /\ ~km'.cordoned => ~capkCordon']_vars
  BY WhoDoesWhat DEF SafetyInv, CallIsJustified
<1> QED
  BY <1>1, SafetyInvariant, PTL DEF Spec, MarkerOutlivesCordon

-----------------------------------------------------------------------------
(* The refinement.                                                          *)

\* A step that leaves the node and the eviction alone writes the marker, removes
\* it, or only lets time pass.
LEMMA MarkerStep ==
    ASSUME SafetyInv, SafetyInv', UNCHANGED <<evicted, node, capkCordon>>,
           km.cordoned /\ ~km'.cordoned => ~capkCordon
    PROVE  Contract!ContractNext
<1>1. km.cordoned \in BOOLEAN /\ km'.cordoned \in BOOLEAN
  BY DEF SafetyInv, TypeOK, Annotations
<1>2. UNCHANGED CordonSeen
  BY DEF CordonSeen
<1>3. CASE km'.cordoned = km.cordoned
  BY <1>2, <1>3 DEF Contract!ContractNext, Contract!TimePasses
<1>4. CASE ~km.cordoned /\ km'.cordoned
  BY <1>1, <1>2, <1>4 DEF Contract!ContractNext, Contract!Mark
<1>5. CASE km.cordoned /\ ~km'.cordoned
  <2>1. CordonSeen # "capk"
    BY <1>5 DEF CordonSeen
  <2> QED
    BY <1>1, <1>2, <1>5, <2>1 DEF Contract!ContractNext, Contract!Unmark
<1> QED
  BY <1>1, <1>3, <1>4, <1>5

\* Every step of the eviction is a step of the contract, or none.
LEMMA NextImplementsContract ==
    ASSUME SafetyInv, SafetyInv', [Next]_vars
    PROVE  [Contract!ContractNext]_(Contract!contractVars)
<1> DEFINE Quiet == UNCHANGED <<evicted, node, capkCordon>>
<1>a. ASSUME Next, Quiet PROVE Contract!ContractNext
  <2>1. km.cordoned /\ ~km'.cordoned => ~capkCordon
    BY <1>a, WhoDoesWhat DEF SafetyInv, CallIsJustified
  <2> QED
    BY <1>a, <2>1, MarkerStep
<1>b. CASE UNCHANGED vars
  BY <1>b DEF vars, Contract!contractVars, CordonSeen
<1>1. CASE StartReconcile \/ AwaitMigration \/ Settle \/ Migrated \/ Fallback
           \/ CheckGracePeriod \/ SetMigrationSubmittedAnnotation \/ CreateMigration
           \/ SetNodeCordonedAnnotation \/ RemoveGracePeriodAnnotation
           \/ RemoveNodeCordonedAnnotation
  <2>1. Quiet
    BY <1>1 DEF StartReconcile, AwaitMigration, Settle, Migrated, Fallback,
       CheckGracePeriod, SetMigrationSubmittedAnnotation, CreateMigration,
       SetNodeCordonedAnnotation, RemoveGracePeriodAnnotation,
       RemoveNodeCordonedAnnotation, CleanupMigrationAnnotations,
       DrainGracePeriodExceeded, Patch, Skip, Error, kubevirt, guest
  <2> QED
    BY <1>1, <2>1, <1>a DEF Next, Controller
<1>2. CASE Save \/ Crash \/ SyncCache \/ Tick
  <2>1. Quiet
    BY <1>2 DEF Save, Crash, SyncCache, Tick, kubevirt, guest
  <2> QED
    BY <1>2, <2>1, <1>a DEF Next, Controller
<1>3. CASE UncordonNodeIfNeeded
  <2>1. CASE Skip("save") \/ Skip("removeCordoned") \/ Error("save")
    <3>1. Quiet
      BY <2>1 DEF Skip, Error, kubevirt, guest
    <3> QED
      BY <1>3, <3>1, <1>a DEF Next, Controller
  <2>2. CASE /\ node' = [node EXCEPT !.unschedulable = FALSE]
             /\ capkCordon' = FALSE
             /\ Goto("removeCordoned")
             /\ UNCHANGED <<km, cache, mem, kubevirt, failures>>
    <3>1. ~evicted
      BY <1>3 DEF UncordonNodeIfNeeded, SafetyInv, CallIsJustified
    <3>2. ~node'.unschedulable /\ node'.pods = node.pods
      BY <2>2 DEF SafetyInv, TypeOK, Node
    <3>3. CordonSeen' = "none"
      BY <2>2, <3>2 DEF CordonSeen
    <3> QED
      BY <2>2, <3>1, <3>2, <3>3 DEF Contract!ContractNext, Contract!UncordonNode, Goto, kubevirt
  <2> QED
    BY <1>3, <2>1, <2>2 DEF UncordonNodeIfNeeded
<1>4. CASE Cordon
  <2>1. CASE Skip("deleteVMI") \/ Error("save")
    <3>1. Quiet
      BY <2>1 DEF Skip, Error, kubevirt, guest
    <3> QED
      BY <1>4, <3>1, <1>a DEF Next, Controller
  <2>2. CASE /\ node' = [node EXCEPT !.unschedulable = TRUE]
             /\ capkCordon' = (capkCordon \/ ~node.unschedulable)
             /\ Goto("setCordoned")
             /\ UNCHANGED <<km, cache, mem, kubevirt, failures>>
    <3>1. node'.unschedulable /\ node'.pods = node.pods
      BY <2>2 DEF SafetyInv, TypeOK, Node
    <3>2. CordonSeen' = (IF CordonSeen = "none" THEN "capk" ELSE CordonSeen)
      BY <2>2, <3>1 DEF CordonSeen
    <3> QED
      BY <2>2, <3>1, <3>2 DEF Contract!ContractNext, Contract!CordonNode, Goto, kubevirt
  <2> QED
    BY <1>4, <2>1, <2>2 DEF Cordon
<1>5. CASE DrainNode
  <2>1. CASE Skip("save")
    <3>1. Quiet
      BY <2>1 DEF Skip, kubevirt, guest
    <3> QED
      BY <1>5, <3>1, <1>a DEF Next, Controller
  <2>2. CASE /\ node' = [node EXCEPT !.pods = FALSE]
             /\ Goto("deleteVMI")
             /\ UNCHANGED <<km, cache, mem, kubevirt, capkCordon, failures>>
    <3>1. node'.unschedulable = node.unschedulable /\ node'.pods = FALSE
      BY <2>2 DEF SafetyInv, TypeOK, Node
    <3>2. UNCHANGED CordonSeen
      BY <2>2, <3>1 DEF CordonSeen
    <3> QED
      BY <2>2, <3>1, <3>2 DEF Contract!ContractNext, Contract!EmptyNode, Goto, kubevirt
  <2> QED
    BY <1>5, <2>1, <2>2 DEF DrainNode
<1>6. CASE DeleteVMI
  <2>1. CASE Skip("save") \/ Error("save")
    <3>1. Quiet
      BY <2>1 DEF Skip, Error, kubevirt, guest
    <3> QED
      BY <1>6, <3>1, <1>a DEF Next, Controller
  <2>2. CASE /\ evicted' = TRUE
             /\ Goto("removeGrace")
             /\ UNCHANGED <<km, cache, mem, migrations, guest, failures>>
    <3>1. ~node.pods \/ ~sameVMI \/ mem.grace = 0
      BY <1>6 DEF DeleteVMI, SafetyInv, CallIsJustified, CordonIsReal
    <3>2. UNCHANGED CordonSeen
      BY <2>2 DEF CordonSeen, guest
    <3> QED
      BY <2>2, <3>1, <3>2 DEF Contract!ContractNext, Contract!TakeAway, Goto, guest
  <2> QED
    BY <1>6, <2>1, <2>2 DEF DeleteVMI
<1>7. CASE KubeVirt
  <2>1. CASE Evacuate \/ ClearEvacuation \/ StartMigration \/ FinishMigration
             \/ AbandonMigration \/ KillVMI \/ VMIGone
    <3>1. Quiet
      BY <2>1 DEF Evacuate, ClearEvacuation, StartMigration, FinishMigration,
         AbandonMigration, KillVMI, VMIGone, InfraStep, guest
    <3> QED
      BY <1>7, <3>1, <1>a DEF Next
  <2>2. CASE RecreateVMI
    <3>1. UNCHANGED CordonSeen
      BY <2>2 DEF RecreateVMI, InfraStep, guest, CordonSeen
    <3> QED
      BY <2>2, <3>1 DEF RecreateVMI, InfraStep, controller, guest,
         Contract!ContractNext, Contract!BringBack
  <2>3. CASE BootVMI /\ node.exists
    <3>1. Quiet
      BY <2>3 DEF BootVMI
    <3> QED
      BY <1>7, <3>1, <1>a DEF Next
  <2>4. CASE BootVMI /\ ~node.exists
    <3>1. ~node'.unschedulable /\ node'.pods = FALSE /\ ~capkCordon'
      BY <2>4 DEF BootVMI, NoNode, SafetyInv, CordonIsReal
    <3>2. CordonSeen' = "none"
      BY <3>1 DEF CordonSeen
    <3> QED
      BY <2>4, <3>1, <3>2 DEF BootVMI, controller, Contract!ContractNext, Contract!ReplaceNode
  <2> QED
    BY <1>7, <2>1, <2>2, <2>3, <2>4 DEF KubeVirt
<1>8. CASE Guest
  <2>1. CASE SchedulePods
    <3>1. node'.unschedulable = node.unschedulable /\ node'.pods = TRUE
      BY <2>1 DEF SchedulePods, SafetyInv, TypeOK, Node
    <3>2. CordonSeen = "none" /\ UNCHANGED CordonSeen
      BY <2>1, <3>1 DEF SchedulePods, SafetyInv, CordonIsReal, CordonSeen
    <3> QED
      BY <2>1, <3>1, <3>2 DEF SchedulePods, GuestStep, controller, kubevirt,
         Contract!ContractNext, Contract!UsePod
  <2>2. CASE AdminCordon
    <3>1. node'.unschedulable /\ node'.pods = node.pods
      BY <2>2 DEF AdminCordon, SafetyInv, TypeOK, Node
    <3>2. CordonSeen = "none" /\ CordonSeen' = "other"
      BY <2>2, <3>1 DEF AdminCordon, SafetyInv, CordonIsReal, CordonSeen
    <3> QED
      BY <2>2, <3>1, <3>2 DEF AdminCordon, GuestStep, controller, kubevirt,
         Contract!ContractNext, Contract!OtherCordon
  <2>3. CASE AdminDeletesNode
    <3>1. ~node'.unschedulable /\ node'.pods = FALSE /\ ~capkCordon'
      BY <2>3 DEF AdminDeletesNode, NoNode
    <3>2. CordonSeen' = "none"
      BY <3>1 DEF CordonSeen
    <3> QED
      BY <2>3, <3>1, <3>2 DEF AdminDeletesNode, GuestStep, controller, kubevirt,
         Contract!ContractNext, Contract!ReplaceNode
  <2> QED
    BY <1>8, <2>1, <2>2, <2>3 DEF Guest
<1> QED
  BY <1>b, <1>1, <1>2, <1>3, <1>4, <1>5, <1>6, <1>7, <1>8 DEF Next, Controller

\* DrainNodeIfNeeded, whatever fails, crashes or is stale, implements what
\* EvictionContract promises to the users of the node.
THEOREM ContractKept == Spec => EvictionImplementsContract
<1>1. Init => Contract!ContractInit
  BY DEF Init, Contract!ContractInit, CordonSeen, NoAnnotations
<1>2. SafetyInv /\ SafetyInv' /\ [Next]_vars
          => [Contract!ContractNext]_(Contract!contractVars)
  BY NextImplementsContract
<1> QED
  BY <1>1, <1>2, SafetyInvariant, PTL
     DEF Spec, EvictionImplementsContract, Contract!ContractSpec
=============================================================================
