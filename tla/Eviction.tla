------------------------------ MODULE Eviction ------------------------------
(***************************************************************************)
(* Eviction of one guest node: Machine.DrainNodeIfNeeded and everything it *)
(* calls (pkg/kubevirt/machine.go), run by the KubevirtMachine controller. *)
(*                                                                         *)
(* KubeVirt marks a VMI for evacuation when its infra host is drained.     *)
(* CAPK then live-migrates the VMI if it can; otherwise it cordons and     *)
(* drains the guest node and deletes the VMI, so that the VM controller    *)
(* recreates it on another host; when the VMI is back it uncordons the     *)
(* node.  The only memory CAPK has between two reconciles is three         *)
(* annotations of the KubevirtMachine.                                     *)
(*                                                                         *)
(* One step of this module is one API call of the controller (with the     *)
(* local code up to the next call), because the process may die, and the   *)
(* call may fail, between any two of them.                                 *)
(*                                                                         *)
(* Abstractions:                                                           *)
(*  - one KubevirtMachine; the work queue never runs two reconciles of the *)
(*    same key at once, so there is one reconcile in progress at most;     *)
(*  - a deadline is the number of clock ticks left until it passes;        *)
(*  - a node name is what the code compares: moved says that NodeName      *)
(*    differs from EvacuationNodeName;                                     *)
(*  - the parts of the reconcile before and after DrainNodeIfNeeded touch  *)
(*    none of this state; only their early returns (the VMI is not ready   *)
(*    or has no address) and the deferred patch of the object matter.      *)
(***************************************************************************)
EXTENDS Integers

CONSTANTS
    GracePeriod,    \* vmiDeleteGraceTimeoutDurationSeconds, in ticks
    MaxFailures,    \* bound: API errors and crashes of the controller
    MaxMigrations,  \* bound: migration CRs counted ("this many or more")
    DecodeKeeps,    \* what decoding a patch response may do: see Decode
    Disruptions     \* bound: the outside events that an instance considers

ASSUME GracePeriodAssumption == GracePeriod \in Nat \ {0}
ASSUME MaxFailuresAssumption == MaxFailures \in Nat
ASSUME MaxMigrationsAssumption == MaxMigrations \in Nat \ {0}
ASSUME DecodeKeepsAssumption == DecodeKeeps \in (SUBSET BOOLEAN) \ {{}}

ASSUME DisruptionsAssumption ==
    Disruptions \subseteq {"kill", "callOff", "abandon", "adminCordon", "adminDelete"}

VARIABLES
    km,         \* annotations of the KubevirtMachine on the API server
    cache,      \* the informer's copy that the controller reads
    pc,         \* the API call the reconcile makes next, or "idle"
    mem,        \* annotations of the reconcile's in-memory object
    before,     \* the patch helper's snapshot of the object as read
    vmi,        \* the VirtualMachineInstance in the infra cluster
    sameVMI,    \* history: vmi is still the instance that the reconcile read
    evicted,    \* history: CAPK deleted this VMI and it is not yet recreated
    migrations, \* VirtualMachineInstanceMigrations KubeVirt has not started
    node,       \* the guest Node in the workload cluster
    capkCordon, \* history: the node is unschedulable because CAPK cordoned it
    failures    \* API errors and crashes so far

controller == <<pc, mem, before>>
kubevirt == <<vmi, evicted, migrations>>
guest == <<node, capkCordon>>
vars == <<km, cache, pc, mem, before, vmi, sameVMI, evicted, migrations,
          node, capkCordon, failures>>

-----------------------------------------------------------------------------
(* The annotations.                                                         *)

NoGrace == -1      \* vmi-deletion-grace-time is absent
BadGrace == -2     \* it is there and does not parse as a time

GraceTime == {NoGrace, BadGrace} \cup 0..GracePeriod

\* grace: VmiDeletionGraceTime, submitted: VmiMigrationSubmitted,
\* cordoned: NodeCordonedByCapk
Annotations == [grace : GraceTime, submitted : BOOLEAN, cordoned : BOOLEAN]

NoAnnotations == [grace |-> NoGrace, submitted |-> FALSE, cordoned |-> FALSE]

\* The in-memory object after a patch whose response is s.  The response is
\* decoded over the object passed to Patch.  JSON decoding into a map that
\* holds entries adds and overwrites but removes none (keep); a client that
\* clears the object first makes it equal to the response.
Decode(old, s, keep) ==
    IF keep
    THEN [grace     |-> IF s.grace # NoGrace THEN s.grace ELSE old.grace,
          submitted |-> s.submitted \/ old.submitted,
          cordoned  |-> s.cordoned \/ old.cordoned]
    ELSE s

\* The merge patch of the patch helper: what differs between the snapshot b
\* and the in-memory object m is written to s.
ApplyDiff(s, b, m) ==
    [grace     |-> IF m.grace # b.grace THEN m.grace ELSE s.grace,
     submitted |-> IF m.submitted # b.submitted THEN m.submitted ELSE s.submitted,
     cordoned  |-> IF m.cordoned # b.cordoned THEN m.cordoned ELSE s.cordoned]

\* One tick nearer to the deadline.
Age(a) == [a EXCEPT !.grace = IF @ > 0 THEN @ - 1 ELSE @]

-----------------------------------------------------------------------------
(* The VMI and the guest node.                                              *)

\* external: EvictionStrategy is External; evac: EvacuationNodeName is set;
\* moved: NodeName differs from it; mig: Status.MigrationState
VMI == [phase      : {"absent", "booting", "running", "terminating"},
        external   : BOOLEAN,
        migratable : BOOLEAN,
        evac       : BOOLEAN,
        moved      : BOOLEAN,
        mig        : {"none", "running", "completed", "failed"}]

Node == [exists : BOOLEAN, unschedulable : BOOLEAN, pods : BOOLEAN]

NoNode == [exists |-> FALSE, unschedulable |-> FALSE, pods |-> FALSE]

FreshVMI(external, migratable) ==
    [phase |-> "booting", external |-> external, migratable |-> migratable,
     evac |-> FALSE, moved |-> FALSE, mig |-> "none"]

\* Machine.shouldGracefulDeleteVMI
shouldGracefulDeleteVMI(v) ==
    /\ v.phase # "terminating"
    /\ v.external
    /\ v.evac

Steps == {"idle", "settle", "terminating", "uncordon", "removeCordoned",
          "migrating", "createMigration", "setSubmitted", "migrated", "fallback",
          "gracePeriod", "cordon", "setCordoned", "drain", "deleteVMI",
          "removeGrace", "save"}

\* Machine.tryMigrateVMI: what it does about a VMI v, given the annotations a.
tryMigrateVMI(v, a) ==
    IF v.moved THEN "migrated"
    ELSE IF v.mig = "failed" THEN "fallback"
    ELSE IF v.mig = "running" THEN "migrating"
    ELSE IF a.submitted THEN "save" ELSE "createMigration"

\* Mutant: a VMI that is being deleted counts as back.
FirstCallIgnoresDeletion(v, a) ==
    IF ~shouldGracefulDeleteVMI(v) THEN "settle"
    ELSE IF v.migratable THEN tryMigrateVMI(v, a)
    ELSE "gracePeriod"

\* Machine.DrainNodeIfNeeded: the first call it makes.
FirstCall(v, a) ==
    IF v.phase = "terminating" THEN "terminating"
    ELSE IF ~shouldGracefulDeleteVMI(v) THEN "settle"
    ELSE IF v.migratable THEN tryMigrateVMI(v, a)
    ELSE "gracePeriod"

\* The VMI runs on a healthy host; the object may carry a grace time that a
\* user wrote by hand.
Init ==
    /\ \E g \in {NoGrace, BadGrace} : km = [NoAnnotations EXCEPT !.grace = g]
    /\ cache = km
    /\ pc = "idle" /\ mem = NoAnnotations /\ before = NoAnnotations
    /\ \E external, migratable \in BOOLEAN :
           vmi = [FreshVMI(external, migratable) EXCEPT !.phase = "running"]
    /\ sameVMI = FALSE /\ evicted = FALSE /\ migrations = 0
    /\ node = [exists |-> TRUE, unschedulable |-> FALSE, pods |-> TRUE]
    /\ capkCordon = FALSE
    /\ failures = 0

-----------------------------------------------------------------------------
(* The calls a reconcile makes.                                             *)

Goto(step) ==
    /\ pc' = step
    /\ UNCHANGED <<before, sameVMI>>

\* mgmtClient.Patch: the server's annotations become s, and the response is
\* decoded into the object in memory.
Patch(s, next) ==
    /\ km' = s
    /\ \E keep \in DecodeKeeps : mem' = Decode(mem, s, keep)
    /\ Goto(next)
    /\ UNCHANGED <<cache, kubevirt, guest, failures>>

\* No call is needed.
Skip(next) ==
    /\ Goto(next)
    /\ UNCHANGED <<km, cache, mem, kubevirt, guest, failures>>

\* The call returns an error and had no effect; the code goes on at next.
Error(next) ==
    /\ failures < MaxFailures
    /\ failures' = failures + 1
    /\ Goto(next)
    /\ UNCHANGED <<km, cache, mem, kubevirt, guest>>

\* Mutant: the patch drops every annotation of CAPK.
CleanupAllAnnotations(next) ==
    \/ Patch(NoAnnotations, next)
    \/ Error("save")

\* Machine.cleanupMigrationAnnotations, skipped when the in-memory object has
\* neither annotation.
CleanupMigrationAnnotations(next) ==
    \/ /\ ~mem.submitted /\ mem.grace = NoGrace
       /\ Skip(next)
    \/ /\ mem.submitted \/ mem.grace # NoGrace
       /\ \/ Patch([km EXCEPT !.submitted = FALSE, !.grace = NoGrace], next)
          \/ Error("save")

\* Mutant: a missing deadline is not recorded.
DeadlineNotRecorded(ifExceeded, ifNot) ==
    \/ /\ mem.grace = 0
       /\ Skip(ifExceeded)
    \/ /\ mem.grace # 0
       /\ Skip(ifNot)

\* Mutant: the deadline is a tick too late.
DeadlineTooLate(ifExceeded, ifNot) ==
    \/ /\ mem.grace = 0
       /\ Skip(ifExceeded)
    \/ /\ mem.grace > 0
       /\ Skip(ifNot)
    \/ /\ mem.grace \in {NoGrace, BadGrace}
       /\ Patch([km EXCEPT !.grace = GracePeriod + 1], ifNot)

\* Machine.drainGracePeriodExceeded: a missing or malformed deadline is
\* written anew and has not passed.
DrainGracePeriodExceeded(ifExceeded, ifNot) ==
    \/ /\ mem.grace = 0
       /\ Skip(ifExceeded)
    \/ /\ mem.grace > 0
       /\ Skip(ifNot)
    \/ /\ mem.grace \in {NoGrace, BadGrace}
       /\ \/ Patch([km EXCEPT !.grace = GracePeriod], ifNot)
          \/ Error("save")

-----------------------------------------------------------------------------
(* The reconcile, up to and through DrainNodeIfNeeded.                      *)

\* Reconcile reads the KubevirtMachine from the cache and the VMI from the
\* infra cluster.  A VMI that is not Ready, or has no address, ends the
\* reconcile; one that is being deleted may still report both.
StartReconcile ==
    /\ pc = "idle"
    /\ vmi.phase \in {"running", "terminating"}
    /\ mem' = cache /\ before' = cache
    /\ sameVMI' = TRUE
    /\ pc' = FirstCall(vmi, cache)
    /\ UNCHANGED <<km, cache, kubevirt, guest, failures>>

\* Mutant: the annotations of a finished eviction are left behind.
SettleWithoutCleanup ==
    \/ /\ pc = "settle"
       /\ Skip("uncordon")
    \/ /\ pc = "terminating"
       /\ Skip("save")

\* No eviction is going on: forget the migration and the deadline, and
\* uncordon only if the VMI is back and not being deleted.
Settle ==
    \/ /\ pc = "settle"
       /\ CleanupMigrationAnnotations("uncordon")
    \/ /\ pc = "terminating"
       /\ CleanupMigrationAnnotations("save")

\* Mutant: the annotation is removed before the node is uncordoned.
UnmarkBeforeUncordon ==
    /\ pc = "uncordon"
    /\ \/ ~mem.cordoned /\ Skip("save")
       \/ mem.cordoned /\ Patch([km EXCEPT !.cordoned = FALSE], "save")

\* Machine.uncordonNodeIfNeeded, up to the removal of the annotation
UncordonNodeIfNeeded ==
    /\ pc = "uncordon"
    /\ \/ /\ ~mem.cordoned
          /\ Skip("save")
       \/ /\ mem.cordoned
          /\ ~node.exists \/ ~node.unschedulable
          /\ Skip("removeCordoned")
       \/ /\ mem.cordoned /\ node.exists /\ node.unschedulable
          /\ node' = [node EXCEPT !.unschedulable = FALSE]
          /\ capkCordon' = FALSE
          /\ Goto("removeCordoned")
          /\ UNCHANGED <<km, cache, mem, kubevirt, failures>>
       \/ /\ mem.cordoned
          /\ Error("save")

\* Machine.removeNodeCordonedAnnotation: a JSON patch "remove", which the
\* server rejects when there is nothing to remove.
RemoveNodeCordonedAnnotation ==
    /\ pc = "removeCordoned"
    /\ \/ /\ km.cordoned
          /\ Patch([km EXCEPT !.cordoned = FALSE], "save")
       \/ /\ ~km.cordoned
          /\ Skip("save")
       \/ Error("save")

\* The migration runs: wait for it until the grace period has passed.
AwaitMigration ==
    /\ pc = "migrating"
    /\ DrainGracePeriodExceeded("fallback", "save")

\* Create a migration.  KubeVirt may reject a second migration of a VMI; any
\* error leads to the drain.
CreateMigration ==
    /\ pc = "createMigration"
    /\ \/ /\ migrations' = IF migrations < MaxMigrations THEN migrations + 1
                                                         ELSE migrations
          /\ Goto("setSubmitted")
          /\ UNCHANGED <<km, cache, mem, vmi, evicted, guest, failures>>
       \/ /\ migrations > 0 \/ vmi.mig = "running"
          /\ Skip("fallback")
       \/ Error("fallback")

\* Machine.setMigrationSubmittedAnnotation
SetMigrationSubmittedAnnotation ==
    /\ pc = "setSubmitted"
    /\ \/ Patch([km EXCEPT !.submitted = TRUE], "save")
       \/ Error("save")

\* The VMI has moved: nothing is left to do for this eviction.
Migrated ==
    /\ pc = "migrated"
    /\ CleanupMigrationAnnotations("save")

\* The migration failed, timed out or could not be created.
Fallback ==
    /\ pc = "fallback"
    /\ CleanupMigrationAnnotations("gracePeriod")

\* Drain the node unless the grace period has passed.
CheckGracePeriod ==
    /\ pc = "gracePeriod"
    /\ DrainGracePeriodExceeded("deleteVMI", "cordon")

\* Machine.drainNode: look the node up and cordon it.  A node that does not
\* exist counts as drained.
Cordon ==
    /\ pc = "cordon"
    /\ \/ /\ ~node.exists
          /\ Skip("deleteVMI")
       \/ /\ node.exists
          /\ node' = [node EXCEPT !.unschedulable = TRUE]
          /\ capkCordon' = (capkCordon \/ ~node.unschedulable)
          /\ Goto("setCordoned")
          /\ UNCHANGED <<km, cache, mem, kubevirt, failures>>
       \/ Error("save")

\* Mutant: the cordon is not recorded.
CordonNotRecorded ==
    /\ pc = "setCordoned"
    /\ Skip("drain")

\* Machine.setNodeCordonedAnnotation
SetNodeCordonedAnnotation ==
    /\ pc = "setCordoned"
    /\ \/ Patch([km EXCEPT !.cordoned = TRUE], "drain")
       \/ Error("save")

\* Mutant: a drain that gave up is taken for done.
DrainNotRetried ==
    /\ pc = "drain"
    /\ \/ /\ node' = [node EXCEPT !.pods = FALSE]
          /\ Goto("deleteVMI")
          /\ UNCHANGED <<km, cache, mem, kubevirt, capkCordon, failures>>
       \/ Skip("deleteVMI")

\* kubedrain.RunNodeDrain: evicts every pod, or gives up (a disruption budget,
\* a pod that does not terminate, an API error) and is retried by a later
\* reconcile.
DrainNode ==
    /\ pc = "drain"
    /\ \/ /\ node' = [node EXCEPT !.pods = FALSE]
          /\ Goto("deleteVMI")
          /\ UNCHANGED <<km, cache, mem, kubevirt, capkCordon, failures>>
       \/ Skip("save")

\* The VMI is deleted by name: whatever VMI has the name now.
DeleteVMI ==
    /\ pc = "deleteVMI"
    /\ \/ /\ vmi.phase # "absent"
          /\ vmi' = [vmi EXCEPT !.phase = "terminating"]
          /\ evicted' = TRUE
          /\ Goto("removeGrace")
          /\ UNCHANGED <<km, cache, mem, migrations, guest, failures>>
       \/ /\ vmi.phase = "absent"
          /\ Skip("save")
       \/ Error("save")

\* Machine.removeGracePeriodAnnotation: a JSON patch "remove", as above.
RemoveGracePeriodAnnotation ==
    /\ pc = "removeGrace"
    /\ \/ /\ km.grace # NoGrace
          /\ Patch([km EXCEPT !.grace = NoGrace], "save")
       \/ /\ km.grace = NoGrace
          /\ Skip("save")
       \/ Error("save")

EndReconcile ==
    /\ pc' = "idle"
    /\ mem' = NoAnnotations /\ before' = NoAnnotations
    /\ sameVMI' = FALSE

\* The deferred PatchKubevirtMachine of Reconcile
Save ==
    /\ pc = "save"
    /\ \/ /\ km' = ApplyDiff(km, before, mem)
          /\ UNCHANGED failures
       \/ /\ failures < MaxFailures
          /\ failures' = failures + 1
          /\ UNCHANGED km
    /\ EndReconcile
    /\ UNCHANGED <<cache, kubevirt, guest>>

\* The controller's process dies and is restarted.
Crash ==
    /\ pc # "idle"
    /\ failures < MaxFailures
    /\ failures' = failures + 1
    /\ EndReconcile
    /\ UNCHANGED <<km, cache, kubevirt, guest>>

Controller ==
    \/ StartReconcile \/ Settle \/ UncordonNodeIfNeeded
    \/ RemoveNodeCordonedAnnotation \/ AwaitMigration \/ CreateMigration
    \/ SetMigrationSubmittedAnnotation \/ Migrated \/ Fallback
    \/ CheckGracePeriod \/ Cordon \/ SetNodeCordonedAnnotation \/ DrainNode
    \/ DeleteVMI \/ RemoveGracePeriodAnnotation \/ Save

-----------------------------------------------------------------------------
(* The informer and the clock.                                              *)

\* The watch brings the cache up to date with the API server.
SyncCache ==
    /\ cache # km
    /\ cache' = km
    /\ UNCHANGED <<km, controller, kubevirt, sameVMI, guest, failures>>

\* Time passes for every copy of the deadline.
Tick ==
    /\ \E a \in {km, cache, mem, before} : a.grace > 0
    /\ km' = Age(km) /\ cache' = Age(cache)
    /\ mem' = Age(mem) /\ before' = Age(before)
    /\ UNCHANGED <<pc, kubevirt, sameVMI, guest, failures>>

-----------------------------------------------------------------------------
(* KubeVirt, as far as the controller sees it.                              *)

InfraStep == UNCHANGED <<km, cache, controller, guest, failures>>

\* The infra host is drained: the VMI is marked for evacuation.
Evacuate ==
    /\ vmi.phase = "running" /\ ~vmi.evac
    /\ vmi' = [vmi EXCEPT !.evac = TRUE, !.moved = FALSE]
    /\ InfraStep /\ UNCHANGED <<sameVMI, evicted, migrations>>

\* The mark is removed: the VMI has moved, or the drain was called off.
ClearEvacuation ==
    /\ vmi.phase = "running" /\ vmi.evac
    /\ vmi.moved \/ "callOff" \in Disruptions
    /\ vmi' = [vmi EXCEPT !.evac = FALSE, !.moved = FALSE]
    /\ InfraStep /\ UNCHANGED <<sameVMI, evicted, migrations>>

StartMigration ==
    /\ vmi.phase = "running" /\ vmi.mig # "running" /\ migrations > 0
    /\ vmi' = [vmi EXCEPT !.mig = "running"]
    /\ migrations' = migrations - 1
    /\ InfraStep /\ UNCHANGED <<sameVMI, evicted>>

FinishMigration ==
    /\ vmi.phase = "running" /\ vmi.mig = "running"
    /\ \/ vmi' = [vmi EXCEPT !.mig = "completed", !.moved = vmi.evac]
       \/ vmi' = [vmi EXCEPT !.mig = "failed"]
    /\ InfraStep /\ UNCHANGED <<sameVMI, evicted, migrations>>

\* A migration ends before it reaches the VMI's status.
AbandonMigration ==
    /\ "abandon" \in Disruptions
    /\ migrations > 0
    /\ migrations' = migrations - 1
    /\ InfraStep /\ UNCHANGED <<vmi, sameVMI, evicted>>

\* Somebody else deletes the VMI, or it crashes.
KillVMI ==
    /\ "kill" \in Disruptions
    /\ vmi.phase \in {"booting", "running"}
    /\ vmi' = [vmi EXCEPT !.phase = "terminating"]
    /\ InfraStep /\ UNCHANGED <<sameVMI, evicted, migrations>>

VMIGone ==
    /\ vmi.phase = "terminating"
    /\ vmi' = [FreshVMI(vmi.external, vmi.migratable) EXCEPT !.phase = "absent"]
    /\ migrations' = 0
    /\ InfraStep /\ UNCHANGED <<sameVMI, evicted>>

\* The VM controller recreates the VMI.
RecreateVMI ==
    /\ vmi.phase = "absent"
    /\ \E migratable \in BOOLEAN : vmi' = FreshVMI(vmi.external, migratable)
    /\ sameVMI' = FALSE
    /\ evicted' = FALSE
    /\ InfraStep /\ UNCHANGED migrations

\* The guest boots and its kubelet registers the node unless it is there; a
\* node that is there keeps its cordon.
BootVMI ==
    /\ vmi.phase = "booting"
    /\ vmi' = [vmi EXCEPT !.phase = "running"]
    /\ node' = IF node.exists THEN node ELSE [NoNode EXCEPT !.exists = TRUE]
    /\ UNCHANGED <<km, cache, controller, sameVMI, evicted, migrations, capkCordon, failures>>

KubeVirt ==
    \/ Evacuate \/ ClearEvacuation \/ StartMigration \/ FinishMigration
    \/ AbandonMigration \/ KillVMI \/ VMIGone \/ RecreateVMI \/ BootVMI

-----------------------------------------------------------------------------
(* The workload cluster: its scheduler and its administrators.              *)

GuestStep == UNCHANGED <<km, cache, controller, kubevirt, sameVMI, failures>>

SchedulePods ==
    /\ node.exists /\ ~node.unschedulable /\ ~node.pods
    /\ node' = [node EXCEPT !.pods = TRUE]
    /\ GuestStep /\ UNCHANGED capkCordon

AdminCordon ==
    /\ "adminCordon" \in Disruptions
    /\ node.exists /\ ~node.unschedulable
    /\ node' = [node EXCEPT !.unschedulable = TRUE]
    /\ GuestStep /\ UNCHANGED capkCordon

AdminDeletesNode ==
    /\ "adminDelete" \in Disruptions
    /\ node.exists
    /\ node' = NoNode
    /\ capkCordon' = FALSE
    /\ GuestStep

Guest == SchedulePods \/ AdminCordon \/ AdminDeletesNode

Next == Controller \/ Crash \/ SyncCache \/ Tick \/ KubeVirt \/ Guest

Spec == Init /\ [][Next]_vars

\* The work queue hands the key out again after every reconcile (a requeue, a
\* watch event or the resync period) and a reconcile in progress runs on; the
\* watch delivers; time passes; KubeVirt finishes a deletion, recreates the
\* VMI of a running VM and boots it.  Nothing is assumed of migrations, of
\* drains (a disruption budget may block one for ever) or of administrators.
Fairness ==
    /\ WF_vars(Controller)
    /\ WF_vars(SyncCache)
    /\ WF_vars(Tick)
    /\ WF_vars(VMIGone)
    /\ WF_vars(RecreateVMI)
    /\ WF_vars(BootVMI)

FairSpec == Spec /\ Fairness

-----------------------------------------------------------------------------
(* Safety.                                                                  *)

\* Every variable has its type; outside a reconcile the controller remembers
\* nothing (machine.go keeps its state in the three annotations only).
TypeOK ==
    /\ km \in Annotations /\ cache \in Annotations
    /\ mem \in Annotations /\ before \in Annotations
    /\ pc \in Steps
    /\ vmi \in VMI
    /\ sameVMI \in BOOLEAN /\ evicted \in BOOLEAN /\ capkCordon \in BOOLEAN
    /\ migrations \in 0..MaxMigrations
    /\ node \in Node
    /\ failures \in 0..MaxFailures
    /\ pc = "idle" => mem = NoAnnotations /\ before = NoAnnotations

Uncordons == node.exists /\ node.unschedulable /\ node'.exists /\ ~node'.unschedulable

Evicts == ~evicted /\ evicted'

\* "If the VMI is nil (not yet recreated) or still has a DeletionTimestamp, the
\* eviction cycle is not complete and the node must stay cordoned"
\* (DrainNodeIfNeeded): from the deletion of the VMI until it is recreated
\* CAPK does not uncordon the node, whatever fails and however stale its cache.
NodeStaysCordonedUntilVMIIsBack == [][Uncordons => ~evicted]_vars

\* "now, when the node is drained (or vmiDeleteGraceTimeoutDurationSeconds has
\* passed), we can delete the VMI": when CAPK deletes the VMI that it decided
\* to evict, no pod is left on the guest node or a deadline has passed.
DrainedOrTimedOut == [][Evicts /\ sameVMI => ~node.pods \/ mem.grace = 0]_vars

\* The node-cordoned annotation is what makes CAPK uncordon the node later: no
\* step, the deferred patch from a stale snapshot included, removes it from the
\* API server while CAPK's cordon is in place.
MarkerOutlivesCordon == [][km.cordoned /\ ~km'.cordoned => ~capkCordon']_vars

\* What those who use the node see of the state: the refinement mapping.
CordonSeen ==
    IF capkCordon THEN "capk" ELSE IF node.unschedulable THEN "other" ELSE "none"

Contract == INSTANCE EvictionContract WITH
    away <- evicted, cordon <- CordonSeen, marked <- km.cordoned,
    busy <- node.pods, timeUp <- ~sameVMI \/ mem.grace = 0

\* The eviction, with its reconciles, annotations and caches, implements the
\* contract: the VMI goes only from an empty node or when time is up, the node
\* is let free only when the VMI is back, and the marker outlives the cordon.
EvictionImplementsContract == Contract!ContractSpec

\* The inductive invariant behind these properties.  What the controller
\* relies on when it is about to make a call, with m the object in memory:
CallIsJustified(call, m) ==
    /\ call \in {"settle", "uncordon"} => ~evicted
    /\ call = "removeCordoned" => ~capkCordon
    /\ call \in {"setCordoned", "drain"} /\ sameVMI => ~node.exists \/ node.unschedulable
    /\ call = "deleteVMI" /\ sameVMI =>
           m.grace = 0 \/ ~node.exists \/ (node.unschedulable /\ ~node.pods)

EvictedIsDown == evicted => vmi.phase \in {"absent", "terminating"}

ReadVMIHasBooted == sameVMI => vmi.phase # "booting"

CordonIsReal ==
    /\ capkCordon => node.exists /\ node.unschedulable
    /\ ~node.exists => ~node.pods

SnapshotIsHarmless == before.cordoned /\ ~mem.cordoned => ~km.cordoned

SafetyInv ==
    /\ TypeOK
    /\ CallIsJustified(pc, mem)
    /\ EvictedIsDown
    /\ ReadVMIHasBooted
    /\ CordonIsReal
    /\ SnapshotIsHarmless

-----------------------------------------------------------------------------
(* Liveness.                                                                *)

Settled == vmi.phase = "running" /\ ~vmi.evac

\* An eviction of a VMI that cannot migrate ends, blocked drains, API errors
\* and crashes notwithstanding: the VMI is deleted once the grace period has
\* passed (drainGracePeriodExceeded), or the mark is taken back.
EvictionEnds ==
    (vmi.phase = "running" /\ vmi.external /\ vmi.evac /\ ~vmi.migratable)
        ~> (vmi.phase # "running" \/ ~vmi.evac)

\* Once no more evictions happen, the deadline and the migration marker are
\* removed for good (cleanupMigrationAnnotations): no later eviction finds a
\* deadline that was meant for an earlier one.
AnnotationsCleared == <>[]Settled => <>[](km.grace = NoGrace /\ ~km.submitted)

\* NodeCordonedByCapk "is used to uncordon the node after the VMI is recreated
\* on a different host": once no more evictions happen, a node that CAPK
\* cordoned is schedulable again.
CordonReleased == <>[]Settled => <>[](~capkCordon)

\* The same as long as no API call fails and the controller does not crash.
CordonReleasedWithoutFailures == [](failures = 0) => CordonReleased

-----------------------------------------------------------------------------
(* What comments in the code say and the code does not do.                  *)

\* "wait vmiDeleteGraceTimeoutDurationSeconds to the node to be drained. If
\* this time had passed, don't wait anymore": a VMI whose migration failed does
\* not stay for ever.
FailedMigrationEnds ==
    (vmi.phase = "running" /\ vmi.external /\ vmi.evac /\ ~vmi.moved /\ vmi.mig = "failed")
        ~> (vmi.phase # "running" \/ ~vmi.evac \/ vmi.moved \/ vmi.mig # "failed")

\* VmiMigrationSubmitted "prevents duplicate migration creates".
NoDuplicateMigration ==
    migrations + (IF vmi.mig = "running" THEN 1 ELSE 0) <= 1

\* "If the field is not set, there is nothing to do": CAPK deletes only a VMI
\* that is marked for evacuation.
EvictsOnlyMarkedVMI == [][Evicts => vmi.evac]_vars
=============================================================================
