-------------------------- MODULE MachineLifecycle --------------------------
(***************************************************************************)
(* One KubevirtMachine from creation to deletion: Reconcile,               *)
(* reconcileNormal, updateNodeProviderID and reconcileDelete of            *)
(* controllers/kubevirtmachine_controller.go, with the VM and the          *)
(* bootstrap secret they manage in the infra cluster and the Node they     *)
(* patch in the workload cluster.                                          *)
(*                                                                         *)
(* One step is one API call.  The object in memory reaches the API server  *)
(* only through the deferred patch at the end of a reconcile, so a crash   *)
(* or a failed patch forgets what the reconcile decided, but not what it   *)
(* did elsewhere.                                                          *)
(*                                                                         *)
(* Abstractions:                                                           *)
(*  - the infra cluster is the management cluster itself (no secret ref)   *)
(*    or an external one (a secret ref): where a VM is looked for depends  *)
(*    only on that;                                                        *)
(*  - the objects a machine waits for (owner, cluster infrastructure,      *)
(*    bootstrap data, ssh keys) are inputs that appear once;               *)
(*  - the eviction (DrainNodeIfNeeded) is the module Eviction; here it     *)
(*    patches the object (Drain), and lets the reconcile go on or ends it  *)
(*    (HoldUp), as a VMI without a LiveMigratable condition does           *)
(*    (IsLiveMigratable);                                                  *)
(*  - the bootstrap check of a machine (its keys, its CheckStrategy) does  *)
(*    not change;                                                          *)
(*  - the patch helper's calls for one object are one call;                *)
(*  - a VM disappears when its deletion is requested;                      *)
(*  - conditions are left out, but for BootstrapExecSucceeded, which a     *)
(*    later reconcile reads.                                               *)
(***************************************************************************)
EXTENDS Naturals

CONSTANTS
    RefPairs,       \* the machine's and its cluster's InfraClusterSecretRef
    ChecksBootstrap,\* how a guest is asked whether it has bootstrapped
    MaxFailures,    \* bound: API errors and crashes of the controller
    Disruptions     \* bound: the outside events that an instance considers

\* "management": the ref is nil; "external": it names a kubeconfig secret.
Clusters == {"management", "external"}

ASSUME RefPairsAssumption == RefPairs \subseteq Clusters \X Clusters
ASSUME ChecksBootstrapAssumption == ChecksBootstrap \subseteq {"unsupported", "none", "ssh"}
ASSUME MaxFailuresAssumption == MaxFailures \in Nat
ASSUME DisruptionsAssumption ==
    Disruptions \subseteq {"holdUp", "addressLost", "restart", "terminal", "vmLost",
                           "nodeDeleted"}

VARIABLES
    km,          \* the KubevirtMachine on the API server
    cache,       \* the informer's copy that the controller reads
    pc,          \* the API call the reconcile makes next, or "idle"
    mem,         \* the reconcile's in-memory object
    before,      \* the patch helper's snapshot of it
    clusterRef,  \* KubevirtCluster.Spec.InfraClusterSecretRef
    inputs,      \* what the machine waits for and is there
    infra,       \* per infra cluster: the bootstrap secret and the VM
    checks,      \* the bootstrap check: see BootstrapChecks
    booted,      \* the guest's sentinel file: see Booted
    node,        \* the Node in the workload cluster
    failures     \* API errors and crashes so far

controller == <<pc, mem, before>>
world == <<clusterRef, inputs, infra, checks, booted, node>>
vars == <<km, cache, pc, mem, before, clusterRef, inputs, infra, checks,
          booted, node, failures>>

\* cluster: the Cluster and its KubevirtCluster; infrastructure: the Cluster's
\* InfrastructureReady condition
Inputs == {"owner", "cluster", "infrastructure", "bootstrapData", "sshKeys"}

\* finalizer: MachineFinalizer is set; ref: Spec.InfraClusterSecretRef;
\* failed: Status.FailureReason is set; ipKnown: Status.Addresses holds an
\* internal IP; bootstrapped: the BootstrapExecSucceeded condition
Object == [present : BOOLEAN, deleting : BOOLEAN, finalizer : BOOLEAN,
           ref : Clusters, ready : BOOLEAN, failed : BOOLEAN, ipKnown : BOOLEAN,
           bootstrapped : {"unset", "false", "true"},
           providerID : BOOLEAN, nodeUpdated : BOOLEAN]

NewObject(ref) ==
    [present |-> TRUE, deleting |-> FALSE, finalizer |-> FALSE, ref |-> ref,
     ready |-> FALSE, failed |-> FALSE, ipKnown |-> FALSE, bootstrapped |-> "unset",
     providerID |-> FALSE, nodeUpdated |-> FALSE]

NoObject == [NewObject("management") EXCEPT !.present = FALSE]

\* vm: no VM; a VM whose VMI is not ready; ready without an address; ready.
\* terminal: what IsTerminal reports of a VM that is there.
Infra == [Clusters -> [secret : BOOLEAN, terminal : BOOLEAN,
                       vm : {"none", "down", "noIP", "up"}]]

\* Whether the sentinel file that IsBootstrapped looks for is in the guest; it
\* may have been there before the guest was restarted or replaced.
Booted == {"never", "before", "now"}

\* Without CAPK's ssh keys in its user data a guest cannot be asked; with them
\* it is asked as BootstrapCheckSpec.CheckStrategy says.
BootstrapChecks == {"unsupported", "none", "ssh"}

SupportsCheckingIsBootstrapped == checks # "unsupported"

\* The strategy "none" asks nobody and "always returns positively".
IsBootstrapped == checks = "none" \/ booted = "now"

NodeState == {"none", "registered", "hasProviderID"}

Steps == {"idle", "secret", "newMachine", "createVM", "bootstrap", "node", "save",
          "deleteSecret", "deleteVM", "finalize"}

Init ==
    /\ \E p \in RefPairs : km = NewObject(p[1]) /\ clusterRef = p[2]
    /\ cache = km
    /\ pc = "idle" /\ mem = NoObject /\ before = NoObject
    /\ inputs = {}
    /\ infra = [c \in Clusters |-> [secret |-> FALSE, terminal |-> FALSE, vm |-> "none"]]
    /\ checks \in ChecksBootstrap
    /\ booted = "never" /\ node = "none"
    /\ failures = 0

-----------------------------------------------------------------------------
(* Steps of a reconcile.                                                    *)

\* The reconcile goes on at next with the in-memory object m.
Continue(m, next) ==
    /\ pc' = next
    /\ mem' = m
    /\ UNCHANGED <<km, cache, before, clusterRef, inputs, checks, booted>>

\* Mutant: the context of a reconcile is kept for the next one.
ContextReused ==
    /\ pc' = "idle"
    /\ UNCHANGED <<mem, before>>

\* Nothing in memory outlives a reconcile.
EndReconcile ==
    /\ pc' = "idle" /\ mem' = NoObject /\ before' = NoObject

\* The call returns an error and had no effect: the deferred patch still runs.
Error ==
    /\ failures < MaxFailures
    /\ failures' = failures + 1
    /\ Continue(mem, "save")
    /\ UNCHANGED <<infra, node>>

\* An error of reconcileDelete, which has no deferred patch.
DeleteError ==
    /\ failures < MaxFailures
    /\ failures' = failures + 1
    /\ EndReconcile
    /\ UNCHANGED <<km, cache, world>>

\* Mutant: the reconcile that adds the finalizer goes on.
GoOnWithoutFinalizer(o) ==
    IF o.deleting THEN "deleteSecret"
    ELSE IF inputs = Inputs THEN "secret" ELSE "save"

\* Reconcile, reconcileNormal: what they do about the object o that was read.
\* The finalizer is added "first if not exist to avoid the race condition between
\* init and delete".  A machine without bootstrap data waits with a zero Result,
\* after which updateNodeProviderID is called; one without ssh keys does not.
Dispatch(o) ==
    IF o.deleting THEN "deleteSecret"
    ELSE IF ~o.finalizer \/ "infrastructure" \notin inputs THEN "save"
    ELSE IF "bootstrapData" \notin inputs THEN "node"
    ELSE IF "sshKeys" \notin inputs THEN "save"
    ELSE "secret"

\* The object in memory then: the finalizer is added, or the ref defaulted.
Defaulted(o) ==
    IF o.deleting THEN o
    ELSE IF ~o.finalizer THEN [o EXCEPT !.finalizer = TRUE]
    ELSE IF inputs = Inputs /\ o.ref = "management" THEN [o EXCEPT !.ref = clusterRef]
    ELSE o

\* Reconcile up to the first call that changes something.  An object that is
\* gone or has no owner is left alone, and so is one that is not being deleted
\* and whose cluster is not known.
StartReconcile ==
    /\ pc = "idle"
    /\ cache.present /\ "owner" \in inputs
    /\ cache.deleting \/ "cluster" \in inputs
    /\ pc' = Dispatch(cache)
    /\ mem' = Defaulted(cache) /\ before' = cache
    /\ UNCHANGED <<km, cache, world, failures>>

\* reconcileKubevirtBootstrapSecret
ReconcileBootstrapSecret ==
    /\ pc = "secret"
    /\ \/ /\ infra' = [infra EXCEPT ![mem.ref].secret = TRUE]
          /\ Continue(mem, "newMachine")
          /\ UNCHANGED <<node, failures>>
       \/ Error

\* Mutant: a VM that is not ready keeps its readiness.
DownIgnored ==
    /\ pc = "newMachine"
    /\ LET vm == infra[mem.ref].vm IN
           \/ vm = "none" /\ Continue(mem, "createVM")
           \/ vm \in {"down", "noIP"} /\ Continue(mem, "save")
           \/ vm = "up" /\ Continue(mem, "bootstrap")
    /\ UNCHANGED <<infra, node, failures>>

\* NewMachine reads the VM.  FailureReason says whether it is terminal; a
\* machine whose VMI is not ready is not ready, one without an address only if
\* it never had one.
ReadMachine ==
    /\ pc = "newMachine"
    /\ \/ /\ LET vm == infra[mem.ref].vm
                m == [mem EXCEPT !.failed = infra[mem.ref].terminal]
            IN  \/ vm = "none" /\ Continue([m EXCEPT !.ready = FALSE], "createVM")
                \/ vm = "down" /\ Continue([m EXCEPT !.ready = FALSE], "save")
                \/ vm = "noIP" /\ Continue([m EXCEPT !.ready = @ /\ m.ipKnown], "save")
                \/ vm = "up" /\ Continue(m, "bootstrap")
          /\ UNCHANGED <<infra, node, failures>>
       \/ Error

\* Machine.Create
CreateVM ==
    /\ pc = "createVM"
    /\ \/ /\ infra' = [infra EXCEPT ![mem.ref].vm = "down"]
          /\ Continue(mem, "save")
          /\ UNCHANGED <<node, failures>>
       \/ Error

\* The object of a machine that is up: without a bootstrap check a condition
\* that is not set is set to True.
Provisioned(o) ==
    [o EXCEPT !.bootstrapped = IF SupportsCheckingIsBootstrapped \/ @ = "unset"
                               THEN "true" ELSE @,
              !.ipKnown = TRUE, !.providerID = TRUE, !.ready = TRUE]

\* Mutant: a machine that waits for its guest to bootstrap keeps its readiness.
ReadyBeforeBootstrap ==
    /\ pc = "bootstrap"
    /\ Continue(Provisioned(mem), "node")
    /\ UNCHANGED <<infra, node, failures>>

\* The bootstrap check (a condition that is True is not checked again), then
\* the addresses, the provider ID and readiness.  A command over ssh that fails
\* says that the guest has not bootstrapped (IsBootstrappedWithSSH).
CheckBootstrap ==
    /\ pc = "bootstrap"
    /\ \/ /\ SupportsCheckingIsBootstrapped /\ mem.bootstrapped # "true"
          /\ \/ ~IsBootstrapped /\ UNCHANGED failures
             \/ /\ checks = "ssh" /\ failures < MaxFailures
                /\ failures' = failures + 1
          /\ Continue([mem EXCEPT !.bootstrapped = "false", !.ready = FALSE], "save")
       \/ /\ ~SupportsCheckingIsBootstrapped \/ mem.bootstrapped = "true" \/ IsBootstrapped
          /\ Continue(Provisioned(mem), "node")
          /\ UNCHANGED failures
    /\ UNCHANGED <<infra, node>>

\* The object in memory after a patch whose response is s, decoded over the
\* object m that was passed to Patch: what s does not give (nil, empty) stays as
\* it is in m, unless the client library clears m first.
Decode(m, s, keep) ==
    IF ~keep THEN s
    ELSE [s EXCEPT !.finalizer = @ \/ m.finalizer,
                   !.ref = IF @ = "management" THEN m.ref ELSE @,
                   !.failed = @ \/ m.failed, !.ipKnown = @ \/ m.ipKnown,
                   !.bootstrapped = IF @ = "unset" THEN m.bootstrapped ELSE @,
                   !.providerID = @ \/ m.providerID]

\* DrainNodeIfNeeded patches annotations of the object, whose status and spec in
\* memory become the server's.
Drain ==
    /\ "holdUp" \in Disruptions
    /\ pc = "bootstrap" /\ km.present
    /\ \E keep \in BOOLEAN : Continue(Decode(mem, km, keep), "bootstrap")
    /\ UNCHANGED <<infra, node, failures>>

\* DrainNodeIfNeeded holds the reconcile up before the bootstrap check, or
\* IsLiveMigratable does after it.
HoldUp ==
    /\ "holdUp" \in Disruptions
    /\ pc \in {"bootstrap", "node"}
    /\ Continue(mem, "save")
    /\ UNCHANGED <<infra, node, failures>>

\* Mutant: the provider ID counts as written before there is a Node.
NodeNotAwaited ==
    /\ pc = "node"
    /\ node' = IF ~mem.nodeUpdated /\ node = "registered" THEN "hasProviderID" ELSE node
    /\ Continue([mem EXCEPT !.nodeUpdated = TRUE], "save")
    /\ UNCHANGED <<infra, failures>>

\* updateNodeProviderID
UpdateNodeProviderID ==
    /\ pc = "node"
    /\ \/ /\ mem.nodeUpdated \/ node # "registered"
          /\ Continue(mem, "save")
          /\ UNCHANGED <<infra, node, failures>>
       \/ /\ ~mem.nodeUpdated /\ node = "registered"
          /\ node' = "hasProviderID"
          /\ Continue([mem EXCEPT !.nodeUpdated = TRUE], "save")
          /\ UNCHANGED <<infra, failures>>
       \/ /\ ~mem.nodeUpdated
          /\ Error

\* The merge patch of the patch helper: what the reconcile changed, o being
\* the object on the server, b the one read and m the one in memory.  The
\* controller never changes present and deleting.
Merge(old, read, new) == IF new # read THEN new ELSE old

\* Mutant: the object is updated as it is in memory, not patched.
Updated(o, b, m) == [m EXCEPT !.present = o.present, !.deleting = o.deleting]

ApplyDiff(o, b, m) ==
    [o EXCEPT
        !.finalizer = Merge(@, b.finalizer, m.finalizer),
        !.ref = Merge(@, b.ref, m.ref),
        !.ready = Merge(@, b.ready, m.ready),
        !.failed = Merge(@, b.failed, m.failed),
        !.ipKnown = Merge(@, b.ipKnown, m.ipKnown),
        !.bootstrapped = Merge(@, b.bootstrapped, m.bootstrapped),
        !.providerID = Merge(@, b.providerID, m.providerID),
        !.nodeUpdated = Merge(@, b.nodeUpdated, m.nodeUpdated)]

\* The deferred PatchKubevirtMachine; NotFound when the object is gone.
Save ==
    /\ pc = "save"
    /\ \/ /\ km' = IF km.present THEN ApplyDiff(km, before, mem) ELSE km
          /\ UNCHANGED failures
       \/ /\ failures < MaxFailures
          /\ failures' = failures + 1
          /\ UNCHANGED km
    /\ EndReconcile
    /\ UNCHANGED <<cache, world>>

\* Mutant: the secret is looked for in the management cluster.
DeleteSecretAtHome ==
    /\ pc = "deleteSecret"
    /\ infra' = [infra EXCEPT !["management"].secret = FALSE]
    /\ Continue(mem, "deleteVM")
    /\ UNCHANGED <<node, failures>>

\* reconcileDelete: deleteKubevirtBootstrapSecret.  An error of the lookup is
\* taken for "does not exist"; an error of the deletion ends the reconcile.
DeleteBootstrapSecret ==
    /\ pc = "deleteSecret"
    /\ \/ /\ infra' = IF "bootstrapData" \in inputs
                      THEN [infra EXCEPT ![mem.ref].secret = FALSE] ELSE infra
          /\ Continue(mem, "deleteVM")
          /\ UNCHANGED <<node, failures>>
       \/ /\ "bootstrapData" \in inputs
          /\ failures < MaxFailures
          /\ failures' = failures + 1
          /\ Continue(mem, "deleteVM")
          /\ UNCHANGED <<infra, node>>
       \/ DeleteError

\* Mutant: a VM that does not exist is an error.
VMMustExist ==
    /\ pc = "deleteVM"
    /\ \/ /\ infra[mem.ref].vm # "none"
          /\ infra' = [infra EXCEPT ![mem.ref].vm = "none", ![mem.ref].terminal = FALSE]
          /\ Continue(mem, "finalize")
          /\ UNCHANGED <<node, failures>>
       \/ /\ infra[mem.ref].vm = "none"
          /\ EndReconcile
          /\ UNCHANGED <<km, cache, world, failures>>

\* reconcileDelete: Machine.Delete
DeleteVM ==
    /\ pc = "deleteVM"
    /\ \/ /\ infra' = [infra EXCEPT ![mem.ref].vm = "none", ![mem.ref].terminal = FALSE]
          /\ Continue(mem, "finalize")
          /\ UNCHANGED <<node, failures>>
       \/ DeleteError

\* reconcileDelete: the finalizer is removed, and with it the object.
RemoveFinalizer ==
    /\ pc = "finalize"
    /\ \/ /\ km' = NoObject
          /\ EndReconcile
          /\ UNCHANGED <<cache, world, failures>>
       \/ DeleteError

Crash ==
    /\ pc # "idle"
    /\ failures < MaxFailures
    /\ failures' = failures + 1
    /\ EndReconcile
    /\ UNCHANGED <<km, cache, world>>

Controller ==
    \/ StartReconcile \/ ReconcileBootstrapSecret \/ ReadMachine \/ CreateVM
    \/ CheckBootstrap \/ Drain \/ HoldUp \/ UpdateNodeProviderID \/ Save
    \/ DeleteBootstrapSecret \/ DeleteVM \/ RemoveFinalizer

-----------------------------------------------------------------------------
(* The world outside.                                                       *)

\* The watch brings the cache up to date.
SyncCache ==
    /\ cache # km
    /\ cache' = km
    /\ UNCHANGED <<km, controller, world, failures>>

\* The owner, the cluster, the bootstrap provider and the KubevirtCluster
\* controller provide what the machine waits for.
ProvideInput ==
    /\ \E i \in Inputs \ inputs : inputs' = inputs \cup {i}
    /\ UNCHANGED <<km, cache, controller, clusterRef, infra, checks, booted, node, failures>>

\* A user deletes the KubevirtMachine: without a finalizer it is gone at once.
DeleteMachine ==
    /\ km.present /\ ~km.deleting
    /\ km' = IF km.finalizer THEN [km EXCEPT !.deleting = TRUE] ELSE NoObject
    /\ UNCHANGED <<cache, controller, world, failures>>

VMStep(from, to) ==
    /\ \E c \in Clusters : infra[c].vm \in from /\ infra' = [infra EXCEPT ![c].vm = to]
    /\ UNCHANGED <<km, cache, controller, clusterRef, inputs, checks, node, failures>>

\* KubeVirt starts the VMI and the guest agent reports its address; later the
\* address may vanish and the guest may restart, from a fresh disk or not.
BootVM == (VMStep({"down"}, "noIP") \/ VMStep({"noIP"}, "up")) /\ UNCHANGED booted

LoseAddress ==
    /\ "addressLost" \in Disruptions
    /\ VMStep({"up"}, "noIP")
    /\ UNCHANGED booted

SentinelLost == booted' = IF booted = "now" THEN "before" ELSE booted

\* With its VMI the reason why the VM was terminal may go.
RestartVM ==
    /\ "restart" \in Disruptions
    /\ \E c \in Clusters, t \in BOOLEAN :
           /\ infra[c].vm \in {"up", "noIP"}
           /\ t => infra[c].terminal
           /\ infra' = [infra EXCEPT ![c].vm = "down", ![c].terminal = t]
    /\ UNCHANGED booted \/ SentinelLost
    /\ UNCHANGED <<km, cache, controller, clusterRef, inputs, checks, node, failures>>

\* Somebody deletes the VM.
LoseVM ==
    /\ "vmLost" \in Disruptions
    /\ \E c \in Clusters :
           /\ infra[c].vm # "none"
           /\ infra' = [infra EXCEPT ![c].vm = "none", ![c].terminal = FALSE]
    /\ SentinelLost
    /\ UNCHANGED <<km, cache, controller, clusterRef, inputs, checks, node, failures>>

\* A VM becomes terminal: a label, its final phase or an eviction of its VMI.
BecomeTerminal ==
    /\ "terminal" \in Disruptions
    /\ \E c \in Clusters :
           /\ infra[c].vm # "none" /\ ~infra[c].terminal
           /\ infra' = [infra EXCEPT ![c].terminal = TRUE]
    /\ UNCHANGED <<km, cache, controller, clusterRef, inputs, checks, booted, node, failures>>

Up == \E c \in Clusters : infra[c].vm = "up"

\* The guest bootstraps and its kubelet registers the Node.
BootstrapGuest ==
    /\ booted # "now" /\ Up
    /\ booted' = "now"
    /\ UNCHANGED <<km, cache, controller, clusterRef, inputs, infra, checks, node, failures>>

RegisterNode ==
    /\ booted = "now" /\ node = "none" /\ Up
    /\ node' = "registered"
    /\ UNCHANGED <<km, cache, controller, clusterRef, inputs, infra, checks, booted, failures>>

\* An administrator deletes the Node (it registers again).
DeleteNode ==
    /\ "nodeDeleted" \in Disruptions /\ node # "none"
    /\ node' = "none"
    /\ UNCHANGED <<km, cache, controller, clusterRef, inputs, infra, checks, booted, failures>>

Next ==
    \/ Controller \/ Crash \/ SyncCache \/ ProvideInput \/ DeleteMachine
    \/ BootVM \/ LoseAddress \/ RestartVM \/ LoseVM \/ BecomeTerminal
    \/ BootstrapGuest \/ RegisterNode \/ DeleteNode

Spec == Init /\ [][Next]_vars

\* A key is reconciled again and again (requeues, watch events, the resync
\* period) and watches deliver.  Nothing is assumed of KubeVirt, of the guest
\* or of the other controllers.
Fairness == WF_vars(Controller) /\ WF_vars(SyncCache)

FairSpec == Spec /\ Fairness

-----------------------------------------------------------------------------
(* Safety.                                                                  *)

\* Every variable has its type, and outside a reconcile the controller
\* remembers nothing: what a reconcile knows it has read (Reconcile).
TypeOK ==
    /\ km \in Object /\ cache \in Object /\ mem \in Object /\ before \in Object
    /\ pc \in Steps
    /\ clusterRef \in Clusters
    /\ inputs \subseteq Inputs
    /\ infra \in Infra
    /\ checks \in BootstrapChecks /\ booted \in Booted
    /\ node \in NodeState
    /\ failures \in 0..MaxFailures
    /\ pc = "idle" => mem = NoObject /\ before = NoObject

\* MachineFinalizer "allows ReconcileKubevirtMachine to clean up resources
\* associated with machine before removing it from the apiserver": when the
\* object is gone, no VM of the machine is left in any infra cluster, whenever
\* the deletion, a crash or a failing call comes and however stale the cache.
NoVMLeaked == ~km.present => \A c \in Clusters : infra[c].vm = "none"

\* The same of the bootstrap secret, which holds what a guest joins its cluster
\* with (deleteKubevirtBootstrapSecret): only a failing call leaves one behind.
SecretLeaksOnlyByFailure ==
    ~km.present /\ failures = 0 => \A c \in Clusters : ~infra[c].secret

\* A machine that carries CAPK's keys and has the CheckStrategy ssh is never
\* reported Ready before its guest has bootstrapped, from whatever snapshot the
\* deferred patch writes.  With any other check nobody asks the guest.
ReadyMeansBootstrapped == km.ready /\ checks = "ssh" => booted # "never"

\* How far a machine is: new until it has its finalizer.
Stage ==
    IF ~km.present THEN "gone"
    ELSE IF km.deleting THEN "deleted"
    ELSE IF km.finalizer THEN "kept" ELSE "new"

VMs == {c \in Clusters : infra[c].vm # "none"}

Trusted == checks = "ssh" => booted # "never"

Contract == INSTANCE MachineContract WITH
    Places <- Clusters, stage <- Stage, vms <- VMs,
    ready <- km.ready, named <- km.providerID, trusted <- Trusted

\* The machine, with its reconciles, snapshots and caches, implements the
\* contract: one VM at most, and only between finalizer and finalizer; Ready
\* when kept and bootstrapped; a provider ID that stays.
MachineImplementsContract == Contract!ContractSpec

\* The inductive invariant behind the two.  Nobody changes the ref of a machine
\* that has one or whose cluster has none:
RefsAgree ==
    /\ km.present /\ cache.present => cache.ref = km.ref
    /\ km.present /\ pc # "idle" => mem.ref = km.ref /\ before.ref = km.ref
    /\ km.present /\ km.ref = "management" => clusterRef = "management"

\* a reconcile that provisions works for an object that still has its
\* finalizer, one that deletes for an object that is being deleted;
FinalizerHolds ==
    /\ cache.present /\ cache.finalizer /\ ~cache.deleting => km.present /\ km.finalizer
    /\ cache.present /\ cache.deleting => ~km.present \/ km.deleting
    /\ pc \in {"secret", "newMachine", "createVM", "bootstrap", "node"} =>
           km.present /\ km.finalizer
    /\ pc \in {"deleteSecret", "deleteVM", "finalize"} =>
           /\ ~cache.present \/ cache.deleting
           /\ ~km.present \/ km.deleting
    /\ before.finalizer => mem.finalizer

\* and a VM is where its object says.
VMIsOwned ==
    /\ \A c \in Clusters : infra[c].vm # "none" => km.present /\ km.finalizer /\ km.ref = c
    /\ pc = "finalize" => \A c \in Clusters : infra[c].vm = "none"

\* So is the bootstrap secret, as long as no call fails; it is made only when
\* there is bootstrap data, without which reconcileDelete does not look for it.
SecretIsOwned ==
    /\ pc \in {"secret", "newMachine", "createVM", "bootstrap"} => "bootstrapData" \in inputs
    /\ failures = 0 =>
           /\ \A c \in Clusters : infra[c].secret =>
                  km.present /\ km.finalizer /\ km.ref = c /\ "bootstrapData" \in inputs
           /\ pc \in {"deleteVM", "finalize"} => \A c \in Clusters : ~infra[c].secret

\* What a reconcile is about to report it has found out for an object that was
\* kept by then, and it takes no provider ID back.
ReportIsFounded ==
    /\ ~km.present => km = NoObject
    /\ before.providerID => mem.providerID
    /\ km.present /\ (cache.providerID \/ before.providerID) => km.providerID
    /\ pc # "idle" /\ km.present /\ mem.ready # before.ready => km.finalizer

\* Every copy of the object was written after the guest bootstrapped.
Earned(o) == checks = "ssh" /\ (o.ready \/ o.bootstrapped = "true") => booted # "never"

MachineInv ==
    /\ TypeOK
    /\ RefsAgree /\ FinalizerHolds /\ VMIsOwned
    /\ Earned(km) /\ Earned(cache) /\ Earned(mem) /\ Earned(before)

-----------------------------------------------------------------------------
(* Liveness.                                                                *)

\* A deleted KubevirtMachine goes away (reconcileDelete), provisioned or not.
DeletionCompletes == km.deleting ~> ~km.present

\* The machine's VM is up for good, its guest has bootstrapped and its Node
\* is registered.
Undisturbed ==
    /\ km.present /\ ~km.deleting
    /\ infra[km.ref].vm = "up" /\ booted = "now" /\ node # "none"

\* Then the machine is reported Ready for good and its Node has the provider ID
\* that Cluster API matches it by, although NodeUpdated, the conditions and the
\* addresses are written from stale snapshots.
StatusConverges ==
    <>[]Undisturbed => <>[](km.ready /\ km.providerID /\ node = "hasProviderID")

\* A VM that is down for good (IsReady) is not reported Ready for ever.
DownIsReported ==
    <>[](km.present /\ ~km.deleting /\ infra[km.ref].vm = "down") => <>[](~km.ready)
=============================================================================
