# A TLA+ specification of Cluster API Provider KubeVirt

Cluster API Provider KubeVirt (CAPK) runs the nodes of Kubernetes clusters as
KubeVirt virtual machines. This directory models its controllers in TLA+,
model-checks them with TLC and proves the central safety properties with
TLAPS, for every value of the parameters.

Contents: [the system](#the-system), [modules](#modules),
[runs](#runs), [bounds](#bounds), [fairness](#fairness), [proofs](#proofs),
[disagreements](#where-code-and-comments-disagree),
[left out](#what-is-not-modelled), [plan](#plan).

## The system

Three clusters are involved: the *management* cluster holds the custom
resources, the *infra* cluster runs the virtual machines (it may be the
management cluster itself), the *workload* cluster is the one being built.

| component | state | operations | correct when |
|---|---|---|---|
| KubevirtMachine controller (`controllers/kubevirtmachine_controller.go`) | none of its own: spec, status, finalizer and annotations of the KubevirtMachine | `Reconcile`, `reconcileNormal`, `updateNodeProviderID`, `reconcileDelete`, bootstrap secret | no VM outlives its object; Ready is never reported too early and not for ever too late; deletions complete |
| eviction (`DrainNodeIfNeeded`, `pkg/kubevirt/machine.go`) | three annotations of the KubevirtMachine; the cordon of the Node | migrate, or cordon, drain and delete the VMI; uncordon | the VMI is not deleted before its node is drained or the deadline has passed; the node is cordoned exactly as long as needed; evictions end |
| VM of a machine (`pkg/kubevirt`) | the VM, its VMI, DataVolumes | `Create`, `Delete`, `IsReady`, `Address`, `IsTerminal`, `IsBootstrapped`, `GetVMNotReadyReason` | what it reports is what the infra cluster shows |
| KubevirtCluster controller (`controllers/kubevirtcluster_controller.go`) | spec, status and finalizer of the KubevirtCluster | `Reconcile`, `reconcileNormal`, `reconcileDelete`, `deleteExtraGVK` | nothing it created outlives the object; Ready means provisioned |
| load balancer (`pkg/loadbalancer`) | a Service in the infra cluster | `Create`, `IP`, `ExternalIP`, `Delete` | one service per cluster, deleted with it |
| ssh keys (`pkg/ssh`) | a Secret in the management cluster | `GenerateNewKeys`, `PersistKeysToSecret`, `IsPersistedToSecret`; a command over ssh | a key pair, once there, is never replaced |
| KubevirtMachineTemplate controller | status.capacity | recompute the capacity | the capacity comes to be that of the template |
| infra cluster client (`pkg/infracluster`) | none | build a client from a kubeconfig secret | it reads no other tenant's secret and works in the namespace where access was promised |
| workload cluster client (`pkg/workloadcluster`) | none | build a client from a kubeconfig secret | – |
| webhooks (`pkg/webhookhandler`), annotation filter | none | answer admission requests | what is admitted is not refused later; a template announces no capacity but its own |
| cloud-init editing (`addCapkUserToCloudInitConfig`) | the user data secret | add or replace the user capk | one user capk with the current key, everybody else untouched |
| owner lookups (`pkg/capiv1beta1`) | none | find owners and clusters | – |
| `clusterkubevirtadm` | namespace, ServiceAccount, Role and RoleBinding of a tenant; a file | create or apply credentials, get a kubeconfig | success means access, however invocations overlap; an interrupted one can be completed |
| manager (`main.go`) | work queues, caches, flags | wiring | – |

Components interact only through API objects. The machine controller waits for
the cluster controller's ssh keys and for Cluster API's conditions; watch
events of clusters, machines and KubevirtClusters enqueue machines. The file
that `clusterkubevirtadm get kubeconfig` writes becomes the secret from which
both controllers make their client of the infra cluster.

What is hard:

* **stale reads**: objects of the management cluster are read from informer
  caches, which lag behind the controller's own writes; objects of the infra
  and workload clusters are read directly;
* **partial progress**: every API call may fail, and the process may die,
  between any two calls; there is no transaction, only a deferred patch of the
  difference between the object as read and as it is at the end;
* **other actors**: KubeVirt, kubelets, administrators and the scheduler act
  between two calls, and the VMI, the Node and the services change under a
  reconcile that holds copies of them;
* **no lock**: two administrators may run `clusterkubevirtadm` at once, and
  either may interrupt it between two calls;
* **long waits**: drains, migrations and bootstraps are waited for over many
  reconciles, and the only memory is what was written to the API server.

The complete list is in `PROJECT.json` under `hazards`, each at its line.

## Modules

| module | models | composed of |
|---|---|---|
| `EvictionContract` | what an eviction promises to those who use the node | – |
| `Eviction` | one eviction after the other of one guest node | implements `EvictionContract` (`INSTANCE ... WITH`) |
| `MCEviction` | its instances for TLC | extends `Eviction` |
| `EvictionProofs` | proofs | extends `Eviction` |
| `MachineContract` | what a machine promises to those who manage clusters | – |
| `MachineLifecycle` | one KubevirtMachine from creation to deletion | implements `MachineContract`; eviction abstracted to `Drain` and `HoldUp` |
| `MCMachine`, `MachineProofs` | its instances and proofs | extend `MachineLifecycle` |
| `MachineContractProofs` | the proof that it implements the contract | extends `MachineProofs` |
| `ClusterLifecycle` | one KubevirtCluster from creation to deletion | load balancer and ssh keys inside |
| `MCCluster`, `ClusterProofs` | its instance and proofs | extend `ClusterLifecycle` |
| `Credentials` | `clusterkubevirtadm`: create, apply and get | – |
| `InfraAccess` | admission of `infraClusterSecretRef` and the client made from it | – |
| `MachineTemplate` | a KubevirtMachineTemplate, its webhook and its controller | – |
| `VirtualMachine` | the functions that compute a VM, its user data and its state | – |
| `Tenant` | a tenant's way through the four | extends the four modules before it |
| `VirtualMachineProofs`, `MachineTemplateProofs` | what the operators of the two modules compute, for every input | extend them |
| `MCTenant`, `TenantProofs` | its instance and proofs | extend `Tenant`; the proofs also the two modules before |

`Eviction`, `MachineLifecycle` and `ClusterLifecycle` share a shape. `pc` is the next API call of the
reconcile in progress; `mem` is the object in memory, `before` the patch
helper's snapshot and `cache` the informer's copy. One action is one API call
together with the local code up to the next one. The work queue runs at most
one reconcile per key, so there is one `pc`. `Crash` ends a reconcile at any
call; `Error` makes a call fail without effect. `Save` is the deferred patch:
it writes to the server what differs between `before` and `mem`, whatever the
server's object is by then.

**Eviction.** The annotations are a record: the deadline as the number of
ticks left (or absent, or malformed), the submitted marker and the cordon
marker. A VMI has a phase, the evacuation mark, whether it has moved, and the
state of its last migration. `sameVMI`, `evicted` and `capkCordon` are history
variables: no action of the controller reads them. "Pods" are those that
`RunNodeDrain` would evict. A patch of the KubevirtMachine decodes the response
into the object in memory. Whether annotations that the server no longer has
survive in that object depends on the client library (JSON decoding into a
non-empty map removes nothing), so `Decode` allows what the constant
`DecodeKeeps` says, and safety is checked and proved for both. No action lets
an administrator uncordon a node: the properties about cordons are about what
CAPK does.

**MachineLifecycle.** What the reconcile waits for (owner, cluster,
infrastructure, bootstrap data, ssh keys) is a set of inputs that appear once.
`infra` has the bootstrap secret and the VM of each of the two places a ref can
name: no ref, the management cluster; a ref, the external one. The guest's
sentinel file is there now, was there before a restart, or never was. `checks` says
how the guest is asked for it, and does not change: `unsupported` if CAPK's keys
are not in its user data, else the `CheckStrategy`, `none` or `ssh`. With `none`
`IsBootstrapped` is true whatever the guest does; with `ssh` a command that fails
counts as "not bootstrapped". The eviction appears as what the rest of the
reconcile sees of it: patches of annotations whose response is decoded over the
object in memory (`Drain`, with `Decode` as in `Eviction`), and an early end
(`HoldUp`). A reconcile that waits for bootstrap data ends with a zero result, so
that `updateNodeProviderID` still runs (`Dispatch`). The patch
helper's calls are one call here; a VM goes when its deletion is requested; no
other finalizer is considered.

**ClusterLifecycle.** Here the patch helper's calls for spec and status are two
steps, because a failure between them is visible. Another finalizer may keep
the object. The KubevirtCluster and the key secret have caches of their own.

**EvictionContract** has neither reconciles nor annotations nor caches: a VM is
away or not, a node has no cordon, one of CAPK or one of an administrator, CAPK
remembers its cordon or not, pods run or not, and time is up or not. It says
that a VM is taken away only from an empty node or when time is up, that the
node is not uncordoned while the VM is away, and that CAPK forgets a cordon only
when there is none of its own. `Eviction` implements it under the mapping
`Contract`: `away` is `evicted`, `cordon` is read off the Node and `capkCordon`
(`CordonSeen`), `marked` is the annotation on the API server, `busy` is
`node.pods`, and `timeUp` says that the deadline has passed in the object the
reconcile holds, or that the VMI is no longer the one it read. The second part
is the weak spot of the code that the run `StaleVMI` shows: nobody waits for the
pods of a VMI that took the place of the evicted one.

**MachineContract** likewise has no reconciles, snapshots or caches: a machine is
new, kept, deleted or gone, has VMs in some places, is Ready or not, has its
provider ID or not, and its guest is trusted or not. It says that there is at most
one VM, made only while a finalizer keeps the machine; that the machine goes only
when it was deleted and has no VM; that it becomes Ready only when it is kept and
its guest has bootstrapped or is not asked over ssh; and that a reported provider ID is
never taken back. In `MachineLifecycle` the mapping reads all of it off the object
on the server (`Stage`), `infra` (`VMs`) and the sentinel file (`Trusted`).

**Credentials.** An invocation is a record with its command, the API call it
makes next and the result it reports; `tenant` is what exists in the infra
cluster. A step is one call: what was read may be out of date when the next
call is made. The Role has the rules of this version of the tool or of an older
one. The file written by `get kubeconfig` is a sequence of pieces, so that a
file that is not truncated keeps the end of what it held; each piece says whose
namespace the current context of its text has. `createKubeconfig` computes that
from the name of the administrator's context, which may be the tenant's own.
`promised` is history: a create or an apply has reported success. `get` does not
look at it, and asks for no Role either.

**InfraAccess** compares two copies of one check. `Handle` is both webhook
handlers, which are the same but for the type they decode;
`GenerateInfraClusterClient` is the client's function, with the secret it finds.

**MachineTemplate.** Users create, update and delete the template as the
webhook's handler allows (it answers requests it cannot decode and operations it
does not know with an error, and lets dry runs pass); the controller reads its cache, computes the capacity
with arithmetic that wraps around at `Word`, and patches whatever template has
the name by then. `original` is history: no template of the name was deleted or
ever excluded from validation. Which memory a template announces is taken from
the comments; where two of them contradict each other (`Disputed`, see
[below](#where-code-and-comments-disagree)) the properties accept the code's side.

**VirtualMachine** has pure functions. The variable `input` ranges over what a
reconcile may have read, and the invariants compare each function with what it
is for. `IsTerminal` answers yes, no or with the error of a VM whose run strategy
is not valid. Names are sequences of parts, so that joining them by hyphens has the
ambiguity it has in the code. User data is a list of users, with or without a
section that is not a list.

**Tenant** composes the four. Its parts run one after the other: the
administrators work until one of them has got a kubeconfig, whether or not access
has been granted by then; the file is stored as a secret, with or without its
key and with a namespace or without; objects with references are admitted and connected; then a
template lives, and while it is up to date machines are read. The order bounds
the state space and is the one in which a tenant meets them; within a part
everything interleaves. `genuine` is history: the secret holds a text as `get`
wrote it. Of a file with the tail of an older one `ContextNamespaces` knows
nothing: it may fail to parse or name any namespace.

## Runs

Passing runs:

| run | shows |
|---|---|
| `EvictionSafety` | with VMIs killed and evictions called off, one failure anywhere and stale caches: the node stays cordoned until the evicted VMI is recreated; the VMI being evicted is deleted only when its node is drained or the deadline has passed; the mark of a cordon is not lost while the cordon lasts; the refinement of `EvictionContract` |
| `EvictionLiveness` | evictions of VMIs that cannot migrate end; the deadline and the submitted marker are cleared afterwards; without failures the node becomes schedulable again |
| `MachineSafety` | no VM outlives its machine; Ready never precedes the bootstrap of a guest that is asked over ssh; a bootstrap secret is left behind only after a failing call; the machine implements `MachineContract` |
| `MachineLiveness` | deletions complete; an undisturbed machine becomes Ready and its Node gets its provider ID; a VM that is down for good is reported |
| `ClusterLifecycle` | node keys never change and exist before they are referred to; Ready means provisioned; extra resources go before the finalizer; deletions complete; without failures no service is left behind |
| `Tenant` | *Credentials*: success means that everything is granted, at most one `create` succeeds, an invocation is refused half way only if another overlaps it, every invocation ends, and the Role covers every call but the creation of migrations. *InfraAccess*: webhook and client agree, no foreign secret is read, and a client made from what `get` wrote works in the tenant's namespace, with a Role if one was promised. *MachineTemplate*: the capacity converges, and a template that was never excluded or deleted announces none or the true one. *VirtualMachine*: DataVolumes are unique and volumes stay attached, the user capk is installed once, terminal means for good, and the first DataVolume that blocks a VM is the one that is reported |

Runs that end in a counterexample (`FailedMigration`, `LostCordon`,
`DuplicateMigration`, `StaleVMI`, `LeakedVM`, `LeakedLoadBalancer`) are
described [below](#where-code-and-comments-disagree).

Every property of a passing run has a mutant: a definition commented `Mutant:`
that changes the definition after it the way a plausible bug would, and that
makes TLC report the property violated.

Deadlock is checked in the eviction runs, where something can always happen. A
machine or a cluster that is deleted is the end of its specification, and a
tenant's way ends when the administrators stop without having granted access,
so the other configurations switch the check off.

## Bounds

* `MaxFailures` counts API errors and crashes together. One failure already
  splits a reconcile at every call, and the next reconcile repairs it or does
  not; two in `MachineSafety` let a command over ssh fail in addition. The
  proofs hold for any number.
* `GracePeriod` is 1 or 2 ticks: a deadline that is set, one that runs and one
  that has passed all occur. `MaxMigrations` counts unstarted migrations up to
  "this many or more"; 2 suffices for a duplicate.
* `Disruptions` selects the outside events of an instance. `MachineSafety`
  selects all but terminal VMs, which are in `MachineLiveness`: they set only
  `FailureReason`, which no safety property reads. `EvictionSafety` selects all but an administrator's
  cordon, which is in `EvictionLiveness`, to keep its state space within reach;
  the proofs cover every set. The liveness runs select few others, since what
  keeps happening for ever refutes nothing; no run of them deletes Nodes, after
  which `StatusConverges` would fail, as the hazard at
  `kubevirtmachine_controller.go:476` says.
* `RefPairs`: the refs of a machine and of its cluster. `PersistedRefs` are the
  pairs where nothing is defaulted later.
* Two key pairs tell a replaced key from a kept one; two kinds of extra
  resources tell "some" from "all".
* `Tenant`: two administrators with two invocations, which may overlap, over
  every state that earlier invocations may have left, and one interruption.
  Three namespaces: the tenant's, another tenant's and the controller's. `Word`
  is 8, and `SmallSpecs` has one topology that wraps around, one that leaves a
  number out, and a spec with guest memory next to limits (`Disputed`). Lists have up to two members (`MaxLength`), so that there is a
  first and a second; names have one or two parts of two words.

No symmetry is used.

## Fairness

* `WF(Controller)`: a key is handed out again after every reconcile by a
  requeue, a watch event or the resync period of 60 s, and a reconcile in
  progress runs on.
* `WF(SyncCache)`, `WF(SyncSecret)`: watches deliver.
* Eviction: `WF(Tick)`, and KubeVirt finishes a deletion, recreates the VMI of a
  running VM and boots it. Nothing is assumed of migrations or drains.
* Cluster: the owner of another finalizer lets the object go.
* Tenant: an invocation that runs makes its calls (the poll of `get` has its own
  deadline of 10 s, the action `Timeout`); the template controller works off its
  queue and its cache catches up. Nothing is assumed of users, of the token
  controller or of admission.

The machine specification assumes nothing of KubeVirt or the guest:
`StatusConverges` and `DownIsReported` say what follows if the VM stays up or
down.

## Proofs

`EvictionProofs` proves `TypeOK` and, from the inductive invariant `SafetyInv`,
the three action properties of `EvictionSafety`. None of them is inductive by
itself: they are about the moment of a call, and the code established what they
need several calls earlier, on possibly stale copies. `SafetyInv` adds

* `CallIsJustified`: when the next call is to settle or uncordon, the VMI was
  not evicted; when it is to remove the mark, no cordon of CAPK is in place;
  when it is to delete the VMI that was read, the deadline passed or the node is
  cordoned and empty;
* `EvictedIsDown`, `ReadVMIHasBooted`, `CordonIsReal`: how the history variables
  relate to the world, so that other actors' steps preserve the first part;
* `SnapshotIsHarmless`: if the deferred patch would remove the mark of the
  cordon, the server does not have it any more.

`MachineProofs` proves `TypeOK` and, from `MachineInv`, `NoVMLeaked` and
`ReadyMeansBootstrapped`. The invariant says that every copy of the object
agrees on the ref (`RefsAgree`), that a reconcile that provisions works for an
object that still has its finalizer and one that deletes for one being deleted
(`FinalizerHolds`), that a VM exists only where a present object with a
finalizer says (`VMIsOwned`), and that each of the four copies that claims
readiness was written after a bootstrap, if the guest is asked over ssh (`Earned`);
that covers what `Drain` decodes over the object in memory. The theorems assume
`RefsPersisted`: the machine names its infra cluster itself or the cluster names
none. Without it `RefsAgree` is false and the run `LeakedVM` is a
counterexample to the conclusion.

`SecretNotLeaked` adds `SecretIsOwned`: without failures a bootstrap secret
exists only where a present object with a finalizer says, until the reconcile
that deletes it.

`ContractKept` proves the refinement: the initial states map to initial states,
and under `SafetyInv` every step of `Eviction` maps to a step of
`EvictionContract` or to a stutter, one case per action. The invariant is what
makes it true: that a node is drained when the VMI is deleted, and that no cordon
is left when the marker goes, is known to the code only from earlier calls.

`MachineContractKept` does the same for the machine, under `RefsPersisted`.
`MachineInv` is not enough: the deferred patch is the contract's `Report`, and what
it writes was decided calls earlier for an object that may have been deleted
since. `ReportIsFounded` adds that a change of readiness in memory was decided, or read
from the server by a patch of the eviction, for an object that has its finalizer, that no provider ID in the snapshot is missing
in memory (so the difference that is patched takes none back), and that an object
that is gone leaves nothing behind.

`ClusterProofs` proves every safety property of `ClusterLifecycle`, from three
invariants:

* `KeysInv`: every copy of the object refers only to keys that are there, and the
  cached secret is the secret or lags behind its creation;
* `FinalizerInv`: a reconcile that provisions works for an object with its
  finalizer, one that deletes for an object being deleted, however old the copy it
  read; when the finalizer is about to go no extra resource is left, and without
  failures no service;
* `ReadyInv`: the object on the server has what every older copy had (`Follows`),
  the reconcile in progress included, so that the status patch finds the spec it
  relies on. It needs `FinalizerInv`: a patch that the server refuses because of
  the finalizer carries no readiness.

All hold for every `MaxFailures`, every set of disruptions, keys and kinds and,
for the eviction, every grace period and both ways of decoding. The constants'
assumptions are only their types.

`TenantProofs` proves what `Credentials` and `InfraAccess` promise in `Tenant`, for
any number of administrators, invocations, interruptions and namespaces (of which
it assumes that they are no keyword of the model, `NamespacesAssumption` and
`KeysAssumption`):

* `SuccessMeansGranted`, `OneCreateSucceeds` and `RefusedOnlyInCompany` from
  `CLIInv`, which says of the call that each invocation makes next what it has
  ensured before (`Ensured`) and, if nobody overlaps it, what is still absent
  (`Undisturbed`), and that a create which made the namespace is the only one
  that can succeed (`OneCreator`). A step of one invocation reaches the others only
  by adding to the tenant's objects, so that each action needs a proof about
  its own invocation only;
* `PromisedClientWorks` from `PromiseKept` (a tenant that was promised access has
  it: nothing that any invocation does later takes it away) and `HandedOut` (a
  text that get wrote, if it has a context, has the tenant's namespace, whichever
  context it was copied from: `ContextOfTenant`, `FirstPiece`);
* `AdmissionAgreesWithClient` and `NoForeignSecret` from the shape of requests;
* `AllowedExceptMigrations` from the two sets of calls;
* `TypeOK` from `TypeInv`, which counts: whoever runs an invocation, or
  has succeeded with create, has been counted (`Counted`), so that with `OneCreator` no
  more succeed than the bound allows; and the file, overwritten without truncation, is never longer than the longest text;
* `CapacityNeverMisleads` from `OriginalInv`: of a template that was never excluded
  or deleted the copy in the cache, the patch under way and the object on the
  server agree on the spec and on what may be announced for it, so that a patch
  that arrives late, or twice, writes nothing else.

`VirtualMachineProofs` proves what the functions of `VirtualMachine` compute, for
names, lists of volumes, users and DataVolumes of any content and any length up to
any `MaxLength`, and `TenantProofs` turns that into `DataVolumesUnique`,
`VolumesStayAttached`, `CapkUserInstalled`, `TerminalMeansForGood` and
`BlamesTheBlocker`. The functions search lists for the first or the last match.
`HasLeast` (a non-empty set of numbers has a least member, from the
well-foundedness of `<`) gives the first match without induction over lists; that
renaming is injective (`NewNames`, `PrefixesDiffer`) is the argument for the names.

`MachineTemplateProofs` proves that `extractCapacity`, with its defaults, its
fallbacks and a product that wraps around at `Word`, computes the capacity that
the comments document for every spec whose threads fit into a word, but for the
memory of `Disputed` ones (`CapacityIsTrue`): the safety half of `CapacityConverges`.
It also has the lemmas behind `CapacityNeverMisleads`.

With that every invariant and action property that a passing run checks is
proved. Model-checked only are the liveness properties (`EvictionEnds`,
`AnnotationsCleared`, `CordonReleasedWithoutFailures`, `StatusConverges`,
`DownIsReported`, `InvocationsEnd`, `CapacityConverges` and the two
`DeletionCompletes`), whose fairness reasoning is outside the prover's reach.

## Where code and comments disagree

Each is a run that TLC ends with a counterexample.

* `FailedMigration`: after a failed migration every reconcile removes the
  deadline and writes a new one (`machine.go:472`), so a blocked drain is
  waited for without end, against "If this time had passed, don't wait anymore".
  The counterexample exists for both ways of decoding a patch response.
* `LostCordon`: a failure between the cordon and its annotation
  (`machine.go:804-812`), after which the eviction ends before another reconcile
  records the cordon (by the deadline, deletion and recreation of the VMI, or by a
  move), leaves the node cordoned.
* `DuplicateMigration`: the marker that "prevents duplicate migration creates" is
  read from a cache that may lack it.
* `StaleVMI`: the VMI is deleted by name; one that replaced the evicted VMI
  during the drain is deleted although it is not marked.
* `LeakedVM`: the defaulted infra cluster ref is used before it is persisted; a
  deletion that reads an older copy looks for the VM in the management cluster.
* `LeakedLoadBalancer`: a failed deletion of the service is only logged.

Four more have no run of their own:

* The Role that `clusterkubevirtadm` makes does not allow migrations
  (`credentials.go:154`), which `AllowedExceptMigrations` states as the one exception.
* The output file of `get kubeconfig` is not truncated (`get.go:170`), although its
  flag says that it "Overrides if already exist" (`get.go:71`).
  `PromisedClientWorks` says nothing of a file with an older tail.
* `get kubeconfig` needs only the ServiceAccount and its token, so that after an
  interrupted `create` it hands out a kubeconfig that may do nothing.
  `PromisedClientWorks` promises a Role only after a reported success.
* The doc comment of `extractCapacity`
  (`kubevirtmachinetemplate_controller.go:88-92`) takes `memory.guest` only "if memory
  not in resources"; the comment inside `extractMemoryCapacity` (line 155) and the
  code take it first. For specs that give both, `TrueCapacity` is the code's.

## What is not modelled

* Contents of objects that no property tells apart: labels, disks and the rest
  of a VM template, the text of the cloud-init data, service ports, messages and
  reasons of conditions.
* Conditions, except `BootstrapExecSucceeded`: no reconcile reads the others.
* Machines and clusters that are excluded by annotation, paused or externally
  managed: they are not reconciled at all. A machine of an externally managed
  cluster has no ssh keys and is one that cannot be asked about its bootstrap.
* Changes of a machine's user data or `CheckStrategy` during its life.
* Two controllers at once (leader election is optional): the modules assume one.
* The construction of clients from kubeconfigs, the ssh executor and the
  cryptography of the keys: I/O and libraries, seen as calls that may fail.
* Flags and wiring (`main.go`) and the mapping of watch events to requests: they
  are the fairness of the controllers.
* Generated code (deep copies, mocks).

## Plan

1. `Eviction`, its runs and proofs, its contract and the refinement: done.
2. `MachineLifecycle`, its runs and proofs: done.
3. `ClusterLifecycle`, its runs and proofs: done.
4. `Credentials`, `InfraAccess`, `MachineTemplate`, `VirtualMachine` and their
   composition `Tenant`: done.
5. `TenantProofs`, with `VirtualMachineProofs` and `MachineTemplateProofs`: done.
6. `MachineContract` and the refinement: done.
7. A composition of `ClusterLifecycle` and machines: the keys a machine is
   created with are those it is checked with.
