--------------------------- MODULE ClusterLifecycle --------------------------
(***************************************************************************)
(* One KubevirtCluster from creation to deletion: Reconcile,               *)
(* reconcileNormal and reconcileDelete of                                  *)
(* controllers/kubevirtcluster_controller.go, with the load balancer       *)
(* service (pkg/loadbalancer), the ssh keys of the cluster's nodes         *)
(* (pkg/ssh) and the extra resources that are deleted with the cluster.    *)
(*                                                                         *)
(* One step is one API call.  Objects of the management cluster are read   *)
(* through informers, each with a cache of its own; the service is read    *)
(* from the infra cluster directly.                                        *)
(*                                                                         *)
(* Abstractions: the load balancer's address is there or not; the five     *)
(* kinds of extra resources are deleted in any order; the deferred patch   *)
(* is the two calls of the patch helper that matter here, one for metadata *)
(* and spec and one for status; the condition LoadBalancerAvailable, which *)
(* no reconcile reads, is left out.                                        *)
(***************************************************************************)
EXTENDS Naturals

CONSTANTS
    Keys,         \* the ssh key pairs that generateKeys may return
    NoKey,        \* no key: the secret does not exist
    Kinds,        \* the kinds of extra resources
    ServiceTypes, \* ControlPlaneServiceTemplate.Spec.Type
    MaxFailures   \* bound: API errors and crashes of the controller

ASSUME NoKeyAssumption == NoKey \notin Keys
ASSUME ServiceTypesAssumption == ServiceTypes \subseteq {"ClusterIP", "LoadBalancer"}
ASSUME MaxFailuresAssumption == MaxFailures \in Nat

VARIABLES
    kc,          \* the KubevirtCluster on the API server
    cache,       \* the informer's copy of it
    pc,          \* the API call the reconcile makes next, or "idle"
    mem,         \* the reconcile's in-memory object
    before,      \* the patch helper's snapshot of it
    found,       \* the service that NewLoadBalancer found
    owner,       \* the Cluster has set its owner reference
    serviceType, \* the type of the service
    service,     \* the load balancer service in the infra cluster
    secret,      \* the key pair in the ssh keys secret
    secretCache, \* the informer's copy of it
    extras,      \* the kinds of which extra resources exist
    failures     \* API errors and crashes so far

controller == <<pc, mem, before, found>>
world == <<owner, serviceType, service, secret, extras>>
vars == <<kc, cache, pc, mem, before, found, owner, serviceType, service,
          secret, secretCache, extras, failures>>

\* finalizer: ClusterFinalizer is set; foreign: another finalizer is; endpoint:
\* Spec.ControlPlaneEndpoint.Host is set; keysRef: Spec.SshKeys is
Object == [present : BOOLEAN, deleting : BOOLEAN, finalizer : BOOLEAN,
           foreign : BOOLEAN, endpoint : BOOLEAN, keysRef : BOOLEAN,
           ready : BOOLEAN]

NewObject(foreign, endpoint) ==
    [present |-> TRUE, deleting |-> FALSE, finalizer |-> FALSE,
     foreign |-> foreign, endpoint |-> endpoint, keysRef |-> FALSE,
     ready |-> FALSE]

NoObject == [NewObject(FALSE, FALSE) EXCEPT !.present = FALSE]

\* no service; one without an address; with an IP; with a host name only
Service == {"none", "created", "ip", "hostname"}

Steps == {"idle", "createLB", "endpoint", "keys", "persist", "save", "saveStatus",
          "deleteLB", "report", "extras"}

\* The user may have set the endpoint.
Init ==
    /\ \E foreign, endpoint \in BOOLEAN : kc = NewObject(foreign, endpoint)
    /\ cache = kc
    /\ pc = "idle" /\ mem = NoObject /\ before = NoObject /\ found = FALSE
    /\ owner = FALSE
    /\ serviceType \in ServiceTypes
    /\ service = "none"
    /\ secret = NoKey /\ secretCache = NoKey
    /\ extras \in SUBSET Kinds
    /\ failures = 0

-----------------------------------------------------------------------------
(* Steps of a reconcile.                                                    *)

\* The reconcile goes on at next with the in-memory object m.
Continue(m, next) ==
    /\ pc' = next
    /\ mem' = m
    /\ UNCHANGED <<kc, cache, before, found, owner, serviceType, secretCache>>

\* Mutant: the context of a reconcile is kept for the next one.
ContextReused == pc' = "idle" /\ UNCHANGED <<mem, before, found>>

\* Nothing in memory outlives a reconcile.
EndReconcile == pc' = "idle" /\ mem' = NoObject /\ before' = NoObject /\ found' = FALSE

\* The call returns an error and had no effect; the code goes on at next.
Error(next) ==
    /\ failures < MaxFailures
    /\ failures' = failures + 1
    /\ Continue(mem, next)
    /\ UNCHANGED <<service, secret, extras>>

\* Mutant: the reconcile that adds the finalizer goes on.
GoOnWithoutFinalizer(o, s) ==
    IF o.deleting THEN "deleteLB"
    ELSE IF s = "none" THEN "createLB" ELSE "endpoint"

\* Reconcile: what it does about the object o that it read and the service s.
Dispatch(o, s) ==
    IF ~o.finalizer THEN "save"
    ELSE IF o.deleting THEN "deleteLB"
    ELSE IF s = "none" THEN "createLB" ELSE "endpoint"

\* Reconcile up to the first call that changes something: an object that is
\* gone or has no owner is left alone.
StartReconcile ==
    /\ pc = "idle"
    /\ cache.present /\ owner
    /\ pc' = Dispatch(cache, service)
    /\ mem' = [cache EXCEPT !.finalizer = TRUE] /\ before' = cache
    /\ found' = (service # "none")
    /\ UNCHANGED <<kc, cache, world, secretCache, failures>>

\* LoadBalancer.Create
CreateLoadBalancer ==
    /\ pc = "createLB"
    /\ \/ /\ service' = IF service = "none" THEN "created" ELSE service
          /\ Continue(mem, "endpoint")
          /\ UNCHANGED <<secret, extras, failures>>
       \/ Error("save")

\* Mutant: a service without an address is taken as it is.
AddressNotAwaited ==
    /\ pc = "endpoint"
    /\ Continue(mem, "keys")
    /\ UNCHANGED <<service, secret, extras, failures>>

\* The control plane endpoint is the one that is set or the address of the
\* service: ExternalIP, which is empty if the ingress has only a host name, or
\* IP.
SetEndpoint ==
    /\ pc = "endpoint"
    /\ \/ /\ mem.endpoint \/ service = "hostname"
          /\ Continue(mem, "keys")
          /\ UNCHANGED <<service, secret, extras, failures>>
       \/ /\ ~mem.endpoint /\ service = "ip"
          /\ Continue([mem EXCEPT !.endpoint = TRUE], "keys")
          /\ UNCHANGED <<service, secret, extras, failures>>
       \/ /\ ~mem.endpoint /\ service \in {"none", "created"}
          /\ Continue(mem, "save")
          /\ UNCHANGED <<service, secret, extras, failures>>
       \/ ~mem.endpoint /\ Error("save")

\* ClusterNodeSshKeys.IsPersistedToSecret: an error of the lookup is taken for
\* "not persisted".
LookUpKeys ==
    /\ pc = "keys"
    /\ \/ /\ mem.keysRef /\ secretCache # NoKey
          /\ Continue([mem EXCEPT !.ready = TRUE], "save")
          /\ UNCHANGED <<service, secret, extras, failures>>
       \/ /\ ~mem.keysRef \/ secretCache = NoKey
          /\ Continue(mem, "persist")
          /\ UNCHANGED <<service, secret, extras, failures>>
       \/ mem.keysRef /\ Error("persist")

\* Mutant: the new key pair replaces one that is there.
KeysReplaced ==
    /\ pc = "persist"
    /\ secret' \in Keys
    /\ Continue([mem EXCEPT !.keysRef = TRUE, !.ready = TRUE], "save")
    /\ UNCHANGED <<service, extras, failures>>

\* Mutant: the reference is set although the secret could not be written.
ReferenceWithoutKeys ==
    /\ pc = "persist"
    /\ failures < MaxFailures
    /\ failures' = failures + 1
    /\ Continue([mem EXCEPT !.keysRef = TRUE], "save")
    /\ UNCHANGED <<service, secret, extras>>

\* GenerateNewKeys and PersistKeysToSecret: create the secret, or update the
\* one in the cache, which keeps its keys.  A secret that is not yet in the
\* cache makes the creation fail.
PersistKeys ==
    /\ pc = "persist"
    /\ \/ /\ secretCache = NoKey /\ secret = NoKey
          /\ secret' \in Keys
          /\ Continue([mem EXCEPT !.keysRef = TRUE, !.ready = TRUE], "save")
          /\ UNCHANGED <<service, extras, failures>>
       \/ /\ secretCache # NoKey
          /\ Continue([mem EXCEPT !.keysRef = TRUE, !.ready = TRUE], "save")
          /\ UNCHANGED <<service, secret, extras, failures>>
       \/ /\ secretCache = NoKey /\ secret # NoKey
          /\ Continue(mem, "save")
          /\ UNCHANGED <<service, secret, extras, failures>>
       \/ Error("save")

\* The patch helper's merge patch of metadata and spec: o is the object on the
\* server, b the one read, m the one in memory.
ApplyDiff(o, b, m) ==
    [o EXCEPT !.finalizer = IF m.finalizer # b.finalizer THEN m.finalizer ELSE @,
              !.endpoint  = IF m.endpoint # b.endpoint THEN m.endpoint ELSE @,
              !.keysRef   = IF m.keysRef # b.keysRef THEN m.keysRef ELSE @]

\* The API server drops an object that is being deleted and has no finalizer.
Collect(o) == IF o.deleting /\ ~o.finalizer /\ ~o.foreign THEN NoObject ELSE o

\* The server refuses a new finalizer on an object that is being deleted.
Refused(o, b, m) == o.deleting /\ ~o.finalizer /\ m.finalizer # b.finalizer

\* The deferred PatchKubevirtCluster: NotFound is filtered out, and after an
\* error the status is patched all the same.
Save ==
    /\ pc = "save"
    /\ pc' = "saveStatus"
    /\ \/ /\ kc' = IF kc.present /\ ~Refused(kc, before, mem)
                   THEN Collect(ApplyDiff(kc, before, mem)) ELSE kc
          /\ UNCHANGED failures
       \/ /\ failures < MaxFailures
          /\ failures' = failures + 1
          /\ UNCHANGED kc
    /\ UNCHANGED <<cache, mem, before, found, world, secretCache>>

SaveStatus ==
    /\ pc = "saveStatus"
    /\ \/ /\ kc' = IF kc.present /\ mem.ready # before.ready
                   THEN [kc EXCEPT !.ready = mem.ready] ELSE kc
          /\ UNCHANGED failures
       \/ /\ failures < MaxFailures
          /\ failures' = failures + 1
          /\ UNCHANGED kc
    /\ EndReconcile
    /\ UNCHANGED <<cache, world, secretCache>>

\* Mutant: a service that does not exist is an error.
ServiceMustExist ==
    /\ pc = "deleteLB"
    /\ \/ /\ found
          /\ service' = "none"
          /\ Continue(mem, "report")
       \/ /\ ~found
          /\ Continue(mem, "save")
          /\ UNCHANGED service
    /\ UNCHANGED <<secret, extras, failures>>

\* LoadBalancer.Delete: an error is logged.
DeleteLoadBalancer ==
    /\ pc = "deleteLB"
    /\ \/ /\ service' = IF found THEN "none" ELSE service
          /\ Continue(mem, "report")
          /\ UNCHANGED <<secret, extras, failures>>
       \/ found /\ Error("report")

\* The patch that reports the deletion.  An object that is gone is an error,
\* unless the copy that was read reports the deletion already: then there is
\* nothing to patch.
ReportDeletion ==
    /\ pc = "report"
    /\ \/ /\ \/ Continue(mem, "extras")
             \/ ~kc.present /\ Continue(mem, "save")
          /\ UNCHANGED <<service, secret, extras, failures>>
       \/ Error("save")

\* Mutant: the extra resources of one kind are enough.
OneKindOnly ==
    /\ pc = "extras"
    /\ \E k \in extras : extras' = extras \ {k}
    /\ Continue([mem EXCEPT !.finalizer = FALSE], "save")
    /\ UNCHANGED <<service, secret, failures>>

\* deleteExtraGVK for one kind after the other; then the finalizer is removed.
DeleteExtras ==
    /\ pc = "extras"
    /\ \/ /\ \E k \in extras : extras' = extras \ {k}
          /\ Continue(mem, "extras")
          /\ UNCHANGED <<service, secret, failures>>
       \/ /\ extras = {}
          /\ Continue([mem EXCEPT !.finalizer = FALSE], "save")
          /\ UNCHANGED <<service, secret, extras, failures>>
       \/ Error("save")

Crash ==
    /\ pc # "idle"
    /\ failures < MaxFailures
    /\ failures' = failures + 1
    /\ EndReconcile
    /\ UNCHANGED <<kc, cache, world, secretCache>>

Controller ==
    \/ StartReconcile \/ CreateLoadBalancer \/ SetEndpoint \/ LookUpKeys
    \/ PersistKeys \/ Save \/ SaveStatus
    \/ DeleteLoadBalancer \/ ReportDeletion \/ DeleteExtras

-----------------------------------------------------------------------------
(* The world outside.                                                       *)

\* The watches bring the caches up to date, each in its own time.
SyncCache ==
    /\ cache # kc
    /\ cache' = kc
    /\ UNCHANGED <<kc, controller, world, secretCache, failures>>

SyncSecret ==
    /\ secretCache # secret
    /\ secretCache' = secret
    /\ UNCHANGED <<kc, cache, controller, world, failures>>

SetOwner ==
    /\ ~owner
    /\ owner' = TRUE
    /\ UNCHANGED <<kc, cache, controller, serviceType, service, secret, secretCache, extras, failures>>

\* The infra cluster gives the service an address.
AssignAddress ==
    /\ service = "created"
    /\ service' \in IF serviceType = "LoadBalancer" THEN {"ip", "hostname"} ELSE {"ip"}
    /\ UNCHANGED <<kc, cache, controller, owner, serviceType, secret, secretCache, extras, failures>>

DeleteCluster ==
    /\ kc.present /\ ~kc.deleting
    /\ kc' = Collect([kc EXCEPT !.deleting = TRUE])
    /\ UNCHANGED <<cache, controller, world, secretCache, failures>>

\* Whoever added the other finalizer removes it from an object being deleted.
ReleaseForeign ==
    /\ kc.deleting /\ kc.foreign
    /\ kc' = Collect([kc EXCEPT !.foreign = FALSE])
    /\ UNCHANGED <<cache, controller, world, secretCache, failures>>

Next ==
    \/ Controller \/ Crash \/ SyncCache \/ SyncSecret \/ SetOwner
    \/ AssignAddress \/ DeleteCluster \/ ReleaseForeign

Spec == Init /\ [][Next]_vars

\* A key is reconciled again and again, watches deliver, and the other
\* finalizer's owner lets the object go.
Fairness ==
    /\ WF_vars(Controller) /\ WF_vars(SyncCache) /\ WF_vars(SyncSecret)
    /\ WF_vars(ReleaseForeign)

FairSpec == Spec /\ Fairness

-----------------------------------------------------------------------------
(* Properties.                                                              *)

\* Every variable has its type, and outside a reconcile the controller
\* remembers nothing (Reconcile).
TypeOK ==
    /\ kc \in Object /\ cache \in Object /\ mem \in Object /\ before \in Object
    /\ pc \in Steps
    /\ found \in BOOLEAN /\ owner \in BOOLEAN
    /\ serviceType \in {"ClusterIP", "LoadBalancer"}
    /\ service \in Service
    /\ secret \in Keys \cup {NoKey} /\ secretCache \in Keys \cup {NoKey}
    /\ extras \subseteq Kinds
    /\ failures \in 0..MaxFailures
    /\ pc = "idle" => mem = NoObject /\ before = NoObject

\* The machines of the cluster are created with the public key: once there is
\* a key pair, no reconcile replaces it, however stale the two caches are and
\* wherever an earlier reconcile died (PersistKeysToSecret, IsPersistedToSecret).
KeysNeverChange == [][secret # NoKey => secret' = secret]_vars

\* The machine controller waits for SshKeys and then reads the secret: a
\* reference to it is never there before the secret.
KeysBehindReference == kc.keysRef => secret # NoKey

\* The finalizer is removed only when nothing that carries the cluster's
\* extra-resource label is left, whatever failed before (deleteExtraGVK).
ExtrasGoFirst == [][kc.finalizer /\ ~kc'.finalizer => extras = {}]_vars

\* "Ready denotes that the infrastructure is ready": as long as no call fails,
\* a cluster that is Ready refers to its node keys and has an endpoint, but
\* for a service of type LoadBalancer, whose ingress may lack an IP.  (A patch
\* of the spec that fails leaves a Ready cluster without either.)
ReadyMeansProvisioned ==
    kc.ready /\ failures = 0 => /\ kc.keysRef
                                /\ kc.endpoint \/ serviceType = "LoadBalancer"

\* A deleted KubevirtCluster goes away (reconcileDelete), another finalizer or
\* the refusal of a new one notwithstanding.
DeletionCompletes == kc.deleting /\ owner ~> ~kc.present

\* ClusterFinalizer "allows KubevirtClusterReconciler to clean up resources
\* associated with KubevirtCluster before removing it from the apiserver": the
\* service does not outlive the object.
NoLoadBalancerLeaked == kc.present \/ service = "none"

\* The same as long as no call fails and the controller does not crash.
NoLeakWithoutFailures == failures = 0 => NoLoadBalancerLeaked

-----------------------------------------------------------------------------
(* The inductive invariants behind these properties.                        *)

\* Every copy of the object refers to keys that are there, and the copy of the
\* secret is out of date only when it lacks the keys.
KeysInv ==
    /\ \A o \in {kc, cache, mem, before} : o.keysRef => secret # NoKey
    /\ secretCache # NoKey => secretCache = secret

Provisions == {"createLB", "endpoint", "keys", "persist"}
Deletes == {"deleteLB", "report", "extras"}

\* The reconcile is about to remove the finalizer.
Releases == pc \in {"save", "saveStatus"} /\ ~mem.finalizer

\* A reconcile that provisions works for an object that has its finalizer, one
\* that deletes for an object that is being deleted; and a service belongs to
\* an object with its finalizer until the reconcile that deletes it.
FinalizerInv ==
    /\ cache.present /\ cache.finalizer /\ ~cache.deleting => kc.present /\ kc.finalizer
    /\ cache.present /\ cache.deleting => ~kc.present \/ kc.deleting
    /\ pc \in Provisions => kc.present /\ kc.finalizer
    /\ pc \in Deletes \/ Releases =>
           (~cache.present \/ cache.deleting) /\ (~kc.present \/ kc.deleting)
    /\ pc \in Provisions \cup Deletes => mem.finalizer
    /\ Releases => extras = {}
    /\ pc = "deleteLB" /\ ~found => service = "none"
    /\ failures = 0 =>
           /\ service # "none" => kc.present /\ kc.finalizer
           /\ pc \in {"report", "extras"} \/ Releases => service = "none"

HasEndpoint(o) == o.endpoint \/ serviceType = "LoadBalancer"

Provided(o) == o.ready => o.keysRef /\ HasEndpoint(o)

\* What an older copy of the object has, a newer one has.
Follows(new, old) == (old.keysRef => new.keysRef) /\ (old.endpoint => new.endpoint)

\* What makes the cluster ready is written before the readiness, and stays.
ReadyInv ==
    /\ service = "hostname" => serviceType = "LoadBalancer"
    /\ kc.present => Follows(kc, cache) /\ Follows(kc, before)
    /\ Follows(mem, before) /\ (before.ready => mem.ready)
    /\ ~before.finalizer => pc \in {"idle", "save", "saveStatus"}
    /\ ~before.finalizer \/ ~mem.finalizer \/ pc \in Deletes => mem.ready = before.ready
    /\ pc \in {"keys", "persist"} => HasEndpoint(mem)
    /\ failures = 0 =>
           /\ Provided(kc) /\ Provided(cache) /\ Provided(mem) /\ Provided(before)
           /\ pc = "saveStatus" /\ kc.present /\ mem.ready # before.ready =>
                  kc.keysRef /\ HasEndpoint(kc)
=============================================================================
