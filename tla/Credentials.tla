----------------------------- MODULE Credentials ----------------------------
(***************************************************************************)
(* clusterkubevirtadm: the commands "create credentials", "apply           *)
(* credentials" and "get kubeconfig", which the administrators of an infra *)
(* cluster run for one tenant namespace.                                   *)
(*                                                                         *)
(* An invocation reads an object and then creates or updates it, object by *)
(* object, without any lock: two invocations may run at once, and each may *)
(* be interrupted between any two calls.  One step is one API call.        *)
(*                                                                         *)
(* Abstractions:                                                           *)
(*  - nobody removes what the tool has made;                               *)
(*  - the rules of the Role are those of this version of the tool or of an *)
(*    older one; an update of a Role that changed since it was read is     *)
(*    refused (its resourceVersion);                                       *)
(*  - whoever is called capk-user-rolebinding binds the Role to the        *)
(*    ServiceAccount: an existing one is not looked into;                  *)
(*  - a file is the sequence of its pieces, and a kubeconfig has one or    *)
(*    two, of which it says the namespace of its current context.          *)
(***************************************************************************)
EXTENDS Naturals, Sequences, FiniteSets

CONSTANTS
    Admins,          \* those who run the tool
    MaxInvocations,  \* bound: invocations of the tool
    MaxInterrupts    \* bound: interrupted invocations and failing calls

ASSUME MaxInvocationsAssumption == MaxInvocations \in Nat
ASSUME MaxInterruptsAssumption == MaxInterrupts \in Nat

VARIABLES
    tenant,       \* the objects of the tenant in the infra cluster
    cli,          \* per administrator: the invocation, running or finished
    alone,        \* history: those whose invocation no other one overlapped
    created,      \* history: create invocations that reported success
    promised,     \* history: a create or an apply has reported success
    output,       \* pieces of the file that get kubeconfig writes
    invocations,  \* invocations so far
    interrupts    \* interruptions so far

cliVars == <<tenant, cli, alone, created, promised, output, invocations, interrupts>>

\* role: the rules of the Role capk-user-role; secrets: what the
\* ServiceAccount lists
Tenant == [namespace : BOOLEAN, serviceAccount : BOOLEAN,
           secrets : SUBSET {"token", "dockercfg"},
           role : {"none", "old", "current"}, roleBinding : BOOLEAN]

Operations == {"create", "apply", "get"}

Calls == {"getNamespace", "createNamespace", "getServiceAccount",
          "createServiceAccount", "getRole", "createRole", "updateRole",
          "getRoleBinding", "createRoleBinding", "pollSecrets", "getToken"}

Results == {"none", "ok", "namespaceExists", "roleExists", "alreadyExists",
            "conflict", "notFound", "noToken", "timeout", "interrupted"}

\* Which namespace the current context of a kubeconfig has: the tenant's, the one
\* of the administrator's own context, or none, for want of a context.
Contexts == {"tenant", "admin", "none"}

Pieces == [context : Contexts \cup {"other"}, part : 1..2, of : 1..2]

\* A text of n pieces
Text(context, n) == [i \in 1..n |-> [context |-> context, part |-> i, of |-> n]]

\* The file is what one invocation wrote, without the tail of an older one.
Intact(file) == \E c \in Contexts, n \in 1..2 : file = Text(c, n)

\* next: the call it makes next, or "finished"; seen: the secrets that the
\* ServiceAccount listed when get kubeconfig read it
Invocation == [op : Operations, next : Calls \cup {"finished"}, result : Results,
               seen : SUBSET {"token", "dockercfg"}]

NotInvoked == [op |-> "get", next |-> "finished", result |-> "none", seen |-> {}]

Finished(p) == cli[p].next = "finished"

\* A namespace of its own, or none yet; in one that is there earlier
\* invocations, of older versions too, may have left any part.
CLIInit ==
    /\ tenant \in {t \in Tenant :
           /\ ~t.namespace => ~t.serviceAccount /\ t.role = "none" /\ ~t.roleBinding
           /\ ~t.serviceAccount => t.secrets = {}}
    /\ cli = [p \in Admins |-> NotInvoked]
    /\ alone = [p \in Admins |-> TRUE]
    /\ created = 0 /\ promised = FALSE
    /\ output \in {<<>>, Text("other", 2)}
    /\ invocations = 0 /\ interrupts = 0

-----------------------------------------------------------------------------
(* Steps of an invocation.                                                  *)

FirstCallOf(op) == IF op = "get" THEN "pollSecrets" ELSE "getNamespace"

\* NewCreateCommand, NewApplyCommand, NewGetCommand: the invocation starts.
Invoke(p, op) ==
    /\ Finished(p)
    /\ invocations < MaxInvocations
    /\ invocations' = invocations + 1
    /\ cli' = [cli EXCEPT ![p] = [op |-> op, next |-> FirstCallOf(op),
                                  result |-> "none", seen |-> {}]]
    /\ alone' = [q \in Admins |-> IF q = p THEN \A r \in Admins \ {p} : Finished(r)
                                  ELSE alone[q] /\ Finished(q)]
    /\ UNCHANGED <<tenant, created, promised, output, interrupts>>

\* The invocation goes on; the objects in the cluster become t.
GoOn(p, next, t) ==
    /\ cli' = [cli EXCEPT ![p].next = next]
    /\ tenant' = t
    /\ UNCHANGED <<alone, created, promised, output, invocations, interrupts>>

\* Mutant: the error of a step does not become that of the command.
FinishSilently(p, result, t) ==
    /\ cli' = [cli EXCEPT ![p].next = "finished", ![p].result = "ok"]
    /\ tenant' = t
    /\ created' = IF cli[p].op = "create" THEN created + 1 ELSE created
    /\ promised' = TRUE
    /\ UNCHANGED <<alone, output, invocations, interrupts>>

\* The invocation ends, with the error of the step that failed or with success.
Finish(p, result, t) ==
    /\ cli' = [cli EXCEPT ![p].next = "finished", ![p].result = result]
    /\ tenant' = t
    /\ created' = IF result = "ok" /\ cli[p].op = "create" THEN created + 1 ELSE created
    /\ promised' = (promised \/ (result = "ok" /\ cli[p].op # "get"))
    /\ UNCHANGED <<alone, output, invocations, interrupts>>

\* ensureNamespace: create refuses a namespace that is there.
EnsureNamespace(p) ==
    \/ /\ cli[p].next = "getNamespace"
       /\ \/ ~tenant.namespace /\ GoOn(p, "createNamespace", tenant)
          \/ /\ tenant.namespace /\ cli[p].op = "apply"
             /\ GoOn(p, "getServiceAccount", tenant)
          \/ /\ tenant.namespace /\ cli[p].op = "create"
             /\ Finish(p, "namespaceExists", tenant)
    \/ /\ cli[p].next = "createNamespace"
       /\ IF tenant.namespace THEN Finish(p, "alreadyExists", tenant)
          ELSE GoOn(p, "getServiceAccount", [tenant EXCEPT !.namespace = TRUE])

\* Mutant: the service account is expected to be absent.
ServiceAccountExpectedAbsent(p) ==
    /\ cli[p].next \in {"getServiceAccount", "createServiceAccount"}
    /\ IF tenant.serviceAccount THEN Finish(p, "alreadyExists", tenant)
       ELSE GoOn(p, "getRole", [tenant EXCEPT !.serviceAccount = TRUE])

\* ensureServiceAccount, createServiceAccount
EnsureServiceAccount(p) ==
    \/ /\ cli[p].next = "getServiceAccount"
       /\ GoOn(p, IF tenant.serviceAccount THEN "getRole" ELSE "createServiceAccount",
               tenant)
    \/ /\ cli[p].next = "createServiceAccount"
       /\ IF tenant.serviceAccount THEN Finish(p, "alreadyExists", tenant)
          ELSE GoOn(p, "getRole", [tenant EXCEPT !.serviceAccount = TRUE])

\* Mutant: apply keeps the rules it finds.
RoleKept(p) ==
    \/ /\ cli[p].next = "getRole"
       /\ GoOn(p, IF tenant.role = "none" THEN "createRole" ELSE "getRoleBinding", tenant)
    \/ /\ cli[p].next = "createRole"
       /\ GoOn(p, "getRoleBinding", [tenant EXCEPT !.role = "current"])

\* createOrUpdateRole.  apply updates a Role with other rules; create "should
\* never get here".
CreateOrUpdateRole(p) ==
    \/ /\ cli[p].next = "getRole"
       /\ \/ tenant.role = "none" /\ GoOn(p, "createRole", tenant)
          \/ /\ tenant.role = "old" /\ cli[p].op = "apply"
             /\ GoOn(p, "updateRole", tenant)
          \/ /\ tenant.role = "current" /\ cli[p].op = "apply"
             /\ GoOn(p, "getRoleBinding", tenant)
          \/ /\ tenant.role # "none" /\ cli[p].op = "create"
             /\ Finish(p, "roleExists", tenant)
    \/ /\ cli[p].next = "createRole"
       /\ IF tenant.role # "none" THEN Finish(p, "alreadyExists", tenant)
          ELSE GoOn(p, "getRoleBinding", [tenant EXCEPT !.role = "current"])
    \/ /\ cli[p].next = "updateRole"
       /\ IF tenant.role # "old" THEN Finish(p, "conflict", tenant)
          ELSE GoOn(p, "getRoleBinding", [tenant EXCEPT !.role = "current"])

\* ensureRoleBinding
EnsureRoleBinding(p) ==
    \/ /\ cli[p].next = "getRoleBinding"
       /\ IF tenant.roleBinding THEN Finish(p, "ok", tenant)
          ELSE GoOn(p, "createRoleBinding", tenant)
    \/ /\ cli[p].next = "createRoleBinding"
       /\ IF tenant.roleBinding THEN Finish(p, "alreadyExists", tenant)
          ELSE Finish(p, "ok", [tenant EXCEPT !.roleBinding = TRUE])

\* getServiceAccount: polls until the ServiceAccount lists a secret; one that
\* does not exist is an error at once.
PollSecrets(p) ==
    /\ cli[p].next = "pollSecrets"
    /\ \/ ~tenant.serviceAccount /\ Finish(p, "notFound", tenant)
       \/ /\ tenant.secrets # {}
          /\ cli' = [cli EXCEPT ![p].next = "getToken", ![p].seen = tenant.secrets]
          /\ UNCHANGED <<tenant, alone, created, promised, output, invocations, interrupts>>

\* Mutant: the poll has no deadline.
NoTimeout(p) ==
    /\ FALSE
    /\ Finish(p, "timeout", tenant)

\* The ten seconds of getServiceAccount are over.
Timeout(p) ==
    /\ cli[p].next = "pollSecrets"
    /\ Finish(p, "timeout", tenant)

\* Mutant: the file is appended to.
AppendToFile(old, new) == old \o new

\* writeKubeconfigFile: the file is opened without truncating it.
Overwrite(old, new) ==
    [i \in 1..(IF Len(old) > Len(new) THEN Len(old) ELSE Len(new)) |->
        IF i <= Len(new) THEN new[i] ELSE old[i]]

\* Mutant: the copied context keeps its namespace.
ownNamespaceKept(name) == IF name = "tenant" THEN "none" ELSE "admin"

\* createKubeconfig: the administrator's current context, the only one that
\* MinifyConfig leaves, is copied under the tenant's name, given the tenant's
\* namespace and removed under its own name, which may be the tenant's too.
createKubeconfig(name) ==
    LET copied == [n \in {name, "tenant"} |-> IF n = "tenant" THEN "tenant" ELSE "admin"]
        left == DOMAIN copied \ {name}
    IN  IF "tenant" \in left THEN copied["tenant"] ELSE "none"

\* getToken, createKubeconfig and writeKubeconfigFile
GetToken(p) ==
    /\ cli[p].next = "getToken"
    /\ \/ "token" \notin cli[p].seen /\ Finish(p, "noToken", tenant)
       \/ /\ "token" \in cli[p].seen
          /\ cli' = [cli EXCEPT ![p].next = "finished", ![p].result = "ok"]
          /\ \E name \in {"admin", "tenant"}, n \in 1..2 :
                 output' = Overwrite(output, Text(createKubeconfig(name), n))
          /\ UNCHANGED <<tenant, alone, created, promised, invocations, interrupts>>

\* The user interrupts the tool, or a call fails.
Interrupt(p) ==
    /\ ~Finished(p)
    /\ interrupts < MaxInterrupts
    /\ interrupts' = interrupts + 1
    /\ cli' = [cli EXCEPT ![p].next = "finished", ![p].result = "interrupted"]
    /\ UNCHANGED <<tenant, alone, created, promised, output, invocations>>

CLIStep(p) ==
    \/ EnsureNamespace(p) \/ EnsureServiceAccount(p) \/ CreateOrUpdateRole(p)
    \/ EnsureRoleBinding(p) \/ PollSecrets(p) \/ Timeout(p) \/ GetToken(p)

\* The infra cluster's token controller (and a registry's) adds secrets.
IssueSecret ==
    /\ tenant.serviceAccount
    /\ \E s \in {"token", "dockercfg"} \ tenant.secrets :
           tenant' = [tenant EXCEPT !.secrets = @ \cup {s}]
    /\ UNCHANGED <<cli, alone, created, promised, output, invocations, interrupts>>

CLINext ==
    \/ \E p \in Admins : CLIStep(p) \/ Interrupt(p) \/ \E op \in Operations : Invoke(p, op)
    \/ IssueSecret

-----------------------------------------------------------------------------
(* Properties.                                                              *)

CLITypeOK ==
    /\ tenant \in Tenant
    /\ cli \in [Admins -> Invocation]
    /\ alone \in [Admins -> BOOLEAN]
    /\ created \in 0..MaxInvocations
    /\ promised \in BOOLEAN
    /\ output \in UNION {[1..n -> Pieces] : n \in 0..2}
    /\ invocations \in 0..MaxInvocations
    /\ interrupts \in 0..MaxInterrupts

Granted ==
    /\ tenant.namespace /\ tenant.serviceAccount
    /\ tenant.role = "current" /\ tenant.roleBinding

\* A call on the infra cluster: a verb and a resource.
Call(verbs, resources) == verbs \X resources

\* The calls that the controllers make with the tenant's credentials: NewMachine,
\* Create, Delete and the eviction of a machine, its bootstrap secret, and the
\* load balancer.
InfraCalls ==
    Call({"get", "create", "update", "delete"}, {"virtualmachines", "secrets", "services"})
        \cup Call({"get", "delete"}, {"virtualmachineinstances"})
        \cup Call({"create"}, {"virtualmachineinstancemigrations"})
        \cup Call({"get"}, {"datavolumes"})

AllVerbs == {"get", "list", "watch", "create", "update", "patch", "delete"}

\* Mutant: the load balancer's Services are forgotten.
rulesWithoutServices ==
    Call(AllVerbs, {"virtualmachines", "virtualmachineinstances", "secrets"})
        \cup Call({"get", "list", "watch"}, {"datavolumes"})

\* generateRole
Rules ==
    Call(AllVerbs, {"virtualmachines", "virtualmachineinstances", "secrets", "services"})
        \cup Call({"get", "list", "watch"}, {"datavolumes"})

\* "minimal permissions required for the resources" (docs.go): what a tenant is
\* granted lets the controllers make every call but one: it cannot create a
\* migration, so that an evicted VM is always restarted and never moved.
AllowedExceptMigrations ==
    Granted => InfraCalls \ Rules = Call({"create"}, {"virtualmachineinstancemigrations"})

\* createOrUpdateResources: when create or apply reports success the tenant has
\* everything, the rules of this version included, whatever other invocations
\* do at the same time, were interrupted at, or left behind.
SuccessMeansGranted ==
    \A p \in Admins : cli[p].result = "ok" /\ cli[p].op # "get" => Granted

\* "Exists with error if the namespace is already exist": of all invocations of
\* create, however they overlap, at most one reports success.
OneCreateSucceeds == created <= 1

\* "should never get here: if the NS is already exist in create, we'll exit
\* much earlier" (createOrUpdateRole): an invocation is refused half way only
\* when another one overlaps it.  So what an interrupted invocation left behind
\* is completed by an apply that runs alone.
RefusedOnlyInCompany ==
    \A p \in Admins :
        cli[p].result \in {"roleExists", "alreadyExists", "conflict"} => ~alone[p]

\* Every invocation ends, also when the ServiceAccount never gets a secret.
InvocationsEnd == \A p \in Admins : ~Finished(p) ~> Finished(p)

-----------------------------------------------------------------------------
(* The inductive invariant behind these properties.                         *)

\* The calls after the namespace, the ServiceAccount and the Role are there
AfterRole == {"getRoleBinding", "createRoleBinding"}
AfterAccount == AfterRole \cup {"getRole", "createRole", "updateRole"}
AfterNamespace == AfterAccount \cup {"getServiceAccount", "createServiceAccount"}

\* An invocation has what it ensured, and one that succeeded has everything.
Ensured(p) ==
    /\ cli[p].next \in AfterNamespace => tenant.namespace
    /\ cli[p].next \in AfterAccount => tenant.serviceAccount
    /\ cli[p].next \in AfterRole => tenant.role = "current"
    /\ cli[p].next \in {"pollSecrets", "getToken"} => cli[p].op = "get"
    /\ cli[p].result = "ok" /\ cli[p].op # "get" => Granted

\* A create that made the namespace and has not finished
Creating(p) == cli[p].op = "create" /\ cli[p].next \in AfterNamespace

\* Whoever makes the namespace is the only one who may succeed with create.
OneCreator ==
    /\ created <= 1
    /\ ~tenant.namespace => created = 0 /\ tenant.role = "none"
    /\ \A p \in Admins : Creating(p) => created = 0 /\ tenant.namespace
    /\ \A p, q \in Admins : Creating(p) /\ Creating(q) => p = q

\* Nobody interferes with an invocation that runs alone: what it did not find is
\* still absent, and a create finds no Role.
Undisturbed(p) ==
    alone[p] =>
        /\ ~Finished(p) => \A q \in Admins \ {p} : Finished(q)
        /\ cli[p].next = "createNamespace" => ~tenant.namespace
        /\ cli[p].next = "createServiceAccount" => ~tenant.serviceAccount
        /\ cli[p].next = "createRole" => tenant.role = "none"
        /\ cli[p].next = "updateRole" => tenant.role = "old"
        /\ cli[p].next = "createRoleBinding" => ~tenant.roleBinding
        /\ Creating(p) /\ cli[p].next \notin AfterRole => tenant.role = "none"
        /\ cli[p].result \notin {"roleExists", "alreadyExists", "conflict"}

CLIInv ==
    /\ OneCreator
    /\ \A p \in Admins : Ensured(p) /\ Undisturbed(p)
=============================================================================
