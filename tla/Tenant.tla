------------------------------- MODULE Tenant -------------------------------
(***************************************************************************)
(* The way of a tenant from clusterkubevirtadm to its machines: the        *)
(* administrators grant access (Credentials); the kubeconfig they hand out *)
(* becomes the secret of an infraClusterSecretRef, which is admitted and   *)
(* from which the client of the infra cluster is made (InfraAccess); then  *)
(* templates announce their capacity (MachineTemplate) and machines are    *)
(* made from them (VirtualMachine).                                        *)
(*                                                                         *)
(* The parts work one after the other, which bounds the state space:       *)
(*  - once a kubeconfig is handed out clusterkubevirtadm is not run again, *)
(*    and what its invocations reported is forgotten;                      *)
(*  - a machine is read when its template is up to date, and the template  *)
(*    stays as it is meanwhile.                                            *)
(***************************************************************************)
EXTENDS Credentials, InfraAccess, MachineTemplate, VirtualMachine

CONSTANT TenantNamespace   \* the namespace that clusterkubevirtadm is given

ASSUME TenantNamespaceAssumption == TenantNamespace \in Namespaces

VARIABLES
    secret,   \* the secret that infraClusterSecretRef names, or NoSecret
    genuine,  \* history: it holds the kubeconfig as one get kubeconfig wrote it
    client    \* the namespace where the client of the infra cluster works

tenantVars == <<cliVars, request, secret, genuine, client, templateVars, input>>

Connected == client # NoClient

Init ==
    /\ CLIInit
    /\ AccessInit
    /\ secret = NoSecret /\ genuine = FALSE /\ client = NoClient
    /\ TemplateInit
    /\ VMInit

-----------------------------------------------------------------------------
(* From the administrators to the client.                                   *)

\* What the file's current context may turn out to be.  Nothing is known of a
\* file that ends in the tail of an older one: it may parse or not.
ContextNamespaces(file) ==
    IF Intact(file)
    THEN [tenant |-> {TenantNamespace}, admin |-> Namespaces \ {TenantNamespace},
          none |-> {Malformed}][file[1].context]
    ELSE {Malformed} \cup Namespaces

\* The tenant's user stores the file that get kubeconfig wrote, or forgets its
\* key, in a secret with a namespace or without.  Nobody asks whether access has
\* been granted.
HandOut ==
    /\ secret = NoSecret
    /\ \A p \in Admins : Finished(p)
    /\ \E p \in Admins : cli[p].op = "get" /\ cli[p].result = "ok"
    /\ secret' \in {d \in SecretData : d.kubeconfig \in {NoKey} \cup ContextNamespaces(output)}
    /\ genuine' = (Intact(output) /\ secret'.kubeconfig \in Namespaces)
    /\ cli' = [p \in Admins |-> NotInvoked]
    /\ alone' = [p \in Admins |-> TRUE]
    /\ created' = 0 /\ output' = <<>>
    /\ invocations' = MaxInvocations /\ interrupts' = MaxInterrupts
    /\ UNCHANGED <<tenant, promised, request, client, templateVars, input>>

\* An object with the reference is admitted, and its controller makes a client;
\* one that is not admitted, or is refused, is given up.
Connect ==
    /\ Asked
    /\ request' = NoRequest
    /\ client' = IF Handle(request) = "allowed" /\ request.op \in {"create", "update"}
                 THEN GenerateInfraClusterClient(request.ref, request.namespace,
                                                 request.controller, secret)
                 ELSE NoClient
    /\ UNCHANGED <<cliVars, secret, genuine, templateVars, input>>

\* bound: machines are made for a tenant that was promised access and uses the
\* file as it is.
Ready ==
    /\ client = TenantNamespace /\ promised /\ genuine
    /\ secret = [kubeconfig |-> TenantNamespace, namespace |-> NoKey]

\* The object is deleted.
Disconnect ==
    /\ Connected /\ ~Ready
    /\ client' = NoClient
    /\ UNCHANGED <<cliVars, request, secret, genuine, templateVars, input>>

Access ==
    \/ HandOut \/ Connect \/ Disconnect
    \/ /\ secret # NoSecret /\ ~Connected
       /\ Ask
       /\ UNCHANGED <<cliVars, secret, genuine, client, templateVars, input>>

-----------------------------------------------------------------------------
(* The whole.                                                               *)

CLI(A) == secret = NoSecret /\ A /\ UNCHANGED <<request, secret, genuine, client, templateVars, input>>

Template(A) ==
    Ready /\ input = NoInput /\ A /\ UNCHANGED <<cliVars, request, secret, genuine, client, input>>

\* bound: machines are made from original templates that are up to date
UpToDate ==
    /\ original /\ template.present /\ ~template.excluded /\ templateCache = template
    /\ ~patch.active /\ errors = 0
    /\ template.capacity = extractCapacity(template.spec)

MachineStep ==
    /\ Ready /\ UpToDate
    /\ VMNext
    /\ UNCHANGED <<cliVars, request, secret, genuine, client, templateVars>>

Next == CLI(CLINext) \/ Access \/ Template(TemplateNext) \/ MachineStep

\* An invocation that runs makes its calls, the controller of the templates has
\* a queue that is worked off, and informers catch up.
Fairness ==
    /\ \A p \in Admins : WF_tenantVars(CLI(CLIStep(p)))
    /\ WF_tenantVars(Template(TemplateController))
    /\ WF_tenantVars(Template(SyncTemplate))

Spec == Init /\ [][Next]_tenantVars /\ Fairness

-----------------------------------------------------------------------------
(* Properties.                                                              *)

TypeOK ==
    /\ CLITypeOK
    /\ request \in Admission \cup {NoRequest}
    /\ secret \in SecretData \cup {NoSecret} /\ genuine \in BOOLEAN
    /\ client \in Namespaces \cup {NoClient, NoName}
    /\ template \in MachineTemplates /\ templateCache \in MachineTemplates
    /\ patch \in [active : BOOLEAN, from : Capacity, to : Capacity]
    /\ original \in BOOLEAN /\ errors \in 0..MaxErrors

\* A client made from a kubeconfig that get wrote into a file of its own works in
\* the tenant's namespace, whichever context the administrator had (createKubeconfig,
\* GenerateInfraClusterClient), unless its secret names another; and if a create or
\* an apply had reported success by then, the Role is bound there, whatever other
\* invocations did.  get asks for no Role: without such a report access may be
\* missing, and a file with the tail of an older one may lead anywhere.
PromisedClientWorks ==
    [][ Connected' /\ ~Connected /\ request.ref # NoRef /\ secret.namespace = NoKey /\ genuine
            => client' = TenantNamespace /\ (promised => Granted) ]_tenantVars
=============================================================================
