----------------------------- MODULE InfraAccess ----------------------------
(***************************************************************************)
(* Which infra cluster an object may use.  The admission webhook           *)
(* (pkg/webhookhandler) and the infra cluster client (pkg/infracluster)    *)
(* each check the namespace of infraClusterSecretRef with code of their    *)
(* own; objects that carry an excluded annotation (pkg/annotationfilter)   *)
(* skip the first check but not the second.                                *)
(*                                                                         *)
(* A reference is the namespace it names: its secret's name plays no part. *)
(***************************************************************************)

CONSTANTS
    Namespaces,  \* of the management cluster and of the infra clusters
    NoName,      \* the empty string
    NoRef,       \* a reference that is nil
    Annotations  \* the annotations of objects

VARIABLE
    request      \* an admission request with the controller's configuration

ASSUME NamespacesAssumption == NoName \notin Namespaces /\ NoRef \notin Namespaces \cup {NoName}

Refs == Namespaces \cup {NoName, NoRef}

\* Filter.Excludes: the object carries one of the configured annotations.
Excludes(filter, annotations) == filter \cap annotations # {}

\* Mutant: an unknown controller namespace is not told from a reference
\* without one.
validateAnyWithoutController(ref, namespace, controller) ==
    \/ ref \in {NoRef, NoName, namespace, controller}
    \/ controller = NoName

\* validateInfraClusterSecretRef: accepts the reference.
validateInfraClusterSecretRef(ref, namespace, controller) ==
    \/ ref \in {NoRef, NoName, namespace}
    \/ controller # NoName /\ ref = controller

\* HandleCluster and HandleMachine: the answer to an admission request.
Handle(req) ==
    IF req.op \in {"create", "update"}
    THEN IF ~req.decodes THEN "badRequest"
         ELSE IF \/ Excludes(req.filter, req.annotations)
                 \/ validateInfraClusterSecretRef(req.ref, req.namespace, req.controller)
              THEN "allowed" ELSE "denied"
    ELSE IF req.op = "delete" THEN "allowed" ELSE "badRequest"

\* Mutant: an object of the controller's own namespace may refer anywhere.
RefusesTenantsOnly(ref, owner, controller) ==
    /\ ref # NoRef /\ ref # NoName
    /\ ref # owner
    /\ controller = NoName \/ ref # controller
    /\ owner # controller

\* GenerateInfraClusterClient refuses the reference of an object in owner.
RefusesNamespace(ref, owner, controller) ==
    /\ ref # NoRef /\ ref # NoName
    /\ ref # owner
    /\ controller = NoName \/ ref # controller

\* The namespace whose secret it reads.
SecretNamespace(ref, owner) == IF ref = NoName THEN owner ELSE ref

\* What a kubeconfig secret holds: the keys "kubeconfig" (absent, text that
\* does not parse or has no context, or the namespace of its context) and
\* "namespace", which may be blank.
NoKey == "noKey"
Malformed == "malformed"
SecretData == [kubeconfig : {NoKey, Malformed} \cup Namespaces,
               namespace : {NoKey, NoName} \cup Namespaces]

ASSUME KeysAssumption == {NoKey, Malformed} \cap Namespaces = {}

NoSecret == [kubeconfig |-> "noSecret", namespace |-> NoKey]
NoClient == "noClient"

\* GenerateInfraClusterClient: the namespace of the infra cluster where the
\* client works, or NoClient.  secret is what it finds at SecretNamespace.
GenerateInfraClusterClient(ref, owner, controller, secret) ==
    IF ref = NoRef THEN owner
    ELSE IF RefusesNamespace(ref, owner, controller) \/ secret = NoSecret THEN NoClient
    ELSE IF secret.kubeconfig \in {NoKey, Malformed} THEN NoClient
    ELSE IF secret.namespace # NoKey THEN secret.namespace ELSE secret.kubeconfig

NoRequest == [op |-> "none"]

AccessInit == request = NoRequest

\* ref: the namespace of infraClusterSecretRef; filter: --exclude-annotations;
\* controller: resolveControllerNamespace
Admission == [op : {"create", "update", "delete", "connect"}, decodes : BOOLEAN,
              annotations : SUBSET Annotations, ref : Refs, namespace : Namespaces,
              filter : SUBSET Annotations, controller : Namespaces \cup {NoName}]

\* The webhook looks into the object.
Examined(req) == req.op \in {"create", "update"} /\ req.decodes

\* The API server asks the webhook about an object; what is in one that it does
\* not look into plays no part.
Ask ==
    /\ request = NoRequest
    /\ request' \in Admission
    /\ Examined(request') \/ (request'.annotations = {} /\ request'.ref = NoRef)

Asked == request # NoRequest

\* The webhook and the client agree, although each has its own copy of the
\* check (validateInfraClusterSecretRef and GenerateInfraClusterClient): of an
\* object that the annotation filter does not exclude, a reference that was
\* admitted is never refused because of its namespace, and one that is denied
\* would be.
AdmissionAgreesWithClient ==
    Asked /\ Examined(request)
          /\ ~Excludes(request.filter, request.annotations)
        => (Handle(request) = "denied"
                <=> RefusesNamespace(request.ref, request.namespace, request.controller))

\* No reference, admitted or excluded from admission, makes CAPK read a secret
\* of another tenant (GenerateInfraClusterClient): the namespace it reads is the
\* object's own or CAPK's.
NoForeignSecret ==
    Asked /\ request.ref # NoRef
          /\ ~RefusesNamespace(request.ref, request.namespace, request.controller)
        => SecretNamespace(request.ref, request.namespace)
               \in {request.namespace, request.controller} \ {NoName}
=============================================================================
