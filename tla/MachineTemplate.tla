--------------------------- MODULE MachineTemplate --------------------------
(***************************************************************************)
(* A KubevirtMachineTemplate: the admission webhook that keeps its spec    *)
(* (pkg/webhookhandler/validator.go) and the controller that publishes the *)
(* capacity of its machines, from which an autoscaler works                *)
(* (controllers/kubevirtmachinetemplate_controller.go).                    *)
(*                                                                         *)
(* The controller reads the template from a cache and writes the status    *)
(* with a merge patch that carries no version, so it may write what it     *)
(* computed from a spec, or for a template, that is no longer there.       *)
(*                                                                         *)
(* Abstractions: a quantity is a number; excluded says that the object     *)
(* carries an annotation of the filter; requests that the webhook does not *)
(* allow, dry runs and patches that change nothing change no state.        *)
(***************************************************************************)
EXTENDS Integers, Sequences

CONSTANTS
    Specs,       \* the specs that users write
    Word,        \* where a uint32 wraps around
    MaxErrors    \* bound: failing patches and crashes of the controller

Absent == -1     \* a quantity or a topology that is not given

Quantity == Nat \cup {Absent}

\* Spec.Template.Spec.VirtualMachineTemplate.Spec: whether Template is set, and
\* of its domain cpu (cores, sockets and threads), memory.guest and resources
TemplateSpec ==
    [template : BOOLEAN, topology : {<<>>} \cup (Nat \X Nat \X Nat), guest : Quantity,
     requests : [cpu : Quantity, memory : Quantity], limits : [cpu : Quantity, memory : Quantity]]

Capacity == [cpu : Quantity, memory : Quantity]

MachineTemplates == [present : BOOLEAN, excluded : BOOLEAN, spec : Specs, capacity : Capacity]

NoCapacity == [cpu |-> Absent, memory |-> Absent]

ASSUME SpecsAssumption == Specs \subseteq TemplateSpec /\ Specs # {}
ASSUME WordAssumption == Word \in Nat \ {0}
ASSUME MaxErrorsAssumption == MaxErrors \in Nat

VARIABLES
    template,       \* the template on the API server
    templateCache,  \* the informer's copy that the controller reads
    patch,          \* the status patch under way, or NoPatch
    original,       \* history: no template was deleted or ever excluded
    errors          \* failing patches and crashes so far

templateVars == <<template, templateCache, patch, original, errors>>

-----------------------------------------------------------------------------
(* The capacity.                                                            *)

AtLeastOne(n) == IF n > 0 THEN n ELSE 1

\* extractCPUCapacity: the product of three uint32
extractCPUCapacity(s) ==
    IF ~s.template THEN Absent
    ELSE IF s.topology # <<>>
    THEN (AtLeastOne(s.topology[1]) * AtLeastOne(s.topology[2])
             * AtLeastOne(s.topology[3])) % Word
    ELSE IF s.requests.cpu # Absent THEN s.requests.cpu ELSE s.limits.cpu

extractMemoryCapacity(s) ==
    IF ~s.template THEN Absent
    ELSE IF s.guest # Absent THEN s.guest
    ELSE IF s.requests.memory # Absent THEN s.requests.memory ELSE s.limits.memory

extractCapacity(s) == [cpu |-> extractCPUCapacity(s), memory |-> extractMemoryCapacity(s)]

-----------------------------------------------------------------------------
(* The controller.                                                          *)

NoTemplate == [present |-> FALSE, excluded |-> FALSE, spec |-> CHOOSE s \in Specs : TRUE,
               capacity |-> NoCapacity]

NoPatch == [active |-> FALSE, from |-> NoCapacity, to |-> NoCapacity]

TemplateInit ==
    /\ template = NoTemplate
    /\ templateCache = template
    /\ patch = NoPatch
    /\ original = TRUE
    /\ errors = 0

\* Mutant: a capacity that was published is kept.
ReconcileOnce ==
    /\ ~patch.active
    /\ templateCache.present /\ ~templateCache.excluded
    /\ templateCache.capacity = NoCapacity
    /\ extractCapacity(templateCache.spec) # NoCapacity
    /\ patch' = [active |-> TRUE, from |-> templateCache.capacity,
                 to |-> extractCapacity(templateCache.spec)]
    /\ UNCHANGED <<template, templateCache, original, errors>>

\* Reconcile up to the patch: nothing is done for a template that is gone,
\* excluded or up to date.
ReconcileTemplate ==
    /\ ~patch.active
    /\ templateCache.present /\ ~templateCache.excluded
    /\ extractCapacity(templateCache.spec) # templateCache.capacity
    /\ patch' = [active |-> TRUE, from |-> templateCache.capacity,
                 to |-> extractCapacity(templateCache.spec)]
    /\ UNCHANGED <<template, templateCache, original, errors>>

Merged(old, from, to) == IF to # from THEN to ELSE old

\* helper.Patch: what differs between the status read and the one computed is
\* written, to whatever template has the name; NotFound is no error.
PatchCapacity ==
    /\ patch.active
    /\ patch' = NoPatch
    /\ \/ /\ template' = IF ~template.present THEN template
                         ELSE [template EXCEPT !.capacity =
                                  [cpu |-> Merged(@.cpu, patch.from.cpu, patch.to.cpu),
                                   memory |-> Merged(@.memory, patch.from.memory, patch.to.memory)]]
          /\ UNCHANGED errors
       \/ /\ errors < MaxErrors
          /\ errors' = errors + 1
          /\ UNCHANGED template
    /\ UNCHANGED <<templateCache, original>>

SyncTemplate ==
    /\ templateCache # template
    /\ templateCache' = template
    /\ UNCHANGED <<template, patch, original, errors>>

-----------------------------------------------------------------------------
(* Users, and the webhook that answers them.                                *)

\* Mutant: the object as it was is not looked at.
HandleTemplateNew(op, dryRun, decodes, old, new) ==
    IF op \in {"create", "update", "delete"} /\ decodes THEN "allowed" ELSE "badRequest"

\* kubevirtMachineTemplateHandler.Handle: the answer to a request.  A dry run of
\* an update is not even decoded.
HandleTemplate(op, dryRun, decodes, old, new) ==
    IF op \notin {"create", "update", "delete"} THEN "badRequest"
    ELSE IF op = "update" /\ dryRun THEN "allowed"
    ELSE IF ~decodes THEN "badRequest"
    ELSE IF op = "update" /\ ~old.excluded /\ ~new.excluded /\ old.spec # new.spec
         THEN "denied" ELSE "allowed"

Allowed(op, old, new) == HandleTemplate(op, FALSE, TRUE, old, new) = "allowed"

CreateTemplate ==
    /\ ~template.present
    /\ \E s \in Specs, excluded \in BOOLEAN :
           LET new == [NoTemplate EXCEPT !.present = TRUE, !.excluded = excluded, !.spec = s]
           IN  /\ Allowed("create", template, new)
               /\ template' = new
               /\ original' = (original /\ ~excluded)
    /\ UNCHANGED <<templateCache, patch, errors>>

UpdateTemplate ==
    /\ template.present
    /\ \E s \in Specs, excluded \in BOOLEAN :
           LET new == [template EXCEPT !.spec = s, !.excluded = excluded]
           IN  /\ Allowed("update", template, new)
               /\ template' = new
               /\ original' = (original /\ ~excluded)
    /\ UNCHANGED <<templateCache, patch, errors>>

DeleteTemplate ==
    /\ template.present
    /\ Allowed("delete", template, template)
    /\ template' = NoTemplate
    /\ original' = FALSE
    /\ UNCHANGED <<templateCache, patch, errors>>

TemplateController == ReconcileTemplate \/ PatchCapacity

TemplateUsers == CreateTemplate \/ UpdateTemplate \/ DeleteTemplate

TemplateNext == TemplateController \/ SyncTemplate \/ TemplateUsers

-----------------------------------------------------------------------------
(* Properties.                                                              *)

\* The first quantity that is given
FirstGiven(qs) ==
    LET given == {i \in DOMAIN qs : qs[i] # Absent}
    IN  IF given = {} THEN Absent ELSE qs[CHOOSE i \in given : \A j \in given : i <= j]

\* The hardware threads of a topology; a zero stands for one.
Threads(s) ==
    IF s.topology = <<>> THEN Absent
    ELSE LET n(i) == IF s.topology[i] = 0 THEN 1 ELSE s.topology[i]
         IN  n(1) * n(2) * n(3)

\* "domain.cpu (cores * sockets * threads) > domain.resources.requests.cpu >
\* domain.resources.limits.cpu" (extractCPUCapacity)
DocumentedCPU(s) == FirstGiven(<<Threads(s), s.requests.cpu, s.limits.cpu>>)

\* "resources.requests (memory, cpu fallback)", and "memory.guest (if memory not in
\* resources)" (the doc comment of extractCapacity)
DocumentedMemory(s) == FirstGiven(<<s.requests.memory, s.limits.memory, s.guest>>)

\* A comment inside extractMemoryCapacity contradicts that one where both are
\* given: "domain.memory.guest > domain.resources.requests.memory > ...".  The code
\* does as this comment says, and the guest's memory is what its machine gets.
Disputed(s) == s.guest # Absent /\ (s.requests.memory # Absent \/ s.limits.memory # Absent)

TrueCapacity(s) ==
    IF ~s.template THEN NoCapacity
    ELSE [cpu |-> DocumentedCPU(s),
          memory |-> IF Disputed(s) THEN s.guest ELSE DocumentedMemory(s)]

\* A template that stays, and stays managed, comes to announce the capacity its
\* machines have (Reconcile), although patches fail, are computed from a stale
\* cache, or land on another template of the same name.  The number of vCPUs is
\* right as long as it is smaller than 2^32; memory is as documented but for
\* templates that are Disputed, which announce the guest's.
CapacityConverges ==
    <>[](template.present /\ ~template.excluded /\ Threads(template.spec) < Word)
        => <>[](template.capacity = TrueCapacity(template.spec))

\* "KubevirtMachineTemplateSpec is immutable": an autoscaler that reads the
\* capacity of a template, at any time, is told nothing or the truth, however
\* old the copy was that the controller computed it from, unless a template of
\* that name was deleted or excluded from validation before.
CapacityNeverMisleads ==
    original /\ template.present /\ Threads(template.spec) < Word
        => template.capacity \in {NoCapacity, TrueCapacity(template.spec)}
=============================================================================
