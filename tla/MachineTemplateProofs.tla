------------------------ MODULE MachineTemplateProofs -----------------------
(***************************************************************************)
(* Proofs about the capacity that a KubevirtMachineTemplate announces      *)
(* (MachineTemplate): what is computed of a spec has its type and, as long *)
(* as a uint32 holds it, is what the machines have.                        *)
(***************************************************************************)
EXTENDS MachineTemplate, TLAPS

\* The numbers of a topology, and their product modulo 2^32
LEMMA TopologyType ==
    ASSUME NEW s \in TemplateSpec, s.topology # <<>>
    PROVE  s.topology[1] \in Nat /\ s.topology[2] \in Nat /\ s.topology[3] \in Nat
<1>1. s.topology \in Nat \X Nat \X Nat
  BY DEF TemplateSpec
<1>. QED  BY <1>1

LEMMA ProductType ==
    ASSUME NEW a \in Nat, NEW b \in Nat, NEW c \in Nat
    PROVE  /\ a * b * c \in Nat
           /\ (a * b * c) % Word \in Nat
           /\ a * b * c < Word => (a * b * c) % Word = a * b * c
<1>1. a * b \in Nat
  OBVIOUS
<1>2. a * b * c \in Nat
  BY <1>1
<1>. DEFINE n == a * b * c
<1>. HIDE DEF n
<1>3. n \in Nat => n % Word \in Nat /\ (n < Word => n % Word = n)
  BY WordAssumption
<1>. QED  BY <1>2, <1>3 DEF n

LEMMA CapacityType ==
    ASSUME NEW s \in Specs
    PROVE  extractCapacity(s) \in Capacity
<1>1. s \in TemplateSpec
  BY SpecsAssumption
<1>2. extractCPUCapacity(s) \in Quantity
  <2>1. CASE s.topology # <<>>
    <3>1. /\ AtLeastOne(s.topology[1]) \in Nat /\ AtLeastOne(s.topology[2]) \in Nat
          /\ AtLeastOne(s.topology[3]) \in Nat
      BY <1>1, <2>1, TopologyType DEF AtLeastOne
    <3>2. (AtLeastOne(s.topology[1]) * AtLeastOne(s.topology[2]) * AtLeastOne(s.topology[3])) % Word
              \in Nat
      BY <3>1, ProductType
    <3>. QED  BY <2>1, <3>2 DEF extractCPUCapacity, Quantity
  <2>2. CASE s.topology = <<>>
    BY <1>1, <2>2 DEF extractCPUCapacity, Quantity, TemplateSpec
  <2>. QED  BY <2>1, <2>2
<1>3. extractMemoryCapacity(s) \in Quantity
  BY <1>1 DEF extractMemoryCapacity, Quantity, TemplateSpec
<1>. QED  BY <1>2, <1>3 DEF extractCapacity, Capacity

-----------------------------------------------------------------------------
(* The capacity that is computed is the one the machines have.              *)

LEMMA FirstGivenOfThree ==
    ASSUME NEW a \in Quantity, NEW b \in Quantity, NEW c \in Quantity
    PROVE  FirstGiven(<<a, b, c>>)
               = IF a # Absent THEN a ELSE IF b # Absent THEN b ELSE c
<1>. DEFINE qs == <<a, b, c>>
            given == {i \in DOMAIN qs : qs[i] # Absent}
            first == CHOOSE i \in given : \A j \in given : i <= j
<1>1. /\ DOMAIN qs = 1..3 /\ qs[1] = a /\ qs[2] = b /\ qs[3] = c
  OBVIOUS
<1>2. FirstGiven(qs) = IF given = {} THEN Absent ELSE qs[first]
  BY DEF FirstGiven
<1>. HIDE DEF qs
<1>3. \A i : i \in given <=> i \in 1..3 /\ qs[i] # Absent
  BY <1>1
<1>. HIDE DEF given
<1>4. CASE a # Absent
  <2>1. 1 \in given /\ \A j \in given : 1 <= j
    BY <1>1, <1>3, <1>4
  <2>2. first = 1
    BY <1>3, <2>1
  <2>. QED  BY <1>1, <1>2, <1>4, <2>1, <2>2 DEF qs
<1>5. CASE a = Absent /\ b # Absent
  <2>1. 2 \in given /\ \A j \in given : 2 <= j
    BY <1>1, <1>3, <1>5
  <2>2. first = 2
    BY <1>3, <2>1
  <2>. QED  BY <1>1, <1>2, <1>5, <2>1, <2>2 DEF qs
<1>6. CASE a = Absent /\ b = Absent /\ c # Absent
  <2>1. 3 \in given /\ \A j \in given : 3 <= j
    BY <1>1, <1>3, <1>6
  <2>2. first = 3
    BY <1>3, <2>1
  <2>. QED  BY <1>1, <1>2, <1>6, <2>1, <2>2 DEF qs
<1>7. CASE a = Absent /\ b = Absent /\ c = Absent
  <2>1. given = {}
    BY <1>1, <1>3, <1>7
  <2>. QED  BY <1>2, <1>7, <2>1 DEF qs
<1>. QED  BY <1>4, <1>5, <1>6, <1>7

\* A zero in a topology counts as one, in the code and in the reference.
LEMMA ThreadsOfTopology ==
    ASSUME NEW s \in TemplateSpec, s.topology # <<>>
    PROVE  /\ Threads(s) = AtLeastOne(s.topology[1]) * AtLeastOne(s.topology[2])
                               * AtLeastOne(s.topology[3])
           /\ Threads(s) \in Nat
           /\ Threads(s) < Word => extractCPUCapacity(s) = IF s.template THEN Threads(s) ELSE Absent
<1>. DEFINE a == AtLeastOne(s.topology[1])
            b == AtLeastOne(s.topology[2])
            c == AtLeastOne(s.topology[3])
<1>1. a \in Nat /\ b \in Nat /\ c \in Nat
  BY TopologyType DEF AtLeastOne
<1>2. /\ a = (IF s.topology[1] = 0 THEN 1 ELSE s.topology[1])
      /\ b = (IF s.topology[2] = 0 THEN 1 ELSE s.topology[2])
      /\ c = (IF s.topology[3] = 0 THEN 1 ELSE s.topology[3])
  BY TopologyType DEF AtLeastOne
<1>. HIDE DEF a, b, c
<1>3. Threads(s) = a * b * c
  BY <1>2 DEF Threads
<1>4. extractCPUCapacity(s) = IF s.template THEN (a * b * c) % Word ELSE Absent
  BY DEF extractCPUCapacity, a, b, c
<1>5. a * b * c \in Nat /\ (a * b * c < Word => (a * b * c) % Word = a * b * c)
  BY <1>1, ProductType
<1>. QED  BY <1>3, <1>4, <1>5 DEF a, b, c

\* extractCapacity: of every spec, the capacity that the controller computes is
\* the one its doc comment defines, as long as the number of vCPUs is smaller
\* than 2^32; of a template with both memory.guest and memory in its resources,
\* where two comments disagree, it is the guest's.
THEOREM CapacityIsTrue ==
    \A s \in Specs : Threads(s) < Word => extractCapacity(s) = TrueCapacity(s)
<1>. SUFFICES ASSUME NEW s \in Specs, Threads(s) < Word
              PROVE  extractCapacity(s) = TrueCapacity(s)
  OBVIOUS
<1>1. s \in TemplateSpec
  BY SpecsAssumption
<1>2. /\ s.template \in BOOLEAN
      /\ s.guest \in Quantity /\ s.requests.cpu \in Quantity /\ s.requests.memory \in Quantity
      /\ s.limits.cpu \in Quantity /\ s.limits.memory \in Quantity
  BY <1>1 DEF TemplateSpec
<1>3. Threads(s) \in Quantity
  BY <1>1, ThreadsOfTopology DEF Threads, Quantity
<1>4. CASE ~s.template
  BY <1>4 DEF extractCapacity, extractCPUCapacity, extractMemoryCapacity, TrueCapacity, NoCapacity
<1>5. CASE s.template
  <2>1. extractCPUCapacity(s) = FirstGiven(<<Threads(s), s.requests.cpu, s.limits.cpu>>)
    <3>1. FirstGiven(<<Threads(s), s.requests.cpu, s.limits.cpu>>)
              = IF Threads(s) # Absent THEN Threads(s)
                ELSE IF s.requests.cpu # Absent THEN s.requests.cpu ELSE s.limits.cpu
      BY <1>2, <1>3, FirstGivenOfThree
    <3>2. CASE s.topology # <<>>
      <4>1. Threads(s) # Absent
        BY <1>1, <3>2, ThreadsOfTopology DEF Absent
      <4>2. extractCPUCapacity(s) = Threads(s)
        BY <1>1, <1>5, <3>2, ThreadsOfTopology
      <4>. QED  BY <3>1, <4>1, <4>2
    <3>3. CASE s.topology = <<>>
      <4>1. Threads(s) = Absent
        BY <3>3 DEF Threads
      <4>. QED  BY <1>5, <3>1, <3>3, <4>1 DEF extractCPUCapacity
    <3>. QED  BY <3>2, <3>3
  <2>2. extractMemoryCapacity(s) = IF Disputed(s) THEN s.guest ELSE DocumentedMemory(s)
    <3>1. DocumentedMemory(s)
              = IF s.requests.memory # Absent THEN s.requests.memory
                ELSE IF s.limits.memory # Absent THEN s.limits.memory ELSE s.guest
      BY <1>2, FirstGivenOfThree DEF DocumentedMemory
    <3>. QED  BY <1>5, <3>1 DEF extractMemoryCapacity, Disputed
  <2>. QED  BY <1>5, <2>1, <2>2 DEF extractCapacity, TrueCapacity, DocumentedCPU
<1>. QED  BY <1>2, <1>4, <1>5

-----------------------------------------------------------------------------
(* The controller and the users.                                            *)

TemplateTypes ==
    /\ template \in MachineTemplates /\ templateCache \in MachineTemplates
    /\ patch \in [active : BOOLEAN, from : Capacity, to : Capacity]
    /\ original \in BOOLEAN /\ errors \in 0..MaxErrors

LEMMA NoneTypes == NoTemplate \in MachineTemplates /\ NoCapacity \in Capacity
<1>1. NoCapacity \in Capacity
  BY DEF NoCapacity, Capacity, Quantity
<1>2. (CHOOSE s \in Specs : TRUE) \in Specs
  BY SpecsAssumption
<1>. QED  BY <1>1, <1>2 DEF NoTemplate, MachineTemplates

LEMMA TemplateInitTypes == TemplateInit => TemplateTypes
BY NoneTypes, MaxErrorsAssumption DEF TemplateInit, TemplateTypes, NoPatch

\* What a merge patch leaves is a capacity.
LEMMA MergedType ==
    ASSUME NEW old \in Capacity, NEW from \in Capacity, NEW to \in Capacity
    PROVE  [cpu |-> Merged(old.cpu, from.cpu, to.cpu),
            memory |-> Merged(old.memory, from.memory, to.memory)] \in Capacity
BY DEF Capacity, Merged

LEMMA TemplateNextTypes ==
    ASSUME TemplateTypes, TemplateNext
    PROVE  TemplateTypes'
<1>1. CASE ReconcileTemplate
  <2>1. templateCache.spec \in Specs /\ templateCache.capacity \in Capacity
    BY DEF TemplateTypes, MachineTemplates
  <2>2. extractCapacity(templateCache.spec) \in Capacity
    BY <2>1, CapacityType
  <2>. QED  BY <1>1, <2>1, <2>2 DEF ReconcileTemplate, TemplateTypes
<1>2. CASE PatchCapacity
  <2>1. NoPatch \in [active : BOOLEAN, from : Capacity, to : Capacity]
    BY NoneTypes DEF NoPatch
  <2>2. template' \in MachineTemplates /\ errors' \in 0..MaxErrors
    <3>1. [cpu |-> Merged(template.capacity.cpu, patch.from.cpu, patch.to.cpu),
           memory |-> Merged(template.capacity.memory, patch.from.memory, patch.to.memory)]
              \in Capacity
      BY MergedType DEF TemplateTypes, MachineTemplates
    <3>. QED  BY <1>2, <3>1, MaxErrorsAssumption
              DEF PatchCapacity, TemplateTypes, MachineTemplates
  <2>. QED  BY <1>2, <2>1, <2>2 DEF PatchCapacity, TemplateTypes
<1>3. CASE SyncTemplate
  BY <1>3 DEF SyncTemplate, TemplateTypes
<1>4. CASE CreateTemplate
  <2>1. \A s \in Specs, excluded \in BOOLEAN :
            [NoTemplate EXCEPT !.present = TRUE, !.excluded = excluded, !.spec = s]
                \in MachineTemplates
    BY NoneTypes DEF MachineTemplates
  <2>. QED  BY <1>4, <2>1 DEF CreateTemplate, TemplateTypes
<1>5. CASE UpdateTemplate
  <2>1. \A s \in Specs, excluded \in BOOLEAN :
            [template EXCEPT !.spec = s, !.excluded = excluded] \in MachineTemplates
    BY DEF TemplateTypes, MachineTemplates
  <2>. QED  BY <1>5, <2>1 DEF UpdateTemplate, TemplateTypes
<1>6. CASE DeleteTemplate
  BY <1>6, NoneTypes DEF DeleteTemplate, TemplateTypes
<1>. QED  BY <1>1, <1>2, <1>3, <1>4, <1>5, <1>6
          DEF TemplateNext, TemplateController, TemplateUsers

\* What CapacityNeverMisleads rests on: the cache and the patch of an original
\* template are of its spec, and a patch adds a capacity where there was none.
Announced(spec) == {NoCapacity, extractCapacity(spec)}

OriginalInv ==
    original =>
        /\ template.present => ~template.excluded /\ template.capacity \in Announced(template.spec)
        /\ templateCache.present =>
               /\ template.present /\ templateCache.spec = template.spec
               /\ templateCache.capacity \in Announced(template.spec)
        /\ patch.active =>
               /\ template.present
               /\ patch.from = NoCapacity /\ patch.to = extractCapacity(template.spec)

LEMMA OriginalInit == TemplateInit => OriginalInv
BY DEF TemplateInit, OriginalInv, NoTemplate, NoPatch

\* The merge of a capacity into none, or into itself, is that capacity.
LEMMA MergedCapacity ==
    ASSUME NEW c \in Capacity, NEW old \in {NoCapacity, c}
    PROVE  [cpu |-> Merged(old.cpu, NoCapacity.cpu, c.cpu),
            memory |-> Merged(old.memory, NoCapacity.memory, c.memory)] = c
<1>1. c = [cpu |-> c.cpu, memory |-> c.memory]
  BY DEF Capacity
<1>2. /\ Merged(old.cpu, NoCapacity.cpu, c.cpu) = c.cpu
      /\ Merged(old.memory, NoCapacity.memory, c.memory) = c.memory
  BY DEF Merged
<1>. QED  BY <1>1, <1>2

LEMMA OriginalNext ==
    ASSUME TemplateTypes, OriginalInv, TemplateNext
    PROVE  OriginalInv'
<1>. SUFFICES ASSUME original'  PROVE OriginalInv'
  BY DEF OriginalInv
<1>0. original
  BY DEF TemplateNext, TemplateController, TemplateUsers, ReconcileTemplate, PatchCapacity,
         SyncTemplate, CreateTemplate, UpdateTemplate, DeleteTemplate
<1>1. CASE ReconcileTemplate
  BY <1>0, <1>1 DEF ReconcileTemplate, OriginalInv, Announced
<1>2. CASE PatchCapacity
  <2>1. CASE UNCHANGED template
    BY <1>0, <1>2, <2>1 DEF PatchCapacity, OriginalInv, NoPatch
  <2>2. CASE ~UNCHANGED template
    <3>. DEFINE c == extractCapacity(template.spec)
    <3>1. template.spec \in Specs /\ template.capacity \in {NoCapacity, c} /\ patch.active
          /\ patch.from = NoCapacity /\ patch.to = c
      BY <1>0, <1>2, <2>2 DEF PatchCapacity, OriginalInv, Announced, TemplateTypes, MachineTemplates
    <3>2. c \in Capacity
      BY <3>1, CapacityType
    <3>. HIDE DEF c
    <3>3. template' = [template EXCEPT !.capacity =
              [cpu |-> Merged(template.capacity.cpu, NoCapacity.cpu, c.cpu),
               memory |-> Merged(template.capacity.memory, NoCapacity.memory, c.memory)]]
      BY <1>2, <2>2, <3>1 DEF PatchCapacity
    <3>4. template' = [template EXCEPT !.capacity = c]
      BY <3>1, <3>2, <3>3, MergedCapacity
    <3>5. /\ template'.present = template.present /\ template'.excluded = template.excluded
          /\ template'.spec = template.spec /\ template'.capacity = c
      BY <3>4 DEF TemplateTypes, MachineTemplates
    <3>6. ~patch'.active /\ UNCHANGED templateCache
      BY <1>2 DEF PatchCapacity, NoPatch
    <3>. QED  BY <1>0, <3>5, <3>6 DEF OriginalInv, Announced, c
  <2>. QED  BY <2>1, <2>2
<1>3. CASE SyncTemplate
  BY <1>0, <1>3 DEF SyncTemplate, OriginalInv
<1>4. CASE CreateTemplate
  <2>1. PICK s \in Specs, excluded \in BOOLEAN :
            /\ template' = [NoTemplate EXCEPT !.present = TRUE, !.excluded = excluded, !.spec = s]
            /\ original' = (original /\ ~excluded)
    BY <1>4 DEF CreateTemplate
  <2>2. template'.present /\ ~template'.excluded /\ template'.capacity = NoCapacity
    BY <2>1 DEF NoTemplate
  <2>3. ~templateCache'.present /\ ~patch'.active
    BY <1>0, <1>4 DEF CreateTemplate, OriginalInv
  <2>. QED  BY <2>2, <2>3 DEF OriginalInv, Announced
<1>5. CASE UpdateTemplate
  <2>1. PICK s \in Specs, excluded \in BOOLEAN :
            LET new == [template EXCEPT !.spec = s, !.excluded = excluded]
            IN  /\ Allowed("update", template, new) /\ template' = new
                /\ original' = (original /\ ~excluded)
    BY <1>5 DEF UpdateTemplate
  <2>2. ~excluded /\ ~template.excluded /\ template.present
    BY <1>0, <1>5, <2>1 DEF UpdateTemplate, OriginalInv
  <2>3. template'.present /\ template'.spec = s /\ template'.excluded = excluded
        /\ template'.capacity = template.capacity
    BY <2>1, <2>2 DEF TemplateTypes, MachineTemplates
  <2>4. template'.spec = template.spec
    BY <2>1, <2>2, <2>3 DEF Allowed, HandleTemplate
  <2>5. UNCHANGED <<templateCache, patch>>
    BY <1>5 DEF UpdateTemplate
  <2>. QED  BY <1>0, <2>2, <2>3, <2>4, <2>5 DEF OriginalInv
<1>6. CASE DeleteTemplate
  BY <1>6 DEF DeleteTemplate
<1>. QED  BY <1>1, <1>2, <1>3, <1>4, <1>5, <1>6
          DEF TemplateNext, TemplateController, TemplateUsers

\* What an original template announces is true.
LEMMA AnnouncedIsTrue == TemplateTypes /\ OriginalInv => CapacityNeverMisleads
<1>. SUFFICES ASSUME TemplateTypes, OriginalInv, original, template.present,
                     Threads(template.spec) < Word
              PROVE  template.capacity \in {NoCapacity, TrueCapacity(template.spec)}
  BY DEF CapacityNeverMisleads
<1>1. template.spec \in Specs
  BY DEF TemplateTypes, MachineTemplates
<1>. QED  BY <1>1, CapacityIsTrue DEF OriginalInv, Announced
=============================================================================
