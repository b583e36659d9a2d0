------------------------ MODULE VirtualMachineProofs ------------------------
(***************************************************************************)
(* Proofs about what CAPK computes of a VM (VirtualMachine): for every     *)
(* input of the type, whatever the words, the keys and the lengths, each   *)
(* function does what it is for.                                           *)
(***************************************************************************)
EXTENDS VirtualMachine, SequenceTheorems, WellFoundedInduction, TLAPS

-----------------------------------------------------------------------------
(* Lists and least indices.                                                 *)

LEMMA ListsAreSequences == \A S : Lists(S) \subseteq Seq(S)
<1>. SUFFICES ASSUME NEW S, NEW s \in Lists(S)  PROVE s \in Seq(S)
  OBVIOUS
<1>1. PICK n \in 0..MaxLength : s \in [1..n -> S]
  BY DEF Lists
<1>2. n \in Nat
  BY MaxLengthAssumption
<1>. QED  BY <1>1, <1>2, SeqDef

\* A set of indices that is not empty has a least one.
LEMMA HasLeast ==
    ASSUME NEW S \in SUBSET Nat, S # {}
    PROVE  \E i \in S : \A j \in S : i <= j
<1>. DEFINE R == OpToRel(<, Nat)
<1>1. IsWellFoundedOn(R, Nat)
  BY NatLessThanWellFounded
<1>2. \A x, y \in Nat : x < y => <<x, y>> \in R
  BY DEF OpToRel
<1>. HIDE DEF R
<1>3. PICK i \in S : \A j \in S : ~(<<j, i>> \in R)
  <2>1. S \subseteq Nat
    OBVIOUS
  <2>. QED  BY <1>1, <2>1, WFMin
<1>4. ASSUME NEW j \in S  PROVE i <= j
  <2>1. i \in Nat /\ j \in Nat
    OBVIOUS
  <2>2. ~(j < i)
    BY <1>2, <1>3, <2>1, Zenon
  <2>. QED  BY <2>1, <2>2
<1>. QED  BY <1>4

\* What the code's loops find: the first index of a set.
LEMMA FirstIndex ==
    ASSUME NEW S \in SUBSET Nat, S # {}
    PROVE  LET first == CHOOSE i \in S : \A j \in S : i <= j
           IN  first \in S /\ \A j \in S : first <= j
BY HasLeast

-----------------------------------------------------------------------------
(* prefixDataVolumeTemplates                                                *)

\* Names of as many parts that give the same name to a DataVolume are equal.
LEMMA PrefixesDiffer ==
    ASSUME NEW m \in Seq(Words), NEW o \in Seq(Words), Len(m) = Len(o),
           NEW a \in Seq(Words), NEW b \in Seq(Words), m \o a = o \o b
    PROVE  m = o
<1>1. \A i \in 1..Len(m) : m[i] = (m \o a)[i]
  BY ConcatProperties, LenProperties
<1>2. \A i \in 1..Len(o) : o[i] = (o \o b)[i]
  BY ConcatProperties, LenProperties
<1>. QED  BY <1>1, <1>2, SeqEqual

\* A template with DataVolumes dvs and volumes vols
VMTemplate(dvs, vols) == [dataVolumes |-> dvs, volumes |-> vols]

\* The template's volumes with that of the user data
WithUserData(vols, name) == Append(vols, [source |-> "cloudInit", name |-> name])

\* A volume that is renamed with the DataVolumes of the template t
Renamed(t, v) == v.source \in {"dataVolume", "claim"} /\ v.name \in Named(t)

\* newVirtualMachine: the names of the DataVolumes
LEMMA NewNames ==
    ASSUME NEW m, NEW name, NEW dvs, NEW vols
    PROVE  \A n : n \in Named(newVirtualMachine(m, name, VMTemplate(dvs, vols)))
                      <=> \E i \in DOMAIN dvs : n = m \o dvs[i]
<1>. DEFINE t == VMTemplate(dvs, vols)
            vm == newVirtualMachine(m, name, t)
            u == [dataVolumes |-> dvs, volumes |-> WithUserData(vols, name)]
<1>1. [t EXCEPT !.volumes = Append(@, [source |-> "cloudInit", name |-> name])] = u
  BY DEF WithUserData, VMTemplate
<1>2. vm = prefixDataVolumeTemplates(u, m)
  BY <1>1 DEF newVirtualMachine
<1>3. u.dataVolumes = dvs
  OBVIOUS
<1>. HIDE DEF u
<1>4. prefixDataVolumeTemplates(u, m).dataVolumes = [i \in DOMAIN dvs |-> m \o dvs[i]]
  BY <1>3 DEF prefixDataVolumeTemplates, prefixed
<1>. HIDE DEF vm
<1>5. \A n : n \in Named(vm) <=> \E i \in DOMAIN dvs : n = m \o dvs[i]
  BY <1>2, <1>4 DEF Named
<1>. QED  BY <1>5 DEF vm

\* newVirtualMachine: each of the volumes
LEMMA NewVolumes ==
    ASSUME NEW m, NEW name, NEW dvs, NEW vols, NEW i \in DOMAIN WithUserData(vols, name)
    PROVE  LET t == VMTemplate(dvs, vols)
               v == WithUserData(vols, name)[i]
               new == newVirtualMachine(m, name, t).volumes[i]
           IN  /\ Renamed(t, v) /\ v \in Volume => new.name = m \o v.name
               /\ ~Renamed(t, v) => new = v
<1>. DEFINE t == VMTemplate(dvs, vols)
            vm == newVirtualMachine(m, name, t)
            all == WithUserData(vols, name)
            u == [dataVolumes |-> dvs, volumes |-> all]
<1>1. [t EXCEPT !.volumes = Append(@, [source |-> "cloudInit", name |-> name])] = u
  BY DEF WithUserData, VMTemplate
<1>2. vm = prefixDataVolumeTemplates(u, m)
  BY <1>1 DEF newVirtualMachine
<1>3. u.dataVolumes = dvs /\ u.volumes = all
  OBVIOUS
<1>4. Named(t) = {u.dataVolumes[j] : j \in DOMAIN u.dataVolumes}
  BY DEF Named, VMTemplate
<1>. HIDE DEF u
<1>5. prefixDataVolumeTemplates(u, m).volumes = [j \in DOMAIN all |->
          IF all[j].source \in {"dataVolume", "claim"} /\ all[j].name \in Named(t)
          THEN [all[j] EXCEPT !.name = m \o @] ELSE all[j]]
  BY <1>3, <1>4, Zenon DEF prefixDataVolumeTemplates, prefixed
<1>. HIDE DEF vm, all, t
<1>6. vm.volumes[i] =
          IF all[i].source \in {"dataVolume", "claim"} /\ all[i].name \in Named(t)
          THEN [all[i] EXCEPT !.name = m \o @] ELSE all[i]
  BY <1>2, <1>5 DEF all
<1>7. /\ Renamed(t, all[i]) /\ all[i] \in Volume => vm.volumes[i].name = m \o all[i].name
      /\ ~Renamed(t, all[i]) => vm.volumes[i] = all[i]
  BY <1>6 DEF Volume, Renamed
<1>. QED  BY <1>7 DEF vm, all, t

\* Appending a unique prefix: machines of as many parts share no DataVolume.
LEMMA UniqueNames == input \in Inputs => DataVolumesUnique
<1>. SUFFICES ASSUME input \in Inputs, input.of = "newVM",
                     NEW other \in Names, NEW dvs \in Lists(Names),
                     Len(other) = Len(input.machine), other # input.machine
              PROVE  LET vm(m, ds) == newVirtualMachine(m, <<>>,
                                          VMTemplate(ds, <<>>))
                     IN  Named(vm(input.machine, input.dataVolumes)) \cap Named(vm(other, dvs)) = {}
  BY DEF DataVolumesUnique, VMTemplate
<1>. DEFINE vm(m, ds) == newVirtualMachine(m, <<>>, VMTemplate(ds, <<>>))
<1>1. input.machine \in Names /\ input.dataVolumes \in Lists(Names)
  BY DEF Inputs
<1>2. input.machine \in Seq(Words) /\ other \in Seq(Words)
  BY <1>1, ListsAreSequences DEF Names
<1>3. ASSUME NEW m, NEW ds \in Lists(Names), NEW n \in Named(vm(m, ds))
      PROVE  \E a \in Seq(Words) : n = m \o a
  <2>0. \A x : x \in Named(vm(m, ds)) <=> \E i \in DOMAIN ds : x = m \o ds[i]
    BY NewNames
  <2>1. PICK i \in DOMAIN ds : n = m \o ds[i]
    BY <1>3, <2>0
  <2>2. ds \in Seq(Names)
    BY ListsAreSequences
  <2>3. ds[i] \in Names
    BY <2>2, ElementOfSeq, LenProperties
  <2>. QED  BY <2>1, <2>3, ListsAreSequences DEF Names
<1>. HIDE DEF vm
<1>4. ASSUME NEW n \in Named(vm(input.machine, input.dataVolumes)) \cap Named(vm(other, dvs))
      PROVE  FALSE
  <2>1. PICK a \in Seq(Words) : n = input.machine \o a
    BY <1>1, <1>3
  <2>2. PICK b \in Seq(Words) : n = other \o b
    BY <1>3
  <2>. QED  BY <1>2, <2>1, <2>2, PrefixesDiffer
<1>. QED  BY <1>4 DEF vm

\* A volume of the template stays attached to what it named.
LEMMA AttachedVolume ==
    ASSUME NEW m, NEW dvs, NEW volumes \in Lists(Volume), NEW i \in DOMAIN volumes
    PROVE  LET t == VMTemplate(dvs, volumes)
               vm == newVirtualMachine(m, <<>>, t)
           IN  IF volumes[i].source # "cloudInit" /\ volumes[i].name \in Named(t)
               THEN vm.volumes[i].name \in Named(vm)
               ELSE vm.volumes[i] = volumes[i]
<1>. DEFINE t == VMTemplate(dvs, volumes)
            vm == newVirtualMachine(m, <<>>, t)
            all == WithUserData(volumes, <<>>)
<1>1. volumes \in Seq(Volume)
  BY ListsAreSequences
<1>2. i \in DOMAIN all /\ all[i] = volumes[i]
  BY <1>1 DEF WithUserData
<1>3. volumes[i] \in Volume
  BY <1>1, ElementOfSeq, LenProperties
<1>4. \A n : n \in Named(vm) <=> \E j \in DOMAIN dvs : n = m \o dvs[j]
  BY NewNames
<1>5. /\ Renamed(t, all[i]) /\ all[i] \in Volume => vm.volumes[i].name = m \o all[i].name
      /\ ~Renamed(t, all[i]) => vm.volumes[i] = all[i]
  BY <1>2, NewVolumes
<1>6. Named(t) = {dvs[j] : j \in DOMAIN dvs}
  BY DEF Named, VMTemplate
<1>. HIDE DEF t, vm, all
<1>7. IF Renamed(t, volumes[i]) THEN vm.volumes[i].name = m \o volumes[i].name
                                ELSE vm.volumes[i] = volumes[i]
  BY <1>2, <1>3, <1>5
<1>8. CASE volumes[i].source # "cloudInit" /\ volumes[i].name \in Named(t)
  <2>1. vm.volumes[i].name = m \o volumes[i].name
    BY <1>3, <1>7, <1>8 DEF Volume, Renamed
  <2>2. PICK j \in DOMAIN dvs : volumes[i].name = dvs[j]
    BY <1>6, <1>8
  <2>3. m \o dvs[j] \in Named(vm)
    BY <1>4
  <2>. QED  BY <1>8, <2>1, <2>2, <2>3 DEF t, vm
<1>9. CASE ~(volumes[i].source # "cloudInit" /\ volumes[i].name \in Named(t))
  <2>1. vm.volumes[i] = volumes[i]
    BY <1>7, <1>9 DEF Renamed
  <2>. QED  BY <1>9, <2>1 DEF t, vm
<1>. QED  BY <1>8, <1>9

\* Renaming keeps every volume attached to what it named.
LEMMA AttachedVolumes == VolumesStayAttached
BY AttachedVolume DEF VolumesStayAttached, VMTemplate

-----------------------------------------------------------------------------
(* Machine.IsTerminal and Machine.GetVMNotReadyReason                       *)

\* Terminal means for good, for every run strategy.
LEMMA ForGood == input \in Inputs => TerminalMeansForGood
<1>. SUFFICES ASSUME input \in Inputs, input.of = "terminal",
                     input.vm.exists /\ input.vmi.exists, input.vmi.phase \in FinalPhases,
                     ~input.vm.label /\ ~input.vmi.label, input.vm.strategy # "invalid"
              PROVE  IsTerminal(input.vm, input.vmi)
                         = IF \/ input.vmi.phase \in Restarted(input.vm.strategy)
                              \/ input.vm.strategy \in {"Manual", "Other"}
                           THEN "no" ELSE "yes"
  BY DEF TerminalMeansForGood
<1>1. input.vm.strategy \in RunStrategies
  BY DEF Inputs, VMStatus
<1>2. IsTerminal(input.vm, input.vmi)
          = IF \/ input.vm.strategy \in {"Halted", "Once"}
               \/ input.vm.strategy = "RerunOnFailure" /\ input.vmi.phase = "Succeeded"
            THEN "yes" ELSE "no"
  BY DEF IsTerminal, Condemned
<1>. QED  BY <1>1, <1>2 DEF RunStrategies, Restarted, FinalPhases

\* A DataVolume is blamed for what its phase says.
LEMMA BlameOfOne ==
    ASSUME NEW dv \in DataVolume
    PROVE  /\ getDVNotProvisionedReason(dv) = "none" <=> dv.phase = "Succeeded"
           /\ getDVNotProvisionedReason(dv) \notin {"VMNotReady", "Unschedulable"}
BY DEF DataVolume, getDVNotProvisionedReason

\* The first DataVolume that is not provisioned is blamed.
LEMMA FirstIsBlamed ==
    ASSUME NEW scheduled, NEW dvs \in Lists(DataVolume)
    PROVE  LET reason == GetVMNotReadyReason(scheduled, dvs)
           IN  reason \notin {"VMNotReady", "Unschedulable"} <=>
                   /\ scheduled \notin {"True", "Unschedulable"}
                   /\ \E i \in DOMAIN dvs :
                          /\ dvs[i].phase # "Succeeded"
                          /\ reason = getDVNotProvisionedReason(dvs[i])
                          /\ \A j \in 1..(i - 1) : dvs[j].phase = "Succeeded"
<1>. DEFINE reason == GetVMNotReadyReason(scheduled, dvs)
            waiting == {i \in DOMAIN dvs : getDVNotProvisionedReason(dvs[i]) # "none"}
            first == CHOOSE i \in waiting : \A j \in waiting : i <= j
<1>1. dvs \in Seq(DataVolume)
  BY ListsAreSequences
<1>2. DOMAIN dvs = 1..Len(dvs) /\ Len(dvs) \in Nat /\ \A i \in DOMAIN dvs : dvs[i] \in DataVolume
  BY <1>1, LenProperties, ElementOfSeq
<1>3. \A i \in DOMAIN dvs :
          /\ i \in waiting <=> dvs[i].phase # "Succeeded"
          /\ getDVNotProvisionedReason(dvs[i]) \notin {"VMNotReady", "Unschedulable"}
  BY <1>2, BlameOfOne
<1>4. waiting # {} => first \in waiting /\ \A j \in waiting : first <= j
  <2>1. waiting \in SUBSET Nat
    BY <1>2
  <2>. HIDE DEF waiting
  <2>. QED  BY <2>1, FirstIndex
<1>5. reason = IF scheduled = "Unschedulable" THEN "Unschedulable"
               ELSE IF scheduled # "True" /\ waiting # {}
               THEN getDVNotProvisionedReason(dvs[first])
               ELSE "VMNotReady"
  BY DEF GetVMNotReadyReason
<1>6. waiting \subseteq DOMAIN dvs
  OBVIOUS
<1>. HIDE DEF waiting, first, reason
<1>7. CASE scheduled \notin {"True", "Unschedulable"} /\ waiting # {}
  <2>1. reason = getDVNotProvisionedReason(dvs[first]) /\ first \in DOMAIN dvs
    BY <1>4, <1>5, <1>6, <1>7
  <2>2. reason \notin {"VMNotReady", "Unschedulable"} /\ dvs[first].phase # "Succeeded"
    BY <1>3, <1>4, <1>7, <2>1
  <2>3. ASSUME NEW j \in 1..(first - 1)  PROVE dvs[j].phase = "Succeeded"
    <3>1. j \in DOMAIN dvs /\ ~(first <= j)
      BY <1>2, <2>1
    <3>. QED  BY <1>3, <1>4, <1>7, <3>1
  <2>. QED  BY <1>7, <2>1, <2>2, <2>3 DEF reason
<1>8. CASE scheduled \in {"True", "Unschedulable"} \/ waiting = {}
  <2>1. reason \in {"VMNotReady", "Unschedulable"}
    BY <1>5, <1>8
  <2>2. ASSUME scheduled \notin {"True", "Unschedulable"}, NEW i \in DOMAIN dvs,
               dvs[i].phase # "Succeeded"
        PROVE  FALSE
    BY <1>3, <1>8, <2>2
  <2>. QED  BY <2>1, <2>2 DEF reason
<1>. QED  BY <1>7, <1>8

\* GetVMNotReadyReason blames the blocker.
LEMMA BlockerIsBlamed == input \in Inputs => BlamesTheBlocker
<1>. SUFFICES ASSUME input \in Inputs, input.of = "notReady"  PROVE BlamesTheBlocker
  BY DEF BlamesTheBlocker
<1>1. input.dvs \in Lists(DataVolume)
  BY DEF Inputs
<1>. QED  BY <1>1, FirstIsBlamed DEF BlamesTheBlocker

-----------------------------------------------------------------------------
(* addCapkUserToCloudInitConfig                                             *)

\* The users capk of a list, the first of them, and the list with key in place
Capk(users) == {i \in DOMAIN users : users[i].name = "capk"}

FirstCapk(users) == CHOOSE i \in Capk(users) : \A j \in Capk(users) : i <= j

WithKey(users, key) ==
    IF Capk(users) = {} THEN Append(users, capkUser(key))
    ELSE [users EXCEPT ![FirstCapk(users)] = capkUser(key)]

\* Where the key goes
Place(users) == IF Capk(users) = {} THEN Len(users) + 1 ELSE FirstCapk(users)

LEMMA FirstCapkProperties ==
    ASSUME NEW users \in Seq(User), Capk(users) # {}
    PROVE  /\ FirstCapk(users) \in 1..Len(users)
           /\ users[FirstCapk(users)].name = "capk"
           /\ \A j \in Capk(users) : FirstCapk(users) <= j
<1>1. Capk(users) \in SUBSET Nat
  BY LenProperties DEF Capk
<1>2. FirstCapk(users) \in Capk(users) /\ \A j \in Capk(users) : FirstCapk(users) <= j
  BY <1>1, FirstIndex DEF FirstCapk
<1>. QED  BY <1>2, LenProperties DEF Capk

\* The key is put in its place, and nothing else moves.
LEMMA WithKeyProperties ==
    ASSUME NEW users \in Seq(User), NEW key \in SSHKeys
    PROVE  LET new == WithKey(users, key)
           IN  /\ new \in Seq(User)
               /\ Len(new) = IF Capk(users) = {} THEN Len(users) + 1 ELSE Len(users)
               /\ Place(users) \in 1..Len(new)
               /\ new[Place(users)] = capkUser(key)
               /\ \A j \in 1..Len(new) \ {Place(users)} : j \in 1..Len(users) /\ new[j] = users[j]
<1>1. capkUser(key) \in User
  BY DEF capkUser, User
<1>2. CASE Capk(users) = {}
  BY <1>1, <1>2, AppendProperties, LenProperties DEF WithKey, Place
<1>3. CASE Capk(users) # {}
  BY <1>1, <1>3, ExceptSeq, LenProperties, FirstCapkProperties DEF WithKey, Place
<1>. QED  BY <1>2, <1>3

\* The key has the same place afterwards.
LEMMA PlaceStays ==
    ASSUME NEW users \in Seq(User), NEW key \in SSHKeys
    PROVE  /\ Capk(WithKey(users, key)) # {}
           /\ FirstCapk(WithKey(users, key)) = Place(users)
<1>. DEFINE new == WithKey(users, key)
            k == Place(users)
<1>1. /\ new \in Seq(User) /\ k \in 1..Len(new) /\ new[k] = capkUser(key)
      /\ \A j \in 1..Len(new) \ {k} : j \in 1..Len(users) /\ new[j] = users[j]
  BY WithKeyProperties
<1>2. DOMAIN new = 1..Len(new) /\ Len(new) \in Nat /\ DOMAIN users = 1..Len(users)
      /\ Len(users) \in Nat
  BY <1>1, LenProperties
<1>3. \A j \in Capk(users) : k <= j
  BY FirstCapkProperties DEF Place
<1>. HIDE DEF new, k
<1>4. k \in Capk(new)
  BY <1>1, <1>2 DEF Capk, capkUser
<1>5. ASSUME NEW j \in Capk(new)  PROVE k <= j
  <2>1. CASE j = k
    BY <1>1, <1>2, <2>1
  <2>2. CASE j # k
    <3>1. j \in Capk(users)
      BY <1>1, <1>2, <2>2 DEF Capk
    <3>. QED  BY <1>3, <3>1
  <2>. QED  BY <2>1, <2>2
<1>6. FirstCapk(new) \in 1..Len(new) /\ FirstCapk(new) \in Capk(new) /\ FirstCapk(new) <= k
  <2>1. FirstCapk(new) \in 1..Len(new) /\ new[FirstCapk(new)].name = "capk"
        /\ FirstCapk(new) <= k
    BY <1>1, <1>4, FirstCapkProperties
  <2>. QED  BY <1>2, <2>1 DEF Capk
<1>7. FirstCapk(new) = k
  BY <1>1, <1>2, <1>5, <1>6
<1>. QED  BY <1>4, <1>7 DEF new, k

\* A new key takes the place of the old one.
LEMMA LastKeyWins ==
    ASSUME NEW users \in Seq(User), NEW old \in SSHKeys, NEW key \in SSHKeys
    PROVE  WithKey(WithKey(users, old), key) = WithKey(users, key)
<1>. DEFINE one == WithKey(users, old)
            two == WithKey(one, key)
            new == WithKey(users, key)
            k == Place(users)
<1>1. /\ one \in Seq(User) /\ new \in Seq(User) /\ Len(one) = Len(new)
      /\ k \in 1..Len(new) /\ new[k] = capkUser(key)
      /\ \A j \in 1..Len(new) \ {k} : new[j] = users[j] /\ one[j] = users[j]
  <2>1. /\ one \in Seq(User)
        /\ Len(one) = IF Capk(users) = {} THEN Len(users) + 1 ELSE Len(users)
        /\ \A j \in 1..Len(one) \ {k} : one[j] = users[j]
    BY WithKeyProperties
  <2>2. /\ new \in Seq(User) /\ k \in 1..Len(new) /\ new[k] = capkUser(key)
        /\ Len(new) = IF Capk(users) = {} THEN Len(users) + 1 ELSE Len(users)
        /\ \A j \in 1..Len(new) \ {k} : new[j] = users[j]
    BY WithKeyProperties
  <2>. HIDE DEF one, new, k
  <2>. QED  BY <2>1, <2>2
<1>2. Capk(one) # {} /\ Place(one) = k
  BY PlaceStays DEF Place
<1>. HIDE DEF one, new, k
<1>3. /\ two \in Seq(User) /\ Len(two) = Len(one) /\ two[k] = capkUser(key)
      /\ \A j \in 1..Len(two) \ {k} : two[j] = one[j]
  BY <1>1, <1>2, WithKeyProperties
<1>. HIDE DEF two
<1>4. \A j \in 1..Len(two) : two[j] = new[j]
  BY <1>1, <1>3
<1>5. two = new
  BY <1>1, <1>3, <1>4, SeqEqual
<1>. QED  BY <1>5 DEF one, two, new

\* A cloud-config with these users
CloudConfig(section, users, other) ==
    [format |-> "cloudConfig", section |-> section, users |-> users, other |-> other]

\* It has a section with users afterwards.
Present == TRUE

LEMMA CloudConfigUsers == \A section, users, other : CloudConfig(section, users, other).users = users
BY DEF CloudConfig

\* What addCapkUserToCloudInitConfig makes of it
LEMMA AddCapkUser ==
    ASSUME NEW section, NEW users, NEW other, NEW key
    PROVE  addCapkUserToCloudInitConfig(CloudConfig(section, users, other), key)
               = CloudConfig(Present, WithKey(users, key), other)
<1>. DEFINE data == CloudConfig(section, users, other)
            new == WithKey(users, key)
            half == [data EXCEPT !.section = Present]
<1>1. data.format = "cloudConfig" /\ data.users = users
  BY DEF CloudConfig
<1>2. half = CloudConfig(Present, users, other)
  BY DEF CloudConfig
<1>. HIDE DEF new, half
<1>3. [half EXCEPT !.users = new] = CloudConfig(Present, new, other)
  BY <1>2 DEF CloudConfig
<1>. HIDE DEF data
<1>4. addCapkUserToCloudInitConfig(data, key) =
          [data EXCEPT !.section = TRUE, !.users = WithKey(data.users, key)]
  BY <1>1, Zenon DEF addCapkUserToCloudInitConfig, WithKey, Capk, FirstCapk
<1>5. [data EXCEPT !.section = TRUE, !.users = WithKey(data.users, key)]
          = [half EXCEPT !.users = new]
  BY <1>1, Zenon DEF half, new, Present
<1>. QED  BY <1>3, <1>4, <1>5 DEF data, new

\* The key of capk is installed once, and nobody else is touched.
Installed(data, key) ==
    LET once == addCapkUserToCloudInitConfig(data, key)
        others(us) == {i \in DOMAIN us : us[i].name # "capk"}
    IN  /\ HasInjectedCapkSSHKeys(once, key)
        /\ addCapkUserToCloudInitConfig(once, key) = once
        /\ \A k \in SSHKeys : addCapkUserToCloudInitConfig(once, k)
                                  = addCapkUserToCloudInitConfig(data, k)
        /\ others(once.users) = others(data.users)
        /\ \A i \in others(once.users) : once.users[i] = data.users[i]

LEMMA KeyOfConfig ==
    ASSUME NEW section, NEW users \in Seq(User), NEW other, NEW key \in SSHKeys, NEW data,
           data = CloudConfig(section, users, other)
    PROVE  Installed(data, key)
<1>. DEFINE new == WithKey(users, key)
            once == addCapkUserToCloudInitConfig(data, key)
            k == Place(users)
            others(us) == {i \in DOMAIN us : us[i].name # "capk"}
<1>1. once = CloudConfig(Present, new, other)
  BY AddCapkUser
<1>2. once.users = new
  BY <1>1, CloudConfigUsers
<1>3. /\ new \in Seq(User) /\ k \in 1..Len(new) /\ new[k] = capkUser(key)
      /\ \A j \in 1..Len(new) \ {k} : j \in 1..Len(users) /\ new[j] = users[j]
  BY WithKeyProperties
<1>3a. Len(new) = IF Capk(users) = {} THEN Len(users) + 1 ELSE Len(users)
  BY WithKeyProperties
<1>4. DOMAIN new = 1..Len(new) /\ DOMAIN users = 1..Len(users) /\ Len(users) \in Nat
  BY <1>3, LenProperties
<1>5. \A o \in SSHKeys : addCapkUserToCloudInitConfig(once, o)
                             = addCapkUserToCloudInitConfig(data, o)
  <2>. SUFFICES ASSUME NEW o \in SSHKeys
                PROVE  addCapkUserToCloudInitConfig(once, o) = addCapkUserToCloudInitConfig(data, o)
    OBVIOUS
  <2>1. addCapkUserToCloudInitConfig(once, o) = CloudConfig(Present, WithKey(new, o), other)
    BY <1>1, AddCapkUser
  <2>2. addCapkUserToCloudInitConfig(data, o) = CloudConfig(Present, WithKey(users, o), other)
    BY AddCapkUser
  <2>3. WithKey(new, o) = WithKey(users, o)
    BY LastKeyWins
  <2>. QED  BY <2>1, <2>2, <2>3
<1>6. k \in DOMAIN users => users[k].name = "capk"
  BY <1>4, FirstCapkProperties DEF Place
<1>. HIDE DEF new, once, k
<1>7. HasInjectedCapkSSHKeys(once, key)
  BY <1>2, <1>3, <1>4 DEF HasInjectedCapkSSHKeys, capkUser
<1>8. ASSUME NEW i \in others(new)  PROVE i \in others(users) /\ new[i] = users[i]
  BY <1>3, <1>4, <1>8 DEF capkUser
<1>9. ASSUME NEW i \in others(users)  PROVE i \in others(new)
  BY <1>3, <1>3a, <1>4, <1>6
<1>10. /\ others(once.users) = others(users)
       /\ \A i \in others(once.users) : once.users[i] = users[i]
  BY <1>2, <1>8, <1>9
<1>11. addCapkUserToCloudInitConfig(once, key) = once
  BY <1>5 DEF once
<1>12. data.users = users
  BY CloudConfigUsers
<1>. QED  BY <1>5, <1>7, <1>10, <1>11, <1>12 DEF once, Installed

\* The same of every input.
LEMMA KeyInstalled == input \in Inputs => CapkUserInstalled
<1>. SUFFICES ASSUME input \in Inputs, input.of = "userData", input.data.format = "cloudConfig"
              PROVE  CapkUserInstalled
  BY DEF CapkUserInstalled
<1>1. input.data \in UserData /\ input.key \in SSHKeys
  BY DEF Inputs
<1>2. input.data.users \in Seq(User)
  <2>1. input.data.users \in Lists(User) \/ input.data.users = <<>>
    BY <1>1 DEF UserData
  <2>. QED  BY <2>1, ListsAreSequences, EmptySeq
<1>3. input.data = CloudConfig(input.data.section, input.data.users, input.data.other)
  BY <1>1 DEF UserData, CloudConfig
<1>4. Installed(input.data, input.key)
  BY <1>1, <1>2, <1>3, KeyOfConfig
<1>. QED  BY <1>4 DEF CapkUserInstalled, Installed
=============================================================================
