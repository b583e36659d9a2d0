---------------------------- MODULE VirtualMachine --------------------------
(***************************************************************************)
(* What CAPK computes about the VM of a machine: the VM it creates         *)
(* (pkg/kubevirt/utils.go), the user data that the guest boots with        *)
(* (addCapkUserToCloudInitConfig), whether the VM has failed for good      *)
(* (Machine.IsTerminal) and why it is not ready                            *)
(* (Machine.GetVMNotReadyReason).                                          *)
(*                                                                         *)
(* These are functions of what the controller has read; MachineLifecycle   *)
(* says when they are called.  The variable input holds what it read: each *)
(* property compares the function with what it is for, on every input.     *)
(***************************************************************************)
EXTENDS Naturals, Sequences

CONSTANTS
    Words,      \* the parts of names, which are joined by hyphens
    SSHKeys,    \* public keys
    MaxLength   \* bound: lengths of the lists that the properties consider

ASSUME MaxLengthAssumption == MaxLength \in Nat

VARIABLE input   \* what the controller has read of a machine, or NoInput

Lists(S) == UNION {[1..n -> S] : n \in 0..MaxLength}

-----------------------------------------------------------------------------
(* The VM that is created.                                                  *)

\* A name is the sequence of its parts.
Names == Lists(Words) \ {<<>>}

\* volumes: the volumes that name a DataVolume or a PersistentVolumeClaim, and
\* the cloud-init volume, which names the user data secret
Volume == [source : {"dataVolume", "claim", "cloudInit"}, name : Names]

\* Mutant: the machine's name is cut to its first part.
prefixedByPool(prefix, name) == <<prefix[1]>> \o name

\* prefix + "-" + name
prefixed(prefix, name) == prefix \o name

\* Mutant: only the references to DataVolumes are renamed.
prefixDataVolumesOnly(vm, prefix) ==
    LET renamed == {vm.dataVolumes[i] : i \in DOMAIN vm.dataVolumes}
    IN  [dataVolumes |-> [i \in DOMAIN vm.dataVolumes |-> prefixed(prefix, vm.dataVolumes[i])],
         volumes |-> [i \in DOMAIN vm.volumes |->
             IF vm.volumes[i].source = "dataVolume" /\ vm.volumes[i].name \in renamed
             THEN [vm.volumes[i] EXCEPT !.name = prefixed(prefix, @)] ELSE vm.volumes[i]]]

\* prefixDataVolumeTemplates: the DataVolumes get the machine's name as prefix,
\* and so do the volumes that refer to them.
prefixDataVolumeTemplates(vm, prefix) ==
    LET renamed == {vm.dataVolumes[i] : i \in DOMAIN vm.dataVolumes}
    IN  [dataVolumes |-> [i \in DOMAIN vm.dataVolumes |-> prefixed(prefix, vm.dataVolumes[i])],
         volumes |-> [i \in DOMAIN vm.volumes |->
             IF /\ vm.volumes[i].source \in {"dataVolume", "claim"}
                /\ vm.volumes[i].name \in renamed
             THEN [vm.volumes[i] EXCEPT !.name = prefixed(prefix, @)] ELSE vm.volumes[i]]]

\* newVirtualMachineFromKubevirtMachine, buildVirtualMachineInstanceTemplate:
\* the cloud-init volume is added to the template's volumes; labels, disks and
\* the rest of the spec are left out.
newVirtualMachine(machine, secret, vm) ==
    prefixDataVolumeTemplates(
        [vm EXCEPT !.volumes = Append(@, [source |-> "cloudInit", name |-> secret])], machine)

Named(vm) == {vm.dataVolumes[i] : i \in DOMAIN vm.dataVolumes}

-----------------------------------------------------------------------------
(* The user data.                                                           *)

\* A user has a name and the key that may log in; "none": other keys.
User == [name : {"capk", "other"}, key : SSHKeys \cup {"none"}]

\* section: of the sections called users, the first that is a sequence, if there
\* is one; other: whether there is one that is no sequence.  Data of another
\* format, or that is no YAML, has no users.
UserData ==
    [format : {"cloudConfig"}, section : {TRUE}, users : Lists(User), other : BOOLEAN]
        \cup [format : {"cloudConfig", "other", "notYAML"}, section : {FALSE},
              users : {<<>>}, other : BOOLEAN]

Error == "error"

capkUser(key) == [name |-> "capk", key |-> key]

\* Mutant: the user is added to a list that already has it.
alwaysAppended(data, key) ==
    CASE data.format = "notYAML" -> Error
      [] data.format = "other" -> data
      [] OTHER -> [data EXCEPT !.section = TRUE, !.users = Append(@, capkUser(key))]

\* addCapkUserToCloudInitConfig, usersYamlNodes: data that does not parse is an
\* error and data that is no cloud-config is left as it is; otherwise the first
\* user capk is replaced, or one is added.  A section that is no sequence is not
\* seen, and stays.
addCapkUserToCloudInitConfig(data, key) ==
    LET capk == {i \in DOMAIN data.users : data.users[i].name = "capk"}
    IN  CASE data.format = "notYAML" -> Error
          [] data.format = "other" -> data
          [] OTHER -> [data EXCEPT !.section = TRUE,
                           !.users = IF capk = {} THEN Append(@, capkUser(key))
                                     ELSE [@ EXCEPT ![CHOOSE i \in capk : \A j \in capk : i <= j]
                                              = capkUser(key)]]

\* MachineContext.HasInjectedCapkSSHKeys: the key occurs in the data, as that
\* of any user.  Only then is the guest asked whether it has bootstrapped.
HasInjectedCapkSSHKeys(data, key) == \E i \in DOMAIN data.users : data.users[i].key = key

-----------------------------------------------------------------------------
(* The state of the VM.                                                     *)

FinalPhases == {"Succeeded", "Failed"}

Phases == {"Pending", "Running"} \cup FinalPhases

\* "invalid": the spec has both running and runStrategy, and RunStrategy() fails;
\* "Other": one that IsTerminal does not know
RunStrategies == {"Always", "Manual", "Halted", "Once", "RerunOnFailure", "Other", "invalid"}

VMStatus == [exists : BOOLEAN, label : BOOLEAN, strategy : RunStrategies]

VMIStatus == [exists : BOOLEAN, label : BOOLEAN, phase : Phases,
              migratable : BOOLEAN, evacuated : BOOLEAN]

\* The VMI is evicted and cannot move, or somebody has labelled it or its VM.
Condemned(vm, vmi) ==
    \/ vmi.phase \notin FinalPhases /\ ~vmi.migratable /\ vmi.evacuated
    \/ vm.label \/ vmi.label

\* Mutant: a failure counts as final for every strategy that stops.
anyFinalPhase(vm, vmi) ==
    IF ~vm.exists \/ ~vmi.exists THEN "no"
    ELSE IF Condemned(vm, vmi) THEN "yes"
    ELSE IF vm.strategy \in {"Halted", "Once", "RerunOnFailure"} /\ vmi.phase \in FinalPhases
         THEN "yes" ELSE "no"

\* Machine.IsTerminal
IsTerminal(vm, vmi) ==
    IF ~vm.exists \/ ~vmi.exists THEN "no"
    ELSE IF Condemned(vm, vmi) THEN "yes"
    ELSE IF vm.strategy = "invalid" THEN "error"
    ELSE IF \/ vm.strategy \in {"Halted", "Once"} /\ vmi.phase \in FinalPhases
            \/ vm.strategy = "RerunOnFailure" /\ vmi.phase = "Succeeded"
         THEN "yes" ELSE "no"

\* The phases after which KubeVirt starts a VM again by itself.
Restarted(strategy) ==
    CASE strategy = "Always" -> FinalPhases
      [] strategy = "RerunOnFailure" -> {"Failed"}
      [] OTHER -> {}

\* running: the condition Running of a DataVolume, if it is there
DataVolume == [phase : {"Succeeded", "Pending", "Failed", "ImportInProgress"},
               running : {"none", "True", "False", "ImagePullFailed"}]

\* Machine.getDVNotProvisionedReason
getDVNotProvisionedReason(dv) ==
    CASE dv.phase = "Succeeded" -> "none"
      [] dv.phase = "Pending" -> "DVPending"
      [] dv.phase = "Failed" -> "DVFailed"
      [] OTHER -> IF dv.running = "ImagePullFailed" THEN "DVImagePullFailed" ELSE "DVNotReady"

\* The VM's PodScheduled condition: not there, or its status and reason
Scheduled == {"none", "True", "Unschedulable", "False", "Unknown"}

\* Mutant: a scheduled VM still waits for its DataVolumes.
scheduledIgnored(scheduled, dvs) ==
    LET waiting == {i \in DOMAIN dvs : getDVNotProvisionedReason(dvs[i]) # "none"}
    IN  IF scheduled = "Unschedulable" THEN "Unschedulable"
        ELSE IF waiting # {}
        THEN getDVNotProvisionedReason(dvs[CHOOSE i \in waiting : \A j \in waiting : i <= j])
        ELSE "VMNotReady"

\* Machine.GetVMNotReadyReason, getVMCondition, of a VM that exists: the first
\* DataVolume that is not provisioned, unless the pod was scheduled or cannot be.
GetVMNotReadyReason(scheduled, dvs) ==
    LET waiting == {i \in DOMAIN dvs : getDVNotProvisionedReason(dvs[i]) # "none"}
    IN  IF scheduled = "Unschedulable" THEN "Unschedulable"
        ELSE IF scheduled # "True" /\ waiting # {}
        THEN getDVNotProvisionedReason(dvs[CHOOSE i \in waiting : \A j \in waiting : i <= j])
        ELSE "VMNotReady"

-----------------------------------------------------------------------------
(* The inputs: the parts of what is read that one function works on.        *)

NoInput == [of |-> "nothing"]

Inputs ==
    [of : {"newVM"}, machine : Names, dataVolumes : Lists(Names)]
        \cup [of : {"userData"}, data : UserData, key : SSHKeys]
        \cup [of : {"terminal"}, vm : VMStatus, vmi : VMIStatus]
        \cup [of : {"notReady"}, scheduled : Scheduled, dvs : Lists(DataVolume)]

VMInit == input = NoInput

\* NewMachine and the reads before it: the controller turns to a machine.
ReadMachine ==
    /\ input = NoInput
    /\ input' \in Inputs

\* The reconcile ends.
LeaveMachine ==
    /\ input # NoInput
    /\ input' = NoInput

VMNext == ReadMachine \/ LeaveMachine

-----------------------------------------------------------------------------
(* Properties.                                                              *)

\* "Appending a unique prefix allows each DataVolume to be unique per vm in a
\* capi machine deployment or machine set" (prefixDataVolumeTemplates): two
\* machines whose names have as many parts, as those of a machine set have,
\* share no DataVolume.
DataVolumesUnique ==
    input.of = "newVM" =>
        LET vm(m, dvs) == newVirtualMachine(m, <<>>, [dataVolumes |-> dvs, volumes |-> <<>>])
        IN  \A other \in Names, dvs \in Lists(Names) :
                Len(other) = Len(input.machine) /\ other # input.machine =>
                    Named(vm(input.machine, input.dataVolumes)) \cap Named(vm(other, dvs)) = {}

\* Renaming keeps every volume attached to what it named
\* (prefixDataVolumeTemplates): a DataVolume of the template becomes the
\* machine's own, by either kind of reference, and what is not the template's
\* (a shared claim, the user data) keeps its name.
VolumesStayAttached ==
    input.of = "newVM" =>
        \A volumes \in Lists(Volume) :
            LET t == [dataVolumes |-> input.dataVolumes, volumes |-> volumes]
                vm == newVirtualMachine(input.machine, <<>>, t)
            IN  \A i \in DOMAIN volumes :
                    IF volumes[i].source # "cloudInit" /\ volumes[i].name \in Named(t)
                    THEN vm.volumes[i].name \in Named(vm)
                    ELSE vm.volumes[i] = volumes[i]

\* "adds the 'capk' user with the provided ssh authorized key"; "If a capk user
\* is already defined, then overrides it" (addCapkUserToCloudInitConfig): the
\* key is found by the check that follows, a second reconcile changes nothing, a
\* new key takes the place of the old one, and nobody else is touched.
CapkUserInstalled ==
    input.of = "userData" /\ input.data.format = "cloudConfig" =>
        LET once == addCapkUserToCloudInitConfig(input.data, input.key)
            others(users) == {i \in DOMAIN users : users[i].name # "capk"}
        IN  /\ HasInjectedCapkSSHKeys(once, input.key)
            /\ addCapkUserToCloudInitConfig(once, input.key) = once
            /\ \A key \in SSHKeys :
                   addCapkUserToCloudInitConfig(once, key)
                       = addCapkUserToCloudInitConfig(input.data, key)
            /\ others(once.users) = others(input.data.users)
            /\ \A i \in others(once.users) : once.users[i] = input.data.users[i]

\* "terminated in a way that it will never recover from" (IsTerminal): a VM
\* that KubeVirt starts again is not given up because of its phase, and one that
\* stays down is, unless it is run by hand or in a way that CAPK does not know; of
\* one whose spec contradicts itself nothing is said.
TerminalMeansForGood ==
    LET vm == input.vm
        vmi == input.vmi
    IN  (/\ input.of = "terminal"
         /\ vm.exists /\ vmi.exists /\ vmi.phase \in FinalPhases
         /\ ~vm.label /\ ~vmi.label /\ vm.strategy # "invalid")
            => IsTerminal(vm, vmi) = IF \/ vmi.phase \in Restarted(vm.strategy)
                                        \/ vm.strategy \in {"Manual", "Other"}
                                     THEN "no" ELSE "yes"

\* GetVMNotReadyReason blames a DataVolume exactly when one is not provisioned
\* and the pod has not been scheduled, and never one that others wait before.
BlamesTheBlocker ==
    input.of = "notReady" =>
        LET reason == GetVMNotReadyReason(input.scheduled, input.dvs)
        IN  reason \notin {"VMNotReady", "Unschedulable"} <=>
                /\ input.scheduled \notin {"True", "Unschedulable"}
                /\ \E i \in DOMAIN input.dvs :
                       /\ input.dvs[i].phase # "Succeeded"
                       /\ reason = getDVNotProvisionedReason(input.dvs[i])
                       /\ \A j \in 1..(i - 1) : input.dvs[j].phase = "Succeeded"
=============================================================================
