-------------------------- MODULE MachineContract ---------------------------
(***************************************************************************)
(* What an infrastructure machine promises to those who manage clusters,   *)
(* without the reconciles, snapshots, caches and API calls by which        *)
(* MachineLifecycle keeps the promise:                                     *)
(*  - the machine has at most one VM, and none before it is kept by a      *)
(*    finalizer or after it is gone;                                       *)
(*  - it goes only when it was deleted and has no VM;                      *)
(*  - it becomes Ready only while it is kept and when its guest is known   *)
(*    to have bootstrapped;                                                *)
(*  - the identity it reports is never taken back.                         *)
(***************************************************************************)
CONSTANT Places  \* where a VM can run

VARIABLES
    stage,    \* of the machine: "new", "kept", "deleted" or "gone"
    vms,      \* the places where it has a VM
    ready,    \* it is reported Ready
    named,    \* it is reported with its provider ID
    trusted   \* its guest has bootstrapped, or cannot be asked

contractVars == <<stage, vms, ready, named, trusted>>

ContractInit ==
    /\ stage = "new" /\ vms = {}
    /\ ~ready /\ ~named
    /\ trusted \in BOOLEAN

\* CAPK keeps the machine, or writes what it has found out about it.
Report ==
    /\ stage # "gone"
    /\ stage' \in {stage} \cup (IF stage = "new" THEN {"kept"} ELSE {})
    /\ ready' \in BOOLEAN /\ named' \in BOOLEAN
    /\ ready' /\ ~ready => trusted /\ stage # "new"
    /\ named => named'
    /\ UNCHANGED <<vms, trusted>>

MakeVM(place) ==
    /\ stage \in {"kept", "deleted"}
    /\ vms \subseteq {place}
    /\ vms' = {place}
    /\ UNCHANGED <<stage, ready, named, trusted>>

\* CAPK deletes the VM, or somebody else does.
LoseVM ==
    /\ vms' \in SUBSET vms
    /\ UNCHANGED <<stage, ready, named, trusted>>

\* A user deletes the machine.
Delete ==
    /\ stage = "kept"
    /\ stage' = "deleted"
    /\ UNCHANGED <<vms, ready, named, trusted>>

\* It goes, at once if nobody keeps it.
Go ==
    /\ stage \in {"new", "deleted"}
    /\ vms = {}
    /\ stage' = "gone" /\ ready' = FALSE /\ named' = FALSE
    /\ UNCHANGED <<vms, trusted>>

Bootstrap ==
    /\ trusted' = TRUE
    /\ UNCHANGED <<stage, vms, ready, named>>

ContractNext ==
    \/ Report \/ LoseVM \/ Delete \/ Go \/ Bootstrap
    \/ \E place \in Places : MakeVM(place)

ContractSpec == ContractInit /\ [][ContractNext]_contractVars
=============================================================================
