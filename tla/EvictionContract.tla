-------------------------- MODULE EvictionContract --------------------------
(***************************************************************************)
(* What the eviction of a guest node promises to those who use the node,   *)
(* without the reconciles, annotations, caches and API calls by which      *)
(* Eviction keeps the promise:                                             *)
(*  - a VM is taken away only when its node is empty or time is up;        *)
(*  - while it is away the node takes no new pods that CAPK let in;        *)
(*  - a cordon of CAPK is remembered as long as it lasts.                  *)
(***************************************************************************)
VARIABLES
    away,    \* the VM was evicted and is not back
    cordon,  \* "none", "capk", or "other": that of an administrator
    marked,  \* CAPK remembers to uncordon the node
    busy,    \* pods run on the node
    timeUp   \* nobody waits for the pods any longer

contractVars == <<away, cordon, marked, busy, timeUp>>

ContractInit ==
    /\ ~away /\ cordon = "none" /\ ~marked
    /\ busy \in BOOLEAN /\ timeUp \in BOOLEAN

\* CAPK cordons the node, unless somebody did so before.
CordonNode ==
    /\ cordon' = IF cordon = "none" THEN "capk" ELSE cordon
    /\ UNCHANGED <<away, marked, busy, timeUp>>

\* What CAPK writes may also tell it what the time is.
Mark ==
    /\ marked' = TRUE
    /\ timeUp' \in BOOLEAN
    /\ UNCHANGED <<away, cordon, busy>>

Unmark ==
    /\ cordon # "capk"
    /\ marked' = FALSE
    /\ timeUp' \in BOOLEAN
    /\ UNCHANGED <<away, cordon, busy>>

EmptyNode ==
    /\ busy' = FALSE
    /\ UNCHANGED <<away, cordon, marked, timeUp>>

\* A VM that is already away may be told so again.
TakeAway ==
    /\ away \/ ~busy \/ timeUp
    /\ away' = TRUE
    /\ UNCHANGED <<cordon, marked, busy, timeUp>>

BringBack ==
    /\ away' = FALSE
    /\ timeUp' \in BOOLEAN
    /\ UNCHANGED <<cordon, marked, busy>>

\* CAPK uncordons the node, whoever cordoned it.
UncordonNode ==
    /\ ~away
    /\ cordon' = "none"
    /\ UNCHANGED <<away, marked, busy, timeUp>>

\* The clock, or the annotation that a reconcile read.
TimePasses ==
    /\ timeUp' \in BOOLEAN
    /\ UNCHANGED <<away, cordon, marked, busy>>

UsePod ==
    /\ cordon = "none"
    /\ busy' = TRUE
    /\ UNCHANGED <<away, cordon, marked, timeUp>>

OtherCordon ==
    /\ cordon = "none"
    /\ cordon' = "other"
    /\ UNCHANGED <<away, marked, busy, timeUp>>

\* The Node object is deleted; its successor starts schedulable and empty.
ReplaceNode ==
    /\ cordon' = "none"
    /\ busy' = FALSE
    /\ UNCHANGED <<away, marked, timeUp>>

ContractNext ==
    \/ CordonNode \/ Mark \/ Unmark \/ EmptyNode \/ TakeAway \/ BringBack
    \/ UncordonNode \/ TimePasses \/ UsePod \/ OtherCordon \/ ReplaceNode

ContractSpec == ContractInit /\ [][ContractNext]_contractVars
=============================================================================
