------------------------------ MODULE MCTenant ------------------------------
(* A small instance of Tenant for TLC.                                     *)
EXTENDS Tenant

Resources(cpu, memory) == [cpu |-> cpu, memory |-> memory]

NoResources == Resources(Absent, Absent)

\* A topology that leaves a number out next to requests and limits; no topology;
\* no VMI template; as many vCPUs as make a uint32 wrap around.
SmallSpecs ==
    {[template |-> TRUE, topology |-> <<2, 0, 1>>, guest |-> Absent,
      requests |-> Resources(3, 4), limits |-> Resources(5, 6)],
     [template |-> TRUE, topology |-> <<>>, guest |-> 4,
      requests |-> NoResources, limits |-> Resources(2, 1)],
     [template |-> FALSE, topology |-> <<>>, guest |-> Absent,
      requests |-> Resources(1, 1), limits |-> Resources(1, 1)],
     [template |-> TRUE, topology |-> <<2, 2, 2>>, guest |-> Absent,
      requests |-> NoResources, limits |-> NoResources]}
=============================================================================
