------------------------------ MODULE MCMachine -----------------------------
(* Small instances of MachineLifecycle for TLC.                            *)
EXTENDS MachineLifecycle

\* The machine names its infra cluster itself, or nobody does.
PersistedRefs == {<<"management", "management">>, <<"external", "management">>}

\* The machine takes the infra cluster of its KubevirtCluster.
DefaultedRefs == {<<"management", "external">>}

ExternalRefs == {<<"external", "external">>}
=============================================================================
