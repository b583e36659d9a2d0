------------------------------ MODULE MCCluster -----------------------------
(* Small instances of ClusterLifecycle for TLC.                            *)
EXTENDS ClusterLifecycle

=============================================================================
