----------------------------- MODULE MCEviction -----------------------------
(* Small instances of Eviction for TLC.                                    *)
EXTENDS Eviction

=============================================================================
