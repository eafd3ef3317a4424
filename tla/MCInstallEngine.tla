-------------------------- MODULE MCInstallEngine --------------------------
(* InstallEngine for TLC: the two storages and the versions of the update are
   interchangeable. *)
EXTENDS InstallEngine, TLC

Interchangeable == Permutations(Storages) \cup Permutations(Patches)
=============================================================================
