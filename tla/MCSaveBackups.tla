---------------------------- MODULE MCSaveBackups ----------------------------
(* A small instance of SaveBackups for TLC. *)
EXTENDS SaveBackups, TLC

(* Uploads and contents are interchangeable. *)
Interchangeable == Permutations(Uploads) \cup Permutations(Contents)
=============================================================================
