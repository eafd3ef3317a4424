---------------------------- MODULE MCCompression ----------------------------
(* Compression, for TLC. *)
EXTENDS Compression, TLC

Stamps == Permutations(Versions)

================================================================================
