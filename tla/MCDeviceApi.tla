---------------------------- MODULE MCDeviceApi -----------------------------
(* Model-checking instance of DeviceApi: interchangeable consoles. *)
EXTENDS DeviceApi, TLC

Consoles == Permutations(Devices)

=============================================================================
