--------------------------- MODULE MCDeviceEvents ---------------------------
(* Model-checking instance of DeviceEvents: two interchangeable consoles. *)
EXTENDS DeviceEvents, TLC

Consoles == Permutations(Devices)

=============================================================================
