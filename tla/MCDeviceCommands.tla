-------------------------- MODULE MCDeviceCommands --------------------------
(* Small instances of DeviceCommands for TLC. *)
EXTENDS DeviceCommands, TLC

Symmetry == Permutations(Requests)
=============================================================================
