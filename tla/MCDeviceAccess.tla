--------------------------- MODULE MCDeviceAccess ---------------------------
(* Devices and PATCH requests of one account are interchangeable.          *)
EXTENDS DeviceAccess, TLC

Symmetry == Permutations(Devices) \cup Permutations(Patches)
=============================================================================
