-------------------------- MODULE MCDeviceNumbers --------------------------
(* Instance of DeviceNumbers for TLC.                                      *)
EXTENDS DeviceNumbers, TLC

\* The devices are interchangeable.
DeviceSymmetry == Permutations(Devices)
=============================================================================
