--------------------------- MODULE MCDeviceGrant ---------------------------
(***************************************************************************)
(* Small instances of DeviceGrant for TLC.                                 *)
(***************************************************************************)
EXTENDS DeviceGrant, TLC

Symmetry ==
  Permutations(Devices) \cup Permutations(UserCodes) \cup Permutations(Clients)
    \cup Permutations(Users) \cup Permutations(Polls) \cup Permutations(Decisions)
=============================================================================
