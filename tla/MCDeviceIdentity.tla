-------------------------- MODULE MCDeviceIdentity --------------------------
(***************************************************************************)
(* Instances of DeviceIdentity for TLC.                                    *)
(***************************************************************************)
EXTENDS DeviceIdentity

=============================================================================
