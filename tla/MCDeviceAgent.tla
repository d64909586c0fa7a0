---------------------------- MODULE MCDeviceAgent ----------------------------
(* Instances of DeviceAgent for TLC: every command the pages offer.        *)
EXTENDS DeviceAgent
=============================================================================
