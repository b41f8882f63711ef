-------------------------- MODULE MCPortForwarding --------------------------
(* Instances of PortForwarding for TLC. *)
EXTENDS PortForwarding, TLC

=============================================================================
