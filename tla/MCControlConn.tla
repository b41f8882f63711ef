---------------------------- MODULE MCControlConn ----------------------------
(* Instances of ControlConn for TLC. *)
EXTENDS ControlConn
=============================================================================
