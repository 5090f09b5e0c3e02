------------------------------ MODULE MCLifecycle ------------------------------
(* Lifecycle for TLC: requests that meet at a device, a gateway or at both. *)
EXTENDS Lifecycle
================================================================================
