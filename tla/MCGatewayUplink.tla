----------------------------- MODULE MCGatewayUplink -----------------------------
(* GatewayUplink for TLC, with its senders as model values. *)
EXTENDS GatewayUplink

CONSTANTS s1, s2, s3

================================================================================
