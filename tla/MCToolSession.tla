--------------------------- MODULE MCToolSession ---------------------------
(* Instances of ToolSession for TLC. *)
EXTENDS ToolSession

CONSTANTS t1, t2, ann, bob, h1, h2
=============================================================================
