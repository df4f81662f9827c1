--------------------------- MODULE MCControlPlane ---------------------------
(* Two instances whose administrators change callable-target scope policies; *)
(* nothing fails.                                                            *)
EXTENDS ControlPlane
=============================================================================
