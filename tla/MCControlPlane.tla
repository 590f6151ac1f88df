--------------------------- MODULE MCControlPlane ---------------------------
(* The names of the model values of ControlPlane's runs. *)
EXTENDS ControlPlane

CONSTANTS s1, s2, t1, t2   \* snapshot names and tenants
=============================================================================
