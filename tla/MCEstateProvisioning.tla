------------------------ MODULE MCEstateProvisioning ------------------------
(* Values for the constants of EstateProvisioning. *)
EXTENDS EstateProvisioning, TLC

CONSTANTS g1, g2
AllCommands == {"force", "if_empty", "plain", "init_db"}
=============================================================================
