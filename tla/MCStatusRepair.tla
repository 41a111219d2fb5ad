--------------------------- MODULE MCStatusRepair ---------------------------
(***************************************************************************)
(* The repair of the status labels on a small instance.                    *)
(***************************************************************************)
EXTENDS StatusRepair

\* consistency_mode = "repair" with every status code allowed.
AllCodes == {"promote", "demote", "conflict", "missing"}
=============================================================================
