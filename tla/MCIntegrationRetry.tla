------------------------- MODULE MCIntegrationRetry -------------------------
(* Instances of IntegrationRetry for TLC: ids are shared by attempts, resets *)
(* and late terminal events.                                                 *)
EXTENDS IntegrationRetry
=============================================================================
