---------------------- MODULE MCInstallerTransaction ----------------------
(* Small instances of InstallerTransaction. *)
EXTENDS InstallerTransaction, TLC

CONSTANTS a, b, c

\* The second version drops one skill and brings another.
TwoVersions == (1 :> {a, b}) @@ (2 :> {b, c})
=============================================================================
