--------------------------- MODULE MCVaultRegistry ---------------------------
(***************************************************************************)
(* Instances of VaultRegistry for TLC.                                    *)
(***************************************************************************)
EXTENDS VaultRegistry, TLC

CONSTANTS n1, n2

\* n1 and n2 differ in case outside ASCII.
MCLower == (Personal :> Personal) @@ (n1 :> n1) @@ (n2 :> n1)

MCSymmetry == Permutations(Vaults)
=============================================================================
