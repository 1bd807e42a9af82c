-------------------------- MODULE MCVaultAuthority --------------------------
(***************************************************************************)
(* Instances of VaultAuthority for TLC.                                   *)
(***************************************************************************)
EXTENDS VaultAuthority, TLC

CONSTANTS d1, d2, k1, k2, theVault

Upload(d, k, from, to, recordClock, records) ==
    [device |-> d, key |-> k, from |-> from, to |-> to,
     recordClock |-> recordClock, records |-> records, vault |-> theVault]

\* Two devices that choose the same key and the same clock; the second delta of
\* d1 carries a record clock above its to_clock; one delta has reversed clocks.
MCUploads ==
    {Upload(d1, k1, 0, 1, 1, 1),
     Upload(d1, k2, 1, 1, 2, 1),
     Upload(d2, k1, 0, 1, 1, 0),
     Upload(d2, k2, 2, 1, 1, 0)}

\* Request slots are interchangeable.
MCSymmetry == Permutations(Slots)
=============================================================================
