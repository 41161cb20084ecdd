---------------------------- MODULE MCFlashCache ----------------------------
(***************************************************************************)
(* FlashCache with two builds of one image, in two directories, and one of *)
(* another.                                                                *)
(***************************************************************************)
EXTENDS FlashCache, TLC

CONSTANTS boot, boot_old, vendor, boot_part, vendor_part

MCPartOf == [f \in Files |-> IF f = vendor THEN vendor_part ELSE boot_part]

\* Contents have no order, and the two builds no rank.
MCSymmetry == Permutations(Contents) \cup Permutations({boot, boot_old})
=============================================================================
