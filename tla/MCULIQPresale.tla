--------------------------- MODULE MCULIQPresale ---------------------------
(* Two rounds with different prices: in the first a USDC unit buys one and   *)
(* a half ULIQ units, in the second two thirds of one, so that allocations   *)
(* are rounded both below and above one.                                     *)
EXTENDS ULIQPresaleRound, TLC

MCAllocationCap == <<3, 2>>
MCPrice == <<4, 9>>
MCWindows == {<<1, 2>>, <<2, 3>>}
MCSymmetry == Permutations(Buyers)
MCWindow == {<<1, 2>>}
=============================================================================
