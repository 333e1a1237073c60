-------------------------- MODULE MCSolanaPayout ---------------------------
(***************************************************************************)
(* Model-checking instances of SolanaPayout.  The two swaps go to the same *)
(* wallet, and 199 is within 50 bps of 200: an escrow made for one may be  *)
(* released for the other.                                                 *)
(***************************************************************************)
EXTENDS SolanaPayout

CONSTANTS s1, s2, dest

PriceOf == [s \in Swap |-> IF s = s1 THEN 200 ELSE 199]
TwoThenOne == [s \in Swap |-> IF s = s1 THEN 2 ELSE 1]
ToDest == [s \in Swap |-> dest]
=============================================================================
