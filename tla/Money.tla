-------------------------------- MODULE Money --------------------------------
(***************************************************************************)
(* Rupee amounts as integers in paise.  The code keeps them in binary      *)
(* floats and calls round(x, 2) after most operations, so a price, a fee   *)
(* or a cash balance is a whole number of paise whenever it is stored.     *)
(*                                                                         *)
(* A quotient n/d (d > 0) is rounded in two ways:                          *)
(*   RoundHalfEven(n, d)  what round() does to the exact quotient;         *)
(*   Nearest(n, d)        every integer round() can return once n/d has    *)
(*                        been computed in floating point: at a tie the    *)
(*                        float may lie on either side, so both neighbours *)
(*                        are possible.                                    *)
(***************************************************************************)
EXTENDS Integers

Abs(x) == IF x < 0 THEN -x ELSE x
Lesser(x, y) == IF x < y THEN x ELSE y
Greater(x, y) == IF x < y THEN y ELSE x

RoundHalfEven(n, d) ==
  LET q == n \div d
      r == n % d
  IN  IF 2 * r < d \/ (2 * r = d /\ q % 2 = 0) THEN q ELSE q + 1

Nearest(n, d) ==
  { r \in (n \div d) .. (n \div d) + 1 :
      2 * n - d <= 2 * (d * r) /\ 2 * (d * r) <= 2 * n + d }
=============================================================================
