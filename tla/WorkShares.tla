----------------------------- MODULE WorkShares -----------------------------
(***************************************************************************)
(* How loops over 0..n-1 are shared among k goroutines, 0..k-1: either in  *)
(* shares rounded up, of which the last may be smaller or empty, or in     *)
(* shares rounded down, of which the last takes what is left.              *)
(***************************************************************************)
EXTENDS Integers

RoundedUp(n, k) == (n + k - 1) \div k
ShareStart(share, w) == w * share
ShareEnd(n, share, w) == IF ShareStart(share, w) + share < n THEN ShareStart(share, w) + share ELSE n

RoundedDown(n, k) == n \div k
DownStart(n, k, w) == w * RoundedDown(n, k)
DownEnd(n, k, w) == IF w = k - 1 THEN n ELSE DownStart(n, k, w) + RoundedDown(n, k)
=============================================================================
