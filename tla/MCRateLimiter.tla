--------------------------- MODULE MCRateLimiter ----------------------------
(* Constants for TLC: a clock that advances, or is set back by one unit.   *)
EXTENDS RateLimiter, TLC

ClockSteps == {-1, 1, 2}

KeySymmetry == Permutations(Keys)
=============================================================================
