--------------------------- MODULE MCRateLimiter ----------------------------
(***************************************************************************)
(* RateLimiter for TLC: three callers, four reservations, an interval of   *)
(* two ticks and timers that may be one tick late.                         *)
(***************************************************************************)
EXTENDS RateLimiter

=============================================================================
