--------------------------- MODULE MCTimeKeeping ---------------------------
(***************************************************************************)
(* Small instances of TimeKeeping: a minute of two ticks, an hour of two   *)
(* or four minutes, a summer of one to three hours of the clock.           *)
(***************************************************************************)
EXTENDS TimeKeeping

(* Slow and fast by less than Gross, summer beginning soon or ending soon *)
(* on the clock; off by more than Gross either way.                       *)
WrongClocks == {-3, 2, 10, -20, 20}
============================================================================
