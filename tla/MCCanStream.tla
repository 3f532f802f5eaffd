---------------------------- MODULE MCCanStream ----------------------------
(***************************************************************************)
(* Small instances of CanStream for TLC.                                   *)
(***************************************************************************)
EXTENDS CanStream

Speed(d, v, w) == [driver |-> d, motor1 |-> v, motor2 |-> w]

\* Extremes of a signed 32-bit integer, and a payload that starts like a frame.
SomeReadings ==
  {Speed(1, -2147483647 - 1, 2147483647), Speed(2, -2012352767, -1)}

\* The head of a frame up to its driver, a heartbeat.
SomeChunks == {1, 12, 14}
SomeNoise == {<<136, 13, 238, 1>>, <<110, 111>>}

\* The head of a frame is no frame: what follows it does not complete one.
ASSUME SomeStreamIsReadable == SaneReadings /\ NoFalseHead
=============================================================================
