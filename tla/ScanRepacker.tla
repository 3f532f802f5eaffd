------------------------------ MODULE ScanRepacker ------------------------------
(***************************************************************************)
(* The callback of the scan repacker (vehicle_bringup/scan_repacker.py): a *)
(* scan of any number of beams becomes one of OutCount beams around the    *)
(* turn, each a copy of the beam nearest in angle, by the difference of    *)
(* the two numbers and not around the turn, as the code's abs() has it.    *)
(* One pointer goes through the old beams while the new angles go by.      *)
(*                                                                         *)
(* Angles count from angle_min, in units of which Turn make a whole turn;  *)
(* a range is known by the index of its beam.                              *)
(***************************************************************************)
EXTENDS Integers, Sequences

CONSTANTS
  Turn,
  OutCount,      \* output_count
  MinPoints,     \* min_input_points
  MaxBeams       \* of a scan, a bound

ASSUME RepackerAssumption ==
  /\ Turn \in Nat \ {0} /\ OutCount \in Nat \ {0} /\ Turn % OutCount = 0
  /\ MinPoints \in Nat \ {0} /\ MaxBeams \in Nat

VARIABLES
  beams,         \* n, the beams of the scan in hand
  increment,     \* its angle_increment
  pointer,       \* j
  ranges,        \* the beams copied so far
  published      \* None, or what the last scan became

repackVars == <<beams, increment, pointer, ranges, published>>

Unpublished == <<>>

RepackInit ==
  /\ beams = 0 /\ increment = 0 /\ pointer = 0
  /\ ranges = <<>> /\ published = Unpublished

Distance(j, a) == IF j * increment < a THEN a - j * increment ELSE j * increment - a
Angle(i) == i * (Turn \div OutCount)

\* A scan arrives; one with too few points is dropped.
TakeScan ==
  /\ beams = 0
  /\ beams' \in MinPoints..MaxBeams /\ increment' \in 1..Turn
  /\ pointer' = 0 /\ ranges' = <<>> /\ published' = Unpublished

Copying == beams # 0 /\ Len(ranges) < OutCount

Closer(a) == pointer < beams - 1 /\ Distance(pointer + 1, a) <= Distance(pointer, a)

Advance ==
  /\ Copying /\ Closer(Angle(Len(ranges)))
  /\ pointer' = pointer + 1
  /\ UNCHANGED <<beams, increment, ranges, published>>

\* Mutant: the pointer moves once per new beam at most.
CopyAfterOne ==
  /\ Copying
  /\ LET a == Angle(Len(ranges))
         j == IF Closer(a) THEN pointer + 1 ELSE pointer
     IN ranges' = Append(ranges, j) /\ pointer' = j
  /\ UNCHANGED <<beams, increment, published>>

Copy ==
  /\ Copying /\ ~Closer(Angle(Len(ranges)))
  /\ ranges' = Append(ranges, pointer)
  /\ UNCHANGED <<beams, increment, pointer, published>>

PublishScan ==
  /\ beams # 0 /\ Len(ranges) = OutCount
  /\ published' = ranges /\ beams' = 0
  /\ UNCHANGED <<increment, pointer, ranges>>

RepackNext == TakeScan \/ Advance \/ Copy \/ PublishScan

RepackSpec == RepackInit /\ [][RepackNext]_repackVars
-----------------------------------------------------------------------------
\* "Resampled by the nearest angle" (scan_repacker.py, line 6): although the
\* pointer never goes back, no beam of the scan is nearer to a new angle than the
\* one copied, for denser, sparser and partial scans (nearer by abs(), line 50).
NearestBeam ==
  \A i \in DOMAIN ranges : \A j \in 0..beams - 1 :
    Distance(ranges[i], Angle(i - 1)) <= Distance(j, Angle(i - 1))
=============================================================================
