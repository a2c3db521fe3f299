------------------------ MODULE MCCalibrationPoller ------------------------
\* Values for the instances of CalibrationPoller that TLC checks.
EXTENDS CalibrationPoller, TLC

CONSTANTS r1, r2, s1, s2

OwnSets   == r1 :> s1 @@ r2 :> s2
SharedSet == r1 :> s1 @@ r2 :> s1
=============================================================================
