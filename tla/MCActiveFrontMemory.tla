-------------------------- MODULE MCActiveFrontMemory --------------------------
(***************************************************************************)
(* Two frames make a window and two a barrier; calls may give any time.    *)
(***************************************************************************)
EXTENDS ActiveFrontMemory, TLC

Good == [position |-> 0, variance |-> 1, lag |-> 0, skew |-> 0, faults |-> {}]

MCPositions == {0, 3}
MCImages == {Good, [Good EXCEPT !.position = 3, !.lag = 1, !.skew = 1]}
MCSafety == {{}, {"object_contact_detected"}}
MCSymmetry == Permutations(FrameIds)
MCUnsafe == {"controller_tracking_invalid"}
=============================================================================
