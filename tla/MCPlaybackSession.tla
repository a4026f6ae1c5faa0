------------------------- MODULE MCPlaybackSession -------------------------
(* PlaybackSession with three plans: a session that is destroyed while two *)
(* units are on their way, one that is destroyed while something fails,    *)
(* and one that goes on with four units, enough for one track to overtake  *)
(* the other.                                                              *)
EXTENDS PlaybackSession

Bound(u, f, l) == [units |-> u, faults |-> f, leaves |-> l]

MCPlans == {Bound(2, 0, TRUE), Bound(1, 1, TRUE), Bound(4, 0, FALSE)}
MCDormant == {Bound(1, 0, TRUE)}
=============================================================================
