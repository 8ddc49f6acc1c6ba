---------------------------- MODULE MCTimerQueue ----------------------------
(* Two addresses and three timers: one address is reused, so that stale ids *)
(* exist; one-shot and repeating timers; a batch can hold two timers.        *)
EXTENDS TimerQueue

CONSTANTS a1, a2

MCAddr == {a1, a2}
MCDelays == {2}
MCIntervals == {1}
=============================================================================
