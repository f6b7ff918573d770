---------------------------- MODULE MCRealtimeActor ----------------------------
(* Values for TLC: relative validity windows of RealtimeActor.              *)
EXTENDS RealtimeActor

\* from the tick of submission on, without an expiry (later than the horizon)
FromNow  == {0}
Unending == {9}

\* a window that begins at once or at the next tick and ends after one more
NearNow == {0, 1}
Brief   == {1}
=============================================================================
