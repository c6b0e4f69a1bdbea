---------------------------- MODULE MCLiveStream ----------------------------
(* Instance of LiveStream for TLC. *)
EXTENDS LiveStream
CONSTANTS v1, v2
MCViewers1 == {v1}
MCViewers2 == {v1, v2}
=============================================================================
