---------------------------- MODULE MCFrameReaper ----------------------------
(* Small instances of FrameReaper for TLC.                                 *)
EXTENDS FrameReaper
=============================================================================
