---------------------------- MODULE MCDetections ----------------------------
(* A small instance of Detections for TLC.                                 *)
EXTENDS Detections

\* Five boxes that overlap in chains, up to three at a time, with scores
\* that tie; and one box anywhere, over the edges of the frame too.
ChainedBoxes == {<<2, 2, 2, 2>>, <<3, 2, 2, 2>>, <<3, 3, 3, 2>>, <<4, 2, 2, 3>>, <<0, 0, 3, 3>>}
Proposal(b, s) == [cx |-> b[1], cy |-> b[2], w |-> b[3], h |-> b[4], scores |-> s]
Few == {Proposal(b, s) : b \in ChainedBoxes, s \in {<<50, 50>>, <<40, 60>>}}
Many == {Proposal(<<cx, 3, e, e>>, <<s, s>>) : cx \in -1 .. 9, e \in -1 .. 7, s \in {30, 120}}
SmallTensors == [1 .. 1 -> Many] \cup [1 .. 3 -> Few]
SmallFrames == {<<3, 2>>, <<8, 5>>, <<7, 12>>}
=============================================================================
