------------------------------- MODULE MCBsp --------------------------------
(* Instances of Bsp for TLC. *)
EXTENDS Bsp

Seg(load, size) == [load |-> load, size |-> size]

\* A kernel with a segment of one frame and a half, one that is not loaded and
\* one of exactly one frame; a program with one short segment and an empty one.
MCFiles == [f \in {"kernel", "prog"} |->
               IF f = "kernel" THEN <<Seg(TRUE, 3), Seg(FALSE, 2), Seg(TRUE, 2)>>
               ELSE <<Seg(TRUE, 1), Seg(TRUE, 0)>>]
=============================================================================
