------------------------------ MODULE BspLoad -------------------------------
(***************************************************************************)
(* What a BSP transfer promises the target: the frames of the program come *)
(* in order, none is left out, and GO comes only after the last of them.   *)
(* A frame may come more than once, and a transfer may be broken off and   *)
(* begun again.                                                            *)
(***************************************************************************)
EXTENDS Naturals

CONSTANT Frames     \* the frames of each program, as pairs of numbers

VARIABLES program,  \* the program being loaded
          have,     \* the frames of it that the target has
          running   \* the target was told to go

Precedes(f, g) == f[1] < g[1] \/ (f[1] = g[1] /\ f[2] < g[2])

Init == program \in DOMAIN Frames /\ have = {} /\ running = FALSE

Begin   == program' \in DOMAIN Frames /\ have' = {} /\ running' = FALSE
Deliver ==
    /\ ~running
    /\ \E f \in Frames[program] \ have :
          /\ {g \in Frames[program] : Precedes(g, f)} \subseteq have
          /\ have' = have \cup {f}
    /\ UNCHANGED <<program, running>>
Go      == /\ have = Frames[program] /\ ~running
           /\ running' = TRUE /\ UNCHANGED <<program, have>>

Next == Begin \/ Deliver \/ Go

Spec == Init /\ [][Next]_<<program, have, running>>
=============================================================================
