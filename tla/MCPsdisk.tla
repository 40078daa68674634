------------------------------ MODULE MCPsdisk ------------------------------
(* Instances of Psdisk for TLC. *)
EXTENDS Psdisk

Part(n, o, s) == [name |-> n, offset |-> o, size |-> s]

\* Two partitions under one name, two that overlap, one off the blocks.
MCParts == {Part("a", 0, 4), Part("a", 4, 4), Part("b", 4, 4), Part("b", 8, 4), Part("c", 2, 4)}

\* A table block holds two partitions, or one.
MCMems == {[memsz |-> 12, blksz |-> 4], [memsz |-> 8, blksz |-> 2]}
=============================================================================
