------------------------------- MODULE MCPhfs -------------------------------
(***************************************************************************)
(* Instances of PhfsSystem for TLC: the client's repertoire of requests,   *)
(* and the files the server starts with.                                   *)
(***************************************************************************)
EXTENDS PhfsSystem

CONSTANTS p, q, a, b

Call(type, path, rw, creat, pos, cnt, data) ==
    [type |-> type, seq |-> 0, path |-> path, rw |-> rw, creat |-> creat,
     handle |-> 0, pos |-> pos, cnt |-> cnt, data |-> data]

OpenRW     == Call("OPEN", p, TRUE, FALSE, 0, 0, <<>>)
OpenRO     == Call("OPEN", p, FALSE, FALSE, 0, 0, <<>>)
OpenAbsent == Call("OPEN", q, FALSE, FALSE, 0, 0, <<>>)
OpenCreate == Call("OPEN", q, TRUE, TRUE, 0, 0, <<>>)
ReadMore   == Call("READ", NoPath, FALSE, FALSE, 0, 3, <<>>)   \* clamped
ReadNeg    == Call("READ", NoPath, FALSE, FALSE, 1, -1, <<>>)  \* clamped, too
WriteFull  == Call("WRITE", NoPath, FALSE, FALSE, 0, 2, <<a, b>>)
WriteGap   == Call("WRITE", NoPath, FALSE, FALSE, 1, 1, <<b>>)
Simple(t)  == Call(t, NoPath, FALSE, FALSE, 0, 0, <<>>)

\* The contents of files; the descriptor table; long answers and the rest.
FileCalls  == {OpenRW, OpenCreate, ReadMore, WriteFull, WriteGap, Simple("RESET")}
TableCalls == {OpenRO, OpenAbsent, ReadNeg, WriteFull, Simple("CLOSE"),
               Simple("RESET"), Simple("FSTAT"), Simple("ERR")}
FewCalls   == {OpenRW, OpenRO, ReadMore, Simple("RESET"), Simple("ERR")}

\* Pipes with the contents of files, UDP with the descriptor table.
MCCalls == [PIPE |-> FileCalls, UDP |-> TableCalls, TCP |-> FewCalls]

MCDisk == [x \in {p} |-> <<b, a>>]
=============================================================================
