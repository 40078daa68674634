------------------------------- MODULE MCPsu --------------------------------
(* Instances of Psu for TLC. *)
EXTENDS Psu, SequencesExt

CONSTANT MaxLines   \* lines of a script

Id(v)  == Tok("id", v)
Num(n) == Tok("int", n)
Str(v) == Tok("str", v)
Nl     == Tok("nl", "")
Remark == Tok("comment", "")
BadTok == Tok("bad", "")
Half   == Tok("half", "")
Open   == Tok("open", "")

\* "f" has three cells, the byte string "s" five, "e" is empty; "missing" does not
\* exist.
MCFiles == [f |-> 3, s |-> 5, e |-> 0]

MCLines == {
    <<Nl>>, <<Remark, Nl>>, <<BadTok, Nl>>,
    <<Id("WAIT"), Num(1), Num(2), Nl>>,
    <<Id("WAIT"), Num(2), Num(1), Remark, Nl>>,
    <<Id("WAIT"), Num(1), Nl>>,
    <<Id("WAIT"), Num(1), BadTok, Nl>>,
    <<Half, Remark, Nl>>, <<Half, Num(1)>>, <<Open>>,
    <<Id("WAIT"), Num(1), Half, Remark, Nl>>,
    <<Id("WRITE_FILE"), Id("F"), Str("f"), Nl>>,
    <<Id("WRITE_FILE"), Id("S"), Str("s"), Num(1), Num(0), Num(0), Num(4), Nl>>,
    <<Id("WRITE_FILE"), Id("F"), Str("f"), Num(1), Num(0), Num(1), Nl>>,
    <<Id("WRITE_FILE"), Id("S"), Str("e"), Nl>>,
    <<Id("WRITE_FILE"), Id("F"), Str("e"), Nl>>,
    <<Id("WRITE_FILE"), Id("F"), Str("missing"), Nl>>,
    <<Id("WRITE_FILE"), Id("X"), Str("f"), Nl>>,
    <<Id("LOAD_IMAGE"), Str("s"), Nl>>,
    <<Id("WRITE_REGISTER"), Num(1), Num(2), Num(8), Nl>>,
    <<Id("WRITE_REGISTER"), Num(1), Str("s"), Num(8), Nl>>,
    <<Id("JUMP_ADDRESS"), Num(1), Nl>>,
    <<Id("JUMP_ADDRESS"), Num(1), Num(1), Nl>>,
    <<Id("JUMP_ADDRESS"), Num(1)>>,
    <<Id("ERROR_STATUS"), Nl>>,
    <<Id("ERROR_STATUS")>>,
    <<Id("GET_PROPERTY"), Remark>>,
    <<Id("PROMPT"), Nl>>, <<Num(1), Nl>>}

\* Scripts of which only the last line may end without a newline.
MCScripts == {FlattenSeq(l) : l \in {k \in BoundedSeq(MCLines, MaxLines) :
                                        /\ k # <<>>
                                        /\ \A i \in 1 .. Len(k) - 1 : Last(k[i]).typ = "nl"}}
=============================================================================
