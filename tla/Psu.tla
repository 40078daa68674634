-------------------------------- MODULE Psu ---------------------------------
(***************************************************************************)
(* psu (psu/psu.c, common/script.c): runs a script of commands for a       *)
(* device in its serial download mode, over USB HID.                       *)
(*                                                                         *)
(* The script is read twice by the same parser: first "dry", to find its   *)
(* errors, then with the device.  The parser is one token ahead, and       *)
(* nobody looks at the error when it cannot read a token.  Blanks are not  *)
(* modelled, consecutive newlines are one token (as for the parser).  The  *)
(* tokens that cannot be read are                                          *)
(*   "bad":  a character that begins no token, or '-' without a digit: the *)
(*           parser stays in front of it;                                  *)
(*   "half": a name with an odd character in it (FOO#x): the parser goes   *)
(*           on at that character;                                         *)
(*   "open": a quote that is not closed: it takes the rest of the script.  *)
(* The device is external: it answers or fails.                            *)
(***************************************************************************)
EXTENDS Integers, Sequences, FiniteSets

CONSTANTS Scripts,      \* the scripts, each a sequence of tokens
          Files,        \* the files that exist and the byte strings that parse, with lengths
          ChunkSz,      \* cells of a report with data (BUF_SIZE - 1)
          Align,        \* what the length of a report is a multiple of
          WaitTime,     \* usbWaitTime
          MaxFaults     \* failures of the device and of the files

\* A negative offset or size makes write_file_cmd read anywhere: not modelled.
Tokens == [typ : {"int"}, val : Nat]
          \cup [typ : {"id", "str", "nl", "comment", "bad", "half", "open"}, val : STRING]

ASSUME PsuAssumption ==
    /\ ChunkSz \in Nat \ {0} /\ Align \in Nat \ {0} /\ ChunkSz % Align = 0
    /\ WaitTime \in Nat /\ MaxFaults \in Nat
    /\ \A f \in DOMAIN Files : Files[f] \in Nat

\* The odd character of a name begins a quote, a number, a comment or nothing.
OddStart == {"str", "open", "int", "comment", "bad"}
ASSUME ScriptsAssumption ==
    \A t \in Scripts :
        /\ t \in Seq(Tokens) /\ t # <<>>
        /\ \A k \in 1 .. Len(t) :
              /\ t[k].typ = "half" => k < Len(t) /\ t[k + 1].typ \in OddStart
              /\ t[k].typ = "open" => k = Len(t)

VARIABLES
    script,     \* the script, the sequence of its tokens
    pass,       \* "dry" or "run"
    pc,         \* "parse", "args", "eol", "wait", "data", "reply", "ended" or "crashed"
    s,          \* the parser: ptr, token and next
    err,        \* s->errstr: why the script was given up
    cmd,        \* the command in work: its name and arguments
    want,       \* what it still expects
    dev,        \* dev of main: NoDev or a handle
    open,       \* handles that are open
    misuse,     \* a handle was used or closed that was not open
    secs,       \* seconds wait_cmd has waited
    reads,      \* answers the command still waits for
    rcv,        \* the cells the device has got of a file
    ops,        \* commands the device has carried out: [name, args, on]
    faults      \* faults so far

vars == <<script, pass, pc, s, err, cmd, want, dev, open, misuse, secs, reads, rcv, ops, faults>>
io   == <<secs, reads, rcv>>

Tok(t, v) == [typ |-> t, val |-> v]
Invalid == Tok("invalid", "none")
NoDev   == [id |-> 0, on |-> <<>>]
NoCmd   == [name |-> "none", args |-> <<>>]

Fault   == faults < MaxFaults /\ faults' = faults + 1
NoFault == UNCHANGED faults

-----------------------------------------------------------------------------
(* The parser.                                                             *)

Start == [ptr |-> 1, token |-> Invalid, next |-> Invalid]
More(t) == t.ptr <= Len(script)

\* What s->next is when a name or a quote could not be read: its type and number
\* are those of the token before, its text runs from the new place to the old end
\* and is no command, F or S.
Stale(n) == [n EXCEPT !.val = IF n.typ = "int" THEN @ ELSE "none"]

\* '-' without a digit also makes the number 0, in a statement that fails.
script_get_token(t) ==
    IF More(t) /\ script[t.ptr].typ # "bad"
    THEN [ptr |-> t.ptr + 1, token |-> t.next,
          next |-> IF script[t.ptr].typ \in {"half", "open"} THEN Stale(t.next) ELSE script[t.ptr]]
    ELSE [t EXCEPT !.token = t.next]

\* What the commands expect; "opt" is an integer that may be left out, "kind"
\* the letter F or S.
Args == [ERROR_STATUS   |-> <<>>,
         GET_PROPERTY   |-> <<>>,
         JUMP_ADDRESS   |-> <<"int">>,
         LOAD_IMAGE     |-> <<"str">>,
         WAIT           |-> <<"int", "int">>,
         WRITE_FILE     |-> <<"kind", "str", "opt", "opt", "opt", "opt">>,
         WRITE_REGISTER |-> <<"int", "int", "int">>]

\* The commands of the table funcs; DCD_WRITE, PROMPT and REBOOT always fail.
funcs == DOMAIN Args

-----------------------------------------------------------------------------
(* Leaving.                                                                *)

\* hid_close(NULL) does nothing.
hid_close == open' = open \ {dev.id} /\ misuse' = (misuse \/ (dev # NoDev /\ dev.id \notin open))

\* script_parse returns an error: main closes the device and ends.
Fail(e) ==
    /\ pc' = "ended" /\ err' = e
    /\ \/ pass = "run" /\ hid_close
       \/ pass = "dry" /\ UNCHANGED <<open, misuse>>
    /\ UNCHANGED <<script, pass, cmd, want, dev, io, ops>>

-----------------------------------------------------------------------------
(* script_parse.                                                           *)

\* Before it reads a line script_parse finds out where it ends: if the script
\* begins with a character that begins no token it looks behind a null pointer.
script_parse_crash ==
    /\ pc = "parse" /\ More(s) /\ s.next.typ = "invalid" /\ script[1].typ = "bad"
    /\ pc' = "crashed" /\ NoFault
    /\ UNCHANGED <<script, pass, s, err, cmd, want, dev, open, misuse, io, ops>>

\* In front of a bad character this changes nothing: the loop goes round for ever.
script_parse_skip ==
    /\ pc = "parse" /\ More(s) /\ s.next.typ \in {"nl", "comment"}
    /\ s' = script_get_token(s) /\ NoFault
    /\ UNCHANGED <<script, pass, pc, err, cmd, want, dev, open, misuse, io, ops>>

\* No identifier, or one that is no command; or the script begins with a name
\* that cannot be read or with '-'.
script_parse_reject ==
    /\ pc = "parse" /\ More(s) /\ s.next.typ \in {"int", "str", "id", "invalid"}
    /\ s.next.typ = "id" => s.next.val \notin funcs
    /\ s' = IF s.next.typ = "id" THEN script_get_token(s) ELSE s
    /\ Fail("syntax") /\ NoFault

\* Mutant: whatever is left of the line is passed over.
script_parse_eol_any ==
    /\ pc = "eol" /\ NoFault /\ s' = script_get_token(s) /\ pc' = "parse"
    /\ UNCHANGED <<script, pass, err, cmd, want, dev, open, misuse, io, ops>>

\* A command went well: a comment or the end of the line has to follow.
script_parse_eol ==
    /\ pc = "eol" /\ NoFault
    /\ \/ /\ s.next.typ \in {"comment", "nl"} /\ s' = script_get_token(s) /\ pc' = "parse"
          /\ UNCHANGED <<script, pass, err, cmd, want, dev, open, misuse, io, ops>>
       \/ s.next.typ \notin {"comment", "nl"} /\ UNCHANGED s /\ Fail("syntax")

\* Mutant: the second pass goes on where the first one ended.
script_parse_again_end(t) == t

\* script_parse begins again; what it was looking at is still there.
script_parse_again(t) ==
    LET u == script_get_token([t EXCEPT !.ptr = 1]) IN [u EXCEPT !.token = u.next]

\* The loop has reached the end of the script.  The next token, if it was the
\* last one of the script, has not been looked at.
script_parse_end ==
    /\ pc = "parse" /\ ~More(s)
    /\ \/ /\ pass = "dry" /\ pass' = "run" /\ s' = script_parse_again(s) /\ NoFault
          /\ UNCHANGED <<pc, err, open, misuse>>
       \/ /\ pass = "dry" /\ Fault /\ pc' = "ended" /\ err' = "device"
          /\ UNCHANGED <<pass, s, open, misuse>>
       \/ /\ pass = "run" /\ pc' = "ended" /\ hid_close /\ NoFault
          /\ UNCHANGED <<pass, s, err>>
    /\ UNCHANGED <<script, cmd, want, dev, io, ops>>

\* A command is met.  WAIT closes the device before it reads its arguments; the
\* handle stays in dev until a device is opened again or not found.
script_parse_command ==
    /\ pc = "parse" /\ More(s) /\ s.next.typ = "id" /\ s.next.val \in funcs
    /\ s' = script_get_token(s) /\ pc' = "args"
    /\ cmd' = [name |-> s.next.val, args |-> <<>>] /\ want' = Args[s.next.val]
    /\ \/ s.next.val = "WAIT" /\ hid_close
       \/ s.next.val # "WAIT" /\ UNCHANGED <<open, misuse>>
    /\ NoFault /\ UNCHANGED <<script, pass, err, dev, io, ops>>

Fits(tok, w) ==
    CASE w = "kind" -> tok.typ = "id" /\ tok.val \in {"F", "S"}
      [] w = "opt"  -> tok.typ = "int"
      [] OTHER      -> tok.typ = w

\* Mutant: in the dry run an integer that comes last is not looked at.
script_expect_early ==
    /\ pc = "args" /\ want # <<>> /\ NoFault
    /\ \/ /\ Fits(s.next, Head(want)) /\ s' = script_get_token(s) /\ want' = Tail(want)
          /\ cmd' = [cmd EXCEPT !.args = Append(@, s.next.val)]
          /\ UNCHANGED <<script, pass, pc, err, dev, open, misuse, io, ops>>
       \/ /\ \/ Head(want) = "opt" /\ s.next.typ \in {"nl", "comment"}
             \/ pass = "dry" /\ want = <<"int">>
          /\ want' = <<>>
          /\ UNCHANGED <<script, pass, pc, s, err, cmd, dev, open, misuse, io, ops>>
       \/ /\ ~Fits(s.next, Head(want)) /\ ~(pass = "dry" /\ want = <<"int">>)
          /\ ~(Head(want) = "opt" /\ s.next.typ \in {"nl", "comment"})
          /\ Fail("syntax") /\ UNCHANGED s

\* script_expect and script_expect_opt for the next argument.
script_expect ==
    /\ pc = "args" /\ want # <<>> /\ NoFault
    /\ \/ /\ Fits(s.next, Head(want)) /\ s' = script_get_token(s) /\ want' = Tail(want)
          /\ cmd' = [cmd EXCEPT !.args = Append(@, s.next.val)]
          /\ UNCHANGED <<script, pass, pc, err, dev, open, misuse, io, ops>>
       \/ /\ Head(want) = "opt" /\ s.next.typ \in {"nl", "comment"} /\ want' = <<>>
          /\ UNCHANGED <<script, pass, pc, s, err, cmd, dev, open, misuse, io, ops>>
       \/ /\ ~Fits(s.next, Head(want))
          /\ ~(Head(want) = "opt" /\ s.next.typ \in {"nl", "comment"})
          /\ Fail("syntax") /\ UNCHANGED s

\* The arguments of a command of the set C are complete.
Parsed(C) == pc = "args" /\ want = <<>> /\ cmd.name \in C

\* In the dry run a command ends with its arguments.
Dry ==
    /\ pass = "dry" /\ pc' = "eol" /\ NoFault
    /\ UNCHANGED <<err, dev, open, misuse, io, ops>>

Finished == ops' = Append(ops, [name |-> cmd.name, args |-> cmd.args, on |-> dev'.on])

-----------------------------------------------------------------------------
(* The commands.                                                           *)

wait_cmd ==
    /\ Parsed({"WAIT"})
    /\ \/ Dry
       \/ /\ pass = "run" /\ pc' = "wait" /\ secs' = 0 /\ NoFault
          /\ UNCHANGED <<err, dev, open, misuse, reads, rcv, ops>>
    /\ UNCHANGED <<script, pass, s, cmd, want>>

\* Mutant: retries is not counted down.
wait_cmd_open_forever ==
    /\ pc = "wait" /\ NoFault /\ dev' = NoDev
    /\ UNCHANGED <<script, pass, pc, s, err, cmd, want, open, misuse, io, ops>>

\* One second of wait_cmd's loop, with retries = WaitTime - secs: the device is
\* there, or it is not, for the last time or not.
wait_cmd_open ==
    /\ pc = "wait" /\ secs' = secs + 1 /\ NoFault
    /\ \/ /\ dev' = [id |-> 1 + Len(ops), on |-> cmd.args] /\ open' = open \cup {dev'.id}
          /\ Finished /\ pc' = "eol" /\ UNCHANGED err
       \/ /\ secs < WaitTime /\ dev' = NoDev
          /\ UNCHANGED <<pc, err, open, ops>>
       \/ /\ secs >= WaitTime /\ dev' = NoDev /\ pc' = "ended" /\ err' = "timeout"
          /\ UNCHANGED <<open, ops>>
    /\ UNCHANGED <<script, pass, s, cmd, want, misuse, reads, rcv>>

\* The report with the command goes to the device.
hid_write_cmd(answers) ==
    /\ dev # NoDev /\ misuse' = (misuse \/ dev.id \notin open) /\ reads' = answers
    /\ NoFault /\ UNCHANGED <<err, dev, open, secs, ops>>

\* There is no device, or it does not take the command.
hid_write_error == Fail("device") /\ IF dev = NoDev THEN NoFault ELSE Fault

\* WRITE_REGISTER, JUMP_ADDRESS, ERROR_STATUS and GET_PROPERTY
device_cmd ==
    /\ Parsed({"WRITE_REGISTER", "JUMP_ADDRESS", "ERROR_STATUS", "GET_PROPERTY"})
    /\ \/ Dry
       \/ pass = "run" /\ hid_write_error
       \/ /\ pass = "run" /\ pc' = "reply" /\ UNCHANGED rcv
          /\ hid_write_cmd(IF cmd.name \in {"JUMP_ADDRESS", "GET_PROPERTY"} THEN 1 ELSE 2)
    /\ UNCHANGED <<script, pass, s, cmd, want>>

\* The name of the file, or what stands between the quotes.
Name == cmd.args[IF cmd.name = "WRITE_FILE" THEN 2 ELSE 1]
Kind == IF cmd.name = "WRITE_FILE" THEN cmd.args[1] ELSE "F"

\* The byte string can be parsed, or the file is there and not empty: mmap fails
\* for an empty one.
Usable(kind, name) == name \in DOMAIN Files /\ (kind = "F" => Files[name] > 0)

\* The file cannot be used; it may be gone in the second pass.
get_buffer_error ==
    \/ ~Usable(Kind, Name) /\ Fail("syntax") /\ NoFault
    \/ Usable(Kind, Name) /\ Fail("file") /\ Fault

\* WRITE_FILE and LOAD_IMAGE
file_cmd ==
    /\ Parsed({"WRITE_FILE", "LOAD_IMAGE"})
    /\ \/ get_buffer_error
       \/ Usable(Kind, Name) /\ Dry
       \/ Usable(Kind, Name) /\ pass = "run" /\ hid_write_error
       \/ /\ Usable(Kind, Name) /\ pass = "run" /\ pc' = "data" /\ rcv' = <<>>
          /\ hid_write_cmd(IF cmd.name = "WRITE_FILE" THEN 2 ELSE 0)
    /\ UNCHANGED <<script, pass, s, cmd, want>>

\* The optional arguments of WRITE_FILE behind type and name; 0 if left out.
Opt(i) == IF cmd.name = "WRITE_FILE" /\ Len(cmd.args) >= 2 + i THEN cmd.args[2 + i] ELSE 0
FileLen == Files[Name]
Offset  == Opt(3)

\* The size does not take the offset into account.
Size    == IF Opt(4) # 0 /\ Opt(4) < FileLen THEN Opt(4) ELSE FileLen

\* What is sent of a buffer: cell n of the file is the number n, and nothing is
\* known of the memory behind its end.  Padding is 0.
Unknown == -1
Slice   == [i \in 1 .. Size |-> IF Offset + i <= FileLen THEN Offset + i ELSE Unknown]

\* Mutant: the rest of a file that fills no report is not sent.
Rest_full(n) == IF Size - n < ChunkSz THEN 0 ELSE ChunkSz

\* The cells of the next report when n have been sent.
Rest(n) == IF Size - n < ChunkSz THEN Size - n ELSE ChunkSz

\* A report is padded to Align, except in mcuboot_loadImage.
Padded(n) == IF cmd.name = "WRITE_FILE" THEN ((n + Align - 1) \div Align) * Align ELSE n

\* sdp_writeFile and mcuboot_loadImage: one report.  The memory behind the buffer
\* may not be there.
hid_write_data ==
    LET n == Rest(Len(rcv)) IN
    /\ pc = "data" /\ n > 0
    /\ \/ /\ rcv' = rcv \o [i \in 1 .. Padded(n) |-> IF i <= n THEN Slice[Len(rcv) + i] ELSE 0]
          /\ NoFault
          /\ UNCHANGED <<script, pass, pc, s, err, cmd, want, dev, open, misuse, secs, reads, ops>>
       \/ /\ Offset + Len(rcv) + n > FileLen /\ pc' = "crashed" /\ NoFault
          /\ UNCHANGED <<script, pass, s, err, cmd, want, dev, open, misuse, io, ops>>
       \/ Fault /\ Fail("device") /\ UNCHANGED s

\* The whole file is sent.
hid_write_last ==
    /\ pc = "data" /\ Rest(Len(rcv)) <= 0 /\ NoFault
    /\ \/ reads > 0 /\ pc' = "reply" /\ UNCHANGED <<dev, ops>>
       \/ reads = 0 /\ pc' = "eol" /\ UNCHANGED dev /\ Finished
    /\ UNCHANGED <<script, pass, s, err, cmd, want, open, misuse, io>>

\* An answer is read.  An empty one makes sdp_errStatus return 0.
hid_read ==
    /\ pc = "reply" /\ UNCHANGED s
    /\ \/ /\ reads > 1 /\ reads' = reads - 1 /\ NoFault
          /\ UNCHANGED <<script, pass, pc, err, cmd, want, dev, open, misuse, secs, rcv, ops>>
       \/ /\ \/ reads = 1 /\ NoFault
             \/ reads > 1 /\ cmd.name = "ERROR_STATUS" /\ Fault
          /\ pc' = "eol" /\ UNCHANGED dev /\ Finished
          /\ UNCHANGED <<script, pass, err, cmd, want, open, misuse, io>>
       \/ Fault /\ Fail("device")

-----------------------------------------------------------------------------
Ended == pc \in {"ended", "crashed"}
finished == Ended /\ UNCHANGED vars

Init ==
    /\ script \in Scripts
    /\ pass = "dry" /\ pc = "parse"
    /\ s = LET t == script_get_token(Start) IN [t EXCEPT !.token = t.next]
    /\ err = "none" /\ cmd = NoCmd /\ want = <<>> /\ dev = NoDev /\ open = {} /\ misuse = FALSE
    /\ secs = 0 /\ reads = 0 /\ rcv = <<>> /\ ops = <<>> /\ faults = 0

Next ==
    \/ script_parse_crash \/ script_parse_skip \/ script_parse_reject
    \/ script_parse_eol \/ script_parse_end \/ script_parse_command \/ script_expect
    \/ wait_cmd \/ wait_cmd_open \/ device_cmd \/ file_cmd
    \/ hid_write_data \/ hid_write_last \/ hid_read \/ finished

\* psu runs on, and the device answers or fails in the end.
Spec == Init /\ [][Next]_vars /\ WF_vars(Next)

-----------------------------------------------------------------------------
(* Properties.                                                             *)

\* No handle of a device is used or closed after it was closed, although WAIT
\* leaves a closed handle in dev and main closes whatever is there; none is left
\* open when psu ends.
HandlesSound == ~misuse /\ (pc = "ended" => open = {})

\* A statement begins behind a newline or a comment, and ends with one.
Ends(k)   == k \in 1 .. Len(script) /\ script[k].typ \in {"nl", "comment"}
Starts(k) == k = 1 \/ Ends(k - 1)

\* The token at j is a name with an odd character in it behind a number.
Repeats(j) == script[j].typ = "half" /\ script[j - 1].typ = "int"

\* At k there is a command, n arguments of the right types behind it, and then
\* the end of the statement; what is left out may be left out, and a file that
\* is named can be used.  If lax, a name that cannot be read may stand for the
\* number in front of it.
CommandAt(k, n, lax) ==
    LET a == Args[script[k].val] IN
    /\ script[k].typ = "id" /\ script[k].val \in funcs /\ Ends(k + n + 1)
    /\ \A i \in 1 .. n : /\ i <= Len(a)
                        /\ \/ Fits(script[k + i], a[i])
                           \/ lax /\ a[i] \in {"int", "opt"} /\ Repeats(k + i)
    /\ \A i \in n + 1 .. Len(a) : a[i] = "opt"
    /\ script[k].val = "WRITE_FILE" => Usable(script[k + 1].val, script[k + 2].val)
    /\ script[k].val = "LOAD_IMAGE" => Usable("F", script[k + 1].val)
Proper(k) == Ends(k) \/ \E n \in 0 .. Len(script) : CommandAt(k, n, FALSE)

\* What gets through besides.  The end of a script: a single token without a
\* newline is never looked at.  A line that begins with a name with an odd character
\* in it: the name counts as one more newline, and only a comment, or the single
\* token at the end, may follow.  A name like that as an argument: it counts as the
\* number before it.
Unseen(k) == k = Len(script) /\ script[k].typ # "bad"
Slips(k)  ==
    \/ Unseen(k)
    \/ k > 1 /\ script[k].typ = "half" /\ (script[k + 1].typ = "comment" \/ Unseen(k + 1))
    \/ \E n \in 0 .. Len(script) : CommandAt(k, n, TRUE)

\* psu talks to no device unless the dry run has read all of the script and every
\* statement of it is a proper command, a comment or nothing, or one of the three
\* things in Slips that script_parse lets through; an unreadable token anywhere
\* else is found.  The second pass reads the script the same way: it fails because
\* of the device or of a file, not of the script.
SyntaxChecked ==
    pass = "run" =>
        /\ \A k \in 1 .. Len(script) : Starts(k) => Proper(k) \/ Slips(k)
        /\ err # "syntax"

\* The commands of the script, the arguments of each, and its rank among them.  A
\* statement that begins with a name with an odd character in it is no command.
CommandsAt == {k \in 1 .. Len(script) - 1 : Starts(k) /\ script[k].typ = "id"}
NArgs(k)   == CHOOSE n \in 0 .. Len(script) : Ends(k + n + 1) /\ \A i \in 1 .. n : ~Ends(k + i)
Vals(k)    == [i \in 1 .. NArgs(k) |-> script[IF Repeats(k + i) THEN k + i - 1 ELSE k + i].val]
Rank(k)    == Cardinality({j \in CommandsAt : j <= k})

\* The last WAIT among the first i commands that were carried out.
IsLastWait(i, j) ==
    /\ j \in 1 .. i /\ ops[j].name = "WAIT"
    /\ \A k \in j + 1 .. i : ops[k].name # "WAIT"

\* When psu reports success every command of the script was carried out, once
\* and in order, each on the device the last WAIT before it has found, with its
\* arguments (a number in place of a name with an odd character behind it).  What
\* Slips names is not carried out: a statement that begins with such a name is
\* dropped, and so is what a quote that is not closed has swallowed.
ScriptCarriedOut ==
    pc = "ended" /\ err = "none" =>
        /\ Len(ops) = Cardinality(CommandsAt)
        /\ \A k \in CommandsAt :
              /\ ops[Rank(k)].name = script[k].val /\ ops[Rank(k)].args = Vals(k)
              /\ \E j \in 1 .. Rank(k) :
                    IsLastWait(Rank(k), j) /\ ops[Rank(k)].on = ops[j].args

\* When all reports of a file are sent the device has got the part of the file
\* that the command asked for, and after it only padding.  The exception is a
\* command whose offset and size reach over the end of the file (the size does not
\* take the offset into account): the cells from there on are unknown memory, as
\* many as the command reaches too far.
FileDelivered ==
    pc \in {"data", "reply"} /\ cmd.name \in {"WRITE_FILE", "LOAD_IMAGE"} =>
        /\ \A i \in 1 .. Len(rcv) :
              /\ i <= Size /\ Offset + i <= FileLen => rcv[i] = Offset + i
              /\ i <= Size /\ Offset + i > FileLen => rcv[i] = Unknown
              /\ i > Size => rcv[i] = 0
        /\ pc = "reply" => Len(rcv) \in Size .. Size + Align - 1

\* psu comes to an end with every script that holds no bad character.
ProperScriptsEnd ==
    (\A i \in 1 .. Len(script) : script[i].typ # "bad") => <>Ended

\* psu comes to an end with every script: the dry run is there to check the
\* syntax, and the parser has an error for invalid tokens.
EveryScriptEnds == <>Ended
=============================================================================
