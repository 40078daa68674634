------------------------------- MODULE Mcxisp -------------------------------
(***************************************************************************)
(* mcxisp (mcxisp/mcxisp.c): uploads a program to the flash of an MCX N94x *)
(* target through the boot loader in its ROM, over a serial line.          *)
(*                                                                         *)
(* The host pings until the target answers, erases the flash, and for each *)
(* page of the file sends a command and a frame of data.  After each       *)
(* frame it climbs the "ack ladder": it reads an acknowledgement, reads a  *)
(* generic response and acknowledges that.  A read ends with the last byte *)
(* it wants or after a second of silence, and skips what comes before a    *)
(* start byte.  The boot loader is not part of this repository: the tgt_   *)
(* actions are what the host relies on.                                    *)
(***************************************************************************)
EXTENDS Integers, Sequences, SequencesExt

CONSTANTS PageSz,       \* FLASH_PAGE_SIZE, in cells of the file
          MaxFile,      \* cells of the largest file
          PingTries,    \* tries of target_connect
          EraseTries,   \* tries of target_flashEraseAll
          MaxFaults     \* faults of the line, of the files and of the target

ASSUME McxispAssumption ==
    /\ PageSz \in Nat \ {0} /\ MaxFile \in Nat /\ MaxFaults \in Nat
    /\ PingTries \in Nat \ {0} /\ EraseTries \in Nat /\ EraseTries > PingTries

VARIABLES
    pc,         \* what the host does next
    step,       \* the frame the ladder belongs to
    tries,      \* retry
    got,        \* what tty_read has read
    silent,     \* tty_read has timed out
    filesz,     \* the size of the file
    pos,        \* the position in the file
    chunk,      \* cells of the page in work
    address,    \* where the page goes
    toTgt,      \* frames on their way to the target
    toHost,     \* bytes on their way to the host
    mode,       \* what the target does: "idle", "busy", "wait", "data" or "gone"
    cur,        \* the frame the target works on
    dest,       \* where and how much a write command said
    flash,      \* the flash, from address 0
    faults,     \* faults so far
    refused,    \* the target has reported an error
    ignored,    \* the target got a frame that it did not wait for
    silences,   \* time-outs of the erase ladder before the acknowledgement
    late        \* a time-out after the acknowledgement, or after the erase

host   == <<pc, step, tries, got, silent, filesz, pos, chunk, address>>
target == <<mode, cur, dest, flash, refused, ignored>>
record == <<silences, late>>
vars   == <<host, target, record, toTgt, toHost, faults>>

Cells == 0 .. MaxFile + PageSz - 1
Blank == 0              \* an erased cell, and what pages are padded with
Old   == -1             \* what the flash held before
File(i) == i + 1        \* cell i of the file

Fault   == faults < MaxFaults /\ faults' = faults + 1
NoFault == UNCHANGED faults

-----------------------------------------------------------------------------
(* Frames.  The bytes of an answer that nobody looks at are one byte "..". *)

Ack  == <<"5a", "a1">>
Nak  == <<"5a", "a2">>
Resp == <<"5a", "a4", "..">>
Pong == <<"5a", "a7", "..">>

cmd_ping                  == [type |-> "ping"]
cmd_flashEraseAll         == [type |-> "erase"]
cmd_flashWriteMemory(a, n) == [type |-> "write", address |-> a, len |-> n]
cmd_data(data)            == [type |-> "data", data |-> data]
cmd_reset                 == [type |-> "reset"]
tty_ack                   == [type |-> "ack"]
Bad                       == [type |-> "bad"]

Commands == {"erase", "write", "reset"}

tty_write(f) == toTgt' = Append(toTgt, f)

-----------------------------------------------------------------------------
(* Reading.                                                                *)

Reading == pc \in {"pong", "ack", "resp"}
Want    == IF pc = "ack" THEN Len(Ack) ELSE Len(Resp)
Over    == Reading /\ (silent \/ Len(got) = Want)

StartRead == got' = <<>> /\ silent' = FALSE

tty_read_byte ==
    /\ Reading /\ ~Over /\ toHost # <<>>
    /\ toHost' = Tail(toHost)
    /\ got' = IF got = <<>> /\ Head(toHost) # "5a" THEN got ELSE Append(got, Head(toHost))
    /\ NoFault
    /\ UNCHANGED <<pc, step, tries, silent, filesz, pos, chunk, address, target, record, toTgt>>

\* Mutant: after a second of silence the read goes on.
tty_read_timeout_never == Reading /\ ~Over /\ toHost = <<>> /\ UNCHANGED vars

tty_read_timeout ==
    /\ Reading /\ ~Over /\ toHost = <<>>
    /\ silent' = TRUE
    /\ silences' = silences + (IF pc = "ack" /\ step = "erase" THEN 1 ELSE 0)
    /\ late' = (late \/ pc = "resp" \/ (pc = "ack" /\ step # "erase"))
    /\ NoFault
    /\ UNCHANGED <<pc, step, tries, got, filesz, pos, chunk, address, target, toTgt, toHost>>

\* cmd_expectPingResponse, cmd_expectAck, cmd_expectGenericResponse
Expect(type) == Len(got) >= 2 /\ got[1] = "5a" /\ got[2] = type

-----------------------------------------------------------------------------
(* The host.                                                               *)

Quiet == UNCHANGED <<target, record, toHost>>

target_connect_ping ==
    /\ pc = "ping" /\ StartRead
    /\ \/ tries = 0 /\ pc' = "failed" /\ NoFault /\ UNCHANGED <<tries, toTgt>>
       \/ tries > 0 /\ tty_write(cmd_ping) /\ pc' = "pong" /\ NoFault /\ UNCHANGED tries
       \/ tries > 0 /\ Fault /\ tries' = tries - 1 /\ UNCHANGED <<pc, toTgt>>
    /\ Quiet /\ UNCHANGED <<step, filesz, pos, chunk, address>>

target_connect_pong ==
    /\ pc = "pong" /\ Over /\ StartRead
    /\ \/ Expect("a7") /\ pc' = "erase" /\ UNCHANGED tries
       \/ ~Expect("a7") /\ pc' = "ping" /\ tries' = tries - 1
    /\ Quiet /\ NoFault /\ UNCHANGED <<step, filesz, pos, chunk, address, toTgt>>

\* A frame is written and its ladder begins, or writing it fails.
Send(f, s) ==
    /\ \/ tty_write(f) /\ pc' = "ack" /\ step' = s /\ NoFault
       \/ Fault /\ pc' = "failed" /\ UNCHANGED <<step, toTgt>>
    /\ StartRead

\* Mutant: the erase ladder is climbed once.
target_flashEraseAll_once ==
    /\ pc = "erase" /\ Send(cmd_flashEraseAll, "erase")
    /\ tries' = 1
    /\ Quiet /\ UNCHANGED <<filesz, pos, chunk, address>>

target_flashEraseAll ==
    /\ pc = "erase" /\ Send(cmd_flashEraseAll, "erase")
    /\ tries' = EraseTries
    /\ Quiet /\ UNCHANGED <<filesz, pos, chunk, address>>

\* Only the erase ladder is climbed again.
LadderFailed ==
    /\ \/ step = "erase" /\ tries > 1 /\ pc' = "ack" /\ tries' = tries - 1
       \/ ~(step = "erase" /\ tries > 1) /\ pc' = "failed" /\ UNCHANGED tries
    /\ UNCHANGED <<address, toTgt>>

target_ackLadder_ack ==
    /\ pc = "ack" /\ Over /\ StartRead
    /\ \/ Expect("a1") /\ pc' = "resp" /\ UNCHANGED <<tries, address, toTgt>>
       \/ ~Expect("a1") /\ LadderFailed
    /\ Quiet /\ NoFault /\ UNCHANGED <<step, filesz, pos, chunk>>

\* The top of the ladder.  A page that is not full is the last one.
LadderDone ==
    /\ \/ step = "erase" /\ pc' = "file" /\ UNCHANGED address
       \/ step = "write" /\ pc' = "data" /\ UNCHANGED address
       \/ /\ step = "data"
          /\ pc' = IF chunk = PageSz THEN "file" ELSE "reset"
          /\ address' = address + chunk
       \/ step = "reset" /\ pc' = "done" /\ UNCHANGED address
    /\ UNCHANGED tries

\* Mutant: the response is not acknowledged.
target_ackLadder_resp_noack ==
    /\ pc = "resp" /\ Over /\ StartRead
    /\ \/ Expect("a4") /\ LadderDone /\ NoFault /\ UNCHANGED toTgt
       \/ ~Expect("a4") /\ LadderFailed /\ NoFault
    /\ Quiet /\ UNCHANGED <<step, filesz, pos, chunk>>

target_ackLadder_resp ==
    /\ pc = "resp" /\ Over /\ StartRead
    /\ \/ Expect("a4") /\ tty_write(tty_ack) /\ LadderDone /\ NoFault
       \/ Expect("a4") /\ Fault /\ LadderFailed
       \/ ~Expect("a4") /\ LadderFailed /\ NoFault
    /\ Quiet /\ UNCHANGED <<step, filesz, pos, chunk>>

\* A read that fails ends the try or the ladder.
tty_read_error ==
    /\ Reading /\ ~Over /\ Fault /\ StartRead
    /\ \/ pc = "pong" /\ pc' = "ping" /\ tries' = tries - 1 /\ UNCHANGED <<address, toTgt>>
       \/ pc # "pong" /\ LadderFailed
    /\ Quiet /\ UNCHANGED <<step, filesz, pos, chunk>>

\* Mutant: a page that is not full is taken for the end.
file_read_full(n) == IF filesz - pos >= n THEN n ELSE 0

\* Cells that file_read gets: it reads on until the page is full.
file_read(n) == IF filesz - pos < n THEN filesz - pos ELSE n

target_sendFile_chunk ==
    /\ pc = "file" /\ chunk' = file_read(PageSz) /\ pos' = pos + chunk'
    /\ \/ /\ chunk' = 0 /\ pc' = "reset" /\ NoFault
          /\ UNCHANGED <<step, got, silent, toTgt>>
       \/ chunk' > 0 /\ Send(cmd_flashWriteMemory(address, chunk'), "write")
    /\ Quiet /\ UNCHANGED <<tries, filesz, address>>

file_error ==
    /\ pc = "file" /\ Fault /\ pc' = "failed"
    /\ Quiet
    /\ UNCHANGED <<step, tries, got, silent, filesz, pos, chunk, address, toTgt>>

\* The frame holds a whole page, whatever the command said.
Page == [i \in 1 .. PageSz |-> IF i <= chunk THEN File(pos - chunk + i - 1) ELSE Blank]

target_sendFile_data ==
    /\ pc = "data" /\ Send(cmd_data(Page), "data")
    /\ Quiet /\ UNCHANGED <<tries, filesz, pos, chunk, address>>

target_reset ==
    /\ pc = "reset" /\ Send(cmd_reset, "reset")
    /\ Quiet /\ UNCHANGED <<tries, filesz, pos, chunk, address>>

-----------------------------------------------------------------------------
(* The target, from what the host relies on.                               *)

Receive == toTgt # <<>> /\ toTgt' = Tail(toTgt)
Say(bytes) == toHost' = toHost \o bytes
Host    == UNCHANGED <<host, record>>

tgt_ping ==
    /\ mode = "idle" /\ Receive /\ Head(toTgt).type = "ping" /\ Say(Pong)
    /\ Host /\ NoFault /\ UNCHANGED target

tgt_frame ==
    /\ Receive /\ Say(Ack) /\ mode' = "busy" /\ cur' = Head(toTgt)
    /\ \/ mode = "idle" /\ Head(toTgt).type \in Commands
       \/ mode = "data" /\ Head(toTgt).type = "data"
    /\ dest' = IF Head(toTgt).type = "write" THEN Head(toTgt) ELSE dest
    /\ Host /\ NoFault /\ UNCHANGED <<flash, refused, ignored>>

\* The flash after the frame was carried out; of a page the announced part.
Carried ==
    CASE cur.type = "erase" -> [a \in Cells |-> Blank]
      [] cur.type = "data"  -> [a \in Cells |-> LET i == a - dest.address + 1
                                                IN  IF i \in 1 .. dest.len THEN cur.data[i] ELSE flash[a]]
      [] OTHER -> flash

tgt_respond ==
    /\ mode = "busy" /\ Say(Resp) /\ mode' = "wait"
    /\ \/ flash' = Carried /\ NoFault /\ UNCHANGED refused
       \/ Fault /\ refused' = TRUE /\ UNCHANGED flash
    /\ Host /\ UNCHANGED <<cur, dest, ignored, toTgt>>

tgt_acked ==
    /\ mode = "wait" /\ Receive /\ Head(toTgt).type = "ack"
    /\ mode' = CASE cur.type = "write" -> "data" [] cur.type = "reset" -> "gone" [] OTHER -> "idle"
    /\ Host /\ NoFault /\ UNCHANGED <<cur, dest, flash, refused, ignored, toHost>>

Waited(type) ==
    CASE mode = "idle" -> type \in Commands \cup {"ping"}
      [] mode = "data" -> type = "data"
      [] mode = "wait" -> type = "ack"
      [] OTHER -> FALSE

\* A frame that is damaged or out of place is refused or passed over.
tgt_other ==
    /\ mode # "busy" /\ Receive /\ ~Waited(Head(toTgt).type)
    /\ \/ UNCHANGED toHost
       \/ Head(toTgt) = Bad /\ Say(Nak)
    /\ ignored' = (ignored \/ Head(toTgt) # Bad)
    /\ Host /\ NoFault /\ UNCHANGED <<mode, cur, dest, flash, refused>>

lose_frame   == Receive /\ Fault /\ Host /\ UNCHANGED <<target, toHost>>

damage_frame ==
    /\ toTgt # <<>> /\ Head(toTgt) # Bad /\ Fault
    /\ toTgt' = <<Bad>> \o Tail(toTgt) /\ Host /\ UNCHANGED <<target, toHost>>

lose_byte ==
    /\ \E i \in 1 .. Len(toHost) : toHost' = RemoveAt(toHost, i)
    /\ Fault /\ Host /\ UNCHANGED <<target, toTgt>>

\* The target prints something else, or the line makes it up: any byte but the
\* second of an answer, which the host could not tell from the answer.
noise ==
    /\ \E b \in {"5a", ".."} : toHost' = Append(toHost, b)
    /\ Fault /\ Host /\ UNCHANGED <<target, toTgt>>

-----------------------------------------------------------------------------
Ended == pc \in {"done", "failed"}

\* main has returned.
finished == Ended /\ UNCHANGED vars

Init ==
    /\ pc = "ping" /\ step = "none" /\ tries = PingTries /\ got = <<>> /\ silent = FALSE
    /\ filesz \in 0 .. MaxFile /\ pos = 0 /\ chunk = 0 /\ address = 0
    /\ toTgt = <<>> /\ toHost = <<>> /\ mode = "idle" /\ cur = Bad
    /\ dest = cmd_flashWriteMemory(0, 0) /\ flash = [a \in Cells |-> Old]
    /\ faults = 0 /\ refused = FALSE /\ ignored = FALSE /\ silences = 0 /\ late = FALSE

HostNext ==
    \/ tty_read_byte \/ tty_read_timeout \/ tty_read_error
    \/ target_connect_ping \/ target_connect_pong \/ target_flashEraseAll
    \/ target_ackLadder_ack \/ target_ackLadder_resp
    \/ target_sendFile_chunk \/ target_sendFile_data \/ file_error \/ target_reset

TargetNext == tgt_ping \/ tgt_frame \/ tgt_respond \/ tgt_acked \/ tgt_other

Next == HostNext \/ TargetNext \/ lose_frame \/ damage_frame \/ lose_byte \/ noise \/ finished

\* The host runs; nothing is promised about the target or the line.
Spec == Init /\ [][Next]_vars /\ WF_vars(HostNext)

-----------------------------------------------------------------------------
(* Properties.                                                             *)

\* When mcxisp says "Done." and the target has reported no error (which mcxisp
\* does not look at), the flash holds the file and nothing but blanks after it,
\* whatever the line lost or damaged and however the size meets the pages.
FlashComplete ==
    pc = "done" /\ ~refused =>
        \A a \in Cells : flash[a] = IF a < filesz THEN File(a) ELSE Blank

\* On a line without faults the target never gets a frame it does not wait for:
\* no data before the response to its command is acknowledged, no command while
\* data is due, and no second command while one is in work.
InStep == ignored => faults > 0

\* On a line without faults an upload, once connected, fails only because an
\* answer was late: late answers to repeated pings take at most PingTries - 1 of
\* the tries of the erase ladder, and the others wait for the acknowledgement.
FailureJustified ==
    pc = "failed" /\ step # "none" /\ faults = 0 =>
        late \/ silences >= EraseTries - (PingTries - 1)

\* mcxisp returns, whatever is lost, damaged, late or printed in between, as long
\* as it is not printed without end: tty_read has no bound on what it skips.
Terminates == <>Ended
=============================================================================
