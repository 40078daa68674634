------------------------------ MODULE Framing -------------------------------
(***************************************************************************)
(* The byte framing of phoenixd's messages: msg_serial_send and            *)
(* msg_serial_recv (phoenixd/msg.c), their TCP twins (msg_tcp.c), and      *)
(* bsp_send and bsp_recv of the older loader protocol (bsp.c).             *)
(*                                                                         *)
(* One end sends frames, the other reads them byte by byte, over a line    *)
(* that may drop or garble single bytes.  A frame is MSG_MARK followed by  *)
(* the header and the data, in which MSG_MARK and MSG_ESC are escaped.     *)
(* The header is scaled to two bytes: the checksum and the data length.    *)
(* A BSP frame has no mark at its beginning: type, checksum, then the data *)
(* with BSP_ESCCHAR and BSP_ENDCHAR escaped, then BSP_ENDCHAR.  Its header *)
(* is not escaped, and is scaled to two bytes as well.                     *)
(* A receive routine that returned an error is called again with the       *)
(* receive state it left behind, as its in/out parameter is made for.      *)
(***************************************************************************)
EXTENDS Integers, Sequences, FiniteSets

CONSTANTS ByteMod,      \* bytes are 0 .. ByteMod - 1
          MARK, ESC, ESCMARK, ESCESC,
          MaxLen,       \* MSG_MAXLEN
          Datas,        \* the data of the messages that are sent
          MaxFrames,    \* frames sent in one behaviour
          MaxLineFaults \* bytes damaged in one behaviour

Byte  == 0 .. ByteMod - 1
HdrSz == 2

ASSUME ByteAssumption ==
    /\ ByteMod \in Nat /\ {MARK, ESC, ESCMARK, ESCESC} \subseteq Byte
    /\ Cardinality({MARK, ESC, ESCMARK, ESCESC}) = 4
    /\ MaxLen \in Nat \ {0} /\ MaxLen < ByteMod     \* a length fits its field
ASSUME SentAssumption ==
    /\ Datas \subseteq Seq(Byte)
    /\ MaxFrames \in Nat /\ MaxLineFaults \in Nat

VARIABLES
    line,       \* bytes in flight, with the frame they are from: [b, f]
    sent,       \* the messages of the frames sent so far
    damaged,    \* the frames of which a byte was dropped or garbled
    state,      \* *state of the receiver: "DESYN" or "FRAME"
    escfl, buf, \* the receiver's locals; l = Len(buf)
    fcs,        \* bsp_recv's sum of the bytes read
    ret,        \* what the last call returned: "none", "msg" or an error
    got,        \* the messages received: [f |-> last frame read, m |-> bytes]
    eaten,      \* frames whose mark was taken for the byte that is too much
    closed,     \* the other end is gone
    lineFaults,
    proto,      \* "serial" (msg.c), "tcp" (msg_tcp.c) or "bsp" (bsp.c)
    quiet,      \* BSP frames sent while bsp_recv waited and the line was empty
    visible     \* frames of which one byte, and nothing else, was garbled: one
                \* that the BSP checksum covers, into another

rxvars    == <<state, escfl, buf, fcs, ret, got, eaten>>
framevars == <<line, sent, damaged, rxvars, closed, lineFaults, proto, quiet, visible>>

-----------------------------------------------------------------------------
(* Messages and frames.                                                    *)

msg_csum(d) == LET sum[i \in 0 .. Len(d)] == IF i = 0 THEN Len(d) ELSE sum[i - 1] + d[i]
               IN  sum[Len(d)] % ByteMod

Message(d) == <<msg_csum(d), Len(d)>> \o d

Escaped(b) == IF b = MARK THEN <<ESC, ESCMARK>>
              ELSE IF b = ESC THEN <<ESC, ESCESC>> ELSE <<b>>

MsgFrame(m) ==
    LET enc[i \in 0 .. Len(m)] == IF i = 0 THEN <<MARK>> ELSE enc[i - 1] \o Escaped(m[i])
    IN  enc[Len(m)]

\* The frame bsp_send makes of a type and data.  The checksum leaves out the
\* bytes that are escaped.
BSP_ESCCHAR == ESC
BSP_ENDCHAR == MARK
Special(b)  == b \in {BSP_ESCCHAR, BSP_ENDCHAR}

\* Mutant: the type is left out as well.
bsp_fcs_notype(t, d) ==
    LET sum[i \in 0 .. Len(d)] ==
            IF i = 0 THEN 0 ELSE sum[i - 1] + (IF Special(d[i]) THEN 0 ELSE d[i])
    IN  sum[Len(d)] % ByteMod

bsp_fcs(t, d) ==
    LET sum[i \in 0 .. Len(d)] ==
            IF i = 0 THEN t ELSE sum[i - 1] + (IF Special(d[i]) THEN 0 ELSE d[i])
    IN  sum[Len(d)] % ByteMod

BspFrame(m) ==
    LET enc[i \in 0 .. Len(m)] ==
            IF i = 0 THEN <<>>
            ELSE enc[i - 1] \o (IF i > HdrSz /\ Special(m[i])
                                THEN <<BSP_ESCCHAR, m[i]>> ELSE <<m[i]>>)
    IN  enc[Len(m)] \o <<BSP_ENDCHAR>>

\* What is sent for data d, a BSP message as one of type 1.
Sent(d)     == IF proto = "bsp" THEN <<1, bsp_fcs(1, d)>> \o d ELSE Message(d)
Encoded(d)  == IF proto = "bsp" THEN BspFrame(Sent(d)) ELSE MsgFrame(Sent(d))

\* The length check of the send routines.
msg_serial_sendable(d) == Len(d) <= MaxLen
msg_tcp_sendable(d)    == Len(d) < MaxLen
bsp_sendable(d)        == Len(d) <= MaxLen

Sendable(d) == CASE proto = "serial" -> msg_serial_sendable(d)
                 [] proto = "tcp"    -> msg_tcp_sendable(d)
                 [] proto = "bsp"    -> bsp_sendable(d)

Tagged(bytes, f) == [i \in 1 .. Len(bytes) |-> [b |-> bytes[i], f |-> f]]

\* A whole frame is handed to write(2) or send(2); when that fails half way
\* (the descriptor is non-blocking) the frame is cut off after n bytes.
msg_send(d, n) ==
    /\ ~closed /\ Len(sent) < MaxFrames /\ Sendable(d)
    /\ LET frame == Encoded(d) IN
       /\ n <= Len(frame)
       /\ line' = line \o Tagged(SubSeq(frame, 1, n), Len(sent) + 1)
       /\ sent' = Append(sent, Sent(d))
       /\ IF n = Len(frame) THEN UNCHANGED <<damaged, lineFaults>>
          ELSE /\ lineFaults < MaxLineFaults /\ lineFaults' = lineFaults + 1
               /\ damaged' = damaged \cup {Len(sent) + 1}
    /\ quiet' = IF proto = "bsp" /\ line = <<>> /\ buf = <<>> THEN quiet \cup {Len(sent) + 1} ELSE quiet
    /\ UNCHANGED <<rxvars, closed, proto, visible>>

-----------------------------------------------------------------------------
(* The receiver: one byte c of the loop in msg_serial_recv / msg_tcp_recv. *)

msg_getlen(m) == m[2]

\* Mutant: the two escapes are taken for one another.
Decoded_swapped(c) == IF ~escfl THEN c
                      ELSE IF c = ESCMARK THEN ESC ELSE IF c = ESCESC THEN MARK ELSE c

Decoded(c) == IF ~escfl THEN c
              ELSE IF c = ESCMARK THEN MARK ELSE IF c = ESCESC THEN ESC ELSE c

\* A return: the next call starts with escfl and l cleared.
Return(code, st) == /\ ret' = code /\ state' = st
                    /\ escfl' = FALSE /\ buf' = <<>> /\ fcs' = 0

\* Mutant: one byte too many.
Full_late == Len(buf) > HdrSz + MaxLen

\* There is no room for another byte.
Full == Len(buf) = HdrSz + MaxLen

TooLong(c) ==
    /\ state = "FRAME" /\ Full
    /\ Return("IO", "DESYN")
    /\ eaten' = IF c.b = MARK THEN eaten \cup {c.f} ELSE eaten
    /\ UNCHANGED got

\* Mutant: a mark inside a frame ends it and begins none.
Terminator_desyn(c) ==
    /\ state = "FRAME" /\ ~Full /\ c.b = MARK
    /\ Return("IO", "DESYN")
    /\ UNCHANGED <<got, eaten>>

\* A mark inside a frame: the state stays MSGRECV_FRAME, so that the next call
\* reads what follows as a new frame.
Terminator(c) ==
    /\ state = "FRAME" /\ ~Full /\ c.b = MARK
    /\ Return("IO", "FRAME")
    /\ UNCHANGED <<got, eaten>>

EscapeByte(c) ==
    /\ state = "FRAME" /\ ~Full
    /\ ~escfl /\ c.b = ESC
    /\ escfl' = TRUE /\ ret' = "none"
    /\ UNCHANGED <<state, buf, fcs, got, eaten>>

Complete(b) == Len(b) >= HdrSz /\ Len(b) = msg_getlen(b) + HdrSz

DataByte(c) ==
    /\ state = "FRAME" /\ ~Full
    /\ c.b # MARK /\ (escfl \/ c.b # ESC)
    /\ LET b == Append(buf, Decoded(c.b))
       IN  IF Complete(b)
           THEN Return("msg", "DESYN") /\ got' = Append(got, [f |-> c.f, m |-> b])
           ELSE /\ buf' = b /\ escfl' = FALSE /\ ret' = "none"
                /\ UNCHANGED <<state, fcs, got>>
    /\ UNCHANGED eaten

Synchronize(c) ==
    /\ state = "DESYN"
    /\ state' = IF c.b = MARK THEN "FRAME" ELSE "DESYN"
    /\ ret' = "none"
    /\ UNCHANGED <<escfl, buf, fcs, got, eaten>>

envvars == <<sent, damaged, closed, lineFaults, proto, quiet, visible>>

msg_recv_byte ==
    /\ proto # "bsp"
    /\ line # <<>> /\ line' = Tail(line)
    /\ LET c == Head(line)
       IN  TooLong(c) \/ Terminator(c) \/ EscapeByte(c) \/ DataByte(c) \/ Synchronize(c)
    /\ UNCHANGED envvars

\* The line is at its end: serial_read's error is ERR_MSG_IO, recv()'s 0 is
\* ERR_MSG_CLOSED.
msg_recv_end ==
    /\ line = <<>> /\ closed
    /\ Return(IF proto = "tcp" THEN "CLOSED" ELSE "IO", "DESYN")
    /\ UNCHANGED <<line, got, eaten, envvars>>

-----------------------------------------------------------------------------
(* One byte c of bsp_recv: the header is taken as it comes, buf[1] is the  *)
(* type and buf[2] the sender's checksum sfcs.                             *)

BspHeader(c) ==
    /\ Len(buf) < HdrSz
    /\ buf' = Append(buf, c.b)
    /\ fcs' = IF buf = <<>> THEN c.b ELSE fcs
    /\ ret' = "none"
    /\ UNCHANGED <<state, escfl, got>>

\* The byte behind BSP_MSGSZ bytes of data is refused, BSP_ENDCHAR as well.
BspTooLong(c) ==
    /\ Full
    /\ Return("SIZE", "DESYN")
    /\ UNCHANGED got

BspEscaped(c) ==
    /\ Len(buf) >= HdrSz /\ ~Full /\ escfl
    /\ buf' = Append(buf, c.b) /\ escfl' = FALSE /\ ret' = "none"
    /\ UNCHANGED <<state, fcs, got>>

\* Mutant: the checksum is not compared.
BspEnd_unchecked(c) ==
    /\ Len(buf) >= HdrSz /\ ~Full /\ ~escfl /\ c.b = BSP_ENDCHAR
    /\ Return("msg", "DESYN") /\ got' = Append(got, [f |-> c.f, m |-> buf])

BspEnd(c) ==
    /\ Len(buf) >= HdrSz /\ ~Full /\ ~escfl /\ c.b = BSP_ENDCHAR
    /\ IF buf[2] # fcs
       THEN Return("FCS", "DESYN") /\ UNCHANGED got
       ELSE Return("msg", "DESYN") /\ got' = Append(got, [f |-> c.f, m |-> buf])

BspByte(c) ==
    /\ Len(buf) >= HdrSz /\ ~Full /\ ~escfl /\ c.b # BSP_ENDCHAR
    /\ IF c.b = BSP_ESCCHAR
       THEN escfl' = TRUE /\ UNCHANGED <<buf, fcs>>
       ELSE /\ buf' = Append(buf, c.b) /\ fcs' = (fcs + c.b) % ByteMod
            /\ UNCHANGED escfl
    /\ ret' = "none" /\ UNCHANGED <<state, got>>

bsp_recv_byte ==
    /\ proto = "bsp"
    /\ line # <<>> /\ line' = Tail(line)
    /\ LET c == Head(line)
       IN  BspHeader(c) \/ BspTooLong(c) \/ BspEscaped(c) \/ BspEnd(c) \/ BspByte(c)
    /\ UNCHANGED <<eaten, envvars>>

\* serial_read waits no longer: what was read of a frame is dropped.
bsp_recv_timeout ==
    /\ proto = "bsp" /\ line = <<>> /\ ~closed
    /\ Return("TIMEOUT", "DESYN")
    /\ UNCHANGED <<line, got, eaten, envvars>>

-----------------------------------------------------------------------------
(* The line.                                                               *)

drop(i) ==
    /\ proto # "tcp" /\ lineFaults < MaxLineFaults /\ lineFaults' = lineFaults + 1
    /\ line' = SubSeq(line, 1, i - 1) \o SubSeq(line, i + 1, Len(line))
    /\ damaged' = damaged \cup {line[i].f} /\ visible' = visible \ {line[i].f}
    /\ UNCHANGED <<sent, rxvars, closed, proto, quiet>>

\* The byte at i is in the first frame of the line, of which nothing has been
\* read yet, is not escaped, and neither it nor b has a meaning of its own there.
Plain(i, b) ==
    /\ line[1].f = line[i].f /\ buf = <<>>
    /\ \/ i <= HdrSz
       \/ /\ ~Special(line[i].b) /\ ~Special(b)
          /\ i = HdrSz + 1 \/ line[i - 1].b # BSP_ESCCHAR

garble(i, b) ==
    /\ proto # "tcp" /\ lineFaults < MaxLineFaults /\ lineFaults' = lineFaults + 1
    /\ b # line[i].b /\ line' = [line EXCEPT ![i].b = b]
    /\ damaged' = damaged \cup {line[i].f}
    /\ visible' = IF proto = "bsp" /\ line[i].f \notin damaged /\ Plain(i, b)
                  THEN visible \cup {line[i].f} ELSE visible \ {line[i].f}
    /\ UNCHANGED <<sent, rxvars, closed, proto, quiet>>

hang_up ==
    /\ ~closed /\ closed' = TRUE
    /\ UNCHANGED <<line, sent, damaged, rxvars, lineFaults, proto, quiet, visible>>

-----------------------------------------------------------------------------
FramingInit ==
    /\ line = <<>> /\ sent = <<>> /\ damaged = {}
    /\ state = "DESYN" /\ escfl = FALSE /\ buf = <<>> /\ ret = "none"
    /\ got = <<>> /\ eaten = {} /\ closed = FALSE /\ lineFaults = 0
    /\ fcs = 0 /\ proto \in {"serial", "tcp", "bsp"}
    /\ quiet = {} /\ visible = {}

FramingNext ==
    \/ \E d \in Datas : \E n \in 0 .. Len(Encoded(d)) : msg_send(d, n)
    \/ msg_recv_byte \/ msg_recv_end
    \/ bsp_recv_byte \/ bsp_recv_timeout
    \/ \E i \in 1 .. Len(line) : drop(i) \/ \E b \in Byte : garble(i, b)
    \/ hang_up

FramingSpec == FramingInit /\ [][FramingNext]_framevars

-----------------------------------------------------------------------------
(* Properties.                                                             *)

\* No byte is stored behind the end of msg_t or of bsp_recv's buffer, whatever
\* length the header of a damaged frame announces, and a message is never longer
\* than its length says.  bsp_send's frame[BSP_FRAMESZ] holds every frame but one
\* of full size in which every byte is escaped: it has no room for its end.
BufferBound ==
    /\ Len(buf) <= HdrSz + MaxLen
    /\ proto # "bsp" => \A i \in 1 .. Len(got) :
           /\ Len(got[i].m) = HdrSz + msg_getlen(got[i].m)
           /\ msg_getlen(got[i].m) <= MaxLen
    /\ proto = "bsp" => \A f \in 1 .. Len(sent) :
           \/ Len(BspFrame(sent[f])) <= 2 * MaxLen + HdrSz
           \/ /\ Len(sent[f]) = HdrSz + MaxLen
              /\ \A i \in HdrSz + 1 .. Len(sent[f]) : Special(sent[f][i])

Consumed(f) == f \in 1 .. Len(sent) /\ \A i \in 1 .. Len(line) : line[i].f > f
Delivered(f) == \E i \in 1 .. Len(got) : got[i] = [f |-> f, m |-> sent[f]]

\* A frame that arrives whole over a serial line or TCP is received as it was
\* sent, whatever came before it, but for one case: its mark was the one byte
\* too much of a frame that announced more data than a message holds.  Then at
\* most this one is lost.
Resynchronises ==
    proto # "bsp" => \A f \in 1 .. Len(sent) : Consumed(f) /\ f \notin damaged =>
        Delivered(f) \/ (f \in eaten /\ f - 1 \in damaged)

\* Nothing marks the beginning of a BSP frame: what follows a damaged one may
\* be misread.  But a whole frame, shorter than BSP_MSGSZ, that is sent when
\* nothing is left on the line and bsp_recv waits for its first byte, as after
\* a time-out, is received as it was sent, and so is the one behind it.
BspRestarts ==
    proto = "bsp" => \A f \in quiet \cup {g \in 2 .. Len(sent) : g - 1 \in quiet \ damaged
                                                  /\ Len(sent[g - 1]) < HdrSz + MaxLen} :
        Consumed(f) /\ f \notin damaged /\ Len(sent[f]) < HdrSz + MaxLen => Delivered(f)

\* A message whose last byte is from an undamaged frame is that frame's message,
\* every byte unescaped, and comes behind those of earlier frames: what is left
\* of a damaged frame never flows into the next one, and nothing comes twice.
\* Over BSP this needs a receiver that waits.
Faithful ==
    \A i \in 1 .. Len(got) :
        got[i].f \notin damaged /\ (proto = "bsp" => got[i].f \in quiet) =>
            got[i].m = sent[got[i].f] /\ \A j \in 1 .. i - 1 : got[j].f < got[i].f

\* The sum that bsp_recv compares catches every single garbled byte of a frame
\* that it began to read in its place, the type and the checksum included, unless
\* that byte was escaped or was, or became, an escape or an end.
ChecksumCatches ==
    \A i \in 1 .. Len(got) : got[i].f \in visible => got[i].f \notin quiet
=============================================================================
