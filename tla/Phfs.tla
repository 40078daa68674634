-------------------------------- MODULE Phfs --------------------------------
(***************************************************************************)
(* The phfs request handlers of phoenixd (phoenixd/phfs.c) and the         *)
(* transport's send routine (msg_send in msg.c, msg_tcp.c and msg_udp.c),  *)
(* over the host kernel's descriptor table and files.                      *)
(*                                                                         *)
(* A handler is one action: the dispatcher is one single-threaded process, *)
(* and everything a handler does to the files and to the descriptor table, *)
(* including the reply it sends, happens before it reads the next message. *)
(*                                                                         *)
(* Sizes are scaled: one cell stands for the smallest payload that can be  *)
(* told apart.  MSG_MAXLEN, the size of an io header (handle, pos, len),   *)
(* of an int and of struct pho_stat are the constants MsgMaxLen, IoHdr,    *)
(* IntSz and StatSz; the code's values 512, 12, 4 and 44 satisfy           *)
(* SizeAssumption.                                                         *)
(***************************************************************************)
EXTENDS Integers, Sequences, FiniteSets

CONSTANTS Paths,      \* the names a client may open below sysdir
          NoPath,     \* "no name", for fields that carry none
          Vals,       \* contents of one cell of a file
          Zero,       \* the content of a hole
          MaxFd,      \* RLIMIT_NOFILE: descriptors are 0 .. MaxFd - 1
          MsgMaxLen, IoHdr, IntSz, StatSz,
          SeqMod      \* number of sequence numbers (65536 in the code)

ASSUME NameAssumption == NoPath \notin Paths /\ Zero \in Vals
ASSUME FdAssumption   == MaxFd \in Nat /\ MaxFd > 5
ASSUME SizeAssumption == /\ {MsgMaxLen, IoHdr, IntSz, StatSz} \subseteq Nat
                         /\ IntSz < MsgMaxLen
                         /\ IoHdr + StatSz < MsgMaxLen
ASSUME SeqAssumption  == SeqMod \in Nat /\ SeqMod >= 2

VARIABLES
    mode,       \* the transport dispatch() was called for: dmode_t of dispatch.h
    fds,        \* the descriptor table above stdin, stdout, stderr
    disk,       \* the files below sysdir: the contents behind each name
    toClient,   \* replies on their way to the client, oldest first
    faults      \* faults injected so far (see PhfsSystem)

Fds == 3 .. MaxFd - 1
Exists(p) == p \in DOMAIN disk

Free     == [use |-> "free", path |-> NoPath, rw |-> FALSE]
Link     == [use |-> "link", path |-> NoPath, rw |-> FALSE]
File(p, w) == [use |-> "file", path |-> p, rw |-> w]

FreeFds == {f \in Fds : fds[f].use = "free"}

\* The descriptor open() returns: the lowest free one.
Lowest(f, S) == f \in S /\ \A g \in S : f <= g

-----------------------------------------------------------------------------
(* Messages.  msg_t carries type and length in one word and the sequence   *)
(* number beside the checksum; the record keeps the fields apart.          *)

MsgTypes == {"ERR", "OPEN", "READ", "WRITE", "CLOSE", "RESET", "FSTAT", "HELLO"}
Seqs     == 0 .. SeqMod - 1

\* A request: the fields a handler reads out of msg->data.
Request == [type : MsgTypes, seq : Seqs, path : Paths \cup {NoPath},
            rw : BOOLEAN, creat : BOOLEAN, handle : Int, pos : Nat,
            cnt : Int, data : Seq(Vals)]

\* A reply: its length, and the fields of its data (handle, pos, len, buff).
Reply == [type : MsgTypes, seq : Seqs, len : Nat, handle : Int, pos : Nat,
          ret : Int, data : Seq(Vals)]

Answer(m, type, len, handle, pos, ret, data) ==
    [type |-> type, seq |-> m.seq, len |-> len, handle |-> handle,
     pos |-> pos, ret |-> ret, data |-> data]

\* Mutant: the stricter check everywhere.
Sendable_strict(len) == len < MsgMaxLen

\* The length check of msg_serial_send and msg_udp_send, and the stricter one
\* of msg_tcp_send.
Sendable(len) == IF mode = "TCP" THEN len < MsgMaxLen ELSE len <= MsgMaxLen

\* msg_send: a message that fails the length check is not sent, and the
\* handler's caller goes on to the next message either way.
msg_send(r) == toClient' = IF Sendable(r.len) THEN Append(toClient, r)
                                              ELSE toClient

-----------------------------------------------------------------------------
(* Files.                                                                  *)

IsOpen(h)   == h \in Fds /\ fds[h].use = "file"
Content(h)  == disk[fds[h].path]

\* io->len is signed, MSG_MAXLEN - hdrsz unsigned: a negative length is
\* compared as a huge one and clamped as well.
MaxIo == MsgMaxLen - IoHdr
Clamp(n) == IF n < 0 \/ n > MaxIo THEN MaxIo ELSE n

MinOf(a, b) == IF a < b THEN a ELSE b
MaxOf(a, b) == IF a > b THEN a ELSE b

\* read(2) at pos: what there is of the n cells after pos.
Slice(f, pos, n) == SubSeq(f, pos + 1, MinOf(pos + n, Len(f)))

\* Mutant: without the lseek, a write goes to the start of the file.
Overwrite_noseek(f, pos, d) ==
    [i \in 1 .. MaxOf(Len(f), Len(d)) |-> IF i <= Len(d) THEN d[i] ELSE f[i]]

\* write(2) at pos: a gap between the end of the file and pos reads as zero.
Overwrite(f, pos, d) ==
    IF d = <<>> THEN f
    ELSE [i \in 1 .. MaxOf(Len(f), pos + Len(d)) |->
            IF i > pos /\ i <= pos + Len(d) THEN d[i - pos]
            ELSE IF i <= Len(f) THEN f[i] ELSE Zero]

\* The cells of the message that write(2) is given: cnt of them after Clamp.
Payload(m) == SubSeq(m.data, 1, MinOf(Clamp(m.cnt), Len(m.data)))

-----------------------------------------------------------------------------
(* The handlers.  A fault is an error of the host kernel or of malloc.     *)

phfs_open(m) ==
    \/ /\ FreeFds # {}
       /\ Exists(m.path) \/ m.creat
       /\ \E ofd \in Fds :
             /\ Lowest(ofd, FreeFds)
             /\ fds' = [fds EXCEPT ![ofd] = File(m.path, m.rw)]
             /\ msg_send(Answer(m, "OPEN", IntSz, ofd, 0, 0, <<>>))
       /\ disk' = IF Exists(m.path) THEN disk
                  ELSE [p \in DOMAIN disk \cup {m.path} |->
                           IF p = m.path THEN <<>> ELSE disk[p]]
       /\ UNCHANGED faults
    \/ /\ \/ (FreeFds = {} \/ (~Exists(m.path) /\ ~m.creat)) /\ faults' = faults
          \/ faults' = faults + 1
       /\ msg_send(Answer(m, "OPEN", IntSz, 0, 0, 0, <<>>))
       /\ UNCHANGED <<fds, disk>>

\* Mutant: one cell less is asked for than the request wants.
phfs_read_short(m) ==
    /\ LET d == IF IsOpen(m.handle) /\ Clamp(m.cnt) > 0
                THEN Slice(Content(m.handle), m.pos, Clamp(m.cnt) - 1) ELSE <<>>
       IN  msg_send(Answer(m, "READ", Len(d) + IoHdr, m.handle, m.pos + Len(d), Len(d), d))
    /\ UNCHANGED <<fds, disk, faults>>

phfs_read(m) ==
    \/ /\ IsOpen(m.handle)
       /\ LET d == Slice(Content(m.handle), m.pos, Clamp(m.cnt))
          IN  msg_send(Answer(m, "READ", Len(d) + IoHdr, m.handle,
                              m.pos + Len(d), Len(d), d))
       /\ UNCHANGED <<fds, disk, faults>>
    \/ /\ \/ ~IsOpen(m.handle) /\ faults' = faults
          \/ faults' = faults + 1
       /\ msg_send(Answer(m, "READ", IoHdr, m.handle, m.pos, -1, <<>>))
       /\ UNCHANGED <<fds, disk>>

phfs_write(m) ==
    \/ /\ IsOpen(m.handle) /\ fds[m.handle].rw
       /\ LET d == Payload(m)
          IN  /\ disk' = [disk EXCEPT ![fds[m.handle].path] =
                                         Overwrite(@, m.pos, d)]
              /\ msg_send(Answer(m, "WRITE", Len(d) + IoHdr, m.handle,
                                 m.pos + Len(d), Len(d), <<>>))
       /\ UNCHANGED <<fds, faults>>
    \/ /\ \/ ~(IsOpen(m.handle) /\ fds[m.handle].rw) /\ faults' = faults
          \/ faults' = faults + 1
       /\ msg_send(Answer(m, "WRITE", IoHdr, m.handle, m.pos, -1, <<>>))
       /\ UNCHANGED <<fds, disk>>

phfs_close(m) ==
    /\ fds' = IF m.handle \in Fds THEN [fds EXCEPT ![m.handle] = Free] ELSE fds
    /\ msg_send(Answer(m, "CLOSE", IntSz, m.handle, 0, 0, <<>>))
    /\ UNCHANGED <<disk, faults>>

\* Mutants: the loop ends one descriptor early; it spares none.
phfs_reset_short(m, keep) ==
    /\ fds' = [f \in Fds |-> IF f = keep \/ f = MaxFd - 1 THEN fds[f] ELSE Free]
    /\ msg_send(Answer(m, "RESET", 0, 0, 0, 0, <<>>))
    /\ UNCHANGED <<disk, faults>>

phfs_reset_all(m, keep) ==
    /\ fds' = [f \in Fds |-> Free]
    /\ msg_send(Answer(m, "RESET", 0, 0, 0, 0, <<>>))
    /\ UNCHANGED <<disk, faults>>

\* keep: the descriptor phfs_handlemsg was called with, the one replies go to.
phfs_reset(m, keep) ==
    /\ fds' = [f \in Fds |-> IF f = keep THEN fds[f] ELSE Free]
    /\ msg_send(Answer(m, "RESET", 0, 0, 0, 0, <<>>))
    /\ UNCHANGED <<disk, faults>>

\* When fstat fails its result, st, is uninitialized: any size may be sent.
phfs_stat(m) ==
    /\ \E size \in IF IsOpen(m.handle) THEN {Len(Content(m.handle))}
                                       ELSE 0 .. MsgMaxLen :
          msg_send(Answer(m, "FSTAT", StatSz + IoHdr, m.handle, 0, size, <<>>))
    /\ UNCHANGED <<fds, disk, faults>>

\* Mutant: the case of CLOSE falls through to that of RESET.
phfs_handlemsg_fallthrough(m, keep) ==
    \/ m.type = "OPEN"  /\ phfs_open(m)
    \/ m.type = "READ"  /\ phfs_read(m)
    \/ m.type = "WRITE" /\ phfs_write(m)
    \/ m.type \in {"CLOSE", "RESET"} /\ phfs_reset(m, keep)
    \/ m.type = "FSTAT" /\ phfs_stat(m)

\* phfs_handlemsg for the types it knows; the others it leaves to dispatch().
phfs_handlemsg(m, keep) ==
    \/ m.type = "OPEN"  /\ phfs_open(m)
    \/ m.type = "READ"  /\ phfs_read(m)
    \/ m.type = "WRITE" /\ phfs_write(m)
    \/ m.type = "CLOSE" /\ phfs_close(m)
    \/ m.type = "RESET" /\ phfs_reset(m, keep)
    \/ m.type = "FSTAT" /\ phfs_stat(m)
=============================================================================
