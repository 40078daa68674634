-------------------------------- MODULE Bsp ---------------------------------
(***************************************************************************)
(* Loading a kernel or a program over the BSP protocol: bsp_req,           *)
(* bsp_sendkernel and bsp_sendprogram (phoenixd/bsp.c), called from        *)
(* phoenixd_session (phoenixd/phoenixd.c).                                 *)
(*                                                                         *)
(* The host sends a frame and waits for a reply that carries a number; a   *)
(* number other than the one before means the frame was accepted.  Frames  *)
(* themselves carry no number.  The target is not part of this repository; *)
(* it is modelled from what the host expects of it: it counts the frames   *)
(* it accepts, replies with the count, and replies with the old count, or  *)
(* with an empty RETR, to a frame whose checksum is wrong.  The line may   *)
(* lose a frame or damage it so that its checksum does not match.          *)
(***************************************************************************)
EXTENDS Integers, Sequences, FiniteSetsExt

CONSTANTS MsgSz,        \* BSP_MSGSZ, scaled
          MaxRep,       \* BSP_MAXREP
          NumMod,       \* numbers in replies (65536 in the code)
          Files,        \* what the host can load: name -> segments
          Kernel,       \* the name of the kernel file
          Missing,      \* a name that is not below sysdir, or too short a file
          MaxFaults,    \* losses, damages, file and write errors
          MaxReqs       \* requests the target makes

ASSUME BspAssumption ==
    /\ MsgSz \in Nat \ {0} /\ MaxRep \in Nat \ {0} /\ NumMod \in Nat /\ NumMod > 2
    /\ MaxFaults \in Nat /\ MaxReqs \in Nat
    /\ Kernel \in DOMAIN Files /\ Missing \notin DOMAIN Files
    /\ \A f \in DOMAIN Files : Files[f] \in Seq([load : BOOLEAN, size : Nat])

VARIABLES
    pc,         \* host: "session", "send" or "reply"
    job, at,    \* host: the file being sent and the place in it
    fails, num, \* host: bsp_req's counter and the last number received
    h2t, t2h,   \* the line, oldest first
    tgt,        \* target: what it is doing
    want,       \* target: the file it asked for
    image,      \* target: frames accepted since its request
    n,          \* target: their number
    last,       \* target: the message it sent last
    reqs, faults,
    badAcks     \* replies damaged since the target's request

host   == <<pc, job, at, fails, num>>
target == <<tgt, want, image, n, last, reqs>>
vars   == <<host, h2t, t2h, target, faults, badAcks>>

-----------------------------------------------------------------------------
(* The frames of a transfer, by their places in the file: <<k, i>> is the  *)
(* header of segment k (i = 0) or its i-th piece, <<0, 0>> the ELF header, *)
(* and behind the last segment comes the frame that ends the transfer.  A  *)
(* segment is [load, size]: whether it is a PT_LOAD segment with an        *)
(* address, and p_filesz.                                                  *)

Programs  == DOMAIN Files \cup {Missing}
Segs(f)   == IF f = Missing THEN <<>> ELSE Files[f]
Loaded(f) == {k \in 1 .. Len(Segs(f)) : Segs(f)[k].load}

\* Full pieces first, then the rest if there is one.
Pieces(f, k) ==
    LET size == Segs(f)[k].size
    IN  (size \div MsgSz) + (IF size % MsgSz # 0 THEN 1 ELSE 0)

Past(f) == Len(Segs(f)) + 1
End(f)  == <<Past(f), 0>>

\* The loop over the program headers goes on behind segment k.
NextSeg(f, k) == <<Min({j \in Loaded(f) \cup {Past(f)} : j > k}), 0>>

\* Only bsp_sendprogram sends the ELF header.
First(f) == IF f \in {Kernel, Missing} THEN NextSeg(f, 0) ELSE <<0, 0>>

After(f, p) ==
    IF p[1] \in Loaded(f) /\ p[2] < Pieces(f, p[1]) THEN <<p[1], p[2] + 1>>
    ELSE NextSeg(f, p[1])

FrType(f, p) ==
    CASE p = End(f)   -> IF f = Missing THEN "ERR" ELSE "GO"
      [] p = <<0, 0>> -> "EHDR"
      [] p[1] \in Loaded(f) /\ p[2] = 0 -> IF f = Kernel THEN "SHDR" ELSE "PHDR"
      [] OTHER        -> IF f = Kernel THEN "KDATA" ELSE "PDATA"

FrLen(f, p) ==
    IF p[2] = 0 THEN 1
    ELSE IF p[2] <= Segs(f)[p[1]].size \div MsgSz THEN MsgSz ELSE Segs(f)[p[1]].size % MsgSz

Fr(t, p, len) == [t |-> t, at |-> p, len |-> len, bad |-> FALSE]
Frame(f, p)   == Fr(FrType(f, p), p, FrLen(f, p))

-----------------------------------------------------------------------------
(* The host.  A reply is [t, num, len, bad].                               *)

Rp(t, x, len) == [t |-> t, num |-> x, len |-> len, bad |-> FALSE]

Retr == Fr("RETR", <<0, 0>>, 0)

\* A transfer that returns, for whatever reason, goes back to the session.
Leave == pc' = "session" /\ job' = Kernel /\ at' = <<0, 0>> /\ fails' = 0 /\ num' = 0

\* phoenixd_session: the frame bsp_recv returned is damaged, is a request, or
\* is something else (a late reply, a kernel request with a number).
session_recv ==
    /\ pc = "session" /\ t2h # <<>> /\ t2h' = Tail(t2h)
    /\ LET r == Head(t2h)
           start == r.t = "PDATA" \/ (r.t = "KDATA" /\ r.num = 0)
       IN  /\ h2t' = IF r.bad THEN Append(h2t, Retr) ELSE h2t
           /\ IF ~r.bad /\ start
              THEN /\ job' = IF r.t = "KDATA" THEN Kernel ELSE want
                   /\ pc' = "send" /\ at' = First(job') /\ fails' = 0 /\ num' = 0
              ELSE UNCHANGED host
    /\ UNCHANGED <<target, faults, badAcks>>

\* bsp_send of the current frame.  The GO that ends a kernel is not
\* acknowledged; bsp_req sends all others.
bsp_send ==
    /\ pc = "send"
    /\ h2t' = Append(h2t, Frame(job, at))
    /\ IF job = Kernel /\ at = End(job) THEN Leave
       ELSE pc' = "reply" /\ UNCHANGED <<job, at, fails, num>>
    /\ UNCHANGED <<t2h, target, faults, badAcks>>

\* The file is shorter than its headers say, or serial_write fails.
send_error ==
    /\ pc = "send" /\ faults < MaxFaults /\ faults' = faults + 1
    /\ Leave
    /\ UNCHANGED <<h2t, t2h, target, badAcks>>

\* Mutant: the number in the reply is not looked at.
Refused_any(r) == r.bad \/ r.len = 0

\* bsp_req: bsp_recv returned an error or nothing, or the number is the old one.
Refused(r) == r.bad \/ r.len = 0 \/ r.num = num

bsp_req_retry ==
    /\ pc = "reply" /\ t2h # <<>> /\ t2h' = Tail(t2h)
    /\ Refused(Head(t2h))
    /\ IF fails + 1 < MaxRep
       THEN pc' = "send" /\ fails' = fails + 1 /\ UNCHANGED <<job, at, num>>
       ELSE Leave
    /\ UNCHANGED <<h2t, target, faults, badAcks>>

bsp_req_accept ==
    /\ pc = "reply" /\ t2h # <<>> /\ t2h' = Tail(t2h)
    /\ ~Refused(Head(t2h))
    /\ IF at # End(job)
       THEN /\ pc' = "send" /\ at' = After(job, at) /\ fails' = 0
            /\ num' = Head(t2h).num /\ UNCHANGED job
       ELSE Leave
    /\ UNCHANGED <<h2t, target, faults, badAcks>>

\* Mutants: the frame is sent again; the host waits on.
bsp_req_timeout_resend ==
    /\ pc = "reply" /\ t2h = <<>> /\ fails + 1 < MaxRep
    /\ pc' = "send" /\ fails' = fails + 1
    /\ UNCHANGED <<job, at, num, h2t, t2h, target, faults, badAcks>>

bsp_req_timeout_wait == pc = "reply" /\ t2h = <<>> /\ UNCHANGED vars

\* BSP_TIMEOUT passes without a byte: the transfer is given up at once.
bsp_req_timeout ==
    /\ pc = "reply" /\ t2h = <<>> /\ Leave
    /\ UNCHANGED <<h2t, t2h, target, faults, badAcks>>

-----------------------------------------------------------------------------
(* The target.                                                             *)

Say(r) == t2h' = Append(t2h, r) /\ last' = r

\* The target asks again only when nothing is on its way and the host has given
\* up or finished: its patience is longer than the host's.
tgt_request(f) ==
    /\ h2t = <<>> /\ t2h = <<>> /\ pc = "session"
    /\ reqs < MaxReqs /\ reqs' = reqs + 1
    /\ tgt' = "loading" /\ want' = f /\ image' = <<>> /\ n' = 0
    /\ \E x \in {0, 1} :          \* 1: a kernel request the host turns down
          Say(IF f = Kernel THEN Rp("KDATA", x, 1) ELSE Rp("PDATA", x, 3))
    /\ badAcks' = 0
    /\ UNCHANGED <<host, h2t, faults>>

tgt_frame ==
    /\ tgt = "loading" /\ h2t # <<>> /\ h2t' = Tail(h2t)
    /\ LET f == Head(h2t) IN
       \/ /\ f.bad                                      \* wrong checksum
          /\ \E r \in {Rp("RETR", n, 2), Rp("RETR", 0, 0)} : Say(r)
          /\ UNCHANGED <<tgt, image, n>>
       \/ /\ ~f.bad /\ f.t = "RETR"                     \* say it again
          /\ Say([last EXCEPT !.bad = FALSE])
          /\ UNCHANGED <<tgt, image, n>>
       \/ /\ ~f.bad /\ f.t \in {"SHDR", "KDATA", "EHDR", "PHDR", "PDATA"}
          /\ image' = Append(image, f) /\ n' = (n + 1) % NumMod
          /\ Say(Rp("ACK", n', 2)) /\ UNCHANGED tgt
       \/ /\ ~f.bad /\ f.t \in {"GO", "ERR"}
          /\ tgt' = IF f.t = "GO" THEN "running" ELSE "refused"
          /\ n' = (n + 1) % NumMod
          /\ IF want = Kernel THEN UNCHANGED <<t2h, last>> ELSE Say(Rp("ACK", n', 2))
          /\ UNCHANGED image
    /\ UNCHANGED <<host, want, reqs, faults, badAcks>>

\* A frame that comes when the target is no longer loading: the host sent GO or
\* ERR again because the reply to it was damaged.
tgt_late_frame ==
    /\ tgt \in {"running", "refused"} /\ h2t # <<>> /\ h2t' = Tail(h2t)
    /\ n' = (n + 1) % NumMod /\ Say(Rp("ACK", n', 2))
    /\ UNCHANGED <<host, tgt, want, image, reqs, faults, badAcks>>

-----------------------------------------------------------------------------
(* The line.                                                               *)

Fault == faults < MaxFaults /\ faults' = faults + 1

lose_frame ==
    /\ Fault /\ h2t # <<>> /\ h2t' = Tail(h2t)
    /\ UNCHANGED <<host, t2h, target, badAcks>>

lose_reply ==
    /\ Fault /\ t2h # <<>> /\ t2h' = Tail(t2h)
    /\ UNCHANGED <<host, h2t, target, badAcks>>

damage_frame ==
    /\ Fault /\ h2t # <<>> /\ h2t' = [h2t EXCEPT ![1].bad = TRUE]
    /\ UNCHANGED <<host, t2h, target, badAcks>>

damage_reply ==
    /\ Fault /\ t2h # <<>> /\ t2h' = [t2h EXCEPT ![1].bad = TRUE]
    /\ badAcks' = badAcks + 1
    /\ UNCHANGED <<host, h2t, target>>

-----------------------------------------------------------------------------
Init ==
    /\ pc = "session" /\ job = Kernel /\ at = <<0, 0>> /\ fails = 0 /\ num = 0
    /\ h2t = <<>> /\ t2h = <<>>
    /\ tgt = "idle" /\ want = Kernel /\ image = <<>> /\ n = 0
    /\ last = Rp("ACK", 0, 0) /\ reqs = 0
    /\ faults = 0 /\ badAcks = 0

HostNext == \/ session_recv \/ bsp_send \/ send_error
            \/ bsp_req_retry \/ bsp_req_accept \/ bsp_req_timeout
TargetNext == \/ \E f \in Programs : tgt_request(f)
              \/ tgt_frame \/ tgt_late_frame
LineNext == lose_frame \/ lose_reply \/ damage_frame \/ damage_reply

Next == HostNext \/ TargetNext \/ LineNext

Spec == Init /\ [][Next]_vars

\* The host's process is scheduled, and its timeout comes.
FairSpec == Spec /\ WF_vars(session_recv) /\ WF_vars(bsp_send)
                 /\ WF_vars(bsp_req_retry \/ bsp_req_accept \/ bsp_req_timeout)

-----------------------------------------------------------------------------
(* Properties.                                                             *)

\* The places of the frames before the final GO or ERR that f consists of, and
\* their order.
SegPlaces(f) == UNION {{k} \X (0 .. Pieces(f, k)) : k \in Loaded(f)}
HdrPlaces(f) == IF f \in {Kernel, Missing} THEN {} ELSE {<<0, 0>>}
Places(f)    == SegPlaces(f) \cup HdrPlaces(f)
Before(p, q) == p[1] < q[1] \/ (p[1] = q[1] /\ p[2] < q[2])

\* What the target has.
Have == {image[i].at : i \in 1 .. Len(image)}

InOrder ==
    \A i \in 1 .. Len(image) :
        /\ image[i].at \in Places(want) /\ image[i] = Frame(want, image[i].at)
        /\ \A j \in 1 .. i : ~Before(image[i].at, image[j].at)
        /\ \A p \in Places(want) : Before(p, image[i].at) => \E j \in 1 .. i : image[j].at = p

NotRepeated ==
    badAcks = 0 => \A i, j \in 1 .. Len(image) : image[i].at = image[j].at => i = j

\* The bytes of segment k that a frame brings.
Bytes(f, k) ==
    IF f.at[1] = k /\ f.at[2] > 0 THEN {(f.at[2] - 1) * MsgSz + b : b \in 0 .. f.len - 1} ELSE {}

AllSegments ==
    tgt = "running" =>
        \A k \in 1 .. Len(Segs(want)) :
            UNION {Bytes(image[i], k) : i \in 1 .. Len(image)} =
                IF Segs(want)[k].load THEN 0 .. Segs(want)[k].size - 1 ELSE {}

\* What the target has is a beginning of the program it asked for, in order and
\* without gaps; as frames carry no number one may be there more than once, but
\* only when the host lost a reply to damage; and a target that was told to go
\* has every byte of every segment that is loaded, and no others.
ImageExact == InOrder /\ NotRepeated /\ AllSegments

\* bsp_sendprogram succeeds only when the target runs the program.
ProgramDone ==
    [][bsp_req_accept /\ at = End(job) /\ job # Missing
          => tgt = "running" /\ want = job]_vars

\* Every transfer ends: the session gets back to reading requests.
TransferEnds == (pc # "session") ~> (pc = "session")

\* The target's view of a transfer is the one BspLoad describes.
Load == INSTANCE BspLoad
            WITH Frames  <- [f \in Programs |-> Places(f)],
                 program <- want,
                 have    <- Have,
                 running <- tgt = "running"
LoadSpec == Load!Spec
=============================================================================
