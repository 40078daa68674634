---------------------------- MODULE McxispProofs ----------------------------
(***************************************************************************)
(* Proofs about Mcxisp, for all sizes of pages and files and any number of *)
(* tries and faults.                                                       *)
(*                                                                         *)
(* Answers carry nothing that says what they answer.  What makes them safe *)
(* is that each is asked for once: an acknowledgement or a response on its *)
(* way is the only one, and is about the frame the host waits for          *)
(* (BytesInv), whatever was lost or damaged; and the target works on no    *)
(* other frame meanwhile (TargetInv).  So a ladder that is climbed says    *)
(* that its frame was carried out (FlashInv).  On a line without faults it *)
(* is also known where frames and acknowledgements are (StepInv), and what *)
(* bytes the host has before it (ReasonInv).                               *)
(***************************************************************************)
EXTENDS Mcxisp, SequenceTheorems, TLAPS

ByteSet == {"5a", "a1", "a2", "a4", "a7", ".."}
Steps   == {"none", "erase", "write", "data", "reset"}
Small   == {cmd_ping, tty_ack, Bad}
Frames  == Small \cup {cmd_flashEraseAll, cmd_reset}
                 \cup [type : {"write"}, address : Nat, len : Nat]
                 \cup [type : {"data"}, data : [1 .. PageSz -> Int]]

\* b is in a sequence; at one place at most.
In(s, b)   == \E i \in 1 .. Len(s) : s[i] = b
Once(s, b) == \A i, j \in 1 .. Len(s) : s[i] = b /\ s[j] = b => i = j

\* The byte is on its way to the host or has been read.
Coming(b) == In(got, b) \/ In(toHost, b)

Before  == pc \in {"ping", "pong", "erase"}
Ladder  == pc \in {"ack", "resp"}

\* The frame that the ladder belongs to.
Cmd == IF step = "erase" THEN cmd_flashEraseAll
       ELSE IF step = "write" THEN cmd_flashWriteMemory(address, chunk)
       ELSE IF step = "data" THEN cmd_data(Page)
       ELSE cmd_reset

TypeInv ==
    /\ pc \in {"ping", "pong", "erase", "ack", "resp", "file", "data", "reset", "done", "failed"}
    /\ step \in Steps /\ mode \in {"idle", "busy", "wait", "data", "gone"}
    /\ got \in Seq(ByteSet) /\ toHost \in Seq(ByteSet) /\ toTgt \in Seq(Frames)
    /\ filesz \in 0 .. MaxFile /\ pos \in Nat /\ chunk \in Nat /\ address \in Nat /\ faults \in Nat

\* Frames on their way are small ones and the one that the ladder belongs to,
\* which the target does not have then.
FramesInv ==
    /\ \A f \in Frames : In(toTgt, f) => f \in Small \/ (pc = "ack" /\ f = Cmd)
    /\ pc = "ack" => Once(toTgt, Cmd)
    /\ pc = "ack" /\ In(toTgt, Cmd) => cur.type # step /\ ~Coming("a1") /\ ~Coming("a4")

Single(b) == Once(toHost, b) /\ ~(In(got, b) /\ In(toHost, b))

\* An acknowledgement says that the target has the frame, a response that it
\* has carried it out.
BytesInv ==
    /\ Single("a1") /\ Single("a4")
    /\ Coming("a1") => pc = "ack" /\ cur = Cmd
    /\ Coming("a4") => Ladder /\ cur = Cmd /\ mode # "busy"

TargetInv ==
    /\ mode = "busy" => Ladder /\ cur = Cmd
    /\ pc = "resp" => cur = Cmd
    /\ Before => cur = Bad
    /\ pc \in {"file", "reset"} => cur.type \in {"erase", "data"}
    /\ pc = "data" => cur = cmd_flashWriteMemory(address, chunk)
    /\ cur.type = "write" => dest = cur
    /\ pc = "data" \/ (Ladder /\ step = "data") => dest = cmd_flashWriteMemory(address, chunk)

\* The position in the file, the page and the address.
BookInv ==
    /\ Ladder \/ pc = "done" => step # "none"
    /\ Before \/ (Ladder /\ step = "erase") => pos = 0 /\ address = 0
    /\ pc = "file" => pos = address /\ pos <= filesz
    /\ pc = "data" \/ (Ladder /\ step \in {"write", "data"}) =>
          /\ pos = address + chunk /\ chunk <= PageSz /\ pos <= filesz
          /\ chunk < PageSz => pos = filesz
    /\ pc \in {"reset", "done"} \/ (Ladder /\ step = "reset") => address = filesz

\* The flash holds the first x cells of the file and is blank behind them.
Holds(x) == flash = [a \in Cells |-> IF a < x THEN File(a) ELSE Blank]

FlashInv ==
    ~refused =>
        /\ pc \in {"file", "data", "reset", "done"} \/ (Ladder /\ step \in {"write", "reset"})
              => Holds(address)
        /\ Ladder /\ cur = Cmd /\ mode # "busy" /\ step \in {"erase", "data"} => Holds(pos)
        /\ Ladder /\ ~(cur = Cmd /\ mode # "busy") /\ step = "data" => Holds(address)

Safe == FramesInv /\ BytesInv /\ TargetInv /\ BookInv /\ FlashInv

\* The target waits for the frame behind an acknowledgement: a is the type of
\* what it worked on, b of what comes.
Fits(a, b) == CASE a = "write" -> b = "data"
                [] a \in {"erase", "data"} -> b \in {"write", "reset"}
                [] OTHER -> FALSE

Pings(s) == \A i \in 1 .. Len(s) : s[i] = cmd_ping

\* The target is done with a frame of type t, or will be when the
\* acknowledgement comes.
Through(t) ==
    \/ mode = "wait" /\ cur.type = t /\ toTgt = <<tty_ack>>
    \/ /\ mode = (CASE t = "write" -> "data" [] t = "reset" -> "gone" [] OTHER -> "idle")
       /\ cur.type = t /\ toTgt = <<>>

\* Where everything can be in a ladder.
Climbing ==
    \/ mode = "idle" /\ Pings(toTgt)
    \/ \E s \in Seq(Frames) : Pings(s) /\ toTgt = Append(s, cmd_flashEraseAll) /\ mode = "idle"
    \/ \E f \in Frames : mode = "wait" /\ toTgt = <<tty_ack, f>> /\ Fits(cur.type, f.type)
    \/ \E f \in Frames : toTgt = <<f>> /\ mode = "idle" /\ f.type \in Commands
    \/ \E f \in Frames : toTgt = <<f>> /\ mode = "data" /\ f.type = "data"
    \/ toTgt = <<>> /\ mode \in {"busy", "wait"}

Position ==
    /\ Before => mode = "idle" /\ Pings(toTgt)
    /\ pc = "data" => Through("write")
    /\ pc \in {"file", "reset"} => Through("erase") \/ Through("data")
    /\ pc = "done" => Through("reset")
    /\ Ladder \/ pc = "failed" => Climbing

\* A response that was sent waits for its acknowledgement.
Answered == Ladder /\ Coming("a4") => mode = "wait" /\ toTgt = <<>> /\ cur.type = step

StepInv == faults = 0 => ~ignored /\ Position /\ Answered

Core == TypeInv /\ (pc # "failed" => Safe)
Inv  == Core /\ StepInv

-----------------------------------------------------------------------------
(* Sequences.                                                              *)

\* Nothing is in the empty sequence.
LEMMA InEmpty ==
    ASSUME NEW b
    PROVE  ~In(<<>>, b) /\ Once(<<>>, b)
  BY DEF In, Once

\* Something that is added at the end.
LEMMA InAppend ==
    ASSUME NEW S, NEW s \in Seq(S), NEW x \in S, NEW b
    PROVE  /\ Append(s, x) \in Seq(S)
           /\ In(Append(s, x), b) <=> In(s, b) \/ x = b
           /\ Once(s, b) /\ (x = b => ~In(s, b)) => Once(Append(s, x), b)
  <1>1. PICK m, t : m = Len(s) /\ t = Append(s, x)
    OBVIOUS
  <1>2. /\ t \in Seq(S) /\ m \in Nat /\ Len(t) = m + 1 /\ t[m + 1] = x
        /\ \A i \in 1 .. m : t[i] = s[i]
    BY <1>1, AppendProperties, LenProperties
  <1>3. In(t, b) <=> In(s, b) \/ x = b
    <2>1. ASSUME In(t, b) PROVE In(s, b) \/ x = b
      <3>1. PICK i \in 1 .. m + 1 : t[i] = b
        BY <1>2, <2>1 DEF In
      <3>2. CASE i = m + 1
        BY <1>2, <3>1, <3>2
      <3>3. CASE i \in 1 .. m
        BY <1>1, <1>2, <3>1, <3>3 DEF In
      <3>4. QED
        BY <1>2, <3>2, <3>3
    <2>2. ASSUME In(s, b) PROVE In(t, b)
      <3>1. PICK i \in 1 .. m : s[i] = b
        BY <1>1, <2>2 DEF In
      <3>2. i \in 1 .. m + 1 /\ t[i] = b
        BY <1>2, <3>1
      <3>3. QED
        BY <1>2, <3>2 DEF In
    <2>3. ASSUME x = b PROVE In(t, b)
      <3>1. m + 1 \in 1 .. m + 1
        BY <1>2
      <3>2. QED
        BY <1>2, <2>3, <3>1 DEF In
    <2>4. QED
      BY <2>1, <2>2, <2>3
  <1>4. ASSUME Once(s, b), x = b => ~In(s, b) PROVE Once(t, b)
    <2>1. ASSUME NEW i \in 1 .. m + 1, NEW j \in 1 .. m + 1, t[i] = b, t[j] = b PROVE i = j
      <3>1. CASE i \in 1 .. m /\ j \in 1 .. m
        BY <1>1, <1>2, <1>4, <2>1, <3>1 DEF Once
      <3>2. CASE i = m + 1 /\ j \in 1 .. m
        BY <1>1, <1>2, <1>4, <2>1, <3>2 DEF In
      <3>3. CASE i \in 1 .. m /\ j = m + 1
        BY <1>1, <1>2, <1>4, <2>1, <3>3 DEF In
      <3>4. QED
        BY <1>2, <3>1, <3>2, <3>3
    <2>2. QED
      BY <1>2, <2>1 DEF Once
  <1>5. QED
    BY <1>1, <1>2, <1>3, <1>4

\* What is left without the first.
LEMMA InTail ==
    ASSUME NEW S, NEW s \in Seq(S), s # <<>>, NEW b
    PROVE  /\ Tail(s) \in Seq(S) /\ Head(s) \in S
           /\ In(s, b) <=> Head(s) = b \/ In(Tail(s), b)
           /\ Once(s, b) => Once(Tail(s), b) /\ (Head(s) = b => ~In(Tail(s), b))
  <1>1. PICK m, t, x : m = Len(s) /\ t = Tail(s) /\ x = Head(s)
    OBVIOUS
  <1>2. /\ t \in Seq(S) /\ x \in S /\ x = s[1] /\ m \in Nat /\ m > 0 /\ Len(t) = m - 1
        /\ \A i \in 1 .. m - 1 : t[i] = s[i + 1]
    <2>1. m \in Nat /\ m # 0
      BY <1>1, LenProperties, EmptySeq
    <2>2. QED
      BY <1>1, <2>1, HeadTailProperties, ElementOfSeq
  <1>3. In(s, b) <=> x = b \/ In(t, b)
    <2>1. ASSUME In(s, b) PROVE x = b \/ In(t, b)
      <3>1. PICK i \in 1 .. m : s[i] = b
        BY <1>1, <2>1 DEF In
      <3>2. CASE i = 1
        BY <1>2, <3>1, <3>2
      <3>3. CASE i # 1
        <4>1. i - 1 \in 1 .. m - 1 /\ t[i - 1] = s[(i - 1) + 1] /\ (i - 1) + 1 = i
          BY <1>2, <3>3
        <4>2. QED
          BY <1>2, <3>1, <4>1 DEF In
      <3>4. QED
        BY <3>2, <3>3
    <2>2. ASSUME x = b PROVE In(s, b)
      <3>1. 1 \in 1 .. m
        BY <1>2
      <3>2. QED
        BY <1>1, <1>2, <2>2, <3>1 DEF In
    <2>3. ASSUME In(t, b) PROVE In(s, b)
      <3>1. PICK i \in 1 .. m - 1 : t[i] = b
        BY <1>2, <2>3 DEF In
      <3>2. i + 1 \in 1 .. m /\ s[i + 1] = b
        BY <1>2, <3>1
      <3>3. QED
        BY <1>1, <3>2 DEF In
    <2>4. QED
      BY <2>1, <2>2, <2>3
  <1>4. ASSUME Once(s, b) PROVE Once(t, b) /\ (x = b => ~In(t, b))
    <2>1. ASSUME NEW i \in 1 .. m - 1, NEW j \in 1 .. m - 1, t[i] = b, t[j] = b PROVE i = j
      <3>1. i + 1 \in 1 .. m /\ j + 1 \in 1 .. m /\ s[i + 1] = b /\ s[j + 1] = b
        BY <1>2, <2>1
      <3>2. i + 1 = j + 1
        BY <1>1, <1>4, <3>1 DEF Once
      <3>3. QED
        BY <1>2, <3>2
    <2>2. ASSUME x = b, NEW i \in 1 .. m - 1, t[i] = b PROVE FALSE
      <3>1. 1 \in 1 .. m /\ i + 1 \in 1 .. m /\ s[i + 1] = b /\ s[1] = b
        BY <1>2, <2>2
      <3>2. i + 1 = 1
        BY <1>1, <1>4, <3>1 DEF Once
      <3>3. QED
        BY <1>2, <3>2
    <2>3. QED
      BY <1>2, <2>1, <2>2 DEF Once, In
  <1>5. QED
    BY <1>1, <1>2, <1>3, <1>4

\* Two sequences one after the other.
LEMMA InConcat ==
    ASSUME NEW S, NEW s \in Seq(S), NEW t \in Seq(S), NEW b
    PROVE  /\ s \o t \in Seq(S)
           /\ In(s \o t, b) <=> In(s, b) \/ In(t, b)
           /\ Once(s, b) /\ Once(t, b) /\ ~(In(s, b) /\ In(t, b)) => Once(s \o t, b)
  <1>1. PICK m, k, u : m = Len(s) /\ k = Len(t) /\ u = s \o t
    OBVIOUS
  <1>2. /\ u \in Seq(S) /\ m \in Nat /\ k \in Nat /\ Len(u) = m + k
        /\ \A i \in 1 .. m + k : u[i] = IF i <= m THEN s[i] ELSE t[i - m]
    BY <1>1, ConcatProperties, LenProperties
  <1>3. ASSUME NEW i \in 1 .. m + k PROVE \/ i \in 1 .. m /\ u[i] = s[i]
                                          \/ i - m \in 1 .. k /\ u[i] = t[i - m]
    BY <1>2
  <1>4. In(u, b) <=> In(s, b) \/ In(t, b)
    <2>1. ASSUME In(u, b) PROVE In(s, b) \/ In(t, b)
      <3>1. PICK i \in 1 .. m + k : u[i] = b
        BY <1>2, <2>1 DEF In
      <3>2. QED
        BY <1>1, <1>3, <3>1 DEF In
    <2>2. ASSUME In(s, b) PROVE In(u, b)
      <3>1. PICK i \in 1 .. m : s[i] = b
        BY <1>1, <2>2 DEF In
      <3>2. i \in 1 .. m + k /\ u[i] = b
        BY <1>2, <3>1
      <3>3. QED
        BY <1>2, <3>2 DEF In
    <2>3. ASSUME In(t, b) PROVE In(u, b)
      <3>1. PICK i \in 1 .. k : t[i] = b
        BY <1>1, <2>3 DEF In
      <3>2. i + m \in 1 .. m + k /\ ~(i + m <= m) /\ (i + m) - m = i
        BY <1>2
      <3>3. u[i + m] = b
        BY <1>2, <3>1, <3>2
      <3>4. QED
        BY <1>2, <3>2, <3>3 DEF In
    <2>4. QED
      BY <2>1, <2>2, <2>3
  <1>5. ASSUME Once(s, b), Once(t, b), ~(In(s, b) /\ In(t, b)) PROVE Once(u, b)
    <2>1. ASSUME NEW i \in 1 .. m + k, NEW j \in 1 .. m + k, u[i] = b, u[j] = b PROVE i = j
      <3>1. CASE i \in 1 .. m /\ j \in 1 .. m /\ u[i] = s[i] /\ u[j] = s[j]
        BY <1>1, <1>5, <2>1, <3>1 DEF Once
      <3>2. CASE i - m \in 1 .. k /\ j - m \in 1 .. k /\ u[i] = t[i - m] /\ u[j] = t[j - m]
        <4>1. i - m = j - m
          BY <1>1, <1>5, <2>1, <3>2 DEF Once
        <4>2. QED
          BY <1>2, <4>1
      <3>3. CASE i \in 1 .. m /\ j - m \in 1 .. k /\ u[i] = s[i] /\ u[j] = t[j - m]
        BY <1>1, <1>5, <2>1, <3>3 DEF In
      <3>4. CASE i - m \in 1 .. k /\ j \in 1 .. m /\ u[i] = t[i - m] /\ u[j] = s[j]
        BY <1>1, <1>5, <2>1, <3>4 DEF In
      <3>5. QED
        BY <1>3, <3>1, <3>2, <3>3, <3>4
    <2>2. QED
      BY <1>2, <2>1 DEF Once
  <1>6. QED
    BY <1>1, <1>2, <1>4, <1>5

\* One byte is lost.
LEMMA InRemoveAt ==
    ASSUME NEW S, NEW s \in Seq(S), NEW k \in 1 .. Len(s), NEW b
    PROVE  /\ RemoveAt(s, k) \in Seq(S)
           /\ In(RemoveAt(s, k), b) => In(s, b)
           /\ Once(s, b) => Once(RemoveAt(s, k), b)
  <1>1. PICK m, u, v, w : /\ m = Len(s) /\ u = SubSeq(s, 1, k - 1)
                          /\ v = SubSeq(s, k + 1, m) /\ w = RemoveAt(s, k)
    OBVIOUS
  <1>2. w = u \o v /\ m \in Nat /\ k \in Nat
    BY <1>1, LenProperties DEF RemoveAt
  <1>3. u \in Seq(S) /\ Len(u) = k - 1 /\ \A i \in 1 .. k - 1 : u[i] = s[i]
    BY <1>1, <1>2, SubSeqProperties, SMTT(30)
  <1>4. v \in Seq(S) /\ Len(v) = m - k /\ \A i \in 1 .. m - k : v[i] = s[k + i]
    BY <1>1, <1>2, SubSeqProperties, SMTT(30)
  <1>5. /\ In(u, b) => \E i \in 1 .. k - 1 : s[i] = b
        /\ In(v, b) => \E i \in 1 .. m - k : s[k + i] = b
    BY <1>3, <1>4 DEF In
  <1>6. (In(u, b) => In(s, b)) /\ (In(v, b) => In(s, b))
    <2>1. \A i \in 1 .. k - 1 : i \in 1 .. m
      BY <1>1, <1>2
    <2>2. \A i \in 1 .. m - k : k + i \in 1 .. m
      BY <1>1, <1>2
    <2>3. QED
      BY <1>1, <1>5, <2>1, <2>2 DEF In
  <1>7. ASSUME Once(s, b) PROVE Once(u, b) /\ Once(v, b) /\ ~(In(u, b) /\ In(v, b))
    <2>1. Once(u, b)
      <3>1. \A i \in 1 .. k - 1 : i \in 1 .. m
        BY <1>1, <1>2
      <3>2. QED
        BY <1>1, <1>3, <1>7, <3>1 DEF Once
    <2>2. Once(v, b)
      <3>1. ASSUME NEW i \in 1 .. m - k, NEW j \in 1 .. m - k, v[i] = b, v[j] = b PROVE i = j
        <4>1. k + i \in 1 .. m /\ k + j \in 1 .. m /\ s[k + i] = b /\ s[k + j] = b
          BY <1>1, <1>2, <1>4, <3>1
        <4>2. k + i = k + j
          BY <1>1, <1>7, <4>1 DEF Once
        <4>3. QED
          BY <1>2, <4>2
      <3>2. QED
        BY <1>4, <3>1 DEF Once
    <2>3. ASSUME NEW i \in 1 .. k - 1, NEW j \in 1 .. m - k, s[i] = b, s[k + j] = b PROVE FALSE
      <3>1. i \in 1 .. m /\ k + j \in 1 .. m
        BY <1>1, <1>2
      <3>2. i = k + j
        BY <1>1, <1>7, <2>3, <3>1 DEF Once
      <3>3. QED
        BY <1>2, <3>2
    <2>4. QED
      BY <1>5, <2>1, <2>2, <2>3
  <1>8. /\ u \o v \in Seq(S) /\ (In(u \o v, b) <=> In(u, b) \/ In(v, b))
        /\ Once(u, b) /\ Once(v, b) /\ ~(In(u, b) /\ In(v, b)) => Once(u \o v, b)
    BY <1>3, <1>4, InConcat
  <1>9. QED
    BY <1>1, <1>2, <1>6, <1>7, <1>8

\* The first of a line is damaged.
LEMMA InDamaged ==
    ASSUME NEW S, NEW s \in Seq(S), s # <<>>, NEW x \in S, NEW b, b # x
    PROVE  /\ <<x>> \o Tail(s) \in Seq(S)
           /\ In(<<x>> \o Tail(s), b) => In(s, b)
           /\ Once(s, b) => Once(<<x>> \o Tail(s), b)
  <1>1. PICK t : t = Tail(s)
    OBVIOUS
  <1>2. t \in Seq(S) /\ (In(t, b) => In(s, b)) /\ (Once(s, b) => Once(t, b))
    BY <1>1, InTail
  <1>3. <<x>> \in Seq(S) /\ ~In(<<x>>, b) /\ Once(<<x>>, b)
    BY DEF In, Once
  <1>4. /\ <<x>> \o t \in Seq(S) /\ (In(<<x>> \o t, b) <=> In(<<x>>, b) \/ In(t, b))
        /\ Once(<<x>>, b) /\ Once(t, b) /\ ~(In(<<x>>, b) /\ In(t, b)) => Once(<<x>> \o t, b)
    BY <1>2, <1>3, InConcat
  <1>5. QED
    BY <1>1, <1>2, <1>3, <1>4

-----------------------------------------------------------------------------
(* Frames and answers.                                                     *)

\* The bytes of the answers.
LEMMA AnswerFacts ==
    /\ Ack \in Seq(ByteSet) /\ Nak \in Seq(ByteSet) /\ Resp \in Seq(ByteSet) /\ Pong \in Seq(ByteSet)
    /\ ~In(Ack, "a4") /\ ~In(Nak, "a1") /\ ~In(Nak, "a4") /\ ~In(Resp, "a1")
    /\ ~In(Pong, "a1") /\ ~In(Pong, "a4")
    /\ Once(Ack, "a1") /\ Once(Resp, "a4")
    /\ Len(Ack) = 2 /\ Len(Resp) = 3
  <1>1. Len(Ack) = 2 /\ Ack[1] = "5a" /\ Ack[2] = "a1"
    BY DEF Ack
  <1>2. Len(Nak) = 2 /\ Nak[1] = "5a" /\ Nak[2] = "a2"
    BY DEF Nak
  <1>3. Len(Resp) = 3 /\ Resp[1] = "5a" /\ Resp[2] = "a4" /\ Resp[3] = ".."
    BY DEF Resp
  <1>4. Len(Pong) = 3 /\ Pong[1] = "5a" /\ Pong[2] = "a7" /\ Pong[3] = ".."
    BY DEF Pong
  <1>5. /\ Ack \in Seq(ByteSet) /\ Nak \in Seq(ByteSet)
        /\ Resp \in Seq(ByteSet) /\ Pong \in Seq(ByteSet)
    BY DEF Ack, Nak, Resp, Pong, ByteSet
  <1>6. /\ \A i \in 1 .. 2 : i = 1 \/ i = 2
        /\ \A i \in 1 .. 3 : i = 1 \/ i = 2 \/ i = 3
    OBVIOUS
  <1>7. ~In(Ack, "a4") /\ Once(Ack, "a1") /\ ~In(Nak, "a1") /\ ~In(Nak, "a4")
    BY <1>1, <1>2, <1>6 DEF In, Once
  <1>8. ~In(Resp, "a1") /\ Once(Resp, "a4") /\ ~In(Pong, "a1") /\ ~In(Pong, "a4")
    BY <1>3, <1>4, <1>6 DEF In, Once
  <1>9. QED
    BY <1>1, <1>3, <1>5, <1>7, <1>8

\* Frames have their types.
LEMMA FrameFacts ==
    /\ Small \subseteq Frames /\ cmd_ping \in Small /\ tty_ack \in Small /\ Bad \in Small
    /\ cmd_ping \in Frames /\ tty_ack \in Frames /\ Bad \in Frames
    /\ cmd_ping.type = "ping" /\ tty_ack.type = "ack" /\ Bad.type = "bad"
    /\ cmd_flashEraseAll \in Frames /\ cmd_flashEraseAll.type = "erase"
    /\ cmd_reset \in Frames /\ cmd_reset.type = "reset"
    /\ \A f \in Small : f.type \in {"ping", "ack", "bad"}
  BY DEF Small, Frames, cmd_ping, tty_ack, Bad, cmd_flashEraseAll, cmd_reset

\* The frame of a ladder.
LEMMA CmdFacts ==
    ASSUME TypeInv, step # "none"
    PROVE  Cmd \in Frames /\ Cmd.type = step /\ Cmd \notin Small
  <1>1. CASE step = "erase"
    BY <1>1, FrameFacts DEF Cmd
  <1>2. CASE step = "write"
    <2>1. Cmd = cmd_flashWriteMemory(address, chunk)
      BY <1>2 DEF Cmd
    <2>2. Cmd.type = "write" /\ Cmd \in [type : {"write"}, address : Nat, len : Nat]
      BY <2>1 DEF cmd_flashWriteMemory, TypeInv
    <2>3. QED
      BY <1>2, <2>2, FrameFacts DEF Frames
  <1>3. CASE step = "data"
    <2>1. Cmd = cmd_data(Page)
      BY <1>3 DEF Cmd
    <2>2. Page \in [1 .. PageSz -> Int]
      BY McxispAssumption DEF Page, TypeInv, File, Blank
    <2>3. Cmd.type = "data" /\ Cmd \in [type : {"data"}, data : [1 .. PageSz -> Int]]
      BY <2>1, <2>2 DEF cmd_data
    <2>4. QED
      BY <1>3, <2>3, FrameFacts DEF Frames
  <1>4. CASE step = "reset"
    BY <1>4, FrameFacts DEF Cmd
  <1>5. QED
    BY <1>1, <1>2, <1>3, <1>4 DEF TypeInv, Steps

-----------------------------------------------------------------------------
(* The steps, and what they leave as it is.                                *)

HostStays == /\ pc' = pc /\ step' = step /\ chunk' = chunk /\ address' = address
             /\ pos' = pos /\ filesz' = filesz

\* No big frame and no byte b is there that was not there before.
Fewer   == \A f \in Frames \ Small : /\ In(toTgt', f) => In(toTgt, f)
                                     /\ Once(toTgt, f) => Once(toTgt', f)
Less(b) == Single(b)' /\ (Coming(b)' => Coming(b))

\* The frame of the ladder is the same.
LEMMA SameCmd ==
    ASSUME HostStays
    PROVE  Cmd' = Cmd /\ Before' = Before /\ Ladder' = Ladder
  BY DEF HostStays, Cmd, Page, Before, Ladder

\* Messages that move, are lost or damaged, or that the target passes over.
LEMMA Quieter ==
    ASSUME TypeInv, Safe, HostStays, Fewer, Less("a1"), Less("a4"),
           cur' = cur, dest' = dest, flash' = flash, refused' = refused,
           mode' = "busy" <=> mode = "busy"
    PROVE  Safe'
  <1>1. Cmd' = Cmd /\ Before' = Before /\ Ladder' = Ladder
    BY SameCmd
  <1>2. pc = "ack" => Cmd \in Frames \ Small
    BY CmdFacts DEF Safe, BookInv, Ladder
  <1>3. FramesInv'
    <2>1. ASSUME NEW f \in Frames, In(toTgt', f) PROVE f \in Small \/ (pc = "ack" /\ f = Cmd)
      BY <2>1 DEF Safe, FramesInv, Fewer
    <2>2. pc = "ack" => Once(toTgt', Cmd)
      BY <1>2 DEF Safe, FramesInv, Fewer
    <2>3. pc = "ack" /\ In(toTgt', Cmd) => cur.type # step /\ ~Coming("a1")' /\ ~Coming("a4")'
      BY <1>2 DEF Safe, FramesInv, Fewer, Less
    <2>4. QED
      BY <1>1, <2>1, <2>2, <2>3 DEF FramesInv, HostStays
  <1>4. BytesInv'
    BY <1>1 DEF Safe, BytesInv, Less, HostStays
  <1>5. TargetInv'
    BY <1>1 DEF Safe, TargetInv, HostStays
  <1>6. BookInv'
    BY <1>1 DEF Safe, BookInv, HostStays
  <1>7. FlashInv'
    BY <1>1 DEF Safe, FlashInv, Holds, HostStays
  <1>8. QED
    BY <1>3, <1>4, <1>5, <1>6, <1>7 DEF Safe

\* A byte is read or skipped.
LEMMA ByteRead ==
    ASSUME TypeInv, tty_read_byte, NEW b
    PROVE  /\ got' \in Seq(ByteSet) /\ toHost' \in Seq(ByteSet)
           /\ Single(b) => Less(b)
           /\ Coming(b)' => Coming(b)
  <1>1. PICK x : x = Head(toHost)
    OBVIOUS
  <1>2. /\ got \in Seq(ByteSet) /\ toHost \in Seq(ByteSet) /\ toHost # <<>> /\ toHost' = Tail(toHost)
        /\ got' = got \/ got' = Append(got, x)
    BY <1>1 DEF TypeInv, tty_read_byte
  <1>3. /\ toHost' \in Seq(ByteSet) /\ x \in ByteSet
        /\ In(toHost, b) <=> x = b \/ In(toHost', b)
        /\ Once(toHost, b) => Once(toHost', b) /\ (x = b => ~In(toHost', b))
    BY <1>1, <1>2, InTail
  <1>4. Append(got, x) \in Seq(ByteSet) /\ (In(Append(got, x), b) <=> In(got, b) \/ x = b)
    BY <1>2, <1>3, InAppend
  <1>5. got' \in Seq(ByteSet) /\ (In(got', b) => In(got, b) \/ x = b)
    BY <1>2, <1>4
  <1>6. QED
    BY <1>3, <1>5 DEF Less, Single, Coming

\* A byte is lost.
LEMMA ByteLost ==
    ASSUME TypeInv, lose_byte, NEW b
    PROVE  /\ got' = got /\ toHost' \in Seq(ByteSet)
           /\ Single(b) => Less(b)
           /\ Coming(b)' => Coming(b)
  <1>1. got' = got /\ toHost \in Seq(ByteSet)
    BY DEF lose_byte, Host, host, TypeInv
  <1>2. PICK i \in 1 .. Len(toHost) : toHost' = RemoveAt(toHost, i)
    BY DEF lose_byte
  <1>3. /\ toHost' \in Seq(ByteSet) /\ (In(toHost', b) => In(toHost, b))
        /\ Once(toHost, b) => Once(toHost', b)
    BY <1>1, <1>2, InRemoveAt
  <1>4. QED
    BY <1>1, <1>3 DEF Less, Single, Coming

\* A byte that is no answer is put on the line.
LEMMA ByteMadeUp ==
    ASSUME TypeInv, noise, NEW b \in {"a1", "a4"}
    PROVE  /\ got' = got /\ toHost' \in Seq(ByteSet)
           /\ Single(b) => Less(b)
           /\ Coming(b)' => Coming(b)
  <1>1. got' = got /\ toHost \in Seq(ByteSet)
    BY DEF noise, Host, host, TypeInv
  <1>2. PICK x \in {"5a", ".."} : toHost' = Append(toHost, x)
    BY DEF noise
  <1>3. x \in ByteSet /\ x # b
    BY DEF ByteSet
  <1>4. /\ toHost' \in Seq(ByteSet) /\ (In(toHost', b) => In(toHost, b))
        /\ Once(toHost, b) => Once(toHost', b)
    BY <1>1, <1>2, <1>3, InAppend
  <1>5. QED
    BY <1>1, <1>4 DEF Less, Single, Coming

\* An answer is put on the line.
LEMMA ByteSaid ==
    ASSUME TypeInv, NEW s \in Seq(ByteSet), Say(s), got' = got, NEW b
    PROVE  /\ toHost' \in Seq(ByteSet)
           /\ ~In(s, b) /\ Single(b) => Less(b)
           /\ ~In(s, b) => (Coming(b)' <=> Coming(b))
           /\ Once(s, b) /\ ~Coming(b) => Single(b)'
  <1>1. toHost \in Seq(ByteSet) /\ toHost' = toHost \o s
    BY DEF Say, TypeInv
  <1>2. /\ toHost' \in Seq(ByteSet) /\ (In(toHost', b) <=> In(toHost, b) \/ In(s, b))
        /\ Once(toHost, b) /\ Once(s, b) /\ ~(In(toHost, b) /\ In(s, b)) => Once(toHost', b)
    BY <1>1, InConcat
  <1>3. (~In(s, b) => Once(s, b)) /\ (~In(toHost, b) => Once(toHost, b))
    BY DEF In, Once
  <1>4. QED
    BY <1>2, <1>3 DEF Less, Single, Coming

\* Nobody touches the bytes.
LEMMA BytesStay ==
    ASSUME got' = got, toHost' = toHost, NEW b
    PROVE  (Single(b) => Less(b)) /\ (Coming(b)' <=> Coming(b))
  BY DEF Less, Single, Coming

\* What was read is thrown away.
LEMMA BytesDropped ==
    ASSUME StartRead, toHost' = toHost, NEW b
    PROVE  /\ Single(b) => Less(b)
           /\ Coming(b)' => Coming(b)
           /\ Single(b) /\ In(got, b) => ~Coming(b)'
           /\ got' \in Seq(ByteSet)
  <1>1. got' = <<>>
    BY DEF StartRead
  <1>2. ~In(got', b)
    BY <1>1, InEmpty
  <1>3. QED
    BY <1>1, <1>2 DEF Less, Single, Coming

\* A frame is taken off the line.
LEMMA FrameTaken ==
    ASSUME TypeInv, Receive
    PROVE  /\ toTgt' \in Seq(Frames) /\ Head(toTgt) \in Frames /\ Fewer
           /\ In(toTgt, Head(toTgt))
  <1>1. toTgt \in Seq(Frames) /\ toTgt # <<>> /\ toTgt' = Tail(toTgt)
    BY DEF Receive, TypeInv
  <1>2. ASSUME NEW f PROVE /\ toTgt' \in Seq(Frames) /\ Head(toTgt) \in Frames
                           /\ In(toTgt, f) <=> Head(toTgt) = f \/ In(toTgt', f)
                           /\ Once(toTgt, f) => Once(toTgt', f)
    BY <1>1, InTail
  <1>3. QED
    BY <1>2 DEF Fewer

\* A small frame is put on the line, or one is damaged.
LEMMA FramePut ==
    ASSUME TypeInv, NEW x \in Small, tty_write(x)
    PROVE  toTgt' \in Seq(Frames) /\ Fewer
  <1>1. toTgt \in Seq(Frames) /\ x \in Frames /\ toTgt' = Append(toTgt, x)
    BY FrameFacts DEF tty_write, TypeInv
  <1>2. ASSUME NEW f \in Frames \ Small
        PROVE  /\ toTgt' \in Seq(Frames) /\ (In(toTgt', f) => In(toTgt, f))
               /\ Once(toTgt, f) => Once(toTgt', f)
    <2>1. x # f
      OBVIOUS
    <2>2. QED
      BY <1>1, <2>1, InAppend
  <1>3. toTgt' \in Seq(Frames)
    BY <1>1, AppendProperties
  <1>4. QED
    BY <1>2, <1>3 DEF Fewer

\* What a page of the file takes.
LEMMA ChunkFacts ==
    ASSUME TypeInv, BookInv, pc = "file", chunk' = file_read(PageSz)
    PROVE  /\ chunk' \in Nat /\ chunk' <= PageSz /\ pos + chunk' <= filesz
           /\ chunk' < PageSz => pos + chunk' = filesz
           /\ chunk' = 0 => address = filesz
  BY McxispAssumption DEF TypeInv, BookInv, file_read

\* The frame that is sent with a page.
LEMMA PageType ==
    ASSUME TypeInv
    PROVE  cmd_data(Page) \in Frames
  <1>1. Page \in [1 .. PageSz -> Int]
    BY McxispAssumption DEF Page, TypeInv, File, Blank
  <1>2. QED
    BY <1>1 DEF cmd_data, Frames

\* Sending a frame keeps types.
LEMMA SendTypes ==
    ASSUME TypeInv, NEW f \in Frames, NEW s \in Steps, Send(f, s)
    PROVE  /\ got' \in Seq(ByteSet) /\ toTgt' \in Seq(Frames) /\ step' \in Steps /\ faults' \in Nat
           /\ \/ pc' = "ack" /\ step' = s /\ tty_write(f) /\ faults' = faults
              \/ pc' = "failed" /\ toTgt' = toTgt /\ faults' = faults + 1
           /\ StartRead
  <1>1. got' = <<>> /\ StartRead
    BY DEF Send, StartRead
  <1>2. <<>> \in Seq(ByteSet)
    OBVIOUS
  <1>3. CASE tty_write(f) /\ pc' = "ack" /\ step' = s /\ NoFault
    <2>1. toTgt' \in Seq(Frames)
      BY <1>3, AppendProperties DEF tty_write, TypeInv
    <2>2. QED
      BY <1>1, <1>2, <1>3, <2>1 DEF NoFault, TypeInv
  <1>4. CASE Fault /\ pc' = "failed" /\ UNCHANGED <<step, toTgt>>
    BY <1>1, <1>2, <1>4 DEF Fault, TypeInv
  <1>5. QED
    BY <1>3, <1>4 DEF Send

\* Failing keeps types.
LEMMA FailTypes ==
    ASSUME TypeInv, LadderFailed
    PROVE  /\ toTgt' \in Seq(Frames) /\ address' \in Nat /\ pc' \in {"ack", "failed"}
           /\ pc' = "ack" => step = "erase"
           /\ toTgt' = toTgt /\ address' = address
  BY DEF LadderFailed, TypeInv

\* Types are kept.
LEMMA HostTypes ==
    ASSUME TypeInv, pc # "failed" => Safe, HostNext
    PROVE  TypeInv'
  <1> USE DEF TypeInv
  <1>1. CASE tty_read_byte
    BY <1>1, ByteRead DEF tty_read_byte, NoFault, target
  <1>2. CASE tty_read_timeout
    BY <1>2 DEF tty_read_timeout, NoFault, target
  <1>3. CASE tty_read_error
    <2>1. /\ step' = step /\ filesz' = filesz /\ pos' = pos /\ chunk' = chunk /\ mode' = mode
          /\ toHost' = toHost /\ faults' \in Nat /\ StartRead
      BY <1>3 DEF tty_read_error, Quiet, target, Fault
    <2>2. got' \in Seq(ByteSet)
      BY <2>1, BytesDropped
    <2>3. CASE pc = "pong" /\ pc' = "ping" /\ tries' = tries - 1 /\ UNCHANGED <<address, toTgt>>
      BY <2>1, <2>2, <2>3
    <2>4. CASE LadderFailed
      BY <2>1, <2>2, <2>4, FailTypes
    <2>5. QED
      BY <1>3, <2>3, <2>4 DEF tty_read_error
  <1>4. CASE target_connect_ping
    <2>1. /\ step' = step /\ filesz' = filesz /\ pos' = pos /\ chunk' = chunk /\ mode' = mode
          /\ toHost' = toHost /\ StartRead /\ address' = address /\ faults' \in Nat
          /\ pc' \in {"ping", "failed", "pong"} /\ (toTgt' = toTgt \/ tty_write(cmd_ping))
      BY <1>4 DEF target_connect_ping, Quiet, target, Fault, NoFault
    <2>2. got' \in Seq(ByteSet)
      BY <2>1, BytesDropped
    <2>3. toTgt' \in Seq(Frames)
      BY <2>1, FramePut, FrameFacts
    <2>4. QED
      BY <2>1, <2>2, <2>3
  <1>5. CASE target_connect_pong
    <2>1. /\ step' = step /\ filesz' = filesz /\ pos' = pos /\ chunk' = chunk /\ mode' = mode
          /\ toHost' = toHost /\ StartRead /\ address' = address /\ faults' = faults
          /\ pc' \in {"ping", "erase"} /\ toTgt' = toTgt
      BY <1>5 DEF target_connect_pong, Quiet, target, NoFault
    <2>2. QED
      BY <2>1, BytesDropped
  <1>6. CASE target_flashEraseAll
    <2>1. /\ filesz' = filesz /\ pos' = pos /\ chunk' = chunk /\ mode' = mode /\ address' = address
          /\ toHost' = toHost /\ Send(cmd_flashEraseAll, "erase")
      BY <1>6 DEF target_flashEraseAll, Quiet, target
    <2>2. QED
      BY <2>1, SendTypes, FrameFacts DEF Steps
  <1>7. CASE target_ackLadder_ack
    <2>1. /\ step' = step /\ filesz' = filesz /\ pos' = pos /\ chunk' = chunk /\ mode' = mode
          /\ toHost' = toHost /\ StartRead /\ faults' = faults
      BY <1>7 DEF target_ackLadder_ack, Quiet, target, NoFault
    <2>2. got' \in Seq(ByteSet)
      BY <2>1, BytesDropped
    <2>3. CASE pc' = "resp" /\ UNCHANGED <<tries, address, toTgt>>
      BY <2>1, <2>2, <2>3
    <2>4. CASE LadderFailed
      BY <2>1, <2>2, <2>4, FailTypes
    <2>5. QED
      BY <1>7, <2>3, <2>4 DEF target_ackLadder_ack
  <1>8. CASE target_ackLadder_resp
    <2>1. /\ step' = step /\ filesz' = filesz /\ pos' = pos /\ chunk' = chunk /\ mode' = mode
          /\ toHost' = toHost /\ StartRead /\ faults' \in Nat
      BY <1>8 DEF target_ackLadder_resp, Quiet, target, NoFault, Fault
    <2>2. got' \in Seq(ByteSet)
      BY <2>1, BytesDropped
    <2>3. CASE tty_write(tty_ack) /\ LadderDone
      <3>1. pc' \in {"file", "data", "reset", "done"} /\ address' \in Nat
        BY <2>3 DEF LadderDone
      <3>2. toTgt' \in Seq(Frames)
        BY <2>3, FramePut, FrameFacts
      <3>3. QED
        BY <2>1, <2>2, <3>1, <3>2
    <2>4. CASE LadderFailed
      BY <2>1, <2>2, <2>4, FailTypes
    <2>5. QED
      BY <1>8, <2>3, <2>4 DEF target_ackLadder_resp
  <1>9. CASE target_sendFile_chunk
    <2>1. /\ filesz' = filesz /\ mode' = mode /\ toHost' = toHost /\ address' = address
          /\ pc = "file" /\ chunk' = file_read(PageSz) /\ pos' = pos + chunk'
      BY <1>9 DEF target_sendFile_chunk, Quiet, target
    <2>2. chunk' \in Nat
      BY <2>1, ChunkFacts DEF Safe
    <2>3. pos' \in Nat
      BY <2>1, <2>2
    <2>4. CASE pc' = "reset" /\ NoFault /\ UNCHANGED <<step, got, silent, toTgt>>
      BY <2>1, <2>2, <2>3, <2>4 DEF NoFault
    <2>5. CASE Send(cmd_flashWriteMemory(address, chunk'), "write")
      <3>1. cmd_flashWriteMemory(address, chunk') \in Frames
        BY <2>2 DEF cmd_flashWriteMemory, Frames
      <3>2. QED
        BY <2>1, <2>2, <2>3, <2>5, <3>1, SendTypes DEF Steps
    <2>6. QED
      BY <1>9, <2>4, <2>5 DEF target_sendFile_chunk
  <1>10. CASE target_sendFile_data
    <2>1. /\ filesz' = filesz /\ pos' = pos /\ chunk' = chunk /\ mode' = mode /\ address' = address
          /\ toHost' = toHost /\ Send(cmd_data(Page), "data")
      BY <1>10 DEF target_sendFile_data, Quiet, target
    <2>2. QED
      BY <2>1, SendTypes, PageType DEF Steps
  <1>11. CASE file_error
    BY <1>11 DEF file_error, Quiet, target, Fault
  <1>12. CASE target_reset
    <2>1. /\ filesz' = filesz /\ pos' = pos /\ chunk' = chunk /\ mode' = mode /\ address' = address
          /\ toHost' = toHost /\ Send(cmd_reset, "reset")
      BY <1>12 DEF target_reset, Quiet, target
    <2>2. QED
      BY <2>1, SendTypes, FrameFacts DEF Steps
  <1>13. QED
    BY <1>1, <1>2, <1>3, <1>4, <1>5, <1>6, <1>7, <1>8, <1>9, <1>10, <1>11, <1>12 DEF HostNext

\* What the target and the line do to the host: nothing but to its messages.
LEMMA OthersLeaveHost ==
    ASSUME TargetNext \/ lose_frame \/ damage_frame \/ lose_byte \/ noise
    PROVE  HostStays /\ got' = got
  BY DEF TargetNext, lose_frame, damage_frame, lose_byte, noise, tgt_ping, tgt_frame, tgt_respond,
     tgt_acked, tgt_other, Host, host, HostStays

\* Types are kept by the target and the line.
LEMMA OtherTypes ==
    ASSUME TypeInv, TargetNext \/ lose_frame \/ damage_frame \/ lose_byte \/ noise
    PROVE  TypeInv'
  <1>1. HostStays /\ got' = got
    BY OthersLeaveHost
  <1>2. toTgt' \in Seq(Frames)
    <2>1. CASE Receive
      BY <2>1, FrameTaken
    <2>2. CASE toTgt' = toTgt
      BY <2>2 DEF TypeInv
    <2>3. CASE damage_frame
      <3>1. toTgt # <<>> /\ toTgt' = <<Bad>> \o Tail(toTgt) /\ toTgt \in Seq(Frames)
        BY <2>3 DEF damage_frame, TypeInv
      <3>2. cmd_ping # Bad
        BY FrameFacts
      <3>3. QED
        BY <3>1, <3>2, InDamaged, FrameFacts
    <2>4. QED
      BY <2>1, <2>2, <2>3 DEF TargetNext, lose_frame, lose_byte, noise, tgt_ping, tgt_frame, tgt_respond,
         tgt_acked, tgt_other
  <1>3. toHost' \in Seq(ByteSet)
    <2>1. CASE toHost' = toHost
      BY <2>1 DEF TypeInv
    <2>2. CASE lose_byte
      BY <2>2, ByteLost
    <2>3. CASE Say(Ack) \/ Say(Nak) \/ Say(Resp) \/ Say(Pong)
      BY <1>1, <2>3, ByteSaid, AnswerFacts
    <2>4. CASE noise
      BY <2>4, ByteMadeUp
    <2>5. QED
      BY <2>1, <2>2, <2>3, <2>4 DEF TargetNext, lose_frame, damage_frame, tgt_ping, tgt_frame,
         tgt_respond, tgt_acked, tgt_other
  <1>4. faults' \in Nat
    BY DEF TypeInv, TargetNext, lose_frame, damage_frame, lose_byte, noise, tgt_ping, tgt_frame,
       tgt_respond, tgt_acked, tgt_other, Fault, NoFault
  <1>5. mode' \in {"idle", "busy", "wait", "data", "gone"}
    BY DEF TypeInv, TargetNext, lose_frame, damage_frame, lose_byte, noise, tgt_ping, tgt_frame,
       tgt_respond, tgt_acked, tgt_other, target
  <1>6. QED
    BY <1>1, <1>2, <1>3, <1>4, <1>5 DEF TypeInv, HostStays

-----------------------------------------------------------------------------
(* Safe, step by step.                                                     *)

\* What is not there is not there twice.
LEMMA NotInOnce ==
    ASSUME NEW s, NEW b, ~In(s, b)
    PROVE  Once(s, b)
  BY DEF In, Once

\* A response or an acknowledgement that was read is one that was coming.
LEMMA ExpectComing ==
    ASSUME TypeInv, NEW b, Expect(b)
    PROVE  In(got, b) /\ Coming(b)
  <1>1. 2 \in 1 .. Len(got) /\ got[2] = b
    BY LenProperties DEF Expect, TypeInv
  <1>2. QED
    BY <1>1 DEF In, Coming

\* Messages are read, lost or damaged.
LEMMA MessagesKeep ==
    ASSUME TypeInv, Safe,
           tty_read_byte \/ tty_read_timeout \/ lose_byte \/ noise \/ lose_frame \/ damage_frame \/ finished
    PROVE  Safe'
  <1>1. HostStays /\ UNCHANGED target
    BY DEF tty_read_byte, tty_read_timeout, lose_byte, noise, lose_frame, damage_frame, finished,
       vars, host, Host, HostStays
  <1>2. /\ mode' = mode /\ cur' = cur /\ dest' = dest /\ flash' = flash /\ refused' = refused
    BY <1>1 DEF target
  <1>3. Single("a1") /\ Single("a4")
    BY DEF Safe, BytesInv
  <1>4. Fewer
    <2>1. CASE toTgt' = toTgt
      BY <2>1 DEF Fewer
    <2>2. CASE lose_frame
      BY <2>2, FrameTaken DEF lose_frame
    <2>3. CASE damage_frame
      <3>1. toTgt # <<>> /\ toTgt' = <<Bad>> \o Tail(toTgt) /\ toTgt \in Seq(Frames)
        BY <2>3 DEF damage_frame, TypeInv
      <3>2. ASSUME NEW f \in Frames \ Small
            PROVE  (In(toTgt', f) => In(toTgt, f)) /\ (Once(toTgt, f) => Once(toTgt', f))
        <4>1. f # Bad
          BY FrameFacts
        <4>2. QED
          BY <3>1, <4>1, InDamaged, FrameFacts
      <3>3. QED
        BY <3>2 DEF Fewer
    <2>4. QED
      BY <2>1, <2>2, <2>3 DEF tty_read_byte, tty_read_timeout, lose_byte, noise, finished, vars
  <1>5. Less("a1") /\ Less("a4")
    <2>1. CASE got' = got /\ toHost' = toHost
      BY <1>3, <2>1, BytesStay
    <2>2. CASE tty_read_byte
      BY <1>3, <2>2, ByteRead
    <2>3. CASE lose_byte
      BY <1>3, <2>3, ByteLost
    <2>4. CASE noise
      BY <1>3, <2>4, ByteMadeUp
    <2>5. QED
      BY <2>1, <2>2, <2>3, <2>4 DEF tty_read_timeout, lose_frame, damage_frame, finished, vars, host, Host
  <1>6. QED
    BY <1>1, <1>2, <1>4, <1>5, Quieter

\* The target takes a small frame, or one it does not wait for.
LEMMA SmallKeep ==
    ASSUME TypeInv, Safe, tgt_ping \/ tgt_acked \/ tgt_other
    PROVE  Safe'
  <1>1. HostStays /\ got' = got
    BY OthersLeaveHost DEF TargetNext
  <1>2. /\ cur' = cur /\ dest' = dest /\ flash' = flash /\ refused' = refused
        /\ mode' = "busy" <=> mode = "busy"
    BY DEF tgt_ping, tgt_acked, tgt_other, target
  <1>3. Fewer
    BY FrameTaken DEF tgt_ping, tgt_acked, tgt_other
  <1>4. Single("a1") /\ Single("a4")
    BY DEF Safe, BytesInv
  <1>5. Less("a1") /\ Less("a4")
    <2>1. CASE toHost' = toHost
      BY <1>1, <1>4, <2>1, BytesStay
    <2>2. CASE Say(Nak) \/ Say(Pong)
      BY <1>1, <1>4, <2>2, ByteSaid, AnswerFacts
    <2>3. QED
      BY <2>1, <2>2 DEF tgt_ping, tgt_acked, tgt_other
  <1>6. QED
    BY <1>1, <1>2, <1>3, <1>5, Quieter

\* The target takes the frame of the ladder.
LEMMA TgtFrameKeeps ==
    ASSUME TypeInv, Safe, tgt_frame
    PROVE  Safe'
  <1>1. PICK f : f = Head(toTgt)
    OBVIOUS
  <1>2. HostStays /\ got' = got
    BY OthersLeaveHost DEF TargetNext
  <1>3. /\ toTgt # <<>> /\ toTgt' = Tail(toTgt) /\ Say(Ack) /\ mode' = "busy" /\ cur' = f
        /\ f.type \in {"erase", "write", "reset", "data"}
        /\ dest' = (IF f.type = "write" THEN f ELSE dest) /\ flash' = flash /\ refused' = refused
    BY <1>1 DEF tgt_frame, Receive, Commands
  <1>4. toTgt \in Seq(Frames)
    BY DEF TypeInv
  <1>5. f \in Frames /\ In(toTgt, f) /\ (Once(toTgt, f) => ~In(toTgt', f))
    BY <1>1, <1>3, <1>4, InTail
  <1>6. f \notin Small
    BY <1>3, FrameFacts
  <1>7. pc = "ack" /\ f = Cmd /\ cur.type # step /\ ~Coming("a1") /\ ~Coming("a4") /\ ~In(toTgt', f)
    BY <1>5, <1>6 DEF Safe, FramesInv
  <1>8. Cmd' = Cmd /\ Before' = Before /\ Ladder' = Ladder /\ Ladder
    BY <1>2, <1>7, SameCmd DEF Ladder
  <1>9. f.type = step
    BY <1>7, <1>8, CmdFacts DEF Safe, BookInv
  <1>10. Single("a1")' /\ Single("a4")' /\ ~Coming("a4")'
    <2>1. Single("a1") /\ Single("a4")
      BY DEF Safe, BytesInv
    <2>2. QED
      BY <1>2, <1>3, <1>7, <2>1, ByteSaid, AnswerFacts DEF Less
  <1>11. FramesInv'
    <2>1. ASSUME NEW g \in Frames, In(toTgt', g) PROVE g \in Small
      <3>1. In(toTgt, g)
        BY <1>3, <1>4, <2>1, InTail
      <3>2. QED
        BY <1>7, <2>1, <3>1 DEF Safe, FramesInv
    <2>2. ~In(toTgt', Cmd) /\ Once(toTgt', Cmd)
      BY <1>7, NotInOnce
    <2>3. QED
      BY <1>8, <2>1, <2>2 DEF FramesInv
  <1>12. BytesInv'
    BY <1>2, <1>3, <1>7, <1>8, <1>10 DEF BytesInv, HostStays
  <1>13. TargetInv'
    BY <1>2, <1>3, <1>7, <1>8, <1>9 DEF Safe, TargetInv, HostStays, Ladder, Before
  <1>14. BookInv'
    BY <1>2, <1>8 DEF Safe, BookInv, HostStays
  <1>15. FlashInv'
    <2>1. cur # Cmd
      BY <1>7, <1>9
    <2>2. QED
      BY <1>2, <1>3, <1>8, <2>1 DEF Safe, FlashInv, Holds, HostStays
  <1>16. QED
    BY <1>11, <1>12, <1>13, <1>14, <1>15 DEF Safe

\* What the flash holds when the frame was carried out.
LEMMA CarriedHolds ==
    ASSUME TypeInv, Safe, mode = "busy", ~refused, flash' = Carried, HostStays
    PROVE  /\ step \in {"write", "reset"} => Holds(address)'
           /\ step \in {"erase", "data"} => Holds(pos)'
  <1>1. Ladder /\ cur = Cmd /\ step # "none" /\ cur.type = step
    BY CmdFacts DEF Safe, TargetInv, BookInv
  <1>2. CASE step \in {"write", "reset"}
    <2>1. Carried = flash
      BY <1>1, <1>2 DEF Carried
    <2>2. QED
      BY <1>1, <1>2, <2>1 DEF Safe, FlashInv, Holds, HostStays
  <1>3. CASE step = "erase"
    <2>1. Carried = [a \in Cells |-> Blank]
      BY <1>1, <1>3 DEF Carried
    <2>2. pos' = 0
      BY <1>1, <1>3 DEF Safe, BookInv, HostStays
    <2>3. ASSUME NEW a \in Cells PROVE ~(a < 0)
      BY McxispAssumption DEF Cells
    <2>4. QED
      BY <1>3, <2>1, <2>2, <2>3 DEF Holds
  <1>4. CASE step = "data"
    <2>1. cur.data = Page /\ dest.address = address /\ dest.len = chunk
      BY <1>1, <1>4 DEF Safe, TargetInv, Cmd, cmd_data, cmd_flashWriteMemory
    <2>2. Holds(address)
      BY <1>1, <1>4 DEF Safe, FlashInv
    <2>3. pos = address + chunk /\ chunk <= PageSz
      BY <1>1, <1>4 DEF Safe, BookInv
    <2>4. Carried = [a \in Cells |-> IF a - address + 1 \in 1 .. chunk
                                     THEN Page[a - address + 1] ELSE flash[a]]
      BY <1>1, <1>4, <2>1 DEF Carried
    <2>5. ASSUME NEW a \in Cells
          PROVE  (IF a - address + 1 \in 1 .. chunk THEN Page[a - address + 1] ELSE flash[a])
                 = IF a < pos THEN File(a) ELSE Blank
      <3>1. PICK i : i = a - address + 1
        OBVIOUS
      <3>2. a \in Nat /\ address \in Nat /\ chunk \in Nat /\ i \in Int
        BY <3>1, McxispAssumption DEF Cells, TypeInv
      <3>3. flash[a] = IF a < address THEN File(a) ELSE Blank
        BY <2>2 DEF Holds
      <3>4. CASE i \in 1 .. chunk
        <4>1. i \in 1 .. PageSz /\ i <= chunk
          BY <2>3, <3>2, <3>4, McxispAssumption
        <4>2. Page[i] = File(pos - chunk + i - 1)
          BY <4>1 DEF Page
        <4>3. pos - chunk + i - 1 = a /\ a < pos
          BY <2>3, <3>1, <3>2, <3>4
        <4>4. QED
          BY <3>1, <3>4, <4>2, <4>3
      <3>5. CASE i \notin 1 .. chunk
        <4>1. a < address <=> a < pos
          BY <2>3, <3>1, <3>2, <3>5
        <4>2. QED
          BY <3>1, <3>3, <3>5, <4>1
      <3>6. QED
        BY <3>4, <3>5
    <2>6. Carried = [a \in Cells |-> IF a < pos THEN File(a) ELSE Blank]
      BY <2>4, <2>5
    <2>7. QED
      BY <1>4, <2>6 DEF Holds, HostStays
  <1>5. QED
    BY <1>1, <1>2, <1>3, <1>4 DEF TypeInv, Steps

\* The target responds.
LEMMA RespondKeeps ==
    ASSUME TypeInv, Safe, tgt_respond
    PROVE  Safe'
  <1>1. HostStays /\ got' = got
    BY OthersLeaveHost DEF TargetNext
  <1>2. /\ mode = "busy" /\ Say(Resp) /\ mode' = "wait" /\ cur' = cur /\ dest' = dest
        /\ toTgt' = toTgt /\ (refused' \/ (flash' = Carried /\ refused' = refused))
    BY DEF tgt_respond
  <1>3. Ladder /\ cur = Cmd /\ ~Coming("a4") /\ Single("a1") /\ Single("a4")
    BY <1>2 DEF Safe, TargetInv, BytesInv
  <1>4. Cmd' = Cmd /\ Before' = Before /\ Ladder' = Ladder
    BY <1>1, SameCmd
  <1>5. Single("a1")' /\ (Coming("a1")' <=> Coming("a1")) /\ Single("a4")'
    BY <1>1, <1>2, <1>3, ByteSaid, AnswerFacts DEF Less
  <1>6. FramesInv'
    <2>1. step # "none"
      BY <1>3 DEF Safe, BookInv
    <2>2. Cmd.type = step
      BY <2>1, CmdFacts
    <2>3. pc = "ack" => ~In(toTgt, Cmd)
      BY <1>3, <2>2 DEF Safe, FramesInv
    <2>4. QED
      BY <1>1, <1>2, <1>4, <2>3 DEF Safe, FramesInv, HostStays
  <1>7. BytesInv'
    BY <1>1, <1>2, <1>3, <1>4, <1>5 DEF Safe, BytesInv, HostStays
  <1>8. TargetInv'
    BY <1>1, <1>2, <1>4 DEF Safe, TargetInv, HostStays
  <1>9. BookInv'
    BY <1>1, <1>4 DEF Safe, BookInv, HostStays
  <1>10. FlashInv'
    <2>1. SUFFICES ASSUME ~refused' PROVE FlashInv'
      BY DEF FlashInv
    <2>2. flash' = Carried /\ ~refused
      BY <1>2, <2>1
    <2>3. /\ step \in {"write", "reset"} => Holds(address)'
          /\ step \in {"erase", "data"} => Holds(pos)'
      BY <1>1, <1>2, <2>2, CarriedHolds
    <2>4. pc' \notin {"file", "data", "reset", "done"}
      BY <1>1, <1>3 DEF HostStays, Ladder
    <2>5. cur' = Cmd' /\ mode' # "busy" /\ step' = step
      BY <1>1, <1>2, <1>3, <1>4 DEF HostStays
    <2>6. QED
      BY <2>3, <2>4, <2>5 DEF FlashInv
  <1>11. QED
    BY <1>6, <1>7, <1>8, <1>9, <1>10 DEF Safe

\* What the target is does not change in a step of the host.
TargetStays == /\ mode' = mode /\ cur' = cur /\ dest' = dest /\ flash' = flash
               /\ refused' = refused /\ toHost' = toHost
BookStays   == chunk' = chunk /\ pos' = pos /\ filesz' = filesz /\ step' = step

\* Trying to connect.
LEMMA BeforeKeeps ==
    ASSUME TypeInv, Safe, TargetStays, BookStays, Before, Before', address' = address,
           StartRead, toTgt' = toTgt \/ tty_write(cmd_ping)
    PROVE  Safe'
  <1>1. pc \notin {"ack", "resp", "failed"} /\ pc' \notin {"ack", "resp", "failed"} /\ ~Ladder /\ ~Ladder'
    BY DEF Before, Ladder
  <1>2. Fewer
    <2>1. CASE toTgt' = toTgt
      BY <2>1 DEF Fewer
    <2>2. CASE tty_write(cmd_ping)
      BY <2>2, FramePut, FrameFacts
    <2>3. QED
      BY <2>1, <2>2
  <1>3. FramesInv'
    BY <1>1, <1>2 DEF Safe, FramesInv, Fewer
  <1>4. /\ ~Coming("a1") /\ ~Coming("a4") /\ mode # "busy" /\ Single("a1") /\ Single("a4")
        /\ cur = Bad
    BY <1>1 DEF Safe, BytesInv, TargetInv
  <1>5. BytesInv'
    BY <1>4, BytesDropped DEF BytesInv, Less, TargetStays
  <1>6. TargetInv'
    BY <1>1, <1>4, FrameFacts DEF TargetInv, TargetStays, Before
  <1>7. BookInv'
    BY <1>1 DEF Safe, BookInv, BookStays, Before
  <1>8. FlashInv'
    BY <1>1 DEF FlashInv, Before
  <1>9. QED
    BY <1>3, <1>5, <1>6, <1>7, <1>8 DEF Safe

\* The erase ladder is climbed again.
LEMMA AgainKeeps ==
    ASSUME TypeInv, Safe, TargetStays, BookStays, Ladder, StartRead, LadderFailed, pc' = "ack"
    PROVE  Safe'
  <1>1. Ladder' /\ ~Before /\ ~Before' /\ toTgt' = toTgt /\ address' = address
    BY DEF Ladder, Before, LadderFailed
  <1>2. Cmd' = Cmd
    BY <1>1 DEF Cmd, Page, BookStays
  <1>3. step # "none"
    BY DEF Safe, BookInv
  <1>4. Cmd \in Frames \ Small
    BY <1>3, CmdFacts
  <1>5. Single("a1") /\ Single("a4")
    BY DEF Safe, BytesInv
  <1>6. /\ Single("a1")' /\ Single("a4")' /\ (Coming("a1")' => Coming("a1"))
        /\ (Coming("a4")' => Coming("a4"))
    BY <1>5, BytesDropped DEF Less, TargetStays
  <1>7. FramesInv'
    <2>1. CASE pc = "ack"
      BY <1>1, <1>2, <1>6, <2>1 DEF Safe, FramesInv, TargetStays, BookStays
    <2>2. CASE pc = "resp"
      <3>1. ~In(toTgt, Cmd)
        BY <1>4, <2>2 DEF Safe, FramesInv
      <3>2. Once(toTgt, Cmd)
        BY <3>1, NotInOnce
      <3>3. QED
        BY <1>1, <1>2, <2>2, <3>1, <3>2 DEF Safe, FramesInv
    <2>3. QED
      BY <2>1, <2>2 DEF Ladder
  <1>8. BytesInv'
    BY <1>1, <1>2, <1>6 DEF Safe, BytesInv, TargetStays
  <1>9. TargetInv'
    BY <1>1, <1>2 DEF Safe, TargetInv, TargetStays, BookStays
  <1>10. BookInv'
    BY <1>1 DEF Safe, BookInv, BookStays
  <1>11. FlashInv'
    BY <1>1, <1>2 DEF Safe, FlashInv, Holds, TargetStays, BookStays
  <1>12. QED
    BY <1>7, <1>8, <1>9, <1>10, <1>11 DEF Safe

\* No answer is due when the host is about to send.
LEMMA NothingDue ==
    ASSUME TypeInv, Safe, ~Ladder
    PROVE  /\ ~Coming("a1") /\ ~Coming("a4") /\ mode # "busy" /\ Single("a1") /\ Single("a4")
           /\ \A f \in Frames : In(toTgt, f) => f \in Small
  BY DEF Safe, BytesInv, TargetInv, FramesInv, Ladder

\* A ladder begins.
LEMMA LadderBegins ==
    ASSUME TypeInv, TypeInv', Safe, ~Ladder, TargetStays, StartRead,
           pc' = "ack", step' # "none", cur.type # step', toTgt' = Append(toTgt, Cmd')
    PROVE  FramesInv' /\ BytesInv'
  <1>1. Cmd' \in Frames /\ Cmd' \notin Small
    <2>1. TypeInv /\ step # "none" => Cmd \in Frames /\ Cmd.type = step /\ Cmd \notin Small
      BY CmdFacts
    <2>2. (TypeInv /\ step # "none" => Cmd \in Frames /\ Cmd.type = step /\ Cmd \notin Small)'
      BY CmdFacts, PTL
    <2>3. QED
      BY <2>2
  <1>2. PICK c : c = Cmd'
    OBVIOUS
  <1>3. toTgt \in Seq(Frames)
    BY DEF TypeInv
  <1>4. ASSUME NEW f
        PROVE  /\ In(toTgt', f) <=> In(toTgt, f) \/ c = f
               /\ Once(toTgt, f) /\ (c = f => ~In(toTgt, f)) => Once(toTgt', f)
    BY <1>1, <1>2, <1>3, InAppend
  <1>5. ~In(toTgt, c)
    BY <1>1, <1>2, NothingDue
  <1>6. Once(toTgt', c)
    BY <1>4, <1>5, NotInOnce
  <1>7. ~Coming("a1")' /\ ~Coming("a4")' /\ Single("a1")' /\ Single("a4")'
    BY NothingDue, BytesDropped DEF Less, TargetStays
  <1>8. \A f \in Frames : In(toTgt', f) => f \in Small \/ f = c
    BY <1>4, NothingDue
  <1>9. FramesInv'
    BY <1>2, <1>6, <1>7, <1>8 DEF FramesInv, TargetStays
  <1>10. BytesInv'
    BY <1>7 DEF BytesInv
  <1>11. QED
    BY <1>9, <1>10

\* Connecting and reading errors.
LEMMA ConnectKeeps ==
    ASSUME TypeInv, Safe, target_connect_ping \/ target_connect_pong \/ tty_read_error,
           pc' # "failed"
    PROVE  Safe'
  <1>1. CASE target_connect_ping
    BY <1>1, BeforeKeeps
       DEF target_connect_ping, Quiet, target, TargetStays, BookStays, Before
  <1>2. CASE target_connect_pong
    BY <1>2, BeforeKeeps
       DEF target_connect_pong, Quiet, target, TargetStays, BookStays, Before
  <1>3. CASE tty_read_error
    <2>1. TargetStays /\ BookStays /\ StartRead /\ Reading
      BY <1>3 DEF tty_read_error, Quiet, target, TargetStays, BookStays
    <2>2. CASE pc = "pong" /\ pc' = "ping" /\ tries' = tries - 1 /\ UNCHANGED <<address, toTgt>>
      BY <2>1, <2>2, BeforeKeeps DEF Before
    <2>3. CASE pc # "pong" /\ LadderFailed
      <3>1. Ladder /\ pc' = "ack"
        BY <2>1, <2>3, FailTypes DEF Reading, Ladder
      <3>2. QED
        BY <2>1, <2>3, <3>1, AgainKeeps
    <2>4. QED
      BY <1>3, <2>2, <2>3 DEF tty_read_error
  <1>4. QED
    BY <1>1, <1>2, <1>3

\* The host sends a frame.
LEMMA SendKeeps ==
    ASSUME TypeInv, TypeInv', Safe, pc' = "ack",
           target_flashEraseAll \/ target_sendFile_chunk \/ target_sendFile_data \/ target_reset
    PROVE  Safe'
  <1>1. /\ TargetStays /\ filesz' = filesz /\ address' = address
        /\ pc \in {"erase", "file", "data", "reset"} /\ ~Ladder /\ Ladder' /\ ~Before'
    BY DEF target_flashEraseAll, target_sendFile_chunk, target_sendFile_data, target_reset,
       Quiet, target, TargetStays, Ladder, Before
  <1>2. mode' # "busy" /\ pc' # "resp"
    BY <1>1, NothingDue DEF TargetStays
  <1>3. SUFFICES /\ StartRead /\ step' # "none" /\ cur.type # step' /\ toTgt' = Append(toTgt, Cmd')
                 /\ TargetInv' /\ BookInv' /\ FlashInv'
    BY <1>1, LadderBegins DEF Safe
  <1>4. CASE target_flashEraseAll
    <2>1. /\ pc = "erase" /\ StartRead /\ step' = "erase" /\ toTgt' = Append(toTgt, cmd_flashEraseAll)
          /\ pos' = pos
      BY <1>4 DEF target_flashEraseAll, Send, tty_write
    <2>2. Cmd' = cmd_flashEraseAll
      BY <2>1 DEF Cmd
    <2>3. cur = Bad /\ cur.type = "bad" /\ cur' = cur
      BY <1>1, <2>1, FrameFacts DEF Safe, TargetInv, Before, TargetStays
    <2>4. cur' # Cmd'
      BY <2>2, <2>3, FrameFacts
    <2>5. TargetInv'
      BY <1>1, <1>2, <2>1, <2>3 DEF TargetInv
    <2>6. BookInv'
      BY <1>1, <2>1 DEF Safe, BookInv, Before
    <2>7. FlashInv'
      BY <2>1, <2>4 DEF FlashInv
    <2>8. QED
      BY <2>1, <2>2, <2>3, <2>5, <2>6, <2>7
  <1>5. CASE target_sendFile_chunk
    <2>1. /\ pc = "file" /\ StartRead /\ step' = "write" /\ chunk' = file_read(PageSz)
          /\ toTgt' = Append(toTgt, cmd_flashWriteMemory(address, chunk')) /\ pos' = pos + chunk'
      BY <1>5 DEF target_sendFile_chunk, Send, tty_write
    <2>2. Cmd' = cmd_flashWriteMemory(address, chunk')
      BY <1>1, <2>1 DEF Cmd
    <2>3. cur.type \in {"erase", "data"} /\ cur' = cur
      BY <1>1, <2>1 DEF Safe, TargetInv, TargetStays
    <2>4. /\ chunk' \in Nat /\ chunk' <= PageSz /\ pos + chunk' <= filesz
          /\ chunk' < PageSz => pos + chunk' = filesz
      BY <2>1, ChunkFacts DEF Safe
    <2>5. TargetInv'
      BY <1>1, <1>2, <2>1, <2>3 DEF TargetInv
    <2>6. pos = address
      BY <2>1 DEF Safe, BookInv
    <2>7. BookInv'
      BY <1>1, <2>1, <2>4, <2>6 DEF BookInv
    <2>8. FlashInv'
      BY <1>1, <2>1 DEF Safe, FlashInv, Holds, TargetStays
    <2>9. QED
      BY <2>1, <2>2, <2>3, <2>5, <2>7, <2>8
  <1>6. CASE target_sendFile_data
    <2>1. /\ pc = "data" /\ StartRead /\ step' = "data" /\ toTgt' = Append(toTgt, cmd_data(Page))
          /\ chunk' = chunk /\ pos' = pos
      BY <1>6 DEF target_sendFile_data, Send, tty_write
    <2>2. Cmd' = cmd_data(Page)
      <3>1. Page' = Page
        BY <2>1 DEF Page
      <3>2. QED
        BY <2>1, <3>1 DEF Cmd, cmd_data
    <2>3. /\ cur.type = "write" /\ dest = cmd_flashWriteMemory(address, chunk) /\ dest = cur
          /\ cur' = cur /\ dest' = dest
      BY <1>1, <2>1 DEF Safe, TargetInv, TargetStays, cmd_flashWriteMemory
    <2>4. TargetInv'
      BY <1>1, <1>2, <2>1, <2>3 DEF TargetInv
    <2>5. BookInv'
      BY <1>1, <2>1 DEF Safe, BookInv
    <2>6. cur' # Cmd'
      BY <2>2, <2>3 DEF cmd_data
    <2>7. FlashInv'
      BY <1>1, <2>1, <2>6 DEF Safe, FlashInv, Holds, TargetStays
    <2>8. QED
      BY <2>1, <2>2, <2>3, <2>4, <2>5, <2>7
  <1>7. CASE target_reset
    <2>1. /\ pc = "reset" /\ StartRead /\ step' = "reset" /\ toTgt' = Append(toTgt, cmd_reset)
      BY <1>7 DEF target_reset, Send, tty_write
    <2>2. Cmd' = cmd_reset
      BY <2>1 DEF Cmd
    <2>3. cur.type \in {"erase", "data"} /\ cur' = cur
      BY <1>1, <2>1 DEF Safe, TargetInv, TargetStays
    <2>4. TargetInv'
      BY <1>1, <1>2, <2>1, <2>3 DEF TargetInv
    <2>5. BookInv'
      BY <1>1, <2>1 DEF Safe, BookInv
    <2>6. FlashInv'
      BY <1>1, <2>1 DEF Safe, FlashInv, Holds, TargetStays
    <2>7. QED
      BY <2>1, <2>2, <2>3, <2>4, <2>5, <2>6
  <1>8. QED
    BY <1>4, <1>5, <1>6, <1>7

\* There is no more of the file.
LEMMA FileEndKeeps ==
    ASSUME TypeInv, Safe, target_sendFile_chunk, pc' = "reset"
    PROVE  Safe'
  <1>1. /\ TargetStays /\ filesz' = filesz /\ address' = address /\ pc = "file"
        /\ chunk' = file_read(PageSz) /\ chunk' = 0 /\ step' = step /\ got' = got /\ toTgt' = toTgt
    BY DEF target_sendFile_chunk, Send, Quiet, target, TargetStays
  <1>2. address = filesz
    BY <1>1, ChunkFacts DEF Safe
  <1>3. ~Ladder /\ ~Ladder' /\ ~Before'
    BY <1>1 DEF Ladder, Before
  <1>4. FramesInv'
    BY <1>1, <1>3, NothingDue DEF FramesInv
  <1>5. BytesInv'
    BY <1>1, <1>3, NothingDue, BytesStay DEF BytesInv, TargetStays, Less
  <1>6. TargetInv'
    BY <1>1, <1>3 DEF Safe, TargetInv, TargetStays
  <1>7. BookInv'
    BY <1>1, <1>2, <1>3 DEF BookInv
  <1>8. FlashInv'
    BY <1>1, <1>3 DEF Safe, FlashInv, Holds, TargetStays
  <1>9. QED
    BY <1>4, <1>5, <1>6, <1>7, <1>8 DEF Safe

\* The acknowledgement has come: the target has the frame.
LEMMA AckKeeps ==
    ASSUME TypeInv, Safe, target_ackLadder_ack, pc' # "failed"
    PROVE  Safe'
  <1>1. /\ TargetStays /\ BookStays /\ StartRead /\ pc = "ack" /\ Ladder
    BY DEF target_ackLadder_ack, Quiet, target, TargetStays, BookStays, Ladder
  <1>2. CASE ~Expect("a1") /\ LadderFailed
    BY <1>1, <1>2, FailTypes, AgainKeeps
  <1>3. CASE Expect("a1") /\ pc' = "resp" /\ UNCHANGED <<tries, address, toTgt>>
    <2>1. In(got, "a1") /\ Coming("a1")
      BY <1>3, ExpectComing
    <2>2. cur = Cmd /\ Single("a1") /\ Single("a4") /\ step # "none"
      BY <1>1, <2>1 DEF Safe, BytesInv, BookInv
    <2>3. Cmd' = Cmd /\ Ladder' /\ ~Before /\ ~Before'
      BY <1>1, <1>3 DEF BookStays, Cmd, Page, Ladder, Before
    <2>4. ~Coming("a1")' /\ Single("a1")' /\ Single("a4")' /\ (Coming("a4")' => Coming("a4"))
      BY <1>1, <2>1, <2>2, BytesDropped DEF Less, TargetStays
    <2>5. FramesInv'
      <3>1. ~In(toTgt, Cmd)
        BY <1>1, <2>1 DEF Safe, FramesInv
      <3>2. QED
        BY <1>3, <3>1 DEF Safe, FramesInv
    <2>6. BytesInv'
      BY <1>1, <2>3, <2>4 DEF Safe, BytesInv, TargetStays
    <2>7. TargetInv'
      BY <1>1, <1>3, <2>2, <2>3 DEF Safe, TargetInv, TargetStays, BookStays
    <2>8. BookInv'
      BY <1>1, <1>3, <2>3 DEF Safe, BookInv, BookStays
    <2>9. FlashInv'
      BY <1>1, <1>3, <2>3 DEF Safe, FlashInv, Holds, TargetStays, BookStays
    <2>10. QED
      BY <2>5, <2>6, <2>7, <2>8, <2>9 DEF Safe
  <1>4. QED
    BY <1>2, <1>3 DEF target_ackLadder_ack

\* The response has come: the frame was carried out.
LEMMA RespKeeps ==
    ASSUME TypeInv, Safe, target_ackLadder_resp, pc' # "failed"
    PROVE  Safe'
  <1>1. /\ TargetStays /\ BookStays /\ StartRead /\ pc = "resp" /\ Ladder
    BY DEF target_ackLadder_resp, Quiet, target, TargetStays, BookStays, Ladder
  <1>2. CASE LadderFailed
    BY <1>1, <1>2, FailTypes, AgainKeeps
  <1>3. CASE Expect("a4") /\ tty_write(tty_ack) /\ LadderDone
    <2>1. In(got, "a4") /\ Coming("a4")
      BY <1>3, ExpectComing
    <2>2. /\ cur = Cmd /\ mode # "busy" /\ Single("a1") /\ Single("a4") /\ step # "none"
          /\ ~Coming("a1")
      BY <1>1, <2>1 DEF Safe, BytesInv, BookInv
    <2>3. cur.type = step
      BY <2>2, CmdFacts
    <2>4. pc' \in {"file", "data", "reset", "done"} /\ ~Ladder' /\ ~Before'
      BY <1>3 DEF LadderDone, Ladder, Before
    <2>5. ~Coming("a1")' /\ ~Coming("a4")' /\ Single("a1")' /\ Single("a4")'
      BY <1>1, <2>1, <2>2, BytesDropped DEF Less, TargetStays
    <2>6. FramesInv'
      <3>1. Fewer
        BY <1>3, FramePut, FrameFacts
      <3>2. \A f \in Frames : In(toTgt', f) => f \in Small
        BY <1>1, <3>1 DEF Safe, FramesInv, Fewer
      <3>3. QED
        BY <2>4, <3>2 DEF FramesInv
    <2>7. BytesInv'
      BY <2>5 DEF BytesInv
    <2>8. SUFFICES TargetInv' /\ BookInv' /\ FlashInv'
      BY <2>6, <2>7 DEF Safe
    <2>9. CASE step = "erase"
      <3>1. pc' = "file" /\ address' = address
        BY <1>3, <2>9 DEF LadderDone
      <3>2. TargetInv'
        BY <1>1, <2>2, <2>3, <2>4, <2>9, <3>1 DEF TargetInv, TargetStays
      <3>3. pos = 0 /\ address = 0
        BY <1>1, <2>9 DEF Safe, BookInv
      <3>4. BookInv'
        BY <1>1, <2>4, <3>1, <3>3 DEF BookInv, BookStays, TypeInv
      <3>5. FlashInv'
        BY <1>1, <2>2, <2>4, <2>9, <3>1, <3>3 DEF Safe, FlashInv, Holds, TargetStays, BookStays
      <3>6. QED
        BY <3>2, <3>4, <3>5
    <2>10. CASE step = "write"
      <3>1. pc' = "data" /\ address' = address
        BY <1>3, <2>10 DEF LadderDone
      <3>2. cur = cmd_flashWriteMemory(address, chunk) /\ dest = cur
        BY <2>2, <2>3, <2>10 DEF Safe, TargetInv, Cmd
      <3>3. TargetInv'
        BY <1>1, <2>2, <2>4, <3>1, <3>2 DEF TargetInv, TargetStays, BookStays
      <3>4. BookInv'
        BY <1>1, <2>4, <2>10, <3>1 DEF Safe, BookInv, BookStays
      <3>5. FlashInv'
        BY <1>1, <2>4, <2>10, <3>1 DEF Safe, FlashInv, Holds, TargetStays, BookStays
      <3>6. QED
        BY <3>3, <3>4, <3>5
    <2>11. CASE step = "data"
      <3>1. pc' = (IF chunk = PageSz THEN "file" ELSE "reset") /\ address' = address + chunk
        BY <1>3, <2>11 DEF LadderDone
      <3>2. TargetInv'
        BY <1>1, <2>2, <2>3, <2>4, <2>11, <3>1 DEF TargetInv, TargetStays
      <3>3. /\ pos = address + chunk /\ chunk <= PageSz /\ pos <= filesz
            /\ chunk < PageSz => pos = filesz
        BY <1>1, <2>11 DEF Safe, BookInv
      <3>4. chunk # PageSz => chunk < PageSz
        BY <3>3, McxispAssumption DEF TypeInv
      <3>5. BookInv'
        BY <1>1, <2>4, <3>1, <3>3, <3>4 DEF BookInv, BookStays
      <3>6. address' = pos
        BY <3>1, <3>3
      <3>7. FlashInv'
        BY <1>1, <2>2, <2>4, <2>11, <3>6 DEF Safe, FlashInv, Holds, TargetStays
      <3>8. QED
        BY <3>2, <3>5, <3>7
    <2>12. CASE step = "reset"
      <3>1. pc' = "done" /\ address' = address
        BY <1>3, <2>12 DEF LadderDone
      <3>2. TargetInv'
        BY <1>1, <2>2, <2>3, <2>4, <2>12, <3>1 DEF TargetInv, TargetStays
      <3>3. BookInv'
        BY <1>1, <2>4, <2>12, <3>1 DEF Safe, BookInv, BookStays
      <3>4. FlashInv'
        BY <1>1, <2>4, <2>12, <3>1 DEF Safe, FlashInv, Holds, TargetStays
      <3>5. QED
        BY <3>2, <3>3, <3>4
    <2>13. QED
      BY <2>2, <2>9, <2>10, <2>11, <2>12 DEF TypeInv, Steps
  <1>4. QED
    BY <1>2, <1>3 DEF target_ackLadder_resp

\* A host that has failed stays so.
LEMMA FailedStays ==
    ASSUME Next, pc = "failed"
    PROVE  HostStays
  BY OthersLeaveHost DEF Next, HostNext, tty_read_byte, tty_read_timeout, tty_read_error,
     target_connect_ping, target_connect_pong, target_flashEraseAll, target_ackLadder_ack,
     target_ackLadder_resp, target_sendFile_chunk, target_sendFile_data, file_error, target_reset,
     Reading, finished, vars, host, HostStays

\* All of them.
LEMMA SafeKeeps ==
    ASSUME TypeInv, TypeInv', pc # "failed" => Safe, Next, pc' # "failed"
    PROVE  Safe'
  <1>1. pc # "failed" /\ Safe
    BY FailedStays DEF HostStays
  <1>2. CASE TargetNext
    BY <1>1, <1>2, SmallKeep, TgtFrameKeeps, RespondKeeps DEF TargetNext
  <1>3. CASE lose_frame \/ damage_frame \/ lose_byte \/ noise \/ finished
    BY <1>1, <1>3, MessagesKeep
  <1>4. CASE HostNext
    <2>1. CASE tty_read_byte \/ tty_read_timeout
      BY <1>1, <2>1, MessagesKeep
    <2>2. CASE target_connect_ping \/ target_connect_pong \/ tty_read_error
      BY <1>1, <2>2, ConnectKeeps
    <2>3. CASE target_ackLadder_ack \/ target_ackLadder_resp
      BY <1>1, <2>3, AckKeeps, RespKeeps
    <2>4. CASE target_flashEraseAll \/ target_sendFile_data \/ target_reset
      <3>1. pc' = "ack"
        BY <2>4 DEF target_flashEraseAll, target_sendFile_data, target_reset, Send
      <3>2. QED
        BY <1>1, <2>4, <3>1, SendKeeps
    <2>5. CASE target_sendFile_chunk
      <3>1. pc' = "ack" \/ pc' = "reset"
        BY <2>5 DEF target_sendFile_chunk, Send
      <3>2. QED
        BY <1>1, <2>5, <3>1, SendKeeps, FileEndKeeps
    <2>6. CASE file_error
      BY <2>6 DEF file_error
    <2>7. QED
      BY <1>4, <2>1, <2>2, <2>3, <2>4, <2>5, <2>6 DEF HostNext
  <1>5. QED
    BY <1>2, <1>3, <1>4 DEF Next

-----------------------------------------------------------------------------
(* The flash.                                                              *)

\* Before anything is sent.
LEMMA CoreInit ==
    ASSUME Init
    PROVE  Core
  <1>1. TypeInv
    <2>1. <<>> \in Seq(ByteSet) /\ <<>> \in Seq(Frames)
      OBVIOUS
    <2>2. QED
      BY <2>1 DEF Init, TypeInv, Steps
  <1>2. ~Coming("a1") /\ ~Coming("a4") /\ Single("a1") /\ Single("a4")
    BY InEmpty DEF Init, Coming, Single
  <1>3. \A f \in Frames : ~In(toTgt, f)
    BY InEmpty DEF Init
  <1>4. Before /\ ~Ladder /\ pc = "ping" /\ cur = Bad /\ mode = "idle"
    BY DEF Init, Before, Ladder
  <1>5. FramesInv
    BY <1>3, <1>4 DEF FramesInv
  <1>6. BytesInv
    BY <1>2 DEF BytesInv
  <1>7. TargetInv
    BY <1>4, FrameFacts DEF TargetInv
  <1>8. BookInv
    BY <1>4 DEF Init, BookInv
  <1>9. FlashInv
    BY <1>4 DEF FlashInv
  <1>10. QED
    BY <1>1, <1>5, <1>6, <1>7, <1>8, <1>9 DEF Core, Safe

\* Every step keeps it.
LEMMA CoreStep ==
    ASSUME Core, [Next]_vars
    PROVE  Core'
  <1>1. CASE Next
    <2>1. TypeInv'
      <3>1. CASE finished
        BY <3>1 DEF finished, vars, host, target, Core, TypeInv
      <3>2. QED
        BY <1>1, <3>1, HostTypes, OtherTypes DEF Next, Core
    <2>2. QED
      BY <1>1, <2>1, SafeKeeps DEF Core
  <1>2. CASE UNCHANGED vars
    <2>1. TypeInv'
      BY <1>2 DEF vars, host, target, Core, TypeInv
    <2>2. CASE pc = "failed"
      BY <1>2, <2>1, <2>2 DEF Core, vars, host
    <2>3. CASE pc # "failed"
      <3>1. /\ HostStays /\ cur' = cur /\ dest' = dest /\ flash' = flash /\ refused' = refused
            /\ mode' = mode /\ toTgt' = toTgt /\ got' = got /\ toHost' = toHost
        BY <1>2 DEF vars, host, target, HostStays
      <3>2. Fewer
        BY <3>1 DEF Fewer
      <3>3. Less("a1") /\ Less("a4")
        BY <2>3, <3>1, BytesStay DEF Core, Safe, BytesInv
      <3>4. Safe'
        BY <2>3, <3>1, <3>2, <3>3, Quieter DEF Core
      <3>5. QED
        BY <2>1, <3>4 DEF Core
    <2>4. QED
      BY <2>2, <2>3
  <1>3. QED
    BY <1>1, <1>2

\* Whatever is lost, damaged or read late, each answer is about the frame the
\* host waits for, and a ladder that was climbed carried its frame out
\* (target_ackLadder).
THEOREM CoreInvariance == Spec => []Core
  <1>1. Init => Core
    BY CoreInit
  <1>2. Core /\ [Next]_vars => Core'
    BY CoreStep
  <1>3. QED
    BY <1>1, <1>2, PTL DEF Spec

\* When mcxisp says "Done." and the target has reported no error, the flash
\* holds the file and blanks behind it (target_sendFile, target_ackLadder).
THEOREM FlashesAreComplete == Spec => []FlashComplete
  <1>1. Core => FlashComplete
    <2>1. SUFFICES ASSUME Core, pc = "done", ~refused, NEW a \in Cells
                   PROVE  flash[a] = IF a < filesz THEN File(a) ELSE Blank
      BY DEF FlashComplete
    <2>2. Holds(address) /\ address = filesz
      BY <2>1 DEF Core, Safe, FlashInv, BookInv
    <2>3. QED
      BY <2>2 DEF Holds
  <1>2. QED
    BY <1>1, CoreInvariance, PTL

-----------------------------------------------------------------------------
(* The line without faults.                                                *)

\* Pings are followed by a ping, and taken one by one.
LEMMA PingsFacts ==
    ASSUME NEW s \in Seq(Frames), Pings(s)
    PROVE  /\ Append(s, cmd_ping) \in Seq(Frames) /\ Pings(Append(s, cmd_ping))
           /\ s # <<>> => /\ Head(s) = cmd_ping /\ Tail(s) \in Seq(Frames) /\ Pings(Tail(s))
  <1>1. cmd_ping \in Frames
    BY FrameFacts
  <1>2. Append(s, cmd_ping) \in Seq(Frames) /\ Pings(Append(s, cmd_ping))
    <2>1. PICK m, t : m = Len(s) /\ t = Append(s, cmd_ping)
      OBVIOUS
    <2>2. /\ t \in Seq(Frames) /\ m \in Nat /\ Len(t) = m + 1 /\ t[m + 1] = cmd_ping
          /\ \A i \in 1 .. m : t[i] = s[i]
      BY <1>1, <2>1, AppendProperties, LenProperties
    <2>3. ASSUME NEW i \in 1 .. m + 1 PROVE t[i] = cmd_ping
      <3>1. i = m + 1 \/ i \in 1 .. m
        BY <2>2
      <3>2. QED
        BY <2>1, <2>2, <3>1 DEF Pings
    <2>4. QED
      BY <2>1, <2>2, <2>3 DEF Pings
  <1>3. ASSUME s # <<>> PROVE Head(s) = cmd_ping /\ Tail(s) \in Seq(Frames) /\ Pings(Tail(s))
    <2>1. PICK m, t : m = Len(s) /\ t = Tail(s)
      OBVIOUS
    <2>2. m \in Nat /\ m # 0
      BY <1>3, <2>1, LenProperties, EmptySeq
    <2>3. /\ t \in Seq(Frames) /\ Head(s) = s[1] /\ Len(t) = m - 1
          /\ \A i \in 1 .. m - 1 : t[i] = s[i + 1]
      BY <1>3, <2>1, <2>2, HeadTailProperties
    <2>4. 1 \in 1 .. m /\ \A i \in 1 .. m - 1 : i + 1 \in 1 .. m
      BY <2>2
    <2>5. QED
      BY <2>1, <2>3, <2>4 DEF Pings
  <1>4. QED
    BY <1>2, <1>3

\* Lines of one and two frames.
LEMMA ShortLines ==
    ASSUME NEW f, NEW g
    PROVE  /\ <<f>> # <<>> /\ Head(<<f>>) = f /\ Tail(<<f>>) = <<>>
           /\ <<f, g>> # <<>> /\ Head(<<f, g>>) = f /\ Tail(<<f, g>>) = <<g>>
           /\ Append(<<>>, f) = <<f>> /\ Append(<<f>>, g) = <<f, g>>
  <1>1. <<f>> # <<>> /\ Head(<<f>>) = f /\ <<f, g>> # <<>> /\ Head(<<f, g>>) = f
    OBVIOUS
  <1>2. Tail(<<f>>) = <<>>
    OBVIOUS
  <1>3. Tail(<<f, g>>) = <<g>>
    OBVIOUS
  <1>4. Append(<<>>, f) = <<f>>
    OBVIOUS
  <1>5. Append(<<f>>, g) = <<f, g>>
    <2>1. PICK S : S = {f, g}
      OBVIOUS
    <2>2. <<f>> \in Seq(S) /\ g \in S /\ <<f, g>> \in Seq(S) /\ Len(<<f>>) = 1
      BY <2>1
    <2>3. PICK u : u = Append(<<f>>, g)
      OBVIOUS
    <2>4. u \in Seq(S) /\ Len(u) = 2 /\ u[1] = f /\ u[2] = g
      BY <2>2, <2>3, AppendProperties
    <2>5. \A i \in 1 .. 2 : u[i] = <<f, g>>[i]
      BY <2>4
    <2>6. u = <<f, g>>
      BY <2>2, <2>4, <2>5, SeqEqual
    <2>7. QED
      BY <2>3, <2>6
  <1>6. QED
    BY <1>1, <1>2, <1>3, <1>4, <1>5

\* A line that ends with the erase command.
LEMMA EraseLine ==
    ASSUME NEW s \in Seq(Frames), Pings(s), NEW t, t = Append(s, cmd_flashEraseAll)
    PROVE  /\ t # <<>>
           /\ \/ Head(t) = cmd_flashEraseAll /\ Tail(t) = <<>>
              \/ /\ Head(t) = cmd_ping
                 /\ \E r \in Seq(Frames) : Pings(r) /\ Tail(t) = Append(r, cmd_flashEraseAll)
  <1>1. CASE s = <<>>
    BY <1>1, ShortLines
  <1>2. CASE s # <<>>
    <2>1. Head(s) = cmd_ping /\ Tail(s) \in Seq(Frames) /\ Pings(Tail(s))
      BY <1>2, PingsFacts
    <2>2. t # <<>> /\ Head(t) = Head(s) /\ Tail(t) = Append(Tail(s), cmd_flashEraseAll)
      BY <1>2, FrameFacts, HeadTailAppend
    <2>3. QED
      BY <2>1, <2>2
  <1>3. QED
    BY <1>1, <1>2

\* What comes behind the acknowledgement.
LEMMA FitsFacts ==
    ASSUME NEW a, NEW b, Fits(a, b)
    PROVE  \/ a = "write" /\ b = "data"
           \/ a \in {"erase", "data"} /\ b \in {"write", "reset"}
  BY DEF Fits

\* What a target that is not busy does with a frame, by the frame's type.
LEMMA Takes ==
    ASSUME TargetNext, mode # "busy", NEW f, f = Head(toTgt)
    PROVE  /\ toTgt # <<>> /\ toTgt' = Tail(toTgt)
           /\ mode = "idle" /\ f.type = "ping" => tgt_ping /\ mode' = "idle" /\ UNCHANGED target
           /\ mode = "idle" /\ f.type \in Commands =>
                 /\ tgt_frame /\ mode' = "busy" /\ ignored' = ignored
           /\ mode = "data" /\ f.type = "data" =>
                 /\ tgt_frame /\ mode' = "busy" /\ ignored' = ignored
           /\ mode = "wait" /\ f.type = "ack" =>
                 /\ tgt_acked /\ cur' = cur /\ ignored' = ignored
                 /\ cur.type = "write" => mode' = "data"
                 /\ cur.type = "reset" => mode' = "gone"
                 /\ cur.type \in {"erase", "data"} => mode' = "idle"
  <1>1. ~tgt_respond
    BY DEF tgt_respond
  <1>2. toTgt # <<>> /\ toTgt' = Tail(toTgt)
    BY <1>1 DEF TargetNext, tgt_ping, tgt_frame, tgt_acked, tgt_other, Receive
  <1>3. ASSUME mode = "idle", f.type = "ping" PROVE tgt_ping /\ mode' = "idle" /\ UNCHANGED target
    <2>1. ~tgt_frame /\ ~tgt_acked
      BY <1>3 DEF tgt_frame, tgt_acked, Commands
    <2>2. Waited(f.type)
      BY <1>3 DEF Waited
    <2>3. ~tgt_other
      BY <2>2 DEF tgt_other
    <2>4. tgt_ping
      BY <1>1, <2>1, <2>3 DEF TargetNext
    <2>5. QED
      BY <1>3, <2>4 DEF tgt_ping, target
  <1>4. ASSUME \/ mode = "idle" /\ f.type \in Commands
               \/ mode = "data" /\ f.type = "data"
        PROVE  tgt_frame /\ mode' = "busy" /\ ignored' = ignored
    <2>1. ~tgt_ping /\ ~tgt_acked
      BY <1>4 DEF tgt_ping, tgt_acked, Commands
    <2>2. Waited(f.type)
      BY <1>4 DEF Waited
    <2>3. ~tgt_other
      BY <2>2 DEF tgt_other
    <2>4. tgt_frame
      BY <1>1, <2>1, <2>3 DEF TargetNext
    <2>5. QED
      BY <2>4 DEF tgt_frame
  <1>5. ASSUME mode = "wait", f.type = "ack"
        PROVE  /\ tgt_acked /\ cur' = cur /\ ignored' = ignored
               /\ cur.type = "write" => mode' = "data"
               /\ cur.type = "reset" => mode' = "gone"
               /\ cur.type \in {"erase", "data"} => mode' = "idle"
    <2>1. ~tgt_ping /\ ~tgt_frame
      BY <1>5 DEF tgt_ping, tgt_frame
    <2>2. Waited(f.type)
      BY <1>5 DEF Waited
    <2>3. ~tgt_other
      BY <2>2 DEF tgt_other
    <2>4. tgt_acked
      BY <1>1, <2>1, <2>3 DEF TargetNext
    <2>5. QED
      BY <2>4 DEF tgt_acked
  <1>6. QED
    BY <1>2, <1>3, <1>4, <1>5

\* Pings are answered one by one.
LEMMA PingsGoOn ==
    ASSUME TypeInv, mode = "idle", Pings(toTgt), TargetNext
    PROVE  mode' = "idle" /\ Pings(toTgt)' /\ ignored' = ignored
  <1>1. toTgt \in Seq(Frames)
    BY DEF TypeInv
  <1>2. toTgt # <<>> /\ toTgt' = Tail(toTgt)
    BY Takes
  <1>3. Head(toTgt) = cmd_ping /\ Pings(Tail(toTgt))
    BY <1>1, <1>2, PingsFacts
  <1>4. mode' = "idle" /\ UNCHANGED target
    BY <1>3, Takes, FrameFacts
  <1>5. QED
    BY <1>2, <1>3, <1>4 DEF target

\* In a ladder the target waits for whatever comes next.
LEMMA ClimbingGoesOn ==
    ASSUME TypeInv, Climbing, TargetNext
    PROVE  Climbing' /\ ignored' = ignored
  <1>1. toTgt \in Seq(Frames)
    BY DEF TypeInv
  <1>2. CASE mode = "idle" /\ Pings(toTgt)
    BY <1>2, PingsGoOn DEF Climbing
  <1>3. ASSUME NEW s \in Seq(Frames), Pings(s), toTgt = Append(s, cmd_flashEraseAll), mode = "idle"
        PROVE  Climbing' /\ ignored' = ignored
    <2>1. toTgt' = Tail(toTgt)
      BY <1>3, Takes
    <2>2. CASE Head(toTgt) = cmd_flashEraseAll /\ Tail(toTgt) = <<>>
      <3>1. mode' = "busy" /\ ignored' = ignored
        BY <1>3, <2>2, Takes, FrameFacts DEF Commands
      <3>2. QED
        BY <2>1, <2>2, <3>1 DEF Climbing
    <2>3. CASE /\ Head(toTgt) = cmd_ping
               /\ \E r \in Seq(Frames) : Pings(r) /\ Tail(toTgt) = Append(r, cmd_flashEraseAll)
      <3>1. mode' = "idle" /\ UNCHANGED target
        BY <1>3, <2>3, Takes, FrameFacts
      <3>2. PICK r \in Seq(Frames) : Pings(r) /\ Tail(toTgt) = Append(r, cmd_flashEraseAll)
        BY <2>3
      <3>3. \E r1 \in Seq(Frames) :
               Pings(r1) /\ toTgt' = Append(r1, cmd_flashEraseAll) /\ mode' = "idle"
        BY <2>1, <3>1, <3>2
      <3>4. QED
        BY <3>1, <3>3 DEF Climbing, target
    <2>4. QED
      BY <1>3, <2>2, <2>3, EraseLine
  <1>4. ASSUME NEW f \in Frames, mode = "wait", toTgt = <<tty_ack, f>>, Fits(cur.type, f.type)
        PROVE  Climbing' /\ ignored' = ignored
    <2>1. Head(toTgt) = tty_ack /\ Tail(toTgt) = <<f>>
      BY <1>4, ShortLines
    <2>2. /\ toTgt' = <<f>> /\ ignored' = ignored
          /\ cur.type = "write" => mode' = "data"
          /\ cur.type \in {"erase", "data"} => mode' = "idle"
      BY <1>4, <2>1, Takes, FrameFacts
    <2>3. \/ cur.type = "write" /\ f.type = "data"
          \/ cur.type \in {"erase", "data"} /\ f.type \in {"write", "reset"}
      BY <1>4, FitsFacts
    <2>4. \/ mode' = "data" /\ f.type = "data"
          \/ mode' = "idle" /\ f.type \in Commands
      BY <2>2, <2>3 DEF Commands
    <2>5. QED
      BY <2>2, <2>4 DEF Climbing
  <1>5. ASSUME NEW f \in Frames, toTgt = <<f>>,
               \/ mode = "idle" /\ f.type \in Commands
               \/ mode = "data" /\ f.type = "data"
        PROVE  Climbing' /\ ignored' = ignored
    <2>1. Head(toTgt) = f /\ Tail(toTgt) = <<>>
      BY <1>5, ShortLines
    <2>2. toTgt' = <<>> /\ mode' = "busy" /\ ignored' = ignored
      BY <1>5, <2>1, Takes
    <2>3. QED
      BY <2>2 DEF Climbing
  <1>6. CASE toTgt = <<>> /\ mode \in {"busy", "wait"}
    <2>1. mode = "busy"
      BY <1>6, Takes
    <2>2. tgt_respond
      BY <1>6, <2>1 DEF TargetNext, tgt_ping, tgt_frame, tgt_acked, tgt_other
    <2>3. toTgt' = toTgt /\ mode' = "wait" /\ ignored' = ignored
      BY <2>2 DEF tgt_respond
    <2>4. QED
      BY <1>6, <2>3 DEF Climbing
  <1>7. CASE \E s \in Seq(Frames) :
                Pings(s) /\ toTgt = Append(s, cmd_flashEraseAll) /\ mode = "idle"
    BY <1>3, <1>7
  <1>8. CASE \E f \in Frames : mode = "wait" /\ toTgt = <<tty_ack, f>> /\ Fits(cur.type, f.type)
    BY <1>4, <1>8
  <1>9. CASE \/ \E f \in Frames : toTgt = <<f>> /\ mode = "idle" /\ f.type \in Commands
             \/ \E f \in Frames : toTgt = <<f>> /\ mode = "data" /\ f.type = "data"
    BY <1>5, <1>9
  <1>10. QED
    BY <1>2, <1>6, <1>7, <1>8, <1>9 DEF Climbing

\* Between ladders it has the acknowledgement before it, or nothing.
LEMMA ThroughGoesOn ==
    ASSUME NEW t \in {"erase", "write", "data", "reset"}, Through(t), TargetNext
    PROVE  Through(t)' /\ ignored' = ignored
  <1>1. CASE mode = "wait" /\ cur.type = t /\ toTgt = <<tty_ack>>
    <2>1. Head(toTgt) = tty_ack /\ Tail(toTgt) = <<>>
      BY <1>1, ShortLines
    <2>2. /\ toTgt' = <<>> /\ ignored' = ignored /\ cur' = cur
          /\ cur.type = "write" => mode' = "data"
          /\ cur.type = "reset" => mode' = "gone"
          /\ cur.type \in {"erase", "data"} => mode' = "idle"
      BY <1>1, <2>1, Takes, FrameFacts
    <2>3. mode' = (CASE t = "write" -> "data" [] t = "reset" -> "gone" [] OTHER -> "idle")
      BY <1>1, <2>2
    <2>4. QED
      BY <1>1, <2>2, <2>3 DEF Through
  <1>2. CASE mode # "wait" /\ toTgt = <<>> /\ mode # "busy"
    BY <1>2, Takes
  <1>3. QED
    BY <1>1, <1>2 DEF Through

\* A step of the target.
LEMMA TargetInStep ==
    ASSUME Core, ~ignored, Position, Answered, TargetNext
    PROVE  ~ignored' /\ Position' /\ Answered'
  <1>1. TypeInv /\ HostStays /\ got' = got
    BY OthersLeaveHost DEF Core
  <1>2. Before' = Before /\ Ladder' = Ladder /\ pc' = pc /\ step' = step
    BY <1>1, SameCmd DEF HostStays
  <1>3. CASE Before
    <2>1. pc \notin {"data", "file", "reset", "done", "failed"} /\ ~Ladder
      BY <1>3 DEF Before, Ladder
    <2>2. mode' = "idle" /\ Pings(toTgt)' /\ ignored' = ignored
      BY <1>1, <1>3, PingsGoOn DEF Position
    <2>3. QED
      BY <1>2, <2>1, <2>2 DEF Position, Answered
  <1>4. CASE pc \in {"data", "file", "reset", "done"}
    <2>1. ~Before /\ ~Ladder /\ pc # "failed"
      BY <1>4 DEF Before, Ladder
    <2>2. PICK t \in {"erase", "write", "data", "reset"} :
             /\ Through(t)
             /\ pc = "data" => t = "write"
             /\ pc \in {"file", "reset"} => t \in {"erase", "data"}
             /\ pc = "done" => t = "reset"
      BY <1>4 DEF Position
    <2>3. Through(t)' /\ ignored' = ignored
      BY <2>2, ThroughGoesOn
    <2>4. QED
      BY <1>2, <2>1, <2>2, <2>3 DEF Position, Answered
  <1>5. CASE pc = "failed"
    <2>1. ~Before /\ ~Ladder
      BY <1>5 DEF Before, Ladder
    <2>2. Climbing' /\ ignored' = ignored
      BY <1>1, <1>5, ClimbingGoesOn DEF Position
    <2>3. QED
      BY <1>2, <1>5, <2>1, <2>2 DEF Position, Answered
  <1>6. CASE Ladder
    <2>1. ~Before /\ pc \notin {"data", "file", "reset", "done", "failed"}
      BY <1>6 DEF Before, Ladder
    <2>2. Climbing' /\ ignored' = ignored
      BY <1>1, <1>6, ClimbingGoesOn DEF Position
    <2>3. Answered'
      <3>1. CASE tgt_respond
        <4>1. mode = "busy" /\ mode' = "wait" /\ cur' = cur /\ toTgt' = toTgt
          BY <3>1 DEF tgt_respond
        <4>2. cur = Cmd /\ step # "none"
          BY <1>6, <2>1, <4>1 DEF Core, Safe, TargetInv, BookInv
        <4>3. cur.type = step
          BY <1>1, <4>2, CmdFacts
        <4>4. toTgt = <<>>
          BY <1>6, <4>1 DEF Position, Climbing
        <4>5. QED
          BY <1>2, <4>1, <4>3, <4>4 DEF Answered
      <3>2. CASE ~tgt_respond
        <4>1. toTgt # <<>>
          BY <3>2 DEF TargetNext, tgt_ping, tgt_frame, tgt_acked, tgt_other, Receive
        <4>2. ~Coming("a4")
          BY <1>6, <4>1 DEF Answered
        <4>3. CASE toHost' = toHost
          BY <1>1, <4>2, <4>3, BytesStay DEF Answered
        <4>4. CASE Say(Ack) \/ Say(Nak) \/ Say(Pong)
          BY <1>1, <4>2, <4>4, ByteSaid, AnswerFacts DEF Answered
        <4>5. QED
          BY <3>2, <4>3, <4>4 DEF TargetNext, tgt_ping, tgt_frame, tgt_acked, tgt_other
      <3>3. QED
        BY <3>1, <3>2
    <2>4. QED
      BY <1>2, <1>6, <2>1, <2>2, <2>3 DEF Position
  <1>7. QED
    BY <1>1, <1>3, <1>4, <1>5, <1>6 DEF TypeInv, Before, Ladder

\* The host and what it does to the line, when it sends nothing.
LEMMA HostInStep ==
    ASSUME Core, ~ignored, Position, Answered, mode' = mode, cur' = cur, ignored' = ignored,
           toTgt' = toTgt, Coming("a4")' => Coming("a4"),
           \/ pc' = pc /\ step' = step
           \/ Before /\ (Before' \/ pc' = "failed")
           \/ Ladder /\ (Ladder' \/ pc' = "failed") /\ step' = step
           \/ pc = "file" /\ pc' = "reset"
    PROVE  ~ignored' /\ Position' /\ Answered'
  <1>1. /\ Climbing' <=> Climbing
        /\ Through("write")' <=> Through("write")
        /\ Through("erase")' <=> Through("erase")
        /\ Through("data")' <=> Through("data")
        /\ Through("reset")' <=> Through("reset")
    BY DEF Climbing, Through
  <1>2. CASE pc' = pc /\ step' = step
    BY <1>1, <1>2 DEF Position, Answered, Before, Ladder
  <1>3. CASE Before /\ (Before' \/ pc' = "failed")
    BY <1>1, <1>3 DEF Position, Answered, Before, Ladder, Climbing
  <1>4. CASE Ladder /\ (Ladder' \/ pc' = "failed") /\ step' = step
    BY <1>1, <1>4 DEF Position, Answered, Before, Ladder
  <1>5. CASE pc = "file" /\ pc' = "reset"
    BY <1>1, <1>5 DEF Position, Answered, Before, Ladder
  <1>6. QED
    BY <1>2, <1>3, <1>4, <1>5

\* The next frame of an upload is what the target waits for.
LEMMA ThroughSent ==
    ASSUME NEW t, Through(t), NEW f \in Frames, Fits(t, f.type), mode' = mode, cur' = cur,
           toTgt' = Append(toTgt, f)
    PROVE  Climbing'
  <1>1. \/ t = "write" /\ f.type = "data"
        \/ t \in {"erase", "data"} /\ f.type \in {"write", "reset"}
    BY FitsFacts
  <1>2. CASE mode = "wait" /\ cur.type = t /\ toTgt = <<tty_ack>>
    <2>1. toTgt' = <<tty_ack, f>>
      BY <1>2, ShortLines
    <2>2. mode' = "wait" /\ Fits(cur'.type, f.type)
      BY <1>2
    <2>3. QED
      BY <2>1, <2>2 DEF Climbing
  <1>3. CASE /\ mode = (CASE t = "write" -> "data" [] t = "reset" -> "gone" [] OTHER -> "idle")
             /\ cur.type = t /\ toTgt = <<>>
    <2>1. toTgt' = <<f>>
      BY <1>3, ShortLines
    <2>2. t = "write" => mode' = "data"
      BY <1>3
    <2>3. t \in {"erase", "data"} => mode' = "idle"
      BY <1>3
    <2>4. \/ mode' = "data" /\ f.type = "data"
          \/ mode' = "idle" /\ f.type \in Commands
      BY <1>1, <2>2, <2>3 DEF Commands
    <2>5. QED
      BY <2>1, <2>4 DEF Climbing
  <1>4. QED
    BY <1>2, <1>3 DEF Through

\* A frame is sent.
LEMMA SentInStep ==
    ASSUME Core, ~ignored, Position, Answered, faults = 0, faults' = 0,
           target_flashEraseAll \/ target_sendFile_chunk \/ target_sendFile_data \/ target_reset
    PROVE  ~ignored' /\ Position' /\ Answered'
  <1>1. /\ TypeInv /\ mode' = mode /\ cur' = cur /\ ignored' = ignored /\ toHost' = toHost
        /\ pc \in {"erase", "file", "data", "reset"} /\ ~Ladder /\ pc # "failed"
    BY DEF Core, target_flashEraseAll, target_sendFile_chunk, target_sendFile_data, target_reset,
       Quiet, target, Ladder
  <1>2. ~Coming("a4")
    BY <1>1, NothingDue DEF Core
  <1>3. ~Fault
    BY DEF Fault
  <1>4. CASE target_sendFile_chunk /\ pc' = "reset"
    <2>1. pc = "file" /\ got' = got /\ toTgt' = toTgt
      BY <1>4 DEF target_sendFile_chunk, Send
    <2>2. Coming("a4")' => Coming("a4")
      BY <1>1, <2>1, BytesStay
    <2>3. QED
      BY <1>1, <1>4, <2>1, <2>2, HostInStep
  <1>5. ASSUME pc' = "ack", StartRead, Climbing' PROVE ~ignored' /\ Position' /\ Answered'
    <2>1. ~Coming("a4")'
      BY <1>1, <1>2, <1>5, BytesDropped
    <2>2. ~Before' /\ Ladder'
      BY <1>5 DEF Before, Ladder
    <2>3. QED
      BY <1>1, <1>5, <2>1, <2>2 DEF Position, Answered
  <1>6. CASE target_flashEraseAll
    <2>1. pc = "erase" /\ pc' = "ack" /\ StartRead /\ toTgt' = Append(toTgt, cmd_flashEraseAll)
      BY <1>3, <1>6 DEF target_flashEraseAll, Send, tty_write
    <2>2. mode = "idle" /\ Pings(toTgt) /\ toTgt \in Seq(Frames)
      BY <1>1, <2>1 DEF Position, Before, TypeInv
    <2>3. \E s \in Seq(Frames) :
             Pings(s) /\ toTgt' = Append(s, cmd_flashEraseAll) /\ mode' = "idle"
      BY <1>1, <2>1, <2>2
    <2>4. Climbing'
      BY <2>3 DEF Climbing
    <2>5. QED
      BY <1>5, <2>1, <2>4
  <1>7. CASE target_sendFile_chunk /\ pc' # "reset"
    <2>1. PICK f : f = cmd_flashWriteMemory(address, chunk')
      OBVIOUS
    <2>2. /\ pc = "file" /\ pc' = "ack" /\ StartRead /\ toTgt' = Append(toTgt, f)
          /\ chunk' = file_read(PageSz)
      BY <1>3, <1>7, <2>1 DEF target_sendFile_chunk, Send, tty_write
    <2>3. chunk' \in Nat /\ address \in Nat
      BY <1>1, <2>2, ChunkFacts DEF Core, Safe, TypeInv
    <2>4. f \in Frames /\ f.type = "write"
      BY <2>1, <2>3 DEF cmd_flashWriteMemory, Frames
    <2>5. Fits("erase", f.type) /\ Fits("data", f.type)
      BY <2>4 DEF Fits
    <2>6. Climbing'
      BY <1>1, <2>2, <2>4, <2>5, ThroughSent DEF Position
    <2>7. QED
      BY <1>5, <2>2, <2>6
  <1>8. CASE target_sendFile_data
    <2>1. PICK f : f = cmd_data(Page)
      OBVIOUS
    <2>2. pc = "data" /\ pc' = "ack" /\ StartRead /\ toTgt' = Append(toTgt, f)
      BY <1>3, <1>8, <2>1 DEF target_sendFile_data, Send, tty_write
    <2>3. f \in Frames /\ f.type = "data"
      BY <1>1, <2>1, PageType DEF cmd_data
    <2>4. Fits("write", f.type)
      BY <2>3 DEF Fits
    <2>5. Climbing'
      BY <1>1, <2>2, <2>3, <2>4, ThroughSent DEF Position
    <2>6. QED
      BY <1>5, <2>2, <2>5
  <1>9. CASE target_reset
    <2>1. PICK f : f = cmd_reset
      OBVIOUS
    <2>2. pc = "reset" /\ pc' = "ack" /\ StartRead /\ toTgt' = Append(toTgt, f)
      BY <1>3, <1>9, <2>1 DEF target_reset, Send, tty_write
    <2>3. f \in Frames /\ f.type = "reset"
      BY <2>1, FrameFacts
    <2>4. Fits("erase", f.type) /\ Fits("data", f.type)
      BY <2>3 DEF Fits
    <2>5. Climbing'
      BY <1>1, <2>2, <2>3, <2>4, ThroughSent DEF Position
    <2>6. QED
      BY <1>5, <2>2, <2>5
  <1>10. QED
    BY <1>4, <1>6, <1>7, <1>8, <1>9

\* The response is acknowledged.
LEMMA ClimbedInStep ==
    ASSUME Core, ~ignored, Position, Answered, target_ackLadder_resp,
           Expect("a4"), tty_write(tty_ack), LadderDone
    PROVE  ~ignored' /\ Position' /\ Answered'
  <1>1. /\ TypeInv /\ mode' = mode /\ cur' = cur /\ ignored' = ignored /\ pc = "resp" /\ Ladder
    BY DEF Core, target_ackLadder_resp, Quiet, target, Ladder
  <1>2. Coming("a4")
    BY <1>1, ExpectComing
  <1>3. mode = "wait" /\ toTgt = <<>> /\ cur.type = step /\ step # "none"
    BY <1>1, <1>2 DEF Answered, Core, Safe, BookInv
  <1>4. toTgt' = <<tty_ack>>
    BY <1>3, ShortLines DEF tty_write
  <1>5. Through(step)'
    BY <1>1, <1>3, <1>4 DEF Through, target_ackLadder_resp
  <1>6. step' = step /\ step \in {"erase", "write", "data", "reset"}
    BY <1>1, <1>3 DEF target_ackLadder_resp, TypeInv, Steps
  <1>7. /\ step = "erase" => pc' = "file"
        /\ step = "write" => pc' = "data"
        /\ step = "data" => pc' \in {"file", "reset"}
        /\ step = "reset" => pc' = "done"
    BY DEF LadderDone
  <1>8. ~Before' /\ ~Ladder' /\ pc' # "failed"
    BY <1>6, <1>7 DEF Before, Ladder
  <1>9. /\ step = "erase" => Through("erase")'
        /\ step = "write" => Through("write")'
        /\ step = "data" => Through("data")'
        /\ step = "reset" => Through("reset")'
    BY <1>5, <1>6 DEF Through
  <1>10. Position'
    BY <1>6, <1>7, <1>8, <1>9 DEF Position
  <1>11. QED
    BY <1>1, <1>8, <1>10 DEF Answered

\* Every step of a line without faults.
LEMMA StepInStep ==
    ASSUME Core, ~ignored, Position, Answered, Next, faults = 0, faults' = 0
    PROVE  ~ignored' /\ Position' /\ Answered'
  <1>1. TypeInv /\ ~Fault
    BY DEF Core, Fault
  <1>2. CASE TargetNext
    BY <1>2, TargetInStep
  <1>3. CASE lose_frame \/ damage_frame \/ lose_byte \/ noise
    BY <1>1, <1>3 DEF lose_frame, damage_frame, lose_byte, noise
  <1>4. CASE finished
    <2>1. /\ mode' = mode /\ cur' = cur /\ ignored' = ignored /\ toTgt' = toTgt /\ pc' = pc
          /\ step' = step /\ got' = got /\ toHost' = toHost
      BY <1>4 DEF finished, vars, host, target
    <2>2. Coming("a4")' => Coming("a4")
      BY <2>1, BytesStay
    <2>3. QED
      BY <2>1, <2>2, HostInStep
  <1>5. CASE tty_read_byte \/ tty_read_timeout
    <2>1. /\ mode' = mode /\ cur' = cur /\ ignored' = ignored /\ toTgt' = toTgt /\ pc' = pc
          /\ step' = step
      BY <1>5 DEF tty_read_byte, tty_read_timeout, target
    <2>2. Coming("a4")' => Coming("a4")
      <3>1. CASE tty_read_byte
        BY <1>1, <3>1, ByteRead
      <3>2. CASE tty_read_timeout
        BY <3>2, BytesStay DEF tty_read_timeout
      <3>3. QED
        BY <1>5, <3>1, <3>2
    <2>3. QED
      BY <2>1, <2>2, HostInStep
  <1>6. CASE tty_read_error \/ file_error
    BY <1>1, <1>6 DEF tty_read_error, file_error
  <1>7. CASE target_connect_ping
    <2>1. /\ mode' = mode /\ cur' = cur /\ ignored' = ignored /\ toHost' = toHost /\ StartRead
          /\ pc = "ping" /\ Before
      BY <1>7 DEF target_connect_ping, Quiet, target, Before
    <2>2. Coming("a4")' => Coming("a4")
      BY <2>1, BytesDropped
    <2>3. CASE toTgt' = toTgt /\ pc' = "failed"
      BY <2>1, <2>2, <2>3, HostInStep
    <2>4. CASE toTgt' = Append(toTgt, cmd_ping) /\ pc' = "pong"
      <3>1. mode = "idle" /\ Pings(toTgt) /\ toTgt \in Seq(Frames)
        BY <1>1, <2>1 DEF Position, TypeInv
      <3>2. Pings(toTgt')
        BY <2>4, <3>1, PingsFacts
      <3>3. Pings(toTgt)'
        BY <3>2 DEF Pings
      <3>4. Before' /\ ~Ladder'
        BY <2>4 DEF Before, Ladder
      <3>5. QED
        BY <2>1, <2>4, <3>1, <3>3, <3>4 DEF Position, Answered
    <2>5. QED
      BY <1>1, <1>7, <2>3, <2>4 DEF target_connect_ping, tty_write
  <1>8. CASE target_connect_pong
    <2>1. /\ mode' = mode /\ cur' = cur /\ ignored' = ignored /\ toHost' = toHost /\ StartRead
          /\ toTgt' = toTgt /\ Before /\ Before'
      BY <1>8 DEF target_connect_pong, Quiet, target, Before
    <2>2. Coming("a4")' => Coming("a4")
      BY <2>1, BytesDropped
    <2>3. QED
      BY <2>1, <2>2, HostInStep
  <1>9. CASE target_flashEraseAll \/ target_sendFile_chunk \/ target_sendFile_data \/ target_reset
    BY <1>9, SentInStep
  <1>10. CASE target_ackLadder_ack \/ (target_ackLadder_resp /\ LadderFailed)
    <2>1. /\ mode' = mode /\ cur' = cur /\ ignored' = ignored /\ toHost' = toHost /\ StartRead
          /\ toTgt' = toTgt /\ step' = step /\ Ladder /\ (Ladder' \/ pc' = "failed")
      BY <1>10 DEF target_ackLadder_ack, target_ackLadder_resp, LadderFailed, Quiet, target, Ladder
    <2>2. Coming("a4")' => Coming("a4")
      BY <2>1, BytesDropped
    <2>3. QED
      BY <2>1, <2>2, HostInStep
  <1>11. CASE target_ackLadder_resp /\ ~LadderFailed
    BY <1>11, ClimbedInStep DEF target_ackLadder_resp
  <1>12. QED
    BY <1>2, <1>3, <1>4, <1>5, <1>6, <1>7, <1>8, <1>9, <1>10, <1>11 DEF Next, HostNext

\* The line without faults.
THEOREM Invariance == Spec => []Inv
  <1>1. Init => Inv
    <2>1. SUFFICES ASSUME Init PROVE StepInv
      BY CoreInit DEF Inv
    <2>2. pc = "ping" /\ mode = "idle" /\ toTgt = <<>>
      BY <2>1 DEF Init
    <2>3. ~ignored
      BY <2>1, Zenon DEF Init
    <2>4. Before /\ ~Ladder
      BY <2>2 DEF Before, Ladder
    <2>5. Pings(toTgt)
      BY <2>2 DEF Pings
    <2>6. QED
      BY <2>2, <2>3, <2>4, <2>5 DEF StepInv, Position, Answered
  <1>2. Inv /\ [Next]_vars => Inv'
    <2>1. SUFFICES ASSUME Core, StepInv, [Next]_vars PROVE StepInv'
      BY CoreStep DEF Inv
    <2>2. CASE Next
      <3>1. SUFFICES ASSUME faults' = 0 PROVE ~ignored' /\ Position' /\ Answered'
        BY DEF StepInv
      <3>2. faults = 0
        <4>1. faults \in Nat /\ (Fault => faults' = faults + 1)
          BY <2>1 DEF Fault, Core, TypeInv
        <4>2. faults' = faults \/ Fault
          BY <2>2 DEF Next, HostNext, TargetNext, tty_read_byte, tty_read_timeout, tty_read_error,
             target_connect_ping, target_connect_pong, target_flashEraseAll, target_ackLadder_ack,
             target_ackLadder_resp, target_sendFile_chunk, target_sendFile_data, file_error,
             target_reset, Send, tgt_ping, tgt_frame, tgt_respond, tgt_acked, tgt_other, lose_frame,
             damage_frame, lose_byte, noise, finished, vars, NoFault
        <4>3. QED
          BY <3>1, <4>1, <4>2
      <3>3. QED
        BY <2>1, <2>2, <3>1, <3>2, StepInStep DEF StepInv
    <2>3. CASE UNCHANGED vars
      BY <2>1, <2>3 DEF vars, host, target, StepInv, Position, Answered, Before, Ladder, Pings,
         Through, Climbing, Coming, In
    <2>4. QED
      BY <2>1, <2>2, <2>3
  <1>3. QED
    BY <1>1, <1>2, PTL DEF Spec

\* On a line without faults the target gets no frame that it does not wait for:
\* data and commands are sent only when the response before them has been
\* acknowledged (target_ackLadder).
THEOREM UploadsAreInStep == Spec => []InStep
  <1>1. Inv => InStep
    BY DEF Inv, Core, TypeInv, StepInv, InStep
  <1>2. QED
    BY <1>1, Invariance, PTL

-----------------------------------------------------------------------------
(* Why an upload fails.  On a line without faults the bytes that the host   *)
(* has read and will read are what is left of a misread answer to a ping,   *)
(* answers to pings, and the answers to the frame of the ladder.            *)

Heard == got \o toHost
Both  == <<"5a", "a1", "5a", "a4", "..">>

\* w holds one byte of a misread answer, or none (o), k answers to pings, and Y.
Line(w, o, k, Y) ==
    /\ Len(w) = o + 3 * k + Len(Y)
    /\ o = 1 => w[1] = ".."
    /\ \A i \in 0 .. k - 1 : /\ w[o + 3 * i + 1] = "5a" /\ w[o + 3 * i + 2] = "a7"
                             /\ w[o + 3 * i + 3] = ".."
    /\ \A j \in 1 .. Len(Y) : w[o + 3 * k + j] = Y[j]

\* Pings that the target has yet to answer.
Due    == IF toTgt = <<>> THEN 0 ELSE Len(toTgt) - 1
One(b) == IF b THEN 1 ELSE 0

\* How far the target is with the frame of the ladder, and what it has said.
Said(Y) ==
    \/ toTgt # <<>> /\ mode # "busy" /\ Y = <<>>
    \/ toTgt = <<>> /\ mode = "busy" /\ Y = Ack
    \/ toTgt = <<>> /\ mode = "wait" /\ Y = Both

\* A try of the erase ladder that failed took a time-out or an answer to a ping.
Climb(o, k, Y) ==
    /\ Line(Heard, o, k, Y) /\ Said(Y) /\ (o = 1 => got = <<>>)
    /\ step # "erase" => k = 0 /\ o = 0
    /\ step = "erase" => EraseTries - tries + k + Due + One(silent) <= silences + PingTries - 1

Resting == /\ pc \in {"ping", "erase"} => got = <<>> /\ ~silent
           /\ pc \in {"file", "data", "reset"} => got = <<>> /\ toHost = <<>>

Short == (pc = "pong" => Len(got) <= 3) /\ (pc = "ack" => Len(got) <= 2)

Connecting ==
    Before => /\ step = "none" /\ tries \in 0 .. PingTries /\ (silent => got = <<>>)
              /\ pc # "ping" => tries > 0
              /\ \E k \in Nat : /\ Line(Heard, 0, k, <<>>)
                                /\ k + Len(toTgt) <= PingTries - tries + One(pc = "pong")

Waiting ==
    pc = "ack" => /\ silent => got = <<>> /\ step = "erase"
                  /\ step = "erase" => tries \in 1 .. EraseTries
                  /\ toTgt # <<>> => toTgt[Len(toTgt)] # cmd_ping
                  /\ step # "erase" => ~In(toTgt, cmd_ping)
                  /\ \E o \in {0, 1}, k \in Nat, Y \in {<<>>, Ack, Both} : Climb(o, k, Y)

Replying ==
    pc = "resp" => /\ ~silent /\ toTgt = <<>>
                   /\ (mode = "busy" /\ Heard = <<>>) \/ (mode = "wait" /\ Heard = Resp)

GivenUp == pc = "failed" /\ step # "none" => EraseTries <= silences + PingTries - 1

Reasons == Short /\ Resting /\ Connecting /\ Waiting /\ Replying /\ GivenUp
ReasonInv == silences \in Nat /\ (faults = 0 /\ ~late => Reasons)

\* The bytes of a sequence in two parts of m and n bytes.
Glued(w, g, t, m, n) ==
    /\ w \in Seq(ByteSet) /\ m \in Nat /\ n \in Nat /\ Len(w) = m + n
    /\ \A i \in 1 .. m : w[i] = g[i]
    /\ \A i \in 1 .. n : w[m + i] = t[i]

\* Two sequences one behind the other.
LEMMA Parts ==
    ASSUME NEW g \in Seq(ByteSet), NEW t \in Seq(ByteSet), NEW w, w = g \o t,
           NEW m, m = Len(g), NEW n, n = Len(t)
    PROVE  Glued(w, g, t, m, n)
  <1>1. /\ w \in Seq(ByteSet) /\ m \in Nat /\ n \in Nat /\ Len(w) = m + n
        /\ \A i \in 1 .. m + n : w[i] = IF i <= m THEN g[i] ELSE t[i - m]
    BY ConcatProperties, LenProperties
  <1>2. \A i \in 1 .. m : w[i] = g[i]
    BY <1>1
  <1>3. ASSUME NEW i \in 1 .. n PROVE w[m + i] = t[i]
    <2>1. m + i \in 1 .. m + n /\ ~(m + i <= m) /\ (m + i) - m = i
      BY <1>1
    <2>2. QED
      BY <1>1, <2>1
  <1>4. QED
    BY <1>1, <1>2, <1>3 DEF Glued

\* The answers.
LEMMA Bytes ==
    /\ Ack \in Seq(ByteSet) /\ Len(Ack) = 2 /\ Ack[1] = "5a" /\ Ack[2] = "a1"
    /\ Resp \in Seq(ByteSet) /\ Len(Resp) = 3 /\ Resp[1] = "5a" /\ Resp[2] = "a4" /\ Resp[3] = ".."
    /\ Pong \in Seq(ByteSet) /\ Len(Pong) = 3 /\ Pong[1] = "5a" /\ Pong[2] = "a7" /\ Pong[3] = ".."
    /\ Both \in Seq(ByteSet) /\ Len(Both) = 5 /\ Both[1] = "5a" /\ Both[2] = "a1"
    /\ Both[3] = "5a" /\ Both[4] = "a4" /\ Both[5] = ".."
    /\ <<>> \in Seq(ByteSet) /\ Len(<<>>) = 0
  <1>1. Len(Ack) = 2 /\ Ack[1] = "5a" /\ Ack[2] = "a1"
    BY DEF Ack
  <1>2. Len(Resp) = 3 /\ Resp[1] = "5a" /\ Resp[2] = "a4" /\ Resp[3] = ".."
    BY DEF Resp
  <1>3. Len(Pong) = 3 /\ Pong[1] = "5a" /\ Pong[2] = "a7" /\ Pong[3] = ".."
    BY DEF Pong
  <1>4. Len(Both) = 5 /\ Both[1] = "5a" /\ Both[2] = "a1" /\ Both[3] = "5a" /\ Both[4] = "a4" /\ Both[5] = ".."
    BY DEF Both
  <1>5. Both \in Seq(ByteSet)
    BY DEF Both, ByteSet
  <1>6. QED
    BY <1>1, <1>2, <1>3, <1>4, <1>5, AnswerFacts

\* An answer to a ping comes behind others.
LEMMA PongSaid ==
    ASSUME NEW w \in Seq(ByteSet), NEW o \in {0, 1}, NEW k \in Nat, Line(w, o, k, <<>>),
           NEW v, v = w \o Pong
    PROVE  Line(v, o, k + 1, <<>>)
  <1>a. PICK n : n = Len(w)
    OBVIOUS
  <1>1. n \in Nat /\ n = o + 3 * k /\ (o = 1 => w[1] = "..")
    BY <1>a, Bytes, LenProperties DEF Line
  <1>2. /\ Len(v) = n + 3 /\ \A i \in 1 .. n : v[i] = w[i]
        /\ v[n + 1] = "5a" /\ v[n + 2] = "a7" /\ v[n + 3] = ".."
    <2>a. PICK x, m : x = Pong /\ m = Len(x)
      OBVIOUS
    <2>1. x \in Seq(ByteSet) /\ m = 3 /\ x[1] = "5a" /\ x[2] = "a7" /\ x[3] = ".." /\ v = w \o x
      BY <2>a, Bytes
    <2>2. Glued(v, w, x, n, m)
      BY <1>a, <2>1, <2>a, Parts
    <2>3. 1 \in 1 .. m /\ 2 \in 1 .. m /\ 3 \in 1 .. m
      BY <2>1
    <2>4. QED
      BY <2>1, <2>2, <2>3 DEF Glued
  <1>3. o = 1 => v[1] = ".."
    BY <1>1, <1>2
  <1>4. ASSUME NEW i \in 0 .. k
        PROVE  v[o + 3 * i + 1] = "5a" /\ v[o + 3 * i + 2] = "a7" /\ v[o + 3 * i + 3] = ".."
    <2>1. CASE i = k
      BY <1>1, <1>2, <2>1
    <2>2. CASE i \in 0 .. k - 1
      <3>1. w[o + 3 * i + 1] = "5a" /\ w[o + 3 * i + 2] = "a7" /\ w[o + 3 * i + 3] = ".."
        BY <2>2 DEF Line
      <3>2. o + 3 * i + 1 \in 1 .. n /\ o + 3 * i + 2 \in 1 .. n /\ o + 3 * i + 3 \in 1 .. n
        BY <1>1, <2>2
      <3>3. QED
        BY <1>2, <3>1, <3>2
    <2>3. i = k \/ i \in 0 .. k - 1
      OBVIOUS
    <2>4. QED
      BY <2>1, <2>2, <2>3
  <1>5. Len(v) = o + 3 * (k + 1) + Len(<<>>)
    BY <1>1, <1>2, Bytes
  <1>6. \A i \in 0 .. (k + 1) - 1 :
           v[o + 3 * i + 1] = "5a" /\ v[o + 3 * i + 2] = "a7" /\ v[o + 3 * i + 3] = ".."
    <2>1. (k + 1) - 1 = k
      OBVIOUS
    <2>2. QED
      BY <1>4, <2>1
  <1>7. \A j \in 1 .. Len(<<>>) : v[o + 3 * (k + 1) + j] = <<>>[j]
    BY Bytes
  <1>8. QED
    BY <1>3, <1>5, <1>6, <1>7 DEF Line

\* The answers to a frame come behind those to pings, one after the other.
LEMMA AckSaid ==
    ASSUME NEW w \in Seq(ByteSet), NEW o \in {0, 1}, NEW k \in Nat, Line(w, o, k, <<>>),
           NEW v, v = w \o Ack
    PROVE  Line(v, o, k, Ack)
  <1>a. PICK n, x, m : n = Len(w) /\ x = Ack /\ m = Len(x)
    OBVIOUS
  <1>1. n \in Nat /\ n = o + 3 * k /\ (o = 1 => w[1] = "..") /\ x \in Seq(ByteSet) /\ v = w \o x
    BY <1>a, Bytes, LenProperties DEF Line
  <1>2. Glued(v, w, x, n, m)
    BY <1>1, <1>a, Parts
  <1>3. o = 1 => v[1] = ".."
    <2>1. o = 1 => 1 \in 1 .. n
      BY <1>1
    <2>2. QED
      BY <1>1, <1>2, <2>1 DEF Glued
  <1>4. ASSUME NEW i \in 0 .. k - 1
        PROVE  v[o + 3 * i + 1] = "5a" /\ v[o + 3 * i + 2] = "a7" /\ v[o + 3 * i + 3] = ".."
    <2>1. w[o + 3 * i + 1] = "5a" /\ w[o + 3 * i + 2] = "a7" /\ w[o + 3 * i + 3] = ".."
      BY DEF Line
    <2>2. o + 3 * i + 1 \in 1 .. n /\ o + 3 * i + 2 \in 1 .. n /\ o + 3 * i + 3 \in 1 .. n
      BY <1>1
    <2>3. QED
      BY <1>2, <2>1, <2>2 DEF Glued
  <1>5. Len(v) = o + 3 * k + m /\ \A j \in 1 .. m : v[o + 3 * k + j] = x[j]
    BY <1>1, <1>2 DEF Glued
  <1>6. Line(v, o, k, x)
    BY <1>a, <1>3, <1>4, <1>5 DEF Line
  <1>7. QED
    BY <1>6, <1>a

\* The response comes behind the acknowledgement.
LEMMA RespSaid ==
    ASSUME NEW w \in Seq(ByteSet), NEW o \in {0, 1}, NEW k \in Nat, Line(w, o, k, Ack),
           NEW v, v = w \o Resp
    PROVE  Line(v, o, k, Both)
  <1>a. PICK n, x, m, a, b : n = Len(w) /\ x = Resp /\ m = Len(x) /\ a = Ack /\ b = Both
    OBVIOUS
  <1>1. /\ n \in Nat /\ n = o + 3 * k + 2 /\ (o = 1 => w[1] = "..")
        /\ x \in Seq(ByteSet) /\ v = w \o x /\ m = 3
        /\ x[1] = "5a" /\ x[2] = "a4" /\ x[3] = ".."
    BY <1>a, Bytes, LenProperties DEF Line
  <1>2. Glued(v, w, x, n, m)
    BY <1>1, <1>a, Parts
  <1>3. o = 1 => v[1] = ".."
    <2>1. o = 1 => 1 \in 1 .. n
      BY <1>1
    <2>2. QED
      BY <1>1, <1>2, <2>1 DEF Glued
  <1>4. ASSUME NEW i \in 0 .. k - 1
        PROVE  v[o + 3 * i + 1] = "5a" /\ v[o + 3 * i + 2] = "a7" /\ v[o + 3 * i + 3] = ".."
    <2>1. w[o + 3 * i + 1] = "5a" /\ w[o + 3 * i + 2] = "a7" /\ w[o + 3 * i + 3] = ".."
      BY DEF Line
    <2>2. o + 3 * i + 1 \in 1 .. n /\ o + 3 * i + 2 \in 1 .. n /\ o + 3 * i + 3 \in 1 .. n
      BY <1>1
    <2>3. QED
      BY <1>2, <2>1, <2>2 DEF Glued
  <1>5. w[o + 3 * k + 1] = "5a" /\ w[o + 3 * k + 2] = "a1"
    <2>1. /\ \A j \in 1 .. Len(a) : w[o + 3 * k + j] = a[j]
          /\ Len(a) = 2 /\ a[1] = "5a" /\ a[2] = "a1"
      BY <1>a, Bytes DEF Line
    <2>2. 1 \in 1 .. Len(a) /\ 2 \in 1 .. Len(a)
      BY <2>1
    <2>3. QED
      BY <2>1, <2>2
  <1>6. /\ v[o + 3 * k + 1] = "5a" /\ v[o + 3 * k + 2] = "a1"
        /\ v[n + 1] = "5a" /\ v[n + 2] = "a4" /\ v[n + 3] = ".." /\ Len(v) = n + 3
    <2>1. o + 3 * k + 1 \in 1 .. n /\ o + 3 * k + 2 \in 1 .. n /\ 1 \in 1 .. m /\ 2 \in 1 .. m /\ 3 \in 1 .. m
      BY <1>1
    <2>2. QED
      BY <1>1, <1>2, <1>5, <2>1 DEF Glued
  <1>7. Len(b) = 5 /\ b[1] = "5a" /\ b[2] = "a1" /\ b[3] = "5a" /\ b[4] = "a4" /\ b[5] = ".."
    BY <1>a, Bytes
  <1>8. Len(v) = o + 3 * k + Len(b)
    BY <1>1, <1>6, <1>7
  <1>9. ASSUME NEW j \in 1 .. Len(b) PROVE v[o + 3 * k + j] = b[j]
    <2>1. j = 1 \/ j = 2 \/ j = 3 \/ j = 4 \/ j = 5
      BY <1>7
    <2>2. /\ o + 3 * k + 3 = n + 1 /\ o + 3 * k + 4 = n + 2 /\ o + 3 * k + 5 = n + 3
      BY <1>1
    <2>3. QED
      BY <1>6, <1>7, <2>1, <2>2
  <1>10. Line(v, o, k, b)
    BY <1>3, <1>4, <1>8, <1>9 DEF Line
  <1>11. QED
    BY <1>10, <1>a

\* A read of three bytes takes an answer to a ping,
LEMMA PongRead ==
    ASSUME NEW g \in Seq(ByteSet), NEW t \in Seq(ByteSet), NEW w, w = g \o t, Len(g) = 3,
           NEW k \in Nat, Line(w, 0, k, <<>>)
    PROVE  /\ g[1] = "5a" /\ g[2] = "a7" /\ k - 1 \in Nat /\ Line(t, 0, k - 1, <<>>)
  <1>a. PICK n : n = Len(t)
    OBVIOUS
  <1>1. Glued(w, g, t, 3, n)
    BY <1>a, Parts
  <1>2. n \in Nat /\ 3 + n = 3 * k
    BY <1>1, Bytes DEF Glued, Line
  <1>3. k - 1 \in Nat /\ k >= 1 /\ n = 3 * (k - 1)
    BY <1>2
  <1>4. g[1] = "5a" /\ g[2] = "a7"
    <2>1. w[1] = g[1] /\ w[2] = g[2]
      BY <1>1 DEF Glued
    <2>2. 0 \in 0 .. k - 1 /\ 0 + 3 * 0 + 1 = 1 /\ 0 + 3 * 0 + 2 = 2
      BY <1>3
    <2>3. w[1] = "5a" /\ w[2] = "a7"
      BY <2>2 DEF Line
    <2>4. QED
      BY <2>1, <2>3
  <1>5. ASSUME NEW i \in 0 .. (k - 1) - 1
        PROVE  t[0 + 3 * i + 1] = "5a" /\ t[0 + 3 * i + 2] = "a7" /\ t[0 + 3 * i + 3] = ".."
    <2>1. i + 1 \in 0 .. k - 1
      BY <1>3
    <2>2. w[0 + 3 * (i + 1) + 1] = "5a" /\ w[0 + 3 * (i + 1) + 2] = "a7" /\ w[0 + 3 * (i + 1) + 3] = ".."
      BY <2>1 DEF Line
    <2>3. /\ 3 * i + 1 \in 1 .. n /\ 3 * i + 2 \in 1 .. n /\ 3 * i + 3 \in 1 .. n
          /\ 0 + 3 * (i + 1) + 1 = 3 + (3 * i + 1) /\ 0 + 3 * (i + 1) + 2 = 3 + (3 * i + 2)
          /\ 0 + 3 * (i + 1) + 3 = 3 + (3 * i + 3)
          /\ 0 + 3 * i + 1 = 3 * i + 1 /\ 0 + 3 * i + 2 = 3 * i + 2 /\ 0 + 3 * i + 3 = 3 * i + 3
      BY <1>3
    <2>4. t[3 * i + 1] = "5a" /\ t[3 * i + 2] = "a7" /\ t[3 * i + 3] = ".."
      BY <1>1, <2>2, <2>3 DEF Glued
    <2>5. QED
      BY <2>3, <2>4
  <1>6. Len(t) = 0 + 3 * (k - 1) + Len(<<>>)
    BY <1>2, <1>3, <1>a, Bytes
  <1>7. QED
    BY <1>3, <1>4, <1>5, <1>6, Bytes DEF Line

\* and one of two bytes the first two of it.
LEMMA PongMisread ==
    ASSUME NEW g \in Seq(ByteSet), NEW t \in Seq(ByteSet), NEW w, w = g \o t, Len(g) = 2,
           NEW k \in Nat, k > 0, NEW Y \in Seq(ByteSet), Line(w, 0, k, Y)
    PROVE  /\ g[1] = "5a" /\ g[2] = "a7" /\ k - 1 \in Nat /\ Line(t, 1, k - 1, Y)
  <1>a. PICK n, m : n = Len(t) /\ m = Len(Y)
    OBVIOUS
  <1>1. Glued(w, g, t, 2, n)
    BY <1>a, Parts
  <1>2. n \in Nat /\ m \in Nat /\ 2 + n = 3 * k + m
    BY <1>1, <1>a, LenProperties DEF Glued, Line
  <1>3. k - 1 \in Nat /\ n = 1 + 3 * (k - 1) + m
    BY <1>2
  <1>4. g[1] = "5a" /\ g[2] = "a7" /\ t[1] = ".."
    <2>1. w[1] = g[1] /\ w[2] = g[2] /\ w[2 + 1] = t[1]
      <3>1. 1 \in 1 .. n /\ 1 \in 1 .. 2 /\ 2 \in 1 .. 2
        BY <1>2
      <3>2. QED
        BY <1>1, <3>1 DEF Glued
    <2>2. 0 \in 0 .. k - 1 /\ 0 + 3 * 0 + 1 = 1 /\ 0 + 3 * 0 + 2 = 2 /\ 0 + 3 * 0 + 3 = 2 + 1
      BY <1>3
    <2>3. w[1] = "5a" /\ w[2] = "a7" /\ w[2 + 1] = ".."
      BY <2>2 DEF Line
    <2>4. QED
      BY <2>1, <2>3
  <1>5. ASSUME NEW i \in 0 .. (k - 1) - 1
        PROVE  t[1 + 3 * i + 1] = "5a" /\ t[1 + 3 * i + 2] = "a7" /\ t[1 + 3 * i + 3] = ".."
    <2>1. i + 1 \in 0 .. k - 1
      BY <1>3
    <2>2. w[0 + 3 * (i + 1) + 1] = "5a" /\ w[0 + 3 * (i + 1) + 2] = "a7" /\ w[0 + 3 * (i + 1) + 3] = ".."
      BY <2>1 DEF Line
    <2>3. /\ 1 + 3 * i + 1 \in 1 .. n /\ 1 + 3 * i + 2 \in 1 .. n /\ 1 + 3 * i + 3 \in 1 .. n
          /\ 0 + 3 * (i + 1) + 1 = 2 + (1 + 3 * i + 1) /\ 0 + 3 * (i + 1) + 2 = 2 + (1 + 3 * i + 2)
          /\ 0 + 3 * (i + 1) + 3 = 2 + (1 + 3 * i + 3)
      BY <1>2, <1>3
    <2>4. QED
      BY <1>1, <2>2, <2>3 DEF Glued
  <1>6. ASSUME NEW j \in 1 .. m PROVE t[1 + 3 * (k - 1) + j] = Y[j]
    <2>1. w[0 + 3 * k + j] = Y[j]
      BY <1>a DEF Line
    <2>2. 0 + 3 * k + j = 2 + (1 + 3 * (k - 1) + j) /\ 1 + 3 * (k - 1) + j \in 1 .. n
      BY <1>2, <1>3
    <2>3. QED
      BY <1>1, <2>1, <2>2 DEF Glued
  <1>7. QED
    BY <1>3, <1>4, <1>5, <1>6, <1>a DEF Line

\* The last byte of a misread answer is passed over.
LEMMA ByteSkipped ==
    ASSUME NEW w \in Seq(ByteSet), NEW k \in Nat, NEW Y \in Seq(ByteSet), Line(w, 1, k, Y)
    PROVE  w # <<>> /\ w[1] = ".." /\ Line(Tail(w), 0, k, Y)
  <1>a. PICK t, m, n : t = Tail(w) /\ m = Len(Y) /\ n = 3 * k + m
    OBVIOUS
  <1>1. m \in Nat /\ n \in Nat /\ Len(w) = 1 + n /\ w[1] = ".."
    BY <1>a, LenProperties DEF Line
  <1>2. w # <<>>
    BY <1>1, Bytes
  <1>3. Len(t) = n /\ \A i \in 1 .. n : t[i] = w[i + 1]
    <2>1. Len(t) = Len(w) - 1 /\ \A i \in 1 .. Len(t) : t[i] = w[i + 1]
      BY <1>2, <1>a, HeadTailProperties
    <2>2. Len(t) = n
      BY <1>1, <2>1
    <2>3. QED
      BY <2>1, <2>2
  <1>4. ASSUME NEW i \in 0 .. k - 1
        PROVE  t[0 + 3 * i + 1] = "5a" /\ t[0 + 3 * i + 2] = "a7" /\ t[0 + 3 * i + 3] = ".."
    <2>1. w[1 + 3 * i + 1] = "5a" /\ w[1 + 3 * i + 2] = "a7" /\ w[1 + 3 * i + 3] = ".."
      BY DEF Line
    <2>2. /\ 0 + 3 * i + 1 \in 1 .. n /\ 0 + 3 * i + 2 \in 1 .. n /\ 0 + 3 * i + 3 \in 1 .. n
          /\ 1 + 3 * i + 1 = (0 + 3 * i + 1) + 1 /\ 1 + 3 * i + 2 = (0 + 3 * i + 2) + 1
          /\ 1 + 3 * i + 3 = (0 + 3 * i + 3) + 1
      BY <1>1, <1>a
    <2>3. QED
      BY <1>3, <2>1, <2>2
  <1>5. ASSUME NEW j \in 1 .. m PROVE t[0 + 3 * k + j] = Y[j]
    <2>1. w[1 + 3 * k + j] = Y[j]
      BY <1>a DEF Line
    <2>2. 1 + 3 * k + j = (0 + 3 * k + j) + 1 /\ 0 + 3 * k + j \in 1 .. n
      BY <1>1, <1>a
    <2>3. QED
      BY <1>3, <2>1, <2>2
  <1>6. Len(t) = 0 + 3 * k + m
    BY <1>1, <1>3, <1>a
  <1>7. QED
    BY <1>1, <1>2, <1>4, <1>5, <1>6, <1>a DEF Line

\* What is in place begins with a start byte, and is no single byte.
LEMMA InPlace ==
    ASSUME NEW w \in Seq(ByteSet), NEW k \in Nat, NEW Y \in {<<>>, Ack, Both}, Line(w, 0, k, Y), w # <<>>
    PROVE  w[1] = "5a" /\ Len(w) >= 2 /\ (k > 0 => Len(w) >= 3)
  <1>a. PICK m, n : m = Len(Y) /\ n = Len(w)
    OBVIOUS
  <1>1. n \in Nat /\ n # 0 /\ n = 3 * k + m
    BY <1>a, EmptySeq, LenProperties DEF Line
  <1>2. (m = 0) \/ (m >= 2 /\ m \in Nat /\ Y[1] = "5a")
    <2>1. CASE Y = <<>>
      BY <2>1, <1>a, Bytes
    <2>2. CASE Y = Ack
      <3>1. m = 2 /\ Y[1] = "5a"
        BY <2>2, <1>a, Bytes
      <3>2. QED
        BY <3>1
    <2>3. CASE Y = Both
      <3>1. m = 5 /\ Y[1] = "5a"
        BY <2>3, <1>a, Bytes
      <3>2. QED
        BY <3>1
    <2>4. QED
      BY <2>1, <2>2, <2>3
  <1>3. CASE k > 0
    <2>1. 0 \in 0 .. k - 1 /\ 0 + 3 * 0 + 1 = 1
      BY <1>3
    <2>2. w[1] = "5a"
      BY <2>1 DEF Line
    <2>3. n >= 3
      BY <1>1, <1>2, <1>3
    <2>4. QED
      BY <2>2, <2>3, <1>a, <1>1
  <1>4. CASE k = 0
    <2>1. m >= 2 /\ m \in Nat /\ Y[1] = "5a" /\ n = m
      BY <1>1, <1>2, <1>4
    <2>2. 1 \in 1 .. m /\ 0 + 3 * k + 1 = 1
      BY <2>1, <1>4
    <2>3. w[1] = "5a"
      BY <2>1, <2>2, <1>a DEF Line
    <2>4. QED
      BY <2>1, <2>3, <1>4, <1>a
  <1>5. QED
    BY <1>3, <1>4

\* A read of two bytes takes the acknowledgement when no answer to a ping is left.
LEMMA AckRead ==
    ASSUME NEW g \in Seq(ByteSet), NEW t \in Seq(ByteSet), NEW w, w = g \o t, Len(g) = 2,
           NEW Y \in {<<>>, Ack, Both}, Line(w, 0, 0, Y)
    PROVE  /\ g[1] = "5a" /\ g[2] = "a1" /\ Y # <<>>
           /\ (Y = Ack /\ t = <<>>) \/ (Y = Both /\ t = Resp)
  <1>a. PICK n, m : n = Len(t) /\ m = Len(Y)
    OBVIOUS
  <1>1. Glued(w, g, t, 2, n)
    BY <1>a, Parts
  <1>2. n \in Nat /\ 2 + n = m
    <2>1. Len(w) = 0 + 3 * 0 + m /\ Len(w) = 2 + n /\ n \in Nat
      BY <1>1, <1>a DEF Line, Glued
    <2>2. m \in Nat
      BY <1>a, Bytes
    <2>3. QED
      BY <2>1, <2>2
  <1>3. \A j \in 1 .. m : w[j] = Y[j]
    <2>1. \A j \in 1 .. m : w[0 + 3 * 0 + j] = Y[j]
      BY <1>a DEF Line
    <2>2. \A j \in 1 .. m : 0 + 3 * 0 + j = j
      OBVIOUS
    <2>3. QED
      BY <2>1, <2>2
  <1>4. Y # <<>>
    BY <1>2, <1>a, Bytes
  <1>5. g[1] = "5a" /\ g[2] = "a1"
    <2>1. w[1] = g[1] /\ w[2] = g[2]
      BY <1>1 DEF Glued
    <2>2. 1 \in 1 .. m /\ 2 \in 1 .. m
      BY <1>2
    <2>3. Y[1] = "5a" /\ Y[2] = "a1"
      BY <1>4, Bytes
    <2>4. QED
      BY <1>3, <2>1, <2>2, <2>3
  <1>6. CASE Y = Ack
    <2>1. m = 2
      BY <1>6, <1>a, Bytes
    <2>2. n = 0
      BY <1>2, <2>1
    <2>3. t = <<>>
      BY <2>2, <1>a, EmptySeq
    <2>4. QED
      BY <1>4, <1>5, <1>6, <2>3
  <1>7. CASE Y = Both
    <2>1. m = 5 /\ Y[3] = "5a" /\ Y[4] = "a4" /\ Y[5] = ".."
      BY <1>7, <1>a, Bytes
    <2>2. n = 3
      BY <1>2, <2>1
    <2>3. w[2 + 1] = t[1] /\ w[2 + 2] = t[2] /\ w[2 + 3] = t[3]
      BY <1>1, <2>2 DEF Glued
    <2>4. w[3] = Y[3] /\ w[4] = Y[4] /\ w[5] = Y[5]
      <3>1. 3 \in 1 .. m /\ 4 \in 1 .. m /\ 5 \in 1 .. m
        BY <2>1
      <3>2. QED
        BY <1>3, <3>1
    <2>5. 2 + 1 = 3 /\ 2 + 2 = 4 /\ 2 + 3 = 5
      OBVIOUS
    <2>6. t[1] = "5a" /\ t[2] = "a4" /\ t[3] = ".."
      BY <2>1, <2>3, <2>4, <2>5
    <2>b. PICK r : r = Resp
      OBVIOUS
    <2>7. r \in Seq(ByteSet) /\ Len(r) = 3 /\ r[1] = "5a" /\ r[2] = "a4" /\ r[3] = ".."
      BY <2>b, Bytes
    <2>8. \A i \in 1 .. 3 : t[i] = r[i]
      BY <2>6, <2>7
    <2>9. t = r
      BY <2>2, <2>7, <2>8, <1>a, SeqEqual
    <2>10. QED
      BY <1>4, <1>5, <1>7, <2>9, <2>b
  <1>8. QED
    BY <1>4, <1>6, <1>7

\* What the host has heard, when one part of it is empty.
LEMMA HeardFacts ==
    ASSUME TypeInv
    PROVE  /\ Heard \in Seq(ByteSet) /\ got \in Seq(ByteSet) /\ toHost \in Seq(ByteSet)
           /\ (got = <<>> => Heard = toHost) /\ (toHost = <<>> => Heard = got)
  <1>1. got \in Seq(ByteSet) /\ toHost \in Seq(ByteSet)
    BY DEF TypeInv
  <1>2. QED
    BY <1>1, ConcatProperties, ConcatEmptySeq DEF Heard

\* Three sequences one behind the other.
LEMMA Joined ==
    ASSUME NEW a \in Seq(ByteSet), NEW b \in Seq(ByteSet), NEW c \in Seq(ByteSet)
    PROVE  (a \o b) \o c = a \o (b \o c)
  BY ConcatAssociative

\* Reading a byte changes nothing of what is heard.
LEMMA Moved ==
    ASSUME NEW g \in Seq(ByteSet), NEW t \in Seq(ByteSet), t # <<>>
    PROVE  Append(g, Head(t)) \o Tail(t) = g \o t
  <1>a. PICK h, r : h = Head(t) /\ r = Tail(t)
    OBVIOUS
  <1>1. h \in ByteSet /\ r \in Seq(ByteSet)
    BY <1>a, HeadTailProperties
  <1>b. PICK s : s = <<h>>
    OBVIOUS
  <1>2. s \in Seq(ByteSet) /\ Append(g, h) = g \o s
    BY <1>1, <1>b, AppendIsConcat
  <1>3. s \o r = t
    <2>a. PICK u, m, n : u = s \o r /\ m = Len(s) /\ n = Len(r)
      OBVIOUS
    <2>1. Glued(u, s, r, m, n)
      BY <1>1, <1>2, <2>a, Parts
    <2>2. m = 1 /\ s[1] = h
      BY <1>b, <2>a
    <2>3. n = Len(t) - 1 /\ Len(t) \in Nat /\ \A i \in 1 .. n : r[i] = t[i + 1]
      BY <1>a, <2>a, HeadTailProperties, LenProperties
    <2>4. h = t[1]
      BY <1>a
    <2>5. Len(u) = Len(t) /\ u \in Seq(ByteSet)
      BY <2>1, <2>2, <2>3 DEF Glued
    <2>6. ASSUME NEW i \in 1 .. Len(u) PROVE u[i] = t[i]
      <3>1. CASE i = 1
        <4>1. u[1] = s[1]
          BY <2>1, <2>2 DEF Glued
        <4>2. QED
          BY <3>1, <4>1, <2>2, <2>4
      <3>2. CASE i # 1
        <4>1. i - 1 \in 1 .. n /\ 1 + (i - 1) = i /\ (i - 1) + 1 = i
          BY <2>3, <2>5, <3>2
        <4>2. u[1 + (i - 1)] = r[i - 1]
          BY <4>1, <2>1, <2>2 DEF Glued
        <4>3. r[i - 1] = t[(i - 1) + 1]
          BY <4>1, <2>3
        <4>4. QED
          BY <4>1, <4>2, <4>3
      <3>3. QED
        BY <3>1, <3>2
    <2>7. QED
      BY <2>5, <2>6, <2>a, SeqEqual
  <1>4. (g \o s) \o r = g \o (s \o r)
    BY <1>1, <1>2, Joined
  <1>5. QED
    BY <1>2, <1>3, <1>4, <1>a

\* The host reads a byte.
LEMMA ReadReasons ==
    ASSUME TypeInv, Reasons, tty_read_byte
    PROVE  Reasons'
  <1>1. /\ pc \in {"pong", "ack", "resp"} /\ ~silent /\ toHost # <<>> /\ toHost' = Tail(toHost)
        /\ got' = IF got = <<>> /\ Head(toHost) # "5a" THEN got ELSE Append(got, Head(toHost))
        /\ pc' = pc /\ step' = step /\ tries' = tries /\ silent' = silent /\ toTgt' = toTgt
        /\ mode' = mode /\ silences' = silences
    BY DEF tty_read_byte, Reading, Over, target, record
  <1>2. Heard \in Seq(ByteSet) /\ toHost \in Seq(ByteSet) /\ got \in Seq(ByteSet) /\ (got = <<>> => Heard = toHost)
    BY HeardFacts
  <1>3. Head(toHost) = toHost[1]
    BY <1>1
  <1>s. Short'
    <2>a. PICK n : n = Len(got)
      OBVIOUS
    <2>1. n \in Nat /\ (pc = "pong" => n <= 3 /\ n # 3) /\ (pc = "ack" => n <= 2 /\ n # 2)
      BY <1>2, <2>a, Bytes, LenProperties DEF Reasons, Short, tty_read_byte, Over, Reading, Want
    <2>2. Len(got') = n \/ Len(got') = n + 1
      BY <1>1, <1>2, <2>a, HeadTailProperties, AppendProperties
    <2>3. QED
      BY <1>1, <2>1, <2>2 DEF Short
  <1>4. CASE got = <<>> /\ Head(toHost) # "5a"
    <2>1. Heard = toHost /\ Heard # <<>> /\ Heard[1] # "5a" /\ got' = got /\ Heard' = Tail(Heard)
      <3>1. Heard' = got' \o toHost' /\ got' = <<>> /\ Tail(toHost) \in Seq(ByteSet)
        BY <1>1, <1>2, <1>4, HeadTailProperties DEF Heard
      <3>2. QED
        BY <1>1, <1>2, <1>3, <1>4, <3>1, ConcatEmptySeq
    <2>2. CASE pc = "pong"
      <3>1. PICK k \in Nat : Line(Heard, 0, k, <<>>)
        BY <2>2 DEF Reasons, Connecting, Before
      <3>2. Heard[1] = "5a"
        BY <1>2, <2>1, <3>1, InPlace
      <3>3. QED
        BY <2>1, <3>2
    <2>3. CASE pc = "resp"
      <3>1. Heard = Resp
        BY <2>1, <2>3 DEF Reasons, Replying
      <3>2. QED
        BY <2>1, <3>1, Bytes
    <2>4. CASE pc = "ack"
      <3>1. PICK o \in {0, 1}, k \in Nat, Y \in {<<>>, Ack, Both} : Climb(o, k, Y)
        BY <2>4 DEF Reasons, Waiting
      <3>2. o # 0
        <4>1. o = 0 => Heard[1] = "5a"
          BY <1>2, <2>1, <3>1, InPlace DEF Climb
        <4>2. QED
          BY <2>1, <4>1
      <3>3. o = 1 /\ Y \in Seq(ByteSet)
        BY <3>2, Bytes
      <3>4. Line(Heard', 0, k, Y)
        BY <1>2, <2>1, <3>1, <3>3, ByteSkipped DEF Climb
      <3>5. Climb(0, k, Y)'
        BY <1>1, <3>1, <3>3, <3>4 DEF Climb, Said, Due
      <3>6. Waiting'
        BY <1>1, <2>1, <2>4, <3>5 DEF Reasons, Waiting, In
      <3>7. QED
        BY <1>1, <1>s, <2>4, <3>6 DEF Reasons, Resting, Connecting, Before, Replying, GivenUp
    <2>5. QED
      BY <1>1, <2>2, <2>3, <2>4
  <1>5. CASE ~(got = <<>> /\ Head(toHost) # "5a")
    <2>1. Heard' = Heard
      <3>1. got' = Append(got, Head(toHost))
        BY <1>1, <1>5
      <3>2. Heard' = Append(got, Head(toHost)) \o Tail(toHost)
        BY <1>1, <3>1 DEF Heard
      <3>3. QED
        BY <1>1, <1>2, <3>2, Moved DEF Heard
    <2>2. CASE pc = "pong"
      <3>1. Connecting'
        BY <1>1, <2>1, <2>2 DEF Reasons, Connecting, Before
      <3>2. QED
        BY <1>1, <1>s, <2>2, <3>1 DEF Reasons, Resting, Waiting, Replying, GivenUp
    <2>3. CASE pc = "resp"
      BY <1>1, <1>s, <2>1, <2>3 DEF Reasons, Resting, Connecting, Before, Waiting, Replying, GivenUp
    <2>4. CASE pc = "ack"
      <3>1. PICK o \in {0, 1}, k \in Nat, Y \in {<<>>, Ack, Both} : Climb(o, k, Y)
        BY <2>4 DEF Reasons, Waiting
      <3>2. o = 0
        <4>1. ASSUME o = 1 PROVE FALSE
          <5>1. got = <<>> /\ Line(Heard, 1, k, Y) /\ Y \in Seq(ByteSet)
            BY <3>1, <4>1, Bytes DEF Climb
          <5>2. Heard[1] = ".."
            BY <1>2, <5>1, ByteSkipped
          <5>3. QED
            BY <1>2, <1>3, <1>5, <5>1, <5>2
        <4>2. QED
          BY <4>1
      <3>3. Climb(0, k, Y)'
        BY <1>1, <2>1, <3>1, <3>2 DEF Climb, Said, Due
      <3>4. Waiting'
        BY <1>1, <2>4, <3>3 DEF Reasons, Waiting, In
      <3>5. QED
        BY <1>1, <1>s, <2>4, <3>4 DEF Reasons, Resting, Connecting, Before, Replying, GivenUp
    <2>5. QED
      BY <1>1, <2>2, <2>3, <2>4
  <1>6. QED
    BY <1>4, <1>5

\* The host has waited for a second.
LEMMA TimeoutReasons ==
    ASSUME TypeInv, Reasons, silences \in Nat, tty_read_timeout, ~late'
    PROVE  Reasons'
  <1>1. /\ pc \in {"pong", "ack", "resp"} /\ ~silent /\ toHost = <<>> /\ silent' = TRUE
        /\ pc # "resp" /\ (pc = "ack" => step = "erase")
        /\ pc' = pc /\ step' = step /\ tries' = tries /\ toTgt' = toTgt /\ got' = got
        /\ mode' = mode /\ toHost' = toHost
        /\ silences' = silences + (IF pc = "ack" /\ step = "erase" THEN 1 ELSE 0)
    BY DEF tty_read_timeout, Reading, Over, target
  <1>2. Heard \in Seq(ByteSet) /\ Heard = got /\ Heard' = Heard /\ Len(got) # Want
    BY <1>1, HeardFacts DEF Heard, tty_read_timeout, Reading, Over
  <1>a. PICK n : n = Len(got)
    OBVIOUS
  <1>3. n \in Nat
    BY <1>a, LenProperties DEF TypeInv
  <1>4. CASE pc = "pong"
    <2>1. PICK k \in Nat : Line(Heard, 0, k, <<>>) /\ k + Len(toTgt) <= PingTries - tries + One(pc = "pong")
      BY <1>4 DEF Reasons, Connecting, Before
    <2>2. got = <<>>
      <3> SUFFICES ASSUME got # <<>> PROVE FALSE
        OBVIOUS
      <3>1. n = 3 * k
        BY <1>2, <1>a, <2>1, Bytes DEF Line
      <3>2. n # 0
        BY <1>a, EmptySeq DEF TypeInv
      <3>3. n # 3
        BY <1>2, <1>4, <1>a, Bytes DEF Want
      <3>4. n <= 3
        BY <1>4, <1>a DEF Reasons, Short
      <3>5. QED
        BY <1>3, <3>1, <3>2, <3>3, <3>4
    <2>3. Connecting'
      BY <1>1, <1>2, <1>4, <2>2 DEF Reasons, Connecting, Before
    <2>4. QED
      BY <1>1, <1>4, <2>3 DEF Reasons, Short, Resting, Waiting, Replying, GivenUp
  <1>5. CASE pc = "ack"
    <2>1. PICK o \in {0, 1}, k \in Nat, Y \in {<<>>, Ack, Both} : Climb(o, k, Y)
      BY <1>5 DEF Reasons, Waiting
    <2>2. n < 2
      <3>1. n # 2 /\ n <= 2
        BY <1>2, <1>5, <1>a, Bytes DEF Want, Reasons, Short
      <3>2. QED
        BY <1>3, <3>1
    <2>3. got = <<>>
      <3>1. CASE o = 1
        BY <2>1, <3>1 DEF Climb
      <3>2. CASE o = 0
        <4>1. Heard # <<>> => Len(Heard) >= 2
          BY <1>2, <2>1, <3>2, InPlace DEF Climb
        <4>2. QED
          BY <1>2, <1>3, <1>a, <2>2, <4>1
      <3>3. QED
        BY <3>1, <3>2
    <2>4. Due' = Due /\ One(silent) = 0 /\ One(silent') = 1 /\ silences' = silences + 1
      BY <1>1, <1>5 DEF Due, One
    <2>5. step = "erase" /\ tries \in 1 .. EraseTries /\ Due \in Int
      <3>1. Len(toTgt) \in Nat
        BY LenProperties DEF TypeInv
      <3>2. QED
        BY <1>1, <1>5, <3>1 DEF Reasons, Waiting, Due
    <2>6. EraseTries - tries + k + Due + 1 <= silences + 1 + PingTries - 1
      <3>a. PICK d, e, p : d = Due /\ e = EraseTries /\ p = PingTries
        OBVIOUS
      <3>1. d \in Int /\ e \in Nat /\ p \in Nat /\ tries \in Int
        BY <3>a, <2>5, McxispAssumption
      <3>2. e - tries + k + d + 0 <= silences + p - 1
        BY <3>a, <2>1, <2>4, <2>5 DEF Climb
      <3>3. e - tries + k + d + 1 <= silences + 1 + p - 1
        BY <3>1, <3>2
      <3>4. QED
        BY <3>3, <3>a
    <2>7. Climb(o, k, Y)'
      BY <1>1, <1>2, <2>1, <2>3, <2>4, <2>5, <2>6 DEF Climb, Said
    <2>8. Waiting'
      BY <1>1, <1>5, <2>3, <2>5, <2>7 DEF Reasons, Waiting, In
    <2>9. QED
      BY <1>1, <1>5, <2>8 DEF Reasons, Short, Resting, Connecting, Before, Replying, GivenUp
  <1>6. QED
    BY <1>1, <1>4, <1>5

\* The host sends a ping, or gives up.
LEMMA PingReasons ==
    ASSUME TypeInv, Reasons, target_connect_ping, faults' = faults
    PROVE  Reasons'
  <1>1. /\ pc = "ping" /\ got = <<>> /\ got' = <<>> /\ silent' = FALSE /\ toHost' = toHost
        /\ step' = step /\ tries' = tries /\ silences' = silences
        /\ \/ pc' = "failed"
           \/ tries > 0 /\ pc' = "pong" /\ toTgt' = Append(toTgt, cmd_ping)
    <2>1. faults \in Nat
      BY DEF TypeInv
    <2>2. ~Fault
      BY <2>1 DEF Fault
    <2>3. QED
      BY <2>2 DEF target_connect_ping, Reasons, Resting, StartRead, Quiet, record, tty_write
  <1>2. step = "none" /\ tries \in 0 .. PingTries
    BY <1>1 DEF Reasons, Connecting, Before
  <1>3. CASE pc' = "failed"
    BY <1>1, <1>2, <1>3 DEF Reasons, Short, Resting, Connecting, Before, Waiting, Replying, GivenUp
  <1>4. CASE tries > 0 /\ pc' = "pong" /\ toTgt' = Append(toTgt, cmd_ping)
    <2>1. PICK k \in Nat : Line(Heard, 0, k, <<>>) /\ k + Len(toTgt) <= PingTries - tries + One(pc = "pong")
      BY <1>1 DEF Reasons, Connecting, Before
    <2>2. Heard' = Heard
      BY <1>1 DEF Heard
    <2>a. PICK n, p : n = Len(toTgt) /\ p = PingTries
      OBVIOUS
    <2>3. Len(toTgt') = n + 1 /\ n \in Nat
      BY <1>4, <2>a, FrameFacts, AppendProperties, LenProperties DEF TypeInv
    <2>4. k + Len(toTgt') <= PingTries - tries' + One(pc' = "pong")
      <3>1. k + n <= p - tries + 0
        BY <1>1, <2>1, <2>a DEF One
      <3>2. p \in Nat /\ tries \in Int
        BY <1>2, <2>a, McxispAssumption
      <3>3. k + (n + 1) <= p - tries + 1
        BY <2>3, <3>1, <3>2
      <3>4. QED
        BY <1>1, <1>4, <2>3, <2>a, <3>3 DEF One
    <2>5. Line(Heard', 0, k, <<>>)
      BY <2>1, <2>2
    <2>6. Connecting'
      BY <1>1, <1>2, <1>4, <2>4, <2>5 DEF Connecting, Before
    <2>7. QED
      BY <1>1, <1>4, <2>6, Bytes DEF Reasons, Short, Resting, Waiting, Replying, GivenUp
  <1>5. QED
    BY <1>1, <1>3, <1>4

\* A read that is over has timed out before the first byte, or has what it wanted.
LEMMA ReadOver ==
    ASSUME TypeInv, Over, silent => got = <<>>
    PROVE  (silent /\ got = <<>> /\ \A type \in ByteSet : ~Expect(type)) \/ (~silent /\ Len(got) = Want)
  <1>1. CASE silent
    <2>1. got = <<>> /\ ~(Len(got) >= 2)
      BY <1>1, Bytes
    <2>2. QED
      BY <1>1, <2>1 DEF Expect
  <1>2. CASE ~silent
    BY <1>2 DEF Over
  <1>3. QED
    BY <1>1, <1>2

\* The host has waited for the answer to a ping.
LEMMA PongReasons ==
    ASSUME TypeInv, Reasons, target_connect_pong
    PROVE  Reasons'
  <1>1. /\ pc = "pong" /\ Over /\ got' = <<>> /\ silent' = FALSE /\ toHost' = toHost
        /\ step' = step /\ toTgt' = toTgt
        /\ (Expect("a7") /\ pc' = "erase" /\ tries' = tries) \/ (~Expect("a7") /\ pc' = "ping" /\ tries' = tries - 1)
    BY DEF target_connect_pong, StartRead, Quiet
  <1>2. /\ step = "none" /\ tries \in 0 .. PingTries /\ (silent => got = <<>>) /\ tries > 0
    BY <1>1 DEF Reasons, Connecting, Before
  <1>3. PICK k \in Nat : Line(Heard, 0, k, <<>>) /\ k + Len(toTgt) <= PingTries - tries + One(pc = "pong")
    BY <1>1 DEF Reasons, Connecting, Before
  <1>4. Heard = got \o toHost /\ Heard \in Seq(ByteSet) /\ got \in Seq(ByteSet) /\ toHost \in Seq(ByteSet)
    BY HeardFacts DEF Heard
  <1>5. Heard' = toHost
    BY <1>1, <1>4, ConcatEmptySeq DEF Heard
  <1>a. PICK n, p : n = Len(toTgt) /\ p = PingTries
    OBVIOUS
  <1>6. n \in Nat /\ p \in Nat /\ k + n <= p - tries + 1 /\ tries \in Nat /\ tries <= p
    BY <1>1, <1>2, <1>3, <1>a, McxispAssumption, LenProperties DEF TypeInv, One
  <1>7. Connecting'
    <2>1. CASE silent
      <3>1. got = <<>> /\ ~Expect("a7")
        BY <1>1, <1>2, <2>1, ReadOver DEF ByteSet
      <3>2. pc' = "ping" /\ tries' = tries - 1 /\ Heard = toHost
        BY <1>1, <1>4, <3>1, ConcatEmptySeq
      <3>3. k + n <= p - (tries - 1) + 0 /\ tries - 1 \in 0 .. p
        BY <1>2, <1>6
      <3>4. k + Len(toTgt') <= PingTries - tries' + One(pc' = "pong") /\ tries' \in 0 .. PingTries
        BY <1>1, <1>a, <3>2, <3>3 DEF One
      <3>5. Line(Heard', 0, k, <<>>)
        BY <1>3, <1>5, <3>2
      <3>6. QED
        BY <1>1, <1>2, <3>2, <3>4, <3>5 DEF Connecting, Before
    <2>2. CASE ~silent
      <3>1. Len(got) = 3
        BY <1>1, <1>2, <2>2, ReadOver, Bytes DEF Want
      <3>2. got[1] = "5a" /\ got[2] = "a7" /\ k - 1 \in Nat /\ Line(toHost, 0, k - 1, <<>>)
        BY <1>3, <1>4, <3>1, PongRead
      <3>3. Expect("a7")
        BY <3>1, <3>2 DEF Expect
      <3>4. (k - 1) + n <= p - tries + 0
        BY <1>6, <3>2
      <3>5. pc' = "erase" /\ tries' = tries
        BY <1>1, <3>3
      <3>6. (k - 1) + Len(toTgt') <= PingTries - tries' + One(pc' = "pong") /\ tries' \in 0 .. PingTries
        BY <1>1, <1>2, <1>a, <3>4, <3>5 DEF One
      <3>7. Line(Heard', 0, k - 1, <<>>)
        BY <1>5, <3>2
      <3>8. QED
        BY <1>1, <1>2, <3>2, <3>5, <3>6, <3>7 DEF Connecting, Before
    <2>3. QED
      BY <2>1, <2>2
  <1>8. QED
    BY <1>1, <1>7 DEF Reasons, Short, Resting, Waiting, Replying, GivenUp

\* The last frame of a line that a frame was put on.
LEMMA LastPut ==
    ASSUME NEW s \in Seq(Frames), NEW f \in Frames, NEW t, t = Append(s, f)
    PROVE  t # <<>> /\ t[Len(t)] = f /\ Len(t) - 1 = Len(s) /\ Len(s) \in Nat
  <1>a. PICK n : n = Len(s)
    OBVIOUS
  <1>1. n \in Nat /\ Len(t) = n + 1 /\ t[n + 1] = f /\ t # <<>>
    BY <1>a, AppendProperties, LenProperties
  <1>2. (n + 1) - 1 = n
    BY <1>1
  <1>3. QED
    BY <1>1, <1>2, <1>a

\* The erase command is sent.
LEMMA EraseReasons ==
    ASSUME TypeInv, Position, Reasons, silences \in Nat, target_flashEraseAll, faults' = faults
    PROVE  Reasons'
  <1>1. /\ pc = "erase" /\ pc' = "ack" /\ step' = "erase" /\ tries' = EraseTries /\ got' = <<>>
        /\ silent' = FALSE /\ toHost' = toHost /\ toTgt' = Append(toTgt, cmd_flashEraseAll)
        /\ mode' = mode /\ silences' = silences
    <2>1. faults \in Nat
      BY DEF TypeInv
    <2>2. ~Fault
      BY <2>1 DEF Fault
    <2>3. QED
      BY <2>2 DEF target_flashEraseAll, Send, StartRead, Quiet, record, target, tty_write
  <1>2. got = <<>> /\ mode = "idle"
    BY <1>1 DEF Reasons, Resting, Position, Before
  <1>3. PICK k \in Nat : Line(Heard, 0, k, <<>>) /\ k + Len(toTgt) <= PingTries - tries + One(pc = "pong")
    BY <1>1 DEF Reasons, Connecting, Before
  <1>4. tries \in 0 .. PingTries /\ tries > 0
    BY <1>1 DEF Reasons, Connecting, Before
  <1>a. PICK n, p, e : n = Len(toTgt) /\ p = PingTries /\ e = EraseTries
    OBVIOUS
  <1>5. toTgt' # <<>> /\ toTgt'[Len(toTgt')] = cmd_flashEraseAll /\ Len(toTgt') - 1 = n /\ n \in Nat
    <2>1. toTgt \in Seq(Frames) /\ cmd_flashEraseAll \in Frames
      BY FrameFacts DEF TypeInv
    <2>b. PICK t : t = toTgt'
      OBVIOUS
    <2>2. t # <<>> /\ t[Len(t)] = cmd_flashEraseAll /\ Len(t) - 1 = Len(toTgt) /\ Len(toTgt) \in Nat
      BY <1>1, <2>1, <2>b, LastPut
    <2>3. QED
      BY <2>2, <2>b, <1>a
  <1>6. e - e + k + n + 0 <= silences + p - 1 /\ e \in 1 .. e
    <2>1. p \in Nat /\ e \in Nat /\ e > p
      BY <1>a, McxispAssumption
    <2>2. k + n <= p - tries + 0
      BY <1>1, <1>3, <1>a DEF One
    <2>3. QED
      BY <1>4, <1>5, <1>a, <2>1, <2>2
  <1>7. Climb(0, k, <<>>)'
    <2>1. Line(Heard', 0, k, <<>>)
      BY <1>1, <1>2, <1>3 DEF Heard
    <2>2. Said(<<>>)'
      BY <1>1, <1>2, <1>5 DEF Said
    <2>3. Due' = n /\ One(silent') = 0
      BY <1>1, <1>5 DEF Due, One
    <2>4. EraseTries - tries' + k + Due' + One(silent') <= silences' + PingTries - 1
      BY <1>1, <1>6, <1>a, <2>3
    <2>5. QED
      BY <1>1, <2>1, <2>2, <2>4 DEF Climb
  <1>8. cmd_flashEraseAll # cmd_ping
    BY FrameFacts
  <1>9. Waiting'
    BY <1>1, <1>5, <1>6, <1>7, <1>8, <1>a DEF Waiting
  <1>10. QED
    BY <1>1, <1>9, Bytes DEF Reasons, Short, Resting, Connecting, Before, Replying, GivenUp

\* The line of a target that is through with a frame.
LEMMA ThroughLine ==
    ASSUME NEW t, Through(t)
    PROVE  mode # "busy" /\ (toTgt = <<>> \/ toTgt = <<tty_ack>>)
  BY DEF Through

\* A frame is put behind an acknowledgement.
LEMMA FrameBehind ==
    ASSUME toTgt = <<>> \/ toTgt = <<tty_ack>>, NEW f \in Frames, f # cmd_ping, NEW t, t = Append(toTgt, f)
    PROVE  t # <<>> /\ t[Len(t)] = f /\ ~In(t, cmd_ping)
  <1>1. tty_ack # cmd_ping
    BY FrameFacts
  <1>2. CASE toTgt = <<>>
    <2>1. t = <<f>>
      BY <1>2, ShortLines
    <2>2. Len(t) = 1 /\ t[1] = f
      BY <2>1
    <2>3. QED
      BY <2>1, <2>2 DEF In
  <1>3. CASE toTgt = <<tty_ack>>
    <2>1. t = <<tty_ack, f>>
      BY <1>3, ShortLines
    <2>2. Len(t) = 2 /\ t[1] = tty_ack /\ t[2] = f
      BY <2>1
    <2>3. \A i \in 1 .. 2 : t[i] # cmd_ping
      BY <1>1, <2>2
    <2>4. QED
      BY <2>1, <2>2, <2>3 DEF In
  <1>4. QED
    BY <1>2, <1>3

\* Another frame of the upload is sent.
LEMMA SendReasons ==
    ASSUME TypeInv, Position, Reasons, pc \in {"file", "data", "reset"},
           NEW f \in Frames, f # cmd_ping, NEW s \in {"write", "data", "reset"}, Send(f, s),
           faults' = faults, toHost' = toHost, mode' = mode
    PROVE  Reasons'
  <1>1. /\ pc' = "ack" /\ step' = s /\ toTgt' = Append(toTgt, f) /\ got' = <<>> /\ silent' = FALSE
    <2>1. faults \in Nat
      BY DEF TypeInv
    <2>2. ~Fault
      BY <2>1 DEF Fault
    <2>3. QED
      BY <2>2 DEF Send, StartRead, tty_write
  <1>2. PICK t : Through(t)
    BY DEF Position
  <1>3. mode # "busy" /\ (toTgt = <<>> \/ toTgt = <<tty_ack>>)
    BY <1>2, ThroughLine
  <1>b. PICK l : l = toTgt'
    OBVIOUS
  <1>4. l # <<>> /\ l[Len(l)] = f /\ ~In(l, cmd_ping)
    BY <1>1, <1>3, <1>b, FrameBehind
  <1>5. toHost' = <<>> /\ Heard' = <<>>
    <2>1. toHost' = <<>>
      BY DEF Reasons, Resting
    <2>2. QED
      BY <1>1, <2>1, Bytes, ConcatEmptySeq DEF Heard
  <1>6. Line(<<>>, 0, 0, <<>>)
    BY Bytes DEF Line
  <1>7. Climb(0, 0, <<>>)'
    BY <1>1, <1>3, <1>4, <1>5, <1>6, <1>b DEF Climb, Said
  <1>8. Waiting'
    BY <1>1, <1>4, <1>7, <1>b DEF Waiting
  <1>9. QED
    BY <1>1, <1>8, Bytes DEF Reasons, Short, Resting, Connecting, Before, Replying, GivenUp

\* The pages of the file and the reset.
LEMMA UploadReasons ==
    ASSUME TypeInv, BookInv, Position, Reasons, faults' = faults,
           target_sendFile_chunk \/ target_sendFile_data \/ target_reset
    PROVE  Reasons'
  <1>1. toHost' = toHost /\ mode' = mode
    BY DEF target_sendFile_chunk, target_sendFile_data, target_reset, Quiet, target
  <1>2. CASE target_reset
    BY <1>1, <1>2, FrameFacts, SendReasons DEF target_reset
  <1>3. CASE target_sendFile_data
    <2>1. cmd_data(Page) \in Frames /\ cmd_data(Page).type = "data"
      BY PageType DEF Frames, cmd_data
    <2>2. QED
      BY <1>1, <1>3, <2>1, FrameFacts, SendReasons DEF target_sendFile_data
  <1>4. CASE target_sendFile_chunk
    <2>1. CASE pc' = "reset" /\ got' = got
      BY <1>1, <1>4, <2>1 DEF target_sendFile_chunk, Reasons, Short, Resting, Connecting, Before, Waiting, Replying, GivenUp
    <2>2. CASE Send(cmd_flashWriteMemory(address, chunk'), "write")
      <3>1. chunk' \in Nat
        BY <1>4, ChunkFacts DEF target_sendFile_chunk
      <3>2. cmd_flashWriteMemory(address, chunk') \in Frames /\ cmd_flashWriteMemory(address, chunk').type = "write"
        BY <3>1 DEF Frames, cmd_flashWriteMemory, TypeInv
      <3>3. QED
        BY <1>1, <1>4, <2>2, <3>2, FrameFacts, SendReasons DEF target_sendFile_chunk
    <2>3. QED
      BY <1>4, <2>1, <2>2 DEF target_sendFile_chunk
  <1>5. QED
    BY <1>2, <1>3, <1>4

\* A try of the erase ladder is spent on a time-out or on an answer to a ping.
LEMMA TrySpent ==
    ASSUME TypeInv, Reasons, silences \in Nat, pc = "ack", step = "erase", LadderFailed, NEW k \in Nat, NEW j \in Nat,
           EraseTries - tries + k + Due + One(silent) <= silences + PingTries - 1,
           j + 1 <= k + One(silent), silent' = FALSE, silences' = silences
    PROVE  \/ pc' = "failed" /\ EraseTries <= silences' + PingTries - 1
           \/ /\ pc' = "ack" /\ tries' \in 1 .. EraseTries /\ toTgt' = toTgt
              /\ EraseTries - tries' + j + Due' + One(silent') <= silences' + PingTries - 1
  <1>a. PICK d, e, p, o : d = Due /\ e = EraseTries /\ p = PingTries /\ o = One(silent)
    OBVIOUS
  <1>1. d \in Nat /\ e \in Nat /\ p \in Nat /\ o \in {0, 1} /\ tries \in 1 .. e
    <2>1. Len(toTgt) \in Nat /\ (toTgt # <<>> => Len(toTgt) # 0)
      BY LenProperties, EmptySeq DEF TypeInv
    <2>2. d \in Nat
      BY <1>a, <2>1 DEF Due
    <2>3. QED
      BY <1>a, <2>2, McxispAssumption DEF One, Reasons, Waiting
  <1>2. e - tries + k + d + o <= silences + p - 1 /\ j + 1 <= k + o
    BY <1>a
  <1>3. toTgt' = toTgt /\ ((tries > 1 /\ pc' = "ack" /\ tries' = tries - 1) \/ (~(tries > 1) /\ pc' = "failed"))
    BY DEF LadderFailed
  <1>4. CASE tries > 1 /\ pc' = "ack" /\ tries' = tries - 1
    <2>1. e - (tries - 1) + j + d + 0 <= silences + p - 1 /\ tries - 1 \in 1 .. e
      BY <1>1, <1>2, <1>4
    <2>2. Due' = d /\ One(silent') = 0
      BY <1>3, <1>a DEF Due, One
    <2>3. QED
      BY <1>3, <1>4, <1>a, <2>1, <2>2
  <1>5. CASE ~(tries > 1) /\ pc' = "failed"
    <2>1. tries = 1
      BY <1>1, <1>5
    <2>2. e <= silences + p - 1
      BY <1>1, <1>2, <2>1
    <2>3. QED
      BY <1>5, <1>a, <2>2
  <1>6. QED
    BY <1>3, <1>4, <1>5

\* The host has waited for an acknowledgement.
LEMMA AckReasons ==
    ASSUME TypeInv, Reasons, silences \in Nat, target_ackLadder_ack
    PROVE  Reasons'
  <1>1. /\ pc = "ack" /\ Over /\ got' = <<>> /\ silent' = FALSE /\ toHost' = toHost /\ step' = step
        /\ mode' = mode /\ silences' = silences
        /\ \/ Expect("a1") /\ pc' = "resp" /\ toTgt' = toTgt
           \/ ~Expect("a1") /\ LadderFailed
    BY DEF target_ackLadder_ack, StartRead, Quiet, target, record
  <1>2. PICK o \in {0, 1}, k \in Nat, Y \in {<<>>, Ack, Both} : Climb(o, k, Y)
    BY <1>1 DEF Reasons, Waiting
  <1>3. /\ silent => got = <<>> /\ step = "erase"
        /\ toTgt # <<>> => toTgt[Len(toTgt)] # cmd_ping
        /\ step # "erase" => ~In(toTgt, cmd_ping)
    BY <1>1 DEF Reasons, Waiting
  <1>4. Heard = got \o toHost /\ got \in Seq(ByteSet) /\ toHost \in Seq(ByteSet) /\ Y \in Seq(ByteSet)
    BY HeardFacts, Bytes DEF Heard
  <1>5. Heard' = toHost
    BY <1>1, <1>4, ConcatEmptySeq DEF Heard
  <1>6. ASSUME step = "erase", ~Expect("a1"), NEW n \in {0, 1}, NEW j \in Nat, j + 1 <= k + One(silent),
               Line(toHost, n, j, Y)
        PROVE  Reasons'
    <2>1. EraseTries - tries + k + Due + One(silent) <= silences + PingTries - 1
      BY <1>2, <1>6 DEF Climb
    <2>2. \/ pc' = "failed" /\ EraseTries <= silences' + PingTries - 1
          \/ /\ pc' = "ack" /\ tries' \in 1 .. EraseTries /\ toTgt' = toTgt
             /\ EraseTries - tries' + j + Due' + One(silent') <= silences' + PingTries - 1
      BY <1>1, <1>6, <2>1, TrySpent
    <2>3. CASE pc' = "failed" /\ EraseTries <= silences' + PingTries - 1
      BY <2>3 DEF Reasons, Short, Resting, Connecting, Before, Waiting, Replying, GivenUp
    <2>4. CASE /\ pc' = "ack" /\ tries' \in 1 .. EraseTries /\ toTgt' = toTgt
               /\ EraseTries - tries' + j + Due' + One(silent') <= silences' + PingTries - 1
      <3>1. Line(Heard', n, j, Y)
        BY <1>5, <1>6
      <3>2. Said(Y)'
        BY <1>1, <1>2, <2>4 DEF Climb, Said
      <3>3. Climb(n, j, Y)'
        BY <1>1, <1>6, <2>4, <3>1, <3>2 DEF Climb
      <3>4. Waiting'
        BY <1>1, <1>3, <1>6, <2>4, <3>3 DEF Waiting
      <3>5. QED
        BY <1>1, <2>4, <3>4, Bytes DEF Reasons, Short, Resting, Connecting, Before, Replying, GivenUp
    <2>5. QED
      BY <2>2, <2>3, <2>4
  <1>7. CASE silent
    <2>1. got = <<>> /\ step = "erase" /\ ~Expect("a1")
      BY <1>1, <1>3, <1>7, ReadOver DEF ByteSet
    <2>2. Heard = toHost
      BY <1>4, <2>1, ConcatEmptySeq
    <2>3. Line(toHost, o, k, Y) /\ k + 1 <= k + One(silent)
      BY <1>2, <1>7, <2>2 DEF Climb, One
    <2>4. QED
      BY <1>6, <2>1, <2>3
  <1>8. CASE ~silent
    <2>1. Len(got) = 2
      BY <1>1, <1>3, <1>8, ReadOver, Bytes DEF Want
    <2>2. o = 0
      <3>1. o = 1 => got = <<>>
        BY <1>2 DEF Climb
      <3>2. QED
        BY <2>1, <3>1, Bytes
    <2>3. CASE k > 0
      <3>1. got[1] = "5a" /\ got[2] = "a7" /\ k - 1 \in Nat /\ Line(toHost, 1, k - 1, Y)
        BY <1>2, <1>4, <2>1, <2>2, <2>3, PongMisread DEF Climb
      <3>2. ~Expect("a1")
        BY <3>1 DEF Expect
      <3>3. step = "erase"
        BY <1>2, <2>3 DEF Climb
      <3>4. (k - 1) + 1 <= k + One(silent)
        BY <1>8 DEF One
      <3>5. QED
        BY <1>6, <3>1, <3>2, <3>3, <3>4
    <2>4. CASE k = 0
      <3>1. /\ got[1] = "5a" /\ got[2] = "a1" /\ Y # <<>>
            /\ (Y = Ack /\ toHost = <<>>) \/ (Y = Both /\ toHost = Resp)
        BY <1>2, <1>4, <2>1, <2>2, <2>4, AckRead DEF Climb
      <3>2. Expect("a1")
        BY <2>1, <3>1 DEF Expect
      <3>3. pc' = "resp" /\ toTgt' = toTgt
        BY <1>1, <3>2
      <3>4. toTgt = <<>> /\ ((mode = "busy" /\ Y = Ack) \/ (mode = "wait" /\ Y = Both))
        BY <1>2, <3>1 DEF Climb, Said
      <3>5. Ack # Both
        BY Bytes
      <3>6. Replying'
        BY <1>1, <1>5, <3>1, <3>3, <3>4, <3>5 DEF Replying
      <3>7. QED
        BY <3>3, <3>6 DEF Reasons, Short, Resting, Connecting, Before, Waiting, GivenUp
    <2>5. QED
      BY <2>3, <2>4
  <1>9. QED
    BY <1>7, <1>8

\* The host has waited for a response.
LEMMA RespReasons ==
    ASSUME TypeInv, Reasons, target_ackLadder_resp, faults' = faults, BookInv
    PROVE  Reasons'
  <1>1. ~Fault
    <2>1. faults \in Nat
      BY DEF TypeInv
    <2>2. QED
      BY <2>1 DEF Fault
  <1>2. /\ pc = "resp" /\ Over /\ got' = <<>> /\ toHost' = toHost
        /\ (Expect("a4") /\ LadderDone) \/ ~Expect("a4")
    BY <1>1 DEF target_ackLadder_resp, StartRead, Quiet
  <1>3. got \in Seq(ByteSet) /\ toHost \in Seq(ByteSet) /\ Len(got) = 3
    BY <1>2, Bytes DEF TypeInv, Over, Want, Reasons, Replying
  <1>a. PICK w, n : w = Heard /\ n = Len(toHost)
    OBVIOUS
  <1>4. Glued(w, got, toHost, 3, n)
    BY <1>3, <1>a, Parts DEF Heard
  <1>5. w = <<>> \/ w = Resp
    BY <1>2, <1>a DEF Reasons, Replying
  <1>6. w = Resp
    <2>1. Len(w) = 3 + n /\ n \in Nat
      BY <1>4 DEF Glued
    <2>2. QED
      BY <1>5, <2>1, Bytes
  <1>7. n = 0 /\ w[1] = "5a" /\ w[2] = "a4"
    <2>1. Len(w) = 3 /\ w[1] = "5a" /\ w[2] = "a4"
      BY <1>6, Bytes
    <2>2. Len(w) = 3 + n /\ n \in Nat
      BY <1>4 DEF Glued
    <2>3. QED
      BY <2>1, <2>2
  <1>8. got[1] = "5a" /\ got[2] = "a4"
    BY <1>4, <1>7 DEF Glued
  <1>9. LadderDone
    BY <1>2, <1>3, <1>8 DEF Expect
  <1>10. pc' \in {"file", "data", "reset", "done"}
    BY <1>9 DEF LadderDone
  <1>11. toHost' = <<>>
    BY <1>2, <1>3, <1>7, <1>a, EmptySeq
  <1>12. QED
    BY <1>2, <1>10, <1>11 DEF Reasons, Short, Resting, Connecting, Before, Waiting, Replying, GivenUp

\* What the target does not touch.
LEMMA HostKept ==
    ASSUME TargetNext
    PROVE  /\ pc' = pc /\ step' = step /\ tries' = tries /\ got' = got /\ silent' = silent
           /\ silences' = silences /\ late' = late
  BY DEF TargetNext, tgt_ping, tgt_frame, tgt_respond, tgt_acked, tgt_other, Host, host, record

\* What the target says is heard last.
LEMMA SaidHeard ==
    ASSUME TypeInv, NEW b \in Seq(ByteSet), Say(b), got' = got
    PROVE  Heard' = Heard \o b
  <1>1. got \in Seq(ByteSet) /\ toHost \in Seq(ByteSet)
    BY DEF TypeInv
  <1>2. Heard' = got \o (toHost \o b)
    BY DEF Say, Heard
  <1>3. (got \o toHost) \o b = got \o (toHost \o b)
    BY <1>1, Joined
  <1>4. QED
    BY <1>2, <1>3 DEF Heard

\* A target that is not busy and has no frame does nothing.
LEMMA NothingToDo ==
    ASSUME TargetNext, toTgt = <<>>
    PROVE  mode = "busy" /\ Say(Resp) /\ mode' = "wait" /\ toTgt' = toTgt
  <1>1. ~tgt_ping /\ ~tgt_frame /\ ~tgt_acked /\ ~tgt_other
    BY DEF tgt_ping, tgt_frame, tgt_acked, tgt_other, Receive
  <1>2. tgt_respond
    BY <1>1 DEF TargetNext
  <1>3. QED
    BY <1>2 DEF tgt_respond

\* The target answers a ping while the host connects.
LEMMA PingAnswered ==
    ASSUME TypeInv, Position, Reasons, TargetNext, Before
    PROVE  Reasons'
  <1>1. /\ pc' = pc /\ step' = step /\ tries' = tries /\ got' = got /\ silent' = silent
        /\ silences' = silences
    BY HostKept
  <1>2. mode = "idle" /\ Pings(toTgt) /\ toTgt \in Seq(Frames)
    BY DEF Position, TypeInv
  <1>3. toTgt # <<>> /\ toTgt' = Tail(toTgt)
    BY <1>2, Takes
  <1>4. Head(toTgt) = cmd_ping
    BY <1>2, <1>3, PingsFacts
  <1>5. tgt_ping
    BY <1>2, <1>4, Takes, FrameFacts
  <1>6. Heard' = Heard \o Pong
    BY <1>1, <1>5, Bytes, SaidHeard DEF tgt_ping
  <1>7. PICK k \in Nat : Line(Heard, 0, k, <<>>) /\ k + Len(toTgt) <= PingTries - tries + One(pc = "pong")
    BY DEF Reasons, Connecting
  <1>8. Line(Heard', 0, k + 1, <<>>)
    BY <1>6, <1>7, HeardFacts, PongSaid
  <1>9. (k + 1) + Len(toTgt') <= PingTries - tries' + One(pc' = "pong")
    <2>a. PICK n, m, x : n = Len(toTgt) /\ m = Len(toTgt') /\ x = PingTries - tries + One(pc = "pong")
      OBVIOUS
    <2>1. n \in Nat /\ m = n - 1 /\ k + n <= x
      BY <1>2, <1>3, <1>7, <2>a, HeadTailProperties, LenProperties
    <2>2. (k + 1) + m = k + n
      BY <2>1
    <2>3. PingTries - tries' + One(pc' = "pong") = x
      BY <1>1, <2>a
    <2>4. QED
      BY <2>1, <2>2, <2>3, <2>a
  <1>10. k + 1 \in Nat
    OBVIOUS
  <1>11. Connecting'
    BY <1>1, <1>8, <1>9, <1>10 DEF Reasons, Connecting, Before
  <1>12. QED
    BY <1>1, <1>11 DEF Reasons, Short, Resting, Before, Waiting, Replying, GivenUp

\* The target works on what is on the line while the host waits for an acknowledgement.
LEMMA FrameAnswered ==
    ASSUME TypeInv, Position, Reasons, silences \in Nat, TargetNext, pc = "ack"
    PROVE  Reasons'
  <1>1. /\ pc' = pc /\ step' = step /\ tries' = tries /\ got' = got /\ silent' = silent
        /\ silences' = silences
    BY HostKept
  <1>2. PICK o \in {0, 1}, k \in Nat, Y \in {<<>>, Ack, Both} : Climb(o, k, Y)
    BY DEF Reasons, Waiting
  <1>3. Heard \in Seq(ByteSet) /\ toTgt \in Seq(Frames) /\ Climbing
    BY HeardFacts DEF Position, TypeInv, Ladder
  <1>4. /\ silent => got = <<>> /\ step = "erase"
        /\ step = "erase" => tries \in 1 .. EraseTries
        /\ toTgt # <<>> => toTgt[Len(toTgt)] # cmd_ping
        /\ step # "erase" => ~In(toTgt, cmd_ping)
    BY DEF Reasons, Waiting
  <1>5. ASSUME NEW j \in Nat, NEW X \in {<<>>, Ack, Both}, Line(Heard', o, j, X), Said(X)', Due' \in Int,
               step = "erase" => j + Due' <= k + Due, step # "erase" => j = 0,
               toTgt' # <<>> => toTgt'[Len(toTgt')] # cmd_ping,
               step # "erase" => ~In(toTgt', cmd_ping)
        PROVE  Reasons'
    <2>1. step = "erase" => EraseTries - tries' + j + Due' + One(silent') <= silences' + PingTries - 1
      <3> SUFFICES ASSUME step = "erase"
                   PROVE  EraseTries - tries' + j + Due' + One(silent') <= silences' + PingTries - 1
        OBVIOUS
      <3>a. PICK e, p, d, c, n : e = EraseTries /\ p = PingTries /\ d = Due /\ c = Due' /\ n = One(silent)
        OBVIOUS
      <3>1. e \in Nat /\ p \in Nat /\ c \in Int /\ n \in {0, 1} /\ tries \in Int /\ d \in Int
        <4>1. Len(toTgt) \in Nat
          BY <1>3, LenProperties
        <4>2. d \in Int
          BY <3>a, <4>1 DEF Due
        <4>3. QED
          BY <3>a, <1>4, <1>5, <4>2, McxispAssumption DEF One
      <3>2. e - tries + k + d + n <= silences + p - 1 /\ j + c <= k + d
        BY <3>a, <1>2, <1>5 DEF Climb
      <3>3. e - tries + j + c + n <= silences + p - 1
        BY <3>1, <3>2
      <3>4. QED
        BY <3>3, <3>a, <1>1
    <2>2. (o = 1 => got' = <<>>) /\ (step # "erase" => o = 0)
      BY <1>1, <1>2 DEF Climb
    <2>3. Climb(o, j, X)'
      BY <1>1, <1>5, <2>1, <2>2 DEF Climb
    <2>4. Waiting'
      BY <1>1, <1>4, <1>5, <2>3 DEF Waiting
    <2>5. QED
      BY <1>1, <2>4 DEF Reasons, Short, Resting, Connecting, Before, Replying, GivenUp
  <1>6. Due \in Nat
    <2>1. Len(toTgt) \in Nat /\ (toTgt # <<>> => Len(toTgt) # 0)
      BY <1>3, LenProperties, EmptySeq
    <2>2. QED
      BY <2>1 DEF Due
  <1>7. ASSUME toTgt # <<>>, tgt_frame, toTgt' = <<>>, mode # "busy" PROVE Reasons'
    <2>1. Y = <<>>
      BY <1>2, <1>7 DEF Climb, Said
    <2>2. Heard' = Heard \o Ack
      BY <1>1, <1>7, Bytes, SaidHeard DEF tgt_frame
    <2>3. Line(Heard', o, k, Ack)
      BY <1>2, <1>3, <2>1, <2>2, AckSaid DEF Climb
    <2>4. Said(Ack)'
      BY <1>7 DEF Said, tgt_frame
    <2>5. Due' = 0 /\ k + Due' <= k + Due
      <3>1. Due' = 0
        BY <1>7 DEF Due
      <3>2. QED
        BY <3>1, <1>6
    <2>6. (step # "erase" => k = 0) /\ ~In(toTgt', cmd_ping)
      BY <1>2, <1>7, Bytes DEF Climb, In
    <2>7. QED
      BY <1>5, <1>7, <2>3, <2>4, <2>5, <2>6
  <1>8. CASE toTgt = <<>>
    <2>1. mode = "busy" /\ Say(Resp) /\ mode' = "wait" /\ toTgt' = toTgt
      BY <1>8, NothingToDo
    <2>2. Y = Ack
      BY <1>2, <1>8, <2>1 DEF Climb, Said
    <2>3. Heard' = Heard \o Resp
      BY <1>1, <2>1, Bytes, SaidHeard
    <2>4. Line(Heard', o, k, Both)
      BY <1>2, <1>3, <2>2, <2>3, RespSaid DEF Climb
    <2>5. Said(Both)'
      BY <1>8, <2>1 DEF Said
    <2>6. Due' = 0 /\ Due' \in Int /\ k + Due' <= k + Due
      <3>1. Due' = 0
        BY <1>8, <2>1 DEF Due
      <3>2. QED
        BY <3>1, <1>6
    <2>7. (step # "erase" => k = 0)
      BY <1>2 DEF Climb
    <2>8. QED
      BY <1>4, <1>5, <1>8, <2>1, <2>4, <2>5, <2>6, <2>7
  <1>9. CASE toTgt # <<>>
    <2>1. mode # "busy" /\ Y = <<>>
      BY <1>2, <1>9 DEF Climb, Said
    <2>2. toTgt' = Tail(toTgt)
      BY <2>1, Takes
    <2>3. CASE mode = "idle" /\ Pings(toTgt)
      <3>1. Len(toTgt) \in 1 .. Len(toTgt)
        BY <1>3, <1>9, LenProperties, EmptySeq
      <3>2. QED
        BY <1>4, <1>9, <2>3, <3>1 DEF Pings
    <2>4. ASSUME NEW s \in Seq(Frames), Pings(s), toTgt = Append(s, cmd_flashEraseAll), mode = "idle"
          PROVE  Reasons'
      <3>1. CASE Head(toTgt) = cmd_flashEraseAll /\ Tail(toTgt) = <<>>
        BY <1>7, <1>9, <2>1, <2>2, <2>4, <3>1, Takes, FrameFacts DEF Commands
      <3>2. ASSUME NEW r \in Seq(Frames), Head(toTgt) = cmd_ping, Tail(toTgt) = Append(r, cmd_flashEraseAll)
            PROVE  Reasons'
        <4>1. tgt_ping
          BY <2>1, <2>4, <3>2, Takes, FrameFacts
        <4>2. step = "erase"
          <5>1. Head(toTgt) = toTgt[1] /\ 1 \in 1 .. Len(toTgt)
            BY <1>3, <1>9, EmptySeq
          <5>2. In(toTgt, cmd_ping)
            BY <3>2, <5>1 DEF In
          <5>3. QED
            BY <1>4, <5>2
        <4>3. Heard' = Heard \o Pong
          BY <1>1, <4>1, Bytes, SaidHeard DEF tgt_ping
        <4>4. Line(Heard', o, k + 1, <<>>)
          BY <1>2, <1>3, <2>1, <4>3, PongSaid DEF Climb
        <4>b. PICK t : t = toTgt'
          OBVIOUS
        <4>5. t # <<>> /\ t[Len(t)] = cmd_flashEraseAll /\ Len(t) \in Nat
          <5>1. t = Append(r, cmd_flashEraseAll) /\ cmd_flashEraseAll \in Frames
            BY <2>2, <3>2, <4>b, FrameFacts
          <5>2. t # <<>> /\ t[Len(t)] = cmd_flashEraseAll /\ t \in Seq(Frames)
            BY <5>1, LastPut, AppendProperties
          <5>3. QED
            BY <5>2, LenProperties
        <4>6. Said(<<>>)'
          BY <4>1, <4>5, <4>b, <2>1 DEF Said, tgt_ping, target
        <4>7. Due' \in Int /\ (k + 1) + Due' <= k + Due
          <5>a. PICK n, m : n = Len(toTgt) /\ m = Len(t)
            OBVIOUS
          <5>1. n \in Nat /\ m = n - 1
            BY <5>a, <4>b, <1>3, <1>9, <2>2, HeadTailProperties, LenProperties
          <5>2. Due = n - 1 /\ Due' = m - 1
            BY <5>a, <4>b, <4>5, <1>9 DEF Due
          <5>3. (k + 1) + (m - 1) <= k + (n - 1) /\ m - 1 \in Int
            BY <5>1
          <5>4. QED
            BY <5>2, <5>3
        <4>8. cmd_flashEraseAll # cmd_ping /\ k + 1 \in Nat
          BY FrameFacts
        <4>9. QED
          BY <1>5, <4>2, <4>4, <4>5, <4>6, <4>7, <4>8, <4>b
      <3>3. QED
        BY <2>4, <3>1, <3>2, EraseLine
    <2>5. ASSUME NEW f \in Frames, mode = "wait", toTgt = <<tty_ack, f>>, Fits(cur.type, f.type)
          PROVE  Reasons'
      <3>1. Head(toTgt) = tty_ack /\ Tail(toTgt) = <<f>> /\ f.type # "ping"
        BY <2>5, ShortLines, FitsFacts
      <3>2. tgt_acked
        BY <2>5, <3>1, Takes, FrameFacts
      <3>3. toHost' = toHost /\ mode' # "busy"
        BY <3>2 DEF tgt_acked
      <3>4. Heard' = Heard
        BY <1>1, <3>3 DEF Heard
      <3>5. toTgt' = <<f>> /\ toTgt' # <<>> /\ Len(toTgt') = 1 /\ toTgt'[1] = f /\ f # cmd_ping
        <4>b. PICK t : t = <<f>>
          OBVIOUS
        <4>1. t # <<>> /\ Len(t) = 1 /\ t[1] = f
          BY <4>b
        <4>2. toTgt' = t
          BY <2>2, <3>1, <4>b
        <4>3. f # cmd_ping
          BY <3>1, FrameFacts
        <4>4. QED
          BY <4>1, <4>2, <4>3, <4>b
      <3>6. Said(<<>>)' /\ Line(Heard', o, k, <<>>)
        BY <1>2, <2>1, <3>3, <3>4, <3>5 DEF Climb, Said
      <3>7. Due' \in Int /\ k + Due' <= k + Due
        <4>1. Due' = 0
          BY <3>5 DEF Due
        <4>2. QED
          BY <4>1, <1>6
      <3>8. ~In(toTgt', cmd_ping) /\ (step # "erase" => k = 0)
        BY <1>2, <3>5 DEF In, Climb
      <3>9. toTgt'[Len(toTgt')] # cmd_ping
        BY <3>5
      <3>10. QED
        BY <1>5, <3>6, <3>7, <3>8, <3>9
    <2>6. ASSUME NEW f \in Frames, toTgt = <<f>>,
                 (mode = "idle" /\ f.type \in Commands) \/ (mode = "data" /\ f.type = "data")
          PROVE  Reasons'
      <3>1. Head(toTgt) = f /\ Tail(toTgt) = <<>>
        BY <2>6, ShortLines
      <3>2. tgt_frame
        BY <2>1, <2>6, <3>1, Takes
      <3>3. QED
        BY <1>7, <1>9, <2>1, <2>2, <3>1, <3>2
    <2>7. QED
      BY <1>3, <1>9, <2>3, <2>4, <2>5, <2>6 DEF Climbing
  <1>10. QED
    BY <1>8, <1>9

\* The target.
LEMMA TargetReasons ==
    ASSUME TypeInv, Position, Reasons, silences \in Nat, TargetNext
    PROVE  Reasons'
  <1>1. /\ pc' = pc /\ step' = step /\ tries' = tries /\ got' = got /\ silent' = silent
        /\ silences' = silences
    BY HostKept
  <1>2. CASE Before
    BY <1>2, PingAnswered
  <1>3. CASE pc = "ack"
    BY <1>3, FrameAnswered
  <1>4. CASE pc = "resp"
    <2>1. toTgt = <<>> /\ ~silent
      BY <1>4 DEF Reasons, Replying
    <2>2. mode = "busy" /\ Say(Resp) /\ mode' = "wait" /\ toTgt' = toTgt
      BY <2>1, NothingToDo
    <2>3. Heard = <<>>
      BY <1>4, <2>2 DEF Reasons, Replying
    <2>4. Heard' = Heard \o Resp
      BY <1>1, <2>2, Bytes, SaidHeard
    <2>5. Heard' = Resp
      BY <2>3, <2>4, Bytes, ConcatEmptySeq
    <2>6. Replying'
      BY <1>1, <2>1, <2>2, <2>5 DEF Replying
    <2>7. QED
      BY <1>1, <1>4, <2>6 DEF Reasons, Short, Resting, Connecting, Before, Waiting, GivenUp
  <1>5. CASE pc \in {"file", "data", "reset"}
    <2>1. PICK t : Through(t)
      BY <1>5 DEF Position
    <2>2. mode # "busy" /\ (toTgt = <<>> \/ toTgt = <<tty_ack>>)
      BY <2>1, ThroughLine
    <2>3. toTgt = <<tty_ack>> /\ mode = "wait"
      BY <2>1, <2>2, NothingToDo DEF Through
    <2>4. Head(toTgt) = tty_ack
      BY <2>3, ShortLines
    <2>5. tgt_acked
      BY <2>3, <2>4, Takes, FrameFacts
    <2>6. toHost' = toHost
      BY <2>5 DEF tgt_acked
    <2>7. QED
      BY <1>1, <1>5, <2>6 DEF Reasons, Short, Resting, Connecting, Before, Waiting, Replying, GivenUp
  <1>6. CASE pc \in {"done", "failed"}
    BY <1>1, <1>6 DEF Reasons, Short, Resting, Connecting, Before, Waiting, Replying, GivenUp
  <1>7. QED
    BY <1>2, <1>3, <1>4, <1>5, <1>6 DEF TypeInv, Before

\* Only a time-out changes what is counted.
LEMMA CountsChange ==
    ASSUME Next, ~tty_read_timeout
    PROVE  silences' = silences /\ late' = late
  BY DEF Next, HostNext, TargetNext, tty_read_byte, tty_read_error,
     target_connect_ping, target_connect_pong, target_flashEraseAll, target_ackLadder_ack,
     target_ackLadder_resp, target_sendFile_chunk, target_sendFile_data, file_error,
     target_reset, tgt_ping, tgt_frame, tgt_respond, tgt_acked, tgt_other, lose_frame,
     damage_frame, lose_byte, noise, finished, vars, Quiet, Host, record

\* A step of a run without faults and late answers.
LEMMA StepReasons ==
    ASSUME Inv, Reasons, silences \in Nat, Next, faults = 0, faults' = 0, ~late'
    PROVE  Reasons'
  <1>1. TypeInv /\ Position /\ faults' = faults /\ ~Fault
    BY DEF Inv, Core, StepInv, Fault
  <1>2. pc # "failed" => BookInv
    BY DEF Inv, Core, Safe
  <1>3. CASE TargetNext
    BY <1>1, <1>3, TargetReasons
  <1>4. CASE lose_frame \/ damage_frame \/ lose_byte \/ noise \/ tty_read_error \/ file_error
    BY <1>1, <1>4 DEF lose_frame, damage_frame, lose_byte, noise, tty_read_error, file_error
  <1>5. CASE finished
    BY <1>5 DEF finished, vars, host, target, record, Reasons, Short, Resting, Connecting, Before,
       Waiting, Replying, GivenUp, Climb, Said, Due, Heard, In
  <1>6. CASE tty_read_byte
    BY <1>1, <1>6, ReadReasons
  <1>7. CASE tty_read_timeout
    BY <1>1, <1>7, TimeoutReasons
  <1>8. CASE target_connect_ping
    BY <1>1, <1>8, PingReasons
  <1>9. CASE target_connect_pong
    BY <1>1, <1>9, PongReasons
  <1>10. CASE target_flashEraseAll
    BY <1>1, <1>10, EraseReasons
  <1>11. CASE target_sendFile_chunk \/ target_sendFile_data \/ target_reset
    <2>1. pc # "failed"
      BY <1>11 DEF target_sendFile_chunk, target_sendFile_data, target_reset
    <2>2. QED
      BY <1>1, <1>2, <1>11, <2>1, UploadReasons
  <1>12. CASE target_ackLadder_ack
    BY <1>1, <1>12, AckReasons
  <1>13. CASE target_ackLadder_resp
    <2>1. pc # "failed"
      BY <1>13 DEF target_ackLadder_resp
    <2>2. QED
      BY <1>1, <1>2, <1>13, <2>1, RespReasons
  <1>14. QED
    BY <1>3, <1>4, <1>5, <1>6, <1>7, <1>8, <1>9, <1>10, <1>11, <1>12, <1>13 DEF Next, HostNext

\* On a line without faults an upload fails, once it is connected, only because
\* an answer was late: left-over answers to pings take at most PingTries - 1 of
\* the tries of the erase ladder (target_flashEraseAll, target_ackLadder).
THEOREM FailuresAreJustified == Spec => []FailureJustified
  <1>1. Init => ReasonInv
    <2> SUFFICES ASSUME Init PROVE ReasonInv
      OBVIOUS
    <2>1. /\ pc = "ping" /\ step = "none" /\ tries = PingTries /\ got = <<>> /\ toHost = <<>>
          /\ toTgt = <<>> /\ silences = 0
      BY DEF Init
    <2>2. ~silent
      BY Zenon DEF Init
    <2>3. Heard = <<>>
      BY <2>1, Bytes, ConcatEmptySeq DEF Heard
    <2>4. Line(<<>>, 0, 0, <<>>)
      BY Bytes DEF Line
    <2>5. 0 + Len(toTgt) <= PingTries - tries + One(pc = "pong") /\ tries \in 0 .. PingTries
      BY <2>1, Bytes, McxispAssumption DEF One
    <2>6. Connecting
      BY <2>1, <2>2, <2>3, <2>4, <2>5 DEF Connecting, Before
    <2>7. QED
      BY <2>1, <2>2, <2>6 DEF ReasonInv, Reasons, Short, Resting, Waiting, Replying, GivenUp
  <1>2. Inv /\ Inv' /\ ReasonInv /\ [Next]_vars => ReasonInv'
    <2> SUFFICES ASSUME Inv, ReasonInv, [Next]_vars PROVE ReasonInv'
      OBVIOUS
    <2>1. CASE UNCHANGED vars
      BY <2>1 DEF vars, host, target, record, ReasonInv, Reasons, Short, Resting, Connecting, Before,
         Waiting, Replying, GivenUp, Climb, Said, Due, Heard, In
    <2>2. CASE Next
      <3>1. silences' \in Nat
        <4>1. CASE tty_read_timeout
          BY <4>1 DEF tty_read_timeout, ReasonInv
        <4>2. CASE ~tty_read_timeout
          BY <2>2, <4>2, CountsChange DEF ReasonInv
        <4>3. QED
          BY <4>1, <4>2
      <3>2. SUFFICES ASSUME faults' = 0, ~late' PROVE Reasons'
        BY <3>1 DEF ReasonInv
      <3>3. faults = 0
        <4>1. faults \in Nat /\ (Fault => faults' = faults + 1)
          BY DEF Fault, Inv, Core, TypeInv
        <4>2. faults' = faults \/ Fault
          BY <2>2 DEF Next, HostNext, TargetNext, tty_read_byte, tty_read_timeout, tty_read_error,
             target_connect_ping, target_connect_pong, target_flashEraseAll, target_ackLadder_ack,
             target_ackLadder_resp, target_sendFile_chunk, target_sendFile_data, file_error,
             target_reset, Send, tgt_ping, tgt_frame, tgt_respond, tgt_acked, tgt_other, lose_frame,
             damage_frame, lose_byte, noise, finished, vars, NoFault
        <4>3. QED
          BY <3>2, <4>1, <4>2
      <3>4. ~late
        <4>1. CASE tty_read_timeout
          BY <3>2, <4>1, Zenon DEF tty_read_timeout
        <4>2. CASE ~tty_read_timeout
          BY <2>2, <3>2, <4>2, CountsChange
        <4>3. QED
          BY <4>1, <4>2
      <3>5. QED
        BY <2>2, <3>2, <3>3, <3>4, StepReasons DEF ReasonInv
    <2>3. QED
      BY <2>1, <2>2
  <1>3. ReasonInv => FailureJustified
    <2> SUFFICES ASSUME ReasonInv, pc = "failed", step # "none", faults = 0, ~late
                 PROVE  silences >= EraseTries - (PingTries - 1)
      BY DEF FailureJustified
    <2>1. EraseTries <= silences + PingTries - 1 /\ silences \in Nat
      BY DEF ReasonInv, Reasons, GivenUp
    <2>2. QED
      BY <2>1, McxispAssumption
  <1>4. QED
    BY <1>1, <1>2, <1>3, Invariance, PTL DEF Spec
=============================================================================
