----------------------------- MODULE BspProofs ------------------------------
(***************************************************************************)
(* Proofs about the serial line of phoenixd: about Bsp, for all files,     *)
(* sizes of frames, ranges of numbers and any number of faults,            *)
(* repetitions and requests, and about Framing, for all messages, sizes of *)
(* bytes and messages and any number of frames and faults.                 *)
(*                                                                         *)
(* Bsp.  Frames carry no number.  What keeps them in order is that there   *)
(* is one message on the line at a time (LineInv): the frame on its way,   *)
(* or the one the host is at, is one that the target has everything before *)
(* and nothing behind (Ready), and the number of the target has moved away *)
(* from the host's only if the target has that very frame (HostInv).  So a *)
(* reply that the host accepts says that the frame has come.               *)
(*                                                                         *)
(* Framing.  A frame of which no byte was lost or garbled is tracked from  *)
(* the moment it is sent (Tracked): r of its bytes are read, the others    *)
(* are on the line, behind p bytes of earlier frames.  While it is being   *)
(* read the receiver holds exactly what the r bytes unescape to (MsgMid,   *)
(* BspMid), or has taken its mark for the last byte of a damaged frame and *)
(* waits for the next mark (Lost).                                         *)
(* A frame with a single garbled byte that the BSP sum covers is tracked   *)
(* as the frame of another message, whose sum is not its checksum          *)
(* (Spoilt).                                                               *)
(***************************************************************************)
EXTENDS Bsp, Framing, SequenceTheorems, FiniteSetTheorems, WellFoundedInduction, TLAPS

Requests == {"KDATA", "PDATA"}
FrTypes  == {"EHDR", "SHDR", "PHDR", "KDATA", "PDATA", "GO", "ERR", "RETR"}
RpTypes  == {"KDATA", "PDATA", "ACK", "RETR"}
FrameSet == [t : FrTypes, at : Nat \X Nat, len : Int, bad : BOOLEAN]
ReplySet == [t : RpTypes, num : Int, len : Int, bad : BOOLEAN]

TypeInv ==
    /\ pc \in {"session", "send", "reply"} /\ job \in Programs /\ want \in Programs
    /\ tgt \in {"idle", "loading", "running", "refused"}
    /\ n \in 0 .. NumMod - 1 /\ badAcks \in Nat /\ last \in ReplySet
    /\ h2t \in Seq(FrameSet) /\ t2h \in Seq(ReplySet) /\ image \in Seq(FrameSet)

\* One message at a time, and none while the host is about to send.
LineInv == /\ Len(h2t) + Len(t2h) <= 1
           /\ pc = "send" => h2t = <<>> /\ t2h = <<>>

\* Someone who has h of file f has what is before the frame at p, and nothing
\* behind it.
ReadyFor(f, h, p) ==
    /\ p \in Places(f) \cup {End(f)}
    /\ \A q \in Places(f) : Before(q, p) => q \in h
    /\ \A q \in h : q = p \/ Before(q, p)

\* The target expects the frame at p.
Ready(p) == ReadyFor(want, Have, p)

\* A frame on the line is a request to say it again, which only the session
\* sends, or one that the target is ready for.
OnLine(f) ==
    /\ tgt # "idle"
    /\ f.t = "RETR" => pc = "session"
    /\ f.t # "RETR" =>
          /\ Ready(f.at) /\ (~f.bad => f = Frame(want, f.at))
          /\ badAcks = 0 => f.at \notin Have
          /\ pc = "reply" => f.at = at

FrameInv == h2t # <<>> => OnLine(h2t[1])

\* The host is where the target is, or one frame behind it.
HostInv ==
    pc # "session" =>
        /\ job = want /\ tgt # "idle" /\ Ready(at)
        /\ tgt # "loading" => at = End(want)
        /\ n # num => IF at = End(want) THEN tgt # "loading" ELSE at \in Have
        /\ badAcks = 0 /\ pc = "send" => at \notin Have

\* A message that asks for a program, when the target has nothing of it.
Asks(r) == image = <<>> /\ n = 0 /\ (r.t = "KDATA" <=> want = Kernel)

\* A reply has the number of the target, unless it is one the host refuses; and
\* if it was not damaged, it is refused only when the frame has not come.
ReplyOk(r) ==
    /\ tgt # "idle" /\ (r.bad => badAcks > 0)
    /\ r.t \in Requests => pc = "session" /\ tgt = "loading" /\ Asks(r)
    /\ pc = "reply" => /\ r.len = 0 \/ r.num = n
                       /\ badAcks = 0 /\ (r.len = 0 \/ r.num = num) => at \notin Have

ReplyInv == t2h # <<>> => ReplyOk(t2h[1])

\* What the target would say again.
LastInv == tgt = "loading" /\ last.t \in Requests => Asks(last)

\* The target was told the end when it had everything.
RunInv ==
    /\ tgt = "running" => Places(want) \subseteq Have /\ want # Missing
    /\ tgt = "refused" => want = Missing
    /\ tgt = "idle" => image = <<>>

Inv == /\ TypeInv /\ LineInv /\ FrameInv /\ HostInv /\ ReplyInv /\ LastInv /\ RunInv
       /\ InOrder /\ NotRepeated

-----------------------------------------------------------------------------
(* Places.                                                                 *)

\* The assumptions on the constants, one by one.
LEMMA ConstantFacts ==
    /\ MsgSz \in Nat /\ MsgSz > 0 /\ NumMod \in Nat /\ NumMod > 2
    /\ Kernel \in Programs /\ Kernel # Missing /\ Missing \in Programs
  BY BspAssumption DEF Programs

\* The segments of a file.
LEMMA FileFacts ==
    ASSUME NEW f \in Programs
    PROVE  /\ Segs(f) \in Seq([load : BOOLEAN, size : Nat]) /\ Len(Segs(f)) \in Nat
           /\ Loaded(f) \subseteq 1 .. Len(Segs(f)) /\ Past(f) \in Nat /\ Past(f) > 0
           /\ Past(f) = Len(Segs(f)) + 1 /\ Past(f) \notin Loaded(f)
  <1>1. Segs(f) \in Seq([load : BOOLEAN, size : Nat])
    BY BspAssumption DEF Programs, Segs
  <1>2. Len(Segs(f)) \in Nat
    BY <1>1, LenProperties
  <1>3. Loaded(f) \subseteq 1 .. Len(Segs(f))
    BY DEF Loaded
  <1>4. QED
    BY <1>1, <1>2, <1>3 DEF Past

\* The number of pieces of a segment.
LEMMA PiecesFacts ==
    ASSUME NEW f \in Programs, NEW k \in 1 .. Len(Segs(f))
    PROVE  Segs(f)[k].size \in Nat /\ Pieces(f, k) \in Nat
  <1>1. Segs(f)[k] \in [load : BOOLEAN, size : Nat]
    BY FileFacts, ElementOfSeq
  <1>2. Segs(f)[k].size \in Nat
    BY <1>1
  <1>3. PICK s : s = Segs(f)[k].size
    OBVIOUS
  <1>4. s \div MsgSz \in Nat /\ s % MsgSz \in Nat
    BY <1>2, <1>3, ConstantFacts
  <1>5. QED
    BY <1>2, <1>3, <1>4 DEF Pieces

\* A place is the ELF header's or belongs to a segment that is loaded.
LEMMA PlaceIs ==
    ASSUME NEW f, NEW p
    PROVE  p \in Places(f) <=> \/ p = <<0, 0>> /\ f \notin {Kernel, Missing}
                               \/ \E k \in Loaded(f) : \E i \in 0 .. Pieces(f, k) : p = <<k, i>>
  <1>1. p \in SegPlaces(f) <=> \E k \in Loaded(f) : p \in {k} \X (0 .. Pieces(f, k))
    BY Zenon DEF SegPlaces
  <1>2. ASSUME NEW k, NEW S PROVE p \in {k} \X S <=> \E i \in S : p = <<k, i>>
    OBVIOUS
  <1>3. (\E k \in Loaded(f) : p \in {k} \X (0 .. Pieces(f, k))) <=>
        \E k \in Loaded(f) : \E i \in 0 .. Pieces(f, k) : p = <<k, i>>
    BY <1>2, Zenon
  <1>4. p \in HdrPlaces(f) <=> p = <<0, 0>> /\ f \notin {Kernel, Missing}
    BY DEF HdrPlaces
  <1>5. QED
    BY <1>1, <1>3, <1>4 DEF Places

\* Places are pairs of numbers before the end.
LEMMA PlaceFacts ==
    ASSUME NEW f \in Programs, NEW p \in Places(f)
    PROVE  p \in Nat \X Nat /\ p[1] < Past(f) /\ p # End(f) /\ Before(p, End(f))
  <1>1. CASE p = <<0, 0>>
    BY <1>1, FileFacts DEF End, Before
  <1>2. CASE \E k \in Loaded(f) : \E i \in 0 .. Pieces(f, k) : p = <<k, i>>
    <2>1. PICK k \in Loaded(f) : \E i \in 0 .. Pieces(f, k) : p = <<k, i>>
      BY <1>2
    <2>2. PICK i \in 0 .. Pieces(f, k) : p = <<k, i>>
      BY <2>1
    <2>3. k \in 1 .. Len(Segs(f))
      BY FileFacts
    <2>4. Pieces(f, k) \in Nat
      BY <2>3, PiecesFacts
    <2>5. k \in Nat /\ i \in Nat /\ k < Past(f)
      BY <2>3, <2>4, FileFacts
    <2>6. QED
      BY <2>2, <2>5, FileFacts DEF End, Before
  <1>3. QED
    BY <1>1, <1>2, PlaceIs

\* A non-empty set of numbers has a least element.
LEMMA Least ==
    ASSUME NEW T \in SUBSET Nat, T # {}
    PROVE  \E x \in T : \A y \in T : x <= y
  <1>1. IsWellFoundedOn(OpToRel(<, Nat), Nat)
    BY NatLessThanWellFounded
  <1>2. PICK x \in T : \A y \in T : ~(<<y, x>> \in OpToRel(<, Nat))
    BY <1>1, WFMin
  <1>3. \A y \in T : ~(y < x)
    BY <1>2 DEF OpToRel
  <1>4. QED
    BY <1>3

\* The next segment that is loaded, or the end.
LEMMA NextSegFacts ==
    ASSUME NEW f \in Programs, NEW k \in Nat, k < Past(f)
    PROVE  \E j \in Loaded(f) \cup {Past(f)} :
               /\ NextSeg(f, k) = <<j, 0>> /\ j \in Nat /\ j > k
               /\ \A i \in Loaded(f) : i > k => j <= i
  <1>1. PICK T : T = {j \in Loaded(f) \cup {Past(f)} : j > k}
    OBVIOUS
  <1>2. T \subseteq Nat /\ T # {}
    BY <1>1, FileFacts
  <1>3. \E x \in T : \A y \in T : x <= y
    BY <1>2, Least
  <1>4. Min(T) \in T /\ \A y \in T : Min(T) <= y
    BY <1>3 DEF Min
  <1>5. NextSeg(f, k) = <<Min(T), 0>>
    BY <1>1 DEF NextSeg
  <1>6. QED
    BY <1>1, <1>2, <1>4, <1>5

\* q follows p: between them there is no place.
Follows(f, p, q) ==
    /\ q \in Places(f) \cup {End(f)} /\ Before(p, q)
    /\ \A r \in Places(f) : Before(r, q) => r = p \/ Before(r, p)

\* The first piece or header of a segment is a place.
LEMMA HeaderPlace ==
    ASSUME NEW f \in Programs, NEW j \in Loaded(f) \cup {Past(f)}
    PROVE  <<j, 0>> \in Places(f) \cup {End(f)}
  <1>1. CASE j = Past(f)
    BY <1>1 DEF End
  <1>2. CASE j \in Loaded(f)
    <2>1. Pieces(f, j) \in Nat
      BY <1>2, FileFacts, PiecesFacts
    <2>2. 0 \in 0 .. Pieces(f, j)
      BY <2>1
    <2>3. QED
      BY <1>2, <2>2, PlaceIs
  <1>3. QED
    BY <1>1, <1>2

\* A transfer begins with its first frame.
LEMMA FirstFacts ==
    ASSUME NEW f \in Programs
    PROVE  /\ First(f) \in Places(f) \cup {End(f)}
           /\ \A r \in Places(f) : ~Before(r, First(f))
  <1>1. CASE f \in {Kernel, Missing}
    <2>1. First(f) = NextSeg(f, 0) /\ 0 < Past(f)
      BY <1>1, FileFacts DEF First
    <2>2. PICK j \in Loaded(f) \cup {Past(f)} :
             /\ NextSeg(f, 0) = <<j, 0>> /\ j \in Nat /\ \A i \in Loaded(f) : i > 0 => j <= i
      BY <2>1, NextSegFacts
    <2>3. ASSUME NEW r \in Places(f) PROVE ~Before(r, <<j, 0>>)
      <3>1. PICK k \in Loaded(f) : \E i \in 0 .. Pieces(f, k) : r = <<k, i>>
        BY <1>1, PlaceIs
      <3>2. r[1] = k /\ k > 0 /\ k \in Nat
        BY <3>1, FileFacts
      <3>3. r \in Nat \X Nat
        BY PlaceFacts
      <3>4. QED
        BY <2>2, <3>2, <3>3 DEF Before
    <2>4. QED
      BY <2>1, <2>2, <2>3, HeaderPlace
  <1>2. CASE f \notin {Kernel, Missing}
    <2>1. First(f) = <<0, 0>> /\ <<0, 0>> \in Places(f)
      BY <1>2, PlaceIs DEF First
    <2>2. ASSUME NEW r \in Places(f) PROVE ~Before(r, <<0, 0>>)
      <3>1. r \in Nat \X Nat
        BY PlaceFacts
      <3>2. QED
        BY <3>1 DEF Before
    <2>3. QED
      BY <2>1, <2>2
  <1>3. QED
    BY <1>1, <1>2

\* The frame that comes after another.
LEMMA AfterFacts ==
    ASSUME NEW f \in Programs, NEW p \in Places(f)
    PROVE  Follows(f, p, After(f, p))
  <1>1. p \in Nat \X Nat /\ p[1] < Past(f)
    BY PlaceFacts
  <1>2. CASE p[1] \in Loaded(f) /\ p[2] < Pieces(f, p[1])
    <2>1. PICK k, i, q : k = p[1] /\ i = p[2] /\ q = <<k, i + 1>>
      OBVIOUS
    <2>2. Pieces(f, k) \in Nat /\ k \in Nat /\ i \in Nat /\ p = <<k, i>>
      BY <1>1, <1>2, <2>1, FileFacts, PiecesFacts
    <2>3. i + 1 \in 0 .. Pieces(f, k)
      BY <1>2, <2>1, <2>2
    <2>4. q \in Places(f)
      BY <1>2, <2>1, <2>3, PlaceIs
    <2>5. Before(p, q)
      BY <2>1, <2>2 DEF Before
    <2>6. ASSUME NEW r \in Places(f), Before(r, q) PROVE r = p \/ Before(r, p)
      <3>1. r \in Nat \X Nat
        BY PlaceFacts
      <3>2. QED
        BY <2>1, <2>2, <2>6, <3>1 DEF Before
    <2>7. After(f, p) = q
      BY <1>2, <2>1 DEF After
    <2>8. QED
      BY <2>4, <2>5, <2>6, <2>7 DEF Follows
  <1>3. CASE ~(p[1] \in Loaded(f) /\ p[2] < Pieces(f, p[1]))
    <2>1. PICK k, q : k = p[1] /\ q = NextSeg(f, k)
      OBVIOUS
    <2>2. PICK j \in Loaded(f) \cup {Past(f)} :
             /\ q = <<j, 0>> /\ j \in Nat /\ j > k /\ \A i \in Loaded(f) : i > k => j <= i
      BY <1>1, <2>1, NextSegFacts
    <2>3. q \in Places(f) \cup {End(f)}
      BY <2>2, HeaderPlace
    <2>4. Before(p, q)
      BY <1>1, <2>1, <2>2 DEF Before
    <2>5. ASSUME NEW r \in Places(f), Before(r, q) PROVE r = p \/ Before(r, p)
      <3>1. r \in Nat \X Nat /\ r[1] < j
        BY <2>2, <2>5, PlaceFacts DEF Before
      <3>2. CASE r[1] = k
        <4>1. CASE k \in Loaded(f)
          <5>1. p[2] >= Pieces(f, k) /\ Pieces(f, k) \in Nat
            BY <1>1, <1>3, <2>1, <4>1, FileFacts, PiecesFacts
          <5>2. k > 0
            BY <4>1, FileFacts
          <5>3. PICK m \in Loaded(f) : \E i \in 0 .. Pieces(f, m) : r = <<m, i>>
            BY <3>2, <5>2, PlaceIs
          <5>4. r[2] \in 0 .. Pieces(f, k)
            BY <3>2, <5>3
          <5>5. QED
            BY <1>1, <2>1, <3>1, <3>2, <5>1, <5>4 DEF Before
        <4>2. CASE k \notin Loaded(f)
          <5>1. p = <<0, 0>>
            BY <2>1, <4>2, PlaceIs
          <5>2. r = <<0, 0>>
            BY <3>2, <4>2, PlaceIs
          <5>3. QED
            BY <5>1, <5>2
        <4>3. QED
          BY <4>1, <4>2
      <3>3. CASE r[1] < k
        BY <1>1, <2>1, <3>1, <3>3 DEF Before
      <3>4. CASE r[1] > k
        <4>1. PICK m \in Loaded(f) : \E i \in 0 .. Pieces(f, m) : r = <<m, i>>
          BY <1>1, <2>1, <3>1, <3>4, PlaceIs
        <4>2. m = r[1]
          BY <4>1
        <4>3. QED
          BY <2>2, <3>1, <3>4, <4>2, FileFacts
      <3>5. QED
        BY <1>1, <2>1, <3>1, <3>2, <3>3, <3>4
    <2>6. After(f, p) = q
      BY <1>3, <2>1 DEF After
    <2>7. QED
      BY <2>3, <2>4, <2>5, <2>6 DEF Follows
  <1>4. QED
    BY <1>2, <1>3

\* The order is one.
LEMMA BeforeFacts ==
    ASSUME NEW p \in Nat \X Nat, NEW q \in Nat \X Nat, NEW r \in Nat \X Nat
    PROVE  /\ ~Before(p, p) /\ (Before(p, q) => ~Before(q, p))
           /\ Before(p, q) /\ Before(q, r) => Before(p, r)
  BY DEF Before

-----------------------------------------------------------------------------
(* Frames and the line.                                                    *)

\* The frame at a place.  Only the last one says GO or ERR.
LEMMA FrameFacts ==
    ASSUME NEW f \in Programs, NEW p \in Places(f) \cup {End(f)}
    PROVE  /\ Frame(f, p) \in FrameSet /\ Frame(f, p).at = p /\ Frame(f, p).bad = FALSE
           /\ Frame(f, p).t # "RETR"
           /\ Frame(f, p).t = "GO" => p = End(f) /\ f # Missing
           /\ Frame(f, p).t = "ERR" => p = End(f) /\ f = Missing
           /\ p = End(f) => Frame(f, p).t \in {"GO", "ERR"}
  <1>1. p \in Nat \X Nat
    <2>1. CASE p \in Places(f)
      BY <2>1, PlaceFacts
    <2>2. CASE p = End(f)
      BY <2>2, FileFacts DEF End
    <2>3. QED
      BY <2>1, <2>2
  <1>2. FrLen(f, p) \in Int
    <2>1. CASE p[2] = 0
      BY <2>1 DEF FrLen
    <2>2. CASE p[2] # 0
      <3>1. p # End(f) /\ p # <<0, 0>>
        BY <2>2 DEF End
      <3>2. PICK k \in Loaded(f) : \E i \in 0 .. Pieces(f, k) : p = <<k, i>>
        BY <3>1, PlaceIs
      <3>3. p[1] = k /\ Segs(f)[k].size \in Nat
        BY <3>2, FileFacts, PiecesFacts
      <3>4. Segs(f)[k].size % MsgSz \in Int
        BY <3>3, ConstantFacts
      <3>5. QED
        BY <2>2, <3>3, <3>4, ConstantFacts DEF FrLen
    <2>3. QED
      BY <2>1, <2>2
  <1>3. /\ FrType(f, p) \in FrTypes /\ FrType(f, p) # "RETR"
        /\ FrType(f, p) = "GO" => p = End(f) /\ f # Missing
        /\ FrType(f, p) = "ERR" => p = End(f) /\ f = Missing
        /\ p = End(f) => FrType(f, p) \in {"GO", "ERR"}
    <2>1. CASE p = End(f)
      <3>1. FrType(f, p) = IF f = Missing THEN "ERR" ELSE "GO"
        <4>1. p # <<0, 0>> /\ p[1] \notin Loaded(f)
          BY <2>1, FileFacts DEF End
        <4>2. QED
          BY <2>1, <4>1 DEF FrType
      <3>2. QED
        BY <2>1, <3>1 DEF FrTypes
    <2>2. CASE p # End(f)
      <3>1. FrType(f, p) \in {"EHDR", "SHDR", "PHDR", "KDATA", "PDATA"}
        BY <2>2 DEF FrType
      <3>2. QED
        BY <2>2, <3>1 DEF FrTypes
    <2>3. QED
      BY <2>1, <2>2
  <1>4. QED
    BY <1>1, <1>2, <1>3 DEF Frame, Fr, FrameSet

\* The frame of the session.
LEMMA RetrFacts ==
    Retr \in FrameSet /\ Retr.t = "RETR"
  <1>1. <<0, 0>> \in Nat \X Nat
    OBVIOUS
  <1>2. QED
    BY <1>1 DEF Retr, Fr, FrameSet, FrTypes

\* A reply.
LEMMA ReplyFacts ==
    ASSUME NEW t \in RpTypes, NEW x \in Int, NEW l \in Int
    PROVE  /\ Rp(t, x, l) \in ReplySet /\ Rp(t, x, l).t = t /\ Rp(t, x, l).num = x
           /\ Rp(t, x, l).len = l /\ Rp(t, x, l).bad = FALSE
  BY DEF Rp, ReplySet

\* A line with one message on it.
LEMMA Single ==
    ASSUME NEW S, NEW q \in Seq(S), q # <<>>, Len(q) <= 1
    PROVE  Head(q) = q[1] /\ q[1] \in S /\ Tail(q) = <<>> /\ Len(q) = 1
  <1>0. Len(q) \in Nat \ {0}
    BY EmptySeq
  <1>1. Len(q) = 1
    BY <1>0
  <1>2. q[1] \in S
    BY <1>1, ElementOfSeq
  <1>3. Head(q) = q[1]
    BY HeadTailProperties
  <1>4. Tail(q) \in Seq(S) /\ Len(Tail(q)) = 0
    BY <1>1, HeadTailProperties
  <1>5. Tail(q) = <<>>
    BY <1>4, EmptySeq
  <1>6. QED
    BY <1>1, <1>2, <1>3, <1>5

\* A message is put on an empty line.
LEMMA Put ==
    ASSUME NEW S, NEW q, q = <<>>, NEW x \in S
    PROVE  /\ Append(q, x) \in Seq(S) /\ Len(Append(q, x)) = 1 /\ Append(q, x)[1] = x
           /\ Append(q, x) # <<>>
  <1>1. <<>> \in Seq(S)
    OBVIOUS
  <1>2. Append(<<>>, x) \in Seq(S) /\ Len(Append(<<>>, x)) = Len(<<>>) + 1
    BY <1>1, AppendProperties
  <1>3. QED
    BY <1>2

\* The two lines: when one has a message the other is empty.
LEMMA LineFacts ==
    ASSUME TypeInv, LineInv
    PROVE  /\ h2t # <<>> => t2h = <<>> /\ Len(h2t) <= 1 /\ h2t[1] \in FrameSet
                            /\ Head(h2t) = h2t[1] /\ Tail(h2t) = <<>>
           /\ t2h # <<>> => h2t = <<>> /\ Len(t2h) <= 1 /\ t2h[1] \in ReplySet
                            /\ Head(t2h) = t2h[1] /\ Tail(t2h) = <<>>
  <1>1. h2t \in Seq(FrameSet) /\ t2h \in Seq(ReplySet)
    BY DEF TypeInv
  <1>2. Len(h2t) \in Nat /\ Len(t2h) \in Nat /\ Len(h2t) <= 1 /\ Len(t2h) <= 1
    BY <1>1, LenProperties DEF LineInv
  <1>3. (h2t # <<>> => Len(h2t) = 1) /\ (t2h # <<>> => Len(t2h) = 1)
    BY <1>1, <1>2, Single
  <1>4. (h2t # <<>> => Len(t2h) = 0) /\ (t2h # <<>> => Len(h2t) = 0)
    BY <1>2, <1>3 DEF LineInv
  <1>5. (Len(t2h) = 0 => t2h = <<>>) /\ (Len(h2t) = 0 => h2t = <<>>)
    BY <1>1, EmptySeq
  <1>6. QED
    BY <1>1, <1>2, <1>4, <1>5, Single

-----------------------------------------------------------------------------
(* The steps.                                                              *)

\* No frame that says GO or ERR is in the image.
LEMMA HaveFacts ==
    ASSUME Inv
    PROVE  Have \subseteq Places(want) /\ End(want) \notin Have
  <1>1. Have \subseteq Places(want)
    BY DEF Inv, InOrder, Have
  <1>2. QED
    BY <1>1, PlaceFacts DEF Inv, TypeInv

\* The places of the frames that came, and the order in which they came, depend
\* on the request and the image alone.
LEMMA SameImage ==
    ASSUME want' = want, image' = image
    PROVE  Have' = Have /\ (InOrder => InOrder') /\ \A p : Ready(p) <=> Ready(p)'
  <1>1. Have' = Have
    BY DEF Have
  <1>2. InOrder => InOrder'
    BY DEF InOrder
  <1>3. QED
    BY <1>1, <1>2 DEF Ready

\* The steps that leave the target as it is.
TargetSame == tgt' = tgt /\ want' = want /\ image' = image /\ n' = n /\ last' = last

\* The parts of Inv that are about the lines, after a step.
LinesOk == /\ h2t' \in Seq(FrameSet) /\ t2h' \in Seq(ReplySet)
           /\ LineInv' /\ FrameInv' /\ ReplyInv'

\* The other parts hold on as long as the target does nothing.
LEMMA TargetRests ==
    ASSUME Inv, TargetSame, badAcks' \in Nat, badAcks' = 0 => badAcks = 0,
           pc' \in {"session", "send", "reply"}, job' \in Programs,
           LinesOk, HostInv'
    PROVE  Inv'
  <1>1. Have' = Have /\ InOrder'
    BY SameImage DEF Inv, TargetSame
  <1>2. TypeInv'
    BY DEF Inv, TypeInv, TargetSame, LinesOk
  <1>3. LastInv'
    BY DEF Inv, LastInv, Asks, TargetSame
  <1>4. RunInv'
    BY <1>1 DEF Inv, RunInv, TargetSame
  <1>5. NotRepeated'
    BY DEF Inv, NotRepeated, TargetSame
  <1>6. QED
    BY <1>1, <1>2, <1>3, <1>4, <1>5 DEF Inv, LinesOk

\* Both lines are empty.
LEMMA LinesEmpty ==
    ASSUME h2t' = <<>>, t2h' = <<>>
    PROVE  LinesOk
  <1>1. <<>> \in Seq(FrameSet) /\ <<>> \in Seq(ReplySet)
    OBVIOUS
  <1>2. Len(<<>>) = 0
    OBVIOUS
  <1>3. LineInv'
    BY <1>2 DEF LineInv
  <1>4. QED
    BY <1>1, <1>3 DEF LinesOk, FrameInv, ReplyInv

\* The host put a frame on the line.
LEMMA LinesFrame ==
    ASSUME NEW f \in FrameSet, h2t = <<>>, h2t' = Append(h2t, f), t2h' = <<>>,
           pc' # "send", OnLine(f)'
    PROVE  LinesOk
  <1>1. h2t' \in Seq(FrameSet) /\ Len(h2t') = 1 /\ h2t'[1] = f
    BY Put
  <1>2. <<>> \in Seq(ReplySet) /\ Len(<<>>) = 0
    OBVIOUS
  <1>3. LineInv'
    BY <1>1, <1>2 DEF LineInv
  <1>4. FrameInv'
    BY <1>1 DEF FrameInv, OnLine
  <1>5. QED
    BY <1>1, <1>2, <1>3, <1>4 DEF LinesOk, ReplyInv

\* The target put a reply on the line.
LEMMA LinesReply ==
    ASSUME NEW r \in ReplySet, t2h = <<>>, t2h' = Append(t2h, r), h2t' = <<>>,
           pc' # "send", ReplyOk(r)'
    PROVE  LinesOk
  <1>1. t2h' \in Seq(ReplySet) /\ Len(t2h') = 1 /\ t2h'[1] = r
    BY Put
  <1>2. <<>> \in Seq(FrameSet) /\ Len(<<>>) = 0
    OBVIOUS
  <1>3. LineInv'
    BY <1>1, <1>2 DEF LineInv
  <1>4. ReplyInv'
    BY <1>1 DEF ReplyInv, ReplyOk, Asks
  <1>5. QED
    BY <1>1, <1>2, <1>3, <1>4 DEF LinesOk, FrameInv

\* What the host knows holds on while it and the target rest.
LEMMA HostRests ==
    ASSUME Inv, TargetSame, badAcks' = 0 => badAcks = 0, UNCHANGED host
    PROVE  HostInv'
  <1>1. Have' = Have
    BY SameImage DEF TargetSame
  <1>2. QED
    BY <1>1 DEF Inv, HostInv, TargetSame, host, Ready

\* A transfer that returns with the lines in order.
LEMMA LeaveKeeps ==
    ASSUME Inv, TargetSame, badAcks' = badAcks, Leave, LinesOk
    PROVE  Inv'
  <1>1. pc' = "session" /\ job' \in Programs
    BY ConstantFacts DEF Leave
  <1>2. HostInv'
    BY <1>1 DEF HostInv
  <1>3. badAcks' \in Nat
    BY DEF Inv, TypeInv
  <1>4. QED
    BY <1>1, <1>2, <1>3, TargetRests
\* The session reads a message: it asks for it again, starts the transfer that
\* is asked for, or drops it.
LEMMA SessionKeeps ==
    ASSUME Inv, session_recv
    PROVE  Inv'
  <1>1. PICK r : r = t2h[1]
    OBVIOUS
  <1>2. /\ h2t = <<>> /\ t2h' = <<>> /\ Head(t2h) = r /\ r \in ReplySet
        /\ pc = "session" /\ ReplyOk(r)
    BY <1>1, LineFacts DEF Inv, session_recv, ReplyInv
  <1>3. TargetSame /\ badAcks' = badAcks /\ badAcks \in Nat
    BY DEF Inv, TypeInv, session_recv, target, TargetSame
  <1>4. job \in Programs /\ want \in Programs
    BY DEF Inv, TypeInv
  <1>5. CASE r.bad
    <2>1. h2t' = Append(h2t, Retr) /\ UNCHANGED host
      BY <1>2, <1>5 DEF session_recv
    <2>2. pc' = "session" /\ job' = job
      BY <1>2, <2>1 DEF host
    <2>3. OnLine(Retr)'
      BY <1>2, <1>3, <2>2, RetrFacts DEF OnLine, Retr, Fr, ReplyOk, TargetSame
    <2>4. LinesOk
      BY <1>2, <2>1, <2>2, <2>3, RetrFacts, LinesFrame DEF Retr, Fr
    <2>5. HostInv'
      BY <1>3, <2>1, HostRests
    <2>6. QED
      BY <1>3, <1>4, <2>2, <2>4, <2>5, TargetRests
  <1>6. CASE ~r.bad
    <2>1. h2t' = <<>>
      BY <1>2, <1>6 DEF session_recv
    <2>2. LinesOk
      BY <1>2, <2>1, LinesEmpty
    <2>3. CASE r.t = "PDATA" \/ (r.t = "KDATA" /\ r.num = 0)
      <3>1. /\ job' = IF r.t = "KDATA" THEN Kernel ELSE want
            /\ pc' = "send" /\ at' = First(job') /\ num' = 0
        BY <1>2, <1>6, <2>3 DEF session_recv
      <3>2. tgt = "loading" /\ image = <<>> /\ n = 0 /\ (r.t = "KDATA" <=> want = Kernel)
        BY <1>2, <2>3 DEF ReplyOk, Asks, Requests
      <3>3. job' = want
        BY <3>1, <3>2
      <3>4. Have = {}
        BY <3>2 DEF Have
      <3>5. ReadyFor(want, {}, First(want))
        BY <1>4, FirstFacts DEF ReadyFor
      <3>6. Have' = {}
        BY <1>3, <3>4, SameImage DEF TargetSame
      <3>7. HostInv'
        BY <1>3, <3>1, <3>2, <3>3, <3>5, <3>6 DEF HostInv, Ready, TargetSame
      <3>8. QED
        BY <1>3, <1>4, <2>2, <3>1, <3>3, <3>7, TargetRests
    <2>4. CASE ~(r.t = "PDATA" \/ (r.t = "KDATA" /\ r.num = 0))
      <3>1. UNCHANGED host
        BY <1>2, <1>6, <2>4 DEF session_recv
      <3>2. pc' = "session" /\ job' = job
        BY <1>2, <3>1 DEF host
      <3>3. QED
        BY <1>3, <1>4, <2>2, <3>1, <3>2, HostRests, TargetRests
    <2>5. QED
      BY <2>3, <2>4
  <1>7. QED
    BY <1>5, <1>6

\* The host sends the frame that the target is ready for.
LEMMA SendKeeps ==
    ASSUME Inv, bsp_send
    PROVE  Inv'
  <1>1. /\ pc = "send" /\ h2t = <<>> /\ t2h = <<>> /\ t2h' = <<>>
        /\ job = want /\ tgt # "idle" /\ Ready(at) /\ (badAcks = 0 => at \notin Have)
    BY DEF Inv, LineInv, HostInv, bsp_send
  <1>2. TargetSame /\ badAcks' = badAcks /\ badAcks \in Nat
    BY DEF Inv, TypeInv, bsp_send, target, TargetSame
  <1>3. job \in Programs /\ want \in Programs
    BY DEF Inv, TypeInv
  <1>4. PICK f : f = Frame(want, at)
    OBVIOUS
  <1>5. at \in Places(want) \cup {End(want)}
    BY <1>1 DEF Ready, ReadyFor
  <1>6. f \in FrameSet /\ f.at = at /\ f.t # "RETR"
    BY <1>3, <1>4, <1>5, FrameFacts
  <1>7. h2t' = Append(h2t, f)
    BY <1>1, <1>4 DEF bsp_send
  <1>8. Have' = Have /\ Ready(f.at)'
    BY <1>1, <1>2, <1>6, SameImage DEF TargetSame, Ready
  <1>9. CASE job = Kernel /\ at = End(job)
    <2>1. Leave
      BY <1>9 DEF bsp_send
    <2>2. pc' = "session"
      BY <2>1 DEF Leave
    <2>3. OnLine(f)'
      BY <1>1, <1>2, <1>4, <1>6, <1>8, <2>2 DEF OnLine, TargetSame
    <2>4. LinesOk
      BY <1>1, <1>6, <1>7, <2>2, <2>3, LinesFrame
    <2>5. QED
      BY <1>2, <2>1, <2>4, LeaveKeeps
  <1>10. CASE ~(job = Kernel /\ at = End(job))
    <2>1. pc' = "reply" /\ job' = job /\ at' = at /\ num' = num
      BY <1>10 DEF bsp_send
    <2>2. OnLine(f)'
      BY <1>1, <1>2, <1>4, <1>6, <1>8, <2>1 DEF OnLine, TargetSame
    <2>3. LinesOk
      BY <1>1, <1>6, <1>7, <2>1, <2>2, LinesFrame
    <2>4. HostInv'
      BY <1>1, <1>2, <1>8, <2>1 DEF Inv, HostInv, TargetSame, Ready
    <2>5. QED
      BY <1>2, <1>3, <2>1, <2>3, <2>4, TargetRests
  <1>11. QED
    BY <1>9, <1>10

\* The host cannot read or write and gives the transfer up.
LEMMA ErrorKeeps ==
    ASSUME Inv, send_error
    PROVE  Inv'
  <1>1. h2t' = <<>> /\ t2h' = <<>> /\ Leave /\ badAcks' = badAcks
    BY DEF Inv, LineInv, send_error
  <1>2. TargetSame
    BY DEF send_error, target, TargetSame
  <1>3. QED
    BY <1>1, <1>2, LinesEmpty, LeaveKeeps

\* A reply that is refused: the frame is sent again, and unless a reply was
\* damaged the target does not have it.
LEMMA RetryKeeps ==
    ASSUME Inv, bsp_req_retry
    PROVE  Inv'
  <1>1. PICK r : r = t2h[1]
    OBVIOUS
  <1>2. /\ h2t = <<>> /\ h2t' = <<>> /\ t2h' = <<>> /\ Head(t2h) = r
        /\ pc = "reply" /\ ReplyOk(r) /\ Refused(r)
    BY <1>1, LineFacts DEF Inv, bsp_req_retry, ReplyInv
  <1>3. TargetSame /\ badAcks' = badAcks /\ badAcks \in Nat
    BY DEF Inv, TypeInv, bsp_req_retry, target, TargetSame
  <1>4. LinesOk
    BY <1>2, LinesEmpty
  <1>5. CASE fails + 1 < MaxRep
    <2>1. pc' = "send" /\ job' = job /\ at' = at /\ num' = num
      BY <1>5 DEF bsp_req_retry
    <2>2. badAcks = 0 => at \notin Have
      BY <1>2, <1>3 DEF ReplyOk, Refused
    <2>3. Have' = Have
      BY <1>3, SameImage DEF TargetSame
    <2>4. HostInv'
      BY <1>2, <1>3, <2>1, <2>2, <2>3 DEF Inv, HostInv, TargetSame, Ready
    <2>5. QED
      BY <1>3, <1>4, <2>1, <2>4, TargetRests DEF Inv, TypeInv
  <1>6. CASE ~(fails + 1 < MaxRep)
    <2>1. Leave
      BY <1>6 DEF bsp_req_retry
    <2>2. QED
      BY <1>3, <1>4, <2>1, LeaveKeeps
  <1>7. QED
    BY <1>5, <1>6

\* The frame that comes after one which the target has.
LEMMA ReadyAfter ==
    ASSUME NEW f \in Programs, NEW h \in SUBSET Places(f), NEW p \in h,
           ReadyFor(f, h, p)
    PROVE  ReadyFor(f, h, After(f, p)) /\ After(f, p) \notin h
  <1>1. PICK s : s = After(f, p)
    OBVIOUS
  <1>2. Follows(f, p, s)
    BY <1>1, AfterFacts
  <1>3. p \in Nat \X Nat /\ s \in Nat \X Nat
    <2>1. p \in Places(f) /\ s \in Places(f) \cup {End(f)}
      BY <1>2 DEF Follows
    <2>2. p \in Nat \X Nat
      BY <2>1, PlaceFacts
    <2>3. End(f) \in Nat \X Nat
      BY FileFacts DEF End
    <2>4. QED
      BY <2>1, <2>2, <2>3, PlaceFacts
  <1>4. ASSUME NEW q \in Places(f), Before(q, s) PROVE q \in h
    BY <1>2, <1>4 DEF Follows, ReadyFor
  <1>5. ASSUME NEW q \in h PROVE Before(q, s)
    <2>1. q \in Nat \X Nat
      BY PlaceFacts
    <2>2. q = p \/ Before(q, p)
      BY DEF ReadyFor
    <2>3. Before(p, s)
      BY <1>2 DEF Follows
    <2>4. QED
      BY <1>3, <2>1, <2>2, <2>3, BeforeFacts
  <1>6. s \notin h
    BY <1>3, <1>5, BeforeFacts
  <1>7. QED
    BY <1>1, <1>2, <1>4, <1>5, <1>6 DEF ReadyFor, Follows

\* A reply that is accepted has the target's number, so the target has the frame
\* the host is at, or was told the end.
LEMMA Accepted ==
    ASSUME Inv, bsp_req_accept
    PROVE  /\ h2t = <<>> /\ t2h' = <<>> /\ pc = "reply" /\ Head(t2h).num = n
           /\ IF at = End(want) THEN tgt # "loading" ELSE at \in Have
  <1>1. PICK r : r = t2h[1]
    OBVIOUS
  <1>2. /\ h2t = <<>> /\ t2h' = <<>> /\ Head(t2h) = r
        /\ pc = "reply" /\ ReplyOk(r) /\ ~Refused(r)
    BY <1>1, LineFacts DEF Inv, bsp_req_accept, ReplyInv
  <1>3. r.num = n /\ n # num
    BY <1>2 DEF ReplyOk, Refused
  <1>4. QED
    BY <1>2, <1>3 DEF Inv, HostInv

\* The host goes on to the next frame, or returns.
LEMMA AcceptKeeps ==
    ASSUME Inv, bsp_req_accept
    PROVE  Inv'
  <1>1. h2t' = <<>> /\ t2h' = <<>> /\ pc = "reply"
    BY Accepted DEF bsp_req_accept
  <1>2. TargetSame /\ badAcks' = badAcks /\ badAcks \in Nat
    BY DEF Inv, TypeInv, bsp_req_accept, target, TargetSame
  <1>3. LinesOk
    BY <1>1, LinesEmpty
  <1>4. CASE at # End(job)
    <2>1. pc' = "send" /\ job' = job /\ at' = After(job, at) /\ num' = n
      BY <1>4, Accepted DEF bsp_req_accept
    <2>2. /\ want \in Programs /\ job = want /\ ReadyFor(want, Have, at)
          /\ tgt = "loading" /\ Have \subseteq Places(want)
      BY <1>1, <1>4, HaveFacts DEF Inv, TypeInv, HostInv, Ready
    <2>3. at \in Have
      BY <1>4, <2>2, Accepted
    <2>4. ReadyFor(want, Have, at') /\ at' \notin Have
      BY <2>1, <2>2, <2>3, ReadyAfter
    <2>5. Have' = Have
      BY <1>2, SameImage DEF TargetSame
    <2>6. HostInv'
      BY <1>2, <2>1, <2>2, <2>4, <2>5 DEF HostInv, Ready, TargetSame
    <2>7. QED
      BY <1>2, <1>3, <2>1, <2>2, <2>6, TargetRests
  <1>5. CASE at = End(job)
    <2>1. Leave
      BY <1>5 DEF bsp_req_accept
    <2>2. QED
      BY <1>2, <1>3, <2>1, LeaveKeeps
  <1>6. QED
    BY <1>4, <1>5

\* No reply comes in time.  The frame may still be on its way.
LEMMA TimeoutKeeps ==
    ASSUME Inv, bsp_req_timeout
    PROVE  Inv'
  <1>1. /\ h2t' = h2t /\ t2h' = t2h /\ t2h = <<>> /\ Leave /\ pc' = "session"
        /\ badAcks' = badAcks
    BY DEF bsp_req_timeout, Leave
  <1>2. TargetSame
    BY DEF bsp_req_timeout, target, TargetSame
  <1>3. Have' = Have /\ \A p : Ready(p) <=> Ready(p)'
    BY <1>2, SameImage DEF TargetSame
  <1>4. FrameInv'
    BY <1>1, <1>2, <1>3 DEF Inv, FrameInv, OnLine, TargetSame, Ready
  <1>5. LinesOk
    BY <1>1, <1>4 DEF LinesOk, Inv, TypeInv, LineInv, ReplyInv
  <1>6. QED
    BY <1>1, <1>2, <1>5, LeaveKeeps

\* The target asks for a program and forgets what it had.
LEMMA RequestKeeps ==
    ASSUME Inv, NEW f \in Programs, tgt_request(f)
    PROVE  Inv'
  <1>1. PICK x \in {0, 1} :
           Say(IF f = Kernel THEN Rp("KDATA", x, 1) ELSE Rp("PDATA", x, 3))
    BY DEF tgt_request
  <1>2. PICK r : r = IF f = Kernel THEN Rp("KDATA", x, 1) ELSE Rp("PDATA", x, 3)
    OBVIOUS
  <1>3. r \in ReplySet /\ r.bad = FALSE /\ r.t = IF f = Kernel THEN "KDATA" ELSE "PDATA"
    BY <1>2 DEF Rp, ReplySet, RpTypes
  <1>4. t2h' = Append(t2h, r) /\ last' = r
    BY <1>1, <1>2 DEF Say
  <1>5. /\ h2t = <<>> /\ t2h = <<>> /\ pc = "session"
        /\ tgt' = "loading" /\ want' = f /\ image' = <<>> /\ n' = 0 /\ badAcks' = 0
        /\ pc' = pc /\ job' = job /\ h2t' = h2t
    BY DEF tgt_request, host
  <1>6. Asks(r)'
    BY <1>3, <1>5 DEF Asks
  <1>7. ReplyOk(r)'
    BY <1>3, <1>5, <1>6 DEF ReplyOk
  <1>8. LinesOk
    BY <1>3, <1>4, <1>5, <1>7, LinesReply
  <1>9. TypeInv'
    <2>1. <<>> \in Seq(FrameSet)
      OBVIOUS
    <2>2. n' \in 0 .. NumMod - 1
      BY <1>5, ConstantFacts
    <2>3. QED
      BY <1>3, <1>4, <1>5, <1>8, <2>1, <2>2 DEF Inv, TypeInv, LinesOk
  <1>10. LastInv'
    BY <1>4, <1>6 DEF LastInv, Asks
  <1>11. RunInv' /\ HostInv'
    BY <1>5 DEF RunInv, HostInv
  <1>12. InOrder' /\ NotRepeated'
    BY <1>5 DEF InOrder, NotRepeated
  <1>13. QED
    BY <1>8, <1>9, <1>10, <1>11, <1>12 DEF Inv, LinesOk

\* What the target finds on the line.
LEMMA FrameComes ==
    ASSUME Inv, h2t # <<>>, h2t' = Tail(h2t)
    PROVE  /\ h2t' = <<>> /\ t2h = <<>> /\ Head(h2t) = h2t[1] /\ h2t[1] \in FrameSet
           /\ OnLine(h2t[1]) /\ pc # "send" /\ n \in Int /\ (n + 1) % NumMod \in 0 .. NumMod - 1
           /\ (n + 1) % NumMod # n
  <1>1. h2t' = <<>> /\ t2h = <<>> /\ Head(h2t) = h2t[1] /\ h2t[1] \in FrameSet
    BY LineFacts DEF Inv
  <1>2. OnLine(h2t[1]) /\ pc # "send"
    BY DEF Inv, FrameInv, LineInv
  <1>3. n \in 0 .. NumMod - 1
    BY DEF Inv, TypeInv
  <1>4. (n + 1) % NumMod = IF n + 1 = NumMod THEN 0 ELSE n + 1
    BY <1>3, ConstantFacts
  <1>5. QED
    BY <1>1, <1>2, <1>3, <1>4, ConstantFacts

\* A reply that leaves the target loading, with all it had.
LEMMA SayKeeps ==
    ASSUME Inv, h2t # <<>>, h2t' = Tail(h2t), tgt = "loading", NEW r \in ReplySet, Say(r),
           UNCHANGED <<tgt, image, n>>, UNCHANGED <<host, want, badAcks>>,
           ReplyOk(r)', r.t \in Requests => Asks(r)
    PROVE  Inv'
  <1>1. t2h' = Append(t2h, r) /\ last' = r /\ pc' = pc /\ job' = job /\ at' = at /\ num' = num
    BY DEF Say, host
  <1>2. h2t' = <<>> /\ t2h = <<>> /\ pc # "send"
    BY FrameComes
  <1>3. LinesOk
    BY <1>1, <1>2, LinesReply
  <1>4. Have' = Have /\ InOrder'
    BY SameImage DEF Inv
  <1>5. TypeInv'
    BY <1>1, <1>3 DEF Inv, TypeInv, LinesOk
  <1>6. LastInv'
    BY <1>1 DEF LastInv, Asks
  <1>7. RunInv' /\ HostInv' /\ NotRepeated'
    BY <1>1, <1>4 DEF Inv, RunInv, HostInv, NotRepeated, Ready
  <1>8. QED
    BY <1>3, <1>4, <1>5, <1>6, <1>7 DEF Inv, LinesOk

\* A frame with a wrong checksum is turned down; the host will refuse that reply.
LEMMA BadFrameKeeps ==
    ASSUME Inv, tgt_frame, h2t[1].bad, NEW r \in {Rp("RETR", n, 2), Rp("RETR", 0, 0)},
           Say(r), UNCHANGED <<tgt, image, n>>
    PROVE  Inv'
  <1>1. PICK f : f = h2t[1]
    OBVIOUS
  <1>2. /\ tgt = "loading" /\ h2t # <<>> /\ h2t' = Tail(h2t)
        /\ UNCHANGED <<host, want, badAcks>>
    BY DEF tgt_frame
  <1>3. OnLine(f) /\ n \in Int
    BY <1>1, <1>2, FrameComes
  <1>4. /\ r \in ReplySet /\ r.t = "RETR" /\ r.bad = FALSE
        /\ r.len = 0 \/ r.num = n
    <2>1. CASE r = Rp("RETR", n, 2)
      BY <1>3, <2>1 DEF Rp, ReplySet, RpTypes
    <2>2. CASE r = Rp("RETR", 0, 0)
      BY <2>2 DEF Rp, ReplySet, RpTypes
    <2>3. QED
      BY <2>1, <2>2
  <1>5. Have' = Have /\ pc' = pc /\ at' = at
    BY <1>2, SameImage DEF host
  <1>6. pc = "reply" /\ badAcks = 0 => at \notin Have
    BY <1>3 DEF OnLine
  <1>7. ReplyOk(r)'
    BY <1>2, <1>4, <1>5, <1>6 DEF ReplyOk, Requests
  <1>8. QED
    BY <1>2, <1>4, <1>7, SayKeeps DEF Requests

\* Only the session asks the target to say it again.
LEMMA AgainKeeps ==
    ASSUME Inv, tgt_frame, h2t[1].t = "RETR", Say([last EXCEPT !.bad = FALSE]),
           UNCHANGED <<tgt, image, n>>
    PROVE  Inv'
  <1>1. PICK f, r : f = h2t[1] /\ r = [last EXCEPT !.bad = FALSE]
    OBVIOUS
  <1>2. /\ tgt = "loading" /\ h2t # <<>> /\ h2t' = Tail(h2t)
        /\ UNCHANGED <<host, want, badAcks>>
    BY DEF tgt_frame
  <1>3. OnLine(f)
    BY <1>1, <1>2, FrameComes
  <1>4. pc' = "session"
    BY <1>1, <1>2, <1>3 DEF OnLine, host
  <1>5. r \in ReplySet /\ r.t = last.t /\ r.bad = FALSE
    BY <1>1 DEF Inv, TypeInv, ReplySet
  <1>6. r.t \in Requests => Asks(r)
    BY <1>2, <1>5 DEF Inv, LastInv, Asks
  <1>7. ReplyOk(r)'
    BY <1>2, <1>4, <1>5, <1>6 DEF ReplyOk, Asks
  <1>8. QED
    BY <1>1, <1>2, <1>5, <1>6, <1>7, SayKeeps

\* One more frame in the image.
LEMMA ImageGrows ==
    ASSUME image \in Seq(FrameSet), NEW f \in FrameSet, image' = Append(image, f)
    PROVE  /\ image' \in Seq(FrameSet) /\ Len(image) \in Nat /\ Len(image') = Len(image) + 1
           /\ \A i \in 1 .. Len(image) : image'[i] = image[i]
           /\ image'[Len(image) + 1] = f
           /\ Have' = Have \cup {f.at}
  <1>1. /\ image' \in Seq(FrameSet) /\ Len(image) \in Nat /\ Len(image') = Len(image) + 1
        /\ \A i \in 1 .. Len(image) : image'[i] = image[i]
        /\ image'[Len(image) + 1] = f
    BY AppendProperties, LenProperties
  <1>2. PICK m : m = Len(image) /\ m \in Nat
    BY <1>1
  <1>3. Have' = {image'[i].at : i \in 1 .. m + 1}
    BY <1>1, <1>2 DEF Have
  <1>4. Have = {image[i].at : i \in 1 .. m}
    BY <1>2 DEF Have
  <1>5. ASSUME NEW q PROVE q \in Have' <=> q \in Have \cup {f.at}
    <2>1. ASSUME NEW i \in 1 .. m + 1, q = image'[i].at PROVE q \in Have \cup {f.at}
      <3>1. CASE i = m + 1
        BY <1>1, <1>2, <2>1, <3>1
      <3>2. CASE i \in 1 .. m
        BY <1>1, <1>2, <1>4, <2>1, <3>2
      <3>3. QED
        BY <1>2, <3>1, <3>2
    <2>2. ASSUME NEW i \in 1 .. m, q = image[i].at PROVE q \in Have'
      <3>1. i \in 1 .. m + 1 /\ image'[i] = image[i]
        BY <1>1, <1>2
      <3>2. QED
        BY <1>3, <2>2, <3>1
    <2>3. ASSUME q = f.at PROVE q \in Have'
      <3>1. m + 1 \in 1 .. m + 1 /\ image'[m + 1] = f
        BY <1>1, <1>2
      <3>2. QED
        BY <1>3, <2>3, <3>1
    <2>4. QED
      BY <1>3, <1>4, <2>1, <2>2, <2>3
  <1>6. QED
    BY <1>1, <1>5

\* A frame that the target is ready for comes in order.
LEMMA OrderGrows ==
    ASSUME Inv, NEW f \in FrameSet, image' = Append(image, f), want' = want,
           f = Frame(want, f.at), f.at \in Places(want), Ready(f.at)
    PROVE  InOrder'
  <1>1. PICK m, p : m = Len(image) /\ p = f.at
    OBVIOUS
  <1>2. /\ m \in Nat /\ Len(image') = m + 1 /\ image'[m + 1] = f
        /\ \A i \in 1 .. m : image'[i] = image[i]
    BY <1>1, ImageGrows DEF Inv, TypeInv
  <1>3. want \in Programs /\ p \in Nat \X Nat
    BY <1>1, PlaceFacts DEF Inv, TypeInv
  <1>4. ASSUME NEW i \in 1 .. m + 1
        PROVE  /\ image'[i].at \in Places(want) /\ image'[i] = Frame(want, image'[i].at)
               /\ \A j \in 1 .. i : ~Before(image'[i].at, image'[j].at)
               /\ \A q \in Places(want) :
                     Before(q, image'[i].at) => \E j \in 1 .. i : image'[j].at = q
    <2>1. CASE i \in 1 .. m
      <3>1. /\ image[i].at \in Places(want) /\ image[i] = Frame(want, image[i].at)
            /\ \A j \in 1 .. i : ~Before(image[i].at, image[j].at)
            /\ \A q \in Places(want) :
                  Before(q, image[i].at) => \E j \in 1 .. i : image[j].at = q
        BY <1>1, <2>1 DEF Inv, InOrder
      <3>2. image'[i] = image[i] /\ \A j \in 1 .. i : image'[j] = image[j]
        BY <1>2, <2>1
      <3>3. QED
        BY <3>1, <3>2
    <2>2. CASE i = m + 1
      <3>1. ASSUME NEW j \in 1 .. m + 1 PROVE ~Before(p, image'[j].at)
        <4>1. CASE j = m + 1
          BY <1>1, <1>2, <1>3, <4>1, BeforeFacts
        <4>2. CASE j \in 1 .. m
          <5>1. PICK q : q = image[j].at
            OBVIOUS
          <5>2. q \in Have
            BY <1>1, <4>2, <5>1 DEF Have
          <5>3. q \in Places(want) /\ (q = p \/ Before(q, p))
            BY <1>1, <5>2, HaveFacts DEF Ready, ReadyFor
          <5>4. q \in Nat \X Nat
            BY <1>3, <5>3, PlaceFacts
          <5>5. ~Before(p, q)
            BY <1>3, <5>3, <5>4, BeforeFacts
          <5>6. QED
            BY <1>2, <4>2, <5>1, <5>5
        <4>3. QED
          BY <1>2, <4>1, <4>2
      <3>2. ASSUME NEW q \in Places(want), Before(q, p)
            PROVE  \E j \in 1 .. m + 1 : image'[j].at = q
        <4>1. q \in Have
          BY <1>1, <3>2 DEF Ready, ReadyFor
        <4>2. PICK j \in 1 .. m : q = image[j].at
          BY <1>1, <4>1 DEF Have
        <4>3. j \in 1 .. m + 1 /\ image'[j].at = q
          BY <1>2, <4>2
        <4>4. QED
          BY <4>3
      <3>3. QED
        BY <1>1, <1>2, <2>2, <3>1, <3>2
    <2>3. QED
      BY <1>2, <2>1, <2>2
  <1>5. QED
    BY <1>2, <1>4 DEF InOrder

\* A frame of the program is taken.
LEMMA DataKeeps ==
    ASSUME Inv, tgt_frame, ~h2t[1].bad,
           h2t[1].t \in {"SHDR", "KDATA", "EHDR", "PHDR", "PDATA"},
           image' = Append(image, h2t[1]), n' = (n + 1) % NumMod,
           Say(Rp("ACK", n', 2)), tgt' = tgt
    PROVE  Inv'
  <1>1. PICK f, r : f = h2t[1] /\ r = Rp("ACK", n', 2)
    OBVIOUS
  <1>2. /\ tgt = "loading" /\ h2t # <<>> /\ h2t' = Tail(h2t) /\ t2h' = Append(t2h, r)
        /\ last' = r /\ want' = want /\ badAcks' = badAcks
        /\ pc' = pc /\ job' = job /\ at' = at /\ num' = num
    BY <1>1 DEF tgt_frame, host, Say
  <1>3. /\ h2t' = <<>> /\ t2h = <<>> /\ OnLine(f) /\ f \in FrameSet /\ pc # "send"
        /\ n \in Int /\ n' \in 0 .. NumMod - 1 /\ n' # n
    BY <1>1, <1>2, FrameComes
  <1>4. want \in Programs /\ image \in Seq(FrameSet)
    BY DEF Inv, TypeInv
  <1>5. /\ f = Frame(want, f.at) /\ Ready(f.at) /\ (badAcks = 0 => f.at \notin Have)
        /\ pc = "reply" => f.at = at
    BY <1>1, <1>3 DEF OnLine
  <1>6. f.at \in Places(want) /\ f.at # End(want)
    <2>1. f.at \in Places(want) \cup {End(want)}
      BY <1>5 DEF Ready, ReadyFor
    <2>2. f.at # End(want)
      BY <1>1, <1>4, <1>5, <2>1, FrameFacts
    <2>3. QED
      BY <2>1, <2>2
  <1>7. InOrder'
    BY <1>1, <1>2, <1>3, <1>5, <1>6, OrderGrows
  <1>8. Have' = Have \cup {f.at} /\ image' \in Seq(FrameSet)
    BY <1>1, <1>3, <1>4, ImageGrows
  <1>9. NotRepeated'
    <2>1. PICK m : m = Len(image)
      OBVIOUS
    <2>2. /\ m \in Nat /\ Len(image') = m + 1 /\ image'[m + 1] = f
          /\ \A i \in 1 .. m : image'[i] = image[i]
      BY <1>1, <1>3, <1>4, <2>1, ImageGrows
    <2>3. ASSUME badAcks = 0, NEW i \in 1 .. m PROVE image[i].at # f.at
      BY <1>5, <2>1, <2>3 DEF Have
    <2>4. ASSUME badAcks = 0, NEW i \in 1 .. m + 1, NEW j \in 1 .. m + 1,
                 image'[i].at = image'[j].at
          PROVE  i = j
      <3>1. CASE i \in 1 .. m /\ j \in 1 .. m
        BY <2>1, <2>2, <2>4, <3>1 DEF Inv, NotRepeated
      <3>2. CASE i = m + 1 /\ j \in 1 .. m
        BY <2>2, <2>3, <2>4, <3>2
      <3>3. CASE i \in 1 .. m /\ j = m + 1
        BY <2>2, <2>3, <2>4, <3>3
      <3>4. QED
        BY <2>2, <3>1, <3>2, <3>3
    <2>5. QED
      BY <1>2, <2>2, <2>4 DEF NotRepeated
  <1>10. r \in ReplySet /\ r.t = "ACK" /\ r.num = n' /\ r.bad = FALSE /\ r.len = 2
    BY <1>1, <1>3 DEF Rp, ReplySet, RpTypes
  <1>11. pc = "reply" /\ badAcks = 0 => n' # num
    BY <1>3, <1>5, <1>6 DEF Inv, HostInv
  <1>12. ReplyOk(r)'
    BY <1>2, <1>10, <1>11 DEF ReplyOk, Requests
  <1>13. LinesOk
    BY <1>2, <1>3, <1>10, <1>12, LinesReply
  <1>14. TypeInv'
    BY <1>2, <1>3, <1>8, <1>10, <1>13 DEF Inv, TypeInv, LinesOk
  <1>15. LastInv' /\ RunInv'
    BY <1>2, <1>10 DEF LastInv, RunInv, Requests
  <1>16. HostInv'
    <2>1. SUFFICES ASSUME pc = "reply" PROVE HostInv'
      BY <1>2, <1>3 DEF HostInv, Inv, TypeInv
    <2>2. job = want /\ f.at = at
      BY <1>5, <2>1 DEF Inv, HostInv
    <2>3. ReadyFor(want, Have \cup {at}, at)
      BY <1>5, <2>2 DEF Ready, ReadyFor
    <2>4. QED
      BY <1>2, <1>6, <1>8, <2>1, <2>2, <2>3 DEF HostInv, Ready
  <1>17. QED
    BY <1>7, <1>9, <1>13, <1>14, <1>15, <1>16 DEF Inv, LinesOk

\* What the target says when it was told the end, now or before: the host is at
\* the end, which is never in the image.
LEMMA EndAcked ==
    ASSUME Inv, tgt' \in {"running", "refused"}, want' = want, image' = image,
           badAcks' = badAcks, UNCHANGED host, pc = "reply" => at = End(want),
           pc # "send", n' \in 0 .. NumMod - 1, NEW r, r = Rp("ACK", n', 2)
    PROVE  /\ r \in ReplySet /\ ReplyOk(r)'
           /\ InOrder' /\ NotRepeated' /\ LastInv' /\ HostInv' /\ Have' = Have
  <1>1. Have' = Have /\ InOrder' /\ End(want) \notin Have
    BY SameImage, HaveFacts DEF Inv
  <1>2. pc' = pc /\ job' = job /\ at' = at /\ num' = num
    BY DEF host
  <1>3. r \in ReplySet /\ r.t = "ACK" /\ r.num = n' /\ r.bad = FALSE /\ r.len = 2
    BY ConstantFacts DEF Rp, ReplySet, RpTypes
  <1>4. ReplyOk(r)'
    BY <1>1, <1>2, <1>3 DEF ReplyOk, Requests
  <1>5. NotRepeated' /\ LastInv'
    BY DEF Inv, NotRepeated, LastInv
  <1>6. HostInv'
    BY <1>1, <1>2 DEF Inv, HostInv, Ready, TypeInv
  <1>7. QED
    BY <1>1, <1>3, <1>4, <1>5, <1>6

\* The target is told to go, or that there is no such file.
LEMMA EndKeeps ==
    ASSUME Inv, tgt_frame, ~h2t[1].bad, h2t[1].t \in {"GO", "ERR"},
           tgt' = IF h2t[1].t = "GO" THEN "running" ELSE "refused",
           n' = (n + 1) % NumMod, image' = image,
           IF want = Kernel THEN UNCHANGED <<t2h, last>> ELSE Say(Rp("ACK", n', 2))
    PROVE  Inv'
  <1>1. PICK f, r : f = h2t[1] /\ r = Rp("ACK", n', 2)
    OBVIOUS
  <1>2. /\ h2t # <<>> /\ h2t' = Tail(h2t) /\ want' = want /\ badAcks' = badAcks
        /\ UNCHANGED host /\ pc' = pc /\ job' = job
    BY DEF tgt_frame, host
  <1>3. /\ h2t' = <<>> /\ t2h = <<>> /\ OnLine(f) /\ pc # "send" /\ n' \in 0 .. NumMod - 1
    BY <1>1, <1>2, FrameComes
  <1>4. want \in Programs
    BY DEF Inv, TypeInv
  <1>5. /\ f = Frame(want, f.at) /\ Ready(f.at) /\ (pc = "reply" => f.at = at)
    BY <1>1, <1>3 DEF OnLine
  <1>6. f.at \in Places(want) \cup {End(want)}
    BY <1>5 DEF Ready, ReadyFor
  <1>7. f.at = End(want) /\ (f.t = "GO" => want # Missing) /\ (f.t = "ERR" => want = Missing)
    <2>1. PICK p : p = f.at
      OBVIOUS
    <2>2. /\ Frame(want, p).t = "GO" => p = End(want) /\ want # Missing
          /\ Frame(want, p).t = "ERR" => p = End(want) /\ want = Missing
      BY <1>4, <1>6, <2>1, FrameFacts
    <2>3. Frame(want, p) = f
      BY <1>5, <2>1
    <2>4. f.t = "GO" \/ f.t = "ERR"
      BY <1>1
    <2>5. QED
      BY <2>1, <2>2, <2>3, <2>4
  <1>8. Places(want) \subseteq Have
    BY <1>4, <1>5, <1>7, PlaceFacts DEF Ready, ReadyFor
  <1>9. /\ r \in ReplySet /\ ReplyOk(r)'
        /\ InOrder' /\ NotRepeated' /\ LastInv' /\ HostInv' /\ Have' = Have
    BY <1>1, <1>2, <1>3, <1>5, <1>7, EndAcked
  <1>10. RunInv'
    BY <1>1, <1>2, <1>7, <1>8, <1>9 DEF RunInv
  <1>11. LinesOk /\ last' \in ReplySet
    <2>1. CASE want = Kernel
      <3>1. t2h' = <<>> /\ last' = last
        BY <1>3, <2>1
      <3>2. QED
        BY <1>3, <3>1, LinesEmpty DEF Inv, TypeInv
    <2>2. CASE want # Kernel
      <3>1. t2h' = Append(t2h, r) /\ last' = r
        BY <1>1, <2>2 DEF Say
      <3>2. QED
        BY <1>2, <1>3, <1>9, <3>1, LinesReply
    <2>3. QED
      BY <2>1, <2>2
  <1>12. TypeInv'
    BY <1>2, <1>3, <1>11 DEF Inv, TypeInv, LinesOk
  <1>13. QED
    BY <1>9, <1>10, <1>11, <1>12 DEF Inv, LinesOk

\* The target does one of these with a frame.
LEMMA FrameKeeps ==
    ASSUME Inv, tgt_frame
    PROVE  Inv'
  <1>1. Head(h2t) = h2t[1]
    BY FrameComes DEF tgt_frame
  <1>2. CASE /\ h2t[1].bad /\ UNCHANGED <<tgt, image, n>>
             /\ \E r \in {Rp("RETR", n, 2), Rp("RETR", 0, 0)} : Say(r)
    BY <1>2, BadFrameKeeps
  <1>3. CASE /\ h2t[1].t = "RETR" /\ UNCHANGED <<tgt, image, n>>
             /\ Say([last EXCEPT !.bad = FALSE])
    BY <1>3, AgainKeeps
  <1>4. CASE /\ ~h2t[1].bad /\ h2t[1].t \in {"SHDR", "KDATA", "EHDR", "PHDR", "PDATA"}
             /\ image' = Append(image, h2t[1]) /\ n' = (n + 1) % NumMod
             /\ Say(Rp("ACK", n', 2)) /\ tgt' = tgt
    BY <1>4, DataKeeps
  <1>5. CASE /\ ~h2t[1].bad /\ h2t[1].t \in {"GO", "ERR"}
             /\ tgt' = IF h2t[1].t = "GO" THEN "running" ELSE "refused"
             /\ n' = (n + 1) % NumMod /\ image' = image
             /\ IF want = Kernel THEN UNCHANGED <<t2h, last>> ELSE Say(Rp("ACK", n', 2))
    BY <1>5, EndKeeps
  <1>6. QED
    BY <1>1, <1>2, <1>3, <1>4, <1>5, Zenon DEF tgt_frame

\* A frame that comes after the end is acknowledged again.
LEMMA LateFrameKeeps ==
    ASSUME Inv, tgt_late_frame
    PROVE  Inv'
  <1>1. PICK r : r = Rp("ACK", n', 2)
    OBVIOUS
  <1>2. /\ h2t # <<>> /\ h2t' = Tail(h2t) /\ want' = want /\ badAcks' = badAcks
        /\ UNCHANGED host /\ pc' = pc /\ job' = job /\ n' = (n + 1) % NumMod
        /\ tgt' = tgt /\ tgt \in {"running", "refused"} /\ image' = image
        /\ t2h' = Append(t2h, r) /\ last' = r
    BY <1>1 DEF tgt_late_frame, host, Say
  <1>3. /\ h2t' = <<>> /\ t2h = <<>> /\ pc # "send" /\ n' \in 0 .. NumMod - 1
    BY <1>2, FrameComes
  <1>4. pc = "reply" => at = End(want)
    BY <1>2 DEF Inv, HostInv
  <1>5. /\ r \in ReplySet /\ ReplyOk(r)'
        /\ InOrder' /\ NotRepeated' /\ LastInv' /\ HostInv' /\ Have' = Have
    BY <1>1, <1>2, <1>3, <1>4, EndAcked
  <1>6. LinesOk
    BY <1>2, <1>3, <1>5, LinesReply
  <1>7. RunInv'
    BY <1>2, <1>5 DEF Inv, RunInv
  <1>8. TypeInv'
    BY <1>2, <1>3, <1>5, <1>6 DEF Inv, TypeInv, LinesOk
  <1>9. QED
    BY <1>5, <1>6, <1>7, <1>8 DEF Inv, LinesOk

\* What a message is after damage.
LEMMA Damaged ==
    ASSUME NEW S, NEW q \in Seq(S), q # <<>>, [q[1] EXCEPT !.bad = TRUE] \in S
    PROVE  /\ [q EXCEPT ![1].bad = TRUE] \in Seq(S)
           /\ Len([q EXCEPT ![1].bad = TRUE]) = Len(q)
           /\ [q EXCEPT ![1].bad = TRUE][1] = [q[1] EXCEPT !.bad = TRUE]
  <1>1. PICK x : x = [q[1] EXCEPT !.bad = TRUE]
    OBVIOUS
  <1>2. [q EXCEPT ![1].bad = TRUE] = [q EXCEPT ![1] = x]
    BY <1>1
  <1>3. 1 \in 1 .. Len(q)
    BY EmptySeq, LenProperties
  <1>4. x \in S
    BY <1>1
  <1>5. [q EXCEPT ![1] = x] \in Seq(S) /\ Len([q EXCEPT ![1] = x]) = Len(q)
    BY <1>3, <1>4, ExceptSeq
  <1>6. [q EXCEPT ![1] = x][1] = x
    BY <1>3, ExceptSeq
  <1>7. QED
    BY <1>1, <1>2, <1>5, <1>6

\* The line loses a frame or a reply, or damages it.
LEMMA LineKeeps ==
    ASSUME Inv, LineNext
    PROVE  Inv'
  <1>1. UNCHANGED host /\ TargetSame
    BY DEF LineNext, lose_frame, lose_reply, damage_frame, damage_reply, target, TargetSame
  <1>2. badAcks' \in Nat /\ (badAcks' = 0 => badAcks = 0)
    BY DEF LineNext, lose_frame, lose_reply, damage_frame, damage_reply, Inv, TypeInv
  <1>3. pc' = pc /\ job' = job /\ at' = at /\ num' = num
    BY <1>1 DEF host
  <1>4. Have' = Have /\ \A p : Ready(p) <=> Ready(p)'
    BY <1>1, SameImage DEF TargetSame
  <1>5. SUFFICES LinesOk
    BY <1>1, <1>2, <1>3, HostRests, TargetRests DEF Inv, TypeInv
  <1>6. CASE lose_frame
    BY <1>6, LineFacts, LinesEmpty DEF lose_frame, Inv
  <1>7. CASE lose_reply
    BY <1>7, LineFacts, LinesEmpty DEF lose_reply, Inv
  <1>8. CASE damage_frame
    <2>1. /\ h2t # <<>> /\ t2h' = <<>> /\ h2t[1] \in FrameSet /\ h2t' = [h2t EXCEPT ![1].bad = TRUE]
          /\ OnLine(h2t[1]) /\ h2t \in Seq(FrameSet) /\ Len(h2t) + Len(t2h) <= 1 /\ t2h' = t2h
          /\ badAcks' = badAcks /\ pc # "send" /\ t2h' \in Seq(ReplySet)
      BY <1>8, LineFacts DEF Inv, TypeInv, LineInv, FrameInv, damage_frame
    <2>2. PICK f, g : f = h2t[1] /\ g = [f EXCEPT !.bad = TRUE]
      OBVIOUS
    <2>3. g \in FrameSet /\ g.t = f.t /\ g.at = f.at /\ g.bad = TRUE
      BY <2>1, <2>2 DEF FrameSet
    <2>4. h2t' \in Seq(FrameSet) /\ Len(h2t') = Len(h2t) /\ h2t'[1] = g
      BY <2>1, <2>2, <2>3, Damaged
    <2>5. FrameInv'
      BY <1>1, <1>3, <1>4, <2>1, <2>2, <2>3, <2>4 DEF FrameInv, OnLine, TargetSame, Ready
    <2>6. QED
      BY <1>3, <2>1, <2>4, <2>5 DEF LinesOk, LineInv, ReplyInv
  <1>9. CASE damage_reply
    <2>1. /\ t2h # <<>> /\ h2t' = <<>> /\ t2h[1] \in ReplySet /\ t2h' = [t2h EXCEPT ![1].bad = TRUE]
          /\ ReplyOk(t2h[1]) /\ t2h \in Seq(ReplySet) /\ Len(h2t) + Len(t2h) <= 1 /\ h2t' = h2t
          /\ badAcks' = badAcks + 1 /\ badAcks \in Nat /\ pc # "send" /\ h2t' \in Seq(FrameSet)
      BY <1>9, LineFacts DEF Inv, TypeInv, LineInv, ReplyInv, damage_reply
    <2>2. PICK f, g : f = t2h[1] /\ g = [f EXCEPT !.bad = TRUE]
      OBVIOUS
    <2>3. g \in ReplySet /\ g.t = f.t /\ g.num = f.num /\ g.len = f.len /\ g.bad = TRUE
      BY <2>1, <2>2 DEF ReplySet
    <2>4. t2h' \in Seq(ReplySet) /\ Len(t2h') = Len(t2h) /\ t2h'[1] = g
      BY <2>1, <2>2, <2>3, Damaged
    <2>5. badAcks' > 0
      BY <2>1
    <2>6. ReplyInv'
      BY <1>1, <1>3, <1>4, <2>1, <2>2, <2>3, <2>4, <2>5 DEF ReplyInv, ReplyOk, Asks, TargetSame
    <2>7. QED
      BY <1>3, <2>1, <2>4, <2>6 DEF LinesOk, LineInv, FrameInv
  <1>10. QED
    BY <1>6, <1>7, <1>8, <1>9 DEF LineNext

-----------------------------------------------------------------------------
(* The theorems.                                                           *)

\* Inv holds in every state, however the line loses and damages messages.
THEOREM Invariance == Spec => []Inv
  <1>1. Init => Inv
    <2>1. SUFFICES ASSUME Init PROVE Inv
      OBVIOUS
    <2>2. <<>> \in Seq(FrameSet) /\ <<>> \in Seq(ReplySet) /\ Len(<<>>) = 0
      OBVIOUS
    <2>3. last \in ReplySet /\ last.t = "ACK"
      BY <2>1 DEF Init, Rp, ReplySet, RpTypes
    <2>4. TypeInv
      BY <2>1, <2>2, <2>3, ConstantFacts DEF Init, TypeInv
    <2>5. LineInv /\ FrameInv /\ HostInv /\ ReplyInv /\ LastInv /\ RunInv
      BY <2>1, <2>2, <2>3 DEF Init, LineInv, FrameInv, HostInv, ReplyInv, LastInv, RunInv, Requests
    <2>6. InOrder /\ NotRepeated
      BY <2>1, <2>2 DEF Init, InOrder, NotRepeated
    <2>7. QED
      BY <2>4, <2>5, <2>6 DEF Inv
  <1>2. Inv /\ [Next]_vars => Inv'
    <2>1. SUFFICES ASSUME Inv, [Next]_vars PROVE Inv'
      OBVIOUS
    <2>2. CASE HostNext
      BY <2>1, <2>2, SessionKeeps, SendKeeps, ErrorKeeps, RetryKeeps, AcceptKeeps, TimeoutKeeps
         DEF HostNext
    <2>3. CASE TargetNext
      BY <2>1, <2>3, RequestKeeps, FrameKeeps, LateFrameKeeps DEF TargetNext
    <2>4. CASE LineNext
      BY <2>1, <2>4, LineKeeps
    <2>5. CASE UNCHANGED vars
      <3>1. TargetSame /\ UNCHANGED host /\ badAcks' = badAcks /\ h2t' = h2t /\ t2h' = t2h
        BY <2>5 DEF vars, target, TargetSame
      <3>2. pc' = pc /\ job' = job /\ at' = at /\ num' = num
        BY <3>1 DEF host
      <3>3. Have' = Have /\ \A p : Ready(p) <=> Ready(p)'
        BY <3>1, SameImage DEF TargetSame
      <3>4. FrameInv' /\ ReplyInv'
        BY <2>1, <3>1, <3>2, <3>3
           DEF Inv, FrameInv, OnLine, ReplyInv, ReplyOk, Asks, TargetSame, Ready
      <3>5. LinesOk
        BY <2>1, <3>1, <3>2, <3>4 DEF LinesOk, Inv, TypeInv, LineInv
      <3>6. QED
        BY <2>1, <3>1, <3>2, <3>5, HostRests, TargetRests DEF Inv, TypeInv
    <2>6. QED
      BY <2>1, <2>2, <2>3, <2>4, <2>5 DEF Next
  <1>3. QED
    BY <1>1, <1>2, PTL DEF Spec

\* A transfer of a program that bsp_sendprogram reports as done is one that the
\* target was told to run, and the one it asked for.
THEOREM ProgramsAreDone == Spec => ProgramDone
  <1>1. Inv /\ [Next]_vars
        => [bsp_req_accept /\ at = End(job) /\ job # Missing
               => tgt = "running" /\ want = job]_vars
    <2>1. SUFFICES ASSUME Inv, bsp_req_accept, at = End(job), job # Missing
                   PROVE  tgt = "running" /\ want = job
      OBVIOUS
    <2>2. pc = "reply"
      BY <2>1, Accepted
    <2>3. job = want /\ tgt # "idle"
      BY <2>1, <2>2 DEF Inv, HostInv
    <2>4. tgt # "loading"
      BY <2>1, <2>3, Accepted
    <2>5. tgt # "refused"
      BY <2>1, <2>3 DEF Inv, RunInv
    <2>6. QED
      BY <2>1, <2>3, <2>4, <2>5 DEF Inv, TypeInv
  <1>2. QED
    BY <1>1, Invariance, PTL DEF Spec, ProgramDone

\* A segment of z bytes has d whole pieces of m bytes and a rest of e bytes.
Cut(z, m, d, e) == /\ z \in Nat /\ m \in Nat /\ d \in Nat /\ e \in Nat
                   /\ e < m /\ z = m * d + e

\* The lengths of the pieces.
PieceLen(m, d, e, i) == IF i <= d THEN m ELSE e

\* The number of the pieces.
PieceNo(d, e) == d + (IF e # 0 THEN 1 ELSE 0)

\* Dividing cuts like that.
LEMMA CutIs ==
    ASSUME NEW z \in Nat, NEW m \in Nat, m > 0, NEW d, d = z \div m, NEW e, e = z % m
    PROVE  Cut(z, m, d, e)
  <1>1. d \in Nat
    OBVIOUS
  <1>2. e \in Nat /\ e < m
    OBVIOUS
  <1>3. z = m * d + e
    OBVIOUS
  <1>4. QED
    BY <1>1, <1>2, <1>3 DEF Cut

\* How the code cuts a segment.
LEMMA CutFacts ==
    ASSUME NEW f \in Programs, NEW k \in 1 .. Len(Segs(f))
    PROVE  \E d, e : /\ Cut(Segs(f)[k].size, MsgSz, d, e) /\ Pieces(f, k) = PieceNo(d, e)
                    /\ \A i \in Nat \ {0} : FrLen(f, <<k, i>>) = PieceLen(MsgSz, d, e, i)
  <1>1. PICK z, m, d, e : z = Segs(f)[k].size /\ m = MsgSz /\ d = z \div m /\ e = z % m
    OBVIOUS
  <1>2. z \in Nat /\ m \in Nat /\ m > 0
    BY <1>1, PiecesFacts, ConstantFacts
  <1>3. Cut(z, m, d, e)
    BY <1>1, <1>2, CutIs
  <1>4. Pieces(f, k) = PieceNo(d, e)
    BY <1>1 DEF Pieces, PieceNo
  <1>5. ASSUME NEW i \in Nat \ {0} PROVE FrLen(f, <<k, i>>) = PieceLen(m, d, e, i)
    BY <1>1 DEF FrLen, PieceLen
  <1>6. QED
    BY <1>1, <1>3, <1>4, <1>5

\* The bytes of a piece are in the segment.
LEMMA PieceInside ==
    ASSUME NEW z, NEW m, NEW d, NEW e, Cut(z, m, d, e),
           NEW i \in Nat, i > 0, i <= PieceNo(d, e), NEW b \in 0 .. PieceLen(m, d, e, i) - 1
    PROVE  (i - 1) * m + b \in 0 .. z - 1
  <1>1. PICK j : j = i - 1
    OBVIOUS
  <1>2. z \in Nat /\ m \in Nat /\ d \in Nat /\ e \in Nat /\ e < m /\ z = m * d + e /\ j \in Nat
    BY <1>1 DEF Cut
  <1>3. m * j \in Nat /\ m * d \in Nat
    BY <1>2
  <1>4. CASE i <= d
    <2>1. b \in 0 .. m - 1 /\ j + 1 <= d
      BY <1>1, <1>4 DEF PieceLen
    <2>2. m * (j + 1) <= m * d
      BY <1>2, <2>1
    <2>3. m * (j + 1) = m * j + m
      BY <1>2
    <2>4. m * j + b \in 0 .. z - 1
      BY <1>2, <1>3, <2>1, <2>2, <2>3
    <2>5. QED
      BY <1>1, <1>2, <2>4
  <1>5. CASE i > d
    <2>1. j = d /\ b \in 0 .. e - 1
      BY <1>1, <1>2, <1>5 DEF PieceNo, PieceLen
    <2>2. m * j + b \in 0 .. z - 1
      BY <1>2, <1>3, <2>1
    <2>3. QED
      BY <1>1, <1>2, <2>2
  <1>6. QED
    BY <1>2, <1>4, <1>5

\* Every byte of the segment is in a piece.
LEMMA PieceOfByte ==
    ASSUME NEW z, NEW m, NEW d, NEW e, Cut(z, m, d, e), NEW x \in 0 .. z - 1
    PROVE  \E i \in 1 .. PieceNo(d, e) : \E b \in 0 .. PieceLen(m, d, e, i) - 1 :
               x = (i - 1) * m + b
  <1>1. PICK j, b : j = x \div m /\ b = x % m
    OBVIOUS
  <1>2. z \in Nat /\ m \in Nat /\ d \in Nat /\ e \in Nat /\ e < m /\ z = m * d + e
    BY DEF Cut
  <1>3. x \in Nat /\ m > 0 /\ x < z
    BY <1>2
  <1>4. j \in Nat
    BY <1>1, <1>2, <1>3
  <1>5. b \in Nat /\ b < m
    BY <1>1, <1>2, <1>3
  <1>6. x = m * j + b
    BY <1>1, <1>2, <1>3, <1>4, <1>5
  <1>7. j <= d
    <2>1. SUFFICES ASSUME j >= d + 1 PROVE FALSE
      BY <1>2, <1>4
    <2>2. m * j >= m * (d + 1)
      BY <1>2, <1>4, <2>1
    <2>3. m * (d + 1) = m * d + m /\ m * d \in Nat /\ m * j \in Nat
      BY <1>2, <1>4
    <2>4. QED
      BY <1>2, <1>3, <1>5, <1>6, <2>2, <2>3
  <1>8. j + 1 \in 1 .. PieceNo(d, e) /\ b \in 0 .. PieceLen(m, d, e, j + 1) - 1
    <2>1. CASE j < d
      BY <1>2, <1>4, <1>5, <2>1 DEF PieceNo, PieceLen
    <2>2. CASE j = d
      <3>1. m * d \in Nat
        BY <1>2
      <3>2. b < e
        BY <1>2, <1>3, <1>5, <1>6, <2>2, <3>1
      <3>3. QED
        BY <1>2, <1>5, <2>2, <3>2 DEF PieceNo, PieceLen
    <2>3. QED
      BY <1>2, <1>4, <1>7, <2>1, <2>2
  <1>9. x = ((j + 1) - 1) * m + b
    BY <1>2, <1>4, <1>5, <1>6
  <1>10. QED
    BY <1>8, <1>9

\* A target that runs has every byte that is loaded, and no other.
LEMMA BytesExact ==
    ASSUME Inv
    PROVE  AllSegments
  <1>1. SUFFICES ASSUME tgt = "running", NEW k \in 1 .. Len(Segs(want))
                 PROVE  UNION {Bytes(image[i], k) : i \in 1 .. Len(image)} =
                           IF Segs(want)[k].load THEN 0 .. Segs(want)[k].size - 1 ELSE {}
    BY DEF AllSegments
  <1>2. want \in Programs /\ Places(want) = Have
    BY <1>1, HaveFacts DEF Inv, TypeInv, RunInv
  <1>3. PICK d, e : /\ Cut(Segs(want)[k].size, MsgSz, d, e) /\ Pieces(want, k) = PieceNo(d, e)
                    /\ \A i \in Nat \ {0} : FrLen(want, <<k, i>>) = PieceLen(MsgSz, d, e, i)
    BY <1>2, CutFacts
  <1>4. k \in Loaded(want) <=> Segs(want)[k].load
    BY DEF Loaded
  <1>5. k \in Nat /\ k > 0
    BY <1>2, FileFacts
  <1>6. PICK z, m : z = Segs(want)[k].size /\ m = MsgSz
    OBVIOUS
  <1>7. Cut(z, m, d, e)
    BY <1>3, <1>6
  <1>8. ASSUME NEW c \in 1 .. Len(image), NEW x \in Bytes(image[c], k)
        PROVE  Segs(want)[k].load /\ x \in 0 .. z - 1
    <2>1. PICK p, l : p = image[c].at /\ l = image[c].len
      OBVIOUS
    <2>2. p[1] = k /\ p[2] > 0 /\ \E b \in 0 .. l - 1 : x = (p[2] - 1) * m + b
      BY <1>6, <1>8, <2>1 DEF Bytes
    <2>3. p \in Places(want) /\ image[c] = Frame(want, p)
      BY <2>1 DEF Inv, InOrder
    <2>4. l = FrLen(want, p)
      BY <2>1, <2>3 DEF Frame, Fr
    <2>5. p # <<0, 0>>
      BY <1>5, <2>2
    <2>6. PICK j \in Loaded(want) : \E i \in 0 .. Pieces(want, j) : p = <<j, i>>
      BY <2>3, <2>5, PlaceIs
    <2>7. PICK i \in 0 .. Pieces(want, j) : p = <<j, i>>
      BY <2>6
    <2>8. j = k /\ p[2] = i
      BY <2>2, <2>7
    <2>9. i \in Nat /\ i > 0 /\ i <= PieceNo(d, e)
      <3>1. Pieces(want, k) \in Nat
        BY <1>2, PiecesFacts
      <3>2. QED
        BY <1>3, <2>2, <2>7, <2>8, <3>1
    <2>10. l = PieceLen(m, d, e, i)
      BY <1>3, <1>6, <2>4, <2>7, <2>8, <2>9
    <2>11. PICK b \in 0 .. PieceLen(m, d, e, i) - 1 : x = (i - 1) * m + b
      BY <2>2, <2>8, <2>10
    <2>12. x \in 0 .. z - 1
      BY <1>7, <2>9, <2>11, PieceInside
    <2>13. QED
      BY <1>4, <2>6, <2>8, <2>12
  <1>9. ASSUME Segs(want)[k].load, NEW x \in 0 .. z - 1
        PROVE  \E c \in 1 .. Len(image) : x \in Bytes(image[c], k)
    <2>1. PICK i \in 1 .. PieceNo(d, e) : \E b \in 0 .. PieceLen(m, d, e, i) - 1 : x = (i - 1) * m + b
      BY <1>7, <1>9, PieceOfByte
    <2>2. PICK p : p = <<k, i>>
      OBVIOUS
    <2>3. Pieces(want, k) \in Nat
      BY <1>2, PiecesFacts
    <2>4. i \in 0 .. Pieces(want, k) /\ i \in Nat \ {0}
      BY <1>3, <2>1, <2>3
    <2>5. p \in Places(want)
      BY <1>4, <1>9, <2>2, <2>4, PlaceIs
    <2>6. PICK c \in 1 .. Len(image) : image[c].at = p
      BY <1>2, <2>5 DEF Have
    <2>7. image[c] = Frame(want, p)
      BY <2>6 DEF Inv, InOrder
    <2>8. image[c].len = FrLen(want, p)
      BY <2>7 DEF Frame, Fr
    <2>9. image[c].len = PieceLen(m, d, e, i)
      BY <1>3, <1>6, <2>2, <2>4, <2>8
    <2>10. x \in Bytes(image[c], k)
      BY <1>6, <2>1, <2>2, <2>4, <2>6, <2>9 DEF Bytes
    <2>11. QED
      BY <2>10
  <1>10. ASSUME NEW x
         PROVE  x \in UNION {Bytes(image[i], k) : i \in 1 .. Len(image)}
                <=> \E c \in 1 .. Len(image) : x \in Bytes(image[c], k)
    BY Zenon
  <1>11. CASE Segs(want)[k].load
    <2>1. UNION {Bytes(image[i], k) : i \in 1 .. Len(image)} = 0 .. z - 1
      BY <1>8, <1>9, <1>10, <1>11, Zenon
    <2>2. QED
      BY <1>6, <1>11, <2>1
  <1>12. CASE ~Segs(want)[k].load
    <2>1. UNION {Bytes(image[i], k) : i \in 1 .. Len(image)} = {}
      BY <1>8, <1>10, <1>12, Zenon
    <2>2. QED
      BY <1>12, <2>1
  <1>13. QED
    BY <1>11, <1>12

\* The target has a beginning of the program it asked for, in order and without
\* gaps, with no frame twice unless a reply was damaged; and when it is told to
\* go it has every byte that is loaded and no other.
THEOREM ImagesAreExact == Spec => []ImageExact
  <1>1. Inv => ImageExact
    BY BytesExact DEF Inv, ImageExact
  <1>2. QED
    BY <1>1, Invariance, PTL

-----------------------------------------------------------------------------
(* The refinement.                                                         *)

\* What BspLoad sees of a step in which the target takes no frame.
LEMMA NothingTaken ==
    ASSUME want' = want, image' = image, tgt' = "running" <=> tgt = "running"
    PROVE  UNCHANGED <<want, Have, tgt = "running">>
  <1>1. Have' = Have
    BY SameImage
  <1>2. QED
    BY <1>1

\* A frame that is taken is the next one, or the one that came last.
LEMMA TakenInOrder ==
    ASSUME Inv, NEW f, h2t[1] = f, h2t # <<>>, h2t' = Tail(h2t), ~f.bad, tgt = "loading",
           f.t \in {"SHDR", "KDATA", "EHDR", "PHDR", "PDATA"},
           image' = Append(image, f), want' = want, tgt' = tgt
    PROVE  Load!Deliver \/ UNCHANGED <<want, Have, tgt = "running">>
  <1>1. PICK p : p = f.at
    OBVIOUS
  <1>2. OnLine(f) /\ f \in FrameSet
    BY FrameComes
  <1>3. want \in Programs /\ image \in Seq(FrameSet)
    BY DEF Inv, TypeInv
  <1>4. f = Frame(want, p) /\ ReadyFor(want, Have, p)
    BY <1>1, <1>2 DEF OnLine, Ready
  <1>5. p \in Places(want)
    <2>1. p \in Places(want) \cup {End(want)}
      BY <1>4 DEF ReadyFor
    <2>2. p = End(want) => Frame(want, p).t \in {"GO", "ERR"}
      BY <1>3, <2>1, FrameFacts
    <2>3. QED
      BY <1>4, <2>1, <2>2
  <1>6. Have' = Have \cup {p}
    BY <1>1, <1>2, <1>3, ImageGrows
  <1>7. CASE p \in Have
    BY <1>6, <1>7
  <1>8. CASE p \notin Have
    <2>1. [g \in Programs |-> Places(g)][want] = Places(want)
      BY <1>3
    <2>2. {g \in Places(want) : Load!Precedes(g, p)} \subseteq Have
      BY <1>4 DEF ReadyFor, Load!Precedes, Before
    <2>3. p \in Places(want) \ Have
      BY <1>5, <1>8
    <2>4. (tgt = "running") = FALSE /\ (tgt = "running")' = (tgt = "running")
      OBVIOUS
    <2>5. QED
      BY <1>6, <2>1, <2>2, <2>3, <2>4 DEF Load!Deliver
  <1>9. QED
    BY <1>7, <1>8

\* The target is told to go when it has everything.
LEMMA ToldToGo ==
    ASSUME Inv, Inv', tgt = "loading", tgt' = "running", image' = image, want' = want
    PROVE  Load!Go
  <1>1. Have' = Have
    BY SameImage
  <1>2. Have = Places(want) /\ want \in Programs
    BY <1>1, HaveFacts DEF Inv, RunInv, TypeInv
  <1>3. [f \in Programs |-> Places(f)][want] = Places(want)
    BY <1>2
  <1>4. (tgt = "running") = FALSE /\ (tgt = "running")' = TRUE
    OBVIOUS
  <1>5. QED
    BY <1>1, <1>2, <1>3, <1>4 DEF Load!Go

\* The target's view of a transfer is the one BspLoad describes: frames come in
\* order, none is left out, GO comes after the last.
THEOREM LoadImplemented == Spec => LoadSpec
  <1>1. Init => Load!Init
    <2>1. SUFFICES ASSUME Init PROVE Load!Init
      OBVIOUS
    <2>2. want \in DOMAIN [f \in Programs |-> Places(f)]
      BY <2>1, ConstantFacts DEF Init
    <2>3. Have = {}
      BY <2>1 DEF Init, Have
    <2>4. (tgt = "running") = FALSE
      BY <2>1 DEF Init
    <2>5. QED
      BY <2>2, <2>3, <2>4 DEF Load!Init
  <1>2. Inv /\ Inv' /\ [Next]_vars => [Load!Next]_<<want, Have, tgt = "running">>
    <2>1. SUFFICES ASSUME Inv, Inv', [Next]_vars
                   PROVE  Load!Next \/ UNCHANGED <<want, Have, tgt = "running">>
      OBVIOUS
    <2>2. CASE HostNext \/ LineNext \/ tgt_late_frame \/ UNCHANGED vars
      <3>1. want' = want /\ image' = image /\ tgt' = tgt
        BY <2>2 DEF HostNext, LineNext, tgt_late_frame, session_recv, bsp_send, send_error,
              bsp_req_retry, bsp_req_accept, bsp_req_timeout, lose_frame, lose_reply,
              damage_frame, damage_reply, vars, target
      <3>2. QED
        BY <3>1, NothingTaken
    <2>3. CASE \E f \in Programs : tgt_request(f)
      <3>1. PICK f \in Programs : tgt_request(f)
        BY <2>3
      <3>2. want' = f /\ image' = <<>> /\ tgt' = "loading"
        BY <3>1 DEF tgt_request
      <3>3. Have' = {}
        BY <3>2 DEF Have
      <3>4. want' \in DOMAIN [g \in Programs |-> Places(g)]
        BY <3>2
      <3>5. (tgt = "running")' = FALSE
        BY <3>2
      <3>6. QED
        BY <3>3, <3>4, <3>5 DEF Load!Begin, Load!Next
    <2>4. CASE tgt_frame
      <3>1. /\ Head(h2t) = h2t[1] /\ h2t # <<>> /\ h2t' = Tail(h2t) /\ tgt = "loading"
            /\ want' = want
        BY <2>1, <2>4, FrameComes DEF tgt_frame
      <3>2. CASE UNCHANGED <<tgt, image, n>>
        BY <3>1, <3>2, NothingTaken
      <3>3. CASE /\ ~h2t[1].bad /\ h2t[1].t \in {"SHDR", "KDATA", "EHDR", "PHDR", "PDATA"}
                 /\ image' = Append(image, h2t[1]) /\ tgt' = tgt
        BY <2>1, <3>1, <3>3, TakenInOrder DEF Load!Next
      <3>4. CASE /\ tgt' = IF h2t[1].t = "GO" THEN "running" ELSE "refused"
                 /\ image' = image
        BY <2>1, <3>1, <3>4, ToldToGo, NothingTaken DEF Load!Next
      <3>5. QED
        BY <2>4, <3>1, <3>2, <3>3, <3>4, Zenon DEF tgt_frame
    <2>5. QED
      BY <2>1, <2>2, <2>3, <2>4 DEF Next, TargetNext
  <1>3. QED
    BY <1>1, <1>2, Invariance, PTL DEF Spec, LoadSpec, Load!Spec

-----------------------------------------------------------------------------
(* The invariant of the framing.                                           *)

\* The bytes a message is sent as.
Wire(m) == IF proto = "bsp" THEN BspFrame(m) ELSE MsgFrame(m)

\* off[i] is the place in the frame F behind the first i bytes of the message m.
MsgByteAt(F, o, x) ==
    IF x \in {MARK, ESC}
    THEN F[o + 1] = ESC /\ F[o + 2] = IF x = MARK THEN ESCMARK ELSE ESCESC
    ELSE F[o + 1] = x

MsgWidth(x) == IF x \in {MARK, ESC} THEN 2 ELSE 1

MsgLaid(F, m, off) ==
    /\ off \in [0 .. Len(m) -> Nat] /\ off[0] = 1 /\ F[1] = MARK
    /\ F \in Seq(Byte) /\ Len(F) = off[Len(m)]
    /\ \A i \in 1 .. Len(m) : /\ off[i] = off[i - 1] + MsgWidth(m[i])
                              /\ MsgByteAt(F, off[i - 1], m[i])

\* The same of a BSP frame; only bytes behind the header are escaped.
Hard(m, i) == i > HdrSz /\ Special(m[i])

BspByteAt(F, o, x, hard) ==
    IF hard THEN F[o + 1] = BSP_ESCCHAR /\ F[o + 2] = x ELSE F[o + 1] = x

BspWidth(hard) == IF hard THEN 2 ELSE 1

BspLaid(F, m, off) ==
    /\ off \in [0 .. Len(m) -> Nat] /\ off[0] = 0
    /\ F \in Seq(Byte) /\ Len(F) = off[Len(m)] + 1 /\ F[Len(F)] = BSP_ENDCHAR
    /\ \A i \in 1 .. Len(m) : /\ off[i] = off[i - 1] + BspWidth(Hard(m, i))
                              /\ BspByteAt(F, off[i - 1], m[i], Hard(m, i))

\* s[i] is the sum behind the i-th byte of the message, which leaves out what is
\* escaped,
Adds(b) == IF Special(b) THEN 0 ELSE b

Totalled(m, s) ==
    /\ s \in [2 .. Len(m) -> Byte] /\ s[2] = m[1]
    /\ \A i \in 3 .. Len(m) : s[i] = (s[i - 1] + Adds(m[i])) % ByteMod

\* and the last one is what the header has.
Matches(m, s) == m[2] = s[Len(m)]

Summed(m, s) == Totalled(m, s) /\ Matches(m, s)

Sized(m) == Len(m) \in HdrSz .. HdrSz + MaxLen

FramingType ==
    /\ line \in Seq([b : Byte, f : Nat]) /\ sent \in Seq(Seq(Byte))
    /\ damaged \subseteq 1 .. Len(sent) /\ quiet \subseteq 1 .. Len(sent)
    /\ state \in {"DESYN", "FRAME"} /\ escfl \in BOOLEAN /\ buf \in Seq(Byte)
    /\ fcs \in Byte /\ got \in Seq([f : Nat, m : Seq(Byte)])
    /\ proto \in {"serial", "tcp", "bsp"}

\* A message has a length, or a checksum, that is its own.
MessageOk(m) ==
    /\ Len(m) \in HdrSz .. HdrSz + MaxLen
    /\ proto # "bsp" => m[2] = Len(m) - HdrSz
    /\ proto = "bsp" => \E s : Summed(m, s)

SentInv == \A f \in 1 .. Len(sent) : MessageOk(sent[f])

\* Frames come in the order in which they were sent.
Tags ==
    /\ \A i \in 1 .. Len(line) : line[i].f \in 1 .. Len(sent)
    /\ \A i, j \in 1 .. Len(line) : i <= j => line[i].f <= line[j].f
    /\ \A j \in 1 .. Len(got) : got[j].f \in 1 .. Len(sent)
    /\ \A i \in 1 .. Len(line), j \in 1 .. Len(got) : got[j].f <= line[i].f

\* A receiver between two frames has kept nothing of the one before.
RestInv ==
    /\ proto # "bsp" /\ state = "DESYN" => buf = <<>> /\ escfl = FALSE
    /\ proto = "bsp" /\ Len(buf) < HdrSz => escfl = FALSE

Idle == buf = <<>> /\ escfl = FALSE /\ (proto # "bsp" => state = "DESYN")

\* r bytes of f's frame F are read; the others are on the line, behind p bytes
\* of earlier frames.
Placed(f, F, p, r) ==
    /\ p \in Nat /\ r \in 0 .. Len(F) /\ (p + Len(F)) - r <= Len(line)
    /\ r > 0 => p = 0
    /\ \A i \in 1 .. Len(line) :
           /\ i <= p => line[i].f < f
           /\ i > p /\ i <= (p + Len(F)) - r => line[i] = [b |-> F[(r + i) - p], f |-> f]
           /\ i > (p + Len(F)) - r => line[i].f > f

\* The receiver is known to begin to read the frame in its place.
InPlace(f) == IF proto = "bsp" THEN f \in quiet \/ f - 1 \in quiet \ damaged
              ELSE f - 1 \notin damaged

Lost(f) == f \in eaten /\ f - 1 \in damaged

\* i bytes of the message m are read, and with h = 1 the escape of the next one.
Holds(m, i, h) == buf = SubSeq(m, 1, i) /\ (IF h = 1 THEN escfl = TRUE ELSE escfl = FALSE)

MsgHolds(f, m, i, h) == \/ state = "FRAME" /\ Holds(m, i, h)
                        \/ state = "DESYN" /\ Lost(f)

MsgMid(f, F, m, r) ==
    \E off : /\ MsgLaid(F, m, off)
             /\ \E i \in 0 .. Len(m) - 1, h \in {0, 1} :
                    /\ r = off[i] + h /\ (h = 1 => m[i + 1] \in {MARK, ESC})
                    /\ MsgHolds(f, m, i, h)

BspHolds(m, s, i, h) == Holds(m, i, h) /\ fcs = IF i = 1 THEN m[1] ELSE s[i]

BspAt(F, m, r, off, s) ==
    /\ BspLaid(F, m, off) /\ Totalled(m, s)
    /\ \E i \in 1 .. Len(m), h \in {0, 1} :
           /\ r = off[i] + h /\ (h = 1 => i < Len(m) /\ Hard(m, i + 1))
           /\ BspHolds(m, s, i, h)

BspMid(F, m, r) == \E off, s : BspAt(F, m, r, off, s) /\ Matches(m, s)

Mid(f, F, m, r) == IF proto = "bsp" THEN InPlace(f) => BspMid(F, m, r) ELSE MsgMid(f, F, m, r)

Done(f) == IF proto = "bsp" THEN InPlace(f) /\ Len(sent[f]) < HdrSz + MaxLen => Delivered(f)
           ELSE Delivered(f) \/ Lost(f)

Unread(f) == \A j \in 1 .. Len(got) : got[j].f # f

Tracked(f, F, p, r) ==
    /\ Placed(f, F, p, r)
    /\ r = 0 /\ p = 0 /\ InPlace(f) => Idle
    /\ 0 < r /\ r < Len(F) => Mid(f, F, sent[f], r)
    /\ r = Len(F) => Done(f)
    /\ f \in quiet => p = 0
    /\ r < Len(F) /\ (proto = "bsp" => f \in quiet) => Unread(f)

FramesInv == \A f \in 1 .. Len(sent) : f \notin damaged => \E p, r : Tracked(f, Wire(sent[f]), p, r)

NextInv ==
    line = <<>> /\ (IF proto = "bsp" THEN Len(sent) \in quiet \ damaged ELSE Len(sent) \notin damaged)
        => Idle

-----------------------------------------------------------------------------
(* What the frames look like.                                              *)

LEMMA ByteFacts ==
    /\ ByteMod \in Nat /\ MaxLen \in Nat /\ MaxLen >= 1
    /\ MARK \in Byte /\ ESC \in Byte /\ ESCMARK \in Byte /\ ESCESC \in Byte
    /\ MaxLen < ByteMod /\ MARK # ESC /\ ESCMARK # MARK /\ ESCMARK # ESC
    /\ ESCESC # MARK /\ ESCESC # ESC /\ ESCMARK # ESCESC
  <1>1. /\ ByteMod \in Nat /\ MaxLen \in Nat /\ MaxLen >= 1
        /\ MARK \in Byte /\ ESC \in Byte /\ ESCMARK \in Byte /\ ESCESC \in Byte
        /\ MaxLen < ByteMod
    BY ByteAssumption
  <1>2. ASSUME NEW a, NEW b, NEW c PROVE Cardinality({a, b, c}) <= 3 /\ Cardinality({a, b, c}) \in Nat
    <2>1. IsFiniteSet({}) /\ Cardinality({}) = 0
      BY FS_EmptySet
    <2>2. IsFiniteSet({a}) /\ Cardinality({a}) = 1
      BY FS_Singleton
    <2>3. IsFiniteSet({a} \cup {b}) /\ Cardinality({a} \cup {b}) \in {1, 2}
      BY <2>2, FS_AddElement
    <2>4. Cardinality(({a} \cup {b}) \cup {c}) \in {1, 2, 3}
      BY <2>3, FS_AddElement
    <2>5. ({a} \cup {b}) \cup {c} = {a, b, c}
      OBVIOUS
    <2>6. QED
      BY <2>4, <2>5
  <1>3. Cardinality({MARK, ESC, ESCMARK, ESCESC}) = 4
    BY ByteAssumption
  <1>4. ASSUME NEW a, NEW b, NEW c, {MARK, ESC, ESCMARK, ESCESC} = {a, b, c} PROVE FALSE
    <2>a. PICK x : x = Cardinality({a, b, c})
      OBVIOUS
    <2>1. x \in Nat /\ x <= 3
      BY <1>2, <2>a
    <2>2. x = 4
      BY <1>3, <1>4, <2>a
    <2>3. QED
      BY <2>1, <2>2
  <1>5. MARK # ESC
    <2>1. MARK = ESC => {MARK, ESC, ESCMARK, ESCESC} = {ESC, ESCMARK, ESCESC}
      OBVIOUS
    <2>2. QED
      BY <1>4, <2>1
  <1>6. MARK # ESCMARK
    <2>1. MARK = ESCMARK => {MARK, ESC, ESCMARK, ESCESC} = {ESC, ESCMARK, ESCESC}
      OBVIOUS
    <2>2. QED
      BY <1>4, <2>1
  <1>7. MARK # ESCESC
    <2>1. MARK = ESCESC => {MARK, ESC, ESCMARK, ESCESC} = {ESC, ESCMARK, ESCESC}
      OBVIOUS
    <2>2. QED
      BY <1>4, <2>1
  <1>8. ESC # ESCMARK
    <2>1. ESC = ESCMARK => {MARK, ESC, ESCMARK, ESCESC} = {MARK, ESCMARK, ESCESC}
      OBVIOUS
    <2>2. QED
      BY <1>4, <2>1
  <1>9. ESC # ESCESC
    <2>1. ESC = ESCESC => {MARK, ESC, ESCMARK, ESCESC} = {MARK, ESCMARK, ESCESC}
      OBVIOUS
    <2>2. QED
      BY <1>4, <2>1
  <1>10. ESCMARK # ESCESC
    <2>1. ESCMARK = ESCESC => {MARK, ESC, ESCMARK, ESCESC} = {MARK, ESC, ESCESC}
      OBVIOUS
    <2>2. QED
      BY <1>4, <2>1
  <1>11. QED
    BY <1>1, <1>5, <1>6, <1>7, <1>8, <1>9, <1>10

\* The routines that send write the frame piece by piece: e[i] is what there is
\* behind i pieces, w[i] the i-th piece.
Chain(e, N, w) == /\ e \in [0 .. N -> Seq(Byte)]
                  /\ \A i \in 1 .. N : e[i] = e[i - 1] \o w[i]

LEMMA ChainExists ==
    ASSUME NEW N \in Nat, NEW z \in Seq(Byte), NEW w \in [1 .. N -> Seq(Byte)]
    PROVE  \E e : Chain(e, N, w) /\ e[0] = z
  <1>a. PICK T : T = {k \in Nat : k <= N /\ ~\E e : Chain(e, k, w) /\ e[0] = z}
    OBVIOUS
  <1>1. SUFFICES ASSUME ~\E e : Chain(e, N, w) /\ e[0] = z PROVE FALSE
    OBVIOUS
  <1>2. T \in SUBSET Nat /\ N \in T
    BY <1>1, <1>a
  <1>3. PICK k \in T : \A y \in T : k <= y
    BY <1>2, Least
  <1>4. k \in Nat /\ k <= N /\ ~\E e : Chain(e, k, w) /\ e[0] = z
    BY <1>3, <1>a
  <1>5. k # 0
    <2>a. PICK e : e = [j \in 0 .. 0 |-> z]
      OBVIOUS
    <2>1. Chain(e, 0, w) /\ e[0] = z
      BY <2>a DEF Chain
    <2>2. QED
      BY <1>4, <2>1
  <1>b. PICK h : h = k - 1
    OBVIOUS
  <1>6. h \in Nat /\ h <= N /\ h \notin T /\ k = h + 1
    BY <1>3, <1>4, <1>5, <1>b
  <1>7. PICK e : Chain(e, h, w) /\ e[0] = z
    BY <1>6, <1>a
  <1>c. PICK y : y = e[h] \o w[k]
    OBVIOUS
  <1>8. e[h] \in Seq(Byte) /\ w[k] \in Seq(Byte)
    BY <1>4, <1>6, <1>7 DEF Chain
  <1>9. y \in Seq(Byte)
    BY <1>8, <1>c, ConcatProperties
  <1>d. PICK g : g = [j \in 0 .. k |-> IF j = k THEN y ELSE e[j]]
    OBVIOUS
  <1>10. g \in [0 .. k -> Seq(Byte)] /\ g[0] = z
    BY <1>d, <1>6, <1>7, <1>9 DEF Chain
  <1>11. ASSUME NEW i \in 1 .. k PROVE g[i] = g[i - 1] \o w[i]
    <2>1. CASE i = k
      <3>1. g[i] = y /\ i - 1 = h /\ h \in 0 .. k /\ h # k
        BY <2>1, <1>d, <1>6
      <3>2. g[h] = e[h]
        BY <3>1, <1>d
      <3>3. QED
        BY <2>1, <3>1, <3>2, <1>c
    <2>2. CASE i # k
      <3>1. i \in 1 .. h /\ g[i] = e[i] /\ g[i - 1] = e[i - 1]
        BY <2>2, <1>d, <1>6
      <3>2. e[i] = e[i - 1] \o w[i]
        BY <3>1, <1>7 DEF Chain
      <3>3. QED
        BY <3>1, <3>2
    <2>3. QED
      BY <2>1, <2>2
  <1>12. Chain(g, k, w)
    BY <1>10, <1>11 DEF Chain
  <1>13. QED
    BY <1>4, <1>10, <1>12

\* Whatever solves the equation of such a loop is a chain.
LEMMA ChainIs ==
    ASSUME NEW N \in Nat, NEW z \in Seq(Byte), NEW w \in [1 .. N -> Seq(Byte)],
           NEW c, DOMAIN c = 0 .. N, c = [i \in 0 .. N |-> c[i]], c[0] = z,
           \A i \in 1 .. N : c[i] = c[i - 1] \o w[i]
    PROVE  Chain(c, N, w)
  <1>a. PICK T : T = {k \in Nat : k <= N /\ c[k] \notin Seq(Byte)}
    OBVIOUS
  <1>1. CASE T # {}
    <2>0. T \in SUBSET Nat
      BY <1>a
    <2>1. PICK k \in T : \A y \in T : k <= y
      BY <1>1, <2>0, Least
    <2>2. k \in Nat /\ k <= N /\ c[k] \notin Seq(Byte)
      BY <2>1, <1>a
    <2>3. k # 0
      BY <2>2
    <2>b. PICK h : h = k - 1
      OBVIOUS
    <2>4. h \in Nat /\ h <= N /\ h \notin T /\ k \in 1 .. N
      BY <2>1, <2>2, <2>3, <2>b
    <2>5. c[h] \in Seq(Byte)
      BY <2>4, <1>a
    <2>6. c[k] = c[h] \o w[k] /\ w[k] \in Seq(Byte)
      BY <2>4, <2>b
    <2>7. QED
      BY <2>2, <2>5, <2>6, ConcatProperties
  <1>2. CASE T = {}
    <2>1. ASSUME NEW k \in 0 .. N PROVE c[k] \in Seq(Byte)
      <3>1. k \in Nat /\ k <= N /\ k \notin T
        BY <1>2
      <3>2. QED
        BY <3>1, <1>a
    <2>2. QED
      BY <2>1 DEF Chain
  <1>3. QED
    BY <1>1, <1>2

\* What is written stays.
LEMMA ChainPrefix ==
    ASSUME NEW N \in Nat, NEW w \in [1 .. N -> Seq(Byte)], NEW e, Chain(e, N, w), NEW a \in 0 .. N
    PROVE  /\ e[a] \in Seq(Byte) /\ e[N] \in Seq(Byte) /\ Len(e[a]) <= Len(e[N])
           /\ \A k \in 1 .. Len(e[a]) : e[N][k] = e[a][k]
  <1>d. DEFINE Keeps(d) == /\ e[a] \in Seq(Byte) /\ e[d] \in Seq(Byte) /\ Len(e[a]) <= Len(e[d])
                     /\ \A k \in 1 .. Len(e[a]) : e[d][k] = e[a][k]
  <1>a. PICK T : T = {d \in Nat : d >= a /\ d <= N /\ ~Keeps(d)}
    OBVIOUS
  <1>1. CASE T # {}
    <2>0. T \in SUBSET Nat
      BY <1>a
    <2>1. PICK d \in T : \A y \in T : d <= y
      BY <1>1, <2>0, Least
    <2>2. d \in Nat /\ d >= a /\ d <= N /\ ~Keeps(d)
      BY <2>1, <1>a
    <2>3. CASE d = a
      BY <2>2, <2>3 DEF Chain
    <2>4. CASE d # a
      <3>b. PICK h : h = d - 1
        OBVIOUS
      <3>1. h \in Nat /\ h >= a /\ h <= N /\ h \notin T /\ d \in 1 .. N
        BY <2>1, <2>2, <2>4, <3>b
      <3>2. Keeps(h)
        BY <3>1, <1>a
      <3>3. e[d] = e[h] \o w[d] /\ w[d] \in Seq(Byte)
        BY <3>1, <3>b DEF Chain
      <3>c. PICK x, v, u : x = e[h] /\ v = w[d] /\ u = e[a]
        OBVIOUS
      <3>4. x \in Seq(Byte) /\ v \in Seq(Byte) /\ u \in Seq(Byte) /\ e[d] = x \o v /\ Len(u) <= Len(x)
        BY <3>2, <3>3, <3>c
      <3>5. /\ x \o v \in Seq(Byte) /\ Len(x \o v) = Len(x) + Len(v)
            /\ \A k \in 1 .. Len(x) : (x \o v)[k] = x[k]
        BY <3>4
      <3>6. Len(u) \in Nat /\ Len(x) \in Nat /\ Len(v) \in Nat
        BY <3>4, LenProperties
      <3>7. ASSUME NEW k \in 1 .. Len(u) PROVE (x \o v)[k] = u[k]
        <4>1. k \in 1 .. Len(x)
          BY <3>4, <3>6
        <4>2. x[k] = u[k]
          BY <3>2, <3>c
        <4>3. QED
          BY <3>5, <4>1, <4>2
      <3>8. Len(u) <= Len(x \o v)
        BY <3>4, <3>5, <3>6
      <3>9. Keeps(d)
        BY <3>4, <3>5, <3>7, <3>8, <3>c
      <3>10. QED
        BY <2>2, <3>9
    <2>5. QED
      BY <2>3, <2>4
  <1>2. CASE T = {}
    <2>1. N \notin T
      BY <1>2
    <2>2. Keeps(N)
      BY <2>1, <1>a
    <2>3. QED
      BY <2>2
  <1>3. QED
    BY <1>1, <1>2

\* The bytes v are in F behind the o-th.
Written(F, o, v) == \A k \in 1 .. Len(v) : F[o + k] = v[k]

LEMMA PieceAt ==
    ASSUME NEW N \in Nat, NEW w \in [1 .. N -> Seq(Byte)], NEW e, Chain(e, N, w), NEW i \in 1 .. N
    PROVE  /\ Len(e[i - 1]) \in Nat /\ Len(e[i]) = Len(e[i - 1]) + Len(w[i])
           /\ Written(e[N], Len(e[i - 1]), w[i])
  <1>a. PICK x, v, y : x = e[i - 1] /\ v = w[i] /\ y = e[i]
    OBVIOUS
  <1>1. i - 1 \in 0 .. N /\ i \in 0 .. N
    OBVIOUS
  <1>2. x \in Seq(Byte) /\ v \in Seq(Byte) /\ y = x \o v
    BY <1>a, <1>1 DEF Chain
  <1>3. Len(x) \in Nat /\ Len(v) \in Nat
    BY <1>2, LenProperties
  <1>4. /\ Len(y) = Len(x) + Len(v)
        /\ \A k \in 1 .. Len(v) : y[Len(x) + k] = v[k]
    BY <1>2, <1>3
  <1>5. \A k \in 1 .. Len(y) : e[N][k] = y[k]
    BY <1>1, <1>a, ChainPrefix
  <1>6. ASSUME NEW k \in 1 .. Len(v) PROVE e[N][Len(x) + k] = v[k]
    <2>1. Len(x) + k \in 1 .. Len(y)
      BY <1>3, <1>4
    <2>2. QED
      BY <2>1, <1>4, <1>5
  <1>7. QED
    BY <1>3, <1>4, <1>6, <1>a DEF Written

LEMMA Ended ==
    ASSUME NEW G \in Seq(Byte), NEW x \in Byte, NEW F, F = G \o <<x>>
    PROVE  /\ F \in Seq(Byte) /\ Len(F) = Len(G) + 1 /\ F[Len(F)] = x
           /\ \A k \in 1 .. Len(G) : F[k] = G[k]
  <1>a. PICK q : q = <<x>>
    OBVIOUS
  <1>1. q \in Seq(Byte) /\ Len(q) = 1 /\ q[1] = x /\ F = G \o q
    BY <1>a
  <1>2. Len(G) \in Nat
    BY LenProperties
  <1>3. F \in Seq(Byte) /\ Len(F) = Len(G) + 1
    BY <1>1, <1>2
  <1>4. F[Len(G) + 1] = q[1]
    BY <1>1, <1>2, <1>3
  <1>5. \A k \in 1 .. Len(G) : F[k] = G[k]
    BY <1>1, <1>2, <1>3
  <1>6. QED
    BY <1>1, <1>3, <1>4, <1>5

LEMMA EscapedIs ==
    ASSUME NEW b \in Byte
    PROVE  /\ Escaped(b) \in Seq(Byte) /\ Len(Escaped(b)) = MsgWidth(b)
           /\ b \in {MARK, ESC} => /\ Escaped(b)[1] = ESC
                                   /\ Escaped(b)[2] = IF b = MARK THEN ESCMARK ELSE ESCESC
           /\ b \notin {MARK, ESC} => Escaped(b)[1] = b
  <1>1. CASE b = MARK
    <2>1. Escaped(b) = <<ESC, ESCMARK>>
      BY <1>1 DEF Escaped
    <2>2. QED
      BY <1>1, <2>1, ByteFacts DEF MsgWidth
  <1>2. CASE b = ESC
    <2>1. Escaped(b) = <<ESC, ESCESC>>
      BY <1>2, ByteFacts DEF Escaped
    <2>2. QED
      BY <1>2, <2>1, ByteFacts DEF MsgWidth
  <1>3. CASE b # MARK /\ b # ESC
    <2>1. Escaped(b) = <<b>>
      BY <1>3 DEF Escaped
    <2>2. QED
      BY <1>3, <2>1 DEF MsgWidth
  <1>4. QED
    BY <1>1, <1>2, <1>3

LEMMA MsgFrameLaid ==
    ASSUME NEW m \in Seq(Byte)
    PROVE  \E off : MsgLaid(MsgFrame(m), m, off)
  <1>a. PICK N, z : N = Len(m) /\ z = <<MARK>>
    OBVIOUS
  <1>0. N \in Nat /\ z \in Seq(Byte) /\ Len(z) = 1 /\ z[1] = MARK
    BY <1>a, LenProperties, ByteFacts
  <1>1. ASSUME NEW i \in 1 .. N PROVE m[i] \in Byte
    BY <1>a, ElementOfSeq
  <1>b. PICK w : w = [i \in 1 .. N |-> Escaped(m[i])]
    OBVIOUS
  <1>2. w \in [1 .. N -> Seq(Byte)]
    BY <1>b, <1>1, EscapedIs
  <1>c. PICK c : c = CHOOSE enc : enc = [i \in 0 .. Len(m) |-> IF i = 0 THEN <<MARK>>
                                              ELSE enc[i - 1] \o Escaped(m[i])]
    OBVIOUS
  <1>3. MsgFrame(m) = c[N]
    BY <1>a, <1>c DEF MsgFrame
  <1>4. PICK e : Chain(e, N, w) /\ e[0] = z
    BY <1>0, <1>2, ChainExists
  <1>5. e = [i \in 0 .. N |-> IF i = 0 THEN z ELSE e[i - 1] \o Escaped(m[i])]
    <2>1. e = [i \in 0 .. N |-> e[i]]
      BY <1>4 DEF Chain
    <2>2. ASSUME NEW i \in 0 .. N PROVE e[i] = IF i = 0 THEN z ELSE e[i - 1] \o Escaped(m[i])
      <3>1. CASE i = 0
        BY <1>4, <3>1
      <3>2. CASE i # 0
        <4>1. i \in 1 .. N /\ w[i] = Escaped(m[i])
          BY <1>0, <1>b, <3>2
        <4>2. e[i] = e[i - 1] \o w[i]
          BY <1>4, <4>1 DEF Chain
        <4>3. QED
          BY <3>2, <4>1, <4>2
      <3>3. QED
        BY <3>1, <3>2
    <2>3. QED
      BY <2>1, <2>2
  <1>6. c = [i \in 0 .. N |-> IF i = 0 THEN z ELSE c[i - 1] \o Escaped(m[i])]
    BY <1>5, <1>c, <1>a
  <1>7. Chain(c, N, w) /\ c[0] = z
    <2>1. DOMAIN c = 0 .. N /\ c = [i \in 0 .. N |-> c[i]]
      BY <1>6
    <2>2. c[0] = z
      BY <1>6, <1>0
    <2>3. ASSUME NEW i \in 1 .. N PROVE c[i] = c[i - 1] \o w[i]
      <3>1. i \in 0 .. N /\ i # 0 /\ w[i] = Escaped(m[i])
        BY <1>0, <1>b
      <3>2. c[i] = IF i = 0 THEN z ELSE c[i - 1] \o Escaped(m[i])
        BY <1>6, <3>1
      <3>3. QED
        BY <3>1, <3>2
    <2>4. QED
      BY <2>1, <2>2, <2>3, <1>0, <1>2, ChainIs
  <1>d. PICK off, F : off = [i \in 0 .. N |-> Len(c[i])] /\ F = c[N]
    OBVIOUS
  <1>8. off \in [0 .. N -> Nat] /\ off[0] = 1 /\ F \in Seq(Byte) /\ Len(F) = off[N]
    <2>1. ASSUME NEW i \in 0 .. N PROVE Len(c[i]) \in Nat
      BY <1>7, LenProperties DEF Chain
    <2>2. QED
      BY <2>1, <1>d, <1>7, <1>0 DEF Chain
  <1>9. F[1] = MARK
    <2>1. 0 \in 0 .. N
      BY <1>0
    <2>2. \A k \in 1 .. Len(c[0]) : F[k] = c[0][k]
      <3>1. N \in Nat /\ Chain(c, N, w) /\ F = c[N]
        BY <1>0, <1>7, <1>d
      <3>2. QED
        BY <2>1, <3>1, <1>2, ChainPrefix
    <2>3. QED
      BY <2>2, <1>7, <1>0
  <1>10. ASSUME NEW i \in 1 .. N
         PROVE  off[i] = off[i - 1] + MsgWidth(m[i]) /\ MsgByteAt(F, off[i - 1], m[i])
    <2>1. /\ Len(c[i]) = Len(c[i - 1]) + Len(w[i])
          /\ Written(F, Len(c[i - 1]), w[i])
      <3>1. N \in Nat /\ Chain(c, N, w) /\ F = c[N]
        BY <1>0, <1>7, <1>d
      <3>2. QED
        BY <3>1, <1>2, PieceAt
    <2>b. PICK x, v, o : x = m[i] /\ v = Escaped(m[i]) /\ o = off[i - 1]
      OBVIOUS
    <2>7. i \in 0 .. N /\ i - 1 \in 0 .. N
      BY <1>0
    <2>2. w[i] = v /\ off[i] = Len(c[i]) /\ o = Len(c[i - 1])
      BY <1>b, <1>d, <2>b, <2>7
    <2>3. /\ Len(v) = MsgWidth(x)
          /\ x \in {MARK, ESC} => v[1] = ESC /\ v[2] = IF x = MARK THEN ESCMARK ELSE ESCESC
          /\ x \notin {MARK, ESC} => v[1] = x
      BY <1>1, <2>b, EscapedIs
    <2>4. off[i] = o + MsgWidth(x) /\ \A k \in 1 .. MsgWidth(x) : F[o + k] = v[k]
      BY <2>1, <2>2, <2>3 DEF Written
    <2>5. MsgByteAt(F, o, x)
      BY <2>3, <2>4 DEF MsgByteAt, MsgWidth
    <2>6. QED
      BY <2>4, <2>5, <2>b
  <1>11. MsgLaid(F, m, off)
    BY <1>8, <1>9, <1>10, <1>a DEF MsgLaid
  <1>12. QED
    BY <1>11, <1>3, <1>d

LEMMA BspFrameLaid ==
    ASSUME NEW m \in Seq(Byte)
    PROVE  \E off : BspLaid(BspFrame(m), m, off)
  <1>a. PICK N, z, q : N = Len(m) /\ z = <<>> /\ q = <<BSP_ENDCHAR>>
    OBVIOUS
  <1>0. N \in Nat /\ z \in Seq(Byte) /\ Len(z) = 0 /\ q \in Seq(Byte) /\ Len(q) = 1 /\ q[1] = BSP_ENDCHAR
    BY <1>a, LenProperties, ByteFacts DEF BSP_ENDCHAR
  <1>1. ASSUME NEW i \in 1 .. N PROVE m[i] \in Byte
    BY <1>a, ElementOfSeq
  <1>e. DEFINE Piece(i) == IF i > HdrSz /\ Special(m[i]) THEN <<BSP_ESCCHAR, m[i]>> ELSE <<m[i]>>
  <1>b. PICK w : w = [i \in 1 .. N |-> Piece(i)]
    OBVIOUS
  <1>2. ASSUME NEW i \in 1 .. N
        PROVE  /\ Piece(i) \in Seq(Byte) /\ Len(Piece(i)) = BspWidth(Hard(m, i))
               /\ Hard(m, i) => Piece(i)[1] = BSP_ESCCHAR /\ Piece(i)[2] = m[i]
               /\ ~Hard(m, i) => Piece(i)[1] = m[i]
    <2>0. BSP_ESCCHAR \in Byte /\ m[i] \in Byte
      BY <1>1, ByteFacts DEF BSP_ESCCHAR
    <2>1. CASE Hard(m, i)
      <3>1. Piece(i) = <<BSP_ESCCHAR, m[i]>>
        BY <2>1 DEF Hard
      <3>2. QED
        BY <3>1, <2>0, <2>1 DEF BspWidth
    <2>2. CASE ~Hard(m, i)
      <3>1. Piece(i) = <<m[i]>>
        BY <2>2 DEF Hard
      <3>2. QED
        BY <3>1, <2>0, <2>2 DEF BspWidth
    <2>3. QED
      BY <2>1, <2>2
  <1>c. PICK c : c = CHOOSE enc : enc = [i \in 0 .. Len(m) |-> IF i = 0 THEN <<>>
              ELSE enc[i - 1] \o (IF i > HdrSz /\ Special(m[i]) THEN <<BSP_ESCCHAR, m[i]>> ELSE <<m[i]>>)]
    OBVIOUS
  <1>3. BspFrame(m) = c[N] \o q
    BY <1>a, <1>c DEF BspFrame
  <1>13. c = CHOOSE enc : enc = [i \in 0 .. N |-> IF i = 0 THEN z ELSE enc[i - 1] \o Piece(i)]
    BY <1>c, <1>a
  <1>f. HIDE DEF Piece
  <1>g. w \in [1 .. N -> Seq(Byte)]
    BY <1>b, <1>2
  <1>4. PICK e : Chain(e, N, w) /\ e[0] = z
    BY <1>0, <1>g, ChainExists
  <1>5. e = [i \in 0 .. N |-> IF i = 0 THEN z ELSE e[i - 1] \o Piece(i)]
    <2>1. e = [i \in 0 .. N |-> e[i]]
      BY <1>4 DEF Chain
    <2>2. ASSUME NEW i \in 0 .. N PROVE e[i] = IF i = 0 THEN z ELSE e[i - 1] \o Piece(i)
      <3>1. CASE i = 0
        BY <1>4, <3>1
      <3>2. CASE i # 0
        <4>1. i \in 1 .. N /\ w[i] = Piece(i)
          BY <1>0, <1>b, <3>2
        <4>2. e[i] = e[i - 1] \o w[i]
          BY <1>4, <4>1 DEF Chain
        <4>3. QED
          BY <3>2, <4>1, <4>2
      <3>3. QED
        BY <3>1, <3>2
    <2>3. QED
      BY <2>1, <2>2
  <1>6. c = [i \in 0 .. N |-> IF i = 0 THEN z ELSE c[i - 1] \o Piece(i)]
    BY <1>5, <1>13
  <1>7. Chain(c, N, w) /\ c[0] = z
    <2>1. DOMAIN c = 0 .. N /\ c = [i \in 0 .. N |-> c[i]]
      BY <1>6
    <2>2. c[0] = z
      BY <1>6, <1>0
    <2>3. ASSUME NEW i \in 1 .. N PROVE c[i] = c[i - 1] \o w[i]
      <3>1. i \in 0 .. N /\ i # 0 /\ w[i] = Piece(i)
        BY <1>0, <1>b
      <3>2. c[i] = IF i = 0 THEN z ELSE c[i - 1] \o Piece(i)
        BY <1>6, <3>1
      <3>3. QED
        BY <3>1, <3>2
    <2>4. QED
      BY <2>1, <2>2, <2>3, <1>0, <1>g, ChainIs
  <1>d. PICK off, G, F : off = [i \in 0 .. N |-> Len(c[i])] /\ G = c[N] /\ F = G \o q
    OBVIOUS
  <1>8. off \in [0 .. N -> Nat] /\ off[0] = 0 /\ G \in Seq(Byte) /\ Len(G) = off[N]
    <2>1. ASSUME NEW i \in 0 .. N PROVE Len(c[i]) \in Nat
      BY <1>7, LenProperties DEF Chain
    <2>2. QED
      BY <2>1, <1>d, <1>7, <1>0 DEF Chain
  <1>9. /\ F \in Seq(Byte) /\ Len(F) = off[N] + 1 /\ F[Len(F)] = BSP_ENDCHAR
        /\ \A k \in 1 .. Len(G) : F[k] = G[k]
    <2>1. F = G \o <<BSP_ENDCHAR>> /\ BSP_ENDCHAR \in Byte /\ G \in Seq(Byte)
      BY <1>a, <1>d, <1>8, ByteFacts DEF BSP_ENDCHAR
    <2>2. /\ F \in Seq(Byte) /\ Len(F) = Len(G) + 1 /\ F[Len(F)] = BSP_ENDCHAR
          /\ \A k \in 1 .. Len(G) : F[k] = G[k]
      BY <2>1, Ended
    <2>3. QED
      BY <2>2, <1>8
  <1>10. ASSUME NEW i \in 1 .. N
         PROVE  off[i] = off[i - 1] + BspWidth(Hard(m, i)) /\ BspByteAt(F, off[i - 1], m[i], Hard(m, i))
    <2>1. /\ Len(c[i]) = Len(c[i - 1]) + Len(w[i])
          /\ Written(G, Len(c[i - 1]), w[i])
      <3>1. N \in Nat /\ Chain(c, N, w) /\ G = c[N]
        BY <1>0, <1>7, <1>d
      <3>2. QED
        BY <3>1, <1>g, PieceAt
    <2>b. PICK x, v, o, y, hh : x = m[i] /\ v = Piece(i) /\ o = off[i - 1] /\ y = off[i] /\ hh = Hard(m, i)
      OBVIOUS
    <2>10. i \in 0 .. N /\ i - 1 \in 0 .. N
      BY <1>0
    <2>2. w[i] = v /\ y = Len(c[i]) /\ o = Len(c[i - 1])
      BY <1>b, <1>d, <2>b, <2>10
    <2>3. /\ Len(v) = BspWidth(hh) /\ (hh => v[1] = BSP_ESCCHAR /\ v[2] = x)
          /\ ~hh => v[1] = x
      BY <1>2, <2>b
    <2>4. y = o + BspWidth(hh) /\ \A k \in 1 .. BspWidth(hh) : G[o + k] = v[k]
      BY <2>1, <2>2, <2>3 DEF Written
    <2>5. o \in Nat /\ y <= Len(G)
      <3>1. i \in 0 .. N /\ i - 1 \in 0 .. N
        BY <1>0
      <3>2. Len(c[i]) <= Len(c[N])
        BY <3>1, <1>0, <1>g, <1>7, ChainPrefix
      <3>3. o \in Nat
        BY <3>1, <1>8, <2>b
      <3>4. QED
        BY <3>2, <3>3, <1>d, <2>2
    <2>6. BspWidth(hh) \in {1, 2} /\ Len(G) \in Nat
      BY <1>8, LenProperties DEF BspWidth
    <2>7. ASSUME NEW k \in 1 .. BspWidth(hh) PROVE F[o + k] = v[k]
      <3>1. o + k \in 1 .. Len(G)
        BY <2>4, <2>5, <2>6
      <3>2. QED
        BY <3>1, <1>9, <2>4
    <2>8. BspByteAt(F, o, x, hh)
      <3>1. CASE hh
        BY <3>1, <2>3, <2>7 DEF BspByteAt, BspWidth
      <3>2. CASE ~hh
        BY <3>2, <2>3, <2>7 DEF BspByteAt, BspWidth
      <3>3. QED
        BY <3>1, <3>2
    <2>9. QED
      BY <2>4, <2>8, <2>b
  <1>11. BspLaid(F, m, off)
    BY <1>8, <1>9, <1>10, <1>a DEF BspLaid
  <1>12. QED
    BY <1>11, <1>3, <1>d

-----------------------------------------------------------------------------
(* Checksums and messages.                                                 *)

\* s has the running totals of the N numbers w, from z on.
Totals(s, N, z, w) == /\ s \in [0 .. N -> Nat] /\ s[0] = z
                      /\ \A k \in 1 .. N : s[k] = s[k - 1] + w[k]

LEMMA TotalsExist ==
    ASSUME NEW N \in Nat, NEW z \in Nat, NEW w \in [1 .. N -> Nat]
    PROVE  \E s : Totals(s, N, z, w)
  <1>a. PICK T : T = {k \in Nat : k <= N /\ ~\E s : Totals(s, k, z, w)}
    OBVIOUS
  <1>1. SUFFICES ASSUME ~\E s : Totals(s, N, z, w) PROVE FALSE
    OBVIOUS
  <1>2. T \in SUBSET Nat /\ N \in T
    BY <1>1, <1>a
  <1>3. PICK k \in T : \A y \in T : k <= y
    BY <1>2, Least
  <1>4. k \in Nat /\ k <= N /\ ~\E s : Totals(s, k, z, w)
    BY <1>3, <1>a
  <1>5. k # 0
    <2>a. PICK s : s = [j \in 0 .. 0 |-> z]
      OBVIOUS
    <2>1. Totals(s, 0, z, w)
      BY <2>a DEF Totals
    <2>2. QED
      BY <1>4, <2>1
  <1>b. PICK h : h = k - 1
    OBVIOUS
  <1>6. h \in Nat /\ h <= N /\ h \notin T /\ k = h + 1
    BY <1>3, <1>4, <1>5, <1>b
  <1>7. PICK s : Totals(s, h, z, w)
    BY <1>6, <1>a
  <1>c. PICK x, v, y : x = s[h] /\ v = w[k] /\ y = s[h] + w[k]
    OBVIOUS
  <1>8. x \in Nat /\ v \in Nat /\ y = x + v
    BY <1>4, <1>6, <1>7, <1>c DEF Totals
  <1>d. PICK g : g = [j \in 0 .. k |-> IF j = k THEN y ELSE s[j]]
    OBVIOUS
  <1>10. g \in [0 .. k -> Nat] /\ g[0] = z
    BY <1>d, <1>6, <1>7, <1>8 DEF Totals
  <1>11. ASSUME NEW i \in 1 .. k PROVE g[i] = g[i - 1] + w[i]
    <2>1. CASE i = k
      <3>1. g[i] = y /\ i - 1 = h /\ h \in 0 .. k /\ h # k
        BY <2>1, <1>d, <1>6
      <3>2. g[h] = x
        BY <3>1, <1>d, <1>c
      <3>3. QED
        BY <2>1, <3>1, <3>2, <1>c, <1>8
    <2>2. CASE i # k
      <3>1. i \in 1 .. h /\ g[i] = s[i] /\ g[i - 1] = s[i - 1]
        BY <2>2, <1>d, <1>6
      <3>2. s[i] = s[i - 1] + w[i]
        BY <3>1, <1>7 DEF Totals
      <3>3. QED
        BY <3>1, <3>2
    <2>3. QED
      BY <2>1, <2>2
  <1>12. Totals(g, k, z, w)
    BY <1>10, <1>11 DEF Totals
  <1>13. QED
    BY <1>4, <1>12

LEMMA TotalsAre ==
    ASSUME NEW N \in Nat, NEW z \in Nat, NEW w \in [1 .. N -> Nat],
           NEW c, DOMAIN c = 0 .. N, c = [i \in 0 .. N |-> c[i]], c[0] = z,
           \A i \in 1 .. N : c[i] = c[i - 1] + w[i]
    PROVE  Totals(c, N, z, w)
  <1>a. PICK T : T = {k \in Nat : k <= N /\ c[k] \notin Nat}
    OBVIOUS
  <1>1. CASE T # {}
    <2>0. T \in SUBSET Nat
      BY <1>a
    <2>1. PICK k \in T : \A y \in T : k <= y
      BY <1>1, <2>0, Least
    <2>2. k \in Nat /\ k <= N /\ c[k] \notin Nat
      BY <2>1, <1>a
    <2>3. k # 0
      BY <2>2
    <2>b. PICK h : h = k - 1
      OBVIOUS
    <2>4. h \in Nat /\ h <= N /\ h \notin T /\ k \in 1 .. N
      BY <2>1, <2>2, <2>3, <2>b
    <2>c. PICK x, v : x = c[h] /\ v = w[k]
      OBVIOUS
    <2>5. x \in Nat
      BY <2>4, <1>a, <2>c
    <2>6. c[k] = x + v /\ v \in Nat
      BY <2>4, <2>b, <2>c
    <2>7. QED
      BY <2>2, <2>5, <2>6
  <1>2. CASE T = {}
    <2>1. ASSUME NEW k \in 0 .. N PROVE c[k] \in Nat
      <3>1. k \in Nat /\ k <= N /\ k \notin T
        BY <1>2
      <3>2. QED
        BY <3>1, <1>a
    <2>2. QED
      BY <2>1 DEF Totals
  <1>3. QED
    BY <1>1, <1>2

\* A remainder is a byte.
LEMMA Remainder ==
    ASSUME NEW x \in Nat
    PROVE  x % ByteMod \in Byte
  <1>1. ByteMod \in Nat /\ ByteMod > 0
    BY ByteFacts DEF Byte
  <1>2. QED
    BY <1>1 DEF Byte

LEMMA ByteIsNat ==
    ASSUME NEW b \in Byte
    PROVE  b \in Nat /\ b < ByteMod
  BY ByteFacts DEF Byte

LEMMA Divided ==
    ASSUME NEW M \in Nat, M > 0, NEW a \in Nat
    PROVE  \E q, r : q \in Int /\ r \in 0 .. M - 1 /\ a = M * q + r /\ r = a % M
  <1>a. PICK q, r : q = a \div M /\ r = a % M
    OBVIOUS
  <1>1. q \in Int
    BY <1>a
  <1>2. r \in 0 .. M - 1
    BY <1>a
  <1>3. a = M * q + r
    BY <1>a
  <1>4. QED
    BY <1>1, <1>2, <1>3, <1>a

LEMMA RestIs ==
    ASSUME NEW M \in Nat, M > 0, NEW a \in Nat, NEW q \in Int, NEW r \in 0 .. M - 1, a = M * q + r
    PROVE  a % M = r
  OBVIOUS

\* Remainders can be added up byte by byte.
LEMMA ModAdd ==
    ASSUME NEW a \in Nat, NEW b \in Nat
    PROVE  ((a % ByteMod) + b) % ByteMod = (a + b) % ByteMod
  <1>a. PICK M : M = ByteMod
    OBVIOUS
  <1>0. M \in Nat /\ M > 0
    BY <1>a, ByteFacts DEF Byte
  <1>1. PICK q, r : q \in Int /\ r \in 0 .. M - 1 /\ a = M * q + r /\ r = a % M
    BY <1>0, Divided
  <1>b. PICK c : c = r + b
    OBVIOUS
  <1>2. c \in Nat
    BY <1>0, <1>1, <1>b
  <1>3. PICK p, s : p \in Int /\ s \in 0 .. M - 1 /\ c = M * p + s /\ s = c % M
    BY <1>0, <1>2, Divided
  <1>c. PICK e, g : e = a + b /\ g = p + q
    OBVIOUS
  <1>e. p \in Int /\ q \in Int /\ s \in 0 .. M - 1 /\ r \in 0 .. M - 1
    BY <1>1, <1>3
  <1>4. e \in Nat /\ g \in Int
    BY <1>e, <1>c
  <1>5. M * g = M * p + M * q
    BY <1>0, <1>1, <1>3, <1>c
  <1>d. PICK x, y, z : x = M * p /\ y = M * q /\ z = M * g
    OBVIOUS
  <1>6. x \in Int /\ y \in Int /\ z \in Int /\ s \in Int /\ r \in Int
    BY <1>0, <1>e, <1>4, <1>d
  <1>f. a = y + r /\ c = x + s /\ z = x + y
    BY <1>1, <1>3, <1>5, <1>d
  <1>7. e = z + s
    BY <1>f, <1>6, <1>b, <1>c
  <1>8. e % M = s
    BY <1>0, <1>3, <1>4, <1>7, <1>d, RestIs
  <1>9. QED
    BY <1>1, <1>3, <1>8, <1>a, <1>b, <1>c

LEMMA ByteRest ==
    ASSUME NEW b \in Byte
    PROVE  b % ByteMod = b
  BY ByteFacts DEF Byte

LEMMA CsumIs ==
    ASSUME NEW d \in Seq(Byte)
    PROVE  msg_csum(d) \in Byte
  <1>a. PICK N, z : N = Len(d) /\ z = Len(d)
    OBVIOUS
  <1>0. N \in Nat /\ z \in Nat
    BY <1>a, LenProperties
  <1>b. PICK w : w = [i \in 1 .. N |-> d[i]]
    OBVIOUS
  <1>1. w \in [1 .. N -> Nat]
    <2>1. ASSUME NEW i \in 1 .. N PROVE d[i] \in Nat
      BY <1>a, ElementOfSeq, ByteIsNat
    <2>2. QED
      BY <2>1, <1>b
  <1>c. PICK c : c = CHOOSE sum : sum = [i \in 0 .. Len(d) |-> IF i = 0 THEN Len(d) ELSE sum[i - 1] + d[i]]
    OBVIOUS
  <1>2. msg_csum(d) = c[N] % ByteMod
    BY <1>a, <1>c DEF msg_csum
  <1>3. PICK s : Totals(s, N, z, w)
    BY <1>0, <1>1, TotalsExist
  <1>4. s = [i \in 0 .. N |-> IF i = 0 THEN z ELSE s[i - 1] + d[i]]
    <2>1. s = [i \in 0 .. N |-> s[i]]
      BY <1>3 DEF Totals
    <2>2. ASSUME NEW i \in 0 .. N PROVE s[i] = IF i = 0 THEN z ELSE s[i - 1] + d[i]
      <3>1. CASE i = 0
        BY <1>3, <3>1 DEF Totals
      <3>2. CASE i # 0
        <4>1. i \in 1 .. N /\ w[i] = d[i]
          BY <1>0, <1>b, <3>2
        <4>2. s[i] = s[i - 1] + w[i]
          BY <1>3, <4>1 DEF Totals
        <4>3. QED
          BY <3>2, <4>1, <4>2
      <3>3. QED
        BY <3>1, <3>2
    <2>3. QED
      BY <2>1, <2>2
  <1>5. c = [i \in 0 .. N |-> IF i = 0 THEN z ELSE c[i - 1] + d[i]]
    BY <1>4, <1>c, <1>a
  <1>6. Totals(c, N, z, w)
    <2>1. DOMAIN c = 0 .. N /\ c = [i \in 0 .. N |-> c[i]]
      BY <1>5
    <2>2. c[0] = z
      BY <1>5, <1>0
    <2>3. ASSUME NEW i \in 1 .. N PROVE c[i] = c[i - 1] + w[i]
      <3>1. i \in 0 .. N /\ i # 0 /\ w[i] = d[i]
        BY <1>0, <1>b
      <3>2. c[i] = IF i = 0 THEN z ELSE c[i - 1] + d[i]
        BY <1>5, <3>1
      <3>3. QED
        BY <3>1, <3>2
    <2>4. QED
      BY <2>1, <2>2, <2>3, <1>0, <1>1, TotalsAre
  <1>7. c[N] \in Nat
    BY <1>6, <1>0 DEF Totals
  <1>8. QED
    BY <1>2, <1>7, Remainder

\* What a byte adds to the BSP checksum.
LEMMA FcsIs ==
    ASSUME NEW t \in Byte, NEW d \in Seq(Byte)
    PROVE  \E s, w : /\ w = [i \in 1 .. Len(d) |-> Adds(d[i])] /\ Totals(s, Len(d), t, w)
                     /\ bsp_fcs(t, d) = s[Len(d)] % ByteMod /\ bsp_fcs(t, d) \in Byte
  <1>a. PICK N : N = Len(d)
    OBVIOUS
  <1>0. N \in Nat /\ t \in Nat
    BY <1>a, LenProperties, ByteIsNat
  <1>b. PICK w : w = [i \in 1 .. N |-> Adds(d[i])]
    OBVIOUS
  <1>1. w \in [1 .. N -> Nat]
    <2>1. ASSUME NEW i \in 1 .. N PROVE Adds(d[i]) \in Nat
      <3>1. d[i] \in Nat
        BY <1>a, ElementOfSeq, ByteIsNat
      <3>2. QED
        BY <3>1 DEF Adds
    <2>2. QED
      BY <2>1, <1>b
  <1>c. PICK c : c = CHOOSE sum : sum = [i \in 0 .. Len(d) |-> IF i = 0 THEN t
                                       ELSE sum[i - 1] + (IF Special(d[i]) THEN 0 ELSE d[i])]
    OBVIOUS
  <1>2. bsp_fcs(t, d) = c[N] % ByteMod
    BY <1>a, <1>c DEF bsp_fcs
  <1>d. c = CHOOSE sum : sum = [i \in 0 .. N |-> IF i = 0 THEN t ELSE sum[i - 1] + Adds(d[i])]
    BY <1>c, <1>a DEF Adds
  <1>3. PICK s : Totals(s, N, t, w)
    BY <1>0, <1>1, TotalsExist
  <1>4. s = [i \in 0 .. N |-> IF i = 0 THEN t ELSE s[i - 1] + Adds(d[i])]
    <2>1. s = [i \in 0 .. N |-> s[i]]
      BY <1>3 DEF Totals
    <2>2. ASSUME NEW i \in 0 .. N PROVE s[i] = IF i = 0 THEN t ELSE s[i - 1] + Adds(d[i])
      <3>1. CASE i = 0
        BY <1>3, <3>1 DEF Totals
      <3>2. CASE i # 0
        <4>1. i \in 1 .. N /\ w[i] = Adds(d[i])
          BY <1>0, <1>b, <3>2
        <4>2. s[i] = s[i - 1] + w[i]
          BY <1>3, <4>1 DEF Totals
        <4>3. QED
          BY <3>2, <4>1, <4>2
      <3>3. QED
        BY <3>1, <3>2
    <2>3. QED
      BY <2>1, <2>2
  <1>5. c = [i \in 0 .. N |-> IF i = 0 THEN t ELSE c[i - 1] + Adds(d[i])]
    BY <1>4, <1>d
  <1>6. Totals(c, N, t, w)
    <2>1. DOMAIN c = 0 .. N /\ c = [i \in 0 .. N |-> c[i]]
      BY <1>5
    <2>2. c[0] = t
      BY <1>5, <1>0
    <2>3. ASSUME NEW i \in 1 .. N PROVE c[i] = c[i - 1] + w[i]
      <3>1. i \in 0 .. N /\ i # 0 /\ w[i] = Adds(d[i])
        BY <1>0, <1>b
      <3>2. c[i] = IF i = 0 THEN t ELSE c[i - 1] + Adds(d[i])
        BY <1>5, <3>1
      <3>3. QED
        BY <3>1, <3>2
    <2>4. QED
      BY <2>1, <2>2, <2>3, <1>0, <1>1, TotalsAre
  <1>7. c[N] \in Nat
    BY <1>6, <1>0 DEF Totals
  <1>8. bsp_fcs(t, d) \in Byte
    BY <1>2, <1>7, Remainder
  <1>9. QED
    BY <1>a, <1>b, <1>2, <1>6, <1>8

LEMMA Headed ==
    ASSUME NEW a \in Byte, NEW b \in Byte, NEW d \in Seq(Byte), NEW m, m = <<a, b>> \o d
    PROVE  /\ m \in Seq(Byte) /\ Len(m) = Len(d) + 2 /\ m[1] = a /\ m[2] = b
           /\ \A i \in 1 .. Len(d) : m[i + 2] = d[i]
  <1>a. PICK q : q = <<a, b>>
    OBVIOUS
  <1>1. q \in Seq(Byte) /\ Len(q) = 2 /\ q[1] = a /\ q[2] = b /\ m = q \o d
    BY <1>a
  <1>2. Len(d) \in Nat
    BY LenProperties
  <1>3. m \in Seq(Byte) /\ Len(m) = Len(d) + 2
    BY <1>1, <1>2
  <1>4. m[1] = a /\ m[2] = b
    BY <1>1, <1>2
  <1>5. ASSUME NEW i \in 1 .. Len(d) PROVE m[i + 2] = d[i]
    BY <1>1, <1>2, <1>3
  <1>6. QED
    BY <1>3, <1>4, <1>5

LEMMA BspSummed ==
    ASSUME NEW t \in Byte, NEW d \in Seq(Byte), NEW m, m = <<t, bsp_fcs(t, d)>> \o d
    PROVE  /\ m \in Seq(Byte) /\ Len(m) = Len(d) + 2
           /\ \E s : Summed(m, s)
  <1>1. PICK q, w : /\ w = [i \in 1 .. Len(d) |-> Adds(d[i])] /\ Totals(q, Len(d), t, w)
                    /\ bsp_fcs(t, d) = q[Len(d)] % ByteMod /\ bsp_fcs(t, d) \in Byte
    BY FcsIs
  <1>a. PICK x, N, M : x = bsp_fcs(t, d) /\ N = Len(d) /\ M = Len(m)
    OBVIOUS
  <1>2. /\ m \in Seq(Byte) /\ Len(m) = Len(d) + 2 /\ m[1] = t /\ m[2] = x
        /\ \A i \in 1 .. Len(d) : m[i + 2] = d[i]
    BY <1>1, <1>a, Headed
  <1>3. N \in Nat /\ M = N + 2
    BY <1>2, <1>a, LenProperties
  <1>c. q \in [0 .. N -> Nat] /\ q[0] = t /\ \A k \in 1 .. N : q[k] = q[k - 1] + w[k]
    BY <1>1, <1>a DEF Totals
  <1>b. PICK s : s = [i \in 2 .. M |-> q[i - 2] % ByteMod]
    OBVIOUS
  <1>4. s \in [2 .. M -> Byte]
    <2>1. ASSUME NEW i \in 2 .. M PROVE q[i - 2] % ByteMod \in Byte
      <3>1. i - 2 \in 0 .. N
        BY <1>3
      <3>2. q[i - 2] \in Nat
        BY <3>1, <1>c
      <3>3. QED
        BY <3>2, Remainder
    <2>2. QED
      BY <2>1, <1>b
  <1>5. s[2] = m[1] /\ m[2] = s[M]
    <2>1. 2 \in 2 .. M /\ M \in 2 .. M /\ M - 2 = N
      BY <1>3
    <2>2. s[2] = q[0] % ByteMod /\ s[M] = q[N] % ByteMod
      BY <2>1, <1>b
    <2>3. t % ByteMod = t
      BY ByteRest
    <2>4. QED
      BY <2>2, <2>3, <1>1, <1>2, <1>a, <1>c
  <1>6. ASSUME NEW i \in 3 .. M PROVE s[i] = (s[i - 1] + Adds(m[i])) % ByteMod
    <2>b. PICK h, u, v : h = i - 2 /\ u = q[h - 1] /\ v = Adds(d[h])
      OBVIOUS
    <2>1. h \in 1 .. N /\ h - 1 \in 0 .. N /\ i \in 2 .. M /\ i - 1 \in 2 .. M /\ (i - 1) - 2 = h - 1 /\ h + 2 = i
      BY <1>3, <2>b
    <2>2. s[i] = q[h] % ByteMod /\ s[i - 1] = u % ByteMod
      BY <2>1, <1>b, <2>b
    <2>3. q[h] = u + v
      BY <2>1, <1>1, <1>c, <1>a, <2>b
    <2>4. m[i] = d[h] /\ d[h] \in Byte
      BY <2>1, <1>2, <1>a, ElementOfSeq
    <2>5. u \in Nat /\ v \in Nat
      <3>1. d[h] \in Nat
        BY <2>4, ByteIsNat
      <3>2. QED
        BY <3>1, <2>1, <1>c, <2>b DEF Adds
    <2>6. ((u % ByteMod) + v) % ByteMod = (u + v) % ByteMod
      BY <2>5, ModAdd
    <2>7. QED
      BY <2>2, <2>3, <2>4, <2>6, <2>b
  <1>7. Summed(m, s)
    BY <1>4, <1>5, <1>6, <1>a DEF Summed, Totalled, Matches
  <1>8. QED
    BY <1>2, <1>7

LEMMA SentFacts ==
    ASSUME proto \in {"serial", "tcp", "bsp"}, NEW d \in Datas, Sendable(d)
    PROVE  Sent(d) \in Seq(Byte) /\ MessageOk(Sent(d))
  <1>0. d \in Seq(Byte) /\ Len(d) \in Nat /\ Len(d) <= MaxLen
    <2>1. d \in Seq(Byte)
      BY SentAssumption
    <2>2. Len(d) \in Nat /\ MaxLen \in Nat
      BY <2>1, LenProperties, ByteFacts
    <2>3. CASE proto = "serial"
      BY <2>1, <2>2, <2>3 DEF Sendable, msg_serial_sendable
    <2>4. CASE proto = "tcp"
      BY <2>1, <2>2, <2>4 DEF Sendable, msg_tcp_sendable
    <2>5. CASE proto = "bsp"
      BY <2>1, <2>2, <2>5 DEF Sendable, bsp_sendable
    <2>6. QED
      BY <2>3, <2>4, <2>5
  <1>1. 1 \in Byte /\ Len(d) \in Byte /\ MaxLen \in Nat
    BY <1>0, ByteFacts DEF Byte
  <1>a. PICK m : m = Sent(d)
    OBVIOUS
  <1>2. CASE proto = "bsp"
    <2>1. m = <<1, bsp_fcs(1, d)>> \o d
      BY <1>2, <1>a DEF Sent
    <2>2. m \in Seq(Byte) /\ Len(m) = Len(d) + 2 /\ \E s : Summed(m, s)
      BY <2>1, <1>0, <1>1, BspSummed
    <2>3. MessageOk(m)
      BY <1>0, <1>1, <1>2, <2>2 DEF MessageOk, HdrSz
    <2>4. QED
      BY <2>2, <2>3, <1>a
  <1>3. CASE proto # "bsp"
    <2>1. m = <<msg_csum(d), Len(d)>> \o d
      BY <1>3, <1>a DEF Sent, Message
    <2>2. msg_csum(d) \in Byte
      BY <1>0, CsumIs
    <2>3. m \in Seq(Byte) /\ Len(m) = Len(d) + 2 /\ m[2] = Len(d)
      BY <2>1, <2>2, <1>0, <1>1, Headed
    <2>4. MessageOk(m)
      BY <1>0, <1>1, <1>3, <2>3 DEF MessageOk, HdrSz
    <2>5. QED
      BY <2>3, <2>4, <1>a
  <1>4. QED
    BY <1>2, <1>3

\* How long a BSP frame is.
LEMMA BspLength ==
    ASSUME NEW m \in Seq(Byte), Len(m) >= 2, NEW F, NEW off, BspLaid(F, m, off)
    PROVE  /\ \A k \in 2 .. Len(m) : off[k] <= 2 * k - 2
           /\ \A j \in 3 .. Len(m) : ~Special(m[j]) => off[Len(m)] <= 2 * Len(m) - 3
  <1>a. PICK N : N = Len(m)
    OBVIOUS
  <1>0. N \in Nat /\ N >= 2
    BY <1>a, LenProperties
  <1>1. ASSUME NEW k \in 1 .. N PROVE /\ off[k] \in Nat /\ off[k - 1] \in Nat /\ off[k] <= off[k - 1] + 2
                                      /\ ~Hard(m, k) => off[k] = off[k - 1] + 1
    <2>1. k \in 0 .. N /\ k - 1 \in 0 .. N
      BY <1>0
    <2>2. off[k] \in Nat /\ off[k - 1] \in Nat /\ off[k] = off[k - 1] + BspWidth(Hard(m, k))
      BY <2>1, <1>a DEF BspLaid
    <2>3. QED
      BY <2>2 DEF BspWidth
  <1>b. PICK T : T = {k \in Nat : k >= 2 /\ k <= N /\ ~(off[k] <= 2 * k - 2)}
    OBVIOUS
  <1>2. T = {}
    <2>1. SUFFICES ASSUME T # {} PROVE FALSE
      OBVIOUS
    <2>2. T \in SUBSET Nat
      BY <1>b
    <2>3. PICK k \in T : \A y \in T : k <= y
      BY <2>1, <2>2, Least
    <2>4. k \in Nat /\ k >= 2 /\ k <= N /\ ~(off[k] <= 2 * k - 2)
      BY <2>3, <1>b
    <2>5. CASE k = 2
      <3>1. ~Hard(m, 1) /\ ~Hard(m, 2) /\ 1 \in 1 .. N /\ 2 \in 1 .. N /\ 1 - 1 = 0 /\ 2 - 1 = 1
        BY <1>0 DEF Hard, HdrSz
      <3>2. off[1] = off[0] + 1 /\ off[2] = off[1] + 1 /\ off[0] = 0
        BY <3>1, <1>1 DEF BspLaid
      <3>3. QED
        BY <3>2, <2>4, <2>5
    <2>6. CASE k # 2
      <3>a. PICK h, x, y : h = k - 1 /\ x = off[h] /\ y = off[k]
        OBVIOUS
      <3>1. h \in Nat /\ h >= 2 /\ h <= N /\ h \notin T /\ k \in 1 .. N
        BY <2>3, <2>4, <2>6, <3>a, <1>0
      <3>2. x <= 2 * h - 2
        BY <3>1, <1>b, <3>a
      <3>3. x \in Nat /\ y \in Nat /\ y <= x + 2
        BY <3>1, <1>1, <3>a
      <3>4. y <= 2 * k - 2
        BY <3>1, <3>2, <3>3, <3>a, <2>4
      <3>5. QED
        BY <3>4, <2>4, <3>a
    <2>7. QED
      BY <2>5, <2>6
  <1>3. ASSUME NEW k \in 2 .. N PROVE off[k] <= 2 * k - 2
    <2>1. k \in Nat /\ k >= 2 /\ k <= N
      BY <1>0
    <2>2. QED
      BY <2>1, <1>2, <1>b
  <1>4. ASSUME NEW j \in 3 .. N, ~Special(m[j]) PROVE off[N] <= 2 * N - 3
    <2>b. PICK S : S = {k \in Nat : k >= j /\ k <= N /\ ~(off[k] <= 2 * k - 3)}
      OBVIOUS
    <2>1. ASSUME S # {} PROVE FALSE
      <3>2. S \in SUBSET Nat
        BY <2>b
      <3>3. PICK k \in S : \A y \in S : k <= y
        BY <2>1, <3>2, Least
      <3>4. k \in Nat /\ k >= j /\ k <= N /\ ~(off[k] <= 2 * k - 3)
        BY <3>3, <2>b
      <3>a. PICK h, x, y : h = k - 1 /\ x = off[h] /\ y = off[k]
        OBVIOUS
      <3>5. h \in 2 .. N /\ k \in 1 .. N
        BY <3>4, <3>a, <1>0
      <3>6. x \in Nat /\ y \in Nat /\ y <= x + 2 /\ x <= 2 * h - 2 /\ (~Hard(m, k) => y = x + 1)
        BY <3>5, <1>1, <1>3, <3>a
      <3>7. CASE k = j
        <4>1. ~Hard(m, k)
          BY <3>7, <1>4 DEF Hard
        <4>2. QED
          BY <4>1, <3>6, <3>4, <3>5, <3>a
      <3>8. CASE k # j
        <4>1. h \in Nat /\ h >= j /\ h <= N /\ h \notin S
          BY <3>3, <3>4, <3>5, <3>8, <3>a
        <4>2. x <= 2 * h - 3
          BY <4>1, <2>b, <3>a
        <4>3. y <= 2 * k - 3
          BY <4>1, <4>2, <3>6, <3>4, <3>a
        <4>4. QED
          BY <4>3, <3>4, <3>a
      <3>9. QED
        BY <3>7, <3>8
    <2>2. N \in Nat /\ N >= j /\ N <= N
      BY <1>0
    <2>3. QED
      BY <2>1, <2>2, <2>b
  <1>5. QED
    BY <1>3, <1>4, <1>a

-----------------------------------------------------------------------------
(* What every byte that is read leaves alone.                              *)

\* The length of what is received is the one it announces.
GotOk(m) == proto # "bsp" => Len(m) = HdrSz + msg_getlen(m) /\ msg_getlen(m) <= MaxLen

BoundInv == /\ Len(buf) <= HdrSz + MaxLen
            /\ \A j \in 1 .. Len(got) : GotOk(got[j].m)

BaseInv == FramingType /\ SentInv /\ Tags /\ RestInv /\ BoundInv

LineByte == [b : Byte, f : Nat]

\* One message, at most, comes of the byte c.
Received(c) ==
    /\ buf' \in Seq(Byte) /\ Len(buf') <= HdrSz + MaxLen
    /\ state' \in {"DESYN", "FRAME"} /\ escfl' \in BOOLEAN /\ fcs' \in Byte
    /\ \/ got' = got
       \/ \E m \in Seq(Byte) : got' = Append(got, [f |-> c.f, m |-> m]) /\ GotOk(m)
    /\ \A f \in eaten : f \in eaten'
    /\ proto' = proto
    /\ RestInv'

LEMMA EmptyFacts ==
    <<>> \in Seq(Byte) /\ Len(<<>>) = 0 /\ 0 \in Byte
  BY ByteFacts DEF Byte

LEMMA Returned ==
    ASSUME FramingType, NEW code, NEW st \in {"DESYN", "FRAME"}, Return(code, st), proto' = proto,
           NEW c, \A f \in eaten : f \in eaten',
           \/ got' = got
           \/ \E m \in Seq(Byte) : got' = Append(got, [f |-> c.f, m |-> m]) /\ GotOk(m)
    PROVE  Received(c) /\ buf' = <<>> /\ escfl' = FALSE /\ state' = st
  <1>1. buf' = <<>> /\ escfl' = FALSE /\ state' = st /\ fcs' = 0
    BY DEF Return
  <1>2. MaxLen \in Nat
    BY ByteFacts
  <1>3. RestInv'
    BY <1>1 DEF RestInv
  <1>4. Len(buf') <= HdrSz + MaxLen
    BY <1>1, <1>2, EmptyFacts DEF HdrSz
  <1>5. QED
    BY <1>1, <1>3, <1>4, EmptyFacts DEF Received

LEMMA Appended ==
    ASSUME NEW q \in Seq(Byte), NEW x \in Byte, NEW y, y = Append(q, x)
    PROVE  /\ y \in Seq(Byte) /\ Len(y) = Len(q) + 1 /\ Len(q) \in Nat /\ y[Len(q) + 1] = x
           /\ \A i \in 1 .. Len(q) : y[i] = q[i]
  BY AppendProperties, LenProperties

\* One byte more fits.
LEMMA Room ==
    ASSUME BaseInv, ~Full, NEW x \in Byte, NEW y, y = Append(buf, x)
    PROVE  y \in Seq(Byte) /\ Len(y) <= HdrSz + MaxLen /\ Len(y) = Len(buf) + 1 /\ Len(buf) \in Nat
  <1>1. buf \in Seq(Byte) /\ Len(buf) <= HdrSz + MaxLen /\ Len(buf) # HdrSz + MaxLen
    BY DEF BaseInv, FramingType, BoundInv, Full
  <1>2. y \in Seq(Byte) /\ Len(y) = Len(buf) + 1 /\ Len(buf) \in Nat
    BY <1>1, Appended
  <1>3. QED
    BY <1>1, <1>2, ByteFacts DEF HdrSz

LEMMA DecodedIs ==
    ASSUME NEW b \in Byte
    PROVE  Decoded(b) \in Byte
  BY ByteFacts DEF Decoded

LEMMA MsgByteReceived ==
    ASSUME BaseInv, proto # "bsp", proto' = proto, NEW c \in LineByte,
           TooLong(c) \/ Terminator(c) \/ EscapeByte(c) \/ DataByte(c) \/ Synchronize(c)
    PROVE  Received(c)
  <1>0. FramingType /\ RestInv /\ c.b \in Byte
    BY DEF BaseInv, LineByte
  <1>1. CASE TooLong(c)
    <2>1. Return("IO", "DESYN") /\ got' = got /\ \A f \in eaten : f \in eaten'
      BY <1>1 DEF TooLong
    <2>2. QED
      BY <1>0, <2>1, Returned
  <1>2. CASE Terminator(c)
    <2>1. Return("IO", "FRAME") /\ got' = got /\ \A f \in eaten : f \in eaten'
      BY <1>2 DEF Terminator
    <2>2. QED
      BY <1>0, <2>1, Returned
  <1>3. CASE EscapeByte(c)
    <2>1. /\ escfl' = TRUE /\ state' = state /\ buf' = buf /\ fcs' = fcs /\ got' = got /\ eaten' = eaten
          /\ state = "FRAME"
      BY <1>3 DEF EscapeByte
    <2>2. RestInv'
      BY <2>1, <1>0 DEF RestInv
    <2>3. Len(buf) <= HdrSz + MaxLen
      BY DEF BaseInv, BoundInv
    <2>4. QED
      BY <2>1, <2>2, <2>3, <1>0 DEF Received, FramingType
  <1>4. CASE DataByte(c)
    <2>a. PICK y : y = Append(buf, Decoded(c.b))
      OBVIOUS
    <2>1. /\ ~Full /\ eaten' = eaten /\ state = "FRAME"
          /\ IF Complete(y) THEN Return("msg", "DESYN") /\ got' = Append(got, [f |-> c.f, m |-> y])
             ELSE buf' = y /\ escfl' = FALSE /\ state' = state /\ fcs' = fcs /\ got' = got
      BY <1>4, <2>a DEF DataByte
    <2>2. y \in Seq(Byte) /\ Len(y) <= HdrSz + MaxLen /\ Len(y) \in Nat
      <3>1. Decoded(c.b) \in Byte
        BY <1>0, DecodedIs
      <3>2. QED
        BY <3>1, <2>1, <2>a, Room, LenProperties
    <2>3. CASE Complete(y)
      <3>1. GotOk(y)
        <4>1. Len(y) = msg_getlen(y) + HdrSz /\ Len(y) >= HdrSz
          BY <2>3 DEF Complete
        <4>2. msg_getlen(y) \in Nat
          <5>1. 2 \in 1 .. Len(y)
            BY <4>1, <2>2 DEF HdrSz
          <5>2. QED
            BY <5>1, <2>2, ElementOfSeq, ByteIsNat DEF msg_getlen
        <4>3. QED
          BY <4>1, <4>2, <2>2, ByteFacts DEF GotOk, HdrSz
      <3>2. QED
        BY <1>0, <2>1, <2>2, <2>3, <3>1, Returned
    <2>4. CASE ~Complete(y)
      <3>1. buf' = y /\ escfl' = FALSE /\ state' = state /\ fcs' = fcs /\ got' = got
        BY <2>1, <2>4
      <3>2. RestInv'
        BY <3>1, <2>1 DEF RestInv
      <3>3. QED
        BY <2>1, <2>2, <3>1, <3>2, <1>0 DEF Received, FramingType
    <2>5. QED
      BY <2>3, <2>4
  <1>5. CASE Synchronize(c)
    <2>1. /\ state = "DESYN" /\ state' \in {"DESYN", "FRAME"}
          /\ escfl' = escfl /\ buf' = buf /\ fcs' = fcs /\ got' = got /\ eaten' = eaten
      BY <1>5 DEF Synchronize
    <2>2. RestInv'
      BY <2>1, <1>0 DEF RestInv
    <2>3. Len(buf) <= HdrSz + MaxLen
      BY DEF BaseInv, BoundInv
    <2>4. QED
      BY <2>1, <2>2, <2>3, <1>0 DEF Received, FramingType
  <1>6. QED
    BY <1>1, <1>2, <1>3, <1>4, <1>5

LEMMA BspByteReceived ==
    ASSUME BaseInv, proto = "bsp", proto' = proto, eaten' = eaten, NEW c \in LineByte,
           BspHeader(c) \/ BspTooLong(c) \/ BspEscaped(c) \/ BspEnd(c) \/ BspByte(c)
    PROVE  Received(c)
  <1>0. FramingType /\ RestInv /\ c.b \in Byte /\ buf \in Seq(Byte) /\ fcs \in Byte
    BY DEF BaseInv, LineByte, FramingType
  <1>b. Len(buf) \in Nat /\ MaxLen \in Nat /\ MaxLen >= 1
    BY <1>0, LenProperties, ByteFacts
  <1>1. CASE BspHeader(c)
    <2>a. PICK y : y = Append(buf, c.b)
      OBVIOUS
    <2>1. /\ buf' = y /\ Len(buf) < HdrSz /\ fcs' \in {c.b, fcs} /\ got' = got
          /\ state' = state /\ escfl' = escfl
      BY <1>1, <2>a DEF BspHeader
    <2>2. ~Full
      BY <2>1, <1>b DEF Full, HdrSz
    <2>3. y \in Seq(Byte) /\ Len(y) <= HdrSz + MaxLen
      BY <2>2, <2>a, <1>0, Room
    <2>4. RestInv'
      BY <2>1, <1>0 DEF RestInv
    <2>5. QED
      BY <2>1, <2>3, <2>4, <1>0 DEF Received, FramingType
  <1>2. CASE BspTooLong(c)
    <2>1. Return("SIZE", "DESYN") /\ got' = got
      BY <1>2 DEF BspTooLong
    <2>2. QED
      BY <1>0, <2>1, Returned
  <1>3. CASE BspEscaped(c)
    <2>a. PICK y : y = Append(buf, c.b)
      OBVIOUS
    <2>1. ~Full /\ buf' = y /\ escfl' = FALSE /\ state' = state /\ fcs' = fcs /\ got' = got
      BY <1>3, <2>a DEF BspEscaped
    <2>2. y \in Seq(Byte) /\ Len(y) <= HdrSz + MaxLen
      BY <2>1, <2>a, <1>0, Room
    <2>3. RestInv'
      BY <2>1 DEF RestInv
    <2>4. QED
      BY <2>1, <2>2, <2>3, <1>0 DEF Received, FramingType
  <1>4. CASE BspEnd(c)
    <2>1. \/ Return("FCS", "DESYN") /\ got' = got
          \/ Return("msg", "DESYN") /\ got' = Append(got, [f |-> c.f, m |-> buf])
      BY <1>4 DEF BspEnd
    <2>2. GotOk(buf)
      BY DEF GotOk
    <2>3. QED
      BY <1>0, <2>1, <2>2, Returned
  <1>5. CASE BspByte(c)
    <2>a. PICK y, x : y = Append(buf, c.b) /\ x = (fcs + c.b) % ByteMod
      OBVIOUS
    <2>1. /\ ~Full /\ state' = state /\ got' = got /\ Len(buf) >= HdrSz /\ ~escfl
          /\ \/ escfl' = TRUE /\ buf' = buf /\ fcs' = fcs
             \/ buf' = y /\ fcs' = x /\ escfl' = escfl
      BY <1>5, <2>a DEF BspByte
    <2>2. y \in Seq(Byte) /\ Len(y) <= HdrSz + MaxLen /\ Len(y) = Len(buf) + 1 /\ Len(buf) <= HdrSz + MaxLen
      BY <2>1, <2>a, <1>0, Room DEF BaseInv, BoundInv
    <2>3. x \in Byte
      <3>1. fcs + c.b \in Nat
        BY <1>0, ByteIsNat
      <3>2. QED
        BY <3>1, <2>a, Remainder
    <2>4. RestInv'
      BY <2>1, <2>2, <1>0, <1>b DEF RestInv, HdrSz, FramingType
    <2>5. QED
      BY <2>1, <2>2, <2>3, <2>4, <1>0 DEF Received, FramingType
  <1>6. QED
    BY <1>1, <1>2, <1>3, <1>4, <1>5

-----------------------------------------------------------------------------
(* The line.                                                               *)

LEMMA TailFacts ==
    ASSUME line \in Seq(LineByte), line # <<>>, NEW L, L = Tail(line)
    PROVE  /\ L \in Seq(LineByte) /\ Len(line) \in Nat /\ Len(line) >= 1 /\ Len(L) = Len(line) - 1
           /\ Head(line) = line[1] /\ line[1] \in LineByte
           /\ \A i \in 1 .. Len(L) : L[i] = line[i + 1]
  <1>1. Len(line) \in Nat /\ Len(line) >= 1
    BY EmptySeq, LenProperties
  <1>2. L \in Seq(LineByte) /\ Len(L) = Len(line) - 1 /\ \A i \in 1 .. Len(L) : L[i] = line[i + 1]
    BY <1>1, HeadTailProperties
  <1>3. Head(line) = line[1]
    BY HeadTailProperties
  <1>4. line[1] \in LineByte
    BY <1>1, ElementOfSeq
  <1>5. QED
    BY <1>1, <1>2, <1>3, <1>4

LEMMA JoinFacts ==
    ASSUME NEW S, NEW A \in Seq(S), NEW B \in Seq(S)
    PROVE  /\ A \o B \in Seq(S) /\ Len(A \o B) = Len(A) + Len(B) /\ Len(A) \in Nat /\ Len(B) \in Nat
           /\ Written(A \o B, 0, A) /\ Written(A \o B, Len(A), B)
  <1>a. PICK x, y, L : x = Len(A) /\ y = Len(B) /\ L = A \o B
    OBVIOUS
  <1>1. x \in Nat /\ y \in Nat
    BY <1>a, LenProperties
  <1>2. L \in Seq(S) /\ Len(L) = x + y
    BY <1>a, ConcatProperties
  <1>3. ASSUME NEW i \in 1 .. x PROVE L[0 + i] = A[i]
    <2>0. i \in 1 .. Len(L) /\ i <= x
      BY <1>1, <1>2
    <2>1. L[i] = A[i]
      BY <2>0, <1>1, <1>2, <1>a, ConcatProperties
    <2>2. 0 + i = i
      BY <1>1
    <2>3. QED
      BY <2>1, <2>2, Zenon
  <1>4. ASSUME NEW i \in 1 .. y PROVE L[x + i] = B[i]
    BY <1>1, <1>2, <1>a, ConcatProperties
  <1>5. QED
    BY <1>1, <1>2, <1>3, <1>4, <1>a DEF Written

LEMMA PartFacts ==
    ASSUME NEW S, NEW L \in Seq(S), NEW a \in Nat, NEW b \in Nat, a <= b, b <= Len(L)
    PROVE  /\ SubSeq(L, a + 1, b) \in Seq(S) /\ Len(SubSeq(L, a + 1, b)) = b - a
           /\ Written(L, a, SubSeq(L, a + 1, b))
  <1>1. Len(L) \in Nat
    BY LenProperties
  <1>b. PICK c, P : c = a + 1 /\ P = SubSeq(L, c, b)
    OBVIOUS
  <1>2. c \in 1 .. Len(L) + 1 /\ b \in c - 1 .. Len(L) /\ (b - c) + 1 = b - a
    BY <1>1, <1>b
  <1>3. /\ P \in Seq(S) /\ Len(P) = (b - c) + 1
        /\ \A i \in 1 .. (b - c) + 1 : P[i] = L[(c + i) - 1]
    BY <1>2, <1>b, SubSeqProperties
  <1>4. ASSUME NEW i \in 1 .. b - a PROVE L[a + i] = P[i]
    <2>1. (c + i) - 1 = a + i /\ i \in 1 .. (b - c) + 1
      BY <1>2, <1>b
    <2>2. QED
      BY <2>1, <1>3
  <1>5. QED
    BY <1>2, <1>3, <1>4, <1>b DEF Written

\* A byte is lost.
LEMMA Closed ==
    ASSUME NEW N \in Nat, NEW i \in 1 .. N, NEW Q, NEW A, NEW B, NEW L, NEW h \in Nat, i = h + 1,
           Len(A) = h, Len(B) = N - i, Len(L) = Len(A) + Len(B),
           Written(Q, 0, A), Written(Q, i, B), Written(L, 0, A), Written(L, Len(A), B)
    PROVE  Len(L) = N - 1 /\ \A j \in 1 .. N - 1 : L[j] = IF j < i THEN Q[j] ELSE Q[j + 1]
  <1>0. i \in Nat /\ h = i - 1
    OBVIOUS
  <1>4. Len(L) = N - 1
    BY <1>0
  <1>5. ASSUME NEW j \in 1 .. N - 1 PROVE L[j] = IF j < i THEN Q[j] ELSE Q[j + 1]
    <2>1. CASE j < i
      <3>1. j \in 1 .. Len(A) /\ 0 + j = j
        BY <2>1, <1>0
      <3>2. L[j] = A[j] /\ Q[j] = A[j]
        BY <3>1 DEF Written
      <3>3. QED
        BY <3>2, <2>1
    <2>2. CASE ~(j < i)
      <3>a. PICK k : k = j - h
        OBVIOUS
      <3>1. k \in 1 .. Len(B) /\ i + k = j + 1 /\ Len(A) + k = j
        BY <2>2, <1>0, <3>a
      <3>2. L[j] = B[k] /\ Q[j + 1] = B[k]
        BY <3>1 DEF Written
      <3>3. QED
        BY <3>2, <2>2
    <2>3. QED
      BY <2>1, <2>2
  <1>6. QED
    BY <1>4, <1>5

LEMMA DropParts ==
    ASSUME line \in Seq(LineByte), NEW i \in 1 .. Len(line)
    PROVE  \E K : /\ K = SubSeq(line, 1, i - 1) \o SubSeq(line, i + 1, Len(line))
                  /\ K \in Seq(LineByte) /\ Len(line) \in Nat /\ Len(K) = Len(line) - 1
                  /\ \A j \in 1 .. Len(line) - 1 : K[j] = IF j < i THEN line[j] ELSE line[j + 1]
  <1>a. PICK N, h : N = Len(line) /\ h = i - 1
    OBVIOUS
  <1>0. N \in Nat /\ i \in Nat /\ h \in Nat /\ 0 <= h /\ h <= N /\ i <= N /\ i = h + 1 /\ i \in 1 .. N
    BY <1>a, LenProperties
  <1>b. PICK A : A = SubSeq(line, 0 + 1, h)
    OBVIOUS
  <1>c. PICK B : B = SubSeq(line, i + 1, N)
    OBVIOUS
  <1>d. PICK K : K = A \o B
    OBVIOUS
  <1>1. A \in Seq(LineByte) /\ Len(A) = h /\ Written(line, 0, A)
    <2>1. A \in Seq(LineByte) /\ Len(A) = h - 0 /\ Written(line, 0, A)
      BY <1>0, <1>a, <1>b, PartFacts
    <2>2. QED
      BY <2>1, <1>0
  <1>2. B \in Seq(LineByte) /\ Len(B) = N - i /\ Written(line, i, B)
    BY <1>0, <1>a, <1>c, PartFacts
  <1>3. /\ K \in Seq(LineByte) /\ Len(K) = Len(A) + Len(B)
        /\ Written(K, 0, A) /\ Written(K, Len(A), B)
    <2>1. A \in Seq(LineByte) /\ B \in Seq(LineByte)
      BY <1>1, <1>2
    <2>2. QED
      BY <2>1, <1>d, JoinFacts
  <1>4. Len(K) = N - 1 /\ \A j \in 1 .. N - 1 : K[j] = IF j < i THEN line[j] ELSE line[j + 1]
    BY <1>0, <1>1, <1>2, <1>3, Closed
  <1>5. K = SubSeq(line, 1, i - 1) \o SubSeq(line, i + 1, Len(line))
    BY <1>a, <1>b, <1>c, <1>d
  <1>6. QED
    BY <1>0, <1>3, <1>4, <1>5, <1>a

LEMMA DropFacts ==
    ASSUME line \in Seq(LineByte), NEW i \in 1 .. Len(line), NEW L,
           L = SubSeq(line, 1, i - 1) \o SubSeq(line, i + 1, Len(line))
    PROVE  /\ L \in Seq(LineByte) /\ Len(line) \in Nat /\ Len(L) = Len(line) - 1
           /\ \A j \in 1 .. Len(line) - 1 : L[j] = IF j < i THEN line[j] ELSE line[j + 1]
  BY DropParts

\* A byte is garbled.
LEMMA GarbleFacts ==
    ASSUME line \in Seq(LineByte), NEW i \in 1 .. Len(line), NEW x \in LineByte, x.f = line[i].f
    PROVE  /\ [line EXCEPT ![i] = x] \in Seq(LineByte) /\ Len([line EXCEPT ![i] = x]) = Len(line)
           /\ \A j \in 1 .. Len(line) : j # i => [line EXCEPT ![i] = x][j] = line[j]
           /\ \A j \in 1 .. Len(line) : [line EXCEPT ![i] = x][j].f = line[j].f
  <1>0. Len(line) \in Nat /\ DOMAIN line = 1 .. Len(line)
    BY LenProperties
  <1>a. PICK L : L = [line EXCEPT ![i] = x]
    OBVIOUS
  <1>1. L \in Seq(LineByte) /\ Len(L) = Len(line)
    BY <1>a, ExceptSeq
  <1>2. L[i] = x /\ \A j \in 1 .. Len(line) : j # i => L[j] = line[j]
    BY <1>0, <1>a
  <1>3. QED
    BY <1>1, <1>2, <1>a

LEMMA TaggedFacts ==
    ASSUME NEW q \in Seq(Byte), NEW f \in Nat
    PROVE  /\ Tagged(q, f) \in Seq(LineByte) /\ Len(Tagged(q, f)) = Len(q)
           /\ \A i \in 1 .. Len(q) : Tagged(q, f)[i] = [b |-> q[i], f |-> f]
  <1>a. PICK N, L : N = Len(q) /\ L = Tagged(q, f)
    OBVIOUS
  <1>0. N \in Nat
    BY <1>a, LenProperties
  <1>1. L = [i \in 1 .. N |-> [b |-> q[i], f |-> f]]
    BY <1>a DEF Tagged
  <1>2. ASSUME NEW i \in 1 .. N PROVE [b |-> q[i], f |-> f] \in LineByte
    BY <1>a, ElementOfSeq DEF LineByte
  <1>3. L \in [1 .. N -> LineByte]
    BY <1>1, <1>2
  <1>4. L \in Seq(LineByte) /\ Len(L) = N
    BY <1>0, <1>3
  <1>5. \A i \in 1 .. N : L[i] = [b |-> q[i], f |-> f]
    BY <1>1
  <1>6. QED
    BY <1>4, <1>5, <1>a

LEMMA LineIs ==
    ASSUME FramingType
    PROVE  line \in Seq(LineByte) /\ Len(line) \in Nat /\ Len(sent) \in Nat /\ Len(got) \in Nat
  <1>1. line \in Seq(LineByte)
    BY DEF FramingType, LineByte
  <1>2. Len(line) \in Nat
    BY <1>1, LenProperties
  <1>3. sent \in Seq(Seq(Byte))
    BY DEF FramingType
  <1>4. got \in Seq([f : Nat, m : Seq(Byte)])
    BY DEF FramingType
  <1>5. Len(sent) \in Nat
    BY <1>3, LenProperties
  <1>6. Len(got) \in Nat
    BY <1>4, LenProperties
  <1>7. QED
    BY <1>1, <1>2, <1>5, <1>6

\* The tags of what is left on the line are those of before, in their order.
LEMMA FewerTags ==
    ASSUME FramingType, FramingType', Tags, sent' = sent, got' = got,
           NEW from \in [1 .. Len(line') -> 1 .. Len(line)],
           \A i, j \in 1 .. Len(line') : i <= j => from[i] <= from[j],
           \A i \in 1 .. Len(line') : line'[i].f = line[from[i]].f
    PROVE  Tags'
  <1>1. \A i \in 1 .. Len(line') : line'[i].f \in 1 .. Len(sent')
    BY DEF Tags
  <1>2. ASSUME NEW i \in 1 .. Len(line'), NEW j \in 1 .. Len(line'), i <= j
        PROVE  line'[i].f <= line'[j].f
    <2>1. from[i] \in 1 .. Len(line) /\ from[j] \in 1 .. Len(line) /\ from[i] <= from[j]
      BY <1>2
    <2>2. line[from[i]].f <= line[from[j]].f
      BY <2>1 DEF Tags
    <2>3. QED
      BY <2>2
  <1>3. \A j \in 1 .. Len(got') : got'[j].f \in 1 .. Len(sent')
    BY DEF Tags
  <1>4. \A i \in 1 .. Len(line'), j \in 1 .. Len(got') : got'[j].f <= line'[i].f
    BY DEF Tags
  <1>5. QED
    BY <1>1, <1>2, <1>3, <1>4 DEF Tags

LEMMA SentRests ==
    ASSUME SentInv, sent' = sent, proto' = proto
    PROVE  SentInv'
  BY DEF SentInv, MessageOk

LEMMA RxRests ==
    ASSUME RestInv, BoundInv, UNCHANGED <<state, escfl, buf, got, proto>>
    PROVE  RestInv' /\ BoundInv'
  BY DEF RestInv, BoundInv, GotOk

LEMMA RecvKeepsBase ==
    ASSUME BaseInv, line # <<>>, line' = Tail(line), UNCHANGED envvars, Received(Head(line))
    PROVE  BaseInv'
  <1>0. FramingType /\ SentInv /\ Tags /\ RestInv /\ BoundInv
    BY DEF BaseInv
  <1>e. sent' = sent /\ damaged' = damaged /\ proto' = proto /\ quiet' = quiet
    BY DEF envvars
  <1>a. PICK L, c, N : L = Tail(line) /\ c = Head(line) /\ N = Len(line)
    OBVIOUS
  <1>1. /\ L \in Seq(LineByte) /\ N \in Nat /\ N >= 1 /\ Len(L) = N - 1
        /\ c = line[1] /\ c \in LineByte /\ \A i \in 1 .. Len(L) : L[i] = line[i + 1]
    BY <1>0, <1>a, LineIs, TailFacts
  <1>2. c.f \in Nat
    BY <1>1 DEF LineByte
  <1>3. \/ got' = got
        \/ \E m \in Seq(Byte) : got' = Append(got, [f |-> c.f, m |-> m]) /\ GotOk(m)
    BY <1>a DEF Received
  <1>b. PICK G : G = got
    OBVIOUS
  <1>4. G \in Seq([f : Nat, m : Seq(Byte)]) /\ Len(G) \in Nat
    BY <1>0, <1>b, LineIs DEF FramingType
  <1>5. /\ got' \in Seq([f : Nat, m : Seq(Byte)])
        /\ \A j \in 1 .. Len(got') : \/ j \in 1 .. Len(G) /\ got'[j] = G[j]
                                     \/ got'[j].f = c.f /\ GotOk(got'[j].m)
    <2>1. CASE got' = got
      BY <2>1, <1>4, <1>b
    <2>2. CASE \E m \in Seq(Byte) : got' = Append(got, [f |-> c.f, m |-> m]) /\ GotOk(m)
      <3>1. PICK m \in Seq(Byte) : got' = Append(G, [f |-> c.f, m |-> m]) /\ GotOk(m)
        BY <2>2, <1>b
      <3>c. PICK x : x = [f |-> c.f, m |-> m]
        OBVIOUS
      <3>2. x \in [f : Nat, m : Seq(Byte)] /\ x.f = c.f /\ x.m = m
        BY <3>c, <1>2
      <3>3. /\ Append(G, x) \in Seq([f : Nat, m : Seq(Byte)]) /\ Len(Append(G, x)) = Len(G) + 1
            /\ \A j \in 1 .. Len(G) : Append(G, x)[j] = G[j]
            /\ Append(G, x)[Len(G) + 1] = x
        BY <3>2, <1>4, AppendProperties
      <3>4. got' = Append(G, x)
        BY <3>1, <3>c
      <3>5. ASSUME NEW j \in 1 .. Len(got')
            PROVE  \/ j \in 1 .. Len(G) /\ got'[j] = G[j]
                   \/ got'[j].f = c.f /\ GotOk(got'[j].m)
        <4>1. j \in 1 .. Len(G) \/ j = Len(G) + 1
          BY <3>3, <3>4, <1>4
        <4>2. QED
          BY <4>1, <3>1, <3>2, <3>3, <3>4
      <3>6. QED
        BY <3>3, <3>4, <3>5
    <2>3. QED
      BY <2>1, <2>2, <1>3
  <1>6. FramingType'
    <2>1. line' \in Seq([b : Byte, f : Nat])
      BY <1>1, <1>a DEF LineByte
    <2>2. /\ buf' \in Seq(Byte) /\ state' \in {"DESYN", "FRAME"} /\ escfl' \in BOOLEAN /\ fcs' \in Byte
      BY DEF Received
    <2>3. QED
      BY <2>1, <2>2, <1>0, <1>e, <1>5 DEF FramingType
  <1>7. SentInv'
    BY <1>0, <1>e, SentRests
  <1>8. RestInv'
    BY DEF Received
  <1>9. BoundInv'
    <2>1. \A j \in 1 .. Len(got') : GotOk(got'[j].m)
      BY <1>0, <1>5, <1>b DEF BoundInv
    <2>2. \A j \in 1 .. Len(got') : GotOk(got[j].m)'
      BY <2>1, <1>e DEF GotOk
    <2>3. Len(buf') <= HdrSz + MaxLen
      BY DEF Received
    <2>4. QED
      BY <2>2, <2>3 DEF BoundInv
  <1>10. Tags'
    <2>1. ASSUME NEW i \in 1 .. Len(L) PROVE i + 1 \in 1 .. N /\ L[i].f = line[i + 1].f
      BY <1>1
    <2>2. \A i \in 1 .. Len(L) : L[i].f \in 1 .. Len(sent)
      BY <2>1, <1>0, <1>a DEF Tags
    <2>3. ASSUME NEW i \in 1 .. Len(L), NEW j \in 1 .. Len(L), i <= j PROVE L[i].f <= L[j].f
      <3>1. i + 1 \in 1 .. N /\ j + 1 \in 1 .. N /\ i + 1 <= j + 1
        BY <2>1, <2>3, <1>1
      <3>2. line[i + 1].f <= line[j + 1].f
        BY <3>1, <1>0, <1>a DEF Tags
      <3>3. QED
        BY <3>2, <2>1
    <2>4. 1 \in 1 .. N /\ c.f \in 1 .. Len(sent)
      BY <1>0, <1>1, <1>a DEF Tags
    <2>5. ASSUME NEW j \in 1 .. Len(got')
          PROVE  got'[j].f \in 1 .. Len(sent) /\ \A i \in 1 .. Len(L) : got'[j].f <= L[i].f
      <3>1. CASE j \in 1 .. Len(G) /\ got'[j] = G[j]
        <4>1. got'[j].f \in 1 .. Len(sent) /\ \A i \in 1 .. N : got'[j].f <= line[i].f
          BY <3>1, <1>0, <1>a, <1>b DEF Tags
        <4>2. QED
          BY <4>1, <2>1
      <3>2. CASE got'[j].f = c.f
        <4>1. ASSUME NEW i \in 1 .. Len(L) PROVE c.f <= L[i].f
          <5>1. 1 \in 1 .. N /\ i + 1 \in 1 .. N /\ 1 <= i + 1
            BY <2>1, <2>4, <1>1
          <5>2. line[1].f <= line[i + 1].f
            BY <5>1, <1>0, <1>a DEF Tags
          <5>3. QED
            BY <5>2, <2>1, <1>1
        <4>2. QED
          BY <4>1, <3>2, <2>4
      <3>3. QED
        BY <3>1, <3>2, <1>5
    <2>6. line' = L /\ sent' = sent
      BY <1>a, <1>e
    <2>7. QED
      BY <2>2, <2>3, <2>5, <2>6 DEF Tags
  <1>11. QED
    BY <1>6, <1>7, <1>8, <1>9, <1>10 DEF BaseInv

\* The bytes of a message on the wire.
LEMMA WireIs ==
    ASSUME NEW m \in Seq(Byte), Len(m) >= 2
    PROVE  /\ Wire(m) \in Seq(Byte) /\ Len(Wire(m)) \in Nat /\ Len(Wire(m)) > 1
           /\ proto = "bsp" => \E off : BspLaid(Wire(m), m, off)
           /\ proto # "bsp" => \E off : MsgLaid(Wire(m), m, off)
  <1>a. PICK F, N : F = Wire(m) /\ N = Len(m)
    OBVIOUS
  <1>0. N \in Nat /\ N >= 2
    BY <1>a, LenProperties
  <1>1. CASE proto = "bsp"
    <2>1. F = BspFrame(m)
      BY <1>a, <1>1 DEF Wire
    <2>2. PICK off : BspLaid(F, m, off)
      BY <2>1, BspFrameLaid
    <2>3. F \in Seq(Byte) /\ Len(F) = off[N] + 1 /\ N \in 0 .. N /\ 1 \in 1 .. N
      BY <2>2, <1>a, <1>0 DEF BspLaid
    <2>4. off[N] \in Nat /\ off[N - 1] \in Nat /\ off[N] = off[N - 1] + BspWidth(Hard(m, N))
      <3>1. N \in 1 .. N /\ N - 1 \in 0 .. N
        BY <1>0
      <3>2. QED
        BY <3>1, <2>2, <2>3, <1>a DEF BspLaid
    <2>5. BspWidth(Hard(m, N)) \in {1, 2}
      BY DEF BspWidth
    <2>6. Len(F) > 1 /\ Len(F) \in Nat
      BY <2>3, <2>4, <2>5
    <2>7. QED
      BY <1>1, <1>a, <2>2, <2>3, <2>6
  <1>2. CASE proto # "bsp"
    <2>1. F = MsgFrame(m)
      BY <1>a, <1>2 DEF Wire
    <2>2. PICK off : MsgLaid(F, m, off)
      BY <2>1, MsgFrameLaid
    <2>3. F \in Seq(Byte) /\ Len(F) = off[N] /\ off[0] = 1 /\ N \in 0 .. N /\ 1 \in 1 .. N
      BY <2>2, <1>a, <1>0 DEF MsgLaid
    <2>4. /\ off[1] \in Nat /\ off[1] = off[0] + MsgWidth(m[1])
      <3>1. 1 \in 1 .. N /\ 1 \in 0 .. N /\ 1 - 1 = 0
        BY <1>0
      <3>2. QED
        BY <3>1, <2>2, <1>a DEF MsgLaid
    <2>5. MsgWidth(m[1]) \in {1, 2}
      BY DEF MsgWidth
    <2>6. off[N] >= off[1] /\ off[N] \in Nat
      <3>1. ASSUME NEW k \in 1 .. N PROVE off[k] \in Nat /\ off[k - 1] \in Nat /\ off[k] > off[k - 1]
        <4>1. k \in 0 .. N /\ k - 1 \in 0 .. N
          BY <1>0
        <4>2. off[k] \in Nat /\ off[k - 1] \in Nat /\ off[k] = off[k - 1] + MsgWidth(m[k])
          BY <4>1, <2>2, <1>a DEF MsgLaid
        <4>3. QED
          BY <4>2 DEF MsgWidth
      <3>b. PICK T : T = {k \in Nat : k >= 1 /\ k <= N /\ ~(off[k] >= off[1])}
        OBVIOUS
      <3>2. ASSUME T # {} PROVE FALSE
        <4>0. T \in SUBSET Nat
          BY <3>b
        <4>1. PICK k \in T : \A y \in T : k <= y
          BY <3>2, <4>0, Least
        <4>2. k \in Nat /\ k >= 1 /\ k <= N /\ ~(off[k] >= off[1])
          BY <4>1, <3>b
        <4>3. k # 1
          BY <4>2, <2>4
        <4>c. PICK h : h = k - 1
          OBVIOUS
        <4>4. h \in Nat /\ h >= 1 /\ h <= N /\ h \notin T /\ k \in 1 .. N
          BY <4>1, <4>2, <4>3, <4>c, <1>0
        <4>5. off[h] >= off[1]
          BY <4>4, <3>b
        <4>d. PICK u, v, w : u = off[h] /\ v = off[k] /\ w = off[1]
          OBVIOUS
        <4>6. u \in Nat /\ v \in Nat /\ w \in Nat /\ v > u /\ u >= w /\ ~(v >= w)
          BY <4>2, <4>4, <4>5, <4>c, <4>d, <3>1, <2>4
        <4>7. QED
          BY <4>6
      <3>3. N \in Nat /\ N >= 1 /\ N <= N /\ N \in 1 .. N
        BY <1>0
      <3>4. QED
        BY <3>1, <3>2, <3>3, <3>b
    <2>7. Len(F) > 1 /\ Len(F) \in Nat
      BY <2>3, <2>4, <2>5, <2>6
    <2>8. QED
      BY <1>2, <1>a, <2>2, <2>3, <2>7
  <1>3. QED
    BY <1>1, <1>2

LEMMA SendFacts ==
    ASSUME FramingType, NEW d \in Datas, NEW q \in 0 .. Len(Encoded(d)), msg_send(d, q)
    PROVE  \E m, F : /\ m \in Seq(Byte) /\ MessageOk(m) /\ F = Wire(m) /\ F \in Seq(Byte) /\ q \in Nat /\ q <= Len(F)
                     /\ line' \in Seq(LineByte) /\ Len(line') = Len(line) + q
                     /\ \A i \in 1 .. Len(line) : line'[i] = line[i]
                     /\ \A i \in 1 .. q : line'[Len(line) + i] = [b |-> F[i], f |-> Len(sent) + 1]
                     /\ sent' = Append(sent, m)
                     /\ IF q = Len(F) THEN damaged' = damaged ELSE damaged' = damaged \cup {Len(sent) + 1}
  <1>0. /\ line \in Seq(LineByte) /\ Len(line) \in Nat /\ Len(sent) \in Nat
        /\ proto \in {"serial", "tcp", "bsp"}
    BY LineIs DEF FramingType
  <1>1. Sendable(d)
    BY DEF msg_send
  <1>a. PICK m, F, k : m = Sent(d) /\ F = Encoded(d) /\ k = Len(sent) + 1
    OBVIOUS
  <1>2. m \in Seq(Byte) /\ MessageOk(m)
    BY <1>0, <1>1, <1>a, SentFacts
  <1>3. F = Wire(m)
    BY <1>a DEF Wire, Encoded
  <1>4. Len(m) >= 2
    BY <1>2, ByteFacts DEF MessageOk, HdrSz
  <1>5. F \in Seq(Byte) /\ Len(F) \in Nat
    BY <1>2, <1>3, <1>4, WireIs
  <1>6. q \in Nat /\ q <= Len(F) /\ k \in Nat
    BY <1>0, <1>5, <1>a
  <1>b. PICK P, Q : P = SubSeq(F, 0 + 1, q) /\ Q = Tagged(P, k)
    OBVIOUS
  <1>7. P \in Seq(Byte) /\ Len(P) = q - 0 /\ Written(F, 0, P)
    <2>1. 0 \in Nat /\ 0 <= q
      BY <1>6
    <2>2. QED
      BY <2>1, <1>5, <1>6, <1>b, PartFacts
  <1>8. Q \in Seq(LineByte) /\ Len(Q) = q /\ \A i \in 1 .. q : Q[i] = [b |-> F[i], f |-> k]
    <2>0. Len(P) = q
      BY <1>6, <1>7
    <2>1. Q \in Seq(LineByte) /\ Len(Q) = Len(P) /\ \A i \in 1 .. Len(P) : Q[i] = [b |-> P[i], f |-> k]
      BY <1>6, <1>7, <1>b, TaggedFacts
    <2>2. ASSUME NEW i \in 1 .. q PROVE P[i] = F[i]
      <3>1. F[0 + i] = P[i] /\ 0 + i = i
        BY <2>0, <1>6, <1>7 DEF Written
      <3>2. QED
        BY <3>1
    <2>3. QED
      BY <2>0, <2>1, <2>2
  <1>9. /\ line' = line \o Q /\ sent' = Append(sent, m)
        /\ IF q = Len(F) THEN damaged' = damaged ELSE damaged' = damaged \cup {k}
    <2>1. line' = line \o Tagged(SubSeq(F, 1, q), k)
      BY <1>a DEF msg_send
    <2>2. 0 + 1 = 1
      OBVIOUS
    <2>3. QED
      BY <2>1, <2>2, <1>a, <1>b DEF msg_send
  <1>10. /\ line \o Q \in Seq(LineByte) /\ Len(line \o Q) = Len(line) + Len(Q)
         /\ Written(line \o Q, 0, line) /\ Written(line \o Q, Len(line), Q)
    BY <1>0, <1>8, JoinFacts
  <1>11. ASSUME NEW i \in 1 .. Len(line) PROVE line'[i] = line[i]
    <2>1. (line \o Q)[0 + i] = line[i] /\ 0 + i = i
      BY <1>0, <1>10 DEF Written
    <2>2. QED
      BY <2>1, <1>9
  <1>12. ASSUME NEW i \in 1 .. q PROVE line'[Len(line) + i] = [b |-> F[i], f |-> k]
    BY <1>8, <1>9, <1>10 DEF Written
  <1>13. line' \in Seq(LineByte) /\ Len(line') = Len(line) + q
    BY <1>8, <1>9, <1>10
  <1>14. QED
    BY <1>2, <1>3, <1>5, <1>6, <1>9, <1>11, <1>12, <1>13, <1>a

\* What a frame that is sent changes.
Added(k, m, F, q) ==
    /\ k = Len(sent) + 1 /\ k \in Nat /\ k >= 1
    /\ m \in Seq(Byte) /\ MessageOk(m) /\ F = Wire(m) /\ F \in Seq(Byte) /\ q \in Nat /\ q <= Len(F)
    /\ line' \in Seq(LineByte) /\ Len(line') = Len(line) + q
    /\ \A i \in 1 .. Len(line) : line'[i] = line[i]
    /\ \A i \in 1 .. q : line'[Len(line) + i] = [b |-> F[i], f |-> k]
    /\ sent' \in Seq(Seq(Byte)) /\ Len(sent') = k /\ sent'[k] = m
    /\ \A f \in 1 .. Len(sent) : sent'[f] = sent[f]
    /\ IF q = Len(F) THEN damaged' = damaged ELSE damaged' = damaged \cup {k}
    /\ state' = state /\ escfl' = escfl /\ buf' = buf /\ fcs' = fcs /\ got' = got /\ eaten' = eaten
    /\ proto' = proto
    /\ quiet' = IF proto = "bsp" /\ line = <<>> /\ buf = <<>> THEN quiet \cup {k} ELSE quiet

LEMMA SendAdds ==
    ASSUME FramingType, NEW d \in Datas, NEW q \in 0 .. Len(Encoded(d)), msg_send(d, q)
    PROVE  \E k, m, F : Added(k, m, F, q)
  <1>1. PICK m, F : /\ m \in Seq(Byte) /\ MessageOk(m) /\ F = Wire(m) /\ F \in Seq(Byte) /\ q \in Nat /\ q <= Len(F)
                    /\ line' \in Seq(LineByte) /\ Len(line') = Len(line) + q
                    /\ \A i \in 1 .. Len(line) : line'[i] = line[i]
                    /\ \A i \in 1 .. q : line'[Len(line) + i] = [b |-> F[i], f |-> Len(sent) + 1]
                    /\ sent' = Append(sent, m)
                    /\ IF q = Len(F) THEN damaged' = damaged ELSE damaged' = damaged \cup {Len(sent) + 1}
    BY SendFacts
  <1>a. PICK k, A : k = Len(sent) + 1 /\ A = sent
    OBVIOUS
  <1>2. A \in Seq(Seq(Byte)) /\ Len(A) \in Nat /\ m \in Seq(Byte)
    BY <1>1, <1>a, LineIs DEF FramingType
  <1>3. /\ Append(A, m) \in Seq(Seq(Byte)) /\ Len(Append(A, m)) = Len(A) + 1 /\ Append(A, m)[Len(A) + 1] = m
        /\ \A f \in 1 .. Len(A) : Append(A, m)[f] = A[f]
    BY <1>2, AppendProperties
  <1>4. /\ sent' \in Seq(Seq(Byte)) /\ Len(sent') = k /\ sent'[k] = m
        /\ \A f \in 1 .. Len(sent) : sent'[f] = sent[f]
    BY <1>1, <1>3, <1>a
  <1>5. k \in Nat /\ k >= 1
    BY <1>2, <1>a
  <1>6. /\ state' = state /\ escfl' = escfl /\ buf' = buf /\ fcs' = fcs /\ got' = got /\ eaten' = eaten
        /\ proto' = proto
        /\ quiet' = IF proto = "bsp" /\ line = <<>> /\ buf = <<>> THEN quiet \cup {k} ELSE quiet
    BY <1>a DEF msg_send, rxvars
  <1>7. Added(k, m, F, q)
    BY <1>1, <1>4, <1>5, <1>6, <1>a DEF Added
  <1>8. QED
    BY <1>7

LEMMA SendKeepsBase ==
    ASSUME BaseInv, NEW k, NEW m, NEW F, NEW q, Added(k, m, F, q)
    PROVE  BaseInv'
  <1>0. FramingType /\ SentInv /\ Tags /\ RestInv /\ BoundInv
    BY DEF BaseInv
  <1>e. /\ k = Len(sent) + 1 /\ k \in Nat /\ k >= 1 /\ q \in Nat
        /\ line' \in Seq(LineByte) /\ Len(line') = Len(line) + q
        /\ \A i \in 1 .. Len(line) : line'[i] = line[i]
        /\ \A i \in 1 .. q : line'[Len(line) + i] = [b |-> F[i], f |-> k]
        /\ sent' \in Seq(Seq(Byte)) /\ Len(sent') = k /\ sent'[k] = m
        /\ \A f \in 1 .. Len(sent) : sent'[f] = sent[f]
        /\ damaged' \subseteq damaged \cup {k} /\ quiet' \subseteq quiet \cup {k}
        /\ UNCHANGED <<state, escfl, buf, fcs, got, eaten, proto>>
    BY DEF Added
  <1>1. Len(line) \in Nat /\ Len(sent) \in Nat /\ Len(got) \in Nat
    BY <1>0, LineIs
  <1>2. FramingType'
    <2>1. damaged' \subseteq 1 .. Len(sent') /\ quiet' \subseteq 1 .. Len(sent')
      <3>1. damaged \subseteq 1 .. Len(sent) /\ quiet \subseteq 1 .. Len(sent)
        BY <1>0 DEF FramingType
      <3>2. \A f \in 1 .. Len(sent) : f \in 1 .. Len(sent')
        BY <1>e, <1>1
      <3>3. k \in 1 .. Len(sent')
        BY <1>e
      <3>4. QED
        BY <3>1, <3>2, <3>3, <1>e
    <2>2. line' \in Seq([b : Byte, f : Nat])
      BY <1>e DEF LineByte
    <2>3. QED
      BY <2>1, <2>2, <1>0, <1>e DEF FramingType
  <1>3. SentInv'
    <2>1. MessageOk(m)
      BY DEF Added
    <2>2. ASSUME NEW f \in 1 .. k PROVE MessageOk(sent'[f])
      <3>1. f \in 1 .. Len(sent) \/ f = k
        BY <1>e, <1>1
      <3>2. QED
        BY <3>1, <2>1, <1>0, <1>e DEF SentInv
    <2>3. ASSUME NEW f \in 1 .. k PROVE MessageOk(sent[f])'
      BY <2>2, <1>e DEF MessageOk
    <2>4. QED
      BY <2>3, <1>e DEF SentInv
  <1>4. RestInv' /\ BoundInv'
    BY <1>0, <1>e, RxRests
  <1>5. Tags'
    <2>a. PICK N : N = Len(line)
      OBVIOUS
    <2>1. ASSUME NEW i \in 1 .. Len(line')
          PROVE  \/ i \in 1 .. N /\ line'[i] = line[i] /\ line[i].f \in 1 .. Len(sent)
                 \/ i > N /\ line'[i].f = k
      <3>1. CASE i <= N
        <4>1. i \in 1 .. N
          BY <3>1, <1>1, <1>e, <2>a
        <4>2. QED
          BY <4>1, <1>0, <1>e, <2>a DEF Tags
      <3>2. CASE i > N
        <4>b. PICK h : h = i - N
          OBVIOUS
        <4>1. h \in 1 .. q /\ Len(line) + h = i
          BY <3>2, <1>1, <1>e, <2>a, <4>b
        <4>2. line'[i] = [b |-> F[h], f |-> k]
          BY <4>1, <1>e
        <4>3. QED
          BY <4>2, <3>2
      <3>3. QED
        BY <3>1, <3>2, <1>1, <1>e, <2>a
    <2>b. k \in Nat /\ k >= 1 /\ Len(sent) \in Nat /\ k = Len(sent) + 1
      BY <1>1, <1>e
    <2>2. ASSUME NEW i \in 1 .. Len(line') PROVE line'[i].f \in 1 .. k
      <3>1. CASE line'[i] = line[i] /\ line[i].f \in 1 .. Len(sent)
        BY <3>1, <2>b
      <3>2. CASE line'[i].f = k
        BY <3>2, <2>b
      <3>3. QED
        BY <2>1, <3>1, <3>2
    <2>3. ASSUME NEW i \in 1 .. Len(line'), NEW j \in 1 .. Len(line'), i <= j PROVE line'[i].f <= line'[j].f
      <3>1. CASE i \in 1 .. N /\ line'[i] = line[i] /\ j \in 1 .. N /\ line'[j] = line[j]
        BY <3>1, <2>3, <1>0, <2>a DEF Tags
      <3>2. CASE line'[j].f = k
        <4>1. line'[i].f \in 1 .. k
          BY <2>2
        <4>2. QED
          BY <4>1, <3>2, <1>e
      <3>3. CASE i > N /\ j \in 1 .. N
        BY <3>3, <2>3, <1>1, <2>a
      <3>4. QED
        BY <3>1, <3>2, <3>3, <2>1
    <2>4. ASSUME NEW j \in 1 .. Len(got)
          PROVE  got[j].f \in 1 .. k /\ \A i \in 1 .. Len(line') : got[j].f <= line'[i].f
      <3>1. got[j].f \in 1 .. Len(sent) /\ \A i \in 1 .. N : got[j].f <= line[i].f
        BY <1>0, <2>a DEF Tags
      <3>2. got[j].f \in 1 .. k
        BY <3>1, <1>e, <1>1
      <3>3. ASSUME NEW i \in 1 .. Len(line') PROVE got[j].f <= line'[i].f
        <4>1. CASE i \in 1 .. N /\ line'[i] = line[i]
          BY <4>1, <3>1
        <4>2. CASE line'[i].f = k
          BY <4>2, <3>2, <1>e
        <4>3. QED
          BY <4>1, <4>2, <2>1
      <3>4. QED
        BY <3>2, <3>3
    <2>5. QED
      BY <2>2, <2>3, <2>4, <1>e DEF Tags
  <1>6. QED
    BY <1>2, <1>3, <1>4, <1>5 DEF BaseInv

\* What a fault on the line changes.
Faulty(i) == /\ i \in 1 .. Len(line) /\ line' \in Seq(LineByte)
             /\ damaged' = damaged \cup {line[i].f}
             /\ UNCHANGED <<sent, state, escfl, buf, fcs, got, eaten, proto, quiet>>

\* It is gone,
Gone(i) == /\ Faulty(i) /\ Len(line') = Len(line) - 1
           /\ \A j \in 1 .. Len(line) - 1 : line'[j] = IF j < i THEN line[j] ELSE line[j + 1]

\* or garbled.
Garbled(i) == /\ Faulty(i) /\ Len(line') = Len(line)
              /\ \A j \in 1 .. Len(line) : j # i => line'[j] = line[j]
              /\ \A j \in 1 .. Len(line) : line'[j].f = line[j].f

LEMMA DropIsGone ==
    ASSUME FramingType, NEW i \in 1 .. Len(line), drop(i)
    PROVE  Gone(i)
  <1>1. line \in Seq(LineByte)
    BY LineIs
  <1>2. /\ line' \in Seq(LineByte) /\ Len(line) \in Nat /\ Len(line') = Len(line) - 1
        /\ \A j \in 1 .. Len(line) - 1 : line'[j] = IF j < i THEN line[j] ELSE line[j + 1]
    <2>1. line' = SubSeq(line, 1, i - 1) \o SubSeq(line, i + 1, Len(line))
      BY DEF drop
    <2>2. QED
      BY <1>1, <2>1, DropFacts
  <1>3. QED
    BY <1>2 DEF drop, Gone, Faulty, rxvars

LEMMA GarbleIsGarbled ==
    ASSUME FramingType, NEW i \in 1 .. Len(line), NEW b \in Byte, garble(i, b)
    PROVE  Garbled(i)
  <1>1. line \in Seq(LineByte)
    BY LineIs
  <1>a. PICK x, L : x = [line[i] EXCEPT !.b = b] /\ L = [line EXCEPT ![i] = x]
    OBVIOUS
  <1>2. line' = L
    BY <1>a DEF garble
  <1>b. line[i] \in LineByte
    BY <1>1, ElementOfSeq
  <1>c. x \in LineByte /\ x.f = line[i].f
    BY <1>b, <1>a DEF LineByte
  <1>3. /\ L \in Seq(LineByte) /\ Len(L) = Len(line)
        /\ \A j \in 1 .. Len(line) : j # i => L[j] = line[j]
        /\ \A j \in 1 .. Len(line) : L[j].f = line[j].f
    BY <1>1, <1>c, <1>a, GarbleFacts
  <1>4. QED
    BY <1>2, <1>3 DEF garble, Garbled, Faulty, rxvars

LEMMA FaultKeepsBase ==
    ASSUME BaseInv, NEW i, Gone(i) \/ Garbled(i)
    PROVE  BaseInv'
  <1>0. FramingType /\ SentInv /\ Tags /\ RestInv /\ BoundInv /\ Faulty(i)
    BY DEF BaseInv, Gone, Garbled
  <1>1. /\ Len(line) \in Nat /\ Len(sent) \in Nat /\ i \in 1 .. Len(line) /\ line' \in Seq(LineByte)
        /\ damaged' = damaged \cup {line[i].f}
        /\ UNCHANGED <<sent, state, escfl, buf, fcs, got, eaten, proto, quiet>>
    BY <1>0, LineIs DEF Faulty
  <1>2. FramingType'
    <2>1. line[i].f \in 1 .. Len(sent)
      BY <1>0, <1>1 DEF Tags
    <2>2. QED
      BY <2>1, <1>0, <1>1 DEF FramingType, LineByte
  <1>3. SentInv' /\ RestInv' /\ BoundInv'
    BY <1>0, <1>1, SentRests, RxRests
  <1>4. CASE Gone(i)
    <2>a. PICK from : from = [j \in 1 .. Len(line) - 1 |-> IF j < i THEN j ELSE j + 1]
      OBVIOUS
    <2>1. Len(line') = Len(line) - 1 /\ \A j \in 1 .. Len(line) - 1 : line'[j] = IF j < i THEN line[j] ELSE line[j + 1]
      BY <1>4 DEF Gone
    <2>2. from \in [1 .. Len(line') -> 1 .. Len(line)]
      BY <2>1, <2>a, <1>1
    <2>3. \A j, h \in 1 .. Len(line') : j <= h => from[j] <= from[h]
      BY <2>1, <2>a, <1>1
    <2>4. \A j \in 1 .. Len(line') : line'[j].f = line[from[j]].f
      BY <2>1, <2>a, <1>1
    <2>5. Tags'
      BY <1>0, <1>1, <1>2, <2>2, <2>3, <2>4, FewerTags
    <2>6. QED
      BY <1>2, <1>3, <2>5 DEF BaseInv
  <1>5. CASE Garbled(i)
    <2>1. Len(line') = Len(line) /\ \A j \in 1 .. Len(line) : line'[j].f = line[j].f
      BY <1>5 DEF Garbled
    <2>2. Tags'
      BY <2>1, <1>0, <1>1 DEF Tags
    <2>3. QED
      BY <1>2, <1>3, <2>2 DEF BaseInv
  <1>6. QED
    BY <1>4, <1>5

\* A routine that gives up on an empty line.
GaveUp == /\ line = <<>> /\ state' = "DESYN" /\ escfl' = FALSE /\ buf' = <<>> /\ fcs' = 0
          /\ UNCHANGED <<line, sent, damaged, got, eaten, proto, quiet>>

LEMMA GaveUpKeepsBase ==
    ASSUME BaseInv, GaveUp
    PROVE  BaseInv'
  <1>0. FramingType /\ SentInv /\ Tags /\ RestInv /\ BoundInv
    BY DEF BaseInv
  <1>1. FramingType'
    BY <1>0, EmptyFacts DEF FramingType, GaveUp
  <1>2. SentInv' /\ Tags'
    BY <1>0, SentRests DEF GaveUp, Tags
  <1>3. RestInv' /\ BoundInv'
    <2>1. Len(buf') <= HdrSz + MaxLen
      BY EmptyFacts, ByteFacts DEF GaveUp, HdrSz
    <2>2. QED
      BY <2>1, <1>0 DEF RestInv, BoundInv, GotOk, GaveUp
  <1>4. QED
    BY <1>1, <1>2, <1>3 DEF BaseInv

-----------------------------------------------------------------------------
(* The steps.                                                              *)

Kept == UNCHANGED <<line, sent, damaged, state, escfl, buf, fcs, got, eaten, proto, quiet>>

LEMMA FramingSteps ==
    ASSUME BaseInv, [FramingNext]_framevars
    PROVE  \/ \E k, m, F, q : Added(k, m, F, q)
           \/ \E i : Gone(i) \/ Garbled(i)
           \/ GaveUp \/ Kept \/ msg_recv_byte \/ bsp_recv_byte
  <1>0. FramingType
    BY DEF BaseInv
  <1>1. CASE \E d \in Datas : \E q \in 0 .. Len(Encoded(d)) : msg_send(d, q)
    <2>0. PICK d \in Datas : \E q \in 0 .. Len(Encoded(d)) : msg_send(d, q)
      BY <1>1
    <2>1. PICK q \in 0 .. Len(Encoded(d)) : msg_send(d, q)
      BY <2>0
    <2>2. \E k, m, F : Added(k, m, F, q)
      BY <1>0, <2>1, SendAdds
    <2>3. QED
      BY <2>2
  <1>2. CASE \E i \in 1 .. Len(line) : drop(i) \/ \E b \in Byte : garble(i, b)
    <2>1. PICK i \in 1 .. Len(line) : drop(i) \/ \E b \in Byte : garble(i, b)
      BY <1>2
    <2>2. Gone(i) \/ Garbled(i)
      BY <2>1, <1>0, DropIsGone, GarbleIsGarbled
    <2>3. QED
      BY <2>2
  <1>3. CASE msg_recv_end
    BY <1>3 DEF msg_recv_end, GaveUp, Return, envvars
  <1>4. CASE bsp_recv_timeout
    BY <1>4 DEF bsp_recv_timeout, GaveUp, Return, envvars
  <1>5. CASE hang_up
    BY <1>5 DEF hang_up, Kept, rxvars
  <1>6. CASE UNCHANGED framevars
    BY <1>6 DEF framevars, Kept, rxvars
  <1>7. QED
    BY <1>1, <1>2, <1>3, <1>4, <1>5, <1>6 DEF FramingNext

LEMMA ByteIsReceived ==
    ASSUME BaseInv, msg_recv_byte \/ bsp_recv_byte
    PROVE  line # <<>> /\ line' = Tail(line) /\ UNCHANGED envvars /\ Received(Head(line))
  <1>1. line # <<>> /\ line' = Tail(line) /\ UNCHANGED envvars
    BY DEF msg_recv_byte, bsp_recv_byte
  <1>2. line \in Seq(LineByte)
    BY LineIs DEF BaseInv
  <1>a. PICK c : c = Head(line)
    OBVIOUS
  <1>3. c \in LineByte /\ proto' = proto
    BY <1>1, <1>2, <1>a, TailFacts DEF envvars
  <1>4. CASE msg_recv_byte
    <2>1. proto # "bsp" /\ (TooLong(c) \/ Terminator(c) \/ EscapeByte(c) \/ DataByte(c) \/ Synchronize(c))
      BY <1>4, <1>a DEF msg_recv_byte
    <2>2. Received(c)
      BY <2>1, <1>3, MsgByteReceived
    <2>3. QED
      BY <1>1, <2>2, <1>a
  <1>5. CASE bsp_recv_byte
    <2>1. /\ proto = "bsp" /\ eaten' = eaten
          /\ BspHeader(c) \/ BspTooLong(c) \/ BspEscaped(c) \/ BspEnd(c) \/ BspByte(c)
      BY <1>5, <1>a DEF bsp_recv_byte
    <2>2. Received(c)
      BY <2>1, <1>3, BspByteReceived
    <2>3. QED
      BY <1>1, <2>2, <1>a
  <1>6. QED
    BY <1>4, <1>5

LEMMA BaseInitially ==
    ASSUME FramingInit
    PROVE  BaseInv
  <1>1. FramingType
    <2>1. line = <<>> /\ sent = <<>> /\ got = <<>> /\ damaged = {} /\ quiet = {}
      BY DEF FramingInit
    <2>2. line \in Seq([b : Byte, f : Nat]) /\ sent \in Seq(Seq(Byte)) /\ got \in Seq([f : Nat, m : Seq(Byte)])
      BY <2>1
    <2>3. QED
      BY <2>1, <2>2, EmptyFacts DEF FramingInit, FramingType
  <1>2. SentInv /\ Tags
    BY DEF FramingInit, SentInv, Tags
  <1>3. RestInv
    BY DEF FramingInit, RestInv
  <1>4. BoundInv
    <2>1. buf = <<>> /\ got = <<>>
      BY DEF FramingInit
    <2>2. Len(buf) <= HdrSz + MaxLen
      BY <2>1, EmptyFacts, ByteFacts DEF HdrSz
    <2>3. QED
      BY <2>1, <2>2 DEF BoundInv
  <1>5. QED
    BY <1>1, <1>2, <1>3, <1>4 DEF BaseInv

LEMMA StepKeepsBase ==
    ASSUME BaseInv, [FramingNext]_framevars
    PROVE  BaseInv'
  <1>1. CASE \E k, m, F, q : Added(k, m, F, q)
    BY <1>1, SendKeepsBase
  <1>2. CASE \E i : Gone(i) \/ Garbled(i)
    BY <1>2, FaultKeepsBase
  <1>3. CASE GaveUp
    BY <1>3, GaveUpKeepsBase
  <1>4. CASE msg_recv_byte \/ bsp_recv_byte
    BY <1>4, ByteIsReceived, RecvKeepsBase
  <1>5. CASE Kept
    <2>1. FramingType /\ SentInv /\ Tags /\ RestInv /\ BoundInv
      BY DEF BaseInv
    <2>2. FramingType' /\ Tags'
      BY <1>5, <2>1 DEF Kept, FramingType, Tags
    <2>3. SentInv' /\ RestInv' /\ BoundInv'
      BY <1>5, <2>1, SentRests, RxRests DEF Kept
    <2>4. QED
      BY <2>2, <2>3 DEF BaseInv
  <1>6. QED
    BY <1>1, <1>2, <1>3, <1>4, <1>5, FramingSteps

\* The buffers are large enough.
LEMMA BuffersHold ==
    ASSUME BaseInv
    PROVE  BufferBound
  <1>0. FramingType /\ SentInv /\ BoundInv
    BY DEF BaseInv
  <1>1. proto = "bsp" => \A f \in 1 .. Len(sent) :
           \/ Len(BspFrame(sent[f])) <= 2 * MaxLen + HdrSz
           \/ /\ Len(sent[f]) = HdrSz + MaxLen
              /\ \A i \in HdrSz + 1 .. Len(sent[f]) : Special(sent[f][i])
    <2>1. SUFFICES ASSUME proto = "bsp", NEW f \in 1 .. Len(sent),
                          ~(/\ Len(sent[f]) = HdrSz + MaxLen
                            /\ \A i \in HdrSz + 1 .. Len(sent[f]) : Special(sent[f][i]))
                   PROVE  Len(BspFrame(sent[f])) <= 2 * MaxLen + HdrSz
      OBVIOUS
    <2>a. PICK m, F, N : m = sent[f] /\ F = BspFrame(m) /\ N = Len(m)
      OBVIOUS
    <2>2. m \in Seq(Byte)
      <3>1. sent \in Seq(Seq(Byte))
        BY <1>0 DEF FramingType
      <3>2. QED
        BY <3>1, <2>a, ElementOfSeq
    <2>3. N \in Nat /\ N >= 2 /\ N <= 2 + MaxLen /\ MaxLen \in Nat
      <3>1. MessageOk(m)
        BY <1>0, <2>a DEF SentInv
      <3>2. QED
        BY <3>1, <2>a, <2>2, LenProperties, ByteFacts DEF MessageOk, HdrSz
    <2>4. PICK off : BspLaid(F, m, off)
      BY <2>2, <2>a, BspFrameLaid
    <2>5. /\ off[N] <= 2 * N - 2
          /\ \A j \in 3 .. N : ~Special(m[j]) => off[N] <= 2 * N - 3
      <3>1. /\ \A k \in 2 .. Len(m) : off[k] <= 2 * k - 2
            /\ \A j \in 3 .. Len(m) : ~Special(m[j]) => off[Len(m)] <= 2 * Len(m) - 3
        BY <2>2, <2>3, <2>4, <2>a, BspLength
      <3>2. N \in 2 .. N
        BY <2>3
      <3>3. QED
        BY <3>1, <3>2, <2>a
    <2>6. Len(F) = off[N] + 1 /\ off[N] \in Nat
      BY <2>3, <2>4, <2>a DEF BspLaid
    <2>7. CASE N < 2 + MaxLen
      BY <2>3, <2>5, <2>6, <2>7, <2>a DEF HdrSz
    <2>8. CASE N = 2 + MaxLen
      <3>1. PICK j \in HdrSz + 1 .. N : ~Special(m[j])
        BY <2>1, <2>8, <2>a DEF HdrSz
      <3>2. j \in 3 .. N
        BY DEF HdrSz
      <3>3. off[N] <= 2 * N - 3
        BY <3>1, <3>2, <2>5
      <3>4. QED
        BY <3>3, <2>3, <2>6, <2>8, <2>a DEF HdrSz
    <2>9. QED
      BY <2>3, <2>7, <2>8
  <1>2. QED
    BY <1>0, <1>1 DEF BoundInv, GotOk, BufferBound

\* The part of the invariant that speaks of no frame's place on the line: the
\* types, that every message delivered was complete and is as long as its length
\* says, and that msg_serial_recv, msg_tcp_recv and bsp_recv keep their indices
\* inside their buffers.
THEOREM FramingInvariance ==
    FramingSpec => []BaseInv
  BY BaseInitially, StepKeepsBase, PTL DEF FramingSpec

\* BufferBound holds for every size of message, byte and frame and any number
\* of faults: msg_serial_recv, msg_tcp_recv and bsp_recv store no byte behind
\* their buffers, the length of what they deliver is the one it announces, and
\* only a BSP frame of full size in which every byte is escaped is longer than
\* bsp_send's buffer.
THEOREM BuffersAreBounded ==
    FramingSpec => []BufferBound
  BY FramingInvariance, BuffersHold, PTL

-----------------------------------------------------------------------------
(* Reading a frame in its place.                                           *)

LEMMA Grows ==
    ASSUME NEW N \in Nat, NEW off \in [0 .. N -> Nat], \A k \in 1 .. N : off[k] > off[k - 1],
           NEW a \in 0 .. N, a < N
    PROVE  off[a] < off[N]
  <1>b. PICK T : T = {k \in Nat : k > a /\ k <= N /\ ~(off[k] > off[a])}
    OBVIOUS
  <1>1. ASSUME T # {} PROVE FALSE
    <2>0. T \in SUBSET Nat
      BY <1>b
    <2>1. PICK k \in T : \A y \in T : k <= y
      BY <1>1, <2>0, Least
    <2>2. k \in Nat /\ k > a /\ k <= N /\ ~(off[k] > off[a]) /\ k \in 1 .. N
      BY <2>1, <1>b
    <2>c. PICK h, u, v, w : h = k - 1 /\ u = off[h] /\ v = off[k] /\ w = off[a]
      OBVIOUS
    <2>3. h \in Nat /\ h >= a /\ h <= N /\ h \notin T /\ h \in 0 .. N
      BY <2>1, <2>2, <2>c
    <2>4. u \in Nat /\ v \in Nat /\ w \in Nat /\ v > u /\ ~(v > w)
      BY <2>2, <2>3, <2>c
    <2>5. CASE h = a
      BY <2>4, <2>5, <2>c
    <2>6. CASE h # a
      <3>1. u > w
        BY <2>3, <2>6, <1>b, <2>c
      <3>2. QED
        BY <3>1, <2>4
    <2>7. QED
      BY <2>5, <2>6
  <1>2. N \in Nat /\ N > a /\ N <= N /\ N \in 0 .. N
    OBVIOUS
  <1>3. off[N] > off[a]
    BY <1>1, <1>2, <1>b
  <1>4. off[N] \in Nat /\ off[a] \in Nat
    BY <1>2
  <1>5. QED
    BY <1>3, <1>4

\* The places behind the bytes of a message grow to the end of its frame.
LEMMA MsgGrows ==
    ASSUME NEW m \in Seq(Byte), NEW F, NEW off, MsgLaid(F, m, off), NEW a \in 0 .. Len(m)
    PROVE  /\ off[a] \in Nat /\ Len(F) \in Nat /\ Len(F) = off[Len(m)]
           /\ a < Len(m) => off[a] < Len(F)
  <1>a. PICK N : N = Len(m)
    OBVIOUS
  <1>0. N \in Nat /\ off \in [0 .. N -> Nat] /\ Len(F) = off[N] /\ N \in 0 .. N
    BY <1>a, LenProperties DEF MsgLaid
  <1>1. ASSUME NEW k \in 1 .. N PROVE off[k] > off[k - 1]
    <2>1. k - 1 \in 0 .. N /\ k \in 0 .. N
      BY <1>0
    <2>2. off[k] = off[k - 1] + MsgWidth(m[k]) /\ off[k - 1] \in Nat
      BY <2>1, <1>0, <1>a DEF MsgLaid
    <2>3. MsgWidth(m[k]) \in {1, 2}
      BY DEF MsgWidth
    <2>4. QED
      BY <2>2, <2>3
  <1>2. a < N => off[a] < off[N]
    BY <1>0, <1>1, <1>a, Grows
  <1>3. QED
    BY <1>0, <1>2, <1>a

LEMMA BspGrows ==
    ASSUME NEW m \in Seq(Byte), NEW F, NEW off, BspLaid(F, m, off), NEW a \in 0 .. Len(m)
    PROVE  /\ off[a] \in Nat /\ Len(F) \in Nat /\ Len(F) = off[Len(m)] + 1
           /\ off[a] < Len(F)
  <1>a. PICK N : N = Len(m)
    OBVIOUS
  <1>0. N \in Nat /\ off \in [0 .. N -> Nat] /\ Len(F) = off[N] + 1 /\ N \in 0 .. N
    BY <1>a, LenProperties DEF BspLaid
  <1>1. ASSUME NEW k \in 1 .. N PROVE off[k] > off[k - 1]
    <2>1. k - 1 \in 0 .. N /\ k \in 0 .. N
      BY <1>0
    <2>2. off[k] = off[k - 1] + BspWidth(Hard(m, k)) /\ off[k - 1] \in Nat
      BY <2>1, <1>0, <1>a DEF BspLaid
    <2>3. BspWidth(Hard(m, k)) \in {1, 2}
      BY DEF BspWidth
    <2>4. QED
      BY <2>2, <2>3
  <1>2. a < N => off[a] < off[N]
    BY <1>0, <1>1, <1>a, Grows
  <1>3. off[a] \in Nat /\ off[N] \in Nat
    BY <1>0, <1>a
  <1>4. QED
    BY <1>0, <1>2, <1>3, <1>a

\* The next byte of a frame.
LEMMA MsgAdvance ==
    ASSUME NEW m \in Seq(Byte), NEW F, NEW off, MsgLaid(F, m, off),
           NEW i \in 0 .. Len(m) - 1, NEW h \in {0, 1}, h = 1 => m[i + 1] \in {MARK, ESC},
           NEW r, r = off[i] + h, NEW x, x = m[i + 1], NEW b, b = F[r + 1]
    PROVE  /\ x \in Byte /\ b # MARK
           /\ \/ h = 0 /\ x \in {MARK, ESC} /\ b = ESC /\ r + 1 = off[i] + 1 /\ r + 1 < Len(F)
              \/ /\ r + 1 = off[i + 1] + 0 /\ (r + 1 < Len(F) <=> i + 1 < Len(m))
                 /\ \/ h = 0 /\ x \notin {MARK, ESC} /\ b = x
                    \/ h = 1 /\ b = IF x = MARK THEN ESCMARK ELSE ESCESC
  <1>a. PICK N, o, u : N = Len(m) /\ o = off[i] /\ u = off[i + 1]
    OBVIOUS
  <1>0. N \in Nat /\ i \in 0 .. N /\ i + 1 \in 1 .. N /\ i + 1 \in 0 .. N /\ (i + 1) - 1 = i
    BY <1>a, LenProperties
  <1>1. x \in Byte
    BY <1>0, <1>a, ElementOfSeq
  <1>2. u = o + MsgWidth(x) /\ MsgByteAt(F, o, x)
    BY <1>0, <1>a DEF MsgLaid
  <1>3. /\ o \in Nat /\ u \in Nat /\ Len(F) \in Nat /\ Len(F) = off[N]
        /\ i + 1 < N => u < Len(F)
    BY <1>0, <1>a, MsgGrows
  <1>4. i + 1 = N => u = Len(F)
    BY <1>3, <1>a
  <1>5. u <= Len(F) /\ (u < Len(F) <=> i + 1 < N)
    BY <1>0, <1>3, <1>4
  <1>6. CASE x \in {MARK, ESC} /\ h = 0
    <2>1. b = ESC /\ u = o + 2 /\ r + 1 = o + 1
      BY <1>2, <1>3, <1>6, <1>a DEF MsgByteAt, MsgWidth
    <2>2. r + 1 < Len(F)
      BY <2>1, <1>3, <1>5
    <2>3. QED
      BY <1>1, <1>6, <2>1, <2>2, <1>a, ByteFacts
  <1>7. CASE x \in {MARK, ESC} /\ h = 1
    <2>1. r + 1 = o + 2 /\ u = o + 2
      BY <1>2, <1>3, <1>7, <1>a DEF MsgWidth
    <2>2. b = IF x = MARK THEN ESCMARK ELSE ESCESC
      BY <1>2, <1>7, <2>1 DEF MsgByteAt
    <2>3. r + 1 = u + 0
      BY <2>1, <1>3
    <2>4. b # MARK
      BY <2>2, ByteFacts
    <2>5. r + 1 < Len(F) <=> i + 1 < N
      BY <2>3, <1>3, <1>5
    <2>6. QED
      BY <1>1, <1>7, <2>2, <2>3, <2>4, <2>5, <1>a
  <1>8. CASE x \notin {MARK, ESC}
    <2>0. h = 0
      BY <1>8
    <2>1. r + 1 = o + 1 /\ u = o + 1
      BY <1>2, <1>3, <1>8, <2>0, <1>a DEF MsgWidth
    <2>2. b = x
      BY <1>2, <1>8, <2>1 DEF MsgByteAt
    <2>3. r + 1 = u + 0
      BY <2>1, <1>3
    <2>5. r + 1 < Len(F) <=> i + 1 < N
      BY <2>3, <1>3, <1>5
    <2>6. QED
      BY <1>1, <1>8, <2>0, <2>2, <2>3, <2>5, <1>a
  <1>9. QED
    BY <1>6, <1>7, <1>8

\* What is read of a message.
LEMMA PrefixFacts ==
    ASSUME NEW m \in Seq(Byte), NEW i \in 0 .. Len(m), NEW q, q = SubSeq(m, 1, i)
    PROVE  q \in Seq(Byte) /\ Len(q) = i /\ \A k \in 1 .. i : q[k] = m[k]
  <1>1. Len(m) \in Nat
    BY LenProperties
  <1>2. 1 \in 1 .. Len(m) + 1 /\ i \in 1 - 1 .. Len(m) /\ (i - 1) + 1 = i /\ i \in Nat
    BY <1>1
  <1>3. /\ q \in Seq(Byte) /\ Len(q) = (i - 1) + 1
        /\ \A k \in 1 .. (i - 1) + 1 : q[k] = m[(1 + k) - 1]
    BY <1>2, SubSeqProperties
  <1>4. ASSUME NEW k \in 1 .. i PROVE q[k] = m[k]
    <2>1. (1 + k) - 1 = k
      BY <1>2
    <2>2. QED
      BY <2>1, <1>2, <1>3
  <1>5. QED
    BY <1>2, <1>3, <1>4

LEMMA PrefixGrows ==
    ASSUME NEW m \in Seq(Byte), NEW i \in 0 .. Len(m) - 1, NEW q, q = SubSeq(m, 1, i),
           NEW x, x = m[i + 1], NEW y, y = Append(q, x)
    PROVE  y = SubSeq(m, 1, i + 1)
  <1>0. Len(m) \in Nat /\ i \in 0 .. Len(m) /\ i + 1 \in 0 .. Len(m) /\ i + 1 \in 1 .. Len(m)
    BY LenProperties
  <1>a. PICK z : z = SubSeq(m, 1, i + 1)
    OBVIOUS
  <1>1. q \in Seq(Byte) /\ Len(q) = i /\ \A k \in 1 .. i : q[k] = m[k]
    BY <1>0, PrefixFacts
  <1>2. z \in Seq(Byte) /\ Len(z) = i + 1 /\ \A k \in 1 .. i + 1 : z[k] = m[k]
    BY <1>0, <1>a, PrefixFacts
  <1>3. x \in Byte
    BY <1>0, ElementOfSeq
  <1>4. /\ y \in Seq(Byte) /\ Len(y) = i + 1 /\ y[i + 1] = x
        /\ \A k \in 1 .. i : y[k] = q[k]
    BY <1>1, <1>3, Appended
  <1>5. ASSUME NEW k \in 1 .. i + 1 PROVE y[k] = z[k]
    <2>1. CASE k = i + 1
      BY <2>1, <1>2, <1>4
    <2>2. CASE k # i + 1
      <3>1. k \in 1 .. i
        BY <2>2, <1>0
      <3>2. QED
        BY <3>1, <1>1, <1>2, <1>4
    <2>3. QED
      BY <2>1, <2>2
  <1>6. y = z
    <2>1. DOMAIN y = 1 .. i + 1 /\ DOMAIN z = 1 .. i + 1
      BY <1>2, <1>4, LenProperties
    <2>2. y = [k \in 1 .. i + 1 |-> y[k]] /\ z = [k \in 1 .. i + 1 |-> z[k]]
      BY <2>1, <1>2, <1>4
    <2>3. QED
      BY <2>2, <1>5
  <1>7. QED
    BY <1>6, <1>a

LEMMA PrefixWhole ==
    ASSUME NEW m \in Seq(Byte)
    PROVE  SubSeq(m, 1, Len(m)) = m
  <1>0. Len(m) \in Nat /\ Len(m) \in 0 .. Len(m) /\ DOMAIN m = 1 .. Len(m)
    BY LenProperties
  <1>a. PICK z : z = SubSeq(m, 1, Len(m))
    OBVIOUS
  <1>1. z \in Seq(Byte) /\ Len(z) = Len(m) /\ \A k \in 1 .. Len(m) : z[k] = m[k]
    BY <1>0, <1>a, PrefixFacts
  <1>2. DOMAIN z = 1 .. Len(m)
    BY <1>1, LenProperties
  <1>3. z = [k \in 1 .. Len(m) |-> z[k]] /\ m = [k \in 1 .. Len(m) |-> m[k]]
    BY <1>0, <1>1, <1>2
  <1>4. QED
    BY <1>1, <1>3, <1>a

\* A message is complete with its last byte and no earlier.
LEMMA CompleteIs ==
    ASSUME NEW m \in Seq(Byte), MessageOk(m), proto # "bsp", NEW i \in 0 .. Len(m), NEW y, y = SubSeq(m, 1, i)
    PROVE  Complete(y) <=> i = Len(m)
  <1>0. Len(m) \in Nat /\ Len(m) >= 2 /\ m[2] = Len(m) - 2
    BY LenProperties, ByteFacts DEF MessageOk, HdrSz
  <1>1. y \in Seq(Byte) /\ Len(y) = i /\ \A k \in 1 .. i : y[k] = m[k]
    BY PrefixFacts
  <1>2. CASE i < 2
    BY <1>0, <1>1, <1>2 DEF Complete, HdrSz
  <1>3. CASE i >= 2
    <2>1. 2 \in 1 .. i
      BY <1>3, <1>0
    <2>2. y[2] = m[2]
      BY <1>1, <2>1
    <2>3. QED
      BY <1>0, <1>1, <1>3, <2>2 DEF Complete, HdrSz, msg_getlen
  <1>4. QED
    BY <1>0, <1>2, <1>3

MsgTakes(c) == TooLong(c) \/ Terminator(c) \/ EscapeByte(c) \/ DataByte(c) \/ Synchronize(c)
BspTakes(c) == BspHeader(c) \/ BspTooLong(c) \/ BspEscaped(c) \/ BspEnd(c) \/ BspByte(c)

Arrived(t, m) == got' = Append(got, [f |-> t, m |-> m])

\* The first byte of a frame over serial or TCP.
LEMMA MsgFirst ==
    ASSUME BaseInv, proto # "bsp", proto' = proto, damaged' = damaged,
           NEW m \in Seq(Byte), MessageOk(m), NEW t, NEW F, NEW off, MsgLaid(F, m, off),
           InPlace(t) => Idle, NEW c, c.f = t, c.b = MARK, MsgTakes(c)
    PROVE  MsgMid(t, F, m, 1)' /\ got' = got
  <1>0. RestInv
    BY DEF BaseInv
  <1>1. ~EscapeByte(c) /\ ~DataByte(c)
    BY ByteFacts DEF EscapeByte, DataByte
  <1>2. /\ got' = got
        /\ \/ state' = "FRAME" /\ buf' = <<>> /\ escfl' = FALSE
           \/ state' = "DESYN" /\ Lost(t)'
    <2>1. CASE TooLong(c)
      <3>1. state = "FRAME" /\ state' = "DESYN" /\ t \in eaten' /\ got' = got
        BY <2>1 DEF TooLong, Return
      <3>2. ~InPlace(t)
        BY <3>1 DEF Idle
      <3>3. t - 1 \in damaged'
        BY <3>2 DEF InPlace
      <3>4. QED
        BY <3>1, <3>3 DEF Lost
    <2>2. CASE Terminator(c)
      BY <2>2 DEF Terminator, Return
    <2>3. CASE Synchronize(c)
      <3>1. state' = "FRAME" /\ state = "DESYN" /\ buf' = buf /\ escfl' = escfl /\ got' = got
        BY <2>3 DEF Synchronize
      <3>2. QED
        BY <3>1, <1>0 DEF RestInv
    <2>4. QED
      BY <2>1, <2>2, <2>3, <1>1 DEF MsgTakes
  <1>3. Len(m) \in Nat /\ Len(m) >= 2
    BY LenProperties, ByteFacts DEF MessageOk, HdrSz
  <1>4. 0 \in 0 .. Len(m) - 1 /\ 0 \in 0 .. Len(m) /\ 1 = off[0] + 0
    BY <1>3 DEF MsgLaid
  <1>5. SubSeq(m, 1, 0) = <<>>
    <2>1. SubSeq(m, 1, 0) \in Seq(Byte) /\ Len(SubSeq(m, 1, 0)) = 0
      BY <1>4, PrefixFacts
    <2>2. QED
      BY <2>1, EmptySeq
  <1>6. MsgHolds(t, m, 0, 0)'
    <2>1. CASE state' = "FRAME" /\ buf' = <<>> /\ escfl' = FALSE
      <3>1. buf' = SubSeq(m, 1, 0) /\ (IF 0 = 1 THEN escfl' = TRUE ELSE escfl' = FALSE)
        BY <2>1, <1>5
      <3>2. Holds(m, 0, 0)'
        BY <3>1, Zenon DEF Holds
      <3>3. QED
        BY <2>1, <3>2 DEF MsgHolds
    <2>2. CASE state' = "DESYN" /\ Lost(t)'
      BY <2>2 DEF MsgHolds
    <2>3. QED
      BY <2>1, <2>2, <1>2
  <1>7. \E i \in 0 .. Len(m) - 1, h \in {0, 1} :
            /\ 1 = off[i] + h /\ (h = 1 => m[i + 1] \in {MARK, ESC})
            /\ MsgHolds(t, m, i, h)'
    <2>1. 0 \in {0, 1} /\ (0 = 1 => m[0 + 1] \in {MARK, ESC})
      OBVIOUS
    <2>2. QED
      BY <1>4, <1>6, <2>1
  <1>8. QED
    BY <1>2, <1>7 DEF MsgMid

\* A byte inside a frame over serial or TCP that is read from its beginning.
LEMMA MsgData ==
    ASSUME BaseInv, proto # "bsp", NEW m \in Seq(Byte), MessageOk(m),
           NEW i \in 0 .. Len(m) - 1, NEW h \in {0, 1}, state = "FRAME", Holds(m, i, h),
           NEW x, x = m[i + 1], NEW c, c.b # MARK,
           \/ h = 0 /\ x \notin {MARK, ESC} /\ c.b = x
           \/ h = 1 /\ x \in {MARK, ESC} /\ c.b = IF x = MARK THEN ESCMARK ELSE ESCESC,
           MsgTakes(c)
    PROVE  /\ i + 1 < Len(m) => Holds(m, i + 1, 0)' /\ state' = "FRAME" /\ got' = got
           /\ i + 1 = Len(m) => /\ buf' = <<>> /\ escfl' = FALSE /\ state' = "DESYN" /\ Arrived(c.f, m)
  <1>a. PICK y : y = Append(buf, x)
    OBVIOUS
  <1>0. /\ Len(m) \in Nat /\ i \in 0 .. Len(m) /\ i + 1 \in 0 .. Len(m) /\ i \in Nat
        /\ Len(m) <= HdrSz + MaxLen /\ MaxLen \in Nat
    BY LenProperties, ByteFacts DEF MessageOk
  <1>1. buf = SubSeq(m, 1, i) /\ (h = 1 => escfl = TRUE) /\ (h = 0 => escfl = FALSE)
    BY DEF Holds
  <1>2. Len(buf) = i
    BY <1>0, <1>1, PrefixFacts
  <1>3. ~Full
    BY <1>0, <1>2 DEF Full, HdrSz
  <1>4. DataByte(c)
    <2>1. ~TooLong(c) /\ ~Terminator(c) /\ ~Synchronize(c)
      BY <1>3 DEF TooLong, Terminator, Synchronize
    <2>2. ~EscapeByte(c)
      BY <1>1 DEF EscapeByte
    <2>3. QED
      BY <2>1, <2>2 DEF MsgTakes
  <1>5. Decoded(c.b) = x
    BY <1>1, ByteFacts DEF Decoded
  <1>6. y = SubSeq(m, 1, i + 1)
    BY <1>1, <1>a, PrefixGrows
  <1>7. Complete(y) <=> i + 1 = Len(m)
    BY <1>0, <1>6, CompleteIs
  <1>8. IF Complete(y) THEN Return("msg", "DESYN") /\ got' = Append(got, [f |-> c.f, m |-> y])
        ELSE buf' = y /\ escfl' = FALSE /\ state' = state /\ got' = got
    BY <1>4, <1>5, <1>a DEF DataByte
  <1>9. CASE i + 1 < Len(m)
    <2>1. buf' = y /\ escfl' = FALSE /\ state' = state /\ got' = got
      BY <1>0, <1>7, <1>8, <1>9
    <2>2. buf' = SubSeq(m, 1, i + 1) /\ (IF 0 = 1 THEN escfl' = TRUE ELSE escfl' = FALSE)
      BY <2>1, <1>6
    <2>3. Holds(m, i + 1, 0)'
      BY <2>2, Zenon DEF Holds
    <2>4. QED
      BY <2>1, <2>3, <1>0, <1>9
  <1>10. CASE i + 1 = Len(m)
    <2>1. y = m
      BY <1>6, <1>10, PrefixWhole
    <2>2. Return("msg", "DESYN") /\ got' = Append(got, [f |-> c.f, m |-> m])
      BY <1>7, <1>8, <1>10, <2>1
    <2>3. QED
      BY <1>0, <1>10, <2>2 DEF Return, Arrived
  <1>11. QED
    BY <1>9, <1>10

LEMMA MsgStep ==
    ASSUME BaseInv, proto # "bsp", proto' = proto, damaged' = damaged,
           NEW m \in Seq(Byte), MessageOk(m), NEW t, NEW F, NEW r, MsgMid(t, F, m, r),
           NEW c, c.f = t, c.b = F[r + 1], MsgTakes(c)
    PROVE  \/ r + 1 < Len(F) /\ MsgMid(t, F, m, r + 1)' /\ got' = got
           \/ r + 1 = Len(F) /\ Idle' /\ (Arrived(t, m) \/ (got' = got /\ Lost(t)'))
  <1>1. PICK off : /\ MsgLaid(F, m, off)
                   /\ \E i \in 0 .. Len(m) - 1, h \in {0, 1} :
                          /\ r = off[i] + h /\ (h = 1 => m[i + 1] \in {MARK, ESC})
                          /\ MsgHolds(t, m, i, h)
    BY DEF MsgMid
  <1>2. PICK i \in 0 .. Len(m) - 1, h \in {0, 1} :
                 /\ r = off[i] + h /\ (h = 1 => m[i + 1] \in {MARK, ESC})
                 /\ MsgHolds(t, m, i, h)
    BY <1>1
  <1>a. PICK x, b, N : x = m[i + 1] /\ b = F[r + 1] /\ N = Len(m)
    OBVIOUS
  <1>3. /\ x \in Byte /\ b # MARK
        /\ \/ h = 0 /\ x \in {MARK, ESC} /\ b = ESC /\ r + 1 = off[i] + 1 /\ r + 1 < Len(F)
           \/ /\ r + 1 = off[i + 1] + 0 /\ (r + 1 < Len(F) <=> i + 1 < N)
              /\ \/ h = 0 /\ x \notin {MARK, ESC} /\ b = x
                 \/ h = 1 /\ b = IF x = MARK THEN ESCMARK ELSE ESCESC
    <2>1. MsgLaid(F, m, off) /\ r = off[i] + h /\ (h = 1 => m[i + 1] \in {MARK, ESC})
      BY <1>1, <1>2
    <2>2. /\ x \in Byte /\ b # MARK
          /\ \/ h = 0 /\ x \in {MARK, ESC} /\ b = ESC /\ r + 1 = off[i] + 1 /\ r + 1 < Len(F)
             \/ /\ r + 1 = off[i + 1] + 0 /\ (r + 1 < Len(F) <=> i + 1 < Len(m))
                /\ \/ h = 0 /\ x \notin {MARK, ESC} /\ b = x
                   \/ h = 1 /\ b = IF x = MARK THEN ESCMARK ELSE ESCESC
      BY <2>1, <1>a, MsgAdvance
    <2>3. QED
      BY <2>2, <1>a, Zenon
  <1>4. N \in Nat /\ i \in 0 .. N /\ i + 1 <= N /\ i \in Nat
    BY <1>a, LenProperties
  \* From a place in the message to where MsgMid holds.
  <1>5. ASSUME NEW j \in 0 .. N - 1, NEW g \in {0, 1}, r + 1 = off[j] + g, g = 1 => m[j + 1] \in {MARK, ESC},
               MsgHolds(t, m, j, g)'
        PROVE  MsgMid(t, F, m, r + 1)'
    <2>1. \E i1 \in 0 .. Len(m) - 1, h1 \in {0, 1} :
              /\ r + 1 = off[i1] + h1 /\ (h1 = 1 => m[i1 + 1] \in {MARK, ESC})
              /\ MsgHolds(t, m, i1, h1)'
      BY <1>5, <1>a
    <2>2. QED
      BY <2>1, <1>1 DEF MsgMid
  <1>6. r + 1 = off[i + 1] + 0 /\ i + 1 = N => r + 1 = Len(F)
    <2>1. Len(F) = off[N] /\ Len(F) \in Nat
      <3>1. N \in 0 .. Len(m)
        BY <1>4, <1>a
      <3>2. QED
        BY <3>1, <1>1, <1>a, MsgGrows
    <2>2. QED
      BY <2>1
  <1>7. CASE state = "DESYN" /\ Lost(t)
    <2>1. Synchronize(c)
      BY <1>7 DEF MsgTakes, TooLong, Terminator, EscapeByte, DataByte
    <2>2. state' = "DESYN" /\ buf' = buf /\ escfl' = escfl /\ got' = got /\ eaten' = eaten
      BY <2>1, <1>3, <1>a DEF Synchronize
    <2>3. buf = <<>> /\ escfl = FALSE
      BY <1>7 DEF BaseInv, RestInv
    <2>4. Idle'
      BY <2>2, <2>3 DEF Idle
    <2>5. Lost(t)'
      BY <2>2, <1>7 DEF Lost
    <2>6. ASSUME NEW j, NEW g PROVE MsgHolds(t, m, j, g)'
      BY <2>2, <2>5 DEF MsgHolds
    <2>7. CASE h = 0 /\ x \in {MARK, ESC} /\ b = ESC /\ r + 1 = off[i] + 1 /\ r + 1 < Len(F)
      <3>1. MsgMid(t, F, m, r + 1)'
        BY <1>5, <2>6, <2>7, <1>a, <1>4
      <3>2. QED
        BY <3>1, <2>7, <2>2
    <2>8. CASE r + 1 = off[i + 1] + 0 /\ (r + 1 < Len(F) <=> i + 1 < N)
      <3>1. CASE i + 1 < N
        <4>1. i + 1 \in 0 .. N - 1
          BY <3>1, <1>4
        <4>2. MsgMid(t, F, m, r + 1)'
          BY <1>5, <2>6, <2>8, <4>1
        <4>3. QED
          BY <4>2, <2>2, <2>8, <3>1
      <3>2. CASE i + 1 = N
        BY <3>2, <2>2, <2>4, <2>5, <2>8, <1>6
      <3>3. QED
        BY <3>1, <3>2, <1>4
    <2>9. QED
      BY <2>7, <2>8, <1>3
  <1>8. CASE state = "FRAME" /\ Holds(m, i, h)
    <2>7. CASE h = 0 /\ x \in {MARK, ESC} /\ b = ESC /\ r + 1 = off[i] + 1 /\ r + 1 < Len(F)
      <3>1. buf = SubSeq(m, 1, i) /\ escfl = FALSE
        BY <1>8, <2>7 DEF Holds
      <3>2. Len(buf) = i /\ N <= HdrSz + MaxLen /\ MaxLen \in Nat
        BY <3>1, <1>4, <1>a, PrefixFacts, ByteFacts DEF MessageOk
      <3>3. ~Full
        BY <3>2, <1>4 DEF Full, HdrSz
      <3>4. EscapeByte(c)
        BY <1>8, <3>1, <3>3, <2>7, <1>3, <1>a DEF MsgTakes, TooLong, Terminator, DataByte, Synchronize
      <3>5. escfl' = TRUE /\ state' = "FRAME" /\ buf' = SubSeq(m, 1, i) /\ got' = got
        BY <3>4, <3>1, <1>8 DEF EscapeByte
      <3>6. Holds(m, i, 1)'
        BY <3>5, Zenon DEF Holds
      <3>7. MsgHolds(t, m, i, 1)'
        BY <3>5, <3>6 DEF MsgHolds
      <3>8. MsgMid(t, F, m, r + 1)'
        BY <3>7, <1>5, <2>7, <1>a, <1>4
      <3>9. QED
        BY <3>8, <3>5, <2>7
    <2>8. CASE /\ r + 1 = off[i + 1] + 0 /\ (r + 1 < Len(F) <=> i + 1 < N)
               /\ \/ h = 0 /\ x \notin {MARK, ESC} /\ b = x
                  \/ h = 1 /\ b = IF x = MARK THEN ESCMARK ELSE ESCESC
      <3>1. /\ i + 1 < N => Holds(m, i + 1, 0)' /\ state' = "FRAME" /\ got' = got
            /\ i + 1 = N => buf' = <<>> /\ escfl' = FALSE /\ state' = "DESYN" /\ Arrived(t, m)
        <4>1. \/ h = 0 /\ x \notin {MARK, ESC} /\ c.b = x
              \/ h = 1 /\ x \in {MARK, ESC} /\ c.b = IF x = MARK THEN ESCMARK ELSE ESCESC
          BY <2>8, <1>2, <1>a
        <4>2. c.b # MARK
          BY <1>3, <1>a
        <4>3. QED
          BY <4>1, <4>2, <1>8, <1>a, MsgData
      <3>2. CASE i + 1 < N
        <4>1. i + 1 \in 0 .. N - 1
          BY <3>2, <1>4
        <4>2. MsgHolds(t, m, i + 1, 0)'
          BY <3>1, <3>2 DEF MsgHolds
        <4>3. MsgMid(t, F, m, r + 1)'
          BY <1>5, <4>1, <4>2, <2>8
        <4>4. QED
          BY <4>3, <3>1, <2>8, <3>2
      <3>3. CASE i + 1 = N
        <4>1. Idle'
          BY <3>1, <3>3 DEF Idle
        <4>2. QED
          BY <4>1, <3>1, <3>3, <2>8, <1>6
      <3>4. QED
        BY <3>2, <3>3, <1>4
    <2>9. QED
      BY <2>7, <2>8, <1>3
  <1>9. QED
    BY <1>2, <1>7, <1>8 DEF MsgHolds

\* The same over BSP.
LEMMA BspAdvance ==
    ASSUME NEW m \in Seq(Byte), NEW F, NEW off, BspLaid(F, m, off),
           NEW i \in 0 .. Len(m), NEW h \in {0, 1}, h = 1 => i < Len(m) /\ Hard(m, i + 1),
           NEW r, r = off[i] + h, NEW b, b = F[r + 1]
    PROVE  /\ i = Len(m) => h = 0 /\ b = BSP_ENDCHAR /\ r + 1 = Len(F)
           /\ i < Len(m) => \/ /\ h = 0 /\ Hard(m, i + 1) /\ b = BSP_ESCCHAR
                               /\ r + 1 = off[i] + 1 /\ r + 1 < Len(F)
                            \/ /\ (h = 1 <=> Hard(m, i + 1)) /\ b = m[i + 1]
                               /\ r + 1 = off[i + 1] + 0 /\ r + 1 < Len(F)
  <1>a. PICK N, o, k : N = Len(m) /\ o = off[i] /\ k = i + 1
    OBVIOUS
  <1>0. N \in Nat /\ i \in 0 .. N /\ i \in Nat
    BY <1>a, LenProperties
  <1>1. o \in Nat /\ Len(F) \in Nat /\ Len(F) = off[N] + 1
    BY <1>0, <1>a, BspGrows
  <1>2. CASE i = N
    <2>1. h = 0
      BY <1>2, <1>0, <1>a
    <2>2. r + 1 = Len(F)
      BY <2>1, <1>1, <1>2, <1>a
    <2>3. QED
      BY <2>1, <2>2, <1>0, <1>2, <1>a DEF BspLaid
  <1>3. CASE i < N
    <2>1. k \in 1 .. N /\ k \in 0 .. N /\ k - 1 = i
      BY <1>0, <1>3, <1>a
    <2>b. PICK u : u = off[k]
      OBVIOUS
    <2>2. u \in Nat /\ u < Len(F)
      BY <2>1, <1>a, <2>b, BspGrows
    <2>3. u = o + BspWidth(Hard(m, k)) /\ BspByteAt(F, o, m[k], Hard(m, k))
      BY <2>1, <1>a, <2>b DEF BspLaid
    <2>4. CASE Hard(m, k) /\ h = 0
      <3>1. b = BSP_ESCCHAR /\ u = o + 2 /\ r + 1 = o + 1
        BY <2>3, <2>4, <1>1, <1>a DEF BspByteAt, BspWidth
      <3>2. r + 1 < Len(F)
        BY <3>1, <2>2, <1>1
      <3>3. QED
        BY <3>1, <3>2, <2>4, <1>3, <1>a
    <2>5. CASE Hard(m, k) /\ h = 1
      <3>1. u = o + 2 /\ r + 1 = o + 2
        BY <2>3, <2>5, <1>1, <1>a DEF BspWidth
      <3>2. b = m[k]
        BY <2>3, <2>5, <3>1 DEF BspByteAt
      <3>3. r + 1 = u + 0 /\ r + 1 < Len(F)
        BY <3>1, <2>2
      <3>4. QED
        BY <3>2, <3>3, <2>5, <1>3, <1>a, <2>b
    <2>6. CASE ~Hard(m, k)
      <3>0. h = 0
        BY <2>6, <1>a
      <3>1. u = o + 1 /\ r + 1 = o + 1
        BY <2>3, <2>6, <3>0, <1>1, <1>a DEF BspWidth
      <3>2. b = m[k]
        BY <2>3, <2>6, <3>1 DEF BspByteAt
      <3>3. r + 1 = u + 0 /\ r + 1 < Len(F)
        BY <3>1, <2>2
      <3>4. QED
        BY <3>0, <3>2, <3>3, <2>6, <1>3, <1>a, <2>b
    <2>7. QED
      BY <2>4, <2>5, <2>6
  <1>4. QED
    BY <1>0, <1>2, <1>3, <1>a

LEMMA BspBegins ==
    ASSUME BaseInv, NEW m \in Seq(Byte), Sized(m), NEW F, NEW off, BspLaid(F, m, off),
           NEW s, Totalled(m, s), Idle, NEW c, c.b = F[1], BspTakes(c)
    PROVE  BspAt(F, m, 1, off, s)' /\ got' = got
  <1>0. Len(m) \in Nat /\ Len(m) >= 2 /\ 0 \in 0 .. Len(m) /\ 1 \in 1 .. Len(m) /\ 0 \in 0 .. Len(m) - 1 /\ 0 + 1 = 1
    BY LenProperties, ByteFacts DEF Sized, HdrSz
  <1>2. buf = <<>> /\ escfl = FALSE /\ Len(buf) = 0
    BY EmptyFacts DEF Idle
  <1>3. ~Full /\ Len(buf) < HdrSz /\ ~(Len(buf) >= HdrSz)
    BY <1>2, ByteFacts DEF Full, HdrSz
  <1>4. BspHeader(c)
    BY <1>3 DEF BspTakes, BspTooLong, BspEscaped, BspEnd, BspByte
  <1>5. F[1] = m[1] /\ off[1] = 1
    <2>1. ~Hard(m, 1) /\ off[0] = 0 /\ 1 - 1 = 0 /\ 0 + 1 = 1
      BY DEF Hard, HdrSz, BspLaid
    <2>2. off[1] = off[1 - 1] + BspWidth(Hard(m, 1)) /\ BspByteAt(F, off[1 - 1], m[1], Hard(m, 1))
      BY <1>0 DEF BspLaid
    <2>3. QED
      BY <2>1, <2>2 DEF BspWidth, BspByteAt
  <1>6. buf' = Append(buf, m[1]) /\ fcs' = m[1] /\ escfl' = FALSE /\ got' = got
    BY <1>2, <1>4, <1>5 DEF BspHeader
  <1>7. buf' = SubSeq(m, 1, 1)
    <2>1. SubSeq(m, 1, 0) = buf
      <3>1. SubSeq(m, 1, 0) \in Seq(Byte) /\ Len(SubSeq(m, 1, 0)) = 0
        BY <1>0, PrefixFacts
      <3>2. QED
        BY <3>1, <1>2, EmptySeq
    <2>a. PICK q, x, y : q = buf /\ x = m[1] /\ y = Append(q, x)
      OBVIOUS
    <2>2. q = SubSeq(m, 1, 0) /\ x = m[0 + 1]
      BY <2>1, <2>a, <1>0
    <2>3. y = SubSeq(m, 1, 0 + 1)
      BY <2>2, <2>a, <1>0, PrefixGrows
    <2>4. QED
      BY <2>3, <2>a, <1>6, <1>0
  <1>8. Holds(m, 1, 0)'
    <2>1. buf' = SubSeq(m, 1, 1) /\ (IF 0 = 1 THEN escfl' = TRUE ELSE escfl' = FALSE)
      BY <1>6, <1>7
    <2>2. QED
      BY <2>1, Zenon DEF Holds
  <1>9. BspHolds(m, s, 1, 0)'
    BY <1>6, <1>8 DEF BspHolds
  <1>10. \E i \in 1 .. Len(m), h \in {0, 1} :
               /\ 1 = off[i] + h /\ (h = 1 => i < Len(m) /\ Hard(m, i + 1))
               /\ BspHolds(m, s, i, h)'
    <2>1. 1 = off[1] + 0 /\ 0 \in {0, 1} /\ (0 = 1 => 1 < Len(m) /\ Hard(m, 1 + 1))
      BY <1>5
    <2>2. QED
      BY <2>1, <1>0, <1>9
  <1>11. QED
    <2>1. BspAt(F, m, 1, off, s)'
      BY <1>10 DEF BspAt
    <2>2. QED
      BY <2>1, <1>6

LEMMA BspFirst ==
    ASSUME BaseInv, proto = "bsp", NEW m \in Seq(Byte), MessageOk(m),
           NEW F, NEW off, BspLaid(F, m, off), Idle, NEW c, c.b = F[1], BspTakes(c)
    PROVE  BspMid(F, m, 1)' /\ got' = got
  <1>1. PICK s : Summed(m, s)
    BY DEF MessageOk
  <1>2. Sized(m) /\ Totalled(m, s) /\ Matches(m, s)
    BY <1>1 DEF MessageOk, Sized, Summed
  <1>3. BspAt(F, m, 1, off, s)' /\ got' = got
    BY <1>2, BspBegins
  <1>4. QED
    BY <1>2, <1>3 DEF BspMid

\* A byte of the message.
LEMMA BspData ==
    ASSUME BaseInv, NEW m \in Seq(Byte), Sized(m), NEW s, Totalled(m, s),
           NEW i \in 1 .. Len(m), i < Len(m), NEW h \in {0, 1}, h = 1 <=> Hard(m, i + 1), BspHolds(m, s, i, h),
           NEW c, c.b = m[i + 1], BspTakes(c)
    PROVE  BspHolds(m, s, i + 1, 0)' /\ got' = got
  <1>a. PICK N, k, x, y : N = Len(m) /\ k = i + 1 /\ x = m[k] /\ y = Append(buf, x)
    OBVIOUS
  <1>0. /\ N \in Nat /\ i \in 0 .. N - 1 /\ i \in 0 .. N /\ k \in 1 .. N /\ i \in Nat /\ i >= 1
        /\ N <= 2 + MaxLen /\ MaxLen \in Nat
    BY <1>a, LenProperties, ByteFacts DEF Sized, HdrSz
  <1>1. buf = SubSeq(m, 1, i) /\ (h = 1 => escfl = TRUE) /\ (h = 0 => escfl = FALSE)
    BY DEF BspHolds, Holds
  <1>2. Len(buf) = i
    BY <1>0, <1>1, <1>a, PrefixFacts
  <1>3. ~Full
    BY <1>0, <1>2, <1>a DEF Full, HdrSz
  <1>4. y = SubSeq(m, 1, k) /\ x \in Byte
    <2>1. y = SubSeq(m, 1, i + 1)
      BY <1>1, <1>0, <1>a, PrefixGrows
    <2>2. QED
      BY <2>1, <1>0, <1>a, ElementOfSeq
  <1>b. PICK M, u, v : M = ByteMod /\ u = s[i] /\ v = s[k]
    OBVIOUS
  <1>5. /\ buf' = y /\ escfl' = FALSE /\ got' = got /\ fcs' = v
    <2>1. CASE i = 1
      <3>1. Len(buf) < HdrSz /\ buf # <<>> /\ k = 2 /\ ~(Len(buf) >= HdrSz)
        <4>1. Len(buf) = 1 /\ k = 2
          BY <2>1, <1>2, <1>a
        <4>2. buf # <<>>
          <5>1. SUFFICES ASSUME buf = <<>> PROVE FALSE
            OBVIOUS
          <5>2. Len(buf) = 0
            BY <5>1, EmptyFacts, Zenon
          <5>3. QED
            BY <5>2, <4>1
        <4>3. QED
          BY <4>1, <4>2 DEF HdrSz
      <3>2. BspHeader(c)
        BY <3>1, <1>3 DEF BspTakes, BspTooLong, BspEscaped, BspEnd, BspByte
      <3>3. h = 0
        BY <3>1, <1>a DEF Hard, HdrSz
      <3>4. fcs = m[1] /\ m[1] \in Byte /\ v = m[1]
        <4>1. 1 \in 1 .. Len(m)
          BY <1>0, <1>a
        <4>2. QED
          BY <4>1, <2>1, <3>1, <1>b, ElementOfSeq DEF BspHolds, Totalled
      <3>6. QED
        BY <3>1, <3>2, <3>3, <3>4, <1>1, <1>a DEF BspHeader
    <2>2. CASE i >= 2
      <3>1. /\ Len(buf) >= HdrSz /\ ~(Len(buf) < HdrSz)
            /\ k \in 3 .. N /\ k - 1 = i /\ i \in 2 .. N /\ k \in 2 .. N /\ i # 1 /\ k > HdrSz
        BY <2>2, <1>0, <1>2, <1>a DEF HdrSz
      <3>2. v = (u + Adds(x)) % M /\ u \in Byte
        BY <3>1, <1>a, <1>b DEF Totalled
      <3>3. fcs = u
        BY <3>1, <1>b DEF BspHolds
      <3>4. h = 1 <=> Special(x)
        BY <3>1, <1>a DEF Hard
      <3>5. CASE h = 1
        <4>1. BspEscaped(c)
          BY <3>1, <3>5, <1>1, <1>3 DEF BspTakes, BspHeader, BspTooLong, BspEnd, BspByte
        <4>2. v = u
          <5>1. Adds(x) = 0
            BY <3>4, <3>5 DEF Adds
          <5>2. u % M = u /\ u \in Nat
            BY <3>2, <1>b, ByteRest, ByteIsNat
          <5>3. u + 0 = u
            BY <5>2
          <5>4. QED
            BY <3>2, <5>1, <5>2, <5>3
        <4>3. QED
          BY <4>1, <4>2, <3>3, <1>a DEF BspEscaped
      <3>6. CASE h = 0
        <4>1. ~Special(x) /\ x # BSP_ENDCHAR /\ x # BSP_ESCCHAR
          BY <3>4, <3>6 DEF Special
        <4>2. BspByte(c)
          BY <3>1, <3>6, <4>1, <1>1, <1>3, <1>a DEF BspTakes, BspHeader, BspTooLong, BspEnd, BspEscaped
        <4>3. buf' = y /\ escfl' = escfl /\ got' = got /\ fcs' = (fcs + x) % M
          BY <4>1, <4>2, <1>a, <1>b DEF BspByte
        <4>4. Adds(x) = x
          BY <4>1 DEF Adds
        <4>5. fcs' = v
          BY <4>3, <4>4, <3>2, <3>3
        <4>6. QED
          BY <4>3, <4>5, <3>6, <1>1
      <3>7. QED
        BY <3>5, <3>6
    <2>3. i = 1 \/ i >= 2
      OBVIOUS
    <2>4. QED
      BY <2>1, <2>2, <2>3
  <1>6. Holds(m, k, 0)'
    <2>1. buf' = SubSeq(m, 1, k) /\ (IF 0 = 1 THEN escfl' = TRUE ELSE escfl' = FALSE)
      BY <1>4, <1>5
    <2>2. QED
      BY <2>1, Zenon DEF Holds
  <1>7. k # 1
    BY <1>0, <1>a
  <1>8. BspHolds(m, s, k, 0)'
    BY <1>5, <1>6, <1>7, <1>b DEF BspHolds
  <1>9. QED
    BY <1>5, <1>8, <1>a

LEMMA BspGoes ==
    ASSUME BaseInv, proto = "bsp", proto' = proto, NEW m \in Seq(Byte), Sized(m), NEW t, NEW F, NEW r,
           NEW off, NEW s, BspAt(F, m, r, off, s), NEW c, c.f = t, c.b = F[r + 1], BspTakes(c)
    PROVE  \/ r + 1 < Len(F) /\ BspAt(F, m, r + 1, off, s)' /\ got' = got
           \/ /\ r + 1 = Len(F) /\ Idle' /\ (Arrived(t, m) \/ got' = got)
              /\ Matches(m, s) /\ Len(m) < HdrSz + MaxLen => Arrived(t, m)
              /\ ~Matches(m, s) => got' = got
  <1>1. /\ BspLaid(F, m, off) /\ Totalled(m, s)
        /\ \E i \in 1 .. Len(m), h \in {0, 1} :
               /\ r = off[i] + h /\ (h = 1 => i < Len(m) /\ Hard(m, i + 1))
               /\ BspHolds(m, s, i, h)
    BY DEF BspAt
  <1>2. PICK i \in 1 .. Len(m), h \in {0, 1} :
                /\ r = off[i] + h /\ (h = 1 => i < Len(m) /\ Hard(m, i + 1))
                /\ BspHolds(m, s, i, h)
    BY <1>1
  <1>a. PICK b : b = F[r + 1]
    OBVIOUS
  <1>0. /\ Len(m) \in Nat /\ i \in 0 .. Len(m) /\ i \in Nat /\ i <= Len(m) /\ Len(m) >= 2
        /\ Len(m) <= 2 + MaxLen /\ MaxLen \in Nat
    BY LenProperties, ByteFacts DEF Sized, HdrSz
  <1>3. /\ i = Len(m) => h = 0 /\ b = BSP_ENDCHAR /\ r + 1 = Len(F)
        /\ i < Len(m) => \/ /\ h = 0 /\ Hard(m, i + 1) /\ b = BSP_ESCCHAR
                            /\ r + 1 = off[i] + 1 /\ r + 1 < Len(F)
                         \/ /\ (h = 1 <=> Hard(m, i + 1)) /\ b = m[i + 1]
                            /\ r + 1 = off[i + 1] + 0 /\ r + 1 < Len(F)
    <2>1. BspLaid(F, m, off) /\ r = off[i] + h /\ (h = 1 => i < Len(m) /\ Hard(m, i + 1))
      BY <1>1, <1>2
    <2>2. i \in 0 .. Len(m)
      BY <1>0
    <2>3. QED
      BY <2>1, <2>2, <1>a, BspAdvance
  <1>4. ASSUME NEW j \in 1 .. Len(m), NEW g \in {0, 1}, r + 1 = off[j] + g, g = 1 => j < Len(m) /\ Hard(m, j + 1),
               BspHolds(m, s, j, g)'
        PROVE  BspAt(F, m, r + 1, off, s)'
    <2>1. \E i1 \in 1 .. Len(m), h1 \in {0, 1} :
               /\ r + 1 = off[i1] + h1 /\ (h1 = 1 => i1 < Len(m) /\ Hard(m, i1 + 1))
               /\ BspHolds(m, s, i1, h1)'
      BY <1>4
    <2>2. QED
      BY <2>1, <1>1 DEF BspAt
  <1>5. buf = SubSeq(m, 1, i) /\ (h = 1 => escfl = TRUE) /\ (h = 0 => escfl = FALSE)
    BY <1>2 DEF BspHolds, Holds
  <1>6. CASE i = Len(m)
    <2>1. buf = m /\ h = 0 /\ escfl = FALSE /\ b = BSP_ENDCHAR /\ r + 1 = Len(F)
      BY <1>3, <1>5, <1>6, PrefixWhole
    <2>2. Len(buf) >= HdrSz /\ ~(Len(buf) < HdrSz)
      BY <2>1, <1>0 DEF HdrSz
    <2>3. CASE Full
      <3>1. BspTooLong(c)
        BY <2>2, <2>3 DEF BspTakes, BspHeader, BspEscaped, BspEnd, BspByte
      <3>2. Idle' /\ got' = got
        BY <3>1 DEF BspTooLong, Return, Idle
      <3>3. ~(Len(m) < HdrSz + MaxLen)
        BY <2>1, <2>3, <1>0 DEF Full, HdrSz
      <3>4. QED
        BY <2>1, <3>2, <3>3
    <2>4. CASE ~Full
      <3>1. BspEnd(c)
        BY <2>1, <2>2, <2>4, <1>a DEF BspTakes, BspHeader, BspEscaped, BspTooLong, BspByte
      <3>2. buf[2] = fcs <=> Matches(m, s)
        <4>1. i # 1
          BY <1>0, <1>6
        <4>2. fcs = s[Len(m)]
          BY <4>1, <1>2, <1>6 DEF BspHolds
        <4>3. QED
          BY <4>2, <2>1 DEF Matches
      <3>3. CASE Matches(m, s)
        <4>1. Return("msg", "DESYN") /\ got' = Append(got, [f |-> c.f, m |-> buf])
          BY <3>1, <3>2, <3>3 DEF BspEnd
        <4>2. Idle' /\ Arrived(t, m)
          BY <4>1, <2>1 DEF Return, Idle, Arrived
        <4>3. QED
          BY <4>2, <3>3, <2>1
      <3>4. CASE ~Matches(m, s)
        <4>1. Return("FCS", "DESYN") /\ got' = got
          BY <3>1, <3>2, <3>4 DEF BspEnd
        <4>2. Idle'
          BY <4>1 DEF Return, Idle
        <4>3. QED
          BY <4>1, <4>2, <3>4, <2>1
      <3>5. QED
        BY <3>3, <3>4
    <2>5. QED
      BY <2>3, <2>4
  <1>7. CASE i < Len(m)
    <2>1. CASE h = 0 /\ Hard(m, i + 1) /\ b = BSP_ESCCHAR /\ r + 1 = off[i] + 1 /\ r + 1 < Len(F)
      <3>1. Len(buf) = i /\ escfl = FALSE
        BY <1>0, <1>5, <2>1, PrefixFacts
      <3>2. ~Full /\ Len(buf) >= HdrSz /\ ~(Len(buf) < HdrSz)
        BY <3>1, <2>1, <1>0, <1>7 DEF Full, HdrSz, Hard
      <3>3. BspByte(c)
        BY <3>1, <3>2, <2>1, <1>a, ByteFacts DEF BspTakes, BspHeader, BspEscaped, BspTooLong, BspEnd, BSP_ESCCHAR, BSP_ENDCHAR
      <3>4. escfl' = TRUE /\ buf' = buf /\ fcs' = fcs /\ got' = got
        BY <3>3, <2>1, <1>a DEF BspByte
      <3>5. Holds(m, i, 1)'
        <4>1. buf' = SubSeq(m, 1, i) /\ escfl' = TRUE
          BY <3>4, <1>5
        <4>2. QED
          BY <4>1, Zenon DEF Holds
      <3>6. BspHolds(m, s, i, 1)'
        BY <3>4, <3>5, <1>2 DEF BspHolds
      <3>7. BspAt(F, m, r + 1, off, s)'
        BY <3>6, <1>4, <2>1, <1>7
      <3>8. QED
        BY <3>7, <3>4, <2>1
    <2>2. CASE (h = 1 <=> Hard(m, i + 1)) /\ b = m[i + 1] /\ r + 1 = off[i + 1] + 0 /\ r + 1 < Len(F)
      <3>1. BspHolds(m, s, i + 1, 0)' /\ got' = got
        BY <1>1, <1>2, <1>7, <1>a, <2>2, BspData
      <3>2. i + 1 \in 1 .. Len(m)
        BY <1>0, <1>7
      <3>3. BspAt(F, m, r + 1, off, s)'
        BY <3>1, <3>2, <2>2, <1>4
      <3>4. QED
        BY <3>1, <3>3, <2>2
    <2>3. QED
      BY <2>1, <2>2, <1>3, <1>7
  <1>8. QED
    BY <1>0, <1>6, <1>7

LEMMA BspStep ==
    ASSUME BaseInv, proto = "bsp", proto' = proto, NEW m \in Seq(Byte), MessageOk(m), NEW t, NEW F, NEW r, BspMid(F, m, r),
           NEW c, c.f = t, c.b = F[r + 1], BspTakes(c)
    PROVE  \/ r + 1 < Len(F) /\ BspMid(F, m, r + 1)' /\ got' = got
           \/ /\ r + 1 = Len(F) /\ Idle' /\ (Arrived(t, m) \/ got' = got)
              /\ Len(m) < HdrSz + MaxLen => Arrived(t, m)
  <1>1. PICK off, s : BspAt(F, m, r, off, s) /\ Matches(m, s)
    BY DEF BspMid
  <1>2. Sized(m)
    BY DEF MessageOk, Sized
  <1>3. \/ r + 1 < Len(F) /\ BspAt(F, m, r + 1, off, s)' /\ got' = got
        \/ /\ r + 1 = Len(F) /\ Idle' /\ (Arrived(t, m) \/ got' = got)
           /\ Matches(m, s) /\ Len(m) < HdrSz + MaxLen => Arrived(t, m)
    BY <1>1, <1>2, BspGoes
  <1>4. QED
    BY <1>1, <1>3 DEF BspMid

-----------------------------------------------------------------------------
(* The frames on the line.                                                 *)

\* The first byte of the line is read.
LEMMA PlacedRead ==
    ASSUME line \in Seq(LineByte), line # <<>>, line' = Tail(line),
           NEW f \in Nat, NEW F, Len(F) \in Nat, Len(F) > 1, NEW p, NEW r, Placed(f, F, p, r)
    PROVE  /\ p \in Nat /\ r \in Nat /\ r <= Len(F) /\ line[1].f \in Nat
           /\ line[1].f > f => r = Len(F) /\ p = 0 /\ Placed(f, F, p, r)'
           /\ line[1].f = f => p = 0 /\ r < Len(F) /\ line[1].b = F[r + 1] /\ Placed(f, F, 0, r + 1)'
           /\ line[1].f < f => p >= 1 /\ r = 0 /\ Placed(f, F, p - 1, 0)'
  <1>a. PICK L, N, K, c : L = Tail(line) /\ N = Len(line) /\ K = Len(F) /\ c = line[1]
    OBVIOUS
  <1>0. /\ N \in Nat /\ N >= 1 /\ Len(L) = N - 1 /\ c \in LineByte
        /\ \A i \in 1 .. Len(L) : L[i] = line[i + 1]
    BY <1>a, TailFacts
  <1>1. /\ p \in Nat /\ r \in Nat /\ r <= K /\ (p + K) - r <= N /\ (r > 0 => p = 0) /\ K \in Nat /\ K > 1
        /\ \A i \in 1 .. N : /\ i <= p => line[i].f < f
                             /\ i > p /\ i <= (p + K) - r => line[i] = [b |-> F[(r + i) - p], f |-> f]
                             /\ i > (p + K) - r => line[i].f > f
    <2>1. p \in Nat /\ r \in 0 .. K /\ (p + K) - r <= N /\ (r > 0 => p = 0) /\ K \in Nat /\ K > 1
      BY <1>a DEF Placed
    <2>2. \A i \in 1 .. N : /\ i <= p => line[i].f < f
                            /\ i > p /\ i <= (p + K) - r => line[i] = [b |-> F[(r + i) - p], f |-> f]
                            /\ i > (p + K) - r => line[i].f > f
      BY <1>a DEF Placed
    <2>3. r \in Nat /\ r <= K
      BY <2>1
    <2>4. QED
      BY <2>1, <2>2, <2>3
  <1>c. p \in Nat /\ r \in Nat /\ K \in Nat /\ K > 1
    BY <1>1
  <1>2. c.f \in Nat
    BY <1>0 DEF LineByte
  <1>3. 1 \in 1 .. N
    BY <1>0
  <1>4. /\ 1 <= p => c.f < f
        /\ 1 > p /\ 1 <= (p + K) - r => c = [b |-> F[(r + 1) - p], f |-> f]
        /\ 1 > (p + K) - r => c.f > f
    BY <1>1, <1>3, <1>a
  <1>b. PICK e : e = (p + K) - r
    OBVIOUS
  <1>5. e \in Nat /\ p <= e /\ e <= N /\ (r < K => e > p) /\ (r = K => e = p)
    BY <1>1, <1>b
  <1>6. CASE p >= 1
    <2>1. c.f < f /\ r = 0 /\ e = p + K
      BY <1>4, <1>6, <1>1, <1>b
    <2>b. PICK q : q = p - 1
      OBVIOUS
    <2>2. q \in Nat /\ 0 \in 0 .. K /\ (q + K) - 0 <= Len(L)
      BY <2>1, <2>b, <1>0, <1>1, <1>5, <1>6
    <2>3. ASSUME NEW i \in 1 .. Len(L)
          PROVE  /\ i <= q => L[i].f < f
                 /\ i > q /\ i <= (q + K) - 0 => L[i] = [b |-> F[(0 + i) - q], f |-> f]
                 /\ i > (q + K) - 0 => L[i].f > f
      <3>1. i + 1 \in 1 .. N /\ L[i] = line[i + 1] /\ i \in Nat
        BY <1>0
      <3>2. (r + (i + 1)) - p = (0 + i) - q
        BY <3>1, <2>1, <2>b, <1>c
      <3>3. CASE i <= q
        <4>1. i + 1 <= p /\ ~(i > q) /\ ~(i > (q + K) - 0)
          BY <3>1, <3>3, <2>b, <1>c
        <4>2. QED
          BY <4>1, <3>1, <1>1
      <3>4. CASE i > q /\ i <= (q + K) - 0
        <4>1. i + 1 > p /\ i + 1 <= (p + K) - r /\ ~(i <= q) /\ ~(i > (q + K) - 0)
          BY <3>1, <3>4, <2>b, <2>1, <1>c
        <4>2. QED
          BY <4>1, <3>1, <3>2, <1>1
      <3>5. CASE i > (q + K) - 0
        <4>1. i + 1 > (p + K) - r /\ ~(i <= q) /\ ~(i <= (q + K) - 0)
          BY <3>1, <3>5, <2>b, <2>1, <1>c
        <4>2. QED
          BY <4>1, <3>1, <1>1
      <3>6. QED
        BY <3>1, <3>3, <3>4, <3>5, <2>2, <1>1
    <2>4. Placed(f, F, q, 0)'
      BY <2>2, <2>3, <1>a DEF Placed
    <2>5. QED
      BY <2>1, <2>4, <2>b, <1>1, <1>2, <1>6, <1>a
  <1>7. CASE p = 0 /\ r < K
    <2>1. c = [b |-> F[(r + 1) - p], f |-> f] /\ (r + 1) - p = r + 1
      BY <1>4, <1>5, <1>7, <1>1, <1>b
    <2>2. c.f = f /\ c.b = F[r + 1]
      BY <2>1
    <2>3. 0 \in Nat /\ r + 1 \in 0 .. K /\ (0 + K) - (r + 1) <= Len(L) /\ (r + 1 > 0 => 0 = 0)
      BY <1>0, <1>1, <1>7
    <2>4. ASSUME NEW i \in 1 .. Len(L)
          PROVE  /\ i <= 0 => L[i].f < f
                 /\ i > 0 /\ i <= (0 + K) - (r + 1) => L[i] = [b |-> F[((r + 1) + i) - 0], f |-> f]
                 /\ i > (0 + K) - (r + 1) => L[i].f > f
      <3>1. i + 1 \in 1 .. N /\ L[i] = line[i + 1] /\ i \in Nat /\ i > 0 /\ ~(i <= 0)
        BY <1>0
      <3>2. (r + (i + 1)) - p = ((r + 1) + i) - 0
        BY <3>1, <1>c, <1>7
      <3>3. i + 1 > p
        BY <3>1, <1>7
      <3>4. CASE i <= (0 + K) - (r + 1)
        <4>1. i + 1 <= (p + K) - r /\ ~(i > (0 + K) - (r + 1))
          BY <3>1, <3>4, <1>c, <1>7
        <4>2. QED
          BY <4>1, <3>1, <3>2, <3>3, <1>1
      <3>5. CASE i > (0 + K) - (r + 1)
        <4>1. i + 1 > (p + K) - r /\ ~(i <= (0 + K) - (r + 1))
          BY <3>1, <3>5, <1>c, <1>7
        <4>2. QED
          BY <4>1, <3>1, <1>1
      <3>6. QED
        BY <3>1, <3>4, <3>5, <1>1
    <2>5. Placed(f, F, 0, r + 1)'
      BY <2>3, <2>4, <1>a DEF Placed
    <2>6. QED
      BY <2>2, <2>5, <1>1, <1>2, <1>7, <1>a
  <1>8. CASE p = 0 /\ r = K
    <2>1. c.f > f
      BY <1>4, <1>5, <1>8, <1>b
    <2>3. p \in Nat /\ r \in 0 .. K /\ (p + K) - r <= Len(L) /\ (r > 0 => p = 0)
      BY <1>0, <1>1, <1>8
    <2>4. ASSUME NEW i \in 1 .. Len(L)
          PROVE  /\ i <= p => L[i].f < f
                 /\ i > p /\ i <= (p + K) - r => L[i] = [b |-> F[(r + i) - p], f |-> f]
                 /\ i > (p + K) - r => L[i].f > f
      <3>1. i + 1 \in 1 .. N /\ L[i] = line[i + 1] /\ i \in Nat /\ ~(i <= p) /\ ~(i <= (p + K) - r)
        BY <1>0, <1>1, <1>8
      <3>2. i + 1 > (p + K) - r
        BY <3>1, <1>c, <1>8
      <3>3. QED
        BY <3>1, <3>2, <1>1
    <2>5. Placed(f, F, p, r)'
      BY <2>3, <2>4, <1>a DEF Placed
    <2>6. QED
      BY <2>1, <2>5, <1>1, <1>2, <1>8, <1>a
  <1>9. QED
    BY <1>1, <1>6, <1>7, <1>8

\* What is received stays so.
LEMMA DeliveredStays ==
    ASSUME FramingType, NEW c \in LineByte, Received(c), sent' = sent, NEW f, Delivered(f)
    PROVE  Delivered(f)'
  <1>1. PICK i \in 1 .. Len(got) : got[i] = [f |-> f, m |-> sent[f]]
    BY DEF Delivered
  <1>2. i \in 1 .. Len(got') /\ got'[i] = got[i]
    <2>1. CASE got' = got
      BY <2>1
    <2>2. CASE \E m \in Seq(Byte) : got' = Append(got, [f |-> c.f, m |-> m])
      <3>1. PICK m \in Seq(Byte) : got' = Append(got, [f |-> c.f, m |-> m])
        BY <2>2
      <3>a. PICK x, S : x = [f |-> c.f, m |-> m] /\ S = [f : Nat, m : Seq(Byte)]
        OBVIOUS
      <3>2. x \in S /\ got \in Seq(S) /\ got' = Append(got, x)
        BY <3>1, <3>a DEF FramingType, LineByte
      <3>3. Len(got') = Len(got) + 1 /\ Len(got) \in Nat /\ got'[i] = got[i]
        BY <3>2, AppendProperties, LenProperties
      <3>4. QED
        BY <3>3
    <2>3. QED
      BY <2>1, <2>2 DEF Received
  <1>3. QED
    BY <1>1, <1>2 DEF Delivered

LEMMA ArrivedIs ==
    ASSUME FramingType, NEW t \in Nat, NEW m \in Seq(Byte), Arrived(t, m), sent' = sent, m = sent[t]
    PROVE  Delivered(t)'
  <1>a. PICK x, S, q : x = [f |-> t, m |-> m] /\ S = [f : Nat, m : Seq(Byte)] /\ q = Len(got) + 1
    OBVIOUS
  <1>1. x \in S /\ got \in Seq(S) /\ got' = Append(got, x)
    BY <1>a DEF FramingType, Arrived
  <1>2. Len(got') = q /\ Len(got) \in Nat /\ got'[q] = x
    BY <1>1, <1>a, AppendProperties, LenProperties
  <1>3. q \in 1 .. Len(got')
    BY <1>2, <1>a
  <1>4. QED
    BY <1>2, <1>3, <1>a DEF Delivered

LEMMA UnreadStays ==
    ASSUME FramingType, NEW c \in LineByte, Received(c), NEW f, Unread(f), got' = got \/ c.f # f
    PROVE  Unread(f)'
  <1>1. CASE got' = got
    BY <1>1 DEF Unread
  <1>2. CASE c.f # f /\ \E m \in Seq(Byte) : got' = Append(got, [f |-> c.f, m |-> m])
    <2>1. PICK m \in Seq(Byte) : got' = Append(got, [f |-> c.f, m |-> m])
      BY <1>2
    <2>a. PICK x, S : x = [f |-> c.f, m |-> m] /\ S = [f : Nat, m : Seq(Byte)]
      OBVIOUS
    <2>2. x \in S /\ got \in Seq(S) /\ got' = Append(got, x)
      BY <2>1, <2>a DEF FramingType, LineByte
    <2>3. /\ Len(got') = Len(got) + 1 /\ Len(got) \in Nat /\ got'[Len(got) + 1] = x
          /\ \A j \in 1 .. Len(got) : got'[j] = got[j]
      BY <2>2, AppendProperties, LenProperties
    <2>4. ASSUME NEW j \in 1 .. Len(got') PROVE got'[j].f # f
      <3>1. CASE j \in 1 .. Len(got)
        BY <3>1, <2>3 DEF Unread
      <3>2. CASE j = Len(got) + 1
        BY <3>2, <2>3, <2>a, <1>2
      <3>3. QED
        BY <3>1, <3>2, <2>3
    <2>5. QED
      BY <2>4 DEF Unread
  <1>3. QED
    BY <1>1, <1>2 DEF Received

LEMMA LostStays ==
    ASSUME NEW c, Received(c), damaged' = damaged, NEW f, Lost(f)
    PROVE  Lost(f)'
  BY DEF Lost, Received

LEMMA DoneStays ==
    ASSUME FramingType, NEW c \in LineByte, Received(c), UNCHANGED <<sent, damaged, proto, quiet>>,
           NEW f, Done(f)
    PROVE  Done(f)'
  <1>1. Delivered(f) => Delivered(f)'
    BY DeliveredStays
  <1>2. Lost(f) => Lost(f)'
    BY LostStays
  <1>3. CASE proto = "bsp"
    BY <1>1, <1>3 DEF Done, InPlace
  <1>4. CASE proto # "bsp"
    BY <1>1, <1>2, <1>4 DEF Done
  <1>5. QED
    BY <1>3, <1>4

\* The receiver takes the byte c from the line.
Reads(c) ==
    /\ line # <<>> /\ line' = Tail(line) /\ c = line[1] /\ c \in LineByte
    /\ UNCHANGED <<sent, damaged, proto, quiet>> /\ Received(c)
    /\ IF proto = "bsp" THEN BspTakes(c) ELSE MsgTakes(c)

LEMMA ByteReads ==
    ASSUME BaseInv, msg_recv_byte \/ bsp_recv_byte
    PROVE  \E c : Reads(c)
  <1>1. line # <<>> /\ line' = Tail(line) /\ UNCHANGED envvars /\ Received(Head(line))
    BY ByteIsReceived
  <1>a. PICK c : c = Head(line)
    OBVIOUS
  <1>2. c = line[1] /\ c \in LineByte
    <2>1. line \in Seq(LineByte)
      BY LineIs DEF BaseInv
    <2>2. QED
      BY <2>1, <1>1, <1>a, TailFacts
  <1>3. IF proto = "bsp" THEN BspTakes(c) ELSE MsgTakes(c)
    BY <1>a DEF msg_recv_byte, bsp_recv_byte, MsgTakes, BspTakes
  <1>4. Reads(c)
    BY <1>1, <1>2, <1>3, <1>a DEF Reads, envvars
  <1>5. QED
    BY <1>4

LEMMA WireFacts ==
    ASSUME BaseInv, NEW f \in 1 .. Len(sent), NEW m, m = sent[f], NEW F, F = Wire(m)
    PROVE  /\ f \in Nat /\ f >= 1 /\ m \in Seq(Byte) /\ MessageOk(m)
           /\ Len(F) \in Nat /\ Len(F) > 1
           /\ proto = "bsp" => \E off : BspLaid(F, m, off)
           /\ proto # "bsp" => \E off : MsgLaid(F, m, off)
  <1>0. FramingType /\ SentInv
    BY DEF BaseInv
  <1>1. m \in Seq(Byte)
    <2>1. sent \in Seq(Seq(Byte))
      BY <1>0 DEF FramingType
    <2>2. QED
      BY <2>1, ElementOfSeq
  <1>2. MessageOk(m)
    BY <1>0 DEF SentInv
  <1>3. Len(m) >= 2
    BY <1>1, <1>2, LenProperties, ByteFacts DEF MessageOk, HdrSz
  <1>4. f \in Nat /\ f >= 1
    BY <1>0, LineIs
  <1>5. QED
    BY <1>1, <1>2, <1>3, <1>4, WireIs

FrameOf(f, F) == F = Wire(sent[f])

\* Nothing but the frame's own message comes of the byte.
Settles(f) == got' = got \/ Arrived(f, sent[f])

\* What a step leaves of what is said of a frame.
LEMMA TrackedMid ==
    ASSUME UNCHANGED <<sent, damaged, proto, quiet>>, NEW f, NEW F, NEW r, r \in Nat, r > 0, r < Len(F),
           Len(F) \in Nat, Placed(f, F, 0, r)', Mid(f, F, sent[f], r)',
           (proto = "bsp" => f \in quiet) => Unread(f)'
    PROVE  Tracked(f, F, 0, r)'
  BY DEF Tracked

LEMMA TrackedDone ==
    ASSUME UNCHANGED <<sent, damaged, proto, quiet>>, NEW f, NEW F, Len(F) \in Nat, Len(F) > 1,
           NEW r, r = Len(F), Placed(f, F, 0, r)', Done(f)'
    PROVE  Tracked(f, F, 0, r)'
  BY DEF Tracked

LEMMA MsgHere ==
    ASSUME BaseInv, NEW c, Reads(c), proto # "bsp", NEW f \in 1 .. Len(sent), c.f = f,
           NEW F, FrameOf(f, F), NEW p, NEW r, Tracked(f, F, p, r)
    PROVE  /\ p = 0 /\ r \in Nat /\ r < Len(F) /\ Tracked(f, F, 0, r + 1)' /\ (r + 1 = Len(F) => Idle')
           /\ Settles(f)
  <1>a. PICK m, K : m = sent[f] /\ K = Len(F)
    OBVIOUS
  <1>b. F = Wire(m)
    BY <1>a DEF FrameOf
  <1>0. /\ f \in Nat /\ f >= 1 /\ m \in Seq(Byte) /\ MessageOk(m) /\ K \in Nat /\ K > 1
        /\ \E off : MsgLaid(F, m, off)
    BY <1>a, <1>b, WireFacts
  <1>1. /\ line \in Seq(LineByte) /\ line # <<>> /\ line' = Tail(line) /\ c = line[1] /\ c \in LineByte
        /\ UNCHANGED <<sent, damaged, proto, quiet>> /\ Received(c) /\ MsgTakes(c) /\ FramingType
    BY LineIs DEF Reads, BaseInv
  <1>2. Placed(f, F, p, r)
    BY DEF Tracked
  <1>3. p = 0 /\ r \in Nat /\ r < K /\ c.b = F[r + 1] /\ Placed(f, F, 0, r + 1)'
    BY <1>0, <1>1, <1>2, <1>a, PlacedRead
  <1>4. Unread(f)
    BY <1>3, <1>a DEF Tracked
  <1>5. \/ r + 1 < K /\ MsgMid(f, F, m, r + 1)' /\ got' = got
        \/ r + 1 = K /\ Idle' /\ (Arrived(f, m) \/ (got' = got /\ Lost(f)'))
    <2>1. CASE r = 0
      <3>1. PICK off : MsgLaid(F, m, off)
        BY <1>0
      <3>2. InPlace(f) => Idle
        BY <2>1, <1>3 DEF Tracked
      <3>3. c.b = MARK
        BY <3>1, <2>1, <1>3 DEF MsgLaid
      <3>4. MsgMid(f, F, m, 1)' /\ got' = got
        BY <3>1, <3>2, <3>3, <1>0, <1>1, MsgFirst
      <3>5. r + 1 = 1
        BY <2>1
      <3>6. QED
        BY <3>4, <3>5, <1>0
    <2>2. CASE r > 0
      <3>1. MsgMid(f, F, m, r)
        BY <2>2, <1>3, <1>a DEF Tracked, Mid
      <3>2. /\ m \in Seq(Byte) /\ MessageOk(m) /\ proto' = proto /\ damaged' = damaged
            /\ c.b = F[r + 1] /\ MsgTakes(c)
        BY <1>0, <1>1, <1>3
      <3>3. \/ r + 1 < Len(F) /\ MsgMid(f, F, m, r + 1)' /\ got' = got
            \/ r + 1 = Len(F) /\ Idle' /\ (Arrived(f, m) \/ (got' = got /\ Lost(f)'))
        BY <3>1, <3>2, MsgStep
      <3>4. QED
        BY <3>3, <1>a
    <2>3. QED
      BY <2>1, <2>2, <1>3
  <1>c. Settles(f)
    BY <1>5, <1>a DEF Settles
  <1>6. CASE r + 1 < K /\ MsgMid(f, F, m, r + 1)' /\ got' = got
    <2>1. Unread(f)'
      BY <1>1, <1>4, <1>6, UnreadStays
    <2>2. Mid(f, F, sent[f], r + 1)'
      BY <1>1, <1>6, <1>a DEF Mid
    <2>3. r + 1 \in Nat /\ r + 1 > 0
      BY <1>3
    <2>4. Tracked(f, F, 0, r + 1)'
      BY <2>1, <2>2, <2>3, <1>0, <1>1, <1>3, <1>6, <1>a, TrackedMid
    <2>5. QED
      BY <2>4, <1>0, <1>3, <1>6, <1>a, <1>c
  <1>7. CASE r + 1 = K /\ Idle' /\ (Arrived(f, m) \/ (got' = got /\ Lost(f)'))
    <2>1. Arrived(f, m) => Delivered(f)'
      BY <1>0, <1>1, <1>a, ArrivedIs
    <2>2. Done(f)'
      BY <2>1, <1>1, <1>7 DEF Done
    <2>3. Tracked(f, F, 0, r + 1)'
      BY <2>2, <1>0, <1>1, <1>3, <1>7, <1>a, TrackedDone
    <2>4. QED
      BY <2>3, <1>3, <1>7, <1>a, <1>c
  <1>8. QED
    BY <1>5, <1>6, <1>7

LEMMA BspHere ==
    ASSUME BaseInv, NEW c, Reads(c), proto = "bsp", NEW f \in 1 .. Len(sent), c.f = f,
           NEW F, FrameOf(f, F), NEW p, NEW r, Tracked(f, F, p, r)
    PROVE  /\ p = 0 /\ r \in Nat /\ r < Len(F) /\ Tracked(f, F, 0, r + 1)'
           /\ r + 1 = Len(F) /\ InPlace(f) => Idle'
           /\ InPlace(f) => Settles(f)
  <1>a. PICK m, K : m = sent[f] /\ K = Len(F)
    OBVIOUS
  <1>b. F = Wire(m)
    BY <1>a DEF FrameOf
  <1>0. /\ f \in Nat /\ f >= 1 /\ m \in Seq(Byte) /\ MessageOk(m) /\ K \in Nat /\ K > 1
        /\ \E off : BspLaid(F, m, off)
    BY <1>a, <1>b, WireFacts
  <1>1. /\ line \in Seq(LineByte) /\ line # <<>> /\ line' = Tail(line) /\ c = line[1] /\ c \in LineByte
        /\ UNCHANGED <<sent, damaged, proto, quiet>> /\ Received(c) /\ BspTakes(c) /\ FramingType
    BY LineIs DEF Reads, BaseInv
  <1>2. Placed(f, F, p, r)
    BY DEF Tracked
  <1>3. p = 0 /\ r \in Nat /\ r < K /\ c.b = F[r + 1] /\ Placed(f, F, 0, r + 1)'
    BY <1>0, <1>1, <1>2, <1>a, PlacedRead
  <1>4. r + 1 \in Nat /\ r + 1 > 0 /\ (r + 1 < K \/ r + 1 = K)
    BY <1>0, <1>3
  <1>5. CASE ~InPlace(f)
    <2>1. ~(InPlace(f))' /\ f \notin quiet
      BY <1>1, <1>5 DEF InPlace
    <2>2. CASE r + 1 < K
      <3>1. Mid(f, F, sent[f], r + 1)'
        BY <2>1, <1>1 DEF Mid
      <3>2. Tracked(f, F, 0, r + 1)'
        BY <3>1, <2>1, <2>2, <1>0, <1>1, <1>3, <1>4, <1>a, TrackedMid
      <3>3. QED
        BY <3>2, <1>3, <1>5, <1>a
    <2>3. CASE r + 1 = K
      <3>1. Done(f)'
        BY <2>1, <1>1 DEF Done
      <3>2. Tracked(f, F, 0, r + 1)'
        BY <3>1, <2>3, <1>0, <1>1, <1>3, <1>a, TrackedDone
      <3>3. QED
        BY <3>2, <1>3, <1>5, <1>a
    <2>4. QED
      BY <2>2, <2>3, <1>4
  <1>6. CASE InPlace(f)
    <2>1. \/ r + 1 < K /\ BspMid(F, m, r + 1)' /\ got' = got
          \/ /\ r + 1 = K /\ Idle' /\ (Arrived(f, m) \/ got' = got)
             /\ Len(m) < HdrSz + MaxLen => Arrived(f, m)
      <3>1. CASE r = 0
        <4>1. PICK off : BspLaid(F, m, off)
          BY <1>0
        <4>2. Idle
          BY <3>1, <1>3, <1>6 DEF Tracked
        <4>3. c.b = F[1] /\ r + 1 = 1
          BY <3>1, <1>3
        <4>4. BspMid(F, m, 1)' /\ got' = got
          BY <4>1, <4>2, <4>3, <1>0, <1>1, BspFirst
        <4>5. QED
          BY <4>3, <4>4, <1>0
      <3>2. CASE r > 0
        <4>1. BspMid(F, m, r)
          BY <3>2, <1>3, <1>6, <1>a DEF Tracked, Mid
        <4>2. m \in Seq(Byte) /\ MessageOk(m) /\ proto' = proto /\ c.b = F[r + 1] /\ BspTakes(c)
          BY <1>0, <1>1, <1>3
        <4>3. \/ r + 1 < Len(F) /\ BspMid(F, m, r + 1)' /\ got' = got
              \/ /\ r + 1 = Len(F) /\ Idle' /\ (Arrived(f, m) \/ got' = got)
                 /\ Len(m) < HdrSz + MaxLen => Arrived(f, m)
          BY <4>1, <4>2, BspStep
        <4>4. QED
          BY <4>3, <1>a
      <3>3. QED
        BY <3>1, <3>2, <1>3
    <2>a. Settles(f)
      BY <2>1, <1>a DEF Settles
    <2>2. CASE r + 1 < K /\ BspMid(F, m, r + 1)' /\ got' = got
      <3>1. f \in quiet => Unread(f)'
        <4>1. SUFFICES ASSUME f \in quiet PROVE Unread(f)'
          OBVIOUS
        <4>2. Unread(f)
          BY <4>1, <1>3, <1>a DEF Tracked
        <4>3. QED
          BY <4>2, <1>1, <2>2, UnreadStays
      <3>2. Mid(f, F, sent[f], r + 1)'
        BY <1>1, <2>2, <1>a DEF Mid
      <3>4. Tracked(f, F, 0, r + 1)'
        BY <3>1, <3>2, <1>0, <1>1, <1>3, <1>4, <2>2, <1>a, TrackedMid
      <3>5. QED
        BY <3>4, <1>0, <1>3, <2>2, <1>a, <2>a
    <2>3. CASE r + 1 = K /\ Idle' /\ (Len(m) < HdrSz + MaxLen => Arrived(f, m))
      <3>1. Arrived(f, m) => Delivered(f)'
        BY <1>0, <1>1, <1>a, ArrivedIs
      <3>2. Done(f)'
        BY <3>1, <1>1, <2>3, <1>a DEF Done
      <3>3. Tracked(f, F, 0, r + 1)'
        BY <3>2, <1>0, <1>1, <1>3, <2>3, <1>a, TrackedDone
      <3>4. QED
        BY <3>3, <1>3, <2>3, <1>a, <2>a
    <2>4. QED
      BY <2>1, <2>2, <2>3
  <1>7. QED
    BY <1>5, <1>6

LEMMA ReadHere ==
    ASSUME BaseInv, NEW c, Reads(c), NEW f \in 1 .. Len(sent), c.f = f,
           NEW F, FrameOf(f, F), NEW p, NEW r, Tracked(f, F, p, r)
    PROVE  /\ p = 0 /\ r \in Nat /\ r < Len(F) /\ Tracked(f, F, 0, r + 1)'
           /\ r + 1 = Len(F) /\ (proto = "bsp" => InPlace(f)) => Idle'
           /\ (proto = "bsp" => InPlace(f)) => Settles(f)
  <1>1. CASE proto = "bsp"
    <2>1. /\ p = 0 /\ r \in Nat /\ r < Len(F) /\ Tracked(f, F, 0, r + 1)'
          /\ r + 1 = Len(F) /\ InPlace(f) => Idle'
          /\ InPlace(f) => Settles(f)
      BY <1>1, BspHere
    <2>2. QED
      BY <1>1, <2>1
  <1>2. CASE proto # "bsp"
    <2>1. /\ p = 0 /\ r \in Nat /\ r < Len(F) /\ Tracked(f, F, 0, r + 1)' /\ (r + 1 = Len(F) => Idle')
          /\ Settles(f)
      BY <1>2, MsgHere
    <2>2. QED
      BY <2>1
  <1>3. QED
    BY <1>1, <1>2

\* The frame's next byte on the line.
LEMMA NextByteThen ==
    ASSUME NEW f, NEW F, NEW p, NEW r, Len(F) \in Nat, Len(line') \in Nat, Placed(f, F, p, r)', r < Len(F)
    PROVE  p \in Nat /\ p + 1 \in 1 .. Len(line') /\ line'[p + 1].f = f
  <1>a. PICK N, K, q : N = Len(line') /\ K = Len(F) /\ q = p + 1
    OBVIOUS
  <1>1. p \in Nat /\ r \in 0 .. K /\ (p + K) - r <= N /\ N \in Nat /\ K \in Nat /\ r < K
    BY <1>a DEF Placed
  <1>2. q \in 1 .. N /\ q > p /\ q <= (p + K) - r
    BY <1>1, <1>a
  <1>3. line'[q] = [b |-> F[(r + q) - p], f |-> f]
    BY <1>2, <1>a DEF Placed
  <1>4. QED
    BY <1>1, <1>2, <1>3, <1>a

LEMMA FrameTracked ==
    ASSUME FramesInv, NEW f \in 1 .. Len(sent), f \notin damaged, NEW F, F = Wire(sent[f])
    PROVE  \E p, r : Tracked(f, F, p, r)
  BY DEF FramesInv

LEMMA LineThen ==
    ASSUME BaseInv'
    PROVE  line' \in Seq(LineByte) /\ Len(line') \in Nat
  <1>1. line' \in Seq(LineByte)
    BY DEF BaseInv, FramingType, LineByte
  <1>2. QED
    BY <1>1, LenProperties

\* With its last byte a frame that was read in its place leaves the receiver at
\* rest.
LEMMA LastRead ==
    ASSUME BaseInv, BaseInv', FramesInv, NEW c, Reads(c), NEW g \in 1 .. Len(sent), g \notin damaged,
           proto = "bsp" => InPlace(g), c.f <= g, \A i \in 1 .. Len(line') : line'[i].f # g
    PROVE  Idle'
  <1>a. PICK m, F, K : m = sent[g] /\ F = Wire(m) /\ K = Len(F)
    OBVIOUS
  <1>b. F = Wire(sent[g])
    BY <1>a
  <1>0. g \in Nat /\ K \in Nat /\ K > 1
    BY <1>a, WireFacts
  <1>1. PICK p, r : Tracked(g, F, p, r)
    BY <1>b, FrameTracked
  <1>2. /\ line \in Seq(LineByte) /\ line # <<>> /\ line' = Tail(line) /\ c = line[1] /\ c.f \in Nat
        /\ Len(line') \in Nat
    BY LineIs, LineThen DEF Reads, BaseInv, LineByte
  <1>3. Placed(g, F, p, r)
    BY <1>1 DEF Tracked
  <1>4. CASE c.f = g
    <2>1. /\ r \in Nat /\ r < K /\ Tracked(g, F, 0, r + 1)'
          /\ r + 1 = K => Idle'
      BY <1>1, <1>4, <1>a, <1>b, ReadHere DEF FrameOf
    <2>2. CASE r + 1 < K
      <3>1. Placed(g, F, 0, r + 1)'
        BY <2>1 DEF Tracked
      <3>2. 0 + 1 \in 1 .. Len(line') /\ line'[0 + 1].f = g
        BY <3>1, <2>2, <1>0, <1>2, <1>a, NextByteThen
      <3>3. QED
        BY <3>2
    <2>3. QED
      BY <2>1, <2>2, <1>0
  <1>5. CASE c.f < g
    <2>1. p \in Nat /\ p >= 1 /\ Placed(g, F, p - 1, 0)'
      BY <1>0, <1>2, <1>3, <1>5, <1>a, PlacedRead
    <2>a. PICK q : q = p - 1
      OBVIOUS
    <2>2. Placed(g, F, q, 0)' /\ 0 < K
      BY <2>1, <2>a, <1>0
    <2>3. q + 1 \in 1 .. Len(line') /\ line'[q + 1].f = g
      BY <2>2, <1>0, <1>2, <1>a, NextByteThen
    <2>4. QED
      BY <2>3
  <1>6. QED
    BY <1>0, <1>2, <1>4, <1>5

LEMMA ReadKeepsFrames ==
    ASSUME BaseInv, BaseInv', FramesInv, NEW c, Reads(c)
    PROVE  FramesInv'
  <1>1. /\ line \in Seq(LineByte) /\ line # <<>> /\ line' = Tail(line) /\ c = line[1] /\ c \in LineByte
        /\ c.f \in Nat /\ sent' = sent /\ damaged' = damaged /\ proto' = proto /\ quiet' = quiet
        /\ Received(c) /\ FramingType /\ Tags /\ Len(line) \in Nat /\ Len(line') \in Nat
    BY LineIs, LineThen DEF Reads, BaseInv, LineByte
  <1>2. 1 \in 1 .. Len(line)
    BY <1>1, EmptySeq
  <1>3. c.f \in 1 .. Len(sent)
    BY <1>1, <1>2 DEF Tags
  <1>4. SUFFICES ASSUME NEW f \in 1 .. Len(sent), f \notin damaged
                 PROVE  \E p, r : Tracked(f, Wire(sent[f]), p, r)'
    BY <1>1 DEF FramesInv
  <1>a. PICK m, F, K : m = sent[f] /\ F = Wire(m) /\ K = Len(F)
    OBVIOUS
  <1>b. F = Wire(sent[f]) /\ F = Wire(sent[f])'
    BY <1>a, <1>1 DEF Wire
  <1>5. SUFFICES \E p, r : Tracked(f, F, p, r)'
    BY <1>b
  <1>0. f \in Nat /\ f >= 1 /\ K \in Nat /\ K > 1
    BY <1>a, WireFacts
  <1>6. PICK p, r : Tracked(f, F, p, r)
    BY <1>4, <1>b, FrameTracked
  <1>7. /\ Placed(f, F, p, r) /\ (r = K => Done(f)) /\ (f \in quiet => p = 0)
        /\ r < K /\ (proto = "bsp" => f \in quiet) => Unread(f)
    BY <1>6, <1>a DEF Tracked
  <1>8. /\ p \in Nat /\ r \in Nat /\ r <= K
        /\ c.f > f => r = K /\ p = 0 /\ Placed(f, F, p, r)'
        /\ c.f < f => p >= 1 /\ r = 0 /\ Placed(f, F, p - 1, 0)'
    BY <1>0, <1>1, <1>7, <1>a, PlacedRead
  <1>9. CASE c.f > f
    <2>1. r = K /\ p = 0 /\ Placed(f, F, 0, r)'
      BY <1>8, <1>9
    <2>2. Done(f)'
      BY <2>1, <1>1, <1>7, DoneStays
    <2>3. Tracked(f, F, 0, r)'
      BY <2>1, <2>2, <1>0, <1>1, <1>a, TrackedDone
    <2>4. QED
      BY <2>3
  <1>10. CASE c.f = f
    <2>1. Tracked(f, F, 0, r + 1)'
      BY <1>6, <1>10, <1>b, ReadHere DEF FrameOf
    <2>2. QED
      BY <2>1
  <1>11. CASE c.f < f
    <2>a. PICK q, g : q = p - 1 /\ g = f - 1
      OBVIOUS
    <2>1. p >= 1 /\ r = 0 /\ Placed(f, F, q, 0)' /\ q \in Nat /\ f \notin quiet
      BY <1>7, <1>8, <1>11, <2>a
    <2>2. proto # "bsp" => Unread(f)'
      <3>1. SUFFICES ASSUME proto # "bsp" PROVE Unread(f)'
        OBVIOUS
      <3>2. Unread(f) /\ c.f # f
        BY <3>1, <2>1, <1>0, <1>1, <1>7, <1>11
      <3>3. QED
        BY <3>2, <1>1, UnreadStays
    <2>3. ASSUME q = 0, InPlace(f)' PROVE Idle'
      <3>1. g \in 1 .. Len(sent) /\ c.f <= g /\ g # f /\ g < f
        BY <1>0, <1>1, <1>3, <1>11, <2>a
      <3>2. g \notin damaged /\ (proto = "bsp" => g \in quiet)
        BY <2>1, <2>3, <1>1, <2>a DEF InPlace
      <3>3. proto = "bsp" => InPlace(g)
        BY <3>2 DEF InPlace
      <3>4. ASSUME NEW i \in 1 .. Len(line') PROVE line'[i].f # g
        <4>1. i > q /\ (i <= (q + K) - 0 \/ i > (q + K) - 0)
          BY <2>3, <1>0, <1>1
        <4>2. line'[i].f = f \/ line'[i].f > f
          <5>1. /\ i > q /\ i <= (q + Len(F)) - 0 => line'[i] = [b |-> F[(0 + i) - q], f |-> f]
                /\ i > (q + Len(F)) - 0 => line'[i].f > f
            BY <2>1 DEF Placed
          <5>2. QED
            BY <4>1, <5>1, <1>a
        <4>3. line'[i].f \in Nat
          <5>1. line'[i] \in LineByte
            BY LineThen, ElementOfSeq
          <5>2. QED
            BY <5>1 DEF LineByte
        <4>4. QED
          BY <4>2, <4>3, <3>1, <1>0
      <3>5. QED
        BY <3>1, <3>2, <3>3, <3>4, LastRead
    <2>4. Tracked(f, F, q, 0)'
      <3>1. 0 # Len(F) /\ 0 < Len(F)
        BY <1>0, <1>a
      <3>2. QED
        BY <3>1, <2>1, <2>2, <2>3, <1>1 DEF Tracked
    <2>5. QED
      BY <2>4
  <1>12. QED
    BY <1>0, <1>1, <1>9, <1>10, <1>11

LEMMA ReadKeepsNext ==
    ASSUME BaseInv, BaseInv', FramesInv, NEW c, Reads(c)
    PROVE  NextInv'
  <1>1. /\ line \in Seq(LineByte) /\ line # <<>> /\ c = line[1] /\ c.f \in Nat
        /\ UNCHANGED <<sent, damaged, proto, quiet>> /\ Tags /\ Len(line) \in Nat /\ Len(sent) \in Nat
    BY LineIs DEF Reads, BaseInv, LineByte
  <1>2. 1 \in 1 .. Len(line)
    BY <1>1, EmptySeq
  <1>3. c.f \in 1 .. Len(sent)
    BY <1>1, <1>2 DEF Tags
  <1>4. SUFFICES ASSUME line' = <<>>,
                        IF proto = "bsp" THEN Len(sent) \in quiet \ damaged ELSE Len(sent) \notin damaged
                 PROVE  Idle'
    BY <1>1 DEF NextInv
  <1>a. PICK g : g = Len(sent)
    OBVIOUS
  <1>5. g \in 1 .. Len(sent) /\ c.f <= g /\ g \notin damaged
    BY <1>1, <1>3, <1>4, <1>a
  <1>6. proto = "bsp" => InPlace(g)
    BY <1>4, <1>a DEF InPlace
  <1>7. \A i \in 1 .. Len(line') : line'[i].f # g
    <2>1. Len(line') = 0
      BY <1>4, EmptyFacts, Zenon
    <2>2. QED
      BY <2>1
  <1>8. QED
    BY <1>5, <1>6, <1>7, LastRead

\* A step that leaves the receiver alone and damages at most other frames.
Still(f) ==
    /\ UNCHANGED <<state, escfl, buf, fcs, got, eaten, proto>>
    /\ sent'[f] = sent[f] /\ damaged \subseteq damaged'
    /\ f \in quiet' <=> f \in quiet
    /\ f - 1 \in quiet' <=> f - 1 \in quiet

LEMMA InPlaceStays ==
    ASSUME NEW f, Still(f), InPlace(f)'
    PROVE  InPlace(f)
  BY DEF Still, InPlace

LEMMA MidStays ==
    ASSUME NEW f, Still(f), NEW F, NEW m, NEW r, Mid(f, F, m, r)
    PROVE  Mid(f, F, m, r)'
  <1>1. CASE proto # "bsp"
    <2>1. PICK off : /\ MsgLaid(F, m, off)
                     /\ \E i \in 0 .. Len(m) - 1, h \in {0, 1} :
                            /\ r = off[i] + h /\ (h = 1 => m[i + 1] \in {MARK, ESC})
                            /\ MsgHolds(f, m, i, h)
      BY <1>1 DEF Mid, MsgMid
    <2>2. PICK i \in 0 .. Len(m) - 1, h \in {0, 1} :
                   /\ r = off[i] + h /\ (h = 1 => m[i + 1] \in {MARK, ESC})
                   /\ MsgHolds(f, m, i, h)
      BY <2>1
    <2>3. Holds(m, i, h) => Holds(m, i, h)'
      BY DEF Holds, Still
    <2>4. Lost(f) => Lost(f)'
      BY DEF Lost, Still
    <2>5. MsgHolds(f, m, i, h)'
      BY <2>2, <2>3, <2>4 DEF MsgHolds, Still
    <2>6. MsgMid(f, F, m, r)'
      BY <2>1, <2>2, <2>5 DEF MsgMid
    <2>7. QED
      BY <2>6, <1>1 DEF Mid, Still
  <1>2. CASE proto = "bsp"
    <2>1. SUFFICES ASSUME InPlace(f)' PROVE BspMid(F, m, r)'
      BY <1>2 DEF Mid, Still
    <2>2. BspMid(F, m, r)
      BY <2>1, <1>2, InPlaceStays DEF Mid
    <2>3. PICK off, s : BspAt(F, m, r, off, s) /\ Matches(m, s)
      BY <2>2 DEF BspMid
    <2>4. PICK i \in 1 .. Len(m), h \in {0, 1} :
                  /\ r = off[i] + h /\ (h = 1 => i < Len(m) /\ Hard(m, i + 1))
                  /\ BspHolds(m, s, i, h)
      BY <2>3 DEF BspAt
    <2>5. Holds(m, i, h) => Holds(m, i, h)'
      BY DEF Holds, Still
    <2>6. BspHolds(m, s, i, h)'
      BY <2>4, <2>5 DEF BspHolds, Still
    <2>7. BspAt(F, m, r, off, s)'
      BY <2>3, <2>4, <2>6 DEF BspAt
    <2>8. QED
      BY <2>3, <2>7 DEF BspMid
  <1>3. QED
    BY <1>1, <1>2

LEMMA DoneAsBefore ==
    ASSUME NEW f, Still(f), Done(f)
    PROVE  Done(f)'
  <1>1. Delivered(f) => Delivered(f)'
    BY DEF Delivered, Still
  <1>2. Lost(f) => Lost(f)'
    BY DEF Lost, Still
  <1>3. CASE proto = "bsp"
    BY <1>1, <1>3, InPlaceStays DEF Done, Still
  <1>4. CASE proto # "bsp"
    BY <1>1, <1>2, <1>4 DEF Done, Still
  <1>5. QED
    BY <1>3, <1>4

LEMMA TrackedMoved ==
    ASSUME NEW f, Still(f), NEW F, NEW p, NEW q, NEW r, Tracked(f, F, p, r), Placed(f, F, q, r)',
           r = 0 /\ q = 0 /\ InPlace(f)' => Idle, f \in quiet => q = 0
    PROVE  Tracked(f, F, q, r)'
  <1>1. r = 0 /\ q = 0 /\ InPlace(f)' => Idle'
    BY DEF Idle, Still
  <1>2. 0 < r /\ r < Len(F) => Mid(f, F, sent[f], r)'
    <2>1. SUFFICES ASSUME 0 < r, r < Len(F) PROVE Mid(f, F, sent[f], r)'
      OBVIOUS
    <2>2. Mid(f, F, sent[f], r)
      BY <2>1 DEF Tracked
    <2>a. PICK m : m = sent[f] /\ m = sent'[f]
      BY DEF Still
    <2>3. Mid(f, F, m, r)'
      BY <2>2, <2>a, MidStays
    <2>4. QED
      BY <2>3, <2>a
  <1>3. r = Len(F) => Done(f)'
    BY DoneAsBefore DEF Tracked
  <1>4. r < Len(F) /\ (proto = "bsp" => f \in quiet) => Unread(f)'
    BY DEF Tracked, Unread, Still
  <1>5. f \in quiet' => q = 0
    BY DEF Still
  <1>6. r < Len(F) /\ (proto' = "bsp" => f \in quiet') => Unread(f)'
    BY <1>4 DEF Still
  <1>7. QED
    BY <1>1, <1>2, <1>3, <1>5, <1>6 DEF Tracked

\* The line is left as it is for a frame.
LEMMA TrackedLater ==
    ASSUME NEW f, Still(f), NEW F, NEW p, NEW r, Tracked(f, F, p, r), Placed(f, F, p, r)'
    PROVE  Tracked(f, F, p, r)'
  <1>1. r = 0 /\ p = 0 /\ InPlace(f)' => Idle
    BY InPlaceStays DEF Tracked
  <1>2. f \in quiet => p = 0
    BY DEF Tracked
  <1>3. QED
    BY <1>1, <1>2, TrackedMoved

\* A frame is sent.
LEMMA SendKeepsFrames ==
    ASSUME BaseInv, BaseInv', FramesInv, NextInv, NEW k, NEW m, NEW F, NEW q, Added(k, m, F, q)
    PROVE  FramesInv' /\ NextInv'
  <1>a. PICK N, K, S : N = Len(line) /\ K = Len(F) /\ S = Len(sent)
    OBVIOUS
  <1>0. /\ FramingType /\ Tags /\ RestInv /\ N \in Nat /\ S \in Nat /\ line \in Seq(LineByte)
        /\ damaged \subseteq 1 .. S /\ quiet \subseteq 1 .. S
    BY <1>a, LineIs DEF BaseInv, FramingType
  <1>1. /\ k = S + 1 /\ k \in Nat /\ k >= 1
        /\ m \in Seq(Byte) /\ MessageOk(m) /\ F = Wire(m) /\ F \in Seq(Byte) /\ q \in Nat /\ q <= K
        /\ line' \in Seq(LineByte) /\ Len(line') = N + q
        /\ \A i \in 1 .. N : line'[i] = line[i]
        /\ \A i \in 1 .. q : line'[N + i] = [b |-> F[i], f |-> k]
        /\ Len(sent') = k /\ sent'[k] = m
        /\ \A f \in 1 .. S : sent'[f] = sent[f]
        /\ IF q = K THEN damaged' = damaged ELSE damaged' = damaged \cup {k}
        /\ UNCHANGED <<state, escfl, buf, fcs, got, eaten, proto>>
        /\ quiet' = IF proto = "bsp" /\ line = <<>> /\ buf = <<>> THEN quiet \cup {k} ELSE quiet
    BY <1>a DEF Added
  <1>2. K \in Nat /\ K > 1
    <2>1. Len(m) >= 2
      BY <1>1, LenProperties, ByteFacts DEF MessageOk, HdrSz
    <2>2. QED
      BY <2>1, <1>1, <1>a, WireIs
  <1>b. k = S + 1 /\ k \in Nat /\ S \in Nat /\ damaged \subseteq 1 .. S /\ quiet \subseteq 1 .. S
    BY <1>0, <1>1
  <1>c. \A i \in 1 .. q : line'[N + i] = [b |-> F[i], f |-> k]
    BY <1>1
  <1>3. k \notin damaged /\ k \notin quiet /\ k - 1 = S /\ k - 1 # k
    <2>1. k \notin 1 .. S /\ k - 1 = S /\ k - 1 # k
      BY <1>b
    <2>2. QED
      BY <2>1, <1>b
  <1>4. ASSUME NEW f \in 1 .. S, f \notin damaged' PROVE \E p, r : Tracked(f, Wire(sent[f]), p, r)'
    <2>a. PICK m1, F1, K1 : m1 = sent[f] /\ F1 = Wire(m1) /\ K1 = Len(F1)
      OBVIOUS
    <2>b. F1 = Wire(sent[f])
      BY <2>a
    <2>c. F1 = Wire(sent[f])'
      BY <2>a, <1>1, <1>4 DEF Wire
    <2>0. f \in Nat /\ K1 \in Nat /\ K1 > 1
      BY <1>4, <2>a, <1>a, WireFacts
    <2>1. f \notin damaged /\ damaged \subseteq damaged' /\ f # k /\ f - 1 # k /\ f < k /\ f \in 1 .. Len(sent)
      BY <1>0, <1>1, <1>4, <1>a
    <2>2. Still(f)
      BY <1>1, <1>4, <2>1 DEF Still
    <2>3. PICK p, r : Tracked(f, F1, p, r)
      BY <2>1, <2>b, FrameTracked
    <2>4. Placed(f, F1, p, r)'
      <3>1. /\ p \in Nat /\ r \in 0 .. K1 /\ (p + K1) - r <= N /\ (r > 0 => p = 0)
            /\ \A i \in 1 .. N :
                  /\ i <= p => line[i].f < f
                  /\ i > p /\ i <= (p + K1) - r => line[i] = [b |-> F1[(r + i) - p], f |-> f]
                  /\ i > (p + K1) - r => line[i].f > f
        BY <2>3, <2>a, <1>a DEF Tracked, Placed
      <3>2. ASSUME NEW i \in 1 .. Len(line')
            PROVE  /\ i <= p => line'[i].f < f
                   /\ i > p /\ i <= (p + K1) - r => line'[i] = [b |-> F1[(r + i) - p], f |-> f]
                   /\ i > (p + K1) - r => line'[i].f > f
        <4>1. CASE i \in 1 .. N
          <5>1. line'[i] = line[i]
            BY <4>1, <1>1
          <5>2. QED
            BY <5>1, <4>1, <3>1
        <4>2. CASE i > N
          <5>a. PICK j : j = i - N
            OBVIOUS
          <5>1. j \in 1 .. q /\ N + j = i
            BY <4>2, <1>0, <1>1, <5>a
          <5>2. line'[i].f = k
            <6>1. line'[i] = [b |-> F[j], f |-> k]
              BY <5>1, <1>c
            <6>2. QED
              BY <6>1
          <5>3. ~(i <= p) /\ ~(i <= (p + K1) - r)
            BY <4>2, <3>1, <2>0, <1>0, <1>1
          <5>4. QED
            BY <5>2, <5>3, <2>0, <2>1, <1>1
        <4>3. QED
          BY <4>1, <4>2, <1>0, <1>1
      <3>3. (p + K1) - r <= Len(line')
        BY <3>1, <2>0, <1>0, <1>1
      <3>4. QED
        BY <3>1, <3>2, <3>3, <2>a DEF Placed
    <2>5. Tracked(f, F1, p, r)'
      BY <2>2, <2>3, <2>4, TrackedLater
    <2>6. QED
      BY <2>5, <2>c
  <1>5. ASSUME k \notin damaged' PROVE \E p, r : Tracked(k, Wire(sent[k]), p, r)'
    <2>1. q = K /\ damaged' = damaged
      BY <1>1, <1>5
    <2>2. Placed(k, F, N, 0)'
      <3>1. ASSUME NEW i \in 1 .. Len(line')
            PROVE  /\ i <= N => line'[i].f < k
                   /\ i > N /\ i <= (N + K) - 0 => line'[i] = [b |-> F[(0 + i) - N], f |-> k]
                   /\ i > (N + K) - 0 => line'[i].f > k
        <4>1. CASE i \in 1 .. N
          <5>1. line'[i] = line[i] /\ line[i].f \in 1 .. S
            BY <4>1, <1>0, <1>1, <1>a DEF Tags
          <5>2. i <= N /\ ~(i > N) /\ ~(i > (N + K) - 0)
            BY <4>1, <1>0, <1>2
          <5>3. line'[i].f < k
            <6>1. line[i].f < k
              BY <5>1, <1>b
            <6>2. QED
              BY <6>1, <5>1
          <5>4. QED
            BY <5>2, <5>3
        <4>2. CASE i > N
          <5>a. PICK j : j = i - N
            OBVIOUS
          <5>1. j \in 1 .. q /\ N + j = i /\ (0 + i) - N = j /\ ~(i <= N) /\ ~(i > (N + K) - 0)
            BY <4>2, <2>1, <1>0, <1>1, <1>2, <5>a
          <5>2. line'[i] = [b |-> F[j], f |-> k]
            BY <5>1, <1>c
          <5>3. QED
            BY <5>1, <5>2
        <4>3. QED
          BY <4>1, <4>2, <1>0, <1>1
      <3>2. N \in Nat /\ 0 \in 0 .. K /\ (N + K) - 0 <= Len(line') /\ ~(0 > 0)
        BY <2>1, <1>0, <1>1, <1>2
      <3>3. QED
        BY <3>1, <3>2, <1>a DEF Placed
    <2>3. ASSUME N = 0, InPlace(k)' PROVE Idle'
      <3>1. line = <<>>
        BY <2>3, <1>0, <1>a, EmptySeq
      <3>2. CASE proto # "bsp"
        <4>1. S \notin damaged
          BY <2>1, <2>3, <3>2, <1>1, <1>3 DEF InPlace
        <4>2. Idle
          BY <3>1, <3>2, <4>1, <1>a DEF NextInv
        <4>3. QED
          BY <4>2, <1>1 DEF Idle
      <3>3. CASE proto = "bsp" /\ buf = <<>>
        <4>1. Len(buf) < HdrSz
          BY <3>3, EmptyFacts DEF HdrSz
        <4>2. escfl = FALSE
          BY <4>1, <3>3, <1>0 DEF RestInv
        <4>3. QED
          BY <3>3, <4>2, <1>1 DEF Idle
      <3>4. CASE proto = "bsp" /\ buf # <<>>
        <4>1. quiet' = quiet
          BY <3>4, <1>1
        <4>2. S \in quiet \ damaged
          BY <4>1, <2>1, <2>3, <3>4, <1>1, <1>3 DEF InPlace
        <4>3. Idle
          BY <3>1, <3>4, <4>2, <1>a DEF NextInv
        <4>4. QED
          BY <4>3, <1>1 DEF Idle
      <3>5. QED
        BY <3>2, <3>3, <3>4
    <2>4. k \in quiet' => N = 0
      <3>1. SUFFICES ASSUME k \in quiet' PROVE N = 0
        OBVIOUS
      <3>2. line = <<>>
        BY <3>1, <1>1, <1>3
      <3>3. QED
        BY <3>2, <1>a, EmptyFacts, Zenon
    <2>5. Unread(k)'
      <3>1. ASSUME NEW j \in 1 .. Len(got) PROVE got[j].f # k
        <4>1. got[j].f \in 1 .. S
          BY <1>0, <1>a DEF Tags
        <4>2. QED
          BY <4>1, <1>0, <1>1
      <3>2. QED
        BY <3>1, <1>1 DEF Unread
    <2>6. Tracked(k, F, N, 0)'
      <3>1. 0 < Len(F) /\ 0 # Len(F)
        BY <1>2, <1>a
      <3>2. QED
        BY <3>1, <2>2, <2>3, <2>4, <2>5 DEF Tracked
    <2>7. F = Wire(sent[k])'
      BY <1>1 DEF Wire
    <2>8. QED
      BY <2>6, <2>7
  <1>6. FramesInv'
    <2>1. ASSUME NEW f \in 1 .. Len(sent'), f \notin damaged' PROVE \E p, r : Tracked(f, Wire(sent[f]), p, r)'
      <3>1. CASE f = k
        BY <3>1, <1>5, <2>1
      <3>2. CASE f # k
        <4>1. f \in 1 .. S
          BY <3>2, <1>0, <1>1
        <4>2. QED
          BY <4>1, <1>4, <2>1
      <3>3. QED
        BY <3>1, <3>2
    <2>2. QED
      BY <2>1 DEF FramesInv
  <1>7. NextInv'
    <2>1. SUFFICES ASSUME line' = <<>>,
                          IF proto' = "bsp" THEN Len(sent') \in quiet' \ damaged' ELSE Len(sent') \notin damaged'
                   PROVE  FALSE
      BY DEF NextInv
    <2>2. k \notin damaged'
      BY <2>1, <1>1
    <2>3. q = K
      BY <2>2, <1>1
    <2>4. Len(line') = 0
      BY <2>1, EmptyFacts, Zenon
    <2>5. QED
      BY <2>3, <2>4, <1>0, <1>1, <1>2
  <1>8. QED
    BY <1>6, <1>7

\* A byte of another frame is lost or garbled.
LEMMA PlacedGone ==
    ASSUME line \in Seq(LineByte), NEW i, Gone(i), NEW f \in Nat, line[i].f # f, NEW F, Len(F) \in Nat,
           NEW p, NEW r, Placed(f, F, p, r)
    PROVE  \/ i <= p /\ r = 0 /\ Placed(f, F, p - 1, r)'
           \/ Placed(f, F, p, r)'
  <1>a. PICK N, K, L, e : N = Len(line) /\ K = Len(F) /\ L = line' /\ e = (p + K) - r
    OBVIOUS
  <1>0. /\ N \in Nat /\ i \in 1 .. N /\ Len(L) = N - 1 /\ K \in Nat
        /\ \A j \in 1 .. N - 1 : L[j] = IF j < i THEN line[j] ELSE line[j + 1]
    BY <1>a, LenProperties DEF Gone, Faulty
  <1>1. /\ p \in Nat /\ r \in 0 .. K /\ e <= N /\ (r > 0 => p = 0) /\ e = (p + K) - r /\ e \in Nat /\ p <= e
        /\ \A j \in 1 .. N : /\ j <= p => line[j].f < f
                             /\ j > p /\ j <= e => line[j] = [b |-> F[(r + j) - p], f |-> f]
                             /\ j > e => line[j].f > f
    <2>1. p \in Nat /\ r \in 0 .. K /\ e <= N /\ (r > 0 => p = 0)
      BY <1>a DEF Placed
    <2>2. \A j \in 1 .. N : /\ j <= p => line[j].f < f
                            /\ j > p /\ j <= e => line[j] = [b |-> F[(r + j) - p], f |-> f]
                            /\ j > e => line[j].f > f
      BY <1>a DEF Placed
    <2>3. e = (p + K) - r
      BY <1>a
    <2>4. e \in Nat /\ p <= e
      BY <2>1, <2>3, <1>0
    <2>5. QED
      BY <2>1, <2>2, <2>3, <2>4
  <1>2. ~(i > p /\ i <= e)
    <2>1. SUFFICES ASSUME i > p, i <= e PROVE FALSE
      OBVIOUS
    <2>2. line[i] = [b |-> F[(r + i) - p], f |-> f]
      BY <2>1, <1>0, <1>1
    <2>3. QED
      BY <2>2
  <1>3. CASE i <= p
    <2>a. PICK q : q = p - 1
      OBVIOUS
    <2>1. q \in Nat /\ r = 0 /\ (q + K) - r <= N - 1 /\ (q + K) - r = e - 1
      BY <1>0, <1>1, <1>3, <2>a
    <2>2. ASSUME NEW j \in 1 .. Len(L)
          PROVE  /\ j <= q => L[j].f < f
                 /\ j > q /\ j <= (q + K) - r => L[j] = [b |-> F[(r + j) - q], f |-> f]
                 /\ j > (q + K) - r => L[j].f > f
      <3>1. /\ j \in 1 .. N /\ j + 1 \in 1 .. N /\ j \in 1 .. N - 1 /\ (r + (j + 1)) - p = (r + j) - q
            /\ j <= q => j <= p /\ j + 1 <= p
            /\ j > q => ~(j < i) /\ j + 1 > p
            /\ j <= (q + K) - r => j + 1 <= e
            /\ j > (q + K) - r => j + 1 > e
        BY <1>0, <1>1, <1>3, <2>1, <2>a
      <3>2. L[j] = IF j < i THEN line[j] ELSE line[j + 1]
        BY <3>1, <1>0
      <3>3. CASE j <= q
        <4>1. ~(j > q) /\ ~(j > (q + K) - r)
          BY <3>3, <2>1, <1>0, <1>1
        <4>2. L[j].f < f
          BY <3>1, <3>2, <3>3, <1>1
        <4>3. QED
          BY <4>1, <4>2
      <3>4. CASE j > q
        <4>1. ~(j <= q) /\ L[j] = line[j + 1] /\ j + 1 > p
          BY <3>1, <3>2, <3>4, <2>1
        <4>2. CASE j <= (q + K) - r
          <5>1. line[j + 1] = [b |-> F[(r + (j + 1)) - p], f |-> f]
            BY <3>1, <4>1, <4>2, <1>1
          <5>2. ~(j > (q + K) - r)
            BY <4>2, <2>1, <1>1
          <5>3. QED
            BY <5>1, <5>2, <4>1, <3>1
        <4>3. CASE j > (q + K) - r
          <5>0. j + 1 > e /\ j + 1 \in 1 .. N
            BY <3>1, <4>3
          <5>1. line[j + 1].f > f /\ ~(j <= (q + K) - r)
            <6>1. line[j + 1].f > f
              BY <5>0, <1>1
            <6>2. ~(j <= (q + K) - r)
              BY <4>3, <2>1, <1>1
            <6>3. QED
              BY <6>1, <6>2
          <5>2. QED
            BY <5>1, <4>1
        <4>4. QED
          BY <4>2, <4>3, <2>1, <1>1
      <3>5. QED
        BY <3>3, <3>4, <2>1
    <2>3. Placed(f, F, q, r)'
      BY <2>1, <2>2, <1>0, <1>1, <1>a DEF Placed
    <2>4. QED
      BY <2>1, <2>3, <2>a, <1>3
  <1>4. CASE i > e
    <2>1. (p + K) - r <= N - 1
      BY <1>0, <1>1, <1>4
    <2>2. ASSUME NEW j \in 1 .. Len(L)
          PROVE  /\ j <= p => L[j].f < f
                 /\ j > p /\ j <= (p + K) - r => L[j] = [b |-> F[(r + j) - p], f |-> f]
                 /\ j > (p + K) - r => L[j].f > f
      <3>1. j \in 1 .. N /\ j + 1 \in 1 .. N /\ j \in 1 .. N - 1 /\ (j <= e => j < i) /\ (j <= p => j <= e)
        BY <1>0, <1>1, <1>4
      <3>2. L[j] = IF j < i THEN line[j] ELSE line[j + 1]
        BY <3>1, <1>0
      <3>3. CASE j <= e
        <4>1. L[j] = line[j] /\ ~(j > e)
          BY <3>1, <3>2, <3>3, <1>1
        <4>2. QED
          BY <4>1, <3>1, <1>1
      <3>4. CASE j > e
        <4>1. j + 1 > e /\ ~(j <= p) /\ ~(j <= e)
          BY <3>1, <3>4, <1>1
        <4>2. line[j].f > f /\ line[j + 1].f > f
          BY <4>1, <3>1, <3>4, <1>1
        <4>3. L[j].f > f
          BY <4>2, <3>2
        <4>4. QED
          BY <4>1, <4>3, <1>1
      <3>5. QED
        BY <3>3, <3>4, <1>1
    <2>3. Placed(f, F, p, r)'
      BY <2>1, <2>2, <1>0, <1>1, <1>a DEF Placed
    <2>4. QED
      BY <2>3
  <1>5. QED
    BY <1>0, <1>1, <1>2, <1>3, <1>4

LEMMA PlacedGarbled ==
    ASSUME line \in Seq(LineByte), NEW i, Garbled(i), NEW f \in Nat, line[i].f # f, NEW F, Len(F) \in Nat,
           NEW p, NEW r, Placed(f, F, p, r)
    PROVE  Placed(f, F, p, r)'
  <1>a. PICK N, K, L, e : N = Len(line) /\ K = Len(F) /\ L = line' /\ e = (p + K) - r
    OBVIOUS
  <1>0. /\ N \in Nat /\ i \in 1 .. N /\ Len(L) = N /\ K \in Nat
        /\ \A j \in 1 .. N : j # i => L[j] = line[j]
        /\ \A j \in 1 .. N : L[j].f = line[j].f
    BY <1>a, LenProperties DEF Garbled, Faulty
  <1>1. /\ p \in Nat /\ r \in 0 .. K /\ e <= N /\ (r > 0 => p = 0)
        /\ \A j \in 1 .. N : /\ j <= p => line[j].f < f
                             /\ j > p /\ j <= e => line[j] = [b |-> F[(r + j) - p], f |-> f]
                             /\ j > e => line[j].f > f
    <2>1. p \in Nat /\ r \in 0 .. K /\ e <= N /\ (r > 0 => p = 0)
      BY <1>a DEF Placed
    <2>2. \A j \in 1 .. N : /\ j <= p => line[j].f < f
                            /\ j > p /\ j <= e => line[j] = [b |-> F[(r + j) - p], f |-> f]
                            /\ j > e => line[j].f > f
      BY <1>a DEF Placed
    <2>3. e = (p + K) - r
      BY <1>a
    <2>4. e \in Nat /\ p <= e
      BY <2>1, <2>3, <1>0
    <2>5. QED
      BY <2>1, <2>2, <2>3, <2>4
  <1>2. ~(i > p /\ i <= e)
    <2>1. SUFFICES ASSUME i > p, i <= e PROVE FALSE
      OBVIOUS
    <2>2. line[i] = [b |-> F[(r + i) - p], f |-> f]
      BY <2>1, <1>0, <1>1
    <2>3. QED
      BY <2>2
  <1>3. ASSUME NEW j \in 1 .. N
        PROVE  /\ j <= p => L[j].f < f
               /\ j > p /\ j <= e => L[j] = [b |-> F[(r + j) - p], f |-> f]
               /\ j > e => L[j].f > f
    <2>1. CASE j = i
      BY <2>1, <1>0, <1>1, <1>2
    <2>2. CASE j # i
      BY <2>2, <1>0, <1>1
    <2>3. QED
      BY <2>1, <2>2
  <1>4. QED
    BY <1>0, <1>1, <1>3, <1>a DEF Placed

LEMMA FaultIsStill ==
    ASSUME NEW i, Gone(i) \/ Garbled(i), NEW f
    PROVE  Still(f)
  BY DEF Gone, Garbled, Faulty, Still

\* The frame before one that begins behind a single byte of the line is damaged
\* with that byte.
LEMMA OneAhead ==
    ASSUME BaseInv, FramesInv, NEW f \in 1 .. Len(sent), NEW F, Len(F) \in Nat, Placed(f, F, 1, 0), Len(F) > 1,
           NEW t, t = line[1].f, t < f, f - 1 \notin damaged
    PROVE  t = f - 1
  <1>a. PICK g, m, G, K, N : g = f - 1 /\ m = sent[g] /\ G = Wire(m) /\ K = Len(G) /\ N = Len(line)
    OBVIOUS
  <1>0. N \in Nat /\ Tags /\ Len(sent) \in Nat /\ f \in Nat /\ f <= Len(sent)
    BY <1>a, LineIs DEF BaseInv
  <1>1. /\ (1 + Len(F)) - 0 <= N
        /\ \A j \in 1 .. N : /\ j > 1 /\ j <= (1 + Len(F)) - 0 => line[j] = [b |-> F[(0 + j) - 1], f |-> f]
                             /\ j > (1 + Len(F)) - 0 => line[j].f > f
    BY <1>a DEF Placed
  <1>2. 1 \in 1 .. N /\ N >= 1
    BY <1>0, <1>1
  <1>3. t \in 1 .. Len(sent)
    BY <1>0, <1>2, <1>a DEF Tags
  <1>4. SUFFICES ASSUME t # g PROVE FALSE
    BY <1>a
  <1>5. g \in 1 .. Len(sent) /\ g \in Nat /\ t < g /\ g < f /\ t \in Nat /\ g \notin damaged
    BY <1>0, <1>3, <1>4, <1>a
  <1>b. G = Wire(sent[g])
    BY <1>a
  <1>6. K \in Nat /\ K > 1
    BY <1>5, <1>a, WireFacts
  <1>7. PICK p, r : Tracked(g, G, p, r)
    BY <1>5, <1>b, FrameTracked
  <1>8. /\ p \in Nat /\ r \in 0 .. K /\ (p + K) - r <= N /\ (r > 0 => p = 0)
        /\ \A j \in 1 .. N : /\ j > p /\ j <= (p + K) - r => line[j] = [b |-> G[(r + j) - p], f |-> g]
                             /\ j > (p + K) - r => line[j].f > g
    BY <1>7, <1>a DEF Tracked, Placed
  <1>9. p >= 1
    <2>1. SUFFICES ASSUME p = 0 PROVE FALSE
      BY <1>8
    <2>2. 1 > p
      BY <2>1
    <2>3. CASE 1 <= (p + K) - r
      <3>1. line[1] = [b |-> G[(r + 1) - p], f |-> g]
        BY <2>2, <2>3, <1>2, <1>8
      <3>2. t = g
        BY <3>1
      <3>3. QED
        BY <3>2, <1>5
    <2>4. CASE 1 > (p + K) - r
      <3>1. line[1].f > g
        BY <2>4, <1>2, <1>8
      <3>2. QED
        BY <3>1, <1>5
    <2>5. QED
      BY <2>3, <2>4, <1>6, <1>8
  <1>c. PICK j : j = p + 1
    OBVIOUS
  <1>10. j \in 1 .. N /\ j > p /\ j <= (p + K) - r /\ j > 1 /\ j \in Nat
    BY <1>c, <1>0, <1>6, <1>8, <1>9
  <1>11. line[j].f = g
    <2>1. line[j] = [b |-> G[(r + j) - p], f |-> g]
      BY <1>8, <1>10
    <2>2. QED
      BY <2>1
  <1>12. line[j].f = f \/ line[j].f > f
    <2>1. CASE j <= (1 + Len(F)) - 0
      <3>1. line[j] = [b |-> F[(0 + j) - 1], f |-> f]
        BY <1>1, <1>10, <2>1
      <3>2. QED
        BY <3>1
    <2>2. CASE j > (1 + Len(F)) - 0
      BY <1>1, <1>10, <2>2
    <2>3. QED
      BY <2>1, <2>2, <1>10
  <1>13. QED
    BY <1>0, <1>5, <1>11, <1>12

LEMMA FaultKeepsFrames ==
    ASSUME BaseInv, FramesInv, NEW i, Gone(i) \/ Garbled(i)
    PROVE  FramesInv'
  <1>1. /\ i \in 1 .. Len(line) /\ damaged' = damaged \cup {line[i].f}
        /\ sent' = sent /\ proto' = proto /\ quiet' = quiet
    BY DEF Gone, Garbled, Faulty
  <1>2. line \in Seq(LineByte) /\ Len(line) \in Nat
    BY LineIs DEF BaseInv
  <1>3. SUFFICES ASSUME NEW f \in 1 .. Len(sent), f \notin damaged'
                 PROVE  \E p, r : Tracked(f, Wire(sent[f]), p, r)'
    BY <1>1 DEF FramesInv
  <1>a. PICK m, F, t : m = sent[f] /\ F = Wire(m) /\ t = line[i].f
    OBVIOUS
  <1>b. F = Wire(sent[f])
    BY <1>a
  <1>c. F = Wire(sent[f])'
    BY <1>a, <1>1 DEF Wire
  <1>4. f \in Nat /\ Len(F) \in Nat /\ Len(F) > 1
    BY <1>a, WireFacts
  <1>5. f \notin damaged /\ t # f
    BY <1>1, <1>3, <1>a
  <1>6. PICK p, r : Tracked(f, F, p, r)
    BY <1>5, <1>b, FrameTracked
  <1>7. Placed(f, F, p, r) /\ Still(f)
    BY <1>6, FaultIsStill DEF Tracked
  <1>8. (i <= p /\ r = 0 /\ Placed(f, F, p - 1, r)') \/ Placed(f, F, p, r)'
    <2>1. CASE Gone(i)
      BY <2>1, <1>2, <1>4, <1>5, <1>7, <1>a, PlacedGone
    <2>2. CASE Garbled(i)
      BY <2>2, <1>2, <1>4, <1>5, <1>7, <1>a, PlacedGarbled
    <2>3. QED
      BY <2>1, <2>2
  <1>9. CASE Placed(f, F, p, r)'
    <2>1. Tracked(f, F, p, r)'
      BY <1>6, <1>7, <1>9, TrackedLater
    <2>2. QED
      BY <2>1, <1>c
  <1>10. CASE i <= p /\ r = 0 /\ Placed(f, F, p - 1, r)'
    <2>a. PICK q : q = p - 1
      OBVIOUS
    <2>1. p \in Nat /\ p >= 1 /\ q \in Nat /\ Placed(f, F, q, r)' /\ r = 0
      <3>1. p \in Nat
        BY <1>7 DEF Placed
      <3>2. QED
        BY <3>1, <1>1, <1>2, <1>10, <2>a
    <2>2. f \notin quiet
      BY <2>1, <1>6 DEF Tracked
    <2>3. ASSUME q = 0, InPlace(f)' PROVE FALSE
      <3>1. p = 1 /\ i = 1
        BY <2>1, <2>3, <1>1, <1>2, <1>10, <2>a
      <3>2. f - 1 \notin damaged'
        BY <2>2, <2>3, <1>1 DEF InPlace
      <3>3. f - 1 \notin damaged /\ t # f - 1
        BY <3>2, <1>1, <1>a
      <3>4. t < f /\ t = line[1].f
        <4>1. 1 \in 1 .. Len(line) /\ 1 <= p
          BY <3>1, <1>1
        <4>2. line[1].f < f
          BY <4>1, <1>7 DEF Placed
        <4>3. QED
          BY <4>2, <3>1, <1>a
      <3>5. Placed(f, F, 1, 0)
        BY <3>1, <2>1, <1>7
      <3>6. QED
        BY <3>3, <3>4, <3>5, <1>4, OneAhead
    <2>4. Tracked(f, F, q, r)'
      BY <2>1, <2>2, <2>3, <1>6, <1>7, TrackedMoved
    <2>5. QED
      BY <2>4, <1>c
  <1>11. QED
    BY <1>8, <1>9, <1>10

LEMMA FaultKeepsNext ==
    ASSUME BaseInv, FramesInv, NEW i, Gone(i) \/ Garbled(i)
    PROVE  NextInv'
  <1>1. /\ i \in 1 .. Len(line) /\ damaged' = damaged \cup {line[i].f}
        /\ sent' = sent /\ proto' = proto /\ quiet' = quiet
        /\ Len(line') = Len(line) \/ Len(line') = Len(line) - 1
    BY DEF Gone, Garbled, Faulty
  <1>2. line \in Seq(LineByte) /\ Len(line) \in Nat /\ Tags /\ Len(sent) \in Nat
    BY LineIs DEF BaseInv
  <1>3. SUFFICES ASSUME line' = <<>>, Len(sent) \notin damaged' PROVE FALSE
    BY <1>1 DEF NextInv
  <1>a. PICK t, g, m, F, K : t = line[1].f /\ g = Len(sent) /\ m = sent[g] /\ F = Wire(m) /\ K = Len(F)
    OBVIOUS
  <1>b. F = Wire(sent[g])
    BY <1>a
  <1>4. Len(line') = 0
    BY <1>3, EmptyFacts, Zenon
  <1>5. Len(line) = 1 /\ i = 1 /\ 1 \in 1 .. Len(line)
    BY <1>1, <1>2, <1>4
  <1>6. t \in 1 .. g /\ g \notin damaged /\ t # g
    BY <1>1, <1>2, <1>3, <1>5, <1>a DEF Tags
  <1>7. g \in 1 .. Len(sent) /\ t < g /\ g \in Nat /\ t \in Nat
    BY <1>2, <1>6, <1>a
  <1>8. K \in Nat /\ K > 1
    BY <1>7, <1>a, WireFacts
  <1>9. PICK p, r : Tracked(g, F, p, r)
    BY <1>6, <1>7, <1>b, FrameTracked
  <1>10. /\ p \in Nat /\ r \in 0 .. K /\ (p + K) - r <= 1 /\ (r > 0 => p = 0)
         /\ 1 > p /\ 1 <= (p + K) - r => line[1] = [b |-> F[(r + 1) - p], f |-> g]
         /\ 1 > (p + K) - r => line[1].f > g
    BY <1>5, <1>9, <1>a DEF Tracked, Placed
  <1>11. CASE p >= 1
    BY <1>8, <1>10, <1>11
  <1>12. CASE p = 0 /\ r < K
    <2>1. 1 > p /\ 1 <= (p + K) - r
      BY <1>8, <1>10, <1>12
    <2>2. line[1] = [b |-> F[(r + 1) - p], f |-> g]
      BY <2>1, <1>10
    <2>3. t = g
      BY <2>2, <1>a
    <2>4. QED
      BY <2>3, <1>6
  <1>13. CASE p = 0 /\ r = K
    <2>1. 1 > (p + K) - r
      BY <1>8, <1>10, <1>13
    <2>2. t > g
      BY <2>1, <1>10, <1>a
    <2>3. QED
      BY <2>2, <1>7
  <1>14. QED
    BY <1>8, <1>10, <1>11, <1>12, <1>13

\* The receiver gives up, on an empty line.
LEMMA GaveUpKeepsFrames ==
    ASSUME BaseInv, FramesInv, GaveUp
    PROVE  FramesInv' /\ NextInv'
  <1>1. /\ line = <<>> /\ line' = line /\ sent' = sent /\ damaged' = damaged /\ got' = got /\ eaten' = eaten
        /\ proto' = proto /\ quiet' = quiet /\ state' = "DESYN" /\ escfl' = FALSE /\ buf' = <<>>
    BY DEF GaveUp
  <1>2. NextInv'
    BY <1>1 DEF NextInv, Idle
  <1>3. ASSUME NEW f \in 1 .. Len(sent), f \notin damaged
        PROVE  \E p, r : Tracked(f, Wire(sent[f]), p, r)'
    <2>a. PICK m, F, K : m = sent[f] /\ F = Wire(m) /\ K = Len(F)
      OBVIOUS
    <2>b. F = Wire(sent[f])
      BY <2>a
    <2>c. F = Wire(sent[f])'
      BY <2>a, <1>1 DEF Wire
    <2>1. K \in Nat /\ K > 1
      BY <2>a, WireFacts
    <2>2. PICK p, r : Tracked(f, F, p, r)
      BY <1>3, <2>b, FrameTracked
    <2>3. Placed(f, F, p, r)
      BY <2>2 DEF Tracked
    <2>4. Len(line) = 0
      BY <1>1, EmptyFacts, Zenon
    <2>5. p \in Nat /\ r \in 0 .. K /\ (p + K) - r <= 0
      BY <2>3, <2>4, <2>a DEF Placed
    <2>6. p = 0 /\ r = K
      BY <2>1, <2>5
    <2>7. Done(f)
      BY <2>2, <2>6, <2>a DEF Tracked
    <2>8. Delivered(f) <=> Delivered(f)'
      BY <1>1 DEF Delivered
    <2>9. Done(f)'
      BY <2>7, <2>8, <1>1 DEF Done, InPlace, Lost
    <2>10. Placed(f, F, 0, r)'
      BY <2>3, <2>6, <1>1 DEF Placed
    <2>11. Tracked(f, F, 0, r)'
      BY <2>1, <2>6, <2>9, <2>10, <1>1, <2>a, TrackedDone
    <2>12. QED
      BY <2>11, <2>c
  <1>4. FramesInv'
    BY <1>1, <1>3 DEF FramesInv
  <1>5. QED
    BY <1>2, <1>4

LEMMA KeptKeepsFrames ==
    ASSUME FramesInv, NextInv, Kept
    PROVE  FramesInv' /\ NextInv'
  <1>1. NextInv'
    BY DEF NextInv, Idle, Kept
  <1>2. ASSUME NEW f \in 1 .. Len(sent), f \notin damaged
        PROVE  \E p, r : Tracked(f, Wire(sent[f]), p, r)'
    <2>a. PICK F : F = Wire(sent[f])
      OBVIOUS
    <2>b. F = Wire(sent[f])'
      BY <2>a DEF Wire, Kept
    <2>1. PICK p, r : Tracked(f, F, p, r)
      BY <1>2, <2>a, FrameTracked
    <2>2. Placed(f, F, p, r)'
      BY <2>1 DEF Tracked, Placed, Kept
    <2>3. Still(f)
      BY DEF Still, Kept
    <2>4. Tracked(f, F, p, r)'
      BY <2>1, <2>2, <2>3, TrackedLater
    <2>5. QED
      BY <2>4, <2>b
  <1>3. QED
    BY <1>1, <1>2 DEF FramesInv, Kept

\* What was received in earlier steps.
LEMMA FaithStays ==
    ASSUME Faithful, Tags, got' = got, proto' = proto, damaged \subseteq damaged',
           \A f \in 1 .. Len(sent) : sent'[f] = sent[f] /\ (f \in quiet' <=> f \in quiet)
    PROVE  Faithful'
  <1>1. ASSUME NEW i \in 1 .. Len(got'), got'[i].f \notin damaged', proto' = "bsp" => got'[i].f \in quiet'
        PROVE  got'[i].m = sent'[got'[i].f] /\ \A j \in 1 .. i - 1 : got'[j].f < got'[i].f
    <2>1. i \in 1 .. Len(got) /\ got'[i].f = got[i].f /\ got[i].f \in 1 .. Len(sent)
      BY DEF Tags
    <2>2. got[i].f \notin damaged /\ (proto = "bsp" => got[i].f \in quiet)
      BY <1>1, <2>1
    <2>3. got[i].m = sent[got[i].f] /\ \A j \in 1 .. i - 1 : got[j].f < got[i].f
      BY <2>1, <2>2 DEF Faithful
    <2>4. sent'[got[i].f] = sent[got[i].f]
      BY <2>1
    <2>5. QED
      BY <2>3, <2>4
  <1>2. QED
    BY <1>1 DEF Faithful

LEMMA ReadKeepsFaith ==
    ASSUME BaseInv, FramesInv, Faithful, NEW c, Reads(c)
    PROVE  Faithful'
  <1>1. /\ line \in Seq(LineByte) /\ line # <<>> /\ c = line[1] /\ c \in LineByte /\ c.f \in Nat
        /\ sent' = sent /\ damaged' = damaged /\ proto' = proto /\ quiet' = quiet
        /\ Received(c) /\ FramingType /\ Tags /\ Len(line) \in Nat
    BY LineIs DEF Reads, BaseInv, LineByte
  <1>a. PICK t, N : t = c.f /\ N = Len(got)
    OBVIOUS
  <1>2. 1 \in 1 .. Len(line)
    BY <1>1, EmptySeq
  <1>3. t \in 1 .. Len(sent) /\ \A j \in 1 .. N : got[j].f <= t
    BY <1>1, <1>2, <1>a DEF Tags
  <1>4. CASE got' = got
    BY <1>1, <1>4, FaithStays
  <1>5. CASE got' # got
    <2>1. PICK m \in Seq(Byte) : got' = Append(got, [f |-> c.f, m |-> m])
      BY <1>1, <1>5 DEF Received
    <2>a. PICK x, S : x = [f |-> t, m |-> m] /\ S = [f : Nat, m : Seq(Byte)]
      OBVIOUS
    <2>2. x \in S /\ got \in Seq(S) /\ got' = Append(got, x)
      BY <2>1, <2>a, <1>1, <1>a DEF FramingType
    <2>3. /\ Len(got') = N + 1 /\ N \in Nat /\ got'[N + 1] = x
          /\ \A j \in 1 .. N : got'[j] = got[j]
      BY <2>2, <1>a, AppendProperties, LenProperties
    <2>4. ASSUME t \notin damaged, proto = "bsp" => t \in quiet
          PROVE  m = sent[t] /\ \A j \in 1 .. N : got[j].f < t
      <3>a. PICK F : F = Wire(sent[t])
        OBVIOUS
      <3>1. PICK p, r : Tracked(t, F, p, r)
        BY <2>4, <1>3, <3>a, FrameTracked
      <3>2. proto = "bsp" => InPlace(t)
        BY <2>4 DEF InPlace
      <3>3. FrameOf(t, F)
        BY <3>a DEF FrameOf
      <3>4. r \in Nat /\ r < Len(F) /\ Settles(t)
        BY <3>1, <3>2, <3>3, <1>3, <1>a, ReadHere
      <3>5. Unread(t)
        BY <3>1, <3>4, <2>4 DEF Tracked
      <3>6. got' = Append(got, [f |-> t, m |-> sent[t]])
        BY <3>4, <1>5 DEF Settles, Arrived
      <3>b. PICK y, z : y = [f |-> t, m |-> z] /\ z = sent[t]
        OBVIOUS
      <3>7. got'[N + 1] = y
        <4>1. z \in Seq(Byte)
          <5>1. sent \in Seq(Seq(Byte))
            BY <1>1 DEF FramingType
          <5>2. QED
            BY <5>1, <1>3, <3>b, ElementOfSeq
        <4>2. y \in S /\ got' = Append(got, y)
          BY <4>1, <3>6, <3>b, <2>a, <1>1, <1>a
        <4>3. got \in Seq(S)
          BY <2>2
        <4>4. Append(got, y)[Len(got) + 1] = y
          BY <4>2, <4>3, AppendProperties
        <4>5. QED
          BY <4>2, <4>4, <1>a
      <3>8. x = y
        BY <3>7, <2>3
      <3>9. m = sent[t]
        BY <3>8, <3>b, <2>a
      <3>10. ASSUME NEW j \in 1 .. N PROVE got[j].f < t
        <4>1. got[j].f <= t /\ got[j].f # t /\ got[j].f \in 1 .. Len(sent)
          BY <1>1, <1>3, <3>5, <1>a DEF Unread, Tags
        <4>2. QED
          BY <4>1, <1>3
      <3>11. QED
        BY <3>9, <3>10
    <2>5. ASSUME NEW i \in 1 .. Len(got'), got'[i].f \notin damaged', proto' = "bsp" => got'[i].f \in quiet'
          PROVE  got'[i].m = sent'[got'[i].f] /\ \A j \in 1 .. i - 1 : got'[j].f < got'[i].f
      <3>1. CASE i = N + 1
        <4>1. got'[i].f = t /\ got'[i].m = m
          BY <3>1, <2>3, <2>a
        <4>2. m = sent[t] /\ \A j \in 1 .. N : got[j].f < t
          BY <4>1, <2>4, <2>5, <1>1
        <4>3. ASSUME NEW j \in 1 .. i - 1 PROVE got'[j].f < t
          <5>1. j \in 1 .. N
            BY <3>1, <2>3
          <5>2. QED
            BY <5>1, <4>2, <2>3
        <4>4. QED
          BY <4>1, <4>2, <4>3, <1>1
      <3>2. CASE i # N + 1
        <4>1. i \in 1 .. N /\ got'[i] = got[i]
          BY <3>2, <2>3
        <4>2. got[i].f \notin damaged /\ (proto = "bsp" => got[i].f \in quiet)
          BY <4>1, <2>5, <1>1
        <4>3. got[i].m = sent[got[i].f] /\ \A j \in 1 .. i - 1 : got[j].f < got[i].f
          BY <4>1, <4>2, <1>a DEF Faithful
        <4>4. ASSUME NEW j \in 1 .. i - 1 PROVE got'[j].f < got'[i].f
          <5>1. j \in 1 .. N
            BY <4>1, <2>3
          <5>2. QED
            BY <5>1, <4>1, <4>3, <2>3
        <4>5. QED
          BY <4>1, <4>3, <4>4, <1>1
      <3>3. QED
        BY <3>1, <3>2
    <2>6. QED
      BY <2>5 DEF Faithful
  <1>6. QED
    BY <1>4, <1>5

\* All that the framing keeps.
FrameLineInv == FramesInv /\ NextInv /\ Faithful

LEMMA LineInitially ==
    ASSUME FramingInit
    PROVE  FrameLineInv
  <1>1. sent = <<>> /\ got = <<>> /\ buf = <<>> /\ escfl = FALSE /\ state = "DESYN"
    BY DEF FramingInit
  <1>2. FramesInv /\ Faithful
    BY <1>1 DEF FramesInv, Faithful
  <1>3. NextInv
    BY <1>1 DEF NextInv, Idle
  <1>4. QED
    BY <1>2, <1>3 DEF FrameLineInv

LEMMA StepKeepsLine ==
    ASSUME BaseInv, FrameLineInv, [FramingNext]_framevars
    PROVE  FrameLineInv'
  <1>0. BaseInv' /\ FramesInv /\ NextInv /\ Faithful /\ Tags
    BY StepKeepsBase DEF FrameLineInv, BaseInv
  <1>1. CASE \E k, m, F, q : Added(k, m, F, q)
    <2>1. PICK k, m, F, q : Added(k, m, F, q)
      BY <1>1
    <2>2. FramesInv' /\ NextInv'
      BY <1>0, <2>1, SendKeepsFrames
    <2>3. /\ got' = got /\ proto' = proto /\ damaged \subseteq damaged' /\ k = Len(sent) + 1 /\ k \in Nat
          /\ \A f \in 1 .. Len(sent) : sent'[f] = sent[f]
          /\ quiet' = quiet \/ quiet' = quiet \cup {k}
      BY <2>1 DEF Added
    <2>4. ASSUME NEW f \in 1 .. Len(sent) PROVE sent'[f] = sent[f] /\ (f \in quiet' <=> f \in quiet)
      <3>1. Len(sent) \in Nat
        BY LineIs DEF BaseInv
      <3>2. f # k
        BY <2>3, <3>1
      <3>3. QED
        BY <2>3, <3>2
    <2>5. Faithful'
      BY <1>0, <2>3, <2>4, FaithStays
    <2>6. QED
      BY <2>2, <2>5 DEF FrameLineInv
  <1>2. CASE \E i : Gone(i) \/ Garbled(i)
    <2>1. PICK i : Gone(i) \/ Garbled(i)
      BY <1>2
    <2>2. FramesInv' /\ NextInv'
      BY <1>0, <2>1, FaultKeepsFrames, FaultKeepsNext
    <2>3. got' = got /\ proto' = proto /\ damaged \subseteq damaged' /\ sent' = sent /\ quiet' = quiet
      BY <2>1 DEF Gone, Garbled, Faulty
    <2>4. Faithful'
      BY <1>0, <2>3, FaithStays
    <2>5. QED
      BY <2>2, <2>4 DEF FrameLineInv
  <1>3. CASE GaveUp
    <2>1. FramesInv' /\ NextInv'
      BY <1>0, <1>3, GaveUpKeepsFrames
    <2>2. Faithful'
      BY <1>0, <1>3, FaithStays DEF GaveUp
    <2>3. QED
      BY <2>1, <2>2 DEF FrameLineInv
  <1>4. CASE Kept
    <2>1. FramesInv' /\ NextInv'
      BY <1>0, <1>4, KeptKeepsFrames
    <2>2. Faithful'
      BY <1>0, <1>4, FaithStays DEF Kept
    <2>3. QED
      BY <2>1, <2>2 DEF FrameLineInv
  <1>5. CASE msg_recv_byte \/ bsp_recv_byte
    <2>1. PICK c : Reads(c)
      BY <1>5, ByteReads
    <2>2. QED
      BY <1>0, <2>1, ReadKeepsFrames, ReadKeepsNext, ReadKeepsFaith DEF FrameLineInv
  <1>6. QED
    BY <1>1, <1>2, <1>3, <1>4, <1>5, FramingSteps

\* A frame of which nothing is left on the line is done with.
LEMMA ConsumedIsDone ==
    ASSUME BaseInv, FramesInv, NEW f \in 1 .. Len(sent), Consumed(f), f \notin damaged
    PROVE  Done(f)
  <1>a. PICK m, F, K, N : m = sent[f] /\ F = Wire(m) /\ K = Len(F) /\ N = Len(line)
    OBVIOUS
  <1>b. F = Wire(sent[f])
    BY <1>a
  <1>0. f \in Nat /\ K \in Nat /\ K > 1 /\ N \in Nat
    BY <1>a, WireFacts, LineIs DEF BaseInv
  <1>1. PICK p, r : Tracked(f, F, p, r)
    BY <1>b, FrameTracked
  <1>2. /\ p \in Nat /\ r \in 0 .. K /\ (p + K) - r <= N
        /\ \A i \in 1 .. N : i > p /\ i <= (p + K) - r => line[i] = [b |-> F[(r + i) - p], f |-> f]
    BY <1>1, <1>a DEF Tracked, Placed
  <1>3. r = K
    <2>1. SUFFICES ASSUME r < K PROVE FALSE
      BY <1>0, <1>2
    <2>a. PICK i : i = p + 1
      OBVIOUS
    <2>2. i \in 1 .. N /\ i > p /\ i <= (p + K) - r
      BY <2>1, <2>a, <1>0, <1>2
    <2>3. line[i] = [b |-> F[(r + i) - p], f |-> f]
      BY <2>2, <1>2
    <2>4. line[i].f > f
      BY <2>2, <1>a DEF Consumed
    <2>5. QED
      BY <2>3, <2>4, <1>0
  <1>4. QED
    BY <1>1, <1>3, <1>a DEF Tracked

LEMMA LineInvImplies ==
    ASSUME BaseInv, FrameLineInv
    PROVE  Resynchronises /\ BspRestarts /\ Faithful
  <1>0. FramesInv /\ Faithful
    BY DEF FrameLineInv
  <1>1. Resynchronises
    <2>1. SUFFICES ASSUME proto # "bsp", NEW f \in 1 .. Len(sent), Consumed(f), f \notin damaged
                   PROVE  Delivered(f) \/ (f \in eaten /\ f - 1 \in damaged)
      BY DEF Resynchronises
    <2>2. Done(f)
      BY <1>0, <2>1, ConsumedIsDone
    <2>3. QED
      BY <2>1, <2>2 DEF Done, Lost
  <1>2. BspRestarts
    <2>1. SUFFICES ASSUME proto = "bsp",
                          NEW f \in quiet \cup {g \in 2 .. Len(sent) : g - 1 \in quiet \ damaged
                                                      /\ Len(sent[g - 1]) < HdrSz + MaxLen},
                          Consumed(f), f \notin damaged, Len(sent[f]) < HdrSz + MaxLen
                   PROVE  Delivered(f)
      BY DEF BspRestarts
    <2>2. f \in 1 .. Len(sent)
      BY <2>1 DEF Consumed
    <2>3. Done(f)
      BY <1>0, <2>1, <2>2, ConsumedIsDone
    <2>4. InPlace(f)
      BY <2>1 DEF InPlace
    <2>5. QED
      BY <2>1, <2>3, <2>4 DEF Done
  <1>3. QED
    BY <1>0, <1>1, <1>2

\* The inductive invariant: at every moment each frame that no byte was lost of
\* is partly read, in its place, and partly on the line, and the receiver holds
\* of its message exactly what was read of it.
THEOREM FramesInvariance ==
    FramingSpec => [](BaseInv /\ FrameLineInv)
  <1>1. FramingInit => BaseInv /\ FrameLineInv
    BY BaseInitially, LineInitially
  <1>2. (BaseInv /\ FrameLineInv) /\ [FramingNext]_framevars => (BaseInv /\ FrameLineInv)'
    BY StepKeepsBase, StepKeepsLine
  <1>3. QED
    BY <1>1, <1>2, PTL DEF FramingSpec

\* Resynchronises holds for every message and any number of faults: whatever was
\* lost or garbled before, msg_serial_recv and msg_tcp_recv receive every frame
\* that arrives whole as it was sent, but for one whose mark was the byte too
\* much of the damaged frame before it.
THEOREM ReceiverResynchronises ==
    FramingSpec => []Resynchronises
  BY FramesInvariance, LineInvImplies, PTL

\* BspRestarts holds for every message and any number of faults: a whole frame
\* shorter than BSP_MSGSZ that bsp_send hands to an idle line and a waiting
\* bsp_recv is received as it was sent, and so is the one behind it.
THEOREM BspReceiverRestarts ==
    FramingSpec => []BspRestarts
  BY FramesInvariance, LineInvImplies, PTL

\* Faithful holds for every message and any number of faults: a message that
\* ends with a byte of an undamaged frame is that frame's, unescaped, comes
\* behind those of earlier frames and comes once.
THEOREM MessagesAreFaithful ==
    FramingSpec => []Faithful
  BY FramesInvariance, LineInvImplies, PTL

-----------------------------------------------------------------------------
(* A garbled byte.                                                         *)

LEMMA Period ==
    ASSUME NEW a \in Nat
    PROVE  (a + ByteMod) % ByteMod = a % ByteMod
  <1>a. PICK M : M = ByteMod
    OBVIOUS
  <1>0. M \in Nat /\ M > 0
    BY <1>a, ByteFacts DEF Byte
  <1>1. PICK q, r : q \in Int /\ r \in 0 .. M - 1 /\ a = M * q + r /\ r = a % M
    BY <1>0, Divided
  <1>b. PICK c, g, y : c = a + M /\ g = q + 1 /\ y = M * q
    OBVIOUS
  <1>2. c \in Nat /\ g \in Int /\ y \in Int /\ r \in Int
    <2>1. q \in Int /\ r \in 0 .. M - 1
      BY <1>1
    <2>2. M * q \in Int
      BY <2>1, <1>0
    <2>3. QED
      BY <2>1, <2>2, <1>0, <1>b
  <1>3. M * g = y + M
    BY <1>0, <1>1, <1>b
  <1>4. a = y + r
    BY <1>1, <1>b
  <1>5. c = M * g + r
    BY <1>0, <1>2, <1>3, <1>4, <1>b
  <1>6. c % M = r
    BY <1>0, <1>1, <1>2, <1>5, RestIs
  <1>7. QED
    BY <1>1, <1>6, <1>a, <1>b

\* b in the place of y moves the sum by this much,
Shift(y, b) == (b + ByteMod) - y

LEMMA ShiftIs ==
    ASSUME NEW y \in Byte, NEW b \in Byte
    PROVE  /\ Shift(y, b) \in Nat /\ Shift(y, b) > 0 /\ Shift(y, b) < 2 * ByteMod
           /\ y # b => Shift(y, b) # ByteMod
           /\ ByteMod \in Nat /\ ByteMod > 0 /\ y \in Nat /\ b \in Nat
  <1>1. y \in Nat /\ y < ByteMod /\ b \in Nat /\ b < ByteMod /\ ByteMod \in Nat
    BY ByteIsNat, ByteFacts DEF Byte
  <1>2. QED
    BY <1>1 DEF Shift

LEMMA Shifted ==
    ASSUME NEW u \in Nat, NEW y \in Byte, NEW b \in Byte
    PROVE  (((u + y) % ByteMod) + Shift(y, b)) % ByteMod = (u + b) % ByteMod
  <1>a. PICK d, c, e : d = Shift(y, b) /\ c = u + y /\ e = u + b
    OBVIOUS
  <1>1. d \in Nat /\ c \in Nat /\ e \in Nat /\ y \in Nat /\ b \in Nat /\ ByteMod \in Nat
    BY <1>a, ShiftIs
  <1>2. ((c % ByteMod) + d) % ByteMod = (c + d) % ByteMod
    BY <1>1, ModAdd
  <1>3. c + d = e + ByteMod
    BY <1>1, <1>a DEF Shift
  <1>4. (e + ByteMod) % ByteMod = e % ByteMod
    BY <1>1, Period
  <1>5. QED
    BY <1>2, <1>3, <1>4, <1>a

\* which is seen.
LEMMA Differs ==
    ASSUME NEW u \in Byte, NEW y \in Byte, NEW b \in Byte, b # y
    PROVE  (u + Shift(y, b)) % ByteMod # u
  <1>a. PICK M, d, c : M = ByteMod /\ d = Shift(y, b) /\ c = u + d
    OBVIOUS
  <1>1. /\ M \in Nat /\ M > 0 /\ d \in Nat /\ d > 0 /\ d < 2 * M /\ d # M /\ u \in Nat /\ u < M
    BY <1>a, ShiftIs, ByteIsNat
  <1>2. c \in Nat
    BY <1>1, <1>a
  <1>3. CASE c < M
    <2>1. c \in 0 .. M - 1 /\ c = M * 0 + c /\ 0 \in Int
      BY <1>1, <1>2, <1>3
    <2>2. c % M = c
      BY <2>1, <1>1, <1>2, RestIs
    <2>3. QED
      BY <2>2, <1>1, <1>a
  <1>4. CASE c >= M /\ c < 2 * M
    <2>a. PICK r : r = c - M
      OBVIOUS
    <2>1. r \in 0 .. M - 1 /\ c = M * 1 + r /\ 1 \in Int
      BY <1>1, <1>2, <1>4, <2>a
    <2>2. c % M = r
      BY <2>1, <1>1, <1>2, RestIs
    <2>3. r # u
      BY <1>1, <1>a, <2>a
    <2>4. QED
      BY <2>2, <2>3, <1>a
  <1>5. CASE c >= 2 * M
    <2>a. PICK r : r = c - 2 * M
      OBVIOUS
    <2>1. r \in 0 .. M - 1 /\ c = M * 2 + r /\ 2 \in Int
      BY <1>1, <1>2, <1>5, <1>a, <2>a
    <2>2. c % M = r
      BY <2>1, <1>1, <1>2, RestIs
    <2>3. r # u
      BY <1>1, <1>a, <2>a
    <2>4. QED
      BY <2>2, <2>3, <1>a
  <1>6. QED
    BY <1>1, <1>2, <1>3, <1>4, <1>5

LEMMA BspOrder ==
    ASSUME NEW m \in Seq(Byte), NEW F, NEW off, BspLaid(F, m, off),
           NEW a \in 0 .. Len(m), NEW e \in 0 .. Len(m), a <= e
    PROVE  off[a] \in Nat /\ off[e] \in Nat /\ off[a] <= off[e]
  <1>a. PICK N, o : N = Len(m) /\ o = [k \in 0 .. e |-> off[k]]
    OBVIOUS
  <1>0. N \in Nat /\ off \in [0 .. N -> Nat] /\ e \in 0 .. N /\ a \in 0 .. N /\ e \in Nat
    BY <1>a, LenProperties DEF BspLaid
  <1>1. ASSUME NEW k \in 1 .. e PROVE o[k] > o[k - 1]
    <2>1. k - 1 \in 0 .. N /\ k \in 1 .. N /\ k \in 0 .. e /\ k - 1 \in 0 .. e
      BY <1>0
    <2>2. off[k] = off[k - 1] + BspWidth(Hard(m, k)) /\ off[k - 1] \in Nat
      BY <2>1, <1>0, <1>a DEF BspLaid
    <2>3. BspWidth(Hard(m, k)) \in {1, 2}
      BY DEF BspWidth
    <2>4. o[k] = off[k] /\ o[k - 1] = off[k - 1]
      BY <2>1, <1>a
    <2>5. QED
      BY <2>2, <2>3, <2>4
  <1>b. a \in 0 .. e /\ e \in 0 .. e /\ \A k \in 0 .. e : k \in 0 .. N
    BY <1>0
  <1>2. o \in [0 .. e -> Nat] /\ a \in 0 .. e /\ o[a] = off[a] /\ o[e] = off[e]
    BY <1>0, <1>a, <1>b
  <1>3. a < e => o[a] < o[e]
    BY <1>0, <1>1, <1>2, Grows
  <1>4. off[a] \in Nat /\ off[e] \in Nat
    BY <1>0
  <1>5. CASE a < e
    BY <1>2, <1>3, <1>4, <1>5
  <1>6. CASE a = e
    BY <1>4, <1>6
  <1>7. QED
    BY <1>0, <1>4, <1>5, <1>6

\* Every byte of a frame but its end is of a byte of the message.
LEMMA ByteOfFrame ==
    ASSUME NEW m \in Seq(Byte), NEW F, NEW off, BspLaid(F, m, off), NEW i \in 1 .. Len(F) - 1
    PROVE  \E j \in 1 .. Len(m) : off[j - 1] + 1 = i \/ (Hard(m, j) /\ off[j - 1] + 2 = i)
  <1>a. PICK N : N = Len(m)
    OBVIOUS
  <1>0. /\ N \in Nat /\ off \in [0 .. N -> Nat] /\ Len(F) = off[N] + 1 /\ off[0] = 0
        /\ off[N] \in Nat /\ i \in 1 .. off[N] /\ i \in Nat
    <2>1. N \in Nat /\ off \in [0 .. N -> Nat] /\ Len(F) = off[N] + 1 /\ off[0] = 0
      BY <1>a, LenProperties DEF BspLaid
    <2>2. off[N] \in Nat
      BY <2>1
    <2>3. QED
      BY <2>1, <2>2
  <1>b. PICK T : T = {k \in Nat : k <= N /\ off[k] >= i}
    OBVIOUS
  <1>1. N \in T /\ T \in SUBSET Nat
    BY <1>0, <1>b
  <1>2. PICK j \in T : \A y \in T : j <= y
    BY <1>1, Least
  <1>3. j \in Nat /\ j <= N /\ off[j] >= i
    BY <1>2, <1>b
  <1>4. j # 0
    BY <1>0, <1>3
  <1>c. PICK h, u, v : h = j - 1 /\ u = off[h] /\ v = off[j]
    OBVIOUS
  <1>5. j \in 1 .. N /\ h \in Nat /\ h \in 0 .. N /\ j \in 0 .. N /\ h \notin T
    BY <1>0, <1>2, <1>3, <1>4, <1>c
  <1>6. u \in Nat /\ v \in Nat /\ u < i /\ v >= i
    BY <1>0, <1>3, <1>5, <1>b, <1>c
  <1>7. v = u + BspWidth(Hard(m, j))
    BY <1>5, <1>a, <1>c DEF BspLaid
  <1>8. CASE Hard(m, j)
    <2>1. v = u + 2
      BY <1>7, <1>8 DEF BspWidth
    <2>2. u + 1 = i \/ u + 2 = i
      BY <2>1, <1>0, <1>6
    <2>3. QED
      BY <2>2, <1>5, <1>8, <1>a, <1>c
  <1>9. CASE ~Hard(m, j)
    <2>1. v = u + 1
      BY <1>7, <1>9 DEF BspWidth
    <2>2. u + 1 = i
      BY <2>1, <1>0, <1>6
    <2>3. QED
      BY <2>2, <1>5, <1>a, <1>c
  <1>10. QED
    BY <1>8, <1>9

Substituted(q, i, b) == [q EXCEPT ![i] = b]

LEMMA Replaced ==
    ASSUME NEW m \in Seq(Byte), NEW j \in 1 .. Len(m), NEW b \in Byte
    PROVE  /\ Substituted(m, j, b) \in Seq(Byte) /\ Len(Substituted(m, j, b)) = Len(m)
           /\ Substituted(m, j, b)[j] = b
           /\ \A k \in 1 .. Len(m) : k # j => Substituted(m, j, b)[k] = m[k]
  <1>a. PICK x : x = [m EXCEPT ![j] = b]
    OBVIOUS
  <1>0. Len(m) \in Nat /\ DOMAIN m = 1 .. Len(m)
    BY LenProperties
  <1>1. x \in Seq(Byte) /\ Len(x) = Len(m)
    BY <1>a, ExceptSeq
  <1>2. x[j] = b /\ \A k \in 1 .. Len(m) : k # j => x[k] = m[k]
    BY <1>0, <1>a
  <1>3. x = Substituted(m, j, b)
    BY <1>a DEF Substituted
  <1>4. QED
    BY <1>1, <1>2, <1>3

\* With b in the place of a byte that is not escaped, the frame is that of
\* another message.
LEMMA GarbledLaid ==
    ASSUME NEW m \in Seq(Byte), NEW F, NEW off, BspLaid(F, m, off), NEW j \in 1 .. Len(m), ~Hard(m, j),
           NEW b \in Byte, j > HdrSz => ~Special(b), NEW i, i = off[j - 1] + 1,
           NEW G, G = Substituted(F, i, b), NEW x, x = Substituted(m, j, b)
    PROVE  BspLaid(G, x, off) /\ x \in Seq(Byte) /\ Len(x) = Len(m)
           /\ i \in 1 .. Len(F) /\ F[i] = m[j] /\ Len(G) = Len(F) /\ G[i] = b
           /\ \A k \in 1 .. Len(F) : k # i => G[k] = F[k]
  <1>a. PICK N, K, h, u : N = Len(m) /\ K = Len(F) /\ h = j - 1 /\ u = off[h]
    OBVIOUS
  <1>0. /\ N \in Nat /\ off \in [0 .. N -> Nat] /\ off[0] = 0 /\ F \in Seq(Byte) /\ K = off[N] + 1 /\ F[K] = BSP_ENDCHAR
        /\ K \in Nat
        /\ \A k \in 1 .. N : /\ off[k] = off[k - 1] + BspWidth(Hard(m, k))
                             /\ BspByteAt(F, off[k - 1], m[k], Hard(m, k))
    BY <1>a, LenProperties DEF BspLaid
  <1>1. h \in 0 .. N /\ j \in 0 .. N /\ j \in 1 .. N /\ N \in 0 .. N
    BY <1>0, <1>a
  <1>2. u \in Nat /\ off[j] = i /\ i = u + 1 /\ F[i] = m[j]
    <2>1. off[j] = u + 1
      BY <1>0, <1>1, <1>a DEF BspWidth
    <2>2. BspByteAt(F, u, m[j], Hard(m, j))
      BY <1>0, <1>1, <1>a
    <2>3. QED
      BY <2>1, <2>2, <1>0, <1>1, <1>a DEF BspByteAt
  <1>3. i <= off[N] /\ off[N] \in Nat
    BY <1>1, <1>2, <1>a, BspOrder
  <1>4. i \in 1 .. K /\ i # K
    <2>1. K = off[N] + 1 /\ i = u + 1 /\ u \in Nat /\ off[N] \in Nat /\ i <= off[N]
      BY <1>0, <1>2, <1>3
    <2>a. PICK e : e = off[N]
      OBVIOUS
    <2>2. K = e + 1 /\ i = u + 1 /\ u \in Nat /\ e \in Nat /\ i <= e
      BY <2>1, <2>a
    <2>3. QED
      BY <2>2
  <1>5. /\ x \in Seq(Byte) /\ Len(x) = N /\ x[j] = b
        /\ \A k \in 1 .. N : k # j => x[k] = m[k]
    <2>1. /\ x \in Seq(Byte) /\ Len(x) = Len(m) /\ x[j] = b
          /\ \A k \in 1 .. Len(m) : k # j => x[k] = m[k]
      BY Replaced
    <2>2. QED
      BY <2>1, <1>a
  <1>6. /\ G \in Seq(Byte) /\ Len(G) = K /\ G[i] = b
        /\ \A k \in 1 .. K : k # i => G[k] = F[k]
    <2>1. F \in Seq(Byte) /\ i \in 1 .. Len(F)
      BY <1>0, <1>4, <1>a
    <2>2. /\ G \in Seq(Byte) /\ Len(G) = Len(F) /\ G[i] = b
          /\ \A k \in 1 .. Len(F) : k # i => G[k] = F[k]
      BY <2>1, Replaced
    <2>3. QED
      BY <2>2, <1>a
  <1>7. ASSUME NEW k \in 1 .. N
        PROVE  /\ off[k] = off[k - 1] + BspWidth(Hard(x, k))
               /\ BspByteAt(G, off[k - 1], x[k], Hard(x, k))
    <2>a. PICK g, v, w : g = k - 1 /\ v = off[g] /\ w = off[k]
      OBVIOUS
    <2>1. g \in 0 .. N /\ k \in 0 .. N
      BY <1>0, <2>a
    <2>2. v \in Nat /\ w \in Nat /\ w <= off[N]
      <3>1. k <= N /\ k \in 0 .. Len(m) /\ N \in 0 .. Len(m)
        BY <2>1, <1>0, <1>1, <1>a
      <3>2. w \in Nat /\ w <= off[N]
        BY <3>1, <2>a, BspOrder
      <3>3. v \in Nat
        BY <2>1, <1>0, <2>a
      <3>4. QED
        BY <3>2, <3>3
    <2>3. w = v + BspWidth(Hard(m, k)) /\ BspByteAt(F, v, m[k], Hard(m, k))
      BY <1>0, <2>a
    <2>4. CASE k = j
      <3>1. ~Hard(x, k)
        BY <2>4, <1>5 DEF Hard
      <3>2. v = u
        BY <2>4, <1>a, <2>a
      <3>3. G[v + 1] = x[k]
        BY <3>2, <2>4, <1>2, <1>5, <1>6
      <3>4. w = v + 1
        BY <2>4, <3>2, <1>2, <2>a
      <3>5. QED
        BY <3>1, <3>3, <3>4, <2>a DEF BspWidth, BspByteAt
    <2>5. CASE k # j
      <3>1. x[k] = m[k]
        BY <2>5, <1>5
      <3>2. Hard(x, k) <=> Hard(m, k)
        BY <3>1 DEF Hard
      <3>3. ASSUME NEW l \in Nat, l > v, l <= w PROVE G[l] = F[l]
        <4>1. l \in 1 .. K
          BY <3>3, <2>2, <1>0, <1>3
        <4>2. CASE k < j
          <5>1. k <= h /\ k \in 0 .. N /\ h \in 0 .. N
            BY <4>2, <1>1, <2>1, <1>a
          <5>2. w <= u
            BY <5>1, <1>a, <2>a, BspOrder
          <5>3. l # i
            BY <5>2, <3>3, <1>2, <2>2
          <5>4. QED
            BY <4>1, <5>3, <1>6
        <4>3. CASE k > j
          <5>1. j <= g
            BY <4>3, <1>1, <2>1, <2>a
          <5>2. i <= v
            BY <5>1, <1>1, <2>1, <1>2, <2>a, <1>a, BspOrder
          <5>3. l # i
            BY <5>2, <3>3, <1>2, <2>2
          <5>4. QED
            BY <4>1, <5>3, <1>6
        <4>4. QED
          BY <4>2, <4>3, <2>5, <1>1, <2>1
      <3>4. CASE Hard(m, k)
        <4>1. w = v + 2
          BY <3>4, <2>3 DEF BspWidth
        <4>2. G[v + 1] = F[v + 1] /\ G[v + 2] = F[v + 2]
          <5>1. v + 1 \in Nat /\ v + 1 > v /\ v + 1 <= w /\ v + 2 \in Nat /\ v + 2 > v /\ v + 2 <= w
            BY <4>1, <2>2
          <5>2. QED
            BY <5>1, <3>3
        <4>3. BspByteAt(G, v, x[k], Hard(x, k))
          BY <4>2, <3>1, <3>2, <3>4, <2>3 DEF BspByteAt
        <4>4. QED
          BY <4>3, <3>2, <2>3, <2>a DEF BspWidth
      <3>5. CASE ~Hard(m, k)
        <4>1. w = v + 1
          BY <3>5, <2>3 DEF BspWidth
        <4>2. G[v + 1] = F[v + 1]
          <5>1. v + 1 \in Nat /\ v + 1 > v /\ v + 1 <= w
            BY <4>1, <2>2
          <5>2. QED
            BY <5>1, <3>3
        <4>3. BspByteAt(G, v, x[k], Hard(x, k))
          BY <4>2, <3>1, <3>2, <3>5, <2>3 DEF BspByteAt
        <4>4. QED
          BY <4>3, <3>2, <2>3, <2>a DEF BspWidth
      <3>6. QED
        BY <3>4, <3>5
    <2>6. QED
      BY <2>4, <2>5
  <1>8. G[K] = BSP_ENDCHAR
    <2>1. K \in 1 .. K
      BY <1>0, <1>4
    <2>2. G[K] = F[K]
      BY <2>1, <1>4, <1>6
    <2>3. QED
      BY <2>2, <1>0
  <1>9. BspLaid(G, x, off)
    BY <1>0, <1>5, <1>6, <1>7, <1>8 DEF BspLaid
  <1>10. QED
    BY <1>2, <1>4, <1>5, <1>6, <1>9, <1>a

LEMMA ShiftedStep ==
    ASSUME NEW u \in Byte, NEW a \in Nat, NEW d \in Nat
    PROVE  (((u + a) % ByteMod) + d) % ByteMod = (((u + d) % ByteMod) + a) % ByteMod
  <1>a. PICK e, g : e = u + a /\ g = u + d
    OBVIOUS
  <1>1. e \in Nat /\ g \in Nat /\ u \in Nat
    BY <1>a, ByteIsNat
  <1>2. ((e % ByteMod) + d) % ByteMod = (e + d) % ByteMod
    BY <1>1, ModAdd
  <1>3. ((g % ByteMod) + a) % ByteMod = (g + a) % ByteMod
    BY <1>1, ModAdd
  <1>4. e + d = g + a
    BY <1>1, <1>a
  <1>5. QED
    BY <1>2, <1>3, <1>4, <1>a

LEMMA AddsIs ==
    ASSUME NEW b \in Byte
    PROVE  Adds(b) \in Nat
  BY ByteIsNat DEF Adds

\* Its checksum is another one.
LEMMA GarbledSums ==
    ASSUME NEW m \in Seq(Byte), Len(m) >= 2, NEW s, Totalled(m, s), Matches(m, s),
           NEW j \in 1 .. Len(m), ~Hard(m, j), NEW b \in Byte, b # m[j], j > HdrSz => ~Special(b),
           NEW x, x = Substituted(m, j, b)
    PROVE  \E q : Totalled(x, q) /\ ~Matches(x, q)
  <1>a. PICK N, y, d : N = Len(m) /\ y = m[j] /\ d = Shift(y, b)
    OBVIOUS
  <1>0. /\ N \in Nat /\ N >= 2 /\ y \in Byte /\ j \in 1 .. N
        /\ s \in [2 .. N -> Byte] /\ s[2] = m[1] /\ m[2] = s[N]
        /\ \A k \in 3 .. N : s[k] = (s[k - 1] + Adds(m[k])) % ByteMod
    <2>1. N \in Nat /\ N >= 2 /\ y \in Byte /\ j \in 1 .. N
      BY <1>a, LenProperties, ElementOfSeq
    <2>2. QED
      BY <2>1, <1>a DEF Totalled, Matches
  <1>1. d \in Nat /\ y \in Nat /\ b \in Nat
    BY <1>0, <1>a, ShiftIs
  <1>2. /\ x \in Seq(Byte) /\ Len(x) = N /\ x[j] = b
        /\ \A k \in 1 .. N : k # j => x[k] = m[k]
    <2>1. /\ x \in Seq(Byte) /\ Len(x) = Len(m) /\ x[j] = b
          /\ \A k \in 1 .. Len(m) : k # j => x[k] = m[k]
      BY Replaced
    <2>2. QED
      BY <2>1, <1>a
  <1>3. 1 \in 1 .. N /\ 2 \in 1 .. N /\ N \in 2 .. N /\ 2 \in 2 .. N
    BY <1>0
  <1>4. CASE j = 2
    <2>1. x[1] = m[1] /\ x[2] = b /\ \A k \in 3 .. N : x[k] = m[k]
      BY <1>0, <1>2, <1>3, <1>4
    <2>2. Totalled(x, s)
      BY <2>1, <1>0, <1>2 DEF Totalled
    <2>3. ~Matches(x, s)
      BY <2>1, <1>0, <1>2, <1>4, <1>a DEF Matches
    <2>4. QED
      BY <2>2, <2>3
  <1>5. CASE j # 2
    <2>a. PICK q : q = [k \in 2 .. N |-> IF k < j THEN s[k] ELSE (s[k] + d) % ByteMod]
      OBVIOUS
    <2>1. q \in [2 .. N -> Byte]
      <3>1. ASSUME NEW k \in 2 .. N PROVE s[k] \in Byte /\ (s[k] + d) % ByteMod \in Byte
        <4>1. s[k] \in Byte /\ s[k] \in Nat
          BY <1>0, ByteIsNat
        <4>2. s[k] + d \in Nat
          BY <4>1, <1>1
        <4>3. QED
          BY <4>1, <4>2, Remainder
      <3>2. QED
        BY <3>1, <2>a
    <2>2. q[2] = x[1]
      <3>1. CASE j = 1
        <4>1. q[2] = (s[2] + d) % ByteMod
          BY <3>1, <1>3, <2>a
        <4>2. s[2] = y /\ x[1] = b
          BY <3>1, <1>0, <1>2, <1>a
        <4>3. y + d = b + ByteMod
          <5>1. ByteMod \in Nat
            BY <1>0, ShiftIs
          <5>2. d = (b + ByteMod) - y
            BY <1>a DEF Shift
          <5>3. QED
            BY <5>1, <5>2, <1>1
        <4>4. (b + ByteMod) % ByteMod = b % ByteMod /\ b % ByteMod = b
          BY <1>1, Period, ByteRest
        <4>5. QED
          BY <4>1, <4>2, <4>3, <4>4
      <3>2. CASE j > 2
        <4>1. q[2] = s[2]
          BY <3>2, <1>3, <2>a
        <4>2. x[1] = m[1]
          BY <3>2, <1>2, <1>3
        <4>3. QED
          BY <4>1, <4>2, <1>0
      <3>3. QED
        BY <3>1, <3>2, <1>0, <1>5
    <2>3. ASSUME NEW k \in 3 .. N PROVE q[k] = (q[k - 1] + Adds(x[k])) % ByteMod
      <3>a. PICK h, u, v, a : h = k - 1 /\ u = s[h] /\ v = s[k] /\ a = Adds(m[k])
        OBVIOUS
      <3>1. h \in 2 .. N /\ k \in 2 .. N /\ k \in 1 .. N
        BY <1>0, <3>a
      <3>2. u \in Byte /\ u \in Nat /\ v = (u + a) % ByteMod /\ a \in Nat
        <4>1. u \in Byte
          BY <3>1, <1>0, <3>a
        <4>2. m[k] \in Byte
          BY <3>1, <1>a, ElementOfSeq
        <4>3. QED
          BY <4>1, <4>2, <1>0, <3>a, ByteIsNat, AddsIs
      <3>3. /\ q[k] = (IF k < j THEN v ELSE (v + d) % ByteMod)
            /\ q[h] = (IF h < j THEN u ELSE (u + d) % ByteMod)
        BY <3>1, <2>a, <3>a
      <3>4. CASE k < j
        <4>1. q[k] = v /\ q[h] = u
          BY <3>1, <3>3, <3>4, <3>a, <1>0
        <4>2. x[k] = m[k]
          BY <3>1, <3>4, <1>2
        <4>3. QED
          BY <4>1, <4>2, <3>2, <3>a
      <3>5. CASE k = j
        <4>1. q[k] = (v + d) % ByteMod /\ q[h] = u
          BY <3>1, <3>3, <3>5, <3>a, <1>0
        <4>2. Adds(x[k]) = b /\ a = y
          <5>1. j > HdrSz
            BY <3>5 DEF HdrSz
          <5>2. ~Special(b) /\ ~Special(y)
            BY <5>1, <1>a DEF Hard
          <5>3. QED
            BY <5>2, <3>5, <1>2, <1>a, <3>a DEF Adds
        <4>3. (((u + y) % ByteMod) + d) % ByteMod = (u + b) % ByteMod
          BY <3>2, <1>0, <1>a, Shifted
        <4>4. QED
          BY <4>1, <4>2, <4>3, <3>2, <3>a
      <3>6. CASE k > j
        <4>1. q[k] = (v + d) % ByteMod /\ q[h] = (u + d) % ByteMod
          BY <3>1, <3>3, <3>6, <3>a, <1>0
        <4>2. x[k] = m[k]
          BY <3>1, <3>6, <1>2
        <4>3. (((u + a) % ByteMod) + d) % ByteMod = (((u + d) % ByteMod) + a) % ByteMod
          BY <3>2, <1>1, ShiftedStep
        <4>4. QED
          BY <4>1, <4>2, <4>3, <3>2, <3>a
      <3>7. QED
        BY <3>4, <3>5, <3>6, <1>0, <3>1
    <2>4. Totalled(x, q)
      BY <2>1, <2>2, <2>3, <1>2 DEF Totalled
    <2>5. x[2] = s[N]
      BY <1>0, <1>2, <1>3, <1>5
    <2>6. q[N] = (s[N] + d) % ByteMod
      BY <1>0, <1>3, <2>a
    <2>7. s[N] \in Byte
      BY <1>0, <1>3
    <2>8. (s[N] + d) % ByteMod # s[N]
      BY <2>7, <1>0, <1>a, Differs
    <2>9. ~Matches(x, q)
      BY <2>5, <2>6, <2>8, <1>2 DEF Matches
    <2>10. QED
      BY <2>4, <2>9
  <1>6. QED
    BY <1>4, <1>5

-----------------------------------------------------------------------------
(* Frames with one garbled byte.                                           *)

\* f's frame has become that of the message m, whose checksum does not match; r
\* bytes of it are read.
Spoilt(f, F, m, off, s, r) ==
    /\ m \in Seq(Byte) /\ Sized(m) /\ BspLaid(F, m, off) /\ Totalled(m, s) /\ ~Matches(m, s)
    /\ Placed(f, F, 0, r)
    /\ r = 0 => Idle
    /\ 0 < r /\ r < Len(F) => BspAt(F, m, r, off, s)
    /\ Unread(f)

SpoiltInv ==
    /\ visible \subseteq 1 .. Len(sent)
    /\ \A f \in visible \cap quiet : proto = "bsp" /\ \E F, m, off, s, r : Spoilt(f, F, m, off, s, r)

\* b takes the place of the byte at i, and nothing else happened to its frame.
Spoils(i, b) ==
    /\ Garbled(i) /\ proto = "bsp" /\ line[i].f \notin damaged /\ Plain(i, b)
    /\ b \in Byte /\ b # line[i].b /\ line'[i] = [b |-> b, f |-> line[i].f]

LEMMA SpoiltLength ==
    ASSUME NEW m \in Seq(Byte), Sized(m), NEW F, NEW off, BspLaid(F, m, off)
    PROVE  Len(F) \in Nat /\ Len(F) > 1
  <1>1. Len(m) \in Nat /\ Len(m) >= 2 /\ 0 \in 0 .. Len(m) /\ 1 \in 0 .. Len(m) /\ 1 \in 1 .. Len(m)
    BY LenProperties, ByteFacts DEF Sized, HdrSz
  <1>2. Len(F) \in Nat /\ off[1] < Len(F) /\ off[1] \in Nat
    BY <1>1, BspGrows
  <1>3. off[1] = 1
    <2>1. ~Hard(m, 1) /\ off[0] = 0 /\ 1 - 1 = 0
      BY DEF Hard, HdrSz, BspLaid
    <2>2. off[1] = off[1 - 1] + BspWidth(Hard(m, 1))
      BY <1>1 DEF BspLaid
    <2>3. QED
      BY <2>1, <2>2 DEF BspWidth
  <1>4. QED
    BY <1>2, <1>3

\* A byte is read.
LEMMA ReadSpoilt ==
    ASSUME BaseInv, NEW c, Reads(c), proto = "bsp", NEW f \in Nat,
           NEW F, NEW m, NEW off, NEW s, NEW r, Spoilt(f, F, m, off, s, r)
    PROVE  \E t : Spoilt(f, F, m, off, s, t)'
  <1>0. /\ m \in Seq(Byte) /\ Sized(m) /\ BspLaid(F, m, off) /\ Totalled(m, s) /\ ~Matches(m, s)
        /\ Placed(f, F, 0, r) /\ Unread(f)
    BY DEF Spoilt
  <1>a. PICK K, t : K = Len(F) /\ t = r + 1
    OBVIOUS
  <1>1. K \in Nat /\ K > 1
    BY <1>0, <1>a, SpoiltLength
  <1>2. /\ line \in Seq(LineByte) /\ line # <<>> /\ line' = Tail(line) /\ c = line[1] /\ c \in LineByte
        /\ UNCHANGED <<sent, damaged, proto, quiet>> /\ Received(c) /\ BspTakes(c) /\ FramingType
    BY LineIs DEF Reads, BaseInv
  <1>3. /\ r \in Nat /\ r <= K /\ c.f \in Nat
        /\ c.f > f => r = K /\ Placed(f, F, 0, r)'
        /\ c.f = f => r < K /\ c.b = F[r + 1] /\ Placed(f, F, 0, r + 1)'
        /\ ~(c.f < f)
    <2>1. /\ 0 \in Nat /\ r \in Nat /\ r <= Len(F) /\ line[1].f \in Nat
          /\ line[1].f > f => r = Len(F) /\ 0 = 0 /\ Placed(f, F, 0, r)'
          /\ line[1].f = f => 0 = 0 /\ r < Len(F) /\ line[1].b = F[r + 1] /\ Placed(f, F, 0, r + 1)'
          /\ line[1].f < f => 0 >= 1 /\ r = 0 /\ Placed(f, F, 0 - 1, 0)'
      BY <1>0, <1>1, <1>2, <1>a, PlacedRead
    <2>2. QED
      BY <2>1, <1>2, <1>a
  <1>4. CASE c.f > f
    <2>1. Unread(f)'
      BY <1>0, <1>2, <1>3, <1>4, UnreadStays
    <2>2. r # 0 /\ ~(r < K)
      BY <1>1, <1>3, <1>4
    <2>3. Spoilt(f, F, m, off, s, r)'
      BY <2>1, <2>2, <1>0, <1>3, <1>4, <1>a DEF Spoilt
    <2>4. QED
      BY <2>3
  <1>5. CASE c.f = f
    <2>0. t \in Nat /\ t # 0 /\ t <= K
      BY <1>1, <1>3, <1>5, <1>a
    <2>1. /\ got' = got
          /\ t < K => BspAt(F, m, t, off, s)'
      <3>1. CASE r = 0
        <4>1. Idle /\ c.b = F[1]
          BY <3>1, <1>3, <1>5 DEF Spoilt
        <4>2. BspAt(F, m, 1, off, s)' /\ got' = got
          BY <4>1, <1>0, <1>2, BspBegins
        <4>3. t = 1
          BY <3>1, <1>a
        <4>4. QED
          BY <4>2, <4>3
      <3>2. CASE r > 0
        <4>1. BspAt(F, m, r, off, s)
          BY <3>2, <1>3, <1>5, <1>a DEF Spoilt
        <4>2. c.b = F[r + 1] /\ proto' = proto
          BY <1>2, <1>3, <1>5
        <4>3. \/ r + 1 < Len(F) /\ BspAt(F, m, r + 1, off, s)' /\ got' = got
              \/ r + 1 = Len(F) /\ (~Matches(m, s) => got' = got)
          BY <4>1, <4>2, <1>0, <1>2, BspGoes
        <4>4. QED
          BY <4>3, <1>0, <1>1, <1>a, <2>0
      <3>3. QED
        BY <3>1, <3>2, <1>3
    <2>2. Unread(f)'
      BY <2>1, <1>0, <1>2, UnreadStays
    <2>3. Placed(f, F, 0, t)'
      BY <1>3, <1>5, <1>a
    <2>4. Spoilt(f, F, m, off, s, t)'
      BY <2>0, <2>1, <2>2, <2>3, <1>0, <1>a DEF Spoilt
    <2>5. QED
      BY <2>4
  <1>6. QED
    BY <1>3, <1>4, <1>5

\* A step that leaves the receiver and the rest of the frame alone.
LEMMA SpoiltStays ==
    ASSUME UNCHANGED <<state, escfl, buf, fcs, got, proto>>, NEW f,
           NEW F, NEW m, NEW off, NEW s, NEW r, Spoilt(f, F, m, off, s, r), Placed(f, F, 0, r)'
    PROVE  Spoilt(f, F, m, off, s, r)'
  <1>0. /\ m \in Seq(Byte) /\ Sized(m) /\ BspLaid(F, m, off) /\ Totalled(m, s) /\ ~Matches(m, s)
        /\ Unread(f) /\ (r = 0 => Idle)
    BY DEF Spoilt
  <1>1. (r = 0 => Idle') /\ Unread(f)'
    BY <1>0 DEF Idle, Unread
  <1>2. ASSUME 0 < r, r < Len(F) PROVE BspAt(F, m, r, off, s)'
    <2>1. BspAt(F, m, r, off, s)
      BY <1>2 DEF Spoilt
    <2>2. PICK i \in 1 .. Len(m), h \in {0, 1} :
                  /\ r = off[i] + h /\ (h = 1 => i < Len(m) /\ Hard(m, i + 1))
                  /\ BspHolds(m, s, i, h)
      BY <2>1 DEF BspAt
    <2>3. Holds(m, i, h) => Holds(m, i, h)'
      BY DEF Holds
    <2>4. BspHolds(m, s, i, h)'
      BY <2>2, <2>3 DEF BspHolds
    <2>5. QED
      BY <1>0, <2>2, <2>4 DEF BspAt
  <1>3. QED
    BY <1>0, <1>1, <1>2 DEF Spoilt

LEMMA PlacedAdded ==
    ASSUME line \in Seq(LineByte), NEW k, NEW x, NEW X, NEW q, Added(k, x, X, q),
           NEW f \in Nat, f < k, NEW F, Len(F) \in Nat, NEW r, Placed(f, F, 0, r)
    PROVE  Placed(f, F, 0, r)'
  <1>a. PICK N, K, L, e : N = Len(line) /\ K = Len(F) /\ L = line' /\ e = (0 + K) - r
    OBVIOUS
  <1>0. /\ N \in Nat /\ q \in Nat /\ Len(L) = N + q /\ K \in Nat /\ k \in Nat
        /\ \A i \in 1 .. N : L[i] = line[i]
        /\ \A i \in 1 .. q : L[N + i] = [b |-> X[i], f |-> k]
    BY <1>a, LenProperties DEF Added
  <1>1. /\ r \in 0 .. K /\ e <= N /\ e \in Nat
        /\ \A j \in 1 .. N : /\ j <= 0 => line[j].f < f
                             /\ j > 0 /\ j <= e => line[j] = [b |-> F[(r + j) - 0], f |-> f]
                             /\ j > e => line[j].f > f
    <2>1. r \in 0 .. K /\ e <= N
      BY <1>a DEF Placed
    <2>2. \A j \in 1 .. N : /\ j <= 0 => line[j].f < f
                            /\ j > 0 /\ j <= e => line[j] = [b |-> F[(r + j) - 0], f |-> f]
                            /\ j > e => line[j].f > f
      BY <1>a DEF Placed
    <2>3. e \in Nat
      BY <2>1, <1>0, <1>a
    <2>4. QED
      BY <2>1, <2>2, <2>3
  <1>2. ASSUME NEW j \in 1 .. N + q
        PROVE  /\ j <= 0 => L[j].f < f
               /\ j > 0 /\ j <= e => L[j] = [b |-> F[(r + j) - 0], f |-> f]
               /\ j > e => L[j].f > f
    <2>1. CASE j \in 1 .. N
      BY <2>1, <1>0, <1>1
    <2>2. CASE j > N
      <3>a. PICK i : i = j - N
        OBVIOUS
      <3>1. i \in 1 .. q /\ N + i = j
        BY <2>2, <1>0, <3>a
      <3>2. L[j] = [b |-> X[i], f |-> k]
        BY <3>1, <1>0
      <3>3. L[j].f > f
        BY <3>2, <1>0
      <3>4. ~(j <= 0) /\ ~(j <= e)
        BY <2>2, <1>0, <1>1
      <3>5. QED
        BY <3>3, <3>4
    <2>3. QED
      BY <2>1, <2>2, <1>0
  <1>3. e <= N + q /\ 0 \in Nat
    BY <1>0, <1>1
  <1>4. QED
    BY <1>0, <1>1, <1>2, <1>3, <1>a DEF Placed

\* The frame at the head of the line, of which nothing was read.
LEMMA PlainIsFirst ==
    ASSUME BaseInv, FramesInv, NEW i, NEW b, Spoils(i, b), NEW f, f = line[i].f, f \in quiet,
           NEW m, m = sent[f], NEW F, F = Wire(m)
    PROVE  Placed(f, F, 0, 0) /\ Idle /\ Unread(f)
  <1>1. /\ i \in 1 .. Len(line) /\ proto = "bsp" /\ f \notin damaged /\ buf = <<>>
    BY DEF Spoils, Garbled, Faulty, Plain
  <1>2. f \in 1 .. Len(sent)
    BY <1>1 DEF BaseInv, Tags
  <1>3. f \in Nat /\ Len(F) \in Nat /\ Len(F) > 1 /\ m \in Seq(Byte) /\ MessageOk(m)
    BY <1>2, WireFacts
  <1>4. PICK p, r : Tracked(f, F, p, r)
    BY <1>1, <1>2, FrameTracked
  <1>5. p = 0 /\ Placed(f, F, 0, r) /\ InPlace(f)
    BY <1>1, <1>4 DEF Tracked, InPlace
  <1>6. r \in Nat /\ r < Len(F)
    <2>1. r \in 0 .. Len(F) /\ (i > (0 + Len(F)) - r => line[i].f > f)
      BY <1>1, <1>5 DEF Placed
    <2>2. ~(line[i].f > f)
      BY <1>3
    <2>3. ~(i > (0 + Len(F)) - r)
      BY <2>1, <2>2
    <2>4. i \in Nat /\ i >= 1
      BY <1>1
    <2>5. QED
      BY <2>1, <2>3, <2>4, <1>3
  <1>7. Unread(f)
    BY <1>4, <1>6 DEF Tracked
  <1>8. r = 0
    <2>1. SUFFICES ASSUME r > 0 PROVE FALSE
      BY <1>6
    <2>2. BspMid(F, m, r)
      BY <2>1, <1>1, <1>4, <1>5, <1>6 DEF Tracked, Mid
    <2>3. PICK off, s : BspAt(F, m, r, off, s)
      BY <2>2 DEF BspMid
    <2>4. PICK k \in 1 .. Len(m), h \in {0, 1} : BspHolds(m, s, k, h)
      BY <2>3 DEF BspAt
    <2>5. buf = SubSeq(m, 1, k)
      BY <2>4 DEF BspHolds, Holds
    <2>6. k \in 0 .. Len(m) /\ k > 0
      BY <1>3, LenProperties
    <2>7. Len(SubSeq(m, 1, k)) = k
      BY <2>6, <1>3, PrefixFacts
    <2>8. Len(buf) = 0
      BY <1>1, EmptyFacts, Zenon
    <2>9. QED
      BY <2>5, <2>6, <2>7, <2>8
  <1>9. Idle
    BY <1>4, <1>5, <1>8 DEF Tracked
  <1>10. QED
    BY <1>5, <1>7, <1>8, <1>9

\* A byte that the sum covers is one of the message, not escaped.
LEMMA PlainByte ==
    ASSUME NEW m \in Seq(Byte), Sized(m), NEW F, NEW off, BspLaid(F, m, off), NEW i \in 1 .. Len(F), NEW b,
           \/ i <= HdrSz
           \/ /\ ~Special(F[i]) /\ ~Special(b)
              /\ i = HdrSz + 1 \/ F[i - 1] # BSP_ESCCHAR
    PROVE  \E j \in 1 .. Len(m) : ~Hard(m, j) /\ i = off[j - 1] + 1 /\ (j > HdrSz => ~Special(b))
  <1>0. /\ Len(m) \in Nat /\ Len(m) >= 2 /\ Len(F) \in Nat /\ 0 \in 0 .. Len(m) /\ 1 \in 1 .. Len(m) /\ 2 \in 1 .. Len(m)
        /\ 1 \in 0 .. Len(m) /\ 2 \in 0 .. Len(m)
    BY LenProperties, ByteFacts, SpoiltLength DEF Sized, HdrSz
  <1>1. ~Hard(m, 1) /\ ~Hard(m, 2) /\ off[0] = 0 /\ off[1] = 1 /\ off[2] = 2
    <2>1. ~Hard(m, 1) /\ ~Hard(m, 2) /\ off[0] = 0 /\ 1 - 1 = 0 /\ 2 - 1 = 1
      BY DEF Hard, HdrSz, BspLaid
    <2>2. off[1] = off[1 - 1] + BspWidth(Hard(m, 1)) /\ off[2] = off[2 - 1] + BspWidth(Hard(m, 2))
      BY <1>0 DEF BspLaid
    <2>3. QED
      BY <2>1, <2>2 DEF BspWidth
  <1>2. CASE i <= HdrSz
    <2>1. i = 1 \/ i = 2
      BY <1>2, <1>0 DEF HdrSz
    <2>2. CASE i = 1
      BY <2>2, <1>0, <1>1 DEF HdrSz
    <2>3. CASE i = 2
      BY <2>3, <1>0, <1>1 DEF HdrSz
    <2>4. QED
      BY <2>1, <2>2, <2>3
  <1>3. CASE ~Special(F[i]) /\ ~Special(b) /\ (i = HdrSz + 1 \/ F[i - 1] # BSP_ESCCHAR)
    <2>1. i # Len(F)
      BY <1>3 DEF BspLaid, Special
    <2>2. i \in 1 .. Len(F) - 1
      BY <2>1, <1>0
    <2>3. PICK j \in 1 .. Len(m) : off[j - 1] + 1 = i \/ (Hard(m, j) /\ off[j - 1] + 2 = i)
      BY <2>2, ByteOfFrame
    <2>a. PICK h, u : h = j - 1 /\ u = off[h]
      OBVIOUS
    <2>4. h \in 0 .. Len(m) /\ u \in Nat
      <3>1. h \in 0 .. Len(m)
        BY <1>0, <2>a
      <3>2. QED
        BY <3>1, <2>a, BspGrows
    <2>5. BspByteAt(F, u, m[j], Hard(m, j))
      BY <2>a DEF BspLaid
    <2>6. ~Hard(m, j)
      <3>1. SUFFICES ASSUME Hard(m, j) PROVE FALSE
        OBVIOUS
      <3>2. F[u + 1] = BSP_ESCCHAR
        BY <3>1, <2>5 DEF BspByteAt
      <3>3. CASE u + 1 = i
        BY <3>2, <3>3, <1>3 DEF Special
      <3>4. CASE u + 2 = i
        <4>1. i - 1 = u + 1
          BY <3>4, <2>4
        <4>2. 2 <= h
          BY <3>1, <1>0, <2>a DEF Hard, HdrSz
        <4>3. u >= 2
          BY <4>2, <2>4, <1>0, <1>1, <2>a, BspOrder
        <4>4. i # HdrSz + 1
          BY <4>3, <3>4, <2>4 DEF HdrSz
        <4>5. QED
          BY <4>1, <4>4, <3>2, <1>3
      <3>5. QED
        BY <3>3, <3>4, <2>3, <2>a
    <2>7. i = off[j - 1] + 1
      BY <2>3, <2>6
    <2>8. QED
      BY <2>6, <2>7, <1>3
  <1>4. QED
    BY <1>2, <1>3

\* A single garbled byte that the sum covers spoils its frame.
LEMMA GarbleSpoils ==
    ASSUME BaseInv, FramesInv, NEW i, NEW b, Spoils(i, b), NEW f, f = line[i].f, f \in quiet
    PROVE  \E F, m, off, s, r : Spoilt(f, F, m, off, s, r)'
  <1>a. PICK m, F, N : m = sent[f] /\ F = Wire(m) /\ N = Len(line)
    OBVIOUS
  <1>1. /\ i \in 1 .. N /\ proto = "bsp" /\ Plain(i, b) /\ b \in Byte /\ b # line[i].b
        /\ line'[i] = [b |-> b, f |-> f] /\ Len(line') = N
        /\ \A j \in 1 .. N : j # i => line'[j] = line[j]
        /\ UNCHANGED <<state, escfl, buf, fcs, got, proto>>
    BY <1>a DEF Spoils, Garbled, Faulty
  <1>2. f \in 1 .. Len(sent)
    BY <1>1, <1>a DEF BaseInv, Tags
  <1>3. f \in Nat /\ m \in Seq(Byte) /\ MessageOk(m) /\ Len(F) \in Nat /\ N \in Nat
    BY <1>2, <1>a, WireFacts, LineIs DEF BaseInv
  <1>4. PICK off : BspLaid(F, m, off)
    BY <1>1, <1>2, <1>a, WireFacts
  <1>5. PICK s : Totalled(m, s) /\ Matches(m, s)
    BY <1>1, <1>3 DEF MessageOk, Summed
  <1>6. Sized(m) /\ Len(m) >= 2
    BY <1>3, LenProperties, ByteFacts DEF MessageOk, Sized, HdrSz
  <1>7. Placed(f, F, 0, 0) /\ Idle /\ Unread(f)
    BY <1>a, PlainIsFirst
  <1>b. PICK K : K = Len(F)
    OBVIOUS
  <1>8. /\ K <= N /\ K \in Nat
        /\ \A j \in 1 .. N : /\ j <= K => line[j] = [b |-> F[j], f |-> f]
                             /\ j > K => line[j].f > f
    <2>1. (0 + Len(F)) - 0 <= N
      BY <1>7, <1>a DEF Placed
    <2>2. ASSUME NEW j \in 1 .. N
          PROVE  /\ j <= K => line[j] = [b |-> F[j], f |-> f]
                 /\ j > K => line[j].f > f
      <3>1. /\ j > 0 /\ j <= (0 + Len(F)) - 0 => line[j] = [b |-> F[(0 + j) - 0], f |-> f]
            /\ j > (0 + Len(F)) - 0 => line[j].f > f
        BY <1>7, <1>a DEF Placed
      <3>2. (0 + Len(F)) - 0 = K /\ (0 + j) - 0 = j /\ j > 0
        BY <1>3, <1>b
      <3>3. QED
        BY <3>1, <3>2
    <2>3. QED
      BY <2>1, <2>2, <1>3, <1>b
  <1>9. i \in 1 .. K /\ line[i].b = F[i]
    <2>1. ~(i > K)
      <3>1. SUFFICES ASSUME i > K PROVE FALSE
        OBVIOUS
      <3>2. line[i].f > f
        BY <3>1, <1>1, <1>8
      <3>3. QED
        BY <3>2, <1>3
    <2>2. i \in 1 .. K
      BY <2>1, <1>1, <1>8, <1>3
    <2>3. line[i] = [b |-> F[i], f |-> f]
      BY <2>2, <1>1, <1>8
    <2>4. QED
      BY <2>2, <2>3
  <1>10. \/ i <= HdrSz
         \/ /\ ~Special(F[i]) /\ ~Special(b)
            /\ i = HdrSz + 1 \/ F[i - 1] # BSP_ESCCHAR
    <2>1. SUFFICES ASSUME ~(i <= HdrSz)
                   PROVE  ~Special(F[i]) /\ ~Special(b) /\ (i = HdrSz + 1 \/ F[i - 1] # BSP_ESCCHAR)
      OBVIOUS
    <2>2. ~Special(line[i].b) /\ ~Special(b) /\ (i = HdrSz + 1 \/ line[i - 1].b # BSP_ESCCHAR)
      BY <2>1, <1>1 DEF Plain
    <2>a. PICK h : h = i - 1
      OBVIOUS
    <2>3. h \in 1 .. N /\ h <= K
      BY <2>1, <2>a, <1>1, <1>9, <1>8, <1>3 DEF HdrSz
    <2>4. line[h].b = F[h]
      <3>1. line[h] = [b |-> F[h], f |-> f]
        BY <2>3, <1>8
      <3>2. QED
        BY <3>1
    <2>5. QED
      BY <2>2, <2>4, <2>a, <1>9
  <1>11. PICK j \in 1 .. Len(m) : ~Hard(m, j) /\ i = off[j - 1] + 1 /\ (j > HdrSz => ~Special(b))
    BY <1>3, <1>4, <1>6, <1>9, <1>10, <1>b, PlainByte
  <1>c. PICK G, x : G = Substituted(F, i, b) /\ x = Substituted(m, j, b)
    OBVIOUS
  <1>12. /\ BspLaid(G, x, off) /\ x \in Seq(Byte) /\ Len(x) = Len(m)
         /\ F[i] = m[j] /\ Len(G) = K /\ G[i] = b
         /\ \A k \in 1 .. K : k # i => G[k] = F[k]
    <2>1. BspLaid(G, x, off) /\ x \in Seq(Byte) /\ Len(x) = Len(m)
          /\ i \in 1 .. Len(F) /\ F[i] = m[j] /\ Len(G) = Len(F) /\ G[i] = b
          /\ \A k \in 1 .. Len(F) : k # i => G[k] = F[k]
      <3>1. BspLaid(F, m, off) /\ ~Hard(m, j) /\ i = off[j - 1] + 1 /\ (j > HdrSz => ~Special(b))
        BY <1>4, <1>11
      <3>2. m \in Seq(Byte) /\ b \in Byte /\ j \in 1 .. Len(m)
        BY <1>1, <1>3, <1>11
      <3>3. G = Substituted(F, i, b) /\ x = Substituted(m, j, b)
        BY <1>c
      <3>4. QED
        BY <3>1, <3>2, <3>3, GarbledLaid
    <2>2. QED
      BY <2>1, <1>b
  <1>13. PICK q : Totalled(x, q) /\ ~Matches(x, q)
    <2>1. b # m[j]
      BY <1>1, <1>9, <1>12
    <2>2. QED
      BY <2>1, <1>1, <1>3, <1>5, <1>6, <1>11, <1>c, GarbledSums
  <1>14. Placed(f, G, 0, 0)'
    <2>1. ASSUME NEW k \in 1 .. N
          PROVE  /\ k <= 0 => line'[k].f < f
                 /\ k > 0 /\ k <= (0 + K) - 0 => line'[k] = [b |-> G[(0 + k) - 0], f |-> f]
                 /\ k > (0 + K) - 0 => line'[k].f > f
      <3>0. ~(k <= 0) /\ (0 + K) - 0 = K /\ (0 + k) - 0 = k
        BY <1>8
      <3>1. CASE k = i
        <4>1. line'[k] = [b |-> G[k], f |-> f] /\ ~(k > K)
          BY <3>1, <1>1, <1>9, <1>12, <1>8
        <4>2. QED
          BY <4>1, <3>0
      <3>2. CASE k # i /\ k <= K
        <4>1. line'[k] = line[k] /\ line[k] = [b |-> F[k], f |-> f] /\ k \in 1 .. K
          BY <3>2, <1>1, <1>8
        <4>2. G[k] = F[k]
          BY <4>1, <3>2, <1>12
        <4>3. ~(k > K)
          BY <3>2, <1>8
        <4>4. QED
          BY <4>1, <4>2, <4>3, <3>0
      <3>3. CASE k # i /\ k > K
        <4>1. line'[k].f > f /\ ~(k <= K)
          <5>1. line'[k] = line[k]
            BY <3>3, <1>1
          <5>2. line[k].f > f
            BY <3>3, <1>8
          <5>3. QED
            BY <5>1, <5>2, <3>3, <1>8
        <4>2. QED
          BY <4>1, <3>0
      <3>4. QED
        BY <3>1, <3>2, <3>3, <1>8
    <2>2. 0 \in Nat /\ 0 \in 0 .. K /\ (0 + K) - 0 <= N
      BY <1>8
    <2>3. QED
      BY <2>1, <2>2, <1>1, <1>12 DEF Placed
  <1>15. Idle' /\ Unread(f)' /\ Sized(x)
    BY <1>1, <1>6, <1>7, <1>12 DEF Idle, Unread, Sized
  <1>16. Spoilt(f, G, x, off, q, 0)'
    BY <1>12, <1>13, <1>14, <1>15 DEF Spoilt
  <1>17. QED
    BY <1>16

\* The steps, and what they say of the bytes that the sum covers.
LEMMA SeenSteps ==
    ASSUME BaseInv, [FramingNext]_framevars
    PROVE  \/ visible' = visible /\ \E k, m, F, q : Added(k, m, F, q)
           \/ \E i : (Gone(i) \/ Garbled(i)) /\ visible' = visible \ {line[i].f}
           \/ \E i, b : Spoils(i, b) /\ visible' = visible \cup {line[i].f}
           \/ visible' = visible /\ (GaveUp \/ Kept \/ msg_recv_byte \/ bsp_recv_byte)
  <1>0. FramingType
    BY DEF BaseInv
  <1>1. CASE \E d \in Datas : \E q \in 0 .. Len(Encoded(d)) : msg_send(d, q)
    <2>0. PICK d \in Datas : \E q \in 0 .. Len(Encoded(d)) : msg_send(d, q)
      BY <1>1
    <2>1. PICK q \in 0 .. Len(Encoded(d)) : msg_send(d, q)
      BY <2>0
    <2>2. \E k, m, F : Added(k, m, F, q)
      BY <1>0, <2>1, SendAdds
    <2>3. visible' = visible
      BY <2>1 DEF msg_send
    <2>4. QED
      BY <2>2, <2>3
  <1>2. CASE \E i \in 1 .. Len(line) : drop(i) \/ \E b \in Byte : garble(i, b)
    <2>1. PICK i \in 1 .. Len(line) : drop(i) \/ \E b \in Byte : garble(i, b)
      BY <1>2
    <2>2. CASE drop(i)
      BY <2>2, <1>0, DropIsGone DEF drop
    <2>3. CASE \E b \in Byte : garble(i, b)
      <3>1. PICK b \in Byte : garble(i, b)
        BY <2>3
      <3>2. Garbled(i)
        BY <3>1, <1>0, GarbleIsGarbled
      <3>3. CASE proto = "bsp" /\ line[i].f \notin damaged /\ Plain(i, b)
        <4>1. visible' = visible \cup {line[i].f} /\ b # line[i].b /\ line' = [line EXCEPT ![i].b = b]
          BY <3>1, <3>3 DEF garble
        <4>2. line'[i] = [b |-> b, f |-> line[i].f]
          <5>1. line \in Seq(LineByte)
            BY <1>0, LineIs
          <5>2. line[i] \in [b : Byte, f : Nat]
            BY <5>1, ElementOfSeq DEF LineByte
          <5>3. i \in DOMAIN line
            BY <5>1, LenProperties
          <5>4. QED
            BY <4>1, <5>2, <5>3
        <4>3. Spoils(i, b)
          BY <4>1, <4>2, <3>2, <3>3 DEF Spoils
        <4>4. QED
          BY <4>1, <4>3
      <3>4. CASE ~(proto = "bsp" /\ line[i].f \notin damaged /\ Plain(i, b))
        <4>1. visible' = visible \ {line[i].f}
          BY <3>1, <3>4 DEF garble
        <4>2. QED
          BY <4>1, <3>2
      <3>5. QED
        BY <3>3, <3>4
    <2>4. QED
      BY <2>1, <2>2, <2>3
  <1>3. CASE msg_recv_end
    BY <1>3 DEF msg_recv_end, GaveUp, Return, envvars
  <1>4. CASE bsp_recv_timeout
    BY <1>4 DEF bsp_recv_timeout, GaveUp, Return, envvars
  <1>5. CASE hang_up
    BY <1>5 DEF hang_up, Kept, rxvars
  <1>6. CASE UNCHANGED framevars
    BY <1>6 DEF framevars, Kept, rxvars
  <1>7. CASE msg_recv_byte \/ bsp_recv_byte
    BY <1>7 DEF msg_recv_byte, bsp_recv_byte, envvars
  <1>8. QED
    BY <1>1, <1>2, <1>3, <1>4, <1>5, <1>6, <1>7 DEF FramingNext

\* A fault of another frame.
LEMMA FaultKeepsSpoilt ==
    ASSUME BaseInv, NEW i, Gone(i) \/ Garbled(i), NEW f \in Nat, line[i].f # f,
           NEW F, NEW m, NEW off, NEW s, NEW r, Spoilt(f, F, m, off, s, r)
    PROVE  Spoilt(f, F, m, off, s, r)'
  <1>0. m \in Seq(Byte) /\ Sized(m) /\ BspLaid(F, m, off) /\ Placed(f, F, 0, r)
    BY DEF Spoilt
  <1>1. Len(F) \in Nat
    BY <1>0, SpoiltLength
  <1>2. line \in Seq(LineByte)
    BY LineIs DEF BaseInv
  <1>3. UNCHANGED <<state, escfl, buf, fcs, got, proto>> /\ i \in 1 .. Len(line)
    BY DEF Gone, Garbled, Faulty
  <1>4. Placed(f, F, 0, r)'
    <2>1. CASE Gone(i)
      <3>1. ~(i <= 0)
        BY <1>2, <1>3, LenProperties
      <3>2. QED
        BY <2>1, <3>1, <1>0, <1>1, <1>2, PlacedGone
    <2>2. CASE Garbled(i)
      BY <2>2, <1>0, <1>1, <1>2, PlacedGarbled
    <2>3. QED
      BY <2>1, <2>2
  <1>5. QED
    BY <1>3, <1>4, SpoiltStays

LEMMA GaveUpKeepsSpoilt ==
    ASSUME GaveUp, NEW f, NEW F, NEW m, NEW off, NEW s, NEW r, Spoilt(f, F, m, off, s, r)
    PROVE  Spoilt(f, F, m, off, s, r)'
  <1>0. /\ m \in Seq(Byte) /\ Sized(m) /\ BspLaid(F, m, off) /\ Totalled(m, s) /\ ~Matches(m, s)
        /\ Placed(f, F, 0, r) /\ Unread(f)
    BY DEF Spoilt
  <1>1. Len(F) \in Nat /\ Len(F) > 1
    BY <1>0, SpoiltLength
  <1>2. line = <<>> /\ line' = line /\ got' = got
    BY DEF GaveUp
  <1>3. Len(line) = 0
    BY <1>2, EmptyFacts, Zenon
  <1>4. r \in 0 .. Len(F) /\ (0 + Len(F)) - r <= 0
    BY <1>0, <1>3 DEF Placed
  <1>5. r # 0 /\ ~(r < Len(F))
    BY <1>1, <1>4
  <1>6. Placed(f, F, 0, r)' /\ Unread(f)'
    BY <1>0, <1>2 DEF Placed, Unread
  <1>7. QED
    BY <1>0, <1>5, <1>6 DEF Spoilt

LEMMA StepKeepsSpoilt ==
    ASSUME BaseInv, FramesInv, SpoiltInv, [FramingNext]_framevars
    PROVE  SpoiltInv'
  <1>0. /\ visible \subseteq 1 .. Len(sent) /\ quiet \subseteq 1 .. Len(sent) /\ line \in Seq(LineByte) /\ Len(sent) \in Nat
        /\ Tags
    BY LineIs DEF SpoiltInv, BaseInv, FramingType
  <1>1. ASSUME NEW f \in visible, f \in quiet
        PROVE  f \in Nat /\ f \in 1 .. Len(sent) /\ proto = "bsp" /\ \E F, m, off, s, r : Spoilt(f, F, m, off, s, r)
    BY <1>0, <1>1 DEF SpoiltInv
  <1>2. CASE visible' = visible /\ \E k, m, F, q : Added(k, m, F, q)
    <2>1. PICK k, x, X, q : Added(k, x, X, q)
      BY <1>2
    <2>2. /\ k = Len(sent) + 1 /\ Len(sent') = k /\ UNCHANGED <<state, escfl, buf, fcs, got, proto>>
          /\ quiet' = quiet \/ quiet' = quiet \cup {k}
      BY <2>1 DEF Added
    <2>3. visible' \subseteq 1 .. Len(sent')
      BY <1>0, <1>2, <2>2
    <2>4. ASSUME NEW f \in visible', f \in quiet'
          PROVE  proto' = "bsp" /\ \E F, m, off, s, r : Spoilt(f, F, m, off, s, r)'
      <3>1. f \in visible /\ f \in quiet /\ f < k
        BY <1>0, <1>2, <2>2, <2>4
      <3>2. f \in Nat /\ proto = "bsp" /\ \E F, m, off, s, r : Spoilt(f, F, m, off, s, r)
        BY <3>1, <1>1
      <3>3. PICK F, m, off, s, r : Spoilt(f, F, m, off, s, r)
        BY <3>2
      <3>4. m \in Seq(Byte) /\ Sized(m) /\ BspLaid(F, m, off) /\ Placed(f, F, 0, r)
        BY <3>3 DEF Spoilt
      <3>5. Len(F) \in Nat
        BY <3>4, SpoiltLength
      <3>6. Placed(f, F, 0, r)'
        BY <3>1, <3>2, <3>4, <3>5, <1>0, <2>1, PlacedAdded
      <3>7. Spoilt(f, F, m, off, s, r)'
        BY <3>3, <3>6, <2>2, SpoiltStays
      <3>8. QED
        BY <3>2, <3>7, <2>2
    <2>5. QED
      BY <2>3, <2>4 DEF SpoiltInv
  <1>3. CASE \E i : (Gone(i) \/ Garbled(i)) /\ visible' = visible \ {line[i].f}
    <2>1. PICK i : (Gone(i) \/ Garbled(i)) /\ visible' = visible \ {line[i].f}
      BY <1>3
    <2>2. UNCHANGED <<sent, proto, quiet>>
      BY <2>1 DEF Gone, Garbled, Faulty
    <2>3. ASSUME NEW f \in visible', f \in quiet'
          PROVE  proto' = "bsp" /\ \E F, m, off, s, r : Spoilt(f, F, m, off, s, r)'
      <3>1. f \in visible /\ f \in quiet /\ line[i].f # f
        BY <2>1, <2>2, <2>3
      <3>2. f \in Nat /\ proto = "bsp" /\ \E F, m, off, s, r : Spoilt(f, F, m, off, s, r)
        BY <3>1, <1>1
      <3>3. PICK F, m, off, s, r : Spoilt(f, F, m, off, s, r)
        BY <3>2
      <3>4. Spoilt(f, F, m, off, s, r)'
        BY <3>1, <3>2, <3>3, <2>1, FaultKeepsSpoilt
      <3>5. QED
        BY <3>2, <3>4, <2>2
    <2>4. QED
      BY <2>1, <2>2, <2>3, <1>0 DEF SpoiltInv
  <1>4. CASE \E i, b : Spoils(i, b) /\ visible' = visible \cup {line[i].f}
    <2>1. PICK i, b : Spoils(i, b) /\ visible' = visible \cup {line[i].f}
      BY <1>4
    <2>2. UNCHANGED <<sent, proto, quiet>> /\ Garbled(i) /\ i \in 1 .. Len(line) /\ proto = "bsp"
      BY <2>1 DEF Spoils, Garbled, Faulty
    <2>3. line[i].f \in 1 .. Len(sent)
      BY <2>2, <1>0 DEF Tags
    <2>4. ASSUME NEW f \in visible', f \in quiet'
          PROVE  \E F, m, off, s, r : Spoilt(f, F, m, off, s, r)'
      <3>1. CASE f = line[i].f
        BY <3>1, <2>1, <2>2, <2>4, GarbleSpoils
      <3>2. CASE f # line[i].f
        <4>1. f \in visible /\ f \in quiet
          BY <3>2, <2>1, <2>2, <2>4
        <4>2. f \in Nat /\ \E F, m, off, s, r : Spoilt(f, F, m, off, s, r)
          BY <4>1, <1>1
        <4>3. PICK F, m, off, s, r : Spoilt(f, F, m, off, s, r)
          BY <4>2
        <4>4. Spoilt(f, F, m, off, s, r)'
          BY <3>2, <4>2, <4>3, <2>2, FaultKeepsSpoilt
        <4>5. QED
          BY <4>4
      <3>3. QED
        BY <3>1, <3>2
    <2>5. QED
      BY <2>1, <2>2, <2>3, <2>4, <1>0 DEF SpoiltInv
  <1>5. CASE visible' = visible /\ (GaveUp \/ Kept \/ msg_recv_byte \/ bsp_recv_byte)
    <2>1. UNCHANGED <<sent, proto, quiet>>
      <3>1. CASE GaveUp \/ Kept
        BY <3>1 DEF GaveUp, Kept
      <3>2. CASE msg_recv_byte \/ bsp_recv_byte
        BY <3>2 DEF msg_recv_byte, bsp_recv_byte, envvars
      <3>3. QED
        BY <3>1, <3>2, <1>5
    <2>2. ASSUME NEW f \in visible', f \in quiet'
          PROVE  proto' = "bsp" /\ \E F, m, off, s, r : Spoilt(f, F, m, off, s, r)'
      <3>1. f \in Nat /\ proto = "bsp" /\ \E F, m, off, s, r : Spoilt(f, F, m, off, s, r)
        BY <1>1, <1>5, <2>1, <2>2
      <3>2. PICK F, m, off, s, r : Spoilt(f, F, m, off, s, r)
        BY <3>1
      <3>3. CASE GaveUp
        BY <3>1, <3>2, <3>3, <2>1, GaveUpKeepsSpoilt
      <3>4. CASE Kept
        <4>1. Placed(f, F, 0, r)'
          BY <3>2, <3>4 DEF Spoilt, Placed, Kept
        <4>2. Spoilt(f, F, m, off, s, r)'
          BY <3>2, <3>4, <4>1, SpoiltStays DEF Kept
        <4>3. QED
          BY <4>2, <3>1, <2>1
      <3>5. CASE msg_recv_byte \/ bsp_recv_byte
        <4>1. PICK c : Reads(c)
          BY <3>5, ByteReads
        <4>2. \E t : Spoilt(f, F, m, off, s, t)'
          BY <4>1, <3>1, <3>2, ReadSpoilt
        <4>3. QED
          BY <4>2, <3>1, <2>1
      <3>6. QED
        BY <3>3, <3>4, <3>5, <1>5
    <2>3. QED
      BY <2>1, <2>2, <1>0, <1>5 DEF SpoiltInv
  <1>6. QED
    BY <1>2, <1>3, <1>4, <1>5, SeenSteps

\* ChecksumCatches holds for every message and any number of faults of other
\* frames: bsp_recv delivers no frame, read from its beginning, in which one byte
\* that the sum of bsp_send covers was changed into another such byte.
THEOREM ChecksumsCatch ==
    FramingSpec => []ChecksumCatches
  <1>1. FramingInit => SpoiltInv
    BY DEF FramingInit, SpoiltInv
  <1>2. (BaseInv /\ FrameLineInv) /\ SpoiltInv /\ [FramingNext]_framevars => SpoiltInv'
    BY StepKeepsSpoilt DEF FrameLineInv
  <1>3. SpoiltInv => ChecksumCatches
    <2>1. SUFFICES ASSUME SpoiltInv, NEW i \in 1 .. Len(got), got[i].f \in visible, got[i].f \in quiet PROVE FALSE
      BY DEF ChecksumCatches
    <2>a. PICK f : f = got[i].f
      OBVIOUS
    <2>2. PICK F, m, off, s, r : Spoilt(f, F, m, off, s, r)
      BY <2>1, <2>a DEF SpoiltInv
    <2>3. QED
      BY <2>1, <2>2, <2>a DEF Spoilt, Unread
  <1>4. QED
    BY <1>1, <1>2, <1>3, FramesInvariance, PTL DEF FramingSpec
=============================================================================
