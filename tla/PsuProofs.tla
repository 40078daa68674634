------------------------------ MODULE PsuProofs ------------------------------
(***************************************************************************)
(* psu: that the dry run has checked what the second pass carries out, that *)
(* no handle is used after it was closed, that success means that every     *)
(* command was carried out, and that the device gets the file that was      *)
(* asked for, for all scripts, files and report sizes.                      *)
(*                                                                          *)
(* Where the parser is, is said by positions: what it looks at, s.next, is  *)
(* the token at s.ptr - 1, and a command in work whose arguments have been  *)
(* read as far as cmd.args began at Begun.                                  *)
(***************************************************************************)
EXTENDS Psu, SequenceTheorems, FiniteSetTheorems, TLAPS

Values == Nat \cup STRING \cup {"none"}
Names  == funcs \cup {"none"}
Kinds  == {"int", "str", "kind", "opt"}
Cut    == {"half", "open"}
Stales == [typ : {"id", "str", "nl", "comment", "bad"}, val : {"none"}]
Reads  == {t \in Tokens : t.typ \notin Cut} \cup Stales
Looks  == Reads \cup {Invalid}

\* What the parser shows for the token at k: the token, or for one that cannot be
\* read what is left of the one before.  A quote that is not closed may come right
\* behind a name that cannot be read.
Shown(k) == IF k = 0 \/ script[k].typ = "bad" THEN Invalid ELSE script[k]
Seen(k)  == IF script[k].typ \notin Cut THEN script[k]
            ELSE IF k > 1 /\ script[k - 1].typ = "half" THEN Stale(Shown(k - 2))
            ELSE Stale(Shown(k - 1))
View     == [k \in 1 .. Len(script) |-> Seen(k)]

\* What the script is made of, as the parser shows it.
VEnds(k)   == k \in 1 .. Len(View) /\ View[k].typ \in {"nl", "comment"}
VStarts(k) == k = 1 \/ VEnds(k - 1)
VCommandAt(k, n) ==
    /\ View[k].typ = "id" /\ View[k].val \in funcs /\ VEnds(k + n + 1)
    /\ \A i \in 1 .. n : i <= Len(Args[View[k].val]) /\ Fits(View[k + i], Args[View[k].val][i])
    /\ \A i \in n + 1 .. Len(Args[View[k].val]) : Args[View[k].val][i] = "opt"
    /\ View[k].val = "WRITE_FILE" => Usable(View[k + 1].val, View[k + 2].val)
    /\ View[k].val = "LOAD_IMAGE" => Usable("F", View[k + 1].val)
VProper(k)  == VEnds(k) \/ \E n \in 0 .. Len(View) : VCommandAt(k, n)
VCommandsAt == {k \in 1 .. Len(View) - 1 : VStarts(k) /\ View[k].typ = "id"}
VNArgs(k)   == CHOOSE n \in 0 .. Len(View) : VEnds(k + n + 1) /\ \A i \in 1 .. n : ~VEnds(k + i)
VVals(k)    == [i \in 1 .. VNArgs(k) |-> View[k + i].val]
VRank(k)    == Cardinality({j \in VCommandsAt : j <= k})

\* The parser cannot go on: the script is at its end or a bad character follows.
Stuck(p) == ~(p <= Len(View) /\ View[p].typ # "bad")

TypeInv ==
    /\ script \in Scripts /\ pass \in {"dry", "run"}
    /\ pc \in {"parse", "args", "eol", "wait", "data", "reply", "ended", "crashed"}
    /\ s \in [ptr : Nat, token : Looks, next : Looks]
    /\ cmd \in [name : Names, args : Seq(Values)] /\ want \in Seq(Kinds)
    /\ dev \in [id : Nat, on : Seq(Values)] /\ open \in SUBSET Nat
    /\ ops \in Seq([name : Names, args : Seq(Values), on : Seq(Values)])

\* What the parser looks at, and that it has met no bad character.
PosInv ==
    /\ s.ptr \in 1 .. Len(View) + 1
    /\ s.next = IF s.ptr = 1 THEN Invalid ELSE View[s.ptr - 1]
    /\ \A k \in 1 .. s.ptr - 1 : View[k].typ # "bad"

\* Every statement that begins before x is proper; every statement at all is, but
\* for a last token without a newline.
Checked(x) == \A k \in 1 .. x - 1 : VStarts(k) => VProper(k)
Verified   == \A k \in 1 .. Len(View) : VStarts(k) =>
                  VProper(k) \/ (k = Len(View) /\ View[k].typ # "bad")

\* Argument i of the command c that begins at k is the token i places behind it.
ArgAt(k, c, i) ==
    /\ i <= Len(Args[c.name]) /\ Fits(View[k + i], Args[c.name][i])
    /\ c.args[i] = View[k + i].val

\* The command c begins at k, as far as its arguments have been read.
BegunAt(k, c) ==
    /\ k \in 1 .. Len(View) /\ VStarts(k) /\ Checked(k)
    /\ View[k].typ = "id" /\ View[k].val = c.name /\ c.name \in funcs
    /\ \A i \in 1 .. Len(c.args) : ArgAt(k, c, i)

\* The arguments that are left may be left out; w is what is left.
OptFrom(c)   == \A i \in Len(c.args) + 1 .. Len(Args[c.name]) : Args[c.name][i] = "opt"
Left(c, w)   == /\ Len(w) = Len(Args[c.name]) - Len(c.args)
                /\ \A i \in 1 .. Len(w) : w[i] = Args[c.name][Len(c.args) + i]
FileThere(c) == /\ c.name = "WRITE_FILE" => Usable(c.args[1], c.args[2])
                /\ c.name = "LOAD_IMAGE" => Usable("F", c.args[1])

\* The parser at p is right behind what it has read of the command c.
Reading(p, c, w) ==
    /\ BegunAt(p - 2 - Len(c.args), c)
    /\ Left(c, w) \/ (w = <<>> /\ VEnds(p - 1) /\ OptFrom(c))

\* In front of a bad character, or at the end, the dry run may read one token
\* again and again; it is none that ends a statement.
Hung == pass = "dry" /\ Stuck(s.ptr) /\ s.next.typ \notin {"nl", "comment"}

ParserInv ==
    /\ pc = "parse" /\ s.ptr > 1 =>
          Checked(s.ptr - 1) /\ (VStarts(s.ptr - 1) \/ (Stuck(s.ptr) /\ VEnds(s.ptr - 1)))
    /\ pc = "args" => Hung \/ Reading(s.ptr, cmd, want)
    /\ pc \in {"wait", "data", "reply", "eol"} =>
          want = <<>> /\ (Hung \/ (Reading(s.ptr, cmd, want) /\ FileThere(cmd)))
    /\ pass = "run" => Verified /\ s.ptr > 1 /\ err # "syntax"
    /\ pc \in {"wait", "data", "reply"} => pass = "run"
    /\ pc # "ended" => err = "none"

\* WAIT has closed the device and has not looked for another yet.
Waiting == pc = "wait" \/ (pc = "args" /\ cmd.name = "WAIT")

HandlesInv ==
    /\ ~misuse
    /\ pass = "dry" => dev = NoDev /\ open = {}
    /\ pc = "ended" => open = {}
    /\ pass = "run" /\ ~Ended => open = (IF dev = NoDev \/ Waiting THEN {} ELSE {dev.id})
    /\ dev # NoDev => dev.id # 0
    /\ pc = "wait" => cmd.name = "WAIT"
    /\ pc \in {"data", "reply"} => dev # NoDev /\ cmd.name # "WAIT"

\* The commands before b, and that o is what carrying them out leaves: v are the
\* arguments of the last WAIT among the first i.
Before(b)         == {j \in VCommandsAt : j < b}
LastWait(o, i, j) == /\ j \in 1 .. i /\ o[j].name = "WAIT"
                     /\ \A k \in j + 1 .. i : o[k].name # "WAIT"
Found(o, i, v)    == \E j \in 1 .. i : LastWait(o, i, j) /\ v = o[j].args
Right(o, k)       == /\ o[VRank(k)].name = View[k].val /\ o[VRank(k)].args = VVals(k)
                     /\ Found(o, VRank(k), o[VRank(k)].on)
Done(o, b)        == Len(o) = Cardinality(Before(b)) /\ \A k \in Before(b) : Right(o, k)

\* The commands before Reached have been carried out.
Reached == CASE pc = "parse" -> s.ptr - 1
             [] pc = "eol"   -> s.ptr - 1 - Len(cmd.args)
             [] OTHER        -> s.ptr - 2 - Len(cmd.args)

CarriedInv ==
    /\ pass = "dry" => ops = <<>>
    /\ pass = "run" /\ ~Ended => Done(ops, Reached)
    /\ pass = "run" /\ ~Ended /\ dev # NoDev /\ ~Waiting => Found(ops, Len(ops), dev.on)
    /\ pc = "ended" /\ err = "none" => pass = "run" /\ Done(ops, Len(View))

\* Cell i of what is sent of f cells when z were asked for from o on.
Cell(z, o, f, i) == IF i <= z THEN IF o + i <= f THEN o + i ELSE Unknown ELSE 0

FileCmds == {"WRITE_FILE", "LOAD_IMAGE"}
SentInv ==
    pc \in {"data", "reply"} /\ cmd.name \in FileCmds =>
        /\ rcv \in Seq(Int)
        /\ \A i \in 1 .. Len(rcv) :
              rcv[i] = Cell(Size, Offset, FileLen, i)
        /\ Len(rcv) <= Size + Align - 1
        /\ pc = "reply" => Len(rcv) >= Size

-----------------------------------------------------------------------------
(* The parser's place in the script.                                       *)

\* A script is a sequence of tokens, with at least one.
LEMMA TextFacts ==
    ASSUME script \in Scripts
    PROVE  /\ script \in Seq(Tokens) /\ Len(script) \in Nat /\ Len(script) >= 1
           /\ \A k \in 1 .. Len(script) : script[k] \in Tokens
           /\ \A k \in 1 .. Len(script) :
                 /\ script[k].typ = "half" => k < Len(script) /\ script[k + 1].typ \in OddStart
                 /\ script[k].typ = "open" => k = Len(script)
<1>1. /\ script \in Seq(Tokens) /\ script # <<>>
      /\ \A k \in 1 .. Len(script) :
            /\ script[k].typ = "half" => k < Len(script) /\ script[k + 1].typ \in OddStart
            /\ script[k].typ = "open" => k = Len(script)
  BY ScriptsAssumption
<1>2. Len(script) \in Nat /\ \A k \in 1 .. Len(script) : script[k] \in Tokens
  BY <1>1, LenProperties, ElementOfSeq
<1>3. Len(script) # 0
  BY <1>1, EmptySeq
<1> QED
  BY <1>1, <1>2, <1>3

\* A token is a record with a type and a value.
LEMMA TokenFacts ==
    ASSUME NEW t \in Looks
    PROVE  /\ t.typ \in {"int", "id", "str", "nl", "comment", "bad", "invalid"}
           /\ t.val \in Values
           /\ t.typ = "int" => t.val \in Nat
           /\ t.typ = "invalid" => t = Invalid
           /\ t # Invalid => t \in Reads
           /\ t \in Reads => t.typ # "invalid"
<1>1. CASE t \in Reads /\ t \in [typ : {"int"}, val : Nat]
  BY <1>1 DEF Reads, Tokens, Values, Invalid, Tok
<1>2. CASE t \in Reads /\ t \in [typ : {"id", "str", "nl", "comment", "bad", "half", "open"}, val : STRING]
  <2>1. /\ t.typ \in {"id", "str", "nl", "comment", "bad", "half", "open"} /\ t.val \in STRING
        /\ t.typ \notin Cut
    BY <1>2 DEF Reads, Cut, Tokens, Stales
  <2>2. t.typ # "int" /\ t.typ # "invalid" /\ t.typ \in {"id", "str", "nl", "comment", "bad"}
    BY <2>1 DEF Cut
  <2>3. Invalid.typ = "invalid"
    BY DEF Invalid, Tok
  <2> QED
    BY <1>2, <2>1, <2>2, <2>3 DEF Values
<1>4. CASE t \in Stales
  <2>1. t.typ \in {"id", "str", "nl", "comment", "bad"} /\ t.val = "none"
    BY <1>4 DEF Stales
  <2>2. t # Invalid /\ t \in Reads
    BY <1>4, <2>1 DEF Reads, Invalid, Tok
  <2> QED
    BY <2>1, <2>2 DEF Values
<1>3. CASE t = Invalid
  <2>1. Invalid = [typ |-> "invalid", val |-> "none"]
    BY DEF Invalid, Tok
  <2>2. "none" \in Values
    BY DEF Values
  <2>3. Invalid.typ = "invalid" /\ Invalid.val = "none"
    BY <2>1
  <2>4. Invalid \notin Reads
    BY <2>3 DEF Reads, Tokens, Stales
  <2> HIDE DEF Values
  <2> QED
    BY <1>3, <2>2, <2>3, <2>4
<1> QED
  BY <1>1, <1>2, <1>3, <1>4 DEF Looks, Reads, Tokens

\* What is left of a token keeps its type.
LEMMA StaleFacts ==
    ASSUME NEW t \in Looks
    PROVE  /\ Stale(t) \in Looks /\ Stale(t).typ = t.typ /\ Stale(Invalid) = Invalid
           /\ Stale(Stale(t)) = Stale(t)
           /\ t.typ = "int" => Stale(t) = t
           /\ t.typ # "int" => Stale(t).val = "none"
<1>1. CASE t \in [typ : {"int"}, val : Nat]
  <2>1. Stale(t) = t
    BY <1>1 DEF Stale
  <2>2. Stale(Invalid) = Invalid
    BY DEF Stale, Invalid, Tok
  <2> QED
    BY <1>1, <2>1, <2>2
<1>2. CASE t.typ # "int"
  <2>1. Stale(t) = [t EXCEPT !.val = "none"]
    BY <1>2 DEF Stale
  <2>2. Stale(Invalid) = Invalid
    BY DEF Stale, Invalid, Tok
  <2>3. CASE t = Invalid
    BY <1>2, <2>2, <2>3 DEF Invalid, Tok
  <2>4. CASE t \in Reads
    <3>1. /\ t \in [typ : {"id", "str", "nl", "comment", "bad", "half", "open"}, val : STRING]
             \/ t \in Stales
          /\ t.typ \in {"id", "str", "nl", "comment", "bad"}
      BY <1>2, <2>4 DEF Reads, Tokens, Cut, Stales
    <3>2. PICK v : v = Stale(t)
      OBVIOUS
    <3>3. v \in Stales /\ v.typ = t.typ /\ v.val = "none"
      BY <2>1, <3>1, <3>2 DEF Stales
    <3>4. v \in Looks
      BY <3>3 DEF Looks, Reads
    <3>5. Stale(v) = v
      <4>1. v.typ # "int" /\ v = [typ |-> v.typ, val |-> "none"]
        BY <1>2, <3>3 DEF Stales
      <4>2. Stale(v) = [v EXCEPT !.val = "none"]
        BY <4>1 DEF Stale
      <4> QED
        BY <4>1, <4>2
    <3>6. /\ Stale(t) \in Looks /\ Stale(t).typ = t.typ /\ Stale(t).val = "none"
          /\ Stale(Stale(t)) = Stale(t)
      BY <3>2, <3>3, <3>4, <3>5
    <3> QED
      BY <1>2, <2>2, <3>6
  <2> QED
    BY <2>3, <2>4 DEF Looks
<1> QED
  BY <1>1, <1>2 DEF Looks, Reads, Tokens, Stales, Invalid, Tok

\* How what the parser shows comes about, token by token.
LEMMA ViewFacts ==
    ASSUME script \in Scripts
    PROVE  /\ Len(View) = Len(script) /\ DOMAIN View = 1 .. Len(script)
           /\ \A k \in 1 .. Len(script) :
                 /\ View[k] \in Looks
                 /\ View[k].typ = "bad" <=> script[k].typ = "bad"
                 /\ script[k].typ \notin Cut => View[k] = script[k]
           /\ script[1].typ \in Cut => View[1] = Invalid
           /\ \A k \in 2 .. Len(script) :
                 script[k].typ \in Cut /\ View[k - 1].typ # "bad" => View[k] = Stale(View[k - 1])
<1>1. /\ Len(script) \in Nat /\ Len(script) >= 1
      /\ \A k \in 1 .. Len(script) : script[k] \in Tokens
      /\ \A k \in 1 .. Len(script) :
            /\ script[k].typ = "half" => k < Len(script) /\ script[k + 1].typ \in OddStart
            /\ script[k].typ = "open" => k = Len(script)
  BY TextFacts
<1>2. DOMAIN View = 1 .. Len(script) /\ \A k \in 1 .. Len(script) : View[k] = Seen(k)
  BY DEF View
<1>3. Len(View) = Len(script)
  <2>1. Seq(Tokens) # {} /\ View \in [1 .. Len(script) -> {Seen(k) : k \in 1 .. Len(script)}]
    BY EmptySeq DEF View
  <2>2. View \in Seq({Seen(k) : k \in 1 .. Len(script)})
    BY <1>1, <2>1, SeqDef
  <2> QED
    BY <1>1, <1>2, <2>2, LenProperties
<1>4. ASSUME NEW k \in 0 .. Len(script), k = 0 \/ script[k].typ \notin Cut
      PROVE  Shown(k) \in Looks /\ Shown(k).typ # "bad"
  BY <1>1, <1>4 DEF Shown, Looks, Reads, Invalid, Tok
<1>5. ASSUME NEW k \in 1 .. Len(script), script[k].typ \in Cut
      PROVE  \E j \in 0 .. Len(script) :
                /\ j = 0 \/ script[j].typ \notin Cut
                /\ Seen(k) = Stale(Shown(j))
                /\ IF k > 1 /\ script[k - 1].typ = "half" THEN j = k - 2 ELSE j = k - 1
  <2>1. CASE k > 1 /\ script[k - 1].typ = "half"
    <3>1. PICK j : j = k - 2
      OBVIOUS
    <3>2. j \in 0 .. Len(script) /\ k - 1 \in 1 .. Len(script)
      BY <1>1, <2>1, <3>1
    <3>3. j = 0 \/ script[j].typ \notin Cut
      <4>1. SUFFICES ASSUME j # 0 PROVE script[j].typ \notin Cut
        OBVIOUS
      <4>2. j \in 1 .. Len(script) /\ j + 1 = k - 1 /\ j < Len(script)
        BY <1>1, <3>1, <3>2, <4>1
      <4> QED
        BY <1>1, <2>1, <4>2 DEF OddStart, Cut
    <3>4. Seen(k) = Stale(Shown(j))
      BY <1>5, <2>1, <3>1 DEF Seen
    <3> QED
      BY <2>1, <3>1, <3>2, <3>3, <3>4
  <2>2. CASE ~(k > 1 /\ script[k - 1].typ = "half")
    <3>1. PICK j : j = k - 1
      OBVIOUS
    <3>2. j \in 0 .. Len(script) /\ (j # 0 => j \in 1 .. Len(script) /\ j # Len(script) /\ k > 1)
      BY <1>1, <3>1
    <3>3. j = 0 \/ script[j].typ \notin Cut
      BY <1>1, <2>2, <3>1, <3>2 DEF Cut
    <3>4. Seen(k) = Stale(Shown(j))
      BY <1>5, <2>2, <3>1 DEF Seen
    <3> QED
      BY <2>2, <3>1, <3>2, <3>3, <3>4
  <2> QED
    BY <2>1, <2>2
<1>6. ASSUME NEW k \in 1 .. Len(script)
      PROVE  /\ View[k] \in Looks
             /\ View[k].typ = "bad" <=> script[k].typ = "bad"
             /\ script[k].typ \notin Cut => View[k] = script[k]
  <2>1. CASE script[k].typ \notin Cut
    <3>1. View[k] = script[k]
      BY <1>2, <2>1 DEF Seen
    <3>2. script[k] \in Looks
      BY <1>1, <2>1 DEF Looks, Reads
    <3> QED
      BY <2>1, <3>1, <3>2
  <2>2. CASE script[k].typ \in Cut
    <3>1. PICK j \in 0 .. Len(script) : (j = 0 \/ script[j].typ \notin Cut) /\ Seen(k) = Stale(Shown(j))
      BY <1>5, <2>2
    <3>2. Shown(j) \in Looks /\ Shown(j).typ # "bad"
      BY <1>4, <3>1
    <3>3. View[k] \in Looks /\ View[k].typ # "bad"
      BY <1>2, <3>1, <3>2, StaleFacts
    <3> QED
      BY <2>2, <3>3 DEF Cut
  <2> QED
    BY <2>1, <2>2
<1>7. script[1].typ \in Cut => View[1] = Invalid
  <2>1. SUFFICES ASSUME script[1].typ \in Cut PROVE View[1] = Invalid
    OBVIOUS
  <2>2. 1 \in 1 .. Len(script) /\ ~(1 > 1)
    BY <1>1
  <2>3. Seen(1) = Stale(Shown(1 - 1)) /\ 1 - 1 = 0
    BY <2>1, <2>2 DEF Seen
  <2>4. Shown(0) = Invalid
    BY DEF Shown
  <2>5. Stale(Invalid) = Invalid
    BY DEF Stale, Invalid, Tok
  <2> QED
    BY <1>2, <2>2, <2>3, <2>4, <2>5
<1>8. ASSUME NEW k \in 2 .. Len(script), script[k].typ \in Cut, View[k - 1].typ # "bad"
      PROVE  View[k] = Stale(View[k - 1])
  <2>1. PICK m \in Int : m = k - 1
    BY <1>8, <1>1
  <2>2. k \in 1 .. Len(script) /\ m \in 1 .. Len(script) /\ k > 1 /\ m # 0 /\ m - 1 = k - 2
    BY <1>1, <2>1
  <2>3. View[k] = Seen(k) /\ View[m] = Seen(m) /\ script[m].typ # "bad"
    BY <1>2, <1>6, <1>8, <2>1, <2>2
  <2>4. CASE script[m].typ = "half"
    <3>1. Seen(k) = Stale(Shown(k - 2))
      BY <1>8, <2>1, <2>2, <2>4 DEF Seen
    <3>2. script[m].typ \in Cut
      BY <2>4 DEF Cut
    <3>3. PICK j \in 0 .. Len(script) :
             /\ j = 0 \/ script[j].typ \notin Cut
             /\ Seen(m) = Stale(Shown(j))
             /\ IF m > 1 /\ script[m - 1].typ = "half" THEN j = m - 2 ELSE j = m - 1
      BY <1>5, <2>2, <3>2
    <3>4. ~(m > 1 /\ script[m - 1].typ = "half")
      <4>1. SUFFICES ASSUME m > 1, script[m - 1].typ = "half" PROVE FALSE
        OBVIOUS
      <4>2. PICK i : i = m - 1
        OBVIOUS
      <4>3. i \in 1 .. Len(script) /\ i + 1 = m
        BY <1>1, <2>2, <4>1, <4>2
      <4>4. script[i + 1].typ \in OddStart
        BY <1>1, <4>1, <4>2, <4>3
      <4> QED
        BY <2>4, <4>3, <4>4 DEF OddStart
    <3>5. j = k - 2
      BY <2>2, <3>3, <3>4
    <3>6. Shown(j) \in Looks
      BY <1>4, <3>3
    <3> QED
      BY <2>1, <2>3, <3>1, <3>3, <3>5, <3>6, StaleFacts
  <2>5. CASE script[m].typ # "half"
    <3>1. Seen(k) = Stale(Shown(m))
      BY <1>8, <2>1, <2>2, <2>5 DEF Seen
    <3>2. script[m].typ # "open"
      BY <1>1, <2>1, <2>2
    <3>3. script[m].typ \notin Cut
      BY <2>5, <3>2 DEF Cut
    <3>4. Shown(m) = script[m] /\ View[m] = script[m]
      BY <1>6, <2>2, <2>3, <3>3 DEF Shown
    <3> QED
      BY <2>1, <2>3, <3>1, <3>4
  <2> QED
    BY <2>4, <2>5
<1> QED
  BY <1>2, <1>3, <1>6, <1>7, <1>8

\* The same for one token.
LEMMA ViewAt ==
    ASSUME script \in Scripts, NEW k \in 1 .. Len(script)
    PROVE  /\ View[k] \in Looks
           /\ View[k].typ = "bad" <=> script[k].typ = "bad"
           /\ script[k].typ \notin Cut => View[k] = script[k]
  BY ViewFacts

\* For one that cannot be read it is what is left of the one before.
LEMMA ViewCut ==
    ASSUME script \in Scripts, NEW k \in 2 .. Len(script), script[k].typ \in Cut,
           NEW j, j = k - 1, View[j].typ # "bad"
    PROVE  View[k] = Stale(View[j])
  BY ViewFacts

\* It is as long as the script.
LEMMA ScriptFacts ==
    ASSUME script \in Scripts
    PROVE  /\ Len(View) = Len(script) /\ Len(View) \in Nat /\ Len(View) >= 1
           /\ \A k \in 1 .. Len(View) : View[k] \in Looks
  BY TextFacts, ViewFacts

\* The script stays, and so does what is shown of it.
LEMMA ViewKept ==
    ASSUME script' = script
    PROVE  View' = View
<1>1. \A k : Shown(k)' = Shown(k)
  BY DEF Shown
<1>2. \A k : Seen(k)' = Seen(k)
  BY <1>1 DEF Seen
<1> QED
  BY <1>2 DEF View

\* The commands expect sequences of the four kinds of arguments.
LEMMA ArgsFacts ==
    ASSUME NEW c \in funcs
    PROVE  Args[c] \in Seq(Kinds)
<1>1. <<>> \in Seq(Kinds)
  BY EmptySeq
<1>2. /\ <<"int">> \in Seq(Kinds) /\ <<"str">> \in Seq(Kinds) /\ <<"int", "int">> \in Seq(Kinds)
      /\ <<"int", "int", "int">> \in Seq(Kinds)
      /\ <<"kind", "str", "opt", "opt", "opt", "opt">> \in Seq(Kinds)
  BY DEF Kinds
<1>3. c \in {"ERROR_STATUS", "GET_PROPERTY", "JUMP_ADDRESS", "LOAD_IMAGE", "WAIT", "WRITE_FILE",
             "WRITE_REGISTER"}
  BY DEF funcs, Args
<1>4. /\ Args["ERROR_STATUS"] = <<>> /\ Args["GET_PROPERTY"] = <<>>
      /\ Args["JUMP_ADDRESS"] = <<"int">> /\ Args["LOAD_IMAGE"] = <<"str">>
      /\ Args["WAIT"] = <<"int", "int">>
      /\ Args["WRITE_FILE"] = <<"kind", "str", "opt", "opt", "opt", "opt">>
      /\ Args["WRITE_REGISTER"] = <<"int", "int", "int">>
  BY DEF Args
<1> QED
  BY <1>1, <1>2, <1>3, <1>4

\* A token that fits is no end of a statement and is readable.
LEMMA FitsFacts ==
    ASSUME NEW t, NEW w \in Kinds, Fits(t, w)
    PROVE  t.typ \in {"int", "str", "id"} /\ (w = "opt" => t.typ = "int")
  BY DEF Fits, Kinds

\* What script_get_token does.
LEMMA GetToken ==
    ASSUME TypeInv, PosInv, NEW u, u = script_get_token(s)
    PROVE  /\ u \in [ptr : Nat, token : Looks, next : Looks]
           /\ Stuck(s.ptr) => u.ptr = s.ptr /\ u.next = s.next
           /\ ~Stuck(s.ptr) => /\ u.ptr = s.ptr + 1 /\ u.next = View[s.ptr]
                               /\ s.ptr <= Len(View) /\ View[s.ptr].typ # "bad"
<1>1. s \in [ptr : Nat, token : Looks, next : Looks] /\ s.ptr >= 1
  BY DEF TypeInv, PosInv
<1>2. /\ Len(View) = Len(script) /\ Len(View) \in Nat
      /\ s.ptr <= Len(script) => (View[s.ptr].typ = "bad" <=> script[s.ptr].typ = "bad")
  BY <1>1, ScriptFacts, ViewFacts DEF TypeInv
<1>3. CASE Stuck(s.ptr)
  <2>1. u = [s EXCEPT !.token = s.next]
    BY <1>2, <1>3 DEF script_get_token, More, Stuck
  <2> QED
    BY <1>1, <1>3, <2>1
<1>4. CASE ~Stuck(s.ptr)
  <2>1. s.ptr \in 1 .. Len(script) /\ script[s.ptr].typ # "bad"
    BY <1>1, <1>2, <1>4 DEF Stuck
  <2>2. u = [ptr |-> s.ptr + 1, token |-> s.next,
             next |-> IF script[s.ptr].typ \in Cut THEN Stale(s.next) ELSE script[s.ptr]]
    BY <2>1 DEF script_get_token, More, Cut
  <2>3. View[s.ptr] \in Looks
    BY <2>1, ViewFacts DEF TypeInv
  <2>4. u.next = View[s.ptr]
    <3>1. CASE script[s.ptr].typ \notin Cut
      BY <2>1, <2>2, <3>1, ViewFacts DEF TypeInv
    <3>2. CASE script[s.ptr].typ \in Cut /\ s.ptr = 1
      <4>1. s.next = Invalid /\ View[1] = Invalid
        BY <3>2, ViewFacts DEF TypeInv, PosInv
      <4>2. Stale(Invalid) = Invalid
        BY DEF Stale, Invalid, Tok
      <4> QED
        BY <2>2, <3>2, <4>1, <4>2
    <3>3. CASE script[s.ptr].typ \in Cut /\ s.ptr # 1
      <4>1. s.ptr \in 2 .. Len(script) /\ s.ptr - 1 \in 1 .. s.ptr - 1
        BY <1>2, <2>1, <3>3
      <4>2. s.next = View[s.ptr - 1] /\ View[s.ptr - 1].typ # "bad"
        BY <3>3, <4>1 DEF PosInv
      <4>3. View[s.ptr] = Stale(View[s.ptr - 1])
        BY <3>3, <4>1, <4>2, ViewFacts DEF TypeInv
      <4> QED
        BY <2>2, <3>3, <4>2, <4>3
    <3> QED
      BY <3>1, <3>2, <3>3
  <2>5. u.ptr = s.ptr + 1 /\ u.token = s.next /\ u = [ptr |-> u.ptr, token |-> u.token, next |-> u.next]
    BY <2>2
  <2> QED
    BY <1>1, <1>4, <2>3, <2>4, <2>5 DEF Stuck
<1> QED
  BY <1>3, <1>4

\* It keeps the parser's place.
LEMMA PosNext ==
    ASSUME TypeInv, PosInv, View' = View, s' = script_get_token(s)
    PROVE  PosInv'
<1> DEFINE u == script_get_token(s)
<1>1. /\ u \in [ptr : Nat, token : Looks, next : Looks]
      /\ Stuck(s.ptr) => u.ptr = s.ptr /\ u.next = s.next
      /\ ~Stuck(s.ptr) => /\ u.ptr = s.ptr + 1 /\ u.next = View[s.ptr]
                          /\ s.ptr <= Len(View) /\ View[s.ptr].typ # "bad"
  BY GetToken
<1>2. Len(View) \in Nat
  BY ScriptFacts DEF TypeInv
<1>3. s' = u
  OBVIOUS
<1> HIDE DEF u
<1>4. CASE Stuck(s.ptr)
  BY <1>1, <1>2, <1>3, <1>4 DEF PosInv
<1>5. CASE ~Stuck(s.ptr)
  <2>1. s'.ptr = s.ptr + 1 /\ s'.next = View[s.ptr] /\ s.ptr <= Len(View) /\ s.ptr \in Nat \ {0}
    BY <1>1, <1>2, <1>3, <1>5 DEF PosInv
  <2>2. \A k \in 1 .. s.ptr : View[k].typ # "bad"
    BY <1>1, <1>2, <1>5 DEF PosInv
  <2>3. s.ptr + 1 \in 1 .. Len(View) + 1 /\ s.ptr + 1 # 1 /\ (s.ptr + 1) - 1 = s.ptr
    BY <1>2, <2>1
  <2> QED
    BY <2>1, <2>2, <2>3 DEF PosInv
<1> QED
  BY <1>4, <1>5

-----------------------------------------------------------------------------
(* Types.                                                                  *)

Op == [name : Names, args : Seq(Values), on : Seq(Values)]

\* Giving up keeps the types.
LEMMA TypeFail ==
    ASSUME TypeInv, NEW e, Fail(e), s' \in [ptr : Nat, token : Looks, next : Looks]
    PROVE  TypeInv'
<1>1. open' \in SUBSET Nat
  BY DEF TypeInv, Fail, hid_close
<1> QED
  BY <1>1 DEF TypeInv, Fail

\* So does carrying out a command.
LEMMA TypeFinished ==
    ASSUME TypeInv, Finished, dev' \in [id : Nat, on : Seq(Values)]
    PROVE  ops' \in Seq(Op)
<1>1. [name |-> cmd.name, args |-> cmd.args, on |-> dev'.on] \in Op
  BY DEF TypeInv, Op
<1>2. ops \in Seq(Op)
  BY DEF TypeInv, Op
<1> QED
  BY <1>1, <1>2, AppendProperties DEF Finished

\* At the beginning of the script script_get_token reads the first token.
LEMMA GetFirst ==
    ASSUME script \in Scripts, NEW t \in [ptr : Nat, token : Looks, next : Looks], t.ptr = 1,
           NEW u, u = script_get_token(t)
    PROVE  /\ u \in [ptr : Nat, token : Looks, next : Looks]
           /\ View[1].typ = "bad" => u.ptr = 1 /\ u.next = t.next
           /\ View[1].typ # "bad" => u.ptr = 2
           /\ View[1].typ # "bad" /\ (script[1].typ \notin Cut \/ t.next = Invalid) => u.next = View[1]
<1>1. /\ View[1] \in Looks /\ 1 <= Len(script) /\ (View[1].typ = "bad" <=> script[1].typ = "bad")
      /\ script[1].typ \notin Cut => View[1] = script[1]
      /\ script[1].typ \in Cut => View[1] = Invalid
  <2>1. 1 \in 1 .. Len(script)
    BY TextFacts
  <2> QED
    BY <2>1, ViewFacts
<1>2. CASE script[1].typ = "bad"
  <2>1. u = [t EXCEPT !.token = t.next]
    BY <1>1, <1>2 DEF script_get_token
  <2> QED
    BY <1>1, <1>2, <2>1
<1>3. CASE script[1].typ # "bad"
  <2>1. u = [ptr |-> 1 + 1, token |-> t.next,
             next |-> IF script[1].typ \in Cut THEN Stale(t.next) ELSE script[1]]
    BY <1>1, <1>3 DEF script_get_token, More, Cut
  <2>2. Stale(t.next) \in Looks /\ Stale(Invalid) = Invalid
    BY StaleFacts
  <2>3. CASE script[1].typ \in Cut
    <3>1. u = [ptr |-> 1 + 1, token |-> t.next, next |-> Stale(t.next)]
      BY <2>1, <2>3
    <3> QED
      BY <1>1, <1>3, <2>2, <2>3, <3>1
  <2>4. CASE script[1].typ \notin Cut
    <3>1. u = [ptr |-> 1 + 1, token |-> t.next, next |-> View[1]]
      BY <1>1, <2>1, <2>4
    <3> QED
      BY <1>1, <1>3, <3>1
  <2> QED
    BY <2>3, <2>4
<1> QED
  BY <1>2, <1>3

\* The second pass begins like this.
LEMMA GetAgain ==
    ASSUME TypeInv, NEW v, v = script_parse_again(s)
    PROVE  /\ v \in [ptr : Nat, token : Looks, next : Looks]
           /\ View[1].typ # "bad" => v.ptr = 2
           /\ View[1].typ # "bad" /\ (script[1].typ \notin Cut \/ s.next = Invalid) => v.next = View[1]
<1>1. PICK t : t = [s EXCEPT !.ptr = 1]
  OBVIOUS
<1>2. PICK u : u = script_get_token(t)
  OBVIOUS
<1>3. t \in [ptr : Nat, token : Looks, next : Looks] /\ t.ptr = 1 /\ t.next = s.next
  BY <1>1 DEF TypeInv
<1>4. /\ u \in [ptr : Nat, token : Looks, next : Looks]
      /\ View[1].typ # "bad" => u.ptr = 2
      /\ View[1].typ # "bad" /\ (script[1].typ \notin Cut \/ t.next = Invalid) => u.next = View[1]
  BY <1>2, <1>3, GetFirst DEF TypeInv
<1>5. v = [u EXCEPT !.token = u.next]
  BY <1>1, <1>2 DEF script_parse_again
<1> QED
  BY <1>3, <1>4, <1>5

\* Every step keeps the types.
LEMMA TypeNext ==
    ASSUME TypeInv, PosInv, [Next]_vars
    PROVE  TypeInv'
<1> DEFINE Parser == [ptr : Nat, token : Looks, next : Looks]
<1>1. s \in Parser /\ script_get_token(s) \in Parser
  BY GetToken DEF TypeInv
<1>2. CASE script_parse_crash
  BY <1>2 DEF script_parse_crash, TypeInv
<1>3. CASE script_parse_skip
  BY <1>1, <1>3 DEF script_parse_skip, TypeInv
<1>4. CASE script_parse_reject
  BY <1>1, <1>4, TypeFail DEF script_parse_reject
<1>5. CASE script_parse_eol
  <2>1. CASE s.next.typ \notin {"comment", "nl"} /\ UNCHANGED s /\ Fail("syntax")
    BY <1>1, <2>1, TypeFail
  <2>2. CASE ~(s.next.typ \notin {"comment", "nl"} /\ UNCHANGED s /\ Fail("syntax"))
    BY <1>1, <1>5, <2>2 DEF script_parse_eol, TypeInv
  <2> QED
    BY <2>1, <2>2
<1>6. CASE script_parse_end
  <2>1. s' \in Parser
    <3>1. CASE s' = script_parse_again(s)
      BY <3>1, GetAgain
    <3>2. CASE s' = s
      BY <1>1, <3>2
    <3> QED
      BY <1>6, <3>1, <3>2 DEF script_parse_end
  <2>2. open' \in SUBSET Nat
    BY <1>6 DEF script_parse_end, hid_close, TypeInv
  <2> QED
    BY <1>6, <2>1, <2>2 DEF script_parse_end, TypeInv
<1>7. CASE script_parse_command
  <2>1. open' \in SUBSET Nat
    BY <1>7 DEF script_parse_command, hid_close, TypeInv
  <2>2. want' \in Seq(Kinds) /\ s.next.val \in Names
    BY <1>7, ArgsFacts DEF script_parse_command, Names
  <2>3. <<>> \in Seq(Values)
    BY EmptySeq
  <2>4. cmd' \in [name : Names, args : Seq(Values)]
    BY <1>7, <2>2, <2>3 DEF script_parse_command
  <2> QED
    BY <1>1, <1>7, <2>1, <2>2, <2>4 DEF script_parse_command, TypeInv
<1>8. CASE script_expect
  <2>1. CASE /\ Fits(s.next, Head(want)) /\ s' = script_get_token(s) /\ want' = Tail(want)
             /\ cmd' = [cmd EXCEPT !.args = Append(@, s.next.val)]
             /\ UNCHANGED <<script, pass, pc, err, dev, open, misuse, io, ops>>
    <3>1. Tail(want) \in Seq(Kinds)
      BY <1>8, HeadTailProperties DEF script_expect, TypeInv
    <3>2. s.next.val \in Values
      BY <1>1, TokenFacts
    <3>3. Append(cmd.args, s.next.val) \in Seq(Values)
      BY <3>2, AppendProperties DEF TypeInv
    <3>4. cmd' \in [name : Names, args : Seq(Values)]
      BY <2>1, <3>3 DEF TypeInv
    <3> QED
      BY <1>1, <2>1, <3>1, <3>4 DEF TypeInv
  <2>2. CASE Head(want) = "opt" /\ s.next.typ \in {"nl", "comment"} /\ want' = <<>>
             /\ UNCHANGED <<script, pass, pc, s, err, cmd, dev, open, misuse, io, ops>>
    <3>1. <<>> \in Seq(Kinds)
      BY EmptySeq
    <3> QED
      BY <2>2, <3>1 DEF TypeInv
  <2>3. CASE Fail("syntax") /\ UNCHANGED s
    BY <1>1, <2>3, TypeFail
  <2> QED
    BY <1>8, <2>1, <2>2, <2>3 DEF script_expect
<1>9. CASE wait_cmd
  BY <1>9 DEF wait_cmd, Dry, TypeInv
<1>10. CASE wait_cmd_open
  <2>1. NoDev \in [id : Nat, on : Seq(Values)]
    <3>1. <<>> \in Seq(Values)
      BY EmptySeq
    <3> QED
      BY <3>1 DEF NoDev
  <2>2. 1 + Len(ops) \in Nat
    BY LenProperties DEF TypeInv
  <2>3. dev' \in [id : Nat, on : Seq(Values)]
    BY <1>10, <2>1, <2>2 DEF wait_cmd_open, TypeInv
  <2>4. open' \in SUBSET Nat
    BY <1>10, <2>3 DEF wait_cmd_open, TypeInv
  <2>5. ops' \in Seq(Op)
    BY <1>10, <2>3, TypeFinished DEF wait_cmd_open, TypeInv, Op
  <2> QED
    BY <1>10, <2>3, <2>4, <2>5 DEF wait_cmd_open, TypeInv, Op
<1>11. CASE device_cmd
  <2>1. CASE hid_write_error
    BY <1>1, <1>11, <2>1, TypeFail DEF hid_write_error, device_cmd
  <2>2. CASE ~hid_write_error
    BY <1>11, <2>2 DEF device_cmd, Dry, hid_write_cmd, TypeInv
  <2> QED
    BY <2>1, <2>2
<1>12. CASE file_cmd
  <2>1. CASE hid_write_error
    BY <1>1, <1>12, <2>1, TypeFail DEF hid_write_error, file_cmd
  <2>2. CASE get_buffer_error
    BY <1>1, <1>12, <2>2, TypeFail DEF get_buffer_error, file_cmd
  <2>3. CASE ~hid_write_error /\ ~get_buffer_error
    BY <1>12, <2>3 DEF file_cmd, Dry, hid_write_cmd, TypeInv
  <2> QED
    BY <2>1, <2>2, <2>3
<1>13. CASE hid_write_data
  <2>1. CASE Fault /\ Fail("device") /\ UNCHANGED s
    BY <1>1, <2>1, TypeFail
  <2>2. CASE ~(Fault /\ Fail("device") /\ UNCHANGED s)
    BY <1>13, <2>2 DEF hid_write_data, TypeInv
  <2> QED
    BY <2>1, <2>2
<1>14. CASE hid_write_last
  <2>1. dev' = dev
    BY <1>14 DEF hid_write_last
  <2>2. ops' \in Seq(Op)
    BY <1>14, <2>1, TypeFinished DEF hid_write_last, TypeInv, Op
  <2> QED
    BY <1>14, <2>1, <2>2 DEF hid_write_last, TypeInv, Op
<1>15. CASE hid_read
  <2>1. CASE Fault /\ Fail("device")
    BY <1>1, <1>15, <2>1, TypeFail DEF hid_read
  <2>2. CASE ~(Fault /\ Fail("device"))
    <3>1. dev' = dev
      BY <1>15, <2>2 DEF hid_read
    <3>2. ops' \in Seq(Op)
      BY <1>15, <2>2, <3>1, TypeFinished DEF hid_read, TypeInv, Op
    <3> QED
      BY <1>15, <2>2, <3>1, <3>2 DEF hid_read, TypeInv, Op
  <2> QED
    BY <2>1, <2>2
<1>16. CASE UNCHANGED vars
  BY <1>16 DEF vars, TypeInv
<1> QED
  BY <1>2, <1>3, <1>4, <1>5, <1>6, <1>7, <1>8, <1>9, <1>10, <1>11, <1>12, <1>13, <1>14, <1>15,
     <1>16 DEF Next, finished

\* The script does not change, and the parser stays, reads a token, or begins
\* again at the end.
LEMMA Parses ==
    ASSUME [Next]_vars
    PROVE  /\ View' = View
           /\ \/ s' = s \/ s' = script_get_token(s)
              \/ s' = script_parse_again(s) /\ ~More(s) /\ pc = "parse"
<1> SUFFICES /\ script' = script
             /\ \/ s' = s \/ s' = script_get_token(s)
                \/ s' = script_parse_again(s) /\ ~More(s) /\ pc = "parse"
  BY ViewKept
<1>1. CASE script_parse_crash \/ script_parse_skip \/ script_parse_eol
  BY <1>1 DEF script_parse_crash, script_parse_skip, script_parse_eol, Fail
<1>2. CASE script_parse_reject
  BY <1>2 DEF script_parse_reject, Fail
<1>3. CASE script_parse_end
  BY <1>3 DEF script_parse_end
<1>4. CASE script_parse_command
  BY <1>4 DEF script_parse_command
<1>5. CASE script_expect
  BY <1>5 DEF script_expect, Fail
<1>6. CASE wait_cmd \/ wait_cmd_open \/ device_cmd \/ file_cmd
  BY <1>6 DEF wait_cmd, wait_cmd_open, device_cmd, file_cmd
<1>7. CASE hid_write_data
  BY <1>7 DEF hid_write_data, Fail
<1>8. CASE hid_write_last
  BY <1>8 DEF hid_write_last
<1>9. CASE hid_read
  BY <1>9 DEF hid_read, Fail
<1>10. CASE UNCHANGED vars
  BY <1>10 DEF vars
<1> QED
  BY <1>1, <1>2, <1>3, <1>4, <1>5, <1>6, <1>7, <1>8, <1>9, <1>10 DEF Next, finished

\* Every step keeps the parser's place.
LEMMA PosStep ==
    ASSUME TypeInv, PosInv, ParserInv, [Next]_vars
    PROVE  PosInv'
<1>1. CASE s' = s
  BY <1>1, Parses DEF PosInv
<1>2. CASE s' = script_get_token(s)
  BY <1>2, Parses, PosNext
<1>3. CASE s' = script_parse_again(s) /\ ~More(s) /\ pc = "parse"
  <2>1. /\ Len(View) \in Nat /\ Len(View) >= 1 /\ s.ptr = Len(View) + 1
        /\ Len(View) = Len(script)
    BY <1>3, ScriptFacts DEF More, PosInv, TypeInv
  <2>2. View[1].typ # "bad"
    BY <2>1 DEF PosInv
  <2>4. script[1].typ \notin Cut \/ s.next = Invalid
    <3>1. SUFFICES ASSUME script[1].typ \in Cut PROVE s.next = Invalid
      OBVIOUS
    <3>2. View[1] = Invalid /\ Invalid.typ = "invalid"
      BY <3>1, ViewFacts DEF TypeInv, Invalid, Tok
    <3>3. ~VProper(1)
      BY <3>2 DEF VProper, VEnds, VCommandAt
    <3>4. Checked(Len(View))
      <4>1. s.ptr > 1 /\ s.ptr - 1 = Len(View)
        BY <2>1
      <4> QED
        BY <1>3, <4>1 DEF ParserInv
    <3>5. Len(View) = 1
      <4>1. SUFFICES ASSUME Len(View) > 1 PROVE FALSE
        BY <2>1
      <4>2. 1 \in 1 .. Len(View) - 1 /\ VStarts(1)
        BY <2>1, <4>1 DEF VStarts
      <4> QED
        BY <3>3, <3>4, <4>2 DEF Checked
    <3>6. s.ptr # 1 /\ s.ptr - 1 = 1
      BY <2>1, <3>5
    <3> QED
      BY <3>2, <3>6 DEF PosInv
  <2>3. s'.ptr = 2 /\ s'.next = View[1]
    BY <1>3, <2>2, <2>4, GetAgain
  <2> QED
    BY <2>1, <2>2, <2>3, Parses DEF PosInv
<1> QED
  BY <1>1, <1>2, <1>3, Parses

-----------------------------------------------------------------------------
(* Commands and their arguments in the script.                             *)

\* A command and its arguments are no end of a statement.
LEMMA NotEnd ==
    ASSUME script \in Scripts, NEW k, NEW c \in [name : Names, args : Seq(Values)], BegunAt(k, c),
           NEW i \in 0 .. Len(c.args)
    PROVE  ~VEnds(k + i)
<1>1. k \in Nat /\ Len(c.args) \in Nat /\ c.name \in funcs
  BY ScriptFacts, LenProperties DEF BegunAt
<1>2. CASE i = 0
  BY <1>1, <1>2 DEF BegunAt, VEnds
<1>3. CASE i # 0
  <2>1. ArgAt(k, c, i) /\ i \in Nat
    BY <1>1, <1>3 DEF BegunAt
  <2>2. Args[c.name][i] \in Kinds
    BY <1>1, <1>3, <2>1, ArgsFacts, ElementOfSeq, LenProperties DEF ArgAt
  <2>3. View[k + i].typ \in {"int", "str", "id"}
    BY <2>1, <2>2, FitsFacts DEF ArgAt
  <2> QED
    BY <2>3 DEF VEnds
<1> QED
  BY <1>2, <1>3

\* No statement begins inside of another.
LEMMA NoStart ==
    ASSUME script \in Scripts, NEW k, NEW c \in [name : Names, args : Seq(Values)], BegunAt(k, c),
           NEW j \in k + 1 .. k + Len(c.args) + 1
    PROVE  ~VStarts(j)
<1>1. k \in Nat /\ k >= 1 /\ Len(c.args) \in Nat
  BY ScriptFacts, LenProperties DEF BegunAt
<1>2. PICK i : i = j - 1 - k
  OBVIOUS
<1>3. i \in 0 .. Len(c.args) /\ j - 1 = k + i /\ j # 1
  BY <1>1, <1>2
<1> QED
  BY <1>3, NotEnd DEF VStarts

\* Nothing of a command is bad, and it goes on to its end.
LEMMA NotBad ==
    ASSUME script \in Scripts, NEW k \in 1 .. Len(View), NEW n \in Nat, VCommandAt(k, n),
           NEW i \in 0 .. n
    PROVE  k + i + 1 <= Len(View) /\ View[k + i + 1].typ # "bad"
<1>1. Len(View) \in Nat /\ k + n + 1 <= Len(View) /\ View[k].val \in funcs
  BY ScriptFacts DEF VCommandAt, VEnds
<1>2. CASE i = n
  BY <1>1, <1>2 DEF VCommandAt, VEnds
<1>3. CASE i # n
  <2>1. PICK m : m = i + 1
    OBVIOUS
  <2>2. m \in 1 .. n /\ k + i + 1 = k + m
    BY <1>1, <1>3, <2>1
  <2>3. m <= Len(Args[View[k].val]) /\ Fits(View[k + m], Args[View[k].val][m])
    BY <2>2 DEF VCommandAt
  <2>4. Args[View[k].val][m] \in Kinds
    BY <1>1, <2>2, <2>3, ArgsFacts, ElementOfSeq, LenProperties
  <2>5. View[k + m].typ \in {"int", "str", "id"}
    BY <2>3, <2>4, FitsFacts
  <2> QED
    BY <1>1, <2>2, <2>5
<1> QED
  BY <1>2, <1>3

\* A statement that was read and ends is a proper one.
LEMMA ReadProper ==
    ASSUME script \in Scripts, NEW k, NEW c \in [name : Names, args : Seq(Values)], BegunAt(k, c),
           OptFrom(c), FileThere(c), VEnds(k + Len(c.args) + 1)
    PROVE  VCommandAt(k, Len(c.args)) /\ VProper(k)
<1>1. PICK n : n = Len(c.args)
  OBVIOUS
<1>2. n \in Nat /\ k \in 1 .. Len(View) /\ Len(View) \in Nat /\ c.name \in funcs
  BY <1>1, ScriptFacts, LenProperties DEF BegunAt
<1>3. View[k].typ = "id" /\ View[k].val = c.name
  BY DEF BegunAt
<1>4. \A i \in 1 .. n : i <= Len(Args[c.name]) /\ Fits(View[k + i], Args[c.name][i])
  BY <1>1 DEF BegunAt, ArgAt
<1>5. \A i \in n + 1 .. Len(Args[c.name]) : Args[c.name][i] = "opt"
  BY <1>1 DEF OptFrom
<1>6. c.name = "WRITE_FILE" => Usable(View[k + 1].val, View[k + 2].val)
  <2>1. SUFFICES ASSUME c.name = "WRITE_FILE" PROVE Usable(View[k + 1].val, View[k + 2].val)
    OBVIOUS
  <2>2. Args[c.name] = <<"kind", "str", "opt", "opt", "opt", "opt">>
    BY <2>1 DEF Args
  <2>3. n >= 2
    BY <1>2, <1>5, <2>2
  <2>4. c.args[1] = View[k + 1].val /\ c.args[2] = View[k + 2].val
    <3>1. 1 \in 1 .. Len(c.args) /\ 2 \in 1 .. Len(c.args)
      BY <1>1, <1>2, <2>3
    <3>2. ArgAt(k, c, 1) /\ ArgAt(k, c, 2)
      BY <3>1 DEF BegunAt
    <3> QED
      BY <3>2 DEF ArgAt
  <2>5. Usable(c.args[1], c.args[2])
    BY <2>1 DEF FileThere
  <2> QED
    BY <2>4, <2>5
<1>7. c.name = "LOAD_IMAGE" => Usable("F", View[k + 1].val)
  <2>1. SUFFICES ASSUME c.name = "LOAD_IMAGE" PROVE Usable("F", View[k + 1].val)
    OBVIOUS
  <2>2. Args[c.name] = <<"str">>
    BY <2>1 DEF Args
  <2>3. n >= 1
    BY <1>2, <1>5, <2>2
  <2>4. c.args[1] = View[k + 1].val
    <3>1. 1 \in 1 .. Len(c.args)
      BY <1>1, <1>2, <2>3
    <3>2. ArgAt(k, c, 1)
      BY <3>1 DEF BegunAt
    <3> QED
      BY <3>2 DEF ArgAt
  <2>5. Usable("F", c.args[1])
    BY <2>1 DEF FileThere
  <2> QED
    BY <2>4, <2>5
<1>8. VCommandAt(k, n)
  BY <1>1, <1>2, <1>3, <1>4, <1>5, <1>6, <1>7 DEF VCommandAt
<1>9. n \in 0 .. Len(View)
  BY <1>1, <1>2, <1>8 DEF VCommandAt, VEnds
<1> QED
  BY <1>1, <1>8, <1>9 DEF VProper

\* With it everything up to its end has been checked.
LEMMA ReadChecked ==
    ASSUME script \in Scripts, NEW k, NEW c \in [name : Names, args : Seq(Values)], BegunAt(k, c),
           OptFrom(c), FileThere(c), VEnds(k + Len(c.args) + 1)
    PROVE  Checked(k + Len(c.args) + 1) /\ Checked(k + Len(c.args) + 2)
<1>1. k \in Nat /\ k >= 1 /\ Len(c.args) \in Nat
  BY ScriptFacts, LenProperties DEF BegunAt
<1>2. ASSUME NEW j \in 1 .. k + Len(c.args) + 1, VStarts(j)
      PROVE  VProper(j)
  <2>1. CASE j < k
    BY <1>1, <1>2, <2>1 DEF BegunAt, Checked
  <2>2. CASE j = k
    BY <2>2, ReadProper
  <2>3. CASE j > k
    <3>1. j \in k + 1 .. k + Len(c.args) + 1
      BY <1>1, <2>3
    <3> QED
      BY <1>2, <3>1, NoStart
  <2> QED
    BY <1>1, <2>1, <2>2, <2>3
<1> QED
  BY <1>1, <1>2 DEF Checked

\* In a script that was verified a command that has begun is a proper one, and no
\* more arguments have been read than it has.
LEMMA RunCommand ==
    ASSUME script \in Scripts, Verified, NEW k, NEW c \in [name : Names, args : Seq(Values)],
           BegunAt(k, c), k < Len(View)
    PROVE  \E n \in Nat : VCommandAt(k, n) /\ Len(c.args) <= n
<1>1. k \in Nat /\ k >= 1 /\ Len(c.args) \in Nat /\ Len(View) \in Nat
  BY ScriptFacts, LenProperties DEF BegunAt
<1>2. VProper(k)
  BY <1>1 DEF Verified, BegunAt
<1>3. ~VEnds(k)
  BY <1>1 DEF BegunAt, VEnds
<1>4. PICK n \in 0 .. Len(View) : VCommandAt(k, n)
  BY <1>2, <1>3 DEF VProper
<1>5. n \in Nat /\ VEnds(k + n + 1)
  BY <1>1, <1>4 DEF VCommandAt
<1>6. ~(n + 1 \in 0 .. Len(c.args))
  <2>1. SUFFICES ASSUME n + 1 \in 0 .. Len(c.args) PROVE FALSE
    OBVIOUS
  <2>2. PICK i \in 0 .. Len(c.args) : i = n + 1
    BY <2>1
  <2>3. k + i = k + n + 1
    BY <1>1, <1>5, <2>2
  <2> QED
    BY <1>5, <2>3, NotEnd
<1> QED
  BY <1>1, <1>4, <1>5, <1>6

\* If an argument may be left out so may those behind it.
LEMMA OptRest ==
    ASSUME NEW c \in [name : Names, args : Seq(Values)], c.name \in funcs, NEW w \in Seq(Kinds),
           Left(c, w), w # <<>>, Head(w) = "opt"
    PROVE  OptFrom(c)
<1>1. PICK a : a = Args[c.name]
  OBVIOUS
<1>2. PICK n : n = Len(c.args)
  OBVIOUS
<1>3. n \in Nat /\ Len(a) \in Nat /\ Len(w) \in Nat /\ Len(w) # 0 /\ w[1] = "opt"
  BY <1>1, <1>2, LenProperties, EmptySeq, ArgsFacts
<1>4. a[n + 1] = "opt" /\ n + 1 <= Len(a)
  BY <1>1, <1>2, <1>3 DEF Left
<1>5. CASE c.name = "WRITE_FILE"
  <2>1. a = <<"kind", "str", "opt", "opt", "opt", "opt">>
    BY <1>1, <1>5 DEF Args
  <2>2. \A i \in n + 1 .. 6 : a[i] = "opt"
    BY <1>3, <1>4, <2>1
  <2> QED
    BY <1>1, <1>2, <2>1, <2>2 DEF OptFrom
<1>6. CASE c.name # "WRITE_FILE"
  <2>1. a \in {<<>>, <<"int">>, <<"str">>, <<"int", "int">>, <<"int", "int", "int">>}
    BY <1>1, <1>6 DEF Args, funcs
  <2>2. \A i \in 1 .. Len(a) : a[i] # "opt"
    BY <2>1
  <2> QED
    BY <1>3, <1>4, <2>2
<1> QED
  BY <1>5, <1>6

\* When nothing is left to read, what was not read may be left out.
LEMMA LeftNone ==
    ASSUME NEW c \in [name : Names, args : Seq(Values)], c.name \in funcs, NEW p,
           Reading(p, c, <<>>)
    PROVE  OptFrom(c)
<1>1. CASE OptFrom(c)
  BY <1>1
<1>2. CASE Left(c, <<>>)
  <2>1. Len(c.args) \in Nat /\ Len(Args[c.name]) \in Nat
    BY LenProperties, ArgsFacts
  <2>2. Len(<<>>) = 0
    OBVIOUS
  <2>3. Len(Args[c.name]) = Len(c.args)
    BY <1>2, <2>1, <2>2 DEF Left
  <2> QED
    BY <2>1, <2>3 DEF OptFrom
<1> QED
  BY <1>1, <1>2 DEF Reading

\* A command that begins l + 2 places before p, with p in a script of n tokens.
LEMMA PlaceSum ==
    ASSUME NEW n \in Nat, NEW l \in Nat, NEW p \in Nat, p <= n + 1, NEW k \in 1 .. n, k = p - 2 - l
    PROVE  k < n /\ p = k + l + 2 /\ (p + 1) - 2 - (l + 1) = k
  OBVIOUS

\* Where a command in work has begun.
LEMMA Place ==
    ASSUME TypeInv, PosInv, NEW l, l = Len(cmd.args), NEW k, k = s.ptr - 2 - l, BegunAt(k, cmd)
    PROVE  /\ l \in Nat /\ k \in 1 .. Len(View) /\ Len(View) \in Nat /\ s.ptr \in Nat
           /\ k < Len(View) /\ s.ptr = k + l + 2 /\ s.ptr <= Len(View) + 1
           /\ cmd.name \in funcs
<1>1. Len(View) \in Nat /\ cmd.args \in Seq(Values)
  BY ScriptFacts DEF TypeInv
<1>2. l \in Nat
  BY <1>1, LenProperties
<1>3. s.ptr \in Nat /\ s.ptr <= Len(View) + 1
  BY <1>1 DEF PosInv
<1>4. k \in 1 .. Len(View) /\ cmd.name \in funcs
  BY DEF BegunAt
<1>5. k < Len(View) /\ s.ptr = k + l + 2
  BY <1>1, <1>2, <1>3, <1>4, PlaceSum
<1> QED
  BY <1>1, <1>2, <1>3, <1>4, <1>5

\* The second pass finds the arguments that the first has checked.
LEMMA RunNext ==
    ASSUME TypeInv, PosInv, Verified, Reading(s.ptr, cmd, want), want # <<>>
    PROVE  \/ Fits(s.next, Head(want)) /\ ~Stuck(s.ptr)
           \/ Head(want) = "opt" /\ s.next.typ \in {"nl", "comment"}
<1>1. PICK l : l = Len(cmd.args)
  OBVIOUS
<1>2. PICK k : k = s.ptr - 2 - l
  OBVIOUS
<1>3. BegunAt(k, cmd) /\ Left(cmd, want) /\ cmd \in [name : Names, args : Seq(Values)]
  BY <1>1, <1>2 DEF Reading, TypeInv
<1>4. /\ l \in Nat /\ k \in 1 .. Len(View) /\ Len(View) \in Nat /\ s.ptr \in Nat
      /\ k < Len(View) /\ s.ptr = k + l + 2 /\ s.ptr <= Len(View) + 1 /\ cmd.name \in funcs
  BY <1>1, <1>2, <1>3, Place
<1>5. PICK n \in Nat : VCommandAt(k, n) /\ l <= n
  BY <1>1, <1>3, <1>4, RunCommand DEF TypeInv
<1>6. PICK a : a = Args[cmd.name]
  OBVIOUS
<1>7. Len(want) \in Nat /\ Len(want) # 0 /\ Head(want) = want[1] /\ Len(a) \in Nat
  BY <1>4, <1>6, LenProperties, EmptySeq, ArgsFacts DEF TypeInv
<1>8. Head(want) = a[l + 1] /\ l + 1 <= Len(a)
  BY <1>1, <1>3, <1>4, <1>6, <1>7 DEF Left
<1>9. s.next = View[k + l + 1]
  <2>1. s.ptr # 1 /\ s.ptr - 1 = k + l + 1
    BY <1>4
  <2> QED
    BY <2>1 DEF PosInv
<1>10. View[k].val = cmd.name
  BY <1>3 DEF BegunAt
<1>11. CASE l < n
  <2>1. PICK m : m = l + 1
    OBVIOUS
  <2>2. m \in 1 .. n /\ k + l + 1 = k + m /\ s.ptr = k + m + 1 /\ m \in 0 .. n
    BY <1>4, <1>11, <2>1
  <2>3. Fits(View[k + m], a[m])
    BY <1>5, <1>6, <1>10, <2>2 DEF VCommandAt
  <2>4. k + m + 1 <= Len(View) /\ View[k + m + 1].typ # "bad"
    BY <1>4, <1>5, <2>2, NotBad DEF TypeInv
  <2>5. ~Stuck(s.ptr)
    BY <2>2, <2>4 DEF Stuck
  <2> QED
    BY <1>8, <1>9, <2>1, <2>2, <2>3, <2>5
<1>12. CASE l = n
  <2>1. VEnds(k + l + 1)
    BY <1>5, <1>12 DEF VCommandAt
  <2>2. l + 1 \in n + 1 .. Len(a)
    BY <1>4, <1>7, <1>8, <1>12
  <2>3. a[l + 1] = "opt"
    BY <1>5, <1>6, <1>10, <2>2 DEF VCommandAt
  <2> QED
    BY <1>8, <1>9, <2>1, <2>3 DEF VEnds
<1> QED
  BY <1>4, <1>5, <1>11, <1>12

\* When it has all of them the command is the one that was checked.
LEMMA RunDone ==
    ASSUME TypeInv, PosInv, Verified, Reading(s.ptr, cmd, <<>>)
    PROVE  /\ VCommandAt(s.ptr - 2 - Len(cmd.args), Len(cmd.args)) /\ FileThere(cmd)
           /\ s.next.typ \in {"nl", "comment"} /\ VEnds(s.ptr - 1)
<1>1. PICK l : l = Len(cmd.args)
  OBVIOUS
<1>2. PICK k : k = s.ptr - 2 - l
  OBVIOUS
<1>3. /\ BegunAt(k, cmd) /\ cmd \in [name : Names, args : Seq(Values)]
      /\ Left(cmd, <<>>) \/ VEnds(s.ptr - 1)
  BY <1>1, <1>2 DEF Reading, TypeInv
<1>4. /\ l \in Nat /\ k \in 1 .. Len(View) /\ Len(View) \in Nat /\ s.ptr \in Nat
      /\ k < Len(View) /\ s.ptr = k + l + 2 /\ s.ptr <= Len(View) + 1 /\ cmd.name \in funcs
  BY <1>1, <1>2, <1>3, Place
<1>5. PICK n \in Nat : VCommandAt(k, n) /\ l <= n
  BY <1>1, <1>3, <1>4, RunCommand DEF TypeInv
<1>6. View[k].val = cmd.name
  BY <1>3 DEF BegunAt
<1>7. s.ptr # 1 /\ s.ptr - 1 = k + l + 1
  BY <1>4
<1>8. l = n
  <2>1. SUFFICES ASSUME l < n PROVE FALSE
    BY <1>4, <1>5
  <2>2. PICK m : m = l + 1
    OBVIOUS
  <2>3. m \in 1 .. n /\ k + l + 1 = k + m
    BY <1>4, <2>1, <2>2
  <2>4. m <= Len(Args[cmd.name]) /\ Fits(View[k + m], Args[cmd.name][m])
    BY <1>5, <1>6, <2>3 DEF VCommandAt
  <2>5. Args[cmd.name] \in Seq(Kinds) /\ Len(Args[cmd.name]) \in Nat
    BY <1>4, ArgsFacts, LenProperties
  <2>6. Args[cmd.name][m] \in Kinds
    BY <2>3, <2>4, <2>5, ElementOfSeq
  <2>7. View[k + m].typ \in {"int", "str", "id"}
    BY <2>4, <2>6, FitsFacts
  <2>8. ~VEnds(s.ptr - 1)
    BY <1>7, <2>3, <2>7 DEF VEnds
  <2>9. Left(cmd, <<>>)
    BY <1>3, <2>8
  <2>10. Len(<<>>) = 0
    OBVIOUS
  <2>11. Len(Args[cmd.name]) = l
    BY <1>1, <1>4, <2>5, <2>9, <2>10 DEF Left
  <2> QED
    BY <1>4, <2>2, <2>4, <2>11
<1>9. VEnds(s.ptr - 1)
  BY <1>5, <1>7, <1>8 DEF VCommandAt
<1>10. s.next.typ \in {"nl", "comment"}
  BY <1>7, <1>9 DEF PosInv, VEnds
<1>11. FileThere(cmd)
  <2>1. CASE cmd.name = "WRITE_FILE"
    <3>1. Args[cmd.name] = <<"kind", "str", "opt", "opt", "opt", "opt">>
      BY <2>1 DEF Args
    <3>2. \A i \in n + 1 .. 6 : Args[cmd.name][i] = "opt"
      BY <1>5, <1>6, <3>1 DEF VCommandAt
    <3>3. 1 \in 1 .. Len(cmd.args) /\ 2 \in 1 .. Len(cmd.args)
      BY <1>1, <1>4, <1>8, <3>1, <3>2
    <3>4. ArgAt(k, cmd, 1) /\ ArgAt(k, cmd, 2)
      BY <1>3, <3>3 DEF BegunAt
    <3>5. Usable(View[k + 1].val, View[k + 2].val)
      BY <1>5, <1>6, <2>1 DEF VCommandAt
    <3>6. cmd.args[1] = View[k + 1].val /\ cmd.args[2] = View[k + 2].val
      BY <3>4 DEF ArgAt
    <3> QED
      BY <2>1, <3>5, <3>6 DEF FileThere
  <2>2. CASE cmd.name = "LOAD_IMAGE"
    <3>1. Args[cmd.name] = <<"str">>
      BY <2>2 DEF Args
    <3>2. \A i \in n + 1 .. 1 : Args[cmd.name][i] = "opt"
      BY <1>5, <1>6, <3>1 DEF VCommandAt
    <3>3. 1 \in 1 .. Len(cmd.args)
      BY <1>1, <1>4, <1>8, <3>1, <3>2
    <3>4. ArgAt(k, cmd, 1)
      BY <1>3, <3>3 DEF BegunAt
    <3>5. Usable("F", View[k + 1].val)
      BY <1>5, <1>6, <2>2 DEF VCommandAt
    <3>6. cmd.args[1] = View[k + 1].val
      BY <3>4 DEF ArgAt
    <3> QED
      BY <2>2, <3>5, <3>6 DEF FileThere
  <2> QED
    BY <2>1, <2>2 DEF FileThere
<1>12. VCommandAt(s.ptr - 2 - Len(cmd.args), Len(cmd.args))
  BY <1>1, <1>2, <1>5, <1>8
<1> QED
  BY <1>9, <1>10, <1>11, <1>12

-----------------------------------------------------------------------------
(* The parser reads the script as it is.                                   *)

\* The script stays, and with it what is said of it.
LEMMA Kept ==
    ASSUME View' = View, NEW p, p = s'.ptr, NEW c, c = cmd', NEW w, w = want'
    PROVE  /\ Verified' <=> Verified
           /\ Checked(s.ptr - 1)' <=> Checked(p - 1)
           /\ VStarts(s.ptr - 1)' <=> VStarts(p - 1)
           /\ VEnds(s.ptr - 1)' <=> VEnds(p - 1)
           /\ Stuck(s.ptr)' <=> Stuck(p)
           /\ Reading(s.ptr, cmd, want)' <=> Reading(p, c, w)
           /\ FileThere(cmd)' <=> FileThere(c)
<1>1. Verified' <=> Verified
  BY DEF Verified, VStarts, VEnds, VProper, VCommandAt
<1>2. Checked(s.ptr - 1)' <=> Checked(p - 1)
  BY DEF Checked, VStarts, VEnds, VProper, VCommandAt
<1>3. VStarts(s.ptr - 1)' <=> VStarts(p - 1)
  BY DEF VStarts, VEnds
<1>4. (VEnds(s.ptr - 1)' <=> VEnds(p - 1)) /\ (Stuck(s.ptr)' <=> Stuck(p))
  BY DEF VEnds, Stuck
<1>5. Reading(s.ptr, cmd, want)' <=> Reading(p, c, w)
  BY DEF Reading, BegunAt, Left, OptFrom, ArgAt, Checked, VStarts, VEnds, VProper, VCommandAt
<1>6. FileThere(cmd)' <=> FileThere(c)
  BY DEF FileThere
<1> QED
  BY <1>1, <1>2, <1>3, <1>4, <1>5, <1>6

\* The ways to a state of the parser: to the next statement,
LEMMA ToParse ==
    ASSUME View' = View, pc' = "parse", err' = "none", NEW p, p = s'.ptr,
           p > 1 => Checked(p - 1) /\ (VStarts(p - 1) \/ (Stuck(p) /\ VEnds(p - 1))),
           pass' = "run" => Verified /\ p > 1
    PROVE  ParserInv'
<1>1. PICK c, w : c = cmd' /\ w = want'
  OBVIOUS
<1>2. /\ Verified' <=> Verified
      /\ Checked(s.ptr - 1)' <=> Checked(p - 1)
      /\ VStarts(s.ptr - 1)' <=> VStarts(p - 1)
      /\ VEnds(s.ptr - 1)' <=> VEnds(p - 1)
      /\ Stuck(s.ptr)' <=> Stuck(p)
  BY <1>1, Kept
<1> QED
  BY <1>2 DEF ParserInv

\* to the next argument,
LEMMA ToArgs ==
    ASSUME View' = View, pc' = "args", err' = "none", NEW p, p = s'.ptr, NEW c, c = cmd',
           NEW w, w = want',
           (pass' = "dry" /\ Stuck(p) /\ s'.next.typ \notin {"nl", "comment"}) \/ Reading(p, c, w),
           pass' = "run" => Verified /\ p > 1
    PROVE  ParserInv'
<1>1. /\ Verified' <=> Verified
      /\ Stuck(s.ptr)' <=> Stuck(p)
      /\ Reading(s.ptr, cmd, want)' <=> Reading(p, c, w)
  BY Kept
<1> QED
  BY <1>1 DEF ParserInv, Hung

\* on with the command, whose arguments are complete,
LEMMA ToWork ==
    ASSUME UNCHANGED <<script, pass, s, cmd, want, err>>, TypeInv, PosInv, ParserInv, want = <<>>,
           pc \in {"args", "wait", "data", "reply"}, pc' \in {"wait", "data", "reply", "eol"},
           pc' # "eol" => pass = "run",
           FileThere(cmd) \/ cmd.name \notin {"WRITE_FILE", "LOAD_IMAGE"}
    PROVE  ParserInv'
<1>1. PICK p, c, w : p = s'.ptr /\ c = cmd' /\ w = want'
  OBVIOUS
<1>2. p = s.ptr /\ c = cmd /\ w = want
  BY <1>1
<1>3. /\ Verified' <=> Verified
      /\ Stuck(s.ptr)' <=> Stuck(p)
      /\ Reading(s.ptr, cmd, want)' <=> Reading(p, c, w)
      /\ FileThere(cmd)' <=> FileThere(c)
  BY ViewKept, <1>1, Kept
<1>4. FileThere(cmd)
  BY DEF FileThere
<1>5. Hung \/ Reading(s.ptr, cmd, want)
  BY DEF ParserInv
<1>6. Hung' \/ Reading(s.ptr, cmd, want)'
  BY <1>2, <1>3, <1>5 DEF Hung
<1>7. pass = "run" => Verified /\ s.ptr > 1
  BY DEF ParserInv
<1>8. err = "none"
  BY DEF ParserInv
<1> QED
  BY <1>2, <1>3, <1>4, <1>6, <1>7, <1>8 DEF ParserInv

\* or to the end.
LEMMA ToEnd ==
    ASSUME View' = View, pc' \in {"ended", "crashed"}, pc' = "crashed" => err' = "none",
           pass' = "run" => Verified /\ s'.ptr > 1 /\ err' # "syntax"
    PROVE  ParserInv'
<1>1. PICK p, c, w : p = s'.ptr /\ c = cmd' /\ w = want'
  OBVIOUS
<1>2. Verified' <=> Verified
  BY <1>1, Kept
<1> QED
  BY <1>2 DEF ParserInv

\* An error that is not the script's ends the pass.
LEMMA ToFail ==
    ASSUME UNCHANGED s, PosInv, ParserInv, NEW e, Fail(e), pass = "run" => e # "syntax"
    PROVE  ParserInv'
  BY ViewKept, ToEnd DEF Fail, ParserInv

\* Behind the end of a statement another one starts.
LEMMA Advance ==
    ASSUME TypeInv, PosInv, VEnds(s.ptr - 1), Checked(s.ptr - 1), Checked(s.ptr),
           NEW u, u = script_get_token(s), NEW p, p = u.ptr
    PROVE  p > 1 /\ Checked(p - 1) /\ (VStarts(p - 1) \/ (Stuck(p) /\ VEnds(p - 1)))
<1>1. s.ptr \in Nat /\ s.ptr > 1
  BY ScriptFacts DEF PosInv, TypeInv, VEnds
<1>2. CASE Stuck(s.ptr)
  <2>1. p = s.ptr
    BY <1>2, GetToken
  <2> QED
    BY <1>1, <1>2, <2>1
<1>3. CASE ~Stuck(s.ptr)
  <2>1. p = s.ptr + 1
    BY <1>3, GetToken
  <2>2. p - 1 = s.ptr
    BY <1>1, <2>1
  <2>3. VStarts(s.ptr)
    BY DEF VStarts
  <2> QED
    BY <1>1, <2>1, <2>2, <2>3
<1> QED
  BY <1>2, <1>3

\* What the parser looks at is a token of the script.
LEMMA LooksAt ==
    ASSUME TypeInv, PosInv, s.next.typ # "invalid"
    PROVE  /\ s.ptr > 1 /\ s.ptr - 1 \in 1 .. Len(View) /\ s.next = View[s.ptr - 1]
           /\ s.ptr \in Nat /\ Len(View) \in Nat
           /\ s.next.typ \in {"nl", "comment"} <=> VEnds(s.ptr - 1)
<1>1. Len(View) \in Nat /\ s.ptr \in 1 .. Len(View) + 1
  BY ScriptFacts DEF TypeInv, PosInv
<1>2. s.ptr # 1
  BY DEF PosInv, Invalid, Tok
<1>3. s.next = View[s.ptr - 1]
  BY <1>2 DEF PosInv
<1> QED
  BY <1>1, <1>2, <1>3 DEF VEnds

\* One more statement has been checked.
LEMMA CheckedMore ==
    ASSUME NEW x \in Nat, Checked(x), VStarts(x) => VProper(x)
    PROVE  Checked(x + 1)
<1>1. ASSUME NEW k \in 1 .. (x + 1) - 1, VStarts(k)
      PROVE  VProper(k)
  <2>1. CASE k = x
    BY <1>1, <2>1
  <2>2. CASE k # x
    <3>1. k \in 1 .. x - 1
      BY <1>1, <2>2
    <3> QED
      BY <1>1, <3>1 DEF Checked
  <2> QED
    BY <2>1, <2>2
<1> QED
  BY <1>1 DEF Checked

\* An empty line, or one with a comment, is passed over.
LEMMA ParserSkip ==
    ASSUME TypeInv, PosInv, ParserInv, script_parse_skip
    PROVE  ParserInv'
<1>1. /\ s.ptr > 1 /\ s.ptr - 1 \in 1 .. Len(View) /\ s.ptr \in Nat /\ VEnds(s.ptr - 1)
      /\ Len(View) \in Nat
  BY LooksAt DEF script_parse_skip
<1>2. Checked(s.ptr - 1)
  BY <1>1 DEF ParserInv, script_parse_skip
<1>3. PICK x : x = s.ptr - 1
  OBVIOUS
<1>4. x \in Nat /\ x + 1 = s.ptr
  BY <1>1, <1>3
<1>5. Checked(s.ptr)
  BY <1>1, <1>2, <1>3, <1>4, CheckedMore DEF VProper
<1>6. PICK u : u = script_get_token(s)
  OBVIOUS
<1>7. PICK p : p = u.ptr
  OBVIOUS
<1>8. p > 1 /\ Checked(p - 1) /\ (VStarts(p - 1) \/ (Stuck(p) /\ VEnds(p - 1)))
  BY <1>1, <1>2, <1>5, <1>6, <1>7, Advance
<1>9. /\ View' = View /\ pc' = "parse" /\ err' = "none" /\ p = s'.ptr
      /\ pass' = "run" => Verified
  BY ViewKept, <1>6, <1>7 DEF script_parse_skip, ParserInv
<1> QED
  BY <1>8, <1>9, ToParse

\* In the second pass a statement that is no end is a command.
LEMMA RunStart ==
    ASSUME TypeInv, PosInv, Verified, NEW k \in 1 .. Len(View) - 1, VStarts(k), ~VEnds(k)
    PROVE  \E n \in Nat : VCommandAt(k, n)
<1>1. Len(View) \in Nat
  BY ScriptFacts DEF TypeInv
<1>2. VProper(k)
  BY <1>1 DEF Verified
<1>3. PICK n \in 0 .. Len(View) : VCommandAt(k, n)
  BY <1>2 DEF VProper
<1> QED
  BY <1>1, <1>3

\* What is no command is found in the first pass.
LEMMA ParserReject ==
    ASSUME TypeInv, PosInv, ParserInv, script_parse_reject
    PROVE  ParserInv'
<1>1. Len(View) \in Nat /\ s.ptr \in 1 .. Len(View) + 1 /\ s.ptr <= Len(View)
  BY ScriptFacts DEF script_parse_reject, More, TypeInv, PosInv
<1>2. ASSUME pass = "run"
      PROVE  FALSE
  <2>1. PICK k : k = s.ptr - 1
    OBVIOUS
  <2>2. s.ptr > 1 /\ s.ptr # 1 /\ Verified
    BY <1>1, <1>2 DEF ParserInv
  <2>3. k \in 1 .. Len(View) - 1 /\ s.next = View[k]
    BY <1>1, <2>1, <2>2 DEF PosInv
  <2>4. ~VEnds(k)
    BY <2>3 DEF VEnds, script_parse_reject
  <2>5. VStarts(k)
    BY <2>1, <2>2, <2>4 DEF ParserInv, script_parse_reject
  <2>6. PICK n \in Nat : VCommandAt(k, n)
    BY <2>2, <2>3, <2>4, <2>5, RunStart
  <2>7. s.next.typ = "id" /\ s.next.val \in funcs
    BY <2>3, <2>6 DEF VCommandAt
  <2> QED
    BY <2>7 DEF script_parse_reject
<1>3. /\ View' = View /\ pc' \in {"ended", "crashed"} /\ (pc' = "crashed" => err' = "none")
      /\ pass' = pass /\ pass \in {"dry", "run"}
  BY ViewKept DEF script_parse_reject, Fail, TypeInv
<1> QED
  BY <1>2, <1>3, ToEnd

\* The end of a statement.
LEMMA ParserEol ==
    ASSUME TypeInv, PosInv, ParserInv, script_parse_eol
    PROVE  ParserInv'
<1>1. pc = "eol" /\ want = <<>> /\ View' = View /\ pass' = pass /\ err = "none"
  BY ViewKept DEF script_parse_eol, ParserInv, Fail
<1>2. CASE /\ s.next.typ \in {"comment", "nl"} /\ s' = script_get_token(s) /\ pc' = "parse"
           /\ UNCHANGED <<script, pass, err, cmd, want, dev, open, misuse, io, ops>>
  <2>1. /\ s.ptr > 1 /\ s.ptr - 1 \in 1 .. Len(View) /\ s.ptr \in Nat /\ VEnds(s.ptr - 1)
    BY <1>2, LooksAt
  <2>2. Reading(s.ptr, cmd, <<>>) /\ FileThere(cmd)
    BY <1>1, <1>2 DEF ParserInv, Hung
  <2>3. PICK l : l = Len(cmd.args)
    OBVIOUS
  <2>4. PICK k : k = s.ptr - 2 - l
    OBVIOUS
  <2>5. BegunAt(k, cmd) /\ cmd \in [name : Names, args : Seq(Values)]
    BY <2>2, <2>3, <2>4 DEF Reading, TypeInv
  <2>6. /\ l \in Nat /\ k \in 1 .. Len(View) /\ s.ptr = k + l + 2 /\ cmd.name \in funcs
        /\ Len(View) \in Nat
    BY <2>3, <2>4, <2>5, Place
  <2>7. OptFrom(cmd)
    BY <2>2, <2>5, <2>6, LeftNone
  <2>8. s.ptr - 1 = k + Len(cmd.args) + 1 /\ s.ptr = k + Len(cmd.args) + 2
    BY <2>3, <2>6
  <2>9. Checked(s.ptr - 1) /\ Checked(s.ptr)
    <3>1. VEnds(k + Len(cmd.args) + 1) /\ script \in Scripts
      BY <2>1, <2>8 DEF TypeInv
    <3>2. Checked(k + Len(cmd.args) + 1) /\ Checked(k + Len(cmd.args) + 2)
      BY <2>2, <2>5, <2>7, <3>1, ReadChecked
    <3> QED
      BY <2>8, <3>2
  <2>10. PICK u : u = script_get_token(s)
    OBVIOUS
  <2>11. PICK p : p = u.ptr
    OBVIOUS
  <2>12. p > 1 /\ Checked(p - 1) /\ (VStarts(p - 1) \/ (Stuck(p) /\ VEnds(p - 1)))
    BY <2>1, <2>9, <2>10, <2>11, Advance
  <2>13. err' = "none" /\ p = s'.ptr /\ (pass' = "run" => Verified)
    BY <1>1, <1>2, <2>10, <2>11 DEF ParserInv
  <2> QED
    BY <1>1, <1>2, <2>12, <2>13, ToParse
<1>3. CASE s.next.typ \notin {"comment", "nl"} /\ UNCHANGED s /\ Fail("syntax")
  <2>1. ASSUME pass = "run"
        PROVE  FALSE
    <3>1. Verified /\ Reading(s.ptr, cmd, <<>>)
      BY <1>1, <2>1 DEF ParserInv, Hung
    <3> QED
      BY <1>3, <3>1, RunDone
  <2> QED
    BY <1>3, <2>1, ToFail
<1> QED
  BY <1>2, <1>3 DEF script_parse_eol

\* At the end of the first pass all of the script is verified.
LEMMA ParserEnd ==
    ASSUME TypeInv, PosInv, ParserInv, script_parse_end
    PROVE  ParserInv'
<1>1. /\ pc = "parse" /\ View' = View /\ err = "none"
      /\ Len(View) \in Nat /\ Len(View) >= 1 /\ s.ptr = Len(View) + 1
  BY ViewKept, ScriptFacts DEF script_parse_end, ParserInv, More, PosInv, TypeInv
<1>2. s.ptr - 1 = Len(View) /\ s.ptr > 1
  BY <1>1
<1>3. Checked(Len(View))
  BY <1>1, <1>2 DEF ParserInv
<1>4. \A k \in 1 .. Len(View) : View[k].typ # "bad"
  BY <1>1, <1>2 DEF PosInv
<1>5. Verified
  <2>1. ASSUME NEW k \in 1 .. Len(View), VStarts(k), k # Len(View)
        PROVE  VProper(k)
    BY <1>1, <1>3, <2>1 DEF Checked
  <2> QED
    BY <1>4, <2>1 DEF Verified
<1>6. CASE pass' = "run" /\ s' = script_parse_again(s) /\ UNCHANGED <<pc, err, open, misuse>>
  <2>1. PICK p : p = s'.ptr
    OBVIOUS
  <2>2. p = 2
    BY <1>1, <1>4, <1>6, <2>1, GetAgain
  <2>3. Checked(p - 1) /\ VStarts(p - 1)
    BY <2>2 DEF Checked, VStarts
  <2> QED
    BY <1>1, <1>5, <1>6, <2>1, <2>2, <2>3, ToParse
<1>7. CASE pc' = "ended" /\ UNCHANGED s /\ err' \in {"device", err}
  BY <1>1, <1>2, <1>5, <1>7, ToEnd
<1> QED
  BY <1>6, <1>7 DEF script_parse_end

\* A command begins; the second pass finds the token behind it.
LEMMA ParserCommand ==
    ASSUME TypeInv, PosInv, ParserInv, script_parse_command
    PROVE  ParserInv'
<1>1. /\ s.ptr > 1 /\ s.ptr - 1 \in 1 .. Len(View) /\ s.ptr \in Nat /\ ~VEnds(s.ptr - 1)
      /\ Len(View) \in Nat /\ s.next = View[s.ptr - 1] /\ s.ptr <= Len(View)
  BY LooksAt, ScriptFacts DEF script_parse_command, More, TypeInv
<1>2. /\ pc' = "args" /\ View' = View /\ pass' = pass /\ err' = "none"
      /\ s' = script_get_token(s) /\ pass \in {"dry", "run"}
  BY ViewKept DEF script_parse_command, ParserInv, TypeInv
<1>3. PICK k : k = s.ptr - 1
  OBVIOUS
<1>4. VStarts(k) /\ Checked(k) /\ k \in 1 .. Len(View) - 1 /\ ~VEnds(k)
  BY <1>1, <1>3 DEF ParserInv, script_parse_command
<1>5. PICK p, c, w : p = s'.ptr /\ c = cmd' /\ w = want'
  OBVIOUS
<1>6. /\ View[k].typ = "id" /\ View[k].val \in funcs
      /\ c = [name |-> View[k].val, args |-> <<>>] /\ w = Args[View[k].val]
  BY <1>1, <1>3, <1>5 DEF script_parse_command
<1>7. CASE Stuck(s.ptr)
  <2>1. p = s.ptr /\ s'.next = s.next
    BY <1>2, <1>5, <1>7, GetToken
  <2>2. ASSUME pass = "run"
        PROVE  FALSE
    <3>1. Verified
      BY <2>2 DEF ParserInv
    <3>2. PICK n \in Nat : VCommandAt(k, n)
      BY <1>4, <3>1, RunStart
    <3>3. 0 \in 0 .. n /\ k + 0 + 1 = s.ptr /\ k \in 1 .. Len(View)
      BY <1>1, <1>3
    <3>4. k + 0 + 1 <= Len(View) /\ View[k + 0 + 1].typ # "bad"
      BY <3>2, <3>3, NotBad DEF TypeInv
    <3> QED
      BY <1>7, <3>3, <3>4 DEF Stuck
  <2>3. s'.next.typ \notin {"nl", "comment"}
    BY <1>1, <1>3, <1>6, <2>1
  <2> QED
    BY <1>2, <1>5, <1>7, <2>1, <2>2, <2>3, ToArgs
<1>8. CASE ~Stuck(s.ptr)
  <2>1. p = s.ptr + 1
    BY <1>2, <1>5, <1>8, GetToken
  <2>2. Len(c.args) = 0 /\ c.name = View[k].val
    BY <1>6
  <2>3. p - 2 - Len(c.args) = k
    BY <1>1, <1>3, <2>1, <2>2
  <2>4. BegunAt(k, c)
    BY <1>1, <1>4, <1>6, <2>2 DEF BegunAt
  <2>5. Left(c, w)
    <3>1. Len(w) \in Nat /\ w = Args[c.name]
      BY <1>6, <2>2, ArgsFacts, LenProperties
    <3> QED
      BY <2>2, <3>1 DEF Left
  <2>6. Reading(p, c, w)
    BY <2>3, <2>4, <2>5 DEF Reading
  <2>7. p > 1 /\ (pass = "run" => Verified)
    BY <1>1, <2>1 DEF ParserInv
  <2> QED
    BY <1>2, <1>5, <2>6, <2>7, ToArgs
<1> QED
  BY <1>7, <1>8

\* One more argument.
LEMMA ReadArg ==
    ASSUME TypeInv, PosInv, Reading(s.ptr, cmd, want), want # <<>>, Fits(s.next, Head(want)),
           ~Stuck(s.ptr), NEW c, c = [cmd EXCEPT !.args = Append(@, s.next.val)]
    PROVE  Reading(s.ptr + 1, c, Tail(want))
<1>1. PICK l : l = Len(cmd.args)
  OBVIOUS
<1>2. PICK k : k = s.ptr - 2 - l
  OBVIOUS
<1>3. BegunAt(k, cmd) /\ Left(cmd, want) /\ cmd \in [name : Names, args : Seq(Values)]
  BY <1>1, <1>2 DEF Reading, TypeInv
<1>4. /\ l \in Nat /\ k \in 1 .. Len(View) /\ Len(View) \in Nat /\ s.ptr \in Nat
      /\ k < Len(View) /\ s.ptr = k + l + 2 /\ s.ptr <= Len(View) + 1 /\ cmd.name \in funcs
  BY <1>1, <1>2, <1>3, Place
<1>5. PICK a : a = Args[cmd.name]
  OBVIOUS
<1>6. /\ Len(want) \in Nat /\ Len(want) >= 1 /\ Head(want) = want[1] /\ Len(a) \in Nat
      /\ Tail(want) \in Seq(Kinds) /\ Len(Tail(want)) = Len(want) - 1
      /\ \A i \in 1 .. Len(Tail(want)) : Tail(want)[i] = want[i + 1]
  BY <1>4, <1>5, LenProperties, EmptySeq, ArgsFacts, HeadTailProperties DEF TypeInv
<1>7. s.next = View[k + (l + 1)]
  <2>1. s.ptr # 1 /\ s.ptr - 1 = k + (l + 1)
    BY <1>4
  <2> QED
    BY <2>1 DEF PosInv
<1>8. /\ c.name = cmd.name /\ c.args = Append(cmd.args, s.next.val)
  BY <1>3
<1>9. /\ Len(c.args) = l + 1 /\ c.args[l + 1] = s.next.val
      /\ \A i \in 1 .. l : c.args[i] = cmd.args[i]
  BY <1>1, <1>3, <1>4, <1>8
<1>10. Head(want) = a[l + 1] /\ l + 1 <= Len(a)
  <2>1. Len(want) = Len(a) - l /\ \A i \in 1 .. Len(want) : want[i] = a[l + i]
    BY <1>1, <1>3, <1>5 DEF Left
  <2>2. 1 \in 1 .. Len(want)
    BY <1>6
  <2>3. want[1] = a[l + 1]
    BY <2>1, <2>2
  <2>4. l + 1 <= Len(a)
    BY <1>4, <1>6, <2>1
  <2> QED
    BY <1>6, <2>3, <2>4
<1>11. ArgAt(k, c, l + 1)
  BY <1>5, <1>7, <1>8, <1>9, <1>10 DEF ArgAt
<1>12. ASSUME NEW i \in 1 .. l + 1
       PROVE  ArgAt(k, c, i)
  <2>1. CASE i = l + 1
    BY <1>11, <2>1
  <2>2. CASE i # l + 1
    <3>1. i \in 1 .. Len(cmd.args)
      BY <1>1, <1>4, <2>2
    <3>2. ArgAt(k, cmd, i)
      BY <1>3, <3>1 DEF BegunAt
    <3> QED
      BY <1>1, <1>8, <1>9, <3>1, <3>2 DEF ArgAt
  <2> QED
    BY <2>1, <2>2
<1>13. BegunAt(k, c)
  BY <1>3, <1>8, <1>9, <1>12 DEF BegunAt
<1>14. Left(c, Tail(want))
  <2>1. Len(Tail(want)) = Len(a) - (l + 1)
    BY <1>1, <1>3, <1>4, <1>5, <1>6 DEF Left
  <2>2. ASSUME NEW i \in 1 .. Len(Tail(want))
        PROVE  Tail(want)[i] = a[(l + 1) + i]
    <3>1. i + 1 \in 1 .. Len(want) /\ l + (i + 1) = (l + 1) + i
      BY <1>4, <1>6
    <3>2. want[i + 1] = a[l + (i + 1)]
      BY <1>1, <1>3, <1>5, <3>1 DEF Left
    <3> QED
      BY <1>6, <3>1, <3>2
  <2> QED
    BY <1>5, <1>8, <1>9, <2>1, <2>2 DEF Left
<1>15. (s.ptr + 1) - 2 - Len(c.args) = k
  <2>1. (s.ptr + 1) - 2 - (l + 1) = k
    BY <1>2, <1>4, PlaceSum, SMTT(30)
  <2>2. Len(c.args) = l + 1
    BY <1>9
  <2> QED
    BY <2>1, <2>2
<1> QED
  BY <1>13, <1>14, <1>15 DEF Reading

\* An argument, or that it is left out; the second pass fails on neither.
LEMMA ParserExpect ==
    ASSUME TypeInv, PosInv, ParserInv, script_expect
    PROVE  ParserInv'
<1>1. /\ pc = "args" /\ want # <<>> /\ View' = View /\ pass' = pass /\ err = "none"
      /\ pass \in {"dry", "run"} /\ (Hung \/ Reading(s.ptr, cmd, want))
      /\ pass = "run" => Verified /\ Reading(s.ptr, cmd, want) /\ s.ptr > 1
  BY ViewKept DEF script_expect, Fail, ParserInv, TypeInv, Hung
<1>2. want \in Seq(Kinds) /\ Head(want) \in Kinds
  BY <1>1, HeadTailProperties DEF TypeInv
<1>3. CASE /\ Fits(s.next, Head(want)) /\ s' = script_get_token(s) /\ want' = Tail(want)
           /\ cmd' = [cmd EXCEPT !.args = Append(@, s.next.val)]
           /\ UNCHANGED <<script, pass, pc, err, dev, open, misuse, io, ops>>
  <2>1. PICK p, c, w : p = s'.ptr /\ c = cmd' /\ w = want'
    OBVIOUS
  <2>2. s.next.typ \in {"int", "str", "id"}
    BY <1>2, <1>3, FitsFacts
  <2>3. CASE Stuck(s.ptr)
    <3>1. p = s.ptr /\ s'.next = s.next
      BY <1>3, <2>1, <2>3, GetToken
    <3>2. ASSUME pass = "run"
          PROVE  FALSE
      <4>1. \/ Fits(s.next, Head(want)) /\ ~Stuck(s.ptr)
            \/ Head(want) = "opt" /\ s.next.typ \in {"nl", "comment"}
        BY <1>1, <3>2, RunNext
      <4> QED
        BY <2>2, <2>3, <4>1
    <3> QED
      BY <1>1, <1>3, <2>1, <2>2, <2>3, <3>1, <3>2, ToArgs
  <2>4. CASE ~Stuck(s.ptr)
    <3>1. p = s.ptr + 1
      BY <1>3, <2>1, <2>4, GetToken
    <3>2. Reading(s.ptr, cmd, want)
      BY <1>1, <2>4 DEF Hung
    <3>3. Reading(p, c, w)
      BY <1>1, <1>3, <2>1, <2>4, <3>1, <3>2, ReadArg
    <3>4. pass = "run" => p > 1
      BY <1>1, <3>1 DEF TypeInv
    <3> QED
      BY <1>1, <1>3, <2>1, <3>3, <3>4, ToArgs
  <2> QED
    BY <2>3, <2>4
<1>4. CASE /\ Head(want) = "opt" /\ s.next.typ \in {"nl", "comment"} /\ want' = <<>>
           /\ UNCHANGED <<script, pass, pc, s, err, cmd, dev, open, misuse, io, ops>>
  <2>1. Reading(s.ptr, cmd, want)
    BY <1>1, <1>4 DEF Hung
  <2>2. VEnds(s.ptr - 1)
    BY <1>4, LooksAt
  <2>3. Left(cmd, want) /\ cmd.name \in funcs /\ cmd \in [name : Names, args : Seq(Values)]
    BY <1>1, <2>1 DEF Reading, BegunAt, TypeInv
  <2>4. OptFrom(cmd)
    BY <1>1, <1>2, <1>4, <2>3, OptRest
  <2>5. Reading(s.ptr, cmd, <<>>)
    BY <2>1, <2>2, <2>4 DEF Reading
  <2>6. PICK p, c, w : p = s'.ptr /\ c = cmd' /\ w = want'
    OBVIOUS
  <2>7. p = s.ptr /\ c = cmd /\ w = <<>>
    BY <1>4, <2>6
  <2> QED
    BY <1>1, <1>4, <2>5, <2>6, <2>7, ToArgs
<1>5. CASE /\ ~Fits(s.next, Head(want))
           /\ ~(Head(want) = "opt" /\ s.next.typ \in {"nl", "comment"})
           /\ Fail("syntax") /\ UNCHANGED s
  <2>1. ASSUME pass = "run"
        PROVE  FALSE
    BY <1>1, <1>5, <2>1, RunNext
  <2> QED
    BY <1>5, <2>1, ToFail
<1> QED
  BY <1>3, <1>4, <1>5 DEF script_expect

\* A file that the second pass does not find was there before.
LEMMA RunFile ==
    ASSUME TypeInv, PosInv, ParserInv, pc = "args", want = <<>>, pass = "run"
    PROVE  FileThere(cmd)
<1>1. Verified /\ Reading(s.ptr, cmd, <<>>)
  BY DEF ParserInv, Hung
<1> QED
  BY <1>1, RunDone

\* What the commands do leaves the parser where it is.
LEMMA ParserWork ==
    ASSUME TypeInv, PosInv, ParserInv,
           wait_cmd \/ wait_cmd_open \/ device_cmd \/ file_cmd \/ hid_write_data
               \/ hid_write_last \/ hid_read
    PROVE  ParserInv'
<1>1. CASE wait_cmd
  <2>1. /\ UNCHANGED <<script, pass, s, cmd, want, err>> /\ want = <<>> /\ pc = "args"
        /\ cmd.name = "WAIT" /\ pc' \in {"wait", "eol"} /\ (pc' # "eol" => pass = "run")
    BY <1>1 DEF wait_cmd, Dry, Parsed
  <2> QED
    BY <2>1, ToWork
<1>2. CASE wait_cmd_open
  <2>1. /\ UNCHANGED <<script, pass, s, cmd, want>> /\ pc = "wait" /\ pc' \in {"wait", "eol", "ended"}
        /\ pc' = "ended" => err' = "timeout"
        /\ pc' # "ended" => err' = err
    BY <1>2 DEF wait_cmd_open
  <2>2. want = <<>> /\ pass = "run" /\ Verified /\ s.ptr > 1 /\ FileThere(cmd)
    BY <2>1 DEF ParserInv, Hung
  <2>3. CASE pc' = "ended"
    BY ViewKept, <2>1, <2>2, <2>3, ToEnd
  <2>4. CASE pc' # "ended"
    BY <2>1, <2>2, <2>4, ToWork
  <2> QED
    BY <2>3, <2>4
<1>3. CASE device_cmd
  <2>1. /\ UNCHANGED <<script, pass, s, cmd, want>> /\ want = <<>> /\ pc = "args"
        /\ cmd.name \notin {"WRITE_FILE", "LOAD_IMAGE"}
    BY <1>3 DEF device_cmd, Parsed
  <2>2. CASE hid_write_error
    BY <2>1, <2>2, ToFail DEF hid_write_error
  <2>3. CASE ~hid_write_error
    <3>1. err' = err /\ pc' \in {"reply", "eol"} /\ (pc' # "eol" => pass = "run")
      BY <1>3, <2>3 DEF device_cmd, Dry, hid_write_cmd
    <3> QED
      BY <2>1, <3>1, ToWork
  <2> QED
    BY <2>2, <2>3
<1>4. CASE file_cmd
  <2>1. /\ UNCHANGED <<script, pass, s, cmd, want>> /\ want = <<>> /\ pc = "args"
        /\ cmd.name \in {"WRITE_FILE", "LOAD_IMAGE"}
    BY <1>4 DEF file_cmd, Parsed
  <2>2. Usable(Kind, Name) <=> FileThere(cmd)
    BY <2>1 DEF Name, Kind, FileThere
  <2>3. CASE hid_write_error
    BY <2>1, <2>3, ToFail DEF hid_write_error
  <2>4. CASE get_buffer_error
    <3>1. pass = "run" => FileThere(cmd)
      BY <2>1, RunFile
    <3>2. CASE ~Usable(Kind, Name) /\ Fail("syntax")
      BY <2>1, <2>2, <3>1, <3>2, ToFail
    <3>3. CASE Fail("file")
      BY <2>1, <3>3, ToFail
    <3> QED
      BY <2>4, <3>2, <3>3 DEF get_buffer_error
  <2>5. CASE ~hid_write_error /\ ~get_buffer_error
    <3>1. /\ err' = err /\ pc' \in {"data", "eol"} /\ (pc' # "eol" => pass = "run")
          /\ FileThere(cmd)
      BY <1>4, <2>2, <2>5 DEF file_cmd, Dry, hid_write_cmd
    <3> QED
      BY <2>1, <3>1, ToWork
  <2> QED
    BY <2>3, <2>4, <2>5
<1>5. ASSUME pc \in {"data", "reply"}
      PROVE  want = <<>> /\ pass = "run" /\ FileThere(cmd)
  BY <1>5 DEF ParserInv, Hung
<1>6. CASE hid_write_data
  <2>1. pc = "data"
    BY <1>6 DEF hid_write_data
  <2>2. CASE Fault /\ Fail("device") /\ UNCHANGED s
    BY <2>2, ToFail
  <2>3. CASE UNCHANGED <<script, pass, pc, s, err, cmd, want, dev, open, misuse, secs, reads, ops>>
    BY <1>5, <2>1, <2>3, ToWork
  <2>4. CASE pc' = "crashed" /\ UNCHANGED <<script, pass, s, err>>
    <3>1. View' = View /\ pc # "ended"
      BY <2>1, <2>4, ViewKept
    <3> QED
      BY <2>4, <3>1, ToEnd DEF ParserInv
  <2> QED
    BY <1>6, <2>2, <2>3, <2>4 DEF hid_write_data
<1>7. CASE hid_write_last
  <2>1. pc = "data" /\ pc' \in {"reply", "eol"} /\ UNCHANGED <<script, pass, s, cmd, want, err>>
    BY <1>7 DEF hid_write_last
  <2> QED
    BY <1>5, <2>1, ToWork
<1>8. CASE hid_read
  <2>1. pc = "reply" /\ UNCHANGED s
    BY <1>8 DEF hid_read
  <2>2. CASE Fault /\ Fail("device")
    BY <2>1, <2>2, ToFail
  <2>3. CASE ~(Fault /\ Fail("device"))
    <3>1. pc' \in {"reply", "eol"} /\ UNCHANGED <<script, pass, s, cmd, want, err>>
      BY <1>8, <2>3 DEF hid_read
    <3> QED
      BY <1>5, <2>1, <3>1, ToWork
  <2> QED
    BY <2>2, <2>3
<1> QED
  BY <1>1, <1>2, <1>3, <1>4, <1>6, <1>7, <1>8

\* Every step keeps what is known of the parser.
LEMMA ParserStep ==
    ASSUME TypeInv, PosInv, ParserInv, [Next]_vars
    PROVE  ParserInv'
<1>1. CASE script_parse_crash
  <2>1. /\ View' = View /\ pc' = "crashed" /\ UNCHANGED <<s, pass, err>> /\ pc # "ended"
    BY ViewKept, <1>1 DEF script_parse_crash
  <2> QED
    BY <2>1, ToEnd DEF ParserInv
<1>2. CASE UNCHANGED vars
  <2>1. UNCHANGED <<pass, pc, s, err, cmd, want>> /\ View' = View
    BY <1>2, ViewKept DEF vars
  <2> QED
    BY <2>1 DEF ParserInv, Hung, Verified, Reading, BegunAt, Left, OptFrom, FileThere, ArgAt,
                Checked, Stuck, VStarts, VEnds, VProper, VCommandAt
<1> QED
  BY <1>1, <1>2, ParserSkip, ParserReject, ParserEol, ParserEnd, ParserCommand, ParserExpect,
     ParserWork DEF Next, finished

\* The initial states.
LEMMA InitParser ==
    ASSUME Init
    PROVE  TypeInv /\ PosInv /\ ParserInv
<1>1. PICK u : u = script_get_token(Start)
  OBVIOUS
<1>2. Start \in [ptr : Nat, token : Looks, next : Looks] /\ Start.ptr = 1 /\ Start.next = Invalid
  BY DEF Start, Looks
<1>3. script \in Scripts
  BY DEF Init
<1>4. /\ u \in [ptr : Nat, token : Looks, next : Looks]
      /\ View[1].typ = "bad" => u.ptr = 1 /\ u.next = Invalid
      /\ View[1].typ # "bad" => u.ptr = 2 /\ u.next = View[1]
  BY <1>1, <1>2, <1>3, GetFirst
<1>5. s = [u EXCEPT !.token = u.next]
  BY <1>1 DEF Init
<1>6. /\ s \in [ptr : Nat, token : Looks, next : Looks]
      /\ View[1].typ = "bad" => s.ptr = 1 /\ s.next = Invalid
      /\ View[1].typ # "bad" => s.ptr = 2 /\ s.next = View[1]
  BY <1>4, <1>5
<1>7. <<>> \in Seq(Values) /\ <<>> \in Seq(Kinds) /\ <<>> \in Seq(Op)
  BY EmptySeq
<1>8. NoDev \in [id : Nat, on : Seq(Values)] /\ NoCmd \in [name : Names, args : Seq(Values)]
  BY <1>7 DEF NoDev, NoCmd, Names
<1>9. TypeInv
  BY <1>3, <1>6, <1>7, <1>8 DEF Init, TypeInv, Op
<1>10. Len(View) \in Nat /\ Len(View) >= 1
  BY <1>3, ScriptFacts
<1>11. PosInv
  BY <1>6, <1>10 DEF PosInv
<1>12. ASSUME s.ptr > 1
       PROVE  Checked(s.ptr - 1) /\ VStarts(s.ptr - 1)
  BY <1>6, <1>12 DEF Checked, VStarts
<1>13. ParserInv
  BY <1>12 DEF ParserInv, Init
<1> QED
  BY <1>9, <1>11, <1>13

\* The parser's invariant holds in every state.
LEMMA ParserAlways == Spec => [](TypeInv /\ PosInv /\ ParserInv)
<1>1. TypeInv /\ PosInv /\ ParserInv /\ [Next]_vars => (TypeInv /\ PosInv /\ ParserInv)'
  BY TypeNext, PosStep, ParserStep
<1> QED
  BY <1>1, InitParser, PTL DEF Spec

-----------------------------------------------------------------------------
(* From what the parser shows back to the script.                          *)

\* A statement of the script is one for the parser.
LEMMA StartsShown ==
    ASSUME script \in Scripts, NEW k
    PROVE  (Ends(k) => VEnds(k)) /\ (Starts(k) => VStarts(k))
<1>1. ASSUME NEW j, Ends(j) PROVE VEnds(j)
  BY <1>1, ViewFacts DEF Ends, VEnds, Cut
<1> QED
  BY <1>1 DEF Starts, VStarts

\* An end that only the parser sees is a name that cannot be read, and what stands
\* behind it is a comment or the end of the script.
LEMMA SlipEnd ==
    ASSUME script \in Scripts, Verified, NEW k \in 1 .. Len(script), VEnds(k)
    PROVE  Ends(k) \/ Slips(k)
<1>1. /\ Len(View) = Len(script) /\ Len(script) \in Nat
      /\ script[k].typ = "half" => k < Len(script) /\ script[k + 1].typ \in OddStart
      /\ script[k].typ = "open" => k = Len(script)
      /\ script[k].typ \notin Cut => View[k] = script[k]
      /\ script[1].typ \in Cut => View[1] = Invalid
  BY TextFacts, ViewFacts
<1>2. CASE script[k].typ \notin Cut
  BY <1>1, <1>2 DEF Ends, VEnds
<1>3. CASE script[k].typ = "open"
  BY <1>1, <1>3 DEF Slips, Unseen
<1>4. CASE script[k].typ = "half"
  <2>1. k # 1
    <3>1. SUFFICES ASSUME k = 1 PROVE FALSE
      OBVIOUS
    <3>2. View[k].typ = "invalid"
      BY <1>1, <1>4, <3>1 DEF Cut, Invalid, Tok
    <3> QED
      BY <3>2 DEF VEnds
  <2>2. PICK m : m = k + 1
    OBVIOUS
  <2>3. m \in 1 .. Len(script) /\ m - 1 = k /\ script[m].typ \in OddStart /\ k > 1
    BY <1>1, <1>4, <2>1, <2>2
  <2>4. VStarts(m)
    BY <2>3 DEF VStarts
  <2>5. VProper(m) \/ (m = Len(View) /\ View[m].typ # "bad")
    BY <1>1, <2>3, <2>4 DEF Verified
  <2>6. View[m].typ = "bad" <=> script[m].typ = "bad"
    BY <2>3, ViewFacts
  <2>7. CASE m = Len(View) /\ View[m].typ # "bad"
    BY <1>1, <1>4, <2>2, <2>3, <2>6, <2>7 DEF Slips, Unseen
  <2>8. CASE VProper(m) /\ m # Len(View)
    <3>1. script[m].typ \notin Cut
      <4>1. script[m].typ # "open"
        BY <1>1, <2>3, <2>8, TextFacts
      <4> QED
        BY <2>3, <4>1 DEF OddStart, Cut
    <3>2. View[m] = script[m]
      BY <2>3, <3>1, ViewFacts
    <3>3. script[m].typ = "comment"
      BY <2>3, <2>8, <3>2 DEF VProper, VEnds, VCommandAt, OddStart
    <3> QED
      BY <1>4, <2>2, <2>3, <3>3 DEF Slips
  <2>9. CASE VProper(m) /\ m = Len(View)
    <3>1. View[m].typ # "bad"
      BY <2>9 DEF VProper, VEnds, VCommandAt
    <3> QED
      BY <2>7, <2>9, <3>1
  <2> QED
    BY <2>5, <2>7, <2>8, <2>9
<1> QED
  BY <1>2, <1>3, <1>4 DEF Cut

\* The arguments of a command are tokens of the script, or names that cannot be read
\* behind a number.
LEMMA ArgRead ==
    ASSUME script \in Scripts, NEW k \in 1 .. Len(script), NEW n \in Nat, VCommandAt(k, n),
           NEW i \in 1 .. n
    PROVE  \/ script[k + i].typ \notin Cut /\ View[k + i] = script[k + i]
           \/ /\ Repeats(k + i) /\ Args[View[k].val][i] \in {"int", "opt"}
              /\ View[k + i] = script[k + i - 1]
<1>1. Len(View) = Len(script) /\ Len(script) \in Nat
  BY TextFacts, ScriptFacts
<1>2. PICK j, h, a : j = k + i /\ h = k + i - 1 /\ a = Args[View[k].val]
  OBVIOUS
<1>3. j \in 2 .. Len(script) /\ h \in 1 .. Len(script) /\ h = j - 1 /\ h + 1 = j /\ j # Len(script)
      /\ h # Len(script) /\ j \in 1 .. Len(script)
  <2>1. k + n + 1 <= Len(script)
    BY <1>1 DEF VCommandAt, VEnds
  <2> QED
    BY <1>1, <1>2, <2>1
<1>4. /\ View[k].val \in funcs /\ View[k].typ = "id"
      /\ \A m \in 1 .. n : m <= Len(a) /\ Fits(View[k + m], a[m])
  BY <1>2 DEF VCommandAt
<1>5. a \in Seq(Kinds) /\ Len(a) \in Nat /\ \A m \in 1 .. Len(a) : a[m] \in Kinds
  BY <1>2, <1>4, ArgsFacts, LenProperties, ElementOfSeq
<1>6. a[i] \in Kinds /\ Fits(View[j], a[i])
  BY <1>2, <1>4, <1>5
<1>7. CASE script[j].typ \notin Cut
  BY <1>2, <1>3, <1>7, ViewFacts
<1>8. CASE script[j].typ \in Cut
  <2>1. script[j].typ = "half"
    BY <1>3, <1>8, TextFacts DEF Cut
  <2>2. script[h].typ # "half"
    BY <1>3, <2>1, TextFacts DEF OddStart
  <2>3. script[h].typ # "open"
    BY <1>3, TextFacts
  <2>4. View[h] = script[h] /\ View[h] \in Looks
    BY <1>3, <2>2, <2>3, ViewFacts DEF Cut
  <2>5. View[h].typ = "id" \/ (i # 1 /\ i - 1 \in 1 .. n /\ Fits(View[h], a[i - 1]) /\ a[i - 1] \in Kinds)
    <3>1. CASE i = 1
      <4>1. h = k
        BY <1>2, <3>1
      <4> QED
        BY <1>4, <4>1
    <3>2. CASE i # 1
      <4>1. PICK m : m = i - 1
        OBVIOUS
      <4>2. m \in 1 .. n /\ k + m = h
        BY <1>2, <3>2, <4>1
      <4> QED
        BY <1>4, <1>5, <3>2, <4>1, <4>2
    <3> QED
      BY <3>1, <3>2
  <2>6. View[h].typ \in {"int", "str", "id"}
    BY <2>5, FitsFacts
  <2>7. View[j] = Stale(View[h])
    BY <1>3, <1>8, <2>6, ViewFacts
  <2>8. /\ View[j].typ = View[h].typ
        /\ View[h].typ = "int" => View[j] = View[h]
        /\ View[h].typ # "int" => View[j].val = "none"
    BY <2>4, <2>7, StaleFacts
  <2>9. a[i] # "kind"
    BY <1>6, <2>8 DEF Fits
  <2>10. a[i] # "str"
    <3>1. SUFFICES ASSUME a[i] = "str" PROVE FALSE
      OBVIOUS
    <3>2. View[h].typ = "str"
      BY <1>6, <2>8, <3>1 DEF Fits
    <3>3. i # 1 /\ i - 1 \in 1 .. n /\ Fits(View[h], a[i - 1]) /\ a[i - 1] \in Kinds
      BY <2>5, <3>2
    <3>4. a[i - 1] = "str"
      BY <3>2, <3>3 DEF Fits, Kinds
    <3>5. i \in 1 .. Len(a) /\ i - 1 \in 1 .. Len(a)
      BY <1>4, <1>5, <3>3
    <3>6. a \in {<<>>, <<"int">>, <<"str">>, <<"int", "int">>, <<"int", "int", "int">>,
                 <<"kind", "str", "opt", "opt", "opt", "opt">>}
      BY <1>2, <1>4 DEF funcs, Args
    <3>7. \A x, y \in 1 .. Len(a) : a[x] = "str" /\ a[y] = "str" => x = y
      BY <3>6
    <3> QED
      BY <3>1, <3>4, <3>5, <3>7
  <2>11. a[i] \in {"int", "opt"}
    BY <1>6, <2>9, <2>10 DEF Kinds
  <2>12. View[j].typ = "int"
    BY <1>6, <2>11 DEF Fits
  <2>13. script[h].typ = "int" /\ View[j] = script[h]
    BY <2>4, <2>8, <2>12
  <2>14. Repeats(j)
    BY <1>3, <2>1, <2>13 DEF Repeats
  <2> QED
    BY <1>2, <2>11, <2>13, <2>14
<1> QED
  BY <1>7, <1>8

\* The end of a command is one of the script.
LEMMA EndRead ==
    ASSUME script \in Scripts, NEW k \in 1 .. Len(script), NEW n \in Nat, VCommandAt(k, n)
    PROVE  /\ Ends(k + n + 1) /\ script[k] = View[k]
           /\ \A i \in 1 .. n : ~VEnds(k + i)
<1>1. Len(View) = Len(script) /\ Len(script) \in Nat
  BY TextFacts, ScriptFacts
<1>2. PICK j, h, a : j = k + n + 1 /\ h = k + n /\ a = Args[View[k].val]
  OBVIOUS
<1>3. /\ View[k].val \in funcs /\ View[k].typ = "id" /\ VEnds(j)
      /\ \A m \in 1 .. n : m <= Len(a) /\ Fits(View[k + m], a[m])
  BY <1>2 DEF VCommandAt
<1>4. j \in 2 .. Len(script) /\ h \in 1 .. Len(script) /\ h = j - 1 /\ h # Len(script) /\ k # Len(script)
      /\ j \in 1 .. Len(script)
  BY <1>1, <1>2, <1>3 DEF VEnds
<1>5. a \in Seq(Kinds) /\ Len(a) \in Nat /\ \A m \in 1 .. Len(a) : a[m] \in Kinds
  BY <1>2, <1>3, ArgsFacts, LenProperties, ElementOfSeq
<1>6. ASSUME NEW i \in 0 .. n
      PROVE  View[k + i].typ \in {"int", "str", "id"}
  <2>1. CASE i = 0
    BY <1>3, <2>1
  <2>2. CASE i # 0
    <3>1. i \in 1 .. n
      BY <2>2
    <3>2. i <= Len(a) /\ Fits(View[k + i], a[i])
      BY <1>3, <3>1
    <3>3. a[i] \in Kinds
      BY <1>5, <3>1, <3>2
    <3> QED
      BY <3>2, <3>3, FitsFacts
  <2> QED
    BY <2>1, <2>2
<1>7. \A i \in 1 .. n : ~VEnds(k + i)
  <2>1. SUFFICES ASSUME NEW i \in 1 .. n PROVE ~VEnds(k + i)
    OBVIOUS
  <2>2. i \in 0 .. n
    OBVIOUS
  <2>3. View[k + i].typ \in {"int", "str", "id"}
    BY <1>6, <2>2
  <2> QED
    BY <2>3 DEF VEnds
<1>8. View[h].typ \in {"int", "str", "id"} /\ View[h] \in Looks
  <2>1. n \in 0 .. n
    OBVIOUS
  <2> QED
    BY <1>2, <1>4, <1>6, <2>1, ViewAt
<1>9. script[j].typ \notin Cut
  <2>1. SUFFICES ASSUME script[j].typ \in Cut PROVE FALSE
    OBVIOUS
  <2>2. View[j] = Stale(View[h])
    BY <1>4, <1>8, <2>1, ViewCut
  <2>3. View[j].typ = View[h].typ
    BY <1>8, <2>2, StaleFacts
  <2> QED
    BY <1>3, <1>8, <2>3 DEF VEnds
<1>10. Ends(j)
  BY <1>1, <1>3, <1>4, <1>9, ViewAt DEF Ends, VEnds
<1>11. script[k].typ \notin Cut
  <2>1. SUFFICES ASSUME script[k].typ \in Cut PROVE FALSE
    OBVIOUS
  <2>2. CASE k = 1
    BY <1>3, <2>1, <2>2, ViewFacts DEF Invalid, Tok
  <2>3. CASE k # 1
    <3>1. script[k].typ = "half"
      BY <1>4, <2>1, TextFacts DEF Cut
    <3>2. PICK b : b = k - 1
      OBVIOUS
    <3>3. b \in 1 .. Len(script) /\ b + 1 = k /\ b # Len(script) /\ k \in 2 .. Len(script)
      BY <1>1, <2>3, <3>2
    <3>4. script[b].typ # "half" /\ script[b].typ # "open"
      BY <3>1, <3>3, TextFacts DEF OddStart
    <3>5. View[b] = script[b] /\ View[b] \in Looks
      BY <3>3, <3>4, ViewAt DEF Cut
    <3>6. CASE script[b].typ = "bad"
      <4>1. View[k] = Stale(Shown(b)) /\ Shown(b) = Invalid
        <5>1. View[k] = Seen(k)
          BY DEF View
        <5> QED
          BY <2>1, <3>2, <3>4, <3>6, <5>1 DEF Seen, Shown
      <4>2. Stale(Invalid).typ = "invalid"
        BY DEF Stale, Invalid, Tok
      <4> QED
        BY <1>3, <4>1, <4>2
    <3>7. CASE script[b].typ # "bad"
      <4>1. View[k] = Stale(View[b])
        BY <2>1, <3>2, <3>3, <3>5, <3>7, ViewFacts
      <4>2. View[b].typ = "id"
        BY <1>3, <3>5, <4>1, StaleFacts
      <4>3. View[k].val = "none"
        BY <3>5, <4>1, <4>2, StaleFacts
      <4> QED
        BY <1>3, <4>3 DEF funcs, Args
    <3> QED
      BY <3>6, <3>7
  <2> QED
    BY <2>2, <2>3
<1>12. script[k] = View[k]
  BY <1>11, ViewFacts
<1> QED
  BY <1>2, <1>7, <1>10, <1>12

\* What the parser takes for a command is one, but for numbers that are repeated.
LEMMA SlipCommand ==
    ASSUME script \in Scripts, NEW k \in 1 .. Len(script), NEW n \in Nat, VCommandAt(k, n)
    PROVE  CommandAt(k, n, TRUE)
<1>1. Ends(k + n + 1) /\ script[k] = View[k]
  BY EndRead
<1>2. PICK a : a = Args[script[k].val]
  OBVIOUS
<1>3. /\ script[k].val \in funcs /\ script[k].typ = "id"
      /\ \A i \in 1 .. n : i <= Len(a) /\ Fits(View[k + i], a[i])
      /\ \A i \in n + 1 .. Len(a) : a[i] = "opt"
      /\ script[k].val = "WRITE_FILE" => Usable(View[k + 1].val, View[k + 2].val)
      /\ script[k].val = "LOAD_IMAGE" => Usable("F", View[k + 1].val)
  BY <1>1, <1>2 DEF VCommandAt
<1>4. ASSUME NEW i \in 1 .. n
      PROVE  \/ script[k + i].typ \notin Cut /\ View[k + i] = script[k + i]
             \/ Repeats(k + i) /\ a[i] \in {"int", "opt"}
  BY <1>1, <1>2, ArgRead
<1>5. ASSUME NEW i \in 1 .. n
      PROVE  /\ i <= Len(a)
             /\ Fits(script[k + i], a[i]) \/ (TRUE /\ a[i] \in {"int", "opt"} /\ Repeats(k + i))
  BY <1>3, <1>4
<1>6. script[k].val = "WRITE_FILE" => Usable(script[k + 1].val, script[k + 2].val)
  <2>1. SUFFICES ASSUME script[k].val = "WRITE_FILE" PROVE Usable(script[k + 1].val, script[k + 2].val)
    OBVIOUS
  <2>2. a = <<"kind", "str", "opt", "opt", "opt", "opt">>
    BY <1>2, <2>1 DEF Args
  <2>3. 1 \in 1 .. n /\ 2 \in 1 .. n
    BY <1>3, <2>2
  <2>4. View[k + 1] = script[k + 1] /\ View[k + 2] = script[k + 2]
    BY <1>4, <2>2, <2>3
  <2> QED
    BY <1>3, <2>1, <2>4
<1>7. script[k].val = "LOAD_IMAGE" => Usable("F", script[k + 1].val)
  <2>1. SUFFICES ASSUME script[k].val = "LOAD_IMAGE" PROVE Usable("F", script[k + 1].val)
    OBVIOUS
  <2>2. a = <<"str">>
    BY <1>2, <2>1 DEF Args
  <2>3. 1 \in 1 .. n
    BY <1>3, <2>2
  <2>4. View[k + 1] = script[k + 1]
    BY <1>4, <2>2, <2>3
  <2> QED
    BY <1>3, <2>1, <2>4
<1> QED
  BY <1>1, <1>2, <1>3, <1>5, <1>6, <1>7 DEF CommandAt

\* The second pass only begins when every statement of the script is proper or one
\* of those that Slips names, and it finds no error in the script: the dry run of
\* main checks what the second call of script_parse reads.
THEOREM SyntaxIsChecked == Spec => []SyntaxChecked
<1>1. TypeInv /\ ParserInv => SyntaxChecked
  <2>1. SUFFICES ASSUME TypeInv, ParserInv, pass = "run", NEW k \in 1 .. Len(script), Starts(k)
                 PROVE  Proper(k) \/ Slips(k)
    BY DEF SyntaxChecked, ParserInv
  <2>2. script \in Scripts /\ Verified /\ Len(View) = Len(script) /\ Len(script) \in Nat
    BY <2>1, ScriptFacts DEF TypeInv, ParserInv
  <2>3. VStarts(k)
    BY <2>1, <2>2, StartsShown
  <2>4. VProper(k) \/ (k = Len(script) /\ View[k].typ # "bad")
    BY <2>1, <2>2, <2>3 DEF Verified
  <2>5. CASE k = Len(script) /\ View[k].typ # "bad"
    <3>1. script[k].typ # "bad"
      BY <2>1, <2>2, <2>5, ViewFacts
    <3> QED
      BY <2>5, <3>1 DEF Slips, Unseen
  <2>6. CASE VEnds(k)
    BY <2>1, <2>2, <2>6, SlipEnd DEF Proper
  <2>7. CASE \E n \in 0 .. Len(View) : VCommandAt(k, n)
    <3>1. PICK n \in 0 .. Len(script) : VCommandAt(k, n)
      BY <2>2, <2>7
    <3>2. n \in Nat
      BY <2>2
    <3>3. CommandAt(k, n, TRUE)
      BY <2>1, <2>2, <3>1, <3>2, SlipCommand
    <3> QED
      BY <3>1, <3>3 DEF Slips
  <2> QED
    BY <2>4, <2>5, <2>6, <2>7 DEF VProper
<1> QED
  BY <1>1, ParserAlways, PTL

-----------------------------------------------------------------------------
(* Handles.                                                                *)

\* Main closes the device that is open, if one is.
LEMMA HandlesClose ==
    ASSUME TypeInv, HandlesInv, pass = "run", ~Ended, ~Waiting, hid_close
    PROVE  open' = {} /\ ~misuse'
<1>1. open = (IF dev = NoDev THEN {} ELSE {dev.id})
  BY DEF HandlesInv
<1>2. open' = {}
  BY <1>1 DEF hid_close
<1>3. ~(dev # NoDev /\ dev.id \notin open)
  BY <1>1
<1>4. misuse' = (misuse \/ (dev # NoDev /\ dev.id \notin open)) /\ ~misuse
  BY DEF hid_close, HandlesInv
<1>5. ~misuse'
  BY <1>3, <1>4
<1> QED
  BY <1>2, <1>5

\* Giving up does.
LEMMA HandlesFail ==
    ASSUME TypeInv, HandlesInv, ~Ended, NEW e, Fail(e), pass = "run" => ~Waiting
    PROVE  HandlesInv'
<1>1. pc' = "ended" /\ pass' = pass /\ dev' = dev
  BY DEF Fail
<1>2. CASE pass = "run" /\ hid_close
  <2>1. open' = {} /\ ~misuse'
    BY <1>2, HandlesClose
  <2> QED
    BY <1>1, <1>2, <2>1 DEF HandlesInv, Ended
<1>3. CASE pass = "dry" /\ UNCHANGED <<open, misuse>>
  <2>1. open = {} /\ dev = NoDev /\ ~misuse
    BY <1>3 DEF HandlesInv
  <2>2. ~misuse'
    BY <1>3, <2>1
  <2> QED
    BY <1>1, <1>3, <2>1, <2>2 DEF HandlesInv, Ended
<1> QED
  BY <1>2, <1>3 DEF Fail

\* Where nothing happens to a device.
LEMMA HandlesKept ==
    ASSUME HandlesInv, UNCHANGED <<pass, dev, open, misuse, cmd>>, ~Ended,
           ~Ended' => (Waiting' <=> Waiting),
           pc' # "ended", pc' = "wait" => cmd.name = "WAIT",
           pc' \in {"data", "reply"} => dev # NoDev /\ cmd.name # "WAIT"
    PROVE  HandlesInv'
<1>1. ~misuse'
  BY DEF HandlesInv
<1> QED
  BY <1>1 DEF HandlesInv, Ended

\* A report is sent to a device that is open.
LEMMA HandlesWrite ==
    ASSUME HandlesInv, pass = "run", pc = "args", cmd.name # "WAIT", UNCHANGED <<pass, cmd>>,
           NEW n, hid_write_cmd(n), pc' \in {"data", "reply"}
    PROVE  HandlesInv'
<1>1. dev # NoDev /\ dev' = dev /\ open' = open
  BY DEF hid_write_cmd
<1>2. open = {dev.id}
  BY <1>1 DEF HandlesInv, Waiting, Ended
<1>3. misuse' = (misuse \/ dev.id \notin open) /\ ~misuse
  BY DEF hid_write_cmd, HandlesInv
<1>4. ~misuse'
  BY <1>2, <1>3
<1> QED
  BY <1>1, <1>2, <1>4 DEF HandlesInv, Waiting, Ended

\* A command is met: WAIT closes what is open.
LEMMA HandlesCommand ==
    ASSUME TypeInv, HandlesInv, script_parse_command
    PROVE  HandlesInv'
<1>1. /\ pc = "parse" /\ pc' = "args" /\ pass' = pass /\ dev' = dev /\ cmd'.name = s.next.val
      /\ pass \in {"dry", "run"}
  BY DEF script_parse_command, TypeInv
<1>2. ~Ended /\ ~Waiting /\ (Waiting' <=> s.next.val = "WAIT")
  BY <1>1 DEF Ended, Waiting
<1>3. CASE s.next.val = "WAIT" /\ hid_close
  <2>1. open' = {} /\ ~misuse'
    <3>1. CASE pass = "run"
      BY <1>2, <1>3, <3>1, HandlesClose
    <3>2. CASE pass = "dry"
      <4>1. open = {} /\ dev = NoDev /\ ~misuse
        BY <3>2 DEF HandlesInv
      <4>2. ~misuse'
        <5>1. misuse' = (misuse \/ (dev # NoDev /\ dev.id \notin open))
          BY <1>3 DEF hid_close
        <5> QED
          BY <4>1, <5>1
      <4> QED
        BY <1>3, <4>1, <4>2 DEF hid_close
    <3> QED
      BY <1>1, <3>1, <3>2
  <2> QED
    BY <1>1, <1>2, <1>3, <2>1 DEF HandlesInv
<1>4. CASE s.next.val # "WAIT" /\ UNCHANGED <<open, misuse>>
  <2>1. ~misuse'
    BY <1>4 DEF HandlesInv
  <2> QED
    BY <1>1, <1>2, <1>4, <2>1 DEF HandlesInv
<1> QED
  BY <1>3, <1>4 DEF script_parse_command

\* WAIT finds a device, or none.
LEMMA HandlesWait ==
    ASSUME TypeInv, ParserInv, HandlesInv, wait_cmd_open
    PROVE  HandlesInv'
<1>1. pass = "run" /\ cmd.name = "WAIT" /\ open = {} /\ pc = "wait" /\ ~misuse
  BY DEF ParserInv, HandlesInv, wait_cmd_open, Waiting, Ended
<1>2. pass' = pass /\ cmd' = cmd /\ ~misuse'
  BY <1>1 DEF wait_cmd_open
<1>3. CASE /\ dev' = [id |-> 1 + Len(ops), on |-> cmd.args] /\ open' = open \cup {dev'.id}
           /\ Finished /\ pc' = "eol" /\ UNCHANGED err
  <2>1. Len(ops) \in Nat
    BY LenProperties DEF TypeInv
  <2>2. dev'.id = 1 + Len(ops) /\ dev'.id # 0
    BY <1>3, <2>1
  <2>3. dev' # NoDev
    BY <2>2 DEF NoDev
  <2>4. open' = {dev'.id}
    BY <1>1, <1>3
  <2> QED
    BY <1>1, <1>2, <1>3, <2>2, <2>3, <2>4 DEF HandlesInv, Waiting, Ended
<1>4. CASE dev' = NoDev /\ open' = open /\ pc' \in {"wait", "ended"}
  BY <1>1, <1>2, <1>4 DEF HandlesInv, Waiting, Ended
<1> QED
  BY <1>1, <1>3, <1>4 DEF wait_cmd_open

\* Every step keeps the handles in order.
LEMMA HandlesStep ==
    ASSUME TypeInv, PosInv, ParserInv, HandlesInv, [Next]_vars
    PROVE  HandlesInv'
<1>1. CASE script_parse_crash
  BY <1>1, HandlesKept DEF script_parse_crash, Ended
<1>2. CASE script_parse_skip
  BY <1>2, HandlesKept DEF script_parse_skip, Ended, Waiting
<1>3. CASE script_parse_reject
  BY <1>3, HandlesFail DEF script_parse_reject, Ended, Waiting
<1>4. CASE script_parse_eol
  <2>1. pc = "eol" /\ ~Ended /\ ~Waiting
    BY <1>4 DEF script_parse_eol, Ended, Waiting
  <2>2. CASE Fail("syntax")
    BY <2>1, <2>2, HandlesFail
  <2>3. CASE ~Fail("syntax")
    <3>1. pc' = "parse" /\ UNCHANGED <<pass, dev, open, misuse, cmd>>
      BY <1>4, <2>3 DEF script_parse_eol
    <3> QED
      BY <2>1, <3>1, HandlesKept DEF Ended, Waiting
  <2> QED
    BY <2>2, <2>3
<1>5. CASE script_parse_end
  <2>1. pc = "parse" /\ ~Ended /\ ~Waiting /\ dev' = dev /\ cmd' = cmd
    BY <1>5 DEF script_parse_end, Ended, Waiting
  <2>2. CASE pass = "dry" /\ pc' \in {"parse", "ended"} /\ UNCHANGED <<open, misuse>>
    <3>1. open = {} /\ dev = NoDev /\ ~misuse
      BY <2>2 DEF HandlesInv
    <3>2. ~misuse'
      BY <2>2, <3>1
    <3> QED
      BY <2>1, <2>2, <3>1, <3>2 DEF HandlesInv, Ended
  <2>3. CASE pass = "run" /\ pc' = "ended" /\ hid_close /\ pass' = pass
    <3>1. open' = {} /\ ~misuse'
      BY <2>1, <2>3, HandlesClose
    <3> QED
      BY <2>1, <2>3, <3>1 DEF HandlesInv, Ended
  <2> QED
    BY <1>5, <2>1, <2>2, <2>3 DEF script_parse_end
<1>6. CASE script_expect
  <2>1. pc = "args" /\ want # <<>> /\ ~Ended
    BY <1>6 DEF script_expect, Ended
  <2>2. CASE UNCHANGED <<pass, pc, dev, open, misuse>> /\ cmd'.name = cmd.name
    <3>1. ~misuse'
      BY <2>2 DEF HandlesInv
    <3> QED
      BY <2>1, <2>2, <3>1 DEF HandlesInv, Waiting, Ended
  <2>3. CASE /\ ~Fits(s.next, Head(want))
             /\ ~(Head(want) = "opt" /\ s.next.typ \in {"nl", "comment"})
             /\ Fail("syntax") /\ UNCHANGED s
    <3>1. ASSUME pass = "run"
          PROVE  FALSE
      <4>1. Verified /\ Reading(s.ptr, cmd, want)
        BY <2>1, <3>1 DEF ParserInv, Hung
      <4> QED
        BY <2>1, <2>3, <4>1, RunNext
    <3> QED
      BY <2>1, <2>3, <3>1, HandlesFail
  <2>4. ASSUME cmd' = [cmd EXCEPT !.args = Append(@, s.next.val)]
        PROVE  cmd'.name = cmd.name
    BY <2>4 DEF TypeInv
  <2> QED
    BY <1>6, <2>2, <2>3, <2>4 DEF script_expect
<1>7. CASE wait_cmd
  <2>1. /\ pc = "args" /\ cmd.name = "WAIT" /\ UNCHANGED <<pass, dev, open, misuse, cmd>>
        /\ \/ pc' = "eol" /\ pass = "dry"
           \/ pc' = "wait" /\ pass = "run"
    BY <1>7 DEF wait_cmd, Parsed, Dry
  <2>2. ~misuse'
    BY <2>1 DEF HandlesInv
  <2> QED
    BY <2>1, <2>2 DEF HandlesInv, Waiting, Ended
<1>8. CASE device_cmd
  <2>1. /\ pc = "args" /\ cmd.name # "WAIT" /\ ~Ended /\ ~Waiting /\ UNCHANGED <<pass, cmd>>
    BY <1>8 DEF device_cmd, Parsed, Ended, Waiting
  <2>2. CASE hid_write_error
    BY <2>1, <2>2, HandlesFail DEF hid_write_error
  <2>3. CASE Dry
    BY <2>1, <2>3, HandlesKept DEF Dry, Waiting
  <2>4. CASE /\ pass = "run" /\ pc' = "reply"
             /\ hid_write_cmd(IF cmd.name \in {"JUMP_ADDRESS", "GET_PROPERTY"} THEN 1 ELSE 2)
    BY <2>1, <2>4, HandlesWrite
  <2> QED
    BY <1>8, <2>2, <2>3, <2>4 DEF device_cmd
<1>9. CASE file_cmd
  <2>1. /\ pc = "args" /\ cmd.name # "WAIT" /\ ~Ended /\ ~Waiting /\ UNCHANGED <<pass, cmd>>
    BY <1>9 DEF file_cmd, Parsed, Ended, Waiting
  <2>2. CASE hid_write_error
    BY <2>1, <2>2, HandlesFail DEF hid_write_error
  <2>3. CASE Dry
    BY <2>1, <2>3, HandlesKept DEF Dry, Waiting
  <2>4. CASE /\ pass = "run" /\ pc' = "data"
             /\ hid_write_cmd(IF cmd.name = "WRITE_FILE" THEN 2 ELSE 0)
    BY <2>1, <2>4, HandlesWrite
  <2>5. CASE get_buffer_error
    BY <2>1, <2>5, HandlesFail DEF get_buffer_error
  <2> QED
    BY <1>9, <2>2, <2>3, <2>4, <2>5 DEF file_cmd
<1>10. CASE hid_write_data
  <2>1. pc = "data" /\ ~Ended /\ ~Waiting /\ dev # NoDev /\ cmd.name # "WAIT"
    BY <1>10 DEF hid_write_data, Ended, Waiting, HandlesInv
  <2>2. CASE Fail("device")
    BY <2>1, <2>2, HandlesFail
  <2>3. CASE UNCHANGED <<script, pass, pc, s, err, cmd, want, dev, open, misuse, secs, reads, ops>>
    BY <2>1, <2>3, HandlesKept DEF Waiting
  <2>4. CASE pc' = "crashed" /\ UNCHANGED <<pass, dev, open, misuse>>
    BY <2>4 DEF HandlesInv, Ended
  <2> QED
    BY <1>10, <2>2, <2>3, <2>4 DEF hid_write_data
<1>11. CASE hid_write_last
  <2>1. /\ pc = "data" /\ ~Ended /\ ~Waiting /\ dev # NoDev /\ cmd.name # "WAIT"
        /\ pc' \in {"reply", "eol"} /\ UNCHANGED <<pass, dev, open, misuse, cmd>>
    BY <1>11 DEF hid_write_last, Ended, Waiting, HandlesInv
  <2> QED
    BY <2>1, HandlesKept DEF Waiting
<1>12. CASE hid_read
  <2>1. pc = "reply" /\ ~Ended /\ ~Waiting /\ dev # NoDev /\ cmd.name # "WAIT"
    BY <1>12 DEF hid_read, Ended, Waiting, HandlesInv
  <2>2. CASE Fail("device")
    BY <2>1, <2>2, HandlesFail
  <2>3. CASE ~Fail("device")
    <3>1. pc' \in {"reply", "eol"} /\ UNCHANGED <<pass, dev, open, misuse, cmd>>
      BY <1>12, <2>1, <2>3 DEF hid_read
    <3> QED
      BY <2>1, <3>1, HandlesKept DEF Waiting
  <2> QED
    BY <2>2, <2>3
<1>13. CASE UNCHANGED vars
  <2>1. ~misuse' /\ UNCHANGED <<pass, pc, cmd, dev, open>>
    BY <1>13 DEF vars, HandlesInv
  <2> QED
    BY <2>1 DEF HandlesInv, Waiting, Ended
<1> QED
  BY <1>1, <1>2, <1>3, <1>4, <1>5, <1>6, <1>7, <1>8, <1>9, <1>10, <1>11, <1>12, <1>13,
     HandlesCommand, HandlesWait DEF Next, finished

\* No handle is used or closed after it was closed, although WAIT leaves one in dev:
\* between closing it and opening another script_parse cannot fail, because the
\* second pass finds the arguments that the first has checked.
THEOREM HandlesStaySound == Spec => []HandlesSound
<1>1. Init => HandlesInv
  <2>1. SUFFICES ASSUME Init PROVE HandlesInv
    OBVIOUS
  <2>2. ~misuse
    BY <2>1 DEF Init
  <2> QED
    BY <2>1, <2>2 DEF Init, HandlesInv, Ended
<1>2. TypeInv /\ PosInv /\ ParserInv /\ HandlesInv /\ [Next]_vars => HandlesInv'
  BY HandlesStep
<1>3. HandlesInv => HandlesSound
  BY DEF HandlesInv, HandlesSound
<1> QED
  BY <1>1, <1>2, <1>3, ParserAlways, PTL DEF Spec

-----------------------------------------------------------------------------
(* Files.                                                                  *)

\* A report is padded to the next multiple, and a full one not at all.
LEMMA RoundUp ==
    ASSUME NEW n \in Nat, NEW a \in Nat, a > 0, NEW d, d = ((n + a - 1) \div a) * a
    PROVE  d \in Nat /\ n <= d /\ d <= n + a - 1 /\ (n % a = 0 => d = n)
<1>1. PICK b, q, r : b = n + a - 1 /\ q = b \div a /\ r = b % a
  OBVIOUS
<1>2. b \in Nat
  BY <1>1
<1>3. q \in Nat /\ r \in Nat /\ r < a /\ b = q * a + r
  BY <1>1, <1>2
<1>4. d = q * a /\ q * a \in Nat
  BY <1>1, <1>3
<1>5. n <= d /\ d <= n + a - 1
  BY <1>1, <1>2, <1>3, <1>4
<1>6. ASSUME n % a = 0
      PROVE  d = n
  <2>1. PICK m : m = n \div a
    OBVIOUS
  <2>2. m \in Nat /\ n = m * a
    BY <1>6, <2>1
  <2>3. q * a < m * a + a /\ m * a <= q * a
    BY <1>4, <1>5, <2>2
  <2>4. ~(q >= m + 1)
    <3>1. SUFFICES ASSUME q >= m + 1 PROVE FALSE
      OBVIOUS
    <3>2. q * a >= (m + 1) * a
      BY <1>3, <2>2, <3>1
    <3>3. (m + 1) * a = m * a + a
      BY <2>2
    <3> QED
      BY <1>4, <2>2, <2>3, <3>2, <3>3
  <2>5. q * a <= m * a
    <3>1. q <= m
      BY <1>3, <2>2, <2>4
    <3> QED
      BY <1>3, <2>2, <3>1
  <2> QED
    BY <1>4, <2>2, <2>3, <2>5
<1> QED
  BY <1>4, <1>5, <1>6

\* The numbers of a command with a file.
LEMMA SizeFacts ==
    ASSUME TypeInv, PosInv, Reading(s.ptr, cmd, <<>>), FileThere(cmd), cmd.name \in FileCmds
    PROVE  Size \in Nat /\ Offset \in Nat /\ FileLen \in Nat /\ Size <= FileLen
<1>1. PICK l : l = Len(cmd.args)
  OBVIOUS
<1>2. PICK k : k = s.ptr - 2 - l
  OBVIOUS
<1>3. BegunAt(k, cmd)
  BY <1>1, <1>2 DEF Reading
<1>4. /\ l \in Nat /\ k \in 1 .. Len(View) /\ Len(View) \in Nat /\ s.ptr \in Nat
      /\ k < Len(View) /\ s.ptr = k + l + 2 /\ s.ptr <= Len(View) + 1 /\ cmd.name \in funcs
  BY <1>1, <1>2, <1>3, Place
<1>5. FileLen \in Nat
  BY PsuAssumption DEF FileLen, Name, FileThere, FileCmds, Usable
<1>6. ASSUME NEW i \in {3, 4}
      PROVE  Opt(i) \in Nat
  <2>1. CASE cmd.name = "WRITE_FILE" /\ l >= 2 + i
    <3>1. Args[cmd.name] = <<"kind", "str", "opt", "opt", "opt", "opt">>
      BY <2>1 DEF Args
    <3>2. PICK j : j = 2 + i
      OBVIOUS
    <3>3. j \in 1 .. Len(cmd.args) /\ j \in {5, 6} /\ k + j \in 1 .. Len(View)
      BY <1>1, <1>4, <2>1, <3>2
    <3>4. ArgAt(k, cmd, j)
      BY <1>3, <3>3 DEF BegunAt
    <3>5. Args[cmd.name][j] = "opt"
      BY <3>1, <3>3
    <3>6. View[k + j].typ = "int"
      BY <3>4, <3>5, FitsFacts DEF ArgAt, Kinds
    <3>7. View[k + j] \in Looks
      BY <3>3, ScriptFacts DEF TypeInv, Looks
    <3>8. cmd.args[j] \in Nat
      BY <3>4, <3>6, <3>7, TokenFacts DEF ArgAt
    <3> QED
      BY <1>1, <2>1, <3>2, <3>8 DEF Opt
  <2>2. CASE ~(cmd.name = "WRITE_FILE" /\ l >= 2 + i)
    BY <1>1, <2>2 DEF Opt
  <2> QED
    BY <2>1, <2>2
<1>7. Opt(3) \in Nat /\ Opt(4) \in Nat
  BY <1>6
<1> QED
  BY <1>5, <1>7 DEF Size, Offset

\* They belong to the command.
LEMMA SizeKept ==
    ASSUME cmd' = cmd
    PROVE  Size' = Size /\ Offset' = Offset /\ FileLen' = FileLen
  BY DEF Size, Offset, FileLen, Opt, Name

\* With the last report less than a cells too many are sent.
LEMMA ReportBound ==
    ASSUME NEW z \in Nat, NEW l \in Nat, NEW n \in Nat, NEW d \in Nat, NEW a \in Nat, a > 0,
           NEW c \in Nat, l + n <= z, d <= n + a - 1, n = c => d = n, n = z - l \/ n = c
    PROVE  l + d <= z + a - 1
  OBVIOUS

\* A place among l + d that is not one of the first l is one of the d.
LEMMA ReportSplit ==
    ASSUME NEW l \in Nat, NEW d \in Nat, NEW i \in 1 .. l + d, ~(i <= l), NEW m, m = i - l
    PROVE  m \in 1 .. d /\ l + m = i
  OBVIOUS

\* What the device has got is right as far as it goes; the cells of a report.
Sent(r)   == /\ r \in Seq(Int)
             /\ \A i \in 1 .. Len(r) :
                   r[i] = Cell(Size, Offset, FileLen, i)
Report(n) == [i \in 1 .. Padded(n) |-> IF i <= n THEN Slice[Len(rcv) + i] ELSE 0]

\* A report carries the next cells of the file, and behind them only padding.
LEMMA SentMore ==
    ASSUME TypeInv, PosInv, Reading(s.ptr, cmd, <<>>), FileThere(cmd), cmd.name \in FileCmds,
           Sent(rcv), NEW n, n = Rest(Len(rcv)), n > 0, NEW r, r = rcv \o Report(n)
    PROVE  Sent(r) /\ Len(r) <= Size + Align - 1
<1>1. PICK z, o, f, l, d : z = Size /\ o = Offset /\ f = FileLen /\ l = Len(rcv) /\ d = Padded(n)
  OBVIOUS
<1>2. z \in Nat /\ o \in Nat /\ f \in Nat /\ l \in Nat
  BY <1>1, SizeFacts, LenProperties DEF Sent
<1>3. ChunkSz \in Nat /\ ChunkSz > 0 /\ Align \in Nat /\ Align > 0 /\ ChunkSz % Align = 0
  BY PsuAssumption
<1>4. n \in Nat /\ l + n <= z /\ (n = z - l \/ n = ChunkSz)
  BY <1>1, <1>2, <1>3 DEF Rest
<1>5. d \in Nat /\ n <= d /\ d <= n + Align - 1 /\ (n = ChunkSz => d = n)
  <2>1. CASE cmd.name = "WRITE_FILE"
    <3>1. d = ((n + Align - 1) \div Align) * Align
      BY <1>1, <2>1 DEF Padded
    <3> QED
      BY <1>3, <1>4, <3>1, RoundUp
  <2>2. CASE cmd.name # "WRITE_FILE"
    BY <1>1, <1>3, <1>4, <2>2 DEF Padded
  <2> QED
    BY <2>1, <2>2
<1>6. PICK g : g = [i \in 1 .. d |-> IF i <= n THEN Slice[l + i] ELSE 0]
  OBVIOUS
<1>7. ASSUME NEW i \in 1 .. d
      PROVE  /\ g[i] = Cell(z, o, f, l + i)
             /\ g[i] \in Int
  <2>1. i \in Nat
    BY <1>5
  <2>2. CASE i <= n
    <3>1. l + i \in 1 .. z
      BY <1>2, <1>4, <1>7, <2>2
    <3>2. Slice[l + i] = IF o + (l + i) <= f THEN o + (l + i) ELSE Unknown
      BY <1>1, <3>1 DEF Slice
    <3>3. g[i] = Slice[l + i]
      BY <1>6, <2>2
    <3> QED
      BY <1>2, <2>1, <3>1, <3>2, <3>3 DEF Cell, Unknown
  <2>3. CASE ~(i <= n)
    <3>1. g[i] = 0
      BY <1>6, <2>3
    <3>2. n # ChunkSz
      BY <1>4, <1>5, <1>7, <2>1, <2>3
    <3>3. n = z - l
      BY <1>4, <3>2
    <3>4. ~(l + i <= z)
      BY <1>2, <1>4, <2>1, <2>3, <3>3
    <3> QED
      BY <3>1, <3>4 DEF Cell
  <2> QED
    BY <2>2, <2>3
<1>8. g \in Seq(Int) /\ Len(g) = d
  <2>1. g \in [1 .. d -> Int]
    <3>1. DOMAIN g = 1 .. d /\ g = [i \in 1 .. d |-> g[i]]
      BY <1>6
    <3> QED
      BY <1>7, <3>1
  <2> QED
    BY <1>5, <2>1
<1>9. r = rcv \o g /\ rcv \in Seq(Int)
  BY <1>1, <1>6 DEF Report, Sent
<1>10. /\ r \in Seq(Int) /\ Len(r) = l + d
       /\ \A i \in 1 .. l : r[i] = rcv[i]
       /\ \A i \in 1 .. d : r[l + i] = g[i]
  <2>1. /\ rcv \o g \in Seq(Int) /\ Len(rcv \o g) = Len(rcv) + Len(g)
        /\ \A i \in 1 .. Len(rcv) + Len(g) :
              (rcv \o g)[i] = IF i <= Len(rcv) THEN rcv[i] ELSE g[i - Len(rcv)]
    BY <1>8, <1>9, ConcatProperties
  <2>2. ASSUME NEW i \in 1 .. l PROVE r[i] = rcv[i]
    <3>1. i \in 1 .. Len(rcv) + Len(g) /\ i <= Len(rcv)
      BY <1>1, <1>2, <1>5, <1>8
    <3> QED
      BY <1>9, <2>1, <3>1
  <2>3. ASSUME NEW i \in 1 .. d PROVE r[l + i] = g[i]
    <3>1. l + i \in 1 .. Len(rcv) + Len(g) /\ ~(l + i <= Len(rcv)) /\ (l + i) - Len(rcv) = i
      BY <1>1, <1>2, <1>5, <1>8
    <3>2. (rcv \o g)[l + i] = g[(l + i) - Len(rcv)]
      BY <2>1, <3>1
    <3> QED
      BY <1>9, <3>1, <3>2
  <2> QED
    BY <1>1, <1>8, <1>9, <2>1, <2>2, <2>3
<1>len. Len(r) = l + d
  BY <1>10
<1>11. Len(r) <= z + Align - 1
  <2>1. l + d <= z + Align - 1
    BY <1>2, <1>3, <1>4, <1>5, ReportBound
  <2> QED
    BY <1>len, <2>1
<1>12. ASSUME NEW i \in 1 .. Len(r)
       PROVE  r[i] = Cell(z, o, f, i)
  <2>1. CASE i <= l
    <3>1. i \in 1 .. l
      BY <1>2, <1>10, <2>1
    <3> QED
      BY <1>1, <1>10, <3>1 DEF Sent
  <2>2. CASE ~(i <= l)
    <3>1. PICK m : m = i - l
      OBVIOUS
    <3>2. m \in 1 .. d /\ l + m = i
      BY <1>2, <1>5, <1>len, <2>2, <3>1, ReportSplit
    <3> QED
      BY <1>7, <1>10, <3>2
  <2> QED
    BY <2>1, <2>2
<1> QED
  BY <1>1, <1>10, <1>11, <1>12 DEF Sent

\* Every step keeps what is known of a transfer.
LEMMA SentStep ==
    ASSUME TypeInv, PosInv, ParserInv, SentInv, [Next]_vars
    PROVE  SentInv'
<1>1. ASSUME pc' \notin {"data", "reply"}
      PROVE  SentInv'
  BY <1>1 DEF SentInv
<1>2. ASSUME pc \in {"data", "reply"}
      PROVE  Reading(s.ptr, cmd, <<>>) /\ FileThere(cmd)
  BY <1>2 DEF ParserInv, Hung
<1>3. CASE script_parse_crash \/ script_parse_skip \/ script_parse_eol
  BY <1>1, <1>3 DEF script_parse_crash, script_parse_skip, script_parse_eol, Fail
<1>4. CASE script_parse_reject \/ script_parse_end \/ script_parse_command
  BY <1>1, <1>4 DEF script_parse_reject, script_parse_end, script_parse_command, Fail
<1>5. CASE script_expect
  BY <1>1, <1>5 DEF script_expect, Fail
<1>6. CASE wait_cmd \/ wait_cmd_open
  BY <1>1, <1>6 DEF wait_cmd, wait_cmd_open, Dry
<1>7. CASE device_cmd
  BY <1>7 DEF device_cmd, Parsed, SentInv, FileCmds
<1>8. CASE file_cmd
  <2>1. CASE pc' = "data"
    <3>1. /\ pc = "args" /\ want = <<>> /\ cmd' = cmd /\ rcv' = <<>> /\ pass = "run"
          /\ cmd.name \in FileCmds
      BY <1>8, <2>1 DEF file_cmd, Parsed, Dry, hid_write_error, get_buffer_error, Fail, FileCmds
    <3>2. Reading(s.ptr, cmd, <<>>) /\ FileThere(cmd)
      BY <3>1, RunFile DEF ParserInv, Hung
    <3>3. Size \in Nat /\ Align \in Nat /\ Align > 0
      BY <3>1, <3>2, SizeFacts, PsuAssumption
    <3>4. Size' = Size
      BY <3>1, SizeKept
    <3>5. rcv' \in Seq(Int) /\ Len(rcv') = 0
      BY <3>1, EmptySeq
    <3>6. Len(rcv') <= Size' + Align - 1
      BY <3>3, <3>4, <3>5
    <3>7. \A i \in 1 .. Len(rcv') : FALSE
      BY <3>5
    <3> QED
      BY <2>1, <3>5, <3>6, <3>7 DEF SentInv
  <2>2. CASE pc' # "data"
    <3>1. pc' \in {"eol", "ended"}
      BY <1>8, <2>2 DEF file_cmd, Dry, hid_write_error, get_buffer_error, Fail
    <3> QED
      BY <1>1, <3>1
  <2> QED
    BY <2>1, <2>2
<1>9. CASE hid_write_data
  <2>1. CASE pc' # "data"
    <3>1. pc' \in {"ended", "crashed"}
      BY <1>9, <2>1 DEF hid_write_data, Fail
    <3> QED
      BY <1>1, <3>1
  <2>2. CASE pc' = "data"
    <3>1. PICK n : n = Rest(Len(rcv))
      OBVIOUS
    <3>2. PICK r : r = rcv'
      OBVIOUS
    <3>3. /\ pc = "data" /\ n > 0 /\ cmd' = cmd
          /\ r = rcv \o [i \in 1 .. Padded(n) |-> IF i <= n THEN Slice[Len(rcv) + i] ELSE 0]
      BY <1>9, <2>2, <3>1, <3>2 DEF hid_write_data, Fail
    <3>4. CASE cmd.name \in FileCmds
      <4>1. /\ rcv \in Seq(Int)
            /\ \A i \in 1 .. Len(rcv) :
                  rcv[i] = Cell(Size, Offset, FileLen, i)
        BY <3>3, <3>4 DEF SentInv
      <4>2. Sent(r) /\ Len(r) <= Size + Align - 1
        BY <1>2, <3>1, <3>3, <3>4, <4>1, SentMore DEF Sent, Report
      <4>3. Size' = Size /\ Offset' = Offset /\ FileLen' = FileLen
        BY <3>3, SizeKept
      <4> QED
        BY <2>2, <3>2, <4>2, <4>3 DEF SentInv, Sent
    <3>5. CASE cmd.name \notin FileCmds
      BY <3>3, <3>5 DEF SentInv
    <3> QED
      BY <3>4, <3>5
  <2> QED
    BY <2>1, <2>2
<1>10. CASE hid_write_last
  <2>1. CASE pc' # "reply"
    <3>1. pc' = "eol"
      BY <1>10, <2>1 DEF hid_write_last
    <3> QED
      BY <1>1, <3>1
  <2>2. CASE pc' = "reply"
    <3>1. pc = "data" /\ Rest(Len(rcv)) <= 0 /\ cmd' = cmd /\ rcv' = rcv
      BY <1>10 DEF hid_write_last, io
    <3>2. CASE cmd.name \in FileCmds
      <4>1. /\ rcv \in Seq(Int) /\ Len(rcv) <= Size + Align - 1
            /\ \A i \in 1 .. Len(rcv) :
                  rcv[i] = Cell(Size, Offset, FileLen, i)
        BY <3>1, <3>2 DEF SentInv
      <4>2. Size \in Nat /\ Len(rcv) \in Nat /\ ChunkSz \in Nat /\ ChunkSz > 0
        BY <1>2, <3>1, <3>2, <4>1, SizeFacts, LenProperties, PsuAssumption
      <4>3. Len(rcv) >= Size
        BY <3>1, <4>2 DEF Rest
      <4>4. Size' = Size /\ Offset' = Offset /\ FileLen' = FileLen
        BY <3>1, SizeKept
      <4> QED
        BY <2>2, <3>1, <4>1, <4>3, <4>4 DEF SentInv
    <3>3. CASE cmd.name \notin FileCmds
      BY <3>1, <3>3 DEF SentInv
    <3> QED
      BY <3>2, <3>3
  <2> QED
    BY <2>1, <2>2
<1>11. ASSUME UNCHANGED <<pc, cmd, rcv>>
       PROVE  SentInv'
  <2>1. Size' = Size /\ Offset' = Offset /\ FileLen' = FileLen
    BY <1>11, SizeKept
  <2> QED
    BY <1>11, <2>1 DEF SentInv
<1>12. CASE hid_read
  <2>1. pc' \in {"eol", "ended"} \/ UNCHANGED <<pc, cmd, rcv>>
    BY <1>12 DEF hid_read, Fail
  <2> QED
    BY <1>1, <1>11, <2>1
<1>13. CASE UNCHANGED vars
  BY <1>11, <1>13 DEF vars, io
<1> QED
  BY <1>3, <1>4, <1>5, <1>6, <1>7, <1>8, <1>9, <1>10, <1>12, <1>13 DEF Next, finished

\* The device gets the part of the file that the command asked for, and behind it
\* less than Align cells of padding, whatever the sizes of files and reports; what
\* write_file_cmd asks for beyond the end of the file is unknown memory, and only
\* that.
THEOREM FilesAreDelivered == Spec => []FileDelivered
<1>1. Init => SentInv
  BY DEF Init, SentInv
<1>2. TypeInv /\ PosInv /\ ParserInv /\ SentInv /\ [Next]_vars => SentInv'
  BY SentStep
<1>3. TypeInv /\ PosInv /\ ParserInv /\ SentInv => FileDelivered
  <2>1. SUFFICES ASSUME TypeInv, PosInv, ParserInv, SentInv, pc \in {"data", "reply"},
                        cmd.name \in FileCmds
                 PROVE  FileDelivered
    BY DEF FileDelivered, FileCmds
  <2>2. /\ rcv \in Seq(Int) /\ Len(rcv) <= Size + Align - 1 /\ (pc = "reply" => Len(rcv) >= Size)
        /\ \A i \in 1 .. Len(rcv) :
              rcv[i] = Cell(Size, Offset, FileLen, i)
    BY <2>1 DEF SentInv
  <2>3. Reading(s.ptr, cmd, <<>>) /\ FileThere(cmd)
    BY <2>1 DEF ParserInv, Hung
  <2>4. /\ Size \in Nat /\ Align \in Nat /\ Len(rcv) \in Nat /\ Offset \in Nat
        /\ FileLen \in Nat
    BY <2>1, <2>2, <2>3, SizeFacts, LenProperties, PsuAssumption
  <2>5. ASSUME NEW i \in 1 .. Len(rcv)
        PROVE  /\ i <= Size /\ Offset + i <= FileLen => rcv[i] = Offset + i
               /\ i <= Size /\ Offset + i > FileLen => rcv[i] = Unknown
               /\ i > Size => rcv[i] = 0
    <3>1. PICK z, o, f : z = Size /\ o = Offset /\ f = FileLen
      OBVIOUS
    <3>2. rcv[i] = Cell(z, o, f, i) /\ z \in Nat /\ o \in Nat /\ f \in Nat /\ i \in Nat
      BY <2>2, <2>4, <3>1
    <3>3. /\ i <= z /\ o + i <= f => rcv[i] = o + i
          /\ i <= z /\ o + i > f => rcv[i] = Unknown
          /\ i > z => rcv[i] = 0
      <4>1. o + i \in Nat /\ (i > z => ~(i <= z)) /\ (o + i > f => ~(o + i <= f))
        BY <3>2
      <4> QED
        BY <3>2, <4>1 DEF Cell
    <3> QED
      BY <3>1, <3>3
  <2>6. pc = "reply" => Len(rcv) \in Size .. Size + Align - 1
    BY <2>2, <2>4
  <2> QED
    BY <2>5, <2>6 DEF FileDelivered
<1> QED
  BY <1>1, <1>2, <1>3, ParserAlways, PTL DEF Spec

-----------------------------------------------------------------------------
(* The commands of the script, one after the other.                        *)

\* There are finitely many.
LEMMA BeforeFinite ==
    ASSUME script \in Scripts, NEW b
    PROVE  IsFiniteSet(Before(b)) /\ Cardinality(Before(b)) \in Nat
<1>1. Len(View) \in Nat
  BY ScriptFacts
<1>2. IsFiniteSet(1 .. Len(View) - 1)
  BY <1>1, FS_Interval
<1>3. Before(b) \subseteq 1 .. Len(View) - 1
  BY DEF Before, VCommandsAt
<1> QED
  BY <1>2, <1>3, FS_Subset, FS_CardinalityType

\* A command comes after those before it.
LEMMA BeforeNext ==
    ASSUME script \in Scripts, NEW k \in VCommandsAt
    PROVE  /\ Before(k + 1) = Before(k) \cup {k} /\ k \notin Before(k)
           /\ Cardinality(Before(k + 1)) = Cardinality(Before(k)) + 1
           /\ VRank(k) = Cardinality(Before(k)) + 1
<1>1. Len(View) \in Nat /\ k \in Nat /\ \A j \in VCommandsAt : j \in Nat
  BY ScriptFacts DEF VCommandsAt
<1>2. Before(k + 1) = Before(k) \cup {k} /\ k \notin Before(k)
  <2>1. ASSUME NEW j \in VCommandsAt
        PROVE  (j < k + 1) <=> (j < k \/ j = k)
    BY <1>1
  <2>2. ~(k < k)
    BY <1>1
  <2> QED
    BY <2>1, <2>2 DEF Before
<1>3. Cardinality(Before(k) \cup {k}) = Cardinality(Before(k)) + 1
  BY <1>2, BeforeFinite, FS_AddElement
<1>4. {j \in VCommandsAt : j <= k} = Before(k + 1)
  <2>1. ASSUME NEW j \in VCommandsAt
        PROVE  (j < k + 1) <=> (j <= k)
    BY <1>1
  <2> QED
    BY <2>1 DEF Before
<1> QED
  BY <1>2, <1>3, <1>4 DEF VRank

\* The commands before b have the ranks up to their number.
LEMMA RankBound ==
    ASSUME script \in Scripts, NEW b \in Int, NEW k \in Before(b)
    PROVE  VRank(k) \in 1 .. Cardinality(Before(b))
<1>1. Len(View) \in Nat /\ k \in VCommandsAt /\ k \in Nat /\ k < b
  BY ScriptFacts DEF VCommandsAt, Before
<1>2. Before(k + 1) \subseteq Before(b)
  BY <1>1 DEF Before, VCommandsAt
<1>3. Cardinality(Before(k + 1)) <= Cardinality(Before(b))
  BY <1>2, BeforeFinite, FS_Subset
<1>4. Cardinality(Before(k)) \in Nat /\ Cardinality(Before(b)) \in Nat
  BY BeforeFinite
<1> QED
  BY <1>1, <1>3, <1>4, BeforeNext

\* Where there is no command nothing has to be done.
LEMMA DoneSame ==
    ASSUME script \in Scripts, NEW a \in Int, NEW b \in Int, a <= b,
           \A j \in a .. b - 1 : j \notin VCommandsAt, NEW o, Done(o, a)
    PROVE  Done(o, b)
<1>1. Before(a) = Before(b)
  <2>1. Len(View) \in Nat
    BY ScriptFacts
  <2>2. ASSUME NEW j \in VCommandsAt
        PROVE  (j < a) <=> (j < b)
    <3>1. j \in Nat
      BY <2>1 DEF VCommandsAt
    <3>2. ~(a <= j /\ j < b)
      BY <2>2, <3>1
    <3> QED
      BY <3>1, <3>2
  <2> QED
    BY <2>2 DEF Before
<1> QED
  BY <1>1 DEF Done

\* One more command does not change which WAIT was the last before an earlier one;
LEMMA FoundPrefix ==
    ASSUME NEW o \in Seq(Op), NEW e \in Op, NEW i \in 1 .. Len(o), NEW v, Found(o, i, v)
    PROVE  Found(Append(o, e), i, v)
<1>1. PICK r : r = Append(o, e)
  OBVIOUS
<1>2. Len(o) \in Nat /\ \A k \in 1 .. Len(o) : r[k] = o[k]
  BY <1>1
<1>3. PICK j \in 1 .. i : LastWait(o, i, j) /\ v = o[j].args
  BY DEF Found
<1>4. r[j] = o[j] /\ \A k \in j + 1 .. i : r[k] = o[k]
  BY <1>2
<1>5. LastWait(r, i, j)
  BY <1>3, <1>4 DEF LastWait
<1> QED
  BY <1>1, <1>3, <1>4, <1>5 DEF Found

\* a command that is no WAIT has the last one of those before it,
LEMMA FoundMore ==
    ASSUME NEW o \in Seq(Op), NEW e \in Op, e.name # "WAIT", NEW v, Found(o, Len(o), v)
    PROVE  Found(Append(o, e), Len(o) + 1, v)
<1>1. PICK r : r = Append(o, e)
  OBVIOUS
<1>2. Len(o) \in Nat /\ r[Len(o) + 1] = e /\ \A k \in 1 .. Len(o) : r[k] = o[k]
  BY <1>1
<1>3. PICK j \in 1 .. Len(o) : LastWait(o, Len(o), j) /\ v = o[j].args
  BY DEF Found
<1>4. ASSUME NEW k \in j + 1 .. Len(o) + 1
      PROVE  r[k].name # "WAIT"
  <2>1. CASE k = Len(o) + 1
    BY <1>2, <2>1
  <2>2. CASE k # Len(o) + 1
    <3>1. k \in j + 1 .. Len(o) /\ k \in 1 .. Len(o)
      BY <1>2, <2>2
    <3> QED
      BY <1>2, <1>3, <3>1 DEF LastWait
  <2> QED
    BY <2>1, <2>2
<1>5. r[j] = o[j] /\ j \in 1 .. Len(o) + 1
  BY <1>2
<1>6. LastWait(r, Len(o) + 1, j)
  BY <1>3, <1>4, <1>5 DEF LastWait
<1> QED
  BY <1>1, <1>3, <1>5, <1>6 DEF Found

\* and WAIT itself is the last.
LEMMA FoundWait ==
    ASSUME NEW o \in Seq(Op), NEW e \in Op, e.name = "WAIT"
    PROVE  Found(Append(o, e), Len(o) + 1, e.args)
<1>1. PICK r, j : r = Append(o, e) /\ j = Len(o) + 1
  OBVIOUS
<1>2. Len(o) \in Nat /\ r[j] = e /\ j \in 1 .. j /\ \A k \in j + 1 .. j : FALSE
  BY <1>1
<1>3. LastWait(r, j, j)
  BY <1>2 DEF LastWait
<1> QED
  BY <1>1, <1>2, <1>3 DEF Found

\* The arguments of a command are those that were read.
LEMMA ValsRead ==
    ASSUME script \in Scripts, NEW k, NEW c \in [name : Names, args : Seq(Values)], BegunAt(k, c),
           VCommandAt(k, Len(c.args))
    PROVE  VVals(k) = c.args /\ k \in VCommandsAt /\ View[k].val = c.name
<1>1. PICK l : l = Len(c.args)
  OBVIOUS
<1>2. l \in Nat /\ k \in 1 .. Len(View) /\ Len(View) \in Nat
  BY <1>1, ScriptFacts, LenProperties DEF BegunAt
<1>3. VEnds(k + l + 1)
  BY <1>1 DEF VCommandAt
<1>4. \A i \in 1 .. l : ~VEnds(k + i)
  <2>1. ASSUME NEW i \in 1 .. l
        PROVE  ~VEnds(k + i)
    <3>1. i \in 0 .. Len(c.args)
      BY <1>1, <1>2
    <3> QED
      BY <3>1, NotEnd
  <2> QED
    BY <2>1
<1>5. l \in 0 .. Len(View)
  BY <1>2, <1>3 DEF VEnds
<1>6. PICK m : m = VNArgs(k)
  OBVIOUS
<1>7. m \in 0 .. Len(View) /\ VEnds(k + m + 1) /\ \A i \in 1 .. m : ~VEnds(k + i)
  BY <1>3, <1>4, <1>5, <1>6 DEF VNArgs
<1>8. ~(m < l)
  <2>1. SUFFICES ASSUME m < l PROVE FALSE
    OBVIOUS
  <2>2. PICK i : i = m + 1
    OBVIOUS
  <2>3. i \in 1 .. l /\ k + i = k + m + 1
    BY <1>2, <1>7, <2>1, <2>2
  <2> QED
    BY <1>4, <1>7, <2>3
<1>9. ~(l < m)
  <2>1. SUFFICES ASSUME l < m PROVE FALSE
    OBVIOUS
  <2>2. PICK i : i = l + 1
    OBVIOUS
  <2>3. i \in 1 .. m /\ k + i = k + l + 1
    BY <1>2, <1>7, <2>1, <2>2
  <2> QED
    BY <1>3, <1>7, <2>3
<1>10. m = l
  BY <1>2, <1>7, <1>8, <1>9
<1>11. VVals(k) = [i \in 1 .. l |-> View[k + i].val]
  BY <1>6, <1>10 DEF VVals
<1>12. \A i \in 1 .. l : View[k + i].val = c.args[i]
  BY <1>1 DEF BegunAt, ArgAt
<1>13. c.args = [i \in 1 .. l |-> c.args[i]]
  BY <1>1
<1>14. [i \in 1 .. l |-> View[k + i].val] = [i \in 1 .. l |-> c.args[i]]
  BY <1>12
<1>15. VVals(k) = c.args
  BY <1>11, <1>13, <1>14
<1>16. k \in VCommandsAt
  BY <1>2, <1>3 DEF VCommandsAt, BegunAt, VEnds
<1> QED
  BY <1>15, <1>16 DEF BegunAt

\* A command is carried out on the device that the last WAIT has found.
LEMMA DoneNext ==
    ASSUME script \in Scripts, NEW k \in VCommandsAt, NEW o \in Seq(Op), Done(o, k), NEW e \in Op,
           e.name = View[k].val, e.args = VVals(k),
           \/ e.name = "WAIT" /\ e.on = e.args
           \/ e.name # "WAIT" /\ Found(o, Len(o), e.on),
           NEW r, r = Append(o, e)
    PROVE  Done(r, k + 1) /\ Found(r, Len(r), e.on)
<1>1. /\ Before(k + 1) = Before(k) \cup {k}
      /\ Cardinality(Before(k + 1)) = Cardinality(Before(k)) + 1
      /\ VRank(k) = Cardinality(Before(k)) + 1
  BY BeforeNext
<1>2. Len(o) = Cardinality(Before(k)) /\ Len(o) \in Nat
  BY LenProperties DEF Done
<1>3. Len(r) = Len(o) + 1 /\ r[Len(o) + 1] = e /\ \A i \in 1 .. Len(o) : r[i] = o[i]
  BY <1>2
<1>4. Found(r, Len(o) + 1, e.on)
  BY FoundMore, FoundWait
<1>5. Right(r, k)
  BY <1>1, <1>2, <1>3, <1>4 DEF Right
<1>6. ASSUME NEW j \in Before(k)
      PROVE  Right(r, j)
  <2>1. k \in Int
    BY ScriptFacts DEF VCommandsAt
  <2>2. PICK n : n = VRank(j)
    OBVIOUS
  <2>3. n \in 1 .. Len(o)
    BY <1>2, <2>1, <2>2, RankBound
  <2>4. Right(o, j)
    BY DEF Done
  <2>5. r[n] = o[n]
    BY <1>3, <2>3
  <2>6. Found(r, n, o[n].on)
    BY <2>2, <2>3, <2>4, FoundPrefix DEF Right
  <2> QED
    BY <2>2, <2>4, <2>5, <2>6 DEF Right
<1>7. Done(r, k + 1)
  BY <1>1, <1>2, <1>3, <1>5, <1>6 DEF Done
<1> QED
  BY <1>3, <1>4, <1>7

\* The script stays, and with it what has to be done.
LEMMA DoneKept ==
    ASSUME View' = View, NEW o, o = ops', NEW b, b = Reached'
    PROVE  /\ Done(ops, Reached)' <=> Done(o, b)
           /\ Done(ops, Len(View))' <=> Done(o, Len(View))
<1>1. Done(ops, Reached)' <=> Done(o, b)
  BY DEF Done, Before, Right, Found, LastWait, VRank, VVals, VNArgs, VCommandsAt, VStarts, VEnds
<1>2. Done(ops, Len(View))' <=> Done(o, Len(View))
  BY DEF Done, Before, Right, Found, LastWait, VRank, VVals, VNArgs, VCommandsAt, VStarts, VEnds
<1> QED
  BY <1>1, <1>2

\* The ways to a state: during the second pass,
LEMMA CarriedRun ==
    ASSUME View' = View, pass' = "run", ~Ended', NEW o, o = ops', NEW b, b = Reached',
           Done(o, b), dev' # NoDev /\ ~Waiting' => Found(o, Len(o), dev'.on)
    PROVE  CarriedInv'
<1>1. Done(ops, Reached)'
  BY DoneKept
<1>2. Found(ops, Len(ops), dev.on)' <=> Found(o, Len(o), dev'.on)
  BY DEF Found, LastWait
<1> QED
  BY <1>1, <1>2 DEF CarriedInv, Ended

\* during the first,
LEMMA CarriedDry ==
    ASSUME CarriedInv, pass = "dry", pass' = "dry", ops' = ops, pc' = "ended" => err' # "none"
    PROVE  CarriedInv'
  BY DEF CarriedInv

\* and giving up.
LEMMA CarriedFail ==
    ASSUME CarriedInv, NEW e, Fail(e), e # "none"
    PROVE  CarriedInv'
  BY DEF CarriedInv, Fail, Ended

\* Nothing is carried out.
LEMMA CarriedSame ==
    ASSUME TypeInv, CarriedInv, View' = View, pass' = pass, ~Ended, ~Ended', ops' = ops,
           NEW b, b = Reached', pass = "run" => Done(ops, b),
           dev' = dev, Waiting => Waiting'
    PROVE  CarriedInv'
<1>1. CASE pass = "dry"
  BY <1>1, CarriedDry DEF Ended
<1>2. CASE pass = "run"
  <2>1. dev' # NoDev /\ ~Waiting' => Found(ops, Len(ops), dev'.on)
    BY <1>2 DEF CarriedInv
  <2> QED
    BY <1>2, <2>1, CarriedRun
<1> QED
  BY <1>1, <1>2 DEF TypeInv

\* Places around a command at k with l arguments.
LEMMA Behind ==
    ASSUME NEW p, NEW l \in Nat, NEW n, NEW k \in 1 .. n, n \in Nat, p = k + l + 2
    PROVE  p - 2 - l = k /\ p - 1 - l = k + 1 /\ p - 1 = k + l + 1
  OBVIOUS

\* A command is carried out.
LEMMA CarriedFinish ==
    ASSUME TypeInv, PosInv, ParserInv, CarriedInv, UNCHANGED <<script, pass, s, cmd>>,
           pc \in {"wait", "data", "reply"}, pc' = "eol", Finished,
           dev' \in [id : Nat, on : Seq(Values)],
           \/ cmd.name = "WAIT" /\ dev'.on = cmd.args
           \/ cmd.name # "WAIT" /\ dev' = dev /\ dev # NoDev /\ pc # "wait"
    PROVE  CarriedInv'
<1>1. pass = "run" /\ Verified /\ Reading(s.ptr, cmd, <<>>) /\ FileThere(cmd)
  BY DEF ParserInv, Hung
<1>2. PICK l : l = Len(cmd.args)
  OBVIOUS
<1>3. PICK k : k = s.ptr - 2 - l
  OBVIOUS
<1>4. BegunAt(k, cmd) /\ cmd \in [name : Names, args : Seq(Values)]
  BY <1>1, <1>2, <1>3 DEF Reading, TypeInv
<1>5. l \in Nat /\ k \in 1 .. Len(View) /\ Len(View) \in Nat /\ s.ptr = k + l + 2
  BY <1>2, <1>3, <1>4, Place
<1>6. VCommandAt(k, Len(cmd.args))
  BY <1>1, <1>2, <1>3, RunDone
<1>7. VVals(k) = cmd.args /\ k \in VCommandsAt /\ View[k].val = cmd.name
  BY <1>4, <1>6, ValsRead DEF TypeInv
<1>8. Reached = k /\ Reached' = k + 1
  <2>1. Reached = s.ptr - 2 - Len(cmd.args)
    BY DEF Reached
  <2>2. Reached' = s.ptr - 1 - Len(cmd.args)
    BY DEF Reached
  <2>3. s.ptr - 2 - l = k /\ s.ptr - 1 - l = k + 1
    BY <1>5, Behind
  <2> QED
    BY <1>2, <2>1, <2>2, <2>3
<1>9. Done(ops, k)
  BY <1>1, <1>8 DEF CarriedInv, Ended
<1>10. PICK e : e = [name |-> cmd.name, args |-> cmd.args, on |-> dev'.on]
  OBVIOUS
<1>11. e \in Op /\ e.name = cmd.name /\ e.args = cmd.args /\ e.on = dev'.on /\ ops \in Seq(Op)
  BY <1>4, <1>10 DEF Op, TypeInv
<1>12. PICK r : r = Append(ops, e)
  OBVIOUS
<1>13. r = ops'
  BY <1>10, <1>12 DEF Finished
<1>14. \/ e.name = "WAIT" /\ e.on = e.args
       \/ e.name # "WAIT" /\ Found(ops, Len(ops), e.on)
  <2>1. CASE cmd.name = "WAIT"
    BY <1>11, <2>1
  <2>2. CASE cmd.name # "WAIT"
    <3>1. ~Waiting /\ ~Ended /\ dev # NoDev /\ dev' = dev
      BY <2>2 DEF Waiting, Ended
    <3>2. Found(ops, Len(ops), dev.on)
      BY <1>1, <3>1 DEF CarriedInv
    <3> QED
      BY <1>11, <2>2, <3>1, <3>2
  <2> QED
    BY <2>1, <2>2
<1>15. Done(r, k + 1) /\ Found(r, Len(r), e.on)
  BY <1>7, <1>9, <1>11, <1>12, <1>14, DoneNext DEF TypeInv
<1> QED
  BY ViewKept, <1>1, <1>8, <1>11, <1>13, <1>15, CarriedRun DEF Ended

\* In the second pass the parser is never stuck behind a command.
LEMMA RunGoesOn ==
    ASSUME TypeInv, PosInv, ParserInv, script_parse_command, pass = "run"
    PROVE  ~Stuck(s.ptr)
<1>1. /\ s.ptr > 1 /\ s.ptr - 1 \in 1 .. Len(View) /\ s.ptr \in Nat /\ ~VEnds(s.ptr - 1)
      /\ Len(View) \in Nat /\ s.next = View[s.ptr - 1] /\ s.ptr <= Len(View)
  BY LooksAt, ScriptFacts DEF script_parse_command, More, TypeInv
<1>2. PICK k : k = s.ptr - 1
  OBVIOUS
<1>3. VStarts(k) /\ k \in 1 .. Len(View) - 1 /\ ~VEnds(k) /\ Verified
  BY <1>1, <1>2 DEF ParserInv, script_parse_command
<1>4. PICK n \in Nat : VCommandAt(k, n)
  BY <1>3, RunStart
<1>5. 0 \in 0 .. n /\ k + 0 + 1 = s.ptr /\ k \in 1 .. Len(View)
  BY <1>1, <1>2
<1>6. k + 0 + 1 <= Len(View) /\ View[k + 0 + 1].typ # "bad"
  BY <1>4, <1>5, NotBad DEF TypeInv
<1> QED
  BY <1>5, <1>6 DEF Stuck

\* Passing over lines and comments.
LEMMA CarriedSkip ==
    ASSUME TypeInv, PosInv, ParserInv, CarriedInv, script_parse_skip
    PROVE  CarriedInv'
<1>1. /\ s.ptr > 1 /\ s.ptr - 1 \in 1 .. Len(View) /\ s.ptr \in Nat /\ Len(View) \in Nat
      /\ s.next = View[s.ptr - 1] /\ s.next.typ \in {"nl", "comment"}
  BY LooksAt DEF script_parse_skip
<1>2. /\ pc = "parse" /\ ~Ended /\ ~Ended' /\ ~Waiting /\ View' = View /\ pass' = pass
      /\ ops' = ops /\ dev' = dev /\ s' = script_get_token(s) /\ pc' = "parse"
  BY ViewKept DEF script_parse_skip, Ended, Waiting
<1>3. PICK b : b = Reached'
  OBVIOUS
<1>4. b = s'.ptr - 1 /\ Reached = s.ptr - 1
  BY <1>2, <1>3 DEF Reached
<1>5. ASSUME pass = "run"
      PROVE  Done(ops, b)
  <2>1. PICK a : a = s.ptr - 1
    OBVIOUS
  <2>2. Done(ops, a) /\ a \in Int /\ a \notin VCommandsAt
    BY <1>1, <1>2, <1>4, <1>5, <2>1 DEF CarriedInv, VCommandsAt
  <2>3. CASE Stuck(s.ptr)
    <3>1. b = a
      BY <1>2, <1>4, <2>1, <2>3, GetToken
    <3> QED
      BY <2>2, <3>1
  <2>4. CASE ~Stuck(s.ptr)
    <3>1. b = a + 1
      BY <1>1, <1>2, <1>4, <2>1, <2>4, GetToken
    <3>2. \A j \in a .. (a + 1) - 1 : j \notin VCommandsAt
      BY <2>2
    <3>3. a + 1 \in Int /\ a <= a + 1
      BY <2>2
    <3> QED
      BY <2>2, <3>1, <3>2, <3>3, DoneSame DEF TypeInv
  <2> QED
    BY <2>3, <2>4
<1> QED
  BY <1>2, <1>3, <1>5, CarriedSame

\* The end of a statement.
LEMMA CarriedEol ==
    ASSUME TypeInv, PosInv, ParserInv, CarriedInv, script_parse_eol
    PROVE  CarriedInv'
<1>1. CASE Fail("syntax")
  BY <1>1, CarriedFail
<1>2. CASE ~Fail("syntax")
  <2>1. /\ pc = "eol" /\ ~Ended /\ ~Ended' /\ ~Waiting /\ View' = View /\ pass' = pass
        /\ ops' = ops /\ dev' = dev /\ s' = script_get_token(s) /\ pc' = "parse"
    BY ViewKept, <1>2 DEF script_parse_eol, Ended, Waiting
  <2>2. PICK b : b = Reached'
    OBVIOUS
  <2>3. b = s'.ptr - 1 /\ Reached = s.ptr - 1 - Len(cmd.args)
    BY <2>1, <2>2 DEF Reached
  <2>4. ASSUME pass = "run"
        PROVE  Done(ops, b)
    <3>1. Reading(s.ptr, cmd, <<>>)
      BY <2>1, <2>4 DEF ParserInv, Hung
    <3>2. PICK l : l = Len(cmd.args)
      OBVIOUS
    <3>3. PICK k : k = s.ptr - 2 - l
      OBVIOUS
    <3>4. BegunAt(k, cmd) /\ cmd \in [name : Names, args : Seq(Values)]
      BY <3>1, <3>2, <3>3 DEF Reading, TypeInv
    <3>5. l \in Nat /\ k \in 1 .. Len(View) /\ Len(View) \in Nat /\ s.ptr = k + l + 2
      BY <3>2, <3>3, <3>4, Place
    <3>6. PICK a, q : a = k + 1 /\ q = k + l + 1
      OBVIOUS
    <3>7. a = s.ptr - 1 - l /\ q = s.ptr - 1 /\ a \in Int /\ q \in Int /\ a <= q
      BY <3>5, <3>6, Behind
    <3>8. Done(ops, a)
      BY <2>1, <2>3, <2>4, <3>2, <3>7 DEF CarriedInv
    <3>9. ASSUME NEW j \in a .. q
          PROVE  j \notin VCommandsAt
      <4>1. j \in k + 1 .. k + Len(cmd.args) + 1
        BY <3>2, <3>6
      <4> QED
        BY <3>4, <4>1, NoStart DEF VCommandsAt, TypeInv
    <3>10. CASE Stuck(s.ptr)
      <4>1. b = q
        BY <2>1, <2>3, <3>7, <3>10, GetToken
      <4>2. \A j \in a .. q - 1 : j \notin VCommandsAt
        BY <3>7, <3>9
      <4> QED
        BY <3>7, <3>8, <4>1, <4>2, DoneSame DEF TypeInv
    <3>11. CASE ~Stuck(s.ptr)
      <4>1. b = q + 1
        BY <2>1, <2>3, <3>5, <3>7, <3>11, GetToken
      <4>2. \A j \in a .. (q + 1) - 1 : j \notin VCommandsAt
        BY <3>7, <3>9
      <4>3. q + 1 \in Int /\ a <= q + 1
        BY <3>7
      <4> QED
        BY <3>7, <3>8, <4>1, <4>2, <4>3, DoneSame DEF TypeInv
    <3> QED
      BY <3>10, <3>11
  <2> QED
    BY <2>1, <2>2, <2>4, CarriedSame
<1> QED
  BY <1>1, <1>2

\* Both passes end.
LEMMA CarriedEnd ==
    ASSUME TypeInv, PosInv, ParserInv, HandlesInv, CarriedInv, script_parse_end
    PROVE  CarriedInv'
<1>1. /\ pc = "parse" /\ ~Ended /\ View' = View /\ ops' = ops /\ dev' = dev /\ ~More(s)
  BY ViewKept DEF script_parse_end, Ended
<1>2. Len(View) \in Nat /\ Len(View) >= 1 /\ s.ptr = Len(View) + 1
  BY <1>1, ScriptFacts DEF More, PosInv, TypeInv
<1>3. CASE pass = "dry" /\ pass' = "run" /\ s' = script_parse_again(s) /\ UNCHANGED pc
  <2>1. View[1].typ # "bad"
    BY <1>2 DEF PosInv
  <2>2. s'.ptr = 2
    BY <1>3, <2>1, GetAgain
  <2>3. Reached' = 1
    BY <1>1, <1>3, <2>2 DEF Reached
  <2>4. dev = NoDev /\ ops = <<>>
    BY <1>3 DEF HandlesInv, CarriedInv
  <2>5. Before(1) = {}
    BY <1>2 DEF Before, VCommandsAt
  <2>6. Done(ops, 1)
    <3>1. Cardinality({}) = 0 /\ Len(<<>>) = 0
      BY FS_EmptySet
    <3> QED
      BY <2>4, <2>5, <3>1 DEF Done
  <2> QED
    BY <1>1, <1>3, <2>3, <2>4, <2>6, CarriedRun DEF Ended
<1>4. CASE pass = "dry" /\ pass' = "dry" /\ err' = "device"
  BY <1>1, <1>4, CarriedDry
<1>5. CASE pass = "run" /\ pass' = "run" /\ pc' = "ended"
  <2>1. Reached = s.ptr - 1
    BY <1>1 DEF Reached
  <2>2. s.ptr - 1 = Len(View)
    BY <1>2
  <2>3. Done(ops, Len(View))
    BY <1>1, <1>5, <2>1, <2>2 DEF CarriedInv
  <2>4. Done(ops, Len(View))'
    <3>1. PICK o, b : o = ops' /\ b = Reached'
      OBVIOUS
    <3>2. o = ops
      BY <1>1, <3>1
    <3> QED
      BY <1>1, <2>3, <3>1, <3>2, DoneKept
  <2> QED
    BY <1>5, <2>4 DEF CarriedInv, Ended
<1> QED
  BY <1>1, <1>3, <1>4, <1>5 DEF script_parse_end

\* A command begins.
LEMMA CarriedCommand ==
    ASSUME TypeInv, PosInv, ParserInv, CarriedInv, script_parse_command
    PROVE  CarriedInv'
<1>1. /\ pc = "parse" /\ ~Ended /\ ~Ended' /\ ~Waiting /\ View' = View /\ pass' = pass
      /\ ops' = ops /\ dev' = dev /\ s' = script_get_token(s) /\ pc' = "args"
      /\ cmd' = [name |-> s.next.val, args |-> <<>>]
  BY ViewKept DEF script_parse_command, Ended, Waiting
<1>2. PICK b : b = Reached'
  OBVIOUS
<1>3. ASSUME pass = "run"
      PROVE  Done(ops, b)
  <2>1. s'.ptr = s.ptr + 1 /\ s.ptr \in Nat
    BY <1>1, <1>3, RunGoesOn, GetToken DEF TypeInv
  <2>2. Len(cmd'.args) = 0
    BY <1>1
  <2>3. b = s'.ptr - 2 - Len(cmd'.args) /\ Reached = s.ptr - 1
    BY <1>1, <1>2 DEF Reached
  <2>4. b = s.ptr - 1
    BY <2>1, <2>2, <2>3
  <2> QED
    BY <1>1, <1>3, <2>3, <2>4 DEF CarriedInv
<1> QED
  BY <1>1, <1>2, <1>3, CarriedSame

\* An argument is read.
LEMMA CarriedExpect ==
    ASSUME TypeInv, PosInv, ParserInv, CarriedInv, script_expect
    PROVE  CarriedInv'
<1>1. pc = "args" /\ want # <<>> /\ ~Ended
  BY DEF script_expect, Ended
<1>2. CASE Fail("syntax")
  BY <1>2, CarriedFail
<1>3. CASE ~Fail("syntax")
  <2>1. /\ View' = View /\ pass' = pass /\ ops' = ops /\ dev' = dev /\ pc' = "args"
        /\ cmd'.name = cmd.name
    <3>1. ASSUME cmd' = [cmd EXCEPT !.args = Append(@, s.next.val)]
          PROVE  cmd'.name = cmd.name
      BY <3>1 DEF TypeInv
    <3> QED
      BY ViewKept, <1>1, <1>3, <3>1 DEF script_expect
  <2>2. ~Ended' /\ (Waiting => Waiting')
    BY <1>1, <2>1 DEF Ended, Waiting
  <2>3. PICK b : b = Reached'
    OBVIOUS
  <2>4. b = s'.ptr - 2 - Len(cmd'.args) /\ Reached = s.ptr - 2 - Len(cmd.args)
    BY <1>1, <2>1, <2>3 DEF Reached
  <2>5. ASSUME pass = "run"
        PROVE  b = Reached
    <3>1. CASE UNCHANGED <<s, cmd>>
      BY <2>4, <3>1
    <3>2. CASE /\ Fits(s.next, Head(want)) /\ s' = script_get_token(s)
               /\ cmd' = [cmd EXCEPT !.args = Append(@, s.next.val)]
      <4>1. Verified /\ Reading(s.ptr, cmd, want)
        BY <1>1, <2>5 DEF ParserInv, Hung
      <4>2. \/ Fits(s.next, Head(want)) /\ ~Stuck(s.ptr)
            \/ Head(want) = "opt" /\ s.next.typ \in {"nl", "comment"}
        BY <1>1, <4>1, RunNext
      <4>3. Head(want) \in Kinds
        BY <1>1, HeadTailProperties DEF TypeInv
      <4>4. s.next.typ \in {"int", "str", "id"}
        BY <3>2, <4>3, FitsFacts
      <4>5. ~Stuck(s.ptr)
        BY <4>2, <4>4
      <4>6. s'.ptr = s.ptr + 1 /\ s.ptr \in Nat
        BY <3>2, <4>5, GetToken DEF TypeInv
      <4>7. cmd'.args = Append(cmd.args, s.next.val) /\ cmd.args \in Seq(Values)
        BY <3>2 DEF TypeInv
      <4>8. Len(cmd'.args) = Len(cmd.args) + 1 /\ Len(cmd.args) \in Nat
        BY <4>7
      <4> QED
        BY <2>4, <4>6, <4>8
    <3> QED
      BY <1>1, <1>3, <3>1, <3>2 DEF script_expect
  <2>6. pass = "run" => Done(ops, b)
    BY <1>1, <2>5 DEF CarriedInv
  <2> QED
    BY <1>1, <2>1, <2>2, <2>3, <2>6, CarriedSame
<1> QED
  BY <1>2, <1>3

\* The commands themselves.
LEMMA CarriedWork ==
    ASSUME TypeInv, PosInv, ParserInv, HandlesInv, CarriedInv, TypeInv',
           wait_cmd \/ wait_cmd_open \/ device_cmd \/ file_cmd \/ hid_write_data
               \/ hid_write_last \/ hid_read
    PROVE  CarriedInv'
<1>1. ASSUME UNCHANGED <<script, pass, s, cmd, ops, dev>>,
             pc \in {"args", "wait", "data", "reply"},
             pc' \in {"args", "wait", "data", "reply"} \/ (pass = "dry" /\ pc' = "eol"),
             Waiting => Waiting' \/ pass = "dry"
      PROVE  CarriedInv'
  <2>1. ~Ended /\ ~Ended'
    BY <1>1 DEF Ended
  <2>2. CASE pass = "dry"
    BY <1>1, <2>1, <2>2, CarriedDry DEF Ended
  <2>3. CASE pass = "run"
    <3>1. PICK b : b = Reached'
      OBVIOUS
    <3>2. b = Reached
      <4>1. Reached = s.ptr - 2 - Len(cmd.args)
        BY <1>1 DEF Reached
      <4>2. b = s.ptr - 2 - Len(cmd.args)
        BY <1>1, <2>3, <3>1 DEF Reached
      <4> QED
        BY <4>1, <4>2
    <3>3. Done(ops, b)
      BY <2>1, <2>3, <3>2 DEF CarriedInv
    <3> QED
      BY ViewKept, <1>1, <2>1, <2>3, <3>1, <3>3, CarriedSame
  <2> QED
    BY <2>2, <2>3 DEF TypeInv
<1>2. CASE wait_cmd
  <2>1. /\ pc = "args" /\ UNCHANGED <<script, pass, s, cmd, ops, dev>> /\ cmd.name = "WAIT"
        /\ pc' = "wait" \/ (pass = "dry" /\ pc' = "eol")
    BY <1>2 DEF wait_cmd, Parsed, Dry
  <2> QED
    BY <1>1, <2>1 DEF Waiting
<1>3. CASE wait_cmd_open
  <2>1. /\ pc = "wait" /\ UNCHANGED <<script, pass, s, cmd>> /\ cmd.name = "WAIT" /\ pass = "run"
    BY <1>3 DEF wait_cmd_open, HandlesInv, ParserInv
  <2>2. CASE /\ dev' = [id |-> 1 + Len(ops), on |-> cmd.args] /\ Finished /\ pc' = "eol"
    <3>1. dev'.on = cmd.args /\ dev' \in [id : Nat, on : Seq(Values)]
      BY <2>2 DEF TypeInv
    <3> QED
      BY <2>1, <2>2, <3>1, CarriedFinish
  <2>3. CASE dev' = NoDev /\ pc' = "wait" /\ ops' = ops
    <3>1. PICK b : b = Reached'
      OBVIOUS
    <3>2. b = Reached
      BY <2>1, <2>3, <3>1 DEF Reached
    <3>3. Done(ops, b)
      BY <2>1, <3>2 DEF CarriedInv, Ended
    <3> QED
      BY ViewKept, <2>1, <2>3, <3>1, <3>3, CarriedRun DEF Ended
  <2>4. CASE pc' = "ended" /\ err' = "timeout" /\ ops' = ops
    BY <2>1, <2>4 DEF CarriedInv, Ended
  <2> QED
    BY <1>3, <2>1, <2>2, <2>3, <2>4 DEF wait_cmd_open
<1>4. CASE device_cmd
  <2>1. pc = "args" /\ UNCHANGED <<script, pass, s, cmd>> /\ ~Waiting
    BY <1>4 DEF device_cmd, Parsed, Waiting
  <2>2. CASE hid_write_error
    BY <2>2, CarriedFail DEF hid_write_error
  <2>3. CASE ~hid_write_error
    <3>1. UNCHANGED <<ops, dev>> /\ (pc' = "reply" \/ (pass = "dry" /\ pc' = "eol"))
      BY <1>4, <2>3 DEF device_cmd, Dry, hid_write_cmd
    <3> QED
      BY <1>1, <2>1, <3>1
  <2> QED
    BY <2>2, <2>3
<1>5. CASE file_cmd
  <2>1. pc = "args" /\ UNCHANGED <<script, pass, s, cmd>> /\ ~Waiting
    BY <1>5 DEF file_cmd, Parsed, Waiting
  <2>2. CASE hid_write_error
    BY <2>2, CarriedFail DEF hid_write_error
  <2>3. CASE get_buffer_error
    BY <2>3, CarriedFail DEF get_buffer_error
  <2>4. CASE ~hid_write_error /\ ~get_buffer_error
    <3>1. UNCHANGED <<ops, dev>> /\ (pc' = "data" \/ (pass = "dry" /\ pc' = "eol"))
      BY <1>5, <2>4 DEF file_cmd, Dry, hid_write_cmd
    <3> QED
      BY <1>1, <2>1, <3>1
  <2> QED
    BY <2>2, <2>4, <2>3
<1>6. ASSUME pc \in {"data", "reply"}
      PROVE  ~Waiting /\ dev # NoDev /\ cmd.name # "WAIT" /\ pc # "wait"
  BY <1>6 DEF HandlesInv, Waiting
<1>7. CASE hid_write_data
  <2>1. pc = "data"
    BY <1>7 DEF hid_write_data
  <2>2. CASE Fail("device")
    BY <2>2, CarriedFail
  <2>3. CASE pc' = pc /\ UNCHANGED <<script, pass, s, cmd, ops, dev>>
    BY <1>1, <1>6, <2>1, <2>3
  <2>4. CASE pc' = "crashed" /\ UNCHANGED <<pass, ops>>
    BY <2>4 DEF CarriedInv, Ended
  <2> QED
    BY <1>7, <2>2, <2>3, <2>4 DEF hid_write_data
<1>8. CASE hid_write_last
  <2>1. pc = "data" /\ UNCHANGED <<script, pass, s, cmd, dev>>
    BY <1>8 DEF hid_write_last
  <2>2. CASE pc' = "reply" /\ ops' = ops
    BY <1>1, <1>6, <2>1, <2>2
  <2>3. CASE pc' = "eol" /\ Finished
    <3>1. dev' \in [id : Nat, on : Seq(Values)]
      BY <2>1 DEF TypeInv
    <3> QED
      BY <1>6, <2>1, <2>3, <3>1, CarriedFinish
  <2> QED
    BY <1>8, <2>2, <2>3 DEF hid_write_last
<1>9. CASE hid_read
  <2>1. pc = "reply"
    BY <1>9 DEF hid_read
  <2>2. CASE Fail("device")
    BY <2>2, CarriedFail
  <2>3. CASE ~Fail("device")
    <3>1. UNCHANGED <<script, pass, s, cmd, dev>>
      BY <1>9, <2>3 DEF hid_read
    <3>2. CASE pc' = pc /\ ops' = ops
      BY <1>1, <1>6, <2>1, <3>1, <3>2
    <3>3. CASE pc' = "eol" /\ Finished
      <4>1. dev' \in [id : Nat, on : Seq(Values)]
        BY <3>1 DEF TypeInv
      <4> QED
        BY <1>6, <2>1, <3>1, <3>3, <4>1, CarriedFinish
    <3> QED
      BY <1>9, <2>3, <3>2, <3>3 DEF hid_read
  <2> QED
    BY <2>2, <2>3
<1> QED
  BY <1>2, <1>3, <1>4, <1>5, <1>7, <1>8, <1>9

\* Every step keeps the record of what was carried out.
LEMMA CarriedStep ==
    ASSUME TypeInv, PosInv, ParserInv, HandlesInv, CarriedInv, [Next]_vars
    PROVE  CarriedInv'
<1>1. CASE script_parse_crash
  BY <1>1 DEF script_parse_crash, CarriedInv, Ended
<1>2. CASE script_parse_reject
  BY <1>2, CarriedFail DEF script_parse_reject
<1>3. TypeInv'
  BY TypeNext
<1>4. CASE UNCHANGED vars
  <2>1. UNCHANGED <<script, pass, pc, s, err, cmd, dev, ops>>
    BY <1>4 DEF vars
  <2>2. PICK o, b : o = ops' /\ b = Reached'
    OBVIOUS
  <2>3. o = ops /\ b = Reached
    BY <2>1, <2>2 DEF Reached
  <2>4. (Done(ops, Reached)' <=> Done(ops, Reached))
        /\ (Done(ops, Len(View))' <=> Done(ops, Len(View)))
    BY ViewKept, <2>1, <2>2, <2>3, DoneKept
  <2>5. Found(ops, Len(ops), dev.on)' <=> Found(ops, Len(ops), dev.on)
    BY <2>1 DEF Found, LastWait
  <2> QED
    BY <2>1, <2>4, <2>5 DEF CarriedInv, Ended, Waiting
<1> QED
  BY <1>1, <1>2, <1>3, <1>4, CarriedSkip, CarriedEol, CarriedEnd, CarriedCommand, CarriedExpect,
     CarriedWork DEF Next, finished

\* The commands that the parser sees are those of the script.
LEMMA CommandsShown ==
    ASSUME script \in Scripts, Verified
    PROVE  /\ CommandsAt = VCommandsAt
           /\ \A k \in CommandsAt : \E n \in Nat : VCommandAt(k, n)
<1>1. Len(View) = Len(script) /\ Len(script) \in Nat
  BY ScriptFacts
<1>2. ASSUME NEW k \in CommandsAt
      PROVE  k \in VCommandsAt
  <2>1. k \in 1 .. Len(script) - 1 /\ Starts(k) /\ script[k].typ = "id" /\ k \in 1 .. Len(script)
    BY <1>1 DEF CommandsAt
  <2>2. VStarts(k)
    BY <2>1, StartsShown
  <2>3. View[k] = script[k]
    BY <2>1, ViewFacts DEF Cut
  <2> QED
    BY <1>1, <2>1, <2>2, <2>3 DEF VCommandsAt
<1>3. ASSUME NEW k \in VCommandsAt
      PROVE  k \in CommandsAt /\ \E n \in Nat : VCommandAt(k, n)
  <2>1. /\ k \in 1 .. Len(script) - 1 /\ VStarts(k) /\ View[k].typ = "id" /\ k \in 1 .. Len(script)
        /\ k # Len(script)
    BY <1>1 DEF VCommandsAt
  <2>2. ~VEnds(k) /\ VProper(k)
    BY <1>1, <2>1 DEF Verified, VEnds
  <2>3. PICK n \in 0 .. Len(View) : VCommandAt(k, n)
    BY <2>2 DEF VProper
  <2>4. n \in Nat
    BY <1>1, <2>3
  <2>5. script[k] = View[k]
    BY <2>1, <2>3, <2>4, EndRead
  <2>6. Starts(k)
    <3>1. CASE k = 1
      BY <3>1 DEF Starts
    <3>2. CASE k # 1
      <4>1. PICK b : b = k - 1
        OBVIOUS
      <4>2. b \in 1 .. Len(script) /\ b + 1 = k /\ b # Len(script)
        BY <1>1, <2>1, <3>2, <4>1
      <4>3. VEnds(b)
        BY <2>1, <3>2, <4>1 DEF VStarts
      <4>4. script[b].typ # "half"
        <5>1. script[b].typ = "half" => script[b + 1].typ \in OddStart
          BY <4>2, TextFacts
        <5> QED
          BY <2>1, <2>5, <4>2, <5>1 DEF OddStart
      <4>5. script[b].typ # "open"
        BY <4>2, TextFacts
      <4>6. View[b] = script[b]
        BY <4>2, <4>4, <4>5, ViewAt DEF Cut
      <4>7. Ends(b)
        BY <4>2, <4>3, <4>6 DEF Ends, VEnds
      <4> QED
        BY <4>1, <4>7 DEF Starts
    <3> QED
      BY <3>1, <3>2
  <2> QED
    BY <2>1, <2>3, <2>4, <2>5, <2>6 DEF CommandsAt
<1>4. CommandsAt = VCommandsAt
  BY <1>2, <1>3
<1> QED
  BY <1>3, <1>4

\* Its arguments are those the parser sees.
LEMMA ValsShown ==
    ASSUME script \in Scripts, NEW k \in 1 .. Len(script), NEW l \in Nat, VCommandAt(k, l)
    PROVE  Vals(k) = VVals(k)
<1>1. Len(View) = Len(script) /\ Len(script) \in Nat
  BY ScriptFacts
<1>2. Ends(k + l + 1) /\ VEnds(k + l + 1) /\ \A i \in 1 .. l : ~VEnds(k + i)
  BY EndRead, StartsShown
<1>3. \A i \in 1 .. l : ~Ends(k + i)
  BY <1>2, StartsShown
<1>4. l \in 0 .. Len(script)
  BY <1>1, <1>2 DEF Ends
<1>5. PICK m, n : m = VNArgs(k) /\ n = NArgs(k)
  OBVIOUS
<1>6. m \in 0 .. Len(script) /\ VEnds(k + m + 1) /\ \A i \in 1 .. m : ~VEnds(k + i)
  BY <1>1, <1>2, <1>4, <1>5 DEF VNArgs
<1>7. n \in 0 .. Len(script) /\ Ends(k + n + 1) /\ \A i \in 1 .. n : ~Ends(k + i)
  BY <1>2, <1>3, <1>4, <1>5 DEF NArgs
<1>8. m = l
  <2>1. CASE m < l
    <3>1. m + 1 \in 1 .. l /\ k + (m + 1) = k + m + 1
      BY <1>6, <2>1
    <3> QED
      BY <1>2, <1>6, <3>1
  <2>2. CASE l < m
    <3>1. l + 1 \in 1 .. m /\ k + (l + 1) = k + l + 1
      BY <1>6, <2>2
    <3> QED
      BY <1>2, <1>6, <3>1
  <2> QED
    BY <1>6, <2>1, <2>2
<1>9. n = l
  <2>1. CASE n < l
    <3>1. n + 1 \in 1 .. l /\ k + (n + 1) = k + n + 1
      BY <1>7, <2>1
    <3> QED
      BY <1>3, <1>7, <3>1
  <2>2. CASE l < n
    <3>1. l + 1 \in 1 .. n /\ k + (l + 1) = k + l + 1
      BY <1>7, <2>2
    <3> QED
      BY <1>2, <1>7, <3>1
  <2> QED
    BY <1>7, <2>1, <2>2
<1>10. ASSUME NEW i \in 1 .. l
       PROVE  script[IF Repeats(k + i) THEN k + i - 1 ELSE k + i] = View[k + i]
  <2>1. CASE script[k + i].typ \notin Cut /\ View[k + i] = script[k + i]
    <3>1. ~Repeats(k + i)
      BY <2>1 DEF Repeats, Cut
    <3> QED
      BY <2>1, <3>1
  <2>2. CASE Repeats(k + i) /\ View[k + i] = script[k + i - 1]
    BY <2>2
  <2> QED
    BY <2>1, <2>2, ArgRead
<1>11. /\ Vals(k) = [i \in 1 .. l |-> script[IF Repeats(k + i) THEN k + i - 1 ELSE k + i].val]
       /\ VVals(k) = [i \in 1 .. l |-> View[k + i].val]
  BY <1>5, <1>8, <1>9 DEF Vals, VVals
<1> QED
  BY <1>10, <1>11

\* When psu reports success every command of the script has been carried out, once
\* and in order, on the device that the last WAIT before it has found, with the
\* arguments it has in the script; behind a number a name with an odd character
\* counts as that number once more.
THEOREM ScriptsAreCarriedOut == Spec => []ScriptCarriedOut
<1>1. Init => HandlesInv /\ CarriedInv
  <2>1. SUFFICES ASSUME Init PROVE HandlesInv /\ CarriedInv
    OBVIOUS
  <2>2. ~misuse
    BY <2>1 DEF Init
  <2> QED
    BY <2>1, <2>2 DEF Init, HandlesInv, CarriedInv, Ended
<1>2. TypeInv /\ PosInv /\ ParserInv /\ HandlesInv /\ CarriedInv /\ [Next]_vars
          => HandlesInv' /\ CarriedInv'
  BY HandlesStep, CarriedStep
<1>3. TypeInv /\ ParserInv /\ CarriedInv => ScriptCarriedOut
  <2>1. SUFFICES ASSUME TypeInv, ParserInv, CarriedInv, pc = "ended", err = "none"
                 PROVE  /\ Len(ops) = Cardinality(CommandsAt)
                        /\ \A k \in CommandsAt :
                              /\ ops[Rank(k)].name = script[k].val /\ ops[Rank(k)].args = Vals(k)
                              /\ \E j \in 1 .. Rank(k) :
                                    IsLastWait(Rank(k), j) /\ ops[Rank(k)].on = ops[j].args
    BY DEF ScriptCarriedOut
  <2>2. /\ Done(ops, Len(View)) /\ Len(View) \in Nat /\ Len(View) = Len(script)
        /\ script \in Scripts /\ Verified
    BY <2>1, ScriptFacts DEF CarriedInv, ParserInv, TypeInv
  <2>3. Before(Len(View)) = VCommandsAt
    BY <2>2 DEF Before, VCommandsAt
  <2>4. Len(ops) = Cardinality(VCommandsAt) /\ \A k \in VCommandsAt : Right(ops, k)
    BY <2>2, <2>3 DEF Done
  <2>5. CommandsAt = VCommandsAt /\ \A k \in CommandsAt : \E n \in Nat : VCommandAt(k, n)
    BY <2>2, CommandsShown
  <2>6. ASSUME NEW k \in CommandsAt
        PROVE  /\ ops[Rank(k)].name = script[k].val /\ ops[Rank(k)].args = Vals(k)
               /\ \E j \in 1 .. Rank(k) :
                     IsLastWait(Rank(k), j) /\ ops[Rank(k)].on = ops[j].args
    <3>1. Right(ops, k)
      BY <2>4, <2>5
    <3>2. PICK r : r = VRank(k)
      OBVIOUS
    <3>3. Rank(k) = r
      BY <2>5, <3>2 DEF Rank, VRank
    <3>4. k \in 1 .. Len(script)
      BY <2>2 DEF CommandsAt
    <3>5. PICK n \in Nat : VCommandAt(k, n)
      BY <2>5
    <3>6. script[k] = View[k] /\ Vals(k) = VVals(k)
      BY <2>2, <3>4, <3>5, EndRead, ValsShown
    <3>7. PICK j \in 1 .. r : LastWait(ops, r, j) /\ ops[r].on = ops[j].args
      BY <3>1, <3>2 DEF Right, Found
    <3>8. IsLastWait(r, j)
      BY <3>7 DEF LastWait, IsLastWait
    <3>9. ops[r].name = script[k].val /\ ops[r].args = Vals(k)
      BY <3>1, <3>2, <3>6 DEF Right
    <3> QED
      BY <3>3, <3>7, <3>8, <3>9
  <2> QED
    BY <2>4, <2>5, <2>6
<1> QED
  BY <1>1, <1>2, <1>3, ParserAlways, PTL DEF Spec
=============================================================================
