---------------------------- MODULE PsdiskProofs ----------------------------
(***************************************************************************)
(* Proofs about Psdisk, for all partitions, memories, numbers of options,  *)
(* calls and faults.                                                       *)
(*                                                                         *)
(* The counter of psdisk_common goes with its list, and a table is written *)
(* only from a list of which every node is to be saved; what is written is *)
(* therefore what is read back, and a failing call never leaves a table of *)
(* its own (FailureHarmless).  The loop of psdisk_updatePartsList has the  *)
(* usual invariant: so far the list holds what was declared and, of the    *)
(* partitions of the image before the turn, those that stay (MergeInv).    *)
(***************************************************************************)
EXTENDS Psdisk, SequenceTheorems, FiniteSetTheorems, WellFoundedInduction, TLAPS

AnyPart == Parts \cup {NoPart} \cup {[NoPart EXCEPT !.name = n] : n \in Names}
AnyNode == [part : AnyPart, status : {"save", "remove"}]
Image   == [kind : {"absent", "empty", "damaged", "table"}, parts : Seq(AnyPart)]

TypeInv ==
    /\ pc \in {"exit", "opts", "update", "merge", "create", "verify"}
    /\ file \in Image /\ before \in Image /\ turn \in Nat \ {0}
    /\ list \in Seq(AnyNode) /\ asked \in Seq(AnyNode) /\ count = Len(list)

\* What the file was when the call began, or was made by psdisk_openImg.
Opened == file = IF before = Absent THEN Empty ELSE before

\* The image is not touched before the table is written.
FileInv ==
    /\ pc # "exit" => ("exists" \in opts <=> before # Absent)
    /\ pc \in {"opts", "update", "merge", "create"} => Opened
    /\ pc \in {"update", "merge"} => UPDATE_IMG
    /\ pc \in {"create", "verify"} => CREATE_IMG \/ UPDATE_IMG

Nodes(l)      == {l[i] : i \in 1 .. Len(l)}
SavedParts(l) == {x.part : x \in {y \in Nodes(l) : y.status = "save"}}

\* Until the merge the list is what was asked for, and opts tells what is in it.
AskInv ==
    /\ pc \in {"opts", "update"} => Nodes(list) = Nodes(asked)
    /\ pc \in {"opts", "update"} /\ "remove" \notin opts => \A x \in Nodes(list) : x.status = "save"

DeclaredNames == {d.name : d \in Declared}
Stays(p)      == p.name \notin Removed \cup DeclaredNames

\* The partitions of the image that were merged, and their names.
Merged == {file.parts[j] : j \in 1 .. turn - 1}

\* The loop of psdisk_updatePartsList.
MergeInv ==
    pc = "merge" =>
        /\ psdisk_readImg(file, mem) /\ turn <= Len(file.parts) + 1
        /\ SavedParts(list) = Declared \cup {p \in Merged : Stays(p)}
        /\ \A x \in Nodes(list) : x.status = "remove" => x.part.name \in Removed
        /\ \A r \in Removed : \/ \E x \in Nodes(list) : x.status = "remove" /\ x.part.name = r
                              \/ \E p \in Merged : p.name = r

\* What is written is what was asked for.
WriteInv ==
    pc \in {"create", "verify"} =>
        /\ \A x \in Nodes(list) : x.status = "save"
        /\ SavedParts(list) = Declared \cup {p \in OldParts : Stays(p)}
        /\ Removed \subseteq {p.name : p \in OldParts}

\* The table that is read back.
VerifyInv ==
    pc = "verify" => /\ file = Table(NewParts)
                     /\ ptable_size(count) <= mem.blksz /\ Valid(NewParts, mem)

Inv == /\ TypeInv /\ FileInv /\ AskInv /\ MergeInv /\ WriteInv /\ VerifyInv
       /\ UpdateExact /\ FailureHarmless

-----------------------------------------------------------------------------
(* Lists.                                                                  *)

\* The nodes of a list are of its type.
LEMMA NodesType ==
    ASSUME NEW S, NEW l \in Seq(S)
    PROVE  Nodes(l) \subseteq S
  BY ElementOfSeq DEF Nodes

\* LIST_INSERT_HEAD adds one node.
LEMMA Inserted ==
    ASSUME NEW S, NEW l \in Seq(S), NEW x \in S
    PROVE  /\ <<x>> \o l \in Seq(S) /\ Len(<<x>> \o l) = Len(l) + 1
           /\ Nodes(<<x>> \o l) = Nodes(l) \cup {x}
  <1> PICK m, n, e : e = <<x>> /\ m = e \o l /\ n = Len(l)
    OBVIOUS
  <1>1. n \in Nat /\ e \in Seq(S) /\ Len(e) = 1 /\ e[1] = x
    BY LenProperties
  <1>2. m \in Seq(S) /\ Len(m) = n + 1
    BY <1>1, ConcatProperties
  <1>3. m[1] = x /\ \A i \in 1 .. n : m[i + 1] = l[i]
    BY <1>1, ConcatProperties
  <1>4. Nodes(m) \subseteq Nodes(l) \cup {x}
    <2> SUFFICES ASSUME NEW i \in 1 .. n + 1, i # 1 PROVE m[i] \in Nodes(l)
      BY <1>2, <1>3 DEF Nodes
    <2>1. i - 1 \in 1 .. n /\ (i - 1) + 1 = i
      BY <1>1
    <2>2. QED
      BY <1>3, <2>1 DEF Nodes
  <1>5. Nodes(l) \cup {x} \subseteq Nodes(m)
    <2>1. x \in Nodes(m)
      <3>1. 1 \in 1 .. n + 1
        BY <1>1
      <3>2. QED
        BY <1>2, <1>3, <3>1 DEF Nodes
    <2>2. ASSUME NEW i \in 1 .. n PROVE l[i] \in Nodes(m)
      <3>1. i + 1 \in 1 .. n + 1
        BY <1>1
      <3>2. QED
        BY <1>2, <1>3, <3>1 DEF Nodes
    <2>3. QED
      BY <2>1, <2>2 DEF Nodes
  <1>6. QED
    BY <1>2, <1>4, <1>5

\* So does appending to the options seen.
LEMMA Noted ==
    ASSUME NEW S, NEW l \in Seq(S), NEW x \in S
    PROVE  Append(l, x) \in Seq(S) /\ Nodes(Append(l, x)) = Nodes(l) \cup {x}
  <1> PICK m, n : m = Append(l, x) /\ n = Len(l)
    OBVIOUS
  <1>1. n \in Nat
    BY LenProperties
  <1>2. m \in Seq(S) /\ Len(m) = n + 1 /\ m[n + 1] = x
    BY AppendProperties
  <1>3. \A i \in 1 .. n : m[i] = l[i]
    BY AppendProperties
  <1>4. Nodes(m) \subseteq Nodes(l) \cup {x}
    <2> SUFFICES ASSUME NEW i \in 1 .. n + 1, i # n + 1 PROVE m[i] \in Nodes(l)
      BY <1>2 DEF Nodes
    <2>1. i \in 1 .. n
      BY <1>1
    <2>2. QED
      BY <1>3, <2>1 DEF Nodes
  <1>5. Nodes(l) \cup {x} \subseteq Nodes(m)
    <2>1. n + 1 \in 1 .. n + 1 /\ 1 .. n \subseteq 1 .. n + 1
      BY <1>1
    <2>2. x \in Nodes(m)
      BY <1>2, <2>1 DEF Nodes
    <2>3. ASSUME NEW i \in 1 .. n PROVE l[i] \in Nodes(m)
      BY <1>2, <1>3, <2>1 DEF Nodes
    <2>4. QED
      BY <2>2, <2>3 DEF Nodes
  <1>6. QED
    BY <1>2, <1>4, <1>5

\* LIST_REMOVE takes one node out.
LEMMA TakenOut ==
    ASSUME NEW S, NEW l \in Seq(S), NEW f \in 1 .. Len(l)
    PROVE  /\ RemoveAt(l, f) \in Seq(S) /\ Len(RemoveAt(l, f)) = Len(l) - 1
           /\ Nodes(RemoveAt(l, f)) \subseteq Nodes(l)
           /\ Nodes(l) \subseteq Nodes(RemoveAt(l, f)) \cup {l[f]}
  <1>0. PICK m, n, a, b : /\ m = RemoveAt(l, f) /\ n = Len(l)
                          /\ a = SubSeq(l, 1, f - 1) /\ b = SubSeq(l, f + 1, n)
    OBVIOUS
  <1>1. n \in Nat /\ f \in 1 .. n
    BY <1>0, LenProperties
  <1>2. a \in Seq(S) /\ Len(a) = f - 1 /\ \A i \in 1 .. f - 1 : a[i] = l[i]
    BY <1>0, <1>1
  <1>3. b \in Seq(S) /\ Len(b) = n - f /\ \A i \in 1 .. n - f : b[i] = l[f + i]
    BY <1>0, <1>1
  <1>4. m = a \o b
    BY <1>0 DEF RemoveAt
  <1>5. m \in Seq(S) /\ Len(m) = n - 1
    <2>1. m \in Seq(S) /\ Len(m) = Len(a) + Len(b)
      BY <1>2, <1>3, <1>4, ConcatProperties
    <2>2. QED
      BY <1>1, <1>2, <1>3, <2>1
  <1>6. \A i \in 1 .. n - 1 : m[i] = IF i < f THEN l[i] ELSE l[i + 1]
    <2> SUFFICES ASSUME NEW i \in 1 .. n - 1
                 PROVE  m[i] = IF i < f THEN l[i] ELSE l[i + 1]
      OBVIOUS
    <2>1. CASE i < f
      <3>1. i \in 1 .. Len(a) /\ i \in 1 .. f - 1
        BY <1>1, <1>2, <2>1
      <3>2. m[i] = a[i]
        BY <1>2, <1>3, <1>4, <3>1, ConcatProperties
      <3>3. QED
        BY <1>2, <2>1, <3>1, <3>2
    <2>2. CASE ~(i < f)
      <3> PICK j : j = i - (f - 1)
        OBVIOUS
      <3>1. i \in (Len(a) + 1) .. (Len(a) + Len(b)) /\ j \in 1 .. n - f /\ f + j = i + 1
            /\ j = i - Len(a)
        BY <1>1, <1>2, <1>3, <2>2
      <3>2. m[i] = b[j]
        BY <1>2, <1>3, <1>4, <3>1
      <3>3. QED
        BY <1>3, <2>2, <3>1, <3>2
    <2>3. QED
      BY <2>1, <2>2
  <1>7. Nodes(m) \subseteq Nodes(l)
    <2> SUFFICES ASSUME NEW i \in 1 .. n - 1 PROVE m[i] \in Nodes(l)
      BY <1>5 DEF Nodes
    <2>1. i \in 1 .. n /\ i + 1 \in 1 .. n
      BY <1>1
    <2>2. QED
      BY <1>0, <1>6, <2>1 DEF Nodes
  <1>8. Nodes(l) \subseteq Nodes(m) \cup {l[f]}
    <2> SUFFICES ASSUME NEW i \in 1 .. n, i # f PROVE l[i] \in Nodes(m)
      BY <1>0 DEF Nodes
    <2>1. CASE i < f
      <3>1. i \in 1 .. n - 1
        BY <1>1, <2>1
      <3>2. QED
        BY <1>5, <1>6, <2>1, <3>1 DEF Nodes
    <2>2. CASE i > f
      <3>1. i - 1 \in 1 .. n - 1 /\ ~(i - 1 < f) /\ (i - 1) + 1 = i
        BY <1>1, <2>2
      <3>2. QED
        BY <1>5, <1>6, <3>1 DEF Nodes
    <2>3. QED
      BY <1>1, <2>1, <2>2
  <1>9. QED
    BY <1>0, <1>5, <1>7, <1>8

\* All nodes are to be saved.
LEMMA AllSaved ==
    ASSUME NEW l
    PROVE  (\A x \in Nodes(l) : x.status = "save") <=> Saves(l) = 1 .. Len(l)
  BY DEF Nodes, Saves

\* Then each goes where it is in the list.
LEMMA PlaceOfAll ==
    ASSUME NEW S, NEW l \in Seq(S), Saves(l) = 1 .. Len(l), NEW k \in 1 .. Len(l)
    PROVE  Place(l, k) = k
  <1>1. Len(l) \in Nat
    BY LenProperties
  <1>2. {j \in Saves(l) : j <= k} = 1 .. k
    BY <1>1
  <1>3. k \in Int /\ 1 \in Int /\ 1 <= k
    BY <1>1
  <1>4. Cardinality(1 .. k) = k
    BY <1>3, FS_Interval
  <1>5. QED
    BY <1>2, <1>4 DEF Place

\* The table is the list.
LEMMA NewPartsAll ==
    ASSUME TypeInv, Saves(list) = 1 .. Len(list)
    PROVE  NewParts = [i \in 1 .. Len(list) |-> list[i].part]
  <1>1. list \in Seq(AnyNode) /\ count = Len(list)
    BY DEF TypeInv
  <1>2. ASSUME NEW i \in 1 .. Len(list)
        PROVE  /\ \E k \in Saves(list) : Place(list, k) = i
               /\ (CHOOSE k \in Saves(list) : Place(list, k) = i) = i
    <2>1. \A k \in Saves(list) : Place(list, k) = k
      BY <1>1, PlaceOfAll
    <2>2. QED
      BY <2>1
  <1>3. QED
    BY <1>1, <1>2 DEF NewParts

-----------------------------------------------------------------------------
(* The steps.                                                              *)

RemovedNames(l) == {x.part.name : x \in {y \in Nodes(l) : y.status = "remove"}}

\* What the options say, in terms of nodes.
LEMMA AskedFacts ==
    Declared = SavedParts(asked) /\ Removed = RemovedNames(asked)
  BY DEF Declared, Removed, SavedParts, RemovedNames, Nodes

\* What the properties say of a call depends on its options and the old image.
LEMMA AskedUnchanged ==
    ASSUME UNCHANGED <<asked, before>>
    PROVE  /\ Declared' = Declared /\ Removed' = Removed /\ OldParts' = OldParts
           /\ \A p : Stays(p)' = Stays(p)
  <1>1. Declared' = Declared /\ Removed' = Removed /\ OldParts' = OldParts
    BY DEF Declared, Removed, OldParts
  <1>2. DeclaredNames' = DeclaredNames
    BY <1>1 DEF DeclaredNames
  <1>3. QED
    BY <1>1, <1>2 DEF Stays

\* A file without table.
LEMMA ImageFacts ==
    Absent \in Image /\ Empty \in Image /\ Damaged \in Image /\ Absent # Empty
  <1> PICK e : e = <<>>
    OBVIOUS
  <1>1. e \in Seq(AnyPart)
    OBVIOUS
  <1>2. QED
    BY <1>1 DEF Image, Absent, Empty, Damaged

\* What a failing call may leave.
Spared == IF before = Absent THEN file \in {Absent, Empty} ELSE file = before

\* The end of a call, from what the two properties say of it.
LEMMA ExitKeepsInv ==
    ASSUME Inv, NEW r, Exit(r), file' \in Image, UpdateExact', FailureHarmless'
    PROVE  Inv'
  <1>1. /\ pc' = "exit" /\ UNCHANGED <<list, count, turn, before, asked>>
    BY DEF Exit, common
  <1>2. TypeInv'
    BY <1>1 DEF Inv, TypeInv
  <1>3. FileInv' /\ AskInv' /\ MergeInv' /\ WriteInv' /\ VerifyInv'
    BY <1>1 DEF FileInv, AskInv, MergeInv, WriteInv, VerifyInv
  <1>4. QED
    BY <1>2, <1>3 DEF Inv

\* A call fails.
LEMMA FailKeepsInv ==
    ASSUME Inv, Exit(-1), file' \in Image, hit' = TRUE \/ Spared'
    PROVE  Inv'
  <1>1. ret' = -1
    BY DEF Exit
  <1>2. UpdateExact'
    <2>1. ret' # 0
      BY <1>1
    <2>2. QED
      BY <2>1 DEF UpdateExact
  <1>3. FailureHarmless'
    BY DEF FailureHarmless, Spared
  <1>4. QED
    BY <1>2, <1>3, ExitKeepsInv

\* A call ends, with whatever result, and the image is as it was.
LEMMA SameKeepsInv ==
    ASSUME Inv, NEW r, Exit(r), file' = before
    PROVE  Inv'
  <1>1. before' = before /\ before \in Image
    BY DEF Exit, Inv, TypeInv
  <1>2. UpdateExact' /\ FailureHarmless'
    BY <1>1 DEF UpdateExact, FailureHarmless
  <1>3. QED
    BY <1>1, <1>2, ExitKeepsInv

\* The image before the call and what was opened are spared.
LEMMA OpenedSpared ==
    Opened => Spared
  BY DEF Opened, Spared

\* A new call.
LEMMA OpenKeepsInv ==
    ASSUME Inv, psdisk_openImg
    PROVE  Inv'
  <1>1. /\ before' = file /\ asked' = <<>> /\ list' = <<>> /\ count' = 0 /\ turn' = turn
        /\ opts' = IF file = Absent THEN {} ELSE {"exists"}
        /\ file \in Image /\ turn \in Nat \ {0}
    BY DEF psdisk_openImg, Inv, TypeInv
  <1>2. list' \in Seq(AnyNode) /\ asked' \in Seq(AnyNode) /\ count' = Len(list')
    <2>1. list' = <<>> /\ asked' = <<>> /\ count' = 0
      BY <1>1
    <2>2. QED
      BY <2>1
  <1>3. CASE pc' = "opts" /\ file' = IF file = Absent THEN Empty ELSE file
    <2>1. TypeInv'
      BY <1>1, <1>2, <1>3, ImageFacts DEF TypeInv
    <2>2. FileInv'
      BY <1>1, <1>3 DEF FileInv, Opened
    <2>3. Nodes(<<>>) = {}
      BY DEF Nodes
    <2>4. AskInv'
      BY <1>1, <2>3 DEF AskInv
    <2>5. QED
      BY <1>3, <2>1, <2>2, <2>4
         DEF Inv, MergeInv, WriteInv, VerifyInv, UpdateExact, FailureHarmless
  <1>4. CASE pc' = "exit" /\ ret' = -1 /\ UNCHANGED file /\ hit' = TRUE
    <2>1. TypeInv'
      BY <1>1, <1>2, <1>4 DEF TypeInv
    <2>2. ret' # 0
      BY <1>4
    <2>3. QED
      BY <1>4, <2>1, <2>2 DEF Inv, FileInv, AskInv, MergeInv, WriteInv, VerifyInv,
                              UpdateExact, FailureHarmless
  <1>5. QED
    BY <1>3, <1>4 DEF psdisk_openImg, Fault

\* An option that declares or removes a partition.
LEMMA OptionKeepsInv ==
    ASSUME Inv, NEW x \in AnyNode, NEW o, pc = "opts",
           list' = <<x>> \o list, count' = count + 1, opts' = opts \cup {o},
           asked' = Append(asked, x), o # "exists", x.status = "remove" => o = "remove",
           UNCHANGED <<file, pc, turn, before>>
    PROVE  Inv'
  <1>1. list \in Seq(AnyNode) /\ asked \in Seq(AnyNode) /\ count = Len(list)
    BY DEF Inv, TypeInv
  <1>2. /\ list' \in Seq(AnyNode) /\ asked' \in Seq(AnyNode) /\ count' = Len(list')
        /\ Nodes(list') = Nodes(list) \cup {x} /\ Nodes(asked') = Nodes(asked) \cup {x}
    BY <1>1, Inserted, Noted
  <1>3. TypeInv'
    BY <1>2 DEF Inv, TypeInv
  <1>4. FileInv'
    BY DEF Inv, FileInv, Opened
  <1>5. AskInv'
    <2>1. x.status \in {"save", "remove"}
      BY DEF AnyNode
    <2>2. /\ Nodes(list) = Nodes(asked)
          /\ "remove" \notin opts => \A y \in Nodes(list) : y.status = "save"
      BY DEF Inv, AskInv
    <2>3. QED
      BY <1>2, <2>1, <2>2 DEF AskInv
  <1>6. QED
    BY <1>3, <1>4, <1>5 DEF Inv, MergeInv, WriteInv, VerifyInv, UpdateExact, FailureHarmless

\* The options.
LEMMA OptionsKeepInv ==
    ASSUME Inv, \/ \E m \in Mems : psdisk_parseMem(m)
                \/ \E p \in Parts : psdisk_parseToSave(p)
                \/ \E n \in Names : psdisk_parseToRm(n)
                \/ bad_argument \/ help_or_unknown
    PROVE  Inv'
  <1>1. pc = "opts" /\ file \in Image
    BY DEF psdisk_parseMem, psdisk_parseToSave, psdisk_parseToRm, bad_argument, help_or_unknown,
           Inv, TypeInv
  <1>2. Opened /\ ("exists" \in opts <=> before # Absent)
    BY <1>1 DEF Inv, FileInv
  <1>3. ASSUME Exit(-1), UNCHANGED file PROVE Inv'
    <2>1. Spared'
      BY <1>2, <1>3, OpenedSpared DEF Spared, Exit
    <2>2. QED
      BY <1>1, <1>3, <2>1, FailKeepsInv
  <1>4. ASSUME NEW m \in Mems, psdisk_parseMem(m) PROVE Inv'
    <2>1. CASE "mem" \in opts
      BY <1>3, <1>4, <2>1 DEF psdisk_parseMem
    <2>2. CASE "mem" \notin opts
      <3>1. opts' = opts \cup {"mem"} /\ UNCHANGED <<pc, file, list, count, turn, before, asked>>
        BY <1>4, <2>2 DEF psdisk_parseMem
      <3>2. TypeInv' /\ FileInv' /\ AskInv'
        BY <1>1, <3>1 DEF Inv, TypeInv, FileInv, AskInv, Opened
      <3>3. QED
        BY <1>1, <3>1, <3>2 DEF Inv, MergeInv, WriteInv, VerifyInv, UpdateExact, FailureHarmless
    <2>3. QED
      BY <2>1, <2>2
  <1>5. ASSUME NEW p \in Parts, psdisk_parseToSave(p) PROVE Inv'
    <2>1. Node(p, "save") \in AnyNode /\ Node(p, "save").status = "save"
      BY DEF Node, AnyNode, AnyPart
    <2>2. QED
      BY <1>5, <2>1, OptionKeepsInv DEF psdisk_parseToSave
  <1>6. ASSUME NEW n \in Names, psdisk_parseToRm(n) PROVE Inv'
    <2>1. Node([NoPart EXCEPT !.name = n], "remove") \in AnyNode
      BY DEF Node, AnyNode, AnyPart
    <2>2. QED
      BY <1>6, <2>1, OptionKeepsInv DEF psdisk_parseToRm
  <1>7. CASE bad_argument
    BY <1>3, <1>7 DEF bad_argument
  <1>8. CASE help_or_unknown
    <2>1. PICK r \in {0, -1} : Exit(r)
      BY <1>8 DEF help_or_unknown
    <2>2. file' = before
      BY <1>2, <1>8 DEF help_or_unknown, Opened
    <2>3. QED
      BY <2>1, <2>2, SameKeepsInv
  <1>9. QED
    BY <1>4, <1>5, <1>6, <1>7, <1>8

\* The options are done.
LEMMA HandleKeepsInv ==
    ASSUME Inv, psdisk_handleImg
    PROVE  Inv'
  <1>1. pc = "opts" /\ file \in Image
    BY DEF psdisk_handleImg, Inv, TypeInv
  <1>2. Opened /\ ("exists" \in opts <=> before # Absent)
    BY <1>1 DEF Inv, FileInv
  <1>3. CASE CREATE_IMG /\ pc' = "create" /\ UNCHANGED <<file, ret, common, turn, before, asked, calls>>
    <2>1. UNCHANGED <<file, opts, list, count, mem, turn, before, asked>>
      BY <1>3 DEF common
    <2>2. TypeInv' /\ FileInv' /\ AskInv' /\ MergeInv' /\ VerifyInv'
      BY <1>1, <1>3, <2>1
         DEF Inv, TypeInv, FileInv, AskInv, MergeInv, VerifyInv, Opened, CREATE_IMG, UPDATE_IMG
    <2>3. before = Absent /\ \A x \in Nodes(list) : x.status = "save"
      BY <1>1, <1>2, <1>3 DEF CREATE_IMG, Inv, AskInv
    <2>4. Nodes(list) = Nodes(asked) /\ OldParts = {}
      BY <1>1, <2>3 DEF Inv, AskInv, OldParts, Absent
    <2>5. Removed = {} /\ Declared = SavedParts(list)
      BY <2>3, <2>4, AskedFacts DEF RemovedNames, SavedParts
    <2>6. WriteInv'
      BY <1>3, <2>1, <2>3, <2>4, <2>5, AskedUnchanged DEF WriteInv, Nodes, SavedParts
    <2>7. QED
      BY <1>3, <2>2, <2>6 DEF Inv, UpdateExact, FailureHarmless
  <1>4. CASE UPDATE_IMG /\ pc' = "update" /\ UNCHANGED <<file, ret, common, turn, before, asked, calls>>
    <2>1. UNCHANGED <<file, opts, list, count, mem, turn, before, asked>>
      BY <1>4 DEF common
    <2>2. TypeInv' /\ FileInv' /\ AskInv'
      BY <1>1, <1>4, <2>1
         DEF Inv, TypeInv, FileInv, AskInv, Opened, CREATE_IMG, UPDATE_IMG
    <2>3. QED
      BY <1>4, <2>2 DEF Inv, MergeInv, WriteInv, VerifyInv, UpdateExact, FailureHarmless
  <1>5. CASE READ_IMG /\ Exit(IF psdisk_readImg(file, mem) THEN 0 ELSE -1) /\ UNCHANGED file
    <2>1. file' = before
      BY <1>2, <1>5 DEF READ_IMG, Opened
    <2>2. QED
      BY <1>5, <2>1, SameKeepsInv
  <1>6. CASE Exit(-1) /\ file' = IF "exists" \in opts THEN file ELSE Absent
    <2>1. file' = before
      BY <1>2, <1>6 DEF Opened
    <2>2. QED
      BY <1>6, <2>1, SameKeepsInv
  <1>7. QED
    BY <1>3, <1>4, <1>5, <1>6 DEF psdisk_handleImg

\* The image is read, and the merge begins.
LEMMA UpdateKeepsInv ==
    ASSUME Inv, psdisk_updateImg
    PROVE  Inv'
  <1>1. pc = "update" /\ file' = file /\ file \in Image
    BY DEF psdisk_updateImg, Inv, TypeInv
  <1>2. Opened /\ UPDATE_IMG /\ Nodes(list) = Nodes(asked)
    BY <1>1 DEF Inv, FileInv, AskInv
  <1>3. CASE Exit(-1)
    <2>1. Spared'
      BY <1>1, <1>2, <1>3, OpenedSpared DEF Spared, Exit
    <2>2. QED
      BY <1>1, <1>3, <2>1, FailKeepsInv
  <1>4. CASE psdisk_readImg(file, mem) /\ pc' = "merge" /\ turn' = 1 /\ UNCHANGED <<common, before, asked>>
    <2>1. UNCHANGED <<opts, list, count, mem, before, asked>>
      BY <1>4 DEF common
    <2>2. TypeInv' /\ FileInv' /\ AskInv'
      BY <1>1, <1>2, <1>4, <2>1
         DEF Inv, TypeInv, FileInv, AskInv, Opened, CREATE_IMG, UPDATE_IMG
    <2>3. Merged' = {}
      BY <1>4 DEF Merged
    <2>4. MergeInv'
      <3>1. SavedParts(list) = Declared /\ Removed = RemovedNames(list)
        BY <1>2, AskedFacts DEF SavedParts, RemovedNames
      <3>2. turn' <= Len(file'.parts) + 1
        <4>1. file.parts \in Seq(AnyPart)
          BY <1>1 DEF Image
        <4>2. Len(file.parts) \in Nat
          BY <4>1, LenProperties
        <4>3. QED
          BY <1>1, <1>4, <4>2
      <3>3. psdisk_readImg(file, mem)'
        BY <1>1, <1>4, <2>1 DEF psdisk_readImg, Valid, ptable_size
      <3>4. SavedParts(list)' = SavedParts(list) /\ Nodes(list)' = Nodes(list)
        BY <2>1 DEF SavedParts, Nodes
      <3>5. \A x \in Nodes(list) : x.status = "remove" => x.part.name \in Removed
        BY <3>1 DEF RemovedNames
      <3>6. \A r \in Removed : \E x \in Nodes(list) : x.status = "remove" /\ x.part.name = r
        BY <3>1 DEF RemovedNames
      <3>7. QED
        BY <2>1, <2>3, <3>1, <3>2, <3>3, <3>4, <3>5, <3>6, AskedUnchanged DEF MergeInv
    <2>5. QED
      BY <1>4, <2>2, <2>4 DEF Inv, WriteInv, VerifyInv, UpdateExact, FailureHarmless
  <1>5. QED
    BY <1>3, <1>4 DEF psdisk_updateImg

\* A non-empty set of numbers has a least element.
LEMMA Least ==
    ASSUME NEW T \in SUBSET Nat, T # {}
    PROVE  \E x \in T : \A y \in T : x <= y
  <1>1. IsWellFoundedOn(OpToRel(<, Nat), Nat)
    BY NatLessThanWellFounded
  <1>2. PICK x \in T : \A y \in T : ~(<<y, x>> \in OpToRel(<, Nat))
    BY <1>1, WFMin
  <1>3. \A y \in T : ~(y < x)
    BY <1>2 DEF OpToRel
  <1>4. QED
    BY <1>3

\* The node that decides is the first of those that match.
LEMMA FirstFacts ==
    ASSUME NEW l \in Seq(AnyNode), NEW p, Matching(l, p) # {}
    PROVE  First(Matching(l, p)) \in 1 .. Len(l) /\ l[First(Matching(l, p))].part.name = p.name
  <1> PICK S, n : S = Matching(l, p) /\ n = Len(l)
    OBVIOUS
  <1>1. n \in Nat /\ S \subseteq 1 .. n /\ S # {} /\ \A i \in S : l[i].part.name = p.name
    BY LenProperties DEF Matching
  <1>2. S \subseteq Nat
    BY <1>1
  <1>3. \E i \in S : \A j \in S : i <= j
    BY <1>1, <1>2, Least
  <1>4. First(S) \in S
    BY <1>3 DEF First
  <1>5. QED
    BY <1>1, <1>4

\* The turn of the loop: the partition p is none of those before it.
LEMMA TurnFacts ==
    ASSUME Inv, pc = "merge", turn <= Len(file.parts), NEW p, p = file.parts[turn],
           UNCHANGED file, turn' = turn + 1
    PROVE  /\ p \in AnyPart /\ turn' <= Len(file'.parts) + 1
           /\ Merged' = Merged \cup {p} /\ \A q \in Merged : q.name # p.name
  <1> PICK s, n : s = file.parts /\ n = Len(s)
    OBVIOUS
  <1>1. s \in Seq(AnyPart) /\ turn \in Nat \ {0}
    BY DEF Inv, TypeInv, Image
  <1>2. n \in Nat /\ turn \in 1 .. n
    BY <1>1, LenProperties
  <1>3. p \in AnyPart
    BY <1>1, <1>2, ElementOfSeq
  <1>4. turn' <= Len(file'.parts) + 1
    BY <1>1, <1>2
  <1>5. Merged' = Merged \cup {p}
    <2>1. 1 .. turn' - 1 = (1 .. turn - 1) \cup {turn}
      BY <1>1
    <2>2. Merged' = {s[j] : j \in 1 .. turn' - 1} /\ Merged = {s[j] : j \in 1 .. turn - 1}
      BY DEF Merged
    <2>3. QED
      BY <2>1, <2>2
  <1>6. ASSUME NEW j \in 1 .. turn - 1 PROVE s[j].name # p.name
    <2>1. Valid(s, mem)
      BY DEF Inv, MergeInv, psdisk_readImg
    <2>2. j \in 1 .. n /\ j # turn
      BY <1>1, <1>2
    <2>3. QED
      BY <1>2, <2>1, <2>2 DEF Valid
  <1>7. \A q \in Merged : q.name # p.name
    BY <1>6 DEF Merged
  <1>8. QED
    BY <1>3, <1>4, <1>5, <1>7

\* A turn, from what it does to the nodes.
LEMMA TurnKeepsInv ==
    ASSUME Inv, pc = "merge", NEW p,
           Merged' = Merged \cup {p}, turn' = turn + 1, turn' <= Len(file'.parts) + 1,
           UNCHANGED <<file, pc, opts, mem, before, asked>>,
           list' \in Seq(AnyNode), count' = Len(list'),
           SavedParts(list') = SavedParts(list) \cup (IF Stays(p) THEN {p} ELSE {}),
           \A x \in Nodes(list') : x.status = "remove" => x \in Nodes(list),
           \A x \in Nodes(list) : x.status = "remove" => x \in Nodes(list') \/ x.part.name = p.name
    PROVE  Inv'
  <1>1. TypeInv' /\ FileInv'
    BY DEF Inv, TypeInv, FileInv, Opened, CREATE_IMG, UPDATE_IMG
  <1>2. AskInv' /\ WriteInv' /\ VerifyInv' /\ UpdateExact' /\ FailureHarmless'
    BY DEF AskInv, WriteInv, VerifyInv, UpdateExact, FailureHarmless
  <1>3. /\ psdisk_readImg(file, mem)
        /\ SavedParts(list) = Declared \cup {q \in Merged : Stays(q)}
        /\ \A x \in Nodes(list) : x.status = "remove" => x.part.name \in Removed
        /\ \A r \in Removed : \/ \E x \in Nodes(list) : x.status = "remove" /\ x.part.name = r
                              \/ \E q \in Merged : q.name = r
    BY DEF Inv, MergeInv
  <1>4. psdisk_readImg(file, mem)'
    BY <1>3 DEF psdisk_readImg, Valid, ptable_size
  <1>5. /\ Declared' = Declared /\ Removed' = Removed /\ \A q : Stays(q)' = Stays(q)
    BY AskedUnchanged
  <1>6. SavedParts(list') = Declared \cup {q \in Merged' : Stays(q)}
    BY <1>3
  <1>7. \A x \in Nodes(list') : x.status = "remove" => x.part.name \in Removed
    BY <1>3
  <1>8. \A r \in Removed : \/ \E x \in Nodes(list') : x.status = "remove" /\ x.part.name = r
                           \/ \E q \in Merged' : q.name = r
    BY <1>3
  <1>9. /\ {q \in Merged' : Stays(q)'} = {q \in Merged' : Stays(q)}
        /\ SavedParts(list)' = SavedParts(list') /\ Nodes(list)' = Nodes(list')
    BY <1>5 DEF SavedParts, Nodes
  <1>10. MergeInv'
    BY <1>4, <1>5, <1>6, <1>7, <1>8, <1>9 DEF MergeInv
  <1>11. QED
    BY <1>1, <1>2, <1>10 DEF Inv

\* A partition of the image is merged.
LEMMA MergeKeepsInv ==
    ASSUME Inv, pc = "merge", turn <= Len(file.parts), NEW p, p = file.parts[turn], Merge(p),
           turn' = turn + 1, UNCHANGED <<file, pc, opts, mem, before, asked>>
    PROVE  Inv'
  <1>1. /\ p \in AnyPart /\ turn' <= Len(file'.parts) + 1
        /\ Merged' = Merged \cup {p} /\ \A q \in Merged : q.name # p.name
    BY TurnFacts
  <1>2. /\ SavedParts(list) = Declared \cup {q \in Merged : Stays(q)}
        /\ \A x \in Nodes(list) : x.status = "remove" => x.part.name \in Removed
        /\ \A r \in Removed : \/ \E x \in Nodes(list) : x.status = "remove" /\ x.part.name = r
                              \/ \E q \in Merged : q.name = r
    BY DEF Inv, MergeInv
  <1>3. list \in Seq(AnyNode) /\ count = Len(list) /\ Len(list) \in Nat
    BY LenProperties DEF Inv, TypeInv
  <1>4. Nodes(list) \subseteq AnyNode
    BY <1>3, NodesType
  <1>5. CASE Matching(list, p) = {} /\ list' = <<Node(p, "save")>> \o list /\ count' = count + 1
    <2> PICK x : x = Node(p, "save")
      OBVIOUS
    <2>1. x \in AnyNode /\ x.part = p /\ x.status = "save"
      BY <1>1 DEF Node, AnyNode
    <2>2. /\ list' \in Seq(AnyNode) /\ count' = Len(list')
          /\ Nodes(list') = Nodes(list) \cup {x}
      BY <1>3, <1>5, <2>1, Inserted
    <2>3. \A y \in Nodes(list) : y.part.name # p.name
      BY <1>5 DEF Nodes, Matching
    <2>4. Stays(p)
      <3>1. p.name \notin DeclaredNames
        <4>1. \A d \in Declared : d \in SavedParts(list)
          BY <1>2
        <4>2. QED
          BY <2>3, <4>1 DEF DeclaredNames, SavedParts
      <3>2. p.name \notin Removed
        BY <1>1, <1>2, <2>3
      <3>3. QED
        BY <3>1, <3>2 DEF Stays
    <2>5. SavedParts(list') = SavedParts(list) \cup {p}
      BY <2>1, <2>2 DEF SavedParts
    <2>6. /\ \A y \in Nodes(list') : y.status = "remove" => y \in Nodes(list)
          /\ Nodes(list) \subseteq Nodes(list')
      BY <2>1, <2>2
    <2>7. QED
      BY <1>1, <2>2, <2>4, <2>5, <2>6, TurnKeepsInv
  <1>6. ASSUME Matching(list, p) # {}
        PROVE  \E f \in 1 .. Len(list) : f = First(Matching(list, p)) /\ list[f].part.name = p.name
    BY <1>3, <1>6, FirstFacts
  <1>7. CASE /\ Matching(list, p) # {} /\ list[First(Matching(list, p))].status = "remove"
             /\ list' = RemoveAt(list, First(Matching(list, p))) /\ count' = count - 1
    <2>1. PICK f \in 1 .. Len(list) : f = First(Matching(list, p)) /\ list[f].part.name = p.name
      BY <1>6, <1>7
    <2> PICK y : y = list[f]
      OBVIOUS
    <2>2. list' = RemoveAt(list, f) /\ y \in Nodes(list) /\ y.status = "remove" /\ y.part.name = p.name
      BY <1>7, <2>1 DEF Nodes
    <2>3. /\ list' \in Seq(AnyNode) /\ Len(list') = Len(list) - 1
          /\ Nodes(list') \subseteq Nodes(list) /\ Nodes(list) \subseteq Nodes(list') \cup {y}
      BY <1>3, <2>2, TakenOut
    <2>4. count' = Len(list')
      BY <1>3, <1>7, <2>3
    <2>5. ~Stays(p)
      BY <1>2, <2>2 DEF Stays
    <2>6. SavedParts(list') = SavedParts(list)
      BY <2>2, <2>3 DEF SavedParts
    <2>7. /\ \A x \in Nodes(list') : x.status = "remove" => x \in Nodes(list)
          /\ \A x \in Nodes(list) : x.status = "remove" => x \in Nodes(list') \/ x.part.name = p.name
      BY <2>2, <2>3
    <2>8. QED
      BY <1>1, <2>3, <2>4, <2>5, <2>6, <2>7, TurnKeepsInv
  <1>8. CASE /\ Matching(list, p) # {} /\ list[First(Matching(list, p))].status = "save"
             /\ UNCHANGED <<list, count>>
    <2>1. PICK f \in 1 .. Len(list) : f = First(Matching(list, p)) /\ list[f].part.name = p.name
      BY <1>6, <1>8
    <2>2. list[f] \in Nodes(list) /\ list[f].status = "save"
      BY <1>8, <2>1 DEF Nodes
    <2>3. list[f].part \in SavedParts(list)
      BY <2>2 DEF SavedParts
    <2>4. list[f].part \in Declared
      BY <1>1, <1>2, <2>1, <2>3
    <2>5. ~Stays(p)
      BY <2>1, <2>4 DEF Stays, DeclaredNames
    <2>6. Nodes(list') = Nodes(list) /\ SavedParts(list') = SavedParts(list)
      BY <1>8 DEF SavedParts, Nodes
    <2>7. QED
      BY <1>1, <1>3, <1>8, <2>5, <2>6, TurnKeepsInv
  <1>9. QED
    BY <1>5, <1>7, <1>8 DEF Merge

\* The loop and its end.
LEMMA ListKeepsInv ==
    ASSUME Inv, psdisk_updatePartsList
    PROVE  Inv'
  <1>1. pc = "merge" /\ file' = file /\ file \in Image
    BY DEF psdisk_updatePartsList, Inv, TypeInv
  <1>2. Opened /\ UPDATE_IMG /\ ("exists" \in opts <=> before # Absent)
    BY <1>1 DEF Inv, FileInv
  <1>3. CASE /\ turn <= Len(file.parts) /\ Merge(file.parts[turn]) /\ turn' = turn + 1
             /\ UNCHANGED <<pc, ret, opts, mem, before, asked, calls>>
    BY <1>1, <1>3, MergeKeepsInv
  <1>4. CASE Exit(-1)
    <2>1. Spared'
      BY <1>1, <1>2, <1>4, OpenedSpared DEF Spared, Exit
    <2>2. QED
      BY <1>1, <1>4, <2>1, FailKeepsInv
  <1>5. CASE /\ turn > Len(file.parts) /\ Saves(list) = 1 .. Len(list)
             /\ pc' = "create" /\ UNCHANGED <<ret, common, turn, before, asked, calls>>
    <2>1. UNCHANGED <<file, opts, list, count, mem, turn, before, asked>>
      BY <1>1, <1>5 DEF common
    <2>2. TypeInv' /\ FileInv'
      BY <1>1, <1>2, <1>5, <2>1 DEF Inv, TypeInv, FileInv, Opened, CREATE_IMG, UPDATE_IMG
    <2>3. \A x \in Nodes(list) : x.status = "save"
      BY <1>5, AllSaved
    <2>4. before = file
      BY <1>2 DEF Opened, UPDATE_IMG
    <2>5. Merged = OldParts
      <3> PICK n : n = Len(file.parts)
        OBVIOUS
      <3>1. n \in Nat
        BY <1>1, LenProperties DEF Image
      <3>2. turn - 1 = n
        BY <1>1, <1>5, <3>1 DEF Inv, TypeInv, MergeInv
      <3>3. Merged = {file.parts[j] : j \in 1 .. n}
        BY <3>2 DEF Merged
      <3>4. QED
        BY <2>4, <3>3 DEF OldParts
    <2>6. /\ SavedParts(list) = Declared \cup {p \in OldParts : Stays(p)}
          /\ Removed \subseteq {p.name : p \in OldParts}
      BY <1>1, <2>3, <2>5 DEF Inv, MergeInv
    <2>7. WriteInv'
      <3>1. Nodes(list)' = Nodes(list) /\ SavedParts(list)' = SavedParts(list)
        BY <2>1 DEF SavedParts, Nodes
      <3>2. QED
        BY <2>1, <2>3, <2>6, <3>1, AskedUnchanged DEF WriteInv
    <2>8. QED
      BY <1>5, <2>2, <2>7 DEF Inv, AskInv, MergeInv, VerifyInv, UpdateExact, FailureHarmless
  <1>6. QED
    BY <1>3, <1>4, <1>5 DEF psdisk_updatePartsList

\* The table that is written has the parts of the list.
LEMMA TableFacts ==
    ASSUME Inv, pc \in {"create", "verify"}
    PROVE  /\ Saves(list) = 1 .. Len(list) /\ Len(list) \in Nat /\ list \in Seq(AnyNode)
           /\ NewParts = [i \in 1 .. Len(list) |-> list[i].part]
           /\ NewParts \in Seq(AnyPart) /\ Len(NewParts) = Len(list)
           /\ Table(NewParts) \in Image
  <1>1. \A x \in Nodes(list) : x.status = "save"
    BY DEF Inv, WriteInv
  <1>2. Saves(list) = 1 .. Len(list) /\ list \in Seq(AnyNode) /\ Len(list) \in Nat
    BY <1>1, AllSaved, LenProperties DEF Inv, TypeInv
  <1>3. NewParts = [i \in 1 .. Len(list) |-> list[i].part]
    BY <1>2, NewPartsAll DEF Inv
  <1>4. ASSUME NEW i \in 1 .. Len(list) PROVE list[i].part \in AnyPart
    <2>1. list[i] \in AnyNode
      BY <1>2, ElementOfSeq
    <2>2. QED
      BY <2>1 DEF AnyNode
  <1>5. NewParts \in Seq(AnyPart) /\ Len(NewParts) = Len(list)
    BY <1>2, <1>3, <1>4
  <1>6. Table(NewParts) \in Image
    BY <1>5 DEF Table, Image
  <1>7. QED
    BY <1>2, <1>3, <1>5, <1>6

\* An image that was there is left as it is when the call fails; a new one goes.
LEMMA FailedSpares ==
    ASSUME Inv, Opened, pc \in {"create", "verify"}, NEW f, f \in Image, Failed(f), Exit(-1),
           hit' = TRUE \/ f = file
    PROVE  Inv'
  <1>1. "exists" \in opts <=> before # Absent
    BY DEF Inv, FileInv
  <1>2. CREATE_IMG => before = Absent
    BY <1>1 DEF CREATE_IMG
  <1>3. file' \in Image /\ before' = before
    BY ImageFacts DEF Failed, Exit
  <1>4. hit' = TRUE \/ Spared'
    BY <1>2, <1>3 DEF Failed, Spared, Opened
  <1>5. QED
    BY <1>3, <1>4, FailKeepsInv

\* The table is written.
LEMMA CreateKeepsInv ==
    ASSUME Inv, psdisk_createPartsTable
    PROVE  Inv'
  <1>1. pc = "create" /\ file \in Image /\ Opened /\ (CREATE_IMG \/ UPDATE_IMG)
    BY DEF psdisk_createPartsTable, Inv, TypeInv, FileInv
  <1>2. CASE NoFault /\ Exit(-1) /\ Failed(file)
    BY <1>1, <1>2, FailedSpares
  <1>3. CASE Fault /\ Exit(-1) /\ \E f \in {file, Damaged} : Failed(f)
    <2>1. PICK f \in {file, Damaged} : Failed(f)
      BY <1>3
    <2>2. f \in Image /\ hit' = TRUE
      BY <1>1, <1>3, ImageFacts DEF Fault
    <2>3. QED
      BY <1>1, <1>3, <2>1, <2>2, FailedSpares
  <1>4. CASE /\ ptable_size(count) <= mem.blksz /\ Valid(NewParts, mem)
             /\ pc' = "verify" /\ file' = Table(NewParts)
             /\ UNCHANGED <<ret, common, turn, before, asked, calls>>
    <2>1. UNCHANGED <<opts, list, count, mem, turn, before, asked>>
      BY <1>4 DEF common
    <2>2. file' \in Image
      BY <1>1, <1>4, TableFacts
    <2>3. TypeInv' /\ FileInv'
      BY <1>1, <1>4, <2>1, <2>2 DEF Inv, TypeInv, FileInv, CREATE_IMG, UPDATE_IMG
    <2>4. WriteInv'
      <3>1. Nodes(list)' = Nodes(list) /\ SavedParts(list)' = SavedParts(list)
        BY <2>1 DEF SavedParts, Nodes
      <3>2. QED
        BY <1>1, <2>1, <3>1, AskedUnchanged DEF Inv, WriteInv
    <2>5. NewParts' = NewParts
      BY <2>1 DEF NewParts, Saves, Place
    <2>6. VerifyInv'
      BY <1>4, <2>1, <2>5 DEF VerifyInv, Valid, ptable_size
    <2>7. QED
      BY <1>4, <2>3, <2>4, <2>6 DEF Inv, AskInv, MergeInv, UpdateExact, FailureHarmless
  <1>5. QED
    BY <1>2, <1>3, <1>4 DEF psdisk_createPartsTable

\* What was written is what is read back.
LEMMA ReadBack ==
    ASSUME Inv, pc = "verify"
    PROVE  /\ psdisk_readImg(file, mem)
           /\ \A k \in Saves(list) : /\ Place(list, k) <= count
                                     /\ list[k].part = file.parts[Place(list, k)]
  <1>1. /\ file = Table(NewParts) /\ count = Len(list)
        /\ ptable_size(count) <= mem.blksz /\ Valid(NewParts, mem)
    BY DEF Inv, VerifyInv, TypeInv
  <1>2. file.kind = "table" /\ file.parts = NewParts
    BY <1>1 DEF Table
  <1>3. /\ Saves(list) = 1 .. Len(list) /\ Len(list) \in Nat /\ list \in Seq(AnyNode)
        /\ NewParts = [i \in 1 .. Len(list) |-> list[i].part] /\ Len(NewParts) = Len(list)
    BY TableFacts
  <1>4. psdisk_readImg(file, mem)
    BY <1>1, <1>2, <1>3 DEF psdisk_readImg
  <1>5. \A k \in Saves(list) : Place(list, k) = k
    BY <1>3, PlaceOfAll
  <1>6. QED
    BY <1>1, <1>2, <1>3, <1>4, <1>5

\* The contents of the file while they may not be flushed.
LEMMA UnflushedType ==
    ASSUME Inv
    PROVE  Unflushed \subseteq Image
  BY ImageFacts DEF Unflushed, Inv, TypeInv

\* The table is read back.
LEMMA VerifyKeepsInv ==
    ASSUME Inv, psdisk_verifyPartsTable
    PROVE  Inv'
  <1>1. pc = "verify" /\ file \in Image
    BY DEF psdisk_verifyPartsTable, Inv, TypeInv
  <1>2. CASE Exit(0) /\ UNCHANGED file
    <2>1. UNCHANGED <<opts, mem, before, asked>>
      BY <1>2 DEF Exit, common
    <2>2. psdisk_readImg(file, mem)
      BY <1>1, ReadBack
    <2>3. psdisk_readImg(file, mem)'
      BY <1>2, <2>1, <2>2 DEF psdisk_readImg, Valid, ptable_size
    <2>4. file.parts = [i \in 1 .. Len(list) |-> list[i].part] /\ Len(file.parts) = Len(list)
      BY <1>1, TableFacts DEF Inv, VerifyInv, Table
    <2>5. {file.parts[i] : i \in 1 .. Len(file.parts)} = SavedParts(list)
      <3>1. \A x \in Nodes(list) : x.status = "save"
        BY <1>1 DEF Inv, WriteInv
      <3>2. SavedParts(list) = {list[i].part : i \in 1 .. Len(list)}
        BY <3>1 DEF SavedParts, Nodes
      <3>3. QED
        BY <2>4, <3>2
    <2>6. /\ SavedParts(list) = Declared \cup {p \in OldParts : Stays(p)}
          /\ Removed \subseteq {p.name : p \in OldParts}
      BY <1>1 DEF Inv, WriteInv
    <2>7. UpdateExact'
      BY <1>2, <2>1, <2>3, <2>5, <2>6, AskedUnchanged DEF UpdateExact, Stays, DeclaredNames
    <2>8. FailureHarmless'
      BY <1>2 DEF FailureHarmless, Exit
    <2>9. QED
      BY <1>1, <1>2, <2>7, <2>8, ExitKeepsInv
  <1>3. CASE Fault /\ Exit(-1) /\ \E f \in Unflushed : Failed(f)
    <2>1. PICK f \in Unflushed : Failed(f)
      BY <1>3
    <2>2. file' \in Image
      BY <2>1, UnflushedType, ImageFacts DEF Failed
    <2>3. QED
      BY <1>3, <2>2, FailKeepsInv DEF Fault
  <1>4. QED
    BY <1>1, <1>2, <1>3, ReadBack DEF psdisk_verifyPartsTable

\* The program is killed.
LEMMA KilledKeepsInv ==
    ASSUME Inv, killed
    PROVE  Inv'
  <1>1. file' \in Image
    BY UnflushedType DEF killed, Inv, TypeInv
  <1>2. Exit(-1) /\ hit' = TRUE
    BY DEF killed, Fault
  <1>3. QED
    BY <1>1, <1>2, FailKeepsInv

\* The invariant holds before the first call.
LEMMA InitInv ==
    Init => Inv
  <1> SUFFICES ASSUME Init PROVE Inv
    OBVIOUS
  <1>1. /\ file = Absent /\ pc = "exit" /\ ret = 0 /\ list = <<>> /\ count = 0 /\ turn = 1
        /\ before = Absent /\ asked = <<>>
    BY DEF Init
  <1>2. list \in Seq(AnyNode) /\ asked \in Seq(AnyNode) /\ count = Len(list)
    <2>1. list = <<>> /\ asked = <<>> /\ count = 0
      BY <1>1
    <2>2. QED
      BY <2>1
  <1>3. TypeInv
    BY <1>1, <1>2, ImageFacts DEF TypeInv
  <1>4. QED
    BY <1>1, <1>3 DEF Inv, FileInv, AskInv, MergeInv, WriteInv, VerifyInv, UpdateExact, FailureHarmless

\* Every step keeps it.
LEMMA NextKeepsInv ==
    Inv /\ [Next]_vars => Inv'
  <1> SUFFICES ASSUME Inv, [Next]_vars PROVE Inv'
    OBVIOUS
  <1>1. CASE psdisk_openImg
    BY <1>1, OpenKeepsInv
  <1>2. CASE \/ \E m \in Mems : psdisk_parseMem(m)
             \/ \E p \in Parts : psdisk_parseToSave(p)
             \/ \E n \in Names : psdisk_parseToRm(n)
             \/ bad_argument \/ help_or_unknown
    BY <1>2, OptionsKeepInv
  <1>3. CASE psdisk_handleImg
    BY <1>3, HandleKeepsInv
  <1>4. CASE psdisk_updateImg
    BY <1>4, UpdateKeepsInv
  <1>5. CASE psdisk_updatePartsList
    BY <1>5, ListKeepsInv
  <1>6. CASE psdisk_createPartsTable
    BY <1>6, CreateKeepsInv
  <1>7. CASE psdisk_verifyPartsTable
    BY <1>7, VerifyKeepsInv
  <1>8. CASE killed
    BY <1>8, KilledKeepsInv
  <1>9. CASE UNCHANGED vars
    <2>1. UNCHANGED <<file, pc, ret, opts, list, count, mem, turn, before, asked, hit>>
      BY <1>9 DEF vars, common
    <2>2. TypeInv' /\ FileInv' /\ AskInv'
      BY <2>1 DEF Inv, TypeInv, FileInv, AskInv, Opened, CREATE_IMG, UPDATE_IMG, Nodes
    <2>3. /\ Nodes(list)' = Nodes(list) /\ SavedParts(list)' = SavedParts(list)
          /\ Merged' = Merged /\ NewParts' = NewParts
      BY <2>1 DEF Nodes, SavedParts, Merged, NewParts, Saves, Place
    <2>4. psdisk_readImg(file, mem)' = psdisk_readImg(file, mem)
      BY <2>1 DEF psdisk_readImg, Valid, ptable_size
    <2>5. MergeInv' /\ WriteInv'
      BY <2>1, <2>3, <2>4, AskedUnchanged DEF Inv, MergeInv, WriteInv
    <2>6. VerifyInv'
      BY <2>1, <2>3 DEF Inv, VerifyInv, Valid, ptable_size
    <2>7. UpdateExact' /\ FailureHarmless'
      BY <2>1, <2>4, AskedUnchanged DEF Inv, UpdateExact, FailureHarmless, CREATE_IMG, UPDATE_IMG
    <2>8. QED
      BY <2>2, <2>5, <2>6, <2>7 DEF Inv
  <1>10. QED
    BY <1>1, <1>2, <1>3, <1>4, <1>5, <1>6, <1>7, <1>8, <1>9 DEF Next

\* The inductive invariant holds over any series of calls of psdisk.
THEOREM Invariance ==
    Spec => []Inv
  BY InitInv, NextKeepsInv, PTL DEF Spec

\* A call of psdisk that says it succeeded and has changed the file has put into
\* the image what its options declare and what they left of the table that was
\* there, and nothing else, in whatever order the options came.
THEOREM UpdatesAreExact ==
    Spec => []UpdateExact
  <1>1. Inv => UpdateExact
    BY DEF Inv
  <1>2. QED
    BY <1>1, Invariance, PTL

\* A call that fails without an I/O error leaves an image that was there as it
\* was: the table that psdisk_createPartsTable writes in place is always read
\* back as the list it was made of.
THEOREM FailuresAreHarmless ==
    Spec => []FailureHarmless
  <1>1. Inv => FailureHarmless
    BY DEF Inv
  <1>2. QED
    BY <1>1, Invariance, PTL
=============================================================================
