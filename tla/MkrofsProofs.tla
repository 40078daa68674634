---------------------------- MODULE MkrofsProofs ----------------------------
(***************************************************************************)
(* Proofs about Mkrofs, for every source directory, every size of chunk,   *)
(* header and node and every number of faults.                             *)
(*                                                                         *)
(* The image's invariants lean on the same bookkeeping: while the walk     *)
(* goes on, nextId counts the nodes and, as long as the image fits its     *)
(* 32-bit offsets, currOffset is the end of the image file.  Everything    *)
(* written is appended, so that what was once found at an offset stays     *)
(* there.  The last part is about the tree of nodes: each node has a path  *)
(* of its own, and each entry of a directory is taken exactly once.        *)
(***************************************************************************)
EXTENDS Mkrofs, SequenceTheorems, WellFoundedInduction, TLAPS

Names  == UNION {DOMAIN t.kind : t \in Trees}
Short  == UNION {{t.trim[e] : e \in DOMAIN t.kind} : t \in Trees}
Node   == [id : Nat, parentId : Int, entry : Names, name : Short, dir : BOOLEAN,
           offset : Nat, size : Nat]
Cell   == (Names \cup {"pad"} \cup Node) \X Nat
Header == [size : Int, index : Int, count : Int, crc : Seq(Cell)]

\* The type of the variables that are not in the parts below.
TypeInv ==
    /\ tree \in Trees
    /\ pc \in {"start", "walk", "copy", "padding", "index", "header", "close", "ended"}
    /\ result \in {"", "SUCCESS", "FAILURE", "KILLED"}
    /\ nextId \in Nat /\ currOffset \in Nat /\ currOffset < OffMod
    /\ nodes \in Seq(Node) /\ allocated \in Nat /\ pos \in Nat
    /\ image \in Seq(Cell) /\ hdrbuf \in Header /\ header \in Header

\* The files that stat finds now.
SizeInv == DOMAIN size = DOMAIN tree.size /\ \A f \in DOMAIN size : size[f] \in Nat

\* main() has a result when it has ended, and only then a header.
EndInv ==
    /\ pc # "ended" => result = "" /\ header = None
    /\ pc = "ended" => result # ""
    /\ result # "SUCCESS" => header = None

\* The calls of processDir: each has a directory's node, and entries to read.
StackInv ==
    /\ stack \in Seq([id : Nat, rest : SUBSET DOMAIN tree.kind])
    /\ pc \in {"walk", "copy"} => stack # <<>>
    /\ \A i \in 1 .. Len(stack) : stack[i].id < Len(nodes) /\ nodes[stack[i].id + 1].dir

\* nextId is the number of nodes until an error ends the program.
CountInv == pc # "ended" => nextId = Len(nodes)
StartInv == pc = "start" => nodes = <<>> /\ image = <<>>

\* currOffset is the end of the image, while it fits and there is no index.
OffsetInv ==
    pc \in {"start", "walk", "copy", "padding"} /\ Fits => currOffset = HdrSz + Len(image)

Last == nodes[Len(nodes)]

\* The file that is being copied: the last node's, of which pos cells are in the
\* image; it has its size from stat unless it was changed.
CopyInv ==
    pc = "copy" =>
        /\ nodes # <<>> /\ ~Last.dir /\ Last.entry \in DOMAIN size
        /\ Fits => /\ Last.offset + pos = HdrSz + Len(image)
                   /\ \A i \in 1 .. pos : At(Last.offset + i - 1) = <<Last.entry, i>>
        /\ Len(nodes) \notin changed => pos <= size[Last.entry] /\ Last.size <= size[Last.entry]

\* The index begins at indexOffset, on a multiple of NodeSz, and is in the image
\* when it was written.
IndexInv ==
    /\ pc = "index" /\ Fits => HdrSz + Len(image) = indexOffset
    /\ pc = "header" /\ Fits =>
          /\ HdrSz + Len(image) = fileSize
          /\ \A k \in 1 .. Len(nodes) : At(indexOffset + (k - 1) * NodeSz) = <<nodes[k], 0>>

\* The header in the buffer says so.
HeaderInv ==
    pc = "close" =>
        /\ hdrbuf \notin {None, Lost} /\ hdrbuf.count = Len(nodes)
        /\ Fits => /\ hdrbuf.index % NodeSz = 0
                   /\ hdrbuf.size = HdrSz + Len(image) /\ hdrbuf.crc = image
                   /\ \A k \in 1 .. Len(nodes) :
                         At(hdrbuf.index + (k - 1) * NodeSz) = <<nodes[k], 0>>

Inv == /\ TypeInv /\ SizeInv /\ EndInv /\ StackInv /\ CountInv /\ StartInv /\ OffsetInv
       /\ CopyInv /\ IndexInv /\ HeaderInv /\ IndexSound /\ FilesIntact /\ HeaderLast

-----------------------------------------------------------------------------
(* Facts about the constants and the operators.                            *)

\* The assumptions on the constants, one by one.
LEMMA ConstantFacts ==
    /\ DepthMax \in Nat /\ Grow \in Nat /\ Grow > 1
    /\ HdrSz \in Nat /\ HdrSz > 0 /\ NodeSz \in Nat /\ NodeSz > 0
    /\ Chunk \in Nat /\ Chunk > 0 /\ OffMod \in Nat /\ OffMod > 0
    /\ OffMod % NodeSz = 0 /\ MaxSize \in Nat /\ MaxFaults \in Nat
  BY MkrofsAssumption

\* The source directory: what a directory contains is of it.
LEMMA TreeFacts ==
    ASSUME NEW t \in Trees
    PROVE  /\ t.root \in DOMAIN t.kids /\ t.root \in DOMAIN t.kind /\ DOMAIN t.kind \subseteq Names
           /\ \A d \in DOMAIN t.kids : t.kids[d] \subseteq DOMAIN t.kind
           /\ \A e \in DOMAIN t.kind : t.kind[e] = "dir" => e \in DOMAIN t.kids
           /\ \A e \in DOMAIN t.kind : t.kind[e] = "file" => e \in DOMAIN t.size
           /\ \A e \in DOMAIN t.size : t.size[e] \in Nat
  <1>1. /\ t.root \in DOMAIN t.kids /\ t.kind[t.root] = "dir"
        /\ \A d \in DOMAIN t.kids : t.kids[d] \subseteq DOMAIN t.kind
        /\ \A e \in DOMAIN t.kind : t.kind[e] = "dir" <=> e \in DOMAIN t.kids
        /\ \A e \in DOMAIN t.kind : t.kind[e] = "file" <=> e \in DOMAIN t.size
        /\ DOMAIN t.kids \cup DOMAIN t.size \subseteq DOMAIN t.kind
        /\ \A e \in DOMAIN t.size : t.size[e] \in Nat
    BY TreesAssumption
  <1>2. DOMAIN t.kind \subseteq Names
    BY DEF Names
  <1>3. QED
    BY <1>1, <1>2

\* The stored names.
LEMMA TrimmedIsShort ==
    ASSUME NEW t \in Trees, NEW e \in DOMAIN t.kind
    PROVE  t.trim[e] \in Short
  BY DEF Short

\* A header that was never written differs from every header that was.
LEMMA NoHeader ==
    /\ None \in Header /\ Lost \in Header /\ None # Lost
    /\ None.size = -1 /\ Lost.size = -2
  <1>1. None \in Header /\ None.size = -1
    BY DEF None, Header
  <1>2. Lost = [None EXCEPT !.size = -2]
    BY DEF Lost
  <1>3. Lost \in Header /\ Lost.size = -2
    BY <1>1, <1>2 DEF Header
  <1>4. QED
    BY <1>1, <1>3

\* What is appended to the image leaves the cells before it where they were.
LEMMA Appended ==
    ASSUME image \in Seq(Cell), NEW s \in Seq(Cell), image' = image \o s
    PROVE  /\ image' \in Seq(Cell) /\ Len(image') = Len(image) + Len(s)
           /\ Len(image) \in Nat /\ Len(s) \in Nat
           /\ Fits' => Fits
  <1>1. image' \in Seq(Cell) /\ Len(image') = Len(image) + Len(s) /\ Len(image) \in Nat /\ Len(s) \in Nat
    BY ConcatProperties
  <1>2. QED
    BY <1>1, ConstantFacts DEF Fits

\* In particular, the cell at an offset stays.
LEMMA CellStays ==
    ASSUME image \in Seq(Cell), NEW s \in Seq(Cell), image' = image \o s,
           NEW o \in Int, NEW c, At(o) = c, c # <<>>
    PROVE  At(o)' = c
  <1>1. o - HdrSz + 1 \in DOMAIN image /\ image[o - HdrSz + 1] = c
    BY DEF At
  <1>2. /\ Len(image') = Len(image) + Len(s) /\ Len(image) \in Nat /\ Len(s) \in Nat
        /\ \A i \in 1 .. Len(image) : image'[i] = image[i]
    BY ConcatProperties
  <1>3. DOMAIN image = 1 .. Len(image) /\ DOMAIN image' = 1 .. Len(image')
    BY ConcatProperties
  <1>4. o - HdrSz + 1 \in 1 .. Len(image) /\ o - HdrSz + 1 \in 1 .. Len(image')
    BY <1>1, <1>2, <1>3
  <1>5. QED
    BY <1>1, <1>2, <1>3, <1>4 DEF At

\* A cell of what was appended.
LEMMA CellNew ==
    ASSUME image \in Seq(Cell), NEW s \in Seq(Cell), image' = image \o s, NEW j \in 1 .. Len(s),
           NEW o \in Int, o = HdrSz + Len(image) + j - 1
    PROVE  At(o)' = s[j]
  <1>1. /\ Len(image') = Len(image) + Len(s) /\ Len(image) \in Nat /\ Len(s) \in Nat
        /\ DOMAIN image' = 1 .. Len(image')
        /\ image'[Len(image) + j] = s[j]
    BY ConcatProperties
  <1>2. o - HdrSz + 1 = Len(image) + j /\ Len(image) + j \in 1 .. Len(image')
    BY <1>1, ConstantFacts
  <1>3. QED
    BY <1>1, <1>2 DEF At

\* The cells that copying writes.
LEMMA CellsType ==
    ASSUME NEW f \in Names, NEW from \in Nat, NEW n \in Nat
    PROVE  Cells(f, from, n) \in Seq(Cell) /\ Len(Cells(f, from, n)) = n
  <1>1. \A j \in 1 .. n : <<f, from + j>> \in Cell
    BY DEF Cell
  <1>2. QED
    BY <1>1, IsASeq DEF Cells

\* One of them.
LEMMA CellOfFile ==
    ASSUME NEW f, NEW from \in Nat, NEW n \in Nat, NEW j \in 1 .. n
    PROVE  Cells(f, from, n)[j] = <<f, from + j>>
  BY DEF Cells

-----------------------------------------------------------------------------
(* Files that were copied stay.                                            *)

\* All of the file of node k is in the image.
Whole(k) == \A i \in 1 .. nodes[k].size : At(nodes[k].offset + i - 1) = <<nodes[k].entry, i>>

\* A step that appends to the image and to the nodes, and after which every
\* node that must have its file in the image had it before or has it now.
LEMMA FilesKept ==
    ASSUME TypeInv, FilesIntact, NEW s \in Seq(Cell), image' = image \o s,
           \A k \in 1 .. Len(nodes') :
               \/ nodes'[k].dir \/ k \in changed' \/ Partial(k)'
               \/ /\ k \in 1 .. Len(nodes) /\ nodes'[k] = nodes[k]
                  /\ ~nodes[k].dir /\ k \notin changed /\ ~Partial(k)
               \/ Fits' => Whole(k)'
    PROVE  FilesIntact'
  <1>1. nodes \in Seq(Node) /\ image \in Seq(Cell)
    BY DEF TypeInv
  <1>2. Fits' => Fits
    BY <1>1, Appended
  <1> SUFFICES ASSUME Fits', NEW k \in 1 .. Len(nodes'),
                      ~nodes'[k].dir, k \notin changed', ~Partial(k)'
               PROVE  Whole(k)'
    BY DEF FilesIntact, Whole
  <1>3. CASE /\ k \in 1 .. Len(nodes) /\ nodes'[k] = nodes[k]
             /\ ~nodes[k].dir /\ k \notin changed /\ ~Partial(k)
    <2>1. nodes[k] \in Node
      BY <1>1, <1>3, ElementOfSeq
    <2> PICK nd : nd = nodes[k]
      OBVIOUS
    <2>2. nd.offset \in Nat /\ nd.size \in Nat
      BY <2>1 DEF Node
    <2> SUFFICES ASSUME NEW i \in 1 .. nd.size PROVE At(nd.offset + i - 1)' = <<nd.entry, i>>
      BY <1>3 DEF Whole
    <2>3. At(nd.offset + i - 1) = <<nd.entry, i>>
      BY <1>2, <1>3 DEF FilesIntact
    <2> PICK o : o = nd.offset + i - 1
      OBVIOUS
    <2>4. o \in Int /\ <<nd.entry, i>> # <<>>
      BY <2>2
    <2>5. QED
      BY <2>3, <2>4, <1>1, CellStays
  <1>4. QED
    BY <1>3

\* The same when nothing is written.
LEMMA FilesKeptUnwritten ==
    ASSUME TypeInv, FilesIntact, image' = image,
           \A k \in 1 .. Len(nodes') :
               \/ nodes'[k].dir \/ k \in changed' \/ Partial(k)'
               \/ /\ k \in 1 .. Len(nodes) /\ nodes'[k] = nodes[k]
                  /\ ~nodes[k].dir /\ k \notin changed /\ ~Partial(k)
    PROVE  FilesIntact'
  <1>1. image' = image \o <<>> /\ <<>> \in Seq(Cell)
    <2>1. image \in Seq(Cell)
      BY DEF TypeInv
    <2>2. image \o <<>> = image
      BY <2>1, ConcatEmptySeq
    <2>3. QED
      BY <2>2
  <1>2. QED
    BY <1>1, FilesKept

-----------------------------------------------------------------------------
(* Steps that change neither nodes nor image.                              *)

Kept == UNCHANGED <<tree, size, currOffset, nodes, allocated, pos, image, hdrbuf, changed>>

\* Every error, and a signal, leaves what was made so far without a header.
LEMMA FailKeepsInv ==
    ASSUME Inv, pc # "ended", pc' = "ended", result' \in {"FAILURE", "KILLED"},
           stack' = stack \/ stack' = <<>>, nextId' \in Nat, Kept, header' = header
    PROVE  Inv'
  <1>1. UNCHANGED <<tree, size, currOffset, nodes, allocated, pos, image, hdrbuf, changed>>
    BY DEF Kept
  <1>2. TypeInv' /\ SizeInv' /\ EndInv' /\ CountInv' /\ StartInv'
    BY <1>1 DEF Inv, TypeInv, SizeInv, EndInv, CountInv, StartInv
  <1>3. StackInv'
    <2>1. CASE stack' = stack
      BY <1>1, <2>1 DEF Inv, StackInv
    <2>2. CASE stack' = <<>>
      BY <1>1, <2>2 DEF StackInv
    <2>3. QED
      BY <2>1, <2>2
  <1>4. OffsetInv' /\ CopyInv' /\ IndexInv' /\ HeaderInv'
    BY DEF OffsetInv, CopyInv, IndexInv, HeaderInv
  <1>5. IndexSound'
    BY <1>1 DEF Inv, IndexSound
  <1>6. FilesIntact'
    <2>1. result = ""
      BY DEF Inv, EndInv
    <2>2. \A k \in 1 .. Len(nodes') : ~Partial(k)' => ~Partial(k)
      BY <1>1, <2>1 DEF Partial
    <2>3. QED
      BY <1>1, <2>2, FilesKeptUnwritten DEF Inv
  <1>7. HeaderLast'
    <2>1. header' = None
      BY DEF Inv, EndInv
    <2>2. QED
      BY <2>1 DEF HeaderLast
  <1>8. QED
    BY <1>2, <1>3, <1>4, <1>5, <1>6, <1>7 DEF Inv

\* An entry passed over, and the end of a directory: only the stack changes.
LEMMA StackKeepsInv ==
    ASSUME Inv, pc = "walk", pc' \in {"walk", "padding"}, result' = result, nextId' = nextId,
           Kept, header' = header, StackInv'
    PROVE  Inv'
  <1>1. UNCHANGED <<tree, size, currOffset, nodes, allocated, pos, image, hdrbuf, changed>>
    BY DEF Kept
  <1>2. TypeInv' /\ SizeInv' /\ EndInv' /\ CountInv' /\ StartInv'
    BY <1>1 DEF Inv, TypeInv, SizeInv, EndInv, CountInv, StartInv
  <1>3. OffsetInv'
    BY <1>1 DEF Inv, OffsetInv, Fits
  <1>4. CopyInv' /\ IndexInv' /\ HeaderInv'
    BY DEF CopyInv, IndexInv, HeaderInv
  <1>5. IndexSound'
    BY <1>1 DEF Inv, IndexSound
  <1>6. FilesIntact'
    <2>1. result = ""
      BY DEF Inv, EndInv
    <2>2. \A k \in 1 .. Len(nodes') : ~Partial(k)' => ~Partial(k)
      BY <1>1, <2>1 DEF Partial
    <2>3. QED
      BY <1>1, <2>2, FilesKeptUnwritten DEF Inv
  <1>7. HeaderLast'
    <2>1. header' = None /\ result' = ""
      BY DEF Inv, EndInv
    <2>2. QED
      BY <2>1 DEF HeaderLast
  <1>8. QED
    BY <1>2, <1>3, <1>4, <1>5, <1>6, <1>7 DEF Inv

\* The directory that is being read.
LEMMA TopFacts ==
    ASSUME Inv, pc \in {"walk", "copy"}
    PROVE  /\ stack # <<>> /\ Len(stack) \in 1 .. Len(stack) /\ Len(stack) >= 1
           /\ Top \in [id : Nat, rest : SUBSET DOMAIN tree.kind]
           /\ Top.id \in Nat /\ Top.id < Len(nodes) /\ nodes[Top.id + 1].dir
           /\ Top.rest \subseteq DOMAIN tree.kind
  <1>1. stack # <<>> /\ stack \in Seq([id : Nat, rest : SUBSET DOMAIN tree.kind])
    BY DEF Inv, StackInv
  <1>2. Len(stack) \in 1 .. Len(stack) /\ Len(stack) >= 1
    BY <1>1
  <1>3. Top \in [id : Nat, rest : SUBSET DOMAIN tree.kind]
    BY <1>1, <1>2, ElementOfSeq DEF Top
  <1>4. QED
    BY <1>1, <1>2, <1>3 DEF Inv, StackInv, Top

\* The entry e is passed over: the stack with one entry less.
LEMMA WithoutFacts ==
    ASSUME Inv, pc \in {"walk", "copy"}, NEW e
    PROVE  /\ Without(e) \in Seq([id : Nat, rest : SUBSET DOMAIN tree.kind])
           /\ Len(Without(e)) = Len(stack) /\ Without(e) # <<>>
           /\ \A i \in 1 .. Len(stack) : Without(e)[i].id = stack[i].id
  <1> PICK R, st, n : /\ R = [id : Nat, rest : SUBSET DOMAIN tree.kind] /\ st = stack
                      /\ n = Len(stack)
    OBVIOUS
  <1>1. st \in Seq(R) /\ n \in 1 .. Len(st)
    BY TopFacts DEF Inv, StackInv
  <1>2. st[n] \in [id : Nat, rest : SUBSET DOMAIN tree.kind]
    BY TopFacts DEF Top
  <1>3. [st[n] EXCEPT !.rest = @ \ {e}] \in R
    BY <1>2
  <1> PICK x : x = [st[n] EXCEPT !.rest = @ \ {e}]
    OBVIOUS
  <1>4. x.id = st[n].id
    BY <1>2
  <1>5. Without(e) = [st EXCEPT ![n] = x]
    BY DEF Without
  <1>6. [st EXCEPT ![n] = x] \in Seq(R) /\ Len([st EXCEPT ![n] = x]) = Len(st)
    BY <1>1, <1>3, ExceptSeq
  <1>7. \A i \in 1 .. Len(st) : [st EXCEPT ![n] = x][i].id = st[i].id
    BY <1>1, <1>4
  <1>8. Len(st) # 0
    BY <1>1
  <1>9. QED
    BY <1>5, <1>6, <1>7, <1>8

-----------------------------------------------------------------------------
(* A node is added.                                                        *)

\* A number modulo another one is not larger than either.
LEMMA ModFacts ==
    ASSUME NEW n \in Nat, NEW m \in Nat, m > 0
    PROVE  n % m \in Nat /\ n % m < m /\ n % m <= n /\ (n < m => n % m = n)
  <1>1. n % m \in Nat /\ n % m < m
    OBVIOUS
  <1>2. n < m => n % m = n
    OBVIOUS
  <1>3. QED
    BY <1>1, <1>2

\* What node_alloc does to the array.
LEMMA AllocFacts ==
    ASSUME TypeInv, NEW nd \in Node, node_alloc(nd)
    PROVE  /\ nodes' \in Seq(Node) /\ Len(nodes) \in Nat /\ Len(nodes') = Len(nodes) + 1
           /\ nodes' # <<>> /\ nodes'[Len(nodes) + 1] = nd
           /\ \A k \in 1 .. Len(nodes) : nodes'[k] = nodes[k]
           /\ allocated' \in Nat
           /\ Len(nodes) <= allocated => Len(nodes') <= allocated'
  <1>1. nodes \in Seq(Node) /\ allocated \in Nat /\ nodes' = Append(nodes, nd)
    BY DEF TypeInv, node_alloc
  <1>2. /\ nodes' \in Seq(Node) /\ Len(nodes) \in Nat /\ Len(nodes') = Len(nodes) + 1
        /\ nodes'[Len(nodes) + 1] = nd
        /\ \A k \in 1 .. Len(nodes) : nodes'[k] = nodes[k]
    BY <1>1, AppendProperties
  <1>3. allocated' = IF Len(nodes) + 1 >= allocated THEN allocated + Grow ELSE allocated
    BY DEF node_alloc
  <1>4. QED
    BY <1>1, <1>2, <1>3, ConstantFacts

\* What the steps that add a node do.
NewNode(nd) ==
    /\ node_alloc(nd) /\ pc \in {"start", "walk"} /\ nd.id = nextId /\ nextId' = nextId + 1
    /\ nodes # <<>> => nd.parentId \in Nat /\ nd.parentId < Len(nodes) /\ nodes[nd.parentId + 1].dir
    /\ \/ pc' = "walk" /\ nd.dir /\ pos' = pos
       \/ /\ pc' = "copy" /\ ~nd.dir /\ pos' = 0
          /\ nd.entry \in DOMAIN size /\ nd.offset = currOffset /\ nd.size = size[nd.entry] % OffMod
    /\ UNCHANGED <<tree, size, currOffset, image, hdrbuf, header, changed, result>>
    /\ stack' \in Seq([id : Nat, rest : SUBSET DOMAIN tree.kind]) /\ stack' # <<>>
    /\ \A i \in 1 .. Len(stack') :
          \/ stack'[i].id < Len(nodes) /\ nodes[stack'[i].id + 1].dir
          \/ stack'[i].id = nextId /\ nd.dir

\* A new node keeps the index sound.
LEMMA NodeKeepsIndex ==
    ASSUME TypeInv, IndexSound, NEW nd \in Node, node_alloc(nd), nd.id = Len(nodes),
           nodes # <<>> => nd.parentId \in Nat /\ nd.parentId < Len(nodes) /\ nodes[nd.parentId + 1].dir
    PROVE  IndexSound'
  <1>1. /\ nodes' \in Seq(Node) /\ Len(nodes) \in Nat /\ Len(nodes') = Len(nodes) + 1
        /\ nodes' # <<>> /\ nodes'[Len(nodes) + 1] = nd
        /\ \A k \in 1 .. Len(nodes) : nodes'[k] = nodes[k]
        /\ Len(nodes) <= allocated => Len(nodes') <= allocated'
    BY AllocFacts
  <1>2. ASSUME NEW k \in 1 .. Len(nodes')
        PROVE  /\ nodes'[k].id = k - 1
               /\ k > 1 => nodes'[k].parentId \in 0 .. k - 2 /\ nodes'[nodes'[k].parentId + 1].dir
    <2>1. CASE k \in 1 .. Len(nodes)
      <3>1. /\ nodes[k].id = k - 1
            /\ k > 1 => nodes[k].parentId \in 0 .. k - 2 /\ nodes[nodes[k].parentId + 1].dir
        BY <2>1 DEF IndexSound
      <3>2. nodes'[k] = nodes[k]
        BY <2>1, <1>1
      <3>3. CASE k > 1
        <4>1. nodes[k].parentId + 1 \in 1 .. Len(nodes)
          BY <3>1, <3>3, <2>1
        <4>2. nodes'[nodes[k].parentId + 1] = nodes[nodes[k].parentId + 1]
          BY <4>1, <1>1
        <4>3. QED
          BY <3>1, <3>2, <3>3, <4>2
      <3>4. QED
        BY <3>1, <3>2, <3>3
    <2>2. CASE k = Len(nodes) + 1
      <3>1. nodes'[k] = nd /\ nodes'[k].id = k - 1
        BY <2>2, <1>1
      <3>2. CASE k > 1
        <4>1. nodes # <<>>
          BY <3>2, <2>2
        <4>2. nd.parentId \in 0 .. k - 2 /\ nd.parentId + 1 \in 1 .. Len(nodes)
          BY <4>1, <2>2, <1>1
        <4>3. nodes'[nd.parentId + 1] = nodes[nd.parentId + 1]
          BY <4>2, <1>1
        <4>4. QED
          BY <3>1, <4>1, <4>2, <4>3
      <3>3. QED
        BY <3>1, <3>2
    <2>3. QED
      BY <2>1, <2>2, <1>1
  <1>3. QED
    BY <1>1, <1>2 DEF IndexSound

\* A new node keeps the invariant.
LEMMA NodeKeepsInv ==
    ASSUME Inv, NEW nd \in Node, NewNode(nd)
    PROVE  Inv'
  <1>1. /\ nodes' \in Seq(Node) /\ Len(nodes) \in Nat /\ Len(nodes') = Len(nodes) + 1
        /\ nodes' # <<>> /\ nodes'[Len(nodes) + 1] = nd
        /\ \A k \in 1 .. Len(nodes) : nodes'[k] = nodes[k]
        /\ allocated' \in Nat
    BY AllocFacts DEF Inv, NewNode
  <1>2. pc \in {"start", "walk"} /\ nextId = Len(nodes) /\ result = "" /\ header = None /\ nd.id = Len(nodes)
    BY DEF Inv, CountInv, EndInv, NewNode
  <1>3. /\ UNCHANGED <<tree, size, currOffset, image, hdrbuf, header, changed, result>>
        /\ nextId' = nextId + 1 /\ pc' \in {"walk", "copy"} /\ (pos' = pos \/ pos' = 0)
    BY DEF NewNode
  <1>4. TypeInv'
    <2>1. TypeInv
      BY DEF Inv
    <2>2. nextId' \in Nat /\ pos' \in Nat
      <3>1. nextId \in Nat /\ pos \in Nat
        BY <2>1 DEF TypeInv
      <3>2. nextId' = nextId + 1 /\ (pos' = pos \/ pos' = 0)
        BY <1>3
      <3>3. QED
        BY <3>1, <3>2
    <2>3. pc' \in {"start", "walk", "copy", "padding", "index", "header", "close", "ended"}
      BY <1>3
    <2>4. QED
      BY <2>1, <2>2, <2>3, <1>1, <1>3 DEF TypeInv
  <1>5. SizeInv' /\ EndInv' /\ CountInv' /\ StartInv'
    BY <1>1, <1>2, <1>3 DEF Inv, SizeInv, EndInv, CountInv, StartInv
  <1>6. StackInv'
    <2>1. /\ stack' \in Seq([id : Nat, rest : SUBSET DOMAIN tree.kind]) /\ stack' # <<>>
          /\ \A i \in 1 .. Len(stack') :
                \/ stack'[i].id < Len(nodes) /\ nodes[stack'[i].id + 1].dir
                \/ stack'[i].id = nextId /\ nd.dir
      BY DEF NewNode
    <2>2. ASSUME NEW i \in 1 .. Len(stack') PROVE stack'[i].id < Len(nodes') /\ nodes'[stack'[i].id + 1].dir
      <3> PICK x : x = stack'[i].id
        OBVIOUS
      <3>1. x \in Nat
        <4>1. stack'[i] \in [id : Nat, rest : SUBSET DOMAIN tree.kind]
          BY <2>1, ElementOfSeq
        <4>2. QED
          BY <4>1
      <3>2. CASE x < Len(nodes) /\ nodes[x + 1].dir
        <4>1. x + 1 \in 1 .. Len(nodes)
          BY <3>1, <3>2, <1>1
        <4>2. QED
          BY <4>1, <3>1, <3>2, <1>1
      <3>3. CASE x = nextId /\ nd.dir
        <4>1. x = Len(nodes)
          BY <3>3, <1>2
        <4>2. x + 1 = Len(nodes) + 1 /\ x < Len(nodes')
          BY <4>1, <3>1, <1>1
        <4>3. nodes'[x + 1] = nd
          BY <4>2, <1>1
        <4>4. QED
          BY <4>2, <4>3, <3>3
      <3>4. QED
        BY <2>1, <3>2, <3>3
    <2>3. QED
      BY <1>3, <2>1, <2>2 DEF StackInv
  <1>7. OffsetInv'
    BY <1>2, <1>3 DEF Inv, OffsetInv, Fits
  <1>8. CopyInv'
    <2>1. CASE pc' = "walk"
      BY <2>1 DEF CopyInv
    <2>2. CASE pc' = "copy"
      <3>1. Last' = nd
        BY <1>1 DEF Last
      <3>2. /\ pos' = 0 /\ ~nd.dir /\ nd.entry \in DOMAIN size
            /\ nd.offset = currOffset /\ nd.size = size[nd.entry] % OffMod
        BY <2>2 DEF NewNode
      <3>3. size[nd.entry] \in Nat
        BY <3>2 DEF Inv, SizeInv
      <3>4. nd.size <= size[nd.entry]
        BY <3>2, <3>3, ConstantFacts, ModFacts
      <3>5. Fits' => nd.offset + pos' = HdrSz + Len(image')
        <4>1. image \in Seq(Cell)
          BY DEF Inv, TypeInv
        <4>2. Len(image) \in Nat
          BY <4>1
        <4>3. Fits' => nd.offset = HdrSz + Len(image')
          BY <1>2, <1>3, <3>2 DEF Inv, OffsetInv, Fits
        <4>4. QED
          BY <1>3, <3>2, <4>2, <4>3, ConstantFacts
      <3>6. 1 .. pos' = {}
        BY <3>2
      <3>7. QED
        BY <1>1, <1>3, <3>1, <3>2, <3>3, <3>4, <3>5, <3>6 DEF CopyInv
    <2>3. QED
      BY <1>3, <2>1, <2>2
  <1>9. IndexInv' /\ HeaderInv'
    BY <1>3 DEF IndexInv, HeaderInv
  <1>10. IndexSound'
    BY <1>2, NodeKeepsIndex DEF Inv, NewNode
  <1>11. FilesIntact'
    <2>1. \A k \in 1 .. Len(nodes) : ~Partial(k)
      BY <1>2 DEF Partial
    <2>2. ASSUME NEW k \in 1 .. Len(nodes'), k = Len(nodes) + 1 PROVE nodes'[k].dir \/ Partial(k)'
      BY <1>1, <2>2 DEF Partial, NewNode
    <2>3. \A k \in 1 .. Len(nodes') : k \in 1 .. Len(nodes) \/ k = Len(nodes) + 1
      BY <1>1
    <2>4. \A k \in 1 .. Len(nodes') :
              \/ nodes'[k].dir \/ k \in changed' \/ Partial(k)'
              \/ /\ k \in 1 .. Len(nodes) /\ nodes'[k] = nodes[k]
                 /\ ~nodes[k].dir /\ k \notin changed /\ ~Partial(k)
      BY <2>1, <2>2, <2>3, <1>1, <1>3
    <2>5. QED
      BY <2>4, <1>3, FilesKeptUnwritten DEF Inv
  <1>12. HeaderLast'
    BY <1>2, <1>3 DEF HeaderLast
  <1>13. QED
    BY <1>4, <1>5, <1>6, <1>7, <1>8, <1>9, <1>10, <1>11, <1>12 DEF Inv

\* The numbers of the calls in st are those of directories.
Calls(st) ==
    /\ st \in Seq([id : Nat, rest : SUBSET DOMAIN tree.kind])
    /\ \A i \in 1 .. Len(st) : st[i].id < Len(nodes) /\ nodes[st[i].id + 1].dir

\* processDir up to its loop keeps the invariant.
LEMMA ProcessDirKeepsInv ==
    ASSUME Inv, pc \in {"start", "walk"}, NEW d \in DOMAIN tree.kids, d \in DOMAIN tree.kind,
           NEW parent \in Int, NEW st, Calls(st),
           nodes # <<>> => parent \in Nat /\ parent < Len(nodes) /\ nodes[parent + 1].dir,
           processDir(d, parent, st),
           UNCHANGED <<tree, size, currOffset, pos, image, hdrbuf, header, changed>>
    PROVE  Inv'
  <1>1. nextId \in Nat /\ nextId = Len(nodes)
    BY DEF Inv, TypeInv, CountInv
  <1>2. CASE Fail /\ (nextId' = nextId \/ nextId' = nextId + 1) /\ UNCHANGED <<nodes, allocated>>
    <2>1. pc' = "ended" /\ result' = "FAILURE" /\ stack' = <<>> /\ nextId' \in Nat
      BY <1>1, <1>2 DEF Fail
    <2>2. QED
      BY <1>2, <2>1, FailKeepsInv DEF Kept
  <1>3. CASE /\ nextId' = nextId + 1 /\ node_alloc(DirNode(parent, d))
             /\ stack' = Append(st, [id |-> nextId, rest |-> tree.kids[d]])
             /\ pc' = "walk" /\ UNCHANGED <<result, faults>>
    <2> PICK nd : nd = DirNode(parent, d)
      OBVIOUS
    <2> PICK R, x : R = [id : Nat, rest : SUBSET DOMAIN tree.kind]
                    /\ x = [id |-> nextId, rest |-> tree.kids[d]]
      OBVIOUS
    <2>1. tree \in Trees /\ d \in Names /\ tree.kids[d] \subseteq DOMAIN tree.kind
      <3>1. tree \in Trees
        BY DEF Inv, TypeInv
      <3>2. QED
        BY <3>1, TreeFacts
    <2>2. nd \in Node /\ nd.id = nextId /\ nd.parentId = parent /\ nd.dir
      <3>1. tree.trim[d] \in Short
        BY <2>1, TrimmedIsShort
      <3>2. QED
        BY <1>1, <2>1, <3>1 DEF DirNode, Node
    <2>3. x \in R /\ x.id = nextId
      BY <1>1, <2>1
    <2>4. st \in Seq(R)
      BY DEF Calls
    <2>5. /\ stack' \in Seq(R) /\ Len(stack') = Len(st) + 1 /\ Len(st) \in Nat /\ stack' # <<>>
          /\ \A i \in 1 .. Len(st) : stack'[i] = st[i]
          /\ stack'[Len(st) + 1] = x
      BY <1>3, <2>3, <2>4, AppendProperties
    <2>6. \A i \in 1 .. Len(stack') :
             \/ stack'[i].id < Len(nodes) /\ nodes[stack'[i].id + 1].dir
             \/ stack'[i].id = nextId /\ nd.dir
      <3>1. \A i \in 1 .. Len(stack') : i \in 1 .. Len(st) \/ i = Len(st) + 1
        BY <2>5
      <3>2. QED
        BY <2>2, <2>3, <2>5, <3>1 DEF Calls
    <2>7. NewNode(nd)
      BY <1>3, <2>2, <2>5, <2>6 DEF NewNode
    <2>8. QED
      BY <2>2, <2>7, NodeKeepsInv
  <1>4. QED
    BY <1>2, <1>3 DEF processDir

\* main() up to the first call of processDir.
LEMMA StartKeepsInv ==
    ASSUME Inv, main_start
    PROVE  Inv'
  <1>1. pc = "start" /\ UNCHANGED <<tree, size, currOffset, pos, image, hdrbuf, header, changed>>
    BY DEF main_start
  <1>2. CASE Fail /\ UNCHANGED <<nextId, nodes, allocated>>
    <2>1. pc' = "ended" /\ result' = "FAILURE" /\ stack' = <<>> /\ nextId' \in Nat
      BY <1>2 DEF Fail, Inv, TypeInv
    <2>2. QED
      BY <1>1, <1>2, <2>1, FailKeepsInv DEF Kept
  <1>3. CASE processDir(tree.root, -1, <<>>)
    <2> PICK d : d = tree.root
      OBVIOUS
    <2>1. d \in DOMAIN tree.kids /\ d \in DOMAIN tree.kind
      BY TreeFacts DEF Inv, TypeInv
    <2>2. nodes = <<>>
      BY <1>1 DEF Inv, StartInv
    <2>3. Calls(<<>>)
      BY DEF Calls
    <2>4. -1 \in Int
      OBVIOUS
    <2>5. processDir(d, -1, <<>>)
      BY <1>3
    <2>6. QED
      BY <1>1, <2>1, <2>2, <2>3, <2>4, <2>5, ProcessDirKeepsInv
  <1>4. QED
    BY <1>2, <1>3 DEF main_start

\* The calls that are left when an entry was taken.
LEMMA WithoutCalls ==
    ASSUME Inv, pc = "walk", NEW e
    PROVE  Calls(Without(e)) /\ Without(e) # <<>>
  BY WithoutFacts DEF Inv, StackInv, Calls

\* An entry of a directory.
LEMMA EntryKeepsInv ==
    ASSUME Inv, NEW e \in Top.rest,
           \/ entry_unreadable(e) \/ entry_directory(e) \/ entry_file(e) \/ entry_other(e)
    PROVE  Inv'
  <1>1. pc = "walk"
    BY DEF entry_unreadable, entry_directory, entry_file, entry_other
  <1>2. /\ Top.id \in Nat /\ Top.id < Len(nodes) /\ nodes[Top.id + 1].dir
        /\ e \in DOMAIN tree.kind
    BY <1>1, TopFacts
  <1>3. Calls(Without(e)) /\ Without(e) # <<>>
    BY <1>1, WithoutCalls
  <1>4. tree \in Trees /\ nextId \in Nat /\ currOffset \in Nat
    BY DEF Inv, TypeInv
  <1>5. CASE entry_unreadable(e) \/ entry_other(e)
    <2>1. /\ pc' = "walk" /\ result' = result /\ nextId' = nextId /\ Kept /\ header' = header
          /\ stack' = Without(e) /\ tree' = tree /\ nodes' = nodes
      BY <1>1, <1>5 DEF entry_unreadable, entry_other, Kept
    <2>2. StackInv'
      BY <1>3, <2>1 DEF StackInv, Calls
    <2>3. QED
      BY <1>1, <2>1, <2>2, StackKeepsInv
  <1>6. CASE entry_directory(e)
    <2> PICK st, p : st = Without(e) /\ p = Top.id
      OBVIOUS
    <2>1. e \in DOMAIN tree.kids
      BY <1>2, <1>4, <1>6, TreeFacts DEF entry_directory
    <2>2. processDir(e, p, st) /\ UNCHANGED <<tree, size, currOffset, pos, image, hdrbuf, header, changed>>
      BY <1>6 DEF entry_directory
    <2>3. Calls(st) /\ p \in Int /\ p \in Nat /\ p < Len(nodes) /\ nodes[p + 1].dir
      BY <1>2, <1>3
    <2>4. QED
      BY <1>1, <1>2, <2>1, <2>2, <2>3, ProcessDirKeepsInv
  <1>7. CASE entry_file(e)
    <2>1. /\ tree.kind[e] = "file" /\ nextId' = nextId + 1
          /\ UNCHANGED <<tree, size, currOffset, image, hdrbuf, header, changed>>
      BY <1>7 DEF entry_file
    <2>2. CASE Fail /\ UNCHANGED <<nodes, allocated, pos>>
      <3>1. pc' = "ended" /\ result' = "FAILURE" /\ stack' = <<>> /\ nextId' \in Nat
        BY <1>4, <2>1, <2>2 DEF Fail
      <3>2. QED
        BY <1>1, <2>1, <2>2, <3>1, FailKeepsInv DEF Kept
    <2>3. CASE /\ node_alloc(FileNode(Top.id, e))
               /\ stack' = Without(e) /\ pc' = "copy" /\ pos' = 0
               /\ UNCHANGED <<result, faults>>
      <3> PICK nd : nd = FileNode(Top.id, e)
        OBVIOUS
      <3>1. e \in DOMAIN size /\ size[e] \in Nat /\ e \in Names
        BY <1>2, <1>4, <2>1, TreeFacts DEF Inv, SizeInv
      <3>2. size[e] % OffMod \in Nat
        BY <3>1, ConstantFacts, ModFacts
      <3>3. /\ nd \in Node /\ nd.id = nextId /\ nd.parentId = Top.id /\ ~nd.dir /\ nd.entry = e
            /\ nd.offset = currOffset /\ nd.size = size[nd.entry] % OffMod
        <4>1. tree.trim[e] \in Short
          BY <1>2, <1>4, TrimmedIsShort DEF Inv, TypeInv
        <4>2. QED
          BY <1>2, <1>4, <3>1, <3>2, <4>1 DEF FileNode, Node
      <3>4. NewNode(nd)
        BY <1>1, <1>2, <1>3, <2>1, <2>3, <3>1, <3>3 DEF NewNode, Calls
      <3>5. QED
        BY <3>3, <3>4, NodeKeepsInv
    <2>4. QED
      BY <1>7, <2>2, <2>3 DEF entry_file
  <1>8. QED
    BY <1>5, <1>6, <1>7

\* p is what is left of q without its last element.
Popped(p, q, S) ==
    /\ p \in Seq(S)
    /\ \A i \in 1 .. Len(p) : p[i] = q[i] /\ i \in 1 .. Len(q)
    /\ Len(q) # 1 => p # <<>>

\* What SubSeq leaves when it takes the last element off.
LEMMA PopFacts ==
    ASSUME NEW S, NEW q \in Seq(S), NEW n \in Nat, n + 1 = Len(q), NEW p, p = SubSeq(q, 1, n)
    PROVE  Popped(p, q, S)
  <1>1. p \in Seq(S) /\ Len(p) = n
    OBVIOUS
  <1>2. \A i \in 1 .. n : p[i] = q[i] /\ i \in 1 .. Len(q)
    OBVIOUS
  <1>3. p = <<>> => Len(p) = 0
    OBVIOUS
  <1>4. QED
    BY <1>1, <1>2, <1>3 DEF Popped

\* The end of a directory.
LEMMA LeaveKeepsInv ==
    ASSUME Inv, leave_directory
    PROVE  Inv'
  <1>1. /\ pc = "walk" /\ stack' = SubSeq(stack, 1, Len(stack) - 1)
        /\ pc' = IF Len(stack) = 1 THEN "padding" ELSE "walk"
        /\ result' = result /\ nextId' = nextId /\ Kept /\ header' = header
        /\ tree' = tree /\ nodes' = nodes
    BY DEF leave_directory, Kept
  <1> PICK R : R = [id : Nat, rest : SUBSET DOMAIN tree.kind]
    OBVIOUS
  <1>2. stack \in Seq(R) /\ stack # <<>>
    BY <1>1 DEF Inv, StackInv
  <1>3. Len(stack) \in Nat /\ Len(stack) >= 1
    BY <1>2
  <1>4. /\ stack' \in Seq(R)
        /\ \A i \in 1 .. Len(stack') : stack'[i] = stack[i] /\ i \in 1 .. Len(stack)
        /\ Len(stack) # 1 => stack' # <<>>
    <2> PICK q, n, p : q = stack /\ n = Len(stack) - 1 /\ p = stack'
      OBVIOUS
    <2>1. n \in Nat /\ n + 1 = Len(q) /\ q \in Seq(R)
      BY <1>2, <1>3
    <2>2. p = SubSeq(q, 1, n)
      BY <1>1
    <2>3. Popped(p, q, R)
      BY <2>1, <2>2, PopFacts
    <2>4. QED
      BY <2>3 DEF Popped
  <1>5. StackInv'
    <2>1. pc' = "walk" => stack' # <<>>
      BY <1>1, <1>4
    <2>2. \A i \in 1 .. Len(stack) : stack[i].id < Len(nodes) /\ nodes[stack[i].id + 1].dir
      BY DEF Inv, StackInv
    <2>3. pc' # "copy"
      BY <1>1
    <2>4. QED
      BY <1>1, <1>4, <2>1, <2>2, <2>3 DEF StackInv
  <1>6. QED
    BY <1>1, <1>5, StackKeepsInv

-----------------------------------------------------------------------------
(* A file is copied.                                                       *)

\* What a turn of the copying loop does that writes n cells.  The loop ends when
\* the file does, or at an error that is taken for its end.
Copies(n) ==
    /\ image' = image \o Cells(File, pos, n) /\ currOffset' = (currOffset + n) % OffMod
    /\ pos' = pos + n
    /\ \/ pc' = "walk" /\ changed' = changed \cup {Len(nodes)}
       \/ pc' = "copy" /\ changed' = changed /\ (Len(nodes) \notin changed => pos + n <= size[File])
       \/ pc' = "walk" /\ changed' = changed /\ (Len(nodes) \notin changed => pos + n = size[File])
    /\ UNCHANGED <<tree, size, result, stack, nextId, nodes, allocated, hdrbuf, header>>

\* The node of the file that is being copied.
LEMMA LastFacts ==
    ASSUME Inv, pc = "copy"
    PROVE  /\ Len(nodes) \in Nat /\ Len(nodes) >= 1 /\ Last \in Node /\ File = Last.entry
           /\ ~Last.dir /\ File \in DOMAIN size /\ size[File] \in Nat /\ File \in Names
           /\ Last.offset \in Nat /\ Last.size \in Nat
  <1>1. nodes \in Seq(Node) /\ nodes # <<>> /\ ~Last.dir /\ Last.entry \in DOMAIN size
    BY DEF Inv, TypeInv, CopyInv
  <1>2. Len(nodes) \in Nat /\ Len(nodes) >= 1
    BY <1>1
  <1>3. Last \in Node
    BY <1>1, <1>2, ElementOfSeq DEF Last
  <1>4. File = Last.entry
    BY DEF File, Last
  <1>5. Last.offset \in Nat /\ Last.size \in Nat /\ Last.entry \in Names
    BY <1>3 DEF Node
  <1>6. size[File] \in Nat
    BY <1>1, <1>4 DEF Inv, SizeInv
  <1>7. QED
    BY <1>1, <1>2, <1>3, <1>4, <1>5, <1>6

\* The cells of the file follow one another behind the node's offset.
Copied == /\ Last.offset + pos = HdrSz + Len(image)
          /\ \A i \in 1 .. pos : At(Last.offset + i - 1) = <<Last.entry, i>>

\* A turn of the copying loop appends the next cells of the file.
LEMMA CopyExtends ==
    ASSUME Inv, pc = "copy", NEW n \in Nat, Copies(n), Copied
    PROVE  Copied'
  <1> PICK s, nd, f, p : s = Cells(File, pos, n) /\ nd = Last /\ f = File /\ p = pos
    OBVIOUS
  <1>1. /\ Len(nodes) \in Nat /\ f = nd.entry /\ f \in Names /\ nd.offset \in Nat
    BY LastFacts
  <1>2. image \in Seq(Cell) /\ p \in Nat
    BY DEF Inv, TypeInv
  <1>3. image' = image \o s /\ pos' = p + n /\ nodes' = nodes /\ s = Cells(f, p, n)
    BY DEF Copies
  <1>4. s \in Seq(Cell) /\ Len(s) = n
    BY <1>1, <1>2, <1>3, CellsType
  <1>5. Last' = nd
    BY <1>3 DEF Last
  <1>6. Len(image') = Len(image) + n /\ Len(image) \in Nat
    BY <1>2, <1>3, <1>4, Appended
  <1>7. nd.offset + p = HdrSz + Len(image)
    BY DEF Copied
  <1>8. nd.offset + pos' = HdrSz + Len(image')
    <2>1. HdrSz \in Nat
      BY ConstantFacts
    <2> PICK a, l : a = nd.offset /\ l = Len(image)
      OBVIOUS
    <2>2. a \in Nat /\ l \in Nat /\ p \in Nat /\ a + p = HdrSz + l
      BY <1>1, <1>2, <1>6, <1>7
    <2>3. a + (p + n) = HdrSz + (l + n)
      BY <2>1, <2>2
    <2>4. QED
      BY <1>3, <1>6, <2>3
  <1>9. ASSUME NEW i \in 1 .. pos' PROVE At(nd.offset + i - 1)' = <<nd.entry, i>>
    <2> PICK o : o = nd.offset + i - 1
      OBVIOUS
    <2>1. o \in Int /\ i \in Nat
      BY <1>1
    <2>2. CASE i \in 1 .. p
      <3>1. At(o) = <<nd.entry, i>> /\ <<nd.entry, i>> # <<>>
        BY <2>2 DEF Copied
      <3>2. QED
        BY <1>2, <1>3, <1>4, <2>1, <3>1, CellStays
    <2>3. CASE i > p
      <3> PICK j : j = i - p
        OBVIOUS
      <3>1. j \in 1 .. n
        BY <1>2, <1>3, <2>3
      <3>2. o = HdrSz + Len(image) + j - 1 /\ p + j = i
        <4>a. PICK l, b : l = Len(image) /\ b = nd.offset
          OBVIOUS
        <4>1. l \in Nat /\ b \in Nat /\ HdrSz \in Nat /\ b + p = HdrSz + l /\ o = b + i - 1
          BY <4>a, <1>1, <1>6, <1>7, ConstantFacts
        <4>2. o = HdrSz + l + j - 1 /\ p + j = i
          BY <4>1, <1>2, <2>1
        <4>3. QED
          BY <4>2, <4>a
      <3>3. At(o)' = s[j]
        BY <1>2, <1>3, <1>4, <2>1, <3>1, <3>2, CellNew
      <3>4. s[j] = <<f, p + j>>
        <4>1. Cells(f, p, n)[j] = <<f, p + j>>
          BY <1>2, <3>1, CellOfFile
        <4>2. QED
          BY <4>1, <1>3
      <3>5. QED
        BY <1>1, <3>2, <3>3, <3>4
    <2>4. QED
      BY <1>2, <2>1, <2>2, <2>3
  <1>10. QED
    BY <1>5, <1>8, <1>9 DEF Copied

\* A turn of the copying loop keeps the invariant.
LEMMA CopyKeepsInv ==
    ASSUME Inv, pc = "copy", NEW n \in Nat, Copies(n)
    PROVE  Inv'
  <1>1. /\ Len(nodes) \in Nat /\ Len(nodes) >= 1 /\ Last \in Node /\ File = Last.entry
        /\ ~Last.dir /\ File \in DOMAIN size /\ size[File] \in Nat /\ File \in Names
        /\ Last.offset \in Nat /\ Last.size \in Nat
    BY LastFacts
  <1>2. /\ pos' = pos + n /\ currOffset' = (currOffset + n) % OffMod
        /\ pc' \in {"walk", "copy"}
        /\ UNCHANGED <<tree, size, result, stack, nextId, nodes, allocated, hdrbuf, header>>
    BY DEF Copies
  <1>3. TypeInv /\ image \in Seq(Cell) /\ pos \in Nat /\ currOffset \in Nat
    BY DEF Inv, TypeInv
  <1> PICK s : s = Cells(File, pos, n)
    OBVIOUS
  <1>4. image' = image \o s /\ s \in Seq(Cell) /\ Len(s) = n
    BY <1>1, <1>3, CellsType DEF Copies
  <1>5. image' \in Seq(Cell) /\ Len(image') = Len(image) + n /\ Len(image) \in Nat /\ (Fits' => Fits)
    BY <1>3, <1>4, Appended
  <1>6. currOffset' \in Nat /\ currOffset' < OffMod /\ pos' \in Nat
    BY <1>2, <1>3, ConstantFacts, ModFacts
  <1>7. TypeInv'
    BY <1>2, <1>3, <1>5, <1>6 DEF TypeInv
  <1>8. SizeInv' /\ EndInv' /\ CountInv' /\ StartInv' /\ StackInv'
    BY <1>2 DEF Inv, SizeInv, EndInv, CountInv, StartInv, StackInv
  <1>9. result = "" /\ header = None
    BY DEF Inv, EndInv
  <1>10. OffsetInv'
    <2> SUFFICES ASSUME Fits' PROVE currOffset' = HdrSz + Len(image')
      BY DEF OffsetInv
    <2>1. currOffset = HdrSz + Len(image)
      BY <1>5 DEF Inv, OffsetInv
    <2>2. currOffset + n = HdrSz + Len(image')
      BY <2>1, <1>5, ConstantFacts
    <2>3. currOffset + n < OffMod /\ currOffset + n \in Nat
      BY <2>2, <1>3 DEF Fits
    <2>4. QED
      BY <1>2, <2>2, <2>3, ConstantFacts, ModFacts
  <1>11. Last' = Last
    BY <1>2 DEF Last
  <1>12. Fits' => Copied'
    <2>1. Fits => Copied
      BY DEF Inv, CopyInv, Copied
    <2>2. QED
      BY <2>1, <1>5, CopyExtends
  <1>13. CopyInv'
    <2>1. pc' = "copy" => changed' = changed /\ (Len(nodes) \notin changed => pos' <= size[File])
      BY <1>2 DEF Copies
    <2>2. Len(nodes) \notin changed => Last.size <= size[File]
      BY <1>1 DEF Inv, CopyInv
    <2>3. nodes # <<>>
      BY <1>1
    <2>4. QED
      BY <1>1, <1>2, <1>11, <1>12, <2>1, <2>2, <2>3 DEF CopyInv, Copied
  <1>14. IndexInv' /\ HeaderInv'
    BY <1>2 DEF IndexInv, HeaderInv
  <1>15. IndexSound'
    BY <1>2 DEF Inv, IndexSound
  <1>16. FilesIntact'
    <2>1. ASSUME NEW k \in 1 .. Len(nodes), k = Len(nodes), k \notin changed', pc' = "walk", Fits'
          PROVE  Whole(k)'
      <3>1. pos' = size[File] /\ Last.size <= size[File]
        BY <1>1, <1>2, <2>1 DEF Inv, CopyInv, Copies
      <3>2. nodes'[k] = Last
        BY <1>2, <2>1 DEF Last
      <3> PICK nd, p : nd = Last /\ p = pos'
        OBVIOUS
      <3>3. \A i \in 1 .. p : At(nd.offset + i - 1)' = <<nd.entry, i>>
        BY <1>11, <1>12, <2>1 DEF Copied
      <3>4. nd.size <= p /\ nd.size \in Nat /\ p \in Nat
        BY <1>1, <1>6, <3>1
      <3>5. \A i \in 1 .. nd.size : i \in 1 .. p
        BY <3>4
      <3>6. \A i \in 1 .. nd.size : At(nd.offset + i - 1)' = <<nd.entry, i>>
        BY <3>3, <3>5
      <3>7. QED
        BY <3>2, <3>6 DEF Whole
    <2>2. changed \subseteq changed'
      BY DEF Copies
    <2>3. \A k \in 1 .. Len(nodes) : k # Len(nodes) => ~Partial(k)
      BY DEF Partial
    <2>4. \A k \in 1 .. Len(nodes) : k = Len(nodes) /\ pc' = "copy" => Partial(k)'
      BY <1>2 DEF Partial
    <2>5. \A k \in 1 .. Len(nodes') :
              \/ nodes'[k].dir \/ k \in changed' \/ Partial(k)'
              \/ /\ k \in 1 .. Len(nodes) /\ nodes'[k] = nodes[k]
                 /\ ~nodes[k].dir /\ k \notin changed /\ ~Partial(k)
              \/ Fits' => Whole(k)'
      BY <1>2, <2>1, <2>2, <2>3, <2>4
    <2>6. QED
      BY <1>3, <1>4, <2>5, FilesKept DEF Inv
  <1>17. HeaderLast'
    BY <1>2, <1>9 DEF HeaderLast
  <1>18. QED
    BY <1>7, <1>8, <1>10, <1>13, <1>14, <1>15, <1>16, <1>17 DEF Inv

\* What fread gives: as much as the buffer holds, or all that is left.
LEMMA ReadFacts ==
    ASSUME NEW sz \in Nat, NEW p \in Nat, NEW n, n = IF sz > p THEN MinOf(Chunk, sz - p) ELSE 0
    PROVE  /\ n \in Nat /\ n <= Chunk
           /\ p <= sz => p + n <= sz
           /\ p <= sz /\ n < Chunk => p + n = sz
  BY ConstantFacts DEF MinOf

\* One turn of the copying loop, with its errors.
LEMMA ChunkKeepsInv ==
    ASSUME Inv, copy_chunk
    PROVE  Inv'
  <1>1. pc = "copy"
    BY DEF copy_chunk
  <1>2. UNCHANGED <<tree, size, nextId, nodes, allocated, hdrbuf, header>>
    BY DEF copy_chunk
  <1> PICK sz, p : sz = size[File] /\ p = pos
    OBVIOUS
  <1> PICK n : n = IF sz > p THEN MinOf(Chunk, sz - p) ELSE 0
    OBVIOUS
  <1>3. sz \in Nat /\ p \in Nat
    BY <1>1, LastFacts DEF Inv, TypeInv
  <1>4. /\ n \in Nat /\ n <= Chunk
        /\ p <= sz => p + n <= sz
        /\ p <= sz /\ n < Chunk => p + n = sz
    BY <1>3, ReadFacts
  <1>5. Len(nodes) \notin changed => p <= sz
    BY <1>1, LastFacts DEF Inv, CopyInv
  <1>6. CASE /\ image' = image \o Cells(File, pos, n)
             /\ currOffset' = (currOffset + n) % OffMod /\ pos' = pos + n
             /\ pc' = IF n < Chunk THEN "walk" ELSE "copy"
             /\ UNCHANGED <<result, stack, faults, changed>>
    <2>1. Copies(n)
      BY <1>2, <1>4, <1>5, <1>6 DEF Copies
    <2>2. QED
      BY <1>1, <1>4, <2>1, CopyKeepsInv
  <1>7. CASE /\ Fault /\ pc' = "walk" /\ changed' = changed \cup {Len(nodes)}
             /\ \E k \in 0 .. n : /\ image' = image \o Cells(File, pos, k)
                                 /\ currOffset' = (currOffset + k) % OffMod /\ pos' = pos + k
             /\ UNCHANGED <<result, stack>>
    <2>1. PICK k \in 0 .. n : /\ image' = image \o Cells(File, pos, k)
                              /\ currOffset' = (currOffset + k) % OffMod /\ pos' = pos + k
      BY <1>7
    <2>2. Copies(k) /\ k \in Nat
      BY <1>2, <1>4, <1>7, <2>1 DEF Copies
    <2>3. QED
      BY <1>1, <2>2, CopyKeepsInv
  <1>8. CASE n > 0 /\ Fault /\ Fail /\ UNCHANGED <<image, currOffset, pos, changed>>
    <2>1. pc' = "ended" /\ result' = "FAILURE" /\ stack' = <<>> /\ nextId' \in Nat
      BY <1>2, <1>8 DEF Fail, Inv, TypeInv
    <2>2. QED
      BY <1>1, <1>2, <1>8, <2>1, FailKeepsInv DEF Kept
  <1>9. QED
    BY <1>6, <1>7, <1>8 DEF copy_chunk

\* Somebody changes the file that is being copied.
LEMMA ResizeKeepsInv ==
    ASSUME Inv, NEW f \in DOMAIN size, NEW n \in 0 .. MaxSize, resize(f, n)
    PROVE  Inv'
  <1>1. /\ pc = "copy" /\ f = File /\ size' = [size EXCEPT ![f] = n]
        /\ changed' = changed \cup {Len(nodes)}
        /\ UNCHANGED <<tree, pc, result, stack, nextId, currOffset, nodes, allocated, pos,
                       image, hdrbuf, header>>
    BY DEF resize, walkvars
  <1>2. n \in Nat
    BY ConstantFacts
  <1>3. DOMAIN size' = DOMAIN size
    BY <1>1
  <1>4. TypeInv' /\ EndInv' /\ CountInv' /\ StartInv' /\ StackInv'
    BY <1>1 DEF Inv, TypeInv, EndInv, CountInv, StartInv, StackInv
  <1>5. SizeInv'
    BY <1>1, <1>2, <1>3 DEF Inv, SizeInv
  <1>6. OffsetInv' /\ IndexInv' /\ HeaderInv' /\ IndexSound'
    BY <1>1 DEF Inv, OffsetInv, Fits, IndexInv, HeaderInv, IndexSound
  <1>7. CopyInv'
    <2>1. Len(nodes') \in changed' /\ Last' = Last
      BY <1>1 DEF Last
    <2>2. /\ nodes # <<>> /\ ~Last.dir /\ Last.entry \in DOMAIN size
          /\ Fits => Copied
      BY <1>1 DEF Inv, CopyInv, Copied
    <2>3. Copied <=> Copied'
      BY <1>1, <2>1 DEF Copied, At
    <2>4. Fits' <=> Fits
      BY <1>1 DEF Fits
    <2>5. Fits' => Copied'
      BY <2>2, <2>3, <2>4
    <2>6. QED
      BY <1>1, <1>3, <2>1, <2>2, <2>5 DEF CopyInv, Copied
  <1>8. FilesIntact'
    <2>1. \A k \in 1 .. Len(nodes) : Partial(k)' <=> Partial(k)
      BY <1>1 DEF Partial
    <2>2. QED
      BY <1>1, <2>1, FilesKeptUnwritten DEF Inv
  <1>9. HeaderLast'
    <2>1. header' = None /\ result' = ""
      BY <1>1 DEF Inv, EndInv
    <2>2. QED
      BY <2>1 DEF HeaderLast
  <1>10. QED
    BY <1>4, <1>5, <1>6, <1>7, <1>8, <1>9 DEF Inv

-----------------------------------------------------------------------------
(* Numbers.                                                                *)

\* q is the quotient and r the remainder.
Divided(a, n, q, r) == q \in Nat /\ r \in Nat /\ r < n /\ a = n * q + r

\* Quotient and remainder.
LEMMA Division ==
    ASSUME NEW a \in Nat, NEW n \in Nat, n > 0, NEW q, q = a \div n, NEW r, r = a % n
    PROVE  Divided(a, n, q, r)
  <1>1. r \in Nat /\ r < n
    OBVIOUS
  <1>2. a \div n \in Nat
    OBVIOUS
  <1>3. a = n * q + r
    OBVIOUS
  <1>4. QED
    BY <1>1, <1>2, <1>3 DEF Divided

\* They are the only ones.
LEMMA DivisionUnique ==
    ASSUME NEW q \in Nat, NEW n \in Nat, n > 0, NEW r \in Nat, r < n, NEW a \in Nat, a = n * q + r
    PROVE  a \div n = q /\ a % n = r
  OBVIOUS

\* There is no multiple of n between n * p and the next one.
LEMMA NextMultiple ==
    ASSUME NEW p \in Nat, NEW q \in Nat, NEW n \in Nat, n > 0, n * q < n * p + n
    PROVE  n * q <= n * p
  <1>1. CASE q >= p + 1
    <2>1. n * q >= n * (p + 1)
      BY <1>1
    <2>2. n * (p + 1) = n * p + n
      OBVIOUS
    <2>3. QED
      BY <2>1, <2>2
  <1>2. CASE q <= p
    BY <1>2
  <1>3. QED
    BY <1>1, <1>2

\* Rounding an offset up to the alignment.
LEMMA AlignFacts ==
    ASSUME NEW c \in Nat, c < OffMod, NEW x, x = AlignUp(c)
    PROVE  x \in Nat /\ c <= x /\ x <= OffMod /\ x % NodeSz = 0
  <1> PICK a, q, r, p, z : /\ a = c + NodeSz - 1 /\ q = a \div NodeSz /\ r = a % NodeSz
                           /\ p = OffMod \div NodeSz /\ z = OffMod % NodeSz
    OBVIOUS
  <1>1. NodeSz \in Nat /\ NodeSz > 0 /\ OffMod \in Nat /\ z = 0
    BY ConstantFacts
  <1>2. a \in Nat
    BY <1>1
  <1>3. q \in Nat /\ r \in Nat /\ r < NodeSz /\ a = NodeSz * q + r
    <2>1. Divided(a, NodeSz, q, r)
      BY <1>1, <1>2, Division
    <2>2. QED
      BY <2>1 DEF Divided
  <1>4. p \in Nat /\ OffMod = NodeSz * p + z
    <2>1. Divided(OffMod, NodeSz, p, z)
      BY <1>1, Division
    <2>2. QED
      BY <2>1 DEF Divided
  <1>5. x = NodeSz * q /\ NodeSz * q \in Nat
    BY <1>1, <1>3 DEF AlignUp
  <1>6. c <= NodeSz * q /\ NodeSz * q < c + NodeSz
    BY <1>1, <1>2, <1>3, <1>5
  <1>7. NodeSz * p = OffMod
    BY <1>1, <1>4
  <1>8. NodeSz * q <= NodeSz * p
    BY <1>1, <1>3, <1>4, <1>5, <1>6, <1>7, NextMultiple
  <1>9. x % NodeSz = 0
    <2>1. x \in Nat /\ x = NodeSz * q + 0
      BY <1>5
    <2>2. QED
      BY <1>1, <1>3, <2>1, DivisionUnique
  <1>10. QED
    BY <1>5, <1>6, <1>7, <1>8, <1>9

\* Where the index will be.
LEMMA IndexOffsetFacts ==
    ASSUME NEW c \in Nat, c < OffMod, NEW o, o = AlignUp(c) % OffMod, NEW m, m = (o - c) % OffMod
    PROVE  /\ o \in Nat /\ o < OffMod /\ o % NodeSz = 0 /\ m \in Nat
           /\ c > 0 /\ c + m < OffMod => c + m = o
  <1> PICK x : x = AlignUp(c)
    OBVIOUS
  <1>1. x \in Nat /\ c <= x /\ x <= OffMod /\ x % NodeSz = 0
    BY AlignFacts
  <1>2. OffMod \in Nat /\ OffMod > 0 /\ NodeSz \in Nat /\ NodeSz > 0
    BY ConstantFacts
  <1>3. CASE x < OffMod
    <2>1. o = x
      BY <1>1, <1>2, <1>3
    <2>2. m = x - c
      BY <1>1, <1>2, <1>3, <2>1
    <2>3. QED
      BY <1>1, <1>3, <2>1, <2>2
  <1>4. CASE x = OffMod
    <2>1. o = 0
      BY <1>2, <1>4
    <2>2. 0 % NodeSz = 0
      BY <1>2
    <2>3. m \in Nat /\ (c > 0 => m = OffMod - c)
      BY <1>2, <2>1
    <2>4. QED
      BY <1>2, <2>1, <2>2, <2>3
  <1>5. QED
    BY <1>1, <1>2, <1>3, <1>4

-----------------------------------------------------------------------------
(* Padding, index and header.                                              *)

\* What the steps of main() behind the walk do, apart from what they write.
Onward(s) ==
    /\ pc \in {"padding", "index", "header", "close"}
    /\ pc' \in {"index", "header", "close", "ended"}
    /\ image' = image \o s /\ s \in Seq(Cell)
    /\ UNCHANGED <<tree, size, stack, nextId, currOffset, nodes, allocated, pos, changed>>

\* Such a step disturbs only what is said about index and header.
LEMMA OnwardKeepsInv ==
    ASSUME Inv, NEW s, Onward(s), result' \in {"", "SUCCESS"}, hdrbuf' \in Header, header' \in Header,
           EndInv', IndexInv', HeaderInv', HeaderLast'
    PROVE  Inv'
  <1>1. /\ pc \in {"padding", "index", "header", "close"}
        /\ pc' \in {"index", "header", "close", "ended"}
        /\ image' = image \o s /\ s \in Seq(Cell)
        /\ UNCHANGED <<tree, size, stack, nextId, currOffset, nodes, allocated, pos, changed>>
    BY DEF Onward
  <1>2. TypeInv /\ image \in Seq(Cell) /\ result = ""
    BY <1>1 DEF Inv, TypeInv, EndInv
  <1>3. image' \in Seq(Cell)
    BY <1>1, <1>2, Appended
  <1>4. TypeInv'
    BY <1>1, <1>2, <1>3 DEF TypeInv
  <1>5. SizeInv' /\ StackInv' /\ CountInv' /\ StartInv'
    BY <1>1 DEF Inv, SizeInv, StackInv, CountInv, StartInv
  <1>6. OffsetInv' /\ CopyInv'
    BY <1>1 DEF OffsetInv, CopyInv
  <1>7. IndexSound'
    BY <1>1 DEF Inv, IndexSound
  <1>8. FilesIntact'
    <2>1. \A k \in 1 .. Len(nodes) : ~Partial(k)
      BY <1>1, <1>2 DEF Partial
    <2>2. \A k \in 1 .. Len(nodes') :
              \/ nodes'[k].dir \/ k \in changed' \/ Partial(k)'
              \/ /\ k \in 1 .. Len(nodes) /\ nodes'[k] = nodes[k]
                 /\ ~nodes[k].dir /\ k \notin changed /\ ~Partial(k)
              \/ Fits' => Whole(k)'
      BY <1>1, <2>1
    <2>3. QED
      BY <1>1, <1>2, <2>2, FilesKept DEF Inv
  <1>9. QED
    BY <1>4, <1>5, <1>6, <1>7, <1>8 DEF Inv

\* Writing fails, or writes the cells s.
LEMMA WrittenKeepsInv ==
    ASSUME Inv, pc \in {"padding", "index"}, NEW s \in Seq(Cell), NEW next \in {"index", "header"},
           Written(s, next), image' = image \o s /\ pc' = next => IndexInv'
    PROVE  Inv'
  <1>1. UNCHANGED <<tree, size, nextId, currOffset, nodes, allocated, pos, hdrbuf, header, changed>>
    BY DEF Written
  <1>2. CASE image' = image \o s /\ pc' = next /\ UNCHANGED <<result, stack, faults>>
    <2>1. Onward(s)
      BY <1>1, <1>2 DEF Onward
    <2>2. result = "" /\ header = None /\ hdrbuf \in Header /\ header \in Header
      BY DEF Inv, TypeInv, EndInv
    <2>3. EndInv' /\ HeaderInv' /\ HeaderLast'
      BY <1>1, <1>2, <2>2 DEF EndInv, HeaderInv, HeaderLast
    <2>4. IndexInv'
      BY <1>2
    <2>5. result' \in {"", "SUCCESS"} /\ hdrbuf' \in Header /\ header' \in Header
      BY <1>1, <1>2, <2>2
    <2>6. QED
      BY <2>1, <2>3, <2>4, <2>5, OnwardKeepsInv
  <1>3. CASE Fault /\ Fail /\ UNCHANGED image
    <2>1. pc' = "ended" /\ result' = "FAILURE" /\ stack' = <<>> /\ nextId' \in Nat
      BY <1>1, <1>3 DEF Fail, Inv, TypeInv
    <2>2. QED
      BY <1>1, <1>3, <2>1, FailKeepsInv DEF Kept
  <1>4. QED
    BY <1>2, <1>3 DEF Written

\* The padding brings the image to the offset of the index.
LEMMA PaddingKeepsInv ==
    ASSUME Inv, write_padding
    PROVE  Inv'
  <1> PICK c, o, m : /\ c = currOffset /\ o = AlignUp(c) % OffMod /\ m = (o - c) % OffMod
    OBVIOUS
  <1> PICK s : s = [i \in 1 .. m |-> <<"pad", i>>]
    OBVIOUS
  <1>1. pc = "padding" /\ Written(s, "index")
    BY DEF write_padding, indexOffset
  <1>2. c \in Nat /\ c < OffMod /\ image \in Seq(Cell)
    BY DEF Inv, TypeInv
  <1>3. /\ o \in Nat /\ o < OffMod /\ o % NodeSz = 0 /\ m \in Nat
        /\ c > 0 /\ c + m < OffMod => c + m = o
    BY <1>2, IndexOffsetFacts
  <1>4. s \in Seq(Cell) /\ Len(s) = m
    <2>1. \A i \in 1 .. m : <<"pad", i>> \in Cell
      BY <1>3 DEF Cell
    <2>2. QED
      BY <1>3, <2>1, IsASeq
  <1>5. ASSUME image' = image \o s, pc' = "index" PROVE IndexInv'
    <2>1. Len(image') = Len(image) + m /\ Len(image) \in Nat /\ (Fits' => Fits)
      BY <1>2, <1>4, <1>5, Appended
    <2>2. currOffset' = c
      BY <1>1 DEF Written
    <2>3. ASSUME Fits' PROVE HdrSz + Len(image') = o
      <3>1. c = HdrSz + Len(image)
        BY <1>1, <2>1, <2>3 DEF Inv, OffsetInv
      <3>2. HdrSz \in Nat /\ HdrSz > 0
        BY ConstantFacts
      <3>3. c + m = HdrSz + Len(image') /\ c > 0
        BY <2>1, <3>1, <3>2, <1>3
      <3>4. c + m < OffMod
        BY <3>3, <2>3 DEF Fits
      <3>5. QED
        BY <1>3, <3>3, <3>4
    <2>4. indexOffset' = o
      BY <2>2 DEF indexOffset, AlignUp
    <2>5. QED
      BY <1>5, <2>3, <2>4 DEF IndexInv
  <1>6. QED
    BY <1>1, <1>4, <1>5, WrittenKeepsInv

\* The index as it is written, cell by cell.
IndexCells == [i \in 1 .. NodeSz * Len(nodes) |->
                  <<nodes[((i - 1) \div NodeSz) + 1], (i - 1) % NodeSz>>]

\* Its length and type.
LEMMA IndexCellsType ==
    ASSUME nodes \in Seq(Node)
    PROVE  /\ IndexCells \in Seq(Cell) /\ Len(IndexCells) = NodeSz * Len(nodes)
           /\ NodeSz * Len(nodes) \in Nat
  <1> PICK L, m : L = Len(nodes) /\ m = NodeSz * L
    OBVIOUS
  <1>1. NodeSz \in Nat /\ NodeSz > 0 /\ L \in Nat
    BY ConstantFacts
  <1>2. m \in Nat
    BY <1>1
  <1>3. ASSUME NEW i \in 1 .. m
        PROVE  <<nodes[((i - 1) \div NodeSz) + 1], (i - 1) % NodeSz>> \in Cell
    <2> PICK a, q, r : a = i - 1 /\ q = a \div NodeSz /\ r = a % NodeSz
      OBVIOUS
    <2>1. a \in Nat /\ a < m
      BY <1>2
    <2>2. Divided(a, NodeSz, q, r)
      BY <1>1, <2>1, Division
    <2>3. q \in Nat /\ r \in Nat /\ NodeSz * q <= a
      <3>1. q \in Nat /\ r \in Nat /\ a = NodeSz * q + r
        BY <2>2 DEF Divided
      <3>2. NodeSz * q \in Nat
        BY <1>1, <3>1
      <3>3. QED
        BY <3>1, <3>2
    <2>4. NodeSz * q < NodeSz * L
      <3>1. NodeSz * q \in Nat
        BY <1>1, <2>3
      <3>2. QED
        BY <1>2, <2>1, <2>3, <3>1
    <2>5. q < L
      BY <1>1, <2>3, <2>4
    <2>6. q + 1 \in 1 .. Len(nodes)
      BY <1>1, <2>3, <2>5
    <2>7. nodes[q + 1] \in Node
      BY <2>6, ElementOfSeq
    <2>8. QED
      BY <2>3, <2>7 DEF Cell
  <1>4. IndexCells = [i \in 1 .. m |-> <<nodes[((i - 1) \div NodeSz) + 1], (i - 1) % NodeSz>>]
    BY DEF IndexCells
  <1>5. QED
    BY <1>2, <1>3, <1>4, IsASeq

\* The first cell of node k.
LEMMA FirstCell ==
    ASSUME nodes \in Seq(Node), NEW k \in 1 .. Len(nodes), NEW j, j = (k - 1) * NodeSz + 1
    PROVE  j \in 1 .. NodeSz * Len(nodes) /\ IndexCells[j] = <<nodes[k], 0>>
  <1> PICK L, q, a : L = Len(nodes) /\ q = k - 1 /\ a = NodeSz * q
    OBVIOUS
  <1>1. NodeSz \in Nat /\ NodeSz > 0 /\ L \in Nat
    BY ConstantFacts
  <1>2. q \in Nat /\ q + 1 = k /\ q + 1 <= L
    BY <1>1
  <1>3. a \in Nat /\ j = a + 1
    BY <1>1, <1>2
  <1>4. a \div NodeSz = q /\ a % NodeSz = 0
    <2>1. a = NodeSz * q + 0
      BY <1>3
    <2>2. QED
      BY <1>1, <1>2, <1>3, <2>1, DivisionUnique
  <1>5. a + NodeSz <= NodeSz * L
    <2>1. NodeSz * (q + 1) <= NodeSz * L
      BY <1>1, <1>2
    <2>2. NodeSz * (q + 1) = a + NodeSz
      BY <1>1, <1>2
    <2>3. QED
      BY <2>1, <2>2
  <1>6. j \in 1 .. NodeSz * L
    <2>1. NodeSz * L \in Nat
      BY <1>1
    <2>2. QED
      BY <1>1, <1>3, <1>5, <2>1
  <1>7. IndexCells[j] = <<nodes[(a \div NodeSz) + 1], a % NodeSz>>
    <2>1. j - 1 = a
      BY <1>3
    <2>2. QED
      BY <1>6, <2>1 DEF IndexCells
  <1>8. QED
    BY <1>2, <1>4, <1>6, <1>7

\* The index is written where the header will say.
LEMMA IndexKeepsInv ==
    ASSUME Inv, write_nodes_tree
    PROVE  Inv'
  <1> PICK s, m, o, nds : s = IndexCells /\ m = NodeSz * Len(nodes) /\ o = indexOffset /\ nds = nodes
    OBVIOUS
  <1>1. pc = "index" /\ Written(s, "header")
    BY DEF write_nodes_tree, IndexCells
  <1>2. nodes \in Seq(Node) /\ image \in Seq(Cell) /\ currOffset \in Nat /\ currOffset < OffMod
    BY DEF Inv, TypeInv
  <1>3. s \in Seq(Cell) /\ Len(s) = m /\ m \in Nat
    BY <1>2, IndexCellsType
  <1>4. ASSUME image' = image \o s, pc' = "header" PROVE IndexInv'
    <2>1. Len(image') = Len(image) + m /\ Len(image) \in Nat /\ (Fits' => Fits)
      BY <1>2, <1>3, <1>4, Appended
    <2>2. currOffset' = currOffset /\ nodes' = nds
      BY <1>1 DEF Written
    <2>3. indexOffset' = o /\ fileSize' = (o + m) % OffMod
      BY <2>2 DEF indexOffset, AlignUp, fileSize
    <2>4. HdrSz \in Nat /\ HdrSz > 0 /\ OffMod \in Nat /\ OffMod > 0 /\ NodeSz \in Nat
      BY ConstantFacts
    <2>5. ASSUME Fits'
          PROVE  /\ HdrSz + Len(image') = fileSize'
                 /\ \A k \in 1 .. Len(nds) : At(o + (k - 1) * NodeSz)' = <<nds[k], 0>>
      <3>1. HdrSz + Len(image) = o
        BY <1>1, <2>1, <2>5 DEF Inv, IndexInv
      <3>2. o + m = HdrSz + Len(image') /\ o + m \in Nat /\ o \in Nat
        BY <1>3, <2>1, <2>4, <3>1
      <3>3. o + m < OffMod
        BY <2>5, <3>2 DEF Fits
      <3>4. HdrSz + Len(image') = fileSize'
        BY <2>3, <2>4, <3>2, <3>3, ModFacts
      <3>5. ASSUME NEW k \in 1 .. Len(nds) PROVE At(o + (k - 1) * NodeSz)' = <<nds[k], 0>>
        <4> PICK j, x : j = (k - 1) * NodeSz + 1 /\ x = o + (k - 1) * NodeSz
          OBVIOUS
        <4>1. j \in 1 .. m /\ s[j] = <<nds[k], 0>>
          BY <1>2, FirstCell
        <4>2. x \in Int /\ x = HdrSz + Len(image) + j - 1
          BY <2>1, <2>4, <3>1, <3>2
        <4>3. At(x)' = s[j]
          BY <1>2, <1>3, <1>4, <4>1, <4>2, CellNew
        <4>4. QED
          BY <4>1, <4>3
      <3>6. QED
        BY <3>4, <3>5
    <2>6. QED
      BY <1>4, <2>2, <2>3, <2>5 DEF IndexInv
  <1>5. QED
    BY <1>1, <1>3, <1>4, WrittenKeepsInv

\* The header is made from the image that is there.
LEMMA HeaderKeepsInv ==
    ASSUME Inv, write_header
    PROVE  Inv'
  <1>1. /\ pc = "header"
        /\ UNCHANGED <<tree, size, nextId, currOffset, nodes, allocated, pos, image, header, changed>>
    BY DEF write_header
  <1> PICK o, fs, td, im, L : /\ o = indexOffset /\ fs = fileSize /\ td = (fs - HdrSz) % OffMod
                              /\ im = image /\ L = Len(nodes)
    OBVIOUS
  <1>2. CASE Fail /\ UNCHANGED hdrbuf
    <2>1. pc' = "ended" /\ result' = "FAILURE" /\ stack' = <<>> /\ nextId' \in Nat
      BY <1>1, <1>2 DEF Fail, Inv, TypeInv
    <2>2. QED
      BY <1>1, <1>2, <2>1, FailKeepsInv DEF Kept
  <1>3. CASE /\ td <= Len(im)
             /\ hdrbuf' = [size |-> fs, index |-> o, count |-> L, crc |-> SubSeq(im, 1, td)]
             /\ pc' = "close" /\ UNCHANGED <<result, stack, faults>>
    <2>1. /\ im \in Seq(Cell) /\ Len(im) \in Nat /\ L \in Nat
          /\ currOffset \in Nat /\ currOffset < OffMod
      <3>1. im \in Seq(Cell) /\ nodes \in Seq(Node) /\ currOffset \in Nat /\ currOffset < OffMod
        BY DEF Inv, TypeInv
      <3>2. QED
        BY <3>1
    <2>2. o \in Nat /\ o < OffMod /\ o % NodeSz = 0
      BY <2>1, IndexOffsetFacts DEF indexOffset
    <2>3. HdrSz \in Nat /\ HdrSz > 0 /\ OffMod \in Nat /\ OffMod > 0 /\ NodeSz \in Nat
      BY ConstantFacts
    <2>4. fs \in Nat /\ td \in Nat
      <3>1. NodeSz * L \in Nat
        BY <2>1, <2>3
      <3> PICK y : y = o + NodeSz * L
        OBVIOUS
      <3>2. y \in Nat /\ fs = y % OffMod
        BY <2>2, <3>1 DEF fileSize
      <3>3. fs \in Nat
        BY <2>3, <3>2
      <3>4. QED
        BY <2>3, <3>3
    <2>5. SubSeq(im, 1, td) \in Seq(Cell)
      BY <1>3, <2>1, <2>4
    <2>6. /\ hdrbuf' \in Header /\ hdrbuf'.size = fs /\ hdrbuf'.index = o
          /\ hdrbuf'.count = L /\ hdrbuf'.crc = SubSeq(im, 1, td)
      BY <1>3, <2>1, <2>2, <2>4, <2>5 DEF Header
    <2>7. hdrbuf' \notin {None, Lost}
      BY <2>4, <2>6, NoHeader
    <2>8. HeaderInv'
      <3>1. Fits' <=> Fits
        BY <1>1 DEF Fits
      <3>2. ASSUME Fits
            PROVE  /\ fs = HdrSz + Len(im) /\ SubSeq(im, 1, td) = im
                   /\ \A k \in 1 .. L : At(o + (k - 1) * NodeSz) = <<nodes[k], 0>>
        <4>1. /\ HdrSz + Len(im) = fs
              /\ \A k \in 1 .. L : At(o + (k - 1) * NodeSz) = <<nodes[k], 0>>
          BY <1>1, <3>2 DEF Inv, IndexInv
        <4>2. Len(im) < OffMod
          BY <2>1, <2>3, <3>2 DEF Fits
        <4>3. td = Len(im)
          <5>1. fs - HdrSz = Len(im)
            BY <2>1, <2>3, <2>4, <4>1
          <5>2. QED
            BY <2>1, <2>3, <4>2, <5>1, ModFacts
        <4>4. SubSeq(im, 1, Len(im)) = im
          BY <2>1, SubSeqFull
        <4>5. QED
          BY <4>1, <4>3, <4>4
      <3>3. \A x : At(x)' = At(x)
        BY <1>1 DEF At
      <3>4. QED
        BY <1>1, <2>2, <2>6, <2>7, <3>1, <3>2, <3>3 DEF HeaderInv
    <2>9. result = "" /\ header = None /\ header \in Header
      BY <1>1 DEF Inv, TypeInv, EndInv
    <2>10. EndInv' /\ IndexInv' /\ HeaderLast'
      BY <1>1, <1>3, <2>9 DEF EndInv, IndexInv, HeaderLast
    <2>11. Onward(<<>>)
      <3>1. image' = image \o <<>>
        BY <1>1, <2>1, ConcatEmptySeq
      <3>2. QED
        BY <1>1, <1>3, <3>1 DEF Onward
    <2>12. result' \in {"", "SUCCESS"} /\ header' \in Header
      BY <1>1, <1>3, <2>9
    <2>13. QED
      BY <2>6, <2>8, <2>10, <2>11, <2>12, OnwardKeepsInv
  <1>4. QED
    BY <1>2, <1>3 DEF write_header

\* fclose writes the header, or does not.
LEMMA EndKeepsInv ==
    ASSUME Inv, main_end
    PROVE  Inv'
  <1>1. /\ pc = "close" /\ pc' = "ended" /\ result' = "SUCCESS"
        /\ header' = hdrbuf \/ header' = Lost
        /\ UNCHANGED <<tree, size, stack, nextId, currOffset, nodes, allocated, pos, image,
                       hdrbuf, changed>>
    BY DEF main_end, walkvars
  <1>2. image \in Seq(Cell) /\ hdrbuf \in Header
    BY DEF Inv, TypeInv
  <1>3. Onward(<<>>)
    <2>1. image' = image \o <<>>
      BY <1>1, <1>2, ConcatEmptySeq
    <2>2. QED
      BY <1>1, <2>1 DEF Onward
  <1>4. header' \in Header /\ hdrbuf' \in Header /\ header' # None
    BY <1>1, <1>2, NoHeader DEF Inv, HeaderInv
  <1>5. EndInv' /\ IndexInv' /\ HeaderInv'
    BY <1>1 DEF EndInv, IndexInv, HeaderInv
  <1>6. HeaderLast'
    <2>1. CASE header' = Lost
      BY <1>1, <1>4, <2>1 DEF HeaderLast
    <2>2. CASE header' = hdrbuf
      <3>1. Fits' <=> Fits
        BY <1>1 DEF Fits
      <3>2. \A x : At(x)' = At(x)
        BY <1>1 DEF At
      <3>3. QED
        BY <1>1, <1>4, <2>2, <3>1, <3>2 DEF HeaderLast, HeaderInv, Inv
    <2>3. QED
      BY <1>1, <2>1, <2>2
  <1>7. QED
    BY <1>1, <1>3, <1>4, <1>5, <1>6, OnwardKeepsInv

-----------------------------------------------------------------------------
(* The invariant.                                                          *)

\* It holds before main() has done anything.
LEMMA InitInv ==
    Init => Inv
  <1> SUFFICES ASSUME Init PROVE Inv
    OBVIOUS
  <1>1. /\ tree \in Trees /\ size = tree.size
        /\ pc = "start" /\ result = "" /\ stack = <<>>
        /\ nextId = 0 /\ currOffset = HdrSz % OffMod /\ nodes = <<>> /\ allocated = 0 /\ pos = 0
        /\ image = <<>> /\ hdrbuf = None /\ header = None
    BY DEF Init
  <1>2. HdrSz \in Nat /\ OffMod \in Nat /\ OffMod > 0
    BY ConstantFacts
  <1>3. currOffset \in Nat /\ currOffset < OffMod /\ (HdrSz < OffMod => currOffset = HdrSz)
    BY <1>1, <1>2, ModFacts
  <1>4. Len(image) = 0 /\ Len(nodes) = 0 /\ Len(stack) = 0
    BY <1>1
  <1>5. TypeInv
    <2>1. hdrbuf \in Header /\ header \in Header
      BY <1>1, NoHeader
    <2>2. nodes \in Seq(Node) /\ image \in Seq(Cell)
      <3>1. nodes = <<>> /\ image = <<>>
        BY <1>1
      <3>2. QED
        BY <3>1
    <2>3. nextId \in Nat /\ allocated \in Nat /\ pos \in Nat
      BY <1>1
    <2>4. QED
      BY <1>1, <1>3, <2>1, <2>2, <2>3 DEF TypeInv
  <1>6. SizeInv
    BY <1>1, TreeFacts DEF SizeInv
  <1>7. EndInv /\ CountInv /\ StartInv
    BY <1>1, <1>4 DEF EndInv, CountInv, StartInv
  <1>8. StackInv
    <2>1. stack \in Seq([id : Nat, rest : SUBSET DOMAIN tree.kind])
      <3>1. stack = <<>>
        BY <1>1
      <3>2. QED
        BY <3>1
    <2>2. 1 .. Len(stack) = {}
      BY <1>4
    <2>3. QED
      BY <1>1, <2>1, <2>2 DEF StackInv
  <1>9. OffsetInv
    BY <1>2, <1>3, <1>4 DEF OffsetInv, Fits
  <1>10. CopyInv /\ IndexInv /\ HeaderInv
    BY <1>1 DEF CopyInv, IndexInv, HeaderInv
  <1>11. IndexSound /\ FilesIntact /\ HeaderLast
    <2>1. 1 .. Len(nodes) = {} /\ Len(nodes) <= allocated
      <3>1. Len(nodes) = 0 /\ allocated = 0
        BY <1>1, <1>4
      <3>2. QED
        BY <3>1
    <2>2. IndexSound
      BY <2>1 DEF IndexSound
    <2>3. FilesIntact
      BY <2>1 DEF FilesIntact
    <2>4. HeaderLast
      BY <1>1 DEF HeaderLast
    <2>5. QED
      BY <2>2, <2>3, <2>4
  <1>12. QED
    BY <1>5, <1>6, <1>7, <1>8, <1>9, <1>10, <1>11 DEF Inv

\* An entry's path cannot be made.
LEMMA NoPathKeepsInv ==
    ASSUME Inv, entry_nopath
    PROVE  Inv'
  <1>1. /\ pc = "walk" /\ Fail
        /\ UNCHANGED <<tree, size, nextId, currOffset, nodes, allocated, pos, image, hdrbuf,
                       header, changed>>
    BY DEF entry_nopath
  <1>2. pc' = "ended" /\ result' = "FAILURE" /\ stack' = <<>> /\ nextId' \in Nat
    BY <1>1 DEF Fail, Inv, TypeInv
  <1>3. QED
    BY <1>1, <1>2, FailKeepsInv DEF Kept

\* A signal ends the program.
LEMMA KillKeepsInv ==
    ASSUME Inv, kill
    PROVE  Inv'
  <1>1. /\ pc # "ended" /\ pc' = "ended" /\ result' = "KILLED"
        /\ UNCHANGED <<tree, size, stack, nextId, currOffset, nodes, allocated, pos, image, hdrbuf,
                       header, changed>>
    BY DEF kill, walkvars
  <1>2. nextId' \in Nat
    BY <1>1 DEF Inv, TypeInv
  <1>3. QED
    BY <1>1, <1>2, FailKeepsInv DEF Kept

\* Nothing the invariant is about changes.
LEMMA StutterKeepsInv ==
    ASSUME Inv, UNCHANGED vars
    PROVE  Inv'
  <1>1. UNCHANGED <<tree, size, pc, result, stack, nextId, currOffset, nodes, allocated, pos,
                    image, hdrbuf, header, changed>>
    BY DEF vars, walkvars
  <1>2. TypeInv' /\ SizeInv' /\ EndInv' /\ StackInv' /\ CountInv' /\ StartInv' /\ IndexSound'
    BY <1>1 DEF Inv, TypeInv, SizeInv, EndInv, StackInv, CountInv, StartInv, IndexSound
  <1>3. OffsetInv'
    BY <1>1 DEF Inv, OffsetInv, Fits
  <1>4. CopyInv'
    BY <1>1 DEF Inv, CopyInv, Fits, At, Last
  <1>5. IndexInv'
    BY <1>1 DEF Inv, IndexInv, Fits, At, indexOffset, fileSize, AlignUp
  <1>6. HeaderInv'
    BY <1>1 DEF Inv, HeaderInv, Fits, At
  <1>7. FilesIntact'
    BY <1>1 DEF Inv, FilesIntact, Fits, At, Partial
  <1>8. HeaderLast'
    BY <1>1 DEF Inv, HeaderLast, Fits, At
  <1>9. QED
    BY <1>2, <1>3, <1>4, <1>5, <1>6, <1>7, <1>8 DEF Inv

\* Every step keeps the invariant.
LEMMA NextKeepsInv ==
    Inv /\ [Next]_vars => Inv'
  <1> SUFFICES ASSUME Inv, [Next]_vars PROVE Inv'
    OBVIOUS
  <1>1. CASE main
    <2>1. CASE walk
      <3>1. CASE entry_nopath
        BY <3>1, NoPathKeepsInv
      <3>2. CASE leave_directory
        BY <3>2, LeaveKeepsInv
      <3>3. CASE copy_chunk
        BY <3>3, ChunkKeepsInv
      <3>4. CASE \E e \in Top.rest : \/ entry_unreadable(e) \/ entry_directory(e)
                                     \/ entry_file(e) \/ entry_other(e)
        BY <3>4, EntryKeepsInv
      <3>5. QED
        BY <2>1, <3>1, <3>2, <3>3, <3>4 DEF walk
    <2>2. CASE main_start
      BY <2>2, StartKeepsInv
    <2>3. CASE write_padding
      BY <2>3, PaddingKeepsInv
    <2>4. CASE write_nodes_tree
      BY <2>4, IndexKeepsInv
    <2>5. CASE write_header
      BY <2>5, HeaderKeepsInv
    <2>6. CASE main_end
      BY <2>6, EndKeepsInv
    <2>7. QED
      BY <1>1, <2>1, <2>2, <2>3, <2>4, <2>5, <2>6 DEF main
  <1>2. CASE kill
    BY <1>2, KillKeepsInv
  <1>3. CASE \E f \in DOMAIN size, n \in 0 .. MaxSize : resize(f, n)
    BY <1>3, ResizeKeepsInv
  <1>4. CASE UNCHANGED vars
    BY <1>4, StutterKeepsInv
  <1>5. QED
    BY <1>1, <1>2, <1>3, <1>4 DEF Next

\* The inductive invariant holds in every state mkrofs can reach.
THEOREM Invariance ==
    Spec => []Inv
  BY InitInv, NextKeepsInv, PTL DEF Spec

\* A reader may trust the index: node i is the i-th, its parent is a directory
\* that stands before it, and node_alloc has always made room, in the middle of
\* a walk that fails or is killed too.
THEOREM IndexStaysSound ==
    Spec => []IndexSound
  <1>1. Inv => IndexSound
    BY DEF Inv
  <1>2. QED
    BY <1>1, Invariance, PTL

\* Every file that was not changed while it was copied is in the image at its
\* node's offset, whatever happened to the files before it.
THEOREM FilesStayIntact ==
    Spec => []FilesIntact
  <1>1. Inv => FilesIntact
    BY DEF Inv
  <1>2. QED
    BY <1>1, Invariance, PTL

\* A header in the image file means that the image is whole: write_header comes
\* last, and no error or signal before fclose leaves one behind.
THEOREM HeaderComesLast ==
    Spec => []HeaderLast
  <1>1. Inv => HeaderLast
    BY DEF Inv
  <1>2. QED
    BY <1>1, Invariance, PTL

-----------------------------------------------------------------------------
(* The paths of the nodes.  Pathed has a function from nodes to paths that  *)
(* the recursive definition NodePath turns out to compute.                  *)

\* A path that begins at the root and goes from directory to entry.
TreePath(t, p) ==
    /\ p \in Seq(DOMAIN t.kind) /\ Len(p) >= 1 /\ p[1] = t.root
    /\ \A i \in 2 .. Len(p) : t.kind[p[i - 1]] = "dir" /\ p[i] \in t.kids[p[i - 1]]

KindOf(nd) == IF nd.dir THEN "dir" ELSE "file"

\* p is a path to what the node stands for, not too deep.
PathOf(t, nd, p) ==
    /\ TreePath(t, p) /\ p[Len(p)] = nd.entry /\ t.kind[nd.entry] = KindOf(nd)
    /\ nd.name = t.trim[nd.entry]
    /\ Len(p) <= DepthMax + 1 /\ (nd.dir => Len(p) <= DepthMax)

\* The path of node k is its parent's and its name.
Below(N, k, P) ==
    /\ N[k].parentId \in 0 .. k - 2
    /\ P[k] = Append(P[N[k].parentId + 1], N[k].entry)

\* Every beginning of a path of a node is the path of a node.
Closed(n, P, p) == \A i \in 1 .. Len(p) : \E j \in 1 .. n : P[j] = SubSeq(p, 1, i)

Pathed(t, N, P) ==
    /\ Len(N) > 0 /\ P \in [1 .. Len(N) -> Seq(DOMAIN t.kind)] /\ P[1] = <<t.root>>
    /\ \A k \in 1 .. Len(N) : PathOf(t, N[k], P[k]) /\ Closed(Len(N), P, P[k])
    /\ \A k \in 2 .. Len(N) : Below(N, k, P)
    /\ \A j, k \in 1 .. Len(N) : P[j] = P[k] => j = k

\* The call s of processDir is for a directory at depth s.
Depths(S, P) == \A s \in 1 .. Len(S) : Len(P[S[s].id + 1]) = s

\* The entry e of the directory with number i has a node; is still to be read.
IsMade(N, i, e) == \E j \in 2 .. Len(N) : N[j].parentId = i /\ N[j].entry = e
Waits(S, i, e)  == \E s \in 1 .. Len(S) : S[s].id = i /\ e \in S[s].rest

\* No entry of a directory is forgotten,
Seen(t, N, S, K) ==
    \A k \in 1 .. Len(N) : N[k].dir => \A e \in t.kids[N[k].entry] :
        t.kind[e] = "other" \/ <<k - 1, e>> \in K \/ IsMade(N, k - 1, e) \/ Waits(S, k - 1, e)

\* and none is taken twice.
Taken(N, K) ==
    K \subseteq Nat \X Names /\ \A x \in K : x[1] < Len(N) /\ ~IsMade(N, x[1], x[2])
Untaken(t, N, S, K) ==
    \A s \in 1 .. Len(S) : \A e \in S[s].rest :
        /\ e \in t.kids[N[S[s].id + 1].entry]
        /\ <<S[s].id, e>> \notin K /\ ~IsMade(N, S[s].id, e)

Walked(t, N, S, K) ==
    /\ \E P : Pathed(t, N, P) /\ Depths(S, P)
    /\ Seen(t, N, S, K) /\ Taken(N, K) /\ Untaken(t, N, S, K)

Live == result \in {"", "SUCCESS"}

TreeInv ==
    /\ pc = "start" => skipped = {} /\ stack = <<>>
    /\ Live /\ pc # "start" => Walked(tree, nodes, stack, skipped)
    /\ Live /\ pc \notin {"start", "walk", "copy"} => stack = <<>>

\* A sequence with an element added.
LEMMA Added ==
    ASSUME NEW S, NEW p \in Seq(S), NEW e \in S, NEW q, q = Append(p, e)
    PROVE  /\ q \in Seq(S) /\ Len(p) \in Nat /\ Len(q) = Len(p) + 1
           /\ \A i \in 1 .. Len(p) : q[i] = p[i]
           /\ q[Len(p) + 1] = e
  BY AppendProperties, LenProperties

\* A beginning of a sequence.
LEMMA Beginning ==
    ASSUME NEW S, NEW p \in Seq(S), NEW n \in 0 .. Len(p), NEW q, q = SubSeq(p, 1, n)
    PROVE  q \in Seq(S) /\ Len(q) = n /\ \A i \in 1 .. n : q[i] = p[i]
  <1>1. \A i \in 1 .. n : p[i] \in S
    BY ElementOfSeq, LenProperties
  <1>2. n \in Int /\ n >= 0 /\ 1 \in Int
    BY LenProperties
  <1>3. /\ SubSeq(p, 1, n) \in Seq(S)
        /\ Len(SubSeq(p, 1, n)) = IF 1 <= n THEN n - 1 + 1 ELSE 0
        /\ \A i \in 1 .. n - 1 + 1 : SubSeq(p, 1, n)[i] = p[1 + i - 1]
    BY <1>1, <1>2, SubSeqProperties
  <1>4. QED
    BY <1>2, <1>3

\* A beginning of a sequence with an element added is one of the sequence.
LEMMA BeginningOfAdded ==
    ASSUME NEW S, NEW p \in Seq(S), NEW e \in S, NEW i \in 0 .. Len(p), NEW q, q = Append(p, e)
    PROVE  SubSeq(q, 1, i) = SubSeq(p, 1, i)
  <1>1. /\ q \in Seq(S) /\ Len(p) \in Nat /\ Len(q) = Len(p) + 1
        /\ \A k \in 1 .. Len(p) : q[k] = p[k]
    BY Added
  <1>2. i \in 0 .. Len(q)
    BY <1>1
  <1> PICK a, b : a = SubSeq(q, 1, i) /\ b = SubSeq(p, 1, i)
    OBVIOUS
  <1>3. a \in Seq(S) /\ Len(a) = i /\ \A k \in 1 .. i : a[k] = q[k]
    BY <1>1, <1>2, Beginning
  <1>4. b \in Seq(S) /\ Len(b) = i /\ \A k \in 1 .. i : b[k] = p[k]
    BY Beginning
  <1>5. \A k \in 1 .. Len(a) : a[k] = b[k]
    BY <1>1, <1>3, <1>4
  <1>6. a = b
    BY <1>3, <1>4, <1>5, SeqEqual
  <1>7. QED
    BY <1>6

\* The longest beginning of a sequence is the sequence.
LEMMA WholeBeginning ==
    ASSUME NEW S, NEW p \in Seq(S)
    PROVE  SubSeq(p, 1, Len(p)) = p
  <1>1. Len(p) \in 0 .. Len(p) /\ Len(p) \in Nat
    BY LenProperties
  <1> PICK a : a = SubSeq(p, 1, Len(p))
    OBVIOUS
  <1>2. a \in Seq(S) /\ Len(a) = Len(p) /\ \A k \in 1 .. Len(p) : a[k] = p[k]
    BY <1>1, Beginning
  <1>3. a = p
    BY <1>2, SeqEqual
  <1>4. QED
    BY <1>3

\* A longer beginning is the shorter one and one element.
LEMMA NextBeginning ==
    ASSUME NEW S, NEW p \in Seq(S), NEW i \in 2 .. Len(p)
    PROVE  SubSeq(p, 1, i) = Append(SubSeq(p, 1, i - 1), p[i])
  <1>1. /\ i \in 0 .. Len(p) /\ i - 1 \in 0 .. Len(p) /\ i \in 1 .. Len(p) /\ i \in Nat
        /\ (i - 1) + 1 = i
    BY LenProperties
  <1> PICK a, b, c, x : a = SubSeq(p, 1, i) /\ b = SubSeq(p, 1, i - 1) /\ x = p[i] /\ c = Append(b, x)
    OBVIOUS
  <1>2. a \in Seq(S) /\ Len(a) = i /\ \A k \in 1 .. i : a[k] = p[k]
    BY <1>1, Beginning
  <1>3. b \in Seq(S) /\ Len(b) = i - 1 /\ \A k \in 1 .. i - 1 : b[k] = p[k]
    BY <1>1, Beginning
  <1>4. x \in S
    BY <1>1, ElementOfSeq
  <1>5. c \in Seq(S) /\ Len(c) = i /\ (\A k \in 1 .. i - 1 : c[k] = b[k]) /\ c[i] = x
    BY <1>1, <1>3, <1>4, Added
  <1>6. \A k \in 1 .. Len(a) : a[k] = c[k]
    BY <1>1, <1>2, <1>3, <1>5
  <1>7. a = c
    BY <1>2, <1>5, <1>6, SeqEqual
  <1>8. QED
    BY <1>7

\* A path to a directory, and one of its entries.
LEMMA PathGrows ==
    ASSUME NEW t \in Trees, NEW p, TreePath(t, p), t.kind[p[Len(p)]] = "dir",
           NEW e, e \in t.kids[p[Len(p)]], NEW q, q = Append(p, e)
    PROVE  /\ TreePath(t, q) /\ Len(q) = Len(p) + 1 /\ q[Len(q)] = e /\ e \in DOMAIN t.kind
           /\ Len(p) \in Nat /\ Len(p) >= 1
  <1> PICK S, n : S = DOMAIN t.kind /\ n = Len(p)
    OBVIOUS
  <1>1. /\ p \in Seq(S) /\ n >= 1 /\ p[1] = t.root /\ n \in Nat
        /\ \A i \in 2 .. n : t.kind[p[i - 1]] = "dir" /\ p[i] \in t.kids[p[i - 1]]
    BY LenProperties DEF TreePath
  <1>2. n \in 1 .. Len(p)
    BY <1>1
  <1>3. p[n] \in S
    BY <1>1, <1>2, ElementOfSeq
  <1>4. t.kids[p[n]] \subseteq S
    BY <1>3, TreeFacts
  <1>5. e \in S
    BY <1>4
  <1>6. q \in Seq(S) /\ Len(q) = n + 1 /\ (\A i \in 1 .. n : q[i] = p[i]) /\ q[n + 1] = e
    BY <1>1, <1>5, Added
  <1>7. ASSUME NEW i \in 2 .. n + 1 PROVE t.kind[q[i - 1]] = "dir" /\ q[i] \in t.kids[q[i - 1]]
    <2>1. i - 1 \in 1 .. n /\ q[i - 1] = p[i - 1]
      BY <1>1, <1>6
    <2>2. CASE i \in 2 .. n
      <3>1. i \in 1 .. n /\ q[i] = p[i]
        BY <2>2, <1>1, <1>6
      <3>2. QED
        BY <1>1, <2>1, <2>2, <3>1
    <2>3. CASE i = n + 1
      <3>1. i - 1 = n /\ q[i] = e
        BY <1>1, <1>6, <2>3
      <3>2. QED
        BY <2>1, <3>1
    <2>4. QED
      BY <1>1, <2>2, <2>3
  <1>8. q[1] = t.root /\ Len(q) >= 1 /\ q[Len(q)] = e
    BY <1>1, <1>6
  <1>9. TreePath(t, q)
    BY <1>6, <1>7, <1>8 DEF TreePath
  <1>10. QED
    BY <1>1, <1>5, <1>6, <1>8, <1>9

\* What a new node is: an entry, not taken yet, of a directory that has a node.
Fresh(t, N, nd, P) ==
    /\ nd \in Node /\ nd.parentId \in 0 .. Len(N) - 1 /\ N[nd.parentId + 1].dir
    /\ nd.entry \in t.kids[N[nd.parentId + 1].entry] /\ t.kind[nd.entry] = KindOf(nd)
    /\ nd.name = t.trim[nd.entry]
    /\ ~IsMade(N, nd.parentId, nd.entry)
    /\ nd.dir => Len(P[nd.parentId + 1]) < DepthMax

\* The paths with one more.
More(N, nd, P) == [k \in 1 .. Len(N) + 1 |-> IF k \in 1 .. Len(N) THEN P[k]
                                             ELSE Append(P[nd.parentId + 1], nd.entry)]

\* The path of a new node.
LEMMA NewPath ==
    ASSUME NEW t \in Trees, NEW N \in Seq(Node), NEW P, Pathed(t, N, P), NEW nd, Fresh(t, N, nd, P),
           NEW q, q = Append(P[nd.parentId + 1], nd.entry)
    PROVE  /\ PathOf(t, nd, q) /\ q \in Seq(DOMAIN t.kind) /\ nd.entry \in DOMAIN t.kind
           /\ nd.parentId + 1 \in 1 .. Len(N) /\ P[nd.parentId + 1] \in Seq(DOMAIN t.kind)
           /\ Len(q) = Len(P[nd.parentId + 1]) + 1 /\ Len(P[nd.parentId + 1]) \in Nat
           /\ Len(P[nd.parentId + 1]) >= 1
  <1>a. PICK a, p, e : a = nd.parentId + 1 /\ p = P[a] /\ e = nd.entry
    OBVIOUS
  <1>1. Len(N) \in Nat
    BY LenProperties
  <1>2. a \in 1 .. Len(N) /\ N[a].dir
    BY <1>1, <1>a DEF Fresh
  <1>3. PathOf(t, N[a], p)
    BY <1>2, <1>a DEF Pathed
  <1>4. TreePath(t, p) /\ p[Len(p)] = N[a].entry /\ t.kind[p[Len(p)]] = "dir" /\ Len(p) <= DepthMax
    BY <1>2, <1>3 DEF PathOf, KindOf
  <1>5. e \in t.kids[p[Len(p)]]
    BY <1>4, <1>a DEF Fresh
  <1>6. q = Append(p, e)
    BY <1>a
  <1>7. /\ TreePath(t, q) /\ Len(q) = Len(p) + 1 /\ q[Len(q)] = e /\ e \in DOMAIN t.kind
        /\ Len(p) \in Nat /\ Len(p) >= 1
    BY <1>4, <1>5, <1>6, PathGrows
  <1>8. /\ t.kind[nd.entry] = KindOf(nd) /\ (nd.dir => Len(p) < DepthMax) /\ e = nd.entry
        /\ nd.name = t.trim[nd.entry]
    BY <1>a DEF Fresh
  <1>9. Len(q) <= DepthMax + 1 /\ (nd.dir => Len(q) <= DepthMax)
    BY <1>4, <1>7, <1>8, ConstantFacts
  <1>10. PathOf(t, nd, q)
    BY <1>7, <1>8, <1>9 DEF PathOf
  <1>11. q \in Seq(DOMAIN t.kind) /\ p \in Seq(DOMAIN t.kind)
    BY <1>4, <1>7 DEF TreePath
  <1>12. QED
    BY <1>a, <1>2, <1>7, <1>10, <1>11

\* It is a new path.
LEMMA NewPathIsNew ==
    ASSUME NEW t \in Trees, NEW N \in Seq(Node), NEW P, Pathed(t, N, P), NEW nd, Fresh(t, N, nd, P),
           NEW j \in 1 .. Len(N)
    PROVE  P[j] # Append(P[nd.parentId + 1], nd.entry)
  <1> SUFFICES ASSUME P[j] = Append(P[nd.parentId + 1], nd.entry) PROVE FALSE
    OBVIOUS
  <1>a. PICK a, p, e, S : a = nd.parentId + 1 /\ p = P[a] /\ e = nd.entry /\ S = DOMAIN t.kind
    OBVIOUS
  <1>b. PICK q : q = Append(p, e)
    OBVIOUS
  <1>1. /\ e \in S /\ p \in Seq(S) /\ a \in 1 .. Len(N) /\ Len(q) = Len(p) + 1
        /\ Len(p) \in Nat /\ Len(p) >= 1
    BY <1>a, <1>b, NewPath
  <1>2. P[j] = q
    BY <1>a, <1>b
  <1>3. CASE j = 1
    <2>1. q = <<t.root>>
      BY <1>2, <1>3 DEF Pathed
    <2>2. Len(q) = 1
      BY <2>1
    <2>d. PICK n : n = Len(p)
      OBVIOUS
    <2>3. n \in Nat /\ n >= 1 /\ n + 1 = 1
      BY <1>1, <2>2, <2>d
    <2>4. QED
      BY <2>3
  <1>4. CASE j # 1
    <2>1. j \in 2 .. Len(N)
      BY <1>4, LenProperties
    <2>2. Below(N, j, P)
      BY <2>1 DEF Pathed
    <2>c. PICK b, f : b = N[j].parentId + 1 /\ f = N[j].entry
      OBVIOUS
    <2>3. b \in 1 .. Len(N) /\ P[j] = Append(P[b], f)
      BY <2>1, <2>2, <2>c, LenProperties DEF Below
    <2>4. P \in [1 .. Len(N) -> Seq(S)] /\ PathOf(t, N[j], P[j])
      BY <1>a DEF Pathed
    <2>5. P[b] \in Seq(S) /\ P[j] \in Seq(S)
      BY <2>3, <2>4
    <2>6. f \in S
      <3>1. P[j][Len(P[j])] = f /\ Len(P[j]) >= 1
        BY <2>4, <2>c DEF PathOf, TreePath
      <3>2. Len(P[j]) \in 1 .. Len(P[j])
        BY <2>5, <3>1, LenProperties
      <3>3. QED
        BY <2>5, <3>1, <3>2, ElementOfSeq
    <2>7. Append(p, e) = Append(P[b], f)
      BY <1>2, <1>b, <2>3
    <2>d. PICK r : r = P[b]
      OBVIOUS
    <2>e. r \in Seq(S) /\ Append(p, e) = Append(r, f)
      BY <2>5, <2>7, <2>d
    <2>8. p = P[b] /\ e = f
      <3>1. p = r /\ e = f
        BY <1>1, <2>6, <2>e, AppendInjective
      <3>2. QED
        BY <2>d, <3>1
    <2>9. a = b
      BY <1>1, <1>a, <2>3, <2>8 DEF Pathed
    <2>10. N[j].parentId = nd.parentId
      <3>1. N[j].parentId \in Int /\ nd.parentId \in Int
        BY <2>1, <2>2 DEF Below, Fresh
      <3>2. QED
        BY <2>9, <2>c, <1>a, <3>1
    <2>11. N[j].entry = nd.entry
      BY <2>8, <2>c, <1>a
    <2>12. QED
      BY <2>1, <2>10, <2>11 DEF Fresh, IsMade
  <1>5. QED
    BY <1>3, <1>4

\* Beginnings of paths, old and new.
LEMMA ClosedGrows ==
    ASSUME NEW n \in Nat, NEW P, NEW Q, \A k \in 1 .. n : Q[k] = P[k], NEW p, Closed(n, P, p)
    PROVE  Closed(n + 1, Q, p)
  <1> SUFFICES ASSUME NEW i \in 1 .. Len(p) PROVE \E j \in 1 .. n + 1 : Q[j] = SubSeq(p, 1, i)
    BY DEF Closed
  <1>1. PICK j \in 1 .. n : P[j] = SubSeq(p, 1, i)
    BY DEF Closed
  <1>2. j \in 1 .. n + 1 /\ Q[j] = P[j]
    OBVIOUS
  <1>3. QED
    BY <1>1, <1>2

\* The beginnings of the new path are those of its parent's, and itself.
LEMMA NewClosed ==
    ASSUME NEW S, NEW p \in Seq(S), NEW e \in S, NEW q, q = Append(p, e),
           NEW n \in Nat, NEW Q, Closed(n, Q, p), Q[n] = q, n > 0
    PROVE  Closed(n, Q, q)
  <1> SUFFICES ASSUME NEW i \in 1 .. Len(q) PROVE \E j \in 1 .. n : Q[j] = SubSeq(q, 1, i)
    BY DEF Closed
  <1>1. q \in Seq(S) /\ Len(p) \in Nat /\ Len(q) = Len(p) + 1
    BY Added
  <1>2. CASE i \in 1 .. Len(p)
    <2>1. i \in 0 .. Len(p)
      BY <1>1, <1>2
    <2>2. SubSeq(q, 1, i) = SubSeq(p, 1, i)
      BY <2>1, BeginningOfAdded
    <2>3. QED
      BY <1>2, <2>2 DEF Closed
  <1>3. CASE i = Len(q)
    <2>1. SubSeq(q, 1, i) = q
      BY <1>1, <1>3, WholeBeginning
    <2>2. n \in 1 .. n
      OBVIOUS
    <2>3. QED
      BY <2>1, <2>2
  <1>4. QED
    BY <1>1, <1>2, <1>3

\* A new node has a path of its own.
LEMMA NodePathed ==
    ASSUME NEW t \in Trees, NEW N \in Seq(Node), NEW P, Pathed(t, N, P), NEW nd, Fresh(t, N, nd, P),
           NEW M, M = Append(N, nd), NEW Q, Q = More(N, nd, P)
    PROVE  Pathed(t, M, Q)
  <1>a. PICK n, a, p, S, q : /\ n = Len(N) /\ a = nd.parentId + 1 /\ p = P[a] /\ S = DOMAIN t.kind
                             /\ q = Append(P[a], nd.entry)
    OBVIOUS
  <1>1. /\ M \in Seq(Node) /\ n \in Nat /\ n > 0 /\ Len(M) = n + 1 /\ M[n + 1] = nd
        /\ \A k \in 1 .. n : M[k] = N[k]
    <2>1. nd \in Node /\ Len(N) > 0
      BY DEF Fresh, Pathed
    <2>2. QED
      BY <1>a, <2>1, Added
  <1>2. /\ PathOf(t, nd, q) /\ q \in Seq(S) /\ nd.entry \in S /\ a \in 1 .. n /\ p \in Seq(S)
        /\ q = Append(p, nd.entry)
    BY <1>a, NewPath
  <1>3. DOMAIN Q = 1 .. n + 1 /\ (\A k \in 1 .. n : Q[k] = P[k]) /\ Q[n + 1] = q
    BY <1>1, <1>a DEF More
  <1>4. /\ P \in [1 .. n -> Seq(S)] /\ P[1] = <<t.root>>
        /\ \A k \in 1 .. n : PathOf(t, N[k], P[k]) /\ Closed(n, P, P[k])
        /\ \A k \in 2 .. n : Below(N, k, P)
        /\ \A j, k \in 1 .. n : P[j] = P[k] => j = k
    BY <1>a DEF Pathed
  <1>5. \A k \in 1 .. n + 1 : k \in 1 .. n \/ k = n + 1
    BY <1>1
  <1>6. Q \in [1 .. n + 1 -> Seq(S)]
    <2>1. ASSUME NEW k \in 1 .. n + 1 PROVE Q[k] \in Seq(S)
      <3>1. CASE k \in 1 .. n
        <4>1. P[k] \in Seq(S)
          BY <1>4, <3>1
        <4>2. QED
          BY <1>3, <3>1, <4>1
      <3>2. CASE k = n + 1
        BY <1>2, <1>3, <3>2
      <3>3. QED
        BY <1>5, <3>1, <3>2
    <2>2. Q = [k \in 1 .. n + 1 |-> Q[k]]
      BY <1>a DEF More
    <2>3. QED
      BY <2>1, <2>2
  <1>7. Q[1] = <<t.root>>
    BY <1>1, <1>3, <1>4
  <1>8. ASSUME NEW k \in 1 .. n + 1 PROVE PathOf(t, M[k], Q[k]) /\ Closed(n + 1, Q, Q[k])
    <2>1. CASE k \in 1 .. n
      <3>1. M[k] = N[k] /\ Q[k] = P[k] /\ PathOf(t, N[k], P[k]) /\ Closed(n, P, P[k])
        BY <1>1, <1>3, <1>4, <2>1
      <3>2. Closed(n + 1, Q, P[k])
        BY <1>1, <1>3, <3>1, ClosedGrows
      <3>3. QED
        BY <3>1, <3>2
    <2>2. CASE k = n + 1
      <3>1. Closed(n, P, p)
        BY <1>2, <1>4, <1>a
      <3>2. Closed(n + 1, Q, p)
        BY <1>1, <1>3, <3>1, ClosedGrows
      <3>c. PICK m, e : m = n + 1 /\ e = nd.entry
        OBVIOUS
      <3>3. m \in Nat /\ m > 0 /\ Q[m] = q /\ Closed(m, Q, p) /\ e \in S /\ q = Append(p, e)
        BY <1>1, <1>2, <1>3, <3>2, <3>c
      <3>4. Closed(m, Q, q)
        BY <1>2, <3>3, NewClosed
      <3>5. QED
        BY <1>1, <1>2, <1>3, <2>2, <3>4, <3>c
    <2>3. QED
      BY <1>5, <2>1, <2>2
  <1>9. ASSUME NEW k \in 2 .. n + 1 PROVE Below(M, k, Q)
    <2>1. CASE k \in 2 .. n
      <3>1. Below(N, k, P) /\ M[k] = N[k] /\ Q[k] = P[k]
        BY <1>1, <1>3, <1>4, <2>1
      <3>2. N[k].parentId + 1 \in 1 .. n
        BY <1>1, <2>1, <3>1 DEF Below
      <3>3. Q[N[k].parentId + 1] = P[N[k].parentId + 1]
        BY <1>3, <3>2
      <3>4. QED
        BY <3>1, <3>3 DEF Below
    <2>2. CASE k = n + 1
      <3>1. nd.parentId \in 0 .. k - 2
        BY <1>1, <1>a, <2>2 DEF Fresh
      <3>2. Q[a] = P[a]
        BY <1>2, <1>3
      <3>3. QED
        BY <1>1, <1>3, <1>a, <2>2, <3>1, <3>2 DEF Below
    <2>3. QED
      BY <1>1, <2>1, <2>2
  <1>10. \A k \in 1 .. n : P[k] # q
    BY <1>a, NewPathIsNew
  <1>11. \A j, k \in 1 .. n + 1 : Q[j] = Q[k] => j = k
    BY <1>3, <1>4, <1>5, <1>10
  <1>12. QED
    BY <1>1, <1>6, <1>7, <1>8, <1>9, <1>11, <1>a DEF Pathed

-----------------------------------------------------------------------------
(* The walk takes each entry once.                                         *)

\* The calls in S are for nodes of N.
Stacked(N, S) == Len(S) \in Nat /\ \A s \in 1 .. Len(S) : S[s].id \in Nat /\ S[s].id < Len(N)

\* The entry e was taken from the last call: R is what is left.
Took(S, R, e) ==
    /\ Len(R) = Len(S) /\ Len(S) \in Nat /\ Len(S) >= 1 /\ e \in S[Len(S)].rest
    /\ \A s \in 1 .. Len(S) : R[s].id = S[s].id
    /\ \A s \in 1 .. Len(S) : R[s].rest = IF s = Len(S) THEN S[s].rest \ {e} ELSE S[s].rest

\* No two calls are for the same directory.
LEMMA OneCall ==
    ASSUME NEW S, NEW P, Depths(S, P), NEW r \in 1 .. Len(S), NEW s \in 1 .. Len(S), S[r].id = S[s].id
    PROVE  r = s
  BY DEF Depths

\* What still waits: all but e.
LEMMA StillWaits ==
    ASSUME NEW S, NEW R, NEW e, Took(S, R, e), NEW i, NEW f, Waits(S, i, f)
    PROVE  Waits(R, i, f) \/ (i = S[Len(S)].id /\ f = e)
  <1>1. PICK s \in 1 .. Len(S) : S[s].id = i /\ f \in S[s].rest
    BY DEF Waits
  <1>2. /\ s \in 1 .. Len(R) /\ R[s].id = i
        /\ R[s].rest = IF s = Len(S) THEN S[s].rest \ {e} ELSE S[s].rest
    BY <1>1 DEF Took
  <1>3. CASE f \in R[s].rest
    BY <1>2, <1>3 DEF Waits
  <1>4. CASE f \notin R[s].rest
    BY <1>1, <1>2, <1>4
  <1>5. QED
    BY <1>3, <1>4

\* An entry that is left is another one than e, and was there before.
LEMMA LeftBehind ==
    ASSUME NEW S, NEW R, NEW e, Took(S, R, e), NEW P, Depths(S, P),
           NEW s \in 1 .. Len(R), NEW f, f \in R[s].rest
    PROVE  /\ s \in 1 .. Len(S) /\ R[s].id = S[s].id /\ f \in S[s].rest
           /\ S[s].id # S[Len(S)].id \/ f # e
  <1>a. Len(R) = Len(S) /\ Len(S) \in Nat /\ Len(S) >= 1
    BY DEF Took
  <1>b. s \in 1 .. Len(S) /\ Len(S) \in 1 .. Len(S)
    BY <1>a
  <1>1. /\ s \in 1 .. Len(S) /\ R[s].id = S[s].id /\ Len(S) \in 1 .. Len(S)
        /\ R[s].rest = IF s = Len(S) THEN S[s].rest \ {e} ELSE S[s].rest
    BY <1>b DEF Took
  <1>2. CASE s = Len(S)
    BY <1>1, <1>2
  <1>3. CASE s # Len(S)
    <2>1. S[s].id # S[Len(S)].id
      BY <1>1, <1>3, OneCall
    <2>2. QED
      BY <1>1, <1>3, <2>1
  <1>4. QED
    BY <1>2, <1>3

\* The depths stay.
LEMMA DepthsStay ==
    ASSUME NEW S, NEW R, NEW e, Took(S, R, e), NEW P, Depths(S, P)
    PROVE  Depths(R, P)
  BY DEF Took, Depths

\* An entry that is nothing for the image, or cannot be read: L are the ones
\* passed over with it.
LEMMA PassedOver ==
    ASSUME NEW t \in Trees, NEW N, NEW S, NEW K, Walked(t, N, S, K), Stacked(N, S),
           NEW e \in Names, NEW R, Took(S, R, e),
           NEW L, L = K \cup {<<S[Len(S)].id, e>>} \/ (L = K /\ t.kind[e] = "other")
    PROVE  Walked(t, N, R, L)
  <1>a. PICK i : i = S[Len(S)].id
    OBVIOUS
  <1>1. PICK P : Pathed(t, N, P) /\ Depths(S, P)
    BY DEF Walked
  <1>2. Depths(R, P)
    BY <1>1, DepthsStay
  <1>3. i \in Nat /\ i < Len(N) /\ Len(S) \in 1 .. Len(S) /\ e \in S[Len(S)].rest
    <2>1. Len(S) \in 1 .. Len(S) /\ e \in S[Len(S)].rest
      BY DEF Took
    <2>2. QED
      BY <1>a, <2>1 DEF Stacked
  <1>4. ~IsMade(N, i, e)
    BY <1>3, <1>a DEF Walked, Untaken
  <1>5. K \subseteq L /\ \A x \in L : x \in K \/ x = <<i, e>>
    BY <1>a
  <1>6. Seen(t, N, R, L)
    <2> SUFFICES ASSUME NEW k \in 1 .. Len(N), N[k].dir, NEW f \in t.kids[N[k].entry]
                 PROVE  \/ t.kind[f] = "other" \/ <<k - 1, f>> \in L \/ IsMade(N, k - 1, f)
                        \/ Waits(R, k - 1, f)
      BY DEF Seen
    <2>1. t.kind[f] = "other" \/ <<k - 1, f>> \in K \/ IsMade(N, k - 1, f) \/ Waits(S, k - 1, f)
      BY DEF Walked, Seen
    <2>2. CASE Waits(S, k - 1, f)
      <3>1. Waits(R, k - 1, f) \/ (k - 1 = i /\ f = e)
        BY <2>2, <1>a, StillWaits
      <3>2. t.kind[e] = "other" \/ <<i, e>> \in L
        BY <1>a
      <3>3. QED
        BY <3>1, <3>2
    <2>3. QED
      BY <2>1, <2>2, <1>5
  <1>7. Taken(N, L)
    <2>1. K \subseteq Nat \X Names /\ \A x \in K : x[1] < Len(N) /\ ~IsMade(N, x[1], x[2])
      BY DEF Walked, Taken
    <2>2. L \subseteq Nat \X Names
      BY <1>3, <1>5, <2>1
    <2>3. \A x \in L : x[1] < Len(N) /\ ~IsMade(N, x[1], x[2])
      BY <1>3, <1>4, <1>5, <2>1
    <2>4. QED
      BY <2>2, <2>3 DEF Taken
  <1>8. Untaken(t, N, R, L)
    <2> SUFFICES ASSUME NEW s \in 1 .. Len(R), NEW f \in R[s].rest
                 PROVE  /\ f \in t.kids[N[R[s].id + 1].entry]
                        /\ <<R[s].id, f>> \notin L /\ ~IsMade(N, R[s].id, f)
      BY DEF Untaken
    <2>1. /\ s \in 1 .. Len(S) /\ R[s].id = S[s].id /\ f \in S[s].rest
          /\ S[s].id # i \/ f # e
      BY <1>1, <1>a, LeftBehind
    <2>2. /\ f \in t.kids[N[S[s].id + 1].entry]
          /\ <<S[s].id, f>> \notin K /\ ~IsMade(N, S[s].id, f)
      BY <2>1 DEF Walked, Untaken
    <2>3. <<S[s].id, f>> # <<i, e>>
      BY <2>1
    <2>4. QED
      BY <1>5, <2>1, <2>2, <2>3
  <1>9. QED
    BY <1>1, <1>2, <1>6, <1>7, <1>8 DEF Walked

\* The end of a directory: nothing of it waits.
LEMMA WalkedLeaves ==
    ASSUME NEW t \in Trees, NEW N, NEW S, NEW K, Walked(t, N, S, K), Stacked(N, S),
           Len(S) >= 1, S[Len(S)].rest = {},
           NEW R, Len(R) = Len(S) - 1, \A s \in 1 .. Len(R) : R[s] = S[s]
    PROVE  Walked(t, N, R, K)
  <1>1. PICK P : Pathed(t, N, P) /\ Depths(S, P)
    BY DEF Walked
  <1>2. Len(S) \in Nat /\ \A s \in 1 .. Len(R) : s \in 1 .. Len(S)
    BY DEF Stacked
  <1>3. Depths(R, P)
    BY <1>1, <1>2 DEF Depths
  <1>4. ASSUME NEW i, NEW f, Waits(S, i, f) PROVE Waits(R, i, f)
    <2>1. PICK s \in 1 .. Len(S) : S[s].id = i /\ f \in S[s].rest
      BY <1>4 DEF Waits
    <2>2. s # Len(S)
      BY <2>1
    <2>3. s \in 1 .. Len(R)
      BY <1>2, <2>2
    <2>4. QED
      BY <2>1, <2>3 DEF Waits
  <1>5. Seen(t, N, R, K)
    BY <1>4 DEF Walked, Seen
  <1>6. Untaken(t, N, R, K)
    BY <1>2 DEF Walked, Untaken
  <1>7. QED
    BY <1>1, <1>3, <1>5, <1>6 DEF Walked

\* What has a node when one more is there.
LEMMA MadeGrows ==
    ASSUME NEW N \in Seq(Node), Len(N) > 0, NEW nd \in Node, NEW M, M = Append(N, nd), NEW i, NEW f
    PROVE  IsMade(M, i, f) <=> IsMade(N, i, f) \/ (i = nd.parentId /\ f = nd.entry)
  <1>1. /\ Len(N) \in Nat /\ Len(M) = Len(N) + 1 /\ M[Len(N) + 1] = nd
        /\ \A k \in 1 .. Len(N) : M[k] = N[k]
    BY Added
  <1>2. ASSUME IsMade(M, i, f) PROVE IsMade(N, i, f) \/ (i = nd.parentId /\ f = nd.entry)
    <2>1. PICK j \in 2 .. Len(M) : M[j].parentId = i /\ M[j].entry = f
      BY <1>2 DEF IsMade
    <2>2. CASE j = Len(N) + 1
      BY <1>1, <2>1, <2>2
    <2>3. CASE j # Len(N) + 1
      <3>1. j \in 2 .. Len(N) /\ M[j] = N[j]
        BY <1>1, <2>3
      <3>2. QED
        BY <2>1, <3>1 DEF IsMade
    <2>4. QED
      BY <2>2, <2>3
  <1>3. ASSUME IsMade(N, i, f) PROVE IsMade(M, i, f)
    <2>1. PICK j \in 2 .. Len(N) : N[j].parentId = i /\ N[j].entry = f
      BY <1>3 DEF IsMade
    <2>2. j \in 2 .. Len(M) /\ M[j] = N[j]
      BY <1>1
    <2>3. QED
      BY <2>1, <2>2 DEF IsMade
  <1>4. ASSUME i = nd.parentId, f = nd.entry PROVE IsMade(M, i, f)
    <2>1. Len(N) + 1 \in 2 .. Len(M)
      BY <1>1
    <2>2. QED
      BY <1>1, <1>4, <2>1 DEF IsMade
  <1>5. QED
    BY <1>2, <1>3, <1>4

\* The entry e of the directory that is read last becomes the node nd; R are the
\* calls that are left, and T the calls then, with one for a new directory.
Entered(t, N, S, e, nd, R, T) ==
    /\ N \in Seq(Node) /\ nd \in Node /\ Stacked(N, S) /\ Took(S, R, e)
    /\ nd.entry = e /\ nd.parentId = S[Len(S)].id /\ N[nd.parentId + 1].dir
    /\ t.kind[e] = KindOf(nd) /\ nd.name = t.trim[e]
    /\ \/ ~nd.dir /\ T = R
       \/ /\ nd.dir /\ Len(S) < DepthMax /\ Len(T) = Len(S) + 1
          /\ \A s \in 1 .. Len(S) : T[s] = R[s]
          /\ T[Len(S) + 1].id = Len(N) /\ T[Len(S) + 1].rest = t.kids[e]

\* The calls are the ones that are left, or the new one.
LEMMA CallsThen ==
    ASSUME NEW t, NEW N, NEW S, NEW e, NEW nd, NEW R, NEW T, Entered(t, N, S, e, nd, R, T),
           NEW s \in 1 .. Len(T)
    PROVE  \/ s \in 1 .. Len(R) /\ T[s] = R[s]
           \/ s = Len(S) + 1 /\ nd.dir /\ T[s].id = Len(N) /\ T[s].rest = t.kids[e]
  <1>1. Len(R) = Len(S) /\ Len(S) \in Nat
    BY DEF Entered, Took
  <1>2. CASE ~nd.dir /\ T = R
    BY <1>2
  <1>3. CASE /\ nd.dir /\ Len(T) = Len(S) + 1 /\ (\A r \in 1 .. Len(S) : T[r] = R[r])
             /\ T[Len(S) + 1].id = Len(N) /\ T[Len(S) + 1].rest = t.kids[e]
    <2>1. s \in 1 .. Len(S) \/ s = Len(S) + 1
      BY <1>1, <1>3
    <2>2. QED
      BY <1>1, <1>3, <2>1
  <1>4. QED
    BY <1>2, <1>3 DEF Entered

\* The entries that are left wait.
LEMMA WaitsThen ==
    ASSUME NEW t, NEW N, NEW S, NEW e, NEW nd, NEW R, NEW T, Entered(t, N, S, e, nd, R, T),
           NEW i, NEW f
    PROVE  /\ Waits(R, i, f) => Waits(T, i, f)
           /\ nd.dir /\ f \in t.kids[e] => Waits(T, Len(N), f)
  <1>1. Len(R) = Len(S) /\ Len(S) \in Nat
    BY DEF Entered, Took
  <1>2. CASE ~nd.dir /\ T = R
    BY <1>2
  <1>3. CASE /\ nd.dir /\ Len(T) = Len(S) + 1 /\ (\A r \in 1 .. Len(S) : T[r] = R[r])
             /\ T[Len(S) + 1].id = Len(N) /\ T[Len(S) + 1].rest = t.kids[e]
    <2>1. \A s \in 1 .. Len(R) : s \in 1 .. Len(T) /\ T[s] = R[s]
      BY <1>1, <1>3
    <2>2. Len(S) + 1 \in 1 .. Len(T)
      BY <1>1, <1>3
    <2>3. Waits(R, i, f) => Waits(T, i, f)
      BY <2>1 DEF Waits
    <2>4. f \in t.kids[e] => Waits(T, Len(N), f)
      BY <1>3, <2>2 DEF Waits
    <2>5. QED
      BY <2>3, <2>4
  <1>4. QED
    BY <1>2, <1>3 DEF Entered

\* The new node is one that Fresh says.
LEMMA EnteredFresh ==
    ASSUME NEW t \in Trees, NEW N, NEW S, NEW K, Walked(t, N, S, K), NEW e, NEW nd, NEW R, NEW T,
           Entered(t, N, S, e, nd, R, T), NEW P, Pathed(t, N, P), Depths(S, P)
    PROVE  /\ Fresh(t, N, nd, P) /\ nd.parentId \in Nat /\ nd.parentId < Len(N)
           /\ Len(P[nd.parentId + 1]) = Len(S)
           /\ <<nd.parentId, e>> \notin K
  <1>1. Len(S) \in 1 .. Len(S) /\ e \in S[Len(S)].rest
    BY DEF Entered, Took
  <1>2. nd.parentId = S[Len(S)].id /\ nd.parentId \in Nat /\ nd.parentId < Len(N)
    BY <1>1 DEF Entered, Stacked
  <1>3. Len(N) \in Nat
    BY LenProperties DEF Entered
  <1>4. nd.parentId \in 0 .. Len(N) - 1
    BY <1>2, <1>3
  <1>5. /\ e \in t.kids[N[nd.parentId + 1].entry] /\ <<nd.parentId, e>> \notin K
        /\ ~IsMade(N, nd.parentId, e)
    BY <1>1, <1>2 DEF Walked, Untaken
  <1>6. Len(P[nd.parentId + 1]) = Len(S)
    BY <1>1, <1>2 DEF Depths
  <1>7. /\ nd \in Node /\ N[nd.parentId + 1].dir /\ t.kind[nd.entry] = KindOf(nd) /\ nd.entry = e
        /\ nd.name = t.trim[nd.entry]
        /\ nd.dir => Len(S) < DepthMax
    BY DEF Entered
  <1>8. Fresh(t, N, nd, P)
    BY <1>4, <1>5, <1>6, <1>7 DEF Fresh
  <1>9. QED
    BY <1>2, <1>5, <1>6, <1>8

\* An entry that gets a node.
LEMMA WalkedGrows ==
    ASSUME NEW t \in Trees, NEW N, NEW S, NEW K, Walked(t, N, S, K), NEW e, NEW nd, NEW R, NEW T,
           Entered(t, N, S, e, nd, R, T), NEW M, M = Append(N, nd)
    PROVE  Walked(t, M, T, K)
  <1>1. PICK P : Pathed(t, N, P) /\ Depths(S, P)
    BY DEF Walked
  <1>2. /\ N \in Seq(Node) /\ nd \in Node /\ Took(S, R, e) /\ Stacked(N, S)
        /\ nd.entry = e /\ nd.parentId = S[Len(S)].id
    BY DEF Entered
  <1>a. PICK n, i : n = Len(N) /\ i = nd.parentId
    OBVIOUS
  <1>3. /\ n \in Nat /\ n > 0 /\ Len(M) = n + 1 /\ M[n + 1] = nd
        /\ \A k \in 1 .. n : M[k] = N[k]
    <2>1. Len(N) > 0
      BY <1>1 DEF Pathed
    <2>2. QED
      BY <1>2, <1>a, <2>1, Added
  <1>4. /\ Fresh(t, N, nd, P) /\ i \in Nat /\ i < n /\ Len(P[i + 1]) = Len(S) /\ <<i, e>> \notin K
    BY <1>1, <1>a, EnteredFresh
  <1>5. ASSUME NEW x, NEW f PROVE IsMade(M, x, f) <=> IsMade(N, x, f) \/ (x = i /\ f = e)
    <2>1. Len(N) > 0
      BY <1>3, <1>a
    <2>2. IsMade(M, x, f) <=> IsMade(N, x, f) \/ (x = nd.parentId /\ f = nd.entry)
      BY <1>2, <2>1, MadeGrows
    <2>3. QED
      BY <1>2, <1>a, <2>2
  <1>b. PICK Q : Q = More(N, nd, P)
    OBVIOUS
  <1>6. Pathed(t, M, Q)
    BY <1>1, <1>2, <1>4, <1>b, NodePathed
  <1>7. (\A k \in 1 .. n : Q[k] = P[k]) /\ Q[n + 1] = Append(P[i + 1], e)
    BY <1>2, <1>3, <1>a, <1>b DEF More
  <1>8. Depths(T, Q)
    <2> SUFFICES ASSUME NEW s \in 1 .. Len(T) PROVE Len(Q[T[s].id + 1]) = s
      BY DEF Depths
    <2>1. Len(S) \in Nat /\ Len(R) = Len(S)
      BY <1>2 DEF Took
    <2>2. CASE s \in 1 .. Len(R) /\ T[s] = R[s]
      <3>1. s \in 1 .. Len(S) /\ T[s].id = S[s].id /\ T[s].id \in Nat /\ T[s].id < n
        BY <1>2, <1>a, <2>1, <2>2 DEF Took, Stacked
      <3>2. Q[T[s].id + 1] = P[S[s].id + 1]
        BY <1>3, <1>7, <3>1
      <3>3. QED
        BY <1>1, <3>1, <3>2 DEF Depths
    <2>3. CASE s = Len(S) + 1 /\ T[s].id = Len(N)
      <3>1. Q[T[s].id + 1] = Append(P[i + 1], e)
        BY <1>7, <1>a, <2>3
      <3>2. Len(Append(P[i + 1], e)) = Len(P[i + 1]) + 1
        <4>b. PICK q : q = Append(P[nd.parentId + 1], nd.entry)
          OBVIOUS
        <4>1. Len(q) = Len(P[nd.parentId + 1]) + 1
          BY <1>1, <1>2, <1>4, <4>b, NewPath
        <4>2. QED
          BY <4>1, <4>b, <1>a, <1>2
      <3>3. QED
        BY <1>4, <2>1, <2>3, <3>1, <3>2
    <2>4. QED
      BY <2>2, <2>3, CallsThen
  <1>9. Seen(t, M, T, K)
    <2> SUFFICES ASSUME NEW k \in 1 .. Len(M), M[k].dir, NEW f \in t.kids[M[k].entry]
                 PROVE  \/ t.kind[f] = "other" \/ <<k - 1, f>> \in K \/ IsMade(M, k - 1, f)
                        \/ Waits(T, k - 1, f)
      BY DEF Seen
    <2>1. CASE k \in 1 .. n
      <3>1. M[k] = N[k] /\ k \in 1 .. Len(N)
        BY <1>3, <1>a, <2>1
      <3>2. t.kind[f] = "other" \/ <<k - 1, f>> \in K \/ IsMade(N, k - 1, f) \/ Waits(S, k - 1, f)
        BY <3>1 DEF Walked, Seen
      <3>3. CASE Waits(S, k - 1, f)
        <4>1. Waits(R, k - 1, f) \/ (k - 1 = i /\ f = e)
          BY <3>3, <1>2, <1>a, StillWaits
        <4>2. CASE Waits(R, k - 1, f)
          BY <4>2, WaitsThen
        <4>3. CASE k - 1 = i /\ f = e
          BY <4>3, <1>5
        <4>4. QED
          BY <4>1, <4>2, <4>3
      <3>4. CASE IsMade(N, k - 1, f)
        BY <3>4, <1>5
      <3>5. QED
        BY <3>2, <3>3, <3>4
    <2>2. CASE k = n + 1
      <3>1. M[k] = nd /\ nd.dir /\ f \in t.kids[e] /\ k - 1 = Len(N)
        BY <1>2, <1>3, <1>a, <2>2
      <3>2. Waits(T, Len(N), f)
        BY <3>1, WaitsThen
      <3>3. QED
        BY <3>1, <3>2
    <2>3. QED
      BY <1>3, <2>1, <2>2
  <1>10. Taken(M, K)
    <2>1. K \subseteq Nat \X Names /\ \A x \in K : x[1] < Len(N) /\ ~IsMade(N, x[1], x[2])
      BY DEF Walked, Taken
    <2>2. ASSUME NEW x \in K PROVE x[1] < Len(M) /\ ~IsMade(M, x[1], x[2])
      <3>1. x[1] \in Nat /\ x = <<x[1], x[2]>> /\ x[1] < Len(N) /\ ~IsMade(N, x[1], x[2])
        BY <2>1
      <3>2. ~(x[1] = i /\ x[2] = e)
        BY <3>1, <1>4
      <3>3. ~IsMade(M, x[1], x[2])
        BY <3>1, <3>2, <1>5
      <3>4. QED
        BY <3>1, <3>3, <1>3, <1>a
    <2>3. QED
      BY <2>1, <2>2 DEF Taken
  <1>11. Untaken(t, M, T, K)
    <2> SUFFICES ASSUME NEW s \in 1 .. Len(T), NEW f \in T[s].rest
                 PROVE  /\ f \in t.kids[M[T[s].id + 1].entry]
                        /\ <<T[s].id, f>> \notin K /\ ~IsMade(M, T[s].id, f)
      BY DEF Untaken
    <2>1. CASE s \in 1 .. Len(R) /\ T[s] = R[s]
      <3>1. f \in R[s].rest
        BY <2>1
      <3>2. /\ s \in 1 .. Len(S) /\ R[s].id = S[s].id /\ f \in S[s].rest
            /\ S[s].id # i \/ f # e
        BY <1>1, <1>2, <1>a, <2>1, <3>1, LeftBehind
      <3>3. /\ f \in t.kids[N[S[s].id + 1].entry]
            /\ <<S[s].id, f>> \notin K /\ ~IsMade(N, S[s].id, f)
        BY <3>2 DEF Walked, Untaken
      <3>4. S[s].id + 1 \in 1 .. n
        BY <1>2, <1>3, <1>a, <3>2 DEF Stacked
      <3>5. M[S[s].id + 1] = N[S[s].id + 1]
        BY <1>3, <3>4
      <3>6. ~IsMade(M, S[s].id, f)
        BY <1>5, <3>2, <3>3
      <3>7. QED
        BY <2>1, <3>2, <3>3, <3>5, <3>6
    <2>2. CASE s = Len(S) + 1 /\ nd.dir /\ T[s].id = Len(N) /\ T[s].rest = t.kids[e]
      <3>1. f \in t.kids[M[T[s].id + 1].entry]
        BY <1>2, <1>3, <1>a, <2>2
      <3>2. <<n, f>> \notin K
        <4>1. \A x \in K : x[1] < n
          BY <1>a DEF Walked, Taken
        <4>2. QED
          BY <4>1, <1>3
      <3>3. ~IsMade(M, n, f)
        <4> SUFFICES ASSUME NEW j \in 2 .. Len(M) PROVE M[j].parentId # n
          BY DEF IsMade
        <4>1. Below(M, j, Q)
          BY <1>6 DEF Pathed
        <4>2. M[j].parentId \in 0 .. j - 2
          BY <4>1 DEF Below
        <4>3. QED
          BY <4>2, <1>3
      <3>4. QED
        BY <3>1, <3>2, <3>3, <2>2, <1>a
    <2>3. \/ s \in 1 .. Len(R) /\ T[s] = R[s]
          \/ s = Len(S) + 1 /\ nd.dir /\ T[s].id = Len(N) /\ T[s].rest = t.kids[e]
      BY CallsThen
    <2>4. QED
      BY <2>1, <2>2, <2>3
  <1>12. QED
    BY <1>6, <1>8, <1>9, <1>10, <1>11 DEF Walked

\* The root alone.
LEMMA WalkedBegins ==
    ASSUME NEW t \in Trees, NEW nd \in Node, nd.entry = t.root, nd.name = t.trim[t.root],
           nd.dir, NEW M, M = Append(<<>>, nd),
           NEW S, Len(S) = 1, S[1].id = 0, S[1].rest = t.kids[t.root]
    PROVE  Walked(t, M, S, {})
  <1>1. Len(M) = 1 /\ M[1] = nd
    OBVIOUS
  <1>2. t.root \in DOMAIN t.kind /\ t.kind[t.root] = "dir"
    BY TreesAssumption, TreeFacts
  <1>a. PICK p, P : p = <<t.root>> /\ P = [k \in 1 .. 1 |-> p]
    OBVIOUS
  <1>3. p \in Seq(DOMAIN t.kind) /\ Len(p) = 1 /\ p[1] = t.root
    <2>c. PICK r, D : r = t.root /\ D = DOMAIN t.kind
      OBVIOUS
    <2>1. r \in D
      BY <1>2, <2>c
    <2>2. <<r>> \in Seq(D) /\ Len(<<r>>) = 1 /\ <<r>>[1] = r
      BY <2>1
    <2>3. QED
      BY <1>a, <2>c, <2>2
  <1>4. TreePath(t, p)
    BY <1>3 DEF TreePath
  <1>5. PathOf(t, nd, p)
    <2>1. DepthMax >= 1 /\ DepthMax \in Nat
      BY MkrofsAssumption
    <2>2. QED
      BY <1>2, <1>3, <1>4, <2>1 DEF PathOf, KindOf
  <1>6. P[1] = p
    BY <1>a
  <1>7. Closed(1, P, p)
    <2>1. SubSeq(p, 1, 1) = p
      BY <1>3, WholeBeginning
    <2>2. QED
      BY <1>3, <1>6, <2>1 DEF Closed
  <1>8. P \in [1 .. 1 -> Seq(DOMAIN t.kind)]
    BY <1>3, <1>a
  <1>9. \A k \in 1 .. 1 : k = 1
    OBVIOUS
  <1>10. Pathed(t, M, P)
    BY <1>1, <1>5, <1>6, <1>7, <1>8, <1>9, <1>a DEF Pathed
  <1>11. Depths(S, P)
    <2>1. ASSUME NEW s \in 1 .. Len(S) PROVE Len(P[S[s].id + 1]) = s
      <3>1. s = 1 /\ S[s].id + 1 = 1
        OBVIOUS
      <3>2. QED
        BY <1>3, <1>6, <3>1
    <2>2. QED
      BY <2>1 DEF Depths
  <1>12. ~\E j \in 2 .. Len(M) : TRUE
    BY <1>1
  <1>13. ASSUME NEW i, NEW f PROVE ~IsMade(M, i, f)
    BY <1>12 DEF IsMade
  <1>14. Seen(t, M, S, {})
    <2> SUFFICES ASSUME NEW k \in 1 .. Len(M), NEW e \in t.kids[M[k].entry] PROVE Waits(S, k - 1, e)
      BY DEF Seen
    <2>1. k = 1 /\ k - 1 = 0 /\ e \in S[1].rest /\ 1 \in 1 .. Len(S)
      BY <1>1
    <2>2. QED
      BY <2>1 DEF Waits
  <1>15. Taken(M, {})
    BY DEF Taken
  <1>16. Untaken(t, M, S, {})
    <2> SUFFICES ASSUME NEW s \in 1 .. Len(S), NEW e \in S[s].rest
                 PROVE  e \in t.kids[M[S[s].id + 1].entry]
      BY <1>13 DEF Untaken
    <2>1. s = 1 /\ S[s].id + 1 = 1
      OBVIOUS
    <2>2. QED
      BY <1>1, <2>1
  <1>17. QED
    BY <1>10, <1>11, <1>14, <1>15, <1>16 DEF Walked

-----------------------------------------------------------------------------
(* Every step keeps TreeInv.                                               *)

\* The stack after an entry was taken.
LEMMA WithoutTook ==
    ASSUME Inv, pc = "walk", NEW e \in Top.rest
    PROVE  Took(stack, Without(e), e) /\ Stacked(nodes, stack) /\ e \in Names
  <1>a. PICK st, n : st = stack /\ n = Len(stack)
    OBVIOUS
  <1>1. /\ n \in Nat /\ n >= 1 /\ n \in 1 .. n /\ e \in st[n].rest
        /\ st[n] \in [id : Nat, rest : SUBSET DOMAIN tree.kind]
        /\ e \in DOMAIN tree.kind
    BY TopFacts, LenProperties, <1>a DEF Top, Inv, StackInv
  <1>2. Len(Without(e)) = n /\ \A s \in 1 .. n : Without(e)[s].id = st[s].id
    BY WithoutFacts, <1>a
  <1>b. PICK x : x = [st[n] EXCEPT !.rest = @ \ {e}]
    OBVIOUS
  <1>3. x.rest = st[n].rest \ {e}
    BY <1>1, <1>b
  <1>4. Without(e) = [st EXCEPT ![n] = x]
    BY <1>a, <1>b DEF Without
  <1>5. DOMAIN st = 1 .. n
    BY <1>a, LenProperties DEF Inv, StackInv
  <1>6. \A s \in 1 .. n : Without(e)[s].rest = IF s = n THEN st[s].rest \ {e} ELSE st[s].rest
    BY <1>1, <1>3, <1>4, <1>5
  <1>7. Took(st, Without(e), e)
    BY <1>1, <1>2, <1>6, <1>a DEF Took
  <1>8. Stacked(nodes, stack)
    <2>1. \A s \in 1 .. Len(stack) : stack[s] \in [id : Nat, rest : SUBSET DOMAIN tree.kind]
      BY ElementOfSeq DEF Inv, StackInv
    <2>2. \A s \in 1 .. Len(stack) : stack[s].id \in Nat
      BY <2>1
    <2>3. QED
      BY <1>1, <1>a, <2>2 DEF Stacked, Inv, StackInv
  <1>9. e \in Names
    BY <1>1, TreeFacts DEF Inv, TypeInv
  <1>10. QED
    BY <1>7, <1>8, <1>9, <1>a

\* After an error or a signal nothing is promised.
LEMMA DeadTree ==
    ASSUME pc' = "ended", result' \in {"FAILURE", "KILLED"}
    PROVE  TreeInv'
  BY DEF TreeInv, Live

\* Steps that the walk does not meet.
LEMMA SameTree ==
    ASSUME Inv, TreeInv, Live, pc # "start", pc' # "start", UNCHANGED <<tree, nodes, stack, skipped>>,
           pc' \in {"walk", "copy"} \/ pc \notin {"walk", "copy"}
    PROVE  TreeInv'
  BY DEF TreeInv

\* A directory gets its node; st are the calls above it.
LEMMA DirectoryTree ==
    ASSUME Inv, TreeInv, pc = "walk", NEW e \in Top.rest, tree.kind[e] = "dir",
           NEW st, st = Without(e), NEW p, p = Top.id, processDir(e, p, st),
           UNCHANGED <<tree, skipped>>
    PROVE  TreeInv'
  <1>1. CASE Fail
    BY <1>1, DeadTree DEF Fail
  <1>2. CASE /\ Len(st) < DepthMax /\ node_alloc(DirNode(p, e))
             /\ stack' = Append(st, [id |-> nextId, rest |-> tree.kids[e]])
             /\ pc' = "walk" /\ UNCHANGED result
    <2>a. PICK nd, N, S, T, t : /\ nd = DirNode(p, e) /\ N = nodes /\ S = stack /\ T = stack'
                                /\ t = tree
      OBVIOUS
    <2>1. Took(S, st, e) /\ Stacked(N, S) /\ e \in Names
      BY WithoutTook, <2>a
    <2>2. /\ p \in Nat /\ p < Len(N) /\ N[p + 1].dir /\ p = S[Len(S)].id /\ e \in DOMAIN t.kind
      BY TopFacts, <2>a DEF Top
    <2>3. t \in Trees /\ N \in Seq(Node) /\ nextId \in Nat /\ nextId = Len(N)
      BY <2>a DEF Inv, TypeInv, CountInv
    <2>4. nd \in Node /\ nd.parentId = p /\ nd.dir /\ nd.entry = e /\ nd.name = t.trim[e]
      <3>1. t.trim[e] \in Short
        BY <2>2, <2>3, TrimmedIsShort
      <3>2. QED
        BY <2>1, <2>2, <2>3, <2>a, <3>1 DEF DirNode, Node
    <2>5. t.kids[e] \subseteq DOMAIN t.kind
      BY <2>2, <2>3, <2>a, TreeFacts
    <2>6. /\ Len(T) = Len(S) + 1 /\ (\A s \in 1 .. Len(S) : T[s] = st[s])
          /\ T[Len(S) + 1].id = Len(N) /\ T[Len(S) + 1].rest = t.kids[e]
      <3>a. PICK R, x : /\ R = [id : Nat, rest : SUBSET DOMAIN tree.kind]
                        /\ x = [id |-> nextId, rest |-> tree.kids[e]]
        OBVIOUS
      <3>1. st \in Seq(R) /\ Len(st) = Len(S)
        BY WithoutFacts, <2>a, <3>a
      <3>2. x \in R /\ x.id = Len(N) /\ x.rest = t.kids[e]
        BY <2>3, <2>5, <2>a, <3>a
      <3>3. T = Append(st, x)
        BY <1>2, <2>a, <3>a
      <3>4. /\ Len(T) = Len(st) + 1 /\ (\A s \in 1 .. Len(st) : T[s] = st[s])
            /\ T[Len(st) + 1] = x
        BY <3>1, <3>2, <3>3, Added
      <3>5. QED
        BY <3>1, <3>2, <3>4
    <2>7. Len(S) < DepthMax
      BY <1>2, <2>1 DEF Took
    <2>8. t.kind[e] = KindOf(nd)
      BY <2>4, <2>a DEF KindOf
    <2>9. Entered(t, N, S, e, nd, st, T)
      BY <2>1, <2>2, <2>3, <2>4, <2>6, <2>7, <2>8 DEF Entered
    <2>10. Walked(t, N, S, skipped)
      BY <2>a DEF TreeInv, Live, Inv, EndInv
    <2>b. PICK M, K : M = nodes' /\ K = skipped
      OBVIOUS
    <2>11. M = Append(N, nd)
      BY <1>2, <2>a, <2>b DEF node_alloc
    <2>12. Walked(t, M, T, K)
      BY <2>3, <2>9, <2>10, <2>11, <2>b, WalkedGrows
    <2>13. Walked(tree', nodes', stack', skipped')
      BY <2>12, <2>a, <2>b
    <2>14. QED
      BY <1>2, <2>13 DEF TreeInv
  <1>3. QED
    BY <1>1, <1>2 DEF processDir

\* A file gets its node.
LEMMA FileTree ==
    ASSUME Inv, TreeInv, NEW e \in Top.rest, entry_file(e)
    PROVE  TreeInv'
  <1>1. pc = "walk" /\ tree.kind[e] = "file" /\ UNCHANGED <<tree, size, skipped>>
    BY DEF entry_file
  <1>2. CASE Fail
    BY <1>2, DeadTree DEF Fail
  <1>3. CASE /\ node_alloc(FileNode(Top.id, e))
             /\ stack' = Without(e) /\ pc' = "copy" /\ UNCHANGED result
    <2>a. PICK nd, N, S, T, t : /\ nd = FileNode(Top.id, e) /\ N = nodes /\ S = stack /\ T = stack'
                                /\ t = tree
      OBVIOUS
    <2>1. Took(S, T, e) /\ Stacked(N, S) /\ e \in Names
      BY <1>1, <1>3, WithoutTook, <2>a
    <2>2. /\ Top.id \in Nat /\ N[Top.id + 1].dir /\ Top.id = S[Len(S)].id /\ e \in DOMAIN t.kind
      BY <1>1, TopFacts, <2>a DEF Top
    <2>3. t \in Trees /\ N \in Seq(Node) /\ nextId \in Nat /\ currOffset \in Nat
      BY <2>a DEF Inv, TypeInv
    <2>4. size[e] \in Nat
      BY <1>1, <2>2, <2>3, <2>a, TreeFacts DEF Inv, SizeInv
    <2>5. size[e] % OffMod \in Nat
      BY <2>4, ConstantFacts, ModFacts
    <2>6. nd \in Node /\ nd.parentId = Top.id /\ ~nd.dir /\ nd.entry = e /\ nd.name = t.trim[e]
      <3>1. t.trim[e] \in Short
        BY <2>2, <2>3, TrimmedIsShort
      <3>2. PICK i, m, o, z : i = Top.id /\ m = t.trim[e] /\ o = currOffset /\ z = size[e] % OffMod
        OBVIOUS
      <3>3. i \in Nat /\ m \in Short /\ nextId \in Nat /\ o \in Nat /\ z \in Nat /\ e \in Names
        BY <2>1, <2>2, <2>3, <2>5, <3>1, <3>2
      <3>4. nd = [id |-> nextId, parentId |-> i, entry |-> e, name |-> m, dir |-> FALSE,
                  offset |-> o, size |-> z]
        BY <2>a, <3>2 DEF FileNode
      <3>5. nd \in Node /\ nd.parentId = i /\ ~nd.dir /\ nd.entry = e /\ nd.name = m
        BY <3>3, <3>4 DEF Node
      <3>6. QED
        BY <3>2, <3>5
    <2>7. t.kind[e] = KindOf(nd)
      BY <1>1, <2>6, <2>a DEF KindOf
    <2>8. Entered(t, N, S, e, nd, T, T)
      BY <2>1, <2>2, <2>3, <2>6, <2>7 DEF Entered
    <2>9. Walked(t, N, S, skipped)
      BY <1>1, <2>a DEF TreeInv, Live, Inv, EndInv
    <2>b. PICK M, K : M = nodes' /\ K = skipped
      OBVIOUS
    <2>10. M = Append(N, nd)
      BY <1>3, <2>a, <2>b DEF node_alloc
    <2>11. Walked(t, M, T, K)
      BY <2>3, <2>8, <2>9, <2>10, <2>b, WalkedGrows
    <2>12. Walked(tree', nodes', stack', skipped')
      BY <1>1, <2>11, <2>a, <2>b
    <2>13. QED
      BY <1>3, <2>12 DEF TreeInv
  <1>4. QED
    BY <1>2, <1>3 DEF entry_file

\* An entry is passed over.
LEMMA OverTree ==
    ASSUME Inv, TreeInv, NEW e \in Top.rest, entry_unreadable(e) \/ entry_other(e)
    PROVE  TreeInv'
  <1>1. /\ pc = "walk" /\ pc' = "walk" /\ result' = result /\ UNCHANGED <<tree, nodes>>
        /\ stack' = Without(e)
        /\ skipped' = skipped \cup {<<Top.id, e>>} \/ (skipped' = skipped /\ tree.kind[e] = "other")
    BY DEF entry_unreadable, entry_other
  <1>a. PICK N, S, T, t, K, L : /\ N = nodes /\ S = stack /\ T = stack' /\ t = tree
                                /\ K = skipped /\ L = skipped'
    OBVIOUS
  <1>2. Took(S, T, e) /\ Stacked(N, S) /\ e \in Names
    BY <1>1, WithoutTook, <1>a
  <1>3. t \in Trees
    BY <1>a DEF Inv, TypeInv
  <1>4. Walked(t, N, S, K)
    BY <1>1, <1>a DEF TreeInv, Live, Inv, EndInv
  <1>5. L = K \cup {<<S[Len(S)].id, e>>} \/ (L = K /\ t.kind[e] = "other")
    BY <1>1, <1>a DEF Top
  <1>6. Walked(t, N, T, L)
    BY <1>2, <1>3, <1>4, <1>5, PassedOver
  <1>7. Walked(tree', nodes', stack', skipped')
    BY <1>1, <1>6, <1>a
  <1>8. QED
    BY <1>1, <1>7 DEF TreeInv

\* The end of a directory.
LEMMA LeaveTree ==
    ASSUME Inv, TreeInv, leave_directory
    PROVE  TreeInv'
  <1>1. /\ pc = "walk" /\ Top.rest = {} /\ result' = result /\ UNCHANGED <<tree, nodes, skipped>>
        /\ stack' = SubSeq(stack, 1, Len(stack) - 1)
        /\ pc' = IF Len(stack) = 1 THEN "padding" ELSE "walk"
    BY DEF leave_directory
  <1>a. PICK N, S, T, t, K, R : /\ N = nodes /\ S = stack /\ T = stack' /\ t = tree /\ K = skipped
                                /\ R = [id : Nat, rest : SUBSET DOMAIN tree.kind]
    OBVIOUS
  <1>2. S \in Seq(R) /\ Len(S) \in Nat /\ Len(S) >= 1
    BY <1>1, <1>a, TopFacts, LenProperties DEF Inv, StackInv
  <1>b. PICK n : n = Len(S) - 1
    OBVIOUS
  <1>3. n \in 0 .. Len(S) /\ T = SubSeq(S, 1, n)
    BY <1>1, <1>2, <1>a, <1>b
  <1>4. T \in Seq(R) /\ Len(T) = n /\ \A s \in 1 .. n : T[s] = S[s]
    BY <1>2, <1>3, Beginning
  <1>5. Stacked(N, S)
    <2>1. \A s \in 1 .. Len(S) : S[s] \in [id : Nat, rest : SUBSET DOMAIN tree.kind]
      BY <1>2, <1>a, ElementOfSeq
    <2>2. \A s \in 1 .. Len(S) : S[s].id \in Nat
      BY <2>1
    <2>3. QED
      BY <1>2, <1>a, <2>2 DEF Stacked, Inv, StackInv
  <1>6. Walked(t, N, S, K)
    BY <1>1, <1>a DEF TreeInv, Live, Inv, EndInv
  <1>7. t \in Trees /\ S[Len(S)].rest = {}
    BY <1>1, <1>a DEF Inv, TypeInv, Top
  <1>8. Len(T) = Len(S) - 1 /\ \A s \in 1 .. Len(T) : T[s] = S[s]
    BY <1>4, <1>b
  <1>9. Walked(t, N, T, K)
    BY <1>2, <1>5, <1>6, <1>7, <1>8, WalkedLeaves
  <1>10. Walked(tree', nodes', stack', skipped')
    BY <1>1, <1>9, <1>a
  <1>11. pc' = "padding" => stack' = <<>>
    <2>1. pc' = "padding" => Len(T) = 0
      BY <1>1, <1>4, <1>a, <1>b
    <2>2. Len(T) = 0 => T = <<>>
      BY <1>4
    <2>3. QED
      BY <2>1, <2>2, <1>a
  <1>12. pc' \in {"padding", "walk"}
    BY <1>1
  <1>13. QED
    BY <1>10, <1>11, <1>12 DEF TreeInv

\* The root gets its node.
LEMMA StartTree ==
    ASSUME Inv, TreeInv, main_start
    PROVE  TreeInv'
  <1>1. pc = "start" /\ UNCHANGED <<tree, skipped>>
    BY DEF main_start
  <1>2. CASE Fail
    BY <1>2, DeadTree DEF Fail
  <1>3. CASE /\ node_alloc(DirNode(-1, tree.root))
             /\ stack' = Append(<<>>, [id |-> nextId, rest |-> tree.kids[tree.root]])
             /\ pc' = "walk" /\ UNCHANGED result
    <2>a. PICK nd, M, S, t : nd = DirNode(-1, tree.root) /\ M = nodes' /\ S = stack' /\ t = tree
      OBVIOUS
    <2>1. t \in Trees /\ nextId = 0 /\ nodes = <<>>
      <3>1. nodes = <<>> /\ nextId = Len(nodes) /\ tree \in Trees
        BY <1>1 DEF Inv, TypeInv, StartInv, CountInv
      <3>2. QED
        BY <3>1, <2>a
    <2>2. t.root \in Names
      BY <2>1, TreeFacts
    <2>3. nd \in Node /\ nd.entry = t.root /\ nd.name = t.trim[t.root] /\ nd.dir
      <3>1. t.trim[t.root] \in Short
        BY <2>1, TreeFacts, TrimmedIsShort
      <3>2. QED
        BY <2>1, <2>2, <2>a, <3>1 DEF DirNode, Node
    <2>4. M = Append(<<>>, nd)
      BY <1>3, <2>1, <2>a DEF node_alloc
    <2>b. PICK x : x = [id |-> nextId, rest |-> tree.kids[tree.root]]
      OBVIOUS
    <2>5. x.id = 0 /\ x.rest = t.kids[t.root]
      BY <2>1, <2>a, <2>b
    <2>6. S = Append(<<>>, x)
      BY <1>3, <2>a, <2>b
    <2>7. Len(S) = 1 /\ S[1] = x
      BY <2>6
    <2>8. S[1].id = 0 /\ S[1].rest = t.kids[t.root]
      BY <2>5, <2>7
    <2>9. Walked(t, M, S, {})
      BY <2>1, <2>3, <2>4, <2>7, <2>8, WalkedBegins
    <2>10. Walked(tree', nodes', stack', skipped')
      BY <1>1, <2>9, <2>a DEF TreeInv
    <2>11. QED
      BY <1>3, <2>10 DEF TreeInv
  <1>4. QED
    BY <1>2, <1>3 DEF main_start, processDir

\* Copying a file does not touch the index.
LEMMA ChunkTree ==
    ASSUME Inv, TreeInv, copy_chunk
    PROVE  TreeInv'
  <1>1. pc = "copy" /\ UNCHANGED <<tree, nodes, skipped>>
    BY DEF copy_chunk
  <1>2. CASE Fail
    BY <1>2, DeadTree DEF Fail
  <1>3. CASE pc' \in {"walk", "copy"} /\ UNCHANGED <<result, stack>>
    <2>1. Live
      BY <1>1 DEF Live, Inv, EndInv
    <2>2. QED
      BY <1>1, <1>3, <2>1, SameTree
  <1>4. QED
    BY <1>2, <1>3 DEF copy_chunk

\* Neither does what main does afterwards.
LEMMA AfterTree ==
    ASSUME Inv, TreeInv, write_padding \/ write_nodes_tree \/ write_header \/ main_end
    PROVE  TreeInv'
  <1>1. /\ pc \in {"padding", "index", "header", "close"} /\ UNCHANGED <<tree, nodes, skipped>>
        /\ pc' # "start"
    BY DEF write_padding, write_nodes_tree, write_header, main_end, Written, Fail, walkvars
  <1>2. Fail \/ UNCHANGED stack
    BY DEF write_padding, write_nodes_tree, write_header, main_end, Written, walkvars
  <1>3. CASE Fail
    BY <1>3, DeadTree DEF Fail
  <1>4. CASE UNCHANGED stack
    <2>1. Live
      BY <1>1 DEF Live, Inv, EndInv
    <2>2. QED
      BY <1>1, <1>4, <2>1, SameTree
  <1>5. QED
    BY <1>2, <1>3, <1>4

\* Every step keeps it.
LEMMA NextKeepsTree ==
    Inv /\ TreeInv /\ [Next]_vars => TreeInv'
  <1> SUFFICES ASSUME Inv, TreeInv, [Next]_vars PROVE TreeInv'
    OBVIOUS
  <1>1. CASE main
    <2>1. CASE walk
      <3>1. CASE entry_nopath
        BY <3>1, DeadTree DEF entry_nopath, Fail
      <3>2. CASE leave_directory
        BY <3>2, LeaveTree
      <3>3. CASE copy_chunk
        BY <3>3, ChunkTree
      <3>4. CASE \E e \in Top.rest : \/ entry_unreadable(e) \/ entry_directory(e)
                                     \/ entry_file(e) \/ entry_other(e)
        <4>1. PICK e \in Top.rest : \/ entry_unreadable(e) \/ entry_directory(e)
                                    \/ entry_file(e) \/ entry_other(e)
          BY <3>4
        <4>2. CASE entry_unreadable(e) \/ entry_other(e)
          BY <4>2, OverTree
        <4>3. CASE entry_file(e)
          BY <4>3, FileTree
        <4>4. CASE entry_directory(e)
          <5>a. PICK st, p : st = Without(e) /\ p = Top.id
            OBVIOUS
          <5>1. /\ pc = "walk" /\ tree.kind[e] = "dir" /\ processDir(e, p, st)
                /\ UNCHANGED <<tree, skipped>>
            BY <4>4, <5>a DEF entry_directory
          <5>2. QED
            BY <5>1, <5>a, DirectoryTree
        <4>5. QED
          BY <4>1, <4>2, <4>3, <4>4
      <3>5. QED
        BY <2>1, <3>1, <3>2, <3>3, <3>4 DEF walk
    <2>2. CASE main_start
      BY <2>2, StartTree
    <2>3. CASE write_padding \/ write_nodes_tree \/ write_header \/ main_end
      BY <2>3, AfterTree
    <2>4. QED
      BY <1>1, <2>1, <2>2, <2>3 DEF main
  <1>2. CASE kill
    BY <1>2, DeadTree DEF kill
  <1>3. CASE \E f \in DOMAIN size, n \in 0 .. MaxSize : resize(f, n)
    <2>1. pc = "copy" /\ pc' = pc /\ result' = result /\ UNCHANGED <<tree, nodes, stack, skipped>>
      BY <1>3 DEF resize, walkvars
    <2>2. Live
      BY <2>1 DEF Live, Inv, EndInv
    <2>3. QED
      BY <2>1, <2>2, SameTree
  <1>4. CASE UNCHANGED vars
    BY <1>4 DEF vars, walkvars, TreeInv, Live
  <1>5. QED
    BY <1>1, <1>2, <1>3, <1>4 DEF Next

-----------------------------------------------------------------------------
(* What the recursive definitions compute.                                 *)

\* The order of the natural numbers is well-founded.
LEMMA LessWellFounded ==
    IsWellFoundedOn({ss \in Nat \X Nat : ss[1] < ss[2]}, Nat)
  BY NatLessThanWellFounded DEF OpToRel

\* A set of numbers that is not empty has a least element.
LEMMA Least ==
    ASSUME NEW T \in SUBSET Nat, T # {}
    PROVE  \E x \in T : \A y \in T : x <= y
  <1>a. PICK R : R = {ss \in Nat \X Nat : ss[1] < ss[2]}
    OBVIOUS
  <1>1. IsWellFoundedOn(R, Nat)
    BY <1>a, LessWellFounded
  <1>2. PICK x \in T : \A y \in T : ~(<<y, x>> \in R)
    BY <1>1, WFMin
  <1>3. ASSUME NEW y \in T PROVE x <= y
    <2>1. x \in Nat /\ y \in Nat
      OBVIOUS
    <2>2. ~(y < x)
      BY <1>2, <2>1, <1>a
    <2>3. QED
      BY <2>1, <2>2
  <1>4. QED
    BY <1>3

\* The function NodePath(k) takes a value of.
Recur(N, k, g) == g = [j \in 1 .. k |-> IF j = 1 THEN <<N[1].entry>>
                                        ELSE Append(g[N[j].parentId + 1], N[j].entry)]

\* The paths of Pathed solve its equation,
LEMMA PathsRecur ==
    ASSUME NEW t \in Trees, NEW N, Len(N) \in Nat, NEW P, Pathed(t, N, P), NEW k \in 1 .. Len(N)
    PROVE  \E g : Recur(N, k, g)
  <1>a. PICK g : g = [j \in 1 .. k |-> P[j]]
    OBVIOUS
  <1>1. N[1].entry = t.root /\ P[1] = <<t.root>>
    <2>1. 1 \in 1 .. Len(N) /\ P[1] = <<t.root>>
      BY DEF Pathed
    <2>2. PathOf(t, N[1], P[1])
      BY <2>1 DEF Pathed
    <2>3. P[1][Len(P[1])] = N[1].entry
      BY <2>2 DEF PathOf
    <2>4. QED
      BY <2>1, <2>3
  <1>2. ASSUME NEW j \in 1 .. k
        PROVE  g[j] = IF j = 1 THEN <<N[1].entry>> ELSE Append(g[N[j].parentId + 1], N[j].entry)
    <2>1. CASE j = 1
      BY <1>a, <1>1, <2>1
    <2>2. CASE j # 1
      <3>1. j \in 2 .. Len(N)
        BY <2>2
      <3>2. Below(N, j, P)
        BY <3>1 DEF Pathed
      <3>b. PICK i : i = N[j].parentId + 1
        OBVIOUS
      <3>3. i \in 1 .. k /\ P[j] = Append(P[i], N[j].entry)
        BY <3>1, <3>2, <3>b DEF Below
      <3>4. g[j] = P[j] /\ g[i] = P[i]
        BY <3>3, <1>a
      <3>5. QED
        BY <2>2, <3>3, <3>4, <3>b
    <2>3. QED
      BY <2>1, <2>2
  <1>3. Recur(N, k, g)
    BY <1>2, <1>a DEF Recur
  <1>4. QED
    BY <1>3

\* and are its only solution.
LEMMA RecurUnique ==
    ASSUME NEW t \in Trees, NEW N, Len(N) \in Nat, NEW P, Pathed(t, N, P), NEW k \in 1 .. Len(N),
           NEW g, Recur(N, k, g)
    PROVE  g[k] = P[k]
  <1>a. PICK T : T = {n \in Nat : n \in 1 .. k /\ g[n] # P[n]}
    OBVIOUS
  <1>1. CASE T # {}
    <2>1. T \in SUBSET Nat
      BY <1>a
    <2>2. PICK n \in T : \A y \in T : n <= y
      BY <1>1, <2>1, Least
    <2>3. n \in 1 .. k /\ g[n] # P[n]
      BY <2>2, <1>a
    <2>4. g[n] = IF n = 1 THEN <<N[1].entry>> ELSE Append(g[N[n].parentId + 1], N[n].entry)
      BY <2>3 DEF Recur
    <2>5. CASE n = 1
      <3>1. 1 \in 1 .. Len(N) /\ P[1] = <<t.root>>
        BY DEF Pathed
      <3>2. PathOf(t, N[1], P[1])
        BY <3>1 DEF Pathed
      <3>3. P[1][Len(P[1])] = N[1].entry
        BY <3>2 DEF PathOf
      <3>4. <<t.root>> = <<N[1].entry>>
        BY <3>1, <3>3
      <3>5. QED
        BY <2>3, <2>4, <2>5, <3>1, <3>4
    <2>6. CASE n # 1
      <3>1. n \in 2 .. Len(N)
        BY <2>3, <2>6
      <3>2. Below(N, n, P)
        BY <3>1 DEF Pathed
      <3>b. PICK i : i = N[n].parentId + 1
        OBVIOUS
      <3>3. i \in 1 .. k /\ i < n /\ P[n] = Append(P[i], N[n].entry)
        BY <2>3, <3>1, <3>2, <3>b DEF Below
      <3>4. i \notin T
        BY <2>2, <2>3, <3>3
      <3>5. g[i] = P[i]
        BY <3>3, <3>4, <1>a
      <3>6. QED
        BY <2>3, <2>4, <2>6, <3>3, <3>5, <3>b
    <2>7. QED
      BY <2>5, <2>6
  <1>2. CASE T = {}
    BY <1>2, <1>a
  <1>3. QED
    BY <1>1, <1>2

\* So NodePath is what it should be.
LEMMA NodePathIs ==
    ASSUME TypeInv, NEW P, Pathed(tree, nodes, P), NEW k \in 1 .. Len(nodes)
    PROVE  NodePath(k) = P[k]
  <1>1. tree \in Trees /\ Len(nodes) \in Nat
    BY LenProperties DEF TypeInv
  <1>a. PICK g : g = CHOOSE h : h = [j \in 1 .. k |-> IF j = 1 THEN <<nodes[1].entry>>
                                        ELSE Append(h[nodes[j].parentId + 1], nodes[j].entry)]
    OBVIOUS
  <1>2. NodePath(k) = g[k]
    BY <1>a DEF NodePath
  <1>3. \E h : Recur(nodes, k, h)
    BY <1>1, PathsRecur
  <1>4. \E h : h = [j \in 1 .. k |-> IF j = 1 THEN <<nodes[1].entry>>
                                        ELSE Append(h[nodes[j].parentId + 1], nodes[j].entry)]
    BY <1>3 DEF Recur
  <1>5. Recur(nodes, k, g)
    BY <1>4, <1>a DEF Recur
  <1>6. QED
    BY <1>1, <1>2, <1>5, RecurUnique

\* The sequences of up to n + 1 names that begin at the root, in which only the
\* last may be no directory.
Descends(t, p) == /\ p \in Seq(DOMAIN t.kind) /\ Len(p) >= 1 /\ p[1] = t.root
                  /\ \A i \in 1 .. Len(p) - 1 : t.kind[p[i]] = "dir"
Reach(t, n)    == {p \in Seq(DOMAIN t.kind) : Descends(t, p) /\ Len(p) <= n + 1}
\* A directory and any name behind it.
LEMMA DescendsFurther ==
    ASSUME NEW t, NEW p, Descends(t, p), t.kind[p[Len(p)]] = "dir", NEW e \in DOMAIN t.kind,
           NEW q, q = Append(p, e)
    PROVE  Descends(t, q) /\ q \in Seq(DOMAIN t.kind) /\ Len(q) = Len(p) + 1 /\ Len(p) \in Nat
  <1>a. PICK D : D = DOMAIN t.kind
    OBVIOUS
  <1>1. p \in Seq(D) /\ e \in D
    BY <1>a DEF Descends
  <1>2. /\ q \in Seq(D) /\ Len(p) \in Nat /\ Len(q) = Len(p) + 1
        /\ \A i \in 1 .. Len(p) : q[i] = p[i]
    BY <1>1, Added
  <1>3. Len(p) >= 1 /\ p[1] = t.root /\ \A i \in 1 .. Len(p) - 1 : t.kind[p[i]] = "dir"
    BY DEF Descends
  <1>4. Len(q) >= 1 /\ q[1] = t.root
    BY <1>2, <1>3
  <1>5. ASSUME NEW i \in 1 .. Len(q) - 1 PROVE t.kind[q[i]] = "dir"
    <2>1. i \in 1 .. Len(p) /\ q[i] = p[i]
      BY <1>2
    <2>2. i \in 1 .. Len(p) - 1 \/ i = Len(p)
      BY <1>2, <2>1
    <2>3. QED
      BY <1>3, <2>1, <2>2
  <1>6. QED
    BY <1>2, <1>4, <1>5, <1>a DEF Descends

\* What is longer than one name is a directory and a name.
LEMMA DescendsBack ==
    ASSUME NEW t, NEW q, Descends(t, q), Len(q) > 1
    PROVE  \E p \in Seq(DOMAIN t.kind), e \in DOMAIN t.kind :
               /\ q = Append(p, e) /\ Descends(t, p) /\ Len(q) = Len(p) + 1
               /\ t.kind[p[Len(p)]] = "dir"
  <1>a. PICK D, n : D = DOMAIN t.kind /\ n = Len(q)
    OBVIOUS
  <1>1. /\ q \in Seq(D) /\ n \in Nat /\ n > 1 /\ q[1] = t.root
        /\ \A i \in 1 .. n - 1 : t.kind[q[i]] = "dir"
    BY <1>a, LenProperties DEF Descends
  <1>b. PICK p, e : p = SubSeq(q, 1, n - 1) /\ e = q[n]
    OBVIOUS
  <1>2. n \in 2 .. Len(q) /\ n - 1 \in 0 .. Len(q) /\ n \in 1 .. Len(q)
    BY <1>1, <1>a
  <1>3. p \in Seq(D) /\ Len(p) = n - 1 /\ \A i \in 1 .. n - 1 : p[i] = q[i]
    BY <1>1, <1>2, <1>b, Beginning
  <1>4. e \in D
    BY <1>1, <1>2, <1>b, ElementOfSeq
  <1>5. q = Append(p, e)
    <2>1. SubSeq(q, 1, n) = Append(SubSeq(q, 1, n - 1), q[n])
      BY <1>1, <1>2, NextBeginning
    <2>2. SubSeq(q, 1, n) = q
      BY <1>1, <1>a, WholeBeginning
    <2>3. QED
      BY <2>1, <2>2, <1>b
  <1>6. p[1] = t.root /\ Len(p) >= 1 /\ t.kind[p[Len(p)]] = "dir"
    <2>1. 1 \in 1 .. n - 1 /\ n - 1 \in 1 .. n - 1
      BY <1>1
    <2>2. QED
      BY <1>1, <1>3, <2>1
  <1>7. \A i \in 1 .. Len(p) - 1 : t.kind[p[i]] = "dir"
    BY <1>1, <1>3
  <1>8. Descends(t, p)
    BY <1>3, <1>6, <1>7, <1>a DEF Descends
  <1>9. Len(q) = Len(p) + 1
    BY <1>1, <1>3, <1>a
  <1>10. QED
    BY <1>3, <1>4, <1>5, <1>6, <1>8, <1>9, <1>a

\* The root is all that is reached without a step.
LEMMA ReachFirst ==
    ASSUME NEW t \in Trees
    PROVE  Reach(t, 0) = {<<t.root>>}
  <1>a. PICK D, r : D = DOMAIN t.kind /\ r = t.root
    OBVIOUS
  <1>1. r \in D
    BY <1>a, TreeFacts
  <1>b. PICK s : s = <<r>>
    OBVIOUS
  <1>2. s \in Seq(D) /\ Len(s) = 1 /\ s[1] = r
    BY <1>1, <1>b
  <1>3. Descends(t, s)
    BY <1>2, <1>a DEF Descends
  <1>4. s \in Reach(t, 0)
    <2>1. Len(s) <= 0 + 1 /\ s \in Seq(DOMAIN t.kind)
      BY <1>2, <1>a
    <2>2. QED
      BY <1>3, <2>1 DEF Reach
  <1>5. ASSUME NEW p \in Reach(t, 0) PROVE p = s
    <2>1. p \in Seq(D) /\ Len(p) >= 1 /\ Len(p) <= 0 + 1 /\ p[1] = r
      BY <1>a DEF Reach, Descends
    <2>b. Len(p) \in Nat
      BY <2>1, LenProperties
    <2>c. PICK n : n = Len(p)
      OBVIOUS
    <2>d. n \in Nat /\ n >= 1 /\ n <= 1
      BY <2>1, <2>b, <2>c
    <2>e. n = 1
      BY <2>d
    <2>2. Len(p) = 1
      BY <2>c, <2>e
    <2>3. \A i \in 1 .. Len(p) : p[i] = s[i]
      BY <1>2, <2>1, <2>2
    <2>4. QED
      BY <1>2, <2>1, <2>2, <2>3, SeqEqual
  <1>6. QED
    BY <1>4, <1>5, <1>a, <1>b

\* Every further step reaches one name more.
LEMMA ReachFurther ==
    ASSUME NEW t \in Trees, NEW n \in Nat, n > 0
    PROVE  Reach(t, n) = Further(t, Reach(t, n - 1))
  <1>1. ASSUME NEW q \in Reach(t, n) PROVE q \in Further(t, Reach(t, n - 1))
    <2>1. q \in Seq(DOMAIN t.kind) /\ Descends(t, q) /\ Len(q) <= n + 1 /\ Len(q) \in Nat
      BY LenProperties DEF Reach
    <2>2. CASE Len(q) > 1
      <3>1. PICK p \in Seq(DOMAIN t.kind), e \in DOMAIN t.kind :
                /\ q = Append(p, e) /\ Descends(t, p) /\ Len(q) = Len(p) + 1
                /\ t.kind[p[Len(p)]] = "dir"
        BY <2>1, <2>2, DescendsBack
      <3>2. Len(p) <= (n - 1) + 1
        BY <2>1, <3>1, LenProperties
      <3>3. p \in Reach(t, n - 1)
        BY <3>1, <3>2 DEF Reach
      <3>4. QED
        BY <3>1, <3>3 DEF Further
    <2>3. CASE ~(Len(q) > 1)
      <3>1. Len(q) <= (n - 1) + 1
        BY <2>1, <2>3
      <3>2. QED
        BY <2>1, <3>1 DEF Reach, Further
    <2>4. QED
      BY <2>2, <2>3
  <1>2. ASSUME NEW q \in Further(t, Reach(t, n - 1)) PROVE q \in Reach(t, n)
    <2>1. CASE q \in Reach(t, n - 1)
      <3>1. q \in Seq(DOMAIN t.kind) /\ Descends(t, q) /\ Len(q) <= (n - 1) + 1 /\ Len(q) \in Nat
        BY <2>1, LenProperties DEF Reach
      <3>2. Len(q) <= n + 1
        BY <3>1
      <3>3. QED
        BY <3>1, <3>2 DEF Reach
    <2>2. CASE q \notin Reach(t, n - 1)
      <3>1. PICK p \in Reach(t, n - 1), e \in DOMAIN t.kind :
                t.kind[p[Len(p)]] = "dir" /\ q = Append(p, e)
        BY <1>2, <2>2 DEF Further
      <3>2. Descends(t, p) /\ Len(p) <= (n - 1) + 1
        BY <3>1 DEF Reach
      <3>3. Descends(t, q) /\ q \in Seq(DOMAIN t.kind) /\ Len(q) = Len(p) + 1 /\ Len(p) \in Nat
        BY <3>1, <3>2, DescendsFurther
      <3>4. Len(q) <= n + 1
        BY <3>2, <3>3
      <3>5. QED
        BY <3>3, <3>4 DEF Reach
    <2>3. QED
      BY <2>1, <2>2
  <1>3. QED
    BY <1>1, <1>2

\* The equation of upto in TreePaths, and its only solution.
Upto(t, g) == g = [n \in 0 .. DepthMax |-> IF n = 0 THEN {<<t.root>>} ELSE Further(t, g[n - 1])]

\* There is one,
LEMMA UptoExists ==
    ASSUME NEW t \in Trees
    PROVE  \E g : Upto(t, g)
  <1>a. PICK g : g = [n \in 0 .. DepthMax |-> Reach(t, n)]
    OBVIOUS
  <1>1. ASSUME NEW n \in 0 .. DepthMax
        PROVE  g[n] = IF n = 0 THEN {<<t.root>>} ELSE Further(t, g[n - 1])
    <2>1. CASE n = 0
      BY <2>1, <1>a, ReachFirst
    <2>2. CASE n # 0
      <3>1. n \in Nat /\ n > 0 /\ n - 1 \in 0 .. DepthMax
        BY <2>2, ConstantFacts
      <3>2. g[n] = Reach(t, n) /\ g[n - 1] = Reach(t, n - 1)
        BY <1>a, <3>1
      <3>3. QED
        BY <2>2, <3>1, <3>2, ReachFurther
    <2>3. QED
      BY <2>1, <2>2
  <1>2. g = [n \in 0 .. DepthMax |-> IF n = 0 THEN {<<t.root>>} ELSE Further(t, g[n - 1])]
    BY <1>1, <1>a
  <1>3. Upto(t, g)
    BY <1>2 DEF Upto
  <1>4. QED
    BY <1>3

\* and it is what is reached.
LEMMA UptoIs ==
    ASSUME NEW t \in Trees, NEW g, Upto(t, g), NEW k \in 0 .. DepthMax
    PROVE  g[k] = Reach(t, k)
  <1>a. PICK T : T = {n \in Nat : n <= DepthMax /\ g[n] # Reach(t, n)}
    OBVIOUS
  <1>1. \A n \in 0 .. DepthMax : g[n] = IF n = 0 THEN {<<t.root>>} ELSE Further(t, g[n - 1])
    BY DEF Upto
  <1>2. CASE T # {}
    <2>1. T \in SUBSET Nat
      BY <1>a
    <2>2. PICK n \in T : \A y \in T : n <= y
      BY <1>2, <2>1, Least
    <2>3. n \in Nat /\ n <= DepthMax /\ g[n] # Reach(t, n)
      BY <2>2, <1>a
    <2>4. n \in 0 .. DepthMax
      BY <2>3, ConstantFacts
    <2>5. CASE n = 0
      BY <1>1, <2>3, <2>4, <2>5, ReachFirst
    <2>6. CASE n # 0
      <3>b. PICK m : m = n - 1
        OBVIOUS
      <3>1. m \in Nat /\ m <= DepthMax /\ m < n /\ n > 0
        BY <2>3, <2>6, <3>b, ConstantFacts
      <3>2. m \notin T
        BY <2>2, <2>3, <3>1
      <3>3. g[m] = Reach(t, m)
        BY <3>1, <3>2, <1>a
      <3>4. g[n] = Further(t, g[n - 1])
        BY <1>1, <2>4, <2>6
      <3>5. Reach(t, n) = Further(t, Reach(t, n - 1))
        BY <2>3, <3>1, ReachFurther
      <3>6. QED
        BY <2>3, <3>3, <3>4, <3>5, <3>b
    <2>7. QED
      BY <2>5, <2>6
  <1>3. CASE T = {}
    <2>1. k \in Nat /\ k <= DepthMax
      BY ConstantFacts
    <2>2. QED
      BY <1>3, <1>a, <2>1
  <1>4. QED
    BY <1>2, <1>3

\* The paths below the root that are not too long.
LEMMA TreePathsAre ==
    ASSUME tree \in Trees, NEW p
    PROVE  p \in TreePaths <=>
               /\ TreePath(tree, p) /\ Len(p) <= DepthMax + 1 /\ tree.kind[p[Len(p)]] # "other"
  <1>a. PICK g : g = CHOOSE h : h = [n \in 0 .. DepthMax |->
                        IF n = 0 THEN {<<tree.root>>} ELSE Further(tree, h[n - 1])]
    OBVIOUS
  <1>1. \E h : Upto(tree, h)
    BY UptoExists
  <1>2. Upto(tree, g)
    BY <1>1, <1>a DEF Upto
  <1>3. DepthMax \in 0 .. DepthMax
    BY ConstantFacts
  <1>4. g[DepthMax] = Reach(tree, DepthMax)
    BY <1>2, <1>3, UptoIs
  <1>5. p \in TreePaths <=>
           /\ p \in g[DepthMax] /\ tree.kind[p[Len(p)]] # "other"
           /\ \A i \in 2 .. Len(p) : p[i] \in tree.kids[p[i - 1]]
    BY <1>a DEF TreePaths
  <1>6. p \in Reach(tree, DepthMax) <=> Descends(tree, p) /\ Len(p) <= DepthMax + 1
    BY DEF Reach, Descends
  <1>7. /\ Descends(tree, p) /\ (\A i \in 2 .. Len(p) : p[i] \in tree.kids[p[i - 1]])
        <=> TreePath(tree, p)
    <2>1. CASE p \in Seq(DOMAIN tree.kind)
      <3>1. Len(p) \in Nat
        BY <2>1, LenProperties
      <3>2. /\ \A i \in 2 .. Len(p) : i - 1 \in 1 .. Len(p) - 1
            /\ \A i \in 1 .. Len(p) - 1 : i + 1 \in 2 .. Len(p) /\ (i + 1) - 1 = i
        BY <3>1
      <3>3. (\A i \in 1 .. Len(p) - 1 : tree.kind[p[i]] = "dir")
            <=> (\A i \in 2 .. Len(p) : tree.kind[p[i - 1]] = "dir")
        BY <3>2
      <3>4. QED
        BY <3>3 DEF Descends, TreePath
    <2>2. CASE p \notin Seq(DOMAIN tree.kind)
      BY <2>2 DEF Descends, TreePath
    <2>3. QED
      BY <2>1, <2>2
  <1>8. QED
    BY <1>4, <1>5, <1>6, <1>7

\* When all is read, what is passed over is what was skipped.
Done(t, N, K, P) == Pathed(t, N, P) /\ Seen(t, N, <<>>, K) /\ Taken(N, K)
Missed(N, K, P, p) == \E s \in K : \E i \in 2 .. Len(p) :
                          s[2] = p[i] /\ P[s[1] + 1] = SubSeq(p, 1, i - 1)

\* The path of a node leads past nothing that was skipped.
LEMMA NodeNotMissed ==
    ASSUME NEW t \in Trees, NEW N \in Seq(Node), NEW K, NEW P, Done(t, N, K, P), NEW k \in 1 .. Len(N)
    PROVE  ~Missed(N, K, P, P[k])
  <1> SUFFICES ASSUME NEW s \in K, NEW i \in 2 .. Len(P[k]),
                      s[2] = P[k][i], P[s[1] + 1] = SubSeq(P[k], 1, i - 1)
               PROVE  FALSE
    BY DEF Missed
  <1>a. PICK D, q, n : D = DOMAIN t.kind /\ q = P[k] /\ n = Len(N)
    OBVIOUS
  <1>1. /\ n \in Nat /\ P \in [1 .. n -> Seq(D)] /\ Closed(n, P, q) /\ q \in Seq(D) /\ Len(q) \in Nat
        /\ i \in 2 .. Len(q) /\ i \in 1 .. Len(q) /\ s[2] = q[i] /\ P[s[1] + 1] = SubSeq(q, 1, i - 1)
    BY <1>a, LenProperties DEF Done, Pathed
  <1>2. PICK j \in 1 .. n : P[j] = SubSeq(q, 1, i)
    BY <1>1 DEF Closed
  <1>3. P[j] = Append(SubSeq(q, 1, i - 1), q[i])
    BY <1>1, <1>2, NextBeginning
  <1>4. s[1] \in Nat /\ s[1] < n /\ ~IsMade(N, s[1], s[2]) /\ s[1] + 1 \in 1 .. n
    <2>1. s \in Nat \X Names /\ s[1] < n /\ ~IsMade(N, s[1], s[2])
      BY <1>a DEF Done, Taken
    <2>2. s[1] \in Nat
      BY <2>1
    <2>3. QED
      BY <1>1, <2>1, <2>2
  <1>b. PICK b, p, e : b = s[1] + 1 /\ p = P[b] /\ e = q[i]
    OBVIOUS
  <1>5. b \in 1 .. n /\ p \in Seq(D) /\ e \in D /\ P[j] = Append(p, e)
    <2>1. e \in D
      BY <1>1, <1>b, ElementOfSeq
    <2>2. QED
      BY <1>1, <1>3, <1>4, <1>b, <2>1
  <1>6. j # 1
    <2> SUFFICES ASSUME j = 1 PROVE FALSE
      OBVIOUS
    <2>1. P[1] = <<t.root>>
      BY DEF Done, Pathed
    <2>b. PICK z : z = SubSeq(q, 1, i)
      OBVIOUS
    <2>2. z = <<t.root>>
      BY <2>1, <2>b, <1>2
    <2>3. i \in 0 .. Len(q)
      BY <1>1
    <2>4. Len(z) = i
      BY <1>1, <2>3, <2>b, Beginning
    <2>5. Len(z) = 1
      BY <2>2
    <2>6. i = 1
      BY <2>4, <2>5
    <2>7. QED
      BY <1>1, <2>6
  <1>7. j \in 2 .. n
    BY <1>1, <1>6
  <1>8. Below(N, j, P)
    BY <1>7, <1>a DEF Done, Pathed
  <1>c. PICK c, r, f : c = N[j].parentId + 1 /\ r = P[c] /\ f = N[j].entry
    OBVIOUS
  <1>d. PICK u : u = N[j].parentId
    OBVIOUS
  <1>9. c \in 1 .. n /\ P[j] = Append(r, f) /\ u \in Nat /\ c = u + 1
    <2>1. u \in 0 .. j - 2 /\ P[j] = Append(P[u + 1], N[j].entry)
      BY <1>8, <1>d DEF Below
    <2>2. c = u + 1
      BY <1>c, <1>d
    <2>3. c \in 1 .. n /\ u \in Nat
      BY <1>1, <1>7, <2>1, <2>2
    <2>4. QED
      BY <2>1, <2>2, <2>3, <1>c
  <1>10. r \in Seq(D)
    BY <1>1, <1>9, <1>c
  <1>11. f \in D
    <2>1. PathOf(t, N[j], P[j])
      BY <1>a DEF Done, Pathed
    <2>b. PICK x : x = P[j]
      OBVIOUS
    <2>2. x \in Seq(D) /\ x[Len(x)] = f /\ Len(x) >= 1
      BY <2>1, <2>b, <1>1, <1>c DEF PathOf, TreePath
    <2>3. Len(x) \in 1 .. Len(x)
      BY <2>2, LenProperties
    <2>4. QED
      BY <2>2, <2>3, ElementOfSeq
  <1>12. Append(p, e) = Append(r, f)
    BY <1>5, <1>9
  <1>13. p = r /\ e = f
    BY <1>5, <1>10, <1>11, <1>12, AppendInjective
  <1>14. b = c
    BY <1>5, <1>9, <1>13, <1>a, <1>b, <1>c DEF Done, Pathed
  <1>15. N[j].parentId = s[1]
    <2>b. PICK y : y = s[1]
      OBVIOUS
    <2>1. y \in Nat /\ b = y + 1
      BY <1>4, <1>b, <2>b
    <2>2. u = y
      BY <1>9, <1>14, <2>1
    <2>3. QED
      BY <2>2, <2>b, <1>d
  <1>16. N[j].entry = s[2]
    BY <1>1, <1>13, <1>b, <1>c
  <1>17. QED
    BY <1>4, <1>7, <1>15, <1>16, <1>a DEF IsMade

\* Every beginning of a path that leads past nothing that was skipped is the
\* path of a node.
LEMMA BeginningsHaveNodes ==
    ASSUME NEW t \in Trees, NEW N \in Seq(Node), NEW K, NEW P, Done(t, N, K, P),
           NEW p, TreePath(t, p), t.kind[p[Len(p)]] # "other", ~Missed(N, K, P, p),
           NEW m \in 1 .. Len(p)
    PROVE  \E k \in 1 .. Len(N) : P[k] = SubSeq(p, 1, m)
  <1>a. PICK D, n, l, T : /\ D = DOMAIN t.kind /\ n = Len(N) /\ l = Len(p)
                          /\ T = {i \in Nat : i \in 1 .. l /\ ~\E k \in 1 .. n : P[k] = SubSeq(p, 1, i)}
    OBVIOUS
  <1>1. /\ p \in Seq(D) /\ l \in Nat /\ l >= 1 /\ p[1] = t.root /\ n \in Nat /\ n > 0
        /\ \A i \in 2 .. l : t.kind[p[i - 1]] = "dir" /\ p[i] \in t.kids[p[i - 1]]
    BY <1>a, LenProperties DEF TreePath, Done, Pathed
  <1>2. CASE T # {}
    <2>1. T \in SUBSET Nat
      BY <1>a
    <2>2. PICK i \in T : \A y \in T : i <= y
      BY <1>2, <2>1, Least
    <2>3. i \in 1 .. l /\ ~\E k \in 1 .. n : P[k] = SubSeq(p, 1, i)
      BY <2>2, <1>a
    <2>4. CASE i = 1
      <3>1. P[1] = <<t.root>> /\ 1 \in 1 .. n
        BY <1>1 DEF Done, Pathed
      <3>b. PICK a, b : a = SubSeq(p, 1, 1) /\ b = <<t.root>>
        OBVIOUS
      <3>2. 1 \in 0 .. Len(p)
        BY <1>1, <1>a
      <3>3. a \in Seq(D) /\ Len(a) = 1 /\ a[1] = p[1]
        BY <1>1, <3>2, <3>b, Beginning
      <3>4. t.root \in D
        BY <1>a, TreeFacts
      <3>5. b \in Seq(D) /\ Len(b) = 1 /\ b[1] = t.root
        BY <3>4, <3>b
      <3>6. \A x \in 1 .. Len(a) : a[x] = b[x]
        BY <1>1, <3>3, <3>5
      <3>7. a = b
        BY <3>3, <3>5, <3>6, SeqEqual
      <3>8. QED
        BY <2>3, <2>4, <3>1, <3>7, <3>b
    <2>5. CASE i # 1
      <3>b. PICK h : h = i - 1
        OBVIOUS
      <3>1. h \in Nat /\ h \in 1 .. l /\ h < i /\ i \in 2 .. l
        BY <1>1, <2>3, <2>5, <3>b
      <3>2. h \notin T
        BY <2>2, <2>3, <3>1
      <3>3. PICK k \in 1 .. n : P[k] = SubSeq(p, 1, h)
        BY <3>1, <3>2, <1>a
      <3>c. PICK e, d, q : e = p[i] /\ d = p[h] /\ q = SubSeq(p, 1, h)
        OBVIOUS
      <3>4. q \in Seq(D) /\ Len(q) = h /\ q[h] = d
        <4>1. h \in 0 .. Len(p) /\ h \in 1 .. h
          BY <3>1, <1>1, <1>a
        <4>2. q \in Seq(D) /\ Len(q) = h /\ \A x \in 1 .. h : q[x] = p[x]
          BY <1>1, <3>c, <4>1, Beginning
        <4>3. QED
          BY <4>1, <4>2, <3>c
      <3>5. PathOf(t, N[k], q)
        BY <3>3, <3>c, <1>a DEF Done, Pathed
      <3>6. N[k].entry = d
        BY <3>4, <3>5 DEF PathOf
      <3>7. t.kind[d] = "dir" /\ e \in t.kids[d]
        BY <1>1, <3>1, <3>b, <3>c
      <3>8. N[k].dir
        BY <3>5, <3>6, <3>7 DEF PathOf, KindOf
      <3>9. t.kind[e] # "other"
        <4>1. CASE i = l
          BY <4>1, <1>a, <3>c
        <4>2. CASE i # l
          <5>1. i + 1 \in 2 .. l /\ (i + 1) - 1 = i
            BY <1>1, <3>1, <4>2
          <5>2. t.kind[p[(i + 1) - 1]] = "dir"
            BY <1>1, <5>1
          <5>3. QED
            BY <5>1, <5>2, <3>c
        <4>3. QED
          BY <4>1, <4>2
      <3>10. <<k - 1, e>> \in K \/ IsMade(N, k - 1, e) \/ Waits(<<>>, k - 1, e)
        BY <3>6, <3>7, <3>8, <3>9, <1>a DEF Done, Seen
      <3>11. ~Waits(<<>>, k - 1, e)
        BY DEF Waits
      <3>12. <<k - 1, e>> \notin K
        <4> SUFFICES ASSUME <<k - 1, e>> \in K PROVE FALSE
          OBVIOUS
        <4>d. PICK s : s = <<k - 1, e>>
          OBVIOUS
        <4>1. s \in K /\ s[2] = e /\ s[1] + 1 = k
          BY <4>d, <1>1
        <4>2. s[2] = p[i] /\ P[s[1] + 1] = SubSeq(p, 1, i - 1) /\ i \in 2 .. Len(p)
          BY <4>1, <3>3, <3>b, <3>c, <3>1, <1>a
        <4>3. QED
          BY <4>1, <4>2 DEF Missed
      <3>13. PICK j \in 2 .. n : N[j].parentId = k - 1 /\ N[j].entry = e
        BY <3>10, <3>11, <3>12, <1>a DEF IsMade
      <3>14. Below(N, j, P)
        BY <1>a DEF Done, Pathed
      <3>15. P[j] = Append(q, e)
        <4>1. N[j].parentId + 1 = k
          BY <3>13, <1>1
        <4>2. QED
          BY <3>3, <3>13, <3>14, <3>c, <4>1 DEF Below
      <3>16. SubSeq(p, 1, i) = Append(q, e)
        <4>1. SubSeq(p, 1, i) = Append(SubSeq(p, 1, i - 1), p[i])
          BY <1>1, <3>1, <1>a, NextBeginning
        <4>2. QED
          BY <4>1, <3>b, <3>c
      <3>17. j \in 1 .. n
        BY <1>1
      <3>18. QED
        BY <2>3, <3>15, <3>16, <3>17
    <2>6. QED
      BY <2>4, <2>5
  <1>3. CASE T = {}
    <2>1. m \in 1 .. l /\ m \in Nat
      BY <1>1, <1>a
    <2>2. QED
      BY <2>1, <1>3, <1>a
  <1>4. QED
    BY <1>2, <1>3

\* One node for a name of a directory, unless names are the same when trimmed.
Sole(j, k) ==
    nodes[j].parentId = nodes[k].parentId /\ nodes[j].name = nodes[k].name =>
        j = k \/ SameTrimmed(nodes[nodes[k].parentId + 1].entry)

\* The entry of a node is one of its parent's directory.
LEMMA EntryOfParent ==
    ASSUME NEW t \in Trees, NEW N \in Seq(Node), NEW P, Pathed(t, N, P), NEW k \in 2 .. Len(N)
    PROVE  /\ N[k].entry \in t.kids[N[N[k].parentId + 1].entry]
           /\ N[k].name = t.trim[N[k].entry]
           /\ P[k] = Append(P[N[k].parentId + 1], N[k].entry)
  <1>a. PICK D, n, a, p, q : /\ D = DOMAIN t.kind /\ n = Len(N) /\ a = N[k].parentId + 1
                             /\ p = P[a] /\ q = P[k]
    OBVIOUS
  <1>1. n \in Nat /\ k \in 1 .. n /\ k \in 2 .. n
    BY <1>a, LenProperties
  <1>2. N[k].parentId \in 0 .. k - 2 /\ P[k] = Append(P[N[k].parentId + 1], N[k].entry)
    BY DEF Pathed, Below
  <1>3. a \in 1 .. n
    BY <1>1, <1>2, <1>a
  <1>4. PathOf(t, N[k], q) /\ PathOf(t, N[a], p) /\ p \in Seq(D)
    BY <1>1, <1>3, <1>a DEF Pathed
  <1>5. /\ q[Len(q)] = N[k].entry /\ N[k].name = t.trim[N[k].entry] /\ p[Len(p)] = N[a].entry
        /\ \A i \in 2 .. Len(q) : q[i] \in t.kids[q[i - 1]]
    BY <1>4 DEF PathOf, TreePath
  <1>6. q \in Seq(D) /\ Len(q) >= 1 /\ Len(p) >= 1
    BY <1>4, <1>a DEF PathOf, TreePath
  <1>b. PICK e : e = N[k].entry
    OBVIOUS
  <1>7. e \in D
    <2>1. Len(q) \in 1 .. Len(q)
      BY <1>6, LenProperties
    <2>2. QED
      BY <1>5, <1>6, <1>b, <2>1, ElementOfSeq
  <1>8. q = Append(p, e)
    BY <1>2, <1>a, <1>b
  <1>9. /\ Len(p) \in Nat /\ Len(q) = Len(p) + 1 /\ \A i \in 1 .. Len(p) : q[i] = p[i]
    BY <1>4, <1>7, <1>8, Added
  <1>c. PICK l : l = Len(p)
    OBVIOUS
  <1>10. l \in Nat /\ l \in 1 .. l /\ l + 1 \in 2 .. Len(q) /\ (l + 1) - 1 = l /\ Len(q) = l + 1
    BY <1>6, <1>9, <1>c
  <1>11. q[l + 1] \in t.kids[q[l]] /\ q[l] = p[l]
    BY <1>5, <1>9, <1>10, <1>c
  <1>12. e \in t.kids[N[a].entry]
    BY <1>5, <1>10, <1>11, <1>b, <1>c
  <1>13. QED
    BY <1>2, <1>5, <1>12, <1>a, <1>b

\* Two nodes with one parent and one stored name are the same, or were trimmed.
LEMMA SiblingsDiffer ==
    ASSUME tree \in Trees, nodes \in Seq(Node), NEW P, Pathed(tree, nodes, P),
           NEW j \in 2 .. Len(nodes), NEW k \in 2 .. Len(nodes)
    PROVE  Sole(j, k)
  <1> SUFFICES ASSUME nodes[j].parentId = nodes[k].parentId, nodes[j].name = nodes[k].name,
                      ~SameTrimmed(nodes[nodes[k].parentId + 1].entry)
               PROVE  j = k
    BY DEF Sole
  <1>a. PICK d, e, f, p : /\ d = nodes[nodes[k].parentId + 1].entry /\ e = nodes[j].entry
                          /\ f = nodes[k].entry /\ p = P[nodes[k].parentId + 1]
    OBVIOUS
  <1>1. e \in tree.kids[d] /\ nodes[j].name = tree.trim[e] /\ P[j] = Append(p, e)
    <2>1. /\ nodes[j].entry \in tree.kids[nodes[nodes[j].parentId + 1].entry]
          /\ nodes[j].name = tree.trim[nodes[j].entry]
          /\ P[j] = Append(P[nodes[j].parentId + 1], nodes[j].entry)
      BY EntryOfParent, Zenon
    <2>2. QED
      BY <1>a, <2>1, Zenon
  <1>2. f \in tree.kids[d] /\ nodes[k].name = tree.trim[f] /\ P[k] = Append(p, f)
    <2>1. /\ nodes[k].entry \in tree.kids[nodes[nodes[k].parentId + 1].entry]
          /\ nodes[k].name = tree.trim[nodes[k].entry]
          /\ P[k] = Append(P[nodes[k].parentId + 1], nodes[k].entry)
      BY EntryOfParent, Zenon
    <2>2. QED
      BY <1>a, <2>1, Zenon
  <1>3. e = f
    BY <1>1, <1>2, <1>a DEF SameTrimmed
  <1>4. P[j] = P[k] /\ j \in 1 .. Len(nodes) /\ k \in 1 .. Len(nodes)
    BY <1>1, <1>2, <1>3, LenProperties
  <1>5. QED
    BY <1>4 DEF Pathed

\* The invariant says what TreeFaithful does.
LEMMA TreeInvFaithful ==
    Inv /\ TreeInv => TreeFaithful
  <1> SUFFICES ASSUME Inv, TreeInv, result = "SUCCESS"
               PROVE  /\ {NodePath(k) : k \in 1 .. Len(nodes)} = {p \in TreePaths : ~Passed(p)}
                      /\ \A j, k \in 1 .. Len(nodes) : NodePath(j) = NodePath(k) => j = k
                      /\ \A j, k \in 2 .. Len(nodes) : Sole(j, k)
    BY DEF TreeFaithful, Sole
  <1>1. pc = "ended" /\ TypeInv /\ tree \in Trees /\ nodes \in Seq(Node) /\ Live
    BY DEF Inv, EndInv, TypeInv, Live
  <1>2. stack = <<>> /\ Walked(tree, nodes, stack, skipped)
    BY <1>1 DEF TreeInv
  <1>3. PICK P : Pathed(tree, nodes, P)
    BY <1>2 DEF Walked
  <1>4. Done(tree, nodes, skipped, P)
    BY <1>2, <1>3 DEF Done, Walked
  <1>5. \A k \in 1 .. Len(nodes) : NodePath(k) = P[k]
    BY <1>1, <1>3, NodePathIs
  <1>6. ASSUME NEW p PROVE Passed(p) <=> Missed(nodes, skipped, P, p)
    <2>1. \A s \in skipped : s[1] + 1 \in 1 .. Len(nodes)
      <3>1. skipped \subseteq Nat \X Names /\ \A x \in skipped : x[1] < Len(nodes)
        BY <1>2 DEF Walked, Taken
      <3>2. Len(nodes) \in Nat /\ \A x \in skipped : x[1] \in Nat
        BY <1>1, <3>1, LenProperties
      <3>3. QED
        BY <3>1, <3>2
    <2>2. \A s \in skipped : NodePath(s[1] + 1) = P[s[1] + 1]
      BY <1>5, <2>1
    <2>3. QED
      BY <2>2 DEF Passed, Missed
  <1>7. ASSUME NEW k \in 1 .. Len(nodes) PROVE P[k] \in {p \in TreePaths : ~Passed(p)}
    <2>1. PathOf(tree, nodes[k], P[k])
      BY <1>3 DEF Pathed
    <2>2. /\ TreePath(tree, P[k]) /\ Len(P[k]) <= DepthMax + 1
          /\ tree.kind[P[k][Len(P[k])]] # "other"
      BY <2>1 DEF PathOf, KindOf
    <2>3. P[k] \in TreePaths
      BY <1>1, <2>2, TreePathsAre
    <2>4. ~Missed(nodes, skipped, P, P[k])
      BY <1>1, <1>4, NodeNotMissed
    <2>5. QED
      BY <1>6, <2>3, <2>4
  <1>8. ASSUME NEW p \in {x \in TreePaths : ~Passed(x)}
        PROVE  \E k \in 1 .. Len(nodes) : P[k] = p
    <2>1. TreePath(tree, p) /\ tree.kind[p[Len(p)]] # "other"
      BY <1>1, TreePathsAre
    <2>2. ~Missed(nodes, skipped, P, p)
      BY <1>6
    <2>3. p \in Seq(DOMAIN tree.kind) /\ Len(p) \in 1 .. Len(p)
      BY <2>1, LenProperties DEF TreePath
    <2>4. SubSeq(p, 1, Len(p)) = p
      BY <2>3, WholeBeginning
    <2>5. \E k \in 1 .. Len(nodes) : P[k] = SubSeq(p, 1, Len(p))
      BY <1>1, <1>4, <2>1, <2>2, <2>3, BeginningsHaveNodes
    <2>6. QED
      BY <2>4, <2>5
  <1>9. {NodePath(k) : k \in 1 .. Len(nodes)} = {p \in TreePaths : ~Passed(p)}
    BY <1>5, <1>7, <1>8
  <1>10. \A j, k \in 1 .. Len(nodes) : P[j] = P[k] => j = k
    BY <1>3 DEF Pathed
  <1>11. \A j, k \in 2 .. Len(nodes) : Sole(j, k)
    BY <1>1, <1>3, SiblingsDiffer
  <1>12. QED
    BY <1>5, <1>9, <1>10, <1>11

\* An image that mkrofs reports as made has each path of the source directory
\* once, less what could not be read and what is below it: no entry is forgotten
\* or taken twice, however deep the directories are and whatever links there are.
\* A name in a directory has one node, unless two of its names differ only behind
\* the bytes that node->name holds.
THEOREM TreesStayFaithful ==
    Spec => []TreeFaithful
  <1>1. Init => TreeInv
    BY DEF Init, TreeInv
  <1>2. Spec => []TreeInv
    BY <1>1, NextKeepsTree, Invariance, PTL DEF Spec
  <1>3. QED
    BY <1>2, TreeInvFaithful, Invariance, PTL

=============================================================================
