------------------------------- MODULE Mkrofs -------------------------------
(***************************************************************************)
(* mkrofs (mkrofs/mkrofs.c): the image of a read-only file system made     *)
(* from a directory.                                                       *)
(*                                                                         *)
(* processDir walks the directory and writes the contents of the files     *)
(* behind the space kept for the header while it builds the index in       *)
(* memory; then come padding, index and, last, the header.  The recursion  *)
(* of processDir is an explicit stack.  The source directory is a graph,   *)
(* since stat() follows symbolic links, and its files may change while     *)
(* they are copied.                                                        *)
(*                                                                         *)
(* Sizes are scaled to cells: HdrSz for the header, NodeSz for a node of   *)
(* the index and the alignment, Chunk for common.buf.  Offsets and sizes   *)
(* are 32-bit numbers: modulo OffMod.                                      *)
(***************************************************************************)
EXTENDS Integers, Sequences, FiniteSets

CONSTANTS Trees,        \* source directories: [root, kind, kids, size, trim],
                        \* trim[e] is what fits in node->name of e's name
          DepthMax,     \* common.depthMax
          Grow,         \* nodes added by one realloc: 128
          HdrSz, NodeSz, Chunk, OffMod,
          MaxSize,      \* the size a file may grow to
          MaxFaults     \* failing calls and changes of files

ASSUME MkrofsAssumption ==
    /\ {DepthMax, Grow, HdrSz, NodeSz, Chunk, OffMod} \subseteq Nat \ {0}
    /\ OffMod % NodeSz = 0 /\ Grow > 1 /\ MaxSize \in Nat /\ MaxFaults \in Nat
ASSUME TreesAssumption ==
    \A t \in Trees : /\ t.root \in DOMAIN t.kids /\ t.kind[t.root] = "dir"
                     /\ \A d \in DOMAIN t.kids : t.kids[d] \subseteq DOMAIN t.kind
                     /\ \A e \in DOMAIN t.kind : t.kind[e] = "dir" <=> e \in DOMAIN t.kids
                     /\ \A e \in DOMAIN t.kind : t.kind[e] = "file" <=> e \in DOMAIN t.size
                     /\ DOMAIN t.kids \cup DOMAIN t.size \subseteq DOMAIN t.kind
                     /\ \A e \in DOMAIN t.size : t.size[e] \in Nat

VARIABLES
    tree, size,     \* the source directory; the files' sizes now
    pc, result,     \* where main() is; its exit code
    stack,          \* calls of processDir: [id, rest], rest still to be read
    nextId, currOffset,
    nodes,          \* common.nodes, of which allocated is the capacity
    allocated,
    pos,            \* how much of the last node's file has been copied
    image,          \* the image file behind what fseek skipped for the header
    hdrbuf,         \* the header in the stream's buffer
    header,         \* the header in the image file
    faults,
    changed,        \* nodes whose file changed or failed while it was copied
    skipped         \* entries passed over: <<id of the directory, name>>

walkvars == <<stack, nextId, currOffset, nodes, allocated, pos>>
vars == <<tree, size, pc, result, walkvars, image, hdrbuf, header, faults, changed, skipped>>

None == [size |-> -1, index |-> -1, count |-> -1, crc |-> <<>>]
Lost == [None EXCEPT !.size = -2]     \* fclose could not write it

Fault == faults < MaxFaults /\ faults' = faults + 1

\* Every error ends in main's error branch; the file stays as it is.
Fail == pc' = "ended" /\ result' = "FAILURE" /\ stack' = <<>>

-----------------------------------------------------------------------------
(* The walk.                                                               *)

\* Mutant: the array grows when it is over-full.
node_alloc_late(nd) ==
    /\ nodes' = Append(nodes, nd)
    /\ allocated' = IF Len(nodes) > allocated THEN allocated + Grow ELSE allocated

node_alloc(nd) ==
    /\ nodes' = Append(nodes, nd)
    /\ allocated' = IF Len(nodes) + 1 >= allocated THEN allocated + Grow ELSE allocated

\* A node keeps the first bytes of the name only; entry is what it was made for.
DirNode(parent, e) ==
    [id |-> nextId, parentId |-> parent, entry |-> e, name |-> tree.trim[e], dir |-> TRUE,
     offset |-> 0, size |-> 0]
FileNode(parent, e) ==
    [id |-> nextId, parentId |-> parent, entry |-> e, name |-> tree.trim[e], dir |-> FALSE,
     offset |-> currOffset, size |-> size[e] % OffMod]

\* Mutant: a directory below the limit is left out, and the walk goes on.
processDir_cut(d, parent, st) ==
    /\ UNCHANGED <<result, faults>>
    /\ IF Len(st) >= DepthMax
       THEN stack' = st /\ UNCHANGED <<pc, nextId, nodes, allocated>>
       ELSE /\ nextId' = nextId + 1 /\ node_alloc(DirNode(parent, d))
            /\ stack' = Append(st, [id |-> nextId, rest |-> tree.kids[d]])
            /\ pc' = "walk"

\* processDir up to its loop, called with the calls in st above it.  The number
\* is taken before opendir; opendir, stat and node_alloc may fail, and so does
\* basestrncpy for a path longer than its buffer.
processDir(d, parent, st) ==
    \/ /\ Len(st) >= DepthMax /\ Fail
       /\ UNCHANGED <<nextId, nodes, allocated, faults>>
    \/ /\ Len(st) < DepthMax /\ nextId' = nextId + 1
       /\ \/ Fault /\ Fail /\ UNCHANGED <<nodes, allocated>>
          \/ /\ node_alloc(DirNode(parent, d))
             /\ stack' = Append(st, [id |-> nextId, rest |-> tree.kids[d]])
             /\ pc' = "walk" /\ UNCHANGED <<result, faults>>

Top == stack[Len(stack)]
Without(e) == [stack EXCEPT ![Len(stack)].rest = @ \ {e}]

\* realloc of the path fails.
entry_nopath ==
    /\ pc = "walk" /\ Top.rest # {} /\ Fault /\ Fail
    /\ UNCHANGED <<tree, size, nextId, currOffset, nodes, allocated, pos, image,
                   hdrbuf, header, changed, skipped>>

\* stat or fopen fails: the entry is passed over.
entry_unreadable(e) ==
    /\ pc = "walk" /\ e \in Top.rest /\ Fault
    /\ stack' = Without(e) /\ skipped' = skipped \cup {<<Top.id, e>>}
    /\ UNCHANGED <<tree, size, pc, result, nextId, currOffset, nodes, allocated, pos,
                   image, hdrbuf, header, changed>>

entry_directory(e) ==
    /\ pc = "walk" /\ e \in Top.rest /\ tree.kind[e] = "dir"
    /\ processDir(e, Top.id, Without(e))
    /\ UNCHANGED <<tree, size, currOffset, pos, image, hdrbuf, header, changed, skipped>>

\* A regular file that could be opened: its node, with the size stat gave.
entry_file(e) ==
    /\ pc = "walk" /\ e \in Top.rest /\ tree.kind[e] = "file"
    /\ nextId' = nextId + 1
    /\ \/ Fault /\ Fail /\ UNCHANGED <<nodes, allocated, pos>>
       \/ /\ node_alloc(FileNode(Top.id, e))
          /\ stack' = Without(e) /\ pc' = "copy" /\ pos' = 0
          /\ UNCHANGED <<result, faults>>
    /\ UNCHANGED <<tree, size, currOffset, image, hdrbuf, header, changed, skipped>>

\* Neither a directory nor a regular file.
entry_other(e) ==
    /\ pc = "walk" /\ e \in Top.rest /\ tree.kind[e] = "other"
    /\ stack' = Without(e)
    /\ UNCHANGED <<tree, size, pc, result, nextId, currOffset, nodes, allocated, pos,
                   image, hdrbuf, header, faults, changed, skipped>>

\* The end of the directory: processDir returns, main goes on after the last.
leave_directory ==
    /\ pc = "walk" /\ Top.rest = {}
    /\ stack' = SubSeq(stack, 1, Len(stack) - 1)
    /\ pc' = IF Len(stack) = 1 THEN "padding" ELSE "walk"
    /\ UNCHANGED <<tree, size, result, nextId, currOffset, nodes, allocated, pos,
                   image, hdrbuf, header, faults, changed, skipped>>

File == nodes[Len(nodes)].entry
MinOf(x, y) == IF x < y THEN x ELSE y
Cells(f, from, n) == [i \in 1 .. n |-> <<f, from + i>>]

\* Mutant: the offset moves by the size that stat gave, at the end of the file.
copy_chunk_bysize ==
    /\ pc = "copy"
    /\ LET n == IF size[File] > pos THEN MinOf(Chunk, size[File] - pos) ELSE 0 IN
       /\ image' = image \o Cells(File, pos, n) /\ pos' = pos + n
       /\ pc' = IF n < Chunk THEN "walk" ELSE "copy"
       /\ currOffset' = IF n < Chunk THEN (currOffset + nodes[Len(nodes)].size) % OffMod
                                     ELSE currOffset
    /\ UNCHANGED <<tree, size, result, stack, nextId, nodes, allocated, hdrbuf,
                   header, faults, changed, skipped>>

\* Mutant: an empty read does not end the loop.
copy_chunk_endless ==
    /\ pc = "copy" /\ size[File] > pos
    /\ LET n == MinOf(Chunk, size[File] - pos) IN
       /\ image' = image \o Cells(File, pos, n)
       /\ currOffset' = (currOffset + n) % OffMod /\ pos' = pos + n
    /\ UNCHANGED <<tree, size, pc, result, stack, nextId, nodes, allocated, hdrbuf,
                   header, faults, changed, skipped>>

\* One turn of the copying loop, with the turn that meets the end of the file.
\* An error of fread is taken for it; one of fwrite ends the program.
copy_chunk ==
    /\ pc = "copy"
    /\ LET n == IF size[File] > pos THEN MinOf(Chunk, size[File] - pos) ELSE 0 IN
       \/ /\ image' = image \o Cells(File, pos, n)
          /\ currOffset' = (currOffset + n) % OffMod /\ pos' = pos + n
          /\ pc' = IF n < Chunk THEN "walk" ELSE "copy"
          /\ UNCHANGED <<result, stack, faults, changed>>
       \/ /\ Fault /\ pc' = "walk" /\ changed' = changed \cup {Len(nodes)}
          /\ \E k \in 0 .. n : /\ image' = image \o Cells(File, pos, k)
                              /\ currOffset' = (currOffset + k) % OffMod /\ pos' = pos + k
          /\ UNCHANGED <<result, stack>>
       \/ /\ n > 0 /\ Fault /\ Fail
          /\ UNCHANGED <<image, currOffset, pos, changed>>
    /\ UNCHANGED <<tree, size, nextId, nodes, allocated, hdrbuf, header, skipped>>

-----------------------------------------------------------------------------
(* main.                                                                   *)

main_start ==
    /\ pc = "start"
    /\ \/ Fault /\ Fail /\ UNCHANGED <<nextId, nodes, allocated>>     \* fopen, fseek
       \/ processDir(tree.root, -1, <<>>)
    /\ UNCHANGED <<tree, size, currOffset, pos, image, hdrbuf, header, changed, skipped>>

AlignUp(n)  == ((n + NodeSz - 1) \div NodeSz) * NodeSz
indexOffset == AlignUp(currOffset) % OffMod

\* Mutant: the size, and so the checksum, leaves the index out.
fileSize_noindex == indexOffset

fileSize    == (indexOffset + NodeSz * Len(nodes)) % OffMod

\* What is written next, and the place in main after it.
Written(cells, next) ==
    /\ \/ image' = image \o cells /\ pc' = next /\ UNCHANGED <<result, stack, faults>>
       \/ Fault /\ Fail /\ UNCHANGED image
    /\ UNCHANGED <<tree, size, nextId, currOffset, nodes, allocated, pos, hdrbuf,
                   header, changed, skipped>>

write_padding ==
    /\ pc = "padding"
    /\ Written([i \in 1 .. (indexOffset - currOffset) % OffMod |-> <<"pad", i>>], "index")

write_nodes_tree ==
    /\ pc = "index"
    /\ Written([i \in 1 .. NodeSz * Len(nodes) |->
                   <<nodes[((i - 1) \div NodeSz) + 1], (i - 1) % NodeSz>>], "header")

\* The checksum covers what fread gives of fileSize bytes; fewer is an error.
write_header ==
    /\ pc = "header"
    /\ LET todo == (fileSize - HdrSz) % OffMod IN
       \/ /\ todo <= Len(image)
          /\ hdrbuf' = [size |-> fileSize, index |-> indexOffset, count |-> Len(nodes),
                        crc |-> SubSeq(image, 1, todo)]
          /\ pc' = "close" /\ UNCHANGED <<result, stack, faults>>
       \/ /\ \/ todo > Len(image) /\ UNCHANGED faults
             \/ Fault
          /\ Fail /\ UNCHANGED hdrbuf
    /\ UNCHANGED <<tree, size, nextId, currOffset, nodes, allocated, pos, image,
                   header, changed, skipped>>

\* fclose writes the header; its result is not looked at.
main_end ==
    /\ pc = "close" /\ pc' = "ended" /\ result' = "SUCCESS"
    /\ \/ header' = hdrbuf /\ UNCHANGED faults
       \/ header' = Lost /\ Fault
    /\ UNCHANGED <<tree, size, walkvars, image, hdrbuf, changed, skipped>>

-----------------------------------------------------------------------------
(* The rest of the machine.                                                *)

\* Somebody truncates the file that is being copied, or appends to it.
resize(f, n) ==
    /\ pc = "copy" /\ f = File /\ n # size[f] /\ Fault
    /\ size' = [size EXCEPT ![f] = n] /\ changed' = changed \cup {Len(nodes)}
    /\ UNCHANGED <<tree, pc, result, walkvars, image, hdrbuf, header, skipped>>

kill ==
    /\ pc # "ended" /\ pc' = "ended" /\ result' = "KILLED" /\ Fault
    /\ UNCHANGED <<tree, size, walkvars, image, hdrbuf, header, changed, skipped>>

Init ==
    /\ tree \in Trees /\ size = tree.size
    /\ pc = "start" /\ result = "" /\ stack = <<>>
    /\ nextId = 0 /\ currOffset = HdrSz % OffMod /\ nodes = <<>> /\ allocated = 0 /\ pos = 0
    /\ image = <<>> /\ hdrbuf = None /\ header = None
    /\ faults = 0 /\ changed = {} /\ skipped = {}

walk == \/ entry_nopath \/ leave_directory \/ copy_chunk
        \/ \E e \in Top.rest : \/ entry_unreadable(e) \/ entry_directory(e)
                               \/ entry_file(e) \/ entry_other(e)

main == \/ main_start
        \/ pc \in {"walk", "copy"} /\ walk
        \/ write_padding \/ write_nodes_tree \/ write_header \/ main_end

Next == \/ main \/ kill
        \/ \E f \in DOMAIN size, n \in 0 .. MaxSize : resize(f, n)

Spec == Init /\ [][Next]_vars /\ WF_vars(main)

-----------------------------------------------------------------------------
(* Properties.                                                             *)

\* The image is not longer than its 32-bit sizes can say.
Fits == HdrSz + Len(image) < OffMod

\* A cell of the image by its offset in the file, <<>> behind its end.
At(o) == IF o - HdrSz + 1 \in DOMAIN image THEN image[o - HdrSz + 1] ELSE <<>>

\* The copying of the last node's file is not over, or was broken off.
Partial(k) == k = Len(nodes) /\ (pc = "copy" \/ result \in {"FAILURE", "KILLED"})

\* Every file that did not change while it was copied is found in the image, at
\* the offset and with the size its node says, although a file before it was
\* shorter or longer than stat had said, or could not be read to its end.
FilesIntact ==
    Fits => \A k \in 1 .. Len(nodes) :
        ~nodes[k].dir /\ k \notin changed /\ ~Partial(k) =>
            \A i \in 1 .. nodes[k].size : At(nodes[k].offset + i - 1) = <<nodes[k].entry, i>>

\* The index as a reader takes it: the node with number i is the i-th, its
\* parent is a directory that stands before it, and the array never holds more
\* nodes than were allocated.
IndexSound ==
    /\ Len(nodes) <= allocated
    /\ \A k \in 1 .. Len(nodes) :
          /\ nodes[k].id = k - 1
          /\ k > 1 => nodes[k].parentId \in 0 .. k - 2 /\ nodes[nodes[k].parentId + 1].dir

\* The paths below a directory, and the path of a node in the index.
Further(t, paths) ==
    paths \cup {Append(p, e) : p \in {q \in paths : t.kind[q[Len(q)]] = "dir"}, e \in DOMAIN t.kind}
TreePaths ==
    LET upto[n \in 0 .. DepthMax] == IF n = 0 THEN {<<tree.root>>} ELSE Further(tree, upto[n - 1])
        Linked(p) == \A i \in 2 .. Len(p) : p[i] \in tree.kids[p[i - 1]]
    IN  {p \in upto[DepthMax] : Linked(p) /\ tree.kind[p[Len(p)]] # "other"}
NodePath(k) ==
    LET path[j \in 1 .. k] == IF j = 1 THEN <<nodes[1].entry>>
                              ELSE Append(path[nodes[j].parentId + 1], nodes[j].entry)
    IN  path[k]
Passed(p) == \E s \in skipped : \E i \in 2 .. Len(p) :
                 s[2] = p[i] /\ NodePath(s[1] + 1) = SubSeq(p, 1, i - 1)

\* Two entries of directory d whose names differ only behind what node->name holds.
SameTrimmed(d) == \E e, f \in tree.kids[d] : e # f /\ tree.trim[e] = tree.trim[f]

\* An image reported as made holds the whole source directory: every path once,
\* with the exception of entries that could not be read and what is below them.
\* A directory too deep, or one that contains itself, is never cut off silently.
\* Names are: a reader, who looks for a name in a directory, finds one node for
\* it at most, unless two names of that directory are the same when trimmed.
TreeFaithful ==
    result = "SUCCESS" =>
        /\ {NodePath(k) : k \in 1 .. Len(nodes)} = {p \in TreePaths : ~Passed(p)}
        /\ \A j, k \in 1 .. Len(nodes) : NodePath(j) = NodePath(k) => j = k
        /\ \A j, k \in 2 .. Len(nodes) :
              nodes[j].parentId = nodes[k].parentId /\ nodes[j].name = nodes[k].name =>
                  j = k \/ SameTrimmed(nodes[nodes[k].parentId + 1].entry)

\* The header comes last: a file with a header is a whole image, in which size,
\* index and checksum are right.  No failure or crash leaves a header behind,
\* and success without a header means that only fclose failed.
HeaderLast ==
    /\ result = "SUCCESS" => header # None
    /\ header \notin {None, Lost} =>
          /\ result = "SUCCESS"
          /\ Fits => /\ header.index % NodeSz = 0
                     /\ header.size = HdrSz + Len(image) /\ header.crc = image
                     /\ \A k \in 1 .. header.count :
                           At(header.index + (k - 1) * NodeSz) = <<nodes[k], 0>>

\* mkrofs ends, even if the source directory contains itself.
Terminates == <>(pc = "ended")
=============================================================================
