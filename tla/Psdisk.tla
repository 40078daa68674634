------------------------------- MODULE Psdisk -------------------------------
(***************************************************************************)
(* psdisk (psdisk/psdisk.c): creates, updates and shows the partition      *)
(* table at the start of a memory image.                                   *)
(*                                                                         *)
(* A behaviour is a series of calls of the program on one image, each with *)
(* its own options.  The options are taken one after the other into a list *)
(* of partitions to save and to remove; an update then merges the table of *)
(* the image into the list, one partition after the other, writes the      *)
(* table in place and reads it back.                                       *)
(* libptable, which checks and encodes a table, is not part of this        *)
(* repository: Valid says what it is used for.                             *)
(***************************************************************************)
EXTENDS Integers, Sequences, FiniteSets, SequencesExt

CONSTANTS Parts,        \* the partitions a -p option may declare
          Names,        \* the names a -r option may give
          Mems,         \* the memories a -m option may declare: [memsz, blksz]
          TableHdr, PartSz,     \* ptable_size(n) = TableHdr + n * PartSz
          MaxOpts,      \* -p and -r options of one call
          MaxRuns,      \* calls of the program
          MaxFaults     \* I/O errors and kills

ASSUME PsdiskAssumption ==
    /\ \A p \in Parts : p.name \in Names /\ p.offset \in Nat /\ p.size \in Nat
    /\ \A m \in Mems : m.memsz \in Nat /\ m.blksz \in Nat \ {0}
    /\ {TableHdr, PartSz, MaxOpts, MaxRuns, MaxFaults} \subseteq Nat

VARIABLES
    file,       \* the image: its kind and, if it holds a table, the partitions
    pc,         \* "exit", "opts", "update", "merge", "create" or "verify"
    ret,        \* the result of the call that ended last
    opts,       \* psdisk_common.opts: which kinds of option were given
    list,       \* psdisk_common.list, its head first
    count,      \* psdisk_common.count
    mem,        \* psdisk_common.memsz and blksz
    turn,       \* the partition of the image that is merged next
    before,     \* the image when the call began
    asked,      \* the -p and -r options of the call
    calls,      \* calls so far
    faults,     \* faults so far
    hit         \* a fault hit the call

common == <<opts, list, count, mem>>
vars   == <<file, pc, ret, common, turn, before, asked, calls, faults, hit>>

Absent  == [kind |-> "absent",  parts |-> <<>>]
Empty   == [kind |-> "empty",   parts |-> <<>>]
Damaged == [kind |-> "damaged", parts |-> <<>>]
Table(parts) == [kind |-> "table", parts |-> parts]

-----------------------------------------------------------------------------
(* The partition table.                                                    *)

ptable_size(n) == TableHdr + n * PartSz

\* ptable_serialize and ptable_deserialize accept partitions that lie inside
\* the memory, begin and end with a block, have a name, and share neither
\* names nor memory.
Valid(parts, m) ==
    /\ \A i \in 1 .. Len(parts) :
          /\ parts[i].name \in Names /\ parts[i].size > 0
          /\ parts[i].offset + parts[i].size <= m.memsz
          /\ parts[i].offset % m.blksz = 0 /\ parts[i].size % m.blksz = 0
    /\ \A i, j \in 1 .. Len(parts) : i # j =>
          /\ parts[i].name # parts[j].name
          /\ \/ parts[i].offset + parts[i].size <= parts[j].offset
             \/ parts[j].offset + parts[j].size <= parts[i].offset

\* psdisk_readImg finds a table.
psdisk_readImg(f, m) ==
    /\ f.kind = "table"
    /\ ptable_size(Len(f.parts)) <= m.blksz
    /\ Valid(f.parts, m)

-----------------------------------------------------------------------------
(* The list.                                                               *)

Node(part, status) == [part |-> part, status |-> status]
NoPart == [name |-> "", offset |-> 0, size |-> 0]

\* Where a node to save goes in the table: behind the ones before it.
Saves(l)    == {k \in 1 .. Len(l) : l[k].status = "save"}
Place(l, k) == Cardinality({j \in Saves(l) : j <= k})

\* The first node with the name of a partition of the image decides.
Matching(l, p) == {i \in 1 .. Len(l) : l[i].part.name = p.name}
First(S) == CHOOSE i \in S : \A j \in S : i <= j

\* Mutant: the two kinds of option are taken for one another.
Merge_swapped(p) ==
    LET S == Matching(list, p) IN
    \/ S = {} /\ list' = <<Node(p, "save")>> \o list /\ count' = count + 1
    \/ /\ S # {} /\ list[First(S)].status = "save"
       /\ list' = RemoveAt(list, First(S)) /\ count' = count - 1
    \/ S # {} /\ list[First(S)].status = "remove" /\ UNCHANGED <<list, count>>

\* One partition of the image is merged into the list: kept, removed together
\* with the option that says so, or replaced by what the user declared.
Merge(p) ==
    LET S == Matching(list, p) IN
    \/ S = {} /\ list' = <<Node(p, "save")>> \o list /\ count' = count + 1
    \/ /\ S # {} /\ list[First(S)].status = "remove"
       /\ list' = RemoveAt(list, First(S)) /\ count' = count - 1
    \/ S # {} /\ list[First(S)].status = "save" /\ UNCHANGED <<list, count>>

-----------------------------------------------------------------------------
(* The end of a call.                                                      *)

Exit(r) == pc' = "exit" /\ ret' = r /\ UNCHANGED <<common, turn, before, asked, calls>>

NoFault == UNCHANGED <<faults, hit>>
Fault   == faults < MaxFaults /\ faults' = faults + 1 /\ hit' = TRUE

CREATE_IMG == "exists" \notin opts /\ {"mem", "parts"} \subseteq opts /\ "remove" \notin opts
UPDATE_IMG == {"exists", "mem"} \subseteq opts /\ opts \cap {"parts", "remove"} # {}
READ_IMG   == {"exists", "mem"} \subseteq opts /\ opts \cap {"parts", "remove"} = {}

\* Mutant: a file is removed whenever the call fails.
Failed_remove(f) == file' = Absent

\* psdisk_handleImg removes a file only if this call was to create it.
Failed(f) == file' = IF CREATE_IMG THEN Absent ELSE f

-----------------------------------------------------------------------------
(* A call: first the options.                                              *)

psdisk_openImg ==
    /\ pc = "exit" /\ calls < MaxRuns /\ calls' = calls + 1
    /\ before' = file /\ asked' = <<>> /\ list' = <<>> /\ count' = 0
    /\ opts' = IF file = Absent THEN {} ELSE {"exists"}
    /\ \/ /\ pc' = "opts" /\ file' = IF file = Absent THEN Empty ELSE file
          /\ hit' = FALSE /\ UNCHANGED <<faults, ret>>
       \/ Fault /\ pc' = "exit" /\ ret' = -1 /\ UNCHANGED file
    /\ UNCHANGED <<mem, turn>>

\* A second -m ends the call.
psdisk_parseMem(m) ==
    /\ pc = "opts" /\ NoFault /\ UNCHANGED file
    /\ \/ /\ "mem" \notin opts
          /\ mem' = m /\ opts' = opts \cup {"mem"}
          /\ UNCHANGED <<pc, ret, list, count, turn, before, asked, calls>>
       \/ "mem" \in opts /\ Exit(-1)

psdisk_parseToSave(p) ==
    /\ pc = "opts" /\ Len(asked) < MaxOpts
    /\ list' = <<Node(p, "save")>> \o list /\ count' = count + 1
    /\ opts' = opts \cup {"parts"} /\ asked' = Append(asked, Node(p, "save"))
    /\ NoFault /\ UNCHANGED <<file, pc, ret, mem, turn, before, calls>>

psdisk_parseToRm(n) ==
    /\ pc = "opts" /\ Len(asked) < MaxOpts
    /\ list' = <<Node([NoPart EXCEPT !.name = n], "remove")>> \o list /\ count' = count + 1
    /\ opts' = opts \cup {"remove"}
    /\ asked' = Append(asked, Node([NoPart EXCEPT !.name = n], "remove"))
    /\ NoFault /\ UNCHANGED <<file, pc, ret, mem, turn, before, calls>>

\* An option that does not parse: a file that openImg has made is left behind.
bad_argument == pc = "opts" /\ NoFault /\ Exit(-1) /\ UNCHANGED file

\* -h, and an option that is none.
help_or_unknown ==
    /\ pc = "opts" /\ NoFault
    /\ \E r \in {0, -1} : Exit(r)
    /\ file' = IF "exists" \in opts THEN file ELSE Absent

-----------------------------------------------------------------------------
(* Then the work.                                                          *)

psdisk_handleImg ==
    /\ pc = "opts" /\ NoFault
    /\ \/ /\ CREATE_IMG /\ pc' = "create"
          /\ UNCHANGED <<file, ret, common, turn, before, asked, calls>>
       \/ /\ UPDATE_IMG /\ pc' = "update"
          /\ UNCHANGED <<file, ret, common, turn, before, asked, calls>>
       \/ /\ READ_IMG /\ Exit(IF psdisk_readImg(file, mem) THEN 0 ELSE -1)
          /\ UNCHANGED file
       \/ /\ ~CREATE_IMG /\ ~UPDATE_IMG /\ ~READ_IMG
          /\ Exit(-1)
          /\ file' = IF "exists" \in opts THEN file ELSE Absent

psdisk_updateImg ==
    /\ pc = "update" /\ NoFault /\ UNCHANGED file
    /\ \/ ~psdisk_readImg(file, mem) /\ Exit(-1)
       \/ /\ psdisk_readImg(file, mem) /\ pc' = "merge" /\ turn' = 1
          /\ UNCHANGED <<ret, common, before, asked, calls>>

\* The loop over the partitions of the image.  A removal that is left over at
\* its end names none of them.
psdisk_updatePartsList ==
    /\ pc = "merge" /\ NoFault /\ UNCHANGED file
    /\ \/ /\ turn <= Len(file.parts) /\ Merge(file.parts[turn]) /\ turn' = turn + 1
          /\ UNCHANGED <<pc, ret, opts, mem, before, asked, calls>>
       \/ /\ turn > Len(file.parts) /\ Saves(list) # 1 .. Len(list)
          /\ Exit(-1)
       \/ /\ turn > Len(file.parts) /\ Saves(list) = 1 .. Len(list)
          /\ pc' = "create" /\ UNCHANGED <<ret, common, turn, before, asked, calls>>

\* The table has room for count partitions.
NewParts ==
    [i \in 1 .. count |->
        IF \E k \in Saves(list) : Place(list, k) = i
        THEN list[CHOOSE k \in Saves(list) : Place(list, k) = i].part ELSE NoPart]

psdisk_createPartsTable ==
    /\ pc = "create"
    /\ LET fits == ptable_size(count) <= mem.blksz /\ Valid(NewParts, mem)
       IN  \/ ~fits /\ NoFault /\ Exit(-1) /\ Failed(file)
           \/ fits /\ Fault /\ Exit(-1) /\ \E f \in {file, Damaged} : Failed(f)
           \/ /\ fits /\ NoFault
              /\ pc' = "verify" /\ file' = Table(NewParts)
              /\ UNCHANGED <<ret, common, turn, before, asked, calls>>

\* What fwrite was given reaches the file when the table is read back: until
\* then the file may hold the new table, the old contents or a part of each.
Unflushed == {file, Damaged, IF before = Absent THEN Empty ELSE before}

psdisk_verifyPartsTable ==
    /\ pc = "verify"
    /\ LET same == /\ psdisk_readImg(file, mem)
                   /\ \A k \in Saves(list) :
                         /\ Place(list, k) <= count
                         /\ list[k].part = file.parts[Place(list, k)]
       IN  \/ same /\ NoFault /\ Exit(0) /\ UNCHANGED file
           \/ ~same /\ NoFault /\ Exit(-1) /\ Failed(file)
           \/ same /\ Fault /\ Exit(-1) /\ \E f \in Unflushed : Failed(f)

\* The program is killed.  What it has written may still be in its buffers, or
\* be in the file in part.
killed ==
    /\ pc # "exit" /\ Fault /\ Exit(-1)
    /\ file' \in IF pc = "verify" THEN Unflushed ELSE {file}

-----------------------------------------------------------------------------
Init == /\ file = Absent /\ pc = "exit" /\ ret = 0
        /\ opts = {} /\ list = <<>> /\ count = 0 /\ mem \in Mems /\ turn = 1
        /\ before = Absent /\ asked = <<>> /\ calls = 0 /\ faults = 0 /\ hit = FALSE

Next == \/ psdisk_openImg \/ bad_argument \/ help_or_unknown
        \/ \E m \in Mems : psdisk_parseMem(m)
        \/ \E p \in Parts : psdisk_parseToSave(p)
        \/ \E n \in Names : psdisk_parseToRm(n)
        \/ psdisk_handleImg \/ psdisk_updateImg \/ psdisk_updatePartsList
        \/ psdisk_createPartsTable \/ psdisk_verifyPartsTable
        \/ killed

Spec == Init /\ [][Next]_vars

-----------------------------------------------------------------------------
(* Properties.                                                             *)

Declared == {asked[i].part : i \in {i \in 1 .. Len(asked) : asked[i].status = "save"}}
Removed  == {asked[i].part.name : i \in {i \in 1 .. Len(asked) : asked[i].status = "remove"}}
OldParts == {before.parts[i] : i \in 1 .. Len(before.parts)}

\* A call with -p or -r options that says it succeeded and changed the file (an
\* -h among them ends it with success and the file as it was) leaves a readable
\* table with exactly what was declared and, of what was there, what was neither
\* removed nor declared anew; whatever was to be removed was there.
UpdateExact ==
    pc = "exit" /\ ret = 0 /\ (CREATE_IMG \/ UPDATE_IMG) /\ file # before =>
        /\ psdisk_readImg(file, mem)
        /\ {file.parts[i] : i \in 1 .. Len(file.parts)} =
              Declared \cup {p \in OldParts :
                                p.name \notin Removed \cup {d.name : d \in Declared}}
        /\ Removed \subseteq {p.name : p \in OldParts}

\* A call that fails, other than by an I/O error or a kill, leaves an image that
\* was there as it was, and where there was none at most an empty file.
FailureHarmless ==
    pc = "exit" /\ ret # 0 /\ ~hit =>
        IF before = Absent THEN file \in {Absent, Empty} ELSE file = before
=============================================================================
