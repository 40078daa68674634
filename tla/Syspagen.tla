------------------------------ MODULE Syspagen ------------------------------
(***************************************************************************)
(* syspagen (syspagen/syspagen.c): builds the syspage, the table of memory *)
(* maps and programs a Phoenix-RTOS kernel starts from, out of two scripts *)
(* and writes it into a kernel image.                                      *)
(*                                                                         *)
(* The syspage is a buffer in which objects are allocated one behind the   *)
(* other; maps and programs form two rings linked by pointers inside it.   *)
(* A command of a script is one action: the program is sequential, and a   *)
(* command that fails ends it.                                             *)
(***************************************************************************)
EXTENDS Integers, Sequences, FiniteSets

CONSTANTS AddrMod32,     \* 2^32: addresses of a 32-bit syspage are kept modulo this
          IdMod,         \* 2^8: map identifiers are uint8_t
          Align,         \* sizeof(long long)
          SyspageSz, MapSz, ProgSz,   \* sizeof of the structures
          MaxSz,         \* sysgen_common.maxsz
          Pkernel, Offs, \* sysgen_common.pkernel, sysgen_common.offs
          Names,         \* names of maps and aliases
          NameSz,        \* their sizes, the terminating NUL included
          Commands,      \* the commands the scripts are made of
          MaxAliases     \* bound on alias commands

ASSUME SyspagenAssumption ==
    /\ {AddrMod32, IdMod, Align, SyspageSz, MapSz, ProgSz} \subseteq Nat \ {0}
    /\ {MaxSz, Pkernel, Offs, MaxAliases} \subseteq Nat
    /\ NameSz \in [Names -> Nat \ {0}]
    /\ SyspageSz % Align = 0 /\ SyspageSz <= MaxSz

\* What the commands' parsers let through (strtoul, the lists of names).
ASSUME CommandsAssumption ==
    \A c \in Commands :
        /\ c.cmd = "alias" => c.name \in Names /\ c.addr \in Nat /\ c.size \in Nat
        /\ c.cmd = "map" => c.name \in Names /\ c.start \in Nat /\ c.end \in Nat
        /\ c.cmd = "app" => /\ c.name \in Names /\ c.exec \in BOOLEAN
                            /\ c.imaps \in Seq(Names) /\ c.dmaps \in Seq(Names)

VARIABLES
    arch,       \* sysgen_common.type: 32 or 64
    phase,      \* "preinit", "user", "write", "written", "failed"
    image,      \* the image file: "old", "new" or "partial"
    size,       \* syspage->size
    maps,       \* the map objects: pointer -> record
    mapHead,    \* syspage->maps
    progs, progHead,
    aliases,    \* sysgen_common.aliases, the latest first
    imgsz, console,
    mapList     \* the maps' pointers in the order of the map commands

vars == <<arch, phase, image, size, maps, mapHead, progs, progHead, aliases,
          imgsz, console, mapList>>

RUN(fun32, fun64) == IF arch = 32 THEN fun32 ELSE fun64

\* An address as the fields of the syspage hold it.
Addr(x) == RUN(x % AddrMod32, x)

-----------------------------------------------------------------------------
(* The buffer.                                                             *)

ALIGN_ADDR(a) == ((a + Align - 1) \div Align) * Align

\* buffAlloc: the size after allocating n more bytes, and whether that fits.
\* Mutant: the size is not rounded up.
After_unaligned(s, n) == s + n
After(s, n) == ALIGN_ADDR(s + n)
sysgen32_buffAlloc(s, n) == After(s, n) < MaxSz
sysgen64_buffAlloc(s, n) == After(s, n) < MaxSz
buffAlloc(s, n) == RUN(sysgen32_buffAlloc(s, n), sysgen64_buffAlloc(s, n))

\* The pointer that allocating at size s returns.
Base   == Pkernel + Offs
Ptr(s) == s + Base

-----------------------------------------------------------------------------
(* Rings.                                                                  *)

\* The objects a do-while loop over the ring visits: from the head along next.
Visited(objs, head) ==
    {p \in DOMAIN objs :
        head # 0 /\ \A S \in SUBSET DOMAIN objs :
            head \in S /\ (\A x \in S : objs[x].next \in S) => p \in S}

\* Mutant: the head's prev is left pointing at the object that was the last.
Linked_noprev(objs, head, p, o) ==
    LET last == IF head = 0 THEN p ELSE objs[head].prev
    IN  [x \in DOMAIN objs \cup {p} |->
            IF x = p THEN [o EXCEPT !.next = IF head = 0 THEN p ELSE head, !.prev = last]
            ELSE [objs[x] EXCEPT !.next = IF x = last THEN p ELSE @]]

\* The ring with object p, whose other fields are o, linked in before the head.
Linked(objs, head, p, o) ==
    LET last == IF head = 0 THEN p ELSE objs[head].prev
        first == IF head = 0 THEN p ELSE head
    IN  [x \in DOMAIN objs \cup {p} |->
            IF x = p THEN [o EXCEPT !.next = first, !.prev = last]
            ELSE [objs[x] EXCEPT !.next = IF x = last THEN p ELSE @,
                                 !.prev = IF x = head THEN p ELSE @]]

-----------------------------------------------------------------------------
(* The commands.  Fail is what a negative result of a command leads to:    *)
(* main() ends without touching the image.                                 *)

Parsing == phase \in {"preinit", "user"}

Fail == phase' = "failed" /\ UNCHANGED <<arch, image, maps, mapHead, progs, progHead,
                                         aliases, imgsz, console, mapList>>

\* A command with the wrong number of arguments or arguments that do not parse.
cmdWrong == Parsing /\ Fail /\ UNCHANGED size

\* The latest alias of that name, if there is one.
sysgen_aliasFind(name) ==
    {i \in 1 .. Len(aliases) : /\ aliases[i].name = name
                               /\ \A j \in 1 .. i - 1 : aliases[j].name # name}

sysgen_cmdAlias(name, addr, sz) ==
    /\ Parsing /\ Len(aliases) < MaxAliases
    /\ aliases' = <<[name |-> name, addr |-> addr + Pkernel, size |-> sz]>> \o aliases
    /\ imgsz' = IF imgsz < addr + sz THEN (addr + sz) % AddrMod32 ELSE imgsz
    /\ UNCHANGED <<arch, phase, image, size, maps, mapHead, progs, progHead, console, mapList>>

\* Mutant: only the start of the new map is looked up in the others.
Overlapping_start(name, start, end) ==
    \E p \in Visited(maps, mapHead) :
        \/ maps[p].start <= start /\ start < maps[p].end
        \/ maps[p].name = name

\* mapOverlapping: some map of the ring overlaps [start, end) or has the name.
Overlapping(name, start, end) ==
    \E p \in Visited(maps, mapHead) :
        \/ maps[p].start < end /\ maps[p].end > start
        \/ maps[p].name = name

\* Mutant: compared before the addresses are cut to 32 bits.
sysgen32_mapOverlapping_wide(name, start, end) == Overlapping(name, start, end)

sysgen32_mapOverlapping(name, start, end) ==
    Overlapping(name, start % AddrMod32, end % AddrMod32)
sysgen64_mapOverlapping(name, start, end) == Overlapping(name, start, end)

\* mapNameResolve: the identifiers of the maps of that name.
MapsNamed(name) == {p \in Visited(maps, mapHead) : maps[p].name = name}
sysgen32_mapNameResolve(name) == {maps[p].id : p \in MapsNamed(name)}
sysgen64_mapNameResolve(name) == {maps[p].id : p \in MapsNamed(name)}
mapNameResolve(name) == RUN(sysgen32_mapNameResolve(name), sysgen64_mapNameResolve(name))

\* Mutant: identifiers count from the head.
NextId_head == IF mapHead = 0 THEN 0 ELSE (maps[mapHead].id + 1) % IdMod

\* The identifier of the next map: that of the last one in the ring and one, in
\* eight bits.
NextId == IF mapHead = 0 THEN 0 ELSE (maps[maps[mapHead].prev].id + 1) % IdMod

\* mapAdd: the object first, then its name.  When only the name does not fit
\* the buffer has grown, but the command fails.
MapAdd(name, start, end, asked) ==
    LET p == Ptr(size)
        s == After(size, MapSz)
        o == [name |-> name, nameptr |-> Ptr(s), start |-> start, end |-> end,
              asked |-> asked, next |-> 0, prev |-> 0,
              id |-> NextId]
    IN  \/ /\ buffAlloc(size, MapSz) /\ buffAlloc(s, NameSz[name])
           /\ size' = After(s, NameSz[name])
           /\ maps' = Linked(maps, mapHead, p, o)
           /\ mapHead' = IF mapHead = 0 THEN p ELSE mapHead
           /\ mapList' = Append(mapList, p)
           /\ UNCHANGED <<arch, phase, image, progs, progHead, aliases, imgsz, console>>
        \/ /\ ~(buffAlloc(size, MapSz) /\ buffAlloc(s, NameSz[name]))
           /\ size' = IF buffAlloc(size, MapSz) THEN s ELSE size
           /\ Fail

sysgen32_mapAdd(name, start, end) ==
    MapAdd(name, start % AddrMod32, end % AddrMod32, <<start, end>>)
sysgen64_mapAdd(name, start, end) == MapAdd(name, start, end, <<start, end>>)

sysgen_cmdMap(name, start, end) ==
    /\ Parsing
    /\ IF RUN(sysgen32_mapOverlapping(name, start, end),
              sysgen64_mapOverlapping(name, start, end))
       THEN Fail /\ UNCHANGED size
       ELSE RUN(sysgen32_mapAdd(name, start, end), sysgen64_mapAdd(name, start, end))

\* mapsAdd2Prog: one identifier per name; a name that is no map's fails.
Resolvable(names) == \A i \in 1 .. Len(names) : mapNameResolve(names[i]) # {}
sysgen_mapsAdd2Prog(names) ==
    [i \in 1 .. Len(names) |-> CHOOSE id \in mapNameResolve(names[i]) : TRUE]

\* appAdd allocates the program, its two lists of maps and its arguments one
\* after the other; an allocation that does not fit leaves the size alone, and
\* the ones behind it are tried all the same.
Alloc(s, n) == IF buffAlloc(s, n) THEN After(s, n) ELSE s

AppAdd(name, imaps, dmaps, argvSz) ==
    LET s1 == Alloc(size, ProgSz)
        s2 == Alloc(s1, Len(dmaps))
        s3 == Alloc(s2, Len(imaps))
        s4 == Alloc(s3, argvSz)
        fits == /\ buffAlloc(size, ProgSz) /\ buffAlloc(s1, Len(dmaps))
                /\ buffAlloc(s2, Len(imaps)) /\ buffAlloc(s3, argvSz)
        p == Ptr(size)
        ok == /\ sysgen_aliasFind(name) # {} /\ fits
              /\ Resolvable(imaps) /\ Resolvable(dmaps)
    IN  \/ /\ ok
           /\ \E i \in sysgen_aliasFind(name) :
                 progs' = Linked(progs, progHead, p,
                     [start |-> Addr(aliases[i].addr),
                      end |-> Addr(aliases[i].addr + aliases[i].size),
                      dptr |-> Ptr(s1), iptr |-> Ptr(s2), argv |-> Ptr(s3),
                      argvSz |-> argvSz, inames |-> imaps, dnames |-> dmaps,
                      imaps |-> sysgen_mapsAdd2Prog(imaps),
                      dmaps |-> sysgen_mapsAdd2Prog(dmaps),
                      next |-> 0, prev |-> 0])
           /\ progHead' = IF progHead = 0 THEN p ELSE progHead
           /\ size' = s4
           /\ UNCHANGED <<arch, phase, image, maps, mapHead, aliases, imgsz, console, mapList>>
        \/ /\ ~ok
           /\ size' = IF sysgen_aliasFind(name) = {} \/ ~buffAlloc(size, ProgSz)
                      THEN size ELSE s4
           /\ Fail

sysgen32_appAdd(name, imaps, dmaps, exec) ==
    AppAdd(name, imaps, dmaps, NameSz[name] + (IF exec THEN 1 ELSE 0))
sysgen64_appAdd(name, imaps, dmaps, exec) ==
    AppAdd(name, imaps, dmaps, NameSz[name] + (IF exec THEN 1 ELSE 0))

sysgen_cmdApp(name, imaps, dmaps, exec) ==
    /\ Parsing
    /\ RUN(sysgen32_appAdd(name, imaps, dmaps, exec),
           sysgen64_appAdd(name, imaps, dmaps, exec))

sysgen_cmdConsole(minor) ==
    /\ Parsing /\ console' = minor
    /\ UNCHANGED <<arch, phase, image, size, maps, mapHead, progs, progHead, aliases,
                   imgsz, mapList>>

\* parseScript finds the command in its table; a line that names none of them
\* is passed over.
run(c) ==
    \/ c.cmd = "alias"   /\ sysgen_cmdAlias(c.name, c.addr, c.size)
    \/ c.cmd = "map"     /\ sysgen_cmdMap(c.name, c.start, c.end)
    \/ c.cmd = "app"     /\ sysgen_cmdApp(c.name, c.imaps, c.dmaps, c.exec)
    \/ c.cmd = "console" /\ sysgen_cmdConsole(c.minor)
    \/ c.cmd = "wrong"   /\ cmdWrong

\* The end of the preinit script, and of the user script.
script_end ==
    /\ Parsing /\ phase' = IF phase = "preinit" THEN "user" ELSE "write"
    /\ UNCHANGED <<arch, image, size, maps, mapHead, progs, progHead, aliases, imgsz,
                   console, mapList>>

\* fwrite may write less than it was given.
sysgen_addSyspage2Img ==
    /\ phase = "write"
    /\ \/ phase' = "written" /\ image' = "new"
       \/ phase' = "failed" /\ image' \in {"old", "partial"}
    /\ UNCHANGED <<arch, size, maps, mapHead, progs, progHead, aliases, imgsz, console, mapList>>

-----------------------------------------------------------------------------
\* archSet
Init ==
    /\ arch \in {32, 64} /\ phase = "preinit" /\ image = "old"
    /\ size = ALIGN_ADDR(SyspageSz)
    /\ maps = [p \in {} |-> 0] /\ mapHead = 0
    /\ progs = [p \in {} |-> 0] /\ progHead = 0
    /\ aliases = <<>> /\ imgsz = 0 /\ console = 0
    /\ mapList = <<>>

Next == (\E c \in Commands : run(c)) \/ script_end \/ sysgen_addSyspage2Img

Spec == Init /\ [][Next]_vars

-----------------------------------------------------------------------------
(* Properties.                                                             *)

\* Maps are linked into one ring in the order of their commands, in both
\* directions: no step of mapAdd's relinking loses one.
MapRing ==
    LET len == Len(mapList)
        succ(i) == IF i = len THEN 1 ELSE i + 1
    IN  /\ DOMAIN maps = {mapList[i] : i \in 1 .. len}
        /\ mapHead = IF len = 0 THEN 0 ELSE mapList[1]
        /\ \A i \in 1 .. len : /\ maps[mapList[i]].next = mapList[succ(i)]
                               /\ maps[mapList[succ(i)]].prev = mapList[i]

\* No two maps of the syspage share an address or a name: every map is compared
\* with all before it, which the loop reaches along the ring.
MapsDisjoint ==
    \A p, q \in DOMAIN maps : p # q =>
        /\ ~(maps[p].start < maps[q].end /\ maps[p].end > maps[q].start)
        /\ maps[p].name # maps[q].name

\* The comment of sysgen_cmdMap, "Check whether map's name exists or map overlaps
\* with other maps", of the addresses the script gives.
RequestedMapsDisjoint ==
    \A p, q \in DOMAIN maps : p # q =>
        ~(maps[p].asked[1] < maps[q].asked[2] /\ maps[p].asked[2] > maps[q].asked[1])

\* The pieces of the buffer in use: <<first byte, size>>.
Extents ==
    {<<0, SyspageSz>>}
    \cup {<<p - Base, MapSz>> : p \in DOMAIN maps}
    \cup {<<maps[p].nameptr - Base, NameSz[maps[p].name]>> : p \in DOMAIN maps}
    \cup {<<p - Base, ProgSz>> : p \in DOMAIN progs}
    \cup {<<progs[p].dptr - Base, Len(progs[p].dmaps)>> : p \in DOMAIN progs}
    \cup {<<progs[p].iptr - Base, Len(progs[p].imaps)>> : p \in DOMAIN progs}
    \cup {<<progs[p].argv - Base, progs[p].argvSz>> : p \in DOMAIN progs}

\* Objects never overlap one another, lie inside the part of the buffer that is
\* written to the image, and start aligned.
ObjectsDisjoint ==
    /\ \A e \in Extents : e[1] % Align = 0 /\ e[1] + e[2] <= size
    /\ \A e, f \in Extents : e # f => e[1] + e[2] <= f[1] \/ f[1] + f[2] <= e[1]
    /\ size <= MaxSz

\* A program's entry is what its command asked for: it lies inside the image
\* size handed to the kernel, which grows with the aliases, as long as they all
\* end below 2^32 (the size is kept in 32 bits); and its identifiers stand for
\* the maps that were named and for no other map, as long as there are not more
\* maps than identifiers.
ProgramsSound ==
    LET AliasesFit ==
            \A i \in 1 .. Len(aliases) :
                aliases[i].addr - Pkernel + aliases[i].size < AddrMod32
        Stand(ids, names) ==
            \A i \in 1 .. Len(ids) :
                {maps[m].name : m \in {m \in DOMAIN maps : maps[m].id = ids[i]}} = {names[i]}
    IN  \A p \in DOMAIN progs :
            /\ AliasesFit => progs[p].end <= Pkernel + imgsz
            /\ Cardinality(DOMAIN maps) <= IdMod =>
                  Stand(progs[p].imaps, progs[p].inames) /\ Stand(progs[p].dmaps, progs[p].dnames)
=============================================================================
