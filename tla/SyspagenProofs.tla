--------------------------- MODULE SyspagenProofs ---------------------------
(***************************************************************************)
(* Proofs about Syspagen, for every value of its constants.                *)
(*                                                                         *)
(* The four invariants lean on one another.  A new map is compared with    *)
(* the maps the ring leads to, so that MapsDisjoint needs MapRing; the     *)
(* identifiers count along the ring; and that a new object is not linked   *)
(* into the ring twice needs its pointer to be fresh, which follows from   *)
(* the layout of the buffer: every object so far ends at or below size.    *)
(* Inv is their conjunction with that layout.                              *)
(***************************************************************************)
EXTENDS Syspagen, SequenceTheorems, FiniteSetTheorems, WellFoundedInduction, TLAPS

MapRec  == [name : Names, nameptr : Nat, start : Nat, end : Nat, asked : Nat \X Nat,
            next : Nat, prev : Nat, id : Nat]
ProgRec == [start : Nat, end : Nat, dptr : Nat, iptr : Nat, argv : Nat, argvSz : Nat,
            inames : Seq(Names), dnames : Seq(Names), imaps : Seq(Nat), dmaps : Seq(Nat),
            next : Nat, prev : Nat]

\* What the constants are.
LEMMA ConstantFacts ==
    /\ AddrMod32 \in Nat /\ AddrMod32 > 0 /\ IdMod \in Nat /\ IdMod > 0
    /\ Align \in Nat /\ Align > 0 /\ SyspageSz \in Nat /\ SyspageSz > 0
    /\ MapSz \in Nat /\ MapSz > 0 /\ ProgSz \in Nat /\ ProgSz > 0
    /\ MaxSz \in Nat /\ Pkernel \in Nat /\ Offs \in Nat /\ Base \in Nat
    /\ \A x \in Names : NameSz[x] \in Nat /\ NameSz[x] > 0
    /\ SyspageSz % Align = 0 /\ SyspageSz <= MaxSz
BY SyspagenAssumption DEF Base

\* Rounding up gives an aligned size that is not smaller.
LEMMA AlignFacts ==
    ASSUME NEW a \in Nat
    PROVE  /\ ALIGN_ADDR(a) \in Nat /\ ALIGN_ADDR(a) >= a
           /\ ALIGN_ADDR(a) % Align = 0
<1> DEFINE q == (a + Align - 1) \div Align
<1>1. a + Align - 1 \in Nat
    BY ConstantFacts
<1>2. q \in Nat /\ q * Align <= a + Align - 1 /\ a + Align - 1 < q * Align + Align
    BY <1>1, ConstantFacts
<1>3. q * Align \in Nat /\ q * Align >= a
    BY <1>2, ConstantFacts
<1>4. (q * Align) % Align = 0
    BY <1>2, ConstantFacts
<1> QED
    BY <1>3, <1>4 DEF ALIGN_ADDR

\* Remainders.
LEMMA ModUnique ==
    ASSUME NEW m \in Nat, m > 0, NEW q \in Int, NEW r \in 0 .. m - 1
    PROVE  (q * m + r) % m = r
OBVIOUS

LEMMA ModSmall ==
    ASSUME NEW m \in Nat, NEW r \in Nat, r < m
    PROVE  r % m = r
<1>1. (0 * m + r) % m = r
    BY ModUnique
<1> QED BY <1>1

LEMMA ModLess ==
    ASSUME NEW m \in Nat, m > 0, NEW n \in Nat
    PROVE  n % m \in Nat /\ n % m <= n
<1> DEFINE q == n \div m
           r == n % m
<1>1. q \in Nat /\ r \in 0 .. m - 1 /\ n = q * m + r
    OBVIOUS
<1> HIDE DEF q, r
<1>2. q * m >= 0
    BY <1>1
<1>3. r \in Nat /\ r <= n
    BY <1>1, <1>2
<1> QED BY <1>3 DEF r

LEMMA ModSucc ==
    ASSUME NEW m \in Nat, m > 0, NEW n \in Nat
    PROVE  ((n % m) + 1) % m = (n + 1) % m
<1> DEFINE q == n \div m
           r == n % m
<1>1. q \in Nat /\ r \in 0 .. m - 1 /\ n = q * m + r
    OBVIOUS
<1> HIDE DEF q, r
<1>2. CASE r + 1 < m
  <2>1. (r + 1) % m = r + 1
      BY <1>1, <1>2
  <2>2. n + 1 = q * m + (r + 1) /\ r + 1 \in 0 .. m - 1
      BY <1>1, <1>2
  <2>3. (n + 1) % m = r + 1
      BY <1>1, <2>2, ModUnique
  <2> QED BY <2>1, <2>3 DEF r
<1>3. CASE r + 1 = m
  <2>1. (r + 1) % m = 0
      BY <1>3, <1>1
  <2>2. q + 1 \in Int /\ n + 1 = (q + 1) * m + 0 /\ 0 \in 0 .. m - 1
      BY <1>1, <1>3
  <2>3. (n + 1) % m = 0
      BY <2>2, ModUnique
  <2> QED BY <2>1, <2>3 DEF r
<1> QED
    BY <1>1, <1>2, <1>3

\* The new object of a ring of maps, and the objects that were there.
LEMMA LinkedMap ==
    ASSUME NEW D \in SUBSET Nat, NEW objs \in [D -> MapRec], NEW head \in D \cup {0},
           NEW p \in Nat, NEW o \in MapRec, p \notin D, 0 \notin D,
           NEW last, last = IF head = 0 THEN p ELSE objs[head].prev,
           NEW L, L = Linked(objs, head, p, o)
    PROVE  /\ L \in [D \cup {p} -> MapRec]
           /\ L[p].next = (IF head = 0 THEN p ELSE head) /\ L[p].prev = last
           /\ L[p].name = o.name /\ L[p].nameptr = o.nameptr /\ L[p].id = o.id
           /\ L[p].start = o.start /\ L[p].end = o.end
BY ZenonT(60) DEF Linked, MapRec

LEMMA LinkedOther ==
    ASSUME NEW D \in SUBSET Nat, NEW objs \in [D -> MapRec], NEW head \in D \cup {0},
           NEW p \in Nat, NEW o \in MapRec, p \notin D, 0 \notin D,
           NEW last, last = IF head = 0 THEN p ELSE objs[head].prev,
           NEW L, L = Linked(objs, head, p, o), NEW x \in D
    PROVE  /\ L[x].next = (IF x = last THEN p ELSE objs[x].next)
           /\ L[x].prev = (IF x = head THEN p ELSE objs[x].prev)
           /\ L[x].name = objs[x].name /\ L[x].nameptr = objs[x].nameptr
           /\ L[x].id = objs[x].id
           /\ L[x].start = objs[x].start /\ L[x].end = objs[x].end
BY DEF Linked, MapRec

\* A non-empty set of numbers has a least element.
LEMMA Least ==
    ASSUME NEW T \in SUBSET Nat, T # {}
    PROVE  \E x \in T : \A y \in T : x <= y
<1>1. IsWellFoundedOn(OpToRel(<, Nat), Nat)
    BY NatLessThanWellFounded
<1>2. PICK x \in T : \A y \in T : ~(<<y, x>> \in OpToRel(<, Nat))
    BY <1>1, WFMin
<1>3. \A y \in T : ~(y < x)
    BY <1>2 DEF OpToRel
<1> QED
    BY <1>3

-----------------------------------------------------------------------------
(* The inductive invariant.                                                *)

TypeInv ==
    /\ arch \in {32, 64} /\ size \in Nat /\ imgsz \in Nat
    /\ DOMAIN maps \subseteq Nat \ {0} /\ maps \in [DOMAIN maps -> MapRec]
    /\ DOMAIN progs \subseteq Nat \ {0} /\ progs \in [DOMAIN progs -> ProgRec]
    /\ mapHead \in DOMAIN maps \cup {0} /\ progHead \in DOMAIN progs \cup {0}
    /\ mapList \in Seq(Nat)
    /\ aliases \in Seq([name : Names, addr : Nat, size : Nat])

\* No pointer is in the list of maps twice, and identifiers count along it.
ListInv ==
    /\ \A i, j \in 1 .. Len(mapList) : mapList[i] = mapList[j] => i = j
    /\ \A i \in 1 .. Len(mapList) : maps[mapList[i]].id = (i - 1) % IdMod

\* Every map and every program is a block of the buffer of its own, from the
\* object itself to the end of its name or of its arguments.
Objects == DOMAIN maps \cup DOMAIN progs

MapEnd(p) == maps[p].nameptr + NameSz[maps[p].name]

ProgEnd(p) == progs[p].argv + progs[p].argvSz

End(p) == IF p \in DOMAIN maps THEN MapEnd(p) ELSE ProgEnd(p)

MapLayout(p) ==
    /\ (p - Base) % Align = 0 /\ (maps[p].nameptr - Base) % Align = 0
    /\ p + MapSz <= maps[p].nameptr

ProgLayout(p) ==
    /\ (p - Base) % Align = 0 /\ (progs[p].dptr - Base) % Align = 0
    /\ (progs[p].iptr - Base) % Align = 0 /\ (progs[p].argv - Base) % Align = 0
    /\ p + ProgSz <= progs[p].dptr
    /\ progs[p].dptr + Len(progs[p].dmaps) <= progs[p].iptr
    /\ progs[p].iptr + Len(progs[p].imaps) <= progs[p].argv

SizeInv == size % Align = 0 /\ SyspageSz <= size /\ size <= MaxSz

LayoutInv ==
    /\ DOMAIN maps \cap DOMAIN progs = {}
    /\ \A p \in DOMAIN maps : MapLayout(p)
    /\ \A p \in DOMAIN progs : ProgLayout(p)
    /\ \A p \in Objects : Base + SyspageSz <= p /\ p < End(p) /\ End(p) <= Base + size
    /\ \A p, q \in Objects : p # q => End(p) <= q \/ End(q) <= p

\* The identifiers are those of maps with the names.
Denote(ids, names) ==
    /\ Len(ids) = Len(names)
    /\ \A i \in 1 .. Len(ids) : \E m \in DOMAIN maps :
            maps[m].id = ids[i] /\ maps[m].name = names[i]

ProgsInv ==
    \A p \in DOMAIN progs :
        /\ \E i \in 1 .. Len(aliases) : progs[p].end <= aliases[i].addr + aliases[i].size
        /\ Denote(progs[p].imaps, progs[p].inames)
        /\ Denote(progs[p].dmaps, progs[p].dnames)

\* The image reaches to the end of every alias, as long as they all fit.
ImageInv ==
    (\A i \in 1 .. Len(aliases) : aliases[i].addr - Pkernel + aliases[i].size < AddrMod32) =>
        \A i \in 1 .. Len(aliases) : aliases[i].addr + aliases[i].size <= Pkernel + imgsz

Inv == /\ TypeInv /\ SizeInv /\ LayoutInv /\ MapRing /\ ListInv /\ MapsDisjoint
       /\ ProgsInv /\ ImageInv

\* MapRing without its wrap-around, as the proofs use it.
LEMMA RingFacts ==
    ASSUME TypeInv, MapRing, NEW len, len = Len(mapList)
    PROVE  /\ len \in Nat /\ DOMAIN mapList = 1 .. len
           /\ \A i \in 1 .. len : mapList[i] \in DOMAIN maps /\ mapList[i] # 0
           /\ \A p \in DOMAIN maps : \E i \in 1 .. len : p = mapList[i]
           /\ len = 0 => mapHead = 0
           /\ len # 0 => /\ mapHead = mapList[1] /\ mapHead # 0
                         /\ maps[mapHead].prev = mapList[len]
                         /\ maps[mapList[len]].next = mapHead
           /\ \A i \in 1 .. len : i # len =>
                 /\ maps[mapList[i]].next = mapList[i + 1]
                 /\ maps[mapList[i + 1]].prev = mapList[i]
<1>1. len \in Nat /\ DOMAIN mapList = 1 .. len
    BY DEF TypeInv
<1>2. DOMAIN maps = {mapList[i] : i \in 1 .. len}
    BY DEF MapRing
<1>3. mapHead = IF len = 0 THEN 0 ELSE mapList[1]
    BY DEF MapRing
<1>4. \A i \in 1 .. len : LET j == IF i = len THEN 1 ELSE i + 1 IN
            /\ maps[mapList[i]].next = mapList[j]
            /\ maps[mapList[j]].prev = mapList[i]
    BY DEF MapRing
<1>5. DOMAIN maps \subseteq Nat \ {0}
    BY DEF TypeInv
<1>6. \A i \in 1 .. len : mapList[i] \in DOMAIN maps /\ mapList[i] # 0
    BY <1>2, <1>5
<1>7. ASSUME len # 0
      PROVE  /\ mapHead = mapList[1] /\ mapHead # 0
             /\ maps[mapHead].prev = mapList[len]
             /\ maps[mapList[len]].next = mapHead
    BY <1>7, <1>1, <1>3, <1>4, <1>6
<1>8. ASSUME NEW i \in 1 .. len, i # len
      PROVE  /\ maps[mapList[i]].next = mapList[i + 1]
             /\ maps[mapList[i + 1]].prev = mapList[i]
    BY <1>8, <1>1, <1>4
<1> QED
    BY <1>1, <1>2, <1>3, <1>6, <1>7, <1>8

\* A walk along a sound ring meets every map: were some not met, take the first
\* of them in the order of the list; the one before it leads to it.
LEMMA RingVisited ==
    ASSUME TypeInv, MapRing
    PROVE  Visited(maps, mapHead) = DOMAIN maps
<1> DEFINE len == Len(mapList)
<1> HIDE DEF len
<1>1. len = Len(mapList)
    BY DEF len
<1>2. len \in Nat
    BY <1>1, RingFacts
<1>3. ASSUME NEW p \in DOMAIN maps
      PROVE  mapHead # 0
    BY <1>1, <1>2, RingFacts
<1>4. ASSUME NEW p \in DOMAIN maps, NEW S \in SUBSET DOMAIN maps,
             mapHead \in S, \A x \in S : maps[x].next \in S
      PROVE  p \in S
  <2> DEFINE T == {i \in 1 .. len : mapList[i] \notin S}
  <2>1. ASSUME T # {}
        PROVE  FALSE
    <3>0. T \in SUBSET Nat
        BY <1>2
    <3>1. PICK i \in T : \A j \in T : i <= j
      <4> HIDE DEF T
      <4> QED BY <2>1, <3>0, Least
    <3>2. i # 1
        BY <3>1, <1>1, <1>2, <1>4, RingFacts
    <3>3. i - 1 \in 1 .. len /\ i - 1 # len /\ i - 1 \notin T
        BY <3>1, <3>2, <1>2
    <3>4. maps[mapList[i - 1]].next = mapList[(i - 1) + 1]
        BY <3>1, <3>3, <1>1, <1>2, RingFacts
    <3> QED
        BY <3>1, <3>3, <3>4, <1>4, <1>2
  <2>2. PICK i \in 1 .. len : p = mapList[i]
      BY <1>1, RingFacts
  <2> QED
      BY <2>1, <2>2
<1> QED
    BY <1>3, <1>4 DEF Visited

-----------------------------------------------------------------------------
(* What a step may do to the syspage.                                      *)

NewMap(name, start, end, asked) ==
    [name |-> name, nameptr |-> Ptr(After(size, MapSz)), start |-> start, end |-> end,
     asked |-> asked, next |-> 0, prev |-> 0, id |-> NextId]

MapStep(name, start, end, asked) ==
    /\ ~Overlapping(name, start, end)
    /\ After(After(size, MapSz), NameSz[name]) < MaxSz
    /\ size' = After(After(size, MapSz), NameSz[name])
    /\ maps' = Linked(maps, mapHead, Ptr(size), NewMap(name, start, end, asked))
    /\ mapHead' = IF mapHead = 0 THEN Ptr(size) ELSE mapHead
    /\ mapList' = Append(mapList, Ptr(size))
    /\ UNCHANGED <<arch, progs, progHead, aliases, imgsz>>

ProgEnds(imaps, dmaps, argvSz) ==
    LET s1 == After(size, ProgSz)
        s2 == After(s1, Len(dmaps))
        s3 == After(s2, Len(imaps))
    IN  <<s1, s2, s3, After(s3, argvSz)>>

NewProg(i, imaps, dmaps, argvSz) ==
    LET s == ProgEnds(imaps, dmaps, argvSz)
    IN  [start |-> Addr(aliases[i].addr),
         end |-> Addr(aliases[i].addr + aliases[i].size),
         dptr |-> Ptr(s[1]), iptr |-> Ptr(s[2]), argv |-> Ptr(s[3]),
         argvSz |-> argvSz, inames |-> imaps, dnames |-> dmaps,
         imaps |-> sysgen_mapsAdd2Prog(imaps), dmaps |-> sysgen_mapsAdd2Prog(dmaps),
         next |-> 0, prev |-> 0]

ProgStep(i, imaps, dmaps, argvSz) ==
    /\ Resolvable(imaps) /\ Resolvable(dmaps)
    /\ ProgEnds(imaps, dmaps, argvSz)[4] < MaxSz
    /\ size' = ProgEnds(imaps, dmaps, argvSz)[4]
    /\ progs' = Linked(progs, progHead, Ptr(size), NewProg(i, imaps, dmaps, argvSz))
    /\ progHead' = IF progHead = 0 THEN Ptr(size) ELSE progHead
    /\ UNCHANGED <<arch, maps, mapHead, aliases, imgsz, mapList>>

AliasStep(name, addr, sz) ==
    /\ aliases' = <<[name |-> name, addr |-> addr + Pkernel, size |-> sz]>> \o aliases
    /\ imgsz' = IF imgsz < addr + sz THEN (addr + sz) % AddrMod32 ELSE imgsz
    /\ UNCHANGED <<arch, size, maps, mapHead, progs, progHead, mapList>>

\* Size b comes of size a by allocations.
Grows(a, b) ==
    /\ b \in Nat /\ b >= a
    /\ a % Align = 0 => b % Align = 0
    /\ a <= MaxSz => b <= MaxSz

\* Nothing but the size may change, by allocations that stay.
OtherStep ==
    /\ Grows(size, size')
    /\ UNCHANGED <<arch, maps, mapHead, progs, progHead, aliases, imgsz, mapList>>

\* An allocation gives an aligned size that has room for it.
LEMMA AllocFacts ==
    ASSUME NEW s \in Nat, NEW n \in Nat
    PROVE  /\ After(s, n) \in Nat /\ After(s, n) >= s + n /\ After(s, n) % Align = 0
           /\ Alloc(s, n) \in Nat /\ Grows(s, Alloc(s, n))
           /\ buffAlloc(s, n) <=> After(s, n) < MaxSz
<1>1. s + n \in Nat
    OBVIOUS
<1>2. After(s, n) \in Nat /\ After(s, n) >= s + n /\ After(s, n) % Align = 0
    BY <1>1, AlignFacts DEF After
<1>3. buffAlloc(s, n) <=> After(s, n) < MaxSz
    BY DEF buffAlloc, sysgen32_buffAlloc, sysgen64_buffAlloc, RUN
<1> QED
    BY <1>2, <1>3, ConstantFacts DEF Alloc, Grows

\* Grows is a preorder.
LEMMA GrowsReflexive ==
    ASSUME NEW a \in Nat
    PROVE  Grows(a, a)
BY DEF Grows

LEMMA GrowsTransitive ==
    ASSUME NEW a \in Nat, NEW b \in Nat, NEW c \in Nat, Grows(a, b), Grows(b, c)
    PROVE  Grows(a, c)
BY ConstantFacts DEF Grows

\* mapAdd either links a whole map in or fails.
LEMMA MapAddStep ==
    ASSUME TypeInv, NEW name \in Names, NEW start \in Nat, NEW end \in Nat,
           NEW asked, ~Overlapping(name, start, end), MapAdd(name, start, end, asked)
    PROVE  MapStep(name, start, end, asked) \/ OtherStep
<1> DEFINE s == After(size, MapSz)
<1>1. size \in Nat /\ MapSz \in Nat /\ NameSz[name] \in Nat
    BY ConstantFacts DEF TypeInv
<1>2. /\ s \in Nat /\ Grows(size, size)
      /\ buffAlloc(size, MapSz) <=> s < MaxSz
      /\ buffAlloc(size, MapSz) => Grows(size, s)
    BY <1>1, AllocFacts, GrowsReflexive DEF Alloc
<1>3. buffAlloc(s, NameSz[name]) <=> After(s, NameSz[name]) < MaxSz
  <2> HIDE DEF s
  <2> QED BY <1>1, <1>2, AllocFacts
<1>4. CASE buffAlloc(size, MapSz) /\ buffAlloc(s, NameSz[name])
    BY <1>2, <1>3, <1>4 DEF MapAdd, MapStep, NewMap
<1>5. CASE ~(buffAlloc(size, MapSz) /\ buffAlloc(s, NameSz[name]))
  <2>1. size' = (IF buffAlloc(size, MapSz) THEN s ELSE size) /\ Fail
      BY <1>5 DEF MapAdd
  <2> HIDE DEF s
  <2> QED
      BY <1>2, <2>1 DEF Fail, OtherStep
<1> QED
    BY <1>4, <1>5

\* appAdd either links a whole program in or fails.
LEMMA AppAddStep ==
    ASSUME TypeInv, NEW name \in Names, NEW imaps \in Seq(Names), NEW dmaps \in Seq(Names),
           NEW argvSz \in Nat, AppAdd(name, imaps, dmaps, argvSz)
    PROVE  OtherStep \/ \E i \in 1 .. Len(aliases) : ProgStep(i, imaps, dmaps, argvSz)
<1> DEFINE s1 == Alloc(size, ProgSz)
           s2 == Alloc(s1, Len(dmaps))
           s3 == Alloc(s2, Len(imaps))
           s4 == Alloc(s3, argvSz)
           fits == /\ buffAlloc(size, ProgSz) /\ buffAlloc(s1, Len(dmaps))
                   /\ buffAlloc(s2, Len(imaps)) /\ buffAlloc(s3, argvSz)
           ok == /\ sysgen_aliasFind(name) # {} /\ fits
                 /\ Resolvable(imaps) /\ Resolvable(dmaps)
<1>1. size \in Nat /\ ProgSz \in Nat /\ Len(imaps) \in Nat /\ Len(dmaps) \in Nat
    <2>1. size \in Nat
        BY DEF TypeInv
    <2>2. Len(imaps) \in Nat /\ Len(dmaps) \in Nat
        BY LenProperties
    <2> QED BY <2>1, <2>2, ConstantFacts
<1>2. s1 \in Nat /\ Grows(size, s1) /\ Grows(size, size)
    BY <1>1, AllocFacts, GrowsReflexive
<1>3. s2 \in Nat /\ Grows(size, s2)
  <2> HIDE DEF s1
  <2> QED BY <1>1, <1>2, AllocFacts, GrowsTransitive
<1>4. s3 \in Nat /\ Grows(size, s3)
  <2> HIDE DEF s2
  <2> QED BY <1>1, <1>3, AllocFacts, GrowsTransitive
<1>5. s4 \in Nat /\ Grows(size, s4) /\ (buffAlloc(s3, argvSz) => s4 < MaxSz)
  <2> HIDE DEF s3
  <2>1. s4 \in Nat /\ Grows(size, s4)
      BY <1>1, <1>4, AllocFacts, GrowsTransitive
  <2>2. buffAlloc(s3, argvSz) => s4 < MaxSz
      BY <1>4, AllocFacts DEF Alloc
  <2> QED BY <2>1, <2>2
<1>6. CASE ok
  <2>1. PICK i \in sysgen_aliasFind(name) :
            progs' = Linked(progs, progHead, Ptr(size),
                     [start |-> Addr(aliases[i].addr),
                      end |-> Addr(aliases[i].addr + aliases[i].size),
                      dptr |-> Ptr(s1), iptr |-> Ptr(s2), argv |-> Ptr(s3),
                      argvSz |-> argvSz, inames |-> imaps, dnames |-> dmaps,
                      imaps |-> sysgen_mapsAdd2Prog(imaps),
                      dmaps |-> sysgen_mapsAdd2Prog(dmaps),
                      next |-> 0, prev |-> 0])
      BY <1>6 DEF AppAdd
  <2>2. /\ progHead' = (IF progHead = 0 THEN Ptr(size) ELSE progHead)
        /\ size' = s4
        /\ UNCHANGED <<arch, maps, mapHead, aliases, imgsz, mapList>>
      BY <1>6 DEF AppAdd
  <2>3. ProgEnds(imaps, dmaps, argvSz) = <<s1, s2, s3, s4>>
      BY <1>6 DEF ProgEnds, Alloc
  <2>4. i \in 1 .. Len(aliases)
      BY DEF sysgen_aliasFind
  <2>5. s4 < MaxSz
      BY <1>5, <1>6
  <2> QED
      BY <1>6, <2>1, <2>2, <2>3, <2>4, <2>5 DEF ProgStep, NewProg
<1>7. CASE ~ok
  <2>1. size' \in {size, s4} /\ Fail
      BY <1>7 DEF AppAdd
  <2> HIDE DEF s1, s2, s3, s4
  <2> QED
      BY <1>2, <1>5, <2>1 DEF Fail, OtherStep
<1> QED
    BY <1>6, <1>7

\* Every step adds an alias, a map or a program, or changes at most the size.
LEMMA StepCases ==
    ASSUME TypeInv, [Next]_vars
    PROVE  \/ OtherStep
           \/ \E name \in Names, addr \in Nat, sz \in Nat : AliasStep(name, addr, sz)
           \/ \E name \in Names, start \in Nat, end \in Nat, asked \in Nat \X Nat :
                 MapStep(name, start, end, asked)
           \/ \E imaps \in Seq(Names), dmaps \in Seq(Names), argvSz \in Nat,
                 i \in 1 .. Len(aliases) : ProgStep(i, imaps, dmaps, argvSz)
<1>1. size \in Nat /\ arch \in {32, 64}
    BY DEF TypeInv
<1>2. ASSUME UNCHANGED <<arch, size, maps, mapHead, progs, progHead, aliases, imgsz, mapList>>
      PROVE  OtherStep
    BY <1>1, <1>2, GrowsReflexive DEF OtherStep
<1>3. CASE UNCHANGED vars
    BY <1>2, <1>3 DEF vars
<1>4. CASE script_end \/ sysgen_addSyspage2Img
    BY <1>2, <1>4 DEF script_end, sysgen_addSyspage2Img
<1>5. ASSUME NEW c \in Commands, c.cmd = "alias", sysgen_cmdAlias(c.name, c.addr, c.size)
      PROVE  \E name \in Names, addr \in Nat, sz \in Nat : AliasStep(name, addr, sz)
  <2>1. c.name \in Names /\ c.addr \in Nat /\ c.size \in Nat
      BY <1>5, CommandsAssumption
  <2>2. AliasStep(c.name, c.addr, c.size)
      BY <1>5 DEF sysgen_cmdAlias, AliasStep
  <2> QED BY <2>1, <2>2
<1>6. ASSUME NEW c \in Commands, c.cmd = "map", sysgen_cmdMap(c.name, c.start, c.end)
      PROVE  \/ OtherStep
             \/ \E name \in Names, start \in Nat, end \in Nat, asked \in Nat \X Nat :
                   MapStep(name, start, end, asked)
  <2>1. c.name \in Names /\ c.start \in Nat /\ c.end \in Nat
      BY <1>6, CommandsAssumption
  <2>2. c.start % AddrMod32 \in Nat /\ c.end % AddrMod32 \in Nat
      BY <2>1, ConstantFacts
  <2>3. CASE RUN(sysgen32_mapOverlapping(c.name, c.start, c.end),
                 sysgen64_mapOverlapping(c.name, c.start, c.end))
      BY <1>1, <1>2, <1>6, <2>3 DEF sysgen_cmdMap, Fail
  <2>4. CASE /\ arch = 32
             /\ ~Overlapping(c.name, c.start % AddrMod32, c.end % AddrMod32)
    <3>1. MapAdd(c.name, c.start % AddrMod32, c.end % AddrMod32, <<c.start, c.end>>)
        BY <1>6, <2>4 DEF sysgen_cmdMap, RUN, sysgen32_mapAdd, sysgen32_mapOverlapping
    <3>2. \/ OtherStep
          \/ MapStep(c.name, c.start % AddrMod32, c.end % AddrMod32, <<c.start, c.end>>)
        BY <2>1, <2>2, <2>4, <3>1, MapAddStep
    <3> QED BY <2>1, <2>2, <3>2
  <2>5. CASE arch # 32 /\ ~Overlapping(c.name, c.start, c.end)
    <3>1. MapAdd(c.name, c.start, c.end, <<c.start, c.end>>)
        BY <1>6, <2>5 DEF sysgen_cmdMap, RUN, sysgen64_mapAdd, sysgen64_mapOverlapping
    <3>2. OtherStep \/ MapStep(c.name, c.start, c.end, <<c.start, c.end>>)
        BY <2>1, <2>5, <3>1, MapAddStep
    <3> QED BY <2>1, <3>2
  <2> QED
      BY <2>3, <2>4, <2>5 DEF RUN, sysgen32_mapOverlapping, sysgen64_mapOverlapping
<1>7. ASSUME NEW c \in Commands, c.cmd = "app",
             sysgen_cmdApp(c.name, c.imaps, c.dmaps, c.exec)
      PROVE  \/ OtherStep
             \/ \E imaps \in Seq(Names), dmaps \in Seq(Names), argvSz \in Nat,
                   i \in 1 .. Len(aliases) : ProgStep(i, imaps, dmaps, argvSz)
  <2> DEFINE sz == NameSz[c.name] + (IF c.exec THEN 1 ELSE 0)
  <2>1. c.name \in Names /\ c.imaps \in Seq(Names) /\ c.dmaps \in Seq(Names) /\ sz \in Nat
      BY <1>7, CommandsAssumption, ConstantFacts
  <2>2. AppAdd(c.name, c.imaps, c.dmaps, sz)
      BY <1>7 DEF sysgen_cmdApp, RUN, sysgen32_appAdd, sysgen64_appAdd
  <2> HIDE DEF sz
  <2>3. OtherStep \/ \E i \in 1 .. Len(aliases) : ProgStep(i, c.imaps, c.dmaps, sz)
      BY <2>1, <2>2, AppAddStep
  <2> QED BY <2>1, <2>3
<1>8. ASSUME NEW c \in Commands, sysgen_cmdConsole(c.minor) \/ cmdWrong
      PROVE  OtherStep
    BY <1>2, <1>8 DEF sysgen_cmdConsole, cmdWrong, Fail
<1> QED
    BY <1>3, <1>4, <1>5, <1>6, <1>7, <1>8 DEF Next, run

-----------------------------------------------------------------------------
(* A new object.                                                           *)

\* The bounds of the blocks are numbers.
LEMMA EndsType ==
    ASSUME TypeInv
    PROVE  /\ \A p \in DOMAIN maps : /\ p \in Nat /\ maps[p] \in MapRec
                                     /\ MapEnd(p) \in Nat
           /\ \A p \in DOMAIN progs : /\ p \in Nat /\ progs[p] \in ProgRec
                                      /\ ProgEnd(p) \in Nat
           /\ \A p \in Objects : p \in Nat /\ End(p) \in Nat
<1>1. ASSUME NEW p \in DOMAIN maps
      PROVE  p \in Nat /\ maps[p] \in MapRec /\ MapEnd(p) \in Nat
  <2>1. p \in Nat /\ maps[p] \in MapRec
      BY DEF TypeInv
  <2> QED
      BY <2>1, ConstantFacts DEF MapEnd, MapRec
<1>2. ASSUME NEW p \in DOMAIN progs
      PROVE  p \in Nat /\ progs[p] \in ProgRec /\ ProgEnd(p) \in Nat
  <2>1. p \in Nat /\ progs[p] \in ProgRec
      BY DEF TypeInv
  <2> QED
      BY <2>1 DEF ProgEnd, ProgRec
<1> QED
    BY <1>1, <1>2 DEF Objects, End

\* The pointer the next allocation returns is none of an object there is.
LEMMA FreshPointer ==
    ASSUME TypeInv, SizeInv, LayoutInv
    PROVE  /\ Ptr(size) \in Nat /\ Ptr(size) # 0 /\ Ptr(size) \notin Objects
           /\ Ptr(size) \notin DOMAIN maps /\ Ptr(size) \notin DOMAIN progs
<1>1. size \in Nat /\ size > 0 /\ Ptr(size) = size + Base
    BY ConstantFacts DEF TypeInv, SizeInv, Ptr
<1>2. \A p \in Objects : p \in Nat /\ End(p) \in Nat /\ p < End(p) /\ End(p) <= Base + size
    BY EndsType DEF LayoutInv
<1> QED
    BY <1>1, <1>2, ConstantFacts DEF Objects

\* The next identifier is the number of maps, in eight bits.
LEMMA NextIdFacts ==
    ASSUME TypeInv, MapRing, ListInv
    PROVE  NextId \in Nat /\ NextId = Len(mapList) % IdMod
<1> DEFINE len == Len(mapList)
<1> HIDE DEF len
<1>1. len = Len(mapList)
    BY DEF len
<1>2. CASE len = 0
    BY <1>1, <1>2, RingFacts, ConstantFacts DEF NextId
<1>3. CASE len # 0
  <2>1. len \in Nat /\ mapHead # 0 /\ maps[mapHead].prev = mapList[len]
      BY <1>1, <1>3, RingFacts
  <2>2. maps[mapList[len]].id = (len - 1) % IdMod
      BY <1>1, <1>3, <2>1 DEF ListInv
  <2>3. NextId = (((len - 1) % IdMod) + 1) % IdMod
      BY <2>1, <2>2 DEF NextId
  <2>4. (((len - 1) % IdMod) + 1) % IdMod = len % IdMod /\ len % IdMod \in Nat
    <3>1. len - 1 \in Nat /\ (len - 1) + 1 = len
        BY <1>3, <2>1
    <3>2. (((len - 1) % IdMod) + 1) % IdMod = ((len - 1) + 1) % IdMod
        BY <3>1, ModSucc, ConstantFacts
    <3> QED BY <2>1, <3>1, <3>2, ConstantFacts
  <2> QED
      BY <1>1, <2>3, <2>4
<1> QED
    BY <1>2, <1>3

\* The map that mapAdd fills in.
LEMMA NewMapFacts ==
    ASSUME Inv, NEW name \in Names, NEW start \in Nat, NEW end \in Nat,
           NEW asked \in Nat \X Nat, MapStep(name, start, end, asked), NEW p, p = Ptr(size),
           NEW o, o = NewMap(name, start, end, asked)
    PROVE  /\ p \in Nat /\ p # 0 /\ p \notin Objects /\ p \notin DOMAIN maps
           /\ o \in MapRec /\ o.name = name /\ o.nameptr = Ptr(After(size, MapSz))
           /\ o.id = Len(mapList) % IdMod /\ o.start = start /\ o.end = end
           /\ DOMAIN maps \in SUBSET Nat /\ 0 \notin DOMAIN maps
           /\ maps \in [DOMAIN maps -> MapRec] /\ mapHead \in DOMAIN maps \cup {0}
           /\ maps' = Linked(maps, mapHead, p, o)
<1>1. p \in Nat /\ p # 0 /\ p \notin Objects /\ p \notin DOMAIN maps
    BY FreshPointer DEF Inv
<1>2. After(size, MapSz) \in Nat /\ Ptr(After(size, MapSz)) \in Nat
  <2>1. size \in Nat
      BY DEF Inv, TypeInv
  <2>2. After(size, MapSz) \in Nat
      BY <2>1, AllocFacts, ConstantFacts
  <2> QED BY <2>2, ConstantFacts DEF Ptr
<1>3. NextId \in Nat /\ NextId = Len(mapList) % IdMod
    BY NextIdFacts DEF Inv
<1>4. /\ o \in MapRec /\ o.name = name /\ o.nameptr = Ptr(After(size, MapSz))
      /\ o.id = NextId /\ o.start = start /\ o.end = end
    BY <1>2, <1>3 DEF NewMap, MapRec
<1>5. /\ DOMAIN maps \in SUBSET Nat /\ 0 \notin DOMAIN maps
      /\ maps \in [DOMAIN maps -> MapRec] /\ mapHead \in DOMAIN maps \cup {0}
    BY DEF Inv, TypeInv
<1>6. maps' = Linked(maps, mapHead, p, o)
    BY DEF MapStep
<1> QED
    BY <1>1, <1>3, <1>4, <1>5, <1>6

\* The map that was added.
LEMMA MapStepFacts ==
    ASSUME Inv, NEW name \in Names, NEW start \in Nat, NEW end \in Nat,
           NEW asked \in Nat \X Nat, MapStep(name, start, end, asked), NEW p, p = Ptr(size)
    PROVE  /\ p \in Nat /\ p # 0 /\ p \notin Objects /\ p \notin DOMAIN maps
           /\ DOMAIN maps' = DOMAIN maps \cup {p}
           /\ maps' \in [DOMAIN maps' -> MapRec]
           /\ maps'[p].next = (IF mapHead = 0 THEN p ELSE mapHead)
           /\ maps'[p].prev = (IF mapHead = 0 THEN p ELSE maps[mapHead].prev)
           /\ maps'[p].name = name /\ maps'[p].nameptr = Ptr(After(size, MapSz))
           /\ maps'[p].id = Len(mapList) % IdMod
<1> DEFINE D == DOMAIN maps
           o == NewMap(name, start, end, asked)
           last == IF mapHead = 0 THEN p ELSE maps[mapHead].prev
<1> HIDE DEF o, last
<1>0. o = NewMap(name, start, end, asked)
    BY DEF o
<1>1. /\ p \in Nat /\ p # 0 /\ p \notin D /\ o \in MapRec
      /\ D \in SUBSET Nat /\ 0 \notin D
      /\ maps \in [D -> MapRec] /\ mapHead \in D \cup {0}
      /\ maps' = Linked(maps, mapHead, p, o) /\ D = DOMAIN maps
    BY <1>0, NewMapFacts
<1> HIDE DEF D
<1>2. maps' \in [D \cup {p} -> MapRec]
    BY <1>1, LinkedMap DEF last
<1>3. DOMAIN maps' = D \cup {p}
    BY <1>2
<1>4. /\ maps'[p].next = (IF mapHead = 0 THEN p ELSE mapHead)
      /\ maps'[p].prev = last
      /\ maps'[p].name = o.name /\ maps'[p].nameptr = o.nameptr /\ maps'[p].id = o.id
    BY <1>1 DEF last, Linked, MapRec
<1> QED
  <2>1. /\ p \notin Objects /\ o.name = name /\ o.nameptr = Ptr(After(size, MapSz))
        /\ o.id = Len(mapList) % IdMod
      BY <1>0, NewMapFacts
  <2> QED
      BY <1>0, <1>1, <1>2, <1>3, <1>4, <2>1 DEF last, D

LEMMA MapStepRange ==
    ASSUME Inv, NEW name \in Names, NEW start \in Nat, NEW end \in Nat,
           NEW asked \in Nat \X Nat, MapStep(name, start, end, asked), NEW p, p = Ptr(size)
    PROVE  maps'[p].start = start /\ maps'[p].end = end
<1>0. PICK o : o = NewMap(name, start, end, asked)
    OBVIOUS
<1>1. maps' = Linked(maps, mapHead, p, o) /\ o \in MapRec
    BY <1>0, NewMapFacts
<1>2. maps'[p].start = o.start /\ maps'[p].end = o.end
    BY <1>1 DEF Linked, MapRec
<1>3. o.start = start /\ o.end = end
    BY <1>0 DEF NewMap
<1> QED BY <1>2, <1>3

\* The other maps keep all but their links.
LEMMA MapStepOther ==
    ASSUME Inv, NEW name \in Names, NEW start \in Nat, NEW end \in Nat,
           NEW asked \in Nat \X Nat, MapStep(name, start, end, asked), NEW p, p = Ptr(size),
           NEW x \in DOMAIN maps
    PROVE  /\ maps'[x].next = (IF mapHead # 0 /\ x = maps[mapHead].prev
                               THEN p ELSE maps[x].next)
           /\ maps'[x].prev = (IF x = mapHead THEN p ELSE maps[x].prev)
           /\ maps'[x].name = maps[x].name /\ maps'[x].nameptr = maps[x].nameptr
           /\ maps'[x].id = maps[x].id
           /\ maps'[x].start = maps[x].start /\ maps'[x].end = maps[x].end
<1> DEFINE D == DOMAIN maps
           o == NewMap(name, start, end, asked)
           last == IF mapHead = 0 THEN p ELSE maps[mapHead].prev
<1> HIDE DEF o, last
<1>0. o = NewMap(name, start, end, asked)
    BY DEF o
<1>1. /\ p \in Nat /\ p # 0 /\ p \notin D /\ o \in MapRec
      /\ D \in SUBSET Nat /\ 0 \notin D
      /\ maps \in [D -> MapRec] /\ mapHead \in D \cup {0}
      /\ maps' = Linked(maps, mapHead, p, o) /\ D = DOMAIN maps
    BY <1>0, NewMapFacts
<1> HIDE DEF D
<1>2. x \in D
    BY DEF D
<1>3. /\ maps'[x].next = (IF x = last THEN p ELSE maps[x].next)
      /\ maps'[x].prev = (IF x = mapHead THEN p ELSE maps[x].prev)
      /\ maps'[x].name = maps[x].name /\ maps'[x].nameptr = maps[x].nameptr
      /\ maps'[x].id = maps[x].id
      /\ maps'[x].start = maps[x].start /\ maps'[x].end = maps[x].end
    BY <1>1, <1>2, LinkedOther DEF last
<1>4. x = last <=> mapHead # 0 /\ x = maps[mapHead].prev
    BY <1>1, <1>2 DEF last
<1> QED
    BY <1>3, <1>4

-----------------------------------------------------------------------------
(* A map is added.                                                         *)

LEMMA MapStepType ==
    ASSUME Inv, NEW name \in Names, NEW start \in Nat, NEW end \in Nat,
           NEW asked \in Nat \X Nat, MapStep(name, start, end, asked)
    PROVE  TypeInv' /\ SizeInv'
<1>0. PICK p, s : p = Ptr(size) /\ s = After(size, MapSz)
    OBVIOUS
<1>1. /\ p = Ptr(size) /\ p \in Nat /\ p # 0 /\ DOMAIN maps' = DOMAIN maps \cup {p}
      /\ maps' \in [DOMAIN maps' -> MapRec]
    BY <1>0, MapStepFacts
<1>2. /\ size \in Nat /\ DOMAIN maps \subseteq Nat \ {0} /\ mapHead \in DOMAIN maps \cup {0}
      /\ mapList \in Seq(Nat) /\ SyspageSz <= size
    BY DEF Inv, TypeInv, SizeInv
<1>3. s \in Nat /\ s >= size
  <2>1. MapSz \in Nat
      BY ConstantFacts
  <2>2. s \in Nat /\ s >= size + MapSz
      BY <1>0, <1>2, <2>1, AllocFacts
  <2> QED BY <1>2, <2>1, <2>2
<1>4. size' = After(s, NameSz[name]) /\ After(s, NameSz[name]) < MaxSz
    BY <1>0 DEF MapStep
<1>5. size' \in Nat /\ size' >= s /\ size' % Align = 0
  <2>1. NameSz[name] \in Nat
      BY ConstantFacts
  <2>2. size' \in Nat /\ size' >= s + NameSz[name] /\ size' % Align = 0
      BY <1>3, <1>4, <2>1, AllocFacts
  <2> QED BY <1>3, <2>1, <2>2
<1>6. SizeInv'
    BY <1>2, <1>3, <1>4, <1>5, ConstantFacts DEF SizeInv
<1>7. mapList' \in Seq(Nat)
    BY <1>1, <1>2 DEF MapStep
<1>8. DOMAIN maps' \subseteq Nat \ {0} /\ mapHead' \in DOMAIN maps' \cup {0}
    BY <1>1, <1>2 DEF MapStep
<1>9. UNCHANGED <<arch, progs, progHead, aliases, imgsz>>
    BY DEF MapStep
<1>10. TypeInv'
    BY <1>1, <1>5, <1>7, <1>8, <1>9 DEF Inv, TypeInv
<1> QED
    BY <1>6, <1>10

\* The map and its name lie behind everything that was in the buffer.
LEMMA MapStepLayout ==
    ASSUME Inv, NEW name \in Names, NEW start \in Nat, NEW end \in Nat,
           NEW asked \in Nat \X Nat, MapStep(name, start, end, asked)
    PROVE  LayoutInv'
<1>0. PICK p, s : p = Ptr(size) /\ s = After(size, MapSz)
    OBVIOUS
<1>1. /\ size \in Nat /\ Base \in Nat /\ p = Base + size /\ size % Align = 0
      /\ SyspageSz <= size /\ p - Base = size
  <2>1. size \in Nat /\ size % Align = 0 /\ SyspageSz <= size
      BY DEF Inv, TypeInv, SizeInv
  <2>2. Base \in Nat
      BY ConstantFacts
  <2> QED BY <1>0, <2>1, <2>2 DEF Ptr
<1>2. /\ p \in Nat /\ p \notin Objects /\ p \notin DOMAIN maps
      /\ DOMAIN maps' = DOMAIN maps \cup {p}
      /\ maps'[p].name = name /\ maps'[p].nameptr = Ptr(s)
    BY <1>0, MapStepFacts
<1>3. MapSz \in Nat /\ MapSz > 0 /\ s \in Nat /\ s >= size + MapSz /\ s % Align = 0
  <2>1. MapSz \in Nat /\ MapSz > 0
      BY ConstantFacts
  <2> QED BY <1>0, <1>1, <2>1, AllocFacts
<1>4. size' = After(s, NameSz[name])
    BY <1>0 DEF MapStep
<1>5. size' \in Nat /\ size' >= s + NameSz[name] /\ NameSz[name] \in Nat /\ NameSz[name] > 0
  <2>1. NameSz[name] \in Nat /\ NameSz[name] > 0
      BY ConstantFacts
  <2> QED BY <1>3, <1>4, <2>1, AllocFacts
<1>6. Ptr(s) = s + Base /\ Ptr(s) \in Nat /\ Ptr(s) - Base = s
    BY <1>1, <1>3 DEF Ptr
<1>7. progs' = progs
    BY DEF MapStep
<1>8. /\ DOMAIN maps \cap DOMAIN progs = {}
      /\ \A x \in DOMAIN maps : MapLayout(x)
      /\ \A x \in DOMAIN progs : ProgLayout(x)
      /\ \A x \in Objects : Base + SyspageSz <= x /\ x < End(x) /\ End(x) <= Base + size
      /\ \A x, y \in Objects : x # y => End(x) <= y \/ End(y) <= x
    BY DEF Inv, LayoutInv
<1>9. Objects' = Objects \cup {p}
    BY <1>2, <1>7 DEF Objects
<1>10. ASSUME NEW x \in DOMAIN maps
       PROVE  MapLayout(x)' /\ MapEnd(x)' = MapEnd(x)
  <2>1. maps'[x].name = maps[x].name /\ maps'[x].nameptr = maps[x].nameptr
      BY MapStepOther
  <2> QED
      BY <2>1, <1>8 DEF MapLayout, MapEnd
<1>11. MapLayout(p)' /\ MapEnd(p)' = Ptr(s) + NameSz[name]
    BY <1>1, <1>2, <1>3, <1>6 DEF MapLayout, MapEnd
<1>12. ASSUME NEW x \in DOMAIN progs
       PROVE  ProgLayout(x)' /\ ProgEnd(x)' = ProgEnd(x)
    BY <1>7, <1>8 DEF ProgLayout, ProgEnd
<1>13. ASSUME NEW x \in Objects
       PROVE  End(x)' = End(x) /\ x \in Nat /\ End(x) \in Nat
  <2>1. x \in Nat /\ End(x) \in Nat
      BY EndsType DEF Inv
  <2>2. CASE x \in DOMAIN maps
      BY <1>2, <1>10, <2>1, <2>2 DEF End
  <2>3. CASE x \notin DOMAIN maps
      BY <1>2, <1>12, <2>1, <2>3 DEF End, Objects
  <2> QED BY <2>2, <2>3
<1>14. End(p)' = Ptr(s) + NameSz[name]
    BY <1>2, <1>11 DEF End
<1>15. \A x \in Objects' : Base + SyspageSz <= x /\ x < End(x)' /\ End(x)' <= Base + size'
  <2>1. ASSUME NEW x \in Objects
        PROVE  Base + SyspageSz <= x /\ x < End(x)' /\ End(x)' <= Base + size'
      BY <1>1, <1>3, <1>5, <1>8, <1>13, ConstantFacts
  <2>2. Base + SyspageSz <= p /\ p < End(p)' /\ End(p)' <= Base + size'
      BY <1>1, <1>3, <1>5, <1>6, <1>14, ConstantFacts
  <2> QED BY <1>9, <2>1, <2>2
<1>16. \A x \in Objects : End(x)' <= p
    BY <1>1, <1>8, <1>13
<1>17. \A x, y \in Objects' : x # y => End(x)' <= y \/ End(y)' <= x
    BY <1>8, <1>9, <1>13, <1>16
<1>18. DOMAIN maps' \cap DOMAIN progs' = {}
    BY <1>2, <1>7, <1>8 DEF Objects
<1> QED
    BY <1>2, <1>7, <1>10, <1>11, <1>12, <1>15, <1>17, <1>18 DEF LayoutInv

\* Linking in before the head appends to the ring: the last map and the head are
\* the only ones whose links change.
LEMMA MapStepRing ==
    ASSUME Inv, NEW name \in Names, NEW start \in Nat, NEW end \in Nat,
           NEW asked \in Nat \X Nat, MapStep(name, start, end, asked)
    PROVE  MapRing' /\ ListInv'
<1>0. PICK p, len : p = Ptr(size) /\ len = Len(mapList)
    OBVIOUS
<1>1. /\ p \in Nat /\ p # 0 /\ p \notin DOMAIN maps
      /\ DOMAIN maps' = DOMAIN maps \cup {p}
      /\ maps'[p].next = (IF mapHead = 0 THEN p ELSE mapHead)
      /\ maps'[p].prev = (IF mapHead = 0 THEN p ELSE maps[mapHead].prev)
      /\ maps'[p].id = len % IdMod
    BY <1>0, MapStepFacts
<1>2. /\ len \in Nat /\ DOMAIN mapList = 1 .. len
      /\ \A i \in 1 .. len : mapList[i] \in DOMAIN maps /\ mapList[i] # 0
      /\ \A x \in DOMAIN maps : \E i \in 1 .. len : x = mapList[i]
      /\ len = 0 => mapHead = 0
    BY <1>0, RingFacts DEF Inv
<1>3. ASSUME len # 0
      PROVE  /\ mapHead = mapList[1] /\ mapHead # 0
             /\ maps[mapHead].prev = mapList[len] /\ maps[mapList[len]].next = mapHead
    BY <1>0, <1>3, RingFacts DEF Inv
<1>4. ASSUME NEW i \in 1 .. len, i # len
      PROVE  /\ maps[mapList[i]].next = mapList[i + 1]
             /\ maps[mapList[i + 1]].prev = mapList[i]
    BY <1>0, <1>4, RingFacts DEF Inv
<1>5. /\ Len(mapList') = len + 1 /\ mapList'[len + 1] = p
      /\ \A i \in 1 .. len : mapList'[i] = mapList[i]
  <2>1. mapList \in Seq(Nat) /\ mapList' = Append(mapList, p)
      BY <1>0 DEF Inv, TypeInv, MapStep
  <2> QED BY <1>0, <1>1, <2>1
<1>6. \A i, j \in 1 .. len : mapList[i] = mapList[j] => i = j
    BY <1>0 DEF Inv, ListInv
<1>7. DOMAIN maps' = {mapList'[i] : i \in 1 .. len + 1}
  <2>1. ASSUME NEW i \in 1 .. len + 1
        PROVE  mapList'[i] \in DOMAIN maps \cup {p}
      BY <1>2, <1>5
  <2>2. ASSUME NEW x \in DOMAIN maps \cup {p}
        PROVE  \E i \in 1 .. len + 1 : x = mapList'[i]
    <3>1. CASE x = p
        BY <1>2, <1>5, <3>1
    <3>2. CASE x \in DOMAIN maps
      <4>1. PICK i \in 1 .. len : x = mapList[i]
          BY <1>2, <3>2
      <4>2. i \in 1 .. len + 1 /\ x = mapList'[i]
          BY <1>2, <1>5, <4>1
      <4> QED BY <4>2
    <3> QED BY <3>1, <3>2
  <2> QED BY <1>1, <2>1, <2>2
<1>8. mapHead' = mapList'[1]
    BY <1>0, <1>2, <1>3, <1>5 DEF MapStep
<1>9. ASSUME NEW i \in 1 .. len
      PROVE  /\ maps'[mapList[i]].next = (IF i = len THEN p ELSE maps[mapList[i]].next)
             /\ maps'[mapList[i]].prev = (IF i = 1 THEN p ELSE maps[mapList[i]].prev)
             /\ maps'[mapList[i]].id = maps[mapList[i]].id
  <2> DEFINE x == mapList[i]
  <2>1. x \in DOMAIN maps /\ len # 0 /\ 1 \in 1 .. len /\ len \in 1 .. len
      BY <1>2
  <2> HIDE DEF x
  <2>2. /\ maps'[x].next = (IF mapHead # 0 /\ x = maps[mapHead].prev
                            THEN p ELSE maps[x].next)
        /\ maps'[x].prev = (IF x = mapHead THEN p ELSE maps[x].prev)
        /\ maps'[x].id = maps[x].id
      BY <1>0, <2>1, MapStepOther
  <2>3. x = mapHead <=> i = 1
      BY <1>3, <1>6, <2>1 DEF x
  <2>4. mapHead # 0 /\ (x = maps[mapHead].prev <=> i = len)
      BY <1>3, <1>6, <2>1 DEF x
  <2> QED
      BY <2>2, <2>3, <2>4 DEF x
<1>10. ASSUME NEW i \in 1 .. len + 1, NEW j, j = IF i = len + 1 THEN 1 ELSE i + 1
       PROVE  /\ maps'[mapList'[i]].next = mapList'[j]
              /\ maps'[mapList'[j]].prev = mapList'[i]
  <2>1. CASE len = 0
      BY <1>1, <1>2, <1>5, <1>10, <2>1
  <2>2. CASE len # 0 /\ i = len + 1
    <3>1. 1 \in 1 .. len /\ j = 1 /\ mapList'[i] = p /\ mapList'[j] = mapList[1]
        BY <1>2, <1>5, <1>10, <2>2
    <3>2. maps'[mapList[1]].prev = p
        BY <3>1, <1>9
    <3> QED
        BY <1>1, <1>3, <2>2, <3>1, <3>2
  <2>3. CASE len # 0 /\ i = len
    <3>1. len \in 1 .. len /\ j = len + 1 /\ mapList'[i] = mapList[len] /\ mapList'[j] = p
        BY <1>2, <1>5, <1>10, <2>3
    <3>2. maps'[mapList[len]].next = p
        BY <3>1, <1>9
    <3> QED
        BY <1>1, <1>3, <2>3, <3>1, <3>2
  <2>4. CASE i # len /\ i # len + 1
    <3>1. /\ i \in 1 .. len /\ j = i + 1 /\ i + 1 \in 1 .. len /\ i + 1 # 1
          /\ mapList'[i] = mapList[i] /\ mapList'[j] = mapList[i + 1]
        BY <1>2, <1>5, <1>10, <2>4
    <3>2. /\ maps'[mapList[i]].next = maps[mapList[i]].next
          /\ maps'[mapList[i + 1]].prev = maps[mapList[i + 1]].prev
        BY <3>1, <2>4, <1>9
    <3> QED
        BY <1>4, <2>4, <3>1, <3>2
  <2> QED BY <1>2, <2>1, <2>2, <2>3, <2>4
<1>11. MapRing'
  <2>1. len + 1 # 0 /\ Len(mapList)' = len + 1
      BY <1>2, <1>5
  <2>2. mapHead' = IF len + 1 = 0 THEN 0 ELSE mapList'[1]
      BY <1>8, <2>1
  <2> QED
      BY <1>7, <1>10, <2>1, <2>2, SMTT(30) DEF MapRing
<1>12. \A i, j \in 1 .. len + 1 : mapList'[i] = mapList'[j] => i = j
    BY <1>1, <1>2, <1>5, <1>6
<1>13. ASSUME NEW i \in 1 .. len + 1
       PROVE  maps'[mapList'[i]].id = (i - 1) % IdMod
  <2>1. CASE i \in 1 .. len
    <3>1. maps[mapList[i]].id = (i - 1) % IdMod
        BY <1>0, <2>1 DEF Inv, ListInv
    <3> QED BY <1>5, <1>9, <2>1, <3>1
  <2>2. CASE i = len + 1
      BY <1>1, <1>2, <1>5, <2>2
  <2> QED BY <1>2, <2>1, <2>2
<1>14. ListInv'
    BY <1>5, <1>12, <1>13 DEF ListInv
<1> QED
    BY <1>11, <1>14

\* The new map was compared with all the others.
LEMMA MapStepDisjoint ==
    ASSUME Inv, NEW name \in Names, NEW start \in Nat, NEW end \in Nat,
           NEW asked \in Nat \X Nat, MapStep(name, start, end, asked)
    PROVE  MapsDisjoint'
<1>0. PICK p : p = Ptr(size)
    OBVIOUS
<1>1. /\ p \notin DOMAIN maps /\ DOMAIN maps' = DOMAIN maps \cup {p}
      /\ maps'[p].name = name /\ maps'[p].start = start /\ maps'[p].end = end
  <2>1. /\ p \notin DOMAIN maps /\ DOMAIN maps' = DOMAIN maps \cup {p}
        /\ maps'[p].name = name
      BY <1>0, MapStepFacts
  <2>2. maps'[p].start = start /\ maps'[p].end = end
      BY <1>0, MapStepRange
  <2> QED BY <2>1, <2>2
<1>2. ASSUME NEW x \in DOMAIN maps
      PROVE  /\ maps'[x].name = maps[x].name
             /\ maps'[x].start = maps[x].start /\ maps'[x].end = maps[x].end
             /\ maps[x].start \in Nat /\ maps[x].end \in Nat
  <2>1. maps[x] \in MapRec
      BY EndsType DEF Inv
  <2> QED BY <2>1, MapStepOther DEF MapRec
<1>3. ASSUME NEW x \in DOMAIN maps
      PROVE  ~(maps[x].start < end /\ maps[x].end > start) /\ maps[x].name # name
  <2>1. x \in Visited(maps, mapHead)
      BY RingVisited DEF Inv
  <2> QED BY <2>1 DEF MapStep, Overlapping
<1>4. ASSUME NEW x \in DOMAIN maps'
      PROVE  maps'[x].start \in Nat /\ maps'[x].end \in Nat
    BY <1>1, <1>2
<1>5. ASSUME NEW x \in DOMAIN maps', NEW y \in DOMAIN maps', x # y
      PROVE  /\ ~(maps'[x].start < maps'[y].end /\ maps'[x].end > maps'[y].start)
             /\ maps'[x].name # maps'[y].name
  <2>1. CASE x \in DOMAIN maps /\ y \in DOMAIN maps
      BY <1>2, <1>5, <2>1 DEF Inv, MapsDisjoint
  <2>2. CASE x \in DOMAIN maps /\ y = p
      BY <1>1, <1>2, <1>3, <2>2
  <2>3. CASE x = p /\ y \in DOMAIN maps
      BY <1>1, <1>2, <1>3, <2>3
  <2> QED BY <1>1, <1>5, <2>1, <2>2, <2>3
<1> QED
    BY <1>5 DEF MapsDisjoint

\* Programs keep their maps when one is added.
LEMMA MapStepProgs ==
    ASSUME Inv, NEW name \in Names, NEW start \in Nat, NEW end \in Nat,
           NEW asked \in Nat \X Nat, MapStep(name, start, end, asked)
    PROVE  ProgsInv' /\ ImageInv'
<1>1. DOMAIN maps' = DOMAIN maps \cup {Ptr(size)}
    BY MapStepFacts
<1>2. ASSUME NEW x \in DOMAIN maps
      PROVE  maps'[x].name = maps[x].name /\ maps'[x].id = maps[x].id
    BY MapStepOther
<1>3. ASSUME NEW ids, NEW names, Denote(ids, names)
      PROVE  Denote(ids, names)'
    BY <1>1, <1>2, <1>3 DEF Denote
<1>4. progs' = progs /\ aliases' = aliases /\ imgsz' = imgsz
    BY DEF MapStep
<1>5. ProgsInv'
    BY <1>3, <1>4 DEF Inv, ProgsInv
<1>6. ImageInv'
    BY <1>4 DEF Inv, ImageInv
<1> QED
    BY <1>5, <1>6

LEMMA MapStepKeepsInv ==
    ASSUME Inv, NEW name \in Names, NEW start \in Nat, NEW end \in Nat,
           NEW asked \in Nat \X Nat, MapStep(name, start, end, asked)
    PROVE  Inv'
BY MapStepType, MapStepLayout, MapStepRing, MapStepDisjoint, MapStepProgs DEF Inv

-----------------------------------------------------------------------------
(* An alias is added; anything else.                                       *)

\* The image size covers the new alias and the ones before it.
LEMMA AliasStepKeepsInv ==
    ASSUME Inv, NEW name \in Names, NEW addr \in Nat, NEW sz \in Nat,
           AliasStep(name, addr, sz)
    PROVE  Inv'
<1>0. PICK new : new = [name |-> name, addr |-> addr + Pkernel, size |-> sz]
    OBVIOUS
<1>1. /\ UNCHANGED <<arch, size, maps, mapHead, progs, progHead, mapList>>
      /\ aliases' = <<new>> \o aliases
      /\ imgsz' = IF imgsz < addr + sz THEN (addr + sz) % AddrMod32 ELSE imgsz
    BY <1>0 DEF AliasStep
<1>2. /\ aliases \in Seq([name : Names, addr : Nat, size : Nat]) /\ imgsz \in Nat
      /\ Len(aliases) \in Nat
    BY DEF Inv, TypeInv
<1>3. /\ new \in [name : Names, addr : Nat, size : Nat]
      /\ new.addr = addr + Pkernel /\ new.size = sz
    BY <1>0, ConstantFacts
<1>4. /\ aliases' \in Seq([name : Names, addr : Nat, size : Nat])
      /\ Len(aliases') = Len(aliases) + 1 /\ aliases'[1] = new
      /\ \A i \in 1 .. Len(aliases) : aliases'[i + 1] = aliases[i]
    BY <1>1, <1>2, <1>3
<1>5. imgsz' \in Nat
    BY <1>1, <1>2, ConstantFacts
<1>6. TypeInv'
    BY <1>1, <1>4, <1>5 DEF Inv, TypeInv
<1>7. SizeInv' /\ LayoutInv' /\ MapRing' /\ ListInv' /\ MapsDisjoint'
  <2>1. SizeInv'
      BY <1>1 DEF Inv, SizeInv
  <2>2. LayoutInv'
      BY <1>1 DEF Inv, LayoutInv, Objects, End, MapEnd, ProgEnd, MapLayout, ProgLayout
  <2>3. MapRing'
      BY <1>1 DEF Inv, MapRing
  <2>4. ListInv' /\ MapsDisjoint'
      BY <1>1 DEF Inv, ListInv, MapsDisjoint
  <2> QED BY <2>1, <2>2, <2>3, <2>4
<1>8. ProgsInv'
  <2> SUFFICES ASSUME NEW p \in DOMAIN progs
               PROVE  /\ \E i \in 1 .. Len(aliases') :
                            progs[p].end <= aliases'[i].addr + aliases'[i].size
                      /\ Denote(progs[p].imaps, progs[p].inames)
                      /\ Denote(progs[p].dmaps, progs[p].dnames)
      BY <1>1 DEF ProgsInv, Denote
  <2>1. PICK i \in 1 .. Len(aliases) : progs[p].end <= aliases[i].addr + aliases[i].size
      BY DEF Inv, ProgsInv
  <2>2. i + 1 \in 1 .. Len(aliases') /\ aliases'[i + 1] = aliases[i]
      BY <1>2, <1>4
  <2> QED
      BY <2>1, <2>2 DEF Inv, ProgsInv
<1>9. ImageInv'
  <2> SUFFICES ASSUME \A i \in 1 .. Len(aliases') :
                          aliases'[i].addr - Pkernel + aliases'[i].size < AddrMod32,
                      NEW i \in 1 .. Len(aliases')
               PROVE  aliases'[i].addr + aliases'[i].size <= Pkernel + imgsz'
      BY DEF ImageInv
  <2>1. addr + sz < AddrMod32
    <3>1. 1 \in 1 .. Len(aliases')
        BY <1>2, <1>4
    <3> QED BY <1>3, <1>4, <3>1, ConstantFacts
  <2>2. imgsz' = IF imgsz < addr + sz THEN addr + sz ELSE imgsz
    <3>1. (addr + sz) % AddrMod32 = addr + sz
      <4>1. addr + sz \in Nat /\ AddrMod32 \in Nat
          BY ConstantFacts
      <4> QED BY <2>1, <4>1, ModSmall
    <3> QED BY <1>1, <3>1
  <2>3. CASE i = 1
      BY <1>2, <1>3, <1>4, <2>2, <2>3, ConstantFacts, SMTT(30)
  <2>4. CASE i # 1
    <3>1. i - 1 \in 1 .. Len(aliases) /\ aliases'[i] = aliases[i - 1]
      <4>1. i - 1 \in 1 .. Len(aliases) /\ (i - 1) + 1 = i
          BY <1>2, <1>4, <2>4
      <4> QED BY <1>4, <4>1
    <3>2. ASSUME NEW j \in 1 .. Len(aliases)
          PROVE  aliases[j].addr - Pkernel + aliases[j].size < AddrMod32
      <4>1. j + 1 \in 1 .. Len(aliases') /\ aliases'[j + 1] = aliases[j]
          BY <1>2, <1>4
      <4> QED BY <4>1
    <3>3. aliases[i - 1].addr + aliases[i - 1].size <= Pkernel + imgsz
        BY <3>1, <3>2 DEF Inv, ImageInv
    <3>4. aliases[i - 1].addr \in Nat /\ aliases[i - 1].size \in Nat
      <4>1. \A j \in 1 .. Len(aliases) : aliases[j] \in [name : Names, addr : Nat, size : Nat]
          BY <1>2, ElementOfSeq
      <4> QED BY <3>1, <4>1
    <3>5. imgsz <= imgsz'
        BY <1>2, <2>2
    <3>6. aliases[i - 1].addr + aliases[i - 1].size <= Pkernel + imgsz'
      <4>1. PICK e \in Nat : e = aliases[i - 1].addr + aliases[i - 1].size
          BY <3>4
      <4>2. Pkernel \in Nat
          BY ConstantFacts
      <4>3. e <= Pkernel + imgsz'
          BY <1>2, <1>5, <3>3, <3>5, <4>1, <4>2
      <4> QED BY <4>1, <4>3
    <3> QED
        BY <3>1, <3>6
  <2> QED BY <2>3, <2>4
<1> QED
    BY <1>6, <1>7, <1>8, <1>9 DEF Inv

\* A size that grows without an object disturbs nothing.
LEMMA OtherStepKeepsInv ==
    ASSUME Inv, OtherStep
    PROVE  Inv'
<1>1. UNCHANGED <<arch, maps, mapHead, progs, progHead, aliases, imgsz, mapList>>
    BY DEF OtherStep
<1>2. size \in Nat /\ size' \in Nat /\ size' >= size
    BY DEF Inv, TypeInv, OtherStep, Grows
<1>3. TypeInv' /\ MapRing' /\ ListInv' /\ MapsDisjoint' /\ ProgsInv' /\ ImageInv'
  <2>1. TypeInv'
      BY <1>1, <1>2 DEF Inv, TypeInv
  <2>2. MapRing'
      BY <1>1 DEF Inv, MapRing
  <2>3. ListInv' /\ MapsDisjoint'
      BY <1>1 DEF Inv, ListInv, MapsDisjoint
  <2>4. ProgsInv' /\ ImageInv'
      BY <1>1 DEF Inv, ProgsInv, ImageInv, Denote
  <2> QED BY <2>1, <2>2, <2>3, <2>4
<1>4. SizeInv'
  <2>1. size % Align = 0 /\ SyspageSz <= size /\ size <= MaxSz
      BY DEF Inv, SizeInv
  <2>2. size' % Align = 0 /\ size' <= MaxSz
      BY <2>1 DEF OtherStep, Grows
  <2>3. SyspageSz \in Nat
      BY ConstantFacts
  <2>4. SyspageSz <= size'
      BY <1>2, <2>1, <2>3
  <2> QED BY <2>2, <2>4 DEF SizeInv
<1>5. LayoutInv'
  <2>1. \A p \in Objects : End(p) \in Nat /\ End(p) <= Base + size
      BY EndsType DEF Inv, LayoutInv
  <2>2. \A p \in Objects : End(p) <= Base + size'
      BY <1>2, <2>1, ConstantFacts
  <2> QED
      BY <1>1, <2>2 DEF Inv, LayoutInv, Objects, End, MapEnd, ProgEnd, MapLayout, ProgLayout
<1> QED
    BY <1>3, <1>4, <1>5 DEF Inv

-----------------------------------------------------------------------------
(* A program is added.                                                     *)

\* The new object of a ring of programs.
LEMMA LinkedProg ==
    ASSUME NEW D \in SUBSET Nat, NEW objs \in [D -> ProgRec], NEW head \in D \cup {0},
           NEW p \in Nat, NEW o \in ProgRec, p \notin D, 0 \notin D,
           NEW L, L = Linked(objs, head, p, o)
    PROVE  /\ L \in [D \cup {p} -> ProgRec]
           /\ L[p].end = o.end /\ L[p].dptr = o.dptr /\ L[p].iptr = o.iptr
           /\ L[p].argv = o.argv /\ L[p].argvSz = o.argvSz /\ L[p].inames = o.inames
           /\ L[p].dnames = o.dnames /\ L[p].imaps = o.imaps /\ L[p].dmaps = o.dmaps
BY ZenonT(60) DEF Linked, ProgRec

\* Resolved names are identifiers of maps with these names.
LEMMA ResolvedFacts ==
    ASSUME Inv, NEW names \in Seq(Names), Resolvable(names)
    PROVE  /\ sysgen_mapsAdd2Prog(names) \in Seq(Nat)
           /\ Denote(sysgen_mapsAdd2Prog(names), names)
<1>0. PICK ids : ids = sysgen_mapsAdd2Prog(names)
    OBVIOUS
<1>1. ids = [i \in 1 .. Len(names) |-> CHOOSE id \in mapNameResolve(names[i]) : TRUE]
    BY <1>0 DEF sysgen_mapsAdd2Prog
<1>2. ASSUME NEW i \in 1 .. Len(names)
      PROVE  \E m \in DOMAIN maps : maps[m].id = ids[i] /\ maps[m].name = names[i]
  <2>1. ids[i] \in mapNameResolve(names[i])
      BY <1>1 DEF Resolvable
  <2>2. mapNameResolve(names[i]) = {maps[m].id : m \in MapsNamed(names[i])}
      BY DEF mapNameResolve, RUN, sysgen32_mapNameResolve, sysgen64_mapNameResolve
  <2>3. PICK m \in MapsNamed(names[i]) : ids[i] = maps[m].id
      BY <2>1, <2>2
  <2>4. m \in DOMAIN maps /\ maps[m].name = names[i]
      BY RingVisited DEF MapsNamed, Inv
  <2> QED BY <2>3, <2>4
<1>3. ASSUME NEW i \in 1 .. Len(names)
      PROVE  ids[i] \in Nat
  <2>1. PICK m \in DOMAIN maps : maps[m].id = ids[i]
      BY <1>2
  <2>2. maps[m] \in MapRec
      BY EndsType DEF Inv
  <2> QED BY <2>1, <2>2 DEF MapRec
<1>4. Len(names) \in Nat
    OBVIOUS
<1>5. ids \in [1 .. Len(names) -> Nat]
    BY <1>1, <1>3
<1>6. ids \in Seq(Nat) /\ Len(ids) = Len(names)
    BY <1>4, <1>5
<1> QED
    BY <1>0, <1>2, <1>6 DEF Denote

\* The four allocations of a program lie one behind the other.
LEMMA ProgEndsFacts ==
    ASSUME NEW n \in Nat, NEW imaps \in Seq(Names), NEW dmaps \in Seq(Names), NEW argvSz \in Nat,
           n = size, NEW s1, NEW s2, NEW s3, NEW s4,
           <<s1, s2, s3, s4>> = ProgEnds(imaps, dmaps, argvSz)
    PROVE  /\ s1 \in Nat /\ s1 >= n + ProgSz /\ s1 % Align = 0
           /\ s2 \in Nat /\ s2 >= s1 + Len(dmaps) /\ s2 % Align = 0
           /\ s3 \in Nat /\ s3 >= s2 + Len(imaps) /\ s3 % Align = 0
           /\ s4 \in Nat /\ s4 >= s3 + argvSz /\ s4 % Align = 0
<1>1. /\ s1 = After(n, ProgSz) /\ s2 = After(s1, Len(dmaps))
      /\ s3 = After(s2, Len(imaps)) /\ s4 = After(s3, argvSz)
    BY DEF ProgEnds
<1>2. ProgSz \in Nat /\ Len(imaps) \in Nat /\ Len(dmaps) \in Nat
    BY ConstantFacts
<1>3. s1 \in Nat /\ s1 >= n + ProgSz /\ s1 % Align = 0
    BY <1>1, <1>2, AllocFacts
<1>4. s2 \in Nat /\ s2 >= s1 + Len(dmaps) /\ s2 % Align = 0
    BY <1>1, <1>2, <1>3, AllocFacts
<1>5. s3 \in Nat /\ s3 >= s2 + Len(imaps) /\ s3 % Align = 0
    BY <1>1, <1>2, <1>4, AllocFacts
<1>6. s4 \in Nat /\ s4 >= s3 + argvSz /\ s4 % Align = 0
    BY <1>1, <1>2, <1>5, AllocFacts
<1> QED
    BY <1>3, <1>4, <1>5, <1>6

\* The program that appAdd fills in.
LEMMA NewProgFacts ==
    ASSUME Inv, NEW i \in 1 .. Len(aliases), NEW imaps \in Seq(Names), NEW dmaps \in Seq(Names),
           NEW argvSz \in Nat, ProgStep(i, imaps, dmaps, argvSz),
           NEW p, p = Ptr(size), NEW o, o = NewProg(i, imaps, dmaps, argvSz),
           NEW s1, NEW s2, NEW s3, NEW s4, <<s1, s2, s3, s4>> = ProgEnds(imaps, dmaps, argvSz)
    PROVE  /\ o \in ProgRec /\ o.dptr = Ptr(s1) /\ o.iptr = Ptr(s2) /\ o.argv = Ptr(s3)
           /\ o.argvSz = argvSz /\ o.inames = imaps /\ o.dnames = dmaps
           /\ o.imaps = sysgen_mapsAdd2Prog(imaps) /\ o.dmaps = sysgen_mapsAdd2Prog(dmaps)
           /\ o.end <= aliases[i].addr + aliases[i].size
<1>1. /\ o.dptr = Ptr(s1) /\ o.iptr = Ptr(s2) /\ o.argv = Ptr(s3)
      /\ o.argvSz = argvSz /\ o.inames = imaps /\ o.dnames = dmaps
      /\ o.imaps = sysgen_mapsAdd2Prog(imaps) /\ o.dmaps = sysgen_mapsAdd2Prog(dmaps)
    BY DEF NewProg
<1>2. size \in Nat
    BY DEF Inv, TypeInv
<1>3. s1 \in Nat /\ s2 \in Nat /\ s3 \in Nat
    BY <1>2, ProgEndsFacts
<1>4. Ptr(s1) \in Nat /\ Ptr(s2) \in Nat /\ Ptr(s3) \in Nat
    BY <1>3, ConstantFacts DEF Ptr
<1>5. sysgen_mapsAdd2Prog(imaps) \in Seq(Nat) /\ sysgen_mapsAdd2Prog(dmaps) \in Seq(Nat)
    BY ResolvedFacts DEF ProgStep
<1>6. aliases[i].addr \in Nat /\ aliases[i].size \in Nat
  <2>1. aliases \in Seq([name : Names, addr : Nat, size : Nat])
      BY DEF Inv, TypeInv
  <2>2. aliases[i] \in [name : Names, addr : Nat, size : Nat]
      BY <2>1, ElementOfSeq
  <2> QED BY <2>2
<1>7. ASSUME NEW a \in Nat
      PROVE  Addr(a) \in Nat /\ Addr(a) <= a
  <2>1. a % AddrMod32 \in Nat /\ a % AddrMod32 <= a
      BY ModLess, ConstantFacts
  <2> QED BY <2>1 DEF Addr, RUN
<1>8. /\ o.start = Addr(aliases[i].addr)
      /\ o.end = Addr(aliases[i].addr + aliases[i].size)
    BY DEF NewProg
<1>9. /\ o.start \in Nat /\ o.end \in Nat
      /\ o.end <= aliases[i].addr + aliases[i].size
    BY <1>6, <1>7, <1>8, SMTT(30)
<1>10. o \in ProgRec
    BY <1>1, <1>4, <1>5, <1>9 DEF NewProg, ProgRec
<1> QED
    BY <1>1, <1>9, <1>10

\* The programs stay of their type.
LEMMA ProgStepType ==
    ASSUME Inv, NEW i \in 1 .. Len(aliases), NEW imaps \in Seq(Names), NEW dmaps \in Seq(Names),
           NEW argvSz \in Nat, ProgStep(i, imaps, dmaps, argvSz),
           NEW p, p = Ptr(size)
    PROVE  /\ p \in Nat /\ p # 0 /\ p \notin Objects
           /\ DOMAIN progs' = DOMAIN progs \cup {p}
           /\ progs' \in [DOMAIN progs' -> ProgRec]
<1>0. PICK o, s1, s2, s3, s4 :
          /\ o = NewProg(i, imaps, dmaps, argvSz)
          /\ <<s1, s2, s3, s4>> = ProgEnds(imaps, dmaps, argvSz)
    BY DEF ProgEnds
<1>1. p \in Nat /\ p # 0 /\ p \notin Objects /\ p \notin DOMAIN progs
    BY FreshPointer DEF Inv
<1>2. PICK D : D = DOMAIN progs
    OBVIOUS
<1>3. /\ D \in SUBSET Nat /\ 0 \notin D /\ progs \in [D -> ProgRec]
      /\ progHead \in D \cup {0} /\ D = DOMAIN progs
    BY <1>2 DEF Inv, TypeInv
<1>4. o \in ProgRec
    BY <1>0, NewProgFacts
<1>5. progs' = Linked(progs, progHead, p, o)
    BY <1>0 DEF ProgStep
<1>6. progs' \in [D \cup {p} -> ProgRec]
    BY <1>1, <1>3, <1>4, <1>5, LinkedProg
<1>7. DOMAIN progs' = D \cup {p}
    BY <1>6
<1> QED
    BY <1>1, <1>2, <1>6, <1>7

\* The other programs keep all but their links.
LEMMA ProgStepOther ==
    ASSUME Inv, NEW i \in 1 .. Len(aliases), NEW imaps \in Seq(Names), NEW dmaps \in Seq(Names),
           NEW argvSz \in Nat, ProgStep(i, imaps, dmaps, argvSz),
           NEW x \in DOMAIN progs
    PROVE  /\ progs'[x].end = progs[x].end /\ progs'[x].dptr = progs[x].dptr
           /\ progs'[x].iptr = progs[x].iptr
           /\ progs'[x].argv = progs[x].argv /\ progs'[x].argvSz = progs[x].argvSz
           /\ progs'[x].inames = progs[x].inames /\ progs'[x].dnames = progs[x].dnames
           /\ progs'[x].imaps = progs[x].imaps /\ progs'[x].dmaps = progs[x].dmaps
<1>0. PICK p, o, s1, s2, s3, s4 :
          /\ p = Ptr(size) /\ o = NewProg(i, imaps, dmaps, argvSz)
          /\ <<s1, s2, s3, s4>> = ProgEnds(imaps, dmaps, argvSz)
    BY DEF ProgEnds
<1>1. p \in Nat /\ p # 0 /\ p \notin DOMAIN progs
    BY <1>0, FreshPointer DEF Inv
<1>2. PICK D : D = DOMAIN progs
    OBVIOUS
<1>3. /\ D \in SUBSET Nat /\ 0 \notin D /\ progs \in [D -> ProgRec]
      /\ progHead \in D \cup {0} /\ D = DOMAIN progs /\ x \in D
    BY <1>2 DEF Inv, TypeInv
<1>4. o \in ProgRec
    BY <1>0, NewProgFacts
<1>5. progs' = Linked(progs, progHead, p, o)
    BY <1>0 DEF ProgStep
<1> QED
    BY <1>1, <1>3, <1>4, <1>5 DEF Linked, ProgRec

\* The program that was added.
LEMMA ProgStepNew ==
    ASSUME Inv, NEW i \in 1 .. Len(aliases), NEW imaps \in Seq(Names), NEW dmaps \in Seq(Names),
           NEW argvSz \in Nat, ProgStep(i, imaps, dmaps, argvSz),
           NEW p, p = Ptr(size), NEW o, o = NewProg(i, imaps, dmaps, argvSz)
    PROVE  /\ progs'[p].end = o.end /\ progs'[p].dptr = o.dptr /\ progs'[p].iptr = o.iptr
           /\ progs'[p].argv = o.argv /\ progs'[p].argvSz = o.argvSz
           /\ progs'[p].inames = o.inames /\ progs'[p].dnames = o.dnames
           /\ progs'[p].imaps = o.imaps /\ progs'[p].dmaps = o.dmaps
<1>0. PICK s1, s2, s3, s4 : <<s1, s2, s3, s4>> = ProgEnds(imaps, dmaps, argvSz)
    BY DEF ProgEnds
<1>1. o \in ProgRec
    BY <1>0, NewProgFacts
<1>2. progs' = Linked(progs, progHead, p, o)
    BY DEF ProgStep
<1> QED
    BY <1>1, <1>2 DEF Linked, ProgRec

\* The program and its lists lie behind everything that was in the buffer.
LEMMA ProgStepLayout ==
    ASSUME Inv, NEW i \in 1 .. Len(aliases), NEW imaps \in Seq(Names), NEW dmaps \in Seq(Names),
           NEW argvSz \in Nat, ProgStep(i, imaps, dmaps, argvSz)
    PROVE  LayoutInv'
<1>0. PICK p, o, s1, s2, s3, s4 :
          /\ p = Ptr(size) /\ o = NewProg(i, imaps, dmaps, argvSz)
          /\ <<s1, s2, s3, s4>> = ProgEnds(imaps, dmaps, argvSz)
    BY DEF ProgEnds
<1>1. /\ size \in Nat /\ Base \in Nat /\ p = Base + size /\ size % Align = 0
      /\ SyspageSz <= size /\ p - Base = size /\ SyspageSz \in Nat
  <2>1. size \in Nat /\ size % Align = 0 /\ SyspageSz <= size
      BY DEF Inv, TypeInv, SizeInv
  <2>2. Base \in Nat /\ SyspageSz \in Nat
      BY ConstantFacts
  <2> QED BY <1>0, <2>1, <2>2 DEF Ptr
<1>2. p \in Nat /\ p \notin Objects /\ DOMAIN progs' = DOMAIN progs \cup {p}
    BY <1>0, ProgStepType
<1>3. /\ s1 \in Nat /\ s1 >= size + ProgSz /\ s1 % Align = 0
      /\ s2 \in Nat /\ s2 >= s1 + Len(dmaps) /\ s2 % Align = 0
      /\ s3 \in Nat /\ s3 >= s2 + Len(imaps) /\ s3 % Align = 0
      /\ s4 \in Nat /\ s4 >= s3 + argvSz /\ s4 % Align = 0
    BY <1>0, <1>1, ProgEndsFacts
<1>4. size' = s4
    BY <1>0 DEF ProgStep
<1>5. ProgSz \in Nat /\ ProgSz > 0 /\ Len(dmaps) \in Nat /\ Len(imaps) \in Nat
    BY ConstantFacts
<1>6. /\ Ptr(s1) = s1 + Base /\ Ptr(s2) = s2 + Base /\ Ptr(s3) = s3 + Base
      /\ (s1 + Base) - Base = s1 /\ (s2 + Base) - Base = s2 /\ (s3 + Base) - Base = s3
    BY <1>1, <1>3 DEF Ptr
<1>7. maps' = maps
    BY DEF ProgStep
<1>8. /\ DOMAIN maps \cap DOMAIN progs = {}
      /\ \A x \in DOMAIN maps : MapLayout(x)
      /\ \A x \in DOMAIN progs : ProgLayout(x)
      /\ \A x \in Objects : Base + SyspageSz <= x /\ x < End(x) /\ End(x) <= Base + size
      /\ \A x, y \in Objects : x # y => End(x) <= y \/ End(y) <= x
    BY DEF Inv, LayoutInv
<1>9. Objects' = Objects \cup {p} /\ p \notin DOMAIN maps
    BY <1>2, <1>7 DEF Objects
<1>10. ASSUME NEW x \in DOMAIN progs
       PROVE  ProgLayout(x)' /\ ProgEnd(x)' = ProgEnd(x)
  <2>1. /\ progs'[x].dptr = progs[x].dptr /\ progs'[x].iptr = progs[x].iptr
        /\ progs'[x].argv = progs[x].argv /\ progs'[x].argvSz = progs[x].argvSz
        /\ progs'[x].imaps = progs[x].imaps /\ progs'[x].dmaps = progs[x].dmaps
      BY ProgStepOther
  <2> QED
      BY <2>1, <1>8 DEF ProgLayout, ProgEnd
<1>11. ProgLayout(p)' /\ ProgEnd(p)' = s3 + Base + argvSz
  <2>1. /\ progs'[p].dptr = o.dptr /\ progs'[p].iptr = o.iptr
        /\ progs'[p].argv = o.argv /\ progs'[p].argvSz = o.argvSz
        /\ progs'[p].imaps = o.imaps /\ progs'[p].dmaps = o.dmaps
      BY <1>0, ProgStepNew
  <2>2. /\ o.dptr = Ptr(s1) /\ o.iptr = Ptr(s2) /\ o.argv = Ptr(s3) /\ o.argvSz = argvSz
        /\ o.imaps = sysgen_mapsAdd2Prog(imaps) /\ o.dmaps = sysgen_mapsAdd2Prog(dmaps)
      BY <1>0, NewProgFacts
  <2>3. Denote(sysgen_mapsAdd2Prog(imaps), imaps) /\ Denote(sysgen_mapsAdd2Prog(dmaps), dmaps)
      BY ResolvedFacts DEF ProgStep
  <2>4. /\ progs'[p].dptr = s1 + Base /\ progs'[p].iptr = s2 + Base
        /\ progs'[p].argv = s3 + Base /\ progs'[p].argvSz = argvSz
        /\ Len(progs'[p].imaps) = Len(imaps) /\ Len(progs'[p].dmaps) = Len(dmaps)
      BY <1>6, <2>1, <2>2, <2>3 DEF Denote
  <2>5. /\ p + ProgSz <= s1 + Base /\ s1 + Base + Len(dmaps) <= s2 + Base
        /\ s2 + Base + Len(imaps) <= s3 + Base
      BY <1>1, <1>3, <1>5
  <2>6. ProgLayout(p)'
      BY <1>1, <1>3, <1>6, <2>4, <2>5 DEF ProgLayout
  <2>7. ProgEnd(p)' = s3 + Base + argvSz
      BY <2>4 DEF ProgEnd
  <2> QED BY <2>6, <2>7
<1>12. ASSUME NEW x \in DOMAIN maps
       PROVE  MapLayout(x)' /\ MapEnd(x)' = MapEnd(x)
    BY <1>7, <1>8 DEF MapLayout, MapEnd
<1>13. ASSUME NEW x \in Objects
       PROVE  End(x)' = End(x) /\ x \in Nat /\ End(x) \in Nat
  <2>1. x \in Nat /\ End(x) \in Nat
      BY EndsType DEF Inv
  <2>2. CASE x \in DOMAIN maps
      BY <1>7, <1>12, <2>1, <2>2 DEF End
  <2>3. CASE x \notin DOMAIN maps
      BY <1>7, <1>10, <2>1, <2>3 DEF End, Objects
  <2> QED BY <2>2, <2>3
<1>14. End(p)' = s3 + Base + argvSz
    BY <1>7, <1>9, <1>11 DEF End
<1>15. \A x \in Objects' : Base + SyspageSz <= x /\ x < End(x)' /\ End(x)' <= Base + size'
  <2>1. ASSUME NEW x \in Objects
        PROVE  Base + SyspageSz <= x /\ x < End(x)' /\ End(x)' <= Base + size'
      BY <1>1, <1>3, <1>4, <1>5, <1>8, <1>13
  <2>2. Base + SyspageSz <= p /\ p < End(p)' /\ End(p)' <= Base + size'
      BY <1>1, <1>3, <1>4, <1>5, <1>14
  <2> QED BY <1>9, <2>1, <2>2
<1>16. \A x \in Objects : End(x)' <= p
    BY <1>1, <1>8, <1>13
<1>17. \A x, y \in Objects' : x # y => End(x)' <= y \/ End(y)' <= x
    BY <1>8, <1>9, <1>13, <1>16
<1>18. DOMAIN maps' \cap DOMAIN progs' = {}
    BY <1>2, <1>7, <1>8, <1>9
<1> QED
    BY <1>2, <1>7, <1>10, <1>11, <1>12, <1>15, <1>17, <1>18 DEF LayoutInv

LEMMA ProgStepKeepsInv ==
    ASSUME Inv, NEW i \in 1 .. Len(aliases), NEW imaps \in Seq(Names), NEW dmaps \in Seq(Names),
           NEW argvSz \in Nat, ProgStep(i, imaps, dmaps, argvSz)
    PROVE  Inv'
<1>0. PICK p, o, s1, s2, s3, s4 :
          /\ p = Ptr(size) /\ o = NewProg(i, imaps, dmaps, argvSz)
          /\ <<s1, s2, s3, s4>> = ProgEnds(imaps, dmaps, argvSz)
    BY DEF ProgEnds
<1>1. /\ p \in Nat /\ p # 0 /\ DOMAIN progs' = DOMAIN progs \cup {p}
      /\ progs' \in [DOMAIN progs' -> ProgRec]
    BY <1>0, ProgStepType
<1>2. size \in Nat /\ SyspageSz <= size
    BY DEF Inv, TypeInv, SizeInv
<1>3. s1 \in Nat /\ s2 \in Nat /\ s3 \in Nat /\ s4 \in Nat /\ s4 % Align = 0 /\ s4 >= size
  <2>1. /\ s1 \in Nat /\ s1 >= size + ProgSz
        /\ s2 \in Nat /\ s2 >= s1 + Len(dmaps)
        /\ s3 \in Nat /\ s3 >= s2 + Len(imaps)
        /\ s4 \in Nat /\ s4 >= s3 + argvSz /\ s4 % Align = 0
      BY <1>0, <1>2, ProgEndsFacts
  <2>2. ProgSz \in Nat /\ Len(dmaps) \in Nat /\ Len(imaps) \in Nat
      BY ConstantFacts
  <2> QED BY <1>2, <2>1, <2>2
<1>4. /\ UNCHANGED <<arch, maps, mapHead, aliases, imgsz, mapList>>
      /\ progHead' = (IF progHead = 0 THEN p ELSE progHead)
      /\ size' = s4 /\ s4 < MaxSz
    BY <1>0 DEF ProgStep
<1>5. TypeInv'
  <2>1. DOMAIN progs' \subseteq Nat \ {0} /\ progHead' \in DOMAIN progs' \cup {0}
      BY <1>1, <1>4, SMTT(30) DEF Inv, TypeInv
  <2> QED BY <1>1, <1>3, <1>4, <2>1 DEF Inv, TypeInv
<1>6. SizeInv'
  <2>1. SyspageSz \in Nat /\ MaxSz \in Nat
      BY ConstantFacts
  <2>2. SyspageSz <= s4 /\ s4 <= MaxSz
      BY <1>2, <1>3, <1>4, <2>1
  <2> QED BY <1>3, <1>4, <2>2 DEF SizeInv
<1>7. LayoutInv'
    BY ProgStepLayout
<1>8. MapRing'
    BY <1>4 DEF Inv, MapRing
<1>9. ListInv' /\ MapsDisjoint' /\ ImageInv'
    BY <1>4 DEF Inv, ListInv, MapsDisjoint, ImageInv
<1>10. ASSUME NEW x \in DOMAIN progs'
       PROVE  /\ \E j \in 1 .. Len(aliases) :
                    progs'[x].end <= aliases[j].addr + aliases[j].size
              /\ Denote(progs'[x].imaps, progs'[x].inames)
              /\ Denote(progs'[x].dmaps, progs'[x].dnames)
  <2>1. CASE x \in DOMAIN progs
    <3>1. /\ progs'[x].end = progs[x].end
          /\ progs'[x].inames = progs[x].inames /\ progs'[x].dnames = progs[x].dnames
          /\ progs'[x].imaps = progs[x].imaps /\ progs'[x].dmaps = progs[x].dmaps
        BY <2>1, ProgStepOther
    <3> QED BY <2>1, <3>1 DEF Inv, ProgsInv
  <2>2. CASE x = p
    <3>1. /\ progs'[p].end = o.end
          /\ progs'[p].inames = o.inames /\ progs'[p].dnames = o.dnames
          /\ progs'[p].imaps = o.imaps /\ progs'[p].dmaps = o.dmaps
        BY <1>0, ProgStepNew
    <3>2. /\ o.inames = imaps /\ o.dnames = dmaps
          /\ o.imaps = sysgen_mapsAdd2Prog(imaps) /\ o.dmaps = sysgen_mapsAdd2Prog(dmaps)
          /\ o.end <= aliases[i].addr + aliases[i].size
        BY <1>0, NewProgFacts
    <3>3. Denote(sysgen_mapsAdd2Prog(imaps), imaps) /\ Denote(sysgen_mapsAdd2Prog(dmaps), dmaps)
        BY ResolvedFacts DEF ProgStep
    <3> QED BY <2>2, <3>1, <3>2, <3>3
  <2> QED BY <1>1, <2>1, <2>2
<1>11. ProgsInv'
    BY <1>4, <1>10 DEF ProgsInv, Denote
<1> QED
    BY <1>5, <1>6, <1>7, <1>8, <1>9, <1>11 DEF Inv

-----------------------------------------------------------------------------
(* The theorems.                                                           *)

\* The inductive invariant.
LEMMA InvHolds == Spec => []Inv
<1>1. Init => Inv
  <2> SUFFICES ASSUME Init
               PROVE  Inv
      OBVIOUS
  <2>1. /\ arch \in {32, 64} /\ size = ALIGN_ADDR(SyspageSz)
        /\ DOMAIN maps = {} /\ mapHead = 0 /\ DOMAIN progs = {} /\ progHead = 0
        /\ aliases = <<>> /\ imgsz = 0 /\ mapList = <<>>
        /\ maps \in [DOMAIN maps -> MapRec] /\ progs \in [DOMAIN progs -> ProgRec]
      BY DEF Init
  <2>2. ALIGN_ADDR(SyspageSz) = SyspageSz
    <3>1. PICK n, a, q, r : /\ n = SyspageSz /\ a = Align /\ q = n \div a /\ r = n % a
        OBVIOUS
    <3>2. n \in Nat /\ a \in Nat /\ a > 0 /\ n % a = 0
        BY <3>1, ConstantFacts
    <3>3. q \in Nat /\ n = q * a
        BY <3>1, <3>2
    <3>4. n + a - 1 = q * a + (a - 1) /\ a - 1 \in 0 .. a - 1
        BY <3>2, <3>3
    <3>5. (q * a + (a - 1)) \div a = q
        BY <3>2, <3>3
    <3> QED BY <3>1, <3>3, <3>4, <3>5 DEF ALIGN_ADDR
  <2>3. SyspageSz \in Nat /\ SyspageSz % Align = 0 /\ SyspageSz <= MaxSz
      BY ConstantFacts
  <2>4. SizeInv
      BY <2>1, <2>2, <2>3 DEF SizeInv
  <2>5. TypeInv
      BY <2>1, <2>2, <2>3 DEF TypeInv
  <2>6. LayoutInv
      BY <2>1 DEF LayoutInv, Objects
  <2>7. MapRing
      BY <2>1 DEF MapRing
  <2>8. ListInv /\ MapsDisjoint /\ ProgsInv /\ ImageInv
      BY <2>1 DEF ListInv, MapsDisjoint, ProgsInv, ImageInv
  <2> QED BY <2>4, <2>5, <2>6, <2>7, <2>8 DEF Inv
<1>2. Inv /\ [Next]_vars => Inv'
  <2> SUFFICES ASSUME Inv, [Next]_vars
               PROVE  Inv'
      OBVIOUS
  <2>1. TypeInv
      BY DEF Inv
  <2>2. CASE OtherStep
      BY <2>2, OtherStepKeepsInv
  <2>3. CASE \E name \in Names, addr \in Nat, sz \in Nat : AliasStep(name, addr, sz)
      BY <2>3, AliasStepKeepsInv
  <2>4. CASE \E name \in Names, start \in Nat, end \in Nat, asked \in Nat \X Nat :
                 MapStep(name, start, end, asked)
      BY <2>4, MapStepKeepsInv
  <2>5. CASE \E imaps \in Seq(Names), dmaps \in Seq(Names), argvSz \in Nat,
                 i \in 1 .. Len(aliases) : ProgStep(i, imaps, dmaps, argvSz)
      BY <2>5, ProgStepKeepsInv
  <2> QED
      BY <2>1, <2>2, <2>3, <2>4, <2>5, StepCases
<1> QED
    BY <1>1, <1>2, PTL DEF Spec

\* The maps form one ring in the order of their commands, whatever the scripts.
THEOREM RingHolds == Spec => []MapRing
<1>1. Inv => MapRing
    BY DEF Inv
<1> QED
    BY <1>1, InvHolds, PTL

\* No two maps share an address or a name: sysgen_cmdMap's check against the
\* ring has compared every pair.
THEOREM MapsStayDisjoint == Spec => []MapsDisjoint
<1>1. Inv => MapsDisjoint
    BY DEF Inv
<1> QED
    BY <1>1, InvHolds, PTL

\* The pieces of a map's and of a program's block.
MapPieces(p) == {<<p - Base, MapSz>>, <<maps[p].nameptr - Base, NameSz[maps[p].name]>>}

ProgPieces(p) == {<<p - Base, ProgSz>>,
                  <<progs[p].dptr - Base, Len(progs[p].dmaps)>>,
                  <<progs[p].iptr - Base, Len(progs[p].imaps)>>,
                  <<progs[p].argv - Base, progs[p].argvSz>>}

InBlock(e, p) == /\ e[1] \in Nat /\ e[2] \in Nat /\ e[1] % Align = 0
                 /\ p <= e[1] + Base /\ e[1] + e[2] + Base <= End(p)

Apart(e, f) == e[1] + e[2] <= f[1] \/ f[1] + f[2] <= e[1]

\* The pieces of a block lie in it, apart from one another.
LEMMA MapPiecesFacts ==
    ASSUME Inv, NEW p \in DOMAIN maps
    PROVE  /\ \A e \in MapPieces(p) : InBlock(e, p)
           /\ \A e, f \in MapPieces(p) : e # f => Apart(e, f)
<1>1. PICK n, sz : n = maps[p].nameptr /\ sz = NameSz[maps[p].name]
    OBVIOUS
<1>2. p \in Nat /\ n \in Nat /\ sz \in Nat
  <2>1. p \in Nat /\ maps[p] \in MapRec
      BY EndsType DEF Inv
  <2> QED BY <1>1, <2>1, ConstantFacts DEF MapRec
<1>3. /\ (p - Base) % Align = 0 /\ (n - Base) % Align = 0 /\ p + MapSz <= n
      /\ End(p) = n + sz /\ Base + SyspageSz <= p
    BY <1>1 DEF Inv, LayoutInv, MapLayout, End, MapEnd, Objects
<1>4. Base \in Nat /\ MapSz \in Nat /\ MapSz > 0 /\ SyspageSz \in Nat
    BY ConstantFacts
<1>5. PICK e1, e2 : e1 = <<p - Base, MapSz>> /\ e2 = <<n - Base, sz>>
    OBVIOUS
<1>6. MapPieces(p) = {e1, e2}
    BY <1>1, <1>5 DEF MapPieces
<1>7. InBlock(e1, p)
    BY <1>2, <1>3, <1>4, <1>5 DEF InBlock
<1>8. InBlock(e2, p)
    BY <1>2, <1>3, <1>4, <1>5 DEF InBlock
<1>9. Apart(e1, e2) /\ Apart(e2, e1)
    BY <1>2, <1>3, <1>4, <1>5 DEF Apart
<1> QED
    BY <1>6, <1>7, <1>8, <1>9

LEMMA ProgPiecesFacts ==
    ASSUME Inv, NEW p \in DOMAIN progs
    PROVE  /\ \A e \in ProgPieces(p) : InBlock(e, p)
           /\ \A e, f \in ProgPieces(p) : e # f => Apart(e, f)
<1>1. PICK d, dn, i, im, a, an :
          /\ d = progs[p].dptr /\ dn = Len(progs[p].dmaps)
          /\ i = progs[p].iptr /\ im = Len(progs[p].imaps)
          /\ a = progs[p].argv /\ an = progs[p].argvSz
    OBVIOUS
<1>2. /\ p \in Nat /\ d \in Nat /\ i \in Nat /\ a \in Nat
      /\ dn \in Nat /\ im \in Nat /\ an \in Nat
  <2>1. p \in Nat /\ progs[p] \in ProgRec
      BY EndsType DEF Inv
  <2> QED BY <1>1, <2>1 DEF ProgRec
<1>3. /\ (p - Base) % Align = 0 /\ (d - Base) % Align = 0
      /\ (i - Base) % Align = 0 /\ (a - Base) % Align = 0
      /\ p + ProgSz <= d /\ d + dn <= i /\ i + im <= a
    BY <1>1 DEF Inv, LayoutInv, ProgLayout
<1>4. End(p) = a + an /\ Base + SyspageSz <= p
  <2>1. p \notin DOMAIN maps /\ Base + SyspageSz <= p
      BY DEF Inv, LayoutInv, Objects
  <2> QED BY <1>1, <2>1 DEF End, ProgEnd
<1>5. Base \in Nat /\ ProgSz \in Nat /\ ProgSz > 0 /\ SyspageSz \in Nat
    BY ConstantFacts
<1>6. PICK e1, e2, e3, e4 : /\ e1 = <<p - Base, ProgSz>> /\ e2 = <<d - Base, dn>>
                            /\ e3 = <<i - Base, im>> /\ e4 = <<a - Base, an>>
    OBVIOUS
<1>7. ProgPieces(p) = {e1, e2, e3, e4}
    BY <1>1, <1>6 DEF ProgPieces
<1>8. InBlock(e1, p) /\ InBlock(e2, p)
    BY <1>2, <1>3, <1>4, <1>5, <1>6 DEF InBlock
<1>9. InBlock(e3, p) /\ InBlock(e4, p)
    BY <1>2, <1>3, <1>4, <1>5, <1>6 DEF InBlock
<1>10. Apart(e1, e2) /\ Apart(e1, e3) /\ Apart(e1, e4)
    BY <1>2, <1>3, <1>5, <1>6 DEF Apart
<1>11. Apart(e2, e3) /\ Apart(e2, e4) /\ Apart(e3, e4)
    BY <1>2, <1>3, <1>5, <1>6 DEF Apart
<1>12. \A e, f : Apart(e, f) <=> Apart(f, e)
    BY DEF Apart
<1>13. \A e \in {e1, e2, e3, e4} : InBlock(e, p)
    BY <1>8, <1>9
<1>14. \A e, f \in {e1, e2, e3, e4} : e # f => Apart(e, f)
    BY <1>10, <1>11, <1>12
<1> QED
    BY <1>7, <1>13, <1>14

\* Pieces of two blocks are apart.
LEMMA BlocksApart ==
    ASSUME Inv, NEW p \in Objects, NEW q \in Objects, p # q,
           NEW e, NEW f, InBlock(e, p), InBlock(f, q)
    PROVE  Apart(e, f)
<1>1. p \in Nat /\ q \in Nat /\ End(p) \in Nat /\ End(q) \in Nat /\ Base \in Nat
    BY EndsType, ConstantFacts DEF Inv
<1>2. End(p) <= q \/ End(q) <= p
    BY DEF Inv, LayoutInv
<1> QED
    BY <1>1, <1>2 DEF InBlock, Apart

\* The layout of the blocks gives the layout of all pieces.
LEMMA ObjectsFollow ==
    ASSUME Inv
    PROVE  ObjectsDisjoint
<1>1. PICK e0 : e0 = <<0, SyspageSz>>
    OBVIOUS
<1>2. ASSUME NEW e \in Extents
      PROVE  \/ e = e0
             \/ \E p \in DOMAIN maps : e \in MapPieces(p)
             \/ \E p \in DOMAIN progs : e \in ProgPieces(p)
  <2>1. \/ e = e0
        \/ \E p \in DOMAIN maps : \/ e = <<p - Base, MapSz>>
                                  \/ e = <<maps[p].nameptr - Base, NameSz[maps[p].name]>>
        \/ \E p \in DOMAIN progs : \/ e = <<p - Base, ProgSz>>
                                   \/ e = <<progs[p].dptr - Base, Len(progs[p].dmaps)>>
                                   \/ e = <<progs[p].iptr - Base, Len(progs[p].imaps)>>
                                   \/ e = <<progs[p].argv - Base, progs[p].argvSz>>
      BY <1>1 DEF Extents
  <2> QED BY <2>1 DEF MapPieces, ProgPieces
<1>3. Base \in Nat /\ SyspageSz \in Nat /\ size \in Nat /\ Align \in Nat /\ Align > 0
    BY ConstantFacts DEF Inv, TypeInv
<1>4. ASSUME NEW p \in Objects
      PROVE  /\ p \in Nat /\ End(p) \in Nat
             /\ Base + SyspageSz <= p /\ End(p) <= Base + size
    BY EndsType DEF Inv, LayoutInv
<1>5. ASSUME NEW p \in Objects, NEW e, InBlock(e, p)
      PROVE  e[1] % Align = 0 /\ e[1] + e[2] <= size /\ SyspageSz <= e[1] /\ e[1] \in Nat
  <2>1. /\ e[1] \in Nat /\ e[2] \in Nat /\ e[1] % Align = 0
        /\ p <= e[1] + Base /\ e[1] + e[2] + Base <= End(p)
      BY <1>5 DEF InBlock
  <2>2. SyspageSz <= e[1] /\ e[1] + e[2] <= size
      BY <1>3, <1>4, <2>1
  <2> QED BY <2>1, <2>2
<1>6. ASSUME NEW e \in Extents, e # e0
      PROVE  \E p \in Objects : /\ InBlock(e, p)
                                /\ \/ p \in DOMAIN maps /\ e \in MapPieces(p)
                                   \/ p \in DOMAIN progs /\ e \in ProgPieces(p)
    BY <1>2, <1>6, MapPiecesFacts, ProgPiecesFacts DEF Objects
<1>7. ASSUME NEW e \in Extents
      PROVE  e[1] % Align = 0 /\ e[1] + e[2] <= size
  <2>1. CASE e = e0
    <3>1. 0 % Align = 0
        BY <1>3, ModSmall
    <3>2. SyspageSz <= size
        BY DEF Inv, SizeInv
    <3> QED BY <1>1, <1>3, <2>1, <3>1, <3>2
  <2>2. CASE e # e0
      BY <1>5, <1>6, <2>2
  <2> QED BY <2>1, <2>2
<1>8. ASSUME NEW e \in Extents, NEW f \in Extents, e # f
      PROVE  Apart(e, f)
  <2>1. CASE e = e0
    <3>1. SyspageSz <= f[1] /\ f[1] \in Nat
        BY <1>5, <1>6, <1>8, <2>1
    <3> QED BY <1>1, <1>3, <2>1, <3>1 DEF Apart
  <2>2. CASE f = e0
    <3>1. SyspageSz <= e[1] /\ e[1] \in Nat
        BY <1>5, <1>6, <1>8, <2>2
    <3> QED BY <1>1, <1>3, <2>2, <3>1 DEF Apart
  <2>3. CASE e # e0 /\ f # e0
    <3>1. PICK p \in Objects : /\ InBlock(e, p)
                               /\ \/ p \in DOMAIN maps /\ e \in MapPieces(p)
                                  \/ p \in DOMAIN progs /\ e \in ProgPieces(p)
        BY <1>6, <2>3
    <3>2. PICK q \in Objects : /\ InBlock(f, q)
                               /\ \/ q \in DOMAIN maps /\ f \in MapPieces(q)
                                  \/ q \in DOMAIN progs /\ f \in ProgPieces(q)
        BY <1>6, <2>3
    <3>3. CASE p # q
        BY <3>1, <3>2, <3>3, BlocksApart
    <3>4. CASE p = q
      <4>1. ~(p \in DOMAIN maps /\ p \in DOMAIN progs)
          BY DEF Inv, LayoutInv
      <4>2. CASE p \in DOMAIN maps
          BY <1>8, <3>1, <3>2, <3>4, <4>1, <4>2, MapPiecesFacts
      <4>3. CASE p \in DOMAIN progs
          BY <1>8, <3>1, <3>2, <3>4, <4>1, <4>3, ProgPiecesFacts
      <4> QED BY <3>1, <4>2, <4>3
    <3> QED BY <3>3, <3>4
  <2> QED BY <2>1, <2>2, <2>3
<1>9. size <= MaxSz
    BY DEF Inv, SizeInv
<1> QED
    BY <1>7, <1>8, <1>9 DEF ObjectsDisjoint, Apart

\* Objects of the syspage never overlap, are aligned and lie inside the part of
\* the buffer that is written, whatever the scripts and the size of the buffer.
THEOREM ObjectsStayDisjoint == Spec => []ObjectsDisjoint
<1>1. Inv => ObjectsDisjoint
    BY ObjectsFollow
<1> QED
    BY <1>1, InvHolds, PTL

\* There are as many maps as the list is long.
LEMMA MapCount ==
    ASSUME Inv
    PROVE  Cardinality(DOMAIN maps) = Len(mapList)
<1>1. PICK len : len = Len(mapList)
    OBVIOUS
<1>2. /\ len \in Nat /\ DOMAIN mapList = 1 .. len
      /\ \A i \in 1 .. len : mapList[i] \in DOMAIN maps
      /\ \A x \in DOMAIN maps : \E i \in 1 .. len : x = mapList[i]
    BY <1>1, RingFacts DEF Inv
<1>3. \A i, j \in 1 .. len : mapList[i] = mapList[j] => i = j
    BY <1>1 DEF Inv, ListInv
<1>4. mapList \in Seq(Nat)
    BY DEF Inv, TypeInv
<1>5. mapList \in Bijection(1 .. len, DOMAIN maps)
  <2>1. mapList \in [1 .. len -> DOMAIN maps]
      BY <1>1, <1>2, <1>4
  <2> QED BY <1>2, <1>3, <2>1
      DEF Bijection, Injection, IsInjective, Surjection
<1>6. IsFiniteSet(1 .. len) /\ Cardinality(1 .. len) = len
    BY <1>2, FS_Interval
<1> QED
    BY <1>1, <1>5, <1>6, FS_Bijection DEF ExistsBijection

\* Identifiers along the list are distinct while there are enough of them.
LEMMA ProgramsFollow ==
    ASSUME Inv
    PROVE  ProgramsSound
<1>1. PICK len : len = Len(mapList)
    OBVIOUS
<1>2. /\ len \in Nat
      /\ \A x \in DOMAIN maps : \E i \in 1 .. len : x = mapList[i]
    BY <1>1, RingFacts DEF Inv
<1>3. ASSUME len <= IdMod, NEW m \in DOMAIN maps, NEW n \in DOMAIN maps,
             maps[m].id = maps[n].id
      PROVE  m = n
  <2>1. PICK i \in 1 .. len : m = mapList[i]
      BY <1>2
  <2>2. PICK j \in 1 .. len : n = mapList[j]
      BY <1>2
  <2>3. maps[m].id = (i - 1) % IdMod /\ maps[n].id = (j - 1) % IdMod
      BY <1>1, <2>1, <2>2 DEF Inv, ListInv
  <2>4. i - 1 \in Nat /\ i - 1 < IdMod /\ j - 1 \in Nat /\ j - 1 < IdMod /\ IdMod \in Nat
      BY <1>2, <1>3, <2>1, <2>2, ConstantFacts
  <2>5. (i - 1) % IdMod = i - 1 /\ (j - 1) % IdMod = j - 1
      BY <2>4, ModSmall
  <2>6. (i - 1) % IdMod = (j - 1) % IdMod
      BY <1>3, <2>3
  <2>7. i = j
      BY <2>1, <2>2, <2>4, <2>5, <2>6
  <2> QED BY <2>1, <2>2, <2>7
<1>4. ASSUME len <= IdMod, NEW ids, NEW names, Denote(ids, names)
      PROVE  \A i \in 1 .. Len(ids) :
                {maps[m].name : m \in {m \in DOMAIN maps : maps[m].id = ids[i]}} = {names[i]}
  <2> TAKE i \in 1 .. Len(ids)
  <2>1. PICK n \in DOMAIN maps : maps[n].id = ids[i] /\ maps[n].name = names[i]
      BY <1>4 DEF Denote
  <2>2. {m \in DOMAIN maps : maps[m].id = ids[i]} = {n}
      BY <1>3, <1>4, <2>1
  <2> QED BY <2>1, <2>2
<1>5. ASSUME NEW p \in DOMAIN progs,
             \A i \in 1 .. Len(aliases) :
                 aliases[i].addr - Pkernel + aliases[i].size < AddrMod32
      PROVE  progs[p].end <= Pkernel + imgsz
  <2>1. PICK i \in 1 .. Len(aliases) : progs[p].end <= aliases[i].addr + aliases[i].size
      BY DEF Inv, ProgsInv
  <2>2. aliases[i].addr + aliases[i].size <= Pkernel + imgsz
      BY <1>5 DEF Inv, ImageInv
  <2>3. aliases[i] \in [name : Names, addr : Nat, size : Nat]
    <3>1. aliases \in Seq([name : Names, addr : Nat, size : Nat])
        BY DEF Inv, TypeInv
    <3> QED BY <3>1, ElementOfSeq
  <2>4. PICK e \in Nat : e = aliases[i].addr + aliases[i].size
      BY <2>3
  <2>5. progs[p].end \in Nat
    <3>1. progs[p] \in ProgRec
        BY EndsType DEF Inv
    <3> QED BY <3>1 DEF ProgRec
  <2>6. Pkernel \in Nat /\ imgsz \in Nat
      BY ConstantFacts DEF Inv, TypeInv
  <2> QED BY <2>1, <2>2, <2>4, <2>5, <2>6
<1>6. Cardinality(DOMAIN maps) = len
    BY <1>1, MapCount
<1>7. ASSUME NEW p \in DOMAIN progs
      PROVE  Denote(progs[p].imaps, progs[p].inames) /\ Denote(progs[p].dmaps, progs[p].dnames)
    BY DEF Inv, ProgsInv
<1> QED
    BY <1>4, <1>5, <1>6, <1>7 DEF ProgramsSound

\* Every program lies inside the image handed to the kernel and names the maps
\* its command named, whatever the scripts, as long as aliases and identifiers
\* fit the fields they are kept in.
THEOREM ProgramsStaySound == Spec => []ProgramsSound
<1>1. Inv => ProgramsSound
    BY ProgramsFollow
<1> QED
    BY <1>1, InvHolds, PTL
=============================================================================
