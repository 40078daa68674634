----------------------------- MODULE SdpProofs ------------------------------
(***************************************************************************)
(* Proofs about Sdp, for every command line, all sizes of files and chunks *)
(* and every number of faults.                                             *)
(*                                                                         *)
(* The upload is one argument: while nobody unplugs the device or it       *)
(* reports a bad transfer, what it holds at the jump is what was to be     *)
(* uploaded, however often it was tried, and it is the plugin's DDR that   *)
(* an image with a plugin meets.                                           *)
(*                                                                         *)
(* The modules are the other: while the handle is good, the loader waits   *)
(* for the very item that the host is at, and holds what was sent of it    *)
(* (SyncInv); a transfer that fails ends the session, so that at most the  *)
(* module at hand is spoiled, by the close command.                        *)
(*                                                                         *)
(* The image is the third: what count_sysprogs adds up is shown by         *)
(* induction to be where each program ends, so that the image fits its     *)
(* buffer (LengthInv), every entry of the syspage has its program at its   *)
(* extent (ProgInv), and -o writes all of it (OutInv).                     *)
(***************************************************************************)
EXTENDS Sdp, SequenceTheorems, WellFoundedInduction, TLAPS

Names == UNION {DOMAIN j.size : j \in Jobs}
Cell  == Names \X Int

Early    == {"main", "open", "read", "next", "write", "spin"}
Jumping  == {"jump", "jump_hab", "jump_status"}
Transfer == {"load", "data", "hab", "complete"} \cup Jumping
Session  == {"booting", "module", "announce", "send", "close"}

\* The type of the variables that the upload depends on.
TypeInv ==
    /\ job \in Jobs /\ pc \in Early \cup Transfer \cup Session \cup {"dispatch", "status", "ended"}
    /\ stage \in {0, 1, 2} /\ (pc = "data" => off \in Nat) /\ dev \in {"rom", "ddr", "loader", "dead"}
    /\ image \in Seq(Cell) /\ ivt \in BOOLEAN /\ plugin_sz \in Int

\* The files, and the one that is being read.
ReadInv ==
    /\ DOMAIN size = DOMAIN job.size /\ \A f \in DOMAIN size : size[f] \in Int
    /\ rd \in [i : Nat, pos : Nat, low : Nat] /\ rd.i <= Len(Programs)

\* The image is made before the device is touched, and a file is never jumped to.
StageInv ==
    /\ pc \in Early => stage = 0 /\ dev = "rom"
    /\ stage = 1 => job.plugin
    /\ pc \in Jumping => stage # 0

\* The device was neither unplugged nor did it report an error or refuse unheard,
\* it is told the right address, and the plugin has a size that can be.
Fitting == ~job.plugin \/ PluginFits
Sound == ivt /\ cause \cap {"unplug", "unheard", "bad_status"} = {} /\ Fitting

\* The handle is good and the ROM holds what was sent to it.
SentInv ==
    Sound =>
        /\ pc \in {"status"} \cup Transfer => h
        /\ pc \in Transfer => dev \in {"rom", "ddr"}
        /\ pc = "data" /\ stage # 0 => off <= Len(Payload) /\ mem = SubSeq(Payload, 1, off)
        /\ pc \in {"hab", "complete"} \cup Jumping /\ stage # 0 => mem = Payload

\* What was started runs; an image with a plugin meets what the plugin set up.
RunInv ==
    Sound => /\ dev # "dead"
             /\ stage = 2 /\ job.plugin => dev \in {"ddr", "loader"}

Inv == TypeInv /\ ReadInv /\ StageInv /\ SentInv /\ RunInv

-----------------------------------------------------------------------------
(* Facts that the steps share.                                             *)

\* The assumptions on the constants, one by one.
LEMMA ConstantFacts ==
    /\ RdChunk \in Nat /\ RdChunk > 0 /\ HidChunk \in Nat /\ HidChunk > 0
    /\ MaxArgs \in Nat /\ MaxArgs > 0 /\ Garbage \subseteq Int
  BY SdpAssumption

\* A token of the command line j.
Token(j) == [file : DOMAIN j.size, x : BOOLEAN, args : Nat \cup {-1}]

\* A command line.
LEMMA JobFacts ==
    ASSUME NEW j \in Jobs
    PROVE  /\ j.plugin \in BOOLEAN /\ j.plugin_sz \in Int /\ j.kernel \in DOMAIN j.size /\ DOMAIN j.size \subseteq Names
           /\ \A f \in DOMAIN j.size : j.size[f] \in Int
           /\ j.console \in Seq(Token(j)) /\ j.initrd \in Seq(Token(j)) /\ j.append \in Seq(Token(j))
  <1>1. DOMAIN j.size \subseteq Names
    BY DEF Names
  <1>2. j.plugin \in BOOLEAN
    BY JobsAssumption, Zenon
  <1>3. j.plugin_sz \in Int /\ j.kernel \in DOMAIN j.size
    BY JobsAssumption, Zenon
  <1>4. \A f \in DOMAIN j.size : j.size[f] \in Int
    <2>1. \A f \in DOMAIN j.size : j.size[f] \in Nat \cup {-1}
      BY JobsAssumption, Zenon
    <2>2. QED
      BY <2>1
  <1>5. /\ j.console \in Seq(Token(j)) /\ j.initrd \in Seq(Token(j))
        /\ j.append \in Seq(Token(j))
    BY JobsAssumption, Zenon DEF Token
  <1>6. QED
    BY <1>1, <1>2, <1>3, <1>4, <1>5

\* The programs and the modules are tokens of it.
LEMMA ProgramsType ==
    ASSUME job \in Jobs
    PROVE  Programs \in Seq(Token(job)) /\ Modules \in Seq(Token(job))
  <1>1. /\ job.console \in Seq(Token(job)) /\ job.initrd \in Seq(Token(job))
        /\ job.append \in Seq(Token(job))
    BY JobFacts
  <1>2. job.console \o job.initrd \in Seq(Token(job))
    BY <1>1, ConcatProperties
  <1>3. job.console \o job.initrd \o job.append \in Seq(Token(job))
    BY <1>1, <1>2, ConcatProperties
  <1>4. job.console \o job.append \in Seq(Token(job))
    BY <1>1, ConcatProperties
  <1>5. QED
    BY <1>1, <1>3, <1>4 DEF Programs, Modules

\* Steps that leave alone what the image is made from.
Frame == /\ UNCHANGED <<job, size, image, ivt, over, plugin_sz, kernelsize, rd>>
         /\ cause \subseteq cause'

\* Faults are never forgotten.
LEMMA FaultFacts ==
    ASSUME NEW c, Fault(c) \/ NoFault \/ HidOK \/ HidFails(c)
    PROVE  cause \subseteq cause'
  BY DEF Fault, NoFault, HidOK, HidFails

\* What such a step keeps.
LEMMA FrameFacts ==
    ASSUME Inv, Frame
    PROVE  /\ Sound' => Sound
           /\ ReadInv'
           /\ stage' = stage => Payload' = Payload
  <1>1. /\ UNCHANGED <<job, size, image, ivt, over, plugin_sz, kernelsize, rd>>
        /\ cause \subseteq cause'
    BY DEF Frame
  <1>2. Sound' => Sound
    <2>1. Fitting' => Fitting
      BY <1>1, Zenon DEF Fitting, PluginFits, SizeAt
    <2>2. QED
      BY <1>1, <2>1 DEF Sound
  <1>3. ReadInv'
    BY <1>1 DEF Inv, ReadInv, Programs
  <1>4. stage' = stage => Payload' = Payload
    <2>1. \A n : Contents(n)' = Contents(n)
      BY <1>1 DEF Contents, Buffer
    <2>2. QED
      BY <1>1, <2>1 DEF Payload
  <1>5. QED
    BY <1>2, <1>3, <1>4

\* The places in the program.
Places == Early \cup Transfer \cup Session \cup {"dispatch", "status", "ended"}

\* A step that leaves the upload, or is not in it.
LEMMA AsideKeepsInv ==
    ASSUME Inv, Frame, stage' = stage, dev' = dev,
           pc' \in Places, pc' \notin Transfer, pc' # "status", pc' \in Early => pc \in Early
    PROVE  Inv'
  <1>1. UNCHANGED <<job, size, image, ivt, plugin_sz, rd>> /\ (Sound' => Sound) /\ ReadInv'
    BY FrameFacts DEF Frame
  <1>2. TypeInv'
    BY <1>1 DEF Inv, TypeInv, Places, Transfer
  <1>3. StageInv'
    BY <1>1 DEF Inv, StageInv, Transfer, Jumping
  <1>4. SentInv'
    BY DEF SentInv, Transfer
  <1>5. RunInv'
    BY <1>1 DEF Inv, RunInv
  <1>6. QED
    BY <1>1, <1>2, <1>3, <1>4, <1>5 DEF Inv

\* A step of the device or the machine that the host does not see.
LEMMA UnseenKeepsInv ==
    ASSUME Inv, Frame, UNCHANGED <<pc, stage, off, h, dev, mem>>
    PROVE  Inv'
  <1>1. /\ UNCHANGED <<job, size, image, ivt, plugin_sz, rd>> /\ (Sound' => Sound) /\ ReadInv'
        /\ Payload' = Payload
    BY FrameFacts DEF Frame
  <1>2. TypeInv' /\ StageInv' /\ RunInv'
    BY <1>1 DEF Inv, TypeInv, StageInv, RunInv
  <1>3. SentInv'
    BY <1>1 DEF Inv, SentInv
  <1>4. QED
    BY <1>1, <1>2, <1>3 DEF Inv

-----------------------------------------------------------------------------
(* The image.                                                              *)

\* Steps of boot_image that read nothing.
LEMMA ImageKeepsInv ==
    ASSUME Inv, main \/ boot_image \/ write_turn
    PROVE  Inv'
  <1>1. Frame
    BY DEF Frame, main, boot_image, write_turn, imgvars, stores, NoFault, Fault
  <1>2. stage' = stage /\ dev' = dev
    BY DEF main, boot_image, write_turn, romvars
  <1>3. pc \in Early /\ pc' \in Early \cup {"dispatch", "ended"}
    BY DEF Early, main, boot_image, write_turn, Exit
  <1>4. QED
    BY <1>1, <1>2, <1>3, AsideKeepsInv DEF Places, Early, Transfer, Jumping

\* The file that is being read, and a turn's worth of it.
LEMMA ReadingFacts ==
    ASSUME Inv
    PROVE  /\ Reading \in DOMAIN size /\ Reading \in Names /\ size[Reading] \in Int
           /\ rd.i \in Nat /\ rd.pos \in Nat /\ rd.low \in Nat
  <1>1. job \in Jobs /\ rd \in [i : Nat, pos : Nat, low : Nat] /\ rd.i <= Len(Programs)
    BY DEF Inv, TypeInv, ReadInv
  <1>2. DOMAIN size = DOMAIN job.size /\ \A f \in DOMAIN size : size[f] \in Int
    BY DEF Inv, ReadInv
  <1>3. job.kernel \in DOMAIN job.size /\ DOMAIN job.size \subseteq Names
    BY <1>1, JobFacts
  <1>4. CASE rd.i # 0
    <2> PICK P, k : P = Programs /\ k = rd.i
      OBVIOUS
    <2>1. P \in Seq(Token(job)) /\ k \in 1 .. Len(P)
      BY <1>1, <1>4, ProgramsType
    <2>2. P[k] \in Token(job)
      BY <2>1, ElementOfSeq
    <2>3. P[k].file \in DOMAIN job.size
      BY <2>2 DEF Token
    <2>4. QED
      BY <1>1, <1>2, <1>3, <1>4, <2>3 DEF Reading
  <1>5. QED
    BY <1>1, <1>2, <1>3, <1>4 DEF Reading

\* Steps that change the image or what it is made from: nothing has been
\* uploaded yet.
LEMMA EarlyKeepsInv ==
    ASSUME Inv, pc \in Early, pc' \in Early \cup {"ended"}, UNCHANGED <<job, stage, dev>>,
           image' \in Seq(Cell), ivt' \in BOOLEAN, plugin_sz' \in Int, ReadInv'
    PROVE  Inv'
  <1>1. stage = 0 /\ dev = "rom"
    BY DEF Inv, StageInv
  <1>2. pc' \notin Transfer /\ pc' # "status" /\ pc' \notin Jumping
    BY DEF Early, Transfer, Jumping
  <1>3. TypeInv'
    BY <1>2 DEF Inv, TypeInv, Transfer
  <1>4. StageInv'
    BY <1>1, <1>2 DEF StageInv
  <1>5. SentInv'
    BY <1>2 DEF SentInv, Transfer
  <1>6. RunInv'
    BY <1>1 DEF RunInv
  <1>7. QED
    BY <1>3, <1>4, <1>5, <1>6 DEF Inv

\* The cells that one read appends.
LEMMA ReadCells ==
    ASSUME NEW f \in Names, NEW a \in Int, NEW k \in Nat
    PROVE  [i \in 1 .. k |-> <<f, a + i>>] \in Seq(Cell)
  <1>1. \A i \in 1 .. k : <<f, a + i>> \in Cell
    BY DEF Cell
  <1>2. QED
    BY <1>1, IsASeq

\* A turn of the loop that reads a file.
LEMMA ReadTurnKeepsInv ==
    ASSUME Inv, read_turn
    PROVE  Inv'
  <1>1. /\ pc = "read" /\ rd.pos < size[Reading] /\ UNCHANGED <<job, size, stage, dev>>
        /\ plugin_sz' \in Int
    BY DEF read_turn, romvars, stores, Inv, TypeInv
  <1>2. /\ Reading \in DOMAIN size /\ Reading \in Names /\ size[Reading] \in Int
        /\ rd.i \in Nat /\ rd.pos \in Nat /\ rd.low \in Nat
    BY ReadingFacts
  <1>3. image \in Seq(Cell) /\ ivt \in BOOLEAN
    BY DEF Inv, TypeInv
  <1>4. /\ DOMAIN size = DOMAIN job.size /\ \A f \in DOMAIN size : size[f] \in Int
        /\ rd \in [i : Nat, pos : Nat, low : Nat] /\ rd.i <= Len(Programs)
    BY DEF Inv, ReadInv
  <1> PICK n, under : n = MinOf(RdChunk, size[Reading] - rd.pos) /\ under = MinOf(rd.low, n)
    OBVIOUS
  <1>5. n \in Nat /\ under \in Nat /\ under <= n
    BY <1>1, <1>2, ConstantFacts DEF MinOf
  <1>6. ReadInv' <=> rd' \in [i : Nat, pos : Nat, low : Nat] /\ rd'.i <= Len(Programs)
    BY <1>1, <1>4 DEF ReadInv, Programs
  <1>7. CASE /\ image' = image \o [i \in 1 .. n - under |-> <<Reading, rd.pos + under + i>>]
             /\ rd' = [rd EXCEPT !.pos = @ + n, !.low = @ - under]
             /\ ivt' = (ivt \/ (rd.i = 0 /\ Len(image) = MinKernel /\ n >= IvtSz))
             /\ pc' \in {"read", "ended"}
    <2> PICK f, a, k : f = Reading /\ a = rd.pos + under /\ k = n - under
      OBVIOUS
    <2> PICK s : s = [i \in 1 .. k |-> <<f, a + i>>]
      OBVIOUS
    <2>1. f \in Names /\ a \in Int /\ k \in Nat
      BY <1>2, <1>5
    <2>2. s \in Seq(Cell)
      BY <2>1, ReadCells
    <2>3. image' = image \o s
      BY <1>7
    <2>4. image' \in Seq(Cell)
      BY <1>3, <2>2, <2>3, ConcatProperties
    <2>5. under <= rd.low
      BY <1>2, <1>5 DEF MinOf
    <2>6. rd.pos + n \in Nat /\ rd.low - under \in Nat
      BY <1>2, <1>5, <2>5, SMTT(30)
    <2>7. rd' \in [i : Nat, pos : Nat, low : Nat] /\ rd'.i <= Len(Programs)
      BY <1>4, <1>7, <2>6
    <2>8. ivt' \in BOOLEAN
      BY <1>3, <1>7
    <2>9. QED
      BY <1>1, <1>6, <1>7, <2>4, <2>7, <2>8, EarlyKeepsInv DEF Early
  <1>8. CASE /\ UNCHANGED <<pc, ivt>>
             /\ IF image = <<>> THEN rd' = [rd EXCEPT !.low = @ + 1] /\ UNCHANGED image
                                ELSE image' = SubSeq(image, 1, Len(image) - 1) /\ UNCHANGED rd
    <2>1. rd' \in [i : Nat, pos : Nat, low : Nat] /\ rd'.i <= Len(Programs)
      BY <1>4, <1>8
    <2>2. image' \in Seq(Cell)
      <3>1. CASE image = <<>>
        BY <1>3, <1>8, <3>1
      <3>2. CASE image # <<>>
        <4> PICK im, k : im = image /\ k = Len(im) - 1
          OBVIOUS
        <4>1. im \in Seq(Cell) /\ k \in Nat /\ k <= Len(im) /\ image' = SubSeq(im, 1, k)
          BY <1>3, <1>8, <3>2
        <4>2. SubSeq(im, 1, k) \in Seq(Cell)
          BY <4>1
        <4>3. QED
          BY <4>1, <4>2
      <3>3. QED
        BY <3>1, <3>2
    <2>3. QED
      BY <1>1, <1>3, <1>6, <1>8, <2>1, <2>2, EarlyKeepsInv DEF Early
  <1>9. CASE pc' = "spin" /\ UNCHANGED <<image, rd, ivt>>
    BY <1>1, <1>3, <1>4, <1>6, <1>9, EarlyKeepsInv DEF Early
  <1>10. QED
    BY <1>1, <1>7, <1>8, <1>9 DEF read_turn, Exit

\* The kernel or a program has been read.
LEMMA ReadEndKeepsInv ==
    ASSUME Inv, read_end
    PROVE  Inv'
  <1>1. /\ pc = "read" /\ pc' \in {"next", "ended"}
        /\ UNCHANGED <<job, size, image, ivt, plugin_sz, rd, stage, dev>>
    BY DEF read_end, romvars, stores, Exit
  <1>2. ReadInv'
    BY <1>1 DEF Inv, ReadInv, Programs
  <1>3. image' \in Seq(Cell) /\ ivt' \in BOOLEAN /\ plugin_sz' \in Int
    BY <1>1 DEF Inv, TypeInv
  <1>4. QED
    BY <1>1, <1>2, <1>3, EarlyKeepsInv DEF Early

\* The next program.
LEMMA AppendKeepsInv ==
    ASSUME Inv, append_sysprogs
    PROVE  Inv'
  <1>1. /\ pc = "next" /\ pc' \in {"read", "next"} /\ rd.i < Len(Programs)
        /\ rd' = [i |-> rd.i + 1, pos |-> 0, low |-> 0]
        /\ UNCHANGED <<job, size, image, ivt, plugin_sz, stage, dev>>
    BY DEF append_sysprogs, romvars, stores
  <1>2. rd.i \in Nat /\ job \in Jobs
    BY ReadingFacts DEF Inv, TypeInv
  <1>3. Len(Programs) \in Nat
    BY <1>2, ProgramsType
  <1>4. ReadInv'
    <2>1. rd' \in [i : Nat, pos : Nat, low : Nat] /\ rd'.i <= Len(Programs)
      BY <1>1, <1>2, <1>3
    <2>2. QED
      BY <1>1, <2>1 DEF Inv, ReadInv, Programs
  <1>5. image' \in Seq(Cell) /\ ivt' \in BOOLEAN /\ plugin_sz' \in Int
    BY <1>1 DEF Inv, TypeInv
  <1>6. QED
    BY <1>1, <1>4, <1>5, EarlyKeepsInv DEF Early

\* What write_syspage stores, and where it goes from there.
LEMMA SyspageFacts ==
    ASSUME Inv, write_syspage
    PROVE  /\ pc = "next" /\ rd.i = Len(Programs)
           /\ UNCHANGED <<job, size, image, ivt, rd, dev, cap, progs, kernelsize>>
           /\ plugin_sz' \in Int /\ plugin_sz' \in PluginSizes /\ over' = Stored(plugin_sz')
           /\ cause \subseteq cause'
           /\ \/ stage' = stage /\ pc' \in {"write", "ended"}
              \/ pc' = "dispatch" /\ stage' = IF job.plugin THEN 1 ELSE 2
  <1>1. PICK z \in PluginSizes : plugin_sz' = z /\ over' = Stored(z)
    BY DEF write_syspage
  <1>2. job.plugin_sz \in Int
    BY JobFacts DEF Inv, TypeInv
  <1>3. z \in Int
    BY <1>1, <1>2, ConstantFacts DEF PluginSizes
  <1>4. /\ pc = "next" /\ rd.i = Len(Programs)
        /\ UNCHANGED <<job, size, image, ivt, rd, dev, cap, progs, kernelsize>>
    BY DEF write_syspage, romvars
  <1>5. cause \subseteq cause'
    BY DEF write_syspage, Fault
  <1>6. \/ stage' = stage /\ pc' \in {"write", "ended"}
        \/ pc' = "dispatch" /\ stage' = IF job.plugin THEN 1 ELSE 2
    BY DEF write_syspage, Exit
  <1>7. QED
    BY <1>1, <1>3, <1>4, <1>5, <1>6

\* The syspage; then the upload begins, with the plugin if there is one.
LEMMA SyspageKeepsInv ==
    ASSUME Inv, write_syspage
    PROVE  Inv'
  <1>1. /\ pc = "next" /\ UNCHANGED <<job, size, image, ivt, rd, dev>> /\ plugin_sz' \in Int
        /\ \/ stage' = stage /\ pc' \in {"write", "ended"}
           \/ pc' = "dispatch" /\ stage' = IF job.plugin THEN 1 ELSE 2
    BY SyspageFacts
  <1>2. stage = 0 /\ dev = "rom"
    BY <1>1 DEF Inv, StageInv, Early
  <1>3. ReadInv'
    BY <1>1 DEF Inv, ReadInv, Programs
  <1>4. CASE stage' = stage /\ pc' \in {"write", "ended"}
    <2>1. image' \in Seq(Cell) /\ ivt' \in BOOLEAN
      BY <1>1 DEF Inv, TypeInv
    <2>2. QED
      BY <1>1, <1>3, <1>4, <2>1, EarlyKeepsInv DEF Early
  <1>5. CASE pc' = "dispatch" /\ stage' = IF job.plugin THEN 1 ELSE 2
    <2>1. TypeInv'
      BY <1>1, <1>5 DEF Inv, TypeInv
    <2>2. StageInv' /\ SentInv'
      BY <1>1, <1>5 DEF StageInv, SentInv, Early, Transfer, Jumping
    <2>3. RunInv'
      BY <1>1, <1>2, <1>5 DEF RunInv
    <2>4. QED
      BY <1>3, <2>1, <2>2, <2>3 DEF Inv
  <1>6. QED
    BY <1>1, <1>4, <1>5

\* Somebody changes a file.
LEMMA ResizeKeepsInv ==
    ASSUME Inv, NEW f \in DOMAIN size, NEW n \in Int, resize(f, n)
    PROVE  Inv'
  <1>1. /\ pc \in {"read", "next"} /\ pc' = pc /\ size' = [size EXCEPT ![f] = n]
        /\ UNCHANGED <<job, image, ivt, plugin_sz, rd, stage, dev>>
    BY DEF resize, romvars, imgvars
  <1>2. ReadInv'
    BY <1>1 DEF Inv, ReadInv, Programs
  <1>3. image' \in Seq(Cell) /\ ivt' \in BOOLEAN /\ plugin_sz' \in Int
    BY <1>1 DEF Inv, TypeInv
  <1>4. QED
    BY <1>1, <1>2, <1>3, EarlyKeepsInv DEF Early

-----------------------------------------------------------------------------
(* The upload.                                                             *)

\* usb_vybrid_dispatch comes back, with nothing or with the plugin done.
LEMMA ReturnsFacts ==
    ASSUME NEW rc, Returns(rc)
    PROVE  /\ pc' \in {"ended", "dispatch", "booting"}
           /\ stage' = stage \/ (stage = 1 /\ rc = "0" /\ stage' = 2 /\ pc' = "dispatch")
  BY DEF Returns, Exit

\* A device is found, or the host gives up.
LEMMA DispatchKeepsInv ==
    ASSUME Inv, usb_vybrid_dispatch
    PROVE  Inv'
  <1>1. Frame /\ dev' = dev /\ pc = "dispatch"
    BY DEF usb_vybrid_dispatch, Frame, imgvars, romvars, Inv, TypeInv, NoFault, Fault
  <1>2. CASE Returns("-1")
    <2>1. pc' \in {"ended", "dispatch", "booting"} /\ stage' = stage
      BY <1>2, ReturnsFacts
    <2>2. QED
      BY <1>1, <2>1, AsideKeepsInv DEF Places, Early, Transfer, Jumping, Session
  <1>3. CASE h' = TRUE /\ pc' = "status" /\ stage' = stage
    <2>1. ReadInv' /\ (Sound' => Sound) /\ UNCHANGED <<job, size, image, ivt, plugin_sz, rd>>
      BY <1>1, FrameFacts DEF Frame
    <2>2. TypeInv'
      BY <1>1, <1>3, <2>1 DEF Inv, TypeInv
    <2>3. StageInv' /\ SentInv'
      BY <1>3, <2>1 DEF Inv, StageInv, SentInv, Early, Transfer, Jumping
    <2>4. RunInv'
      BY <1>1, <1>3, <2>1 DEF Inv, RunInv
    <2>5. QED
      BY <2>1, <2>2, <2>3, <2>4 DEF Inv
  <1>4. CASE UNCHANGED <<pc, stage, h>>
    BY <1>1, <1>4, AsideKeepsInv DEF Places, Early, Transfer, Jumping
  <1>5. QED
    BY <1>2, <1>3, <1>4 DEF usb_vybrid_dispatch

\* A transfer failed: the handle is closed, and the loop goes on.
LEMMA AgainKeepsInv ==
    ASSUME Inv, Frame, Again, dev' = dev
    PROVE  Inv'
  BY AsideKeepsInv DEF Again, Places, Early, Transfer, Jumping

\* A transfer succeeded.
LEMMA OnwardKeepsInv ==
    ASSUME Inv, Frame, UNCHANGED <<stage, dev, h>>, pc' = "data" => off' \in Nat,
           pc \in {"status"} \cup Transfer, pc' \in Transfer, pc' \in Jumping => stage # 0,
           Sound => dev \in {"rom", "ddr"},
           Sound' /\ stage # 0 =>
               /\ pc' = "data" => off' <= Len(Payload) /\ mem' = SubSeq(Payload, 1, off')
               /\ pc' \in {"hab", "complete"} \cup Jumping => mem' = Payload
    PROVE  Inv'
  <1>1. /\ ReadInv' /\ (Sound' => Sound) /\ Payload' = Payload
        /\ UNCHANGED <<job, size, image, ivt, plugin_sz, rd>>
    BY FrameFacts DEF Frame
  <1>2. TypeInv'
    BY <1>1 DEF Inv, TypeInv
  <1>3. StageInv'
    BY <1>1 DEF Inv, StageInv, Early, Transfer, Jumping
  <1>4. Sound => h
    BY DEF Inv, SentInv
  <1>5. SentInv'
    BY <1>1, <1>4 DEF SentInv
  <1>6. RunInv'
    BY <1>1 DEF Inv, RunInv
  <1>7. QED
    BY <1>1, <1>2, <1>3, <1>5, <1>6 DEF Inv

\* Only a ROM answers.
LEMMA StatusKeepsInv ==
    ASSUME Inv, do_status
    PROVE  Inv'
  <1>1. Frame /\ dev' = dev /\ pc = "status"
    BY DEF do_status, Frame, imgvars, romvars, HidOK, HidFails, NoFault, Fault, Inv, TypeInv
  <1>2. CASE dev \in {"rom", "ddr"} /\ pc' = "load" /\ UNCHANGED <<stage, h>>
    BY <1>1, <1>2, OnwardKeepsInv DEF Transfer, Jumping
  <1>3. CASE Returns("-1")
    <2>1. pc' \in {"ended", "dispatch", "booting"} /\ stage' = stage
      BY <1>3, ReturnsFacts
    <2>2. QED
      BY <1>1, <2>1, AsideKeepsInv DEF Places, Early, Transfer, Jumping, Session
  <1>4. QED
    BY <1>2, <1>3 DEF do_status

\* A part of the buffer is a sequence.
LEMMA ContentsType ==
    ASSUME NEW n \in Int
    PROVE  \E S : Contents(n) \in Seq(S)
  <1> PICK S : S = {Buffer(i) : i \in 1 .. n}
    OBVIOUS
  <1> PICK m : m = IF n < 0 THEN 0 ELSE n
    OBVIOUS
  <1>1. m \in Nat /\ 1 .. m = 1 .. n
    BY SMT
  <1>2. Contents(n) = [i \in 1 .. m |-> Buffer(i)]
    BY <1>1 DEF Contents
  <1>3. \A i \in 1 .. m : Buffer(i) \in S
    BY <1>1
  <1>4. [i \in 1 .. m |-> Buffer(i)] \in Seq(S)
    BY <1>1, <1>3, IsASeq
  <1>5. QED
    BY <1>2, <1>4

\* What is uploaded is a sequence.
LEMMA PayloadType ==
    ASSUME Inv, stage # 0
    PROVE  \E S : Payload \in Seq(S)
  <1>1. image \in Seq(Cell) /\ stage \in {1, 2} /\ plugin_sz \in Int
    BY DEF Inv, TypeInv
  <1>2. PICK n : n = IF stage = 1 THEN plugin_sz ELSE Len(image)
    OBVIOUS
  <1>3. n \in Int
    BY <1>1, <1>2
  <1>4. Payload = Contents(n)
    <2>1. CASE stage = 1
      <3>1. stage # 0 /\ stage # 2
        BY <2>1
      <3>2. QED
        BY <1>2, <2>1, <3>1, Zenon DEF Payload
    <2>2. CASE stage = 2
      <3>1. stage # 0 /\ stage # 1
        BY <2>2
      <3>2. QED
        BY <1>2, <2>2, <3>1, Zenon DEF Payload
    <2>3. QED
      BY <1>1, <2>1, <2>2
  <1>5. QED
    BY <1>3, <1>4, ContentsType

\* What is sent of s grows by one chunk.
LEMMA ChunkFacts ==
    ASSUME NEW S, NEW s \in Seq(S), NEW o \in Nat, o < Len(s),
           NEW n, n = MinOf(o + HidChunk, Len(s))
    PROVE  /\ n \in Nat /\ n <= Len(s) /\ o < n
           /\ SubSeq(s, 1, o) \o SubSeq(s, o + 1, n) = SubSeq(s, 1, n)
  <1>1. n \in Nat /\ n <= Len(s) /\ o < n
    BY ConstantFacts DEF MinOf
  <1>2. 1 \in 1 .. Len(s) + 1 /\ o \in 1 - 1 .. Len(s) /\ n \in o .. Len(s)
    BY <1>1, LenProperties
  <1>3. SubSeq(s, 1, o) \o SubSeq(s, o + 1, n) = SubSeq(s, 1, n)
    BY <1>2, ConcatAdjacentSubSeq, Zenon
  <1>4. QED
    BY <1>1, <1>3

\* The write_file command, with which the ROM begins anew.
LEMMA CommandKeepsInv ==
    ASSUME Inv, load_command
    PROVE  Inv'
  <1>1. Frame /\ dev' = dev /\ pc = "load"
    BY DEF load_command, Frame, imgvars, HidOK, HidFails, NoFault, Fault, Inv, TypeInv
  <1>2. Sound => dev \in {"rom", "ddr"}
    BY <1>1 DEF Inv, SentInv, Transfer
  <1>3. CASE mem' = <<>> /\ off' = 0 /\ pc' = "data" /\ UNCHANGED <<stage, h>>
    <2>1. stage # 0 => 0 <= Len(Payload) /\ SubSeq(Payload, 1, 0) = <<>>
      <3>1. SUFFICES ASSUME stage # 0 PROVE 0 <= Len(Payload) /\ SubSeq(Payload, 1, 0) = <<>>
        OBVIOUS
      <3>2. PICK S : Payload \in Seq(S)
        BY <3>1, PayloadType
      <3> PICK s : s = Payload
        OBVIOUS
      <3>3. s \in Seq(S)
        BY <3>2
      <3>4. 0 <= Len(s) /\ SubSeq(s, 1, 0) = <<>>
        BY <3>3
      <3>5. QED
        BY <3>4
    <2>2. QED
      BY <1>1, <1>2, <1>3, <2>1, OnwardKeepsInv DEF Transfer, Jumping
  <1>4. CASE Again /\ UNCHANGED off
    BY <1>1, <1>4, AgainKeepsInv
  <1>5. QED
    BY <1>3, <1>4 DEF load_command

\* A chunk of the contents, or the end of them.
LEMMA DataKeepsInv ==
    ASSUME Inv, load_data
    PROVE  Inv'
  <1>1. Frame /\ dev' = dev /\ off \in Nat /\ pc = "data"
    BY DEF load_data, Frame, imgvars, HidOK, HidFails, NoFault, Fault, Inv, TypeInv
  <1>2. /\ Sound => dev \in {"rom", "ddr"}
        /\ Sound /\ stage # 0 => off <= Len(Payload) /\ mem = SubSeq(Payload, 1, off)
    BY <1>1 DEF Inv, SentInv, Transfer
  <1>3. Sound' => Sound
    BY <1>1, FrameFacts
  <1>4. CASE off >= Len(Payload) /\ pc' = "hab" /\ UNCHANGED <<stage, off, h, mem>>
    <2>1. ASSUME Sound, stage # 0 PROVE mem = Payload
      <3>1. PICK S : Payload \in Seq(S)
        BY <2>1, PayloadType
      <3> PICK s : s = Payload
        OBVIOUS
      <3>2. s \in Seq(S) /\ Len(s) \in Nat /\ off >= Len(s) /\ off <= Len(s)
        BY <1>2, <1>4, <2>1, <3>1
      <3>3. off = Len(s)
        BY <1>1, <3>2
      <3>4. SubSeq(s, 1, Len(s)) = s
        BY <3>2, SubSeqFull
      <3>5. QED
        BY <1>2, <2>1, <3>3, <3>4
    <2>2. QED
      BY <1>1, <1>2, <1>3, <1>4, <2>1, OnwardKeepsInv DEF Transfer, Jumping
  <1>5. CASE /\ off < Len(Payload) /\ off' = MinOf(off + HidChunk, Len(Payload))
             /\ mem' = mem \o SubSeq(Payload, off + 1, off') /\ UNCHANGED <<pc, stage, h>>
    <2>1. CASE stage # 0
      <3>1. PICK S : Payload \in Seq(S)
        BY <2>1, PayloadType
      <3> PICK s, o, n : s = Payload /\ o = off /\ n = off'
        OBVIOUS
      <3>2. /\ n \in Nat /\ n <= Len(s) /\ o < n
            /\ SubSeq(s, 1, o) \o SubSeq(s, o + 1, n) = SubSeq(s, 1, n)
        BY <1>1, <1>5, <3>1, ChunkFacts
      <3>3. Sound => mem' = SubSeq(s, 1, n)
        BY <1>2, <1>5, <2>1, <3>2
      <3>4. QED
        BY <1>1, <1>2, <1>3, <1>5, <3>2, <3>3, OnwardKeepsInv DEF Transfer, Jumping
    <2>2. CASE stage = 0
      <3>1. Len(Payload) \in Nat
        <4>1. job.kernel \in DOMAIN size /\ size[job.kernel] \in Int
          BY JobFacts DEF Inv, TypeInv, ReadInv
        <4> PICK k, m : k = job.kernel /\ m = size[job.kernel]
          OBVIOUS
        <4>2. m \in Int /\ Payload = [i \in 1 .. m |-> <<k, i>>]
          BY <2>2, <4>1 DEF Payload, Cells
        <4>3. CASE m \in Nat
          BY <4>2, <4>3
        <4>4. CASE m < 0
          <5>1. 1 .. m = 1 .. 0
            BY <4>2, <4>4
          <5>2. Payload = [i \in 1 .. 0 |-> <<k, i>>]
            BY <4>2, <5>1
          <5>3. QED
            BY <5>2
        <4>5. m \in Nat \/ m < 0
          <5>1. m \in Int
            BY <4>1
          <5>2. QED
            BY <5>1
        <4>6. QED
          BY <4>3, <4>4, <4>5
      <3>2. off' \in Nat
        BY <1>1, <1>5, <3>1, ConstantFacts DEF MinOf
      <3>3. QED
        BY <1>1, <1>2, <1>3, <1>5, <2>2, <3>2, OnwardKeepsInv DEF Transfer, Jumping
    <2>3. QED
      BY <2>1, <2>2
  <1>6. CASE Again /\ UNCHANGED off
    BY <1>1, <1>6, AgainKeepsInv
  <1>7. CASE pc' = "ended" /\ stage' = stage
    BY <1>1, <1>7, AsideKeepsInv DEF Places, Early, Transfer, Jumping
  <1>8. QED
    BY <1>4, <1>5, <1>6, <1>7 DEF load_data, Exit

\* The reports behind the contents, and the jump command.
LEMMA ReportKeepsInv ==
    ASSUME Inv, load_hab \/ load_complete \/ jmp_2_addr
    PROVE  Inv'
  <1>1. Frame /\ dev' = dev /\ pc \in {"hab", "complete", "jump"}
    BY DEF load_hab, load_complete, jmp_2_addr, Frame, imgvars, romvars, HidOK, HidFails,
           NoFault, Fault, Inv, TypeInv
  <1>2. /\ Sound => dev \in {"rom", "ddr"}
        /\ Sound /\ stage # 0 => mem = Payload
        /\ pc = "jump" => stage # 0
    BY <1>1 DEF Inv, SentInv, StageInv, Transfer, Jumping
  <1>3. Sound' => Sound
    BY <1>1, FrameFacts
  <1>4. CASE Again
    BY <1>1, <1>4, AgainKeepsInv
  <1>5. CASE /\ pc' \in {"complete", "jump", "jump_hab"} /\ UNCHANGED <<stage, h>>
             /\ pc' \in Jumping => stage # 0
             /\ mem' = mem \/ "bad_status" \in cause'
    <2>1. Sound' /\ stage # 0 => mem' = Payload
      BY <1>2, <1>3, <1>5 DEF Sound
    <2>2. QED
      BY <1>1, <1>2, <1>5, <2>1, OnwardKeepsInv DEF Transfer, Jumping
  <1>6. CASE load_hab
    BY <1>4, <1>5, <1>6 DEF load_hab, romvars, Jumping
  <1>7. CASE load_complete
    BY <1>4, <1>5, <1>7 DEF load_complete, Fault, Jumping
  <1>8. CASE jmp_2_addr
    <2>1. stage # 0
      BY <1>2, <1>8 DEF jmp_2_addr
    <2>2. QED
      BY <1>4, <1>5, <1>8, <2>1 DEF jmp_2_addr, romvars
  <1>9. QED
    BY <1>6, <1>7, <1>8

\* What the jump starts.
LEMMA StartedFacts ==
    ASSUME Inv, pc \in Jumping
    PROVE  /\ Started \in {"ddr", "loader", "dead"}
           /\ Sound => /\ Started # "dead"
                       /\ stage = 1 => Started = "ddr"
                       /\ stage = 2 => Started = "loader"
  <1>1. stage \in {1, 2} /\ job.plugin \in BOOLEAN
    BY JobFacts DEF Inv, TypeInv, StageInv
  <1>2. Started \in {"ddr", "loader", "dead"}
    BY DEF Started
  <1>3. ASSUME Sound PROVE (stage = 1 => Started = "ddr") /\ (stage = 2 => Started = "loader")
    <2>1. /\ mem = Payload /\ ivt /\ dev \in {"rom", "ddr"} /\ (job.plugin => PluginFits)
          /\ stage = 2 /\ job.plugin => dev \in {"ddr", "loader"}
      <3>1. SentInv /\ RunInv /\ ivt /\ Fitting
        BY <1>3 DEF Inv, Sound
      <3>5. job.plugin => PluginFits
        BY <3>1, Zenon DEF Fitting
      <3>2. pc \in Transfer /\ pc \in {"hab", "complete"} \cup Jumping
        BY DEF Transfer
      <3>3. stage # 0
        BY <1>1
      <3>4. QED
        BY <1>3, <3>1, <3>2, <3>3, <3>5 DEF SentInv, RunInv
    <2>2. CASE stage = 1
      BY <2>1, <2>2 DEF Started, Inv, StageInv
    <2>3. CASE stage = 2 /\ job.plugin
      <3>1. dev = "ddr"
        BY <2>1, <2>3
      <3>2. QED
        BY <2>1, <2>3, <3>1 DEF Started
    <2>4. CASE stage = 2 /\ ~job.plugin
      BY <2>1, <2>4 DEF Started
    <2>5. QED
      BY <1>1, <2>2, <2>3, <2>4
  <1>4. QED
    BY <1>1, <1>2, <1>3

\* The device jumps, and the host goes on with the next part or tries again.
LEMMA StartKeepsInv ==
    ASSUME Inv, Frame, pc \in Jumping, dev' = Started,
           pc' \in {"ended", "dispatch", "booting"},
           stage' = stage \/ (stage = 1 /\ stage' = 2)
    PROVE  Inv'
  <1>1. ReadInv' /\ (Sound' => Sound) /\ UNCHANGED <<job, size, image, ivt, plugin_sz, rd>>
    BY FrameFacts DEF Frame
  <1>2. stage \in {1, 2}
    BY DEF Inv, TypeInv, StageInv
  <1>3. /\ Started \in {"ddr", "loader", "dead"}
        /\ Sound => /\ Started # "dead"
                    /\ stage = 1 => Started = "ddr"
                    /\ stage = 2 => Started = "loader"
    BY StartedFacts
  <1>4. TypeInv'
    BY <1>1, <1>2, <1>3 DEF Inv, TypeInv, Session
  <1>5. StageInv' /\ SentInv'
    BY <1>1 DEF Inv, StageInv, SentInv, Early, Transfer, Jumping
  <1>6. RunInv'
    BY <1>1, <1>2, <1>3 DEF RunInv
  <1>7. QED
    BY <1>1, <1>4, <1>5, <1>6 DEF Inv

\* The answers to the jump command.
LEMMA JumpKeepsInv ==
    ASSUME Inv, jmp_hab \/ jmp_status
    PROVE  Inv'
  <1>1. Frame /\ pc \in {"jump_hab", "jump_status"}
    BY DEF jmp_hab, jmp_status, Frame, imgvars, HidOK, NoFault, Fault, Inv, TypeInv
  <1>2. /\ Sound => h /\ dev \in {"rom", "ddr"}
        /\ Sound /\ stage # 0 => mem = Payload
        /\ stage # 0
    BY <1>1 DEF Inv, SentInv, StageInv, Transfer, Jumping
  <1>3. Sound' => Sound
    BY <1>1, FrameFacts
  <1>4. CASE Again /\ dev' = dev
    BY <1>1, <1>4, AgainKeepsInv
  <1>5. CASE Again /\ device_starts
    <2>1. pc' = "dispatch" /\ stage' = stage /\ dev' = Started
      BY <1>5 DEF Again, device_starts
    <2>2. QED
      BY <1>1, <2>1, StartKeepsInv DEF Jumping
  <1>6. CASE pc' = "jump_status" /\ UNCHANGED <<stage, h, dev, mem>>
    <2>1. Sound' /\ stage # 0 => mem' = Payload
      BY <1>2, <1>3, <1>6
    <2>2. QED
      BY <1>1, <1>2, <1>6, <2>1, OnwardKeepsInv DEF Transfer, Jumping
  <1>7. CASE device_starts /\ Returns("0")
    <2>1. /\ pc' \in {"ended", "dispatch", "booting"} /\ dev' = Started
          /\ stage' = stage \/ (stage = 1 /\ stage' = 2)
      BY <1>7, ReturnsFacts DEF device_starts
    <2>2. QED
      BY <1>1, <2>1, StartKeepsInv DEF Jumping
  <1>8. CASE (~h \/ "unheard" \in cause') /\ Returns("0") /\ dev' = dev
    <2>1. ~Sound'
      BY <1>2, <1>3, <1>8 DEF Sound
    <2>2. pc' \in {"ended", "dispatch", "booting"} /\ (stage' = stage \/ stage' = 2)
      BY <1>8, ReturnsFacts
    <2>3. ReadInv' /\ UNCHANGED <<job, size, image, ivt, plugin_sz, rd>>
      BY <1>1, FrameFacts DEF Frame
    <2>4. TypeInv'
      BY <1>1, <1>8, <2>2, <2>3 DEF Inv, TypeInv, Session
    <2>5. StageInv' /\ SentInv' /\ RunInv'
      BY <2>1, <2>2, <2>3 DEF Inv, StageInv, SentInv, RunInv, Early, Jumping
    <2>6. QED
      BY <2>3, <2>4, <2>5 DEF Inv
  <1>9. CASE jmp_hab
    BY <1>4, <1>5, <1>6, <1>9 DEF jmp_hab, romvars
  <1>10. CASE jmp_status
    BY <1>4, <1>7, <1>8, <1>10 DEF jmp_status, romvars, Fault
  <1>11. QED
    BY <1>9, <1>10

-----------------------------------------------------------------------------
(* The session, and the rest of the machine.                               *)

\* The loader's session does not touch the image.
LEMMA SessionKeepsInv ==
    ASSUME Inv, \/ open_device_with_vid_pid \/ load_module \/ send_module
                \/ send_mod_contents \/ send_close_command
    PROVE  Inv'
  <1>1. UNCHANGED <<job, size, imgvars, stage, dev>> /\ pc \in Session
    BY DEF open_device_with_vid_pid, load_module, send_module, send_mod_contents,
           send_close_command, romvars, Session
  <1>2. cause \subseteq cause'
    BY DEF open_device_with_vid_pid, load_module, send_module, send_mod_contents,
           send_close_command, NotSent, HidOK, HidFails, NoFault, Fault
  <1>3. Frame
    BY <1>1, <1>2 DEF Frame, imgvars
  <1>4. pc' \in Session \cup {"ended"}
    BY DEF open_device_with_vid_pid, load_module, send_module, send_mod_contents,
           send_close_command, NotSent, NextItem, Exit, Session
  <1>5. QED
    BY <1>1, <1>3, <1>4, AsideKeepsInv DEF Places, Early, Transfer, Jumping, Session

\* The cable is pulled.
LEMMA UnplugKeepsInv ==
    ASSUME Inv, unplug
    PROVE  Inv'
  <1>1. /\ UNCHANGED <<job, size, pc, image, ivt, plugin_sz, rd, stage, off>>
        /\ cause' = cause \cup {"unplug"} /\ dev' = "rom"
    BY DEF unplug, imgvars, Fault
  <1>2. ~Sound'
    BY <1>1 DEF Sound
  <1>3. ReadInv'
    BY <1>1 DEF Inv, ReadInv, Programs
  <1>4. TypeInv' /\ StageInv'
    BY <1>1 DEF Inv, TypeInv, StageInv
  <1>5. QED
    BY <1>2, <1>3, <1>4 DEF Inv, SentInv, RunInv

\* The device appears on the bus.
LEMMA PlugKeepsInv ==
    ASSUME Inv, appear \/ plug
    PROVE  Inv'
  BY UnseenKeepsInv DEF appear, plug, Frame, imgvars

\* The invariant holds when the program is started.
LEMMA InitInv ==
    Init => Inv
  <1> SUFFICES ASSUME Init PROVE Inv
    OBVIOUS
  <1>1. /\ job \in Jobs /\ size = job.size /\ pc = "main" /\ image = <<>> /\ ivt = FALSE
        /\ rd = [i |-> 0, pos |-> 0, low |-> 0] /\ stage = 0 /\ dev = "rom" /\ plugin_sz = 0
    BY Zenon DEF Init
  <1>2. image \in Seq(Cell)
    BY <1>1
  <1>3. TypeInv
    <2>0. 0 \in Int /\ FALSE \in BOOLEAN
      OBVIOUS
    <2>1. plugin_sz \in Int /\ ivt \in BOOLEAN
      BY <1>1, <2>0, Zenon
    <2>2. pc \in Early /\ pc # "data"
      BY <1>1 DEF Early
    <2>3. QED
      BY <1>1, <1>2, <2>1, <2>2 DEF TypeInv
  <1>4. ReadInv
    <2>1. Programs \in Seq(Token(job)) /\ \A f \in DOMAIN size : size[f] \in Int
      BY <1>1, ProgramsType, JobFacts
    <2>2. Len(Programs) \in Nat
      BY <2>1
    <2>3. rd \in [i : Nat, pos : Nat, low : Nat] /\ rd.i = 0
      BY <1>1
    <2>4. rd.i <= Len(Programs)
      BY <2>2, <2>3
    <2>5. QED
      BY <1>1, <2>1, <2>3, <2>4 DEF ReadInv
  <1>5. StageInv /\ SentInv /\ RunInv
    BY <1>1 DEF StageInv, SentInv, RunInv, Transfer, Jumping
  <1>6. QED
    BY <1>3, <1>4, <1>5 DEF Inv

\* Every step keeps it.
LEMMA NextKeepsInv ==
    Inv /\ [Next]_vars => Inv'
  <1> SUFFICES ASSUME Inv, [Next]_vars PROVE Inv'
    OBVIOUS
  <1>1. CASE main \/ boot_image \/ write_turn
    BY <1>1, ImageKeepsInv
  <1>2. CASE read_turn \/ read_end
    BY <1>2, ReadTurnKeepsInv, ReadEndKeepsInv
  <1>3. CASE append_sysprogs
    BY <1>3, AppendKeepsInv
  <1>4. CASE write_syspage
    BY <1>4, SyspageKeepsInv
  <1>5. CASE usb_vybrid_dispatch
    BY <1>5, DispatchKeepsInv
  <1>6. CASE do_status
    BY <1>6, StatusKeepsInv
  <1>7. CASE load_command
    BY <1>7, CommandKeepsInv
  <1>8. CASE load_data
    BY <1>8, DataKeepsInv
  <1>9. CASE load_hab \/ load_complete \/ jmp_2_addr
    BY <1>9, ReportKeepsInv
  <1>10. CASE jmp_hab \/ jmp_status
    BY <1>10, JumpKeepsInv
  <1>11. CASE \/ open_device_with_vid_pid \/ load_module \/ send_module
              \/ send_mod_contents \/ send_close_command
    BY <1>11, SessionKeepsInv
  <1>12. CASE appear \/ plug
    BY <1>12, PlugKeepsInv
  <1>13. CASE unplug
    BY <1>13, UnplugKeepsInv
  <1>14. CASE \E f \in DOMAIN size, d \in {-1, 1} : resize(f, size[f] + d)
    <2>1. PICK f \in DOMAIN size, d \in {-1, 1} : resize(f, size[f] + d)
      BY <1>14
    <2> PICK n : n = size[f] + d
      OBVIOUS
    <2>2. n \in Int /\ resize(f, n)
      BY <2>1 DEF Inv, ReadInv
    <2>3. QED
      BY <2>2, ResizeKeepsInv
  <1>15. CASE UNCHANGED vars
    <2>1. Frame /\ UNCHANGED <<pc, stage, off, h, dev, mem>>
      BY <1>15 DEF vars, Frame
    <2>2. QED
      BY <2>1, UnseenKeepsInv
  <1>16. QED
    BY <1>1, <1>2, <1>3, <1>4, <1>5, <1>6, <1>7, <1>8, <1>9, <1>10, <1>11, <1>12, <1>13,
       <1>14, <1>15 DEF Next, phoenixd

\* The inductive invariant holds in every state phoenixd can reach.
THEOREM Invariance ==
    Spec => []Inv
  BY InitInv, NextKeepsInv, PTL DEF Spec

\* The device never runs less than what was to be uploaded, unless it was
\* unplugged, its refusal to jump was lost, its complete status was bad, the
\* addresses were not found or the size of the plugin cannot be: every retry of
\* usb_vybrid_dispatch begins with an empty transfer, and an image that needs the
\* plugin is not started before it.
THEOREM DeviceStartsWhole ==
    Spec => []StartsWhole
  <1>1. Inv => StartsWhole
    <2>1. Inv => (dev = "dead" => ~Sound)
      BY DEF Inv, RunInv
    <2>2. ~Sound => \/ cause \cap {"unplug", "unheard", "bad_status"} # {} \/ ~ivt
                    \/ job.plugin /\ ~PluginFits
      BY Zenon DEF Sound, Fitting
    <2>3. QED
      BY <2>1, <2>2, Zenon DEF StartsWhole
  <1>2. QED
    BY <1>1, Invariance, PTL

-----------------------------------------------------------------------------
(* The modules.                                                            *)

Talking == {"module", "announce", "send", "close"}

\* What the parts of a module are made of.
Atom == (Names \X BOOLEAN) \cup (Names \X Int) \cup ({"args"} \X Int) \cup {<<"nul">>}
Part == Seq(Atom)

\* What the loader holds.
HeldInv == got \in Seq(Seq(Part)) /\ rx \in [want : Nat, have : Part, parts : Seq(Part)]

\* The modules loaded so far are the first ones of the command line.
LoadedInv ==
    /\ loaded \in Seq(Seq(Part)) /\ Len(loaded) <= Len(Modules)
    /\ \A i \in 1 .. Len(loaded) :
          /\ Len(loaded[i]) = 3
          /\ loaded[i][1] = send_mod_name(Modules[i]) /\ loaded[i][2] = send_mod_args(Modules[i])

\* Before the loader is met nothing was loaded, and main() has no result.
BeforeInv ==
    /\ pc \notin Talking \cup {"ended"} =>
          loaded = <<>> /\ got = <<>> /\ at = "name" /\ rx = NoItem /\ result = ""
    /\ pc \in Talking \ {"close"} => result = ""
    /\ pc = "close" => result \in {"0", "1"}
    /\ pc = "write" => job.via = "output"

\* The handle is lost only with the device.
HandleInv ==
    /\ pc \in Talking /\ ~h => "unplug" \in cause
    /\ pc \in Talking /\ h => dev = "loader" \/ "mistaken" \in cause

\* What the loader has is a part of what was loaded.
GotInv ==
    pc # "ended" => Len(got) <= Len(loaded) /\ \A i \in 1 .. Len(got) : got[i] = loaded[i]

Current == loaded[Len(loaded)]
Due(k)  == CASE k = 1 -> "name" [] k = 2 -> "args" [] OTHER -> "contents"

\* The loader waits for the item that the host is about to send, or is in it.
SyncInv ==
    h /\ dev = "loader" =>
        /\ pc = "module" => got = loaded /\ at = "name" /\ rx = NoItem
        /\ pc \in {"announce", "send"} =>
              /\ Len(got) + 1 = Len(loaded) /\ at = Due(item)
              /\ rx.parts = SubSeq(Current, 1, item - 1)
        /\ pc = "announce" => rx.want = 0 /\ rx.have = <<>>
        /\ pc = "send" => rx.want = Len(Item) /\ rx.have = SubSeq(Item, 1, off)
        /\ pc = "close" => \/ at = "name" /\ rx = NoItem /\ got = loaded
                           \/ "send" \in cause /\ Len(got) + 1 = Len(loaded)

\* The item that the host is at.
ItemInv ==
    /\ pc \in {"announce", "send"} => loaded # <<>> /\ item \in {1, 2, 3}
    /\ pc = "announce" => off = 0
    /\ pc = "send" => off \in Nat /\ off < Len(Item)

\* Why the session ends.
ReasonInv ==
    /\ pc = "module" /\ "mistaken" \notin cause => got = loaded
    /\ pc = "close" /\ result = "0" /\ "mistaken" \notin cause =>
          got = loaded /\ Len(loaded) = Len(Modules)
    /\ pc = "close" /\ result = "1" =>
          \/ cause \cap {"send", "unplug", "module"} # {}
          \/ \E t \in {Modules[i] : i \in DOMAIN Modules} : size[t.file] < 0

TalkInv == /\ HeldInv /\ LoadedInv /\ BeforeInv /\ HandleInv /\ GotInv /\ SyncInv /\ ItemInv
           /\ ReasonInv /\ ModulesExact

\* The end of the session, in ModulesExact.
Outcome ==
    pc = "ended" /\ job.via = "imx" /\ result \in {"0", "1"} /\ "mistaken" \notin cause =>
        /\ result = "0" => Len(loaded) = Len(Modules) /\ got = loaded
        /\ result = "1" => \/ cause \cap {"send", "unplug", "module"} # {}
                           \/ \E t \in {Modules[i] : i \in DOMAIN Modules} : size[t.file] < 0
        /\ cause \cap {"send", "unplug"} = {} => at = "closed"

\* What the loader has, in ModulesExact.
GotExact ==
    /\ Len(got) <= Len(loaded)
    /\ \A i \in 1 .. Len(got) : got[i] # loaded[i] => i = Len(loaded) /\ "send" \in cause

\* The first n values of a function, as a sequence.
LEMMA Tabulated ==
    ASSUME NEW n \in Nat, NEW f, NEW S, \A i \in 1 .. n : f[i] \in S
    PROVE  [i \in 1 .. n |-> f[i]] \in Seq(S)
  BY IsASeq

\* A prefix of a sequence.
LEMMA PrefixType ==
    ASSUME NEW S, NEW s \in Seq(S), NEW n \in Nat, n <= Len(s)
    PROVE  SubSeq(s, 1, n) \in Seq(S)
  OBVIOUS

\* The smaller of two numbers.
LEMMA MinFacts ==
    ASSUME NEW a \in Nat, NEW b \in Nat
    PROVE  MinOf(a, b) \in Nat /\ MinOf(a, b) <= a /\ MinOf(a, b) <= b
  BY DEF MinOf

\* A sequence with one element more.
LEMMA Grown ==
    ASSUME NEW S, NEW s \in Seq(S), NEW m \in S
    PROVE  /\ Append(s, m) \in Seq(S) /\ Len(Append(s, m)) = Len(s) + 1
           /\ Append(s, m)[Len(s) + 1] = m
  BY AppendProperties

\* The elements it had stay.
LEMMA GrownKeeps ==
    ASSUME NEW S, NEW s \in Seq(S), NEW m \in S, NEW i \in 1 .. Len(s)
    PROVE  Append(s, m)[i] = s[i]
  BY AppendProperties

\* Arguments that fit are sent whole.
LEMMA ArgsWhole ==
    ASSUME NEW t, t.args \in Int, 0 < t.args, t.args < MaxArgs
    PROVE  send_mod_args(t) = Append(Cells("args", t.args), <<"nul">>)
  <1> PICK n, c, all : /\ n = t.args /\ c = [i \in 1 .. n |-> <<"args", i>>]
                       /\ all = Append(c, <<"nul">>)
    OBVIOUS
  <1> PICK S : S = {c[i] : i \in 1 .. n} \cup {<<"nul">>}
    OBVIOUS
  <1>1. n \in Nat
    OBVIOUS
  <1>2. c \in Seq(S) /\ Len(c) = n
    <2>0. \A i \in 1 .. n : c[i] \in S
      OBVIOUS
    <2>1. [i \in 1 .. n |-> c[i]] \in Seq(S)
      BY <1>1, <2>0, Tabulated
    <2>2. [i \in 1 .. n |-> c[i]] = c
      OBVIOUS
    <2>4. c \in Seq(S)
      BY <2>1, <2>2
    <2>5. DOMAIN c = 1 .. n
      OBVIOUS
    <2>6. QED
      BY <1>1, <2>4, <2>5, LenProperties
  <1>3. all \in Seq(S) /\ Len(all) = n + 1
    BY <1>2, AppendProperties
  <1>4. MinOf(Len(all), MaxArgs) = Len(all)
    BY <1>1, <1>3, ConstantFacts DEF MinOf
  <1>5. SubSeq(all, 1, Len(all)) = all
    BY <1>3, SubSeqFull
  <1>6. Cells("args", n) = c
    BY DEF Cells
  <1>7. ~(n <= 0)
    BY <1>1
  <1>8. send_mod_args(t) = SubSeq(all, 1, MinOf(Len(all), MaxArgs))
    BY <1>6, <1>7 DEF send_mod_args
  <1>9. QED
    BY <1>4, <1>5, <1>6, <1>8

\* Without arguments nothing is sent.
LEMMA NoArgs ==
    ASSUME NEW t, t.args <= 0
    PROVE  send_mod_args(t) = <<>>
  <1>1. send_mod_args(t) = SubSeq(<<>>, 1, MinOf(Len(<<>>), MaxArgs))
    BY DEF send_mod_args
  <1>2. MinOf(Len(<<>>), MaxArgs) = 0
    BY ConstantFacts DEF MinOf
  <1>3. QED
    BY <1>1, <1>2

\* ModulesExact from its parts.
LEMMA ExactParts ==
    job \in Jobs /\ LoadedInv /\ GotExact /\ Outcome => ModulesExact
  <1> SUFFICES ASSUME job \in Jobs, LoadedInv, GotExact, Outcome PROVE ModulesExact
    OBVIOUS
  <1>1. Modules \in Seq(Token(job))
    BY ProgramsType
  <1>2. ASSUME NEW i \in 1 .. Len(loaded)
        PROVE  /\ loaded[i][1] = << <<Modules[i].file, Modules[i].x>> >>
               /\ Modules[i].args <= 0 => loaded[i][2] = <<>>
               /\ 0 < Modules[i].args /\ Modules[i].args < MaxArgs =>
                     loaded[i][2] = Append(Cells("args", Modules[i].args), <<"nul">>)
    <2> PICK t : t = Modules[i]
      OBVIOUS
    <2>1. loaded[i][1] = send_mod_name(t) /\ loaded[i][2] = send_mod_args(t)
      BY DEF LoadedInv
    <2>2. t \in Token(job)
      <3>1. Len(loaded) \in Nat /\ Len(Modules) \in Nat /\ Len(loaded) <= Len(Modules)
        BY <1>1 DEF LoadedInv
      <3>2. i \in 1 .. Len(Modules)
        BY <3>1
      <3>3. QED
        BY <1>1, <3>2, ElementOfSeq
    <2>3. t.args \in Int
      BY <2>2 DEF Token
    <2>4. 0 < t.args /\ t.args < MaxArgs => send_mod_args(t) = Append(Cells("args", t.args), <<"nul">>)
      BY <2>3, ArgsWhole
    <2>5. t.args <= 0 => send_mod_args(t) = <<>>
      BY NoArgs
    <2>6. QED
      BY <2>1, <2>4, <2>5 DEF send_mod_name
  <1>3. QED
    BY <1>2 DEF ModulesExact, GotExact, Outcome

\* The same after a step.
LEMMA ExactPartsNext ==
    (job \in Jobs)' /\ LoadedInv' /\ GotExact' /\ Outcome' => ModulesExact'
  BY ExactParts, PTL

\* While the program runs, the loader has nothing wrong.
LEMMA RunningExact ==
    ASSUME (job \in Jobs)', LoadedInv', GotInv', (pc # "ended")'
    PROVE  ModulesExact'
  <1>1. GotExact' /\ Outcome'
    BY DEF GotInv, GotExact, Outcome
  <1>2. QED
    BY <1>1, ExactPartsNext

\* Nothing that the loader or the modules depend on changes.
Quiet == UNCHANGED <<job, loaded, got, at, rx>>

\* The steps before the loader is met.
LEMMA BeforeKeeps ==
    ASSUME TalkInv, (job \in Jobs)', Quiet, pc \notin Talking \cup {"ended"}, pc' \notin Talking,
           pc' # "ended" => result' = result, pc' = "write" => job.via = "output",
           pc' = "ended" => result' \notin {"0", "1"} \/ job.via # "imx"
    PROVE  TalkInv'
  <1>1. loaded = <<>> /\ got = <<>> /\ at = "name" /\ rx = NoItem /\ result = ""
    BY DEF TalkInv, BeforeInv
  <1>2. HeldInv' /\ LoadedInv'
    BY DEF TalkInv, HeldInv, LoadedInv, Quiet, Modules
  <1>3. BeforeInv'
    BY <1>1 DEF BeforeInv, Quiet, Talking
  <1>4. HandleInv' /\ SyncInv' /\ ItemInv' /\ ReasonInv'
    BY DEF HandleInv, SyncInv, ItemInv, ReasonInv, Talking
  <1>5. GotInv' /\ GotExact'
    <2>1. loaded' = <<>> /\ got' = <<>>
      BY <1>1 DEF Quiet
    <2>2. Len(got') = 0 /\ Len(loaded') = 0
      BY <2>1
    <2>3. QED
      BY <2>2 DEF GotInv, GotExact
  <1>6. Outcome'
    BY DEF Outcome, Quiet
  <1>7. QED
    BY <1>2, <1>3, <1>4, <1>5, <1>6, ExactPartsNext DEF TalkInv

\* The image is made without the loader.
LEMMA ImageKeepsTalk ==
    ASSUME Inv, TalkInv, (job \in Jobs)',
           \/ main \/ boot_image \/ read_turn \/ read_end \/ append_sysprogs \/ write_syspage
           \/ write_turn
    PROVE  TalkInv'
  <1>1. Quiet
    BY DEF main, boot_image, read_turn, read_end, append_sysprogs, write_syspage, write_turn,
           Quiet, ldrvars
  <1>2. /\ pc \notin Talking \cup {"ended"} /\ pc' \notin Talking
        /\ pc' # "ended" => result' = result
    BY DEF main, boot_image, read_turn, read_end, append_sysprogs, write_syspage, write_turn,
           Talking, Exit
  <1>3. pc = "write" => job.via = "output"
    BY DEF TalkInv, BeforeInv
  <1>4. pc' = "write" => job.via = "output"
    BY <1>3 DEF main, boot_image, read_turn, read_end, append_sysprogs, write_syspage, write_turn,
           Exit
  <1>5. pc' = "ended" => result' \notin {"0", "1"} \/ job.via # "imx"
    BY <1>3 DEF main, boot_image, read_turn, read_end, append_sysprogs, write_syspage, write_turn,
           Exit
  <1>6. QED
    BY <1>1, <1>2, <1>4, <1>5, BeforeKeeps

\* The upload does neither.
LEMMA UploadKeepsTalk ==
    ASSUME Inv, TalkInv, (job \in Jobs)',
           \/ usb_vybrid_dispatch \/ do_status \/ load_command \/ load_data \/ load_hab
           \/ load_complete \/ jmp_2_addr \/ jmp_hab \/ jmp_status
    PROVE  TalkInv'
  <1>1. Quiet
    BY DEF usb_vybrid_dispatch, do_status, load_command, load_data, load_hab, load_complete,
           jmp_2_addr, jmp_hab, jmp_status, Quiet, ldrvars
  <1>2. pc \notin Talking \cup {"ended"} /\ (pc = "jump_status" => stage # 0)
    BY DEF usb_vybrid_dispatch, do_status, load_command, load_data, load_hab, load_complete,
           jmp_2_addr, jmp_hab, jmp_status, Talking, Inv, StageInv, Jumping
  <1>3. /\ pc' \notin Talking \cup {"write"} /\ (pc' # "ended" => result' = result)
        /\ pc' = "ended" => result' \notin {"0", "1"} \/ job.via # "imx"
    <2>1. CASE \/ load_command \/ load_data \/ load_hab \/ load_complete \/ jmp_2_addr \/ jmp_hab
      BY <2>1 DEF load_command, load_data, load_hab, load_complete, jmp_2_addr, jmp_hab, Again,
                  Exit, Talking
    <2>2. CASE usb_vybrid_dispatch \/ do_status
      BY <2>2 DEF usb_vybrid_dispatch, do_status, Returns, Exit, Talking
    <2>3. CASE jmp_status
      BY <1>2, <2>3 DEF jmp_status, Returns, Exit, Again, Talking
    <2>4. QED
      BY <2>1, <2>2, <2>3
  <1>4. QED
    BY <1>1, <1>2, <1>3, BeforeKeeps

\* The device is opened as a loader.
LEMMA OpenKeepsTalk ==
    ASSUME Inv, TalkInv, (job \in Jobs)', open_device_with_vid_pid
    PROVE  TalkInv'
  <1>a. CASE UNCHANGED <<pc, h>>
    <2>1. pc = "booting" /\ UNCHANGED <<result, dev>> /\ Quiet
      BY DEF open_device_with_vid_pid, ldrvars, romvars, Quiet
    <2>2. QED
      BY <1>a, <2>1, BeforeKeeps DEF Talking
  <1>b. SUFFICES ASSUME pc' = "module" PROVE TalkInv'
    BY <1>a DEF open_device_with_vid_pid
  <1>1. /\ pc = "booting" /\ pc' = "module" /\ h' = TRUE /\ UNCHANGED <<result, dev>> /\ Quiet
        /\ dev # "loader" => "mistaken" \in cause'
    BY <1>b DEF open_device_with_vid_pid, ldrvars, romvars, Quiet
  <1>2. loaded = <<>> /\ got = <<>> /\ at = "name" /\ rx = NoItem /\ result = ""
    BY <1>1 DEF TalkInv, BeforeInv, Talking
  <1>3. HeldInv' /\ LoadedInv'
    BY <1>1 DEF TalkInv, HeldInv, LoadedInv, Quiet, Modules
  <1>4. BeforeInv' /\ HandleInv' /\ SyncInv' /\ ItemInv' /\ ReasonInv'
    BY <1>1, <1>2 DEF BeforeInv, HandleInv, SyncInv, ItemInv, ReasonInv, Talking, Quiet
  <1>5. GotInv'
    <2>1. loaded' = <<>> /\ got' = <<>>
      BY <1>1, <1>2 DEF Quiet
    <2>2. Len(got') = 0 /\ Len(loaded') = 0
      BY <2>1
    <2>3. QED
      BY <2>2 DEF GotInv
  <1>6. QED
    BY <1>1, <1>3, <1>4, <1>5, RunningExact DEF TalkInv

\* The parts of a module are sequences of atoms.
LEMMA PartTypes ==
    ASSUME job \in Jobs, NEW t \in Token(job), size[t.file] \in Nat
    PROVE  /\ send_mod_name(t) \in Part /\ send_mod_args(t) \in Part
           /\ Cells(t.file, size[t.file]) \in Part
  <1> PICK f, a, n : f = t.file /\ a = t.args /\ n = size[f]
    OBVIOUS
  <1>1. f \in Names /\ t.x \in BOOLEAN /\ a \in Nat \cup {-1} /\ n \in Nat
    BY JobFacts DEF Token
  <1>2. send_mod_name(t) \in Part
    <2>1. <<f, t.x>> \in Atom
      BY <1>1 DEF Atom
    <2>2. QED
      BY <2>1 DEF send_mod_name, Part
  <1>3. Cells(f, n) \in Part
    <2> PICK c : c = [i \in 1 .. n |-> <<f, i>>]
      OBVIOUS
    <2>1. ASSUME NEW i \in 1 .. n PROVE c[i] \in Atom
      <3>1. i \in Int
        BY <1>1
      <3>2. <<f, i>> \in Names \X Int
        BY <1>1, <3>1
      <3>3. c[i] = <<f, i>>
        OBVIOUS
      <3>4. QED
        BY <3>2, <3>3 DEF Atom
    <2>2. [i \in 1 .. n |-> c[i]] \in Seq(Atom)
      BY <1>1, <2>1, Tabulated
    <2>3. [i \in 1 .. n |-> c[i]] = c
      OBVIOUS
    <2>4. QED
      BY <2>2, <2>3 DEF Cells, Part
  <1>4. send_mod_args(t) \in Part
    <2>1. CASE a <= 0
      <3>1. send_mod_args(t) = <<>>
        BY <2>1, NoArgs
      <3>2. QED
        BY <3>1 DEF Part
    <2>2. CASE a > 0
      <3> PICK c, all : c = [i \in 1 .. a |-> <<"args", i>>] /\ all = Append(c, <<"nul">>)
        OBVIOUS
      <3>1. ASSUME NEW i \in 1 .. a PROVE c[i] \in Atom
        <4>1. i \in Int
          BY <1>1, <2>2
        <4>2. <<"args", i>> \in {"args"} \X Int
          BY <4>1
        <4>3. c[i] = <<"args", i>>
          OBVIOUS
        <4>4. QED
          BY <4>2, <4>3 DEF Atom
      <3>0. a \in Nat
        BY <1>1, <2>2
      <3>2. [i \in 1 .. a |-> c[i]] \in Seq(Atom)
        BY <3>0, <3>1, Tabulated
      <3>3. [i \in 1 .. a |-> c[i]] = c
        OBVIOUS
      <3>4. c \in Seq(Atom) /\ <<"nul">> \in Atom
        BY <3>2, <3>3 DEF Atom
      <3>5. all \in Seq(Atom)
        BY <3>4, AppendProperties
      <3> PICK m, l : l = Len(all) /\ m = MinOf(l, MaxArgs)
        OBVIOUS
      <3>6. l \in Nat
        BY <3>5, LenProperties
      <3>7. m \in Nat /\ m <= l
        BY <3>6, ConstantFacts, MinFacts
      <3>8. SubSeq(all, 1, m) \in Seq(Atom)
        BY <3>5, <3>7, PrefixType
      <3>9. ~(a <= 0)
        BY <2>2, <3>0
      <3>10. send_mod_args(t) = SubSeq(all, 1, m)
        BY <3>9 DEF send_mod_args, Cells
      <3>11. QED
        BY <3>8, <3>10 DEF Part
    <2>3. QED
      BY <1>1, <2>1, <2>2
  <1>5. QED
    BY <1>2, <1>3, <1>4

\* The next module is read, or is not.
LEMMA LoadKeepsTalk ==
    ASSUME Inv, TalkInv, (job \in Jobs)', load_module
    PROVE  TalkInv'
  <1>1. /\ pc = "module" /\ UNCHANGED <<job, size, h, dev, at, rx, got>> /\ cause \subseteq cause'
        /\ job \in Jobs
    BY DEF load_module, romvars, Fault, NoFault, Inv, TypeInv
  <1>2. result = "" /\ got \in Seq(Seq(Part)) /\ loaded \in Seq(Seq(Part)) /\ Len(loaded) <= Len(Modules)
    BY <1>1 DEF TalkInv, BeforeInv, HeldInv, LoadedInv, Talking
  <1>3. HeldInv' /\ HandleInv'
    <2>1. HeldInv'
      BY <1>1 DEF TalkInv, HeldInv
    <2>2. /\ ~h => "unplug" \in cause
          /\ h => dev = "loader" \/ "mistaken" \in cause
      BY <1>1 DEF TalkInv, HandleInv, Talking
    <2>3. HandleInv'
      BY <1>1, <2>2 DEF HandleInv
    <2>4. QED
      BY <2>1, <2>3
  <1>4. /\ Modules \in Seq(Token(job)) /\ Modules' = Modules
        /\ Len(Modules) \in Nat /\ Len(loaded) \in Nat /\ Len(got) \in Nat
    <2>1. Modules \in Seq(Token(job)) /\ Modules' = Modules
      BY <1>1, ProgramsType DEF Modules
    <2>2. QED
      BY <1>2, <2>1, LenProperties
  <1>5. CASE UNCHANGED loaded /\ (pc' = "ended" /\ result' = "crash")
    <2>1. LoadedInv' /\ GotExact' /\ Outcome'
      BY <1>1, <1>4, <1>5 DEF TalkInv, LoadedInv, GotInv, GotExact, Outcome
    <2>2. BeforeInv' /\ GotInv' /\ SyncInv' /\ ItemInv' /\ ReasonInv'
      BY <1>5 DEF BeforeInv, GotInv, SyncInv, ItemInv, ReasonInv, Talking
    <2>3. QED
      BY <1>3, <2>1, <2>2, ExactPartsNext DEF TalkInv
  <1>6. CASE /\ UNCHANGED loaded /\ pc' = "close"
             /\ \/ result' = "0" /\ Len(loaded) = Len(Modules)
                \/ /\ result' = "1"
                   /\ \/ "module" \in cause'
                      \/ \E t \in {Modules[i] : i \in DOMAIN Modules} : size[t.file] < 0
    <2>1. LoadedInv' /\ GotInv'
      BY <1>1, <1>4, <1>6 DEF TalkInv, LoadedInv, GotInv
    <2>2. h /\ dev = "loader" => got = loaded /\ at = "name" /\ rx = NoItem
      BY <1>1 DEF TalkInv, SyncInv
    <2>3. "mistaken" \notin cause => got = loaded
      BY <1>1 DEF TalkInv, ReasonInv
    <2>4. BeforeInv' /\ ItemInv'
      BY <1>6 DEF BeforeInv, ItemInv, Talking
    <2>5. SyncInv'
      BY <1>1, <1>6, <2>2 DEF SyncInv
    <2>6. ReasonInv'
      <3>1. result' = "0" /\ "mistaken" \notin cause' => got' = loaded' /\ Len(loaded') = Len(Modules')
        BY <1>1, <1>4, <1>6, <2>3
      <3>2. result' = "1" =>
               \/ cause' \cap {"send", "unplug", "module"} # {}
               \/ \E t \in {Modules'[i] : i \in DOMAIN Modules'} : size'[t.file] < 0
        BY <1>1, <1>4, <1>6
      <3>3. QED
        BY <1>6, <3>1, <3>2 DEF ReasonInv
    <2>7. QED
      BY <1>3, <1>6, <2>1, <2>4, <2>5, <2>6, RunningExact DEF TalkInv
  <1> PICK k : k = Len(loaded) + 1
    OBVIOUS
  <1>7. CASE /\ k \in DOMAIN Modules /\ size[Modules[k].file] >= 0 /\ NoFault
             /\ loaded' = Append(loaded, << send_mod_name(Modules[k]), send_mod_args(Modules[k]),
                                            Cells(Modules[k].file, size[Modules[k].file]) >>)
             /\ item' = 1 /\ off' = 0 /\ pc' = "announce" /\ UNCHANGED result
    <2>0. PICK t, m, n : /\ t = Modules[k] /\ n = Len(loaded)
                         /\ m = << send_mod_name(t), send_mod_args(t), Cells(t.file, size[t.file]) >>
      OBVIOUS
    <2>1. loaded' = Append(loaded, m) /\ cause' = cause
      BY <1>7, <2>0 DEF NoFault
    <2>2. n \in Nat /\ k = n + 1 /\ Len(Modules) \in Nat /\ k <= Len(Modules)
      <3>1. k \in 1 .. Len(Modules)
        BY <1>4, <1>7, LenProperties
      <3>2. QED
        BY <1>4, <2>0, <3>1
    <2>3. t \in Token(job) /\ size[t.file] \in Nat
      <3>1. t \in Token(job)
        BY <1>4, <1>7, <2>0
      <3>2. t.file \in DOMAIN size
        BY <3>1 DEF Token, Inv, ReadInv
      <3>3. QED
        BY <1>7, <2>0, <3>1, <3>2 DEF Inv, ReadInv
    <2>4. m \in Seq(Part) /\ Len(m) = 3
      BY <1>1, <2>0, <2>3, PartTypes
    <2>5. /\ loaded' \in Seq(Seq(Part)) /\ Len(loaded') = n + 1 /\ loaded'[n + 1] = m
          /\ \A i \in 1 .. n : loaded'[i] = loaded[i]
      <3>1. /\ Append(loaded, m) \in Seq(Seq(Part)) /\ Len(Append(loaded, m)) = Len(loaded) + 1
            /\ Append(loaded, m)[Len(loaded) + 1] = m
        BY <1>2, <2>4, Grown, ZenonT(60)
      <3>2. \A i \in 1 .. Len(loaded) : Append(loaded, m)[i] = loaded[i]
        BY <1>2, <2>4, GrownKeeps
      <3>3. QED
        BY <2>0, <2>1, <3>1, <3>2, Zenon
    <2>6. LoadedInv'
      <3>1. ASSUME NEW i \in 1 .. n + 1
            PROVE  /\ Len(loaded'[i]) = 3 /\ loaded'[i][1] = send_mod_name(Modules[i])
                   /\ loaded'[i][2] = send_mod_args(Modules[i])
        <4>1. CASE i = n + 1
          BY <2>0, <2>2, <2>4, <2>5, <4>1
        <4>2. CASE i \in 1 .. n
          BY <2>0, <2>5, <4>2 DEF TalkInv, LoadedInv
        <4>3. QED
          BY <2>2, <4>1, <4>2
      <3>2. QED
        BY <1>4, <2>2, <2>5, <3>1 DEF LoadedInv, send_mod_name, send_mod_args
    <2>7. GotInv'
      <3>1. Len(got) \in Nat /\ Len(got) <= n /\ \A i \in 1 .. Len(got) : got[i] = loaded[i]
        BY <1>1, <1>4, <2>0 DEF TalkInv, GotInv
      <3>2. ASSUME NEW i \in 1 .. Len(got) PROVE got[i] = loaded'[i]
        <4>1. i \in 1 .. n
          BY <2>2, <3>1
        <4>2. QED
          BY <2>5, <3>1, <4>1
      <3>3. QED
        BY <1>1, <2>2, <2>5, <3>1, <3>2 DEF GotInv
    <2>8. BeforeInv'
      BY <1>2, <1>7 DEF BeforeInv, Talking
    <2>9. SyncInv'
      <3>1. SUFFICES ASSUME h, dev = "loader"
                     PROVE  /\ Len(got') + 1 = Len(loaded') /\ at' = Due(item')
                            /\ rx'.parts = SubSeq(Current', 1, item' - 1)
                            /\ rx'.want = 0 /\ rx'.have = <<>>
        BY <1>1, <1>7 DEF SyncInv
      <3>2. got = loaded /\ at = "name" /\ rx = NoItem
        BY <1>1, <3>1 DEF TalkInv, SyncInv
      <3>3. Len(got') + 1 = Len(loaded')
        BY <1>1, <2>0, <2>5, <3>2
      <3>4. at' = Due(item')
        BY <1>1, <1>7, <3>2 DEF Due
      <3>5. Current' = m
        BY <2>0, <2>5 DEF Current
      <3>6. SubSeq(m, 1, 0) = <<>>
        BY <2>4
      <3>7. rx'.parts = <<>> /\ rx'.want = 0 /\ rx'.have = <<>>
        BY <1>1, <3>2 DEF NoItem
      <3>8. item' - 1 = 0
        BY <1>7
      <3>9. QED
        BY <3>3, <3>4, <3>5, <3>6, <3>7, <3>8
    <2>10. ItemInv' /\ ReasonInv'
      <3>1. loaded' # <<>>
        BY <2>2, <2>5
      <3>2. QED
        BY <1>7, <3>1 DEF ItemInv, ReasonInv
    <2>11. QED
      BY <1>3, <1>7, <2>6, <2>7, <2>8, <2>9, <2>10, RunningExact DEF TalkInv
  <1>9. ASSUME k \in DOMAIN Modules, size[Modules[k].file] < 0
        PROVE  \E t \in {Modules[i] : i \in DOMAIN Modules} : size[t.file] < 0
    BY <1>9
  <1>10. QED
    <2>1. CASE Modules = <<>> /\ Exit("crash") /\ NoFault /\ UNCHANGED <<loaded, item, off>>
      BY <1>5, <2>1 DEF Exit
    <2>2. CASE /\ Modules # <<>> /\ k > Len(Modules) /\ pc' = "close" /\ result' = "0"
               /\ NoFault /\ UNCHANGED <<loaded, item, off>>
      <3>1. Len(loaded) = Len(Modules)
        <4> PICK a, b : a = Len(loaded) /\ b = Len(Modules)
          OBVIOUS
        <4>1. a \in Nat /\ b \in Nat /\ a + 1 > b /\ a <= b
          BY <1>2, <1>4, <2>2
        <4>2. a = b
          BY <4>1
        <4>3. QED
          BY <4>2
      <3>2. QED
        BY <1>6, <2>2, <3>1
    <2>3. CASE /\ k \in DOMAIN Modules /\ pc' = "close" /\ result' = "1"
               /\ \/ size[Modules[k].file] < 0 /\ NoFault
                  \/ size[Modules[k].file] >= 0 /\ Fault("module")
               /\ UNCHANGED <<loaded, item, off>>
      <3>1. "module" \in cause' \/ size[Modules[k].file] < 0
        BY <2>3 DEF Fault
      <3>2. QED
        BY <1>6, <1>9, <2>3, <3>1
    <2>4. QED
      BY <1>7, <2>1, <2>2, <2>3 DEF load_module

\* A prefix and the element behind it.
LEMMA PrefixGrows ==
    ASSUME NEW S, NEW s \in Seq(S), NEW i \in 1 .. Len(s)
    PROVE  Append(SubSeq(s, 1, i - 1), s[i]) = SubSeq(s, 1, i)
  OBVIOUS

\* What agrees with all but the last element, and the last.
LEMMA GrownIs ==
    ASSUME NEW S, NEW s \in Seq(S), NEW l \in Seq(S), Len(s) + 1 = Len(l),
           \A i \in 1 .. Len(s) : s[i] = l[i]
    PROVE  Append(s, l[Len(l)]) = l
  <1> PICK a, n : n = Len(s) /\ a = Append(s, l[n + 1])
    OBVIOUS
  <1>1. n \in Nat /\ Len(l) = n + 1 /\ l[n + 1] \in S
    BY LenProperties
  <1>2. a \in Seq(S) /\ Len(a) = n + 1 /\ a[n + 1] = l[n + 1]
    BY <1>1, Grown
  <1>3. \A i \in 1 .. n : a[i] = l[i]
    BY <1>1, GrownKeeps
  <1>4. \A i \in 1 .. n + 1 : a[i] = l[i]
    BY <1>1, <1>2, <1>3
  <1>5. a = l
    BY <1>1, <1>2, <1>4, SeqEqual
  <1>6. QED
    BY <1>1, <1>5

\* The item that is being sent.
LEMMA ItemFacts ==
    ASSUME TalkInv, pc \in {"announce", "send"}
    PROVE  /\ loaded \in Seq(Seq(Part)) /\ Len(loaded) \in Nat /\ loaded # <<>>
           /\ Current \in Seq(Part) /\ Len(Current) = 3 /\ item \in {1, 2, 3}
           /\ Item = Current[item] /\ Item \in Seq(Atom) /\ Len(Item) \in Nat
           /\ item = 1 => Item # <<>>
  <1>1. loaded \in Seq(Seq(Part)) /\ loaded # <<>> /\ item \in {1, 2, 3}
    BY DEF TalkInv, LoadedInv, ItemInv
  <1>2. Len(loaded) \in Nat /\ Len(loaded) \in 1 .. Len(loaded)
    BY <1>1, LenProperties, EmptySeq
  <1>3. Current \in Seq(Part)
    BY <1>1, <1>2, ElementOfSeq DEF Current
  <1>4. Len(Current) = 3 /\ Current[1] = send_mod_name(Modules[Len(loaded)])
    BY <1>2 DEF TalkInv, LoadedInv, Current
  <1>5. Item = Current[item]
    BY DEF Item, Current
  <1>6. item \in 1 .. 3
    BY <1>1
  <1>7. Current[item] \in Part
    BY <1>3, <1>4, <1>6, ElementOfSeq
  <1>8. Item \in Seq(Atom) /\ Len(Item) \in Nat
    BY <1>5, <1>7, LenProperties DEF Part
  <1>9. item = 1 => Item # <<>>
    BY <1>4, <1>5 DEF send_mod_name
  <1>10. QED
    BY <1>1, <1>2, <1>3, <1>4, <1>5, <1>8, <1>9

\* What the transfers to the loader leave alone.
Transferring ==
    /\ pc \in {"announce", "send"} /\ h
    /\ UNCHANGED <<job, size, h, loaded, dev, result, cause>>

\* Where the host is after one.
Onward == NextItem \/ (pc' = "send" /\ UNCHANGED item /\ off' \in Nat /\ off' < Len(Item))

\* The parts of the invariant that do not depend on what the loader made of it.
LEMMA TransferFacts ==
    ASSUME TalkInv, Transferring, Onward
    PROVE  LoadedInv' /\ BeforeInv' /\ HandleInv' /\ ItemInv'
  <1>1. /\ loaded # <<>> /\ item \in {1, 2, 3} /\ result = ""
        /\ dev = "loader" \/ "mistaken" \in cause
    BY ItemFacts DEF TalkInv, BeforeInv, HandleInv, Transferring, Talking
  <1>2. pc' \in {"module", "announce", "send"} /\ (pc' = "announce" => item' \in {1, 2, 3} /\ off' = 0)
    <2>1. item # 3 => item + 1 \in {1, 2, 3}
      <3>1. item = 1 \/ item = 2 \/ item = 3
        BY <1>1
      <3>2. QED
        BY <3>1
    <2>2. NextItem => pc' \in {"module", "announce"} /\ item' \in {1, 2, 3} /\ off' = 0
      BY <1>1, <2>1 DEF NextItem
    <2>3. QED
      BY <2>2 DEF Onward
  <1>3. LoadedInv'
    BY DEF TalkInv, LoadedInv, Transferring, Modules
  <1>4. BeforeInv' /\ HandleInv'
    BY <1>1, <1>2 DEF BeforeInv, HandleInv, Transferring, Talking
  <1>5. ItemInv'
    <2>1. pc' = "send" => Item' = Item /\ item' = item /\ off' \in Nat /\ off' < Len(Item)
      BY DEF Onward, NextItem, Transferring, Item
    <2>2. QED
      BY <1>1, <1>2, <2>1 DEF ItemInv, Transferring
  <1>6. QED
    BY <1>3, <1>4, <1>5

\* A ROM that was taken for the loader.
LEMMA ForeignKeepsTalk ==
    ASSUME TalkInv, (job \in Jobs)', Transferring, Onward, dev # "loader", UNCHANGED <<at, rx, got>>
    PROVE  TalkInv'
  <1>1. LoadedInv' /\ BeforeInv' /\ HandleInv' /\ ItemInv'
    BY TransferFacts
  <1>2. HeldInv' /\ SyncInv' /\ GotInv'
    BY DEF TalkInv, HeldInv, SyncInv, GotInv, Transferring
  <1>3. pc' \in {"module", "announce", "send"}
    BY DEF Onward, NextItem
  <1>4. "mistaken" \in cause
    BY DEF TalkInv, HandleInv, Transferring, Talking
  <1>5. ReasonInv'
    BY <1>3, <1>4 DEF ReasonInv, Transferring
  <1>6. QED
    BY <1>1, <1>2, <1>3, <1>5, RunningExact DEF TalkInv

\* The loader has all of an item.
LEMMA DoneKeepsTalk ==
    ASSUME TalkInv, (job \in Jobs)', Transferring, dev = "loader", LoaderDone(Item), NextItem
    PROVE  TalkInv'
  <1>1. LoadedInv' /\ BeforeInv' /\ HandleInv' /\ ItemInv'
    BY TransferFacts DEF Onward
  <1>2. /\ loaded \in Seq(Seq(Part)) /\ Len(loaded) \in Nat
        /\ Current \in Seq(Part) /\ Len(Current) = 3 /\ item \in {1, 2, 3} /\ Item = Current[item]
    BY ItemFacts DEF Transferring
  <1>3. /\ got \in Seq(Seq(Part)) /\ Len(got) + 1 = Len(loaded) /\ at = Due(item)
        /\ rx.parts = SubSeq(Current, 1, item - 1)
        /\ \A i \in 1 .. Len(got) : got[i] = loaded[i]
    BY DEF TalkInv, HeldInv, SyncInv, GotInv, Transferring
  <1> PICK p : p = SubSeq(Current, 1, item)
    OBVIOUS
  <1>4. Append(rx.parts, Item) = p
    <2>1. item \in 1 .. Len(Current)
      BY <1>2
    <2>2. QED
      BY <1>2, <1>3, <2>1, PrefixGrows
  <1>5. p \in Seq(Part)
    <2>1. item \in Nat /\ item <= Len(Current)
      BY <1>2
    <2>2. QED
      BY <1>2, <2>1, PrefixType
  <1>6. <<>> \in Part /\ <<>> \in Seq(Part)
    BY DEF Part
  <1>7. ReasonInv' /\ GotInv' /\ HeldInv' /\ SyncInv'
    <2>1. CASE item \in {1, 2}
      <3>1. at # "contents" /\ (item = 1 => at = "name") /\ (item = 2 => at = "args")
        BY <1>3, <2>1 DEF Due
      <3>2. /\ rx' = [NoItem EXCEPT !.parts = p] /\ got' = got
            /\ at' = Due(item + 1)
        BY <1>4, <2>1, <3>1 DEF LoaderDone, Due
      <3>3. item' = item + 1 /\ pc' = "announce"
        BY <2>1 DEF NextItem
      <3>4. rx' = [want |-> 0, have |-> <<>>, parts |-> p]
        BY <3>2 DEF NoItem
      <3>5. HeldInv'
        <4> PICK e : e = <<>>
          OBVIOUS
        <4>1. e \in Part
          BY <1>6
        <4>2. [want |-> 0, have |-> e, parts |-> p] \in [want : Nat, have : Part, parts : Seq(Part)]
          BY <1>5, <4>1
        <4>3. QED
          BY <1>3, <3>2, <3>4, <4>2 DEF HeldInv
      <3>6. ReasonInv' /\ GotInv'
        BY <3>2, <3>3 DEF TalkInv, ReasonInv, GotInv, Transferring
      <3>7. Current' = Current /\ item' - 1 = item
        BY <2>1, <3>3 DEF Current, Transferring
      <3>8. rx'.parts = SubSeq(Current', 1, item' - 1) /\ rx'.want = 0 /\ rx'.have = <<>>
        BY <3>4, <3>7
      <3>9. Len(got') + 1 = Len(loaded') /\ at' = Due(item')
        BY <1>3, <3>2, <3>3 DEF Transferring
      <3>10. SyncInv'
        BY <3>3, <3>8, <3>9 DEF SyncInv
      <3>11. QED
        BY <3>5, <3>6, <3>10
    <2>2. CASE item = 3
      <3>1. at = "contents"
        BY <1>3, <2>2 DEF Due
      <3>2. p = Current
        <4>1. SubSeq(Current, 1, Len(Current)) = Current
          BY <1>2, SubSeqFull
        <4>2. QED
          BY <1>2, <2>2, <4>1
      <3>3. rx' = NoItem /\ got' = Append(got, p) /\ at' = "name"
        BY <1>4, <3>1 DEF LoaderDone
      <3>4. Append(got, Current) = loaded
        BY <1>2, <1>3, GrownIs DEF Current
      <3>5. got' = loaded' /\ got' = loaded /\ pc' = "module"
        BY <2>2, <3>2, <3>3, <3>4 DEF NextItem, Transferring
      <3>6. HeldInv'
        BY <1>2, <1>6, <3>3, <3>5 DEF HeldInv, NoItem
      <3>7. ReasonInv' /\ SyncInv'
        BY <3>3, <3>5 DEF ReasonInv, SyncInv
      <3>8. GotInv'
        BY <1>2, <3>5 DEF GotInv
      <3>9. QED
        BY <3>6, <3>7, <3>8
    <2>3. QED
      BY <1>2, <2>1, <2>2
  <1>8. pc' # "ended"
    BY DEF NextItem
  <1>9. QED
    BY <1>1, <1>7, <1>8, RunningExact DEF TalkInv

\* The write_file command of an item.
LEMMA SendKeepsTalk ==
    ASSUME TalkInv, (job \in Jobs)', pc = "announce", HidOK, LoaderCommand(Len(Item)),
           UNCHANGED <<job, size, h, loaded, dev, result>>,
           IF Item = <<>> THEN NextItem ELSE pc' = "send" /\ UNCHANGED <<item, off>>
    PROVE  TalkInv'
  <1>1. Transferring
    BY DEF Transferring, HidOK, NoFault
  <1>2. /\ loaded # <<>> /\ item \in {1, 2, 3} /\ Item \in Seq(Atom) /\ Len(Item) \in Nat
        /\ item = 1 => Item # <<>>
    BY ItemFacts
  <1>3. off = 0
    BY DEF TalkInv, ItemInv
  <1>4. Item # <<>> => Len(Item) > 0
    BY <1>2, EmptySeq, LenProperties
  <1>5. Onward
    BY <1>3, <1>4 DEF Onward
  <1>6. CASE dev # "loader"
    BY <1>1, <1>5, <1>6, ForeignKeepsTalk DEF LoaderCommand
  <1>7. CASE dev = "loader"
    <2>1. /\ Len(got) + 1 = Len(loaded) /\ at = Due(item) /\ rx.parts = SubSeq(Current, 1, item - 1)
          /\ rx.want = 0 /\ rx.have = <<>> /\ h
      BY <1>7 DEF TalkInv, SyncInv, HidOK
    <2>2. at \notin {"closed", "lost"}
      BY <2>1 DEF Due
    <2>3. CASE Item = <<>>
      <3>1. Len(Item) = 0 /\ item # 1
        BY <1>2, <2>3
      <3>2. at # "name"
        BY <1>2, <2>1, <3>1 DEF Due
      <3>3. LoaderDone(Item)
        BY <1>7, <2>1, <2>2, <2>3, <3>1, <3>2 DEF LoaderCommand
      <3>4. QED
        BY <1>1, <1>7, <2>3, <3>3, DoneKeepsTalk
    <2>4. CASE Item # <<>>
      <3>1. rx' = [rx EXCEPT !.want = Len(Item)] /\ UNCHANGED <<at, got>>
        BY <1>2, <1>4, <1>7, <2>1, <2>2, <2>4 DEF LoaderCommand
      <3>2. pc' = "send" /\ UNCHANGED <<item, off>>
        BY <2>4
      <3>3. LoadedInv' /\ BeforeInv' /\ HandleInv' /\ ItemInv'
        BY <1>1, <1>5, TransferFacts
      <3>4. rx \in [want : Nat, have : Part, parts : Seq(Part)]
        BY DEF TalkInv, HeldInv
      <3>5. HeldInv' /\ GotInv' /\ ReasonInv'
        BY <1>2, <3>1, <3>2, <3>4 DEF TalkInv, HeldInv, GotInv, ReasonInv
      <3>6. Item' = Item /\ Current' = Current
        BY <3>2 DEF Item, Current
      <3>7. rx'.want = Len(Item) /\ rx'.have = <<>> /\ rx'.parts = SubSeq(Current, 1, item - 1)
        BY <2>1, <3>1, <3>4
      <3>8. SubSeq(Item, 1, off) = <<>>
        BY <1>2, <1>3
      <3>9. SyncInv'
        BY <2>1, <3>1, <3>2, <3>6, <3>7, <3>8 DEF SyncInv
      <3>10. QED
        BY <3>2, <3>3, <3>5, <3>9, RunningExact DEF TalkInv
    <2>5. QED
      BY <2>3, <2>4
  <1>8. QED
    BY <1>6, <1>7

\* A chunk of an item.
LEMMA ContentsKeepsTalk ==
    ASSUME TalkInv, (job \in Jobs)', pc = "send", HidOK,
           NEW n, n = MinOf(HidChunk, Len(Item) - off), LoaderData(SubSeq(Item, off + 1, off + n)),
           UNCHANGED <<job, size, h, loaded, dev, result>>,
           IF off + n = Len(Item) THEN NextItem ELSE off' = off + n /\ UNCHANGED <<pc, item>>
    PROVE  TalkInv'
  <1>1. Transferring
    BY DEF Transferring, HidOK, NoFault
  <1>2. /\ loaded # <<>> /\ item \in {1, 2, 3} /\ Item \in Seq(Atom) /\ Len(Item) \in Nat
        /\ off \in Nat /\ off < Len(Item)
    BY ItemFacts DEF TalkInv, ItemInv
  <1> PICK it, o, l : it = Item /\ o = off + n /\ l = Len(Item)
    OBVIOUS
  <1>3. o = MinOf(off + HidChunk, l) /\ l \in Nat
    BY <1>2, ConstantFacts DEF MinOf
  <1>4. o \in Nat /\ o <= l /\ off < o /\ SubSeq(it, 1, off) \o SubSeq(it, off + 1, o) = SubSeq(it, 1, o)
    BY <1>2, <1>3, ChunkFacts
  <1>5. o # l => o < l
    BY <1>3, <1>4
  <1>6. Onward
    BY <1>4, <1>5 DEF Onward
  <1>7. CASE dev # "loader"
    BY <1>1, <1>6, <1>7, ForeignKeepsTalk DEF LoaderData
  <1>8. CASE dev = "loader"
    <2>1. /\ Len(got) + 1 = Len(loaded) /\ at = Due(item) /\ rx.parts = SubSeq(Current, 1, item - 1)
          /\ rx.want = l /\ rx.have = SubSeq(it, 1, off) /\ h
      BY <1>8 DEF TalkInv, SyncInv, HidOK
    <2>2. at # "lost"
      BY <2>1 DEF Due
    <2> PICK have : have = SubSeq(it, 1, o)
      OBVIOUS
    <2>3. have \in Seq(Atom) /\ Len(have) = o
      BY <1>2, <1>3, <1>4
    <2>4. rx.have \o SubSeq(it, off + 1, o) = have
      BY <1>4, <2>1
    <2>5. IF o < l THEN rx' = [rx EXCEPT !.have = have] /\ UNCHANGED <<at, got>>
                   ELSE LoaderDone(have)
      BY <1>8, <2>1, <2>2, <2>3, <2>4 DEF LoaderData
    <2>6. CASE o = l
      <3>1. have = it
        BY <1>2, <2>6, SubSeqFull
      <3>2. LoaderDone(have)
        BY <1>3, <2>5, <2>6
      <3>3. LoaderDone(Item)
        BY <3>1, <3>2
      <3>4. NextItem
        BY <2>6
      <3>5. QED
        BY <1>1, <1>8, <3>3, <3>4, DoneKeepsTalk
    <2>7. CASE o # l
      <3>1. rx' = [rx EXCEPT !.have = have] /\ UNCHANGED <<at, got>>
        BY <1>5, <2>5, <2>7
      <3>2. pc' = "send" /\ off' = o /\ UNCHANGED item
        BY <2>7
      <3>3. LoadedInv' /\ BeforeInv' /\ HandleInv' /\ ItemInv'
        BY <1>1, <1>6, TransferFacts
      <3>4. rx \in [want : Nat, have : Part, parts : Seq(Part)]
        BY DEF TalkInv, HeldInv
      <3>5. HeldInv' /\ GotInv' /\ ReasonInv'
        BY <2>3, <3>1, <3>2, <3>4 DEF TalkInv, HeldInv, GotInv, ReasonInv, Part
      <3>6. Item' = it /\ Current' = Current
        BY <3>2 DEF Item, Current
      <3>7. rx'.want = l /\ rx'.have = have /\ rx'.parts = SubSeq(Current, 1, item - 1)
        BY <2>1, <3>1, <3>4
      <3>8. SyncInv'
        BY <2>1, <3>1, <3>2, <3>6, <3>7 DEF SyncInv
      <3>9. QED
        BY <3>2, <3>3, <3>5, <3>8, RunningExact DEF TalkInv
    <2>8. QED
      BY <2>6, <2>7
  <1>9. QED
    BY <1>7, <1>8

\* A transfer fails: the session is closed.
LEMMA NotSentKeepsTalk ==
    ASSUME Inv, TalkInv, (job \in Jobs)', pc \in {"announce", "send"}, NotSent,
           UNCHANGED <<job, size, h, loaded, dev>>
    PROVE  TalkInv'
  <1>1. pc' = "close" /\ result' = "1" /\ UNCHANGED <<item, off, at, rx, got>>
    BY DEF NotSent
  <1>2. /\ cause \subseteq cause' /\ (h => "send" \in cause')
    BY DEF NotSent, HidFails, Fault, NoFault
  <1>3. /\ ~h => "unplug" \in cause
        /\ h => dev = "loader" \/ "mistaken" \in cause
    BY DEF TalkInv, HandleInv, Talking
  <1>4. HeldInv' /\ LoadedInv' /\ BeforeInv' /\ ItemInv'
    BY <1>1 DEF TalkInv, HeldInv, LoadedInv, Modules, BeforeInv, ItemInv, Talking
  <1>5. HandleInv' /\ GotInv'
    BY <1>1, <1>2, <1>3 DEF HandleInv, GotInv, TalkInv
  <1>6. SyncInv'
    BY <1>1, <1>2 DEF TalkInv, SyncInv
  <1>7. ReasonInv'
    <2>1. cause' \cap {"send", "unplug", "module"} # {}
      BY <1>2, <1>3
    <2>2. QED
      BY <1>1, <2>1 DEF ReasonInv
  <1>8. QED
    BY <1>1, <1>4, <1>5, <1>6, <1>7, RunningExact DEF TalkInv

\* Between two items the loader holds only the parts it has.
LEMMA BetweenItems ==
    ASSUME NEW p
    PROVE  [NoItem EXCEPT !.parts = p] = [want |-> 0, have |-> <<>>, parts |-> p]
  BY DEF NoItem

\* The close command, which a loader in the middle of a module takes for the
\* announcement of an empty item.
LEMMA CloseKeepsTalk ==
    ASSUME Inv, TalkInv, (job \in Jobs)', send_close_command
    PROVE  TalkInv'
  <1>1. /\ pc = "close" /\ pc' = "ended" /\ UNCHANGED <<job, size, result, loaded, dev>>
        /\ (HidOK /\ LoaderCommand(0)) \/ (HidFails("send") /\ UNCHANGED <<at, rx, got>>)
    BY DEF send_close_command, romvars
  <1>2. cause \subseteq cause'
    BY <1>1, FaultFacts
  <1>3. /\ got \in Seq(Seq(Part)) /\ loaded \in Seq(Seq(Part)) /\ Len(got) <= Len(loaded)
        /\ rx \in [want : Nat, have : Part, parts : Seq(Part)]
        /\ \A i \in 1 .. Len(got) : got[i] = loaded[i]
    BY <1>1 DEF TalkInv, HeldInv, LoadedInv, GotInv
  <1>4. Len(got) \in Nat /\ Len(loaded) \in Nat
    BY <1>3, LenProperties
  <1>5. LoadedInv' /\ BeforeInv' /\ HandleInv' /\ SyncInv' /\ GotInv' /\ ItemInv' /\ ReasonInv'
    <2>1. LoadedInv'
      BY <1>1 DEF TalkInv, LoadedInv, Modules
    <2>2. QED
      BY <1>1, <2>1 DEF BeforeInv, HandleInv, SyncInv, GotInv, ItemInv, ReasonInv, Talking
  <1>6. /\ ~h => "unplug" \in cause
        /\ h => dev = "loader" \/ "mistaken" \in cause
    BY <1>1 DEF TalkInv, HandleInv, Talking
  <1>7. /\ result = "0" /\ "mistaken" \notin cause => got = loaded /\ Len(loaded) = Len(Modules)
        /\ result = "1" => \/ cause \cap {"send", "unplug", "module"} # {}
                           \/ \E t \in {Modules[i] : i \in DOMAIN Modules} : size[t.file] < 0
    BY <1>1 DEF TalkInv, ReasonInv
  <1>8. Modules' = Modules
    BY <1>1 DEF Modules
  <1>9. result = "1" => \/ cause' \cap {"send", "unplug", "module"} # {}
                        \/ \E t \in {Modules[i] : i \in DOMAIN Modules} : size[t.file] < 0
    BY <1>2, <1>7
  <1>10. CASE UNCHANGED <<rx, got>> /\ (at' = "closed" \/ cause' \cap {"send", "unplug", "mistaken"} # {})
    <2>1. HeldInv' /\ GotExact'
      BY <1>1, <1>3, <1>10 DEF HeldInv, GotExact
    <2>2. Outcome'
      BY <1>1, <1>2, <1>7, <1>8, <1>9, <1>10 DEF Outcome
    <2>3. QED
      BY <1>5, <2>1, <2>2, ExactPartsNext DEF TalkInv
  <1>11. CASE /\ "send" \in cause /\ Len(got) + 1 = Len(loaded)
              /\ UNCHANGED rx \/ rx' = NoItem \/ rx' = [NoItem EXCEPT !.parts = Append(rx.parts, <<>>)]
              /\ got' = got \/ got' = Append(got, Append(rx.parts, <<>>))
    <2> PICK e, p : e = <<>> /\ p = Append(rx.parts, e)
      OBVIOUS
    <2>1. e \in Part /\ e \in Seq(Part) /\ rx.parts \in Seq(Part)
      BY <1>3 DEF Part
    <2>2. p \in Seq(Part)
      BY <2>1, Grown
    <2>3. rx' \in [want : Nat, have : Part, parts : Seq(Part)]
      <3>1. NoItem = [want |-> 0, have |-> e, parts |-> e]
        BY DEF NoItem
      <3>2. [NoItem EXCEPT !.parts = p] = [want |-> 0, have |-> e, parts |-> p]
        BY BetweenItems
      <3>3. /\ [want |-> 0, have |-> e, parts |-> e] \in [want : Nat, have : Part, parts : Seq(Part)]
            /\ [want |-> 0, have |-> e, parts |-> p] \in [want : Nat, have : Part, parts : Seq(Part)]
        BY <2>1, <2>2
      <3>4. UNCHANGED rx \/ rx' = NoItem \/ rx' = [NoItem EXCEPT !.parts = p]
        BY <1>11
      <3>5. QED
        BY <1>3, <3>1, <3>2, <3>3, <3>4
    <2>4. /\ got' \in Seq(Seq(Part)) /\ Len(got') <= Len(loaded)
          /\ \A i \in 1 .. Len(got') : got'[i] # loaded[i] => i = Len(loaded)
      <3>1. CASE got' = got
        BY <1>3, <3>1
      <3>2. CASE got' = Append(got, p)
        <4>1. Append(got, p) \in Seq(Seq(Part)) /\ Len(Append(got, p)) = Len(got) + 1
          BY <1>3, <2>2, Grown
        <4>2. \A i \in 1 .. Len(got) : Append(got, p)[i] = got[i]
          BY <1>3, <2>2, GrownKeeps
        <4>3. ASSUME NEW i \in 1 .. Len(got'), got'[i] # loaded[i] PROVE i = Len(loaded)
          <5>1. i \in 1 .. Len(loaded)
            BY <1>11, <3>2, <4>1, <4>3
          <5>2. i \in 1 .. Len(got) => got'[i] = loaded[i]
            BY <1>3, <3>2, <4>2
          <5>3. QED
            BY <1>4, <1>11, <4>3, <5>1, <5>2
        <4>4. QED
          BY <1>4, <1>11, <3>2, <4>1, <4>3
      <3>3. QED
        BY <1>11, <3>1, <3>2
    <2>5. HeldInv' /\ GotExact'
      BY <1>1, <1>2, <1>11, <2>3, <2>4 DEF HeldInv, GotExact
    <2>6. got # loaded
      BY <1>4, <1>11
    <2>7. Outcome'
      BY <1>1, <1>2, <1>7, <1>8, <1>9, <1>11, <2>6 DEF Outcome
    <2>8. QED
      BY <1>5, <2>5, <2>7, ExactPartsNext DEF TalkInv
  <1>12. CASE HidFails("send") /\ UNCHANGED <<at, rx, got>>
    <2>1. "send" \in cause' \/ ~h
      BY <1>12 DEF HidFails, Fault
    <2>2. QED
      BY <1>2, <1>6, <1>10, <1>12, <2>1
  <1>13. CASE HidOK /\ LoaderCommand(0)
    <2>1. h
      BY <1>13 DEF HidOK
    <2>2. CASE dev # "loader"
      BY <1>2, <1>6, <1>10, <1>13, <2>1, <2>2 DEF LoaderCommand
    <2>3. CASE dev = "loader"
      <3>1. \/ at = "name" /\ rx = NoItem /\ got = loaded
            \/ "send" \in cause /\ Len(got) + 1 = Len(loaded)
        BY <1>1, <2>1, <2>3 DEF TalkInv, SyncInv
      <3>2. CASE at = "name" /\ rx = NoItem /\ got = loaded
        <4>1. rx.want = 0
          BY <3>2 DEF NoItem
        <4>2. at' = "closed" /\ UNCHANGED <<rx, got>>
          BY <1>13, <2>3, <3>2, <4>1 DEF LoaderCommand
        <4>3. QED
          BY <1>10, <4>2
      <3>3. CASE "send" \in cause /\ Len(got) + 1 = Len(loaded)
        <4>1. UNCHANGED <<rx, got>> \/ LoaderDone(<<>>)
          BY <1>13, <2>3 DEF LoaderCommand
        <4>2. LoaderDone(<<>>) =>
                 /\ rx' = NoItem \/ rx' = [NoItem EXCEPT !.parts = Append(rx.parts, <<>>)]
                 /\ got' = got \/ got' = Append(got, Append(rx.parts, <<>>))
          BY DEF LoaderDone
        <4>3. QED
          BY <1>11, <3>3, <4>1, <4>2
      <3>4. QED
        BY <3>1, <3>2, <3>3
    <2>4. QED
      BY <2>2, <2>3
  <1>14. QED
    BY <1>1, <1>12, <1>13

\* The cable is pulled: the handle is lost, and the loader with all it holds.
LEMMA UnplugKeepsTalk ==
    ASSUME Inv, TalkInv, (job \in Jobs)', unplug
    PROVE  TalkInv'
  <1>1. /\ UNCHANGED <<job, size, pc, result, off, loaded, item, got>> /\ pc # "ended"
        /\ h' = FALSE /\ at' = "name" /\ rx' = NoItem /\ cause' = cause \cup {"unplug"}
    BY DEF unplug, Fault
  <1>2. HeldInv'
    <2> PICK e : e = <<>>
      OBVIOUS
    <2>1. e \in Part /\ e \in Seq(Part)
      BY DEF Part
    <2>2. [want |-> 0, have |-> e, parts |-> e] \in [want : Nat, have : Part, parts : Seq(Part)]
      BY <2>1
    <2>3. QED
      BY <1>1, <2>2 DEF TalkInv, HeldInv, NoItem
  <1>3. LoadedInv' /\ GotInv'
    BY <1>1 DEF TalkInv, LoadedInv, GotInv, Modules
  <1>4. BeforeInv' /\ HandleInv' /\ SyncInv'
    BY <1>1 DEF TalkInv, BeforeInv, HandleInv, SyncInv
  <1>5. ItemInv'
    BY <1>1 DEF TalkInv, ItemInv, Item
  <1>6. ReasonInv'
    BY <1>1 DEF TalkInv, ReasonInv, Modules
  <1>7. QED
    BY <1>1, <1>2, <1>3, <1>4, <1>5, <1>6, RunningExact DEF TalkInv

\* What the session depends on stays.
LEMMA UnseenKeepsTalk ==
    ASSUME TalkInv, Quiet, UNCHANGED <<size, pc, result, off, h, item, dev, cause>>
    PROVE  TalkInv'
  <1>1. Modules' = Modules
    BY DEF Quiet, Modules
  <1>2. HeldInv' /\ LoadedInv' /\ BeforeInv' /\ HandleInv' /\ GotInv'
    BY <1>1 DEF TalkInv, HeldInv, LoadedInv, BeforeInv, HandleInv, GotInv, Quiet
  <1>3. SyncInv' /\ ItemInv'
    BY <1>1 DEF TalkInv, SyncInv, ItemInv, Quiet, Item, Current
  <1>4. ReasonInv'
    BY <1>1 DEF TalkInv, ReasonInv, Quiet
  <1>5. ModulesExact'
    BY <1>1 DEF TalkInv, ModulesExact, Quiet
  <1>6. QED
    BY <1>2, <1>3, <1>4, <1>5 DEF TalkInv

\* A file is resized while the image is made.
LEMMA ResizeKeepsTalk ==
    ASSUME TalkInv, (job \in Jobs)', NEW f, NEW n, resize(f, n)
    PROVE  TalkInv'
  <1>1. Quiet /\ UNCHANGED <<pc, result>> /\ pc \in {"read", "next"}
    BY DEF resize, Quiet, ldrvars
  <1>2. QED
    BY <1>1, BeforeKeeps DEF Talking

\* The invariant holds when the program is started.
LEMMA InitTalk ==
    Init => TalkInv
  <1> SUFFICES ASSUME Init PROVE TalkInv
    OBVIOUS
  <1>1. /\ job \in Jobs /\ pc = "main" /\ result = "" /\ loaded = <<>> /\ got = <<>> /\ at = "name"
        /\ rx = NoItem
    BY DEF Init
  <1>2. HeldInv
    <2> PICK e : e = <<>>
      OBVIOUS
    <2>1. e \in Part /\ e \in Seq(Part) /\ e \in Seq(Seq(Part))
      BY DEF Part
    <2>2. [want |-> 0, have |-> e, parts |-> e] \in [want : Nat, have : Part, parts : Seq(Part)]
      BY <2>1
    <2>3. QED
      BY <1>1, <2>1, <2>2 DEF HeldInv, NoItem
  <1>3. loaded \in Seq(Seq(Part)) /\ Len(loaded) = 0 /\ Len(got) = 0
    <2>1. loaded \in Seq(Seq(Part))
      <3>1. loaded = <<>>
        BY <1>1
      <3>2. QED
        BY <3>1
    <2>2. Len(<<>>) = 0
      OBVIOUS
    <2>3. QED
      BY <1>1, <2>1, <2>2
  <1>4. Len(Modules) \in Nat
    BY <1>1, ProgramsType, LenProperties
  <1>5. LoadedInv /\ GotInv /\ GotExact
    BY <1>3, <1>4 DEF LoadedInv, GotInv, GotExact
  <1>6. BeforeInv /\ HandleInv /\ SyncInv /\ ItemInv /\ ReasonInv /\ Outcome
    BY <1>1 DEF BeforeInv, HandleInv, SyncInv, ItemInv, ReasonInv, Outcome, Talking
  <1>7. QED
    BY <1>1, <1>2, <1>5, <1>6, ExactParts DEF TalkInv

\* Every step keeps it.
LEMMA NextKeepsTalk ==
    Inv /\ Inv' /\ TalkInv /\ [Next]_vars => TalkInv'
  <1> SUFFICES ASSUME Inv, Inv', TalkInv, [Next]_vars PROVE TalkInv'
    OBVIOUS
  <1>0. (job \in Jobs)'
    BY DEF Inv, TypeInv
  <1>1. CASE \/ main \/ boot_image \/ read_turn \/ read_end \/ append_sysprogs \/ write_syspage
             \/ write_turn
    BY <1>0, <1>1, ImageKeepsTalk
  <1>2. CASE \/ usb_vybrid_dispatch \/ do_status \/ load_command \/ load_data \/ load_hab
             \/ load_complete \/ jmp_2_addr \/ jmp_hab \/ jmp_status
    BY <1>0, <1>2, UploadKeepsTalk
  <1>3. CASE open_device_with_vid_pid
    BY <1>0, <1>3, OpenKeepsTalk
  <1>4. CASE load_module
    BY <1>0, <1>4, LoadKeepsTalk
  <1>5. CASE send_module
    <2>1. pc = "announce" /\ UNCHANGED <<job, size, h, loaded, dev>>
      BY <1>5 DEF send_module, romvars
    <2>2. CASE /\ HidOK /\ LoaderCommand(Len(Item)) /\ UNCHANGED result
               /\ IF Item = <<>> THEN NextItem ELSE pc' = "send" /\ UNCHANGED <<item, off>>
      BY <1>0, <2>1, <2>2, SendKeepsTalk
    <2>3. CASE NotSent
      BY <1>0, <2>1, <2>3, NotSentKeepsTalk
    <2>4. QED
      BY <1>5, <2>2, <2>3 DEF send_module
  <1>6. CASE send_mod_contents
    <2>1. pc = "send" /\ UNCHANGED <<job, size, h, loaded, dev>>
      BY <1>6 DEF send_mod_contents, romvars
    <2> PICK n : n = MinOf(HidChunk, Len(Item) - off)
      OBVIOUS
    <2>2. CASE /\ HidOK /\ LoaderData(SubSeq(Item, off + 1, off + n)) /\ UNCHANGED result
               /\ IF off + n = Len(Item) THEN NextItem ELSE off' = off + n /\ UNCHANGED <<pc, item>>
      BY <1>0, <2>1, <2>2, ContentsKeepsTalk
    <2>3. CASE NotSent
      BY <1>0, <2>1, <2>3, NotSentKeepsTalk
    <2>4. QED
      BY <1>6, <2>2, <2>3 DEF send_mod_contents
  <1>7. CASE send_close_command
    BY <1>0, <1>7, CloseKeepsTalk
  <1>8. CASE unplug
    BY <1>0, <1>8, UnplugKeepsTalk
  <1>9. CASE appear \/ plug
    BY <1>9, UnseenKeepsTalk DEF appear, plug, Quiet, ldrvars
  <1>10. CASE \E f \in DOMAIN size, d \in {-1, 1} : resize(f, size[f] + d)
    <2>1. PICK f \in DOMAIN size, d \in {-1, 1} : resize(f, size[f] + d)
      BY <1>10
    <2>2. QED
      BY <1>0, <2>1, ResizeKeepsTalk
  <1>11. CASE UNCHANGED vars
    BY <1>11, UnseenKeepsTalk DEF vars, Quiet
  <1>12. QED
    BY <1>1, <1>2, <1>3, <1>4, <1>5, <1>6, <1>7, <1>8, <1>9, <1>10, <1>11 DEF Next, phoenixd

\* The loader gets the modules of the command line whole and in order, only the
\* last may be wrong and only after a transfer that failed, and phoenixd's exit
\* code tells what came of them.
THEOREM ModulesArriveExact ==
    Spec => []ModulesExact
  <1>1. Inv' /\ Inv /\ TalkInv /\ [Next]_vars => TalkInv'
    BY NextKeepsTalk
  <1>2. TalkInv => ModulesExact
    BY DEF TalkInv
  <1>3. Spec => []TalkInv
    BY <1>1, InitTalk, Invariance, PTL DEF Spec
  <1>4. QED
    BY <1>2, <1>3, PTL

-----------------------------------------------------------------------------
(* Induction: the running totals of count_sysprogs.                        *)

Below == {ss \in Nat \X Nat : ss[1] < ss[2]}

\* The order of the natural numbers is well-founded.
LEMMA BelowWellFounded ==
    IsWellFoundedOn(Below, Nat)
  BY NatLessThanWellFounded DEF OpToRel, Below

\* A set of numbers that is not empty has a least element.
LEMMA Least ==
    ASSUME NEW T \in SUBSET Nat, T # {}
    PROVE  \E x \in T : \A y \in T : x <= y
  <1> PICK R : R = Below
    OBVIOUS
  <1>1. IsWellFoundedOn(R, Nat)
    BY BelowWellFounded
  <1>2. R = {ss \in Nat \X Nat : ss[1] < ss[2]}
    BY DEF Below
  <1>3. \E x \in T : \A y \in T : ~(<<y, x>> \in R)
    BY <1>1, WFMin
  <1>4. PICK x \in T : \A y \in T : ~(<<y, x>> \in R)
    BY <1>3
  <1>5. ASSUME NEW y \in T PROVE x <= y
    <2>1. x \in Nat /\ y \in Nat
      OBVIOUS
    <2>2. y < x => <<y, x>> \in R
      BY <1>2, <2>1
    <2>3. ~(y < x)
      BY <1>4, <2>2
    <2>4. QED
      BY <2>1, <2>3
  <1>6. QED
    BY <1>5

\* s has the running totals of the n numbers w.
Sum(s, n, w) == /\ s \in [0 .. n -> Nat] /\ s[0] = 0
                /\ \A k \in 1 .. n : s[k] = s[k - 1] + w[k]

\* Running totals exist.
LEMMA SumExists ==
    ASSUME NEW N \in Nat, NEW w, \A k \in 1 .. N : w[k] \in Nat
    PROVE  \E s : Sum(s, N, w)
  <1> SUFFICES ASSUME ~\E s : Sum(s, N, w) PROVE FALSE
    OBVIOUS
  <1> PICK T : T = {n \in Nat : n <= N /\ ~\E s : Sum(s, n, w)}
    OBVIOUS
  <1>1. N \in T
    OBVIOUS
  <1>2. PICK n \in T : \A y \in T : n <= y
    BY <1>1, Least
  <1>3. n \in Nat /\ n <= N /\ ~\E s : Sum(s, n, w)
    BY <1>2
  <1>4. n # 0
    <2> PICK z : z = [k \in 0 .. 0 |-> 0]
      OBVIOUS
    <2>1. Sum(z, 0, w)
      BY DEF Sum
    <2>2. QED
      BY <1>3, <2>1
  <1>5. n - 1 \in Nat /\ n - 1 \notin T /\ n - 1 <= N
    BY <1>2, <1>3, <1>4
  <1>6. PICK s : Sum(s, n - 1, w)
    BY <1>5
  <1> PICK z : z = [k \in 0 .. n |-> IF k = n THEN s[n - 1] + w[n] ELSE s[k]]
    OBVIOUS
  <1>7. s[n - 1] \in Nat /\ w[n] \in Nat
    BY <1>3, <1>4, <1>5, <1>6 DEF Sum
  <1>8. z \in [0 .. n -> Nat]
    BY <1>3, <1>4, <1>6, <1>7 DEF Sum
  <1>9. z[0] = 0
    BY <1>3, <1>4, <1>6 DEF Sum
  <1>10. ASSUME NEW k \in 1 .. n PROVE z[k] = z[k - 1] + w[k]
    <2>1. CASE k = n
      BY <1>3, <1>4, <2>1
    <2>2. CASE k # n
      BY <1>3, <1>4, <1>6, <2>2 DEF Sum
    <2>3. QED
      BY <2>1, <2>2
  <1>11. Sum(z, n, w)
    BY <1>8, <1>9, <1>10 DEF Sum
  <1>12. QED
    BY <1>3, <1>11

\* Whatever adds up like this has natural numbers only.
LEMMA SumIs ==
    ASSUME NEW N \in Nat, NEW w, \A k \in 1 .. N : w[k] \in Nat, NEW c, DOMAIN c = 0 .. N,
           c = [k \in 0 .. N |-> c[k]], c[0] = 0, \A k \in 1 .. N : c[k] = c[k - 1] + w[k]
    PROVE  Sum(c, N, w)
  <1> PICK T : T = {n \in Nat : n <= N /\ c[n] \notin Nat}
    OBVIOUS
  <1>1. CASE T # {}
    <2>1. PICK n \in T : \A y \in T : n <= y
      BY <1>1, Least
    <2>2. n \in 1 .. N /\ c[n] \notin Nat
      BY <2>1
    <2>3. n - 1 \in Nat /\ n - 1 \notin T
      BY <2>1, <2>2
    <2>a. PICK m, x, y : m = n - 1 /\ x = c[n - 1] /\ y = w[n]
      OBVIOUS
    <2>4. m \in Nat /\ m <= N /\ m \notin T /\ x = c[m]
      BY <2>2, <2>3, <2>a
    <2>5. x \in Nat
      BY <2>4
    <2>6. y \in Nat /\ c[n] = x + y
      BY <2>2, <2>a
    <2>7. QED
      BY <2>2, <2>5, <2>6
  <1>2. CASE T = {}
    <2>1. ASSUME NEW k \in 0 .. N PROVE c[k] \in Nat
      <3>1. k \notin T
        BY <1>2
      <3>2. k \in Nat /\ k <= N
        OBVIOUS
      <3>3. QED
        BY <3>1, <3>2
    <2>2. QED
      BY <2>1 DEF Sum
  <1>3. QED
    BY <1>1, <1>2

\* They grow.
LEMMA SumGrows ==
    ASSUME NEW N \in Nat, NEW w, \A k \in 1 .. N : w[k] \in Nat, NEW s, Sum(s, N, w),
           NEW a \in 0 .. N
    PROVE  s[a] <= s[N]
  <1> PICK T : T = {n \in Nat : n <= N - a /\ s[a + n] < s[a]}
    OBVIOUS
  <1>1. CASE T # {}
    <2>1. PICK n \in T : \A y \in T : n <= y
      BY <1>1, Least
    <2>2. n \in Nat /\ n <= N - a /\ s[a + n] < s[a]
      BY <2>1
    <2>3. n # 0
      BY <2>2 DEF Sum
    <2>4. n - 1 \notin T
      BY <2>1, <2>2, <2>3
    <2>5. ~(s[a + (n - 1)] < s[a])
      BY <2>2, <2>3, <2>4
    <2>6. a + n \in 1 .. N /\ (a + n) - 1 = a + (n - 1) /\ a + (n - 1) \in 0 .. N
      BY <2>2, <2>3
    <2>7. s[a + n] = s[a + (n - 1)] + w[a + n] /\ w[a + n] \in Nat
      BY <2>6 DEF Sum
    <2>8. s[a] \in Nat /\ s[a + (n - 1)] \in Nat
      BY <2>6 DEF Sum
    <2>9. QED
      BY <2>2, <2>5, <2>7, <2>8
  <1>2. CASE T = {}
    <2> PICK m : m = N - a
      OBVIOUS
    <2>1. m \in Nat /\ m <= N - a /\ a + m = N
      OBVIOUS
    <2>2. ~(s[N] < s[a])
      BY <1>2, <2>1
    <2>3. s[a] \in Nat /\ s[N] \in Nat
      BY DEF Sum
    <2>4. QED
      BY <2>2, <2>3
  <1>3. QED
    BY <1>1, <1>2

-----------------------------------------------------------------------------
(* The image and its syspage.                                              *)

\* What a program adds to the size of the image, and where the image should end
\* behind the first k of them.
Weight(k) == IF Opens(Programs[k]) THEN size[Programs[k].file] ELSE 0
Total(k)  == size[job.kernel] + Counted({})[k]

\* The first n cells of the file f lie behind the first a of im.
Holds(im, a, f, n) == a + n <= Len(im) /\ \A j \in 1 .. n : im[a + j] = <<f, j>>

\* The entry of a program: its extent is behind the kernel and the programs before it.
ProgInv(i) ==
    /\ kernelsize <= progs[i].start /\ progs[i].start <= Len(image) /\ progs[i].end <= Len(image)
    /\ \A k \in 1 .. i - 1 : progs[k].end <= progs[i].start
    /\ progs[i].end # Unset =>
          /\ size[Programs[i].file] \in Nat
          /\ progs[i].end = progs[i].start + size[Programs[i].file]
          /\ Holds(image, progs[i].start, Programs[i].file, size[Programs[i].file])
    /\ ~(rd.i = i /\ pc = "read") /\ progs[i].end = Unset => ~Opens(Programs[i]) \/ "open" \in cause

\* The kernel is being read, or it lies whole at the beginning.
KernelInv ==
    IF pc = "read" /\ rd.i = 0
    THEN kernelsize = 0 /\ Len(image) = rd.pos /\ Holds(image, 0, job.kernel, rd.pos)
    ELSE kernelsize = size[job.kernel] /\ Holds(image, 0, job.kernel, size[job.kernel])

\* The file that is being read is at the end of the image.
ReadingInv ==
    pc = "read" =>
        /\ rd.pos <= size[Reading]
        /\ rd.i > 0 => /\ Opens(Programs[rd.i]) /\ progs[rd.i].end = Unset
                       /\ Len(image) = progs[rd.i].start + rd.pos
                       /\ Holds(image, progs[rd.i].start, Reading, rd.pos)

\* The image is as long as what was counted, less what did not open any more.
Ends(i) == IF pc # "read" THEN Total(i) ELSE IF i = 0 THEN rd.pos ELSE Total(i - 1) + rd.pos
LengthInv ==
    /\ cap = Total(Len(Programs)) /\ Len(image) <= Ends(rd.i)
    /\ "open" \notin cause => Len(image) = Ends(rd.i)

\* Nothing was read yet.
Unmade == /\ image = <<>> /\ progs = <<>> /\ kernelsize = 0 /\ cap = 0 /\ rd.i = 0 /\ rd.pos = 0
          /\ pc \notin {"read", "next", "write"}

Made == /\ pc \notin {"main", "open"} /\ size[job.kernel] \in Nat
        /\ KernelInv /\ ReadingInv /\ LengthInv
        /\ \A i \in 1 .. Len(progs) : ProgInv(i)

Entry == [start : Nat, end : Int]

ImageInv ==
    Undisturbed => /\ rd.low = 0 /\ progs \in Seq(Entry) /\ Len(progs) = rd.i
                   /\ Unmade \/ Made

\* The output file is the buffer up to where it has been written.
Held == {Buffer(i) : i \in Int}
Piece(S, s, im, l, n) == s \in Seq(S) /\ Len(s) = n /\ \A i \in 1 .. n : s[i] = im[l + i]
Copied(S, F, im, c, left) == left \in 0 .. c /\ Piece(S, F, im, 0, c - left)

\* No write failed or was cut short a second time, and every file was opened.
Writes == cause \cap {"write", "short_again", "open"} = {}

\* What -o has written, while write() is cut short at most once.
OutInv ==
    /\ out = [file |-> out.file, left |-> out.left, last |-> out.last]
    /\ job.via = "output" => pc \in Early \cup {"ended"}
    /\ pc \notin {"write", "ended", "spin"} => out.file = <<>> /\ out.last = 0
    /\ Undisturbed /\ Writes
          /\ (pc = "write" \/ (pc = "ended" /\ job.via = "output" /\ result = "0")) =>
          /\ cap \in Nat /\ Len(image) = cap
          /\ Copied(Held, out.file, Contents(cap), cap, out.left)
          /\ out.left > 0 => out.last = cap - out.left
          /\ "short" \notin cause => out.left \in {0, cap}
          /\ pc = "ended" => out.left = 0

\* Nothing is stored before the kernel and the programs have been read, and the
\* kernel is not too short for the syspage.
Making == {"main", "open", "read", "next"}
StoreInv ==
    /\ pc \in Making => DOMAIN over = {}
    /\ pc \in {"main", "open"} => rd.i = 0
    /\ DOMAIN over \subseteq Sizes \cup SyspageField
    /\ pc = "next" \/ (pc = "read" /\ rd.i # 0) \/ DOMAIN over # {} => kernelsize >= MinKernel

\* What a concatenation holds.
LEMMA JoinedIn ==
    ASSUME NEW S, NEW im \in Seq(S), NEW s \in Seq(S)
    PROVE  /\ Len(im) \in Nat /\ Len(s) \in Nat /\ Len(im \o s) = Len(im) + Len(s)
           /\ im \o s \in Seq(S)
           /\ \A i \in 1 .. Len(im) : (im \o s)[i] = im[i]
           /\ \A i \in 1 .. Len(s) : (im \o s)[Len(im) + i] = s[i]
  BY ConcatProperties, LenProperties
LEMMA Joined ==
    ASSUME NEW im \in Seq(Cell), NEW s \in Seq(Cell)
    PROVE  /\ Len(im) \in Nat /\ Len(s) \in Nat /\ Len(im \o s) = Len(im) + Len(s)
           /\ im \o s \in Seq(Cell)
           /\ \A i \in 1 .. Len(im) : (im \o s)[i] = im[i]
           /\ \A i \in 1 .. Len(s) : (im \o s)[Len(im) + i] = s[i]
  BY JoinedIn

\* A cell of the file.
LEMMA HoldsAt ==
    ASSUME NEW im \in Seq(Cell), NEW a \in Nat, NEW n \in Nat, NEW f, Holds(im, a, f, n),
           NEW j \in 1 .. n
    PROVE  a + j \in 1 .. Len(im) /\ im[a + j] = <<f, j>>
  <1>1. Len(im) \in Nat /\ a + n <= Len(im) /\ im[a + j] = <<f, j>>
    BY LenProperties DEF Holds
  <1>2. QED
    BY <1>1

\* Cells stay where they are when something is appended.
LEMMA HoldsKept ==
    ASSUME NEW im \in Seq(Cell), NEW s \in Seq(Cell), NEW a \in Nat, NEW f, NEW n \in Nat,
           Holds(im, a, f, n)
    PROVE  Holds(im \o s, a, f, n)
  <1>1. a + n <= Len(im)
    BY DEF Holds
  <1>2. Len(im) \in Nat /\ Len(s) \in Nat /\ Len(im \o s) = Len(im) + Len(s)
    BY Joined
  <1>3. a + n <= Len(im \o s)
    BY <1>1, <1>2
  <1>4. ASSUME NEW j \in 1 .. n PROVE (im \o s)[a + j] = <<f, j>>
    BY HoldsAt, Joined
  <1>5. QED
    BY <1>3, <1>4 DEF Holds

\* s has the n cells of the file f behind the first p.
Reads(s, f, p, n) == Len(s) = n /\ \A i \in 1 .. n : s[i] = <<f, p + i>>

\* The file at the end of im, and the next cells of it.
Follows(im, s, f, a, p, n) ==
    /\ im \in Seq(Cell) /\ s \in Seq(Cell) /\ a \in Nat /\ p \in Nat /\ n \in Nat
    /\ Len(im) = a + p /\ Holds(im, a, f, p) /\ Reads(s, f, p, n)

\* The next cells of the file are appended.
LEMMA HoldsFollows ==
    ASSUME NEW im, NEW s, NEW f, NEW a, NEW p, NEW n, Follows(im, s, f, a, p, n)
    PROVE  Holds(im \o s, a, f, p + n) /\ Len(im \o s) = a + (p + n)
  <1> SUFFICES ASSUME im \in Seq(Cell), s \in Seq(Cell), a \in Nat, p \in Nat, n \in Nat,
                      Len(im) = a + p, Holds(im, a, f, p), Reads(s, f, p, n)
               PROVE  Holds(im \o s, a, f, p + n) /\ Len(im \o s) = a + (p + n)
    BY DEF Follows
  <1>0. Len(s) = n /\ \A i \in 1 .. n : s[i] = <<f, p + i>>
    BY DEF Reads
  <1>1. Len(im \o s) = a + (p + n)
    <2>1. Len(im \o s) = Len(im) + Len(s)
      BY Joined
    <2>2. QED
      BY <1>0, <2>1
  <1>2. ASSUME NEW j \in 1 .. p + n PROVE (im \o s)[a + j] = <<f, j>>
    <2>1. CASE j <= p
      <3>1. j \in 1 .. p
        BY <2>1
      <3>2. a + j \in 1 .. Len(im) /\ im[a + j] = <<f, j>>
        BY <3>1 DEF Holds
      <3>3. (im \o s)[a + j] = im[a + j]
        BY <3>2, Joined
      <3>4. QED
        BY <3>2, <3>3
    <2>2. CASE j > p
      <3> PICK i : i = j - p
        OBVIOUS
      <3>1. i \in 1 .. n /\ a + j = Len(im) + i /\ p + i = j
        BY <2>2
      <3>2. (im \o s)[Len(im) + i] = s[i]
        BY <1>0, <3>1, Joined
      <3>3. s[i] = <<f, p + i>>
        BY <1>0, <3>1
      <3>4. QED
        BY <3>1, <3>2, <3>3
    <2>3. j <= p \/ j > p
      OBVIOUS
    <2>4. QED
      BY <2>1, <2>2, <2>3
  <1>3. a + (p + n) <= Len(im \o s)
    BY <1>1
  <1>4. QED
    BY <1>1, <1>2, <1>3 DEF Holds

\* What a read brings.
LEMMA ReadIs ==
    ASSUME NEW f \in Names, NEW p \in Nat, NEW n \in Nat
    PROVE  \E s \in Seq(Cell) : s = [i \in 1 .. n |-> <<f, p + i>>] /\ Reads(s, f, p, n)
  <1> PICK s : s = [i \in 1 .. n |-> <<f, p + i>>]
    OBVIOUS
  <1>1. s \in Seq(Cell)
    <2>1. p \in Int
      OBVIOUS
    <2>2. QED
      BY <2>1, ReadCells
  <1>2. DOMAIN s = 1 .. n /\ \A i \in 1 .. n : s[i] = <<f, p + i>>
    OBVIOUS
  <1>3. Len(s) = n
    BY <1>1, <1>2, LenProperties
  <1>4. QED
    BY <1>1, <1>2, <1>3 DEF Reads

\* As ImageFaithful says it.
LEMMA HoldsCells ==
    ASSUME NEW im \in Seq(Cell), NEW a \in Nat, NEW n \in Nat, NEW f, Holds(im, a, f, n)
    PROVE  SubSeq(im, a + 1, a + n) = Cells(f, n)
  <1> PICK b, c : b = a + 1 /\ c = a + n
    OBVIOUS
  <1> PICK q : q = SubSeq(im, b, c)
    OBVIOUS
  <1>1. Len(im) \in Nat /\ c <= Len(im) /\ b \in 1 .. Len(im) + 1 /\ c \in b - 1 .. Len(im)
    BY LenProperties DEF Holds
  <1>2. /\ q \in Seq(Cell) /\ Len(q) = c - b + 1
        /\ \A j \in 1 .. (c - b + 1) : q[j] = im[b + j - 1]
    BY <1>1, SubSeqProperties
  <1>3. c - b + 1 = n
    OBVIOUS
  <1>4. DOMAIN q = 1 .. n
    BY <1>2, <1>3
  <1>5. ASSUME NEW j \in 1 .. n PROVE q[j] = <<f, j>>
    <2>1. q[j] = im[b + j - 1] /\ b + j - 1 = a + j
      BY <1>2, <1>3
    <2>2. QED
      BY <2>1, HoldsAt
  <1>6. q = [j \in 1 .. n |-> <<f, j>>]
    <2>1. q \in [1 .. n -> Cell]
      BY <1>2, <1>3, LenProperties
    <2>2. QED
      BY <1>5, <2>1
  <1>7. QED
    BY <1>6 DEF Cells

\* A program has a size if it can be opened.
LEMMA WeightFacts ==
    ASSUME Inv, NEW k \in 1 .. Len(Programs)
    PROVE  Weight(k) \in Nat /\ Programs[k].file \in Names /\ size[Programs[k].file] \in Int
  <1> PICK P : P = Programs
    OBVIOUS
  <1>1. P \in Seq(Token(job))
    BY ProgramsType DEF Inv, TypeInv
  <1>2. P[k] \in Token(job)
    BY <1>1, ElementOfSeq
  <1>3. P[k].file \in DOMAIN job.size /\ DOMAIN job.size \subseteq Names
    BY <1>2, JobFacts DEF Token, Inv, TypeInv
  <1>4. size[P[k].file] \in Int
    BY <1>3 DEF Inv, ReadInv
  <1>5. QED
    BY <1>3, <1>4 DEF Weight, Opens

\* What count_sysprogs computes.
LEMMA CountedFacts ==
    ASSUME Inv
    PROVE  Sum(Counted({}), Len(Programs), [k \in 1 .. Len(Programs) |-> Weight(k)])
  <1> PICK n, w : n = Len(Programs) /\ w = [k \in 1 .. Len(Programs) |-> Weight(k)]
    OBVIOUS
  <1>1. n \in Nat
    BY ProgramsType, LenProperties DEF Inv, TypeInv
  <1>2. \A k \in 1 .. n : w[k] \in Nat
    BY WeightFacts
  <1>3. PICK s : Sum(s, n, w)
    BY <1>1, <1>2, SumExists
  <1>4. s = [k \in 0 .. n |->
                IF k = 0 THEN 0
                ELSE s[k - 1] + IF k \in {} \/ ~Opens(Programs[k]) THEN 0
                                ELSE size[Programs[k].file]]
    <2>1. ASSUME NEW k \in 0 .. n
          PROVE  s[k] = IF k = 0 THEN 0
                        ELSE s[k - 1] + IF k \in {} \/ ~Opens(Programs[k]) THEN 0
                                        ELSE size[Programs[k].file]
      BY <1>1, <1>3 DEF Sum, Weight
    <2>2. QED
      BY <1>3, <2>1 DEF Sum
  <1> PICK c : c = Counted({})
    OBVIOUS
  <1>5. c = [k \in 0 .. n |->
                IF k = 0 THEN 0
                ELSE c[k - 1] + IF k \in {} \/ ~Opens(Programs[k]) THEN 0
                                ELSE size[Programs[k].file]]
    BY <1>4 DEF Counted
  <1>6. c[0] = 0 /\ DOMAIN c = 0 .. n /\ c = [k \in 0 .. n |-> c[k]]
    BY <1>1, <1>5
  <1>7. \A k \in 1 .. n : c[k] = c[k - 1] + w[k]
    BY <1>1, <1>5 DEF Weight
  <1>8. QED
    BY <1>1, <1>2, <1>5, <1>6, <1>7, SumIs

\* Sums that begin somewhere else.
LEMMA Shifted ==
    ASSUME NEW b \in Nat, NEW x \in Nat, NEW y \in Nat, NEW z \in Nat, x + y <= z
    PROVE  /\ b + x \in Nat /\ b + (x + y) = (b + x) + y /\ b + (x + y) <= b + z /\ b + z \in Nat
  OBVIOUS

\* What is read fits where its file does.
LEMMA RoomFor ==
    ASSUME NEW l \in Nat, NEW n \in Nat, NEW p \in Nat, NEW t \in Nat, NEW w \in Int, NEW c \in Nat,
           l <= t + p, p + n <= w, t + w <= c
    PROVE  l + n <= c
  OBVIOUS

\* Where the image ends behind each of the programs.
LEMMA TotalFacts ==
    ASSUME Inv, size[job.kernel] \in Nat, NEW k \in 1 .. Len(Programs)
    PROVE  /\ Total(k - 1) \in Nat /\ Total(k) = Total(k - 1) + Weight(k)
           /\ Total(k) <= Total(Len(Programs)) /\ Total(Len(Programs)) \in Nat
  <1>b. PICK n, w, s : /\ n = Len(Programs) /\ w = [j \in 1 .. Len(Programs) |-> Weight(j)]
                     /\ s = Counted({})
    OBVIOUS
  <1>1. n \in Nat /\ Sum(s, n, w)
    BY <1>b, CountedFacts, ProgramsType, LenProperties DEF Inv, TypeInv
  <1>2. \A j \in 1 .. n : w[j] \in Nat
    BY <1>b, WeightFacts
  <1>3. k \in 0 .. n /\ k - 1 \in 0 .. n /\ n \in 0 .. n /\ k \in 1 .. n
    BY <1>1, <1>b
  <1>4. s[k] <= s[n]
    BY <1>1, <1>2, <1>3, SumGrows
  <1>5. s[k - 1] \in Nat /\ s[n] \in Nat /\ s[k] = s[k - 1] + w[k] /\ w[k] = Weight(k)
    BY <1>1, <1>3, <1>b DEF Sum
  <1>6. w[k] \in Nat
    BY <1>2, <1>3
  <1>c. PICK b : b = size[job.kernel]
    OBVIOUS
  <1>7. /\ Total(k - 1) = b + s[k - 1] /\ Total(k) = b + s[k] /\ Total(Len(Programs)) = b + s[n]
        /\ b \in Nat
    BY <1>b, <1>c DEF Total
  <1>8. s[k - 1] + w[k] <= s[n]
    BY <1>4, <1>5
  <1>a. PICK x, y, z : x = s[k - 1] /\ y = w[k] /\ z = s[n]
    OBVIOUS
  <1>9. x \in Nat /\ y \in Nat /\ z \in Nat /\ x + y <= z
    BY <1>a, <1>5, <1>6, <1>8
  <1>10. b + x \in Nat /\ b + (x + y) = (b + x) + y /\ b + (x + y) <= b + z /\ b + z \in Nat
    BY <1>7, <1>9, Shifted
  <1>11. Total(k - 1) = b + x /\ Total(k) = b + (x + y) /\ Total(Len(Programs)) = b + z /\ y = Weight(k)
    BY <1>a, <1>5, <1>7
  <1>12. QED
    BY <1>10, <1>11

\* The kernel alone.
LEMMA TotalFirst ==
    ASSUME Inv, size[job.kernel] \in Nat
    PROVE  /\ Total(0) = size[job.kernel] /\ Total(0) <= Total(Len(Programs))
           /\ Total(Len(Programs)) \in Nat
  <1> PICK n, w, s : /\ n = Len(Programs) /\ w = [j \in 1 .. Len(Programs) |-> Weight(j)]
                     /\ s = Counted({})
    OBVIOUS
  <1>1. n \in Nat /\ Sum(s, n, w)
    BY CountedFacts, ProgramsType, LenProperties DEF Inv, TypeInv
  <1>2. \A j \in 1 .. n : w[j] \in Nat
    BY WeightFacts
  <1>3. 0 \in 0 .. n /\ n \in 0 .. n
    BY <1>1
  <1>4. s[0] <= s[n]
    BY <1>1, <1>2, <1>3, SumGrows
  <1>5. s[0] = 0 /\ s[n] \in Nat
    BY <1>1, <1>3 DEF Sum
  <1>6. QED
    BY <1>4, <1>5 DEF Total

\* The files are the same.
LEMMA TotalKept ==
    ASSUME UNCHANGED <<job, size>>, NEW k
    PROVE  /\ Programs' = Programs /\ Total(k)' = Total(k) /\ Weight(k)' = Weight(k)
           /\ Opens(Programs[k])' = Opens(Programs[k])
  BY DEF Programs, Total, Weight, Counted, Opens

\* Steps that leave the image alone.
Still == UNCHANGED <<job, size, cap, image, rd, progs, kernelsize>> /\ cause \subseteq cause'

\* An entry of the syspage does not change with them.
LEMMA StillKeepsProg ==
    ASSUME Still, NEW i, ProgInv(i), (rd.i = i /\ pc' = "read") \/ pc # "read" \/ rd.i # i
    PROVE  ProgInv(i)'
  BY DEF Still, ProgInv, Programs, Opens

\* They keep the invariant of the image.
LEMMA StillKeepsImage ==
    ASSUME ImageInv, Still, (pc' = "read") <=> (pc = "read"),
           pc' \in {"next", "write"} => pc \in {"next", "write"},
           pc' \in {"main", "open"} => pc \in {"main", "open"}
    PROVE  ImageInv'
  <1> SUFFICES ASSUME Undisturbed'
               PROVE  (rd.low = 0 /\ progs \in Seq(Entry) /\ Len(progs) = rd.i /\ (Unmade \/ Made))'
    BY DEF ImageInv
  <1>1. UNCHANGED <<job, size, cap, image, rd, progs, kernelsize>> /\ cause \subseteq cause'
    BY DEF Still
  <1>2. Undisturbed
    BY <1>1 DEF Undisturbed
  <1>3. rd.low = 0 /\ progs \in Seq(Entry) /\ Len(progs) = rd.i /\ (Unmade \/ Made)
    BY <1>2 DEF ImageInv
  <1>4. CASE Unmade
    BY <1>1, <1>3, <1>4 DEF Unmade
  <1>5. CASE Made
    <2>1. pc' \notin {"main", "open"} /\ (size[job.kernel] \in Nat)'
      BY <1>1, <1>5 DEF Made
    <2>2. KernelInv'
      BY <1>1, <1>5 DEF Made, KernelInv
    <2>3. ReadingInv'
      BY <1>1, <1>5 DEF Made, ReadingInv, Reading, Programs, Opens
    <2>4. Programs' = Programs /\ \A i : Total(i)' = Total(i)
      BY <1>1, TotalKept
    <2>5. LengthInv'
      BY <1>1, <1>5, <2>4 DEF Made, LengthInv, Ends
    <2>6. ASSUME NEW i \in 1 .. Len(progs) PROVE ProgInv(i)'
      BY <1>5, StillKeepsProg DEF Made
    <2>7. QED
      BY <1>1, <1>3, <2>1, <2>2, <2>3, <2>5, <2>6 DEF Made
  <1>6. QED
    BY <1>3, <1>4, <1>5

\* The kernel was opened, and everything was counted.
LEMMA BootKeepsImage ==
    ASSUME Inv, ImageInv, boot_image
    PROVE  ImageInv'
  <1>1. /\ pc = "open" /\ UNCHANGED <<job, size, image, rd, progs, kernelsize>>
        /\ cause \subseteq cause'
    BY DEF boot_image, NoFault, Fault
  <1>2. CASE pc' = "ended" /\ UNCHANGED cap
    BY <1>1, <1>2, StillKeepsImage DEF Still
  <1>3. CASE "count" \in cause'
    BY <1>3 DEF ImageInv, Undisturbed
  <1>4. CASE /\ size[job.kernel] >= 0 /\ cap' = size[job.kernel] + count_sysprogs({})
             /\ pc' = "read"
    <2> SUFFICES ASSUME Undisturbed'
                 PROVE  (rd.low = 0 /\ progs \in Seq(Entry) /\ Len(progs) = rd.i /\ Made)'
      BY DEF ImageInv
    <2>1. Undisturbed
      BY <1>1 DEF Undisturbed
    <2>2. rd.low = 0 /\ progs \in Seq(Entry) /\ Len(progs) = rd.i /\ Unmade
      BY <1>1, <2>1 DEF ImageInv, Made
    <2>3. job.kernel \in DOMAIN size /\ size[job.kernel] \in Nat
      BY <1>4, JobFacts DEF Inv, TypeInv, ReadInv
    <2>4. Len(image) = 0 /\ Len(progs) = 0
      BY <2>2 DEF Unmade
    <2>5. KernelInv'
      BY <1>1, <1>4, <2>2, <2>4 DEF KernelInv, Unmade, Holds
    <2>6. ReadingInv'
      BY <1>1, <1>4, <2>2, <2>3 DEF ReadingInv, Unmade, Reading
    <2>7. LengthInv'
      <3>1. Programs' = Programs /\ Total(Len(Programs))' = Total(Len(Programs))
        BY <1>1, TotalKept
      <3>2. cap' = Total(Len(Programs))
        BY <1>4 DEF Total, count_sysprogs
      <3>3. Ends(rd.i)' = 0
        BY <1>1, <1>4, <2>2 DEF Ends, Unmade
      <3>4. QED
        BY <1>1, <2>4, <3>1, <3>2, <3>3 DEF LengthInv
    <2>8. QED
      BY <1>1, <1>4, <2>2, <2>3, <2>4, <2>5, <2>6, <2>7 DEF Made
  <1>5. QED
    BY <1>2, <1>3, <1>4 DEF boot_image, Exit, NoFault, Fault

\* One turn of the reading loop in a run that nothing disturbs.
LEMMA ReadTurnFacts ==
    ASSUME Inv, ImageInv, read_turn, Undisturbed'
    PROVE  /\ pc = "read" /\ pc' = "read" /\ cause' = cause /\ Undisturbed /\ Made
           /\ UNCHANGED <<job, size, cap, progs, kernelsize>>
           /\ \E n \in Nat :
                 /\ rd.pos + n <= size[Reading] /\ rd'.i = rd.i /\ rd'.low = 0 /\ rd'.pos = rd.pos + n
                 /\ image' = image \o [i \in 1 .. n |-> <<Reading, rd.pos + i>>]
  <1>1. pc = "read" /\ rd.pos < size[Reading] /\ UNCHANGED <<job, size, cap, progs, kernelsize>>
    BY DEF read_turn
  <1>2. cause \subseteq cause'
    BY DEF read_turn, Fault
  <1>3. Undisturbed /\ "read" \notin cause'
    BY <1>2 DEF Undisturbed
  <1>4. rd.low = 0 /\ Made /\ Len(progs) = rd.i
    BY <1>1, <1>3 DEF ImageInv, Unmade
  <1>5. /\ size[Reading] \in Int /\ rd.i \in Nat /\ rd.pos \in Nat /\ rd.low \in Nat
        /\ rd \in [i : Nat, pos : Nat, low : Nat] /\ rd.i <= Len(Programs)
    BY ReadingFacts DEF Inv, ReadInv
  <1> PICK n, under : n = MinOf(RdChunk, size[Reading] - rd.pos) /\ under = MinOf(rd.low, n)
    OBVIOUS
  <1>6. n \in Nat /\ under = 0 /\ rd.pos + n <= size[Reading]
    BY <1>1, <1>4, <1>5, ConstantFacts DEF MinOf
  <1>7. size[job.kernel] \in Nat /\ cap = Total(Len(Programs)) /\ Len(image) <= Ends(rd.i)
    BY <1>4 DEF Made, LengthInv
  <1>8. Len(image) \in Nat
    BY LenProperties DEF Inv, TypeInv
  <1>9. Len(image) + n <= cap
    <2>1. CASE rd.i = 0
      <3>1. Ends(rd.i) = rd.pos /\ Reading = job.kernel
        BY <1>1, <2>1 DEF Ends, Reading
      <3>2. size[job.kernel] <= cap /\ cap \in Nat
        BY <1>7, TotalFirst
      <3>3. QED
        BY <1>5, <1>6, <1>7, <1>8, <3>1, <3>2
    <2>2. CASE rd.i # 0
      <3>1. rd.i \in 1 .. Len(Programs)
        BY <1>5, <2>2
      <3>2. Ends(rd.i) = Total(rd.i - 1) + rd.pos /\ Reading = Programs[rd.i].file
        BY <1>1, <2>2 DEF Ends, Reading
      <3>3. Opens(Programs[rd.i])
        BY <1>1, <1>4, <1>5, <2>2 DEF Made, ReadingInv
      <3>4. Weight(rd.i) = size[Reading]
        BY <3>2, <3>3 DEF Weight
      <3>5. /\ Total(rd.i - 1) \in Nat /\ Total(rd.i) = Total(rd.i - 1) + Weight(rd.i)
            /\ Total(rd.i) <= Total(Len(Programs)) /\ Total(Len(Programs)) \in Nat
        BY <1>7, <3>1, TotalFacts
      <3> PICK t : t = Total(rd.i - 1)
        OBVIOUS
      <3>6. t \in Nat /\ cap \in Nat /\ Len(image) <= t + rd.pos /\ t + size[Reading] <= cap
        BY <1>7, <3>2, <3>4, <3>5
      <3>7. QED
        BY <1>5, <1>6, <1>8, <3>6, RoomFor
    <2>3. QED
      BY <2>1, <2>2
  <1>10. ~(under > 0 \/ Len(image) + n > cap)
    <2>1. cap \in Int
      BY <1>7, TotalFirst
    <2>2. QED
      BY <1>6, <1>8, <1>9, <2>1
  <1>11. /\ image' = image \o [i \in 1 .. n - under |-> <<Reading, rd.pos + under + i>>]
         /\ rd' = [rd EXCEPT !.pos = @ + n, !.low = @ - under]
         /\ pc' = pc /\ cause' = cause
    BY <1>3, <1>10 DEF read_turn, Fault
  <1>12. rd'.i = rd.i /\ rd'.low = 0 /\ rd'.pos = rd.pos + n
    BY <1>4, <1>5, <1>6, <1>11
  <1>13. image' = image \o [i \in 1 .. n |-> <<Reading, rd.pos + i>>]
    <2>1. n - under = n /\ rd.pos + under = rd.pos
      BY <1>5, <1>6
    <2>2. QED
      BY <1>11, <2>1
  <1>14. QED
    BY <1>1, <1>3, <1>4, <1>6, <1>11, <1>12, <1>13

\* It makes the image longer.
LEMMA ReadTurnKeepsImage ==
    ASSUME Inv, Inv', ImageInv, read_turn
    PROVE  ImageInv'
  <1> SUFFICES ASSUME Undisturbed'
               PROVE  (rd.low = 0 /\ progs \in Seq(Entry) /\ Len(progs) = rd.i /\ Made)'
    BY DEF ImageInv
  <1>1. /\ pc = "read" /\ pc' = "read" /\ cause' = cause /\ Undisturbed /\ Made
        /\ UNCHANGED <<job, size, cap, progs, kernelsize>>
    BY ReadTurnFacts
  <1>2. PICK n \in Nat : /\ rd.pos + n <= size[Reading] /\ rd'.i = rd.i /\ rd'.low = 0
                         /\ rd'.pos = rd.pos + n
                         /\ image' = image \o [i \in 1 .. n |-> <<Reading, rd.pos + i>>]
    BY ReadTurnFacts
  <1>3. rd.low = 0 /\ progs \in Seq(Entry) /\ Len(progs) = rd.i
    BY <1>1 DEF ImageInv
  <1>4. /\ size[Reading] \in Int /\ rd.i \in Nat /\ rd.pos \in Nat /\ Reading \in Names
        /\ rd \in [i : Nat, pos : Nat, low : Nat] /\ rd.i <= Len(Programs)
    BY ReadingFacts DEF Inv, ReadInv
  <1>5. rd'.i = rd.i /\ rd'.low = 0 /\ rd'.pos = rd.pos + n
    BY <1>2, <1>3, <1>4
  <1>6. Reading' = Reading /\ Programs' = Programs
    BY <1>1, <1>5 DEF Reading, Programs
  <1>a. PICK f, p, im : f = Reading /\ p = rd.pos /\ im = image
    OBVIOUS
  <1>7. f \in Names /\ p \in Nat /\ im \in Seq(Cell)
    BY <1>4, <1>a DEF Inv, TypeInv
  <1>8. PICK s \in Seq(Cell) : image' = im \o s /\ Reads(s, f, p, n)
    BY <1>2, <1>7, <1>a, ReadIs
  <1>9. image' = im \o s
    BY <1>8
  <1>10. Len(image') = Len(image) + n /\ Len(image) \in Nat
    BY <1>7, <1>8, <1>9, <1>a, Joined DEF Reads
  <1>11. /\ pc' \notin {"main", "open"} /\ (size[job.kernel] \in Nat)'
    BY <1>1 DEF Made
  <1>12. KernelInv'
    <2>1. CASE rd.i = 0
      <3>1. kernelsize = 0 /\ Len(im) = 0 + p /\ Holds(im, 0, f, p) /\ f = job.kernel
        BY <1>1, <1>4, <1>a, <2>1 DEF Made, KernelInv, Reading
      <3>2. Holds(im \o s, 0, f, p + n) /\ Len(im \o s) = 0 + (p + n)
        <4>1. Follows(im, s, f, 0, p, n)
          BY <1>7, <1>8, <3>1 DEF Follows
        <4>2. QED
          BY <4>1, HoldsFollows
      <3>3. Len(im \o s) = p + n
        BY <1>7, <3>2
      <3>4. QED
        BY <1>1, <1>5, <1>9, <1>a, <2>1, <3>1, <3>2, <3>3 DEF KernelInv
    <2>2. CASE rd.i # 0
      <3>1. kernelsize = size[job.kernel] /\ Holds(im, 0, job.kernel, size[job.kernel])
        BY <1>1, <1>a, <2>2 DEF Made, KernelInv
      <3>2. size[job.kernel] \in Nat
        BY <1>1 DEF Made
      <3>3. Holds(im \o s, 0, job.kernel, size[job.kernel])
        BY <1>7, <3>1, <3>2, HoldsKept
      <3>4. QED
        BY <1>1, <1>5, <1>9, <2>2, <3>1, <3>3 DEF KernelInv
    <2>3. QED
      BY <2>1, <2>2
  <1>13. ReadingInv'
    <2>1. (rd.pos <= size[Reading])'
      BY <1>1, <1>2, <1>5, <1>6
    <2>2. CASE rd.i = 0
      BY <1>5, <2>1, <2>2 DEF ReadingInv
    <2>3. CASE rd.i # 0
      <3>a. PICK a : a = progs[rd.i].start
        OBVIOUS
      <3>1. rd.i \in 1 .. Len(progs)
        BY <1>3, <1>4, <2>3
      <3>2. progs[rd.i] \in Entry
        BY <1>3, <3>1, ElementOfSeq
      <3>3. a \in Nat
        BY <3>2, <3>a DEF Entry
      <3>4. /\ Opens(Programs[rd.i]) /\ progs[rd.i].end = Unset /\ Len(im) = a + p
            /\ Holds(im, a, f, p)
        BY <1>1, <1>4, <1>a, <2>3, <3>a DEF Made, ReadingInv
      <3>5. Holds(im \o s, a, f, p + n) /\ Len(im \o s) = a + (p + n)
        <4>1. Follows(im, s, f, a, p, n)
          BY <1>7, <1>8, <3>3, <3>4 DEF Follows
        <4>2. QED
          BY <4>1, HoldsFollows
      <3>6. Opens(Programs[rd.i])'
        BY <1>1, <1>5, <1>6, <3>4 DEF Opens
      <3>7. QED
        BY <1>1, <1>5, <1>6, <1>9, <1>a, <2>1, <3>4, <3>5, <3>6, <3>a DEF ReadingInv
    <2>4. QED
      BY <2>2, <2>3
  <1>14. LengthInv'
    <2>1. /\ cap = Total(Len(Programs)) /\ Len(image) <= Ends(rd.i)
          /\ "open" \notin cause => Len(image) = Ends(rd.i)
      BY <1>1 DEF Made, LengthInv
    <2>2. Ends(rd.i) \in Nat /\ Ends(rd.i)' = Ends(rd.i) + n
      <3>1. CASE rd.i = 0
        BY <1>1, <1>4, <1>5, <3>1 DEF Ends
      <3>2. CASE rd.i # 0
        <4>1. rd.i \in 1 .. Len(Programs)
          BY <1>4, <3>2
        <4>2. Total(rd.i - 1) \in Nat
          BY <1>1, <4>1, TotalFacts DEF Made
        <4> PICK k : k = rd.i - 1
          OBVIOUS
        <4>3. Total(k)' = Total(k)
          BY <1>1, TotalKept
        <4>4. Ends(rd.i) = Total(k) + rd.pos /\ Ends(rd.i)' = Total(k)' + rd'.pos
          BY <1>1, <1>5, <3>2 DEF Ends
        <4>5. QED
          BY <1>4, <1>5, <4>2, <4>3, <4>4
      <3>3. QED
        BY <3>1, <3>2
    <2>3. (cap = Total(Len(Programs)))'
      BY <1>1, <1>6, <2>1, TotalKept
    <2> PICK l, e : l = Len(image) /\ e = Ends(rd.i)
      OBVIOUS
    <2>4. l \in Nat /\ e \in Nat /\ l <= e /\ ("open" \notin cause => l = e)
      BY <1>10, <2>1, <2>2
    <2>5. l + n <= e + n /\ ("open" \notin cause => l + n = e + n)
      BY <2>4
    <2>6. QED
      BY <1>1, <1>10, <2>2, <2>3, <2>5 DEF LengthInv
  <1>15. ASSUME NEW i \in 1 .. Len(progs) PROVE ProgInv(i)'
    <2>1. ProgInv(i)
      BY <1>1 DEF Made
    <2>2. progs[i] \in Entry
      BY <1>3, ElementOfSeq
    <2>3. progs[i].start \in Nat /\ progs[i].end \in Int
      BY <2>2 DEF Entry
    <2>4. /\ kernelsize <= progs[i].start /\ progs[i].start <= Len(image')
          /\ progs[i].end <= Len(image')
      BY <1>10, <2>1, <2>3 DEF ProgInv
    <2>5. progs[i].end # Unset =>
             Holds(image', progs[i].start, Programs[i].file, size[Programs[i].file])
      BY <1>7, <1>8, <1>9, <1>a, <2>1, <2>3, HoldsKept DEF ProgInv
    <2>6. Opens(Programs[i])' = Opens(Programs[i])
      BY <1>1, TotalKept
    <2>7. QED
      BY <1>1, <1>5, <1>6, <2>1, <2>4, <2>5, <2>6 DEF ProgInv
  <1>16. QED
    BY <1>1, <1>3, <1>5, <1>11, <1>12, <1>13, <1>14, <1>15 DEF Made

\* The entries of the syspage.
LEMMA EntryFacts ==
    ASSUME progs \in Seq(Entry), NEW i \in 1 .. Len(progs)
    PROVE  progs[i] \in Entry /\ progs[i].start \in Nat /\ progs[i].end \in Int
  <1>1. progs[i] \in Entry
    BY ElementOfSeq
  <1>2. QED
    BY <1>1 DEF Entry

\* The end of a file is at the end of the image.
LEMMA ReadEndFacts ==
    ASSUME Inv, ImageInv, read_end, Undisturbed'
    PROVE  /\ pc = "read" /\ cause' = cause /\ UNCHANGED <<job, size, cap, image, rd>>
           /\ rd.low = 0 /\ progs \in Seq(Entry) /\ Len(progs) = rd.i /\ Made
           /\ size[Reading] = rd.pos /\ rd.i \in Nat /\ rd.pos \in Nat /\ rd.i <= Len(Programs)
           /\ size[job.kernel] \in Nat /\ image \in Seq(Cell) /\ Len(image) \in Nat
  <1>1. /\ pc = "read" /\ rd.pos >= size[Reading] /\ cause' = cause
        /\ UNCHANGED <<job, size, cap, image, rd>>
    BY DEF read_end
  <1>2. Undisturbed
    BY <1>1 DEF Undisturbed
  <1>3. rd.low = 0 /\ progs \in Seq(Entry) /\ Len(progs) = rd.i /\ Made
    BY <1>1, <1>2 DEF ImageInv, Unmade
  <1>4. rd.pos <= size[Reading] /\ size[job.kernel] \in Nat
    BY <1>1, <1>3 DEF Made, ReadingInv
  <1>5. size[Reading] \in Int /\ rd.i \in Nat /\ rd.pos \in Nat /\ rd.i <= Len(Programs)
    BY ReadingFacts DEF Inv, ReadInv
  <1>6. image \in Seq(Cell) /\ Len(image) \in Nat
    BY LenProperties DEF Inv, TypeInv
  <1>7. QED
    BY <1>1, <1>3, <1>4, <1>5, <1>6

\* The kernel has been read.
LEMMA KernelReadKeepsImage ==
    ASSUME Inv, ImageInv, read_end, Undisturbed', rd.i = 0
    PROVE  (rd.low = 0 /\ progs \in Seq(Entry) /\ Len(progs) = rd.i /\ Made)'
  <1>1. /\ pc = "read" /\ cause' = cause /\ UNCHANGED <<job, size, cap, image, rd>>
        /\ rd.low = 0 /\ progs \in Seq(Entry) /\ Len(progs) = rd.i /\ Made
        /\ size[Reading] = rd.pos /\ rd.i \in Nat /\ rd.pos \in Nat
        /\ size[job.kernel] \in Nat /\ image \in Seq(Cell) /\ Len(image) \in Nat
    BY ReadEndFacts
  <1>2. kernelsize' = Len(image) /\ UNCHANGED progs /\ pc' \in {"ended", "next"}
    BY DEF read_end, Exit
  <1>3. Len(image) = rd.pos /\ Holds(image, 0, job.kernel, rd.pos) /\ rd.pos = size[job.kernel]
    BY <1>1 DEF Made, KernelInv, Reading
  <1>4. KernelInv' /\ ReadingInv'
    BY <1>1, <1>2, <1>3 DEF KernelInv, ReadingInv
  <1>5. LengthInv'
    <2>1. Programs' = Programs /\ \A k : Total(k)' = Total(k)
      BY <1>1, TotalKept
    <2>2. cap = Total(Len(Programs)) /\ Total(0) = size[job.kernel]
      BY <1>1, TotalFirst DEF Made, LengthInv
    <2>3. Ends(rd.i)' = Total(0)
      BY <1>1, <1>2, <2>1 DEF Ends
    <2>4. QED
      BY <1>1, <1>3, <2>1, <2>2, <2>3 DEF LengthInv
  <1>6. QED
    BY <1>1, <1>2, <1>4, <1>5 DEF Made

\* A program has been read.
LEMMA ProgramReadKeepsImage ==
    ASSUME Inv, ImageInv, read_end, Undisturbed', rd.i # 0
    PROVE  (rd.low = 0 /\ progs \in Seq(Entry) /\ Len(progs) = rd.i /\ Made)'
  <1>1. /\ pc = "read" /\ cause' = cause /\ UNCHANGED <<job, size, cap, image, rd>>
        /\ rd.low = 0 /\ progs \in Seq(Entry) /\ Len(progs) = rd.i /\ Made
        /\ size[Reading] = rd.pos /\ rd.i \in Nat /\ rd.pos \in Nat /\ rd.i <= Len(Programs)
        /\ size[job.kernel] \in Nat /\ image \in Seq(Cell) /\ Len(image) \in Nat
    BY ReadEndFacts
  <1>2. /\ progs' = [progs EXCEPT ![rd.i].end = Len(image)] /\ kernelsize' = kernelsize
        /\ pc' = "next"
    BY DEF read_end
  <1>3. rd.i \in 1 .. Len(progs) /\ rd.i \in 1 .. Len(Programs)
    BY <1>1
  <1>4. progs[rd.i] \in Entry /\ progs[rd.i].start \in Nat
    BY <1>1, <1>3, EntryFacts
  <1>5. /\ progs' \in Seq(Entry) /\ Len(progs') = Len(progs)
        /\ \A i \in 1 .. Len(progs) : i # rd.i => progs'[i] = progs[i]
        /\ progs'[rd.i] = [start |-> progs[rd.i].start, end |-> Len(image)]
    <2>1. progs \in [1 .. Len(progs) -> Entry] /\ Len(progs) \in Nat
      BY <1>1, LenProperties
    <2> PICK e : e = [start |-> progs[rd.i].start, end |-> Len(image)]
      OBVIOUS
    <2>2. e \in Entry /\ e = [progs[rd.i] EXCEPT !.end = Len(image)]
      BY <1>1, <1>4 DEF Entry
    <2>3. progs' = [progs EXCEPT ![rd.i] = e]
      BY <1>2, <2>2
    <2>4. progs' \in [1 .. Len(progs) -> Entry]
      BY <2>1, <2>2, <2>3
    <2>5. progs' \in Seq(Entry) /\ Len(progs') = Len(progs)
      BY <2>1, <2>4
    <2>6. QED
      BY <1>3, <2>1, <2>3, <2>5
  <1>6. /\ Opens(Programs[rd.i]) /\ Len(image) = progs[rd.i].start + rd.pos
        /\ Holds(image, progs[rd.i].start, Reading, rd.pos) /\ Reading = Programs[rd.i].file
    BY <1>1 DEF Made, ReadingInv, Reading
  <1>7. KernelInv' /\ ReadingInv'
    BY <1>1, <1>2 DEF Made, KernelInv, ReadingInv
  <1>8. Programs' = Programs /\ \A k : Total(k)' = Total(k)
    BY <1>1, TotalKept
  <1>9. LengthInv'
    <2>1. /\ cap = Total(Len(Programs)) /\ Len(image) <= Ends(rd.i)
          /\ "open" \notin cause => Len(image) = Ends(rd.i)
      BY <1>1 DEF Made, LengthInv
    <2>2. Ends(rd.i) = Total(rd.i - 1) + rd.pos /\ Ends(rd.i)' = Total(rd.i)
      BY <1>1, <1>2, <1>8 DEF Ends
    <2>3. Weight(rd.i) = rd.pos
      BY <1>1, <1>6 DEF Weight
    <2>4. Total(rd.i) = Total(rd.i - 1) + Weight(rd.i)
      BY <1>1, <1>3, TotalFacts
    <2>5. Ends(rd.i)' = Ends(rd.i)
      BY <2>2, <2>3, <2>4
    <2>6. QED
      BY <1>1, <1>8, <2>1, <2>5 DEF LengthInv
  <1>10. ASSUME NEW i \in 1 .. Len(progs) PROVE ProgInv(i)'
    <2>1. ProgInv(i)
      BY <1>1 DEF Made
    <2>2. i \in Nat /\ i <= rd.i
      BY <1>1
    <2>3. ASSUME NEW k \in 1 .. i - 1 PROVE progs'[k].end <= progs'[i].start
      <3>1. k \in 1 .. Len(progs) /\ k # rd.i
        BY <1>1, <2>2
      <3>2. progs'[k] = progs[k] /\ progs'[i].start = progs[i].start
        BY <1>5, <3>1
      <3>3. QED
        BY <2>1, <3>2 DEF ProgInv
    <2>4. CASE i = rd.i
      <3>1. progs'[i].start = progs[i].start /\ progs'[i].end = Len(image)
        BY <1>5, <2>4
      <3>2. /\ size[Programs[i].file] \in Nat
            /\ progs'[i].end = progs'[i].start + size[Programs[i].file]
            /\ Holds(image, progs'[i].start, Programs[i].file, size[Programs[i].file])
        BY <1>1, <1>6, <2>4, <3>1
      <3>3. progs'[i].end # Unset
        BY <1>1, <3>1 DEF Unset
      <3>4. kernelsize <= progs'[i].start /\ progs'[i].start <= Len(image)
        BY <2>1, <3>1 DEF ProgInv
      <3>5. progs'[i].end <= Len(image)
        BY <1>1, <3>1
      <3>6. QED
        BY <1>1, <1>2, <1>8, <2>3, <3>2, <3>3, <3>4, <3>5 DEF ProgInv
    <2>5. CASE i # rd.i
      <3>1. progs'[i] = progs[i]
        BY <1>5, <2>5
      <3>2. Opens(Programs[i])' = Opens(Programs[i])
        BY <1>1, TotalKept
      <3>3. QED
        BY <1>1, <1>2, <1>8, <2>1, <2>3, <2>5, <3>1, <3>2 DEF ProgInv
    <2>6. QED
      BY <2>4, <2>5
  <1>11. QED
    BY <1>1, <1>2, <1>5, <1>7, <1>9, <1>10 DEF Made

\* So the end of a file keeps the invariant.
LEMMA ReadEndKeepsImage ==
    ASSUME Inv, ImageInv, read_end
    PROVE  ImageInv'
  BY KernelReadKeepsImage, ProgramReadKeepsImage DEF ImageInv

\* The next program gets an entry, and is read if it opens.
LEMMA AppendKeepsImage ==
    ASSUME Inv, ImageInv, append_sysprogs
    PROVE  ImageInv'
  <1> SUFFICES ASSUME Undisturbed'
               PROVE  (rd.low = 0 /\ progs \in Seq(Entry) /\ Len(progs) = rd.i /\ Made)'
    BY DEF ImageInv
  <1>1. /\ pc = "next" /\ rd.i < Len(Programs) /\ rd' = [i |-> rd.i + 1, pos |-> 0, low |-> 0]
        /\ progs' = Append(progs, [start |-> Len(image), end |-> Unset])
        /\ UNCHANGED <<job, size, cap, image, kernelsize>> /\ cause \subseteq cause'
    BY DEF append_sysprogs, NoFault, Fault
  <1>2. Undisturbed
    BY <1>1 DEF Undisturbed
  <1>3. rd.low = 0 /\ progs \in Seq(Entry) /\ Len(progs) = rd.i /\ Made
    BY <1>1, <1>2 DEF ImageInv, Unmade
  <1>4. /\ rd.i \in Nat /\ size[job.kernel] \in Nat /\ Len(image) \in Nat /\ Len(Programs) \in Nat
        /\ job \in Jobs
    BY <1>3, ReadingFacts, LenProperties, ProgramsType DEF Made, Inv, TypeInv
  <1>a. PICK k, e : k = rd.i + 1 /\ e = [start |-> Len(image), end |-> Unset]
    OBVIOUS
  <1>5. k \in 1 .. Len(Programs) /\ k = Len(progs) + 1 /\ k - 1 = rd.i
    BY <1>1, <1>3, <1>4, <1>a
  <1>6. e \in Entry /\ e.start = Len(image) /\ e.end = -1
    BY <1>4, <1>a DEF Entry, Unset
  <1>7. /\ progs' \in Seq(Entry) /\ Len(progs') = k /\ progs'[k] = e
        /\ \A i \in 1 .. Len(progs) : progs'[i] = progs[i]
    BY <1>1, <1>3, <1>5, <1>6, <1>a, AppendProperties
  <1>8. rd'.i = k /\ rd'.pos = 0 /\ rd'.low = 0
    BY <1>1, <1>a
  <1>9. Programs' = Programs /\ \A i : Total(i)' = Total(i)
    BY <1>1, TotalKept
  <1>10. \A i : Opens(Programs[i])' = Opens(Programs[i])
    BY <1>1, TotalKept
  <1>11. \/ Opens(Programs[k]) /\ pc' = "read"
         \/ ~Opens(Programs[k]) /\ pc' = "next"
         \/ pc' = "next" /\ "open" \in cause'
    BY <1>1, <1>a DEF append_sysprogs, Fault
  <1>12. KernelInv'
    BY <1>1, <1>3, <1>4, <1>5, <1>8 DEF Made, KernelInv
  <1>13. ReadingInv'
    <2> SUFFICES ASSUME pc' = "read" PROVE ReadingInv'
      BY DEF ReadingInv
    <2>1. Opens(Programs[k])
      BY <1>11
    <2>2. Reading' = Programs[k].file /\ size[Programs[k].file] >= 0
      BY <1>5, <1>8, <1>9, <2>1 DEF Reading, Opens
    <2>3. Holds(image, Len(image), Programs[k].file, 0)
      BY <1>4 DEF Holds
    <2>4. Opens(Programs[k])'
      BY <1>10, <2>1
    <2>5. Len(image) = Len(image) + 0
      BY <1>4
    <2>6. progs'[k].start = Len(image) /\ progs'[k].end = Unset
      BY <1>6, <1>7 DEF Unset
    <2>7. QED
      BY <1>1, <1>8, <1>9, <2>2, <2>3, <2>4, <2>5, <2>6 DEF ReadingInv
  <1>14. LengthInv'
    <2>1. /\ cap = Total(Len(Programs)) /\ Len(image) <= Total(rd.i)
          /\ "open" \notin cause => Len(image) = Total(rd.i)
      BY <1>1, <1>3 DEF Made, LengthInv, Ends
    <2>2. Total(k - 1) \in Nat /\ Total(k) = Total(k - 1) + Weight(k) /\ Weight(k) \in Nat
      BY <1>4, <1>5, TotalFacts, WeightFacts
    <2>3. CASE Opens(Programs[k]) /\ pc' = "read"
      <3>1. Ends(rd.i)' = Total(rd.i)
        BY <1>5, <1>8, <1>9, <2>2, <2>3 DEF Ends
      <3>2. QED
        BY <1>1, <1>9, <2>1, <3>1 DEF LengthInv
    <2>4. CASE ~Opens(Programs[k]) /\ pc' = "next"
      <3>1. Ends(rd.i)' = Total(k) /\ Weight(k) = 0
        BY <1>8, <1>9, <2>4 DEF Ends, Weight
      <3>2. Ends(rd.i)' = Total(rd.i)
        BY <1>5, <2>2, <3>1
      <3>3. QED
        BY <1>1, <1>9, <2>1, <3>2 DEF LengthInv
    <2>5. CASE pc' = "next" /\ "open" \in cause'
      <3>1. Ends(rd.i)' = Total(k)
        BY <1>8, <1>9, <2>5 DEF Ends
      <3>2. Len(image) <= Total(k)
        BY <1>4, <1>5, <2>1, <2>2
      <3>3. QED
        BY <1>1, <1>9, <2>1, <2>5, <3>1, <3>2 DEF LengthInv
    <2>6. QED
      BY <1>11, <2>3, <2>4, <2>5
  <1>15. ASSUME NEW i \in 1 .. Len(progs') PROVE ProgInv(i)'
    <2>1. CASE i = k
      <3>1. progs'[i].start = Len(image) /\ progs'[i].end = -1
        BY <1>6, <1>7, <2>1
      <3>2. kernelsize <= Len(image)
        BY <1>1, <1>3, <1>4 DEF Made, KernelInv, Holds
      <3>3. ASSUME NEW j \in 1 .. i - 1 PROVE progs'[j].end <= progs'[i].start
        <4>1. j \in 1 .. Len(progs)
          BY <1>3, <1>4, <1>5, <2>1
        <4>2. progs'[j] = progs[j] /\ progs[j].end <= Len(image)
          BY <1>3, <1>7, <4>1 DEF Made, ProgInv
        <4>3. QED
          BY <3>1, <4>2
      <3>4. ~(rd.i = i /\ pc = "read")' => ~Opens(Programs[i]) \/ "open" \in cause'
        BY <1>8, <1>11, <2>1
      <3>5. Len(image) <= Len(image) /\ -1 <= Len(image)
        BY <1>4
      <3>6. QED
        BY <1>1, <1>9, <1>10, <3>1, <3>2, <3>3, <3>4, <3>5 DEF ProgInv, Unset
    <2>2. CASE i # k
      <3>1. i \in 1 .. Len(progs) /\ i # rd'.i
        BY <1>5, <1>7, <1>8, <2>2
      <3>2. ProgInv(i) /\ progs'[i] = progs[i]
        BY <1>3, <1>7, <3>1 DEF Made
      <3>3. ASSUME NEW j \in 1 .. i - 1 PROVE progs'[j].end <= progs'[i].start
        <4>1. j \in 1 .. Len(progs)
          BY <1>3, <1>4, <3>1
        <4>2. QED
          BY <1>7, <3>2, <4>1 DEF ProgInv
      <3>4. ~Opens(Programs[i]) \/ "open" \in cause \/ progs[i].end # Unset
        BY <1>1, <3>2 DEF ProgInv
      <3>5. QED
        BY <1>1, <1>9, <1>10, <3>2, <3>3, <3>4 DEF ProgInv
    <2>3. QED
      BY <2>1, <2>2
  <1>16. pc' \notin {"main", "open"}
    BY <1>11
  <1>17. QED
    BY <1>1, <1>4, <1>7, <1>8, <1>12, <1>13, <1>14, <1>15, <1>16 DEF Made

\* Steps of the upload and the session: nothing of it is done with -o.
LEMMA LaterKeepsOut ==
    ASSUME OutInv, pc \notin Early \cup {"ended"}, UNCHANGED <<job, out>>,
           pc' \notin Early
    PROVE  OutInv'
  <1>1. job.via # "output" /\ pc' # "write" /\ out.file = <<>> /\ out.last = 0
    BY DEF OutInv, Early
  <1>2. QED
    BY <1>1 DEF OutInv

\* Steps that make the image, before anything is written.
LEMMA EarlierKeepsOut ==
    ASSUME OutInv, pc \in Early, pc \notin {"write", "spin"}, UNCHANGED <<job, out>>, pc' # "write",
           job.via = "output" => pc' \in Early \cup {"ended"}, pc' = "ended" => result' # "0"
    PROVE  OutInv'
  <1>1. out.file = <<>> /\ out.last = 0
    BY DEF OutInv, Early
  <1>2. QED
    BY <1>1 DEF OutInv

\* The buffer, when nothing is read or stored.
LEMMA ContentsKept ==
    ASSUME UNCHANGED <<image, cap, over>>
    PROVE  Held' = Held /\ Contents(cap)' = Contents(cap)
  BY DEF Held, Contents, Buffer

\* Steps that the program does not see.
LEMMA AsideKeepsOut ==
    ASSUME OutInv, UNCHANGED <<job, out, pc, result>>, cause \subseteq cause',
           (UNCHANGED <<image, cap, over>>) \/ ~Undisturbed'
    PROVE  OutInv'
  <1>1. (Undisturbed' => Undisturbed) /\ (Writes' => Writes)
    BY DEF Undisturbed, Writes
  <1>2. CASE UNCHANGED <<image, cap, over>>
    <2>1. Held' = Held /\ Contents(cap)' = Contents(cap)
      BY <1>2, ContentsKept
    <2>2. QED
      BY <1>1, <1>2, <2>1 DEF OutInv
  <1>3. CASE ~Undisturbed'
    BY <1>3 DEF OutInv
  <1>4. QED
    BY <1>2, <1>3

\* The first steps of the image.
LEMMA ImageKeepsOut ==
    ASSUME OutInv, main \/ boot_image \/ read_turn \/ read_end \/ append_sysprogs
    PROVE  OutInv'
  <1>1. UNCHANGED <<job, out>>
    BY DEF main, boot_image, read_turn, read_end, append_sysprogs, imgvars
  <1>2. pc \in {"main", "open", "read", "next"}
    BY DEF main, boot_image, read_turn, read_end, append_sysprogs
  <1>3. /\ pc' # "write" /\ (pc' = "ended" => result' # "0")
        /\ job.via = "output" => pc' \in Early \cup {"ended"}
    <2>1. CASE main
      BY <2>1 DEF main, Early
    <2>2. CASE boot_image
      BY <2>2 DEF boot_image, Exit, Early
    <2>3. CASE read_turn
      BY <2>3 DEF read_turn, Exit, Early
    <2>4. CASE read_end
      BY <2>4 DEF read_end, Exit, Early
    <2>5. CASE append_sysprogs
      BY <2>5 DEF append_sysprogs, Early
    <2>6. QED
      BY <2>1, <2>2, <2>3, <2>4, <2>5
  <1>4. QED
    BY <1>1, <1>2, <1>3, EarlierKeepsOut DEF Early

\* All of the image is there, and it is to be written.
LEMMA SyspageKeepsOut ==
    ASSUME Inv, ImageInv, OutInv, write_syspage
    PROVE  OutInv'
  <1>1. pc = "next" /\ rd.i = Len(Programs) /\ UNCHANGED <<job, cap, image>> /\ cause \subseteq cause'
    BY SyspageFacts
  <1>2. CASE UNCHANGED out /\ pc' = "ended" /\ result' \in {"-1", "crash"}
    BY <1>1, <1>2, EarlierKeepsOut DEF Early
  <1>3. CASE UNCHANGED out /\ pc' = "dispatch" /\ job.via # "output"
    BY <1>1, <1>3, EarlierKeepsOut DEF Early
  <1>4. CASE job.via = "output" /\ pc' = "write" /\ out' = [out EXCEPT !.left = cap]
    <2>1. out.file = <<>> /\ out.last = 0
      BY <1>1 DEF OutInv
    <2>2. out'.file = <<>> /\ out'.last = 0 /\ out'.left = cap
      BY <1>4, <2>1 DEF OutInv
    <2> SUFFICES ASSUME Undisturbed', "open" \notin cause'
                 PROVE  /\ cap' \in Nat /\ Len(image') = cap'
                        /\ Copied(Held', out'.file, Contents(cap)', cap', out'.left)
                        /\ out'.left > 0 => out'.last = cap' - out'.left
                        /\ out'.left \in {0, cap'}
      <3>1. out' = [file |-> out'.file, left |-> out'.left, last |-> out'.last]
        BY <1>4 DEF OutInv
      <3>2. Writes' => "open" \notin cause'
        BY DEF Writes
      <3>3. QED
        BY <1>4, <3>1, <3>2 DEF OutInv, Early
    <2>3. Undisturbed /\ "open" \notin cause
      BY <1>1 DEF Undisturbed
    <2>4. Made
      BY <1>1, <2>3 DEF ImageInv, Unmade
    <2>5. Len(image) = cap
      BY <1>1, <2>3, <2>4 DEF Made, LengthInv, Ends
    <2>6. Len(image) \in Nat
      BY LenProperties DEF Inv, TypeInv
    <2>7. cap \in Nat /\ cap - cap = 0 /\ cap \in 0 .. cap
      BY <2>5, <2>6
    <2>8. out'.file \in Seq(Held') /\ Len(out'.file) = 0
      BY <2>2
    <2>9. Copied(Held', out'.file, Contents(cap)', cap', out'.left)
      <3>1. \A i \in 1 .. 0 : out'.file[i] = Contents(cap)'[0 + i]
        OBVIOUS
      <3>2. Piece(Held', out'.file, Contents(cap)', 0, 0)
        BY <2>8, <3>1 DEF Piece
      <3>3. QED
        BY <1>1, <2>2, <2>7, <3>2 DEF Copied
    <2>10. QED
      BY <1>1, <2>2, <2>5, <2>7, <2>9
  <1>5. \/ UNCHANGED out /\ pc' = "ended" /\ result' \in {"-1", "crash"}
        \/ UNCHANGED out /\ pc' = "dispatch" /\ job.via # "output"
        \/ job.via = "output" /\ pc' = "write" /\ out' = [out EXCEPT !.left = cap]
    BY DEF write_syspage, Exit
  <1>6. QED
    BY <1>2, <1>3, <1>4, <1>5

\* The part of the buffer that is written.
LEMMA BufferFacts ==
    ASSUME NEW l \in Nat, NEW n \in Nat, NEW c \in Nat, l + n <= c
    PROVE  Piece(Held, [i \in 1 .. n |-> Buffer(l + i)], Contents(c), l, n)
  <1>a. PICK s : s = [i \in 1 .. n |-> Buffer(l + i)]
    OBVIOUS
  <1>b. PICK im : im = [i \in 1 .. c |-> Buffer(i)]
    OBVIOUS
  <1>1. ASSUME NEW i \in 1 .. n PROVE s[i] = im[l + i] /\ s[i] \in Held
    <2>1. l + i \in 1 .. c /\ l + i \in Int
      OBVIOUS
    <2>2. Buffer(l + i) \in Held
      BY <2>1 DEF Held
    <2>3. im[l + i] = Buffer(l + i) /\ s[i] = Buffer(l + i)
      BY <1>a, <1>b, <2>1
    <2>4. QED
      BY <2>2, <2>3
  <1>2. s \in [1 .. n -> Held]
    BY <1>1, <1>a
  <1>3. s \in Seq(Held) /\ Len(s) = n
    BY <1>2
  <1>4. Contents(c) = im
    BY <1>b DEF Contents
  <1>5. QED
    BY <1>1, <1>3, <1>4, <1>a DEF Piece

\* Writing goes on from the sum of what was written.
LEMMA PieceOn ==
    ASSUME NEW S, NEW F, NEW s, NEW im, NEW l \in Nat, NEW n \in Nat,
           Piece(S, F, im, 0, l), Piece(S, s, im, l, n)
    PROVE  Piece(S, F \o s, im, 0, l + n)
  <1>1. /\ F \in Seq(S) /\ Len(F) = l /\ \A i \in 1 .. l : F[i] = im[0 + i]
        /\ s \in Seq(S) /\ Len(s) = n /\ \A i \in 1 .. n : s[i] = im[l + i]
    BY DEF Piece
  <1>2. /\ Len(F \o s) = l + n /\ F \o s \in Seq(S)
        /\ \A i \in 1 .. l : (F \o s)[i] = F[i]
        /\ \A i \in 1 .. n : (F \o s)[l + i] = s[i]
    <2>1. /\ Len(F \o s) = Len(F) + Len(s) /\ F \o s \in Seq(S)
          /\ \A i \in 1 .. Len(F) : (F \o s)[i] = F[i]
          /\ \A i \in 1 .. Len(s) : (F \o s)[Len(F) + i] = s[i]
      <3>1. F \in Seq(S) /\ s \in Seq(S)
        BY <1>1
      <3>2. QED
        BY <3>1, JoinedIn
    <2>2. Len(F \o s) = l + n /\ F \o s \in Seq(S)
      BY <1>1, <2>1
    <2>3. \A i \in 1 .. l : (F \o s)[i] = F[i]
      BY <1>1, <2>1
    <2>4. \A i \in 1 .. n : (F \o s)[l + i] = s[i]
      BY <1>1, <2>1
    <2>5. QED
      BY <2>2, <2>3, <2>4
  <1>3. ASSUME NEW i \in 1 .. l + n PROVE (F \o s)[i] = im[0 + i]
    <2>1. CASE i <= l
      <3>1. i \in 1 .. l
        BY <2>1
      <3>2. QED
        BY <1>1, <1>2, <3>1
    <2>2. CASE i > l
      <3>a. PICK j : j = i - l
        OBVIOUS
      <3>1. j \in 1 .. n /\ i = l + j /\ 0 + i = l + j
        BY <2>2, <3>a
      <3>2. QED
        BY <1>1, <1>2, <3>1
    <2>3. i <= l \/ i > l
      OBVIOUS
    <2>4. QED
      BY <2>1, <2>2, <2>3
  <1>4. QED
    BY <1>2, <1>3 DEF Piece

\* A write, of all that is left or of a part, behind what was written.
LEMMA CopiedOn ==
    ASSUME NEW F, NEW c \in Nat, NEW left, Copied(Held, F, Contents(c), c, left),
           NEW n \in 1 .. left
    PROVE  Copied(Held, F \o [i \in 1 .. n |-> Buffer((c - left) + i)], Contents(c), c, left - n)
  <1>1. left \in 0 .. c /\ Piece(Held, F, Contents(c), 0, c - left)
    BY DEF Copied
  <1>a. PICK l : l = c - left
    OBVIOUS
  <1>2. l \in Nat /\ n \in Nat /\ l + n <= c /\ c - (left - n) = l + n /\ left - n \in 0 .. c
    BY <1>1, <1>a
  <1>b. PICK s : s = [i \in 1 .. n |-> Buffer(l + i)]
    OBVIOUS
  <1>3. Piece(Held, s, Contents(c), l, n)
    BY <1>2, <1>b, BufferFacts
  <1>4. Piece(Held, F, Contents(c), 0, l)
    BY <1>1, <1>a
  <1>5. Piece(Held, F \o s, Contents(c), 0, l + n)
    BY <1>2, <1>3, <1>4, PieceOn
  <1>6. Copied(Held, F \o s, Contents(c), c, left - n)
    BY <1>2, <1>5 DEF Copied
  <1>7. QED
    BY <1>6, <1>a, <1>b

\* What is left after a write.
LEMMA LeftFacts ==
    ASSUME NEW c \in Nat, NEW l \in 0 .. c, NEW n \in 1 .. l
    PROVE  (n = l => l - n = 0) /\ (l = c => n = c - (l - n)) /\ l # 0
  OBVIOUS

\* A write, that is cut short or not, fails or is the last.
LEMMA WriteKeepsOut ==
    ASSUME Inv, OutInv, write_turn, job.via = "output"
    PROVE  OutInv'
  <1>0. pc = "write" /\ UNCHANGED <<job, cap, image, over>> /\ cause \subseteq cause'
    BY DEF write_turn, stores, NoFault, Fault
  <1>1. /\ pc = "write" /\ UNCHANGED <<job, cap, image>> /\ cause \subseteq cause'
        /\ Held' = Held /\ Contents(cap)' = Contents(cap)
    BY <1>0, ContentsKept
  <1>2. pc' \in {"write", "ended", "spin"}
    BY <1>1 DEF write_turn, Exit
  <1>3. out' = [file |-> out'.file, left |-> out'.left, last |-> out'.last]
    BY DEF write_turn, OutInv
  <1>4. (job.via = "output")' /\ pc' \in Early \cup {"ended"}
    BY <1>1, <1>2 DEF Early
  <1> SUFFICES ASSUME Undisturbed', Writes',
                      pc' = "write" \/ (pc' = "ended" /\ result' = "0")
               PROVE  /\ cap' \in Nat /\ Len(image') = cap'
                      /\ Copied(Held', out'.file, Contents(cap)', cap', out'.left)
                      /\ out'.left > 0 => out'.last = cap' - out'.left
                      /\ "short" \notin cause' => out'.left \in {0, cap'}
                      /\ pc' = "ended" => out'.left = 0
    BY <1>2, <1>3, <1>4 DEF OutInv
  <1>5. /\ cap \in Nat /\ Len(image) = cap
        /\ Copied(Held, out.file, Contents(cap), cap, out.left)
        /\ out.left > 0 => out.last = cap - out.left
        /\ "short" \notin cause => out.left \in {0, cap}
    <2>1. Undisturbed /\ Writes
      BY <1>1 DEF Undisturbed, Writes
    <2>2. QED
      BY <1>1, <2>1 DEF OutInv
  <1>6. out.left \in 0 .. cap
    BY <1>5 DEF Copied
  <1>7. CASE out.left <= 0 /\ cause' = cause /\ UNCHANGED out
    <2>a. PICK c, l : c = cap /\ l = out.left
      OBVIOUS
    <2>b. c \in Nat /\ l \in 0 .. c /\ l <= 0
      BY <1>5, <1>6, <1>7, <2>a
    <2>c. l = 0
      BY <2>b
    <2>1. out.left = 0
      BY <2>a, <2>c
    <2>2. QED
      BY <1>1, <1>5, <1>7, <2>1
  <1>8. ASSUME NEW n \in 1 .. out.left, out.left > 0, UNCHANGED pc,
               n # out.left => "short" \in cause' /\ "short" \notin cause,
               n = out.left => cause' = cause,
               out' = [file |-> out.file \o [i \in 1 .. n |-> Buffer(out.last + i)],
                       left |-> out.left - n, last |-> n]
        PROVE  /\ cap' \in Nat /\ Len(image') = cap'
               /\ Copied(Held', out'.file, Contents(cap)', cap', out'.left)
               /\ out'.left > 0 => out'.last = cap' - out'.left
               /\ "short" \notin cause' => out'.left \in {0, cap'}
               /\ pc' = "ended" => out'.left = 0
    <2>1. out.last = cap - out.left
      BY <1>5, <1>8
    <2>a. PICK F, left, c : F = out.file /\ left = out.left /\ c = cap
      OBVIOUS
    <2>3. c \in Nat /\ Copied(Held, F, Contents(c), c, left) /\ n \in 1 .. left
      BY <1>5, <2>a
    <2>4. Copied(Held, F \o [i \in 1 .. n |-> Buffer((c - left) + i)], Contents(c), c, left - n)
      BY <2>3, CopiedOn
    <2>5. Copied(Held', out'.file, Contents(cap)', cap', out'.left)
      BY <1>1, <1>8, <2>1, <2>4, <2>a
    <2>6. out'.left = out.left - n /\ out'.last = n
      BY <1>8
    <2>b. left \in 0 .. c
      BY <1>6, <2>a
    <2>c. (n = left => left - n = 0) /\ (left = c => n = c - (left - n)) /\ left # 0
      BY <2>3, <2>b, LeftFacts
    <2>7. n = left => left - n = 0
      BY <2>c
    <2>8. n # left => left = c /\ n = c - (left - n)
      <3>1. left # 0 /\ (left = c => n = c - (left - n))
        BY <2>c
      <3>2. n # left => left \in {0, c}
        BY <1>5, <1>8, <2>a
      <3>3. QED
        BY <3>1, <3>2
    <2>9. out'.left > 0 => out'.last = cap' - out'.left
      <3>1. CASE n = left
        <4>1. out'.left = 0
          BY <2>6, <2>7, <2>a, <3>1
        <4>2. QED
          BY <4>1
      <3>2. CASE n # left
        BY <1>1, <2>6, <2>8, <2>a, <3>2
      <3>3. QED
        BY <3>1, <3>2
    <2>10. "short" \notin cause' => out'.left \in {0, cap'}
      BY <1>8, <2>6, <2>7, <2>a
    <2>11. QED
      BY <1>1, <1>5, <1>8, <2>5, <2>9, <2>10
  <1>9. CASE "write" \in cause'
    BY <1>9 DEF Writes
  <1>10. CASE /\ out.left > 0 /\ UNCHANGED <<pc, result>>
              /\ \E n \in 1 .. out.left :
                    /\ IF n = out.left THEN NoFault
                       ELSE Fault(IF "short" \in cause THEN "short_again" ELSE "short")
                    /\ out' = [file |-> out.file \o [i \in 1 .. n |-> Buffer(out.last + i)],
                               left |-> out.left - n, last |-> n]
    <2>1. PICK n \in 1 .. out.left :
             /\ IF n = out.left THEN NoFault
                ELSE Fault(IF "short" \in cause THEN "short_again" ELSE "short")
             /\ out' = [file |-> out.file \o [i \in 1 .. n |-> Buffer(out.last + i)],
                        left |-> out.left - n, last |-> n]
      BY <1>10
    <2>2. "short_again" \notin cause'
      BY DEF Writes
    <2>3. n # out.left => "short" \in cause' /\ "short" \notin cause
      BY <2>1, <2>2 DEF Fault
    <2>4. n = out.left => cause' = cause
      BY <2>1 DEF NoFault
    <2>5. QED
      BY <1>8, <1>10, <2>1, <2>3, <2>4
  <1>11. QED
    BY <1>7, <1>9, <1>10 DEF write_turn, NoFault, Fault, Exit

\* The steps of the upload and of the session.
Later == \/ usb_vybrid_dispatch \/ do_status \/ load_command \/ load_data \/ load_hab
         \/ load_complete \/ jmp_2_addr \/ jmp_hab \/ jmp_status \/ open_device_with_vid_pid
         \/ load_module \/ send_module \/ send_mod_contents \/ send_close_command

\* They leave the image alone.
LEMMA LaterFacts ==
    ASSUME Later
    PROVE  /\ Still /\ UNCHANGED out
           /\ pc \notin Early \cup {"ended"} /\ pc' \notin Early
  <1>1. CASE usb_vybrid_dispatch
    BY <1>1 DEF usb_vybrid_dispatch, Returns, Exit, Still, imgvars, Early, NoFault, Fault
  <1>2. CASE do_status
    BY <1>2 DEF do_status, Returns, Exit, Still, imgvars, Early, HidOK, HidFails, NoFault, Fault
  <1>3. CASE load_command \/ load_data
    BY <1>3 DEF load_command, load_data, Again, Exit, Still, imgvars, Early, HidOK, HidFails, NoFault,
                Fault
  <1>4. CASE load_hab \/ load_complete \/ jmp_2_addr
    BY <1>4 DEF load_hab, load_complete, jmp_2_addr, Again, Still, imgvars, Early, HidOK, HidFails,
                NoFault, Fault
  <1>5. CASE jmp_hab
    BY <1>5 DEF jmp_hab, Again, Still, imgvars, Early, HidOK, NoFault, Fault
  <1>6. CASE jmp_status
    BY <1>6 DEF jmp_status, Again, Returns, Exit, Still, imgvars, Early, NoFault, Fault
  <1>7. CASE open_device_with_vid_pid
    BY <1>7 DEF open_device_with_vid_pid, Still, imgvars, Early, Fault
  <1>8. CASE load_module
    BY <1>8 DEF load_module, Exit, Still, imgvars, Early, NoFault, Fault
  <1>9. CASE send_module
    BY <1>9 DEF send_module, NextItem, NotSent, Still, imgvars, Early, HidOK, HidFails, NoFault, Fault
  <1>10. CASE send_mod_contents
    BY <1>10 DEF send_mod_contents, NextItem, NotSent, Still, imgvars, Early, HidOK, HidFails,
                 NoFault, Fault
  <1>11. CASE send_close_command
    BY <1>11 DEF send_close_command, Still, imgvars, Early, HidOK, HidFails, NoFault, Fault
  <1>12. QED
    BY <1>1, <1>2, <1>3, <1>4, <1>5, <1>6, <1>7, <1>8, <1>9, <1>10, <1>11 DEF Later

\* Nothing is there when the program is started.
LEMMA InitImage ==
    Init => ImageInv /\ OutInv
  <1> SUFFICES ASSUME Init PROVE ImageInv /\ OutInv
    OBVIOUS
  <1>1. /\ pc = "main" /\ image = <<>> /\ progs = <<>> /\ kernelsize = 0 /\ cap = 0
        /\ rd = [i |-> 0, pos |-> 0, low |-> 0] /\ out = [file |-> <<>>, left |-> 0, last |-> 0]
    BY DEF Init
  <1>2. progs \in Seq(Entry) /\ Len(progs) = 0
    BY <1>1
  <1>3. rd.i = 0 /\ rd.pos = 0 /\ rd.low = 0
    BY <1>1
  <1>4. ImageInv
    BY <1>1, <1>2, <1>3 DEF ImageInv, Unmade
  <1>5. out.file = <<>> /\ out.last = 0 /\ out = [file |-> out.file, left |-> out.left, last |-> out.last]
    BY <1>1
  <1>6. OutInv
    BY <1>1, <1>5 DEF OutInv, Early
  <1>7. QED
    BY <1>4, <1>6

\* Every step keeps both invariants.
LEMMA NextKeepsImage ==
    ASSUME Inv, Inv', BeforeInv, ImageInv, OutInv, [Next]_vars
    PROVE  ImageInv' /\ OutInv'
  <1>1. CASE main
    <2>1. ImageInv'
      BY <1>1, StillKeepsImage DEF main, Still, imgvars
    <2>2. QED
      BY <1>1, <2>1, ImageKeepsOut
  <1>2. CASE boot_image
    BY <1>2, BootKeepsImage, ImageKeepsOut
  <1>3. CASE read_turn
    BY <1>3, ReadTurnKeepsImage, ImageKeepsOut
  <1>4. CASE read_end
    BY <1>4, ReadEndKeepsImage, ImageKeepsOut
  <1>5. CASE append_sysprogs
    BY <1>5, AppendKeepsImage, ImageKeepsOut
  <1>6. CASE write_syspage
    <2>1. Still
      BY <1>6, SyspageFacts DEF Still
    <2>2. pc = "next" /\ pc' \in {"ended", "write", "dispatch"}
      BY <1>6 DEF write_syspage, Exit
    <2>3. ImageInv'
      BY <2>1, <2>2, StillKeepsImage
    <2>4. QED
      BY <1>6, <2>3, SyspageKeepsOut
  <1>7. CASE write_turn
    <2>1. Still
      BY <1>7 DEF write_turn, Still, NoFault, Fault
    <2>2. pc = "write" /\ pc' \in {"ended", "write", "spin"}
      BY <1>7 DEF write_turn, Exit
    <2>3. ImageInv'
      BY <2>1, <2>2, StillKeepsImage
    <2>4. job.via = "output"
      BY <2>2 DEF BeforeInv
    <2>5. QED
      BY <1>7, <2>3, <2>4, WriteKeepsOut
  <1>8. CASE Later
    <2>1. /\ Still /\ UNCHANGED out /\ pc \notin Early \cup {"ended"} /\ pc' \notin Early
      BY <1>8, LaterFacts
    <2>2. ImageInv'
      BY <2>1, StillKeepsImage DEF Early
    <2>3. OutInv'
      BY <2>1, LaterKeepsOut DEF Still
    <2>4. QED
      BY <2>2, <2>3
  <1>9. CASE appear \/ plug \/ unplug \/ UNCHANGED vars
    <2>1. Still /\ UNCHANGED <<out, pc, result, over>>
      BY <1>9 DEF appear, plug, unplug, vars, Still, imgvars, Fault
    <2>2. ImageInv'
      BY <2>1, StillKeepsImage
    <2>3. OutInv'
      BY <2>1, AsideKeepsOut DEF Still
    <2>4. QED
      BY <2>2, <2>3
  <1>10. CASE \E f \in DOMAIN size, d \in {-1, 1} : resize(f, size[f] + d)
    <2>1. PICK f \in DOMAIN size, d \in {-1, 1} : resize(f, size[f] + d)
      BY <1>10
    <2>2. UNCHANGED <<job, out, pc, result>> /\ cause \subseteq cause' /\ ~Undisturbed'
      BY <2>1 DEF resize, imgvars, Fault, Undisturbed
    <2>3. OutInv'
      BY <2>2, AsideKeepsOut
    <2>4. QED
      BY <2>2, <2>3 DEF ImageInv
  <1>11. QED
    BY <1>1, <1>2, <1>3, <1>4, <1>5, <1>6, <1>7, <1>8, <1>9, <1>10 DEF Next, phoenixd, Later

\* The image is no longer than its buffer.
LEMMA ImageFits ==
    ASSUME Inv, Made
    PROVE  Len(image) <= cap
  <1>1. /\ size[job.kernel] \in Nat /\ cap = Total(Len(Programs)) /\ Len(image) <= Ends(rd.i)
    BY DEF Made, LengthInv
  <1>2. Len(image) \in Nat /\ rd.i \in Nat /\ rd.pos \in Nat /\ rd.i <= Len(Programs) /\ size[Reading] \in Int
    BY ReadingFacts, LenProperties DEF Inv, TypeInv, ReadInv
  <1>3. CASE rd.i = 0
    <2>1. Total(0) = size[job.kernel] /\ Total(0) <= cap /\ cap \in Nat
      BY <1>1, TotalFirst
    <2>2. pc = "read" => rd.pos <= size[job.kernel]
      BY <1>3 DEF Made, ReadingInv, Reading
    <2>3. Ends(rd.i) = IF pc = "read" THEN rd.pos ELSE Total(0)
      BY <1>3 DEF Ends
    <2>4. QED
      BY <1>1, <1>2, <2>1, <2>2, <2>3
  <1>4. CASE rd.i # 0
    <2>1. rd.i \in 1 .. Len(Programs)
      BY <1>2, <1>4
    <2>2. /\ Total(rd.i - 1) \in Nat /\ Total(rd.i) = Total(rd.i - 1) + Weight(rd.i)
          /\ Total(rd.i) <= cap /\ cap \in Nat
      BY <1>1, <2>1, TotalFacts
    <2>3. CASE pc = "read"
      <3>1. rd.pos <= size[Reading] /\ Weight(rd.i) = size[Reading]
        BY <1>2, <1>4, <2>3 DEF Made, ReadingInv, Weight, Reading
      <3>2. Ends(rd.i) = Total(rd.i - 1) + rd.pos
        BY <1>4, <2>3 DEF Ends
      <3>a. PICK t, w : t = Total(rd.i - 1) /\ w = size[Reading]
        OBVIOUS
      <3>3. /\ t \in Nat /\ w \in Int /\ Len(image) <= t + rd.pos /\ rd.pos + 0 <= w /\ t + w <= cap
        BY <1>1, <1>2, <2>2, <3>1, <3>2, <3>a
      <3>4. Len(image) + 0 <= cap
        BY <1>2, <2>2, <3>3, RoomFor
      <3>5. QED
        BY <1>2, <2>2, <3>4
    <2>4. CASE pc # "read"
      <3>1. Ends(rd.i) = Total(rd.i)
        BY <2>4 DEF Ends
      <3>2. Weight(rd.i) \in Nat
        BY <2>1, WeightFacts
      <3>a. PICK t : t = Total(rd.i)
        OBVIOUS
      <3>3. t \in Nat /\ Len(image) <= t /\ t <= cap
        BY <1>1, <2>2, <3>1, <3>2, <3>a
      <3>4. QED
        BY <1>2, <2>2, <3>3
    <2>5. QED
      BY <2>3, <2>4
  <1>5. QED
    BY <1>3, <1>4

\* The syspage stays in the first part of the kernel.
LEMMA SyspageFits ==
    ASSUME NEW p \in SyspageField, Len(progs) \in Nat
    PROVE  p \in SysAt + 1 .. MinKernel
  <1>1. SysAt \in Nat /\ MaxProgs \in Nat /\ MinKernel \in Nat /\ SysAt + 1 + MaxProgs <= MinKernel
    BY SdpAssumption
  <1>2. Len(progs) <= MaxProgs /\ p \in SysAt + 1 .. SysAt + 1 + Len(progs)
    BY <1>1 DEF SyspageField
  <1>3. QED
    BY <1>1, <1>2

\* What write_syspage stores goes to these places.
LEMMA StoredWhere ==
    ASSUME NEW z
    PROVE  DOMAIN Stored(z) = SizeField \cup PluginSlot(z) \cup SyspageField
  BY DEF Stored

\* The steps that make the image store nothing.
LEMMA MakingKeepsStores ==
    ASSUME Inv, StoreInv, main \/ boot_image \/ read_turn \/ read_end \/ append_sysprogs
    PROVE  StoreInv'
  <1>1. pc \in Making /\ over' = over
    BY DEF main, boot_image, read_turn, read_end, append_sysprogs, Making, imgvars, stores
  <1>2. DOMAIN over' = {}
    BY <1>1 DEF StoreInv
  <1>3. ASSUME pc' = "next" \/ (pc' = "read" /\ rd'.i # 0) PROVE kernelsize' >= MinKernel
    <2>1. CASE main \/ boot_image
      <3>1. pc' # "next" /\ (pc' = "read" => rd' = rd /\ pc = "open")
        BY <2>1 DEF main, boot_image, Exit, imgvars
      <3>2. pc = "open" => rd.i = 0
        BY DEF StoreInv
      <3>3. QED
        BY <1>3, <3>1, <3>2
    <2>2. CASE read_turn
      <3>1. pc = "read" /\ pc' # "next" /\ kernelsize' = kernelsize
        BY <2>2 DEF read_turn, Exit
      <3>2. rd'.i = rd.i
        <4>1. rd \in [i : Nat, pos : Nat, low : Nat]
          BY DEF Inv, ReadInv
        <4>2. QED
          BY <2>2, <4>1 DEF read_turn
      <3>3. QED
        BY <1>3, <3>1, <3>2 DEF StoreInv
    <2>3. CASE read_end
      <3>1. CASE rd.i = 0
        <4>1. kernelsize' = Len(image) /\ ~(Len(image) < MinKernel)
          BY <1>3, <2>3, <3>1 DEF read_end, Exit
        <4>2. Len(image) \in Nat /\ MinKernel \in Nat
          BY SdpAssumption, LenProperties DEF Inv, TypeInv
        <4>3. QED
          BY <4>1, <4>2
      <3>2. CASE rd.i # 0
        BY <2>3, <3>2 DEF read_end, StoreInv
      <3>3. QED
        BY <3>1, <3>2
    <2>4. CASE append_sysprogs
      BY <2>4 DEF append_sysprogs, StoreInv
    <2>5. QED
      BY <2>1, <2>2, <2>3, <2>4
  <1>4. pc' \in {"main", "open"} => rd'.i = 0
    <2>1. pc' \in {"main", "open"} => main
      BY DEF main, boot_image, read_turn, read_end, append_sysprogs, Exit
    <2>2. main => rd' = rd /\ pc = "main"
      BY DEF main, imgvars
    <2>3. QED
      BY <2>1, <2>2 DEF StoreInv
  <1>5. QED
    BY <1>2, <1>3, <1>4 DEF StoreInv

\* Steps that store nothing, and are not among them.
LEMMA AsideKeepsStores ==
    ASSUME StoreInv, UNCHANGED <<job, over, plugin_sz, progs, kernelsize, rd>>,
           pc' \in Making => pc' = pc
    PROVE  StoreInv'
  <1>1. Sizes' = Sizes /\ SyspageField' = SyspageField
    BY DEF Sizes, SizeField, PluginSlot, SyspageField
  <1>2. QED
    BY <1>1 DEF StoreInv, Making

\* Every step keeps the places of the stores.
LEMMA NextKeepsStores ==
    ASSUME Inv, StoreInv, [Next]_vars
    PROVE  StoreInv'
  <1>1. CASE write_syspage
    <2>1. /\ pc = "next" /\ UNCHANGED <<job, progs, kernelsize>> /\ over' = Stored(plugin_sz')
          /\ pc' \in {"write", "ended", "dispatch"}
      BY <1>1, SyspageFacts
    <2>2. DOMAIN over' = SizeField \cup PluginSlot(plugin_sz') \cup SyspageField
      BY <2>1, StoredWhere
    <2>3. Sizes' = SizeField \cup PluginSlot(plugin_sz') /\ SyspageField' = SyspageField
      BY <2>1 DEF Sizes, SizeField, PluginSlot, SyspageField
    <2>4. kernelsize' >= MinKernel
      BY <2>1 DEF StoreInv
    <2>5. QED
      BY <2>1, <2>2, <2>3, <2>4 DEF StoreInv, Making
  <1>2. CASE write_turn
    <2>1. UNCHANGED <<job, over, plugin_sz, progs, kernelsize, rd>> /\ pc' \in {"write", "ended", "spin"}
      BY <1>2 DEF write_turn, stores, Exit
    <2>2. QED
      BY <2>1, AsideKeepsStores DEF Making
  <1>3. CASE Later
    <2>1. Still /\ pc' \notin Early
      BY <1>3, LaterFacts
    <2>2. UNCHANGED <<over, plugin_sz>>
      BY <1>3 DEF Later, usb_vybrid_dispatch, do_status, load_command, load_data, load_hab,
                  load_complete, jmp_2_addr, jmp_hab, jmp_status, open_device_with_vid_pid,
                  load_module, send_module, send_mod_contents, send_close_command, imgvars
    <2>3. QED
      BY <2>1, <2>2, AsideKeepsStores DEF Still, Making, Early
  <1>4. CASE appear \/ plug \/ unplug \/ UNCHANGED vars
    <2>1. UNCHANGED <<job, over, plugin_sz, progs, kernelsize, rd, pc>>
      BY <1>4 DEF appear, plug, unplug, vars, imgvars
    <2>2. QED
      BY <2>1, AsideKeepsStores
  <1>5. CASE \E f \in DOMAIN size, d \in {-1, 1} : resize(f, size[f] + d)
    <2>1. UNCHANGED <<job, over, plugin_sz, progs, kernelsize, rd, pc>>
      BY <1>5 DEF resize, imgvars
    <2>2. QED
      BY <2>1, AsideKeepsStores
  <1>6. QED
    BY <1>1, <1>2, <1>3, <1>4, <1>5, MakingKeepsStores DEF Next, phoenixd, Later

\* What the invariants say of the image.
LEMMA ImageIsFaithful ==
    ASSUME Inv, BeforeInv, ImageInv, OutInv, StoreInv
    PROVE  ImageFaithful
  <1> SUFFICES ASSUME Undisturbed PROVE ImageFaithful
    BY DEF ImageFaithful
  <1>1. rd.low = 0 /\ progs \in Seq(Entry) /\ Len(progs) = rd.i /\ (Unmade \/ Made)
    BY DEF ImageInv
  <1>2. image \in Seq(Cell) /\ Len(image) \in Nat /\ Len(progs) \in Nat
        /\ DOMAIN image = 1 .. Len(image)
    BY <1>1, LenProperties DEF Inv, TypeInv
  <1>3. KernelIntact
    <2>1. CASE Unmade
      BY <2>1 DEF Unmade, KernelIntact
    <2>2. CASE Made /\ kernelsize = 0
      BY <2>2 DEF KernelIntact
    <2>3. CASE Made /\ kernelsize # 0
      <3>a. PICK f, n, im : f = job.kernel /\ n = kernelsize /\ im = image
        OBVIOUS
      <3>1. n \in Nat /\ Holds(im, 0, f, n) /\ im \in Seq(Cell) /\ n = size[f]
        BY <1>2, <2>3, <3>a DEF Made, KernelInv
      <3>2. ASSUME NEW i \in 1 .. n
            PROVE  Buffer(i) = <<job.kernel, i>> \/ i \in Sizes \cup (SysAt + 1 .. MinKernel)
        <4>1. CASE i \in DOMAIN over
          <5>1. i \in Sizes \/ i \in SyspageField
            BY <4>1 DEF StoreInv
          <5>2. QED
            BY <1>2, <5>1, SyspageFits
        <4>2. CASE i \notin DOMAIN over
          <5>1. 0 + i \in 1 .. Len(im) /\ im[0 + i] = <<f, i>>
            BY <3>1, HoldsAt
          <5>2. i \in DOMAIN image /\ image[i] = <<job.kernel, i>>
            BY <1>2, <3>a, <5>1
          <5>3. QED
            BY <4>2, <5>2 DEF Buffer
        <4>3. QED
          BY <4>1, <4>2
      <3>3. QED
        BY <3>1, <3>2, <3>a DEF KernelIntact
    <2>4. QED
      BY <1>1, <2>1, <2>2, <2>3
  <1>4. ASSUME NEW i \in 1 .. Len(progs)
        PROVE  ProgramIntact(i)
    <2>1. Made
      BY <1>1 DEF Unmade
    <2>2. ProgInv(i) /\ progs[i].start \in Nat
      BY <1>1, <2>1, EntryFacts DEF Made
    <2>3. progs[i].start >= kernelsize
      BY <2>2 DEF ProgInv
    <2>4. ASSUME progs[i].end # Unset, NEW k \in 1 .. size[Programs[i].file]
          PROVE  \/ Buffer(progs[i].start + k) = <<Programs[i].file, k>>
                 \/ ~Roomy /\ progs[i].start + k \in Sizes
      <3>a. PICK f, n, a, im : f = Programs[i].file /\ n = size[f] /\ a = progs[i].start /\ im = image
        OBVIOUS
      <3>1. n \in Nat /\ a \in Nat /\ Holds(im, a, f, n) /\ im \in Seq(Cell)
        BY <1>2, <2>2, <2>4, <3>a DEF ProgInv
      <3>2. k \in 1 .. n
        BY <3>a
      <3>3. a + k \in 1 .. Len(im) /\ im[a + k] = <<f, k>>
        <4>1. a + n <= Len(im) /\ im[a + k] = <<f, k>>
          BY <3>1, <3>2 DEF Holds
        <4>2. Len(im) \in Nat
          BY <3>1, LenProperties
        <4>3. QED
          BY <3>1, <3>2, <4>1, <4>2
      <3>4. CASE a + k \notin DOMAIN over
        <4>1. a + k \in DOMAIN image /\ image[a + k] = <<f, k>>
          BY <1>2, <3>3, <3>a
        <4>2. Buffer(a + k) = <<f, k>>
          BY <3>4, <4>1 DEF Buffer
        <4>3. QED
          BY <3>a, <4>2
      <3>5. CASE a + k \in DOMAIN over
        <4>a. PICK K : K = kernelsize
          OBVIOUS
        <4>1. K \in Nat
          <5>1. kernelsize \in Nat
            BY <2>1 DEF Made, KernelInv
          <5>2. QED
            BY <4>a, <5>1
        <4>2. K >= MinKernel /\ MinKernel \in Nat /\ SysAt \in Nat
          BY <3>5, <4>a, SdpAssumption DEF StoreInv
        <4>3. a >= K
          BY <2>3, <3>a, <4>a
        <4>4. ~(a + k \in SysAt + 1 .. MinKernel) /\ ~(a + k \in 1 .. K)
          BY <3>1, <3>2, <4>1, <4>2, <4>3
        <4>5. a + k \in Sizes \/ a + k \in SyspageField
          BY <3>5 DEF StoreInv
        <4>6. a + k \in Sizes
          BY <1>2, <4>4, <4>5, SyspageFits
        <4>7. ~Roomy
          BY <4>4, <4>6, <4>a DEF Roomy
        <4>8. QED
          BY <3>a, <4>6, <4>7
      <3>6. QED
        BY <3>4, <3>5
    <2>5. progs[i].end # Unset => progs[i].end = progs[i].start + size[Programs[i].file]
      BY <2>2 DEF ProgInv
    <2>6. /\ \A k \in 1 .. i - 1 : progs[k].end <= progs[i].start
          /\ ~(rd.i = i /\ pc = "read") /\ progs[i].end = Unset =>
                ~Opens(Programs[i]) \/ "open" \in cause
      BY <2>2 DEF ProgInv
    <2>7. progs[i].end # Unset =>
             \A k \in 1 .. size[Programs[i].file] :
                \/ Buffer(progs[i].start + k) = <<Programs[i].file, k>>
                \/ ~Roomy /\ progs[i].start + k \in Sizes
      BY <2>4
    <2>8. QED
      BY <2>3, <2>5, <2>6, <2>7 DEF ProgramIntact
  <1>5. Len(image) <= cap
    <2>1. CASE Unmade
      BY <2>1 DEF Unmade
    <2>2. QED
      BY <1>1, <2>1, ImageFits
  <1>6. ASSUME job.via = "output", result = "0", Writes PROVE out.file = Contents(Len(image))
    <2>1. pc = "ended"
      <3>1. pc \in Early \cup {"ended"}
        BY <1>6 DEF OutInv
      <3>2. pc \in Early => result = ""
        BY DEF BeforeInv, Early, Talking
      <3>3. QED
        BY <1>6, <3>1, <3>2
    <2>2. /\ cap \in Nat /\ Len(image) = cap
          /\ Copied(Held, out.file, Contents(cap), cap, out.left) /\ out.left = 0
      BY <1>6, <2>1 DEF OutInv
    <2>a. PICK F, im, c : F = out.file /\ im = Contents(cap) /\ c = cap
      OBVIOUS
    <2>3. c \in Nat /\ Copied(Held, F, im, c, 0) /\ im = [i \in 1 .. c |-> Buffer(i)]
      BY <2>2, <2>a DEF Contents
    <2>4. F \in Seq(Held) /\ Len(F) = c - 0 /\ \A i \in 1 .. c - 0 : F[i] = im[0 + i]
      BY <2>3 DEF Copied, Piece
    <2>5. Len(F) = c /\ \A i \in 1 .. c : F[i] = im[i]
      BY <2>3, <2>4
    <2>6. F = [i \in 1 .. c |-> F[i]]
      BY <2>4, <2>5, LenProperties
    <2>7. F = im
      BY <2>3, <2>5, <2>6
    <2>8. QED
      BY <2>2, <2>7, <2>a
  <1>7. job.via = "output" /\ result = "0" /\ cause \cap {"write", "short_again", "open"} = {}
              => out.file = Contents(Len(image))
    BY <1>6 DEF Writes
  <1>8. QED
    BY <1>3, <1>4, <1>5, <1>7 DEF ImageFaithful

\* The syspage of every image matches it, the sizes and the syspage are stored in
\* the kernel unless it is too short for them, the image fits its buffer, and a
\* file written with -o is the image, for all files and programs, while no file
\* changes and no read fails.
THEOREM ImageStaysFaithful ==
    Spec => []ImageFaithful
  <1>1. TalkInv => BeforeInv
    BY DEF TalkInv
  <1>2. Spec => []TalkInv
    BY NextKeepsTalk, InitTalk, Invariance, PTL DEF Spec
  <1>3. Spec => [](ImageInv /\ OutInv)
    BY <1>1, <1>2, InitImage, NextKeepsImage, Invariance, PTL DEF Spec
  <1>4. ASSUME Init PROVE StoreInv
    <2>1. pc = "main" /\ rd = [i |-> 0, pos |-> 0, low |-> 0]
      BY <1>4, Zenon DEF Init
    <2>2. over = <<>>
      BY <1>4, Zenon DEF Init
    <2>3. DOMAIN over = {} /\ rd.i = 0
      BY <2>1, <2>2
    <2>4. QED
      BY <2>1, <2>3 DEF StoreInv
  <1>5. Spec => []StoreInv
    BY <1>4, NextKeepsStores, Invariance, PTL DEF Spec
  <1>6. QED
    BY <1>1, <1>2, <1>3, <1>5, ImageIsFaithful, Invariance, PTL
=============================================================================
