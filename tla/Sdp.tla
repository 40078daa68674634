-------------------------------- MODULE Sdp --------------------------------
(***************************************************************************)
(* phoenixd with --sdp, --plugin, --upload, -o and -u: an image is put     *)
(* together from the kernel and programs (boot_image in common/usb_imx.c), *)
(* given to the ROM of a device over USB (usb_vybrid_dispatch in           *)
(* common/usb_vybrid.c) and, once the device runs the image, modules are   *)
(* sent to its loader (usb_imx_dispatch).                                  *)
(*                                                                         *)
(* The device and its loader are not part of the repository: they are      *)
(* modelled from what the host expects of them.  Files are sequences of    *)
(* cells <<file, i>>; a token of the command line is a record              *)
(* [file, x, args], x for a leading X and args for the length of what      *)
(* stands behind "=", -1 without it.                                       *)
(***************************************************************************)
EXTENDS Integers, Sequences

CONSTANTS Jobs,         \* [via, plugin, plugin_sz, sameid, kernel, console, initrd, append, size]
          RdChunk,      \* what read() is asked for: 256
          HidChunk,     \* BUF_SIZE - 1
          MinKernel,    \* SYSPAGESZ_MAX, and where the IVT is looked for: 0x400
          IvtSz,        \* how much of the IVT is used, up to the size behind it: 0x24
          IntSz,        \* sizeof(int)
          OffsetSz,     \* sizeof(size_t)
          PluginEnd,    \* where before its end the plugin has a place for the size: 0xc
          SysAt,        \* where the syspage goes: 0x20
          MaxProgs,     \* programs that fit in the space of the syspage
          Garbage,      \* numbers found where the kernel has none
          MaxArgs,      \* 128
          MaxErr,       \* attempts before usb_vybrid_dispatch gives up: 5
          MaxFaults     \* failing calls, changes of files, unplugging

ASSUME SdpAssumption ==
    /\ {RdChunk, HidChunk, MinKernel, IvtSz, IntSz, OffsetSz, PluginEnd, SysAt, MaxArgs}
          \subseteq Nat \ {0}
    /\ MaxArgs <= HidChunk /\ SysAt + 1 + MaxProgs <= MinKernel
    /\ IntSz <= OffsetSz /\ OffsetSz <= PluginEnd
    /\ MaxProgs \in Nat /\ MaxErr \in Nat /\ MaxFaults \in Nat
    /\ Garbage \subseteq Int /\ Garbage # {}
ASSUME JobsAssumption ==
    \A j \in Jobs : /\ j.via \in {"imx", "boot", "output", "file"}
                    /\ {j.plugin, j.sameid} \subseteq BOOLEAN /\ j.kernel \in DOMAIN j.size
                    /\ j.plugin_sz \in Int
                    /\ \A f \in DOMAIN j.size : j.size[f] \in Nat \cup {-1}
                    /\ {j.console, j.initrd, j.append} \subseteq
                          Seq([file : DOMAIN j.size, x : BOOLEAN, args : Nat \cup {-1}])

VARIABLES
    job, size,      \* the command line; the files' sizes now, -1 if missing
    pc, result,     \* where the program is; its exit code
    cap,            \* the size of the image's buffer
    image, ivt,     \* what was read into it; whether its addresses were seen
    over,           \* what was stored over it, by its place
    plugin_sz,      \* the size of the plugin that the image states
    rd,             \* the file being read: [i, pos, low], i = 0 for the kernel
    progs,          \* the programs of the syspage: [start, end]
    kernelsize,
    out,            \* -o: [file, left, last], last for the count of the last write
    stage,          \* of the upload: 0 -u, 1 the plugin, 2 the image
    err, off, h,    \* attempts, what is sent, whether the handle is good
    loaded, item,   \* modules loaded so far; the part of the last one being sent
    dev,            \* rom, ddr (ROM after the plugin), loader or dead
    plugged,        \* whether the device is on the bus
    want, mem,      \* the ROM's: the size announced and what has come
    at, rx, got,    \* the loader's: position, item being received, modules
    faults, cause   \* how many faults, and of which kinds

vars == <<job, size, pc, result, cap, image, ivt, over, plugin_sz, rd, progs, kernelsize, out,
          stage, err, off, h, loaded, item, dev, plugged, want, mem, at, rx, got, faults, cause>>
imgvars == <<cap, image, ivt, over, plugin_sz, rd, progs, kernelsize, out>>
stores  == <<over, plugin_sz>>
romvars == <<dev, plugged, want, mem>>
ldrvars == <<loaded, item, at, rx, got>>

Unset == -1       \* never assigned: the contents of malloc'ed memory

Fault(c) == faults < MaxFaults /\ faults' = faults + 1 /\ cause' = cause \cup {c}
NoFault  == UNCHANGED <<faults, cause>>

Cells(f, n) == [i \in 1 .. n |-> <<f, i>>]
MinOf(x, y) == IF x < y THEN x ELSE y
Exit(r) == pc' = "ended" /\ result' = r

-----------------------------------------------------------------------------
(* boot_image: the image.                                                  *)

\* The programs of the image and the modules sent later.
Programs == IF job.via = "imx" THEN job.initrd ELSE job.console \o job.initrd \o job.append
Modules  == job.console \o job.append

\* A program's token is opened as it stands, with X and arguments.
Opens(t) == ~t.x /\ t.args = -1 /\ size[t.file] >= 0

\* Which of the entry points main takes.
main ==
    /\ pc = "main" /\ pc' = IF job.via = "file" THEN "dispatch" ELSE "open"
    /\ UNCHANGED <<job, size, result, imgvars, stage, err, off, h, ldrvars, romvars,
                   faults, cause>>

\* The sizes of the programs that open, added up in turn; those in missed did
\* not open this time.
Counted(missed) ==
    LET sum[k \in 0 .. Len(Programs)] ==
            IF k = 0 THEN 0
            ELSE sum[k - 1] + IF k \in missed \/ ~Opens(Programs[k]) THEN 0
                              ELSE size[Programs[k].file]
    IN  sum
count_sysprogs(missed) == Counted(missed)[Len(Programs)]

\* The kernel is opened, and the sizes of all files make the buffer.
boot_image ==
    /\ pc = "open"
    /\ \/ /\ \/ size[job.kernel] < 0 /\ NoFault
             \/ Fault("open")
          /\ Exit("-1") /\ UNCHANGED cap
       \/ /\ size[job.kernel] >= 0
          /\ \/ NoFault /\ cap' = size[job.kernel] + count_sysprogs({})
             \/ /\ Fault("count")
                /\ \E i \in DOMAIN Programs :
                      /\ Opens(Programs[i]) /\ cap' = size[job.kernel] + count_sysprogs({i})
          /\ pc' = "read" /\ UNCHANGED result
    /\ UNCHANGED <<job, size, image, ivt, stores, rd, progs, kernelsize, out, stage, err, off, h,
                   ldrvars, romvars>>

Reading == IF rd.i = 0 THEN job.kernel ELSE Programs[rd.i].file

\* A turn of the reading loop of the kernel or of a program.  A failing read
\* counts as -1 bytes: the next ones go one byte further down, even (rd.low)
\* below the buffer.  What is outside of it, on either side, may end in a crash.
\* The addresses are taken from the part that begins with the IVT.
read_turn ==
    /\ pc = "read" /\ rd.pos < size[Reading]
    /\ \/ LET n       == MinOf(RdChunk, size[Reading] - rd.pos)
              under   == MinOf(rd.low, n)
              outside == under > 0 \/ Len(image) + n > cap
          IN  /\ image' = image \o [i \in 1 .. n - under |-> <<Reading, rd.pos + under + i>>]
              /\ rd' = [rd EXCEPT !.pos = @ + n, !.low = @ - under]
              /\ ivt' = (ivt \/ (rd.i = 0 /\ Len(image) = MinKernel /\ n >= IvtSz))
              /\ \/ pc' = pc /\ UNCHANGED result
                 \/ outside /\ Exit("crash")
              /\ cause' = IF outside THEN cause \cup {"overrun"} ELSE cause
              /\ UNCHANGED faults
       \/ /\ Fault("read") /\ UNCHANGED <<pc, result, ivt>>
          /\ IF image = <<>> THEN rd' = [rd EXCEPT !.low = @ + 1] /\ UNCHANGED image
                             ELSE image' = SubSeq(image, 1, Len(image) - 1) /\ UNCHANGED rd
       \/ /\ Fault("read") /\ pc' = "spin" /\ UNCHANGED <<result, image, rd, ivt>>
    /\ UNCHANGED <<job, size, cap, stores, progs, kernelsize, out, stage, err, off, h, ldrvars,
                   romvars>>

\* Mutant: the end of a program is where it starts.
read_end_early ==
    /\ pc = "read" /\ rd.pos >= size[Reading] /\ pc' = "next"
    /\ IF rd.i = 0 THEN kernelsize' = Len(image) /\ UNCHANGED progs
                   ELSE progs' = [progs EXCEPT ![rd.i].end = progs[rd.i].start]
                        /\ UNCHANGED kernelsize
    /\ UNCHANGED <<job, size, result, cap, image, ivt, stores, rd, out, stage, err, off, h, ldrvars,
                   romvars, faults, cause>>

read_end ==
    /\ pc = "read" /\ rd.pos >= size[Reading]
    /\ IF rd.i = 0
       THEN /\ kernelsize' = Len(image) /\ UNCHANGED progs
            /\ IF rd.low > 0 THEN Exit("crash")
               ELSE IF Len(image) < MinKernel THEN Exit("-1")
               ELSE pc' = "next" /\ UNCHANGED result
       ELSE /\ progs' = [progs EXCEPT ![rd.i].end = Len(image)] /\ pc' = "next"
            /\ UNCHANGED <<kernelsize, result>>
    /\ UNCHANGED <<job, size, cap, image, ivt, stores, rd, out, stage, err, off, h, ldrvars, romvars,
                   faults, cause>>

\* append_sysprogs meets the next program.  One that cannot be opened keeps its
\* entry, of which nothing but the start is assigned.
append_sysprogs ==
    /\ pc = "next" /\ rd.i < Len(Programs)
    /\ rd' = [i |-> rd.i + 1, pos |-> 0, low |-> 0]
    /\ progs' = Append(progs, [start |-> Len(image), end |-> Unset])
    /\ \/ Opens(Programs[rd.i + 1]) /\ pc' = "read" /\ NoFault
       \/ ~Opens(Programs[rd.i + 1]) /\ pc' = pc /\ NoFault
       \/ Opens(Programs[rd.i + 1]) /\ pc' = pc /\ Fault("open")
    /\ UNCHANGED <<job, size, result, cap, image, ivt, stores, kernelsize, out, stage, err, off, h,
                   ldrvars, romvars>>

\* A cell of the buffer; nothing is known of what was not read.
Buffer(i) == IF i \in DOMAIN over THEN over[i] ELSE IF i \in DOMAIN image THEN image[i] ELSE <<>>

\* Where the size is stored: behind the IVT, or that of the plugin there and that
\* of the image before the end of the plugin.  The syspage has a head and an entry
\* for each program; it is not stored if it is too big.
SizeAt       == MinKernel + IvtSz
SizeField    == SizeAt + 1 .. SizeAt + IF job.plugin THEN IntSz ELSE OffsetSz
PluginSlot(z) == IF job.plugin THEN z - PluginEnd + 1 .. z - PluginEnd + OffsetSz ELSE {}
SyspageField == IF Len(progs) > MaxProgs THEN {} ELSE SysAt + 1 .. SysAt + 1 + Len(progs)

\* (z + 0x199) & ~0x1ff
Pages(z) == ((z + 409) \div 512) * 512

\* The numbers are stored first, the syspage last.
Stored(z) ==
    [i \in SizeField \cup PluginSlot(z) \cup SyspageField |->
        CASE i \in SyspageField -> <<"syspage", i - SysAt>>
          [] i \in PluginSlot(z) \ SyspageField -> <<"size", Len(image)>>
          [] OTHER -> <<"size", IF job.plugin THEN Pages(z) ELSE Len(image)>>]

\* The size of the plugin is what the kernel has behind its IVT, if it is so long.
Stated == SizeAt + 1 .. SizeAt + IntSz
PluginSizes ==
    IF job.plugin /\ \E i \in Stated : Buffer(i) # <<job.kernel, i>> THEN Garbage
    ELSE {job.plugin_sz}

\* The sizes and the syspage are stored in the image, if the syspage is not too
\* big; with -o the output file is created.  Nobody looks whether the kernel
\* reaches as far as the sizes: a store may hit a program or, which may end in a
\* crash, what lies outside of the buffer.
write_syspage ==
    /\ pc = "next" /\ rd.i = Len(Programs)
    /\ \E z \in PluginSizes :
       LET outside == ~(SizeField \cup PluginSlot(z) \subseteq 1 .. cap)
           noted   == IF outside THEN cause \cup {"overrun"} ELSE cause
       IN
       /\ plugin_sz' = z /\ over' = Stored(z)
       /\ \/ outside /\ Exit("crash") /\ cause' = noted /\ UNCHANGED <<faults, out, stage>>
          \/ /\ Len(progs) > MaxProgs /\ Exit("-1") /\ cause' = noted
             /\ UNCHANGED <<faults, out, stage>>
          \/ /\ Len(progs) <= MaxProgs /\ job.via = "output" /\ cause' = noted
             /\ pc' = "write" /\ out' = [out EXCEPT !.left = cap] /\ UNCHANGED <<faults, result, stage>>
          \/ /\ Len(progs) <= MaxProgs /\ job.via = "output" /\ Fault("open")
             /\ Exit("-1") /\ UNCHANGED <<out, stage>>
          \/ /\ Len(progs) <= MaxProgs /\ job.via # "output" /\ cause' = noted
             /\ pc' = "dispatch" /\ stage' = (IF job.plugin THEN 1 ELSE 2)
             /\ UNCHANGED <<faults, result, out>>
    /\ UNCHANGED <<job, size, cap, image, ivt, rd, progs, kernelsize, err, off, h, ldrvars, romvars>>

\* A turn of the loop that writes the output file: from what the last write
\* returned, which is not the sum of all of them.
write_turn ==
    /\ pc = "write"
    /\ \/ out.left <= 0 /\ Exit("0") /\ NoFault /\ UNCHANGED out
       \/ /\ out.left > 0 /\ UNCHANGED <<pc, result>>
          /\ \E n \in 1 .. out.left :
             /\ IF n = out.left THEN NoFault
                ELSE Fault(IF "short" \in cause THEN "short_again" ELSE "short")
             /\ out' = [file |-> out.file \o [i \in 1 .. n |-> Buffer(out.last + i)],
                        left |-> out.left - n, last |-> n]
       \/ /\ out.left > 0 /\ Fault("write") /\ UNCHANGED <<pc, result>>
          /\ out' = [out EXCEPT !.left = @ + 1, !.last = -1]
       \/ out.left > 0 /\ Fault("write") /\ pc' = "spin" /\ UNCHANGED <<result, out>>
    /\ UNCHANGED <<job, size, cap, image, ivt, stores, rd, progs, kernelsize, stage, err, off, h,
                   ldrvars, romvars>>

-----------------------------------------------------------------------------
(* usb_vybrid_dispatch: the upload.                                        *)

\* Transfers on a handle whose device has gone fail; others may.
HidOK      == h /\ NoFault
HidFails(c) == \/ ~h /\ NoFault
               \/ h /\ Fault(c)

\* usb_vybrid_dispatch returns to main, or to boot_image, which looks at the
\* result for the plugin and not for the image.
Returns(rc) ==
    \/ stage = 0 /\ Exit(rc) /\ UNCHANGED <<stage, err>>
    \/ stage = 1 /\ rc = "0" /\ pc' = "dispatch" /\ stage' = 2 /\ err' = 0 /\ UNCHANGED result
    \/ stage = 1 /\ rc # "0" /\ Exit("-1") /\ UNCHANGED <<stage, err>>
    \/ stage = 2 /\ job.via = "boot" /\ Exit("0") /\ UNCHANGED <<stage, err>>
    \/ stage = 2 /\ job.via = "imx" /\ pc' = "booting" /\ UNCHANGED <<result, stage, err>>

Again == pc' = "dispatch" /\ h' = FALSE /\ UNCHANGED <<result, stage, err>>

\* What is uploaded: all of the file, the plugin, all of the image.
Contents(n) == [i \in 1 .. n |-> Buffer(i)]
Payload == CASE stage = 0 -> Cells(job.kernel, size[job.kernel])
             [] stage = 1 -> Contents(plugin_sz)
             [] stage = 2 -> Contents(Len(image))

\* Any device of the vendor is taken, whatever runs on it.
open_vybrid == plugged

\* Mutant: an attempt that fails is not counted.
usb_vybrid_dispatch_uncounted ==
    /\ pc = "dispatch" /\ open_vybrid /\ h' = TRUE /\ pc' = "status"
    /\ UNCHANGED <<job, size, imgvars, off, ldrvars, romvars, result, stage, err, faults, cause>>

\* The head of the loop: give up after too many failures, or wait for a device.
\* One that is there but cannot be opened is waited for, and not counted.
usb_vybrid_dispatch ==
    /\ pc = "dispatch"
    /\ \/ err > MaxErr /\ Returns("-1") /\ NoFault /\ UNCHANGED h
       \/ /\ err <= MaxErr /\ open_vybrid /\ h' = TRUE /\ err' = err + 1 /\ pc' = "status"
          /\ NoFault /\ UNCHANGED <<result, stage>>
       \/ /\ err <= MaxErr /\ open_vybrid /\ Fault("no_device")
          /\ UNCHANGED <<pc, result, stage, err, h>>
    /\ UNCHANGED <<job, size, imgvars, off, ldrvars, romvars>>

\* Only a ROM answers; a failure is final.
do_status ==
    /\ pc = "status"
    /\ \/ /\ dev \in {"rom", "ddr"} /\ HidOK /\ pc' = "load" /\ UNCHANGED <<result, stage, err, h>>
       \/ /\ \/ dev = "loader" /\ HidOK
             \/ HidFails("status_command")
          /\ Returns("-1") /\ h' = FALSE
    /\ UNCHANGED <<job, size, imgvars, off, ldrvars, romvars>>

\* The write_file command, before which load_file opens the file.
load_command ==
    /\ pc = "load"
    /\ LET opened == stage # 0 \/ size[job.kernel] >= 0 IN
       \/ /\ opened /\ HidOK /\ want' = Len(Payload) /\ mem' = <<>> /\ off' = 0
          /\ pc' = "data" /\ UNCHANGED <<result, stage, err, h>>
       \/ /\ \/ ~opened /\ NoFault
             \/ opened /\ HidFails("transfer")
          /\ Again /\ UNCHANGED <<want, mem, off>>
    /\ UNCHANGED <<job, size, imgvars, ldrvars, dev, plugged>>

\* Mutant: a chunk that could not be sent is passed over.
load_data_unchecked ==
    /\ pc = "data" /\ off < Len(Payload)
    /\ off' = MinOf(off + HidChunk, Len(Payload))
    /\ \/ HidOK /\ mem' = mem \o SubSeq(Payload, off + 1, off')
       \/ HidFails("transfer") /\ UNCHANGED mem
    /\ pc' = IF off' = Len(Payload) THEN "hab" ELSE pc
    /\ UNCHANGED <<job, size, result, imgvars, stage, err, h, ldrvars, dev, plugged, want>>

\* The contents in chunks.  A plugin that is longer than the buffer, by what the
\* image states, is read beyond it.
load_data ==
    /\ pc = "data"
    /\ \/ off >= Len(Payload) /\ pc' = "hab" /\ NoFault /\ UNCHANGED <<result, stage, err, off, h, mem>>
       \/ /\ off < Len(Payload) /\ HidOK
          /\ off' = MinOf(off + HidChunk, Len(Payload))
          /\ mem' = mem \o SubSeq(Payload, off + 1, off')
          /\ UNCHANGED <<pc, result, stage, err, h>>
       \/ off < Len(Payload) /\ HidFails("transfer") /\ Again /\ UNCHANGED <<off, mem>>
       \/ /\ stage # 0 /\ off < Len(Payload) /\ MinOf(off + HidChunk, Len(Payload)) > cap
          /\ Exit("crash") /\ NoFault /\ UNCHANGED <<stage, err, off, h, mem>>
    /\ UNCHANGED <<job, size, imgvars, ldrvars, dev, plugged, want>>

\* The HAB mode (report 3).
load_hab ==
    /\ pc = "hab"
    /\ \/ HidOK /\ pc' = "complete" /\ UNCHANGED <<result, stage, err, h>>
       \/ HidFails("transfer") /\ Again
    /\ UNCHANGED <<job, size, imgvars, off, ldrvars, romvars>>

\* The complete status (report 4).  load_image goes on to the jump when a report
\* came, whatever it says; load_file returns the positive length of the report,
\* which its caller takes for an error.
load_complete ==
    /\ pc = "complete"
    /\ \/ /\ HidOK /\ UNCHANGED mem
          /\ IF stage = 0 THEN Again ELSE pc' = "jump" /\ UNCHANGED <<result, stage, err, h>>
       \/ /\ h /\ Fault("bad_status") /\ mem' = <<>>
          /\ IF stage = 0 THEN Again ELSE pc' = "jump" /\ UNCHANGED <<result, stage, err, h>>
       \/ HidFails("transfer") /\ Again /\ UNCHANGED mem
    /\ UNCHANGED <<job, size, imgvars, off, ldrvars, dev, plugged, want>>

\* The plugin is a part of the kernel, IVT and size included.
PluginFits == plugin_sz = job.plugin_sz /\ SizeAt + IntSz <= plugin_sz /\ plugin_sz <= kernelsize

\* What runs on the device when it jumps: the plugin needs the addresses that
\* were found in the IVT, and an image for the DDR memory needs the plugin.
Started == CASE stage = 1 /\ mem = Payload /\ ivt /\ PluginFits -> "ddr"
             [] stage = 2 /\ mem = Payload /\ job.plugin /\ dev = "ddr" -> "loader"
             [] stage = 2 /\ mem = Payload /\ ~job.plugin /\ ivt -> "loader"
             [] OTHER -> "dead"

\* The device leaves the bus and comes back, if at all, as something else.
device_starts == dev' = Started /\ plugged' = FALSE /\ mem' = <<>> /\ want' = 0

\* The jump command.
jmp_2_addr ==
    /\ pc = "jump"
    /\ \/ HidOK /\ pc' = "jump_hab" /\ UNCHANGED <<result, stage, err, h>>
       \/ HidFails("transfer") /\ Again
    /\ UNCHANGED <<job, size, imgvars, off, ldrvars, romvars>>

\* The HAB mode; the device may have jumped when it cannot be received.
jmp_hab ==
    /\ pc = "jump_hab"
    /\ \/ HidOK /\ pc' = "jump_status" /\ UNCHANGED <<result, stage, err, h, romvars>>
       \/ ~h /\ NoFault /\ Again /\ UNCHANGED romvars
       \/ h /\ Fault("jump_answer") /\ Again /\ (device_starts \/ UNCHANGED romvars)
    /\ UNCHANGED <<job, size, imgvars, off, ldrvars>>

\* A device that answers now has refused; that nothing can be read is taken for
\* success, also when the device is still there.
jmp_status ==
    /\ pc = "jump_status"
    /\ \/ /\ h /\ NoFault /\ device_starts /\ Returns("0") /\ h' = FALSE
       \/ h /\ Fault("refused") /\ Again /\ UNCHANGED romvars
       \/ /\ h /\ Fault("unheard") /\ Returns("0") /\ h' = FALSE /\ UNCHANGED romvars
       \/ ~h /\ NoFault /\ Returns("0") /\ UNCHANGED <<h, romvars>>
    /\ UNCHANGED <<job, size, imgvars, off, ldrvars>>

-----------------------------------------------------------------------------
(* usb_imx_dispatch: the modules.                                          *)

\* A device with the loader's identity: some ROMs have the same.
LoaderSeen == plugged /\ (dev = "loader" \/ (job.sameid /\ dev \in {"rom", "ddr"}))

open_device_with_vid_pid ==
    /\ pc = "booting" /\ LoaderSeen
    /\ \/ /\ h' = TRUE /\ pc' = "module" /\ UNCHANGED faults
          /\ cause' = IF dev = "loader" THEN cause ELSE cause \cup {"mistaken"}
       \/ Fault("no_device") /\ UNCHANGED <<pc, h>>
    /\ UNCHANGED <<job, size, result, imgvars, stage, err, off, ldrvars, romvars>>

send_mod_name(t) == << <<t.file, t.x>> >>

\* The arguments with the byte that ends them, of which as much as fits is sent;
\* nothing behind the "=" is no arguments.
send_mod_args(t) ==
    LET all == IF t.args <= 0 THEN <<>> ELSE Append(Cells("args", t.args), <<"nul">>)
    IN  SubSeq(all, 1, MinOf(Len(all), MaxArgs))

\* The next module is read; there are no modules to speak of if the string is
\* empty, and its missing first token is used.
load_module ==
    /\ pc = "module"
    /\ LET k == Len(loaded) + 1 IN
       \/ Modules = <<>> /\ Exit("crash") /\ NoFault /\ UNCHANGED <<loaded, item, off>>
       \/ /\ Modules # <<>> /\ k > Len(Modules) /\ pc' = "close" /\ result' = "0"
          /\ NoFault /\ UNCHANGED <<loaded, item, off>>
       \/ /\ k \in DOMAIN Modules /\ pc' = "close" /\ result' = "1"
          /\ \/ size[Modules[k].file] < 0 /\ NoFault
             \/ size[Modules[k].file] >= 0 /\ Fault("module")
          /\ UNCHANGED <<loaded, item, off>>
       \/ /\ k \in DOMAIN Modules /\ size[Modules[k].file] >= 0 /\ NoFault
          /\ loaded' = Append(loaded, << send_mod_name(Modules[k]), send_mod_args(Modules[k]),
                                         Cells(Modules[k].file, size[Modules[k].file]) >>)
          /\ item' = 1 /\ off' = 0 /\ pc' = "announce" /\ UNCHANGED result
    /\ UNCHANGED <<job, size, imgvars, stage, err, h, at, rx, got, romvars>>

\* The loader takes name, arguments and contents in turn, each announced with
\* its size; a name of size 0 ends it.  It is lost when an item is not finished.
NoItem == [want |-> 0, have |-> <<>>, parts |-> <<>>]
LoaderDone(cells) ==
    LET parts == Append(rx.parts, cells) IN
    /\ rx' = IF at = "contents" THEN NoItem ELSE [NoItem EXCEPT !.parts = parts]
    /\ got' = IF at = "contents" THEN Append(got, parts) ELSE got
    /\ at' = CASE at = "name" -> "args" [] at = "args" -> "contents" [] OTHER -> "name"
LoaderCommand(n) ==
    IF dev # "loader" \/ at \in {"closed", "lost"} THEN UNCHANGED <<at, rx, got>>
    ELSE IF rx.want > 0 THEN at' = "lost" /\ UNCHANGED <<rx, got>>
    ELSE IF n > 0 THEN rx' = [rx EXCEPT !.want = n] /\ UNCHANGED <<at, got>>
    ELSE IF at = "name" THEN at' = "closed" /\ UNCHANGED <<rx, got>>
    ELSE LoaderDone(<<>>)
LoaderData(cells) ==
    IF dev # "loader" \/ at = "lost" THEN UNCHANGED <<at, rx, got>>
    ELSE LET have == rx.have \o cells IN
         IF Len(have) < rx.want THEN rx' = [rx EXCEPT !.have = have] /\ UNCHANGED <<at, got>>
                                ELSE LoaderDone(have)

Item == loaded[Len(loaded)][item]
NextItem == /\ item' = IF item = 3 THEN 1 ELSE item + 1
            /\ off' = 0 /\ pc' = IF item = 3 THEN "module" ELSE "announce"
NotSent  == HidFails("send") /\ pc' = "close" /\ result' = "1" /\ UNCHANGED <<item, off, at, rx, got>>

\* The write_file command of an item; nothing follows an empty one.
send_module ==
    /\ pc = "announce"
    /\ \/ /\ HidOK /\ LoaderCommand(Len(Item)) /\ UNCHANGED result
          /\ IF Item = <<>> THEN NextItem ELSE pc' = "send" /\ UNCHANGED <<item, off>>
       \/ NotSent
    /\ UNCHANGED <<job, size, imgvars, stage, err, h, loaded, romvars>>

\* Mutant: a chunk that could not be sent is passed over.
send_mod_contents_unchecked ==
    /\ pc = "send"
    /\ LET n == MinOf(HidChunk, Len(Item) - off) IN
       /\ \/ HidOK /\ LoaderData(SubSeq(Item, off + 1, off + n))
          \/ HidFails("send") /\ UNCHANGED <<at, rx, got>>
       /\ IF off + n = Len(Item) THEN NextItem ELSE off' = off + n /\ UNCHANGED <<pc, item>>
    /\ UNCHANGED <<job, size, result, imgvars, stage, err, h, loaded, romvars>>

\* A chunk of it.
send_mod_contents ==
    /\ pc = "send"
    /\ LET n == MinOf(HidChunk, Len(Item) - off) IN
       \/ /\ HidOK /\ LoaderData(SubSeq(Item, off + 1, off + n)) /\ UNCHANGED result
          /\ IF off + n = Len(Item) THEN NextItem ELSE off' = off + n /\ UNCHANGED <<pc, item>>
       \/ NotSent
    /\ UNCHANGED <<job, size, imgvars, stage, err, h, loaded, romvars>>

\* The end of the session; whether the command is sent is not looked at.
send_close_command ==
    /\ pc = "close" /\ pc' = "ended"
    /\ \/ HidOK /\ LoaderCommand(0)
       \/ HidFails("send") /\ UNCHANGED <<at, rx, got>>
    /\ h' = FALSE
    /\ UNCHANGED <<job, size, result, imgvars, stage, err, off, loaded, item, romvars>>

-----------------------------------------------------------------------------
(* The device and the files.                                               *)

\* What was started brings up USB again.
appear ==
    /\ ~plugged /\ dev \in {"ddr", "loader"} /\ plugged' = TRUE /\ pc # "ended"
    /\ UNCHANGED <<job, size, pc, result, imgvars, stage, err, off, h, ldrvars, dev, want, mem,
                   faults, cause>>

\* The cable: the device falls back to its ROM.
unplug ==
    /\ plugged /\ pc # "ended" /\ Fault("unplug")
    /\ plugged' = FALSE /\ h' = FALSE /\ dev' = "rom" /\ mem' = <<>> /\ want' = 0
    /\ at' = "name" /\ rx' = NoItem
    /\ UNCHANGED <<job, size, pc, result, imgvars, stage, err, off, loaded, item, got>>
plug ==
    /\ ~plugged /\ dev = "rom" /\ pc # "ended" /\ plugged' = TRUE
    /\ UNCHANGED <<job, size, pc, result, imgvars, stage, err, off, h, ldrvars, dev, want, mem,
                   faults, cause>>

\* Somebody appends to a file of the image, or cuts it, while it is made.
resize(f, n) ==
    /\ pc \in {"read", "next"} /\ size[f] >= 0 /\ n >= 0 /\ Fault("resize")
    /\ size' = [size EXCEPT ![f] = n]
    /\ UNCHANGED <<job, pc, result, imgvars, stage, err, off, h, ldrvars, romvars>>

Init ==
    /\ job \in Jobs /\ size = job.size /\ pc = "main" /\ result = ""
    /\ cap = 0 /\ image = <<>> /\ ivt = FALSE /\ over = <<>> /\ plugin_sz = 0
    /\ rd = [i |-> 0, pos |-> 0, low |-> 0] /\ progs = <<>>
    /\ kernelsize = 0 /\ out = [file |-> <<>>, left |-> 0, last |-> 0]
    /\ stage = 0 /\ err = 0 /\ off = 0 /\ h = FALSE /\ loaded = <<>> /\ item = 1
    /\ dev = "rom" /\ plugged \in BOOLEAN /\ want = 0 /\ mem = <<>>
    /\ at = "name" /\ rx = NoItem /\ got = <<>>
    /\ faults = 0 /\ cause = {}

phoenixd ==
    \/ main \/ boot_image \/ read_turn \/ read_end \/ append_sysprogs \/ write_syspage
    \/ write_turn \/ usb_vybrid_dispatch \/ do_status \/ load_command \/ load_data
    \/ load_hab \/ load_complete \/ jmp_2_addr \/ jmp_hab \/ jmp_status \/ open_device_with_vid_pid
    \/ load_module \/ send_module \/ send_mod_contents \/ send_close_command

Next == \/ phoenixd \/ appear \/ unplug \/ plug
        \/ \E f \in DOMAIN size, d \in {-1, 1} : resize(f, size[f] + d)

Spec == Init /\ [][Next]_vars /\ WF_vars(phoenixd) /\ WF_vars(appear)

-----------------------------------------------------------------------------
(* Properties.                                                             *)

\* What the image was made from did not change, all of it was counted, and every
\* read succeeded.
Undisturbed == cause \cap {"count", "read", "resize"} = {}

\* Where sizes are stored, and that the kernel reaches so far.
Sizes == SizeField \cup PluginSlot(plugin_sz)
Roomy == Sizes \subseteq 1 .. kernelsize

\* The kernel is at the beginning, but for what is stored over it.
KernelIntact ==
    /\ \A i \in 1 .. kernelsize :
          Buffer(i) = <<job.kernel, i>> \/ i \in Sizes \cup (SysAt + 1 .. MinKernel)
    /\ kernelsize > 0 => kernelsize = size[job.kernel]

\* A program that could be opened lies whole at its extent.
ProgramIntact(i) ==
    LET f == Programs[i].file IN
    /\ progs[i].start >= kernelsize /\ \A k \in 1 .. i - 1 : progs[k].end <= progs[i].start
    /\ progs[i].end # Unset =>
          /\ progs[i].end = progs[i].start + size[f]
          /\ \A k \in 1 .. size[f] : \/ Buffer(progs[i].start + k) = <<f, k>>
                                     \/ ~Roomy /\ progs[i].start + k \in Sizes
    /\ ~(rd.i = i /\ pc = "read") /\ progs[i].end = Unset =>
          ~Opens(Programs[i]) \/ "open" \in cause

\* The syspage tells the kernel where the programs are: each one that could be
\* opened lies whole at its extent, behind the kernel and the ones before it, in
\* an image that fits its buffer.  The sizes and the syspage are stored over the
\* kernel and nothing else; the exception is a kernel that ends before them, with
\* which they go into a program or behind the buffer.  A file written with -o is
\* that image, unless write() was cut short more than once or failed.
ImageFaithful ==
    Undisturbed =>
        /\ KernelIntact /\ \A i \in 1 .. Len(progs) : ProgramIntact(i)
        /\ Len(image) <= cap
        /\ job.via = "output" /\ result = "0" /\ cause \cap {"write", "short_again", "open"} = {}
              => out.file = Contents(Len(image))

\* The device is never made to run less than the whole image at its address,
\* through all retries.  The exceptions: it was unplugged on the way or its refusal
\* to jump was lost (both of which the jump takes for success), it reported a bad
\* transfer (which load_image goes on after), the kernel ends before the end of its
\* IVT or was misread, so that the addresses are unset, or it states a size of the
\* plugin that cannot be.
StartsWhole ==
    dev = "dead" => \/ cause \cap {"unplug", "unheard", "bad_status"} # {} \/ ~ivt
                    \/ job.plugin /\ ~PluginFits

\* The loader gets the modules of the command line whole and in order.  Only the
\* last can be wrong, and only after a failed transfer: the close command that
\* follows is also the announcement of empty arguments or contents.  Exit code 0
\* means that all of them came, 1 that one was missing or failed, and the loader
\* has been told the end, unless a ROM was taken for the loader.
ModulesExact ==
    /\ Len(got) <= Len(loaded)
    /\ \A i \in 1 .. Len(loaded) :
          /\ loaded[i][1] = << <<Modules[i].file, Modules[i].x>> >>
          /\ Modules[i].args <= 0 => loaded[i][2] = <<>>
          /\ 0 < Modules[i].args /\ Modules[i].args < MaxArgs =>
                loaded[i][2] = Append(Cells("args", Modules[i].args), <<"nul">>)
    /\ \A i \in 1 .. Len(got) : got[i] # loaded[i] => i = Len(loaded) /\ "send" \in cause
    /\ pc = "ended" /\ job.via = "imx" /\ result \in {"0", "1"} /\ "mistaken" \notin cause =>
          /\ result = "0" => Len(loaded) = Len(Modules) /\ got = loaded
          /\ result = "1" => \/ cause \cap {"send", "unplug", "module"} # {}
                             \/ \E t \in {Modules[i] : i \in DOMAIN Modules} : size[t.file] < 0
          /\ cause \cap {"send", "unplug"} = {} => at = "closed"

\* The program ends, or waits for a device that nobody plugs in, or for one that does
\* not come up, which takes a fault, a kernel without IVT or a bad plugin, or it is
\* caught in a loop by read or write errors.
SessionEnds ==
    \/ <>(pc = "ended")
    \/ <>[](pc = "dispatch" /\ dev = "rom" /\ ~plugged)
    \/ <>[](/\ cause # {} \/ ~ivt \/ (job.plugin /\ ~PluginFits)
            /\ \/ pc = "dispatch" /\ ~open_vybrid
               \/ pc = "booting" /\ ~LoaderSeen)
    \/ <>[](pc = "spin" /\ cause # {})
=============================================================================
