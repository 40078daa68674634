# Verification of phoenix-rtos-hostutils

phoenix-rtos-hostutils are the programs that run on a developer's machine beside
a Phoenix-RTOS target: a file server and loader on a serial line or a network
(`phoenixd`), the builder of the system page (`syspagen`), a partition-table
editor (`psdisk`), a maker of read-only file systems (`mkrofs`), two uploaders
(`mcxisp`, `psu`), and some converters. This
directory holds TLA+ models of their control logic, TLC configurations that check
them, and proofs that TLAPS checks.

Everything here is run from this directory:

    tlc -config Phfs.cfg MCPhfs           # a model-checking run
    tlapm PhfsProofs.tla                  # one module's proofs

`PROJECT.json` lists components, runs, properties, the definition-to-source map,
mutants (a changed definition for every property, with which the property
fails), findings, hazards and theorems.

## 1. Inventory

### phoenixd

**phfs file server** (`phfs.c`). *State:* the host kernel's descriptor table and
the files below `sysdir`; no session, no client identity. *Operations:* open,
read, write, close, reset, stat, one reply per request, built in the request's
own buffer. *Hard:* handles are raw descriptors which `open()` reuses at once;
`phfs_close` closes any number it is given, and `phfs_reset` all but one; the
client repeats requests, so each handler may run several times. *Correct when*
a handle the client holds is its file, acknowledged data are on disk, an answer
belongs to the request that waits for it, and the line survives.

**dispatcher** (`dispatch.c`). *State:* the input and output descriptors, the
receive state, a retry counter. *Operations:* open the line for one of four
transports, receive, hand over to `phfs_handlemsg`, answer `MSG_ERR`, leave on a
receive error. *Correct when* it serves until the line fails, and every request is answered.

**framing** (`msg.c`, `msg_tcp.c`). *State:* synchronised or not, an escape flag
and a partly filled message, kept across calls. *Operations:* send and receive
byte by byte. *Hard:* lost and garbled bytes, a length field that lies, frames
cut short by a non-blocking write. *Correct when* it stays inside its buffer and
finds the next frame again.

**UDP** (`msg_udp.c`). One datagram is one message; a child broadcasts HELLO.

**BSP loader** (`bsp.c`) and **session** (`phoenixd.c`). *State:* the file and
frame being sent, the last number received, a failure counter. *Operations:* send
a frame and wait for a reply with a new number, retry, give up; send a kernel or
a program. *Hard:* frames carry no number; a time-out ends the transfer while the
target may go on; the final GO of a kernel is not acknowledged. *Correct when*
the target runs only what is complete and in order, and the session goes on. Its
frames (`bsp_send`, `bsp_recv`) have an escape byte, a checksum that leaves out
what was escaped, an end mark and no start mark.
`main` forks one child for each line; children share nothing but the files.

### The other programs

**syspagen** (`syspagen.c`). *State:* a buffer with a bump allocator, two rings of
objects linked by pointers inside it, aliases. *Operations:* `alias`, `map`,
`app`, `console` from two scripts, then writing the image; everything exists for
32 and 64 bits. *Hard:* truncation to 32 bits and to 8-bit identifiers, a buffer
that fills up in the middle of a command, hand-made ring relinking. *Correct
when* rings are whole, maps do not overlap, objects do not overlap, and programs
refer to the maps they named.

**psdisk** (`psdisk.c`). *State:* the image, a list of nodes to save and to
remove, one counter for both. *Operations:* `-m`, `-p`, `-r`, then create, update
or show. *Hard:* combinations and orders of options, a table overwritten in place,
clean-up of files it made. *Correct when* a success is exact and a failure harmless.

**mcxisp** (`mcxisp.c`). *State:* position in the file, flash address, retry
counters, half-read answers. *Operations:* ping, erase, write page by page,
reset, each with an "ack ladder". *Hard:* late and left-over answers, damaged
frames, page boundaries. *Correct when* "Done." means the flash holds the file.

**psu** (`psu.c`, `common/script.c`). *State:* a look-ahead parser, a device handle, a
buffer. *Operations:* `WAIT`, `WRITE_FILE`, `LOAD_IMAGE`, `WRITE_REGISTER`,
`JUMP_ADDRESS`, `ERROR_STATUS`, `GET_PROPERTY`; the script is run twice, first dry.
*Hard:* tokens that cannot be read, the parser's state between the two passes, a
stale handle after `WAIT`. *Correct when* no device is touched by a script with an
error and success means every command was carried out.

**SDP over USB** (`usb_imx.c`, `usb_vybrid.c`, called from `phoenixd`'s `main`).
*State:* the image with its syspage, the attempt, the position of a transfer, a
handle. *Operations:* put an image together from a kernel and programs in two
passes, write it to a file or upload it to a ROM, plugin first where there is
one, retry, jump, wait for the loader, send it modules as name, arguments and
contents. *Hard:* files that change between the passes, transfers that fail
half-way, an unplugged device that looks like a started one, a close command that looks
like an empty item. *Correct when* the syspage describes the image, the device
runs nothing less, and the loader gets the modules exactly.

**mkrofs** (`mkrofs.c`). *State:* a growing array of nodes, the current offset, the
image being written. *Operations:* a recursive walk that numbers nodes and copies
files, then padding, index, header with a checksum over the rest. *Hard:* files that change between
`stat` and copying, entries that cannot be read, names too long for a node, links that
make the directory contain itself, a crash before the header. *Correct when* the index mirrors
the directory, each extent is its file, and only a whole image has a header.

**metaelf**, **serial port** (`serial.c`), **HID access** (`hid.c`), **trace tools**: not
modelled, see section 7.

### How they interact

`phoenixd` composes serial/TCP/UDP/pipe, framing, dispatcher and phfs; in its other
modes serial, BSP and session, or SDP over USB. `PhfsSystem` composes dispatcher, handlers, transports
and a client; its line keeps order, loses whole messages, and may end the
dispatcher with a receive error, which is what `Framing` shows a damaged frame
leads to, except that a garbled byte inside the data goes unnoticed. The other programs are stand-alone and
meet the rest through files and boot loaders. All of them are single-threaded:
the interleavings are those between a program, its line, its peer, and the failures of both.

## 2. Modules

| module | models | built on |
|---|---|---|
| `Phfs` | handlers of `phfs.c`, descriptor table, files, `msg_send` | |
| `PhfsSystem` | `dispatch()`, `connect_pipes`, opening a line, a client, the line | `Phfs` |
| `PhfsProofs` | handles, the line, and the contents of the files: inductive invariants and theorems | `PhfsSystem` |
| `Framing` | `msg_serial_send/recv`, `msg_tcp_send/recv`, `bsp_send/recv` | |
| `Bsp` | `bsp_req`, `bsp_sendkernel`, `bsp_sendprogram`, `phoenixd_session`, the target | |
| `BspLoad` | abstract: what a transfer promises the target | refined by `Bsp` |
| `Syspagen` | allocator, rings, commands, scripts, writing | |
| `Psdisk` | calls of `psdisk` on one image | |
| `Mcxisp` | `mcxisp.c`, the boot loader, the line | |
| `Psu` | script parser and commands of `psu`, the device | |
| `Mkrofs` | `mkrofs.c`: walk, copying, index, header; the source directory | |
| `Sdp` | `boot_image`, `usb_vybrid_dispatch`, `usb_imx_dispatch`; ROM and loader | |
| `BspProofs`, `SyspagenProofs`, `PsdiskProofs`, `McxispProofs`, `PsuProofs`, `MkrofsProofs`, `SdpProofs` | inductive invariants and theorems | the module of that name |
| `MCxxx` | the finite sets that TLC runs use | |

**Phfs / PhfsSystem.** `fds` is the process's descriptor table (`Free`, `Link` for
the line, `File(path, rw)`), `disk` the files. The transport is the variable `mode`,
chosen once; which calls a client makes over it is the constant `Calls`. Each handler is one action including
its reply: the dispatcher is one process and reads the next message only after
`msg_send` returned. A failing host call (`faults`) takes the handler's error
branch. Sizes are scaled to a few cells; `SizeAssumption` is what the code's 512,
12, 4 and 44 satisfy. `Clamp` keeps the comparison of a signed length with an
unsigned bound. `phfs_stat` sends any size when `fstat` failed, because the
structure it copies is then uninitialized (`phfs.c:179`). The client, not in this
repository, is the weakest one the handlers can serve: one numbered request at
a time, repeated at any moment until an answer with its number comes.
`held` and `known` record what it may rely on.

**Framing.** `proto` is the protocol of a behaviour: serial, TCP or BSP. Bytes carry, for the
properties only, the frame they are from. The header is scaled to a checksum and a length; a length
may be one of the special bytes, and is then escaped like any other byte. The checksum is sent and,
as in the code, compared by no receiver (`msg.c:130` has the comparison commented out). A receive
routine that has returned an error is called again with the state it left, which is what its in/out
parameter is for; `dispatch()` itself ends with the first error (`dispatch_recv_error` in
`PhfsSystem`), so that `Resynchronises` is a property of the routine, on which the dispatcher relies
only while the receiver searches for a mark.

**Bsp.** A frame of a transfer is known by its place in the file: `<<k, i>>` is the header
of segment k or its i-th piece, and `After` is where the loops of the two functions go
next; `bsp_req` is send, then retry, accept or time-out. `BspLoad` is the same transfer as
the target sees it: a set of places that grows in order, and GO when it is whole. Reply
numbers and their comparison are the code's. A frame arrives, arrives damaged, or
does not arrive; that `bsp_recv` tells these apart, and where it does not, is `Framing`'s part
(`ChecksumCatches`, `BspRestarts`). The
target is external: it counts accepted frames, answers a damaged one with the old
number or an empty RETR, and asks again only when the host is back in its session.

**Syspagen.** `maps` and `progs` are functions from pointers to objects; `Visited`
is what the code's do-while loops see. Addresses are kept modulo `AddrMod32` where
the 32-bit structures hold them, identifiers modulo `IdMod`. A command that fails
keeps what it had allocated, and the program ends.

**Psdisk.** A behaviour is a series of calls; `opts`, `list` and `count` are the fields of
`psdisk_common`. The loop of `psdisk_updatePartsList` takes one step for each partition of
the image (`turn`), and merges it into the list (`Merge`). `Place` is where the loop of
`psdisk_createPartsTable` puts a node. libptable is external (`Valid`). Buffered output is
modelled: until the table is read back the file may hold old, new or mixed data.

**Mcxisp.** Answers are byte sequences, since the reader skips to a start byte and may begin in the
middle of one; outgoing frames are records. The boot loader is external and may answer at any later
time or report an error; it may also print bytes that belong to no answer (`noise`), start bytes
among them. Such a byte is not the second byte of an answer: a start byte and that would be an
answer for the host, whoever printed it.

**Psu.** A script is any sequence of tokens, line ends among them; the constant `Scripts` says
which, and the run takes those made of a few lines. `script_get_token`, `script_expect` and the loop
of `script_parse` are modelled token by token, including three kinds of tokens that cannot be read:
in front of a `bad` one the parser stays and the look-ahead is as it was; behind a `half` one
(`FOO#x`) it goes on at the odd character, and the look-ahead keeps the type and the number of the
token before (`Stale`); an `open` one, a quote that is not closed, takes the rest of the script. A
number stands for one that `strtoll` reads; negative ones are left out. Memory behind a file is
`Unknown`, which differs from every cell and from padding, and reading it may end psu (`crashed`).
The device answers or fails.

**Mkrofs.** The recursion of `processDir` is the variable `stack`. The source directory is a graph,
since `stat` follows links; a file may change while it is copied. A node has the name that fits it,
`trim[entry]`, which two entries of a directory may have in common. The failure of `processDir` also
stands for the exit on a path that is too long. `image` is what lies behind the header, `hdrbuf` the
header in the stream's buffer and `header` the one that `fclose` wrote. Offsets and sizes are modulo
`OffMod`, and the properties say what they say while the image `Fits`.

**Sdp.** `job` is the command line after `main` parsed it. `pc` runs through `boot_image`, the
upload (`stage` 0 for `-u`, 1 plugin, 2 image) and the modules. What `write_syspage` stores into the
image, the sizes behind the IVT and at the end of the plugin and the syspage, is `over`: the buffer
(`Buffer`) is what was read with that on top, wherever it falls. The size of the plugin is the
number the kernel has at that place, or any of `Garbage` if it is too short to have one
(`PluginSizes`). A read error is what the code makes of it: -1 bytes, so that the following ones go
one further down, or an endless loop if it lasts. The ROM takes a size and contents, reports, and on
a jump runs what it has if that is the whole image at its address (`Started`), else it is `dead`;
the loader takes name, arguments and contents in turn. Both are external. A device that is there may
fail to open; a refused jump may be heard, or lost with the read of the status, which the code takes
for success (`unheard`). `Counted` is the running total of the first pass over the programs, a
recursive function like the loop of the code; a program that could not be counted adds nothing.
`cause` records the kinds of faults that happened, for the exceptions the properties make:
`ImageFaithful` excludes a failed count, a failed read and a file that changed between the passes
(`Undisturbed`), and names what stores do if the kernel ends before their place (`Roomy`). Whether
the device is plugged in at the beginning is open, and is no fault.

## 3. Runs

| run | bounds | checks |
|---|---|---|
| `phfs` | pipes with files, UDP with opens and closes, TCP with long answers; 7 descriptors, 2 files, 2 messages each way, 1 fault | `LineStaysOpen`, `HeldHandlesOpen`, `AckedWritesOnDisk`, `ReadsAreCurrent`, `AnswerFitsRequest`, `ResetReclaims`, `RequestAnswered` |
| `framing` | three protocols, 7 byte values, data up to 3, lengths that are special bytes, 3 frames, 1 fault | `BufferBound`, `Resynchronises`, `BspRestarts`, `Faithful`, `ChecksumCatches` |
| `bsp_load` | kernel and program with whole, part and empty segments, 3 requests, 3 faults | `ImageExact`, `ProgramDone`, `TransferEnds`, `LoadSpec` |
| `syspagen` | 13 commands, buffer for about four objects, 3 identifiers | `MapRing`, `MapsDisjoint`, `ObjectsDisjoint`, `ProgramsSound` |
| `psdisk` | 2 calls, 3 options each, 1 fault | `UpdateExact`, `FailureHarmless` |
| `mcxisp` | files of 0 to 2.5 pages, 3 pings, 4 erase tries, 2 faults, noise among them | `FlashComplete`, `InStep`, `FailureJustified`, `Terminates` |
| `psu` | scripts of up to 3 lines out of 29, 1 fault | `HandlesSound`, `SyntaxChecked`, `ScriptCarriedOut`, `FileDelivered`, `ProperScriptsEnd` |
| `mkrofs` | 5 source directories, depth 3, 2 faults | `FilesIntact`, `IndexSound`, `TreeFaithful`, `HeaderLast`, `Terminates` |
| `sdp` | 15 command lines, 2 attempts, 3 faults | `ImageFaithful`, `StartsWhole`, `ModulesExact`, `SessionEnds` |
| `phfs_pipe_reconnect`, `syspagen_top`, `psu_invalid_token` | | findings, section 5 |

*Why the bounds are enough to be interesting.* Two messages in each direction allow a leftover of
the previous request beside the current one, with two sequence numbers, the fewest, as the code's
65536 must wrap as well. Seven descriptors leave two or three for files, so that repeated opens fill
the table. In `framing` the data hold all the special bytes, the lengths 2 and 3 are themselves
special and have to be escaped, and one fault can drop or garble any byte, the length included, or
cut a frame. In `bsp_load` three faults use up `MaxRep`. In `syspagen` the buffer is full after a
few commands in any order, three identifiers wrap, and some addresses are past `AddrMod32`. In
`psdisk` the first call makes an image and the second changes it; a table holds two partitions or
one, so it also overflows. In `mcxisp` sizes lie on, before and behind page boundaries, zero
included; `EraseTries > PingTries` as in the code (30 and 10). In `psu` three lines are a WAIT, a
command for the device, and what comes after; tokens that cannot be read stand at the beginning of
lines and among arguments. In `mkrofs` one directory contains itself, one is deeper than the limit,
one has files on, before and behind the ends of chunks, one has two names that are the same when
trimmed, and one does not fit the width of an offset. In `sdp` kernels end before, at and behind the
IVT and the sizes, a kernel is no plugin, programs are missing, empty, or too many, arguments at and
over their limit; three faults are more than the attempts, so that every way of giving up is taken.

Bounds on counters are in the guards and named: `Cap`, `MaxFaults`, `MaxLineFaults`, `MaxFrames`,
`MaxReqs`, `MaxAliases`, `MaxOpts`, `MaxRuns`, `MaxFile`, `MaxSize`, and `MaxLines` of `MCPsu`. Deadlock is
checked for `mcxisp` and `psu`. The others may really stop: a dispatcher that has left its
loop, a target that asks no more, a program that has ended.

## 4. Fairness

* `PhfsSystem!FairSpec`: the dispatcher's loop is always running (weak fairness of
  its steps); the client reads what arrives and, as the line may be full at times,
  repeats strongly fairly. A line that was closed gives a receive error. Losses
  are finite (`MaxFaults`). Clients need not call.
* `Bsp!FairSpec`: the host's loop runs, and its time-out expires. Nothing is assumed
  of the target or the line: `TransferEnds` rests on the host alone.
* `Mcxisp!Spec`: weak fairness of the host's steps; a read ends by its own
  one-second time-out. Nothing is assumed of target or line but that what the target
  prints is finite (`MaxFaults`): `tty_read` skips any number of bytes in search of a start byte, each with a
  time-out of its own, and never returns if others keep coming.
* `Psu!Spec`: weak fairness of `Next`. The reads of HID reports that `psu` makes have
  no time-out of their own, so a device that neither answers nor fails blocks it;
  the property is about the others.
* `Mkrofs!Spec`: weak fairness of `main`, which waits for nobody.
* `Sdp!Spec`: weak fairness of the host, whose transfers succeed or fail (a device
  that does neither blocks `hid_read`, which has no time-out), and of `appear`: what was
  started whole comes up on the bus. A device that is not plugged in need never be.

## 5. Findings

Each is a run that TLC must find violated.

* `PipeReconnects` (`dispatch.c:133`): a pipe is opened again after a receive error, as the
  comment announces, but the `break` behind it leaves the loop in every case.
* `RequestedMapsDisjoint` (`syspagen.c:440`): a map up to the top of the 32-bit
  address space gets end 0 and overlaps nothing.
* `EveryScriptEnds` (`script.c:275`): a character that begins no token, at the beginning
  of a line, keeps the dry run going round; at the beginning of the script it
  leads to the use of a null pointer.

Observed while modelling and part of the models, but contradicting no statement of the repository:
`msg_tcp_send` refuses `len >= MSG_MAXLEN` where the other transports say `>` (`msg_tcp.c:80`), so
that a full read over TCP is never answered, however often it is repeated (the exception in
`RequestAnswered`); checksums are never compared (`msg.c:130`); `mcxisp` does not look at the status
of a response (`mcxisp.c:212`), and an erase that takes longer than a second after its
acknowledgement makes the upload fail (`mcxisp.c:401`); `psu` takes the file's length as the size
whatever the offset (`psu.c:681`), and ignores a single token at the end of a script
(`script.c:330`); `psdisk` leaves an empty file behind after a wrong option (`psdisk.c:629`); the
index of a chunk is 16 bits wide in `bsp.c:187`, out of reach of segments that fit the targets;
`bsp_send`'s frame has one byte too few for a full message in which every byte is escaped, and
`bsp_recv` refuses a full message (`bsp.c:54`, `bsp.c:83`); `mkrofs` takes a read error for the end
of a file, does not look at `fclose` (the `Lost` header), and cuts names to 207 bytes without a
word, so that two entries of a directory may get one name (`mkrofs.c:348`); `mcxisp` does not come
back from a target that prints for ever (`mcxisp.c:286`).

In scripts, a name with an odd character in it is an error nobody looks at (`script.c:160`): on a
line of its own (`FOO#x`, `ERROR_STATUS#c`) it is dropped, and psu goes on and ends with success;
behind a number it counts as that number once more, so that `WAIT 1 A#c` is `WAIT 1 1`. A quote that
is not closed swallows the rest of the script. With an offset and no size `WRITE_FILE` sends memory
from behind the file (`psu.c:681`).

In the SDP modes: `load_file` returns the positive length of the last report, its caller takes
anything but 0 for an error (`usb_vybrid.c:334`), and so `-u` never gets to the jump and ends with
-1; `load_image` goes on to the jump after a bad status, as `<` is inside the assignment
(`usb_vybrid.c:208`); `boot_image` does not look at the result of the last upload and
`usb_imx_dispatch` then waits without a limit (`usb_imx.c:585`, `645`); a ROM with product 0x007d is
taken for the loader; a program that cannot be opened, as every one with an X or arguments, stays in
the syspage with end and name unassigned (`usb_imx.c:431`); a kernel of exactly 0x400 bytes passes
the check, but its addresses are never read (`usb_imx.c:509`); without modules a null pointer is
used (`usb_imx.c:681`); read and write errors are added to sizes as -1, and the loop of `-o` goes
wrong after two short writes (`usb_imx.c:596`); nobody looks whether the kernel reaches as far as
the sizes that are stored in it, so that with a kernel of 0x400 to 0x42b bytes they hit a program or
lie behind the buffer (`usb_imx.c:549`); the size of the plugin is rounded with 0x199 in place of
0x1ff, and so down if it is 1 to 0x66 bytes over a page (`usb_imx.c:549`); a status of the jump that
cannot be read counts as a successful jump (`usb_vybrid.c:233`); nothing is sent for `file=`
(`usb_imx.c:690`). The exceptions in the properties of `Sdp` name these cases and no others.

Where the code has one of these faults and a property would fail because of it, the property names
the case as an exception, says in its comment what happens then, and does not claim to catch it:
`RequestAnswered` (the full TCP answer), `BufferBound` (the frame of `bsp_send`), `Faithful` (it is
about undamaged frames), `FlashComplete` (refused writes), `FailureJustified` (late answers),
`SyntaxChecked` and `ScriptCarriedOut` (`Slips`), `FileDelivered` (unknown memory), `TreeFaithful`
(`SameTrimmed`), `StartsWhole` and `ModulesExact` (the `cause`s they list). `UpdateExact` is about
calls that changed the file: `psdisk -h` succeeds and leaves it as it was. The hazards in
`PROJECT.json` have a note in these cases.

## 6. Proofs

The theorems hold for every value of the constants that satisfies the named
assumptions, and TLC evaluates each assumption on the instances of the runs.
Each inductive invariant was checked with TLC on the instance of its run before
it was proved. In each module there is one lemma for each action or kind of
action, and lemmas for what the operators of the model return.

| module | theorem | states |
|---|---|---|
| `PhfsProofs` | `TypeCorrect`, `HandlesStayOpen`, `LineSafe`, `AnswersFit` | `TypeOK`, `HeldHandlesOpen`, `LineStaysOpen`, `AnswerFitsRequest` |
| | `WritesStay`, `ReadsStayCurrent`, `ResetsReclaim` | `AckedWritesOnDisk`, `ReadsAreCurrent`, `ResetReclaims` |
| `BspProofs` | `ImagesAreExact`, `ProgramsAreDone`, `LoadImplemented` | `ImageExact`, `ProgramDone`, `LoadSpec` |
| | `BuffersAreBounded`, `ReceiverResynchronises`, `BspReceiverRestarts`, `MessagesAreFaithful`, `ChecksumsCatch` | `BufferBound`, `Resynchronises`, `BspRestarts`, `Faithful`, `ChecksumCatches` |
| `SyspagenProofs` | `RingHolds`, `MapsStayDisjoint`, `ObjectsStayDisjoint`, `ProgramsStaySound` | `MapRing`, `MapsDisjoint`, `ObjectsDisjoint`, `ProgramsSound` |
| `PsdiskProofs` | `UpdatesAreExact`, `FailuresAreHarmless` | `UpdateExact`, `FailureHarmless` |
| `McxispProofs` | `FlashesAreComplete`, `UploadsAreInStep`, `FailuresAreJustified` | `FlashComplete`, `InStep`, `FailureJustified` |
| `MkrofsProofs` | `IndexStaysSound`, `FilesStayIntact`, `HeaderComesLast`, `TreesStayFaithful` | `IndexSound`, `FilesIntact`, `HeaderLast`, `TreeFaithful` |
| `SdpProofs` | `DeviceStartsWhole`, `ModulesArriveExact`, `ImageStaysFaithful` | `StartsWhole`, `ModulesExact`, `ImageFaithful` |
| `PsuProofs` | `SyntaxIsChecked`, `HandlesStaySound`, `FilesAreDelivered`, `ScriptsAreCarriedOut` | `SyntaxChecked`, `HandlesSound`, `FileDelivered`, `ScriptCarriedOut` |

**phfs: handles and the line** (any number of descriptors, paths, values, messages on
the line, faults and repetitions, every transport and repertoire of calls).
*Assumptions:* `NameAssumption`, `FdAssumption`, `SizeAssumption`, `SeqAssumption` (at least
two sequence numbers), `BoundAssumption`, `DiskAssumption`, `ModeAssumption` and `CallsAssumption`
(an open names a path, the client does not send HELLO).
*Argument:* none of the properties is inductive. A CLOSE that is still on the line, from an earlier
sending, would close whatever now has that number. What rules it out is order: the
line is first-in-first-out and the client has one request at a time, so requests on
the line form two blocks, leftovers of the previous request and then copies of
the current one (`RequestsInv`), and likewise replies (`RepliesInv`). When an answer
to the current request exists all leftovers before it have been served
(`AnsweredInv`); so when the client gets a handle, or starts a new request, no
CLOSE or RESET is left but those that concern nothing it holds (`ClosesInv`). A
handle in an answer that is not accepted yet is open already (`OpenedInv`).
`StartInv` covers the time before the line is open, when a client may already send.

**phfs: the files** (same assumptions). On top of that order: a write that is on the
line, or may be sent again, writes nothing to a cell the client knows but what is
there (`WritesInv`; for leftovers this needs that they are all one request,
`LeftoverInv`). An answer to the current write, read or reset that is on its way, in
any number of copies, is still true (`AckInv`, `ReadInv`, `ResetInv`): between the sending
of an answer and its acceptance the server runs nothing but repetitions of the same
request. `HandleInv` ties the request to a handle that is held.

**BSP** (all files, sizes of frames and ranges of numbers, any number of faults,
repetitions and requests). *Assumption:* `BspAssumption`. *Argument:* frames carry no number; what
keeps them in order is that there is one message on the line at a time (`LineInv`). The
frame the host is at, or that is on its way, is one that the target has everything
before and nothing behind (`Ready`, in `FrameInv` and `HostInv`); the number of the target
has moved away from the host's only if the target has that very frame, so that a reply
that `bsp_req` accepts says that the frame has come (`ReplyInv`). That GO means a whole
program is then a statement about places: nothing lies between a place and the one
after it. The refinement goes step by step: a request of the target is `Begin`, a
frame it did not have is `Deliver` and one it had is a stutter, the end of the
transfer is `Go`.

**Framing** (all messages, sizes of bytes and messages, values of the special bytes, any number of
frames and faults; `Framing` is proved about in `BspProofs`). *Assumptions:* `ByteAssumption` (the
special bytes differ and a length fits its field; it may be a special byte), `SentAssumption`.
*Argument:* `BufferBound` follows from what the receiver keeps of itself (`BaseInv`: types, the
order of frames, a receiver at rest has kept nothing, its index is inside its buffer). The other
properties need to know where in a frame the receiver is. A frame of which no byte was lost or
garbled is tracked from the moment it is sent (`Tracked`): r of its bytes are read, the others are
on the line in their order, behind p bytes of earlier frames (`Placed`). While it is being read the
receiver holds exactly what the r bytes unescape to, with the running sum over BSP (`MsgMid`,
`BspMid`), or it took the mark for the byte too much of a damaged frame and waits for the next one
(`Lost`). Which byte of the message a byte of the frame is of is said by offsets (`MsgLaid`,
`BspLaid`), so that no step unfolds the recursive encoders; that such offsets and sums exist for
each message takes the induction below. A frame that begins behind an undamaged one meets a receiver
at rest (`Idle`, `NextInv`). For `ChecksumCatches` a frame with one garbled byte that the sum covers
is tracked as the frame of another message with the same offsets (`Spoilt`), whose sums from that
byte on are moved by the same amount, which is not 0 modulo the size of a byte, so that the last one
is not the checksum. The proof made the property precise: `visible` is about a single garbled byte,
as two may compensate each other.

**syspagen** (any commands, buffer, alignment, sizes and widths of addresses and
identifiers). *Assumptions:* `SyspagenAssumption`, and `CommandsAssumption`: addresses and sizes
are what `strtoul` returns, names are names.
*Argument:* the four properties lean on one another. A map is compared with the maps
that the ring leads to, so that `MapsDisjoint` needs `MapRing`; a map linked into the
ring must be a fresh pointer, which follows from `LayoutInv`: every object so far lies
in turn between `SyspageSz` and `size`, aligned, below the next allocation. `ListInv` has
identifiers counting along the ring, so that different maps have different ones as
long as they do not wrap; `ProgsInv` keeps for each program which names its
identifiers denote; `ImageInv` that the image reaches to the end of each alias. The
proof showed that the last holds only while every alias ends below 2^32, as
`imgsz` is kept in 32 bits: `ProgramsSound` now says so.

**psdisk** (any partitions, memories, options, calls and faults). *Assumption:*
`PsdiskAssumption`. *Argument:* `count` is the length of the list (`TypeInv`), and a table is written
only when all nodes of the list are to be saved (`WriteInv`), so that node k goes to
place k and what is written is what is read back (`VerifyInv`): the comparison after
writing cannot fail without an I/O error, and a failing call leaves no table of its
own. For `UpdateExact` the merge needs its loop invariant `MergeInv`: so far the list
holds what was declared and the partitions of the image before `turn` that stay; each
removal is still in the list or has met its partition. That a name is met once uses
that the image's own names differ (`Valid`).

**mcxisp** (all sizes of files and pages, any number of tries and faults). *Assumption:*
`McxispAssumption`. *Argument:* an answer does not say what it answers. `FlashComplete` rests on
each being asked for once: an acknowledgement or a response that is on the line or half read is the
only one, and is about the frame the host waits for (`BytesInv`); that frame is on the line at most
once, and if it is, no answer to it is (`FramesInv`); the target works on no other (`TargetInv`). So
a ladder that is climbed says that the frame was carried out, and the flash holds the file up to
`address` or `pos` (`FlashInv`, `BookInv`). Leftovers of pings carry other types and cannot be taken
for an answer, and nor can what the target prints besides (`ByteMadeUp`). None of this needs a line
without faults, and after a failure none of it holds, as a host that gave up leaves its frame
behind. For `InStep` the invariant also lists where frames can be as long as no fault happened
(`Position`: pings and then the erase command, or the acknowledgement and then the frame that the
target waits for behind it, or nothing), and that a target whose response is on its way waits for
the acknowledgement with nothing on the line (`Answered`). `FailureJustified` needs to know the
bytes as well: what the host has read and will read is at most one byte of an answer that was
misread, some answers to pings, and the answers to the frame of the ladder (`Line`). An answer to a
ping that the ladder meets costs one try and leaves such a byte; so the tries used up, the answers
and pings that are left and a pending time-out never exceed the time-outs so far by more than
`PingTries - 1` (`Climb`, in `ReasonInv`).

**mkrofs** (every source directory, depth, chunk, header, node and width of an offset, any faults).
*Assumptions:* `MkrofsAssumption`, `TreesAssumption`. *Argument:* while the walk goes on `nextId`
counts the nodes (`CountInv`) and, as long as the image fits, `currOffset` is its end (`OffsetInv`);
everything is appended, so what was found at an offset stays there. `CopyInv` is the loop of the
copying: the cells so far are in place, and a file that has not changed cannot end early. `IndexInv`
and `HeaderInv` follow the index and the header until `fclose`. For `TreeFaithful` the invariant
`TreeInv` names a path for each node (`Pathed`): no two nodes have the same, every beginning of a
node's path is a node's path, and a directory that is being read is as deep as its place on the
stack (`Depths`), so that the depth limit cuts nothing off that `TreePaths` has. The name stored for
a node is its entry, trimmed; nodes of one directory with the same entry have the same path, so that
two nodes with one name are one node or the directory has two names that are the same when trimmed.
Each entry of a directory that has a node is of another kind, was passed over, has a node or is
still to be read (`Seen`), and no entry is two of these (`Taken`, `Untaken`). That these paths are
what the recursive definitions of the property compute takes the induction below.

**SDP** (every command line, sizes of files and chunks, faults). *Assumptions:* `SdpAssumption`,
`JobsAssumption`. *Argument:* for the upload, as long as nobody unplugs the device and no
bad status comes, the ROM holds the part of the payload that was sent (`SentInv`), and a
payload with a plugin meets what the plugin set up (`RunInv`), through all retries. That the
plugin is a part of the kernel with its IVT and size in it is no assumption but an exception (`PluginFits`). The
proof gave a stronger property than the one first checked: a read error needs no
exception. For the modules, while the handle is good, the loader waits for the very item that
the host is at and has what was sent of it (`SyncInv`); a failed transfer ends the
session, so the close command spoils at most the module at hand (`GotInv`, `ReasonInv`).

For the image the proof follows the two passes. `LengthInv` says that the buffer has the size of the
running totals and that what was read so far is as long as the total of the programs passed,
`ReadingInv` and `ProgInv` that each file lies where its entry says, `OutInv` that what `-o` has
written is the buffer up to where it is, while `write` is cut short at most once. `StoreInv` says
that nothing is stored before everything is read, and where: the syspage goes below `MinKernel`,
which is inside the kernel, the sizes to their fields, which are inside the kernel if it is long
enough. The recursive definition of the totals needs induction (below). The proof gave a stronger
property than the one first checked: that the buffer is never too small needs no exception, as it
can only happen when a file was not counted or has grown.

**psu** (every set of tokens and scripts, files, sizes of reports and faults). *Assumptions:*
`PsuAssumption`, `ScriptsAssumption` (a script is a sequence of tokens that is not empty).
*Argument:* the parser has one token of look-ahead, so its place is said by positions: what it looks
at is the token before `s.ptr` (`PosInv`), as the parser shows it (`View`: for a token that cannot
be read, what is left of the one before). The invariants are about this view, in which the second
pass finds every statement proper; that a statement proper in the view is proper in the script or
one of `Slips` comes last. A command of which n arguments have been read began n + 2 before it
(`Reading`). `ParserInv` says that every statement that begins before that place is proper, or that
the dry run hangs in front of a character that begins no token (`Hung`): so a second pass exists
only if all statements are proper, but for a last token without a newline (`Verified`). The second
pass then finds the arguments that the first has checked, so that `WAIT` cannot fail between closing
one device and opening the next; this is what `HandlesInv` needs. `CarriedInv` counts the commands
before the place reached and has one entry of what was done for each, on the device of the last
`WAIT` before it; `SentInv` is the loop over the reports, with the padding of the last.

*Induction over data.* The library's induction theorems take an operator as a parameter and
cannot be used. `WFMin`, that a set that is not empty has a least element in a well-founded
order, has none: what holds for all numbers is proved from the least number for which it
does not (`Least`).

*Only model-checked.* Liveness (`RequestAnswered`, `TransferEnds`, `Terminates`,
`ProperScriptsEnd`, `SessionEnds`) is out of the prover's reach. Every invariant and every safety property
of the passing runs is stated by a theorem.

## 7. Not modelled

* UDP reordering and duplication: the line keeps order. With reordering no property of handles
  holds, as requests carry no session, and nothing promises it.
* `metaelf`, `crc32.c`: one pass over one file, a checksum and a copy of bytes; its only state is
  the file. (Two things were seen in reading it: with `-w` the checksum is computed before the byte
  that says how it was made is set, and the result for an unsupported method is always overwritten.)
* `hid.c`: finds a device or does not; that is a fault of `Psu`.
* In the SDP modes: `write_reg`, which nothing calls; the values of addresses; how `base_name`
  shortens names; a device that neither answers nor fails.
* In psu: negative numbers; a script whose size is a multiple of a page, behind which the parser
  reads one character (`script.c:141`).
* In `mkrofs`: owners, times, modes, byte order and the polynomial of the checksum.
* `serial.c`: termios; its failures are the faults of the models that use it.
* trace tools: conversions with libraries for both formats.
* Option parsing, messages, dumps, and the texts of scripts below tokens.

## 8. State and plan

Done: the inventory; the models of all components that section 7 does not exclude;
proofs of the safety properties of `PhfsSystem`, `Bsp` (with its refinement), `Syspagen`,
`Framing`, `Psdisk`, `Psu`, `Sdp`, `Mkrofs` and `Mcxisp`.

Left, in this order:

1. UDP with reordering and duplication, once the protocol says what a client may
   rely on there: no property of handles holds without it (section 7).
2. Proofs of the liveness properties, when the prover can reason about fairness and ENABLED.
