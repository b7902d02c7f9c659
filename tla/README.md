# Safety island: models, checks and proofs

TLA+ models of the safety island (a triple-core-lockstep RISC-V subsystem with its own
memory, peripherals and AXI ports), the TLC configurations that check them on small
instances, and theorems about them that TLAPS proves for all values of their parameters.

Paths below are relative to the repository. `obi_to_axi.sv`,
`axi_to_detailed_mem_user.sv` and `axi_to_obi.sv` are in `future/axi_obi/src/`, "top" is
`rtl/safety_island_top.sv`, "pkg" `rtl/safety_island_pkg.sv`, "core wrapper"
`rtl/safety_core_wrap.sv`, "vip" `rtl/tb/vip_safety_island_soc.sv`.

## 1. The system

```
  AXI input --> axi_to_obi --+                      +--> memory banks (ECC)
               (2 adapters)  |                      |
  core: instr, data, shadow -+--> OBI crossbar -----+--> periph demux --> SoC ctrl, boot ROM,
  debug module --------------+   (address map)      |        |            debug, ECC mgr, timer
                                                    |        +--> core-local demux --> lockstep,
                                                    |                  CLIC, 3 bus error units
                                                    +--> obi_to_axi --> AXI output
```

| Component | State | Operations | What is hard |
|---|---|---|---|
| **`obi_to_axi`**: OBI requests to AXI transactions | which of AW and W was sent; three FIFOs with a tag per outstanding request | grant and send AR; send AW and W, in any order; answer | two channels handshaken independently; atomics answered on two channels; all requests share one ID |
| **`axi_to_detailed_mem_user`**: AXI bursts to memory beats | beats left and last beat per direction, the arbiter's selection and lock, fork and response buffers, collected faults | cut, arbitrate, fork, join, answer; top collects ECC faults around it | a fork whose outputs accept at different times; fairness between directions; one response for the faults of many beats |
| **`axi_to_obi`**: AXI input to OBI | two adapters (reads, writes), a mux of the OBI banks | demultiplex, translate atomics, multiplex | wide atomics become several OBI requests |
| **Interconnect and address map** (top, core wrapper) | none of its own but the routing of outstanding accesses | three decoders in a row | priority of rules that overlap, defaults, parameters that move everything |
| **SoC control registers** and first-cycle logic (`rtl/soc_ctrl`, top) | boot address, fetch enable, core status, boot mode, `first_cycle` | register writes with byte permissions, hardware writes in the first cycle, reset | who starts the core and when; what survives a reset |
| **Boot ROM** (`boot/crt0.S`, `boot/boot_code.c`) | the memory it clears | clear bss, switch over the boot mode | runs while a debugger prepares memory |
| **Loader** (vip, `rtl/tb/elfloader.cpp`) | what it has loaded | AXI flow and JTAG flow: load, start, wait for the exit code | order against the core's start; burst arithmetic |
| **Core wrapper**: cv32e40p, CLIC, bus error units, lockstep | in external IP | wiring, the core-local decoder | resources of the error units |
| **Software headers** (`boot/include/archi`) | none | addresses of banks, units and registers; arithmetic macros in two forms | a map that is written down in four places; macros whose two forms drift apart |
| **Synthesis wrapper** | CDCs, synchronisers, isolation (external IP) | wiring of clocks and resets | transfers that outlive one side's reset |
| **Test programs** (`sw/tests`) | - | - | - |

How they interact: the AXI input, the core's three buses and the debug module are OBI
managers of one crossbar; every access goes through the address map to a bank, a
peripheral or the AXI output. OBI is a request/grant channel and a response channel that
answers in order. The loader reaches memory and the SoC control registers through the
AXI input or the debug module; the core reads its boot address and fetch enable directly
from these registers.

What makes the components correct:

* bridge: one response per request, in order, with its own ID, lane and faults; AXI
  valids are not withdrawn; every request is answered;
* adapter: no beat lost, doubled, swapped or joined with another's answer; faults
  reported for exactly the burst that had them; nobody starves where the code says so;
  responses held until taken;
* address map: the island is closed, banks and units are reached at their documented
  addresses and nowhere else, for every choice of parameters;
* atomics: an operation that leaves through one port, or enters through the other, has
  the effect that its manager's protocol gives it, and is still atomic;
* boot: the core executes nothing but a program that is whole; the exit code reported is
  this program's;
* preload: every byte of every section ends up at its address, and nothing else is
  overwritten that still matters; a file that cannot be read whole is refused, and on
  every path the file is closed again;
* headers: software's map is the hardware's, and a macro computes the same whether it is
  the PULP instruction or its emulation.

`PROJECT.json` lists 40 hazards at the lines where they bite, with the property that
covers each, or why none does.

## 2. Modules

| Module | Models | Notes |
|---|---|---|
| `ObiService` | the abstract promise of an OBI subordinate | a queue of granted requests, answered oldest first |
| `ObiToAxi` | `obi_to_axi.sv` with its managers and its AXI subordinate | implements `ObiService` (refinement, run `bridge`) |
| `ObiToAxi_proofs` | theorems about `ObiToAxi` | the registers and handshakes, the refinement, and whose faults are reported |
| `AxiService` | the abstract promise of an AXI subordinate | sets of responses that are owed |
| `AxiToMem` | `axi_to_detailed_mem_user.sv`, the ECC collection of top (1126-1132), the AXI manager and the memory | implements `AxiService` (refinement, run `mem_arbiter`) |
| `MCAxiToMem` | instances of `AxiToMem` | shapes of bursts, answers of the memory |
| `AxiToMem_proofs` | theorems about `AxiToMem` | fork, arbiter, counters, held responses, the refinement |
| `AxiToMem_faults` | theorems about `AxiToMem` | whose faults are reported |
| `AddrMap` | the decoders of top and core wrapper | |
| `ArchiMap` | the addresses of the software headers (`memory_map.h`, `properties.h`, `safety_soc_ctrl.h`) | extends `AddrMap` |
| `MCAddrMap` | the addresses around every boundary | of `ArchiMap` |
| `AddrMap_proofs` | theorems about `AddrMap` and `ArchiMap` | |
| `Boot` | SoC control registers, first-cycle logic, boot ROM, core, both loaders | |
| `Boot_proofs` | theorems about `Boot` | |
| `Atomics` | the translations of `obi_to_axi.sv` (80-116) and `axi_to_obi.sv` (256-327), and what both protocols mean | composes the two bridges around one memory word |
| `Atomics_proofs` | theorems about `Atomics` | |
| `Preload` | vip (339-361, 434-470, 523-560) | the inside of `Boot`'s `LoadWord` |
| `ElfLoad` | `elfloader.cpp` | implements the file that `Preload` assumes (refinement, run `load`) |
| `MCElfLoad` | ELF files, whole, cut and malformed, with sections around beats and bursts | |
| `ElfLoad_proofs` | theorems about `Preload` and `ElfLoad` | the loaders, `elfloader.cpp`, and the refinement between them |
| `Builtins` | `builtins_v2.h` and `builtins_v2_emu.h` | one call in both builds |
| `Builtins_proofs` | theorems about `Builtins` | powers of two, bits of a word, and each family of macros |

### ObiToAxi

`sent` is the pair of registers `aw_sent_q`, `w_sent_q`. The three FIFOs
(`i_fifo_rsp_mux`, `i_fifo_rid`, `i_fifo_size`) are pushed by the same signal and popped
by the same signal, and are one queue `fifo` of tags. `req` is the OBI A channel, `rsp`
the latest OBI response. A request is its serial number, its kind (read, load-reserved,
write, store-conditional, atomic), its ID and its data lane; addresses and data are left
out, since the bridge passes them on as they are. An action is a handshake: `SendRead`
(AR, which is also the grant), `SendWrite` (the channels of a subset are ready; the
second of the two is the grant), `Respond`. The flags of the FIFOs are registers, so
that a push and a pop in one clock cycle are the two actions in either order. The AXI
subordinate (`SlaveRead`, `SlaveWrite`, `SlaveAmo`) is the environment: it answers
whenever it likes, an atomic on B and R in either order.

`OrderedR` is the one assumption about it: the R beat of an atomic and that of a read,
which arrive on different channels, come back in the order of their requests. The bridge
relies on this, because it gives all beats ID 0 (`obi_to_axi.sv:338`), while AXI does
not promise it. Most theorems of `ObiToAxi_proofs` need no such assumption;
those of `InOrderService` and `FaultsReported` do, and say so. `ObiToAxiAssumption` also asks of
`MarkSets` that it is closed under union, except for exclusive success: an atomic's
response carries the marks of both its beats.

### AxiToMem

`RequestCycle(gnt)` is a clock edge of the request side: `Select` is the arbiter
(`meta_sel_d`), `Taken` the outputs of `i_fork` that accept, `Accept` the update of the
burst counters. `ResponseCycle` is one of the response side: `i_join`, `i_fork_dynamic`,
the collection registers. The sides meet only in FIFOs, so the edges of one cycle are
two actions. `i_sel_buf` and `i_meta_buf` are pushed and popped together and are one
queue, `buf`. `i_stream_to_mem` and `i_mem_to_banks` are vendored; of them we keep that
at most `BufDepth` beats are in flight and that answers come in order (`mem`, `ans`).
The banks of a beat get one answer, the set of banks that signal an error, an exclusive
success or an ECC fault. `told` and `overtaken` are history.

`OneDirection` is how `axi_to_obi` uses the adapter (one instance for reads, one for
writes). The adapter's arbiter is checked without it, as a component of its own; the
fault reports are checked with it, as the island uses them.

`AxiService` is what the port promises: it knows the bursts on AR and AW, the beats of
the write in progress that are still to come, and the set of responses it owes. A burst
is owed all its responses from its acceptance on; a response may be given when its own
data is in and no older one is owed to the same direction on its channel. Nothing is
said of arbitration, buffers or memory, nor of how reads and writes mix: an atomic's R
beat may come between those of a read burst, and does. The mapping (`Outstanding`) takes
for owed what the beats in `buf`, those a burst in progress has yet to send there
(`ToGo`), and the channels already `done` leave to be given. AXI would allow a
subordinate to accept address and data apart; this one never does, and `AxiService` says
so.

### AddrMap

An access is an address and the place it has got to: a decoder or a unit. The rules are
those of the source, with the index, the order and the priority they have there: an
array literal lists the highest index first, and the decoder, which is external
(`common_cells`), takes the matching rule of the highest index, or the default, or index
0 if there is neither. Units answer and the next access begins. The assumption on the
parameters is README.md:78, that they must not collide, made precise.

### ArchiMap

The constants of the software headers, as operators of the same names, beside the
decoders. `HeadersFit` are the parameters the headers are written for (two banks of 64
KiB; with `CARFIELD`, a base address of 6000_0000), and `SoftwareFindsUnits` says that
every address of the headers then arrives at the unit it names, the two private memories
at exactly the two banks, and each register offset at its own register. `MeantFor` names
the headers' addresses that have no unit: the global prepend's, and `HMR_OFFSET` 5000 of
an earlier layout (the lockstep registers are at D000).

### Boot

`boot` numbers the resets; a reset may come at any time and leaves memory as it is.
`regs` are the four registers; `RegWrite` ignores a write that lacks one of the bytes in
`SAFETY_SOC_CTRL_PERMIT`. `FirstEdge` is the cycle in which `first_cycle` lets hardware
write boot mode and fetch enable. Of each word of memory we keep the boot whose loader
wrote it, or 0 for anything else. The ROM clears at least one word, anywhere in the
program's memory, since where it has its bss depends on the linker script. The loader
follows `axi_safed_elf_run` or `jtag_safed_elf_run`, whichever the boot mode says, and
the `wait_for_eoc` of either.

### Atomics

A word is the set of its bits that are one, so that the operations of the protocols are
set operations and the proofs need no arithmetic. A request of an OBI manager leaves by
`Leave` (`obi_to_axi`, then an interconnect that leads back to the AXI input); one of an
AXI manager starts there; `Enter` is `axi_to_obi`, `Execute` the atomics unit in front
of a memory bank. `ToAxi` and `ToObi` translate the repository's code. What an operation
does to memory (`ObiDo`, `AxiDo`) is the protocols' definition, as the external
`obi_atop_resolver` and AXI have it; `meant` is a history variable, memory as it would
be if each request were carried out untranslated. `EffectKept` compares the two, for
requests that interleave in any way.

`AxiLegal` leaves out AXI's compare-and-swap and big-endian atomics: `axi_to_obi`
distinguishes three bits of the operation only and would take them for an AND and for
little-endian ones. Atomics wider than a word, which `axi_to_obi` splits over two OBI
ports, are left out: what comes between the halves is up to two external arbiters.
Reservations are one flag, and a reservation is lost with a store; whose it is belongs
to the external resolver.

### Preload

`program` is the list of program headers that the loader is handed, `section` the one
that `get_section` handed out last, `i` the loop variable of either loader. A byte of
memory is named by the byte of the file it came from, so that a byte at the wrong
address, or another section's, is told apart. `InBurst` are the bytes that a burst
writes: beats are bus words that begin inside the section; the strobes of
`axi_write_beats` cut the first beat, nothing cuts the last, which is padded with zeros.
`HasBeats` is the test on which `axi_write_beats` is fatal. Headers are assumed to be in
ascending order and apart, as linkers emit them: the zeros that pad a section would
otherwise overwrite one that was loaded before. JTAG sections begin at multiples of a
word, which the system bus access demands.

The loop ends at `i > sec_len`, but a section that starts inside a bus word ends later
in the bursts, by the offset. `Fits` is the condition under which the last burst still
reaches it; aligned sections always do.

### ElfLoad

`elfloader.cpp` call by call. `read_elf` is one action per step that may fail (`Open`,
`Stat`, `Mmap`, the magic number, `load_elf`), with the labels it jumps to as values of
`pc`; `load_elf` is a loop over the program headers (`ph_index`) with the class of the
file deciding the sizes of the headers. `sections` and `mems` are the C++ containers:
`mems` is a map that `insert` does not overwrite. `ServeSection` and `NoSection` are the
DPI calls `get_section` and `read_section` of the loader; `abort` is the assertion that
a header's content is in the file, `fatal` the loader's reaction to a refused file or
section. A file is its class, its size and its headers; its content is named by header
and byte, as in `Preload`.

`ElfLoad` extends `Preload` and shares its variables, and takes its steps together with
the calls'. `Preload` alone takes the next section and its content for granted; the
property `ImplementsPreload` is `Preload`'s specification, checked of the composition.
`Image` is the relation between the two: which sections of a file the loader is handed.

`ElfLoadAssumption` says of the files what a linker guarantees, the order of `Preload`
among the sections that are loaded whole, and that no two contents of one file have the
same address. Without the latter, a header whose content is longer than its memory may
have the address of a later one, and `mems.insert` would keep the earlier content.

### Builtins

A program calls a macro with the same operands in a build with the instructions
(`builtins_v2.h`) and in one with plain C (`builtins_v2_emu.h`); `pulp` and `emu` are
the sets of words that either may leave. A set has more than one element where the C
code's behaviour is undefined, and none where a form does not compile. Words have
`Width` bits, halves and bytes are a half and a quarter of one, all arithmetic is modulo
2^Width with C's conversions spelled out (`Cast`, `Shift`). Whether plain `char` is
signed is the implementation's choice and is fixed in the initial state (`charSigned`).
What the instructions themselves do is external. The two headers do not agree
everywhere; each of the three properties says exactly where, as an equivalence where
the divergence is certain. A call is a record with the operands the macro has and no
others. `WordOf` and `Bits` go from a word to the set of its bits and back.

## 3. Runs

| Run | Expects | States | What it shows |
|---|---|---|---|
| `bridge` | pass | 65 141 | types, tags, pairing, stability, faults, the refinement of `ObiService`, and that all requests are answered |
| `mem_arbiter` | pass | 69 880 | fork, buffers, arbiter and burst counters; the refinement of `AxiService`; all bursts answered |
| `mem_faults` | pass | 1 047 828 | B and R report exactly the faults of their burst; offered responses stay |
| `mem_reads_all` | violation | - | `ReadFaultsReported` fails for narrow reads and past the first 32 of 64 bytes |
| `mem_b_stable` | violation | - | B's user bit changes while B waits |
| `map` | pass | 245 | the map, moved as a whole, is the documented one, two places excepted, and the software headers' |
| `map_readme` | violation | - | these two places, with the README's parameters |
| `boot` | pass | 640 | complete programs, own exit codes, every boot ends |
| `boot_rom` | violation | - | `boot_preloaded` jumps to the mode's number |
| `load` | pass | 14 177 | `elfloader.cpp` is what `Preload` assumes; sections whole, writes bounded, resources released, and exactly where the loaders stop |
| `builtins` | pass | 66 822 | both forms of every macro agree but where the properties say |
| `atomics` | pass | 263 720 | effects and atomicity of all operations of both ports |

### Bounds, and why they are enough

* `bridge`: three requests, two outstanding. Two is the least number at which a full
  FIFO, a push with a pop and a wrong order are possible; the third request waits for a
  place. All five kinds, two IDs; the mark sets are nothing, an error, and an ECC fault
  with an exclusive success, so that each mark occurs on either beat. A single lane is
  enough because the lane takes the same way as the ID. The proofs have no such bounds.
* `mem_arbiter`: one read and two writes, single, atomic or bursts of up to three beats
  with unaligned starts, two priorities, a memory that refuses or delays at will, `BufDepth`
  2. Two writes against one read are what overtaking twice needs; a beat in each
  direction and one stalled in the fork are what swapping needs.
* `mem_faults`: two bursts of a direction, so that faults of one can leak into the next;
  bursts of two beats, so that faults of one beat must be kept for the other; empty,
  partial and full strobes; an atomic.
* `mem_reads_all`: one read, of a word or a double word, around multiples of 32 bytes.
* `map`: the byte before, the first and the fifth byte of every window, gap and address
  of the headers. The parameters are those of the headers in Carfield, so that the base
  address is not 0 and `SoftwareFindsUnits` speaks of something. The theorems hold for
  every address and all parameters.
* `boot`: four words, so that loading may be interrupted anywhere; three boots, so that
  a boot finds what two earlier ones, of either mode, left.
* `boot_rom`: two words, one boot, mode `10` and fetch enable tied high, which is how
  the ROM's own comment has it started.
* `load`: beats of 4 bytes, bursts of two beats, JTAG words of 2 bytes. Two sections
  that may share a bus word, with a header between them that is skipped; offsets 0, 1
  and 3, lengths 0, 3, 5, 8, 10, 16 and 17, that is, below, at and above a beat, a burst
  and two; content as long as the section or half of it, so that zeros are loaded too.
  Files of both classes and of neither; files that end before, in and behind the head,
  the program headers and the content; content longer than its memory. `open`, `fstat`
  and `mmap` may fail on each.
* `builtins`: words of eight bits, the least that have halves and bytes of more than a
  bit; operands around zero, the sign and the greatest word, of the word and of its
  halves; all positions and sizes of fields, all scales, all lanes.
* `atomics`: words of two bits, the least with a sign and a carry, all operands and
  operations; two requests on their way, of the same or of different ports, so that one
  can pass between another's steps.

### Fairness

* `ObiToAxi`: weak fairness of each of the bridge's actions (it is clocked) and of the
  subordinate as a whole (AXI subordinates accept and answer in bounded time). None for
  the managers, which may stop.
* `AxiToMem`: weak fairness of the clocked sides, of the memory's grant and answers, and
  of either ready of the AXI manager; the manager sends the data of the writes whose
  address it sent. None for new bursts.
* `Boot`: weak fairness of the first edge, of the core's first fetch, of the loader, and
  of the program's exit (programs of this project end). None for resets: a boot that is
  cut short owes nothing. The ROM needs none: in JTAG mode it may be halted anywhere.
* `AddrMap`, `Preload`, `ElfLoad`, `Builtins` and `Atomics` have no liveness property;
  safety only.

Deadlock is not checked where the number of requests, bursts or boots is bounded,
because the model stops when they are used up; that they are all answered is a liveness
property of each of these runs.

## 4. Disagreements between the code and what it says

1. **Which banks a read reports** (`axi_to_detailed_mem_user.sv:553`). The comment wants
   `bank.start < addr + size`; the expression is parsed as `((addr % DataWidth) / 8 + 1)
   << size`. Reads as wide as the data bus in the first 32 bytes of each 64 are not
   affected (`ReadFaultsReported` holds in `mem_faults`); others report a bank they do
   not touch, or not their own.
2. **B is not stable** (top 1129, against the assertion
   `axi_to_detailed_mem_user.sv:642`). The ECC faults of a burst's last beat enter B's
   user field only when the handshake takes place, which depends on `b_ready`.
3. **Two places of the memory map** (core wrapper 552, pkg 74). The core-local decoder
   has no default, so that a gap such as `6020_E000`, documented as an error, is an
   alias of the lockstep registers; and the data bus error unit answers at `6022_0020`,
   the documented address of the shadow bus error registers. Everywhere else the
   documented map holds: `RoutedAsDocumented`, theorem `MapHolds`.
4. **`boot_preloaded`** (`boot/boot_code.c:37`) reads BOOTMODE where its comment says
   boot address.

No runs of their own, but met on the way, and named where a property allows them:

* **Empty bursts** (vip 534, against the assertion vip 444). The loop `i <= sec_len` has
  one iteration too many for an aligned section whose length is a multiple of the burst,
  and it is fatal. `StopsOnlyAtWholeBursts` shows that no other section stops the loader.
* **Files without program headers** (`elfloader.cpp:140-147`). `load_elf` returns without
  an error when the file ends before its program headers do; `read_elf` then succeeds,
  nothing is loaded and the entry point is 0 (`CompleteOrTruncated`).
* **Builtins.** `BITEXTRACT` of a field with its sign bit set and of the whole word, and
  whole-word fields in general, differ between the headers (`FieldsAgree`); sums of
  products of negative bytes differ where plain `char` is unsigned, as it is on RISC-V
  (`VectorsAgree`); rounded and shifted products of unsigned halves are shifted as `int`;
  `MACHHURN` and `MACHHSRN` hand five operands to a builtin of four, and `MACHHURN` in
  C adds the scale instead of shifting by it; `CLIPU` lacks parentheses
  (`ScalarsAgree`). The vector macros of
  `builtins_v2_emu.h:84-128` that lack a parenthesis do not compile and are left out. The
  boot code is built with `-UARCHI_CORE_HAS_PULPV2` and `archi/utils.h:64-65` has the
  includes commented out, so that none of this reaches the ROM.
* **Addresses.** `HMR_OFFSET` (5000) is not where the lockstep registers are (D000). The
  boot code's own copy of `safety_soc_ctrl.h` has a mask of `0xf` for the boot mode,
  which has two bits.
* **Boot modes.** pkg and README.md give JTAG the code `00` and preloaded `01`, the ROM
  `01` and `10`. In JTAG mode the ROM takes its default loop, which serves as well; in
  preloaded mode it never runs (theorem `RomSkipped`).
* **Zeros.** The warning `elfloader.cpp:244` says that zero bytes "will NOT be
  preloaded"; those of a section with content are, since the buffer is as long as the
  section is in memory (`LoadedWhole`, `BufferHoldsSection`).
* The JTAG loader writes one word more than a section has if its length is a multiple of
  four. `mems.insert` (`elfloader.cpp:163`) does not replace: a second file read in one
  simulation would get the first one's content at equal addresses.

## 5. Proofs

All proofs are checked by TLAPS with SMT, Zenon and the PTL backend. Theorems, with the
property each proves for all parameters: `PROJECT.json`, "theorems" (43).

**Bridge, registers** (assumptions: `ObiServiceAssumption`, `ObiToAxiAssumption`). The
inductive invariant is `IInv == TypeOK /\ TagsMatchGrants /\ WriteBeatsPair /\
HalfSentHoldsPlace`. None of its parts is inductive alone: that a grant never overflows
the FIFO when the second half of a write goes out needs `HalfSentHoldsPlace`; that one
in turn needs that the flags are never both set; pairing needs that the half-sent
request is still the one on the A channel. `HandshakesStable` (an action property)
follows from `IInv` and a case split over `Next`: a FIFO that was not full can only
become full by the handshake itself.

**Bridge, service** (additionally assumes `OrderedR`, without which
the theorems are false). `SInv == IInv /\ Order /\ Reported`. The granted requests, the
subordinate's queues and the beats on their way are all sorted by serial numbers;
`Covers` says of either response channel that every request that is owed a beat is
still with the subordinate or has its beat waiting, and that beats which wait are older
than requests which do not have one. From that the beat at the head of a channel is that
of the oldest request owed one (`CoversOldest`), which is the request the bridge's tag
queue names. `InOrder` shows step by step that the bridge does a step of `ObiService` or
none, hence `Spec => Service!ServiceSpec`; `Reported` adds that the marks on the beats
are those the subordinate decided on, whence `FaultsOwn`.

**Adapter, beats** (`AxiToMem_proofs`; assumption: `AxiToMemAssumption`, for any number
and width of banks, depth, shapes and whether or not the directions share the adapter).
`IInv` adds to `TypeOK`, `ForkInStep`, `ForkedBeatHeld` and `SingleReadPassedOnce`:

* `Room`: no more than `BufDepth` beats are in flight, hence the buffer, with one place
  more, always takes a beat, and the fork waits for the memory only;
* `LockHolds`: the arbiter is locked exactly while a beat is stalled, without which a
  beat that comes on the other channel would be selected in its place;
* `ReadsGo`, `WritesGo`: of the burst in progress, as many beats are left as its latest
  one lacks, and its register holds the aligned address; the next burst is younger;
* `BeatsOlder`, `BeatsSound`, `BeatsOrdered`: each beat in the buffer is at its burst's
  address, is flagged iff it is the last, and is before the next of its direction.
  `BurstBeats` follows;
* `ReadIsNext`: after one write has passed the read, the arbiter remembers it (`sel`), or
  has locked on the read. `SingleReadPassedOnce` follows.

That 2^size is a positive number, which the prover does not know, is taken from the
number of subsets of a set of that size (`NumBytesType`). `ResponsesStay` is read off
`IInv`: appending to a queue does not move its head.

**Adapter, service** (the same module and assumption). `AxiServed` is `Spec =>
Service!ServiceSpec`. The invariant needs one part more, that a channel is `done` only
while there is a response (`ServiceInv`). On the request side the beat that is accepted
is the first of those to go (`FirstToGo`), so that it moves from `ToGo` to `buf` and what
is owed stays the same, or grows by the responses of a new burst (`OwedMore`), none of
which is being given (`NewIsNotAnswered`). On the response side the beat at the head of
`buf` is before all others of its direction, in the buffer and still to go (`HeadFirst`,
from `BeatsOrdered` and `BeatsOlder`): its responses are no one else's, may be given, and
are what the cycle takes from what is owed (`ResponseTakes`).

**Adapter, faults** (`AxiToMem_faults`; the same assumption). What is collected is a
summary of beats that are gone, so that the invariant must speak of all beats that ever
were. `Seen` are those that left the arbiter, `told` those the memory answered. The
parts of `FInv`:

* `SeenOrdered`, `SeenGapless`, `SeenEnded`, `InProgress`: the beats of a direction are
  totally ordered, a write's without gaps, and no write begins before the one before it
  has ended;
* `ToldPlaced`, `ToldOnce`: every answer is still in the buffer, beside the beat it is
  for, or its beat is before all that are (`Popped`); no beat has two answers;
* `Collected`: the collection registers and `axi_b_ecc_err_q` are the summary of `Open`,
  the answers popped of the write burst that has not ended.

When the last beat of a write is at the head, `Open` and the head are all the beats of
its burst, as many as its length says (`BurstOfHead`, by a bijection). So B carries the
faults of just these (`WriteFaults`), and a later answer of the memory is never one of a
burst already reported (`MemAnswerFaults`).

`ReadFaults` has one more assumption, `ReadsSpan`: that for every beat of every shape of
burst that is answered on R, the code's expression for the banks (disagreement 1) yields
the banks the beat touches. It holds for the shapes of run `mem_faults`, and not for
those of `mem_reads_all`, where the property fails. `ShapesKept` carries the shapes
along the pipeline.

**Address map** (assumptions: `AddrMapAssumption`, `ArchiAssumption`). For each decoder a
lemma says what it selects: `MainDecode` for any number and size of banks, by showing
that the banks fill the memory (division with remainder), that rules of the crossbar do
not overlap, and hence that exactly one matches; `PeriphDecode` and `ClDecode` rule by
rule. `Inv` adds to `TypeOK` where an access may be on its way (`OnItsWay`) and where
one that arrived may be (`AtItsEnd`); the five theorems are read off from it.
`SoftwareAgrees` is about the parameters of `HeadersFit`, with or without `CARFIELD`,
simulation and lockstep.

**Boot** (assumptions: `BootAssumption`; all but `TypeCorrect` also that
`fetch_enable_i` is not tied high, for with it tied the core would run the ROM in
preloaded mode). `Inv` adds to `TypeOK` the phases of loader and core: the image loaded
so far is intact (`ImageKept`); the core is in ROM until halted, and halted while memory
is loaded (`JtagPhases`), or off until its address and enable are written (`AxiPhases`);
nothing happens before the first edge; the EOC bit is the program's own last write
(`Ended`). `RomSkipped` states that the core never fetches from the ROM in preloaded
mode.

**Atomics** (assumption: `AtomicsAssumption`). `ThereAndBack` says that
`ToObi(ToAxi(r))` is `r`, operation by operation; `SameEffect` that an AXI transaction
and its translation do the same to every cell, with `ClearIsAnd` for the inverted
operand. `Inv` adds to `TypeOK` what is on its way (`OnTheWay`): what is at the AXI port
is the translation of the request it comes from, and at the memory the translation of
that. `Execute` then keeps `cell = meant` by `ThereAndBack` for one port and by
`SameEffect` for the other. `Inverse` states that the round trip is the identity.

**Preload** (`ElfLoad_proofs`, first part; assumption: `PreloadAssumption`). `LoadedWhole` speaks of finished
sections; `Inv` adds what is in memory halfway through one (`Progress`), that bursts
begin at multiples of their size (`Aligned`) and that the section in hand is loadable
(`Current`). How far the last burst reaches is arithmetic (`NextMultiple`,
`LastMultiple`, from uniqueness of the remainder), from which both `Fits` and
`WholeBursts` turn out to be the exact conditions. That later sections leave earlier
ones alone is the order of the headers. These theorems are about `Preload` on its own.

**ELF loader** (`ElfLoad_proofs`, second part; additionally `ElfLoadAssumption`).
`ElfInv` adds to `Preload`'s `Inv` and to `ElfTypeOK`:

* `Holds`: at which labels of `read_elf` the file is open and mapped. `FileReleased` is
  read off from it;
* `Checked`: what `read_elf` has tested by the time it reaches a label, and what it has
  done when it returns 0. This is what makes the way over `exit_mmap` with `retval` 0
  different from the ways that fail;
* `Collected`: the containers hold the contents of the headers so far, once each and in
  the order of the headers. That `mems` has, at a section's address, this section's
  content needs that no other one was inserted there before, which is the last
  assumption on the files;
* `Serves`: the section in the loader's hands is the one that was handed out last, and
  the buffer has its bytes; none that was handed out is longer than its memory.

`LoaderServed` is the refinement: `NextSection` says that the next element of `sections`
is the next loadable header of `Image(file)`, `NoneLeft` that after the last element
there is no such header; every other step leaves `Preload`'s variables alone. Hence
what is proved of `Preload` holds of it with files (`LoadedFromFile`).

**Builtins** (`Builtins_proofs`; assumption: `BuiltinsAssumption`, for words of any
width that is a power of two from 4). The inductive invariant `Computed` says that the
results are those that the two headers compute of the call; the properties then follow
family by family, from arithmetic that the provers do not have:

* *Induction.* A set of numbers with 0 and with the successors of its elements has all
  numbers (`EveryNumber`), because the rest would have a least element (`Least`, from
  the well-foundedness of < on the numbers). The library's own induction theorem has an
  operator as a parameter and cannot be used.
* *Powers.* 2^(n+1) = 2 * 2^n since one more element doubles the subsets (`PowerStep`);
  sums of exponents and monotony follow by induction.
* *Bits.* What is added above a bit does not change it (`LowBits`), and the bit itself
  is what was added (`HighBits`). By induction on the number of bits, a word is
  determined by its bits and every set of bits is a word's (`WordBits`). So two results
  are equal if their bits are, and `FieldsSame` becomes a comparison of sets, case by
  case; `SameRotation` is `LowBits` and `HighBits` at the sign bit.
* *Shifts.* The arithmetic and the logical shift of a product differ whenever the sign
  bit is set and something is shifted (`ShiftsDiffer`), and a product of unsigned halves
  is below 2^Width even when it is rounded (`ProductIsWord`): so the products differ in
  exactly the named cases, and not only at most in those.
* *Sums over lanes* stay opaque: `SameDot` shows the summands to be the same.

Only model-checked: the liveness properties (`EveryRequestAnswered`,
`EveryBurstAnswered`, `EveryBootEnds`), which depend on fairness and are out of the
prover's reach. Every invariant, action property and refinement that a run checks is also
a theorem.

## 6. Plan

Everything that the inventory lists is modelled or in the next section. What would
deepen it, in this order:

1. The split of wide atomics and the mux of the OBI ports in `axi_to_obi.sv`, once the
   arbiter (`obi_mux`) is at hand: which accesses come between the halves, and whether
   two adapters can wait on each other.
2. A second run without a reset, and a second file, in the loaders (vip 395,
   `elfloader.cpp:163`): both begin with state that the first one left.
3. The debug request vector and the wiring of `NumDebug` and `HartId` (top 386-395,
   465-475).

## 7. Not modelled, and why

* The core, the CLIC, the lockstep units, the bus error units, the debug module, the ECC
  memories, CDCs, isolation and the crossbar's arbiter are external IP whose source is
  not in the repository. What the repository decides about them, their wiring, is
  modelled where it has behaviour (address map, boot).
* Data, addresses in the bridge and the adapter beyond the bytes a beat covers, QoS and
  cache attributes that are passed on.
* The bridge's data lanes inside a word, which are slices of wires.
* Of `axi_to_obi.sv`, the split of 64-bit atomics over two ports and the multiplexer
  behind it: see the plan.
* `rtl/synth/safety_island_synth_wrapper.sv`, which connects external CDCs and isolation
  and keeps no state itself.
* The headers `priv_1_11.h`, `priv_1_12.h`, `pulp_defs.h` and `cv32e40p.h`, which are
  tables of register numbers, bit positions and names without behaviour. Of the
  builtins: complex numbers, which are switched off; packing and shuffling, plain MAC and
  MSU, fixed-point conversion, and reads of special registers, which are single
  instructions or single C operators; and the vector macros that do not compile.
* `rtl/cv32e40p_fpu_wrap.sv` (wiring), test programs (each checks values of one unit),
  CoreMark, generated register packages and ROM images, simulation and build scripts.
