-------------------------------- MODULE Boot --------------------------------
(***************************************************************************)
(* How a program gets into the island and out of it again: the SoC control *)
(* registers and the logic that sets them after reset, the boot ROM, the   *)
(* core, and the external loader, which is the AXI or the JTAG flow of the *)
(* test environment.  The program runs, then writes its exit code to the   *)
(* core status register, where the loader waits for it.                    *)
(*                                                                         *)
(* Memory is NumWords words; of each we keep which boot's loader wrote it. *)
(* The program is the environment's; it is entered at its first word.      *)
(***************************************************************************)
EXTENDS Naturals

CONSTANTS
  NumWords,   \* words of the program
  Pins,       \* values of bootmode_i
  FetchTied,  \* fetch_enable_i is tied high
  Codes,      \* exit codes
  MaxBoots    \* bound: number of resets

Jtag == 0
Preloaded == 1
\* The cases of the boot ROM.
BOOT_MODE_DEFAULT == 0
BOOT_MODE_JTAG_OPENOCD == 1
BOOT_MODE_PRELOADED == 2

\* Two addresses, by numbers that no boot mode is equal to.
BootAddrDefault == 4
Entry == 8

ASSUME BootAssumption ==
  /\ NumWords \in Nat \ {0} /\ MaxBoots \in Nat \ {0}
  /\ Pins \subseteq 0..3
  /\ FetchTied \in BOOLEAN
  /\ Codes \subseteq Nat /\ Codes # {}

VARIABLES
  boot,         \* number of the boot: one more with each reset
  pin,          \* bootmode_i
  fetch_signal, \* fetch_enable_i
  first_cycle,
  regs,         \* the SoC control registers
  core,         \* where the core executes
  mem,          \* the boot whose loader wrote the word, 0: something else
  loader,       \* what the loader does next
  word,         \* the word it loads next
  exit_code     \* the exit code it read

vars == <<boot, pin, fetch_signal, first_cycle, regs, core, mem, loader, word, exit_code>>

Words == 1 .. NumWords
Bytes == 0..3
\* corestatus: its EOC bit and the rest.
Status(eoc, code) == [eoc |-> eoc, code |-> code]

-----------------------------------------------------------------------------
(***************************************************************************)
(* The SoC control registers.                                              *)
(***************************************************************************)
ResetRegs ==
  [bootaddr |-> BootAddrDefault, fetchen |-> FALSE, corestatus |-> Status(FALSE, 0), bootmode |-> 0]

\* SAFETY_SOC_CTRL_PERMIT: the bytes a write must have.
Permit == [bootaddr |-> Bytes, fetchen |-> {0}, corestatus |-> Bytes, bootmode |-> {0}]

\* Mutant: sub-word writes are taken.
RegWrite_anyBytes(reg, value, be) == regs' = [regs EXCEPT ![reg] = value]

\* A write of the bytes be, which is an error and changes nothing if a byte is missing.
RegWrite(reg, value, be) ==
  regs' = IF Permit[reg] \subseteq be THEN [regs EXCEPT ![reg] = value] ELSE regs

\* Mutant: the core status survives the reset.
RegsAfterReset_keepStatus == [ResetRegs EXCEPT !.corestatus = regs.corestatus]

RegsAfterReset == ResetRegs

\* hw2reg.fetchen.d
HwFetchen == pin = Jtag

FetchEnable == regs.fetchen \/ fetch_signal

-----------------------------------------------------------------------------
Init ==
  /\ boot = 1 /\ pin \in Pins
  /\ fetch_signal = FetchTied /\ first_cycle = TRUE
  /\ regs = ResetRegs
  /\ core = "off" /\ loader = "start" /\ word = 1 /\ exit_code = 0
  /\ mem = [w \in Words |-> 0]

\* Reset of the island, at any time, into a mode of its own; memory keeps its content.
Reset(p) ==
  /\ boot < MaxBoots
  /\ boot' = boot + 1 /\ pin' = p
  /\ fetch_signal' = FetchTied /\ first_cycle' = TRUE
  /\ regs' = RegsAfterReset
  /\ core' = "off" /\ loader' = "start" /\ word' = 1 /\ exit_code' = 0
  /\ UNCHANGED mem

\* The first clock edge after reset: the mode and the fetch enable are sampled.
FirstEdge ==
  /\ first_cycle
  /\ first_cycle' = FALSE
  /\ regs' = [regs EXCEPT !.bootmode = pin, !.fetchen = HwFetchen]
  /\ UNCHANGED <<boot, pin, fetch_signal, core, mem, loader, word, exit_code>>

-----------------------------------------------------------------------------
(***************************************************************************)
(* The core.                                                               *)
(***************************************************************************)
Running == {"crt0", "main", "default", "wfi", "wild", "program", "exited"}
JumpTo(address) ==
  CASE address = BootAddrDefault -> "crt0"
    [] address = Entry -> "program"
    [] OTHER -> "wild"

CoreUnchanged == UNCHANGED <<boot, pin, fetch_signal, first_cycle, loader, word, exit_code>>

\* The first fetch, from boot_addr; the core looks at both signals only once.
CoreStart ==
  /\ core = "off" /\ ~first_cycle /\ FetchEnable
  /\ core' = JumpTo(regs.bootaddr)
  /\ CoreUnchanged /\ UNCHANGED <<regs, mem>>

\* _start: at least one word of memory is cleared, wherever the ROM has its bss.
RomStart(w) ==
  /\ core = "crt0"
  /\ mem' = [mem EXCEPT ![w] = 0]
  /\ core' = "main"
  /\ CoreUnchanged /\ UNCHANGED regs

\* main: boot_preloaded jumps to what it reads from the BOOTMODE register.
RomMain ==
  /\ core = "main"
  /\ core' = CASE regs.bootmode = BOOT_MODE_JTAG_OPENOCD -> "wfi"
               [] regs.bootmode = BOOT_MODE_PRELOADED -> JumpTo(regs.bootmode)
               [] OTHER -> "default"
  /\ CoreUnchanged /\ UNCHANGED <<regs, mem>>

\* The program writes its status, not always as a whole word, and at last its exit.
ProgramWrites(value, be) ==
  /\ core = "program"
  /\ RegWrite("corestatus", value, be)
  /\ core' = IF value.eoc /\ be = Bytes THEN "exited" ELSE "program"
  /\ CoreUnchanged /\ UNCHANGED mem

-----------------------------------------------------------------------------
(***************************************************************************)
(* The loader.                                                             *)
(***************************************************************************)
LoaderUnchanged == UNCHANGED <<boot, pin, first_cycle, exit_code>>
LoaderGoes(from, to) == loader = from /\ ~first_cycle /\ loader' = to

\* Mutant: one word more.
LoadedAll_late == word > NumWords + 1

LoadedAll == word > NumWords

\* Mutant: the entry is written before the image is complete.
AfterLoad_early == TRUE

\* The image is in memory: axi_elf_preload and jtag_safed_elf_preload return.
AfterLoad == LoadedAll

\* axi_safed_elf_run begins with the preload; jtag_safed_elf_run halts the core.
Begin ==
  /\ LoaderGoes("start", IF pin = Jtag THEN "halt" ELSE "load")
  /\ LoaderUnchanged /\ UNCHANGED <<fetch_signal, regs, core, mem, word>>

\* Mutant: the debugger does not wait for allhalted.
Halts_unseen == core' = core

\* allhalted: only a core that fetches can be halted.
Halts == core \in Running /\ core' = "halted"

JtagHalt ==
  /\ LoaderGoes("halt", "load")
  /\ Halts
  /\ LoaderUnchanged /\ UNCHANGED <<fetch_signal, regs, mem, word>>

LoadWord ==
  /\ LoaderGoes("load", "load")
  /\ ~LoadedAll
  /\ mem' = [w \in Words |-> IF w = word THEN boot ELSE mem[w]]
  /\ word' = word + 1
  /\ LoaderUnchanged /\ UNCHANGED <<fetch_signal, regs, core>>

\* The entry goes to BOOTADDR.
AxiBootAddr ==
  /\ pin # Jtag
  /\ LoaderGoes("load", "fetch") /\ AfterLoad
  /\ RegWrite("bootaddr", Entry, Bytes)
  /\ LoaderUnchanged /\ UNCHANGED <<fetch_signal, core, mem, word>>

\* Fetch enable, by register or, where it is not tied, by signal.
AxiFetchEnable ==
  /\ LoaderGoes("fetch", "poll")
  /\ \/ RegWrite("fetchen", TRUE, Bytes) /\ UNCHANGED fetch_signal
     \/ fetch_signal' = TRUE /\ UNCHANGED regs
  /\ LoaderUnchanged /\ UNCHANGED <<core, mem, word>>

\* DPC is set to the entry and the hart resumed.
JtagResume ==
  /\ pin = Jtag
  /\ LoaderGoes("load", "poll") /\ AfterLoad
  /\ core = "halted" /\ core' = "program"
  /\ LoaderUnchanged /\ UNCHANGED <<fetch_signal, regs, mem, word>>

\* wait_for_eoc: bit 31 is set and the rest is the exit code.
ReadExit ==
  /\ LoaderGoes("poll", "done")
  /\ regs.corestatus.eoc
  /\ exit_code' = regs.corestatus.code
  /\ UNCHANGED <<boot, pin, fetch_signal, first_cycle, regs, core, mem, word>>

StatusWrite ==
  \E eoc \in BOOLEAN, code \in Codes, be \in {Bytes, {0}} :
    ProgramWrites(Status(eoc, code), be)
Load == Begin \/ JtagHalt \/ LoadWord \/ AxiBootAddr \/ AxiFetchEnable \/ JtagResume \/ ReadExit

Next ==
  \/ \E p \in Pins : Reset(p)
  \/ FirstEdge
  \/ CoreStart
  \/ \E w \in Words : RomStart(w)
  \/ RomMain
  \/ StatusWrite
  \/ Load

Spec == Init /\ [][Next]_vars

\* Loader and core make progress and the program exits, unless there is a reset.
Fairness ==
  /\ WF_vars(FirstEdge) /\ WF_vars(CoreStart) /\ WF_vars(Load)
  /\ WF_vars(\E code \in Codes : ProgramWrites(Status(TRUE, code), Bytes))
FairSpec == Spec /\ Fairness

-----------------------------------------------------------------------------
(***************************************************************************)
(* Properties.                                                             *)
(***************************************************************************)
\* Every variable has its type.
TypeOK ==
  /\ boot \in 1 .. MaxBoots /\ pin \in Pins
  /\ fetch_signal \in BOOLEAN /\ first_cycle \in BOOLEAN
  /\ regs \in [bootaddr : {BootAddrDefault, Entry}, fetchen : BOOLEAN,
               corestatus : [eoc : BOOLEAN, code : Codes \cup {0}], bootmode : 0..3]
  /\ core \in Running \cup {"off", "halted"}
  /\ mem \in [Words -> 0 .. MaxBoots]
  /\ loader \in {"start", "halt", "load", "fetch", "poll", "done"}
  /\ word \in 1 .. NumWords + 1
  /\ exit_code \in Codes \cup {0}

\* The core executes the program only once all of it was loaded, in this boot: in
\* JTAG mode the core runs the ROM, which clears memory, until it is halted, and
\* after a reset memory still holds parts of the last program.
ProgramComplete ==
  core \in {"program", "exited"} => \A w \in Words : mem[w] = boot

\* In preloaded mode the first fetch is at the program's entry: proc_initial_ff and
\* the registers keep the core off until BOOTADDR was written.
PreloadedSkipsRom ==
  pin = Preloaded => core \in {"off", "program", "exited"}

\* The exit code that the loader reports is the one that the program of this boot
\* wrote, not one left from the boot before or from half a write.
ExitOfThisBoot ==
  loader = "done" => /\ core = "exited"
                     /\ regs.corestatus = Status(TRUE, exit_code)

\* boot_preloaded: "load bootaddr and jump there".  BOOTADDR is the ROM or the entry.
JumpsToBootaddr == core # "wild"

\* Every boot that is not cut short ends with the loader having an exit code.
EveryBootEnds ==
  \A b \in 1 .. MaxBoots : boot = b ~> loader = "done" \/ boot > b
=============================================================================
