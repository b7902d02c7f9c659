------------------------------ MODULE Preload ------------------------------
(***************************************************************************)
(* How the loaders of the test environment put an ELF image into memory:   *)
(* elfloader.cpp hands out the loadable program headers one by one, the    *)
(* AXI loader writes each as bursts of a fixed size, the JTAG loader as    *)
(* words through the debug module's system bus.                            *)
(*                                                                         *)
(* A byte of memory is a pair: <<h, k>> is byte k of the file content of   *)
(* program header h.                                                       *)
(***************************************************************************)
EXTENDS Integers, Sequences

CONSTANTS
  Size,        \* bytes of memory
  StrbWidth,   \* AxiStrbWidth: bytes of an AXI beat
  BurstBytes,  \* AxiBurstBytes: bytes of a full burst
  WordBytes,   \* bytes of a system bus access of the debug module
  Programs     \* sequences of program headers

Header == [load : BOOLEAN, paddr : Nat, filesz : Nat, memsz : Nat]

\* Headers are in ascending order, as linkers emit them, and do not overlap.
ASSUME PreloadAssumption ==
  /\ Size \in Nat
  /\ StrbWidth \in Nat \ {0} /\ BurstBytes \in Nat \ {0} /\ WordBytes \in Nat \ {0}
  /\ BurstBytes % StrbWidth = 0
  /\ Programs \subseteq Seq(Header)
  /\ \A p \in Programs : \A h \in DOMAIN p :
       /\ p[h].filesz <= p[h].memsz
       /\ p[h].paddr + p[h].memsz <= Size
       /\ \A g \in 1 .. h - 1 : p[g].paddr + p[g].memsz <= p[h].paddr

VARIABLES
  via,      \* the loader: "axi" or "jtag"
  program,  \* the program headers
  section,  \* the header that was handed out last
  i,        \* the loop variable of the loader: bytes of the section done
  state,    \* "get": asks for a section, "write", "done", or "fatal"
  mem

vars == <<via, program, section, i, state, mem>>

Address == 0 .. Size - 1
Old == <<0, 0>>   \* whatever memory held
Zero == <<0, 1>>

\* load_elf: the headers that become a section.
Loadable(h) == program[h].load /\ program[h].memsz > 0 /\ program[h].filesz > 0

Later == {h \in DOMAIN program : h > section /\ Loadable(h)}

\* Byte k of the buffer bf, which is as long as memory wants and begins with the
\* file's bytes; past its end the loaders take zeros.
Content(h, k) == IF k < program[h].filesz THEN <<h, k>> ELSE Zero

Base == program[section].paddr
SecLen == program[section].memsz

\* Memory after bytes are written to the addresses A.
Written(A) == [a \in Address |-> IF a \in A THEN Content(section, a - Base) ELSE mem[a]]

-----------------------------------------------------------------------------
Init ==
  /\ via \in {"axi", "jtag"}
  /\ program \in Programs
  /\ via = "jtag" => \A h \in DOMAIN program : program[h].paddr % WordBytes = 0
  /\ section = 0 /\ i = 0 /\ state = "get"
  /\ mem = [a \in Address |-> Old]

\* get_section and read_section; none is left: preload complete.
GetSection ==
  /\ state = "get"
  /\ IF Later = {} THEN state' = "done" /\ UNCHANGED section
     ELSE /\ section' \in Later
          /\ \A h \in Later : section' <= h
          /\ state' = "write"
  /\ i' = 0
  /\ UNCHANGED <<via, program, mem>>

BusOffset == Base % StrbWidth

\* Mutant: incomplete bursts are not cut.
InBurst_full(a) == LET j == a - (Base - BusOffset) IN i <= j /\ j < i + BurstBytes /\ a >= Base

\* The bytes of the burst at i: its beats begin inside the section, they are bus
\* words, and the first of the section is strobed from the section's address on.
InBurst(a) ==
  LET j == a - (Base - BusOffset)   \* i + b + e
  IN  /\ i <= j /\ j < i + BurstBytes
      /\ j - (j % StrbWidth) - BusOffset < SecLen
      /\ a >= Base

\* Mutant: the offset is forgotten.
HasBeats_noOffset == i < SecLen

\* Does the burst have a beat at all?  If not, axi_write_beats is fatal.
HasBeats == i - BusOffset < SecLen

\* Mutant: the loop goes on while i < sec_len.
Ends_less(step) == i + step >= SecLen

\* The loop goes on while i <= sec_len.
Ends(step) == i + step > SecLen

Advance(step) ==
  /\ i' = i + step
  /\ state' = IF Ends(step) THEN "get" ELSE "write"

AxiBurst ==
  /\ via = "axi" /\ state = "write"
  /\ IF HasBeats
     THEN Advance(BurstBytes) /\ mem' = Written({a \in Address : InBurst(a)})
     ELSE state' = "fatal" /\ UNCHANGED <<i, mem>>
  /\ UNCHANGED <<via, program, section>>

JtagWord ==
  /\ via = "jtag" /\ state = "write"
  /\ Advance(WordBytes)
  /\ mem' = Written({a \in Address : Base + i <= a /\ a < Base + i + WordBytes})
  /\ UNCHANGED <<via, program, section>>

Next == GetSection \/ AxiBurst \/ JtagWord

Spec == Init /\ [][Next]_vars

-----------------------------------------------------------------------------
(***************************************************************************)
(* Properties.                                                             *)
(***************************************************************************)
\* Every variable has its type.
TypeOK ==
  /\ via \in {"axi", "jtag"}
  /\ program \in Programs
  /\ section \in 0 .. Len(program)
  /\ i \in Nat
  /\ state \in {"get", "write", "done", "fatal"}
  /\ mem \in [Address -> {Old, Zero} \cup (Nat \ {0}) \X Nat]

\* What a section of length len and offset needs beyond its last multiple of
\* the burst: the bursts count the offset, the loop's bound does not.
Fits(h) ==
  via = "axi" => (program[h].memsz % BurstBytes) + (program[h].paddr % StrbWidth) <= BurstBytes

\* An aligned section of whole bursts makes the AXI loader ask for an empty burst.
WholeBursts(h) ==
  /\ program[h].memsz % BurstBytes = 0
  /\ program[h].paddr % StrbWidth = 0

\* The sections that have been loaded; when preloading is complete, all there are.
Loaded ==
  {h \in DOMAIN program : Loadable(h) /\ (state = "done" \/ h < section \/ (h = section /\ state = "get"))}

\* A section that was loaded is in memory, all of it, zeros included, and stays so
\* whatever is loaded after it: with bursts cut at the end, padded beats and
\* sections that share a bus word.  The AXI loader loses the end of sections
\* that do not fit.
LoadedWhole ==
  \A h \in Loaded : Fits(h) =>
    \A k \in 0 .. program[h].memsz - 1 : mem[program[h].paddr + k] = Content(h, k)

\* Nothing is written before a section, and behind it less than a bus word by AXI,
\* at most a word by JTAG.
OnlySectionsWritten ==
  \A a \in Address : mem[a] # Old =>
    \E h \in 1 .. section :
      /\ Loadable(h)
      /\ program[h].paddr <= a
      /\ a < program[h].paddr + program[h].memsz + IF via = "axi" THEN StrbWidth - 1 ELSE WordBytes

\* Loading stops short at an aligned section of whole bursts, at the first there
\* is and at no other section.
StopsOnlyAtWholeBursts ==
  /\ state = "fatal" => via = "axi" /\ WholeBursts(section)
  /\ via = "axi" => \A h \in Loaded : ~WholeBursts(h)
=============================================================================
