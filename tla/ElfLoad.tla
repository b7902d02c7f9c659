------------------------------ MODULE ElfLoad ------------------------------
(***************************************************************************)
(* elfloader.cpp behind the loaders of the test environment: read_elf maps *)
(* the file, load_elf collects the sections and copies their content,      *)
(* get_section and read_section hand them to the loader one by one.        *)
(*                                                                         *)
(* The loader is that of Preload, whose variables this module shares: what *)
(* Preload takes for granted (the next section, its content) is done here  *)
(* with the code's own data, and shown to be the same.                     *)
(***************************************************************************)
EXTENDS Preload

CONSTANT Files   \* ELF files, whole or cut

\* Sizes of the headers whose addresses have w bytes.
Headers(w) == [Ehdr |-> 16 + 2 * 2 + 4 + 3 * w + 4 + 6 * 2, Phdr |-> 2 * 4 + 6 * w]

Elf32 == Headers(4)
Elf64 == Headers(8)

\* A program header says also where in the file its content is.
Phdr == [load : BOOLEAN, offset : Nat, paddr : Nat, filesz : Nat, memsz : Nat]

File == [ident : {"ELF32", "ELF64", "none"}, size : Nat, e_entry : Nat, e_phoff : Nat, ph : Seq(Phdr)]

Elf(f) == IF f.ident = "ELF32" THEN Elf32 ELSE Elf64

\* The checks read_elf makes of the file's head ...
HasHead(f) == f.size >= Elf64.Ehdr
HasMagic(f) == f.ident # "none"

\* ... and load_elf of its program headers.
HasHeaders(f) == f.size >= f.e_phoff + Len(f.ph) * Elf(f).Phdr

\* The header has content to be loaded, the content is in the file.
HasContent(p) == p.load /\ p.memsz > 0 /\ p.filesz > 0
InFile(f, p) == f.size >= p.offset + p.filesz
Overlong(p) == HasContent(p) /\ p.filesz > p.memsz

\* What the loader gets of a file, as Preload sees it: no header if the file is
\* refused, else those before the first whose content is longer than its memory.
Image(f) ==
  LET Read == /\ HasHead(f) /\ HasMagic(f) /\ HasHeaders(f)
              /\ \A h \in DOMAIN f.ph : HasContent(f.ph[h]) => InFile(f, f.ph[h])
      Served == {h \in DOMAIN f.ph : Read /\ \A g \in 1 .. h : ~Overlong(f.ph[g])}
  IN  [h \in Served |-> [load |-> f.ph[h].load, paddr |-> f.ph[h].paddr,
                        filesz |-> f.ph[h].filesz, memsz |-> f.ph[h].memsz]]

\* No two contents have the same address: mems would keep the first of them only.
ASSUME ElfLoadAssumption ==
  /\ Files \subseteq File
  /\ \A f \in Files : Image(f) \in Programs
  /\ \A f \in Files : \A g, h \in DOMAIN f.ph :
       HasContent(f.ph[g]) /\ HasContent(f.ph[h]) /\ f.ph[g].paddr = f.ph[h].paddr => g = h

VARIABLES
  file,
  pc,             \* where read_elf is, "loader" when it returned 0, "fatal" or "abort"
  retval,
  opened, mapped, \* the file descriptor and the mapping are held
  ph_index,       \* the loop variable of load_elf
  entry,
  sections,       \* sequence of address and length, with the header they stem from
  section_index,
  mems,           \* from addresses to content
  bf              \* the loader's buffer

elfVars == <<file, pc, retval, opened, mapped, ph_index, entry, sections, section_index, mems, bf>>

-----------------------------------------------------------------------------
ElfInit ==
  /\ file \in Files
  /\ program = Image(file)
  /\ Init
  /\ pc = "open" /\ retval = 0 /\ opened = FALSE /\ mapped = FALSE
  /\ ph_index = 1 /\ entry = 0 /\ sections = <<>> /\ section_index = 0
  /\ mems = <<>> /\ bf = <<>>

\* A step of read_elf: what it leaves alone.
ReadElf == UNCHANGED <<vars, file, section_index, bf>>

\* Mutant: errors are positive.
Fail_positive(label) == pc' = label /\ retval' = 1

\* goto one of the labels at the end.
Fail(label) == pc' = label /\ retval' = -1

Open ==
  /\ pc = "open"
  /\ \/ Fail("exit") /\ UNCHANGED opened
     \/ pc' = "stat" /\ opened' = TRUE /\ UNCHANGED retval
  /\ ReadElf /\ UNCHANGED <<mapped, ph_index, entry, sections, mems>>

\* Mutant: a file that cannot be looked at is left open.
AfterStat_leaks == "exit"

\* The label for failures between open and mmap.
AfterStat == "exit_fd"

\* fstat may fail; the head must be in the file.
Stat ==
  /\ pc = "stat"
  /\ \/ Fail(AfterStat)
     \/ HasHead(file) /\ pc' = "mmap" /\ UNCHANGED retval
  /\ ReadElf /\ UNCHANGED <<opened, mapped, ph_index, entry, sections, mems>>

Mmap ==
  /\ pc = "mmap"
  /\ \/ Fail("exit_fd") /\ UNCHANGED mapped
     \/ pc' = "magic" /\ mapped' = TRUE /\ UNCHANGED retval
  /\ ReadElf /\ UNCHANGED <<opened, ph_index, entry, sections, mems>>

Magic ==
  /\ pc = "magic"
  /\ IF HasMagic(file) THEN pc' = "load_elf" /\ UNCHANGED retval ELSE Fail("exit_mmap")
  /\ ReadElf /\ UNCHANGED <<opened, mapped, ph_index, entry, sections, mems>>

\* load_elf up to the loop.  It returns nothing: without headers read_elf goes on
\* as if it had succeeded.
LoadElf ==
  /\ pc = "load_elf"
  /\ IF HasHeaders(file) THEN pc' = "headers" /\ entry' = file.e_entry
     ELSE pc' = "exit_mmap" /\ UNCHANGED entry
  /\ ReadElf /\ UNCHANGED <<retval, opened, mapped, ph_index, sections, mems>>

\* Mutant: all the memory of a header is copied from the file.
Copied_all(h) == [k \in 0 .. file.ph[h].memsz - 1 |-> <<h, k>>]

\* write: the content of header h.
Copied(h) == [k \in 0 .. file.ph[h].filesz - 1 |-> <<h, k>>]

\* Mutant: the last section comes first.
Pushed_front(s) == <<s>> \o sections

Pushed(s) == Append(sections, s)

\* mems.insert: what the key has is kept.
Inserted(addr, content) ==
  [a \in DOMAIN mems \cup {addr} |-> IF a \in DOMAIN mems THEN mems[a] ELSE content]

\* One header.  The assertion ends the simulation.
LoadHeader ==
  LET p == file.ph[ph_index] IN
  /\ pc = "headers" /\ ph_index \in DOMAIN file.ph
  /\ \/ /\ ~HasContent(p)
        /\ ph_index' = ph_index + 1 /\ UNCHANGED <<pc, sections, mems>>
     \/ /\ HasContent(p) /\ InFile(file, p)
        /\ sections' = Pushed([addr |-> p.paddr, len |-> p.memsz, header |-> ph_index])
        /\ mems' = Inserted(p.paddr, Copied(ph_index))
        /\ ph_index' = ph_index + 1 /\ UNCHANGED pc
     \/ /\ HasContent(p) /\ ~InFile(file, p)
        /\ pc' = "abort" /\ UNCHANGED <<ph_index, sections, mems>>
  /\ ReadElf /\ UNCHANGED <<retval, opened, mapped, entry>>

\* The rest of load_elf looks at section headers and changes nothing.
LoadElfEnd ==
  /\ pc = "headers" /\ ph_index \notin DOMAIN file.ph
  /\ pc' = "exit_mmap"
  /\ ReadElf /\ UNCHANGED <<retval, opened, mapped, ph_index, entry, sections, mems>>

Munmap ==
  /\ pc = "exit_mmap"
  /\ pc' = "exit_fd" /\ mapped' = FALSE
  /\ ReadElf /\ UNCHANGED <<retval, opened, ph_index, entry, sections, mems>>

Close ==
  /\ pc = "exit_fd"
  /\ pc' = "exit" /\ opened' = FALSE
  /\ ReadElf /\ UNCHANGED <<retval, mapped, ph_index, entry, sections, mems>>

\* The loader looks at what read_elf returned.
Return ==
  /\ pc = "exit"
  /\ pc' = IF retval = 0 THEN "loader" ELSE "fatal"
  /\ ReadElf /\ UNCHANGED <<retval, opened, mapped, ph_index, entry, sections, mems>>

\* Mutant: the last section is not handed out.
More_last == section_index + 1 < Len(sections)

More == section_index < Len(sections)

\* read_section: the content if there is some for the address and if it fits.
Readable(addr, len) == addr \in DOMAIN mems /\ \A k \in DOMAIN mems[addr] : k < len

Buffer(addr, len) ==
  [k \in 0 .. len - 1 |-> IF k \in DOMAIN mems[addr] THEN mems[addr][k] ELSE Zero]

\* get_section and read_section into a buffer as long as the section.
ServeSection ==
  LET s == sections[section_index + 1] IN
  /\ pc = "loader" /\ state = "get" /\ More
  /\ section_index' = section_index + 1
  /\ IF Readable(s.addr, s.len)
     THEN /\ bf' = Buffer(s.addr, s.len)
          /\ section' = s.header /\ i' = 0 /\ state' = "write"
          /\ UNCHANGED pc
     ELSE pc' = "fatal" /\ UNCHANGED <<bf, section, i, state>>
  /\ UNCHANGED <<via, program, mem, file, retval, opened, mapped, ph_index, entry, sections, mems>>

\* get_section has no more: the loader asks for the entry point.
NoSection ==
  /\ pc = "loader" /\ state = "get" /\ ~More
  /\ state' = "done" /\ i' = 0
  /\ UNCHANGED <<via, program, section, mem, elfVars>>

\* The loader writes the section that its buffer holds.
WriteSection == (AxiBurst \/ JtagWord) /\ UNCHANGED elfVars

ElfNext ==
  \/ Open \/ Stat \/ Mmap \/ Magic \/ LoadElf \/ LoadHeader \/ LoadElfEnd
  \/ Munmap \/ Close \/ Return
  \/ ServeSection \/ NoSection \/ WriteSection

ElfSpec == ElfInit /\ [][ElfNext]_<<vars, elfVars>>

-----------------------------------------------------------------------------
(***************************************************************************)
(* Properties.                                                             *)
(***************************************************************************)
\* Every variable has its type, those of Preload too.
ElfTypeOK ==
  /\ TypeOK
  /\ file \in Files
  /\ pc \in {"open", "stat", "mmap", "magic", "load_elf", "headers", "exit_mmap", "exit_fd", "exit",
            "loader", "fatal", "abort"}
  /\ retval \in {0, -1}
  /\ opened \in BOOLEAN /\ mapped \in BOOLEAN
  /\ ph_index \in 1 .. Len(file.ph) + 1
  /\ entry \in {0, file.e_entry}
  /\ sections \in Seq([addr : Nat, len : Nat, header : DOMAIN file.ph])
  /\ section_index \in 0 .. Len(sections)
  /\ DOMAIN mems = {sections[n].addr : n \in DOMAIN sections}
  /\ \A k \in DOMAIN bf : k \in Nat /\ bf[k] \in {Zero} \cup (DOMAIN file.ph) \X Nat

\* On every path through read_elf the file is mapped only while it is open and
\* looked into only while it is mapped, and it is neither when read_elf returns.
ResourcesReleased ==
  /\ mapped => opened
  /\ pc \in {"magic", "load_elf", "headers"} => mapped
  /\ pc \in {"exit", "loader", "fatal"} => ~opened /\ ~mapped

\* While a section is written, the buffer, the address and the length that the
\* calls returned are those of the program header: the file's bytes and then zeros.
BufferHoldsSection ==
  state = "write" =>
    /\ sections[section_index].addr = Base
    /\ DOMAIN bf = 0 .. SecLen - 1
    /\ \A k \in DOMAIN bf : bf[k] = Content(section, k)

\* The loader reports that it is done only with the whole file in memory and with
\* the file's entry point, or, of a file that ends before its program headers
\* do, with nothing loaded and the entry point 0: that file is not refused.
CompleteOrTruncated ==
  state = "done" =>
    IF HasHeaders(file)
    THEN /\ entry = file.e_entry
         /\ DOMAIN program = DOMAIN file.ph
         /\ \A h \in DOMAIN file.ph : HasContent(file.ph[h]) /\ Fits(h) =>
              \A k \in 0 .. file.ph[h].filesz - 1 : mem[file.ph[h].paddr + k] = <<h, k>>
    ELSE entry = 0 /\ mem = [a \in Address |-> Old]

\* Seen from the loader, the four calls are what Preload says: the sections of the
\* file in its order, each once, and then no more.
ImplementsPreload == Spec
=============================================================================
