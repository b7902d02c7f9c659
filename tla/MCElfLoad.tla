----------------------------- MODULE MCElfLoad -----------------------------
(* Instances of ElfLoad: two sections around the sizes of a beat, a burst   *)
(* and two bursts, that may share a bus word, with a header that is skipped *)
(* between them; and a few images in files that are cut or malformed.       *)
EXTENDS ElfLoad

PHdr(load, offset, paddr, filesz, memsz) ==
  [load |-> load, offset |-> offset, paddr |-> paddr, filesz |-> filesz, memsz |-> memsz]

Phoff(ident) == IF ident = "ELF32" THEN 52 ELSE 64

\* Where the content begins, behind three program headers.
Start(ident) == Phoff(ident) + 3 * IF ident = "ELF32" THEN 32 ELSE 56

\* The skipped header has no content or is not to be loaded at all.
Headers3(o, at, filesz, memsz, load, gap, next) ==
  <<PHdr(TRUE, o, at, filesz, memsz), PHdr(load, o, at + memsz, 0, gap),
    PHdr(TRUE, o + filesz, at + memsz + gap, next, next)>>

\* cut: the bytes that the file lacks at its end.
MCFile(ident, ph, cut) ==
  [ident |-> ident, e_entry |-> 4, e_phoff |-> Phoff(ident), ph |-> ph,
   size |-> ph[3].offset + ph[3].filesz - cut]

Whole ==
  {MCFile("ELF32", Headers3(Start("ELF32"), at, IF half THEN len \div 2 ELSE len, len, load, gap, next), 0) :
     at \in {0, 1, 3}, len \in {0, 3, 5, 8, 10, 16, 17}, half \in BOOLEAN,
     load \in BOOLEAN, gap \in {0, 1}, next \in {2, 7, 8}}

\* Without an end, without contents, within and before the program headers, within
\* the head; content longer than its memory; neither 32 nor 64 bits.
Broken ==
  {MCFile(ident, Headers3(Start(ident), 1, filesz, 5, TRUE, 1, next), cut) :
     ident \in {"ELF32", "ELF64", "none"}, filesz \in {0, 5, 6}, next \in {0, 7},
     cut \in {0, 1, 7, 12, 13, 20, 90}}
  \cup {MCFile(ident, Headers3(Start(ident), 1, 5, 5, TRUE, 1, 7), Start(ident) + 12 - size) :
        ident \in {"ELF32", "ELF64"}, size \in {0, 63, 64, 65}}

MCFiles == Whole \cup Broken

MCPrograms == {<<>> \o Image(f) : f \in MCFiles}
=============================================================================
