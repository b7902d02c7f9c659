--------------------------- MODULE ElfLoad_proofs ---------------------------
(***************************************************************************)
(* Proofs about the loaders and about elfloader.cpp behind them, for any   *)
(* memory, any widths and any files whose headers are in order.            *)
(*                                                                         *)
(* First Preload by itself.  LoadedWhole needs what is in memory halfway   *)
(* through a section (Progress), and that bursts begin at multiples of     *)
(* their size (Aligned), from which follows how far the last burst of a    *)
(* section reaches.                                                        *)
(*                                                                         *)
(* Then ElfLoad: that the calls of elfloader.cpp hand the loader what      *)
(* Preload takes for granted, so that all of the first part holds of the   *)
(* two together.                                                           *)
(***************************************************************************)
EXTENDS ElfLoad, TLAPS


\* While a section is written it is a loadable one, and the loop's condition holds.
Current ==
  state = "write" => section \in DOMAIN program /\ Loadable(section) /\ i <= SecLen

\* Bursts begin at multiples of their size.
Aligned == via = "axi" => i % BurstBytes = 0

\* How many bytes the loop variable stands for.
Reach == IF via = "axi" THEN i - BusOffset ELSE i

\* The bytes of the section that were already written are in memory.
Progress ==
  state = "write" => \A k \in 0 .. SecLen - 1 : k < Reach => mem[Base + k] = Content(section, k)

Inv ==
  /\ TypeOK /\ Current /\ Aligned /\ Progress
  /\ LoadedWhole /\ OnlySectionsWritten /\ StopsOnlyAtWholeBursts

-----------------------------------------------------------------------------
(***************************************************************************)
(* Division with remainder.                                                *)
(***************************************************************************)
\* A number is its quotient and its remainder.
LEMMA Division ==
  ASSUME NEW a \in Nat, NEW b \in Nat \ {0}
  PROVE  /\ a \div b \in Nat /\ a % b \in Nat
         /\ a % b < b
         /\ a = b * (a \div b) + (a % b)
  OBVIOUS

\* The remainder is unique.
LEMMA Remainder ==
  ASSUME NEW a \in Nat, NEW b \in Nat \ {0}, NEW q \in Nat, NEW r \in Nat,
         r < b, a = b * q + r
  PROVE  a % b = r
<1> DEFINE p == a \div b
<1>1. p \in Nat /\ a % b \in Nat /\ a % b < b /\ a = b * p + (a % b)
  BY Division
<1>2. ~(p < q)
  <2>1. SUFFICES ASSUME p < q PROVE FALSE
    OBVIOUS
  <2>2. \E d \in Nat : q = p + 1 + d
    <3>1. q - p - 1 \in Nat /\ q = p + 1 + (q - p - 1)
      BY <1>1, <2>1
    <3> QED BY <3>1
  <2>3. PICK d \in Nat : q = p + 1 + d
    BY <2>2
  <2>4. b * q = b * p + b + b * d /\ b * d >= 0
    BY <1>1, <2>3
  <2> HIDE DEF p
  <2> QED BY <1>1, <2>4
<1>3. ~(q < p)
  <2>1. SUFFICES ASSUME q < p PROVE FALSE
    OBVIOUS
  <2>2. \E d \in Nat : p = q + 1 + d
    <3>1. p - q - 1 \in Nat /\ p = q + 1 + (p - q - 1)
      BY <1>1, <2>1
    <3> QED BY <3>1
  <2>3. PICK d \in Nat : p = q + 1 + d
    BY <2>2
  <2>4. b * p = b * q + b + b * d /\ b * d >= 0
    BY <1>1, <2>3
  <2> HIDE DEF p
  <2> QED BY <1>1, <2>4
<1>4. p = q
  BY <1>1, <1>2, <1>3
<1> HIDE DEF p
<1> QED BY <1>1, <1>4

\* A multiple of b is followed by one, b further on.
LEMMA NextMultiple ==
  ASSUME NEW n \in Nat, NEW b \in Nat \ {0}, n % b = 0
  PROVE  (n + b) % b = 0
<1> DEFINE q == n \div b
<1>1. q \in Nat /\ n = b * q
  BY Division
<1>2. n + b = b * (q + 1) + 0 /\ q + 1 \in Nat /\ n + b \in Nat
  BY <1>1
<1> HIDE DEF q
<1> QED BY <1>2, Remainder

\* The remainder of len is what it has beyond its last multiple of b.
LEMMA LastMultiple ==
  ASSUME NEW n \in Nat, NEW b \in Nat \ {0}, NEW len \in Nat,
         n % b = 0, n <= len, len < n + b
  PROVE  len % b = len - n
<1> DEFINE q == n \div b
<1>1. q \in Nat /\ n = b * q
  BY Division
<1>2. len = b * q + (len - n) /\ len - n \in Nat /\ len - n < b
  BY <1>1
<1> HIDE DEF q
<1> QED BY <1>1, <1>2, Remainder

-----------------------------------------------------------------------------
(***************************************************************************)
(* One section.                                                            *)
(***************************************************************************)
\* The numbers of the section that is written.
Numbers ==
  /\ Base \in Nat /\ SecLen \in Nat /\ Base + SecLen <= Size
  /\ BusOffset \in Nat /\ BusOffset < StrbWidth /\ BusOffset <= Base
  /\ i \in Nat /\ i <= SecLen
  /\ section \in DOMAIN program /\ section \in Nat \ {0}

LEMMA SectionTypes ==
  ASSUME TypeOK, Current, state = "write"
  PROVE  Numbers
<1>1. /\ section \in DOMAIN program /\ program \in Programs /\ program \in Seq(Header)
      /\ i \in Nat /\ i <= SecLen
  BY PreloadAssumption DEF TypeOK, Current
<1>2. program[section] \in Header /\ section \in Nat \ {0}
  BY <1>1
<1>3. Base \in Nat /\ SecLen \in Nat /\ Base + SecLen <= Size
  BY <1>1, <1>2, PreloadAssumption DEF Base, SecLen, Header
<1>4. BusOffset \in Nat /\ BusOffset < StrbWidth /\ BusOffset <= Base
  <2>1. /\ Base \div StrbWidth \in Nat /\ BusOffset \in Nat /\ BusOffset < StrbWidth
        /\ Base = StrbWidth * (Base \div StrbWidth) + BusOffset
    BY <1>3, Division, PreloadAssumption DEF BusOffset
  <2>2. StrbWidth * (Base \div StrbWidth) \in Nat
    BY <2>1, PreloadAssumption
  <2> QED BY <1>3, <2>1, <2>2
<1> QED BY <1>1, <1>2, <1>3, <1>4 DEF Numbers

\* A burst writes all bytes of the section that it reaches.
LEMMA BurstCovers ==
  ASSUME Numbers, NEW a \in Address, Base <= a, a < Base + SecLen,
         i - BusOffset <= a - Base, a - Base < i + BurstBytes - BusOffset
  PROVE  InBurst(a)
<1> DEFINE j == a - (Base - BusOffset)
<1>1. a \in Nat /\ j \in Nat /\ i <= j /\ j < i + BurstBytes /\ j - BusOffset < SecLen
  BY PreloadAssumption DEF Address, Numbers
<1>2. j % StrbWidth \in Nat
  BY <1>1, Division, PreloadAssumption
<1>3. j - (j % StrbWidth) - BusOffset < SecLen
  <2> HIDE DEF j
  <2> QED BY <1>1, <1>2 DEF Numbers
<1>4. a >= Base
  BY <1>1 DEF Numbers
<1> QED BY <1>1, <1>3, <1>4 DEF InBurst

\* A burst writes nothing before its section and less than a bus word behind it.
LEMMA BurstBounded ==
  ASSUME Numbers, NEW a \in Address, InBurst(a)
  PROVE  Base <= a /\ a < Base + SecLen + StrbWidth - 1
<1> DEFINE j == a - (Base - BusOffset)
<1>0. j - (j % StrbWidth) - BusOffset < SecLen /\ a >= Base
  BY DEF InBurst
<1>1. a \in Nat /\ Base <= a /\ j \in Nat
  BY <1>0, PreloadAssumption DEF Address, Numbers
<1>2. j % StrbWidth \in Nat /\ j % StrbWidth < StrbWidth
  BY <1>1, Division, PreloadAssumption
<1>3. a = j + Base - BusOffset
  BY <1>1 DEF Numbers
<1> HIDE DEF j
<1> QED BY <1>0, <1>1, <1>2, <1>3, PreloadAssumption DEF Numbers

\* Where the last burst of a section ends: the section is not one of whole bursts, and
\* the burst reaches the section's end if the section fits.
LEMMA LastBurst ==
  ASSUME Numbers, Aligned, via = "axi", HasBeats, Ends(BurstBytes)
  PROVE  ~WholeBursts(section) /\ (Fits(section) => SecLen <= i + BurstBytes - BusOffset)
<1>1. SecLen % BurstBytes = SecLen - i
  <2>1. i % BurstBytes = 0 /\ SecLen < i + BurstBytes
    BY PreloadAssumption DEF Aligned, Ends, Numbers
  <2> QED BY <2>1, LastMultiple, PreloadAssumption DEF Numbers
<1>2. ~WholeBursts(section)
  <2>1. SUFFICES ASSUME WholeBursts(section) PROVE FALSE
    OBVIOUS
  <2>2. SecLen % BurstBytes = 0 /\ BusOffset = 0
    BY <2>1 DEF WholeBursts, SecLen, BusOffset, Base
  <2> QED BY <1>1, <2>2 DEF HasBeats, Numbers
<1>3. Fits(section) => (SecLen - i) + BusOffset <= BurstBytes
  BY <1>1 DEF Fits, SecLen, BusOffset, Base
<1> QED BY <1>2, <1>3, PreloadAssumption DEF Numbers
-----------------------------------------------------------------------------
(***************************************************************************)
(* One write, by either loader.                                            *)
(***************************************************************************)
\* Less than this many bytes behind its section are written.
Behind == IF via = "axi" THEN StrbWidth - 1 ELSE WordBytes

\* Memory after a write to A that reaches from the bytes in memory so far to byte r:
\* it has its type, the section is there up to r, and nothing of the sections before it
\* or outside of the section's surroundings has changed.
LEMMA Write ==
  ASSUME Inv, state = "write", NEW A \in SUBSET Address, NEW r \in Int,
         \A a \in A : Base <= a /\ a < Base + SecLen + Behind,
         \A a \in Address :
           Base <= a /\ a < Base + SecLen /\ Reach <= a - Base /\ a - Base < r => a \in A,
         mem' = Written(A)
  PROVE  /\ mem' \in [Address -> {Old, Zero} \cup (Nat \ {0}) \X Nat]
         /\ \A k \in 0 .. SecLen - 1 : k < r => mem'[Base + k] = Content(section, k)
         /\ \A h \in DOMAIN program : h < section =>
              \A k \in 0 .. program[h].memsz - 1 : mem'[program[h].paddr + k] = mem[program[h].paddr + k]
         /\ \A a \in Address : mem'[a] # mem[a] => Base <= a /\ a < Base + SecLen + Behind
<1>0. Numbers /\ TypeOK /\ Progress
  BY SectionTypes DEF Inv
<1>1. \A a \in Address : mem'[a] = IF a \in A THEN Content(section, a - Base) ELSE mem[a]
  BY DEF Written
<1>2. mem' \in [Address -> {Old, Zero} \cup (Nat \ {0}) \X Nat]
  <2>1. \A a \in A : a - Base \in Nat
    BY <1>0, PreloadAssumption DEF Numbers, Address
  <2>2. \A a \in A : Content(section, a - Base) \in {Old, Zero} \cup (Nat \ {0}) \X Nat
    BY <1>0, <2>1 DEF Content, Numbers
  <2> QED BY <1>0, <1>1, <2>2 DEF Written, TypeOK
<1>3. ASSUME NEW k \in 0 .. SecLen - 1, k < r
      PROVE  mem'[Base + k] = Content(section, k)
  <2>1. PICK a \in Address : a = Base + k
    BY <1>0, PreloadAssumption DEF Numbers, Address
  <2>2. k \in Nat /\ a - Base = k /\ Base <= a /\ a < Base + SecLen
    BY <1>0, <2>1 DEF Numbers
  <2>3. CASE a \in A
    BY <1>1, <2>1, <2>2, <2>3
  <2>4. CASE a \notin A
    <3>1. ~(Reach <= k)
      BY <1>3, <2>2, <2>4
    <3>2. k < Reach
      BY <1>0, <2>2, <3>1 DEF Reach, Numbers
    <3> QED BY <1>0, <1>1, <2>1, <2>4, <3>2 DEF Progress
  <2> QED BY <2>3, <2>4
<1>4. ASSUME NEW h \in DOMAIN program, h < section,
             NEW k \in 0 .. program[h].memsz - 1
      PROVE  mem'[program[h].paddr + k] = mem[program[h].paddr + k]
  <2>1. program \in Programs /\ program \in Seq(Header)
    BY <1>0, PreloadAssumption DEF TypeOK
  <2>2. h \in Nat \ {0} /\ h \in 1 .. section - 1
    BY <1>0, <1>4, <2>1 DEF Numbers
  <2>3. program[h] \in Header
    BY <2>1
  <2>4. program[h].paddr \in Nat /\ program[h].memsz \in Nat
    BY <2>3 DEF Header
  <2>5. program[h].paddr + program[h].memsz <= Base
    BY <1>0, <2>1, <2>2, PreloadAssumption DEF Base, Numbers
  <2>6. PICK a \in Address : a = program[h].paddr + k
    BY <1>0, <2>4, <2>5, PreloadAssumption DEF Address, Numbers
  <2>7. a < Base /\ a \in Nat
    BY <1>0, <2>4, <2>5, <2>6 DEF Numbers
  <2>8. a \notin A
    BY <1>0, <2>7 DEF Numbers
  <2> QED BY <1>1, <2>6, <2>8
<1>5. ASSUME NEW a \in Address, mem'[a] # mem[a]
      PROVE  Base <= a /\ a < Base + SecLen + Behind
  BY <1>1, <1>5
<1> QED BY <1>2, <1>3, <1>4, <1>5
\* What a step leaves alone as long as loader and image stay the same.
LEMMA Frame ==
  ASSUME UNCHANGED <<via, program>>
  PROVE  /\ \A h : Loadable(h)' <=> Loadable(h)
         /\ \A h : Fits(h)' <=> Fits(h)
         /\ \A h : WholeBursts(h)' <=> WholeBursts(h)
         /\ \A h, k : Content(h, k)' = Content(h, k)
         /\ Behind' = Behind
  BY DEF Loadable, Fits, WholeBursts, Content, Behind

\* One round of the loop, of either loader, keeps the invariant.
LEMMA Round ==
  ASSUME Inv, state = "write", UNCHANGED <<via, program, section>>,
         NEW step \in Nat \ {0}, Advance(step),
         via = "axi" => step = BurstBytes,
         NEW A \in SUBSET Address,
         \A a \in A : Base <= a /\ a < Base + SecLen + Behind,
         \A a \in Address :
           Base <= a /\ a < Base + SecLen /\ Reach <= a - Base /\ a - Base < Reach + step => a \in A,
         mem' = Written(A),
         Ends(step) /\ Fits(section) => SecLen <= Reach + step,
         via = "axi" /\ Ends(step) => ~WholeBursts(section)
  PROVE  Inv'
<1>0. /\ TypeOK /\ Current /\ Aligned /\ LoadedWhole /\ OnlySectionsWritten
      /\ StopsOnlyAtWholeBursts /\ Numbers
  BY SectionTypes DEF Inv
<1>1. /\ i' = i + step /\ i' \in Nat
      /\ state' = IF Ends(step) THEN "get" ELSE "write"
  BY <1>0 DEF Advance, Numbers
<1>2. /\ Reach \in Int /\ Reach' = Reach + step
      /\ Base' = Base /\ SecLen' = SecLen
  BY <1>0, <1>1 DEF Reach, Base, SecLen, BusOffset, Numbers
<1>3. /\ mem' \in [Address -> {Old, Zero} \cup (Nat \ {0}) \X Nat]
      /\ \A k \in 0 .. SecLen - 1 : k < Reach + step => mem'[Base + k] = Content(section, k)
      /\ \A h \in DOMAIN program : h < section =>
           \A k \in 0 .. program[h].memsz - 1 : mem'[program[h].paddr + k] = mem[program[h].paddr + k]
      /\ \A a \in Address : mem'[a] # mem[a] => Base <= a /\ a < Base + SecLen + Behind
  <2>1. Reach + step \in Int
    BY <1>2
  <2> QED BY <2>1, Write
<1>4. TypeOK'
  BY <1>0, <1>1, <1>3 DEF TypeOK, Address
<1>5. Current'
  <2>1. state' = "write" => i' <= SecLen
    BY <1>0, <1>1 DEF Ends, Numbers
  <2> QED BY <1>0, <1>2, <2>1, Frame DEF Current
<1>6. Aligned'
  <2>1. CASE via = "axi"
    BY <1>0, <1>1, <2>1, NextMultiple, PreloadAssumption DEF Aligned, Numbers
  <2> QED BY <2>1 DEF Aligned
<1>7. Progress'
  BY <1>2, <1>3, Frame DEF Progress
<1>8. ASSUME NEW h \in Loaded'
      PROVE  /\ h \in DOMAIN program
             /\ (h \in Loaded /\ h < section) \/ (h = section /\ Ends(step))
  <2>1. /\ h \in DOMAIN program /\ Loadable(h)
        /\ state' = "done" \/ h < section \/ (h = section /\ state' = "get")
    BY Frame DEF Loaded
  <2>2. state' # "done" /\ (state' = "get" => Ends(step))
    BY <1>1
  <2> QED BY <2>1, <2>2 DEF Loaded
<1>9. LoadedWhole'
  <2> SUFFICES ASSUME NEW h \in Loaded', Fits(h)',
                      NEW k \in 0 .. program[h].memsz - 1
               PROVE  mem'[program[h].paddr + k] = Content(h, k)
    BY Frame DEF LoadedWhole
  <2>1. CASE h \in Loaded /\ h < section
    BY <1>0, <1>3, <1>8, <2>1, Frame DEF LoadedWhole
  <2>2. CASE h = section /\ Ends(step)
    <3>1. SecLen <= Reach + step
      BY <2>2, Frame
    <3>2. k \in 0 .. SecLen - 1 /\ k < Reach + step
      BY <1>0, <1>2, <2>2, <3>1 DEF SecLen, Numbers
    <3> QED BY <1>3, <2>2, <3>2 DEF Base
  <2> QED BY <1>8, <2>1, <2>2
<1>10. OnlySectionsWritten'
  <2> SUFFICES ASSUME NEW a \in Address, mem'[a] # Old
               PROVE  \E h \in 1 .. section :
                        /\ Loadable(h) /\ program[h].paddr <= a
                        /\ a < program[h].paddr + program[h].memsz + Behind
    BY Frame DEF OnlySectionsWritten, Behind, Address, Loadable
  <2>1. CASE mem'[a] = mem[a]
    BY <1>0, <2>1 DEF OnlySectionsWritten, Behind
  <2>2. CASE mem'[a] # mem[a]
    <3>1. Base <= a /\ a < Base + SecLen + Behind
      BY <1>3, <2>2
    <3>2. section \in 1 .. section /\ Loadable(section)
      BY <1>0 DEF Numbers, Current
    <3> QED BY <3>1, <3>2 DEF Base, SecLen
  <2> QED BY <2>1, <2>2
<1>11. StopsOnlyAtWholeBursts'
  BY <1>0, <1>1, <1>8, Frame DEF StopsOnlyAtWholeBursts
<1> QED BY <1>4, <1>5, <1>6, <1>7, <1>9, <1>10, <1>11 DEF Inv
-----------------------------------------------------------------------------
(***************************************************************************)
(* The steps.                                                              *)
(***************************************************************************)
\* The initial state satisfies the invariant.
LEMMA InitInv == Init => Inv
<1> SUFFICES ASSUME Init PROVE Inv
  OBVIOUS
<1>1. program \in Programs /\ program \in Seq(Header) /\ \A h \in DOMAIN program : h \in Nat \ {0}
  BY PreloadAssumption DEF Init
<1>2. TypeOK
  BY <1>1 DEF Init, TypeOK
<1>3. Loaded = {}
  BY <1>1 DEF Init, Loaded
<1>4. 0 % BurstBytes = 0
  <2>1. 0 = BurstBytes * 0 + 0
    BY PreloadAssumption
  <2> QED BY <2>1, Remainder, PreloadAssumption
<1>5. Current /\ Aligned /\ Progress
  BY <1>4 DEF Init, Current, Aligned, Progress
<1>6. LoadedWhole /\ OnlySectionsWritten /\ StopsOnlyAtWholeBursts
  BY <1>3 DEF Init, LoadedWhole, OnlySectionsWritten, StopsOnlyAtWholeBursts
<1> QED BY <1>2, <1>5, <1>6 DEF Inv

\* A section is handed out, or preloading is complete: what counts as loaded is the same.
LEMMA GetStep ==
  ASSUME Inv, GetSection
  PROVE  Inv'
<1>0. /\ TypeOK /\ LoadedWhole /\ OnlySectionsWritten /\ StopsOnlyAtWholeBursts
      /\ state = "get" /\ UNCHANGED <<via, program, mem>> /\ i' = 0
  BY DEF Inv, GetSection
<1>1. program \in Programs /\ program \in Seq(Header) /\ DOMAIN program = 1 .. Len(program)
      /\ Len(program) \in Nat /\ section \in Nat
  BY <1>0, PreloadAssumption DEF TypeOK
<1>2. /\ section' \in 0 .. Len(program) /\ section' >= section
      /\ state' \in {"write", "done"}
      /\ state' = "write" => section' \in DOMAIN program /\ Loadable(section')
  BY <1>0, <1>1 DEF GetSection, Later, TypeOK
<1>3. ASSUME NEW h \in Loaded'
      PROVE  h \in Loaded
  <2>1. h \in DOMAIN program /\ Loadable(h) /\ (state' = "done" \/ h < section')
    BY <1>0, <1>2, <1>3, Frame DEF Loaded
  <2>2. h <= section
    <3>1. CASE state' = "done"
      <4>1. Later = {}
        BY <3>1 DEF GetSection
      <4> QED BY <1>1, <2>1, <4>1 DEF Later
    <3>2. CASE h < section' /\ state' # "done"
      <4>1. \A g \in Later : section' <= g
        BY <3>2 DEF GetSection
      <4>2. h \notin Later
        BY <1>1, <1>2, <2>1, <3>2, <4>1
      <4> QED BY <1>1, <2>1, <4>2 DEF Later
    <3> QED BY <2>1, <3>1, <3>2
  <2> QED BY <1>0, <1>1, <2>1, <2>2 DEF Loaded
<1>4. TypeOK'
  BY <1>0, <1>1, <1>2 DEF TypeOK, Address
<1>5. Current'
  <2> SUFFICES ASSUME state' = "write"
               PROVE  section' \in DOMAIN program /\ Loadable(section') /\ 0 <= program[section'].memsz
    BY <1>0, Frame DEF Current, SecLen
  <2>1. program[section'] \in Header
    BY <1>1, <1>2
  <2> QED BY <1>2, <2>1 DEF Header
<1>6. Aligned'
  <2>1. 0 = BurstBytes * 0 + 0
    BY PreloadAssumption
  <2>2. 0 % BurstBytes = 0
    BY <2>1, Remainder, PreloadAssumption
  <2> QED BY <1>0, <2>2 DEF Aligned
<1>7. Progress'
  <2> SUFFICES ASSUME state' = "write", NEW k \in 0 .. SecLen' - 1
               PROVE  ~(k < Reach')
    BY DEF Progress
  <2>1. program[section'] \in Header
    BY <1>1, <1>2
  <2>2. Base' \in Nat /\ SecLen' \in Nat
    BY <1>0, <2>1 DEF Base, SecLen, Header
  <2>3. BusOffset' \in Nat
    BY <2>2, Division, PreloadAssumption DEF BusOffset
  <2>4. Reach' = 0 \/ Reach' = 0 - BusOffset'
    BY <1>0 DEF Reach
  <2> QED BY <2>2, <2>3, <2>4
<1>8. LoadedWhole'
  BY <1>0, <1>3, Frame DEF LoadedWhole, Loaded
<1>9. OnlySectionsWritten'
  <2>1. 1 .. section \subseteq 1 .. section'
    BY <1>1, <1>2
  <2> QED BY <1>0, <2>1, Frame DEF OnlySectionsWritten, Address
<1>10. StopsOnlyAtWholeBursts'
  BY <1>0, <1>2, <1>3, Frame DEF StopsOnlyAtWholeBursts
<1> QED BY <1>4, <1>5, <1>6, <1>7, <1>8, <1>9, <1>10 DEF Inv

\* A word is written through the debug module.
LEMMA JtagStep ==
  ASSUME Inv, JtagWord
  PROVE  Inv'
<1> DEFINE A == {a \in Address : Base + i <= a /\ a < Base + i + WordBytes}
<1>0. /\ via = "jtag" /\ state = "write" /\ Advance(WordBytes) /\ mem' = Written(A)
      /\ UNCHANGED <<via, program, section>> /\ Numbers
  BY SectionTypes DEF Inv, JtagWord
<1>1. Reach = i /\ Behind = WordBytes
  BY <1>0 DEF Reach, Behind
<1>2. \A a \in A : Base <= a /\ a < Base + SecLen + Behind
  BY <1>0, <1>1, PreloadAssumption DEF Address, Numbers
<1>3. \A a \in Address :
        Base <= a /\ a < Base + SecLen /\ Reach <= a - Base /\ a - Base < Reach + WordBytes => a \in A
  BY <1>0, <1>1, PreloadAssumption DEF Address, Numbers
<1>4. Ends(WordBytes) => SecLen <= Reach + WordBytes
  BY <1>0, <1>1, PreloadAssumption DEF Ends, Numbers
<1>5. WordBytes \in Nat \ {0} /\ A \in SUBSET Address /\ via # "axi"
  BY <1>0, PreloadAssumption
<1> HIDE DEF A
<1> QED BY <1>0, <1>2, <1>3, <1>4, <1>5, Round

\* A burst is written, or fails because it is empty.
LEMMA AxiStep ==
  ASSUME Inv, AxiBurst
  PROVE  Inv'
<1> DEFINE A == {a \in Address : InBurst(a)}
<1>0. /\ via = "axi" /\ state = "write" /\ UNCHANGED <<via, program, section>>
      /\ Numbers /\ Aligned /\ Inv
  BY SectionTypes DEF Inv, AxiBurst
<1>1. Reach = i - BusOffset /\ Behind = StrbWidth - 1
  BY <1>0 DEF Reach, Behind
<1>2. CASE HasBeats
  <2>1. Advance(BurstBytes) /\ mem' = Written(A)
    BY <1>2 DEF AxiBurst
  <2>2. \A a \in A : Base <= a /\ a < Base + SecLen + Behind
    <3>1. \A a \in A : Base <= a /\ a < Base + SecLen + StrbWidth - 1
      BY <1>0, BurstBounded
    <3> QED BY <1>0, <1>1, <3>1, PreloadAssumption DEF Numbers, Address
  <2>3. \A a \in Address :
          Base <= a /\ a < Base + SecLen /\ Reach <= a - Base /\ a - Base < Reach + BurstBytes => a \in A
    <3> SUFFICES ASSUME NEW a \in Address, Base <= a, a < Base + SecLen,
                        Reach <= a - Base, a - Base < Reach + BurstBytes
                 PROVE  InBurst(a)
      OBVIOUS
    <3>1. i - BusOffset <= a - Base /\ a - Base < i + BurstBytes - BusOffset
      BY <1>0, <1>1, PreloadAssumption DEF Numbers, Address
    <3> QED BY <1>0, <3>1, BurstCovers
  <2>4. Ends(BurstBytes) =>
          ~WholeBursts(section) /\ (Fits(section) => SecLen <= Reach + BurstBytes)
    <3>1. Ends(BurstBytes) =>
            ~WholeBursts(section) /\ (Fits(section) => SecLen <= i + BurstBytes - BusOffset)
      BY <1>0, <1>2, LastBurst
    <3> QED BY <1>0, <1>1, <3>1, PreloadAssumption DEF Numbers
  <2>5. BurstBytes \in Nat \ {0} /\ A \in SUBSET Address
    BY PreloadAssumption
  <2> HIDE DEF A
  <2> QED BY <1>0, <2>1, <2>2, <2>3, <2>4, <2>5, Round
<1>3. CASE ~HasBeats
  <2>1. state' = "fatal" /\ UNCHANGED <<i, mem>>
    BY <1>3 DEF AxiBurst
  <2>2. WholeBursts(section)
    <3>1. i = SecLen /\ BusOffset = 0
      BY <1>0, <1>3 DEF HasBeats, Numbers
    <3> QED BY <1>0, <3>1 DEF WholeBursts, Aligned, SecLen, BusOffset, Base
  <2>3. TypeOK'
    BY <1>0, <2>1 DEF Inv, TypeOK, Address
  <2>4. Current' /\ Progress'
    BY <2>1 DEF Current, Progress
  <2>5. Aligned'
    BY <1>0, <2>1 DEF Aligned
  <2>6. \A h \in Loaded' : h \in Loaded
    BY <1>0, <2>1, Frame DEF Loaded
  <2>7. LoadedWhole'
    BY <1>0, <2>1, <2>6, Frame DEF Inv, LoadedWhole, Loaded
  <2>8. OnlySectionsWritten'
    BY <1>0, <2>1, Frame DEF Inv, OnlySectionsWritten, Address
  <2>9. StopsOnlyAtWholeBursts'
    BY <1>0, <2>1, <2>2, <2>6, Frame DEF Inv, StopsOnlyAtWholeBursts
  <2> QED BY <2>3, <2>4, <2>5, <2>7, <2>8, <2>9 DEF Inv
<1> QED BY <1>2, <1>3

\* Every step keeps the invariant.
LEMMA StepInv == Inv /\ [Next]_vars => Inv'
<1> SUFFICES ASSUME Inv, [Next]_vars PROVE Inv'
  OBVIOUS
<1>1. CASE GetSection
  BY <1>1, GetStep
<1>2. CASE AxiBurst
  BY <1>2, AxiStep
<1>3. CASE JtagWord
  BY <1>3, JtagStep
<1>4. CASE UNCHANGED vars
  BY <1>4 DEF vars, Inv, TypeOK, Current, Aligned, Progress, LoadedWhole, OnlySectionsWritten,
              StopsOnlyAtWholeBursts, Loaded, Loadable, Fits, WholeBursts, Content,
              Base, SecLen, BusOffset, Reach, Address
<1> QED BY <1>1, <1>2, <1>3, <1>4 DEF Next

\* The invariant holds.
LEMMA Invariant == Spec => []Inv
  BY InitInv, StepInv, PTL DEF Spec

-----------------------------------------------------------------------------
\* Both loaders keep to the types, memory's included.
THEOREM TypeCorrect == Spec => []TypeOK
<1>1. Inv => TypeOK
  BY DEF Inv
<1> QED BY <1>1, Invariant, PTL

\* Whatever the widths of the bus and the burst, the sections that axi_elf_preload and
\* jtag_safed_elf_preload have loaded are in memory, whole.
THEOREM SectionsWhole == Spec => []LoadedWhole
<1>1. Inv => LoadedWhole
  BY DEF Inv
<1> QED BY <1>1, Invariant, PTL

\* Whatever the image, the loaders write nothing but sections and the rest of a word.
THEOREM WritesBounded == Spec => []OnlySectionsWritten
<1>1. Inv => OnlySectionsWritten
  BY DEF Inv
<1> QED BY <1>1, Invariant, PTL

\* The AXI loader asks for an empty burst at aligned sections of whole bursts, at the first
\* of them, and at no others.
THEOREM StopsExactly == Spec => []StopsOnlyAtWholeBursts
<1>1. Inv => StopsOnlyAtWholeBursts
  BY DEF Inv
<1> QED BY <1>1, Invariant, PTL

-----------------------------------------------------------------------------
(***************************************************************************)
(* elfloader.cpp behind the loaders: its inductive invariant.              *)
(***************************************************************************)
\* What read_elf holds, by the label it has come to.
Holds ==
  /\ opened <=> pc \in {"stat", "mmap", "magic", "load_elf", "headers", "exit_mmap", "exit_fd", "abort"}
  /\ mapped <=> pc \in {"magic", "load_elf", "headers", "exit_mmap", "abort"}

\* Nothing was found in the file yet.
Empty == ph_index = 1 /\ sections = <<>> /\ entry = 0

\* What read_elf has checked by then; and what it has done when it returns 0, of a
\* file with program headers and of one without.
Checked ==
  /\ pc \in {"open", "stat", "mmap", "magic", "load_elf", "headers", "loader"} => retval = 0
  /\ pc \in {"open", "stat", "mmap", "magic", "load_elf"} => Empty
  /\ pc \in {"mmap", "magic", "load_elf", "headers"} => HasHead(file)
  /\ pc \in {"load_elf", "headers"} => HasMagic(file)
  /\ pc = "headers" => HasHeaders(file) /\ entry = file.e_entry
  /\ pc \in {"exit_mmap", "exit_fd", "exit", "loader"} /\ retval = 0 =>
       /\ HasHead(file) /\ HasMagic(file)
       /\ IF HasHeaders(file) THEN entry = file.e_entry /\ ph_index = Len(file.ph) + 1 ELSE Empty

\* The containers hold the contents of the headers so far, each once and in their order.
Collected ==
  /\ \A h \in 1 .. ph_index - 1 : HasContent(file.ph[h]) =>
       InFile(file, file.ph[h]) /\ \E n \in DOMAIN sections : sections[n].header = h
  /\ \A n \in DOMAIN sections :
       /\ sections[n].header \in 1 .. ph_index - 1
       /\ HasContent(file.ph[sections[n].header])
       /\ sections[n].addr = file.ph[sections[n].header].paddr
       /\ sections[n].len = file.ph[sections[n].header].memsz
       /\ mems[sections[n].addr] = Copied(sections[n].header)
  /\ \A m, n \in DOMAIN sections : m < n => sections[m].header < sections[n].header

\* The loader waits for read_elf; then it has the section that was handed out last, and
\* none that was handed out is longer than its memory.
Serves ==
  /\ program = Image(file)
  /\ pc # "loader" => state = "get"
  /\ pc \notin {"loader", "fatal"} => section_index = 0 /\ section = 0
  /\ pc = "loader" =>
       /\ section = IF section_index = 0 THEN 0 ELSE sections[section_index].header
       /\ \A n \in 1 .. section_index : ~Overlong(file.ph[sections[n].header])
       /\ state = "write" => section_index > 0 /\ bf = [k \in 0 .. SecLen - 1 |-> Content(section, k)]
       /\ state = "done" => section_index = Len(sections)

ElfInv == ElfTypeOK /\ Inv /\ Holds /\ Checked /\ Collected /\ Serves

-----------------------------------------------------------------------------
(***************************************************************************)
(* Files and images.                                                       *)
(***************************************************************************)
\* The headers of a file have their types.
LEMMA FileTypes ==
  ASSUME file \in Files
  PROVE  /\ Len(file.ph) \in Nat /\ DOMAIN file.ph = 1 .. Len(file.ph)
         /\ \A h \in DOMAIN file.ph : file.ph[h] \in Phdr
         /\ \A h \in DOMAIN file.ph :
              /\ file.ph[h].paddr \in Nat /\ file.ph[h].offset \in Nat
              /\ file.ph[h].filesz \in Nat /\ file.ph[h].memsz \in Nat
<1>1. file.ph \in Seq(Phdr)
  BY ElfLoadAssumption DEF File
<1>2. Len(file.ph) \in Nat /\ DOMAIN file.ph = 1 .. Len(file.ph)
      /\ \A h \in DOMAIN file.ph : file.ph[h] \in Phdr
  BY <1>1
<1> QED BY <1>2 DEF Phdr

\* The loader sees the file's headers, up to the first that is too long.
LEMMA ImageIsFile ==
  ASSUME program = Image(file)
  PROVE  /\ \A h \in DOMAIN program :
              /\ h \in DOMAIN file.ph
              /\ \A g \in 1 .. h : ~Overlong(file.ph[g])
              /\ program[h].paddr = file.ph[h].paddr
              /\ program[h].filesz = file.ph[h].filesz
              /\ program[h].memsz = file.ph[h].memsz
              /\ Loadable(h) <=> HasContent(file.ph[h])
         /\ DOMAIN program # {} => HasHeaders(file)
         /\ /\ HasHead(file) /\ HasMagic(file) /\ HasHeaders(file)
            /\ \A h \in DOMAIN file.ph : HasContent(file.ph[h]) => InFile(file, file.ph[h])
            => \A h \in DOMAIN file.ph : (\A g \in 1 .. h : ~Overlong(file.ph[g])) => h \in DOMAIN program
<1> DEFINE Read == /\ HasHead(file) /\ HasMagic(file) /\ HasHeaders(file)
                   /\ \A h \in DOMAIN file.ph : HasContent(file.ph[h]) => InFile(file, file.ph[h])
           Served == {h \in DOMAIN file.ph : Read /\ \A g \in 1 .. h : ~Overlong(file.ph[g])}
<1>1. program = [h \in Served |-> [load |-> file.ph[h].load, paddr |-> file.ph[h].paddr,
                                   filesz |-> file.ph[h].filesz, memsz |-> file.ph[h].memsz]]
  BY DEF Image
<1>2. \A h \in Served : /\ program[h].load = file.ph[h].load
                        /\ program[h].paddr = file.ph[h].paddr
                        /\ program[h].filesz = file.ph[h].filesz
                        /\ program[h].memsz = file.ph[h].memsz
  BY <1>1
<1>3. DOMAIN program = Served
  BY <1>1
<1> QED BY <1>2, <1>3 DEF Loadable, HasContent

-----------------------------------------------------------------------------
(***************************************************************************)
(* The steps of read_elf.                                                  *)
(***************************************************************************)
\* Before the first step, the invariant holds.
LEMMA ElfInitInv == ElfInit => ElfInv
<1> SUFFICES ASSUME ElfInit PROVE ElfInv
  OBVIOUS
<1>1. Inv /\ TypeOK
  BY InitInv DEF ElfInit, Inv
<1>2. Len(file.ph) \in Nat
  BY FileTypes DEF ElfInit
<1>3. ElfTypeOK
  <2>1. sections = <<>> /\ DOMAIN sections = {} /\ Len(sections) = 0 /\ DOMAIN mems = {} /\ DOMAIN bf = {}
    BY DEF ElfInit
  <2>2. DOMAIN mems = {sections[n].addr : n \in DOMAIN sections}
    BY <2>1
  <2>3. file \in Files /\ pc = "open" /\ retval = 0 /\ ~opened /\ ~mapped /\ entry = 0
        /\ opened \in BOOLEAN /\ mapped \in BOOLEAN
    BY DEF ElfInit
  <2>4. ph_index \in 1 .. Len(file.ph) + 1 /\ section_index \in 0 .. Len(sections)
    BY <1>2, <2>1 DEF ElfInit
  <2> QED BY <1>1, <2>1, <2>2, <2>3, <2>4 DEF ElfTypeOK
<1>4. Holds /\ Checked /\ Collected /\ Serves
  BY DEF ElfInit, Init, Holds, Checked, Empty, Collected, Serves
<1> QED BY <1>1, <1>3, <1>4 DEF ElfInv

\* What a step of read_elf that does not touch the containers has to keep: the loader waits.
LEMMA Reads ==
  ASSUME ElfInv, ReadElf, UNCHANGED <<ph_index, sections, mems>>,
         pc \notin {"loader", "fatal"}, ElfTypeOK', Holds', Checked'
  PROVE  ElfInv'
<1>1. /\ UNCHANGED vars /\ UNCHANGED <<file, section_index, bf, ph_index, sections, mems>>
      /\ state = "get" /\ section_index = 0 /\ section = 0 /\ program = Image(file)
  BY DEF ReadElf, ElfInv, Serves
<1>2. Inv'
  BY <1>1, StepInv DEF ElfInv
<1>3. Collected'
  BY <1>1 DEF ElfInv, Collected, Copied
<1>4. Serves'
  BY <1>1 DEF Serves, vars
<1> QED BY <1>2, <1>3, <1>4 DEF ElfInv

\* Each of these steps keeps types, what is held, and what is checked.
LEMMA ReadStep ==
  ASSUME ElfInv,
         Open \/ Stat \/ Mmap \/ Magic \/ LoadElf \/ LoadElfEnd \/ Munmap \/ Close \/ Return
  PROVE  ElfInv'
<1> USE DEF ElfInv
<1>0. UNCHANGED <<file, ph_index, sections, mems, section_index, bf>> /\ UNCHANGED vars /\ ReadElf
  BY DEF Open, Stat, Mmap, Magic, LoadElf, LoadElfEnd, Munmap, Close, Return, ReadElf
<1>1. TypeOK'
  BY <1>0 DEF ElfTypeOK, TypeOK, vars, Address
<1>2. /\ pc' \in {"open", "stat", "mmap", "magic", "load_elf", "headers", "exit_mmap", "exit_fd", "exit",
                  "loader", "fatal", "abort"}
      /\ retval' \in {0, -1} /\ opened' \in BOOLEAN /\ mapped' \in BOOLEAN
      /\ entry' \in {0, file.e_entry} /\ pc \notin {"loader", "fatal"}
  BY DEF Open, Stat, Mmap, Magic, LoadElf, LoadElfEnd, Munmap, Close, Return, Fail, AfterStat, ElfTypeOK
<1>3. ElfTypeOK'
  BY <1>0, <1>1, <1>2 DEF ElfTypeOK
<1>4. Holds'
  BY DEF Open, Stat, Mmap, Magic, LoadElf, LoadElfEnd, Munmap, Close, Return, Fail, AfterStat, Holds
<1>5. Checked'
  <2>1. CASE Open \/ Stat \/ Mmap \/ Magic
    BY <1>0, <2>1 DEF Open, Stat, Mmap, Magic, Fail, AfterStat, Checked, Empty
  <2>2. CASE LoadElf
    BY <1>0, <2>2 DEF LoadElf, Checked, Empty
  <2>3. CASE LoadElfEnd
    <3>1. file \in Files /\ ph_index \in 1 .. Len(file.ph) + 1 /\ ph_index \notin DOMAIN file.ph
      BY <2>3 DEF LoadElfEnd, ElfTypeOK
    <3>2. Len(file.ph) \in Nat /\ DOMAIN file.ph = 1 .. Len(file.ph)
      BY <3>1, FileTypes
    <3>3. ph_index = Len(file.ph) + 1
      BY <3>1, <3>2
    <3> QED BY <1>0, <2>3, <3>3 DEF LoadElfEnd, Checked, Empty
  <2>4. CASE Munmap \/ Close \/ Return
    BY <1>0, <2>4 DEF Munmap, Close, Return, Checked, Empty
  <2> QED BY <2>1, <2>2, <2>3, <2>4
<1> QED BY <1>0, <1>2, <1>3, <1>4, <1>5, Reads

\* A header is skipped, collected or outside of the file.
LEMMA HeaderStep ==
  ASSUME ElfInv, LoadHeader
  PROVE  ElfInv'
<1> DEFINE p == file.ph[ph_index]
           Section == [addr : Nat, len : Nat, header : DOMAIN file.ph]
<1>0. /\ ElfTypeOK /\ Holds /\ Checked /\ Collected /\ Serves
      /\ pc = "headers" /\ ph_index \in DOMAIN file.ph /\ ph_index \in Nat \ {0}
      /\ UNCHANGED vars /\ UNCHANGED <<file, section_index, bf, retval, opened, mapped, entry>>
      /\ sections \in Seq(Section)
  BY FileTypes DEF ElfInv, LoadHeader, ReadElf, ElfTypeOK
<1>1. Inv' /\ TypeOK'
  BY StepInv DEF ElfInv, LoadHeader, ReadElf, Inv
<1>2. CASE ~HasContent(p)
  <2>1. ph_index' = ph_index + 1 /\ UNCHANGED <<pc, sections, mems>>
    BY <1>2 DEF LoadHeader
  <2>2. ElfTypeOK'
    BY <1>0, <1>1, <2>1, FileTypes DEF ElfTypeOK
  <2>3. Collected'
    <3>1. 1 .. ph_index' - 1 = (1 .. ph_index - 1) \cup {ph_index}
      BY <1>0, <2>1
    <3> QED BY <1>0, <1>2, <2>1, <3>1 DEF Collected, Copied
  <2> QED BY <1>0, <1>1, <2>1, <2>2, <2>3 DEF ElfInv, Holds, Checked, Serves, vars
<1>3. CASE HasContent(p) /\ ~InFile(file, p)
  <2>1. pc' = "abort" /\ UNCHANGED <<ph_index, sections, mems>>
    BY <1>3 DEF LoadHeader
  <2>2. ElfTypeOK' /\ Holds' /\ Checked'
    BY <1>0, <1>1, <2>1 DEF ElfTypeOK, Holds, Checked
  <2> QED BY <1>0, <2>1, <2>2, Reads DEF LoadHeader
<1>4. CASE HasContent(p) /\ InFile(file, p)
  <2> DEFINE s == [addr |-> p.paddr, len |-> p.memsz, header |-> ph_index]
  <2>1. /\ sections' = Append(sections, s) /\ mems' = Inserted(p.paddr, Copied(ph_index))
        /\ ph_index' = ph_index + 1 /\ UNCHANGED pc
    BY <1>4 DEF LoadHeader, Pushed
  <2>2. s \in Section /\ s.addr = p.paddr /\ s.len = p.memsz /\ s.header = ph_index
    BY <1>0, FileTypes DEF ElfTypeOK
  <2> HIDE DEF s, Section
  <2>3. /\ sections' \in Seq(Section) /\ Len(sections) \in Nat
        /\ Len(sections') = Len(sections) + 1
        /\ DOMAIN sections' = DOMAIN sections \cup {Len(sections) + 1}
        /\ \A n \in DOMAIN sections : sections'[n] = sections[n] /\ n < Len(sections) + 1
        /\ sections'[Len(sections) + 1] = s
    BY <1>0, <2>1, <2>2
  <2>4. p.paddr \notin DOMAIN mems
    <3> SUFFICES ASSUME NEW n \in DOMAIN sections, sections[n].addr = p.paddr PROVE FALSE
      BY <1>0 DEF ElfTypeOK
    <3>1. /\ sections[n].header \in 1 .. ph_index - 1 /\ HasContent(file.ph[sections[n].header])
          /\ file.ph[sections[n].header].paddr = p.paddr
      BY <1>0 DEF Collected
    <3>2. file \in Files
      BY <1>0 DEF ElfTypeOK
    <3>3. ph_index \in 1 .. Len(file.ph) /\ Len(file.ph) \in Nat
      BY <1>0, <3>2, FileTypes
    <3> DEFINE h == sections[n].header
    <3>4. h \in 1 .. Len(file.ph) /\ h # ph_index
      <4> HIDE DEF h
      <4> QED BY <3>1, <3>3 DEF h
    <3>5. h \in DOMAIN file.ph
      BY <3>2, <3>4, FileTypes
    <3> HIDE DEF h
    <3> QED BY <1>0, <1>4, <3>1, <3>2, <3>4, <3>5, ElfLoadAssumption DEF h
  <2>5. /\ DOMAIN mems' = DOMAIN mems \cup {p.paddr}
        /\ \A a \in DOMAIN mems : mems'[a] = mems[a]
        /\ mems'[p.paddr] = Copied(ph_index)
    BY <2>1, <2>4 DEF Inserted
  <2>6. 1 .. ph_index' - 1 = (1 .. ph_index - 1) \cup {ph_index}
    BY <1>0, <2>1
  <2>7. ElfTypeOK'
    <3>1. DOMAIN mems' = {sections'[n].addr : n \in DOMAIN sections'}
      <4>1. DOMAIN mems = {sections[n].addr : n \in DOMAIN sections}
        BY <1>0 DEF ElfTypeOK
      <4> QED BY <2>2, <2>3, <2>5, <4>1
    <3>2. section_index' \in 0 .. Len(sections')
      BY <1>0, <2>3 DEF ElfTypeOK
    <3>3. ph_index' \in 1 .. Len(file.ph) + 1
      BY <1>0, <2>1, FileTypes DEF ElfTypeOK
    <3> QED BY <1>0, <1>1, <2>1, <2>3, <3>1, <3>2, <3>3 DEF ElfTypeOK, Section
  <2>8. Collected'
    <3>1. ASSUME NEW h \in 1 .. ph_index' - 1, HasContent(file.ph[h])
          PROVE  InFile(file, file.ph[h]) /\ \E n \in DOMAIN sections' : sections'[n].header = h
      <4>1. CASE h = ph_index
        BY <1>4, <2>2, <2>3, <4>1
      <4>2. CASE h \in 1 .. ph_index - 1
        BY <1>0, <2>3, <3>1, <4>2 DEF Collected
      <4> QED BY <2>6, <4>1, <4>2
    <3>2. ASSUME NEW n \in DOMAIN sections'
          PROVE  /\ sections'[n].header \in 1 .. ph_index' - 1
                 /\ HasContent(file.ph[sections'[n].header])
                 /\ sections'[n].addr = file.ph[sections'[n].header].paddr
                 /\ sections'[n].len = file.ph[sections'[n].header].memsz
                 /\ mems'[sections'[n].addr] = Copied(sections'[n].header)
      <4>1. CASE n \in DOMAIN sections
        <5>1. sections[n].addr \in DOMAIN mems
          BY <1>0, <4>1 DEF ElfTypeOK
        <5> QED BY <1>0, <2>3, <2>5, <2>6, <4>1, <5>1 DEF Collected
      <4>2. CASE n = Len(sections) + 1
        BY <1>4, <2>2, <2>3, <2>5, <2>6, <4>2
      <4> QED BY <2>3, <4>1, <4>2
    <3>3. ASSUME NEW m \in DOMAIN sections', NEW n \in DOMAIN sections', m < n
          PROVE  sections'[m].header < sections'[n].header
      <4>1. m \in DOMAIN sections /\ sections'[m] = sections[m]
        BY <1>0, <2>3, <3>3
      <4>2. CASE n \in DOMAIN sections
        BY <1>0, <2>3, <3>3, <4>1, <4>2 DEF Collected
      <4>3. CASE n = Len(sections) + 1
        <5>1. sections[m].header \in 1 .. ph_index - 1
          BY <1>0, <4>1 DEF Collected
        <5> QED BY <1>0, <2>2, <2>3, <4>1, <4>3, <5>1
      <4> QED BY <2>3, <4>2, <4>3
    <3>4. \A h : Copied(h)' = Copied(h)
      BY <1>0 DEF Copied
    <3> QED BY <1>0, <3>1, <3>2, <3>3, <3>4 DEF Collected
  <2>9. Serves'
    BY <1>0, <2>1 DEF Serves, vars
  <2> QED BY <1>0, <1>1, <2>1, <2>7, <2>8, <2>9 DEF ElfInv, Holds, Checked
<1> QED BY <1>2, <1>3, <1>4

-----------------------------------------------------------------------------
(***************************************************************************)
(* The steps of the loader.                                                *)
(***************************************************************************)
\* When the loader has a section to ask for, read_elf has collected the whole file: the
\* section is the first of those that are left.
LEMMA NextSection ==
  ASSUME ElfInv, pc = "loader", More, NEW n, n = section_index + 1
  PROVE  /\ n \in DOMAIN sections /\ sections[n].header \in DOMAIN file.ph
         /\ HasContent(file.ph[sections[n].header])
         /\ mems[sections[n].addr] = Copied(sections[n].header)
         /\ sections[n].addr \in DOMAIN mems
         /\ sections[n].len = file.ph[sections[n].header].memsz
         /\ sections[n].header > section
         /\ \A h \in DOMAIN program : Loadable(h) /\ h > section => sections[n].header <= h
         /\ ~Overlong(file.ph[sections[n].header]) => sections[n].header \in DOMAIN program
<1>0. /\ ElfTypeOK /\ Checked /\ Collected /\ Serves
      /\ file \in Files /\ section_index \in Nat /\ Len(sections) \in Nat
      /\ DOMAIN sections = 1 .. Len(sections)
  BY DEF ElfInv, ElfTypeOK
<1>1. n \in DOMAIN sections /\ n \in Nat \ {0} /\ \A m \in DOMAIN sections : m \in Nat \ {0}
  BY <1>0 DEF More
<1>2. /\ HasHead(file) /\ HasMagic(file) /\ HasHeaders(file)
      /\ ph_index = Len(file.ph) + 1
  BY <1>0, <1>1 DEF Checked, Empty
<1>3. Len(file.ph) \in Nat /\ DOMAIN file.ph = 1 .. Len(file.ph) /\ 1 .. ph_index - 1 = DOMAIN file.ph
  BY <1>0, <1>2, FileTypes
<1>4. ASSUME NEW m \in DOMAIN sections
      PROVE  sections[m].header \in DOMAIN file.ph /\ sections[m].header \in Nat \ {0}
  <2>1. sections[m].header \in DOMAIN file.ph
    BY <1>0, <1>3 DEF Collected
  <2>2. \A h \in DOMAIN file.ph : h \in Nat \ {0}
    BY <1>3
  <2> QED BY <2>1, <2>2
<1>5. sections[n].header > section
  <2>1. CASE section_index = 0
    BY <1>0, <1>1, <1>4, <2>1 DEF Serves
  <2>2. CASE section_index # 0
    <3>1. section_index \in DOMAIN sections /\ section_index < n
      BY <1>0, <1>1, <2>2
    <3>2. section = sections[section_index].header
      BY <1>0, <2>2 DEF Serves
    <3>3. sections[section_index].header < sections[n].header
      BY <1>0, <1>1, <3>1 DEF Collected
    <3> QED BY <1>1, <1>4, <3>1, <3>2, <3>3
  <2> QED BY <2>1, <2>2
<1>6. ASSUME NEW h \in DOMAIN program, Loadable(h), h > section
      PROVE  sections[n].header <= h
  <2>1. h \in DOMAIN file.ph /\ HasContent(file.ph[h])
    BY <1>0, <1>6, ImageIsFile DEF Serves
  <2>2. PICK m \in DOMAIN sections : sections[m].header = h
    BY <1>0, <1>3, <2>1 DEF Collected
  <2>3. CASE m < n
    <3>1. m \in 1 .. section_index /\ section_index # 0 /\ section_index \in DOMAIN sections
      BY <1>0, <1>1, <2>3
    <3>2. section = sections[section_index].header
      BY <1>0, <3>1 DEF Serves
    <3>3. m = section_index \/ sections[m].header < sections[section_index].header
      BY <1>0, <1>1, <3>1 DEF Collected
    <3> QED BY <1>4, <1>6, <2>2, <3>1, <3>2, <3>3
  <2>4. CASE ~(m < n)
    <3>1. m = n \/ sections[n].header < sections[m].header
      BY <1>0, <1>1, <2>4 DEF Collected
    <3> QED BY <1>1, <1>4, <2>2, <3>1
  <2> QED BY <2>3, <2>4
<1>7. ASSUME ~Overlong(file.ph[sections[n].header])
      PROVE  sections[n].header \in DOMAIN program
  <2>1. ASSUME NEW g \in 1 .. sections[n].header, Overlong(file.ph[g]) PROVE FALSE
    <3>1. g \in DOMAIN file.ph /\ HasContent(file.ph[g])
      BY <1>1, <1>3, <1>4, <2>1 DEF Overlong
    <3>2. PICK m \in DOMAIN sections : sections[m].header = g
      BY <1>0, <1>3, <3>1 DEF Collected
    <3>3. m = n \/ m \in 1 .. section_index \/ sections[n].header < sections[m].header
      BY <1>0, <1>1 DEF Collected
    <3>4. m \notin 1 .. section_index
      BY <1>0, <2>1, <3>2 DEF Serves
    <3> QED BY <1>1, <1>4, <1>7, <2>1, <3>2, <3>3, <3>4
  <2>2. \A h \in DOMAIN file.ph : HasContent(file.ph[h]) => InFile(file, file.ph[h])
    BY <1>0, <1>3 DEF Collected
  <2> QED BY <1>0, <1>1, <1>2, <1>4, <2>1, <2>2, ImageIsFile DEF Serves
<1>8. sections[n].addr \in DOMAIN mems
  BY <1>0, <1>1 DEF ElfTypeOK
<1> QED BY <1>0, <1>1, <1>4, <1>5, <1>6, <1>7, <1>8 DEF Collected

\* A section that can be read is not longer than its memory, and is what Preload hands out.
LEMMA ServedSection ==
  ASSUME ElfInv, ServeSection
  PROVE  /\ pc' # "fatal" => /\ GetSection /\ pc' = "loader"
                             /\ ~Overlong(file.ph[sections[section_index'].header])
                             /\ section' = sections[section_index'].header
                             /\ bf' = [k \in 0 .. SecLen' - 1 |->
                                       IF k < program[section'].filesz THEN <<section', k>> ELSE Zero]
                             /\ bf' \in [0 .. SecLen' - 1 -> {Zero} \cup (DOMAIN file.ph) \X Nat]
         /\ pc' = "fatal" => UNCHANGED vars
<1> DEFINE n == section_index + 1
           s == sections[n]
           h == s.header
<1>0. /\ pc = "loader" /\ state = "get" /\ More /\ section_index' = n
      /\ UNCHANGED <<via, program, mem, file, sections, mems>>
  BY DEF ServeSection
<1>1. /\ n \in DOMAIN sections /\ h \in DOMAIN file.ph /\ HasContent(file.ph[h])
      /\ mems[s.addr] = Copied(h) /\ s.addr \in DOMAIN mems /\ s.len = file.ph[h].memsz
      /\ h > section
      /\ \A g \in DOMAIN program : Loadable(g) /\ g > section => h <= g
      /\ ~Overlong(file.ph[h]) => h \in DOMAIN program
  BY <1>0, NextSection
<1>2. file.ph[h].filesz \in Nat /\ file.ph[h].memsz \in Nat /\ file.ph[h].filesz > 0
  BY <1>1, FileTypes DEF ElfInv, ElfTypeOK, HasContent
<1>3. CASE ~Readable(s.addr, s.len)
  <2>1. pc' = "fatal" /\ UNCHANGED <<section, i, state>>
    BY <1>3 DEF ServeSection
  <2> QED BY <1>0, <2>1 DEF vars
<1>4. CASE Readable(s.addr, s.len)
  <2>1. /\ bf' = Buffer(s.addr, s.len) /\ section' = h /\ i' = 0 /\ state' = "write"
        /\ pc' = "loader"
    BY <1>0, <1>4 DEF ServeSection
  <2>2. /\ DOMAIN Copied(h) = 0 .. file.ph[h].filesz - 1
        /\ \A k \in 0 .. file.ph[h].filesz - 1 : Copied(h)[k] = <<h, k>>
    BY DEF Copied
  <2>3. ~Overlong(file.ph[h])
    <3>1. file.ph[h].filesz - 1 \in DOMAIN Copied(h)
      BY <1>2, <2>2
    <3>2. file.ph[h].filesz - 1 < file.ph[h].memsz
      BY <1>1, <1>4, <3>1 DEF Readable
    <3> QED BY <1>2, <3>2 DEF Overlong
  <2>4. h \in DOMAIN program /\ Loadable(h)
        /\ program[h].filesz = file.ph[h].filesz /\ program[h].memsz = file.ph[h].memsz
    BY <1>1, <2>3, ImageIsFile DEF ElfInv, Serves
  <2>5. GetSection
    <3>1. h \in Later /\ \A g \in Later : h <= g
      BY <1>1, <2>4 DEF Later
    <3> QED BY <1>0, <2>1, <3>1 DEF GetSection
  <2>6. SecLen' = file.ph[h].memsz
    BY <1>0, <2>1, <2>4 DEF SecLen
  <2> DEFINE b == [k \in 0 .. file.ph[h].memsz - 1 |-> IF k < file.ph[h].filesz THEN <<h, k>> ELSE Zero]
  <2>7. bf' = b
    <3>1. bf' = [k \in 0 .. file.ph[h].memsz - 1 |-> IF k \in DOMAIN Copied(h) THEN Copied(h)[k] ELSE Zero]
      BY <1>1, <2>1 DEF Buffer
    <3>2. ASSUME NEW k \in 0 .. file.ph[h].memsz - 1
          PROVE  (IF k \in DOMAIN Copied(h) THEN Copied(h)[k] ELSE Zero)
                 = IF k < file.ph[h].filesz THEN <<h, k>> ELSE Zero
      <4>1. k \in DOMAIN Copied(h) <=> k < file.ph[h].filesz
        BY <1>2, <2>2
      <4> QED BY <2>2, <4>1
    <3> QED BY <3>1, <3>2
  <2>8. b = [k \in 0 .. SecLen' - 1 |-> IF k < program[section'].filesz THEN <<section', k>> ELSE Zero]
    BY <2>1, <2>4, <2>6
  <2>9. b \in [0 .. SecLen' - 1 -> {Zero} \cup (DOMAIN file.ph) \X Nat]
    <3>1. \A k \in 0 .. file.ph[h].memsz - 1 : k \in Nat
      BY <1>2
    <3> QED BY <1>1, <2>6, <3>1
  <2> QED BY <1>0, <2>1, <2>3, <2>5, <2>7, <2>8, <2>9
<1> QED BY <1>3, <1>4

\* get_section and read_section keep the invariant.
LEMMA ServeStep ==
  ASSUME ElfInv, ServeSection
  PROVE  ElfInv'
<1>0. /\ ElfTypeOK /\ Holds /\ Checked /\ Collected /\ Serves
      /\ pc = "loader" /\ state = "get" /\ section_index' = section_index + 1
      /\ UNCHANGED <<via, program, mem, file, retval, opened, mapped, ph_index, entry, sections, mems>>
      /\ section_index + 1 \in DOMAIN sections /\ section_index \in Nat
      /\ Len(sections) \in Nat /\ section_index + 1 <= Len(sections)
  BY DEF ElfInv, ServeSection, ElfTypeOK, More
<1>1. Inv' /\ TypeOK'
  <2>1. GetSection \/ UNCHANGED vars
    BY ServedSection
  <2> QED BY <2>1, StepInv DEF Next, ElfInv, Inv
<1>2. Collected'
  BY <1>0 DEF Collected, Copied
<1>3. CASE pc' = "fatal"
  <2>1. UNCHANGED vars /\ UNCHANGED bf
    BY <1>0, <1>3, ServedSection DEF ServeSection
  <2>2. ElfTypeOK'
    BY <1>0, <1>1, <1>3, <2>1 DEF ElfTypeOK
  <2>3. Holds' /\ Checked'
    BY <1>0, <1>3 DEF Holds, Checked, Empty
  <2>4. Serves'
    BY <1>0, <1>3, <2>1 DEF Serves, vars
  <2> QED BY <1>1, <1>2, <2>2, <2>3, <2>4 DEF ElfInv
<1>4. CASE pc' # "fatal"
  <2>1. /\ pc' = "loader" /\ state' \in {"write", "done"}
        /\ ~Overlong(file.ph[sections[section_index'].header])
        /\ section' = sections[section_index'].header
        /\ bf' = [k \in 0 .. SecLen' - 1 |-> IF k < program[section'].filesz THEN <<section', k>> ELSE Zero]
        /\ bf' \in [0 .. SecLen' - 1 -> {Zero} \cup (DOMAIN file.ph) \X Nat]
    BY <1>4, ServedSection DEF GetSection
  <2>2. state' = "write"
    BY <1>0, <1>4, <2>1 DEF ServeSection
  <2>3. ElfTypeOK'
    <3>1. \A k \in DOMAIN bf' : k \in Nat /\ bf'[k] \in {Zero} \cup (DOMAIN file.ph) \X Nat
      BY <2>1
    <3> QED BY <1>0, <1>1, <2>1, <3>1 DEF ElfTypeOK
  <2>4. Holds' /\ Checked'
    BY <1>0, <2>1 DEF Holds, Checked, Empty
  <2>5. Serves'
    <3>1. \A n \in 1 .. section_index' : n \in 1 .. section_index \/ n = section_index'
      BY <1>0
    <3>2. bf' = [k \in 0 .. SecLen - 1 |-> Content(section, k)]'
      BY <1>0, <2>1 DEF Content
    <3>3. \A n \in 1 .. section_index' : ~Overlong(file.ph[sections[n].header])
      BY <1>0, <2>1, <3>1 DEF Serves
    <3> QED BY <1>0, <2>1, <2>2, <3>2, <3>3 DEF Serves
  <2> QED BY <1>1, <1>2, <2>3, <2>4, <2>5 DEF ElfInv
<1> QED BY <1>3, <1>4

\* What a step of the loader by itself leaves alone.
LEMMA FileFrame ==
  ASSUME ElfInv, UNCHANGED elfVars, TypeOK'
  PROVE  ElfTypeOK' /\ Holds' /\ Checked' /\ Collected'
<1>0. /\ ElfTypeOK /\ Holds /\ Checked /\ Collected
      /\ UNCHANGED <<file, pc, retval, opened, mapped, ph_index, entry, sections, section_index, mems, bf>>
  BY DEF ElfInv, elfVars
<1>1. ElfTypeOK'
  BY <1>0 DEF ElfTypeOK
<1>2. Holds'
  BY <1>0 DEF Holds
<1>3. Checked'
  BY <1>0 DEF Checked, Empty
<1>4. Collected'
  BY <1>0 DEF Collected, Copied
<1> QED BY <1>1, <1>2, <1>3, <1>4

\* Without a section left, Preload has none either.
LEMMA NoneLeft ==
  ASSUME ElfInv, NoSection
  PROVE  GetSection
<1>0. /\ ElfTypeOK /\ Checked /\ Collected /\ Serves /\ pc = "loader"
      /\ section_index = Len(sections) /\ Len(sections) \in Nat
      /\ DOMAIN sections = 1 .. Len(sections) /\ file \in Files
  BY DEF ElfInv, NoSection, ElfTypeOK, More
<1>1. Later = {}
  <2> SUFFICES ASSUME NEW h \in DOMAIN program, h > section, Loadable(h) PROVE FALSE
    BY DEF Later
  <2>1. h \in DOMAIN file.ph /\ HasContent(file.ph[h]) /\ HasHeaders(file)
    BY <1>0, ImageIsFile DEF Serves
  <2>2. ph_index = Len(file.ph) + 1
    BY <1>0, <2>1 DEF Checked
  <2>3. 1 .. ph_index - 1 = DOMAIN file.ph
    BY <1>0, <2>2, FileTypes
  <2>4. PICK m \in DOMAIN sections : sections[m].header = h
    BY <1>0, <2>1, <2>3 DEF Collected
  <2>5. section_index # 0 /\ section = sections[section_index].header /\ section_index \in DOMAIN sections
    BY <1>0, <2>4 DEF Serves
  <2>6. m = section_index \/ sections[m].header < sections[section_index].header
    BY <1>0, <2>4, <2>5 DEF Collected
  <2>7. h \in Nat
    BY <1>0, <2>1, FileTypes
  <2>8. section \in Nat
    <3>1. section \in DOMAIN file.ph
      BY <1>0, <2>3, <2>5 DEF Collected
    <3> QED BY <1>0, <3>1, FileTypes
  <2> QED BY <2>4, <2>5, <2>6, <2>7, <2>8
<1> QED BY <1>1 DEF NoSection, GetSection

\* When there is none left, the invariant holds as well.
LEMMA NoSectionStep ==
  ASSUME ElfInv, NoSection
  PROVE  ElfInv'
<1>1. Inv' /\ TypeOK'
  BY NoneLeft, StepInv DEF Next, ElfInv, Inv
<1>2. /\ UNCHANGED <<via, program, section, mem>> /\ UNCHANGED elfVars
      /\ pc = "loader" /\ state' = "done" /\ section_index = Len(sections)
  BY DEF ElfInv, NoSection, ElfTypeOK, More
<1>3. ElfTypeOK' /\ Holds' /\ Checked' /\ Collected'
  BY <1>1, <1>2, FileFrame
<1>4. Serves'
  BY <1>2 DEF ElfInv, Serves, elfVars
<1> QED BY <1>1, <1>3, <1>4 DEF ElfInv

\* While a section is written, nothing is asked of elfloader.cpp.
LEMMA WriteStep ==
  ASSUME ElfInv, WriteSection
  PROVE  ElfInv'
<1>1. Inv' /\ TypeOK'
  BY StepInv DEF Next, ElfInv, Inv, WriteSection
<1>2. /\ UNCHANGED <<via, program, section>> /\ UNCHANGED elfVars
      /\ state = "write" /\ state' # "done"
  BY DEF WriteSection, AxiBurst, JtagWord, Advance
<1>3. ElfTypeOK' /\ Holds' /\ Checked' /\ Collected'
  BY <1>1, <1>2, FileFrame
<1>4. Serves'
  BY <1>2, Frame DEF ElfInv, Serves, elfVars, SecLen
<1> QED BY <1>1, <1>3, <1>4 DEF ElfInv

\* Every step keeps the invariant.
LEMMA ElfStepInv == ElfInv /\ [ElfNext]_<<vars, elfVars>> => ElfInv'
<1> SUFFICES ASSUME ElfInv, [ElfNext]_<<vars, elfVars>> PROVE ElfInv'
  OBVIOUS
<1>1. CASE UNCHANGED <<vars, elfVars>>
  <2>1. Inv' /\ TypeOK' /\ UNCHANGED vars /\ UNCHANGED elfVars
    BY <1>1, StepInv DEF ElfInv, Inv
  <2>2. ElfTypeOK' /\ Holds' /\ Checked' /\ Collected'
    BY <2>1, FileFrame
  <2>3. Serves'
    BY <2>1 DEF ElfInv, Serves, vars, elfVars, SecLen, Content
  <2> QED BY <2>1, <2>2, <2>3 DEF ElfInv
<1>2. CASE ElfNext
  BY <1>2, ReadStep, HeaderStep, ServeStep, NoSectionStep, WriteStep DEF ElfNext
<1> QED BY <1>1, <1>2

\* The invariant of the two together holds.
LEMMA ElfInvariant == ElfSpec => []ElfInv
  BY ElfInitInv, ElfStepInv, PTL DEF ElfSpec

-----------------------------------------------------------------------------
\* Whatever the file, elfloader.cpp's containers and labels keep to their types.
THEOREM ElfTypeCorrect == ElfSpec => []ElfTypeOK
<1>1. ElfInv => ElfTypeOK
  BY DEF ElfInv
<1> QED BY <1>1, ElfInvariant, PTL

\* read_elf and load_elf, get_section and read_section do a step of Preload or none: any
\* file is handed to the loader as Preload says.
THEOREM LoaderServed == ElfSpec => ImplementsPreload
<1>1. ElfInit => Init
  BY DEF ElfInit
<1>2. ElfInv /\ [ElfNext]_<<vars, elfVars>> => [Next]_vars
  <2> SUFFICES ASSUME ElfInv, [ElfNext]_<<vars, elfVars>> PROVE [Next]_vars
    OBVIOUS
  <2>1. CASE ServeSection
    BY <2>1, ServedSection DEF Next
  <2>2. CASE NoSection
    BY <2>2, NoneLeft DEF Next
  <2>3. CASE WriteSection
    BY <2>3 DEF WriteSection, Next
  <2>4. CASE UNCHANGED <<vars, elfVars>>
    BY <2>4
  <2>5. CASE \/ Open \/ Stat \/ Mmap \/ Magic \/ LoadElf \/ LoadHeader \/ LoadElfEnd
             \/ Munmap \/ Close \/ Return
    BY <2>5 DEF Open, Stat, Mmap, Magic, LoadElf, LoadHeader, LoadElfEnd, Munmap, Close, Return, ReadElf
  <2> QED BY <2>1, <2>2, <2>3, <2>4, <2>5 DEF ElfNext
<1> QED BY <1>1, <1>2, ElfInvariant, PTL DEF ElfSpec, ImplementsPreload, Spec

\* So what the loaders promise of an image they promise of a file: sections whole, writes
\* bounded, and where they stop.
THEOREM LoadedFromFile == ElfSpec => [](LoadedWhole /\ OnlySectionsWritten /\ StopsOnlyAtWholeBursts)
  BY LoaderServed, SectionsWhole, WritesBounded, StopsExactly, PTL DEF ImplementsPreload

\* Whichever call fails, read_elf has unmapped and closed the file when it returns, and
\* looks into it only while it is mapped.
THEOREM FileReleased == ElfSpec => []ResourcesReleased
<1>1. ElfInv => ResourcesReleased
  BY DEF ElfInv, Holds, ResourcesReleased
<1> QED BY <1>1, ElfInvariant, PTL

\* What the loader writes is what get_section and read_section found in the file.
THEOREM BufferRight == ElfSpec => []BufferHoldsSection
<1>1. ElfInv => BufferHoldsSection
  <2> SUFFICES ASSUME ElfInv, state = "write" PROVE BufferHoldsSection
    BY DEF BufferHoldsSection
  <2>1. /\ section_index > 0 /\ section = sections[section_index].header
        /\ bf = [k \in 0 .. SecLen - 1 |-> Content(section, k)]
        /\ section_index \in DOMAIN sections
    <3>1. /\ section_index \in 0 .. Len(sections) /\ Len(sections) \in Nat
          /\ DOMAIN sections = 1 .. Len(sections)
      BY DEF ElfInv, ElfTypeOK
    <3>2. pc = "loader"
      BY DEF ElfInv, Serves
    <3>3. section_index > 0 /\ bf = [k \in 0 .. SecLen - 1 |-> Content(section, k)]
      BY <3>2 DEF ElfInv, Serves
    <3> QED BY <3>1, <3>2, <3>3 DEF ElfInv, Serves
  <2>2. section \in DOMAIN program /\ sections[section_index].addr = file.ph[section].paddr
    BY <2>1 DEF ElfInv, Inv, Current, Collected
  <2>3. sections[section_index].addr = Base
    BY <2>2, ImageIsFile DEF ElfInv, Serves, Base
  <2> QED BY <2>1, <2>3 DEF BufferHoldsSection
<1> QED BY <1>1, ElfInvariant, PTL

\* The loader is done only with the file in memory and its entry point known, or with
\* nothing, of a file that ends before its program headers do.
THEOREM DoneComplete == ElfSpec => []CompleteOrTruncated
<1>1. ElfInv => CompleteOrTruncated
  <2> SUFFICES ASSUME ElfInv, state = "done" PROVE CompleteOrTruncated
    BY DEF CompleteOrTruncated
  <2>0. /\ pc = "loader" /\ retval = 0 /\ section_index = Len(sections) /\ file \in Files
        /\ Checked /\ Collected /\ Serves /\ Inv /\ TypeOK
        /\ DOMAIN sections = 1 .. Len(sections)
    BY DEF ElfInv, ElfTypeOK, Serves, Checked
  <2>1. CASE ~HasHeaders(file)
    <3>1. DOMAIN program = {}
      BY <2>0, <2>1, ImageIsFile DEF Serves
    <3>2. section = 0 /\ entry = 0
      BY <2>0, <2>1 DEF Checked, Empty, Serves
    <3>3. \A a \in Address : mem[a] = Old
      BY <2>0, <3>2 DEF Inv, OnlySectionsWritten
    <3>4. mem = [a \in Address |-> mem[a]]
      BY <2>0 DEF TypeOK
    <3> QED BY <2>1, <3>2, <3>3, <3>4 DEF CompleteOrTruncated
  <2>2. CASE HasHeaders(file)
    <3>1. HasHead(file) /\ HasMagic(file) /\ entry = file.e_entry /\ ph_index = Len(file.ph) + 1
      BY <2>0, <2>2 DEF Checked
    <3>2. 1 .. ph_index - 1 = DOMAIN file.ph /\ \A h \in DOMAIN file.ph : 1 .. h \subseteq DOMAIN file.ph
      BY <2>0, <3>1, FileTypes
    <3>3. ASSUME NEW h \in DOMAIN file.ph PROVE ~Overlong(file.ph[h])
      <4>1. CASE HasContent(file.ph[h])
        <5>1. PICK m \in DOMAIN sections : sections[m].header = h
          BY <2>0, <3>2, <4>1 DEF Collected
        <5> QED BY <2>0, <5>1 DEF Serves
      <4> QED BY <4>1 DEF Overlong
    <3>4. \A h \in DOMAIN file.ph : HasContent(file.ph[h]) => InFile(file, file.ph[h])
      BY <2>0, <3>2 DEF Collected
    <3>5. \A h \in DOMAIN file.ph : h \in DOMAIN program
      BY <2>0, <2>2, <3>1, <3>2, <3>3, <3>4, ImageIsFile DEF Serves
    <3>6. DOMAIN program = DOMAIN file.ph
      BY <2>0, <3>5, ImageIsFile DEF Serves
    <3>7. ASSUME NEW h \in DOMAIN file.ph, HasContent(file.ph[h]), Fits(h),
                 NEW k \in 0 .. file.ph[h].filesz - 1
          PROVE  mem[file.ph[h].paddr + k] = <<h, k>>
      <4>1. /\ h \in DOMAIN program /\ Loadable(h) /\ program[h].paddr = file.ph[h].paddr
            /\ program[h].filesz = file.ph[h].filesz /\ program[h].memsz = file.ph[h].memsz
        BY <2>0, <3>5, <3>7, ImageIsFile DEF Serves
      <4>2. file.ph[h].filesz \in Nat /\ file.ph[h].memsz \in Nat
        BY <2>0, FileTypes
      <4>3. k \in 0 .. program[h].memsz - 1 /\ k < program[h].filesz
        BY <3>3, <3>7, <4>1, <4>2 DEF Overlong
      <4>4. h \in Loaded
        BY <4>1 DEF Loaded
      <4> QED BY <2>0, <3>7, <4>1, <4>3, <4>4 DEF Inv, LoadedWhole, Content
    <3> QED BY <2>2, <3>1, <3>6, <3>7 DEF CompleteOrTruncated
  <2> QED BY <2>1, <2>2
<1> QED BY <1>1, ElfInvariant, PTL
=============================================================================
