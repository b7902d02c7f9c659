---------------------------- MODULE Boot_proofs -----------------------------
(***************************************************************************)
(* Proofs about Boot, for any program, any modes and any number of resets, *)
(* where fetch_enable_i is not tied high.                                  *)
(*                                                                         *)
(* The properties do not follow from themselves: that the image is whole   *)
(* when the core enters it needs that nobody writes memory meanwhile, and  *)
(* so where the core may be in each phase of the loader (JtagPhases,       *)
(* AxiPhases); that the exit is of this boot needs that the end-of-        *)
(* computation bit is set by nobody but the program (Ended).               *)
(***************************************************************************)
EXTENDS Boot, TLAPS

\* What the loader has loaded in this boot stays in memory.
ImageKept ==
  /\ loader \in {"load", "fetch", "poll", "done"} =>
       \A w \in Words : w < word => mem[w] = boot
  /\ loader \in {"fetch", "poll", "done"} => word = NumWords + 1
  /\ loader \in {"start", "halt"} => word = 1

\* In JTAG mode the core is in the ROM until it is halted, and halted while the
\* image is loaded.
JtagPhases ==
  pin = Jtag =>
    /\ loader # "fetch" /\ regs.bootaddr = BootAddrDefault
    /\ loader \in {"start", "halt"} => core \notin {"halted", "program", "exited"}
    /\ loader = "load" => core = "halted"
    /\ loader \in {"poll", "done"} => core \in {"program", "exited"}

\* In the other modes the core is off until BOOTADDR was written and fetch enabled.
AxiPhases ==
  pin # Jtag =>
    /\ loader # "halt"
    /\ loader \in {"start", "load", "fetch"} => core = "off" /\ ~FetchEnable
    /\ loader \in {"fetch", "poll", "done"} => regs.bootaddr = Entry
    /\ loader \in {"poll", "done"} => core \in {"off", "program", "exited"}

\* Nothing happens before the first clock edge.
BeforeFirstEdge == first_cycle => loader = "start" /\ core = "off"

\* The EOC bit is the program's last write.
Ended ==
  /\ regs.corestatus.eoc => core = "exited"
  /\ loader = "done" => regs.corestatus = Status(TRUE, exit_code)

Phases == ImageKept /\ JtagPhases /\ AxiPhases /\ BeforeFirstEdge /\ Ended
Inv == TypeOK /\ Phases

-----------------------------------------------------------------------------
\* The initial state of the registers has their type.
LEMMA ResetRegsType ==
  ResetRegs \in [bootaddr : {BootAddrDefault, Entry}, fetchen : BOOLEAN,
                 corestatus : [eoc : BOOLEAN, code : Codes \cup {0}], bootmode : 0..3]
  BY DEF ResetRegs, Status

\* The initial state has its types.
LEMMA InitType == Init => TypeOK
  BY BootAssumption, ResetRegsType DEF Init, TypeOK, Words

\* The initial state satisfies the invariant.
LEMMA InitInv == ASSUME ~FetchTied PROVE Init => Inv
<1> SUFFICES ASSUME Init PROVE Inv
  OBVIOUS
<1>1. TypeOK
  BY InitType
<1>2. Phases
  BY ~FetchTied DEF Init, Phases, ImageKept, JtagPhases, AxiPhases, BeforeFirstEdge, Ended,
     FetchEnable, ResetRegs, Status
<1> QED  BY <1>1, <1>2 DEF Inv

\* A step keeps the types.
LEMMA NextType == ASSUME TypeOK, [Next]_vars PROVE TypeOK'
<1> USE BootAssumption
<1>1. ASSUME NEW p \in Pins, Reset(p) PROVE TypeOK'
  BY <1>1, ResetRegsType DEF Reset, TypeOK, RegsAfterReset, Words
<1>2. CASE FirstEdge
  BY <1>2 DEF FirstEdge, TypeOK, HwFetchen, Jtag
<1>3. CASE CoreStart
  BY <1>3 DEF CoreStart, CoreUnchanged, TypeOK, JumpTo, Running
<1>4. ASSUME NEW w \in Words, RomStart(w) PROVE TypeOK'
  BY <1>4 DEF RomStart, CoreUnchanged, TypeOK, Running
<1>5. CASE RomMain
  BY <1>5 DEF RomMain, CoreUnchanged, TypeOK, JumpTo, Running
<1>6. CASE StatusWrite
  BY <1>6 DEF StatusWrite, ProgramWrites, RegWrite, CoreUnchanged, TypeOK, Running, Status
<1>7. CASE Begin
  BY <1>7 DEF Begin, LoaderGoes, LoaderUnchanged, TypeOK
<1>8. CASE JtagHalt
  BY <1>8 DEF JtagHalt, Halts, LoaderGoes, LoaderUnchanged, TypeOK
<1>9. CASE LoadWord
  <2>1. word' \in 1 .. NumWords + 1
    BY <1>9 DEF LoadWord, LoadedAll, TypeOK
  <2> QED  BY <1>9, <2>1 DEF LoadWord, LoaderGoes, LoaderUnchanged, TypeOK
<1>10. CASE AxiBootAddr
  BY <1>10 DEF AxiBootAddr, RegWrite, LoaderGoes, LoaderUnchanged, TypeOK
<1>11. CASE AxiFetchEnable
  BY <1>11 DEF AxiFetchEnable, RegWrite, LoaderGoes, LoaderUnchanged, TypeOK
<1>12. CASE JtagResume
  BY <1>12 DEF JtagResume, LoaderGoes, LoaderUnchanged, TypeOK, Running
<1>13. CASE ReadExit
  BY <1>13 DEF ReadExit, LoaderGoes, TypeOK
<1>14. CASE UNCHANGED vars
  BY <1>14 DEF vars, TypeOK
<1> QED
  BY <1>1, <1>2, <1>3, <1>4, <1>5, <1>6, <1>7, <1>8, <1>9, <1>10, <1>11, <1>12, <1>13, <1>14
  DEF Next, Load

\* A step keeps the image in memory: only the loader writes it once it has begun.
LEMMA NextImage ==
  ASSUME ~FetchTied, Inv, [Next]_vars PROVE ImageKept'
<1> USE BootAssumption DEF Inv, Phases, TypeOK
<1>1. ASSUME NEW p \in Pins, Reset(p) PROVE ImageKept'
  BY <1>1 DEF Reset, ImageKept
<1>2. CASE FirstEdge
  BY <1>2 DEF FirstEdge, ImageKept
<1>3. CASE CoreStart
  BY <1>3 DEF CoreStart, CoreUnchanged, ImageKept
<1>4. ASSUME NEW w \in Words, RomStart(w) PROVE ImageKept'
  <2>1. loader \in {"start", "halt"}
    BY <1>4 DEF RomStart, JtagPhases, AxiPhases
  <2> QED  BY <1>4, <2>1 DEF RomStart, CoreUnchanged, ImageKept
<1>5. CASE RomMain
  BY <1>5 DEF RomMain, CoreUnchanged, ImageKept
<1>6. CASE StatusWrite
  BY <1>6 DEF StatusWrite, ProgramWrites, CoreUnchanged, ImageKept
<1>7. CASE Begin
  BY <1>7 DEF Begin, LoaderGoes, LoaderUnchanged, ImageKept, Words
<1>8. CASE JtagHalt
  BY <1>8 DEF JtagHalt, LoaderGoes, LoaderUnchanged, ImageKept, Words
<1>9. CASE LoadWord
  <2>1. \A w \in Words : w < word' => mem'[w] = boot'
    <3> SUFFICES ASSUME NEW w \in Words, w < word' PROVE mem'[w] = boot
      BY <1>9 DEF LoadWord, LoaderUnchanged
    <3>1. w < word \/ w = word
      BY <1>9 DEF LoadWord, Words
    <3> QED  BY <1>9, <3>1 DEF LoadWord, LoaderGoes, ImageKept
  <2> QED  BY <1>9, <2>1 DEF LoadWord, LoaderGoes, ImageKept
<1>10. CASE AxiBootAddr
  <2>1. word = NumWords + 1
    BY <1>10 DEF AxiBootAddr, AfterLoad, LoadedAll
  <2> QED  BY <1>10, <2>1 DEF AxiBootAddr, LoaderGoes, LoaderUnchanged, ImageKept
<1>11. CASE AxiFetchEnable
  BY <1>11 DEF AxiFetchEnable, LoaderGoes, LoaderUnchanged, ImageKept
<1>12. CASE JtagResume
  <2>1. word = NumWords + 1
    BY <1>12 DEF JtagResume, AfterLoad, LoadedAll
  <2> QED  BY <1>12, <2>1 DEF JtagResume, LoaderGoes, LoaderUnchanged, ImageKept
<1>13. CASE ReadExit
  BY <1>13 DEF ReadExit, LoaderGoes, ImageKept
<1>14. CASE UNCHANGED vars
  BY <1>14 DEF vars, ImageKept
<1> QED
  BY <1>1, <1>2, <1>3, <1>4, <1>5, <1>6, <1>7, <1>8, <1>9, <1>10, <1>11, <1>12, <1>13, <1>14
  DEF Next, Load

\* A step keeps loader, core and registers in phase.
LEMMA NextPhases ==
  ASSUME ~FetchTied, Inv, [Next]_vars
  PROVE  (JtagPhases /\ AxiPhases /\ BeforeFirstEdge /\ Ended)'
<1> DEFINE Goal == JtagPhases /\ AxiPhases /\ BeforeFirstEdge /\ Ended
<1> USE BootAssumption
    DEF Inv, Phases, TypeOK, JtagPhases, AxiPhases, BeforeFirstEdge, Ended, FetchEnable
<1>1. ASSUME NEW p \in Pins, Reset(p) PROVE Goal'
  BY <1>1, ~FetchTied DEF Reset, RegsAfterReset, ResetRegs, Status
<1>2. CASE FirstEdge
  BY <1>2 DEF FirstEdge, HwFetchen
<1>3. CASE CoreStart
  <2>1. pin = Jtag => core' = "crt0"
    BY <1>3 DEF CoreStart, JumpTo, Entry, BootAddrDefault
  <2>2. pin # Jtag => loader \in {"poll", "done"} /\ core' = "program"
    BY <1>3 DEF CoreStart, JumpTo, Entry, BootAddrDefault
  <2>3. core = "off"
    BY <1>3 DEF CoreStart
  <2> QED  BY <1>3, <2>1, <2>2, <2>3 DEF CoreStart, CoreUnchanged
<1>4. ASSUME NEW w \in Words, RomStart(w) PROVE Goal'
  BY <1>4 DEF RomStart, CoreUnchanged
<1>5. CASE RomMain
  <2>1. core' \in {"wfi", "default", "crt0", "program", "wild"} /\ core' # "program"
    BY <1>5 DEF RomMain, JumpTo, Entry, BOOT_MODE_PRELOADED, BootAddrDefault
  <2> QED  BY <1>5, <2>1 DEF RomMain, CoreUnchanged
<1>6. CASE StatusWrite
  <2> PICK eoc \in BOOLEAN, code \in Codes, be \in {Bytes, {0}} :
             ProgramWrites(Status(eoc, code), be)
    BY <1>6 DEF StatusWrite
  <2>1. be = Bytes \/ regs' = regs
    BY DEF ProgramWrites, RegWrite, Permit, Bytes
  <2>2. regs.corestatus.eoc' => core' = "exited"
    BY <2>1 DEF ProgramWrites, RegWrite, Status
  <2>3. /\ regs'.bootaddr = regs.bootaddr /\ regs'.fetchen = regs.fetchen
        /\ core = "program" /\ core' \in {"program", "exited"}
    BY DEF ProgramWrites, RegWrite
  <2>4. loader # "done"
    BY <2>3 DEF Status
  <2> QED  BY <2>2, <2>3, <2>4 DEF ProgramWrites, CoreUnchanged
<1>7. CASE Begin
  BY <1>7 DEF Begin, LoaderGoes, LoaderUnchanged
<1>8. CASE JtagHalt
  BY <1>8 DEF JtagHalt, Halts, LoaderGoes, LoaderUnchanged, Running
<1>9. CASE LoadWord
  BY <1>9 DEF LoadWord, LoaderGoes, LoaderUnchanged
<1>10. CASE AxiBootAddr
  <2>1. regs' = [regs EXCEPT !["bootaddr"] = Entry]
    BY <1>10 DEF AxiBootAddr, RegWrite, Permit
  <2> QED  BY <1>10, <2>1 DEF AxiBootAddr, LoaderGoes, LoaderUnchanged
<1>11. CASE AxiFetchEnable
  <2>1. regs'.bootaddr = regs.bootaddr /\ regs'.corestatus = regs.corestatus
    BY <1>11 DEF AxiFetchEnable, RegWrite
  <2> QED  BY <1>11, <2>1 DEF AxiFetchEnable, LoaderGoes, LoaderUnchanged
<1>12. CASE JtagResume
  BY <1>12 DEF JtagResume, LoaderGoes, LoaderUnchanged
<1>13. CASE ReadExit
  BY <1>13 DEF ReadExit, LoaderGoes, Status
<1>14. CASE UNCHANGED vars
  BY <1>14 DEF vars
<1> QED
  BY <1>1, <1>2, <1>3, <1>4, <1>5, <1>6, <1>7, <1>8, <1>9, <1>10, <1>11, <1>12, <1>13, <1>14
  DEF Next, Load

-----------------------------------------------------------------------------
\* The invariant holds in every reachable state.
THEOREM Invariant == ASSUME ~FetchTied PROVE Spec => []Inv
<1>1. Init => Inv
  BY InitInv
<1>2. Inv /\ [Next]_vars => Inv'
  BY NextType, NextImage, NextPhases DEF Inv, Phases
<1> QED  BY <1>1, <1>2, PTL DEF Spec

\* The variables always have their types, wherever fetch_enable_i comes from.
THEOREM TypeCorrect == Spec => []TypeOK
<1>1. Init => TypeOK
  BY InitType
<1>2. TypeOK /\ [Next]_vars => TypeOK'
  BY NextType
<1> QED  BY <1>1, <1>2, PTL DEF Spec

\* The core never executes a program of which a word is missing or of an earlier boot.
THEOREM CompleteBeforeRun == ASSUME ~FetchTied PROVE Spec => []ProgramComplete
<1>1. Inv => ProgramComplete
  <2> SUFFICES ASSUME Inv, core \in {"program", "exited"}, NEW w \in Words
               PROVE  mem[w] = boot
    BY DEF ProgramComplete
  <2>1. loader \in {"poll", "done"}
    BY DEF Inv, Phases, JtagPhases, AxiPhases, TypeOK
  <2>2. w < word
    BY <2>1, BootAssumption DEF Inv, Phases, ImageKept, Words
  <2> QED  BY <2>1, <2>2 DEF Inv, Phases, ImageKept
<1> QED  BY <1>1, Invariant, PTL

\* In preloaded mode the core never executes the boot ROM.
THEOREM RomSkipped == ASSUME ~FetchTied PROVE Spec => []PreloadedSkipsRom
<1>1. Inv => PreloadedSkipsRom
  BY DEF Inv, Phases, AxiPhases, TypeOK, PreloadedSkipsRom, Preloaded, Jtag
<1> QED  BY <1>1, Invariant, PTL

\* The loader never reports an exit code of another boot than its own.
THEOREM ExitIsOwn == ASSUME ~FetchTied PROVE Spec => []ExitOfThisBoot
<1>1. Inv => ExitOfThisBoot
  BY DEF Inv, Phases, Ended, TypeOK, ExitOfThisBoot, Status
<1> QED  BY <1>1, Invariant, PTL
=============================================================================
