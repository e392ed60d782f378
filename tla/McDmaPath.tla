----------------------------- MODULE McDmaPath -----------------------------
(***************************************************************************)
(* The GIO64 DMA engine at work: its registers in rtl/sgi/sgi_mc.sv, a CPU *)
(* that programs a descriptor, starts it and polls RUN or waits for the    *)
(* interrupt, and the memory and GIO bus of verilator/tb_mcdma.cpp, which  *)
(* answer after any delay up to DELAY.                                     *)
(***************************************************************************)
EXTENDS McDmaReference

CONSTANTS
    Descriptors,  \* what the driver may ask for first,
    Later,        \* and after that
    Tlbs, Tables, \* uTLB registers and page tables it may lay out
    RUNS,         \* starts in a behaviour
    POKES,        \* and writes while a transfer runs
    DELAY,        \* clocks an access of memory or of the GIO bus waits at most
    FUEL          \* steps of the reference's loops

\* What a driver asks for: it never starts with a zoom count of zero, and a
\* fill through the uTLB keeps its words whole.
Legal(d) ==
    /\ d.zoom > 0 /\ d.line_zoom > 0
    /\ IsFill(d) /\ d.xlate => \A n \in {d.memadr, d.width, d.stride, d.bytes} : n % Word = 0

\* The registers' values, the uTLB's and a fragment of the page tables.
Descriptor ==
    [fill : BOOLEAN, to_host : BOOLEAN, up : BOOLEAN, xlate : BOOLEAN, ie : BOOLEAN,
     memadr : Addresses, lines : Nat, width : Nat, line_zoom : Nat, stride : Int,
     zoom : Nat, bytes : Nat]
UTlb == Seq([tag : Nat, valid : BOOLEAN, base : Nat])
Fragment ==
    [0..(SEG \div PAGE - 1) ->
        [valid : BOOLEAN, wrok : BOOLEAN, frame : 0..(ASIZE \div PAGE - 1)]]

\* Steps of the reference's loops that are enough for a descriptor.
Larger(m, n) == IF m > n THEN m ELSE n
Rounds(d) ==
    d.lines * (Larger(d.zoom, d.line_zoom) * (Larger(d.width, d.bytes) + 2) + 2) + 1

ASSUME PathAssumption ==
    /\ RUNS \in Nat /\ POKES \in Nat /\ DELAY \in Nat /\ FUEL \in Nat \ {0}
    /\ Descriptors \union Later \subseteq Descriptor
    /\ \A d \in Descriptors \union Later : Legal(d) /\ Rounds(d) <= FUEL
    /\ Tlbs \subseteq UTlb
    /\ \A t \in Tables, u \in Tlbs : \A i \in DOMAIN u : t[u[i].base] \in Fragment

VARIABLES
    state, job, part, beat, cache, fault_code, done,
    regs,     \* memadr, size, stride, count, mode, ctl: the descriptor, `tlb`
    cause, run, int,  \* DMA_CAUSE, DMA_RUN, dma_int
    start_q,
    image, table,           \* memory, and the page tables in it
    beats, reads, waited,   \* the GIO bus: beats of this transfer, beats read
    gap,      \* the CPU's access was in the clock before
    want,     \* what the reference makes of the transfer that was started
    asked,    \* it was started, and has not ended
    owed,     \* the cause of an end the driver has not retired
    left      \* starts and pokes to come

Eng == INSTANCE McGioDma

mcVars == <<regs, cause, run, int, start_q>>
vars == <<Eng!engVars, mcVars, image, table, beats, reads, waited, gap, want,
          asked, owed, left>>

NoDescriptor ==
    [fill |-> FALSE, to_host |-> FALSE, up |-> FALSE, memadr |-> 0, lines |-> 0,
     width |-> 0, line_zoom |-> 0, stride |-> 0, zoom |-> 0, bytes |-> 0,
     xlate |-> FALSE, ie |-> FALSE, tlb |-> <<>>]
NotRunning == [running |-> FALSE, cause |-> {}]

Init ==
    /\ Eng!Init
    /\ regs = NoDescriptor /\ cause = {} /\ run = NotRunning
    /\ int = FALSE /\ start_q = FALSE
    /\ image = [a \in Addresses |-> Initial(a)] /\ table = CHOOSE t \in Tables : TRUE
    /\ beats = <<>> /\ reads = 0 /\ waited = 0
    /\ gap = FALSE /\ asked = FALSE /\ owed = {}
    /\ want = Outcome(NoDescriptor, <<>>, table, image, 0, 0)
    /\ left = [runs |-> RUNS, programs |-> RUNS, pokes |-> POKES]

-----------------------------------------------------------------------------
(* The bench's memory and GIO bus.                                         *)

Answers(ack) ==
    /\ (Eng!MReq \/ Eng!GReq) => (ack \/ waited < DELAY)
    /\ ack => (Eng!MReq \/ Eng!GReq)
    /\ waited' = IF ack \/ ~(Eng!MReq \/ Eng!GReq) THEN 0 ELSE waited + 1

Inputs(ack) ==
    [start |-> start_q, d |-> regs, tlb |-> regs.tlb,
     m_ack |-> ack /\ Eng!MReq, g_ack |-> ack /\ Eng!GReq,
     rdata |-> [l \in Bytes |-> image[Eng!MAddr * QW + l]],
     pte |-> IF state = "S_PTE"
             THEN LET at == Eng!PteAddr(regs.tlb) IN table[at.base][at.vpn]
             ELSE [valid |-> FALSE, wrok |-> FALSE, frame |-> 0],
     g_rdata |-> [j \in Bytes |-> GioByte(reads, j)]]

Memory(ack) ==
    image' = [a \in Addresses |->
                IF /\ ack /\ Eng!MReq /\ state # "S_PTE" /\ Eng!MemIsWrite
                   /\ a \div QW = Eng!MAddr /\ a % QW \in Eng!MLanes
                THEN Eng!MWdata(a % QW) ELSE image[a]]

GioBus(ack, starts) ==
    /\ beats' = IF starts THEN <<>>
                ELSE IF ack /\ Eng!GReq /\ job.kind = "M2G" THEN Append(beats, beat) ELSE beats
    /\ reads' = IF ack /\ Eng!GReq /\ job.kind = "G2M" THEN reads + 1 ELSE reads

-----------------------------------------------------------------------------
(* sgi_mc: the write of a register, and after it the end of a transfer.    *)

NoWrite == [reg |-> "none"]

\* DMA_CAUSE mirrors its bits into RUN, and zero retires the interrupt.
Written(w) ==
    CASE w.reg = "none" -> [regs |-> regs, cause |-> cause, run |-> run, int |-> int]
      [] w.reg = "CAUSE" ->
            [regs |-> regs, cause |-> w.value, run |-> [run EXCEPT !.cause = w.value],
             int |-> int /\ w.value # {}]
      [] w.reg = "MEMADR" ->
            [regs |-> [regs EXCEPT !.memadr = w.value], cause |-> cause, run |-> run, int |-> int]
      [] w.reg = "DESCRIPTOR" ->
            [regs |-> w.value, cause |-> cause, run |-> run, int |-> int]

CauseNew == cause \union done.fault
            \union (IF done.fault = {} /\ regs.ie THEN {"COMPLETE"} ELSE {})

\* dma_done: the cause, RUN's copy of it, the interrupt and the writeback.
Ended(m) ==
    IF ~done.up THEN m
    ELSE [regs |-> IF done.wb
                   THEN [m.regs EXCEPT !.memadr = done.memadr, !.lines = 0,
                                       !.zoom = 0, !.bytes = 0]
                   ELSE m.regs,
          cause |-> CauseNew,
          run |-> [running |-> FALSE, cause |-> CauseNew],
          int |-> m.int \/ done.fault # {} \/ regs.ie]

\* Mutant: a register write comes after the end.
RegistersWriteLast(w, starts) ==
    LET m == Ended(IF start_q THEN [Written(w) EXCEPT !.run.running = TRUE] ELSE Written(w))
    IN /\ regs' = m.regs /\ cause' = m.cause /\ run' = m.run
       /\ int' = (m.int /\ w.reg # "CAUSE")
       /\ start_q' = (starts /\ state = "S_IDLE")

\* A start sets RUNNING over what the register held, whatever is written.
Registers(w, starts) ==
    LET written == Written(w)
        started == IF start_q THEN [written EXCEPT !.run = [run EXCEPT !.running = TRUE]]
                   ELSE written
        m == Ended(started)
    IN /\ regs' = m.regs /\ cause' = m.cause /\ run' = m.run /\ int' = m.int
       /\ start_q' = (starts /\ state = "S_IDLE")

-----------------------------------------------------------------------------
(* The CPU: its accesses are two clocks apart at least.                    *)

Clock(w, starts) ==
    /\ \E ack \in BOOLEAN :
          /\ Answers(ack) /\ Eng!Clock(Inputs(ack))
          /\ Memory(ack) /\ GioBus(ack, starts)
    /\ Registers(w, starts)
    /\ gap' = (w # NoWrite \/ starts)
    /\ asked' = (starts \/ (asked /\ ~done.up))
    /\ owed' = IF done.up /\ (done.fault # {} \/ regs.ie)
               THEN (IF done.fault = {} THEN {"COMPLETE"} ELSE done.fault)
               ELSE IF w.reg = "CAUSE" THEN {} ELSE owed

Tick == Clock(NoWrite, FALSE) /\ UNCHANGED <<want, left, table>>

\* The registers of a descriptor and a uTLB.
Programmed(d, t) == [f \in DOMAIN d \union {"tlb"} |-> IF f = "tlb" THEN t ELSE d[f]]

\* Once per start, while RUN reads as clear: the registers of a descriptor, and
\* for one that translates the uTLB and the page tables.
Programs ==
    /\ ~gap /\ ~run.running /\ left.runs > 0 /\ left.programs = left.runs
    /\ \E d \in (IF left.runs = RUNS THEN Descriptors ELSE Later), t \in Tlbs :
          /\ table' \in IF d.xlate THEN Tables ELSE {table}
          /\ ~d.xlate => t = CHOOSE u \in Tlbs : TRUE
          /\ Clock([reg |-> "DESCRIPTOR", value |-> Programmed(d, t)], FALSE)
    /\ left' = [left EXCEPT !.programs = @ - 1]
    /\ UNCHANGED want

\* The write of STDMA or GIO_ADRS.
Starts ==
    /\ ~gap /\ ~run.running /\ left.runs > 0 /\ left.programs < RUNS
    /\ Clock(NoWrite, TRUE)
    /\ want' = Outcome(regs, regs.tlb, table, image, reads, FUEL)
    /\ left' = [left EXCEPT !.runs = @ - 1]
    /\ UNCHANGED table

\* While a transfer runs, or after: the interrupt retired, the address of the
\* next descriptor written early.
Retires ==
    /\ ~gap /\ (int \/ left.pokes > 0)
    /\ Clock([reg |-> "CAUSE", value |-> {}], FALSE)
    /\ left' = [left EXCEPT !.pokes = IF int THEN @ ELSE @ - 1]
    /\ UNCHANGED <<want, table>>

Pokes ==
    /\ ~gap /\ run.running /\ left.pokes > 0
    /\ \E d \in Later : Clock([reg |-> "MEMADR", value |-> d.memadr], FALSE)
    /\ left' = [left EXCEPT !.pokes = @ - 1]
    /\ UNCHANGED <<want, table>>

Next == Tick \/ Programs \/ Starts \/ Retires \/ Pokes

Spec == Init /\ [][Next]_vars
LiveSpec == Spec /\ WF_vars(Tick)

-----------------------------------------------------------------------------
(* What the engine promises.                                               *)

\* What a transfer does by its end is what the reference does: the bytes in
\* memory and on the GIO bus, the reads of it, the fault.
SameWork ==
    /\ want.in = "out"
    /\ image = want.image /\ beats = want.beats /\ reads = want.reads
    /\ done.fault = want.fault

\* A transfer ends as the bench demands (tb_mcdma.cpp, the comparison of got and
\* want): it does what the reference does, and the MEMADR written back, from
\* which the fault handler restarts, is the reference's.  A copy that faults in
\* the second half of a beat does not keep this.
MatchesReference ==
    done.up => SameWork /\ (done.wb => done.memadr = want.mem)

\* Address a lies less than a doubleword before b, where a doubleword starts.
ShortOf(a, b) == b % QW = 0 /\ \E n \in 1..(QW - 1) : b = (a + n) % ASIZE

\* A transfer does what the reference does, and a restart at the MEMADR written
\* back leaves out no byte: the address is the reference's, or else the transfer
\* has faulted at the start of a doubleword and the address lies less than a
\* doubleword before the fault (mc_gio_dma.sv, beat geometry, translation and the
\* ends of lines).
RestartLosesNothing ==
    done.up =>
        /\ SameWork
        /\ done.wb =>
              \/ done.memadr = want.mem
              \/ want.fault # {} /\ ShortOf(done.memadr, want.mem)

\* The end of a transfer is told when it is true and until it has been heard.
\* RUN reads as clear only when nothing is under way, so a driver that polls finds
\* its data in place; an end that is to interrupt does so until DMA_CAUSE is
\* zeroed, a zero in the clock of the end included, and RUN tells the handler
\* which end it was (sgi_mc.sv, dma_start_q and dma_done).
EndIsTold ==
    /\ ~gap /\ ~run.running => ~asked /\ state = "S_IDLE"
    /\ owed # {} => int /\ owed \subseteq run.cause

\* A transfer that was started ends (mc_gio_dma.sv, the three counts).
TransferEnds == asked ~> ~asked

=============================================================================
