------------------------------ MODULE McGioDma ------------------------------
(***************************************************************************)
(* The memory controller's GIO64 DMA engine, rtl/sgi/mc_gio_dma.sv: fills, *)
(* copies to and from the GIO bus in beats of a doubleword, each beat one  *)
(* or two accesses of memory, with a uTLB and a translation cache of one   *)
(* entry.  Clock(in) is one edge; the inputs are                           *)
(*   start, d   sgi_mc's pulse and its descriptor registers                *)
(*   tlb        the uTLB registers, which are read as they are             *)
(*   m_ack, rdata, pte   memory's answer: the doubleword, or the page      *)
(*              table entry that was asked for                             *)
(*   g_ack, g_rdata      the GIO bus's answer                              *)
(***************************************************************************)
EXTENDS McDmaReference

VARIABLES
    state,
    job,        \* the descriptor as sampled, and the counts as they run
    part,       \* the beat's bytes, first lane, bytes in the first doubleword
    beat,       \* its bytes
    cache,      \* the translation cache
    fault_code,
    done        \* outputs: done, mode_unsupported, fault, wb_valid, wb_memadr

engVars == <<state, job, part, beat, cache, fault_code, done>>

NoBeat == [j \in Bytes |-> Zero]

Init ==
    /\ state = "S_IDLE" /\ fault_code = {}
    /\ job = [kind |-> "FILL", up |-> FALSE, xlate |-> FALSE, skip |-> FALSE,
              lines |-> 0, width |-> 0, line_zoom |-> 0, stride |-> 0,
              zoom |-> 0, bytes |-> 0, vaddr |-> 0]
    /\ part = [len |-> 0, lane0 |-> 0, n0 |-> 0, for_b |-> FALSE]
    /\ beat = NoBeat
    /\ cache = [valid |-> FALSE, tag |-> 0, base |-> 0, wrok |-> FALSE]
    /\ done = [up |-> FALSE, unsupported |-> FALSE, fault |-> {},
               wb |-> FALSE, memadr |-> 0]

-----------------------------------------------------------------------------
(* Translation of the doubleword the machine works on.                     *)

NextQword(a) == ((a \div QW) * QW + QW) % ASIZE
OnB == state = "S_MEMB" \/ (state = "S_PTE" /\ part.for_b)
XlVaddr == IF OnB THEN NextQword(job.vaddr) ELSE job.vaddr
MemIsWrite == job.kind # "M2G"

\* Mutant: the tag alone decides.
CacheHitByTag == cache.tag = XlVaddr \div PAGE
CacheHit == cache.valid /\ cache.tag = XlVaddr \div PAGE
XlNeed == job.xlate /\ ~CacheHit
XlClean == job.xlate /\ CacheHit /\ MemIsWrite /\ ~cache.wrok

TlbHits(tlb) == {i \in DOMAIN tlb : tlb[i].tag = XlVaddr \div SEG}
TlbEntry(tlb) == tlb[Min(TlbHits(tlb))]
XlMiss(tlb) == XlNeed /\ (TlbHits(tlb) = {} \/ ~TlbEntry(tlb).valid)

\* The entry S_PTE asks for: the fragment and the page within it.
PteAddr(tlb) == [base |-> TlbEntry(tlb).base, vpn |-> (XlVaddr % SEG) \div PAGE]

-----------------------------------------------------------------------------
(* The two bus masters.                                                    *)

MReq ==
    \/ state \in {"S_MEMA", "S_MEMB"} /\ ~XlNeed /\ ~XlClean
    \/ state = "S_PTE"
MAddr == (IF job.xlate THEN cache.base + (XlVaddr % PAGE) ELSE XlVaddr) \div QW
MLanes ==
    IF state = "S_MEMB" THEN 0..(part.len - part.n0 - 1)
    ELSE part.lane0..(part.lane0 + part.n0 - 1)
MWdata(l) == IF state = "S_MEMB" THEN beat[part.n0 + l] ELSE beat[l - part.lane0]
GReq == state = "S_GIO"

-----------------------------------------------------------------------------

Quiet == done' = [done EXCEPT !.up = FALSE, !.wb = FALSE]
Faults(f) == fault_code' = f /\ state' = "S_DONE"

Idle(in) ==
    /\ state = "S_IDLE" /\ Quiet
    /\ IF in.start
       THEN LET d == in.d IN
            /\ job' = [kind |-> CASE IsFill(d) -> "FILL" [] IsM2G(d) -> "M2G" [] OTHER -> "G2M",
                       up |-> d.up, xlate |-> d.xlate, skip |-> ~Supported(d),
                       lines |-> d.lines, width |-> d.width, line_zoom |-> d.line_zoom,
                       stride |-> d.stride, zoom |-> d.zoom, bytes |-> d.bytes,
                       vaddr |-> d.memadr]
            /\ fault_code' = {} /\ cache' = [cache EXCEPT !.valid = FALSE]
            /\ part' = [part EXCEPT !.for_b = FALSE]
            /\ state' = IF ~Supported(d) \/ d.lines = 0 THEN "S_DONE" ELSE "S_CHECK"
       ELSE UNCHANGED <<state, job, part, cache, fault_code>>
    /\ UNCHANGED beat

\* The end of a pass of a line, of a line, of the transfer.
Unwound(j) ==
    IF j.zoom > 1
    THEN [j EXCEPT !.bytes = j.width, !.zoom = @ - 1,
                   !.vaddr = (IF j.up THEN @ - j.width ELSE @ + j.width) % ASIZE]
    ELSE [j EXCEPT !.bytes = j.width, !.zoom = j.line_zoom,
                   !.vaddr = (@ + j.stride) % ASIZE, !.lines = @ - 1]

Check ==
    /\ state = "S_CHECK" /\ Quiet
    /\ IF job.bytes # 0 THEN state' = "S_BEAT" /\ UNCHANGED job
       ELSE /\ job' = Unwound(job)
            /\ state' = IF job.zoom <= 1 /\ job.lines <= 1 THEN "S_DONE" ELSE "S_CHECK"
    /\ UNCHANGED <<part, beat, cache, fault_code>>

\* A fill moves a doubleword where two of the reference's words would do.
BeatLen ==
    IF job.kind = "FILL"
    THEN IF job.up /\ job.vaddr % QW = 0 /\ job.bytes >= QW THEN QW ELSE Word
    ELSE Min({job.bytes, QW})

Beat ==
    LET lane0 == job.vaddr % QW IN
    /\ state = "S_BEAT" /\ Quiet
    /\ part' = [len |-> BeatLen, lane0 |-> lane0, n0 |-> Min({BeatLen, QW - lane0}),
                for_b |-> FALSE]
    /\ beat' = [j \in Bytes |-> IF job.kind = "FILL" THEN FillByte(j) ELSE Zero]
    /\ state' = IF job.kind = "G2M" THEN "S_GIO" ELSE "S_MEMA"
    /\ UNCHANGED <<job, cache, fault_code>>

\* What a half of a beat read from memory adds to it.
Gathered(rdata) ==
    [j \in Bytes |->
       CASE j >= part.len -> Zero
         [] j < part.len /\ state = "S_MEMA" ->
               IF part.lane0 + j < QW THEN rdata[part.lane0 + j] ELSE Zero
         [] j < part.len /\ state = "S_MEMB" ->
               IF j < part.n0 THEN beat[j] ELSE rdata[j - part.n0]]

AfterHalf ==
    IF state = "S_MEMA" /\ part.len > part.n0 THEN "S_MEMB"
    ELSE IF job.kind = "M2G" THEN "S_GIO" ELSE "S_STEP"

MemHalf(in) ==
    /\ state \in {"S_MEMA", "S_MEMB"} /\ Quiet
    /\ CASE XlMiss(in.tlb) -> Faults({"TLB_MISS"}) /\ UNCHANGED <<beat, part>>
         [] XlNeed /\ ~XlMiss(in.tlb) ->
               /\ state' = "S_PTE" /\ part' = [part EXCEPT !.for_b = (state = "S_MEMB")]
               /\ UNCHANGED <<beat, fault_code>>
         [] XlClean -> Faults({"CLEAN"}) /\ UNCHANGED <<beat, part>>
         [] ~XlNeed /\ ~XlClean /\ in.m_ack ->
               /\ beat' = IF MemIsWrite THEN beat ELSE Gathered(in.rdata)
               /\ state' = AfterHalf /\ UNCHANGED <<part, fault_code>>
         [] OTHER -> UNCHANGED <<state, beat, part, fault_code>>
    /\ UNCHANGED <<job, cache>>

\* Mutant: an entry fetched for the second half resumes the first.
PteForgetsHalf(in) ==
    /\ state = "S_PTE" /\ Quiet
    /\ IF ~in.m_ack THEN UNCHANGED <<state, cache>>
       ELSE /\ cache' = [valid |-> TRUE, tag |-> XlVaddr \div PAGE,
                         base |-> in.pte.frame * PAGE, wrok |-> in.pte.wrok]
            /\ state' = "S_MEMA"
    /\ UNCHANGED <<job, part, beat, fault_code>>

\* The page table entry, checked and kept.
Pte(in) ==
    /\ state = "S_PTE" /\ Quiet
    /\ IF ~in.m_ack THEN UNCHANGED <<state, cache, fault_code>>
       ELSE CASE ~in.pte.valid -> Faults({"FAULT"}) /\ UNCHANGED cache
              [] in.pte.valid /\ MemIsWrite /\ ~in.pte.wrok ->
                    Faults({"CLEAN"}) /\ UNCHANGED cache
              [] OTHER ->
                    /\ cache' = [valid |-> TRUE, tag |-> XlVaddr \div PAGE,
                                 base |-> in.pte.frame * PAGE, wrok |-> in.pte.wrok]
                    /\ state' = IF part.for_b THEN "S_MEMB" ELSE "S_MEMA"
                    /\ UNCHANGED fault_code
    /\ UNCHANGED <<job, part, beat>>

Gio(in) ==
    /\ state = "S_GIO" /\ Quiet
    /\ IF ~in.g_ack THEN UNCHANGED <<state, beat>>
       ELSE IF job.kind = "G2M"
       THEN /\ beat' = [j \in Bytes |-> IF j < part.len THEN in.g_rdata[j] ELSE Zero]
            /\ state' = "S_MEMA"
       ELSE state' = "S_STEP" /\ UNCHANGED beat
    /\ UNCHANGED <<job, part, cache, fault_code>>

Step ==
    /\ state = "S_STEP" /\ Quiet
    /\ job' = [job EXCEPT
                 !.vaddr = (IF job.kind = "FILL" /\ ~job.up THEN @ - Word
                            ELSE @ + part.len) % ASIZE,
                 !.bytes = IF @ > part.len THEN @ - part.len ELSE 0]
    /\ state' = "S_CHECK"
    /\ UNCHANGED <<part, beat, cache, fault_code>>

Finish ==
    /\ state = "S_DONE" /\ state' = "S_IDLE"
    /\ done' = [up |-> TRUE, unsupported |-> job.skip, fault |-> fault_code,
                wb |-> ~job.skip, memadr |-> job.vaddr]
    /\ UNCHANGED <<job, part, beat, cache, fault_code>>

Clock(in) ==
    Idle(in) \/ Check \/ Beat \/ MemHalf(in) \/ Pte(in) \/ Gio(in) \/ Step \/ Finish

=============================================================================
