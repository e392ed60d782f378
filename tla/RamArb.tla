------------------------------- MODULE RamArb -------------------------------
(***************************************************************************)
(* rtl/sgi/ram_arb.sv: the CPU and the DMA engines on main memory's one    *)
(* port.  The CPU's request is a one-clock pulse, the DMA's is held until  *)
(* it is acknowledged.                                                     *)
(***************************************************************************)

VARIABLES
    inflight,    \* the port has a transaction outstanding ...
    owner_dma,   \* ... and it is the DMA's
    cpu_wait     \* a CPU access arrived while the port was busy

arbVars == <<inflight, owner_dma, cpu_wait>>

Init == inflight = FALSE /\ owner_dma = FALSE /\ cpu_wait = FALSE

\* Mutants: the CPU not gated on the transaction in flight - the fault the
\* file's header records - and the answer not gated on its owner.
CpuGoUngated(cpu_req) == cpu_req \/ cpu_wait
CpuAckUngated(ram_ack) == ram_ack

\* The CPU wins every tie.
CpuGo(cpu_req) == (cpu_req \/ cpu_wait) /\ ~inflight
DmaGo(cpu_req, dma_req) == dma_req /\ ~inflight /\ ~CpuGo(cpu_req)
RamReq(cpu_req, dma_req) == CpuGo(cpu_req) \/ DmaGo(cpu_req, dma_req)

CpuAck(ram_ack) == ram_ack /\ ~owner_dma
DmaAck(ram_ack) == ram_ack /\ owner_dma

\* Mutant: the pulse is lost.
RememberNothing(cpu_req) == cpu_wait' = FALSE

\* Remember a pulse that could not be issued; forget it once it is.
Remember(cpu_req) ==
    cpu_wait' = ((cpu_wait \/ cpu_req) /\ ~CpuGo(cpu_req))

\* Mutant: a burst is given up after its first word.
ClockAnyWord(cpu_req, dma_req, ram_ack, ram_last) ==
    /\ Remember(cpu_req)
    /\ inflight' = (RamReq(cpu_req, dma_req) \/ (inflight /\ ~ram_ack))
    /\ owner_dma' = IF RamReq(cpu_req, dma_req)
                    THEN DmaGo(cpu_req, dma_req) ELSE owner_dma

\* A burst is one transaction until its last word.
Clock(cpu_req, dma_req, ram_ack, ram_last) ==
    /\ Remember(cpu_req)
    /\ \/ /\ RamReq(cpu_req, dma_req)
          /\ inflight' = TRUE
          /\ owner_dma' = DmaGo(cpu_req, dma_req)
       \/ /\ ~RamReq(cpu_req, dma_req) /\ ram_ack /\ ram_last
          /\ inflight' = FALSE
          /\ UNCHANGED owner_dma
       \/ /\ ~RamReq(cpu_req, dma_req) /\ ~(ram_ack /\ ram_last)
          /\ UNCHANGED <<inflight, owner_dma>>

=============================================================================
