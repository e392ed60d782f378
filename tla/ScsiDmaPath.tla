---------------------------- MODULE ScsiDmaPath ----------------------------
(***************************************************************************)
(* The HPC3's SCSI channel at work: its driver, which writes the registers *)
(* and lays out descriptors and buffers, main memory behind the arbiter,   *)
(* and the WD33C93 with a target's data phase behind it.                   *)
(*                                                                         *)
(* A byte is a number that names it: byte n of a DATA IN phase of command  *)
(* k is 100 * k + n, and what the driver puts at address a for command k   *)
(* is 10 * k + a.                                                          *)
(***************************************************************************)
EXTENDS Naturals, FiniteSets, SequencesExt

CONSTANTS
    LANES, FLUSH_IDLE, LINK_LIMIT, NoByte, NoDesc,
    Chains,      \* the descriptor chains the driver lays out
    Words,       \* words of memory with buffers
    MaxCommands, \* commands in a behaviour
    MaxStops,    \* and accesses that stop or reset a running channel
    Hasty        \* which come, as the next command does, at any clock at all

ASSUME ChannelAssumption ==
    LANES \in Nat \ {0} /\ FLUSH_IDLE \in Nat \ {0} /\ LINK_LIMIT \in Nat
ASSUME PathAssumption ==
    /\ Words \in Nat /\ MaxCommands \in 0..9 /\ MaxStops \in Nat /\ Hasty \in BOOLEAN
    /\ \A ch \in Chains : Len(ch) \in Nat \ {0} /\ DOMAIN ch = 1..Len(ch)
    /\ \A ch \in Chains : \A d \in DOMAIN ch :
          /\ ch[d].bp \in Nat /\ ch[d].count \in Nat /\ ch[d].next \in DOMAIN ch
          /\ ch[d].bp + ch[d].count <= Words * LANES

VARIABLES
    cbp, count, nbdp, fetch_ptr, desc_eox, desc_xie, ctrl_int, ctrl_active,
    ctrl_reset, dstate, fl_next, link_count, eop_lat, wbuf, wbe, waddr, rbuf, raddr,
    rvalid, widle, dma, dev_ack, dev_rdata, dev_reset,
    mem,         \* the memory's transaction: idle, at work or answering
    ram,         \* the bytes of the buffers, by address
    dev,         \* the WD33C93: open, its request, bytes taken, dma_eop, direction
    drv,         \* the driver: "idle", "armed", "run" or, after a reset, "reset"
    cmd, chain,  \* its command and the command's descriptors
    owed,        \* an interrupt the driver has yet to read
    left         \* stops to come

Ch == INSTANCE Hpc3ScsiDma

vars == <<Ch!chVars, mem, ram, dev, drv, cmd, chain, owed, left>>

Addrs == 0..(Words * LANES - 1)
Prepared(k) == [a \in Addrs |-> 10 * k + a]
In(n) == 100 * cmd + n

\* The addresses of a chain's bytes, in order.
Buffers(ch) == [d \in DOMAIN ch |-> [i \in 1..ch[d].count |-> ch[d].bp + i - 1]]
PlacesOf(ch) == FlattenSeq(Buffers(ch))
Places == PlacesOf(chain)
Total == Len(Places)

Idle == [st |-> "idle", we |-> FALSE, addr |-> <<"word", 0>>, data |-> Ch!NoBytes, be |-> {}]
Closed == [open |-> FALSE, req |-> FALSE, taken |-> 0, eop |-> FALSE, dir_in |-> TRUE]

Init ==
    /\ Ch!Init
    /\ mem = Idle /\ ram = Prepared(0) /\ dev = Closed
    /\ drv = "idle" /\ cmd = 0 /\ chain \in Chains
    /\ owed = FALSE /\ left = MaxStops

-----------------------------------------------------------------------------
(* Main memory: takes the request it is shown, answers when it likes.      *)

WordOf(a) == [l \in Ch!Lanes |-> ram[a * LANES + l]]

\* What a read of the transaction's address returns.
Read ==
    CASE mem.addr[1] = "lo"   -> chain[mem.addr[2]]
      [] mem.addr[1] = "hi"   -> [next |-> chain[mem.addr[2]].next]
      [] mem.addr[1] = "word" -> [word |-> WordOf(mem.addr[2])]

Grant ==
    /\ mem.st = "idle" /\ dma.req
    /\ mem' = [st |-> "busy", we |-> dma.we, addr |-> dma.addr, data |-> dma.data,
               be |-> IF dma.we THEN dma.be ELSE {}]
Answer == mem.st = "busy" /\ mem' = [mem EXCEPT !.st = "answers"]
MemClock ==
    \/ Grant
    \/ Answer
    \/ mem.st = "answers" /\ mem' = Idle
    \/ mem.st # "answers" /\ mem' = mem

\* A write is in memory when it is answered.
Written ==
    [a \in Addrs |->
       IF /\ mem.st = "answers" /\ mem.we /\ mem.addr[2] = a \div LANES
          /\ a % LANES \in mem.be
       THEN mem.data[a % LANES] ELSE ram[a]]

-----------------------------------------------------------------------------
(* The WD33C93: dma_req held until dma_ack, one dma_eop when the target    *)
(* leaves the data phase, which it may do early.                           *)

DevTakes == dev.req /\ dev_ack /\ dev' = [dev EXCEPT !.req = FALSE, !.taken = @ + 1]
DevAsks == dev.open /\ ~dev.req /\ dev.taken < Total /\ dev' = [dev EXCEPT !.req = TRUE]
DevEnds ==
    dev.open /\ ~dev.req /\ dev' = [dev EXCEPT !.open = FALSE, !.eop = TRUE]
DevWaits == ~(dev.req /\ dev_ack) /\ dev' = [dev EXCEPT !.eop = FALSE]
\* Reset with the bus, or by the driver once the channel is stopped.
DevReset ==
    /\ dev_reset \/ (dev.open /\ ~ctrl_active /\ ~dev_ack /\ drv # "idle")
    /\ dev' = [dev EXCEPT !.open = FALSE, !.req = FALSE, !.eop = FALSE]
DevClock ==
    IF dev_reset THEN DevReset
    ELSE DevTakes \/ DevAsks \/ DevEnds \/ DevWaits \/ DevReset

-----------------------------------------------------------------------------
(* The driver.                                                             *)

NoPio == [kind |-> "none"]
ReadCtrl == [kind |-> "read"]
Ctrl(mask, active, reset, flush) ==
    [kind |-> "ctrl", mask |-> mask, active |-> active, reset |-> reset, flush |-> flush]
Nbdp == [kind |-> "nbdp", value |-> 1]
Start == Ctrl(FALSE, TRUE, FALSE, FALSE)
Release == Ctrl(TRUE, FALSE, FALSE, FALSE)
Stop == Ctrl(FALSE, FALSE, FALSE, FALSE)
Flush == Ctrl(TRUE, FALSE, FALSE, TRUE)
Reset == Ctrl(FALSE, FALSE, TRUE, FALSE)

Inputs(pio) ==
    [pio |-> pio, ack |-> mem.st = "answers", rdata |-> Read,
     req |-> dev.req, dir_in |-> dev.dir_in, byte |-> In(dev.taken + 1), eop |-> dev.eop]

\* A driver that is not hasty comes when the engine has nothing to do but wait
\* for a byte or a command, its memory traffic over.
Settled == mem.st = "idle" /\ ~dma.req /\ Ch!Moves(Inputs(NoPio)) = "stays"
Comes == Hasty \/ Settled

Clock(pio) ==
    /\ Ch!Clock(Inputs(pio))
    /\ MemClock
    \* What XIE promises is owed until the driver reads it.
    /\ owed' = \/ desc_xie /\ dstate = "D_DESC_END"
               \/ desc_xie /\ desc_eox /\ dstate = "D_EVAL" /\ count = 0
               \/ owed /\ ~(pio.kind = "read" /\ ctrl_int)

Tick == Clock(NoPio) /\ DevClock /\ ram' = Written /\ UNCHANGED <<drv, cmd, chain, left>>

ReadsCtrl ==
    Clock(ReadCtrl) /\ DevClock /\ ram' = Written /\ UNCHANGED <<drv, cmd, chain, left>>

Releases ==
    /\ ctrl_reset /\ Comes
    /\ Clock(Release) /\ DevClock /\ ram' = Written
    /\ UNCHANGED <<drv, cmd, chain, left>>

\* The next command's buffers and descriptors, and where they are.
Prepares ==
    /\ drv # "armed" /\ ~ctrl_active /\ ~dev.open /\ cmd < MaxCommands /\ Comes
    /\ Clock(Nbdp) /\ DevClock
    /\ drv' = "armed" /\ cmd' = cmd + 1 /\ chain' \in Chains /\ ram' = Prepared(cmd + 1)
    /\ UNCHANGED left

Starts ==
    /\ drv = "armed" /\ ~ctrl_reset /\ Comes
    /\ Clock(Start)
    /\ drv' = "run"
    /\ \E in \in BOOLEAN : dev' = [Closed EXCEPT !.open = TRUE, !.dir_in = in]
    /\ ram' = Written
    /\ UNCHANGED <<cmd, chain, left>>

\* Tearing a command down that ended before its chain did, and stopping one
\* that is under way.
TearsDown(pio) ==
    /\ drv = "run" /\ ctrl_active /\ Comes
    /\ ~dev.open \/ left > 0
    /\ Clock(pio) /\ DevClock /\ ram' = Written
    /\ drv' = IF pio = Reset THEN "reset" ELSE drv
    /\ left' = IF dev.open THEN left - 1 ELSE left
    /\ UNCHANGED <<cmd, chain>>

Next == Tick \/ ReadsCtrl \/ Releases \/ Prepares \/ Starts
          \/ TearsDown(Stop) \/ TearsDown(Flush) \/ TearsDown(Reset)

\* Memory answers; a target goes on with its data phase or ends it.
Fairness == []<>(mem.st = "idle" /\ ~dma.req) \/ []<><<(Grant \/ Answer) /\ Next>>_vars
DevGoes == (DevTakes \/ DevAsks \/ DevEnds \/ DevReset) /\ Next
TargetFairness == []<>~dev.open \/ []<>(dev.req /\ ~dev_ack) \/ []<><<DevGoes>>_vars

Spec == Init /\ [][Next]_vars

-----------------------------------------------------------------------------

\* Bytes the channel has acknowledged.
Moved == dev.taken + (IF dev_ack THEN 1 ELSE 0)
Came(a) == {n \in 1..Moved : dev.dir_in /\ Places[n] = a}
HeldAt(a) == a \div LANES = waddr /\ a % LANES \in wbe

(* Chains as drivers lay them out: numbered in the order in which the      *)
(* links lead through the buffers, past empty descriptors or back to them, *)
(* and no two of a chain's bytes share an address.                         *)
InOrder ==
    \A ch \in Chains :
        /\ \A d, e \in DOMAIN ch :
              ~ch[d].eox /\ ch[e].count > 0 => (e <= d <=> e < ch[d].next)
        /\ \A m, n \in 1..Len(PlacesOf(ch)) :
              PlacesOf(ch)[m] = PlacesOf(ch)[n] => m = n

(* Every byte the target gave is in memory at the place the chain has for  *)
(* it, or held for that place, through any pause, stop or early end, and   *)
(* no other byte of the buffers is touched.  Every byte the target is      *)
(* given is the chain's next and this command's, though a word is read     *)
(* once for all its bytes and the driver writes the same buffers again     *)
(* between commands.                                                       *)
BytesInPlace ==
    drv = "run" =>
        /\ \A a \in Addrs :
               IF Came(a) = {} THEN ram[a] = 10 * cmd + a /\ ~HeldAt(a)
               ELSE \A n \in Came(a) :
                       IF HeldAt(a) THEN wbuf[a % LANES] = In(n) ELSE ram[a] = In(n)
        /\ dev_ack /\ ~dev.dir_in => dev_rdata = 10 * cmd + Places[dev.taken + 1]

(* A descriptor's interrupt and the end of the chain come after the last   *)
(* of their bytes are in memory.                                           *)
DataBeforeInterrupt ==
    dstate \in {"D_DESC_END", "D_COMPLETE"} /\ drv = "run" /\ dev.dir_in =>
        \A n \in 1..Moved : ram[Places[n]] = In(n)

(* An interrupt stays until a read of the control register has shown it to *)
(* the driver: one that is raised in the clock of such a read is not lost. *)
InterruptOwed == owed => ctrl_int

(* A channel that was stopped stays stopped: its engine writes what it     *)
(* holds and does nothing else.                                            *)
StopWins ==
    ~ctrl_active => \/ dstate = "D_IDLE"
                    \/ dstate \in {"D_FLUSH", "D_FLUSH_W"} /\ fl_next = "FN_IDLE"

(* Held bytes reach memory though the target never gives another; and a    *)
(* chain comes to its end, whether the target takes all of it or ends its  *)
(* data phase early, and a loop of links is given up.  (A phase that ends  *)
(* in one of several buffers leaves the channel waiting at the next, for   *)
(* its driver to stop.)                                                    *)
ChannelFinishes ==
    /\ wbe # {} ~> wbe = {}
    /\ TargetFairness =>
           (ctrl_active /\ Cardinality({d \in DOMAIN chain : chain[d].count > 0}) <= 1
               ~> ~ctrl_active)

=============================================================================
