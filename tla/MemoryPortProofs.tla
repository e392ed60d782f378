-------------------------- MODULE MemoryPortProofs --------------------------
(***************************************************************************)
(* Theorems about MemoryPort, for every choice of its constants; the last  *)
(* is that the memory path implements MemoryService, if the MC's engine is *)
(* aimed at memory that is there.                                          *)
(***************************************************************************)
EXTENDS MemoryPort, TLAPS

(* The memory stage and the bridge agree on whether an access is under     *)
(* way, and an access of the CPU is at one point of its life.              *)
StageInv ==
    /\ memstate = "MEMSTATE_IDLE" => /\ state = "S_IDLE"
                                     /\ ~mem_request /\ ~mem_done
    /\ mem_request => state = "S_IDLE" /\ ~mem_done
    /\ mem_done => state = "S_IDLE"

(* The bridge's registers follow the access they serve.                    *)
BusInv ==
    /\ access.to = "device" /\ ~access.rnw => access.words = 1
    /\ state = "S_FILL" =>
          /\ access.rnw /\ access.words > 1 /\ ~bus_we
          /\ fill_last = access.words - 1
          /\ fill_beat <= fill_last /\ bus_beat = fill_beat
          /\ bus_req \/ cpu_wait => bus_burst = fill_last - fill_beat + 1
    /\ state = "S_BUSY" =>
          /\ bus_beat = 0
          /\ bus_we = ~access.rnw
          /\ access.rnw => access.words = 1
          /\ bus_burst = access.words

InPort == inflight /\ ~owner_dma
InDevice == dev_busy \/ dev_ack

(* While the bridge waits, its request is in exactly one place: on the     *)
(* wire, remembered by the arbiter, in the port, or with a device; while   *)
(* it does not, it is in none.                                             *)
WhereInv ==
    /\ state = "S_IDLE" => ~bus_req /\ ~cpu_wait /\ ~InPort /\ ~InDevice
    /\ state # "S_IDLE" => bus_req \/ cpu_wait \/ InPort \/ InDevice
    /\ bus_req => ~cpu_wait /\ ~InPort /\ ~InDevice
    /\ cpu_wait => ~InPort /\ ~InDevice
    /\ InPort => ~InDevice
    /\ dev_busy => ~dev_ack
    /\ cpu_wait \/ InPort => access.to = "ram"
    /\ InDevice => access.to = "device"

(* The arbiter's inflight is the port's own idea of being busy, and the    *)
(* transaction in it is the one the owner waits for.                       *)
PortInv ==
    /\ inflight <=> (left > 0 \/ ram_ack)
    /\ ram_ack => (ram_last <=> left = 0)
    /\ left > 0 =>
          /\ cur.who \in {"cpu", "scsi", "mc"} /\ cur.id \in Ids
          /\ cur.we \in BOOLEAN /\ cur.beat \in 0..3 /\ cur.words \in 1..4
          /\ left <= Port!Acks(cur)
    /\ left > 0 /\ owner_dma => left = 1 /\ ~ram_ack

CpuPortInv ==
    InPort =>
        /\ ram_ack => ram_rdata = [who |-> "cpu", id |-> access.id, word |-> bus_beat]
        /\ left > 0 =>
              /\ cur.who = "cpu" /\ cur.id = access.id
              /\ cur.beat + (Port!Acks(cur) - left)
                    = bus_beat + (IF ram_ack THEN 1 ELSE 0)
        /\ state = "S_BUSY" => left + (IF ram_ack THEN 1 ELSE 0) = 1
        /\ state = "S_FILL" => left + (IF ram_ack THEN 1 ELSE 0)
                                  = fill_last - fill_beat + 1

IInv == TypeOK /\ StageInv /\ BusInv /\ WhereInv /\ PortInv /\ CpuPortInv


-----------------------------------------------------------------------------

\* Identities are counted modulo NumIds and stay identities (MemoryPort's stamping of accesses).
LEMMA NextId ==
    ASSUME NEW i \in Ids
    PROVE  (i + 1) % NumIds \in Ids
  BY IdsAssumption DEF Ids

\* What the memory stage may ask for (cpu.vhd's mem_size and line transfers): at most four
\* words, and a device write is of one word.
LEMMA AccessFacts ==
    ASSUME NEW a \in Accesses
    PROVE  /\ a.rnw \in BOOLEAN /\ a.words \in 1..4 /\ a.to \in {"ram", "device"}
           /\ a.to = "device" /\ ~a.rnw => a.words = 1
<1> DEFINE Words(w) == w \in 1..4
<1>0. /\ \A w \in {1} \cup LineFills : Words(w)
      /\ \A w \in LineWrites : Words(w)
  BY LineAssumption
<1> HIDE DEF Words
<1>1. CASE a \in [rnw : {TRUE}, words : {1} \cup LineFills, to : {"ram", "device"}]
  <2>1. a.rnw = TRUE /\ a.words \in {1} \cup LineFills /\ a.to \in {"ram", "device"}
    BY <1>1
  <2>2. Words(a.words)
    BY <1>0, <2>1
  <2>3. QED BY <2>1, <2>2 DEF Words
<1>2. CASE a \in [rnw : {FALSE}, words : {1}, to : {"ram", "device"}]
  <2>1. a.rnw = FALSE /\ a.words = 1 /\ a.to \in {"ram", "device"}
    BY <1>2
  <2>2. Words(a.words)
    BY <1>0, <2>1
  <2>3. QED BY <2>1, <2>2 DEF Words
<1>3. CASE a \in [rnw : {FALSE}, words : LineWrites, to : {"ram"}]
  <2>1. a.rnw = FALSE /\ a.words \in LineWrites /\ a.to = "ram"
    BY <1>3
  <2>2. Words(a.words)
    BY <1>0, <2>1
  <2>3. QED BY <2>1, <2>2 DEF Words
<1>4. QED
  BY <1>1, <1>2, <1>3 DEF Accesses

\* The memory stage and the bridge go on agreeing whether an access is under way.
LEMMA StageStep ==
    ASSUME IInv, Next
    PROVE  StageInv'
  BY DEF IInv, TypeOK, StageInv, WhereInv, Next, Cpu!Clock, Cpu!Issue, Cpu!Retire, Cpu!StageWaits,
       Bus!Clock, Bus!StartFill, Bus!StartAccess, Bus!AccessAnswered,
       Bus!LastBeat, Bus!NextBeat, Bus!Quiet, BusAck, CpuRamAck, Arb!CpuAck,
       PortInv, InPort, InDevice, Bus!IsFill

(* What the bridge waits for can only stop being remembered by being       *)
(* issued, and can only be remembered after it was asked.                  *)
LEMMA WaitComesFromRequest ==
    ASSUME Next
    PROVE  cpu_wait' => (cpu_wait \/ bus_req) /\ inflight
  BY DEF Next, Arb!Clock, Arb!Remember, Arb!CpuGo, CpuRamReq

\* While an answer reaches the bridge it has no request on the wire or remembered.
LEMMA AckMeansNotAsking ==
    ASSUME IInv, BusAck
    PROVE  ~bus_req /\ ~cpu_wait /\ state # "S_IDLE"
  BY DEF IInv, WhereInv, PortInv, InPort, InDevice, BusAck, CpuRamAck,
         Arb!CpuAck

\* The bridge's registers go on following the access it serves, beat by beat.
LEMMA BusStep ==
    ASSUME IInv, Next
    PROVE  BusInv'
<1> USE DEF IInv, TypeOK, StageInv, BusInv
<1> DEFINE NewAccess == Cpu!Issue \/ access' = access
<1>1. NewAccess
  BY DEF Next, Cpu!Clock, Cpu!Retire, Cpu!StageWaits
<1>2. Cpu!Issue => state = "S_IDLE" /\ ~mem_request
  BY DEF Cpu!Issue
<1>3. access' \in [rnw : BOOLEAN, words : 1..4, to : {"ram", "device"}, id : Ids]
      /\ (access'.to = "device" /\ ~access'.rnw => access'.words = 1)
  <2>1. CASE Cpu!Issue
    <3>1. PICK a \in Accesses :
             access' = [rnw |-> a.rnw, words |-> a.words, to |-> a.to,
                        id |-> (access.id + 1) % NumIds]
      BY <2>1 DEF Cpu!Issue
    <3>2. (access.id + 1) % NumIds \in Ids
      BY NextId
    <3>3. a.rnw \in BOOLEAN /\ a.words \in 1..4 /\ a.to \in {"ram", "device"}
          /\ (a.to = "device" /\ ~a.rnw => a.words = 1)
      BY AccessFacts
    <3>4. QED
      BY <3>1, <3>2, <3>3
  <2>2. CASE access' = access
    BY <2>2
  <2>3. QED BY <1>1, <2>1, <2>2
<1>4. CASE mem_request /\ Bus!StartFill(access)
  BY <1>1, <1>2, <1>3, <1>4 DEF Bus!StartFill, Bus!IsFill
<1>5. CASE mem_request /\ Bus!StartAccess(access)
  BY <1>1, <1>2, <1>3, <1>5 DEF Bus!StartAccess, Bus!IsFill
<1>6. CASE BusAck /\ (Bus!AccessAnswered \/ Bus!LastBeat)
  BY <1>3, <1>6 DEF Bus!AccessAnswered, Bus!LastBeat
<1>7. CASE BusAck /\ Bus!NextBeat(BusLast)
  <2>1. ~cpu_wait'
    BY <1>7, AckMeansNotAsking, WaitComesFromRequest
  <2>2. access' = access
    BY <1>1, <1>2, <1>7 DEF Bus!NextBeat
  <2>3. QED
    BY <1>3, <1>7, <2>1, <2>2 DEF Bus!NextBeat
<1>8. CASE Bus!Quiet
  BY <1>1, <1>2, <1>3, <1>8, WaitComesFromRequest DEF Bus!Quiet
<1>9. QED
  BY <1>4, <1>5, <1>6, <1>7, <1>8 DEF Next, Bus!Clock

(* Where the CPU's request is after the clock, from where it was.          *)
LEMMA Whereabouts ==
    ASSUME IInv, Next
    PROVE  /\ cpu_wait' <=> (cpu_wait \/ CpuRamReq) /\ inflight
           /\ InPort' <=> \/ (cpu_wait \/ CpuRamReq) /\ ~inflight
                          \/ InPort /\ ~(ram_ack /\ ram_last)
           /\ InDevice' <=> dev_busy \/ (bus_req /\ access.to = "device")
           /\ dev_busy' => ~dev_ack'
<1>0. TypeOK BY DEF IInv
<1>1. Arb!Clock(CpuRamReq, DmaRamReq, ram_ack, ram_last) /\ DeviceClock
  BY DEF Next
<1>2. cpu_wait' <=> (cpu_wait \/ CpuRamReq) /\ inflight
  BY <1>0, <1>1 DEF Arb!Clock, Arb!Remember, Arb!CpuGo, TypeOK
<1>3. InPort' <=> \/ (cpu_wait \/ CpuRamReq) /\ ~inflight
                  \/ InPort /\ ~(ram_ack /\ ram_last)
  <2> DEFINE go == (cpu_wait \/ CpuRamReq) /\ ~inflight
             issue == Arb!RamReq(CpuRamReq, DmaRamReq)
  <2>1. Arb!CpuGo(CpuRamReq) <=> go
    BY DEF Arb!CpuGo
  <2>2. issue => ~inflight /\ (Arb!DmaGo(CpuRamReq, DmaRamReq) <=> ~go)
    BY <2>1 DEF Arb!RamReq, Arb!DmaGo
  <2>3. go => issue
    BY <2>1 DEF Arb!RamReq
  <2>4. CASE issue
    <3>1. inflight' /\ (owner_dma' <=> ~go)
      BY <1>1, <2>2, <2>4 DEF Arb!Clock
    <3>2. QED BY <3>1, <2>2, <2>4 DEF InPort
  <2>5. CASE ~issue
    <3>1. owner_dma' = owner_dma
          /\ (inflight' <=> inflight /\ ~(ram_ack /\ ram_last))
      BY <1>0, <1>1, <2>5 DEF Arb!Clock, InPort, TypeOK, IInv, PortInv
    <3>2. QED BY <3>1, <2>3, <2>5 DEF InPort
  <2>6. QED BY <2>4, <2>5
<1>4. /\ InDevice' <=> dev_busy \/ (bus_req /\ access.to = "device")
      /\ dev_busy' => ~dev_ack'
  BY <1>0, <1>1 DEF DeviceClock, InDevice, TypeOK
<1>5. QED BY <1>2, <1>3, <1>4

(* An acknowledgement from the port ends the access with its last word,    *)
(* and with no earlier one.                                                *)
LEMMA PortAckIsLast ==
    ASSUME IInv, InPort, ram_ack
    PROVE  /\ ram_last <=> (state = "S_BUSY" \/ fill_beat = fill_last)
           /\ BusLast = ram_last
<1>1. BusLast = ram_last
  BY DEF BusLast, CpuRamAck, Arb!CpuAck, InPort
<1>2. ram_last <=> left = 0
  BY DEF IInv, PortInv
<1>3. left \in Nat /\ fill_beat \in Nat /\ fill_last \in Nat
  BY DEF IInv, TypeOK
<1>4. CASE state = "S_BUSY"
  BY <1>1, <1>2, <1>3, <1>4 DEF IInv, CpuPortInv
<1>5. CASE state = "S_FILL"
  BY <1>1, <1>2, <1>3, <1>5 DEF IInv, CpuPortInv
<1>6. state = "S_BUSY" \/ state = "S_FILL"
  BY DEF IInv, TypeOK, WhereInv
<1>7. QED BY <1>4, <1>5, <1>6

\* The bridge's request goes from the wire to the arbiter, the port or a device, and is never
\* in two places nor in none while the bridge waits.
LEMMA WhereStep ==
    ASSUME IInv, Next
    PROVE  WhereInv'
<1> USE DEF WhereInv
<1>0. TypeOK /\ WhereInv /\ PortInv
  BY DEF IInv
<1>1. state # "S_IDLE" => access' = access
  BY DEF Next, IInv, StageInv, Cpu!Clock, Cpu!Issue, Cpu!Retire, Cpu!StageWaits
<1>2. CASE mem_request /\ (Bus!StartFill(access) \/ Bus!StartAccess(access))
  <2>1. state = "S_IDLE" /\ state' # "S_IDLE" /\ bus_req'
    BY <1>2 DEF Bus!StartFill, Bus!StartAccess
  <2>2. ~bus_req /\ ~cpu_wait /\ ~InPort /\ ~dev_busy
    BY <1>0, <2>1 DEF InDevice
  <2>3. ~cpu_wait' /\ ~InPort' /\ ~InDevice'
    BY <2>2, Whereabouts DEF CpuRamReq
  <2>4. QED BY <2>1, <2>3, Whereabouts
<1>3. CASE BusAck /\ (Bus!AccessAnswered \/ Bus!LastBeat)
  <2>1. ~InPort' /\ ~cpu_wait' /\ ~InDevice'
    BY <1>0, <1>3, Whereabouts, PortAckIsLast, AckMeansNotAsking
       DEF Bus!AccessAnswered, Bus!LastBeat, CpuRamReq, BusAck, CpuRamAck,
           Arb!CpuAck, InPort, InDevice, PortInv
  <2>2. state' = "S_IDLE" /\ ~bus_req'
    BY <1>3 DEF Bus!AccessAnswered, Bus!LastBeat
  <2>3. QED BY <2>1, <2>2, Whereabouts
<1>4. CASE BusAck /\ Bus!NextBeat(BusLast)
  <2>1. state' = state /\ state = "S_FILL" /\ (bus_req' <=> BusLast)
        /\ fill_beat # fill_last
    BY <1>4 DEF Bus!NextBeat
  <2>2. CASE InPort
    BY <1>0, <1>1, <1>4, <2>1, <2>2, Whereabouts, PortAckIsLast, AckMeansNotAsking
       DEF BusAck, CpuRamAck, Arb!CpuAck, InPort, InDevice, PortInv, CpuRamReq
  <2>3. CASE ~InPort
    BY <1>0, <1>1, <1>4, <2>1, <2>3, Whereabouts, AckMeansNotAsking
       DEF BusAck, BusLast, CpuRamAck, Arb!CpuAck, InPort, InDevice, PortInv,
           CpuRamReq
  <2>4. QED BY <2>2, <2>3
<1>5. CASE Bus!Quiet /\ ~(state # "S_IDLE" /\ BusAck)
  <2>1. state' = state /\ ~bus_req'
    BY <1>5 DEF Bus!Quiet
  <2>2. CASE state = "S_IDLE"
    <3>1. ~bus_req /\ ~cpu_wait /\ ~InPort /\ ~dev_busy
      BY <1>0, <2>2 DEF InDevice
    <3>2. ~cpu_wait' /\ ~InPort' /\ ~InDevice'
      BY <3>1, Whereabouts DEF CpuRamReq
    <3>3. QED BY <2>1, <2>2, <3>2, Whereabouts
  <2>3. CASE state # "S_IDLE"
    <3>1. ~BusAck /\ access' = access
      BY <1>1, <1>5, <2>3
    <3>2. ~(InPort /\ ram_ack) /\ ~dev_ack
      BY <3>1 DEF BusAck, CpuRamAck, Arb!CpuAck, InPort
    <3>3. InDevice <=> dev_busy
      BY <3>2 DEF InDevice
    <3>4. InPort => inflight
      BY DEF InPort
    <3>5. access.to = "ram" \/ access.to = "device"
      BY <1>0 DEF TypeOK
    <3>6. /\ cpu_wait' => access.to = "ram"
          /\ InPort' => access.to = "ram"
          /\ InDevice' => access.to = "device"
      BY <1>0, <3>3, Whereabouts DEF CpuRamReq
    <3>7. cpu_wait' \/ InPort' \/ InDevice'
      BY <1>0, <2>3, <3>2, <3>3, <3>5, Whereabouts DEF CpuRamReq
    <3>8. /\ cpu_wait' => ~InPort' /\ ~InDevice'
          /\ InPort' => ~InDevice'
      BY <1>0, <3>2, <3>3, <3>4, <3>6, Whereabouts DEF CpuRamReq
    <3>9. QED BY <2>1, <2>3, <3>1, <3>6, <3>7, <3>8, Whereabouts
  <2>4. QED BY <2>2, <2>3
<1>6. QED
  BY <1>2, <1>3, <1>4, <1>5 DEF Next, Bus!Clock

\* What the arbiter puts on the port is a well-formed request; a DMA grant is of one word.
LEMMA PayloadFacts ==
    ASSUME IInv
    PROVE  /\ RamPayload.who \in {"cpu", "scsi", "mc"}
           /\ RamPayload.id \in Ids /\ RamPayload.we \in BOOLEAN
           /\ RamPayload.beat \in 0..3 /\ RamPayload.words \in 1..4
           /\ Port!Acks(RamPayload) \in 1..4
           /\ DmaGrant => Port!Acks(RamPayload) = 1
<1>1. /\ access.id \in Ids /\ sdma.id \in Ids /\ mcd.id \in Ids
      /\ bus_we \in BOOLEAN /\ bus_beat \in 0..3 /\ bus_burst \in 1..4
  BY DEF IInv, TypeOK
<1>2. CASE DmaGrant
  <2>1. RamPayload = DmaPayload
    BY <1>2 DEF RamPayload
  <2>2. /\ DmaPayload.who \in {"scsi", "mc"} /\ DmaPayload.id \in Ids
        /\ DmaPayload.we = FALSE /\ DmaPayload.beat = 0
        /\ DmaPayload.words = 1
    BY <1>1 DEF DmaPayload
  <2>3. Port!Acks(RamPayload) = 1
    BY <2>1, <2>2 DEF Port!Acks
  <2>4. RamPayload.we \in BOOLEAN /\ RamPayload.who \in {"cpu", "scsi", "mc"}
    BY <2>1, <2>2
  <2>5. RamPayload.beat \in 0..3 /\ RamPayload.words \in 1..4
    BY <2>1, <2>2
  <2>6. RamPayload.id \in Ids
    BY <2>1, <2>2, Zenon
  <2>7. QED BY <2>3, <2>4, <2>5, <2>6
<1>3. CASE ~DmaGrant
  <2>1. RamPayload = CpuPayload
    BY <1>3 DEF RamPayload
  <2>2. /\ CpuPayload.who = "cpu" /\ CpuPayload.id = access.id
        /\ CpuPayload.we = bus_we /\ CpuPayload.beat = bus_beat
        /\ CpuPayload.words = bus_burst
    BY DEF CpuPayload
  <2>3. QED BY <1>1, <1>3, <2>1, <2>2 DEF Port!Acks
<1>4. QED BY <1>2, <1>3

(* What the arbiter's registers do, in terms of what it raises.            *)
LEMMA ArbStep ==
    ASSUME IInv, Next
    PROVE  /\ RamReq => ~inflight /\ inflight' /\ (owner_dma' <=> DmaGrant)
           /\ ~RamReq => /\ owner_dma' = owner_dma
                         /\ inflight' <=> inflight /\ ~(ram_ack /\ ram_last)
<1>1. Arb!Clock(CpuRamReq, DmaRamReq, ram_ack, ram_last) /\ TypeOK /\ PortInv
  BY DEF Next, IInv
<1>2. RamReq => ~inflight
  BY DEF RamReq, Arb!RamReq, Arb!CpuGo, Arb!DmaGo
<1>3. QED
  BY <1>1, <1>2 DEF Arb!Clock, RamReq, DmaGrant, TypeOK, PortInv

(* The port takes every request the arbiter raises: it is always free.     *)
LEMMA PortMoves ==
    ASSUME IInv, Next
    PROVE  /\ RamReq => \/ Port!Word(RamPayload, Port!Acks(RamPayload))
                        \/ Port!Wait(RamPayload, Port!Acks(RamPayload))
           /\ ~RamReq => Port!Word(cur, left) \/ Port!Wait(cur, left)
<1>1. Port!Clock(RamReq, RamPayload)
  BY DEF Next
<1>2. RamReq => ~Port!Refuses
  <2>1. RamReq => ~inflight
    BY ArbStep
  <2>2. QED BY <2>1 DEF Port!Refuses, IInv, PortInv, TypeOK
<1>3. QED
  BY <1>1, <1>2 DEF Port!Clock

(* A clock of the port for request r that is owed n words.                 *)
LEMMA PortClock ==
    ASSUME NEW r, NEW n \in 0..4, Port!Word(r, n) \/ Port!Wait(r, n)
    PROVE  /\ left' > 0 => cur' = r
           /\ \/ /\ n > 0 /\ ram_ack' /\ (ram_last' <=> n = 1) /\ left' = n - 1
                 /\ ram_rdata' = [who |-> r.who, id |-> r.id,
                                  word |-> r.beat + (Port!Acks(r) - n)]
              \/ ~ram_ack' /\ left' = n /\ ram_rdata' = Port!NoData
<1>1. CASE Port!Word(r, n)
  <2>1. /\ n > 0 /\ ram_ack' /\ (ram_last' <=> n = 1) /\ left' = n - 1
        /\ ram_rdata' = [who |-> r.who, id |-> r.id,
                         word |-> r.beat + (Port!Acks(r) - n)]
    BY <1>1 DEF Port!Word
  <2>2. cur' = IF n = 1 THEN NoRequest ELSE r
    BY <1>1 DEF Port!Word
  <2>3. left' > 0 => n # 1
    BY <2>1
  <2>4. QED BY <2>1, <2>2, <2>3
<1>2. CASE Port!Wait(r, n)
  BY <1>2 DEF Port!Wait
<1>3. QED BY <1>1, <1>2

(* The request the arbiter raises, or the one in the port, moves on.       *)
LEMMA PortAdvances ==
    ASSUME IInv, Next
    PROVE  \E r : \E n \in 0..4 :
             /\ RamReq => r = RamPayload /\ n = Port!Acks(RamPayload)
             /\ ~RamReq => r = cur /\ n = left
             /\ left' > 0 => cur' = r
             /\ \/ /\ n > 0 /\ ram_ack' /\ (ram_last' <=> n = 1) /\ left' = n - 1
                   /\ ram_rdata' = [who |-> r.who, id |-> r.id,
                                    word |-> r.beat + (Port!Acks(r) - n)]
                \/ ~ram_ack' /\ left' = n /\ ram_rdata' = Port!NoData
<1>1. CASE RamReq
  <2>1. Port!Acks(RamPayload) \in 0..4
    BY PayloadFacts
  <2>2. QED BY <1>1, <2>1, PortMoves, PortClock
<1>2. CASE ~RamReq
  <2>1. left \in 0..4
    BY DEF IInv, TypeOK
  <2>2. QED BY <1>2, <2>1, PortMoves, PortClock
<1>3. QED BY <1>1, <1>2

\* The arbiter's inflight and the port go on agreeing on what is in the port.
LEMMA PortStep ==
    ASSUME IInv, Next
    PROVE  PortInv'
<1>0. /\ PortInv /\ left \in 0..4 /\ inflight \in BOOLEAN
      /\ ram_ack \in BOOLEAN /\ ram_last \in BOOLEAN
  BY DEF IInv, TypeOK
<1>1. CASE RamReq
  <2> DEFINE r == RamPayload
             n == Port!Acks(RamPayload)
  <2>1. /\ r.who \in {"cpu", "scsi", "mc"} /\ r.id \in Ids
        /\ r.we \in BOOLEAN /\ r.beat \in 0..3 /\ r.words \in 1..4
        /\ n \in 1..4 /\ (DmaGrant => n = 1)
    BY PayloadFacts
  <2>2. inflight' /\ (owner_dma' <=> DmaGrant)
    BY <1>1, ArbStep
  <2>3. /\ left' > 0 => cur' = r
        /\ \/ ram_ack' /\ (ram_last' <=> n = 1) /\ left' = n - 1
           \/ ~ram_ack' /\ left' = n
    BY <1>1, PortAdvances
  <2>4. left' > 0 => Port!Acks(cur)' = n
    BY <2>3 DEF Port!Acks
  <2> HIDE DEF r, n
  <2>5. left' <= n
    BY <2>1, <2>3
  <2>6. /\ ram_ack' => (ram_last' <=> left' = 0)
        /\ left' > 0 \/ ram_ack'
        /\ left' > 0 /\ DmaGrant => left' = 1 /\ ~ram_ack'
    BY <2>1, <2>3
  <2>7. QED BY <2>1, <2>2, <2>3, <2>4, <2>5, <2>6 DEF PortInv
<1>2. CASE ~RamReq
  <2>1. owner_dma' = owner_dma
        /\ (inflight' <=> inflight /\ ~(ram_ack /\ ram_last))
    BY <1>2, ArbStep
  <2>2. /\ left' > 0 => cur' = cur
        /\ \/ left > 0 /\ ram_ack' /\ (ram_last' <=> left = 1)
              /\ left' = left - 1
           \/ ~ram_ack' /\ left' = left
    BY <1>2, PortAdvances
  <2>3. /\ left' > 0 => Port!Acks(cur)' = Port!Acks(cur)
        /\ left > 0 => Port!Acks(cur) \in 1..4
    BY <1>0, <2>2 DEF Port!Acks, PortInv
  <2>4. QED BY <1>0, <2>1, <2>2, <2>3 DEF PortInv
<1>3. QED BY <1>1, <1>2

(* A bridge that waits and is not answered does not move.                  *)
LEMMA BridgeWaits ==
    ASSUME IInv, Next, state # "S_IDLE"
    PROVE  /\ access' = access
           /\ ~BusAck => UNCHANGED <<state, bus_we, bus_beat, bus_burst,
                                     fill_beat, fill_last>>
<1>1. access' = access
  BY DEF Next, IInv, StageInv, Cpu!Clock, Cpu!Issue, Cpu!Retire, Cpu!StageWaits
<1>2. Bus!Clock(mem_request, access, BusAck, BusLast)
  BY DEF Next
<1>3. ~BusAck => Bus!Quiet
  BY <1>2 DEF Bus!Clock, Bus!StartFill, Bus!StartAccess
<1>4. QED BY <1>1, <1>3 DEF Bus!Quiet

\* What is in the port for the CPU goes on being the access and the word the bridge waits for.
LEMMA CpuPortStep ==
    ASSUME IInv, Next
    PROVE  CpuPortInv'
<1> SUFFICES ASSUME InPort'
             PROVE  CpuPortInv'
  BY DEF CpuPortInv
<1>0. /\ WhereInv /\ BusInv /\ CpuPortInv /\ PortInv
      /\ left \in 0..4 /\ bus_beat \in 0..3 /\ fill_beat \in 0..3
      /\ fill_last \in 0..3 /\ ram_ack \in BOOLEAN /\ bus_burst \in 1..4
      /\ state \in {"S_IDLE", "S_BUSY", "S_FILL"}
  BY DEF IInv, TypeOK
<1>1. CASE RamReq
  <2> DEFINE n == Port!Acks(RamPayload)
  <2>1. ~DmaGrant /\ RamPayload = CpuPayload
    BY <1>1, ArbStep DEF InPort, RamPayload
  <2>2. CpuRamReq \/ cpu_wait
    BY <1>1, <2>1 DEF RamReq, DmaGrant, Arb!RamReq, Arb!CpuGo
  <2>3. ~BusAck /\ state # "S_IDLE"
    BY <1>0, <2>2, AckMeansNotAsking DEF CpuRamReq, WhereInv
  <2>4. UNCHANGED <<access, state, bus_we, bus_beat, fill_beat, fill_last>>
    BY <2>3, BridgeWaits
  <2>5. /\ RamPayload.who = "cpu" /\ RamPayload.id = access.id
        /\ RamPayload.beat = bus_beat
        /\ n = IF bus_we THEN 1 ELSE bus_burst
    BY <2>1 DEF CpuPayload, Port!Acks
  <2>5a. n \in 1..4
    BY PayloadFacts
  <2>6. /\ left' > 0 => cur' = RamPayload
        /\ \/ ram_ack' /\ left' = n - 1
              /\ ram_rdata' = [who |-> RamPayload.who, id |-> RamPayload.id,
                               word |-> RamPayload.beat + (n - n)]
           \/ ~ram_ack' /\ left' = n
    BY <1>1, PortAdvances
  <2>7. /\ state = "S_BUSY" => n = 1
        /\ state = "S_FILL" => n = fill_last - fill_beat + 1
    BY <1>0, <2>2, <2>5 DEF BusInv, CpuRamReq
  <2>8. (left' > 0 => Port!Acks(cur)' = n) /\ n \in 1..4
    BY <2>5a, <2>6 DEF Port!Acks
  <2> HIDE DEF n
  <2>9. ram_ack' => ram_rdata' = [who |-> "cpu", id |-> access.id,
                                  word |-> bus_beat]
    <3>1. n - n = 0 /\ bus_beat + 0 = bus_beat
      BY <1>0, <2>8
    <3>2. QED BY <2>5, <2>6, <3>1
  <2>10. left' > 0 => cur'.beat + (n - left')
                        = bus_beat + (IF ram_ack' THEN 1 ELSE 0)
    BY <1>0, <2>5, <2>6, <2>8
  <2>11. left' + (IF ram_ack' THEN 1 ELSE 0) = n
    BY <2>6, <2>8
  <2>12. QED
    BY <2>4, <2>5, <2>6, <2>7, <2>8, <2>9, <2>10, <2>11 DEF CpuPortInv
<1>2. CASE ~RamReq
  <2>1. InPort /\ ~(ram_ack /\ ram_last)
    BY <1>2, ArbStep DEF InPort
  <2>2. /\ left' > 0 => cur' = cur
        /\ \/ /\ left > 0 /\ ram_ack' /\ left' = left - 1
              /\ ram_rdata' = [who |-> cur.who, id |-> cur.id,
                               word |-> cur.beat + (Port!Acks(cur) - left)]
           \/ ~ram_ack' /\ left' = left
    BY <1>2, PortAdvances
  <2>3. left' > 0 => Port!Acks(cur)' = Port!Acks(cur)
    BY <2>2 DEF Port!Acks
  <2>4. left > 0 => Port!Acks(cur) \in 1..4 /\ cur.beat \in 0..3
    BY <1>0 DEF Port!Acks, PortInv
  <2>5. state # "S_IDLE" /\ access' = access
    BY <1>0, <2>1, BridgeWaits DEF WhereInv
  <2>6. CASE ram_ack
    <3>1. state = "S_FILL" /\ fill_beat # fill_last /\ BusAck
      BY <1>0, <2>1, <2>5, <2>6, PortAckIsLast
         DEF BusAck, CpuRamAck, Arb!CpuAck, InPort
    <3>2. Bus!NextBeat(BusLast)
      BY <3>1 DEF Next, Bus!Clock, Bus!AccessAnswered, Bus!LastBeat,
                  Bus!StartFill, Bus!StartAccess
    <3>3. /\ bus_beat' = bus_beat + 1 /\ fill_beat' = fill_beat + 1
          /\ fill_last' = fill_last /\ state' = "S_FILL"
      <4>1. fill_beat <= fill_last
        BY <1>0, <3>1 DEF BusInv
      <4>2. (fill_beat + 1) % 4 = fill_beat + 1
        BY <1>0, <3>1, <4>1
      <4>3. QED BY <3>1, <3>2, <4>2 DEF Bus!NextBeat
    <3>4. left > 0
      BY <1>0, <2>1, <2>6 DEF PortInv
    <3>5. /\ cur.who = "cpu" /\ cur.id = access.id
          /\ cur.beat + (Port!Acks(cur) - left) = bus_beat + 1
          /\ left + 1 = fill_last - fill_beat + 1
      BY <1>0, <2>1, <2>6, <3>1, <3>4 DEF CpuPortInv
    <3>6. QED
      BY <1>0, <2>2, <2>3, <2>4, <2>5, <3>3, <3>4, <3>5 DEF CpuPortInv
  <2>7. CASE ~ram_ack
    <3>1. ~BusAck
      BY <1>0, <2>1, <2>7 DEF BusAck, CpuRamAck, Arb!CpuAck, WhereInv, InDevice
    <3>2. UNCHANGED <<access, state, bus_beat, fill_beat, fill_last>>
      BY <2>5, <3>1, BridgeWaits
    <3>3. left > 0
      BY <1>0, <2>1, <2>7 DEF PortInv, InPort
    <3>4. /\ cur.who = "cpu" /\ cur.id = access.id
          /\ cur.beat + (Port!Acks(cur) - left) = bus_beat
          /\ state = "S_BUSY" => left = 1
          /\ state = "S_FILL" => left = fill_last - fill_beat + 1
      BY <1>0, <2>1, <2>7, <3>3 DEF CpuPortInv
    <3>5. CASE ram_ack' /\ left' = left - 1
              /\ ram_rdata' = [who |-> cur.who, id |-> cur.id,
                               word |-> cur.beat + (Port!Acks(cur) - left)]
      <4>1. ram_rdata' = [who |-> "cpu", id |-> access.id, word |-> bus_beat]
        BY <3>4, <3>5
      <4>2. cur.beat + (Port!Acks(cur) - left') = bus_beat + 1
        BY <1>0, <2>4, <3>3, <3>4, <3>5
      <4>3. QED
        BY <1>0, <2>2, <2>3, <3>2, <3>4, <3>5, <4>1, <4>2 DEF CpuPortInv
    <3>6. CASE ~ram_ack' /\ left' = left
      BY <1>0, <2>2, <2>3, <3>2, <3>4, <3>6 DEF CpuPortInv
    <3>7. QED BY <2>2, <3>5, <3>6
  <2>8. QED BY <1>0, <2>6, <2>7
<1>3. QED BY <1>1, <1>2

(* Every step keeps every variable in its type.                            *)
LEMMA TypeOKStep ==
    ASSUME IInv, Next
    PROVE  TypeOK'
<1>0. TypeOK /\ PortInv /\ BusInv
  BY DEF IInv
<1>1. access' \in [rnw : BOOLEAN, words : 1..4, to : {"ram", "device"}, id : Ids]
  <2>1. CASE access' = access
    BY <1>0, <2>1 DEF TypeOK
  <2>2. CASE Cpu!Issue
    <3>1. PICK a \in Accesses :
             access' = [rnw |-> a.rnw, words |-> a.words, to |-> a.to,
                        id |-> (access.id + 1) % NumIds]
      BY <2>2 DEF Cpu!Issue
    <3>2. access.id \in Ids
      BY <1>0 DEF TypeOK
    <3>3. (access.id + 1) % NumIds \in Ids
      BY <3>2, NextId
    <3>4. a.rnw \in BOOLEAN /\ a.words \in 1..4 /\ a.to \in {"ram", "device"}
      BY AccessFacts
    <3>5. QED BY <3>1, <3>3, <3>4
  <2>3. QED
    BY <2>1, <2>2 DEF Next, Cpu!Clock, Cpu!Retire, Cpu!StageWaits
<1>2. /\ memstate' \in {"MEMSTATE_IDLE", "MEMSTATE_BUSY"}
      /\ mem_request' \in BOOLEAN
  BY <1>0 DEF TypeOK, Next, Cpu!Clock, Cpu!Issue, Cpu!Retire, Cpu!StageWaits
<1>3. ram_active' \in BOOLEAN
  <2>1. CASE Cpu!Issue
    BY <2>1 DEF Cpu!Issue
  <2>2. QED
    BY <1>0, <2>1 DEF TypeOK, Next, Cpu!Clock, Cpu!Retire, Cpu!StageWaits
<1>4. fill_active' \in BOOLEAN /\ window_beat' \in 0..3
  <2>1. Cpu!Window(fill_grant, FillReady)
    BY DEF Next, Cpu!Clock
  <2>2. fill_active \in BOOLEAN /\ window_beat \in 0..3
    BY <1>0 DEF TypeOK
  <2>3. window_beat' \in 0..3
    BY <2>1, <2>2 DEF Cpu!Window
  <2>4. fill_active' \in BOOLEAN
    BY <2>1, <2>2 DEF Cpu!Window
  <2>5. QED BY <2>3, <2>4
<1>5. ram_rdata' \in Data
  <2>0. Port!NoData \in Data
    BY IdsAssumption DEF Port!NoData, Data, Ids
  <2>1. \A n \in 0..4, m \in 0..4, b \in 0..3 :
           m <= n => b + (n - m) \in Nat
    OBVIOUS
  <2>2. CASE RamReq
    <3>1. \/ ram_rdata' = [who |-> RamPayload.who, id |-> RamPayload.id,
               word |-> RamPayload.beat + (Port!Acks(RamPayload)
                                           - Port!Acks(RamPayload))]
          \/ ram_rdata' = Port!NoData
      BY <2>2, PortAdvances
    <3>2. RamPayload.beat + (Port!Acks(RamPayload) - Port!Acks(RamPayload)) \in Nat
      BY PayloadFacts
    <3>3. QED BY <2>0, <3>1, <3>2, PayloadFacts DEF Data
  <2>3. CASE ~RamReq
    <3>1. \/ left > 0 /\ ram_rdata' = [who |-> cur.who, id |-> cur.id,
                            word |-> cur.beat + (Port!Acks(cur) - left)]
          \/ ram_rdata' = Port!NoData
      BY <2>3, PortAdvances
    <3>2. left > 0 => Port!Acks(cur) \in 0..4 /\ left <= Port!Acks(cur)
                      /\ cur.beat \in 0..3 /\ left \in 0..4
      BY <1>0 DEF PortInv, TypeOK, Port!Acks
    <3>3. left > 0 => cur.beat + (Port!Acks(cur) - left) \in Nat
      BY <2>1, <3>2
    <3>4. left > 0 => cur.who \in {"cpu", "scsi", "mc"} /\ cur.id \in Ids
      BY <1>0 DEF PortInv
    <3>5. QED BY <2>0, <3>1, <3>3, <3>4 DEF Data
  <2>4. QED BY <2>2, <2>3
<1>6. BusRdata \in Data
  <2>1. access.id \in Ids /\ bus_beat \in Nat /\ ram_rdata \in Data
    BY <1>0 DEF TypeOK
  <2>2. QED BY <2>1 DEF BusRdata, Data
<1>7. line' \in [0..3 -> Data]
  <2>1. \E a \in 0..3 : line' = line \/ line' = [line EXCEPT ![a] = BusRdata]
    <3>1. Cpu!CacheWrite(fill_grant, FillReady, BusRdata)
      BY DEF Next, Cpu!Clock
    <3>2. 0 \in 0..3 /\ window_beat \in 0..3
      BY <1>0 DEF TypeOK
    <3>3. QED BY <3>1, <3>2 DEF Cpu!CacheWrite
  <2>2. QED BY <1>0, <1>6, <2>1 DEF TypeOK
<1>8. /\ state' \in {"S_IDLE", "S_BUSY", "S_FILL"}
      /\ {bus_req', bus_we', fill_grant', mem_done'} \subseteq BOOLEAN
      /\ bus_beat' \in 0..3 /\ bus_burst' \in 1..4
      /\ fill_beat' \in 0..3 /\ fill_last' \in 0..3
  <2>0. /\ access.rnw \in BOOLEAN /\ access.words \in 1..4 /\ BusLast \in BOOLEAN
        /\ state \in {"S_IDLE", "S_BUSY", "S_FILL"} /\ bus_we \in BOOLEAN
        /\ bus_beat \in 0..3 /\ bus_burst \in 1..4
        /\ fill_beat \in 0..3 /\ fill_last \in 0..3
    BY <1>0 DEF TypeOK, BusLast
  <2>1. CASE Bus!StartFill(access)
    <3>1. access.words > 1
      BY <2>1 DEF Bus!StartFill, Bus!IsFill
    <3>2. /\ bus_beat' = 0 /\ bus_burst' = access.words
          /\ fill_beat' = 0 /\ fill_last' = access.words - 1
      BY <2>1 DEF Bus!StartFill
    <3>3. /\ bus_beat' \in 0..3 /\ bus_burst' \in 1..4
          /\ fill_beat' \in 0..3 /\ fill_last' \in 0..3
      BY <2>0, <3>1, <3>2
    <3>4. state' = "S_FILL" /\ {bus_req', bus_we', fill_grant', mem_done'} \subseteq BOOLEAN
      BY <2>1 DEF Bus!StartFill
    <3>5. QED BY <3>3, <3>4
  <2>2. CASE Bus!StartAccess(access)
    <3>1. /\ bus_beat' = 0 /\ bus_burst' = access.words
          /\ UNCHANGED <<fill_beat, fill_last>>
      BY <2>2 DEF Bus!StartAccess
    <3>2. /\ bus_beat' \in 0..3 /\ bus_burst' \in 1..4
          /\ fill_beat' \in 0..3 /\ fill_last' \in 0..3
      BY <2>0, <3>1
    <3>3. /\ state' = "S_BUSY"
          /\ {bus_req', bus_we', fill_grant', mem_done'} \subseteq BOOLEAN
      BY <2>2 DEF Bus!StartAccess
    <3>4. QED BY <3>2, <3>3
  <2>3. CASE Bus!AccessAnswered \/ Bus!LastBeat \/ Bus!Quiet
    BY <2>0, <2>3 DEF Bus!AccessAnswered, Bus!LastBeat, Bus!Quiet
  <2>4. CASE Bus!NextBeat(BusLast)
    <3>1. /\ fill_beat <= fill_last /\ fill_beat # fill_last
          /\ bus_beat = fill_beat
      BY <1>0, <2>4 DEF BusInv, Bus!NextBeat
    <3>2. (fill_beat + 1) % 4 \in 0..3 /\ bus_beat + 1 \in 0..3
          /\ fill_last - fill_beat \in 1..4
      BY <2>0, <3>1
    <3>3. QED BY <2>0, <2>4, <3>2 DEF Bus!NextBeat
  <2>5. QED BY <2>1, <2>2, <2>3, <2>4 DEF Next, Bus!Clock
<1>9. {inflight', owner_dma', cpu_wait'} \subseteq BOOLEAN
  <2>1. DmaGrant \in BOOLEAN /\ inflight' \in BOOLEAN /\ cpu_wait' \in BOOLEAN
    BY <1>0 DEF TypeOK, DmaGrant, Arb!DmaGo, Next, Arb!Clock, Arb!Remember
  <2>2. owner_dma' \in BOOLEAN
    BY <1>0, <2>1, ArbStep DEF TypeOK, Next, Arb!Clock, DmaGrant
  <2>3. QED BY <2>1, <2>2
<1>10. left' \in 0..4 /\ {ram_ack', ram_last'} \subseteq BOOLEAN
  <2>1. Port!Acks(RamPayload) \in 1..4
    BY PayloadFacts
  <2>2. left \in 0..4 /\ ram_ack \in BOOLEAN /\ ram_last \in BOOLEAN
    BY <1>0 DEF TypeOK
  <2>3. \/ left' = Port!Acks(RamPayload) - 1
        \/ left' = Port!Acks(RamPayload)
        \/ left > 0 /\ left' = left - 1
        \/ left' = left
    BY PortMoves DEF Port!Word, Port!Wait
  <2>3a. left' \in 0..4
    BY <2>1, <2>2, <2>3
  <2>4. ram_ack' \in BOOLEAN /\ ram_last' \in BOOLEAN
    BY PortMoves DEF Port!Word, Port!Wait
  <2>5. QED BY <2>3a, <2>4
<1>11. {dev_busy', dev_ack', dma_owner_mc', dma_miss_ack'} \subseteq BOOLEAN
  <2>1. dev_busy' \in BOOLEAN /\ dev_ack' \in BOOLEAN
    BY <1>0 DEF TypeOK, Next, DeviceClock
  <2>2. dma_owner_mc' \in BOOLEAN /\ dma_miss_ack' \in BOOLEAN
    BY <1>0 DEF TypeOK, Next, DmaMuxClock, DmaGrant, Arb!DmaGo, McOwns
  <2>3. QED BY <2>1, <2>2
<1>12. \A e, f : \A h \in BOOLEAN :
          e \in [req : BOOLEAN, hit : BOOLEAN, id : Ids] /\ f \in Ask(e, h)
          => f \in [req : BOOLEAN, hit : BOOLEAN, id : Ids]
  <2> SUFFICES ASSUME NEW e \in [req : BOOLEAN, hit : BOOLEAN, id : Ids],
                      NEW h \in BOOLEAN, NEW f \in Ask(e, h)
               PROVE  f \in [req : BOOLEAN, hit : BOOLEAN, id : Ids]
    OBVIOUS
  <2>1. PICK x \in BOOLEAN :
           f = [req |-> TRUE, hit |-> x, id |-> (e.id + 1) % NumIds]
    BY DEF Ask
  <2>2. e.id \in Ids
    OBVIOUS
  <2>3. QED BY <2>1, <2>2, NextId
<1>13. sdma' \in [req : BOOLEAN, hit : BOOLEAN, id : Ids]
  BY <1>0, <1>12, HolesAssumption DEF TypeOK, Next, ScsiClock
<1>14. mcd' \in [req : BOOLEAN, hit : BOOLEAN, id : Ids]
  BY <1>0, <1>12, HolesAssumption DEF TypeOK, Next, McClock
<1>15. {mem_request', ram_active', fill_active'} \subseteq BOOLEAN
  BY <1>2, <1>3, <1>4
<1>16. Data' = Data /\ Ids' = Ids
  BY DEF Data, Ids
<1>17. QED
  BY <1>1, <1>2, <1>4, <1>5, <1>7, <1>8, <1>9, <1>10, <1>11, <1>13, <1>14,
     <1>15, <1>16, Zenon DEF TypeOK

(* Reset leaves the memory path in the invariant.                          *)
LEMMA InitIInv == Init => IInv
<1> SUFFICES ASSUME Init PROVE IInv
  OBVIOUS
<1> USE DEF Init, Cpu!Init, Bus!Init, Arb!Init, Port!Init
<1>0. 0 \in Ids
  BY IdsAssumption DEF Ids
<1>1. TypeOK
  <2>1. NoData \in Data /\ Port!NoData = NoData
    BY <1>0 DEF NoData, Port!NoData, Data
  <2>2. line \in [0..3 -> Data] /\ ram_rdata \in Data
    BY <2>1
  <2>3. /\ access \in [rnw : BOOLEAN, words : 1..4, to : {"ram", "device"},
                       id : Ids]
        /\ sdma \in [req : BOOLEAN, hit : BOOLEAN, id : Ids]
        /\ mcd \in [req : BOOLEAN, hit : BOOLEAN, id : Ids]
    BY <1>0
  <2>4. /\ window_beat \in 0..3 /\ bus_beat \in 0..3 /\ bus_burst \in 1..4
        /\ fill_beat \in 0..3 /\ fill_last \in 0..3 /\ left \in 0..4
    OBVIOUS
  <2>5. /\ {mem_request, ram_active, fill_active} \subseteq BOOLEAN
        /\ {bus_req, bus_we, fill_grant, mem_done} \subseteq BOOLEAN
        /\ {inflight, owner_dma, cpu_wait} \subseteq BOOLEAN
        /\ {ram_ack, ram_last} \subseteq BOOLEAN
        /\ {dev_busy, dev_ack, dma_owner_mc, dma_miss_ack} \subseteq BOOLEAN
    OBVIOUS
  <2>6. /\ memstate \in {"MEMSTATE_IDLE", "MEMSTATE_BUSY"}
        /\ state \in {"S_IDLE", "S_BUSY", "S_FILL"}
    OBVIOUS
  <2>7. QED BY <2>2, <2>3, <2>4, <2>5, <2>6, Zenon DEF TypeOK
<1>2. StageInv /\ BusInv /\ WhereInv
  BY DEF StageInv, BusInv, WhereInv, InPort, InDevice
<1>3. PortInv /\ CpuPortInv
  BY DEF PortInv, CpuPortInv, InPort
<1>4. QED BY <1>1, <1>2, <1>3 DEF IInv

(* The invariant says nothing of what no variable shows.                   *)
LEMMA StutterIInv ==
    ASSUME IInv, UNCHANGED vars
    PROVE  IInv'
<1> USE DEF vars, Cpu!cpuVars, Bus!busVars, Arb!arbVars, Port!portVars,
            devVars, dmaVars
<1>1. TypeOK'
  BY DEF IInv, TypeOK, Data, Ids
<1>2. StageInv' /\ BusInv' /\ WhereInv'
  BY DEF IInv, StageInv, BusInv, WhereInv, InPort, InDevice
<1>3. PortInv' /\ CpuPortInv'
  BY DEF IInv, PortInv, CpuPortInv, InPort, Port!Acks, Ids
<1>4. QED BY <1>1, <1>2, <1>3 DEF IInv

(* The inductive invariant holds in every behaviour of the memory path.    *)
LEMMA Inductive == Spec => []IInv
<1>1. IInv /\ Next => IInv'
  BY StageStep, BusStep, WhereStep, PortStep, CpuPortStep, TypeOKStep DEF IInv
<1>2. IInv /\ UNCHANGED vars => IInv'
  BY StutterIInv
<1>3. IInv /\ [Next]_vars => IInv'
  BY <1>1, <1>2
<1>4. QED BY InitIInv, <1>3, PTL DEF Spec

-----------------------------------------------------------------------------

(* Every register of the path keeps its type: the beat counters never wrap *)
(* and no request asks for no words.                                       *)
THEOREM TypesHold == Spec => []TypeOK
<1>1. IInv => TypeOK
  BY DEF IInv
<1>2. QED BY Inductive, <1>1, PTL

(* ram_arb never raises a request into a port that would drop it.          *)
THEOREM NeverOverrun == Spec => []PortNeverOverrun
<1>1. IInv => PortNeverOverrun
  <2> SUFFICES ASSUME IInv, RamReq PROVE ~Port!Refuses
    BY DEF PortNeverOverrun
  <2>1. ~inflight
    BY DEF RamReq, Arb!RamReq, Arb!CpuGo, Arb!DmaGo
  <2>2. QED BY <2>1 DEF IInv, PortInv, TypeOK, Port!Refuses
<1>2. QED BY Inductive, <1>1, PTL

(* The invariant has the CPU given the word it asked for.                  *)
LEMMA CpuWord == IInv => CpuGetsItsWord
<1> SUFFICES ASSUME IInv, BusAck PROVE CpuGetsItsWord
  BY DEF CpuGetsItsWord
<1>1. /\ state # "S_IDLE" /\ WhereInv /\ BusInv /\ CpuPortInv
  BY AckMeansNotAsking DEF IInv
<1>2. state = "S_FILL" => bus_beat = fill_beat
  BY <1>1 DEF BusInv
<1>3. CpuRamAck => InPort /\ ram_ack
  BY DEF IInv, PortInv, CpuRamAck, Arb!CpuAck, InPort
<1>4. ~(CpuRamAck /\ dev_ack)
  BY <1>1, <1>3 DEF WhereInv, InDevice
<1>5. BusRdata = [who |-> "cpu", id |-> access.id, word |-> bus_beat]
  BY <1>1, <1>3 DEF BusRdata, CpuPortInv
<1>6. QED BY <1>1, <1>2, <1>4, <1>5 DEF CpuGetsItsWord

(* Whatever acknowledges the CPU carries the doubleword it waits for, for  *)
(* any mix of DMA traffic and any latency of memory and devices.           *)
THEOREM CpuAnswered == Spec => []CpuGetsItsWord
<1>1. QED BY Inductive, CpuWord, PTL

-----------------------------------------------------------------------------

(* The fill window and the bridge count the same beats, and what the cache *)
(* RAM holds of the line so far is right.                                  *)
Holds(n) ==
    \A i \in 0..3 :
        i < n => line[i] = [who |-> "cpu", id |-> access.id, word |-> i]

FillInv ==
    /\ memstate = "MEMSTATE_BUSY" => (ram_active <=> Bus!IsFill(access))
    /\ fill_grant => bus_req
    /\ state = "S_FILL" =>
          /\ ~fill_grant => fill_active /\ window_beat = fill_beat
          /\ fill_grant => fill_beat = 0
          /\ Holds(fill_beat)
    /\ mem_done /\ ram_active => Holds(access.words)

\* The words of a line fill land in the line in order, and the line the window shows is the
\* access's (cpu_datacache.vhd's fill_active_2x).
LEMMA FillStep ==
    ASSUME IInv, FillInv, Next
    PROVE  FillInv'
<1>0. /\ TypeOK /\ StageInv /\ BusInv /\ FillInv
      /\ fill_beat \in 0..3 /\ fill_last \in 0..3 /\ window_beat \in 0..3
      /\ line \in [0..3 -> Data] /\ access.words \in 1..4
  BY DEF IInv, TypeOK
<1>1. memstate' = "MEMSTATE_BUSY" => (ram_active' <=> Bus!IsFill(access)')
  <2>1. CASE Cpu!Issue
    <3>1. PICK a \in Accesses :
             /\ access' = [rnw |-> a.rnw, words |-> a.words, to |-> a.to,
                           id |-> (access.id + 1) % NumIds]
             /\ ram_active' = (a.rnw /\ a.words > 1)
      BY <2>1 DEF Cpu!Issue
    <3>2. access'.rnw = a.rnw /\ access'.words = a.words
      BY <3>1
    <3>3. QED BY <3>1, <3>2 DEF Bus!IsFill
  <2>2. CASE ~Cpu!Issue
    BY <1>0, <2>2 DEF Next, Cpu!Clock, Cpu!Retire, Cpu!StageWaits, FillInv, Bus!IsFill
  <2>3. QED BY <2>1, <2>2
<1>2. fill_grant' => bus_req'
  BY DEF Next, Bus!Clock, Bus!StartFill, Bus!StartAccess, Bus!AccessAnswered,
         Bus!LastBeat, Bus!NextBeat, Bus!Quiet
<1>3. state' = "S_FILL" => ~mem_done'
  BY <1>0 DEF Next, Bus!Clock, Bus!StartFill, Bus!StartAccess,
     Bus!AccessAnswered, Bus!LastBeat, Bus!NextBeat, Bus!Quiet, StageInv
\* While a fill runs, the stage waits and the window follows the beats.
<1>4. state = "S_FILL" => /\ memstate = "MEMSTATE_BUSY" /\ ram_active
                          /\ ~mem_request /\ ~mem_done
                          /\ access' = access /\ ram_active' = ram_active
  <2> SUFFICES ASSUME state = "S_FILL"
               PROVE  /\ memstate = "MEMSTATE_BUSY" /\ ram_active
                      /\ ~mem_request /\ ~mem_done
                      /\ access' = access /\ ram_active' = ram_active
    OBVIOUS
  <2>1. memstate = "MEMSTATE_BUSY" /\ ~mem_request /\ ~mem_done
    BY <1>0 DEF StageInv, TypeOK
  <2>2. ram_active
    BY <1>0, <2>1 DEF FillInv, BusInv, Bus!IsFill
  <2>3. access' = access /\ ram_active' = ram_active
    BY <2>1 DEF Next, Cpu!Clock, Cpu!Issue, Cpu!Retire, Cpu!StageWaits
  <2>4. QED BY <2>1, <2>2, <2>3
<1>5. FillReady <=> state = "S_FILL" /\ BusAck
  BY DEF FillReady, Bus!FillDataReady
<1>6. BusAck => ~bus_req /\ ~fill_grant /\ CpuGetsItsWord
  BY <1>0, AckMeansNotAsking, CpuWord DEF FillInv
<1>7. /\ Cpu!Window(fill_grant, FillReady)
      /\ Cpu!CacheWrite(fill_grant, FillReady, BusRdata)
  BY DEF Next, Cpu!Clock
<1>8. CASE Bus!StartFill(access)
  <2>1. state' = "S_FILL" /\ fill_grant' /\ fill_beat' = 0 /\ ~mem_done'
    BY <1>8 DEF Bus!StartFill
  <2>2. Holds(fill_beat)'
    BY <2>1 DEF Holds
  <2>3. QED BY <1>1, <1>2, <2>1, <2>2 DEF FillInv
<1>9. CASE Bus!StartAccess(access) \/ (BusAck /\ Bus!AccessAnswered)
  <2>1. state' # "S_FILL"
    BY <1>9 DEF Bus!StartAccess, Bus!AccessAnswered
  <2>2. mem_done' => ~ram_active'
    <3>1. CASE Bus!StartAccess(access)
      BY <3>1 DEF Bus!StartAccess
    <3>2. CASE BusAck /\ Bus!AccessAnswered
      <4>1. state = "S_BUSY" /\ memstate = "MEMSTATE_BUSY" /\ ~mem_done
        BY <1>0, <3>2 DEF Bus!AccessAnswered, StageInv, TypeOK
      <4>2. ~ram_active
        BY <1>0, <4>1 DEF FillInv, BusInv, Bus!IsFill, TypeOK
      <4>3. ram_active' = ram_active
        BY <4>1 DEF Next, Cpu!Clock, Cpu!Issue, Cpu!Retire, Cpu!StageWaits
      <4>4. QED BY <4>2, <4>3
    <3>3. QED BY <1>9, <3>1, <3>2
  <2>3. QED BY <1>1, <1>2, <2>1, <2>2 DEF FillInv
<1>10. CASE state = "S_FILL" /\ BusAck
  <2>1. /\ fill_active /\ window_beat = fill_beat /\ Holds(fill_beat)
        /\ ~fill_grant /\ ram_active /\ FillReady
    BY <1>0, <1>4, <1>5, <1>6, <1>10 DEF FillInv
  <2>2. BusRdata = [who |-> "cpu", id |-> access.id, word |-> fill_beat]
    BY <1>6, <1>10 DEF CpuGetsItsWord
  <2>3. line' = [line EXCEPT ![fill_beat] = BusRdata]
    BY <1>7, <2>1 DEF Cpu!CacheWrite
  <2>4. \A i \in 0..3 :
           i < fill_beat + 1 =>
              line'[i] = [who |-> "cpu", id |-> access.id, word |-> i]
    BY <1>0, <2>1, <2>2, <2>3 DEF Holds
  <2>5. access' = access /\ fill_beat <= fill_last
        /\ fill_last = access.words - 1
    BY <1>0, <1>4, <1>10 DEF BusInv
  <2>6. CASE Bus!LastBeat
    <3>1. fill_beat + 1 = access.words /\ state' # "S_FILL"
      BY <1>0, <2>5, <2>6 DEF Bus!LastBeat
    <3>2. Holds(access.words)'
      BY <2>4, <2>5, <3>1 DEF Holds
    <3>3. QED BY <1>1, <1>2, <3>1, <3>2 DEF FillInv
  <2>7. CASE Bus!NextBeat(BusLast)
    <3>1. fill_beat # 3 /\ fill_beat' = fill_beat + 1
      <4>1. fill_beat # fill_last /\ fill_beat' = (fill_beat + 1) % 4
        BY <2>7 DEF Bus!NextBeat
      <4>2. fill_beat # 3
        BY <1>0, <2>5, <4>1
      <4>3. QED BY <1>0, <4>1, <4>2
    <3>2. fill_active' /\ window_beat' = fill_beat + 1
      BY <1>0, <1>7, <2>1, <3>1 DEF Cpu!Window
    <3>3. Holds(fill_beat)'
      BY <2>4, <2>5, <3>1 DEF Holds
    <3>4. ~fill_grant' /\ ~mem_done'
      BY <2>7 DEF Bus!NextBeat
    <3>5. QED BY <1>1, <1>2, <3>1, <3>2, <3>3, <3>4 DEF FillInv
  <2>8. QED
    BY <1>4, <1>10, <2>6, <2>7 DEF Next, Bus!Clock, Bus!AccessAnswered
<1>11. CASE Bus!Quiet /\ ~(state # "S_IDLE" /\ BusAck)
  <2>1. state' = state /\ fill_beat' = fill_beat /\ ~fill_grant' /\ ~mem_done'
    BY <1>11 DEF Bus!Quiet
  <2>2. CASE state = "S_FILL"
    <3>1. ram_active /\ ~FillReady /\ access' = access
      BY <1>4, <1>5, <1>11, <2>2
    <3>2. line' = line
      BY <1>7, <3>1 DEF Cpu!CacheWrite
    <3>3. fill_active' /\ window_beat' = fill_beat
      BY <1>0, <1>7, <2>2, <3>1 DEF Cpu!Window, FillInv
    <3>4. Holds(fill_beat)'
      BY <1>0, <2>1, <2>2, <3>1, <3>2 DEF Holds, FillInv
    <3>5. QED BY <1>1, <1>2, <2>1, <3>3, <3>4 DEF FillInv
  <2>3. CASE state # "S_FILL"
    BY <1>1, <1>2, <2>1, <2>3 DEF FillInv
  <2>4. QED BY <2>2, <2>3
<1>12. QED
  BY <1>8, <1>9, <1>10, <1>11, AckMeansNotAsking
     DEF Next, Bus!Clock, Bus!LastBeat, Bus!NextBeat

(* When mem_done ends a fill, the cache RAM holds the whole line, each     *)
(* doubleword in its place.                                                *)
THEOREM FillsAreComplete == Spec => []FillComplete
<1>1. Init => FillInv
  BY DEF Init, Cpu!Init, Bus!Init, FillInv
<1>2. IInv /\ FillInv /\ [Next]_vars => FillInv'
  <2>1. IInv /\ FillInv /\ UNCHANGED vars => FillInv'
    BY DEF FillInv, Holds, Bus!IsFill, vars, Cpu!cpuVars, Bus!busVars
  <2>2. QED BY <2>1, FillStep
<1>3. IInv /\ FillInv => FillComplete
  BY DEF IInv, TypeOK, FillInv, Holds, FillComplete
<1>4. QED BY Inductive, <1>1, <1>2, <1>3, PTL DEF Spec

-----------------------------------------------------------------------------

(* While the MC's engine is not aimed at a hole, the port's transaction is *)
(* the owner's current request, which the owner still waits for, and the   *)
(* registered zeros are for the SCSI channel's.                            *)
Owes(engine, who) ==
    /\ engine.req /\ engine.hit
    /\ left > 0 => cur = [who |-> who, id |-> engine.id, we |-> FALSE,
                          beat |-> 0, words |-> 1]
    /\ ram_ack => ram_rdata = [who |-> who, id |-> engine.id, word |-> 0]

EngineInv ==
    /\ mcd.hit
    /\ dma_miss_ack => sdma.req /\ ~sdma.hit
    /\ inflight /\ owner_dma /\ ~dma_owner_mc => Owes(sdma, "scsi")
    /\ inflight /\ owner_dma /\ dma_owner_mc  => Owes(mcd, "mc")

\* Who is acknowledged, and by what: the port's last owner, or the SCSI channel by the zeros.
LEMMA EngineAcks ==
    ASSUME IInv, EngineInv
    PROVE  /\ SdmaAck <=> dma_miss_ack \/ (ram_ack /\ owner_dma /\ ~dma_owner_mc)
           /\ McdAck <=> ~dma_miss_ack /\ ram_ack /\ owner_dma /\ dma_owner_mc
           /\ CpuRamAck <=> ram_ack /\ ~owner_dma
           /\ ram_ack => inflight
<1>1. dma_miss_ack => ~McOwns
  BY DEF EngineInv, McOwns
<1>2. QED
  BY <1>1 DEF SdmaAck, McdAck, DmaAckAny, DmaAckMc, DmaPortAck, Arb!DmaAck,
              CpuRamAck, Arb!CpuAck, IInv, TypeOK, PortInv

\* What is in the port or registered for an engine goes on being the engine's own request,
\* if the MC's engine is not aimed at a hole.
LEMMA EngineStep ==
    ASSUME ~McHoles, IInv, EngineInv, Next
    PROVE  EngineInv'
<1>0. TypeOK /\ PortInv /\ EngineInv
  BY DEF IInv
<1>1. \A e : \A f \in Ask(e, FALSE) : f.hit /\ f.req
  BY DEF Ask
<1>2. McHoles = FALSE
  BY HolesAssumption
<1>3. mcd'.hit
  BY <1>0, <1>1, <1>2 DEF Next, McClock, TypeOK, EngineInv
\* An engine that is not answered keeps its request.
<1>4. /\ sdma.req /\ ~SdmaAck => sdma' = sdma
      /\ mcd.req /\ ~McdAck => mcd' = mcd
  BY DEF Next, ScsiClock, McClock
<1>5. dma_miss_ack' => sdma'.req /\ ~sdma'.hit
  <2> SUFFICES ASSUME dma_miss_ack'
               PROVE  sdma'.req /\ ~sdma'.hit
    OBVIOUS
  <2>1. ~dma_miss_ack /\ DmaReq /\ ~DmaHit
    BY <1>0 DEF Next, DmaMuxClock, TypeOK
  <2>2. sdma.req /\ ~sdma.hit
    BY <1>0, <2>1 DEF DmaReq, DmaHit, McOwns, EngineInv
  <2>3. ~SdmaAck
    BY <1>0, <2>1, <2>2, EngineAcks DEF EngineInv, Owes
  <2>4. QED BY <1>4, <2>2, <2>3
<1>6. inflight /\ owner_dma /\ ~dma_owner_mc => ~dma_miss_ack
  BY <1>0 DEF EngineInv, Owes
<1>8. dma_owner_mc' = IF RamReq THEN DmaGrant /\ McOwns ELSE dma_owner_mc
  BY DEF Next, DmaMuxClock
<1>9. CASE RamReq /\ DmaGrant
  <2>1. /\ inflight' /\ owner_dma' /\ (dma_owner_mc' <=> McOwns) /\ ~inflight
    BY <1>8, <1>9, ArbStep
  <2>2. ~ram_ack /\ ~McdAck
    BY <1>0, <2>1, EngineAcks
  <2>3. DmaReq /\ DmaHit
    BY <1>9 DEF DmaGrant, Arb!DmaGo, DmaRamReq
  <2>4. Port!Acks(RamPayload) = 1 /\ RamPayload = DmaPayload
    BY <1>9, PayloadFacts DEF RamPayload
  <2>5. /\ left' > 0 => cur' = DmaPayload
        /\ ram_ack' => ram_rdata' = [who |-> DmaPayload.who, id |-> DmaPayload.id,
                                     word |-> DmaPayload.beat + (1 - 1)]
    BY <1>9, <2>4, PortAdvances
  <2>6. CASE McOwns
    <3>1. mcd.req /\ mcd' = mcd
      BY <1>4, <2>2, <2>6 DEF McOwns
    <3>2. DmaPayload = [who |-> "mc", id |-> mcd.id, we |-> FALSE,
                        beat |-> 0, words |-> 1]
      BY <2>6 DEF DmaPayload
    <3>3. ram_ack' => ram_rdata' = [who |-> "mc", id |-> mcd.id, word |-> 0]
      BY <2>5, <3>2
    <3>4. QED BY <1>3, <1>5, <2>1, <2>5, <2>6, <3>1, <3>2, <3>3 DEF EngineInv, Owes
  <2>7. CASE ~McOwns
    <3>1. sdma.req /\ sdma.hit
      BY <2>3, <2>7 DEF McOwns, DmaReq, DmaHit
    <3>5. sdma' = sdma
      BY <1>0, <1>4, <2>2, <3>1, EngineAcks DEF EngineInv
    <3>2. DmaPayload = [who |-> "scsi", id |-> sdma.id, we |-> FALSE,
                        beat |-> 0, words |-> 1]
      BY <2>7 DEF DmaPayload
    <3>3. ram_ack' => ram_rdata' = [who |-> "scsi", id |-> sdma.id, word |-> 0]
      BY <2>5, <3>2
    <3>4. QED BY <1>3, <1>5, <2>1, <2>5, <2>7, <3>1, <3>2, <3>3, <3>5 DEF EngineInv, Owes
  <2>8. QED BY <2>6, <2>7
<1>10. CASE RamReq /\ ~DmaGrant
  BY <1>3, <1>5, <1>10, ArbStep DEF EngineInv
<1>11. CASE ~RamReq
  <2>1. owner_dma' = owner_dma /\ dma_owner_mc' = dma_owner_mc
        /\ (inflight' <=> inflight /\ ~(ram_ack /\ ram_last))
    BY <1>8, <1>11, ArbStep
  <2>2. CASE inflight' /\ owner_dma
    <3>1. inflight /\ ~ram_ack /\ left > 0
      BY <1>0, <2>1, <2>2 DEF PortInv, TypeOK
    <3>2. ~McdAck /\ (~dma_owner_mc => ~SdmaAck)
      BY <1>0, <1>6, <2>2, <3>1, EngineAcks
    <3>3. (left' > 0 => cur' = cur) /\ left = 1
          /\ (ram_ack' => ram_rdata' = [who |-> cur.who, id |-> cur.id,
                               word |-> cur.beat + (Port!Acks(cur) - left)])
      BY <1>0, <1>11, <2>2, <3>1, PortAdvances DEF PortInv
    <3>4. ASSUME NEW e, NEW who, Owes(e, who)
          PROVE  (left' > 0 => cur' = [who |-> who, id |-> e.id, we |-> FALSE,
                                       beat |-> 0, words |-> 1])
                 /\ (ram_ack' => ram_rdata' = [who |-> who, id |-> e.id, word |-> 0])
                 /\ e.req /\ e.hit
      <4>1. cur = [who |-> who, id |-> e.id, we |-> FALSE, beat |-> 0, words |-> 1]
            /\ e.req /\ e.hit
        BY <3>1, <3>4 DEF Owes
      <4>2. cur.who = who /\ cur.id = e.id /\ cur.beat + (Port!Acks(cur) - left) = 0
        BY <3>3, <4>1 DEF Port!Acks
      <4>3. QED BY <3>3, <4>1, <4>2
    <3>5. CASE dma_owner_mc
      <4>1. Owes(mcd, "mc")
        BY <1>0, <2>2, <3>1, <3>5 DEF EngineInv
      <4>2. mcd' = mcd
        BY <1>4, <3>2, <4>1 DEF Owes
      <4>3. QED BY <1>3, <1>5, <2>1, <3>4, <3>5, <4>1, <4>2 DEF EngineInv, Owes
    <3>6. CASE ~dma_owner_mc
      <4>1. Owes(sdma, "scsi")
        BY <1>0, <2>2, <3>1, <3>6 DEF EngineInv
      <4>2. sdma' = sdma
        BY <1>4, <3>2, <3>6, <4>1 DEF Owes
      <4>3. QED BY <1>3, <1>5, <2>1, <3>4, <3>6, <4>1, <4>2 DEF EngineInv, Owes
    <3>7. QED BY <3>5, <3>6
  <2>3. CASE ~(inflight' /\ owner_dma)
    BY <1>3, <1>5, <2>1, <2>3 DEF EngineInv
  <2>4. QED BY <2>2, <2>3
<1>12. QED BY <1>9, <1>10, <1>11

\* The engines' invariant is one of the specification, if the MC's engine is aimed at no hole.
LEMMA EnginesInvariant == ~McHoles => (Spec => []EngineInv)
<1> SUFFICES ASSUME ~McHoles
             PROVE  Spec => []EngineInv
  OBVIOUS
<1>1. Init => EngineInv
  BY DEF Init, Arb!Init, EngineInv
<1>2. IInv /\ EngineInv /\ [Next]_vars => EngineInv'
  <2>1. IInv /\ EngineInv /\ UNCHANGED vars => EngineInv'
    BY DEF EngineInv, Owes, vars, Arb!arbVars, Port!portVars, dmaVars
  <2>2. QED BY <2>1, EngineStep
<1>3. QED BY Inductive, <1>1, <1>2, PTL DEF Spec

(* As long as the MC's engine is aimed at memory that is there - the SCSI  *)
(* channel may name holes - an engine is acknowledged only while it asks   *)
(* and with its own answer, and every word the memory answers with reaches *)
(* the master it was read for, or is dropped and asked for again.          *)
THEOREM EnginesAnswered ==
    ~McHoles => (Spec => [](EngineGetsItsAnswer /\ AnswerReachesItsMaster))
<1> SUFFICES ASSUME ~McHoles
             PROVE  Spec => [](EngineGetsItsAnswer /\ AnswerReachesItsMaster)
  OBVIOUS
<1>3. IInv /\ EngineInv => EngineGetsItsAnswer /\ AnswerReachesItsMaster
  <2> SUFFICES ASSUME IInv, EngineInv
               PROVE  EngineGetsItsAnswer /\ AnswerReachesItsMaster
    OBVIOUS
  <2>1. /\ SdmaAck <=> dma_miss_ack \/ (ram_ack /\ owner_dma /\ ~dma_owner_mc)
        /\ McdAck <=> ~dma_miss_ack /\ ram_ack /\ owner_dma /\ dma_owner_mc
        /\ CpuRamAck <=> ram_ack /\ ~owner_dma
        /\ ram_ack => inflight
    BY EngineAcks
  <2>2. DmaRdata = IF dma_miss_ack THEN Zeros ELSE ram_rdata
    BY DEF DmaRdata
  <2>3. EngineGetsItsAnswer
    BY <2>1, <2>2 DEF EngineGetsItsAnswer, EngineInv, Owes
  <2>4. /\ CpuRamAck => ram_rdata.who = "cpu"
        /\ ram_ack /\ owner_dma /\ ~dma_owner_mc => ram_rdata.who = "scsi"
        /\ ram_ack /\ owner_dma /\ dma_owner_mc => ram_rdata.who = "mc"
    BY <2>1 DEF EngineInv, Owes, IInv, CpuPortInv, InPort
  <2>5. owner_dma \in BOOLEAN /\ dma_owner_mc \in BOOLEAN
    BY DEF IInv, TypeOK
  <2>6. AnswerReachesItsMaster
    BY <2>1, <2>4, <2>5 DEF AnswerReachesItsMaster
  <2>7. QED BY <2>3, <2>6
<1>4. QED BY Inductive, EnginesInvariant, <1>3, PTL

-----------------------------------------------------------------------------
(* The memory path implements MemoryService.                               *)

Masters == {"cpu", "scsi", "mc"}

(* The refinement mapping.                                                 *)
Owed == [m \in Masters |-> IF m = "cpu" THEN CpuOwed
                           ELSE EngineOwed(IF m = "scsi" THEN sdma ELSE mcd)]
Holder == IF ~inflight THEN "none"
          ELSE IF ~owner_dma THEN "cpu"
          ELSE IF dma_owner_mc THEN "mc" ELSE "scsi"

(* A master's debt r becomes s: it is answered a word, or it asks.         *)
Pays(r, s, held) ==
    /\ r.words > 0 /\ (r.from = "ram" => held)
    /\ s = Service!LessOne(r) \/ (r.words = 1 /\ s \in Service!Requests)
Borrows(r, s) == r.words = 0 /\ s \in Service!Requests

\* The service's own words for the mapping and for its steps.
LEMMA Mapping ==
    /\ \A m \in Masters :
          /\ Service!Answered(m) <=> Pays(Owed[m], Owed'[m], Holder = m)
          /\ Service!Asks(m) <=> Borrows(Owed[m], Owed'[m])
    /\ Owed["cpu"] = CpuOwed /\ Owed["scsi"] = EngineOwed(sdma) /\ Owed["mc"] = EngineOwed(mcd)
<1>1. /\ Owed["cpu"] = CpuOwed /\ Owed["scsi"] = EngineOwed(sdma)
      /\ Owed["mc"] = EngineOwed(mcd)
  BY DEF Owed, Masters
<1>2. ASSUME NEW m \in Masters
      PROVE  /\ Service!Answered(m) <=> Pays(Owed[m], Owed'[m], Holder = m)
             /\ Service!Asks(m) <=> Borrows(Owed[m], Owed'[m])
  BY Zenon DEF Service!Answered, Service!MayBeAnswered, Service!Asks, Pays, Borrows, Owed, Holder, Masters
<1>3. QED BY <1>1, <1>2

-----------------------------------------------------------------------------

\* The CPU: the bridge's count of words goes down by one with each answer, from memory only while
\* memory is its own, and comes back only when it is nothing.
LEMMA CpuMoves ==
    ASSUME IInv, Next
    PROVE  /\ BusAck => /\ Pays(CpuOwed, CpuOwed', Holder = "cpu")
                        /\ CpuOwed' = Service!LessOne(CpuOwed)
           /\ ~BusAck => CpuOwed' = CpuOwed \/ Borrows(CpuOwed, CpuOwed')
<1> USE DEF IInv, TypeOK, StageInv, BusInv
<1>1. state # "S_IDLE" \/ mem_request => access' = access
  BY DEF Next, Cpu!Clock, Cpu!Issue, Cpu!Retire, Cpu!StageWaits
<1>2. BusAck => /\ state # "S_IDLE"
                /\ access.to = "ram" => Holder = "cpu"
  <2>1. CASE dev_ack
    BY <2>1, AckMeansNotAsking DEF BusAck, WhereInv, InDevice
  <2>2. CASE CpuRamAck
    BY <2>2, AckMeansNotAsking DEF BusAck, CpuRamAck, Arb!CpuAck, PortInv, Holder
  <2>3. QED BY <2>1, <2>2 DEF BusAck
<1>3. CASE mem_request /\ (Bus!StartFill(access) \/ Bus!StartAccess(access))
  <2>1. ~BusAck /\ CpuOwed.words = 0
    BY <1>2, <1>3 DEF CpuOwed, Bus!StartFill, Bus!StartAccess
  <2>2. CpuOwed'.words \in 1..4 /\ CpuOwed' \in Service!Requests
    BY <1>1, <1>3 DEF CpuOwed, Bus!StartFill, Bus!StartAccess, Service!Requests
  <2>3. QED BY <2>1, <2>2 DEF Borrows
<1>4. CASE BusAck /\ (Bus!AccessAnswered \/ Bus!LastBeat)
  <2>1. CpuOwed = [words |-> 1, from |-> access.to]
    BY <1>4 DEF CpuOwed, Bus!AccessAnswered, Bus!LastBeat
  <2>2. CpuOwed' = Service!Nothing
    BY <1>4 DEF CpuOwed, Bus!AccessAnswered, Bus!LastBeat, Service!Nothing
  <2>3. QED BY <1>2, <1>4, <2>1, <2>2 DEF Pays, Service!LessOne
<1>5. CASE BusAck /\ Bus!NextBeat(BusLast)
  <2>1. /\ state = "S_FILL" /\ state' = "S_FILL" /\ fill_last' = fill_last
        /\ fill_beat' = fill_beat + 1 /\ fill_beat < fill_last
    BY <1>5 DEF Bus!NextBeat
  <2>2. CpuOwed = [words |-> fill_last - fill_beat + 1, from |-> access.to]
    BY <2>1 DEF CpuOwed
  <2>3. CpuOwed' = [words |-> fill_last - fill_beat, from |-> access.to]
    BY <1>1, <2>1 DEF CpuOwed
  <2>4. CpuOwed.words > 1 /\ CpuOwed' = Service!LessOne(CpuOwed)
    BY <2>1, <2>2, <2>3 DEF Service!LessOne
  <2>5. QED BY <1>2, <1>5, <2>2, <2>4 DEF Pays
<1>6. CASE ~BusAck /\ Bus!Quiet
  BY <1>1, <1>6 DEF Bus!Quiet, CpuOwed
<1>7. CASE BusAck /\ Bus!Quiet
       /\ ~(state = "S_IDLE" /\ mem_request) /\ ~(state # "S_IDLE" /\ BusAck)
  BY <1>2, <1>7
<1>8. QED
  BY <1>3, <1>4, <1>5, <1>6, <1>7 DEF Next, Bus!Clock

-----------------------------------------------------------------------------

\* An engine's debt is one word, of memory or - for an address in no bank - of the answer the mux
\* itself gives.
LEMMA EngineDebts ==
    ASSUME TypeOK
    PROVE  /\ sdma.req => EngineOwed(sdma) \in Service!Requests /\ EngineOwed(sdma).words = 1
           /\ mcd.req => EngineOwed(mcd) \in Service!Requests /\ EngineOwed(mcd).words = 1
           /\ ~sdma.req => EngineOwed(sdma) = Service!Nothing
           /\ ~mcd.req => EngineOwed(mcd) = Service!Nothing
  BY DEF EngineOwed, Service!Requests, Service!Nothing, TypeOK

\* An engine that asks has its line up.
LEMMA Requesting ==
    \A e : (\A f \in Ask(e, TRUE) : f.req) /\ (\A f \in Ask(e, FALSE) : f.req)
  BY DEF Ask

\* The SCSI channel: it is answered while it asks, by memory only while memory is its own.
LEMMA ScsiMoves ==
    ASSUME IInv, IInv', EngineInv, Next
    PROVE  /\ SdmaAck => Pays(EngineOwed(sdma), EngineOwed(sdma)', Holder = "scsi")
           /\ ~SdmaAck => \/ EngineOwed(sdma)' = EngineOwed(sdma)
                          \/ Borrows(EngineOwed(sdma), EngineOwed(sdma)')
<1>0. TypeOK /\ TypeOK' /\ ScsiClock
  BY DEF IInv, Next
<1>1. \A f \in Ask(sdma, ScsiHoles) : f.req
  BY Requesting, HolesAssumption
<1>2. CASE SdmaAck
  <2>1. sdma.req /\ (sdma.hit => Holder = "scsi")
    BY <1>0, <1>2, EngineAcks DEF EngineInv, Owes, Holder, TypeOK
  <2>2. ~sdma'.req
    BY <1>0, <1>2, <2>1 DEF ScsiClock, TypeOK
  <2>3. EngineOwed(sdma)' = Service!LessOne(EngineOwed(sdma))
    BY <1>0, <2>1, <2>2, EngineDebts DEF Service!LessOne, EngineOwed, Service!Nothing, TypeOK
  <2>4. EngineOwed(sdma).words = 1 /\ (EngineOwed(sdma).from = "ram" => sdma.hit)
    BY <2>1 DEF EngineOwed
  <2>5. QED BY <1>2, <2>1, <2>3, <2>4 DEF Pays
<1>3. CASE ~SdmaAck
  <2>1. CASE sdma' = sdma
    BY <1>3, <2>1 DEF EngineOwed
  <2>2. CASE ~sdma.req /\ sdma'.req
    <3>1. EngineOwed(sdma).words = 0 /\ EngineOwed(sdma)' \in Service!Requests
      BY <1>0, <2>2 DEF EngineOwed, Service!Requests, TypeOK
    <3>2. QED BY <1>3, <3>1 DEF Borrows
  <2>3. QED BY <1>0, <1>1, <1>3, <2>1, <2>2 DEF ScsiClock
<1>4. QED BY <1>2, <1>3

\* The MC's engine likewise; it may go on to its next word with the answer.
LEMMA McMoves ==
    ASSUME IInv, IInv', EngineInv, Next
    PROVE  /\ McdAck => Pays(EngineOwed(mcd), EngineOwed(mcd)', Holder = "mc")
           /\ ~McdAck => \/ EngineOwed(mcd)' = EngineOwed(mcd)
                         \/ Borrows(EngineOwed(mcd), EngineOwed(mcd)')
<1>0. TypeOK /\ TypeOK' /\ McClock
  BY DEF IInv, Next
<1>1. \A f \in Ask(mcd, McHoles) : f.req
  BY Requesting, HolesAssumption
<1>2. CASE McdAck
  <2>1. mcd.req /\ Holder = "mc"
    BY <1>0, <1>2, EngineAcks DEF EngineInv, Owes, Holder, TypeOK
  <2>2. EngineOwed(mcd)' \in Service!Requests
        \/ EngineOwed(mcd)' = Service!LessOne(EngineOwed(mcd))
    <3>1. CASE mcd'.req
      BY <1>0, <3>1 DEF EngineOwed, Service!Requests, TypeOK
    <3>2. CASE ~mcd'.req
      BY <2>1, <3>2 DEF EngineOwed, Service!LessOne, Service!Nothing
    <3>3. QED BY <3>1, <3>2
  <2>3. EngineOwed(mcd).words = 1
    BY <2>1 DEF EngineOwed
  <2>4. QED BY <1>2, <2>1, <2>2, <2>3 DEF Pays
<1>3. CASE ~McdAck
  <2>1. CASE mcd' = mcd
    BY <1>3, <2>1 DEF EngineOwed
  <2>2. CASE ~mcd.req /\ mcd'.req
    <3>1. EngineOwed(mcd).words = 0 /\ EngineOwed(mcd)' \in Service!Requests
      BY <1>0, <2>2 DEF EngineOwed, Service!Requests, TypeOK
    <3>2. QED BY <1>3, <3>1 DEF Borrows
  <2>3. QED BY <1>0, <1>1, <1>3, <2>1, <2>2 DEF McClock
<1>4. QED BY <1>2, <1>3

-----------------------------------------------------------------------------

\* The holder: main memory is granted to a master that waits for it, stays with it, and is
\* released with its last word.
LEMMA HolderMoves ==
    ASSUME IInv, IInv', EngineInv, EngineInv', Next
    PROVE  /\ \/ /\ Holder = "none"
                 /\ Holder' \in {m \in Masters : Owed[m].words > 0 /\ Owed[m].from = "ram"}
              \/ /\ Holder \in Masters /\ Owed[Holder].words = 1
                 /\ Pays(Owed[Holder], Owed'[Holder], TRUE) /\ Holder' = "none"
              \/ Holder' = Holder
           /\ Holder' # "none" => Holder' \in Masters /\ Owed'[Holder'].words > 0
<1> DEFINE Changes ==
              \/ /\ Holder = "none"
                 /\ Holder' \in {m \in Masters : Owed[m].words > 0 /\ Owed[m].from = "ram"}
              \/ /\ Holder \in Masters /\ Owed[Holder].words = 1
                 /\ Pays(Owed[Holder], Owed'[Holder], TRUE) /\ Holder' = "none"
              \/ Holder' = Holder
<1>0. TypeOK /\ TypeOK' /\ PortInv /\ EngineInv /\ EngineInv'
  BY DEF IInv
<1>1. dma_owner_mc' = IF RamReq THEN DmaGrant /\ McOwns ELSE dma_owner_mc
  BY DEF Next, DmaMuxClock
<1>2. /\ Owed["cpu"] = CpuOwed /\ Owed["scsi"] = EngineOwed(sdma) /\ Owed["mc"] = EngineOwed(mcd)
      /\ Owed'["cpu"] = CpuOwed' /\ Owed'["scsi"] = EngineOwed(sdma)'
      /\ Owed'["mc"] = EngineOwed(mcd)'
  BY DEF Owed, Masters
<1>3. ASSUME RamReq PROVE Changes
  <2>1. Holder = "none" /\ inflight' /\ (owner_dma' <=> DmaGrant)
    BY <1>3, ArbStep DEF Holder
  <2>2. CASE ~DmaGrant
    <3>1. Holder' = "cpu"
      BY <2>1, <2>2 DEF Holder
    <3>2. state # "S_IDLE" /\ access.to = "ram"
      BY <1>3, <2>2 DEF RamReq, DmaGrant, Arb!RamReq, Arb!CpuGo, CpuRamReq, IInv, WhereInv
    <3>3. CpuOwed.words > 0 /\ CpuOwed.from = "ram"
      BY <3>2 DEF CpuOwed, IInv, BusInv, TypeOK
    <3>4. QED BY <1>2, <2>1, <3>1, <3>3 DEF Masters
  <2>3. CASE DmaGrant
    <3>1. Holder' = IF McOwns THEN "mc" ELSE "scsi"
      BY <1>0, <1>1, <1>3, <2>1, <2>3 DEF Holder, TypeOK
    <3>2. DmaReq /\ DmaHit
      BY <2>3 DEF DmaGrant, Arb!DmaGo, DmaRamReq
    <3>3. IF McOwns THEN mcd.req /\ mcd.hit ELSE sdma.req /\ sdma.hit
      BY <3>2 DEF DmaReq, DmaHit, McOwns
    <3>4. Owed[Holder'].words > 0 /\ Owed[Holder'].from = "ram"
      BY <1>2, <3>1, <3>3 DEF EngineOwed
    <3>5. QED BY <2>1, <3>1, <3>4 DEF Masters
  <2>4. QED BY <2>2, <2>3
<1>4. ASSUME ~RamReq PROVE Changes
  <2>1. /\ owner_dma' = owner_dma /\ dma_owner_mc' = dma_owner_mc
        /\ inflight' <=> inflight /\ ~(ram_ack /\ ram_last)
    BY <1>1, <1>4, ArbStep
  <2>2. CASE inflight' = inflight
    BY <2>1, <2>2 DEF Holder
  <2>3. CASE inflight /\ ~inflight'
    <3>1. ram_ack /\ left = 0 /\ Holder' = "none"
      BY <1>0, <2>1, <2>3 DEF PortInv, Holder
    <3>2. CASE ~owner_dma
      <4>1. Holder = "cpu" /\ BusAck
        BY <2>3, <3>1, <3>2 DEF Holder, BusAck, CpuRamAck, Arb!CpuAck
      <4>2. state # "S_IDLE"
        BY <4>1, AckMeansNotAsking
      <4>3. CpuOwed.words = 1
        BY <2>3, <3>1, <3>2, <4>2 DEF CpuOwed, IInv, CpuPortInv, InPort, TypeOK
      <4>4. QED BY <1>2, <3>1, <4>1, <4>3, CpuMoves DEF Masters, Pays
    <3>3. CASE owner_dma /\ ~dma_owner_mc
      <4>1. Holder = "scsi" /\ SdmaAck /\ sdma.req
        BY <1>0, <2>3, <3>1, <3>3, EngineAcks DEF Holder, EngineInv, Owes
      <4>2. EngineOwed(sdma).words = 1
        BY <4>1 DEF EngineOwed
      <4>3. QED BY <1>2, <3>1, <4>1, <4>2, ScsiMoves DEF Masters, Pays
    <3>4. CASE owner_dma /\ dma_owner_mc
      <4>1. Holder = "mc" /\ mcd.req
        BY <1>0, <2>3, <3>1, <3>4 DEF Holder, EngineInv, Owes
      <4>2. EngineOwed(mcd).words = 1 /\ EngineOwed(mcd) \in Service!Requests
        BY <1>0, <4>1, EngineDebts
      <4>3. Pays(EngineOwed(mcd), EngineOwed(mcd)', TRUE)
        <5>1. CASE McdAck
          BY <5>1, McMoves DEF Pays
        <5>2. CASE ~McdAck
          <6>1. EngineOwed(mcd)' = EngineOwed(mcd)
            BY <4>2, <5>2, McMoves DEF Borrows
          <6>2. QED BY <4>2, <6>1 DEF Pays
        <5>3. QED BY <5>1, <5>2
      <4>4. QED BY <1>2, <3>1, <4>1, <4>2, <4>3 DEF Masters
    <3>5. QED BY <1>0, <3>2, <3>3, <3>4 DEF TypeOK
  <2>4. QED BY <1>0, <2>1, <2>2, <2>3 DEF TypeOK
<1>5. Holder' # "none" => Holder' \in Masters /\ Owed'[Holder'].words > 0
  <2>1. Holder' # "none" => inflight'
    BY DEF Holder
  <2>2. CASE Holder' = "cpu"
    <3>1. state' # "S_IDLE"
      BY <2>1, <2>2 DEF Holder, IInv, WhereInv, InPort
    <3>2. state' = "S_FILL" => fill_last' - fill_beat' + 1 > 0
      BY <1>0 DEF IInv, BusInv, TypeOK
    <3>4. CpuOwed'.words > 0
      BY <3>1, <3>2 DEF CpuOwed
    <3>3. QED BY <1>2, <2>2, <3>4 DEF Masters
  <2>3. CASE Holder' = "scsi"
    <3>1. sdma'.req
      BY <1>0, <2>1, <2>3 DEF Holder, EngineInv, Owes
    <3>2. QED BY <1>2, <2>3, <3>1 DEF EngineOwed, Masters
  <2>4. CASE Holder' = "mc"
    <3>1. mcd'.req
      BY <1>0, <2>1, <2>4 DEF Holder, EngineInv, Owes
    <3>2. QED BY <1>2, <2>4, <3>1 DEF EngineOwed, Masters
  <2>5. QED BY <2>2, <2>3, <2>4 DEF Holder
<1>6. QED BY <1>3, <1>4, <1>5

-----------------------------------------------------------------------------

\* A clock of the memory path is a step of the service.
LEMMA ServiceStep ==
    ASSUME IInv, IInv', EngineInv, EngineInv', Next
    PROVE  Service!Next
<1>1. \A m \in Masters : \/ Owed'[m] = Owed[m]
                         \/ Service!Answered(m) \/ Service!Asks(m)
  <2>1. Owed'["cpu"] = CpuOwed' /\ Owed'["scsi"] = EngineOwed(sdma)'
        /\ Owed'["mc"] = EngineOwed(mcd)'
    BY DEF Owed, Masters
  <2>2. QED BY <2>1, Mapping, CpuMoves, ScsiMoves, McMoves DEF Masters
<1>2. /\ \/ Service!Granted \/ Service!Released
         \/ Holder' = Holder
      /\ Holder' # "none" => Owed'[Holder'].words > 0
  <2>1. CASE /\ Holder = "none"
             /\ Holder' \in {m \in Masters : Owed[m].words > 0 /\ Owed[m].from = "ram"}
    BY <2>1, HolderMoves DEF Service!Granted, Holder, Owed, Masters
  <2>2. CASE /\ Holder \in Masters /\ Owed[Holder].words = 1
             /\ Pays(Owed[Holder], Owed'[Holder], TRUE) /\ Holder' = "none"
    <3>1. PICK m \in Masters : m = Holder
      BY <2>2
    <3>2. m # "none" /\ Service!Answered(m)
      BY <2>2, <3>1, Mapping DEF Pays, Masters
    <3>3. /\ Owed[m].words = 1 /\ Holder' = "none"
          /\ m = Holder
      BY <2>2, <3>1
    <3>4. QED
      BY <3>2, <3>3 DEF Service!Released, Service!Answered, Service!MayBeAnswered, Holder, Owed, Masters
  <2>3. QED BY <2>1, <2>2, HolderMoves
<1>3. QED BY <1>1, <1>2 DEF Service!Next, Owed, Holder, Masters

(* As long as the MC's engine is aimed at memory that is there, the memory *)
(* path - bridge, arbiter, mux, devices, whatever their latency - is the   *)
(* service its masters expect: each is answered exactly the words it asked *)
(* for, memory serving one of them from its grant to its last word.        *)
THEOREM PathIsService == ~McHoles => (Spec => ImplementsService)
<1> SUFFICES ASSUME ~McHoles
             PROVE  Spec => ImplementsService
  OBVIOUS
<1>1. Init => Service!Init
  BY DEF Init, Bus!Init, Arb!Init, Service!Init, Service!Nothing, CpuOwed, EngineOwed
<1>2. IInv /\ IInv' /\ EngineInv /\ EngineInv' /\ [Next]_vars
        => [Service!Next]_(Service!serviceVars)
  <2>1. CASE Next
    BY <2>1, ServiceStep
  <2>2. CASE UNCHANGED vars
    BY <2>2 DEF vars, Service!serviceVars, CpuOwed, EngineOwed, Cpu!cpuVars, Bus!busVars,
                Arb!arbVars, dmaVars
  <2>3. QED BY <2>1, <2>2
<1>3. QED BY Inductive, EnginesInvariant, <1>1, <1>2, PTL DEF Spec, ImplementsService, Service!Spec

=============================================================================
