----------------------------- MODULE QspiProofs -----------------------------
(***************************************************************************)
(* What TLAPS proves of QspiFlash for every geometry of the part, write    *)
(* window, word width, number of calls and of faults: only the span of a   *)
(* call changes and only inside its region, a call that answers OK on a    *)
(* part it found idle has done all it was asked, and the controller is in  *)
(* the mode its user needs.                                                *)
(***************************************************************************)
EXTENDS QspiFlash, TLAPS

-----------------------------------------------------------------------------
(* Arithmetic, and where a command reaches.                                *)

LEMMA ModSmall == ASSUME NEW m \in Nat, NEW n \in Nat, m < n PROVE m % n = m
OBVIOUS

LEMMA ModRange == ASSUME NEW m \in Nat, NEW n \in Nat \ {0} PROVE m % n \in 0 .. n - 1
OBVIOUS

\* Although the guard forms the end of the span modulo Word, what it lets
\* through lies inside the write window as it stands.
LEMMA GuardConfines ==
  ASSUME NEW addr \in Nat, NEW len \in Nat, guard_write_range(addr, len) = "OK"
  PROVE  /\ 0 < len /\ addr + len <= FlashSize
         /\ addr .. addr + len - 1 \subseteq Region("image")
<1>1. 0 < len /\ len <= FlashSize /\ addr <= FlashSize - len /\ WriteFloor <= addr
  BY GeometryAssumption, MapAssumption DEF guard_write_range
<1>2. (addr + len) % Word = addr + len
  BY <1>1, WidthAssumption, GeometryAssumption, ModSmall
<1>3. addr + len <= WriteCeil
  BY <1>1, <1>2, MapAssumption DEF guard_write_range
<1> QED
  BY <1>1, <1>3, MapAssumption, GeometryAssumption DEF Region

\* A write that is confined to its region stays on the part.
LEMMA RegionOnPart ==
  ASSUME NEW area \in {"any", "image", "state"} PROVE Region(area) \subseteq Addresses
BY MapAssumption, GeometryAssumption DEF Region, Addresses

\* An aligned sector is the sector it starts.
LEMMA AlignedSector ==
  ASSUME NEW addr \in Nat, addr % SectorSize = 0
  PROVE  SectorOf(addr) = addr .. addr + SectorSize - 1
BY GeometryAssumption DEF SectorOf, SectorBase

LEMMA JobArithmetic ==
  ASSUME TypeOK
  PROVE  /\ job.base \in Nat /\ job.len \in Nat /\ done \in Nat
         /\ FlashSize \in Nat /\ PageSize \in Nat \ {0} /\ SectorSize \in Nat \ {0}
BY GeometryAssumption DEF TypeOK, Jobs, Addresses

LEMMA OffsetInPage ==
  ASSUME TypeOK PROVE PageOffset(job.base + done) \in 0 .. PageSize - 1
<1>1. job.base + done \in Nat
  BY JobArithmetic
<1> QED
  BY <1>1, GeometryAssumption, ModRange DEF PageOffset

\* A chunk is not empty, and ends where the span or the page does.
LEMMA ChunkFits ==
  ASSUME TypeOK, done < job.len
  PROVE  /\ ChunkLen \in 1 .. job.len - done
         /\ ChunkLen <= PageSize - PageOffset(job.base + done)
BY JobArithmetic, OffsetInPage DEF ChunkLen, Smaller

\* A chunk ends where its page does, so no byte of it wraps.
LEMMA ChunkLands ==
  ASSUME TypeOK, done < job.len, NEW k \in 1 .. ChunkLen
  PROVE  Lands(job.base + done, k - 1) = job.base + done + (k - 1)
<1>1. PageOffset(job.base + done) + (k - 1) < PageSize
  BY JobArithmetic, OffsetInPage, ChunkFits
<1> QED
  BY <1>1 DEF Lands

\* A chunk of a program is a sequence of bytes of its source.
LEMMA ChunkBytes ==
  ASSUME TypeOK, ValidWrite(job), job.cmd = "PP", done < job.len
  PROVE  /\ Chunk \in Seq(Byte) /\ Len(Chunk) = ChunkLen
         /\ \A k \in 1 .. ChunkLen : Chunk[k] = job.src[done + k]
<1>1. ChunkLen \in Nat /\ done + ChunkLen <= FlashSize
  BY ChunkFits, JobArithmetic DEF TypeOK, Jobs
<1>2. job.src \in Seq(Byte) /\ Len(job.src) = FlashSize
  BY SourcesAssumption DEF ValidWrite
<1>3. \A k \in 1 .. ChunkLen : job.src[done + k] \in Byte
  BY <1>1, <1>2, JobArithmetic
<1>4. Chunk = [k \in 1 .. ChunkLen |-> job.src[done + k]]
  BY DEF Chunk
<1> HIDE DEF Chunk
<1> QED
  BY <1>1, <1>3, <1>4

\* What a running call sends is a command of the part and reaches the bytes of the call that are
\* due, none of them outside its span.
LEMMA JobOpReaches ==
  ASSUME TypeOK, ValidWrite(job), done < job.len, job.cmd = "SE" => done = 0
  PROVE  /\ JobOp \in Operation
         /\ job.cmd = "SE" => Reach(JobOp) = Span(job)
         /\ job.cmd = "PP" => Reach(JobOp) = job.base + done .. job.base + done + ChunkLen - 1
         /\ Reach(JobOp) # {} /\ Reach(JobOp) \subseteq Span(job)
<1>1. job.base + done \in Addresses
  BY JobArithmetic, RegionOnPart DEF ValidWrite, Span
<1>2. CASE job.cmd = "SE"
  <2>1. JobOp = [cmd |-> "SE", addr |-> job.base, data |-> <<>>]
    BY <1>2, JobArithmetic DEF JobOp
  <2>2. Reach(JobOp) = SectorOf(job.base)
    BY <2>1 DEF Reach
  <2>3. Reach(JobOp) = Span(job)
    BY <1>2, <2>2, AlignedSector, JobArithmetic DEF ValidWrite, Span
  <2>4. job.base \in Span(job)
    BY <1>2, JobArithmetic DEF Span
  <2> QED
    BY <1>1, <1>2, <2>1, <2>3, <2>4, JobArithmetic DEF Operation
<1>3. CASE job.cmd = "PP"
  <2>1. JobOp = [cmd |-> "PP", addr |-> job.base + done, data |-> Chunk]
    BY <1>3 DEF JobOp
  <2>2. JobOp \in Operation /\ DOMAIN Chunk = 1 .. ChunkLen
    BY <1>1, <1>3, <2>1, ChunkBytes DEF Operation
  <2>3. Reach(JobOp) = {Lands(job.base + done, k - 1) : k \in 1 .. ChunkLen}
    BY <2>1, <2>2 DEF Reach
  <2>4. Reach(JobOp) = {job.base + done + (k - 1) : k \in 1 .. ChunkLen}
    BY <2>3, ChunkLands
  <2>5. ChunkLen \in 1 .. job.len - done
    BY ChunkFits
  <2>6. Reach(JobOp) = job.base + done .. job.base + done + ChunkLen - 1
    <3>1. ASSUME NEW a \in job.base + done .. job.base + done + ChunkLen - 1
          PROVE  a \in {job.base + done + (k - 1) : k \in 1 .. ChunkLen}
      <4>1. a - (job.base + done) + 1 \in 1 .. ChunkLen
        BY <2>5, JobArithmetic
      <4>2. a = job.base + done + ((a - (job.base + done) + 1) - 1)
        BY <2>5, JobArithmetic
      <4> QED
        BY <4>1, <4>2
    <3> QED
      BY <2>4, <2>5, <3>1, JobArithmetic
  <2>7. job.base + done .. job.base + done + ChunkLen - 1 \subseteq Span(job)
    <3>1. PICK base, at, n, len \in Nat :
            base = job.base /\ at = done /\ n = ChunkLen /\ len = job.len
      BY <2>5, JobArithmetic
    <3>2. base + at .. base + at + n - 1 \subseteq base .. base + len - 1
      BY <2>5, <3>1
    <3> QED
      BY <3>1, <3>2 DEF Span
  <2>8. job.base + done \in job.base + done .. job.base + done + ChunkLen - 1
    BY <2>5, JobArithmetic
  <2> QED
    BY <1>3, <2>2, <2>6, <2>7, <2>8
<1> QED
  BY <1>2, <1>3 DEF ValidWrite

-----------------------------------------------------------------------------
(* The calls.                                                              *)

\* What is known of a call that got past its checks, and at which command it
\* starts.
Sound(j, label) ==
  /\ j \in Jobs /\ ready
  /\ \/ label = "wren" /\ ValidWrite(j)
     \/ label = "read" /\ j.cmd = "READ" /\ 0 < j.len /\ Span(j) \subseteq Addresses

Refusals == {"ARG", "RANGE", "STATE"}

LEMMA ChecksDecide ==
  ASSUME NEW result \in Refusals \cup {"OK"}, NEW j, NEW label, Checked(result, j, label),
         result = "OK" => Sound(j, label)
  PROVE  \/ \E r \in Refusals : Refuse(r)
         \/ \E job1, label1 : Accept(job1, label1) /\ Sound(job1, label1)
BY DEF Checked, Refusals

LEMMA ReadRangeConfines ==
  ASSUME NEW addr \in Nat, NEW len \in Nat, ReadRange(addr, len) = "OK"
  PROVE  0 < len /\ addr + len <= FlashSize
BY GeometryAssumption DEF ReadRange

\* Every span that is confined belongs to a job.
LEMMA SpanIsJob ==
  ASSUME NEW cmd \in {"READ", "SE", "PP"}, NEW area \in {"any", "image", "state"},
         NEW addr \in Nat, NEW len \in Nat, NEW src \in Sources \cup {Null},
         0 < len, addr + len <= FlashSize
  PROVE  LET j == [cmd |-> cmd, area |-> area, base |-> addr, len |-> len, src |-> src]
         IN j \in Jobs /\ Span(j) = addr .. addr + len - 1 /\ Span(j) \subseteq Addresses
BY GeometryAssumption DEF Jobs, Addresses, Span

LEMMA ImageCallSound ==
  ASSUME NEW addr \in Nat, NEW len \in Nat, NEW src \in Sources \cup {Null},
         EraseSector(addr) \/ Program(addr, src, len)
  PROVE  \/ \E r \in Refusals : Refuse(r)
         \/ \E job1, label1 : Accept(job1, label1) /\ Sound(job1, label1)
<1>1. CASE EraseSector(addr)
  <2> DEFINE j == [cmd |-> "SE", area |-> "image", base |-> addr, len |-> SectorSize, src |-> Null]
             result == Then(IsReady, Then(Given(addr % SectorSize = 0),
                                          guard_write_range(addr, SectorSize)))
  <2>1. Checked(result, j, "wren")
    BY <1>1 DEF EraseSector
  <2>2. result \in Refusals \cup {"OK"}
    BY DEF Then, IsReady, Given, guard_write_range, Refusals
  <2>3. ASSUME result = "OK" PROVE Sound(j, "wren")
    <3>1. ready /\ addr % SectorSize = 0 /\ guard_write_range(addr, SectorSize) = "OK"
      BY <2>3 DEF Then, IsReady, Given
    <3>2. j \in Jobs /\ Span(j) = addr .. addr + SectorSize - 1
      BY <3>1, GuardConfines, SpanIsJob, GeometryAssumption
    <3>3. Span(j) \subseteq Region("image")
      BY <3>1, <3>2, GuardConfines, GeometryAssumption
    <3> QED
      BY <3>1, <3>2, <3>3, GeometryAssumption DEF Sound, ValidWrite
  <2> HIDE DEF result, j
  <2> QED
    BY <2>1, <2>2, <2>3, ChecksDecide
<1>2. CASE Program(addr, src, len)
  <2> DEFINE j == [cmd |-> "PP", area |-> "image", base |-> addr, len |-> len, src |-> src]
             result == Then(IsReady, Then(Given(src # Null), guard_write_range(addr, len)))
  <2>1. Checked(result, j, "wren")
    BY <1>2 DEF Program
  <2>2. result \in Refusals \cup {"OK"}
    BY DEF Then, IsReady, Given, guard_write_range, Refusals
  <2>3. ASSUME result = "OK" PROVE Sound(j, "wren")
    <3>1. ready /\ src # Null /\ guard_write_range(addr, len) = "OK"
      BY <2>3 DEF Then, IsReady, Given
    <3>2. j \in Jobs /\ Span(j) = addr .. addr + len - 1
      BY <3>1, GuardConfines, SpanIsJob
    <3>3. Span(j) \subseteq Region("image") /\ 0 < len
      BY <3>1, <3>2, GuardConfines
    <3> QED
      BY <3>1, <3>2, <3>3 DEF Sound, ValidWrite
  <2> HIDE DEF result, j
  <2> QED
    BY <2>1, <2>2, <2>3, ChecksDecide
<1> QED
  BY <1>1, <1>2

LEMMA StateWriteSound ==
  ASSUME NEW off \in Nat, NEW len \in Nat, NEW src \in Sources \cup {Null},
         StateErase \/ StateProgram(off, src, len)
  PROVE  \/ \E r \in Refusals : Refuse(r)
         \/ \E job1, label1 : Accept(job1, label1) /\ Sound(job1, label1)
<1> USE GeometryAssumption, MapAssumption
<1>1. CASE StateErase
  <2> DEFINE j == [cmd |-> "SE", area |-> "state", base |-> StateAddr, len |-> SectorSize, src |-> Null]
  <2>1. Checked(IsReady, j, "wren") /\ IsReady \in Refusals \cup {"OK"}
    BY <1>1 DEF StateErase, IsReady, Refusals
  <2>2. j \in Jobs /\ Span(j) = StateAddr .. StateAddr + SectorSize - 1
    BY SpanIsJob
  <2>3. ASSUME IsReady = "OK" PROVE Sound(j, "wren")
    BY <2>2, <2>3 DEF IsReady, Sound, ValidWrite, Region
  <2> HIDE DEF j
  <2> QED
    BY <2>1, <2>3, ChecksDecide
<1>2. CASE StateProgram(off, src, len)
  <2> DEFINE j == [cmd |-> "PP", area |-> "state", base |-> StateAddr + off, len |-> len, src |-> src]
             result == Then(IsReady, Then(Given(src # Null /\ len # 0), StateRange(off, len)))
  <2>1. Checked(result, j, "wren")
    BY <1>2 DEF StateProgram
  <2>2. result \in Refusals \cup {"OK"}
    BY DEF Then, IsReady, Given, StateRange, Refusals
  <2>3. ASSUME result = "OK" PROVE Sound(j, "wren")
    <3>1. ready /\ src # Null /\ len # 0 /\ off < SectorSize /\ len <= SectorSize - off
      BY <2>3 DEF Then, IsReady, Given, StateRange
    <3>2. StateAddr + off \in Nat /\ 0 < len /\ StateAddr + off + len <= StateAddr + SectorSize
      BY <3>1
    <3>3. j \in Jobs /\ Span(j) = StateAddr + off .. StateAddr + off + len - 1
      BY <3>2, SpanIsJob
    <3>4. Span(j) \subseteq Region("state")
      <4>1. Region("state") = StateAddr .. StateAddr + SectorSize - 1
        BY DEF Region
      <4> HIDE DEF j
      <4> QED
        BY <3>2, <3>3, <4>1
    <3> QED
      BY <3>1, <3>2, <3>3, <3>4 DEF Sound, ValidWrite
  <2> HIDE DEF result, j
  <2> QED
    BY <2>1, <2>2, <2>3, ChecksDecide
<1> QED
  BY <1>1, <1>2

LEMMA ReadSound ==
  ASSUME NEW addr \in Nat, NEW len \in Nat, Read(addr, len) \/ StateRead(addr, len)
  PROVE  \/ \E r \in Refusals : Refuse(r)
         \/ \E job1, label1 : Accept(job1, label1) /\ Sound(job1, label1)
<1> USE GeometryAssumption, MapAssumption
<1>1. ASSUME NEW at \in Nat, NEW first \in Refusals \cup {"OK"},
             NEW result \in Refusals \cup {"OK"},
             Checked(result, [cmd |-> "READ", area |-> "any", base |-> at, len |-> len, src |-> Null],
                     "read"),
             result = "OK" => ready /\ ReadRange(at, len) = "OK"
      PROVE  \/ \E r \in Refusals : Refuse(r)
             \/ \E job1, label1 : Accept(job1, label1) /\ Sound(job1, label1)
  <2> DEFINE j == [cmd |-> "READ", area |-> "any", base |-> at, len |-> len, src |-> Null]
  <2>1. ASSUME result = "OK" PROVE Sound(j, "read")
    <3>1. ready /\ 0 < len /\ at + len <= FlashSize
      BY <1>1, <2>1, ReadRangeConfines
    <3>2. j \in Jobs /\ Span(j) \subseteq Addresses
      BY <3>1, SpanIsJob
    <3> QED
      BY <3>1, <3>2 DEF Sound
  <2> HIDE DEF j
  <2> QED
    BY <1>1, <2>1, ChecksDecide DEF j
<1>2. CASE Read(addr, len)
  <2> DEFINE result == Then(IsReady, ReadRange(addr, len))
  <2>1. result \in Refusals \cup {"OK"} /\ (result = "OK" => ready /\ ReadRange(addr, len) = "OK")
    BY DEF Then, IsReady, ReadRange, Refusals
  <2> QED
    BY <1>1, <1>2, <2>1 DEF Read
<1>3. CASE StateRead(addr, len)
  <2> DEFINE result == Then(StateRange(addr, len), Then(IsReady, ReadRange(StateAddr + addr, len)))
  <2>1. result \in Refusals \cup {"OK"}
        /\ (result = "OK" => ready /\ ReadRange(StateAddr + addr, len) = "OK")
    BY DEF Then, StateRange, IsReady, ReadRange, Refusals
  <2> QED
    BY <1>1, <1>3, <2>1 DEF StateRead
<1> QED
  BY <1>2, <1>3

\* Whatever is called, and with whatever arguments: a refusal that sends
\* nothing, or a job whose span is confined.
LEMMA CallSound ==
  ASSUME Call
  PROVE  /\ pc = "idle" /\ owner \in {"hook", "app"}
         /\ \/ \E r \in Refusals : Refuse(r)
            \/ \E j, label : Accept(j, label) /\ Sound(j, label)
<1>1. CallAddrs \subseteq Nat /\ CallLens \subseteq Nat /\ Null \in Sources \cup {Null}
  BY WidthAssumption
<1>2. pc = "idle" /\ owner \in {"hook", "app"} /\ (StateCall \/ ImageCall)
  BY DEF Call
<1>3. CASE StateCall
  BY <1>1, <1>2, <1>3, StateWriteSound, ReadSound DEF StateCall
<1>4. CASE ImageCall
  BY <1>1, <1>2, <1>4, ImageCallSound, ReadSound DEF ImageCall
<1> QED
  BY <1>2, <1>3, <1>4

-----------------------------------------------------------------------------
(* The initial state, and the steps that preserve each part.               *)

LEMMA NoJobIsJob == NoJob \in Jobs
BY GeometryAssumption DEF NoJob, Jobs, Addresses

LEMMA NoOpIsOperation == NoOp \in Operation
BY GeometryAssumption DEF NoOp, Operation, Addresses

LEMMA Types0 ==
  /\ [a \in Addresses |-> {}] \in [Addresses -> Byte]
  /\ 0 \in 0 .. FlashSize
BY GeometryAssumption DEF Byte

LEMMA DriverInit == Init => DriverInv
<1> SUFFICES ASSUME Init PROVE DriverInv
  OBVIOUS
<1>1. PICK contents \in Contents : NewPart(contents)
  BY DEF Init
<1>2. cells \in [Addresses -> Byte] /\ op = NoOp /\ wel = FALSE
  BY <1>1, ContentsAssumption DEF NewPart
<1>3. TypeOK
  <2>1. wel \in BOOLEAN /\ ready \in BOOLEAN /\ clean \in BOOLEAN
    BY <1>2 DEF Init
  <2>2. job \in Jobs /\ issuer \in Jobs /\ op \in Operation /\ before \in [Addresses -> Byte]
    BY <1>2, NoJobIsJob, NoOpIsOperation, Types0 DEF Init
  <2>3. done \in 0 .. FlashSize /\ polls \in Nat /\ calls \in Nat /\ budget \in Nat
        /\ got \in Seq(Byte)
    BY Types0, BoundsAssumption DEF Init
  <2> QED
    BY <1>2, <2>1, <2>2, <2>3 DEF Init, TypeOK
<1> QED
  BY <1>2, <1>3
  DEF Init, DriverInv, JobInv, IssuerInv, OwnerInv, CleanInv, Busy, NoOp

\* The part completes, or loses power over, what it was doing.
LEMMA PartTypes ==
  ASSUME TypeOK, Finish \/ LosePower
  PROVE  /\ cells' \in [Addresses -> Byte] /\ op' \in Operation /\ wel' \in BOOLEAN
         /\ ~Busy' /\ \A a \in Addresses : cells'[a] # cells[a] => a \in Reach(op)
<1>1. \A a \in Addresses : Result(op, a) \in Byte
  <2> SUFFICES ASSUME NEW a \in Addresses PROVE Result(op, a) \in Byte
    OBVIOUS
  <2>1. op.data \in Seq(Byte) /\ cells[a] \in Byte
    BY DEF TypeOK, Operation
  <2>2. \A k \in DOMAIN op.data : op.data[k] \in Byte
    BY <2>1
  <2>3. UNION {op.data[k] : k \in {j \in DOMAIN op.data : Lands(op.addr, j - 1) = a}} \subseteq Bits
    BY <2>2, Zenon DEF Byte
  <2> QED
    BY <2>1, <2>3 DEF Result, Byte
<1>2. op' = NoOp /\ wel' = FALSE
  BY DEF Finish, LosePower
<1>3. cells' \in [Addresses -> Byte]
      /\ \A a \in Addresses : cells'[a] # cells[a] => a \in Reach(op)
  <2>1. CASE Finish
    BY <1>1, <2>1 DEF Finish, TypeOK
  <2>2. CASE LosePower
    <3>1. Bits \in Byte
      BY DEF Byte
    <3> QED
      BY <1>1, <2>2, <3>1 DEF LosePower, TypeOK
  <2> QED
    BY <2>1, <2>2
<1> QED
  BY <1>2, <1>3, NoOpIsOperation DEF Busy, NoOp

LEMMA TypeCall == ASSUME TypeOK, Call PROVE TypeOK'
<1>1. CASE \E r \in Refusals : Refuse(r)
  BY <1>1 DEF Refuse, Refusals, TypeOK, part, control, call
<1>2. ASSUME NEW j, NEW label, Accept(j, label), Sound(j, label) PROVE TypeOK'
  <2>1. clean' \in BOOLEAN
    BY <1>2 DEF Accept
  <2> QED
    BY <1>2, <2>1 DEF Accept, Sound, TypeOK, part, control
<1> QED
  BY <1>1, <1>2, CallSound

LEMMA FaultTypes == ASSUME TypeOK, Fault \/ NoFault PROVE budget' \in Nat
BY DEF TypeOK, Fault, NoFault

\* The step of a call that runs keeps the types; a read stays on the part.
LEMMA TypeDriver == ASSUME TypeOK, JobInv, Driver PROVE TypeOK'
<1>1. CASE WriteEnable
  <2>1. wel' \in BOOLEAN /\ UNCHANGED <<cells, op>>
    BY <1>1 DEF WriteEnable, WriteEnabled, TypeOK, part
  <2>2. budget' \in Nat
    BY <1>1, FaultTypes DEF WriteEnable
  <2>3. pc' \in {"command", "return"} /\ res' \in {res, "XFER"}
    BY <1>1 DEF WriteEnable, Return
  <2> QED
    BY <1>1, <2>1, <2>2, <2>3 DEF WriteEnable, TypeOK, control, call
<1>2. CASE Command
  <2>1. ValidWrite(job) /\ done < job.len /\ (job.cmd = "SE" => done = 0)
    BY <1>2 DEF Command, JobInv
  <2>2. Issued \/ UNCHANGED <<part, issuer>>
    BY <1>2 DEF Command
  <2>3. op' \in {op, JobOp} /\ issuer' \in {issuer, job} /\ UNCHANGED <<cells, wel>>
    BY <2>2 DEF Issued, Started, JobOp, part
  <2>4. op' \in Operation /\ issuer' \in Jobs
    BY <2>1, <2>3, JobOpReaches DEF TypeOK
  <2>5. budget' \in Nat
    BY <1>2, FaultTypes DEF Command
  <2>6. pc' \in {"wait", "return"} /\ res' \in {res, "XFER"} /\ polls' \in {polls, 0}
    BY <1>2 DEF Command, Return
  <2> QED
    BY <1>2, <2>3, <2>4, <2>5, <2>6 DEF Command, TypeOK, control, call
<1>3. CASE Wait
  <2>1. done < job.len
    BY <1>3 DEF Wait, JobInv
  <2>2. done' \in {done, done + ChunkLen} /\ (done' # done => done + ChunkLen < job.len)
    BY <1>3, <2>1, ChunkFits, JobArithmetic DEF Wait, Advance
  <2>3. done' \in 0 .. FlashSize
    BY <2>1, <2>2, ChunkFits, JobArithmetic DEF TypeOK, Jobs
  <2>4. polls' \in Nat
    BY <1>3, BoundsAssumption DEF Wait, Smaller, TypeOK
  <2>5. budget' \in Nat
    BY <1>3, FaultTypes DEF Wait
  <2>6. pc' \in {"wait", "wren", "return"} /\ res' \in {res, "XFER", "OK", "TIMEOUT"}
    BY <1>3 DEF Wait, Advance, Return
  <2> QED
    BY <1>3, <2>3, <2>4, <2>5, <2>6 DEF Wait, TypeOK, part, control, call
<1>4. CASE ReadChunk
  <2>1. done < job.len /\ Span(job) \subseteq Addresses
    BY <1>4 DEF ReadChunk, JobInv
  <2>2. ReadLen \in 1 .. job.len - done
    BY <2>1, JobArithmetic DEF ReadLen, Smaller
  <2>3. done' \in 0 .. FlashSize
    BY <1>4, <2>2, JobArithmetic DEF ReadChunk, TypeOK, Jobs
  <2>4. \A bytes \in ReadOut(job.base + done, ReadLen) : bytes \in Seq(Byte)
    <3>1. {} \in Byte /\ Bits \in Byte
      BY DEF Byte
    <3>2. \A k \in 1 .. ReadLen : cells[job.base + done + k - 1] \in Byte
      <4>1. \A k \in 1 .. ReadLen : job.base + done + k - 1 \in Span(job)
        BY <2>2, JobArithmetic DEF Span
      <4> QED
        BY <2>1, <4>1 DEF TypeOK
    <3>3. ReadLen \in Nat
      BY <2>2, JobArithmetic
    <3>4. CASE Busy
      <4>1. \A b \in Byte : [k \in 1 .. ReadLen |-> b] \in Seq(Byte)
        BY <3>3
      <4> QED
        BY <3>1, <3>4, <4>1 DEF ReadOut
    <3>5. CASE ~Busy
      <4>1. [k \in 1 .. ReadLen |-> cells[job.base + done + k - 1]] \in Seq(Byte)
        BY <3>2, <3>3
      <4> QED
        BY <3>5, <4>1 DEF ReadOut
    <3> QED
      BY <3>4, <3>5
  <2>5. got' \in Seq(Byte)
    <3>1. got \in Seq(Byte)
      BY DEF TypeOK
    <3>2. got' = got \/ \E bytes \in ReadOut(job.base + done, ReadLen) : got' = got \o bytes
      BY <1>4 DEF ReadChunk
    <3>3. CASE \E bytes \in ReadOut(job.base + done, ReadLen) : got' = got \o bytes
      <4>1. PICK bytes \in ReadOut(job.base + done, ReadLen) : got' = got \o bytes
        BY <3>3
      <4>2. bytes \in Seq(Byte)
        BY <2>4
      <4> QED
        BY <3>1, <4>1, <4>2
    <3> QED
      BY <3>1, <3>2, <3>3
  <2>6. budget' \in Nat
    BY <1>4, FaultTypes DEF ReadChunk
  <2>7. pc' \in {"read", "return"} /\ res' \in {res, "XFER", "OK"}
    BY <1>4 DEF ReadChunk, Return
  <2> QED
    BY <1>4, <2>3, <2>5, <2>6, <2>7 DEF ReadChunk, TypeOK, part, control, call
<1>5. CASE Deliver
  <2>1. clean' \in BOOLEAN /\ before' \in [Addresses -> Byte] /\ job' \in Jobs
    BY <1>5, Types0, NoJobIsJob DEF Deliver, Nobody
  <2> QED
    BY <1>5, <2>1, Types0 DEF Deliver, Nobody, TypeOK, part, control
<1> QED
  BY <1>1, <1>2, <1>3, <1>4, <1>5 DEF Driver

\* A reset, and the comings and goings of the controller's users.
LEMMA TypeReset ==
  ASSUME TypeOK, ResetSystem,
         UNCHANGED <<part, issuer>> \/ (LosePower /\ issuer' = NoJob), budget' \in Nat
  PROVE  TypeOK'
<1>1. clean' \in BOOLEAN /\ before' \in [Addresses -> Byte] /\ job' \in Jobs /\ ready' \in BOOLEAN
  BY Types0, NoJobIsJob DEF ResetSystem, Nobody
<1>2. cells' \in [Addresses -> Byte] /\ op' \in Operation /\ wel' \in BOOLEAN /\ issuer' \in Jobs
  BY PartTypes, NoJobIsJob DEF TypeOK, part
<1> QED
  BY <1>1, <1>2, Types0 DEF ResetSystem, Nobody, TypeOK

LEMMA TypeOwners ==
  ASSUME TypeOK,
         FsblStarts \/ HookBorrows \/ HookReturns \/ HandOff \/ AppInit \/ MultibootTo \/ Reset
  PROVE  TypeOK'
<1>1. CASE FsblStarts \/ HookReturns \/ HandOff
  <2>1. ready' \in BOOLEAN
    BY <1>1 DEF FsblStarts, HookReturns, HandOff, TypeOK
  <2> QED
    BY <1>1, <2>1 DEF FsblStarts, HookReturns, HandOff, TypeOK, part, call
<1>2. CASE HookBorrows \/ AppInit
  <2>1. Configure(FALSE) \/ Configure(ready)
    BY <1>2 DEF HookBorrows, ForceReinit, AppInit
  <2>2. mode' \in {"linear", "manual"} /\ ready' \in BOOLEAN
    BY <2>1 DEF Configure, TypeOK
  <2>3. budget' \in Nat
    BY <2>1, FaultTypes DEF Configure, NoFault
  <2> QED
    BY <1>2, <2>2, <2>3 DEF HookBorrows, AppInit, TypeOK, part, call
<1>3. CASE MultibootTo
  BY <1>3, TypeReset DEF MultibootTo, TypeOK
<1>4. CASE Reset
  <2>1. budget' \in Nat
    BY <1>4, FaultTypes DEF Reset
  <2> QED
    BY <1>4, <2>1, TypeReset DEF Reset
<1> QED
  BY <1>1, <1>2, <1>3, <1>4

LEMMA TypeStep == ASSUME TypeOK, JobInv, [Next]_vars PROVE TypeOK'
<1>1. CASE PartFinishes
  BY <1>1, PartTypes, NoJobIsJob DEF PartFinishes, TypeOK, control, call
<1>2. CASE UNCHANGED vars
  BY <1>2 DEF vars, part, control, call, TypeOK
<1> QED
  BY <1>1, <1>2, TypeCall, TypeDriver, TypeOwners DEF Next

LEMMA JobStep == ASSUME TypeOK, JobInv, [Next]_vars PROVE JobInv'
<1>1. CASE Call
  <2>1. CASE \E r \in Refusals : Refuse(r)
    BY <2>1 DEF Refuse, Refusals, JobInv
  <2>2. ASSUME NEW j, NEW label, Accept(j, label), Sound(j, label), pc = "idle" PROVE JobInv'
    <3>1. done' = 0 /\ got' = <<>> /\ job' = j /\ pc' = label
      BY <2>2 DEF Accept, JobInv
    <3>2. CASE label = "wren" /\ ValidWrite(j)
      BY <3>1, <3>2 DEF JobInv, ValidWrite, Span
    <3>3. CASE label = "read" /\ j.cmd = "READ" /\ 0 < j.len /\ Span(j) \subseteq Addresses
      BY <3>1, <3>3 DEF JobInv, Span
    <3> QED
      BY <2>2, <3>2, <3>3 DEF Sound
  <2> QED
    BY <1>1, <2>1, <2>2, CallSound
<1>2. CASE WriteEnable
  BY <1>2 DEF WriteEnable, Return, JobInv, call, ValidWrite, Span
<1>3. CASE Command
  BY <1>3 DEF Command, Return, JobInv, call, ValidWrite, Span
<1>4. CASE Wait
  <2>1. ValidWrite(job) /\ done < job.len /\ (job.cmd = "SE" => done = 0) /\ job' = job
    BY <1>4 DEF Wait, JobInv, call
  <2>2. \/ pc' = "return" /\ res' # "none"
        \/ pc' = "wren" /\ job.cmd # "SE" /\ done' = done + ChunkLen /\ done' < job.len
        \/ pc' = "wait" /\ done' = done
    BY <1>4, <2>1, ChunkFits, JobArithmetic DEF Wait, Advance, Return
  <2> QED
    BY <2>1, <2>2 DEF JobInv, ValidWrite, Span
<1>5. CASE ReadChunk
  <2>1. done < job.len /\ job.cmd = "READ" /\ Span(job) \subseteq Addresses /\ job' = job
    BY <1>5 DEF ReadChunk, JobInv, call
  <2>2. CASE UNCHANGED <<done, got>> /\ Return("XFER")
    BY <2>2 DEF Return, JobInv
  <2>3. CASE /\ done' = done + ReadLen
             /\ IF done + ReadLen < job.len THEN UNCHANGED <<pc, res>> ELSE Return("OK")
    BY <1>5, <2>1, <2>3 DEF ReadChunk, Return, JobInv, Span
  <2> QED
    BY <1>5, <2>2, <2>3 DEF ReadChunk
<1>6. CASE Deliver \/ MultibootTo \/ Reset
  BY <1>6 DEF Deliver, MultibootTo, Reset, ResetSystem, Nobody, JobInv
<1>7. CASE PartFinishes \/ FsblStarts \/ HookBorrows \/ HookReturns \/ HandOff \/ AppInit \/ UNCHANGED vars
  BY <1>7
  DEF PartFinishes, FsblStarts, HookBorrows, HookReturns, HandOff, AppInit, vars, call, JobInv,
      ValidWrite, Span
<1> QED
  BY <1>1, <1>2, <1>3, <1>4, <1>5, <1>6, <1>7 DEF Next, Driver

\* The bytes the part may write are always those of the call it took last.
LEMMA IssuerStep == ASSUME TypeOK, JobInv, IssuerInv, [Next]_vars PROVE IssuerInv'
<1>1. CASE UNCHANGED <<op, issuer>>
  BY <1>1 DEF IssuerInv, Busy, ValidWrite, Span, Reach
<1>2. CASE Command
  <2>1. ValidWrite(job) /\ done < job.len /\ (job.cmd = "SE" => done = 0)
    BY <1>2 DEF Command, JobInv
  <2>2. UNCHANGED <<op, issuer>> \/ (op' = JobOp /\ issuer' = job)
    BY <1>2 DEF Command, Issued, Started, JobOp, part
  <2>3. CASE op' = JobOp /\ issuer' = job
    <3>1. Reach(JobOp) \subseteq Span(job) /\ Reach(JobOp) # {}
      BY <2>1, JobOpReaches
    <3> HIDE DEF JobOp
    <3>2. Reach(op') \subseteq Span(issuer') /\ Reach(op') # {} /\ ValidWrite(issuer')
      BY <2>1, <2>3, <3>1
    <3> QED
      BY <3>2 DEF IssuerInv, ValidWrite, Span, Reach
  <2> QED
    BY <1>1, <2>2, <2>3
<1>3. CASE PartFinishes \/ (Reset /\ LosePower)
  <2>1. ~Busy'
    BY <1>3, PartTypes DEF PartFinishes
  <2> QED
    BY <2>1 DEF IssuerInv
<1>4. CASE Call
  BY <1>1, <1>4, CallSound DEF Refuse, Accept, part
<1>5. CASE WriteEnable \/ Wait \/ ReadChunk \/ Deliver
  BY <1>1, <1>5 DEF WriteEnable, WriteEnabled, Wait, ReadChunk, Deliver, part
<1>6. CASE Reset \/ MultibootTo
  BY <1>1, <1>3, <1>6 DEF Reset, MultibootTo, part
<1>7. CASE FsblStarts \/ HookBorrows \/ HookReturns \/ HandOff \/ AppInit \/ UNCHANGED vars
  BY <1>1, <1>7
  DEF FsblStarts, HookBorrows, HookReturns, HandOff, AppInit, vars, part
<1> QED
  BY <1>2, <1>3, <1>4, <1>5, <1>6, <1>7 DEF Next, Driver

LEMMA OwnerStep == ASSUME TypeOK, OwnerInv, [Next]_vars PROVE OwnerInv'
<1>1. CASE Call
  <2>1. UNCHANGED control /\ owner \in {"hook", "app"}
    BY <1>1, CallSound DEF Refuse, Accept
  <2>2. pc' = "return" \/ ready
    BY <1>1, CallSound DEF Refuse, Accept, Sound
  <2> QED
    BY <2>1, <2>2 DEF OwnerInv, control
<1>2. CASE Driver
  <2>1. UNCHANGED control /\ owner \in {"hook", "app"}
    BY <1>2 DEF Driver, WriteEnable, Command, Wait, ReadChunk, Deliver, OwnerInv, TypeOK
  <2>2. pc \in {"wren", "command", "wait", "read"} \/ pc' = "idle"
    BY <1>2 DEF Driver, WriteEnable, Command, Wait, ReadChunk, Deliver, Nobody
  <2> QED
    BY <2>1, <2>2 DEF OwnerInv, control
<1>3. CASE MultibootTo \/ Reset
  BY <1>3 DEF MultibootTo, Reset, ResetSystem, Nobody, OwnerInv
<1>4. CASE FsblStarts \/ HandOff \/ HookReturns
  BY <1>4 DEF FsblStarts, HandOff, HookReturns, OwnerInv
<1>5. CASE HookBorrows \/ AppInit
  BY <1>5 DEF HookBorrows, AppInit, ForceReinit, Configure, OwnerInv
<1>6. CASE PartFinishes \/ UNCHANGED vars
  BY <1>6 DEF PartFinishes, vars, control, OwnerInv
<1> QED
  BY <1>1, <1>2, <1>3, <1>4, <1>5, <1>6 DEF Next

-----------------------------------------------------------------------------
(* What a call on an idle part gets done.                                  *)

\* A call all of whose bytes are as asked has completed, if it is a write.
LEMMA AllBytesDone ==
  ASSUME TypeOK, job.cmd # "READ", DoneUpTo(job.len) PROVE Completed
<1>1. \A a \in Addresses : cells[a] = Wanted(a)
  BY DEF DoneUpTo, Wanted, Span
<1>2. cells = [a \in Addresses |-> cells[a]]
  BY DEF TypeOK
<1> QED
  BY <1>1, <1>2 DEF Completed

\* The part leaves each byte of a chunk as the caller asked, whatever the
\* other bytes of the chunk are.
LEMMA ChunkResult ==
  ASSUME TypeOK, ValidWrite(job), done < job.len, job.cmd = "PP", op = JobOp, DoneUpTo(done),
         NEW a \in job.base + done .. job.base + done + ChunkLen - 1, a \in Addresses
  PROVE  Result(op, a) = Wanted(a)
<1> DEFINE k == a - (job.base + done) + 1
<1>1. k \in 1 .. ChunkLen /\ a = job.base + done + (k - 1)
  BY JobArithmetic, ChunkFits
<1>2. DOMAIN op.data = 1 .. ChunkLen /\ op.addr = job.base + done /\ op.cmd = "PP"
      /\ \A m \in 1 .. ChunkLen : op.data[m] = job.src[done + m]
  BY ChunkBytes DEF JobOp, Chunk
<1>3. {j \in DOMAIN op.data : Lands(op.addr, j - 1) = a} = {k}
  <2>1. \A j \in 1 .. ChunkLen : Lands(op.addr, j - 1) = job.base + done + (j - 1)
    BY <1>2, ChunkLands
  <2>2. \A j \in 1 .. ChunkLen : Lands(op.addr, j - 1) = a <=> j = k
    <3> SUFFICES ASSUME NEW j \in 1 .. ChunkLen PROVE Lands(op.addr, j - 1) = a <=> j = k
      OBVIOUS
    <3>1. ChunkLen \in Nat
      BY JobArithmetic, ChunkFits
    <3>2. j \in Nat /\ k \in Nat
      BY <1>1, <3>1
    <3>3. Lands(op.addr, j - 1) = job.base + done + (j - 1)
      BY <2>1
    <3> HIDE DEF k
    <3> QED
      BY <1>1, <3>2, <3>3, JobArithmetic
  <2> HIDE DEF k
  <2> QED
    BY <1>1, <1>2, <2>2
<1> HIDE DEF k
<1>4. UNION {op.data[m] : m \in {j \in DOMAIN op.data : Lands(op.addr, j - 1) = a}} = op.data[k]
  <2>1. {op.data[m] : m \in {k}} = {op.data[k]}
    BY Zenon
  <2>2. UNION {op.data[k]} = op.data[k]
    BY Zenon
  <2> QED
    BY <1>3, <2>1, <2>2, Zenon
<1>5. Result(op, a) = cells[a] \cup op.data[k]
  BY <1>2, <1>4 DEF Result
<1>6. cells[a] = before[a]
  BY <1>1, JobArithmetic DEF DoneUpTo
<1>7. a \in Span(job) /\ done + k = a - job.base + 1
  BY <1>1, JobArithmetic, ChunkFits DEF Span, k
<1> QED
  BY <1>1, <1>2, <1>5, <1>6, <1>7 DEF Wanted

\* When the part has done what the running call asked of it, the call's bytes
\* are as asked one chunk, or one sector, further on.
LEMMA FinishDoes ==
  ASSUME TypeOK, ValidWrite(job), done < job.len, job.cmd = "SE" => done = 0,
         op = JobOp, DoneUpTo(done), Finish, UNCHANGED <<job, done, before>>
  PROVE  DoneUpTo(done + (IF job.cmd = "PP" THEN ChunkLen ELSE job.len))'
<1>1. \A a \in Addresses : cells'[a] = IF a \in Reach(op) THEN Result(op, a) ELSE cells[a]
  BY DEF Finish
<1>2. CASE job.cmd = "SE"
  <2>1. Reach(op) = job.base .. job.base + job.len - 1 /\ done = 0
    BY <1>2, JobOpReaches DEF Span
  <2>2. \A a \in Addresses : cells[a] = before[a]
    BY <2>1, JobArithmetic DEF DoneUpTo
  <2>3. op.cmd = "SE"
    BY <1>2 DEF JobOp
  <2>4. \A a \in Addresses :
          cells'[a] = IF a \in job.base .. job.base + job.len - 1 THEN Wanted(a) ELSE before[a]
    BY <1>1, <1>2, <2>1, <2>2, <2>3 DEF Result, Wanted, Span
  <2> QED
    BY <1>2, <2>1, <2>4, JobArithmetic DEF DoneUpTo, Wanted, Span
<1>3. CASE job.cmd = "PP"
  <2>1. Reach(op) = job.base + done .. job.base + done + ChunkLen - 1
    BY <1>3, JobOpReaches
  <2>2. ChunkLen \in 1 .. job.len - done
    BY ChunkFits
  <2>3. ASSUME NEW a \in Addresses
        PROVE  cells'[a] = IF a \in job.base .. job.base + (done + ChunkLen) - 1
                           THEN Wanted(a) ELSE before[a]
    <3>1. CASE a \in Reach(op)
      <4>1. cells'[a] = Wanted(a)
        BY <1>1, <1>3, <2>1, <3>1, ChunkResult
      <4> QED
        BY <2>1, <2>2, <3>1, <4>1, JobArithmetic
    <3>2. CASE a \notin Reach(op)
      <4>1. cells'[a] = IF a \in job.base .. job.base + done - 1 THEN Wanted(a) ELSE before[a]
        BY <1>1, <3>2 DEF DoneUpTo
      <4>2. a \in job.base .. job.base + done - 1
            <=> a \in job.base .. job.base + (done + ChunkLen) - 1
        <5>1. a \in Nat /\ a \notin job.base + done .. job.base + done + ChunkLen - 1
          BY <2>1, <3>2, JobArithmetic DEF Addresses
        <5>2. ChunkLen \in Nat
          BY <2>2, JobArithmetic
        <5> HIDE DEF ChunkLen
        <5> QED
          BY <5>1, <5>2, JobArithmetic
      <4> QED
        BY <4>1, <4>2
    <3> QED
      BY <3>1, <3>2
  <2>4. ChunkLen' = ChunkLen
    BY DEF ChunkLen
  <2> HIDE DEF ChunkLen
  <2> QED
    BY <1>3, <2>3, <2>4 DEF DoneUpTo, Wanted, Span
<1> QED
  BY <1>2, <1>3 DEF ValidWrite

LEMMA CleanCall == ASSUME TypeOK, JobInv, CleanInv, Call PROVE CleanInv'
<1>1. CASE \E r \in Refusals : Refuse(r)
  BY <1>1 DEF Refuse, Refusals, CleanInv
<1>2. ASSUME NEW j, NEW label, Accept(j, label), Sound(j, label), pc = "idle" PROVE CleanInv'
  <2>1. /\ done' = 0 /\ got' = <<>> /\ job' = j /\ pc' = label /\ label \in {"wren", "read"}
        /\ cells' = cells /\ before' = cells /\ op' = op /\ clean' = ~Busy
    BY <1>2 DEF Accept, Sound, JobInv, part
  <2>2. clean' => ~Busy'
    BY <2>1 DEF Busy
  <2>3. DoneUpTo(0)'
    <3>1. job'.base \in Nat
      BY <1>2, <2>1 DEF Sound, Jobs, Addresses
    <3> QED
      BY <2>1, <3>1 DEF DoneUpTo
  <2>4. got' = [k \in 1 .. done' |-> cells'[job'.base + k - 1]]
    BY <2>1
  <2>5. DoneUpTo(done)'
    BY <2>1, <2>3
  <2> QED
    BY <2>1, <2>2, <2>4, <2>5 DEF CleanInv
<1> QED
  BY <1>1, <1>2, CallSound


\* The part is still at the chunk, or has just finished it, or has nothing to
\* do for any other call.
LEMMA CleanFinish == ASSUME TypeOK, JobInv, CleanInv, PartFinishes PROVE CleanInv'
<1>1. Finish /\ Busy /\ ~Busy' /\ UNCHANGED <<pc, job, done, before, clean, got, res>>
  BY PartTypes DEF PartFinishes, Finish, call
<1>2. CASE clean /\ pc = "wait"
  <2>1. ValidWrite(job) /\ done < job.len /\ (job.cmd = "SE" => done = 0)
    BY <1>2 DEF JobInv
  <2>2. DoneUpTo(done) /\ op = JobOp
    BY <1>1, <1>2 DEF CleanInv
  <2> HIDE DEF JobOp
  <2>3. DoneUpTo(done + (IF job.cmd = "PP" THEN ChunkLen ELSE job.len))'
    BY <1>1, <2>1, <2>2, FinishDoes
  <2> QED
    BY <1>1, <1>2, <2>3 DEF CleanInv
<1>3. CASE pc # "wait" \/ ~clean
  BY <1>1, <1>3 DEF CleanInv
<1> QED
  BY <1>2, <1>3

LEMMA CleanDriver == ASSUME TypeOK, JobInv, CleanInv, Driver PROVE CleanInv'
<1> SUFFICES ASSUME clean' PROVE CleanInv'
  BY DEF CleanInv
<1>1. CASE WriteEnable
  <2>1. clean /\ ~Busy /\ DoneUpTo(done)
    BY <1>1 DEF WriteEnable, CleanInv, call
  <2>2. UNCHANGED <<cells, op, job, before, done>>
    BY <1>1 DEF WriteEnable, WriteEnabled, part, call
  <2>3. ~Busy' /\ DoneUpTo(done)'
    BY <2>1, <2>2 DEF Busy, DoneUpTo, Wanted, Span
  <2>4. (pc' = "command" /\ wel') \/ (pc' = "return" /\ res' = "XFER")
    <3>1. (pc' = "command" /\ WriteEnabled) \/ (pc' = "return" /\ res' = "XFER")
      BY <1>1 DEF WriteEnable, Return
    <3>2. WriteEnabled => wel'
      BY <2>1, Zenon DEF WriteEnabled
    <3> QED
      BY <3>1, <3>2
  <2> QED
    BY <2>3, <2>4 DEF CleanInv
<1>2. CASE Command
  <2>1. clean /\ ~Busy /\ wel /\ DoneUpTo(done)
    BY <1>2 DEF Command, CleanInv, call
  <2>2. CASE pc' = "return" /\ res' = "XFER"
    BY <2>2 DEF CleanInv
  <2>3. CASE pc' = "wait" /\ Issued
    <3>1. op' = JobOp /\ UNCHANGED <<cells, job, before, done>>
      BY <1>2, <2>1, <2>3 DEF Command, Issued, Started, JobOp, part, call
    <3>2. JobOp' = JobOp
      BY <3>1 DEF JobOp, Chunk, ChunkLen
    <3>3. Busy'
      <4>1. job.cmd \in {"SE", "PP"}
        BY <1>2 DEF Command, JobInv, ValidWrite
      <4> QED
        BY <3>1, <4>1 DEF JobOp, Busy
    <3>4. DoneUpTo(done)'
      BY <2>1, <3>1 DEF DoneUpTo, Wanted, Span
    <3>5. op' = JobOp'
      BY <3>1, <3>2
    <3> QED
      BY <2>3, <3>3, <3>4, <3>5 DEF CleanInv
  <2> QED
    BY <1>2, <2>2, <2>3 DEF Command, Return
<1>3. CASE Wait
  <2>1. ValidWrite(job) /\ done < job.len /\ (job.cmd = "SE" => done = 0) /\ clean /\ pc = "wait"
    BY <1>3 DEF Wait, JobInv, call
  <2>2. UNCHANGED <<cells, op, wel, job, before, got, clean>>
    BY <1>3 DEF Wait, part, call
  <2>3. CASE pc' = "return" /\ res' # "OK"
    BY <2>3 DEF CleanInv
  <2>4. CASE ~Busy /\ Advance
    <3>1. ChunkLen \in 1 .. job.len - done
      BY <2>1, ChunkFits
    <3>2. DoneUpTo(done + (IF job.cmd = "PP" THEN ChunkLen ELSE job.len))
      BY <2>1, <2>4 DEF CleanInv
    <3>3. ~Busy' /\ job.cmd # "READ"
      BY <2>1, <2>2, <2>4 DEF Busy, ValidWrite
    <3>4. CASE job.cmd = "SE" \/ done + ChunkLen >= job.len
      <4>1. DoneUpTo(job.len)
        <5>1. done + (IF job.cmd = "PP" THEN ChunkLen ELSE job.len) = job.len
          <6> HIDE DEF ChunkLen
          <6>1. CASE job.cmd = "SE"
            BY <2>1, <6>1, JobArithmetic
          <6>2. CASE job.cmd = "PP"
            <7>1. done + ChunkLen >= job.len
              BY <3>4, <6>2
            <7> QED
              BY <3>1, <6>2, <7>1, JobArithmetic
          <6> QED
            BY <2>1, <6>1, <6>2 DEF ValidWrite
        <5> QED
          BY <3>2, <5>1
      <4>2. Completed
        BY <3>3, <4>1, AllBytesDone
      <4>3. Completed'
        BY <2>2, <4>2 DEF Completed, Wanted, Span
      <4>4. pc' = "return"
        BY <2>4, <3>4 DEF Advance, Return
      <4> QED
        BY <3>3, <4>3, <4>4 DEF CleanInv
    <3>5. CASE job.cmd = "PP" /\ ~(done + ChunkLen >= job.len)
      <4>1. pc' = "wren" /\ done' = done + ChunkLen
        BY <2>4, <3>5 DEF Advance
      <4>2. DoneUpTo(done)'
        BY <2>2, <3>2, <3>5, <4>1 DEF DoneUpTo, Wanted, Span
      <4> QED
        BY <3>3, <4>1, <4>2 DEF CleanInv
    <3> QED
      BY <2>1, <3>4, <3>5 DEF ValidWrite
  <2>5. CASE Busy /\ pc' = "wait" /\ UNCHANGED done
    <3>1. DoneUpTo(done) /\ op = JobOp
      BY <2>1, <2>5 DEF CleanInv
    <3>2. JobOp' = JobOp
      BY <2>2, <2>5 DEF JobOp, Chunk, ChunkLen
    <3>3. Busy' /\ DoneUpTo(done)'
      BY <2>2, <2>5, <3>1 DEF Busy, DoneUpTo, Wanted, Span
    <3>4. op' = JobOp'
      BY <2>2, <3>1, <3>2
    <3> QED
      BY <2>5, <3>3, <3>4 DEF CleanInv
  <2> QED
    BY <1>3, <2>1, <2>3, <2>4, <2>5 DEF Wait, Return
<1>4. CASE ReadChunk
  <2>1. /\ job.cmd = "READ" /\ done < job.len /\ clean /\ ~Busy /\ cells = before
        /\ got = [k \in 1 .. done |-> cells[job.base + k - 1]]
    BY <1>4 DEF ReadChunk, JobInv, CleanInv, call
  <2>2. UNCHANGED <<cells, op, job, before>> /\ ~Busy'
    BY <1>4, <2>1 DEF ReadChunk, part, call, Busy
  <2>3. CASE pc' = "return" /\ res' = "XFER"
    BY <2>3 DEF CleanInv
  <2>4. CASE /\ \E bytes \in ReadOut(job.base + done, ReadLen) : got' = got \o bytes
             /\ done' = done + ReadLen
             /\ IF done + ReadLen < job.len THEN UNCHANGED <<pc, res>> ELSE Return("OK")
    <3>1. ReadLen \in 1 .. job.len - done
      BY <2>1, JobArithmetic DEF ReadLen, Smaller
    <3>2. got' = got \o [k \in 1 .. ReadLen |-> cells[job.base + done + k - 1]]
      BY <2>1, <2>4 DEF ReadOut
    <3>3. got' = [k \in 1 .. done' |-> cells[job.base + k - 1]]
      <4>1. ReadLen \in Nat /\ done' = done + ReadLen
        BY <2>4, <3>1, JobArithmetic
      <4> HIDE DEF ReadLen
      <4>2. got' = [k \in 1 .. done |-> cells[job.base + k - 1]]
                   \o [k \in 1 .. ReadLen |-> cells[job.base + done + k - 1]]
        BY <2>1, <3>2
      <4>3. got' = [k \in 1 .. done + ReadLen |-> cells[job.base + k - 1]]
        <5>1. job.base \in Nat /\ done \in Nat
          BY JobArithmetic
        <5>2. [k \in 1 .. done |-> cells[job.base + k - 1]]
              \o [k \in 1 .. ReadLen |-> cells[job.base + done + k - 1]]
              = [k \in 1 .. done + ReadLen |-> cells[job.base + k - 1]]
          BY <4>1, <5>1
        <5> QED
          BY <4>2, <5>2
      <4> QED
        BY <4>1, <4>3
    <3>4. CASE done + ReadLen < job.len
      <4>1. pc' = "read"
        BY <1>4, <2>4, <3>4 DEF ReadChunk
      <4> QED
        BY <2>1, <2>2, <3>3, <4>1 DEF CleanInv
    <3>5. CASE ~(done + ReadLen < job.len)
      <4>1. pc' = "return" /\ done' = job.len
        BY <2>4, <3>1, <3>5, JobArithmetic DEF Return
      <4>2. cells = [a \in Addresses |-> Wanted(a)]
        BY <2>1 DEF TypeOK, Wanted
      <4>3. Completed'
        BY <2>1, <2>2, <3>3, <4>1, <4>2 DEF Completed, Wanted, Span
      <4> QED
        BY <2>2, <4>1, <4>3 DEF CleanInv
    <3> QED
      BY <3>4, <3>5
  <2> QED
    BY <1>4, <2>3, <2>4 DEF ReadChunk, Return
<1>5. CASE Deliver
  BY <1>5 DEF Deliver, Nobody
<1> QED
  BY <1>1, <1>2, <1>3, <1>4, <1>5 DEF Driver

LEMMA CleanStep == ASSUME TypeOK, JobInv, CleanInv, [Next]_vars PROVE CleanInv'
<1>1. CASE MultibootTo \/ Reset
  BY <1>1 DEF MultibootTo, Reset, ResetSystem, Nobody, CleanInv
<1>2. CASE FsblStarts \/ HookBorrows \/ HookReturns \/ HandOff \/ AppInit \/ UNCHANGED vars
  <2>1. UNCHANGED <<part, pc, call, done, got, res>>
    BY <1>2 DEF FsblStarts, HookBorrows, HookReturns, HandOff, AppInit, vars
  <2> QED
    BY <2>1
    DEF CleanInv, part, call, Busy, DoneUpTo, JobOp, Chunk, ChunkLen, Completed, Wanted, Span
<1> QED
  BY <1>1, <1>2, CleanCall, CleanFinish, CleanDriver DEF Next

-----------------------------------------------------------------------------
(* The theorems.                                                           *)

LEMMA DriverStep == DriverInv /\ [Next]_vars => DriverInv'
BY TypeStep, JobStep, IssuerStep, OwnerStep, CleanStep DEF DriverInv

\* Every state of the driver satisfies its inductive invariant, its types
\* first: a running call has passed its checks and has the controller, the
\* part writes inside the span of the call that asked, and a call on an idle
\* part has each of its bytes as asked when it has waited for it.
THEOREM DriverInvariant == Spec => []DriverInv
<1> QED
  BY DriverInit, DriverStep, PTL DEF Spec

\* The variables of the driver keep their types.
THEOREM DriverTypes == Spec => []TypeOK
<1>1. DriverInv => TypeOK
  BY DEF DriverInv
<1> QED
  BY <1>1, DriverInvariant, PTL

\* The cells of the part change while it is busy, and where it is.
LEMMA ChangeIsPart ==
  ASSUME TypeOK, [Next]_vars, NEW a \in Addresses, cells'[a] # cells[a]
  PROVE  Busy /\ a \in Reach(op)
<1>1. Finish \/ LosePower
  <2>1. cells' # cells
    OBVIOUS
  <2>2. CASE Call
    BY <2>1, <2>2, CallSound DEF Refuse, Accept, part
  <2> QED
    BY <2>1, <2>2
    DEF Next, Driver, WriteEnable, WriteEnabled, Command, Issued, Started, Wait, ReadChunk, Deliver,
        PartFinishes, FsblStarts, HookBorrows, HookReturns, HandOff, AppInit, MultibootTo, Reset,
        part, vars
<1>2. a \in Reach(op)
  BY <1>1, PartTypes
<1> QED
  BY <1>2 DEF Reach, Busy

\* A byte of the flash changes only as part of a call whose span holds it and
\* lies inside the one region that call may write, whatever the arguments of
\* the calls, the resets and the power failures.
THEOREM OnlySpansAreWritten == Spec => OnlyTheSpanChanges
<1>1. ASSUME DriverInv, [Next]_vars
      PROVE  \A a \in Addresses : cells'[a] # cells[a] =>
               /\ a \in Span(issuer)
               /\ issuer.area \in {"image", "state"} /\ Span(issuer) \subseteq Region(issuer.area)
  BY <1>1, ChangeIsPart DEF DriverInv, IssuerInv, ValidWrite
<1> QED
  BY <1>1, DriverInvariant, PTL DEF Spec, OnlyTheSpanChanges

\* Golden's part of the flash, below the write window, never changes at all.
THEOREM GoldenIsNeverWritten ==
  Spec => [][\A a \in Addresses : a < WriteFloor => cells'[a] = cells[a]]_vars
<1>1. ASSUME DriverInv, [Next]_vars
      PROVE  \A a \in Addresses : a < WriteFloor => cells'[a] = cells[a]
  <2> SUFFICES ASSUME NEW a \in Addresses, a < WriteFloor, cells'[a] # cells[a] PROVE FALSE
    OBVIOUS
  <2>1. a \in Region("image") \/ a \in Region("state")
    BY <1>1, ChangeIsPart DEF DriverInv, IssuerInv, ValidWrite
  <2> QED
    BY <2>1, MapAssumption DEF Region, Addresses
<1> QED
  BY <1>1, DriverInvariant, PTL DEF Spec

\* A call that began on an idle part and answers QSPI_OK has erased,
\* programmed or read all of its span and nothing else, across pages, faults
\* of other calls and resets.
THEOREM OkIsDone == Spec => []OkMeansDone
<1>1. DriverInv => OkMeansDone
  BY DEF DriverInv, CleanInv, OkMeansDone
<1> QED
  BY <1>1, DriverInvariant, PTL

\* The driver sends its commands in manual mode only, and the FSBL gets the
\* linear controller back however the hook ends.
THEOREM ModeIsRight == Spec => []ControllerMode
<1>1. DriverInv => ControllerMode
  <2>1. ASSUME DriverInv PROVE ControllerMode
    BY <2>1 DEF DriverInv, OwnerInv, ControllerMode, TypeOK
  <2> QED
    BY <2>1
<1> QED
  BY <1>1, DriverInvariant, PTL

-----------------------------------------------------------------------------
(* The refinement of FlashCalls.                                           *)

\* The addresses a call writes.
Target(j) == IF j.cmd = "READ" THEN {} ELSE Span(j)

\* What FlashCalls sees of a state.
MapVars ==
  <<IF Alone THEN before ELSE cells, job, clean, IF Answered THEN res ELSE "none",
    IF Answered /\ res = "OK" /\ job.cmd = "READ" THEN got ELSE <<>>,
    IF Alone THEN {} ELSE Reach(op)>>

LEMMA IdleReachesNothing == ~Busy => Reach(op) = {}
BY DEF Busy, Reach

LEMMA BusyReaches == ASSUME IssuerInv PROVE Reach(op) = {} <=> ~Busy
BY IdleReachesNothing DEF IssuerInv

\* A call that has passed its checks is not NoJob.
LEMMA RunningIsAsked ==
  ASSUME TypeOK, JobInv, pc \in {"wren", "command", "wait", "read"}
  PROVE  job # NoJob
BY JobArithmetic DEF JobInv, NoJob, ValidWrite

\* What FlashCalls calls at risk of an asked job is the job's target.
LEMMA SameWritten == Abstract!Written(job) = Target(job)
BY DEF Abstract!Written, Abstract!Span, Target, Span

LEMMA SameNoJob == Abstract!NoJob = NoJob
BY DEF Abstract!NoJob, NoJob

\* While a call runs alone, only its target differs from what it found, and
\* the part is at nothing else.
LEMMA AloneInTarget ==
  ASSUME DriverInv, Alone
  PROVE  /\ \A a \in Addresses \ Target(job) : cells[a] = before[a]
         /\ Reach(op) \subseteq Target(job)
<1>1. TypeOK /\ JobInv /\ CleanInv /\ clean
  BY DEF DriverInv, Alone
<1>2. CASE pc = "read"
  BY <1>1, <1>2, IdleReachesNothing DEF CleanInv
<1>3. CASE pc \in {"wren", "command", "wait"}
  <2>1. ValidWrite(job) /\ done < job.len /\ (job.cmd = "SE" => done = 0)
    BY <1>1, <1>3 DEF JobInv
  <2>2. Target(job) = Span(job)
    BY <2>1 DEF Target, ValidWrite
  <2>3. ASSUME NEW d \in Nat, d <= job.len, DoneUpTo(d), NEW a \in Addresses, a \notin Span(job)
        PROVE  cells[a] = before[a]
    <3>1. a \notin job.base .. job.base + d - 1
      BY <1>1, <2>3, JobArithmetic DEF Span, Addresses
    <3> QED
      BY <2>3, <3>1 DEF DoneUpTo
  <2>4. ChunkLen \in Nat /\ done + ChunkLen <= job.len
    BY <1>1, <2>1, ChunkFits, JobArithmetic
  <2>5. done + (IF job.cmd = "PP" THEN ChunkLen ELSE job.len) <= job.len
    BY <1>1, <2>1, <2>4, JobArithmetic DEF ValidWrite
  <2>6. \E d \in Nat : d <= job.len /\ DoneUpTo(d)
    <3> HIDE DEF ChunkLen
    <3>1. CASE pc \in {"wren", "command"} \/ Busy
      BY <1>1, <1>3, <2>1, <3>1, JobArithmetic DEF CleanInv
    <3>2. CASE pc = "wait" /\ ~Busy
      BY <1>1, <2>4, <2>5, <3>2, JobArithmetic DEF CleanInv
    <3> QED
      BY <1>3, <3>1, <3>2
  <2>7. Reach(op) \subseteq Span(job)
    <3>1. CASE Busy
      <4>1. op = JobOp
        BY <1>1, <1>3, <3>1 DEF CleanInv
      <4> HIDE DEF JobOp
      <4> QED
        BY <1>1, <2>1, <4>1, JobOpReaches
    <3> QED
      BY <3>1, IdleReachesNothing
  <2> QED
    BY <2>2, <2>3, <2>6, <2>7
<1> QED
  BY <1>2, <1>3 DEF Alone

Working == pc \in {"wren", "command", "wait", "read"}

\* The call is asked and not answered while it runs, and at no other time.
LEMMA RunningIsWorking ==
  ASSUME TypeOK, JobInv
  PROVE  Abstract!Running <=> Working
<1>1. CASE Working
  BY <1>1, RunningIsAsked, SameNoJob DEF Working, Abstract!Running, Answered
<1>2. CASE ~Working
  <2>1. pc \in {"idle", "return"}
    BY <1>2 DEF TypeOK, Working
  <2> QED
    BY <1>2, <2>1, SameNoJob DEF JobInv, Abstract!Running, Answered
<1> QED
  BY <1>1, <1>2

LEMMA WhatIsAtRisk ==
  ASSUME TypeOK, JobInv
  PROVE  /\ Working => Abstract!AtRisk = (IF Alone THEN {} ELSE Reach(op)) \cup Target(job)
         /\ ~Working => Abstract!AtRisk = Reach(op)
<1>1. ~Working => ~Alone
  BY DEF Working, Alone
<1> QED
  BY <1>1, RunningIsWorking, SameWritten DEF Abstract!AtRisk

\* A call that gives up leaves something between what was and what was asked.
LEMMA GivingUpFails ==
  ASSUME DriverInv, TypeOK', Working, UNCHANGED <<cells, job, clean>>,
         pc' = "return", res' \in {"XFER", "TIMEOUT"},
         Reach(op)' \subseteq Reach(op) \cup Target(job)
  PROVE  Abstract!Fail
<1>1. TypeOK /\ JobInv /\ job # NoJob
  BY RunningIsAsked DEF DriverInv, Working
<1>2. ~Alone' /\ Answered' /\ ~Answered
  BY <1>1 DEF Alone, Answered, Working
<1>3. Abstract!AtRisk = (IF Alone THEN {} ELSE Reach(op)) \cup Target(job)
  BY <1>1, WhatIsAtRisk
<1>4. Abstract!Disturbed
  <2>1. cells' \in [Addresses -> Byte]
    BY DEF TypeOK
  <2>2. \A a \in Addresses \ Abstract!AtRisk : cells'[a] = (IF Alone THEN before ELSE cells)[a]
    BY <1>3, AloneInTarget
  <2>3. Reach(op)' \subseteq Abstract!AtRisk
    BY <1>3, AloneInTarget
  <2> HIDE DEF Abstract!AtRisk
  <2> QED
    BY <1>2, <2>1, <2>2, <2>3 DEF Abstract!Disturbed, Abstract!Addresses, Addresses, Byte
<1> QED
  BY <1>1, <1>2, <1>4, RunningIsWorking DEF Abstract!Fail

\* What the part does on its own, or for a call that found it busy.
LEMMA SettlingSettles ==
  ASSUME DriverInv, TypeOK', ~Alone, ~Alone', UNCHANGED <<job, clean>>,
         Answered' <=> Answered, Answered => UNCHANGED <<res, got>>,
         \A a \in Addresses : cells'[a] # cells[a] => a \in Reach(op),
         Reach(op)' \subseteq Reach(op) \cup (IF Working THEN Target(job) ELSE {})
  PROVE  Abstract!Settle
<1>1. TypeOK /\ JobInv
  BY DEF DriverInv
<1>2. Abstract!AtRisk = Reach(op) \cup (IF Working THEN Target(job) ELSE {})
  BY <1>1, WhatIsAtRisk
<1>3. Abstract!Disturbed
  <2>1. cells' \in [Addresses -> Byte]
    BY DEF TypeOK
  <2> QED
    BY <1>2, <2>1 DEF Abstract!Disturbed, Abstract!Addresses, Addresses, Byte
<1>4. ~(Abstract!Running /\ clean)
  BY <1>1, RunningIsWorking DEF Alone, Working
<1> QED
  BY <1>3, <1>4 DEF Abstract!Settle

\* What gets past the checks is confined.
LEMMA SoundIsCall ==
  ASSUME NEW j, NEW label, Sound(j, label)
  PROVE  j \in Abstract!Calls
<1>1. j \in Jobs /\ 0 < j.len
  BY DEF Sound, ValidWrite
<1>2. j \in [cmd : {"READ", "SE", "PP"}, area : {"any", "image", "state"},
             base : Abstract!Addresses, len : 1 .. FlashSize, src : Sources \cup {Null}]
  BY <1>1, GeometryAssumption DEF Jobs, Addresses, Abstract!Addresses
<1>3. Abstract!Confined(j)
  BY DEF Sound, ValidWrite, Region, Span, Addresses, Abstract!Confined, Abstract!Span,
         Abstract!Addresses
<1>4. (j.cmd = "SE" => j.len = SectorSize) /\ (j.cmd = "PP" => j.src \in Sources)
  BY DEF Sound, ValidWrite
<1> QED
  BY <1>2, <1>3, <1>4 DEF Abstract!Calls

LEMMA CallPromise ==
  ASSUME DriverInv, Call
  PROVE  Abstract!Ask \/ UNCHANGED MapVars
<1>1. TypeOK /\ JobInv /\ IssuerInv /\ pc = "idle" /\ job = NoJob /\ ~Alone /\ ~Answered
  BY CallSound DEF DriverInv, JobInv, Alone, Answered
<1>2. ASSUME NEW r \in Refusals, Refuse(r) PROVE UNCHANGED MapVars
  <2>1. ~Alone' /\ ~Answered' /\ UNCHANGED <<cells, op, job, clean>>
    BY <1>1, <1>2 DEF Refuse, Alone, Answered, part, call
  <2> QED
    BY <1>1, <2>1 DEF MapVars, Reach
<1>3. ASSUME NEW j, NEW label, Accept(j, label), Sound(j, label) PROVE Abstract!Ask
  <2>1. /\ job' = j /\ before' = cells /\ clean' = ~Busy /\ pc' \in {"wren", "read"}
        /\ UNCHANGED <<cells, op>>
    BY <1>3 DEF Accept, Sound, part
  <2>2. ~Answered' /\ (Alone' <=> ~Busy)
    BY <2>1 DEF Answered, Alone
  <2>3. Reach(op)' = Reach(op)
    BY <2>1 DEF Reach
  <2> QED
    BY <1>1, <1>3, <2>1, <2>2, <2>3, BusyReaches, SoundIsCall, SameNoJob DEF Abstract!Ask
<1> QED
  BY <1>2, <1>3, CallSound

\* A call that answers OK has done all it was asked, if it ran alone.
LEMMA OkSucceeds ==
  ASSUME DriverInv, DriverInv', Working, UNCHANGED <<cells, op, job, before, clean>>,
         pc' = "return", res' = "OK"
  PROVE  Abstract!Succeed \/ Abstract!SeemToSucceed
<1>1. TypeOK /\ JobInv /\ TypeOK' /\ job # NoJob /\ Abstract!Running
  BY RunningIsAsked, RunningIsWorking DEF DriverInv, Working
<1>2. ~Alone' /\ Answered' /\ ~Answered /\ Reach(op)' = Reach(op)
  BY <1>1 DEF Alone, Answered, Working, Reach
<1>3. CASE clean
  <2>1. Alone
    BY <1>3 DEF Alone, Working
  <2>2. Completed' /\ ~Busy'
    BY <1>3 DEF DriverInv, CleanInv
  <2>3. Reach(op)' = {}
    BY <2>2 DEF Busy, Reach
  <2>4. cells' = Abstract!Done(job)
    <3>1. cells' = [a \in Addresses |-> Wanted(a)]
      BY <2>2 DEF Completed, Wanted, Span
    <3>2. \A a \in Addresses :
            Wanted(a) = IF a \notin Target(job) THEN before[a]
                        ELSE IF job.cmd = "SE" THEN {} ELSE before[a] \cup job.src[a - job.base + 1]
      BY DEF Wanted, Target
    <3> QED
      BY <2>1, <3>1, <3>2, SameWritten DEF Abstract!Done, Abstract!Addresses, Addresses
  <2>5. job.cmd = "READ" => got' = Abstract!Stretch(job)
    <3> SUFFICES ASSUME job.cmd = "READ" PROVE got' = Abstract!Stretch(job)
      OBVIOUS
    <3>1. got' = [k \in 1 .. job.len |-> cells[job.base + k - 1]]
      BY <2>2 DEF Completed
    <3>2. \A a \in Addresses : cells[a] = before[a]
      BY <2>1, AloneInTarget DEF Target
    <3>3. cells = before
      BY <1>1, <3>2 DEF TypeOK
    <3> QED
      BY <2>1, <3>1, <3>3 DEF Abstract!Stretch
  <2> QED
    BY <1>1, <1>2, <1>3, <2>1, <2>3, <2>4, <2>5 DEF Abstract!Succeed
<1>4. CASE ~clean
  <2>1. ~Alone
    BY <1>4 DEF Alone
  <2>2. Abstract!Disturbed
    <3>1. cells' \in [Addresses -> Byte]
      BY <1>1 DEF TypeOK
    <3> QED
      BY <1>2, <2>1, <3>1 DEF Abstract!Disturbed, Abstract!AtRisk, Abstract!Addresses, Addresses, Byte
  <2>3. got' \in Seq(SUBSET Bits) /\ <<>> \in Seq(SUBSET Bits)
    BY <1>1 DEF TypeOK, Byte
  <2> QED
    BY <1>1, <1>2, <1>4, <2>1, <2>2, <2>3 DEF Abstract!SeemToSucceed
<1> QED
  BY <1>3, <1>4

\* A call that goes on, and the part with it, changes nothing for the caller.
LEMMA GoingOnIsUnseen ==
  ASSUME Working, Working', UNCHANGED <<cells, op, job, before, clean>>
  PROVE  UNCHANGED MapVars
<1>1. ~Answered /\ ~Answered' /\ (Alone' <=> Alone)
  BY DEF Answered, Alone, Working
<1> QED
  BY <1>1 DEF MapVars, Reach

LEMMA DriverPromise ==
  ASSUME DriverInv, DriverInv', Driver
  PROVE  Abstract!Next \/ UNCHANGED MapVars
<1>1. TypeOK /\ JobInv /\ TypeOK'
  BY DEF DriverInv
<1>2. CASE WriteEnable
  <2>1. Working /\ UNCHANGED <<cells, op, job, before, clean>> /\ Reach(op)' = Reach(op)
    BY <1>2 DEF WriteEnable, WriteEnabled, Working, call, part, Reach
  <2>2. (pc' = "return" /\ res' = "XFER") \/ Working'
    BY <1>2 DEF WriteEnable, Return, Working
  <2> QED
    BY <1>1, <2>1, <2>2, GivingUpFails, GoingOnIsUnseen DEF Abstract!Next
<1>3. CASE Command
  <2>1. Working /\ UNCHANGED <<cells, job, before, clean, done, got>>
    BY <1>3 DEF Command, Issued, Started, Working, call, part
  <2>2. ValidWrite(job) /\ done < job.len /\ (job.cmd = "SE" => done = 0)
    BY <1>1, <1>3 DEF Command, JobInv
  <2>3. Target(job) = Span(job)
    BY <2>2 DEF Target, ValidWrite
  <2>4. op' = op \/ op' = JobOp
    BY <1>3 DEF Command, Issued, Started, JobOp, part
  <2>5. Reach(op)' \subseteq Reach(op) \cup Target(job)
    <3>1. Reach(JobOp) \subseteq Target(job)
      BY <1>1, <2>2, <2>3, JobOpReaches
    <3>2. op' = op => Reach(op)' = Reach(op)
      BY DEF Reach
    <3> HIDE DEF JobOp
    <3>3. op' = JobOp => Reach(op)' = Reach(JobOp)
      BY DEF Reach
    <3> QED
      BY <2>4, <3>1, <3>2, <3>3
  <2>6. CASE pc' = "return" /\ res' = "XFER"
    BY <1>1, <2>1, <2>5, <2>6, GivingUpFails DEF Abstract!Next
  <2>7. CASE pc' = "wait"
    <3>1. ~Answered /\ ~Answered' /\ (Alone' <=> Alone)
      BY <1>3, <2>1, <2>7 DEF Answered, Alone, Command
    <3>2. CASE Alone
      BY <2>1, <3>1, <3>2 DEF MapVars
    <3>3. CASE ~Alone
      BY <1>1, <2>1, <2>5, <3>1, <3>3, SettlingSettles DEF Abstract!Next
    <3> QED
      BY <3>2, <3>3
  <2> QED
    BY <1>3, <2>6, <2>7 DEF Command, Return
<1>4. CASE Wait
  <2>1. Working /\ UNCHANGED <<cells, op, job, before, clean>> /\ Reach(op)' = Reach(op)
    BY <1>4 DEF Wait, Working, call, part, Reach
  <2>2. (pc' = "return" /\ res' \in {"OK", "XFER", "TIMEOUT"}) \/ Working'
    BY <1>4 DEF Wait, Advance, Return, Working
  <2> QED
    BY <1>1, <2>1, <2>2, GivingUpFails, OkSucceeds, GoingOnIsUnseen DEF Abstract!Next
<1>5. CASE ReadChunk
  <2>1. Working /\ UNCHANGED <<cells, op, job, before, clean>> /\ Reach(op)' = Reach(op)
    BY <1>5 DEF ReadChunk, Working, call, part, Reach
  <2>2. (pc' = "return" /\ res' \in {"OK", "XFER"}) \/ Working'
    BY <1>5 DEF ReadChunk, Return, Working
  <2> QED
    BY <1>1, <2>1, <2>2, GivingUpFails, OkSucceeds, GoingOnIsUnseen DEF Abstract!Next
<1>6. CASE Deliver
  <2>1. /\ pc = "return" /\ pc' = "idle" /\ res # "none" /\ UNCHANGED <<cells, op>>
        /\ job' = NoJob /\ clean' = FALSE
    BY <1>1, <1>6 DEF Deliver, Nobody, JobInv, part
  <2>2. ~Alone /\ ~Alone' /\ ~Answered' /\ Reach(op)' = Reach(op)
    BY <2>1 DEF Alone, Answered, Reach
  <2>3. CASE job # NoJob
    BY <2>1, <2>2, <2>3, SameNoJob DEF Answered, Abstract!Next, Abstract!Return, Abstract!Nobody
  <2>4. CASE job = NoJob
    <3>1. Abstract!Reset
      BY <1>1, <2>1, <2>2, <2>4, SameNoJob
      DEF TypeOK, Byte, Abstract!Reset, Abstract!Nobody, Abstract!Disturbed, Abstract!AtRisk,
          Abstract!Running, Abstract!Addresses, Addresses
    <3> QED
      BY <3>1 DEF Abstract!Next
  <2> QED
    BY <2>3, <2>4
<1> QED
  BY <1>2, <1>3, <1>4, <1>5, <1>6 DEF Driver

\* A reset ends the call, wherever it is, and the part may go on with it.
LEMMA ResetPromise ==
  ASSUME DriverInv, TypeOK', MultibootTo \/ Reset
  PROVE  Abstract!Reset
<1>1. TypeOK /\ JobInv
  BY DEF DriverInv
<1>2. /\ pc' = "idle" /\ job' = NoJob /\ clean' = FALSE /\ ~Alone' /\ ~Answered'
  BY DEF MultibootTo, Reset, ResetSystem, Nobody, Alone, Answered
<1>3. /\ \A a \in Addresses : cells'[a] # cells[a] => a \in Reach(op)
      /\ Reach(op)' \subseteq Reach(op)
  <2>1. CASE UNCHANGED part
    BY <2>1 DEF part, Reach
  <2>2. CASE LosePower
    <3>1. ~Busy' /\ \A a \in Addresses : cells'[a] # cells[a] => a \in Reach(op)
      BY <1>1, <2>2, PartTypes
    <3>2. Reach(op)' = {}
      BY <3>1 DEF Busy, Reach
    <3> QED
      BY <3>1, <3>2
  <2> QED
    BY <2>1, <2>2 DEF MultibootTo, Reset
<1>4. \A a \in Addresses \ Abstract!AtRisk : cells'[a] = (IF Alone THEN before ELSE cells)[a]
  <2>1. CASE Working
    BY <1>1, <1>3, <2>1, WhatIsAtRisk, AloneInTarget
  <2>2. CASE ~Working
    BY <1>1, <1>3, <2>2, WhatIsAtRisk DEF Alone, Working
  <2> QED
    BY <2>1, <2>2
<1>5. Reach(op)' \subseteq Abstract!AtRisk
  <2>1. CASE Working
    BY <1>1, <1>3, <2>1, WhatIsAtRisk, AloneInTarget
  <2>2. CASE ~Working
    BY <1>1, <1>3, <2>2, WhatIsAtRisk
  <2> QED
    BY <2>1, <2>2
<1>6. Abstract!Disturbed
  <2>1. cells' \in [Addresses -> Byte]
    BY DEF TypeOK
  <2> HIDE DEF Abstract!AtRisk
  <2> QED
    BY <1>2, <1>4, <1>5, <2>1 DEF Abstract!Disturbed, Abstract!Addresses, Addresses, Byte
<1> QED
  BY <1>2, <1>6, SameNoJob DEF Abstract!Reset, Abstract!Nobody

\* To its callers the driver is FlashCalls: a call that finds the part idle is
\* one step, all of its span if it answers OK; what a failure, a timeout or a
\* reset leaves half done, and what the part does later, is in its span.
THEOREM ImplementsFlashCalls == Spec => FlashPromise
<1>1. Init => Abstract!Init
  <2> SUFFICES ASSUME Init PROVE Abstract!Init
    OBVIOUS
  <2>1. /\ cells \in [Addresses -> Byte] /\ ~Busy /\ ~Alone /\ ~Answered /\ job = NoJob
        /\ clean = FALSE
    BY DriverInit DEF Init, NewPart, DriverInv, TypeOK, Busy, NoOp, Alone, Answered
  <2> QED
    BY <2>1, IdleReachesNothing, SameNoJob DEF Abstract!Init, Abstract!Addresses, Addresses, Byte
<1>2. ASSUME DriverInv, DriverInv', [Next]_vars
      PROVE  Abstract!Next \/ UNCHANGED MapVars
  <2>1. CASE Call
    BY <1>2, <2>1, CallPromise DEF Abstract!Next
  <2>2. CASE Driver
    BY <1>2, <2>2, DriverPromise
  <2>3. CASE PartFinishes
    <3>1. /\ UNCHANGED <<pc, job, before, clean, res, got>> /\ ~Busy' /\ TypeOK'
          /\ \A a \in Addresses : cells'[a] # cells[a] => a \in Reach(op)
      BY <1>2, <2>3, PartTypes DEF PartFinishes, call, DriverInv
    <3>2. Reach(op)' = {} /\ (Alone' <=> Alone) /\ (Answered' <=> Answered)
      BY <3>1 DEF Busy, Reach, Alone, Answered
    <3>3. CASE Alone
      BY <3>1, <3>2, <3>3 DEF MapVars
    <3>4. CASE ~Alone
      BY <1>2, <3>1, <3>2, <3>4, SettlingSettles DEF Abstract!Next
    <3> QED
      BY <3>3, <3>4
  <2>4. CASE MultibootTo \/ Reset
    BY <1>2, <2>4, ResetPromise DEF DriverInv, Abstract!Next
  <2>5. CASE FsblStarts \/ HookBorrows \/ HookReturns \/ HandOff \/ AppInit \/ UNCHANGED vars
    <3>1. UNCHANGED <<part, pc, call, done, got, res>>
      BY <2>5 DEF FsblStarts, HookBorrows, HookReturns, HandOff, AppInit, vars
    <3> QED
      BY <3>1 DEF MapVars, part, call, Reach, Alone, Answered
  <2> QED
    BY <1>2, <2>1, <2>2, <2>3, <2>4, <2>5 DEF Next
<1>3. UNCHANGED MapVars <=> UNCHANGED Abstract!vars
  BY DEF MapVars, Abstract!vars
<1>4. DriverInv /\ DriverInv' /\ [Next]_vars => [Abstract!Next]_(Abstract!vars)
  BY <1>2, <1>3
<1> QED
  BY <1>1, <1>4, DriverInvariant, PTL DEF Spec, FlashPromise, Abstract!Spec
=============================================================================
