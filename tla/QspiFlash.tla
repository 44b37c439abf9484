------------------------------ MODULE QspiFlash ------------------------------
(***************************************************************************)
(* The flash driver (qspi_flash.c) on the part, with its callers: the FSBL *)
(* hook, which borrows the controller from the FSBL, and the application.  *)
(* Each command it sends is a step, so that the part can finish, a         *)
(* transfer can fail and a reset can come between any two.                 *)
(***************************************************************************)
EXTENDS NorPart

CONSTANTS
  Word,         \* u32 arithmetic is modulo this
  WriteFloor,   \* QSPI_WRITE_FLOOR
  WriteCeil,    \* QSPI_WRITE_CEIL
  StateAddr,    \* QSPI_STATE_ADDR
  Null,         \* a null pointer
  Sources,      \* buffers callers program from
  CallAddrs,    \* addresses and offsets callers pass
  CallLens,     \* lengths callers pass
  Contents,     \* contents the flash may have when the board is first powered
  PollMax,      \* WIP_POLL_MAX
  MaxCalls,     \* bound: calls that get past their checks
  MaxFaults     \* bound: failed transfers, failed initialisations and resets

ASSUME WidthAssumption ==
  /\ Word \in Nat /\ FlashSize < Word
  /\ CallAddrs \subseteq 0 .. Word - 1 /\ CallLens \subseteq 0 .. Word - 1
ASSUME MapAssumption ==
  /\ WriteFloor \in Nat /\ WriteFloor % SectorSize = 0
  /\ WriteCeil \in Nat /\ WriteFloor <= WriteCeil
  /\ StateAddr \in Nat /\ StateAddr % SectorSize = 0
  /\ WriteCeil <= StateAddr /\ StateAddr + SectorSize <= FlashSize
ASSUME SourcesAssumption ==
  /\ Null \notin Sources
  /\ \A s \in Sources : s \in Seq(Byte) /\ Len(s) = FlashSize
ASSUME ContentsAssumption == Contents \subseteq [Addresses -> Byte]
ASSUME BoundsAssumption ==
  /\ PollMax \in Nat \ {0} /\ MaxCalls \in Nat /\ MaxFaults \in Nat

VARIABLES
  owner,   \* who runs: the boot "rom", the "fsbl", its "hook", or the "app"
  mode,    \* how the controller is configured: "linear" or "manual"
  saved,   \* the mode the hook found
  ready,   \* qspi_ready
  pc,      \* "idle", the next command of a call, or "return"
  job,     \* the call that got past its checks
  done,    \* its bytes so far
  polls,   \* status reads of the running wait
  got,     \* what a read has stored in its buffer so far
  res,     \* the result of the call that returns
  before,  \* history: the flash when the call began
  clean,   \* history: the part was idle when the call began
  issuer,  \* history: the call whose program or erase is in progress
  calls, budget

control == <<owner, mode, saved, ready>>
call == <<job, before, clean, calls>>
vars == <<part, control, pc, call, done, polls, got, res, issuer, budget>>

\* area is the region of the flash the call's checks confine it to.
Jobs ==
  [cmd : {"READ", "SE", "PP"}, area : {"any", "image", "state"},
   base : Addresses, len : 0 .. FlashSize, src : Sources \cup {Null}]
NoJob == [cmd |-> "READ", area |-> "any", base |-> 0, len |-> 0, src |-> Null]

Region(area) ==
  CASE area = "image" -> WriteFloor .. WriteCeil - 1
    [] area = "state" -> StateAddr .. StateAddr + SectorSize - 1
    [] OTHER -> Addresses

Span(j) == j.base .. j.base + j.len - 1

Smaller(m, n) == IF m < n THEN m ELSE n

-----------------------------------------------------------------------------
(* Calls and their checks.                                                 *)

Fault == budget > 0 /\ budget' = budget - 1
NoFault == UNCHANGED budget

\* A call returns a result to its caller; nothing was or is sent.
Refuse(r) ==
  /\ pc' = "return" /\ res' = r
  /\ UNCHANGED <<part, control, call, done, polls, got, issuer, budget>>

\* A call gets past its checks and starts with the command at label.
Accept(j, label) ==
  /\ calls < MaxCalls
  /\ pc' = label /\ job' = j /\ calls' = calls + 1
  /\ before' = cells /\ clean' = ~Busy
  /\ UNCHANGED <<part, control, done, polls, got, res, issuer, budget>>

\* Mutated form of guard_write_range: the end is formed first, and wraps.
guard_end_first(addr, len) ==
  IF len = 0 THEN "ARG"
  ELSE IF addr < WriteFloor \/ (addr + len) % Word > WriteCeil THEN "RANGE" ELSE "OK"

\* The guard in front of every write of an image.
guard_write_range(addr, len) ==
  IF len = 0 \/ len > FlashSize THEN "ARG"
  ELSE IF addr > FlashSize - len THEN "RANGE"
  ELSE IF addr < WriteFloor \/ (addr + len) % Word > WriteCeil THEN "RANGE"
  ELSE "OK"

\* The state sector's own bound: inside the one sector.
StateRange(off, len) ==
  IF off >= SectorSize \/ len > SectorSize - off THEN "RANGE" ELSE "OK"

ReadRange(addr, len) ==
  IF len = 0 THEN "ARG"
  ELSE IF len > FlashSize \/ addr > FlashSize - len THEN "ARG" ELSE "OK"

\* The checks in the order of the code: the first that fails is the result.
Then(first, next) == IF first = "OK" THEN next ELSE first

Checked(result, j, label) ==
  IF result = "OK" THEN Accept(j, label) ELSE Refuse(result)

IsReady == IF ready THEN "OK" ELSE "STATE"
Given(b) == IF b THEN "OK" ELSE "ARG"

EraseSector(addr) ==
  Checked(Then(IsReady, Then(Given(addr % SectorSize = 0), guard_write_range(addr, SectorSize))),
          [cmd |-> "SE", area |-> "image", base |-> addr, len |-> SectorSize, src |-> Null],
          "wren")

Program(addr, src, len) ==
  Checked(Then(IsReady, Then(Given(src # Null), guard_write_range(addr, len))),
          [cmd |-> "PP", area |-> "image", base |-> addr, len |-> len, src |-> src],
          "wren")

Read(addr, len) ==
  Checked(Then(IsReady, ReadRange(addr, len)),
          [cmd |-> "READ", area |-> "any", base |-> addr, len |-> len, src |-> Null],
          "read")

StateErase ==
  Checked(IsReady,
          [cmd |-> "SE", area |-> "state", base |-> StateAddr, len |-> SectorSize, src |-> Null],
          "wren")

StateProgram(off, src, len) ==
  Checked(Then(IsReady, Then(Given(src # Null /\ len # 0), StateRange(off, len))),
          [cmd |-> "PP", area |-> "state", base |-> StateAddr + off, len |-> len, src |-> src],
          "wren")

StateRead(off, len) ==
  Checked(Then(StateRange(off, len), Then(IsReady, ReadRange(StateAddr + off, len))),
          [cmd |-> "READ", area |-> "any", base |-> StateAddr + off, len |-> len, src |-> Null],
          "read")

\* The calls of boot_state.c, from the hook or the application, and those of
\* the updater.
StateCall ==
  \/ StateErase
  \/ \E off \in CallAddrs, len \in CallLens :
       \/ StateRead(off, len)
       \/ \E src \in Sources \cup {Null} : StateProgram(off, src, len)

ImageCall ==
  \E addr \in CallAddrs :
    \/ EraseSector(addr)
    \/ \E len \in CallLens :
         \/ Read(addr, len)
         \/ \E src \in Sources \cup {Null} : Program(addr, src, len)

Call ==
  /\ pc = "idle"
  /\ \/ owner = "hook" /\ ready /\ StateCall
     \/ owner = "app" /\ (StateCall \/ ImageCall)

-----------------------------------------------------------------------------
(* The body of a call.  A transfer that fails may have reached the part.   *)

Return(r) == pc' = "return" /\ res' = r

\* write_enable
WriteEnable ==
  /\ pc = "wren"
  /\ \/ NoFault /\ WriteEnabled /\ pc' = "command" /\ UNCHANGED res
     \/ Fault /\ (WriteEnabled \/ UNCHANGED part) /\ Return("XFER")
  /\ UNCHANGED <<control, call, done, polls, got, issuer>>

\* A program is split where the pages of the flash end.
ChunkLen == Smaller(PageSize - PageOffset(job.base + done), job.len - done)

Chunk == [k \in 1 .. ChunkLen |-> job.src[done + k]]

\* The part takes the erase, or the program of one chunk, if it is idle and
\* enabled; it says nothing if it is not.
Issued ==
  /\ Started(job.cmd, job.base + done, IF job.cmd = "PP" THEN Chunk ELSE <<>>)
  /\ issuer' = IF ~Busy /\ wel THEN job ELSE issuer

Command ==
  /\ pc = "command"
  /\ \/ NoFault /\ Issued /\ pc' = "wait" /\ polls' = 0 /\ UNCHANGED res
     \/ /\ Fault
        /\ Issued \/ UNCHANGED <<part, issuer>>
        /\ Return("XFER") /\ UNCHANGED polls
  /\ UNCHANGED <<control, call, done, got>>

\* Mutated form of Advance: one write enable for all the chunks.
AdvanceEnabled ==
  IF job.cmd = "SE" \/ done + ChunkLen >= job.len
  THEN Return("OK") /\ UNCHANGED done
  ELSE pc' = "command" /\ done' = done + ChunkLen /\ UNCHANGED res

\* The operation a wait was for is over: the next chunk, or the end.
Advance ==
  IF job.cmd = "SE" \/ done + ChunkLen >= job.len
  THEN Return("OK") /\ UNCHANGED done
  ELSE pc' = "wren" /\ done' = done + ChunkLen /\ UNCHANGED res

\* Mutated form of TimedOut: the poll has no budget.
PollForever == FALSE

TimedOut == polls + 1 = PollMax

\* wait_while_busy, one status read.
Wait ==
  /\ pc = "wait"
  /\ \/ Fault /\ Return("XFER") /\ UNCHANGED <<done, polls>>
     \/ NoFault /\ ~Busy /\ Advance /\ UNCHANGED polls
     \/ /\ NoFault /\ Busy
        /\ IF TimedOut
           THEN Return("TIMEOUT") /\ UNCHANGED polls
           ELSE polls' = Smaller(polls + 1, PollMax) /\ UNCHANGED <<pc, res>>
        /\ UNCHANGED done
  /\ UNCHANGED <<part, control, call, got, issuer>>

\* Reads go through one buffer of a page: chunks of its size, from any
\* address.
ReadLen == Smaller(PageSize, job.len - done)

ReadChunk ==
  /\ pc = "read"
  /\ \/ Fault /\ Return("XFER") /\ UNCHANGED <<done, got>>
     \/ /\ NoFault
        /\ \E bytes \in ReadOut(job.base + done, ReadLen) : got' = got \o bytes
        /\ done' = done + ReadLen
        /\ IF done + ReadLen < job.len THEN UNCHANGED <<pc, res>> ELSE Return("OK")
  /\ UNCHANGED <<part, control, call, polls, issuer>>

\* No call is running.
Nobody ==
  /\ pc' = "idle" /\ job' = NoJob /\ done' = 0 /\ polls' = 0
  /\ got' = <<>> /\ res' = "none"
  /\ before' = [a \in Addresses |-> {}] /\ clean' = FALSE

\* The caller takes the result.
Deliver ==
  /\ pc = "return"
  /\ Nobody
  /\ UNCHANGED <<part, control, calls, issuer, budget>>

Driver == WriteEnable \/ Command \/ Wait \/ ReadChunk \/ Deliver

-----------------------------------------------------------------------------
(* Who has the controller.                                                 *)

\* qspi_flash_init: nothing at all when it believes it has been done.
Configure(already) ==
  \/ already /\ UNCHANGED <<mode, ready, budget>>
  \/ ~already /\ NoFault /\ mode' = "manual" /\ ready' = TRUE
  \/ ~already /\ Fault /\ mode' \in {mode, "manual"} /\ ready' = FALSE

\* Mutated form of ForceReinit: it trusts the flag.
InitOnce == Configure(ready)

ForceReinit == Configure(FALSE)

\* The BootROM loads the FSBL from this part, so it is idle by then.
FsblStarts ==
  /\ owner = "rom" /\ ~Busy /\ owner' = "fsbl"
  /\ UNCHANGED <<part, mode, saved, ready, pc, call, done, polls, got, res, issuer, budget>>

\* FsblHookBeforeBitstreamDload, which can run more than once in a boot: save
\* the controller's registers, take it over, and put them back on every way
\* out that goes on with the FSBL.
HookBorrows ==
  /\ owner = "fsbl" /\ owner' = "hook"
  /\ saved' = mode
  /\ ForceReinit
  /\ UNCHANGED <<part, pc, call, done, polls, got, res, issuer>>

HookReturns ==
  /\ owner = "hook" /\ pc = "idle" /\ owner' = "fsbl"
  /\ mode' = saved
  /\ UNCHANGED <<part, saved, ready, pc, call, done, polls, got, res, issuer, budget>>

\* The application starts, with memory of its own.
HandOff ==
  /\ owner = "fsbl" /\ owner' = "app"
  /\ ready' = FALSE
  /\ UNCHANGED <<part, mode, saved, pc, call, done, polls, got, res, issuer, budget>>

AppInit ==
  /\ owner = "app" /\ pc = "idle"
  /\ Configure(ready)
  /\ UNCHANGED <<part, owner, saved, pc, call, done, polls, got, res, issuer>>

\* A reset of the processing system does not reset the part.
ResetSystem ==
  /\ owner' = "rom" /\ mode' = "linear" /\ saved' = "linear" /\ ready' = FALSE
  /\ Nobody
  /\ UNCHANGED calls

\* multiboot_to, from the hook or from a verb.
MultibootTo ==
  /\ owner \in {"hook", "app"} /\ pc = "idle"
  /\ ResetSystem
  /\ UNCHANGED <<part, issuer, budget>>

Reset ==
  /\ Fault
  /\ ResetSystem
  /\ \/ UNCHANGED <<part, issuer>>
     \/ LosePower /\ issuer' = NoJob

PartFinishes ==
  /\ Finish /\ issuer' = NoJob
  /\ UNCHANGED <<control, pc, call, done, polls, got, res, budget>>

-----------------------------------------------------------------------------
Init ==
  /\ \E contents \in Contents : NewPart(contents)
  /\ owner = "rom" /\ mode = "linear" /\ saved = "linear" /\ ready = FALSE
  /\ pc = "idle" /\ job = NoJob /\ done = 0 /\ polls = 0 /\ got = <<>> /\ res = "none"
  /\ before = [a \in Addresses |-> {}] /\ clean = FALSE
  /\ issuer = NoJob /\ calls = 0 /\ budget = MaxFaults

Next ==
  \/ Call \/ Driver \/ PartFinishes
  \/ FsblStarts \/ HookBorrows \/ HookReturns \/ HandOff \/ AppInit \/ MultibootTo \/ Reset

Spec == Init /\ [][Next]_vars

\* The processor runs; whether the part ever finishes is its own affair.
FairSpec == Spec /\ WF_vars(Driver)

-----------------------------------------------------------------------------
\* A byte of the flash changes only as part of a call whose span holds it and
\* lies, whole, inside the one region that call may write: nothing writes
\* golden, an image call never writes the state sector, a state call never
\* writes an image, and no program wraps into bytes it was not given.
OnlyTheSpanChanges ==
  [][\A a \in Addresses : cells'[a] # cells[a] =>
       /\ a \in Span(issuer)
       /\ issuer.area \in {"image", "state"} /\ Span(issuer) \subseteq Region(issuer.area)]_vars

\* The state of the driver keeps its types, a job inside the part's address
\* range included.
TypeOK ==
  /\ cells \in [Addresses -> Byte] /\ op \in Operation /\ wel \in BOOLEAN
  /\ owner \in {"rom", "fsbl", "hook", "app"}
  /\ mode \in {"linear", "manual"} /\ saved \in {"linear", "manual"} /\ ready \in BOOLEAN
  /\ pc \in {"idle", "wren", "command", "wait", "read", "return"}
  /\ job \in Jobs /\ issuer \in Jobs
  /\ done \in 0 .. FlashSize /\ polls \in Nat /\ got \in Seq(Byte)
  /\ res \in {"none", "OK", "ARG", "RANGE", "STATE", "XFER", "TIMEOUT"}
  /\ before \in [Addresses -> Byte] /\ clean \in BOOLEAN
  /\ calls \in Nat /\ budget \in Nat

\* What the flash holds, if a call does what it was asked on what it found.
Wanted(a) ==
  IF a \notin Span(job) \/ job.cmd = "READ" THEN before[a]
  ELSE IF job.cmd = "SE" THEN {}
  ELSE before[a] \cup job.src[a - job.base + 1]

Completed ==
  /\ cells = [a \in Addresses |-> Wanted(a)]
  /\ job.cmd = "READ" => got = [k \in 1 .. job.len |-> cells[job.base + k - 1]]

\* A call that began on an idle part and answers QSPI_OK has erased,
\* programmed or read all of its span and nothing else.
OkMeansDone == pc = "return" /\ res = "OK" /\ clean => Completed

\* The driver sends its commands in manual mode only, and the FSBL gets the
\* linear controller back however the hook ends.
ControllerMode ==
  /\ pc \in {"wren", "command", "wait", "read"} => mode = "manual"
  /\ owner \in {"rom", "fsbl"} => mode = "linear"

-----------------------------------------------------------------------------
(* The inductive invariant behind the safety properties.                   *)

\* A write the guards let through: a span inside its region, and for an erase
\* the one sector.
ValidWrite(j) ==
  /\ j.cmd \in {"SE", "PP"} /\ j.area \in {"image", "state"}
  /\ 0 < j.len /\ Span(j) \subseteq Region(j.area)
  /\ j.cmd = "SE" => j.base % SectorSize = 0 /\ j.len = SectorSize
  /\ j.cmd = "PP" => j.src \in Sources

\* The call that runs has passed its checks and is not through its span.
JobInv ==
  /\ pc = "idle" => job = NoJob /\ done = 0 /\ got = <<>>
  /\ pc = "return" => res # "none"
  /\ pc \in {"wren", "command", "wait"} =>
       ValidWrite(job) /\ done < job.len /\ (job.cmd = "SE" => done = 0)
  /\ pc = "read" =>
       job.cmd = "READ" /\ done < job.len /\ Span(job) \subseteq Addresses

\* What the part is doing, it does to the span of the call that asked for it.
IssuerInv ==
  Busy => ValidWrite(issuer) /\ Reach(op) # {} /\ Reach(op) \subseteq Span(issuer)

\* A call runs only for a caller that has the controller in manual mode, and
\* the hook remembers that it found it in linear mode.
OwnerInv ==
  /\ owner \in {"rom", "fsbl"} => mode = "linear" /\ pc = "idle"
  /\ owner = "hook" => saved = "linear"
  /\ owner \in {"hook", "app"} /\ ready => mode = "manual"
  /\ pc \in {"wren", "command", "wait", "read"} => ready

\* The operation the call that runs asks the part for.
JobOp == [cmd |-> job.cmd, addr |-> job.base + done,
          data |-> IF job.cmd = "PP" THEN Chunk ELSE <<>>]

\* The bytes of the job up to the d-th are as asked, all others as before.
DoneUpTo(d) ==
  \A a \in Addresses :
    cells[a] = IF a \in job.base .. job.base + d - 1 THEN Wanted(a) ELSE before[a]

\* A call that began on an idle part has the part to itself: each chunk is
\* taken by the part and is in the cells when the wait for it is over.
CleanInv ==
  clean =>
    /\ pc \in {"wren", "command"} => ~Busy /\ DoneUpTo(done)
    /\ pc = "command" => wel
    /\ pc = "wait" =>
         IF Busy
         THEN /\ DoneUpTo(done)
              /\ op = JobOp
         ELSE DoneUpTo(done + (IF job.cmd = "PP" THEN ChunkLen ELSE job.len))
    /\ pc = "read" =>
         /\ ~Busy /\ cells = before
         /\ got = [k \in 1 .. done |-> cells[job.base + k - 1]]
    /\ pc = "return" /\ res = "OK" => ~Busy /\ Completed

DriverInv == TypeOK /\ JobInv /\ IssuerInv /\ OwnerInv /\ CleanInv

\* Every call returns, also when the part never gets ready.
CallsReturn == pc # "idle" ~> pc = "idle"

-----------------------------------------------------------------------------
(* Refinement.  While a call runs that began on an idle part, the callers  *)
(* cannot look: the flash is still as it was, until the call answers.      *)

Alone == clean /\ pc \in {"wren", "command", "wait", "read"}
Answered == pc = "return" /\ job # NoJob

Abstract == INSTANCE FlashCalls WITH
  flash <- IF Alone THEN before ELSE cells,
  asked <- job,
  quiet <- clean,
  answer <- IF Answered THEN res ELSE "none",
  data <- IF Answered /\ res = "OK" /\ job.cmd = "READ" THEN got ELSE <<>>,
  loose <- IF Alone THEN {} ELSE Reach(op)

\* To its callers each call is one step, all of it if it answers OK; and what
\* a failed call, a timeout or a reset leaves half done is in its span.
FlashPromise == Abstract!Spec
=============================================================================
