------------------------------- MODULE NorPart -------------------------------
(***************************************************************************)
(* The serial NOR flash on the board's QSPI bus, as qspi_flash.h relies on *)
(* it: page program, sector erase, write enable, read, and a status that   *)
(* says whether the last program or erase is still in progress.            *)
(*                                                                         *)
(* While it is, the part ignores every command but the status read.        *)
(* Programming clears bits and wraps within a page; erasing sets them all. *)
(* A byte is the set of its bits that are 0, so {} is an erased byte and   *)
(* programming is union.                                                   *)
(***************************************************************************)
EXTENDS Naturals, Sequences

CONSTANTS
  Bits,        \* the bits of a byte
  PageSize,    \* QSPI_PAGE_SIZE
  SectorSize,  \* QSPI_SECTOR_SIZE
  FlashSize    \* QSPI_FLASH_SIZE

ASSUME GeometryAssumption ==
  /\ PageSize \in Nat \ {0}
  /\ SectorSize \in Nat \ {0}
  /\ FlashSize \in Nat \ {0}

VARIABLES
  cells,  \* the contents
  op,     \* the program or erase in progress
  wel     \* write enable latch

part == <<cells, op, wel>>

Byte == SUBSET Bits
Addresses == 0 .. FlashSize - 1
NoOp == [cmd |-> "none", addr |-> 0, data |-> <<>>]
Operation == [cmd : {"none", "SE", "PP"}, addr : Addresses, data : Seq(Byte)]
Busy == op.cmd # "none"

PageOffset(addr) == addr % PageSize
SectorBase(addr) == addr - (addr % SectorSize)

\* Where byte k of a page program that starts at addr lands, counting from
\* 0: past the end of the page it starts again at its beginning.
Lands(addr, k) ==
  IF PageOffset(addr) + k < PageSize THEN addr + k ELSE addr + k - PageSize

SectorOf(addr) == SectorBase(addr) .. SectorBase(addr) + SectorSize - 1

\* The addresses an operation writes.
Reach(o) ==
  CASE o.cmd = "SE" -> SectorOf(o.addr)
    [] o.cmd = "PP" -> {Lands(o.addr, k - 1) : k \in DOMAIN o.data}
    [] OTHER -> {}

\* What it leaves at one of them.
Result(o, a) ==
  IF o.cmd = "SE" THEN {}
  ELSE cells[a] \cup UNION {o.data[k] : k \in {j \in DOMAIN o.data : Lands(o.addr, j - 1) = a}}

NewPart(contents) == cells = contents /\ op = NoOp /\ wel = FALSE

\* The part takes a command.
WriteEnabled == wel' = (wel \/ ~Busy) /\ UNCHANGED <<cells, op>>

Started(cmd, addr, data) ==
  /\ op' = IF ~Busy /\ wel
           THEN [cmd |-> cmd, addr |-> addr, data |-> data] ELSE op
  /\ UNCHANGED <<cells, wel>>

\* What a read of n bytes at addr may clock in: the contents, or whatever
\* is on an undriven bus while the part is busy.
ReadOut(addr, n) ==
  IF Busy THEN {[k \in 1 .. n |-> b] : b \in {{}, Bits}}
  ELSE {[k \in 1 .. n |-> cells[addr + k - 1]]}

\* The operation in progress completes.
Finish ==
  /\ Busy
  /\ cells' = [a \in Addresses |-> IF a \in Reach(op) THEN Result(op, a) ELSE cells[a]]
  /\ op' = NoOp /\ wel' = FALSE

\* Power goes: what the operation was writing is left as it was, as it was
\* to become, or as neither.
LosePower ==
  /\ \E torn \in {"before", "after", "neither"} :
       cells' = [a \in Addresses |->
                   IF a \notin Reach(op) \/ torn = "before" THEN cells[a]
                   ELSE IF torn = "after" THEN Result(op, a) ELSE Bits]
  /\ op' = NoOp /\ wel' = FALSE
=============================================================================
