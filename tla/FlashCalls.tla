----------------------------- MODULE FlashCalls -----------------------------
(***************************************************************************)
(* What the flash driver promises its callers, with no commands, pages,    *)
(* chunks, status reads or write enables in it.  A call that finds the     *)
(* part with nothing in progress changes its whole span at once if it says *)
(* OK, and nothing but its span if it does not.  Other calls change        *)
(* nothing but their span and what an earlier call had not finished.       *)
(***************************************************************************)
EXTENDS Naturals, Sequences

CONSTANTS Bits, FlashSize, SectorSize, WriteFloor, WriteCeil, StateAddr, Sources, Null

VARIABLES
  flash,   \* the contents
  asked,   \* the call under way, or NoJob
  quiet,   \* it found nothing in progress
  answer,  \* its result, when it has one
  data,    \* what a read stored in its buffer
  loose    \* the addresses that a write already given up may still change

vars == <<flash, asked, quiet, answer, data, loose>>

Addresses == 0 .. FlashSize - 1
NoJob == [cmd |-> "READ", area |-> "any", base |-> 0, len |-> 0, src |-> Null]

Span(j) == j.base .. j.base + j.len - 1
Written(j) == IF j.cmd = "READ" THEN {} ELSE Span(j)

\* The calls that are not refused: of something, and inside their region.
Confined(j) ==
  \/ j.cmd = "READ" /\ Span(j) \subseteq Addresses
  \/ j.area = "image" /\ Span(j) \subseteq WriteFloor .. WriteCeil - 1
  \/ j.area = "state" /\ Span(j) \subseteq StateAddr .. StateAddr + SectorSize - 1

Calls ==
  {j \in [cmd : {"READ", "SE", "PP"}, area : {"any", "image", "state"},
          base : Addresses, len : 1 .. FlashSize, src : Sources \cup {Null}] :
     /\ Confined(j)
     /\ j.cmd = "SE" => j.len = SectorSize
     /\ j.cmd = "PP" => j.src \in Sources}

\* What the flash holds when a call has done what it was asked.
Done(j) ==
  [a \in Addresses |->
     IF a \notin Written(j) THEN flash[a]
     ELSE IF j.cmd = "SE" THEN {} ELSE flash[a] \cup j.src[a - j.base + 1]]

Stretch(j) == [k \in 1 .. j.len |-> flash[j.base + k - 1]]

Running == asked # NoJob /\ answer = "none"

AtRisk == loose \cup (IF Running THEN Written(asked) ELSE {})

\* Nothing changes, now or later, but what is at risk.
Disturbed ==
  /\ flash' \in [Addresses -> SUBSET Bits]
  /\ \A a \in Addresses \ AtRisk : flash'[a] = flash[a]
  /\ loose' \subseteq AtRisk

-----------------------------------------------------------------------------
Init ==
  /\ flash \in [Addresses -> SUBSET Bits]
  /\ asked = NoJob /\ quiet = FALSE /\ answer = "none" /\ data = <<>> /\ loose = {}

Ask ==
  /\ asked = NoJob /\ asked' \in Calls
  /\ quiet' = (loose = {})
  /\ UNCHANGED <<flash, answer, data, loose>>

Succeed ==
  /\ Running /\ quiet /\ answer' = "OK"
  /\ flash' = Done(asked) /\ loose' = {}
  /\ data' = IF asked.cmd = "READ" THEN Stretch(asked) ELSE <<>>
  /\ UNCHANGED <<asked, quiet>>

\* An OK that says nothing: the call found the part in the middle of another.
SeemToSucceed ==
  /\ Running /\ ~quiet /\ answer' = "OK"
  /\ Disturbed /\ data' \in Seq(SUBSET Bits)
  /\ UNCHANGED <<asked, quiet>>

Fail ==
  /\ Running /\ answer' \in {"XFER", "TIMEOUT"}
  /\ Disturbed
  /\ UNCHANGED <<asked, quiet, data>>

\* A write that was given up goes on by itself, and so does a call that is
\* mixed up with one.
Settle ==
  /\ ~(Running /\ quiet)
  /\ Disturbed
  /\ UNCHANGED <<asked, quiet, answer, data>>

Nobody == asked' = NoJob /\ quiet' = FALSE /\ answer' = "none" /\ data' = <<>>

Return == asked # NoJob /\ answer # "none" /\ Nobody /\ UNCHANGED <<flash, loose>>

Reset == Disturbed /\ Nobody

Next == Ask \/ Succeed \/ SeemToSucceed \/ Fail \/ Settle \/ Return \/ Reset

Spec == Init /\ [][Next]_vars
=============================================================================
