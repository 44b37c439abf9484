---------------------------- MODULE FileTransfer ----------------------------
(***************************************************************************)
(* What tftp_get promises its caller, with no server, wire, block numbers  *)
(* or timeouts in it: the buffer takes the blocks of one version of the    *)
(* file in order, each once, never more than it has room for; and the call *)
(* ends once, OK with all of that version in the buffer, or with an error. *)
(***************************************************************************)
EXTENDS Naturals, Sequences

CONSTANTS Files, FullBlocks, TailLen, BlockSize, DstLen

VARIABLES
  stored,    \* the blocks in the caller's buffer
  written,   \* their bytes
  result     \* what the call returned

None == "none"

Blocks(f) == FullBlocks[f] + 1
FileLen(f) == FullBlocks[f] * BlockSize + TailLen[f]
BlockLen(f, n) == IF n < Blocks(f) THEN BlockSize ELSE TailLen[f]

\* The buffer holds a beginning of f and nothing else.
Begins(f) == \A i \in 1 .. Len(stored) : stored[i] = [file |-> f, n |-> i]

Init == stored = <<>> /\ written = 0 /\ result = None

Store ==
  /\ result = None
  /\ \E f \in Files :
       LET n == Len(stored) + 1 IN
       /\ Begins(f) /\ n <= Blocks(f)
       /\ stored' = Append(stored, [file |-> f, n |-> n])
       /\ written' = written + BlockLen(f, n)
       /\ written' <= DstLen
  /\ UNCHANGED result

Succeed ==
  /\ result = None /\ result' = "ok"
  /\ \E f \in Files : Begins(f) /\ Len(stored) = Blocks(f) /\ written = FileLen(f)
  /\ UNCHANGED <<stored, written>>

\* "Too big" is said of a file that is, the one whose beginning was stored.
TooBig ==
  /\ result = None /\ result' = "toobig"
  /\ \E f \in Files : Begins(f) /\ FileLen(f) > DstLen
  /\ UNCHANGED <<stored, written>>

Fail ==
  /\ result = None /\ result' \in {"pcb", "timeout", "server", "proto"}
  /\ UNCHANGED <<stored, written>>

Next == Store \/ Succeed \/ TooBig \/ Fail

Spec == Init /\ [][Next]_<<stored, written, result>>
=============================================================================
