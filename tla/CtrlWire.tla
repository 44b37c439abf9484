------------------------------ MODULE CtrlWire ------------------------------
(***************************************************************************)
(* The UDP wire between the operators' hosts and port 6100 of the board,   *)
(* and the variables of the two ends.  The wire loses, delays and reorders *)
(* datagrams; it may deliver one twice, MaxCopies times in all.            *)
(*                                                                         *)
(* A datagram carries one line.  A request line is one of Texts: a verb of *)
(* ctrl_verb_t, a token the parser does not know, a line that is too long. *)
(* A host opens a new UDP socket for every request it makes, so the        *)
(* source address of a datagram, its Socket, tells what was asked from it. *)
(***************************************************************************)
EXTENDS Naturals, Sequences, FiniteSets

CONSTANTS
  Operators,    \* hosts on which somebody runs host/ctrl.sh
  Texts,        \* the request lines they may send
  MaxOpens,     \* bound: sockets one host opens
  MaxCopies,    \* bound: datagrams the wire delivers twice
  MaxEras,      \* bound: resets of the board
  RingSlots,    \* datagrams the MAC holds until the main loop pumps them
  NoSocket      \* no requester recorded, no socket open

Verbs == {"STATUS", "UPDATE", "SWITCH", "GOLDEN"}

ASSUME TextsAssumption == Texts \subseteq Verbs \cup {"unknown", "long"}
ASSUME BoundsAssumption ==
  /\ MaxOpens \in Nat \ {0}
  /\ MaxCopies \in Nat
  /\ MaxEras \in Nat
  /\ RingSlots \in Nat \ {0}

None == "none"

Sockets == [op : Operators, n : 1 .. MaxOpens, text : Texts]
ASSUME NoSocketAssumption == NoSocket \notin Sockets

\* The first word of a reply and what it is about.  "report" is OK STATUS,
\* "started", "installed" and "failed" are the answers of UPDATE, "going" is
\* the OK of a verb that is about to reset the board, "refused" an ERR of a
\* handler, "busy" and "parse" the ERRs of the receive callback.
Kinds == {"report", "started", "installed", "failed", "going", "refused", "busy", "parse"}

\* `verb' is the verb the line names; `era', which no datagram carries, is
\* the number of resets the board had been through when it sent the line.
Replies == [to : Sockets, verb : Texts, kind : Kinds, era : 0 .. MaxEras]

VARIABLES
  toBoard,   \* the sockets whose request is under way to the board
  toHost,    \* the replies under way to the hosts
  copies,    \* datagrams delivered twice so far
  ring,      \* what the MAC received and net_pump() has not delivered yet
  pending,   \* ctrl_pending
  busy,      \* ctrl_busy
  hasPeer,   \* ctrl_has_peer
  peer,      \* ctrl_peer_ip and ctrl_peer_port
  role,      \* what this boot runs as: is_golden
  pc,        \* where the main loop stands
  verb,      \* the verb it runs
  origin,    \* whether that verb came from the wire or from the menu
  era,       \* resets so far
  ran,       \* the sockets whose request, other than STATUS, the board started
  reruns,    \* times it started one of those again
  client     \* the run of ctrl.sh on each host

wire == <<toBoard, toHost, copies>>
statics == <<pending, busy, hasPeer, peer>>
ghosts == <<ran, reruns>>
loop == <<pc, verb, origin, ghosts>>
boot == <<role, era>>
board == <<ring, statics, loop, boot>>
vars == <<wire, board, client>>

-----------------------------------------------------------------------------

Open(s) == \E h \in Operators : client[h].sock = s

\* A datagram reaches the MAC's ring, if the board is up and a slot is free.
\* `during' records where the main loop stood when it did.
Arrive(s) ==
  /\ s \in toBoard
  /\ pc # "boot"
  /\ Len(ring) < RingSlots
  /\ ring' = Append(ring, [from |-> s, during |-> pc])
  /\ \/ toBoard' = toBoard \ {s} /\ UNCHANGED copies
     \/ copies < MaxCopies /\ copies' = copies + 1 /\ UNCHANGED toBoard
  /\ UNCHANGED <<toHost, statics, loop, boot, client>>

\* A request is lost: on the link, in a full ring, at a board whose port is
\* not bound.  (A reply may be lost where it is sent.)
Vanish ==
  /\ \E s \in toBoard : toBoard' = toBoard \ {s}
  /\ UNCHANGED <<toHost, copies, board, client>>

Wire == Vanish \/ \E s \in toBoard : Arrive(s)
=============================================================================
