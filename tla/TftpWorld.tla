------------------------------ MODULE TftpWorld ------------------------------
(***************************************************************************)
(* The other side of the board's TFTP client: the UDP wire and the host's  *)
(* TFTP server, as tftp_client.c and its documents describe them, with the *)
(* variables of both ends.                                                 *)
(*                                                                         *)
(* The server answers every RRQ from a new port, its TID, and serves in    *)
(* lockstep: it sends a block, waits for its ACK, ignores any other ACK,   *)
(* sends the block again when no ACK comes, and gives up in the end.       *)
(* Between two requests the operator may have put another file in place,   *)
(* or none.                                                                *)
(***************************************************************************)
EXTENDS Naturals, Sequences, SequencesExt

CONSTANTS
  Files,        \* versions of the file the board asks for
  Missing,      \* no file in place
  FullBlocks,   \* blocks of BlockSize bytes in each
  TailLen,      \* bytes after them, in the last block it is sent in
  BlockSize,    \* TFTP_BLOCK_SIZE
  Wrap,         \* block numbers are modulo this: 2^16
  ServerSends,  \* bound: times the server sends one block
  MaxSessions,  \* bound: sessions the server opens
  MaxFaults,    \* bound: losses, copies, late and stray datagrams
  Echoes        \* bound: datagrams to the client while one is repeated without end

ASSUME FilesAssumption ==
  /\ Missing \notin Files
  /\ FullBlocks \in [Files -> Nat]
  /\ TailLen \in [Files -> 0 .. BlockSize - 1]
ASSUME SizesAssumption ==
  /\ BlockSize \in Nat \ {0}
  /\ Wrap \in Nat \ {0, 1, 2}
  /\ ServerSends \in Nat \ {0}
  /\ MaxSessions \in Nat
  /\ MaxFaults \in Nat /\ Echoes \in Nat

\* The TIDs, in the order the server takes them.
Tids == 1 .. MaxSessions
NoTid == 0

\* A file is sent in full blocks and a last one that is shorter, empty when
\* the length is a multiple of BlockSize.
Blocks(f) == FullBlocks[f] + 1
PayloadLen(f, n) == IF n < Blocks(f) THEN BlockSize ELSE TailLen[f]
FileLen(f) == FullBlocks[f] * BlockSize + TailLen[f]

\* What reaches the client's port.  A DATA carries block n of f; its number
\* on the wire is n % Wrap.
Data(t, f, n) == [op |-> "DATA", tid |-> t, file |-> f, n |-> n]
Error(t) == [op |-> "ERROR", tid |-> t]

\* What reaches the server.
Rrq == [op |-> "RRQ"]
Ack(t, b) == [op |-> "ACK", tid |-> t, block |-> b]
UnknownTid(t) == [op |-> "ERROR", tid |-> t]

\* Datagrams that are no part of any transfer: too short for a header, from
\* whatever host, or from a host that was not asked.
Strays == {"short", "alien"}

VARIABLES
  toClient,   \* datagrams under way to the client's port
  toServer,   \* datagrams under way to the server
  session,    \* the server's sessions
  losses,     \* datagrams lost, and timeouts that came too early
  copies,     \* datagrams delivered twice
  disorder,   \* datagrams delivered late, and strays
  pc,         \* where tftp_get stands
  block,      \* xfer.block
  peerTid,    \* xfer.peer_tid
  gotData,    \* xfer.got_data
  lastBlock,  \* xfer.last_block
  resendAck,  \* xfer.resend_ack
  failed,     \* xfer.failed
  written,    \* xfer.written
  stored,     \* the blocks in xfer.dst
  retries,    \* retries of tftp_get
  result      \* what tftp_get returns

net == <<toClient, toServer>>
faults == <<losses, copies, disorder>>
xfer == <<block, peerTid, gotData, lastBlock, resendAck, failed, written, stored>>
call == <<pc, retries, result>>
vars == <<net, faults, session, xfer, call>>

-----------------------------------------------------------------------------

FaultsLeft == losses + copies + disorder < MaxFaults

WorldInit ==
  /\ toClient = <<>> /\ toServer = <<>>
  /\ session = [t \in Tids |->
       [state |-> "free", file |-> Missing, n |-> 1, sends |-> 0]]
  /\ losses = 0 /\ copies = 0 /\ disorder = 0

Sessions ==
  [state : {"free", "live", "done", "gone"}, file : Files \cup {Missing},
   n : Nat \ {0}, sends : Nat]

Live(t) == session[t].state = "live"

\* The next datagram of a queue may be lost.
Lose ==
  /\ FaultsLeft
  /\ losses' = losses + 1
  /\ \/ toClient # <<>> /\ toClient' = Tail(toClient) /\ UNCHANGED toServer
     \/ toServer # <<>> /\ toServer' = Tail(toServer) /\ UNCHANGED toClient
  /\ UNCHANGED <<copies, disorder, session, xfer, call>>

\* The next datagram of a queue may be doubled.  What is under way to the
\* client may be delivered again and again, without end.
Double ==
  /\ \/ FaultsLeft /\ copies' = copies + 1
     \/ toServer = <<>> /\ Len(toClient) < Echoes /\ UNCHANGED copies
  /\ \/ toClient # <<>> /\ toClient' = <<Head(toClient)>> \o toClient /\ UNCHANGED toServer
     \/ toServer # <<>> /\ toServer' = <<Head(toServer)>> \o toServer /\ UNCHANGED toClient
  /\ UNCHANGED <<losses, disorder, session, xfer, call>>

\* A later datagram may overtake those before it, and a stray may turn up.
Overtake ==
  /\ FaultsLeft
  /\ disorder' = disorder + 1
  /\ \E i \in 2 .. Len(toClient) :
       toClient' = <<toClient[i]>> \o RemoveAt(toClient, i)
  /\ UNCHANGED <<toServer, losses, copies, session, xfer, call>>

Stray ==
  /\ FaultsLeft
  /\ disorder' = disorder + 1
  /\ \E op \in Strays : toClient' = <<[op |-> op]>> \o toClient
  /\ UNCHANGED <<toServer, losses, copies, session, xfer, call>>

-----------------------------------------------------------------------------

\* RRQ: a session of its own, which reads the file then in place.
Opens(t, f) ==
  /\ toServer # <<>> /\ Head(toServer) = Rrq
  /\ session[t].state = "free"
  /\ \A u \in 1 .. t - 1 : session[u].state # "free"
  /\ toServer' = Tail(toServer)
  /\ IF f = Missing
     THEN /\ session' = [session EXCEPT ![t].state = "gone"]
          /\ toClient' = Append(toClient, Error(t))
     ELSE /\ session' = [session EXCEPT ![t] =
               [state |-> "live", file |-> f, n |-> 1, sends |-> 1]]
          /\ toClient' = Append(toClient, Data(t, f, 1))
  /\ UNCHANGED <<faults, xfer, call>>

\* The ACK of the block it sent: the next block, or the end.
Advances(t) ==
  LET s == session[t] IN
  /\ toServer # <<>> /\ Live(t) /\ Head(toServer) = Ack(t, s.n % Wrap)
  /\ toServer' = Tail(toServer)
  /\ IF s.n = Blocks(s.file)
     THEN /\ session' = [session EXCEPT ![t].state = "done"]
          /\ UNCHANGED toClient
     ELSE /\ session' = [session EXCEPT ![t].n = s.n + 1, ![t].sends = 1]
          /\ toClient' = Append(toClient, Data(t, s.file, s.n + 1))
  /\ UNCHANGED <<faults, xfer, call>>

\* ERROR ends a session.
Aborts(t) ==
  /\ toServer # <<>> /\ Head(toServer) = UnknownTid(t) /\ Live(t)
  /\ toServer' = Tail(toServer)
  /\ session' = [session EXCEPT ![t].state = "gone"]
  /\ UNCHANGED <<toClient, faults, xfer, call>>

\* Any other ACK or ERROR is ignored.  (An RRQ the server has no port left
\* for can only be lost.)
Ignores ==
  /\ toServer # <<>>
  /\ LET m == Head(toServer) IN
       /\ m # Rrq
       /\ ~Live(m.tid) \/ (m.op = "ACK" /\ m.block # session[m.tid].n % Wrap)
  /\ toServer' = Tail(toServer)
  /\ UNCHANGED <<toClient, faults, session, xfer, call>>

\* A timeout while something is under way, or about to be sent, counts as a
\* loss.
Quiet == toClient = <<>> /\ toServer = <<>> /\ ~gotData /\ ~resendAck

Early == IF Quiet THEN UNCHANGED losses ELSE FaultsLeft /\ losses' = losses + 1

SendsAgain(t) ==
  /\ Live(t) /\ session[t].sends < ServerSends
  /\ Early
  /\ session' = [session EXCEPT ![t].sends = @ + 1]
  /\ toClient' = Append(toClient, Data(t, session[t].file, session[t].n))
  /\ UNCHANGED <<toServer, copies, disorder, xfer, call>>

GivesUp(t) ==
  /\ Live(t) /\ session[t].sends = ServerSends
  /\ Early
  /\ session' = [session EXCEPT ![t].state = "gone"]
  /\ UNCHANGED <<net, copies, disorder, xfer, call>>

Wire == Lose \/ Double \/ Overtake \/ Stray

Server ==
  \/ Ignores
  \/ \E t \in Tids :
       \/ \E f \in Files \cup {Missing} : Opens(t, f)
       \/ Advances(t) \/ Aborts(t) \/ SendsAgain(t) \/ GivesUp(t)
=============================================================================
