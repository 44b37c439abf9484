----------------------------- MODULE TftpClient -----------------------------
(***************************************************************************)
(* tftp_client.c: one call of tftp_get and its receive callback, against   *)
(* TftpWorld.  There is one thread: the callback runs inside net_pump(),   *)
(* where tftp_get waits ("wait") or dallies ("dally").                     *)
(***************************************************************************)
EXTENDS TftpWorld

CONSTANTS
  DstLen,       \* the caller's buffer, in bytes
  RrqRetries,   \* TFTP_RRQ_MAX_RETRIES
  AckRetries    \* TFTP_MAX_RETRIES

ASSUME ClientAssumption ==
  /\ DstLen \in Nat \ {0}
  /\ RrqRetries \in Nat \ {0}
  /\ AckRetries \in Nat \ {0}

Results == {"ok", "pcb", "timeout", "server", "proto", "toobig"}
None == "none"

ClientInit ==
  /\ pc = "start"
  /\ block = 0 /\ peerTid = NoTid
  /\ gotData = FALSE /\ lastBlock = FALSE /\ resendAck = FALSE
  /\ failed = None
  /\ written = 0 /\ stored = <<>>
  /\ retries = 0 /\ result = None

-----------------------------------------------------------------------------
(* Sending.                                                                *)

\* Where the code ignores that a send failed, the failure is a loss on the wire.
Send(m) == toServer' = Append(toServer, m)

Leave(r) == pc' = "out" /\ result' = r

\* The wholesale reset and the first RRQ.
Start ==
  /\ pc = "start"
  /\ \/ pc' = "wait" /\ Send(Rrq) /\ UNCHANGED result
     \/ Leave("pcb") /\ UNCHANGED toServer
  /\ UNCHANGED <<toClient, faults, session, xfer, retries>>

-----------------------------------------------------------------------------
(* tftp_recv_cb.                                                           *)

Fails(r) ==
  /\ failed' = r
  /\ UNCHANGED <<toServer, block, peerTid, gotData, lastBlock, resendAck, written, stored>>

Drops == UNCHANGED <<toServer, xfer>>

\* The next block in sequence, by its number on the wire.
InSequence(m) == m.n % Wrap = (block + 1) % Wrap

\* Mutated forms of Fits: the last byte of the buffer is never used; the
\* test is left out.
FitsStrictly(m) == PayloadLen(m.file, m.n) < DstLen - written

FitsAlways(m) == TRUE

Fits(m) == PayloadLen(m.file, m.n) <= DstLen - written

StoresBlock(m) ==
  /\ InSequence(m) /\ Fits(m)
  /\ written' = written + PayloadLen(m.file, m.n)
  /\ stored' = Append(stored, [file |-> m.file, n |-> m.n])
  /\ block' = m.n % Wrap
  /\ lastBlock' = (lastBlock \/ PayloadLen(m.file, m.n) < BlockSize)
  /\ gotData' = TRUE
  /\ UNCHANGED <<failed, resendAck>>

RefusesTooBig(m) ==
  /\ InSequence(m) /\ ~Fits(m)
  /\ failed' = "toobig"
  /\ UNCHANGED <<block, gotData, lastBlock, resendAck, written, stored>>

\* Mutated form of SeesDuplicate: a duplicate is a violation of the protocol.
DuplicateFails(m) ==
  /\ m.n % Wrap = block
  /\ failed' = "proto"
  /\ UNCHANGED <<block, gotData, lastBlock, resendAck, written, stored>>

SeesDuplicate(m) ==
  /\ m.n % Wrap = block
  /\ resendAck' = TRUE
  /\ UNCHANGED <<block, gotData, lastBlock, failed, written, stored>>

OutOfSequence(m) ==
  /\ ~InSequence(m) /\ m.n % Wrap # block
  /\ failed' = "proto"
  /\ UNCHANGED <<block, gotData, lastBlock, resendAck, written, stored>>

\* Mutated form of OtherTid: the TID is latched and never defended.
OtherTidAccepted(m) == FALSE

\* DATA from another port than the one that answered first: that port is told.
OtherTid(m) == peerTid # NoTid /\ m.tid # peerTid

RecvData(m) ==
  \/ /\ OtherTid(m)
     /\ Send(UnknownTid(m.tid))
     /\ UNCHANGED xfer
  \/ /\ ~OtherTid(m)
     /\ peerTid' = m.tid
     /\ StoresBlock(m) \/ RefusesTooBig(m) \/ SeesDuplicate(m) \/ OutOfSequence(m)
     /\ UNCHANGED toServer

RecvCb(m) ==
  \/ m.op = "short" /\ Fails("proto")
  \/ m.op = "alien" /\ Drops
  \/ m.op = "ERROR" /\ Fails("server")
  \/ m.op = "DATA" /\ RecvData(m)

Deliver ==
  /\ pc \in {"wait", "dally"}
  /\ toClient # <<>>
  /\ toClient' = Tail(toClient)
  /\ RecvCb(Head(toClient))
  /\ UNCHANGED <<faults, session, call>>

-----------------------------------------------------------------------------
(* The loop of tftp_get.                                                   *)

EndsFailed ==
  /\ pc = "wait" /\ failed # None
  /\ Leave(failed)
  /\ UNCHANGED <<net, faults, session, xfer, retries>>

\* Also in the dally.  Its mutated form acknowledges the block after it.
ReAcksNext ==
  /\ pc = "dally" \/ (pc = "wait" /\ failed = None)
  /\ resendAck
  /\ resendAck' = FALSE
  /\ Send(Ack(peerTid, (block + 1) % Wrap))
  /\ UNCHANGED <<toClient, faults, session, block, peerTid, gotData, lastBlock,
                 failed, written, stored, call>>

ReAcks ==
  /\ pc = "dally" \/ (pc = "wait" /\ failed = None)
  /\ resendAck
  /\ resendAck' = FALSE
  /\ Send(Ack(peerTid, block))
  /\ UNCHANGED <<toClient, faults, session, block, peerTid, gotData, lastBlock,
                 failed, written, stored, call>>

AcksBlock ==
  /\ pc = "wait" /\ failed = None /\ ~resendAck
  /\ gotData
  /\ gotData' = FALSE
  /\ retries' = 0
  /\ \/ Send(Ack(peerTid, block)) /\ pc' = (IF lastBlock THEN "dally" ELSE "wait") /\ UNCHANGED result
     \/ Leave("pcb") /\ UNCHANGED toServer
  /\ UNCHANGED <<toClient, faults, session, block, peerTid, lastBlock, resendAck, failed,
                 written, stored>>

\* The budget of the packet it waits on a reply to.
Budget == IF peerTid = NoTid THEN RrqRetries ELSE AckRetries

\* Nothing came within TFTP_TIMEOUT_TICKS.  A timeout counts as a loss when a
\* datagram is under way or the server has yet to send again; it happens all
\* the same when the bound on faults is used up, and is then counted as far as
\* the budget goes.
Waits == pc = "wait" /\ failed = None /\ ~resendAck /\ ~gotData

InTime ==
  IF Quiet /\ \A t \in Tids : ~Live(t) \/ session[t].sends = ServerSends
  THEN UNCHANGED losses
  ELSE losses' = IF losses < MaxFaults \/ losses <= Budget THEN losses + 1 ELSE losses

\* Mutated form of Retries: they are not counted (and sent into an empty queue
\* only, so that it stays short).
RetriesForever ==
  /\ Waits /\ toServer = <<>>
  /\ InTime
  /\ Send(IF peerTid = NoTid THEN Rrq ELSE Ack(peerTid, block))
  /\ UNCHANGED <<toClient, copies, disorder, session, xfer, call>>

Retries ==
  /\ Waits /\ retries < Budget
  /\ retries' = retries + 1
  /\ InTime
  /\ Send(IF peerTid = NoTid THEN Rrq ELSE Ack(peerTid, block))
  /\ UNCHANGED <<toClient, copies, disorder, session, xfer, pc, result>>

\* Mutated form of TimesOut: one retry short.
TimesOutEarly ==
  /\ Waits /\ retries + 1 >= Budget
  /\ Leave("timeout")
  /\ InTime
  /\ UNCHANGED <<net, copies, disorder, session, xfer, retries>>

TimesOut ==
  /\ Waits /\ retries >= Budget
  /\ Leave("timeout")
  /\ InTime
  /\ UNCHANGED <<net, copies, disorder, session, xfer, retries>>

\* The dally is over and the port is closed.
EndsDally ==
  /\ pc = "dally" /\ ~resendAck
  /\ Leave("ok")
  /\ UNCHANGED <<net, faults, session, xfer, retries>>

TftpGet ==
  \/ Start \/ Deliver \/ EndsFailed \/ ReAcks \/ AcksBlock \/ Retries \/ TimesOut \/ EndsDally

Init == WorldInit /\ ClientInit

\* Bound: what happens to the wire and the server once the port is closed is
\* not followed.
Next == TftpGet \/ (pc # "out" /\ (Wire \/ Server))

Spec == Init /\ [][Next]_vars

\* Whatever arrives, a datagram at a time, the loop goes on and the clock with
\* it.  A repeated block starts the second of a wait again, but not the dally's.
Loop == Start \/ EndsFailed \/ ReAcks \/ AcksBlock \/ Retries \/ TimesOut

\* The processor keeps running tftp_get.  Nothing is assumed of the server or
\* of the wire.
FairSpec == Spec /\ WF_vars(Loop) /\ SF_vars(EndsDally)

-----------------------------------------------------------------------------

Datagrams ==
  [op : {"DATA"}, tid : Tids, file : Files, n : Nat \ {0}]
    \cup [op : {"ERROR"}, tid : Tids] \cup [op : Strays]

Requests ==
  [op : {"RRQ"}] \cup [op : {"ACK"}, tid : Tids, block : 0 .. Wrap - 1]
    \cup [op : {"ERROR"}, tid : Tids]

\* The types of both ends and of the wire; the buffer is never overrun.
TypeOK ==
  /\ toClient \in Seq(Datagrams)
  /\ toServer \in Seq(Requests)
  /\ session \in [Tids -> Sessions]
  /\ losses \in Nat /\ copies \in Nat /\ disorder \in Nat
  /\ pc \in {"start", "wait", "dally", "out"}
  /\ block \in 0 .. Wrap - 1
  /\ peerTid \in Tids \cup {NoTid}
  /\ gotData \in BOOLEAN /\ lastBlock \in BOOLEAN /\ resendAck \in BOOLEAN
  /\ failed \in Results \cup {None}
  /\ written \in 0 .. DstLen
  /\ stored \in Seq([file : Files, n : Nat \ {0}])
  /\ retries \in Nat
  /\ result \in Results \cup {None}

\* All blocks of a file, in order, each once.
Whole(f) == [n \in 1 .. Blocks(f) |-> [file |-> f, n |-> n]]

\* TFTP_OK means that the buffer holds one version of the file, all of it and
\* nothing else, and *out_len is its length, whatever was lost, doubled or
\* late and however many sessions the repeated RRQs opened.
OkMeansWhole ==
  result = "ok" => \E f \in Files : stored = Whole(f) /\ written = FileLen(f)

\* A session the server believes complete is the one the client latched, and
\* the client has stored all of it: no ACK runs ahead of its block, not even
\* one that answers a duplicate (note 5).
DoneMeansStored ==
  \A t \in Tids : session[t].state = "done" =>
    t = peerTid /\ stored = Whole(session[t].file)

\* TFTP_ERR_TOOBIG is returned for a file that does not fit and for no other.
TooBigIsTooBig ==
  failed = "toobig" => FileLen(session[peerTid].file) > DstLen

\* Against a server in lockstep, on a wire that loses and doubles but keeps
\* the order, no retransmission of either end looks like TFTP_ERR_PROTO.
ProtoNeedsDisorder == failed = "proto" => disorder > 0

\* The budgets are what the header says: the call times out only when more
\* datagrams were lost, or more timeouts came early, than there are retries in
\* the phase it was in.
RetriesOutlast ==
  result = "timeout" => losses > (IF peerTid = NoTid THEN RrqRetries ELSE AckRetries)

\* tftp_get returns, whatever the server and the wire do, unless the block it
\* has already is repeated to it without end while it waits for the next:
\* each repetition is acknowledged and restarts the wait, and no retry is
\* counted (tftp_client.c:404 and 415-418).
TransferEnds ==
  <>[](pc = "wait" => ~resendAck) => (pc = "wait" ~> pc = "out")

\* tftp_client.c:53-55 and 228-233: a packet from any other port than the
\* latched one is answered and otherwise ignored.
OtherPortsIgnored ==
  [][ /\ toClient # <<>> /\ toClient' = Tail(toClient)
      /\ Head(toClient).op \in {"DATA", "ERROR"} /\ peerTid # NoTid
      /\ Head(toClient).tid # peerTid
      => UNCHANGED failed ]_vars

-----------------------------------------------------------------------------
(* Refinement                                                              *)

Transfer == INSTANCE FileTransfer

\* A call of tftp_get is one transfer of one version of the file, or fails and
\* says why: nothing of the server, the wire or the retries shows in the buffer.
TransferPromise == Transfer!Spec
=============================================================================
