----------------------------- MODULE TftpProofs -----------------------------
(***************************************************************************)
(* Proofs about one call of tftp_get, for any files, budgets and faults.   *)
(***************************************************************************)
EXTENDS TftpClient, SequenceTheorems, TLAPS

\* The caller's buffer does not hold Wrap - 1 blocks: those are 32 MiB, and the
\* updater passes the 9 MiB of a slot.
SmallBuffer == DstLen < (Wrap - 1) * BlockSize

\* No number that either end compares has wrapped.
NoWrap ==
  /\ \A t \in Tids : session[t].state \in {"live", "done"} => session[t].n < Wrap
  /\ toClient \in Seq({m \in Datagrams : m.op = "DATA" => m.n < Wrap})

\* A session that reads a file.
Reads(t) == session[t].state # "free" /\ session[t].file \in Files

SessionsInv ==
  \A t \in Tids : session[t].state \in {"live", "done"} =>
    Reads(t) /\ session[t].n <= Blocks(session[t].file)

\* The datagrams a lockstep server and the strays may have sent, and the
\* requests that do not run ahead of what is stored.
Genuine ==
  {m \in Datagrams : m.op = "DATA" =>
     /\ session[m.tid].state # "free"
     /\ session[m.tid].file = m.file
     /\ m.n <= Blocks(m.file)}

Behind == {m \in Requests : m.op = "ACK" => m.tid = peerTid /\ m.block <= block}

WireInv == toClient \in Seq(Genuine) /\ toServer \in Seq(Behind)

\* What is stored is a prefix of the file of the latched session.
Prefix(f) ==
  /\ block <= Blocks(f)
  /\ \A i \in 1 .. block : stored[i] = [file |-> f, n |-> i]
  /\ written = IF block < Blocks(f) THEN block * BlockSize ELSE FileLen(f)
  /\ lastBlock <=> block = Blocks(f)

XferInv ==
  /\ Len(stored) = block
  /\ gotData \/ resendAck => peerTid # NoTid
  /\ peerTid = NoTid => block = 0 /\ written = 0 /\ ~lastBlock
  /\ peerTid # NoTid => Reads(peerTid) /\ Prefix(session[peerTid].file)

\* Who may say that the transfer is complete.
DoneInv ==
  /\ pc = "dally" \/ result = "ok" => lastBlock
  /\ failed # "ok"
  /\ \A t \in Tids : session[t].state = "done" => t = peerTid /\ lastBlock

TransferInv == TypeOK /\ SessionsInv /\ WireInv /\ XferInv /\ DoneInv

-----------------------------------------------------------------------------
(* Facts about numbers, sequences and the sets above.                      *)

LEMMA ModSmall ==
  ASSUME NEW n \in Nat, n < Wrap
  PROVE  n % Wrap = n
  BY SizesAssumption

LEMMA ModRange ==
  ASSUME NEW n \in Nat
  PROVE  n % Wrap \in 0 .. Wrap - 1
  BY SizesAssumption

LEMMA FileShape ==
  ASSUME NEW f \in Files
  PROVE  /\ FullBlocks[f] \in Nat
         /\ Blocks(f) \in Nat \ {0}
         /\ TailLen[f] \in Nat
         /\ TailLen[f] < BlockSize
         /\ FileLen(f) = (Blocks(f) - 1) * BlockSize + TailLen[f]
  BY FilesAssumption, SizesAssumption DEF Blocks, FileLen

LEMMA Single ==
  ASSUME NEW S, NEW x \in S
  PROVE  <<x>> \in Seq(S)
  BY EmptySeq, AppendProperties

LEMMA Prepend ==
  ASSUME NEW S, NEW q \in Seq(S), NEW x \in S
  PROVE  <<x>> \o q \in Seq(S)
  BY Single, ConcatProperties

LEMMA RemovedFrom ==
  ASSUME NEW S, NEW q \in Seq(S), NEW i \in 1 .. Len(q)
  PROVE  RemoveAt(q, i) \in Seq(S)
<1>1. Len(q) \in Nat /\ \A j \in 1 .. Len(q) : q[j] \in S
  BY LenProperties, ElementOfSeq
<1>2. SubSeq(q, 1, i - 1) \in Seq(S)
  BY <1>1, SubSeqProperties
<1>3. SubSeq(q, i + 1, Len(q)) \in Seq(S)
  BY <1>1, SubSeqProperties
<1> QED
  BY <1>2, <1>3, ConcatProperties DEF RemoveAt

\* The server never forgets which file a session reads.
LEMMA GenuineKept ==
  ASSUME TypeOK,
         \A t \in Tids : session[t].state # "free" =>
           session'[t].state # "free" /\ session'[t].file = session[t].file
  PROVE  Genuine \subseteq Genuine'
  BY DEF Genuine, Datagrams, Strays

\* Nothing that is acknowledged is taken back, and nothing is acknowledged
\* before a TID is latched.
LEMMA BehindKept ==
  ASSUME TypeOK, TypeOK', block <= block', peerTid' = peerTid \/ peerTid = NoTid
  PROVE  Behind \subseteq Behind'
<1> SUFFICES ASSUME NEW m \in Requests, m.op = "ACK" => m.tid = peerTid /\ m.block <= block,
                    m.op = "ACK"
             PROVE  m.tid = peerTid' /\ m.block <= block'
  BY DEF Behind
<1>1. m.tid \in Tids /\ m.block \in 0 .. Wrap - 1
  BY DEF Requests
<1>2. peerTid # NoTid
  BY <1>1 DEF Tids, NoTid
<1>3. m.block \in Nat /\ block \in Nat /\ block' \in Nat
  BY <1>1, SizesAssumption DEF TypeOK
<1> QED
  BY <1>2, <1>3

\* The sequences of TypeOK, from those of WireInv.
LEMMA WireTypes ==
  ASSUME WireInv
  PROVE  toClient \in Seq(Datagrams) /\ toServer \in Seq(Requests)
  BY SeqMonotonic DEF WireInv, Genuine, Behind

\* The next datagram's number.
LEMMA HeadBelowWrap ==
  ASSUME NoWrap, toClient # <<>>, Head(toClient).op = "DATA"
  PROVE  Head(toClient).n < Wrap
  BY HeadTailProperties DEF NoWrap

-----------------------------------------------------------------------------
(* The wire and the server.                                                *)

\* What they may do without disturbing the client.
LEMMA OtherSide ==
  ASSUME TransferInv, UNCHANGED <<xfer, call>>,
         session' \in [Tids -> Sessions],
         \A t \in Tids : session[t].state # "free" =>
           session'[t].state # "free" /\ session'[t].file = session[t].file,
         SessionsInv',
         \A t \in Tids : session'[t].state = "done" => t = peerTid /\ lastBlock,
         toClient' \in Seq(Genuine'), toServer' \in Seq(Behind),
         losses' \in Nat, copies' \in Nat, disorder' \in Nat
  PROVE  TransferInv'
<1>1. Behind' = Behind
  BY DEF Behind, xfer
<1>2. WireInv'
  BY <1>1 DEF WireInv
<1>3. (toClient \in Seq(Datagrams))' /\ (toServer \in Seq(Requests))'
  BY <1>2, SeqMonotonic DEF WireInv, Genuine, Behind
<1>4. TypeOK'
  BY <1>3 DEF TransferInv, TypeOK, xfer, call
<1>5. XferInv'
  <2>1. peerTid # NoTid => peerTid \in Tids
    BY DEF TransferInv, TypeOK
  <2> QED
    BY <2>1 DEF TransferInv, XferInv, Prefix, Reads, xfer, TypeOK
<1>6. DoneInv'
  BY DEF TransferInv, DoneInv, xfer, call
<1> QED
  BY <1>2, <1>4, <1>5, <1>6 DEF TransferInv

\* The same when no session changes.
LEMMA OnlyWire ==
  ASSUME TransferInv, UNCHANGED <<session, xfer, call>>,
         toClient' \in Seq(Genuine), toServer' \in Seq(Behind),
         losses' \in Nat, copies' \in Nat, disorder' \in Nat
  PROVE  TransferInv'
<1>1. Genuine' = Genuine
  BY DEF Genuine
<1>2. SessionsInv'
  BY DEF TransferInv, SessionsInv, Reads
<1>3. session' \in [Tids -> Sessions]
  BY DEF TransferInv, TypeOK
<1>4. \A t \in Tids : session'[t].state = "done" => t = peerTid /\ lastBlock
  BY DEF TransferInv, DoneInv
<1>5. \A t \in Tids : session[t].state # "free" =>
        session'[t].state # "free" /\ session'[t].file = session[t].file
  OBVIOUS
<1> QED
  BY <1>1, <1>2, <1>3, <1>4, <1>5, OtherSide

LEMMA WireStep ==
  ASSUME TransferInv, Wire
  PROVE  TransferInv'
<1> USE DEF TransferInv, WireInv
<1>1. losses \in Nat /\ copies \in Nat /\ disorder \in Nat
  BY DEF TypeOK
<1>2. CASE Lose
  <2>1. toClient' \in Seq(Genuine) /\ toServer' \in Seq(Behind)
    BY <1>2, HeadTailProperties DEF Lose
  <2> QED
    BY <1>1, <1>2, <2>1, OnlyWire DEF Lose
<1>3. CASE Double
  <2>1. toClient' \in Seq(Genuine)
    BY <1>3, HeadTailProperties, Prepend DEF Double
  <2>2. toServer' \in Seq(Behind)
    BY <1>3, HeadTailProperties, Prepend DEF Double
  <2> QED
    BY <1>1, <1>3, <2>1, <2>2, OnlyWire DEF Double
<1>4. CASE Overtake
  <2>1. PICK i \in 2 .. Len(toClient) : toClient' = <<toClient[i]>> \o RemoveAt(toClient, i)
    BY <1>4 DEF Overtake
  <2>2. i \in 1 .. Len(toClient)
    BY <2>1, LenProperties
  <2>3. toClient[i] \in Genuine /\ RemoveAt(toClient, i) \in Seq(Genuine)
    BY <2>2, ElementOfSeq, RemovedFrom
  <2>4. toClient' \in Seq(Genuine)
    BY <2>1, <2>3, Prepend
  <2> QED
    BY <1>1, <1>4, <2>4, OnlyWire DEF Overtake
<1>5. CASE Stray
  <2>1. PICK op \in Strays : toClient' = <<[op |-> op]>> \o toClient
    BY <1>5 DEF Stray
  <2>2. [op |-> op] \in Genuine
    BY DEF Genuine, Datagrams, Strays
  <2>3. toClient' \in Seq(Genuine)
    BY <2>1, <2>2, Prepend
  <2> QED
    BY <1>1, <1>5, <2>3, OnlyWire DEF Stray
<1> QED
  BY <1>2, <1>3, <1>4, <1>5 DEF Wire

\* A block the server sends is genuine, before and after.
LEMMA ServerSendsGenuine ==
  ASSUME NEW t \in Tids, NEW f \in Files, NEW n \in Nat \ {0}, n <= Blocks(f),
         session'[t].state # "free", session'[t].file = f,
         NEW q \in Seq(Genuine), Genuine \subseteq Genuine'
  PROVE  Append(q, Data(t, f, n)) \in Seq(Genuine')
<1>1. Data(t, f, n) \in Genuine'
  BY DEF Genuine, Data, Datagrams
<1> QED
  BY <1>1, SeqMonotonic, AppendProperties

\* A live session ends.
LEMMA SessionGoes ==
  ASSUME TransferInv, UNCHANGED <<xfer, call>>,
         NEW t \in Tids, Live(t),
         session' = [session EXCEPT ![t].state = "gone"],
         toClient' = toClient, toServer' \in Seq(Behind),
         losses' \in Nat, copies' \in Nat, disorder' \in Nat
  PROVE  TransferInv'
<1>1. session \in [Tids -> Sessions]
  BY DEF TransferInv, TypeOK
<1>2. session' \in [Tids -> Sessions]
  BY <1>1 DEF Sessions
<1>3. \A u \in Tids : session[u].state # "free" =>
        session'[u].state # "free" /\ session'[u].file = session[u].file
  BY <1>1 DEF Live
<1>4. SessionsInv'
  BY <1>1 DEF TransferInv, SessionsInv, Reads
<1>5. \A u \in Tids : session'[u].state = "done" => u = peerTid /\ lastBlock
  BY <1>1 DEF TransferInv, DoneInv
<1>6. toClient' \in Seq(Genuine')
  BY <1>3, GenuineKept, SeqMonotonic DEF TransferInv, WireInv
<1> QED
  BY <1>2, <1>3, <1>4, <1>5, <1>6, OtherSide

LEMMA ServerStep ==
  ASSUME TransferInv, Server, NoWrap
  PROVE  TransferInv'
<1> USE DEF TransferInv, WireInv
<1>1. losses \in Nat /\ copies \in Nat /\ disorder \in Nat
  BY DEF TypeOK
<1>2. session \in [Tids -> Sessions]
  BY DEF TypeOK
<1>3. \A q \in Seq(Behind) : q # <<>> => Head(q) \in Behind /\ Tail(q) \in Seq(Behind)
  BY HeadTailProperties
<1>4. CASE Ignores
  BY <1>1, <1>3, <1>4, OnlyWire DEF Ignores, faults
<1>5. ASSUME NEW t \in Tids, NEW f \in Files \cup {Missing}, Opens(t, f)
      PROVE  TransferInv'
  <2> USE DEF Opens
  <2>1. /\ UNCHANGED <<xfer, call>>
        /\ losses' \in Nat /\ copies' \in Nat /\ disorder' \in Nat
    BY <1>1, <1>5 DEF faults
  <2>2. toServer' \in Seq(Behind)
    BY <1>3, <1>5
  <2>3. t # peerTid /\ session[t].state # "done"
    BY <1>5 DEF XferInv, Reads, NoTid, Tids
  <2>4. CASE f = Missing
    <3>1. session' = [session EXCEPT ![t].state = "gone"]
      BY <1>5, <2>4
    <3>2. session' \in [Tids -> Sessions]
      BY <1>2, <3>1 DEF Sessions
    <3>3. \A u \in Tids : session[u].state # "free" =>
            session'[u].state # "free" /\ session'[u].file = session[u].file
      BY <1>2, <1>5, <3>1
    <3>4. SessionsInv'
      BY <1>2, <1>5, <3>1 DEF SessionsInv, Reads
    <3>5. \A u \in Tids : session'[u].state = "done" => u = peerTid /\ lastBlock
      BY <1>2, <3>1 DEF DoneInv
    <3>6. Error(t) \in Genuine'
      BY DEF Error, Genuine, Datagrams
    <3>7. toClient' \in Seq(Genuine')
      BY <1>5, <2>4, <3>3, <3>6, GenuineKept, SeqMonotonic, AppendProperties
    <3> QED
      BY <2>1, <2>2, <3>2, <3>3, <3>4, <3>5, <3>7, OtherSide
  <2>5. CASE f # Missing
    <3>1. /\ f \in Files
          /\ session' = [session EXCEPT ![t] =
               [state |-> "live", file |-> f, n |-> 1, sends |-> 1]]
          /\ toClient' = Append(toClient, Data(t, f, 1))
      BY <1>5, <2>5
    <3>2. session' \in [Tids -> Sessions]
      BY <1>2, <3>1 DEF Sessions
    <3>3. \A u \in Tids : session[u].state # "free" =>
            session'[u].state # "free" /\ session'[u].file = session[u].file
      BY <1>2, <1>5, <3>1
    <3>4. Blocks(f) \in Nat \ {0}
      BY <3>1, FileShape
    <3>5. SessionsInv'
      BY <1>2, <3>1, <3>4 DEF SessionsInv, Reads
    <3>6. \A u \in Tids : session'[u].state = "done" => u = peerTid /\ lastBlock
      BY <1>2, <3>1 DEF DoneInv
    <3>7. session'[t].state # "free" /\ session'[t].file = f
      BY <1>2, <3>1
    <3>8. toClient' \in Seq(Genuine')
      BY <3>1, <3>3, <3>4, <3>7, GenuineKept, ServerSendsGenuine
    <3> QED
      BY <2>1, <2>2, <3>2, <3>3, <3>5, <3>6, <3>8, OtherSide
  <2> QED
    BY <2>4, <2>5
<1>6. ASSUME NEW t \in Tids, Advances(t)
      PROVE  TransferInv'
  <2> DEFINE s == session[t]
  <2> USE DEF Advances
  <2>1. /\ UNCHANGED <<xfer, call>>
        /\ losses' \in Nat /\ copies' \in Nat /\ disorder' \in Nat
    BY <1>1, <1>6 DEF faults
  <2>2. toServer' \in Seq(Behind) /\ Ack(t, s.n % Wrap) \in Behind
    BY <1>3, <1>6
  <2>3. s \in Sessions /\ s.state = "live"
    BY <1>2, <1>6 DEF Live
  <2>4. Reads(t) /\ s.n \in Nat \ {0} /\ s.n <= Blocks(s.file) /\ s.file \in Files
    BY <2>3 DEF SessionsInv, Sessions, Reads
  <2>5. Blocks(s.file) \in Nat \ {0} /\ s.n < Wrap
    BY <2>3, <2>4, FileShape DEF NoWrap
  <2>6. s.n % Wrap = s.n
    BY <2>4, <2>5, SizesAssumption, ModSmall
  <2>7. t = peerTid /\ s.n <= block
    BY <2>2, <2>6 DEF Behind, Ack
  <2>8. CASE s.n = Blocks(s.file)
    <3>1. session' = [session EXCEPT ![t].state = "done"] /\ toClient' = toClient
      BY <1>6, <2>8
    <3>2. session' \in [Tids -> Sessions]
      BY <1>2, <3>1 DEF Sessions
    <3>3. \A u \in Tids : session[u].state # "free" =>
            session'[u].state # "free" /\ session'[u].file = session[u].file
      BY <1>2, <3>1
    <3>4. SessionsInv'
      BY <1>2, <2>4, <3>1 DEF SessionsInv, Reads
    <3>5. lastBlock
      BY <2>5, <2>7, <2>8 DEF XferInv, Prefix, TypeOK, Tids, NoTid
    <3>6. \A u \in Tids : session'[u].state = "done" => u = peerTid /\ lastBlock
      BY <1>2, <2>7, <3>1, <3>5 DEF DoneInv
    <3>7. toClient' \in Seq(Genuine')
      BY <3>1, <3>3, GenuineKept, SeqMonotonic
    <3> QED
      BY <2>1, <2>2, <3>2, <3>3, <3>4, <3>6, <3>7, OtherSide
  <2>9. CASE s.n # Blocks(s.file)
    <3>1. /\ session' = [session EXCEPT ![t].n = s.n + 1, ![t].sends = 1]
          /\ toClient' = Append(toClient, Data(t, s.file, s.n + 1))
      BY <1>6, <2>9
    <3>2. s.n + 1 \in Nat \ {0} /\ s.n + 1 <= Blocks(s.file)
      BY <2>4, <2>5, <2>9
    <3>3. session' \in [Tids -> Sessions]
      <4>1. [s EXCEPT !.n = s.n + 1, !.sends = 1] \in Sessions
        BY <1>2, <3>2 DEF Sessions
      <4> QED
        BY <1>2, <3>1, <4>1
    <3>4. \A u \in Tids : session[u].state # "free" =>
            session'[u].state # "free" /\ session'[u].file = session[u].file
      BY <1>2, <3>1
    <3>5. SessionsInv'
      BY <1>2, <2>4, <3>1, <3>2 DEF SessionsInv, Reads
    <3>6. \A u \in Tids : session'[u].state = "done" => u = peerTid /\ lastBlock
      BY <1>2, <2>3, <3>1 DEF DoneInv
    <3>7. session'[t].state # "free" /\ session'[t].file = s.file
      BY <2>3, <3>4
    <3>8. toClient' \in Seq(Genuine')
      BY <2>4, <3>1, <3>2, <3>4, <3>7, GenuineKept, ServerSendsGenuine
    <3> QED
      BY <2>1, <2>2, <3>3, <3>4, <3>5, <3>6, <3>8, OtherSide
  <2> QED
    BY <2>8, <2>9
<1>7. ASSUME NEW t \in Tids, Aborts(t)
      PROVE  TransferInv'
  <2>1. session' = [session EXCEPT ![t].state = "gone"] /\ toClient' = toClient
    BY <1>7 DEF Aborts
  <2>2. toServer' \in Seq(Behind)
    BY <1>3, <1>7 DEF Aborts
  <2> QED
    BY <1>1, <1>7, <2>1, <2>2, SessionGoes DEF Aborts, faults
<1>8. ASSUME NEW t \in Tids, SendsAgain(t)
      PROVE  TransferInv'
  <2> DEFINE s == session[t]
  <2>1. s \in Sessions /\ s.state = "live"
    BY <1>2, <1>8 DEF SendsAgain, Live
  <2>2. Reads(t) /\ s.n \in Nat \ {0} /\ s.n <= Blocks(s.file) /\ s.file \in Files
    BY <2>1 DEF SessionsInv, Sessions, Reads
  <2>3. session' = [session EXCEPT ![t].sends = s.sends + 1]
    BY <1>8 DEF SendsAgain
  <2>4. s.sends + 1 \in Nat
    BY <2>1 DEF Sessions
  <2>5. session' \in [Tids -> Sessions]
    BY <1>2, <2>3, <2>4 DEF Sessions
  <2>6. \A u \in Tids : session[u].state # "free" =>
          session'[u].state # "free" /\ session'[u].file = session[u].file
    BY <1>2, <2>3
  <2>7. SessionsInv'
    BY <1>2, <2>2, <2>3 DEF SessionsInv, Reads
  <2>8. \A u \in Tids : session'[u].state = "done" => u = peerTid /\ lastBlock
    BY <1>2, <2>3 DEF DoneInv
  <2>9. session'[t].state # "free" /\ session'[t].file = s.file
    BY <2>1, <2>6
  <2>10. toClient' \in Seq(Genuine')
    BY <1>8, <2>2, <2>6, <2>9, GenuineKept, ServerSendsGenuine DEF SendsAgain
  <2>11. losses' \in Nat
    BY <1>1, <1>8 DEF SendsAgain, Early
  <2> QED
    BY <1>1, <1>8, <2>5, <2>6, <2>7, <2>8, <2>10, <2>11, OtherSide DEF SendsAgain
<1>9. ASSUME NEW t \in Tids, GivesUp(t)
      PROVE  TransferInv'
  <2>1. session' = [session EXCEPT ![t].state = "gone"] /\ UNCHANGED net
    BY <1>9 DEF GivesUp
  <2>2. losses' \in Nat
    BY <1>1, <1>9 DEF GivesUp, Early
  <2> QED
    BY <1>1, <1>9, <2>1, <2>2, SessionGoes DEF GivesUp, Live, net
<1> QED
  BY <1>4, <1>5, <1>6, <1>7, <1>8, <1>9 DEF Server

-----------------------------------------------------------------------------
(* The client.                                                             *)

LEMMA InitHolds ==
  ASSUME Init
  PROVE  TransferInv
<1> USE DEF Init, WorldInit, ClientInit
<1>1. toClient \in Seq(Datagrams) /\ toServer \in Seq(Requests) /\ WireInv
      /\ stored \in Seq([file : Files, n : Nat \ {0}]) /\ Len(stored) = 0
  BY EmptySeq DEF WireInv
<1>2. session \in [Tids -> Sessions]
  BY DEF Sessions
<1>3. 0 \in 0 .. Wrap - 1 /\ 0 \in 0 .. DstLen
  BY SizesAssumption, ClientAssumption
<1>4. TypeOK
  BY <1>1, <1>2, <1>3 DEF TypeOK, None
<1>5. SessionsInv /\ XferInv /\ DoneInv
  BY <1>1 DEF SessionsInv, XferInv, DoneInv, None
<1> QED
  BY <1>1, <1>4, <1>5 DEF TransferInv

\* What the client may do.
LEMMA ClientSide ==
  ASSUME TransferInv, UNCHANGED session, XferInv', TypeOK',
         toClient' \in Seq(Genuine),
         toServer' = toServer \/ \E m \in Behind' : toServer' = Append(toServer, m),
         block <= block', peerTid' = peerTid \/ peerTid = NoTid,
         lastBlock => lastBlock', failed' # "ok",
         pc' = "dally" \/ result' = "ok" => lastBlock'
  PROVE  TransferInv'
<1>1. Genuine' = Genuine
  BY DEF Genuine
<1>2. toServer \in Seq(Behind')
  BY BehindKept, SeqMonotonic DEF TransferInv, WireInv
<1>3. WireInv'
  BY <1>1, <1>2, AppendProperties DEF WireInv
<1>4. SessionsInv'
  BY DEF TransferInv, SessionsInv, Reads
<1>5. DoneInv'
  BY DEF TransferInv, DoneInv, NoTid, Tids
<1> QED
  BY <1>3, <1>4, <1>5 DEF TransferInv

\* What is stored is a prefix of the file of any session whose block it will
\* look at.
LEMMA PrefixOfSender ==
  ASSUME TransferInv, NEW m \in Genuine, m.op = "DATA", ~OtherTid(m)
  PROVE  /\ m.tid \in Tids /\ m.file \in Files /\ m.n \in Nat \ {0}
         /\ m.n <= Blocks(m.file)
         /\ Reads(m.tid) /\ session[m.tid].file = m.file
         /\ Prefix(m.file)
<1>1. /\ m.tid \in Tids /\ m.file \in Files /\ m.n \in Nat \ {0}
      /\ m.n <= Blocks(m.file)
      /\ Reads(m.tid) /\ session[m.tid].file = m.file
  BY DEF Genuine, Datagrams, Strays, Reads
<1>2. Blocks(m.file) \in Nat \ {0}
  BY <1>1, FileShape
<1>3. CASE peerTid = NoTid
  <2>1. block = 0 /\ written = 0 /\ ~lastBlock
    BY <1>3 DEF TransferInv, XferInv
  <2>2. 0 * BlockSize = 0
    BY SizesAssumption
  <2> QED
    BY <1>1, <1>2, <2>1, <2>2 DEF Prefix
<1>4. CASE peerTid # NoTid
  <2>1. m.tid = peerTid
    BY <1>4 DEF OtherTid
  <2> QED
    BY <1>1, <1>4, <2>1 DEF TransferInv, XferInv
<1> QED
  BY <1>1, <1>3, <1>4

\* Below Wrap a number in sequence is the next block.
LEMMA InSequenceIsNext ==
  ASSUME NEW m, m.n \in Nat \ {0}, m.n < Wrap, block \in 0 .. Wrap - 1, InSequence(m)
  PROVE  m.n = block + 1
<1>1. m.n % Wrap = m.n /\ block + 1 \in Nat
  BY ModSmall, SizesAssumption
<1>2. CASE block + 1 < Wrap
  BY <1>1, <1>2, ModSmall DEF InSequence
<1>3. CASE block + 1 >= Wrap
  <2>1. block + 1 = Wrap
    BY <1>3, SizesAssumption
  <2>2. Wrap % Wrap = 0
    BY SizesAssumption
  <2> QED
    BY <1>1, <2>1, <2>2 DEF InSequence
<1> QED
  BY <1>1, <1>2, <1>3, SizesAssumption

\* Storing the next block makes a longer prefix.
LEMMA LongerPrefix ==
  ASSUME TransferInv, NEW m \in Genuine, m.op = "DATA", ~OtherTid(m), m.n < Wrap,
         StoresBlock(m)
  PROVE  /\ block' = block + 1 /\ block' \in 0 .. Wrap - 1
         /\ written' \in 0 .. DstLen
         /\ stored' \in Seq([file : Files, n : Nat \ {0}])
         /\ Len(stored') = block'
         /\ Prefix(m.file)'
<1> DEFINE f == m.file
<1> DEFINE B == Blocks(f)
<1>1. /\ f \in Files /\ m.n \in Nat \ {0} /\ m.n <= B /\ Prefix(f)
  BY PrefixOfSender
<1>2. /\ B \in Nat \ {0}
      /\ TailLen[f] \in Nat /\ TailLen[f] < BlockSize
      /\ FileLen(f) = (B - 1) * BlockSize + TailLen[f]
  BY <1>1, FileShape
<1>3. block \in 0 .. Wrap - 1 /\ block \in Nat
  BY SizesAssumption DEF TransferInv, TypeOK
<1>4. m.n % Wrap = m.n
  BY <1>1, ModSmall, SizesAssumption
<1>5. m.n = block + 1
  BY <1>1, <1>3, <1>4, InSequenceIsNext DEF StoresBlock
<1>6. block' = block + 1 /\ block' \in 0 .. Wrap - 1
  BY <1>3, <1>4, <1>5, SizesAssumption DEF StoresBlock
<1>7. block < B /\ ~lastBlock /\ written = block * BlockSize
  BY <1>1, <1>2, <1>3, <1>5 DEF Prefix
<1>8. PayloadLen(f, m.n) = IF m.n < B THEN BlockSize ELSE TailLen[f]
  BY DEF PayloadLen
<1>9. block * BlockSize \in Nat /\ (block + 1) * BlockSize = block * BlockSize + BlockSize
  BY <1>3, SizesAssumption
<1>10. written' = written + PayloadLen(f, m.n) /\ PayloadLen(f, m.n) <= DstLen - written
  BY DEF StoresBlock, Fits
<1>11. written' \in 0 .. DstLen
  BY <1>2, <1>7, <1>8, <1>9, <1>10, SizesAssumption, ClientAssumption
<1>12. /\ stored \in Seq([file : Files, n : Nat \ {0}]) /\ Len(stored) = block
       /\ [file |-> f, n |-> m.n] \in [file : Files, n : Nat \ {0}]
  BY <1>1 DEF TransferInv, TypeOK, XferInv
<1>13. stored' = Append(stored, [file |-> f, n |-> m.n])
  BY DEF StoresBlock
<1>14. /\ stored' \in Seq([file : Files, n : Nat \ {0}])
       /\ Len(stored') = block'
       /\ \A i \in 1 .. block' : stored'[i] = [file |-> f, n |-> i]
  <2>1. \A i \in 1 .. block : stored[i] = [file |-> f, n |-> i]
    BY <1>1 DEF Prefix
  <2>2. /\ stored' \in Seq([file : Files, n : Nat \ {0}])
        /\ Len(stored') = block + 1
        /\ \A i \in 1 .. block : stored'[i] = stored[i]
        /\ stored'[block + 1] = [file |-> f, n |-> m.n]
    BY <1>12, <1>13, AppendProperties
  <2>3. \A i \in 1 .. block + 1 : i \in 1 .. block \/ i = block + 1
    BY <1>3
  <2> QED
    BY <1>5, <1>6, <2>1, <2>2, <2>3
<1>15. written' = IF block' < B THEN block' * BlockSize ELSE FileLen(f)
  BY <1>2, <1>5, <1>6, <1>7, <1>8, <1>9, <1>10, <1>3, <1>1
<1>16. lastBlock' <=> block' = B
  <2>1. lastBlock' = (lastBlock \/ PayloadLen(f, m.n) < BlockSize)
    BY DEF StoresBlock
  <2>2. PayloadLen(f, m.n) < BlockSize <=> m.n = B
    <3>1. BlockSize \in Nat /\ ~(BlockSize < BlockSize)
      BY SizesAssumption
    <3>2. CASE m.n < B
      BY <1>2, <1>1, <1>8, <3>1, <3>2
    <3>3. CASE m.n = B
      BY <1>2, <1>8, <3>3
    <3> QED
      BY <1>1, <1>2, <3>2, <3>3
  <2> QED
    BY <1>5, <1>6, <1>7, <2>1, <2>2
<1>17. block' <= B
  BY <1>1, <1>5, <1>6
<1> QED
  BY <1>6, <1>11, <1>14, <1>15, <1>16, <1>17 DEF Prefix

\* The facts about what is stored stay when nothing is stored.
LEMMA NothingStored ==
  ASSUME TransferInv, UNCHANGED <<session, block, lastBlock, written, stored, peerTid>>,
         gotData' \/ resendAck' => gotData \/ resendAck
  PROVE  XferInv'
<1>1. peerTid # NoTid => Reads(peerTid)' /\ Prefix(session[peerTid].file)'
  BY DEF TransferInv, XferInv, Prefix, Reads
<1> QED
  BY <1>1 DEF TransferInv, XferInv

LEMMA DeliverStep ==
  ASSUME TransferInv, Deliver, NoWrap
  PROVE  TransferInv'
<1> USE DEF TransferInv, WireInv
<1>1. PICK m : m = Head(toClient)
  OBVIOUS
<1>2. m \in Genuine /\ m \in Datagrams /\ toClient' \in Seq(Genuine)
  BY <1>1, HeadTailProperties DEF Deliver, Genuine
<1>3. UNCHANGED <<faults, session, call>> /\ RecvCb(m)
  BY <1>1 DEF Deliver
<1>4. toClient' \in Seq(Datagrams)
  BY <1>2, SeqMonotonic DEF Genuine
<1>5. pc' = "dally" \/ result' = "ok" => lastBlock
  BY <1>3 DEF DoneInv, call
<1>6. block \in Nat /\ (m.op = "DATA" => m.n < Wrap)
  BY <1>1, SizesAssumption, HeadBelowWrap DEF TypeOK, Deliver
<1>7. ASSUME UNCHANGED <<toServer, block, peerTid, gotData, lastBlock, resendAck, written, stored>>,
             failed' \in (Results \cup {None}) \ {"ok"}
      PROVE  TransferInv'
  <2>1. XferInv'
    BY <1>3, <1>7, NothingStored
  <2>2. TypeOK'
    BY <1>3, <1>4, <1>7 DEF TypeOK, faults, call
  <2> QED
    BY <1>2, <1>3, <1>5, <1>6, <1>7, <2>1, <2>2, ClientSide
<1>8. CASE m.op = "short" /\ Fails("proto")
  BY <1>7, <1>8 DEF Fails, Results
<1>9. CASE m.op = "alien" /\ Drops
  BY <1>7, <1>9 DEF Drops, xfer, TypeOK, DoneInv
<1>10. CASE m.op = "ERROR" /\ Fails("server")
  BY <1>7, <1>10 DEF Fails, Results
<1>11. CASE m.op = "DATA" /\ OtherTid(m) /\ Send(UnknownTid(m.tid)) /\ UNCHANGED xfer
  <2>1. UnknownTid(m.tid) \in Requests /\ UnknownTid(m.tid) \in Behind'
    BY <1>2, <1>11 DEF UnknownTid, Requests, Behind, Datagrams, Strays
  <2>2. toServer' = Append(toServer, UnknownTid(m.tid))
    BY <1>11 DEF Send
  <2>3. toServer' \in Seq(Requests)
    BY <2>1, <2>2, AppendProperties DEF TypeOK
  <2>4. XferInv'
    BY <1>3, <1>11, NothingStored DEF xfer
  <2>5. TypeOK'
    BY <1>3, <1>4, <1>11, <2>3 DEF TypeOK, faults, call, xfer
  <2>6. UNCHANGED <<block, peerTid, lastBlock, failed>>
    BY <1>11 DEF xfer
  <2>7. failed # "ok"
    BY DEF DoneInv
  <2> QED
    BY <1>2, <1>3, <1>5, <1>6, <2>1, <2>2, <2>4, <2>5, <2>6, <2>7, ClientSide
<1>12. CASE /\ m.op = "DATA" /\ ~OtherTid(m) /\ peerTid' = m.tid /\ UNCHANGED toServer
            /\ StoresBlock(m) \/ RefusesTooBig(m) \/ SeesDuplicate(m) \/ OutOfSequence(m)
  <2>1. /\ m.tid \in Tids /\ Reads(m.tid) /\ session[m.tid].file = m.file
        /\ Prefix(m.file)
    BY <1>2, <1>12, PrefixOfSender
  <2>2. peerTid' = peerTid \/ peerTid = NoTid
    BY <1>12 DEF OtherTid
  <2>3. peerTid' \in Tids /\ peerTid' # NoTid /\ Reads(peerTid)' /\ session'[peerTid'].file = m.file
    BY <1>3, <1>12, <2>1 DEF Reads, Tids, NoTid
  <2>4. failed \in (Results \cup {None}) \ {"ok"}
    BY DEF TypeOK, DoneInv
  <2>5. CASE StoresBlock(m)
    <3>1. /\ block' = block + 1 /\ block' \in 0 .. Wrap - 1
          /\ written' \in 0 .. DstLen
          /\ stored' \in Seq([file : Files, n : Nat \ {0}])
          /\ Len(stored') = block'
          /\ Prefix(m.file)'
      BY <1>2, <1>6, <1>12, <2>5, LongerPrefix
    <3>2. Prefix(session[peerTid].file)'
      BY <2>3, <3>1
    <3>3. XferInv'
      BY <2>3, <3>1, <3>2 DEF XferInv
    <3>4. gotData' \in BOOLEAN /\ lastBlock' \in BOOLEAN
      BY <2>5, Zenon DEF StoresBlock, TypeOK
    <3>5. UNCHANGED <<failed, resendAck>> /\ (lastBlock => lastBlock')
      BY <2>5 DEF StoresBlock
    <3>6. TypeOK'
      BY <1>3, <1>4, <1>12, <2>3, <3>1, <3>4, <3>5 DEF TypeOK, faults, call
    <3>7. block <= block'
      BY <1>6, <3>1
    <3> QED
      BY <1>2, <1>3, <1>5, <1>12, <2>2, <2>4, <3>3, <3>5, <3>6, <3>7, ClientSide
  <2>6. CASE RefusesTooBig(m) \/ SeesDuplicate(m) \/ OutOfSequence(m)
    <3>1. UNCHANGED <<block, gotData, lastBlock, written, stored>>
      BY <2>6 DEF RefusesTooBig, SeesDuplicate, OutOfSequence
    <3>2. failed' \in (Results \cup {None}) \ {"ok"}
      BY <2>4, <2>6 DEF RefusesTooBig, SeesDuplicate, OutOfSequence, Results
    <3>3. resendAck' \in BOOLEAN
      BY <2>6 DEF RefusesTooBig, SeesDuplicate, OutOfSequence, TypeOK
    <3>4. Prefix(session[peerTid].file)'
      BY <2>1, <2>3, <3>1 DEF Prefix
    <3>5. XferInv'
      BY <2>3, <3>1, <3>4 DEF XferInv
    <3>6. TypeOK'
      BY <1>3, <1>4, <1>12, <2>3, <3>1, <3>2, <3>3 DEF TypeOK, faults, call
    <3> QED
      BY <1>2, <1>3, <1>5, <1>6, <1>12, <2>2, <3>1, <3>2, <3>5, <3>6, ClientSide
  <2> QED
    BY <1>12, <2>5, <2>6
<1> QED
  BY <1>3, <1>8, <1>9, <1>10, <1>11, <1>12 DEF RecvCb, RecvData

\* A step of the loop, which stores nothing.
LEMMA LoopSide ==
  ASSUME TransferInv,
         UNCHANGED <<toClient, session, block, peerTid, lastBlock, failed, written, stored>>,
         gotData' \in BOOLEAN, resendAck' \in BOOLEAN,
         gotData' \/ resendAck' => gotData \/ resendAck,
         toServer' = toServer \/ \E m \in Behind : toServer' = Append(toServer, m),
         losses' \in Nat, copies' \in Nat, disorder' \in Nat, retries' \in Nat,
         pc' \in {"start", "wait", "dally", "out"}, result' \in Results \cup {None},
         pc' = "dally" \/ result' = "ok" => lastBlock
  PROVE  TransferInv'
<1> USE DEF TransferInv
<1>1. XferInv'
  BY NothingStored
<1>2. Behind' = Behind /\ Behind \subseteq Requests
  BY DEF Behind
<1>3. toServer' \in Seq(Requests)
  <2>1. toServer \in Seq(Requests)
    BY DEF TypeOK
  <2>2. \A m \in Behind : Append(toServer, m) \in Seq(Requests)
    BY <1>2, <2>1, AppendProperties
  <2> QED
    BY <2>1, <2>2
<1>4. TypeOK'
  BY <1>3 DEF TypeOK
<1>5. block \in Nat /\ failed # "ok" /\ toClient' \in Seq(Genuine)
  BY SizesAssumption DEF TypeOK, DoneInv, WireInv
<1> QED
  BY <1>1, <1>2, <1>4, <1>5, ClientSide

\* What it sends never runs ahead.
LEMMA SentIsBehind ==
  ASSUME TransferInv
  PROVE  Rrq \in Behind /\ (peerTid # NoTid => Ack(peerTid, block) \in Behind)
<1>1. peerTid \in Tids \cup {NoTid} /\ block \in 0 .. Wrap - 1 /\ block \in Nat
  BY SizesAssumption DEF TransferInv, TypeOK
<1>2. Rrq \in Behind
  BY DEF Rrq, Behind, Requests
<1>3. ASSUME peerTid # NoTid PROVE Ack(peerTid, block) \in Behind
  BY <1>1, <1>3 DEF Ack, Behind, Requests
<1> QED
  BY <1>2, <1>3

LEMMA LoopStep ==
  ASSUME TransferInv,
         Start \/ EndsFailed \/ ReAcks \/ AcksBlock \/ Retries \/ TimesOut \/ EndsDally
  PROVE  TransferInv'
<1>1. /\ gotData \in BOOLEAN /\ resendAck \in BOOLEAN
      /\ losses \in Nat /\ copies \in Nat /\ disorder \in Nat /\ retries \in Nat
      /\ pc \in {"start", "wait", "dally", "out"} /\ result \in Results \cup {None}
      /\ failed \in (Results \cup {None}) \ {"ok"}
      /\ (pc = "dally" \/ result = "ok" => lastBlock)
      /\ (gotData \/ resendAck => peerTid # NoTid)
  BY DEF TransferInv, TypeOK, DoneInv, XferInv
<1>2. Rrq \in Behind /\ (peerTid # NoTid => Ack(peerTid, block) \in Behind)
  BY SentIsBehind
<1>3. "pcb" \in Results /\ "timeout" \in Results /\ "ok" \in Results
  BY DEF Results
<1>4. ASSUME UNCHANGED losses \/ losses' = losses + 1 \/ InTime
      PROVE  losses' \in Nat
  BY <1>1, <1>4 DEF InTime
<1>5. CASE Start
  BY <1>1, <1>2, <1>3, <1>5, LoopSide DEF Start, Send, Leave, xfer, faults
<1>6. CASE EndsFailed
  BY <1>1, <1>6, LoopSide DEF EndsFailed, Leave, xfer, faults, net
<1>7. CASE ReAcks
  BY <1>1, <1>2, <1>7, LoopSide DEF ReAcks, Send, call, faults
<1>8. CASE AcksBlock
  BY <1>1, <1>2, <1>3, <1>8, LoopSide DEF AcksBlock, Send, Leave, faults
<1>9. CASE Retries
  <2>1. losses' \in Nat /\ retries' \in Nat
    BY <1>1, <1>4, <1>9 DEF Retries
  <2>2. \E m \in Behind : toServer' = Append(toServer, m)
    BY <1>2, <1>9 DEF Retries, Send
  <2> QED
    BY <1>1, <1>9, <2>1, <2>2, LoopSide DEF Retries, xfer
<1>10. CASE TimesOut
  <2>1. losses' \in Nat
    BY <1>4, <1>10 DEF TimesOut
  <2> QED
    BY <1>1, <1>3, <1>10, <2>1, LoopSide DEF TimesOut, Leave, net, xfer
<1>11. CASE EndsDally
  BY <1>1, <1>3, <1>11, LoopSide DEF EndsDally, Leave, net, xfer, faults
<1> QED
  BY <1>5, <1>6, <1>7, <1>8, <1>9, <1>10, <1>11

LEMMA StutterStep ==
  ASSUME TransferInv, UNCHANGED vars
  PROVE  TransferInv'
<1> USE DEF vars, net, faults, xfer, call
<1>1. TypeOK' /\ SessionsInv' /\ DoneInv'
  BY DEF TransferInv, TypeOK, SessionsInv, DoneInv, Reads
<1>2. XferInv'
  BY NothingStored
<1>3. Genuine' = Genuine /\ Behind' = Behind
  BY DEF Genuine, Behind
<1>4. WireInv'
  BY <1>3 DEF TransferInv, WireInv
<1> QED
  BY <1>1, <1>2, <1>4 DEF TransferInv

-----------------------------------------------------------------------------
(* The two ends in lockstep, and block numbers that do not wrap.           *)

\* The server is at most a block ahead of the session that was latched, and
\* at the first block of any other.
Lockstep ==
  \A t \in Tids :
    /\ session[t].n <= (IF t = peerTid THEN block + 1 ELSE 1)
    /\ t = peerTid => block <= session[t].n

\* What the server may have sent: no block after the one it has come to.  Only
\* the TIDs the client turned down are told so.
Sent == {m \in Datagrams : m.op = "DATA" => m.n <= session[m.tid].n}

Told == {m \in Requests : m.op = "ERROR" => peerTid # NoTid /\ m.tid # peerTid}

ServedInv ==
  /\ Lockstep
  /\ \A t \in Tids : session[t].state = "free" => session[t].file = Missing
  /\ toClient \in Seq(Sent) /\ toServer \in Seq(Told)
  /\ pc = "start" => retries = 0 /\ peerTid = NoTid
  /\ pc = "wait" /\ lastBlock => gotData
  /\ failed # "timeout"
  /\ result = "timeout" => pc = "out"

LEMMA DataTypes ==
  ASSUME NEW m \in Datagrams, m.op = "DATA"
  PROVE  m.tid \in Tids /\ m.file \in Files /\ m.n \in Nat /\ m.n # 0
  BY DEF Datagrams, Strays

\* The block that is acknowledged is stored.
LEMMA AckedIsStored ==
  ASSUME TransferInv, NoWrap, NEW t \in Tids, Advances(t)
  PROVE  t = peerTid /\ session[t].n <= block
<1> DEFINE s == session[t]
<1>1. s \in Sessions /\ s.state = "live"
  BY DEF TransferInv, TypeOK, Advances, Live
<1>2. s.n \in Nat \ {0} /\ s.n <= Blocks(s.file) /\ s.file \in Files
  BY <1>1 DEF TransferInv, SessionsInv, Sessions, Reads
<1>3. s.n < Wrap
  BY <1>1 DEF NoWrap
<1>4. s.n % Wrap = s.n
  BY <1>2, <1>3, SizesAssumption, ModSmall
<1>5. Ack(t, s.n % Wrap) \in Behind
  BY HeadTailProperties DEF Advances, TransferInv, WireInv
<1> QED
  BY <1>4, <1>5 DEF Behind, Ack

\* The server moves on when the block is acknowledged, and only then.
LEMMA ServerMoves ==
  ASSUME TransferInv, Lockstep, Server, NoWrap
  PROVE  /\ Lockstep'
         /\ \A u \in Tids : session'[u].n \in Nat /\ session[u].n <= session'[u].n
<1>1. UNCHANGED <<block, peerTid>>
  BY DEF Server, Ignores, Opens, Advances, Aborts, SendsAgain, GivesUp, xfer
<1>2. session \in [Tids -> Sessions] /\ block \in Nat
  BY SizesAssumption DEF TransferInv, TypeOK
<1>3. \A u \in Tids : session[u].n \in Nat /\ session[u].n # 0
  BY <1>2 DEF Sessions
<1>4. ASSUME \A u \in Tids : session'[u].n = session[u].n
      PROVE  /\ Lockstep'
             /\ \A u \in Tids : session'[u].n \in Nat /\ session[u].n <= session'[u].n
  BY <1>1, <1>3, <1>4 DEF Lockstep
<1>5. CASE Ignores
  BY <1>4, <1>5 DEF Ignores
<1>6. ASSUME NEW t \in Tids, NEW f \in Files \cup {Missing}, Opens(t, f)
      PROVE  \A u \in Tids : session'[u].n = session[u].n
  <2>1. t # peerTid
    BY <1>6 DEF Opens, TransferInv, XferInv, Reads, NoTid, Tids
  <2>2. session[t].n = 1
    BY <1>3, <2>1 DEF Lockstep
  <2>3. CASE session' = [session EXCEPT ![t].state = "gone"]
    BY <1>2, <2>3
  <2>4. CASE session' = [session EXCEPT ![t] =
               [state |-> "live", file |-> f, n |-> 1, sends |-> 1]]
    BY <1>2, <2>2, <2>4
  <2> QED
    BY <1>6, <2>3, <2>4 DEF Opens
<1>7. ASSUME NEW t \in Tids, Advances(t)
      PROVE  /\ Lockstep'
             /\ \A u \in Tids : session'[u].n \in Nat /\ session[u].n <= session'[u].n
  <2> DEFINE s == session[t]
  <2>1. t = peerTid /\ s.n <= block
    BY <1>7, AckedIsStored
  <2>2. CASE session' = [session EXCEPT ![t].state = "done"]
    <3>1. \A u \in Tids : session'[u].n = session[u].n
      BY <1>2, <2>2
    <3> QED
      BY <1>4, <3>1
  <2>3. CASE session' = [session EXCEPT ![t].n = s.n + 1, ![t].sends = 1]
    <3>1. session'[t].n = s.n + 1 /\ \A u \in Tids \ {t} : session'[u].n = session[u].n
      BY <1>2, <2>3
    <3>2. s.n + 1 \in Nat /\ s.n <= s.n + 1 /\ s.n + 1 <= block + 1 /\ block <= s.n + 1
      BY <1>2, <1>3, <2>1 DEF Lockstep
    <3> QED
      BY <1>1, <1>3, <2>1, <3>1, <3>2 DEF Lockstep
  <2> QED
    BY <1>7, <2>2, <2>3 DEF Advances
<1>8. ASSUME NEW t \in Tids, Aborts(t) \/ SendsAgain(t) \/ GivesUp(t)
      PROVE  \A u \in Tids : session'[u].n = session[u].n
  <2>1. CASE session' = [session EXCEPT ![t].state = "gone"]
    BY <1>2, <2>1
  <2>2. CASE session' = [session EXCEPT ![t].sends = session[t].sends + 1]
    BY <1>2, <2>2
  <2> QED
    BY <1>8, <2>1, <2>2 DEF Aborts, SendsAgain, GivesUp
<1> QED
  BY <1>4, <1>5, <1>6, <1>7, <1>8 DEF Server

\* The wire brings nothing but strays.
LEMMA WireBrings ==
  ASSUME Wire, NEW S, NEW R, toClient \in Seq(S), toServer \in Seq(R),
         \A op \in Strays : [op |-> op] \in S
  PROVE  toClient' \in Seq(S) /\ toServer' \in Seq(R)
<1>1. CASE Lose
  BY <1>1, HeadTailProperties DEF Lose
<1>2. CASE Double
  <2>1. toClient' \in Seq(S)
    BY <1>2, HeadTailProperties, Prepend DEF Double
  <2>2. toServer' \in Seq(R)
    BY <1>2, HeadTailProperties, Prepend DEF Double
  <2> QED
    BY <2>1, <2>2
<1>3. CASE Overtake
  <2>1. PICK i \in 2 .. Len(toClient) : toClient' = <<toClient[i]>> \o RemoveAt(toClient, i)
    BY <1>3 DEF Overtake
  <2>2. i \in 1 .. Len(toClient)
    BY <2>1, LenProperties
  <2>3. toClient[i] \in S /\ RemoveAt(toClient, i) \in Seq(S)
    BY <2>2, ElementOfSeq, RemovedFrom
  <2> QED
    BY <1>3, <2>1, <2>3, Prepend DEF Overtake
<1>4. CASE Stray
  BY <1>4, Prepend DEF Stray
<1> QED
  BY <1>1, <1>2, <1>3, <1>4 DEF Wire

\* What the server sends next is of the block it has come to.
LEMMA ServerSent ==
  ASSUME TransferInv, ServedInv, Server,
         \A u \in Tids : session'[u].n \in Nat /\ session[u].n <= session'[u].n
  PROVE  toClient' \in Seq(Sent') /\ toServer' \in Seq(Told)
<1>1. session \in [Tids -> Sessions] /\ \A u \in Tids : session[u].n \in Nat /\ session[u].n # 0
  BY DEF TransferInv, TypeOK, Sessions
<1>2. Sent \subseteq Sent'
  BY <1>1, DataTypes DEF Sent
<1>3. toClient \in Seq(Sent')
  BY <1>2, SeqMonotonic DEF ServedInv
<1>4. toServer \in Seq(Told) /\ (toServer # <<>> => Tail(toServer) \in Seq(Told))
  BY HeadTailProperties DEF ServedInv
<1>5. ASSUME NEW t \in Tids, NEW f \in Files, NEW n \in Nat \ {0}, session'[t].n = n,
             toClient' = Append(toClient, Data(t, f, n))
      PROVE  toClient' \in Seq(Sent')
  <2>1. Data(t, f, n) \in Sent'
    BY <1>5 DEF Data, Datagrams, Sent
  <2> QED
    BY <1>3, <1>5, <2>1, AppendProperties
<1>6. CASE Ignores
  BY <1>3, <1>4, <1>6 DEF Ignores
<1>7. ASSUME NEW t \in Tids, NEW f \in Files \cup {Missing}, Opens(t, f)
      PROVE  toClient' \in Seq(Sent') /\ toServer' \in Seq(Told)
  <2>1. toServer' \in Seq(Told)
    BY <1>4, <1>7 DEF Opens
  <2>2. CASE f = Missing
    <3>1. Error(t) \in Sent'
      BY DEF Error, Datagrams, Sent
    <3>2. toClient' = Append(toClient, Error(t))
      BY <1>7, <2>2 DEF Opens
    <3> QED
      BY <1>3, <2>1, <3>1, <3>2, AppendProperties
  <2>3. CASE f # Missing
    <3>1. /\ session' = [session EXCEPT ![t] =
               [state |-> "live", file |-> f, n |-> 1, sends |-> 1]]
          /\ toClient' = Append(toClient, Data(t, f, 1)) /\ f \in Files
      BY <1>7, <2>3 DEF Opens
    <3>2. session'[t].n = 1
      BY <1>1, <3>1
    <3>3. toClient' \in Seq(Sent')
      BY <1>5, <3>1, <3>2
    <3> QED
      BY <2>1, <3>3
  <2> QED
    BY <2>2, <2>3
<1>8. ASSUME NEW t \in Tids, Advances(t)
      PROVE  toClient' \in Seq(Sent') /\ toServer' \in Seq(Told)
  <2> DEFINE s == session[t]
  <2>1. s.file \in Files
    BY <1>8 DEF Advances, Live, TransferInv, SessionsInv, Reads
  <2>2. CASE s.n = Blocks(s.file)
    BY <1>3, <1>4, <1>8, <2>2 DEF Advances
  <2>3. CASE s.n # Blocks(s.file)
    <3>1. /\ session' = [session EXCEPT ![t].n = s.n + 1, ![t].sends = 1]
          /\ toClient' = Append(toClient, Data(t, s.file, s.n + 1))
      BY <1>8, <2>3 DEF Advances
    <3>2. session'[t].n = s.n + 1
      BY <1>1, <3>1
    <3>3. s.n + 1 \in Nat \ {0}
      BY <1>1
    <3> QED
      BY <1>4, <1>5, <1>8, <2>1, <3>1, <3>2, <3>3 DEF Advances
  <2> QED
    BY <2>2, <2>3
<1>9. ASSUME NEW t \in Tids, Aborts(t) \/ GivesUp(t)
      PROVE  toClient' \in Seq(Sent') /\ toServer' \in Seq(Told)
  BY <1>3, <1>4, <1>9 DEF Aborts, GivesUp, net
<1>10. ASSUME NEW t \in Tids, SendsAgain(t)
       PROVE  toClient' \in Seq(Sent') /\ toServer' \in Seq(Told)
  <2> DEFINE s == session[t]
  <2>1. s.file \in Files /\ s.n \in Nat \ {0}
    BY <1>1, <1>10 DEF SendsAgain, Live, TransferInv, SessionsInv, Reads
  <2>2. /\ session' = [session EXCEPT ![t].sends = s.sends + 1]
        /\ toClient' = Append(toClient, Data(t, s.file, s.n))
    BY <1>10 DEF SendsAgain
  <2>3. session'[t].n = s.n
    BY <1>1, <2>2
  <2> QED
    BY <1>4, <1>5, <1>10, <2>1, <2>2, <2>3 DEF SendsAgain
<1> QED
  BY <1>6, <1>7, <1>8, <1>9, <1>10 DEF Server

\* The client latches the TID that answers first and turns down the others.
LEMMA DeliverServed ==
  ASSUME TransferInv, ServedInv, Deliver, NoWrap
  PROVE  ServedInv'
<1> DEFINE m == Head(toClient)
<1>1. /\ m \in Genuine /\ m \in Datagrams /\ m \in Sent /\ RecvCb(m)
      /\ UNCHANGED <<session, pc, retries, result>> /\ pc # "start"
      /\ toClient' = Tail(toClient) /\ Tail(toClient) \in Seq(Sent)
  BY HeadTailProperties DEF Deliver, TransferInv, WireInv, ServedInv, Genuine, call
<1>2. /\ block \in Nat /\ \A u \in Tids : session[u].n \in Nat
      /\ peerTid \in Tids \cup {NoTid}
  BY SizesAssumption DEF TransferInv, TypeOK, Sessions
<1>3. toClient' \in Seq(Sent')
  <2>1. Sent' = Sent
    BY <1>1 DEF Sent
  <2> QED
    BY <1>1, <2>1
<1>4. /\ Lockstep /\ toServer \in Seq(Told)
      /\ pc = "wait" /\ lastBlock => gotData
      /\ failed # "timeout"
      /\ result = "timeout" => pc = "out"
  BY DEF ServedInv
<1>5. CASE m.op \in {"short", "alien", "ERROR"} /\ (Drops \/ Fails("proto") \/ Fails("server"))
  <2>1. UNCHANGED <<block, peerTid, gotData, lastBlock, toServer>> /\ failed' # "timeout"
    BY <1>4, <1>5 DEF Drops, Fails, xfer
  <2>2. Told' = Told
    BY <2>1 DEF Told
  <2>3. Lockstep'
    BY <1>1, <1>4, <2>1 DEF Lockstep
  <2> QED
    BY <1>1, <1>3, <1>4, <2>1, <2>2, <2>3 DEF ServedInv
<1>6. CASE m.op = "DATA" /\ OtherTid(m) /\ Send(UnknownTid(m.tid)) /\ UNCHANGED xfer
  <2>1. Told' = Told
    BY <1>6 DEF Told, xfer
  <2>2. UnknownTid(m.tid) \in Told
    <3>1. m.tid \in Tids
      BY <1>1, <1>6, DataTypes
    <3> QED
      BY <1>6, <3>1 DEF UnknownTid, Told, Requests, OtherTid
  <2>3. toServer' \in Seq(Told')
    BY <1>4, <1>6, <2>1, <2>2, AppendProperties DEF Send
  <2>4. Lockstep'
    BY <1>1, <1>4, <1>6 DEF Lockstep, xfer
  <2> QED
    BY <1>1, <1>3, <1>4, <1>6, <2>3, <2>4 DEF ServedInv, xfer
<1>7. CASE /\ m.op = "DATA" /\ ~OtherTid(m) /\ peerTid' = m.tid /\ UNCHANGED toServer
           /\ StoresBlock(m) \/ RefusesTooBig(m) \/ SeesDuplicate(m) \/ OutOfSequence(m)
  <2>1. /\ m.tid \in Tids /\ m.n \in Nat \ {0} /\ m.n <= Blocks(m.file) /\ m.file \in Files
        /\ m.tid # NoTid
    BY <1>1, <1>7, PrefixOfSender DEF Tids, NoTid
  <2>2. peerTid = m.tid \/ (peerTid = NoTid /\ block = 0)
    BY <1>7 DEF OtherTid, TransferInv, XferInv
  <2>3. Told \subseteq Told'
    BY <1>7, <2>1, <2>2 DEF Told
  <2>4. toServer' \in Seq(Told')
    BY <1>4, <1>7, <2>3, SeqMonotonic
  <2>5. m.n <= session[m.tid].n /\ session[m.tid].n <= block + 1
    BY <1>1, <1>2, <1>4, <1>7, <2>1, <2>2 DEF Sent, Lockstep
  <2>6. (block' = m.n /\ m.n = block + 1) \/ block' = block
    <3>1. CASE StoresBlock(m)
      <4>1. m.n < Wrap
        BY <1>7, HeadBelowWrap DEF Deliver
      <4>2. block' = block + 1
        BY <1>1, <1>7, <3>1, <4>1, LongerPrefix
      <4>3. block \in 0 .. Wrap - 1
        BY DEF TransferInv, TypeOK
      <4>4. m.n = block + 1
        BY <2>1, <3>1, <4>1, <4>3, InSequenceIsNext DEF StoresBlock
      <4> QED
        BY <4>2, <4>4
    <3>2. CASE RefusesTooBig(m) \/ SeesDuplicate(m) \/ OutOfSequence(m)
      BY <3>2 DEF RefusesTooBig, SeesDuplicate, OutOfSequence
    <3> QED
      BY <1>7, <3>1, <3>2
  <2>7. Lockstep'
    <3>1. session[m.tid].n <= block' + 1 /\ block' <= session[m.tid].n
      <4>1. peerTid = m.tid => block <= session[m.tid].n
        BY <1>4, <2>1 DEF Lockstep
      <4> QED
        BY <1>2, <2>1, <2>2, <2>5, <2>6, <4>1
    <3>2. \A u \in Tids \ {m.tid} : session[u].n <= 1
      BY <1>4, <2>1, <2>2 DEF Lockstep, Tids, NoTid
    <3> QED
      BY <1>1, <1>7, <3>1, <3>2 DEF Lockstep
  <2>8. failed' # "timeout" /\ (pc = "wait" /\ lastBlock' => gotData')
    BY <1>4, <1>7 DEF StoresBlock, RefusesTooBig, SeesDuplicate, OutOfSequence
  <2> QED
    BY <1>1, <1>3, <1>4, <2>4, <2>7, <2>8 DEF ServedInv
<1> QED
  BY <1>1, <1>5, <1>6, <1>7 DEF RecvCb, RecvData

\* The loop tells nobody off.
LEMMA LoopServed ==
  ASSUME TransferInv, ServedInv,
         Start \/ EndsFailed \/ ReAcks \/ AcksBlock \/ Retries \/ TimesOut \/ EndsDally
  PROVE  ServedInv'
<1>1. UNCHANGED <<toClient, session, block, peerTid, lastBlock, failed>>
  BY DEF Start, EndsFailed, ReAcks, AcksBlock, Retries, TimesOut, EndsDally, xfer, net
<1>2. Sent' = Sent /\ Told' = Told /\ Lockstep'
  BY <1>1 DEF Sent, Told, ServedInv, Lockstep
<1>3. Rrq \in Told /\ (peerTid # NoTid => Ack(peerTid, block) \in Told)
  BY SentIsBehind DEF Told, Behind, Rrq, Ack
<1>4. toServer' \in Seq(Told)
  <2>1. gotData \/ resendAck => peerTid # NoTid
    BY DEF TransferInv, XferInv
  <2>2. CASE UNCHANGED toServer
    BY <2>2 DEF ServedInv
  <2>3. CASE \E x \in Told : toServer' = Append(toServer, x)
    BY <2>3, AppendProperties DEF ServedInv
  <2> QED
    BY <1>3, <2>1, <2>2, <2>3 DEF Start, EndsFailed, ReAcks, AcksBlock, Retries, TimesOut,
                                  EndsDally, Send, net
<1>5. /\ pc' = "start" => pc = "start" /\ UNCHANGED retries
      /\ pc' = "wait" => pc = "wait" \/ Start
      /\ result' = "timeout" => pc' = "out"
  <2>1. failed # "timeout" /\ (result = "timeout" => pc = "out")
    BY DEF ServedInv
  <2>2. CASE Start \/ EndsFailed \/ TimesOut \/ EndsDally
    BY <2>1, <2>2 DEF Start, EndsFailed, TimesOut, EndsDally, Leave
  <2>3. CASE ReAcks \/ Retries
    BY <2>1, <2>3 DEF ReAcks, Retries, Waits, call
  <2>4. CASE AcksBlock
    BY <2>1, <2>4 DEF AcksBlock, Leave
  <2> QED
    BY <2>2, <2>3, <2>4
<1>6. pc' = "wait" /\ lastBlock' => gotData'
  <2>1. Start => ~lastBlock
    BY DEF Start, ServedInv, TransferInv, XferInv
  <2>2. CASE Start
    BY <1>1, <2>1, <2>2
  <2>3. CASE EndsFailed \/ ReAcks \/ Retries \/ TimesOut \/ EndsDally
    BY <1>1, <1>5, <2>1, <2>3 DEF EndsFailed, ReAcks, Retries, TimesOut, EndsDally, xfer, ServedInv
  <2>4. CASE AcksBlock
    BY <1>1, <2>4 DEF AcksBlock, Leave
  <2> QED
    BY <2>2, <2>3, <2>4
<1> QED
  BY <1>1, <1>2, <1>4, <1>5, <1>6 DEF ServedInv

LEMMA NeverFreed ==
  ASSUME TransferInv, Server
  PROVE  \A u \in Tids : session'[u].state = "free" => session'[u] = session[u]
<1>1. session \in [Tids -> Sessions]
  BY DEF TransferInv, TypeOK
<1>2. ASSUME NEW t \in Tids, NEW s, session' = [session EXCEPT ![t] = s], s.state # "free"
      PROVE  \A u \in Tids : session'[u].state = "free" => session'[u] = session[u]
  BY <1>1, <1>2
<1>3. ASSUME NEW t \in Tids, NEW f \in Files \cup {Missing}, Opens(t, f)
      PROVE  \A u \in Tids : session'[u].state = "free" => session'[u] = session[u]
  <2>1. CASE session' = [session EXCEPT ![t].state = "gone"]
    BY <1>1, <2>1 DEF Sessions
  <2>2. CASE session' = [session EXCEPT ![t] =
               [state |-> "live", file |-> f, n |-> 1, sends |-> 1]]
    BY <1>2, <2>2
  <2> QED
    BY <1>3, <2>1, <2>2 DEF Opens
<1>4. ASSUME NEW t \in Tids, Advances(t)
      PROVE  \A u \in Tids : session'[u].state = "free" => session'[u] = session[u]
  <2> DEFINE s == session[t]
  <2>1. s.state = "live"
    BY <1>4 DEF Advances, Live
  <2>2. CASE session' = [session EXCEPT ![t].state = "done"]
    BY <1>1, <2>2 DEF Sessions
  <2>3. CASE session' = [session EXCEPT ![t].n = s.n + 1, ![t].sends = 1]
    BY <1>1, <2>1, <2>3 DEF Sessions
  <2> QED
    BY <1>4, <2>2, <2>3 DEF Advances
<1>5. ASSUME NEW t \in Tids, Aborts(t) \/ SendsAgain(t) \/ GivesUp(t)
      PROVE  \A u \in Tids : session'[u].state = "free" => session'[u] = session[u]
  <2>1. session[t].state = "live"
    BY <1>5 DEF Aborts, SendsAgain, GivesUp, Live
  <2>2. CASE session' = [session EXCEPT ![t].state = "gone"]
    BY <1>1, <2>2 DEF Sessions
  <2>3. CASE session' = [session EXCEPT ![t].sends = session[t].sends + 1]
    BY <1>1, <2>1, <2>3 DEF Sessions
  <2> QED
    BY <1>5, <2>2, <2>3 DEF Aborts, SendsAgain, GivesUp
<1> QED
  BY <1>3, <1>4, <1>5 DEF Server, Ignores

LEMMA ServedInit ==
  ASSUME Init
  PROVE  ServedInv
<1>1. /\ failed = None /\ result = None /\ toClient = <<>> /\ toServer = <<>> /\ pc = "start"
      /\ block = 0 /\ retries = 0 /\ peerTid = NoTid /\ ~lastBlock
      /\ \A t \in Tids : /\ session[t] = [state |-> "free", file |-> Missing, n |-> 1, sends |-> 0]
                         /\ t # peerTid
  BY DEF Init, ClientInit, WorldInit, Tids, NoTid
<1>2. Lockstep
  BY <1>1 DEF Lockstep
<1> QED
  BY <1>1, <1>2, EmptySeq DEF ServedInv, None

LEMMA ServedStep ==
  ASSUME TransferInv, ServedInv, [Next]_vars, NoWrap
  PROVE  ServedInv'
<1>1. CASE TftpGet
  BY <1>1, DeliverServed, LoopServed DEF TftpGet
<1>2. ASSUME UNCHANGED <<xfer, call>>, Lockstep', toClient' \in Seq(Sent'), toServer' \in Seq(Told),
             \A u \in Tids : session'[u].state = "free" => session'[u] = session[u]
      PROVE  ServedInv'
  <2>1. Told' = Told
    BY <1>2 DEF Told, xfer
  <2> QED
    BY <1>2, <2>1 DEF ServedInv, xfer, call
<1>3. CASE Wire
  <2>1. UNCHANGED <<session, xfer, call>>
    BY <1>3 DEF Wire, Lose, Double, Overtake, Stray
  <2>2. \A op \in Strays : [op |-> op] \in Sent
    BY DEF Sent, Datagrams, Strays
  <2>3. toClient' \in Seq(Sent) /\ toServer' \in Seq(Told)
    BY <1>3, <2>2, WireBrings DEF ServedInv
  <2>4. Sent' = Sent /\ Lockstep'
    BY <2>1 DEF Sent, ServedInv, Lockstep, xfer
  <2> QED
    BY <1>2, <2>1, <2>3, <2>4
<1>4. CASE Server
  <2>1. UNCHANGED <<xfer, call>>
    BY <1>4 DEF Server, Ignores, Opens, Advances, Aborts, SendsAgain, GivesUp
  <2>2. Lockstep' /\ \A u \in Tids : session'[u].n \in Nat /\ session[u].n <= session'[u].n
    BY <1>4, ServerMoves DEF ServedInv
  <2>3. toClient' \in Seq(Sent') /\ toServer' \in Seq(Told)
    BY <1>4, <2>2, ServerSent
  <2> QED
    BY <1>2, <1>4, <2>1, <2>2, <2>3, NeverFreed
<1>5. CASE UNCHANGED vars
  <2>1. Sent' = Sent /\ Lockstep'
    BY <1>5 DEF Sent, ServedInv, Lockstep, vars, xfer
  <2> QED
    BY <1>2, <1>5, <2>1 DEF vars, net, xfer, call, ServedInv
<1> QED
  BY <1>1, <1>3, <1>4, <1>5 DEF Next

LEMMA FactorsGrow ==
  ASSUME NEW a \in Nat, NEW b \in Nat, NEW c \in Nat, a <= b
  PROVE  a * c <= b * c
<1>1. b - a \in Nat /\ (b - a) * c \in Nat
  OBVIOUS
<1>2. b * c = a * c + (b - a) * c
  OBVIOUS
<1>3. a * c \in Nat /\ b * c \in Nat
  OBVIOUS
<1> QED
  BY <1>1, <1>2, <1>3

\* Below the wrap: what fits the buffer has fewer than Wrap blocks, and no more
\* than the block after it was ever sent.
LEMMA NeverWraps ==
  ASSUME TransferInv, ServedInv, SmallBuffer
  PROVE  NoWrap
<1>1. /\ session \in [Tids -> Sessions] /\ block \in Nat /\ written \in Nat /\ written <= DstLen
      /\ DstLen \in Nat /\ BlockSize \in Nat \ {0} /\ Wrap \in Nat \ {0, 1, 2}
      /\ peerTid \in Tids \cup {NoTid}
  BY SizesAssumption, ClientAssumption DEF TransferInv, TypeOK
<1>2. ASSUME NEW k \in Nat, k * BlockSize <= written
      PROVE  k + 1 < Wrap
  <2>1. k * BlockSize \in Nat /\ (Wrap - 1) * BlockSize \in Nat
    BY <1>1
  <2>2. Wrap - 1 <= k => (Wrap - 1) * BlockSize <= k * BlockSize
    BY <1>1, FactorsGrow
  <2>3. k * BlockSize < (Wrap - 1) * BlockSize
    BY <1>1, <1>2, <2>1 DEF SmallBuffer
  <2>4. ~(Wrap - 1 <= k)
    BY <2>1, <2>2, <2>3
  <2> QED
    BY <1>1, <2>4
<1>3. ASSUME NEW f \in Files, Prefix(f), NEW n \in Nat, n <= Blocks(f), n <= block + 1
      PROVE  n < Wrap
  <2>1. /\ Blocks(f) \in Nat \ {0} /\ TailLen[f] \in Nat
        /\ FileLen(f) = (Blocks(f) - 1) * BlockSize + TailLen[f]
    BY FileShape
  <2>2. CASE block < Blocks(f)
    <3>1. block * BlockSize <= written
      BY <1>1, <1>3, <2>2 DEF Prefix
    <3> QED
      BY <1>1, <1>2, <1>3, <3>1
  <2>3. CASE block = Blocks(f)
    <3>1. PICK k \in Nat : k = Blocks(f) - 1
      BY <2>1
    <3>2. written = k * BlockSize + TailLen[f] /\ k * BlockSize \in Nat
      BY <1>1, <1>3, <2>1, <2>3, <3>1 DEF Prefix
    <3>3. k * BlockSize <= written
      BY <2>1, <3>2
    <3>4. k + 1 < Wrap
      BY <1>2, <3>3
    <3> QED
      BY <1>1, <1>3, <2>1, <3>1, <3>4
  <2> QED
    BY <1>1, <1>3, <2>1, <2>2, <2>3 DEF Prefix
<1>4. ASSUME NEW t \in Tids, NEW f \in Files, session[t].state # "free", session[t].file = f,
             NEW n \in Nat, n <= session[t].n, n <= Blocks(f)
      PROVE  n < Wrap
  <2>1. session[t].n \in Nat /\ session[t].n <= (IF t = peerTid THEN block + 1 ELSE 1)
    BY <1>1 DEF Sessions, ServedInv, Lockstep
  <2>2. CASE t = peerTid
    <3>1. Prefix(f)
      BY <1>4, <2>2 DEF TransferInv, XferInv, Tids, NoTid
    <3>2. n <= block + 1
      BY <1>1, <1>4, <2>1, <2>2
    <3> QED
      BY <1>3, <1>4, <3>1, <3>2
  <2>3. CASE t # peerTid
    BY <1>1, <1>4, <2>1, <2>3
  <2> QED
    BY <2>2, <2>3
<1>5. ASSUME NEW t \in Tids, session[t].state \in {"live", "done"}
      PROVE  session[t].n < Wrap
  <2>1. session[t].n \in Nat /\ session[t].file \in Files /\ session[t].n <= Blocks(session[t].file)
    BY <1>1, <1>5 DEF TransferInv, SessionsInv, Reads, Sessions
  <2> QED
    BY <1>4, <1>5, <2>1
<1>6. ASSUME NEW m \in Genuine, m \in Sent, m.op = "DATA"
      PROVE  m.n < Wrap
  <2>1. /\ m.tid \in Tids /\ m.file \in Files /\ m.n \in Nat /\ m.n <= Blocks(m.file)
        /\ session[m.tid].state # "free" /\ session[m.tid].file = m.file
        /\ m.n <= session[m.tid].n
    BY <1>6 DEF Genuine, Sent, Datagrams, Strays
  <2> QED
    BY <1>4, <2>1
<1>7. toClient \in Seq({m \in Datagrams : m.op = "DATA" => m.n < Wrap})
  <2> DEFINE Low == {m \in Datagrams : m.op = "DATA" => m.n < Wrap}
  <2>1. toClient \in Seq(Genuine) /\ toClient \in Seq(Sent)
    BY DEF TransferInv, WireInv, ServedInv
  <2>2. Len(toClient) \in Nat /\ toClient = [i \in 1 .. Len(toClient) |-> toClient[i]]
    BY <2>1, LenProperties
  <2>3. \A i \in 1 .. Len(toClient) : toClient[i] \in Genuine /\ toClient[i] \in Sent
    BY <2>1, ElementOfSeq
  <2>4. Genuine \subseteq Datagrams
    BY DEF Genuine
  <2>5. \A i \in 1 .. Len(toClient) : toClient[i] \in Low
    BY <1>6, <2>3, <2>4
  <2> HIDE DEF Low
  <2>6. toClient \in Seq(Low)
    BY <2>2, <2>5
  <2> QED
    BY <2>6 DEF Low
<1> QED
  BY <1>5, <1>7 DEF NoWrap

-----------------------------------------------------------------------------

\* For any files, a buffer that Wrap blocks do not fit, any budget and fault: the
\* types, the meaning of what is on the wire and of what is stored, both ends in
\* lockstep, and no block number that wraps.
THEOREM TransferInvariant ==
  ASSUME SmallBuffer
  PROVE  Spec => [](TransferInv /\ ServedInv /\ NoWrap)
<1>1. Init => TransferInv /\ ServedInv
  BY InitHolds, ServedInit
<1>2. TransferInv /\ ServedInv => NoWrap
  BY NeverWraps
<1>3. TransferInv /\ NoWrap /\ [Next]_vars => TransferInv'
  <2> SUFFICES ASSUME TransferInv, NoWrap, [Next]_vars PROVE TransferInv'
    OBVIOUS
  <2>1. CASE TftpGet
    BY <2>1, DeliverStep, LoopStep DEF TftpGet
  <2>2. CASE Wire
    BY <2>2, WireStep
  <2>3. CASE Server
    BY <2>3, ServerStep
  <2>4. CASE UNCHANGED vars
    BY <2>4, StutterStep
  <2> QED
    BY <2>1, <2>2, <2>3, <2>4 DEF Next
<1>4. TransferInv /\ ServedInv /\ NoWrap /\ [Next]_vars => ServedInv'
  BY ServedStep
<1> QED
  BY <1>1, <1>2, <1>3, <1>4, PTL DEF Spec

\* tftp_get keeps its types, and never writes outside the caller's buffer.
THEOREM TransferTypes ==
  ASSUME SmallBuffer
  PROVE  Spec => []TypeOK
<1>1. TransferInv => TypeOK
  BY DEF TransferInv
<1> QED
  BY <1>1, TransferInvariant, PTL

\* A prefix with the last block in it is the whole file.
LEMMA PrefixIsWhole ==
  ASSUME TransferInv, lastBlock
  PROVE  /\ peerTid \in Tids /\ session[peerTid].file \in Files
         /\ stored = Whole(session[peerTid].file)
         /\ written = FileLen(session[peerTid].file)
<1> DEFINE f == session[peerTid].file
<1>1. peerTid \in Tids /\ f \in Files /\ Prefix(f)
  BY DEF TransferInv, XferInv, TypeOK, Reads
<1>2. block = Blocks(f) /\ Blocks(f) \in Nat
  BY <1>1, FileShape DEF Prefix
<1>3. written = FileLen(f)
  BY <1>1, <1>2 DEF Prefix
<1>4. stored \in Seq([file : Files, n : Nat \ {0}]) /\ Len(stored) = Blocks(f)
  BY <1>2 DEF TransferInv, TypeOK, XferInv
<1>5. DOMAIN stored = 1 .. Blocks(f) /\ stored = [i \in DOMAIN stored |-> stored[i]]
  BY <1>4, LenProperties
<1>6. \A i \in 1 .. Blocks(f) : stored[i] = [file |-> f, n |-> i]
  BY <1>1, <1>2 DEF Prefix
<1>7. stored = Whole(f)
  BY <1>5, <1>6 DEF Whole
<1> QED
  BY <1>1, <1>3, <1>7

\* TFTP_OK is a whole file, of one version, and its length.
THEOREM OkIsWholeFile ==
  ASSUME SmallBuffer
  PROVE  Spec => []OkMeansWhole
<1>1. TransferInv => OkMeansWhole
  BY PrefixIsWhole DEF TransferInv, DoneInv, OkMeansWhole
<1> QED
  BY <1>1, TransferInvariant, PTL

\* The server believes a session complete only when the board has stored it.
THEOREM ServerNeverMisled ==
  ASSUME SmallBuffer
  PROVE  Spec => []DoneMeansStored
<1>1. TransferInv => DoneMeansStored
  BY PrefixIsWhole DEF TransferInv, DoneInv, DoneMeansStored
<1> QED
  BY <1>1, TransferInvariant, PTL

-----------------------------------------------------------------------------
(* TFTP_ERR_TOOBIG.                                                        *)

BigInv ==
  failed = "toobig" => peerTid # NoTid /\ FileLen(session[peerTid].file) > DstLen

\* A session that reads a file reads it to its end.
LEMMA FilesStay ==
  ASSUME TransferInv, [Next]_vars
  PROVE  \A t \in Tids : session[t].state # "free" => session'[t].file = session[t].file
<1>1. session \in [Tids -> Sessions]
  BY DEF TransferInv, TypeOK
<1>2. CASE Server
  <2>1. CASE Ignores
    BY <2>1 DEF Ignores
  <2>2. ASSUME NEW t \in Tids, NEW f \in Files \cup {Missing}, Opens(t, f)
        PROVE  \A u \in Tids : session[u].state # "free" => session'[u].file = session[u].file
    <3>1. \/ session' = [session EXCEPT ![t].state = "gone"]
          \/ session' = [session EXCEPT ![t] =
               [state |-> "live", file |-> f, n |-> 1, sends |-> 1]]
      BY <2>2 DEF Opens
    <3>2. session[t].state = "free"
      BY <2>2 DEF Opens
    <3> QED
      BY <1>1, <3>1, <3>2
  <2>3. ASSUME NEW t \in Tids, Advances(t)
        PROVE  \A u \in Tids : session'[u].file = session[u].file
    <3> DEFINE s == session[t]
    <3>1. CASE session' = [session EXCEPT ![t].state = "done"]
      BY <1>1, <3>1
    <3>2. CASE session' = [session EXCEPT ![t].n = s.n + 1, ![t].sends = 1]
      BY <1>1, <3>2
    <3> QED
      BY <2>3, <3>1, <3>2 DEF Advances
  <2>4. ASSUME NEW t \in Tids, Aborts(t) \/ SendsAgain(t) \/ GivesUp(t)
        PROVE  \A u \in Tids : session'[u].file = session[u].file
    <3> DEFINE s == session[t]
    <3>1. CASE session' = [session EXCEPT ![t].state = "gone"]
      BY <1>1, <3>1
    <3>2. CASE session' = [session EXCEPT ![t].sends = s.sends + 1]
      BY <1>1, <3>2
    <3>3. \/ session' = [session EXCEPT ![t].state = "gone"]
          \/ session' = [session EXCEPT ![t].sends = s.sends + 1]
      BY <2>4 DEF Aborts, SendsAgain, GivesUp
    <3> QED
      BY <3>1, <3>2, <3>3
  <2> QED
    BY <1>2, <2>1, <2>2, <2>3, <2>4 DEF Server
<1>3. ASSUME TftpGet \/ Wire \/ UNCHANGED vars PROVE session' = session
  BY <1>3 DEF TftpGet, Start, Deliver, EndsFailed, ReAcks, AcksBlock, Retries, TimesOut,
              EndsDally, Wire, Lose, Double, Overtake, Stray, vars
<1> QED
  BY <1>2, <1>3 DEF Next

\* The block that does not fit is one of a file that does not.
LEMMA RefusedIsBig ==
  ASSUME TransferInv, NEW m \in Genuine, m.op = "DATA", ~OtherTid(m), m.n < Wrap,
         RefusesTooBig(m)
  PROVE  FileLen(m.file) > DstLen
<1> DEFINE f == m.file
<1> DEFINE B == Blocks(f)
<1>1. /\ f \in Files /\ m.n \in Nat \ {0} /\ m.n <= B /\ Prefix(f)
  BY PrefixOfSender
<1>2. /\ B \in Nat \ {0}
      /\ TailLen[f] \in Nat /\ TailLen[f] < BlockSize
      /\ FileLen(f) = (B - 1) * BlockSize + TailLen[f]
  BY <1>1, FileShape
<1>3. block \in 0 .. Wrap - 1 /\ block \in Nat /\ written \in Nat
  BY SizesAssumption DEF TransferInv, TypeOK
<1>4. m.n = block + 1
  BY <1>1, <1>2, <1>3, InSequenceIsNext, SizesAssumption DEF RefusesTooBig
<1>5. written = block * BlockSize
  BY <1>1, <1>2, <1>3, <1>4 DEF Prefix
<1>6. PayloadLen(f, m.n) > DstLen - written /\ BlockSize \in Nat /\ DstLen \in Nat
  BY <1>3, <1>2, SizesAssumption, ClientAssumption DEF RefusesTooBig, Fits, PayloadLen
<1>7. CASE m.n < B
  <2>1. PayloadLen(f, m.n) = BlockSize
    BY <1>7 DEF PayloadLen
  <2>2. B - 1 \in Nat /\ block + 1 \in Nat /\ block + 1 <= B - 1
    BY <1>2, <1>3, <1>4, <1>7
  <2>3. (block + 1) * BlockSize <= (B - 1) * BlockSize
    BY <1>6, <2>2, FactorsGrow
  <2>4. (block + 1) * BlockSize = block * BlockSize + BlockSize /\ block * BlockSize \in Nat
    BY <1>3, <1>6
  <2>5. (B - 1) * BlockSize \in Nat
    BY <1>6, <2>2
  <2> HIDE DEF B
  <2> QED
    BY <1>2, <1>5, <1>6, <2>1, <2>3, <2>4, <2>5
<1>8. CASE m.n = B
  <2>1. PayloadLen(f, m.n) = TailLen[f] /\ B - 1 = block
    BY <1>2, <1>3, <1>4, <1>8 DEF PayloadLen
  <2>2. block * BlockSize \in Nat
    BY <1>3, <1>6
  <2> QED
    BY <1>2, <1>5, <1>6, <2>1, <2>2
<1> QED
  BY <1>1, <1>2, <1>7, <1>8

LEMMA BigStep ==
  ASSUME TransferInv, BigInv, [Next]_vars, NoWrap
  PROVE  BigInv'
<1>1. \A t \in Tids : session[t].state # "free" => session'[t].file = session[t].file
  BY FilesStay
<1>2. peerTid # NoTid => peerTid \in Tids /\ session[peerTid].state # "free"
  BY DEF TransferInv, TypeOK, XferInv, Reads
<1>3. ASSUME failed' = failed \/ failed' # "toobig", peerTid' = peerTid \/ peerTid = NoTid
      PROVE  BigInv'
  BY <1>1, <1>2, <1>3 DEF BigInv
<1>4. ASSUME Deliver PROVE BigInv'
  <2> DEFINE m == Head(toClient)
  <2>1. m \in Genuine /\ RecvCb(m) /\ UNCHANGED session
    BY <1>4, HeadTailProperties DEF Deliver, TransferInv, WireInv
  <2>2. CASE m.op = "DATA" /\ ~OtherTid(m) /\ peerTid' = m.tid /\ RefusesTooBig(m)
    <3>1. FileLen(m.file) > DstLen
      BY <1>4, <2>1, <2>2, HeadBelowWrap, RefusedIsBig DEF Deliver
    <3>2. m.tid \in Tids /\ session[m.tid].file = m.file
      BY <2>1, <2>2, PrefixOfSender
    <3> QED
      BY <2>1, <2>2, <3>1, <3>2 DEF BigInv, Tids, NoTid
  <2>3. CASE /\ m.op = "DATA" /\ ~OtherTid(m) /\ peerTid' = m.tid
             /\ StoresBlock(m) \/ SeesDuplicate(m) \/ OutOfSequence(m)
    <3>1. failed' = failed \/ failed' # "toobig"
      BY <2>3 DEF StoresBlock, SeesDuplicate, OutOfSequence
    <3> QED
      BY <1>3, <2>3, <3>1 DEF OtherTid
  <2>4. CASE m.op = "DATA" /\ OtherTid(m) /\ UNCHANGED xfer
    BY <1>3, <2>4 DEF xfer
  <2>5. CASE m.op # "DATA"
    BY <1>3, <2>1, <2>5 DEF RecvCb, Fails, Drops, xfer
  <2> QED
    BY <2>1, <2>2, <2>3, <2>4, <2>5 DEF RecvCb, RecvData
<1>5. ASSUME \/ Wire \/ Server \/ UNCHANGED vars
             \/ Start \/ EndsFailed \/ ReAcks \/ AcksBlock \/ Retries \/ TimesOut \/ EndsDally
      PROVE  UNCHANGED <<failed, peerTid>>
  <2>1. CASE Wire
    BY <2>1 DEF Wire, Lose, Double, Overtake, Stray, xfer
  <2>2. CASE Server
    BY <2>2 DEF Server, Ignores, Opens, Advances, Aborts, SendsAgain, GivesUp, xfer
  <2>3. CASE Start \/ EndsFailed \/ ReAcks \/ AcksBlock \/ Retries \/ TimesOut \/ EndsDally
    BY <2>3 DEF Start, EndsFailed, ReAcks, AcksBlock, Retries, TimesOut, EndsDally, xfer
  <2> QED
    BY <1>5, <2>1, <2>2, <2>3 DEF vars, xfer
<1> QED
  BY <1>3, <1>4, <1>5 DEF Next, TftpGet

\* TFTP_ERR_TOOBIG is said of a file that is longer than the caller's buffer.
THEOREM TooBigIsTrue ==
  ASSUME SmallBuffer
  PROVE  Spec => []TooBigIsTooBig
<1>1. Init => BigInv
  BY DEF Init, ClientInit, BigInv, None
<1>2. TransferInv /\ NoWrap /\ BigInv /\ [Next]_vars => BigInv'
  BY BigStep
<1>3. BigInv => TooBigIsTooBig
  BY DEF BigInv, TooBigIsTooBig
<1> QED
  BY <1>1, <1>2, <1>3, TransferInvariant, PTL DEF Spec

-----------------------------------------------------------------------------
(* TFTP_ERR_PROTO.                                                         *)

\* What is under way to the client: what the server has come to, and nothing
\* from before the block the client has; one session's blocks in order.
Expected(m, sessions, latched, has) ==
  /\ m.op \in {"DATA", "ERROR"}
  /\ m.op = "DATA" => /\ m.n <= sessions[m.tid].n
                      /\ m.tid = latched => has <= m.n

Follows(m, k) == m.op = "DATA" /\ k.op = "DATA" /\ m.tid = k.tid => m.n <= k.n

InOrder ==
  \A i \in 1 .. Len(toClient) :
    /\ Expected(toClient[i], session, peerTid, block)
    /\ \A j \in i .. Len(toClient) : Follows(toClient[i], toClient[j])

OrderInv == disorder = 0 => failed # "proto" /\ InOrder

\* The order survives when datagrams go, or are doubled in place.
LEMMA StillInOrder ==
  ASSUME InOrder, NEW from \in [1 .. Len(toClient') -> 1 .. Len(toClient)],
         Len(toClient) \in Nat, Len(toClient') \in Nat,
         \A i \in 1 .. Len(toClient') : toClient'[i] = toClient[from[i]],
         \A i \in 1 .. Len(toClient') : \A j \in i .. Len(toClient') : from[i] <= from[j],
         \A i \in 1 .. Len(toClient') : Expected(toClient'[i], session', peerTid', block')
  PROVE  InOrder'
<1> SUFFICES ASSUME NEW i \in 1 .. Len(toClient'), NEW j \in i .. Len(toClient')
             PROVE  Follows(toClient'[i], toClient'[j])
  BY DEF InOrder, Follows
<1>1. j \in 1 .. Len(toClient')
  OBVIOUS
<1>2. from[i] \in 1 .. Len(toClient) /\ from[j] \in from[i] .. Len(toClient)
  BY <1>1
<1> QED
  BY <1>1, <1>2 DEF InOrder

\* A step that sends nothing to the client and moves neither end on.
LEMMA NothingSent ==
  ASSUME TransferInv, OrderInv, disorder = 0, TransferInv', UNCHANGED <<block, peerTid, failed>>,
         \A u \in Tids : session'[u].n = session[u].n,
         \/ toClient' = toClient
         \/ toClient # <<>> /\ toClient' = Tail(toClient)
         \/ toClient # <<>> /\ toClient' = <<Head(toClient)>> \o toClient
  PROVE  failed' # "proto" /\ InOrder'
<1>1. failed' # "proto"
  BY DEF OrderInv
<1>2. toClient \in Seq(Datagrams) /\ toClient' \in Seq(Datagrams)
  BY DEF TransferInv, TypeOK
<1>3. /\ Len(toClient) \in Nat /\ Len(toClient') \in Nat
      /\ \A i \in 1 .. Len(toClient) : toClient[i] \in Datagrams
  BY <1>2, LenProperties, ElementOfSeq
<1>4. \A i \in 1 .. Len(toClient) : Expected(toClient[i], session', peerTid', block')
  BY <1>3, DataTypes DEF OrderInv, InOrder, Expected
<1>5. InOrder
  BY DEF OrderInv
<1>6. CASE toClient' = toClient
  BY <1>1, <1>4, <1>5, <1>6 DEF InOrder, Follows
<1>7. CASE toClient # <<>> /\ toClient' = Tail(toClient)
  <2> DEFINE from == [i \in 1 .. Len(toClient') |-> i + 1]
  <2>1. /\ Len(toClient') = Len(toClient) - 1
        /\ \A i \in 1 .. Len(toClient') : toClient'[i] = toClient[i + 1]
    BY <1>2, <1>7, HeadTailProperties
  <2>2. from \in [1 .. Len(toClient') -> 1 .. Len(toClient)]
    BY <1>3, <2>1
  <2>3. \A i \in 1 .. Len(toClient') : toClient'[i] = toClient[from[i]]
    BY <2>1
  <2>4. \A i \in 1 .. Len(toClient') : \A j \in i .. Len(toClient') : from[i] <= from[j]
    BY <1>3
  <2>5. \A i \in 1 .. Len(toClient') : Expected(toClient'[i], session', peerTid', block')
    BY <1>4, <2>2, <2>3
  <2> HIDE DEF from
  <2> QED
    BY <1>1, <1>3, <1>5, <2>2, <2>3, <2>4, <2>5, StillInOrder
<1>8. CASE toClient # <<>> /\ toClient' = <<Head(toClient)>> \o toClient
  <2> DEFINE from == [i \in 1 .. Len(toClient') |-> IF i = 1 THEN 1 ELSE i - 1]
  <2>1. Head(toClient) = toClient[1] /\ Len(toClient) >= 1
    BY <1>2, <1>8, HeadTailProperties, EmptySeq, LenProperties
  <2>2. /\ Len(toClient') = Len(toClient) + 1
        /\ \A i \in 1 .. Len(toClient') :
             toClient'[i] = IF i = 1 THEN toClient[1] ELSE toClient[i - 1]
    BY <1>2, <1>3, <1>8, <2>1
  <2>3. from \in [1 .. Len(toClient') -> 1 .. Len(toClient)]
    BY <1>3, <2>1, <2>2
  <2>4. \A i \in 1 .. Len(toClient') : toClient'[i] = toClient[from[i]]
    BY <2>2
  <2>5. \A i \in 1 .. Len(toClient') : \A j \in i .. Len(toClient') : from[i] <= from[j]
    BY <1>3
  <2>6. \A i \in 1 .. Len(toClient') : Expected(toClient'[i], session', peerTid', block')
    BY <1>4, <2>3, <2>4
  <2> HIDE DEF from
  <2> QED
    BY <1>1, <1>3, <1>5, <2>3, <2>4, <2>5, <2>6, StillInOrder
<1> QED
  BY <1>6, <1>7, <1>8

\* The server sends what it has come to.
LEMMA SentInOrder ==
  ASSUME TransferInv, OrderInv, disorder = 0, UNCHANGED <<block, peerTid, failed>>,
         \A u \in Tids : session'[u].n \in Nat /\ session[u].n <= session'[u].n,
         Lockstep', NEW d \in Datagrams, d.op \in {"DATA", "ERROR"},
         d.op = "DATA" => d.n = session'[d.tid].n,
         toClient' = Append(toClient, d)
  PROVE  failed' # "proto" /\ InOrder'
<1> DEFINE n == Len(toClient)
<1>1. toClient \in Seq(Datagrams) /\ \A u \in Tids : session[u].n \in Nat
  BY DEF TransferInv, TypeOK, Sessions
<1>2. n \in Nat /\ \A i \in 1 .. n : toClient[i] \in Datagrams
  BY <1>1, LenProperties, ElementOfSeq
<1>3. Len(toClient') = n + 1 /\ toClient'[n + 1] = d /\ \A i \in 1 .. n : toClient'[i] = toClient[i]
  BY <1>1, AppendProperties
<1>4. block \in Nat
  BY SizesAssumption DEF TransferInv, TypeOK
<1>5. ASSUME NEW m \in Datagrams, Expected(m, session, peerTid, block)
      PROVE  Expected(m, session', peerTid', block')
  <2>1. CASE m.op = "DATA"
    <3>1. m.tid \in Tids /\ m.n \in Nat
      BY <2>1, DataTypes
    <3>2. m.n <= session'[m.tid].n
      BY <1>1, <1>5, <2>1, <3>1 DEF Expected
    <3> QED
      BY <1>5, <2>1, <3>2 DEF Expected
  <2> QED
    BY <1>5, <2>1 DEF Expected
<1>6. Expected(d, session', peerTid', block')
  <2>1. CASE d.op = "DATA"
    <3>1. d.tid \in Tids /\ d.n \in Nat /\ d.n = session'[d.tid].n
      BY <2>1, DataTypes
    <3>2. d.n <= session'[d.tid].n
      BY <3>1
    <3>3. d.tid = peerTid' => block' <= d.n
      BY <3>1 DEF Lockstep
    <3> QED
      BY <2>1, <3>2, <3>3 DEF Expected
  <2> QED
    BY <2>1 DEF Expected
<1>7. \A i \in 1 .. n : Expected(toClient[i], session', peerTid', block')
  BY <1>2, <1>5 DEF OrderInv, InOrder
<1>8. \A i \in 1 .. n : Follows(toClient[i], d)
  BY <1>2, <1>7, DataTypes DEF Follows, Expected
<1>9. Follows(d, d)
  BY DataTypes DEF Follows
<1>10. \A i \in 1 .. n : \A j \in i .. n : Follows(toClient[i], toClient[j])
  BY DEF OrderInv, InOrder
<1>11. ASSUME NEW i \in 1 .. n + 1, NEW j \in i .. n + 1
       PROVE  Expected(toClient'[i], session', peerTid', block') /\ Follows(toClient'[i], toClient'[j])
  <2>1. CASE i = n + 1
    <3>1. j = n + 1
      BY <1>2, <2>1
    <3> QED
      BY <1>3, <1>6, <1>9, <2>1, <3>1
  <2>2. CASE i \in 1 .. n /\ j = n + 1
    BY <1>3, <1>7, <1>8, <2>2
  <2>3. CASE i \in 1 .. n /\ j \in i .. n
    <3>1. j \in 1 .. n
      BY <2>3
    <3> QED
      BY <1>3, <1>7, <1>10, <2>3, <3>1
  <2> QED
    BY <1>2, <2>1, <2>2, <2>3
<1>12. \A i \in 1 .. Len(toClient') :
         /\ Expected(toClient'[i], session', peerTid', block')
         /\ \A j \in i .. Len(toClient') : Follows(toClient'[i], toClient'[j])
  <2>1. \A i \in 1 .. n + 1 : i \in i .. n + 1
    BY <1>2
  <2> HIDE DEF n
  <2> QED
    BY <1>3, <1>11, <2>1
<1>13. InOrder'
  BY <1>12 DEF InOrder, Follows
<1> QED
  BY <1>13 DEF OrderInv

\* Faults of order are never forgotten.
LEMMA DisorderGrows ==
  ASSUME TransferInv, [Next]_vars, disorder' = 0
  PROVE  disorder = 0 /\ ~Overtake /\ ~Stray
<1>1. disorder \in Nat
  BY DEF TransferInv, TypeOK
<1>2. ~Overtake /\ ~Stray
  BY <1>1 DEF Overtake, Stray
<1>3. CASE TftpGet
  BY <1>2, <1>3 DEF TftpGet, Start, Deliver, EndsFailed, ReAcks, AcksBlock, Retries, TimesOut,
              EndsDally, faults
<1>4. CASE Server
  BY <1>2, <1>4 DEF Server, Ignores, Opens, Advances, Aborts, SendsAgain, GivesUp, faults
<1>5. CASE Lose \/ Double
  BY <1>2, <1>5 DEF Lose, Double
<1>6. CASE UNCHANGED vars
  BY <1>2, <1>6 DEF vars, faults
<1> QED
  BY <1>2, <1>3, <1>4, <1>5, <1>6 DEF Next, Wire

LEMMA ServerInOrder ==
  ASSUME TransferInv, ServedInv, OrderInv, disorder = 0, TransferInv', Server, NoWrap
  PROVE  failed' # "proto" /\ InOrder'
<1>1. UNCHANGED <<block, peerTid, failed>>
  BY DEF Server, Ignores, Opens, Advances, Aborts, SendsAgain, GivesUp, xfer
<1>2. session \in [Tids -> Sessions] /\ block \in Nat
  BY SizesAssumption DEF TransferInv, TypeOK
<1>3. \A u \in Tids : session[u].n \in Nat /\ session[u].n # 0
  BY <1>2 DEF Sessions
<1>4. /\ Lockstep /\ Lockstep'
      /\ \A u \in Tids : session'[u].n \in Nat /\ session[u].n <= session'[u].n
  BY ServerMoves DEF ServedInv
<1>5. CASE Ignores
  BY <1>1, <1>5, NothingSent DEF Ignores
<1>6. ASSUME NEW t \in Tids, NEW v, session' = [session EXCEPT ![t].state = v],
             toClient' = toClient
      PROVE  failed' # "proto" /\ InOrder'
  <2>1. \A u \in Tids : session'[u].n = session[u].n
    BY <1>2, <1>6
  <2> QED
    BY <1>1, <1>6, <2>1, NothingSent
<1>7. ASSUME NEW t \in Tids, NEW f \in Files \cup {Missing}, Opens(t, f)
      PROVE  failed' # "proto" /\ InOrder'
  <2>1. CASE f = Missing
    <3>1. toClient' = Append(toClient, Error(t))
      BY <1>7, <2>1 DEF Opens
    <3>2. Error(t) \in Datagrams /\ Error(t).op = "ERROR"
      BY DEF Error, Datagrams
    <3> QED
      BY <1>1, <1>4, <3>1, <3>2, SentInOrder
  <2>2. CASE f # Missing
    <3>1. session'[t].n = 1 /\ toClient' = Append(toClient, Data(t, f, 1)) /\ f \in Files
      BY <1>2, <1>7, <2>2 DEF Opens
    <3>2. /\ Data(t, f, 1) \in Datagrams /\ Data(t, f, 1).op = "DATA"
          /\ Data(t, f, 1).n = session'[Data(t, f, 1).tid].n
      BY <3>1 DEF Data, Datagrams
    <3> QED
      BY <1>1, <1>4, <3>1, <3>2, SentInOrder
  <2> QED
    BY <2>1, <2>2
<1>8. ASSUME NEW t \in Tids, NEW n \in Nat \ {0}, Live(t), session'[t].n = n,
             toClient' = Append(toClient, Data(t, session[t].file, n))
      PROVE  failed' # "proto" /\ InOrder'
  <2> DEFINE d == Data(t, session[t].file, n)
  <2>1. session[t].file \in Files
    BY <1>2, <1>8 DEF TransferInv, SessionsInv, Reads, Live
  <2>2. d \in Datagrams /\ d.op = "DATA" /\ d.n = session'[d.tid].n
    BY <1>8, <2>1 DEF Data, Datagrams
  <2> QED
    BY <1>1, <1>4, <1>8, <2>2, SentInOrder
<1>9. ASSUME NEW t \in Tids, Advances(t)
      PROVE  failed' # "proto" /\ InOrder'
  <2> DEFINE s == session[t]
  <2>1. CASE s.n = Blocks(s.file)
    BY <1>6, <1>9, <2>1 DEF Advances
  <2>2. CASE s.n # Blocks(s.file)
    <3>1. /\ Live(t) /\ session' = [session EXCEPT ![t].n = s.n + 1, ![t].sends = 1]
          /\ toClient' = Append(toClient, Data(t, s.file, s.n + 1))
      BY <1>9, <2>2 DEF Advances
    <3>2. s.n + 1 \in Nat \ {0} /\ session'[t].n = s.n + 1
      BY <1>2, <1>3, <3>1
    <3> QED
      BY <1>8, <3>1, <3>2
  <2> QED
    BY <2>1, <2>2
<1>10. ASSUME NEW t \in Tids, SendsAgain(t)
       PROVE  failed' # "proto" /\ InOrder'
  <2> DEFINE s == session[t]
  <2>1. /\ Live(t) /\ session' = [session EXCEPT ![t].sends = s.sends + 1]
        /\ toClient' = Append(toClient, Data(t, s.file, s.n))
    BY <1>10 DEF SendsAgain
  <2>2. s.n \in Nat \ {0} /\ session'[t].n = s.n
    BY <1>2, <1>3, <2>1
  <2> QED
    BY <1>8, <2>1, <2>2
<1> QED
  BY <1>5, <1>6, <1>7, <1>9, <1>10 DEF Server, Aborts, GivesUp, net

\* The client takes the next block, or one it has; nothing else comes.
LEMMA DeliveredInOrder ==
  ASSUME TransferInv, ServedInv, OrderInv, disorder = 0, TransferInv', Deliver, NoWrap
  PROVE  failed' # "proto" /\ InOrder'
<1> DEFINE m == Head(toClient)
<1>1. /\ m \in Genuine /\ m \in Datagrams /\ RecvCb(m) /\ UNCHANGED session
      /\ toClient # <<>> /\ toClient' = Tail(toClient)
  BY HeadTailProperties DEF Deliver, TransferInv, WireInv, Genuine
<1>2. /\ toClient \in Seq(Datagrams) /\ toClient' \in Seq(Datagrams)
      /\ block \in 0 .. Wrap - 1 /\ block \in Nat
      /\ \A u \in Tids : session[u].n \in Nat
  BY SizesAssumption DEF TransferInv, TypeOK, Sessions
<1>3. /\ Len(toClient) \in Nat /\ Len(toClient') = Len(toClient) - 1 /\ Len(toClient) >= 1
      /\ m = toClient[1]
      /\ \A i \in 1 .. Len(toClient') : toClient'[i] = toClient[i + 1]
      /\ \A i \in 1 .. Len(toClient) : toClient[i] \in Datagrams
  BY <1>1, <1>2, HeadTailProperties, EmptySeq, LenProperties, ElementOfSeq
<1>4. failed # "proto" /\ Lockstep /\ InOrder
  BY DEF OrderInv, ServedInv
<1>5. 1 \in 1 .. Len(toClient)
  BY <1>3
<1>6. Expected(m, session, peerTid, block)
  BY <1>3, <1>4, <1>5 DEF InOrder
<1>7. CASE UNCHANGED <<block, peerTid, failed>>
  BY <1>1, <1>7, NothingSent
<1>8. CASE m.op = "ERROR" /\ Fails("server")
  <2>1. failed' # "proto" /\ UNCHANGED <<block, peerTid>>
    BY <1>8 DEF Fails
  <2>2. InOrder'
    BY <1>1, <1>3, <1>4, <2>1 DEF InOrder
  <2> QED
    BY <2>1, <2>2
<1>9. CASE /\ m.op = "DATA" /\ ~OtherTid(m) /\ peerTid' = m.tid
           /\ StoresBlock(m) \/ RefusesTooBig(m) \/ SeesDuplicate(m) \/ OutOfSequence(m)
  <2>1. /\ m.tid \in Tids /\ m.n \in Nat \ {0} /\ m.n <= Blocks(m.file) /\ m.file \in Files
        /\ m.tid # NoTid
    BY <1>1, <1>9, PrefixOfSender DEF Tids, NoTid
  <2>2. m.n < Wrap /\ m.n % Wrap = m.n
    <3>1. m.n < Wrap
      BY <1>9, HeadBelowWrap DEF Deliver
    <3> QED
      BY <2>1, <3>1, ModSmall
  <2>3. peerTid = m.tid \/ (peerTid = NoTid /\ block = 0)
    BY <1>9 DEF OtherTid, TransferInv, XferInv
  <2>4. m.n <= session[m.tid].n /\ (m.tid = peerTid => block <= m.n)
    BY <1>6, <1>9 DEF Expected
  <2>5. session[m.tid].n <= block + 1
    BY <1>2, <1>4, <2>1, <2>3 DEF Lockstep
  <2>6. m.n = block + 1 \/ m.n = block
    BY <1>2, <2>1, <2>3, <2>4, <2>5
  <2>7. ~OutOfSequence(m)
    <3>1. m.n = block + 1 => InSequence(m)
      BY DEF InSequence
    <3> QED
      BY <2>2, <2>6, <3>1 DEF OutOfSequence
  <2>8. failed' # "proto"
    BY <1>4, <1>9, <2>7 DEF StoresBlock, RefusesTooBig, SeesDuplicate
  <2>9. (block' = m.n /\ m.n = block + 1) \/ block' = block
    <3>1. StoresBlock(m) => block' = m.n /\ m.n = block + 1
      BY <1>2, <2>1, <2>2, InSequenceIsNext DEF StoresBlock
    <3> QED
      BY <1>9, <2>7, <3>1 DEF RefusesTooBig, SeesDuplicate
  <2>10. block' \in Nat /\ block <= block' /\ block' <= m.n
    BY <1>2, <2>1, <2>6, <2>9
  <2>11. ASSUME NEW i \in 1 .. Len(toClient')
         PROVE  /\ Expected(toClient'[i], session', peerTid', block')
                /\ \A j \in i .. Len(toClient') : Follows(toClient'[i], toClient'[j])
    <3> DEFINE k == toClient[i + 1]
    <3>1. i + 1 \in 1 .. Len(toClient) /\ toClient'[i] = k /\ k \in Datagrams
      BY <1>3
    <3>2. Expected(k, session, peerTid, block) /\ Follows(m, k)
      BY <1>3, <1>4, <1>5, <3>1 DEF InOrder
    <3>3. k.op = "DATA" => k.n \in Nat
      BY <3>1, DataTypes
    <3>4. Expected(k, session', peerTid', block')
      <4>1. k.op = "DATA" /\ k.tid = m.tid => block' <= k.n
        BY <1>9, <2>1, <2>10, <3>2, <3>3 DEF Follows
      <4> QED
        BY <1>1, <1>9, <3>2, <4>1 DEF Expected
    <3>5. \A j \in i .. Len(toClient') : Follows(toClient'[i], toClient'[j])
      <4> TAKE j \in i .. Len(toClient')
      <4>1. j \in 1 .. Len(toClient') /\ j + 1 \in i + 1 .. Len(toClient)
        BY <1>3
      <4>2. toClient'[j] = toClient[j + 1]
        BY <1>3, <4>1
      <4> QED
        BY <1>4, <3>1, <4>1, <4>2 DEF InOrder
    <3> QED
      BY <3>1, <3>4, <3>5
  <2>12. InOrder'
    BY <2>11 DEF InOrder, Follows
  <2> QED
    BY <2>8, <2>12
<1>10. m.op # "short"
  BY <1>6 DEF Expected
<1> QED
  BY <1>1, <1>7, <1>8, <1>9, <1>10 DEF RecvCb, RecvData, Drops, xfer

LEMMA OrderStep ==
  ASSUME TransferInv, ServedInv, NoWrap, OrderInv, [Next]_vars, TransferInv'
  PROVE  OrderInv'
<1> SUFFICES ASSUME disorder' = 0 PROVE failed' # "proto" /\ InOrder'
  BY DEF OrderInv
<1>1. disorder = 0 /\ ~Overtake /\ ~Stray
  BY DisorderGrows
<1>2. CASE Deliver
  BY <1>1, <1>2, DeliveredInOrder
<1>3. CASE Server
  BY <1>1, <1>3, ServerInOrder
<1>4. CASE \/ UNCHANGED vars
           \/ Start \/ EndsFailed \/ ReAcks \/ AcksBlock \/ Retries \/ TimesOut \/ EndsDally
  <2>1. UNCHANGED <<block, peerTid, failed, session, toClient>>
    BY <1>4 DEF vars, xfer, net, Start, EndsFailed, ReAcks, AcksBlock, Retries, TimesOut, EndsDally
  <2> QED
    BY <1>1, <2>1, NothingSent
<1>5. CASE Lose \/ Double
  <2>1. UNCHANGED <<block, peerTid, failed, session>>
    BY <1>5 DEF Lose, Double, xfer
  <2>2. \/ toClient' = toClient
        \/ toClient # <<>> /\ toClient' = Tail(toClient)
        \/ toClient # <<>> /\ toClient' = <<Head(toClient)>> \o toClient
    BY <1>5 DEF Lose, Double
  <2> QED
    BY <1>1, <2>1, <2>2, NothingSent
<1> QED
  BY <1>1, <1>2, <1>3, <1>4, <1>5 DEF Next, TftpGet, Wire

\* On a wire that keeps the order, whatever it loses and doubles and however
\* often both ends send again, the transfer never ends in TFTP_ERR_PROTO.
THEOREM OrderIsEnough ==
  ASSUME SmallBuffer
  PROVE  Spec => []ProtoNeedsDisorder
<1>1. Init => OrderInv
  <2> SUFFICES ASSUME Init PROVE OrderInv
    OBVIOUS
  <2>1. failed # "proto" /\ toClient = <<>> /\ block = 0
        /\ \A t \in Tids : session[t].n = 1 /\ t # peerTid
    BY DEF Init, ClientInit, WorldInit, None, Tids, NoTid
  <2>2. Len(toClient) = 0
    BY <2>1, EmptySeq
  <2>3. InOrder
    BY <2>2 DEF InOrder
  <2> QED
    BY <2>1, <2>3 DEF OrderInv
<1>2. TransferInv /\ ServedInv /\ NoWrap /\ OrderInv /\ [Next]_vars /\ TransferInv' => OrderInv'
  BY OrderStep
<1>3. TransferInv /\ OrderInv => ProtoNeedsDisorder
  BY DEF TransferInv, TypeOK, OrderInv, ProtoNeedsDisorder
<1> QED
  BY <1>1, <1>2, <1>3, TransferInvariant, PTL DEF Spec

-----------------------------------------------------------------------------
(* TFTP_ERR_TIMEOUT.                                                       *)

\* The server sends a block more often than the client asks again for it.
PatientServer == AckRetries < ServerSends

In(q, x) == \E i \in 1 .. Len(q) : q[i] = x

\* The session's block is on its way to the client, or the client's answer to
\* it on its way back.
Carried(t) ==
  \/ In(toClient, Data(t, session[t].file, session[t].n))
  \/ /\ t = peerTid /\ session[t].n = block
     /\ gotData \/ resendAck \/ In(toServer, Ack(t, block))

MaySend(t) == Live(t) /\ session[t].sends < ServerSends

\* What the client waits for can still come without another retry.
Awaited ==
  IF peerTid = NoTid
  THEN \/ In(toServer, Rrq)
       \/ \E m \in Datagrams : m.op \in {"DATA", "ERROR"} /\ In(toClient, m)
       \/ \E t \in Tids : MaySend(t)
  ELSE Carried(peerTid) \/ MaySend(peerTid)

\* All of n sends but one that may be alive were lost, or came early.
Paid(n, alive) == n <= losses \/ (alive /\ n <= losses + 1)

\* Neither end gives up before as many losses as it has sends.
ServerPatience ==
  pc # "out" /\ failed = None =>
    \A t \in Tids : peerTid = NoTid \/ peerTid = t =>
      /\ Live(t) => /\ session[t].sends \in 1 .. ServerSends
                    /\ Paid(session[t].sends, Carried(t))
      /\ session[t].state = "gone" /\ session[t].file \in Files => ServerSends <= losses

ClientPatience ==
  pc = "wait" /\ failed = None /\ ~gotData =>
    Budget < losses \/ Paid(retries + 1, Awaited)

PatienceInv == ServerPatience /\ ClientPatience /\ RetriesOutlast

LEMMA InTail ==
  ASSUME NEW S, NEW q \in Seq(S), q # <<>>, NEW x, In(q, x), x # Head(q)
  PROVE  In(Tail(q), x)
<1>1. PICK i \in 1 .. Len(q) : q[i] = x
  BY DEF In
<1>2. /\ Len(q) \in Nat /\ Len(Tail(q)) = Len(q) - 1 /\ Head(q) = q[1]
      /\ \A j \in 1 .. Len(Tail(q)) : Tail(q)[j] = q[j + 1]
  BY HeadTailProperties, LenProperties
<1>3. i - 1 \in 1 .. Len(Tail(q)) /\ (i - 1) + 1 = i
  BY <1>1, <1>2
<1>4. Tail(q)[i - 1] = x
  BY <1>1, <1>2, <1>3
<1> QED
  BY <1>3, <1>4 DEF In

LEMMA InAppend ==
  ASSUME NEW S, NEW q \in Seq(S), NEW y \in S, NEW x, In(q, x) \/ x = y
  PROVE  In(Append(q, y), x)
<1>1. /\ Len(q) \in Nat /\ Len(Append(q, y)) = Len(q) + 1
      /\ \A i \in 1 .. Len(q) : Append(q, y)[i] = q[i]
      /\ Append(q, y)[Len(q) + 1] = y
  BY AppendProperties, LenProperties
<1>2. CASE In(q, x)
  BY <1>1, <1>2 DEF In
<1>3. CASE x = y
  BY <1>1, <1>3 DEF In
<1> QED
  BY <1>2, <1>3

LEMMA InPrepend ==
  ASSUME NEW S, NEW q \in Seq(S), NEW y \in S, NEW x, In(q, x)
  PROVE  In(<<y>> \o q, x)
<1>1. PICK i \in 1 .. Len(q) : q[i] = x
  BY DEF In
<1>2. Len(q) \in Nat /\ Len(<<y>> \o q) = Len(q) + 1
  BY LenProperties
<1>3. i + 1 \in 1 .. Len(<<y>> \o q) /\ (<<y>> \o q)[i + 1] = q[i]
  BY <1>1, <1>2
<1> QED
  BY <1>1, <1>3 DEF In

LEMMA InMoved ==
  ASSUME NEW S, NEW q \in Seq(S), NEW i \in 1 .. Len(q), NEW x, In(q, x)
  PROVE  In(<<q[i]>> \o RemoveAt(q, i), x)
<1>1. PICK j \in 1 .. Len(q) : q[j] = x
  BY DEF In
<1>2. Len(q) \in Nat /\ q[i] \in S /\ RemoveAt(q, i) \in Seq(S)
  BY LenProperties, ElementOfSeq, RemovedFrom
<1>3. RemoveAt(q, i) = SubSeq(q, 1, i - 1) \o SubSeq(q, i + 1, Len(q))
  BY DEF RemoveAt
<1>4. CASE j = i
  <2>1. (<<q[i]>> \o RemoveAt(q, i))[1] = q[i] /\ 1 \in 1 .. Len(<<q[i]>> \o RemoveAt(q, i))
    BY <1>2, LenProperties
  <2> QED
    BY <1>1, <1>4, <2>1 DEF In
<1>5. CASE j # i
  <2>1. Len(RemoveAt(q, i)) = Len(q) - 1
        /\ \A k \in 1 .. Len(q) - 1 : RemoveAt(q, i)[k] = IF k < i THEN q[k] ELSE q[k + 1]
    <3>1. PICK a : a = SubSeq(q, 1, i - 1)
      OBVIOUS
    <3>2. PICK b : b = SubSeq(q, i + 1, Len(q))
      OBVIOUS
    <3>3. a \in Seq(S) /\ Len(a) = i - 1 /\ \A k \in 1 .. i - 1 : a[k] = q[k]
      BY <1>2, <3>1, SubSeqProperties
    <3>4. b \in Seq(S) /\ Len(b) = Len(q) - i /\ \A k \in 1 .. Len(q) - i : b[k] = q[i + k]
      BY <1>2, <3>2, SubSeqProperties
    <3>5. RemoveAt(q, i) = a \o b
      BY <1>3, <3>1, <3>2
    <3>6. /\ Len(a \o b) = Len(a) + Len(b)
          /\ \A k \in 1 .. Len(a) + Len(b) : (a \o b)[k] = IF k <= Len(a) THEN a[k] ELSE b[k - Len(a)]
      BY <3>3, <3>4, ConcatProperties
    <3>7. Len(a) + Len(b) = Len(q) - 1
      <4>1. Len(a) + Len(b) = (i - 1) + (Len(q) - i)
        BY ONLY <3>3, <3>4
      <4>2. PICK n \in Nat : n = Len(q)
        BY <1>2
      <4>3. (i - 1) + (n - i) = n - 1
        BY ONLY <4>2, i \in Int
      <4> QED
        BY ONLY <4>1, <4>2, <4>3
    <3>8. Len(RemoveAt(q, i)) = Len(q) - 1
      BY ONLY <3>7, <3>5, <3>6
    <3>9. ASSUME NEW k \in 1 .. Len(q) - 1
          PROVE  RemoveAt(q, i)[k] = IF k < i THEN q[k] ELSE q[k + 1]
      <4>1. k \in 1 .. Len(a) + Len(b)
        BY ONLY <3>7, k \in 1 .. Len(q) - 1
      <4>2. (a \o b)[k] = IF k <= Len(a) THEN a[k] ELSE b[k - Len(a)]
        BY ONLY <3>6, <4>1
      <4>3. RemoveAt(q, i)[k] = IF k <= i - 1 THEN a[k] ELSE b[k - (i - 1)]
        BY ONLY <3>3, <3>5, <4>2
      <4>4. CASE k < i
        BY <1>2, <3>3, <4>3, <4>4
      <4>5. CASE k >= i
        <5>1. k - (i - 1) \in 1 .. Len(q) - i /\ i + (k - (i - 1)) = k + 1
          BY <1>2, <4>5
        <5>2. b[k - (i - 1)] = q[k + 1]
          BY ONLY <3>4, <5>1
        <5>3. ~(k <= i - 1) /\ ~(k < i)
          BY <4>5
        <5> QED
          BY ONLY <4>3, <5>2, <5>3
      <4> QED
        BY <1>2, <4>4, <4>5
    <3> QED
      BY <3>8, <3>9
  <2>2. In(RemoveAt(q, i), x)
    <3>1. CASE j < i
      <4>1. j \in 1 .. Len(q) - 1
        BY <1>2, <3>1
      <4> QED
        BY <1>1, <2>1, <3>1, <4>1 DEF In
    <3>2. CASE j > i
      <4>1. j - 1 \in 1 .. Len(q) - 1 /\ ~(j - 1 < i) /\ (j - 1) + 1 = j
        BY <1>2, <3>2
      <4> QED
        BY <1>1, <2>1, <4>1 DEF In
    <3> QED
      BY <1>5, <3>1, <3>2
  <2> QED
    BY <1>2, <2>2, InPrepend
<1> QED
  BY <1>4, <1>5

-----------------------------------------------------------------------------
(* What a timeout finds on its way: the wire and the server.               *)

LEMMA NothingIn ==
  ASSUME NEW q, q = <<>>, NEW x
  PROVE  ~In(q, x)
<1>1. Len(q) = 0
  BY EmptySeq
<1> QED
  BY <1>1 DEF In

LEMMA QuietCarriesNothing ==
  ASSUME Quiet, NEW t
  PROVE  ~Carried(t)
<1>1. \A x : ~In(toClient, x) /\ ~In(toServer, x)
  BY NothingIn DEF Quiet
<1> QED
  BY <1>1 DEF Carried, Quiet

\* The numbers of both ends, where a call is under way.
LEMMA PatienceTypes ==
  ASSUME TransferInv
  PROVE  /\ losses \in Nat /\ retries \in Nat /\ block \in Nat
         /\ Budget \in Nat \ {0} /\ ServerSends \in Nat \ {0} /\ AckRetries \in Nat \ {0}
         /\ peerTid \in Tids \cup {NoTid} /\ NoTid \notin Tids
         /\ toClient \in Seq(Datagrams) /\ toServer \in Seq(Requests)
         /\ session \in [Tids -> Sessions]
         /\ \A t \in Tids : /\ session[t].n \in Nat \ {0} /\ session[t].sends \in Nat
                            /\ session[t].state \in {"free", "live", "done", "gone"}
  BY SizesAssumption, ClientAssumption DEF TransferInv, TypeOK, Sessions, Budget, Tids, NoTid

\* A block that is acknowledged has a number of its own.
LEMMA BlockIsItsNumber ==
  ASSUME TransferInv, NoWrap, NEW t \in Tids, session[t].state \in {"live", "done"}
  PROVE  session[t].n % Wrap = session[t].n /\ session[t].file \in Files
<1>1. /\ session[t].n \in Nat \ {0} /\ session[t].file \in Files
      /\ session[t].n <= Blocks(session[t].file)
  BY DEF TransferInv, TypeOK, SessionsInv, Sessions, Reads
<1>2. session[t].n < Wrap
  BY DEF NoWrap
<1> QED
  BY <1>1, <1>2, ModSmall, SizesAssumption

\* A step that takes nothing of a session's off the wire.
LEMMA CarriedKept ==
  ASSUME UNCHANGED xfer, NEW u, session'[u] = session[u],
         In(toClient, Data(u, session[u].file, session[u].n)) =>
           In(toClient', Data(u, session[u].file, session[u].n)),
         In(toServer, Ack(u, block)) => In(toServer', Ack(u, block)),
         Carried(u)
  PROVE  Carried(u)'
  BY DEF Carried, xfer

LEMMA AwaitedKept ==
  ASSUME UNCHANGED xfer, \A u \in Tids : session'[u] = session[u], peerTid \in Tids \cup {NoTid},
         \A x : x \in Datagrams /\ x.op \in {"DATA", "ERROR"} /\ In(toClient, x) => In(toClient', x),
         \A x \in Requests : In(toServer, x) => In(toServer', x),
         In(toClient, Data(peerTid, session[peerTid].file, session[peerTid].n)) =>
           In(toClient', Data(peerTid, session[peerTid].file, session[peerTid].n)),
         In(toServer, Ack(peerTid, block)) => In(toServer', Ack(peerTid, block)),
         Awaited
  PROVE  Awaited'
<1>1. peerTid' = peerTid
  BY DEF xfer
<1>2. \A u \in Tids : MaySend(u) => MaySend(u)'
  BY DEF MaySend, Live
<1>3. CASE peerTid = NoTid
  <2>1. Rrq \in Requests
    BY DEF Rrq, Requests
  <2> QED
    BY <1>1, <1>2, <1>3, <2>1 DEF Awaited
<1>4. CASE peerTid # NoTid
  <2>1. Carried(peerTid) => Carried(peerTid)'
    BY <1>4, <1>1 DEF Carried, xfer
  <2>2. MaySend(peerTid) => MaySend(peerTid)'
    BY <1>4, <1>1 DEF MaySend, Live
  <2> QED
    BY <1>1, <1>4, <2>1, <2>2 DEF Awaited
<1> QED
  BY <1>3, <1>4

\* What the wire does not lose stays on it.
LEMMA WireKeeps ==
  ASSUME TransferInv, Double \/ Overtake \/ Stray, NEW x
  PROVE  /\ In(toClient, x) => In(toClient', x)
         /\ In(toServer, x) => In(toServer', x)
<1>1. toClient \in Seq(Datagrams) /\ toServer \in Seq(Requests)
  BY PatienceTypes
<1>2. CASE Double
  <2>1. toClient # <<>> /\ toClient' = <<Head(toClient)>> \o toClient /\ In(toClient, x)
          => In(toClient', x)
    BY <1>1, HeadTailProperties, InPrepend
  <2>2. toServer # <<>> /\ toServer' = <<Head(toServer)>> \o toServer /\ In(toServer, x)
          => In(toServer', x)
    BY <1>1, HeadTailProperties, InPrepend
  <2> QED
    BY <1>2, <2>1, <2>2 DEF Double
<1>3. CASE Overtake
  <2>1. PICK i \in 2 .. Len(toClient) : toClient' = <<toClient[i]>> \o RemoveAt(toClient, i)
    BY <1>3 DEF Overtake
  <2>2. i \in 1 .. Len(toClient)
    BY <2>1, LenProperties
  <2>3. In(toClient, x) => In(toClient', x)
    BY <1>1, <2>1, <2>2, InMoved
  <2> QED
    BY <1>3, <2>3 DEF Overtake
<1>4. CASE Stray
  <2>1. PICK op \in Strays : toClient' = <<[op |-> op]>> \o toClient
    BY <1>4 DEF Stray
  <2>2. [op |-> op] \in Datagrams
    BY DEF Datagrams
  <2> QED
    BY <1>1, <1>4, <2>1, <2>2, InPrepend DEF Stray
<1> QED
  BY <1>2, <1>3, <1>4

LEMMA WirePatience ==
  ASSUME TransferInv, ServerPatience, ClientPatience, Wire
  PROVE  ServerPatience' /\ ClientPatience'
<1>1. UNCHANGED <<session, xfer, call>>
  BY DEF Wire, Lose, Double, Overtake, Stray
<1>2. /\ losses \in Nat /\ retries \in Nat /\ Budget \in Nat /\ ServerSends \in Nat
      /\ \A t \in Tids : session[t].sends \in Nat
      /\ peerTid \in Tids \cup {NoTid}
  BY PatienceTypes
<1>3. Budget' = Budget
  BY <1>1 DEF Budget, xfer
<1>4. CASE Lose
  <2>1. losses' = losses + 1
    BY <1>4 DEF Lose
  <2>2. ServerPatience'
    BY <1>1, <1>2, <2>1 DEF ServerPatience, Paid, Live, xfer, call
  <2>3. ClientPatience'
    BY <1>1, <1>2, <1>3, <2>1 DEF ClientPatience, Paid, xfer, call
  <2> QED
    BY <2>2, <2>3
<1>5. CASE Double \/ Overtake \/ Stray
  <2>1. losses' = losses
    BY <1>5 DEF Double, Overtake, Stray
  <2>2. \A x : (In(toClient, x) => In(toClient', x)) /\ (In(toServer, x) => In(toServer', x))
    BY <1>5, WireKeeps
  <2>3. \A u \in Tids : Carried(u) => Carried(u)'
    BY <1>1, <2>2, CarriedKept
  <2>4. Awaited => Awaited'
    BY <1>1, <1>2, <2>2, AwaitedKept
  <2>5. ServerPatience'
    BY <1>1, <2>1, <2>3 DEF ServerPatience, Paid, Live, xfer, call
  <2>6. ClientPatience'
    BY <1>1, <1>3, <2>1, <2>4 DEF ClientPatience, Paid, xfer, call
  <2> QED
    BY <2>5, <2>6
<1> QED
  BY <1>4, <1>5 DEF Wire

\* What the server's actions leave alone, and what they take off the wire.
LEMMA ServerKeeps ==
  ASSUME TransferInv, Server
  PROVE  /\ UNCHANGED <<xfer, call>>
         /\ losses' = losses \/ losses' = losses + 1
         /\ \A x : In(toClient, x) => In(toClient', x)
<1>1. UNCHANGED <<xfer, call>>
  BY DEF Server, Ignores, Opens, Advances, Aborts, SendsAgain, GivesUp
<1>2. losses' = losses \/ losses' = losses + 1
  BY DEF Server, Ignores, Opens, Advances, Aborts, SendsAgain, GivesUp, Early, faults
<1>3. session \in [Tids -> Sessions] /\ toClient \in Seq(Datagrams)
      /\ \A t \in Tids : session[t].n \in Nat \ {0}
  BY PatienceTypes
<1>4. ASSUME toClient' = toClient \/ \E d \in Datagrams : toClient' = Append(toClient, d), NEW x,
             In(toClient, x)
      PROVE  In(toClient', x)
  <2>1. CASE toClient' = toClient
    BY <1>4, <2>1
  <2>2. CASE \E d \in Datagrams : toClient' = Append(toClient, d)
    <3>1. PICK d \in Datagrams : toClient' = Append(toClient, d)
      BY <2>2
    <3>2. In(Append(toClient, d), x)
      BY <1>3, <1>4, InAppend
    <3> QED
      BY <3>1, <3>2
  <2> QED
    BY <1>4, <2>1, <2>2
<1>5. toClient' = toClient \/ \E d \in Datagrams : toClient' = Append(toClient, d)
  <2>1. CASE Ignores
    BY <2>1 DEF Ignores
  <2>2. ASSUME NEW t \in Tids, NEW f \in Files \cup {Missing}, Opens(t, f)
        PROVE  \E d \in Datagrams : toClient' = Append(toClient, d)
    <3>1. Error(t) \in Datagrams /\ (f # Missing => Data(t, f, 1) \in Datagrams)
      BY DEF Error, Data, Datagrams
    <3> QED
      BY <2>2, <3>1 DEF Opens
  <2>3. ASSUME NEW t \in Tids, Live(t), NEW n \in {session[t].n, session[t].n + 1}
        PROVE  Data(t, session[t].file, n) \in Datagrams
    <3>1. session[t].file \in Files /\ session[t].n \in Nat \ {0}
      BY <1>3, <2>3 DEF Live, TransferInv, SessionsInv, Reads
    <3>2. n \in Nat \ {0}
      BY <2>3, <3>1
    <3> QED
      BY <3>1, <3>2 DEF Data, Datagrams
  <2>4. ASSUME NEW t \in Tids, Advances(t) \/ Aborts(t) \/ SendsAgain(t) \/ GivesUp(t)
        PROVE  toClient' = toClient \/ \E d \in Datagrams : toClient' = Append(toClient, d)
    BY <2>3, <2>4 DEF Advances, Aborts, SendsAgain, GivesUp, net
  <2> QED
    BY <2>1, <2>2, <2>4 DEF Server
<1> QED
  BY <1>1, <1>2, <1>4, <1>5

\* An ACK is taken off the wire by the session it is for; only one that has
\* ended or moved on ignores it.
LEMMA ServerKeepsAck ==
  ASSUME TransferInv, ServedInv, NoWrap, Server, NEW u \in Tids, In(toServer, Ack(u, block)),
         session[u].n = block
  PROVE  \/ In(toServer', Ack(u, block))
         \/ Advances(u)
         \/ ~Live(u)
<1>1. /\ toServer \in Seq(Requests) /\ toServer \in Seq(Told)
  BY PatienceTypes DEF ServedInv
<1>2. ASSUME toServer # <<>>, toServer' = Tail(toServer), Head(toServer) # Ack(u, block)
      PROVE  In(toServer', Ack(u, block))
  BY <1>1, <1>2, InTail
<1>3. CASE Ignores
  <2>1. CASE Head(toServer) = Ack(u, block) /\ Live(u)
    <3>1. block % Wrap = block
      BY <2>1, BlockIsItsNumber DEF Live
    <3> QED
      BY <1>3, <2>1, <3>1 DEF Ignores, Ack
  <2> QED
    BY <1>2, <1>3, <2>1 DEF Ignores
<1>4. ASSUME NEW t \in Tids, NEW f \in Files \cup {Missing}, Opens(t, f)
      PROVE  In(toServer', Ack(u, block))
  BY <1>2, <1>4 DEF Opens, Rrq, Ack
<1>5. ASSUME NEW t \in Tids, Aborts(t)
      PROVE  In(toServer', Ack(u, block))
  BY <1>2, <1>5 DEF Aborts, UnknownTid, Ack
<1>6. ASSUME NEW t \in Tids, Advances(t), t # u
      PROVE  In(toServer', Ack(u, block))
  BY <1>2, <1>6 DEF Advances, Ack
<1>7. ASSUME NEW t \in Tids, SendsAgain(t) \/ GivesUp(t)
      PROVE  In(toServer', Ack(u, block))
  BY <1>7 DEF SendsAgain, GivesUp, net
<1> QED
  BY <1>3, <1>4, <1>5, <1>6, <1>7 DEF Server

\* What is carried is still carried, unless the session has moved or is over.
LEMMA ServerCarries ==
  ASSUME TransferInv, ServedInv, NoWrap, Server, NEW u \in Tids, Carried(u), Live(u),
         session'[u] = session[u], ~Advances(u)
  PROVE  Carried(u)'
<1>1. UNCHANGED xfer /\ \A x : In(toClient, x) => In(toClient', x)
  BY ServerKeeps
<1>2. CASE session[u].n = block
  <2>1. In(toServer, Ack(u, block)) => In(toServer', Ack(u, block))
    BY <1>2, ServerKeepsAck
  <2> QED
    BY <1>1, <2>1, CarriedKept
<1>3. CASE session[u].n # block
  BY <1>1, <1>3 DEF Carried, xfer
<1> QED
  BY <1>2, <1>3

LEMMA ServerIsPatient ==
  ASSUME TransferInv, ServedInv, ServerPatience, NoWrap, Server
  PROVE  ServerPatience'
<1>1. /\ UNCHANGED <<xfer, call>>
      /\ losses' = losses \/ losses' = losses + 1
      /\ losses \in Nat /\ ServerSends \in Nat \ {0}
      /\ session \in [Tids -> Sessions] /\ toClient \in Seq(Datagrams)
      /\ toServer \in Seq(Told)
      /\ peerTid \in Tids \cup {NoTid} /\ NoTid \notin Tids
  BY ServerKeeps, PatienceTypes DEF ServedInv
<1>2. \A t \in Tids : session[t].sends \in Nat /\ session[t].n \in Nat \ {0}
  BY PatienceTypes
<1> SUFFICES ASSUME pc # "out", failed = None, NEW u \in Tids, peerTid = NoTid \/ peerTid = u
             PROVE  /\ Live(u)' => /\ session'[u].sends \in 1 .. ServerSends
                                   /\ Paid(session[u].sends, Carried(u))'
                    /\ session'[u].state = "gone" /\ session'[u].file \in Files
                         => ServerSends <= losses'
  BY <1>1 DEF ServerPatience, xfer, call
<1>3. /\ Live(u) => /\ session[u].sends \in 1 .. ServerSends
                    /\ Paid(session[u].sends, Carried(u))
      /\ session[u].state = "gone" /\ session[u].file \in Files => ServerSends <= losses
  BY DEF ServerPatience
<1>4. ASSUME session'[u] = session[u], ~Advances(u)
      PROVE  /\ Live(u)' => /\ session'[u].sends \in 1 .. ServerSends
                            /\ Paid(session[u].sends, Carried(u))'
             /\ session'[u].state = "gone" /\ session'[u].file \in Files
                  => ServerSends <= losses'
  <2>1. Live(u) /\ Carried(u) => Carried(u)'
    BY <1>4, ServerCarries
  <2>2. Live(u)' <=> Live(u)
    BY <1>4 DEF Live
  <2>3. Live(u)' => Paid(session[u].sends, Carried(u))'
    BY <1>1, <1>2, <1>3, <1>4, <2>1, <2>2 DEF Paid
  <2> QED
    BY <1>1, <1>3, <1>4, <2>2, <2>3
<1>5. CASE Ignores
  <2>1. ~Advances(u)
    <3>1. ASSUME Advances(u) PROVE FALSE
      BY <1>5, <3>1 DEF Ignores, Advances, Ack
    <3> QED
      BY <3>1
  <2> QED
    BY <1>4, <1>5, <2>1 DEF Ignores
<1>6. ASSUME NEW t \in Tids, NEW f \in Files \cup {Missing}, Opens(t, f)
      PROVE  /\ Live(u)' => /\ session'[u].sends \in 1 .. ServerSends
                            /\ Paid(session[u].sends, Carried(u))'
             /\ session'[u].state = "gone" /\ session'[u].file \in Files
                  => ServerSends <= losses'
  <2>1. CASE u # t
    <3>1. session'[u] = session[u]
      BY <1>1, <1>6, <2>1 DEF Opens
    <3>2. ~Advances(u)
      BY <1>6 DEF Opens, Advances, Rrq, Ack
    <3> QED
      BY <1>4, <3>1, <3>2
  <2>2. CASE u = t /\ f = Missing
    <3>1. session' = [session EXCEPT ![t].state = "gone"] /\ session[t].file = Missing
      BY <1>6, <2>2 DEF Opens, ServedInv
    <3>2. session'[t].state = "gone" /\ session'[t].file = Missing
      BY <1>1, <3>1 DEF Sessions
    <3> QED
      BY <2>2, <3>2, FilesAssumption DEF Live
  <2>3. CASE u = t /\ f # Missing
    <3>1. /\ session' = [session EXCEPT ![t] =
               [state |-> "live", file |-> f, n |-> 1, sends |-> 1]]
          /\ toClient' = Append(toClient, Data(t, f, 1)) /\ f \in Files
      BY <1>6, <2>3 DEF Opens
    <3>2. session'[t] = [state |-> "live", file |-> f, n |-> 1, sends |-> 1]
      BY <1>1, <3>1
    <3>3. Data(t, f, 1) \in Datagrams
      BY <3>1 DEF Data, Datagrams
    <3>4. In(toClient', Data(t, f, 1))
      BY <1>1, <3>1, <3>3, InAppend
    <3>5. Carried(t)'
      BY <3>2, <3>4 DEF Carried
    <3>6. Paid(session[t].sends, Carried(t))'
      BY <1>1, <3>2, <3>5 DEF Paid
    <3> QED
      BY <1>1, <2>3, <3>2, <3>6
  <2> QED
    BY <2>1, <2>2, <2>3
<1>7. ASSUME NEW t \in Tids, Advances(t)
      PROVE  /\ Live(u)' => /\ session'[u].sends \in 1 .. ServerSends
                            /\ Paid(session[u].sends, Carried(u))'
             /\ session'[u].state = "gone" /\ session'[u].file \in Files
                  => ServerSends <= losses'
  <2> DEFINE s == session[t]
  <2>1. u = t
    BY <1>1, <1>7, AckedIsStored
  <2>2. s.file \in Files
    BY <1>7 DEF Advances, Live, TransferInv, SessionsInv, Reads
  <2>3. CASE s.n = Blocks(s.file)
    <3>1. session' = [session EXCEPT ![t].state = "done"]
      BY <1>7, <2>3 DEF Advances
    <3>2. session'[t].state = "done"
      BY <1>1, <3>1 DEF Sessions
    <3> QED
      BY <2>1, <3>2 DEF Live
  <2>4. CASE s.n # Blocks(s.file)
    <3>1. /\ session' = [session EXCEPT ![t].n = s.n + 1, ![t].sends = 1]
          /\ toClient' = Append(toClient, Data(t, s.file, s.n + 1))
      BY <1>7, <2>4 DEF Advances
    <3>2. /\ session'[t].n = s.n + 1 /\ session'[t].sends = 1 /\ session'[t].file = s.file
          /\ session'[t].state = s.state
      BY <1>1, <3>1 DEF Sessions
    <3>3. s.n + 1 \in Nat \ {0}
      BY <1>2
    <3>4. Data(t, s.file, s.n + 1) \in Datagrams
      BY <2>2, <3>3 DEF Data, Datagrams
    <3>5. In(toClient', Data(t, s.file, s.n + 1))
      BY <1>1, <3>1, <3>4, InAppend
    <3>6. Carried(t)'
      BY <3>2, <3>5 DEF Carried
    <3>7. Paid(session[t].sends, Carried(t))'
      BY <1>1, <3>2, <3>6 DEF Paid
    <3>8. s.state = "live"
      BY <1>7 DEF Advances, Live
    <3> QED
      BY <1>1, <2>1, <3>2, <3>7, <3>8
  <2> QED
    BY <2>3, <2>4
<1>8. ASSUME NEW t \in Tids, Aborts(t)
      PROVE  session'[u] = session[u] /\ ~Advances(u)
  <2>1. UnknownTid(t) \in Told
    BY <1>1, <1>8, HeadTailProperties DEF Aborts
  <2>2. peerTid # NoTid /\ t # peerTid
    BY <2>1 DEF Told, UnknownTid
  <2> QED
    BY <1>1, <1>8, <2>2 DEF Aborts, Advances, UnknownTid, Ack
<1>9. ASSUME NEW t \in Tids, SendsAgain(t)
      PROVE  /\ Live(u)' => /\ session'[u].sends \in 1 .. ServerSends
                            /\ Paid(session[u].sends, Carried(u))'
             /\ session'[u].state = "gone" /\ session'[u].file \in Files
                  => ServerSends <= losses'
  <2> DEFINE s == session[t]
  <2>1. /\ session' = [session EXCEPT ![t].sends = s.sends + 1] /\ Live(t) /\ s.sends < ServerSends
        /\ toClient' = Append(toClient, Data(t, s.file, s.n))
    BY <1>9 DEF SendsAgain
  <2>2. CASE u # t
    <3>1. session'[u] = session[u]
      BY <1>1, <2>1, <2>2
    <3>2. CASE Advances(u)
      BY <1>7, <3>2
    <3> QED
      BY <1>4, <3>1, <3>2
  <2>3. CASE u = t
    <3>1. /\ session'[t].n = s.n /\ session'[t].sends = s.sends + 1 /\ session'[t].file = s.file
          /\ session'[t].state = s.state
      BY <1>1, <2>1 DEF Sessions
    <3>2. s.file \in Files
      BY <2>1 DEF Live, TransferInv, SessionsInv, Reads
    <3>3. Data(t, s.file, s.n) \in Datagrams
      BY <1>2, <3>2 DEF Data, Datagrams
    <3>4. In(toClient', Data(t, s.file, s.n))
      BY <1>1, <2>1, <3>3, InAppend
    <3>5. Carried(t)'
      BY <3>1, <3>4 DEF Carried
    <3>6. s.sends <= losses'
      <4>1. CASE Quiet
        BY <1>3, <2>1, <2>3, <4>1, QuietCarriesNothing, <1>9 DEF Paid, SendsAgain, Early
      <4>2. CASE ~Quiet
        BY <1>1, <1>2, <1>3, <2>1, <2>3, <4>2, <1>9 DEF Paid, SendsAgain, Early
      <4> QED
        BY <4>1, <4>2
    <3>7. Paid(session[t].sends, Carried(t))'
      BY <1>1, <1>2, <3>1, <3>5, <3>6 DEF Paid
    <3>8. s.sends + 1 \in 1 .. ServerSends
      BY <1>1, <1>2, <2>1
    <3> QED
      BY <2>1, <2>3, <3>1, <3>7, <3>8 DEF Live
  <2> QED
    BY <2>2, <2>3
<1>10. ASSUME NEW t \in Tids, GivesUp(t)
       PROVE  /\ Live(u)' => /\ session'[u].sends \in 1 .. ServerSends
                             /\ Paid(session[u].sends, Carried(u))'
              /\ session'[u].state = "gone" /\ session'[u].file \in Files
                   => ServerSends <= losses'
  <2> DEFINE s == session[t]
  <2>1. session' = [session EXCEPT ![t].state = "gone"] /\ Live(t) /\ s.sends = ServerSends
    BY <1>10 DEF GivesUp
  <2>2. CASE u # t
    <3>1. session'[u] = session[u]
      BY <1>1, <2>1, <2>2
    <3>2. CASE Advances(u)
      BY <1>7, <3>2
    <3> QED
      BY <1>4, <3>1, <3>2
  <2>3. CASE u = t
    <3>1. session'[t].state = "gone"
      BY <1>1, <2>1 DEF Sessions
    <3>2. ServerSends <= losses'
      <4>1. CASE Quiet
        BY <1>3, <2>1, <2>3, <4>1, QuietCarriesNothing, <1>10 DEF Paid, GivesUp, Early
      <4>2. CASE ~Quiet
        BY <1>1, <1>2, <1>3, <2>1, <2>3, <4>2, <1>10 DEF Paid, GivesUp, Early
      <4> QED
        BY <4>1, <4>2
    <3> QED
      BY <2>3, <3>1, <3>2 DEF Live
  <2> QED
    BY <2>2, <2>3
<1> QED
  BY <1>4, <1>5, <1>6, <1>7, <1>8, <1>9, <1>10 DEF Server

\* While the client waits, an answer can still come after the server's step,
\* or the step counts as a loss, or enough was lost already.
LEMMA ServerLeavesHope ==
  ASSUME TransferInv, TransferInv', ServedInv, ServerPatience, NoWrap, PatientServer, Server,
         pc = "wait", failed = None, ~gotData, Awaited
  PROVE  Awaited' \/ losses' = losses + 1 \/ Budget < losses
<1>1. /\ UNCHANGED <<xfer, call>>
      /\ losses \in Nat /\ ServerSends \in Nat \ {0} /\ AckRetries \in Nat
      /\ session \in [Tids -> Sessions] /\ toClient \in Seq(Datagrams)
      /\ toServer \in Seq(Told) /\ toServer \in Seq(Behind)
      /\ peerTid \in Tids \cup {NoTid} /\ NoTid \notin Tids
      /\ \A x : In(toClient, x) => In(toClient', x)
  BY ServerKeeps, PatienceTypes DEF ServedInv, TransferInv, WireInv
<1>2. \A t \in Tids : session[t].sends \in Nat /\ session[t].n \in Nat \ {0}
  BY PatienceTypes
<1>3. ASSUME NEW t \in Tids, Live(t)
      PROVE  session[t].file \in Files /\ Data(t, session[t].file, session[t].n) \in Datagrams
  <2>1. session[t].file \in Files
    BY <1>3 DEF Live, TransferInv, SessionsInv, Reads
  <2> QED
    BY <1>2, <2>1 DEF Data, Datagrams
<1>4. CASE peerTid = NoTid
  <2>1. peerTid' = NoTid
    BY <1>1, <1>4 DEF xfer
  <2>2. ASSUME In(toServer', Rrq) \/ (\E m \in Datagrams : m.op \in {"DATA", "ERROR"} /\ In(toClient', m))
               \/ (\E t \in Tids : MaySend(t)')
        PROVE  Awaited'
    BY <2>1, <2>2 DEF Awaited
  <2>3. CASE Ignores
    <3>1. In(toServer, Rrq) => In(toServer', Rrq)
      BY <1>1, <2>3, InTail DEF Ignores
    <3>2. \A t : MaySend(t)' <=> MaySend(t)
      BY <2>3 DEF Ignores, MaySend, Live
    <3> QED
      BY <1>1, <1>4, <2>2, <3>1, <3>2 DEF Awaited
  <2>4. ASSUME NEW t \in Tids, NEW f \in Files \cup {Missing}, Opens(t, f)
        PROVE  Awaited'
    <3>1. PICK d : d = IF f = Missing THEN Error(t) ELSE Data(t, f, 1)
      OBVIOUS
    <3>2. d \in Datagrams /\ d.op \in {"DATA", "ERROR"}
      BY <3>1 DEF Error, Data, Datagrams
    <3>3. toClient' = Append(toClient, d)
      BY <2>4, <3>1 DEF Opens
    <3>4. In(toClient', d)
      BY <1>1, <3>2, <3>3, InAppend
    <3> QED
      BY <2>2, <3>2, <3>4
  <2>5. ASSUME NEW t \in Tids, Advances(t)
        PROVE  FALSE
    BY <1>1, <1>4, <2>5, AckedIsStored
  <2>6. ASSUME NEW t \in Tids, Aborts(t)
        PROVE  FALSE
    <3>1. UnknownTid(t) \in Told
      BY <1>1, <2>6, HeadTailProperties DEF Aborts
    <3> QED
      BY <1>4, <3>1 DEF Told, UnknownTid
  <2>7. ASSUME NEW t \in Tids, SendsAgain(t)
        PROVE  Awaited'
    <3>1. PICK d : d = Data(t, session[t].file, session[t].n)
      OBVIOUS
    <3>2. d \in Datagrams /\ d.op = "DATA"
      BY <1>3, <2>7, <3>1 DEF SendsAgain, Data
    <3>3. In(toClient', d)
      BY <1>1, <2>7, <3>1, <3>2, InAppend DEF SendsAgain
    <3> QED
      BY <2>2, <3>2, <3>3
  <2>8. ASSUME NEW t \in Tids, GivesUp(t), losses' # losses + 1
        PROVE  Awaited'
    <3>1. Quiet /\ session[t].sends = ServerSends /\ UNCHANGED net
          /\ session' = [session EXCEPT ![t].state = "gone"]
      BY <2>8 DEF GivesUp, Early
    <3>2. \A x : ~In(toClient, x) /\ ~In(toServer, x)
      BY <3>1, NothingIn DEF Quiet
    <3>3. PICK u \in Tids : MaySend(u)
      BY <1>4, <3>2 DEF Awaited
    <3>4. u # t
      BY <1>1, <1>2, <3>1, <3>3 DEF MaySend
    <3>5. session'[u] = session[u]
      BY <1>1, <3>1, <3>4
    <3>6. MaySend(u)'
      BY <3>3, <3>5 DEF MaySend, Live
    <3> QED
      BY <2>2, <3>6
  <2> QED
    BY <2>3, <2>4, <2>5, <2>6, <2>7, <2>8 DEF Server
<1>5. CASE peerTid # NoTid
  <2>1. PICK p \in Tids : p = peerTid
    BY <1>1, <1>5
  <2>2. peerTid' = p /\ Reads(p) /\ (Carried(p) \/ MaySend(p)) /\ Budget = AckRetries
    BY <1>1, <1>5, <2>1 DEF xfer, Awaited, TransferInv, XferInv, Budget
  <2>3. ASSUME Carried(p)' \/ MaySend(p)'
        PROVE  Awaited'
    BY <1>5, <2>1, <2>2, <2>3 DEF Awaited, Carried, MaySend, Live
  <2>4. ~Live(p) => AckRetries < losses
    <3>1. session[p].state = "done" => lastBlock
      BY DEF TransferInv, DoneInv
    <3>2. session[p].state # "done"
      BY <3>1 DEF ServedInv
    <3>3. session[p].state \in {"free", "live", "done", "gone"}
      BY PatienceTypes
    <3>4. session[p].state = "gone" /\ session[p].file \in Files => ServerSends <= losses
      BY <2>1 DEF ServerPatience
    <3> QED
      BY <1>1, <2>2, <3>2, <3>3, <3>4 DEF Live, Reads, PatientServer
  <2>5. ASSUME session'[p] = session[p], ~Advances(p), Live(p)
        PROVE  Awaited'
    <3>1. Carried(p) => Carried(p)'
      BY <2>5, ServerCarries
    <3>2. MaySend(p) => MaySend(p)'
      BY <2>5 DEF MaySend, Live
    <3> QED
      BY <2>2, <2>3, <3>1, <3>2
  <2>6. ASSUME NEW t \in Tids, Advances(t)
        PROVE  Awaited'
    <3> DEFINE s == session[t]
    <3>1. t = p
      BY <2>1, <2>6, AckedIsStored
    <3>2. s.file \in Files
      BY <1>3, <2>6 DEF Advances
    <3>3. s.n # Blocks(s.file)
      <4>1. ASSUME s.n = Blocks(s.file) PROVE FALSE
        <5>1. session' = [session EXCEPT ![t].state = "done"]
          BY <2>6, <4>1 DEF Advances
        <5>2. session'[t].state = "done"
          BY <1>1, <5>1 DEF Sessions
        <5>3. lastBlock'
          BY <5>2 DEF TransferInv, DoneInv
        <5> QED
          BY <1>1, <5>3 DEF ServedInv, xfer
      <4> QED
        BY <4>1
    <3>4. /\ session' = [session EXCEPT ![t].n = s.n + 1, ![t].sends = 1]
          /\ toClient' = Append(toClient, Data(t, s.file, s.n + 1))
      BY <2>6, <3>3 DEF Advances
    <3>5. session'[t].n = s.n + 1 /\ session'[t].file = s.file
      BY <1>1, <3>4 DEF Sessions
    <3>6. s.n + 1 \in Nat \ {0}
      BY <1>2
    <3>7. Data(t, s.file, s.n + 1) \in Datagrams
      BY <3>2, <3>6 DEF Data, Datagrams
    <3>8. In(toClient', Data(t, s.file, s.n + 1))
      BY <1>1, <3>4, <3>7, InAppend
    <3>9. Carried(t)'
      BY <3>5, <3>8 DEF Carried
    <3> QED
      BY <2>3, <3>1, <3>9
  <2>7. ASSUME NEW t \in Tids, SendsAgain(t), ~Advances(p), Live(p)
        PROVE  Awaited'
    <3> DEFINE s == session[t]
    <3>1. /\ session' = [session EXCEPT ![t].sends = s.sends + 1]
          /\ toClient' = Append(toClient, Data(t, s.file, s.n)) /\ Live(t)
      BY <2>7 DEF SendsAgain
    <3>2. CASE t # p
      <4>1. session'[p] = session[p]
        BY <1>1, <3>1, <3>2
      <4> QED
        BY <2>5, <2>7, <4>1
    <3>3. CASE t = p
      <4>1. session'[t].n = s.n /\ session'[t].file = s.file
        BY <1>1, <3>1 DEF Sessions
      <4>2. In(toClient', Data(t, s.file, s.n))
        BY <1>1, <1>3, <3>1, InAppend
      <4>3. Carried(t)'
        BY <4>1, <4>2 DEF Carried
      <4> QED
        BY <2>3, <3>3, <4>3
    <3> QED
      BY <3>2, <3>3
  <2>8. ASSUME NEW t \in Tids, GivesUp(t), losses' # losses + 1, ~Advances(p), Live(p)
        PROVE  Awaited'
    <3>1. Quiet /\ session[t].sends = ServerSends
          /\ session' = [session EXCEPT ![t].state = "gone"]
      BY <2>8 DEF GivesUp, Early
    <3>2. CASE t # p
      <4>1. session'[p] = session[p]
        BY <1>1, <3>1, <3>2
      <4> QED
        BY <2>5, <2>8, <4>1
    <3>3. CASE t = p
      BY <1>1, <1>2, <2>2, <3>1, <3>3, QuietCarriesNothing DEF MaySend
    <3> QED
      BY <3>2, <3>3
  <2>9. ASSUME NEW t \in Tids, \/ Aborts(t)
                               \/ \E f \in Files \cup {Missing} : Opens(t, f),
               Live(p), ~Advances(p)
        PROVE  Awaited'
    <3>1. t # p
      <4>1. CASE Aborts(t)
        <5>1. UnknownTid(t) \in Told
          BY <1>1, <4>1, HeadTailProperties DEF Aborts
        <5> QED
          BY <2>1, <5>1 DEF Told, UnknownTid
      <4>2. CASE \E f \in Files \cup {Missing} : Opens(t, f)
        BY <2>9, <4>2 DEF Opens, Live
      <4> QED
        BY <2>9, <4>1, <4>2
    <3>2. session'[p] = session[p]
      BY <1>1, <2>9, <3>1 DEF Aborts, Opens
    <3> QED
      BY <2>5, <2>9, <3>2
  <2>10. CASE Ignores
    BY <2>2, <2>4, <2>5, <2>6, <2>10 DEF Ignores
  <2> QED
    BY <2>2, <2>4, <2>6, <2>7, <2>8, <2>9, <2>10 DEF Server
<1> QED
  BY <1>4, <1>5

LEMMA ServerKeepsHope ==
  ASSUME TransferInv, TransferInv', ServedInv, ServerPatience, ClientPatience,
         NoWrap, PatientServer, Server
  PROVE  ClientPatience'
<1>1. /\ UNCHANGED <<xfer, call>>
      /\ losses' = losses \/ losses' = losses + 1
      /\ losses \in Nat /\ retries \in Nat /\ Budget \in Nat
  BY ServerKeeps, PatienceTypes
<1>2. Budget' = Budget
  BY <1>1 DEF Budget, xfer
<1> SUFFICES ASSUME pc = "wait", failed = None, ~gotData
             PROVE  Budget < losses' \/ Paid(retries + 1, Awaited)'
  BY <1>1, <1>2 DEF ClientPatience, xfer, call
<1>3. Budget < losses \/ Paid(retries + 1, Awaited)
  BY DEF ClientPatience
<1>4. Awaited => Awaited' \/ losses' = losses + 1 \/ Budget < losses
  BY ServerLeavesHope
<1> QED
  BY <1>1, <1>3, <1>4 DEF Paid, call

-----------------------------------------------------------------------------
(* The client, and the step.                                               *)

\* The block that is delivered is on its way back.
LEMMA DeliverCarries ==
  ASSUME TransferInv, ServedInv, NoWrap, Deliver, failed' = None,
         NEW u \in Tids, peerTid' = NoTid \/ peerTid' = u, Carried(u)
  PROVE  Carried(u)'
<1> DEFINE m == Head(toClient)
           d == Data(u, session[u].file, session[u].n)
<1>1. /\ m \in Genuine /\ m \in Datagrams /\ m \in Sent /\ RecvCb(m) /\ UNCHANGED session
      /\ toClient # <<>> /\ toClient' = Tail(toClient) /\ toClient \in Seq(Datagrams)
  BY HeadTailProperties DEF Deliver, TransferInv, WireInv, ServedInv, Genuine, TypeOK
<1>2. /\ block \in Nat /\ toServer \in Seq(Requests) /\ NoTid \notin Tids
      /\ \A t \in Tids : session[t].n \in Nat \ {0}
  BY PatienceTypes
<1>3. d.op = "DATA" /\ d.tid = u /\ d.n = session[u].n
  BY DEF Data
<1>4. CASE m.op = "alien" /\ Drops
  <2>1. m # d
    BY <1>3, <1>4
  <2>2. In(toClient, d) => In(toClient', d)
    BY <1>1, <2>1, InTail
  <2> HIDE DEF d
  <2> QED
    BY <1>1, <1>4, <2>2 DEF Drops, Carried, xfer, d
<1>5. CASE m.op = "DATA" /\ OtherTid(m) /\ Send(UnknownTid(m.tid)) /\ UNCHANGED xfer
  <2>1. m # d
    BY <1>3, <1>2, <1>5 DEF OtherTid, xfer
  <2>2. In(toClient, d) => In(toClient', d)
    BY <1>1, <2>1, InTail
  <2>3. UnknownTid(m.tid) \in Requests
    BY <1>1, <1>5, DataTypes DEF UnknownTid, Requests
  <2>4. In(toServer, Ack(u, block)) => In(toServer', Ack(u, block))
    BY <1>2, <1>5, <2>3, InAppend DEF Send
  <2> HIDE DEF d
  <2> QED
    BY <1>1, <1>5, <2>2, <2>4 DEF Carried, xfer, d
<1>6. CASE /\ m.op = "DATA" /\ ~OtherTid(m) /\ peerTid' = m.tid /\ UNCHANGED toServer
           /\ StoresBlock(m) \/ RefusesTooBig(m) \/ SeesDuplicate(m) \/ OutOfSequence(m)
  <2>1. /\ m.tid \in Tids /\ m.tid = u /\ m.n \in Nat \ {0} /\ m.n <= Blocks(m.file)
        /\ m.file \in Files /\ m.n <= session[u].n
    BY <1>1, <1>2, <1>6, PrefixOfSender DEF Sent
  <2>2. m.n < Wrap /\ m.n % Wrap = m.n
    <3>1. m.n < Wrap
      BY <1>6, HeadBelowWrap DEF Deliver
    <3> QED
      BY <2>1, <3>1, ModSmall
  <2>3. CASE StoresBlock(m)
    <3>1. block' = m.n /\ gotData' /\ m.n = block + 1
      <4>1. block \in 0 .. Wrap - 1
        BY DEF TransferInv, TypeOK
      <4> QED
        BY <2>1, <2>2, <2>3, <4>1, InSequenceIsNext DEF StoresBlock
    <3>2. CASE session[u].n = m.n
      BY <1>1, <1>6, <2>1, <3>1, <3>2 DEF Carried
    <3>3. CASE session[u].n # m.n
      <4>1. m # d
        BY <1>3, <3>3
      <4>2. session[u].n # block
        BY <1>2, <2>1, <3>1
      <4>3. In(toClient, d)
        BY <4>2 DEF Carried
      <4>4. In(toClient', d)
        BY <1>1, <4>1, <4>3, InTail
      <4> QED
        BY <1>1, <4>4 DEF Carried
    <3> QED
      BY <3>2, <3>3
  <2>4. CASE SeesDuplicate(m)
    <3>1. m.n = block /\ block' = block /\ resendAck'
      BY <2>2, <2>4 DEF SeesDuplicate
    <3>2. CASE session[u].n = block
      BY <1>1, <1>6, <2>1, <3>1, <3>2 DEF Carried
    <3>3. CASE session[u].n # block
      <4>1. m # d
        BY <1>3, <3>1, <3>3
      <4>2. In(toClient, d)
        BY <3>3 DEF Carried
      <4>3. In(toClient', d)
        BY <1>1, <4>1, <4>2, InTail
      <4> QED
        BY <1>1, <4>3 DEF Carried
    <3> QED
      BY <3>2, <3>3
  <2>5. ~RefusesTooBig(m) /\ ~OutOfSequence(m)
    BY DEF RefusesTooBig, OutOfSequence, None
  <2> QED
    BY <1>6, <2>3, <2>4, <2>5
<1> QED
  BY <1>1, <1>4, <1>5, <1>6 DEF RecvCb, RecvData, Fails, None

LEMMA DeliverPatience ==
  ASSUME TransferInv, ServedInv, ServerPatience, ClientPatience, NoWrap, Deliver
  PROVE  ServerPatience' /\ ClientPatience'
<1> DEFINE m == Head(toClient)
<1>1. /\ m \in Genuine /\ m \in Datagrams /\ RecvCb(m) /\ UNCHANGED <<session, losses, pc, retries>>
      /\ toClient # <<>> /\ toClient' = Tail(toClient) /\ toClient \in Seq(Datagrams)
  BY HeadTailProperties DEF Deliver, TransferInv, WireInv, Genuine, TypeOK, call, faults
<1>2. /\ peerTid \in Tids \cup {NoTid} /\ NoTid \notin Tids
  BY PatienceTypes
<1>3. peerTid' = peerTid \/ (peerTid = NoTid /\ peerTid' = m.tid)
  BY <1>1 DEF RecvCb, RecvData, Fails, Drops, OtherTid, xfer
<1>4. failed' = None => failed = None
  BY <1>1 DEF RecvCb, RecvData, Fails, Drops, xfer, StoresBlock, RefusesTooBig, SeesDuplicate,
              OutOfSequence, None
<1>5. ServerPatience'
  <2> SUFFICES ASSUME pc # "out", failed' = None, NEW u \in Tids, peerTid' = NoTid \/ peerTid' = u
               PROVE  /\ Live(u)' => /\ session'[u].sends \in 1 .. ServerSends
                                     /\ Paid(session[u].sends, Carried(u))'
                      /\ session'[u].state = "gone" /\ session'[u].file \in Files
                           => ServerSends <= losses'
    BY <1>1 DEF ServerPatience
  <2>1. peerTid = NoTid \/ peerTid = u
    BY <1>2, <1>3
  <2>2. /\ Live(u) => /\ session[u].sends \in 1 .. ServerSends
                      /\ Paid(session[u].sends, Carried(u))
        /\ session[u].state = "gone" /\ session[u].file \in Files => ServerSends <= losses
    BY <1>4, <2>1 DEF ServerPatience
  <2>3. Carried(u) => Carried(u)'
    BY DeliverCarries
  <2> QED
    BY <1>1, <2>2, <2>3 DEF Paid, Live
<1>6. ClientPatience'
  <2> SUFFICES ASSUME pc = "wait", failed' = None, ~gotData'
               PROVE  (Budget < losses)' \/ Paid(retries + 1, Awaited)'
    BY <1>1 DEF ClientPatience
  <2>1. ~(m.op = "DATA" /\ ~OtherTid(m) /\ peerTid = NoTid)
    <3> SUFFICES ASSUME m.op = "DATA", ~OtherTid(m), peerTid = NoTid PROVE FALSE
      OBVIOUS
    <3>1. m.n \in Nat \ {0} /\ m.n <= Blocks(m.file) /\ m.file \in Files
      BY <1>1, PrefixOfSender
    <3>2. m.n % Wrap = m.n
      <4>1. m.n < Wrap
        BY HeadBelowWrap DEF Deliver
      <4> QED
        BY <3>1, <4>1, ModSmall
    <3>3. block = 0
      BY DEF TransferInv, XferInv
    <3> QED
      BY <1>1, <3>1, <3>2, <3>3 DEF RecvCb, RecvData, StoresBlock, RefusesTooBig, SeesDuplicate,
                                OutOfSequence, None
  <2>2. peerTid' = peerTid
    BY <1>1, <2>1 DEF RecvCb, RecvData, Fails, Drops, OtherTid, xfer
  <2>3. ~gotData
    BY <1>1 DEF RecvCb, RecvData, Fails, Drops, xfer, StoresBlock, RefusesTooBig, SeesDuplicate,
                OutOfSequence
  <2>4. Budget < losses \/ Paid(retries + 1, Awaited)
    BY <1>4, <2>3 DEF ClientPatience
  <2>5. Awaited => Awaited'
    <3>1. \A u : MaySend(u) => MaySend(u)'
      BY <1>1 DEF MaySend, Live
    <3>2. CASE peerTid = NoTid
      <4>1. m.op \notin {"DATA", "ERROR"} /\ UNCHANGED toServer
        BY <1>1, <2>1, <3>2 DEF RecvCb, RecvData, Fails, Drops, OtherTid, None
      <4>2. \A x : In(toClient, x) /\ x.op \in {"DATA", "ERROR"} => In(toClient', x)
        BY <1>1, <4>1, InTail
      <4> QED
        BY <2>2, <3>1, <3>2, <4>1, <4>2 DEF Awaited
    <3>3. CASE peerTid # NoTid
      <4>1. PICK p \in Tids : p = peerTid
        BY <1>2, <3>3
      <4>2. Carried(p) => Carried(p)'
        BY <2>2, <4>1, DeliverCarries
      <4>3. peerTid' = p
        BY <2>2, <4>1
      <4> QED
        BY <3>1, <3>3, <4>1, <4>2, <4>3 DEF Awaited, Carried, MaySend, Live
    <3> QED
      BY <3>2, <3>3
  <2>6. Budget' = Budget
    BY <2>2 DEF Budget
  <2> QED
    BY <1>1, <2>4, <2>5, <2>6 DEF Paid
<1> QED
  BY <1>5, <1>6

\* A timeout of the client: either it counts as a loss, or the count is past the
\* budget already, or nothing can come any more.
LEMMA TimeoutIsPaid ==
  ASSUME TransferInv, ClientPatience, pc = "wait", Waits, InTime
  PROVE  Budget < losses' \/ retries + 1 <= losses'
<1>1. losses \in Nat /\ retries \in Nat /\ Budget \in Nat /\ MaxFaults \in Nat
  BY PatienceTypes, SizesAssumption
<1>2. Budget < losses \/ Paid(retries + 1, Awaited)
  BY DEF Waits, ClientPatience
<1>3. CASE Quiet /\ \A t \in Tids : ~Live(t) \/ session[t].sends = ServerSends
  <2>1. \A x : ~In(toClient, x) /\ ~In(toServer, x)
    BY <1>3, NothingIn DEF Quiet
  <2>2. \A t : ~Carried(t)
    BY <1>3, QuietCarriesNothing
  <2>3. \A t \in Tids : ~MaySend(t)
    <3> TAKE t \in Tids
    <3>1. session[t].sends \in Nat /\ ServerSends \in Nat
      BY PatienceTypes
    <3> QED
      BY <1>3, <3>1 DEF MaySend
  <2>4. ~Awaited
    <3>1. peerTid # NoTid => peerTid \in Tids
      BY PatienceTypes
    <3> QED
      BY <2>1, <2>2, <2>3, <3>1 DEF Awaited
  <2>5. losses' = losses
    BY <1>3 DEF InTime
  <2> QED
    BY <1>2, <2>4, <2>5 DEF Paid
<1>4. CASE ~(Quiet /\ \A t \in Tids : ~Live(t) \/ session[t].sends = ServerSends)
  <2>1. losses' = IF losses < MaxFaults \/ losses <= Budget THEN losses + 1 ELSE losses
    BY <1>4 DEF InTime
  <2> QED
    BY <1>1, <1>2, <2>1 DEF Paid
<1> QED
  BY <1>3, <1>4

\* What the loop does not take off the wire, and what it sends.
LEMMA LoopKeeps ==
  ASSUME TransferInv, NEW m \in Requests, toServer' = toServer \/ toServer' = Append(toServer, m)
  PROVE  /\ \A x : In(toServer, x) => In(toServer', x)
         /\ toServer' = Append(toServer, m) => In(toServer', m)
<1>1. toServer \in Seq(Requests)
  BY PatienceTypes
<1>2. \A x : In(toServer, x) \/ x = m => In(Append(toServer, m), x)
  BY <1>1, InAppend
<1> QED
  BY <1>2

LEMMA LoopCarries ==
  ASSUME TransferInv, NEW u \in Tids, peerTid = NoTid \/ peerTid = u, Carried(u),
         Start \/ ReAcks \/ AcksBlock \/ Retries \/ EndsDally, pc' # "out"
  PROVE  Carried(u)'
<1>1. UNCHANGED <<toClient, session, block, peerTid>>
  BY DEF Start, ReAcks, AcksBlock, Retries, EndsDally, xfer, net
<1>2. block \in 0 .. Wrap - 1 /\ (peerTid # NoTid => Ack(peerTid, block) \in Requests)
      /\ Rrq \in Requests /\ (gotData \/ resendAck => peerTid # NoTid)
  BY DEF TransferInv, TypeOK, XferInv, Ack, Rrq, Requests
<1>3. CASE In(toClient, Data(u, session[u].file, session[u].n))
  BY <1>1, <1>3 DEF Carried
<1>4. CASE /\ u = peerTid /\ session[u].n = block
           /\ gotData \/ resendAck \/ In(toServer, Ack(u, block))
  <2>1. u # NoTid /\ Ack(u, block) \in Requests
    BY <1>2, <1>4 DEF Tids, NoTid
  <2>2. CASE Start
    <3>1. In(toServer', Rrq) /\ (In(toServer, Ack(u, block)) => In(toServer', Ack(u, block)))
      BY <1>2, <2>2, LoopKeeps DEF Start, Send, Leave
    <3> QED
      BY <1>1, <1>4, <2>2, <3>1 DEF Start, Carried, xfer
  <2>3. CASE ReAcks \/ AcksBlock
    <3>1. toServer' = Append(toServer, Ack(u, block))
      BY <1>4, <2>3 DEF ReAcks, AcksBlock, Send, Leave
    <3>2. In(toServer', Ack(u, block))
      BY <2>1, <3>1, LoopKeeps
    <3> QED
      BY <1>1, <1>4, <3>2 DEF Carried
  <2>4. CASE Retries
    <3>1. toServer' = Append(toServer, Ack(u, block))
      BY <1>4, <2>1, <2>4 DEF Retries, Send
    <3>2. In(toServer', Ack(u, block))
      BY <2>1, <3>1, LoopKeeps
    <3> QED
      BY <1>1, <1>4, <3>2 DEF Carried
  <2>5. ~EndsDally
    BY DEF EndsDally, Leave
  <2> QED
    BY <2>2, <2>3, <2>4, <2>5
<1> QED
  BY <1>3, <1>4 DEF Carried

\* Where a block is acknowledged, or asked for again, the server will hear of
\* it, or has moved on, or is gone after enough losses.
LEMMA AnswerIsDue ==
  ASSUME TransferInv, ServedInv, ServerPatience, PatientServer,
         pc = "wait", failed = None, peerTid # NoTid, ~lastBlock \/ ~gotData
  PROVE  \/ AckRetries < losses
         \/ Live(peerTid) /\ session[peerTid].sends \in 1 .. ServerSends
            /\ Paid(session[peerTid].sends, Carried(peerTid))
<1>1. peerTid \in Tids /\ Reads(peerTid) /\ AckRetries \in Nat /\ ServerSends \in Nat /\ losses \in Nat
      /\ session[peerTid].state \in {"free", "live", "done", "gone"}
  BY PatienceTypes DEF TransferInv, XferInv
<1>2. session[peerTid].state # "done"
  BY <1>1 DEF TransferInv, DoneInv, ServedInv
<1>3. session[peerTid].state = "gone" /\ session[peerTid].file \in Files => ServerSends <= losses
  BY <1>1 DEF ServerPatience
<1>4. CASE session[peerTid].state = "gone"
  BY <1>1, <1>3, <1>4 DEF Reads, PatientServer
<1>5. CASE Live(peerTid)
  BY <1>1, <1>5 DEF ServerPatience
<1> QED
  BY <1>1, <1>2, <1>4, <1>5 DEF Live, Reads

LEMMA RetryIsPaid ==
  ASSUME TransferInv, ServedInv, ServerPatience, ClientPatience, PatientServer, Retries
  PROVE  Budget < losses' \/ Paid(retries + 1, Awaited)'
<1>1. /\ pc = "wait" /\ pc' # "out" /\ failed = None /\ ~gotData /\ retries' = retries + 1
      /\ UNCHANGED <<toClient, session, xfer>>
      /\ toServer' = Append(toServer, IF peerTid = NoTid THEN Rrq ELSE Ack(peerTid, block))
  BY DEF Retries, Waits, Send
<1>2. Budget < losses' \/ retries + 1 <= losses'
  BY <1>1, TimeoutIsPaid DEF Retries
<1>3. losses \in Nat /\ retries \in Nat /\ Budget \in Nat /\ losses' \in Nat /\ losses <= losses'
  BY PatienceTypes DEF Retries, InTime
<1>4. Budget < losses' \/ Awaited'
  <2>1. peerTid' = peerTid
    BY <1>1 DEF xfer
  <2>2. CASE peerTid = NoTid
    <3>1. Rrq \in Requests /\ toServer' = Append(toServer, Rrq)
      BY <1>1, <2>2 DEF Rrq, Requests
    <3>2. In(toServer', Rrq)
      BY <3>1, LoopKeeps
    <3> QED
      BY <2>1, <2>2, <3>2 DEF Awaited
  <2>3. CASE peerTid # NoTid
    <3>1. PICK p \in Tids : p = peerTid
      BY <2>3, PatienceTypes
    <3>2. Budget = AckRetries
      BY <2>3 DEF Budget
    <3>3. \/ AckRetries < losses
          \/ Live(p) /\ session[p].sends \in 1 .. ServerSends /\ Paid(session[p].sends, Carried(p))
      BY <1>1, <2>3, <3>1, AnswerIsDue
    <3>4. CASE AckRetries < losses
      BY <1>3, <3>2, <3>4
    <3>5. CASE Live(p) /\ session[p].sends < ServerSends
      <4>1. MaySend(p)'
        BY <1>1, <3>5 DEF MaySend, Live
      <4> QED
        BY <2>1, <2>3, <3>1, <4>1 DEF Awaited, MaySend, Live
    <3>6. CASE session[p].sends = ServerSends /\ ServerSends <= losses
      BY <1>3, <3>2, <3>6, PatienceTypes DEF PatientServer
    <3>7. CASE Carried(p)
      <4>1. Carried(p)'
        BY <1>1, <3>1, <3>7, LoopCarries
      <4> QED
        BY <2>1, <2>3, <3>1, <4>1 DEF Awaited, Carried
    <3> QED
      BY <3>3, <3>4, <3>5, <3>6, <3>7, PatienceTypes DEF Paid
  <2> QED
    BY <2>2, <2>3
<1>5. retries + 1 <= losses' => retries' + 1 <= losses' + 1
  <2>1. PICK k \in Nat : k = losses'
    BY <1>3
  <2>2. retries' = retries + 1
    BY DEF Retries
  <2>3. retries + 1 <= k => (retries + 1) + 1 <= k + 1
    BY <1>3
  <2> QED
    BY <2>1, <2>2, <2>3
<1> QED
  BY <1>2, <1>4, <1>5 DEF Paid

LEMMA OneIsFirst ==
  ASSUME NEW k \in Nat
  PROVE  0 + 1 <= k + 1
OBVIOUS

LEMMA LoopPatience ==
  ASSUME TransferInv, ServedInv, ServerPatience, ClientPatience, RetriesOutlast,
         PatientServer,
         Start \/ EndsFailed \/ ReAcks \/ AcksBlock \/ Retries \/ TimesOut \/ EndsDally
  PROVE  ServerPatience' /\ ClientPatience' /\ RetriesOutlast'
<1>1. /\ UNCHANGED <<toClient, session, block, peerTid, failed, lastBlock>>
      /\ pc # "out"
  <2>1. CASE Start \/ EndsFailed \/ Retries \/ TimesOut \/ EndsDally
    BY <2>1 DEF Start, EndsFailed, Retries, TimesOut, EndsDally, Waits, xfer, net
  <2>2. CASE ReAcks \/ AcksBlock
    BY <2>2 DEF ReAcks, AcksBlock
  <2> QED
    BY <2>1, <2>2
<1>2. losses \in Nat /\ retries \in Nat /\ Budget \in Nat /\ losses' \in Nat /\ losses <= losses'
      /\ peerTid \in Tids \cup {NoTid} /\ ServerSends \in Nat /\ AckRetries \in Nat \ {0}
  BY PatienceTypes DEF Start, EndsFailed, ReAcks, AcksBlock, Retries, TimesOut, EndsDally, InTime,
                       faults
<1>3. Budget' = Budget
  BY <1>1 DEF Budget
<1>4. ServerPatience'
  <2> SUFFICES ASSUME pc' # "out", failed = None, NEW u \in Tids, peerTid = NoTid \/ peerTid = u
               PROVE  /\ Live(u)' => /\ session'[u].sends \in 1 .. ServerSends
                                     /\ Paid(session[u].sends, Carried(u))'
                      /\ session'[u].state = "gone" /\ session'[u].file \in Files
                           => ServerSends <= losses'
    BY <1>1 DEF ServerPatience
  <2>1. /\ Live(u) => /\ session[u].sends \in 1 .. ServerSends
                      /\ Paid(session[u].sends, Carried(u))
        /\ session[u].state = "gone" /\ session[u].file \in Files => ServerSends <= losses
    BY <1>1 DEF ServerPatience
  <2>2. Carried(u) => Carried(u)'
    <3>1. ~EndsFailed /\ ~TimesOut
      BY DEF EndsFailed, TimesOut, Leave
    <3> QED
      BY <3>1, LoopCarries
  <2>3. session[u].sends \in Nat
    BY PatienceTypes
  <2> QED
    BY <1>1, <1>2, <2>1, <2>2, <2>3 DEF Paid, Live
<1>5. RetriesOutlast'
  <2> SUFFICES ASSUME result' = "timeout" PROVE Budget < losses'
    BY <1>1, <1>2, <1>3 DEF RetriesOutlast, Budget
  <2>1. result # "timeout" /\ failed # "timeout"
    BY <1>1 DEF ServedInv
  <2>2. TimesOut
    BY <2>1 DEF Start, EndsFailed, ReAcks, AcksBlock, Retries, EndsDally, Leave, call
  <2>3. pc = "wait" /\ Budget <= retries /\ Waits /\ InTime
    BY <1>2, <2>2 DEF TimesOut, Waits
  <2>4. Budget < losses' \/ retries + 1 <= losses'
    BY <2>3, TimeoutIsPaid
  <2> QED
    BY <1>2, <2>3, <2>4
<1>6. ClientPatience'
  <2> SUFFICES ASSUME pc' = "wait", failed = None, ~gotData'
               PROVE  Budget < losses' \/ Paid(retries + 1, Awaited)'
    BY <1>1, <1>3 DEF ClientPatience
  <2>1. CASE Start
    <3>1. retries' = 0 /\ peerTid' = NoTid /\ toServer' = Append(toServer, Rrq)
      BY <1>1, <2>1 DEF Start, Send, Leave, ServedInv
    <3>2. Rrq \in Requests
      BY DEF Rrq, Requests
    <3>3. In(toServer', Rrq)
      BY <3>1, <3>2, LoopKeeps
    <3>4. Awaited'
      BY <3>1, <3>3 DEF Awaited
    <3>5. retries' + 1 <= losses' + 1
      <4>1. PICK k \in Nat : k = losses'
        BY <1>2
      <4>2. 0 + 1 <= k + 1
        BY <4>1, OneIsFirst
      <4> QED
        BY <3>1, <4>1, <4>2
    <3> QED
      BY <3>4, <3>5 DEF Paid
  <2>2. CASE ReAcks
    <3>1. pc = "wait" /\ ~gotData /\ retries' = retries /\ losses' = losses /\ peerTid # NoTid
      BY <2>2 DEF ReAcks, call, faults, TransferInv, XferInv
    <3>2. Budget < losses \/ Paid(retries + 1, Awaited)
      BY <3>1 DEF ClientPatience
    <3>3. PICK p \in Tids : p = peerTid
      BY <1>2, <3>1
    <3>4. Carried(p) => Carried(p)'
      BY <2>2, <3>1, <3>3, LoopCarries DEF ReAcks, call
    <3>5. MaySend(p) => MaySend(p)'
      BY <1>1 DEF MaySend, Live
    <3>6. Awaited => Awaited'
      BY <1>1, <3>1, <3>3, <3>4, <3>5 DEF Awaited, Carried, MaySend, Live
    <3> QED
      BY <3>1, <3>2, <3>6 DEF Paid
  <2>3. CASE AcksBlock
    <3>1. pc = "wait" /\ retries' = 0 /\ losses' = losses /\ ~lastBlock /\ peerTid # NoTid
      BY <2>3 DEF AcksBlock, Leave, faults, TransferInv, XferInv
    <3>2. PICK p \in Tids : p = peerTid
      BY <1>2, <3>1
    <3>3. \/ AckRetries < losses
          \/ Live(p) /\ session[p].sends \in 1 .. ServerSends /\ Paid(session[p].sends, Carried(p))
      BY <3>1, <3>2, AnswerIsDue
    <3>4. CASE 1 <= losses
      BY <3>1, <3>4 DEF Paid
    <3>5. CASE Carried(p)
      <4>1. Carried(p)'
        BY <2>3, <3>2, <3>5, LoopCarries
      <4>2. Awaited'
        BY <1>1, <3>1, <3>2, <4>1 DEF Awaited, Carried
      <4> QED
        BY <1>2, <3>1, <4>2 DEF Paid
    <3> QED
      BY <1>2, <3>3, <3>4, <3>5 DEF Paid
  <2>4. CASE Retries
    BY <2>4, RetryIsPaid
  <2>5. ~EndsFailed /\ ~TimesOut /\ ~EndsDally
    BY DEF EndsFailed, TimesOut, EndsDally, Leave
  <2> QED
    BY <2>1, <2>2, <2>3, <2>4, <2>5
<1> QED
  BY <1>4, <1>5, <1>6

LEMMA PatienceStep ==
  ASSUME TransferInv, ServedInv, NoWrap, PatienceInv, [Next]_vars, TransferInv',
         PatientServer
  PROVE  PatienceInv'
<1> USE DEF PatienceInv
<1>1. ServedInv'
  BY ServedStep
<1>2. CASE Deliver
  <2>1. RetriesOutlast'
    BY <1>2 DEF RetriesOutlast, ServedInv, Deliver, call
  <2> QED
    BY <1>1, <1>2, <2>1, DeliverPatience
<1>3. CASE Start \/ EndsFailed \/ ReAcks \/ AcksBlock \/ Retries \/ TimesOut \/ EndsDally
  BY <1>1, <1>3, LoopPatience
<1>4. ASSUME Wire \/ Server
      PROVE  RetriesOutlast'
  <2>1. UNCHANGED <<xfer, call>> /\ losses <= losses'
    BY <1>4, ServerKeeps, PatienceTypes DEF Wire, Lose, Double, Overtake, Stray
  <2>2. result' = result /\ peerTid' = peerTid
    BY <2>1 DEF xfer, call
  <2>3. losses \in Nat /\ losses' \in Nat /\ Budget \in Nat
    BY PatienceTypes DEF TransferInv, TypeOK
  <2>4. result = "timeout" => Budget < losses
    BY <2>3, ClientAssumption DEF RetriesOutlast, Budget
  <2>5. result = "timeout" => Budget < losses'
    BY <2>1, <2>3, <2>4
  <2> QED
    BY <2>2, <2>3, <2>5, ClientAssumption DEF RetriesOutlast, Budget
<1>5. CASE Wire
  BY <1>1, <1>4, <1>5, WirePatience
<1>6. CASE Server
  BY <1>1, <1>4, <1>6, ServerIsPatient, ServerKeepsHope
<1>7. CASE UNCHANGED vars
  <2> USE <1>7 DEF vars, net, faults, xfer, call
  <2>1. \A u : Carried(u) <=> Carried(u)'
    BY DEF Carried
  <2>2. Awaited <=> Awaited'
    BY DEF Awaited, Carried, MaySend, Live
  <2>3. ServerPatience'
    BY <2>1 DEF ServerPatience, Paid, Live
  <2>4. ClientPatience'
    BY <2>2 DEF ClientPatience, Paid, Budget
  <2> QED
    BY <1>1, <2>3, <2>4 DEF RetriesOutlast
<1> QED
  BY <1>2, <1>3, <1>5, <1>6, <1>7 DEF Next, TftpGet

\* The budgets are spent on nothing but losses: against a server that sends a
\* block more often than the client asks for it again, the call times out only
\* after more datagrams were lost, or timeouts came early, than it has retries.
THEOREM BudgetsAreKept ==
  ASSUME SmallBuffer, PatientServer
  PROVE  Spec => []RetriesOutlast
<1>1. Init => PatienceInv
  <2> SUFFICES ASSUME Init PROVE PatienceInv
    OBVIOUS
  <2>1. /\ failed = None /\ result = None /\ toClient = <<>> /\ toServer = <<>> /\ pc = "start"
        /\ block = 0 /\ retries = 0 /\ peerTid = NoTid /\ ~lastBlock
        /\ \A t \in Tids : /\ session[t] = [state |-> "free", file |-> Missing, n |-> 1, sends |-> 0]
                           /\ t # peerTid
    BY DEF Init, ClientInit, WorldInit, Tids, NoTid
  <2> QED
    BY <2>1 DEF PatienceInv, ServerPatience, ClientPatience, RetriesOutlast, Live, None
<1>2. TransferInv /\ ServedInv /\ NoWrap /\ PatienceInv /\ [Next]_vars /\ TransferInv' => PatienceInv'
  BY PatienceStep
<1>3. PatienceInv => RetriesOutlast
  BY DEF PatienceInv
<1> QED
  BY <1>1, <1>2, <1>3, TransferInvariant, PTL DEF Spec

-----------------------------------------------------------------------------
(* One transfer.                                                           *)

LEMMA BufferBegins ==
  ASSUME TransferInv, NEW f \in Files, Prefix(f)
  PROVE  Transfer!Begins(f) /\ Len(stored) = block
  BY DEF TransferInv, XferInv, Prefix, Transfer!Begins

\* What the callback stores is the next block of the file the buffer begins.
LEMMA StoringIsStore ==
  ASSUME TransferInv, NEW m \in Genuine, m.op = "DATA", ~OtherTid(m), m.n < Wrap,
         StoresBlock(m), result = None, result' = result
  PROVE  Transfer!Store
<1> DEFINE f == m.file
<1>1. f \in Files /\ Prefix(f) /\ m.n \in Nat \ {0} /\ m.n <= Blocks(f)
  BY PrefixOfSender
<1>2. Transfer!Begins(f) /\ Len(stored) = block
  BY <1>1, BufferBegins
<1>3. m.n = block + 1
  <2>1. block \in 0 .. Wrap - 1
    BY DEF TransferInv, TypeOK
  <2> QED
    BY <1>1, <2>1, InSequenceIsNext DEF StoresBlock
<1>4. written' \in 0 .. DstLen
  BY LongerPrefix
<1>5. /\ written' = written + PayloadLen(f, m.n)
      /\ stored' = Append(stored, [file |-> f, n |-> m.n])
  BY DEF StoresBlock
<1>6. PayloadLen(f, m.n) = Transfer!BlockLen(f, m.n) /\ Blocks(f) = Transfer!Blocks(f)
  BY DEF PayloadLen, Blocks, Transfer!BlockLen, Transfer!Blocks
<1>7. written' <= DstLen
  BY <1>4, ClientAssumption
<1>8. result = Transfer!None
  BY DEF None, Transfer!None
<1> HIDE DEF f
<1> QED
  BY <1>1, <1>2, <1>3, <1>5, <1>6, <1>7, <1>8 DEF Transfer!Store

LEMMA DeliverTransfers ==
  ASSUME TransferInv, Deliver, NoWrap, result = None
  PROVE  Transfer!Store \/ UNCHANGED <<stored, written, result>>
<1>1. PICK m : m = Head(toClient)
  OBVIOUS
<1>2. m \in Genuine /\ (m.op = "DATA" => m.n < Wrap)
  BY <1>1, HeadTailProperties, HeadBelowWrap DEF Deliver, TransferInv, WireInv
<1>3. RecvCb(m) /\ result' = result
  BY <1>1 DEF Deliver, call
<1>4. CASE m.op = "DATA" /\ ~OtherTid(m) /\ StoresBlock(m)
  BY <1>2, <1>3, <1>4, StoringIsStore
<1>5. CASE RefusesTooBig(m) \/ SeesDuplicate(m) \/ OutOfSequence(m)
  BY <1>3, <1>5 DEF RefusesTooBig, SeesDuplicate, OutOfSequence
<1>6. CASE Fails("proto") \/ Fails("server") \/ Drops \/ UNCHANGED xfer
  BY <1>3, <1>6 DEF Fails, Drops, xfer
<1> QED
  BY <1>3, <1>4, <1>5, <1>6 DEF RecvCb, RecvData

\* The call ends with what it stored, or with the error it met.
LEMMA LeavingTransfers ==
  ASSUME TransferInv, BigInv, NEW r, Leave(r), UNCHANGED xfer, result = None,
         \/ r = failed /\ failed # None
         \/ r \in {"pcb", "timeout"}
         \/ r = "ok" /\ lastBlock
  PROVE  Transfer!Next
<1>1. result = Transfer!None /\ result' = r /\ UNCHANGED <<stored, written>>
  BY DEF Leave, xfer, None, Transfer!None
<1>2. CASE r = "ok"
  <2>1. lastBlock
    BY <1>2 DEF TransferInv, DoneInv
  <2>2. PICK f \in Files : f = session[peerTid].file /\ Prefix(f) /\ written = FileLen(f)
    BY <2>1, PrefixIsWhole DEF TransferInv, XferInv, NoTid, Tids
  <2>3. block = Blocks(f) /\ Blocks(f) = Transfer!Blocks(f) /\ FileLen(f) = Transfer!FileLen(f)
    BY <2>1, <2>2 DEF Prefix, Blocks, FileLen, Transfer!Blocks, Transfer!FileLen
  <2>4. Transfer!Begins(f) /\ Len(stored) = block
    BY <2>2, BufferBegins
  <2> QED
    BY <1>1, <1>2, <2>2, <2>3, <2>4 DEF Transfer!Next, Transfer!Succeed
<1>3. CASE r = "toobig"
  <2>1. PICK f \in Files : f = session[peerTid].file /\ Prefix(f) /\ FileLen(f) > DstLen
    BY <1>3 DEF BigInv, TransferInv, XferInv, Reads
  <2>2. Transfer!Begins(f) /\ FileLen(f) = Transfer!FileLen(f)
    BY <2>1, BufferBegins DEF FileLen, Transfer!FileLen
  <2> QED
    BY <1>1, <1>3, <2>1, <2>2 DEF Transfer!Next, Transfer!TooBig
<1>4. CASE r \in {"pcb", "timeout", "server", "proto"}
  BY <1>1, <1>4 DEF Transfer!Next, Transfer!Fail
<1>5. r \in {"ok", "toobig"} \cup {"pcb", "timeout", "server", "proto"}
  BY DEF TransferInv, TypeOK, Results
<1> QED
  BY <1>2, <1>3, <1>4, <1>5

\* A call that has returned takes no step.
CallInv == pc = "out" <=> result # None

LEMMA CallStep ==
  ASSUME TransferInv, CallInv, [Next]_vars
  PROVE  CallInv'
<1>1. CASE UNCHANGED call
  BY <1>1 DEF CallInv, call
<1>2. CASE UNCHANGED <<pc, result>>
  BY <1>2 DEF CallInv
<1>3. ASSUME NEW r, Leave(r), r # None PROVE CallInv'
  BY <1>3 DEF CallInv, Leave
<1>4. CASE Wire \/ Server
  BY <1>1, <1>4 DEF Wire, Lose, Double, Overtake, Stray, Server, Ignores, Opens, Advances,
                    Aborts, SendsAgain, GivesUp
<1>5. CASE Start \/ AcksBlock
  <2>1. "pcb" # None /\ pc \in {"start", "wait"}
    BY <1>5 DEF None, Start, AcksBlock
  <2>2. \/ Leave("pcb")
        \/ pc' \in {"wait", "dally"} /\ UNCHANGED result
    BY <1>5 DEF Start, AcksBlock
  <2> QED
    BY <1>3, <2>1, <2>2 DEF CallInv
<1>6. CASE EndsFailed \/ TimesOut \/ EndsDally
  <2>1. \E r : Leave(r) /\ r # None
    BY <1>6 DEF EndsFailed, TimesOut, EndsDally, None
  <2> QED
    BY <1>3, <2>1
<1>7. CASE Deliver \/ ReAcks \/ Retries
  BY <1>1, <1>2, <1>7 DEF Deliver, ReAcks, Retries
<1>8. CASE UNCHANGED vars
  BY <1>1, <1>8 DEF vars
<1> QED
  BY <1>4, <1>5, <1>6, <1>7, <1>8 DEF Next, TftpGet

LEMMA TransfersOnce ==
  ASSUME TransferInv, BigInv, CallInv, [Next]_vars, NoWrap
  PROVE  [Transfer!Next]_<<stored, written, result>>
<1>1. CASE Deliver
  <2>1. result = None
    BY <1>1 DEF CallInv, Deliver
  <2> QED
    BY <1>1, <2>1, DeliverTransfers DEF Transfer!Next
<1>2. CASE Start \/ AcksBlock
  <2>1. result = None /\ stored' = stored /\ written' = written
    BY <1>2 DEF CallInv, Start, AcksBlock, xfer
  <2>2. UNCHANGED result \/ Leave("pcb")
    BY <1>2 DEF Start, AcksBlock
  <2>3. CASE Leave("pcb")
    BY <2>1, <2>3 DEF Leave, None, Transfer!None, Transfer!Next, Transfer!Fail
  <2> QED
    BY <2>1, <2>2, <2>3
<1>3. CASE EndsFailed \/ TimesOut \/ EndsDally
  <2>1. result = None /\ UNCHANGED xfer
    BY <1>3 DEF CallInv, EndsFailed, TimesOut, EndsDally, Waits
  <2>2. \/ Leave(failed) /\ failed # None
        \/ Leave("timeout")
        \/ Leave("ok") /\ pc = "dally"
    BY <1>3 DEF EndsFailed, TimesOut, EndsDally
  <2>3. pc = "dally" => lastBlock
    BY DEF TransferInv, DoneInv
  <2> QED
    BY <2>1, <2>2, <2>3, LeavingTransfers
<1>4. CASE Wire \/ Server
  BY <1>4 DEF Wire, Lose, Double, Overtake, Stray, Server, Ignores, Opens, Advances,
              Aborts, SendsAgain, GivesUp, xfer, call
<1>5. CASE ReAcks \/ Retries
  BY <1>5 DEF ReAcks, Retries, xfer, call
<1>6. CASE UNCHANGED vars
  BY <1>6 DEF vars, xfer, call
<1> QED
  BY <1>1, <1>2, <1>3, <1>4, <1>5, <1>6 DEF Next, TftpGet

\* tftp_get implements FileTransfer: the caller's buffer takes the blocks of one
\* version of the file in order, and the call ends OK with all of it or with an
\* error that is true, whatever the server and the wire do.
THEOREM ImplementsTransfer ==
  ASSUME SmallBuffer
  PROVE  Spec => TransferPromise
<1>1. Init => Transfer!Init /\ BigInv /\ CallInv
  BY DEF Init, ClientInit, Transfer!Init, None, Transfer!None, BigInv, CallInv
<1>2. TransferInv /\ NoWrap /\ BigInv /\ [Next]_vars => BigInv'
  BY BigStep
<1>3. TransferInv /\ NoWrap /\ CallInv /\ [Next]_vars => CallInv'
  BY CallStep
<1>4. TransferInv /\ NoWrap /\ BigInv /\ CallInv /\ [Next]_vars
        => [Transfer!Next]_<<stored, written, result>>
  BY TransfersOnce
<1> QED
  BY <1>1, <1>2, <1>3, <1>4, TransferInvariant, PTL DEF Spec, TransferPromise, Transfer!Spec
=============================================================================
