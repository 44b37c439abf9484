---------------------------- MODULE ScriptProofs ----------------------------
(***************************************************************************)
(* What TLAPS proves of host/ctrl.sh and the board together, for any       *)
(* number of hosts, any bound on sockets, copies and resets: a request     *)
(* that is sent once is served once, and a link that is reported healthy   *)
(* has been through the reset.                                             *)
(***************************************************************************)
EXTENDS CtrlProofs, FiniteSetTheorems

-----------------------------------------------------------------------------
(* What a step of a script does, as far as sockets, datagrams and the      *)
(* watch over a reset go.  `rec' is the new state of host h.               *)

Opens(h, rec) ==
  \E text \in Texts :
    /\ client[h].opens < MaxOpens
    /\ rec.sock = Opened(h, text) /\ rec.opens = client[h].opens + 1
    /\ toBoard' = toBoard \cup {rec.sock} /\ toHost' = toHost
    /\ \/ rec.stage = "ack" /\ (rec.left > 0 => text = "STATUS")
       \/ rec.stage = "probe" /\ client[h].stage = "watch" /\ rec.since = client[h].since

Repeats(h, rec) ==
  /\ client[h].stage = "ack" /\ client[h].left > 0
  /\ rec.stage = "ack" /\ rec.sock = client[h].sock /\ rec.opens = client[h].opens
  /\ toBoard' = toBoard \cup {client[h].sock} /\ toHost' = toHost

Continues(h, rec) ==
  /\ rec.opens = client[h].opens
  /\ toBoard' = toBoard /\ toHost' \subseteq toHost
  /\ \/ rec.stage \in {"ended", "healthy"}
     \/ rec.stage = "result" /\ client[h].stage = "ack" /\ rec.sock = client[h].sock
     \/ /\ rec.stage = "watch"
        /\ \/ client[h].stage \in {"watch", "probe"} /\ rec.since = client[h].since
           \/ \E r \in toHost : r.kind = "going" /\ rec.since = r.era

Moves(h, rec) ==
  /\ client' = [client EXCEPT ![h] = rec]
  /\ Opens(h, rec) \/ Repeats(h, rec) \/ Continues(h, rec)

LEMMA HostMoves ==
  ASSUME ChannelInv, Hosts
  PROVE  \E h \in Operators : \E rec \in [stage : Stages, sock : Sockets \cup {NoSocket},
            opens : Nat, left : Nat, down : BOOLEAN, since : Nat] : Moves(h, rec)
<1> DEFINE Recs == [stage : Stages, sock : Sockets \cup {NoSocket},
                    opens : Nat, left : Nat, down : BOOLEAN, since : Nat]
<1>1. PICK h \in Operators : ScriptRuns(h) \/ \E text \in Texts : Start(h, text)
  BY DEF Hosts
<1>2. client[h] \in Clients /\ client \in [Operators -> Clients] /\ client[h] \in Recs
  BY BoundsAssumption DEF ChannelInv, TypeOK, Clients
<1>3. SUFFICES \E rec \in Recs : Moves(h, rec)
  OBVIOUS
<1>4. ASSUME NEW stage \in {"ended", "healthy"}, Ends(h, stage), UNCHANGED toBoard
      PROVE  \E rec \in Recs : Moves(h, rec)
  <2> DEFINE rec == [stage |-> stage, sock |-> NoSocket, opens |-> client[h].opens,
                     left |-> 0, down |-> FALSE, since |-> 0]
  <2>1. rec \in Recs
    BY <1>2 DEF Stages
  <2>2. Moves(h, rec)
    BY <1>2, <1>4 DEF Ends, Moves, Continues
  <2> QED
    BY <2>1, <2>2
<1>5. ASSUME NEW text \in Texts, Start(h, text) PROVE \E rec \in Recs : Moves(h, rec)
  <2> DEFINE rec == [stage |-> "ack", sock |-> Opened(h, text), opens |-> Opened(h, text).n,
                     left |-> TriesFor(text) - 1, down |-> FALSE, since |-> 0]
  <2>1. Opened(h, text) \in Sockets /\ Opened(h, text).n = client[h].opens + 1
    BY <1>2, <1>5, BoundsAssumption DEF Start, Opened, Sockets, Clients
  <2>2. TriesFor(text) - 1 \in Nat /\ (TriesFor(text) - 1 > 0 => text = "STATUS")
    BY ClientAssumption DEF TriesFor
  <2>3. rec \in Recs
    BY <1>2, <2>1, <2>2 DEF Stages
  <2>4. Moves(h, rec)
    BY <1>2, <1>5, <2>1, <2>2 DEF Start, Moves, Opens
  <2> QED
    BY <2>3, <2>4
<1>6. CASE ReadsAck(h)
  <2>1. PICK r \in toHost :
          /\ r.to = client[h].sock
          /\ \/ AfterAck(r) = "ended" /\ Ends(h, "ended")
             \/ /\ AfterAck(r) = "result"
                /\ client' = [client EXCEPT ![h].stage = "result", ![h].left = 0]
                /\ toHost' = toHost \ {r}
             \/ /\ AfterAck(r) = "watch"
                /\ client' = [client EXCEPT ![h].stage = "watch", ![h].sock = NoSocket,
                                            ![h].left = WatchRounds, ![h].since = r.era]
                /\ toHost' = {q \in toHost : q.to # r.to}
    BY <1>6 DEF ReadsAck
  <2>2. UNCHANGED toBoard /\ client[h].stage = "ack"
    BY <1>6 DEF ReadsAck
  <2>3. CASE client' = [client EXCEPT ![h].stage = "result", ![h].left = 0]
             /\ toHost' = toHost \ {r}
    <3> DEFINE rec == [client[h] EXCEPT !.stage = "result", !.left = 0]
    <3>1. rec \in Recs
      BY <1>2 DEF Stages
    <3>2. Moves(h, rec)
      BY <1>2, <2>2, <2>3 DEF Moves, Continues
    <3> QED
      BY <3>1, <3>2
  <2>4. CASE /\ AfterAck(r) = "watch"
             /\ client' = [client EXCEPT ![h].stage = "watch", ![h].sock = NoSocket,
                                         ![h].left = WatchRounds, ![h].since = r.era]
             /\ toHost' = {q \in toHost : q.to # r.to}
    <3> DEFINE rec == [client[h] EXCEPT !.stage = "watch", !.sock = NoSocket,
                                        !.left = WatchRounds, !.since = r.era]
    <3>1. r.era \in Nat /\ r.kind = "going"
      BY <2>4, BoundsAssumption DEF ChannelInv, TypeOK, Replies, AfterAck
    <3>2. rec \in Recs
      BY <1>2, <3>1, ClientAssumption DEF Stages
    <3>3. Moves(h, rec)
      BY <1>2, <2>2, <2>4, <3>1 DEF Moves, Continues
    <3> QED
      BY <3>2, <3>3
  <2> QED
    BY <1>4, <2>1, <2>2, <2>3, <2>4
<1>7. CASE SendsAgain(h)
  <2> DEFINE left == client[h].left - 1
  <2>1. left \in Nat
    BY <1>2, <1>7 DEF SendsAgain
  <2>2. client' = [client EXCEPT ![h] = [client[h] EXCEPT !.left = left]]
    BY <1>2, <1>7 DEF SendsAgain
  <2> HIDE DEF left
  <2> DEFINE rec == [client[h] EXCEPT !.left = left]
  <2>3. rec \in Recs
    BY <1>2, <2>1
  <2>4. Moves(h, rec)
    BY <1>2, <1>7, <2>2 DEF SendsAgain, Moves, Repeats
  <2> QED
    BY <2>3, <2>4
<1>8. CASE PingFails(h) \/ StillUp(h)
  <2> DEFINE left == client[h].left - 1
  <2>1. left \in Nat
    BY <1>2, <1>8 DEF PingFails, StillUp
  <2>2. PICK b \in BOOLEAN :
          client' = [client EXCEPT ![h] = [client[h] EXCEPT !.left = left, !.down = b]]
    <3>1. CASE PingFails(h)
      BY <1>2, <3>1 DEF PingFails
    <3>2. CASE StillUp(h)
      BY <1>2, <3>2 DEF StillUp
    <3> QED
      BY <1>8, <3>1, <3>2
  <2> HIDE DEF left
  <2> DEFINE rec == [client[h] EXCEPT !.left = left, !.down = b]
  <2>3. rec \in Recs
    BY <1>2, <2>1
  <2>4. Moves(h, rec)
    BY <1>2, <1>8, <2>2 DEF PingFails, StillUp, Moves, Continues
  <2> QED
    BY <2>3, <2>4
<1>9. CASE Probes(h)
  <2> DEFINE left == client[h].left - 1  s == Opened(h, "STATUS")  n == client[h].opens + 1
  <2>1. left \in Nat /\ "STATUS" \in Texts
    BY <1>2, <1>9, ClientAssumption DEF Probes
  <2>2. s \in Sockets /\ s.n = n /\ n \in Nat
    BY <1>2, <1>9, <2>1, BoundsAssumption DEF Probes, Opened, Sockets, Clients
  <2>3. /\ client' = [client EXCEPT
             ![h] = [client[h] EXCEPT !.stage = "probe", !.sock = s, !.opens = n, !.left = left]]
        /\ toBoard' = toBoard \cup {s} /\ toHost' = toHost
        /\ client[h].stage = "watch" /\ client[h].opens < MaxOpens
    BY <1>2, <1>9, <2>2 DEF Probes
  <2>4. s = Opened(h, "STATUS") /\ n = client[h].opens + 1
    OBVIOUS
  <2> HIDE DEF left, s, n
  <2> DEFINE rec == [client[h] EXCEPT !.stage = "probe", !.sock = s, !.opens = n, !.left = left]
  <2>5. rec \in Recs
    BY <1>2, <2>1, <2>2 DEF Stages
  <2>6. Moves(h, rec)
    BY <1>2, <2>1, <2>2, <2>3, <2>4 DEF Moves, Opens
  <2> QED
    BY <2>5, <2>6
<1>10. CASE ReadsProbe(h) \/ ProbeTimesOut(h)
  <2>1. UNCHANGED toBoard /\ client[h].stage = "probe" /\ (Ends(h, "healthy") \/ BackToWatch(h))
    BY <1>10 DEF ReadsProbe, ProbeTimesOut
  <2>2. CASE BackToWatch(h)
    <3> DEFINE rec == [client[h] EXCEPT !.stage = "watch", !.sock = NoSocket]
    <3>1. rec \in Recs
      BY <1>2 DEF Stages
    <3>2. Moves(h, rec)
      BY <1>2, <2>1, <2>2 DEF BackToWatch, Moves, Continues
    <3> QED
      BY <3>1, <3>2
  <2> QED
    BY <1>4, <2>1, <2>2
<1>11. CASE GivesUp(h) \/ ReadsResult(h) \/ StopsWatching(h)
  BY <1>4, <1>11 DEF GivesUp, ReadsResult, StopsWatching
<1> QED
  BY <1>1, <1>5, <1>6, <1>7, <1>8, <1>9, <1>10, <1>11 DEF ScriptRuns

-----------------------------------------------------------------------------
(* Nobody hears of a socket before its host opened it.                     *)

LEMMA KnownAreSockets == ChannelInv => Known \subseteq Sockets
<1> SUFFICES ASSUME ChannelInv PROVE Known \subseteq Sockets
  OBVIOUS
<1>1. ring \in Seq([from : Sockets, during : Labels]) /\ toHost \subseteq Replies
      /\ toBoard \subseteq Sockets /\ ran \subseteq Sockets /\ peer \in Sockets \cup {NoSocket}
  BY DEF ChannelInv, TypeOK
<1>2. ASSUME NEW i \in DOMAIN ring PROVE ring[i].from \in Sockets
  <2>1. ring[i] \in [from : Sockets, during : Labels]
    BY <1>1, ElementOfSeq, LenProperties
  <2> QED
    BY <2>1
<1>3. ASSUME NEW r \in toHost PROVE r.to \in Sockets
  BY <1>1 DEF Replies
<1> QED
  BY <1>1, <1>2, <1>3 DEF Known

\* The board and the wire only pass on what they have heard of.
LEMMA BoardKnows ==
  ASSUME ChannelInv, Wire \/ BoardRuns \/ Environment
  PROVE  client' = client /\ Known' \subseteq Known
<1> USE DEF wire, board, statics, loop, boot, ghosts, Known
<1>0. ring \in Seq([from : Sockets, during : Labels])
  BY DEF ChannelInv, TypeOK
<1>1. CASE Vanish
  BY <1>1 DEF Vanish
<1>2. ASSUME NEW s \in toBoard, Arrive(s) PROVE client' = client /\ Known' \subseteq Known
  <2>1. ring' = Append(ring, [from |-> s, during |-> pc])
    BY <1>2 DEF Arrive
  <2>2. ASSUME NEW i \in DOMAIN ring' PROVE ring'[i].from \in {ring[j].from : j \in DOMAIN ring} \cup {s}
    BY <1>0, <2>1
  <2> QED
    BY <1>2, <2>2 DEF Arrive
<1>3. ASSUME NEW s \in Known, NEW v, NEW kind, SendTo(s, v, kind) PROVE {r.to : r \in toHost'} \subseteq Known
  BY <1>3 DEF SendTo
<1>4. CASE Deliver
  <2>1. Head(ring).from \in Known
    BY <1>0, <1>4 DEF Deliver
  <2>2. ring' = Tail(ring) /\ ring # <<>>
    BY <1>4 DEF Deliver
  <2>3. ASSUME NEW i \in DOMAIN ring' PROVE ring'[i].from \in {ring[j].from : j \in DOMAIN ring}
    BY <1>0, <2>2
  <2>4. {r.to : r \in toHost'} \subseteq Known
    BY <1>3, <1>4, <2>1 DEF Deliver, RecvCb
  <2>5. {peer'} \subseteq {peer} \cup Known /\ UNCHANGED <<toBoard, ran, client>>
    BY <1>4, <2>1 DEF Deliver, RecvCb
  <2> QED
    BY <2>3, <2>4, <2>5
<1>5. CASE DoStatus \/ Refuses \/ StartsUpdate \/ EndsUpdate \/ Commits \/ Committed \/ StartsReset
  <2>1. /\ Running
        /\ UNCHANGED <<toBoard, ring, statics, ghosts, client>>
    BY <1>5 DEF DoStatus, Refuses, StartsUpdate, EndsUpdate, Commits, Committed, StartsReset,
                Answers, Running
  <2>2. UNCHANGED toHost \/ \E kind \in Kinds : ReplySend(kind)
    BY <1>5 DEF DoStatus, Refuses, StartsUpdate, EndsUpdate, Commits, Committed, StartsReset,
                Answers, Kinds
  <2>3. hasPeer => peer \in Known
    BY <2>1, NoSocketAssumption DEF ChannelInv, RunningHasPeer
  <2>4. {r.to : r \in toHost'} \subseteq Known
    BY <1>3, <2>2, <2>3 DEF ReplySend
  <2> QED
    BY <2>1, <2>4
<1>6. CASE PumpIdle \/ NothingPending \/ NoVerbKey \/ Boots \/ Done \/ MenuKey
  BY <1>6 DEF PumpIdle, NothingPending, NoVerbKey, Boots, Done, MenuKey
<1>7. CASE TakePending
  <2>1. peer \in Known
    BY <1>7, NoSocketAssumption DEF TakePending, ChannelInv, PendingHasPeer
  <2>2. ran' \subseteq ran \cup {peer} /\ UNCHANGED <<toBoard, toHost, ring, peer, client>>
    BY <1>7 DEF TakePending, Count
  <2> QED
    BY <2>1, <2>2
<1>8. CASE VerbResets \/ OtherReset
  BY <1>8 DEF VerbResets, OtherReset, Reset
<1> QED
  BY <1>1, <1>2, <1>4, <1>5, <1>6, <1>7, <1>8 DEF Wire, BoardRuns, Environment

\* A host that opens a socket opens a new one.
LEMMA OpenedStep ==
  ASSUME ChannelInv, OpenedInv, [Next]_vars PROVE OpenedInv'
<1>1. CASE UNCHANGED vars
  BY <1>1 DEF vars, wire, board, statics, loop, boot, ghosts, OpenedInv, Known
<1>2. CASE Wire \/ BoardRuns \/ Environment
  BY <1>2, BoardKnows DEF OpenedInv
<1>3. CASE Hosts
  <2> DEFINE Recs == [stage : Stages, sock : Sockets \cup {NoSocket},
                      opens : Nat, left : Nat, down : BOOLEAN, since : Nat]
  <2>1. PICK h \in Operators, rec \in Recs : Moves(h, rec)
    BY <1>3, HostMoves
  <2>2. UNCHANGED <<copies, board>>
    BY <1>3, HostsLeaveBoard
  <2>3. client \in [Operators -> Clients] /\ client' = [client EXCEPT ![h] = rec]
    BY <2>1 DEF Moves, ChannelInv, TypeOK
  <2>4. \A g \in Operators : client[g].opens \in Nat
    BY <2>3, BoundsAssumption DEF Clients
  <2>5. \A g \in Operators : client'[g] = IF g = h THEN rec ELSE client[g]
    BY <2>3
  <2>6. Known \subseteq Sockets
    BY KnownAreSockets
  <2>7. ASSUME NEW s \in Sockets, s.n <= client[s.op].opens, rec.opens >= client[h].opens
        PROVE  s.n <= client'[s.op].opens
    <3>1. s.op \in Operators /\ s.n \in Nat /\ rec.opens \in Nat
      BY BoundsAssumption DEF Sockets
    <3> QED
      BY <2>4, <2>5, <2>7, <3>1
  <2>8. CASE Opens(h, rec)
    <3>1. PICK text \in Texts : rec.sock = Opened(h, text)
                                /\ (rec.stage = "ack" /\ rec.left > 0 => text = "STATUS")
      BY <2>8 DEF Opens
    <3>2. rec.opens = client[h].opens + 1 /\ rec.sock.op = h /\ rec.sock.n = rec.opens
          /\ rec.sock.text = text
      BY <2>8, <3>1 DEF Opens, Opened
    <3>3. Known' \subseteq Known \cup {rec.sock}
      BY <2>2, <2>8 DEF Opens, Known, board, statics, loop, boot, ghosts
    <3>4. rec.opens >= client[h].opens /\ rec.sock.n <= client'[rec.sock.op].opens
      BY <2>4, <2>5, <3>2
    <3>5. \A s \in Known' : s.n <= client'[s.op].opens
      BY <2>6, <2>7, <3>3, <3>4 DEF OpenedInv
    <3> QED
      BY <2>5, <3>1, <3>2, <3>4, <3>5 DEF OpenedInv
  <2>9. CASE Repeats(h, rec)
    <3>1. client[h].sock \in Sockets /\ client[h].sock.op = h
          /\ client[h].sock.n <= client[h].opens /\ client[h].sock.text = "STATUS"
      BY <2>9 DEF Repeats, OpenedInv, ChannelInv, WaitsOnSocket
    <3>2. Known' \subseteq Known \cup {client[h].sock}
      BY <2>2, <2>9 DEF Repeats, Known, board, statics, loop, boot, ghosts
    <3>3. rec.opens = client[h].opens /\ rec.sock = client[h].sock /\ rec.opens >= client[h].opens
      BY <2>4, <2>9 DEF Repeats
    <3>4. \A s \in Known' : s.n <= client'[s.op].opens
      BY <2>6, <2>7, <3>1, <3>2, <3>3 DEF OpenedInv
    <3> QED
      BY <2>5, <3>1, <3>3, <3>4 DEF OpenedInv
  <2>10. CASE Continues(h, rec)
    <3>1. rec.opens = client[h].opens /\ rec.opens >= client[h].opens
      BY <2>4, <2>10 DEF Continues
    <3>2. Known' \subseteq Known
      BY <2>2, <2>10 DEF Continues, Known, board, statics, loop, boot, ghosts
    <3>3. \A s \in Known' : s.n <= client'[s.op].opens
      BY <2>6, <2>7, <3>1, <3>2 DEF OpenedInv
    <3>4. rec.stage # "ack" /\ rec.stage # "probe"
          /\ (rec.stage = "result" => client[h].stage = "ack" /\ rec.sock = client[h].sock)
      BY <2>10 DEF Continues
    <3> QED
      BY <2>5, <3>1, <3>3, <3>4 DEF OpenedInv
  <2> QED
    BY <2>1, <2>8, <2>9, <2>10 DEF Moves
<1> QED
  BY <1>1, <1>2, <1>3 DEF Next

LEMMA OpenedInit == Init => OpenedInv
BY DEF Init, BoardInit, ClientInit, OpenedInv, Known

THEOREM OpenedInvariant == Spec => []OpenedInv
BY OpenedInit, OpenedStep, ChannelInvariant, PTL DEF Spec

-----------------------------------------------------------------------------
(* Healthy means rebooted.                                                 *)

\* What the board sends carries its own era, an OK of a verb that resets
\* starts the drain, and a report comes from the main loop.
LEMMA BoardSends ==
  ASSUME ChannelInv, Wire \/ BoardRuns \/ Environment
  PROVE  /\ client' = client
         /\ (era' = era /\ (pc = "drain" => pc' = "drain")) \/ (era' = era + 1 /\ toHost' = toHost)
         /\ \A r \in toHost' \ toHost :
              /\ era' = era /\ r.era = era
              /\ r.kind = "going" => pc' = "drain"
              /\ r.kind = "report" => pc # "drain"
<1> USE DEF wire, board, statics, loop, boot, ghosts
<1>1. ASSUME NEW s, NEW v, NEW kind, SendTo(s, v, kind)
      PROVE  \A r \in toHost' \ toHost : r.era = era /\ r.kind = kind
  BY <1>1 DEF SendTo
<1>2. ASSUME NEW kind, ReplySend(kind)
      PROVE  \A r \in toHost' \ toHost : r.era = era /\ r.kind = kind
  BY <1>1, <1>2 DEF ReplySend
<1>3. CASE Wire
  BY <1>3 DEF Wire, Vanish, Arrive
<1>4. CASE Deliver
  BY <1>1, <1>4 DEF Deliver, RecvCb
<1>5. CASE DoStatus
  BY <1>2, <1>5 DEF DoStatus, Answers
<1>6. CASE Refuses \/ StartsUpdate \/ EndsUpdate
  BY <1>2, <1>6 DEF Refuses, StartsUpdate, EndsUpdate, Answers
<1>7. CASE Commits \/ Committed
  BY <1>2, <1>7 DEF Commits, Committed, Answers
<1>8. CASE StartsReset
  BY <1>2, <1>8 DEF StartsReset
<1>9. CASE PumpIdle \/ TakePending \/ NothingPending \/ NoVerbKey \/ Done \/ Boots \/ MenuKey
  BY <1>9 DEF PumpIdle, TakePending, NothingPending, NoVerbKey, Done, Boots, MenuKey
<1>10. CASE VerbResets \/ OtherReset
  BY <1>10 DEF VerbResets, OtherReset, Reset
<1> QED
  BY <1>3, <1>4, <1>5, <1>6, <1>7, <1>8, <1>9, <1>10 DEF BoardRuns, Environment

LEMMA RebootStep ==
  ASSUME ChannelInv, OpenedInv, RebootInv, [Next]_vars PROVE RebootInv'
<1>0. /\ era \in Nat
      /\ \A r \in toHost : r.era \in Nat /\ r.to \in Known
      /\ \A h \in Operators : client[h].since \in Nat
  BY BoundsAssumption DEF ChannelInv, TypeOK, Replies, Clients, Known
<1>1. CASE UNCHANGED vars
  BY <1>1 DEF vars, wire, board, loop, boot, RebootInv
<1>2. CASE Wire \/ BoardRuns \/ Environment
  <2>1. /\ client' = client
        /\ (era' = era /\ (pc = "drain" => pc' = "drain")) \/ (era' = era + 1 /\ toHost' = toHost)
        /\ \A r \in toHost' \ toHost :
             /\ era' = era /\ r.era = era
             /\ r.kind = "going" => pc' = "drain"
             /\ r.kind = "report" => pc # "drain"
    BY <1>2, BoardSends
  <2>2. ASSUME NEW r \in toHost'
        PROVE  r.era <= era' /\ (r.kind = "going" => r.era < era' \/ pc' = "drain")
    BY <1>0, <2>1, <2>2 DEF RebootInv
  <2>3. ASSUME NEW h \in Operators, client[h].stage \in {"watch", "probe"}
        PROVE  client[h].since <= era' /\ (client[h].since < era' \/ pc' = "drain")
    BY <1>0, <2>1, <2>3 DEF RebootInv
  <2>4. ASSUME NEW h \in Operators, client[h].stage = "probe",
               NEW r \in toHost', r.to = client[h].sock, r.kind = "report"
        PROVE  r.era > client[h].since
    BY <1>0, <2>1, <2>4 DEF RebootInv
  <2> QED
    BY <2>1, <2>2, <2>3, <2>4 DEF RebootInv
<1>3. CASE Hosts
  <2> DEFINE Recs == [stage : Stages, sock : Sockets \cup {NoSocket},
                      opens : Nat, left : Nat, down : BOOLEAN, since : Nat]
  <2>1. PICK h \in Operators, rec \in Recs : Moves(h, rec)
    BY <1>3, HostMoves
  <2>2. era' = era /\ pc' = pc /\ toHost' \subseteq toHost
    BY <1>3, <2>1, HostsLeaveBoard DEF board, loop, boot, Moves, Opens, Repeats, Continues
  <2>3. client \in [Operators -> Clients] /\ client' = [client EXCEPT ![h] = rec]
    BY <2>1 DEF Moves, ChannelInv, TypeOK
  <2>4. \A g \in Operators : client'[g] = IF g = h THEN rec ELSE client[g]
    BY <2>3
  <2>5. SUFFICES ASSUME rec.stage \in {"watch", "probe"}
                 PROVE  /\ rec.since <= era /\ (rec.since < era \/ pc = "drain")
                        /\ rec.stage = "probe" =>
                             \A r \in toHost : r.to = rec.sock /\ r.kind = "report" => r.era > rec.since
    <3>1. \A r \in toHost' : r.era <= era /\ (r.kind = "going" => r.era < era \/ pc = "drain")
      BY <2>2 DEF RebootInv
    <3>2. ASSUME NEW g \in Operators, g # h, client[g].stage \in {"watch", "probe"}
          PROVE  /\ client[g].since <= era /\ (client[g].since < era \/ pc = "drain")
                 /\ client[g].stage = "probe" =>
                      \A r \in toHost' :
                        r.to = client[g].sock /\ r.kind = "report" => r.era > client[g].since
      BY <2>2, <3>2 DEF RebootInv
    <3> QED
      BY <2>2, <2>4, <2>5, <3>1, <3>2 DEF RebootInv
  <2>6. CASE Opens(h, rec)
    <3>1. PICK text \in Texts : rec.sock = Opened(h, text)
      BY <2>6 DEF Opens
    <3>2. client[h].stage = "watch" /\ rec.since = client[h].since /\ rec.stage = "probe"
      BY <2>5, <2>6 DEF Opens
    <3>3. client[h].opens \in Nat
      BY <2>3, BoundsAssumption DEF Clients
    <3>4. ASSUME NEW r \in toHost, r.to = rec.sock PROVE FALSE
      <4>1. r.to.op = h /\ r.to.n = client[h].opens + 1
        BY <3>1, <3>4 DEF Opened
      <4>2. r.to.n <= client[h].opens
        BY <1>0, <4>1 DEF OpenedInv
      <4> QED
        BY <3>3, <4>1, <4>2
    <3> QED
      BY <3>2, <3>4 DEF RebootInv
  <2>7. CASE Repeats(h, rec)
    BY <2>5, <2>7 DEF Repeats
  <2>8. CASE Continues(h, rec)
    BY <2>5, <2>8 DEF Continues, RebootInv
  <2> QED
    BY <2>1, <2>6, <2>7, <2>8 DEF Moves
<1> QED
  BY <1>1, <1>2, <1>3 DEF Next

THEOREM RebootInvariant == Spec => []RebootInv
<1>1. Init => RebootInv
  BY DEF Init, BoardInit, ClientInit, RebootInv
<1> QED
  BY <1>1, RebootStep, ChannelInvariant, OpenedInvariant, PTL DEF Spec

\* ctrl.sh calls the link healthy only on a STATUS that a later boot answered
\* than the one that said OK to SWITCH or GOLDEN.
THEOREM HealthyIsRebooted == Spec => HealthyMeansRebooted
<1> DEFINE Through == \A h \in Operators :
      client[h].stage = "probe" /\ client'[h].stage = "healthy" =>
        \E r \in toHost \ toHost' : r.to = client[h].sock /\ r.era > client[h].since
<1>1. ChannelInv /\ RebootInv /\ [Next]_vars => [Through]_vars
  <2> SUFFICES ASSUME ChannelInv, RebootInv, Next,
                      NEW h \in Operators, client[h].stage = "probe", client'[h].stage = "healthy"
               PROVE  \E r \in toHost \ toHost' : r.to = client[h].sock /\ r.era > client[h].since
    OBVIOUS
  <2>1. Hosts
    BY BoardSends DEF Next
  <2>2. PICK g \in Operators : ScriptRuns(g) \/ \E text \in Texts : Start(g, text)
    BY <2>1 DEF Hosts
  <2>3. ~BackToWatch(h)
    <3>1. client \in [Operators -> Clients] /\ client[h] \in Clients
      BY DEF ChannelInv, TypeOK
    <3>2. BackToWatch(h) => client'[h] = [client[h] EXCEPT !.stage = "watch", !.sock = NoSocket]
      BY <3>1 DEF BackToWatch
    <3>3. [client[h] EXCEPT !.stage = "watch", !.sock = NoSocket].stage = "watch"
      BY <3>1 DEF Clients
    <3> QED
      BY <3>2, <3>3
  <2>4. g = h
    BY <2>2
    DEF ScriptRuns, ReadsAck, SendsAgain, GivesUp, ReadsResult, PingFails, StillUp, Probes,
        ReadsProbe, ProbeTimesOut, StopsWatching, Start, Ends, BackToWatch, ChannelInv, TypeOK
  <2>5. ReadsProbe(h)
    BY <2>2, <2>3, <2>4
    DEF ScriptRuns, ReadsAck, SendsAgain, GivesUp, ReadsResult, PingFails, StillUp, Probes,
        ProbeTimesOut, StopsWatching, Start
  <2>6. PICK r \in toHost : /\ r.to = client[h].sock
                            /\ \/ AfterProbe(r) = "healthy" /\ Ends(h, "healthy")
                               \/ AfterProbe(r) = "watch" /\ BackToWatch(h)
    BY <2>5 DEF ReadsProbe
  <2>7. r.kind = "report" /\ r \notin toHost'
    BY <2>3, <2>6 DEF AfterProbe, Ends
  <2> QED
    BY <2>6, <2>7 DEF RebootInv
<1> QED
  BY <1>1, ChannelInvariant, RebootInvariant, PTL DEF Spec, HealthyMeansRebooted

-----------------------------------------------------------------------------
(* A request that is sent once is served once.                             *)

\* A set that is covered by two others, as an equation.
LEMMA Covered ==
  ASSUME NEW A, NEW B, NEW C, IsFiniteSet(B), IsFiniteSet(C), A \subseteq B \cup C
  PROVE  IsFiniteSet(A) /\ \E m \in Nat : Cardinality(A) + m = Cardinality(B) + Cardinality(C)
<1>1. /\ IsFiniteSet(B \cup C) /\ IsFiniteSet(B \cap C)
      /\ Cardinality(B \cup C) = Cardinality(B) + Cardinality(C) - Cardinality(B \cap C)
  BY FS_Union, FS_Intersection
<1>2. IsFiniteSet(A) /\ Cardinality(A) <= Cardinality(B \cup C)
  BY <1>1, FS_Subset
<1>3. /\ Cardinality(A) \in Nat /\ Cardinality(B) \in Nat /\ Cardinality(C) \in Nat
      /\ Cardinality(B \cap C) \in Nat
  BY <1>1, <1>2, FS_CardinalityType
<1> DEFINE m == Cardinality(B) + Cardinality(C) - Cardinality(A)
<1>4. m \in Nat /\ Cardinality(A) + m = Cardinality(B) + Cardinality(C)
  BY <1>1, <1>2, <1>3
<1> QED
  BY <1>2, <1>4

LEMMA OneLess ==
  ASSUME NEW A, NEW B, NEW x, IsFiniteSet(A), x \in A, B = A \ {x}
  PROVE  Cardinality(B) + 1 = Cardinality(A)
<1>1. Cardinality(A) \in Nat
  BY FS_CardinalityType
<1>2. Cardinality(A \ {x}) = Cardinality(A) - 1
  BY FS_RemoveElement
<1> QED
  BY <1>1, <1>2

LEMMA OneMore ==
  ASSUME NEW A, NEW B, NEW x, IsFiniteSet(A), x \notin A, B = A \cup {x}
  PROVE  Cardinality(B) = Cardinality(A) + 1
BY FS_AddElement

\* The requests in the ring are as many as their places, or fewer.
LEMMA RingSources ==
  ASSUME ring \in Seq([from : Sockets, during : Labels])
  PROVE  /\ IsFiniteSet(Queued) /\ IsFiniteSet({ring[i].from : i \in Queued})
         /\ \E m \in Nat : Cardinality({ring[i].from : i \in Queued}) + m = Cardinality(Queued)
<1> DEFINE S == {ring[i].from : i \in Queued}  f == [i \in Queued |-> ring[i].from]
<1>1. Len(ring) \in Nat /\ Queued \subseteq 1 .. Len(ring)
  BY DEF Queued
<1>2. IsFiniteSet(1 .. Len(ring))
  BY <1>1, FS_Interval
<1>3. IsFiniteSet(Queued)
  BY <1>1, <1>2, FS_Subset
<1>4. f \in Surjection(Queued, S)
  BY DEF Surjection
<1>5. IsFiniteSet(S) /\ Cardinality(S) <= Cardinality(Queued)
  BY <1>3, <1>4, FS_Surjection
<1>6. Cardinality(S) \in Nat /\ Cardinality(Queued) \in Nat
  BY <1>3, <1>5, FS_CardinalityType
<1> DEFINE m == Cardinality(Queued) - Cardinality(S)
<1>7. m \in Nat /\ Cardinality(S) + m = Cardinality(Queued)
  BY <1>5, <1>6
<1> QED
  BY <1>3, <1>5, <1>7

Finite == IsFiniteSet(toBoard) /\ IsFiniteSet(ran)

LEMMA FiniteParts ==
  ChannelInv /\ Finite =>
    /\ IsFiniteSet(OneShots(toBoard)) /\ IsFiniteSet(Queued) /\ IsFiniteSet(Waiting)
    /\ IsFiniteSet(ran) /\ IsFiniteSet(Held)
    /\ Cardinality(OneShots(toBoard)) \in Nat /\ Cardinality(Queued) \in Nat
    /\ Cardinality(Waiting) \in Nat /\ Cardinality(ran) \in Nat /\ Cardinality(Held) \in Nat
    /\ copies \in Nat /\ reruns \in Nat
<1> SUFFICES ASSUME ChannelInv, Finite
             PROVE  /\ IsFiniteSet(OneShots(toBoard)) /\ IsFiniteSet(Queued) /\ IsFiniteSet(Waiting)
                    /\ IsFiniteSet(ran) /\ IsFiniteSet(Held)
                    /\ copies \in Nat /\ reruns \in Nat
  BY FS_CardinalityType
<1>1. copies \in Nat /\ reruns \in Nat /\ ring \in Seq([from : Sockets, during : Labels])
  BY BoundsAssumption DEF ChannelInv, TypeOK
<1>2. IsFiniteSet(OneShots(toBoard))
  <2>1. OneShots(toBoard) \subseteq toBoard
    BY DEF OneShots
  <2> QED
    BY <2>1, FS_Subset DEF Finite
<1>3. IsFiniteSet(Queued) /\ IsFiniteSet({ring[i].from : i \in Queued})
  BY <1>1, RingSources
<1>4. IsFiniteSet(Waiting)
  BY FS_EmptySet, FS_Singleton DEF Waiting
<1>5. IsFiniteSet(Held)
  BY <1>2, <1>3, <1>4, FS_Union DEF Held, Finite
<1> QED
  BY <1>1, <1>2, <1>3, <1>4, <1>5 DEF Finite

LEMMA FinitePartsNext ==
  ChannelInv' /\ Finite' =>
    ( /\ IsFiniteSet(OneShots(toBoard)) /\ IsFiniteSet(Queued) /\ IsFiniteSet(Waiting)
      /\ IsFiniteSet(ran) /\ IsFiniteSet(Held)
      /\ Cardinality(OneShots(toBoard)) \in Nat /\ Cardinality(Queued) \in Nat
      /\ Cardinality(Waiting) \in Nat /\ Cardinality(ran) \in Nat /\ Cardinality(Held) \in Nat
      /\ copies \in Nat /\ reruns \in Nat )'
BY FiniteParts, PTL

\* `lost' datagrams go and `made' come, and what may be out there changes by
\* as much, or by more.
Balanced(lost, made, more) ==
  /\ Datagrams' + lost = Datagrams + made
  /\ Allowance' + lost = Allowance + made + more

LEMMA BalanceKept ==
  ASSUME ChannelInv, ChannelInv', SurplusInv, Finite',
         NEW lost \in Nat, NEW made \in Nat, NEW more \in Nat, Balanced(lost, made, more)
  PROVE  SurplusInv'
<1>1. Datagrams \in Nat /\ Allowance \in Nat
  BY FiniteParts DEF Datagrams, Allowance, SurplusInv, Finite
<1>2. Datagrams' \in Nat /\ Allowance' \in Nat
  BY FinitePartsNext DEF Datagrams, Allowance
<1>3. \A d, a, e, b \in Nat :
        d <= a /\ e + lost = d + made /\ b + lost = a + made + more => e <= b
  OBVIOUS
<1>4. Datagrams <= Allowance
  BY DEF SurplusInv
<1>5. Datagrams' <= Allowance'
  BY <1>1, <1>2, <1>3, <1>4, Zenon DEF Balanced
<1> QED
  BY <1>5 DEF SurplusInv, Finite

\* A step that moves no such request, and only forgets or repeats others.
LEMMA NothingMoves ==
  ASSUME ChannelInv, ChannelInv', SurplusInv, Finite',
         OneShots(toBoard)' = OneShots(toBoard), Queued' = Queued, Waiting' = Waiting,
         Held' = Held, ran' = ran, reruns' = reruns, copies' = copies
  PROVE  SurplusInv'
<1>1. Balanced(0, 0, 0)
  BY FiniteParts DEF Balanced, Datagrams, Allowance, SurplusInv, Finite
<1> QED
  BY <1>1, BalanceKept

LEMMA VanishBalances ==
  ASSUME ChannelInv, ChannelInv', SurplusInv, NEW s \in toBoard, toBoard' = toBoard \ {s},
         UNCHANGED <<copies, ring, pending, peer, ran, reruns>>
  PROVE  SurplusInv'
<1>1. Finite'
  BY FS_RemoveElement DEF Finite, SurplusInv
<1>2. Queued' = Queued /\ Waiting' = Waiting
  BY DEF Queued, Waiting
<1>3. CASE s.text = "STATUS"
  <2>1. OneShots(toBoard)' = OneShots(toBoard)
    BY <1>3 DEF OneShots
  <2> QED
    BY <1>1, <1>2, <2>1, NothingMoves DEF Held
<1>4. CASE s.text # "STATUS"
  <2>1. OneShots(toBoard)' = OneShots(toBoard) \ {s} /\ s \in OneShots(toBoard)
    BY <1>4 DEF OneShots
  <2>2. Cardinality(OneShots(toBoard)') + 1 = Cardinality(OneShots(toBoard))
    <3>1. IsFiniteSet(OneShots(toBoard))
      BY FiniteParts DEF SurplusInv, Finite
    <3> QED
      BY <2>1, <3>1, OneLess
  <2>3. Held \subseteq Held' \cup {s}
    BY <1>2, <2>1 DEF Held
  <2>4. PICK m \in Nat : Cardinality(Held) + m = Cardinality(Held') + 1
    <3>1. IsFiniteSet(Held') /\ IsFiniteSet({s}) /\ Cardinality({s}) = 1
      BY <1>1, FinitePartsNext, FS_Singleton
    <3> QED
      BY <2>3, <3>1, Covered
  <2>5. Balanced(1, 0, m)
    <3>1. Datagrams' + 1 = Datagrams
      BY <1>1, <1>2, <2>2, FiniteParts, FinitePartsNext DEF Datagrams, SurplusInv, Finite
    <3>2. Allowance' + 1 = Allowance + m
      BY <1>1, <2>4, FiniteParts, FinitePartsNext DEF Allowance, SurplusInv, Finite
    <3> QED
      BY <3>1, <3>2, FiniteParts DEF Balanced, Datagrams, Allowance, SurplusInv, Finite
  <2> QED
    BY <1>1, <2>5, BalanceKept
<1> QED
  BY <1>3, <1>4

\* A datagram that moves into the ring, or is delivered there as well.
LEMMA ArriveBalances ==
  ASSUME ChannelInv, ChannelInv', SurplusInv, NEW s \in toBoard, Arrive(s)
  PROVE  SurplusInv'
<1> DEFINE n == Len(ring) + 1
<1>1. /\ ring' = Append(ring, [from |-> s, during |-> pc])
      /\ UNCHANGED <<pending, peer, ran, reruns>>
      /\ \/ toBoard' = toBoard \ {s} /\ copies' = copies
         \/ toBoard' = toBoard /\ copies' = copies + 1
  BY DEF Arrive, statics, loop, ghosts
<1>2. Finite' /\ Waiting' = Waiting
  BY <1>1, FS_RemoveElement DEF Finite, SurplusInv, Waiting
<1>3. /\ ring \in Seq([from : Sockets, during : Labels]) /\ Len(ring) \in Nat
      /\ DOMAIN ring = 1 .. Len(ring) /\ n \notin DOMAIN ring
      /\ DOMAIN ring' = DOMAIN ring \cup {n} /\ ring'[n].from = s
      /\ \A i \in DOMAIN ring : ring'[i] = ring[i]
  BY <1>1 DEF ChannelInv, TypeOK
<1>4. /\ IsFiniteSet(OneShots(toBoard)) /\ IsFiniteSet(Queued)
      /\ Cardinality(OneShots(toBoard)) \in Nat /\ Cardinality(Queued) \in Nat
      /\ Cardinality(Waiting) \in Nat /\ Cardinality(ran) \in Nat /\ Cardinality(Held) \in Nat
      /\ copies \in Nat /\ reruns \in Nat
  BY FiniteParts DEF SurplusInv, Finite
<1>5. CASE s.text = "STATUS"
  <2>1. OneShots(toBoard)' = OneShots(toBoard)
    BY <1>1, <1>5 DEF OneShots
  <2>2. Queued' = Queued
    BY <1>3, <1>5 DEF Queued
  <2>3. {ring[i].from : i \in Queued}' = {ring[i].from : i \in Queued}
    BY <1>3, <2>2 DEF Queued
  <2>4. Held' = Held
    BY <1>1, <1>2, <2>1, <2>3 DEF Held
  <2>5. CASE copies' = copies
    BY <1>1, <1>2, <2>1, <2>2, <2>4, <2>5, NothingMoves
  <2>6. CASE copies' = copies + 1
    <3>1. Datagrams' + 0 = Datagrams + 0 /\ Allowance' + 0 = Allowance + 0 + 1
      BY <1>1, <1>2, <1>4, <2>1, <2>2, <2>4, <2>6 DEF Datagrams, Allowance
    <3> QED
      BY <1>2, <3>1, BalanceKept DEF Balanced
  <2> QED
    BY <1>1, <2>5, <2>6
<1>6. CASE s.text # "STATUS"
  <2>1. Queued' = Queued \cup {n} /\ n \notin Queued
    BY <1>3, <1>6 DEF Queued
  <2>2. Cardinality(Queued') = Cardinality(Queued) + 1
    BY <1>4, <2>1, OneMore
  <2>3. {ring[i].from : i \in Queued}' = {ring[i].from : i \in Queued} \cup {s}
    BY <1>3, <2>1 DEF Queued
  <2>4. s \in OneShots(toBoard) /\ (OneShots(toBoard)' = OneShots(toBoard) \ {s}
                                    \/ OneShots(toBoard)' = OneShots(toBoard))
    BY <1>1, <1>6 DEF OneShots
  <2>5. Held' = Held
    BY <1>1, <1>2, <2>3, <2>4 DEF Held
  <2>6. CASE toBoard' = toBoard \ {s} /\ copies' = copies
    <3>1. OneShots(toBoard)' = OneShots(toBoard) \ {s}
      BY <2>6 DEF OneShots
    <3>2. Cardinality(OneShots(toBoard)') + 1 = Cardinality(OneShots(toBoard))
      BY <1>4, <2>4, <3>1, OneLess
    <3>3. Datagrams' = Datagrams /\ Allowance' = Allowance
      BY <1>1, <1>2, <1>4, <2>2, <2>5, <2>6, <3>2, FinitePartsNext DEF Datagrams, Allowance
    <3> QED
      BY <1>2, <3>3 DEF SurplusInv, Finite
  <2>7. CASE toBoard' = toBoard /\ copies' = copies + 1
    <3>1. OneShots(toBoard)' = OneShots(toBoard)
      BY <2>7 DEF OneShots
    <3>2. /\ Cardinality(OneShots(toBoard)') = Cardinality(OneShots(toBoard))
          /\ Cardinality(Waiting') = Cardinality(Waiting)
          /\ Cardinality(Held') = Cardinality(Held) /\ Cardinality(ran') = Cardinality(ran)
      BY <1>1, <1>2, <2>5, <3>1, Zenon
    <3>3. reruns' = reruns /\ copies' = copies + 1
      BY <1>1, <2>7
    <3>4. Datagrams' + 0 = Datagrams + 1 /\ Allowance' + 0 = Allowance + 1 + 0
      BY <1>4, <2>2, <3>2, <3>3 DEF Datagrams, Allowance
    <3> QED
      BY <1>2, <3>4, BalanceKept DEF Balanced
  <2> QED
    BY <1>1, <2>6, <2>7
<1> QED
  BY <1>5, <1>6

\* A datagram that leaves the ring is forgotten, or recorded.
LEMMA DeliverBalances ==
  ASSUME ChannelInv, ChannelInv', SurplusInv, Deliver
  PROVE  SurplusInv'
<1> DEFINE d == Head(ring).from  left == Queued \ {1}
<1>1. /\ ring' = Tail(ring) /\ ring # <<>>
      /\ UNCHANGED <<toBoard, ran, reruns, copies>>
      /\ RecvCb(d)
  BY DEF Deliver, ghosts
<1>2. Finite' /\ OneShots(toBoard)' = OneShots(toBoard)
  BY <1>1 DEF Finite, SurplusInv, OneShots
<1>3. /\ ring \in Seq([from : Sockets, during : Labels]) /\ Len(ring) \in Nat \ {0}
      /\ DOMAIN ring = 1 .. Len(ring) /\ ring[1].from = d
      /\ DOMAIN ring' = 1 .. Len(ring) - 1
      /\ \A i \in DOMAIN ring' : ring'[i] = ring[i + 1]
  BY <1>1 DEF ChannelInv, TypeOK
<1>4. /\ IsFiniteSet(Queued)
      /\ Cardinality(OneShots(toBoard)) \in Nat /\ Cardinality(Queued) \in Nat
      /\ Cardinality(Waiting) \in Nat /\ Cardinality(ran) \in Nat /\ Cardinality(Held) \in Nat
      /\ copies \in Nat /\ reruns \in Nat
  BY FiniteParts DEF SurplusInv, Finite
<1>5. /\ IsFiniteSet(Held')
      /\ Cardinality(OneShots(toBoard)') \in Nat /\ Cardinality(Queued') \in Nat
      /\ Cardinality(Waiting') \in Nat /\ Cardinality(ran') \in Nat /\ Cardinality(Held') \in Nat
      /\ copies' \in Nat /\ reruns' \in Nat
  BY <1>2, FinitePartsNext
<1>6. Cardinality(Queued') = Cardinality(left)
  <2> DEFINE f == [i \in left |-> i - 1]
  <2>1. left \subseteq 2 .. Len(ring)
    BY <1>3 DEF Queued
  <2>2. \A i \in left : i - 1 \in DOMAIN ring' /\ ring'[i - 1] = ring[i]
    BY <1>3, <2>1
  <2>3. \A i \in left : i - 1 \in Queued'
    BY <2>2 DEF Queued
  <2>4. \A j \in Queued' : j + 1 \in left /\ (j + 1) - 1 = j
    BY <1>3 DEF Queued
  <2>5. \A i, j \in left : i - 1 = j - 1 => i = j
    BY <2>1
  <2> HIDE DEF left
  <2>6. f \in [left -> Queued']
    BY <2>3
  <2>7. \A i, j \in left : f[i] = f[j] => i = j
    BY <2>5
  <2>8. \A j \in Queued' : \E i \in left : f[i] = j
    BY <2>4
  <2> HIDE DEF f
  <2>9. f \in Bijection(left, Queued')
    <3>1. f \in Injection(left, Queued')
      BY <2>6, <2>7 DEF Injection, IsInjective
    <3>2. f \in Surjection(left, Queued')
      BY <2>6, <2>8 DEF Surjection
    <3> QED
      BY <3>1, <3>2 DEF Bijection
  <2>10. IsFiniteSet(left)
    BY <1>4, FS_Subset DEF left
  <2> QED
    BY <2>9, <2>10, FS_Bijection DEF ExistsBijection
<1>7. {ring[i].from : i \in Queued} \subseteq {ring[i].from : i \in Queued}' \cup {d}
  <2>1. ASSUME NEW i \in Queued, i # 1 PROVE ring[i].from \in {ring[j].from : j \in Queued}'
    <3>1. i - 1 \in DOMAIN ring' /\ ring'[i - 1] = ring[i]
      BY <1>3, <2>1 DEF Queued
    <3> QED
      BY <2>1, <3>1 DEF Queued
  <2> QED
    BY <1>3, <2>1
<1> HIDE DEF d
<1>8. CASE Waiting' = Waiting
  <2>0. /\ Cardinality(OneShots(toBoard)') = Cardinality(OneShots(toBoard))
        /\ Cardinality(Waiting') = Cardinality(Waiting) /\ Cardinality(ran') = Cardinality(ran)
        /\ reruns' = reruns /\ copies' = copies
    BY <1>1, <1>2, <1>8, Zenon
  <2>1. CASE d.text = "STATUS"
    <3>1. left = Queued
      BY <1>3, <2>1 DEF Queued
    <3>2. {ring[i].from : i \in Queued} \subseteq {ring[i].from : i \in Queued}'
      BY <1>3, <1>7, <2>1 DEF Queued
    <3>3. Held \subseteq Held' \cup {}
      BY <1>1, <1>2, <1>8, <3>2 DEF Held
    <3>4. PICK m \in Nat : Cardinality(Held) + m = Cardinality(Held') + 0
      BY <1>5, <3>3, Covered, FS_EmptySet
    <3>5. Cardinality(Queued') = Cardinality(Queued)
      BY <1>6, <3>1, Zenon
    <3>6. Datagrams' + 0 = Datagrams + 0 /\ Allowance' + 0 = Allowance + 0 + m
      BY <1>4, <1>5, <2>0, <3>4, <3>5 DEF Datagrams, Allowance
    <3> QED
      BY <1>2, <3>6, BalanceKept DEF Balanced
  <2>2. CASE d.text # "STATUS"
    <3>1. Cardinality(left) + 1 = Cardinality(Queued)
      <4>1. 1 \in Queued
        BY <1>3, <2>2 DEF Queued
      <4> QED
        BY <1>4, <4>1, OneLess
    <3>2. Held \subseteq Held' \cup {d}
      BY <1>1, <1>2, <1>7, <1>8 DEF Held
    <3>3. PICK m \in Nat : Cardinality(Held) + m = Cardinality(Held') + 1
      <4>1. IsFiniteSet(Held') /\ IsFiniteSet({d}) /\ Cardinality({d}) = 1
        BY <1>5, FS_Singleton
      <4> QED
        BY <3>2, <4>1, Covered
    <3>4. Datagrams' + 1 = Datagrams + 0 /\ Allowance' + 1 = Allowance + 0 + m
      BY <1>4, <1>5, <1>6, <2>0, <3>1, <3>3 DEF Datagrams, Allowance
    <3> QED
      BY <1>2, <3>4, BalanceKept DEF Balanced
  <2> QED
    BY <2>1, <2>2
<1>9. CASE Waiting = {} /\ Waiting' = {d} /\ d.text # "STATUS"
  <2>1. Cardinality(left) + 1 = Cardinality(Queued)
    <3>1. 1 \in Queued
      BY <1>3, <1>9 DEF Queued
    <3> QED
      BY <1>4, <3>1, OneLess
  <2>2. Cardinality(Waiting) = 0 /\ Cardinality(Waiting') = 1
    BY <1>9, FS_EmptySet, FS_Singleton
  <2>3. Held \subseteq Held' \cup {}
    BY <1>1, <1>2, <1>7, <1>9 DEF Held
  <2>4. PICK m \in Nat : Cardinality(Held) + m = Cardinality(Held') + 0
    BY <1>5, <2>3, Covered, FS_EmptySet
  <2>5. Datagrams' + 0 = Datagrams + 0 /\ Allowance' + 0 = Allowance + 0 + m
    <3>1. /\ Cardinality(OneShots(toBoard)') = Cardinality(OneShots(toBoard))
          /\ Cardinality(ran') = Cardinality(ran) /\ reruns' = reruns /\ copies' = copies
      BY <1>1, <1>2, Zenon
    <3> QED
      BY <1>4, <1>5, <1>6, <2>1, <2>2, <2>4, <3>1 DEF Datagrams, Allowance
  <2> QED
    BY <1>2, <2>5, BalanceKept DEF Balanced
<1>10. Waiting' = Waiting \/ (Waiting = {} /\ Waiting' = {d} /\ d.text # "STATUS")
  BY <1>1 DEF RecvCb, Waiting, statics, Verbs, None
<1> QED
  BY <1>8, <1>9, <1>10

\* The recorded request starts: for the first time, or once more.
LEMMA TakeBalances ==
  ASSUME ChannelInv, ChannelInv', SurplusInv, TakePending
  PROVE  SurplusInv'
<1>1. /\ pending # None /\ pending' = None /\ peer.text = pending
      /\ Count(peer) /\ UNCHANGED <<toBoard, copies, ring>>
  BY DEF TakePending, ChannelInv, PendingHasPeer, wire
<1>2. Finite' /\ Queued' = Queued
  BY <1>1, FS_AddElement DEF Finite, SurplusInv, Queued, Count, ghosts
<1>3. OneShots(toBoard)' = OneShots(toBoard) /\ {ring[i].from : i \in Queued}' = {ring[i].from : i \in Queued}
  BY <1>1, <1>2 DEF OneShots
<1>4. Waiting' = {}
  BY <1>1 DEF Waiting
<1>5. CASE pending = "STATUS"
  <2>1. UNCHANGED <<ran, reruns>> /\ Waiting' = Waiting
    BY <1>1, <1>4, <1>5 DEF Count, ghosts, Waiting
  <2>2. Held' = Held
    BY <1>3, <2>1 DEF Held
  <2> QED
    BY <1>1, <1>2, <1>3, <2>1, <2>2, NothingMoves
<1>6. CASE pending # "STATUS"
  <2>1. Waiting = {peer} /\ ran' = ran \cup {peer}
        /\ reruns' = reruns + (IF peer \in ran THEN 1 ELSE 0)
    BY <1>1, <1>6 DEF Waiting, Count
  <2>2. Held' = Held
    BY <1>3, <1>4, <2>1 DEF Held
  <2>3. Cardinality(Waiting) = 1 /\ Cardinality(Waiting') = 0
    BY <1>4, <2>1, FS_EmptySet, FS_Singleton
  <2>4. /\ IsFiniteSet(ran)
        /\ Cardinality(OneShots(toBoard)) \in Nat /\ Cardinality(Queued) \in Nat
        /\ Cardinality(ran) \in Nat /\ Cardinality(Held) \in Nat
        /\ copies \in Nat /\ reruns \in Nat
    BY FiniteParts DEF SurplusInv, Finite
  <2>5. CASE peer \in ran
    <3>1. ran' = ran /\ reruns' = reruns + 1
      BY <2>1, <2>5
    <3>2. /\ Cardinality(OneShots(toBoard)') = Cardinality(OneShots(toBoard))
          /\ Cardinality(Queued') = Cardinality(Queued) /\ Cardinality(ran') = Cardinality(ran)
          /\ Cardinality(Held') = Cardinality(Held) /\ copies' = copies
      BY <1>1, <1>2, <1>3, <2>2, <3>1, Zenon
    <3>3. Datagrams' + 0 = Datagrams + 0 /\ Allowance' + 0 = Allowance + 0 + 0
      BY <2>3, <2>4, <3>1, <3>2 DEF Datagrams, Allowance
    <3> QED
      BY <1>2, <3>3, BalanceKept DEF Balanced
  <2>6. CASE peer \notin ran
    <3>1. Cardinality(ran') = Cardinality(ran) + 1
      BY <2>1, <2>4, <2>6, OneMore
    <3>2. /\ Cardinality(OneShots(toBoard)') = Cardinality(OneShots(toBoard))
          /\ Cardinality(Queued') = Cardinality(Queued)
          /\ Cardinality(Held') = Cardinality(Held) /\ copies' = copies
      BY <1>1, <1>2, <1>3, <2>2, Zenon
    <3>3. reruns' = reruns
      BY <2>1, <2>4, <2>6
    <3>4. Datagrams' + 0 = Datagrams + 0 /\ Allowance' + 0 = Allowance + 0 + 0
      BY <2>3, <2>4, <3>1, <3>2, <3>3 DEF Datagrams, Allowance
    <3> QED
      BY <1>2, <3>4, BalanceKept DEF Balanced
  <2> QED
    BY <2>5, <2>6
<1> QED
  BY <1>5, <1>6

\* A reset loses the ring and the recorded request.
LEMMA ResetBalances ==
  ASSUME ChannelInv, ChannelInv', SurplusInv, Reset
  PROVE  SurplusInv'
<1> DEFINE S == {ring[i].from : i \in Queued}  q == Cardinality(Queued)  p == Cardinality(Waiting)
<1>1. ring' = <<>> /\ pending' = None /\ UNCHANGED <<toBoard, ran, reruns, copies>>
  BY DEF Reset, wire, ghosts
<1>2. Finite' /\ OneShots(toBoard)' = OneShots(toBoard)
  BY <1>1 DEF Finite, SurplusInv, OneShots
<1>3. Queued' = {} /\ Waiting' = {}
  BY <1>1 DEF Queued, Waiting
<1>4. Cardinality(Queued') = 0 /\ Cardinality(Waiting') = 0
  BY <1>3, FS_EmptySet
<1>5. /\ IsFiniteSet(Waiting)
      /\ Cardinality(OneShots(toBoard)) \in Nat /\ q \in Nat
      /\ p \in Nat /\ Cardinality(ran) \in Nat /\ Cardinality(Held) \in Nat
      /\ copies \in Nat /\ reruns \in Nat
  BY FiniteParts DEF SurplusInv, Finite
<1>6. IsFiniteSet(Held') /\ Cardinality(Held') \in Nat
  BY <1>2, FinitePartsNext
<1>7. PICK m1 \in Nat : IsFiniteSet(S) /\ Cardinality(S) \in Nat /\ Cardinality(S) + m1 = q
  BY RingSources, FS_CardinalityType DEF ChannelInv, TypeOK
<1> DEFINE T == S \cup Waiting
<1>8. Held \subseteq Held' \cup T
  BY <1>1, <1>2 DEF Held
<1> HIDE DEF S, q
<1>9. IsFiniteSet(T) /\ Cardinality(T) \in Nat
      /\ \E m \in Nat : Cardinality(T) + m = Cardinality(S) + p
  <2>1. T \subseteq S \cup Waiting
    OBVIOUS
  <2>2. IsFiniteSet(S) /\ IsFiniteSet(Waiting)
    BY <1>5, <1>7
  <2> HIDE DEF T
  <2>3. IsFiniteSet(T) /\ \E m \in Nat : Cardinality(T) + m = Cardinality(S) + p
    BY <2>1, <2>2, Covered
  <2> QED
    BY <2>3, FS_CardinalityType
<1> HIDE DEF T, p
<1>10. PICK m2 \in Nat : Cardinality(T) + m2 = Cardinality(S) + p
  BY <1>9
<1>11. PICK m3 \in Nat : Cardinality(Held) + m3 = Cardinality(Held') + Cardinality(T)
  <2>1. IsFiniteSet(Held') /\ IsFiniteSet(T)
    BY <1>6, <1>9
  <2> QED
    BY <1>8, <2>1, Covered
<1>12. /\ Cardinality(OneShots(toBoard)') = Cardinality(OneShots(toBoard))
       /\ Cardinality(ran') = Cardinality(ran) /\ reruns' = reruns /\ copies' = copies
  BY <1>1, <1>2, Zenon
<1>13. Datagrams' + (q + p) = Datagrams + 0
  BY <1>4, <1>5, <1>12 DEF Datagrams, q, p
<1>14. Allowance' + (q + p) = Allowance + 0 + (m1 + m2 + m3)
  BY <1>5, <1>6, <1>7, <1>9, <1>10, <1>11, <1>12 DEF Allowance
<1>15. q + p \in Nat /\ m1 + m2 + m3 \in Nat
  BY <1>5
<1>16. Balanced(q + p, 0, m1 + m2 + m3)
  BY <1>13, <1>14 DEF Balanced
<1> QED
  BY <1>2, <1>15, <1>16, BalanceKept

\* A script sends a new request from a new socket, and only STATUS again.
LEMMA HostBalances ==
  ASSUME ChannelInv, ChannelInv', OpenedInv, SurplusInv, Hosts
  PROVE  SurplusInv'
<1> DEFINE Recs == [stage : Stages, sock : Sockets \cup {NoSocket},
                    opens : Nat, left : Nat, down : BOOLEAN, since : Nat]
<1>1. PICK h \in Operators, rec \in Recs : Moves(h, rec)
  BY HostMoves
<1>2. UNCHANGED <<copies, ring, pending, peer, ran, reruns>>
  BY HostsLeaveBoard DEF board, statics, loop, ghosts
<1>3. Queued' = Queued /\ Waiting' = Waiting
  BY <1>2 DEF Queued, Waiting
<1>4. ASSUME OneShots(toBoard)' = OneShots(toBoard), Finite' PROVE SurplusInv'
  <2>1. Held' = Held
    BY <1>2, <1>3, <1>4 DEF Held
  <2> QED
    BY <1>2, <1>3, <1>4, <2>1, NothingMoves
<1>5. ASSUME NEW s, toBoard' = toBoard \cup {s} PROVE Finite'
  BY <1>2, <1>5, FS_AddElement DEF Finite, SurplusInv
<1>6. CASE Opens(h, rec)
  <2>1. PICK text \in Texts : rec.sock = Opened(h, text)
    BY <1>6 DEF Opens
  <2>2. PICK s : s = rec.sock
    OBVIOUS
  <2>3. toBoard' = toBoard \cup {s} /\ s.op = h /\ s.n = client[h].opens + 1
    BY <1>6, <2>1, <2>2 DEF Opens, Opened
  <2>4. s \notin Known
    <3>1. client[h].opens \in Nat
      BY BoundsAssumption DEF ChannelInv, TypeOK, Clients
    <3> QED
      BY <2>3, <3>1 DEF OpenedInv
  <2>5. s \notin Held /\ s \notin OneShots(toBoard)
    <3>1. Held \subseteq Known
      BY NoSocketAssumption
      DEF Held, Known, OneShots, Queued, Waiting, ChannelInv, PendingHasPeer
    <3> QED
      BY <2>4, <3>1 DEF Held
  <2>6. CASE s.text = "STATUS"
    <3>1. OneShots(toBoard)' = OneShots(toBoard)
      BY <2>3, <2>6 DEF OneShots
    <3> QED
      BY <1>4, <1>5, <2>3, <3>1
  <2>7. CASE s.text # "STATUS"
    <3>1. OneShots(toBoard)' = OneShots(toBoard) \cup {s}
      BY <2>3, <2>7 DEF OneShots
    <3>2. Held' = Held \cup {s}
      BY <1>2, <1>3, <3>1 DEF Held
    <3>3. IsFiniteSet(OneShots(toBoard)) /\ IsFiniteSet(Held)
      BY FiniteParts DEF SurplusInv, Finite
    <3>4. /\ Cardinality(OneShots(toBoard)') = Cardinality(OneShots(toBoard)) + 1
          /\ Cardinality(Held') = Cardinality(Held) + 1
      BY <2>5, <3>1, <3>2, <3>3, OneMore
    <3>5. /\ Cardinality(Queued') = Cardinality(Queued)
          /\ Cardinality(Waiting') = Cardinality(Waiting) /\ Cardinality(ran') = Cardinality(ran)
          /\ reruns' = reruns /\ copies' = copies
      BY <1>2, <1>3, Zenon
    <3>6. /\ Cardinality(OneShots(toBoard)) \in Nat /\ Cardinality(Queued) \in Nat
          /\ Cardinality(Waiting) \in Nat /\ Cardinality(ran) \in Nat /\ Cardinality(Held) \in Nat
          /\ copies \in Nat /\ reruns \in Nat
      BY FiniteParts DEF SurplusInv, Finite
    <3>7. Datagrams' + 0 = Datagrams + 1 /\ Allowance' + 0 = Allowance + 1 + 0
      BY <3>4, <3>5, <3>6 DEF Datagrams, Allowance
    <3>8. Finite'
      BY <1>5, <2>3
    <3> QED
      BY <3>7, <3>8, BalanceKept DEF Balanced
  <2> QED
    BY <2>6, <2>7
<1>7. CASE Repeats(h, rec)
  <2>1. client[h].sock.text = "STATUS" /\ toBoard' = toBoard \cup {client[h].sock}
    BY <1>7 DEF Repeats, OpenedInv
  <2>2. OneShots(toBoard)' = OneShots(toBoard)
    BY <2>1 DEF OneShots
  <2>3. Finite'
    BY <1>2, <2>1, FS_AddElement DEF Finite, SurplusInv
  <2> QED
    BY <1>4, <2>2, <2>3
<1>8. CASE Continues(h, rec)
  <2>1. OneShots(toBoard)' = OneShots(toBoard) /\ Finite'
    BY <1>2, <1>8 DEF Continues, OneShots, Finite, SurplusInv
  <2> QED
    BY <1>4, <2>1
<1> QED
  BY <1>1, <1>6, <1>7, <1>8 DEF Moves

LEMMA SurplusStep ==
  ASSUME ChannelInv, ChannelInv', OpenedInv, SurplusInv, [Next]_vars
  PROVE  SurplusInv'
<1> USE DEF wire, board, statics, loop, boot, ghosts
<1>1. CASE Wire
  <2>1. CASE Vanish
    BY <2>1, VanishBalances DEF Vanish
  <2> QED
    BY <1>1, <2>1, ArriveBalances DEF Wire
<1>2. ASSUME UNCHANGED <<toBoard, copies, ring, pending, peer, ran, reruns>> PROVE SurplusInv'
  <2>1. Finite' /\ OneShots(toBoard)' = OneShots(toBoard) /\ Queued' = Queued /\ Waiting' = Waiting
    BY <1>2 DEF Finite, SurplusInv, OneShots, Queued, Waiting
  <2>2. Held' = Held
    BY <1>2, <2>1 DEF Held
  <2> QED
    BY <1>2, <2>1, <2>2, NothingMoves
<1>3. CASE BoardRuns
  <2>1. CASE PumpIdle \/ NothingPending \/ NoVerbKey \/ Done \/ Boots
    BY <1>2, <2>1 DEF PumpIdle, NothingPending, NoVerbKey, Done, Boots
  <2>2. CASE DoStatus \/ Refuses \/ StartsUpdate \/ EndsUpdate \/ Commits \/ Committed \/ StartsReset
    BY <1>2, <2>2
    DEF DoStatus, Refuses, StartsUpdate, EndsUpdate, Commits, Committed, StartsReset, Answers
  <2> QED
    BY <1>3, <2>1, <2>2, DeliverBalances, TakeBalances, ResetBalances DEF BoardRuns, VerbResets
<1>4. CASE Environment
  <2>1. CASE MenuKey
    BY <1>2, <2>1 DEF MenuKey
  <2> QED
    BY <1>4, <2>1, ResetBalances DEF Environment, OtherReset
<1>5. CASE UNCHANGED vars
  BY <1>2, <1>5 DEF vars
<1> QED
  BY <1>1, <1>3, <1>4, <1>5, HostBalances DEF Next

LEMMA SurplusInit == Init => SurplusInv
<1> SUFFICES ASSUME Init PROVE SurplusInv
  OBVIOUS
<1>1. toBoard = {} /\ ran = {} /\ Queued = {} /\ Waiting = {} /\ copies = 0 /\ reruns = 0
  BY DEF Init, BoardInit, ClientInit, Queued, Waiting
<1>2. OneShots(toBoard) = {} /\ Held = {}
  BY <1>1 DEF OneShots, Held
<1>3. Cardinality({}) = 0 /\ IsFiniteSet({})
  BY FS_EmptySet
<1>4. Datagrams = 0 /\ Allowance = 0
  BY <1>1, <1>2, <1>3 DEF Datagrams, Allowance
<1> QED
  BY <1>1, <1>3, <1>4 DEF SurplusInv

THEOREM SurplusInvariant == Spec => []SurplusInv
<1>1. ChannelInv /\ ChannelInv' /\ OpenedInv /\ SurplusInv /\ [Next]_vars => SurplusInv'
  BY SurplusStep
<1> QED
  BY <1>1, SurplusInit, ChannelInvariant, OpenedInvariant, PTL DEF Spec

\* The board starts again no request that ctrl.sh sends once, unless the wire
\* delivered that request twice: nothing is retried that must not be, and
\* nothing that was taken stays recorded.
THEOREM ServedOnce == Spec => []OneShotVerbsRunOnce
<1>1. ChannelInv /\ SurplusInv => OneShotVerbsRunOnce
  <2> SUFFICES ASSUME ChannelInv, SurplusInv PROVE reruns <= copies
    BY DEF OneShotVerbsRunOnce
  <2> DEFINE S == {ring[i].from : i \in Queued}  W == OneShots(toBoard)
             A == W \cup S  B == A \cup Waiting
             w == Cardinality(W)  q == Cardinality(Queued)  p == Cardinality(Waiting)
             r == Cardinality(ran)
  <2>1. /\ IsFiniteSet(W) /\ IsFiniteSet(Waiting) /\ IsFiniteSet(ran) /\ IsFiniteSet(Held)
        /\ w \in Nat /\ q \in Nat /\ p \in Nat /\ r \in Nat /\ Cardinality(Held) \in Nat
        /\ copies \in Nat /\ reruns \in Nat
    BY FiniteParts DEF SurplusInv, Finite
  <2>2. PICK m1 \in Nat : IsFiniteSet(S) /\ Cardinality(S) + m1 = q
    BY RingSources DEF ChannelInv, TypeOK
  <2>3. IsFiniteSet(A) /\ IsFiniteSet(B)
    BY <2>1, <2>2, FS_Union
  <2>4. Held = B \cup ran
    BY DEF Held
  <2>5. w + q + p + r + reruns <= Cardinality(Held) + copies
    BY DEF SurplusInv, Datagrams, Allowance
  <2>6. A \subseteq W \cup S /\ B \subseteq A \cup Waiting
    OBVIOUS
  <2>7. Cardinality(A) \in Nat /\ Cardinality(B) \in Nat /\ Cardinality(S) \in Nat
    BY <2>2, <2>3, FS_CardinalityType
  <2> HIDE DEF S, W, A, B, q
  <2>8. PICK m2 \in Nat : Cardinality(A) + m2 = Cardinality(W) + Cardinality(S)
    <3>1. IsFiniteSet(W) /\ IsFiniteSet(S) /\ A \subseteq W \cup S
      BY <2>1, <2>2, <2>6
    <3> QED
      BY <3>1, Covered
  <2>9. PICK m3 \in Nat : Cardinality(B) + m3 = Cardinality(A) + Cardinality(Waiting)
    BY <2>1, <2>3, <2>6, Covered
  <2>10. PICK m4 \in Nat : Cardinality(Held) + m4 = Cardinality(B) + Cardinality(ran)
    BY <2>1, <2>3, <2>4, Covered
  <2> HIDE DEF w, p, r
  <2> QED
    BY <2>1, <2>2, <2>5, <2>7, <2>8, <2>9, <2>10 DEF w, p, r
<1> QED
  BY <1>1, ChannelInvariant, SurplusInvariant, PTL
=============================================================================
