----------------------------- MODULE CtrlProofs -----------------------------
(***************************************************************************)
(* Proofs about the control channel, for any number of hosts, any bound on *)
(* sockets, copies, resets and ring slots.                                 *)
(***************************************************************************)
EXTENDS CtrlSystem, SequenceTheorems, TLAPS

\* One reply to the requester of the verb it names keeps the wire's type and
\* keeps every reply about what was asked.
LEMMA SendKeepsMatch ==
  ASSUME TypeOK, AnswersMatch,
         NEW s \in Sockets, NEW v \in Texts, NEW kind \in Kinds,
         SendTo(s, v, kind), v = s.text
  PROVE  toHost' \subseteq Replies /\ AnswersMatch'
<1>1. [to |-> s, verb |-> v, kind |-> kind, era |-> era] \in Replies
  BY DEF TypeOK, Replies
<1> QED
  BY <1>1 DEF SendTo, TypeOK, AnswersMatch

\* What ctrl_reply_send puts on the wire while a verb runs.
LEMMA ReplyKeepsMatch ==
  ASSUME ChannelInv, Running, NEW kind \in Kinds, ReplySend(kind)
  PROVE  toHost' \subseteq Replies /\ AnswersMatch'
<1>1. CASE hasPeer
  <2>1. peer \in Sockets /\ peer.text = verb
    BY <1>1 DEF ChannelInv, RunningHasPeer
  <2>2. verb \in Texts
    BY <2>1 DEF Sockets
  <2> QED
    BY <1>1, <2>1, <2>2, SendKeepsMatch DEF ReplySend, ChannelInv
<1>2. CASE ~hasPeer
  BY <1>2 DEF ReplySend, ChannelInv, TypeOK, AnswersMatch
<1> QED
  BY <1>1, <1>2

LEMMA InitChannel == Init => ChannelInv
<1> SUFFICES ASSUME Init PROVE ChannelInv
  OBVIOUS
<1> USE DEF Init, BoardInit, ClientInit
<1>1. client \in [Operators -> Clients]
  BY BoundsAssumption DEF Clients, Stages
<1>2. TypeOK
  <2>1. ring \in Seq([from : Sockets, during : Labels])
    BY EmptySeq
  <2>2. copies \in 0 .. MaxCopies /\ era \in 0 .. MaxEras /\ reruns \in Nat
    BY BoundsAssumption
  <2>3. busy \in BOOLEAN /\ hasPeer \in BOOLEAN
    OBVIOUS
  <2> QED
    BY <1>1, <2>1, <2>2, <2>3 DEF TypeOK, Labels
<1> QED
  BY <1>2 DEF ChannelInv, WaitsOnSocket, BusyWhileRunning, PendingHasPeer,
              RunningHasPeer, AnswersMatch, Running, None

-----------------------------------------------------------------------------
(* The wire.                                                               *)

LEMMA WireStep ==
  ASSUME ChannelInv, Wire
  PROVE  ChannelInv'
<1> USE DEF vars, wire, board, statics, loop, boot, ghosts
<1>1. CASE Vanish
  BY <1>1 DEF Vanish, ChannelInv, TypeOK, WaitsOnSocket, BusyWhileRunning,
              PendingHasPeer, RunningHasPeer, AnswersMatch, Running
<1>2. ASSUME NEW s \in toBoard, Arrive(s) PROVE ChannelInv'
  <2>1. [from |-> s, during |-> pc] \in [from : Sockets, during : Labels]
    BY DEF ChannelInv, TypeOK
  <2>2. ring' \in Seq([from : Sockets, during : Labels])
    BY <1>2, <2>1, AppendProperties DEF Arrive, ChannelInv, TypeOK
  <2>3. copies' \in 0 .. MaxCopies /\ toBoard' \subseteq Sockets
    BY <1>2, BoundsAssumption DEF Arrive, ChannelInv, TypeOK
  <2>4. TypeOK'
    BY <1>2, <2>2, <2>3 DEF Arrive, ChannelInv, TypeOK
  <2> QED
    BY <1>2, <2>4 DEF Arrive, ChannelInv, WaitsOnSocket, BusyWhileRunning,
                      PendingHasPeer, RunningHasPeer, AnswersMatch, Running
<1> QED
  BY <1>1, <1>2 DEF Wire

-----------------------------------------------------------------------------
(* The board.                                                              *)

\* The callback, wherever the pump runs.
LEMMA DeliverStep ==
  ASSUME ChannelInv, Deliver
  PROVE  ChannelInv'
<1> USE DEF wire, board, statics, loop, boot, ghosts
<1> DEFINE d == Head(ring)
<1>1. d \in [from : Sockets, during : Labels]
      /\ ring' \in Seq([from : Sockets, during : Labels])
  BY HeadTailProperties DEF Deliver, ChannelInv, TypeOK
<1>2. d.from \in Sockets /\ d.from.text \in Texts
  BY <1>1 DEF Sockets
<1>3. pc' \in Labels /\ (Running' <=> Running)
  BY DEF Deliver, ChannelInv, TypeOK, Labels, Pumping, Running
<1>4. CASE d.from.text = "long" /\ UNCHANGED <<statics, toHost>>
  BY <1>1, <1>3, <1>4 DEF Deliver, ChannelInv, TypeOK, WaitsOnSocket, BusyWhileRunning,
                          PendingHasPeer, RunningHasPeer, AnswersMatch
<1>5. ASSUME NEW kind \in {"parse", "busy"},
             SendTo(d.from, d.from.text, kind), UNCHANGED statics
      PROVE  ChannelInv'
  <2>1. toHost' \subseteq Replies /\ AnswersMatch'
    BY <1>2, <1>5, SendKeepsMatch DEF ChannelInv, Kinds
  <2> QED
    BY <1>1, <1>3, <1>5, <2>1 DEF Deliver, ChannelInv, TypeOK, WaitsOnSocket,
       BusyWhileRunning, PendingHasPeer, RunningHasPeer
<1>6. CASE /\ d.from.text \in Verbs /\ ~busy /\ pending = None
           /\ pending' = d.from.text /\ peer' = d.from /\ hasPeer' = TRUE
           /\ UNCHANGED <<busy, toHost>>
  <2>1. TypeOK'
    BY <1>1, <1>2, <1>3, <1>6 DEF Deliver, ChannelInv, TypeOK
  <2>2. ~Running' /\ pc' \in {"pump", "take"}
    BY <1>3, <1>6 DEF Deliver, ChannelInv, BusyWhileRunning, Running, Pumping
  <2> QED
    BY <1>2, <1>3, <1>6, <2>1, <2>2 DEF Deliver, ChannelInv, WaitsOnSocket,
       BusyWhileRunning, PendingHasPeer, RunningHasPeer, AnswersMatch
<1> QED
  BY <1>4, <1>5, <1>6 DEF Deliver, RecvCb
\* The main loop between two pumps: taking, finishing and starting verbs.
LEMMA LoopStep ==
  ASSUME ChannelInv,
         PumpIdle \/ NothingPending \/ NoVerbKey \/ Boots \/ TakePending \/ Done \/ MenuKey
  PROVE  ChannelInv'
<1> USE DEF wire, board, statics, loop, boot, ghosts, ChannelInv
<1>1. CASE PumpIdle \/ NothingPending \/ NoVerbKey \/ Boots
  <2>1. pc' \in {"take", "console", "pump"} /\ ~Running /\ ~Running'
        /\ UNCHANGED <<wire, ring, statics, verb, origin, ghosts, boot, client>>
    BY <1>1 DEF PumpIdle, NothingPending, NoVerbKey, Boots, Running
  <2>2. TypeOK'
    BY <2>1 DEF TypeOK, Labels
  <2>3. pending # None => pc' \in {"pump", "take"}
    BY <1>1 DEF PumpIdle, NothingPending, NoVerbKey, Boots, PendingHasPeer
  <2> QED
    BY <2>1, <2>2, <2>3 DEF WaitsOnSocket, BusyWhileRunning, PendingHasPeer, RunningHasPeer,
                      AnswersMatch
<1>2. CASE TakePending
  <2>1. hasPeer /\ peer \in Sockets /\ peer.text = pending /\ pending \in Verbs
    BY <1>2 DEF TakePending, PendingHasPeer, TypeOK
  <2>2. ran' \subseteq Sockets /\ reruns' \in Nat
    BY <1>2, <2>1 DEF TakePending, Count, TypeOK
  <2>3. busy' \in BOOLEAN
    BY <1>2 DEF TakePending
  <2>4. TypeOK'
    BY <1>2, <2>1, <2>2, <2>3 DEF TakePending, TypeOK, Labels
  <2> QED
    BY <1>2, <2>1, <2>4 DEF TakePending, WaitsOnSocket, BusyWhileRunning, PendingHasPeer,
                            RunningHasPeer, AnswersMatch, Running
<1>3. CASE Done
  <2>1. busy' \in BOOLEAN /\ hasPeer' \in BOOLEAN /\ pc' \in {"console", "pump"}
    BY <1>3 DEF Done
  <2>2. TypeOK'
    BY <1>3, <2>1 DEF Done, TypeOK, Labels
  <2>3. pending = None
    BY <1>3 DEF Done, PendingHasPeer, BusyWhileRunning, Running
  <2> QED
    BY <1>3, <2>1, <2>2, <2>3 DEF Done, WaitsOnSocket, BusyWhileRunning, PendingHasPeer,
                                  RunningHasPeer, AnswersMatch, Running
<1>4. CASE MenuKey
  <2>1. busy' \in BOOLEAN /\ hasPeer' \in BOOLEAN
    BY <1>4 DEF MenuKey
  <2>2. TypeOK'
    BY <1>4, <2>1 DEF MenuKey, TypeOK, Labels
  <2>3. pending = None
    BY <1>4 DEF MenuKey, PendingHasPeer
  <2> QED
    BY <1>4, <2>2, <2>3 DEF MenuKey, WaitsOnSocket, BusyWhileRunning, PendingHasPeer,
                            RunningHasPeer, AnswersMatch, Running
<1> QED
  BY <1>1, <1>2, <1>3, <1>4

\* The handlers: one reply, and on to another label of the running verb.
LEMMA HandlerStep ==
  ASSUME ChannelInv,
         \/ DoStatus \/ Refuses \/ StartsUpdate \/ EndsUpdate \/ Commits \/ Committed
         \/ StartsReset
  PROVE  ChannelInv'
<1> USE DEF wire, board, statics, loop, boot, ghosts
<1>1. /\ Running /\ Running' /\ pc' \in Labels
      /\ UNCHANGED <<toBoard, copies, ring, statics, verb, origin, ghosts, boot, client>>
  BY DEF DoStatus, Refuses, StartsUpdate, EndsUpdate, Commits, Committed, StartsReset,
         Answers, Running, Labels
<1>2. UNCHANGED toHost \/ \E kind \in Kinds : ReplySend(kind)
  BY DEF DoStatus, Refuses, StartsUpdate, EndsUpdate, Commits, Committed, StartsReset,
         Answers, Kinds
<1>3. toHost' \subseteq Replies /\ AnswersMatch'
  <2>1. CASE UNCHANGED toHost
    BY <2>1 DEF ChannelInv, TypeOK, AnswersMatch
  <2> QED
    BY <1>1, <1>2, <2>1, ReplyKeepsMatch
<1>4. TypeOK'
  BY <1>1, <1>3 DEF ChannelInv, TypeOK
<1> QED
  BY <1>1, <1>3, <1>4 DEF ChannelInv, WaitsOnSocket, BusyWhileRunning, PendingHasPeer,
                          RunningHasPeer, Running

LEMMA ResetStep ==
  ASSUME ChannelInv, VerbResets \/ OtherReset
  PROVE  ChannelInv'
<1> USE DEF wire, board, statics, loop, boot, ghosts
<1>1. Reset
  BY DEF VerbResets, OtherReset
<1>2. ring' \in Seq([from : Sockets, during : Labels])
  BY <1>1, EmptySeq DEF Reset
<1>3. era' \in 0 .. MaxEras
  BY <1>1, BoundsAssumption DEF Reset, ChannelInv, TypeOK
<1>4. busy' \in BOOLEAN /\ hasPeer' \in BOOLEAN
  BY <1>1 DEF Reset
<1>5. TypeOK'
  BY <1>1, <1>2, <1>3, <1>4 DEF Reset, ChannelInv, TypeOK, Labels
<1> QED
  BY <1>1, <1>5 DEF Reset, ChannelInv, WaitsOnSocket, BusyWhileRunning, PendingHasPeer,
                    RunningHasPeer, AnswersMatch, Running

-----------------------------------------------------------------------------
(* The hosts.                                                              *)

LEMMA HostsLeaveBoard == Hosts => UNCHANGED <<copies, board>>
BY DEF Hosts, ScriptRuns, Start, ReadsAck, SendsAgain, GivesUp, ReadsResult, PingFails,
       StillUp, Probes, ReadsProbe, ProbeTimesOut, StopsWatching, Script

\* A script's step leaves the board alone, keeps the types of its own state,
\* and puts only sockets on the wire.
LEMMA HostStep ==
  ASSUME ChannelInv, Hosts
  PROVE  ChannelInv'
<1> USE DEF wire, board, statics, loop, boot, ghosts
<1> SUFFICES
      /\ UNCHANGED <<copies, board>>
      /\ toBoard' \subseteq Sockets /\ toHost' \subseteq toHost
      /\ client' \in [Operators -> Clients] /\ WaitsOnSocket'
  BY DEF ChannelInv, TypeOK, BusyWhileRunning, PendingHasPeer, RunningHasPeer,
         AnswersMatch, Running
<1>1. PICK h \in Operators : ScriptRuns(h) \/ \E text \in Texts : Start(h, text)
  BY DEF Hosts
<1>2. client[h] \in Clients /\ client \in [Operators -> Clients]
  BY DEF ChannelInv, TypeOK
<1>3. ASSUME NEW text \in Texts, client[h].opens < MaxOpens
      PROVE  Opened(h, text) \in Sockets /\ Opened(h, text).n \in 0 .. MaxOpens
  BY <1>2, <1>3, BoundsAssumption DEF Opened, Sockets, Clients
<1>4. ASSUME NEW rec \in Clients, client' = [client EXCEPT ![h] = rec],
             rec.stage \in {"ack", "result", "probe"} => rec.sock \in Sockets
      PROVE  client' \in [Operators -> Clients] /\ WaitsOnSocket'
  BY <1>2, <1>4 DEF ChannelInv, WaitsOnSocket
<1>5. UNCHANGED <<copies, board>>
  BY HostsLeaveBoard
<1>6. ASSUME NEW stage \in {"ended", "healthy"}, Ends(h, stage)
      PROVE  /\ toHost' \subseteq toHost
             /\ client' \in [Operators -> Clients] /\ WaitsOnSocket'
  <2> DEFINE rec == [stage |-> stage, sock |-> NoSocket, opens |-> client[h].opens,
                     left |-> 0, down |-> FALSE, since |-> 0]
  <2>1. rec \in Clients
    BY <1>2, BoundsAssumption DEF Clients, Stages
  <2>2. client' = [client EXCEPT ![h] = rec]
    BY <1>2, <1>6 DEF Ends
  <2>3. toHost' \subseteq toHost
    BY <1>6 DEF Ends
  <2> QED
    BY <1>4, <2>1, <2>2, <2>3
<1>7. ASSUME NEW r \in toHost PROVE r.era \in 0 .. MaxEras
  BY <1>7 DEF ChannelInv, TypeOK, Replies
<1>8. CASE Start(h, "STATUS") \/ \E text \in Texts : Start(h, text)
  <2>1. PICK text \in Texts : Start(h, text)
    BY <1>8, ClientAssumption
  <2> DEFINE rec == [stage |-> "ack", sock |-> Opened(h, text), opens |-> Opened(h, text).n,
                     left |-> TriesFor(text) - 1, down |-> FALSE, since |-> 0]
  <2>2. Opened(h, text) \in Sockets /\ Opened(h, text).n \in 0 .. MaxOpens
    BY <1>3, <2>1 DEF Start
  <2>3. TriesFor(text) - 1 \in Nat
    BY ClientAssumption DEF TriesFor
  <2>4. rec \in Clients
    BY <2>2, <2>3, BoundsAssumption DEF Clients, Stages
  <2>5. client' = [client EXCEPT ![h] = rec]
    BY <2>1 DEF Start
  <2>6. toBoard' \subseteq Sockets /\ toHost' = toHost
    BY <2>1, <2>2 DEF Start, ChannelInv, TypeOK
  <2> HIDE DEF rec
  <2>7. rec.sock \in Sockets
    BY <2>2 DEF rec
  <2> QED
    BY <1>4, <1>5, <2>4, <2>5, <2>6, <2>7
<1>9. CASE ReadsAck(h)
  <2>1. PICK r \in toHost :
          /\ r.to = client[h].sock
          /\ \/ Ends(h, "ended")
             \/ /\ client' = [client EXCEPT ![h].stage = "result", ![h].left = 0]
                /\ toHost' = toHost \ {r}
             \/ /\ client' = [client EXCEPT ![h].stage = "watch", ![h].sock = NoSocket,
                                            ![h].left = WatchRounds, ![h].since = r.era]
                /\ toHost' = {q \in toHost : q.to # r.to}
    BY <1>9 DEF ReadsAck
  <2>2. toBoard' = toBoard /\ client[h].sock \in Sockets
    BY <1>9 DEF ReadsAck, ChannelInv, WaitsOnSocket
  <2>3. CASE client' = [client EXCEPT ![h].stage = "result", ![h].left = 0]
             /\ toHost' = toHost \ {r}
    <3> DEFINE rec == [client[h] EXCEPT !.stage = "result", !.left = 0]
    <3>1. rec \in Clients /\ rec.sock \in Sockets
      BY <1>2, <2>2 DEF Clients, Stages
    <3>2. client' = [client EXCEPT ![h] = rec]
      BY <1>2, <2>3
    <3> QED
      BY <1>4, <1>5, <2>2, <2>3, <3>1, <3>2 DEF ChannelInv, TypeOK
  <2>4. CASE client' = [client EXCEPT ![h].stage = "watch", ![h].sock = NoSocket,
                                      ![h].left = WatchRounds, ![h].since = r.era]
             /\ toHost' = {q \in toHost : q.to # r.to}
    <3> DEFINE rec == [client[h] EXCEPT !.stage = "watch", !.sock = NoSocket,
                                        !.left = WatchRounds, !.since = r.era]
    <3>1. rec \in Clients /\ rec.stage = "watch"
      BY <1>2, <1>7, ClientAssumption DEF Clients, Stages
    <3>2. client' = [client EXCEPT ![h] = rec]
      BY <1>2, <2>4
    <3> QED
      BY <1>4, <1>5, <2>2, <2>4, <3>1, <3>2 DEF ChannelInv, TypeOK
  <2> QED
    BY <1>5, <1>6, <2>1, <2>2, <2>3, <2>4 DEF ChannelInv, TypeOK
<1>10. CASE SendsAgain(h)
  <2> DEFINE rec == [client[h] EXCEPT !.left = @ - 1]
  <2>1. client[h].sock \in Sockets
    BY <1>10 DEF SendsAgain, ChannelInv, WaitsOnSocket
  <2>2. rec \in Clients /\ rec.sock = client[h].sock
    BY <1>2, <1>10 DEF SendsAgain, Clients
  <2>3. client' = [client EXCEPT ![h] = rec]
    BY <1>2, <1>10 DEF SendsAgain
  <2>4. toBoard' \subseteq Sockets /\ toHost' = toHost
    BY <1>10, <2>1 DEF SendsAgain, ChannelInv, TypeOK
  <2> QED
    BY <1>4, <1>5, <2>1, <2>2, <2>3, <2>4
<1>11. CASE GivesUp(h) \/ ReadsResult(h) \/ StopsWatching(h)
  BY <1>5, <1>6, <1>11 DEF GivesUp, ReadsResult, StopsWatching, ChannelInv, TypeOK
<1>12. CASE PingFails(h) \/ StillUp(h)
  <2>1. PICK b \in BOOLEAN :
          client' = [client EXCEPT ![h] = [client[h] EXCEPT !.left = @ - 1, !.down = b]]
    <3>1. CASE PingFails(h)
      BY <1>2, <3>1 DEF PingFails, Clients
    <3>2. CASE StillUp(h)
      BY <1>2, <3>2 DEF StillUp, Clients
    <3> QED
      BY <1>12, <3>1, <3>2
  <2> DEFINE rec == [client[h] EXCEPT !.left = @ - 1, !.down = b]
  <2>2. client[h].left > 0 /\ client[h].stage = "watch"
        /\ UNCHANGED <<toBoard, toHost>>
    BY <1>12 DEF PingFails, StillUp
  <2> DEFINE left == client[h].left - 1
  <2>3. left \in Nat
    BY <1>2, <2>2 DEF Clients
  <2> HIDE DEF left
  <2>4. rec = [client[h] EXCEPT !.left = left, !.down = b]
    BY <1>2 DEF left, Clients
  <2>5. rec \in Clients /\ rec.stage = "watch"
    BY <1>2, <2>2, <2>3, <2>4 DEF Clients
  <2> QED
    BY <1>4, <1>5, <2>1, <2>2, <2>5 DEF ChannelInv, TypeOK
<1>13. CASE Probes(h)
  <2> DEFINE s == Opened(h, "STATUS")
  <2> DEFINE rec == [client[h] EXCEPT !.stage = "probe", !.sock = s, !.opens = s.n,
                                      !.left = @ - 1]
  <2>1. s \in Sockets /\ s.n \in 0 .. MaxOpens
    BY <1>3, <1>13, ClientAssumption DEF Probes
  <2>2. client' = [client EXCEPT ![h] = rec] /\ client[h].left > 0
        /\ toBoard' = toBoard \cup {s} /\ toHost' = toHost
    BY <1>2, <1>13 DEF Probes
  <2> DEFINE n == s.n  left == client[h].left - 1
  <2>3. left \in Nat
    BY <1>2, <2>2 DEF Clients
  <2> HIDE DEF s, left
  <2>4. rec = [client[h] EXCEPT !.stage = "probe", !.sock = s, !.opens = n, !.left = left]
    BY <1>2 DEF left, Clients
  <2>5. n \in 0 .. MaxOpens
    BY <2>1
  <2> HIDE DEF n
  <2>6. rec \in Clients /\ rec.sock \in Sockets
    BY <1>2, <2>1, <2>3, <2>4, <2>5 DEF Clients, Stages
  <2> QED
    BY <1>4, <1>5, <2>1, <2>2, <2>6 DEF ChannelInv, TypeOK
<1>14. CASE ReadsProbe(h) \/ ProbeTimesOut(h)
  <2>1. toBoard' = toBoard /\ (Ends(h, "healthy") \/ BackToWatch(h))
    BY <1>14 DEF ReadsProbe, ProbeTimesOut
  <2>2. CASE BackToWatch(h)
    <3> DEFINE rec == [client[h] EXCEPT !.stage = "watch", !.sock = NoSocket]
    <3>1. rec \in Clients /\ rec.stage = "watch"
      BY <1>2 DEF Clients, Stages
    <3>2. client' = [client EXCEPT ![h] = rec] /\ toHost' \subseteq toHost
      BY <1>2, <2>2 DEF BackToWatch
    <3> QED
      BY <1>4, <1>5, <2>1, <3>1, <3>2 DEF ChannelInv, TypeOK
  <2> QED
    BY <1>5, <1>6, <2>1, <2>2 DEF ChannelInv, TypeOK
<1> QED
  BY <1>1, <1>8, <1>9, <1>10, <1>11, <1>12, <1>13, <1>14 DEF ScriptRuns

-----------------------------------------------------------------------------
(* The theorems.                                                           *)

\* The invariant of the channel holds of every behaviour.
THEOREM ChannelInvariant == Spec => []ChannelInv
<1>1. Init => ChannelInv
  BY InitChannel
<1>2. ChannelInv /\ [Next]_vars => ChannelInv'
  <2> SUFFICES ASSUME ChannelInv, [Next]_vars PROVE ChannelInv'
    OBVIOUS
  <2>1. CASE UNCHANGED vars
    BY <2>1 DEF vars, wire, board, statics, loop, boot, ghosts, ChannelInv, TypeOK,
       WaitsOnSocket, BusyWhileRunning, PendingHasPeer, RunningHasPeer, AnswersMatch, Running
  <2>2. CASE Next
    BY <2>2, WireStep, DeliverStep, LoopStep, HandlerStep, ResetStep, HostStep
    DEF Next, BoardRuns, Environment
  <2> QED
    BY <2>1, <2>2
<1> QED
  BY <1>1, <1>2, PTL DEF Spec

\* Every reply of the board is about the verb that was asked from the socket
\* it goes to.
THEOREM RepliesMatchRequests == Spec => []AnswersMatch
<1>1. ChannelInv => AnswersMatch
  BY DEF ChannelInv
<1> QED
  BY <1>1, ChannelInvariant, PTL

\* A verb that waits or runs keeps the requester that sent it.
THEOREM RequesterIsKept == Spec => []PendingHasPeer /\ []RunningHasPeer
<1>1. ChannelInv => PendingHasPeer /\ RunningHasPeer
  BY DEF ChannelInv
<1> QED
  BY <1>1, ChannelInvariant, PTL

\* From the moment a verb is taken until it is done nobody replaces its
\* requester: the callback refuses while busy, and the menu is not read.
THEOREM VerbKeepsItsRequester == Spec => VerbKeepsRequester
<1> DEFINE Kept == busy /\ busy' => UNCHANGED <<hasPeer, peer>>
<1>1. ChannelInv /\ [Next]_vars => [Kept]_vars
  <2> SUFFICES ASSUME ChannelInv, Next, busy, busy' PROVE UNCHANGED <<hasPeer, peer>>
    OBVIOUS
  <2> USE DEF wire, board, statics, loop, boot, ghosts
  <2>1. CASE Wire
    BY <2>1 DEF Wire, Vanish, Arrive
  <2>2. CASE BoardRuns
    <3>1. CASE Deliver
      BY <3>1 DEF Deliver, RecvCb
    <3>2. CASE \/ DoStatus \/ Refuses \/ StartsUpdate \/ EndsUpdate \/ Commits \/ Committed
               \/ StartsReset
      BY <3>2 DEF DoStatus, Refuses, StartsUpdate, EndsUpdate, Commits, Committed,
                  StartsReset, Answers
    <3>3. CASE PumpIdle \/ TakePending \/ NothingPending \/ NoVerbKey \/ Boots
      BY <3>3 DEF PumpIdle, TakePending, NothingPending, NoVerbKey, Boots
    <3>4. CASE Done \/ VerbResets
      BY <3>4 DEF Done, VerbResets, Reset
    <3> QED
      BY <2>2, <3>1, <3>2, <3>3, <3>4 DEF BoardRuns
  <2>3. CASE Environment
    BY <2>3 DEF Environment, MenuKey, OtherReset, Reset, ChannelInv, BusyWhileRunning, Running
  <2>4. CASE Hosts
    BY <2>4, HostsLeaveBoard
  <2> QED
    BY <2>1, <2>2, <2>3, <2>4 DEF Next
<1> QED
  BY <1>1, ChannelInvariant, PTL DEF Spec, VerbKeepsRequester

=============================================================================
