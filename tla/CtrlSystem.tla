----------------------------- MODULE CtrlSystem -----------------------------
(***************************************************************************)
(* The control channel end to end: scripts on several hosts, a lossy wire, *)
(* the board's one thread, its serial menu and its resets.                 *)
(***************************************************************************)
EXTENDS CtrlChannel, CtrlClient

Init == BoardInit /\ ClientInit

Hosts == \E h \in Operators : ScriptRuns(h) \/ \E text \in Texts : Start(h, text)

Next == Wire \/ BoardRuns \/ Environment \/ Hosts

Spec == Init /\ [][Next]_vars

\* The processor keeps running the one thread, and a script in progress goes
\* on to its next datagram or its next timeout.  Nothing is assumed of the
\* wire, of the operators or of the resets.
FairSpec ==
  /\ Spec
  /\ WF_vars(BoardRuns)
  /\ \A h \in Operators : WF_vars(ScriptRuns(h))

-----------------------------------------------------------------------------

\* The types of the two ends and of the wire.
TypeOK ==
  /\ toBoard \subseteq Sockets
  /\ toHost \subseteq Replies
  /\ copies \in 0 .. MaxCopies
  /\ ring \in Seq([from : Sockets, during : Labels])
  /\ pending \in Verbs \cup {None}
  /\ busy \in BOOLEAN
  /\ hasPeer \in BOOLEAN
  /\ peer \in Sockets \cup {NoSocket}
  /\ role \in Roles
  /\ pc \in Labels
  /\ verb \in Verbs \cup {None}
  /\ origin \in {"wire", "menu"}
  /\ era \in 0 .. MaxEras
  /\ ran \subseteq Sockets
  /\ reruns \in Nat
  /\ client \in [Operators -> Clients]

\* Where a verb is running.
Running == pc \in {"dispatch", "pipeline", "commit", "drain", "done"}

\* ctrl_busy is raised exactly while the main loop runs a verb: from
\* ctrl_take_pending or ctrl_begin_local until ctrl_done.
BusyWhileRunning == busy <=> Running

\* A recorded verb has its requester beside it until it is taken, and no verb
\* is recorded while another runs: the callback's test of both flags, and
\* serve() looking at the wire before the console, keep ctrl_begin_local from
\* ever taking the requester away from a verb that waits.
PendingHasPeer ==
  pending # None =>
    /\ ~busy /\ hasPeer /\ pc \in {"pump", "take"}
    /\ peer \in Sockets /\ peer.text = pending

\* The verb that runs for the wire still has the requester that sent it; one
\* that runs for the menu has none.
RunningHasPeer ==
  Running =>
    /\ verb \in Verbs
    /\ hasPeer <=> origin = "wire"
    /\ hasPeer => peer \in Sockets /\ peer.text = verb

\* Every reply on the wire is about the verb that was asked from the socket
\* it goes to.  It would fail if a request that arrives during a verb replaced
\* the requester of the verb that runs, or if a verb of the serial menu were
\* answered to whoever asked last.
AnswersMatch == \A r \in toHost : r.verb = r.to.text

\* A script that waits for a line has the socket it sent its request from.
WaitsOnSocket ==
  \A h \in Operators :
    client[h].stage \in {"ack", "result", "probe"} => client[h].sock \in Sockets

\* The inductive invariant behind them.
ChannelInv ==
  /\ TypeOK
  /\ WaitsOnSocket
  /\ BusyWhileRunning
  /\ PendingHasPeer
  /\ RunningHasPeer
  /\ AnswersMatch

\* The board starts a verb of ctrl.sh other than STATUS again only if the
\* wire delivered its one datagram twice: nothing is retried that must not
\* be, and nothing that is taken stays recorded.
OneShotVerbsRunOnce == reruns <= copies

\* Every socket the board has heard of was opened by its host before.
Known ==
  toBoard \cup ran \cup {r.to : r \in toHost} \cup {ring[i].from : i \in DOMAIN ring}
    \cup ({peer} \ {NoSocket})

OpenedInv ==
  /\ \A s \in Known : s.n <= client[s.op].opens
  /\ \A h \in Operators : client[h].stage \in {"ack", "result", "probe"} =>
       client[h].sock.op = h /\ client[h].sock.n <= client[h].opens
  /\ \A h \in Operators : client[h].stage = "ack" /\ client[h].left > 0 =>
       client[h].sock.text = "STATUS"

\* Where the requests that ctrl.sh sends once are: on the wire, in the ring,
\* recorded, started.
OneShots(sockets) == {s \in sockets : s.text # "STATUS"}
Queued == {i \in DOMAIN ring : ring[i].from.text # "STATUS"}
Waiting == IF pending \in {None, "STATUS"} THEN {} ELSE {peer}
Held == OneShots(toBoard) \cup {ring[i].from : i \in Queued} \cup Waiting \cup ran

Datagrams ==
  Cardinality(OneShots(toBoard)) + Cardinality(Queued) + Cardinality(Waiting)
    + Cardinality(ran) + reruns

Allowance == Cardinality(Held) + copies

\* There is one datagram of each such request, but for the wire's copies.
SurplusInv ==
  /\ IsFiniteSet(toBoard) /\ IsFiniteSet(ran)
  /\ Datagrams <= Allowance

\* The boot that said OK to a reset drains until it is gone, so whatever
\* reports after that is a later boot.
RebootInv ==
  /\ \A r \in toHost : r.era <= era /\ (r.kind = "going" => r.era < era \/ pc = "drain")
  /\ \A h \in Operators : client[h].stage \in {"watch", "probe"} =>
       /\ client[h].since <= era /\ (client[h].since < era \/ pc = "drain")
       /\ client[h].stage = "probe" =>
            \A r \in toHost :
              r.to = client[h].sock /\ r.kind = "report" => r.era > client[h].since

\* From ctrl_take_pending or ctrl_begin_local to ctrl_done the requester
\* stays who it was, whatever arrives in between.
VerbKeepsRequester == [][busy /\ busy' => UNCHANGED <<hasPeer, peer>>]_vars

\* When ctrl.sh reports the link healthy after SWITCH or GOLDEN, the STATUS
\* it goes by was answered after the reset, even if its pings were merely
\* lost: the boot that said OK answers ERR busy until it is gone.
HealthyMeansRebooted ==
  [][\A h \in Operators :
       client[h].stage = "probe" /\ client'[h].stage = "healthy" =>
         \E r \in toHost \ toHost' : r.to = client[h].sock /\ r.era > client[h].since]_vars

\* Every verb the board starts ends, in ctrl_done or in a reset.
VerbsEnd == busy ~> ~busy

\* Every run of ctrl.sh ends, whatever the wire loses.
ScriptsEnd ==
  \A h \in Operators : client[h].stage = "ack" ~> client[h].stage \in {"ended", "healthy"}

\* icd_control_channel.org:340 and :364, ctrl_channel.h:78-81: a command that
\* arrives while a verb runs, in the middle of a flash erase too, is answered
\* ERR busy by the callback and never queued.  So no verb is recorded from a
\* datagram that reached the MAC while the record of an UPDATE was written.
NeverQueued ==
  [][pending = None /\ pending' # None => Head(ring).during # "commit"]_vars
=============================================================================
