----------------------------- MODULE CtrlClient -----------------------------
(***************************************************************************)
(* host/ctrl.sh on each operator's host: one request, its answer, and      *)
(* after a verb that resets the board the wait for it to come back.        *)
(* dd reads one datagram from a connected socket, so only what the board   *)
(* sent to the script's current socket is seen.                            *)
(***************************************************************************)
EXTENDS CtrlWire

CONSTANTS
  StatusTries,   \* STATUS_TRIES of a STATUS
  WatchRounds    \* rounds of reboot_wait's loop before its deadline

ASSUME ClientAssumption ==
  /\ StatusTries \in Nat \ {0}
  /\ WatchRounds \in Nat
  /\ "STATUS" \in Texts

\* Where the script stands.  "healthy" is the message that the link is
\* healthy, "ended" every other exit.
Stages == {"idle", "ack", "result", "watch", "probe", "healthy", "ended"}

\* `opens' counts the sockets opened, `left' the tries or rounds that remain,
\* `down' is reboot_wait's, `since' the era of the first line read.
Clients == [stage : Stages, sock : Sockets \cup {NoSocket}, opens : 0 .. MaxOpens,
            left : Nat, down : BOOLEAN, since : 0 .. MaxEras]

ClientInit ==
  /\ toBoard = {} /\ toHost = {} /\ copies = 0
  /\ client = [h \in Operators |->
       [stage |-> "idle", sock |-> NoSocket, opens |-> 0, left |-> 0,
        down |-> FALSE, since |-> 0]]

Opened(h, text) == [op |-> h, n |-> client[h].opens + 1, text |-> text]

\* Leaves everything of the board alone.
Script == UNCHANGED <<copies, board>>

\* STATUS_TRIES.  Its mutated form retries every verb.
TriesForAny(text) == StatusTries

TriesFor(text) == IF text = "STATUS" THEN StatusTries ELSE 1

\* Opens the socket and sends the verb.
Start(h, text) ==
  /\ client[h].stage \in {"idle", "ended", "healthy"}
  /\ client[h].opens < MaxOpens
  /\ LET s == Opened(h, text) IN
       /\ client' = [client EXCEPT ![h] =
            [stage |-> "ack", sock |-> s, opens |-> s.n, left |-> TriesFor(text) - 1,
             down |-> FALSE, since |-> 0]]
       /\ toBoard' = toBoard \cup {s}
  /\ UNCHANGED toHost
  /\ Script

\* Where the script goes with the first line it read.
AfterAck(r) ==
  IF r.to.text = "UPDATE" /\ r.kind = "started" THEN "result"
  ELSE IF r.to.text \in {"SWITCH", "GOLDEN"} /\ r.kind = "going" THEN "watch"
  ELSE "ended"

\* The script stops: its socket closes, and what was under way to it is lost.
Ends(h, stage) ==
  /\ client' = [client EXCEPT ![h] =
       [stage |-> stage, sock |-> NoSocket, opens |-> @.opens, left |-> 0,
        down |-> FALSE, since |-> 0]]
  /\ toHost' = {r \in toHost : r.to # client[h].sock}

ReadsAck(h) ==
  /\ client[h].stage = "ack"
  /\ \E r \in toHost :
       /\ r.to = client[h].sock
       /\ \/ AfterAck(r) = "ended" /\ Ends(h, "ended")
          \/ /\ AfterAck(r) = "result"
             /\ client' = [client EXCEPT ![h].stage = "result", ![h].left = 0]
             /\ toHost' = toHost \ {r}
          \/ /\ AfterAck(r) = "watch"
             /\ client' = [client EXCEPT
                  ![h].stage = "watch", ![h].sock = NoSocket,
                  ![h].left = WatchRounds, ![h].since = r.era]
             /\ toHost' = {q \in toHost : q.to # r.to}
  /\ UNCHANGED toBoard
  /\ Script

\* Mutated form of SendsAgain: tries are never counted.
SendsAgainForever(h) ==
  /\ client[h].stage = "ack"
  /\ toBoard' = toBoard \cup {client[h].sock}
  /\ UNCHANGED <<toHost, client>>
  /\ Script

\* No reply within ACK_WAIT: once more, or give up.
SendsAgain(h) ==
  /\ client[h].stage = "ack" /\ client[h].left > 0
  /\ client' = [client EXCEPT ![h].left = @ - 1]
  /\ toBoard' = toBoard \cup {client[h].sock}
  /\ UNCHANGED toHost
  /\ Script

GivesUp(h) ==
  /\ client[h].stage = "ack" /\ client[h].left = 0
  /\ Ends(h, "ended")
  /\ UNCHANGED toBoard
  /\ Script

\* The second line of an UPDATE, or RESULT_WAIT runs out.
ReadsResult(h) ==
  /\ client[h].stage = "result"
  /\ Ends(h, "ended")
  /\ UNCHANGED toBoard
  /\ Script

-----------------------------------------------------------------------------
(* reboot_wait.                                                            *)

\* A round in which the ping goes unanswered.  Any ping may be lost.
PingFails(h) ==
  /\ client[h].stage = "watch" /\ client[h].left > 0
  /\ client' = [client EXCEPT ![h].left = @ - 1, ![h].down = TRUE]
  /\ UNCHANGED <<toBoard, toHost>>
  /\ Script

\* A round in which it is answered before the board was seen to go down.
StillUp(h) ==
  /\ client[h].stage = "watch" /\ client[h].left > 0
  /\ pc # "boot" /\ ~client[h].down
  /\ client' = [client EXCEPT ![h].left = @ - 1]
  /\ UNCHANGED <<toBoard, toHost>>
  /\ Script

\* A round in which it is answered after that: STATUS on a new socket.
Probes(h) ==
  /\ client[h].stage = "watch" /\ client[h].left > 0
  /\ pc # "boot" /\ client[h].down
  /\ client[h].opens < MaxOpens
  /\ LET s == Opened(h, "STATUS") IN
       /\ client' = [client EXCEPT
            ![h].stage = "probe", ![h].sock = s, ![h].opens = s.n, ![h].left = @ - 1]
       /\ toBoard' = toBoard \cup {s}
  /\ UNCHANGED toHost
  /\ Script

\* Only an OK STATUS counts as healthy.
AfterProbe(r) == IF r.kind = "report" THEN "healthy" ELSE "watch"

BackToWatch(h) ==
  /\ client' = [client EXCEPT ![h].stage = "watch", ![h].sock = NoSocket]
  /\ toHost' = {r \in toHost : r.to # client[h].sock}

ReadsProbe(h) ==
  /\ client[h].stage = "probe"
  /\ \E r \in toHost :
       /\ r.to = client[h].sock
       /\ \/ AfterProbe(r) = "healthy" /\ Ends(h, "healthy")
          \/ AfterProbe(r) = "watch" /\ BackToWatch(h)
  /\ UNCHANGED toBoard
  /\ Script

ProbeTimesOut(h) ==
  /\ client[h].stage = "probe"
  /\ BackToWatch(h)
  /\ UNCHANGED toBoard
  /\ Script

\* The deadline, or --no-wait.
StopsWatching(h) ==
  /\ client[h].stage = "watch"
  /\ Ends(h, "ended")
  /\ UNCHANGED toBoard
  /\ Script

\* What a script in progress does next.
ScriptRuns(h) ==
  \/ ReadsAck(h) \/ SendsAgain(h) \/ GivesUp(h) \/ ReadsResult(h)
  \/ PingFails(h) \/ StillUp(h) \/ Probes(h) \/ ReadsProbe(h) \/ ProbeTimesOut(h)
  \/ StopsWatching(h)
=============================================================================
