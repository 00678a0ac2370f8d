------------------------- MODULE AgentServer_proof -------------------------
(***************************************************************************)
(* The agent's session stays consistent, the extension records for the     *)
(* started client only, and events carry the process id that client was    *)
(* told of: for any number of connections, any messages and any limits.    *)
(* AgentClients keep within that environment, and an Ok that start()       *)
(* returns is the agent's answer to the Start of that call.                *)
(***************************************************************************)
EXTENDS AgentSystem, SequenceTheorems, WellFoundedInduction, TLAPS

-----------------------------------------------------------------------------
(* The inductive invariant.                                                 *)

SessionTypeOK ==
    /\ conn \in [Conns -> {"unused", "backlog", "Pending", "Started", "closed"}]
    /\ startedClient \in Conns \cup {None} /\ recording \in Conns \cup {None}
    /\ anotherStarted \in BOOLEAN /\ extActive \in BOOLEAN /\ running \in BOOLEAN
    /\ announced \in [Conns -> {"none", "own", "random"}]
    /\ processId \in {"own", "random"}
    /\ backlog \in Seq(Conns)

\* Whoever waits to be accepted waits once, and has no entry yet.
BacklogInv ==
    /\ \A k \in 1..Len(backlog) : conn[backlog[k]] = "backlog"
    /\ \A k, l \in 1..Len(backlog) : backlog[k] = backlog[l] => k = l

SInv == SessionTypeOK /\ BacklogInv /\ SessionConsistent /\ RecordingFollowsSession
        /\ PidAnnounced

sessionVars == <<conn, startedClient, anotherStarted, extActive, recording, processId,
                 announced, running, backlog>>

\* Steps that leave the session alone.
LEMMA SameSession == ASSUME SInv, UNCHANGED sessionVars PROVE SInv'
<1>1. SessionTypeOK'  BY DEF SInv, SessionTypeOK, sessionVars
<1>2. BacklogInv'  BY DEF SInv, BacklogInv, sessionVars
<1>3. SessionConsistent' /\ RecordingFollowsSession' /\ PidAnnounced'
  BY DEF SInv, SessionConsistent, RecordingFollowsSession, PidAnnounced, sessionVars
<1>4. QED  BY <1>1, <1>2, <1>3 DEF SInv

\* A registered connection does not wait in the backlog.
LEMMA KeepBacklog ==
    ASSUME SInv, backlog' = backlog,
           \A i \in Conns : conn[i] = "backlog" => conn'[i] = "backlog"
    PROVE  BacklogInv'
<1>1. backlog \in Seq(Conns)  BY DEF SInv, SessionTypeOK
<1>2. \A k \in 1..Len(backlog) : backlog[k] \in Conns  BY <1>1
<1>3. QED  BY <1>2 DEF SInv, BacklogInv

-----------------------------------------------------------------------------
(* The ways a session ends and begins.                                      *)

LEMMA DisconnectKeeps ==
    ASSUME SInv, running, NEW i \in Conns, Registered(i), HandleDisconnect(i),
           UNCHANGED <<processId, announced, running, backlog>>
    PROVE  SInv'
<1>1. SessionTypeOK  BY DEF SInv
<1>2. conn' = [conn EXCEPT ![i] = "closed"]  BY DEF HandleDisconnect
<1>3. conn'[i] = "closed" /\ \A j \in Conns : j # i => conn'[j] = conn[j]
  BY <1>1, <1>2 DEF SessionTypeOK
<1>4. /\ \A j \in Conns : conn[j] = "Started" <=> startedClient = j
      /\ anotherStarted <=> startedClient # None
      /\ extActive <=> (HasExtension /\ startedClient # None)
      /\ recording = IF HasExtension THEN startedClient ELSE None
      /\ startedClient # None => announced[startedClient] = processId
  BY DEF SInv, SessionConsistent, RecordingFollowsSession, PidAnnounced
<1>5. None \notin Conns /\ HasExtension \in BOOLEAN  BY ServerAssumption
<1>6. CASE startedClient = i
  <2>1. /\ recording' = IF extActive THEN None ELSE recording
        /\ extActive' = FALSE /\ anotherStarted' = FALSE /\ startedClient' = None
    BY <1>6 DEF HandleDisconnect
  <2>2. SessionTypeOK'  BY <1>1, <1>2, <2>1 DEF SessionTypeOK
  <2>3. SessionConsistent' /\ PidAnnounced'
    BY <1>3, <1>4, <1>5, <1>6, <2>1 DEF SessionConsistent, PidAnnounced
  <2>4. RecordingFollowsSession'
    BY <1>4, <1>5, <1>6, <2>1 DEF RecordingFollowsSession
  <2>5. BacklogInv'  BY <1>3, KeepBacklog DEF Registered
  <2>6. QED  BY <2>2, <2>3, <2>4, <2>5 DEF SInv
<1>7. CASE startedClient # i
  <2>1. UNCHANGED <<recording, extActive, anotherStarted, startedClient>>
    BY <1>7 DEF HandleDisconnect
  <2>2. SessionTypeOK'  BY <1>1, <1>2, <2>1 DEF SessionTypeOK
  <2>3. SessionConsistent' /\ PidAnnounced' /\ RecordingFollowsSession'
    BY <1>3, <1>4, <1>5, <1>7, <2>1
       DEF SessionConsistent, PidAnnounced, RecordingFollowsSession
  <2>4. BacklogInv'  BY <1>3, KeepBacklog DEF Registered
  <2>5. QED  BY <2>2, <2>3, <2>4 DEF SInv
<1>8. QED  BY <1>6, <1>7

LEMMA PidAfterType == ASSUME SInv, NEW pid PROVE PidAfter(pid) \in {"own", "random"}
<1>1. processId \in {"own", "random"}  BY DEF SInv, SessionTypeOK
<1>2. QED  BY <1>1 DEF PidAfter

LEMMA StartAcceptedKeeps ==
    ASSUME SInv, running, NEW i \in Conns, Registered(i), ~anotherStarted, NEW m,
           StartAccepted(i, m), UNCHANGED <<running, backlog>>
    PROVE  SInv'
<1>1. SessionTypeOK /\ PidAfter(m.pid) \in {"own", "random"}
  BY PidAfterType DEF SInv
<1>2. /\ processId' = PidAfter(m.pid)
      /\ announced' = [announced EXCEPT ![i] = PidAfter(m.pid)]
      /\ recording' = IF HasExtension THEN i ELSE recording
      /\ extActive' = (HasExtension \/ extActive)
      /\ anotherStarted' = TRUE /\ startedClient' = i
      /\ conn' = [conn EXCEPT ![i] = "Started"]
  BY DEF StartAccepted, Announce
<1>3. /\ conn'[i] = "Started" /\ announced'[i] = PidAfter(m.pid)
      /\ \A j \in Conns : j # i => conn'[j] = conn[j]
  BY <1>1, <1>2 DEF SessionTypeOK
<1>4. /\ startedClient = None /\ ~extActive /\ recording = None
      /\ \A j \in Conns : conn[j] # "Started"
  BY ServerAssumption DEF SInv, SessionConsistent, RecordingFollowsSession, SessionTypeOK
<1>5. None \notin Conns /\ HasExtension \in BOOLEAN  BY ServerAssumption
<1>6. SessionTypeOK'  BY <1>1, <1>2, <1>5 DEF SessionTypeOK
<1>7. SessionConsistent'
  BY <1>2, <1>3, <1>4, <1>5 DEF SessionConsistent
<1>8. RecordingFollowsSession' /\ PidAnnounced'
  BY <1>2, <1>3, <1>4, <1>5 DEF RecordingFollowsSession, PidAnnounced
<1>9. BacklogInv'  BY <1>3, KeepBacklog DEF Registered
<1>10. QED  BY <1>6, <1>7, <1>8, <1>9 DEF SInv

\* A refused filter has changed the process id, but nobody is started then.
LEMMA StartBadFilterKeeps ==
    ASSUME SInv, running, NEW i \in Conns, ~anotherStarted, NEW m,
           StartBadFilter(i, m), UNCHANGED <<running, backlog>>
    PROVE  SInv'
<1>1. SessionTypeOK /\ PidAfter(m.pid) \in {"own", "random"}
  BY PidAfterType DEF SInv
<1>2. /\ processId' = PidAfter(m.pid)
      /\ announced' = [announced EXCEPT ![i] = PidAfter(m.pid)]
      /\ UNCHANGED <<conn, startedClient, anotherStarted, extActive, recording>>
  BY DEF StartBadFilter, Announce
<1>3. startedClient = None  BY DEF SInv, SessionConsistent
<1>4. SessionTypeOK'  BY <1>1, <1>2 DEF SessionTypeOK
<1>5. SessionConsistent' /\ RecordingFollowsSession' /\ PidAnnounced'
  BY <1>2, <1>3 DEF SInv, SessionConsistent, RecordingFollowsSession, PidAnnounced
<1>6. BacklogInv'  BY <1>2, KeepBacklog
<1>7. QED  BY <1>4, <1>5, <1>6 DEF SInv

LEMMA HandleStartKeeps ==
    ASSUME SInv, running, NEW i \in Conns, Registered(i), NEW m,
           HandleStart(i, m), UNCHANGED <<running, backlog>>
    PROVE  SInv'
<1> DEFINE refused == anotherStarted \/ m.kind \in {"noargs", "badfds"}
<1>1. CASE refused
  <2>1. StartRefused(i)  BY <1>1 DEF HandleStart
  <2>2. QED  BY <2>1, SameSession DEF StartRefused, agentVars, sessionVars
<1>2. CASE ~refused /\ m.kind = "badring"
  <2>1. StartBadRing(i)  BY <1>2 DEF HandleStart
  <2>2. QED  BY <2>1, DisconnectKeeps DEF StartBadRing
<1>3. CASE ~refused /\ m.kind = "badfilter" /\ HasExtension
  <2>1. StartBadFilter(i, m)  BY <1>3 DEF HandleStart
  <2>2. QED  BY <1>3, <2>1, StartBadFilterKeeps
<1>4. CASE ~refused /\ m.kind # "badring" /\ ~(m.kind = "badfilter" /\ HasExtension)
  <2>1. StartAccepted(i, m)  BY <1>4 DEF HandleStart
  <2>2. QED  BY <1>4, <2>1, StartAcceptedKeeps
<1>5. QED  BY <1>1, <1>2, <1>3, <1>4

LEMMA HandleMessageKeeps ==
    ASSUME SInv, running, NEW i \in Conns, Registered(i), NEW m,
           HandleMessage(i, m), UNCHANGED <<running, backlog>>
    PROVE  SInv'
<1>1. CASE HandleVersion(i)  BY <1>1, SameSession DEF HandleVersion, agentVars, sessionVars
<1>2. CASE HandleStart(i, m)  BY <1>2, HandleStartKeeps
<1>3. CASE HandleStop(i)  BY <1>3, DisconnectKeeps DEF HandleStop
<1>4. CASE HandleContinue(i)  BY <1>4, SameSession DEF HandleContinue, sessionVars
<1>5. CASE Ignore  BY <1>5, SameSession DEF Ignore, agentVars, sessionVars
<1>6. QED  BY <1>1, <1>2, <1>3, <1>4, <1>5 DEF HandleMessage

-----------------------------------------------------------------------------
(* The event loop.                                                          *)

LEMMA ConnectKeeps == ASSUME SInv, NEW i \in Conns, Connect(i) PROVE SInv'
<1>1. SessionTypeOK /\ backlog \in Seq(Conns)  BY DEF SInv, SessionTypeOK
<1>2. /\ conn[i] = "unused" /\ conn' = [conn EXCEPT ![i] = "backlog"]
      /\ backlog' = Append(backlog, i)
      /\ UNCHANGED <<startedClient, anotherStarted, extActive, recording, processId,
                     announced, running>>
  BY DEF Connect
<1>3. conn'[i] = "backlog" /\ \A j \in Conns : j # i => conn'[j] = conn[j]
  BY <1>1, <1>2 DEF SessionTypeOK
<1>4. /\ Len(backlog') = Len(backlog) + 1 /\ Len(backlog) \in Nat
      /\ backlog'[Len(backlog) + 1] = i
      /\ \A k \in 1..Len(backlog) : backlog'[k] = backlog[k] /\ backlog[k] \in Conns
  BY <1>1, <1>2
<1>5. \A k \in 1..Len(backlog) : conn[backlog[k]] = "backlog" /\ backlog[k] # i
  BY <1>2 DEF SInv, BacklogInv
<1>6. SessionTypeOK'  BY <1>1, <1>2 DEF SessionTypeOK
<1>7. BacklogInv'
  <2>1. \A k \in 1..(Len(backlog) + 1) : k \in 1..Len(backlog) \/ k = Len(backlog) + 1
    BY <1>4
  <2>2. \A k \in 1..Len(backlog') : conn'[backlog'[k]] = "backlog"
    BY <1>3, <1>4, <1>5, <2>1
  <2>3. \A k, l \in 1..Len(backlog') : backlog'[k] = backlog'[l] => k = l
    BY <1>4, <1>5, <2>1 DEF SInv, BacklogInv
  <2>4. QED  BY <2>2, <2>3 DEF BacklogInv
<1>8. SessionConsistent' /\ RecordingFollowsSession' /\ PidAnnounced'
  BY <1>2, <1>3 DEF SInv, SessionConsistent, RecordingFollowsSession, PidAnnounced
<1>9. QED  BY <1>6, <1>7, <1>8 DEF SInv

LEMMA AcceptKeeps == ASSUME SInv, Accept PROVE SInv'
<1> DEFINE i == Head(backlog)
<1>1. SessionTypeOK /\ backlog \in Seq(Conns)  BY DEF SInv, SessionTypeOK
<1>2. /\ backlog # <<>> /\ backlog' = Tail(backlog)
      /\ conn' = [conn EXCEPT ![i] = "Pending"]
      /\ UNCHANGED <<startedClient, anotherStarted, extActive, recording, processId,
                     announced, running>>
  BY DEF Accept
<1>3. /\ i = backlog[1] /\ i \in Conns /\ Len(backlog) \in Nat /\ 1 \in 1..Len(backlog)
      /\ backlog' \in Seq(Conns) /\ Len(backlog') = Len(backlog) - 1
      /\ \A k \in 1..Len(backlog') :
            backlog'[k] = backlog[k + 1] /\ k + 1 \in 1..Len(backlog)
  BY <1>1, <1>2
<1>4. conn[i] = "backlog"  BY <1>3 DEF SInv, BacklogInv
<1>5. conn'[i] = "Pending" /\ \A j \in Conns : j # i => conn'[j] = conn[j]
  BY <1>1, <1>2, <1>3 DEF SessionTypeOK
<1>6. SessionTypeOK'  BY <1>1, <1>2, <1>3 DEF SessionTypeOK
<1> HIDE DEF i
<1>7. BacklogInv'
  <2>1. \A k \in 1..Len(backlog') : backlog'[k] # i /\ backlog'[k] \in Conns
    BY <1>1, <1>3 DEF SInv, BacklogInv
  <2>2. \A k \in 1..Len(backlog') : conn'[backlog'[k]] = "backlog"
    BY <1>3, <1>5, <2>1 DEF SInv, BacklogInv
  <2>3. \A k, l \in 1..Len(backlog') : backlog'[k] = backlog'[l] => k = l
    BY <1>3, SMTT(60) DEF SInv, BacklogInv
  <2>4. QED  BY <2>2, <2>3 DEF BacklogInv
<1>8. SessionConsistent' /\ RecordingFollowsSession' /\ PidAnnounced'
  BY <1>2, <1>3, <1>4, <1>5 DEF SInv, SessionConsistent, RecordingFollowsSession, PidAnnounced
<1>9. QED  BY <1>6, <1>7, <1>8 DEF SInv

LEMMA TimerKeeps == ASSUME SInv, Timer PROVE SInv'
<1> DEFINE expired == {i \in Conns : Registered(i) /\ ~fresh[i]}
<1>1. SessionTypeOK /\ running  BY DEF SInv, Timer
<1>2. /\ conn' = [i \in Conns |-> IF i \in expired THEN "closed" ELSE conn[i]]
      /\ UNCHANGED <<processId, announced, running, backlog>>
  BY DEF Timer
<1>3. /\ startedClient \in expired =>
            /\ recording' = IF extActive THEN None ELSE recording
            /\ extActive' = FALSE /\ startedClient' = None /\ anotherStarted' = FALSE
      /\ startedClient \notin expired =>
            UNCHANGED <<recording, extActive, startedClient, anotherStarted>>
  BY DEF Timer
<1>4. \A i \in expired : i \in Conns /\ Registered(i)  OBVIOUS
<1> HIDE DEF expired
<1>5. \A i \in Conns : conn'[i] = IF i \in expired THEN "closed" ELSE conn[i]  BY <1>2
<1>6. /\ \A j \in Conns : conn[j] = "Started" <=> startedClient = j
      /\ anotherStarted <=> startedClient # None
      /\ extActive <=> (HasExtension /\ startedClient # None)
      /\ recording = IF HasExtension THEN startedClient ELSE None
      /\ startedClient # None => announced[startedClient] = processId
  BY <1>1 DEF SInv, SessionConsistent, RecordingFollowsSession, PidAnnounced
<1>7. None \notin Conns /\ HasExtension \in BOOLEAN  BY ServerAssumption
<1>8. SessionTypeOK'
  <2>1. conn' \in [Conns -> {"unused", "backlog", "Pending", "Started", "closed"}]
    BY <1>1, <1>2 DEF SessionTypeOK
  <2>2. QED  BY <1>1, <1>2, <1>3, <2>1 DEF SessionTypeOK
<1>9. BacklogInv'  BY <1>2, <1>4, <1>5, KeepBacklog DEF Registered
<1>10. CASE startedClient \in expired
  <2>1. SessionConsistent' /\ RecordingFollowsSession' /\ PidAnnounced'
    BY <1>3, <1>4, <1>5, <1>6, <1>7, <1>10
       DEF SessionConsistent, RecordingFollowsSession, PidAnnounced
  <2>2. QED  BY <1>8, <1>9, <2>1 DEF SInv
<1>11. CASE startedClient \notin expired
  <2>1. SessionConsistent' /\ RecordingFollowsSession' /\ PidAnnounced'
    BY <1>2, <1>3, <1>5, <1>6, <1>7, <1>11
       DEF SessionConsistent, RecordingFollowsSession, PidAnnounced
  <2>2. QED  BY <1>8, <1>9, <2>1 DEF SInv
<1>12. QED  BY <1>10, <1>11

LEMMA ShutdownKeeps == ASSUME SInv, Shutdown PROVE SInv'
<1>1. /\ running' = FALSE /\ backlog' = <<>>
      /\ conn' = [i \in Conns |-> IF Writable(i) THEN "closed" ELSE conn[i]]
      /\ UNCHANGED <<startedClient, anotherStarted, extActive, recording, processId,
                     announced>>
  BY DEF Shutdown
<1>2. SessionTypeOK'
  <2>1. conn' \in [Conns -> {"unused", "backlog", "Pending", "Started", "closed"}]
    BY <1>1 DEF SInv, SessionTypeOK
  <2>2. backlog' \in Seq(Conns)  BY <1>1
  <2>3. QED  BY <1>1, <2>1, <2>2 DEF SInv, SessionTypeOK
<1>3. BacklogInv'
  <2>1. Len(backlog') = 0 /\ 1..0 = {}  BY <1>1
  <2>2. QED  BY <2>1 DEF BacklogInv
<1>4. SessionConsistent' /\ RecordingFollowsSession' /\ PidAnnounced'
  BY <1>1 DEF SInv, SessionConsistent, RecordingFollowsSession, PidAnnounced
<1>5. QED  BY <1>2, <1>3, <1>4 DEF SInv

-----------------------------------------------------------------------------
LEMMA SessionInit == ServerInit => SInv
<1> SUFFICES ASSUME ServerInit PROVE SInv  OBVIOUS
<1>1. SessionTypeOK /\ BacklogInv
  <2>0. backlog \in Seq(Conns)  BY DEF ServerInit
  <2>1. SessionTypeOK  BY <2>0 DEF ServerInit, SessionTypeOK
  <2>2. Len(backlog) = 0 /\ 1..0 = {}  BY DEF ServerInit
  <2>3. BacklogInv  BY <2>2 DEF BacklogInv
  <2>4. QED  BY <2>1, <2>3
<1>2. SessionConsistent /\ RecordingFollowsSession /\ PidAnnounced
  BY ServerAssumption
     DEF ServerInit, SessionConsistent, RecordingFollowsSession, PidAnnounced
<1>3. QED  BY <1>1, <1>2 DEF SInv

LEMMA SessionNext == ASSUME SInv, [ServerNext]_serverVars PROVE SInv'
<1> USE DEF agentVars, sockVars
<1>1. CASE UNCHANGED serverVars  BY <1>1, SameSession DEF serverVars, sessionVars
<1>2. CASE Accept \/ Timer \/ Shutdown  BY <1>2, AcceptKeeps, TimerKeeps, ShutdownKeeps
<1>3. ASSUME NEW i \in Conns, HandleHup(i) PROVE SInv'
  BY <1>3, DisconnectKeeps DEF HandleHup
<1>4. ASSUME NEW i \in Conns, Receive(i) PROVE SInv'
  <2>1. PICK m : HandleMessage(i, m)  BY <1>4 DEF Receive
  <2>2. running /\ Registered(i) /\ UNCHANGED <<running, backlog>>  BY <1>4 DEF Receive
  <2>3. QED  BY <2>1, <2>2, HandleMessageKeeps
<1>5. ASSUME NEW i \in Conns, Connect(i) PROVE SInv'  BY <1>5, ConnectKeeps
<1>6. ASSUME NEW i \in Conns,
             HangUp(i) \/ Read(i) \/ Elapse(i) \/ \E m \in Requests : Send(i, m)
      PROVE  SInv'
  BY <1>6, SameSession DEF HangUp, Read, Elapse, Send, sessionVars
<1>7. QED  BY <1>1, <1>2, <1>3, <1>4, <1>5, <1>6 DEF ServerNext, AgentStep

LEMMA SessionInv == ServerSpec => []SInv
<1>1. SInv /\ [ServerNext]_serverVars => SInv'  BY SessionNext
<1>2. QED  BY <1>1, SessionInit, PTL DEF ServerSpec

\* While the agent runs, the fields that say who is started agree: at most one
\* connection is started, and it is the one started_client names.
THEOREM SessionCorrect == ServerSpec => []SessionConsistent
<1>1. SInv => SessionConsistent  BY DEF SInv
<1>2. QED  BY <1>1, SessionInv, PTL

\* The extension records into the started client's ring and into no other.
THEOREM RecordingCorrect == ServerSpec => []RecordingFollowsSession
<1>1. SInv => RecordingFollowsSession  BY DEF SInv
<1>2. QED  BY <1>1, SessionInv, PTL

\* Events carry the process id that the started client's ring was told of.
THEOREM PidCorrect == ServerSpec => []PidAnnounced
<1>1. SInv => PidAnnounced  BY DEF SInv
<1>2. QED  BY <1>1, SessionInv, PTL

-----------------------------------------------------------------------------
(* The agent with its clients.  What lies in the two directions of a        *)
(* client's connection depends on the step that the client is at.           *)

Steps == {"idle", "dead", "connect"} \cup Sending
         \cup {"await_version", "await_start", "await_continue", "await_stop"}

ClientTypeOK ==
    /\ stream \in [Clients -> Conns \cup {None}] /\ pc \in [Clients -> Steps]
    /\ op \in [Clients -> {"none", "start", "check_version", "continue", "stop"}]
    /\ result \in [Clients -> {"none", "ok", "err"}]
    /\ start \in [Clients -> Starts \cup {Msg("none")}]
    /\ calls \in [Clients -> Nat] /\ begun \in [Conns -> Nat]
    /\ c2s \in [Conns -> Seq(Requests)] /\ s2c \in [Conns -> Seq(Replies)]

\* No two clients share a connection, and one is not used before it is made.
StreamInv ==
    /\ \A c, d \in Clients : stream[c] # None /\ stream[c] = stream[d] => c = d
    /\ \A c \in Clients : stream[c] # None => conn[stream[c]] # "unused"
    /\ \A i \in Conns : conn[i] = "unused" => c2s[i] = <<>> /\ s2c[i] = <<>>

\* The step of a call, the call it belongs to and what that call needs.
ProgressInv(c) ==
    /\ pc[c] \notin {"idle", "dead", "connect"} => stream[c] # None
    /\ pc[c] \notin {"idle", "dead"} => result[c] = "none"
    /\ op[c] = "start" => start[c] \in Starts
    /\ pc[c] \in {"connect", "version", "await_version"} => op[c] \in {"start", "check_version"}
    /\ pc[c] \in {"start", "await_start"} => op[c] = "start"
    /\ pc[c] \in {"continue", "await_continue"} => op[c] = "continue"
    /\ pc[c] \in {"stop", "await_stop"} => op[c] = "stop"

Only(q, types) == \A n \in 1 .. Len(q) : q[n].type \in types
NotStart == {"Version", "Continue", "Stop"}
NotAck == {"Nack", "VersionResponse"}

\* Outside a start() no Start is unread; a Start is only sent once every answer
\* to what went before has been read or can be told from its own; an Ack found
\* while a Start is awaited is the answer to that Start.
Pipe(step, sent, replies, began) ==
    /\ step # "await_start" => Only(sent, NotStart)
    /\ step \in {"idle", "connect", "version", "continue", "stop"}
          => replies = <<>> \/ sent = <<>>
    /\ step = "await_version" => replies = <<>> \/ Only(sent, {"Version"})
    /\ step = "start" => Only(sent, {"Version"}) /\ Only(replies, NotAck)
    /\ step = "await_start" =>
          /\ Only(sent, {"Version", "Start"})
          /\ \A n \in 1 .. (Len(sent) - 1) : sent[n].type # "Start"
          /\ Only(replies, NotAck) \/ (sent = <<>> /\ began)

\* The session on the client's connection was begun by the call it is making.
Began(c) == begun[stream[c]] = calls[c] /\ conn[stream[c]] \in {"Started", "closed"}

PipeInv(c) ==
    stream[c] # None => Pipe(pc[c], c2s[stream[c]], s2c[stream[c]], Began(c))

ResultInv(c) ==
    op[c] = "start" /\ result[c] = "ok" /\ pc[c] # "dead" => stream[c] # None /\ Began(c)

CInv(c) == ProgressInv(c) /\ PipeInv(c) /\ ResultInv(c)

ClientInv == ClientTypeOK /\ StreamInv /\ \A c \in Clients : CInv(c)

-----------------------------------------------------------------------------
(* What lies in a connection, as messages are added and taken.              *)

LEMMA OnlyEmpty == ASSUME NEW types PROVE Only(<<>>, types)
  BY DEF Only

LEMMA OnlyAppend ==
    ASSUME NEW S, NEW q \in Seq(S), NEW m \in S, NEW types, Only(q, types), m.type \in types
    PROVE  Only(Append(q, m), types)
<1>1. /\ Len(Append(q, m)) = Len(q) + 1 /\ Len(q) \in Nat
      /\ Append(q, m)[Len(q) + 1] = m
      /\ \A n \in 1 .. Len(q) : Append(q, m)[n] = q[n]
  OBVIOUS
<1>2. \A n \in 1 .. (Len(q) + 1) : n \in 1 .. Len(q) \/ n = Len(q) + 1  BY <1>1
<1>3. QED  BY <1>1, <1>2 DEF Only

LEMMA OnlyWeaker ==
    ASSUME NEW q, NEW S, NEW T, Only(q, S), S \subseteq T PROVE Only(q, T)
  BY DEF Only

\* One recvmsg takes everything when no Start is followed by another message.
LEMMA ChunkWhole ==
    ASSUME NEW S, NEW q \in Seq(S), q # <<>>,
           \A n \in 1 .. (Len(q) - 1) : q[n].type # "Start"
    PROVE  /\ ChunkLen(q) = Len(q)
           /\ SubSeq(q, 1, ChunkLen(q)) = q
           /\ SubSeq(q, ChunkLen(q) + 1, Len(q)) = <<>>
<1>1. Len(q) \in Nat \ {0}  BY EmptySeq
<1>2. ChunkLen(q) = Len(q)
  <2> DEFINE starts == {k \in 1..Len(q) : q[k].type = "Start"}
  <2>1. \A k \in starts : k = Len(q)  BY <1>1
  <2>2. ChunkLen(q) = IF starts = {} THEN Len(q)
                      ELSE CHOOSE k \in starts : \A l \in starts : k <= l
    BY DEF ChunkLen
  <2>3. CASE starts = {}  BY <2>2, <2>3
  <2>4. CASE starts # {}
    <3>1. Len(q) \in starts  BY <2>1, <2>4
    <3>2. \A l \in starts : Len(q) <= l  BY <1>1, <2>1
    <3> HIDE DEF starts
    <3>3. (CHOOSE k \in starts : \A l \in starts : k <= l) \in starts  BY <3>1, <3>2
    <3>4. QED  BY <2>1, <2>2, <2>4, <3>3
  <2>5. QED  BY <2>3, <2>4
<1>3. SubSeq(q, 1, Len(q)) = q  BY SubSeqFull
<1>4. SubSeq(q, Len(q) + 1, Len(q)) = <<>>  BY <1>1, SubSeqEmpty
<1>5. QED  BY <1>2, <1>3, <1>4

LEMMA DecodedLast ==
    ASSUME NEW S, NEW q \in Seq(S), q # <<>>, NEW m \in Decoded(q)
    PROVE  /\ m = Garbled \/ m = q[Len(q)]
           /\ Len(q) \in 1 .. Len(q)
<1>1. Len(q) \in 1 .. Len(q)  BY EmptySeq
<1>2. QED  BY <1>1 DEF Decoded

Quiet == {"idle", "connect", "version", "continue", "stop"}

\* The agent reads all that was sent.
LEMMA PipeRead ==
    ASSUME NEW s, NEW sent, NEW replies, NEW b, Pipe(s, sent, replies, b)
    PROVE  Pipe(s, <<>>, replies, b)
<1>1. \A types : Only(<<>>, types)  BY OnlyEmpty
<1>2. 1 .. (Len(<<>>) - 1) = {}  OBVIOUS
<1>3. CASE s # "await_start"  BY <1>1, <1>3 DEF Pipe
<1>4. CASE s = "await_start"  BY <1>1, <1>2, <1>4 DEF Pipe
<1>5. QED  BY <1>3, <1>4

\* Between calls.
LEMMA PipeQuiet ==
    ASSUME NEW s \in Quiet, NEW t \in Quiet, NEW sent, NEW replies, NEW b, NEW b2,
           Pipe(s, sent, replies, b)
    PROVE  Pipe(t, sent, replies, b2)
  BY DEF Pipe, Quiet

LEMMA PipeNew ==
    ASSUME NEW b PROVE Pipe("version", <<>>, <<>>, b)
  BY OnlyEmpty DEF Pipe

\* A call ends with its answer taken, or without one.
LEMMA PipeTaken ==
    ASSUME NEW s, NEW sent, NEW replies, NEW b, NEW b2, s # "await_start",
           Pipe(s, sent, replies, b)
    PROVE  Pipe("idle", sent, <<>>, b2)
  BY DEF Pipe

LEMMA PipeVersionTaken ==
    ASSUME NEW sent, NEW replies, NEW b, NEW b2, replies # <<>>,
           Pipe("await_version", sent, replies, b)
    PROVE  Pipe("start", sent, <<>>, b2)
  BY OnlyEmpty DEF Pipe

\* The Ack that start() gets is for its own Start.
LEMMA PipeAck ==
    ASSUME NEW sent, NEW replies \in Seq(Replies), NEW b, NEW b2,
           Pipe("await_start", sent, replies, b),
           replies # <<>>, replies[Len(replies)].type = "Ack"
    PROVE  b /\ Pipe("idle", sent, <<>>, b2)
<1>1. Len(replies) \in 1 .. Len(replies)  BY EmptySeq
<1>2. ~Only(replies, NotAck)  BY <1>1 DEF Only, NotAck
<1>3. sent = <<>> /\ b  BY <1>2 DEF Pipe
<1>4. QED  BY <1>3, OnlyEmpty DEF Pipe

LEMMA PipeSend ==
    ASSUME NEW s \in Sending, NEW sent \in Seq(Requests), NEW replies, NEW b, NEW b2,
           NEW m \in Requests, Pipe(s, sent, replies, b),
           s = "version" => m.type = "Version",
           s = "start" => m.type = "Start",
           s \in {"continue", "stop"} => m.type \in NotStart
    PROVE  Pipe(Awaiting(s), Append(sent, m), replies, b2)
<1>1. CASE s = "version"
  <2>1. Only(sent, NotStart) /\ m.type \in NotStart  BY <1>1 DEF Pipe, NotStart
  <2>2. Only(Append(sent, m), NotStart)  BY <2>1, OnlyAppend
  <2>3. replies = <<>> \/ Only(Append(sent, m), {"Version"})
    <3>1. CASE sent = <<>>
      <4>1. Only(sent, {"Version"})  BY <3>1, OnlyEmpty
      <4>2. QED  BY <1>1, <4>1, OnlyAppend
    <3>2. QED  BY <1>1, <3>1 DEF Pipe
  <2>4. Awaiting(s) = "await_version"  BY <1>1 DEF Awaiting
  <2>5. QED  BY <2>2, <2>3, <2>4 DEF Pipe
<1>2. CASE s = "start"
  <2>1. Only(sent, {"Version"}) /\ Only(replies, NotAck)  BY <1>2 DEF Pipe
  <2>2. Only(sent, {"Version", "Start"})  BY <2>1, OnlyWeaker
  <2>3. Only(Append(sent, m), {"Version", "Start"})  BY <1>2, <2>2, OnlyAppend
  <2>4. /\ Len(Append(sent, m)) = Len(sent) + 1 /\ Len(sent) \in Nat
        /\ \A n \in 1 .. Len(sent) : Append(sent, m)[n] = sent[n]
    OBVIOUS
  <2>5. \A n \in 1 .. (Len(Append(sent, m)) - 1) : Append(sent, m)[n].type # "Start"
    BY <2>1, <2>4 DEF Only
  <2>6. Awaiting(s) = "await_start"  BY <1>2 DEF Awaiting
  <2>7. QED  BY <2>1, <2>3, <2>5, <2>6 DEF Pipe
<1>3. CASE s \in {"continue", "stop"}
  <2>1. Only(sent, NotStart)  BY <1>3 DEF Pipe
  <2>2. Only(Append(sent, m), NotStart)  BY <1>3, <2>1, OnlyAppend
  <2>3. Awaiting(s) \in {"await_continue", "await_stop"}  BY <1>3 DEF Awaiting
  <2>4. QED  BY <2>2, <2>3 DEF Pipe
<1>4. QED  BY <1>1, <1>2, <1>3 DEF Sending

-----------------------------------------------------------------------------
(* What the agent does to a connection.                                     *)

Ended == {"Started", "closed"}

\* No connection goes back: one that has been made stays made, one that was
\* started is started or closed, and one that is closed stays closed.
ConnForward ==
    \A i \in Conns : /\ conn[i] # "unused" => conn'[i] # "unused"
                     /\ conn[i] \in Ended => conn'[i] \in Ended
                     /\ conn[i] = "closed" => conn'[i] = "closed"

LEMMA DisconnectForward ==
    ASSUME SInv, NEW i \in Conns, HandleDisconnect(i) PROVE ConnForward
<1>1. conn' = [conn EXCEPT ![i] = "closed"]  BY DEF HandleDisconnect
<1>2. QED  BY <1>1 DEF SInv, SessionTypeOK, ConnForward, Ended

LEMMA MessageForward ==
    ASSUME SInv, NEW i \in Conns, NEW m, HandleMessage(i, m) PROVE ConnForward
<1>1. CASE HandleVersion(i) \/ HandleContinue(i) \/ Ignore
  BY <1>1 DEF HandleVersion, HandleContinue, Ignore, agentVars, ConnForward
<1>2. CASE HandleStop(i)  BY <1>2, DisconnectForward DEF HandleStop
<1>3. CASE conn[i] = "Pending" /\ HandleStart(i, m)
  <2>1. CASE StartRefused(i) \/ StartBadFilter(i, m)
    BY <2>1 DEF StartRefused, StartBadFilter, agentVars, ConnForward
  <2>2. CASE StartBadRing(i)  BY <2>2, DisconnectForward DEF StartBadRing
  <2>3. CASE StartAccepted(i, m)
    <3>1. conn' = [conn EXCEPT ![i] = "Started"]  BY <2>3 DEF StartAccepted
    <3>2. QED  BY <1>3, <3>1 DEF SInv, SessionTypeOK, ConnForward, Ended
  <2>4. QED  BY <1>3, <2>1, <2>2, <2>3 DEF HandleStart
<1>4. QED  BY <1>1, <1>2, <1>3 DEF HandleMessage

LEMMA Forward == ASSUME SInv, [ServerNext]_serverVars PROVE ConnForward
<1> USE DEF agentVars, sockVars
<1>1. CASE UNCHANGED serverVars  BY <1>1 DEF serverVars, ConnForward
<1>2. CASE Accept
  <2> DEFINE j == Head(backlog)
  <2>1. backlog \in Seq(Conns) /\ backlog # <<>> /\ conn' = [conn EXCEPT ![j] = "Pending"]
    BY <1>2 DEF Accept, SInv, SessionTypeOK
  <2>2. j = backlog[1] /\ 1 \in 1..Len(backlog) /\ j \in Conns  BY <2>1
  <2>3. conn[j] = "backlog"  BY <2>2 DEF SInv, BacklogInv
  <2> HIDE DEF j
  <2>4. QED  BY <2>1, <2>2, <2>3 DEF SInv, SessionTypeOK, ConnForward, Ended
<1>3. CASE Timer  BY <1>3 DEF Timer, ConnForward, Ended
<1>4. CASE Shutdown  BY <1>4 DEF Shutdown, ConnForward, Ended
<1>5. ASSUME NEW i \in Conns, HandleHup(i) PROVE ConnForward
  BY <1>5, DisconnectForward DEF HandleHup
<1>6. ASSUME NEW i \in Conns, Receive(i) PROVE ConnForward
  BY <1>6, MessageForward DEF Receive
<1>7. ASSUME NEW i \in Conns, Connect(i) PROVE ConnForward
  BY <1>7 DEF Connect, SInv, SessionTypeOK, ConnForward, Ended
<1>8. ASSUME NEW i \in Conns,
             HangUp(i) \/ Read(i) \/ Elapse(i) \/ \E m \in Requests : Send(i, m)
      PROVE  ConnForward
  BY <1>8 DEF HangUp, Read, Elapse, Send, ConnForward
<1>9. QED  BY <1>1, <1>2, <1>3, <1>4, <1>5, <1>6, <1>7, <1>8 DEF ServerNext, AgentStep

\* A message is answered at most once, on its connection; an Ack answers a
\* Continue or a Stop, or a Start that was accepted.
LEMMA OneReply ==
    ASSUME ClientTypeOK, SInv, NEW i \in Conns, NEW m, HandleMessage(i, m)
    PROVE  \/ s2c' = s2c
           \/ \E r \in Replies :
                 /\ s2c' = [s2c EXCEPT ![i] = Append(@, r)]
                 /\ r.type = "Ack" =>
                       \/ m.type \in {"Continue", "Stop"}
                       \/ m.type = "Start" /\ conn[i] = "Pending" /\ conn'[i] = "Started"
<1> DEFINE Goal == \/ s2c' = s2c
                   \/ \E r \in Replies :
                         /\ s2c' = [s2c EXCEPT ![i] = Append(@, r)]
                         /\ r.type = "Ack" =>
                               \/ m.type \in {"Continue", "Stop"}
                               \/ m.type = "Start" /\ conn[i] = "Pending" /\ conn'[i] = "Started"
<1> SUFFICES Goal  OBVIOUS
<1>1. /\ Msg("Ack") \in Replies /\ Msg("Nack") \in Replies
      /\ VersionResponse(AgentVersion) \in Replies
      /\ Msg("Nack").type # "Ack" /\ VersionResponse(AgentVersion).type # "Ack"
  BY DEF Replies, Msg, VersionResponse
<1>2. ASSUME NEW r \in Replies, Reply(i, r),
             r.type = "Ack" => \/ m.type \in {"Continue", "Stop"}
                               \/ m.type = "Start" /\ conn[i] = "Pending" /\ conn'[i] = "Started"
      PROVE  Goal
  BY <1>2 DEF Reply
<1>3. CASE Ignore  BY <1>3 DEF Ignore
<1>4. CASE HandleVersion(i)
  <2>1. Reply(i, VersionResponse(AgentVersion))  BY <1>4 DEF HandleVersion
  <2> HIDE DEF Goal
  <2>2. QED  BY <1>1, <1>2, <2>1
<1>5. CASE \/ m.type = "Stop" /\ HandleStop(i)
           \/ m.type = "Continue" /\ HandleContinue(i)
  <2>1. Reply(i, Msg("Ack"))  BY <1>5 DEF HandleStop, HandleContinue
  <2> HIDE DEF Goal
  <2>2. QED  BY <1>1, <1>2, <1>5, <2>1
<1>6. CASE m.type = "Start" /\ conn[i] = "Pending" /\ HandleStart(i, m)
  <2>1. CASE StartRefused(i) \/ StartBadFilter(i, m)
    <3>1. Reply(i, Msg("Nack"))  BY <2>1 DEF StartRefused, StartBadFilter
    <3> HIDE DEF Goal
    <3>2. QED  BY <1>1, <1>2, <3>1
  <2>2. CASE StartBadRing(i)  BY <2>2 DEF StartBadRing
  <2>3. CASE StartAccepted(i, m)
    <3>1. Reply(i, Msg("Ack")) /\ conn' = [conn EXCEPT ![i] = "Started"]
      BY <2>3 DEF StartAccepted
    <3>2. conn'[i] = "Started"  BY <3>1 DEF SInv, SessionTypeOK
    <3> HIDE DEF Goal
    <3>3. QED  BY <1>1, <1>2, <1>6, <3>1, <3>2
  <2>4. QED  BY <1>6, <2>1, <2>2, <2>3 DEF HandleStart
<1>7. HandleMessage(i, m) =>
         \/ Ignore \/ HandleVersion(i)
         \/ (m.type = "Start" /\ conn[i] = "Pending" /\ HandleStart(i, m))
         \/ (m.type = "Stop" /\ HandleStop(i)) \/ (m.type = "Continue" /\ HandleContinue(i))
  BY DEF HandleMessage
<1> HIDE DEF Goal
<1>8. QED  BY <1>3, <1>4, <1>5, <1>6, <1>7

-----------------------------------------------------------------------------
(* What a client does to its connection and to its own variables.           *)

LEMMA NoneIsNoConn == None \notin Conns
  BY ServerAssumption

LEMMA RequestType ==
    ASSUME ClientTypeOK, NEW c \in Clients, ProgressInv(c), pc[c] \in Sending
    PROVE  /\ Request(c) \in Requests
           /\ pc[c] = "version" => Request(c).type = "Version"
           /\ pc[c] = "start" => Request(c).type = "Start"
           /\ pc[c] \in {"continue", "stop"} => Request(c).type \in NotStart
<1>1. Starts \subseteq Requests /\ \A m \in Starts : m.type = "Start"
  <2>1. \A kind, pid : StartMsg(kind, pid).type = "Start"  BY DEF StartMsg, Msg
  <2>2. QED  BY <2>1 DEF Starts, Requests
<1>2. {Msg("Version"), Msg("Continue"), Msg("Stop")} \subseteq Requests  BY DEF Requests
<1>3. /\ Msg("Version").type = "Version" /\ Msg("Continue").type = "Continue"
      /\ Msg("Stop").type = "Stop"
  BY DEF Msg
<1>4. pc[c] = "start" => start[c] \in Starts  BY DEF ProgressInv
<1>5. QED  BY <1>1, <1>2, <1>3, <1>4 DEF Request, Sending, NotStart

\* Whatever the answer, it is taken or the connection is dropped.
LEMMA RespondMoves ==
    ASSUME NEW c \in Clients, Respond(c)
    PROVE  TakeAnswer(c) \/ DropStream(c)
<1>1. PICK m \in Responses(stream[c]) :
         AfterVersion(c, m) \/ AfterStart(c, m) \/ AfterContinue(c, m) \/ AfterStop(c, m)
  BY DEF Respond
<1>2. CASE AfterVersion(c, m)  BY <1>2 DEF AfterVersion
<1>3. CASE AfterStart(c, m)  BY <1>3 DEF AfterStart
<1>4. CASE AfterContinue(c, m) \/ AfterStop(c, m)  BY <1>4 DEF AfterContinue, AfterStop
<1>5. QED  BY <1>1, <1>2, <1>3, <1>4

ClientMove(c) ==
    \/ UNCHANGED <<serverVars, stream>>
    \/ stream[c] = None /\ \E i \in Conns : Connect(i) /\ stream' = [stream EXCEPT ![c] = i]
    \/ /\ stream[c] \in Conns /\ UNCHANGED stream
       /\ Read(stream[c]) \/ \E m \in Requests : Send(stream[c], m)
    \/ stream[c] \in Conns /\ HangUp(stream[c]) /\ stream' = [stream EXCEPT ![c] = None]

LEMMA ClientMoves ==
    ASSUME ClientTypeOK, NEW c \in Clients, ProgressInv(c), ClientStep(c)
    PROVE  ClientMove(c)
<1>1. stream[c] # None => stream[c] \in Conns  BY DEF ClientTypeOK
<1>2. ASSUME NEW o, NEW m, Call(c, o, m) PROVE ClientMove(c)
  BY <1>2 DEF Call, ClientMove
<1>3. CASE ConnectOrReuse(c)  BY <1>3 DEF ConnectOrReuse, ClientMove
<1>4. CASE SendRequest(c)
  <2>1. pc[c] \in Sending /\ Send(stream[c], Request(c)) /\ UNCHANGED stream
    BY <1>4 DEF SendRequest
  <2>2. stream[c] # None  BY <2>1 DEF ProgressInv, Sending
  <2>3. Request(c) \in Requests  BY <2>1, RequestType
  <2>4. QED  BY <1>1, <2>1, <2>2, <2>3 DEF ClientMove
<1>5. CASE SendFails(c)
  <2>1. stream[c] # None  BY <1>5 DEF SendFails, ProgressInv, Sending
  <2>2. QED  BY <1>1, <1>5, <2>1 DEF SendFails, KeepStream, DropStream, ClientMove
<1>6. CASE stream[c] # None /\ Respond(c)
  <2>1. TakeAnswer(c) \/ DropStream(c)  BY <1>6, RespondMoves
  <2>2. QED  BY <1>1, <1>6, <2>1 DEF TakeAnswer, KeepStream, DropStream, ClientMove
<1>7. CASE Die(c)  BY <1>1, <1>7 DEF Die, DropStream, ClientMove
<1>8. QED  BY <1>2, <1>3, <1>4, <1>5, <1>6, <1>7 DEF ClientStep, InCall

\* Clients do to the sockets what the agent was checked against.
LEMMA ClientMoveAllowed ==
    ASSUME NEW c \in Clients, ClientMove(c) PROVE [ServerNext]_serverVars
  BY DEF ClientMove, ServerNext

LEMMA SystemMoves ==
    ASSUME ClientInv, [SystemNext]_vars PROVE [ServerNext]_serverVars
<1>1. CASE UNCHANGED vars  BY <1>1 DEF vars
<1>2. CASE AgentStep \/ Shutdown \/ \E i \in Conns : Elapse(i)  BY <1>2 DEF ServerNext
<1>3. ASSUME NEW c \in Clients, ClientStep(c) PROVE [ServerNext]_serverVars
  <2>1. ClientTypeOK /\ ProgressInv(c)  BY DEF ClientInv, CInv
  <2>2. QED  BY <1>3, <2>1, ClientMoves, ClientMoveAllowed
<1>4. QED  BY <1>1, <1>2, <1>3 DEF SystemNext

Ops == {"none", "start", "check_version", "continue", "stop"}
Results == {"none", "ok", "err"}

\* A client writes its own variables only.
OwnVars(c) ==
    /\ \E s \in Steps : pc' = [pc EXCEPT ![c] = s]
    /\ \E o \in Ops : op' = [op EXCEPT ![c] = o]
    /\ \E r \in Results : result' = [result EXCEPT ![c] = r]
    /\ \E m \in Starts \cup {Msg("none")} : start' = [start EXCEPT ![c] = m]
    /\ \E n \in Nat : calls' = [calls EXCEPT ![c] = n]

LEMMA CallVars ==
    ASSUME ClientTypeOK, NEW c \in Clients, NEW o \in Ops \ {"none"},
           NEW m \in Starts \cup {Msg("none")}, Call(c, o, m)
    PROVE  OwnVars(c)
<1>1. calls[c] + 1 \in Nat  BY DEF ClientTypeOK
<1>2. /\ calls' = [calls EXCEPT ![c] = calls[c] + 1]
      /\ op' = [op EXCEPT ![c] = o] /\ start' = [start EXCEPT ![c] = m]
  BY DEF Call
<1>3. (\E s \in Steps : pc' = [pc EXCEPT ![c] = s])
      /\ (\E r \in Results : result' = [result EXCEPT ![c] = r])
  BY DEF Call, Return, Steps, Sending, Results, Ops
<1>4. QED  BY <1>1, <1>2, <1>3 DEF OwnVars

LEMMA StepVars ==
    ASSUME ClientTypeOK, NEW c \in Clients, UNCHANGED <<op, start, calls>>,
           \/ \E s \in Steps : pc' = [pc EXCEPT ![c] = s] /\ UNCHANGED result
           \/ \E r \in Results : Return(c, r)
    PROVE  OwnVars(c)
<1>1. /\ op' = [op EXCEPT ![c] = op[c]] /\ op[c] \in Ops
      /\ start' = [start EXCEPT ![c] = start[c]] /\ start[c] \in Starts \cup {Msg("none")}
      /\ calls' = [calls EXCEPT ![c] = calls[c]] /\ calls[c] \in Nat
      /\ result = [result EXCEPT ![c] = result[c]] /\ result[c] \in Results
  BY DEF ClientTypeOK, Ops, Results
<1>2. (\E s \in Steps : pc' = [pc EXCEPT ![c] = s])
      /\ (\E r \in Results : result' = [result EXCEPT ![c] = r])
  BY <1>1 DEF Return, Steps
<1>3. QED  BY <1>1, <1>2 DEF OwnVars

LEMMA ClientVars ==
    ASSUME ClientTypeOK, NEW c \in Clients, ClientStep(c)
    PROVE  OwnVars(c)
<1>1. ASSUME NEW m \in Starts, Call(c, "start", m) PROVE OwnVars(c)
  BY <1>1, CallVars DEF Ops
<1>2. ASSUME NEW o \in {"check_version", "continue", "stop"}, Call(c, o, Msg("none"))
      PROVE  OwnVars(c)
  BY <1>2, CallVars DEF Ops
<1>3. CASE ConnectOrReuse(c)
  BY <1>3, StepVars DEF ConnectOrReuse, Goto, Steps, Sending, Results
<1>4. CASE SendRequest(c)
  BY <1>4, StepVars DEF SendRequest, Goto, Steps, Awaiting
<1>5. CASE SendFails(c)  BY <1>5, StepVars DEF SendFails, Results
<1>6. CASE Respond(c)
  <2>1. PICK m \in Responses(stream[c]) :
           AfterVersion(c, m) \/ AfterStart(c, m) \/ AfterContinue(c, m) \/ AfterStop(c, m)
    BY <1>6 DEF Respond
  <2>2. Goto(c, "start") \/ \E r \in Results : Return(c, r)
    BY <2>1 DEF AfterVersion, AfterStart, AfterContinue, AfterStop, Results
  <2>3. QED  BY <1>6, <2>2, StepVars DEF Respond, Goto, Steps, Sending
<1>7. CASE Die(c)  BY <1>7, StepVars DEF Die, Steps
<1>8. QED  BY <1>1, <1>2, <1>3, <1>4, <1>5, <1>6, <1>7 DEF ClientStep, InCall

-----------------------------------------------------------------------------
(* Steps that leave a client alone.                                         *)

LEMMA ChunkLenType ==
    ASSUME NEW S, NEW q \in Seq(S), q # <<>> PROVE ChunkLen(q) \in 1 .. Len(q)
<1> DEFINE starts == {k \in 1..Len(q) : q[k].type = "Start"}
<1>1. Len(q) \in 1 .. Len(q)  BY EmptySeq
<1>2. ChunkLen(q) = IF starts = {} THEN Len(q)
                    ELSE CHOOSE k \in starts : \A l \in starts : k <= l
  BY DEF ChunkLen
<1>3. CASE starts = {}  BY <1>1, <1>2, <1>3
<1>4. CASE starts # {}
  <2>1. starts \subseteq Nat /\ starts \subseteq 1 .. Len(q)  BY <1>1
  <2> HIDE DEF starts
  <2>2. PICK k \in starts : \A l \in starts : ~(<<l, k>> \in OpToRel(<, Nat))
    <3>1. \A T : T \subseteq Nat /\ T # {}
                  => \E x \in T : \A y \in T : ~(<<y, x>> \in OpToRel(<, Nat))
      BY NatLessThanWellFounded, WFMin
    <3>2. QED  BY <1>4, <2>1, <3>1
  <2>3. ASSUME NEW l \in starts PROVE k <= l
    <3>1. k \in Nat /\ l \in Nat  BY <2>1
    <3>2. ~(<<l, k>> \in OpToRel(<, Nat))  BY <2>2
    <3>3. ~(l < k)  BY <3>1, <3>2 DEF OpToRel
    <3>4. QED  BY <3>1, <3>3
  <2>4. (CHOOSE j \in starts : \A l \in starts : j <= l) \in starts  BY <2>3
  <2>5. QED  BY <1>2, <1>4, <2>1, <2>4
<1>5. QED  BY <1>3, <1>4

BegunStep ==
    begun' = [i \in Conns |->
                IF conn[i] # "Started" /\ conn'[i] = "Started" THEN CallOn(i) ELSE begun[i]]

LEMMA CallOnType == ASSUME ClientTypeOK, NEW i \in Conns PROVE CallOn(i) \in Nat
<1>1. CASE \E c \in Clients : stream[c] = i
  <2>1. (CHOOSE c \in Clients : stream[c] = i) \in Clients  BY <1>1
  <2>2. QED  BY <1>1, <2>1 DEF CallOn, ClientTypeOK
<1>2. QED  BY <1>1 DEF CallOn

LEMMA CallOnClient ==
    ASSUME StreamInv, NEW c \in Clients, stream[c] # None
    PROVE  CallOn(stream[c]) = calls[c]
<1>1. (CHOOSE d \in Clients : stream[d] = stream[c]) = c  BY DEF StreamInv
<1>2. QED  BY <1>1 DEF CallOn

LEMMA BegunType == ASSUME ClientTypeOK, BegunStep PROVE begun' \in [Conns -> Nat]
  BY CallOnType DEF BegunStep, ClientTypeOK

LEMMA BegunKept ==
    ASSUME ConnForward, BegunStep, NEW i \in Conns, conn[i] \in Ended
    PROVE  begun'[i] = begun[i] /\ conn'[i] \in Ended
  BY DEF ConnForward, BegunStep, Ended

LEMMA PipeBegan ==
    ASSUME NEW s, NEW sent, NEW replies, NEW b, NEW b2, Pipe(s, sent, replies, b), b => b2
    PROVE  Pipe(s, sent, replies, b2)
<1>1. CASE s # "await_start"  BY <1>1 DEF Pipe
<1>2. CASE s = "await_start"  BY <1>2 DEF Pipe
<1>3. QED  BY <1>1, <1>2

SameClient(c) ==
    /\ stream'[c] = stream[c] /\ pc'[c] = pc[c] /\ op'[c] = op[c]
    /\ result'[c] = result[c] /\ start'[c] = start[c] /\ calls'[c] = calls[c]

LEMMA BeganKept ==
    ASSUME ClientTypeOK, ConnForward, BegunStep, NEW c \in Clients, SameClient(c),
           stream[c] # None, Began(c)
    PROVE  Began(c)'
<1>1. stream[c] \in Conns  BY DEF ClientTypeOK
<1>2. QED  BY <1>1, BegunKept DEF Began, SameClient, Ended

\* The agent drops what the client sent, or does not look at it.
PipeKept(i) == (c2s'[i] = c2s[i] \/ c2s'[i] = <<>>) /\ s2c'[i] = s2c[i]

LEMMA Untouched ==
    ASSUME ClientTypeOK, ConnForward, BegunStep, NEW c \in Clients, SameClient(c), CInv(c),
           stream[c] # None => PipeKept(stream[c])
    PROVE  CInv(c)'
<1>1. ProgressInv(c)'  BY DEF CInv, ProgressInv, SameClient
<1>2. stream[c] # None /\ Began(c) => Began(c)'  BY BeganKept
<1>3. PipeInv(c)'
  <2> SUFFICES ASSUME stream[c] # None
               PROVE  Pipe(pc[c], c2s'[stream[c]], s2c'[stream[c]], Began(c)')
    BY DEF PipeInv, SameClient
  <2>1. Pipe(pc[c], c2s[stream[c]], s2c[stream[c]], Began(c))  BY DEF CInv, PipeInv
  <2>2. Pipe(pc[c], c2s'[stream[c]], s2c'[stream[c]], Began(c))
    BY <2>1, PipeRead DEF PipeKept
  <2>3. QED  BY <1>2, <2>2, PipeBegan
<1>4. ResultInv(c)'  BY <1>2 DEF CInv, ResultInv, SameClient
<1>5. QED  BY <1>1, <1>3, <1>4 DEF CInv

-----------------------------------------------------------------------------
(* The agent's steps.                                                       *)

\* The agent reads the client's messages and answers the last of them.
LEMMA ReceiveOwn ==
    ASSUME SInv, ClientInv, ConnForward, BegunStep, NEW c \in Clients, SameClient(c),
           stream[c] # None, Receive(stream[c])
    PROVE  CInv(c)'
<1> DEFINE i == stream[c]
           q == c2s[i]
           b == Began(c)'
<1>1. /\ i \in Conns /\ q \in Seq(Requests) /\ s2c[i] \in Seq(Replies) /\ CInv(c)
      /\ ClientTypeOK /\ StreamInv /\ c2s \in [Conns -> Seq(Requests)]
      /\ s2c \in [Conns -> Seq(Replies)]
  BY DEF ClientInv, ClientTypeOK
<1>2. PICK m \in Decoded(SubSeq(q, 1, ChunkLen(q))) :
         /\ q # <<>> /\ HandleMessage(i, m)
         /\ c2s' = [c2s EXCEPT ![i] = SubSeq(@, ChunkLen(q) + 1, Len(@))]
  BY DEF Receive
<1>3. Pipe(pc[c], q, s2c[i], Began(c))  BY <1>1 DEF CInv, PipeInv
<1>4. (Began(c) => b) /\ ProgressInv(c)'
  BY <1>1, BeganKept DEF CInv, ProgressInv, SameClient
<1> HIDE DEF i, q, b
<1>5. \A n \in 1 .. (Len(q) - 1) : q[n].type # "Start"
  <2>1. CASE pc[c] = "await_start"  BY <1>3, <2>1 DEF Pipe
  <2>2. CASE pc[c] # "await_start"
    <3>1. Only(q, NotStart)  BY <1>3, <2>2 DEF Pipe
    <3>2. Len(q) \in Nat  BY <1>1
    <3>3. \A n \in 1 .. (Len(q) - 1) : n \in 1 .. Len(q)  BY <3>2
    <3>4. QED  BY <3>1, <3>3 DEF Only, NotStart
  <2>3. QED  BY <2>1, <2>2
<1>6. /\ SubSeq(q, 1, ChunkLen(q)) = q
      /\ SubSeq(q, ChunkLen(q) + 1, Len(q)) = <<>>
  BY <1>1, <1>2, <1>5, ChunkWhole
<1>7. c2s'[i] = <<>>  BY <1>1, <1>2, <1>6 DEF q
<1>8. m = Garbled \/ (m = q[Len(q)] /\ Len(q) \in 1 .. Len(q))
  <2>1. m \in Decoded(q)  BY <1>2, <1>6
  <2>2. QED  BY <1>1, <1>2, <2>1, DecodedLast
<1>9. Pipe(pc[c], <<>>, s2c[i], b)
  <2>1. Pipe(pc[c], <<>>, s2c[i], Began(c))  BY <1>3, PipeRead
  <2>2. QED  BY <1>4, <2>1, PipeBegan
<1>10. Pipe(pc[c], <<>>, s2c'[i], b)
  <2>1. CASE s2c' = s2c  BY <1>9, <2>1
  <2>2. CASE s2c' # s2c
    <3>1. PICK r \in Replies :
             /\ s2c' = [s2c EXCEPT ![i] = Append(@, r)]
             /\ r.type = "Ack" => \/ m.type \in {"Continue", "Stop"}
                                  \/ m.type = "Start" /\ conn[i] = "Pending" /\ conn'[i] = "Started"
      BY <1>1, <1>2, <2>2, OneReply
    <3>2. s2c'[i] = Append(s2c[i], r)  BY <1>1, <3>1
    <3>3. Garbled.type = "Garbled"  BY DEF Garbled, Msg
    <3>4. \A types : Only(<<>>, types)  BY OnlyEmpty
    <3>5. r.type # "Ack" => r.type \in NotAck
      BY DEF Replies, Msg, VersionResponse, NotAck
    <3>6. CASE pc[c] = "start"
      <4>1. Only(q, {"Version"}) /\ Only(s2c[i], NotAck)  BY <1>3, <3>6 DEF Pipe
      <4>2. m.type \in {"Version", "Garbled"}  BY <1>8, <3>3, <4>1 DEF Only
      <4>3. r.type # "Ack"  BY <3>1, <4>2
      <4>4. Only(s2c'[i], NotAck)  BY <1>1, <3>2, <3>5, <4>1, <4>3, OnlyAppend
      <4>5. QED  BY <3>4, <3>6, <4>4 DEF Pipe
    <3>7. CASE pc[c] = "await_start"
      <4>1. Only(q, {"Version", "Start"}) /\ Only(s2c[i], NotAck)
        BY <1>2, <1>3, <3>7 DEF Pipe
      <4>2. m.type \in {"Version", "Start", "Garbled"}  BY <1>8, <3>3, <4>1 DEF Only
      <4>3. Only(s2c'[i], NotAck) \/ b
        <5>1. CASE r.type # "Ack"  BY <1>1, <3>2, <3>5, <4>1, <5>1, OnlyAppend
        <5>2. CASE r.type = "Ack"
          <6>1. conn[i] = "Pending" /\ conn'[i] = "Started"  BY <3>1, <4>2, <5>2
          <6>2. begun'[i] = calls[c]
            BY <1>1, <6>1, CallOnClient DEF BegunStep, i
          <6>3. QED  BY <6>1, <6>2 DEF b, i, Began, SameClient
        <5>3. QED  BY <5>1, <5>2
      <4>4. 1 .. (Len(<<>>) - 1) = {}  OBVIOUS
      <4>5. QED  BY <3>4, <3>7, <4>3, <4>4 DEF Pipe
    <3>8. CASE pc[c] \notin {"start", "await_start"}
      BY <1>9, <3>4, <3>8 DEF Pipe
    <3>9. QED  BY <3>6, <3>7, <3>8
  <2>3. QED  BY <2>1, <2>2
<1>11. PipeInv(c)'  BY <1>7, <1>10 DEF PipeInv, SameClient, i, b
<1>12. ResultInv(c)'  BY <1>1, <1>4 DEF CInv, ResultInv, SameClient, b
<1>13. QED  BY <1>4, <1>11, <1>12 DEF CInv

\* All other steps of the agent at most drop what clients sent.
LEMMA QuietSteps ==
    ASSUME ClientTypeOK,
           \/ Accept \/ Timer \/ Shutdown
           \/ \E i \in Conns : HandleHup(i) \/ Elapse(i)
    PROVE  /\ \A i \in Conns : PipeKept(i)
           /\ c2s' \in [Conns -> Seq(Requests)] /\ s2c' \in [Conns -> Seq(Replies)]
<1> USE DEF sockVars
<1>1. <<>> \in Seq(Requests)  OBVIOUS
<1>2. c2s \in [Conns -> Seq(Requests)] /\ s2c \in [Conns -> Seq(Replies)]  BY DEF ClientTypeOK
<1>3. s2c' = s2c  BY DEF Accept, Timer, Shutdown, HandleHup, Elapse
<1>4. CASE Accept \/ \E i \in Conns : Elapse(i)  BY <1>2, <1>3, <1>4 DEF Accept, Elapse, PipeKept
<1>5. CASE Timer
  <2> DEFINE expired == {i \in Conns : Registered(i) /\ ~fresh[i]}
  <2>1. c2s' = [i \in Conns |-> IF i \in expired THEN <<>> ELSE c2s[i]]  BY <1>5 DEF Timer
  <2> HIDE DEF expired
  <2>2. QED  BY <1>1, <1>2, <1>3, <2>1 DEF PipeKept
<1>6. CASE Shutdown
  <2>1. c2s' = [i \in Conns |-> <<>>]  BY <1>6 DEF Shutdown
  <2>2. QED  BY <1>1, <1>2, <1>3, <2>1 DEF PipeKept
<1>7. ASSUME NEW j \in Conns, HandleHup(j)
      PROVE  (\A i \in Conns : PipeKept(i)) /\ c2s' \in [Conns -> Seq(Requests)]
  <2>1. c2s' = [c2s EXCEPT ![j] = <<>>]  BY <1>7 DEF HandleHup
  <2>2. QED  BY <1>1, <1>2, <1>3, <2>1 DEF PipeKept
<1>8. QED  BY <1>2, <1>3, <1>4, <1>5, <1>6, <1>7

LEMMA ReceiveOthers ==
    ASSUME SInv, ClientTypeOK, NEW j \in Conns, Receive(j)
    PROVE  /\ \A i \in Conns : i # j => PipeKept(i)
           /\ conn[j] # "unused"
           /\ c2s' \in [Conns -> Seq(Requests)] /\ s2c' \in [Conns -> Seq(Replies)]
<1> DEFINE q == c2s[j]
           n == ChunkLen(q)
<1>1. /\ c2s \in [Conns -> Seq(Requests)] /\ s2c \in [Conns -> Seq(Replies)]
      /\ q \in Seq(Requests)
  BY DEF ClientTypeOK
<1>2. PICK m : HandleMessage(j, m)  BY DEF Receive
<1>3. q # <<>> /\ Registered(j) /\ c2s' = [c2s EXCEPT ![j] = SubSeq(q, n + 1, Len(q))]
  BY DEF Receive
<1>4. n \in 1 .. Len(q)  BY <1>1, <1>3, ChunkLenType
<1> HIDE DEF q, n
<1>5. SubSeq(q, n + 1, Len(q)) \in Seq(Requests)
  <2>1. Len(q) \in Int /\ n + 1 \in Int  BY <1>1, <1>4
  <2>2. \A k \in (n + 1) .. Len(q) : q[k] \in Requests  BY <1>1, <1>4
  <2>3. QED  BY <2>1, <2>2, SubSeqProperties
<1>6. c2s' \in [Conns -> Seq(Requests)] /\ \A i \in Conns : i # j => c2s'[i] = c2s[i]
  BY <1>1, <1>3, <1>5
<1>7. s2c' \in [Conns -> Seq(Replies)] /\ \A i \in Conns : i # j => s2c'[i] = s2c[i]
  <2>1. CASE s2c' = s2c  BY <1>1, <2>1
  <2>2. CASE s2c' # s2c
    <3>1. PICK r \in Replies : s2c' = [s2c EXCEPT ![j] = Append(@, r)]
      BY <1>2, <2>2, OneReply
    <3>2. Append(s2c[j], r) \in Seq(Replies)  BY <1>1
    <3>3. QED  BY <1>1, <3>1, <3>2
  <2>3. QED  BY <2>1, <2>2
<1>8. QED  BY <1>3, <1>6, <1>7 DEF PipeKept, Registered

LEMMA StreamKept ==
    ASSUME ClientTypeOK, StreamInv, ConnForward, UNCHANGED stream,
           \A i \in Conns : conn[i] = "unused" => PipeKept(i)
    PROVE  StreamInv'
<1>1. \A c \in Clients : stream[c] # None => stream[c] \in Conns  BY DEF ClientTypeOK
<1>2. QED  BY <1>1 DEF StreamInv, ConnForward, PipeKept

LEMMA AgentKeeps ==
    ASSUME SInv, ClientInv, ConnForward, BegunStep, UNCHANGED clientVars,
           AgentStep \/ Shutdown \/ \E i \in Conns : Elapse(i)
    PROVE  ClientInv'
<1>1. ClientTypeOK /\ StreamInv /\ \A c \in Clients : CInv(c)  BY DEF ClientInv
<1>2. UNCHANGED <<stream, pc, op, result, start, calls>>  BY DEF clientVars
<1>3. \A c \in Clients : SameClient(c)  BY <1>2 DEF SameClient
<1>4. \A c \in Clients : stream[c] # None => stream[c] \in Conns  BY <1>1 DEF ClientTypeOK
<1>5. begun' \in [Conns -> Nat]  BY <1>1, BegunType
<1>6. ASSUME \/ Accept \/ Timer \/ Shutdown
             \/ \E i \in Conns : HandleHup(i) \/ Elapse(i)
      PROVE  ClientInv'
  <2>1. /\ \A i \in Conns : PipeKept(i)
        /\ c2s' \in [Conns -> Seq(Requests)] /\ s2c' \in [Conns -> Seq(Replies)]
    BY <1>1, <1>6, QuietSteps
  <2>2. ClientTypeOK'  BY <1>1, <1>2, <1>5, <2>1 DEF ClientTypeOK
  <2>3. StreamInv'  BY <1>1, <1>2, <2>1, StreamKept
  <2>4. \A c \in Clients : CInv(c)'  BY <1>1, <1>3, <1>4, <2>1, Untouched
  <2>5. QED  BY <2>2, <2>3, <2>4 DEF ClientInv
<1>7. ASSUME NEW j \in Conns, Receive(j) PROVE ClientInv'
  <2>1. /\ \A i \in Conns : i # j => PipeKept(i)
        /\ conn[j] # "unused"
        /\ c2s' \in [Conns -> Seq(Requests)] /\ s2c' \in [Conns -> Seq(Replies)]
    BY <1>1, <1>7, ReceiveOthers
  <2>2. ClientTypeOK'  BY <1>1, <1>2, <1>5, <2>1 DEF ClientTypeOK
  <2>3. StreamInv'  BY <1>1, <1>2, <2>1, StreamKept
  <2>4. ASSUME NEW c \in Clients PROVE CInv(c)'
    <3>1. CASE stream[c] = j
      <4>1. stream[c] # None /\ Receive(stream[c])  BY <1>7, <3>1, NoneIsNoConn
      <4>2. QED  BY <1>3, <4>1, ReceiveOwn
    <3>2. CASE stream[c] # j
      <4>1. stream[c] # None => PipeKept(stream[c])  BY <1>4, <2>1, <3>2
      <4>2. QED  BY <1>1, <1>3, <4>1, Untouched
    <3>3. QED  BY <3>1, <3>2
  <2>5. QED  BY <2>2, <2>3, <2>4 DEF ClientInv
<1>8. QED  BY <1>6, <1>7 DEF AgentStep

-----------------------------------------------------------------------------
(* The clients' steps: what they leave alone.                               *)

LEMMA ClientTypes ==
    ASSUME ClientTypeOK, BegunStep, NEW c \in Clients, ClientMove(c), OwnVars(c)
    PROVE  ClientTypeOK'
<1> USE DEF agentVars, sockVars
<1>1. /\ c2s \in [Conns -> Seq(Requests)] /\ s2c \in [Conns -> Seq(Replies)]
      /\ stream \in [Clients -> Conns \cup {None}]
  BY DEF ClientTypeOK
<1>2. stream' \in [Clients -> Conns \cup {None}]  BY <1>1 DEF ClientMove
<1>3. c2s' \in [Conns -> Seq(Requests)] /\ s2c' \in [Conns -> Seq(Replies)]
  <2>1. CASE UNCHANGED serverVars  BY <1>1, <2>1 DEF serverVars
  <2>2. ASSUME NEW i \in Conns, Connect(i) PROVE UNCHANGED <<c2s, s2c>>  BY <2>2 DEF Connect
  <2>3. ASSUME NEW i \in Conns, NEW m \in Requests, Send(i, m)
        PROVE  s2c' = s2c /\ c2s' \in [Conns -> Seq(Requests)]
    <3>1. c2s' = [c2s EXCEPT ![i] = Append(@, m)] /\ s2c' = s2c  BY <2>3 DEF Send
    <3>2. Append(c2s[i], m) \in Seq(Requests)  BY <1>1
    <3>3. QED  BY <1>1, <3>1, <3>2
  <2>4. ASSUME NEW i \in Conns, Read(i) \/ HangUp(i)
        PROVE  c2s' = c2s /\ s2c' \in [Conns -> Seq(Replies)]
    <3>1. s2c' = [s2c EXCEPT ![i] = <<>>] /\ c2s' = c2s  BY <2>4 DEF Read, HangUp
    <3>2. <<>> \in Seq(Replies)  OBVIOUS
    <3>3. QED  BY <1>1, <3>1, <3>2
  <2>5. QED  BY <1>1, <2>1, <2>2, <2>3, <2>4 DEF ClientMove
<1>4. /\ pc' \in [Clients -> Steps] /\ calls' \in [Clients -> Nat]
      /\ op' \in [Clients -> Ops] /\ result' \in [Clients -> Results]
  BY DEF OwnVars, ClientTypeOK, Ops, Results
<1>5. start' \in [Clients -> Starts \cup {Msg("none")}]  BY DEF OwnVars, ClientTypeOK
<1>6. begun' \in [Conns -> Nat]  BY BegunType
<1>7. QED  BY <1>2, <1>3, <1>4, <1>5, <1>6 DEF ClientTypeOK, Ops, Results

\* The connection that a client's step is about: its own, or a new one.
LEMMA OneConnection ==
    ASSUME ClientTypeOK, StreamInv, NEW c \in Clients, ClientMove(c)
    PROVE  \A i \in Conns :
              \/ c2s'[i] = c2s[i] /\ s2c'[i] = s2c[i]
              \/ stream[c] = i
<1> USE DEF agentVars, sockVars
<1>1. c2s \in [Conns -> Seq(Requests)] /\ s2c \in [Conns -> Seq(Replies)]  BY DEF ClientTypeOK
<1>2. CASE UNCHANGED serverVars  BY <1>2 DEF serverVars
<1>3. ASSUME NEW i \in Conns, Connect(i) PROVE UNCHANGED <<c2s, s2c>>  BY <1>3 DEF Connect
<1>4. ASSUME NEW m, Send(stream[c], m)
      PROVE  c2s' = [c2s EXCEPT ![stream[c]] = Append(@, m)] /\ s2c' = s2c
  BY <1>4 DEF Send
<1>5. ASSUME Read(stream[c]) \/ HangUp(stream[c])
      PROVE  s2c' = [s2c EXCEPT ![stream[c]] = <<>>] /\ c2s' = c2s
  BY <1>5 DEF Read, HangUp
<1>6. QED  BY <1>1, <1>2, <1>3, <1>4, <1>5 DEF ClientMove

LEMMA ClientStreams ==
    ASSUME SInv, ClientTypeOK, StreamInv, ConnForward, NEW c \in Clients, ClientMove(c)
    PROVE  StreamInv'
<1>1. stream \in [Clients -> Conns \cup {None}] /\ None \notin Conns
  BY NoneIsNoConn DEF ClientTypeOK
<1>2. \A i \in Conns : conn[i] = "unused" => PipeKept(i)
  BY <1>1, OneConnection DEF StreamInv, PipeKept
<1>3. \A i \in Conns : conn'[i] = "unused" => c2s'[i] = <<>> /\ s2c'[i] = <<>>
  BY <1>2 DEF StreamInv, PipeKept, ConnForward
<1>4. CASE stream' = stream  BY <1>2, <1>4, StreamKept
<1>5. CASE stream' = [stream EXCEPT ![c] = None]
  <2>1. /\ \A d, e \in Clients : stream'[d] # None /\ stream'[d] = stream'[e] => d = e
        /\ \A d \in Clients : stream'[d] # None => conn'[stream'[d]] # "unused"
    BY <1>1, <1>5 DEF StreamInv, ConnForward
  <2>2. QED  BY <1>3, <2>1 DEF StreamInv
<1>6. ASSUME NEW i \in Conns, Connect(i), stream' = [stream EXCEPT ![c] = i] PROVE StreamInv'
  <2>1. conn[i] = "unused" /\ conn' = [conn EXCEPT ![i] = "backlog"]  BY <1>6 DEF Connect
  <2>2. conn'[i] = "backlog"  BY <2>1 DEF SInv, SessionTypeOK
  <2>3. \A d \in Clients : stream[d] # i  BY <2>1, <1>1 DEF StreamInv
  <2>4. /\ \A d, e \in Clients : stream'[d] # None /\ stream'[d] = stream'[e] => d = e
        /\ \A d \in Clients : stream'[d] # None => conn'[stream'[d]] # "unused"
    BY <1>1, <1>6, <2>2, <2>3 DEF StreamInv, ConnForward
  <2>5. QED  BY <1>3, <2>4 DEF StreamInv
<1>7. QED  BY <1>4, <1>5, <1>6 DEF ClientMove

LEMMA OtherClients ==
    ASSUME ClientInv, ConnForward, BegunStep, NEW c \in Clients, ClientMove(c), OwnVars(c),
           NEW d \in Clients, d # c
    PROVE  CInv(d)'
<1>1. ClientTypeOK /\ StreamInv /\ CInv(d)  BY DEF ClientInv
<1>2. stream'[d] = stream[d]  BY <1>1 DEF ClientMove, ClientTypeOK
<1>3. SameClient(d)  BY <1>1, <1>2 DEF OwnVars, SameClient, ClientTypeOK
<1>4. stream[d] # None => stream[d] \in Conns /\ stream[c] # stream[d]
  BY <1>1 DEF StreamInv, ClientTypeOK
<1>5. stream[d] # None => PipeKept(stream[d])  BY <1>1, <1>4, OneConnection DEF PipeKept
<1>6. QED  BY <1>1, <1>3, <1>5, Untouched

-----------------------------------------------------------------------------
(* The clients' steps: the client itself.                                   *)

\* A client without a connection has nothing to be mistaken about.
LEMMA NoStream ==
    ASSUME NEW c \in Clients, ProgressInv(c)', stream'[c] = None,
           op'[c] = "start" => result'[c] # "ok" \/ pc'[c] = "dead"
    PROVE  CInv(c)'
  BY DEF CInv, PipeInv, ResultInv

LEMMA OwnCall ==
    ASSUME ClientInv, NEW c \in Clients, NEW o \in Ops \ {"none"},
           NEW m \in Starts \cup {Msg("none")}, o = "start" => m \in Starts, Call(c, o, m)
    PROVE  CInv(c)'
<1>1. ClientTypeOK /\ CInv(c)  BY DEF ClientInv
<1>2. pc[c] = "idle" /\ op'[c] = o /\ start'[c] = m /\ stream' = stream /\ UNCHANGED serverVars
  BY <1>1 DEF Call, ClientTypeOK
<1>3. UNCHANGED <<c2s, s2c>>  BY <1>2 DEF serverVars, sockVars
<1>4. CASE o \in {"continue", "stop"} /\ stream[c] = None
  <2>1. pc'[c] = "idle" /\ result'[c] = "ok"
    BY <1>1, <1>4 DEF Call, Return, ClientTypeOK
  <2>2. ProgressInv(c)'  BY <1>2, <1>4, <2>1 DEF ProgressInv
  <2>3. QED  BY <1>2, <1>4, <2>2, NoStream
<1>5. CASE ~(o \in {"continue", "stop"} /\ stream[c] = None)
  <2>1. /\ pc'[c] = IF o \in {"start", "check_version"} THEN "connect" ELSE o
        /\ result'[c] = "none"
    BY <1>1, <1>5 DEF Call, ClientTypeOK
  <2>2. ProgressInv(c)'  BY <1>2, <1>5, <2>1 DEF ProgressInv, Ops
  <2>3. PipeInv(c)'
    <3>1. pc[c] \in Quiet /\ pc'[c] \in Quiet  BY <1>2, <2>1 DEF Quiet, Ops
    <3>2. SUFFICES ASSUME stream[c] # None
                   PROVE  Pipe(pc'[c], c2s[stream[c]], s2c[stream[c]], Began(c)')
      BY <1>2, <1>3 DEF PipeInv
    <3>3. Pipe(pc[c], c2s[stream[c]], s2c[stream[c]], Began(c))
      BY <1>1, <3>2 DEF CInv, PipeInv
    <3>4. QED  BY <3>1, <3>3, PipeQuiet
  <2>4. ResultInv(c)'  BY <2>1 DEF ResultInv
  <2>5. QED  BY <2>2, <2>3, <2>4 DEF CInv
<1>6. QED  BY <1>4, <1>5

LEMMA OwnConnect ==
    ASSUME ClientInv, NEW c \in Clients, ConnectOrReuse(c)
    PROVE  CInv(c)'
<1>1. ClientTypeOK /\ CInv(c) /\ StreamInv  BY DEF ClientInv
<1>2. pc[c] = "connect" /\ op' = op /\ start' = start  BY DEF ConnectOrReuse
<1>3. result[c] = "none" /\ op[c] \in {"start", "check_version"}
  BY <1>1, <1>2 DEF CInv, ProgressInv
<1>4. CASE stream[c] # None /\ Goto(c, "version") /\ UNCHANGED <<serverVars, stream>>
  <2>1. pc'[c] = "version" /\ result'[c] = "none"
    BY <1>1, <1>3, <1>4 DEF Goto, ClientTypeOK
  <2>2. UNCHANGED <<c2s, s2c, stream>>  BY <1>4 DEF serverVars, sockVars
  <2>3. ProgressInv(c)'  BY <1>1, <1>2, <1>3, <1>4, <2>1, <2>2 DEF CInv, ProgressInv
  <2>4. PipeInv(c)'
    <3>1. Pipe(pc[c], c2s[stream[c]], s2c[stream[c]], Began(c))
      BY <1>1, <1>4 DEF CInv, PipeInv
    <3>2. Pipe(pc'[c], c2s[stream[c]], s2c[stream[c]], Began(c)')
      BY <1>2, <2>1, <3>1, PipeQuiet DEF Quiet
    <3>3. QED  BY <2>2, <3>2 DEF PipeInv
  <2>5. QED  BY <2>1, <2>3, <2>4 DEF CInv, ResultInv
<1>5. ASSUME NEW i \in Conns, Connect(i), stream' = [stream EXCEPT ![c] = i],
             Goto(c, "version")
      PROVE  CInv(c)'
  <2>1. pc'[c] = "version" /\ result'[c] = "none" /\ stream'[c] = i /\ i # None
    BY <1>1, <1>3, <1>5, NoneIsNoConn DEF Goto, ClientTypeOK
  <2>2. conn[i] = "unused" /\ UNCHANGED <<c2s, s2c>>  BY <1>5 DEF Connect
  <2>3. c2s'[i] = <<>> /\ s2c'[i] = <<>>  BY <1>1, <2>2 DEF StreamInv
  <2>4. ProgressInv(c)'  BY <1>1, <1>2, <1>3, <2>1 DEF CInv, ProgressInv
  <2>5. PipeInv(c)'  BY <2>1, <2>3, PipeNew DEF PipeInv
  <2>6. QED  BY <2>1, <2>4, <2>5 DEF CInv, ResultInv
<1>6. CASE stream[c] = None /\ Return(c, "err") /\ UNCHANGED <<serverVars, stream>>
  <2>1. pc'[c] = "idle" /\ result'[c] = "err" /\ stream'[c] = None
    BY <1>1, <1>6 DEF Return, ClientTypeOK
  <2>2. ProgressInv(c)'  BY <1>1, <1>2, <2>1 DEF CInv, ProgressInv
  <2>3. QED  BY <2>1, <2>2, NoStream
<1>7. QED  BY <1>4, <1>5, <1>6 DEF ConnectOrReuse

LEMMA OwnSend ==
    ASSUME ClientInv, NEW c \in Clients, SendRequest(c)
    PROVE  CInv(c)'
<1> DEFINE i == stream[c]
<1>1. ClientTypeOK /\ CInv(c) /\ ProgressInv(c)  BY DEF ClientInv, CInv
<1>2. /\ pc[c] \in Sending /\ UNCHANGED <<stream, op, start, calls>>
      /\ pc'[c] = Awaiting(pc[c]) /\ result' = result
  BY <1>1 DEF SendRequest, Goto, ClientTypeOK
<1>3. i # None /\ i \in Conns  BY <1>1, <1>2 DEF ProgressInv, Sending, ClientTypeOK
<1>4. c2s' = [c2s EXCEPT ![i] = Append(@, Request(c))] /\ s2c' = s2c
  BY DEF SendRequest, Send
<1>5. c2s \in [Conns -> Seq(Requests)] /\ c2s[i] \in Seq(Requests)
  BY <1>1, <1>3 DEF ClientTypeOK
<1>6. c2s'[i] = Append(c2s[i], Request(c))  BY <1>3, <1>4, <1>5
<1>7. ProgressInv(c)'
  <2>1. Awaiting(pc[c]) = IF pc[c] = "version" THEN "await_version"
                          ELSE IF pc[c] = "start" THEN "await_start"
                          ELSE IF pc[c] = "continue" THEN "await_continue" ELSE "await_stop"
    BY DEF Awaiting
  <2>2. QED  BY <1>1, <1>2, <2>1 DEF ProgressInv, Sending
<1>8. PipeInv(c)'
  <2>1. Pipe(pc[c], c2s[i], s2c[i], Began(c))  BY <1>1, <1>3 DEF CInv, PipeInv
  <2>2. /\ Request(c) \in Requests
        /\ pc[c] = "version" => Request(c).type = "Version"
        /\ pc[c] = "start" => Request(c).type = "Start"
        /\ pc[c] \in {"continue", "stop"} => Request(c).type \in NotStart
    BY <1>1, <1>2, RequestType
  <2>3. Pipe(Awaiting(pc[c]), Append(c2s[i], Request(c)), s2c[i], Began(c)')
    BY <1>2, <1>5, <2>1, <2>2, PipeSend
  <2>4. QED  BY <1>2, <1>4, <1>6, <2>3 DEF PipeInv
<1>9. ResultInv(c)'
  <2>1. result[c] = "none"  BY <1>1, <1>2 DEF ProgressInv, Sending
  <2>2. QED  BY <1>2, <2>1 DEF ResultInv
<1>10. QED  BY <1>7, <1>8, <1>9 DEF CInv

\* A call that gives up its connection: it is not a start() that succeeded.
LEMMA OwnDrop ==
    ASSUME ClientInv, NEW c \in Clients, DropStream(c), NEW r \in Results, Return(c, r),
           UNCHANGED <<op, start, calls>>, op[c] = "start" => r # "ok"
    PROVE  CInv(c)'
<1>1. ClientTypeOK /\ CInv(c)  BY DEF ClientInv
<1>2. stream'[c] = None /\ pc'[c] = "idle" /\ result'[c] = r
  BY <1>1 DEF DropStream, Return, ClientTypeOK
<1>3. ProgressInv(c)'  BY <1>1, <1>2 DEF CInv, ProgressInv
<1>4. QED  BY <1>2, <1>3, NoStream

LEMMA TakenAnswer ==
    ASSUME ClientTypeOK, NEW c \in Clients, stream[c] \in Conns, TakeAnswer(c)
    PROVE  /\ UNCHANGED <<stream, conn, c2s>>
           /\ s2c'[stream[c]] = <<>>
<1> USE DEF agentVars, sockVars
<1>1. CASE s2c[stream[c]] # <<>>
  BY <1>1 DEF TakeAnswer, KeepStream, Read, ClientTypeOK
<1>2. CASE s2c[stream[c]] = <<>>
  BY <1>2 DEF TakeAnswer, KeepStream, serverVars
<1>3. QED  BY <1>1, <1>2

\* A call other than start() that keeps its connection, or a start() that failed.
LEMMA OwnReturn ==
    ASSUME ClientInv, NEW c \in Clients, stream[c] \in Conns, TakeAnswer(c),
           NEW r \in Results, Return(c, r), pc[c] # "await_start",
           UNCHANGED <<op, start, calls>>, op[c] = "start" => r # "ok"
    PROVE  CInv(c)'
<1>1. ClientTypeOK /\ CInv(c) /\ stream[c] # None  BY NoneIsNoConn DEF ClientInv
<1>2. stream' = stream /\ c2s' = c2s /\ s2c'[stream[c]] = <<>>
  BY <1>1, TakenAnswer
<1>3. pc'[c] = "idle" /\ result'[c] = r  BY <1>1 DEF Return, ClientTypeOK
<1>4. ProgressInv(c)'  BY <1>1, <1>3 DEF CInv, ProgressInv
<1>5. PipeInv(c)'
  <2>1. Pipe(pc[c], c2s[stream[c]], s2c[stream[c]], Began(c))  BY <1>1 DEF CInv, PipeInv
  <2>2. Pipe("idle", c2s[stream[c]], <<>>, Began(c)')  BY <2>1, PipeTaken
  <2>3. QED  BY <1>2, <1>3, <2>2 DEF PipeInv
<1>6. ResultInv(c)'  BY <1>3 DEF ResultInv
<1>7. QED  BY <1>4, <1>5, <1>6 DEF CInv

LEMMA OwnSendFails ==
    ASSUME ClientInv, NEW c \in Clients, SendFails(c)
    PROVE  CInv(c)'
<1>1. ClientTypeOK /\ CInv(c) /\ ProgressInv(c)  BY DEF ClientInv, CInv
<1>2. pc[c] \in Sending /\ UNCHANGED <<op, start, calls>>  BY DEF SendFails
<1>3. CASE pc[c] \in {"version", "continue"}
  <2>1. /\ UNCHANGED <<stream, c2s, s2c>>
        /\ pc'[c] = "idle" /\ result'[c] = "err"
    BY <1>1, <1>3 DEF SendFails, KeepStream, serverVars, sockVars, Return, ClientTypeOK
  <2>2. ProgressInv(c)'  BY <1>1, <1>2, <2>1 DEF ProgressInv
  <2>3. PipeInv(c)'
    <3>1. SUFFICES ASSUME stream[c] # None
                   PROVE  Pipe("idle", c2s[stream[c]], s2c[stream[c]], Began(c)')
      BY <2>1 DEF PipeInv
    <3>2. Pipe(pc[c], c2s[stream[c]], s2c[stream[c]], Began(c))
      BY <1>1, <3>1 DEF CInv, PipeInv
    <3>3. QED  BY <1>3, <3>2, PipeQuiet DEF Quiet
  <2>4. QED  BY <2>1, <2>2, <2>3 DEF CInv, ResultInv
<1>4. CASE pc[c] = "start"
  <2>1. DropStream(c) /\ Return(c, "err")  BY <1>4 DEF SendFails
  <2>2. QED  BY <1>2, <2>1, OwnDrop DEF Results
<1>5. CASE pc[c] = "stop"
  <2>1. DropStream(c) /\ Return(c, "ok")  BY <1>5 DEF SendFails
  <2>2. op[c] = "stop"  BY <1>1, <1>5 DEF ProgressInv
  <2>3. QED  BY <1>2, <2>1, <2>2, OwnDrop DEF Results
<1>6. QED  BY <1>2, <1>3, <1>4, <1>5 DEF Sending

LEMMA AnswerArrived ==
    ASSUME NEW i \in Conns, NEW m \in Responses(i), m.type # "Failed"
    PROVE  s2c[i] # <<>> /\ m \in Decoded(s2c[i])
<1>1. Failed.type = "Failed"  BY DEF Failed, Msg
<1>2. QED  BY <1>1 DEF Responses

LEMMA OwnVersion ==
    ASSUME ClientInv, NEW c \in Clients, stream[c] \in Conns, pc[c] = "await_version",
           NEW m \in Responses(stream[c]), AfterVersion(c, m), UNCHANGED <<op, start, calls>>
    PROVE  CInv(c)'
<1>1. /\ ClientTypeOK /\ CInv(c) /\ ProgressInv(c) /\ stream[c] # None
      /\ op[c] \in {"start", "check_version"}
  BY NoneIsNoConn DEF ClientInv, CInv, ProgressInv
<1>2. CASE Return(c, "err") /\ TakeAnswer(c)  BY <1>2, OwnReturn DEF Results
<1>3. CASE op[c] = "check_version" /\ Return(c, "ok") /\ TakeAnswer(c)
  BY <1>3, OwnReturn DEF Results
<1>4. CASE Return(c, "err") /\ DropStream(c)  BY <1>4, OwnDrop DEF Results
<1>5. CASE /\ m.type = "VersionResponse" /\ op[c] # "check_version"
           /\ Goto(c, "start") /\ TakeAnswer(c)
  <2>1. op[c] = "start" /\ s2c[stream[c]] # <<>>  BY <1>1, <1>5, AnswerArrived
  <2>2. stream' = stream /\ c2s' = c2s /\ s2c'[stream[c]] = <<>>  BY <1>1, <1>5, TakenAnswer
  <2>3. pc'[c] = "start" /\ result'[c] = "none"
    BY <1>1, <1>5 DEF Goto, ClientTypeOK, ProgressInv
  <2>4. ProgressInv(c)'  BY <1>1, <2>1, <2>2, <2>3 DEF ProgressInv
  <2>5. PipeInv(c)'
    <3>1. Pipe("await_version", c2s[stream[c]], s2c[stream[c]], Began(c))
      BY <1>1 DEF CInv, PipeInv
    <3>2. Pipe("start", c2s[stream[c]], <<>>, Began(c)')  BY <2>1, <3>1, PipeVersionTaken
    <3>3. QED  BY <2>2, <2>3, <3>2 DEF PipeInv
  <2>6. QED  BY <2>3, <2>4, <2>5 DEF CInv, ResultInv
<1>6. QED  BY <1>2, <1>3, <1>4, <1>5 DEF AfterVersion

LEMMA OwnStart ==
    ASSUME ClientInv, ConnForward, BegunStep, NEW c \in Clients, stream[c] \in Conns,
           pc[c] = "await_start", NEW m \in Responses(stream[c]), AfterStart(c, m),
           UNCHANGED <<op, start, calls>>
    PROVE  CInv(c)'
<1> DEFINE i == stream[c]
<1>1. /\ ClientTypeOK /\ CInv(c) /\ ProgressInv(c) /\ i # None
      /\ s2c[i] \in Seq(Replies)
  BY NoneIsNoConn DEF ClientInv, CInv, ClientTypeOK
<1>2. CASE m.type # "Ack"
  <2>1. Return(c, "err") /\ DropStream(c)  BY <1>2 DEF AfterStart
  <2>2. QED  BY <2>1, OwnDrop DEF Results
<1>3. CASE m.type = "Ack"
  <2>1. Return(c, "ok") /\ TakeAnswer(c)  BY <1>3 DEF AfterStart
  <2>2. s2c[i] # <<>> /\ m \in Decoded(s2c[i])  BY <1>3, AnswerArrived
  <2>3. m = s2c[i][Len(s2c[i])]
    <3>1. Garbled.type # "Ack"  BY DEF Garbled, Msg
    <3>2. QED  BY <1>1, <1>3, <2>2, <3>1, DecodedLast
  <2>4. Pipe("await_start", c2s[i], s2c[i], Began(c))  BY <1>1 DEF CInv, PipeInv
  <2>5. Began(c) /\ Pipe("idle", c2s[i], <<>>, Began(c)')
    BY <1>1, <1>3, <2>2, <2>3, <2>4, PipeAck
  <2>6. stream' = stream /\ c2s' = c2s /\ s2c'[i] = <<>>  BY <1>1, <2>1, TakenAnswer
  <2>7. pc'[c] = "idle" /\ result'[c] = "ok"  BY <1>1, <2>1 DEF Return, ClientTypeOK
  <2>8. ProgressInv(c)'  BY <1>1, <2>7 DEF ProgressInv
  <2>9. PipeInv(c)'  BY <2>5, <2>6, <2>7 DEF PipeInv
  <2>10. Began(c)'
    <3>1. begun'[i] = begun[i] /\ conn'[i] \in Ended  BY <2>5, BegunKept DEF Began, Ended
    <3>2. QED  BY <2>5, <2>6, <3>1 DEF Began, Ended
  <2>11. ResultInv(c)'  BY <1>1, <2>6, <2>10 DEF ResultInv
  <2>12. QED  BY <2>8, <2>9, <2>11 DEF CInv
<1>4. QED  BY <1>2, <1>3

LEMMA OwnRespond ==
    ASSUME ClientInv, ConnForward, BegunStep, NEW c \in Clients, stream[c] # None, Respond(c)
    PROVE  CInv(c)'
<1>1. ClientTypeOK /\ CInv(c) /\ ProgressInv(c) /\ stream[c] \in Conns
  BY DEF ClientInv, CInv, ClientTypeOK
<1>2. UNCHANGED <<op, start, calls>>  BY DEF Respond
<1>3. PICK m \in Responses(stream[c]) :
         \/ pc[c] = "await_version" /\ AfterVersion(c, m)
         \/ pc[c] = "await_start" /\ AfterStart(c, m)
         \/ pc[c] = "await_continue" /\ AfterContinue(c, m)
         \/ pc[c] = "await_stop" /\ AfterStop(c, m)
  BY DEF Respond
<1>4. CASE pc[c] = "await_version" /\ AfterVersion(c, m)  BY <1>1, <1>2, <1>4, OwnVersion
<1>5. CASE pc[c] = "await_start" /\ AfterStart(c, m)  BY <1>1, <1>2, <1>5, OwnStart
<1>6. CASE pc[c] = "await_continue" /\ AfterContinue(c, m)
  <2>1. op[c] = "continue"  BY <1>1, <1>6 DEF ProgressInv
  <2>2. TakeAnswer(c) /\ (Return(c, "ok") \/ Return(c, "err"))  BY <1>6 DEF AfterContinue
  <2>3. QED  BY <1>1, <1>2, <1>6, <2>1, <2>2, OwnReturn DEF Results
<1>7. CASE pc[c] = "await_stop" /\ AfterStop(c, m)
  <2>1. op[c] = "stop"  BY <1>1, <1>7 DEF ProgressInv
  <2>2. QED  BY <1>2, <1>7, <2>1, OwnDrop DEF AfterStop, Results
<1>8. QED  BY <1>3, <1>4, <1>5, <1>6, <1>7

LEMMA OwnDie == ASSUME ClientInv, NEW c \in Clients, Die(c) PROVE CInv(c)'
<1>1. ClientTypeOK /\ CInv(c)  BY DEF ClientInv
<1>2. pc'[c] = "dead" /\ stream'[c] = None /\ UNCHANGED <<op, start>>
  BY <1>1 DEF Die, DropStream, ClientTypeOK
<1>3. ProgressInv(c)'  BY <1>1, <1>2 DEF CInv, ProgressInv
<1>4. QED  BY <1>2, <1>3, NoStream

LEMMA ClientKeeps ==
    ASSUME SInv, ClientInv, ConnForward, BegunStep, NEW c \in Clients, ClientStep(c)
    PROVE  ClientInv'
<1>1. ClientTypeOK /\ StreamInv /\ ProgressInv(c)  BY DEF ClientInv, CInv
<1>2. ClientMove(c) /\ OwnVars(c)  BY <1>1, ClientMoves, ClientVars
<1>3. ClientTypeOK' /\ StreamInv'  BY <1>1, <1>2, ClientTypes, ClientStreams
<1>4. CInv(c)'
  <2>1. ASSUME NEW m \in Starts, Call(c, "start", m) PROVE CInv(c)'
    BY <2>1, OwnCall DEF Ops
  <2>2. ASSUME NEW o \in {"check_version", "continue", "stop"}, Call(c, o, Msg("none"))
        PROVE  CInv(c)'
    BY <2>2, OwnCall DEF Ops
  <2>3. QED
    BY <2>1, <2>2, OwnConnect, OwnSend, OwnSendFails, OwnRespond, OwnDie
       DEF ClientStep, InCall
<1>5. \A d \in Clients : d # c => CInv(d)'  BY <1>2, OtherClients
<1>6. QED  BY <1>3, <1>4, <1>5 DEF ClientInv

-----------------------------------------------------------------------------
LEMMA ClientsInit == SystemInit => SInv /\ ClientInv
<1> SUFFICES ASSUME SystemInit PROVE SInv /\ ClientInv  OBVIOUS
<1>1. SInv  BY SessionInit DEF SystemInit
<1>2. c2s = [i \in Conns |-> <<>>] /\ s2c = [i \in Conns |-> <<>>]
  BY DEF SystemInit, ServerInit
<1>3. <<>> \in Seq(Requests) /\ <<>> \in Seq(Replies)  OBVIOUS
<1>4. c2s \in [Conns -> Seq(Requests)] /\ s2c \in [Conns -> Seq(Replies)]  BY <1>2, <1>3
<1>5. ClientTypeOK  BY <1>4 DEF SystemInit, ClientTypeOK, Steps
<1>6. StreamInv  BY <1>2 DEF SystemInit, StreamInv
<1>7. \A c \in Clients : CInv(c)
  BY DEF SystemInit, CInv, ProgressInv, PipeInv, ResultInv
<1>8. QED  BY <1>1, <1>5, <1>6, <1>7 DEF ClientInv

LEMMA ClientsNext ==
    ASSUME SInv, ClientInv, [SystemNext]_vars PROVE SInv' /\ ClientInv'
<1>1. [ServerNext]_serverVars  BY SystemMoves
<1>2. SInv' /\ ConnForward  BY <1>1, SessionNext, Forward
<1>3. CASE UNCHANGED vars
  <2>1. UNCHANGED <<conn, c2s, s2c, stream, pc, op, result, start, calls, begun>>
    BY <1>3 DEF vars, serverVars, agentVars, sockVars, clientVars
  <2>2. ClientTypeOK' /\ StreamInv'  BY <2>1 DEF ClientInv, ClientTypeOK, StreamInv
  <2>3. \A c \in Clients : CInv(c)'
    BY <2>1 DEF ClientInv, CInv, ProgressInv, PipeInv, ResultInv, Began
  <2>4. QED  BY <1>2, <2>2, <2>3 DEF ClientInv
<1>4. CASE SystemNext
  <2>1. BegunStep  BY <1>4 DEF SystemNext, BegunStep
  <2>2. CASE (AgentStep \/ Shutdown \/ \E i \in Conns : Elapse(i)) /\ UNCHANGED clientVars
    BY <1>2, <2>1, <2>2, AgentKeeps
  <2>3. CASE \E c \in Clients : ClientStep(c)  BY <1>2, <2>1, <2>3, ClientKeeps
  <2>4. QED  BY <1>2, <1>4, <2>2, <2>3 DEF SystemNext
<1>5. QED  BY <1>3, <1>4

LEMMA ClientsInv == SystemSafetySpec => [](SInv /\ ClientInv)
<1>1. (SInv /\ ClientInv) /\ [SystemNext]_vars => (SInv /\ ClientInv)'  BY ClientsNext
<1>2. QED  BY <1>1, ClientsInit, PTL DEF SystemSafetySpec

\* AgentClients, their deaths included, do nothing to the agent's sockets that
\* the agent is not prepared for: the system of agent and clients implements
\* the agent with any peer at all, so that what is proved of that one (one
\* session, its recording, its process id) holds for the system.
THEOREM ClientsImplementPeers == SystemSafetySpec => ClientsAreEnvironment
<1>1. SystemInit => ServerInit  BY DEF SystemInit
<1>2. (SInv /\ ClientInv) /\ [SystemNext]_vars => [ServerNext]_serverVars  BY SystemMoves
<1>3. QED
  BY <1>1, <1>2, ClientsInv, PTL DEF SystemSafetySpec, ServerSpec, ClientsAreEnvironment

\* start() returns Ok only when the session on its connection was begun by the
\* Start of that very call, for any number of clients, calls and connections and
\* however late the answers are.
THEOREM StartOkCorrect == SystemSafetySpec => []StartOkMeansStarted
<1>1. SInv /\ ClientInv => StartOkMeansStarted
  BY DEF ClientInv, CInv, ResultInv, Began, StartOkMeansStarted
<1>2. QED  BY <1>1, ClientsInv, PTL
=============================================================================
