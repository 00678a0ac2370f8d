----------------------------- MODULE AgentServer -----------------------------
(***************************************************************************)
(* The agent inside a traced application: one thread that listens on a     *)
(* unix socket (epoll_thread.rs) and keeps the state of the control        *)
(* protocol (agent_state.rs).  A step of the thread is one epoll event     *)
(* with everything it triggers: the handler, the replies it queues and the *)
(* removal of the connections it gives up (process_actions).               *)
(*                                                                         *)
(* The entry of a connection in AgentState.clients and its socket in       *)
(* client_sockets are made and removed together: conn[i] stands for both.  *)
(* Whoever is at the other end is the environment here; AgentSystem puts   *)
(* AgentClients there.                                                     *)
(***************************************************************************)
EXTENDS Naturals, Sequences

CONSTANTS Conns,         \* connections, each used once (client ids)
          HasExtension,  \* was a tracing extension registered?
          StartKinds,    \* kinds of Start messages that are sent
          PidOptions,    \* values of the random_process_id option
          AgentVersion,  \* protocol::VERSION of the agent's build
          MaxQueue,      \* bound: unread messages and replies on a connection
          None

ASSUME ServerAssumption ==
    /\ HasExtension \in BOOLEAN
    /\ StartKinds \subseteq {"good", "noargs", "badfds", "badring", "badfilter", "long"}
    /\ PidOptions \subseteq {"absent", "false", "true", "other"}
    /\ MaxQueue \in Nat
    /\ None \notin Conns

VARIABLES
    conn,            \* state of each connection, as the agent sees it
    fresh,           \* is the client's timestamp at most a timeout old?
    startedClient,   \* AgentState.started_client
    anotherStarted,  \* AgentState.ctx.another_started
    extActive,       \* AgentState.extension_active
    recording,       \* the extension: whose ring does it submit to?
    processId,       \* the process id that events carry: own or random
    announced,       \* pid of the last process track put into each client's ring
    running,         \* has the thread not been told to shut down?
    c2s, s2c,        \* what is in the socket, in each direction
    hup,             \* has the client closed its end?
    backlog,         \* connections waiting to be accepted
    edge,            \* has the listener become readable since its last event?
    ready            \* the same of each connection

agentVars == <<conn, fresh, startedClient, anotherStarted, extActive, recording,
               processId, announced>>
sockVars == <<c2s, s2c, hup, backlog, edge, ready>>
serverVars == <<agentVars, sockVars, running>>

-----------------------------------------------------------------------------
(* Control messages (protocol::ControlMessage).                             *)

Msg(type) == [type |-> type, kind |-> "none", pid |-> "none", version |-> "none"]
StartMsg(kind, pid) == [Msg("Start") EXCEPT !.kind = kind, !.pid = pid]
VersionResponse(v) == [Msg("VersionResponse") EXCEPT !.version = v]

Requests == {Msg("Version"), Msg("Continue"), Msg("Stop")}
            \cup {StartMsg(kind, pid) : kind \in StartKinds, pid \in PidOptions}
Replies == {Msg("Ack"), Msg("Nack"), VersionResponse(AgentVersion)}

\* The bytes of several messages read at once decode as the last of them, or
\* not at all; neither does a message longer than the receive buffer.
Garbled == Msg("Garbled")
Decoded(chunk) ==
    LET last == chunk[Len(chunk)] IN
    {IF last.kind = "long" THEN Garbled ELSE last}
    \cup (IF Len(chunk) > 1 THEN {Garbled} ELSE {})

-----------------------------------------------------------------------------
ServerInit ==
    /\ conn = [i \in Conns |-> "unused"]
    /\ fresh = [i \in Conns |-> FALSE]
    /\ startedClient = None /\ anotherStarted = FALSE
    /\ extActive = FALSE /\ recording = None
    /\ processId = "own" /\ announced = [i \in Conns |-> "none"]
    /\ running = TRUE
    /\ c2s = [i \in Conns |-> <<>>]
    /\ s2c = [i \in Conns |-> <<>>]
    /\ hup = [i \in Conns |-> FALSE]
    /\ backlog = <<>> /\ edge = FALSE
    /\ ready = [i \in Conns |-> FALSE]

Registered(i) == conn[i] \in {"Pending", "Started"}

-----------------------------------------------------------------------------
(* The other end of the socket.                                             *)

Connect(i) ==
    /\ running /\ conn[i] = "unused"
    /\ conn' = [conn EXCEPT ![i] = "backlog"]
    /\ backlog' = Append(backlog, i)
    /\ edge' = TRUE
    /\ UNCHANGED <<fresh, startedClient, anotherStarted, extActive, recording,
                   processId, announced, running, c2s, s2c, hup, ready>>

\* The agent has not closed the connection: sendmsg succeeds.
Writable(i) == conn[i] \in {"backlog", "Pending", "Started"}

Send(i, m) ==
    /\ Writable(i) /\ ~hup[i]
    /\ Len(c2s[i]) + Len(s2c[i]) < MaxQueue
    /\ c2s' = [c2s EXCEPT ![i] = Append(@, m)]
    /\ ready' = [ready EXCEPT ![i] = TRUE]
    /\ UNCHANGED <<agentVars, running, s2c, hup, backlog, edge>>

\* recv takes all the replies that have arrived.
Read(i) ==
    /\ ~hup[i] /\ s2c[i] # <<>>
    /\ s2c' = [s2c EXCEPT ![i] = <<>>]
    /\ UNCHANGED <<agentVars, running, c2s, hup, backlog, edge, ready>>

HangUp(i) ==
    /\ conn[i] # "unused" /\ ~hup[i]
    /\ hup' = [hup EXCEPT ![i] = TRUE]
    /\ s2c' = [s2c EXCEPT ![i] = <<>>]
    /\ UNCHANGED <<agentVars, running, c2s, backlog, edge, ready>>

-----------------------------------------------------------------------------
(* The event loop.                                                          *)

\* The listener is edge-triggered, and one connection is accepted per event.
Accept ==
    /\ running /\ edge /\ backlog # <<>>
    /\ edge' = FALSE
    /\ backlog' = Tail(backlog)
    /\ conn' = [conn EXCEPT ![Head(backlog)] = "Pending"]
    /\ fresh' = [fresh EXCEPT ![Head(backlog)] = TRUE]
    /\ UNCHANGED <<startedClient, anotherStarted, extActive, recording, processId,
                   announced, running, c2s, s2c, hup, ready>>

\* process_actions drops what it cannot send.
Reply(i, m) == s2c' = IF hup[i] THEN s2c ELSE [s2c EXCEPT ![i] = Append(@, m)]

\* Mutant: the flag that another client is started is not reset.
HandleDisconnect_KeepsFlag(i) ==
    /\ conn' = [conn EXCEPT ![i] = "closed"]
    /\ IF startedClient = i
       THEN /\ recording' = IF extActive THEN None ELSE recording
            /\ extActive' = FALSE
            /\ startedClient' = None
       ELSE UNCHANGED <<recording, extActive, startedClient>>
    /\ UNCHANGED anotherStarted

\* handle_disconnect, and the removal that its DeleteEpoll leads to.
HandleDisconnect(i) ==
    /\ conn' = [conn EXCEPT ![i] = "closed"]
    /\ IF startedClient = i
       THEN /\ recording' = IF extActive THEN None ELSE recording
            /\ extActive' = FALSE
            /\ anotherStarted' = FALSE /\ startedClient' = None
       ELSE UNCHANGED <<recording, extActive, anotherStarted, startedClient>>

\* EPOLLHUP or EPOLLERR: whatever the client sent before is not read.
HandleHup(i) ==
    /\ running /\ Registered(i) /\ hup[i]
    /\ HandleDisconnect(i)
    /\ c2s' = [c2s EXCEPT ![i] = <<>>]
    /\ ready' = [ready EXCEPT ![i] = FALSE]
    /\ UNCHANGED <<fresh, processId, announced, running, s2c, hup, backlog, edge>>

\* process id requested by the options of a Start
PidAfter(pid) ==
    CASE pid = "true" -> "random"
      [] pid \in {"false", "absent"} -> "own"
      [] OTHER -> processId

Ignore == UNCHANGED <<agentVars, s2c>>

HandleVersion(i) ==
    /\ Reply(i, VersionResponse(AgentVersion))
    /\ UNCHANGED agentVars

StartRefused(i) ==
    /\ Reply(i, Msg("Nack"))
    /\ UNCHANGED agentVars

\* MpscProducer::new failed: disconnected without an answer.
StartBadRing(i) ==
    /\ HandleDisconnect(i)
    /\ UNCHANGED <<fresh, processId, announced, s2c>>

\* The options of a Start set the process id, and the process is announced in
\* the client's ring under it.
Announce(i, m) ==
    /\ processId' = PidAfter(m.pid)
    /\ announced' = [announced EXCEPT ![i] = PidAfter(m.pid)]

\* ext.start refused the filter, after that.
StartBadFilter(i, m) ==
    /\ Announce(i, m)
    /\ Reply(i, Msg("Nack"))
    /\ UNCHANGED <<conn, fresh, startedClient, anotherStarted, extActive, recording>>

StartAccepted(i, m) ==
    /\ Announce(i, m)
    /\ recording' = IF HasExtension THEN i ELSE recording
    /\ extActive' = (HasExtension \/ extActive)
    /\ Reply(i, Msg("Ack"))
    /\ anotherStarted' = TRUE /\ startedClient' = i
    /\ conn' = [conn EXCEPT ![i] = "Started"]
    /\ fresh' = [fresh EXCEPT ![i] = TRUE]

\* Mutant: the options are applied before the check for another session.
HandleStart_PidFirst(i, m) ==
    CASE anotherStarted \/ m.kind \in {"noargs", "badfds"} ->
            /\ processId' = PidAfter(m.pid)
            /\ Reply(i, Msg("Nack"))
            /\ UNCHANGED <<conn, fresh, startedClient, anotherStarted, extActive,
                           recording, announced>>
      [] ~anotherStarted /\ m.kind = "badring" -> StartBadRing(i)
      [] ~anotherStarted /\ m.kind = "badfilter" /\ HasExtension -> StartBadFilter(i, m)
      [] OTHER -> StartAccepted(i, m)

HandleStart(i, m) ==
    CASE anotherStarted \/ m.kind \in {"noargs", "badfds"} -> StartRefused(i)
      [] ~anotherStarted /\ m.kind = "badring" -> StartBadRing(i)
      [] ~anotherStarted /\ m.kind = "badfilter" /\ HasExtension -> StartBadFilter(i, m)
      [] OTHER -> StartAccepted(i, m)

HandleStop(i) ==
    /\ Reply(i, Msg("Ack"))
    /\ HandleDisconnect(i)
    /\ UNCHANGED <<fresh, processId, announced>>

HandleContinue(i) ==
    /\ fresh' = [fresh EXCEPT ![i] = TRUE]
    /\ Reply(i, Msg("Ack"))
    /\ UNCHANGED <<conn, startedClient, anotherStarted, extActive, recording, processId,
                   announced>>

\* Mutant: a Start on a started connection is acknowledged.
HandleMessage_AckRepeated(i, m) ==
    CASE m.type = "Version" -> HandleVersion(i)
      [] conn[i] = "Pending" /\ m.type = "Start" -> HandleStart(i, m)
      [] conn[i] = "Started" /\ m.type = "Stop" -> HandleStop(i)
      [] conn[i] = "Started" /\ m.type \in {"Continue", "Start"} -> HandleContinue(i)
      [] OTHER -> Ignore

HandleMessage(i, m) ==
    CASE m.type = "Version" -> HandleVersion(i)
      [] conn[i] = "Pending" /\ m.type = "Start" -> HandleStart(i, m)
      [] conn[i] = "Started" /\ m.type = "Stop" -> HandleStop(i)
      [] conn[i] = "Started" /\ m.type = "Continue" -> HandleContinue(i)
      [] OTHER -> Ignore

\* Connections are edge-triggered too, and one recvmsg is made per event.  It
\* returns everything up to a message with descriptors.
ChunkLen(q) ==
    LET starts == {k \in 1..Len(q) : q[k].type = "Start"} IN
    IF starts = {} THEN Len(q) ELSE CHOOSE k \in starts : \A l \in starts : k <= l

Receive(i) ==
    /\ running /\ Registered(i) /\ ready[i] /\ c2s[i] # <<>>
    /\ ready' = [ready EXCEPT ![i] = FALSE]
    /\ LET n == ChunkLen(c2s[i]) IN
       /\ \E m \in Decoded(SubSeq(c2s[i], 1, n)) : HandleMessage(i, m)
       /\ c2s' = [c2s EXCEPT ![i] = SubSeq(@, n + 1, Len(@))]
    /\ UNCHANGED <<running, hup, backlog, edge>>

\* More than the timeout has passed since the client's timestamp.
Elapse(i) ==
    /\ Registered(i) /\ fresh[i]
    /\ fresh' = [fresh EXCEPT ![i] = FALSE]
    /\ UNCHANGED <<conn, startedClient, anotherStarted, extActive, recording,
                   processId, announced, running, sockVars>>

\* Mutant: a client that timed out is removed but the extension goes on.
Timer_KeepsRecording ==
    LET expired == {i \in Conns : Registered(i) /\ ~fresh[i]} IN
    /\ running /\ expired # {}
    /\ conn' = [i \in Conns |-> IF i \in expired THEN "closed" ELSE conn[i]]
    /\ c2s' = [i \in Conns |-> IF i \in expired THEN <<>> ELSE c2s[i]]
    /\ ready' = [i \in Conns |-> i \notin expired /\ ready[i]]
    /\ IF startedClient \in expired
       THEN /\ extActive' = FALSE
            /\ startedClient' = None /\ anotherStarted' = FALSE
       ELSE UNCHANGED <<extActive, startedClient, anotherStarted>>
    /\ UNCHANGED <<recording, fresh, processId, announced, running, s2c, hup, backlog, edge>>

\* Mutant: only clients that never started are timed out.
Timer_PendingOnly ==
    LET expired == {i \in Conns : conn[i] = "Pending" /\ ~fresh[i]} IN
    /\ running /\ expired # {}
    /\ conn' = [i \in Conns |-> IF i \in expired THEN "closed" ELSE conn[i]]
    /\ c2s' = [i \in Conns |-> IF i \in expired THEN <<>> ELSE c2s[i]]
    /\ ready' = [i \in Conns |-> i \notin expired /\ ready[i]]
    /\ UNCHANGED <<recording, extActive, startedClient, anotherStarted, fresh, processId,
                   announced, running, s2c, hup, backlog, edge>>

\* AgentState::timer, run after every batch of events.
Timer ==
    LET expired == {i \in Conns : Registered(i) /\ ~fresh[i]} IN
    /\ running /\ expired # {}
    /\ conn' = [i \in Conns |-> IF i \in expired THEN "closed" ELSE conn[i]]
    /\ c2s' = [i \in Conns |-> IF i \in expired THEN <<>> ELSE c2s[i]]
    /\ ready' = [i \in Conns |-> i \notin expired /\ ready[i]]
    /\ IF startedClient \in expired
       THEN /\ recording' = IF extActive THEN None ELSE recording
            /\ extActive' = FALSE
            /\ startedClient' = None /\ anotherStarted' = FALSE
       ELSE UNCHANGED <<recording, extActive, startedClient, anotherStarted>>
    /\ UNCHANGED <<fresh, processId, announced, running, s2c, hup, backlog, edge>>

\* The shutdown flag, or a failed epoll_wait, ends the loop and drops every
\* socket; nothing stops the extension.
Shutdown ==
    /\ running
    /\ running' = FALSE
    /\ conn' = [i \in Conns |-> IF Writable(i) THEN "closed" ELSE conn[i]]
    /\ c2s' = [i \in Conns |-> <<>>]
    /\ backlog' = <<>> /\ edge' = FALSE
    /\ ready' = [i \in Conns |-> FALSE]
    /\ UNCHANGED <<fresh, startedClient, anotherStarted, extActive, recording,
                   processId, announced, s2c, hup>>

AgentStep == Accept \/ Timer \/ \E i \in Conns : HandleHup(i) \/ Receive(i)

\* The agent with anything at all at the other end of the sockets.
ServerNext ==
    \/ AgentStep \/ Shutdown
    \/ \E i \in Conns : Connect(i) \/ HangUp(i) \/ Read(i) \/ Elapse(i)
                        \/ \E m \in Requests : Send(i, m)

ServerSpec == ServerInit /\ [][ServerNext]_serverVars

-----------------------------------------------------------------------------
(* Properties.                                                              *)

\* The four fields that say who is started agree, and the started client is
\* still registered: timer() unwraps its entry.
SessionConsistent ==
    running =>
       /\ \A i \in Conns : conn[i] = "Started" <=> startedClient = i
       /\ anotherStarted <=> startedClient # None
       /\ extActive <=> (HasExtension /\ startedClient # None)

\* The extension submits into the ring of the started client and of no other:
\* never after Stop, a hang-up, a timeout or a refused Start.
RecordingFollowsSession ==
    running => recording = IF HasExtension THEN startedClient ELSE None

\* The process id that events carry is the one the started client's ring was
\* told of, whatever Start messages others send, before or meanwhile.
PidAnnounced == startedClient # None => announced[startedClient] = processId
=============================================================================
