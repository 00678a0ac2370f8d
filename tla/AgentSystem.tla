----------------------------- MODULE AgentSystem -----------------------------
(***************************************************************************)
(* AgentClients (client.rs) at the other end of the agent's sockets.  A    *)
(* client's call is a sequence of steps: connect, send, wait for the       *)
(* answer; the agent and the other clients run in between.  A caller may   *)
(* make any call at any time, and may die.                                 *)
(***************************************************************************)
EXTENDS AgentServer

CONSTANTS Clients,        \* AgentClient values, each in a process of its own
          ClientVersion,  \* protocol::VERSION of the clients' build
          SlowAgent,      \* may an answer take longer than the read timeout?
          MaxCalls        \* bound: calls per client

ASSUME ClientAssumption == SlowAgent \in BOOLEAN /\ MaxCalls \in Nat

VARIABLES
    stream,    \* AgentClient.stream: the connection, or None
    pc,        \* the next step of the call in progress
    op,        \* the call in progress, or the last one
    result,    \* what it returned
    start,     \* the Start message it sends
    calls,     \* calls made so far
    begun      \* history: which of its client's calls a session was started by

clientVars == <<stream, pc, op, result, start, calls>>
vars == <<serverVars, clientVars, begun>>

SystemInit ==
    /\ ServerInit
    /\ stream = [c \in Clients |-> None]
    /\ pc = [c \in Clients |-> "idle"]
    /\ op = [c \in Clients |-> "none"]
    /\ result = [c \in Clients |-> "none"]
    /\ start = [c \in Clients |-> Msg("none")]
    /\ calls = [c \in Clients |-> 0]
    /\ begun = [i \in Conns |-> 0]

Goto(c, step) == pc' = [pc EXCEPT ![c] = step] /\ UNCHANGED result
Return(c, r) == pc' = [pc EXCEPT ![c] = "idle"] /\ result' = [result EXCEPT ![c] = r]

KeepStream(c) == UNCHANGED stream
\* self.stream = None: the socket is closed.
DropStream(c) == HangUp(stream[c]) /\ stream' = [stream EXCEPT ![c] = None]

-----------------------------------------------------------------------------
(* Calls.                                                                   *)

\* start, check_version: connect first.  send_continue and stop do nothing
\* without a stream.
Call(c, o, m) ==
    /\ pc[c] = "idle" /\ calls[c] < MaxCalls
    /\ calls' = [calls EXCEPT ![c] = @ + 1]
    /\ op' = [op EXCEPT ![c] = o]
    /\ start' = [start EXCEPT ![c] = m]
    /\ IF o \in {"continue", "stop"} /\ stream[c] = None
       THEN Return(c, "ok")
       ELSE pc' = [pc EXCEPT ![c] = IF o \in {"start", "check_version"} THEN "connect" ELSE o]
            /\ result' = [result EXCEPT ![c] = "none"]
    /\ UNCHANGED <<serverVars, stream>>

ConnectOrReuse(c) ==
    /\ pc[c] = "connect"
    /\ \/ /\ stream[c] # None
          /\ Goto(c, "version")
          /\ UNCHANGED <<serverVars, stream>>
       \/ /\ stream[c] = None /\ running
          /\ \E i \in Conns : Connect(i) /\ stream' = [stream EXCEPT ![c] = i]
          /\ Goto(c, "version")
       \/ /\ stream[c] = None /\ ~running
          /\ Return(c, "err")
          /\ UNCHANGED <<serverVars, stream>>
    /\ UNCHANGED <<op, start, calls>>

\* The message that a step sends.
Request(c) ==
    CASE pc[c] = "version" -> Msg("Version")
      [] pc[c] = "start" -> start[c]
      [] pc[c] = "continue" -> Msg("Continue")
      [] OTHER -> Msg("Stop")

Sending == {"version", "start", "continue", "stop"}

Awaiting(s) ==
    CASE s = "version" -> "await_version" [] s = "start" -> "await_start"
      [] s = "continue" -> "await_continue" [] OTHER -> "await_stop"

SendRequest(c) ==
    /\ pc[c] \in Sending /\ Writable(stream[c])
    /\ Send(stream[c], Request(c))
    /\ Goto(c, Awaiting(pc[c]))
    /\ UNCHANGED <<stream, op, start, calls>>

\* The agent has closed the connection: EPIPE.
SendFails(c) ==
    /\ pc[c] \in Sending /\ ~Writable(stream[c])
    /\ IF pc[c] \in {"version", "continue"}
       THEN KeepStream(c) /\ UNCHANGED serverVars
       ELSE DropStream(c)
    /\ Return(c, IF pc[c] = "stop" THEN "ok" ELSE "err")
    /\ UNCHANGED <<op, start, calls>>

-----------------------------------------------------------------------------
(* wait_for_response: what it gives, and what the caller makes of it.       *)

Failed == Msg("Failed")

\* An answer, the end of the stream, or the read timeout.
Responses(i) ==
    IF s2c[i] # <<>> THEN Decoded(s2c[i])
    ELSE IF SlowAgent \/ ~Writable(i) THEN {Failed} ELSE {}

\* Mutant: one reply is read at a time.
TakeAnswer_One(c) ==
    /\ KeepStream(c)
    /\ IF s2c[stream[c]] # <<>>
       THEN /\ s2c' = [s2c EXCEPT ![stream[c]] = Tail(@)]
            /\ UNCHANGED <<agentVars, running, c2s, hup, backlog, edge, ready>>
       ELSE UNCHANGED serverVars

\* The answer is taken off the socket and the stream is kept.
TakeAnswer(c) ==
    /\ KeepStream(c)
    /\ IF s2c[stream[c]] # <<>> THEN Read(stream[c]) ELSE UNCHANGED serverVars

\* The version in the answer is not looked at: protocol::VERSION is returned.
CheckedVersion(m) == ClientVersion

AfterVersion(c, m) ==
    CASE m.type # "VersionResponse" -> Return(c, "err") /\ TakeAnswer(c)
      [] m.type = "VersionResponse" /\ op[c] = "check_version" ->
            Return(c, "ok") /\ TakeAnswer(c)
      [] m.type = "VersionResponse" /\ op[c] = "start" /\ CheckedVersion(m) # ClientVersion ->
            Return(c, "err") /\ DropStream(c)
      [] OTHER -> Goto(c, "start") /\ TakeAnswer(c)

AfterStart(c, m) ==
    IF m.type = "Ack" THEN Return(c, "ok") /\ TakeAnswer(c)
    ELSE Return(c, "err") /\ DropStream(c)

AfterContinue(c, m) ==
    Return(c, IF m.type = "Ack" THEN "ok" ELSE "err") /\ TakeAnswer(c)

\* Whatever the answer, or without one.
AfterStop(c, m) == Return(c, "ok") /\ DropStream(c)

Respond(c) ==
    /\ \E m \in Responses(stream[c]) :
          \/ pc[c] = "await_version" /\ AfterVersion(c, m)
          \/ pc[c] = "await_start" /\ AfterStart(c, m)
          \/ pc[c] = "await_continue" /\ AfterContinue(c, m)
          \/ pc[c] = "await_stop" /\ AfterStop(c, m)
    /\ UNCHANGED <<op, start, calls>>

\* The client's process dies with its socket.
Die(c) ==
    /\ pc[c] # "dead"
    /\ pc' = [pc EXCEPT ![c] = "dead"]
    /\ IF stream[c] = None THEN UNCHANGED <<serverVars, stream>> ELSE DropStream(c)
    /\ UNCHANGED <<op, result, start, calls>>

InCall(c) ==
    pc[c] # "dead" /\ (ConnectOrReuse(c) \/ SendRequest(c) \/ SendFails(c)
                        \/ (stream[c] # None /\ Respond(c)))

-----------------------------------------------------------------------------
Starts == {StartMsg(kind, pid) : kind \in StartKinds, pid \in PidOptions}

ClientStep(c) ==
    \/ \E m \in Starts : Call(c, "start", m)
    \/ \E o \in {"check_version", "continue", "stop"} : Call(c, o, Msg("none"))
    \/ InCall(c)
    \/ Die(c)

\* The number of the call that the client on connection i is making.
CallOn(i) == IF \E c \in Clients : stream[c] = i
             THEN calls[CHOOSE c \in Clients : stream[c] = i] ELSE 0

SystemNext ==
    /\ \/ (AgentStep \/ Shutdown \/ \E i \in Conns : Elapse(i)) /\ UNCHANGED clientVars
       \/ \E c \in Clients : ClientStep(c)
    /\ begun' = [i \in Conns |->
                   IF conn[i] # "Started" /\ conn'[i] = "Started" THEN CallOn(i) ELSE begun[i]]

\* The agent's thread handles every ready event and runs its timer; nobody
\* has to make a call.
AgentFairness ==
    /\ WF_vars(Accept /\ SystemNext) /\ WF_vars(Timer /\ SystemNext)
    /\ \A i \in Conns : WF_vars(HandleHup(i) /\ SystemNext) /\ WF_vars(Receive(i) /\ SystemNext)

SystemSafetySpec == SystemInit /\ [][SystemNext]_vars
SystemSpec == SystemSafetySpec /\ AgentFairness

-----------------------------------------------------------------------------
(* Properties.                                                              *)

\* start() returns Ok only when the agent has accepted the Start of this very
\* call: late answers to earlier calls, still in the socket, are never taken
\* for it.
StartOkMeansStarted ==
    \A c \in Clients :
       (op[c] = "start" /\ result[c] = "ok" /\ pc[c] # "dead")
          => (stream[c] # None /\ begun[stream[c]] = calls[c])

\* A session whose client is gone, or silent for longer than the timeout, ends.
LostSessionEnds ==
    \A i \in Conns :
       (startedClient = i /\ (hup[i] \/ ~fresh[i]))
          ~> (startedClient # i \/ ~running \/ (fresh[i] /\ ~hup[i]))

\* What AgentClients do on their sockets is among what the agent was checked
\* against: nothing is sent on a closed connection, no reply is read after a
\* hang-up, and only requests of the protocol are sent.
ClientsAreEnvironment == ServerSpec
=============================================================================
