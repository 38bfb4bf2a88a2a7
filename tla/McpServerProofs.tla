-------------------------- MODULE McpServerProofs ---------------------------
(***************************************************************************)
(* Proofs about McpServer, for every set of requests, tools and clients.   *)
(***************************************************************************)
EXTENDS McpServer, FiniteSetTheorems, TLAPS

\* The pieces of what a task can be asked have their types.
LEMMA RequestsTyped ==
    /\ Requests \subseteq RequestType
    /\ NoReq \in RequestType
    /\ \A c \in Clients : Initialize(c) \in RequestType
    /\ \A c \in Clients \cup {NoClient}, n \in Nat : Disconnect(c, n) \in RequestType
<1> USE DEF Ask, RequestType, Kinds
<1>1. \A p \in BOOLEAN, tool \in Tools : ToolCall(tool, p) \in RequestType
  BY DEF ToolCall
<1>2. ListResources \in RequestType /\ NoReq \in RequestType
  BY DEF ListResources, NoReq
<1>3. \A c \in Clients : Initialize(c) \in RequestType
  BY DEF Initialize
<1>4. \A c \in Clients \cup {NoClient}, n \in Nat : Disconnect(c, n) \in RequestType
  BY DEF Disconnect
<1>5. ToolCalls \subseteq RequestType
  BY <1>1, ToolAssumption DEF ToolCalls
<1>6. {Initialize(c) : c \in Clients} \subseteq RequestType
  BY <1>3
<1>7. Requests \subseteq RequestType
  BY <1>2, <1>5, <1>6 DEF Requests
<1> QED BY <1>2, <1>3, <1>4, <1>7

\* What the code after an await does keeps the types.
LEMMA ResumeTyped ==
    ASSUME NEW t \in Tasks, NEW o \in {"ok", "api", "unreachable", "transport"},
           TypeOK, Resume(t, o)
    PROVE  TypeOK'
<1> USE DEF TypeOK
<1>1. Hangs(t) \in [stage : Stages \cup {"none"}, tag : Tools \cup {NoTool}]
  BY DEF Hangs, NoWire, Stages
<1>2. NoWire \in [stage : Stages \cup {"none"}, tag : Tools \cup {NoTool}]
  BY DEF NoWire
<1>3. ReplyTo(t, o) \in [code : Codes, hint : Tools \cup {NoTool}]
  BY DEF ReplyTo, CodeOf, Codes
<1>4. CASE ~LastTrip(t) /\ wire' = [wire EXCEPT ![t] = NoWire]
           /\ pc' = [pc EXCEPT ![t] = "running"] /\ trip' = [trip EXCEPT ![t] = 2]
           /\ UNCHANGED <<proc, scope, reply>>
  BY <1>2, <1>4 DEF Resume, healthVars, ghostVars
<1>5. CASE t # Main /\ pc' = [pc EXCEPT ![t] = Answered]
           /\ reply' = [reply EXCEPT ![t] = ReplyTo(t, o)]
           /\ scope' = [scope EXCEPT ![t] = NoTool]
           /\ wire' = [wire EXCEPT ![t] = Hangs(t)] /\ UNCHANGED <<proc, trip>>
  <2>1. Answered \in {"answered", "unheard"}
    BY DEF Answered
  <2> QED BY <1>1, <1>3, <1>5, <2>1 DEF Resume, healthVars, ghostVars
<1>6. CASE Exit /\ wire' = [wire EXCEPT ![t] = Hangs(t)] /\ UNCHANGED <<scope, trip, reply>>
  BY <1>1, <1>6 DEF Resume, Exit, healthVars, ghostVars
<1> QED BY <1>4, <1>5, <1>6 DEF Resume

\* A server that starts has its types.
LEMMA InitTyped == Init => TypeOK
<1> SUFFICES ASSUME Init PROVE TypeOK
  OBVIOUS
<1>1. req \in [Tasks -> RequestType]
  BY RequestsTyped DEF Init
<1>2. /\ wire \in [Tasks -> [stage : Stages \cup {"none"}, tag : Tools \cup {NoTool}]]
      /\ reply \in [Tasks -> [code : Codes, hint : Tools \cup {NoTool}]]
  BY DEF Init, NoWire, NoReply, Codes
<1>3. 0 \in Nat /\ 0 \in 0..MaxCrashes
  BY CrashAssumption
<1> QED BY <1>1, <1>2, <1>3 DEF Init, TypeOK, Tasks

\* Every step of the agent, the server and the daemon keeps the types.
LEMMA StepTyped == TypeOK /\ [Next]_vars => TypeOK'
<1> SUFFICES ASSUME TypeOK, [Next]_vars PROVE TypeOK'
  OBVIOUS
<1> USE DEF sessionVars, healthVars, ghostVars
<1>1. ASSUME NEW r \in Reqs, NEW q \in RequestType, Queue(r, q) PROVE TypeOK'
  BY <1>1 DEF Queue, TypeOK
<1>2. CASE Agent
  BY <1>1, <1>2, RequestsTyped DEF Agent, HandshakeRequest, Submit, HangUp, taskVars, TypeOK
<1>3. CASE Serving \/ HandshakeFails \/ LoopEnds
  BY <1>3 DEF Serving, HandshakeFails, LoopEnds, GoTo, taskVars, TypeOK
<1>4. CASE ExitSilently
  BY <1>4 DEF ExitSilently, Exit, TypeOK
<1>5. CASE TrackDisconnect
  <2>1. Disconnect(clientId, toolsInvoked) \in RequestType
    BY RequestsTyped DEF TypeOK
  <2> QED BY <1>5, <2>1 DEF TrackDisconnect, TypeOK
<1>6. ASSUME NEW r \in Reqs, CallTool(r) PROVE TypeOK'
  <2>1. req[r].tool \in Tools \cup {NoTool} /\ Answered \in {"answered", "unheard"}
        /\ r \in Tasks
    BY DEF TypeOK, RequestType, Answered, Tasks
  <2>2. [code |-> "refused", hint |-> NoTool] \in [code : Codes, hint : Tools \cup {NoTool}]
    BY DEF Codes
  <2>3. reply' \in [Tasks -> [code : Codes, hint : Tools \cup {NoTool}]]
    BY <1>6, <2>1, <2>2 DEF CallTool, TypeOK
  <2>4. toolsInvoked' \in Nat
    BY <1>6 DEF CallTool, CountCall, TypeOK
  <2> QED BY <1>6, <2>1, <2>3, <2>4 DEF CallTool, EnterScope, TypeOK
<1>7. ASSUME NEW r \in Reqs, StartInitialize(r) PROVE TypeOK'
  <2>1. req[r].client \in Clients \cup {NoClient} /\ r \in Tasks
    BY DEF TypeOK, RequestType, Tasks
  <2> QED BY <1>7, <2>1 DEF StartInitialize, RecordClient, TypeOK
<1>8. ASSUME NEW r \in Reqs, StartListResources(r) PROVE TypeOK'
  BY <1>8 DEF StartListResources, TypeOK
<1>9. ASSUME NEW t \in Tasks, Exchanges(t) PROVE TypeOK'
  <2>1. CASE Connect(t)
    BY <2>1 DEF Connect, TypeOK, Stages
  <2>2. CASE Send(t)
    BY <2>2 DEF Send, TypeOK, Stages
  <2> QED BY <1>9, <2>1, <2>2, ResumeTyped DEF Exchanges, ConnectFails, Breaks, Orphaned, Receive
<1>10. ASSUME NEW t \in Tasks, NEW stage \in Stages, MoveWire(t, stage), TypeOK
       PROVE  wire' \in [Tasks -> [stage : Stages \cup {"none"}, tag : Tools \cup {NoTool}]]
  BY <1>10 DEF MoveWire, TypeOK
<1>11. ASSUME NEW t \in Tasks, DaemonExecutes(t) PROVE TypeOK'
  <2>1. wire' \in [Tasks -> [stage : Stages \cup {"none"}, tag : Tools \cup {NoTool}]]
    BY <1>10, <1>11 DEF DaemonExecutes, Stages
  <2>2. executions' \in [Tasks -> Nat]
    BY <1>11 DEF DaemonExecutes, TypeOK
  <2>3. <<t, wire[t].tag>> \in Tasks \X (Tools \cup {NoTool})
    BY DEF TypeOK
  <2>4. EventsOf(t) \subseteq [name : Kinds, client : Clients \cup {NoClient}, count : Nat]
    BY DEF EventsOf, TypeOK, RequestType
  <2> QED BY <1>11, <2>1, <2>2, <2>3, <2>4 DEF DaemonExecutes, TypeOK
<1>12. ASSUME NEW t \in Tasks, DaemonRefuses(t) \/ ConnectionLost(t) PROVE TypeOK'
  <2>1. wire' \in [Tasks -> [stage : Stages \cup {"none"}, tag : Tools \cup {NoTool}]]
    BY <1>10, <1>12 DEF DaemonRefuses, ConnectionLost, Stages
  <2> QED BY <1>12, <2>1 DEF DaemonRefuses, ConnectionLost, TypeOK
<1>13. CASE DaemonCrashes
  <2>1. wire' \in [Tasks -> [stage : Stages \cup {"none"}, tag : Tools \cup {NoTool}]]
    BY <1>13 DEF DaemonCrashes, TypeOK, Stages
  <2>2. crashes' \in 0..MaxCrashes
    BY <1>13, CrashAssumption DEF DaemonCrashes, TypeOK
  <2> QED BY <1>13, <2>1, <2>2 DEF DaemonCrashes, TypeOK
<1>14. CASE DaemonStarts
  BY <1>14 DEF DaemonStarts, taskVars, TypeOK
<1>15. CASE UNCHANGED vars
  BY <1>15 DEF vars, taskVars, TypeOK
<1> QED BY <1>2, <1>3, <1>4, <1>5, <1>6, <1>7, <1>8, <1>9, <1>11, <1>12, <1>13, <1>14, <1>15
        DEF Next, Loop, Starts, Daemon, DaemonOn

\* Every variable keeps its type, in every state of every session.
THEOREM Typed == Spec => []TypeOK
BY InitTyped, StepTyped, PTL DEF Spec

-----------------------------------------------------------------------------
(* The invariant on each task and its connection.                          *)

\* No task is under way before the handshake: the invariant holds at the start.
LEMMA InitIInv == Init => IInv
BY DEF Init, IInv, TaskInv, SeenInv, LastTrip, NoWire, NoReply, NoReq, Ask, Tasks, Live

\* A step that leaves the tasks, their connections and the daemon's records alone.
LEMMA QuietStep ==
    ASSUME IInv, UNCHANGED <<taskVars, executions, seen>>
    PROVE  IInv'
BY DEF IInv, TaskInv, SeenInv, LastTrip, taskVars

\* The code after an await keeps the invariant, if what it is told agrees with
\* the state of the connection it awaited.
LEMMA ResumeInv ==
    ASSUME TypeOK, IInv, NEW t \in Tasks,
           NEW o \in {"ok", "api", "unreachable", "transport"}, Resume(t, o),
           pc[t] \in {"running", "waiting"},
           o = "unreachable" => pc[t] = "running",
           o = "ok" => pc[t] = "waiting" /\ wire[t].stage = "executed",
           wire[t].stage \notin {"connected", "sent"}
    PROVE  IInv'
<1> USE DEF healthVars, ghostVars
<1>1. CASE /\ ~LastTrip(t)
           /\ trip' = [trip EXCEPT ![t] = 2] /\ wire' = [wire EXCEPT ![t] = NoWire]
           /\ pc' = [pc EXCEPT ![t] = "running"] /\ UNCHANGED <<proc, scope, reply>>
  <2>1. ASSUME NEW u \in Tasks PROVE TaskInv(u)'
    BY <1>1 DEF Resume, IInv, TaskInv, TypeOK, LastTrip, Live, NoWire
  <2>2. SeenInv'
    BY <1>1 DEF Resume, IInv, SeenInv, TypeOK
  <2> QED BY <2>1, <2>2 DEF IInv
<1>2. CASE /\ LastTrip(t) /\ t # Main
           /\ pc' = [pc EXCEPT ![t] = Answered]
           /\ reply' = [reply EXCEPT ![t] = ReplyTo(t, o)]
           /\ scope' = [scope EXCEPT ![t] = NoTool]
           /\ wire' = [wire EXCEPT ![t] = Hangs(t)] /\ UNCHANGED <<proc, trip>>
  <2>1. Answered \in {"answered", "unheard"}
    BY DEF Answered
  <2>2. ASSUME NEW u \in Tasks, u # t PROVE TaskInv(u)'
    BY <1>2, <2>2 DEF Resume, IInv, TaskInv, TypeOK, LastTrip
  <2>3. TaskInv(t)'
    <3>1. TaskInv(t)
      BY DEF IInv
    <3>2. /\ reply'[t] = ReplyTo(t, o) /\ wire'[t] = Hangs(t) /\ scope'[t] = NoTool
          /\ pc'[t] \in {"answered", "unheard"}
          /\ executions' = executions /\ req' = req /\ trip' = trip
      BY <1>2, <2>1 DEF Resume, TypeOK
    <3>3. /\ o = "ok" => executions[t] = 1
          /\ o = "unreachable" => executions[t] = 0 /\ wire[t] = NoWire
      BY <1>2, <3>1 DEF TaskInv
    <3>4. Hangs(t) = NoWire \/ (Hangs(t) = wire[t] /\ wire[t].stage = "orphaned")
      BY DEF Hangs
    <3>5. /\ ReplyTo(t, o).code \notin {"refused"}
          /\ ReplyTo(t, o).code = "daemon_unreachable" => o = "unreachable"
          /\ ReplyTo(t, o).code = "ok" /\ req[t].kind = "tool" => o = "ok"
          /\ ReplyTo(t, o).code = "api_error" => ReplyTo(t, o).hint = scope[t]
      BY DEF ReplyTo, CodeOf
    <3>6. (t = Main) = FALSE
      BY <1>2
    <3> QED BY <1>2, <3>1, <3>2, <3>3, <3>4, <3>5, <3>6 DEF TaskInv, LastTrip, Live, NoWire
  <2>4. SeenInv'
    BY <1>2, <2>1 DEF Resume, IInv, SeenInv, TypeOK
  <2> QED BY <2>2, <2>3, <2>4 DEF IInv
<1>3. CASE t = Main /\ Exit /\ wire' = [wire EXCEPT ![t] = Hangs(t)]
           /\ UNCHANGED <<scope, trip, reply>>
  <2>1. ASSUME NEW u \in Tasks PROVE TaskInv(u)'
    BY <1>3 DEF Resume, Exit, Hangs, IInv, TaskInv, TypeOK, LastTrip, Live, NoWire
  <2>2. SeenInv'
    BY <1>3 DEF Resume, Exit, IInv, SeenInv, TypeOK
  <2> QED BY <2>1, <2>2 DEF IInv
<1> QED BY <1>1, <1>2, <1>3 DEF Resume

\* Every step keeps what a task's state says of its connection and its effect.
LEMMA StepIInv == TypeOK /\ IInv /\ [Next]_vars => IInv'
<1> SUFFICES ASSUME TypeOK, IInv, [Next]_vars PROVE IInv'
  OBVIOUS
<1> USE DEF sessionVars, healthVars, ghostVars
<1>1. ASSUME NEW r \in Reqs, NEW q \in Requests, Queue(r, q) PROVE IInv'
  <2>1. q.kind # "tool" => q.tool = NoTool
    BY DEF Requests, ToolCalls, ToolCall, Initialize, ListResources, Ask
  <2>2. ASSUME NEW t \in Tasks PROVE TaskInv(t)'
    <3>1. r \in Tasks /\ r # Main /\ TaskInv(t) /\ TaskInv(r)
      BY TaskAssumption DEF IInv, Tasks
    <3>2. CASE t # r
      BY <1>1, <3>1, <3>2 DEF Queue, TaskInv, TypeOK, LastTrip
    <3>3. CASE t = r
      <4>1. req'[r] = q /\ pc'[r] = "queued" /\ pc[r] = "idle"
            /\ UNCHANGED <<scope, trip, wire, reply, executions>>
        BY <1>1, <3>1 DEF Queue, TypeOK
      <4>2. /\ executions[r] = 0 /\ wire[r] = NoWire /\ scope[r] = NoTool
            /\ reply[r] = NoReply
        BY <3>1, <4>1 DEF TaskInv, Live
      <4> QED BY <2>1, <3>1, <3>3, <4>1, <4>2 DEF TaskInv, NoWire, NoReply, Live
    <3> QED BY <3>2, <3>3
  <2>3. SeenInv'
    BY <1>1 DEF Queue, IInv, SeenInv, TypeOK
  <2> QED BY <2>2, <2>3 DEF IInv
<1>2. CASE Agent
  BY <1>1, <1>2, QuietStep DEF Agent, HandshakeRequest, Submit, HangUp, Requests
<1>3. CASE Serving \/ HandshakeFails \/ LoopEnds
  BY <1>3, QuietStep DEF Serving, HandshakeFails, LoopEnds, GoTo
<1>4. CASE ExitSilently
  <2>2. ASSUME NEW t \in Tasks PROVE TaskInv(t)'
    BY <1>4 DEF ExitSilently, Exit, IInv, TaskInv, TypeOK, LastTrip, Live
  <2>3. SeenInv'
    BY <1>4 DEF ExitSilently, Exit, IInv, SeenInv, TypeOK
  <2> QED BY <2>2, <2>3 DEF IInv
<1>5. CASE TrackDisconnect
  <2>2. ASSUME NEW t \in Tasks PROVE TaskInv(t)'
    BY <1>5, TaskAssumption
       DEF TrackDisconnect, IInv, TaskInv, TypeOK, LastTrip, Live, Disconnect, Ask
  <2>3. SeenInv'
    BY <1>5 DEF TrackDisconnect, IInv, SeenInv, TypeOK
  <2> QED BY <2>2, <2>3 DEF IInv
<1>6. ASSUME NEW r \in Reqs, CallTool(r) PROVE IInv'
  <2>1. Answered \in {"answered", "unheard"} /\ r \in Tasks /\ r # Main
    BY TaskAssumption DEF Answered, Tasks
  <2>2. ASSUME NEW t \in Tasks PROVE TaskInv(t)'
    BY <1>6, <2>1 DEF CallTool, EnterScope, IInv, TaskInv, TypeOK, LastTrip, Live, NoReply
  <2>3. SeenInv'
    BY <1>6, <2>1 DEF CallTool, IInv, SeenInv, TypeOK
  <2> QED BY <2>2, <2>3 DEF IInv
<1>7. ASSUME NEW r \in Reqs, StartInitialize(r) \/ StartListResources(r) PROVE IInv'
  <2>1. r \in Tasks /\ r # Main
    BY TaskAssumption DEF Tasks
  <2>2. ASSUME NEW t \in Tasks PROVE TaskInv(t)'
    BY <1>7, <2>1
       DEF StartInitialize, StartListResources, IInv, TaskInv, TypeOK, LastTrip, Live
  <2>3. SeenInv'
    BY <1>7, <2>1 DEF StartInitialize, StartListResources, IInv, SeenInv, TypeOK
  <2> QED BY <2>2, <2>3 DEF IInv
<1>8. ASSUME NEW t \in Tasks, Connect(t) \/ Send(t) PROVE IInv'
  <2>2. ASSUME NEW u \in Tasks PROVE TaskInv(u)'
    <3>1. CASE Connect(t)
      <4>1. TaskInv(u) /\ TaskInv(t)
        BY DEF IInv
      <4>2. CASE u # t
        BY <3>1, <4>1, <4>2 DEF Connect, TaskInv, TypeOK, LastTrip
      <4>3. CASE u = t
        <5>1. /\ wire'[t] = [stage |-> "connected", tag |-> NoTool]
              /\ pc'[t] = "waiting" /\ pc[t] = "running"
              /\ UNCHANGED <<req, scope, trip, reply, executions>>
          BY <3>1 DEF Connect, TypeOK
        <5>2. scope[t] = req[t].tool /\ executions[t] = 0 /\ reply[t] = NoReply
          BY <4>1, <5>1 DEF TaskInv, Live
        <5> QED BY <4>1, <4>3, <5>1, <5>2 DEF TaskInv, LastTrip, NoReply
      <4> QED BY <4>2, <4>3
    <3>2. CASE Send(t)
      <4>1. TaskInv(u) /\ TaskInv(t)
        BY DEF IInv
      <4>2. CASE u # t
        BY <3>2, <4>1, <4>2 DEF Send, TaskInv, TypeOK, LastTrip
      <4>3. CASE u = t
        <5>1. /\ wire'[t] = [stage |-> "sent", tag |-> scope[t]]
              /\ pc[t] = "waiting" /\ wire[t].stage = "connected"
              /\ UNCHANGED <<req, pc, scope, trip, reply, executions>>
          BY <3>2 DEF Send, TypeOK
        <5>2. scope[t] = req[t].tool /\ executions[t] = 0 /\ reply[t] = NoReply
          BY <4>1, <5>1 DEF TaskInv, Live
        <5> QED BY <4>1, <4>3, <5>1, <5>2 DEF TaskInv, LastTrip, NoReply
      <4> QED BY <4>2, <4>3
    <3> QED BY <1>8, <3>1, <3>2
  <2>3. SeenInv'
    BY <1>8 DEF Connect, Send, IInv, SeenInv, TypeOK
  <2> QED BY <2>2, <2>3 DEF IInv
<1>9. ASSUME NEW t \in Tasks, ConnectFails(t) \/ Breaks(t) \/ Orphaned(t) \/ Receive(t)
      PROVE  IInv'
  <2>1. TaskInv(t)
    BY DEF IInv
  <2>2. CASE ConnectFails(t)
    BY <2>1, <2>2, ResumeInv DEF ConnectFails, TaskInv, NoWire
  <2>3. CASE Breaks(t) \/ Orphaned(t)
    BY <2>3, ResumeInv DEF Breaks, Orphaned
  <2>4. CASE Receive(t)
    BY <2>4, ResumeInv DEF Receive
  <2> QED BY <1>9, <2>2, <2>3, <2>4
<1>10. ASSUME NEW t \in Tasks, DaemonExecutes(t) PROVE IInv'
  <2>2. ASSUME NEW u \in Tasks PROVE TaskInv(u)'
    BY <1>10 DEF DaemonExecutes, MoveWire, IInv, TaskInv, TypeOK, LastTrip, Live, NoWire
  <2>3. SeenInv'
    BY <1>10 DEF DaemonExecutes, IInv, SeenInv, TaskInv, TypeOK, NoWire
  <2> QED BY <2>2, <2>3 DEF IInv
<1>11. ASSUME NEW t \in Tasks, DaemonRefuses(t) \/ ConnectionLost(t) PROVE IInv'
  <2>2. ASSUME NEW u \in Tasks PROVE TaskInv(u)'
    BY <1>11
       DEF DaemonRefuses, ConnectionLost, MoveWire, IInv, TaskInv, TypeOK, LastTrip, Live, NoWire
  <2>3. SeenInv'
    BY <1>11 DEF DaemonRefuses, ConnectionLost, IInv, SeenInv, TypeOK
  <2> QED BY <2>2, <2>3 DEF IInv
<1>12. CASE DaemonCrashes
  <2>2. ASSUME NEW u \in Tasks PROVE TaskInv(u)'
    BY <1>12 DEF DaemonCrashes, IInv, TaskInv, TypeOK, LastTrip, Live, NoWire
  <2>3. SeenInv'
    BY <1>12 DEF DaemonCrashes, IInv, SeenInv, TypeOK
  <2> QED BY <2>2, <2>3 DEF IInv
<1>13. CASE DaemonStarts \/ UNCHANGED vars
  BY <1>13, QuietStep DEF DaemonStarts, vars
<1> QED BY <1>2, <1>3, <1>4, <1>5, <1>6, <1>7, <1>8, <1>9, <1>10, <1>11, <1>12, <1>13
        DEF Next, Loop, Starts, Exchanges, Daemon, DaemonOn

\* The strengthened invariant holds in every state of every session.
THEOREM Inductive == Spec => [](TypeOK /\ IInv)
BY InitTyped, StepTyped, InitIInv, StepIInv, PTL DEF Spec

\* The daemon carries out what a call asks at most once.
THEOREM CallsAtMostOnce == Spec => []AtMostOnce
<1>1. IInv => AtMostOnce
  BY DEF IInv, TaskInv, AtMostOnce
<1> QED BY <1>1, Inductive, PTL

\* An answer of "refused" or "daemon_unreachable" is final.
THEOREM UnreachableFinal == Spec => []UnreachableMeansUntouched
<1>1. IInv => UnreachableMeansUntouched
  BY DEF IInv, TaskInv, UnreachableMeansUntouched, NothingLeft, NoWire, Tasks
<1> QED BY <1>1, Inductive, PTL

\* An answer of "ok" to a tool call means the daemon carried it out.
THEOREM OkExecuted == Spec => []OkMeansExecuted
<1>1. IInv => OkMeansExecuted
  BY DEF IInv, TaskInv, OkMeansExecuted, Tasks
<1> QED BY <1>1, Inductive, PTL

\* Usage headers and recovery hints name the caller's own tool, however many
\* tools run at once.
THEOREM TagsNameCaller == Spec => []TagNamesCaller
<1>1. IInv => TagNamesCaller
  BY DEF IInv, TaskInv, SeenInv, TagNamesCaller, Tasks
<1> QED BY <1>1, Inductive, PTL

-----------------------------------------------------------------------------
(* The server keeps the promise AtMostOnceCall states.                     *)

\* The server starts where AtMostOnceCall does: no call made, none applied.
LEMMA InitPromise == Init => Promise!Init
<1> SUFFICES ASSUME Init PROVE Promise!Init
  OBVIOUS
<1>1. ASSUME NEW r \in Reqs
      PROVE  Phase(r) = "idle" /\ Verdict(r) = "none" /\ (executions[r] > 0) = FALSE
  BY DEF Init, Phase, Verdict, Tasks
<1> QED BY <1>1 DEF Promise!Init

\* A step that shows in no request's state is a stutter of the promise.
LEMMA Unseen ==
    ASSUME \A r \in Reqs : pc'[r] = pc[r] /\ req'[r] = req[r] /\ reply'[r] = reply[r]
                           /\ executions'[r] = executions[r]
    PROVE  UNCHANGED Promise!vars
<1>1. ASSUME NEW r \in Reqs
      PROVE  /\ Phase(r)' = Phase(r) /\ Verdict(r)' = Verdict(r)
             /\ (executions'[r] > 0) = (executions[r] > 0)
  BY DEF Phase, Verdict
<1> QED BY <1>1 DEF Promise!vars

\* The end of the session loses every call that is open.
LEMMA ExitPromise ==
    ASSUME TypeOK, Exit, UNCHANGED <<req, reply, executions>>
    PROVE  Promise!LoseAll
<1>1. \A r \in Reqs : pc'[r] = IF pc[r] \in {"queued", "running", "waiting"}
                               THEN "dropped" ELSE pc[r]
  BY TaskAssumption DEF Exit, Tasks
<1>2. ASSUME NEW r \in Reqs
      PROVE  Phase(r)' = IF Phase(r) = "open" THEN "lost" ELSE Phase(r)
  BY <1>1 DEF Phase, TypeOK, Tasks
<1>3. ASSUME NEW r \in Reqs PROVE Verdict(r)' = Verdict(r)
  BY <1>1 DEF Verdict
<1> QED BY <1>2, <1>3 DEF Promise!LoseAll

\* A task that ends with an answer answers its call, or loses it when the
\* agent is gone.
LEMMA AnswerPromise ==
    ASSUME TypeOK, NEW r \in Reqs, pc[r] \in {"queued", "running", "waiting"},
           pc' = [pc EXCEPT ![r] = Answered], NEW a \in [code : Codes, hint : Tools \cup {NoTool}],
           reply' = [reply EXCEPT ![r] = a], UNCHANGED <<req, executions>>,
           a.code = "ok" /\ req[r].kind = "tool" => executions[r] = 1,
           a.code \in {"refused", "daemon_unreachable"} => executions[r] = 0
    PROVE  \/ Promise!Lose(r)
           \/ \E v \in {"done", "not_done", "unknown"} : Promise!Answer(r, v)
<1>1. r \in Tasks /\ executions[r] \in Nat /\ Phase(r) = "open" /\ Verdict(r) = "none"
  BY DEF Tasks, TypeOK, Phase, Verdict
<1>2. \A u \in Reqs : u # r => Phase(u)' = Phase(u) /\ Verdict(u)' = Verdict(u)
  BY DEF Phase, Verdict, TypeOK, Tasks
<1>3. pc'[r] = Answered /\ reply'[r] = a /\ req'[r] = req[r]
  BY <1>1 DEF TypeOK
<1>4. CASE Answered = "unheard"
  <2>1. Phase(r)' = "lost" /\ Verdict(r)' = "none"
    BY <1>3, <1>4 DEF Phase, Verdict
  <2> QED BY <1>1, <1>2, <2>1 DEF Promise!Lose
<1>5. CASE Answered = "answered"
  <2> DEFINE v == Verdict(r)'
  <2>1. Phase(r)' = "answered" /\ v \in {"done", "not_done", "unknown"}
    BY <1>3, <1>5 DEF Phase, Verdict
  <2>2. (v = "done" => executions[r] > 0) /\ (v = "not_done" => ~(executions[r] > 0))
    BY <1>1, <1>3, <1>5 DEF Verdict
  <2>3. Promise!Answer(r, v)
    <3>1. [u \in Reqs |-> Verdict(u)'] = [[u \in Reqs |-> Verdict(u)] EXCEPT ![r] = v]
      BY <1>2
    <3>2. [u \in Reqs |-> Phase(u)'] = [[u \in Reqs |-> Phase(u)] EXCEPT ![r] = "answered"]
      BY <1>2, <2>1
    <3> QED BY <1>1, <2>2, <3>1, <3>2 DEF Promise!Answer
  <2> QED BY <2>1, <2>3
<1> QED BY <1>4, <1>5 DEF Answered

\* The code after an await answers, loses, or leaves the call open; after the
\* disconnect event it ends the session.
LEMMA ResumePromise ==
    ASSUME TypeOK, IInv, NEW t \in Tasks,
           NEW o \in {"ok", "api", "unreachable", "transport"}, Resume(t, o),
           pc[t] \in {"running", "waiting"},
           o = "unreachable" => pc[t] = "running",
           o = "ok" => pc[t] = "waiting" /\ wire[t].stage = "executed"
    PROVE  [Promise!Next]_(Promise!vars)
<1> USE DEF healthVars, ghostVars
<1>1. CASE pc' = [pc EXCEPT ![t] = "running"] /\ UNCHANGED <<proc, scope, reply>>
  <2>1. ASSUME NEW r \in Reqs PROVE Phase(r)' = Phase(r) /\ Verdict(r)' = Verdict(r)
    BY <1>1 DEF Resume, Phase, Verdict, TypeOK, Tasks
  <2>2. UNCHANGED Promise!vars
    BY <2>1 DEF Promise!vars, Resume
  <2> QED BY <2>2
<1>2. CASE /\ LastTrip(t) /\ t # Main
           /\ pc' = [pc EXCEPT ![t] = Answered]
           /\ reply' = [reply EXCEPT ![t] = ReplyTo(t, o)]
  <2>1. t \in Reqs /\ ReplyTo(t, o) \in [code : Codes, hint : Tools \cup {NoTool}]
    BY <1>2 DEF ReplyTo, CodeOf, Codes, TypeOK, Tasks
  <2>2. TaskInv(t)
    BY DEF IInv
  <2>3. /\ o = "ok" => executions[t] = 1
        /\ o = "unreachable" => executions[t] = 0
    BY <1>2, <2>2 DEF TaskInv
  <2>4. /\ ReplyTo(t, o).code = "ok" /\ req[t].kind = "tool" => o = "ok"
        /\ ReplyTo(t, o).code \in {"refused", "daemon_unreachable"} => o = "unreachable"
    BY DEF ReplyTo, CodeOf
  <2>5. UNCHANGED <<req, executions>>
    BY DEF Resume
  <2>6. Promise!Lose(t) \/ \E v \in {"done", "not_done", "unknown"} : Promise!Answer(t, v)
    BY <1>2, <2>1, <2>3, <2>4, <2>5, AnswerPromise
  <2> QED BY <2>1, <2>6 DEF Promise!Next
<1>3. CASE Exit /\ UNCHANGED <<scope, trip, reply>>
  BY <1>3, ExitPromise DEF Resume, Promise!Next
<1> QED BY <1>1, <1>2, <1>3 DEF Resume

\* Every step of the server is a step AtMostOnceCall allows, or shows in none
\* of its variables.
LEMMA StepPromise == TypeOK /\ IInv /\ [Next]_vars => [Promise!Next]_(Promise!vars)
<1> SUFFICES ASSUME TypeOK, IInv, [Next]_vars PROVE [Promise!Next]_(Promise!vars)
  OBVIOUS
<1> USE DEF sessionVars, healthVars, ghostVars
<1>1. ASSUME UNCHANGED <<req, pc, reply, executions>> PROVE UNCHANGED Promise!vars
  BY <1>1, Unseen
<1>2. ASSUME NEW r \in Reqs, NEW q \in Requests, Queue(r, q)
      PROVE  Promise!Open(r)
  <2>1. ASSUME NEW u \in Reqs, u # r PROVE Phase(u)' = Phase(u) /\ Verdict(u)' = Verdict(u)
    BY <1>2, <2>1 DEF Queue, Phase, Verdict, TypeOK, Tasks
  <2>2. Phase(r) = "idle" /\ Phase(r)' = "open" /\ Verdict(r) = "none" /\ Verdict(r)' = "none"
    BY <1>2 DEF Queue, Phase, Verdict, TypeOK, Tasks
  <2> QED BY <1>2, <2>1, <2>2 DEF Promise!Open, Queue
<1>3. CASE Agent
  BY <1>1, <1>2, <1>3 DEF Agent, HandshakeRequest, Submit, HangUp, Requests, Promise!Next, taskVars
<1>4. CASE Serving \/ HandshakeFails \/ LoopEnds
  BY <1>1, <1>4 DEF Serving, HandshakeFails, LoopEnds, GoTo, taskVars
<1>5. CASE ExitSilently
  BY <1>5, ExitPromise DEF ExitSilently, Promise!Next
<1>6. CASE TrackDisconnect
  <2>1. ASSUME NEW r \in Reqs
        PROVE  pc'[r] = pc[r] /\ req'[r] = req[r] /\ reply'[r] = reply[r]
               /\ executions'[r] = executions[r]
    BY <1>6, TaskAssumption DEF TrackDisconnect, TypeOK, Tasks
  <2> QED BY <2>1, Unseen
<1>7. ASSUME NEW t \in Tasks, NEW where \in {"running", "waiting"},
             pc[t] \in {"queued", "running", "waiting"},
             pc' = [pc EXCEPT ![t] = where], UNCHANGED <<req, reply, executions>>
      PROVE  UNCHANGED Promise!vars
  <2>1. ASSUME NEW r \in Reqs
        PROVE  Phase(r)' = Phase(r) /\ Verdict(r)' = Verdict(r)
    BY <1>7 DEF Phase, Verdict, TypeOK, Tasks
  <2> QED BY <1>7, <2>1 DEF Promise!vars
<1>8. ASSUME NEW r \in Reqs, CallTool(r) PROVE [Promise!Next]_(Promise!vars)
  <2>1. r \in Tasks /\ TaskInv(r)
    BY DEF IInv, Tasks
  <2>2. CASE pc' = [pc EXCEPT ![r] = "running"] /\ UNCHANGED reply
    BY <1>7, <1>8, <2>1, <2>2 DEF CallTool
  <2>3. CASE /\ pc' = [pc EXCEPT ![r] = Answered]
             /\ reply' = [reply EXCEPT ![r] = [code |-> "refused", hint |-> NoTool]]
    <3>1. [code |-> "refused", hint |-> NoTool] \in [code : Codes, hint : Tools \cup {NoTool}]
      BY DEF Codes
    <3>2. executions[r] = 0 /\ UNCHANGED <<req, executions>> /\ pc[r] = "queued"
      BY <1>8, <2>1 DEF CallTool, TaskInv
    <3>3. Promise!Lose(r) \/ \E v \in {"done", "not_done", "unknown"} : Promise!Answer(r, v)
      BY <2>3, <3>1, <3>2, AnswerPromise
    <3> QED BY <3>3 DEF Promise!Next
  <2> QED BY <1>8, <2>2, <2>3 DEF CallTool
<1>9. ASSUME NEW r \in Reqs, StartInitialize(r) \/ StartListResources(r)
      PROVE  UNCHANGED Promise!vars
  <2>1. r \in Tasks
    BY DEF Tasks
  <2> QED BY <1>7, <1>9, <2>1 DEF StartInitialize, StartListResources
<1>10. ASSUME NEW t \in Tasks, Exchanges(t) PROVE [Promise!Next]_(Promise!vars)
  <2>1. CASE Connect(t)
    BY <1>7, <2>1 DEF Connect
  <2>2. CASE Send(t)
    BY <1>1, <2>2 DEF Send
  <2> QED BY <1>10, <2>1, <2>2, ResumePromise
          DEF Exchanges, ConnectFails, Breaks, Orphaned, Receive
<1>11. ASSUME NEW t \in Tasks, DaemonExecutes(t) PROVE [Promise!Next]_(Promise!vars)
  <2>1. TaskInv(t) /\ wire[t].stage \in {"sent", "orphaned"} /\ wire[t] # NoWire
    BY <1>11 DEF IInv, DaemonExecutes, NoWire
  <2>2. executions[t] = 0
    BY <2>1 DEF TaskInv
  <2>3. UNCHANGED <<req, pc, reply>>
    BY <1>11 DEF DaemonExecutes
  <2>4. CASE ~LastTrip(t)
    <3>1. executions' = executions
      BY <1>11, <2>4 DEF DaemonExecutes, TypeOK
    <3> QED BY <1>1, <2>3, <3>1
  <2>5. CASE t = Main
    <3>1. ASSUME NEW r \in Reqs PROVE executions'[r] = executions[r]
      BY <1>11, <2>5, TaskAssumption DEF DaemonExecutes, TypeOK, Tasks
    <3> QED BY <2>3, <3>1, Unseen
  <2>6. CASE LastTrip(t) /\ t \in Reqs
    <3>1. executions' = [executions EXCEPT ![t] = executions[t] + 1]
      BY <1>11, <2>6 DEF DaemonExecutes
    <3>2. executions'[t] = 1 /\ \A r \in Reqs : r # t => executions'[r] = executions[r]
      BY <2>2, <2>6, <3>1 DEF TypeOK, Tasks
    <3>3. \/ Phase(t) \in {"open", "lost"}
          \/ Phase(t) = "answered" /\ Verdict(t) = "unknown"
      <4>1. pc[t] \in {"waiting", "answered", "unheard", "dropped"}
        BY <2>1, <2>6 DEF TaskInv, TypeOK, NoWire
      <4>2. /\ reply[t].code \notin {"refused", "daemon_unreachable"}
            /\ ~(reply[t].code = "ok" /\ req[t].kind = "tool")
        BY <2>1, <2>2 DEF TaskInv
      <4> QED BY <4>1, <4>2 DEF Phase, Verdict
    <3>4. [r \in Reqs |-> executions'[r] > 0]
            = [[r \in Reqs |-> executions[r] > 0] EXCEPT ![t] = TRUE]
      <4>1. executions'[t] > 0
        BY <3>2
      <4>2. (executions'[t] > 0) = TRUE
        BY <4>1
      <4>3. \A r \in Reqs : r # t => (executions'[r] > 0) = (executions[r] > 0)
        BY <3>2
      <4> QED BY <4>2, <4>3
    <3>5. ~(executions[t] > 0)
      BY <2>2
    <3>6. \A r \in Reqs : Phase(r)' = Phase(r) /\ Verdict(r)' = Verdict(r)
      BY <2>3 DEF Phase, Verdict
    <3>7. Promise!Apply(t)
      BY <2>6, <3>3, <3>4, <3>5, <3>6 DEF Promise!Apply
    <3> QED BY <2>6, <3>7 DEF Promise!Next
  <2> QED BY <2>4, <2>5, <2>6 DEF Tasks
<1>12. ASSUME NEW t \in Tasks, DaemonRefuses(t) \/ ConnectionLost(t)
       PROVE  UNCHANGED Promise!vars
  BY <1>1, <1>12 DEF DaemonRefuses, ConnectionLost
<1>13. CASE DaemonCrashes \/ DaemonStarts \/ UNCHANGED vars
  BY <1>1, <1>13 DEF DaemonCrashes, DaemonStarts, vars, taskVars
<1> QED BY <1>3, <1>4, <1>5, <1>6, <1>8, <1>9, <1>10, <1>11, <1>12, <1>13
        DEF Next, Loop, Starts, Daemon, DaemonOn

\* Every session keeps the promise of AtMostOnceCall to each of its calls.
THEOREM PromiseKept == Spec => KeepsPromise
BY InitTyped, StepTyped, InitIInv, StepIInv, InitPromise, StepPromise, PTL
   DEF Spec, KeepsPromise, Promise!Spec

-----------------------------------------------------------------------------
(* What the disconnect event accounts for.                                 *)

\* The tool calls that have been counted for sure, and those that may have been: one
\* that the end of the session drops may have started or not.
Counting == {"running", "waiting", "answered", "unheard"}
Heard    == {r \in Asked : pc[r] \in Counting}
Begun    == {r \in Asked : pc[r] # "queued"}
Replied  == {r \in Asked : pc[r] = "answered"}

CountInv ==
    /\ IsFiniteSet(Asked)
    /\ Cardinality(Heard) <= toolsInvoked
    /\ toolsInvoked <= Cardinality(Begun)

\* A task is asked once, and the client is that of the first initialize.
OpenerInv ==
    /\ \A t \in Tasks : pc[t] = "idle" => req[t].kind = "none"
    /\ \A r \in Reqs : /\ req[r].kind # "disconnect"
                       /\ req[r].kind = "initialize" => req[r].client \in Clients
    /\ req[Main].kind \in {"none", "disconnect"}
    /\ opener = Main => clientId = NoClient
    /\ opener # Main => /\ clientId = req[opener].client /\ clientId \in Clients
                        /\ pc[opener] # "idle"

\* No call is answered once the event is composed, so it stays true of the session.
Over == proc \in {"closing", "exited"}
ReportInv ==
    /\ req[Main].kind = "disconnect" =>
           /\ Over /\ opener # Main /\ req[Main].client = req[opener].client
           /\ req[Main].count >= Cardinality(Replied)
           /\ req[Main].count <= Cardinality(Asked)
    /\ \A e \in events : e.name = "disconnect" =>
           req[Main].kind = "disconnect" /\ e.client = req[Main].client
           /\ e.count = req[Main].count

AccountInv == CountInv /\ OpenerInv /\ ReportInv

\* The counts stand in this order, whatever the sets hold.
LEMMA Counts ==
    ASSUME CountInv
    PROVE  /\ IsFiniteSet(Asked) /\ IsFiniteSet(Heard) /\ IsFiniteSet(Begun)
           /\ IsFiniteSet(Replied)
           /\ Cardinality(Asked) \in Nat /\ Cardinality(Heard) \in Nat
           /\ Cardinality(Begun) \in Nat /\ Cardinality(Replied) \in Nat
           /\ Cardinality(Replied) <= Cardinality(Heard)
           /\ Cardinality(Begun) <= Cardinality(Asked)
<1>1. Replied \subseteq Heard /\ Heard \subseteq Asked /\ Begun \subseteq Asked
  BY DEF Replied, Heard, Begun, Counting
<1>2. IsFiniteSet(Asked)
  BY DEF CountInv
<1>3. IsFiniteSet(Heard) /\ IsFiniteSet(Begun) /\ Cardinality(Begun) <= Cardinality(Asked)
  BY <1>1, <1>2, FS_Subset
<1>4. IsFiniteSet(Replied) /\ Cardinality(Replied) <= Cardinality(Heard)
  BY <1>1, <1>3, FS_Subset
<1> QED BY <1>2, <1>3, <1>4, FS_CardinalityType

\* The session goes no further back.
LEMMA CountsMove ==
    ASSUME TypeOK, CountInv, UNCHANGED <<toolsInvoked, req>>,
           \A r \in Asked : /\ pc'[r] \in Counting => pc[r] \in Counting
                            /\ pc'[r] = "queued" => pc[r] = "queued"
    PROVE  CountInv'
<1>1. Asked' = Asked
  BY DEF Asked
<1>2. Heard' \subseteq Heard /\ Begun \subseteq Begun' /\ Begun' \subseteq Asked
  BY <1>1 DEF Heard, Begun
<1>3. IsFiniteSet(Begun')
  BY <1>2, Counts, FS_Subset
<1>4. Cardinality(Heard') <= Cardinality(Heard) /\ Cardinality(Begun) <= Cardinality(Begun')
  BY <1>2, <1>3, Counts, FS_Subset
<1>5. Cardinality(Heard') \in Nat /\ Cardinality(Begun') \in Nat
  BY <1>2, <1>3, Counts, FS_Subset, FS_CardinalityType
<1> QED BY <1>1, <1>4, <1>5, Counts DEF CountInv, TypeOK

\* A step that asks nothing, counts nothing and reports nothing.
LEMMA QuietAccount ==
    ASSUME TypeOK, AccountInv, UNCHANGED <<clientId, toolsInvoked, opener, req, events>>,
           Over => Over',
           \A t \in Tasks : pc'[t] = "idle" => pc[t] = "idle",
           \A r \in Asked : /\ pc'[r] \in Counting => pc[r] \in Counting
                            /\ pc'[r] = "queued" => pc[r] = "queued"
                            /\ pc'[r] = "answered" /\ Over => pc[r] = "answered"
    PROVE  AccountInv'
<1>1. CountInv'
  BY CountsMove DEF AccountInv
<1>2. OpenerInv'
  BY DEF AccountInv, OpenerInv, TypeOK
<1>3. ReportInv'
  <2>1. CASE req[Main].kind = "disconnect"
    <3>1. Asked' = Asked /\ Replied' \subseteq Replied
      BY <2>1 DEF Asked, Replied, AccountInv, ReportInv
    <3>2. Cardinality(Replied') <= Cardinality(Replied) /\ Cardinality(Replied') \in Nat
      BY <3>1, Counts, FS_Subset, FS_CardinalityType DEF AccountInv
    <3>3. req[Main].count \in Nat
      BY DEF TypeOK, RequestType, Tasks
    <3> QED BY <2>1, <3>1, <3>2, <3>3, Counts DEF AccountInv, ReportInv
  <2>2. CASE req[Main].kind # "disconnect"
    BY <2>2 DEF AccountInv, ReportInv
  <2> QED BY <2>1, <2>2
<1> QED BY <1>1, <1>2, <1>3 DEF AccountInv

\* Nobody has asked for anything yet.
LEMMA InitAccount == Init => AccountInv
<1> SUFFICES ASSUME Init PROVE AccountInv
  OBVIOUS
<1>1. Asked = {} /\ Heard = {} /\ Begun = {}
  BY DEF Init, Asked, Heard, Begun, NoReq, Ask, Tasks
<1>2. CountInv
  BY <1>1, FS_EmptySet DEF Init, CountInv
<1>3. OpenerInv /\ ReportInv
  BY DEF Init, OpenerInv, ReportInv, NoReq, Ask, Tasks
<1> QED BY <1>2, <1>3 DEF AccountInv

\* A new request is one more that was asked, at most.
LEMMA QueueAccount ==
    ASSUME TypeOK, AccountInv, NEW r \in Reqs, NEW q \in Requests, Queue(r, q),
           ~Over
    PROVE  AccountInv'
<1> USE DEF sessionVars, healthVars, ghostVars
<1>1. /\ req' = [req EXCEPT ![r] = q] /\ pc' = [pc EXCEPT ![r] = "queued"] /\ pc[r] = "idle"
      /\ r \in Tasks /\ r # Main /\ UNCHANGED <<proc, clientId, toolsInvoked, opener, events>>
  BY TaskAssumption DEF Queue, Tasks
<1>2. /\ q.kind \notin {"none", "disconnect"}
      /\ q.kind = "initialize" => q.client \in Clients
  BY DEF Requests, ToolCalls, ToolCall, Initialize, ListResources, Ask
<1>3. req[r].kind = "none"
  BY <1>1 DEF AccountInv, OpenerInv
<1>4. CountInv'
  <2>1. Asked' \subseteq Asked \cup {r} /\ Asked \subseteq Asked' /\ r \notin Asked
    BY <1>1, <1>3 DEF Asked, TypeOK
  <2>2. Heard' = Heard /\ Begun' = Begun
    BY <1>1, <2>1 DEF Heard, Begun, Asked, Counting, TypeOK
  <2>3. IsFiniteSet(Asked')
    BY <2>1, Counts, FS_AddElement, FS_Subset DEF AccountInv
  <2> QED BY <1>1, <2>2, <2>3 DEF AccountInv, CountInv
<1>5. OpenerInv'
  BY <1>1, <1>2, <1>3 DEF AccountInv, OpenerInv, TypeOK, Tasks
<1>6. ReportInv'
  BY <1>1 DEF AccountInv, ReportInv, TypeOK, Over
<1> QED BY <1>4, <1>5, <1>6 DEF AccountInv

\* call_tool counts the call before it does anything else.
LEMMA CallAccount ==
    ASSUME TypeOK, AccountInv, NEW r \in Reqs, CallTool(r), Running
    PROVE  AccountInv'
<1> USE DEF healthVars, ghostVars
<1>1. /\ pc[r] = "queued" /\ req[r].kind = "tool" /\ r \in Tasks /\ r # Main
      /\ toolsInvoked' = toolsInvoked + 1 /\ toolsInvoked \in Nat
      /\ UNCHANGED <<proc, clientId, opener, req, events>>
  BY TaskAssumption DEF CallTool, CountCall, TypeOK, Tasks
<1>2. PICK where \in {"running", "answered", "unheard"} :
        pc' = [pc EXCEPT ![r] = where] /\ (where = "answered" => ~Over)
  <2>1. CASE pc' = [pc EXCEPT ![r] = "running"]
    BY <2>1
  <2>2. CASE pc' = [pc EXCEPT ![r] = Answered]
    <3>1. /\ Answered \in {"answered", "unheard"}
          /\ Answered = "answered" => ~Over
      BY DEF Answered, Over, Running
    <3> QED BY <2>2, <3>1
  <2> QED BY <2>1, <2>2 DEF CallTool
<1>3. CountInv'
  <2>1. Asked' = Asked /\ r \in Asked /\ r \notin Heard /\ r \notin Begun
    BY <1>1 DEF Asked, Heard, Begun, Counting
  <2>2. Heard' = Heard \cup {r} /\ Begun' = Begun \cup {r}
    BY <1>2, <2>1 DEF Heard, Begun, Counting, TypeOK, Asked, Tasks
  <2>3. /\ Cardinality(Heard') = Cardinality(Heard) + 1
        /\ Cardinality(Begun') = Cardinality(Begun) + 1
    BY <2>1, <2>2, Counts, FS_AddElement DEF AccountInv
  <2> QED BY <1>1, <2>1, <2>3, Counts DEF AccountInv, CountInv
<1>4. OpenerInv'
  BY <1>1, <1>2 DEF AccountInv, OpenerInv, TypeOK
<1>5. ReportInv'
  <2>1. CASE req[Main].kind = "disconnect"
    <3>1. Asked' = Asked
      BY <1>1 DEF Asked
    <3>2. Replied' = Replied
      <4>1. Over
        BY <2>1 DEF AccountInv, ReportInv
      <4>2. \A u \in Asked : pc'[u] = "answered" <=> pc[u] = "answered"
        BY <1>1, <1>2, <4>1 DEF TypeOK, Asked, Tasks
      <4> QED BY <3>1, <4>2 DEF Replied
    <3> QED BY <1>1, <2>1, <3>1, <3>2 DEF AccountInv, ReportInv, Over
  <2>2. CASE req[Main].kind # "disconnect"
    BY <1>1, <2>2 DEF AccountInv, ReportInv
  <2> QED BY <2>1, <2>2
<1> QED BY <1>3, <1>4, <1>5 DEF AccountInv

\* The first initialize names the client, and a later one changes nothing.
LEMMA InitializeAccount ==
    ASSUME TypeOK, AccountInv, NEW r \in Reqs, StartInitialize(r)
    PROVE  AccountInv'
<1> USE DEF healthVars, ghostVars
<1>1. /\ pc[r] = "queued" /\ req[r].kind = "initialize" /\ r \in Tasks /\ r # Main
      /\ req[r].client \in Clients
      /\ pc' = [pc EXCEPT ![r] = "running"]
      /\ UNCHANGED <<proc, toolsInvoked, req, events>>
      /\ clientId' = IF clientId = NoClient THEN req[r].client ELSE clientId
      /\ opener' = IF opener = Main THEN r ELSE opener
  BY TaskAssumption DEF StartInitialize, RecordClient, AccountInv, OpenerInv, Tasks
<1>2. CountInv'
  <2>1. \A u \in Asked : pc'[u] = pc[u]
    BY <1>1 DEF Asked, TypeOK, Tasks
  <2> QED BY <1>1, <2>1, CountsMove DEF AccountInv
<1>3. OpenerInv'
  <2>1. opener = Main <=> clientId = NoClient
    BY ClientAssumption DEF AccountInv, OpenerInv
  <2>2. CASE opener = Main
    BY <1>1, <2>1, <2>2 DEF AccountInv, OpenerInv, TypeOK
  <2>3. CASE opener # Main
    BY <1>1, <2>1, <2>3 DEF AccountInv, OpenerInv, TypeOK
  <2> QED BY <2>2, <2>3
<1>4. ReportInv'
  <2>1. Asked' = Asked /\ Replied' = Replied
    BY <1>1 DEF Asked, Replied, TypeOK, Tasks
  <2> QED BY <1>1, <2>1 DEF AccountInv, ReportInv, Over
<1> QED BY <1>2, <1>3, <1>4 DEF AccountInv

\* The event is composed from the count and the client, after the last answer.
LEMMA DisconnectAccount ==
    ASSUME TypeOK, AccountInv, TrackDisconnect
    PROVE  AccountInv'
<1> USE DEF sessionVars, healthVars, ghostVars
<1>1. /\ req' = [req EXCEPT ![Main] = Disconnect(clientId, toolsInvoked)]
      /\ pc' = [pc EXCEPT ![Main] = "running"]
      /\ proc = "closing" /\ pc[Main] = "idle" /\ clientId # NoClient
      /\ UNCHANGED <<proc, clientId, toolsInvoked, opener, events>>
  BY DEF TrackDisconnect
<1>2. /\ req'[Main].kind = "disconnect" /\ req'[Main].client = clientId
      /\ req'[Main].count = toolsInvoked
  BY <1>1 DEF Disconnect, Ask, TypeOK, Tasks
<1>3. \A r \in Reqs : req'[r] = req[r] /\ pc'[r] = pc[r]
  BY <1>1, TaskAssumption DEF TypeOK, Tasks
<1>4. Asked' = Asked /\ Heard' = Heard /\ Begun' = Begun /\ Replied' = Replied
  BY <1>3 DEF Asked, Heard, Begun, Replied
<1>5. opener # Main /\ opener \in Reqs /\ clientId = req[opener].client
  BY <1>1 DEF AccountInv, OpenerInv, TypeOK, Tasks
<1>6. CountInv'
  BY <1>1, <1>4 DEF AccountInv, CountInv
<1>7. OpenerInv'
  BY <1>1, <1>2, <1>3, <1>5 DEF AccountInv, OpenerInv, TypeOK, Tasks
<1>8. ReportInv'
  <2>1. req[Main].kind = "none"
    BY <1>1 DEF AccountInv, OpenerInv, Tasks
  <2>2. \A e \in events : e.name # "disconnect"
    BY <2>1 DEF AccountInv, ReportInv
  <2>3. toolsInvoked >= Cardinality(Replied) /\ toolsInvoked <= Cardinality(Asked)
    BY Counts DEF AccountInv, CountInv, TypeOK
  <2> QED BY <1>1, <1>2, <1>3, <1>4, <1>5, <2>2, <2>3 DEF ReportInv, Over
<1> QED BY <1>6, <1>7, <1>8 DEF AccountInv

\* The daemon takes in the event of the task whose request it carries out.
LEMMA ExecuteAccount ==
    ASSUME TypeOK, AccountInv, NEW t \in Tasks, DaemonExecutes(t)
    PROVE  AccountInv'
<1>1. /\ UNCHANGED <<proc, clientId, toolsInvoked, opener, req, pc>>
      /\ events' = events \cup EventsOf(t)
  BY DEF DaemonExecutes, sessionVars
<1>2. CountInv' /\ OpenerInv'
  <2>1. CountInv'
    BY <1>1, CountsMove DEF AccountInv
  <2>2. OpenerInv'
    BY <1>1 DEF AccountInv, OpenerInv
  <2> QED BY <2>1, <2>2
<1>3. ASSUME NEW e \in EventsOf(t), e.name = "disconnect"
      PROVE  req[Main].kind = "disconnect" /\ e.client = req[Main].client
             /\ e.count = req[Main].count
  <2>1. e = [name |-> req[t].kind, client |-> req[t].client, count |-> req[t].count]
    BY <1>3 DEF EventsOf
  <2>2. req[t].kind = "disconnect"
    BY <1>3, <2>1
  <2>3. t = Main
    BY <2>2 DEF AccountInv, OpenerInv, Tasks
  <2> QED BY <2>1, <2>2, <2>3
<1>4. Replied' = Replied /\ Asked' = Asked
  BY <1>1 DEF Replied, Asked
<1>5. ReportInv'
  BY <1>1, <1>3, <1>4 DEF AccountInv, ReportInv, Over
<1> QED BY <1>2, <1>5 DEF AccountInv

\* Only the loop's own task ends the session; it drops what has not answered.
LEMMA ExitAccount ==
    ASSUME TypeOK, AccountInv, Exit,
           UNCHANGED <<clientId, toolsInvoked, opener, req, events>>
    PROVE  AccountInv'
<1>1. \A t \in Tasks : pc'[t] = "idle" => pc[t] = "idle"
  BY DEF Exit
<1>2. \A r \in Asked : pc'[r] = IF pc[r] \in {"queued", "running", "waiting"}
                                THEN "dropped" ELSE pc[r]
  BY TaskAssumption DEF Exit, Asked, Tasks
<1>3. Over'
  BY DEF Exit, Over
<1> QED BY <1>1, <1>2, <1>3, QuietAccount DEF Counting

\* The code after an await answers no call once the loop has ended.
LEMMA ResumeAccount ==
    ASSUME TypeOK, AccountInv, NEW t \in Tasks, NEW o, Resume(t, o),
           pc[t] \in {"running", "waiting"}, Running
    PROVE  AccountInv'
<1>1. UNCHANGED <<clientId, toolsInvoked, opener, req, events>>
  BY DEF Resume, ghostVars
<1>2. ASSUME NEW where \in {"running", "answered", "unheard"}, UNCHANGED proc,
             pc' = [pc EXCEPT ![t] = where], where = "answered" => ~Over
      PROVE  AccountInv'
  <2>1. \A u \in Tasks : pc'[u] = IF u = t THEN where ELSE pc[u]
    BY <1>2 DEF TypeOK
  <2>2. Over' = Over
    BY <1>2 DEF Over
  <2>3. Asked \subseteq Tasks
    BY DEF Asked, Tasks
  <2> QED BY <1>1, <1>2, <2>1, <2>2, <2>3, QuietAccount DEF Counting
<1>3. CASE pc' = [pc EXCEPT ![t] = "running"] /\ UNCHANGED proc
  BY <1>2, <1>3
<1>4. CASE pc' = [pc EXCEPT ![t] = Answered] /\ UNCHANGED proc
  <2>1. /\ Answered \in {"running", "answered", "unheard"}
        /\ Answered = "answered" => ~Over
    BY DEF Answered, Over, Running
  <2> QED BY <1>2, <1>4, <2>1
<1>5. CASE Exit
  BY <1>1, <1>5, ExitAccount
<1> QED BY <1>3, <1>4, <1>5 DEF Resume

LEMMA StepAccount == TypeOK /\ AccountInv /\ [Next]_vars => AccountInv'
<1> SUFFICES ASSUME TypeOK, AccountInv, [Next]_vars PROVE AccountInv'
  OBVIOUS
<1> USE DEF sessionVars, healthVars, ghostVars
<1>1. ASSUME UNCHANGED <<proc, clientId, toolsInvoked, opener, req, pc, events>>
      PROVE  AccountInv'
  BY <1>1, QuietAccount DEF Over
<1>2. CASE Agent
  <2>1. ASSUME NEW r \in Reqs, NEW c \in Clients, HandshakeRequest(r, c) PROVE AccountInv'
    BY <2>1, QueueAccount DEF HandshakeRequest, Requests, Over
  <2>2. ASSUME NEW r \in Reqs, NEW q \in Requests, Submit(r, q) PROVE AccountInv'
    BY <2>2, QueueAccount DEF Submit, Over
  <2>3. CASE HangUp
    BY <1>1, <2>3 DEF HangUp, taskVars
  <2> QED BY <1>2, <2>1, <2>2, <2>3 DEF Agent
<1>3. CASE Serving \/ HandshakeFails \/ LoopEnds
  <2>1. UNCHANGED <<clientId, toolsInvoked, opener, req, pc, events>> /\ ~Over
    BY <1>3 DEF Serving, HandshakeFails, LoopEnds, GoTo, taskVars, Over
  <2> QED BY <2>1, QuietAccount
<1>4. CASE ExitSilently
  BY <1>4, ExitAccount DEF ExitSilently
<1>5. CASE TrackDisconnect
  BY <1>5, DisconnectAccount
<1>6. ASSUME Running, NEW r \in Reqs, Starts(r) PROVE AccountInv'
  <2>1. CASE CallTool(r)
    BY <1>6, <2>1, CallAccount
  <2>2. CASE StartInitialize(r)
    BY <2>2, InitializeAccount
  <2>3. CASE StartListResources(r)
    <3>1. /\ UNCHANGED <<proc, clientId, toolsInvoked, opener, req, events>>
          /\ pc' = [pc EXCEPT ![r] = "running"] /\ req[r].kind = "list"
      BY <2>3 DEF StartListResources
    <3>2. \A u \in Asked : pc'[u] = pc[u]
      BY <3>1 DEF Asked, TypeOK, Tasks
    <3>3. \A u \in Tasks : pc'[u] = "idle" => pc[u] = "idle"
      BY <3>1 DEF TypeOK
    <3> QED BY <3>1, <3>2, <3>3, QuietAccount DEF Over
  <2> QED BY <1>6, <2>1, <2>2, <2>3 DEF Starts
<1>7. ASSUME Running, NEW t \in Tasks, Exchanges(t) PROVE AccountInv'
  <2>1. CASE Connect(t)
    <3>1. /\ UNCHANGED <<proc, clientId, toolsInvoked, opener, req, events>>
          /\ pc' = [pc EXCEPT ![t] = "waiting"] /\ pc[t] = "running"
      BY <2>1 DEF Connect
    <3>2. \A u \in Tasks : pc'[u] = IF u = t THEN "waiting" ELSE pc[u]
      BY <3>1 DEF TypeOK
    <3>3. Asked \subseteq Tasks
      BY DEF Asked, Tasks
    <3> QED BY <3>1, <3>2, <3>3, QuietAccount DEF Over, Counting
  <2>2. CASE Send(t)
    BY <1>1, <2>2 DEF Send
  <2> QED BY <1>7, <2>1, <2>2, ResumeAccount
          DEF Exchanges, ConnectFails, Breaks, Orphaned, Receive
<1>8. ASSUME NEW t \in Tasks, DaemonOn(t) PROVE AccountInv'
  BY <1>1, <1>8, ExecuteAccount DEF DaemonOn, DaemonRefuses, ConnectionLost
<1>9. CASE DaemonCrashes \/ DaemonStarts \/ UNCHANGED vars
  BY <1>1, <1>9 DEF DaemonCrashes, DaemonStarts, vars, taskVars
<1> QED BY <1>2, <1>3, <1>4, <1>5, <1>6, <1>7, <1>8, <1>9 DEF Next, Loop, Daemon

\* What the server has counted lies between what it answered and what it was asked, and
\* the client it reports is that of the first initialize.
THEOREM Accounting == Spec => []AccountInv
BY InitTyped, StepTyped, InitAccount, StepAccount, PTL DEF Spec

\* The disconnect event that serve() sends names the client of the first initialize and
\* counts every answered call and no call that was not made, in every session.
THEOREM DisconnectIsAccurate == Spec => []DisconnectAccounts
<1>1. AccountInv => DisconnectAccounts
  BY DEF AccountInv, ReportInv, DisconnectAccounts, Replied
<1> QED BY <1>1, Accounting, PTL
=============================================================================
