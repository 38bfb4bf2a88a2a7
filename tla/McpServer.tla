----------------------------- MODULE McpServer ------------------------------
(***************************************************************************)
(* The running MCP server: serve() and its handlers (src/server.rs), the   *)
(* shape every tool body has (src/tools.rs) and each exchange they make    *)
(* with the daemon over the control socket (src/client.rs).                *)
(*                                                                         *)
(* rmcp, the agent and cosmonicd are the environment.  rmcp answers the    *)
(* first initialize inline and afterwards runs every request as a task of  *)
(* its own, so handlers interleave at each await.  The daemon may refuse,  *)
(* fail, answer late, or crash and come back; the agent may hang up.       *)
(***************************************************************************)
EXTENDS Naturals, FiniteSets

CONSTANTS
    Reqs,        \* the requests the agent makes, one task each
    Main,        \* the task that runs serve() itself
    Tools,       \* the tools the agent calls
    NoTool,      \* "outside a tool dispatch"
    Gated,       \* the tools that check their arguments before asking the daemon
    TwoTrips,    \* the tools whose body makes two daemon requests
    Clients,     \* normalized agent identities (telemetry.rs MCP_CLIENTS)
    NoClient,
    MaxCrashes   \* bound on daemon crashes

ASSUME TaskAssumption   == Main \notin Reqs
ASSUME ToolAssumption   == /\ NoTool \notin Tools
                           /\ Gated \subseteq Tools
                           /\ TwoTrips \subseteq Tools
ASSUME ClientAssumption == NoClient \notin Clients
ASSUME CrashAssumption  == MaxCrashes \in Nat

VARIABLES
    proc,          \* where serve() is
    eof,           \* the agent closed stdin
    clientId,      \* CosmonicMcp::client_id, a OnceLock
    toolsInvoked,  \* CosmonicMcp::tools_invoked
    req,           \* what each task was asked
    pc,            \* where each task is
    scope,         \* CURRENT_TOOL, per task
    trip,          \* which daemon request of its body a task is making
    wire,          \* the connection of that request
    reply,         \* what the task answered
    daemonUp, crashes,
    executions,    \* ghost: times the daemon carried out a task's deciding request
    seen,          \* ghost: <<task, tool header>> of all the daemon carried out
    events,        \* ghost: telemetry events the daemon took in
    opener         \* ghost: the first initialize the server ran (Main: none yet)

sessionVars == <<proc, eof, clientId, toolsInvoked, opener>>
taskVars    == <<req, pc, scope, trip, wire, reply>>
healthVars  == <<daemonUp, crashes>>
ghostVars   == <<executions, seen, events>>
vars        == <<sessionVars, taskVars, healthVars, ghostVars>>

Tasks == Reqs \cup {Main}

-----------------------------------------------------------------------------
(* What a task can be asked.  "passes" says the arguments satisfy the      *)
(* tool's own check; "count" is the disconnect event's tool count.         *)

Ask(kind, tool, passes, client, count) ==
    [kind |-> kind, tool |-> tool, passes |-> passes, client |-> client, count |-> count]

NoReq              == Ask("none", NoTool, TRUE, NoClient, 0)
ToolCall(tool, p)  == Ask("tool", tool, p, NoClient, 0)
Initialize(c)      == Ask("initialize", NoTool, TRUE, c, 0)
ListResources      == Ask("list", NoTool, TRUE, NoClient, 0)
Disconnect(c, n)   == Ask("disconnect", NoTool, TRUE, c, n)

\* Arguments can fail the check only of a tool that has one.
ToolCalls == {ToolCall(t, TRUE) : t \in Tools} \cup {ToolCall(t, FALSE) : t \in Gated}
Requests  == ToolCalls \cup {Initialize(c) : c \in Clients} \cup {ListResources}

NoReply == [code |-> "none", hint |-> NoTool]

\* Mutant: a broken exchange reported as a daemon that was never reached.
CodeOf_Unreachable(outcome) ==
    IF outcome = "ok" THEN "ok"
    ELSE IF outcome = "api" THEN "api_error" ELSE "daemon_unreachable"

\* Mutant: the internal outcome reported where the envelope has a code.
CodeOf_Raw(outcome) == outcome

\* Mutant: a body that cannot be read taken for an empty success.
CodeOf_EmptyBody(outcome) ==
    IF outcome \in {"ok", "transport"} THEN "ok"
    ELSE IF outcome = "api" THEN "api_error" ELSE "daemon_unreachable"

\* The codes reply() and the tools' own checks put in the envelope.
CodeOf(outcome) ==
    CASE outcome = "ok"          -> "ok"
      [] outcome = "api"         -> "api_error"
      [] outcome = "unreachable" -> "daemon_unreachable"
      [] outcome = "transport"   -> "transport_error"

NoWire == [stage |-> "none", tag |-> NoTool]

\* Where a request is: the client still waits in the first five; the daemon
\* may still carry it out when it is "sent" or "orphaned".
Stages == {"connected", "sent", "executed", "refused", "broken", "orphaned"}

LastTrip(t) == req[t].tool \in TwoTrips => trip[t] = 2

Init ==
    /\ proc = "handshake" /\ eof = FALSE
    /\ clientId = NoClient /\ toolsInvoked = 0 /\ opener = Main
    /\ req   = [t \in Tasks |-> NoReq]
    /\ pc    = [t \in Tasks |-> "idle"]
    /\ scope = [t \in Tasks |-> NoTool]
    /\ trip  = [t \in Tasks |-> 1]
    /\ wire  = [t \in Tasks |-> NoWire]
    /\ reply = [t \in Tasks |-> NoReply]
    /\ daemonUp \in BOOLEAN /\ crashes = 0
    /\ executions = [t \in Tasks |-> 0]
    /\ seen = {} /\ events = {}

-----------------------------------------------------------------------------
(* The agent.                                                              *)

Queue(r, q) ==
    /\ pc[r] = "idle"
    /\ req' = [req EXCEPT ![r] = q]
    /\ pc'  = [pc EXCEPT ![r] = "queued"]
    /\ UNCHANGED <<sessionVars, scope, trip, wire, reply, healthVars, ghostVars>>

\* The first message: initialize, answered before the loop starts.
HandshakeRequest(r, c) ==
    /\ proc = "handshake" /\ ~eof
    /\ \A u \in Reqs : pc[u] = "idle"
    /\ Queue(r, Initialize(c))

Submit(r, q) ==
    /\ proc = "serving" /\ ~eof
    /\ Queue(r, q)

HangUp ==
    /\ proc \in {"handshake", "serving"} /\ ~eof
    /\ eof' = TRUE
    /\ UNCHANGED <<proc, clientId, toolsInvoked, opener, taskVars, healthVars, ghostVars>>

-----------------------------------------------------------------------------
(* serve(): handshake, loop, disconnect event, exit.                       *)

GoTo(where) ==
    /\ proc' = where
    /\ UNCHANGED <<eof, clientId, toolsInvoked, opener, taskVars, healthVars, ghostVars>>

\* notifications/initialized after the answered initialize, or a stateless
\* peer whose first message is not an initialize at all.
Serving ==
    /\ proc = "handshake" /\ ~eof
    /\ \A r \in Reqs : pc[r] \in {"idle", "answered"}
    /\ GoTo("serving")

\* `serve(stdio()).await?` returns the error: the disconnect code is not reached.
HandshakeFails ==
    /\ proc = "handshake" /\ eof
    /\ \A r \in Reqs : pc[r] \in {"idle", "answered"}
    /\ GoTo("failed")

\* The loop ends at end of input; tasks it has spawned run on.
LoopEnds ==
    /\ proc = "serving" /\ eof
    /\ GoTo("closing")

Exit ==
    /\ proc' = "exited"
    /\ pc' = [t \in Tasks |-> IF pc[t] \in {"queued", "running", "waiting"} /\ t # Main
                                THEN "dropped"
                              ELSE IF t = Main THEN "answered" ELSE pc[t]]

ExitSilently ==
    /\ proc = "closing" /\ pc[Main] = "idle"
    /\ clientId = NoClient
    /\ Exit
    /\ UNCHANGED <<eof, clientId, toolsInvoked, opener, req, scope, trip, wire, reply,
                   healthVars, ghostVars>>

TrackDisconnect ==
    /\ proc = "closing" /\ pc[Main] = "idle"
    /\ clientId # NoClient
    /\ req' = [req EXCEPT ![Main] = Disconnect(clientId, toolsInvoked)]
    /\ pc'  = [pc EXCEPT ![Main] = "running"]
    /\ UNCHANGED <<sessionVars, scope, trip, wire, reply, healthVars, ghostVars>>

-----------------------------------------------------------------------------
(* A handler starts.                                                       *)

\* A reply written once the loop has ended reaches nobody.
Answered == IF proc = "closing" THEN "unheard" ELSE "answered"

CountCall == toolsInvoked' = toolsInvoked + 1

\* Mutant: the tool name kept in a variable every task shares.
EnterScope_Shared(r) == scope' = [t \in Tasks |-> req[r].tool]

EnterScope(r) == scope' = [scope EXCEPT ![r] = req[r].tool]

\* Mutant: the request is on its way before the arguments are looked at.
CallTool_GateLate(r) ==
    /\ pc[r] = "queued" /\ req[r].kind = "tool"
    /\ CountCall
    /\ \/ /\ req[r].passes
          /\ EnterScope(r)
          /\ pc' = [pc EXCEPT ![r] = "running"]
          /\ UNCHANGED <<wire, reply>>
       \/ /\ ~req[r].passes
          /\ pc'    = [pc EXCEPT ![r] = Answered]
          /\ reply' = [reply EXCEPT ![r] = [code |-> "refused", hint |-> NoTool]]
          /\ wire'  = [wire EXCEPT ![r] = [stage |-> "sent", tag |-> req[r].tool]]
          /\ UNCHANGED scope
    /\ UNCHANGED <<proc, eof, clientId, opener, req, trip, healthVars, ghostVars>>

CallTool(r) ==
    /\ pc[r] = "queued" /\ req[r].kind = "tool"
    /\ CountCall
    /\ \/ /\ req[r].passes
          /\ EnterScope(r)
          /\ pc' = [pc EXCEPT ![r] = "running"]
          /\ UNCHANGED reply
       \/ /\ ~req[r].passes
          /\ pc'    = [pc EXCEPT ![r] = Answered]
          /\ reply' = [reply EXCEPT ![r] = [code |-> "refused", hint |-> NoTool]]
          /\ UNCHANGED scope
    /\ UNCHANGED <<proc, eof, clientId, opener, req, trip, wire, healthVars, ghostVars>>

\* Mutant: a plain field, which a second initialize overwrites.
RecordClient_Last(c) == clientId' = c

\* OnceLock::set: the first initialize wins, a later one is ignored.
RecordClient(c) == clientId' = IF clientId = NoClient THEN c ELSE clientId

StartInitialize(r) ==
    /\ pc[r] = "queued" /\ req[r].kind = "initialize"
    /\ RecordClient(req[r].client)
    /\ opener' = IF opener = Main THEN r ELSE opener
    /\ pc' = [pc EXCEPT ![r] = "running"]
    /\ UNCHANGED <<proc, eof, toolsInvoked, req, scope, trip, wire, reply, healthVars, ghostVars>>

StartListResources(r) ==
    /\ pc[r] = "queued" /\ req[r].kind = "list"
    /\ pc' = [pc EXCEPT ![r] = "running"]
    /\ UNCHANGED <<sessionVars, req, scope, trip, wire, reply, healthVars, ghostVars>>

-----------------------------------------------------------------------------
(* DaemonClient::request, one connection per request, no retry, no timeout. *)

\* What a body does with the answer: only a tool's deciding request shows in
\* its reply; refine() reads CURRENT_TOOL to word the hint of an API error.
ReplyTo(t, outcome) ==
    IF req[t].kind = "tool"
    THEN [code |-> CodeOf(outcome),
          hint |-> IF outcome = "api" THEN scope[t] ELSE NoTool]
    ELSE [code |-> "ok", hint |-> NoTool]

\* A connection whose request the daemon may still hold outlives its task.
Hangs(t) == IF wire[t].stage = "orphaned" THEN wire[t] ELSE NoWire

\* The code after the await, up to the next one: the next request or the reply.
Resume(t, outcome) ==
    /\ UNCHANGED <<eof, clientId, toolsInvoked, opener, req, healthVars, ghostVars>>
    /\ \/ /\ ~LastTrip(t)
          /\ trip' = [trip EXCEPT ![t] = 2]
          /\ wire' = [wire EXCEPT ![t] = NoWire]
          /\ pc'   = [pc EXCEPT ![t] = "running"]
          /\ UNCHANGED <<proc, scope, reply>>
       \/ /\ LastTrip(t) /\ t # Main
          /\ pc'    = [pc EXCEPT ![t] = Answered]
          /\ reply' = [reply EXCEPT ![t] = ReplyTo(t, outcome)]
          /\ scope' = [scope EXCEPT ![t] = NoTool]
          /\ wire'  = [wire EXCEPT ![t] = Hangs(t)]
          /\ UNCHANGED <<proc, trip>>
       \/ /\ t = Main
          /\ Exit
          /\ wire' = [wire EXCEPT ![t] = Hangs(t)]
          /\ UNCHANGED <<scope, trip, reply>>

Connect(t) ==
    /\ pc[t] = "running" /\ daemonUp
    /\ pc'   = [pc EXCEPT ![t] = "waiting"]
    /\ wire' = [wire EXCEPT ![t] = [stage |-> "connected", tag |-> NoTool]]
    /\ UNCHANGED <<sessionVars, req, scope, trip, reply, healthVars, ghostVars>>

\* Mutant: reconnect until the daemon is there.
ConnectFails_Loop(t) == pc[t] = "running" /\ UNCHANGED vars

\* No daemon behind the socket, or connect() failing for any other reason.
ConnectFails(t) ==
    /\ pc[t] = "running"
    /\ Resume(t, "unreachable")

\* After two more awaits the request is built, with the tool as a header.
Send(t) ==
    /\ pc[t] = "waiting" /\ wire[t].stage = "connected"
    /\ wire' = [wire EXCEPT ![t] = [stage |-> "sent", tag |-> scope[t]]]
    /\ UNCHANGED <<sessionVars, req, pc, scope, trip, reply, healthVars, ghostVars>>

\* Mutant: an exchange that breaks is tried again.
Breaks_Retry(t) ==
    /\ pc[t] = "waiting" /\ wire[t].stage = "broken"
    /\ wire' = [wire EXCEPT ![t] = NoWire]
    /\ pc'   = [pc EXCEPT ![t] = "running"]
    /\ UNCHANGED <<sessionVars, req, scope, trip, reply, healthVars, ghostVars>>

Breaks(t) ==
    /\ pc[t] = "waiting" /\ wire[t].stage = "broken"
    /\ Resume(t, "transport")

Orphaned(t) ==
    /\ pc[t] = "waiting" /\ wire[t].stage = "orphaned"
    /\ Resume(t, "transport")

\* A 2xx, a 2xx whose body is not JSON, or an error status.
Receive(t) ==
    /\ pc[t] = "waiting"
    /\ \/ wire[t].stage = "executed" /\ \E o \in {"ok", "transport", "api"} : Resume(t, o)
       \/ wire[t].stage = "refused" /\ Resume(t, "api")

-----------------------------------------------------------------------------
(* cosmonicd.                                                              *)

EventsOf(t) ==
    IF req[t].kind \in {"initialize", "disconnect"}
    THEN {[name |-> req[t].kind, client |-> req[t].client, count |-> req[t].count]} ELSE {}

MoveWire(t, stage) == wire' = [wire EXCEPT ![t].stage = stage]

DaemonExecutes(t) ==
    /\ daemonUp /\ wire[t].stage \in {"sent", "orphaned"}
    /\ MoveWire(t, IF wire[t].stage = "sent" THEN "executed" ELSE "broken")
    /\ executions' = [executions EXCEPT ![t] = IF LastTrip(t) THEN @ + 1 ELSE @]
    /\ seen'   = seen \cup {<<t, wire[t].tag>>}
    /\ events' = events \cup EventsOf(t)
    /\ UNCHANGED <<sessionVars, req, pc, scope, trip, reply, healthVars>>

DaemonRefuses(t) ==
    /\ daemonUp /\ wire[t].stage = "sent"
    /\ MoveWire(t, "refused")
    /\ UNCHANGED <<sessionVars, req, pc, scope, trip, reply, healthVars, ghostVars>>

\* The connection is lost under a request; one that was read may still be run.
ConnectionLost(t) ==
    /\ wire[t].stage \in {"connected", "sent", "executed", "refused"}
    /\ \/ MoveWire(t, "broken")
       \/ wire[t].stage = "sent" /\ MoveWire(t, "orphaned")
    /\ UNCHANGED <<sessionVars, req, pc, scope, trip, reply, healthVars, ghostVars>>

DaemonCrashes ==
    /\ daemonUp /\ crashes < MaxCrashes
    /\ daemonUp' = FALSE /\ crashes' = crashes + 1
    /\ wire' = [t \in Tasks |-> IF wire[t].stage = "none" THEN wire[t]
                                ELSE [wire[t] EXCEPT !.stage = "broken"]]
    /\ UNCHANGED <<sessionVars, req, pc, scope, trip, reply, ghostVars>>

DaemonStarts ==
    /\ ~daemonUp
    /\ daemonUp' = TRUE
    /\ UNCHANGED <<sessionVars, taskVars, crashes, ghostVars>>

-----------------------------------------------------------------------------

Agent ==
    \/ \E r \in Reqs, c \in Clients : HandshakeRequest(r, c)
    \/ \E r \in Reqs, q \in Requests : Submit(r, q)
    \/ HangUp

Loop == Serving \/ HandshakeFails \/ LoopEnds \/ ExitSilently \/ TrackDisconnect

Starts(r)    == CallTool(r) \/ StartInitialize(r) \/ StartListResources(r)
Exchanges(t) == Connect(t) \/ ConnectFails(t) \/ Send(t) \/ Breaks(t) \/ Orphaned(t) \/ Receive(t)

DaemonOn(t) == DaemonExecutes(t) \/ DaemonRefuses(t) \/ ConnectionLost(t)
Daemon      == DaemonCrashes \/ DaemonStarts \/ \E t \in Tasks : DaemonOn(t)

Running == proc \notin {"exited", "failed"}

Next ==
    \/ Agent
    \/ Loop
    \/ Running /\ \E r \in Reqs : Starts(r)
    \/ Running /\ \E t \in Tasks : Exchanges(t)
    \/ Daemon

Spec == Init /\ [][Next]_vars

-----------------------------------------------------------------------------
(* Fairness: tokio polls every ready task, and the loop sees end of input. *)
(* The agent owes nothing.  That the daemon settles each request it holds  *)
(* is a fact about the daemon alone: no timeout in the client stands in.   *)

ServerFairness ==
    /\ WF_vars(HandshakeFails \/ LoopEnds \/ ExitSilently \/ TrackDisconnect)
    /\ \A r \in Reqs : WF_vars(Running /\ Starts(r))
    /\ \A t \in Tasks : WF_vars(Running /\ Exchanges(t))

DaemonSettles ==
    \A t \in Tasks : WF_vars(DaemonExecutes(t) \/ DaemonRefuses(t))

StalledSpec == Spec /\ ServerFairness
FairSpec    == Spec /\ ServerFairness /\ DaemonSettles

-----------------------------------------------------------------------------
(* Properties.                                                             *)

Codes == {"none", "ok", "refused", "daemon_unreachable", "transport_error", "api_error"}
Kinds == {"none", "tool", "initialize", "list", "disconnect"}

RequestType == [kind : Kinds, tool : Tools \cup {NoTool}, passes : BOOLEAN,
                client : Clients \cup {NoClient}, count : Nat]

TypeOK ==
    /\ proc \in {"handshake", "serving", "closing", "exited", "failed"}
    /\ eof \in BOOLEAN
    /\ clientId \in Clients \cup {NoClient}
    /\ toolsInvoked \in Nat
    /\ req   \in [Tasks -> RequestType]
    /\ pc    \in [Tasks -> {"idle", "queued", "running", "waiting",
                           "answered", "unheard", "dropped"}]
    /\ scope \in [Tasks -> Tools \cup {NoTool}]
    /\ trip  \in [Tasks -> {1, 2}]
    /\ wire  \in [Tasks -> [stage : Stages \cup {"none"}, tag : Tools \cup {NoTool}]]
    /\ reply \in [Tasks -> [code : Codes, hint : Tools \cup {NoTool}]]
    /\ daemonUp \in BOOLEAN /\ crashes \in 0..MaxCrashes
    /\ executions \in [Tasks -> Nat]
    /\ seen \subseteq Tasks \X (Tools \cup {NoTool})
    /\ events \subseteq [name : Kinds, client : Clients \cup {NoClient}, count : Nat]
    /\ opener \in Tasks

\* The daemon carries out what a tool call asks at most once, through broken
\* connections, crashes and restarts: the client never repeats a request.
AtMostOnce == \A t \in Tasks : executions[t] <= 1

\* "refused" and "daemon_unreachable" are final: the daemon has not carried the
\* call out and will not, so the agent can repeat it without a second effect.
NothingLeft(t) == executions[t] = 0 /\ wire[t].stage \notin {"sent", "orphaned"}
UnreachableMeansUntouched ==
    \A r \in Reqs : reply[r].code \in {"refused", "daemon_unreachable"} => NothingLeft(r)

\* status "ok" on a tool call means the daemon carried it out, even when the
\* daemon crashed or the session was closing meanwhile.
OkMeansExecuted ==
    \A r \in Reqs : reply[r].code = "ok" /\ req[r].kind = "tool" => executions[r] = 1

\* The header that counts usage, and the recovery hint of an API error, name the
\* tool of the task itself, whatever other tools run at the same time; traffic
\* outside a tool dispatch carries none (CURRENT_TOOL, read after awaits).
TagNamesCaller ==
    /\ \A s \in seen : s[2] = req[s[1]].tool
    /\ \A r \in Reqs : reply[r].code = "api_error" => reply[r].hint = req[r].tool

\* The disconnect event names the client of the first initialize, and its count
\* has every tool call the agent got an answer to and none it did not make.
Asked == {r \in Reqs : req[r].kind = "tool"}
DisconnectAccounts ==
    \A e \in events : e.name = "disconnect" =>
        /\ opener # Main /\ e.client = req[opener].client
        /\ e.count >= Cardinality({r \in Asked : pc[r] = "answered"})
        /\ e.count <= Cardinality(Asked)

\* Why the four above hold: the task's own state bounds what its connection may
\* still do (the strengthening the proofs use).
Live == {"idle", "queued", "running", "waiting"}
TaskInv(t) ==
    /\ executions[t] <= 1
    /\ ~LastTrip(t) => executions[t] = 0
    /\ pc[t] \in {"idle", "queued", "running"} => wire[t] = NoWire /\ executions[t] = 0
    /\ pc[t] \in {"idle", "queued"} => scope[t] = NoTool
    /\ pc[t] \in {"running", "waiting"} => scope[t] = req[t].tool
    /\ pc[t] \in Live => reply[t] = NoReply
    /\ pc[t] = "waiting" => wire[t].stage # "none"
    /\ wire[t].stage \in {"connected", "sent", "refused", "orphaned"} => executions[t] = 0
    /\ wire[t].stage \in {"sent", "orphaned"} => wire[t].tag = req[t].tool
    /\ pc[t] = "waiting" /\ wire[t].stage = "executed" /\ LastTrip(t) => executions[t] = 1
    /\ reply[t].code \in {"refused", "daemon_unreachable"} => wire[t] = NoWire /\ executions[t] = 0
    /\ reply[t].code = "ok" /\ req[t].kind = "tool" => executions[t] = 1
    /\ reply[t].code = "api_error" => reply[t].hint = req[t].tool
    /\ req[t].kind # "tool" => req[t].tool = NoTool
    /\ t = Main => req[t].kind # "tool" /\ pc[t] \in {"idle", "running", "waiting", "answered"}
SeenInv == \A s \in seen : s[2] = req[s[1]].tool /\ pc[s[1]] # "idle"
IInv == (\A t \in Tasks : TaskInv(t)) /\ SeenInv

\* Every request the server takes is answered or dies with the session.
EveryCallAnswered ==
    \A r \in Reqs : pc[r] = "queued" ~> pc[r] \in {"answered", "unheard", "dropped"}

\* When the agent hangs up, serve() returns.
SessionEnds == eof ~> proc \in {"exited", "failed"}

\* server.rs 68-70: telemetry is best effort, so initialize is answered
\* whatever the daemon does with the event.
InitializeAnswered ==
    \A r \in Reqs : (pc[r] = "queued" /\ req[r].kind = "initialize")
                       ~> pc[r] \in {"answered", "unheard", "dropped"}

-----------------------------------------------------------------------------
(* What a call promises its agent, stated apart: AtMostOnceCall.           *)

Phase(r) ==
    CASE pc[r] = "idle" -> "idle"
      [] pc[r] \in {"queued", "running", "waiting"} -> "open"
      [] pc[r] = "answered" -> "answered"
      [] pc[r] \in {"unheard", "dropped"} -> "lost"

Verdict(r) ==
    IF pc[r] # "answered" THEN "none"
    ELSE IF req[r].kind # "tool" THEN "unknown"
    ELSE IF reply[r].code = "ok" THEN "done"
    ELSE IF reply[r].code \in {"refused", "daemon_unreachable"} THEN "not_done"
    ELSE "unknown"

Promise == INSTANCE AtMostOnceCall WITH
    Calls   <- Reqs,
    phase   <- [r \in Reqs |-> Phase(r)],
    applied <- [r \in Reqs |-> executions[r] > 0],
    verdict <- [r \in Reqs |-> Verdict(r)]

KeepsPromise == Promise!Spec
=============================================================================
