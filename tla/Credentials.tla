---------------------------- MODULE Credentials -----------------------------
(***************************************************************************)
(* A workload that waits for its credentials: the agent applies it, the    *)
(* daemon parks it, the reply asks the user for what is missing            *)
(* (credentials_apply_notes), the daemon starts it by itself, and the      *)
(* agent tests it (test_next_steps).  Each party goes at its own pace, and *)
(* credentials go bad meanwhile.  The daemon, the user and the Desktop are *)
(* external; the next steps of the other tools are those of ToolTable.     *)
(***************************************************************************)
EXTENDS Naturals, FiniteSets, ToolTable

CONSTANTS
    Specs,        \* the kinds of the rows, for each workload looked at
    MaxMishaps    \* bound: things that go wrong

\* The states a row of each kind can have, and those that need nobody.
StatesOf ==
    [secretRef    |-> {"missing", "registered", "resolved", "failed", "ok", "invalid",
                       "insufficient"},
     configSource |-> {"missing", "registered"},
     connection   |-> {"missing", "choose", "consent-required", "connected", "needs-reauth",
                       "revoked", "missing-scope", "disconnected", "denied"}]

ASSUME SpecAssumption == \A k \in Specs : \A r \in DOMAIN k : k[r] \in DOMAIN StatesOf

Green == {"registered", "resolved", "ok", "connected"}

VARIABLES
    kindOf,     \* the kind of each row of the workload
    rows,       \* status.credentials: the state of each
    worth,      \* what the value behind it is worth upstream: "good", "weak", "bad"
    checked,    \* the workload has a check_auth tool
    hosts,      \* allowedHosts has the upstream API: "open", "closed"
    phase,      \* "absent", "parked", "running", "down"
    todo,       \* tools the agent was told to use and has not yet
    asked,      \* what the user was asked and has not yet done
    verdict,    \* of the last test
    fresh,      \* something happened since
    mishaps

configVars == <<kindOf, checked>>
hostVars   == <<rows, worth, hosts, phase>>
agentVars  == <<todo, asked, verdict>>
credVars   == <<configVars, hostVars, agentVars, fresh, mishaps>>

Rows == DOMAIN kindOf

\* The daemon parks a workload until its references, configs and connections are there.
Blocks(r) ==
    \/ rows[r] = "missing"
    \/ kindOf[r] = "connection" /\ rows[r] # "connected"

Ask(r, act) == [row |-> r, act |-> act]
Acts == {"save", "relay", "allow", "connect", "rotate", "edit hosts"}

-----------------------------------------------------------------------------
(* What the replies say.                                                   *)

\* Mutant: a config that does not exist is a line of the note, and nobody is asked for it.
RowAsks_NoConfig(r) ==
    {a \in Acts :
        \/ a = "save" /\ kindOf[r] = "secretRef" /\ rows[r] = "missing"
        \/ a = "allow" /\ rows[r] = "consent-required"
        \/ a = "connect" /\ kindOf[r] = "connection" /\ rows[r] # "consent-required"}

\* What the user is told for one row of a parked workload; for a config it is the
\* remediation, which only green states lack.
RowAsks(r) ==
    {a \in Acts :
        \/ a = "save" /\ kindOf[r] = "secretRef" /\ rows[r] = "missing"
        \/ a = "relay" /\ kindOf[r] = "configSource" /\ rows[r] = "missing"
        \/ a = "allow" /\ rows[r] = "consent-required"
        \/ a = "connect" /\ kindOf[r] = "connection" /\ rows[r] # "consent-required"}

\* The reply of a tool whose result is a workload: parked, or in the ordinary envelope.
WorkloadReply(tool) ==
    \/ /\ phase' = "parked"
       /\ asked' = asked \cup UNION {{Ask(r, a) : a \in RowAsks(r)} : r \in Rows}
       /\ todo' = (todo \ {tool}) \cup {"workload_credentials_test", "workload_list"}
    \/ /\ phase' # "parked"
       /\ todo' = (todo \ {tool}) \cup Table[tool].next
       /\ UNCHANGED asked

\* Mutant: a server that cannot reach its API is to be tested again, and nobody is asked.
TestAsks_NoHosts(v, r) ==
    {Ask(r, a) : a \in {b \in Acts :
        \/ b = "save" /\ v = "missing"
        \/ b = "rotate" /\ v \in {"invalid", "insufficient"}}}

\* What the user is told for the verdict of a test, about the credential it names.
TestAsks(v, r) ==
    {Ask(r, a) : a \in {b \in Acts :
        \/ b = "save" /\ v = "missing"
        \/ b = "rotate" /\ v \in {"invalid", "insufficient"}
        \/ b = "edit hosts" /\ v = "unreachable"}}

\* What the agent is told to do: not to retry until the user is done, to start the
\* workload and test again, nothing, or to read the logs.
TestSteps(v) ==
    CASE v \in {"missing", "invalid", "unreachable"} -> {"workload_credentials_test"}
      [] v = "not_running" -> {"workload_start", "workload_credentials_test"}
      [] v \in {"ok", "insufficient", "not_mcp"} -> {}
      [] OTHER -> {"logs_query"}

\* The counts of summarize_workloads.
Missing == {r \in Rows : rows[r] = "missing"}

\* Mutant: a connection that waits for the user's choice is not counted.
Attention_NoChoice ==
    {r \in Rows : rows[r] \in {"failed", "invalid", "insufficient", "consent-required",
        "needs-reauth", "revoked", "missing-scope", "disconnected", "denied"}}

Attention ==
    {r \in Rows : rows[r] \in {"failed", "invalid", "insufficient", "choose",
        "consent-required", "needs-reauth", "revoked", "missing-scope", "disconnected", "denied"}}

-----------------------------------------------------------------------------
CredInit ==
    /\ kindOf \in Specs
    /\ checked \in BOOLEAN
    /\ rows \in {st \in [Rows -> UNION {StatesOf[k] : k \in DOMAIN StatesOf}] :
                    \A r \in Rows : st[r] \in StatesOf[kindOf[r]]}
    /\ worth \in [Rows -> {"good", "bad"}]
    /\ \A r \in Rows : worth[r] = "bad" => kindOf[r] = "secretRef"
    /\ hosts \in {"open", "closed"}
    /\ phase = "absent"
    /\ todo = {"workload_apply"} /\ asked = {} /\ verdict = "none"
    /\ fresh = TRUE /\ mishaps = 0

Mishap == mishaps < MaxMishaps /\ mishaps' = mishaps + 1

\* The daemon starts the workload, or parks it, or a backend does not yield a value.
Starts ==
    \/ /\ \E r \in Rows : Blocks(r)
       /\ phase' = "parked"
       /\ UNCHANGED <<rows, mishaps>>
    \/ /\ \A r \in Rows : ~Blocks(r)
       /\ phase' = "running"
       /\ rows' = [r \in Rows |-> IF rows[r] \in {"registered", "failed"}
                                     /\ kindOf[r] = "secretRef" THEN "resolved" ELSE rows[r]]
       /\ UNCHANGED mishaps
    \/ /\ \A r \in Rows : ~Blocks(r)
       /\ Mishap
       /\ \E r \in Rows : kindOf[r] = "secretRef" /\ rows' = [rows EXCEPT ![r] = "failed"]
       /\ phase' = "down"

\* cosmonic_workload_apply and cosmonic_workload_start.
Start(tool) ==
    /\ tool \in todo
    /\ \/ phase # "running" /\ Starts
       \/ phase = "running" /\ UNCHANGED <<rows, phase, mishaps>>
    /\ WorkloadReply(tool)
    /\ fresh' = TRUE
    /\ UNCHANGED <<configVars, worth, hosts, verdict>>

\* cosmonic_workload_get.
Get ==
    /\ "workload_get" \in todo
    /\ UNCHANGED <<configVars, hostVars, verdict, fresh, mishaps>>
    /\ WorkloadReply("workload_get")

\* cosmonic_workload_list and cosmonic_logs_query.
Look(tool) ==
    /\ tool \in todo
    /\ todo' = (todo \ {tool}) \cup Table[tool].next
    /\ UNCHANGED <<configVars, hostVars, asked, verdict, fresh, mishaps>>

-----------------------------------------------------------------------------
(* cosmonic_workload_credentials_test: the daemon runs check_auth.         *)

Verdict(v, r) ==
    \/ v = "not_running" /\ phase # "running"
    \/ v = "not_mcp" /\ phase = "running" /\ ~checked
    \/ /\ phase = "running" /\ checked
       /\ \/ v = "unreachable" /\ hosts = "closed"
          \/ /\ hosts = "open"
             /\ \/ v = "missing" /\ kindOf[r] = "secretRef" /\ rows[r] = "missing"
                \/ v = "invalid" /\ rows[r] # "missing" /\ worth[r] = "bad"
                \/ v = "insufficient" /\ rows[r] # "missing" /\ worth[r] = "weak"
                \/ v = "insufficient" /\ kindOf[r] = "connection" /\ rows[r] # "connected"
                \/ v = "ok" /\ \A q \in Rows : rows[q] # "missing" /\ worth[q] = "good"
                                               /\ ~Blocks(q)

\* The rows show what the test found of a secret.
Seen(v, r) ==
    IF v \in {"ok", "invalid", "insufficient"} /\ kindOf[r] = "secretRef"
    THEN [rows EXCEPT ![r] = v] ELSE rows

\* The agent waits for the user and for the start it was told to do first.
Test ==
    /\ "workload_credentials_test" \in todo
    /\ asked = {} /\ "workload_start" \notin todo
    /\ \E r \in Rows, v \in {"ok", "missing", "invalid", "insufficient", "unreachable",
                             "not_running", "not_mcp", "error"} :
        /\ \/ Verdict(v, r) /\ UNCHANGED mishaps
           \/ v = "error" /\ phase = "running" /\ Mishap
        /\ verdict' = v
        /\ asked' = TestAsks(v, r)
        /\ todo' = (todo \ {"workload_credentials_test"}) \cup TestSteps(v)
        /\ rows' = Seen(v, r)
    /\ fresh' = FALSE
    /\ UNCHANGED <<configVars, worth, hosts, phase>>

-----------------------------------------------------------------------------
(* The user in the Desktop, the daemon, and what goes wrong.               *)

\* A value is saved: the right one, or not.
Saves(r) ==
    /\ rows' = [rows EXCEPT ![r] = "registered"]
    /\ \/ worth' = [worth EXCEPT ![r] = "good"] /\ UNCHANGED mishaps
       \/ \E w \in {"weak", "bad"} : worth' = [worth EXCEPT ![r] = w] /\ Mishap

\* A connection is made, or stops half-way.
Connects(r) ==
    /\ \/ rows' = [rows EXCEPT ![r] = "connected"] /\ UNCHANGED mishaps
       \/ /\ \E s \in {"choose", "consent-required", "missing-scope"} :
                rows' = [rows EXCEPT ![r] = s]
          /\ Mishap
    /\ UNCHANGED worth

Allows(r) ==
    /\ \/ /\ rows' = [rows EXCEPT ![r] = IF @ = "consent-required" THEN "connected" ELSE @]
          /\ UNCHANGED mishaps
       \/ rows' = [rows EXCEPT ![r] = "denied"] /\ Mishap
    /\ UNCHANGED worth

Does(ask) ==
    /\ ask \in asked /\ asked' = asked \ {ask} /\ fresh' = TRUE
    /\ \/ /\ ask.act \in {"save", "rotate"} /\ kindOf[ask.row] = "secretRef"
          /\ Saves(ask.row) /\ UNCHANGED hosts
       \/ /\ ask.act \in {"connect", "rotate"} /\ kindOf[ask.row] = "connection"
          /\ Connects(ask.row) /\ UNCHANGED hosts
       \/ ask.act = "allow" /\ Allows(ask.row) /\ UNCHANGED hosts
       \/ /\ ask.act = "relay" /\ rows' = [rows EXCEPT ![ask.row] = "registered"]
          /\ UNCHANGED <<worth, hosts, mishaps>>
       \/ /\ ask.act = "edit hosts" /\ hosts' = "open"
          /\ UNCHANGED <<rows, worth, mishaps>>
    /\ UNCHANGED <<configVars, phase, todo, verdict>>

\* The daemon starts by itself what is no longer blocked, and restarts what crashed.
Wakes ==
    /\ \/ phase = "down"
       \/ phase = "parked" /\ \A r \in Rows : ~Blocks(r)
    /\ Starts
    /\ fresh' = TRUE
    /\ UNCHANGED <<configVars, worth, hosts, agentVars>>

\* A reference is deleted, a connection lost, a value revoked upstream, or the workload crashes.
GoesWrong ==
    /\ Mishap /\ phase # "absent"
    /\ \/ /\ \E r \in Rows : kindOf[r] = "secretRef" /\ rows' = [rows EXCEPT ![r] = "missing"]
          /\ UNCHANGED <<worth, phase>>
       \/ /\ \E r \in Rows, s \in {"needs-reauth", "revoked", "disconnected"} :
                rows[r] = "connected" /\ rows' = [rows EXCEPT ![r] = s]
          /\ UNCHANGED <<worth, phase>>
       \/ /\ \E r \in Rows : kindOf[r] = "secretRef" /\ worth' = [worth EXCEPT ![r] = "bad"]
          /\ UNCHANGED <<rows, phase>>
       \/ phase = "running" /\ phase' = "down" /\ UNCHANGED <<rows, worth>>
    /\ fresh' = TRUE
    /\ UNCHANGED <<configVars, hosts, agentVars>>

Calls(tool) ==
    \/ tool \in {"workload_apply", "workload_start"} /\ Start(tool)
    \/ tool \in {"workload_list", "logs_query"} /\ Look(tool)
    \/ tool = "workload_get" /\ Get
    \/ tool = "workload_credentials_test" /\ Test

Used == {"workload_apply", "workload_start", "workload_list", "logs_query", "workload_get",
          "workload_credentials_test"}

Asks == [row : UNION {DOMAIN k : k \in Specs}, act : Acts]

CredNext ==
    \/ \E tool \in Used : Calls(tool)
    \/ \E ask \in asked : Does(ask)
    \/ Wakes \/ GoesWrong

\* The agent follows every step it was told, the user does everything asked, and the
\* daemon reconciles; nothing makes mishaps happen.
CredFairness ==
    /\ \A tool \in Used : WF_credVars(Calls(tool))
    /\ \A ask \in Asks : WF_credVars(Does(ask))
    /\ WF_credVars(Wakes)

CredSpec == CredInit /\ [][CredNext]_credVars /\ CredFairness

-----------------------------------------------------------------------------
(* Properties.                                                             *)

\* The counts of the workload list account for every row that needs somebody, whatever
\* its kind and state: a blocked workload never looks well.
TroubleShows == Missing \cup Attention = {r \in Rows : rows[r] \notin Green}

\* The agent never tests again with nothing done since the last verdict: each one that
\* asks for another test first has the user or the daemon change something.
NoBlindRetry == [][Test => fresh]_credVars

\* Whoever follows the steps gets there: the test a parked reply promises ends with a
\* verdict that asks for no further one, however often credentials go bad on the way.
EndsInAVerdict ==
    "workload_credentials_test" \in todo ~> verdict \in {"ok", "not_mcp", "insufficient", "error"}
=============================================================================
