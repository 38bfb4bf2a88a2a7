------------------------- MODULE CredentialsProofs --------------------------
(***************************************************************************)
(* For any workloads and any number of mishaps: no test is repeated with   *)
(* nothing changed, and no row that needs somebody is left out of the      *)
(* counts.                                                                 *)
(***************************************************************************)
EXTENDS Credentials, TLAPS

\* What the replies of the tools used here name next, when nothing is parked.
LEMMA NextSteps ==
    /\ Table["workload_list"].next = {"logs_query", "workload_get"}
    /\ Table["logs_query"].next = {"workload_list"}
    /\ Table["workload_get"].next = {"workload_list", "logs_query"}
    /\ Table["workload_apply"].next = {"workload_list", "logs_query"}
    /\ Table["workload_start"].next = {"workload_list", "logs_query"}
BY DEF Table, HostAndProjectReads, WorkloadReads, ImageAndCredentialReads, ProjectWrites,
       WorkloadWrites, SecretSetToRollback, SecretsConfigsRegistries, ProjectDeleteAndImages,
       WorkloadRow, Row, And, Reads, Writes

-----------------------------------------------------------------------------
(* The rows.                                                               *)

\* Each row is in a state of its kind.
RowsTyped ==
    /\ kindOf \in Specs
    /\ DOMAIN rows = Rows
    /\ \A r \in Rows : rows[r] \in StatesOf[kindOf[r]]

\* What is asked fits the row it is about.
AsksTyped ==
    \A a \in asked :
        /\ a.row \in Rows
        /\ a.act = "allow" => kindOf[a.row] = "connection"
        /\ a.act = "relay" => kindOf[a.row] = "configSource"

LEMMA States ==
    /\ DOMAIN StatesOf = {"secretRef", "configSource", "connection"}
    /\ StatesOf["secretRef"] = {"missing", "registered", "resolved", "failed", "ok", "invalid",
                                "insufficient"}
    /\ StatesOf["configSource"] = {"missing", "registered"}
    /\ StatesOf["connection"] = {"missing", "choose", "consent-required", "connected",
                                 "needs-reauth", "revoked", "missing-scope", "disconnected",
                                 "denied"}
BY DEF StatesOf

LEMMA KindOfRow ==
    ASSUME RowsTyped, NEW r \in Rows
    PROVE  kindOf[r] \in {"secretRef", "configSource", "connection"}
BY States, SpecAssumption DEF RowsTyped, Rows

\* A state that only connections have, or only connections among two kinds.
LEMMA ConnectionState ==
    ASSUME RowsTyped, NEW r \in Rows, rows[r] \in {"consent-required", "connected"}
    PROVE  kindOf[r] = "connection"
BY KindOfRow, States DEF RowsTyped

LEMMA SetRow ==
    ASSUME RowsTyped, NEW r \in Rows, NEW s \in StatesOf[kindOf[r]],
           rows' = [rows EXCEPT ![r] = s], kindOf' = kindOf
    PROVE  RowsTyped'
BY DEF RowsTyped, Rows

LEMMA SameRows ==
    ASSUME RowsTyped, UNCHANGED <<rows, kindOf>>
    PROVE  RowsTyped'
BY DEF RowsTyped, Rows

LEMMA StartsRows ==
    ASSUME RowsTyped, Starts, kindOf' = kindOf
    PROVE  RowsTyped'
<1>1. CASE UNCHANGED rows
  BY <1>1, SameRows
<1>2. CASE rows' = [r \in Rows |-> IF rows[r] \in {"registered", "failed"}
                                     /\ kindOf[r] = "secretRef" THEN "resolved" ELSE rows[r]]
  BY <1>2, States DEF RowsTyped, Rows
<1>3. CASE \E r \in Rows : kindOf[r] = "secretRef" /\ rows' = [rows EXCEPT ![r] = "failed"]
  BY <1>3, States, SetRow
<1> QED  BY <1>1, <1>2, <1>3 DEF Starts

\* The counts of the list follow from the states a row can have.
LEMMA CountsComplete == RowsTyped => TroubleShows
<1> SUFFICES ASSUME RowsTyped, NEW r \in Rows
             PROVE  (r \in Missing \/ r \in Attention) <=> rows[r] \notin Green
  BY DEF TroubleShows, Missing, Attention
<1>1. CASE kindOf[r] = "secretRef"
  BY <1>1, States DEF RowsTyped, Missing, Attention, Green
<1>2. CASE kindOf[r] = "configSource"
  BY <1>2, States DEF RowsTyped, Missing, Attention, Green
<1>3. CASE kindOf[r] = "connection"
  BY <1>3, States DEF RowsTyped, Missing, Attention, Green
<1> QED  BY <1>1, <1>2, <1>3, KindOfRow

-----------------------------------------------------------------------------
(* The invariant.                                                          *)

\* A test that is still to come after a verdict waits for the user or for a start; and
\* a workload found parked by the last test is one the agent was told to start.
Waits ==
    /\ fresh \in BOOLEAN
    /\ ~fresh /\ "workload_credentials_test" \in todo => asked # {} \/ "workload_start" \in todo
    /\ ~fresh /\ phase = "parked" => "workload_start" \in todo

CredInv == RowsTyped /\ AsksTyped /\ Waits

LEMMA InitCred == CredInit => CredInv
<1> SUFFICES ASSUME CredInit PROVE CredInv
  OBVIOUS
<1>1. RowsTyped
  BY DEF CredInit, RowsTyped, Rows
<1>2. AsksTyped /\ Waits
  BY DEF CredInit, AsksTyped, Waits
<1> QED  BY <1>1, <1>2 DEF CredInv

LEMMA ReplyAsks ==
    ASSUME RowsTyped, AsksTyped, NEW tool, WorkloadReply(tool), kindOf' = kindOf
    PROVE  AsksTyped'
<1> SUFFICES ASSUME NEW a \in asked'
             PROVE  /\ a.row \in Rows
                    /\ a.act = "allow" => kindOf[a.row] = "connection"
                    /\ a.act = "relay" => kindOf[a.row] = "configSource"
  BY DEF AsksTyped, Rows
<1>1. CASE a \in asked
  BY <1>1 DEF AsksTyped
<1>2. CASE a \notin asked
  <2>0. PICK r \in Rows : a \in {Ask(r, b) : b \in RowAsks(r)}
    BY <1>2 DEF WorkloadReply
  <2>1. PICK b \in RowAsks(r) : a = Ask(r, b)
    BY <2>0
  <2>2. a.row = r /\ a.act = b
    BY <2>1 DEF Ask
  <2>3. /\ b = "allow" => rows[r] = "consent-required"
        /\ b = "relay" => kindOf[r] = "configSource"
    BY <2>1 DEF RowAsks
  <2> QED  BY <2>1, <2>2, <2>3, ConnectionState
<1> QED  BY <1>1, <1>2

\* Asks about the same rows stay typed.
LEMMA FewerAsks ==
    ASSUME AsksTyped, asked' \subseteq asked, kindOf' = kindOf
    PROVE  AsksTyped'
BY DEF AsksTyped, Rows

LEMMA StepStart ==
    ASSUME CredInv, NEW tool, Start(tool)
    PROVE  CredInv'
<1>1. kindOf' = kindOf /\ fresh' = TRUE /\ WorkloadReply(tool)
  BY DEF Start, configVars
<1>2. RowsTyped'
  BY <1>1, StartsRows, SameRows DEF CredInv, Start
<1>3. AsksTyped'
  BY <1>1, ReplyAsks DEF CredInv
<1> QED  BY <1>1, <1>2, <1>3 DEF CredInv, Waits

LEMMA StepGet ==
    ASSUME CredInv, Get
    PROVE  CredInv'
<1>1. /\ UNCHANGED <<kindOf, rows, phase, fresh>>
      /\ WorkloadReply("workload_get")
  BY DEF Get, configVars, hostVars
<1>2. RowsTyped'
  BY <1>1, SameRows DEF CredInv
<1>3. AsksTyped'
  BY <1>1, ReplyAsks DEF CredInv
<1>4. CASE phase = "parked"
  <2>1. ~fresh => "workload_start" \in todo'
    BY <1>1, <1>4 DEF CredInv, Waits, WorkloadReply
  <2> QED  BY <1>1, <1>2, <1>3, <2>1 DEF CredInv, Waits
<1>5. CASE phase # "parked"
  <2>1. /\ todo' = (todo \ {"workload_get"}) \cup {"workload_list", "logs_query"}
        /\ asked' = asked
    BY <1>1, <1>5, NextSteps DEF WorkloadReply
  <2> QED  BY <1>1, <1>2, <1>3, <1>5, <2>1 DEF CredInv, Waits
<1> QED  BY <1>4, <1>5

LEMMA StepLook ==
    ASSUME CredInv, NEW tool \in {"workload_list", "logs_query"}, Look(tool)
    PROVE  CredInv'
<1>1. /\ UNCHANGED <<kindOf, rows, phase, fresh, asked>>
      /\ todo' = (todo \ {tool}) \cup Table[tool].next
  BY DEF Look, configVars, hostVars
<1>2. Table[tool].next \subseteq {"workload_list", "logs_query", "workload_get"}
  BY NextSteps
<1>3. RowsTyped' /\ AsksTyped'
  BY <1>1, SameRows, FewerAsks DEF CredInv
<1>4. Waits'
  BY <1>1, <1>2 DEF CredInv, Waits
<1> QED  BY <1>3, <1>4 DEF CredInv

LEMMA StepTest ==
    ASSUME CredInv, Test
    PROVE  CredInv'
<1>1. PICK r \in Rows, v \in {"ok", "missing", "invalid", "insufficient", "unreachable",
                              "not_running", "not_mcp", "error"} :
        /\ Verdict(v, r) \/ (v = "error" /\ phase = "running")
        /\ asked' = TestAsks(v, r)
        /\ todo' = (todo \ {"workload_credentials_test"}) \cup TestSteps(v)
        /\ rows' = Seen(v, r)
  BY DEF Test
<1>2. UNCHANGED <<kindOf, phase>> /\ fresh' = FALSE
  BY DEF Test, configVars
<1>3. RowsTyped'
  <2>1. CASE v \in {"ok", "invalid", "insufficient"} /\ kindOf[r] = "secretRef"
    <3>1. rows' = [rows EXCEPT ![r] = v] /\ v \in StatesOf[kindOf[r]]
      BY <1>1, <2>1, States DEF Seen
    <3> QED  BY <1>2, <3>1, SetRow DEF CredInv
  <2>2. CASE ~(v \in {"ok", "invalid", "insufficient"} /\ kindOf[r] = "secretRef")
    BY <1>1, <1>2, <2>2, SameRows DEF CredInv, Seen
  <2> QED  BY <2>1, <2>2
<1>4. AsksTyped'
  <2> SUFFICES ASSUME NEW a \in asked'
               PROVE  a.row \in Rows /\ a.act # "allow" /\ a.act # "relay"
    BY <1>2 DEF AsksTyped, Rows
  <2>1. PICK b \in {"save", "rotate", "edit hosts"} : a = Ask(r, b)
    BY <1>1 DEF TestAsks
  <2> QED  BY <2>1 DEF Ask
<1>5. Waits'
  <2>1. CASE v \in {"missing", "invalid", "unreachable"}
    <3>1. PICK b \in Acts : Ask(r, b) \in TestAsks(v, r)
      BY <2>1 DEF TestAsks, Acts
    <3>2. asked' # {}
      BY <1>1, <3>1
    <3>3. phase = "running"
      BY <1>1, <2>1 DEF Verdict
    <3> QED  BY <1>2, <3>2, <3>3 DEF Waits
  <2>2. CASE v = "not_running"
    <3>1. "workload_start" \in todo'
      BY <1>1, <2>2 DEF TestSteps
    <3> QED  BY <1>2, <3>1 DEF Waits
  <2>3. CASE v \in {"ok", "insufficient", "not_mcp", "error"}
    <3>1. "workload_credentials_test" \notin todo'
      BY <1>1, <2>3 DEF TestSteps
    <3>2. phase = "running"
      BY <1>1, <2>3 DEF Verdict
    <3> QED  BY <1>2, <3>1, <3>2 DEF Waits
  <2> QED  BY <2>1, <2>2, <2>3
<1> QED  BY <1>3, <1>4, <1>5 DEF CredInv

LEMMA StepDoes ==
    ASSUME CredInv, NEW ask \in asked, Does(ask)
    PROVE  CredInv'
<1>1. /\ UNCHANGED <<kindOf, phase, todo>> /\ fresh' = TRUE
      /\ asked' \subseteq asked
  BY DEF Does, configVars
<1>2. ask.row \in Rows
  BY DEF CredInv, AsksTyped
<1>3. RowsTyped'
  <2>1. CASE UNCHANGED rows
    BY <1>1, <2>1, SameRows DEF CredInv
  <2>2. CASE kindOf[ask.row] = "secretRef" /\ Saves(ask.row)
    <3>1. /\ rows' = [rows EXCEPT ![ask.row] = "registered"]
          /\ "registered" \in StatesOf[kindOf[ask.row]]
      BY <2>2, States DEF Saves
    <3> QED  BY <1>1, <1>2, <3>1, SetRow DEF CredInv
  <2>3. CASE kindOf[ask.row] = "connection" /\ Connects(ask.row)
    <3>1. PICK s \in {"connected", "choose", "consent-required", "missing-scope"} :
             rows' = [rows EXCEPT ![ask.row] = s]
      BY <2>3 DEF Connects
    <3>2. s \in StatesOf[kindOf[ask.row]]
      BY <2>3, States
    <3> QED  BY <1>1, <1>2, <3>1, <3>2, SetRow DEF CredInv
  <2>4. CASE ask.act = "allow" /\ Allows(ask.row)
    <3>1. PICK s \in {"connected", "denied", rows[ask.row]} :
             rows' = [rows EXCEPT ![ask.row] = s]
      BY <2>4 DEF Allows
    <3>2. s \in StatesOf[kindOf[ask.row]]
      BY <1>2, <2>4, States DEF CredInv, AsksTyped, RowsTyped
    <3> QED  BY <1>1, <1>2, <3>1, <3>2, SetRow DEF CredInv
  <2>5. CASE ask.act = "relay" /\ rows' = [rows EXCEPT ![ask.row] = "registered"]
    <3>1. "registered" \in StatesOf[kindOf[ask.row]]
      BY <1>2, <2>5, States DEF CredInv, AsksTyped
    <3> QED  BY <1>1, <1>2, <2>5, <3>1, SetRow DEF CredInv
  <2> QED  BY <2>1, <2>2, <2>3, <2>4, <2>5 DEF Does
<1> QED  BY <1>1, <1>3, FewerAsks DEF CredInv, Waits

LEMMA StepWakes ==
    ASSUME CredInv, Wakes
    PROVE  CredInv'
<1>1. /\ UNCHANGED <<kindOf, asked, todo>> /\ fresh' = TRUE /\ Starts
  BY DEF Wakes, configVars, agentVars
<1> QED  BY <1>1, StartsRows, FewerAsks DEF CredInv, Waits

LEMMA StepGoesWrong ==
    ASSUME CredInv, GoesWrong
    PROVE  CredInv'
<1>1. /\ UNCHANGED <<kindOf, asked, todo>> /\ fresh' = TRUE
  BY DEF GoesWrong, configVars, agentVars
<1>2. RowsTyped'
  <2>1. CASE UNCHANGED rows
    BY <1>1, <2>1, SameRows DEF CredInv
  <2>2. CASE \E r \in Rows : kindOf[r] = "secretRef" /\ rows' = [rows EXCEPT ![r] = "missing"]
    BY <1>1, <2>2, States, SetRow DEF CredInv
  <2>3. CASE \E r \in Rows, s \in {"needs-reauth", "revoked", "disconnected"} :
                rows[r] = "connected" /\ rows' = [rows EXCEPT ![r] = s]
    BY <1>1, <2>3, States, ConnectionState, SetRow DEF CredInv
  <2> QED  BY <2>1, <2>2, <2>3 DEF GoesWrong
<1> QED  BY <1>1, <1>2, FewerAsks DEF CredInv, Waits

LEMMA StepStutters ==
    ASSUME CredInv, UNCHANGED credVars
    PROVE  CredInv'
BY SameRows, FewerAsks DEF CredInv, Waits, credVars, configVars, hostVars, agentVars

LEMMA StepCred == CredInv /\ [CredNext]_credVars => CredInv'
<1> SUFFICES ASSUME CredInv, [CredNext]_credVars PROVE CredInv'
  OBVIOUS
<1>1. ASSUME NEW tool \in Used, Calls(tool) PROVE CredInv'
  BY <1>1, StepStart, StepLook, StepGet, StepTest DEF Calls
<1>2. ASSUME NEW ask \in asked, Does(ask) PROVE CredInv'
  BY <1>2, StepDoes
<1>3. CASE Wakes \/ GoesWrong
  BY <1>3, StepWakes, StepGoesWrong
<1> QED  BY <1>1, <1>2, <1>3, StepStutters DEF CredNext

\* Rows and asks keep to their kinds, and a test still to come after a verdict waits:
\* for the user, or for a start.
THEOREM CredInvariant == CredSpec => []CredInv
BY InitCred, StepCred, PTL DEF CredSpec

-----------------------------------------------------------------------------
(* What the reader should know.                                            *)

\* TroubleShows: the missing and needs-attention counts of the workload list
\* (summarize_workloads) account for every row that is not green, for any workload.
THEOREM CountsAreComplete == CredSpec => []TroubleShows
BY CredInvariant, CountsComplete, PTL DEF CredInv

\* NoBlindRetry: the steps of test_next_steps never lead to a second
\* cosmonic_workload_credentials_test with nothing done since the verdict.
THEOREM NoTestIsBlind == CredSpec => NoBlindRetry
<1>1. CredInv /\ [CredNext]_credVars => [Test => fresh]_credVars
  BY DEF CredInv, Waits, Test
<1> QED  BY <1>1, CredInvariant, PTL DEF CredSpec, NoBlindRetry
=============================================================================
