------------------------------ MODULE Guidance ------------------------------
(***************************************************************************)
(* What a reply tells the agent to do next.  An agent wants one tool call  *)
(* to succeed; something may stand in its way; each refusal it gets names  *)
(* a remedy (errors[].recovery), which it applies before it calls again.   *)
(* A success names the tools to go on with (next_steps).                   *)
(*                                                                         *)
(* The replies are translated from src/server.rs (reply, refine,           *)
(* subject_of, recovery_for_tool), src/client.rs (the error body and       *)
(* route_error) and src/tools.rs (the checks, the parked-workload and the  *)
(* credential-test next steps).  What stands in the way is the daemon's    *)
(* and the world's: an assumption, named Faces below.                      *)
(***************************************************************************)
EXTENDS ToolTable, Naturals, FiniteSets

CONSTANTS
    IdTools,      \* tools that can name something the daemon does not have
    MaxObstacles  \* bound on what stands in the way of one call

ASSUME IdAssumption       == IdTools \subseteq Tools
ASSUME ObstacleAssumption == MaxObstacles \in Nat

VARIABLES
    goal,         \* the tool the agent wants to succeed
    obstacles,    \* what stands in the way of it
    phase,        \* "calling", "told" (holds a recovery), "done"
    code,         \* errors[0].code of the last reply
    recovery,     \* the remedies its recovery hint names
    suggestions   \* the tools its next_steps name

vars == <<goal, obstacles, phase, code, recovery, suggestions>>

-----------------------------------------------------------------------------
(* server.rs: the subject of a tool.                                       *)

Subjects == {"Workload", "Project", "Image", "Template", "Secret", "Other"}

\* Mutant: the tools added later not classified (the state before #503).
SubjectOf_Older(tool) ==
    CASE tool \in {"workload_get", "workload_start", "workload_stop", "workload_restart",
                   "workload_delete", "workload_apply", "workload_list"} -> "Workload"
      [] tool \in {"dev_start", "dev_stop", "dev_status", "dev_logs", "project_publish",
                   "project_list"} -> "Project"
      [] tool \in {"image_inspect", "workload_draft"} -> "Image"
      [] tool = "project_create" -> "Template"
      [] tool = "secret_set" -> "Secret"
      [] OTHER -> "Other"

SubjectOf(tool) ==
    CASE tool \in {"workload_get", "workload_start", "workload_stop", "workload_restart",
                   "workload_delete", "workload_apply", "workload_list",
                   "workload_validate", "workload_revision_list", "workload_rollback",
                   "workload_credentials_test"} -> "Workload"
      [] tool \in {"dev_start", "dev_stop", "dev_status", "dev_logs", "project_publish",
                   "project_delete", "project_list"} -> "Project"
      [] tool \in {"image_inspect", "workload_draft"} -> "Image"
      [] tool = "project_create" -> "Template"
      [] tool = "secret_set" -> "Secret"
      [] OTHER -> "Other"

(* recovery_for_tool: the arms in the code's order, as the remedies named.  *)

\* Mutant: an arm only for the subjects added last, none for the rest.
NotFoundRecovery_NoDefault(tool) ==
    CASE SubjectOf(tool) = "Project" -> {"list_projects"}
      [] SubjectOf(tool) = "Image"   -> {"fix_reference"}
      [] OTHER                       -> {}

NotFoundRecovery(tool) ==
    CASE SubjectOf(tool) = "Project" -> {"list_projects"}
      [] SubjectOf(tool) = "Image"   -> {"fix_reference"}
      [] SubjectOf(tool) = "Secret"  -> {"register_secret"}
      [] OTHER                       -> {"list_workloads"}

BadRequestRecovery(tool) ==
    CASE SubjectOf(tool) = "Workload" -> {"read_schema"}
      [] SubjectOf(tool) = "Project"  -> {"fix_argument", "list_projects"}
      [] SubjectOf(tool) = "Image"    -> {"fix_reference"}
      [] SubjectOf(tool) = "Template" -> {"list_templates", "fix_argument"}
      [] OTHER                        -> {"fix_argument"}

RecoveryForTool(c, status, tool) ==
    CASE c = "invalid_path"       -> {"fix_path"}
      [] c = "path_mismatch"      -> {"match_metadata"}
      [] c = "route_not_found"    -> {"update_desktop"}
      [] c = "not_found"          -> NotFoundRecovery(tool)
      [] c = "method_not_allowed" -> {"update_desktop"}
      [] c \in {"workload_not_running", "workload_disabled"} -> {"start_workload"}
      [] c = "not_mcp"            -> {"stop"}
      [] c = "consent_required"   -> {"ask_user"}
      [] c = "test_in_progress"   -> {"wait"}
      [] c = "invalid_secret_ref" -> {"fix_reference"}
      [] OTHER -> CASE status = 400 -> BadRequestRecovery(tool)
                    [] status = 409 -> {"recheck"}
                    [] OTHER        -> {"read_logs"}

\* Mutant: every body that does not deserialize is sent to the schema.
Refine_SchemaOnly(c, status, nested, tool) ==
    IF status = 422 /\ SubjectOf(tool) = "Workload"
    THEN [code |-> "invalid_workload",
          recovery |-> RecoveryForTool("invalid_workload", 400, tool)]
    ELSE [code |-> c, recovery |-> RecoveryForTool(c, status, tool)]

\* refine_for_tool: a Workload body that does not deserialize is a bare 422.
Refine(c, status, nested, tool) ==
    IF status = 422 /\ SubjectOf(tool) = "Workload"
    THEN [code |-> "invalid_workload",
          recovery |-> IF nested THEN {"flatten"}
                       ELSE RecoveryForTool("invalid_workload", 400, tool)]
    ELSE [code |-> c, recovery |-> RecoveryForTool(c, status, tool)]

(* client.rs: a non-2xx response.  An absent code and message is the bare  *)
(* answer of a route the running daemon does not have.                     *)

RouteError(status) ==
    CASE status = 404 -> "route_not_found"
      [] status = 405 -> "method_not_allowed"
      [] OTHER        -> "error"

\* Mutant: the body taken for an error description even when it is empty.
CodeOfBody_Blank(body, status) == IF body = "" THEN "error" ELSE body

CodeOfBody(body, status) == IF body = "" THEN RouteError(status) ELSE body

-----------------------------------------------------------------------------
(* What can stand in the way, and the daemon's response to it.             *)

Response(status, body) == [status |-> status, body |-> body, nested |-> FALSE]

ResponseTo(o, tool) ==
    CASE o = "no_route"     -> Response(404, "")
      [] o = "no_method"    -> Response(405, "")
      [] o = "unknown_id"   -> Response(404, "not_found")
      [] o = "bad_path"     -> Response(400, "invalid_path")
      [] o = "mismatch"     -> Response(400, "path_mismatch")
      [] o = "bad_argument" -> Response(400, "bad_request")
      [] o = "bad_body"     -> Response(422, "error")
      [] o = "nested_body"  -> [Response(422, "error") EXCEPT !.nested = TRUE]
      [] o = "not_running"  -> Response(409, "workload_not_running")
      [] o = "no_check"     -> Response(409, "not_mcp")
      [] o = "no_consent"   -> Response(409, "consent_required")
      [] o = "testing"      -> Response(409, "test_in_progress")
      [] o = "bad_ref"      -> Response(400, "invalid_secret_ref")
      [] o = "conflict"     -> Response(409, "conflict")
      [] o = "fault"        -> Response(500, "internal")

Local(tool) ==
    CASE Table[tool].gate = "confirm" -> {"unconfirmed"}
      [] Table[tool].gate = "limit"   -> {"limit_out_of_range"}
      [] Table[tool].gate = "parse"   -> {"unparsable"}
      [] OTHER                        -> {}

\* Bodies are Workloads for two tools; other bodies are built by the server.
Faces(tool) ==
    Local(tool)
    \cup {"down", "broken", "no_route", "no_method", "conflict", "fault"}
    \cup (IF tool \in IdTools THEN {"unknown_id"} ELSE {})
    \cup (IF tool \in WorkloadReplies \ {"workload_apply"} THEN {"bad_path", "no_consent"} ELSE {})
    \cup (IF tool \in {"workload_apply", "workload_validate"}
          THEN {"bad_body", "nested_body", "bad_argument", "mismatch"} ELSE {})
    \cup (IF SubjectOf(tool) \notin {"Workload"} THEN {"bad_argument"} ELSE {})
    \cup (IF tool = "workload_credentials_test"
          THEN {"not_running", "no_check", "no_consent", "testing", "bad_path"} ELSE {})
    \cup (IF tool = "secret_set" THEN {"bad_ref"} ELSE {})

\* The remedies that remove an obstacle; an unknown id is cured by listing
\* what the tool's own route addresses.
OwnList(tool) ==
    CASE Table[tool].family = "workload" -> {"list_workloads"}
      [] Table[tool].family = "project"  -> {"list_projects"}
      [] Table[tool].family = "template" -> {"list_templates"}
      [] Table[tool].family = "image"    -> {"fix_reference"}
      [] OTHER                           -> {"list_own"}

CuredBy(o, tool) ==
    CASE o = "unconfirmed"        -> {"confirm"}
      [] o = "limit_out_of_range" -> {"fix_limit"}
      [] o = "unparsable"         -> {"reshape"}
      [] o = "down"               -> {"start_daemon"}
      [] o = "broken"             -> {"retry"}
      [] o \in {"no_route", "no_method"} -> {"update_desktop"}
      [] o = "unknown_id"   -> OwnList(tool)
      [] o = "bad_path"     -> {"fix_path"}
      [] o = "mismatch"     -> {"match_metadata"}
      [] o = "bad_argument" -> {"fix_argument", "fix_reference", "read_schema"}
      [] o = "bad_body"     -> {"read_schema"}
      [] o = "nested_body"  -> {"flatten"}
      [] o = "not_running"  -> {"start_workload"}
      [] o = "no_check"     -> {}
      [] o = "no_consent"   -> {"ask_user"}
      [] o = "testing"      -> {"wait"}
      [] o = "bad_ref"      -> {"fix_reference"}
      [] o = "conflict"     -> {"recheck"}
      [] o = "fault"        -> {"read_logs"}

-----------------------------------------------------------------------------
(* One call.                                                               *)

Fail(c, remedies) ==
    /\ phase' = "told" /\ code' = c /\ recovery' = remedies /\ suggestions' = {}
    /\ UNCHANGED <<goal, obstacles>>

\* limit_out_of_range, the confirm gates and normalize_workload come first.
RefusedLocally ==
    /\ phase = "calling" /\ obstacles \cap Local(goal) # {}
    /\ CASE Table[goal].gate = "confirm" -> Fail("confirmation_required", {"confirm"})
         [] Table[goal].gate = "limit"   -> Fail("invalid_limit", {"fix_limit"})
         [] Table[goal].gate = "parse"   -> Fail("invalid_workload", {"reshape"})

Asks == phase = "calling" /\ obstacles \cap Local(goal) = {}

Unreachable ==
    /\ Asks /\ "down" \in obstacles
    /\ Fail("daemon_unreachable", {"start_daemon"})

Transport ==
    /\ Asks /\ "down" \notin obstacles /\ "broken" \in obstacles
    /\ Fail("transport_error", {"retry", "read_logs"})

\* The daemon reports whichever of the remaining obstacles it meets.
ApiError ==
    /\ Asks /\ obstacles \cap {"down", "broken"} = {}
    /\ \E o \in obstacles \ Local(goal) :
         LET r == ResponseTo(o, goal)
             e == Refine(CodeOfBody(r.body, r.status), r.status, r.nested, goal)
         IN  Fail(e.code, e.recovery)

Succeeds(named) ==
    /\ Asks /\ obstacles = {}
    /\ phase' = "done" /\ code' = "none" /\ recovery' = {} /\ suggestions' = named
    /\ UNCHANGED <<goal, obstacles>>

Ordinary ==
    /\ goal # "workload_credentials_test"
    /\ Succeeds(Table[goal].next)

\* credentials_apply_notes: the tools named for a parked row.
ParkedRows ==
    {"secret_missing", "config_missing", "consent_required", "connect_provider", "connect_other"}

Parked ==
    /\ goal \in WorkloadReplies
    /\ \E row \in ParkedRows :
         Succeeds({"workload_credentials_test", "workload_list"}
                  \cup (IF row = "connect_provider" THEN {"connect"} ELSE {}))

\* test_next_steps: the tools named for a verdict of check_auth.  A secret can be
\* insufficient as well as a connection, and both are told of cosmonic_connect.
Verdicts ==
    {"ok", "missing", "invalid", "insufficient", "unreachable", "not_running", "not_mcp", "error"}

Tested ==
    /\ goal = "workload_credentials_test"
    /\ \E v \in Verdicts :
         Succeeds(CASE v = "not_running"  -> {"workload_start"}
                    [] v = "insufficient" -> {"connect"}
                    [] v = "error"        -> {"logs_query"}
                    [] OTHER              -> {})

Call == RefusedLocally \/ Unreachable \/ Transport \/ ApiError \/ Ordinary \/ Parked \/ Tested

\* The agent does what the recovery says and calls again; told to stop, it does.
Follow ==
    /\ phase = "told"
    /\ obstacles' = {o \in obstacles : CuredBy(o, goal) \cap recovery = {}}
    /\ phase' = IF "stop" \in recovery THEN "done" ELSE "calling"
    /\ UNCHANGED <<goal, code, recovery, suggestions>>

\* The agent goes on to a suggested tool, or the user asks for another.
Want(tool) ==
    /\ goal' = tool
    /\ obstacles' \in {os \in SUBSET Faces(tool) : Cardinality(os) <= MaxObstacles}

Continue ==
    /\ phase = "done"
    /\ \E tool \in (suggestions \cap Tools) \cup {"host_status"} : Want(tool)
    /\ phase' = "calling"
    /\ UNCHANGED <<code, recovery, suggestions>>

Init ==
    /\ goal \in Tools
    /\ obstacles \in {os \in SUBSET Faces(goal) : Cardinality(os) <= MaxObstacles}
    /\ phase = "calling" /\ code = "none" /\ recovery = {} /\ suggestions = {}

Next == Call \/ Follow \/ Continue

Spec     == Init /\ [][Next]_vars
FairSpec == Spec /\ WF_vars(Call) /\ WF_vars(Follow)

-----------------------------------------------------------------------------
(* Properties.                                                             *)

TypeOK ==
    /\ goal \in Tools /\ obstacles \subseteq Faces(goal)
    /\ phase \in {"calling", "told", "done"}
    /\ phase = "told" => recovery # {} /\ code # "none"

\* Version skew is called by its name: the daemon's bare 404 and 405 tell the
\* agent to update Desktop, and its described not_found never does.
SkewIsNamed ==
    phase = "told" =>
        /\ obstacles = {"no_route"} \/ obstacles = {"no_method"} => recovery = {"update_desktop"}
        /\ "update_desktop" \in recovery => obstacles \cap {"no_route", "no_method"} # {}

\* README: an agent always knows what to do next, so next_steps name only tools.
SuggestionsExist == suggestions \subseteq Tools

\* The next steps of every success name tools of this server; the one other name among
\* them is cosmonic_connect, and only a workload's credentials bring it up.
OnlyConnectIsNoTool ==
    /\ suggestions \subseteq Tools \cup {"connect"}
    /\ phase = "done" /\ "connect" \in suggestions =>
           goal \in WorkloadReplies \cup {"workload_credentials_test"}

\* The doc of Subject: a hint names no list tool of a subject not the tool's own.
NoWrongList ==
    phase = "told" =>
        \A l \in {"list_workloads", "list_projects", "list_templates"} :
            l \in recovery => l \in OwnList(goal)

\* Each recovery that is followed ends the matter or removes something of what stood in
\* the way, so that no agent is sent round in a circle by the same refusal.
LessInTheWay == obstacles' \subseteq obstacles /\ obstacles' # obstacles
EachHintHelps == [][Follow => phase' = "done" \/ LessInTheWay]_vars

\* An agent that does what each recovery says gets its call through.
HintsSuffice == phase = "calling" ~> phase = "done"
=============================================================================
