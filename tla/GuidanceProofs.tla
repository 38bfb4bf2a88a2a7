--------------------------- MODULE GuidanceProofs ----------------------------
(***************************************************************************)
(* For any number of obstacles to a call: what a refusal's recovery may    *)
(* name, what a success's next steps may, and that what a recovery names   *)
(* always removes something, which is why an agent that follows it gets    *)
(* through.                                                                *)
(***************************************************************************)
EXTENDS Guidance, TLAPS

-----------------------------------------------------------------------------
(* The tools.                                                              *)

LEMMA TableDomain ==
    /\ DOMAIN Reads = DOMAIN HostAndProjectReads \cup DOMAIN WorkloadReads
                      \cup DOMAIN ImageAndCredentialReads
    /\ DOMAIN Writes = DOMAIN ProjectWrites \cup DOMAIN WorkloadWrites
                       \cup DOMAIN SecretSetToRollback \cup DOMAIN SecretsConfigsRegistries
                       \cup DOMAIN ProjectDeleteAndImages
    /\ Tools = DOMAIN Reads \cup DOMAIN Writes
BY DEF Reads, Writes, Table, Tools, And

LEMMA NamedTools ==
    {"host_status", "template_list", "project_list", "dev_status", "dev_logs", "workload_list",
     "workload_get", "logs_query", "image_inspect", "workload_draft",
     "workload_credentials_test", "project_create", "dev_start", "dev_stop", "project_publish",
     "workload_apply", "workload_start", "secret_set", "workload_rollback", "secret_list",
     "config_list", "config_set", "registry_list", "registry_test", "project_list",
     "image_list", "image_prune"} \subseteq Tools
BY TableDomain DEF HostAndProjectReads, WorkloadReads, ImageAndCredentialReads, ProjectWrites,
       WorkloadWrites, SecretSetToRollback, SecretsConfigsRegistries, ProjectDeleteAndImages

\* A row of the table: next steps that are tools, and a family that fits the subject.
RowOK(tool, row) ==
    /\ row.next \subseteq Tools
    /\ row.gate \in {"none", "confirm", "limit", "parse"}
    /\ SubjectOf(tool) = "Workload" => row.family = "workload"
    /\ SubjectOf(tool) = "Project"  => row.family = "project"
    /\ SubjectOf(tool) = "Image"    => row.family = "image"
    /\ SubjectOf(tool) = "Template" => row.family = "template"

GroupOK(g) == \A tool \in DOMAIN g : RowOK(tool, g[tool])

LEMMA AndOK ==
    ASSUME NEW f, NEW g, GroupOK(f), GroupOK(g)
    PROVE  GroupOK(And(f, g))
BY DEF GroupOK, And

LEMMA HostAndProjectReadsOK == GroupOK(HostAndProjectReads)
BY NamedTools DEF GroupOK, RowOK, HostAndProjectReads, Row, SubjectOf

LEMMA WorkloadReadsOK == GroupOK(WorkloadReads)
BY NamedTools DEF GroupOK, RowOK, WorkloadReads, WorkloadRow, Row, SubjectOf

LEMMA ImageAndCredentialReadsOK == GroupOK(ImageAndCredentialReads)
BY NamedTools DEF GroupOK, RowOK, ImageAndCredentialReads, Row, SubjectOf

LEMMA ProjectWritesOK == GroupOK(ProjectWrites)
BY NamedTools DEF GroupOK, RowOK, ProjectWrites, Row, SubjectOf

LEMMA WorkloadWritesOK == GroupOK(WorkloadWrites)
BY NamedTools DEF GroupOK, RowOK, WorkloadWrites, WorkloadRow, Row, SubjectOf

LEMMA SecretSetToRollbackOK == GroupOK(SecretSetToRollback)
BY NamedTools DEF GroupOK, RowOK, SecretSetToRollback, WorkloadRow, Row, SubjectOf

LEMMA SecretsConfigsRegistriesOK == GroupOK(SecretsConfigsRegistries)
BY NamedTools DEF GroupOK, RowOK, SecretsConfigsRegistries, Row, SubjectOf

LEMMA ProjectDeleteAndImagesOK == GroupOK(ProjectDeleteAndImages)
BY NamedTools DEF GroupOK, RowOK, ProjectDeleteAndImages, Row, SubjectOf

\* Every row of the table is in order.
LEMMA TableOK == \A tool \in Tools : RowOK(tool, Table[tool])
<1>1. GroupOK(Reads)
  BY AndOK, HostAndProjectReadsOK, WorkloadReadsOK, ImageAndCredentialReadsOK DEF Reads
<1>2. GroupOK(Writes)
  BY AndOK, ProjectWritesOK, WorkloadWritesOK, SecretSetToRollbackOK,
     SecretsConfigsRegistriesOK, ProjectDeleteAndImagesOK DEF Writes
<1>3. GroupOK(Table)  BY <1>1, <1>2, AndOK DEF Table
<1> QED  BY <1>3 DEF GroupOK, Tools

-----------------------------------------------------------------------------
(* The daemon's refusals.                                                  *)

Remote == {"no_route", "no_method", "unknown_id", "bad_path", "mismatch", "bad_argument",
           "bad_body", "nested_body", "not_running", "no_check", "no_consent", "testing",
           "bad_ref", "conflict", "fault"}

\* What the agent is told of one obstacle the daemon reports.
Answer(o, tool) ==
    LET r == ResponseTo(o, tool)
    IN  Refine(CodeOfBody(r.body, r.status), r.status, r.nested, tool)

Says(o, tool, status, body, nested) ==
    /\ ResponseTo(o, tool).status = status
    /\ ResponseTo(o, tool).body = body
    /\ ResponseTo(o, tool).nested = nested

\* Version skew: a bare answer is taken for a route the daemon does not have.
LEMMA SkewAnswers ==
    ASSUME NEW tool
    PROVE  /\ Answer("no_route", tool).recovery = {"update_desktop"}
           /\ Answer("no_method", tool).recovery = {"update_desktop"}
<1>1. /\ Says("no_route", tool, 404, "", FALSE)
      /\ Says("no_method", tool, 405, "", FALSE)
  BY DEF Says, ResponseTo, Response
<1>2. CodeOfBody("", 404) = "route_not_found"
  BY DEF CodeOfBody, RouteError
<1>3. CodeOfBody("", 405) = "method_not_allowed"
  BY DEF CodeOfBody, RouteError
<1>4. Answer("no_route", tool) = Refine("route_not_found", 404, FALSE, tool)
  BY <1>1, <1>2 DEF Answer, Says
<1>5. Answer("no_method", tool) = Refine("method_not_allowed", 405, FALSE, tool)
  BY <1>1, <1>3 DEF Answer, Says
<1> QED  BY <1>4, <1>5 DEF Refine, RecoveryForTool

\* What the daemon knows a code for.
LEMMA CodedAnswers ==
    ASSUME NEW tool
    PROVE  /\ Answer("unknown_id", tool).recovery = NotFoundRecovery(tool)
           /\ Answer("bad_path", tool).recovery = {"fix_path"}
           /\ Answer("mismatch", tool).recovery = {"match_metadata"}
           /\ Answer("not_running", tool).recovery = {"start_workload"}
           /\ Answer("no_check", tool).recovery = {"stop"}
           /\ Answer("no_consent", tool).recovery = {"ask_user"}
           /\ Answer("testing", tool).recovery = {"wait"}
           /\ Answer("bad_ref", tool).recovery = {"fix_reference"}
<1>1. /\ Says("unknown_id", tool, 404, "not_found", FALSE)
      /\ Says("bad_path", tool, 400, "invalid_path", FALSE)
      /\ Says("mismatch", tool, 400, "path_mismatch", FALSE)
      /\ Says("not_running", tool, 409, "workload_not_running", FALSE)
      /\ Says("no_check", tool, 409, "not_mcp", FALSE)
      /\ Says("no_consent", tool, 409, "consent_required", FALSE)
      /\ Says("testing", tool, 409, "test_in_progress", FALSE)
      /\ Says("bad_ref", tool, 400, "invalid_secret_ref", FALSE)
  BY DEF Says, ResponseTo, Response
<1>2. /\ Answer("unknown_id", tool) = Refine("not_found", 404, FALSE, tool)
      /\ Answer("bad_path", tool) = Refine("invalid_path", 400, FALSE, tool)
      /\ Answer("mismatch", tool) = Refine("path_mismatch", 400, FALSE, tool)
      /\ Answer("not_running", tool) = Refine("workload_not_running", 409, FALSE, tool)
      /\ Answer("no_check", tool) = Refine("not_mcp", 409, FALSE, tool)
      /\ Answer("no_consent", tool) = Refine("consent_required", 409, FALSE, tool)
      /\ Answer("testing", tool) = Refine("test_in_progress", 409, FALSE, tool)
      /\ Answer("bad_ref", tool) = Refine("invalid_secret_ref", 400, FALSE, tool)
  BY <1>1 DEF Answer, Says, CodeOfBody
<1> QED  BY <1>2 DEF Refine, RecoveryForTool

\* What is told apart by its status only.
LEMMA StatusAnswers ==
    ASSUME NEW tool
    PROVE  /\ Answer("bad_argument", tool).recovery = BadRequestRecovery(tool)
           /\ Answer("conflict", tool).recovery = {"recheck"}
           /\ Answer("fault", tool).recovery = {"read_logs"}
<1>1. /\ Says("bad_argument", tool, 400, "bad_request", FALSE)
      /\ Says("conflict", tool, 409, "conflict", FALSE)
      /\ Says("fault", tool, 500, "internal", FALSE)
  BY DEF Says, ResponseTo, Response
<1>2. /\ Answer("bad_argument", tool) = Refine("bad_request", 400, FALSE, tool)
      /\ Answer("conflict", tool) = Refine("conflict", 409, FALSE, tool)
      /\ Answer("fault", tool) = Refine("internal", 500, FALSE, tool)
  BY <1>1 DEF Answer, Says, CodeOfBody
<1> QED  BY <1>2 DEF Refine, RecoveryForTool

\* A body that is no workload, where a workload is the subject.
LEMMA BodyAnswers ==
    ASSUME NEW tool, SubjectOf(tool) = "Workload"
    PROVE  /\ Answer("bad_body", tool).recovery = {"read_schema"}
           /\ Answer("nested_body", tool).recovery = {"flatten"}
<1>1. RecoveryForTool("invalid_workload", 400, tool) = {"read_schema"}
  BY DEF RecoveryForTool, BadRequestRecovery
<1>2. /\ Says("bad_body", tool, 422, "error", FALSE)
      /\ Says("nested_body", tool, 422, "error", TRUE)
  BY DEF Says, ResponseTo, Response
<1>3. /\ Answer("bad_body", tool) = Refine("error", 422, FALSE, tool)
      /\ Answer("nested_body", tool) = Refine("error", 422, TRUE, tool)
  BY <1>2 DEF Answer, Says, CodeOfBody
<1> QED  BY <1>1, <1>3 DEF Refine

\* Every refusal has a code: the body's, that of a bare answer, or that of a bad body.
LEMMA AnswerCodes ==
    ASSUME NEW tool, NEW o \in Remote
    PROVE  Answer(o, tool).code # "none"
<1> DEFINE r == ResponseTo(o, tool)
<1>1. r.body # "none"
  BY DEF ResponseTo, Response, Remote
<1> HIDE DEF r
<1>2. \A status : RouteError(status) # "none"
  BY DEF RouteError
<1>3. CodeOfBody(r.body, r.status) # "none"
  BY <1>1, <1>2 DEF CodeOfBody
<1>4. \A c, status, nested : c # "none" => Refine(c, status, nested, tool).code # "none"
  BY DEF Refine
<1> QED  BY <1>3, <1>4 DEF Answer, r

LEMMA FacesAre ==
    ASSUME NEW tool
    PROVE  Faces(tool) \subseteq Local(tool) \cup {"down", "broken"} \cup Remote
BY DEF Faces, Remote

LEMMA LocalsAre ==
    ASSUME NEW tool
    PROVE  Local(tool) \cap (Remote \cup {"down", "broken"}) = {}
BY DEF Local, Remote

\* The daemon answers "not a Workload" only to tools that send one.
LEMMA BodiesAreWorkloads ==
    ASSUME NEW tool, NEW o \in Faces(tool), o \in {"bad_body", "nested_body"}
    PROVE  SubjectOf(tool) = "Workload"
<1>1. tool \in {"workload_apply", "workload_validate"}
  BY DEF Faces, Local
<1> QED  BY <1>1 DEF SubjectOf

LEMMA UnknownIds ==
    ASSUME NEW tool, "unknown_id" \in Faces(tool)
    PROVE  tool \in IdTools
BY DEF Faces, Local

\* Remedies for one obstacle only.
Lone == {"fix_path", "match_metadata", "read_schema", "flatten", "start_workload", "ask_user",
         "wait", "fix_reference", "recheck", "read_logs"}

\* What is told of each obstacle: mostly the one thing that removes it.
LEMMA Remedies ==
    ASSUME NEW tool, NEW o \in Faces(tool), o \in Remote
    PROVE  \/ o \in {"no_route", "no_method"} /\ Answer(o, tool).recovery = {"update_desktop"}
           \/ /\ o = "unknown_id" /\ tool \in IdTools
              /\ Answer(o, tool).recovery = NotFoundRecovery(tool)
           \/ o = "bad_argument" /\ Answer(o, tool).recovery = BadRequestRecovery(tool)
           \/ o = "no_check" /\ Answer(o, tool).recovery = {"stop"}
           \/ \E x \in Lone : Answer(o, tool).recovery = {x} /\ CuredBy(o, tool) = {x}
<1>1. CASE o \in {"no_route", "no_method"}
  BY <1>1, SkewAnswers
<1>2. CASE o \in {"unknown_id", "bad_argument", "no_check"}
  BY <1>2, UnknownIds, CodedAnswers, StatusAnswers
<1>3. CASE o \in {"bad_path", "mismatch", "not_running", "no_consent", "testing", "bad_ref"}
  <2>1. CASE o = "bad_path"
    BY <2>1, CodedAnswers DEF CuredBy, Lone
  <2>2. CASE o = "mismatch"
    BY <2>2, CodedAnswers DEF CuredBy, Lone
  <2>3. CASE o = "not_running"
    BY <2>3, CodedAnswers DEF CuredBy, Lone
  <2>4. CASE o = "no_consent"
    BY <2>4, CodedAnswers DEF CuredBy, Lone
  <2>5. CASE o = "testing"
    BY <2>5, CodedAnswers DEF CuredBy, Lone
  <2>6. CASE o = "bad_ref"
    BY <2>6, CodedAnswers DEF CuredBy, Lone
  <2> QED  BY <1>3, <2>1, <2>2, <2>3, <2>4, <2>5, <2>6
<1>4. CASE o \in {"conflict", "fault"}
  <2>1. CASE o = "conflict"
    BY <2>1, StatusAnswers DEF CuredBy, Lone
  <2>2. CASE o = "fault"
    BY <2>2, StatusAnswers DEF CuredBy, Lone
  <2> QED  BY <1>4, <2>1, <2>2
<1>5. CASE o \in {"bad_body", "nested_body"}
  <2>1. SubjectOf(tool) = "Workload"  BY <1>5, BodiesAreWorkloads
  <2>2. CASE o = "bad_body"
    BY <2>1, <2>2, BodyAnswers DEF CuredBy, Lone
  <2>3. CASE o = "nested_body"
    BY <2>1, <2>3, BodyAnswers DEF CuredBy, Lone
  <2> QED  BY <1>5, <2>2, <2>3
<1> QED  BY <1>1, <1>2, <1>3, <1>4, <1>5 DEF Remote

\* A tool that can name something the daemon does not have is classified.
IdsClassified == \A tool \in IdTools : SubjectOf(tool) \in {"Workload", "Project", "Image"}

\* The list a tool is sent to is that of what its route addresses.
LEMMA NotFoundIsOwn ==
    ASSUME IdsClassified, NEW tool \in IdTools
    PROVE  NotFoundRecovery(tool) = OwnList(tool) /\ OwnList(tool) # {}
<1>1. SubjectOf(tool) \in {"Workload", "Project", "Image"}  BY DEF IdsClassified
<1>2. RowOK(tool, Table[tool])  BY TableOK, IdAssumption
<1>3. CASE SubjectOf(tool) = "Workload"
  BY <1>2, <1>3 DEF RowOK, NotFoundRecovery, OwnList
<1>4. CASE SubjectOf(tool) = "Project"
  BY <1>2, <1>4 DEF RowOK, NotFoundRecovery, OwnList
<1>5. CASE SubjectOf(tool) = "Image"
  BY <1>2, <1>5 DEF RowOK, NotFoundRecovery, OwnList
<1> QED  BY <1>1, <1>3, <1>4, <1>5

LEMMA BadRequests ==
    ASSUME NEW tool
    PROVE  /\ BadRequestRecovery(tool) \cap {"fix_argument", "fix_reference", "read_schema"} # {}
           /\ BadRequestRecovery(tool) \cap {"stop", "update_desktop", "list_workloads"} = {}
           /\ "list_projects" \in BadRequestRecovery(tool) => SubjectOf(tool) = "Project"
           /\ "list_templates" \in BadRequestRecovery(tool) => SubjectOf(tool) = "Template"
BY DEF BadRequestRecovery

Lists == {"list_workloads", "list_projects", "list_templates"}

LEMMA AnswersAreOwn ==
    ASSUME IdsClassified, NEW tool \in Tools, NEW o \in Faces(tool), o \in Remote,
           NEW l \in Lists, l \in Answer(o, tool).recovery
    PROVE  l \in OwnList(tool)
<1>1. CASE o = "unknown_id" /\ tool \in IdTools /\ Answer(o, tool).recovery = NotFoundRecovery(tool)
  BY <1>1, NotFoundIsOwn
<1>2. CASE o = "bad_argument" /\ Answer(o, tool).recovery = BadRequestRecovery(tool)
  <2>1. RowOK(tool, Table[tool])  BY TableOK
  <2>2. CASE l = "list_projects"
    BY <1>2, <2>1, <2>2, BadRequests DEF RowOK, OwnList
  <2>3. CASE l = "list_templates"
    BY <1>2, <2>1, <2>3, BadRequests DEF RowOK, OwnList
  <2> QED  BY <1>2, <2>2, <2>3, BadRequests DEF Lists
<1>3. CASE Answer(o, tool).recovery \in {{"update_desktop"}, {"stop"}} \cup {{x} : x \in Lone}
  BY <1>3 DEF Lists, Lone
<1> QED  BY <1>1, <1>2, <1>3, Remedies

LEMMA AnswersHelp ==
    ASSUME IdsClassified, NEW tool \in Tools, NEW o \in Faces(tool), o \in Remote
    PROVE  "stop" \in Answer(o, tool).recovery \/ CuredBy(o, tool) \cap Answer(o, tool).recovery # {}
<1>1. CASE o = "unknown_id" /\ tool \in IdTools /\ Answer(o, tool).recovery = NotFoundRecovery(tool)
  <2>1. CuredBy(o, tool) = OwnList(tool)  BY <1>1 DEF CuredBy
  <2> QED  BY <1>1, <2>1, NotFoundIsOwn
<1>2. CASE o = "bad_argument" /\ Answer(o, tool).recovery = BadRequestRecovery(tool)
  <2>1. CuredBy(o, tool) = {"fix_argument", "fix_reference", "read_schema"}
    BY <1>2 DEF CuredBy
  <2> QED  BY <1>2, <2>1, BadRequests
<1>3. CASE o \in {"no_route", "no_method"} /\ Answer(o, tool).recovery = {"update_desktop"}
  <2>1. CuredBy(o, tool) = {"update_desktop"}  BY <1>3 DEF CuredBy
  <2> QED  BY <1>3, <2>1
<1> QED  BY <1>1, <1>2, <1>3, Remedies

LEMMA AnswersSaySomething ==
    ASSUME NEW tool, NEW o \in Faces(tool), o \in Remote
    PROVE  Answer(o, tool).recovery # {}
<1>1. NotFoundRecovery(tool) # {}  BY DEF NotFoundRecovery
<1> QED  BY <1>1, Remedies, BadRequests

LEMMA OnlySkewIsSkew ==
    ASSUME NEW tool, NEW o \in Faces(tool), o \in Remote, "update_desktop" \in Answer(o, tool).recovery
    PROVE  o \in {"no_route", "no_method"}
<1>1. "update_desktop" \notin NotFoundRecovery(tool)  BY DEF NotFoundRecovery
<1>2. "update_desktop" \notin Lone  BY DEF Lone
<1> QED  BY <1>1, <1>2, Remedies, BadRequests

-----------------------------------------------------------------------------
(* The invariant.                                                          *)

Typed ==
    /\ goal \in Tools /\ obstacles \subseteq Faces(goal)
    /\ phase \in {"calling", "told", "done"}

\* A refusal is about something that does stand in the way: what the tool itself
\* checks as long as there is such a thing, then the connection, then what the
\* daemon says, and then in the words of the answer to it.
Told ==
    /\ code # "none"
    /\ IF obstacles \cap Local(goal) = {}
       THEN \/ "down" \in obstacles /\ recovery = {"start_daemon"}
            \/ "broken" \in obstacles /\ recovery = {"retry", "read_logs"}
            \/ \E o \in obstacles \cap Remote : recovery = Answer(o, goal).recovery
       ELSE \E o \in obstacles \cap Local(goal) : recovery = CuredBy(o, goal)

\* "connect" is the one thing named that is no tool, a workload's credentials bring it
\* up, and a refusal has no next steps.
Suggested ==
    /\ OnlyConnectIsNoTool
    /\ phase = "told" => suggestions = {}

GuideInv == Typed /\ (phase = "told" => Told) /\ Suggested

LEMMA InitGuidance == Init => GuideInv
BY DEF Init, GuideInv, Typed, Suggested, OnlyConnectIsNoTool

LEMMA SameTold ==
    ASSUME GuideInv, UNCHANGED vars
    PROVE  GuideInv'
BY DEF GuideInv, Typed, Told, Suggested, OnlyConnectIsNoTool, vars

\* A refusal changes nothing but what is known.
LEMMA Refused ==
    ASSUME GuideInv, NEW c, NEW remedies, Fail(c, remedies)
    PROVE  /\ Typed' /\ Suggested'
           /\ goal' = goal /\ obstacles' = obstacles /\ phase' = "told"
           /\ code' = c /\ recovery' = remedies
BY DEF Fail, GuideInv, Typed, Suggested, OnlyConnectIsNoTool

LEMMA LocallyTold ==
    ASSUME GuideInv, NEW o \in obstacles, o \in Local(goal), NEW c, c # "none",
           Fail(c, CuredBy(o, goal))
    PROVE  GuideInv'
<1>1. /\ Typed' /\ Suggested' /\ goal' = goal /\ obstacles' = obstacles
      /\ code' = c /\ recovery' = CuredBy(o, goal)
  BY Refused
<1> QED  BY <1>1 DEF GuideInv, Told

LEMMA LocalStep ==
    ASSUME GuideInv, RefusedLocally
    PROVE  GuideInv'
<1>1. goal \in Tools /\ obstacles \cap Local(goal) # {}
  BY DEF GuideInv, Typed, RefusedLocally
<1>2. CASE Table[goal].gate = "confirm"
  <2>1. Local(goal) = {"unconfirmed"}  BY <1>2 DEF Local
  <2>2. Fail("confirmation_required", {"confirm"})  BY <1>2 DEF RefusedLocally
  <2>3. CuredBy("unconfirmed", goal) = {"confirm"}  BY DEF CuredBy
  <2> QED  BY <1>1, <2>1, <2>2, <2>3, LocallyTold
<1>3. CASE Table[goal].gate = "limit"
  <2>1. Local(goal) = {"limit_out_of_range"}  BY <1>3 DEF Local
  <2>2. Fail("invalid_limit", {"fix_limit"})  BY <1>3 DEF RefusedLocally
  <2>3. CuredBy("limit_out_of_range", goal) = {"fix_limit"}  BY DEF CuredBy
  <2> QED  BY <1>1, <2>1, <2>2, <2>3, LocallyTold
<1>4. CASE Table[goal].gate = "parse"
  <2>1. Local(goal) = {"unparsable"}  BY <1>4 DEF Local
  <2>2. Fail("invalid_workload", {"reshape"})  BY <1>4 DEF RefusedLocally
  <2>3. CuredBy("unparsable", goal) = {"reshape"}  BY DEF CuredBy
  <2> QED  BY <1>1, <2>1, <2>2, <2>3, LocallyTold
<1>5. Table[goal].gate \in {"confirm", "limit", "parse"}
  BY <1>1 DEF Local
<1> QED  BY <1>2, <1>3, <1>4, <1>5

LEMMA ConnectionStep ==
    ASSUME GuideInv, Unreachable \/ Transport
    PROVE  GuideInv'
<1>1. obstacles \cap Local(goal) = {}
  BY DEF Unreachable, Transport, Asks
<1>2. CASE Unreachable
  <2>1. "down" \in obstacles /\ Fail("daemon_unreachable", {"start_daemon"})
    BY <1>2 DEF Unreachable
  <2> QED  BY <1>1, <2>1, Refused DEF GuideInv, Told
<1>3. CASE Transport
  <2>1. "broken" \in obstacles /\ Fail("transport_error", {"retry", "read_logs"})
    BY <1>3 DEF Transport
  <2> QED  BY <1>1, <2>1, Refused DEF GuideInv, Told
<1> QED  BY <1>2, <1>3

\* What the daemon reports is none of what was checked before.
LEMMA ApiStep ==
    ASSUME GuideInv, ApiError
    PROVE  GuideInv'
<1>1. obstacles \cap Local(goal) = {}
  BY DEF ApiError, Asks
<1>2. PICK o \in obstacles \ Local(goal) :
          Fail(Answer(o, goal).code, Answer(o, goal).recovery)
  BY DEF ApiError, Answer
<1>3. o \in Faces(goal) /\ o \notin {"down", "broken"}
  BY DEF GuideInv, Typed, ApiError
<1>4. o \in obstacles \cap Remote  BY <1>2, <1>3, FacesAre
<1>5. Answer(o, goal).code # "none"  BY <1>4, AnswerCodes
<1>6. /\ Typed' /\ Suggested' /\ goal' = goal /\ obstacles' = obstacles
      /\ code' = Answer(o, goal).code /\ recovery' = Answer(o, goal).recovery
  BY <1>1, <1>2, Refused
<1> QED  BY <1>1, <1>4, <1>5, <1>6 DEF GuideInv, Told

LEMMA ConnectIsNoTool == "connect" \notin Tools
BY TableDomain DEF HostAndProjectReads, WorkloadReads, ImageAndCredentialReads, ProjectWrites,
       WorkloadWrites, SecretSetToRollback, SecretsConfigsRegistries, ProjectDeleteAndImages

\* What a success names.
LEMMA SucceedsStep ==
    ASSUME GuideInv, NEW names, Succeeds(names), names \subseteq Tools \cup {"connect"},
           "connect" \in names => goal \in WorkloadReplies \cup {"workload_credentials_test"}
    PROVE  GuideInv'
BY DEF GuideInv, Typed, Suggested, OnlyConnectIsNoTool, Succeeds, Asks

LEMMA SuccessStep ==
    ASSUME GuideInv, Ordinary \/ Parked \/ Tested
    PROVE  GuideInv'
<1>1. CASE Ordinary
  <2>1. Succeeds(Table[goal].next)  BY <1>1 DEF Ordinary
  <2>2. Table[goal].next \subseteq Tools  BY TableOK DEF GuideInv, Typed, RowOK
  <2> QED  BY <2>1, <2>2, ConnectIsNoTool, SucceedsStep
<1>2. CASE Parked
  <2>1. PICK row \in ParkedRows :
            Succeeds({"workload_credentials_test", "workload_list"}
                     \cup (IF row = "connect_provider" THEN {"connect"} ELSE {}))
    BY <1>2 DEF Parked
  <2>2. goal \in WorkloadReplies  BY <1>2 DEF Parked
  <2> QED  BY <2>1, <2>2, NamedTools, SucceedsStep
<1>3. CASE Tested
  <2>1. PICK v \in Verdicts :
            Succeeds(CASE v = "not_running"  -> {"workload_start"}
                       [] v = "insufficient" -> {"connect"}
                       [] v = "error"        -> {"logs_query"}
                       [] OTHER              -> {})
    BY <1>3 DEF Tested
  <2>2. goal = "workload_credentials_test"  BY <1>3 DEF Tested
  <2> DEFINE names == CASE v = "not_running"  -> {"workload_start"}
                        [] v = "insufficient" -> {"connect"}
                        [] v = "error"        -> {"logs_query"}
                        [] OTHER              -> {}
  <2>3. names \subseteq Tools \cup {"connect"}
    BY NamedTools
  <2> QED  BY <2>1, <2>2, <2>3, SucceedsStep
<1> QED  BY <1>1, <1>2, <1>3

LEMMA AgentStep ==
    ASSUME GuideInv, Follow \/ Continue
    PROVE  GuideInv'
<1>1. CASE Follow
  <2>1. goal' = goal /\ obstacles' \subseteq obstacles /\ phase' \in {"calling", "done"}
        /\ phase = "told" /\ suggestions' = suggestions
    BY <1>1 DEF Follow
  <2> QED  BY <2>1 DEF GuideInv, Typed, Suggested, OnlyConnectIsNoTool
<1>2. CASE Continue
  <2>1. PICK tool \in (suggestions \cap Tools) \cup {"host_status"} : Want(tool)
    BY <1>2 DEF Continue
  <2>2. tool \in Tools  BY <2>1, NamedTools
  <2>3. goal' = tool /\ obstacles' \subseteq Faces(tool)  BY <2>1 DEF Want
  <2>4. phase' = "calling" /\ suggestions' = suggestions
    BY <1>2 DEF Continue
  <2> QED  BY <2>2, <2>3, <2>4 DEF GuideInv, Typed, Suggested, OnlyConnectIsNoTool
<1> QED  BY <1>1, <1>2

LEMMA StepGuidance == GuideInv /\ [Next]_vars => GuideInv'
BY LocalStep, ConnectionStep, ApiStep, SuccessStep, AgentStep, SameTold DEF Next, Call

LEMMA GuidanceSafe == Spec => []GuideInv
BY InitGuidance, StepGuidance, PTL DEF Spec

-----------------------------------------------------------------------------
(* What the agent may rely on.                                             *)

LEMMA TypesFollow == GuideInv => TypeOK
<1> SUFFICES ASSUME GuideInv, phase = "told"
             PROVE  recovery # {}
  BY DEF GuideInv, Typed, Told, TypeOK
<1>1. CASE obstacles \cap Local(goal) = {}
  BY <1>1, AnswersSaySomething DEF GuideInv, Typed, Told
<1>2. CASE obstacles \cap Local(goal) # {}
  <2>1. PICK o \in Local(goal) : recovery = CuredBy(o, goal)
    BY <1>2 DEF GuideInv, Told
  <2>2. o \in {"unconfirmed", "limit_out_of_range", "unparsable"}  BY DEF Local
  <2> QED  BY <2>1, <2>2 DEF CuredBy
<1> QED  BY <1>1, <1>2

LEMMA LocalRemedies ==
    ASSUME NEW tool, NEW o \in Local(tool)
    PROVE  CuredBy(o, tool) \in {{"confirm"}, {"fix_limit"}, {"reshape"}}
<1>1. o \in {"unconfirmed", "limit_out_of_range", "unparsable"}  BY DEF Local
<1> QED  BY <1>1 DEF CuredBy

LEMMA SkewFollows == GuideInv => SkewIsNamed
<1> SUFFICES ASSUME GuideInv, phase = "told"
             PROVE  /\ obstacles = {"no_route"} \/ obstacles = {"no_method"}
                          => recovery = {"update_desktop"}
                    /\ "update_desktop" \in recovery => obstacles \cap {"no_route", "no_method"} # {}
  BY DEF SkewIsNamed
<1>1. Told /\ obstacles \subseteq Faces(goal)  BY DEF GuideInv, Typed
<1>2. ASSUME obstacles = {"no_route"} \/ obstacles = {"no_method"}
      PROVE  recovery = {"update_desktop"}
  <2>1. obstacles \cap Local(goal) = {}  BY <1>2, LocalsAre DEF Remote
  <2>2. PICK o \in obstacles : recovery = Answer(o, goal).recovery
    BY <1>1, <1>2, <2>1 DEF Told
  <2> QED  BY <1>2, <2>2, SkewAnswers
<1>3. ASSUME "update_desktop" \in recovery
      PROVE  obstacles \cap {"no_route", "no_method"} # {}
  BY <1>1, <1>3, OnlySkewIsSkew, LocalRemedies DEF Told
<1> QED  BY <1>2, <1>3

LEMMA OwnListFollows == GuideInv /\ IdsClassified => NoWrongList
<1> SUFFICES ASSUME GuideInv, IdsClassified, phase = "told", NEW l \in Lists, l \in recovery
             PROVE  l \in OwnList(goal)
  BY DEF NoWrongList, Lists
<1>1. Told /\ obstacles \subseteq Faces(goal) /\ goal \in Tools  BY DEF GuideInv, Typed
<1>2. l \notin {"start_daemon", "retry", "read_logs", "confirm", "fix_limit", "reshape"}
  BY DEF Lists
<1>3. PICK o \in obstacles \cap Remote : recovery = Answer(o, goal).recovery
  BY <1>1, <1>2, LocalRemedies DEF Told
<1> QED  BY <1>1, <1>3, AnswersAreOwn

\* A recovery tells the agent to stop or removes something that stood in the way.
HintHelps ==
    phase = "told" =>
        "stop" \in recovery \/ \E o \in obstacles : CuredBy(o, goal) \cap recovery # {}

LEMMA HelpFollows == GuideInv /\ IdsClassified => HintHelps
<1> SUFFICES ASSUME GuideInv, IdsClassified, phase = "told"
             PROVE  "stop" \in recovery \/ \E o \in obstacles : CuredBy(o, goal) \cap recovery # {}
  BY DEF HintHelps
<1>1. Told /\ obstacles \subseteq Faces(goal) /\ goal \in Tools  BY DEF GuideInv, Typed
<1>2. CuredBy("down", goal) = {"start_daemon"} /\ CuredBy("broken", goal) = {"retry"}
  BY DEF CuredBy
<1>3. CASE obstacles \cap Local(goal) = {}
  BY <1>1, <1>2, <1>3, AnswersHelp DEF Told
<1>4. CASE obstacles \cap Local(goal) # {}
  BY <1>1, <1>4, LocalRemedies DEF Told
<1> QED  BY <1>3, <1>4

\* The variables keep their types, and every refusal has a code and a recovery.
THEOREM GuidanceTypeCorrect == Spec => []TypeOK
BY GuidanceSafe, TypesFollow, PTL

\* For any obstacles: "update Desktop" is said of a route the daemon does not have, and
\* of nothing else.
THEOREM SkewIsTold == Spec => []SkewIsNamed
BY GuidanceSafe, SkewFollows, PTL

\* After any success the next steps are tools of this server, but for "connect", which
\* only a parked workload and a credential test name.
THEOREM NextStepsAreTools == Spec => []OnlyConnectIsNoTool
<1>1. GuideInv => OnlyConnectIsNoTool
  BY DEF GuideInv, Suggested
<1> QED  BY <1>1, GuidanceSafe, PTL

\* As long as every tool that names an id has a subject of its own, an agent is only
\* sent to the list of what the tool addresses.
THEOREM ListsAreOwn == IdsClassified => (Spec => []NoWrongList)
<1> SUFFICES ASSUME IdsClassified
             PROVE  Spec => []NoWrongList
  OBVIOUS
<1>1. GuideInv => NoWrongList  BY OwnListFollows
<1> QED  BY <1>1, GuidanceSafe, PTL

\* Under the same condition each recovery that is followed ends the matter or leaves
\* strictly less in the way, so following them cannot go on for ever.
THEOREM FollowingHelps == IdsClassified => (Spec => EachHintHelps)
<1> SUFFICES ASSUME IdsClassified
             PROVE  Spec => EachHintHelps
  OBVIOUS
<1>1. GuideInv /\ [Next]_vars => [Follow => phase' = "done" \/ LessInTheWay]_vars
  BY HelpFollows DEF HintHelps, Follow, LessInTheWay
<1> QED  BY <1>1, GuidanceSafe, PTL DEF Spec, EachHintHelps
=============================================================================
