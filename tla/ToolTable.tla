----------------------------- MODULE ToolTable ------------------------------
(***************************************************************************)
(* The tools of src/tools.rs, in the file's order: the kind of thing each  *)
(* one's daemon route addresses, what it checks before asking the daemon,  *)
(* and the tools its successful reply names as next steps.  Tool names are *)
(* written without their cosmonic_ prefix.                                 *)
(***************************************************************************)
Row(family, gate, next) == [family |-> family, gate |-> gate, next |-> next]

\* Mutant: a next step under the name a tool no longer has.
WorkloadRow_Renamed(gate) == Row("workload", gate, {"workload_list", "workload_logs"})

\* Replies made by workload_reply, whose next steps depend on the row returned.
WorkloadRow(gate) == Row("workload", gate, {"workload_list", "logs_query"})

HostAndProjectReads ==
    [host_status   |-> Row("host", "none", {"workload_list", "template_list"}),
     template_list |-> Row("template", "none", {"project_create"}),
     project_list  |-> Row("project", "none", {"dev_start", "project_publish"}),
     dev_status    |-> Row("project", "none", {"dev_start", "dev_logs"}),
     dev_logs      |-> Row("project", "none", {"dev_start"})]

WorkloadReads ==
    [workload_list |-> Row("workload", "limit", {"logs_query", "workload_get"}),
     workload_get  |-> WorkloadRow("none"),
     logs_query    |-> Row("logs", "limit", {"workload_list"})]

ImageAndCredentialReads ==
    [image_inspect  |-> Row("image", "none", {"workload_apply"}),
     workload_draft |-> Row("image", "none", {"workload_apply", "image_inspect"}),
     workload_credentials_test |-> Row("workload", "none", {})]

ProjectWrites ==
    [project_create  |-> Row("template", "none", {"dev_start"}),
     dev_start       |-> Row("project", "none", {"dev_logs", "project_publish"}),
     dev_stop        |-> Row("project", "none", {"dev_status"}),
     project_publish |-> Row("project", "confirm", {"workload_apply"})]

WorkloadWrites ==
    [workload_apply   |-> WorkloadRow("parse"),
     workload_start   |-> WorkloadRow("none"),
     workload_stop    |-> WorkloadRow("none"),
     workload_restart |-> WorkloadRow("none"),
     workload_delete  |-> WorkloadRow("confirm")]

SecretSetToRollback ==
    [secret_set |-> Row("secret", "none", {"workload_credentials_test", "workload_apply"}),
     workload_validate      |-> Row("workload", "parse", {"workload_apply"}),
     workload_revision_list |-> Row("workload", "none", {"workload_rollback", "workload_get"}),
     workload_rollback      |-> WorkloadRow("confirm")]

SecretsConfigsRegistries ==
    [secret_list   |-> Row("secret", "none", {"secret_set", "workload_apply"}),
     secret_delete |-> Row("secret", "confirm", {"secret_list"}),
     config_list   |-> Row("config", "none", {"config_set", "workload_apply"}),
     config_set    |-> Row("config", "none", {"config_list", "workload_apply"}),
     registry_list |-> Row("registry", "none", {"registry_test", "project_publish"}),
     registry_test |-> Row("registry", "none", {"registry_list", "project_publish"})]

ProjectDeleteAndImages ==
    [project_delete |-> Row("project", "confirm", {"project_list"}),
     image_list     |-> Row("image", "limit", {"image_prune", "image_inspect"}),
     image_prune    |-> Row("image", "confirm", {"image_list"})]

\* As @@ of TLC, which cannot be expanded in a proof.
And(f, g) == [x \in DOMAIN f \cup DOMAIN g |-> IF x \in DOMAIN f THEN f[x] ELSE g[x]]

Reads  == And(And(HostAndProjectReads, WorkloadReads), ImageAndCredentialReads)
Writes == And(And(ProjectWrites, WorkloadWrites),
              And(SecretSetToRollback, And(SecretsConfigsRegistries, ProjectDeleteAndImages)))
Table  == And(Reads, Writes)

Tools == DOMAIN Table

\* The tools that answer through workload_reply.
WorkloadReplies ==
    {"workload_get", "workload_apply", "workload_start", "workload_stop",
     "workload_restart", "workload_delete", "workload_rollback"}
=============================================================================
