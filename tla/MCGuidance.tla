----------------------------- MODULE MCGuidance -----------------------------
(***************************************************************************)
(* Guidance over every tool, with up to two obstacles to a call.           *)
(***************************************************************************)
EXTENDS Guidance

\* Tools whose path, query or body names a workload, a project or an image.
Classified ==
    {"workload_get", "workload_start", "workload_stop", "workload_restart",
     "workload_delete", "workload_revision_list", "workload_rollback",
     "workload_credentials_test", "dev_start", "dev_stop", "dev_status", "dev_logs",
     "project_publish", "project_delete", "image_inspect", "workload_draft"}

\* ... or a secret reference.
AllIds == Classified \cup {"secret_delete"}
=============================================================================
