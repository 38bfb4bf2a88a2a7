----------------------------- MODULE Resources ------------------------------
(***************************************************************************)
(* resources/list, the resources/read of live host state (src/server.rs,   *)
(* src/resources.rs) and cosmonic_host_status (src/tools.rs), while the    *)
(* operator changes the host.                                              *)
(*                                                                         *)
(* A reply is composed from answers the daemon gave at different moments:  *)
(* list asks for the feature flags, cosmonic://catalog is one read that    *)
(* may answer 403, cosmonic://capabilities is four reads at once           *)
(* (tokio::join!), host_status two in a row.  Each may fail: the daemon    *)
(* can be down, or too old to have the route.  The daemon and the operator *)
(* are external.                                                           *)
(***************************************************************************)
EXTENDS Naturals, FiniteSets

CONSTANTS Missing,    \* the routes this daemon may lack
          MaxChanges  \* bound on the operator's changes

\* What the operator can flip; the registry is a system workload.
Settings == {"catalog", "loopback", "signing", "registry"}
Routes   == {"flags", "catalog", "host", "policy", "egress", "nats", "system"}

ASSUME MissingAssumption == Missing \subseteq Routes
ASSUME ChangesAssumption == MaxChanges \in Nat

VARIABLES
    setting,   \* [Settings -> BOOLEAN]: the host as it is
    held,      \* ghost: what each setting has been since the call began
    changes,
    call,      \* the resource being asked for, or "none"
    pending,   \* the daemon reads still unanswered
    answer,    \* [Routes -> what the read returned]
    failed,    \* ghost: the reads of this call that failed
    reply      \* what the agent was told last

vars == <<setting, held, changes, call, pending, answer, failed, reply>>

Failed == [ok |-> FALSE, status |-> 0, value |-> FALSE]
Ok(v)  == [ok |-> TRUE, status |-> 200, value |-> v]
Forbidden == [ok |-> FALSE, status |-> 403, value |-> FALSE]

ReadsOf(resource) ==
    CASE resource = "list"         -> {"flags"}
      [] resource = "catalog"      -> {"catalog"}
      [] resource = "capabilities" -> {"host", "policy", "egress", "nats"}
      [] resource = "host_status"  -> {"system", "host"}

Sections == {"host", "http", "egress", "nats", "signing", "secrets"}
NoReply  == [kind |-> "none", offers |-> {}, loopback |-> FALSE, signing |-> FALSE]

Init ==
    /\ setting \in [Settings -> BOOLEAN]
    /\ held = [s \in Settings |-> {setting[s]}]
    /\ changes = 0
    /\ call = "none" /\ pending = {} /\ answer = [r \in Routes |-> Failed]
    /\ failed = {} /\ reply = NoReply

-----------------------------------------------------------------------------
(* The operator and the daemon.                                            *)

Flip(s) ==
    /\ changes < MaxChanges
    /\ changes' = changes + 1
    /\ setting' = [setting EXCEPT ![s] = ~@]
    /\ held' = [held EXCEPT ![s] = @ \cup {~setting[s]}]
    /\ UNCHANGED <<call, pending, answer, failed, reply>>

\* What the daemon says on a route now.
Says(r) ==
    CASE r = "flags"   -> {Ok(setting["catalog"])}
      [] r = "catalog" -> IF setting["catalog"] THEN {Ok(TRUE)} ELSE {Forbidden}
      [] r = "egress"  -> {Ok(setting["loopback"])}
      [] r = "policy"  -> {Ok(setting["signing"])}
      [] r = "system"  -> {Ok(setting["registry"])}
      [] OTHER         -> {Ok(TRUE)}

\* host_status asks for the system workloads before it asks for the host.
Asked(r) == r \in pending /\ (call = "host_status" /\ r = "host" => "system" \notin pending)

DaemonAnswers(r) ==
    /\ Asked(r)
    /\ pending' = pending \ {r}
    /\ \/ /\ \E a \in Says(r) : answer' = [answer EXCEPT ![r] = a]
          /\ UNCHANGED failed
       \/ /\ r \in Missing
          /\ failed' = failed \cup {r}
          /\ UNCHANGED answer
    /\ UNCHANGED <<setting, held, changes, call, reply>>

-----------------------------------------------------------------------------
(* The handlers.                                                           *)

Ask(resource) ==
    /\ call = "none"
    /\ call' = resource /\ pending' = ReadsOf(resource)
    /\ answer' = [r \in Routes |-> Failed] /\ failed' = {}
    /\ held' = [s \in Settings |-> {setting[s]}]
    /\ reply' = NoReply
    /\ UNCHANGED <<setting, changes>>

Reply(kind, offers, loopback, signing) ==
    /\ reply' = [kind |-> kind, offers |-> offers, loopback |-> loopback, signing |-> signing]
    /\ call' = "none"
    /\ UNCHANGED <<setting, held, changes, pending, answer, failed>>

Static == {"host", "workloads", "templates", "capabilities", "schema/workload"}

\* Mutant: a daemon that cannot answer taken for one with every flag on.
FlagEnabled_Optimist == answer["flags"].ok => answer["flags"].value

\* flag_enabled: any failure reads as off.
FlagEnabled == answer["flags"].ok /\ answer["flags"].value

ListResources ==
    /\ call = "list" /\ pending = {}
    /\ Reply("ok", Static \cup (IF FlagEnabled THEN {"catalog"} ELSE {}), FALSE, FALSE)

ReadCatalog ==
    /\ call = "catalog" /\ pending = {}
    /\ LET a == answer["catalog"]
       IN  CASE a.ok           -> Reply("ok", {"catalog"}, FALSE, FALSE)
             [] a.status = 403 -> Reply("flag_off", {}, FALSE, FALSE)
             [] OTHER          -> Reply("internal_error", {}, FALSE, FALSE)

LoopbackEnabled == answer["egress"].ok /\ answer["egress"].value

\* Mutant: a section under the name of its route.
CapabilitySections_Route ==
    {"http", "egress", "secrets"} \cup {r \in {"host", "nats", "policy"} : answer[r].ok}

\* capabilities(): "http", "egress" and "secrets" are always inserted.
CapabilitySections ==
    {"http", "egress", "secrets"}
    \cup (IF answer["host"].ok   THEN {"host"} ELSE {})
    \cup (IF answer["nats"].ok   THEN {"nats"} ELSE {})
    \cup (IF answer["policy"].ok THEN {"signing"} ELSE {})

\* Mutant: the reply composed from the reads that are back, like select!.
Joined_First == \E r \in ReadsOf("capabilities") : r \notin pending
Joined       == pending = {}

\* The host read must succeed; the other three are best effort.
ReadCapabilities ==
    /\ call = "capabilities" /\ Joined
    /\ IF answer["host"].ok
       THEN Reply("ok", CapabilitySections, LoopbackEnabled, answer["policy"].value)
       ELSE Reply("internal_error", {}, FALSE, FALSE)

\* find_local_registry: from the set as it was read, and none if it was not.
LocalRegistry == answer["system"].ok /\ answer["system"].value

AugmentHost == {"host", "ingress"} \cup (IF LocalRegistry THEN {"localRegistry"} ELSE {})

HostStatus ==
    /\ call = "host_status" /\ pending = {}
    /\ IF answer["host"].ok THEN Reply("ok", AugmentHost, FALSE, FALSE)
                            ELSE Reply("error", {}, FALSE, FALSE)

Next ==
    \/ \E s \in Settings : Flip(s)
    \/ \E r \in Routes : DaemonAnswers(r)
    \/ \E resource \in {"list", "catalog", "capabilities", "host_status"} : Ask(resource)
    \/ ListResources \/ ReadCatalog \/ ReadCapabilities \/ HostStatus

Spec == Init /\ [][Next]_vars

-----------------------------------------------------------------------------
(* Properties.                                                             *)

TypeOK ==
    /\ setting \in [Settings -> BOOLEAN] /\ held \in [Settings -> SUBSET BOOLEAN]
    /\ changes \in 0..MaxChanges
    /\ call \in {"none", "list", "catalog", "capabilities", "host_status"}
    /\ pending \subseteq Routes /\ failed \subseteq Missing
    /\ answer \in [Routes -> [ok : BOOLEAN, status : {0, 200, 403}, value : BOOLEAN]]
    /\ reply.kind \in {"none", "ok", "flag_off", "internal_error", "error"}
    /\ reply.offers \subseteq Static \cup Sections \cup {"catalog", "ingress", "localRegistry"}

\* What the reply says is there,
Affirmed ==
    /\ "catalog" \in reply'.offers => TRUE \in held["catalog"]
    /\ reply'.loopback => TRUE \in held["loopback"]
    /\ reply'.signing  => TRUE \in held["signing"]
    /\ "localRegistry" \in reply'.offers => TRUE \in held["registry"]

\* and what it says is not, by a code, by a closed door or by leaving it out.
Denied ==
    /\ reply'.kind = "flag_off" => FALSE \in held["catalog"]
    /\ call = "list" /\ "flags" \notin failed =>
           "catalog" \in reply'.offers \/ FALSE \in held["catalog"]
    /\ call = "capabilities" /\ reply'.kind = "ok" =>
           /\ "egress" \notin failed => reply'.loopback \/ FALSE \in held["loopback"]
           /\ "policy" \notin failed => reply'.signing \/ FALSE \in held["signing"]
    /\ call = "host_status" /\ reply'.kind = "ok" /\ "system" \notin failed =>
           "localRegistry" \in reply'.offers \/ FALSE \in held["registry"]

\* What the agent is told it can and cannot do was so at some moment of its call: the
\* catalog is offered or served only if its flag was on and declared off only if it was
\* off, the loopback door called open or closed, a signature required or not, only if
\* it was, and "the note can't advertise a registry this daemon isn't serving".  The one
\* thing not claimed is a denial whose own read failed (what MissingIsVisible is about).
ToldTruly == [][call # "none" /\ call' = "none" => Affirmed /\ Denied]_vars

\* The picture of the host is partial only where a read failed: when none did,
\* capabilities carries every section, with the loopback door and the signature
\* requirement of some moment of the call, and host_status has the registry unless
\* there was none at some moment.
PictureComplete ==
    [][call' = "none" /\ failed = {} =>
         /\ call = "capabilities" =>
                /\ reply'.kind = "ok" /\ reply'.offers = Sections
                /\ reply'.loopback \in held["loopback"]
                /\ reply'.signing \in held["signing"]
         /\ call = "host_status" =>
                /\ reply'.kind = "ok"
                /\ "localRegistry" \in reply'.offers \/ FALSE \in held["registry"]]_vars

\* resources.rs 110-112: a section the daemon could not answer for is left out,
\* "and a missing section is visible".
MissingIsVisible ==
    [][call = "capabilities" /\ call' = "none" /\ reply'.kind = "ok" =>
         ("egress" \in reply'.offers => answer["egress"].ok)]_vars
=============================================================================
