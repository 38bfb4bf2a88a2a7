----------------------------- MODULE WireTypes ------------------------------
(***************************************************************************)
(* The data types of cosmonic-api that are both the wire format and the    *)
(* file on disk, and what reading and writing them with serde does.  A     *)
(* struct is a table: for each field the values it takes, the value a      *)
(* missing key loads as (`default`), and the values that are not written   *)
(* (`skip_serializing_if`).  The two attributes are set apart in the code, *)
(* and a `Default` impl is a third place that says what nothing means.     *)
(* A field that is a struct of its own is one value here and has its own   *)
(* table.                                                                  *)
(***************************************************************************)
(* The values of a field, by its type; zero is what `Default` derives.     *)

Takes(values, zero) == [values |-> values, zero |-> zero]

Words     == Takes({"blank", "v"}, "blank")
Flag      == Takes({"false", "true"}, "false")
Number    == Takes({"0", "1", "9"}, "0")
List      == Takes({"empty", "v"}, "empty")      \* Vec, BTreeMap
Maybe     == Takes({"none", "v"}, "none")        \* Option
Choice(d) == Takes({d, "v"}, d)                  \* an enum, or a struct with a Default

(* The rule of a field, by its serde attributes.                           *)

Missing == "missing field"

Field(kind, absent, omitted) ==
    [values |-> kind.values, zero |-> kind.zero, absent |-> absent, omitted |-> omitted]

Required       == Field(Words, Missing, {})
RequiredAs(k)  == Field(k, Missing, {})
Optional       == Field(Maybe, "none", {"none"})
Filled         == Field(List, "empty", {"empty"})
Kept(k)        == Field(k, k.zero, {})           \* default, always written
KeptAs(k, d)   == Field(k, d, {})                \* default = "...", always written
Terse(k)       == Field(k, k.zero, {k.zero})     \* skipped when it is the type's zero

-----------------------------------------------------------------------------
(* workload.rs: the Workload spec shared with Cosmonic Control.            *)

Workload == [apiVersion |-> Required, kind |-> Required,
             metadata |-> Required, spec |-> Required]

Metadata == [name |-> Required, namespace |-> KeptAs(Takes({"blank", "default", "v"}, "blank"), "default"),
             labels |-> Filled, annotations |-> Filled]

\* Mutant: one of Control's fields is not in the struct.
WorkloadSpec_NoKubernetes ==
    [hostInterfaces |-> Filled, components |-> RequiredAs(List), service |-> Optional,
     volumes |-> Filled, hostSelector |-> Filled, hostId |-> Optional,
     environment |-> Optional]

WorkloadSpec ==
    [hostInterfaces |-> Filled, components |-> RequiredAs(List), service |-> Optional,
     volumes |-> Filled, hostSelector |-> Filled, hostId |-> Optional,
     environment |-> Optional, kubernetes |-> Optional]

WorkloadService ==
    [name |-> Optional, image |-> Required, imagePullSecret |-> Optional,
     imagePullPolicy |-> Optional, maxRestarts |-> Optional, localResources |-> Optional]

HostInterface ==
    [name |-> Optional, namespace |-> Required, package |-> Required, version |-> Optional,
     interfaces |-> Filled, config |-> Filled, configFrom |-> Filled, secretFrom |-> Filled]

\* Mutant: a pool size of zero is left out of the file, like its neighbours' zeros.
Component_TersePool ==
    [name |-> Required, image |-> Required, imagePullSecret |-> Optional,
     imagePullPolicy |-> Optional, poolSize |-> Field(Number, "1", {"0"}),
     maxInvocations |-> Kept(Number), maxConcurrency |-> Kept(Number),
     reclaimWindowSeconds |-> Terse(Number), reclaimMinInstances |-> Terse(Number),
     localResources |-> Optional]

Component ==
    [name |-> Required, image |-> Required, imagePullSecret |-> Optional,
     imagePullPolicy |-> Optional, poolSize |-> KeptAs(Number, "1"),
     maxInvocations |-> Kept(Number), maxConcurrency |-> Kept(Number),
     reclaimWindowSeconds |-> Terse(Number), reclaimMinInstances |-> Terse(Number),
     localResources |-> Optional]

LocalResources ==
    [memoryLimitMb |-> Optional, cpuLimit |-> Optional, environment |-> Optional,
     config |-> Filled, volumeMounts |-> Filled, allowedHosts |-> Filled,
     allowedHostLoopbackPorts |-> Filled]

ConfigLayer == [config |-> Filled, configFrom |-> Filled, secretFrom |-> Filled]

Volume == [name |-> Required, ephemeral |-> Optional, hostPath |-> Optional]

VolumeMount == [name |-> Required, mountPath |-> Required, readOnly |-> Kept(Flag)]

-----------------------------------------------------------------------------
(* lib.rs: the operator's settings, each a file of the state directory.    *)

SignaturePolicy == [strict |-> Terse(Flag), registries |-> Kept(List)]

RegistryRule == [pattern |-> Required, require |-> Kept(Choice("None")),
                 warn_unsigned |-> Terse(Flag), keys |-> Filled]

EgressSettings ==
    [socket_egress |-> Kept(Choice("count")), allow_host_loopback |-> Terse(Flag),
     trust_roots |-> Kept(Choice("webpki")), extra_ca_bundles |-> Filled,
     max_connections |-> Optional, outbound_http_per_workload |-> Optional,
     outbound_sockets_per_workload |-> Optional, inbound_sockets_per_workload |-> Optional]

NatsBinding == [config |-> Filled, secret_from |-> Filled]

NatsSettings ==
    [servers |-> KeptAs(Takes({"blank", "local", "v"}, "blank"), "local"),
     workload_config |-> Kept(Choice("allow")), config |-> Filled, secret_from |-> Filled,
     bindings |-> Filled, host_owned_keys |-> Filled]

MirrorConfig == [mirrors |-> Kept(List)]

MirrorRule == [from |-> Required, to |-> Required, insecure |-> Terse(Flag)]

NamedConfig == [name |-> Required, config |-> Kept(List)]

LogConfig ==
    [otlp_enabled |-> Kept(Flag), otlp_endpoint |-> Optional, otlp_protocol |-> Optional,
     service_name |-> Optional, component_telemetry |-> Kept(Flag)]

LlmConfig ==
    [enabled |-> KeptAs(Flag, "true"), backend |-> Kept(Choice("ollama")),
     base_url |-> Kept(Words), default_model |-> Kept(Words),
     keep_alive_secs |-> Kept(Number), scale_to_zero |-> KeptAs(Flag, "true")]

LlmBinding ==
    [id |-> Kept(Words), model |-> Required, workload |-> Required, component |-> Kept(Words),
     namespace |-> Required, link_name |-> Kept(Words), alias |-> Kept(Words)]

HostConfig == [labels |-> Filled, managed_labels |-> Filled]

McpConfig == [enabled |-> KeptAs(Flag, "true"), autoRegister |-> Kept(Flag),
              command |-> Optional]

TelemetryConfig == [enabled |-> Kept(Flag), usage |-> Optional]

NotifyConfig == [enabled |-> KeptAs(Flag, "true"), limits |-> Kept(Choice("limits")),
                 components |-> Filled]

NotifyLimits ==
    [global_per_hour |-> KeptAs(Takes({"0", "60", "9"}, "0"), "60"),
     default_burst |-> KeptAs(Takes({"0", "3", "9"}, "0"), "3"),
     default_per_hour |-> KeptAs(Takes({"0", "12", "9"}, "0"), "12")]

NotifyComponentPolicy == [allowed |-> KeptAs(Flag, "true"), per_hour |-> Optional]

\* The inspect cache: what was read from an image, by digest.
InspectResponse ==
    [reference |-> Required, digest |-> Required, component_digest |-> Terse(Words),
     size |-> Required, world |-> Optional, imports |-> Kept(List), exports |-> Kept(List),
     language |-> Optional, producer |-> Optional]

-----------------------------------------------------------------------------
(* What a struct is when nothing was read: its Default impl.               *)

Derived(table) == [f \in DOMAIN table |-> table[f].zero]

DerivesDefault ==
    {"Metadata", "WorkloadSpec", "HostInterface", "LocalResources", "ConfigLayer",
     "EgressSettings", "NatsBinding", "MirrorConfig", "LogConfig", "HostConfig",
     "TelemetryConfig"}

NatsDefault == [Derived(NatsSettings) EXCEPT !.servers = "local"]

LlmDefault == [Derived(LlmConfig) EXCEPT !.enabled = "true", !.scale_to_zero = "true"]

McpDefault == [Derived(McpConfig) EXCEPT !.enabled = "true"]

NotifyDefault == [Derived(NotifyConfig) EXCEPT !.enabled = "true"]

LimitsDefault ==
    [global_per_hour |-> "60", default_burst |-> "3", default_per_hour |-> "12"]

\* Mutant: the impl is derived.
PolicyDefault_Derived == Derived(NotifyComponentPolicy)

PolicyDefault == [Derived(NotifyComponentPolicy) EXCEPT !.allowed = "true"]

-----------------------------------------------------------------------------
Structs ==
    {"Workload", "Metadata", "WorkloadSpec", "WorkloadService", "HostInterface",
     "Component", "LocalResources", "ConfigLayer", "Volume", "VolumeMount",
     "SignaturePolicy", "RegistryRule", "EgressSettings", "NatsBinding", "NatsSettings",
     "MirrorConfig", "MirrorRule", "NamedConfig", "LogConfig", "LlmConfig",
     "LlmBinding", "HostConfig", "McpConfig", "TelemetryConfig", "NotifyConfig",
     "NotifyLimits", "NotifyComponentPolicy", "InspectResponse"}

Schema ==
    [t \in Structs |->
        CASE t = "Workload" -> Workload [] t = "Metadata" -> Metadata
          [] t = "WorkloadSpec" -> WorkloadSpec
          [] t = "WorkloadService" -> WorkloadService
          [] t = "HostInterface" -> HostInterface [] t = "Component" -> Component
          [] t = "LocalResources" -> LocalResources [] t = "ConfigLayer" -> ConfigLayer
          [] t = "Volume" -> Volume [] t = "VolumeMount" -> VolumeMount
          [] t = "SignaturePolicy" -> SignaturePolicy
          [] t = "RegistryRule" -> RegistryRule
          [] t = "EgressSettings" -> EgressSettings [] t = "NatsBinding" -> NatsBinding
          [] t = "NatsSettings" -> NatsSettings [] t = "MirrorConfig" -> MirrorConfig
          [] t = "MirrorRule" -> MirrorRule [] t = "NamedConfig" -> NamedConfig
          [] t = "LogConfig" -> LogConfig [] t = "LlmConfig" -> LlmConfig
          [] t = "LlmBinding" -> LlmBinding [] t = "HostConfig" -> HostConfig
          [] t = "McpConfig" -> McpConfig [] t = "TelemetryConfig" -> TelemetryConfig
          [] t = "NotifyConfig" -> NotifyConfig [] t = "NotifyLimits" -> NotifyLimits
          [] t = "NotifyComponentPolicy" -> NotifyComponentPolicy
          [] t = "InspectResponse" -> InspectResponse]

\* The structs with a Default written out, each with it.
Explicit ==
    [NatsSettings |-> NatsDefault, LlmConfig |-> LlmDefault, McpConfig |-> McpDefault,
     NotifyConfig |-> NotifyDefault, NotifyLimits |-> LimitsDefault,
     NotifyComponentPolicy |-> PolicyDefault]

HasDefault(t) == t \in DerivesDefault \cup DOMAIN Explicit

DefaultOf(t) == IF t \in DerivesDefault THEN Derived(Schema[t]) ELSE Explicit[t]

\* `alias`: another name a key of the file may have.
Named(t, key) == IF t = "McpConfig" /\ key = "auto_register" THEN "autoRegister" ELSE key

\* Fields the daemon fills in when it answers: from the machine layer, or with the path of
\* its own binary.  A client's value is ignored and the user's file has none.
ReadOnly(t) ==
    CASE t = "HostConfig" -> {"managed_labels"}
      [] t = "McpConfig"  -> {"command"}
      [] OTHER            -> {}

\* Fields the store sets when it creates the document, ignored in what a client sends.
Assigned(t) == IF t = "LlmBinding" THEN {"id"} ELSE {}

\* Keys that documents written elsewhere hold and that must survive: the fields of a
\* Workload written by Control, and the mcp.yaml of a version before camelCase.
Promised(t) ==
    CASE t = "Metadata"        -> {"name", "namespace", "labels", "annotations"}
      [] t = "WorkloadSpec"    -> {"hostSelector", "hostId", "environment", "kubernetes",
                                   "hostInterfaces", "components", "service", "volumes"}
      [] t = "HostInterface"   -> {"name", "namespace", "package", "interfaces", "config"}
      [] t = "Component"       -> {"name", "image", "imagePullSecret", "imagePullPolicy",
                                   "poolSize", "localResources"}
      [] t = "LocalResources"  -> {"config", "allowedHosts", "environment"}
      [] t = "WorkloadService" -> {"image", "imagePullSecret", "maxRestarts"}
      [] t = "Volume"          -> {"name", "ephemeral"}
      [] t = "McpConfig"       -> {"auto_register"}
      [] OTHER                 -> {}
=============================================================================
