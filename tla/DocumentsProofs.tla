-------------------------- MODULE DocumentsProofs ---------------------------
(***************************************************************************)
(* Documents, for every set of structs and any number of puts: the file    *)
(* always means the document the daemon last accepted.  It rests on one    *)
(* fact about the tables, that a field's skipped value is the value its    *)
(* missing key loads as; from it follows that Load undoes Save, and the    *)
(* rest is a short invariant.                                              *)
(***************************************************************************)
EXTENDS Documents, TLAPS

\* What the round trip needs of a field: what is skipped is what a missing key means, a
\* required field is always written, and the document's null is no value of its own.
Sound(field) ==
    /\ field.omitted \subseteq {field.absent}
    /\ field.absent = Missing => field.omitted = {}
    /\ field.absent # Missing => field.absent \in field.values
    /\ "none" \in field.values => "none" \in field.omitted
    /\ field.zero \in field.values
    /\ "null" \notin field.values /\ Missing \notin field.values

SoundTable(table) == \A f \in DOMAIN table : Sound(table[f])

(* The types of fields, but for Option, hold neither null nor none.        *)
Plain(k) == k.zero \in k.values /\ k.values \cap {"none", "null", Missing} = {}

\* The field types the tables use are plain.
LEMMA PlainTypes ==
    /\ Plain(Words) /\ Plain(Flag) /\ Plain(Number) /\ Plain(List)
    /\ \A d \in STRING \ {"none", "null", Missing} : Plain(Choice(d))
<1>1. Plain(Words)   BY DEF Plain, Words, Takes, Missing
<1>2. Plain(Flag)    BY DEF Plain, Flag, Takes, Missing
<1>3. Plain(Number)  BY DEF Plain, Number, Takes, Missing
<1>4. Plain(List)    BY DEF Plain, List, Takes, Missing
<1>5. \A d \in STRING \ {"none", "null", Missing} : Plain(Choice(d))
  BY DEF Plain, Choice, Takes, Missing
<1> QED  BY <1>1, <1>2, <1>3, <1>4, <1>5

\* What the serde attributes used here have in common: a field that is skipped at a value
\* is one whose missing key loads as that value.
LEMMA SoundRules ==
    /\ Sound(Required) /\ Sound(Optional) /\ Sound(Filled)
    /\ \A k : Plain(k) => Sound(RequiredAs(k)) /\ Sound(Kept(k)) /\ Sound(Terse(k))
    /\ \A k, d : Plain(k) /\ d \in k.values => Sound(KeptAs(k, d))
<1>1. Sound(Required)
  BY PlainTypes DEF Sound, Required, Field, Plain
<1>2. Sound(Optional)
  BY DEF Sound, Optional, Field, Maybe, Takes, Missing
<1>3. Sound(Filled)
  BY DEF Sound, Filled, Field, List, Takes, Missing
<1>4. ASSUME NEW k, Plain(k) PROVE Sound(RequiredAs(k)) /\ Sound(Kept(k)) /\ Sound(Terse(k))
  <2>1. Sound(RequiredAs(k))  BY <1>4 DEF Sound, RequiredAs, Field, Plain
  <2>2. Sound(Kept(k))        BY <1>4 DEF Sound, Kept, Field, Plain
  <2>3. Sound(Terse(k))       BY <1>4 DEF Sound, Terse, Field, Plain
  <2> QED  BY <2>1, <2>2, <2>3
<1>5. ASSUME NEW k, NEW d, Plain(k), d \in k.values PROVE Sound(KeptAs(k, d))
  BY <1>5 DEF Sound, KeptAs, Field, Plain
<1> QED  BY <1>1, <1>2, <1>3, <1>4, <1>5

\* Every table of workload.rs is sound.
LEMMA WorkloadTables ==
    /\ SoundTable(Workload)
    /\ SoundTable(Metadata)
    /\ SoundTable(WorkloadSpec)
    /\ SoundTable(WorkloadService)
    /\ SoundTable(HostInterface)
    /\ SoundTable(Component)
    /\ SoundTable(LocalResources)
    /\ SoundTable(ConfigLayer)
    /\ SoundTable(Volume)
    /\ SoundTable(VolumeMount)
<1>1. SoundTable(Workload)
  BY SoundRules, PlainTypes DEF SoundTable, Workload
<1>2. SoundTable(Metadata)
  <2>1. Sound(KeptAs(Takes({"blank", "default", "v"}, "blank"), "default"))
    BY SoundRules DEF Plain, Takes, Missing
  <2> QED  BY <2>1, SoundRules, PlainTypes DEF SoundTable, Metadata
<1>3. SoundTable(WorkloadSpec)
  BY SoundRules, PlainTypes DEF SoundTable, WorkloadSpec
<1>4. SoundTable(WorkloadService)
  BY SoundRules, PlainTypes DEF SoundTable, WorkloadService
<1>5. SoundTable(HostInterface)
  BY SoundRules, PlainTypes DEF SoundTable, HostInterface
<1>6. SoundTable(Component)
  BY SoundRules, PlainTypes DEF SoundTable, Component, Number, Takes
<1>7. SoundTable(LocalResources)
  BY SoundRules, PlainTypes DEF SoundTable, LocalResources
<1>8. SoundTable(ConfigLayer)
  BY SoundRules, PlainTypes DEF SoundTable, ConfigLayer
<1>9. SoundTable(Volume)
  BY SoundRules, PlainTypes DEF SoundTable, Volume
<1>10. SoundTable(VolumeMount)
  BY SoundRules, PlainTypes DEF SoundTable, VolumeMount
<1> QED  BY <1>1, <1>2, <1>3, <1>4, <1>5, <1>6, <1>7, <1>8, <1>9, <1>10

\* Every table of lib.rs is sound.
LEMMA SettingsTables ==
    /\ SoundTable(SignaturePolicy)
    /\ SoundTable(RegistryRule)
    /\ SoundTable(EgressSettings)
    /\ SoundTable(NatsBinding)
    /\ SoundTable(NatsSettings)
    /\ SoundTable(MirrorConfig)
    /\ SoundTable(MirrorRule)
    /\ SoundTable(NamedConfig)
    /\ SoundTable(LogConfig)
    /\ SoundTable(LlmConfig)
    /\ SoundTable(LlmBinding)
    /\ SoundTable(HostConfig)
    /\ SoundTable(McpConfig)
    /\ SoundTable(TelemetryConfig)
    /\ SoundTable(NotifyConfig)
    /\ SoundTable(NotifyLimits)
    /\ SoundTable(NotifyComponentPolicy)
    /\ SoundTable(InspectResponse)
<1>1. SoundTable(SignaturePolicy)
  BY SoundRules, PlainTypes DEF SoundTable, SignaturePolicy
<1>2. SoundTable(RegistryRule)
  <2>1. Plain(Choice("None"))
    BY DEF Plain, Choice, Takes, Missing
  <2> QED  BY <2>1, SoundRules, PlainTypes DEF SoundTable, RegistryRule
<1>3. SoundTable(EgressSettings)
  <2>1. Plain(Choice("count"))
    BY DEF Plain, Choice, Takes, Missing
  <2>2. Plain(Choice("webpki"))
    BY DEF Plain, Choice, Takes, Missing
  <2> QED  BY <2>1, <2>2, SoundRules, PlainTypes DEF SoundTable, EgressSettings
<1>4. SoundTable(NatsBinding)
  BY SoundRules, PlainTypes DEF SoundTable, NatsBinding
<1>5. SoundTable(NatsSettings)
  <2>1. Plain(Choice("allow"))
    BY DEF Plain, Choice, Takes, Missing
  <2>2. Sound(KeptAs(Takes({"blank", "local", "v"}, "blank"), "local"))
    BY SoundRules DEF Plain, Takes, Missing
  <2> QED  BY <2>1, <2>2, SoundRules, PlainTypes DEF SoundTable, NatsSettings
<1>6. SoundTable(MirrorConfig)
  BY SoundRules, PlainTypes DEF SoundTable, MirrorConfig
<1>7. SoundTable(MirrorRule)
  BY SoundRules, PlainTypes DEF SoundTable, MirrorRule
<1>8. SoundTable(NamedConfig)
  BY SoundRules, PlainTypes DEF SoundTable, NamedConfig
<1>9. SoundTable(LogConfig)
  BY SoundRules, PlainTypes DEF SoundTable, LogConfig
<1>10. SoundTable(LlmConfig)
  <2>1. Plain(Choice("ollama"))
    BY DEF Plain, Choice, Takes, Missing
  <2>2. Sound(KeptAs(Flag, "true"))
    BY SoundRules, PlainTypes DEF Flag, Takes
  <2> QED  BY <2>1, <2>2, SoundRules, PlainTypes DEF SoundTable, LlmConfig
<1>11. SoundTable(LlmBinding)
  BY SoundRules, PlainTypes DEF SoundTable, LlmBinding
<1>12. SoundTable(HostConfig)
  BY SoundRules, PlainTypes DEF SoundTable, HostConfig
<1>13. SoundTable(McpConfig)
  BY SoundRules, PlainTypes DEF SoundTable, McpConfig, Flag, Takes
<1>14. SoundTable(TelemetryConfig)
  BY SoundRules, PlainTypes DEF SoundTable, TelemetryConfig
<1>15. SoundTable(NotifyConfig)
  <2>1. Plain(Choice("limits"))
    BY DEF Plain, Choice, Takes, Missing
  <2>2. Sound(KeptAs(Flag, "true"))
    BY SoundRules, PlainTypes DEF Flag, Takes
  <2> QED  BY <2>1, <2>2, SoundRules, PlainTypes DEF SoundTable, NotifyConfig
<1>16. SoundTable(NotifyLimits)
  <2>1. Sound(KeptAs(Takes({"0", "60", "9"}, "0"), "60"))
    BY SoundRules DEF Plain, Takes, Missing
  <2>2. Sound(KeptAs(Takes({"0", "3", "9"}, "0"), "3"))
    BY SoundRules DEF Plain, Takes, Missing
  <2>3. Sound(KeptAs(Takes({"0", "12", "9"}, "0"), "12"))
    BY SoundRules DEF Plain, Takes, Missing
  <2> QED  BY <2>1, <2>2, <2>3, SoundRules, PlainTypes DEF SoundTable, NotifyLimits
<1>17. SoundTable(NotifyComponentPolicy)
  BY SoundRules, PlainTypes DEF SoundTable, NotifyComponentPolicy, Flag, Takes
<1>18. SoundTable(InspectResponse)
  BY SoundRules, PlainTypes DEF SoundTable, InspectResponse
<1> QED  BY <1>1, <1>2, <1>3, <1>4, <1>5, <1>6, <1>7, <1>8, <1>9, <1>10, <1>11, <1>12, <1>13, <1>14, <1>15, <1>16, <1>17, <1>18

-----------------------------------------------------------------------------
(* serde's round trip.                                                     *)

\* Each name has its table.
LEMMA SchemaOf ==
    /\ DOMAIN Schema = Structs
    /\ Schema["Workload"] = Workload
    /\ Schema["Metadata"] = Metadata
    /\ Schema["WorkloadSpec"] = WorkloadSpec
    /\ Schema["WorkloadService"] = WorkloadService
    /\ Schema["HostInterface"] = HostInterface
    /\ Schema["Component"] = Component
    /\ Schema["LocalResources"] = LocalResources
    /\ Schema["ConfigLayer"] = ConfigLayer
    /\ Schema["Volume"] = Volume
    /\ Schema["VolumeMount"] = VolumeMount
    /\ Schema["SignaturePolicy"] = SignaturePolicy
    /\ Schema["RegistryRule"] = RegistryRule
    /\ Schema["EgressSettings"] = EgressSettings
    /\ Schema["NatsBinding"] = NatsBinding
    /\ Schema["NatsSettings"] = NatsSettings
    /\ Schema["MirrorConfig"] = MirrorConfig
    /\ Schema["MirrorRule"] = MirrorRule
    /\ Schema["NamedConfig"] = NamedConfig
    /\ Schema["LogConfig"] = LogConfig
    /\ Schema["LlmConfig"] = LlmConfig
    /\ Schema["LlmBinding"] = LlmBinding
    /\ Schema["HostConfig"] = HostConfig
    /\ Schema["McpConfig"] = McpConfig
    /\ Schema["TelemetryConfig"] = TelemetryConfig
    /\ Schema["NotifyConfig"] = NotifyConfig
    /\ Schema["NotifyLimits"] = NotifyLimits
    /\ Schema["NotifyComponentPolicy"] = NotifyComponentPolicy
    /\ Schema["InspectResponse"] = InspectResponse
BY DEF Schema, Structs

\* The document of any struct is described by a sound table.
LEMMA SchemaSound == \A t \in DOMAIN Schema : SoundTable(Schema[t])
BY WorkloadTables, SettingsTables, SchemaOf DEF Structs

\* A field is named by its own name.
LEMMA OwnName == \A t \in DOMAIN Schema : \A f \in Fields(t) : Named(t, f) = f
<1> SUFFICES ASSUME NEW t \in DOMAIN Schema, NEW f \in Fields(t) PROVE Named(t, f) = f
  OBVIOUS
<1>1. CASE t = "McpConfig"
  <2>1. Schema[t] = McpConfig  BY <1>1 DEF Schema
  <2>2. f # "auto_register"    BY <2>1 DEF Fields, McpConfig
  <2> QED  BY <2>2 DEF Named
<1>2. CASE t # "McpConfig"
  BY <1>2 DEF Named
<1> QED  BY <1>1, <1>2

\* A document that parses has a field under one key.
LEMMA OneKeyPerField ==
    ASSUME NEW t, NEW doc, Parses(t, doc),
           NEW k \in DOMAIN doc, NEW l \in DOMAIN doc, Named(t, k) = Named(t, l)
    PROVE  k = l
<1>1. CASE Named(t, k) = k /\ Named(t, l) = l
  BY <1>1
<1>2. CASE Named(t, k) # k
  <2>1. Named(t, l) # l  BY <1>2 DEF Parses
  <2> QED  BY <1>2, <2>1 DEF Named
<1>3. CASE Named(t, l) # l
  <2>1. Named(t, k) # k  BY <1>3 DEF Parses
  <2> QED  BY <1>3, <2>1 DEF Named
<1> QED  BY <1>1, <1>2, <1>3

\* What Load makes of a document that parses is a value of the struct.
LEMMA LoadedValue ==
    ASSUME NEW t \in DOMAIN Schema, NEW doc, Parses(t, doc)
    PROVE  Value(t, Load(t, doc))
<1> SUFFICES ASSUME NEW f \in Fields(t) PROVE Load(t, doc)[f] \in Schema[t][f].values
  BY DEF Value, Load
<1>1. Sound(Schema[t][f])
  BY SchemaSound DEF SoundTable, Fields
<1>2. CASE KeysFor(t, doc, f) = {}
  <2>1. Schema[t][f].absent # Missing
    BY <1>2 DEF Parses, RequiredFields
  <2> QED  BY <1>1, <1>2, <2>1 DEF Load, Sound
<1>3. CASE KeysFor(t, doc, f) # {}
  <2> DEFINE k == CHOOSE k \in KeysFor(t, doc, f) : TRUE
  <2>1. k \in DOMAIN doc /\ Named(t, k) = f
    BY <1>3 DEF KeysFor
  <2>2. Accepts(Schema[t][f], doc[k])
    BY <2>1 DEF Parses
  <2>3. Load(t, doc)[f] = Read(doc[k])
    BY <1>3 DEF Load
  <2> HIDE DEF k
  <2>4. Read(doc[k]) \in Schema[t][f].values
    BY <1>1, <2>2 DEF Read, Accepts, Sound
  <2> QED  BY <2>3, <2>4
<1> QED  BY <1>2, <1>3

\* Reading one field of a document whose keys are fields.
LEMMA LoadField ==
    ASSUME NEW t \in DOMAIN Schema, NEW doc, NEW f \in Fields(t), DOMAIN doc \subseteq Fields(t)
    PROVE  Load(t, doc)[f] = IF f \in DOMAIN doc THEN Read(doc[f]) ELSE Schema[t][f].absent
<1>1. KeysFor(t, doc, f) = DOMAIN doc \cap {f}
  BY OwnName DEF KeysFor
<1>2. CASE f \in DOMAIN doc
  <2>1. KeysFor(t, doc, f) = {f}  BY <1>1, <1>2
  <2>2. (CHOOSE k \in {f} : TRUE) = f  OBVIOUS
  <2> QED  BY <1>2, <2>1, <2>2 DEF Load
<1>3. CASE f \notin DOMAIN doc
  <2>1. KeysFor(t, doc, f) = {}  BY <1>1, <1>3
  <2> QED  BY <1>3, <2>1 DEF Load
<1> QED  BY <1>2, <1>3

\* Load undoes Save: what was skipped is what its missing key means.
LEMMA RoundTrip ==
    ASSUME NEW t \in DOMAIN Schema, NEW v, Value(t, v)
    PROVE  \A f \in Fields(t) : Load(t, Save(t, v))[f] = v[f]
<1> SUFFICES ASSUME NEW f \in Fields(t) PROVE Load(t, Save(t, v))[f] = v[f]
  OBVIOUS
<1>1. Sound(Schema[t][f]) /\ v[f] \in Schema[t][f].values
  BY SchemaSound DEF SoundTable, Fields, Value
<1>2. DOMAIN Save(t, v) = Written(t, v) /\ Written(t, v) \subseteq Fields(t)
  BY DEF Save, Written
<1>3. Load(t, Save(t, v))[f] =
        IF f \in Written(t, v) THEN Read(Save(t, v)[f]) ELSE Schema[t][f].absent
  BY <1>2, LoadField
<1>4. CASE f \in Written(t, v)
  <2>1. Save(t, v)[f] = v[f]  BY <1>4 DEF Save
  <2>2. v[f] # "null"         BY <1>1 DEF Sound
  <2> QED  BY <1>3, <1>4, <2>1, <2>2 DEF Read
<1>5. CASE f \notin Written(t, v)
  <2>1. v[f] \in Schema[t][f].omitted  BY <1>5 DEF Written
  <2> QED  BY <1>1, <1>3, <1>5, <2>1 DEF Sound
<1> QED  BY <1>4, <1>5

\* What is written parses.
LEMMA SavedParses ==
    ASSUME NEW t \in DOMAIN Schema, NEW v, Value(t, v)
    PROVE  Parses(t, Save(t, v))
<1>1. DOMAIN Save(t, v) = Written(t, v) /\ Written(t, v) \subseteq Fields(t)
  BY DEF Save, Written
<1>2. ASSUME NEW f \in RequiredFields(t) PROVE KeysFor(t, Save(t, v), f) # {}
  <2>1. f \in Fields(t) /\ Sound(Schema[t][f]) /\ Schema[t][f].absent = Missing
    BY <1>2, SchemaSound DEF RequiredFields, SoundTable, Fields
  <2>2. f \in Written(t, v)  BY <2>1 DEF Written, Sound
  <2> QED  BY <1>1, <2>1, <2>2, OwnName DEF KeysFor
<1>3. \A k \in DOMAIN Save(t, v) : Named(t, k) = k
  BY <1>1, OwnName
<1>4. ASSUME NEW k \in DOMAIN Save(t, v) PROVE Accepts(Schema[t][Named(t, k)], Save(t, v)[k])
  <2>1. k \in Fields(t) /\ k \in Written(t, v) /\ Named(t, k) = k /\ Save(t, v)[k] = v[k]
    BY <1>1, <1>4, OwnName DEF Save
  <2>2. Sound(Schema[t][k]) /\ v[k] \in Schema[t][k].values
    BY <2>1, SchemaSound DEF SoundTable, Fields, Value
  <2>3. v[k] \notin Schema[t][k].omitted  BY <2>1 DEF Written
  <2> QED  BY <2>1, <2>2, <2>3 DEF Accepts, Sound
<1> QED  BY <1>2, <1>3, <1>4 DEF Parses

-----------------------------------------------------------------------------
(* Default impls.                                                          *)

\* A table and a Default that say the same of every missing key.
Agree(table, default) ==
    /\ DOMAIN default = DOMAIN table
    /\ \A f \in DOMAIN table : table[f].absent = default[f] /\ default[f] \in table[f].values

\* The structs with a Default that are parts of a manifest: some of their fields are
\* required.
PartsOfAManifest == {"Metadata", "WorkloadSpec", "HostInterface"}

\* Where Default is derived and nothing is required, `#[serde(default)]` gives each field
\* the same value.
LEMMA DerivedAgree ==
    \A t \in DerivesDefault \ PartsOfAManifest : Agree(Schema[t], Derived(Schema[t]))
<1> USE DEF Derived, Agree, Takes, Words, Flag, Number, List, Maybe, Choice, Missing, Field, Optional, Filled,
      Kept, KeptAs, Terse
<1>1. Agree(LocalResources, Derived(LocalResources))
  BY DEF LocalResources
<1>2. Agree(ConfigLayer, Derived(ConfigLayer))
  BY DEF ConfigLayer
<1>3. Agree(EgressSettings, Derived(EgressSettings))
  BY DEF EgressSettings
<1>4. Agree(NatsBinding, Derived(NatsBinding))
  BY DEF NatsBinding
<1>5. Agree(MirrorConfig, Derived(MirrorConfig))
  BY DEF MirrorConfig
<1>6. Agree(LogConfig, Derived(LogConfig))
  BY DEF LogConfig
<1>7. Agree(HostConfig, Derived(HostConfig))
  BY DEF HostConfig
<1>8. Agree(TelemetryConfig, Derived(TelemetryConfig))
  BY DEF TelemetryConfig
<1> QED  BY <1>1, <1>2, <1>3, <1>4, <1>5, <1>6, <1>7, <1>8, SchemaOf DEF DerivesDefault, PartsOfAManifest

\* Where it is written out, it repeats every `default = "..."` of its struct.
LEMMA ExplicitAgree == \A t \in DOMAIN Explicit : Agree(Schema[t], Explicit[t])
<1> USE DEF Derived, Agree, Takes, Words, Flag, Number, List, Maybe, Choice, Missing, Field, Optional, Filled,
      Kept, KeptAs, Terse
<1>1. Agree(NatsSettings, NatsDefault)
  <2>1. DOMAIN NatsSettings = {"servers", "workload_config", "config", "secret_from", "bindings", "host_owned_keys"}
    BY DEF NatsSettings
  <2>2. DOMAIN NatsDefault = DOMAIN NatsSettings
    BY DEF NatsDefault
  <2>3. NatsSettings.servers.absent = NatsDefault.servers /\ NatsDefault.servers \in NatsSettings.servers.values
    BY <2>1 DEF NatsSettings, NatsDefault
  <2>4. NatsSettings.workload_config.absent = NatsDefault.workload_config /\ NatsDefault.workload_config \in NatsSettings.workload_config.values
    BY <2>1 DEF NatsSettings, NatsDefault
  <2>5. NatsSettings.config.absent = NatsDefault.config /\ NatsDefault.config \in NatsSettings.config.values
    BY <2>1 DEF NatsSettings, NatsDefault
  <2>6. NatsSettings.secret_from.absent = NatsDefault.secret_from /\ NatsDefault.secret_from \in NatsSettings.secret_from.values
    BY <2>1 DEF NatsSettings, NatsDefault
  <2>7. NatsSettings.bindings.absent = NatsDefault.bindings /\ NatsDefault.bindings \in NatsSettings.bindings.values
    BY <2>1 DEF NatsSettings, NatsDefault
  <2>8. NatsSettings.host_owned_keys.absent = NatsDefault.host_owned_keys /\ NatsDefault.host_owned_keys \in NatsSettings.host_owned_keys.values
    BY <2>1 DEF NatsSettings, NatsDefault
  <2> HIDE DEF Derived, Takes, Field, Optional, Filled, Kept, KeptAs
  <2> QED  BY <2>1, <2>2, <2>3, <2>4, <2>5, <2>6, <2>7, <2>8 DEF Agree
<1>2. Agree(LlmConfig, LlmDefault)
  <2>1. DOMAIN LlmConfig = {"enabled", "backend", "base_url", "default_model", "keep_alive_secs", "scale_to_zero"}
    BY DEF LlmConfig
  <2>2. DOMAIN LlmDefault = DOMAIN LlmConfig
    BY DEF LlmDefault
  <2>3. LlmConfig.enabled.absent = LlmDefault.enabled /\ LlmDefault.enabled \in LlmConfig.enabled.values
    BY <2>1 DEF LlmConfig, LlmDefault
  <2>4. LlmConfig.backend.absent = LlmDefault.backend /\ LlmDefault.backend \in LlmConfig.backend.values
    BY <2>1 DEF LlmConfig, LlmDefault
  <2>5. LlmConfig.base_url.absent = LlmDefault.base_url /\ LlmDefault.base_url \in LlmConfig.base_url.values
    BY <2>1 DEF LlmConfig, LlmDefault
  <2>6. LlmConfig.default_model.absent = LlmDefault.default_model /\ LlmDefault.default_model \in LlmConfig.default_model.values
    BY <2>1 DEF LlmConfig, LlmDefault
  <2>7. LlmConfig.keep_alive_secs.absent = LlmDefault.keep_alive_secs /\ LlmDefault.keep_alive_secs \in LlmConfig.keep_alive_secs.values
    BY <2>1 DEF LlmConfig, LlmDefault
  <2>8. LlmConfig.scale_to_zero.absent = LlmDefault.scale_to_zero /\ LlmDefault.scale_to_zero \in LlmConfig.scale_to_zero.values
    BY <2>1 DEF LlmConfig, LlmDefault
  <2> HIDE DEF Derived, Takes, Field, Optional, Filled, Kept, KeptAs
  <2> QED  BY <2>1, <2>2, <2>3, <2>4, <2>5, <2>6, <2>7, <2>8 DEF Agree
<1>3. Agree(McpConfig, McpDefault)
  <2>1. DOMAIN McpConfig = {"enabled", "autoRegister", "command"}
    BY DEF McpConfig
  <2>2. DOMAIN McpDefault = DOMAIN McpConfig
    BY DEF McpDefault
  <2>3. McpConfig.enabled.absent = McpDefault.enabled /\ McpDefault.enabled \in McpConfig.enabled.values
    BY <2>1 DEF McpConfig, McpDefault
  <2>4. McpConfig.autoRegister.absent = McpDefault.autoRegister /\ McpDefault.autoRegister \in McpConfig.autoRegister.values
    BY <2>1 DEF McpConfig, McpDefault
  <2>5. McpConfig.command.absent = McpDefault.command /\ McpDefault.command \in McpConfig.command.values
    BY <2>1 DEF McpConfig, McpDefault
  <2> HIDE DEF Derived, Takes, Field, Optional, Filled, Kept, KeptAs
  <2> QED  BY <2>1, <2>2, <2>3, <2>4, <2>5 DEF Agree
<1>4. Agree(NotifyConfig, NotifyDefault)
  <2>1. DOMAIN NotifyConfig = {"enabled", "limits", "components"}
    BY DEF NotifyConfig
  <2>2. DOMAIN NotifyDefault = DOMAIN NotifyConfig
    BY DEF NotifyDefault
  <2>3. NotifyConfig.enabled.absent = NotifyDefault.enabled /\ NotifyDefault.enabled \in NotifyConfig.enabled.values
    BY <2>1 DEF NotifyConfig, NotifyDefault
  <2>4. NotifyConfig.limits.absent = NotifyDefault.limits /\ NotifyDefault.limits \in NotifyConfig.limits.values
    BY <2>1 DEF NotifyConfig, NotifyDefault
  <2>5. NotifyConfig.components.absent = NotifyDefault.components /\ NotifyDefault.components \in NotifyConfig.components.values
    BY <2>1 DEF NotifyConfig, NotifyDefault
  <2> HIDE DEF Derived, Takes, Field, Optional, Filled, Kept, KeptAs
  <2> QED  BY <2>1, <2>2, <2>3, <2>4, <2>5 DEF Agree
<1>5. Agree(NotifyLimits, LimitsDefault)
  BY DEF NotifyLimits, LimitsDefault
<1>6. Agree(NotifyComponentPolicy, PolicyDefault)
  <2>1. DOMAIN NotifyComponentPolicy = {"allowed", "per_hour"}
    BY DEF NotifyComponentPolicy
  <2>2. DOMAIN PolicyDefault = DOMAIN NotifyComponentPolicy
    BY DEF PolicyDefault
  <2>3. NotifyComponentPolicy.allowed.absent = PolicyDefault.allowed /\ PolicyDefault.allowed \in NotifyComponentPolicy.allowed.values
    BY <2>1 DEF NotifyComponentPolicy, PolicyDefault
  <2>4. NotifyComponentPolicy.per_hour.absent = PolicyDefault.per_hour /\ PolicyDefault.per_hour \in NotifyComponentPolicy.per_hour.values
    BY <2>1 DEF NotifyComponentPolicy, PolicyDefault
  <2> HIDE DEF Derived, Takes, Field, Optional, Filled, Kept, KeptAs
  <2> QED  BY <2>1, <2>2, <2>3, <2>4 DEF Agree
<1> QED  BY <1>1, <1>2, <1>3, <1>4, <1>5, <1>6, SchemaOf DEF Explicit

\* Where a part of a manifest may be missing, it says the same too, but for the namespace.
LEMMA PartsAgree ==
    ASSUME NEW t \in PartsOfAManifest, NEW f \in Fields(t) \ RequiredFields(t)
    PROVE  Schema[t][f].absent = DefaultOf(t)[f] <=> <<t, f>> \notin Divergent
<1> USE DEF Takes, Words, List, Maybe, Missing, Field, Required, RequiredAs, Optional, Filled,
            KeptAs
<1>1. CASE t = "Metadata"
  <2>1. Schema[t] = Metadata /\ DefaultOf(t) = Derived(Metadata)
    BY <1>1, SchemaOf DEF DefaultOf, DerivesDefault
  <2>2. DOMAIN Metadata =
          {"name", "namespace", "labels", "annotations"}
    BY DEF Metadata
  <2>3. Metadata.name.absent = Missing
    BY DEF Metadata
  <2>4. f \in {"namespace", "labels", "annotations"}
    BY <2>1, <2>2, <2>3 DEF RequiredFields, Fields
  <2>5. DefaultOf(t)[f] = Metadata[f].zero
    BY <2>1, <2>2, <2>4 DEF Derived
  <2>6. CASE f = "namespace"
    <3>1. Metadata.namespace.absent = "default" /\ Metadata.namespace.zero = "blank"
      BY DEF Metadata
    <3> QED  BY <1>1, <2>1, <2>5, <2>6, <3>1 DEF Divergent
  <2>7. CASE f # "namespace"
    <3>1. /\ Metadata.labels.absent = Metadata.labels.zero
          /\ Metadata.annotations.absent = Metadata.annotations.zero
      BY DEF Metadata
    <3> QED  BY <2>1, <2>4, <2>5, <2>7, <3>1 DEF Divergent
  <2> QED  BY <2>6, <2>7
<1>2. CASE t = "WorkloadSpec"
  <2>1. Schema[t] = WorkloadSpec /\ DefaultOf(t) = Derived(WorkloadSpec)
    BY <1>2, SchemaOf DEF DefaultOf, DerivesDefault
  <2>2. DOMAIN WorkloadSpec =
          {"hostInterfaces", "components", "service", "volumes", "hostSelector",
           "hostId", "environment", "kubernetes"}
    BY DEF WorkloadSpec
  <2>3. WorkloadSpec.components.absent = Missing
    BY DEF WorkloadSpec
  <2>4. f \in {"hostInterfaces", "service", "volumes", "hostSelector", "hostId",
             "environment", "kubernetes"}
    BY <2>1, <2>2, <2>3 DEF RequiredFields, Fields
  <2>5. DefaultOf(t)[f] = WorkloadSpec[f].zero
    BY <2>1, <2>2, <2>4 DEF Derived
  <2>6. /\ WorkloadSpec.hostInterfaces.absent = WorkloadSpec.hostInterfaces.zero
        /\ WorkloadSpec.service.absent = WorkloadSpec.service.zero
        /\ WorkloadSpec.volumes.absent = WorkloadSpec.volumes.zero
        /\ WorkloadSpec.hostSelector.absent = WorkloadSpec.hostSelector.zero
        /\ WorkloadSpec.hostId.absent = WorkloadSpec.hostId.zero
        /\ WorkloadSpec.environment.absent = WorkloadSpec.environment.zero
        /\ WorkloadSpec.kubernetes.absent = WorkloadSpec.kubernetes.zero
    BY DEF WorkloadSpec
  <2> QED  BY <1>2, <2>1, <2>4, <2>5, <2>6 DEF Divergent
<1>3. CASE t = "HostInterface"
  <2>1. Schema[t] = HostInterface /\ DefaultOf(t) = Derived(HostInterface)
    BY <1>3, SchemaOf DEF DefaultOf, DerivesDefault
  <2>2. DOMAIN HostInterface =
          {"name", "namespace", "package", "version", "interfaces", "config",
           "configFrom", "secretFrom"}
    BY DEF HostInterface
  <2>3. HostInterface.namespace.absent = Missing /\ HostInterface.package.absent = Missing
    BY DEF HostInterface
  <2>4. f \in {"name", "version", "interfaces", "config", "configFrom", "secretFrom"}
    BY <2>1, <2>2, <2>3 DEF RequiredFields, Fields
  <2>5. DefaultOf(t)[f] = HostInterface[f].zero
    BY <2>1, <2>2, <2>4 DEF Derived
  <2>6. /\ HostInterface.name.absent = HostInterface.name.zero
        /\ HostInterface.version.absent = HostInterface.version.zero
        /\ HostInterface.interfaces.absent = HostInterface.interfaces.zero
        /\ HostInterface.config.absent = HostInterface.config.zero
        /\ HostInterface.configFrom.absent = HostInterface.configFrom.zero
        /\ HostInterface.secretFrom.absent = HostInterface.secretFrom.zero
    BY DEF HostInterface
  <2> QED  BY <1>3, <2>1, <2>4, <2>5, <2>6 DEF Divergent
<1> QED  BY <1>1, <1>2, <1>3 DEF PartsOfAManifest

\* A part of a manifest is in no file of its own, so it is never all missing.
LEMMA PartsNeedTheirFile == \A t \in PartsOfAManifest : ~NeedsNoFile(t)
<1> USE DEF NeedsNoFile, RequiredFields, Fields, Field, Required
<1>1. "name" \in RequiredFields("Metadata")
  BY SchemaOf DEF Metadata
<1>2. "components" \in RequiredFields("WorkloadSpec")
  BY SchemaOf DEF WorkloadSpec, RequiredAs
<1>3. "package" \in RequiredFields("HostInterface")
  BY SchemaOf DEF HostInterface
<1> QED  BY <1>1, <1>2, <1>3 DEF PartsOfAManifest

\* Whatever is missing means what Default says.
LEMMA DefaultAgrees ==
    \A t \in DOMAIN Schema :
        HasDefault(t) /\ t \notin PartsOfAManifest => Agree(Schema[t], DefaultOf(t))
BY DerivedAgree, ExplicitAgree DEF HasDefault, DefaultOf

\* A field the daemon fills in may be missing from the file.
LEMMA ReadOnlyFields ==
    \A t \in DOMAIN Schema : \A f \in ReadOnly(t) :
        f \in Fields(t) /\ Schema[t][f].absent # Missing
<1> SUFFICES ASSUME NEW t \in DOMAIN Schema, NEW f \in ReadOnly(t)
             PROVE  f \in Fields(t) /\ Schema[t][f].absent # Missing
  OBVIOUS
<1>1. CASE t = "HostConfig"
  <2>1. Schema[t] = HostConfig    BY <1>1, SchemaOf
  <2>2. f = "managed_labels"      BY <1>1 DEF ReadOnly
  <2>3. HostConfig["managed_labels"].absent = "empty" /\ "managed_labels" \in DOMAIN HostConfig
    BY DEF HostConfig, Filled, Field
  <2> QED  BY <2>1, <2>2, <2>3 DEF Fields, Missing
<1>2. CASE t = "McpConfig"
  <2>1. Schema[t] = McpConfig     BY <1>2, SchemaOf
  <2>2. f = "command"             BY <1>2 DEF ReadOnly
  <2>3. McpConfig["command"].absent = "none" /\ "command" \in DOMAIN McpConfig
    BY DEF McpConfig, Optional, Field
  <2> QED  BY <2>1, <2>2, <2>3 DEF Fields, Missing
<1>3. CASE t \notin {"HostConfig", "McpConfig"}
  BY <1>3 DEF ReadOnly
<1> QED  BY <1>1, <1>2, <1>3

\* The id of a binding is a string, and no field the daemon fills in.
LEMMA AssignedFields ==
    \A t \in DOMAIN Schema : \A f \in Assigned(t) :
        f \in Fields(t) /\ f \notin ReadOnly(t) /\ "v" \in Schema[t][f].values
<1> SUFFICES ASSUME NEW t \in DOMAIN Schema, NEW f \in Assigned(t)
             PROVE  f \in Fields(t) /\ f \notin ReadOnly(t) /\ "v" \in Schema[t][f].values
  OBVIOUS
<1>1. t = "LlmBinding" /\ f = "id" /\ Schema[t] = LlmBinding
  BY SchemaOf DEF Assigned
<1> QED  BY <1>1 DEF Fields, LlmBinding, ReadOnly, Kept, Words, Takes, Field

\* A document of the user's and one with what the daemon fills in are values of the struct.
LEMMA UsersValue ==
    ASSUME NEW t \in DOMAIN Schema, NEW v, Value(t, v)
    PROVE  Value(t, Users(t, v)) /\ Users(t, Users(t, v)) = Users(t, v)
<1>1. \A f \in ReadOnly(t) : Schema[t][f].absent \in Schema[t][f].values
  BY ReadOnlyFields, SchemaSound DEF SoundTable, Sound, Fields
<1> QED  BY <1>1 DEF Value, Users

LEMMA ShownValue ==
    ASSUME NEW t \in DOMAIN Schema, NEW v, Value(t, v), NEW own \in OwnValues(t)
    PROVE  Value(t, Shown(t, v, own))
BY DEF Value, Shown, OwnValues

-----------------------------------------------------------------------------
(* The invariant: the file means what was last accepted, and so does what  *)
(* the daemon has, and a client's document differs in the edited keys only. *)

FileInv ==
    /\ last = Meaning(kind, filed, disk)
    /\ filed => Parses(kind, disk)

StageInv ==
    /\ stage = "set" => live = last /\ (filed \/ NeedsNoFile(kind))
    /\ stage = "unset" => ~filed /\ ~NeedsNoFile(kind)

ClientInv ==
    edits # {} =>
        /\ puts < MaxPuts
        /\ \A f \in Fields(kind) \ (edits \cup ReadOnly(kind)) : Load(kind, held)[f] = last[f]

RangeInv ==
    /\ kind \in Kinds /\ filed \in BOOLEAN
    /\ stage \in {"down", "unset", "set"} /\ puts \in 0..MaxPuts
    /\ edits \cup touched \subseteq Fields(kind)

DocInv == RangeInv /\ FileInv /\ StageInv /\ ClientInv

\* A document there is, from a file or from Default, is a value of its struct.
LEMMA MeaningValue ==
    ASSUME DocInv, filed \/ NeedsNoFile(kind)
    PROVE  Value(kind, last) /\ \A f \in ReadOnly(kind) : last[f] = Schema[kind][f].absent
<1>1. kind \in DOMAIN Schema  BY KindAssumption DEF DocInv, RangeInv
<1>2. CASE filed
  <2>1. last = Users(kind, Load(kind, disk)) /\ Parses(kind, disk)
    BY <1>2 DEF DocInv, FileInv, Meaning
  <2>2. Value(kind, last)
    BY <1>1, <2>1, LoadedValue, UsersValue
  <2>3. \A f \in ReadOnly(kind) : last[f] = Schema[kind][f].absent
    BY <1>1, <2>1, ReadOnlyFields DEF Users
  <2> QED  BY <2>2, <2>3
<1>3. CASE ~filed
  <2>1. last = DefaultOf(kind) /\ NeedsNoFile(kind)  BY <1>3 DEF DocInv, FileInv, Meaning
  <2>2. Agree(Schema[kind], DefaultOf(kind))
    BY <1>1, <2>1, DefaultAgrees, PartsNeedTheirFile DEF NeedsNoFile
  <2> QED  BY <1>1, <2>1, <2>2, ReadOnlyFields DEF Agree, Value, Fields
<1> QED  BY <1>2, <1>3

LEMMA InitDoc == DocInit => DocInv
<1> SUFFICES ASSUME DocInit PROVE DocInv
  OBVIOUS
<1>1. RangeInv
  <2>1. kind \in Kinds /\ MaxPuts \in Nat  BY PutAssumption DEF DocInit
  <2>2. filed \in BOOLEAN  BY Zenon DEF DocInit
  <2>3. stage = "down" /\ puts = 0 /\ edits = {} /\ touched = {}  BY DEF DocInit
  <2> QED  BY <2>1, <2>2, <2>3 DEF RangeInv
<1>2. FileInv /\ StageInv /\ ClientInv
  BY DEF DocInit, FileInv, StageInv, ClientInv
<1> QED  BY <1>1, <1>2 DEF DocInv

\* An edit leaves every other key of the document as Load reads it.
LEMMA EditedKey ==
    ASSUME NEW t \in DOMAIN Schema, NEW v, Value(t, v), NEW f \in Fields(t), NEW doc,
           \/ \E x : doc = WithKey(Save(t, v), f, x)
           \/ doc = WithoutKey(Save(t, v), f),
           NEW g \in Fields(t) \ {f}
    PROVE  Load(t, doc)[g] = v[g]
<1>1. DOMAIN Save(t, v) \subseteq Fields(t)
  BY DEF Save, Written
<1>2. /\ DOMAIN doc \subseteq Fields(t)
      /\ g \in DOMAIN doc <=> g \in DOMAIN Save(t, v)
      /\ g \in DOMAIN doc => doc[g] = Save(t, v)[g]
  BY <1>1 DEF WithKey, WithoutKey
<1>3. Load(t, doc)[g] = Load(t, Save(t, v))[g]
  BY <1>1, <1>2, LoadField
<1> QED  BY <1>3, RoundTrip

\* What the daemon takes of a body that parses is a document of the user's.
LEMMA TakenValue ==
    ASSUME DocInv, kind \in DOMAIN Schema, Parses(kind, held)
    PROVE  Value(kind, Taken(held)) /\ Users(kind, Taken(held)) = Taken(held)
<1> DEFINE u == Users(kind, Load(kind, held))
<1>1. Value(kind, u) /\ Users(kind, u) = u
  BY LoadedValue, UsersValue
<1>2. \A f \in Assigned(kind) :
        Taken(held)[f] \in Schema[kind][f].values /\ f \notin ReadOnly(kind)
  <2> SUFFICES ASSUME NEW f \in Assigned(kind)
               PROVE  Taken(held)[f] \in Schema[kind][f].values /\ f \notin ReadOnly(kind)
    OBVIOUS
  <2>1. f \in Fields(kind) /\ f \notin ReadOnly(kind) /\ "v" \in Schema[kind][f].values
    BY AssignedFields
  <2>2. CASE stage = "set"
    <3>1. Value(kind, live)  BY <2>2, MeaningValue DEF DocInv, StageInv
    <3> QED  BY <2>1, <2>2, <3>1 DEF Taken, Value
  <2>3. CASE stage # "set"
    BY <2>1, <2>3 DEF Taken
  <2> QED  BY <2>2, <2>3
<1>3. \A f \in Fields(kind) \ Assigned(kind) : Taken(held)[f] = u[f]
  BY DEF Taken
<1>4. DOMAIN Taken(held) = Fields(kind)
  BY DEF Taken
<1>5. Value(kind, Taken(held))
  <2>1. \A f \in Fields(kind) : u[f] \in Schema[kind][f].values
    BY <1>1 DEF Value
  <2> HIDE DEF u
  <2> QED  BY <1>2, <1>3, <1>4, <2>1 DEF Value
<1>6. \A f \in ReadOnly(kind) : Taken(held)[f] = Schema[kind][f].absent
  <2> SUFFICES ASSUME NEW f \in ReadOnly(kind) PROVE Taken(held)[f] = Schema[kind][f].absent
    OBVIOUS
  <2>1. f \in Fields(kind) \ Assigned(kind)  BY <1>2, ReadOnlyFields
  <2>2. u[f] = Schema[kind][f].absent        BY <2>1 DEF Users
  <2> QED  BY <1>3, <2>1, <2>2
<1>7. \A f \in Fields(kind) : Users(kind, Taken(held))[f] = Taken(held)[f]
  BY <1>6 DEF Users
<1>8. Users(kind, Taken(held)) = Taken(held)
  BY <1>7 DEF Users, Taken
<1> QED  BY <1>5, <1>8

\* Every step keeps the invariant.
LEMMA StepDoc == DocInv /\ [DocNext]_docVars => DocInv'
<1> SUFFICES ASSUME DocInv, [DocNext]_docVars PROVE DocInv'
  OBVIOUS
<1>t. kind \in DOMAIN Schema  BY KindAssumption DEF DocInv, RangeInv
<1> USE DEF diskVars, clientVars, ghostVars
<1>1. CASE Boot
  BY <1>1 DEF Boot, DocInv, RangeInv, FileInv, StageInv, ClientInv
<1>2. CASE Stop
  BY <1>2 DEF Stop, DocInv, RangeInv, FileInv, StageInv, ClientInv
<1>3. CASE Draft(Drafts(kind))
  BY <1>3 DEF Draft, DocInv, RangeInv, FileInv, StageInv, ClientInv
<1>4. CASE Put
  <2>1. /\ live' = Taken(held) /\ last' = live' /\ stage' = "set" /\ filed' = TRUE
        /\ disk' = Save(kind, live') /\ edits' = {} /\ puts' = puts + 1
        /\ kind' = kind /\ touched' = touched \cup edits /\ edits # {} /\ Parses(kind, held)
    BY <1>4 DEF Put
  <2>2. Value(kind, live') /\ Users(kind, live') = live'
    BY <1>t, <2>1, TakenValue
  <2>3. Load(kind, disk') = live'
    <3>1. \A f \in Fields(kind) : Load(kind, disk')[f] = live'[f]
      BY <1>t, <2>1, <2>2, RoundTrip
    <3>2. DOMAIN live' = Fields(kind)  BY <2>2 DEF Value
    <3> QED  BY <3>1, <3>2, <2>1 DEF Load, Taken
  <2>4. FileInv'
    BY <1>t, <2>1, <2>2, <2>3, SavedParses DEF FileInv, Meaning
  <2>5. RangeInv'
    <3>1. puts' \in 0..MaxPuts
      BY <2>1, PutAssumption DEF DocInv, RangeInv, ClientInv
    <3> QED  BY <2>1, <3>1 DEF DocInv, RangeInv
  <2> QED  BY <2>1, <2>4, <2>5 DEF DocInv, StageInv, ClientInv
<1>5. CASE PutRefused
  BY <1>5 DEF PutRefused, DocInv, RangeInv, FileInv, StageInv, ClientInv
<1>6. ASSUME NEW f \in Fields(kind), GetAndEdit(f) PROVE DocInv'
  <2>1. /\ stage = "set" /\ puts < MaxPuts /\ edits' = {f}
        /\ UNCHANGED <<kind, diskVars, stage, live, touched, ghostVars>>
    BY <1>6 DEF GetAndEdit
  <2>2. PICK own \in OwnValues(kind) :
            \/ \E x : held' = WithKey(Save(kind, Shown(kind, live, own)), f, x)
            \/ held' = WithoutKey(Save(kind, Shown(kind, live, own)), f)
    BY <1>6 DEF GetAndEdit
  <2> DEFINE shown == Shown(kind, live, own)
  <2>3. live = last /\ Value(kind, shown)
    BY <1>t, <2>1, MeaningValue, ShownValue DEF DocInv, StageInv
  <2>4. \A g \in Fields(kind) \ {f} : Load(kind, held')[g] = shown[g]
    <3> HIDE DEF shown
    <3> QED  BY <1>t, <1>6, <2>2, <2>3, EditedKey DEF shown
  <2>5. \A g \in Fields(kind) \ ({f} \cup ReadOnly(kind)) : Load(kind, held')[g] = last[g]
    BY <2>3, <2>4 DEF Shown
  <2> QED  BY <1>6, <2>1, <2>5 DEF DocInv, RangeInv, FileInv, StageInv, ClientInv
<1>7. CASE UNCHANGED docVars
  BY <1>7 DEF docVars, DocInv, RangeInv, FileInv, StageInv, ClientInv
<1> QED  BY <1>1, <1>2, <1>3, <1>4, <1>5, <1>6, <1>7 DEF DocNext

\* The types, and that the daemon never holds a document its own file would not give.
THEOREM DocumentsTypeCorrect == DocSpec => []DocTypeOK
<1>1. DocInv => DocTypeOK
  BY MeaningValue DEF DocTypeOK, DocInv, RangeInv, FileInv, StageInv
<1> QED  BY <1>1, InitDoc, StepDoc, PTL DEF DocSpec

\* However often a document is put and the daemon restarted, what it works with is what
\* was last accepted: for every struct of the table.
THEOREM RestartsKeep == DocSpec => []RestartKeeps
<1>1. DocInv => RestartKeeps  BY DEF DocInv, StageInv, RestartKeeps
<1> QED  BY <1>1, InitDoc, StepDoc, PTL DEF DocSpec

\* A key that may be missing and is means the struct's Default, in every file and in none,
\* but for the namespace of a manifest.
THEOREM AbsenceIsDefault == DocSpec => []AbsentMeansDefault
<1>1. DocInv => AbsentMeansDefault
  <2> SUFFICES ASSUME DocInv, stage = "set", HasDefault(kind),
                      NEW f \in Fields(kind) \ (RequiredFields(kind) \cup ReadOnly(kind)),
                      ~filed \/ KeysFor(kind, disk, f) = {}
               PROVE  live[f] = DefaultOf(kind)[f] <=> <<kind, f>> \notin Divergent
    BY DEF AbsentMeansDefault
  <2>1. /\ live = Meaning(kind, filed, disk) /\ kind \in DOMAIN Schema
        /\ filed \/ NeedsNoFile(kind)
    BY KindAssumption DEF DocInv, RangeInv, FileInv, StageInv
  <2>2. filed => live[f] = Schema[kind][f].absent
    BY <2>1 DEF Meaning, Load, Users
  <2>3. ~filed => live[f] = DefaultOf(kind)[f]
    BY <2>1 DEF Meaning
  <2>4. CASE kind \in PartsOfAManifest
    <3>1. filed  BY <2>1, <2>4, PartsNeedTheirFile
    <3> QED  BY <2>2, <2>4, <3>1, PartsAgree
  <2>5. CASE kind \notin PartsOfAManifest
    <3>1. Agree(Schema[kind], DefaultOf(kind))
      BY <2>1, <2>5, DefaultAgrees
    <3>2. Schema[kind][f].absent = DefaultOf(kind)[f]
      BY <3>1 DEF Agree, Fields
    <3>3. <<kind, f>> \notin Divergent
      BY <2>5 DEF Divergent, PartsOfAManifest
    <3> QED  BY <2>2, <2>3, <3>2, <3>3
  <2> QED  BY <2>4, <2>5
<1> QED  BY <1>1, InitDoc, StepDoc, PTL DEF DocSpec

\* A client that changed one key changes one field, though PUT replaces the document, and
\* none that the daemon or its store fills in.
THEOREM EditsAreLocal == DocSpec => EditIsLocal
<1>1. ASSUME DocInv, [DocNext]_docVars
      PROVE  [stage = "set" /\ stage' = "set" =>
                \A f \in Fields(kind) :
                    f \notin edits \ (ReadOnly(kind) \cup Assigned(kind)) =>
                        live'[f] = live[f]]_docVars
  <2> SUFFICES ASSUME stage = "set", stage' = "set", NEW f \in Fields(kind),
                      f \notin edits \ (ReadOnly(kind) \cup Assigned(kind))
               PROVE  live'[f] = live[f]
    OBVIOUS
  <2>1. CASE Put
    <3>1. live' = Taken(held) /\ live = last /\ edits # {}
      BY <1>1, <2>1 DEF Put, DocInv, StageInv
    <3>2. CASE f \in Assigned(kind)
      BY <3>1, <3>2 DEF Taken
    <3>3. CASE f \in ReadOnly(kind) \ Assigned(kind)
      <4>1. live'[f] = Schema[kind][f].absent
        BY <3>1, <3>3 DEF Taken, Users
      <4>2. live[f] = Schema[kind][f].absent
        BY <1>1, <3>1, <3>3, MeaningValue DEF DocInv, StageInv
      <4> QED  BY <4>1, <4>2
    <3>4. CASE f \notin ReadOnly(kind) \cup Assigned(kind)
      <4>1. live'[f] = Load(kind, held)[f]
        BY <3>1, <3>4 DEF Taken, Users
      <4>2. Load(kind, held)[f] = last[f]
        BY <1>1, <3>1, <3>4 DEF DocInv, ClientInv
      <4> QED  BY <3>1, <4>1, <4>2
    <3> QED  BY <3>2, <3>3, <3>4
  <2>2. CASE UNCHANGED live
    BY <2>2
  <2> QED
    BY <1>1, <2>1, <2>2
    DEF DocNext, docVars, Boot, Stop, Draft, PutRefused, GetAndEdit
<1> QED  BY <1>1, InitDoc, StepDoc, PTL DEF DocSpec, EditIsLocal

-----------------------------------------------------------------------------
(* What other products and older versions wrote.                           *)

\* A promised key names a field of the user's, skipped only when it holds nothing.
LEMMA PromisedFields ==
    \A t \in DOMAIN Schema : \A k \in Promised(t) :
        /\ Named(t, k) \in Fields(t) \ (ReadOnly(t) \cup Assigned(t))
        /\ Schema[t][Named(t, k)].omitted \subseteq {"none", "empty"}
<1> SUFFICES ASSUME NEW t \in DOMAIN Schema, NEW k \in Promised(t)
             PROVE  /\ Named(t, k) \in Fields(t) \ (ReadOnly(t) \cup Assigned(t))
                    /\ Schema[t][Named(t, k)].omitted \subseteq {"none", "empty"}
  OBVIOUS
<1> USE DEF Field, Required, RequiredAs, Optional, Filled, Kept, KeptAs, ReadOnly, Assigned
<1>1. CASE t = "Metadata"
  <2>1. Schema[t] = Metadata /\ Named(t, k) = k  BY <1>1 DEF Schema, Named
  <2> QED  BY <1>1, <2>1 DEF Promised, Fields, Metadata
<1>2. CASE t = "WorkloadSpec"
  <2>1. Schema[t] = WorkloadSpec /\ Named(t, k) = k  BY <1>2 DEF Schema, Named
  <2> QED  BY <1>2, <2>1 DEF Promised, Fields, WorkloadSpec
<1>3. CASE t = "HostInterface"
  <2>1. Schema[t] = HostInterface /\ Named(t, k) = k  BY <1>3 DEF Schema, Named
  <2> QED  BY <1>3, <2>1 DEF Promised, Fields, HostInterface
<1>4. CASE t = "Component"
  <2>1. Schema[t] = Component /\ Named(t, k) = k  BY <1>4 DEF Schema, Named
  <2> QED  BY <1>4, <2>1 DEF Promised, Fields, Component
<1>5. CASE t = "LocalResources"
  <2>1. Schema[t] = LocalResources /\ Named(t, k) = k  BY <1>5 DEF Schema, Named
  <2> QED  BY <1>5, <2>1 DEF Promised, Fields, LocalResources
<1>6. CASE t = "WorkloadService"
  <2>1. Schema[t] = WorkloadService /\ Named(t, k) = k  BY <1>6 DEF Schema, Named
  <2> QED  BY <1>6, <2>1 DEF Promised, Fields, WorkloadService
<1>7. CASE t = "McpConfig"
  <2>1. k = "auto_register"  BY <1>7 DEF Promised
  <2>2. Schema[t] = McpConfig /\ Named(t, k) = "autoRegister"  BY <1>7, <2>1 DEF Schema, Named
  <2> QED  BY <1>7, <2>2 DEF Fields, McpConfig
<1>8. CASE t = "Volume"
  <2>1. Schema[t] = Volume /\ Named(t, k) = k  BY <1>8 DEF Schema, Named
  <2> QED  BY <1>8, <2>1 DEF Promised, Fields, Volume
<1>9. CASE t \notin {"Metadata", "WorkloadSpec", "HostInterface", "Component",
                    "LocalResources", "WorkloadService", "McpConfig", "Volume"}
  BY <1>9 DEF Promised
<1> QED  BY <1>1, <1>2, <1>3, <1>4, <1>5, <1>6, <1>7, <1>8, <1>9

\* The file is still the first one or was written by Save, and an untouched promised field
\* means what the first file said.
SeedInv ==
    /\ disk = seed \/ (filed /\ disk = Save(kind, last))
    /\ \A k \in DOMAIN seed \cap Promised(kind) :
          /\ Accepts(Schema[kind][Named(kind, k)], seed[k])
          /\ Named(kind, k) \in touched \/ last[Named(kind, k)] = Read(seed[k])

LEMMA InitSeed == DocInit => SeedInv
<1> SUFFICES ASSUME DocInit PROVE SeedInv
  OBVIOUS
<1>1. disk = seed /\ kind \in DOMAIN Schema  BY KindAssumption DEF DocInit
<1>2. ASSUME NEW k \in DOMAIN seed \cap Promised(kind)
      PROVE  /\ Accepts(Schema[kind][Named(kind, k)], seed[k])
             /\ last[Named(kind, k)] = Read(seed[k])
  <2> DEFINE f == Named(kind, k)
  <2>1. filed /\ Parses(kind, disk)
    <3>1. filed = TRUE \/ disk = NoDoc  BY DEF DocInit
    <3>2. DOMAIN NoDoc = {}  BY DEF NoDoc
    <3>3. filed = TRUE  BY <1>1, <1>2, <3>1, <3>2
    <3>4. Parses(kind, disk)
      BY <3>3, <1>1, <1>2, <3>2 DEF DocInit
    <3> QED  BY <3>3, <3>4
  <2>2. f \in Fields(kind) \ ReadOnly(kind)  BY <1>1, PromisedFields
  <2>3. last = Users(kind, Load(kind, disk))  BY <2>1 DEF DocInit, Meaning
  <2>4. KeysFor(kind, disk, f) = {k}
    BY <1>1, <2>1, OneKeyPerField DEF KeysFor
  <2>5. (CHOOSE l \in {k} : TRUE) = k  OBVIOUS
  <2>6. last[f] = Read(disk[k])
    BY <2>2, <2>3, <2>4, <2>5 DEF Load, Users
  <2>7. Accepts(Schema[kind][f], disk[k])
    BY <1>1, <2>1, <2>2 DEF Parses
  <2> QED  BY <1>1, <2>6, <2>7
<1> QED  BY <1>1, <1>2 DEF SeedInv

LEMMA StepSeed == DocInv /\ SeedInv /\ [DocNext]_docVars => SeedInv'
<1> SUFFICES ASSUME DocInv, SeedInv, [DocNext]_docVars PROVE SeedInv'
  OBVIOUS
<1>t. kind \in DOMAIN Schema  BY KindAssumption DEF DocInv, RangeInv
<1>1. CASE Put
  <2>1. /\ live' = Taken(held) /\ last' = live' /\ filed' = TRUE
        /\ disk' = Save(kind, live') /\ edits # {} /\ touched' = touched \cup edits
        /\ kind' = kind /\ seed' = seed
    BY <1>1 DEF Put
  <2>2. ASSUME NEW k \in DOMAIN seed \cap Promised(kind), Named(kind, k) \notin touched'
        PROVE  last'[Named(kind, k)] = Read(seed[k])
    <3>1. Named(kind, k) \in Fields(kind) \ (edits \cup ReadOnly(kind) \cup Assigned(kind))
      BY <1>t, <2>1, <2>2, PromisedFields
    <3>2. last[Named(kind, k)] = Read(seed[k])     BY <2>1, <2>2 DEF SeedInv
    <3>3. Load(kind, held)[Named(kind, k)] = last[Named(kind, k)]
      BY <2>1, <3>1 DEF DocInv, ClientInv
    <3>4. Taken(held)[Named(kind, k)] = Load(kind, held)[Named(kind, k)]
      BY <3>1 DEF Taken, Users
    <3> QED  BY <2>1, <3>2, <3>3, <3>4
  <2> QED  BY <2>1, <2>2 DEF SeedInv
<1>2. CASE UNCHANGED <<kind, diskVars, touched, ghostVars>>
  BY <1>2 DEF SeedInv, diskVars, ghostVars
<1> QED
  BY <1>1, <1>2
  DEF DocNext, docVars, clientVars, Boot, Stop, Draft, PutRefused, GetAndEdit

\* What Control, or an older version, wrote into a file is still in it after every rewrite,
\* unless a client changed it.
THEOREM NothingStripped == DocSpec => []NothingIsStripped
<1>1. DocInv /\ SeedInv => NothingIsStripped
  <2> SUFFICES ASSUME DocInv, SeedInv, NEW k \in DOMAIN seed \cap Promised(kind),
                      Named(kind, k) \notin touched
               PROVE  \/ \E l \in KeysFor(kind, disk, Named(kind, k)) : disk[l] = seed[k]
                      \/ /\ KeysFor(kind, disk, Named(kind, k)) = {}
                         /\ seed[k] \in {"null", "empty"}
    BY DEF NothingIsStripped
  <2> DEFINE f == Named(kind, k)
  <2>1. kind \in DOMAIN Schema  BY KindAssumption DEF DocInv, RangeInv
  <2>2. f \in Fields(kind) /\ Schema[kind][f].omitted \subseteq {"none", "empty"}
    BY <2>1, PromisedFields
  <2>3. Sound(Schema[kind][f])
    BY <2>1, <2>2, SchemaSound DEF SoundTable, Fields
  <2>4. Accepts(Schema[kind][f], seed[k]) /\ last[f] = Read(seed[k])
    BY DEF SeedInv
  <2>5. CASE disk = seed
    BY <2>5 DEF KeysFor
  <2>6. CASE disk = Save(kind, last)
    <3>1. KeysFor(kind, disk, f) = Written(kind, last) \cap {f}
      BY <2>1, <2>6, OwnName DEF KeysFor, Save, Written
    <3>2. CASE f \in Written(kind, last)
      <4>1. disk[f] = last[f] /\ last[f] \notin Schema[kind][f].omitted
        BY <2>6, <3>2 DEF Save, Written
      <4>2. seed[k] # "null"
        BY <2>3, <2>4, <4>1 DEF Accepts, Read, Sound
      <4> QED  BY <2>4, <3>1, <3>2, <4>1, <4>2 DEF Read
    <3>3. CASE f \notin Written(kind, last)
      <4>1. last[f] \in {"none", "empty"}
        BY <2>2, <3>3 DEF Written
      <4> QED  BY <2>3, <2>4, <3>1, <3>3, <4>1 DEF Accepts, Read, Sound
    <3> QED  BY <3>2, <3>3
  <2> QED  BY <2>5, <2>6 DEF SeedInv
<1> QED  BY <1>1, InitDoc, StepDoc, InitSeed, StepSeed, PTL DEF DocSpec
=============================================================================
