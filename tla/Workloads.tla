----------------------------- MODULE Workloads ------------------------------
(***************************************************************************)
(* A workload from a name to the store (cosmonic-api, src/workload.rs):    *)
(* the name of its source becomes a label (DnsLabel), Workload::           *)
(* single_component drafts it, the user may edit the draft, validate       *)
(* answers everything that is wrong with it at once, and what it accepts   *)
(* is put to the daemon like any document (Documents).                     *)
(***************************************************************************)
EXTENDS Documents, DnsLabel

CONSTANTS
    Typed,            \* names a user types into a draft
    OwnNamespace,     \* the namespace drafts are made in
    MaxHandEdits      \* bound: changes to a draft

ASSUME NamespaceAssumption == IsDnsLabel(OwnNamespace)

VARIABLES
    phase,       \* "none", "drafted", "refused", "repaired", "valid", "refused again"
    draft,       \* the Workload: what validate looks at
    errs,        \* what validate found
    handEdits

draftVars    == <<phase, draft, errs, handEdits>>
workloadVars == <<docVars, nameVars, draftVars>>

NoDraft == [name |-> Blank]

\* Workload::new
NewWorkload(name, namespace, components) ==
    [apiVersion |-> "v1alpha1", kind |-> "Workload", name |-> name, namespace |-> namespace,
     components |-> components, service |-> "none"]

\* single_component: one component named after the workload, and how it is pooled.
SingleComponent(name, namespace) ==
    NewWorkload(name, namespace, <<[name |-> name, image |-> "v"]>>)

-----------------------------------------------------------------------------
(* validate: each check, and what it answers.                              *)

ComponentFaults(c) ==
    {e \in {"component name", "component image"} :
        \/ e = "component name" /\ c.name = <<>>
        \/ e = "component image" /\ c.image = ""}

Faults(w) ==
    {e \in {"apiVersion", "kind", "name", "namespace", "components", "service image"} :
        \/ e = "apiVersion" /\ w.apiVersion # "v1alpha1"
        \/ e = "kind" /\ w.kind # "Workload"
        \/ e = "name" /\ ~IsDnsLabel(w.name)
        \/ e = "namespace" /\ ~IsDnsLabel(w.namespace)
        \/ e = "components" /\ DOMAIN w.components = {}
        \/ e = "service image" /\ w.service = "no image"}
    \cup UNION {ComponentFaults(w.components[i]) : i \in DOMAIN w.components}

-----------------------------------------------------------------------------
WorkloadInit ==
    /\ DocInit /\ NamingIdle
    /\ phase = "none" /\ draft = NoDraft /\ errs = {} /\ handEdits = 0

\* A source without a workload in the store offers its name.
OfferName ==
    /\ kind = "Component" /\ stage = "unset" /\ edits = {}
    /\ phase = "none" /\ naming = "idle"
    /\ puts < MaxPuts
    /\ \E s \in RawNames : Sanitize(s)
    /\ UNCHANGED <<docVars, draftVars>>

\* Mutant: the draft has the name as the source gave it.
MakeDraft_Unsanitized ==
    /\ phase' = "drafted" /\ draft' = SingleComponent(raw, OwnNamespace)
    /\ errs' = {} /\ handEdits' = 0
    /\ Forget
    /\ UNCHANGED docVars

\* The daemon drafts with the sanitized name: single_component takes the name it is given.
MakeDraft ==
    /\ phase' = "drafted" /\ draft' = SingleComponent(label, OwnNamespace)
    /\ errs' = {} /\ handEdits' = 0
    /\ Forget
    /\ UNCHANGED docVars

\* The user edits the draft's YAML.
HandEdited(w) ==
    {[w EXCEPT !.apiVersion = "v2"], [w EXCEPT !.kind = "Deployment"],
     [w EXCEPT !.components = <<>>], [w EXCEPT !.service = "image"],
     [w EXCEPT !.service = "no image"]}
    \cup {[w EXCEPT !.name = s] : s \in Typed}
    \cup {[w EXCEPT !.namespace = s] : s \in Typed}
    \cup {[w EXCEPT !.components[i].name = <<>>] : i \in DOMAIN w.components}
    \cup {[w EXCEPT !.components[i].image = ""] : i \in DOMAIN w.components}

HandEdit ==
    /\ phase = "drafted" /\ handEdits < MaxHandEdits
    /\ draft' \in HandEdited(draft) /\ handEdits' = handEdits + 1
    /\ UNCHANGED <<phase, errs, docVars, nameVars>>

\* Mutant: validate returns at the first thing it finds.
Validate_FirstOnly ==
    /\ phase \in {"drafted", "repaired"} /\ stage # "down"
    /\ errs' = IF Faults(draft) = {} THEN {} ELSE {CHOOSE e \in Faults(draft) : TRUE}
    /\ phase' = IF errs' = {} THEN "valid"
                ELSE IF phase = "repaired" THEN "refused again" ELSE "refused"
    /\ UNCHANGED <<draft, handEdits, docVars, nameVars>>

Validate ==
    /\ phase \in {"drafted", "repaired"} /\ stage # "down"
    /\ errs' = Faults(draft)
    /\ phase' = IF errs' = {} THEN "valid"
                ELSE IF phase = "repaired" THEN "refused again" ELSE "refused"
    /\ UNCHANGED <<draft, handEdits, docVars, nameVars>>

\* The user corrects what was answered, and nothing else.
Corrected(w, reported) ==
    [apiVersion |-> IF "apiVersion" \in reported THEN "v1alpha1" ELSE w.apiVersion,
     kind       |-> IF "kind" \in reported THEN "Workload" ELSE w.kind,
     name       |-> IF "name" \in reported THEN Fallback ELSE w.name,
     namespace  |-> IF "namespace" \in reported THEN OwnNamespace ELSE w.namespace,
     service    |-> IF "service image" \in reported THEN "image" ELSE w.service,
     components |-> IF "components" \in reported THEN <<[name |-> Fallback, image |-> "v"]>>
                    ELSE [i \in DOMAIN w.components |->
                            [name  |-> IF "component name" \in reported THEN Fallback
                                       ELSE w.components[i].name,
                             image |-> IF "component image" \in reported THEN "v"
                                       ELSE w.components[i].image]]]

Correct ==
    /\ phase = "refused"
    /\ draft' = Corrected(draft, errs) /\ phase' = "repaired"
    /\ UNCHANGED <<errs, handEdits, docVars, nameVars>>

\* The accepted workload goes to the store, its component as it was drafted.
Apply ==
    /\ phase = "valid"
    /\ Draft({Save("Component", DraftedComponent)})
    /\ phase' = "none" /\ draft' = NoDraft /\ errs' = {} /\ handEdits' = 0
    /\ UNCHANGED nameVars

\* The daemon and its clients go on while no name is being made, which is one call.
DocStep ==
    /\ naming = "idle" /\ phase = "none"
    /\ DocNext
    /\ UNCHANGED <<nameVars, draftVars>>

DaemonStep ==
    /\ naming = "idle" /\ phase # "none"
    /\ Boot \/ Stop
    /\ UNCHANGED <<nameVars, draftVars>>

WorkloadNext ==
    \/ OfferName
    \/ SanitizeStep /\ UNCHANGED <<docVars, draftVars>>
    \/ MakeDraft \/ HandEdit \/ Validate \/ Correct \/ Apply
    \/ DocStep \/ DaemonStep
WorkloadSpecification == WorkloadInit /\ [][WorkloadNext]_workloadVars

-----------------------------------------------------------------------------
(* Properties.                                                             *)

\* Whatever name a source has, the draft made from its sanitized form and the image it was
\* built as is accepted as it stands.
DraftsValidate == phase \in {"refused", "refused again"} => handEdits > 0

\* validate answers everything at once: who corrects what was answered is not refused
\* for something that was wrong all along.
CorrectedOnce == phase # "refused again"
=============================================================================
