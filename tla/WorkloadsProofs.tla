-------------------------- MODULE WorkloadsProofs ---------------------------
(***************************************************************************)
(* The way of a workload from a name to the store.  Its two halves are     *)
(* behaviours of DnsLabel and of Documents, so what is proved of those     *)
(* holds of it: a draft's name is a label because the sanitizer's results  *)
(* are, and the draft therefore validates.                                 *)
(***************************************************************************)
EXTENDS Workloads, DocumentsProofs, SequenceTheorems

(***************************************************************************)
(* sanitize_dns_label, for every alphabet, every limit and every name:     *)
(* what it returns is a label, and a label it returned comes back as it    *)
(* is.  The loop keeps `out` free of a leading dash and of two dashes in   *)
(* a row, so that last_dash is exactly "a dash here would be wrong" and    *)
(* one trim is enough after a cut.                                         *)
(***************************************************************************)

LabelChars == Alnum \cup {Dash}

\* A dash may not be pushed: nothing was kept yet, or a dash was the last.
NoDashNow(s) == s = <<>> \/ s[Len(s)] = Dash

\* What the loop keeps of a name: no leading dash and no two in a row.
WellFormed(s) ==
    /\ s \in Seq(LabelChars) /\ Len(s) <= MaxLen
    /\ s # <<>> => s[1] # Dash
    /\ \A i \in 1..(Len(s) - 1) : ~(s[i] = Dash /\ s[i + 1] = Dash)

NameTypeOK ==
    /\ raw \in Seq(Chars) /\ pos \in 0..Len(raw)
    /\ naming \in {"idle", "scan", "trim", "done"}
    /\ lastDash \in BOOLEAN

\* The loop invariant of sanitize_dns_label.
LoopInv ==
    /\ WellFormed(out)
    /\ naming = "scan" => Len(out) < MaxLen /\ (lastDash <=> NoDashNow(out))

\* A name in normal form is copied character by character, up to its end.
CopyInv == IsNormal(raw) =>
    /\ naming \in {"scan", "trim"} => Len(out) = pos /\ \A i \in 1..pos : out[i] = raw[i]
    /\ naming = "trim" => pos = Len(raw)

NameInv == NameTypeOK /\ LoopInv /\ CopyInv /\ AlwaysALabel /\ Idempotent

-----------------------------------------------------------------------------
(* Lemmas about the sequences the loop builds.                             *)

\* A well-formed sequence stays well formed when a letter is added, or a dash after a
\* letter.
LEMMA AppendWellFormed ==
    ASSUME NEW s, WellFormed(s), Len(s) < MaxLen,
           NEW c \in LabelChars, c = Dash => ~NoDashNow(s)
    PROVE  WellFormed(Append(s, c))
<1> DEFINE t == Append(s, c)
<1>1. s \in Seq(LabelChars) /\ t \in Seq(LabelChars) /\ Len(t) = Len(s) + 1 /\ Len(s) \in Nat
  BY DEF WellFormed
<1>2. \A i \in 1..Len(s) : t[i] = s[i]
  BY <1>1
<1>3. t[Len(s) + 1] = c
  BY <1>1
<1>4. Len(t) <= MaxLen
  BY <1>1, LengthAssumption
<1>5. t[1] # Dash
  <2>1. CASE s = <<>>
    BY <1>1, <1>3, <2>1 DEF NoDashNow
  <2>2. CASE s # <<>>
    <3>1. 1 \in 1..Len(s)  BY <1>1, <2>2
    <3> QED  BY <1>2, <3>1, <2>2 DEF WellFormed
  <2> QED  BY <2>1, <2>2
<1>6. ASSUME NEW i \in 1..(Len(t) - 1), t[i] = Dash, t[i + 1] = Dash
      PROVE  FALSE
  <2>1. i \in 1..Len(s)  BY <1>1
  <2>2. CASE i < Len(s)
    <3>1. i + 1 \in 1..Len(s) /\ i \in 1..(Len(s) - 1)  BY <1>1, <2>1, <2>2
    <3>2. s[i] = Dash /\ s[i + 1] = Dash  BY <1>2, <1>6, <2>1, <3>1
    <3> QED  BY <3>1, <3>2 DEF WellFormed
  <2>3. CASE i = Len(s)
    <3>1. c = Dash /\ s[Len(s)] = Dash  BY <1>2, <1>3, <1>6, <2>1, <2>3
    <3> QED  BY <3>1 DEF NoDashNow
  <2> QED  BY <1>1, <2>1, <2>2, <2>3
<1> QED  BY <1>1, <1>4, <1>5, <1>6 DEF WellFormed

\* Dropping the last element keeps a sequence well formed.
LEMMA FrontWellFormed ==
    ASSUME NEW s, WellFormed(s), s # <<>>
    PROVE  WellFormed(SubSeq(s, 1, Len(s) - 1))
<1> DEFINE t == SubSeq(s, 1, Len(s) - 1)
<1>1. s \in Seq(LabelChars) /\ Len(s) \in Nat \ {0}
  BY DEF WellFormed
<1>2. t \in Seq(LabelChars) /\ Len(t) = Len(s) - 1 /\ \A i \in 1..Len(t) : t[i] = s[i]
  <2>1. PICK k \in Nat : Len(s) = k + 1  BY <1>1
  <2>2. Len(s) - 1 = k  BY <2>1
  <2>3. \A i \in 1..k : s[i] \in LabelChars  BY <1>1, <2>1
  <2>4. SubSeq(s, 1, k) \in Seq(LabelChars) /\ Len(SubSeq(s, 1, k)) = IF 1 <= k THEN k - 1 + 1 ELSE 0
    BY <2>3, SubSeqProperties
  <2>5. \A i \in 1..(k - 1 + 1) : SubSeq(s, 1, k)[i] = s[1 + i - 1]
    BY <2>3, SubSeqProperties
  <2>6. (IF 1 <= k THEN k - 1 + 1 ELSE 0) = k  BY <2>1
  <2>7. Len(SubSeq(s, 1, k)) = k  BY <2>4, <2>6
  <2>8. ASSUME NEW i \in 1..k PROVE SubSeq(s, 1, k)[i] = s[i]
    <3>1. i \in 1..(k - 1 + 1) /\ 1 + i - 1 = i  OBVIOUS
    <3> QED  BY <2>5, <3>1
  <2> QED  BY <2>2, <2>4, <2>7, <2>8
<1>3. Len(t) <= MaxLen
  BY <1>1, <1>2, LengthAssumption DEF WellFormed
<1>4. t # <<>> => t[1] # Dash
  BY <1>1, <1>2 DEF WellFormed
<1>5. ASSUME NEW i \in 1..(Len(t) - 1) PROVE ~(t[i] = Dash /\ t[i + 1] = Dash)
  <2>1. i \in 1..Len(t) /\ i + 1 \in 1..Len(t) /\ i \in 1..(Len(s) - 1)
    BY <1>1, <1>2
  <2> QED  BY <1>2, <2>1 DEF WellFormed
<1> QED  BY <1>2, <1>3, <1>4, <1>5 DEF WellFormed

\* A well-formed sequence that is not empty and does not end in a dash is a label.
LEMMA WellFormedIsNormal ==
    ASSUME NEW s, WellFormed(s), s # <<>>, s[Len(s)] # Dash
    PROVE  IsNormal(s)
BY LengthAssumption DEF WellFormed, IsNormal, IsDnsLabel, LabelChars

\* A name in normal form has only characters that lower case leaves alone.
LEMMA NormalChars ==
    ASSUME NEW s, IsNormal(s), NEW i \in 1..Len(s)
    PROVE  LowerOf[s[i]] = s[i] /\ (s[i] \in Alnum \/ s[i] = Dash)
BY CharAssumption DEF IsNormal, IsDnsLabel

-----------------------------------------------------------------------------
(* The invariant.                                                          *)

\* Before a name is asked for nothing is kept.
LEMMA InitName == NamingIdle => NameInv
<1> SUFFICES ASSUME NamingIdle PROVE NameInv
  OBVIOUS
<1>1. WellFormed(<<>>)  BY LengthAssumption DEF WellFormed
<1> QED  BY <1>1 DEF NamingIdle, NameInv, NameTypeOK, LoopInv, CopyInv, AlwaysALabel,
               Idempotent, IsNormal, IsDnsLabel, SuppressLeading

\* What a turn that pushes a character does to the invariant.
LEMMA PushStep ==
    ASSUME NameInv, MoreToRead, NEW c \in LabelChars, c = Dash => ~lastDash,
           IsNormal(raw) => c = raw[pos + 1],
           out' = Append(out, c), lastDash' = (c = Dash), EndTurn
    PROVE  NameInv'
<1>1. /\ naming = "scan" /\ pos \in Nat /\ pos < Len(raw) /\ raw \in Seq(Chars)
      /\ pos' = pos + 1 /\ raw' = raw /\ Len(raw) \in Nat
      /\ naming' = IF Len(out') = MaxLen THEN "trim" ELSE "scan"
  BY DEF NameInv, NameTypeOK, MoreToRead, EndTurn, AfterChar
<1>2. /\ out \in Seq(LabelChars) /\ Len(out) \in Nat /\ Len(out) < MaxLen
      /\ WellFormed(out) /\ (lastDash <=> NoDashNow(out))
  BY <1>1 DEF NameInv, LoopInv, WellFormed
<1>3. /\ Len(out') = Len(out) + 1 /\ out'[Len(out')] = c /\ out' # <<>>
      /\ \A i \in 1..Len(out) : out'[i] = out[i]
  BY <1>2
<1>4. WellFormed(out')
  BY <1>2, AppendWellFormed
<1>5. NameTypeOK'
  BY <1>1 DEF NameTypeOK
<1>6. LoopInv'
  <2>1. naming' = "scan" => Len(out') < MaxLen
    BY <1>1, <1>2, <1>3, LengthAssumption
  <2>2. lastDash' <=> NoDashNow(out')
    BY <1>3 DEF NoDashNow
  <2> QED  BY <1>4, <2>1, <2>2 DEF LoopInv
<1>7. CopyInv'
  <2> SUFFICES ASSUME IsNormal(raw)
               PROVE  /\ Len(out') = pos' /\ \A i \in 1..pos' : out'[i] = raw[i]
                      /\ naming' = "trim" => pos' = Len(raw)
    BY <1>1 DEF CopyInv
  <2>1. Len(out) = pos /\ \A i \in 1..pos : out[i] = raw[i]
    BY <1>1 DEF NameInv, CopyInv
  <2>2. Len(out') = pos'
    BY <1>1, <1>3, <2>1
  <2>3. ASSUME NEW i \in 1..pos' PROVE out'[i] = raw[i]
    <3>1. CASE i \in 1..pos  BY <1>3, <2>1, <3>1
    <3>2. CASE i = pos + 1
      <4>1. i = Len(out') /\ c = raw[i]  BY <1>3, <2>1, <3>2
      <4> QED  BY <1>3, <4>1
    <3>3. i \in 1..(pos + 1)  BY <1>1
    <3>4. i \in 1..pos \/ i = pos + 1  BY <1>1, <3>3
    <3> QED  BY <3>1, <3>2, <3>4
  <2>4. naming' = "trim" => pos' = Len(raw)
    <3>1. Len(raw) <= MaxLen  BY LengthAssumption DEF IsNormal, IsDnsLabel
    <3> QED  BY <1>1, <2>2, <3>1, LengthAssumption
  <2> QED  BY <2>2, <2>3, <2>4
<1>8. AlwaysALabel' /\ Idempotent'
  BY <1>1 DEF AlwaysALabel, Idempotent
<1> QED  BY <1>5, <1>6, <1>7, <1>8 DEF NameInv

\* Every step keeps the invariant.
LEMMA StepName == NameInv /\ [NameNext]_nameVars => NameInv'
<1> SUFFICES ASSUME NameInv, [NameNext]_nameVars PROVE NameInv'
  OBVIOUS
<1>t. NameTypeOK /\ LoopInv /\ CopyInv  BY DEF NameInv
<1>1. ASSUME NEW s \in RawNames, Sanitize(s) PROVE NameInv'
  <2>1. /\ raw' \in Seq(Chars) /\ pos' = 0 /\ out' = <<>> /\ lastDash' = TRUE
        /\ naming' = "scan"
    BY <1>1, NameAssumption DEF Sanitize, SuppressLeading
  <2>2. WellFormed(out')  BY <2>1, LengthAssumption DEF WellFormed
  <2> QED  BY <2>1, <2>2, LengthAssumption
           DEF NameInv, NameTypeOK, LoopInv, CopyInv, AlwaysALabel, Idempotent, NoDashNow
<1>2. CASE KeepChar
  <2>1. Current \in LabelChars /\ Current # Dash /\ MoreToRead
    BY <1>2, CharAssumption DEF KeepChar, LabelChars
  <2>2. IsNormal(raw) => Current = raw[pos + 1]
    <3>1. pos + 1 \in 1..Len(raw)  BY <1>t, <2>1 DEF NameTypeOK, MoreToRead
    <3> QED  BY <3>1, NormalChars DEF Current
  <2> QED  BY <1>2, <2>1, <2>2, PushStep DEF KeepChar
<1>3. CASE PushDash
  <2>1. Dash \in LabelChars /\ MoreToRead  BY <1>3 DEF PushDash, LabelChars
  <2>2. IsNormal(raw) => Dash = raw[pos + 1]
    <3>1. pos + 1 \in 1..Len(raw)  BY <1>t, <2>1 DEF NameTypeOK, MoreToRead
    <3> QED  BY <1>3, <3>1, NormalChars DEF PushDash, Current
  <2> QED  BY <1>3, <2>1, <2>2, PushStep DEF PushDash
<1>4. CASE DropChar
  <2>1. /\ naming = "scan" /\ naming' = "scan" /\ pos \in Nat /\ pos < Len(raw) /\ pos' = pos + 1
        /\ raw' = raw /\ Len(raw) \in Nat /\ UNCHANGED <<out, lastDash, label>> /\ lastDash
    BY <1>t, <1>4 DEF DropChar, MoreToRead, EndTurn, AfterChar, NameTypeOK, LoopInv
  <2>2. ~IsNormal(raw)
    <3> SUFFICES ASSUME IsNormal(raw) PROVE FALSE
      OBVIOUS
    <3>1. pos + 1 \in 1..Len(raw)  BY <2>1
    <3>2. raw[pos + 1] = Dash
      BY <1>4, <3>1, NormalChars DEF DropChar, Current
    <3>3. Len(out) = pos /\ (\A i \in 1..pos : out[i] = raw[i]) /\ NoDashNow(out)
      BY <1>t, <2>1 DEF CopyInv, LoopInv
    <3>4. CASE pos = 0
      BY <3>2, <3>4 DEF IsNormal, IsDnsLabel
    <3>5. CASE pos # 0
      <4>1. pos \in 1..pos /\ pos \in 1..(Len(raw) - 1) /\ out # <<>>
        BY <2>1, <3>3, <3>5
      <4>2. raw[pos] = Dash  BY <3>3, <4>1 DEF NoDashNow
      <4> QED  BY <3>2, <4>1, <4>2 DEF IsNormal
    <3> QED  BY <3>4, <3>5
  <2> QED  BY <1>t, <2>1, <2>2
           DEF NameInv, NameTypeOK, LoopInv, CopyInv, AlwaysALabel, Idempotent
<1>5. CASE EndOfName
  BY <1>5, <1>t DEF EndOfName, NameInv, NameTypeOK, LoopInv, CopyInv, AlwaysALabel, Idempotent
<1>6. CASE TrimDash
  <2>1. /\ naming = "trim" /\ naming' = "trim" /\ EndsInDash
        /\ out' = SubSeq(out, 1, Len(out) - 1) /\ UNCHANGED <<raw, pos, lastDash, label>>
    BY <1>6 DEF TrimDash
  <2>2. WellFormed(out')  BY <1>t, <2>1, FrontWellFormed DEF EndsInDash, LoopInv
  <2>3. ~IsNormal(raw)
    <3> SUFFICES ASSUME IsNormal(raw) PROVE FALSE
      OBVIOUS
    <3>1. Len(out) = Len(raw) /\ (\A i \in 1..Len(raw) : out[i] = raw[i])
      BY <1>t, <2>1 DEF CopyInv
    <3> QED  BY <2>1, <3>1, LengthAssumption DEF EndsInDash, IsNormal, IsDnsLabel
  <2> QED  BY <1>t, <2>1, <2>2, <2>3
           DEF NameInv, NameTypeOK, LoopInv, CopyInv, AlwaysALabel, Idempotent
<1>7. CASE Return
  <2>1. /\ naming = "trim" /\ naming' = "done" /\ ~EndsInDash
        /\ label' = (IF out = <<>> THEN Fallback ELSE out) /\ UNCHANGED <<raw, pos, out, lastDash>>
    BY <1>7 DEF Return, OrFallback
  <2>2. IsNormal(label')
    BY <1>t, <2>1, WellFormedIsNormal, FallbackAssumption DEF LoopInv, EndsInDash
  <2>3. ASSUME IsNormal(raw) PROVE label' = raw
    <3>1. Len(out) = Len(raw) /\ (\A i \in 1..Len(raw) : out[i] = raw[i])
      BY <1>t, <2>1, <2>3 DEF CopyInv
    <3>2. Len(raw) # 0 /\ raw \in Seq(LabelChars) /\ out \in Seq(LabelChars)
      BY <1>t, <2>3, LengthAssumption DEF IsNormal, IsDnsLabel, LabelChars, LoopInv, WellFormed
    <3>3. out = raw  BY <3>1, <3>2, SeqEqual
    <3> QED  BY <2>1, <3>2, <3>3
  <2> QED  BY <1>t, <2>1, <2>2, <2>3
           DEF NameInv, NameTypeOK, LoopInv, CopyInv, AlwaysALabel, Idempotent, IsNormal
<1>8. CASE UNCHANGED nameVars
  BY <1>8 DEF nameVars, NameInv, NameTypeOK, LoopInv, CopyInv, AlwaysALabel, Idempotent
<1>9. CASE Forget
  <2>1. WellFormed(<<>>)  BY LengthAssumption DEF WellFormed
  <2> QED  BY <1>9, <2>1 DEF Forget, NameInv, NameTypeOK, LoopInv, CopyInv, AlwaysALabel,
               Idempotent, SuppressLeading
<1> QED  BY <1>1, <1>2, <1>3, <1>4, <1>5, <1>6, <1>7, <1>8, <1>9 DEF NameNext, SanitizeStep

\* Whatever a source is called, sanitize_dns_label returns a DNS label: the promise of
\* its doc comment, at every limit.
THEOREM NameIsALabel == NameSpec => []AlwaysALabel
<1>1. NameInv => AlwaysALabel  BY DEF NameInv
<1> QED  BY <1>1, InitName, StepName, PTL DEF NameSpec

\* A name sanitize_dns_label returned once is returned again: drafting the same source
\* twice names the same workload.
THEOREM NameIsStable == NameSpec => []Idempotent
<1>1. NameInv => Idempotent  BY DEF NameInv
<1> QED  BY <1>1, InitName, StepName, PTL DEF NameSpec

-----------------------------------------------------------------------------
(* From the name to the store.                                             *)

\* Only a component of a workload is drafted.
DraftedKind == (naming # "idle" \/ phase # "none") => kind = "Component"

DraftInv ==
    /\ DraftedKind
    /\ handEdits \in Nat
    /\ phase = "drafted" /\ handEdits = 0 => Faults(draft) = {}
    /\ phase = "refused" => errs = Faults(draft) /\ handEdits > 0
    /\ phase = "repaired" => Faults(draft) = {}
    /\ phase # "refused again"

LEMMA InitDraft == WorkloadInit => DraftInv
BY DEF WorkloadInit, NamingIdle, DraftInv, DraftedKind

\* The naming half takes the steps of DnsLabel.
LEMMA NamingStep == [WorkloadNext]_workloadVars => [NameNext]_nameVars
BY DEF WorkloadNext, workloadVars, OfferName, MakeDraft, HandEdit, Validate, Correct, Apply,
       DocStep, DaemonStep, NameNext, nameVars

\* A workload with nothing wrong has no faults.
LEMMA NoFaults ==
    ASSUME NEW w, w.apiVersion = "v1alpha1", w.kind = "Workload", IsDnsLabel(w.name),
           IsDnsLabel(w.namespace), DOMAIN w.components # {}, w.service # "no image",
           \A i \in DOMAIN w.components :
              w.components[i].name # <<>> /\ w.components[i].image # ""
    PROVE  Faults(w) = {}
<1>1. \A i \in DOMAIN w.components : ComponentFaults(w.components[i]) = {}
  BY Zenon DEF ComponentFaults
<1>2. UNION {ComponentFaults(w.components[i]) : i \in DOMAIN w.components} = {}
  BY <1>1
<1>3. \A e \in {"apiVersion", "kind", "name", "namespace", "components", "service image"} :
        ~ (\/ e = "apiVersion" /\ w.apiVersion # "v1alpha1"
           \/ e = "kind" /\ w.kind # "Workload"
           \/ e = "name" /\ ~IsDnsLabel(w.name)
           \/ e = "namespace" /\ ~IsDnsLabel(w.namespace)
           \/ e = "components" /\ DOMAIN w.components = {}
           \/ e = "service image" /\ w.service = "no image")
  BY Zenon
<1> QED  BY <1>2, <1>3, Zenon DEF Faults

\* What a fault that is not reported means.
LEMMA Unreported ==
    ASSUME NEW w
    PROVE  /\ "name" \notin Faults(w) => IsDnsLabel(w.name)
           /\ "namespace" \notin Faults(w) => IsDnsLabel(w.namespace)
           /\ "components" \notin Faults(w) => DOMAIN w.components # {}
           /\ \A i \in DOMAIN w.components :
                 /\ w.components[i].name = <<>> => "component name" \in Faults(w)
                 /\ w.components[i].image = "" => "component image" \in Faults(w)
<1>1. ASSUME NEW i \in DOMAIN w.components, w.components[i].name = <<>>
      PROVE  "component name" \in Faults(w)
  <2>1. "component name" \in ComponentFaults(w.components[i])
    BY <1>1, Zenon DEF ComponentFaults
  <2> QED  BY <2>1, Zenon DEF Faults
<1>2. ASSUME NEW i \in DOMAIN w.components, w.components[i].image = ""
      PROVE  "component image" \in Faults(w)
  <2>1. "component image" \in ComponentFaults(w.components[i])
    BY <1>2, Zenon DEF ComponentFaults
  <2> QED  BY <2>1, Zenon DEF Faults
<1>3. /\ "name" \notin Faults(w) => IsDnsLabel(w.name)
      /\ "namespace" \notin Faults(w) => IsDnsLabel(w.namespace)
      /\ "components" \notin Faults(w) => DOMAIN w.components # {}
  BY Zenon DEF Faults
<1> QED  BY <1>1, <1>2, <1>3

\* What is made of a label validates.
LEMMA SingleComponentValid ==
    ASSUME NEW l, IsDnsLabel(l)
    PROVE  Faults(SingleComponent(l, OwnNamespace)) = {}
<1> DEFINE w == SingleComponent(l, OwnNamespace)
<1>1. /\ w.apiVersion = "v1alpha1" /\ w.kind = "Workload" /\ w.name = l
      /\ w.namespace = OwnNamespace /\ w.service = "none"
      /\ w.components = <<[name |-> l, image |-> "v"]>>
  BY DEF SingleComponent, NewWorkload
<1>2. l # <<>>  BY LengthAssumption DEF IsDnsLabel
<1>3. DOMAIN w.components = {1} /\ w.components[1] = [name |-> l, image |-> "v"]
  BY <1>1
<1> HIDE DEF w
<1>4. \A i \in DOMAIN w.components : w.components[i] = [name |-> l, image |-> "v"]
  BY <1>3
<1>5. \A i \in DOMAIN w.components :
        w.components[i].name # <<>> /\ w.components[i].image # ""
  <2> TAKE i \in DOMAIN w.components
  <2>1. w.components[i].name = l /\ w.components[i].image = "v"
    BY <1>4
  <2> QED  BY <2>1, <1>2
<1>6. /\ IsDnsLabel(w.name) /\ IsDnsLabel(w.namespace)
      /\ DOMAIN w.components # {} /\ w.service # "no image"
  BY <1>1, <1>3, NamespaceAssumption
<1>7. Faults(w) = {}
  BY <1>1, <1>5, <1>6, NoFaults, Zenon
<1> QED  BY <1>7 DEF w

\* Correcting what was reported leaves nothing to report.
LEMMA CorrectedValid ==
    ASSUME NEW w
    PROVE  Faults(Corrected(w, Faults(w))) = {}
<1> DEFINE c == Corrected(w, Faults(w))
<1>1. c.apiVersion = "v1alpha1" /\ c.kind = "Workload"
  BY DEF Corrected, Faults
<1>2. IsDnsLabel(c.name)
  BY FallbackAssumption, Unreported DEF Corrected, IsNormal
<1>3. IsDnsLabel(c.namespace)
  BY NamespaceAssumption, Unreported DEF Corrected
<1>4. c.service # "no image"
  BY DEF Corrected, Faults
<1>5. Fallback # <<>>
  BY FallbackAssumption, LengthAssumption DEF IsNormal, IsDnsLabel
<1>6. /\ DOMAIN c.components # {}
      /\ \A i \in DOMAIN c.components : c.components[i].name # <<>> /\ c.components[i].image # ""
  <2>1. CASE "components" \in Faults(w)
    <3>1. c.components = <<[name |-> Fallback, image |-> "v"]>>
      BY <2>1 DEF Corrected
    <3> HIDE DEF c
    <3>2. DOMAIN c.components = {1} /\ c.components[1] = [name |-> Fallback, image |-> "v"]
      BY <3>1
    <3>3. ASSUME NEW i \in DOMAIN c.components
          PROVE  c.components[i].name # <<>> /\ c.components[i].image # ""
      <4>1. c.components[i] = [name |-> Fallback, image |-> "v"]
        BY <3>2
      <4>2. c.components[i].name = Fallback /\ c.components[i].image = "v"
        BY <4>1
      <4> QED  BY <1>5, <4>2
    <3> QED  BY <3>2, <3>3
  <2>2. CASE "components" \notin Faults(w)
    <3>1. DOMAIN w.components # {}
      BY <2>2, Unreported
    <3>2. c.components = [i \in DOMAIN w.components |->
                            [name  |-> IF "component name" \in Faults(w) THEN Fallback
                                       ELSE w.components[i].name,
                             image |-> IF "component image" \in Faults(w) THEN "v"
                                       ELSE w.components[i].image]]
      BY <2>2 DEF Corrected
    <3> HIDE DEF c
    <3>3. ASSUME NEW i \in DOMAIN w.components
          PROVE  c.components[i].name # <<>> /\ c.components[i].image # ""
      <4>1. /\ w.components[i].name = <<>> => "component name" \in Faults(w)
            /\ w.components[i].image = "" => "component image" \in Faults(w)
        BY Unreported
      <4> DEFINE n == IF "component name" \in Faults(w) THEN Fallback ELSE w.components[i].name
                 m == IF "component image" \in Faults(w) THEN "v" ELSE w.components[i].image
      <4>2. c.components[i] = [name |-> n, image |-> m]
        BY <3>2, Zenon
      <4>3. n # <<>> /\ m # ""
        BY <1>5, <4>1
      <4> HIDE DEF n, m
      <4>4. c.components[i].name = n /\ c.components[i].image = m
        BY <4>2
      <4> QED  BY <4>3, <4>4
    <3>4. DOMAIN c.components = DOMAIN w.components
      BY <3>2
    <3> QED  BY <3>1, <3>3, <3>4
  <2> QED  BY <2>1, <2>2
<1> HIDE DEF c
<1>7. Faults(c) = {}
  BY <1>1, <1>2, <1>3, <1>4, <1>6, NoFaults, Zenon
<1> QED  BY <1>7 DEF c

-----------------------------------------------------------------------------
(* The refinements.                                                        *)

\* Applying a draft is writing the drafted component into an empty store.
LEMMA DocumentStep ==
    ASSUME DraftedKind, [WorkloadNext]_workloadVars
    PROVE  [DocNext]_docVars
<1>1. CASE Apply
  <2>1. kind = "Component"
    BY <1>1 DEF Apply, DraftedKind
  <2>2. {Save("Component", DraftedComponent)} \subseteq Drafts(kind)
    BY <2>1, Zenon DEF Drafts
  <2>3. Draft(Drafts(kind))
    BY <1>1, <2>2, Zenon DEF Apply, Draft
  <2> QED  BY <2>3 DEF DocNext
<1>2. CASE DocStep
  BY <1>2 DEF DocStep
<1>3. CASE DaemonStep
  BY <1>3 DEF DaemonStep, DocNext
<1>4. CASE MakeDraft \/ HandEdit \/ Validate \/ Correct \/ OfferName
           \/ (SanitizeStep /\ UNCHANGED <<docVars, draftVars>>) \/ UNCHANGED workloadVars
  BY <1>4, Zenon DEF MakeDraft, HandEdit, Validate, Correct, OfferName, workloadVars
<1> QED  BY <1>1, <1>2, <1>3, <1>4 DEF WorkloadNext

\* The kind of the document never changes.
LEMMA SameKind == [WorkloadNext]_workloadVars => kind' = kind
BY DEF WorkloadNext, workloadVars, docVars, OfferName, MakeDraft, HandEdit, Validate, Correct,
       Apply, DocStep, DaemonStep, DocNext, Boot, Stop, Draft, Put, PutRefused, GetAndEdit

LEMMA StepKind == DraftedKind /\ [WorkloadNext]_workloadVars => DraftedKind'
<1> SUFFICES ASSUME DraftedKind, [WorkloadNext]_workloadVars, kind # "Component"
             PROVE  naming' = "idle" /\ phase' = "none"
  BY SameKind DEF DraftedKind
<1>1. naming = "idle" /\ phase = "none"
  BY DEF DraftedKind
<1> QED
  BY <1>1 DEF WorkloadNext, workloadVars, nameVars, draftVars, OfferName, MakeDraft, HandEdit,
              Validate, Correct, Apply, DocStep, DaemonStep, SanitizeStep, KeepChar, PushDash,
              DropChar, EndOfName, TrimDash, Return, MoreToRead, Forget

\* How a draft gets from its label to the daemon.
LEMMA StepDraft ==
    DraftInv /\ AlwaysALabel /\ [WorkloadNext]_workloadVars => DraftInv'
<1> SUFFICES ASSUME DraftInv, AlwaysALabel, [WorkloadNext]_workloadVars
             PROVE  DraftInv'
  OBVIOUS
<1>0. DraftedKind'
  BY StepKind DEF DraftInv
<1>1. CASE MakeDraft
  <2>1. Faults(draft') = {} /\ phase' = "drafted" /\ handEdits' = 0
    BY <1>1, SingleComponentValid DEF MakeDraft, Forget, AlwaysALabel
  <2> QED  BY <1>0, <2>1 DEF DraftInv
<1>2. CASE HandEdit
  <2>1. phase' = "drafted" /\ handEdits' = handEdits + 1 /\ handEdits \in Nat
    BY <1>2 DEF HandEdit, DraftInv
  <2>2. handEdits' \in Nat /\ handEdits' # 0
    BY <2>1
  <2> QED  BY <1>0, <2>1, <2>2 DEF DraftInv
<1>3. CASE Validate
  <2>1. errs' = Faults(draft) /\ draft' = draft /\ handEdits' = handEdits
    BY <1>3 DEF Validate
  <2>2. CASE Faults(draft) = {}
    <3>1. phase' = "valid"
      BY <1>3, <2>1, <2>2 DEF Validate
    <3> QED  BY <1>0, <2>1, <3>1 DEF DraftInv
  <2>3. CASE Faults(draft) # {}
    <3>1. phase = "drafted" /\ handEdits > 0
      <4>1. phase = "drafted"
        BY <1>3, <2>3 DEF Validate, DraftInv
      <4>2. handEdits # 0 /\ handEdits \in Nat
        BY <2>3, <4>1 DEF DraftInv
      <4> QED  BY <4>1, <4>2
    <3>2. phase' = "refused"
      BY <1>3, <2>1, <2>3, <3>1 DEF Validate
    <3>3. /\ errs' = Faults(draft') /\ handEdits' > 0 /\ handEdits' \in Nat
          /\ phase' = "refused"
      BY <2>1, <3>1, <3>2 DEF DraftInv
    <3> QED  BY <1>0, <3>3 DEF DraftInv
  <2> QED  BY <2>2, <2>3
<1>4. CASE Correct
  <2>1. /\ errs = Faults(draft) /\ draft' = Corrected(draft, errs)
        /\ phase' = "repaired" /\ handEdits' = handEdits
    BY <1>4 DEF Correct, DraftInv
  <2>2. Faults(draft') = {}
    BY <2>1, CorrectedValid
  <2> QED  BY <1>0, <2>1, <2>2 DEF DraftInv
<1>5. CASE Apply
  <2>1. phase' = "none" /\ handEdits' = 0
    BY <1>5 DEF Apply
  <2> QED  BY <1>0, <2>1 DEF DraftInv
<1>6. CASE UNCHANGED draftVars
  BY <1>0, <1>6 DEF DraftInv, draftVars
<1>7. UNCHANGED draftVars \/ MakeDraft \/ HandEdit \/ Validate \/ Correct \/ Apply
  BY DEF WorkloadNext, workloadVars, OfferName, DocStep, DaemonStep
<1> QED  BY <1>1, <1>2, <1>3, <1>4, <1>5, <1>6, <1>7

-----------------------------------------------------------------------------
\* Making a draft uses sanitize_dns_label as anyone may: a behaviour of the whole is
\* one of the function.
THEOREM WorkloadsNameAsLabels == WorkloadSpecification => NameSpec
<1>1. WorkloadInit => NamingIdle
  BY DEF WorkloadInit
<1> QED  BY <1>1, NamingStep, PTL DEF WorkloadSpecification, NameSpec

\* Drafting, validating and applying a workload is, to the daemon and its store, a client
\* that puts a document: what is proved of documents holds of applied drafts.
THEOREM WorkloadsAreDocuments == WorkloadSpecification => DocSpec
<1>1. WorkloadInit => DocInit /\ DraftedKind
  BY InitDraft DEF WorkloadInit, DraftInv
<1> QED  BY <1>1, DocumentStep, StepKind, PTL DEF WorkloadSpecification, DocSpec

LEMMA DraftsAreSound == WorkloadSpecification => []DraftInv
<1>1. WorkloadSpecification => []AlwaysALabel
  BY WorkloadsNameAsLabels, NameIsALabel, PTL
<1> QED  BY <1>1, InitDraft, StepDraft, PTL DEF WorkloadSpecification

\* Whatever name a source has, validate accepts the draft made from it.
THEOREM DraftsAreAccepted == WorkloadSpecification => []DraftsValidate
<1>1. DraftInv => DraftsValidate
  BY DEF DraftInv, DraftsValidate
<1> QED  BY <1>1, DraftsAreSound, PTL

\* Who corrects everything validate answered is not refused again.
THEOREM OneCorrectionIsEnough == WorkloadSpecification => []CorrectedOnce
<1>1. DraftInv => CorrectedOnce
  BY DEF DraftInv, CorrectedOnce
<1> QED  BY <1>1, DraftsAreSound, PTL
=============================================================================
