------------------------------ MODULE DnsLabel ------------------------------
(***************************************************************************)
(* sanitize_dns_label and is_dns_label (cosmonic-api, src/workload.rs):    *)
(* how any text a source offers as a name becomes the name of a workload.  *)
(* One action per turn of the loop.  A character is an element of Chars,   *)
(* LowerOf is to_ascii_lowercase, and the limit of 63 is MaxLen.           *)
(***************************************************************************)
EXTENDS Integers, Sequences

CONSTANTS
    Chars,       \* the characters of a raw name
    LowerOf,     \* each character in lower case
    Alnum,       \* the lower case letters and the digits
    Dash,
    MaxLen,      \* the longest label
    Fallback,    \* "component"
    RawNames,    \* the names the sources offer
    Blank        \* no label yet

\* A label: non-empty, not too long, letters, digits and dashes, no dash at an end.
IsDnsLabel(s) ==
    /\ s \in Seq(Alnum \cup {Dash})
    /\ Len(s) \in 1..MaxLen
    /\ s[1] # Dash /\ s[Len(s)] # Dash

\* A label sanitize_dns_label can yield has no two dashes in a row either.
IsNormal(s) == IsDnsLabel(s) /\ \A i \in 1..(Len(s) - 1) : ~(s[i] = Dash /\ s[i + 1] = Dash)

ASSUME CharAssumption ==
    /\ Alnum \subseteq Chars /\ Dash \in Chars \ Alnum
    /\ LowerOf \in [Chars -> Chars]
    /\ \A c \in Alnum \cup {Dash} : LowerOf[c] = c
ASSUME LengthAssumption   == MaxLen \in Nat \ {0}
ASSUME FallbackAssumption == IsNormal(Fallback)
ASSUME NameAssumption     == RawNames \subseteq Seq(Chars)

VARIABLES
    raw,        \* the argument s
    pos,        \* characters taken from it
    out,
    lastDash,   \* last_dash
    naming,     \* where the function is: "idle", "scan", "trim", "done"
    label       \* what it returned

nameVars == <<raw, pos, out, lastDash, naming, label>>

\* `let mut last_dash = true`: suppress leading dashes.
SuppressLeading == TRUE

NamingIdle ==
    /\ raw = <<>> /\ pos = 0 /\ out = <<>>
    /\ lastDash = SuppressLeading /\ naming = "idle" /\ label = Blank

\* A draft or a project asks for a name.
Sanitize(s) ==
    /\ naming = "idle"
    /\ raw' = s /\ pos' = 0 /\ out' = <<>>
    /\ lastDash' = SuppressLeading /\ naming' = "scan" /\ label' = Blank

Current == LowerOf[raw[pos + 1]]

\* `if out.len() == 63 { break; }`, at the end of every turn.
AfterChar(s) == IF Len(s) = MaxLen THEN "trim" ELSE "scan"

\* The turns that remain, and what every turn does last.
MoreToRead == naming = "scan" /\ pos < Len(raw)

EndTurn ==
    /\ pos' = pos + 1 /\ naming' = AfterChar(out')
    /\ UNCHANGED <<raw, label>>

\* A letter or a digit is kept.
KeepChar ==
    /\ MoreToRead
    /\ Current \in Alnum
    /\ out' = Append(out, Current) /\ lastDash' = FALSE
    /\ EndTurn

\* Mutant: only leading dashes are suppressed, not those in a run.
PushDash_Run ==
    /\ MoreToRead
    /\ Current \notin Alnum /\ out # <<>>
    /\ out' = Append(out, Dash) /\ lastDash' = TRUE
    /\ EndTurn

\* The first of a run of other characters becomes a dash.
PushDash ==
    /\ MoreToRead
    /\ Current \notin Alnum /\ ~lastDash
    /\ out' = Append(out, Dash) /\ lastDash' = TRUE
    /\ EndTurn

\* The rest of the run, and what leads the name, is dropped.
DropChar ==
    /\ MoreToRead
    /\ Current \notin Alnum /\ lastDash
    /\ UNCHANGED <<out, lastDash>>
    /\ EndTurn

EndOfName ==
    /\ naming = "scan" /\ pos = Len(raw)
    /\ naming' = "trim"
    /\ UNCHANGED <<raw, pos, out, lastDash, label>>

\* Mutant: the trailing dash is trimmed only when the whole name was read.
EndsInDash_UncutOnly == out # <<>> /\ out[Len(out)] = Dash /\ pos = Len(raw)

EndsInDash == out # <<>> /\ out[Len(out)] = Dash

TrimDash ==
    /\ naming = "trim" /\ EndsInDash
    /\ out' = SubSeq(out, 1, Len(out) - 1)
    /\ UNCHANGED <<raw, pos, lastDash, naming, label>>

OrFallback(s) == IF s = <<>> THEN Fallback ELSE s

Return ==
    /\ naming = "trim" /\ ~EndsInDash
    /\ label' = OrFallback(out) /\ naming' = "done"
    /\ UNCHANGED <<raw, pos, out, lastDash>>

SanitizeStep == KeepChar \/ PushDash \/ DropChar \/ EndOfName \/ TrimDash \/ Return

\* The caller has the label.
Forget ==
    /\ naming = "done"
    /\ raw' = <<>> /\ pos' = 0 /\ out' = <<>>
    /\ lastDash' = SuppressLeading /\ naming' = "idle" /\ label' = Blank

NameNext == (\E s \in RawNames : Sanitize(s)) \/ SanitizeStep \/ Forget
NameSpec == NamingIdle /\ [][NameNext]_nameVars

-----------------------------------------------------------------------------
(* Properties.                                                             *)

\* "The output always satisfies is_dns_label", wherever the limit cuts the name and
\* however many dashes the cut exposes.
AlwaysALabel == naming = "done" => IsDnsLabel(label)

\* A name that came out of the function goes through it unchanged: a workload's name
\* given back to it names the same workload.
Idempotent == naming = "done" => IsNormal(label) /\ (IsNormal(raw) => label = raw)
=============================================================================
