----------------------------- MODULE Documents ------------------------------
(***************************************************************************)
(* The life of one document of cosmonic-api: the daemon loads its file, a  *)
(* client reads it, changes a key and puts it back, the daemon rewrites    *)
(* the file, and it may stop at any point.  What serde makes of a document *)
(* is in Parses, Load and Save, from the tables of WireTypes.              *)
(***************************************************************************)
EXTENDS Naturals, WireTypes

CONSTANTS
    Kinds,     \* the structs looked at
    MaxPuts    \* bound: documents accepted from clients

ASSUME KindAssumption == Kinds \subseteq DOMAIN Schema
ASSUME PutAssumption  == MaxPuts \in Nat

Fields(t) == DOMAIN Schema[t]

RequiredFields(t) == {f \in Fields(t) : Schema[t][f].absent = Missing}

\* A value of the struct.
Value(t, v) == DOMAIN v = Fields(t) /\ \A f \in Fields(t) : v[f] \in Schema[t][f].values

-----------------------------------------------------------------------------
(* serde.                                                                  *)

\* A key takes the values of its field, and null where the field is an Option.
Accepts(field, x) ==
    \/ x \in field.values \ {"none"}
    \/ x = "null" /\ "none" \in field.values

\* The keys of a document that name a field.
KeysFor(t, doc, f) == {k \in DOMAIN doc : Named(t, k) = f}

\* Every required field is there, none is there twice, under its name and its alias, and
\* every value fits.
Parses(t, doc) ==
    /\ \A f \in RequiredFields(t) : KeysFor(t, doc, f) # {}
    /\ \A k \in DOMAIN doc : Named(t, k) # k => Named(t, k) \notin DOMAIN doc
    /\ \A k \in DOMAIN doc : Named(t, k) \in Fields(t) => Accepts(Schema[t][Named(t, k)], doc[k])

Read(x) == IF x = "null" THEN "none" ELSE x

\* Keys that name no field are dropped.
Load(t, doc) ==
    [f \in Fields(t) |->
        IF KeysFor(t, doc, f) = {} THEN Schema[t][f].absent
        ELSE Read(doc[CHOOSE k \in KeysFor(t, doc, f) : TRUE])]

Written(t, v) == {f \in Fields(t) : v[f] \notin Schema[t][f].omitted}

Save(t, v) == [f \in Written(t, v) |-> v[f]]

-----------------------------------------------------------------------------
(* What a client sees of a document and what of it is the user's.          *)

\* What the daemon may have for the fields it fills in; it may change at any time.
OwnValues(t) ==
    {own \in [ReadOnly(t) -> UNION {Schema[t][f].values : f \in ReadOnly(t)}] :
        \A f \in ReadOnly(t) : own[f] \in Schema[t][f].values}

Shown(t, v, own) == [f \in Fields(t) |-> IF f \in ReadOnly(t) THEN own[f] ELSE v[f]]

\* The document without what the daemon fills in.
Users(t, v) ==
    [f \in Fields(t) |-> IF f \in ReadOnly(t) THEN Schema[t][f].absent ELSE v[f]]

-----------------------------------------------------------------------------
VARIABLES
    kind,      \* which struct
    filed,     \* there is a file
    disk,      \* what it holds
    stage,     \* "down"; the daemon runs and has no document: "unset"; has one: "set"
    live,      \* the user's document it works with
    edits,     \* the keys a client set in the document it is about to put
    held,      \* that document
    puts,
    seed,      \* the file as it was before the daemon first wrote it
    touched,   \* keys that accepted puts set
    last       \* the document as last accepted, or as the first file meant it

diskVars   == <<filed, disk>>
clientVars == <<edits, held, touched>>
ghostVars  == <<puts, seed, last>>
docVars    == <<kind, diskVars, stage, live, clientVars, ghostVars>>

NoDoc == [k \in {} |-> ""]

WithKey(doc, k, x) == [l \in DOMAIN doc \cup {k} |-> IF l = k THEN x ELSE doc[l]]
WithoutKey(doc, k) == [l \in DOMAIN doc \ {k} |-> doc[l]]

\* What an operator, another product or another version wrote: the required keys and
\* one more, which may be unknown here.
Bare(t) == [f \in RequiredFields(t) |-> "v"]

SeedKeys(t) == Fields(t) \cup Promised(t) \cup {"legacy"}

SeedDocs(t) ==
    {Bare(t)} \cup {WithKey(Bare(t), k, x) :
        k \in SeedKeys(t), x \in UNION {Schema[t][f].values : f \in Fields(t)} \cup {"null"}}

\* A document that may be missing has a Default, and nothing in it is required.
NeedsNoFile(t) == HasDefault(t) /\ RequiredFields(t) = {}

\* What the daemon has before anyone puts anything: the file's document, the Default of
\* a document that may be missing, or none.
Meaning(t, isFiled, doc) ==
    IF isFiled THEN Users(t, Load(t, doc)) ELSE IF NeedsNoFile(t) THEN DefaultOf(t) ELSE NoDoc

DocInit ==
    /\ kind \in Kinds
    /\ \/ filed = FALSE /\ disk = NoDoc
       \/ filed = TRUE /\ disk \in {doc \in SeedDocs(kind) : Parses(kind, doc)}
    /\ stage = "down" /\ live = NoDoc
    /\ edits = {} /\ held = NoDoc /\ touched = {}
    /\ puts = 0 /\ seed = disk /\ last = Meaning(kind, filed, disk)

Boot ==
    /\ stage = "down"
    /\ live' = Meaning(kind, filed, disk)
    /\ stage' = IF filed \/ NeedsNoFile(kind) THEN "set" ELSE "unset"
    /\ UNCHANGED <<kind, diskVars, clientVars, ghostVars>>

\* The daemon ends or crashes; a client keeps what it was editing.
Stop ==
    /\ stage # "down"
    /\ stage' = "down" /\ live' = NoDoc
    /\ UNCHANGED <<kind, diskVars, clientVars, ghostVars>>

\* GET answers the document with what the daemon fills in, and the client sets one key of
\* it or takes it out.
GetAndEdit(f) ==
    /\ stage = "set" /\ edits = {} /\ puts < MaxPuts
    /\ edits' = {f}
    /\ \E own \in OwnValues(kind) :
          LET got == Save(kind, Shown(kind, live, own))
          IN  \/ \E x \in Schema[kind][f].values \cup {"null"} : held' = WithKey(got, f, x)
              \/ held' = WithoutKey(got, f)
    /\ UNCHANGED <<kind, diskVars, stage, live, touched, ghostVars>>

\* A client writes a document where there is none: by hand, or the drafted component.
DraftedComponent ==
    [name |-> "v", image |-> "v", imagePullSecret |-> "none", imagePullPolicy |-> "none",
     poolSize |-> "1", maxConcurrency |-> "0", reclaimWindowSeconds |-> "0",
     reclaimMinInstances |-> "0", maxInvocations |-> "0", localResources |-> "v"]

Drafts(t) ==
    SeedDocs(t) \cup (IF t = "Component" THEN {Save(t, DraftedComponent)} ELSE {})

Draft(docs) ==
    /\ stage = "unset" /\ edits = {} /\ puts < MaxPuts
    /\ edits' = Fields(kind) /\ held' \in docs
    /\ UNCHANGED <<kind, diskVars, stage, live, touched, ghostVars>>

\* What the daemon takes of a body: not what it fills in itself, and not what its store
\* assigned or, for a new document, assigns now.
Taken(doc) ==
    [f \in Fields(kind) |->
        IF f \notin Assigned(kind) THEN Users(kind, Load(kind, doc))[f]
        ELSE IF stage = "set" THEN live[f] ELSE "v"]

\* Mutant: the body is taken without checking that it parses.
Put_Unchecked ==
    /\ stage # "down" /\ edits # {}
    /\ live' = Taken(held) /\ last' = live' /\ stage' = "set"
    /\ filed' = TRUE /\ disk' = Save(kind, live')
    /\ touched' = touched \cup edits
    /\ edits' = {} /\ held' = NoDoc /\ puts' = puts + 1
    /\ UNCHANGED <<kind, seed>>

\* Mutant: the body is taken as it was sent, with what GET had filled in.
Put_AsSent ==
    /\ stage # "down" /\ edits # {}
    /\ Parses(kind, held)
    /\ live' = Load(kind, held) /\ last' = live' /\ stage' = "set"
    /\ filed' = TRUE /\ disk' = Save(kind, live')
    /\ touched' = touched \cup edits
    /\ edits' = {} /\ held' = NoDoc /\ puts' = puts + 1
    /\ UNCHANGED <<kind, seed>>

\* PUT, or the POST of a new document: the file is rewritten whole.
Put ==
    /\ stage # "down" /\ edits # {}
    /\ Parses(kind, held)
    /\ live' = Taken(held) /\ last' = live' /\ stage' = "set"
    /\ filed' = TRUE /\ disk' = Save(kind, live')
    /\ touched' = touched \cup edits
    /\ edits' = {} /\ held' = NoDoc /\ puts' = puts + 1
    /\ UNCHANGED <<kind, seed>>

\* A body that does not parse, or that the daemon turns down (a label of the machine
\* layer, a reserved one), changes nothing.
PutRefused ==
    /\ stage # "down" /\ edits # {}
    /\ edits' = {} /\ held' = NoDoc
    /\ UNCHANGED <<kind, diskVars, stage, live, touched, ghostVars>>

DocNext ==
    \/ Boot \/ Stop \/ Draft(Drafts(kind)) \/ Put \/ PutRefused
    \/ \E f \in Fields(kind) : GetAndEdit(f)
DocSpec == DocInit /\ [][DocNext]_docVars

-----------------------------------------------------------------------------
(* Properties.                                                             *)

DocTypeOK ==
    /\ kind \in Kinds /\ filed \in BOOLEAN
    /\ stage \in {"down", "unset", "set"} /\ puts \in 0..MaxPuts
    /\ stage = "set" => Value(kind, live)
    /\ filed => Parses(kind, disk)
    /\ edits \cup touched \subseteq Fields(kind)

\* Whatever is left out of the file loads as what was left out: after any number of
\* puts and restarts the daemon has the document it last accepted.
RestartKeeps == stage = "set" => live = last

\* A client that changes one key of what it read changes one field, though every put
\* replaces the document, the keys at their defaults were never shown to it, and it sends
\* back what the daemon had filled in; nobody changes what the daemon or its store fills in.
EditIsLocal ==
    [][stage = "set" /\ stage' = "set" =>
        \A f \in Fields(kind) :
            f \notin edits \ (ReadOnly(kind) \cup Assigned(kind)) => live'[f] = live[f]]_docVars

\* The one field whose missing key has another meaning than its struct's Default: a
\* manifest without a namespace is in "default", Metadata::default() in "".
Divergent == {<<"Metadata", "namespace">>}

\* A key that may be missing and is not in the file means what the struct's Default says,
\* also when there is no file at all, with that one exception.
AbsentMeansDefault ==
    stage = "set" /\ HasDefault(kind) =>
        \A f \in Fields(kind) \ (RequiredFields(kind) \cup ReadOnly(kind)) :
            (~filed \/ KeysFor(kind, disk, f) = {}) =>
                (live[f] = DefaultOf(kind)[f] <=> <<kind, f>> \notin Divergent)

\* The daemon rewrites the file through its structs; what another product or an older
\* version wrote under a name it was promised is still there, unless a client changed it.
NothingIsStripped ==
    \A k \in DOMAIN seed \cap Promised(kind) :
        LET kept == KeysFor(kind, disk, Named(kind, k))
        IN  \/ Named(kind, k) \in touched
            \/ \E l \in kept : disk[l] = seed[k]
            \/ kept = {} /\ seed[k] \in {"null", "empty"}
=============================================================================
