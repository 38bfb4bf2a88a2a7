------------------------------- MODULE Skills -------------------------------
(***************************************************************************)
(* Skills over MCP (src/skills.rs, extension_method in src/server.rs): a   *)
(* client discovers the embedded skills through any of the channels the    *)
(* server offers and reads what they name.                                 *)
(*                                                                         *)
(* A URI skill://<skill>/<path> is a skill and the segments of its path;   *)
(* the empty path is skill://<skill>, a trailing slash an empty last       *)
(* segment.  The table of files is fixed at build time.                    *)
(***************************************************************************)
EXTENDS Naturals, Sequences

CONSTANTS Segments, \* what may stand between two slashes of a URI
          Tables,   \* the tables a build may embed: supporting files per skill
          Probes    \* the paths a client may ask for unprompted

SKILL_MD == <<"SKILL.md">>
Shaped   == {"", ".", ".."}      \* segments no file has

IsUnder(p, dir) == Len(p) > Len(dir) /\ SubSeq(p, 1, Len(dir)) = dir
Real(p)         == p # <<>> /\ \A i \in DOMAIN p : p[i] \notin Shaped

\* The vendoring script takes the files of a directory tree.
ASSUME TableAssumption ==
    \A t \in Tables : \A s \in DOMAIN t : \A p \in t[s] :
        /\ p \in Seq(Segments) /\ Real(p) /\ p # SKILL_MD
        /\ \A q \in t[s] \cup {SKILL_MD} : ~IsUnder(p, q)

ASSUME UriAssumption == SKILL_MD \in Seq(Segments) /\ Probes \subseteq Seq(Segments)

VARIABLES table,   \* SKILLS
          named,   \* the file URIs the server has named to the client
          dirs,    \* the directory URIs it has named
          crawled, \* the directories the client has read
          read,    \* the files it has read
          miss     \* the URI just answered "not served", and to which method

vars == <<table, named, dirs, crawled, read, miss>>

Uri(s, p)  == [skill |-> s, path |-> p]
Names      == DOMAIN table
Files(s)   == table[s] \cup {SKILL_MD}
NoMiss     == [method |-> "none", uri |-> Uri("", <<>>)]
EntryUri(s) == Uri(s, SKILL_MD)

RootUri(s) == Uri(s, <<>>)

-----------------------------------------------------------------------------
(* What the server answers.                                                *)

\* build_entry: the playbook, then every supporting file.
Manifest(s) == {Uri(s, p) : p \in Files(s)}

\* Mutant: paths cleaned up before the lookup, as a file server does.
Serves_Normalized(u) ==
    /\ u.skill \in Names
    /\ SelectSeq(u.path, LAMBDA x : x \notin {"", "."}) \in Files(u.skill)

\* read(): a verbatim lookup.
Serves(u) == u.skill \in Names /\ u.path \in Files(u.skill)

\* Mutant: only the roots answered.
IsDirectory_Root(u) == u.skill \in Names /\ u.path = <<>>

\* directory(): a directory is the root, or what some file lies under.
IsDirectory(u) ==
    /\ u.skill \in Names
    /\ \/ u.path = <<>>
       \/ Real(u.path) /\ \E p \in Files(u.skill) : IsUnder(p, u.path)

Below(u) == {p \in Files(u.skill) : IsUnder(p, u.path)}
Child(u, p) == Uri(u.skill, SubSeq(p, 1, Len(u.path) + 1))

\* Mutant: a child's URI built from the skill root, whatever the directory.
FileChildren_FromRoot(u) ==
    {Uri(u.skill, <<p[Len(p)]>>) : p \in {q \in Below(u) : Len(q) = Len(u.path) + 1}}

FileChildren(u) == {Child(u, p) : p \in {q \in Below(u) : Len(q) = Len(u.path) + 1}}

\* Mutant: subdirectories left out.
DirChildren_None(u) == {}

DirChildren(u) == {Child(u, p) : p \in {q \in Below(u) : Len(q) > Len(u.path) + 1}}

-----------------------------------------------------------------------------
(* The client.                                                             *)

Init ==
    /\ table \in Tables
    /\ named = {} /\ dirs = {} /\ crawled = {} /\ read = {}
    /\ miss = NoMiss

\* skills/list, and skill://index.json, which is built from the same entries.
SkillsList ==
    /\ named' = named \cup UNION {Manifest(s) : s \in Names}
    /\ dirs' = dirs \cup {RootUri(s) : s \in Names}
    /\ miss' = NoMiss
    /\ UNCHANGED <<table, crawled, read>>

\* resources/list: one playbook per skill.
ListResources ==
    /\ named' = named \cup {EntryUri(s) : s \in Names}
    /\ miss' = NoMiss
    /\ UNCHANGED <<table, dirs, crawled, read>>

\* skills/get: only the playbook's own URI names a skill.
SkillsGet(u) ==
    /\ \/ /\ u.skill \in Names /\ u.path = SKILL_MD
          /\ named' = named \cup Manifest(u.skill)
          /\ dirs' = dirs \cup {RootUri(u.skill)}
          /\ miss' = NoMiss
       \/ /\ u.skill \notin Names \/ u.path # SKILL_MD
          /\ miss' = [method |-> "get", uri |-> u]
          /\ UNCHANGED <<named, dirs>>
    /\ UNCHANGED <<table, crawled, read>>

\* resources/directory/read.
DirectoryRead(u) ==
    /\ \/ /\ IsDirectory(u)
          /\ named' = named \cup FileChildren(u)
          /\ dirs' = dirs \cup DirChildren(u)
          /\ crawled' = crawled \cup {u}
          /\ miss' = NoMiss
       \/ /\ ~IsDirectory(u)
          /\ miss' = [method |-> "directory", uri |-> u]
          /\ UNCHANGED <<named, dirs, crawled>>
    /\ UNCHANGED <<table, read>>

ReadResource(u) ==
    /\ \/ Serves(u) /\ read' = read \cup {u} /\ miss' = NoMiss
       \/ ~Serves(u) /\ miss' = [method |-> "read", uri |-> u] /\ UNCHANGED read
    /\ UNCHANGED <<table, named, dirs, crawled>>

\* The next step of a crawl: a named directory or file not yet read.
Crawl ==
    \/ \E u \in dirs \ crawled : DirectoryRead(u)
    \/ \E u \in named \ read : ReadResource(u)

Probe ==
    \E s \in Names \cup {"unknown"}, p \in Probes :
        DirectoryRead(Uri(s, p)) \/ ReadResource(Uri(s, p)) \/ SkillsGet(Uri(s, p))

Next == SkillsList \/ ListResources \/ Crawl \/ Probe

Spec     == Init /\ [][Next]_vars
FairSpec == Spec /\ WF_vars(Crawl)

-----------------------------------------------------------------------------
(* Properties.                                                             *)

\* directoryRead: true is a promise: every file and directory that any channel
\* names is served to the client that then asks for it.
PromiseKept ==
    /\ miss.method = "read"      => miss.uri \notin named
    /\ miss.method = "directory" => miss.uri \notin dirs

\* A client that only crawls sees what a client with the manifest sees: once
\* nothing is left to crawl, every file of each crawled skill has been read.
CrawlIsComplete ==
    dirs \subseteq crawled /\ named \subseteq read =>
        \A s \in Names : RootUri(s) \in crawled => Manifest(s) \subseteq read

\* Nor does a client that asks for what it was not told of see more: every file and
\* directory of a skill that the server ever answered for, whatever the path was that
\* asked for it, is one that the finished crawl of that skill came to by name.
NothingHidden ==
    dirs \subseteq crawled =>
        \A s \in Names : RootUri(s) \in crawled =>
            /\ \A u \in read : u.skill = s => u \in named
            /\ \A u \in crawled : u.skill = s => u \in dirs \cup {RootUri(s)}

\* The crawl of what was named comes to an end.
CrawlEnds == <>[](dirs \subseteq crawled /\ named \subseteq read)
=============================================================================
