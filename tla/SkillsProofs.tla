---------------------------- MODULE SkillsProofs -----------------------------
(***************************************************************************)
(* For any table of files and any probes: what a channel names is served,  *)
(* a crawl that has nothing left to do has read the manifest of every      *)
(* skill it entered, and asking for anything else finds no more than it.   *)
(***************************************************************************)
EXTENDS Skills, SequenceTheorems, WellFoundedInduction, TLAPS

\* A file some manifest lists, and a directory the server would answer for.
Listed(u)    == u.skill \in Names /\ u \in Manifest(u.skill)
Directory(u) == IsDirectory(u) /\ u.path \in Seq(Segments) /\ u = Uri(u.skill, u.path)

\* What the channels have named is there, and what was read was in a manifest.
NamesInv ==
    /\ table \in Tables
    /\ \A u \in named : Listed(u)
    /\ \A u \in dirs : Directory(u)
    /\ \A u \in read : Listed(u)

\* What a directory holds was named when it was read.
CrawlInv ==
    \A u \in crawled : Directory(u) /\ FileChildren(u) \subseteq named /\ DirChildren(u) \subseteq dirs

\* "not served" was said of what is not there.
MissInv ==
    /\ miss.method = "read"      => ~Serves(miss.uri)
    /\ miss.method = "directory" => ~IsDirectory(miss.uri)

SkillsInv == NamesInv /\ CrawlInv /\ MissInv

-----------------------------------------------------------------------------
(* Paths.                                                                  *)

\* The first n segments of a path that has more.
LEMMA Beginning ==
    ASSUME NEW p \in Seq(Segments), NEW n \in 0..Len(p)
    PROVE  /\ SubSeq(p, 1, n) \in Seq(Segments) /\ Len(SubSeq(p, 1, n)) = n
           /\ \A i \in 1..n : SubSeq(p, 1, n)[i] = p[i]
           /\ n = 0 => SubSeq(p, 1, n) = <<>>
           /\ n = Len(p) => SubSeq(p, 1, n) = p
           /\ n < Len(p) => IsUnder(p, SubSeq(p, 1, n))
<1> DEFINE h == SubSeq(p, 1, n)
<1>1. h = [i \in 1..n |-> p[i]] /\ h \in Seq(Segments)  OBVIOUS
<1>2. Len(h) = n /\ \A i \in 1..n : h[i] = p[i]  BY <1>1
<1>3. n = 0 => h = <<>>  BY <1>1, <1>2
<1>4. n = Len(p) => h = p  BY <1>1, <1>2
<1>5. n < Len(p) => IsUnder(p, h)
  BY <1>2 DEF IsUnder
<1> QED  BY <1>1, <1>2, <1>3, <1>4, <1>5

LEMMA FilePath ==
    ASSUME table \in Tables, NEW s \in Names, NEW p \in Files(s)
    PROVE  p \in Seq(Segments) /\ Real(p) /\ p # <<>>
<1>1. CASE p = SKILL_MD
  <2>1. p # <<>> /\ \A i \in DOMAIN p : p[i] = "SKILL.md"  BY <1>1 DEF SKILL_MD
  <2> QED  BY <1>1, <2>1, UriAssumption DEF Real, Shaped
<1>2. CASE p \in table[s]
  BY <1>2, TableAssumption DEF Names, Real
<1> QED  BY <1>1, <1>2 DEF Files

\* A directory above a file is one, and it is above what it is the head of.
LEMMA HeadIsDirectory ==
    ASSUME table \in Tables, NEW s \in Names, NEW p \in Files(s), NEW n \in 0..(Len(p) - 1)
    PROVE  Directory(Uri(s, SubSeq(p, 1, n)))
<1> DEFINE h == SubSeq(p, 1, n)
<1>1. p \in Seq(Segments) /\ Real(p)  BY FilePath
<1>2. n \in 0..Len(p) /\ n < Len(p)  BY <1>1
<1>3. /\ h \in Seq(Segments) /\ Len(h) = n /\ IsUnder(p, h)
      /\ \A i \in 1..n : h[i] = p[i]
  BY <1>1, <1>2, Beginning
<1>4. h = <<>> \/ Real(h)
  BY <1>1, <1>2, <1>3 DEF Real
<1> HIDE DEF h
<1>5. Uri(s, h).skill = s /\ Uri(s, h).path = h  BY DEF Uri
<1>6. IsDirectory(Uri(s, h))  BY <1>3, <1>4, <1>5 DEF IsDirectory
<1> QED  BY <1>3, <1>5, <1>6 DEF Directory, h

\* What a directory is read to hold: files of the manifest, and directories.
LEMMA ChildrenAreThere ==
    ASSUME table \in Tables, NEW u, Directory(u)
    PROVE  /\ \A v \in FileChildren(u) : Listed(v)
           /\ \A v \in DirChildren(u) : Directory(v)
<1>1. u.skill \in Names /\ u.path \in Seq(Segments) /\ Len(u.path) \in Nat
  BY DEF Directory, IsDirectory
<1>2. ASSUME NEW v \in FileChildren(u)
      PROVE  Listed(v)
  <2>1. PICK p \in Below(u) : Len(p) = Len(u.path) + 1 /\ v = Child(u, p)
    BY <1>2 DEF FileChildren
  <2>2. p \in Files(u.skill) /\ p \in Seq(Segments)
    BY <1>1, <2>1, FilePath DEF Below
  <2>3. SubSeq(p, 1, Len(p)) = p  BY <2>2, Beginning
  <2>4. v = Uri(u.skill, p)  BY <2>1, <2>3 DEF Child
  <2> QED  BY <1>1, <2>2, <2>4 DEF Listed, Manifest, Uri
<1>3. ASSUME NEW v \in DirChildren(u)
      PROVE  Directory(v)
  <2>1. PICK p \in Below(u) : Len(p) > Len(u.path) + 1 /\ v = Child(u, p)
    BY <1>3 DEF DirChildren
  <2>2. p \in Files(u.skill) /\ p \in Seq(Segments)
    BY <1>1, <2>1, FilePath DEF Below
  <2>3. Len(u.path) + 1 \in 0..(Len(p) - 1)  BY <1>1, <2>1, <2>2
  <2> QED  BY <1>1, <2>1, <2>2, <2>3, HeadIsDirectory DEF Child
<1> QED  BY <1>2, <1>3

-----------------------------------------------------------------------------
(* The invariant.                                                          *)

LEMMA InitSkills == Init => SkillsInv
<1> SUFFICES ASSUME Init
             PROVE  SkillsInv
  OBVIOUS
<1>1. table \in Tables /\ named = {} /\ dirs = {} /\ crawled = {} /\ read = {}
  BY DEF Init
<1>2. miss.method = "none"  BY DEF Init, NoMiss
<1> QED  BY <1>1, <1>2 DEF SkillsInv, NamesInv, CrawlInv, MissInv

\* With the same table, the same things are there.
LEMMA SameTable ==
    ASSUME table' = table
    PROVE  /\ Names' = Names
           /\ \A s : Files(s)' = Files(s) /\ Manifest(s)' = Manifest(s)
           /\ \A u : /\ Listed(u)' <=> Listed(u)
                     /\ Directory(u)' <=> Directory(u)
                     /\ Serves(u)' <=> Serves(u)
                     /\ IsDirectory(u)' <=> IsDirectory(u)
                     /\ FileChildren(u)' = FileChildren(u)
                     /\ DirChildren(u)' = DirChildren(u)
<1>1. Names' = Names  BY DEF Names
<1>2. \A s : Files(s)' = Files(s)  BY DEF Files
<1>3. \A s : Manifest(s)' = Manifest(s)  BY <1>2 DEF Manifest
<1>4. \A u : Listed(u)' <=> Listed(u)  BY <1>1, <1>3 DEF Listed
<1>5. \A u : Serves(u)' <=> Serves(u)  BY <1>1, <1>2 DEF Serves
<1>6. \A u : IsDirectory(u)' <=> IsDirectory(u)  BY <1>1, <1>2 DEF IsDirectory
<1>7. \A u : Directory(u)' <=> Directory(u)  BY <1>6 DEF Directory
<1>8. \A u : Below(u)' = Below(u)  BY <1>2 DEF Below
<1>9. \A u : FileChildren(u)' = FileChildren(u) /\ DirChildren(u)' = DirChildren(u)
  BY <1>8 DEF FileChildren, DirChildren, Child
<1> QED  BY <1>1, <1>2, <1>3, <1>4, <1>5, <1>6, <1>7, <1>9

\* A manifest is listed, its playbook in it; the root of a skill is a directory.
LEMMA ManifestListed ==
    ASSUME NEW s \in Names
    PROVE  /\ \A u \in Manifest(s) : Listed(u)
           /\ Listed(EntryUri(s))
           /\ Directory(RootUri(s))
<1>1. \A u \in Manifest(s) : u.skill = s
  BY DEF Manifest, Uri
<1>2. EntryUri(s) \in Manifest(s)
  BY DEF EntryUri, Manifest, Files
<1>3. /\ RootUri(s).skill = s /\ RootUri(s).path = <<>>
      /\ RootUri(s) = Uri(RootUri(s).skill, RootUri(s).path)
  BY DEF RootUri, Uri
<1>4. <<>> \in Seq(Segments)  OBVIOUS
<1> QED  BY <1>1, <1>2, <1>3, <1>4 DEF Listed, Directory, IsDirectory

\* What a URI of the table serves is in its manifest.
LEMMA ServedIsListed ==
    ASSUME NEW s, NEW p, Serves(Uri(s, p))
    PROVE  Listed(Uri(s, p))
BY DEF Serves, Listed, Manifest, Uri

LEMMA ListedIsServed ==
    ASSUME NEW u, Listed(u)
    PROVE  Serves(u)
BY DEF Serves, Listed, Manifest, Uri

\* A reply that only names files and directories that are there.
LEMMA Telling ==
    ASSUME SkillsInv, UNCHANGED <<table, crawled, read>>,
           named \subseteq named', dirs \subseteq dirs',
           \A u \in named' \ named : Listed(u),
           \A u \in dirs' \ dirs : Directory(u),
           miss'.method \notin {"read", "directory"}
    PROVE  SkillsInv'
<1>1. NamesInv'
  BY SameTable DEF SkillsInv, NamesInv
<1>2. CrawlInv'
  BY SameTable DEF SkillsInv, CrawlInv
<1> QED  BY <1>1, <1>2 DEF SkillsInv, MissInv

LEMMA ListStep ==
    ASSUME SkillsInv, SkillsList \/ ListResources
    PROVE  SkillsInv'
<1>1. NoMiss.method = "none"  BY DEF NoMiss
<1>2. CASE SkillsList
  <2>1. UNCHANGED <<table, crawled, read>> /\ miss' = NoMiss  BY <1>2 DEF SkillsList
  <2>2. /\ named \subseteq named' /\ \A u \in named' \ named : Listed(u)
        /\ dirs \subseteq dirs' /\ \A u \in dirs' \ dirs : Directory(u)
    BY <1>2, ManifestListed DEF SkillsList
  <2> QED  BY <1>1, <2>1, <2>2, Telling
<1>3. CASE ListResources
  <2>1. UNCHANGED <<table, crawled, read, dirs>> /\ miss' = NoMiss  BY <1>3 DEF ListResources
  <2>2. named \subseteq named' /\ \A u \in named' \ named : Listed(u)
    BY <1>3, ManifestListed DEF ListResources
  <2> QED  BY <1>1, <2>1, <2>2, Telling
<1> QED  BY <1>2, <1>3

LEMMA GetStep ==
    ASSUME SkillsInv, NEW v, SkillsGet(v)
    PROVE  SkillsInv'
<1>1. UNCHANGED <<table, crawled, read>>  BY DEF SkillsGet
<1>2. CASE /\ v.skill \in Names /\ miss' = NoMiss
           /\ named' = named \cup Manifest(v.skill)
           /\ dirs' = dirs \cup {RootUri(v.skill)}
  BY <1>1, <1>2, ManifestListed, Telling DEF NoMiss
<1>3. CASE miss' = [method |-> "get", uri |-> v] /\ UNCHANGED <<named, dirs>>
  BY <1>1, <1>3, Telling
<1> QED  BY <1>2, <1>3 DEF SkillsGet

LEMMA DirectoryStep ==
    ASSUME SkillsInv, NEW u, u.path \in Seq(Segments), u = Uri(u.skill, u.path),
           DirectoryRead(u)
    PROVE  SkillsInv'
<1>1. table' = table /\ read' = read
  BY DEF DirectoryRead
<1>2. CASE /\ IsDirectory(u) /\ miss' = NoMiss /\ crawled' = crawled \cup {u}
           /\ named' = named \cup FileChildren(u)
           /\ dirs' = dirs \cup DirChildren(u)
  <2>1. Directory(u)  BY <1>2 DEF Directory
  <2>2. /\ \A v \in FileChildren(u) : Listed(v)
        /\ \A v \in DirChildren(u) : Directory(v)
    BY <2>1, ChildrenAreThere DEF SkillsInv, NamesInv
  <2>3. NamesInv'
    BY <1>1, <1>2, <2>2, SameTable DEF SkillsInv, NamesInv
  <2>4. CrawlInv'
    BY <1>1, <1>2, <2>1, SameTable DEF SkillsInv, CrawlInv
  <2> QED  BY <1>2, <2>3, <2>4 DEF SkillsInv, MissInv, NoMiss
<1>3. CASE /\ ~IsDirectory(u) /\ miss' = [method |-> "directory", uri |-> u]
           /\ UNCHANGED <<named, dirs, crawled>>
  BY <1>1, <1>3, SameTable DEF SkillsInv, NamesInv, CrawlInv, MissInv
<1> QED  BY <1>2, <1>3 DEF DirectoryRead

LEMMA ReadStep ==
    ASSUME SkillsInv, NEW u, ReadResource(u), Serves(u) => Listed(u)
    PROVE  SkillsInv'
<1>1. table' = table /\ named' = named /\ dirs' = dirs /\ crawled' = crawled
  BY DEF ReadResource
<1>2. \A v \in read' \ read : Listed(v)
  BY DEF ReadResource
<1>3. NamesInv' /\ CrawlInv'
  BY <1>1, <1>2, SameTable DEF SkillsInv, NamesInv, CrawlInv
<1>4. CASE miss' = NoMiss
  BY <1>3, <1>4 DEF SkillsInv, MissInv, NoMiss
<1>5. CASE ~Serves(u) /\ miss' = [method |-> "read", uri |-> u]
  BY <1>1, <1>3, <1>5, SameTable DEF SkillsInv, MissInv
<1> QED  BY <1>4, <1>5 DEF ReadResource

LEMMA StepSkills == SkillsInv /\ [Next]_vars => SkillsInv'
<1> SUFFICES ASSUME SkillsInv, [Next]_vars
             PROVE  SkillsInv'
  OBVIOUS
<1>1. CASE SkillsList \/ ListResources
  BY <1>1, ListStep
<1>2. CASE Crawl
  <2>1. CASE \E u \in dirs \ crawled : DirectoryRead(u)
    <3>1. PICK u \in dirs : DirectoryRead(u)  BY <2>1
    <3>2. u.path \in Seq(Segments) /\ u = Uri(u.skill, u.path)
      BY DEF SkillsInv, NamesInv, Directory
    <3> QED  BY <3>1, <3>2, DirectoryStep
  <2>2. CASE \E u \in named \ read : ReadResource(u)
    <3>1. PICK u \in named : ReadResource(u)  BY <2>2
    <3>2. Listed(u)  BY DEF SkillsInv, NamesInv
    <3> QED  BY <3>1, <3>2, ReadStep
  <2> QED  BY <1>2, <2>1, <2>2 DEF Crawl
<1>3. CASE Probe
  <2>1. PICK s \in Names \cup {"unknown"}, p \in Probes :
            DirectoryRead(Uri(s, p)) \/ ReadResource(Uri(s, p)) \/ SkillsGet(Uri(s, p))
    BY <1>3 DEF Probe
  <2>2. Uri(s, p).path \in Seq(Segments) /\ Uri(s, p) = Uri(Uri(s, p).skill, Uri(s, p).path)
    BY UriAssumption DEF Uri
  <2> QED  BY <2>1, <2>2, DirectoryStep, ReadStep, ServedIsListed, GetStep
<1>4. CASE UNCHANGED vars
  <2>1. /\ table' = table /\ named' = named /\ dirs' = dirs
        /\ crawled' = crawled /\ read' = read /\ miss' = miss
    BY <1>4 DEF vars
  <2> QED  BY <2>1, SameTable DEF SkillsInv, NamesInv, CrawlInv, MissInv
<1> QED  BY <1>1, <1>2, <1>3, <1>4 DEF Next

LEMMA SkillsSafe == Spec => []SkillsInv
BY InitSkills, StepSkills, PTL DEF Spec

-----------------------------------------------------------------------------
(* What a client may rely on.                                              *)

\* A directory or file that was named is served whenever it is asked for.
LEMMA NamedIsServed == SkillsInv => PromiseKept
<1> SUFFICES ASSUME SkillsInv
             PROVE  PromiseKept
  OBVIOUS
<1>1. ASSUME miss.method = "read", miss.uri \in named
      PROVE  FALSE
  BY <1>1, ListedIsServed DEF SkillsInv, NamesInv, MissInv
<1>2. ASSUME miss.method = "directory", miss.uri \in dirs
      PROVE  FALSE
  BY <1>2 DEF SkillsInv, NamesInv, MissInv, Directory
<1> QED  BY <1>1, <1>2 DEF PromiseKept

\* One step of a crawl down a path: the child of a directory that was read is
\* named with it, as a file at the end of the path and as a directory before.
LEMMA OneDown ==
    ASSUME SkillsInv, NEW s \in Names, NEW p \in Files(s), NEW n \in 0..(Len(p) - 1),
           Uri(s, SubSeq(p, 1, n)) \in crawled
    PROVE  Uri(s, SubSeq(p, 1, n + 1)) \in (IF n + 1 = Len(p) THEN named ELSE dirs)
<1> DEFINE u == Uri(s, SubSeq(p, 1, n))
<1>1. table \in Tables  BY DEF SkillsInv, NamesInv
<1>2. p \in Seq(Segments) /\ Len(p) \in Nat  BY <1>1, FilePath
<1>3. n \in 0..Len(p) /\ n < Len(p)  BY <1>2
<1>4. Len(SubSeq(p, 1, n)) = n /\ IsUnder(p, SubSeq(p, 1, n))
  BY <1>2, <1>3, Beginning
<1>5. u.skill = s /\ Len(u.path) = n /\ p \in Below(u)
  BY <1>4 DEF Below, Uri
<1>6. Child(u, p) = Uri(s, SubSeq(p, 1, n + 1))
  BY <1>5 DEF Child
<1>7. CASE n + 1 = Len(p)
  <2>1. Child(u, p) \in FileChildren(u)  BY <1>5, <1>7 DEF FileChildren
  <2> QED  BY <1>6, <1>7, <2>1 DEF SkillsInv, CrawlInv
<1>8. CASE n + 1 # Len(p)
  <2>1. Len(p) > n + 1  BY <1>2, <1>3, <1>8
  <2>2. Child(u, p) \in DirChildren(u)  BY <1>5, <2>1 DEF DirChildren
  <2> QED  BY <1>6, <1>8, <2>2 DEF SkillsInv, CrawlInv
<1> QED  BY <1>7, <1>8

Smaller == {p \in Nat \X Nat : p[1] < p[2]}

LEMMA SmallerWellFounded == IsWellFoundedOn(Smaller, Nat)
BY NatLessThanWellFounded, Zenon DEF OpToRel, Smaller

\* A crawl with nothing left to read has been in every directory above a file:
\* the shortest it has not been in would have been named by the one above.
LEMMA AllTheWay ==
    ASSUME SkillsInv, dirs \subseteq crawled,
           NEW s \in Names, RootUri(s) \in crawled, NEW p \in Files(s)
    PROVE  \A n \in 0..(Len(p) - 1) : Uri(s, SubSeq(p, 1, n)) \in crawled
<1> DEFINE Unread == {n \in 0..(Len(p) - 1) : Uri(s, SubSeq(p, 1, n)) \notin crawled}
<1>1. p \in Seq(Segments) /\ Len(p) \in Nat \ {0}
  <2>1. p \in Seq(Segments) /\ p # <<>>  BY FilePath DEF SkillsInv, NamesInv
  <2> QED  BY <2>1
<1>2. SUFFICES ASSUME Unread # {}
               PROVE  FALSE
  OBVIOUS
<1>3. Unread \subseteq Nat  BY <1>1
<1>4. PICK n \in Unread : \A m \in Unread : <<m, n>> \notin Smaller
  BY <1>2, <1>3, SmallerWellFounded, WFMin
<1>5. CASE n = 0
  <2>1. SubSeq(p, 1, 0) = <<>>  BY <1>1, Beginning
  <2> QED  BY <1>4, <1>5, <2>1 DEF RootUri
<1>6. CASE n # 0
  <2>1. n - 1 \in 0..(Len(p) - 1) /\ n \in 0..(Len(p) - 1)  BY <1>1, <1>6
  <2>2. <<n - 1, n>> \in Smaller  BY <2>1 DEF Smaller
  <2>3. Uri(s, SubSeq(p, 1, n - 1)) \in crawled  BY <1>4, <2>1, <2>2
  <2>4. (n - 1) + 1 = n /\ n # Len(p)  BY <1>1, <2>1
  <2>5. Uri(s, SubSeq(p, 1, n)) \in dirs  BY <2>1, <2>3, <2>4, OneDown
  <2> QED  BY <1>4, <2>5
<1> QED  BY <1>5, <1>6

\* So a finished crawl has been told of every file of the skill,
LEMMA FilesAreNamed ==
    ASSUME SkillsInv, dirs \subseteq crawled,
           NEW s \in Names, RootUri(s) \in crawled, NEW u \in Manifest(s)
    PROVE  u \in named
<1>1. PICK p \in Files(s) : u = Uri(s, p)  BY DEF Manifest
<1>2. p \in Seq(Segments) /\ Len(p) \in Nat \ {0}
  <2>1. p \in Seq(Segments) /\ p # <<>>  BY FilePath DEF SkillsInv, NamesInv
  <2> QED  BY <2>1
<1>3. Len(p) - 1 \in 0..(Len(p) - 1)  BY <1>2
<1>4. Uri(s, SubSeq(p, 1, Len(p) - 1)) \in crawled  BY <1>3, AllTheWay
<1>5. (Len(p) - 1) + 1 = Len(p)  BY <1>2
<1>6. Uri(s, SubSeq(p, 1, Len(p))) \in named  BY <1>3, <1>4, <1>5, OneDown
<1>7. SubSeq(p, 1, Len(p)) = p  BY <1>2, Beginning
<1> QED  BY <1>1, <1>6, <1>7

\* and of every directory, which is above some file and below one that was read.
LEMMA DirectoriesAreNamed ==
    ASSUME SkillsInv, dirs \subseteq crawled,
           NEW u, Directory(u), RootUri(u.skill) \in crawled
    PROVE  u \in dirs \cup {RootUri(u.skill)}
<1>1. u = Uri(u.skill, u.path) /\ u.skill \in Names /\ u.path \in Seq(Segments)
  BY DEF Directory, IsDirectory
<1>2. CASE u.path = <<>>
  BY <1>1, <1>2 DEF RootUri
<1>3. CASE u.path # <<>>
  <2> DEFINE n == Len(u.path)
  <2>1. PICK p \in Files(u.skill) : IsUnder(p, u.path)
    BY <1>3 DEF Directory, IsDirectory
  <2>2. p \in Seq(Segments) /\ Len(p) \in Nat /\ n \in Nat \ {0}
    BY <1>1, <1>3, <2>1, FilePath DEF SkillsInv, NamesInv
  <2>3. Len(p) > n /\ SubSeq(p, 1, n) = u.path  BY <2>1 DEF IsUnder
  <2>4. n - 1 \in 0..(Len(p) - 1) /\ (n - 1) + 1 = n /\ n # Len(p)  BY <2>2, <2>3
  <2>5. Uri(u.skill, SubSeq(p, 1, n - 1)) \in crawled  BY <1>1, <2>4, AllTheWay
  <2>6. Uri(u.skill, SubSeq(p, 1, n)) \in dirs  BY <1>1, <2>4, <2>5, OneDown
  <2> QED  BY <1>1, <2>3, <2>6
<1> QED  BY <1>2, <1>3

LEMMA NothingMissed == SkillsInv => CrawlIsComplete
<1> SUFFICES ASSUME SkillsInv, dirs \subseteq crawled, named \subseteq read,
                    NEW s \in Names, RootUri(s) \in crawled, NEW u \in Manifest(s)
             PROVE  u \in read
  BY DEF CrawlIsComplete
<1> QED  BY FilesAreNamed

LEMMA NothingElse == SkillsInv => NothingHidden
<1> SUFFICES ASSUME SkillsInv, dirs \subseteq crawled, NEW s \in Names, RootUri(s) \in crawled
             PROVE  /\ \A u \in read : u.skill = s => u \in named
                    /\ \A u \in crawled : u.skill = s => u \in dirs \cup {RootUri(s)}
  BY DEF NothingHidden
<1>1. ASSUME NEW u \in read, u.skill = s
      PROVE  u \in named
  <2>1. u \in Manifest(s)  BY <1>1 DEF SkillsInv, NamesInv, Listed
  <2> QED  BY <2>1, FilesAreNamed
<1>2. ASSUME NEW u \in crawled, u.skill = s
      PROVE  u \in dirs \cup {RootUri(s)}
  <2>1. Directory(u)  BY DEF SkillsInv, CrawlInv
  <2> QED  BY <1>2, <2>1, DirectoriesAreNamed
<1> QED  BY <1>1, <1>2

\* For every table: whatever any of the channels named (skills/list, index.json,
\* resources/list, skills/get, a directory) is never answered with "not served".
THEOREM WhatIsNamedIsServed == Spec => []PromiseKept
BY SkillsSafe, NamedIsServed, PTL

\* For every table, however deep: a client that only follows what directories
\* hold has read, when nothing is left to follow, all that the manifest lists.
THEOREM CrawlsAreComplete == Spec => []CrawlIsComplete
BY SkillsSafe, NothingMissed, PTL

\* For every table and whatever paths are asked for: no file and no directory that the
\* server answered for is one that the finished crawl of its skill was not told of.
THEOREM ProbesFindNothingElse == Spec => []NothingHidden
BY SkillsSafe, NothingElse, PTL

\* The crawl has read something it had not, and forgotten nothing.
Advances ==
    /\ crawled \subseteq crawled' /\ read \subseteq read'
    /\ crawled' # crawled \/ read' # read

LEMMA CrawlAdvances == SkillsInv /\ Crawl => Advances
<1> SUFFICES ASSUME SkillsInv, Crawl
             PROVE  Advances
  OBVIOUS
<1>1. CASE \E u \in dirs \ crawled : DirectoryRead(u)
  <2>1. PICK u \in dirs \ crawled : DirectoryRead(u)  BY <1>1
  <2>2. IsDirectory(u)  BY DEF SkillsInv, NamesInv, Directory
  <2>3. crawled' = crawled \cup {u} /\ read' = read  BY <2>1, <2>2 DEF DirectoryRead
  <2> QED  BY <2>1, <2>3 DEF Advances
<1>2. CASE \E u \in named \ read : ReadResource(u)
  <2>1. PICK u \in named \ read : ReadResource(u)  BY <1>2
  <2>2. Serves(u)  BY ListedIsServed DEF SkillsInv, NamesInv
  <2>3. read' = read \cup {u} /\ crawled' = crawled  BY <2>1, <2>2 DEF ReadResource
  <2> QED  BY <2>1, <2>3 DEF Advances
<1> QED  BY <1>1, <1>2 DEF Crawl

\* No step of a crawl is wasted on what is not there or was read before: each reads one
\* more file of a manifest or one more directory above one, of which a table has so many.
THEOREM CrawlsAdvance ==
    Spec => /\ [][Crawl => Advances]_vars
            /\ [](\A u \in read : Listed(u)) /\ [](\A u \in crawled : Directory(u))
<1>1. SkillsInv /\ [Next]_vars => [Crawl => Advances]_vars
  BY CrawlAdvances
<1>2. SkillsInv => (\A u \in read : Listed(u)) /\ (\A u \in crawled : Directory(u))
  BY DEF SkillsInv, NamesInv, CrawlInv
<1> QED  BY <1>1, <1>2, SkillsSafe, PTL DEF Spec
=============================================================================
