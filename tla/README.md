# cosmonic-mcp in TLA+

`cosmonic-mcp` is the MCP server through which an AI agent drives Cosmonic
Desktop. The agent talks JSON-RPC to it over stdio; it turns each call into HTTP
requests to the daemon `cosmonicd` over a local control socket, and wraps what
comes back in one reply envelope. This directory holds TLA+ modules of that
program, the TLC configurations that check them on small instances, and TLAPS
proofs of what matters most. Line numbers below refer to the repository at the
commit the modules were translated from; `PROJECT.json` maps every definition to
its lines.

## 1. The system

    agent --stdio/JSON-RPC--> rmcp loop --task per request--> handlers
                                  |                              |
                           serve() (main task)              DaemonClient
                                                                 | one connection
                                                                 v per request
                                                             cosmonicd

| Component | State it keeps | Operations | What makes it hard | What makes it correct |
|---|---|---|---|---|
| Process and session (`server.rs` 46-83, 462-534, 866-895) | `client_id` (OnceLock), `tools_invoked` (atomic), `CURRENT_TOOL` (task local) | `initialize`, `call_tool`, `track`, `serve` | handlers interleave at every await; the hang-up overlaps running calls; telemetry is awaited | a call takes effect at most once; tags name their own tool; the disconnect event accounts for the session; every call and the session end |
| Daemon client (`client.rs`) | none; one connection per request | `request`, `connect` | the connection breaks before, during or after the daemon acts; no retry, no timeout; bare 404 and 405 of older daemons | what the reply says about the effect is so |
| Tools (`tools.rs` 330-1250) | none | 33 tools | argument checks before the first request; tool names repeated in four places | a refused call sends nothing; next steps name existing tools |
| Envelope and recovery hints (`server.rs` 88-306, `client.rs` 185-257) | none | `reply`, `refine`, `recovery_for_tool`, `route_error` | a hint depends on code, status and tool together | an agent that follows the hints gets through; no hint points to the wrong list |
| List shaping (`tools.rs` 1286-1482, 1671-1734) | none | `filter_workloads`, `summarize_workloads`, `note_truncation`, `shape_images`, `budget_logs` | order of count, cut, summary and note; the byte budget | nothing is cut silently; the trim is bounded and no harsher than needed |
| Live resources, flags and host status (`server.rs` 538-665, 766-775, `resources.rs`, `tools.rs` 354-366, 1736-1870) | none; up to four concurrent reads per call | `list_resources`, `read_resource`, `capabilities`, `cosmonic_host_status` | reads fail one by one while the operator changes settings | what is stated was so during the call; gaps are visible |
| Skills registry (`skills.rs`, `server.rs` 777-836) | a table fixed at build time | `skills/list`, `skills/get`, `resources/list`, `resources/directory/read`, `resources/read` | five channels that must agree for any table; URIs that almost name a file | everything named is served, a crawl is complete, a probe finds nothing that it does not |
| Parked credentials and tests (`tools.rs` 1484-1641, 1671-1734, `lib.rs` 410-560) | none; the rows are the daemon's | notes and next steps of a parked workload, of a test, and the counts of the list | many row states and default arms; agent, user, Desktop and daemon each go at their own pace while credentials go bad | the steps lead to a verdict; no test is repeated with nothing changed; no blocked workload looks well |
| Names, drafts and validation (`workload.rs` 320-560) | none | `sanitize_dns_label`, `is_dns_label`, `Workload::new`, `single_component`, `validate` | a byte limit that cuts anywhere; many checks in one call | every draft is accepted; one correction is enough |
| Documents (`workload.rs` 40-320, `lib.rs`) | the daemon's files | serde's load and save of 28 structs, their `Default`s | three places say what a missing key means; another product and older versions write the same files; every put replaces the whole, with what the daemon filled in for the GET | a restart keeps what was accepted; an edit is local and reaches nothing that is the daemon's; nothing is stripped |
| Telemetry normalisation (`telemetry.rs`) | none | pure functions | - | - |
| Prompts, response-only API types, `main`, `paths`, scripts, tests | none | text, serde types, start-up | nothing a model would show | - |

Interactions: the handlers share the session state; they use the client only
through `request`; every tool ends in `reply`, which reads `CURRENT_TOOL`; a
workload list is filtered, cut, summarised and noted in that order; live
resources use the same client. A workload's name is sanitized into a draft, the
draft is validated and put, and from then on it is a document of the daemon and
the subject of the credential replies. The daemon, the agent, the user, the
operator and rmcp are the environment.

## 2. The modules

| Module | Models | Kind |
|---|---|---|
| `AtMostOnceCall` | what a call promises its agent: opened, applied at most once, answered "done", "not done" or "unknown", or lost | abstract specification |
| `McpServer` | `serve`, `initialize`, `call_tool`, `list_resources`' await, `request`, `connect`, with rmcp, agent and daemon around them | state machine, implements `AtMostOnceCall` |
| `McpServerProofs` | the inductive invariant and its consequences, the account of the session, and the refinement | proofs |
| `ToolTable` | the 33 tools: what their route addresses, what they check first, the next steps of a success | data |
| `Guidance` | the error path `route_error`, `reply`, `refine`, `subject_of`, `recovery_for_tool`, with an agent that obeys it, and the names the parked and credential-test next steps use | state machine over `ToolTable` |
| `GuidanceProofs` | what refusals and next steps may name, and that following a recovery helps | proofs |
| `Credentials` | the notes and next steps of a parked workload and of a credential test, the counts of the list, with the user, the Desktop and the daemon's reconciler around them | state machine over `ToolTable` |
| `CredentialsProofs` | no test repeated with nothing changed, no blocked row uncounted | proofs |
| `Listings` | workload, image and log listings: checks, filters, cuts, notes, and `budget_logs`' loop one record at a time | state machine |
| `ListingsProofs` | the byte budget, for every log; what a cut keeps and says, for every list | proofs |
| `Resources` | `resources/list`, the two live `resources/read` and `cosmonic_host_status`, with the reads they are composed from | state machine |
| `ResourcesProofs` | what is told was so, and only failed reads leave gaps | proofs |
| `Skills` | the five channels of the skills registry | state machine |
| `SkillsProofs` | what is named is served, a crawl is complete and probes find nothing else, for every table | proofs |
| `DnsLabel` | `sanitize_dns_label` one character at a time, `is_dns_label` | state machine |
| `WireTypes` | the 28 structs that are files or parts of one, as tables of serde rules, their `Default`s, and which fields are the daemon's | data |
| `Documents` | the life of one document: load, get, edit, put, crash, restart | state machine over `WireTypes` |
| `DocumentsProofs` | the round trip, the agreement of the defaults, and the document's invariants | proofs |
| `Workloads` | from an offered name to the store: `DnsLabel`, the draft, hand edits, `validate`, `Documents` | composition, implements `NameSpec` and `DocSpec` |
| `WorkloadsProofs` | the sanitizer's result is a label, whatever the name; the two refinements; drafts validate and one correction is enough | proofs |
| `MC...` | the constants of the runs | instances |

### McpServer

Each request is a task (rmcp spawns one per request; the first `initialize` is
served before the loop starts, which `HandshakeRequest` and `Serving` keep
apart). The main task `Main` runs `serve()` itself and sends the disconnect
event.

| Variable | Code |
|---|---|
| `proc` | where `serve()` is: handshake, loop, after the loop, returned |
| `clientId`, `toolsInvoked` | the two fields of `CosmonicMcp` |
| `req`, `pc`, `reply` | a task's parameters, its position, the envelope it returned |
| `scope` | `CURRENT_TOOL` in that task |
| `trip` | which daemon request of the body: `cosmonic_host_status` makes two and only the last decides the reply |
| `wire` | the connection of the request in flight, and the tool header sent on it |
| `daemonUp`, `crashes` | cosmonicd |
| `executions`, `seen`, `events`, `opener` | ghosts: what the daemon carried out, under which header, which events it took in, and the first `initialize` |

An action is the code from one await to the next: `CallTool` is everything
before the body's first await (the count, the task-local scope, the argument
check), `Connect` and `ConnectFails` are `connect`, `Send` the request built
after the HTTP handshake (this is where `CURRENT_TOOL` is read), and `Receive`,
`Breaks`, `Orphaned` are the returns of `request`, each followed by all the code
up to the next await (`Resume`: the second trip, the reply, or `serve()`'s
return). `Orphaned` is a connection lost under a request the daemon has already
read: the client reports `transport_error`, and the request may still be carried
out. `Unreachable` is said only when `connect` itself fails. `serve()` returning
drops the tasks still running; their connections close, but what was sent may
still be read. A reply written after the loop ended is `unheard`.

What is abstracted: payloads, which of the client's parse errors occurred (they
give one code), stdio framing, and the JSON of the reply.

### Guidance

The agent has a goal (a tool) and obstacles (what the daemon and the host hold
against that call). `Faces` says which obstacles a tool can meet and `CuredBy`
which remedy removes each: both are assumptions about the world and marked
external. Everything the code decides is translated: the order of the checks, the
codes, the arms of `recovery_for_tool` and the remedies their sentences name. A
remedy is a name for an instruction in the hint ("update Desktop", "list
workloads"). `Follow` is the agent doing all the hint says. `OwnList`, what listing a
tool's own route addresses, is part of that specification and translates no code. Rows of
parked workloads and verdicts of tests are whatever the wire types allow: a secret as well
as a connection can be `insufficient`.

### Listings

The daemon holds a sequence of rows, newest first for logs. Cutting keeps order,
so a page is a set of positions. `group` is whatever the filters select by and
`size` the bytes of a log record. Each of the two shaping pipelines is one
operator composed in the code's order, so that a swapped order is another
operator (and one of the mutants). `KeepRecord` is one turn of the loop of
`budget_logs`.

### Resources

`held` collects what each operator setting has been since the call began. The
daemon answers each read of a call at its own moment, or fails it if it may
(`Missing`), and the reply is composed when all have returned.

`cosmonic_host_status` reads the system workloads first and the host second, and
is told of the built-in registry from the first and of the rest from the second.

### DnsLabel, WireTypes, Documents, Workloads

A name is a sequence of `Chars`; `LowerOf` is `to_ascii_lowercase`, `MaxLen`
stands for 63 and `Fallback` for "component". One action is one turn of the loop:
`KeepChar`, `PushDash` and `DropChar` are the three outcomes of a character,
`AfterChar` the cut at the limit, `TrimDash` one turn of the last `while`.

A struct is a table from its fields to what serde does with each: the values of
the type, the value of a missing key (`default`, an explicit function, or an
error), and the values `skip_serializing_if` leaves out. `Parses`, `Load` and
`Save` are serde over any table. A field that is itself a struct is one value in
the table of the outer one and has a table of its own. `Derived` is
`#[derive(Default)]`, for the settings and for the parts of a manifest that derive it, and
the handwritten `Default` impls are translated one by
one, so that the tables and the impls can disagree, as the code could.
`Promised` lists the keys that the comments on the structs promise to keep
(`workload.rs` 110-131, 146-149, 197, 271, 316-318): the fields Cosmonic Control writes,
`ephemeral` of a volume among them, and the alias of `mcp.yaml`.

Not every field is the user's. `ReadOnly` lists what the daemon fills in when it answers a
GET (`managed_labels` of the host, `command` of the MCP settings, `lib.rs` 2166-2172 and
2203-2205), and `Assigned` what its store does (`id` of an LLM binding, 2053). `Shown` is
the document as a GET answers it, with any value of the former, and `Taken` what a PUT
takes of the body that comes back: nothing of either, as the docs say, so that the values
of the daemon are never on disk. Storing is the daemon's, which is not in this
repository; the rule is the one its API documents. `live` is the user's part of the document.
`NeedsNoFile` marks the documents that may be missing altogether; a struct with a required
field never is. One client edits at a time: two that overwrite each other are out of scope.

| Variable of `Documents` | Code |
|---|---|
| `kind`, `filed`, `disk` | which struct, and its file |
| `stage`, `live` | the daemon: down, without the document, or with it |
| `edits`, `held` | a client between GET and PUT |
| `seed`, `touched`, `last`, `puts` | ghosts: the first file, what clients changed, what was accepted last |

`Workloads` runs both: a name is sanitized into a draft (`MakeDraft`), the user
may edit it by hand, `Validate` is the whole of `validate`, `Correct` a user who
corrects exactly what was answered, and `Apply` puts the component as it was
drafted. Whole-spec fields that `validate` does not look at are left out of the
draft. `single_component` takes the name as it is given; it is the daemon, which is outside,
that sanitizes it first and knows the image, so `MakeDraft` is external and
`DraftsValidate` is about drafts made in that way.

### Credentials

A row has a kind and a state; the states are the strings of `CredentialStatus`.
`RowAsks`, `WorkloadReply`, `TestAsks` and `TestSteps` are the translated code,
and `Missing` and `Attention` the counts of `summarize_workloads`. `todo` holds
the tools the agent was told to use and `asked` what the user was asked to do;
the agent waits for the user and for the start it was told to do first. The rest is
external: `Starts`, `Wakes` and `Verdict` are the daemon, `Does` the user in the
Desktop, who may save a wrong value or stop half-way, and `GoesWrong` the world.
Four readings of the outside are assumptions: a rotated value reaches the
running workload; the daemon starts what is no longer blocked by itself, as the
note says; verdicts `insufficient`, `not_mcp` and `error` name no further test
and so end the agent's round; the agent does not set secrets itself.

### Skills

A URI is a skill and its path, a sequence of `Segments`. `Tables` ranges over the
tables a build may embed, under the assumption a directory tree meets (no empty or
dot segment, no file under a file). The client is modelled by what it learned (`named`, `dirs`) and did
(`crawled`, `read`); it may also ask for any shaped path, unprompted.

## 3. What the runs check

Deadlock is checked everywhere except in `McpServer`, whose session does end, and in
`Credentials`, where everybody may have done all they were asked.

| Run | Instance | Shows |
|---|---|---|
| `server_safety` | 2 requests of any kind, 2 tools (one gated, one of two trips), 2 agents, 1 crash; symmetry in requests and agents | `AtMostOnce`, `UnreachableMeansUntouched`, `OkMeansExecuted`, `TagNamesCaller`, `DisconnectAccounts`, the inductive `IInv`, and that the server implements `AtMostOnceCall` |
| `server_liveness` | as `server_safety` with one agent, `FairSpec` | `EveryCallAnswered`, `SessionEnds` |
| `server_stalled` | same, `StalledSpec` | finding 1 |
| `guidance_hints` | 33 tools, every set of at most 2 obstacles | `SkewIsNamed`, `OnlyConnectIsNoTool`, `NoWrongList`, `EachHintHelps` (every recovery removes something or ends the matter) and `HintsSuffice` (an agent that obeys gets through) |
| `guidance_wronglist`, `guidance_connect` | the same with unknown secrets; the same, asking that every next step is a tool | findings 2 and 3 |
| `resources_live` | 4 settings, at most 3 changes, any read may fail | `ToldTruly`, `PictureComplete` |
| `resources_egress` | same | finding 4 |
| `listing_cuts` | all stores of at most 4 rows, 2 groups, 3 sizes; limits 0 to 4 with 3 the largest legal one | `LogsBounded`, `LogsMaximal`, `NoSilentCut`, `CompactUnlessVerbose`, `WorkloadsFindable` |
| `skills_crawl` | 2 skills, every set of supporting files out of two (one two directories deep), 7 probed paths | `PromiseKept`, `CrawlIsComplete`, `NothingHidden`, `CrawlEnds` |
| `documents` | 28 structs, any first file of the required keys and one more, two puts; names of at most 5 characters of 4 kinds against a limit of 3; two hand edits | `RestartKeeps`, `EditIsLocal`, `AbsentMeansDefault`, `NothingIsStripped`, `Idempotent`, `DraftsValidate`, `CorrectedOnce` |
| `credentials` | a secret with a config or a connection, each in any state, two mishaps | `TroubleShows`, `NoBlindRetry`, `EndsInAVerdict` |

**Bounds.** Two tasks show every pairwise interference through `CURRENT_TOOL` and
the session state, and a second `initialize` against a tool call that overlaps the
hang-up. One crash is enough to
separate "before" from "after" for each request: a request never spans two
connections. Two obstacles make every order of two refusals; the remedies act on
each obstacle separately. Three changes let every setting that one
reply depends on flip within its call, or one setting flip, flip back and flip again. Four rows against a largest limit of three give a list that
exceeds every legal limit, and sizes one, three and five against a budget of four
give records that fit, fit once and never fit; the zero limit and the first
illegal one are both tried. Depth three is the least at which a directory has
only a directory in it. Two puts show an edit of what an edit left, with restarts
between; serde treats fields one by one, so a seed with one more key than the
required ones meets every rule of every field. Five characters against a limit of
three cut a name before, in and after a run of dashes. Two hand edits leave two
unrelated faults in one draft. Two mishaps let a credential go bad twice on the way, or
two credentials once each. `MaxCrashes`, `MaxChanges`,
`MaxObstacles`, `MaxPuts`, `MaxHandEdits` and `MaxMishaps` are the bounds in guards; `Limits`, `Stores`, `Tables` and `Probes` bound inputs.

**Fairness.** `ServerFairness` is weak fairness of each task and of `serve()`:
tokio polls every task that is ready, and rmcp's loop sees the end of input. It
says nothing of the agent, who may never speak again. `DaemonSettles` is not a
fact of this code: it says that the daemon carries out or refuses every request it
has received, and `server_liveness` holds only under it, which is the point of
`server_stalled`: `client.rs` has no timeout, so nothing in the server stands in for
a daemon that holds on to a request. `Guidance`'s fairness is that of an agent
that obeys (its `Follow`) and of a call that returns; whether the agent goes on to
another goal is left to it. `Skills`' fairness is that of a client that goes on
with its crawl; no step of the server has to be taken unasked. `CredFairness` is
an agent that takes every step it was told, a user who does all that was asked,
and a daemon that reconciles; the replies can lead somewhere only for them. Mishaps
and what goes wrong outside have no fairness and are bounded: under unlimited
revocations no reply could lead to an end.

**Mutants.** For every property of every passing run, `PROJECT.json` names a
variant of a modelled definition (marked `Mutant:` in the module) that a plausible
bug would produce, such as retrying a broken exchange, a shared instead of a
task-local tool name, a confirm gate behind the request, counting after the cut,
normalising a path before the lookup, or storing what a GET had filled in. Under each of them the run's property fails.

## 4. What is proved

The theorems hold for every set of requests, tools and clients, any number of
crashes, every store, budget and limit, every alphabet, label limit and name, any
structs of the tables and any number of puts, hand edits and operator's changes,
any workloads with credentials and any number of mishaps, any obstacles to a call, any
tables of skill files of any depth, under the constants' named assumptions only (`Main` is not a request, `NoTool` not a tool, `NoClient` not a
client, rows have a positive size, bounds are natural numbers, the fallback name and
the drafts' namespace are labels, credential rows are of the three kinds, skill files have
paths of real segments). Two of `Guidance` have a hypothesis of their own, given there.

`McpServerProofs`:

- `Typed`: the type invariant.
- `Inductive`: `IInv`, the strengthening. None of the safety invariants is
  inductive by itself. `AtMostOnce` needs to know that a request still on its way
  has not been carried out; that the trip of `host_status` that does not decide
  leaves the count at zero; and that a task between two awaits holds no
  connection. `TagNamesCaller` needs the scope of a task to be its own tool from
  dispatch to reply, and the tag on the wire to be that scope. `TaskInv` says this
  for each task from its position and the stage of its connection, `SeenInv`
  for what the daemon has seen.
- `CallsAtMostOnce`, `UnreachableFinal`, `OkExecuted`, `TagsNameCaller`: from
  `IInv`, by definition.
- `DisconnectIsAccurate`: `DisconnectAccounts`, from `AccountInv`. The counter lies
  between the calls whose task has counted itself and the calls whose task was ever
  polled (`CountInv`, by cardinality lemmas for a set that gains or keeps a member);
  `client_id` is that of `opener` from the first `initialize` on (`OpenerInv`);
  and once the event is composed no further call is answered, so that what it says
  stays true of the session (`ReportInv`).
- `PromiseKept`: `McpServer` implements `AtMostOnceCall`. Each step is shown to be
  one of its steps or a stutter: dispatch and awaits stutter, `DaemonExecutes`
  applies a call that is open, lost or answered "unknown", the code after an await
  answers or loses, and the return of `serve()` loses all that is open.

The step lemmas have one case per action; the actions that resume a task share
`ResumeInv` and `ResumePromise`, stated for any outcome that agrees with the state
of the connection.

`ListingsProofs`: `ListingInductive`, and from it `BudgetKept` (the trimmed logs are
within the byte budget, or are exactly one record) and `TrimMaximal` (what is left
out would not have fitted and is older than all that is kept). The strengthening
says that what is kept is a newest-first prefix of the page, that nothing is used
before something is kept, and that the reply to a logs query is what the loop
stopped with.

`CutsAreTold`, `CompactStays` and `WorkloadsAreFindable` are about all three lists.
`IsHead` is what a cut keeps: rows that come before all that it leaves out, and at least
one if there is one; `LimitedIsHead` and `TruncateIsHead` show it of each of the two
cuts, `NoteCounts` that the note's count is the rest, and `CutInv` carries
both to the reply, through the page a logs query is trimmed from.

`GuidanceProofs`: `GuideInv` says of a refusal what it is about (`Told`): something
that does stand in the way, the tool's own checks before the connection and the
connection before the daemon, and in the daemon's case the answer to it. What each
answer names is computed once (`Remedies`), and each row of the table of tools is looked
at once (`TableOK`). From these:

- `GuidanceTypeCorrect` and `SkewIsTold`, for any obstacles.
- `NextStepsAreTools`: `OnlyConnectIsNoTool`, for any row and any verdict:
  `cosmonic_connect`, the name finding 3 is about, is the only next step that is no tool,
  and only a workload's credentials bring it up.
- `ListsAreOwn`, where every tool that can name an id is classified as workload,
  project or image. The hypothesis is exactly what finding 2 shows missing:
  `cosmonic_secret_delete` names an id and is not classified.
- `FollowingHelps`, under the same hypothesis: `EachHintHelps`, each recovery that is
  followed ends the matter or leaves strictly less in the way. It is the part of `HintsSuffice` that is not
  fairness: the obstacles are a finite set, so only an agent that stops following can
  fail to get through.

`SkillsProofs`: `WhatIsNamedIsServed`, `CrawlsAreComplete` and `ProbesFindNothingElse`
(once a crawl is over, what an unprompted read found is what the crawl had named).
`SkillsInv` says that what was named is in a manifest or is a directory
(`ChildrenAreThere`: so are the children of a directory), and that the children of a
directory were named when it was read. Completeness goes down the path of a file:
`OneDown` is one step, and `AllTheWay` the argument that the shortest directory of the
path which was not read would have been named by the one above it. `CrawlsAdvance` is the
part of `CrawlEnds` that is not fairness: each step of a crawl reads something of the
table that it had not read.

`ResourcesProofs`: `ResourcesTypeCorrect`, `TellsTruly` and `PictureIsComplete`. An answer
once given is not the state of the host any more, so the invariant `ResourceInv`
compares it with `held`, what its setting has been since the call began, which only
grows until the next call; and it accounts for every read of a call as awaited,
failed or answered, which is what makes a picture without failures complete.
`TellsTruly` is about all that is affirmed, and about a denial ("closed", "not signed",
"not offered") if the read it rests on did not fail: a denial after a failed read is
finding 4, and the code does say it.

`DocumentsProofs`: `SchemaSound` looks at each of the 28 tables once (what is left out is
what a missing key means, and is a value of the type), and everything else is about
any sound table: `RoundTrip`, `SavedParses`, and from `DocInv` the theorems
`DocumentsTypeCorrect`, `RestartsKeep`, `AbsenceIsDefault`, `EditsAreLocal` and
`NothingStripped`. `DocInv` says that the file is either the first one or what `Save`
made of the document last accepted, that the daemon, when up, has that document,
and that a client's document is a saved one with one key changed; `SeedInv` follows the
promised keys of the first file through it. The fields of `ReadOnly` and `Assigned` are in
no promise to a client, so `EditsAreLocal` says of them that no client changes them and
`AbsenceIsDefault` is silent about the first; `PartsAgree` is the agreement for the parts of a
manifest, with `Metadata.namespace` as the one exception, which the property states: there,
and only there, a missing key is not the `Default`.

`WorkloadsProofs`: `NameIsALabel` and `NameIsStable`, about `DnsLabel` alone. `NameInv`
says that what has been written is a label but for one trailing dash, has no two dashes
in a row and never exceeds the limit, that `last_dash` is exactly "nothing written or a
dash last", and that of a name that is already normal the output is the prefix read.
`WorkloadsNameAsLabels` and `WorkloadsAreDocuments` show that the
composition implements `NameSpec` and `DocSpec`, each of its steps being a step or a
stutter of each, so that the theorems of both hold of it too. `DraftsAreAccepted` and
`OneCorrectionIsEnough` rest on `DraftInv`: a draft that nobody edited has no faults, a
refusal reports all a draft has, and what was corrected has none, so that no
correction makes a new fault.

`CredentialsProofs`: `NoTestIsBlind` and `CountsAreComplete`. `CredInv` says that each row
is in a state of its kind, that what is asked fits the row it is about (or what the
agent relays could leave a connection "registered", which no count would show), and
that when nothing happened since the last verdict, a pending test has an ask or a
start before it. That last part needs one more: a workload found parked after a verdict is one the
agent was told to start, since reading it adds a test to the steps.

Only model-checked: the five liveness properties (`EveryCallAnswered`, `SessionEnds`,
`HintsSuffice`, `CrawlEnds`, `EndsInAVerdict`), because the provers here do not reason
about fairness and `ENABLED`. What the findings refute, `NoWrongList` without its
hypothesis among it, is not a theorem. Every safety invariant and
action property of a passing run is stated by a theorem.

Induction: the library's induction theorems take an operator as a parameter, which the
provers here cannot instantiate. Where an argument needs induction over the natural
numbers (the first row a cut keeps, the directories along a path), the proofs use
that `<` on `Nat` is well founded as a relation (`BelowWellFounded`,
`SmallerWellFounded`) and take a least counterexample. What a recursive function
computes is not needed by any theorem: sizes and counts are kept by the loops of the
models.

## 5. What the runs found

1. `server_stalled`: `initialize` awaits the connected event (`server.rs` 470-474)
   over an exchange without a timeout, so a daemon that accepts and never answers
   keeps the handshake from completing, although the event is documented as best
   effort and never surfaced to the agent (`server.rs` 67-70).
2. `guidance_wronglist`: a `not_found` for a tool of `Subject::Other`, such as
   `cosmonic_secret_delete`, is answered with a hint to list workloads
   (`server.rs` 249); the doc of `Subject` promises hints that name no wrong list
   tool (`server.rs` 181-183).
3. `guidance_connect`: next steps of parked connections (`tools.rs` 1558) and of an
   `insufficient` verdict (1613-1617), which a secret can have too (`lib.rs` 455-456,
   523-524), name `cosmonic_connect`, which is not a tool of this server.
4. `resources_egress`: `cosmonic://capabilities` keeps its egress section, with
   the loopback door called closed, when the egress read failed (`resources.rs`
   163-182); its doc says such a section is omitted (`resources.rs` 110-112). The test of
   that doc asserts the section instead ("egress defaults must always be stated",
   `resources.rs` 313-324), so code and test agree with each other and not with the doc.

Seen while modelling, without a run: `cosmonic_image_list` has no offset, so
beyond 1000 matching images the tail is in no reply (`tools.rs` 157-162 advises to
raise the limit or narrow); a parked connection row that is already `connected` still
falls into the arm that asks the user to connect (`tools.rs` 1553), which is harmless;
secret rows in the states `failed`, `invalid` or `insufficient` of a workload parked for
another reason are in no ask, but they do not keep it parked; `Metadata` derives a
`Default` with an empty namespace (`workload.rs` 77) where a missing key reads "default"
(81, 92-94). `AbsentMeansDefault` states it as its one exception; no document is made from
that `Default`, because the name is required.

## 6. Not modelled, and why

Prompts and the text of descriptions, hints and notes (wording; the remedies a hint
names are modelled); response-only structs of the API crate (nothing reads them back
from a file, so their rules relate no two states); nested structs are one value in the
outer struct's table; structs with one required field and nothing else. `ignored_portability_fields` and the
annotations of `workload.rs` are projections of a spec without state.
Telemetry normalisation (`telemetry.rs`) is four pure functions whose result nothing
depends on. Argument parsing, logging set-up and socket path selection (`main.rs`,
`lib.rs`, `paths.rs`) are start-up I/O without later effect; frontmatter parsing and
digests of skills are data. Request bodies of the
tools are not modelled, and the daemon's behaviour only as far as the code can see
it: its writing of documents is modelled as the API docs describe it, for one client
at a time, and `otlp_status`, which it adds to a GET of the log settings and which a client
may send back, is a key no struct of the file has and is dropped like any other.
Release scripts and tests have no state.

## 7. Plan

Done, in this order because each rests on the one before: the session and its
exchanges with the abstract promise and its proofs, the guidance of replies, the
live resources and the host status with their proofs, the listings with the proof of
the budget, the skills registry, names and documents with their proofs and the
composition of both, the credentials loop with its proofs; then the proofs of the
account of the session, of the cuts, of the guidance and of the skills registry.

Next, all of it proofs:

1. The safety halves of the remaining liveness properties, as `FollowingHelps` is of
   `HintsSuffice` and `CrawlsAdvance` of `CrawlEnds`: each step of a task brings its
   call nearer to an answer (`EveryCallAnswered`, `SessionEnds`).
2. `Credentials`: what an ask that is done changes, for any rows, as the same half of
   `EndsInAVerdict`.
