------------------------------ MODULE Listings ------------------------------
(***************************************************************************)
(* The replies that leave rows out: cosmonic_workload_list, _image_list    *)
(* and _logs_query (src/tools.rs).  The daemon holds a sequence of rows,   *)
(* newest first for logs; the tool filters and cuts it and says what it    *)
(* left out.  A row is known by its position, and the code keeps the order *)
(* of positions, so a cut of the rows is a set of them; a row's group      *)
(* stands for what the filters select by, its size for its JSON's bytes.   *)
(***************************************************************************)
EXTENDS Integers, Sequences, FiniteSets

CONSTANTS Stores,       \* the sequences of rows the daemon may hold
          Groups,
          Budget,       \* LOG_BYTE_BUDGET
          MaxLimit,     \* per tool, the largest limit it accepts
          DefaultLimit, \* per tool, its limit when none is given
          Limits        \* bound on the limits the agent tries

ListTools == {"workload_list", "image_list", "logs_query"}
Row       == [group : Groups, size : Nat \ {0}]

ASSUME StoreAssumption  == Stores \subseteq Seq(Row)
ASSUME BudgetAssumption == Budget \in Nat
ASSUME LimitAssumption  == /\ MaxLimit \in [ListTools -> Nat \ {0}]
                           /\ DefaultLimit \in [ListTools -> Nat \ {0}]
                           /\ Limits \subseteq Nat

VARIABLES
    store,   \* the daemon's rows
    query,   \* the call being served
    stage,   \* "idle", "asked", "trimming" (budget_logs' loop), "replied"
    page,    \* the log records the daemon returned
    more,    \* LogsResponse::truncated
    kept,    \* budget_logs: those of them kept so far,
    used,    \*   and their bytes
    reply

vars == <<store, query, stage, page, more, kept, used, reply>>

-----------------------------------------------------------------------------
(* Queries.  An absent parameter is the empty set (Option::None).          *)

Queries == [tool : ListTools, limit : {{}} \cup {{n} : n \in Limits},
            group : {{}} \cup {{g} : g \in Groups}, verbose : BOOLEAN]

LimitOutOfRange(q) == \E n \in q.limit : n = 0 \/ n > MaxLimit[q.tool]

\* filter_workloads, the filter of shape_images, and the daemon's own of logs.
Matching(s, q) == {i \in 1..Len(s) : q.group = {} \/ s[i].group \in q.group}

\* Vec::truncate.
Truncate(rows, n) == {i \in rows : Cardinality({j \in rows : j < i}) < n}

\* Mutant: a default limit for every tool.
Limited_Always(rows, q) ==
    Truncate(rows, IF q.limit # {} THEN CHOOSE n \in q.limit : TRUE ELSE DefaultLimit[q.tool])

\* workload_list has no default: without a limit every row stays.
Limited(rows, q) ==
    IF q.limit # {} THEN Truncate(rows, CHOOSE n \in q.limit : TRUE)
    ELSE IF q.tool = "workload_list" THEN rows
    ELSE Truncate(rows, DefaultLimit[q.tool])

-----------------------------------------------------------------------------
(* Replies.  A list is a bare array until a note wraps it in an object.    *)

Array(rows) ==
    [code |-> "ok", rows |-> rows, array |-> TRUE, compact |-> FALSE, dropped |-> 0]

NoReply      == [Array({}) EXCEPT !.code = "none"]
InvalidLimit == [Array({}) EXCEPT !.code = "invalid_limit"]

\* summarize_workloads passes anything that is not an array through.
Summarize(v) == IF v.array THEN [v EXCEPT !.compact = TRUE] ELSE v

\* note_truncation.
NoteTruncation(v, matched) ==
    LET shown == Cardinality(v.rows)
    IN  IF shown >= matched THEN v
        ELSE [v EXCEPT !.array = FALSE, !.dropped = matched - shown]

\* Mutant: the note first.
WorkloadList_NoteFirst(s, q) ==
    LET matched == Matching(s, q)
        rows    == NoteTruncation(Array(Limited(matched, q)), Cardinality(matched))
    IN  IF q.verbose THEN rows ELSE Summarize(rows)

\* Mutant: counted after the cut, so nothing ever looks cut.
WorkloadList_CountLate(s, q) ==
    LET rows == Array(Limited(Matching(s, q), q))
    IN  IF q.verbose THEN rows ELSE Summarize(rows)

WorkloadList(s, q) ==
    LET matched == Matching(s, q)
        rows    == Array(Limited(matched, q))
    IN  NoteTruncation(IF q.verbose THEN rows ELSE Summarize(rows), Cardinality(matched))

\* shape_images.
ImageList(s, q) ==
    LET matched == Matching(s, q)
    IN  NoteTruncation(Array(Limited(matched, q)), Cardinality(matched))

-----------------------------------------------------------------------------

NoQuery == [tool |-> "logs_query", limit |-> {}, group |-> {}, verbose |-> FALSE]

Init ==
    /\ store \in Stores
    /\ query = NoQuery /\ stage = "idle"
    /\ page = {} /\ more = FALSE /\ kept = {} /\ used = 0
    /\ reply = NoReply

Ask(q) ==
    /\ stage \in {"idle", "replied"}
    /\ query' = q /\ stage' = "asked"
    /\ page' = {} /\ more' = FALSE /\ kept' = {} /\ used' = 0
    /\ reply' = NoReply
    /\ UNCHANGED store

Answer(r) ==
    /\ stage' = "replied" /\ reply' = r
    /\ UNCHANGED <<store, query, page, more, kept, used>>

Refuse ==
    /\ stage = "asked" /\ LimitOutOfRange(query)
    /\ Answer(InvalidLimit)

ReplyList ==
    /\ stage = "asked" /\ ~LimitOutOfRange(query)
    /\ \/ query.tool = "workload_list" /\ Answer(WorkloadList(store, query))
       \/ query.tool = "image_list"    /\ Answer(ImageList(store, query))

\* The daemon cuts its log ring to the limit and flags it.
DaemonLogs ==
    /\ stage = "asked" /\ ~LimitOutOfRange(query) /\ query.tool = "logs_query"
    /\ page' = Limited(Matching(store, query), query)
    /\ more' = (page' # Matching(store, query))
    /\ stage' = "trimming"
    /\ UNCHANGED <<store, query, kept, used, reply>>

NextRecord(i) == i \in page \ kept /\ \A j \in page \ kept : i <= j

\* Mutant: an oversized first record dropped like any other.
OverBudget_Strict(i) == used + store[i].size > Budget

\* Mutant: the record that crosses the budget still kept.
OverBudget_Late(i) == kept # {} /\ used > Budget

\* The first record is kept whatever its size.
OverBudget(i) == kept # {} /\ used + store[i].size > Budget

\* Mutant: the bytes counted down.
KeepRecord_CountDown(i) ==
    /\ stage = "trimming" /\ NextRecord(i) /\ ~OverBudget(i)
    /\ kept' = kept \cup {i}
    /\ used' = used - store[i].size
    /\ UNCHANGED <<store, query, stage, page, more, reply>>

\* One turn of budget_logs' loop.
KeepRecord(i) ==
    /\ stage = "trimming" /\ NextRecord(i) /\ ~OverBudget(i)
    /\ kept' = kept \cup {i}
    /\ used' = used + store[i].size
    /\ UNCHANGED <<store, query, stage, page, more, reply>>

LogReply == [Array(kept) EXCEPT !.dropped = Cardinality(page \ kept)]

ReplyLogs ==
    /\ stage = "trimming"
    /\ kept = page \/ \E i \in page : NextRecord(i) /\ OverBudget(i)
    /\ Answer(LogReply)

Next ==
    \/ \E q \in Queries : Ask(q)
    \/ Refuse \/ ReplyList \/ DaemonLogs \/ ReplyLogs
    \/ \E i \in 1..Len(store) : KeepRecord(i)

Spec == Init /\ [][Next]_vars

-----------------------------------------------------------------------------
(* Properties.                                                             *)

TypeOK ==
    /\ store \in Stores
    /\ stage \in {"idle", "asked", "trimming", "replied"}
    /\ page \subseteq 1..Len(store)
    /\ more \in BOOLEAN
    /\ kept \subseteq page
    /\ used \in Nat

\* The log loop keeps its reply under LOG_BYTE_BUDGET, or keeps exactly one
\* record, larger than the budget by itself.
LogsBounded == used <= Budget \/ \E i \in page : kept = {i}

\* The trim is no harsher than the budget asks: the newest record it left out
\* would not have fitted, everything kept is newer than everything left out,
\* and a log with anything to say is never empty.
LogsMaximal ==
    stage = "replied" /\ query.tool = "logs_query" /\ reply.code = "ok" =>
        /\ \A i \in page : NextRecord(i) => used + store[i].size > Budget
        /\ \A i \in kept, j \in page \ kept : i < j
        /\ page # {} => reply.rows # {}

\* What is left out is said, and what is shown is the head of what matches, in
\* the daemon's order: no reply of the three passes a part off as the whole, nor nothing
\* for a part (limit_out_of_range's "0 of 247 shown").
NoSilentCut ==
    reply.code = "ok" =>
        LET all == Matching(store, query)
        IN  /\ \A i \in reply.rows, j \in all \ reply.rows : i < j
            /\ reply.rows # all => reply.dropped > 0 \/ more
            /\ ~more => Cardinality(all) = Cardinality(reply.rows) + reply.dropped
            /\ all # {} => reply.rows # {}

\* Full specs only on request, for a shortened list too: note_truncation's "Applied
\* LAST, after summarize_workloads".
CompactUnlessVerbose ==
    reply.code = "ok" /\ query.tool = "workload_list" => reply.compact = ~query.verbose

\* A row that a note leaves out is in the reply of some query the tool accepts: no limit
\* returns every workload that matches.
WorkloadsFindable ==
    reply.code = "ok" /\ reply.dropped > 0 /\ query.tool = "workload_list" =>
        \A i \in Matching(store, query) \ reply.rows : \E q \in Queries :
            /\ q.tool = query.tool /\ ~LimitOutOfRange(q)
            /\ i \in WorkloadList(store, q).rows
=============================================================================
