--------------------------- MODULE ListingsProofs ---------------------------
(***************************************************************************)
(* The byte budget of cosmonic_logs_query, for every log, every budget and *)
(* every limit: the loop of budget_logs never exceeds it by more than one  *)
(* record that is larger than the budget alone, and never leaves out a     *)
(* record that would have fitted or anything newer than what it keeps.     *)
(* And the cuts of all three tools: what a reply shows is the head of what *)
(* matches, and what it leaves out is counted and can be asked for.        *)
(***************************************************************************)
EXTENDS Listings, FiniteSetTheorems, TLAPS

\* What the loop has kept so far is the newest part of the page, and a reply to a
\* logs query is what the loop has kept.
LogInv ==
    /\ \A i \in kept, j \in page \ kept : i < j
    /\ kept = {} => used = 0
    /\ stage \in {"idle", "asked"} => page = {} /\ kept = {}
    /\ stage = "trimming" => query.tool = "logs_query"
    /\ stage \in {"asked", "trimming"} => reply.code = "none"
    /\ stage = "replied" /\ query.tool = "logs_query" /\ reply.code = "ok" =>
           /\ reply.rows = kept
           /\ \A i \in page : NextRecord(i) => used + store[i].size > Budget
           /\ page # {} => kept # {}

ListingInv == TypeOK /\ LogsBounded /\ LogInv

\* The rows of a store have a group and a positive size.
LEMMA RowTyped ==
    ASSUME store \in Stores, NEW i \in 1..Len(store)
    PROVE  store[i] \in Row /\ store[i].size \in Nat \ {0}
<1>1. store \in Seq(Row)  BY StoreAssumption
<1>2. store[i] \in Row    BY <1>1
<1> QED  BY <1>2 DEF Row

\* What the daemon returns of its log ring are positions of its store.
LEMMA LimitedTyped ==
    ASSUME NEW s, NEW q
    PROVE  Limited(Matching(s, q), q) \subseteq 1..Len(s)
BY DEF Limited, Truncate, Matching

\* Before the first call nothing is kept.
LEMMA InitListing == Init => ListingInv
<1> SUFFICES ASSUME Init PROVE ListingInv
  OBVIOUS
<1>1. TypeOK       BY DEF Init, TypeOK
<1>2. LogsBounded  BY BudgetAssumption DEF Init, LogsBounded
<1>3. LogInv       BY DEF Init, LogInv
<1> QED  BY <1>1, <1>2, <1>3 DEF ListingInv

\* Every step keeps the budget and the shape of what the loop has kept.
LEMMA StepListing == ListingInv /\ [Next]_vars => ListingInv'
<1> SUFFICES ASSUME ListingInv, [Next]_vars PROVE ListingInv'
  OBVIOUS
<1> USE DEF ListingInv
<1>1. ASSUME NEW q \in Queries, Ask(q) PROVE ListingInv'
  <2>1. /\ page' = {} /\ kept' = {} /\ used' = 0 /\ more' = FALSE /\ store' = store
        /\ stage' = "asked" /\ reply'.code = "none"
    BY <1>1 DEF Ask, NoReply, Array
  <2>2. TypeOK'       BY <2>1 DEF TypeOK
  <2>3. LogsBounded'  BY <2>1, BudgetAssumption DEF LogsBounded
  <2>4. LogInv'       BY <2>1 DEF LogInv
  <2> QED  BY <2>2, <2>3, <2>4
<1>2. CASE Refuse
  BY <1>2 DEF Refuse, Answer, InvalidLimit, Array, TypeOK, LogsBounded, LogInv, NextRecord
<1>3. CASE ReplyList
  <2>1. /\ stage = "asked" /\ stage' = "replied" /\ query.tool # "logs_query"
        /\ UNCHANGED <<store, query, page, more, kept, used>>
    BY <1>3 DEF ReplyList, Answer
  <2> QED  BY <2>1 DEF TypeOK, LogsBounded, LogInv
<1>4. CASE DaemonLogs
  <2>1. page' \subseteq 1..Len(store)  BY <1>4, LimitedTyped DEF DaemonLogs
  <2>2. kept = {} /\ used = 0 /\ reply.code = "none"  BY <1>4 DEF DaemonLogs, LogInv
  <2>3. /\ query.tool = "logs_query" /\ stage' = "trimming" /\ more' \in BOOLEAN
        /\ UNCHANGED <<store, query, kept, used, reply>>
    BY <1>4 DEF DaemonLogs
  <2> QED  BY <2>1, <2>2, <2>3, BudgetAssumption DEF TypeOK, LogsBounded, LogInv
<1>5. ASSUME NEW i \in 1..Len(store), KeepRecord(i) PROVE ListingInv'
  <2>1. /\ NextRecord(i) /\ ~OverBudget(i) /\ stage = "trimming"
        /\ kept' = kept \cup {i} /\ used' = used + store[i].size
        /\ UNCHANGED <<store, query, stage, page, more, reply>>
    BY <1>5 DEF KeepRecord
  <2>2. store[i].size \in Nat \ {0}  BY RowTyped DEF TypeOK
  <2>3. TypeOK'  BY <2>1, <2>2 DEF TypeOK, NextRecord
  <2>4. LogsBounded'
    <3>1. CASE kept = {}
      BY <2>1, <3>1 DEF LogsBounded, NextRecord
    <3>2. CASE kept # {}
      BY <2>1, <2>2, <3>2, BudgetAssumption DEF LogsBounded, OverBudget, TypeOK
    <3> QED  BY <3>1, <3>2
  <2>5. \A a \in kept', b \in page' \ kept' : a < b
    <3> SUFFICES ASSUME NEW a \in kept \cup {i}, NEW b \in page \ (kept \cup {i})
                 PROVE  a < b
      BY <2>1
    <3>1. CASE a \in kept  BY <3>1 DEF LogInv
    <3>2. CASE a = i
      <4>1. i <= b /\ i # b /\ i \in Int /\ b \in Int
        BY <2>1 DEF NextRecord, TypeOK
      <4> QED  BY <3>2, <4>1
    <3> QED  BY <3>1, <3>2
  <2> QED  BY <2>1, <2>3, <2>4, <2>5 DEF LogInv
<1>6. CASE ReplyLogs
  <2>1. /\ stage = "trimming" /\ stage' = "replied"
        /\ UNCHANGED <<store, query, page, more, kept, used>>
        /\ reply'.rows = kept
    BY <1>6 DEF ReplyLogs, Answer, LogReply, Array
  <2>2. \A j \in page : NextRecord(j) => used + store[j].size > Budget /\ kept # {}
    <3>1. CASE kept = page  BY <3>1 DEF NextRecord
    <3>2. CASE \E i \in page : NextRecord(i) /\ OverBudget(i)
      <4> PICK i \in page : NextRecord(i) /\ OverBudget(i)  BY <3>2
      <4> SUFFICES ASSUME NEW j \in page, NextRecord(j)
                   PROVE  used + store[j].size > Budget /\ kept # {}
        OBVIOUS
      <4>1. i = j  BY DEF NextRecord, TypeOK
      <4> QED  BY <4>1 DEF OverBudget
    <3> QED  BY <1>6, <3>1, <3>2 DEF ReplyLogs
  <2>3. page # {} => kept # {}
    BY <1>6 DEF ReplyLogs, OverBudget
  <2>4. LogInv'
    BY <2>1, <2>2, <2>3 DEF LogInv, NextRecord
  <2> QED  BY <2>1, <2>4 DEF TypeOK, LogsBounded
<1>7. CASE UNCHANGED vars
  BY <1>7 DEF vars, TypeOK, LogsBounded, LogInv, NextRecord
<1> QED  BY <1>1, <1>2, <1>3, <1>4, <1>5, <1>6, <1>7 DEF Next

\* The strengthened invariant holds throughout.
THEOREM ListingInductive == Spec => []ListingInv
BY InitListing, StepListing, PTL DEF Spec

\* Every log, every limit, every budget: the reply stays under the budget or is
\* exactly one record.
THEOREM BudgetKept == Spec => []LogsBounded
BY ListingInductive, PTL DEF ListingInv

\* Nothing that would have fitted, and nothing newer, is left out.
THEOREM TrimMaximal == Spec => []LogsMaximal
<1>1. ListingInv => LogsMaximal
  BY DEF ListingInv, LogInv, LogsMaximal
<1> QED  BY <1>1, ListingInductive, PTL

\* Type correctness, for every store and every limit.
THEOREM ListingsTypeCorrect == Spec => []TypeOK
BY ListingInductive, PTL DEF ListingInv

-----------------------------------------------------------------------------
(* What a cut keeps.                                                       *)

Below == {p \in Nat \X Nat : p[1] < p[2]}

LEMMA BelowWellFounded == IsWellFoundedOn(Below, Nat)
BY NatLessThanWellFounded, Zenon DEF OpToRel, Below

\* Some row comes first.
LEMMA First ==
    ASSUME NEW rows \in SUBSET Nat, rows # {}
    PROVE  \E i \in rows : \A j \in rows : i <= j
<1>1. PICK i \in rows : \A j \in rows : <<j, i>> \notin Below
  BY BelowWellFounded, WFMin
<1>2. \A j \in rows : ~(j < i)
  BY <1>1 DEF Below
<1> QED  BY <1>2

\* A cut of a list is its head: as much as is kept comes first, and something does.
IsHead(cut, rows) ==
    /\ cut \subseteq rows
    /\ \A i \in cut, j \in rows \ cut : i < j
    /\ rows # {} => cut # {}

LEMMA MatchingFinite ==
    ASSUME store \in Stores, NEW q
    PROVE  /\ Matching(store, q) \subseteq 1..Len(store)
           /\ IsFiniteSet(Matching(store, q))
<1>1. Len(store) \in Nat  BY StoreAssumption
<1>2. IsFiniteSet(1..Len(store))  BY <1>1, FS_Interval
<1>3. Matching(store, q) \subseteq 1..Len(store)  BY DEF Matching
<1> QED  BY <1>2, <1>3, FS_Subset

\* Vec::truncate to at least one row.
LEMMA TruncateIsHead ==
    ASSUME NEW rows \in SUBSET Nat, IsFiniteSet(rows), NEW n \in Nat \ {0}
    PROVE  IsHead(Truncate(rows, n), rows)
<1> DEFINE before(i) == {j \in rows : j < i}
<1>1. \A i \in rows : IsFiniteSet(before(i)) /\ Cardinality(before(i)) \in Nat
  BY FS_Subset, FS_CardinalityType
<1>2. Truncate(rows, n) = {i \in rows : Cardinality(before(i)) < n}
  BY DEF Truncate
<1>3. ASSUME NEW i \in Truncate(rows, n), NEW j \in rows \ Truncate(rows, n)
      PROVE  i < j
  <2> HIDE DEF before
  <2>1. i # j /\ i \in rows  BY <1>2
  <2>2. SUFFICES ASSUME j < i PROVE FALSE  BY <2>1
  <2> USE DEF before
  <2>3. before(j) \subseteq before(i)
    <3>1. \A k \in rows : k < j => k < i  BY <2>1, <2>2
    <3> QED  BY <3>1
  <2>4. Cardinality(before(j)) <= Cardinality(before(i))  BY <1>1, <2>1, <2>3, FS_Subset
  <2>5. Cardinality(before(i)) < n  BY <1>2
  <2> HIDE DEF before
  <2>6. Cardinality(before(j)) < n  BY <1>1, <2>1, <2>4, <2>5
  <2> QED  BY <1>2, <2>6
<1>4. ASSUME rows # {} PROVE Truncate(rows, n) # {}
  <2>1. PICK i \in rows : \A j \in rows : i <= j  BY <1>4, First
  <2>2. before(i) = {}
    <3>1. \A j \in rows : ~(j < i)  BY <2>1
    <3> QED  BY <3>1
  <2>3. Cardinality(before(i)) < n  BY <2>2, FS_EmptySet
  <2> HIDE DEF before
  <2> QED  BY <1>2, <2>3
<1> QED  BY <1>2, <1>3, <1>4 DEF IsHead

\* The cut of any query that passes the check of its limit.
LEMMA LimitedIsHead ==
    ASSUME store \in Stores, NEW q \in Queries, ~LimitOutOfRange(q)
    PROVE  IsHead(Limited(Matching(store, q), q), Matching(store, q))
<1> DEFINE all == Matching(store, q)
<1>1. all \in SUBSET Nat /\ IsFiniteSet(all)
  BY MatchingFinite
<1> HIDE DEF all
<1>2. CASE q.limit # {}
  <2>1. PICK n \in Limits : q.limit = {n}  BY <1>2 DEF Queries
  <2>2. n \in Nat \ {0}  BY <2>1, LimitAssumption DEF LimitOutOfRange
  <2>3. Limited(all, q) = Truncate(all, n)  BY <1>2, <2>1 DEF Limited
  <2> QED  BY <1>1, <2>2, <2>3, TruncateIsHead DEF all
<1>3. CASE q.limit = {} /\ q.tool = "workload_list"
  BY <1>3 DEF Limited, IsHead, all
<1>4. CASE q.limit = {} /\ q.tool # "workload_list"
  <2>1. DefaultLimit[q.tool] \in Nat \ {0}  BY LimitAssumption DEF Queries
  <2>2. Limited(all, q) = Truncate(all, DefaultLimit[q.tool])  BY <1>4 DEF Limited
  <2> QED  BY <1>1, <2>1, <2>2, TruncateIsHead DEF all
<1> QED  BY <1>2, <1>3, <1>4

-----------------------------------------------------------------------------
(* What a reply says of its cut.                                           *)

\* note_truncation, given the rows kept of all that match: it counts the others.
LEMMA NoteCounts ==
    ASSUME NEW all, IsFiniteSet(all), NEW cut \in SUBSET all,
           NEW v \in {Array(cut), Summarize(Array(cut))}
    PROVE  LET r == NoteTruncation(v, Cardinality(all))
           IN  /\ r.code = "ok" /\ r.rows = cut /\ r.compact = v.compact
               /\ cut # all => r.dropped > 0
               /\ Cardinality(all) = Cardinality(cut) + r.dropped
<1>1. /\ Cardinality(all) \in Nat /\ Cardinality(cut) \in Nat
      /\ Cardinality(cut) <= Cardinality(all)
      /\ Cardinality(cut) = Cardinality(all) => cut = all
  BY FS_Subset, FS_CardinalityType
<1>2. v.code = "ok" /\ v.rows = cut /\ v.dropped = 0
  BY DEF Array, Summarize
<1>3. CASE Cardinality(cut) >= Cardinality(all)
  BY <1>1, <1>2, <1>3 DEF NoteTruncation
<1>4. CASE Cardinality(cut) < Cardinality(all)
  <2>1. NoteTruncation(v, Cardinality(all))
          = [v EXCEPT !.array = FALSE, !.dropped = Cardinality(all) - Cardinality(cut)]
    BY <1>1, <1>2, <1>4 DEF NoteTruncation
  <2> QED  BY <1>1, <1>2, <1>4, <2>1 DEF Array, Summarize
<1> QED  BY <1>1, <1>3, <1>4

\* The code of a refusal is not that of a list.
LEMMA OtherCodes == NoReply.code = "none" /\ InvalidLimit.code = "invalid_limit"
BY DEF NoReply, InvalidLimit, Array

\* Only queries the tool accepts are cut, a page of logs is the head of what matches, and
\* "more" says whether it is all.
CutInv ==
    /\ query \in Queries
    /\ stage = "trimming" => /\ IsHead(page, Matching(store, query))
                             /\ more = (page # Matching(store, query))
    /\ stage = "idle" => reply.code # "ok"
    /\ NoSilentCut /\ CompactUnlessVerbose

\* A reply that is a list of workloads or images.
LEMMA ListReply ==
    ASSUME ListingInv, CutInv, ReplyList
    PROVE  CutInv'
<1> DEFINE all == Matching(store, query)
           cut == Limited(all, query)
<1>1. /\ stage' = "replied" /\ query \in Queries /\ store \in Stores
      /\ UNCHANGED <<store, query, more>>
  BY DEF ReplyList, Answer, CutInv, ListingInv, TypeOK
<1>2. IsFiniteSet(all) /\ IsHead(cut, all)
  BY <1>1, MatchingFinite, LimitedIsHead DEF ReplyList
<1>3. PICK v \in {Array(cut), Summarize(Array(cut))} :
        /\ reply' = NoteTruncation(v, Cardinality(all))
        /\ query.tool = "workload_list" => v.compact = ~query.verbose
  <2>1. query.verbose \in BOOLEAN  BY <1>1 DEF Queries
  <2>2. CASE query.tool = "workload_list"
    <3>1. reply' = NoteTruncation(IF query.verbose THEN Array(cut) ELSE Summarize(Array(cut)),
                                  Cardinality(all))
      BY <2>2 DEF ReplyList, Answer, WorkloadList
    <3>2. Array(cut).compact = FALSE /\ Summarize(Array(cut)).compact = TRUE
      BY DEF Array, Summarize
    <3> QED  BY <2>1, <3>1, <3>2
  <2>3. CASE query.tool = "image_list"
    BY <2>3 DEF ReplyList, Answer, ImageList
  <2> QED  BY <2>2, <2>3 DEF ReplyList
<1> HIDE DEF cut, all
<1>4. /\ reply'.rows = cut /\ reply'.compact = v.compact
      /\ cut # all => reply'.dropped > 0
      /\ Cardinality(all) = Cardinality(cut) + reply'.dropped
  BY <1>2, <1>3, NoteCounts DEF IsHead
<1>5. NoSilentCut'
  BY <1>1, <1>2, <1>4 DEF NoSilentCut, IsHead, all
<1>6. CompactUnlessVerbose'
  BY <1>1, <1>3, <1>4 DEF CompactUnlessVerbose
<1> QED  BY <1>1, <1>5, <1>6 DEF CutInv

\* A reply of logs: what the budget leaves out is counted, what the daemon left out flagged.
LEMMA LogsReply ==
    ASSUME ListingInv, CutInv, ReplyLogs, ListingInv'
    PROVE  CutInv'
<1> DEFINE all == Matching(store, query)
<1>1. /\ stage = "trimming" /\ stage' = "replied" /\ query.tool = "logs_query"
      /\ query \in Queries
      /\ UNCHANGED <<store, query, page, more, kept>>
      /\ reply' = [Array(kept) EXCEPT !.dropped = Cardinality(page \ kept)]
  BY DEF ReplyLogs, Answer, LogReply, CutInv, ListingInv, LogInv
<1>2. reply'.rows = kept /\ reply'.code = "ok" /\ reply'.dropped = Cardinality(page \ kept)
  BY <1>1 DEF Array
<1>3. /\ IsHead(page, all) /\ more = (page # all) /\ kept \subseteq page
      /\ \A i \in kept, j \in page \ kept : i < j
      /\ page # {} => kept # {}
  BY <1>1, <1>2 DEF CutInv, ListingInv, TypeOK, LogInv
<1>4. IsFiniteSet(all) /\ IsFiniteSet(page) /\ IsFiniteSet(page \ kept)
  BY <1>3, MatchingFinite, FS_Subset DEF ListingInv, TypeOK, IsHead
<1> HIDE DEF all
<1>5. \A i \in kept, j \in all \ kept : i < j
  BY <1>3 DEF IsHead
<1>6. kept # page => Cardinality(page \ kept) > 0
  <2>1. kept # page => page \ kept # {}  BY <1>3
  <2>2. Cardinality(page \ kept) \in Nat  BY <1>4, FS_CardinalityType
  <2> QED  BY <1>4, <2>1, <2>2, FS_EmptySet
<1>7. Cardinality(page) = Cardinality(kept) + Cardinality(page \ kept)
  <2>1. page \cap kept = kept /\ IsFiniteSet(kept)  BY <1>3, <1>4, FS_Subset
  <2>2. Cardinality(page \ kept) = Cardinality(page) - Cardinality(kept)
    BY <1>4, <2>1, FS_Difference
  <2>3. Cardinality(page) \in Nat /\ Cardinality(kept) \in Nat
    BY <1>4, <2>1, FS_CardinalityType
  <2> QED  BY <2>2, <2>3
<1>8. all # {} => kept # {}
  BY <1>3 DEF IsHead
<1>9. NoSilentCut'
  BY <1>1, <1>2, <1>3, <1>5, <1>6, <1>7, <1>8 DEF NoSilentCut, all
<1> QED  BY <1>1, <1>9 DEF CutInv, CompactUnlessVerbose

LEMMA InitCut == Init => CutInv
<1> SUFFICES ASSUME Init PROVE CutInv
  OBVIOUS
<1>1. query \in Queries  BY DEF Init, NoQuery, Queries, ListTools
<1> QED  BY <1>1, OtherCodes DEF Init, CutInv, NoSilentCut, CompactUnlessVerbose

LEMMA StepCut == ListingInv /\ CutInv /\ [Next]_vars => CutInv'
<1> SUFFICES ASSUME ListingInv, CutInv, [Next]_vars PROVE CutInv'
  OBVIOUS
<1>1. ASSUME NEW q \in Queries, Ask(q) PROVE CutInv'
  BY <1>1, OtherCodes DEF Ask, CutInv, NoSilentCut, CompactUnlessVerbose
<1>2. CASE Refuse
  BY <1>2, OtherCodes DEF Refuse, Answer, CutInv, NoSilentCut, CompactUnlessVerbose
<1>3. CASE DaemonLogs
  <2>1. /\ page' = Limited(Matching(store, query), query) /\ ~LimitOutOfRange(query)
        /\ more' = (page' # Matching(store, query)) /\ stage' = "trimming"
        /\ UNCHANGED <<store, query, reply>> /\ reply.code = "none"
    BY <1>3 DEF DaemonLogs, ListingInv, LogInv
  <2>2. IsHead(page', Matching(store, query))
    BY <2>1, LimitedIsHead DEF CutInv, ListingInv, TypeOK
  <2> QED  BY <2>1, <2>2 DEF CutInv, NoSilentCut, CompactUnlessVerbose
<1>4. ASSUME NEW i \in 1..Len(store), KeepRecord(i) PROVE CutInv'
  BY <1>4 DEF KeepRecord, CutInv, NoSilentCut, CompactUnlessVerbose
<1>5. CASE ReplyLogs
  BY <1>5, LogsReply, StepListing
<1>6. CASE UNCHANGED vars
  BY <1>6 DEF vars, CutInv, NoSilentCut, CompactUnlessVerbose
<1> QED  BY <1>1, <1>2, <1>3, <1>4, <1>5, <1>6, ListReply DEF Next

\* The replies of all three tools agree with what they left out.
THEOREM CutInductive == Spec => []CutInv
<1>1. ListingInv /\ [Next]_vars => ListingInv'
  BY StepListing
<1> QED  BY <1>1, InitListing, InitCut, StepCut, PTL DEF Spec

\* No reply of workload_list, image_list or logs_query passes a part off as the whole: it
\* shows the head of what matches and counts the rest, or flags it for the daemon's own cut.
THEOREM CutsAreTold == Spec => []NoSilentCut
BY CutInductive, PTL DEF CutInv

\* note_truncation comes after summarize_workloads: a shortened list is compact as well.
THEOREM CompactStays == Spec => []CompactUnlessVerbose
BY CutInductive, PTL DEF CutInv

\* What workload_list leaves out is in the reply to the same query without a limit.
THEOREM WorkloadsAreFindable == Spec => []WorkloadsFindable
<1>1. TypeOK /\ CutInv => WorkloadsFindable
  <2> SUFFICES ASSUME TypeOK, CutInv, query.tool = "workload_list",
                      NEW i \in Matching(store, query)
               PROVE  \E q \in Queries : /\ q.tool = query.tool /\ ~LimitOutOfRange(q)
                                          /\ i \in WorkloadList(store, q).rows
    BY DEF WorkloadsFindable
  <2> DEFINE q == [query EXCEPT !.limit = {}]
  <2>1. /\ q \in Queries /\ q.tool = "workload_list" /\ q.limit = {}
        /\ q.group = query.group
    BY DEF CutInv, Queries
  <2> HIDE DEF q
  <2> DEFINE all == Matching(store, q)
  <2>2. ~LimitOutOfRange(q) /\ Limited(all, q) = all
    BY <2>1 DEF LimitOutOfRange, Limited
  <2>3. i \in all
    BY <2>1 DEF Matching
  <2>4. IsFiniteSet(all)
    BY MatchingFinite DEF TypeOK
  <2>5. PICK v \in {Array(all), Summarize(Array(all))} :
          WorkloadList(store, q) = NoteTruncation(v, Cardinality(all))
    BY <2>2 DEF WorkloadList
  <2> HIDE DEF all
  <2>6. WorkloadList(store, q).rows = all
    BY <2>4, <2>5, NoteCounts
  <2> QED  BY <2>1, <2>2, <2>3, <2>6
<1> QED  BY <1>1, CutInductive, ListingsTypeCorrect, PTL
=============================================================================
