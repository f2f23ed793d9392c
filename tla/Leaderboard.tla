---------------------------- MODULE Leaderboard ----------------------------
(***************************************************************************)
(* GET stats: the leaderboard, read page by page (StatsController,         *)
(* StatsService.queryStats) from the table the snapshot of Stats fills.    *)
(*                                                                         *)
(* A page is one query.  A client names the last row it was shown by its   *)
(* id, a serial that TRUNCATE ... RESTART IDENTITY starts again from 1,    *)
(* and is given the rows with no greater score but the first of them       *)
(* (OFFSET 1).  SQL orders rows of one score as it likes.                  *)
(*                                                                         *)
(* The client is external: it asks for pages until one is empty, or stops. *)
(***************************************************************************)
EXTENDS Stats, SequencesExt

CONSTANTS
  Limits,     \* what a client may ask for; 0 stands for nothing
  MaxTake,    \* 100 in queryStats
  MaxPages    \* bound: pages of one reading

ASSUME LimitsAssumption == Limits \subseteq Nat /\ MaxTake \in Nat \ {0} /\ MaxPages \in Nat

\* The addresses of a table are finitely many: SQL can put its rows in order.
ASSUME AddressesAssumption == IsFiniteSet(Users)

VARIABLES
  id,         \* Stats.id by address, 0 without a row
  nextId,     \* the sequence behind it
  reader      \* what a client has read

NotReading == [pc |-> "idle", take |-> 0, cursor |-> 0, shown |-> <<>>, pages |-> 0,
               undisturbed |-> FALSE]

BoardInit ==
  /\ Init
  /\ id = [u \in Users |-> 0]
  /\ nextId = 1
  /\ reader = NotReading

-----------------------------------------------------------------------------
(* The ids the statements of the snapshot give *)

Rows == {u \in Users : stats[u].exists}

\* Every row a statement proposes takes a number of the sequence, in any order, and
\* leaves it unused when the address has a row already (ON CONFLICT).
FillIds(column) ==
  LET S == Sources(column)
      n == Cardinality(S)
  IN  /\ \E order \in SetToSeqs(S) :
           id' = [u \in Users |->
                   IF u \in S \ Rows THEN nextId - 1 + CHOOSE i \in 1..n : order[i] = u ELSE id[u]]
      /\ nextId' = nextId + n

ExecuteWithIds(statement) ==
  IF statement = "truncate"
    THEN id' = [u \in Users |-> 0] /\ nextId' = 1
    ELSE FillIds(statement)

\* A statement of the snapshot disturbs a reading.
SnapshotStep(j) ==
  /\ Continue(j)
  /\ ExecuteWithIds(Order[job[j]])
  /\ reader' = [reader EXCEPT !.undisturbed = FALSE]

-----------------------------------------------------------------------------
(* The queries *)

\* getStatsScoreQuery, in hundredths
Score(u) ==
  1500 * stats[u].success + stats[u].hours - 5 * stats[u].failure + stats[u].bp
    + 2 * stats[u].land - 125 * stats[u].cancels + 110 * stats[u].burned

Take(limit) == IF limit = 0 \/ limit > MaxTake THEN MaxTake ELSE limit

Ascending(S) ==
  {q \in SetToSeqs(S) : \A i, j \in DOMAIN q : i < j => Score(q[i]) <= Score(q[j])}

\* ORDER BY "score" DESC
Descending(S) ==
  {q \in SetToSeqs(S) : \A i, j \in DOMAIN q : i < j => Score(q[i]) >= Score(q[j])}

\* LIMIT take OFFSET offset
Page(q, offset, take) ==
  LET last == offset + take
  IN  SubSeq(q, offset + 1, IF last > Len(q) THEN Len(q) ELSE last)

FromBelow(cursor) == {u \in Rows : \E v \in Rows : id[v] = cursor /\ Score(u) < Score(v)}

\* The rows from the one with this id down; none when no row has it.
From(cursor) == {u \in Rows : \E v \in Rows : id[v] = cursor /\ Score(u) <= Score(v)}

PagesAfter(cursor, take) == {Page(q, 1, take) : q \in Descending(From(cursor))}

FirstPages(take) == {Page(q, 0, take) : q \in Descending(Rows)}

Shown(page) ==
  reader' = IF page = <<>>
              THEN [reader EXCEPT !.pc = "done", !.cursor = 0]
              ELSE [reader EXCEPT !.cursor = id[Last(page)], !.shown = @ \o page,
                                  !.pages = @ + 1]

-----------------------------------------------------------------------------
(* The client *)

Open ==
  /\ reader.pc = "idle"
  /\ \E take \in {Take(limit) : limit \in Limits} :
       \E page \in FirstPages(take) :
         reader' = [NotReading EXCEPT !.pc = IF page = <<>> THEN "done" ELSE "reading",
                                      !.take = take, !.shown = page, !.pages = 1,
                                      !.cursor = IF page = <<>> THEN 0 ELSE id[Last(page)],
                                      !.undisturbed = TRUE]
  /\ UNCHANGED <<vars, id, nextId>>

Turn ==
  /\ reader.pc = "reading" /\ reader.pages < MaxPages
  /\ \E page \in PagesAfter(reader.cursor, reader.take) : Shown(page)
  /\ UNCHANGED <<vars, id, nextId>>

Close ==
  /\ reader.pc # "idle"
  /\ reader' = NotReading
  /\ UNCHANGED <<vars, id, nextId>>

BoardNext ==
  \/ Handlers /\ UNCHANGED <<id, nextId, reader>>
  \/ \E j \in Jobs : SnapshotStep(j)
  \/ \E j \in Jobs : (Cron(j) \/ Fail(j)) /\ UNCHANGED <<id, nextId, reader>>
  \/ Open \/ Turn \/ Close

BoardSpec == BoardInit /\ [][BoardNext]_<<vars, id, nextId, reader>>

-----------------------------------------------------------------------------
(* Properties *)

Alone(u)     == \A v \in Rows \ {u} : Score(v) # Score(u)
TimesShown(u) == Cardinality({i \in DOMAIN reader.shown : reader.shown[i] = u})

\* A reading no snapshot disturbed and that came to the empty page has shown every row
\* with a score of its own exactly once; only rows of one score are repeated or missed
\* where a page ends among them (queryStats with OFFSET 1 on "score" <= the cursor's).
PagesComplete ==
  reader.pc = "done" /\ reader.undisturbed =>
    \A u \in Rows : Alone(u) => TimesShown(u) = 1

\* The pages of a reading no snapshot disturbed continue one another downwards: no row
\* is shown after one with a smaller score.
PagesDescend ==
  reader.undisturbed =>
    \A i, j \in DOMAIN reader.shown :
      i < j => Score(reader.shown[i]) >= Score(reader.shown[j])

=============================================================================
