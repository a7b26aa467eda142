----------------------------- MODULE JsonlLedger -----------------------------
(***************************************************************************)
(* The append-only JSONL files under storage/ that hold every registry of  *)
(* the web application. A ledger is the sequence of its rows in file       *)
(* order; a row is a record with a field "key" (the submission, binding or *)
(* job the row is about). A writer only appends, and a reader folds the    *)
(* whole file so that the last row of a key wins.                          *)
(***************************************************************************)
EXTENDS Integers, Sequences, FiniteSets, SequencesExt

\* The position of the last row of k in the file, 0 when k has none.
LatestIndex(ledger, k) == SelectLastInSeq(ledger, LAMBDA row : row.key = k)

\* k has at least one row.
Has(ledger, k) == LatestIndex(ledger, k) # 0

\* The row every reader takes for k; only meaningful when Has(ledger, k).
Latest(ledger, k) == ledger[LatestIndex(ledger, k)]

\* The keys that have a row.
Keys(ledger) == {ledger[i].key : i \in DOMAIN ledger}

\* What a reader gets: the rows, or nothing at all when readFile or JSON.parse
\* throws, because the readers' catch block returns an empty list.
ReadRows(ledger, readable) == IF readable THEN ledger ELSE << >>
=============================================================================
