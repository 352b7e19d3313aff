----------------------------- MODULE UsageMeter -----------------------------
(***************************************************************************)
(* UsageMeter (quota.rs): bytes are added in memory by every task that     *)
(* carries them, moved to the usage_daily table by the flush task, and     *)
(* read by the visitor handlers that enforce the daily quota.  The map of  *)
(* pending counts has a lock; the table is written and read outside it.    *)
(*                                                                         *)
(* Of the table the module keeps, for each user, the row of the current    *)
(* day and the sum of the rows of earlier days.  Requests are counted the  *)
(* same way as bytes.                                                      *)
(***************************************************************************)
EXTENDS Naturals

CONSTANTS
  Users,
  Readers,   \* visitor requests that may ask for a user's usage at the same time
  MaxBytes,  \* bound: units metered for a user
  MaxDays,   \* bound: days
  Faults     \* what may go wrong in this instance

ASSUME UsageMeterAssumption ==
  MaxBytes \in Nat /\ MaxDays \in Nat /\ Faults \subseteq {"db", "crash"}

VARIABLES
  day,      \* util::today()
  pending,  \* UsageMeter.pending
  taken,    \* what flush has taken out of pending and not written yet
  late,     \* has the day changed since flush asked for it?
  row,      \* usage_daily of today
  past,     \* usage_daily of the days before
  reader,   \* what each reader of today() knows
  metered,  \* history: all that was ever added
  lost      \* history: what a failed write or a crash has lost

meterVars == <<day, pending, taken, late, row, past, reader, metered, lost>>

Zero == [u \in Users |-> 0]

\* stage: idle, asked (has read the row), answered.  hidden and metered record,
\* for the properties, what of the table the SELECT did not show and the total
\* when it was made; calm is FALSE when flush held something back while the reader
\* was asking.
NoReader == [stage |-> "idle", used |-> 0, hidden |-> 0, metered |-> 0, lost |-> 0, calm |-> TRUE]

MeterInit ==
  /\ day = 0 /\ late = FALSE
  /\ pending = Zero /\ taken = Zero /\ row = Zero /\ past = Zero
  /\ metered = Zero /\ lost = Zero
  /\ reader = [u \in Users |-> [r \in Readers |-> NoReader]]

Flushing == \E u \in Users : taken[u] > 0

-----------------------------------------------------------------------------

Add(u) ==
  /\ metered[u] < MaxBytes
  /\ pending' = [pending EXCEPT ![u] = @ + 1]
  /\ metered' = [metered EXCEPT ![u] = @ + 1]
  /\ UNCHANGED <<day, taken, late, row, past, reader, lost>>

\* The readers of u that have seen the row but not the pending count.
Disturb(us) ==
  reader' = [u \in Users |-> [r \in Readers |->
               IF u \in us /\ reader[u][r].stage = "asked"
                 THEN [reader[u][r] EXCEPT !.calm = FALSE] ELSE reader[u][r]]]

\* Mutants: the map is copied and not cleared; a single unit is not worth a write.
FlushCopy ==
  /\ ~Flushing /\ \E u \in Users : pending[u] > 0
  /\ taken' = pending
  /\ late' = FALSE
  /\ Disturb({u \in Users : pending[u] > 0})
  /\ UNCHANGED <<day, pending, row, past, metered, lost>>

FlushTakeMany ==
  /\ ~Flushing /\ \E u \in Users : pending[u] > 1
  /\ taken' = pending
  /\ pending' = Zero
  /\ late' = FALSE
  /\ Disturb({u \in Users : pending[u] > 0})
  /\ UNCHANGED <<day, row, past, metered, lost>>

\* flush: the map is copied and cleared under the lock, then the day is asked for.
FlushTake ==
  /\ ~Flushing /\ \E u \in Users : pending[u] > 0
  /\ taken' = pending
  /\ pending' = Zero
  /\ late' = FALSE
  /\ Disturb({u \in Users : pending[u] > 0})
  /\ UNCHANGED <<day, row, past, metered, lost>>

\* Mutant: what is written stays in hand and is written again.
FlushWriteAgain(u) ==
  /\ taken[u] > 0
  /\ IF late THEN past' = [past EXCEPT ![u] = @ + taken[u]] /\ UNCHANGED row
             ELSE row' = [row EXCEPT ![u] = @ + taken[u]] /\ UNCHANGED past
  /\ UNCHANGED <<day, pending, taken, late, reader, metered, lost>>

\* flush: one user's counts are added to the row of the day asked for.
FlushWrite(u) ==
  /\ taken[u] > 0
  /\ taken' = [taken EXCEPT ![u] = 0]
  /\ IF late THEN past' = [past EXCEPT ![u] = @ + taken[u]] /\ UNCHANGED row
             ELSE row' = [row EXCEPT ![u] = @ + taken[u]] /\ UNCHANGED past
  /\ UNCHANGED <<day, pending, late, reader, metered, lost>>

\* The result of the statement is ignored.
FlushFails(u) ==
  /\ "db" \in Faults
  /\ taken[u] > 0
  /\ taken' = [taken EXCEPT ![u] = 0]
  /\ lost' = [lost EXCEPT ![u] = @ + taken[u]]
  /\ UNCHANGED <<day, pending, late, row, past, reader, metered>>

\* today(): what the SELECT gives of a table that holds past and row.
Shown(u, r, units) ==
  /\ reader[u][r].stage = "idle"
  /\ reader' = [reader EXCEPT ![u][r] =
       [stage |-> "asked", used |-> units, hidden |-> past[u] + (row[u] - units),
        metered |-> metered[u], lost |-> lost[u], calm |-> taken[u] = 0]]
  /\ UNCHANGED <<day, pending, taken, late, row, past, metered, lost>>

\* today(): the row first ...
AskRow(u, r) == Shown(u, r, row[u])

\* ... which counts as empty when the SELECT fails ...
AskRowFails(u, r) == "db" \in Faults /\ Shown(u, r, 0)

\* Mutant: the count in memory is left out.
AskRowOnly(u, r) ==
  /\ reader[u][r].stage = "asked"
  /\ reader' = [reader EXCEPT ![u][r].stage = "answered"]
  /\ UNCHANGED <<day, pending, taken, late, row, past, metered, lost>>

\* ... then the pending count, under the lock.
AskPending(u, r) ==
  /\ reader[u][r].stage = "asked"
  /\ reader' = [reader EXCEPT ![u][r].stage = "answered", ![u][r].used = @ + pending[u]]
  /\ UNCHANGED <<day, pending, taken, late, row, past, metered, lost>>

\* The handler is done with the answer and the next request asks anew.
NextRequest(u, r) ==
  /\ reader[u][r].stage = "answered"
  /\ reader' = [reader EXCEPT ![u][r] = NoReader]
  /\ UNCHANGED <<day, pending, taken, late, row, past, metered, lost>>

Midnight ==
  /\ day < MaxDays
  /\ day' = day + 1
  /\ late' = TRUE
  /\ past' = [u \in Users |-> past[u] + row[u]]
  /\ row' = Zero
  /\ UNCHANGED <<pending, taken, reader, metered, lost>>

\* The server is killed and started again: the table is what is left.
Crash ==
  /\ "crash" \in Faults
  /\ lost' = [u \in Users |-> lost[u] + pending[u] + taken[u]]
  /\ pending' = Zero /\ taken' = Zero
  /\ reader' = [u \in Users |-> [r \in Readers |-> NoReader]]
  /\ UNCHANGED <<day, late, row, past, metered>>

FlushStep == FlushTake \/ \E u \in Users : FlushWrite(u) \/ FlushFails(u)

MeterNext ==
  \/ FlushStep \/ Midnight \/ Crash
  \/ \E u \in Users : Add(u)
  \/ \E u \in Users, r \in Readers :
       AskRow(u, r) \/ AskRowFails(u, r) \/ AskPending(u, r) \/ NextRequest(u, r)

MeterSpec == MeterInit /\ [][MeterNext]_meterVars

\* The ticker of main.rs calls flush again and again, and flush goes on.
FairSpec == MeterSpec /\ WF_meterVars(FlushStep)

-----------------------------------------------------------------------------
(* Properties.                                                             *)

\* Every unit that was metered is in exactly one place: pending, in the hands of
\* flush, in the row of one day, or lost.
Conserved ==
  \A u \in Users : metered[u] = pending[u] + taken[u] + row[u] + past[u] + lost[u]

\* A reader never counts a unit twice, nor one of an earlier day that the table
\* had when it asked, although flush moves units between its two reads: nobody is
\* refused for traffic that did not happen.  In the other direction two things make
\* an answer too small, and a user over the quota is let in: flush between the two
\* reads (calm is FALSE), and a failed SELECT, which today() takes for an empty row
\* (hidden has the row).  Apart from these a reader has counted at least all that was
\* metered when it asked, less what was lost.
ReadersCountRight ==
  \A u \in Users, r \in Readers :
    LET k == reader[u][r] IN
    k.stage = "answered" =>
      /\ k.hidden + k.used <= metered[u]
      /\ k.calm => k.hidden + k.used + k.lost >= k.metered

\* What has been metered is in the table in the end, or lost by a failed write:
\* nothing stays in memory for ever.
EventuallyStored ==
  \A u \in Users, n \in 1 .. MaxBytes :
    metered[u] >= n ~> row[u] + past[u] + lost[u] >= n
=============================================================================
