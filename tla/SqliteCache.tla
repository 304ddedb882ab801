----------------------------- MODULE SqliteCache -----------------------------
(***************************************************************************)
(* spendslicer/web/sqlite_cache.py: the persistent cache every route of    *)
(* the server reads and writes, used by the request threads and by the     *)
(* background refresh workers at once.                                     *)
(*                                                                         *)
(* One step is one SQL statement or one reading of the clock: a SELECT     *)
(* takes no lock, so a reader judges and lazily deletes a row that other   *)
(* threads may have replaced meanwhile, and set() takes its timestamp      *)
(* before it waits for the write lock.  The block under `with self._lock,  *)
(* conn` is one step: no other writer enters it and no reader sees it      *)
(* before it is committed.                                                 *)
(*                                                                         *)
(* The lifetime of a row is a function of its key here, as it is at every  *)
(* caller: deps.py passes its two constants, the others one pair per kind  *)
(* of key.  time.time() is taken to never step back.                       *)
(***************************************************************************)
EXTENDS Naturals

CONSTANTS Threads, Keys, Values,
          NoRow, NoValue,
          Ttl, Swr,      \* [Keys -> Nat]: ttl_seconds and swr_seconds, in ticks
          SweepEvery,    \* _SWEEP_EVERY_WRITES
          MaxTime,       \* bound on the clock, for model checking
          MaxFailures    \* bound on the failed statements, for model checking

Row == [val: Values, at: Nat, ttl: Nat, swr: Nat]

ASSUME NoRowAssumption == NoRow \notin Row
ASSUME LifetimeAssumption == Ttl \in [Keys -> Nat] /\ Swr \in [Keys -> Nat]
ASSUME SweepAssumption == SweepEvery \in Nat \ {0}
ASSUME BoundAssumption == MaxTime \in Nat /\ MaxFailures \in Nat

NoAnswer == [val |-> NoValue, refresh |-> FALSE]

VARIABLES
  db,        \* table cache_entries: the row of each key, or NoRow
  now,       \* the wall clock, in ticks
  writes,    \* _writes_since_sweep
  failures,  \* how many statements have failed
  pc,        \* where each thread is
  key,       \* the key a thread works on
  pending,   \* the row a set() is about to write, NoRow otherwise
  seen,      \* the row a read has selected, NoRow otherwise
  cutoff,    \* the `now` a sweep has read
  answer     \* what the last read of a thread returned

vars == <<db, now, writes, failures, pc, key, pending, seen, cutoff, answer>>

Reads == {"get", "get_swr"}
PCs == {"idle", "set", "sweep", "delete_expired", "lazy_delete"} \cup Reads

TypeOK ==
  /\ db \in [Keys -> Row \cup {NoRow}]
  /\ now \in Nat
  /\ writes \in 0..(SweepEvery - 1)
  /\ failures \in Nat
  /\ pc \in [Threads -> PCs]
  /\ key \in [Threads -> Keys]
  /\ pending \in [Threads -> Row \cup {NoRow}]
  /\ seen \in [Threads -> Row \cup {NoRow}]
  /\ cutoff \in [Threads -> Nat]
  /\ answer \in [Threads -> [val: Values \cup {NoValue}, refresh: BOOLEAN]]

-----------------------------------------------------------------------------
Fresh(row, n) == n < row.at + row.ttl
Dead(row, n)  == n >= row.at + row.ttl + row.swr

Init ==
  /\ db = [k \in Keys |-> NoRow]
  /\ now = 0
  /\ writes = 0
  /\ failures = 0
  /\ pc = [t \in Threads |-> "idle"]
  /\ key \in [Threads -> Keys]
  /\ pending = [t \in Threads |-> NoRow]
  /\ seen = [t \in Threads |-> NoRow]
  /\ cutoff = [t \in Threads |-> 0]
  /\ answer = [t \in Threads |-> NoAnswer]

-----------------------------------------------------------------------------
(* set() and the sweep it may end with                                     *)

\* set: the value is serialised and time.time() read, the lock not yet taken.
BeginSet(t, k, v) ==
  /\ pc[t] = "idle"
  /\ pc' = [pc EXCEPT ![t] = "set"]
  /\ key' = [key EXCEPT ![t] = k]
  /\ pending' = [pending EXCEPT ![t] = [val |-> v, at |-> now, ttl |-> Ttl[k], swr |-> Swr[k]]]
  /\ answer' = [answer EXCEPT ![t] = NoAnswer]
  /\ UNCHANGED <<db, now, writes, failures, seen, cutoff>>

\* Mutant: the threshold compared with >.
SweepOverdue == writes + 1 > SweepEvery

\* The counter after one more write: it starts over when a sweep is due.
SweepDue == writes + 1 >= SweepEvery
CountWrite == writes' = IF SweepDue THEN 0 ELSE writes + 1

\* Mutant: the writes are counted and nothing is swept.
CommitSetOnly(t) ==
  /\ pc[t] = "set"
  /\ db' = [db EXCEPT ![key[t]] = pending[t]]
  /\ CountWrite
  /\ pc' = [pc EXCEPT ![t] = "idle"]
  /\ pending' = [pending EXCEPT ![t] = NoRow]
  /\ UNCHANGED <<now, failures, key, seen, cutoff, answer>>

\* INSERT OR REPLACE, the count, and the commit.
CommitSet(t) ==
  /\ pc[t] = "set"
  /\ db' = [db EXCEPT ![key[t]] = pending[t]]
  /\ CountWrite
  /\ pc' = [pc EXCEPT ![t] = IF SweepDue THEN "sweep" ELSE "idle"]
  /\ pending' = [pending EXCEPT ![t] = NoRow]
  /\ UNCHANGED <<now, failures, key, seen, cutoff, answer>>

\* sqlite3.Error: the write is dropped, and so is the sweep it would have
\* run.  If it is the commit that fails, the counter has moved already.
FailSet(t) ==
  /\ pc[t] = "set"
  /\ failures < MaxFailures
  /\ failures' = failures + 1
  /\ CountWrite \/ UNCHANGED writes
  /\ pc' = [pc EXCEPT ![t] = "idle"]
  /\ pending' = [pending EXCEPT ![t] = NoRow]
  /\ UNCHANGED <<db, now, key, seen, cutoff, answer>>

\* _sweep_expired: time.time(), before the lock.
BeginSweep(t) ==
  /\ pc[t] = "sweep"
  /\ pc' = [pc EXCEPT ![t] = "delete_expired"]
  /\ cutoff' = [cutoff EXCEPT ![t] = now]
  /\ UNCHANGED <<db, now, writes, failures, key, pending, seen, answer>>

DeleteExpired(t) ==
  /\ pc[t] = "delete_expired"
  /\ db' = [k \in Keys |-> IF db[k] # NoRow /\ Dead(db[k], cutoff[t]) THEN NoRow ELSE db[k]]
  /\ pc' = [pc EXCEPT ![t] = "idle"]
  /\ cutoff' = [cutoff EXCEPT ![t] = 0]
  /\ UNCHANGED <<now, writes, failures, key, pending, seen, answer>>

\* sqlite3.OperationalError: the sweep is skipped.
SkipSweep(t) ==
  /\ pc[t] = "delete_expired"
  /\ failures < MaxFailures
  /\ failures' = failures + 1
  /\ pc' = [pc EXCEPT ![t] = "idle"]
  /\ cutoff' = [cutoff EXCEPT ![t] = 0]
  /\ UNCHANGED <<db, now, writes, key, pending, seen, answer>>

-----------------------------------------------------------------------------
(* get() and get_swr()                                                     *)

\* The SELECT; op tells which of the two reads it is.
Select(t, k, op) ==
  /\ pc[t] = "idle"
  /\ pc' = [pc EXCEPT ![t] = op]
  /\ key' = [key EXCEPT ![t] = k]
  /\ seen' = [seen EXCEPT ![t] = db[k]]
  /\ answer' = [answer EXCEPT ![t] = NoAnswer]
  /\ UNCHANGED <<db, now, writes, failures, pending, cutoff>>

\* The age of the row is taken and decides the answer: get() serves fresh
\* rows only, get_swr() stale ones too, asking for a refresh.
JudgeAs(t, val, refresh, next) ==
  /\ answer' = [answer EXCEPT ![t] = [val |-> val, refresh |-> refresh]]
  /\ pc' = [pc EXCEPT ![t] = next]
  /\ seen' = [seen EXCEPT ![t] = IF next = "lazy_delete" THEN @ ELSE NoRow]
  /\ UNCHANGED <<db, now, writes, failures, key, pending, cutoff>>

JudgeMissing(t) ==
  /\ pc[t] \in Reads /\ seen[t] = NoRow
  /\ JudgeAs(t, NoValue, TRUE, "idle")

JudgeFresh(t) ==
  /\ pc[t] \in Reads /\ seen[t] # NoRow /\ Fresh(seen[t], now)
  /\ JudgeAs(t, seen[t].val, FALSE, "idle")

\* Mutant: get() serves stale rows as well.
JudgeStaleAlike(t) ==
  /\ pc[t] \in Reads /\ seen[t] # NoRow
  /\ ~Fresh(seen[t], now) /\ ~Dead(seen[t], now)
  /\ JudgeAs(t, seen[t].val, TRUE, "idle")

JudgeStale(t) ==
  /\ pc[t] \in Reads /\ seen[t] # NoRow
  /\ ~Fresh(seen[t], now) /\ ~Dead(seen[t], now)
  /\ JudgeAs(t, IF pc[t] = "get_swr" THEN seen[t].val ELSE NoValue, TRUE, "idle")

\* Past both windows: a miss, once the row is lazily deleted.
JudgeDead(t) ==
  /\ pc[t] \in Reads /\ seen[t] # NoRow
  /\ ~Fresh(seen[t], now) /\ Dead(seen[t], now)
  /\ JudgeAs(t, NoValue, TRUE, "lazy_delete")

EndRead(t) ==
  /\ pc' = [pc EXCEPT ![t] = "idle"]
  /\ seen' = [seen EXCEPT ![t] = NoRow]
  /\ UNCHANGED <<now, writes, key, pending, cutoff, answer>>

\* Mutant: DELETE ... WHERE key=?, whatever row is there by now.
LazyDeleteAnyRow(t) ==
  /\ pc[t] = "lazy_delete"
  /\ db' = [db EXCEPT ![key[t]] = NoRow]
  /\ EndRead(t)
  /\ UNCHANGED failures

\* DELETE ... WHERE key=? AND created_at=?
LazyDelete(t) ==
  LET k == key[t] IN
  /\ pc[t] = "lazy_delete"
  /\ db' = IF db[k] # NoRow /\ db[k].at = seen[t].at
             THEN [db EXCEPT ![k] = NoRow] ELSE db
  /\ EndRead(t)
  /\ UNCHANGED failures

\* The delete fails; both reads swallow the error.
SkipLazyDelete(t) ==
  /\ pc[t] = "lazy_delete"
  /\ failures < MaxFailures
  /\ failures' = failures + 1
  /\ EndRead(t)
  /\ UNCHANGED db

-----------------------------------------------------------------------------
\* bust(""): the only form the program calls (the cache-clear route).
Bust ==
  /\ db' = [k \in Keys |-> NoRow]
  /\ UNCHANGED <<now, writes, failures, pc, key, pending, seen, cutoff, answer>>

\* The process dies and is started again: what was in memory is gone.  The
\* file survives, unless __init__ finds it corrupt and recreates it empty.
Restart ==
  /\ db' \in {db, [k \in Keys |-> NoRow]}
  /\ writes' = 0
  /\ pc' = [t \in Threads |-> "idle"]
  /\ pending' = [t \in Threads |-> NoRow]
  /\ seen' = [t \in Threads |-> NoRow]
  /\ cutoff' = [t \in Threads |-> 0]
  /\ answer' = [t \in Threads |-> NoAnswer]
  /\ UNCHANGED <<now, failures, key>>

Tick ==
  /\ now < MaxTime
  /\ now' = now + 1
  /\ UNCHANGED <<db, writes, failures, pc, key, pending, seen, cutoff, answer>>

Progress(t) ==
  \/ CommitSet(t) \/ FailSet(t)
  \/ BeginSweep(t) \/ DeleteExpired(t) \/ SkipSweep(t)
  \/ JudgeMissing(t) \/ JudgeFresh(t) \/ JudgeStale(t) \/ JudgeDead(t)
  \/ LazyDelete(t) \/ SkipLazyDelete(t)

Begin(t) ==
  \/ \E k \in Keys, v \in Values : BeginSet(t, k, v)
  \/ \E k \in Keys, op \in Reads : Select(t, k, op)

\* What a process that stays up does.
Run ==
  \/ \E t \in Threads : Begin(t) \/ Progress(t)
  \/ Bust
  \/ Tick

Next == Run \/ Restart

Spec == Init /\ [][Next]_vars

-----------------------------------------------------------------------------
\* A thread inside the cache is scheduled again, and writes keep coming: the
\* dashboard polls, and every miss ends in a write.  Failures are finitely
\* many (MaxFailures).
WriteSomething == \E t \in Threads, k \in Keys, v \in Values : BeginSet(t, k, v)

Fairness ==
  /\ \A t \in Threads : WF_vars(Progress(t))
  /\ SF_vars(WriteSomething)

FairSpec == Spec /\ Fairness

-----------------------------------------------------------------------------
(* Properties                                                              *)

\* A row that may still be served leaves the table only by the hand of a
\* writer of that very key, of the cache-clear route or of a restart: not by
\* the sweep, whose clock reading is old by the time it deletes, nor by the
\* lazy delete of a reader that has seen an older row.
LiveRowNeverLost ==
  [][\A k \in Keys :
       db[k] # NoRow /\ ~Dead(db[k], now) /\ db'[k] # db[k] =>
         \/ \E t \in Threads : pc[t] = "set" /\ key[t] = k /\ db'[k] = pending[t]
         \/ Bust \/ Restart]_vars

\* "the table can never grow without bound from keys that are written once
\* and never read again" (the comment on _SWEEP_EVERY_WRITES): once the
\* process is not stopped any more, a row that can no longer be served does
\* not stay for ever while writes go on.  (Under restarts for ever it may: the
\* count of writes is in memory, and __init__ does not sweep, so a process
\* stopped before its SweepEvery-th write never does.)
DeadRowsReclaimed ==
  <>[][Run]_vars =>
    \A k \in Keys :
      (db[k] # NoRow /\ Dead(db[k], now)) ~> ~(db[k] # NoRow /\ Dead(db[k], now))

\* The table with its sweeps, lazy deletes and failures is the store TtlCache
\* promises: an entry exists as long as its row may be served.
Living(row) == IF row # NoRow /\ ~Dead(row, now) THEN row ELSE NoRow

Promise == INSTANCE TtlCache WITH
  Clients <- Threads,
  store   <- [k \in Keys |-> Living(db[k])],
  clock   <- now,
  reading <- [t \in Threads |-> IF pc[t] \in Reads THEN pc[t] ELSE "none"],
  looked  <- [t \in Threads |-> IF pc[t] \in Reads THEN Living(seen[t]) ELSE NoRow],
  answer  <- answer

\* Every behaviour of the cache is one of the abstract store: reads answer
\* what the store held at their SELECT, judged by its age when they return.
KeepsPromise == Promise!Spec
=============================================================================
