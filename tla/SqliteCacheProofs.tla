-------------------------- MODULE SqliteCacheProofs --------------------------
(***************************************************************************)
(* Proofs about SqliteCache, for any threads, keys, values and lifetimes:  *)
(* its types, the survival of live rows and the refinement of TtlCache.    *)
(***************************************************************************)
EXTENDS SqliteCache, TLAPS

\* A row stored for, read from or about to be written to key k.
OfKey(row, k) == row.ttl = Ttl[k] /\ row.swr = Swr[k] /\ row.at <= now

\* Two rows of one key with the same created_at are dead at the same time:
\* that is what makes the guard of the lazy delete sufficient.
RowsOfKey  == \A k \in Keys : db[k] # NoRow => OfKey(db[k], k)
SeenOfKey  == \A t \in Threads : seen[t] # NoRow => OfKey(seen[t], key[t])
SetPending == \A t \in Threads : pc[t] = "set" => pending[t] \in Row /\ OfKey(pending[t], key[t])
CutoffPast == \A t \in Threads : cutoff[t] <= now
SeenDead   == \A t \in Threads : pc[t] = "lazy_delete" => seen[t] # NoRow /\ Dead(seen[t], now)
SeenInRead == \A t \in Threads : pc[t] \notin Reads \cup {"lazy_delete"} => seen[t] = NoRow

IInv ==
  /\ TypeOK
  /\ RowsOfKey
  /\ SeenOfKey
  /\ SetPending
  /\ CutoffPast
  /\ SeenDead
  /\ SeenInRead

-----------------------------------------------------------------------------
(* Types                                                                   *)

USE NoRowAssumption, LifetimeAssumption, SweepAssumption, BoundAssumption

LEMMA InitType == Init => TypeOK
BY DEF Init, TypeOK, PCs, Reads, NoAnswer

LEMMA NextType == TypeOK /\ [Next]_vars => TypeOK'
<1> SUFFICES ASSUME TypeOK, [Next]_vars PROVE TypeOK'
  OBVIOUS
<1> USE DEF TypeOK, PCs, Reads
<1>1. ASSUME NEW t \in Threads, NEW k \in Keys, NEW v \in Values, BeginSet(t, k, v)
      PROVE  TypeOK'
  BY <1>1 DEF BeginSet, Row, NoAnswer
<1>2. ASSUME NEW t \in Threads, CommitSet(t) PROVE TypeOK'
  BY <1>2 DEF CommitSet, CountWrite, SweepDue
<1>3. ASSUME NEW t \in Threads, FailSet(t) PROVE TypeOK'
  BY <1>3 DEF FailSet, CountWrite, SweepDue
<1>4. ASSUME NEW t \in Threads, BeginSweep(t) PROVE TypeOK'
  BY <1>4 DEF BeginSweep
<1>5. ASSUME NEW t \in Threads, DeleteExpired(t) PROVE TypeOK'
  BY <1>5 DEF DeleteExpired
<1>6. ASSUME NEW t \in Threads, SkipSweep(t) PROVE TypeOK'
  BY <1>6 DEF SkipSweep
<1>7. ASSUME NEW t \in Threads, NEW k \in Keys, NEW op \in Reads, Select(t, k, op)
      PROVE  TypeOK'
  BY <1>7 DEF Select, NoAnswer
<1>8. ASSUME NEW t \in Threads, JudgeMissing(t) PROVE TypeOK'
  BY <1>8 DEF JudgeMissing, JudgeAs
<1>9. ASSUME NEW t \in Threads, JudgeFresh(t) PROVE TypeOK'
  BY <1>9 DEF JudgeFresh, JudgeAs, Row
<1>10. ASSUME NEW t \in Threads, JudgeStale(t) PROVE TypeOK'
  BY <1>10 DEF JudgeStale, JudgeAs, Row
<1>11. ASSUME NEW t \in Threads, JudgeDead(t) PROVE TypeOK'
  BY <1>11 DEF JudgeDead, JudgeAs
<1>12. ASSUME NEW t \in Threads, LazyDelete(t) PROVE TypeOK'
  BY <1>12 DEF LazyDelete, EndRead
<1>13. ASSUME NEW t \in Threads, SkipLazyDelete(t) PROVE TypeOK'
  BY <1>13 DEF SkipLazyDelete, EndRead
<1>14. CASE Bust
  BY <1>14 DEF Bust
<1>15. CASE Restart
  BY <1>15 DEF Restart, NoAnswer
<1>16. CASE Tick
  BY <1>16 DEF Tick
<1>17. CASE UNCHANGED vars
  BY <1>17 DEF vars
<1>18. QED
  BY <1>1, <1>2, <1>3, <1>4, <1>5, <1>6, <1>7, <1>8, <1>9, <1>10, <1>11,
     <1>12, <1>13, <1>14, <1>15, <1>16, <1>17
  DEF Next, Run, Begin, Progress

\* The types of every variable, in particular that the write counter stays
\* below the number of writes a sweep waits for.
THEOREM TypeCorrect == Spec => []TypeOK
BY InitType, NextType, PTL DEF Spec

-----------------------------------------------------------------------------
(* The inductive invariant                                                 *)

LEMMA InitInv == Init => IInv
<1> SUFFICES ASSUME Init PROVE IInv
  OBVIOUS
<1>1. TypeOK
  BY InitType
<1>2. RowsOfKey
  BY DEF Init, RowsOfKey
<1>3. (\A t \in Threads : seen[t] = NoRow) => SeenOfKey /\ SeenInRead
  BY DEF SeenOfKey, SeenInRead
<1>4. (\A t \in Threads : pc[t] = "idle") => SetPending /\ SeenDead
  BY DEF SetPending, SeenDead
<1>5. CutoffPast
  <2>1. now = 0 /\ \A t \in Threads : cutoff[t] = 0
    BY Zenon DEF Init
  <2>2. 0 <= 0
    OBVIOUS
  <2>3. QED
    BY <2>1, <2>2, Zenon DEF CutoffPast
<1>6. QED
  BY <1>1, <1>2, <1>3, <1>4, <1>5 DEF IInv, Init

LEMMA NextInv == IInv /\ [Next]_vars => IInv'
<1> SUFFICES ASSUME IInv, [Next]_vars PROVE IInv'
  OBVIOUS
<1>0. TypeOK /\ TypeOK'
  BY NextType DEF IInv
<1> DEFINE Parts == RowsOfKey /\ SeenOfKey /\ SetPending /\ CutoffPast /\ SeenDead /\ SeenInRead
<1>a. Parts
  BY DEF IInv
<1>b. SUFFICES Parts'
  BY <1>0 DEF IInv
<1> USE <1>0, <1>a DEF TypeOK, PCs, Reads, RowsOfKey, SeenOfKey, SetPending, CutoffPast,
                       SeenDead, SeenInRead, OfKey
<1>1. ASSUME NEW t \in Threads, NEW k \in Keys, NEW v \in Values, BeginSet(t, k, v)
      PROVE  Parts'
  BY <1>1 DEF BeginSet, Row
<1>2. ASSUME NEW t \in Threads, CommitSet(t) PROVE Parts'
  BY <1>2 DEF CommitSet, SweepDue
<1>3. ASSUME NEW t \in Threads, FailSet(t) PROVE Parts'
  BY <1>3 DEF FailSet
<1>4. ASSUME NEW t \in Threads, BeginSweep(t) PROVE Parts'
  BY <1>4 DEF BeginSweep
<1>5. ASSUME NEW t \in Threads, DeleteExpired(t) PROVE Parts'
  BY <1>5 DEF DeleteExpired
<1>6. ASSUME NEW t \in Threads, SkipSweep(t) PROVE Parts'
  BY <1>6 DEF SkipSweep
<1>7. ASSUME NEW t \in Threads, NEW k \in Keys, NEW op \in Reads, Select(t, k, op)
      PROVE  Parts'
  BY <1>7 DEF Select
<1>8. ASSUME NEW t \in Threads, JudgeMissing(t) PROVE Parts'
  BY <1>8 DEF JudgeMissing, JudgeAs
<1>9. ASSUME NEW t \in Threads, JudgeFresh(t) PROVE Parts'
  BY <1>9 DEF JudgeFresh, JudgeAs
<1>10. ASSUME NEW t \in Threads, JudgeStale(t) PROVE Parts'
  BY <1>10 DEF JudgeStale, JudgeAs
<1>11. ASSUME NEW t \in Threads, JudgeDead(t) PROVE Parts'
  BY <1>11 DEF JudgeDead, JudgeAs
<1>12. ASSUME NEW t \in Threads, LazyDelete(t) PROVE Parts'
  BY <1>12 DEF LazyDelete, EndRead
<1>13. ASSUME NEW t \in Threads, SkipLazyDelete(t) PROVE Parts'
  BY <1>13 DEF SkipLazyDelete, EndRead
<1>14. CASE Bust
  BY <1>14 DEF Bust
<1>15. CASE Restart
  BY <1>15 DEF Restart
<1>16. CASE Tick
  BY <1>16 DEF Tick, Dead, Row
<1>17. CASE UNCHANGED vars
  BY <1>17 DEF vars
<1>18. QED
  BY <1>1, <1>2, <1>3, <1>4, <1>5, <1>6, <1>7, <1>8, <1>9, <1>10, <1>11,
     <1>12, <1>13, <1>14, <1>15, <1>16, <1>17
  DEF Next, Run, Begin, Progress

LEMMA SpecInv == Spec => []IInv
BY InitInv, NextInv, PTL DEF Spec

-----------------------------------------------------------------------------
(* Live rows                                                               *)

\* A live row of k is removed or replaced by a writer of k only.
KeptOrWritten(k) ==
  db[k] # NoRow /\ ~Dead(db[k], now) /\ db'[k] # db[k] =>
    \/ \E t \in Threads : pc[t] = "set" /\ key[t] = k /\ db'[k] = pending[t]
    \/ Bust \/ Restart

\* The sweep judges with a clock reading that is at most now, so what it
\* deletes is dead now.
LEMMA SweepSparesLive ==
  ASSUME IInv, NEW t \in Threads, DeleteExpired(t), NEW k \in Keys,
         db[k] # NoRow, ~Dead(db[k], now)
  PROVE  db'[k] = db[k]
<1>1. db[k] \in Row /\ cutoff[t] <= now /\ cutoff[t] \in Nat /\ now \in Nat
  BY DEF IInv, TypeOK, CutoffPast
<1>2. ~Dead(db[k], cutoff[t])
  BY <1>1 DEF Dead, Row
<1>3. QED
  BY <1>2 DEF DeleteExpired

\* The row a lazy delete finds has the created_at of the dead row its reader
\* saw, and the lifetime of the same key: it is dead too.
LEMMA LazyDeleteSparesLive ==
  ASSUME IInv, NEW t \in Threads, LazyDelete(t), NEW k \in Keys,
         db[k] # NoRow, ~Dead(db[k], now)
  PROVE  db'[k] = db[k]
<1>1. pc[t] = "lazy_delete" /\ key[t] \in Keys /\ db \in [Keys -> Row \cup {NoRow}]
  BY DEF LazyDelete, IInv, TypeOK
<1>2. CASE k # key[t]
  BY <1>1, <1>2 DEF LazyDelete
<1>3. CASE k = key[t]
  <2>1. Dead(seen[t], now) /\ OfKey(seen[t], k) /\ OfKey(db[k], k)
    BY <1>1, <1>3 DEF IInv, SeenDead, SeenOfKey, RowsOfKey
  <2>2. db[k].at # seen[t].at
    BY <2>1 DEF Dead, OfKey
  <2>3. QED
    BY <2>2, <1>3 DEF LazyDelete
<1>4. QED
  BY <1>2, <1>3

LEMMA StepSparesLive ==
  ASSUME IInv, [Next]_vars, NEW k \in Keys PROVE KeptOrWritten(k)
<1> SUFFICES ASSUME db[k] # NoRow, ~Dead(db[k], now), db'[k] # db[k], ~Bust, ~Restart
             PROVE  \E t \in Threads : pc[t] = "set" /\ key[t] = k /\ db'[k] = pending[t]
  BY DEF KeptOrWritten
<1>1. ASSUME NEW t \in Threads, CommitSet(t)
      PROVE  pc[t] = "set" /\ key[t] = k /\ db'[k] = pending[t]
  BY <1>1 DEF CommitSet, IInv, TypeOK
<1>2. ASSUME NEW t \in Threads, Begin(t) PROVE FALSE
  BY <1>2 DEF Begin, BeginSet, Select
<1>3. ASSUME NEW t \in Threads, DeleteExpired(t) PROVE FALSE
  BY <1>3, SweepSparesLive
<1>4. ASSUME NEW t \in Threads, LazyDelete(t) PROVE FALSE
  BY <1>4, LazyDeleteSparesLive
<1>5. ASSUME NEW t \in Threads,
             FailSet(t) \/ BeginSweep(t) \/ SkipSweep(t) \/ SkipLazyDelete(t)
      PROVE  FALSE
  BY <1>5 DEF FailSet, BeginSweep, SkipSweep, SkipLazyDelete
<1>6. ASSUME NEW t \in Threads,
             JudgeMissing(t) \/ JudgeFresh(t) \/ JudgeStale(t) \/ JudgeDead(t)
      PROVE  FALSE
  BY <1>6 DEF JudgeMissing, JudgeFresh, JudgeStale, JudgeDead, JudgeAs
<1>7. ~Tick /\ ~UNCHANGED vars
  BY DEF Tick, vars
<1>8. QED
  BY <1>1, <1>2, <1>3, <1>4, <1>5, <1>6, <1>7 DEF Next, Run, Progress

\* A row that may still be served is only ever removed by a writer of its
\* key, by the cache-clear route or by a restart.
THEOREM LiveRowsSurvive == Spec => LiveRowNeverLost
<1>1. IInv /\ [Next]_vars => [\A k \in Keys : KeptOrWritten(k)]_vars
  BY StepSparesLive
<1>2. QED
  BY <1>1, SpecInv, PTL DEF Spec, LiveRowNeverLost, KeptOrWritten

-----------------------------------------------------------------------------
(* Refinement of TtlCache                                                  *)

ReadingOf == [t \in Threads |-> IF pc[t] \in Reads THEN pc[t] ELSE "none"]
LookedOf  == [t \in Threads |-> IF pc[t] \in Reads THEN Living(seen[t]) ELSE NoRow]
StoreOf   == [k \in Keys |-> Living(db[k])]

\* TtlCache's judgement of a row, in the terms of this module.
LEMMA LivingSame ==
  ASSUME now \in Nat, NEW row \in Row \cup {NoRow} PROVE Promise!Living(row, now) = Living(row)
BY DEF Living, Promise!Living, Promise!Alive, Dead, Row

LEMMA InitRefines == Init => Promise!Init
BY DEF Init, Promise!Init, Living, Reads, NoAnswer, Promise!NoAnswer

\* The steps that change nothing of what the abstract store shows.
Hidden == StoreOf' = StoreOf /\ now' = now /\ ReadingOf' = ReadingOf
          /\ LookedOf' = LookedOf /\ answer' = answer

LEMMA HiddenStutters == Hidden => UNCHANGED Promise!vars
BY DEF Hidden, StoreOf, ReadingOf, LookedOf, Promise!vars

\* A delete that spares the live rows shows nothing.
LEMMA DeadDeleteHidden ==
  ASSUME IInv, IInv', now' = now, answer' = answer, ReadingOf' = ReadingOf, LookedOf' = LookedOf,
         \A k \in Keys : db'[k] = db[k] \/ (db'[k] = NoRow /\ (db[k] = NoRow \/ Dead(db[k], now)))
  PROVE  UNCHANGED Promise!vars
<1>1. StoreOf' = StoreOf
  BY DEF StoreOf, Living
<1>2. QED
  BY <1>1, HiddenStutters DEF Hidden

LEMMA CommitRefines ==
  ASSUME IInv, IInv', NEW t \in Threads, CommitSet(t)
  PROVE  \E k \in Keys, v \in Values, asked \in 0..now : Promise!Put(k, v, asked)
<1> DEFINE row == pending[t]
<1>1. /\ key[t] \in Keys /\ row \in Row
      /\ row.val \in Values /\ row.at \in 0..now
      /\ row = [val |-> row.val, at |-> row.at, ttl |-> Ttl[key[t]], swr |-> Swr[key[t]]]
  BY DEF CommitSet, IInv, TypeOK, SetPending, OfKey, Row
<1>2. StoreOf' = [StoreOf EXCEPT ![key[t]] = Promise!Living(row, now)]
  <2>1. now' = now /\ db' = [db EXCEPT ![key[t]] = row] /\ db \in [Keys -> Row \cup {NoRow}]
    BY DEF CommitSet, IInv, TypeOK
  <2>2. Promise!Living(row, now) = Living(row)
    BY <1>1, LivingSame DEF IInv, TypeOK
  <2>3. QED
    BY <1>1, <2>1, <2>2 DEF StoreOf, Living
<1>3. ReadingOf' = ReadingOf /\ LookedOf' = LookedOf /\ now' = now /\ answer' = answer
  BY DEF CommitSet, ReadingOf, LookedOf, Living, Reads, IInv, TypeOK
<1>4. Promise!Put(key[t], row.val, row.at)
  BY <1>1, <1>2, <1>3 DEF Promise!Put, StoreOf, ReadingOf, LookedOf
<1>5. QED
  BY <1>1, <1>4

LEMMA SelectRefines ==
  ASSUME IInv, NEW t \in Threads, NEW k \in Keys, NEW op \in Reads, Select(t, k, op)
  PROVE  Promise!Look(t, k, op)
<1>1. /\ now' = now /\ StoreOf' = StoreOf
      /\ ReadingOf[t] = "none"
      /\ ReadingOf' = [ReadingOf EXCEPT ![t] = op]
      /\ LookedOf' = [LookedOf EXCEPT ![t] = StoreOf[k]]
  BY DEF Select, StoreOf, ReadingOf, LookedOf, Living, Reads, IInv, TypeOK
<1>2. QED
  BY <1>1 DEF Promise!Look, Select, StoreOf, ReadingOf, LookedOf, NoAnswer, Promise!NoAnswer

\* The four ways of judging a row give the abstract answer.
LEMMA JudgeRefines ==
  ASSUME IInv, NEW t \in Threads,
         JudgeMissing(t) \/ JudgeFresh(t) \/ JudgeStale(t) \/ JudgeDead(t)
  PROVE  Promise!Reply(t)
<1>1. /\ pc[t] \in Reads /\ now' = now /\ db' = db
      /\ pc' \in {[pc EXCEPT ![t] = "idle"], [pc EXCEPT ![t] = "lazy_delete"]}
      /\ pc \in [Threads -> PCs] /\ now \in Nat
      /\ seen[t] \in Row \cup {NoRow}
      /\ \A u \in Threads \ {t} : seen'[u] = seen[u]
  BY DEF JudgeMissing, JudgeFresh, JudgeStale, JudgeDead, JudgeAs, IInv, TypeOK
<1>2. StoreOf' = StoreOf
  BY <1>1 DEF StoreOf, Living
<1>3. ReadingOf[t] = pc[t] /\ ReadingOf[t] # "none"
  BY <1>1 DEF ReadingOf, Reads
<1>4. ReadingOf' = [ReadingOf EXCEPT ![t] = "none"]
  BY <1>1 DEF ReadingOf, Reads
<1>5. LookedOf' = [LookedOf EXCEPT ![t] = NoRow]
  BY <1>1 DEF LookedOf, Living, Reads
<1>6. LookedOf[t] = Living(seen[t])
  BY <1>1 DEF LookedOf
<1>7. answer' = [answer EXCEPT ![t] = Promise!Answer(ReadingOf[t], LookedOf[t], now)]
  BY <1>1, <1>3, <1>6
  DEF JudgeMissing, JudgeFresh, JudgeStale, JudgeDead, JudgeAs, Living, Fresh, Dead, Reads,
      Promise!Answer, Promise!Fresh, Promise!Alive, Row
<1>8. QED
  BY <1>1, <1>2, <1>3, <1>4, <1>5, <1>7 DEF Promise!Reply, StoreOf, ReadingOf, LookedOf

\* Time passes in both: what is dead now is dead later.
LEMMA TickRefines ==
  ASSUME IInv, Tick PROVE Promise!Tick
<1>1. /\ now \in Nat /\ now' = now + 1 /\ db' = db /\ pc' = pc /\ seen' = seen /\ answer' = answer
      /\ db \in [Keys -> Row \cup {NoRow}] /\ seen \in [Threads -> Row \cup {NoRow}]
  BY DEF Tick, IInv, TypeOK
<1>2. ASSUME NEW row \in Row \cup {NoRow}
      PROVE  Living(row)' = Promise!Living(Living(row), now + 1)
  BY <1>1, <1>2 DEF Living, Promise!Living, Promise!Alive, Dead, Row
<1>3. NoRow = Promise!Living(NoRow, now + 1)
  BY DEF Promise!Living
<1>4. StoreOf' = [k \in Keys |-> Promise!Living(StoreOf[k], now + 1)]
  BY <1>1, <1>2 DEF StoreOf, Living
<1>5. LookedOf' = [t \in Threads |-> Promise!Living(LookedOf[t], now + 1)]
  BY <1>1, <1>2, <1>3 DEF LookedOf, Living
<1>6. ReadingOf' = ReadingOf
  BY <1>1 DEF ReadingOf
<1>7. QED
  BY <1>1, <1>4, <1>5, <1>6 DEF Promise!Tick, StoreOf, ReadingOf, LookedOf

LEMMA RestartRefines ==
  ASSUME IInv, Restart PROVE Promise!Restart
<1>1. StoreOf' \in {StoreOf, [k \in Keys |-> NoRow]}
  BY DEF Restart, StoreOf, Living, IInv, TypeOK
<1>2. ReadingOf' = [t \in Threads |-> "none"] /\ LookedOf' = [t \in Threads |-> NoRow]
  BY DEF Restart, ReadingOf, LookedOf, Reads
<1>3. answer' = [t \in Threads |-> Promise!NoAnswer] /\ now' = now
  BY DEF Restart, NoAnswer, Promise!NoAnswer
<1>4. QED
  BY <1>1, <1>2, <1>3 DEF Promise!Restart, StoreOf, ReadingOf, LookedOf

LEMMA BustRefines ==
  ASSUME IInv, Bust PROVE Promise!Clear
<1>1. StoreOf' = [k \in Keys |-> NoRow] /\ ReadingOf' = ReadingOf /\ LookedOf' = LookedOf
  BY DEF Bust, StoreOf, ReadingOf, LookedOf, Living
<1>2. QED
  BY <1>1 DEF Promise!Clear, Bust, StoreOf, ReadingOf, LookedOf

\* A set() that has only been asked for: its caller is done with its last read.
LEMMA BeginSetRefines ==
  ASSUME IInv, NEW t \in Threads, NEW k \in Keys, NEW v \in Values, BeginSet(t, k, v)
  PROVE  Promise!Forget(t)
<1>1. /\ StoreOf' = StoreOf /\ ReadingOf' = ReadingOf /\ LookedOf' = LookedOf
      /\ ReadingOf[t] = "none"
  BY DEF BeginSet, StoreOf, ReadingOf, LookedOf, Living, Reads, IInv, TypeOK
<1>2. QED
  BY <1>1 DEF Promise!Forget, BeginSet, StoreOf, ReadingOf, LookedOf, NoAnswer, Promise!NoAnswer

\* Housekeeping and failed statements are invisible.
LEMMA HousekeepingHidden ==
  ASSUME IInv, IInv', NEW t \in Threads,
         \/ FailSet(t) \/ BeginSweep(t) \/ DeleteExpired(t) \/ SkipSweep(t)
         \/ LazyDelete(t) \/ SkipLazyDelete(t)
  PROVE  UNCHANGED Promise!vars
<1>1. pc[t] \notin Reads /\ pc'[t] \notin Reads /\ (\A u \in Threads \ {t} : pc'[u] = pc[u] /\ seen'[u] = seen[u])
  BY DEF FailSet, BeginSweep, DeleteExpired, SkipSweep, LazyDelete, SkipLazyDelete, EndRead,
         Reads, IInv, TypeOK
<1>2. now' = now /\ answer' = answer
  BY DEF FailSet, BeginSweep, DeleteExpired, SkipSweep, LazyDelete, SkipLazyDelete, EndRead
<1>3. ReadingOf' = ReadingOf /\ LookedOf' = LookedOf
  BY <1>1, <1>2 DEF ReadingOf, LookedOf, Living
<1>4. ASSUME NEW k \in Keys, db'[k] # db[k]
      PROVE  db'[k] = NoRow /\ (db[k] = NoRow \/ Dead(db[k], now))
  <2>1. CASE DeleteExpired(t)
    BY <1>4, <2>1, SweepSparesLive DEF DeleteExpired
  <2>2. CASE LazyDelete(t)
    <3>1. k \in Keys /\ db \in [Keys -> Row \cup {NoRow}]
      BY <1>4 DEF IInv, TypeOK
    <3>2. db'[k] = NoRow
      BY <1>4, <2>2, <3>1 DEF LazyDelete
    <3>3. db[k] # NoRow => Dead(db[k], now)
      BY <1>4, <2>2, LazyDeleteSparesLive
    <3>4. QED
      BY <3>2, <3>3
  <2>3. CASE FailSet(t) \/ BeginSweep(t) \/ SkipSweep(t) \/ SkipLazyDelete(t)
    BY <1>4, <2>3 DEF FailSet, BeginSweep, SkipSweep, SkipLazyDelete
  <2>4. QED
    BY <2>1, <2>2, <2>3
<1>5. QED
  BY <1>2, <1>3, <1>4, DeadDeleteHidden

LEMMA StepRefines ==
  ASSUME IInv, IInv', [Next]_vars PROVE [Promise!Next]_(Promise!vars)
<1>1. ASSUME NEW t \in Threads, CommitSet(t) PROVE Promise!Next
  BY <1>1, CommitRefines DEF Promise!Next
<1>2. ASSUME NEW t \in Threads, NEW k \in Keys, NEW v \in Values, BeginSet(t, k, v)
      PROVE  Promise!Next
  BY <1>2, BeginSetRefines DEF Promise!Next
<1>3. ASSUME NEW t \in Threads, NEW k \in Keys, NEW op \in Reads, Select(t, k, op)
      PROVE  Promise!Next
  BY <1>3, SelectRefines DEF Promise!Next, Reads
<1>4. ASSUME NEW t \in Threads,
             JudgeMissing(t) \/ JudgeFresh(t) \/ JudgeStale(t) \/ JudgeDead(t)
      PROVE  Promise!Next
  BY <1>4, JudgeRefines DEF Promise!Next
<1>5. ASSUME NEW t \in Threads,
             \/ FailSet(t) \/ BeginSweep(t) \/ DeleteExpired(t) \/ SkipSweep(t)
             \/ LazyDelete(t) \/ SkipLazyDelete(t)
      PROVE  UNCHANGED Promise!vars
  BY <1>5, HousekeepingHidden
<1>6. CASE Bust
  BY <1>6, BustRefines DEF Promise!Next
<1>7. CASE Restart
  BY <1>7, RestartRefines DEF Promise!Next
<1>8. CASE Tick
  BY <1>8, TickRefines DEF Promise!Next
<1>9. CASE UNCHANGED vars
  BY <1>9 DEF vars, Promise!vars, Living
<1>10. QED
  BY <1>1, <1>2, <1>3, <1>4, <1>5, <1>6, <1>7, <1>8, <1>9
  DEF Next, Run, Begin, Progress

\* The cache keeps the promise of TtlCache: through sweeps, lazy deletes,
\* failed statements and restarts, reads answer what a store that loses
\* entries only by expiry, replacement or clearing would answer.
THEOREM CacheRefinesStore == Spec => KeepsPromise
<1>1. IInv /\ IInv' /\ [Next]_vars => [Promise!Next]_(Promise!vars)
  BY StepRefines
<1>2. QED
  BY <1>1, InitRefines, SpecInv, PTL DEF Spec, KeepsPromise, Promise!Spec
=============================================================================
