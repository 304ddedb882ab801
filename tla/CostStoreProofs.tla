--------------------------- MODULE CostStoreProofs ---------------------------
(***************************************************************************)
(* Proofs about CostStore, for any finite sets of threads, stores and lock *)
(* objects: the number of fetches a matrix can cost, however often it is   *)
(* removed while threads are inside.                                       *)
(*                                                                         *)
(* The argument counts credits, the fetches that could still be started    *)
(* if the matrix never came: one for each lock somebody lists or waits for *)
(* and under which nobody is fetching, one for each store that lists none, *)
(* and one for each thread about to take a lock out of the table.  A fetch *)
(* uses up a credit, and only the end of one makes new ones, two.          *)
(***************************************************************************)
EXTENDS CostStore, FiniteSetTheorems, TLAPS

Fetching == {"fetch", "store"}
Holding  == {"recheck", "fetch", "store", "drop", "unlock"}

Live(l)   == (\E s \in Stores : inflight[s] = l) \/ (\E t \in Threads : lock[t] = l)
Busy(l)   == \E t \in Threads : lock[t] = l /\ pc[t] \in Fetching
Open      == {l \in Locks : Live(l) /\ ~Busy(l)}
Vacant    == {s \in Stores : inflight[s] = NoLock}
Dropping  == {t \in Threads : pc[t] = "drop"}
Credit    == Cardinality(Open) + Cardinality(Vacant) + Cardinality(Dropping)
Ended     == failures + kept + forgotten

\* A thread past its acquire holds its lock; one that waits has a lock.
LockHeld == \A t \in Threads : pc[t] \in Holding => lock[t] \in Locks /\ holder[lock[t]] = t
LockKept == \A t \in Threads : pc[t] = "acquire" => lock[t] \in Locks
LockFree == \A t \in Threads : pc[t] \in {"idle", "table"} => lock[t] = NoLock

Covered == fetches + Credit <= Cardinality(Stores) + 2 * Ended
KeptIfWarm == ~warm => kept = 0

IInv ==
  /\ TypeOK
  /\ LockHeld
  /\ LockKept
  /\ LockFree
  /\ Covered
  /\ KeptIfWarm
  /\ FetchesBounded

USE FiniteAssumption, StoresAssumption, NamesAssumption, BoundsAssumption

-----------------------------------------------------------------------------
LEMMA CreditSets ==
  /\ IsFiniteSet(Open) /\ IsFiniteSet(Vacant) /\ IsFiniteSet(Dropping)
  /\ Cardinality(Open) \in Nat /\ Cardinality(Vacant) \in Nat /\ Cardinality(Dropping) \in Nat
  /\ Cardinality(Stores) \in Nat
<1>1. IsFiniteSet(Open) /\ IsFiniteSet(Vacant) /\ IsFiniteSet(Dropping)
  BY FS_Subset DEF Open, Vacant, Dropping
<1>2. QED
  BY <1>1, FS_CardinalityType

\* Adding to a finite set at most one element adds at most one to its size.
LEMMA GrowByOne ==
  ASSUME NEW S, NEW T, NEW x, IsFiniteSet(S), T \subseteq S \cup {x}
  PROVE  IsFiniteSet(T) /\ Cardinality(T) \in Nat /\ Cardinality(S) \in Nat
         /\ Cardinality(T) <= Cardinality(S) + 1
<1>0. Cardinality(S) \in Nat
  BY FS_CardinalityType
<1>1. IsFiniteSet(S \cup {x}) /\ Cardinality(S \cup {x}) <= Cardinality(S) + 1
  <2>1. /\ IsFiniteSet(S \cup {x})
        /\ Cardinality(S \cup {x}) = IF x \in S THEN Cardinality(S) ELSE Cardinality(S) + 1
    BY FS_AddElement
  <2>2. QED
    BY <1>0, <2>1
<1>2. T \in SUBSET (S \cup {x})
  OBVIOUS
<1>3. IsFiniteSet(T) /\ Cardinality(T) <= Cardinality(S \cup {x})
  BY <1>1, <1>2, FS_Subset
<1>4. Cardinality(T) \in Nat /\ Cardinality(S \cup {x}) \in Nat
  BY <1>1, <1>3, FS_CardinalityType
<1>5. QED
  BY <1>0, <1>1, <1>3, <1>4

\* Removing an element, and perhaps more, takes at least one.
LEMMA ShrinkByOne ==
  ASSUME NEW S, NEW T, NEW x \in S, IsFiniteSet(S), T \subseteq S \ {x}
  PROVE  IsFiniteSet(T) /\ Cardinality(T) \in Nat /\ Cardinality(S) \in Nat
         /\ Cardinality(T) <= Cardinality(S) - 1
<1>1. IsFiniteSet(S \ {x}) /\ Cardinality(S \ {x}) = Cardinality(S) - 1 /\ Cardinality(S) \in Nat
  BY FS_RemoveElement, FS_CardinalityType
<1>2. IsFiniteSet(T) /\ Cardinality(T) <= Cardinality(S \ {x})
  BY <1>1, FS_Subset
<1>3. QED
  BY <1>1, <1>2, FS_CardinalityType

LEMMA NoMore ==
  ASSUME NEW S, NEW T, IsFiniteSet(S), T \subseteq S
  PROVE  Cardinality(T) \in Nat /\ Cardinality(S) \in Nat /\ Cardinality(T) <= Cardinality(S)
BY FS_Subset, FS_CardinalityType

-----------------------------------------------------------------------------
(* Types and locks                                                         *)

LEMMA NextType == TypeOK /\ [Next]_vars => TypeOK'
<1> SUFFICES ASSUME TypeOK, [Next]_vars PROVE TypeOK'
  OBVIOUS
<1> USE DEF TypeOK, PCs, Goto, counts
<1>1. ASSUME NEW t \in Threads, Call(t) PROVE TypeOK'
  BY <1>1 DEF Call
<1>2. ASSUME NEW t \in Threads, TakeFromTable(t) PROVE TypeOK'
  BY <1>2 DEF TakeFromTable
<1>3. ASSUME NEW t \in Threads, Acquire(t) PROVE TypeOK'
  BY <1>3 DEF Acquire
<1>4. ASSUME NEW t \in Threads, Recheck(t) PROVE TypeOK'
  BY <1>4 DEF Recheck
<1>5. ASSUME NEW t \in Threads, FetchOk(t) \/ StoreMatrix(t) \/ Fail(t) PROVE TypeOK'
  <2>1. CASE FetchOk(t)
    BY <2>1 DEF FetchOk
  <2>2. CASE StoreMatrix(t)
    BY <2>2 DEF StoreMatrix
  <2>3. CASE Fail(t)
    BY <2>3 DEF Fail
  <2>4. QED
    BY <1>5, <2>1, <2>2, <2>3
<1>6. ASSUME NEW t \in Threads, DropFromTable(t) PROVE TypeOK'
  BY <1>6 DEF DropFromTable
<1>7. ASSUME NEW t \in Threads, Unlock(t) PROVE TypeOK'
  BY <1>7 DEF Unlock
<1>8. CASE Forget
  <2>1. kept' = 0 /\ warm' = FALSE /\ UNCHANGED <<inflight, holder, pc, lock>>
    BY <1>8 DEF Forget
  <2>2. CASE \A t \in Threads : pc[t] = "idle"
    <3>1. fetches' = 0 /\ failures' = 0 /\ forgotten' = 0
      BY <1>8, <2>2 DEF Forget
    <3>2. QED
      BY <2>1, <3>1
  <2>3. CASE ~(\A t \in Threads : pc[t] = "idle")
    <3>1. forgotten' = forgotten + kept /\ fetches' = fetches /\ failures' = failures
      BY <1>8, <2>3 DEF Forget
    <3>2. fetches' \in Nat /\ failures' \in Nat /\ forgotten' \in Nat
      BY <3>1
    <3>3. QED
      BY <2>1, <3>2
  <2>4. QED
    BY <2>2, <2>3
<1>9. CASE UNCHANGED vars
  BY <1>9 DEF vars
<1>10. QED
  BY <1>1, <1>2, <1>3, <1>4, <1>5, <1>6, <1>7, <1>8, <1>9 DEF Next, Progress

LEMMA NextLocks == IInv /\ [Next]_vars => LockHeld' /\ LockKept' /\ LockFree'
<1> SUFFICES ASSUME IInv, [Next]_vars PROVE LockHeld' /\ LockKept' /\ LockFree'
  OBVIOUS
<1> USE DEF IInv, TypeOK, PCs, Goto, LockHeld, LockKept, LockFree, Holding
<1>1. ASSUME NEW t \in Threads, Call(t) PROVE LockHeld' /\ LockKept' /\ LockFree'
  BY <1>1 DEF Call
<1>2. ASSUME NEW t \in Threads, TakeFromTable(t) PROVE LockHeld' /\ LockKept' /\ LockFree'
  BY <1>2 DEF TakeFromTable
<1>3. ASSUME NEW t \in Threads, Acquire(t) PROVE LockHeld' /\ LockKept' /\ LockFree'
  BY <1>3 DEF Acquire
<1>4. ASSUME NEW t \in Threads, Recheck(t) PROVE LockHeld' /\ LockKept' /\ LockFree'
  BY <1>4 DEF Recheck
<1>5. ASSUME NEW t \in Threads, FetchOk(t) \/ StoreMatrix(t) \/ Fail(t)
      PROVE  LockHeld' /\ LockKept' /\ LockFree'
  BY <1>5 DEF FetchOk, StoreMatrix, Fail
<1>6. ASSUME NEW t \in Threads, DropFromTable(t) PROVE LockHeld' /\ LockKept' /\ LockFree'
  BY <1>6 DEF DropFromTable
<1>7. ASSUME NEW t \in Threads, Unlock(t) PROVE LockHeld' /\ LockKept' /\ LockFree'
  BY <1>7 DEF Unlock
<1>8. CASE Forget
  BY <1>8 DEF Forget
<1>9. CASE UNCHANGED vars
  BY <1>9 DEF vars
<1>10. QED
  BY <1>1, <1>2, <1>3, <1>4, <1>5, <1>6, <1>7, <1>8, <1>9 DEF Next, Progress

-----------------------------------------------------------------------------
(* Credits                                                                 *)

\* What is to be shown of a step: that with what it spends and allows, it
\* makes no more credits than it may.
Spends(n, m) ==
  /\ Credit \in Nat /\ Credit' \in Nat
  /\ n \in Nat /\ m \in Nat
  /\ fetches' = fetches + n /\ Ended' = Ended + m
  /\ Credit' + n <= Credit + 2 * m

LEMMA Budget ==
  ASSUME NEW paid \in Nat, NEW failed \in Nat, NEW stores \in Nat,
         NEW old \in Nat, NEW new \in Nat, NEW n \in Nat, NEW m \in Nat,
         paid + old <= stores + 2 * failed, new + n <= old + 2 * m
  PROVE  (paid + n) + new <= stores + 2 * (failed + m)
<1>1. 2 * (failed + m) = 2 * failed + 2 * m
  OBVIOUS
<1>2. QED
  BY <1>1

LEMMA CoveredBySpending ==
  ASSUME IInv, NEW n, NEW m, Spends(n, m)
  PROVE  Covered'
<1>1. fetches \in Nat /\ Ended \in Nat /\ Cardinality(Stores) \in Nat
  BY CreditSets DEF IInv, TypeOK, Ended
<1>2. fetches + Credit <= Cardinality(Stores) + 2 * Ended
  BY DEF IInv, Covered
<1>3. /\ Credit \in Nat /\ Credit' \in Nat /\ n \in Nat /\ m \in Nat
      /\ fetches' = fetches + n /\ Ended' = Ended + m
      /\ Credit' + n <= Credit + 2 * m
  BY DEF Spends
<1>4. (fetches + n) + Credit' <= Cardinality(Stores) + 2 * (Ended + m)
  BY <1>1, <1>2, <1>3, Budget
<1>5. QED
  BY <1>3, <1>4 DEF Covered

\* The new count is no larger than the old one, set by set.
LEMMA CreditKept ==
  ASSUME Open' \subseteq Open, Vacant' \subseteq Vacant, Dropping' \subseteq Dropping,
         UNCHANGED counts, TypeOK
  PROVE  Spends(0, 0)
<1>1. Cardinality(Open') \in Nat /\ Cardinality(Open') <= Cardinality(Open) /\ Cardinality(Open) \in Nat
  BY CreditSets, NoMore
<1>2. Cardinality(Vacant') \in Nat /\ Cardinality(Vacant') <= Cardinality(Vacant) /\ Cardinality(Vacant) \in Nat
  BY CreditSets, NoMore
<1>3. Cardinality(Dropping') \in Nat /\ Cardinality(Dropping') <= Cardinality(Dropping) /\ Cardinality(Dropping) \in Nat
  BY CreditSets, NoMore
<1>4. fetches' = fetches + 0 /\ Ended' = Ended + 0
  BY DEF TypeOK, counts, Ended
<1>5. QED
  BY <1>1, <1>2, <1>3, <1>4 DEF Spends, Credit

\* A thread that lists a new lock turns a vacant store into an open lock.
LEMMA TakeSpends ==
  ASSUME IInv, NEW t \in Threads, TakeFromTable(t)
  PROVE  Spends(0, 0)
<1> USE DEF IInv, TypeOK, PCs, Goto, LockHeld, LockKept, LockFree, Holding, Fetching
<1>1. CASE inflight[StoreOf[t]] # NoLock
  <2>1. Open' \subseteq Open
    BY <1>1 DEF TakeFromTable, Open, Live, Busy
  <2>2. Vacant' = Vacant /\ Dropping' \subseteq Dropping /\ UNCHANGED counts
    BY <1>1 DEF TakeFromTable, Vacant, Dropping, counts
  <2>3. QED
    BY <2>1, <2>2, CreditKept
<1>2. CASE inflight[StoreOf[t]] = NoLock
  <2>1. PICK l \in Locks : /\ lock' = [lock EXCEPT ![t] = l]
                           /\ inflight' = [inflight EXCEPT ![StoreOf[t]] = l]
    BY <1>2 DEF TakeFromTable
  <2>2. Open' \subseteq Open \cup {l}
    BY <2>1, <1>2 DEF TakeFromTable, Open, Live, Busy
  <2>3. StoreOf[t] \in Vacant /\ Vacant' \subseteq Vacant \ {StoreOf[t]}
    BY <2>1, <1>2 DEF Vacant
  <2>4. Dropping' \subseteq Dropping /\ UNCHANGED counts
    BY DEF TakeFromTable, Dropping, counts
  <2>5. Cardinality(Open') \in Nat /\ Cardinality(Open') <= Cardinality(Open) + 1
    BY <2>2, CreditSets, GrowByOne
  <2>6. Cardinality(Vacant') \in Nat /\ Cardinality(Vacant') <= Cardinality(Vacant) - 1
    BY <2>3, CreditSets, ShrinkByOne
  <2>7. Cardinality(Dropping') \in Nat /\ Cardinality(Dropping') <= Cardinality(Dropping)
    BY <2>4, CreditSets, NoMore
  <2>8. QED
    BY <2>4, <2>5, <2>6, <2>7, CreditSets DEF Spends, Credit, counts, Ended
<1>3. QED
  BY <1>1, <1>2

\* A fetch is started under a lock nobody was fetching under.
LEMMA FetchSpends ==
  ASSUME IInv, ~warm, NEW t \in Threads, Recheck(t)
  PROVE  Spends(1, 0)
<1> USE DEF IInv, TypeOK, PCs, Goto, LockHeld, LockKept, LockFree, Holding, Fetching
<1>1. lock[t] \in Open
  BY DEF Recheck, Open, Live, Busy
<1>2. Open' \subseteq Open \ {lock[t]}
  BY DEF Recheck, Open, Live, Busy
<1>3. Vacant' \subseteq Vacant /\ Dropping' \subseteq Dropping
  BY DEF Recheck, Vacant, Dropping
<1>4. fetches' = fetches + 1 /\ Ended' = Ended + 0
  BY DEF Recheck, Ended
<1>5. Cardinality(Open') \in Nat /\ Cardinality(Open') <= Cardinality(Open) - 1
  BY <1>1, <1>2, CreditSets, ShrinkByOne
<1>6. Cardinality(Vacant') \in Nat /\ Cardinality(Vacant') <= Cardinality(Vacant)
  BY <1>3, CreditSets, NoMore
<1>7. Cardinality(Dropping') \in Nat /\ Cardinality(Dropping') <= Cardinality(Dropping)
  BY <1>3, CreditSets, NoMore
<1>8. QED
  BY <1>4, <1>5, <1>6, <1>7, CreditSets DEF Spends, Credit

\* The end of a fetch leaves its lock open again, and its thread about to drop it.
LEMMA EndSpends ==
  ASSUME IInv, NEW t \in Threads, Fail(t) \/ StoreMatrix(t)
  PROVE  Spends(0, 1)
<1> USE DEF IInv, TypeOK, PCs, Goto, LockHeld, LockKept, LockFree, Holding, Fetching
<1>1. Open' \subseteq Open \cup {lock[t]}
  BY DEF Fail, StoreMatrix, Open, Live, Busy
<1>2. Vacant' \subseteq Vacant /\ Dropping' \subseteq Dropping \cup {t}
  BY DEF Fail, StoreMatrix, Vacant, Dropping
<1>3. fetches' = fetches + 0 /\ Ended' = Ended + 1
  BY DEF Fail, StoreMatrix, Ended
<1>4. Cardinality(Open') \in Nat /\ Cardinality(Open') <= Cardinality(Open) + 1
  BY <1>1, CreditSets, GrowByOne
<1>5. Cardinality(Vacant') \in Nat /\ Cardinality(Vacant') <= Cardinality(Vacant)
  BY <1>2, CreditSets, NoMore
<1>6. Cardinality(Dropping') \in Nat /\ Cardinality(Dropping') <= Cardinality(Dropping) + 1
  BY <1>2, CreditSets, GrowByOne
<1>7. QED
  BY <1>3, <1>4, <1>5, <1>6, CreditSets DEF Spends, Credit

\* Taking the lock out of the table empties one store at most.
LEMMA DropSpends ==
  ASSUME IInv, NEW t \in Threads, DropFromTable(t)
  PROVE  Spends(0, 0)
<1> USE DEF IInv, TypeOK, PCs, Goto, LockHeld, LockKept, LockFree, Holding, Fetching
<1>1. Open' \subseteq Open
  BY DEF DropFromTable, Open, Live, Busy
<1>2. Vacant' \subseteq Vacant \cup {StoreOf[t]}
  BY DEF DropFromTable, Vacant
<1>3. t \in Dropping /\ Dropping' \subseteq Dropping \ {t}
  BY DEF DropFromTable, Dropping
<1>4. fetches' = fetches + 0 /\ Ended' = Ended + 0
  BY DEF DropFromTable, counts, Ended
<1>5. Cardinality(Open') \in Nat /\ Cardinality(Open') <= Cardinality(Open)
  BY <1>1, CreditSets, NoMore
<1>6. Cardinality(Vacant') \in Nat /\ Cardinality(Vacant') <= Cardinality(Vacant) + 1
  BY <1>2, CreditSets, GrowByOne
<1>7. Cardinality(Dropping') \in Nat /\ Cardinality(Dropping') <= Cardinality(Dropping) - 1
  BY <1>3, CreditSets, ShrinkByOne
<1>8. QED
  BY <1>4, <1>5, <1>6, <1>7, CreditSets DEF Spends, Credit

\* The other steps of a thread move nothing that is counted, except that a
\* thread that leaves may take a lock with it.
LEMMA OthersSpend ==
  ASSUME IInv, NEW t \in Threads,
         Call(t) \/ Acquire(t) \/ (warm /\ Recheck(t)) \/ FetchOk(t) \/ Unlock(t)
  PROVE  Spends(0, 0)
<1> USE DEF IInv, TypeOK, PCs, Goto, LockHeld, LockKept, LockFree, Holding, Fetching
<1>1. Open' \subseteq Open
  BY DEF Call, Acquire, Recheck, FetchOk, Unlock, Open, Live, Busy
<1>2. Vacant' \subseteq Vacant /\ Dropping' \subseteq Dropping
  BY DEF Call, Acquire, Recheck, FetchOk, Unlock, Vacant, Dropping
<1>3. UNCHANGED counts
  BY DEF Call, Acquire, Recheck, FetchOk, Unlock, counts
<1>4. QED
  BY <1>1, <1>2, <1>3, CreditKept

\* When everyone is idle, every lock still in use is listed by some store.
AllIdle == \A t \in Threads : pc[t] = "idle" /\ lock[t] = NoLock
CreditOfStores == Credit \in Nat /\ Credit <= Cardinality(Stores)

LEMMA IdleCredit == TypeOK /\ AllIdle => CreditOfStores
<1> SUFFICES ASSUME TypeOK, AllIdle PROVE CreditOfStores
  OBVIOUS
<1> USE DEF AllIdle, CreditOfStores
<1> DEFINE Listing == Stores \ Vacant
           Listed  == [s \in Listing |-> inflight[s]]
<1>1. Dropping = {}
  BY DEF Dropping
<1>2. Open = {l \in Locks : \E s \in Stores : inflight[s] = l}
  BY DEF Open, Live, Busy, Fetching
<1>3. Listed \in Surjection(Listing, Open)
  BY <1>2 DEF TypeOK, Vacant, Surjection
<1>4. IsFiniteSet(Listing) /\ Cardinality(Listing) = Cardinality(Stores) - Cardinality(Vacant)
  <2>1. Stores \cap Vacant = Vacant
    BY DEF Vacant
  <2>2. QED
    BY <2>1, FS_Difference
<1>5. Cardinality(Open) <= Cardinality(Listing)
  BY <1>3, <1>4, FS_Surjection
<1>6. Cardinality(Dropping) = 0
  BY <1>1, FS_EmptySet
<1>7. QED
  BY <1>4, <1>5, <1>6, CreditSets DEF Credit

LEMMA InitInv == Init => IInv
<1> SUFFICES ASSUME Init PROVE IInv
  OBVIOUS
<1>1. TypeOK
  BY DEF Init, TypeOK, PCs
<1>2. LockHeld /\ LockKept /\ LockFree
  BY DEF Init, LockHeld, LockKept, LockFree, Holding
<1>3. CreditOfStores
  <2>1. AllIdle
    BY DEF Init, AllIdle
  <2>2. QED
    BY <1>1, <2>1, IdleCredit
<1>4. Covered
  BY <1>3, CreditSets DEF CreditOfStores, Init, Covered, Ended
<1>5. KeptIfWarm /\ FetchesBounded
  BY CreditSets DEF Init, KeptIfWarm, FetchesBounded
<1>6. QED
  BY <1>1, <1>2, <1>4, <1>5 DEF IInv

\* When the matrix goes, what was kept for it is forgotten: the sum is the same
\* or, with everyone outside, all is counted afresh.
LEMMA ForgetCovered ==
  ASSUME IInv, Forget, TypeOK'
  PROVE  Covered' /\ KeptIfWarm' /\ FetchesBounded'
<1>0. /\ fetches \in Nat /\ failures \in Nat /\ kept \in Nat /\ forgotten \in Nat
      /\ Cardinality(Stores) \in Nat /\ Credit \in Nat
  BY CreditSets DEF IInv, TypeOK, Credit
<1>1. KeptIfWarm'
  BY DEF Forget, KeptIfWarm
<1>2. CASE \A t \in Threads : pc[t] = "idle"
  <2>1. AllIdle'
    BY <1>2 DEF IInv, LockFree, Forget, AllIdle
  <2>2. CreditOfStores'
    BY <2>1, IdleCredit, PTL
  <2>3. fetches' = 0 /\ failures' = 0 /\ kept' = 0 /\ forgotten' = 0
    BY <1>2 DEF Forget
  <2>4. QED
    BY <1>0, <1>1, <2>2, <2>3 DEF Covered, CreditOfStores, Ended, FetchesBounded
<1>3. CASE \E t \in Threads : pc[t] # "idle"
  <2>1. Credit' = Credit
    BY DEF Forget, Credit, Open, Live, Busy, Vacant, Dropping
  <2>2. /\ fetches' = fetches /\ failures' = failures
        /\ kept' = 0 /\ forgotten' = forgotten + kept
    BY <1>3 DEF Forget
  <2>3. Ended' = Ended
    BY <1>0, <2>2 DEF Ended
  <2>4. Covered'
    BY <2>1, <2>2, <2>3 DEF IInv, Covered
  <2>5. FetchesBounded'
    BY <1>0, <2>2 DEF IInv, FetchesBounded
  <2>6. QED
    BY <1>1, <2>4, <2>5
<1>4. QED
  BY <1>2, <1>3

LEMMA NextCovered == IInv /\ [Next]_vars => Covered'
<1> SUFFICES ASSUME IInv, [Next]_vars PROVE Covered'
  OBVIOUS
<1>1. ASSUME NEW t \in Threads, Call(t) \/ Progress(t) PROVE Covered'
  <2>1. CASE TakeFromTable(t)
    BY <2>1, TakeSpends, CoveredBySpending
  <2>2. CASE ~warm /\ Recheck(t)
    BY <2>2, FetchSpends, CoveredBySpending
  <2>3. CASE Fail(t) \/ StoreMatrix(t)
    BY <2>3, EndSpends, CoveredBySpending
  <2>4. CASE DropFromTable(t)
    BY <2>4, DropSpends, CoveredBySpending
  <2>5. CASE Call(t) \/ Acquire(t) \/ (warm /\ Recheck(t)) \/ FetchOk(t) \/ Unlock(t)
    BY <2>5, OthersSpend, CoveredBySpending
  <2>6. warm \in BOOLEAN
    BY DEF IInv, TypeOK
  <2>7. QED
    BY <1>1, <2>1, <2>2, <2>3, <2>4, <2>5, <2>6 DEF Progress
<1>2. CASE Forget
  BY <1>2, NextType, ForgetCovered DEF IInv
<1>3. CASE UNCHANGED vars
  <2>1. Open' = Open /\ Vacant' = Vacant /\ Dropping' = Dropping
    BY <1>3 DEF vars, Open, Live, Busy, Vacant, Dropping
  <2>2. QED
    BY <1>3, <2>1 DEF vars, counts, IInv, Covered, Credit, Ended
<1>4. QED
  BY <1>1, <1>2, <1>3 DEF Next

LEMMA NextKept == IInv /\ [Next]_vars => KeptIfWarm'
<1> SUFFICES ASSUME IInv, [Next]_vars PROVE KeptIfWarm'
  OBVIOUS
<1>1. ASSUME NEW t \in Threads, Call(t) \/ Progress(t) PROVE KeptIfWarm'
  BY <1>1 DEF IInv, KeptIfWarm, Call, Progress, TakeFromTable, Acquire, Recheck, FetchOk,
              StoreMatrix, Fail, DropFromTable, Unlock, counts
<1>2. CASE Forget
  BY <1>2, NextType, ForgetCovered DEF IInv
<1>3. CASE UNCHANGED vars
  BY <1>3 DEF vars, counts, IInv, KeptIfWarm
<1>4. QED
  BY <1>1, <1>2, <1>3 DEF Next

\* Only a fetch that starts could break the bound.  It starts while there is no
\* matrix, when everything that has ended has failed or been forgotten.
LEMMA NextBounded == IInv /\ [Next]_vars => FetchesBounded'
<1> SUFFICES ASSUME IInv, [Next]_vars PROVE FetchesBounded'
  OBVIOUS
<1>0. /\ fetches \in Nat /\ failures \in Nat /\ kept \in Nat /\ forgotten \in Nat
      /\ Cardinality(Stores) \in Nat
  BY CreditSets DEF IInv, TypeOK
<1>1. ASSUME NEW t \in Threads, ~warm, Recheck(t) PROVE FetchesBounded'
  <2>1. Covered'
    BY NextCovered
  <2>2. Credit' \in Nat
    BY <1>1, FetchSpends DEF Spends
  <2>3. /\ fetches' = fetches + 1 /\ failures' = failures /\ forgotten' = forgotten
        /\ kept' = kept /\ kept = 0
    BY <1>1 DEF Recheck, IInv, KeptIfWarm
  <2>4. Ended' = failures + forgotten
    BY <1>0, <2>3 DEF Ended
  <2>5. fetches' + Credit' <= Cardinality(Stores) + 2 * (failures + forgotten)
    BY <2>1, <2>4 DEF Covered
  <2>6. QED
    BY <1>0, <2>2, <2>3, <2>5 DEF FetchesBounded
<1>2. ASSUME fetches' = fetches, forgotten' = forgotten,
             failures' = failures \/ failures' = failures + 1
      PROVE  FetchesBounded'
  BY <1>0, <1>2 DEF IInv, FetchesBounded
<1>3. ASSUME NEW t \in Threads, Call(t) \/ Progress(t), warm \/ ~Recheck(t) PROVE FetchesBounded'
  <2>1. /\ fetches' = fetches /\ forgotten' = forgotten
        /\ failures' = failures \/ failures' = failures + 1
    BY <1>3 DEF Call, Progress, TakeFromTable, Acquire, Recheck, FetchOk, StoreMatrix, Fail,
                DropFromTable, Unlock, counts
  <2>2. QED
    BY <1>2, <2>1
<1>4. CASE Forget
  BY <1>4, NextType, ForgetCovered DEF IInv
<1>5. CASE UNCHANGED vars
  BY <1>2, <1>5 DEF vars, counts
<1>6. QED
  BY <1>1, <1>3, <1>4, <1>5 DEF Next

LEMMA Inductive == Spec => []IInv
<1>1. IInv /\ [Next]_vars => IInv'
  BY NextType, NextLocks, NextCovered, NextKept, NextBounded DEF IInv
<1>2. QED
  BY InitInv, <1>1, PTL DEF Spec

-----------------------------------------------------------------------------
\* The types of CostStore hold for any threads, stores and locks.
THEOREM CostTypeCorrect == Spec => []TypeOK
<1>1. IInv => TypeOK
  BY DEF IInv
<1>2. QED
  BY Inductive, <1>1, PTL

\* However many threads miss, whatever fails and whenever the matrix is removed,
\* get_matrix pays for one fetch per store object and two more for each fetch
\* that left nothing behind.
THEOREM FlightsPayOnce == Spec => []FetchesBounded
<1>1. IInv => FetchesBounded
  BY DEF IInv
<1>2. QED
  BY Inductive, <1>1, PTL
=============================================================================
