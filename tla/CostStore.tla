------------------------------ MODULE CostStore ------------------------------
(***************************************************************************)
(* CostStore.get_matrix of spendslicer/aws/cost_store.py: the daily cost   *)
(* matrix of one cache key (profile, account, window, filter), fetched     *)
(* from Cost Explorer, which bills every call, under a per-key single      *)
(* flight.  Keys do not interact, so one is enough.                        *)
(*                                                                         *)
(* The lock of a key is created by the first misser (setdefault) and       *)
(* dropped from the table by a fetcher's finally block, while other        *)
(* threads may be queued on it; the table belongs to a CostStore object,   *)
(* and get_cost_source of web/deps.py makes one of those per request.      *)
(* The force argument, which no caller in the program passes, is left out. *)
(***************************************************************************)
EXTENDS Naturals, FiniteSets

CONSTANTS Threads,
          Stores,      \* CostStore objects
          StoreOf,     \* [Threads -> Stores]: the object a thread's request uses
          Locks,       \* lock objects, as many as can be in use at once
          NoLock, Nobody,
          MaxFailures, MaxForgotten  \* bounds on failed fetches and writes, and on fetches
                                     \* whose matrix is removed before everyone has left

ASSUME FiniteAssumption == IsFiniteSet(Threads) /\ IsFiniteSet(Stores) /\ IsFiniteSet(Locks)
ASSUME StoresAssumption == StoreOf \in [Threads -> Stores]
ASSUME NamesAssumption == NoLock \notin Locks /\ Nobody \notin Threads
ASSUME BoundsAssumption == MaxFailures \in Nat /\ MaxForgotten \in Nat

VARIABLES
  warm,      \* the response cache holds the matrix, fresh
  inflight,  \* _inflight of each store: the lock listed for the key
  holder,    \* who holds each lock object
  pc, lock,  \* where each thread is, and the lock object it took from the table
  fetches,   \* Cost Explorer fetches started
  failures,  \* of these: failed, or their matrix was not written,
  kept,      \*           their matrix was written, and the cache has not lost it since,
  forgotten  \*           their matrix was written, and has been removed

\* The history is of what happened since the matrix was last removed with
\* nobody inside get_matrix.
counts == <<fetches, failures, kept, forgotten>>
vars == <<warm, inflight, holder, pc, lock, counts>>

PCs == {"idle", "table", "acquire", "recheck", "fetch", "store", "drop", "unlock"}

TypeOK ==
  /\ warm \in BOOLEAN
  /\ inflight \in [Stores -> Locks \cup {NoLock}]
  /\ holder \in [Locks -> Threads \cup {Nobody}]
  /\ pc \in [Threads -> PCs]
  /\ lock \in [Threads -> Locks \cup {NoLock}]
  /\ fetches \in Nat
  /\ failures \in Nat
  /\ kept \in Nat /\ forgotten \in Nat

Init ==
  /\ warm = FALSE
  /\ inflight = [s \in Stores |-> NoLock]
  /\ holder = [l \in Locks |-> Nobody]
  /\ pc = [t \in Threads |-> "idle"]
  /\ lock = [t \in Threads |-> NoLock]
  /\ fetches = 0
  /\ failures = 0 /\ kept = 0 /\ forgotten = 0

-----------------------------------------------------------------------------
Goto(t, place) == pc' = [pc EXCEPT ![t] = place]

\* The fast path: a fresh matrix is returned at once, without any lock.
Call(t) ==
  /\ pc[t] = "idle"
  /\ ~warm
  /\ Goto(t, "table")
  /\ UNCHANGED <<warm, inflight, holder, lock, counts>>

\* A lock object nobody has a reference to any more.
Unused(l) == (\A s \in Stores : inflight[s] # l) /\ (\A t \in Threads : lock[t] # l)

\* self._inflight.setdefault(key, threading.Lock())
TakeFromTable(t) ==
  /\ pc[t] = "table"
  /\ \/ /\ inflight[StoreOf[t]] # NoLock
        /\ lock' = [lock EXCEPT ![t] = inflight[StoreOf[t]]]
        /\ UNCHANGED inflight
     \/ /\ inflight[StoreOf[t]] = NoLock
        /\ \E l \in Locks :
             /\ Unused(l)
             /\ lock' = [lock EXCEPT ![t] = l]
             /\ inflight' = [inflight EXCEPT ![StoreOf[t]] = l]
  /\ Goto(t, "acquire")
  /\ UNCHANGED <<warm, holder, counts>>

Acquire(t) ==
  /\ pc[t] = "acquire" /\ holder[lock[t]] = Nobody
  /\ holder' = [holder EXCEPT ![lock[t]] = t]
  /\ Goto(t, "recheck")
  /\ UNCHANGED <<warm, inflight, lock, counts>>

\* Mutant: no second look, whoever gets the lock fetches.
RecheckNothing(t) ==
  /\ pc[t] = "recheck"
  /\ Goto(t, "fetch")
  /\ fetches' = fetches + 1
  /\ UNCHANGED <<warm, inflight, holder, lock, failures, kept, forgotten>>

\* The second look at the cache.  A hit returns from outside the try: the
\* table is left as it is.  A miss starts a fetch, which is billed.
Recheck(t) ==
  /\ pc[t] = "recheck"
  /\ Goto(t, IF warm THEN "unlock" ELSE "fetch")
  /\ fetches' = IF warm THEN fetches ELSE fetches + 1
  /\ UNCHANGED <<warm, inflight, holder, lock, failures, kept, forgotten>>

FetchOk(t) ==
  /\ pc[t] = "fetch"
  /\ Goto(t, "store")
  /\ UNCHANGED <<warm, inflight, holder, lock, counts>>

StoreMatrix(t) ==
  /\ pc[t] = "store"
  /\ warm' = TRUE
  /\ kept' = kept + 1
  /\ Goto(t, "drop")
  /\ UNCHANGED <<inflight, holder, lock, fetches, failures, forgotten>>

\* The call to Cost Explorer raises, or the cache drops the write.
Fail(t) ==
  /\ pc[t] \in {"fetch", "store"}
  /\ failures < MaxFailures
  /\ failures' = failures + 1
  /\ Goto(t, "drop")
  /\ UNCHANGED <<warm, inflight, holder, lock, fetches, kept, forgotten>>

\* The finally block: pop(key), whichever lock is listed by now.
DropFromTable(t) ==
  /\ pc[t] = "drop"
  /\ inflight' = [inflight EXCEPT ![StoreOf[t]] = NoLock]
  /\ Goto(t, "unlock")
  /\ UNCHANGED <<warm, holder, lock, counts>>

Unlock(t) ==
  /\ pc[t] = "unlock"
  /\ holder' = [holder EXCEPT ![lock[t]] = Nobody]
  /\ lock' = [lock EXCEPT ![t] = NoLock]
  /\ Goto(t, "idle")
  /\ UNCHANGED <<warm, inflight, counts>>

\* The matrix is gone: POST /cache/clear removes it at any moment, whoever is
\* fetching or still queued on a lock that has left the table, and it expires.
\* The history starts afresh if nobody is inside.
Forget ==
  /\ warm
  /\ warm' = FALSE
  /\ kept' = 0
  /\ IF \A t \in Threads : pc[t] = "idle"
     THEN fetches' = 0 /\ failures' = 0 /\ forgotten' = 0
     ELSE /\ forgotten + kept <= MaxForgotten
          /\ forgotten' = forgotten + kept
          /\ UNCHANGED <<fetches, failures>>
  /\ UNCHANGED <<inflight, holder, pc, lock>>

Progress(t) ==
  \/ TakeFromTable(t) \/ Acquire(t) \/ Recheck(t)
  \/ FetchOk(t) \/ StoreMatrix(t) \/ Fail(t)
  \/ DropFromTable(t) \/ Unlock(t)

Next ==
  \/ \E t \in Threads : Call(t) \/ Progress(t)
  \/ Forget

Spec == Init /\ [][Next]_vars

-----------------------------------------------------------------------------
(* Properties                                                              *)

\* What the single flight keeps through failures and cache clears: however
\* many threads miss, each store object pays for one fetch, and each fetch that
\* left nothing behind, because it failed or because its matrix was removed
\* again, costs at most two more.  (Two, because the finally block takes the
\* lock out of the table: the threads queued on it go on under that lock, and
\* newcomers make another.  They find the matrix unless it is gone.)
FetchesBounded == fetches <= Cardinality(Stores) + 2 * (failures + forgotten)
=============================================================================
