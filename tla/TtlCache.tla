------------------------------ MODULE TtlCache ------------------------------
(***************************************************************************)
(* What the response cache of the server promises to its callers, with     *)
(* no database, lock or housekeeping: a store from keys to entries that    *)
(* loses an entry only when the entry expires, is replaced, is cleared, or *)
(* the store is rebuilt after a corruption.  An entry is fresh for ttl     *)
(* ticks, then may be served stale for swr more.                           *)
(* SqliteCache implements this module.                                     *)
(***************************************************************************)
EXTENDS Naturals

CONSTANTS Clients,   \* callers of the cache
          Keys, Values,
          NoRow,     \* "no entry for this key"
          NoValue,   \* Python's None, the answer to a miss
          Ttl, Swr   \* [Keys -> Nat]: the two lifetimes of the entries of a key

NoAnswer == [val |-> NoValue, refresh |-> FALSE]

VARIABLES store,    \* the live entry of each key, or NoRow
          clock,
          reading,  \* the read a client has begun: "none", "get" or "get_swr"
          looked,   \* the entry that read found, as long as it is alive
          answer    \* what the client's last read answered

vars == <<store, clock, reading, looked, answer>>

-----------------------------------------------------------------------------
Fresh(row, n) == n < row.at + row.ttl
Alive(row, n) == n < row.at + row.ttl + row.swr

\* What is left of a row at time n: itself while it may still be served.
Living(row, n) == IF row # NoRow /\ Alive(row, n) THEN row ELSE NoRow

\* The answer to a read of kind op that found row and is given at time n.
Answer(op, row, n) ==
  IF row # NoRow /\ Fresh(row, n)
    THEN [val |-> row.val, refresh |-> FALSE]
  ELSE IF row # NoRow /\ Alive(row, n) /\ op = "get_swr"
    THEN [val |-> row.val, refresh |-> TRUE]
  ELSE [val |-> NoValue, refresh |-> TRUE]

-----------------------------------------------------------------------------
Init ==
  /\ store = [k \in Keys |-> NoRow]
  /\ clock = 0
  /\ reading = [c \in Clients |-> "none"]
  /\ looked = [c \in Clients |-> NoRow]
  /\ answer = [c \in Clients |-> NoAnswer]

\* A write takes effect.  It carries the time at which it was asked for, so
\* a write that took too long to land may land dead.
Put(k, v, asked) ==
  /\ store' = [store EXCEPT ![k] =
       Living([val |-> v, at |-> asked, ttl |-> Ttl[k], swr |-> Swr[k]], clock)]
  /\ UNCHANGED <<clock, reading, looked, answer>>

\* A client has dealt with its last answer.
Forget(c) ==
  /\ reading[c] = "none"
  /\ answer' = [answer EXCEPT ![c] = NoAnswer]
  /\ UNCHANGED <<store, clock, reading, looked>>

Look(c, k, op) ==
  /\ reading[c] = "none"
  /\ reading' = [reading EXCEPT ![c] = op]
  /\ looked' = [looked EXCEPT ![c] = store[k]]
  /\ answer' = [answer EXCEPT ![c] = NoAnswer]
  /\ UNCHANGED <<store, clock>>

Reply(c) ==
  /\ reading[c] # "none"
  /\ answer' = [answer EXCEPT ![c] = Answer(reading[c], looked[c], clock)]
  /\ reading' = [reading EXCEPT ![c] = "none"]
  /\ looked' = [looked EXCEPT ![c] = NoRow]
  /\ UNCHANGED <<store, clock>>

Clear ==
  /\ store' = [k \in Keys |-> NoRow]
  /\ UNCHANGED <<clock, reading, looked, answer>>

Tick ==
  /\ clock' = clock + 1
  /\ store' = [k \in Keys |-> Living(store[k], clock + 1)]
  /\ looked' = [c \in Clients |-> Living(looked[c], clock + 1)]
  /\ UNCHANGED <<reading, answer>>

\* The process is restarted: pending reads are gone, the entries are kept,
\* or all lost if the file was found corrupt.
Restart ==
  /\ store' \in {store, [k \in Keys |-> NoRow]}
  /\ reading' = [c \in Clients |-> "none"]
  /\ looked' = [c \in Clients |-> NoRow]
  /\ answer' = [c \in Clients |-> NoAnswer]
  /\ UNCHANGED clock

Next ==
  \/ \E k \in Keys, v \in Values, asked \in 0..clock : Put(k, v, asked)
  \/ \E c \in Clients : Forget(c) \/ Reply(c)
  \/ \E c \in Clients, k \in Keys, op \in {"get", "get_swr"} : Look(c, k, op)
  \/ Clear
  \/ Tick
  \/ Restart

Spec == Init /\ [][Next]_vars
=============================================================================
