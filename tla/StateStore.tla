------------------------------ MODULE StateStore -----------------------------
(***************************************************************************)
(* StateStoreImpl: the facts of the agents' state machines, kept in the    *)
(* long_term_memory table, with a map in memory in front of it and one     *)
(* Mutex around both.  Every operation suspends while the database works,  *)
(* so an operation is three steps here: taking the mutex, the database     *)
(* call, and the code after it that brings the map up to date.             *)
(*                                                                         *)
(* Callers run in viewModelScope and are cancelled with it.  A cancelled   *)
(* coroutine that waits for Room resumes with a CancellationException even *)
(* when the statement was executed: the finally of withLock frees the      *)
(* mutex, the code after the call does not run.                            *)
(*                                                                         *)
(* (The parts of the specification have names of their own: the theorems   *)
(* are proved beside those about a machine whose facts it keeps.)          *)
(***************************************************************************)
EXTENDS Naturals

CONSTANTS
    Callers, Agents, Keys, Values, NoFact,
    NoCaller    \* the mutex is free

ASSUME StoreAssumption ==
    /\ NoFact \notin Values
    /\ NoCaller \notin Callers

VARIABLES
    db,         \* db[a][k]: the row of agent a with category k
    keyToFact,  \* keyToFact[a][k]: the cached fact; NoFact when not cached
    mutex,      \* the caller that holds the mutex, or NoCaller
    pc,         \* pc[c]: "idle", "waiting" (for the mutex), "database", "after"
    req,        \* req[c]: the operation c is in
    row,        \* row[c]: what the database returned to c
    got,        \* got[c]: what c's last getFromMemory returned
    abandoned   \* the facts a cancelled operation left changed in the table
                \* and not in the map

storeVars == <<db, keyToFact, mutex, pc, req, row, got, abandoned>>

Fact == Values \cup {NoFact}

EmptyTable == [a \in Agents |-> [k \in Keys |-> NoFact]]

Request ==
    [op : {"save"}, agent : Agents, key : Keys, val : Values]
        \cup [op : {"get", "clearByKey", "clearState"}, agent : Agents,
              key : Keys, val : {NoFact}]

NoOperation == [op |-> "none"]

StoreTypeOK ==
    /\ db \in [Agents -> [Keys -> Fact]]
    /\ keyToFact \in [Agents -> [Keys -> Fact]]
    /\ mutex \in Callers \cup {NoCaller}
    /\ pc \in [Callers -> {"idle", "waiting", "database", "after"}]
    /\ req \in [Callers -> Request \cup {NoOperation}]
    /\ \A c \in Callers : pc[c] # "idle" => req[c] \in Request
    /\ row \in [Callers -> Fact]
    /\ got \in [Callers -> Fact]
    /\ abandoned \subseteq Agents \X Keys

StoreInit ==
    /\ db = EmptyTable
    /\ keyToFact = EmptyTable
    /\ mutex = NoCaller
    /\ pc = [c \in Callers |-> "idle"]
    /\ req = [c \in Callers |-> NoOperation]
    /\ row = [c \in Callers |-> NoFact]
    /\ got = [c \in Callers |-> NoFact]
    /\ abandoned = {}

-----------------------------------------------------------------------------
(* The table, after and before the statement of an operation.              *)
Cleared(table, r) ==
    IF r.op = "clearState"
      THEN [table EXCEPT ![r.agent] = [k \in Keys |-> NoFact]]
      ELSE [table EXCEPT ![r.agent] = [table[r.agent] EXCEPT ![r.key] = NoFact]]

Saved(table, r, v) ==
    [table EXCEPT ![r.agent] = [table[r.agent] EXCEPT ![r.key] = v]]

(* The operation of c is over, with a result or an exception.              *)
Finish(c) ==
    /\ pc' = [pc EXCEPT ![c] = "idle"]
    /\ req' = [req EXCEPT ![c] = NoOperation]
    /\ row' = [row EXCEPT ![c] = NoFact]

Call(c, r) ==
    /\ pc[c] = "idle"
    /\ pc' = [pc EXCEPT ![c] = "waiting"]
    /\ req' = [req EXCEPT ![c] = r]
    /\ UNCHANGED <<db, keyToFact, mutex, row, got, abandoned>>

(* mutex.withLock, and for a read the cached fact: nothing suspends then.  *)
Hit(c) == req[c].op = "get" /\ keyToFact[req[c].agent][req[c].key] # NoFact

(* Mutant of ReadCache: the cache is read without the mutex.               *)
ReadCacheUnlocked(c) ==
    /\ pc[c] = "waiting"
    /\ Hit(c)
    /\ got' = [got EXCEPT ![c] = keyToFact[req[c].agent][req[c].key]]
    /\ Finish(c)
    /\ UNCHANGED <<db, keyToFact, mutex, abandoned>>

ReadCache(c) ==
    /\ pc[c] = "waiting" /\ mutex = NoCaller
    /\ Hit(c)
    /\ got' = [got EXCEPT ![c] = keyToFact[req[c].agent][req[c].key]]
    /\ Finish(c)
    /\ UNCHANGED <<db, keyToFact, mutex, abandoned>>

(* Mutant of Acquire: nothing waits for the mutex.                         *)
AcquireUnlocked(c) ==
    /\ pc[c] = "waiting"
    /\ ~Hit(c)
    /\ pc' = [pc EXCEPT ![c] = "database"]
    /\ UNCHANGED <<db, keyToFact, mutex, req, row, got, abandoned>>

Acquire(c) ==
    /\ pc[c] = "waiting" /\ mutex = NoCaller
    /\ ~Hit(c)
    /\ mutex' = c
    /\ pc' = [pc EXCEPT ![c] = "database"]
    /\ UNCHANGED <<db, keyToFact, req, row, got, abandoned>>

(* upsertFact, getFact, deleteFact or deleteFacts is executed.             *)
Execute(c) ==
    LET r == req[c] IN
    /\ pc[c] = "database"
    /\ \/ /\ r.op = "save"
          /\ db' = Saved(db, r, r.val)
          /\ UNCHANGED row
       \/ /\ r.op = "get"
          /\ row' = [row EXCEPT ![c] = db[r.agent][r.key]]
          /\ UNCHANGED db
       \/ /\ r.op \in {"clearByKey", "clearState"}
          /\ db' = Cleared(db, r)
          /\ UNCHANGED row
    /\ pc' = [pc EXCEPT ![c] = "after"]
    /\ UNCHANGED <<keyToFact, mutex, req, got, abandoned>>

(* Caller c has changed the row of (a, k) and not yet the cached fact.     *)
Updating(c, a, k) ==
    /\ pc[c] = "after"
    /\ req[c].op # "get"
    /\ req[c].agent = a
    /\ req[c].op = "clearState" \/ req[c].key = k

Halfway(c) == {x \in Agents \X Keys : Updating(c, x[1], x[2])}

(* The code after the database call, and the end of withLock.              *)
Return(c) ==
    LET r == req[c] IN
    /\ pc[c] = "after"
    /\ \/ /\ r.op = "save"
          /\ keyToFact' = Saved(keyToFact, r, r.val)
          /\ UNCHANGED got
       \/ /\ r.op = "get"
          /\ keyToFact' = IF row[c] = NoFact THEN keyToFact
                                             ELSE Saved(keyToFact, r, row[c])
          /\ got' = [got EXCEPT ![c] = row[c]]
       \/ /\ r.op \in {"clearByKey", "clearState"}
          /\ keyToFact' = Cleared(keyToFact, r)
          /\ UNCHANGED got
    /\ mutex' = NoCaller
    /\ abandoned' = abandoned \ Halfway(c)
    /\ Finish(c)
    /\ UNCHANGED db

(* Mutant of DatabaseFails: lock() and unlock() in place of withLock.      *)
DatabaseFailsLocked(c) ==
    /\ pc[c] = "database"
    /\ Finish(c)
    /\ UNCHANGED <<db, keyToFact, mutex, got, abandoned>>

(* The database throws: withLock releases the mutex, nothing was written.  *)
DatabaseFails(c) ==
    /\ pc[c] = "database"
    /\ mutex' = NoCaller
    /\ Finish(c)
    /\ UNCHANGED <<db, keyToFact, got, abandoned>>

(* The scope of the caller is cancelled, before or after the statement.    *)
Cancel(c) ==
    /\ pc[c] # "idle"
    /\ mutex' = IF mutex = c THEN NoCaller ELSE mutex
    /\ abandoned' = abandoned \cup Halfway(c)
    /\ Finish(c)
    /\ UNCHANGED <<db, keyToFact, got>>

(* The process dies and is started again: only the table is left.          *)
Restart ==
    /\ keyToFact' = EmptyTable
    /\ mutex' = NoCaller
    /\ pc' = [c \in Callers |-> "idle"]
    /\ req' = [c \in Callers |-> NoOperation]
    /\ row' = [c \in Callers |-> NoFact]
    /\ got' = [c \in Callers |-> NoFact]
    /\ abandoned' = {}
    /\ UNCHANGED db

StoreStep(c) ==
    \/ ReadCache(c) \/ Acquire(c) \/ Execute(c) \/ Return(c)
    \/ DatabaseFails(c) \/ Cancel(c)

StoreNext ==
    \/ \E c \in Callers : \/ \E r \in Request : Call(c, r)
                          \/ StoreStep(c)
    \/ Restart

(* An operation that was started goes on: Mutex serves its waiters in turn *)
(* and Room completes every statement.                                     *)
StoreFairness ==
    \A c \in Callers :
        /\ SF_storeVars(ReadCache(c) \/ Acquire(c))
        /\ WF_storeVars(Execute(c) \/ DatabaseFails(c))
        /\ WF_storeVars(Return(c))

StoreSpec == StoreInit /\ [][StoreNext]_storeVars

FairStoreSpec == StoreSpec /\ StoreFairness

-----------------------------------------------------------------------------
(* The mutex: exactly its holder is past the lock (withLock around every   *)
(* operation, released on every way out).                                  *)
MutexHeld ==
    \A c \in Callers : (pc[c] \in {"database", "after"}) <=> (mutex = c)

(* A fact that is cached is the fact in the table, except while the one    *)
(* operation that holds the mutex is between the two, and where a          *)
(* cancelled operation stood there: until the fact is saved or cleared     *)
(* again, or the process starts again (saveToMemory, getFromMemory,        *)
(* clearByKey, clearState of StateStoreImpl).                              *)
Coherent ==
    \A a \in Agents, k \in Keys :
        \/ keyToFact[a][k] \in {NoFact, db[a][k]}
        \/ \E c \in Callers : Updating(c, a, k)
        \/ <<a, k>> \in abandoned

(* Every operation that was called comes to an end: the mutex is handed    *)
(* back on every path, so nobody waits for it for ever.                    *)
OperationsEnd == \A c \in Callers : (pc[c] # "idle") ~> (pc[c] = "idle")

(* The store implements the map of facts: a save or a clear takes effect   *)
(* when its statement is executed, a read when it returns, in every step   *)
(* but those where a cancelled operation has left a fact halfway.          *)
Map == INSTANCE FactStore WITH facts <- db

ImplementsMap == Map!Init /\ [][abandoned = {} => [Map!Next]_<<db, got>>]_storeVars
=============================================================================
