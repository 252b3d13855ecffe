------------------------------ MODULE DBCache -------------------------------
(***************************************************************************)
(* The database connection of the repeater, dbCache in repeater/cache.go:  *)
(* one connection and its prepared statements, shared by the requests and  *)
(* the statistics.  A call retries at most maxRetry times under the lock   *)
(* and reconnects on the way.  queryDB and executeDB are given a statement *)
(* that the caller read before it had the lock; dbQuery reads it under the *)
(* lock.  A call uses one of the seven statements: the model follows one,  *)
(* and names it after the connection it was prepared on.                   *)
(*                                                                         *)
(* A panic ends the call of a request, where ServeHTTP recovers it.  In    *)
(* the goroutine of stats.run nobody does: the process ends.               *)
(***************************************************************************)
EXTENDS Integers, FiniteSets

CONSTANTS Clients,    \* goroutines that use the database
          Run,        \* the one of stats.run; the others are requests
          Conns,      \* connections that something may still refer to
          maxRetry,
          Nil

ASSUME RetryAssumption == maxRetry \in Nat /\ maxRetry >= 2
ASSUME ClientsAssumption == IsFiniteSet(Clients) /\ Nil \notin Clients /\ Run \in Clients
ASSUME ConnsAssumption == Nil \notin Conns /\ Cardinality(Conns) > 2 + Cardinality(Clients)

VARIABLES up,         \* the database answers
          dbc,        \* dbCache.dbc
          stmt,       \* the connection a prepared statement is of
          closed,     \* connections whose statement was closed
          lock,       \* the goroutine that has the lock, or Nil
          at,         \* where the call of a goroutine is
          kind,       \* what it calls
          captured,   \* queryDB, executeDB: the statement it was given
          tries,      \* retries so far
          failed,     \* the err of the last try
          res,        \* how its last call ended
          steady      \* history: the database answered all the time since the call
                      \* began, and no closeAll was due then

callVars == <<kind, captured, tries, failed, res, steady>>
dbVars == <<up, dbc, stmt, closed, lock, at, callVars>>

DBTypeOK ==
    /\ up \in BOOLEAN
    /\ dbc \in Conns \cup {Nil}
    /\ stmt \in Conns \cup {Nil}
    /\ closed \subseteq Conns
    /\ lock \in Clients \cup {Nil}
    /\ at \in [Clients -> {"idle", "wait", "loop", "connect", "prepare", "close", "dead"}]
    /\ kind \in [Clients -> {"dbQuery", "queryDB", "insertStats", "insertErrorStats"}]
    /\ captured \in [Clients -> Conns \cup {Nil}]
    /\ tries \in [Clients -> 0..maxRetry]
    /\ failed \in [Clients -> BOOLEAN]
    /\ res \in [Clients -> {"none", "ok", "error", "panic"}]
    /\ steady \in [Clients -> BOOLEAN]

\* Init of the repeater ends with an error unless conectDB succeeds.
DBInit ==
    /\ up = TRUE
    /\ dbc = CHOOSE g \in Conns : TRUE
    /\ stmt = dbc
    /\ closed = {}
    /\ lock = Nil
    /\ at = [c \in Clients |-> "idle"]
    /\ kind = [c \in Clients |-> "dbQuery"]
    /\ captured = [c \in Clients |-> Nil]
    /\ tries = [c \in Clients |-> 0]
    /\ failed = [c \in Clients |-> FALSE]
    /\ res = [c \in Clients |-> "none"]
    /\ steady = [c \in Clients |-> FALSE]

Usable(s) == s # Nil /\ s \notin closed

\* The database stops answering, and answers again.
Down ==
    /\ up
    /\ up' = FALSE
    /\ steady' = [c \in Clients |-> FALSE]
    /\ UNCHANGED <<dbc, stmt, closed, lock, at, kind, captured, tries, failed, res>>

Up ==
    /\ ~up
    /\ up' = TRUE
    /\ UNCHANGED <<dbc, stmt, closed, lock, at, callVars>>

Begin(c, k, s) ==
    /\ at[c] = "idle"
    /\ at' = [at EXCEPT ![c] = "wait"]
    /\ kind' = [kind EXCEPT ![c] = k]
    /\ captured' = [captured EXCEPT ![c] = s]
    /\ tries' = [tries EXCEPT ![c] = 0]
    /\ failed' = [failed EXCEPT ![c] = FALSE]
    /\ res' = [res EXCEPT ![c] = "none"]
    /\ UNCHANGED <<up, dbc, stmt, closed, lock>>

\* The caller evaluates dc.selApp, dc.instStats, ... and calls queryDB or executeDB.
CallStmt(c, k) ==
    /\ k \in IF c = Run THEN {"insertStats", "insertErrorStats"} ELSE {"queryDB"}
    /\ Begin(c, k, stmt)
    /\ steady' = [steady EXCEPT ![c] = up /\ Usable(stmt) /\ \A d \in Clients : at[d] # "close"]

\* getVariable calls dbQuery with a closure.
CallClosure(c) ==
    /\ c # Run
    /\ Begin(c, "dbQuery", Nil)
    /\ steady' = [steady EXCEPT ![c] = up]

Lock(c) ==
    /\ at[c] = "wait"
    /\ lock = Nil
    /\ lock' = c
    /\ at' = [at EXCEPT ![c] = "loop"]
    /\ UNCHANGED <<up, dbc, stmt, closed, callVars>>

\* The call ends, and the deferred Unlock runs, on a panic too.
End(c, how) ==
    /\ lock' = Nil
    /\ at' = [at EXCEPT ![c] = "idle"]
    /\ res' = [res EXCEPT ![c] = how]
    /\ UNCHANGED <<up, dbc, stmt, closed, kind, captured, tries, failed, steady>>

Dies ==
    /\ dbc' = Nil /\ stmt' = Nil /\ closed' = {}
    /\ lock' = Nil
    /\ at' = [c \in Clients |-> "dead"]
    /\ captured' = [c \in Clients |-> Nil]
    /\ res' = [c \in Clients |-> "none"]
    /\ steady' = [c \in Clients |-> FALSE]
    /\ UNCHANGED <<up, kind, tries, failed>>

Panic(c) == IF c = Run THEN Dies ELSE End(c, "panic")

\* Somebody starts the repeater again, and Init connects.
Restart ==
    /\ \A c \in Clients : at[c] = "dead"
    /\ up
    /\ dbc' = CHOOSE g \in Conns : TRUE
    /\ stmt' = dbc'
    /\ at' = [c \in Clients |-> "idle"]
    /\ UNCHANGED <<up, closed, lock, callVars>>

\* The next iteration of the retry loop, with err set or not.
Again(c, err) ==
    /\ at' = [at EXCEPT ![c] = "loop"]
    /\ tries' = [tries EXCEPT ![c] = @ + 1]
    /\ failed' = [failed EXCEPT ![c] = err]
    /\ UNCHANGED <<up, lock, kind, captured, res, steady>>

\* dbQuery reads its statement under the lock.
Given(c) == IF kind[c] = "dbQuery" THEN stmt ELSE captured[c]

\* insertErrorStats has four arguments for the five placeholders of its statement.
Succeeds(c) == Usable(Given(c)) /\ up /\ kind[c] # "insertErrorStats"

Connect(c) ==
    /\ at' = [at EXCEPT ![c] = "connect"]
    /\ UNCHANGED <<up, dbc, stmt, closed, lock, callVars>>

\* Mutant of Call: one try too many.
CallOnceMore(c) ==
    /\ at[c] = "loop"
    /\ tries[c] <= maxRetry
    /\ dbc # Nil
    /\ Given(c) # Nil
    /\ IF Succeeds(c) THEN End(c, "ok") ELSE Again(c, TRUE) /\ UNCHANGED <<dbc, stmt, closed>>

\* Query and Exec: a nil statement panics, a closed one returns an error, which
\* makes dbQuery reconnect.
Call(c) ==
    /\ at[c] = "loop"
    /\ tries[c] < maxRetry
    /\ dbc # Nil
    /\ \/ Given(c) = Nil /\ Panic(c)
       \/ Succeeds(c) /\ End(c, "ok")
       \/ /\ Given(c) # Nil /\ ~Succeeds(c) /\ kind[c] # "dbQuery"
          /\ Again(c, TRUE)
          /\ UNCHANGED <<dbc, stmt, closed>>
       \/ Given(c) # Nil /\ ~Succeeds(c) /\ kind[c] = "dbQuery" /\ Connect(c)

\* Mutant of NotConnected: queryDB and executeDB do not reconnect.
NotConnectedFails(c) ==
    /\ at[c] = "loop"
    /\ tries[c] < maxRetry
    /\ dbc = Nil
    /\ IF kind[c] # "dbQuery" THEN Again(c, TRUE) /\ UNCHANGED <<dbc, stmt, closed>> ELSE Connect(c)

NotConnected(c) ==
    /\ at[c] = "loop"
    /\ tries[c] < maxRetry
    /\ dbc = Nil
    /\ Connect(c)

\* Mutant of GiveUp: the lock is not released.
GiveUpLocked(c) ==
    /\ at[c] = "loop"
    /\ tries[c] = maxRetry
    /\ at' = [at EXCEPT ![c] = "idle"]
    /\ res' = [res EXCEPT ![c] = "error"]
    /\ UNCHANGED <<up, dbc, stmt, closed, lock, kind, captured, tries, failed, steady>>

\* After the loop: without an error and without a result, the caller
\* dereferences nil.
GiveUp(c) ==
    /\ at[c] = "loop"
    /\ tries[c] = maxRetry
    /\ IF failed[c] THEN End(c, "error") ELSE Panic(c)

\* A new connection: one that nothing refers to any more.
Fresh == CHOOSE g \in Conns : g \notin {dbc, stmt} \cup {captured[d] : d \in Clients}

\* Mutant of GetConnection: the old statements are closed first.
GetConnectionCloses(c) ==
    /\ at[c] = "connect"
    /\ up
    /\ dbc' = Fresh
    /\ closed' = (closed \cup ({stmt} \ {Nil})) \ {Fresh}
    /\ at' = [at EXCEPT ![c] = "prepare"]
    /\ UNCHANGED <<up, stmt, lock, callVars>>

\* conectDB overwrites the connection, which stays open ...
GetConnection(c) ==
    /\ at[c] = "connect"
    /\ up
    /\ dbc' = Fresh
    /\ closed' = closed \ {Fresh}
    /\ at' = [at EXCEPT ![c] = "prepare"]
    /\ UNCHANGED <<up, stmt, lock, callVars>>

\* ... with nil when it fails; the deferred closeAll is a step of its own.
GetConnectionFail(c) ==
    /\ at[c] = "connect"
    /\ ~up
    /\ dbc' = Nil
    /\ at' = [at EXCEPT ![c] = "close"]
    /\ UNCHANGED <<up, stmt, closed, lock, callVars>>

\* The statement is replaced; the old one stays open ...
Prepare(c) ==
    /\ at[c] = "prepare"
    /\ up
    /\ stmt # dbc
    /\ stmt' = dbc
    /\ UNCHANGED <<up, dbc, closed, lock, at, callVars>>

\* ... and the other six are, before or after it.
Prepared(c) ==
    /\ at[c] = "prepare"
    /\ up
    /\ stmt = dbc
    /\ Again(c, FALSE)
    /\ UNCHANGED <<dbc, stmt, closed>>

\* Mutant of PrepareFail: no closeAll.
PrepareFailKeeps(c) ==
    /\ at[c] = "prepare"
    /\ ~up
    /\ stmt' \in {stmt} \cup (IF stmt = dbc THEN {} ELSE {Nil})
    /\ Again(c, TRUE)
    /\ UNCHANGED <<dbc, closed>>

\* A Prepare fails: that of the statement, which is nil then, or of another.
PrepareFail(c) ==
    /\ at[c] = "prepare"
    /\ ~up
    /\ stmt' \in {stmt} \cup (IF stmt = dbc THEN {} ELSE {Nil})
    /\ at' = [at EXCEPT ![c] = "close"]
    /\ UNCHANGED <<up, dbc, closed, lock, callVars>>

\* closeAll, deferred by conectDB: the database may be back by now, and callers
\* may have read the statement.
closeAll(c) ==
    /\ at[c] = "close"
    /\ closed' = closed \cup ({dbc, stmt} \ {Nil})
    /\ dbc' = Nil
    /\ stmt' = Nil
    /\ Again(c, TRUE)

conectDB(c) ==
    \/ GetConnection(c) \/ GetConnectionFail(c)
    \/ Prepare(c) \/ Prepared(c) \/ PrepareFail(c)
    \/ closeAll(c)

DBNext ==
    \/ Down
    \/ Up
    \/ Restart
    \/ \E c \in Clients :
          \/ \E k \in {"queryDB", "insertStats", "insertErrorStats"} : CallStmt(c, k)
          \/ CallClosure(c)
          \/ Lock(c)
          \/ Call(c)
          \/ NotConnected(c)
          \/ GiveUp(c)
          \/ conectDB(c)

DBSpec == DBInit /\ [][DBNext]_dbVars

\* A call that has the lock goes on, whether the database answers or not, and
\* a goroutine that waits for a sync.Mutex gets it.
Fairness ==
    \A c \in Clients :
       /\ SF_dbVars(Lock(c))
       /\ WF_dbVars(Call(c) \/ NotConnected(c) \/ GiveUp(c) \/ conectDB(c))

FairSpec == DBSpec /\ Fairness

-----------------------------------------------------------------------------

(***************************************************************************)
(* Whenever nobody has the lock, there is a connection and its statements  *)
(* are prepared on it, or there is neither: conectDB does not leave a part *)
(* of them behind, whichever of its steps fails.                           *)
(***************************************************************************)
Coherent == lock = Nil => stmt = dbc /\ stmt \notin closed

(***************************************************************************)
(* A call succeeds if the database answered all the time since its caller  *)
(* read a usable statement, even when others reconnect in between, unless  *)
(* a conectDB that had failed before still had to close the statements: a  *)
(* reconnect replaces them and does not close them.  insertErrorStats,     *)
(* whose arguments are not those of its statement, always fails.           *)
(***************************************************************************)
SteadyCallsSucceed ==
    \A c \in Clients : steady[c] /\ kind[c] # "insertErrorStats" => res[c] \in {"none", "ok"}

(***************************************************************************)
(* Every call returns, with or without the database, and gives the lock    *)
(* up, or the process ends with a panic of stats.run.                      *)
(***************************************************************************)
CallsReturn == \A c \in Clients : at[c] # "idle" ~> at[c] \in {"idle", "dead"}

(***************************************************************************)
(* Once the database answers for good, the process dies finitely often,    *)
(* and only finitely many calls fail, those of insertErrorStats left out:  *)
(* the statements that were nil or closed are not used for ever.           *)
(***************************************************************************)
Recovers ==
    <>[]up =>
       <>[][\A c \in Clients :
              /\ at'[c] # "dead" \/ at[c] = "dead"
              /\ \/ res'[c] \in {"none", "ok"} \/ res'[c] = res[c]
                 \/ res'[c] = "error" /\ kind[c] = "insertErrorStats"]_dbVars

=============================================================================
