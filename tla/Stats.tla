------------------------------- MODULE Stats --------------------------------
(***************************************************************************)
(* The statistics of the repeater, repeater/stats.go: requests count their *)
(* calls in memory, and run moves what has been counted to the database    *)
(* once per period.  Entries that it cannot insert are only logged.        *)
(***************************************************************************)
EXTENDS Naturals, Sequences

CONSTANTS Entries,    \* pairs of an application and an interface
          MaxCalls,   \* bound on the calls counted per entry, and on the errors
          maxRetry,   \* how often executeDB tries an insert
          MayDie      \* whether the process may die

ASSUME StatsAssumption ==
    MaxCalls \in Nat /\ maxRetry \in Nat \ {0} /\ MayDie \in BOOLEAN

VARIABLES served,     \* calls served per entry
          ies,        \* statsCache.ies: the count of an entry, 0 when it has none
          batch,      \* what entrys returned and run has not inserted yet
          stored,     \* the count of an entry in table stats
          again,      \* counted there again: an insert that was repeated
          lost,       \* counts that were drained and not inserted, or died with the process
          pc,         \* where run is
          failures,   \* calls that failed
          ees,        \* number of statsCache.ees
          errors,     \* number of what errorEntrys returned
          errorRows   \* rows of table stats_error

countVars == <<served, ies, batch, stored, again, lost>>
errorVars == <<failures, ees, errors, errorRows>>
vars == <<pc, countVars, errorVars>>

None == [e \in Entries |-> 0]

TypeOK ==
    /\ {served, ies, batch, stored, again, lost} \subseteq [Entries -> Nat]
    /\ pc \in {"wait", "insert", "errors"}
    /\ {failures, ees, errors, errorRows} \subseteq Nat

Init ==
    /\ served = None /\ ies = None /\ batch = None
    /\ stored = None /\ again = None /\ lost = None
    /\ pc = "wait"
    /\ failures = 0 /\ ees = 0 /\ errors = 0 /\ errorRows = 0

\* ServeHTTP: a call that succeeded is merged with the others of its entry.
success(e) ==
    /\ served[e] < MaxCalls
    /\ served' = [served EXCEPT ![e] = @ + 1]
    /\ ies' = [ies EXCEPT ![e] = @ + 1]
    /\ UNCHANGED <<pc, batch, stored, again, lost, errorVars>>

failed ==
    /\ failures < MaxCalls
    /\ failures' = failures + 1
    /\ ees' = ees + 1
    /\ UNCHANGED <<pc, countVars, errors, errorRows>>

\* Mutant of entrys: the entries are read and not cleared.
entrysKeeps ==
    /\ pc = "wait"
    /\ pc' = "insert"
    /\ batch' = ies
    /\ UNCHANGED <<served, ies, stored, again, lost, errorVars>>

\* The ticker fires: run takes all entries.
entrys ==
    /\ pc = "wait"
    /\ pc' = "insert"
    /\ batch' = ies
    /\ ies' = None
    /\ UNCHANGED <<served, stored, again, lost, errorVars>>

\* insertStats adds the count to the row of the entry.  executeDB tries up to
\* maxRetry times and repeats what was stored when its answer is lost: the count
\* is added no time, once or several times, and run goes on in any case.
insertStats(e) ==
    /\ pc = "insert"
    /\ batch[e] > 0
    /\ batch' = [batch EXCEPT ![e] = 0]
    /\ \/ /\ lost' = [lost EXCEPT ![e] = @ + batch[e]]
          /\ UNCHANGED <<stored, again>>
       \/ \E repeats \in 0..(maxRetry - 1) :
             /\ stored' = [stored EXCEPT ![e] = @ + batch[e] + repeats * batch[e]]
             /\ again' = [again EXCEPT ![e] = @ + repeats * batch[e]]
             /\ UNCHANGED lost
    /\ UNCHANGED <<pc, served, ies, errorVars>>

errorEntrys ==
    /\ pc = "insert"
    /\ batch = None
    /\ pc' = "errors"
    /\ errors' = ees
    /\ ees' = 0
    /\ UNCHANGED <<countVars, failures, errorRows>>

\* The parameters of the prepared statement and the arguments it is given.
errorColumns == <<"session", "iface_id", "app_id", "info", "ctime">>
errorArgs == <<"session", "iface", "app", "info">>

\* Mutant of insertErrorStats: it does not stop at the last record.
insertErrorStatsNone ==
    /\ pc = "errors"
    /\ errors' = errors - 1
    /\ UNCHANGED <<pc, countVars, failures, ees, errorRows>>

\* Mutant of insertErrorStats: an insert that fails is repeated.
insertErrorStatsAgain ==
    /\ pc = "errors"
    /\ errors > 0
    /\ IF Len(errorArgs) = Len(errorColumns)
       THEN errors' = errors - 1 /\ errorRows' = errorRows + 1
       ELSE UNCHANGED <<errors, errorRows>>
    /\ UNCHANGED <<pc, countVars, failures, ees>>

\* An insert with the wrong number of arguments is an error.
insertErrorStats ==
    /\ pc = "errors"
    /\ errors > 0
    /\ errors' = errors - 1
    /\ errorRows' \in IF Len(errorArgs) = Len(errorColumns) THEN {errorRows, errorRows + 1} ELSE {errorRows}
    /\ UNCHANGED <<pc, countVars, failures, ees>>

runDone ==
    /\ pc = "errors"
    /\ errors = 0
    /\ pc' = "wait"
    /\ UNCHANGED <<countVars, errorVars>>

\* The process dies and is started again: what is in memory is gone.
Restart ==
    /\ MayDie
    /\ lost' = [e \in Entries |-> lost[e] + ies[e] + batch[e]]
    /\ ies' = None
    /\ batch' = None
    /\ pc' = "wait"
    /\ ees' = 0
    /\ errors' = 0
    /\ UNCHANGED <<served, stored, again, failures, errorRows>>

run ==
    \/ entrys
    \/ \E e \in Entries : insertStats(e)
    \/ errorEntrys
    \/ insertErrorStats
    \/ runDone

Next ==
    \/ \E e \in Entries : success(e)
    \/ failed
    \/ run
    \/ Restart

Spec == Init /\ [][Next]_vars

\* The loop of run never ends, and its ticker never stops.
FairSpec == Spec /\ WF_vars(run)

-----------------------------------------------------------------------------

(***************************************************************************)
(* Moving the counts loses none and makes none: a call that was counted is *)
(* in memory, in run's batch, in the table, or lost with an insert that    *)
(* failed or with the process, however requests interleave with the drain. *)
(* What the table has beyond that are inserts that executeDB repeated.     *)
(***************************************************************************)
Conserved ==
    \A e \in Entries : served[e] + again[e] = ies[e] + batch[e] + stored[e] + lost[e]

(***************************************************************************)
(* Every call that was served leaves the memory of the repeater: it        *)
(* reaches the table, or its insert was tried and failed.                  *)
(***************************************************************************)
Flushed ==
    \A e \in Entries, n \in 1..MaxCalls :
       served[e] >= n ~> stored[e] + lost[e] >= n + again[e]

=============================================================================
