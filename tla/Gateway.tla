------------------------------ MODULE Gateway -------------------------------
(***************************************************************************)
(* The requests of the repeater (ServeHTTP in repeater/repeater.go) over   *)
(* its statistics: a request takes an identifier from util/uuid, is        *)
(* checked, forwarded to a backend and counted.  The identifier is made in *)
(* a buffer that all requests share: the counter is atomic, writing the    *)
(* buffer and reading it are two more steps, each of one machine word (the *)
(* compiler merges the byte accesses of encoding/binary on amd64).         *)
(***************************************************************************)
EXTENDS Stats, FiniteSets

CONSTANTS Requests,   \* requests, each made once
          EntryOf,    \* the application and interface of a request, or
          NoEntry,    \* nothing: its token or its path is not known
          Modulus     \* 2^32: the counter is an uint32

ASSUME GatewayAssumption ==
    /\ NoEntry \notin Entries
    /\ EntryOf \in [Requests -> Entries \cup {NoEntry}]
    /\ IsFiniteSet(Requests)
    /\ Modulus \in Nat /\ Modulus > Cardinality(Requests)

VARIABLES inc,        \* uuid.inc
          buf,        \* the low half of uuid.buf
          at,         \* where a request is in ServeHTTP
          num,        \* what AddUint32 returned to it
          id,         \* its identifier
          answer,     \* what DoRequest returned to it: an error, 200 or another status
          before      \* history: the requests that were answered when it came

uuidVars == <<inc, buf, num, id>>
requestVars == <<uuidVars, at, answer, before>>
gatewayVars == <<vars, requestVars>>

Numbers == 0..(Modulus - 1)

GatewayTypeOK ==
    /\ inc \in Numbers /\ buf \in Numbers
    /\ at \in [Requests -> {"idle", "put", "get", "check", "call", "count", "reply", "done", "gone"}]
    /\ num \in [Requests -> Numbers]
    /\ id \in [Requests -> Numbers]
    /\ answer \in [Requests -> {"none", "error", "status", "ok"}]
    /\ before \in [Requests -> SUBSET Requests]

GatewayInit ==
    /\ Init
    /\ inc = 0 /\ buf = 0
    /\ at = [r \in Requests |-> "idle"]
    /\ num = [r \in Requests |-> 0]
    /\ id = [r \in Requests |-> 0]
    /\ answer = [r \in Requests |-> "none"]
    /\ before = [r \in Requests |-> {}]

Goto(r, l) == at' = [at EXCEPT ![r] = l]

\* Mutant of AddUint32: the sum is not written back.
AddUint32Lost(r) ==
    /\ at[r] = "idle"
    /\ num' = [num EXCEPT ![r] = (inc + 1) % Modulus]
    /\ before' = [before EXCEPT ![r] = {q \in Requests : at[q] = "done"}]
    /\ Goto(r, "put")
    /\ UNCHANGED <<vars, inc, buf, id, answer>>

\* uuid.String, evaluated by ServeHTTP: atomic.AddUint32 ...
AddUint32(r) ==
    /\ at[r] = "idle"
    /\ inc' = (inc + 1) % Modulus
    /\ num' = [num EXCEPT ![r] = inc']
    /\ before' = [before EXCEPT ![r] = {q \in Requests : at[q] = "done"}]
    /\ Goto(r, "put")
    /\ UNCHANGED <<vars, buf, id, answer>>

\* Mutant of PutUint32: it writes both halves of the buffer.
PutUint32Both(r) ==
    /\ at[r] = "put"
    /\ buf' = num[r] * Modulus + num[r]
    /\ Goto(r, "get")
    /\ UNCHANGED <<vars, inc, num, id, answer, before>>

\* ... PutUint32 ...
PutUint32(r) ==
    /\ at[r] = "put"
    /\ buf' = num[r]
    /\ Goto(r, "get")
    /\ UNCHANGED <<vars, inc, num, id, answer, before>>

\* ... and Uint64 reads what is there.
Uint64(r) ==
    /\ at[r] = "get"
    /\ id' = [id EXCEPT ![r] = buf]
    /\ Goto(r, "check")
    /\ UNCHANGED <<vars, inc, buf, num, answer, before>>

\* The body is read, GetInterface finds application and interface and checks the
\* method and the relation, Validate the variables, and buildRequest chooses a
\* node: the first that fails answers the request (500, 403, 400, 500), which is
\* then not counted.  They change nothing that requests or statistics share.
Prepare(r) ==
    /\ at[r] = "check"
    /\ \/ EntryOf[r] # NoEntry /\ Goto(r, "call")
       \/ Goto(r, "done")
    /\ UNCHANGED <<vars, uuidVars, answer, before>>

\* The backend is asked; meanwhile other requests go on.
DoRequest(r) ==
    /\ at[r] = "call"
    /\ \E a \in {"error", "status", "ok"} : answer' = [answer EXCEPT ![r] = a]
    /\ Goto(r, "count")
    /\ UNCHANGED <<vars, uuidVars, before>>

\* Mutant of Count: without its return an error goes on with the status 0.
CountNoReturn(r) ==
    /\ at[r] = "count"
    /\ IF answer[r] = "ok" THEN success(EntryOf[r]) ELSE failed
    /\ answer' = [answer EXCEPT ![r] = IF @ = "error" THEN "status" ELSE @]
    /\ Goto(r, IF answer[r] = "error" THEN "count" ELSE "reply")
    /\ UNCHANGED <<uuidVars, before>>

\* The call is counted; after an error SendResponse answers the request.
Count(r) ==
    /\ at[r] = "count"
    /\ IF answer[r] = "ok" THEN success(EntryOf[r]) ELSE failed
    /\ Goto(r, IF answer[r] = "error" THEN "done" ELSE "reply")
    /\ UNCHANGED <<uuidVars, answer, before>>

\* The status and the body of the backend are passed on.
Reply(r) ==
    /\ at[r] = "reply"
    /\ Goto(r, "done")
    /\ UNCHANGED <<vars, uuidVars, answer, before>>

\* The process dies with its requests and its counter.  The answer of a request
\* that has been counted stays as history.
GatewayRestart ==
    /\ Restart
    /\ inc' = 0 /\ buf' = 0
    /\ at' = [r \in Requests |-> IF at[r] = "idle" THEN "idle" ELSE "gone"]
    /\ answer' = [r \in Requests |-> IF at[r] = "count" THEN "none" ELSE answer[r]]
    /\ UNCHANGED <<num, id, before>>

ServeHTTP(r) ==
    \/ AddUint32(r) \/ PutUint32(r) \/ Uint64(r)
    \/ Prepare(r)
    \/ DoRequest(r) \/ Count(r) \/ Reply(r)

GatewayNext ==
    \/ \E r \in Requests : ServeHTTP(r)
    \/ run /\ UNCHANGED requestVars
    \/ GatewayRestart

GatewaySpec == GatewayInit /\ [][GatewayNext]_gatewayVars
GatewayFair == GatewaySpec /\ WF_gatewayVars(run /\ UNCHANGED requestVars)

-----------------------------------------------------------------------------

HasID(r) == at[r] \in {"check", "call", "count", "reply", "done"}

(***************************************************************************)
(* uuid.String is to name the session of a request in the logs and in the  *)
(* table of errors.  Requests in flight at the same time may get the same  *)
(* name, because they share the buffer; a request that came after another  *)
(* was answered never does, whichever third one writes the buffer between. *)
(***************************************************************************)
LaterRequestsDiffer ==
    \A r \in Requests : HasID(r) => \A q \in before[r] : id[q] # id[r]

\* The requests that got one of the answers A from the backend and are counted.
Counted(A) == {r \in Requests : answer[r] \in A /\ at[r] # "count"}

(***************************************************************************)
(* ServeHTTP counts a request that was forwarded once: as a success of its *)
(* application and interface when the backend said 200, as a failure after *)
(* any other answer or none.  A request that is refused before, or that    *)
(* dies with the process between the answer and the count, is in neither.  *)
(***************************************************************************)
CountedOnce ==
    /\ \A e \in Entries : served[e] = Cardinality({r \in Counted({"ok"}) : EntryOf[r] = e})
    /\ failures = Cardinality(Counted({"error", "status"}))

=============================================================================
