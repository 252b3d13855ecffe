# A TLA+ verification of doodle

doodle is a function-as-a-service framework. Programs built with its `service` package register
themselves in etcd; the *repeater*, a gateway, follows etcd and forwards requests to them after it has
checked them against a database; the *distributor* compiles and installs new versions; the *manager* keeps
projects, interfaces and permissions, with the help of the *RBAC* service.

This directory holds TLA+ modules translated from the Go sources, TLC configurations that check them on
small instances, and proofs checked by TLAPS. `PROJECT.json` maps each definition to its source lines.

## The system and its parts

| part | source | state | modules |
|---|---|---|---|
| service processes | `service/service.go`, `service/keepalive.go`, `util/etcd/etcd.go` | listener, lease, key in etcd | `Registry` |
| backend table | `repeater/backend.go` | `apps`: name to list of nodes | `AppTable`, `Backend`, `BackendSlices` |
| discovery | `repeater/init.go`, `repeater/backend.go` | list, watch, pending events | `Discovery` |
| cache | crab `cache.go`, `repeater/cache.go` | `vars`, `ll`, the clock | `Cache` |
| database connection | `repeater/cache.go` | `dbc`, prepared statements, lock | `DBCache` |
| statistics | `repeater/stats.go` | `ies`, `ees`, the batch of `run` | `Stats` |
| request path | `repeater/repeater.go`, `util/uuid/uuid.go` | where a request is, its identifier | `Gateway` |
| deployment | `distributor/task.go`, `distributor.go`, `script/build.sh` | working directory, states, files | `Task` |
| watcher of the distributor | `distributor/watcher.go`, `init.go` | `services`: version and nodes | `Watcher` |
| interfaces and grants | `manager/interface.go`, `variable.go`, `relation.go` | tables `interface`, `variable`, `relation` | `Interfaces` |
| services, roles and resources | `manager/service.go`, `manager/role.go`, `rbac/*.go`, `util/rbac/rbac.go` | tables `service`, `role`, `resource`, `role_user`, `role_resource`; the object that serves `/role/user/` | `Manager` |
| sessions of the manager | `manager/session.go`, `manager/admin.go` | cache of users | not modelled |
| document, routing, utilities, configuration, web pages | rest | none after start | not modelled |

How they interact: `Discovery` and `Watcher` instantiate `Registry` (the processes whose keys the repeater and
the distributor follow); `Discovery` extends `AppTable` (the pure functions on the table). `BackendSlices`
implements `Backend`, and `Backend` uses the same pure functions of `AppTable`. `Gateway` extends `Stats` with
the requests that are counted. The other modules are independent components.

## Modules

**AppTable** has the table of the repeater as a function from names to sequences of addresses, and
`register` and `unregister` as operators on it.

**Backend** is the abstract specification: a table of values, and a request that is handed a copy of a list
and picks a node of it later. **BackendSlices** is what `backend.go` does: a Go slice is an array, a length
and a capacity; `append` writes in place when there is room, and `unregister` builds a new array. A request
holds a slice and reads it without the lock. `ImplementsTable` says that the slices implement the table
under the mapping that reads the arrays.

**Registry** has the processes (`pc`: where `Service.Start` is), their leases and the keys of etcd. A
process may die at any point. `Stop` ends the renewal but not the lease, so that the key lives on for a
while and another process may have taken the address by then. `Keepalive` (grant, put, renewal) is one step: a
put of a process that died meanwhile, arriving after the put of its successor, is not modelled.

**Discovery** adds the repeater: `List` and the watch are steps of two goroutines in any order. The history
variable `raced` collects the keys touched by one of three races the code has; `AgreesWithEtcd` is exact
about all others.

**Cache** has the clock, the map and the list of crab's cache, and the calls of several requests as steps:
read the clock, evict, look up, read the value, query, add. A value is represented by the second it was read
from the database. `Get` returns the value after it has released the lock, and `Add` writes it: the model
lets a reader see either value. Keys are distinct values: that the key made at `repeater/cache.go:235` may be
the same for different requests is not modelled.

**DBCache** has the connection and the statements prepared on it. A call captures its statement before it
has the lock (`queryDB`, `executeDB`) or reads it under the lock (`dbQuery`). The database may go away or come
back between any two steps. In a `conectDB` that fails, the error and the `closeAll` are two steps, between which the
database may be back and other goroutines capture statements that are about to be closed. `insertErrorStats` fails
always: its statement has five placeholders and gets four arguments. A panic ends the call of a request, which
`ServeHTTP` recovers, and the whole process in the goroutine of `stats.run`, where nobody does.

**Stats** counts calls in memory, in the batch that `run` drained, and in the database. The process may die
and be started again at any point (`Restart`). `insertStats` may store nothing, or store the count once or up to
`maxRetry` times, because `executeDB` repeats an insert whose answer was lost. **Gateway** has the requests of `ServeHTTP` over it: a request
takes an identifier, is checked and prepared or refused, forwarded and counted. `uuid.String` is three steps: the
atomic addition, the write into the buffer that all requests share, and the read of that buffer. Each access
is one machine word, as Go's compiler makes of `encoding/binary` on amd64; on a machine where it is byte by
byte more could be mixed. `Prepare` stands for everything between identifier and call, none of which changes
state that requests share.

**Task** has deployments in goroutines of one process with one working directory. Directories are named
after the task they belong to; `bin` and `tar` say whose build a file is. `Getwd` and the `Chdir` back may fail, and
the code ignores both errors: the history variable `stuck` says that a task could not go back.

**Watcher** is the distributor's view of etcd. Its table has one process per service and host, without
the port, while the keys of etcd have one: a DELETE of one key removes the process of another on the same host.
`raced` and `left` collect the places where this or a race of `load` and the watch has happened, and
`InstallStopsRegistered` is exact about all others.

**Manager** has the tables of the RBAC service and the manager's handlers that fill them, one SQL statement at a
time: no handler uses a transaction, and after any statement the request may fail. A user is an email. The
handlers of crab's HTTP server are methods of one object per path; `roleUser` decodes the request into that
object (`ru`), so the fields of overlapping requests mix, and a `role_id` that a request leaves out keeps the value
of an earlier request (role 0 of `RoleUserBegin`). The history field `met` says that two requests were in the
object together, and `cut` that a request removed the member, the grant or the resource that a service rests on.
Nobody looks whether the ids that a request names are those of rows, so requests name any; and an id may be given
again, as MySQL before version 8, which `docs/rbac.sql` comes from, does with the last one after a restart. A
member of role 0, which no query joins with a role, is left out.

**Interfaces** has the manager's tables `interface`, `variable` and `relation`. One SQL statement is one step,
because no handler uses a transaction. A report (`interfaceRegister.POST`) walks through `insert`, or `query`,
`update` and `clear` when the path is taken, then adds the variables one by one; it may fail after any
statement, and other reports and the users' edits come in between. The handler presets `State` to 1 and decodes the
body over it, so a report may bring state 0; `Bodies` are the pairs of version and state that reports bring. The
history variable `clean` says that no other statement has touched the interface since the report wrote its row;
`moved` collects the relations written by `relation.PUT`, which does not look at the interface; `withdrawn` the
interfaces that a report with state 0 was the last to publish or unpublish. Requests are taken at the handler's own
interface, with a service in `ServiceID`: the distributor of this repository sends `ProjectID`
(`distributor/watcher.go:107`) where the handler reads `ServiceID` (`manager/interface.go:412`), so its own
reports end at the query of the service. Two assumptions: MySQL gives out a number once (versions before 8
may reuse the last one after a restart of the server), and a page adds variables only to an interface it has
shown. A row of `variable` is a field and the version that describes it, 0 for a user.

The `MC*` modules instantiate these for TLC and define symmetries. The `*_proofs` modules hold the proofs.
Definitions whose comment begins with *Mutant* are wrong variants of the definition that follows; each is
used to confirm that a property would notice the mistake.

## Runs

| run | what it shows |
|---|---|
| `slices` | the list given to a request never changes under it; slices implement the table |
| `registry` | every key is on a lease of the process it names; the late end of a lease never removes a successor's key; however a process ends, its key leaves etcd |
| `discovery` | table and etcd agree outside three named races; without a race the table ends up with exactly the serving processes |
| `discovery_race` (violation) | a PUT between `List` and the watch is missed: a process that serves never enters the table |
| `cache` | hits are no older than `Timeout` plus the time of two calls; map and list agree |
| `dbcache` | connection and statements are coherent; a captured statement stays good while the database answers, unless a `closeAll` was due when it was captured; every call returns, or the process ends with a panic of `stats.run`; once the database is back for good, only finitely many calls fail, apart from those of `insertErrorStats`, which always do |
| `gateway` | a forwarded request is counted once, a refused one not at all; from then on the count is in memory, in the batch or in the table, over requests, drains and restarts, where inserts that failed or died with the process are taken out of the sum (`lost`) and repeated ones, which the table does count again, too (`again`); every counted call leaves the memory; a request never gets the identifier of one answered before it came |
| `watcher` | the process an install stops is one of that service on that host with its key in etcd; every version's document is asked for once; in the end the process to stop is one that serves |
| `task` | serial deployments are isolated and, also after an error, leave the process where it was started, unless `Getwd` or the `Chdir` back has failed; the outcome of `compile` is recorded right |
| `task_state` (violation) | a failed install is recorded as success |
| `manager` | a service never exists without the resource, the role and the grant of its creator unless somebody removed one, whatever ids requests name and MySQL gives again; a request to `/role/user/` that overlaps with no other is carried out with the user and the role that it names |
| `interfaces` | a report nobody interferes with has its effect when it is answered, whatever failed or overlapping reports had left; an interface that `relation.POST` has granted is published, gone, or unpublished by a report |

### Bounds

- `slices`: one name, three addresses, one request, three arrays of up to three elements: enough for append
  in place, growth, removal of the first, the last and the only element, and a request that holds an old
  array. (With one name less is lost than it seems: lists of different names share nothing.)
- `registry`: three processes, two names, two addresses: a process takes over the address of a dead one, of the
  same or of another service, while a third starts.
- `discovery`: two processes over two addresses, so that a key is deleted and put again by another process.
  `Registry` and `AppTable` are the same modules the other runs check on larger instances.
- `cache`: two keys, two requests, timeout 2, delay 1, five seconds. The bound `Timeout + 2 * Delay` is
  reached: TLC finds a violation of the same property with a bound that is smaller by one.
- `dbcache` (76,654 states): a request and `stats.run`, and three tries. `Conns` is a pool of names: a connection nobody refers to is used
  again, so no bound on reconnects is needed.
- `gateway` (872,471 states): three requests, two of one entry and one that is refused, two calls, two errors: a
  third request writes the buffer between the write and the read of another, and calls arrive while `run`
  inserts, which are tried twice. The modulus is the smallest that exceeds the number of requests.
- `watcher` (244,660 states): two processes of different versions, two hosts, two ports: both on one host
  under different ports, or one after the other on the same address.
- `task` (2,333,643 states): two deployments of the same project on two nodes; with different projects a task finds no file of
  its names in another's directory.
- `interfaces` (574,440 states): two reports, two versions of which the second has lost the field of the first and is
  reported with state 0, one application,
  two rows ever inserted, so that a path is deleted and inserted again under a new number while a report or a
  grant still holds the old one. With one path an edit never moves an interface to another path; two paths are
  too many states for TLC, and the theorem covers them.

- `manager` (2,875,035 states, about three minutes): two requests at a time, one user, two names, two ids
  of `role`, one of `resource`, one path: two requests create the same service, a role is deleted and created again
  under the same or another id,
  and the object of `/role/user/` holds one role while a request names the other or none. A second user or a
  second resource is too much for a run of a few minutes; the theorems cover them. A request whose email is mixed
  up is visible with one user, because a GET has none.

### Fairness

`Registry` assumes that etcd ends a lease nobody renews and that the calls of `Keepalive`, which have
timeouts, return. `Discovery` adds that both goroutines go on while they have something to do. `DBCache`
assumes that a call holding the lock goes on, and strong fairness of the lock: a `sync.Mutex` hands itself
to a waiter that has starved for a millisecond. `Gateway` assumes that the loop of `run` goes on; it assumes
nothing about requests. `Watcher` assumes the same as `Discovery`. `Manager` and `Interfaces` state safety only: a
client may always go away.

## Proofs

| theorem | statement |
|---|---|
| `BackendSlices_proofs!SlicesSafe`, `SlicesTyped` | `Spec => [](TypeOK /\ SliceInv)` |
| `BackendSlices_proofs!SlicesImplementTable` | `Spec => ImplementsTable` (refinement) |
| `Registry_proofs!RegistrySafe`, `RegistryKeysSafe`, `RegistryTyped` | `Spec => [](TypeOK /\ KeysAreLeased /\ RenewedIsRegistered)` |
| `Discovery_proofs!DiscoverySafe`, `DiscoveryTableSafe`, `DiscoveryTyped` | `Spec => [](TypeOK /\ TableOK /\ AgreesWithEtcd)` |
| `Cache_proofs!CacheSafe`, `CacheListSafe`, `CacheTyped` | `Spec => [](TypeOK /\ ListMatchesMap /\ HitsAreFresh)` |
| `Cache_proofs!DBCacheSafe`, `DBCacheTyped` | `DBSpec => [](DBTypeOK /\ Coherent)` |
| `Cache_proofs!SteadyCalls` | `DBSpec => []SteadyCallsSucceed` |
| `Requests_proofs!StatsSafe`, `StatsTyped` | `Spec => [](TypeOK /\ Conserved)`, `GatewaySpec => []TypeOK` |
| `Requests_proofs!GatewayConserves` | `GatewaySpec => []Conserved` |
| `Requests_proofs!RequestsCountedOnce` | `GatewaySpec => []CountedOnce` |
| `Requests_proofs!IdentifiersSafe`, `GatewayTyped` | `GatewaySpec => [](GatewayTypeOK /\ LaterRequestsDiffer)` |
| `Requests_proofs!DeploymentsSafe`, `DeploymentsTyped` | `TaskSpec => [](TaskTypeOK /\ SerialTasksAreIsolated)` |
| `Requests_proofs!CompilesRecorded` | `TaskSpec => []CompileIsRecorded` |
| `Watcher_proofs!WatcherSafe` | `Spec => []InstallStopsRegistered` |
| `Watcher_proofs!DocumentsAskedOnce`, `WatcherTyped` | `Spec => [](TypeOK /\ AskedOncePerVersion)` |
| `Interfaces_proofs!InterfacesSafe`, `InterfacesTyped` | `Spec => []ReportTakesEffect`, `Spec => []TypeOK` |
| `Interfaces_proofs!InterfacesGrantsSafe` | `Spec => []GrantsArePublished` |
| `Manager_proofs!ManagerTyped`, `ServicesSafe` | `Spec => []TypeOK`, `Spec => []ServicesAreOwned` |
| `Manager_proofs!ArgumentsSafe` | `Spec => OwnArguments` (action property) |

Every safety property that a passing run checks is the subject of one of them. `Cache_proofs` is about `Cache` and
`DBCache`, `Requests_proofs` about `Gateway` with `Stats` and about `Task`. Definitions of `DBCache` and `Task`
that would have the name of one of the other module have names of their own for that reason: `DBSpec`, `DBTypeOK`,
`TaskSpec`, `TaskTypeOK` and so on.

They hold for all sets of names, addresses, processes, requests, keys, users and rows, and all timeouts and delays,
under the named assumptions of the modules (the "absent" value is none of the others; a timeout is positive,
because `stats.run` makes a ticker of it; the requests of `Gateway` are fewer than the 2^32 numbers of `uuid`).

- *Table.* The first lemmas of `Discovery_proofs` show what `register` and `unregister` do to membership,
  duplicates and empty lists; the rest of the proof cites them and never looks into the sequences again.
- *Slices.* `SliceInv` says that the slices of the table own disjoint arrays and that the slice of a request
  is a prefix of an array whose elements below its length are never written again. It is needed because
  refinement alone says nothing about arrays the table has dropped.
- *Registry.* `KeysAreLeased` alone is not inductive: that the key of a renewing process is its own needs
  that no two listening processes have the same address.
- *Discovery.* The proof strengthens `AgreesWithEtcd` with what the last pending event of a key says: it
  agrees with etcd. Steps of `Registry` are covered by the lemma that its invariant is inductive.
- *Cache.* `CacheInv` adds to the list and map: no entry was read more than `Delay` before it was added;
  after evict a thread sees only entries that were young when it read the clock; a hit inherits both.
- *Database connection.* `Coherent` speaks of the moments when nobody has the lock. `Locking` says which goroutine
  has it and that connection and statements differ only inside `conectDB`. `SteadyInv` says why a call that has the
  arguments of its statement does not fail while the database answers: the statement it captured before it had the
  lock stays open, because no goroutine is on its way to `closeAll`, and the second try of `dbQuery` finds a connection. That `conectDB` finds a
  connection nobody refers to needs more names in `Conns` than there are references (`ConnsAssumption`), so the
  goroutines are finitely many (`ClientsAssumption`).
- *Watcher.* `InstallStopsRegistered` is about places without a pending event, so it is not inductive: the proof adds
  that the last pending event of a place tells what etcd has there (`LastEventIsNews`), the same of what `load` has
  still to bring online (`TodoIsNews`), and the property itself before `List` has answered (`SettledAgrees`). A step of
  etcd changes one key at most (`OneKeyChanges` of `Registry_proofs`, whose invariant is part of this one).
- *Deployments.* `Progress` says what a task has built, recorded and sent by the place where it is, for tasks that
  overlap too; `CompileIsRecorded` follows. `Serial` says, as long as no two tasks have overlapped, which directory
  the process is in at each place, that the task will go back to the directory it found unless it is `stuck`, and
  that the files in a task's directory are its own.
- *Interfaces.* `IInv` adds how far a clean report has come (`Progress`: the variables are the fields of its
  document that it has no longer to add), that nothing refers to a number not given out yet (`Unused`, without
  which a new row could inherit variables or relations), and that the state read by `relation.POST` still holds
  before it inserts, unless a report has withdrawn the interface (`Granted`). One lemma per conjunct, one step per action that can disturb it.

- *Gateway.* `Conserved` is not inductive: `entrys` overwrites the batch, which loses nothing only because `run`
  has emptied it by then (`Drained`). `CountedOnce` compares the counters with the sizes of the sets of requests
  that were answered; a step counts one request and adds it to one set. For the identifiers `IDInv` says that the counter has not wrapped, that no
  number was given twice, and that a number not yet written is neither in the buffer nor anybody's identifier:
  what a request reads after its own write was then written after the requests before it had read theirs.
- *Manager.* `IInv` adds what a request knows at each step (`Stage`), the rows a service rests on from the statement
  that adds each until a request removes one (`Owned`, `Listed`), and that a request which has met no other is alone in `ru` with what it has decoded (`Alone`). Predicates such as `Moves`, `Begins` and `Cuts` say once what
  a step does to the requests, and the leaves use them in place of the actions.

Only model-checked: liveness (`StoppedLeaves`, `Converges`, `ConvergesOnServing`, `CallsReturn`, `Recovers`,
`Flushed`), because fairness and `ENABLED` are out of reach of the prover, and the two properties that the code
violates, which TLC refutes.

## What the code does not do as documented

Each violation run stands for one disagreement of the code with a comment or document, listed under
"findings" in `PROJECT.json`: load and watch are not ordered, so a serving process may never enter the table; a failed
install is recorded as success.

Seen while modelling and not the subject of a run. Where a property leaves such a case out, it says so:

- `Keepalive` of `util/etcd/etcd.go` never puts its key again: a process whose lease lapses once, because etcd
  was away for longer than the lease, serves on and is not found any more. `RenewedIsRegistered` is therefore about
  processes that renew.
- `install` and `compile` change the working directory of the whole process (`distributor/task.go:188`), so
  deployments that overlap run commands in each other's directory. `SerialTasksAreIsolated` is therefore about
  deployments that follow each other.
- `web/user.html:120` sends the role as `id` where `roleUser.DELETE` reads `role_id`, so the user is removed from
  the role that the last request to `/role/user/` named, usually but not always the one on the page.
  `OwnArguments` is therefore about arguments that a request names.
- Requests to `/role/user/` that overlap may add or remove each other's users.
- `DeleteRole` (`util/rbac/rbac.go:278`) sends `id` where `rbacRole.DELETE` reads `role_id`, so the manager cannot
  delete a role by number. The handler leaves the relation of the role to its resources behind; a later role inherits
  it if MySQL gives it the same id.
- `userResource.GET` (`rbac/relation.go:490`) lists the resources that have a row: a resource deleted while a service is
  being created hides that service, although member and grant are there. `ServicesAreOwned` exempts it (`cut`).
- A report with `State` 0 unpublishes an interface that is granted (`manager/interface.go:472`); the grant stays.
- The errors of `Getwd` and of the `Chdir` back are ignored (`distributor/task.go:187`, `191`, `250`, `254`): after one
  the distributor stays in a task's directory.
- `executeDB` adds a count again when the answer to an insert was lost, and a count whose insert fails is only logged.
- Concurrent requests may get the same identifier (`util/uuid/uuid.go:41`).
- `insertErrorStats` passes four arguments to a statement with five placeholders (`repeater/cache.go:107` and
  `:339`), so the insert of error records always fails, in `Stats` and in `DBCache`.
- The distributor and the manager disagree about the name of the service's field (see `Interfaces`).
- `interfaceRegister.POST` does not compare versions: a report of an older version that is handled last
  replaces a newer one.

## Not modelled

- *Sessions of the manager* (`session.go`, `admin.go`): cookies and tickets of another system, and loads of what
  the RBAC service says of a user into the same cache that `Cache` models.
- *`roleUser.PUT` and `rbacUser.PUT`* change the email of a user, which is the user's name in `Manager`; *applications*
  of the manager and of the RBAC service, clusters, nodes, documents and statistics are handlers that run a single
  query.
- *`Validate` and the rewriting of a request* in `repeater.go` are local to one request.
- *Log streams of a task* write rows that nobody reads back.
- *`install.sh`* runs on another host; `Watcher` ends at the process it is given.
- Reflection that makes a document, encryption and encoding, reading of configuration and the web pages have no
  state after start.
- *Vendored packages* under `src/_vendor`, which are most of the lines of the repository: only crab's cache is
  modelled; etcd, MySQL and the HTTP server appear as the code uses them.

`PROJECT.json` lists every part with its reason.
