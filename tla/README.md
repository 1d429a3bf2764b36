# user-service: a verification project in TLA+

TLA+ models of `user-service`, the Go service that keeps the driver profiles and
the vehicles of a ride platform. The modules are translated from the source (paths below
are relative to the repository), model-checked with TLC on small instances, and
their safety properties are proved with TLAPS for every value of the constants.

Contents: 1 the system · 2 the modules · 3 the runs · 4 disagreements found ·
5 fairness · 6 proofs · 7 what is not modelled · 8 plan · 9 running it

## 1. The system

One process (`cmd/user/main.go`) serves gRPC and REST on one port. Usecases
(`internal/user/usecase`) validate a request and call a repository
(`internal/user/repository/postgres`), each method of which runs one to three SQL
statements **without a transaction**; profiles are cached in Redis. Every request is
a goroutine; nothing is locked in memory. What keeps the data right is therefore
the single statements, the unique indexes of `data/init.sql` and the `version`
column.

| Component | State | Operations | Interacts with | What is hard | What makes it correct |
|---|---|---|---|---|---|
| User domain (`internal/user/model`) | a row of `user_profile`: id, external id, phone, name, status, version | `Validate()`, the rows that INSERT and UPDATE write | all usecases | defaults and blanks (`COALESCE(NULLIF)`) | validated before any statement |
| Registration (`create_user.go`, `upsert.go`) | the table, its unique index | CreateUser, UpsertDriver = GetOrCreateByMSISDN | gRPC handlers; in REST, before every handler | SELECT–INSERT–SELECT race, lost replies, deleted drivers who return | one profile per driver; all callers agree on it; a lost race is hidden |
| Cached profile (`get_user_by_id.go`, `update_user.go`, `delete_user.go`) | the row, Redis key `user:<id>` with a 5 min TTL | GetUserByID, UpdateUser, DeleteUser | Postgres, then Redis | fill racing DEL, lost DEL, lost reply, optimistic lock, two-statement delete | no lost update, no torn copy, deletion final, staleness bounded |
| Vehicle registry (`register_vehicle.go`, `vehicle.go`) | table `vehicle`, unique (driver, plate) | RegisterVehicle, ListVehicles | looks the driver up in `user_profile` | check and insert apart; spellings of one plate | one row per driver and plate, a stable id, complete listings; one default (not kept) |
| User listing (`list_users.go`) | – | ListUsers: page + total | `user_profile` | two statements, pages that shift under a walk, broken connections | nobody skipped or repeated where the order allows it |
| gRPC server (`pkg/grpcserver`) | the interceptor chain | recovery, log, deadline, error mapping, idempotency, dispatch | clients, handlers | retries overlapping abandoned attempts, wiring order | clients hear what happened; updates apply once |
| Idempotency store (`pkg/idempotency`) | table of (key, response) | Get, Put | the idempotency interceptor | lookup and record apart from the handler | a replay has no effect |
| Call path (interceptor deadline, `pkg/db/postgres`, `pkg/redis`) | the connections of the pool, the deadline of each call | queue, statement, Redis command, answer | every handler | backends that hang, a full pool, a deadline in the middle of a usecase | an RPC is answered if what it asks Postgres to cancel ends; an optional cache makes nobody late; acknowledged writes are told |
| Wire (`api/proto`, `mapper.go`) | – | messages, enums, stubs, conversions | gRPC handlers and clients | open enums, zero values, methods nobody serves | statuses and types survive the wire |
| REST pipeline (`internal/user/handler/http`, `pkg/utils`) | the gin context of a request | JWT gate → lazy registration → handler → HTTP status | the usecases' statements | registration as a side effect of every call; rows that change behind a looked-up `driver_id` | the status tells what happened; a call touches its own data only |
| JWT verification (`pkg/jwt`, middleware) | the optional key | Parse: header, algorithm, expiry, signature | REST | a key that is not configured, an expiry of 0 | no handler runs for a token that fails a check |
| PII encryption (`pgp_sym_encrypt` in the SQL, `pkg/configs`) | the key of each process | encrypt and decrypt inside the statements | every statement on `user_profile`, Redis | deployments with different keys, a forgotten key, plaintext in the cache | a row is under one key; no row is lost to a key |
| Process life (`main.go`) | main's position, listener, pool, routes, `ready`, shutdown timer | start, wiring, readiness, signal, drain, shutdown | all requests | requests during wiring, during drain, signals at any time, no database | "ok" means wired; orderly exits cut only late REST requests; a signal ends the process |
| Credit cards (`credit_card.go`, `payment_method.go`, migration 003) | table `credit_cards` | add, set default, get default, payment method | its own handlers; **not wired** into `main.go`, and its repository has no adapter | – | – (see 7) |
| SMS stub, logging, telemetry, mocks | – | – | – | – | – |

`PROJECT.json` lists the components with their sources and status, and every
hazard at the line where it bites with the properties that would catch it.

## 2. The modules

| Module | Models | Checked by | Proved in |
|---|---|---|---|
| `UserModel` | rows, requests, validation, row transformers (constant level) | – | – |
| `Registration` | CreateUser and UpsertDriver, statement by statement | `MCRegistration` | `RegistrationProofs` |
| `DriverDirectory` | *abstract*: an atomic directory of drivers | refined by `Registration` | `RegistrationProofs` |
| `ProfileCache` | GetUserByID, UpdateUser, DeleteUser: commands and statements | `MCProfileCache` | `ProfileProofs` |
| `ProfileRegister` | *abstract*: a versioned register per driver | refined by `ProfileCache` | `ProfileProofs` |
| `Vehicles` | RegisterVehicle, ListVehicles | `MCVehicles` | `VehiclesProofs` |
| `PlateRegister` | *abstract*: a page of plates per driver | refined by `Vehicles` | `VehiclesProofs` |
| `RpcServer` | interceptor chain, dispatch, error mapping under retrying clients | `MCRpcServer` | `RpcProofs` |
| `Wire` | messages, enums, ServiceDesc, mapper (constant level) | with `CallPath`, `ListUsers` | `CallProofs` |
| `CallPath` | a call in time: deadline, pool, Postgres, Redis | `MCCallPath` | `CallProofs` |
| `RestPipeline` | JWT gate, lazy registration, REST handlers, statuses | `MCRestPipeline` | `RestProofs` |
| `AccountBook` | *abstract*: one account and one set of plates per identity | refined by `RestPipeline` | `RestProofs` |
| `PiiKeys` | processes with different keys over one table and one cache | `MCPiiKeys` | `PiiProofs` |
| `ServiceLifecycle` | `main()` and the requests that meet it | `MCServiceLifecycle` | `LifecycleProofs` |
| `ListUsers` | the listing and a client that walks through it | `MCListUsers` | `RegistrationProofs` |

How they fit together. `RestPipeline` composes registration, profile and vehicle
statements behind one middleware, over one pair of tables; `CallPath` composes every
operation of both transports over one pool and takes messages and conversions from
`Wire`, as `ListUsers` takes the status filter; `RpcServer` puts the chain in front of
the deciding statements. What a module abstracts is the subject of another: rows and
races (`Registration`, `ProfileCache`, `Vehicles`), time and resources (`CallPath`),
keys (`PiiKeys`), retries (`RpcServer`), the process (`ServiceLifecycle`).

Conventions. A goroutine that serves a request is a *caller* with a program counter
`pc`; its value names the statement the caller will run next. One SQL statement or
one Redis command is one action, since nothing spans two of them. A statement may
fail without effect (`StatementFails`), and a write may commit and its caller still
see an error: `database/sql` and `lib/pq` return an error if the connection breaks or
the statement is cancelled too late. A caller is answered (`Finish`), reads its answer
(`Deliver`), and may come back with any call. Strings are members of small constant sets.
`Row` carries what the properties tell apart; the e-mail, which all statements treat
as they treat the phone, and timestamps are left out. Operators headed
`Mutant:` are plausible bugs next to the definition they vary: with one in
place, TLC finds the property named for it in `PROJECT.json` violated, which
shows that the property depends on that code.

**Registration.** `SelectHit`/`SelectMiss` are the first SELECT, `Insert` and
`InsertConflict` the INSERT with and without the unique violation 23505,
`Reselect` the second SELECT of a loser. The two usecases differ in validation and
in the stored name (`StoredName`: UpsertDriver replaces an empty name by "Driver");
`UpdateRow` and `SoftDeleteRow` are the writes of the other RPCs.

**ProfileCache.** `CacheHit`/`CacheMiss` → `ReadRow`/`ReadNothing` → `Fill` is
GetUserByID; `Update`/`UpdateNothing` → `Evict` is UpdateUser; `SoftDelete` or
`SoftDeleteNothing` → `ExistsTrue`/`ExistsFalse` → `Evict` is DeleteUser. The Redis
errors the usecases drop are the `RedisMayFail` branches; `Expire` is the TTL.
`past` is a history variable. A service without Redis behaves as with a Redis that
fails every command.

**Vehicles.** `CheckFound`/`CheckMissing` is `GetByID` (which also finds deleted
drivers), `InsertVehicle`/`UpdateVehicle` the two outcomes of
`INSERT … ON CONFLICT DO UPDATE`, `List` the SELECT; `Normal` maps a spelling to the
plate `strings.ToUpper` and `ReplaceAll` make of it; `told` is a history variable. The
upsert writes `is_default` of its own plate only (see 4). `PlateRegister` is what the
callers see: the mapping reads the table as a page of entries (id, plate, type) per
driver and forgets the default flag, deletions, the spelling, and the position between
check and upsert.

**RpcServer.** An attempt moves from `arrived` through the idempotency interceptor
(`Pass`, `RefuseKeyless`, `BeginLookup`, `Lookup`, `Record`), only in the chain when
`wired`, to its handler's deciding statement and to `Answer`. `main.go` builds
the server without a store, so `wired = FALSE` is the program; `TRUE` is the
wiring the documents describe. In that wiring neither Get nor Put works (see 4), so
the table of keys stays empty and is no variable. Four methods with distinct
behaviour stand for all; `Scenarios` says which clients meet.

**CallPath.** A call is the list of operations its usecase performs (`Scripts`: every
path the rows may lead it on), done one after the other. It queues for a connection
(`Connect`, `QueueCut`), is at Postgres (`StatementEnds`, `StatementFails`,
`StatementCut`) or at Redis (`RedisEnds`, `Hit`, `RedisTimesOut`). The end of the
context interrupts the wait for a connection (`QueueCut`), but not a statement: lib/pq
has a CancelRequest sent and reads on, and the interceptor waits for the handler, so
that only Postgres or the network ends it (`StatementCut`). `Tick` is a second
that passes while all calls wait; `Deadline` is `timeoutInterceptor`, `RedisLimit` the
timeouts of go-redis, which it has beside the context. A backend may never answer.
`Stub` and `Refuse` are the methods nobody serves and the messages `Validate` refuses.

**Wire.** Messages are records of their proto3 fields, an enum field any int32;
`StatusFromProto`, `ToUserProto` and the rest are `mapper.go`. Timestamps are left out.

**RestPipeline.** `Middleware` is `jwtMiddleware` (the checks of `Parse` in their order)
and `upsertDriverMiddleware` (`SelectHit`, `SelectMiss`, `Insert`, `Reselect`), `Handler`
the four routes under `/v1/me`. `did` is a history variable: what a request has
written. `OtherWrites` are the RPCs that edit and delete drivers meanwhile.
`AccountBook` is what a client sees of it: the mapping forgets ids, phones and tokens,
reads the rows as one account per `sub`, the vehicles as the plates of a `sub`
(`AccountOf`, `GarageOf`), and a request as outside, inside or answered (`StageOf`).

**PiiKeys.** A row is the pair of keys its columns are under; `PgCryptoKey` is the
order environment, file, default of `NewConfig`. `Start` and `Stop` are deployments.
`Update` is undone when its `RETURNING` cannot decrypt; `Enrolled`, `ReadFails` and
`ListFails` are the errors of a SELECT that cannot. The `Set` that ends a read (`Fill`)
is a step of its own.

**ServiceLifecycle.** `Connect`, `Mount`, `Register`, `Announce` are the parts of
`main()` between starting the listening goroutine and waiting for a signal;
`BeginDrain`, `EndDrain`, `Exit` follow it. The route tree and the service map are
read by requests while `main` writes them: data races, modelled as a choice among
their outcomes (`RaceOnRoutes`, `RaceOnServices`). `DrainPanics` is external
(grpc-go v1.80.0).

**ListUsers.** `Select` and `Count` are the two statements of one page,
`SelectBreaks` the page whose connection breaks and whose `rows.Err()` nobody asks for; the
client that goes on behind the last user it was told of is external.

## 3. The runs

Passing runs (distinct states, depth of the search; each within about two minutes):

| Run | Instance | States | Shows |
|---|---|---|---|
| `Registration` | 2 callers, 2 ids, 2 drivers, version ≤ 2 | 47,737 (18) | one profile per driver; what was answered is on record; `Registration` implements `DriverDirectory`, fairness included: lost races are hidden, drivers who return are left alone, every call is answered |
| `ProfileCache` | 2 callers, a driver and an id never registered | 49,164 (23) | no lost update, acknowledged deletions done, NOT_FOUND never of the living, the cache becomes fresh; `ProfileCache` implements `ProfileRegister` |
| `Vehicles` | 2 callers, 2 drivers, 2 plates (one in 2 spellings), 3 ids | 125,248 (26) | one row per driver and plate, what was told stays, listings complete, other drivers and plates untouched; `Vehicles` implements `PlateRegister` |
| `RpcServer` | with and without a store: two rival updates and a deletion; a repeated deletion beside an update and a registration; a repeated registration, an invalid request and a stub | 143,494 (23) | updates applied once, clients hear what happened |
| `RestPipeline` | 2 clients, 2 drivers with one phone number, 9 tokens, with a key and without, clock ≤ 2, version ≤ 2 | 690,300 (28) | who gets in, statuses are true, nobody is missing, own data only, the deleted stay frozen; `RestPipeline` implements `AccountBook` |
| `CallPath` | 2 calls out of 13 offers, 1 connection, 2 s default deadline, offers with 1 s and 3 s, Redis gives up after 3 s | 321,215 (20) | Redis makes no RPC late; acknowledged writes are told; the pool moves; every RPC is answered if Postgres ends at least what it is asked to cancel, every call if Postgres ends its statements |
| `PiiKeys` | 2 processes, 3 environments, 2 keys, 2 drivers, version ≤ 2 | 202,332 (20) | a row is under the key of its last writer; no row is lost or replaced; the cache forgets rows of other keys |
| `Lifecycle` | 2 requests each of REST, RPC, health | 332,430 (21) | health means wired; the pool decides; orderly exits cut only the late; a signal ends the process |
| `ListUsers` | 4 users (3 registered), limits {-1, 0, 1, 5}, filters {0, 1, 2, 3, 7}, default 2, cap 3, clock ≤ 4 | 405,294 (17) | types; nobody skipped, nobody twice, the total reached and covering the page |

Why the bounds are enough to be interesting. Every race of the code is between
two callers: the winner and the loser of an INSERT, a reader and a writer of one
cache key, two writers of one version, two registrations of one plate, two calls and
one connection, two processes and one row; that a third caller adds nothing is what
the proofs of section 6 show, which hold for any number. Vehicles have a conflict on
one plate in two spellings, a second plate and a second owner; ids are as many as rows
that can exist in the instance. In `CallPath` the deadline falls before or
with the timeout of Redis, or (REST) never comes, and one connection makes every second
statement queue; a call is served once, since calls meet only at the pool. Callers come back
without bound elsewhere, so sequences of calls are of any length; what bounds the state is
`MaxVersion` (edits in `Registration`, `RestPipeline`, `PiiKeys`), the expected versions in
`Calls` (updates in `ProfileCache`), `Tries` (attempts of an RPC client), one use per
request (`ServiceLifecycle`), `MaxTime` (registrations in `ListUsers`, the clock in
`RestPipeline`). `Vehicles` and `RestPipeline` use the symmetry of callers or generated ids
and check safety only; runs with liveness use no symmetry. Deadlock checking is off where
the system may really stop: RPC clients with no tries left, calls that are done or hang, a
process that has exited, a walk that is done.

Every component has a theorem of its type invariant; only the run of `ListUsers` checks
it with TLC too, as it came before the proof.

Violation runs, each checking one statement of a document: `ProfileStale`,
`VehiclesDefault`, `RpcReplay`.

## 4. Disagreements found

With a run, and the contradicted line quoted in `PROJECT.json`:

- **Stale cache** (`ProfileStale`): a reader that missed before an update sets the
  old row after the update's DEL, although neither store failed; it stays for
  up to the TTL. `EventuallyFresh` shows that the TTL is what bounds it.
- **A new default does not unset the previous one** (`VehiclesDefault`):
  `docs/api-specifications/openapi-spec.yaml:139` says of `is_default` "If true, unsets
  any previous default vehicle for this driver", and `model/vehicle.go:19` "at most one
  has is_default = true". The upsert (`vehicle.go:26-30`) writes the flag of the
  registered plate and of no other, so a driver has as many defaults as plates were
  registered with it. `OnlyOwnPlateChanges` leaves the flag of the driver's other
  plates open, and `PlateRegister` does not have it.
- **Idempotency is off** (`RpcReplay`): the chain is built before there is a store,
  so a replay executes its handler again. What keeps retried updates harmless is
  the version (`UpdateAppliedOnce`).

Without a run, because a single definition shows them:

- Deleting a driver a second time is answered NOT_FOUND when the EXISTS query fails:
  its error is dropped and `exists` keeps false (`soft_delete_user.go:28`, where the
  comment of line 25 promises to tell the cases apart; `ExistsFalse`).
- `list_users.go:49` ends on `rows.Next()` and does not ask `rows.Err()`, so that a broken
  connection yields a short page with a full total, against the comment of lines 10–11
  (`SelectBreaks`).
- Even with a store no replay would be answered from it: the interceptor has
  no message to decode a stored response into (`Lookup`), and the interval that is
  stored is malformed, so nothing is stored (`Record`).
- `GracefulStop` with an RPC in flight on a ServeHTTP transport ends the process and
  cuts the RPC (`DrainPanics`).
- `/health` says "ok" without a database, and wiring is not tried again: `PoolDecides`
  is what follows for the requests.
- VALIDATION is answered INTERNAL, `docs/architecture/low-level-design.md:171` says
  INVALID_ARGUMENT (`MapError`); over REST a body that cannot be bound is a 500
  (`BindFails`).
- `GetUserById` is unimplemented over gRPC, since the handler is spelled `GetUserByID`
  (`Unimplemented`, `Stub`); likewise `GetUserByExternalId`. Served under its name it
  would break `LateOnlyForPostgres`: it asks Redis first, and a Redis that hangs uses
  up the call's two seconds.
- The MSISDN has no unique constraint, `README.md:57` says it has (`Duplicate`).
- UpsertDriver does not update the name of a driver on record, `user.proto:62` says
  it does (`SelectHit`).
- Deleting an id that never existed is an error, `delete_user_test.go:48` says it is
  not (`ExistsFalse`).
- The two seconds of `timeoutInterceptor` do not end a call whose statement Postgres
  neither answers nor cancels: lib/pq reads on, and the interceptor waits for its handler
  (`StatementCut`; what remains true is `CancelIsEnough`).

## 5. Fairness

Fairness is stated only for what the program or its environment drives, never for callers,
clients, signals or other RPCs.

- In `Registration` and `ProfileCache` a statement or command that was started ends
  (WF per caller). For Redis the timeouts of go-redis see to it. For Postgres this is an
  assumption about the environment: it answers, or honours the CancelRequest that lib/pq
  sends when the context ends, or the network gives the connection up; a deadline
  alone does not interrupt the read. Failing is one of the ways to end, so success is never
  assumed.
- `Expire` of a Redis key: it is set with a TTL.
- In `ServiceLifecycle`, `main` and the timer go on, and an RPC ends, under the same
  assumption (at its deadline Postgres is asked to cancel what it waits for). REST
  requests have no fairness: nothing bounds them but Shutdown's deadline.
- In `CallPath`, time passes (`Tick`), and the service does its part: the pool hands
  out a free connection (`Connect`), a wait for one ends with the context
  (`QueueCut`), go-redis gives up (`RedisTimesOut`). **No backend is fair**: it need
  never answer, nor cancel anything (`StatementCut` is not fair). That Postgres ends what
  it is asked to cancel is the hypothesis of `CancelIsEnough`, that it ends every
  statement that of `PostgresIsEnough`; the specification has neither.
- In `PiiKeys`, `Expire` only; `CacheForgetsOtherKeys` supposes in its own statement
  that all processes come to run under one key.
- `Vehicles`, `RpcServer`, `RestPipeline` and `ListUsers` have no fairness and only safety
  properties.

## 6. Proofs

Eight proof modules, each `EXTENDS` its component and `TLAPS`. `RegistrationProofs` holds
the proofs of a second component too, `ListUsers`, which lists the rows that registration
makes; its names have a prefix (`WalkInit`).
The assumptions are the named ASSUMEs of the modules on their constants (`ValuesAreDistinct`,
`RegistrationAssumption`, `ProfileAssumption`, `VehiclesAssumption`, `RpcAssumption`,
`LifecycleAssumption`, `RestAssumption`, `PiiAssumption`, `CallPathAssumption`,
`WireAssumption`, `ListUsersAssumption`): sets of callers, ids and calls are arbitrary,
infinite ones included. Each proof has the same plan: type invariant, inductive invariant with
one lemma per group of actions, then the properties as consequences.

- **`RegistrationProofs`**: `TypeCorrect`, `OneProfile`, `AnswersAreOnRecord`,
  `Agreement`, `RaceIsHidden`, `OnlyAdds`, `ImplementsDirectorySafely`. The properties
  are not inductive alone: one must know that a caller in flight has a valid
  request (`RunningIsValid`), that a caller about to select again will find a row
  (`LoserFindsRow`, the reason a lost race is hidden), and that only finished
  callers hold replies (`ReplyWhenDone`).
- **`ProfileProofs`**: `TypeCorrect`, `CopiesCommitted`, `UpdatesAreNotLost`,
  `DeletesAreDone`, `DeletionIsFinal`, `TheLivingAreFound`, `RedisIsOptional`,
  `ImplementsRegisterSafely`.
  The invariant says of the table that the history has one row per version and none
  beyond the current one (`TableOK`), of Redis that it holds a row of the history
  (`CacheOK`), of a caller what it carries at each position (`CallerOK`), and of two
  callers that they did not both win one version (`OneWinner`).
- **`VehiclesProofs`**: `TypeCorrect`, `OneVehicle`, `OwnersOnRecord`, `ToldStays`,
  `ListingsAreComplete`, `OthersAreUntouched`, `PlatesAreAtomic`. `Serving` ties a
  caller's position to a valid call and a registered driver. `PlatesAreAtomic` is the
  refinement of `PlateRegister`, from the same invariant: both outcomes of the upsert
  replace the rows of one plate, one or none, by one row under their id or a fresh
  one (`Replaces`), which turns exactly one entry of one page (`UpsertTurnsPage`); the
  check is a stutter, and its NOT_FOUND is true since nobody who joined ever leaves.
- **`RpcProofs`**: `TypeCorrect`, `UpdatesOnce`, `ClientsHearTheTruth`. The key of the
  first is `VersionMovedOn`: an update that took effect leaves the version above the
  one its client read, for good; `Decided` and `KeylessStaysOut` say where an attempt
  can be. The last has an invariant of its own (`HInv`): a status that is decided
  tells the truth before it is heard, and while a client has sent one attempt, nothing
  was written or heard before that attempt ended (`OnlyAttempt`).
- **`LifecycleProofs`**: `TypeCorrect`, `OkMeansWired`, `ExitIsOrderly`,
  `PoolIsDecisive`, from `ReadyIsLast` (ready implies all is mounted),
  `StopsOnSignal`, `DrainIsComplete`, `NoHealthInside` and `PoolComesFirst`.
- **`RestProofs`**: `TypeCorrect`, `CallersAreAuthentic`, `AnswersAreTrue`,
  `NobodyIsMissed`, `WritesAreOwn`, `DeletedStaysFrozen`, `AccountsAreAtomic`. Of the tables the invariant
  says that ids and identities are unique (`Unique`); of a caller that it has passed
  the gate (`Admitted`), that its `driver_id` is its own row (`Home`), and that its
  answer and its writes belong together (`Deeds`, `Told`). `AccountsAreAtomic` is the
  refinement of `AccountBook`, from the further facts that every id a plate or an answer
  refers to is the id of a row, and that the second statement of a registration is
  reached by that route only (`BookInv`). A request enters the book at the SELECT that
  finds its row or the INSERT that stores it, and takes effect at its last statement;
  misses, conflicts of INSERTs and the check before a vehicle's INSERT are stutters.
- **`PiiProofs`**: `TypeCorrect`, `WriterReads`, `ProfilesAdvance`. `TypeOK` and
  `WriterCanRead` are inductive together: a write leaves both columns under its
  key, or is undone.
- **`ListUsers`** (in `RegistrationProofs`): `WalkTypeCorrect`, `WalkSkipsNobody`,
  `WalkRepeatsNobody`, `WalkReachesTotal`, `TotalCoversEveryPage`, for any number of
  users, limits and pages. The proofs speak of the *rank* of a user, the number of
  listed users registered no earlier. Unless two users were registered in one instant,
  the rank is the place in the answer of the SELECT (`PlaceIsRank`) and a page is
  the ranks behind the offset, without a gap (`PageIsRanks`). A registration moves
  everyone back by one (`RegisterRanks`), a deletion moves those behind it
  forward by one (`DeleteRanks`). So whoever is due and unheard of stays behind the
  offset while nobody is deleted (`Ahead`), and whoever was told of stays before it
  while nobody registers (`Behind`); a walk nothing disturbs sees one listing
  (`Still`), and a page that is not empty ends within the total (`Covered`).
- **`CallProofs`**: `StatusRoundTrip` and `VehicleTypeRoundTrip` of the mapper,
  `TypeCorrect` (an OK carries the message its client decodes), `LateIsPostgres`,
  `WritesAreTold`, `PoolIsLive`. The invariant says what is left to do once a write is
  acknowledged or Postgres has been waited for: only `DEL`s, whose errors are dropped
  (`OnItsWay`, `Shape`), and that only a call at Postgres holds a connection (`Holds`).

The four refinement theorems show that the initial states map to initial states and
that every step maps to an abstract step or a stutter. In `Registration` a hit takes
effect at the first SELECT, a creation at the INSERT, a lost race at the second
SELECT; in `ProfileCache` a write at its UPDATE and a read at its GET or SELECT, in `Vehicles` a
registration at its upsert and a listing at its SELECT.

Some of these theorems are about properties no run checks, since the refinement or a
stronger property already covers them in the small instance: `RacersAgree`,
`LostRaceIsHidden`, `RegistrationOnlyAdds`, `CopiesAreCommitted`, `DeletedIsFinal`,
`RedisFailsNobody`, `OwnersAreOnRecord`, `KeylessWritesNothing`, `PageIsWhole`, and
the type invariants.

Only model-checked: liveness (`EventuallyFresh`, `ShutdownTerminates`,
`CacheForgetsOtherKeys`, `CancelIsEnough`, `PostgresIsEnough`) and the fairness part
of the refinements of `DriverDirectory` and `ProfileRegister`, which the prover does not
cover (`AccountBook` and `PlateRegister` have no fairness: they are safety only).

## 7. Not modelled

- Regular expressions, UUID syntax, formatting: membership in constant sets.
- Signatures and ciphers: a token has a signer and a column a key; verifying and
  decrypting under another key fail. The protobuf encoding is the library's.
- The SMS stub (nothing calls it), logging, tracing and metrics (output only), the
  mocks, and `src/user/v1`, a copy of the generated code that nothing imports.
- Durations other than deadlines and timeouts in `CallPath`; elsewhere a deadline is the
  possibility to fail and a TTL the possibility to expire.
- Isolation: each statement is atomic, as a single READ COMMITTED statement on
  one row is. The exception in reality, a SELECT of many rows, is a snapshot there
  too.
- Expired idempotency keys: nothing reads or deletes them.
- Credit cards and payment methods. `CreditCardRepository` is an interface without an
  adapter, `main.go` wires no handler of it, and migration 003 references a table `users`
  that no migration creates. What adding a card or moving a default does to the table
  is not written yet; a model would check its own inventions. The RPC's stub is in
  `CallPath`. One hazard stands in the code as it is: a number of fewer than four
  characters panics (`usecase/credit_card.go:39`), before any statement.
- Crash of the process in the middle of a call: nothing is kept in memory beyond a
  request, so that for the tables and the cache it is the lost reply of every module;
  `PiiKeys` starts and stops processes, `ServiceLifecycle` cuts requests.

External definitions, modelled from how the code uses them: the gRPC clients of
`RpcServer`, the walking client in `ListUsers`, the client that reads its answer (`Deliver`), the drain
of grpc-go, the deployments of `PiiKeys` that stop a process, and in `CallPath` what
`database/sql`, `lib/pq` and `net/http` do with a context.

## 8. Plan

Done, in this order: `UserModel`, `Registration` + `DriverDirectory`, `ProfileCache`
+ `ProfileRegister`, `Vehicles`, `RpcServer`, `ServiceLifecycle`, `ListUsers`, their
proofs; then `RestPipeline`, `PiiKeys`, `Wire` + `CallPath`, the proofs of all three, and
`HeardIsTrue`; then the proofs of `ListUsers`, `AccountBook` and its refinement;
`PlateRegister` and its refinement.

Left:

1. When credit cards get an adapter and are wired: a module of its statements, and its
   calls in `CallPath`.
2. When a registration unsets the previous default: the flag in `PlateRegister`.

## 9. Running it

In this directory: `tlc -workers 2 -config <Run>.cfg <module>` for a run (the module of each run
is in `PROJECT.json`), `tlapm <Module>Proofs.tla` for the proofs.
