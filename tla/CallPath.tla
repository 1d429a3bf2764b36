------------------------------- MODULE CallPath -------------------------------
(***************************************************************************)
(* The life of a call, in time: it arrives over gRPC or REST, waits for a  *)
(* connection of the pool, for Postgres and for Redis, and is answered.    *)
(* The context of a gRPC call lasts two seconds unless its client set a    *)
(* deadline of its own (timeoutInterceptor), that of a REST call as long   *)
(* as its client stays.  The interceptor waits for the handler, which may  *)
(* outlive its context.                                                    *)
(*                                                                         *)
(* The backends may answer, fail or hang.  The service's own computing     *)
(* takes no time: time passes only while every call under way waits.  What *)
(* the statements do to the rows is the subject of the other modules; here *)
(* a call is the list of operations its usecase performs, one after the    *)
(* other, chosen when it arrives among those the rows may lead it to.      *)
(***************************************************************************)
EXTENDS Wire, FiniteSets

CONSTANTS Calls,
          Offers,         \* what clients call
          NoOffer,
          None,           \* no deadline; no message
          DefaultTimeout, \* the two seconds of timeoutInterceptor, in ticks
          RedisLimit,     \* ticks after which go-redis gives up by itself
          MaxOpen,        \* DB_MAX_OPEN
          StoredUser,     \* the row the statements return
          StoredVehicle

RestMethods == {"getMe", "updateMe", "registerVehicle", "listVehicles"}

IsRpc(o)  == /\ o.via = "grpc" /\ o.method \in ServiceDesc /\ o.in \in Sends[o.method]
             /\ o.deadline \in (Nat \ {0}) \cup {None}
IsRest(o) == o.via = "rest" /\ o.method \in RestMethods /\ o.in = None /\ o.deadline = None

ASSUME CallPathAssumption ==
  /\ \A o \in Offers : IsRpc(o) \/ IsRest(o)
  /\ NoOffer \notin Offers
  /\ DefaultTimeout \in Nat \ {0} /\ RedisLimit \in Nat \ {0} /\ MaxOpen \in Nat \ {0}
  /\ None \notin Nat
  /\ ToUserProto(StoredUser) \in User /\ ToVehicleProto(StoredVehicle) \in Vehicle

VARIABLES call,    \* call -> what was called
          pc,      \* call -> "idle", in the "queue" of the pool, at "sql" or "redis", "done"
          todo,    \* call -> the operations left, the one under way first
          ends,    \* call -> the code it ends with when all of them are done
          held,    \* call -> the connections it holds
          age,     \* call -> ticks of its deadline that have passed
          waited,  \* call -> ticks in the Redis command under way
          left,    \* call -> whether its client is gone
          answer,  \* call -> the code and the message it is answered with
          slow,    \* history: call -> whether time passed before Postgres answered
          told,    \* history: call -> whether a write of its own was acknowledged
          wrote    \* history: call -> whether it was committed

vars == <<call, pc, todo, ends, held, age, waited, left, answer, slow, told, wrote>>

PgOps    == {"read", "list", "count", "exists", "enrol", "write", "try"}
RedisOps == {"get", "set", "del"}

Script(ops, code) == [ops |-> ops, code |-> code]

\* GetOrCreateByMSISDN, which CreateUser resembles: found, inserted, or
\* inserted by somebody else meanwhile.  op is the INSERT that succeeds.
Enrolments(op) == {<<"read">>, <<"read", op>>, <<"read", "try", "read">>}

Ends(code, lists) == {Script(l, code) : l \in lists}

\* Mutant: the key is deleted before the row is written.
UpdatesDelFirst == Ends("OK", {<<"del", "write">>}) \cup Ends("AlreadyExists", {<<"del", "try">>})

\* A write that finds no row to change is a try.
Updates == Ends("OK", {<<"write", "del">>}) \cup Ends("AlreadyExists", {<<"try">>})

Deletes == Ends("OK", {<<"write", "del">>, <<"try", "exists", "del">>})
           \cup Ends("NotFound", {<<"try", "exists">>})

Registers == Ends("OK", {<<"read", "write">>}) \cup Ends("NotFound", {<<"read">>})

Looks == Ends("OK", {<<"get", "read", "set">>}) \cup Ends("NotFound", {<<"get", "read">>})

\* The handlers.  GetUserByExternalID, too, would be one look-up.
RpcScripts ==
  [CreateUser   |-> Ends("OK", Enrolments("write")),
   UpsertDriver |-> Ends("OK", Enrolments("write")),
   GetUserById  |-> Looks,
   GetUserByExternalId |-> Ends("OK", {<<"read">>}),
   UpdateUser   |-> Updates,
   DeleteUser   |-> Deletes,
   ListUsers    |-> Ends("OK", {<<"list", "count">>}),
   RegisterVehicle |-> Registers,
   ListVehicles |-> Ends("OK", {<<"read">>})]

HandlerScripts ==
  [getMe |-> Looks, updateMe |-> Updates, registerVehicle |-> Registers,
   listVehicles |-> Ends("OK", {<<"read">>})]

\* The middleware enrols the driver, then the handler runs.
RestScripts(m) ==
  {Script(e \o s.ops, s.code) : e \in Enrolments("enrol"), s \in HandlerScripts[m]}

Scripts(o) == IF o.via = "grpc" THEN RpcScripts[o.method] ELSE RestScripts(o.method)

-----------------------------------------------------------------------------
Codes == {"OK", "Internal", "NotFound", "AlreadyExists", "Unimplemented", "TooLate",
          "Unknown"}

Unanswered   == [code |-> "none", out |-> None]
Failed(code) == [code |-> code, out |-> None]

\* What the handler of a method returns.
Returned ==
  [CreateUser   |-> ToUserProto(StoredUser),
   UpsertDriver |-> ToUserProto(StoredUser),
   GetUserById  |-> ToUserProto(StoredUser),
   GetUserByExternalId |-> ToUserProto(StoredUser),
   UpdateUser   |-> ToUserProto(StoredUser),
   DeleteUser   |-> [ok |-> TRUE],
   ListUsers    |-> [users |-> <<ToUserProto(StoredUser)>>, total |-> 1],
   RegisterVehicle |-> ToVehicleProto(StoredVehicle),
   ListVehicles |-> [vehicles |-> <<ToVehicleProto(StoredVehicle)>>]]

Active(c) == pc[c] \in {"queue", "sql", "redis"}

\* An answer is an error, or a message of the type the client decodes.
Fits(o, a) ==
  /\ a.code \in Codes
  /\ IF a.code = "OK" /\ o.via = "grpc" THEN a.out \in Receives[o.method]
                                        ELSE a.out = None

TypeOK ==
  /\ call \in [Calls -> Offers \cup {NoOffer}]
  /\ pc \in [Calls -> {"idle", "queue", "sql", "redis", "done"}]
  /\ todo \in [Calls -> Seq(PgOps \cup RedisOps)]
  /\ ends \in [Calls -> Codes]
  /\ held \in [Calls -> Nat] /\ age \in [Calls -> Nat] /\ waited \in [Calls -> Nat]
  /\ left \in [Calls -> BOOLEAN] /\ slow \in [Calls -> BOOLEAN]
  /\ told \in [Calls -> BOOLEAN] /\ wrote \in [Calls -> BOOLEAN]
  /\ \A c \in Calls :
       /\ pc[c] = "idle" <=> call[c] = NoOffer
       /\ IF pc[c] = "done" THEN Fits(call[c], answer[c]) ELSE answer[c] = Unanswered

Init ==
  /\ call = [c \in Calls |-> NoOffer] /\ pc = [c \in Calls |-> "idle"]
  /\ todo = [c \in Calls |-> <<>>] /\ ends = [c \in Calls |-> "OK"]
  /\ held = [c \in Calls |-> 0] /\ age = [c \in Calls |-> 0]
  /\ waited = [c \in Calls |-> 0] /\ left = [c \in Calls |-> FALSE]
  /\ answer = [c \in Calls |-> Unanswered] /\ slow = [c \in Calls |-> FALSE]
  /\ told = [c \in Calls |-> FALSE] /\ wrote = [c \in Calls |-> FALSE]

-----------------------------------------------------------------------------
(* Arrival. *)

Place(ops) == IF Head(ops) \in RedisOps THEN "redis" ELSE "queue"

\* A call answered on the spot.
TurnAway(c, o, code) ==
  /\ pc[c] = "idle" /\ pc' = [pc EXCEPT ![c] = "done"]
  /\ call' = [call EXCEPT ![c] = o]
  /\ answer' = [answer EXCEPT ![c] = Failed(code)]
  /\ UNCHANGED <<todo, ends, held, age, waited, left, slow, told, wrote>>

\* The stub of a method nobody implements.
Stub(c, o) == o.via = "grpc" /\ o.method \notin Served /\ TurnAway(c, o, "Unimplemented")

\* VALIDATION is a code mapError does not list.
Refuse(c, o) ==
  /\ o.via = "grpc" /\ o.method \in Served /\ ~Valid(o.method, o.in)
  /\ TurnAway(c, o, "Internal")

Begin(c, o) ==
  /\ o.via = "grpc" => o.method \in Served /\ Valid(o.method, o.in)
  /\ pc[c] = "idle"
  /\ \E s \in Scripts(o) :
       /\ pc' = [pc EXCEPT ![c] = Place(s.ops)]
       /\ todo' = [todo EXCEPT ![c] = s.ops]
       /\ ends' = [ends EXCEPT ![c] = s.code]
  /\ call' = [call EXCEPT ![c] = o]
  /\ UNCHANGED <<held, age, waited, left, answer, slow, told, wrote>>

-----------------------------------------------------------------------------
(* The context of a call is over at its deadline, or when its client left. *)

\* Mutant: no deadline is added.
DeadlineAsSent(o) == o.deadline

\* timeoutInterceptor keeps the deadline a client sent, however far.
Deadline(o) == IF o.via = "grpc" /\ o.deadline = None THEN DefaultTimeout ELSE o.deadline

Over(c) == left[c] \/ age[c] = Deadline(call[c])

\* Whether a tick changes anything for the call.
Ages(c)  == Active(c) /\ Deadline(call[c]) # None /\ ~Over(c)
Waits(c) == pc[c] = "redis"

Connections == UNION {{c} \X (1..held[c]) : c \in Calls}

Free == Cardinality(Connections) < MaxOpen

\* Whether the service itself has something to do for the call: a wait for a
\* connection or for Redis ends with the context, a wait for Postgres does not.
Pending(c) ==
  \/ pc[c] \in {"queue", "redis"} /\ Over(c)
  \/ pc[c] = "queue" /\ Free
  \/ pc[c] = "redis" /\ waited[c] = RedisLimit

\* One second passes.
Tick ==
  /\ \A c \in Calls : ~Pending(c)
  /\ \E c \in Calls : Ages(c) \/ Waits(c)
  /\ age' = [c \in Calls |-> IF Ages(c) THEN age[c] + 1 ELSE age[c]]
  /\ waited' = [c \in Calls |-> IF Waits(c) THEN waited[c] + 1 ELSE waited[c]]
  /\ slow' = [c \in Calls |-> slow[c] \/ pc[c] \in {"queue", "sql"}]
  /\ UNCHANGED <<call, pc, todo, ends, held, left, answer, told, wrote>>

\* The client's connection closes: net/http cancels the request's context.
Leave(c) ==
  /\ Active(c) /\ ~left[c]
  /\ left' = [left EXCEPT ![c] = TRUE]
  /\ UNCHANGED <<call, pc, todo, ends, held, age, waited, answer, slow, told, wrote>>

-----------------------------------------------------------------------------
(* The steps of a call. *)

Finish(c, a) ==
  /\ pc' = [pc EXCEPT ![c] = "done"]
  /\ todo' = [todo EXCEPT ![c] = <<>>]
  /\ age' = [age EXCEPT ![c] = 0]
  /\ waited' = [waited EXCEPT ![c] = 0]
  /\ answer' = [answer EXCEPT ![c] = a]

Reply(c) ==
  IF ends[c] = "OK" /\ call[c].via = "grpc"
  THEN [code |-> "OK", out |-> Returned[call[c].method]] ELSE Failed(ends[c])

\* On to the next operation, or to the answer.
GoOn(c) ==
  IF Len(todo[c]) = 1 THEN Finish(c, Reply(c))
  ELSE /\ pc' = [pc EXCEPT ![c] = Place(Tail(todo[c]))]
       /\ todo' = [todo EXCEPT ![c] = Tail(@)]
       /\ waited' = [waited EXCEPT ![c] = 0]
       /\ UNCHANGED <<age, answer>>

\* SoftDelete takes any failure of its EXISTS query for a missing row.
Error(c, code) == Failed(IF Head(todo[c]) = "exists" THEN "NotFound" ELSE code)

\* database/sql hands out a connection; which of the waiting calls gets it is
\* its choice.
Connect(c) ==
  /\ pc[c] = "queue" /\ ~Over(c) /\ Free
  /\ pc' = [pc EXCEPT ![c] = "sql"]
  /\ held' = [held EXCEPT ![c] = @ + 1]
  /\ UNCHANGED <<call, todo, ends, age, waited, left, answer, slow, told, wrote>>

QueueCut(c) ==
  /\ pc[c] = "queue" /\ Over(c)
  /\ Finish(c, Error(c, "TooLate"))
  /\ UNCHANGED <<call, ends, held, left, slow, told, wrote>>

\* Mutant: the rows stay open while the users are counted.
ReleaseAtEnd(c) == IF Head(todo[c]) = "list" THEN held[c] ELSE 0

\* Every statement is read to its end, and its connection is free again.
Release(c) == 0

StatementEnds(c) ==
  /\ pc[c] = "sql"
  /\ held' = [held EXCEPT ![c] = Release(c)]
  /\ wrote' = [wrote EXCEPT ![c] = @ \/ Head(todo[c]) = "write"]
  /\ told' = [told EXCEPT ![c] = @ \/ Head(todo[c]) = "write"]
  /\ GoOn(c)
  /\ UNCHANGED <<call, ends, left, slow>>

\* A statement that ends in an error may have been committed.
Lost(c, code) ==
  /\ pc[c] = "sql"
  /\ held' = [held EXCEPT ![c] = 0]
  /\ \E w \in {wrote[c], Head(todo[c]) = "write"} : wrote' = [wrote EXCEPT ![c] = w]
  /\ Finish(c, Error(c, code))
  /\ UNCHANGED <<call, ends, left, slow, told>>

StatementFails(c) == Lost(c, "Unknown")

\* lib/pq asks Postgres to cancel the statement when the context is over, over
\* a connection of its own, and reads on: it is Postgres, or the network, that
\* ends the wait.  The error may then be the one of the context.
StatementCut(c) == pc[c] = "sql" /\ Over(c) /\ Lost(c, "TooLate")

\* The usecase drops the error of every command, so that it goes on the same
\* way whether Redis answered or not.
RedisEnds(c) ==
  /\ pc[c] = "redis"
  /\ GoOn(c)
  /\ UNCHANGED <<call, ends, held, left, slow, told, wrote>>

Hit(c) ==
  /\ pc[c] = "redis" /\ ~Over(c) /\ Head(todo[c]) = "get"
  /\ Finish(c, [code |-> "OK",
                out |-> IF call[c].via = "grpc" THEN ToUserProto(StoredUser) ELSE None])
  /\ UNCHANGED <<call, ends, held, left, slow, told, wrote>>

\* Mutant: a command that fails fails the call.
RedisFailsCall(c) ==
  /\ pc[c] = "redis" /\ (Over(c) \/ waited[c] = RedisLimit)
  /\ Finish(c, Failed("Unknown"))
  /\ UNCHANGED <<call, ends, held, left, slow, told, wrote>>

\* Mutant: go-redis waits as long as the context lasts.
RedisWaits(c) == pc[c] = "redis" /\ Over(c) /\ RedisEnds(c)

\* go-redis heeds the context, and has timeouts of its own.
RedisTimesOut(c) ==
  pc[c] = "redis" /\ (Over(c) \/ waited[c] = RedisLimit) /\ RedisEnds(c)

-----------------------------------------------------------------------------
Next ==
  \/ Tick
  \/ \E c \in Calls, o \in Offers : Stub(c, o) \/ Refuse(c, o) \/ Begin(c, o)
  \/ \E c \in Calls :
       \/ Leave(c) \/ Connect(c) \/ QueueCut(c)
       \/ StatementEnds(c) \/ StatementFails(c) \/ StatementCut(c)
       \/ RedisEnds(c) \/ Hit(c) \/ RedisTimesOut(c)

\* Time passes, and the service does its part.  Nothing makes a backend end a
\* statement, be it cancelled or not.
Fairness ==
  /\ WF_vars(Tick)
  /\ \A c \in Calls : /\ WF_vars(Connect(c)) /\ WF_vars(QueueCut(c))
                      /\ WF_vars(RedisTimesOut(c))

Spec == Init /\ [][Next]_vars /\ Fairness

-----------------------------------------------------------------------------
(* A gRPC call that runs out of time has waited for Postgres: Redis alone, *)
(* however long it hangs, never uses up the two seconds of a call that     *)
(* then finds no time left for its statement.  (GetUserByID would break    *)
(* it, which asks Redis first; under its name no RPC reaches it.)          *)
LateOnlyForPostgres ==
  \A c \in Calls : answer[c].code = "TooLate" /\ ~left[c] => slow[c]

(* Once Postgres has acknowledged the write of a call, the call is not     *)
(* answered with a failure, whatever becomes of the Redis commands, the    *)
(* deadline and the client afterwards.                                     *)
AcknowledgedWriteIsTold ==
  \A c \in Calls : told[c] /\ pc[c] = "done" => wrote[c] /\ answer[c].code = "OK"

(* Calls that wait for a connection wait for one whose statement is under  *)
(* way: no call holds one while it waits for another, and none is leaked.  *)
PoolMoves ==
  (\E c \in Calls : pc[c] = "queue") => Free \/ \E c \in Calls : pc[c] = "sql"

(* If Postgres ends no more than the statements it is asked to cancel,     *)
(* every gRPC call is answered: neither a Redis that hangs nor REST calls  *)
(* that hold the pool without a deadline keep it.                          *)
CancelIsEnough ==
  (\A c \in Calls : []<>~(pc[c] = "sql" /\ Over(c)))
    => \A c \in Calls : pc[c] # "idle" /\ call[c].via = "grpc" ~> pc[c] = "done"

(* If Postgres ends every statement, every call is answered, the REST      *)
(* calls that have no deadline too, though Redis never answers.            *)
PostgresIsEnough ==
  (\A c \in Calls : []<>(pc[c] # "sql")) => \A c \in Calls : <>[]~Active(c)
=============================================================================
