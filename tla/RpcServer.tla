------------------------------ MODULE RpcServer ------------------------------
(***************************************************************************)
(* The gRPC side of the service under clients that retry: the interceptor  *)
(* chain of pkg/grpcserver, the dispatch to the handlers that exist, the   *)
(* statement with which a handler writes, and the mapping of its error.    *)
(*                                                                         *)
(* A client sends its request, may stop waiting, and may send it again     *)
(* with the same idempotency key, while an attempt it gave up on is still  *)
(* running.  wired says whether the server was built with an idempotency   *)
(* store.  cmd/user/main.go builds it without one, and SetIdempotencyStore, *)
(* called later, does nothing: the program runs with wired = FALSE.        *)
(*                                                                         *)
(* One driver with one plate; a handler is its deciding statement (the     *)
(* statements around it are the subject of ProfileCache and Vehicles).     *)
(***************************************************************************)
EXTENDS Naturals

CONSTANTS Clients,
          Values,       \* names and vehicle types, whichever is written
          Unset,        \* no plate yet
          Keys, NoKey,  \* idempotency keys; the header is absent
          Tries,        \* bound: client -> how often it sends its request
          Scenarios     \* how the server may be built, and who sends what

Methods == {"UpdateUser", "DeleteUser", "RegisterVehicle", "GetUserById"}

Request == [method: Methods, key: Keys \cup {NoKey}, valid: BOOLEAN,
            expected: Nat, value: Values]

ASSUME RpcAssumption ==
  /\ Scenarios \subseteq [wired: BOOLEAN, request: [Clients -> Request]]
  /\ Tries \in [Clients -> Nat \ {0}]
  /\ NoKey \notin Keys /\ Unset \notin Values

Attempts == UNION {{c} \X (1..Tries[c]) : c \in Clients}

VARIABLES wired,    \* whether the server has an idempotency store
          request,  \* client -> the request it sends, again and again
          profile,  \* the driver's row: version, name, whether it is deleted
          plate,    \* the vehicle_type stored for the plate
          pc,       \* attempt -> where it is in the server
          status,   \* attempt -> the status it will be answered with
          sent,     \* client -> how many attempts it has made
          waiting,  \* client -> whether it waits for the last of them
          heard,    \* client -> the statuses it was answered with
          effects   \* history: client -> how often its request took effect

vars == <<wired, request, profile, plate, pc, status, sent, waiting, heard, effects>>

setup  == <<wired, request>>
rows   == <<profile, plate, effects>>
client == <<sent, waiting, heard>>

Sent(a) == request[a[1]]

PCs == {"unsent", "arrived", "lookup", "handler", "record", "reply", "over"}

Codes == {"OK", "AlreadyExists", "Internal", "InvalidArgument", "Unimplemented",
          "Unknown"}

TypeOK ==
  /\ wired \in BOOLEAN /\ request \in [Clients -> Request]
  /\ profile \in [version: Nat, name: Values \cup {Unset}, deleted: BOOLEAN]
  /\ plate \in Values \cup {Unset}
  /\ pc \in [Attempts -> PCs]
  /\ status \in [Attempts -> Codes \cup {"none"}]
  /\ sent \in [Clients -> Nat]
  /\ waiting \in [Clients -> BOOLEAN]
  /\ heard \in [Clients -> SUBSET Codes]
  /\ effects \in [Clients -> Nat]

Init ==
  /\ \E s \in Scenarios : wired = s.wired /\ request = s.request
  /\ profile = [version |-> 1, name |-> Unset, deleted |-> FALSE]
  /\ plate = Unset
  /\ pc = [a \in Attempts |-> "unsent"]
  /\ status = [a \in Attempts |-> "none"]
  /\ sent = [c \in Clients |-> 0]
  /\ waiting = [c \in Clients |-> FALSE]
  /\ heard = [c \in Clients |-> {}]
  /\ effects = [c \in Clients |-> 0]

-----------------------------------------------------------------------------
(* The client. *)

Send(c) ==
  /\ ~waiting[c] /\ sent[c] < Tries[c]
  /\ sent' = [sent EXCEPT ![c] = @ + 1]
  /\ waiting' = [waiting EXCEPT ![c] = TRUE]
  /\ pc' = [pc EXCEPT ![<<c, sent[c] + 1>>] = "arrived"]
  /\ UNCHANGED <<rows, status, heard>>

\* The client's own timeout, or a lost connection; the attempt goes on.
GiveUp(c) ==
  /\ waiting[c]
  /\ waiting' = [waiting EXCEPT ![c] = FALSE]
  /\ UNCHANGED <<rows, pc, status, sent, heard>>

-----------------------------------------------------------------------------
Goto(a, from, to) == pc[a] = from /\ pc' = [pc EXCEPT ![a] = to]

Finish(a, from, code) ==
  /\ Goto(a, from, "reply")
  /\ status' = [status EXCEPT ![a] = code]

(* mapError: the codes it does not list become Internal.  An error that is *)
(* not an AppError passes as it is and grpc reports it as Unknown, or as   *)
(* DeadlineExceeded when it is the context's; both stand as Unknown here.  *)
MapError == [VALIDATION |-> "Internal", CONFLICT |-> "AlreadyExists"]

(* The idempotency interceptor is in the chain only when there is a store. *)

IdempotentMethods == {"CreateUser", "UpdateUser", "UpsertDriver", "RegisterVehicle"}

Guarded(a) == wired /\ Sent(a).method \in IdempotentMethods

Pass(a) ==
  /\ ~Guarded(a)
  /\ Goto(a, "arrived", "handler")
  /\ UNCHANGED <<rows, client, status>>

RefuseKeyless(a) ==
  /\ Guarded(a) /\ Sent(a).key = NoKey
  /\ Finish(a, "arrived", "InvalidArgument")
  /\ UNCHANGED <<rows, client>>

BeginLookup(a) ==
  /\ Guarded(a) /\ Sent(a).key # NoKey
  /\ Goto(a, "arrived", "lookup")
  /\ UNCHANGED <<rows, client, status>>

\* Found or not, the handler runs: protoZero has no message to decode into.
Lookup(a) ==
  /\ Goto(a, "lookup", "handler")
  /\ UNCHANGED <<rows, client, status>>

\* The Put of the response: formatInterval writes 24 h as 86.4 microseconds and
\* a stray s, which is no interval, so the INSERT fails; the error is dropped.
Record(a) ==
  /\ Finish(a, "record", "OK")
  /\ UNCHANGED <<rows, client>>

-----------------------------------------------------------------------------
(* The handlers. *)

\* The generated service asks for GetUserById; the handler is GetUserByID, so
\* the embedded UnimplementedUserServiceServer answers.
Implemented(a) == Sent(a).method # "GetUserById"

Unimplemented(a) ==
  /\ ~Implemented(a)
  /\ Finish(a, "handler", "Unimplemented")
  /\ UNCHANGED <<rows, client>>

Invalid(a) ==
  /\ Implemented(a) /\ ~Sent(a).valid
  /\ Finish(a, "handler", MapError["VALIDATION"])
  /\ UNCHANGED <<rows, client>>

\* The handler went well: its response goes back through the interceptor.
Respond(a) ==
  IF Guarded(a) THEN Goto(a, "handler", "record") /\ UNCHANGED status
                ELSE Finish(a, "handler", "OK")

\* A statement of a committed; its outcome may be lost on the way back.
Committed(a) ==
  /\ effects' = [effects EXCEPT ![a[1]] = @ + 1]
  /\ Respond(a) \/ Finish(a, "handler", "Unknown")
  /\ UNCHANGED client

Serves(a, method) == pc[a] = "handler" /\ Sent(a).method = method /\ Sent(a).valid

\* Mutant: the version is not compared.
VersionIgnored(a) == ~profile.deleted

VersionMatches(a) == ~profile.deleted /\ profile.version = Sent(a).expected

UpdateUser(a) ==
  /\ Serves(a, "UpdateUser") /\ VersionMatches(a)
  /\ profile' = [version |-> profile.version + 1, name |-> Sent(a).value, deleted |-> FALSE]
  /\ Committed(a)
  /\ UNCHANGED plate

\* Mutant: no row updated is taken for success.
UpdateConflictSucceeds(a) ==
  /\ Serves(a, "UpdateUser") /\ ~VersionMatches(a)
  /\ Respond(a)
  /\ UNCHANGED <<rows, client>>

UpdateConflict(a) ==
  /\ Serves(a, "UpdateUser") /\ ~VersionMatches(a)
  /\ Finish(a, "handler", MapError["CONFLICT"])
  /\ UNCHANGED <<rows, client>>

DeleteUser(a) ==
  /\ Serves(a, "DeleteUser") /\ ~profile.deleted
  /\ profile' = [version |-> profile.version + 1, name |-> profile.name, deleted |-> TRUE]
  /\ Committed(a)
  /\ UNCHANGED plate

DeleteAgain(a) ==
  /\ Serves(a, "DeleteUser") /\ profile.deleted
  /\ Respond(a)
  /\ UNCHANGED <<rows, client>>

\* Inserted, or overwritten: the same statement.
RegisterVehicle(a) ==
  /\ Serves(a, "RegisterVehicle")
  /\ plate' = Sent(a).value
  /\ Committed(a)
  /\ UNCHANGED profile

\* A statement fails without effect, on its own or by the 2 s deadline.
StatementFails(a) ==
  /\ Implemented(a) /\ Sent(a).valid
  /\ Finish(a, "handler", "Unknown")
  /\ UNCHANGED <<rows, client>>

-----------------------------------------------------------------------------
\* The answer reaches the client if it still waits for this attempt.
Answer(a) ==
  /\ Goto(a, "reply", "over")
  /\ IF waiting[a[1]] /\ sent[a[1]] = a[2]
     THEN /\ heard' = [heard EXCEPT ![a[1]] = @ \cup {status[a]}]
          /\ waiting' = [waiting EXCEPT ![a[1]] = FALSE]
     ELSE UNCHANGED <<heard, waiting>>
  /\ status' = [status EXCEPT ![a] = "none"]
  /\ UNCHANGED <<rows, sent>>

Handle(a) ==
  \/ Unimplemented(a) \/ Invalid(a) \/ StatementFails(a)
  \/ UpdateUser(a) \/ UpdateConflict(a)
  \/ DeleteUser(a) \/ DeleteAgain(a)
  \/ RegisterVehicle(a)

Serve(a) ==
  \/ Pass(a) \/ RefuseKeyless(a) \/ BeginLookup(a) \/ Lookup(a)
  \/ Handle(a)
  \/ Record(a)
  \/ Answer(a)

Step == \/ \E c \in Clients : Send(c) \/ GiveUp(c)
        \/ \E a \in Attempts : Serve(a)

Next == Step /\ UNCHANGED setup

(* Whether every call ends is the question of CallPath.                    *)
Spec == Init /\ [][Next]_vars

-----------------------------------------------------------------------------
Updates(c) == request[c].method = "UpdateUser"

(* However often a client repeats an update, and whatever became of the    *)
(* attempts it gave up on, it is applied at most once, and of the clients  *)
(* that read one version at most one is ever applied.  No idempotency key  *)
(* is needed for that: the version is the guard.                           *)
UpdateAppliedOnce ==
  \A c, d \in Clients : Updates(c) /\ Updates(d) =>
    /\ effects[c] <= 1
    /\ c # d /\ request[c].expected = request[d].expected => effects[c] + effects[d] <= 1

(* What a client hears is what happened: OK to a write means that it took  *)
(* effect (a deletion may be another's), a refusal that does not depend on *)
(* the row that no attempt ever did, and a conflict answered to the only   *)
(* attempt that its update was not applied.                                *)
HeardIsTrue ==
  \A c \in Clients :
    /\ "OK" \in heard[c] =>
         effects[c] > 0 \/ (request[c].method = "DeleteUser" /\ profile.deleted)
    /\ heard[c] \cap {"Internal", "InvalidArgument", "Unimplemented"} # {} => effects[c] = 0
    /\ "AlreadyExists" \in heard[c] /\ sent[c] = 1 => effects[c] = 0

(* With a store, a guarded write without a key is never executed.          *)
KeylessWritesNothing ==
  wired => \A c \in Clients :
    request[c].method \in IdempotentMethods /\ request[c].key = NoKey => effects[c] = 0

-----------------------------------------------------------------------------
(* What a document says beyond that. *)

(* A replay with the same key does not execute the handler again.          *)
ReplayHasNoEffect ==
  [][\A c \in Clients :
       request[c].method \in IdempotentMethods /\ request[c].key # NoKey /\ "OK" \in heard[c]
         => effects'[c] = effects[c]]_vars
=============================================================================
