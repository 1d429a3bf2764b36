----------------------------- MODULE RestPipeline -----------------------------
(***************************************************************************)
(* The REST side of the service (internal/user/handler/http): the token    *)
(* check of jwtMiddleware (pkg/jwt), the lazy registration of              *)
(* upsertDriverMiddleware, the four handlers under /v1/me, and the HTTP    *)
(* statuses of pkg/utils, over one user_profile and one vehicle table.     *)
(*                                                                         *)
(* A caller is the goroutine of one request; a client that lost patience   *)
(* and tries again is a second caller with the same token.  Every SQL      *)
(* statement is one step.  GetUserByID is one step too, from Redis or from *)
(* Postgres: of the profile it shows only the id counts here, which no     *)
(* copy changes.  Names, e-mail and the attributes of a vehicle are left   *)
(* out, as is the wording of an answer.                                    *)
(***************************************************************************)
EXTENDS Naturals

CONSTANTS Callers,
          RowIds, NoId,    \* uuids of user_profile; no driver in the context
          ExtIds,          \* sub claims
          Phones,          \* E.164 numbers
          Blank,           \* the empty string, or only white space
          BadPhone,        \* a phone that is not E.164
          Plates,          \* normalised licence plates
          Signers, NoKey,  \* keys of issuers; SUPER_APP_JWT_PUBLIC_KEY_PEM is empty
          Configured,      \* the keys a process may be configured with
          Tokens,          \* the Authorization headers that are sent
          Calls, NoCall,   \* caller -> the requests it sends
          MaxVersion,      \* bound: edits stop at this version
          MaxTime          \* bound: the clock stops here

Routes == {"getMe", "updateMe", "listVehicles", "registerVehicle"}

(* An Authorization header.  header and claims: that part can be decoded;  *)
(* exp is 0 when the claim is absent.                                      *)
Token == [bearer: BOOLEAN, header: BOOLEAN, alg: {"RS256", "other"},
          claims: BOOLEAN, exp: Nat, signer: Signers,
          ext: ExtIds \cup {Blank}, phone: Phones \cup {Blank, BadPhone}]

(* bound: the body can be bound; valid: it passes Validate().              *)
Call == [route: Routes, token: Tokens, bound: BOOLEAN, valid: BOOLEAN,
         expected: Nat, plate: Plates]

Profile == [id: RowIds, ext: ExtIds, phone: Phones, deleted: BOOLEAN,
            version: Nat \ {0}]

ASSUME RestAssumption ==
  /\ Tokens \subseteq Token
  /\ Calls \in [Callers -> SUBSET Call] /\ NoCall \notin Call
  /\ Blank \notin ExtIds \cup Phones /\ BadPhone \notin Phones
  /\ NoId \notin RowIds /\ NoKey \notin Signers
  /\ Configured \subseteq Signers \cup {NoKey}
  /\ MaxVersion \in Nat \ {0} /\ MaxTime \in Nat

VARIABLES key,      \* the key this process was configured with
          now,      \* the clock, in the unit of exp
          rows,     \* user_profile
          plates,   \* vehicle: who owns which plate
          pc,       \* caller -> where its request is
          call,     \* caller -> its request
          since,    \* caller -> when it arrived
          driver,   \* caller -> driver_id of the gin context
          reply,    \* caller -> what it is answered
          did       \* history: caller -> what its request has written

vars == <<key, now, rows, plates, pc, call, since, driver, reply, did>>

tables  == <<rows, plates, did>>
context == <<key, now, call, since>>

PCs     == {"idle", "gate", "select", "insert", "reselect", "handler", "register", "reply"}
Running == PCs \ {"idle", "reply"}

\* utils.Error: the status of an error's code; an error without one is INTERNAL.
HttpStatus ==
  [VALIDATION |-> 400, UNAUTHENTICATED |-> 401, NOT_FOUND |-> 404, CONFLICT |-> 409,
   DOUBLE_BOOK |-> 409, LOCK_UNAVAILABLE |-> 409, INVALID_STATE |-> 409,
   IDEMPOTENCY_REPLAY |-> 409, UPSTREAM_DOWN |-> 503, INTERNAL |-> 500]

Statuses == {0, 200, 201, 400, 401, 404, 409, 500}

\* An answer: its status, the profile and the plates it shows.
Answer(status, id, shown) == [status |-> status, profile |-> id, plates |-> shown]
Unanswered   == Answer(0, NoId, {})
Refusal(why) == Answer(HttpStatus[why], NoId, {})

TypeOK ==
  /\ key \in Configured /\ now \in Nat
  /\ rows \subseteq Profile
  /\ plates \subseteq RowIds \X Plates
  /\ pc \in [Callers -> PCs]
  /\ call \in [Callers -> Call \cup {NoCall}]
  /\ since \in [Callers -> Nat]
  /\ driver \in [Callers -> RowIds \cup {NoId}]
  /\ reply \in [Callers -> [status: Statuses, profile: RowIds \cup {NoId},
                            plates: SUBSET Plates]]
  /\ did \in [Callers -> SUBSET {"enrolled", "edited", "registered"}]

Init ==
  /\ key \in Configured /\ now = 1
  /\ rows = {} /\ plates = {}
  /\ pc = [p \in Callers |-> "idle"]
  /\ call = [p \in Callers |-> NoCall]
  /\ since = [p \in Callers |-> 0]
  /\ driver = [p \in Callers |-> NoId]
  /\ reply = [p \in Callers |-> Unanswered]
  /\ did = [p \in Callers |-> {}]

Goto(p, from, to) == pc[p] = from /\ pc' = [pc EXCEPT ![p] = to]

Finish(p, from, answer) ==
  /\ Goto(p, from, "reply")
  /\ reply' = [reply EXCEPT ![p] = answer]

Writes(p, what) == did' = [did EXCEPT ![p] = @ \cup {what}]

-----------------------------------------------------------------------------
Arrive(p, c) ==
  /\ Goto(p, "idle", "gate")
  /\ call' = [call EXCEPT ![p] = c]
  /\ since' = [since EXCEPT ![p] = now]
  /\ UNCHANGED <<key, now, tables, driver, reply>>

Deliver(p) ==
  /\ Goto(p, "reply", "idle")
  /\ call' = [call EXCEPT ![p] = NoCall]
  /\ since' = [since EXCEPT ![p] = 0]
  /\ driver' = [driver EXCEPT ![p] = NoId]
  /\ reply' = [reply EXCEPT ![p] = Unanswered]
  /\ did' = [did EXCEPT ![p] = {}]
  /\ UNCHANGED <<key, now, rows, plates>>

Tick ==
  /\ now < MaxTime
  /\ now' = now + 1
  /\ UNCHANGED <<key, tables, pc, call, since, driver, reply>>

(* jwtMiddleware.  Parse checks the header, the algorithm, the claims,     *)
(* the expiry and at last the signature.                                   *)

TokenOf(p) == call[p].token

\* Mutant: exp is taken for milliseconds.
ExpiredInMillis(t) == t.exp > 0 /\ now > 1000 * t.exp

Expired(t) == t.exp > 0 /\ now > t.exp

Verifies(t) == key = NoKey \/ t.signer = key

Parse(t) ==
  IF ~t.header THEN "MALFORMED"
  ELSE IF t.alg # "RS256" THEN "UNSUPPORTED"
  ELSE IF ~t.claims THEN "MALFORMED"
  ELSE IF Expired(t) THEN "EXPIRED"
  ELSE IF ~Verifies(t) THEN "SIGNATURE"
  ELSE "OK"

Authentic(t) == t.bearer /\ Parse(t) = "OK"

Unauthenticated(p) ==
  /\ pc[p] = "gate" /\ ~Authentic(TokenOf(p))
  /\ Finish(p, "gate", Refusal("UNAUTHENTICATED"))
  /\ UNCHANGED <<context, tables, driver>>

\* UpsertDriver validates the claims before it asks the table.
ValidClaims(t) == t.ext # Blank /\ t.phone \in Phones

ClaimsRejected(p) ==
  /\ pc[p] = "gate" /\ Authentic(TokenOf(p)) /\ ~ValidClaims(TokenOf(p))
  /\ Finish(p, "gate", Refusal("VALIDATION"))
  /\ UNCHANGED <<context, tables, driver>>

Admit(p) ==
  /\ pc[p] = "gate" /\ Authentic(TokenOf(p)) /\ ValidClaims(TokenOf(p))
  /\ Goto(p, "gate", "select")
  /\ UNCHANGED <<context, tables, driver, reply>>

-----------------------------------------------------------------------------
(* upsertDriverMiddleware: GetOrCreateByMSISDN in its three statements.    *)

\* Mutant: the look-up that the name GetOrCreateByMSISDN suggests.
KnownByPhone(p) == {r \in rows : r.phone = TokenOf(p).phone}

Known(p) == {r \in rows : r.ext = TokenOf(p).ext}

FreshIds == RowIds \ {r.id : r \in rows}

\* driver_id is put into the context, and the handler is next.
Enter(p, from, id) ==
  /\ Goto(p, from, "handler")
  /\ driver' = [driver EXCEPT ![p] = id]

\* Mutant: a driver who signs in is activated again.
SelectHitRevives(p) ==
  /\ pc[p] = "select"
  /\ \E r \in Known(p) : /\ Enter(p, "select", r.id)
                        /\ rows' = (rows \ {r}) \cup {[r EXCEPT !.deleted = FALSE]}
  /\ UNCHANGED <<context, plates, did, reply>>

SelectHit(p) ==
  /\ pc[p] = "select"
  /\ \E r \in Known(p) : Enter(p, "select", r.id)
  /\ UNCHANGED <<context, tables, reply>>

SelectMiss(p) ==
  /\ Goto(p, "select", "insert")
  /\ Known(p) = {}
  /\ UNCHANGED <<context, tables, driver, reply>>

\* Mutant: the generated id is handed on although the transaction is lost.
InsertUncommitted(p, id) ==
  /\ pc[p] = "insert" /\ Known(p) = {}
  /\ Enter(p, "insert", id)
  /\ UNCHANGED <<context, tables, reply>>

\* The row is committed; its RETURNING may be lost on the way.
Insert(p, id) ==
  /\ pc[p] = "insert" /\ Known(p) = {}
  /\ rows' = rows \cup {[id |-> id, ext |-> TokenOf(p).ext, phone |-> TokenOf(p).phone,
                         deleted |-> FALSE, version |-> 1]}
  /\ Writes(p, "enrolled")
  /\ \/ Enter(p, "insert", id) /\ UNCHANGED reply
     \/ Finish(p, "insert", Refusal("INTERNAL")) /\ UNCHANGED driver
  /\ UNCHANGED <<context, plates>>

InsertConflict(p) ==
  /\ Goto(p, "insert", "reselect")
  /\ Known(p) # {}
  /\ UNCHANGED <<context, tables, driver, reply>>

Reselect(p) ==
  /\ pc[p] = "reselect"
  /\ \E r \in Known(p) : Enter(p, "reselect", r.id)
  /\ UNCHANGED <<context, tables, reply>>

-----------------------------------------------------------------------------
(* The handlers; each works on the driver_id of its context.               *)

Serves(p, route) == pc[p] = "handler" /\ call[p].route = route

Mine(p)   == {r \in rows : r.id = driver[p]}
Garage(p) == {n \in Plates : <<driver[p], n>> \in plates}

HasBody(p) == pc[p] = "handler" /\ call[p].route \in {"updateMe", "registerVehicle"}

\* ShouldBindJSON fails with a plain error, which utils.Error takes for INTERNAL.
BindFails(p) ==
  /\ HasBody(p) /\ ~call[p].bound
  /\ Finish(p, "handler", Refusal("INTERNAL"))
  /\ UNCHANGED <<context, tables, driver>>

BodyRejected(p) ==
  /\ HasBody(p) /\ call[p].bound /\ ~call[p].valid
  /\ Finish(p, "handler", Refusal("VALIDATION"))
  /\ UNCHANGED <<context, tables, driver>>

GetMe(p) ==
  /\ Serves(p, "getMe")
  /\ Finish(p, "handler", IF Mine(p) = {} THEN Refusal("NOT_FOUND")
                          ELSE Answer(200, driver[p], {}))
  /\ UNCHANGED <<context, tables, driver>>

ListVehicles(p) ==
  /\ Serves(p, "listVehicles")
  /\ Finish(p, "handler", Answer(200, NoId, Garage(p)))
  /\ UNCHANGED <<context, tables, driver>>

\* Mutant: the version is not compared, so that a stale edit wins.
EditableAnyVersion(p, r) == r \in Mine(p) /\ ~r.deleted

\* WHERE id = driver AND version = expected AND status != 'DELETED'
Editable(p, r) == r \in Mine(p) /\ r.version = call[p].expected /\ ~r.deleted

Bumped(r) == [r EXCEPT !.version = @ + 1]

UpdateMe(p) ==
  /\ Serves(p, "updateMe") /\ call[p].bound /\ call[p].valid
  /\ \E r \in rows :
       /\ Editable(p, r) /\ r.version < MaxVersion
       /\ rows' = (rows \ {r}) \cup {Bumped(r)}
  /\ Writes(p, "edited")
  /\ \/ Finish(p, "handler", Answer(200, driver[p], {}))
     \/ Finish(p, "handler", Refusal("INTERNAL"))
  /\ UNCHANGED <<context, plates, driver>>

\* Mutant: no row updated is taken for success.
UpdateMeNothingSucceeds(p) ==
  /\ Serves(p, "updateMe") /\ call[p].bound /\ call[p].valid
  /\ \A r \in rows : ~Editable(p, r)
  /\ Finish(p, "handler", Answer(200, driver[p], {}))
  /\ UNCHANGED <<context, tables, driver>>

UpdateMeNothing(p) ==
  /\ Serves(p, "updateMe") /\ call[p].bound /\ call[p].valid
  /\ \A r \in rows : ~Editable(p, r)
  /\ Finish(p, "handler", Refusal("CONFLICT"))
  /\ UNCHANGED <<context, tables, driver>>

\* RegisterVehicle looks the driver up, and writes in a second statement.
CheckDriver(p) ==
  /\ Serves(p, "registerVehicle") /\ call[p].bound /\ call[p].valid
  /\ IF Mine(p) = {} THEN Finish(p, "handler", Refusal("NOT_FOUND"))
                     ELSE Goto(p, "handler", "register") /\ UNCHANGED reply
  /\ UNCHANGED <<context, tables, driver>>

RegisterVehicle(p) ==
  /\ pc[p] = "register"
  /\ plates' = plates \cup {<<driver[p], call[p].plate>>}
  /\ Writes(p, "registered")
  /\ \/ Finish(p, "register", Answer(201, NoId, {call[p].plate}))
     \/ Finish(p, "register", Refusal("INTERNAL"))
  /\ UNCHANGED <<context, rows, driver>>

\* The connection fails, or the client went away and the context is cancelled.
StatementFails(p) ==
  /\ \E s \in Running \ {"gate"} : Finish(p, s, Refusal("INTERNAL"))
  /\ HasBody(p) => call[p].bound /\ call[p].valid
  /\ UNCHANGED <<context, tables, driver>>

(* The gRPC side edits and deletes drivers meanwhile.                      *)
OtherWrites ==
  /\ \E r \in rows :
       /\ ~r.deleted
       /\ \/ r.version < MaxVersion /\ rows' = (rows \ {r}) \cup {Bumped(r)}
          \/ rows' = (rows \ {r}) \cup {[Bumped(r) EXCEPT !.deleted = TRUE]}
  /\ UNCHANGED <<context, plates, did, pc, driver, reply>>

-----------------------------------------------------------------------------
Middleware(p) ==
  \/ Unauthenticated(p) \/ ClaimsRejected(p) \/ Admit(p)
  \/ SelectHit(p) \/ SelectMiss(p)
  \/ (\E id \in FreshIds : Insert(p, id)) \/ InsertConflict(p) \/ Reselect(p)

Handler(p) ==
  \/ BindFails(p) \/ BodyRejected(p)
  \/ GetMe(p) \/ ListVehicles(p)
  \/ UpdateMe(p) \/ UpdateMeNothing(p)
  \/ CheckDriver(p) \/ RegisterVehicle(p)

Serve(p) == Middleware(p) \/ Handler(p) \/ StatementFails(p)

Next ==
  \/ \E p \in Callers : (\E c \in Calls[p] : Arrive(p, c)) \/ Serve(p) \/ Deliver(p)
  \/ OtherWrites
  \/ Tick

Spec == Init /\ [][Next]_vars
-----------------------------------------------------------------------------
Own(p) == {r \in rows : r.ext = TokenOf(p).ext}

(* Whoever wrote or was shown anything had presented a bearer token under  *)
(* RS256 that had not expired when the request arrived and, if the process *)
(* has a key, was signed with it.  (Without a key there is no such check.) *)
OnlyAuthenticCallers ==
  \A p \in Callers : did[p] # {} \/ reply[p].status \in {200, 201} =>
    LET t == TokenOf(p) IN
    /\ t.bearer /\ t.alg = "RS256"
    /\ t.exp > 0 => since[p] <= t.exp
    /\ key # NoKey => t.signer = key

(* The status tells what happened.  A success is about the caller's own    *)
(* profile and plates, which are on record, and the write it acknowledges  *)
(* was done.  A call that is refused for its body or by a conflict has at  *)
(* most enrolled its caller, and an unauthenticated one has done nothing.  *)
AnswerIsTrue ==
  \A p \in Callers :
    LET a == reply[p] IN
    /\ a.status \in {200, 201} =>
         \E r \in Own(p) : /\ a.profile \in {NoId, r.id}
                           /\ \A n \in a.plates : <<r.id, n>> \in plates
    /\ a.status = 200 /\ call[p].route = "updateMe" => "edited" \in did[p]
    /\ a.status = 201 => "registered" \in did[p]
    /\ a.status \in {400, 409} => did[p] \subseteq {"enrolled"}
    /\ a.status = 401 => did[p] = {}

(* A caller behind the middleware is never told that he does not exist,    *)
(* whoever registered or deleted him in the meantime.                      *)
NobodyIsMissing == \A p \in Callers : reply[p].status # 404

(* A request touches the profile and the plates of its own identity only,  *)
(* also when two identities come with one phone number.                    *)
OwnDataOnly ==
  [][\A p \in Callers : did[p] # did'[p] /\ did'[p] # {} =>
       /\ \A r \in rows : r.ext # TokenOf(p).ext => r \in rows'
       /\ \A r \in rows' \ rows : r.ext = TokenOf(p).ext
       /\ \A v \in plates' \ plates :
            \E r \in rows : r.id = v[1] /\ r.ext = TokenOf(p).ext]_vars

(* A deleted driver who comes back passes the middleware, but his profile  *)
(* is not revived, edited or replaced.                                     *)
DeletedIsFrozen ==
  [][\A r \in rows : r.deleted => {s \in rows' : s.ext = r.ext} = {r}]_vars

(* What a client of the API sees of all this: the account and the plates   *)
(* of an identity, whether its request has been let in, and the answer.    *)
AccountOf(e) ==
  {[version |-> r.version, deleted |-> r.deleted] : r \in {s \in rows : s.ext = e}}

GarageOf(e) == {n \in Plates : \E r \in rows : r.ext = e /\ <<r.id, n>> \in plates}

StageOf(p) == CASE pc[p] = "idle"                    -> "idle"
                [] pc[p] \in {"handler", "register"} -> "inside"
                [] pc[p] = "reply"                   -> "answered"
                [] OTHER                             -> "outside"

RequestOf(c) == [who |-> c.token.ext, route |-> c.route, expected |-> c.expected,
                 plate |-> c.plate]

AskedBy(p) == IF call[p] = NoCall THEN NoCall ELSE RequestOf(call[p])

Named(id) == {r.ext : r \in {s \in rows : s.id = id}}

ShownTo(p) == [status |-> reply[p].status, who |-> Named(reply[p].profile),
               plates |-> reply[p].plates]

Book == INSTANCE AccountBook WITH
          Identities <- ExtIds, NoRequest <- NoCall,
          Requests <- [p \in Callers |-> {RequestOf(c) : c \in Calls[p]}],
          account <- [e \in ExtIds |-> AccountOf(e)],
          garage <- [e \in ExtIds |-> GarageOf(e)],
          stage <- [p \in Callers |-> StageOf(p)],
          asked <- [p \in Callers |-> AskedBy(p)],
          answer <- [p \in Callers |-> ShownTo(p)]

(* The statements of all requests together, with their lost races, two     *)
(* steps for one vehicle and edits from elsewhere in between, look to the  *)
(* clients like atomic operations on one account per identity.             *)
ImplementsAccounts == Book!Spec
=============================================================================
