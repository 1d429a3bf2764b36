------------------------------ MODULE RestProofs ------------------------------
(***************************************************************************)
(* Proofs about RestPipeline, for any callers, tokens, calls and keys.     *)
(* The inductive invariant says what a request carries past each stage:    *)
(* behind jwtMiddleware a token that was good when the request arrived,    *)
(* behind upsertDriverMiddleware a row with the token's sub and with the   *)
(* driver_id of the context; and that ids and subs are unique.             *)
(* The refinement of AccountBook needs besides that every id a plate or an *)
(* answer refers to is the id of a row (BookInv).                          *)
(***************************************************************************)
EXTENDS RestPipeline, TLAPS

Unique == \A r, s \in rows : r.id = s.id \/ r.ext = s.ext => r = s

Early == {"idle", "gate", "select", "insert", "reselect"}
Late  == {"handler", "register"}

\* The token was good when the request arrived, and names a driver.
Passed(p) ==
  LET t == TokenOf(p) IN
  /\ t.bearer /\ t.alg = "RS256"
  /\ t.exp > 0 => since[p] <= t.exp
  /\ key # NoKey => t.signer = key
  /\ t.ext \in ExtIds /\ t.phone \in Phones

Begun(p) == pc[p] # "idle" => call[p] \in Call /\ since[p] <= now

Admitted(p) == pc[p] \in {"select", "insert", "reselect"} \cup Late => Passed(p)

\* The row the driver_id of the context belongs to.
Home(p) == \E r \in rows : r.id = driver[p] /\ r.ext = TokenOf(p).ext

Deeds(p) ==
  /\ pc[p] \in Early => did[p] = {}
  /\ pc[p] \in Late => did[p] \subseteq {"enrolled"} /\ Home(p)

\* What AnswerIsTrue says of one caller.
True(p) ==
  LET a == reply[p] IN
  /\ a.status \in {200, 201} =>
       \E r \in Own(p) : /\ a.profile \in {NoId, r.id}
                         /\ \A n \in a.plates : <<r.id, n>> \in plates
  /\ a.status = 200 /\ call[p].route = "updateMe" => "edited" \in did[p]
  /\ a.status = 201 => "registered" \in did[p]
  /\ a.status \in {400, 409} => did[p] \subseteq {"enrolled"}
  /\ a.status = 401 => did[p] = {}

Told(p) ==
  /\ pc[p] # "reply" => reply[p] = Unanswered
  /\ pc[p] = "reply" => /\ did[p] # {} \/ reply[p].status \in {200, 201} => Passed(p)
                        /\ True(p) /\ reply[p].status # 404

PInv(p) == Begun(p) /\ Admitted(p) /\ Deeds(p) /\ Told(p)

IInv == TypeOK /\ Unique /\ \A p \in Callers : PInv(p)

\* The action properties, as steps.
OwnStep ==
  \A p \in Callers : did[p] # did'[p] /\ did'[p] # {} =>
    /\ \A r \in rows : r.ext # TokenOf(p).ext => r \in rows'
    /\ \A r \in rows' \ rows : r.ext = TokenOf(p).ext
    /\ \A v \in plates' \ plates : \E r \in rows : r.id = v[1] /\ r.ext = TokenOf(p).ext

FrozenStep == \A r \in rows : r.deleted => {s \in rows' : s.ext = r.ext} = {r}

Good == IInv' /\ OwnStep /\ FrozenStep

Same(p) ==
  /\ pc'[p] = pc[p] /\ call'[p] = call[p] /\ since'[p] = since[p]
  /\ driver'[p] = driver[p] /\ reply'[p] = reply[p] /\ did'[p] = did[p]

\* Rows keep their id and sub, and nothing is ever removed.
Grows ==
  /\ \A r \in rows : \E s \in rows' : s.id = r.id /\ s.ext = r.ext
  /\ plates \subseteq plates'
  /\ key' = key /\ now' \in Nat /\ now <= now'

-----------------------------------------------------------------------------
LEMMA Refusals ==
  ASSUME NEW why \in {"VALIDATION", "UNAUTHENTICATED", "NOT_FOUND", "CONFLICT", "INTERNAL"}
  PROVE  /\ Refusal(why) \in [status: Statuses, profile: RowIds \cup {NoId},
                              plates: SUBSET Plates]
         /\ Refusal(why).status =
              CASE why = "VALIDATION" -> 400 [] why = "UNAUTHENTICATED" -> 401
                [] why = "NOT_FOUND" -> 404 [] why = "CONFLICT" -> 409
                [] why = "INTERNAL" -> 500
  <1>1. HttpStatus[why] =
          CASE why = "VALIDATION" -> 400 [] why = "UNAUTHENTICATED" -> 401
            [] why = "NOT_FOUND" -> 404 [] why = "CONFLICT" -> 409
            [] why = "INTERNAL" -> 500
    BY DEF HttpStatus
  <1>2. HttpStatus[why] \in Statuses
    BY <1>1 DEF Statuses
  <1> QED
    BY <1>1, <1>2 DEF Refusal, Answer

LEMMA CallTyped ==
  ASSUME NEW c \in Call
  PROVE  /\ c.token \in Token /\ c.plate \in Plates /\ c.route \in Routes
         /\ c.expected \in Nat
  BY RestAssumption DEF Call

(* A caller a step does not concern.                                       *)
LEMMA SameKeeps ==
  ASSUME IInv, NEW p \in Callers, Same(p), Grows PROVE PInv(p)'
  <1>1. PInv(p)
    BY DEF IInv
  <1>2. Begun(p)'
    <2>1. since[p] \in Nat /\ now \in Nat
      BY DEF IInv, TypeOK
    <2> QED
      BY <1>1, <2>1 DEF PInv, Begun, Same, Grows
  <1>3. Passed(p) => Passed(p)'
    BY DEF Passed, TokenOf, Same, Grows
  <1>4. Home(p) => Home(p)'
    BY DEF Home, TokenOf, Same, Grows
  <1>5. Admitted(p)' /\ Deeds(p)'
    BY <1>1, <1>3, <1>4 DEF PInv, Admitted, Deeds, Same
  <1>6. True(p) => True(p)'
    <2> SUFFICES ASSUME True(p) PROVE True(p)'
      OBVIOUS
    <2>1. ASSUME reply[p].status \in {200, 201}
          PROVE  \E r \in Own(p)' : /\ reply[p].profile \in {NoId, r.id}
                                   /\ \A n \in reply[p].plates : <<r.id, n>> \in plates'
      <3>1. PICK r \in Own(p) : /\ reply[p].profile \in {NoId, r.id}
                                /\ \A n \in reply[p].plates : <<r.id, n>> \in plates
        BY <2>1 DEF True
      <3>2. PICK s \in rows' : s.id = r.id /\ s.ext = r.ext
        BY <3>1 DEF Own, Grows
      <3>3. s \in Own(p)'
        BY <3>1, <3>2 DEF Own, TokenOf, Same
      <3> QED
        BY <3>1, <3>2, <3>3 DEF Grows
    <2> QED
      BY <2>1 DEF True, Same
  <1>7. Told(p)'
    BY <1>1, <1>3, <1>6 DEF PInv, Told, Same
  <1> QED
    BY <1>2, <1>5, <1>7 DEF PInv

(* A step of one caller that leaves the tables alone.                      *)
LEMMA LocalGood ==
  ASSUME IInv, NEW p \in Callers, TypeOK', PInv(p)', UNCHANGED <<key, now, rows, plates>>,
         \A q \in Callers \ {p} : Same(q), did'[p] = did[p] \/ did'[p] = {}
  PROVE  Good
  <1>1. Grows
    BY DEF Grows, IInv, TypeOK
  <1>2. \A q \in Callers : PInv(q)'
    BY <1>1, SameKeeps
  <1>3. Unique'
    BY DEF IInv, Unique
  <1>4. OwnStep
    BY DEF OwnStep, Same
  <1>5. FrozenStep
    BY DEF FrozenStep, IInv, Unique
  <1> QED
    BY <1>2, <1>3, <1>4, <1>5 DEF Good, IInv

(* The step of a caller to its next stage.                                 *)
LEMMA GotoGood ==
  ASSUME IInv, NEW p \in Callers, NEW from \in Running, NEW to \in Running, Goto(p, from, to),
         UNCHANGED <<context, tables, driver, reply>>,
         to \in {"select", "insert", "reselect"} \cup Late => Passed(p),
         to \in Early => from \in Early,
         to \in Late => from \in Late
  PROVE  Good
  <1>1. TypeOK'
    BY DEF IInv, TypeOK, Goto, Running, PCs, context, tables
  <1>2. PInv(p) /\ pc[p] = from /\ pc'[p] = to
    BY DEF IInv, TypeOK, Goto
  <1>3. PInv(p)'
    BY <1>2 DEF PInv, Begun, Admitted, Deeds, Home, Told, Passed, TokenOf, Running, PCs,
                Early, Late, context, tables
  <1>4. \A q \in Callers \ {p} : Same(q)
    BY DEF Same, Goto, IInv, TypeOK, context, tables
  <1> QED
    BY <1>1, <1>3, <1>4, LocalGood DEF context, tables

(* A caller is answered with a, having written nothing with this step.     *)
LEMMA AnswerGood ==
  ASSUME IInv, NEW p \in Callers, NEW from \in Running, NEW a, Finish(p, from, a),
         UNCHANGED <<context, tables, driver>>,
         a \in [status: Statuses, profile: RowIds \cup {NoId}, plates: SUBSET Plates],
         a.status # 404,
         did[p] # {} \/ a.status \in {200, 201} => Passed(p),
         a.status \in {200, 201} =>
           \E r \in Own(p) : /\ a.profile \in {NoId, r.id}
                             /\ \A n \in a.plates : <<r.id, n>> \in plates,
         a.status = 200 => call[p].route # "updateMe", a.status # 201,
         a.status \in {400, 409} => did[p] \subseteq {"enrolled"},
         a.status = 401 => did[p] = {}
  PROVE  Good
  <1>1. TypeOK'
    BY DEF IInv, TypeOK, Finish, Goto, PCs, context, tables
  <1>2. PInv(p) /\ pc[p] = from /\ pc'[p] = "reply" /\ reply'[p] = a
    BY DEF IInv, TypeOK, Finish, Goto
  <1>3. True(p)'
    BY <1>2 DEF True, Own, TokenOf, context, tables
  <1>4. PInv(p)'
    BY <1>2, <1>3 DEF PInv, Begun, Admitted, Deeds, Told, Passed, TokenOf, Running, PCs,
                      Early, Late, context, tables
  <1>5. \A q \in Callers \ {p} : Same(q)
    BY DEF Same, Finish, Goto, IInv, TypeOK, context, tables
  <1> QED
    BY <1>1, <1>4, <1>5, LocalGood DEF context, tables

(* A refusal, which is an answer that shows nothing.                       *)
LEMMA RefusalGood ==
  ASSUME IInv, NEW p \in Callers, NEW from \in Running,
         NEW why \in {"VALIDATION", "UNAUTHENTICATED", "NOT_FOUND", "CONFLICT", "INTERNAL"},
         Finish(p, from, Refusal(why)), UNCHANGED <<context, tables, driver>>,
         why # "NOT_FOUND", why = "UNAUTHENTICATED" => from = "gate"
  PROVE  Good
  <1>1. PICK a : a = Refusal(why)
    OBVIOUS
  <1>2. /\ a \in [status: Statuses, profile: RowIds \cup {NoId}, plates: SUBSET Plates]
        /\ a.status \in {400, 401, 409, 500}
        /\ a.status = 401 => why = "UNAUTHENTICATED"
    BY <1>1, Refusals
  <1>3. PInv(p) /\ pc[p] = from
    BY DEF IInv, Finish, Goto
  <1>4. /\ did[p] # {} => Passed(p)
        /\ did[p] \subseteq {"enrolled"}
        /\ from = "gate" => did[p] = {}
    BY <1>3 DEF PInv, Admitted, Deeds, Running, PCs, Early, Late
  <1> QED
    BY <1>1, <1>2, <1>4, AnswerGood

(* A row of the caller's own is found.                                     *)
LEMMA EnterGood ==
  ASSUME IInv, NEW p \in Callers, NEW from \in {"select", "reselect"}, NEW r \in Known(p),
         Enter(p, from, r.id), UNCHANGED <<context, tables, reply>>
  PROVE  Good
  <1>1. r \in rows /\ r.id \in RowIds /\ r.ext = TokenOf(p).ext
    BY DEF Known, IInv, TypeOK, Profile
  <1>2. TypeOK'
    BY <1>1 DEF IInv, TypeOK, Enter, Goto, PCs, context, tables
  <1>3. PInv(p) /\ pc[p] = from /\ pc'[p] = "handler" /\ driver'[p] = r.id
    BY DEF IInv, TypeOK, Enter, Goto
  <1>4. PInv(p)'
    <2>1. Home(p)'
      BY <1>1, <1>3 DEF Home, TokenOf, context, tables
    <2>2. Passed(p)' /\ did'[p] = {}
      BY <1>3 DEF PInv, Admitted, Deeds, Passed, TokenOf, Early, context, tables
    <2> QED
      BY <1>3, <2>1, <2>2 DEF PInv, Begun, Admitted, Deeds, Told, Early, Late, context, tables
  <1>5. \A q \in Callers \ {p} : Same(q)
    BY DEF Same, Enter, Goto, IInv, TypeOK, context, tables
  <1> QED
    BY <1>2, <1>4, <1>5, LocalGood DEF context, tables

-----------------------------------------------------------------------------
LEMMA InitIInv == Init => IInv
  <1> SUFFICES ASSUME Init PROVE IInv
    OBVIOUS
  <1>1. TypeOK
    BY DEF Init, TypeOK, PCs, Unanswered, Answer, Statuses
  <1>2. ASSUME NEW p \in Callers PROVE PInv(p)
    BY DEF Init, PInv, Begun, Admitted, Deeds, Told, Early, Late
  <1> QED
    BY <1>1, <1>2 DEF IInv, Unique, Init

LEMMA ArriveGood ==
  ASSUME IInv, NEW p \in Callers, NEW c \in Calls[p], Arrive(p, c) PROVE Good
  <1>1. c \in Call
    BY RestAssumption
  <1>2. TypeOK'
    BY <1>1 DEF IInv, TypeOK, Arrive, Goto, PCs, tables
  <1>3. PInv(p) /\ pc[p] = "idle" /\ pc'[p] = "gate" /\ call'[p] = c /\ since'[p] = now
    BY DEF IInv, TypeOK, Arrive, Goto
  <1>4. now \in Nat
    BY DEF IInv, TypeOK
  <1>5. PInv(p)'
    BY <1>1, <1>3, <1>4 DEF Arrive, PInv, Begun, Admitted, Deeds, Told, Early, Late, tables
  <1>6. \A q \in Callers \ {p} : Same(q)
    BY DEF Same, Arrive, Goto, IInv, TypeOK, tables
  <1> QED
    BY <1>2, <1>5, <1>6, LocalGood DEF Arrive, tables

LEMMA DeliverGood == ASSUME IInv, NEW p \in Callers, Deliver(p) PROVE Good
  <1>1. TypeOK'
    BY DEF IInv, TypeOK, Deliver, Goto, PCs, Unanswered, Answer, Statuses
  <1>2. pc'[p] = "idle" /\ reply'[p] = Unanswered /\ did'[p] = {}
    BY DEF IInv, TypeOK, Deliver, Goto
  <1>3. PInv(p)'
    BY <1>2 DEF PInv, Begun, Admitted, Deeds, Told, Early, Late
  <1>4. \A q \in Callers \ {p} : Same(q)
    BY DEF Same, Deliver, Goto, IInv, TypeOK
  <1> QED
    BY <1>1, <1>2, <1>3, <1>4, LocalGood DEF Deliver

LEMMA TickGood == ASSUME IInv, Tick PROVE Good
  <1>1. TypeOK' /\ Grows
    BY DEF IInv, TypeOK, Tick, tables, Grows
  <1>2. \A q \in Callers : PInv(q)'
    BY <1>1, SameKeeps DEF Tick, Same, tables
  <1>3. Unique' /\ OwnStep /\ FrozenStep
    BY DEF IInv, Unique, Tick, tables, OwnStep, FrozenStep
  <1> QED
    BY <1>1, <1>2, <1>3 DEF Good, IInv

(* What jwtMiddleware and the validation of the claims establish.          *)
LEMMA AuthenticPasses ==
  ASSUME IInv, NEW p \in Callers, pc[p] = "gate", Authentic(TokenOf(p)),
         ValidClaims(TokenOf(p))
  PROVE  Passed(p)
  <1>1. call[p] \in Call /\ since[p] <= now /\ since[p] \in Nat /\ now \in Nat
    BY DEF IInv, TypeOK, PInv, Begun
  <1>2. TokenOf(p) \in Token
    BY <1>1, CallTyped DEF TokenOf
  <1>3. PICK t \in Token : t = TokenOf(p)
    BY <1>2
  <1>4. t.bearer /\ t.alg = "RS256" /\ ~Expired(t) /\ Verifies(t)
    BY <1>3 DEF Authentic, Parse
  <1>5. t.exp \in Nat /\ t.ext \in ExtIds \cup {Blank} /\ t.phone \in Phones \cup {Blank, BadPhone}
    BY DEF Token
  <1>6. t.exp > 0 => since[p] <= t.exp
    BY <1>1, <1>4, <1>5 DEF Expired
  <1>7. key # NoKey => t.signer = key
    BY <1>4 DEF Verifies
  <1>8. t.ext \in ExtIds /\ t.phone \in Phones
    BY <1>3, <1>5 DEF ValidClaims
  <1> QED
    BY <1>3, <1>4, <1>6, <1>7, <1>8 DEF Passed

LEMMA GateGood ==
  ASSUME IInv, NEW p \in Callers, Unauthenticated(p) \/ ClaimsRejected(p) \/ Admit(p)
  PROVE  Good
  <1>1. CASE Unauthenticated(p)
    BY <1>1, RefusalGood DEF Unauthenticated, Running, PCs
  <1>2. CASE ClaimsRejected(p)
    BY <1>2, RefusalGood DEF ClaimsRejected, Running, PCs
  <1>3. CASE Admit(p)
    BY <1>3, AuthenticPasses, GotoGood DEF Admit, Running, PCs, Early, Late
  <1> QED
    BY <1>1, <1>2, <1>3

LEMMA EnrolGood ==
  ASSUME IInv, NEW p \in Callers,
         SelectHit(p) \/ SelectMiss(p) \/ InsertConflict(p) \/ Reselect(p)
  PROVE  Good
  <1>1. pc[p] \in {"select", "insert", "reselect"} /\ PInv(p) /\ Passed(p)
    BY DEF SelectHit, SelectMiss, InsertConflict, Reselect, Goto, IInv, PInv, Admitted
  <1>2. CASE SelectHit(p)
    BY <1>2, EnterGood DEF SelectHit
  <1>3. CASE Reselect(p)
    BY <1>3, EnterGood DEF Reselect
  <1>4. CASE SelectMiss(p)
    BY <1>1, <1>4, GotoGood DEF SelectMiss, Running, PCs, Early, Late
  <1>5. CASE InsertConflict(p)
    BY <1>1, <1>5, GotoGood DEF InsertConflict, Running, PCs, Early, Late
  <1> QED
    BY <1>2, <1>3, <1>4, <1>5

-----------------------------------------------------------------------------
(* The steps that write.                                                   *)

\* A step of one caller that writes, put together.
LEMMA WriteGood ==
  ASSUME IInv, NEW p \in Callers, TypeOK', Unique', PInv(p)', Grows, FrozenStep,
         \A q \in Callers \ {p} : Same(q),
         \A r \in rows : r.ext # TokenOf(p).ext => r \in rows',
         \A r \in rows' \ rows : r.ext = TokenOf(p).ext,
         \A v \in plates' \ plates : \E r \in rows : r.id = v[1] /\ r.ext = TokenOf(p).ext
  PROVE  Good
  <1>1. \A q \in Callers : PInv(q)'
    BY SameKeeps
  <1>2. OwnStep
    BY DEF OwnStep, Same
  <1> QED
    BY <1>1, <1>2 DEF Good, IInv

LEMMA AnswerTyped ==
  ASSUME NEW s \in Statuses, NEW i \in RowIds \cup {NoId}, NEW n \in SUBSET Plates
  PROVE  /\ Answer(s, i, n) \in [status: Statuses, profile: RowIds \cup {NoId},
                                 plates: SUBSET Plates]
         /\ Answer(s, i, n).status = s /\ Answer(s, i, n).profile = i
         /\ Answer(s, i, n).plates = n
  BY DEF Answer

LEMMA InsertGood ==
  ASSUME IInv, NEW p \in Callers, NEW id \in FreshIds, Insert(p, id) PROVE Good
  <1>1. pc[p] = "insert" /\ PInv(p) /\ Passed(p) /\ did[p] = {} /\ Known(p) = {}
    BY DEF Insert, IInv, PInv, Admitted, Deeds, Early
  <1> DEFINE new == [id |-> id, ext |-> TokenOf(p).ext, phone |-> TokenOf(p).phone,
                     deleted |-> FALSE, version |-> 1]
  <1>2. new \in Profile /\ new.id = id /\ new.ext = TokenOf(p).ext /\ id \in RowIds
    BY <1>1 DEF Passed, Profile, FreshIds
  <1>3. /\ rows' = rows \cup {new} /\ plates' = plates /\ UNCHANGED context
        /\ did' = [did EXCEPT ![p] = @ \cup {"enrolled"}]
    BY DEF Insert, Writes
  <1> HIDE DEF new
  <1>4. \A r \in rows : r.id # id /\ r.ext # new.ext
    BY <1>1, <1>2 DEF Known, FreshIds
  <1>5. Unique' /\ FrozenStep
    BY <1>2, <1>3, <1>4 DEF IInv, Unique, FrozenStep
  <1>6. Grows
    BY <1>3 DEF Grows, IInv, TypeOK, context
  <1>7. \A q \in Callers \ {p} : Same(q)
    BY <1>3 DEF Insert, Same, Enter, Finish, Goto, IInv, TypeOK, context
  <1>8. did'[p] = {"enrolled"}
    BY <1>1, <1>3 DEF IInv, TypeOK
  <1>9. /\ Passed(p)' /\ Begun(p)'
        /\ TokenOf(p)' = TokenOf(p)
    BY <1>1, <1>3 DEF PInv, Passed, Begun, TokenOf, Insert, context
  <1>10. rows' \subseteq Profile /\ did' \in [Callers -> SUBSET {"enrolled", "edited", "registered"}]
    BY <1>2, <1>3 DEF IInv, TypeOK
  <1>11. CASE Enter(p, "insert", id) /\ UNCHANGED reply
    <2>1. pc'[p] = "handler" /\ driver'[p] = id /\ reply'[p] = Unanswered
      BY <1>1, <1>11 DEF Enter, Goto, IInv, TypeOK, PInv, Told
    <2>2. Home(p)'
      BY <1>2, <1>3, <1>9, <2>1 DEF Home
    <2>3. PInv(p)'
      BY <1>8, <1>9, <2>1, <2>2 DEF PInv, Admitted, Deeds, Told, Early, Late
    <2>4. TypeOK'
      BY <1>2, <1>3, <1>10, <1>11 DEF IInv, TypeOK, Enter, Goto, PCs, context
    <2> QED
      BY <1>2, <1>3, <1>5, <1>6, <1>7, <2>3, <2>4, WriteGood
  <1>12. CASE Finish(p, "insert", Refusal("INTERNAL")) /\ UNCHANGED driver
    <2>1. PICK a : a = Refusal("INTERNAL")
      OBVIOUS
    <2>2. a \in [status: Statuses, profile: RowIds \cup {NoId}, plates: SUBSET Plates]
          /\ a.status = 500
      BY <2>1, Refusals
    <2>3. pc'[p] = "reply" /\ reply'[p] = a
      BY <1>12, <2>1 DEF Finish, Goto, IInv, TypeOK
    <2>4. True(p)'
      BY <2>2, <2>3 DEF True
    <2>5. PInv(p)'
      BY <1>9, <2>2, <2>3, <2>4 DEF PInv, Admitted, Deeds, Told, Early, Late
    <2>6. TypeOK'
      BY <1>3, <1>10, <1>12, <2>1, <2>2 DEF IInv, TypeOK, Finish, Goto, PCs, context
    <2> QED
      BY <1>2, <1>3, <1>5, <1>6, <1>7, <2>5, <2>6, WriteGood
  <1> QED
    BY <1>11, <1>12 DEF Insert

(* A row that is not deleted is replaced by one with its id and sub.       *)
LEMMA Replaced ==
  ASSUME IInv, NEW r \in rows, ~r.deleted, NEW n \in Profile, n.id = r.id, n.ext = r.ext,
         rows' = (rows \ {r}) \cup {n}, UNCHANGED <<key, now, plates>>
  PROVE  /\ Unique' /\ FrozenStep /\ Grows /\ rows' \subseteq Profile
         /\ \A s \in rows' \ rows : s = n
         /\ \A s \in rows : s # r => s \in rows'
  <1>1. Unique'
    BY DEF IInv, Unique
  <1>2. FrozenStep
    BY DEF IInv, Unique, FrozenStep
  <1>3. Grows
    BY DEF Grows, IInv, TypeOK
  <1>4. rows' \subseteq Profile
    BY DEF IInv, TypeOK
  <1> QED
    BY <1>1, <1>2, <1>3, <1>4

LEMMA BumpedTyped ==
  ASSUME NEW r \in Profile
  PROVE  /\ Bumped(r) \in Profile /\ Bumped(r).id = r.id /\ Bumped(r).ext = r.ext
         /\ [Bumped(r) EXCEPT !.deleted = TRUE] \in Profile
         /\ [Bumped(r) EXCEPT !.deleted = TRUE].id = r.id
         /\ [Bumped(r) EXCEPT !.deleted = TRUE].ext = r.ext
  <1>1. r.version + 1 \in Nat \ {0}
    BY DEF Profile
  <1> QED
    BY <1>1 DEF Bumped, Profile

LEMMA OtherWritesGood == ASSUME IInv, OtherWrites PROVE Good
  <1>1. PICK r \in rows, n \in Profile :
          ~r.deleted /\ n.id = r.id /\ n.ext = r.ext /\ rows' = (rows \ {r}) \cup {n}
    BY BumpedTyped DEF OtherWrites, IInv, TypeOK
  <1>2. UNCHANGED <<key, now, plates, did, call, since, pc, driver, reply>>
    BY DEF OtherWrites, context
  <1>3. Unique' /\ FrozenStep /\ Grows /\ rows' \subseteq Profile
    BY <1>1, <1>2, Replaced
  <1>4. TypeOK'
    BY <1>2, <1>3 DEF IInv, TypeOK
  <1>5. \A q \in Callers : PInv(q)'
    BY <1>2, <1>3, SameKeeps DEF Same
  <1>6. OwnStep
    BY <1>2 DEF OwnStep
  <1> QED
    BY <1>3, <1>4, <1>5, <1>6 DEF Good, IInv

(* What a handler knows of its caller.                                     *)
LEMMA AtHandler ==
  ASSUME IInv, NEW p \in Callers, pc[p] \in Late
  PROVE  /\ Passed(p) /\ did[p] \subseteq {"enrolled"} /\ call[p] \in Call /\ Begun(p)
         /\ driver[p] \in RowIds /\ PInv(p) /\ reply[p] = Unanswered
         /\ \E r \in Own(p) : r.id = driver[p] /\ Mine(p) = {r}
  <1>1. PInv(p) /\ Home(p)
    BY DEF IInv, PInv, Deeds
  <1>2. PICK r \in rows : r.id = driver[p] /\ r.ext = TokenOf(p).ext
    BY <1>1 DEF Home
  <1>3. r \in Own(p) /\ Mine(p) = {r} /\ r.id \in RowIds
    BY <1>2 DEF Own, Mine, IInv, Unique, TypeOK, Profile
  <1> QED
    BY <1>1, <1>2, <1>3 DEF PInv, Admitted, Deeds, Begun, Told, Late

LEMMA UpdateMeGood == ASSUME IInv, NEW p \in Callers, UpdateMe(p) PROVE Good
  <1>1. pc[p] = "handler" /\ pc[p] \in Late /\ call[p].route = "updateMe"
    BY DEF UpdateMe, Serves, Late
  <1>2. PICK h \in Own(p) : h.id = driver[p] /\ Mine(p) = {h}
    BY <1>1, AtHandler
  <1>3. /\ Passed(p) /\ did[p] \subseteq {"enrolled"} /\ Begun(p) /\ driver[p] \in RowIds
        /\ h \in rows /\ h.ext = TokenOf(p).ext
    BY <1>1, <1>2, AtHandler DEF Own
  <1>4. ~h.deleted /\ rows' = (rows \ {h}) \cup {Bumped(h)}
    BY <1>2 DEF UpdateMe, Editable
  <1>5. /\ UNCHANGED <<key, now, plates, call, since, driver>>
        /\ did' = [did EXCEPT ![p] = @ \cup {"edited"}]
    BY DEF UpdateMe, Writes, context
  <1>6. Bumped(h) \in Profile /\ Bumped(h).id = h.id /\ Bumped(h).ext = h.ext
    BY <1>3, BumpedTyped DEF IInv, TypeOK
  <1>7. /\ Unique' /\ FrozenStep /\ Grows /\ rows' \subseteq Profile
        /\ \A s \in rows' \ rows : s = Bumped(h)
        /\ \A s \in rows : s # h => s \in rows'
    <2>1. PICK n \in Profile : n = Bumped(h)
      BY <1>6
    <2> QED
      BY <1>3, <1>4, <1>5, <1>6, <2>1, Replaced
  <1>8. PICK a : /\ Finish(p, "handler", a)
                 /\ a = Answer(200, driver[p], {}) \/ a = Refusal("INTERNAL")
    BY DEF UpdateMe
  <1>9. /\ a \in [status: Statuses, profile: RowIds \cup {NoId}, plates: SUBSET Plates]
        /\ a.status \in {200, 500} /\ (a.status = 200 => a.profile = h.id /\ a.plates = {})
    <2>1. CASE a = Answer(200, driver[p], {})
      BY <1>2, <1>3, <2>1, AnswerTyped DEF Statuses
    <2>2. CASE a = Refusal("INTERNAL")
      BY <2>2, Refusals
    <2> QED
      BY <1>8, <2>1, <2>2
  <1>10. TypeOK'
    BY <1>5, <1>7, <1>8, <1>9 DEF IInv, TypeOK, Finish, Goto, PCs
  <1>11. pc'[p] = "reply" /\ reply'[p] = a /\ "edited" \in did'[p]
    BY <1>5, <1>8 DEF Finish, Goto, IInv, TypeOK
  <1>12. Bumped(h) \in Own(p)' /\ Bumped(h).id = h.id
    BY <1>3, <1>4, <1>5, <1>6 DEF Own, TokenOf
  <1>13. True(p)'
    BY <1>9, <1>11, <1>12 DEF True
  <1>14. Passed(p)' /\ Begun(p)'
    BY <1>3, <1>5, <1>1 DEF Passed, TokenOf, Begun
  <1>15. PInv(p)'
    BY <1>9, <1>11, <1>13, <1>14 DEF PInv, Admitted, Deeds, Told, Early, Late
  <1>16. \A q \in Callers \ {p} : Same(q)
    BY <1>5, <1>8 DEF Same, Finish, Goto, IInv, TypeOK
  <1> QED
    BY <1>3, <1>5, <1>6, <1>7, <1>10, <1>15, <1>16, WriteGood

LEMMA RegisterVehicleGood ==
  ASSUME IInv, NEW p \in Callers, RegisterVehicle(p) PROVE Good
  <1>1. pc[p] = "register" /\ pc[p] \in Late
    BY DEF RegisterVehicle, Late
  <1>2. PICK h \in Own(p) : h.id = driver[p] /\ Mine(p) = {h}
    BY <1>1, AtHandler
  <1>3. /\ Passed(p) /\ did[p] \subseteq {"enrolled"} /\ Begun(p) /\ driver[p] \in RowIds
        /\ h \in rows /\ h.ext = TokenOf(p).ext /\ call[p].plate \in Plates
    BY <1>1, <1>2, AtHandler, CallTyped DEF Own
  <1>4. /\ UNCHANGED <<key, now, rows, call, since, driver>>
        /\ plates' = plates \cup {<<driver[p], call[p].plate>>}
        /\ did' = [did EXCEPT ![p] = @ \cup {"registered"}]
    BY DEF RegisterVehicle, Writes, context
  <1>5. Unique' /\ FrozenStep /\ Grows
    BY <1>4 DEF IInv, Unique, FrozenStep, Grows, TypeOK
  <1>6. PICK a : /\ Finish(p, "register", a)
                 /\ a = Answer(201, NoId, {call[p].plate}) \/ a = Refusal("INTERNAL")
    BY DEF RegisterVehicle
  <1>7. /\ a \in [status: Statuses, profile: RowIds \cup {NoId}, plates: SUBSET Plates]
        /\ a.status \in {201, 500}
        /\ a.status = 201 => a.profile = NoId /\ a.plates = {call[p].plate}
    <2>1. CASE a = Answer(201, NoId, {call[p].plate})
      BY <1>3, <2>1, AnswerTyped DEF Statuses
    <2>2. CASE a = Refusal("INTERNAL")
      BY <2>2, Refusals
    <2> QED
      BY <1>6, <2>1, <2>2
  <1>8. TypeOK'
    <2>1. plates' \subseteq RowIds \X Plates
      BY <1>3, <1>4 DEF IInv, TypeOK
    <2> QED
      BY <1>4, <1>6, <1>7, <2>1 DEF IInv, TypeOK, Finish, Goto, PCs
  <1>9. pc'[p] = "reply" /\ reply'[p] = a /\ "registered" \in did'[p]
    BY <1>4, <1>6 DEF Finish, Goto, IInv, TypeOK
  <1>10. h \in Own(p)' /\ <<h.id, call[p].plate>> \in plates'
    BY <1>2, <1>4 DEF Own, TokenOf
  <1>11. True(p)'
    BY <1>7, <1>9, <1>10 DEF True
  <1>12. Passed(p)' /\ Begun(p)'
    BY <1>1, <1>3, <1>4 DEF Passed, TokenOf, Begun
  <1>13. PInv(p)'
    BY <1>7, <1>9, <1>11, <1>12 DEF PInv, Admitted, Deeds, Told, Early, Late
  <1>14. \A q \in Callers \ {p} : Same(q)
    BY <1>4, <1>6 DEF Same, Finish, Goto, IInv, TypeOK
  <1>15. \A v \in plates' \ plates : v[1] = h.id
    BY <1>2, <1>4
  <1> QED
    BY <1>3, <1>4, <1>5, <1>8, <1>13, <1>14, <1>15, WriteGood

-----------------------------------------------------------------------------
(* The steps that only read.                                               *)
LEMMA RefusingGood ==
  ASSUME IInv, NEW p \in Callers,
         BindFails(p) \/ BodyRejected(p) \/ UpdateMeNothing(p) \/ StatementFails(p)
  PROVE  Good
  <1>1. PICK from \in Running \ {"gate"}, why \in {"VALIDATION", "CONFLICT", "INTERNAL"} :
          Finish(p, from, Refusal(why)) /\ UNCHANGED <<context, tables, driver>>
    BY DEF BindFails, BodyRejected, UpdateMeNothing, StatementFails, Running, PCs
  <1> QED
    BY <1>1, RefusalGood

LEMMA GetMeGood == ASSUME IInv, NEW p \in Callers, GetMe(p) PROVE Good
  <1>1. pc[p] = "handler" /\ pc[p] \in Late /\ call[p].route = "getMe"
        /\ UNCHANGED <<context, tables, driver>>
    BY DEF GetMe, Serves, Late
  <1>2. PICK h \in Own(p) : h.id = driver[p] /\ Mine(p) = {h}
    BY <1>1, AtHandler
  <1>3. Passed(p) /\ driver[p] \in RowIds
    BY <1>1, AtHandler
  <1>4. PICK a : a = Answer(200, driver[p], {})
    OBVIOUS
  <1>5. Finish(p, "handler", a)
    BY <1>2, <1>4 DEF GetMe
  <1>6. /\ a \in [status: Statuses, profile: RowIds \cup {NoId}, plates: SUBSET Plates]
        /\ a.status = 200 /\ a.profile = driver[p] /\ a.plates = {}
    BY <1>3, <1>4, AnswerTyped DEF Statuses
  <1>7. \E r \in Own(p) : /\ a.profile \in {NoId, r.id}
                          /\ \A n \in a.plates : <<r.id, n>> \in plates
    BY <1>2, <1>6
  <1> QED
    BY <1>1, <1>3, <1>5, <1>6, <1>7, AnswerGood DEF Running, PCs

LEMMA ListVehiclesGood == ASSUME IInv, NEW p \in Callers, ListVehicles(p) PROVE Good
  <1>1. pc[p] = "handler" /\ pc[p] \in Late /\ call[p].route = "listVehicles"
        /\ UNCHANGED <<context, tables, driver>>
    BY DEF ListVehicles, Serves, Late
  <1>2. PICK h \in Own(p) : h.id = driver[p] /\ Mine(p) = {h}
    BY <1>1, AtHandler
  <1>3. Passed(p)
    BY <1>1, AtHandler
  <1>4. PICK a : a = Answer(200, NoId, Garage(p)) /\ Garage(p) \in SUBSET Plates
    BY DEF Garage
  <1>5. Finish(p, "handler", a)
    BY <1>4 DEF ListVehicles
  <1>6. /\ a \in [status: Statuses, profile: RowIds \cup {NoId}, plates: SUBSET Plates]
        /\ a.status = 200 /\ a.profile = NoId /\ a.plates = Garage(p)
    BY <1>4, AnswerTyped DEF Statuses
  <1>7. \E r \in Own(p) : /\ a.profile \in {NoId, r.id}
                          /\ \A n \in a.plates : <<r.id, n>> \in plates
    BY <1>2, <1>6 DEF Garage
  <1> QED
    BY <1>1, <1>3, <1>5, <1>6, <1>7, AnswerGood DEF Running, PCs

LEMMA CheckDriverGood == ASSUME IInv, NEW p \in Callers, CheckDriver(p) PROVE Good
  <1>1. pc[p] = "handler" /\ pc[p] \in Late /\ UNCHANGED <<context, tables, driver>>
    BY DEF CheckDriver, Serves, Late
  <1>2. Mine(p) # {} /\ Passed(p)
    BY <1>1, AtHandler
  <1>3. Goto(p, "handler", "register") /\ UNCHANGED reply
    BY <1>2 DEF CheckDriver
  <1> QED
    BY <1>1, <1>2, <1>3, GotoGood DEF Running, PCs, Early, Late

LEMMA StutterGood == ASSUME IInv, UNCHANGED vars PROVE Good
  <1>1. TypeOK' /\ Grows /\ Unique' /\ OwnStep /\ FrozenStep
    BY DEF vars, IInv, TypeOK, Grows, Unique, OwnStep, FrozenStep
  <1>2. \A q \in Callers : PInv(q)'
    BY <1>1, SameKeeps DEF vars, Same
  <1> QED
    BY <1>1, <1>2 DEF Good, IInv

LEMMA StepGood == IInv /\ [Next]_vars => Good
  <1> SUFFICES ASSUME IInv, [Next]_vars PROVE Good
    OBVIOUS
  <1>1. CASE UNCHANGED vars
    BY <1>1, StutterGood
  <1>2. CASE OtherWrites \/ Tick
    BY <1>2, OtherWritesGood, TickGood
  <1>3. ASSUME NEW p \in Callers, (\E c \in Calls[p] : Arrive(p, c)) \/ Deliver(p)
        PROVE  Good
    BY <1>3, ArriveGood, DeliverGood
  <1>4. ASSUME NEW p \in Callers, Middleware(p) PROVE Good
    BY <1>4, GateGood, EnrolGood, InsertGood DEF Middleware
  <1>5. ASSUME NEW p \in Callers, Handler(p) \/ StatementFails(p) PROVE Good
    BY <1>5, RefusingGood, GetMeGood, ListVehiclesGood, UpdateMeGood, CheckDriverGood,
       RegisterVehicleGood DEF Handler
  <1> QED
    BY <1>1, <1>2, <1>3, <1>4, <1>5 DEF Next, Serve

THEOREM Inductive == Spec => []IInv
  BY InitIInv, StepGood, PTL DEF Spec, Good

-----------------------------------------------------------------------------
(* Every answer has a status of the list, and what it shows is typed.      *)
THEOREM TypeCorrect == Spec => []TypeOK
  BY Inductive, PTL DEF IInv

(* Nobody gets past the middleware with a token that was not good.         *)
THEOREM CallersAreAuthentic == Spec => []OnlyAuthenticCallers
  <1>1. ASSUME IInv PROVE OnlyAuthenticCallers
    <2> SUFFICES ASSUME NEW p \in Callers, did[p] # {} \/ reply[p].status \in {200, 201}
                 PROVE  Passed(p)
      BY DEF OnlyAuthenticCallers, Passed
    <2>1. PInv(p) /\ pc[p] \in PCs
      BY <1>1 DEF IInv, TypeOK
    <2>2. pc[p] \in Late \cup {"reply"}
      BY <2>1 DEF PInv, Deeds, Told, Early, Late, PCs, Unanswered, Answer
    <2> QED
      BY <2>1, <2>2 DEF PInv, Admitted, Told, Late
  <1> QED
    BY <1>1, Inductive, PTL

(* The status of an answer tells what the request did.                     *)
THEOREM AnswersAreTrue == Spec => []AnswerIsTrue
  <1>1. ASSUME IInv PROVE AnswerIsTrue
    <2> SUFFICES ASSUME NEW p \in Callers PROVE True(p)
      BY DEF AnswerIsTrue, True
    <2>1. Told(p)
      BY <1>1 DEF IInv, PInv
    <2>2. CASE pc[p] = "reply"
      BY <2>1, <2>2 DEF Told
    <2>3. CASE pc[p] # "reply"
      BY <2>1, <2>3 DEF Told, True, Unanswered, Answer
    <2> QED
      BY <2>2, <2>3
  <1> QED
    BY <1>1, Inductive, PTL

(* Nobody behind the middleware is told that he does not exist.            *)
THEOREM NobodyIsMissed == Spec => []NobodyIsMissing
  <1>1. ASSUME IInv, NEW p \in Callers PROVE reply[p].status # 404
    <2>1. Told(p)
      BY <1>1 DEF IInv, PInv
    <2>2. Unanswered.status = 0
      BY DEF Unanswered, Answer
    <2> QED
      BY <2>1, <2>2 DEF Told
  <1>2. IInv => NobodyIsMissing
    BY <1>1 DEF NobodyIsMissing
  <1> QED
    BY <1>2, Inductive, PTL

(* A request writes to the profile and the plates of its own sub only.     *)
THEOREM WritesAreOwn == Spec => OwnDataOnly
  <1>1. IInv /\ [Next]_vars => [OwnStep]_vars
    BY StepGood DEF Good
  <1> QED
    BY <1>1, Inductive, PTL DEF Spec, OwnDataOnly, OwnStep

(* No request revives, edits or replaces a deleted profile.                *)
THEOREM DeletedStaysFrozen == Spec => DeletedIsFrozen
  <1>1. IInv /\ [Next]_vars => [FrozenStep]_vars
    BY StepGood DEF Good
  <1> QED
    BY <1>1, Inductive, PTL DEF Spec, DeletedIsFrozen, FrozenStep

-----------------------------------------------------------------------------
(* The implementation of AccountBook.  A request is let in when its own    *)
(* row is found or stored, and does its one thing at its last statement.   *)

\* The variables of the book.
Accounts == [e \in ExtIds |-> AccountOf(e)]
Garages  == [e \in ExtIds |-> GarageOf(e)]
Stages   == [p \in Callers |-> StageOf(p)]
Asked    == [p \in Callers |-> AskedBy(p)]
Answers  == [p \in Callers |-> ShownTo(p)]

\* What a plate or an answer refers to is on record.
Ids == {r.id : r \in rows}

BookInv ==
  /\ IInv
  /\ \A v \in plates : v[1] \in Ids
  /\ \A p \in Callers : reply[p].profile # NoId => reply[p].profile \in Ids
  /\ \A p \in Callers : pc[p] = "register" => call[p].route = "registerVehicle"

LEMMA InitBookInv == Init => BookInv
  BY InitIInv DEF BookInv, Init, Unanswered, Answer

\* A row is never removed, so what is listed stays listed.
LEMMA StaysListed ==
  ASSUME IInv, [Next]_vars
  PROVE  Ids \subseteq Ids'
  <1>1. \/ rows \subseteq rows'
        \/ \E r \in rows, n \in Profile : n.id = r.id /\ rows' = (rows \ {r}) \cup {n}
    <2>1. CASE OtherWrites
      BY <2>1, BumpedTyped DEF OtherWrites, IInv, TypeOK
    <2>2. ASSUME NEW p \in Callers, UpdateMe(p)
          PROVE  \E r \in rows, n \in Profile : n.id = r.id /\ rows' = (rows \ {r}) \cup {n}
      BY <2>2, BumpedTyped DEF UpdateMe, IInv, TypeOK
    <2>3. CASE Tick \/ UNCHANGED vars
      BY <2>3 DEF Tick, tables, vars
    <2>4. ASSUME NEW p \in Callers, (\E c \in Calls[p] : Arrive(p, c)) \/ Deliver(p)
          PROVE  rows \subseteq rows'
      BY <2>4 DEF Arrive, Deliver, tables
    <2>5. ASSUME NEW p \in Callers, Middleware(p)
          PROVE  rows \subseteq rows'
      BY <2>5 DEF Middleware, Unauthenticated, ClaimsRejected, Admit, SelectHit, SelectMiss,
                  Insert, InsertConflict, Reselect, tables
    <2>6. ASSUME NEW p \in Callers, Handler(p) \/ StatementFails(p), ~UpdateMe(p)
          PROVE  rows \subseteq rows'
      BY <2>6 DEF Handler, StatementFails, BindFails, BodyRejected, GetMe, ListVehicles,
                  UpdateMeNothing, CheckDriver, RegisterVehicle, tables
    <2> QED
      BY <2>1, <2>2, <2>3, <2>4, <2>5, <2>6 DEF Next, Serve
  <1> QED
    BY <1>1 DEF Ids

\* A plate is registered for, and an answer shows, the driver of the context.
LEMMA NewReferences ==
  ASSUME IInv, [Next]_vars
  PROVE  /\ \A v \in plates' \ plates : \E p \in Callers : pc[p] \in Late /\ v[1] = driver[p]
         /\ \A p \in Callers :
              \/ reply'[p] = reply[p]
              \/ reply'[p].profile = NoId
              \/ pc[p] \in Late /\ reply'[p].profile = driver[p]
  <1> DEFINE Plain(q) == \/ reply'[q] = reply[q]
                         \/ reply'[q].profile = NoId
                         \/ pc[q] \in Late /\ reply'[q].profile = driver[q]
             Kept == plates' = plates
  <1>0. /\ reply \in [Callers -> [status: Statuses, profile: RowIds \cup {NoId},
                                  plates: SUBSET Plates]]
        /\ \A why : Refusal(why).profile = NoId
        /\ Unanswered.profile = NoId
        /\ \A s, i, n : Answer(s, i, n).profile = i
    BY DEF IInv, TypeOK, Refusal, Unanswered, Answer
  <1>1. ASSUME NEW p \in Callers, NEW from, NEW a, Finish(p, from, a),
               a.profile = NoId \/ (pc[p] \in Late /\ a.profile = driver[p])
        PROVE  \A q \in Callers : Plain(q)
    BY <1>0, <1>1 DEF Finish
  <1>2. ASSUME NEW p \in Callers, NEW from, NEW why, Finish(p, from, Refusal(why))
        PROVE  \A q \in Callers : Plain(q)
    BY <1>0, <1>1, <1>2
  <1> HIDE DEF Plain
  <1>3. ASSUME OtherWrites \/ Tick \/ UNCHANGED vars
        PROVE  Kept /\ \A q \in Callers : Plain(q)
    BY <1>3 DEF OtherWrites, Tick, tables, vars, Plain
  <1>4. ASSUME NEW p \in Callers, (\E c \in Calls[p] : Arrive(p, c)) \/ Deliver(p)
        PROVE  Kept /\ \A q \in Callers : Plain(q)
    BY <1>0, <1>4 DEF Arrive, Deliver, tables, Plain
  <1>5. ASSUME NEW p \in Callers, Middleware(p)
        PROVE  Kept /\ \A q \in Callers : Plain(q)
    <2>1. Kept
      BY <1>5 DEF Middleware, Unauthenticated, ClaimsRejected, Admit, SelectHit, SelectMiss,
                  Insert, InsertConflict, Reselect, tables
    <2>2. \/ reply' = reply
          \/ \E from, why : Finish(p, from, Refusal(why))
      BY <1>5 DEF Middleware, Unauthenticated, ClaimsRejected, Admit, SelectHit, SelectMiss,
                  Insert, InsertConflict, Reselect
    <2>3. CASE reply' = reply
      BY <2>1, <2>3 DEF Plain
    <2> QED
      BY <1>2, <2>1, <2>2, <2>3
  <1>6. ASSUME NEW p \in Callers,
               BindFails(p) \/ BodyRejected(p) \/ UpdateMeNothing(p) \/ StatementFails(p)
        PROVE  Kept /\ \A q \in Callers : Plain(q)
    <2>1. Kept
      BY <1>6 DEF BindFails, BodyRejected, UpdateMeNothing, StatementFails, tables
    <2>2. \E from, why : Finish(p, from, Refusal(why))
      BY <1>6 DEF BindFails, BodyRejected, UpdateMeNothing, StatementFails
    <2> QED
      BY <1>2, <2>1, <2>2
  <1>7. ASSUME NEW p \in Callers,
               GetMe(p) \/ ListVehicles(p) \/ UpdateMe(p) \/ CheckDriver(p) \/ RegisterVehicle(p)
        PROVE  \A q \in Callers : Plain(q)
    <2>1. pc[p] \in Late
      BY <1>7 DEF GetMe, ListVehicles, UpdateMe, CheckDriver, RegisterVehicle, Serves, Late
    <2>2. \/ reply' = reply
          \/ \E from, why : Finish(p, from, Refusal(why))
          \/ \E from, s, n, i : i \in {NoId, driver[p]} /\ Finish(p, from, Answer(s, i, n))
      BY <1>7 DEF GetMe, ListVehicles, UpdateMe, CheckDriver, RegisterVehicle
    <2>3. CASE reply' = reply
      BY <2>1, <2>3 DEF Plain
    <2>4. CASE \E from, s, n, i : i \in {NoId, driver[p]} /\ Finish(p, from, Answer(s, i, n))
      BY <1>0, <1>1, <2>1, <2>4
    <2> QED
      BY <1>2, <2>2, <2>3, <2>4
  <1>8. ASSUME NEW p \in Callers,
               GetMe(p) \/ ListVehicles(p) \/ UpdateMe(p) \/ CheckDriver(p)
        PROVE  Kept
    BY <1>8 DEF GetMe, ListVehicles, UpdateMe, CheckDriver, tables
  <1>9. ASSUME NEW p \in Callers, RegisterVehicle(p)
        PROVE  pc[p] \in Late /\ plates' = plates \cup {<<driver[p], call[p].plate>>}
    BY <1>9 DEF RegisterVehicle, Late
  <1>10. \A q \in Callers : Plain(q)
    BY <1>3, <1>4, <1>5, <1>6, <1>7 DEF Next, Serve, Handler
  <1>11. \/ Kept
         \/ \E p \in Callers : pc[p] \in Late /\ plates' = plates \cup {<<driver[p], call[p].plate>>}
    BY <1>3, <1>4, <1>5, <1>6, <1>8, <1>9 DEF Next, Serve, Handler
  <1>12. \A v \in plates' \ plates : \E p \in Callers : pc[p] \in Late /\ v[1] = driver[p]
    BY <1>11
  <1> QED
    BY <1>10, <1>12 DEF Plain

\* Only CheckDriver leads to the second statement of a registration.
LEMMA RegisterFollowsCheck ==
  ASSUME IInv, [Next]_vars, NEW q \in Callers, pc'[q] = "register"
  PROVE  call'[q] = call[q] /\ (pc[q] = "register" \/ call[q].route = "registerVehicle")
  <1>1. CASE OtherWrites \/ Tick \/ UNCHANGED vars
    BY <1>1 DEF OtherWrites, Tick, context, vars
  <1>2. ASSUME NEW p \in Callers, (\E c \in Calls[p] : Arrive(p, c)) \/ Deliver(p)
        PROVE  call'[q] = call[q] /\ pc[q] = "register"
    BY <1>2 DEF IInv, TypeOK, Arrive, Deliver, Goto
  <1>3. ASSUME NEW p \in Callers, Serve(p), ~CheckDriver(p)
        PROVE  call'[q] = call[q] /\ pc[q] = "register"
    <2>1. call' = call
      BY <1>3 DEF Serve, Middleware, Handler, Unauthenticated, ClaimsRejected, Admit, SelectHit,
                  SelectMiss, Insert, InsertConflict, Reselect, BindFails, BodyRejected, GetMe,
                  ListVehicles, UpdateMe, UpdateMeNothing, RegisterVehicle, StatementFails, context
    <2>2. \E from, to : Goto(p, from, to) /\ to # "register"
      BY <1>3 DEF Serve, Middleware, Handler, Unauthenticated, ClaimsRejected, Admit, SelectHit,
                  SelectMiss, Insert, InsertConflict, Reselect, BindFails, BodyRejected, GetMe,
                  ListVehicles, UpdateMe, UpdateMeNothing, RegisterVehicle, StatementFails,
                  Enter, Finish
    <2> QED
      BY <2>1, <2>2 DEF IInv, TypeOK, Goto
  <1>4. ASSUME NEW p \in Callers, CheckDriver(p)
        PROVE  /\ call'[q] = call[q]
               /\ pc[q] = "register" \/ call[q].route = "registerVehicle"
    BY <1>4 DEF IInv, TypeOK, CheckDriver, Serves, Finish, Goto, context
  <1> QED
    BY <1>1, <1>2, <1>3, <1>4 DEF Next

LEMMA StepBookInv == BookInv /\ [Next]_vars => BookInv'
  <1> SUFFICES ASSUME BookInv, [Next]_vars PROVE BookInv'
    OBVIOUS
  <1>1. IInv /\ IInv'
    BY StepGood DEF BookInv, Good
  <1>2. Ids \subseteq Ids'
    BY <1>1, StaysListed
  <1>3. ASSUME NEW p \in Callers, pc[p] \in Late PROVE driver[p] \in Ids
    BY <1>1, <1>3, AtHandler DEF Own, Ids
  <1>4. \A v \in plates' : v[1] \in Ids'
    BY <1>1, <1>2, <1>3, NewReferences DEF BookInv
  <1>5. \A p \in Callers : reply'[p].profile # NoId => reply'[p].profile \in Ids'
    BY <1>1, <1>2, <1>3, NewReferences DEF BookInv
  <1>6. \A p \in Callers : pc'[p] = "register" => call'[p].route = "registerVehicle"
    BY <1>1, RegisterFollowsCheck DEF BookInv
  <1> QED
    BY <1>1, <1>4, <1>5, <1>6 DEF BookInv

\* The callers a step does not concern, and what they were shown.
Apart(p) ==
  \A q \in Callers \ {p} :
    Same(q) /\ {r.ext : r \in {s \in rows' : s.id = reply[q].profile}} = Named(reply[q].profile)

LEMMA ApartKeeps ==
  ASSUME NEW p \in Callers, Apart(p), NEW q \in Callers \ {p}
  PROVE  StageOf(q)' = StageOf(q) /\ AskedBy(q)' = AskedBy(q) /\ ShownTo(q)' = ShownTo(q)
  BY DEF Apart, Same, StageOf, AskedBy, ShownTo, Named

\* What a step of p does to the variables that have a place for each caller.
LEMMA OneMoves ==
  ASSUME NEW p \in Callers, Apart(p)
  PROVE  /\ Stages' = [Stages EXCEPT ![p] = StageOf(p)']
         /\ Asked' = [Asked EXCEPT ![p] = AskedBy(p)']
         /\ Answers' = [Answers EXCEPT ![p] = ShownTo(p)']
         /\ Stages[p] = StageOf(p) /\ Asked[p] = AskedBy(p) /\ Answers[p] = ShownTo(p)
         /\ StageOf(p)' = StageOf(p) => Stages' = Stages
         /\ AskedBy(p)' = AskedBy(p) => Asked' = Asked
         /\ ShownTo(p)' = ShownTo(p) => Answers' = Answers
  BY ApartKeeps DEF Stages, Asked, Answers

\* A request as the book has it.
LEMMA AskedIs ==
  ASSUME IInv, NEW p \in Callers, pc[p] # "idle"
  PROVE  /\ Asked[p] = RequestOf(call[p]) /\ Book!Who(p) = TokenOf(p).ext
         /\ Asked[p].route = call[p].route /\ Asked[p].expected = call[p].expected
         /\ Asked[p].plate = call[p].plate
  <1>1. call[p] # NoCall
    BY RestAssumption DEF IInv, PInv, Begun
  <1> QED
    BY <1>1 DEF Asked, AskedBy, RequestOf, Book!Who, TokenOf

LEMMA StageIs ==
  ASSUME NEW p
  PROVE  /\ pc[p] = "idle" => StageOf(p) = "idle"
         /\ pc[p] \in {"gate", "select", "insert", "reselect"} => StageOf(p) = "outside"
         /\ pc[p] \in Late => StageOf(p) = "inside"
         /\ pc[p] = "reply" => StageOf(p) = "answered"
  BY DEF StageOf, Late

\* Nobody has no name.
LEMMA NobodyIsNamed == ASSUME IInv PROVE Named(NoId) = {}
  BY RestAssumption DEF IInv, TypeOK, Profile, Named

LEMMA NamedIs ==
  ASSUME IInv, NEW r \in rows
  PROVE  Named(r.id) = {r.ext} /\ r.ext \in ExtIds /\ r.id \in RowIds
  BY DEF IInv, Unique, TypeOK, Profile, Named

\* The same tables are the same book.
LEMMA SameBook ==
  ASSUME UNCHANGED <<rows, plates>>
  PROVE  Accounts' = Accounts /\ Garages' = Garages /\ \A id : Named(id)' = Named(id)
  <1>1. \A e : AccountOf(e)' = AccountOf(e) /\ GarageOf(e)' = GarageOf(e)
    BY DEF AccountOf, GarageOf
  <1> QED
    BY <1>1 DEF Accounts, Garages, Named

\* Where an identity has a row, the book has that row's account.
Face(r) == [version |-> r.version, deleted |-> r.deleted]

LEMMA AccountIs ==
  ASSUME IInv
  PROVE  /\ \A r \in rows : AccountOf(r.ext) = {Face(r)}
         /\ \A e : {r \in rows : r.ext = e} = {} <=> AccountOf(e) = {}
  <1>1. ASSUME NEW r \in rows PROVE {s \in rows : s.ext = r.ext} = {r}
    BY DEF IInv, Unique
  <1>2. ASSUME NEW r \in rows PROVE AccountOf(r.ext) = {Face(r)}
    BY <1>1, <1>2 DEF AccountOf, Face
  <1>3. ASSUME NEW e PROVE {r \in rows : r.ext = e} = {} <=> AccountOf(e) = {}
    BY DEF AccountOf
  <1> QED
    BY <1>2, <1>3

LEMMA GarageIs ==
  ASSUME IInv, NEW r \in rows
  PROVE  GarageOf(r.ext) = {n \in Plates : <<r.id, n>> \in plates}
  BY DEF IInv, Unique, GarageOf

-----------------------------------------------------------------------------
(* The stages of a request.                                                *)

\* A caller is answered with a.
LEMMA EndsIs ==
  ASSUME NEW p \in Callers, Apart(p), NEW st, StageOf(p) = st,
         NEW from, NEW a, Finish(p, from, a), pc \in [Callers -> PCs],
         DOMAIN reply = Callers, UNCHANGED call,
         NEW b, b = [status |-> a.status, who |-> Named(a.profile)', plates |-> a.plates]
  PROVE  Book!Ends(p, st, b)
  <1>1. pc'[p] = "reply" /\ reply'[p] = a
    BY DEF Finish, Goto
  <1>2. StageOf(p)' = "answered" /\ ShownTo(p)' = b /\ AskedBy(p)' = AskedBy(p)
    BY <1>1 DEF StageOf, ShownTo, AskedBy
  <1>3. Stages[p] = st /\ Stages' = [Stages EXCEPT ![p] = "answered"]
        /\ Asked' = Asked /\ Answers' = [Answers EXCEPT ![p] = b]
    BY <1>2, OneMoves
  <1> QED
    BY <1>3 DEF Book!Ends, Book!Move, Stages, Asked, Answers

\* An answer that shows nothing.
LEMMA RefusalEnds ==
  ASSUME BookInv, NEW p \in Callers, Apart(p), IInv', NEW from \in Running,
         NEW why \in {"VALIDATION", "UNAUTHENTICATED", "CONFLICT", "INTERNAL"},
         Finish(p, from, Refusal(why)), UNCHANGED call
  PROVE  Book!Ends(p, StageOf(p), Book!Says(HttpStatus[why], {}, {}))
  <1>1. /\ IInv /\ pc \in [Callers -> PCs] /\ DOMAIN reply = Callers
    BY DEF BookInv, IInv, TypeOK
  <1>2. Named(NoId)' = {}
    BY RestAssumption DEF IInv, TypeOK, Profile, Named
  <1>3. Book!Says(HttpStatus[why], {}, {}) =
          [status |-> Refusal(why).status, who |-> Named(Refusal(why).profile)',
           plates |-> Refusal(why).plates]
    BY <1>2 DEF Book!Says, Refusal, Answer
  <1> QED
    BY <1>1, <1>3, EndsIs

\* A step that leaves the tables alone and is one caller's.
Quiet(p) == UNCHANGED <<rows, plates>> /\ \A q \in Callers \ {p} : Same(q)

LEMMA QuietApart ==
  ASSUME NEW p \in Callers, Quiet(p)
  PROVE  Apart(p) /\ Accounts' = Accounts /\ Garages' = Garages
  BY SameBook DEF Quiet, Apart, Named

LEMMA QuietStep ==
  ASSUME IInv, NEW p \in Callers,
         \/ \E c \in Calls[p] : Arrive(p, c)
         \/ Deliver(p) \/ Unauthenticated(p) \/ ClaimsRejected(p) \/ Admit(p)
         \/ SelectHit(p) \/ SelectMiss(p) \/ InsertConflict(p) \/ Reselect(p)
         \/ BindFails(p) \/ BodyRejected(p) \/ GetMe(p) \/ ListVehicles(p)
         \/ UpdateMeNothing(p) \/ CheckDriver(p) \/ StatementFails(p)
  PROVE  Quiet(p)
  <1>1. CASE \/ \E c \in Calls[p] : Arrive(p, c)
             \/ Deliver(p) \/ Admit(p) \/ SelectMiss(p) \/ InsertConflict(p)
    BY <1>1 DEF IInv, TypeOK, Quiet, Same, Arrive, Deliver, Admit, SelectMiss, InsertConflict,
                Goto, tables, context
  <1>2. CASE SelectHit(p) \/ Reselect(p)
    BY <1>2 DEF IInv, TypeOK, Quiet, Same, SelectHit, Reselect, Enter, Goto, tables, context
  <1>3. CASE \/ Unauthenticated(p) \/ ClaimsRejected(p) \/ BindFails(p) \/ BodyRejected(p)
             \/ GetMe(p) \/ ListVehicles(p) \/ UpdateMeNothing(p) \/ StatementFails(p)
             \/ CheckDriver(p)
    <2>1. /\ UNCHANGED <<context, tables, driver>>
          /\ \/ \E from, a : Finish(p, from, a)
             \/ \E from, to : Goto(p, from, to) /\ UNCHANGED reply
      BY <1>3 DEF Unauthenticated, ClaimsRejected, BindFails, BodyRejected, GetMe, ListVehicles,
                  UpdateMeNothing, StatementFails, CheckDriver
    <2> QED
      BY <2>1 DEF IInv, TypeOK, Quiet, Same, Finish, Goto, tables, context
  <1> QED
    BY <1>1, <1>2, <1>3

-----------------------------------------------------------------------------
(* The steps.                                                              *)

LEMMA ArriveIsAsk ==
  ASSUME BookInv, NEW p \in Callers, NEW c \in Calls[p], Arrive(p, c) PROVE Book!Ask(p)
  <1>0. Quiet(p) /\ c # NoCall
    BY QuietStep, RestAssumption DEF BookInv
  <1>1. Quiet(p) /\ pc[p] = "idle" /\ pc'[p] = "gate" /\ call'[p] = c /\ reply' = reply
        /\ c # NoCall
    BY <1>0 DEF BookInv, IInv, TypeOK, Arrive, Goto
  <1>2. /\ StageOf(p) = "idle" /\ StageOf(p)' = "outside" /\ AskedBy(p)' = RequestOf(c)
        /\ ShownTo(p)' = ShownTo(p)
    BY <1>1 DEF StageOf, AskedBy, ShownTo, Quiet, Named
  <1>3. /\ Stages[p] = "idle" /\ Stages' = [Stages EXCEPT ![p] = "outside"]
        /\ Asked' = [Asked EXCEPT ![p] = RequestOf(c)]
        /\ UNCHANGED <<Accounts, Garages, Answers>>
    BY <1>1, <1>2, QuietApart, OneMoves
  <1>4. RequestOf(c) \in [q \in Callers |-> {RequestOf(x) : x \in Calls[q]}][p]
    OBVIOUS
  <1> QED
    BY <1>3, <1>4 DEF Book!Ask, Book!Move, Stages, Asked, Answers, Accounts, Garages

LEMMA DeliverIsForget == ASSUME BookInv, NEW p \in Callers, Deliver(p) PROVE Book!Forget(p)
  <1>1. Quiet(p) /\ pc[p] = "reply" /\ pc'[p] = "idle" /\ call'[p] = NoCall
        /\ reply'[p] = Unanswered
    BY QuietStep DEF BookInv, IInv, TypeOK, Deliver, Goto
  <1>2. Named(NoId)' = {}
    BY <1>1, NobodyIsNamed, SameBook DEF BookInv, Quiet
  <1>3. /\ StageOf(p) = "answered" /\ StageOf(p)' = "idle" /\ AskedBy(p)' = NoCall
        /\ ShownTo(p)' = Book!Silent
    BY <1>1, <1>2 DEF StageOf, AskedBy, ShownTo, Unanswered, Answer, Book!Silent, Book!Says
  <1>4. /\ Stages[p] = "answered" /\ Stages' = [Stages EXCEPT ![p] = "idle"]
        /\ Asked' = [Asked EXCEPT ![p] = NoCall]
        /\ Answers' = [Answers EXCEPT ![p] = Book!Silent]
        /\ UNCHANGED <<Accounts, Garages>>
    BY <1>1, <1>3, QuietApart, OneMoves
  <1> QED
    BY <1>4 DEF Book!Forget, Book!Move, Stages, Asked, Answers, Accounts, Garages

\* What nobody can see.
LEMMA StatementIsStutter ==
  ASSUME BookInv, NEW p \in Callers,
         Admit(p) \/ SelectMiss(p) \/ InsertConflict(p) \/ CheckDriver(p)
  PROVE  UNCHANGED Book!vars
  <1>1. CheckDriver(p) => Mine(p) # {}
    BY AtHandler DEF BookInv, CheckDriver, Serves, Late
  <1>2. /\ Quiet(p) /\ UNCHANGED <<call, reply>>
        /\ \/ {pc[p], pc'[p]} \subseteq {"gate", "select", "insert", "reselect"}
           \/ {pc[p], pc'[p]} \subseteq Late
    BY <1>1, QuietStep DEF BookInv, IInv, TypeOK, Admit, SelectMiss, InsertConflict, CheckDriver,
                           Serves, Goto, Late, context
  <1>3. StageOf(p)' = StageOf(p) /\ AskedBy(p)' = AskedBy(p) /\ ShownTo(p)' = ShownTo(p)
    BY <1>2 DEF StageOf, AskedBy, ShownTo, Quiet, Named, Late
  <1>4. UNCHANGED <<Accounts, Garages, Stages, Asked, Answers>>
    BY <1>2, <1>3, QuietApart, OneMoves
  <1> QED
    BY <1>4 DEF Book!vars, Stages, Asked, Answers, Accounts, Garages

LEMMA FoundIsEnter ==
  ASSUME BookInv, NEW p \in Callers, SelectHit(p) \/ Reselect(p) PROVE Book!Enter(p)
  <1>1. PICK r \in rows : r.ext = TokenOf(p).ext
    BY DEF SelectHit, Reselect, Known
  <1>2. /\ Quiet(p) /\ UNCHANGED <<call, reply>>
        /\ pc[p] \in {"select", "reselect"} /\ pc'[p] = "handler"
    BY QuietStep DEF BookInv, IInv, TypeOK, SelectHit, Reselect, Enter, Goto, context
  <1>3. /\ StageOf(p) = "outside" /\ StageOf(p)' = "inside"
        /\ AskedBy(p)' = AskedBy(p) /\ ShownTo(p)' = ShownTo(p)
    BY <1>2 DEF StageOf, AskedBy, ShownTo, Quiet, Named
  <1>4. /\ Stages[p] = "outside" /\ Stages' = [Stages EXCEPT ![p] = "inside"]
        /\ UNCHANGED <<Accounts, Garages, Asked, Answers>>
    BY <1>2, <1>3, QuietApart, OneMoves
  <1>5. Book!Who(p) = r.ext /\ r.ext \in ExtIds /\ Accounts[r.ext] # {}
    BY <1>1, <1>2, AskedIs, NamedIs, AccountIs DEF BookInv, Accounts
  <1> QED
    BY <1>4, <1>5 DEF Book!Enter, Book!Move, Stages, Asked, Answers, Accounts, Garages

\* The table gains a row, for an identity that had none.
LEMMA RowAdded ==
  ASSUME BookInv, NEW r \in Profile, rows' = rows \cup {r}, plates' = plates,
         r.id \notin Ids, \A s \in rows : s.ext # r.ext
  PROVE  /\ Accounts' = [Accounts EXCEPT ![r.ext] = {Face(r)}]
         /\ Accounts[r.ext] = {} /\ Garages' = Garages /\ r.ext \in ExtIds
         /\ \A id : id # r.id => {s.ext : s \in {t \in rows' : t.id = id}} = Named(id)
  <1>1. r.ext \in ExtIds /\ AccountOf(r.ext) = {}
    BY AccountIs DEF BookInv, Profile
  <1>2. {s \in rows' : s.ext = r.ext} = {r}
    OBVIOUS
  <1>3. AccountOf(r.ext)' = {Face(r)}
    BY <1>2 DEF AccountOf, Face
  <1>4. \A e : e # r.ext => AccountOf(e)' = AccountOf(e)
    BY DEF AccountOf
  <1>5. \A n : <<r.id, n>> \notin plates
    BY DEF BookInv
  <1>6. \A e : GarageOf(e)' = GarageOf(e)
    BY <1>5 DEF GarageOf
  <1>7. \A id : id # r.id => {s.ext : s \in {t \in rows' : t.id = id}} = Named(id)
    BY DEF Named
  <1> QED
    BY <1>1, <1>3, <1>4, <1>6, <1>7 DEF Accounts, Garages

LEMMA InsertIsEnrol ==
  ASSUME BookInv, IInv', NEW p \in Callers, NEW id \in FreshIds, Insert(p, id)
  PROVE  Book!Enrol(p)
  <1>1. /\ IInv /\ pc[p] = "insert" /\ Known(p) = {} /\ Passed(p)
        /\ UNCHANGED <<call, plates>>
    BY DEF BookInv, IInv, PInv, Admitted, Insert, context
  <1> DEFINE new == [id |-> id, ext |-> TokenOf(p).ext, phone |-> TokenOf(p).phone,
                     deleted |-> FALSE, version |-> 1]
  <1>2. /\ rows' = rows \cup {new} /\ new \in Profile /\ new.id = id
        /\ new.ext = TokenOf(p).ext /\ Face(new) = [version |-> 1, deleted |-> FALSE]
    BY <1>1 DEF Insert, Passed, Profile, FreshIds, Face
  <1> HIDE DEF new
  <1>3. id \notin Ids /\ \A s \in rows : s.ext # new.ext
    BY <1>1, <1>2 DEF Known, FreshIds, Ids
  <1>4. /\ Accounts' = [Accounts EXCEPT ![new.ext] = {Face(new)}]
        /\ Accounts[new.ext] = {} /\ Garages' = Garages /\ new.ext \in ExtIds
        /\ \A i : i # id => {s.ext : s \in {t \in rows' : t.id = i}} = Named(i)
    BY <1>1, <1>2, <1>3, RowAdded
  <1>5. \A q \in Callers \ {p} : Same(q)
    BY <1>1 DEF Insert, Same, Enter, Finish, Goto, IInv, TypeOK, Writes, context
  <1>6. \A q \in Callers : reply[q].profile # id
    <2>1. NoId # id
      BY RestAssumption DEF FreshIds
    <2> QED
      BY <1>3, <2>1 DEF BookInv
  <1>7. Apart(p)
    BY <1>4, <1>5, <1>6 DEF Apart
  <1>8. Book!Who(p) = new.ext /\ StageOf(p) = "outside"
    BY <1>1, <1>2, AskedIs, StageIs
  <1>9. CASE Enter(p, "insert", id) /\ UNCHANGED reply
    <2>1. pc'[p] = "handler" /\ reply'[p] = reply[p]
      BY <1>1, <1>9 DEF Enter, Goto, IInv, TypeOK
    <2>2. ShownTo(p)' = ShownTo(p)
      <3>1. {s.ext : s \in {t \in rows' : t.id = reply[p].profile}} = Named(reply[p].profile)
        BY <1>4, <1>6
      <3> QED
        BY <2>1, <3>1 DEF ShownTo, Named
    <2>3. StageOf(p)' = "inside" /\ AskedBy(p)' = AskedBy(p)
      BY <1>1, <2>1 DEF StageOf, AskedBy
    <2>4. Book!Move(p, "outside", "inside") /\ UNCHANGED <<Asked, Answers>>
      BY <1>7, <1>8, <2>2, <2>3, OneMoves DEF Book!Move, Stages
    <2> QED
      BY <1>2, <1>4, <1>8, <2>4 DEF Book!Enrol, Asked, Answers, Accounts, Garages
  <1>10. CASE Finish(p, "insert", Refusal("INTERNAL")) /\ UNCHANGED driver
    <2>1. Book!Fails(p, "outside")
      BY <1>1, <1>7, <1>8, <1>10, RefusalEnds DEF Book!Fails, HttpStatus, Running, PCs
    <2> QED
      BY <1>2, <1>4, <1>8, <2>1 DEF Book!Enrol, Accounts, Garages
  <1> QED
    BY <1>9, <1>10 DEF Insert

\* A row is replaced by one with its id and identity.
LEMMA RowReplaced ==
  ASSUME BookInv, NEW r \in rows, NEW n \in Profile, n.id = r.id, n.ext = r.ext,
         rows' = (rows \ {r}) \cup {n}, plates' = plates
  PROVE  /\ Accounts' = [Accounts EXCEPT ![r.ext] = {Face(n)}]
         /\ Accounts[r.ext] = {Face(r)} /\ Garages' = Garages /\ r.ext \in ExtIds
         /\ \A id : {s.ext : s \in {t \in rows' : t.id = id}} = Named(id)
  <1>1. r.ext \in ExtIds /\ AccountOf(r.ext) = {Face(r)}
    BY AccountIs, NamedIs DEF BookInv
  <1>2. {s \in rows' : s.ext = r.ext} = {n}
    BY DEF BookInv, IInv, Unique
  <1>3. AccountOf(r.ext)' = {Face(n)}
    BY <1>2 DEF AccountOf, Face
  <1>4. \A e : e # r.ext => {s \in rows' : s.ext = e} = {s \in rows : s.ext = e}
    OBVIOUS
  <1>5. \A e : e # r.ext => AccountOf(e)' = AccountOf(e)
    BY <1>4 DEF AccountOf
  <1>6. \A e : GarageOf(e)' = GarageOf(e)
    BY DEF GarageOf
  <1>7. \A id : {s.ext : s \in {t \in rows' : t.id = id}} = Named(id)
    BY DEF Named
  <1> QED
    BY <1>1, <1>3, <1>5, <1>6, <1>7 DEF Accounts, Garages

LEMMA OtherWritesIsOther ==
  ASSUME BookInv, OtherWrites PROVE \E e \in ExtIds : Book!OtherWrite(e)
  <1>1. PICK r \in rows, n \in Profile :
          /\ ~r.deleted /\ n.id = r.id /\ n.ext = r.ext /\ rows' = (rows \ {r}) \cup {n}
          /\ \/ r.version < MaxVersion /\ n = Bumped(r)
             \/ n = [Bumped(r) EXCEPT !.deleted = TRUE]
    BY BumpedTyped DEF OtherWrites, BookInv, IInv, TypeOK
  <1>2. UNCHANGED <<plates, call, pc, reply>>
    BY DEF OtherWrites, context
  <1>3. /\ Accounts' = [Accounts EXCEPT ![r.ext] = {Face(n)}]
        /\ Accounts[r.ext] = {Face(r)} /\ Garages' = Garages /\ r.ext \in ExtIds
        /\ \A id : {s.ext : s \in {t \in rows' : t.id = id}} = Named(id)
    BY <1>1, <1>2, RowReplaced
  <1>4. /\ Face(Bumped(r)) = Book!Edited(Face(r))
        /\ Face([Bumped(r) EXCEPT !.deleted = TRUE]) = Book!Retired(Face(r))
        /\ Face(r).deleted = r.deleted /\ Face(r).version = r.version
    <2>1. r \in Profile
      BY DEF BookInv, IInv, TypeOK
    <2>2. /\ Bumped(r).version = r.version + 1 /\ Bumped(r).deleted = r.deleted
          /\ [Bumped(r) EXCEPT !.deleted = TRUE].version = r.version + 1
          /\ [Bumped(r) EXCEPT !.deleted = TRUE].deleted = TRUE
      BY <2>1 DEF Profile, Bumped
    <2>3. Book!Edited(Face(r)) = [version |-> r.version + 1, deleted |-> r.deleted]
      BY DEF Face, Book!Edited
    <2>4. Book!Retired(Face(r)) = [version |-> r.version + 1, deleted |-> TRUE]
      BY DEF Face, Book!Retired
    <2>5. /\ Face(Bumped(r)) = [version |-> r.version + 1, deleted |-> r.deleted]
          /\ Face([Bumped(r) EXCEPT !.deleted = TRUE]) =
               [version |-> r.version + 1, deleted |-> TRUE]
          /\ Face(r).deleted = r.deleted /\ Face(r).version = r.version
      BY <2>2 DEF Face
    <2> QED
      BY <2>3, <2>4, <2>5
  <1>5. \A q \in Callers : /\ StageOf(q)' = StageOf(q) /\ AskedBy(q)' = AskedBy(q)
                           /\ ShownTo(q)' = ShownTo(q)
    BY <1>2, <1>3 DEF StageOf, AskedBy, ShownTo, Named
  <1>6. UNCHANGED <<Stages, Asked, Answers>>
    BY <1>5 DEF Stages, Asked, Answers
  <1>7. PICK a, b : a = Face(r) /\ b = Face(n)
    OBVIOUS
  <1>8. /\ ~a.deleted
        /\ \/ a.version < MaxVersion /\ b = Book!Edited(a)
           \/ b = Book!Retired(a)
    BY <1>1, <1>4, <1>7
  <1>9. Book!OtherWrite(r.ext)
    BY <1>3, <1>6, <1>7, <1>8
       DEF Book!OtherWrite, Stages, Asked, Answers, Accounts, Garages
  <1> QED
    BY <1>3, <1>9

\* What a handler knows of its caller, seen from the book.
LEMMA AtHandlerIs ==
  ASSUME BookInv, NEW p \in Callers, pc[p] \in Late
  PROVE  \E h \in rows :
           /\ h.id = driver[p] /\ Mine(p) = {h} /\ h \in Profile
           /\ h.ext = TokenOf(p).ext /\ h.ext \in ExtIds
           /\ Book!Who(p) = h.ext /\ Named(h.id) = {h.ext}
           /\ Accounts[h.ext] = {Face(h)} /\ Garages[h.ext] = Garage(p)
           /\ Asked[p].route = call[p].route /\ Asked[p].expected = call[p].expected
           /\ Asked[p].plate = call[p].plate /\ StageOf(p) = "inside"
           /\ call[p].plate \in Plates
  <1>1. PICK h \in Own(p) : h.id = driver[p] /\ Mine(p) = {h}
    BY AtHandler DEF BookInv
  <1>2. h \in rows /\ h.ext = TokenOf(p).ext /\ h \in Profile
    BY <1>1 DEF Own, BookInv, IInv, TypeOK
  <1>3. Named(h.id) = {h.ext} /\ h.ext \in ExtIds
    BY <1>2, NamedIs DEF BookInv
  <1>4. Accounts[h.ext] = {Face(h)}
    BY <1>2, <1>3, AccountIs DEF BookInv, Accounts
  <1>5. Garages[h.ext] = Garage(p)
    BY <1>1, <1>2, <1>3, GarageIs DEF BookInv, Garages, Garage
  <1>6. /\ Book!Who(p) = h.ext /\ StageOf(p) = "inside"
        /\ Asked[p].route = call[p].route /\ Asked[p].expected = call[p].expected
        /\ Asked[p].plate = call[p].plate
    BY <1>2, AskedIs, StageIs DEF BookInv, Late
  <1>7. call[p].plate \in Plates
    BY AtHandler, CallTyped DEF BookInv
  <1> QED
    BY <1>1, <1>2, <1>3, <1>4, <1>5, <1>6, <1>7

LEMMA RefusingIsRefuse ==
  ASSUME BookInv, IInv', NEW p \in Callers,
         \/ Unauthenticated(p) \/ ClaimsRejected(p)
         \/ StatementFails(p) /\ pc[p] \in {"select", "insert", "reselect"}
  PROVE  Book!Refuse(p)
  <1>1. Quiet(p) /\ UNCHANGED call
    BY QuietStep DEF BookInv, Unauthenticated, ClaimsRejected, StatementFails, context
  <1>2. PICK from \in Running, why \in {"VALIDATION", "UNAUTHENTICATED", "INTERNAL"} :
          Finish(p, from, Refusal(why))
    BY DEF Unauthenticated, ClaimsRejected, StatementFails, Running, PCs
  <1>3. StageOf(p) = "outside" /\ HttpStatus[why] \in {400, 401, 500}
    BY StageIs DEF Unauthenticated, ClaimsRejected, HttpStatus
  <1>4. Book!Ends(p, "outside", Book!Says(HttpStatus[why], {}, {}))
    BY <1>1, <1>2, <1>3, QuietApart, RefusalEnds
  <1> QED
    BY <1>1, <1>3, <1>4, QuietApart DEF Book!Refuse, Accounts, Garages

LEMMA RejectingIsReject ==
  ASSUME BookInv, IInv', NEW p \in Callers,
         BindFails(p) \/ BodyRejected(p) \/ (StatementFails(p) /\ pc[p] \in Late)
  PROVE  Book!Reject(p)
  <1>1. Quiet(p) /\ UNCHANGED call /\ pc[p] \in Late
    BY QuietStep DEF BookInv, BindFails, BodyRejected, StatementFails, HasBody, Late, context
  <1>2. Asked[p].route = call[p].route /\ StageOf(p) = "inside"
    BY <1>1, AtHandlerIs
  <1>3. UNCHANGED <<Accounts, Garages>>
    BY <1>1, QuietApart
  <1>4. CASE BodyRejected(p)
    <2>1. Finish(p, "handler", Refusal("VALIDATION")) /\ Asked[p].route \in Book!Bodied
      BY <1>2, <1>4 DEF BodyRejected, HasBody, Book!Bodied
    <2>2. Book!Ends(p, "inside", Book!Says(400, {}, {}))
      BY <1>1, <1>2, <2>1, QuietApart, RefusalEnds DEF Running, PCs, HttpStatus
    <2> QED
      BY <1>3, <2>1, <2>2 DEF Book!Reject, Accounts, Garages, Asked
  <1>5. CASE BindFails(p) \/ StatementFails(p)
    <2>1. PICK from \in Running : Finish(p, from, Refusal("INTERNAL"))
      BY <1>5 DEF BindFails, StatementFails, Running, PCs
    <2>2. Book!Ends(p, "inside", Book!Says(500, {}, {}))
      BY <1>1, <1>2, <2>1, QuietApart, RefusalEnds DEF HttpStatus
    <2> QED
      BY <1>3, <2>2 DEF Book!Reject, Book!Fails, Accounts, Garages
  <1> QED
    BY <1>4, <1>5

LEMMA GetMeIsShow ==
  ASSUME BookInv, NEW p \in Callers, GetMe(p) PROVE Book!Show(p)
  <1>1. Quiet(p) /\ UNCHANGED call /\ pc[p] \in Late /\ call[p].route = "getMe"
    BY QuietStep DEF BookInv, GetMe, Serves, Late, context
  <1>2. PICK h \in rows : /\ h.id = driver[p] /\ Mine(p) = {h} /\ Book!Who(p) = h.ext
                          /\ Named(h.id) = {h.ext} /\ Asked[p].route = "getMe"
                          /\ StageOf(p) = "inside"
    BY <1>1, AtHandlerIs
  <1>3. PICK a : a = Answer(200, h.id, {})
    OBVIOUS
  <1>4. Finish(p, "handler", a)
    BY <1>2, <1>3 DEF GetMe
  <1>5. Named(h.id)' = {h.ext}
    BY <1>1, <1>2, SameBook DEF Quiet
  <1>6. /\ Book!Says(200, {Book!Who(p)}, {}) =
             [status |-> a.status, who |-> Named(a.profile)', plates |-> a.plates]
    BY <1>2, <1>3, <1>5 DEF Book!Says, Answer
  <1>7. Book!Ends(p, "inside", Book!Says(200, {Book!Who(p)}, {}))
    BY <1>1, <1>2, <1>4, <1>6, QuietApart, EndsIs DEF BookInv, IInv, TypeOK
  <1> QED
    BY <1>1, <1>2, <1>7, QuietApart DEF Book!Show, Asked, Accounts, Garages

LEMMA ListVehiclesIsList ==
  ASSUME BookInv, NEW p \in Callers, ListVehicles(p) PROVE Book!List(p)
  <1>1. Quiet(p) /\ UNCHANGED call /\ pc[p] \in Late /\ call[p].route = "listVehicles"
    BY QuietStep DEF BookInv, ListVehicles, Serves, Late, context
  <1>2. PICK h \in rows : /\ Book!Who(p) = h.ext /\ Asked[p].route = "listVehicles"
                          /\ StageOf(p) = "inside" /\ Garages[h.ext] = Garage(p)
    BY <1>1, AtHandlerIs
  <1>3. PICK a : a = Answer(200, NoId, Garage(p))
    OBVIOUS
  <1>4. Finish(p, "handler", a)
    BY <1>3 DEF ListVehicles
  <1>5. Named(NoId)' = {}
    BY <1>1, NobodyIsNamed, SameBook DEF Quiet, BookInv
  <1>6. /\ Book!Says(200, {}, Garages[Book!Who(p)]) =
             [status |-> a.status, who |-> Named(a.profile)', plates |-> a.plates]
    BY <1>2, <1>3, <1>5 DEF Book!Says, Answer
  <1>7. Book!Ends(p, "inside", Book!Says(200, {}, Garages[Book!Who(p)]))
    BY <1>1, <1>2, <1>4, <1>6, QuietApart, EndsIs DEF BookInv, IInv, TypeOK
  <1> QED
    BY <1>1, <1>2, <1>7, QuietApart DEF Book!List, Asked, Accounts, Garages

LEMMA UpdateMeNothingIsConflict ==
  ASSUME BookInv, IInv', NEW p \in Callers, UpdateMeNothing(p) PROVE Book!Conflict(p)
  <1>1. Quiet(p) /\ UNCHANGED call /\ pc[p] \in Late /\ call[p].route = "updateMe"
    BY QuietStep DEF BookInv, UpdateMeNothing, Serves, Late, context
  <1>2. PICK h \in rows : /\ Mine(p) = {h} /\ Book!Who(p) = h.ext
                          /\ Accounts[h.ext] = {Face(h)} /\ StageOf(p) = "inside"
                          /\ Asked[p].route = "updateMe"
                          /\ Asked[p].expected = call[p].expected
    BY <1>1, AtHandlerIs
  <1>3. ~Book!Editable(p, Face(h))
    BY <1>2 DEF UpdateMeNothing, Editable, Book!Editable, Face, Asked
  <1>4. Book!Ends(p, "inside", Book!Says(409, {}, {}))
    BY <1>1, <1>2, QuietApart, RefusalEnds DEF UpdateMeNothing, HttpStatus, Running, PCs
  <1> QED
    BY <1>1, <1>2, <1>3, <1>4, QuietApart DEF Book!Conflict, Asked, Accounts, Garages

LEMMA UpdateMeIsEdit ==
  ASSUME BookInv, IInv', NEW p \in Callers, UpdateMe(p) PROVE Book!Edit(p)
  <1>1. /\ pc[p] \in Late /\ call[p].route = "updateMe" /\ UNCHANGED <<call, plates, driver>>
    BY DEF UpdateMe, Serves, Late, context
  <1>2. PICK h \in rows : /\ h.id = driver[p] /\ Mine(p) = {h} /\ Book!Who(p) = h.ext
                          /\ h \in Profile /\ h.ext \in ExtIds /\ Named(h.id) = {h.ext}
                          /\ Accounts[h.ext] = {Face(h)} /\ StageOf(p) = "inside"
                          /\ Asked[p].route = "updateMe"
                          /\ Asked[p].expected = call[p].expected
    BY <1>1, AtHandlerIs
  <1>3. /\ h.version = call[p].expected /\ ~h.deleted /\ h.version < MaxVersion
        /\ rows' = (rows \ {h}) \cup {Bumped(h)}
    BY <1>2 DEF UpdateMe, Editable
  <1>4. Bumped(h) \in Profile /\ Bumped(h).id = h.id /\ Bumped(h).ext = h.ext
    BY <1>2, BumpedTyped
  <1>5. /\ Accounts' = [Accounts EXCEPT ![h.ext] = {Face(Bumped(h))}]
        /\ Garages' = Garages
        /\ \A id : {s.ext : s \in {t \in rows' : t.id = id}} = Named(id)
    BY <1>1, <1>2, <1>3, <1>4, RowReplaced
  <1>6. Apart(p)
    <2>1. \A q \in Callers \ {p} : Same(q)
      BY <1>1 DEF UpdateMe, Same, Finish, Goto, Writes, BookInv, IInv, TypeOK, context
    <2> QED
      BY <1>5, <2>1 DEF Apart
  <1>7. Face(Bumped(h)) = Book!Edited(Face(h)) /\ Book!Editable(p, Face(h))
        /\ Face(h).version < MaxVersion
    <2>1. Bumped(h).version = h.version + 1 /\ Bumped(h).deleted = h.deleted
      BY <1>2 DEF Profile, Bumped
    <2>2. Book!Edited(Face(h)) = [version |-> h.version + 1, deleted |-> h.deleted]
      BY DEF Face, Book!Edited
    <2> QED
      BY <1>2, <1>3, <2>1, <2>2 DEF Face, Book!Editable, Asked
  <1>8. \/ Book!Ends(p, "inside", Book!Says(200, {Book!Who(p)}, {}))
        \/ Book!Fails(p, "inside")
    <2>1. CASE Finish(p, "handler", Refusal("INTERNAL"))
      BY <1>1, <1>2, <1>6, <2>1, RefusalEnds DEF Book!Fails, HttpStatus, Running, PCs
    <2>2. CASE Finish(p, "handler", Answer(200, driver[p], {}))
      <3>1. PICK a : a = Answer(200, h.id, {})
        OBVIOUS
      <3>2. Named(h.id)' = {h.ext}
        BY <1>2, <1>5 DEF Named
      <3>3. Book!Says(200, {Book!Who(p)}, {}) =
              [status |-> a.status, who |-> Named(a.profile)', plates |-> a.plates]
        BY <1>2, <3>1, <3>2 DEF Book!Says, Answer
      <3>4. Finish(p, "handler", a)
        BY <1>2, <2>2, <3>1
      <3> QED
        BY <1>1, <1>2, <1>6, <3>3, <3>4, EndsIs DEF BookInv, IInv, TypeOK
    <2> QED
      BY <2>1, <2>2 DEF UpdateMe
  <1>9. PICK a : a = Face(h)
    OBVIOUS
  <1> QED
    BY <1>2, <1>5, <1>7, <1>8, <1>9 DEF Book!Edit, Asked, Accounts, Garages

LEMMA RegisterVehicleIsPark ==
  ASSUME BookInv, IInv', NEW p \in Callers, RegisterVehicle(p) PROVE Book!Park(p)
  <1>1. /\ pc[p] \in Late /\ call[p].route = "registerVehicle"
        /\ UNCHANGED <<call, rows, driver>>
        /\ plates' = plates \cup {<<driver[p], call[p].plate>>}
    BY DEF RegisterVehicle, Late, context, BookInv
  <1>2. PICK h \in rows : /\ h.id = driver[p] /\ Book!Who(p) = h.ext
                          /\ h.ext \in ExtIds /\ StageOf(p) = "inside"
                          /\ Asked[p].route = "registerVehicle"
                          /\ Asked[p].plate = call[p].plate /\ call[p].plate \in Plates
    BY <1>1, AtHandlerIs
  <1>3. Accounts' = Accounts /\ \A id : Named(id)' = Named(id)
    <2>1. \A e : AccountOf(e)' = AccountOf(e)
      BY <1>1 DEF AccountOf
    <2> QED
      BY <1>1, <2>1 DEF Accounts, Named
  <1>4. Garages' = [Garages EXCEPT ![h.ext] = @ \cup {call[p].plate}]
    <2>1. ASSUME NEW r \in rows
          PROVE  /\ GarageOf(r.ext) = {n \in Plates : <<r.id, n>> \in plates}
                 /\ GarageOf(r.ext)' = {n \in Plates : <<r.id, n>> \in plates'}
      BY <1>1, <2>1, GarageIs DEF BookInv, IInv, Unique, GarageOf
    <2>2. GarageOf(h.ext)' = GarageOf(h.ext) \cup {call[p].plate}
      BY <1>1, <1>2, <2>1
    <2>3. ASSUME NEW e \in ExtIds, e # h.ext PROVE GarageOf(e)' = GarageOf(e)
      <3>1. \A r \in rows : r.ext = e => r.id # driver[p]
        BY <1>2, <2>3 DEF BookInv, IInv, Unique
      <3> QED
        BY <1>1, <3>1 DEF GarageOf
    <2> QED
      BY <1>2, <2>2, <2>3 DEF Garages
  <1>5. Apart(p)
    <2>1. \A q \in Callers \ {p} : Same(q)
      BY <1>1 DEF RegisterVehicle, Same, Finish, Goto, Writes, BookInv, IInv, TypeOK, context
    <2> QED
      BY <1>1, <2>1 DEF Apart, Named
  <1>6. \/ Book!Ends(p, "inside", Book!Says(201, {}, {call[p].plate}))
        \/ Book!Fails(p, "inside")
    <2>1. CASE Finish(p, "register", Refusal("INTERNAL"))
      BY <1>1, <1>2, <1>5, <2>1, RefusalEnds DEF Book!Fails, HttpStatus, Running, PCs
    <2>2. CASE Finish(p, "register", Answer(201, NoId, {call[p].plate}))
      <3>1. PICK a : a = Answer(201, NoId, {call[p].plate})
        OBVIOUS
      <3>2. Named(NoId)' = {}
        BY <1>3, NobodyIsNamed DEF BookInv
      <3>3. Book!Says(201, {}, {call[p].plate}) =
              [status |-> a.status, who |-> Named(a.profile)', plates |-> a.plates]
        BY <3>1, <3>2 DEF Book!Says, Answer
      <3>4. Finish(p, "register", a)
        BY <2>2, <3>1
      <3> QED
        BY <1>1, <1>2, <1>5, <3>3, <3>4, EndsIs DEF BookInv, IInv, TypeOK
    <2> QED
      BY <2>1, <2>2 DEF RegisterVehicle
  <1> QED
    BY <1>2, <1>3, <1>4, <1>6 DEF Book!Park, Asked, Accounts, Garages

-----------------------------------------------------------------------------
LEMMA InitIsBook == Init => Book!Init
  <1> SUFFICES ASSUME Init PROVE Book!Init
    OBVIOUS
  <1>1. ASSUME NEW e PROVE AccountOf(e) = {} /\ GarageOf(e) = {}
    BY DEF Init, AccountOf, GarageOf
  <1>2. ASSUME NEW p \in Callers
        PROVE  StageOf(p) = "idle" /\ AskedBy(p) = NoCall /\ ShownTo(p) = Book!Silent
    BY DEF Init, StageOf, AskedBy, ShownTo, Named, Unanswered, Answer, Book!Silent, Book!Says
  <1> QED
    BY <1>1, <1>2 DEF Book!Init

\* A request's step, let in or not.
LEMMA ServeIsServe ==
  ASSUME BookInv, IInv', NEW p \in Callers, Serve(p)
  PROVE  Book!Serve(p) \/ UNCHANGED Book!vars
  <1>1. CASE Admit(p) \/ SelectMiss(p) \/ InsertConflict(p) \/ CheckDriver(p)
    BY <1>1, StatementIsStutter
  <1>2. CASE \/ Unauthenticated(p) \/ ClaimsRejected(p) \/ SelectHit(p) \/ Reselect(p)
             \/ \E id \in FreshIds : Insert(p, id)
             \/ (StatementFails(p) /\ pc[p] \in {"select", "insert", "reselect"})
    <2>1. Stages[p] = "outside"
      BY <1>2, StageIs DEF Stages, Unauthenticated, ClaimsRejected, SelectHit, Reselect, Insert
    <2>2. Book!Gate(p)
      BY <1>2, RefusingIsRefuse, FoundIsEnter, InsertIsEnrol DEF Book!Gate
    <2> QED
      BY <2>1, <2>2 DEF Book!Serve, Stages
  <1>3. CASE \/ BindFails(p) \/ BodyRejected(p) \/ GetMe(p) \/ ListVehicles(p)
             \/ UpdateMe(p) \/ UpdateMeNothing(p) \/ RegisterVehicle(p)
             \/ (StatementFails(p) /\ pc[p] \in Late)
    <2>1. Stages[p] = "inside"
      BY <1>3, StageIs DEF Stages, BindFails, BodyRejected, GetMe, ListVehicles, UpdateMe,
                           UpdateMeNothing, RegisterVehicle, Serves, HasBody, Late
    <2>2. Book!Handle(p)
      BY <1>3, RejectingIsReject, GetMeIsShow, ListVehiclesIsList, UpdateMeIsEdit,
         UpdateMeNothingIsConflict, RegisterVehicleIsPark DEF Book!Handle
    <2> QED
      BY <2>1, <2>2 DEF Book!Serve, Stages
  <1>4. StatementFails(p) => pc[p] \in {"select", "insert", "reselect"} \cup Late
    BY DEF StatementFails, Finish, Goto, Running, PCs, Late
  <1> QED
    BY <1>1, <1>2, <1>3, <1>4 DEF Serve, Middleware, Handler

LEMMA StepIsBook == BookInv /\ [Next]_vars => [Book!Next]_(Book!vars)
  <1> SUFFICES ASSUME BookInv, [Next]_vars PROVE Book!Next \/ UNCHANGED Book!vars
    OBVIOUS
  <1>1. IInv'
    BY StepBookInv DEF BookInv
  <1>2. CASE Tick \/ UNCHANGED vars
    <2>1. UNCHANGED <<rows, plates, pc, call, reply>>
      BY <1>2 DEF Tick, tables, vars
    <2>2. UNCHANGED <<Accounts, Garages>> /\ \A id : Named(id)' = Named(id)
      BY <2>1, SameBook
    <2>3. ASSUME NEW q
          PROVE  StageOf(q)' = StageOf(q) /\ AskedBy(q)' = AskedBy(q) /\ ShownTo(q)' = ShownTo(q)
      BY <2>1 DEF StageOf, AskedBy, ShownTo, Named
    <2>4. UNCHANGED <<Stages, Asked, Answers>>
      BY <2>3 DEF Stages, Asked, Answers
    <2> QED
      BY <2>2, <2>4 DEF Book!vars, Accounts, Garages, Stages, Asked, Answers
  <1>3. CASE OtherWrites
    BY <1>3, OtherWritesIsOther DEF Book!Next
  <1>4. ASSUME NEW p \in Callers, (\E c \in Calls[p] : Arrive(p, c)) \/ Deliver(p)
        PROVE  Book!Next
    BY <1>4, ArriveIsAsk, DeliverIsForget DEF Book!Next
  <1>5. ASSUME NEW p \in Callers, Serve(p)
        PROVE  Book!Next \/ UNCHANGED Book!vars
    BY <1>1, <1>5, ServeIsServe DEF Book!Next
  <1> QED
    BY <1>2, <1>3, <1>4, <1>5 DEF Next

(* Statements, lost races and retries together look to the clients like    *)
(* atomic operations on one account and one set of plates per identity.    *)
THEOREM AccountsAreAtomic == Spec => ImplementsAccounts
  <1>1. Spec => []BookInv
    BY InitBookInv, StepBookInv, PTL DEF Spec
  <1> QED
    BY <1>1, InitIsBook, StepIsBook, PTL DEF Spec, ImplementsAccounts, Book!Spec
==============================================================================
