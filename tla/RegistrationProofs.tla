-------------------------- MODULE RegistrationProofs --------------------------
(***************************************************************************)
(* Registering and listing drivers.                                        *)
(*                                                                         *)
(* Safety of Registration for every set of callers, drivers, ids and       *)
(* requests, and its implementation of DriverDirectory.  Then safety of    *)
(* ListUsers for every set of users, limits and filters.  The two share no *)
(* variable and no proof.                                                  *)
(***************************************************************************)
EXTENDS Registration, ListUsers, FiniteSetTheorems, SequenceTheorems, TLAPS

-----------------------------------------------------------------------------
(* The inductive invariant. *)

\* A statement runs only for a request that passed validation.
RunningIsValid ==
  \A p \in Callers : pc[p] \in Running =>
    /\ req[p] \in Requests /\ Valid(req[p])
    /\ reply[p] = Pending

\* The second SELECT runs only when the winner's row is there.
LoserFindsRow == \A p \in Callers : pc[p] = "reselect" => Matching(req[p].ext) # {}

\* A reply is held exactly while the caller has not read it.
ReplyWhenDone ==
  \A p \in Callers :
    /\ reply[p] # Pending => pc[p] = "done"
    /\ pc[p] = "idle" => req[p] = NoRequest
    /\ pc[p] = "done" => reply[p].code # "PENDING" /\ req[p] \in Requests

IInv == /\ TypeOK
        /\ OneProfilePerDriver
        /\ AnsweredProfileIsOnRecord
        /\ LostRaceIsHidden
        /\ RunningIsValid
        /\ LoserFindsRow
        /\ ReplyWhenDone

-----------------------------------------------------------------------------
(* Lemmas about the rows that are written. *)

\* A valid request makes a well-formed row of its own identity, version 1.
LEMMA NewRowIsRow ==
  ASSUME NEW r \in Request, Valid(r), NEW id \in RowIds
  PROVE  /\ NewRow(r, id) \in Row
         /\ NewRow(r, id).ext = r.ext /\ NewRow(r, id).id = id
         /\ NewRow(r, id).version = 1 /\ NewRow(r, id).status = Active
<1>1. r.ext \in ExtIds BY DEF Request, Valid
<1>2. r.phone \in Phones \cup {Blank}
  <2>1. CASE r.kind = "create" BY <2>1 DEF Request, Valid, ValidCreate
  <2>2. CASE r.kind = "upsert" BY <2>2 DEF Request, Valid, ValidUpsert
  <2> QED BY <2>1, <2>2 DEF Request
<1>3. StoredName(r) \in Names \cup {DefaultName}
  <2>1. CASE r.kind = "create" BY <2>1 DEF Request, Valid, ValidCreate, StoredName
  <2>2. CASE r.kind = "upsert" BY <2>2 DEF Request, StoredName
  <2> QED BY <2>1, <2>2 DEF Request
<1> QED BY <1>1, <1>2, <1>3 DEF NewRow, Row, Status, Active

\* A patch keeps identity and status and counts one version up.
LEMMA PatchedIsRow ==
  ASSUME NEW r \in Row, NEW patch \in Patch
  PROVE  /\ Patched(r, patch) \in Row
         /\ Patched(r, patch).id = r.id /\ Patched(r, patch).ext = r.ext
         /\ Patched(r, patch).version = r.version + 1
<1>1. /\ Overlay(patch.name, r.name) \in Names \cup {DefaultName}
      /\ Overlay(patch.phone, r.phone) \in Phones \cup {Blank}
  BY DEF Patch, Row, Overlay
<1> QED BY <1>1 DEF Patched, Row

\* So does a retirement, but for the status.
LEMMA RetiredIsRow ==
  ASSUME NEW r \in Row
  PROVE  /\ Retired(r) \in Row
         /\ Retired(r).id = r.id /\ Retired(r).ext = r.ext
         /\ Retired(r).version = r.version + 1
BY DEF Retired, Row, Status, Deleted

\* A SELECT on external_user_id returns a matching row or NOT_FOUND.
LEMMA SelectReturns ==
  ASSUME NEW ext
  PROVE  \/ Matching(ext) = {} /\ GetByExternalID(ext) = Failed("NOT_FOUND")
         \/ \E r \in Matching(ext) : GetByExternalID(ext) = Found(r)
BY DEF GetByExternalID, ScanOne

-----------------------------------------------------------------------------
(* The invariant holds of the empty table. *)
LEMMA InitInv == Init => IInv
BY DEF Init, IInv, TypeOK, OneProfilePerDriver, AnsweredProfileIsOnRecord,
       LostRaceIsHidden, RunningIsValid, LoserFindsRow, ReplyWhenDone,
       Pending, PCs, Reply, Failures, Running

-----------------------------------------------------------------------------
(* Steps of one caller.  The first lemma is about a caller that finishes   *)
(* with an answer while the table stays as it is.                          *)

LEMMA FinishInv ==
  ASSUME IInv, NEW p \in Callers, NEW from \in PCs, NEW answer,
         Finish(p, from, answer), UNCHANGED rows,
         req' \in [Callers -> Requests \cup {NoRequest}],
         req'[p] \in Requests,
         \A q \in Callers \ {p} : req'[q] = req[q],
         \/ answer \in {Failed("VALIDATION"), Failed("ERROR")}
         \/ \E r \in Matching(req'[p].ext) : answer = Found(r),
         answer \in Reply
  PROVE  IInv'
<1> USE DEF IInv, Finish, Goto
<1>1. TypeOK'
  BY DEF TypeOK, PCs
<1>2. OneProfilePerDriver'
  BY DEF OneProfilePerDriver
<1>3. reply' = [reply EXCEPT ![p] = answer] /\ pc' = [pc EXCEPT ![p] = "done"]
  OBVIOUS
<1>4. \A q \in Callers \ {p} : reply'[q] = reply[q] /\ pc'[q] = pc[q]
  BY <1>3 DEF TypeOK
<1>5. reply'[p] = answer /\ pc'[p] = "done"
  BY <1>3 DEF TypeOK
<1>6. AnsweredProfileIsOnRecord'
  <2> SUFFICES ASSUME NEW q \in Callers, reply'[q].code = "OK"
               PROVE  /\ reply'[q].row.ext = req'[q].ext
                      /\ \E r \in rows : /\ r.id = reply'[q].row.id
                                         /\ r.ext = reply'[q].row.ext
                                         /\ r.version >= reply'[q].row.version
                                         /\ r.version = reply'[q].row.version
                                              => r = reply'[q].row
    BY DEF AnsweredProfileIsOnRecord
  <2>1. CASE q = p
    <3>1. PICK r \in Matching(req'[p].ext) : answer = Found(r)
      BY <2>1, <1>5 DEF Failed
    <3>2. r \in rows /\ r.ext = req'[p].ext /\ answer.row = r
      BY <3>1 DEF Matching, Found
    <3>3. r.version \in Nat
      BY <3>2 DEF TypeOK, Row
    <3> QED BY <2>1, <1>5, <3>2, <3>3
  <2>2. CASE q # p
    BY <2>2, <1>4 DEF AnsweredProfileIsOnRecord
  <2> QED BY <2>1, <2>2
<1>7. LostRaceIsHidden'
  BY <1>4, <1>5 DEF LostRaceIsHidden, Found, Failed
<1>8. RunningIsValid'
  BY <1>4, <1>5 DEF RunningIsValid, Running
<1>9. LoserFindsRow'
  BY <1>4, <1>5 DEF LoserFindsRow, Matching
<1>10. ReplyWhenDone'
  BY <1>4, <1>5 DEF ReplyWhenDone, Found, Failed
<1> QED BY <1>1, <1>2, <1>6, <1>7, <1>8, <1>9, <1>10

\* A SELECT that hits is an answer of that kind.
LEMMA AnswerOfSelect ==
  ASSUME TypeOK, NEW ext, Matching(ext) # {}
  PROVE  /\ \E r \in Matching(ext) : GetByExternalID(ext) = Found(r)
         /\ GetByExternalID(ext) \in Reply
<1>1. PICK r \in Matching(ext) : GetByExternalID(ext) = Found(r)
  BY SelectReturns
<1>2. r \in Row
  BY <1>1 DEF Matching, TypeOK
<1> QED BY <1>1, <1>2 DEF Found, Reply, Failures

-----------------------------------------------------------------------------
(* A committed INSERT: the row is new, so nobody's answer is disturbed.    *)

LEMMA InsertInv ==
  ASSUME IInv, NEW p \in Callers, NEW id \in FreshIds, Insert(p, id)
  PROVE  IInv'
<1> DEFINE new == NewRow(req[p], id)
<1> USE DEF IInv
<1>0. /\ pc[p] = "insert" /\ req[p] \in Requests /\ Valid(req[p])
      /\ rows' = rows \cup {new} /\ req' = req
      /\ pc' = [pc EXCEPT ![p] = "done"]
  BY DEF Insert, Finish, Goto, RunningIsValid, Running
<1>1. PICK answer \in {Found(new), Failed("ERROR")} :
        reply' = [reply EXCEPT ![p] = answer]
  BY DEF Insert, Finish
<1>2. /\ new \in Row /\ new.ext = req[p].ext /\ new.id = id /\ new.version = 1
      /\ id \notin {r.id : r \in rows}
      /\ \A r \in rows : r.ext # new.ext /\ r.id # id
  <2>1. req[p] \in Request /\ id \in RowIds
    BY <1>0, RegistrationAssumption DEF FreshIds
  <2>2. \A r \in rows : r.ext # req[p].ext
    BY DEF Insert, Duplicate, Matching
  <2> QED BY <1>0, <2>1, <2>2, NewRowIsRow DEF FreshIds
<1> HIDE DEF new
<1>3. /\ \A q \in Callers \ {p} : reply'[q] = reply[q] /\ pc'[q] = pc[q]
      /\ reply'[p] = answer /\ pc'[p] = "done"
  BY <1>0, <1>1 DEF TypeOK
<1>4. answer \in Reply
  BY <1>1, <1>2 DEF Found, Reply, Failures
<1>5. TypeOK'
  BY <1>0, <1>1, <1>2, <1>4 DEF TypeOK, PCs
<1>6. OneProfilePerDriver'
  BY <1>0, <1>2 DEF OneProfilePerDriver
<1>7. AnsweredProfileIsOnRecord'
  <2> SUFFICES ASSUME NEW q \in Callers, reply'[q].code = "OK"
               PROVE  /\ reply'[q].row.ext = req'[q].ext
                      /\ \E r \in rows' : /\ r.id = reply'[q].row.id
                                          /\ r.ext = reply'[q].row.ext
                                          /\ r.version >= reply'[q].row.version
                                          /\ r.version = reply'[q].row.version
                                               => r = reply'[q].row
    BY DEF AnsweredProfileIsOnRecord
  <2>1. CASE q = p
    <3>1. answer = Found(new)
      BY <2>1, <1>1, <1>3 DEF Failed
    <3>2. reply'[q].row = new
      BY <3>1, <2>1, <1>3 DEF Found
    <3> QED BY <2>1, <3>2, <1>0, <1>2
  <2>2. CASE q # p
    BY <2>2, <1>0, <1>3 DEF AnsweredProfileIsOnRecord
  <2> QED BY <2>1, <2>2
<1>8. LostRaceIsHidden'
  BY <1>1, <1>3 DEF LostRaceIsHidden, Found, Failed
<1>9. RunningIsValid'
  BY <1>0, <1>3 DEF RunningIsValid, Running
<1>10. LoserFindsRow'
  BY <1>0, <1>3 DEF LoserFindsRow, Matching
<1>11. ReplyWhenDone'
  BY <1>0, <1>1, <1>3 DEF ReplyWhenDone, Found, Failed
<1> QED BY <1>5, <1>6, <1>7, <1>8, <1>9, <1>10, <1>11

-----------------------------------------------------------------------------
(* An UPDATE of another RPC replaces a row by a later version of itself.   *)

LEMMA ReplaceInv ==
  ASSUME IInv, NEW r \in rows, NEW new \in Row, Replace(r, new),
         new.id = r.id, new.ext = r.ext, new.version = r.version + 1
  PROVE  IInv'
<1> USE DEF IInv
<1>0. rows' = (rows \ {r}) \cup {new} /\ UNCHANGED <<pc, req, reply>>
  BY DEF Replace
<1>1. TypeOK'
  BY <1>0 DEF TypeOK
<1>2. OneProfilePerDriver'
  BY <1>0 DEF OneProfilePerDriver
<1>3. AnsweredProfileIsOnRecord'
  <2> SUFFICES ASSUME NEW q \in Callers, reply[q].code = "OK"
               PROVE  /\ reply[q].row.ext = req[q].ext
                      /\ \E s \in rows' : /\ s.id = reply[q].row.id
                                          /\ s.ext = reply[q].row.ext
                                          /\ s.version >= reply[q].row.version
                                          /\ s.version = reply[q].row.version
                                               => s = reply[q].row
    BY <1>0 DEF AnsweredProfileIsOnRecord
  <2>1. PICK s \in rows : /\ s.id = reply[q].row.id /\ s.ext = reply[q].row.ext
                          /\ s.version >= reply[q].row.version
                          /\ s.version = reply[q].row.version => s = reply[q].row
    BY DEF AnsweredProfileIsOnRecord
  <2>2. reply[q].row \in Row
    BY DEF TypeOK, Reply, Pending, Failed, Failures
  <2>3. s.version \in Nat /\ reply[q].row.version \in Nat
    BY <2>1, <2>2 DEF TypeOK, Row
  <2>4. reply[q].row.ext = req[q].ext
    BY DEF AnsweredProfileIsOnRecord
  <2>5. CASE s = r
    <3>1. new \in rows' /\ new.version > reply[q].row.version
      BY <1>0, <2>1, <2>3, <2>5
    <3> QED BY <3>1, <2>1, <2>3, <2>4, <2>5
  <2>6. CASE s # r
    BY <1>0, <2>1, <2>4, <2>6
  <2> QED BY <2>5, <2>6
<1>4. LostRaceIsHidden' /\ RunningIsValid' /\ ReplyWhenDone'
  BY <1>0 DEF LostRaceIsHidden, RunningIsValid, ReplyWhenDone
<1>5. LoserFindsRow'
  BY <1>0 DEF LoserFindsRow, Matching
<1> QED BY <1>1, <1>2, <1>3, <1>4, <1>5

-----------------------------------------------------------------------------
(* Every step keeps it: one case per action. *)
LEMMA NextInv == IInv /\ [Next]_vars => IInv'
<1> SUFFICES ASSUME IInv, [Next]_vars PROVE IInv'
  OBVIOUS
<1>1. ASSUME NEW p \in Callers, NEW r \in Requests, Accept(p, r) PROVE IInv'
  <2>1. /\ \A q \in Callers \ {p} : req'[q] = req[q] /\ pc'[q] = pc[q]
        /\ req'[p] = r /\ pc'[p] = "select" /\ UNCHANGED <<rows, reply>>
        /\ reply[p] = Pending /\ Valid(r)
    BY <1>1 DEF IInv, TypeOK, Accept, Goto, ReplyWhenDone
  <2>2. TypeOK'
    BY <1>1 DEF IInv, TypeOK, Accept, Goto, PCs
  <2>3. OneProfilePerDriver' /\ LostRaceIsHidden'
    BY <2>1 DEF IInv, OneProfilePerDriver, LostRaceIsHidden
  <2>4. AnsweredProfileIsOnRecord'
    BY <2>1 DEF IInv, AnsweredProfileIsOnRecord, Pending
  <2>5. RunningIsValid' /\ ReplyWhenDone'
    BY <2>1 DEF IInv, RunningIsValid, ReplyWhenDone, Running
  <2>6. LoserFindsRow'
    BY <2>1 DEF IInv, LoserFindsRow, Matching
  <2> QED BY <2>2, <2>3, <2>4, <2>5, <2>6 DEF IInv
<1>2. ASSUME NEW p \in Callers, NEW r \in Requests, Reject(p, r) PROVE IInv'
  <2>1. /\ req' \in [Callers -> Requests \cup {NoRequest}] /\ req'[p] = r
        /\ \A q \in Callers \ {p} : req'[q] = req[q]
    BY <1>2 DEF IInv, TypeOK, Reject
  <2> QED BY <1>2, <2>1, FinishInv DEF Reject, PCs, Failed, Reply, Failures
<1>3. ASSUME NEW p \in Callers, SelectHit(p) PROVE IInv'
  <2>1. req[p] \in Requests /\ req' \in [Callers -> Requests \cup {NoRequest}]
    BY <1>3 DEF IInv, TypeOK, SelectHit, RunningIsValid, Running
  <2>2. TypeOK
    BY DEF IInv
  <2> QED BY <1>3, <2>1, <2>2, FinishInv, AnswerOfSelect DEF SelectHit, PCs
<1>4. ASSUME NEW p \in Callers, SelectMiss(p) PROVE IInv'
  BY <1>4 DEF IInv, TypeOK, SelectMiss, Goto, PCs, OneProfilePerDriver, Matching,
     AnsweredProfileIsOnRecord, LostRaceIsHidden, RunningIsValid, Running,
     LoserFindsRow, ReplyWhenDone
<1>5. ASSUME NEW p \in Callers, InsertConflict(p) PROVE IInv'
  BY <1>5 DEF IInv, TypeOK, InsertConflict, Duplicate, Goto, PCs, Matching,
     OneProfilePerDriver, AnsweredProfileIsOnRecord, LostRaceIsHidden,
     RunningIsValid, Running, LoserFindsRow, ReplyWhenDone
<1>6. ASSUME NEW p \in Callers, NEW id \in FreshIds, Insert(p, id) PROVE IInv'
  BY <1>6, InsertInv
<1>7. ASSUME NEW p \in Callers, Reselect(p) PROVE IInv'
  <2>1. req[p] \in Requests /\ req' \in [Callers -> Requests \cup {NoRequest}]
    BY <1>7 DEF IInv, TypeOK, Reselect, Finish, Goto, RunningIsValid, Running
  <2>2. TypeOK /\ Matching(req[p].ext) # {}
    BY <1>7 DEF IInv, Reselect, Finish, Goto, LoserFindsRow
  <2> QED BY <1>7, <2>1, <2>2, FinishInv, AnswerOfSelect DEF Reselect, PCs
<1>8. ASSUME NEW p \in Callers, StatementFails(p) PROVE IInv'
  <2>1. PICK s \in Running : Finish(p, s, Failed("ERROR"))
    BY <1>8 DEF StatementFails
  <2>2. /\ s \in PCs /\ UNCHANGED <<rows, req>>
        /\ req[p] \in Requests /\ req' \in [Callers -> Requests \cup {NoRequest}]
    BY <1>8, <2>1 DEF IInv, TypeOK, StatementFails, Finish, Goto, RunningIsValid,
       Running, PCs
  <2> QED BY <2>1, <2>2, FinishInv DEF Failed, Reply, Failures
<1>9. ASSUME NEW p \in Callers, Deliver(p) PROVE IInv'
  <2>1. /\ \A q \in Callers \ {p} :
              req'[q] = req[q] /\ pc'[q] = pc[q] /\ reply'[q] = reply[q]
        /\ req'[p] = NoRequest /\ pc'[p] = "idle" /\ reply'[p] = Pending
        /\ UNCHANGED rows
    BY <1>9 DEF IInv, TypeOK, Deliver, Goto
  <2>2. TypeOK'
    BY <1>9 DEF IInv, TypeOK, Deliver, Goto, PCs, Pending, Reply, Failures
  <2>3. OneProfilePerDriver' /\ LostRaceIsHidden' /\ AnsweredProfileIsOnRecord'
    BY <2>1 DEF IInv, OneProfilePerDriver, LostRaceIsHidden,
       AnsweredProfileIsOnRecord, Pending
  <2>4. RunningIsValid' /\ ReplyWhenDone'
    BY <2>1 DEF IInv, RunningIsValid, ReplyWhenDone, Running
  <2>5. LoserFindsRow'
    BY <2>1 DEF IInv, LoserFindsRow, Matching
  <2> QED BY <2>2, <2>3, <2>4, <2>5 DEF IInv
<1>10. ASSUME NEW r \in rows, SoftDeleteRow(r) PROVE IInv'
  <2>1. r \in Row
    BY DEF IInv, TypeOK
  <2> QED BY <1>10, <2>1, RetiredIsRow, ReplaceInv DEF SoftDeleteRow
<1>11. ASSUME NEW r \in rows, NEW patch \in Patch, UpdateRow(r, patch) PROVE IInv'
  <2>1. r \in Row
    BY DEF IInv, TypeOK
  <2> QED BY <1>11, <2>1, PatchedIsRow, ReplaceInv DEF UpdateRow
<1>12. CASE UNCHANGED vars
  BY <1>12 DEF vars, IInv, TypeOK, OneProfilePerDriver, AnsweredProfileIsOnRecord,
     LostRaceIsHidden, RunningIsValid, LoserFindsRow, ReplyWhenDone, Matching
<1> QED
  BY <1>1, <1>2, <1>3, <1>4, <1>5, <1>6, <1>7, <1>8, <1>9, <1>10, <1>11, <1>12
     DEF Next, Statement, OtherWrites

(* The inductive invariant: one row per identity, a loser whose winner is  *)
(* on record, and answers that agree with the table.                       *)
THEOREM InvariantHolds == Spec => []IInv
BY InitInv, NextInv, PTL DEF Spec

(* Type correctness: every row written is a well-formed row, whatever      *)
(* request it came from.                                                   *)
THEOREM TypeCorrect == Spec => []TypeOK
BY InvariantHolds, PTL DEF IInv

(* However CreateUser and UpsertDriver calls interleave and fail, a driver *)
(* has at most one profile.                                                *)
THEOREM OneProfile == Spec => []OneProfilePerDriver
BY InvariantHolds, PTL DEF IInv

(* A profile that was handed out stays on record.                          *)
THEOREM AnswersAreOnRecord == Spec => []AnsweredProfileIsOnRecord
BY InvariantHolds, PTL DEF IInv

(* The callers that race for one driver are told the same id.              *)
THEOREM Agreement == Spec => []RacersAgree
<1>1. IInv => RacersAgree
  BY DEF IInv, RacersAgree, OneProfilePerDriver, AnsweredProfileIsOnRecord
<1> QED BY <1>1, InvariantHolds, PTL

(* No caller ever sees the conflict of the race it lost.                   *)
THEOREM RaceIsHidden == Spec => []LostRaceIsHidden
BY InvariantHolds, PTL DEF IInv

(* Registration leaves every existing profile as it is.                    *)
THEOREM OnlyAdds == Spec => RegistrationOnlyAdds
<1>1. ASSUME IInv, [Next]_vars
      PROVE  [(\E p \in Callers : pc'[p] # pc[p]) => rows \subseteq rows']_vars
  <2>1. CASE OtherWrites
    BY <2>1 DEF OtherWrites, SoftDeleteRow, UpdateRow, Replace
  <2>2. CASE \E p \in Callers : \/ \E r \in Requests : Accept(p, r) \/ Reject(p, r)
                                \/ Statement(p) \/ Deliver(p)
    BY <2>2 DEF Accept, Reject, Statement, SelectHit, SelectMiss, InsertConflict,
       Insert, Reselect, StatementFails, Deliver
  <2> QED BY <1>1, <2>1, <2>2 DEF Next
<1> QED BY <1>1, InvariantHolds, PTL DEF Spec, RegistrationOnlyAdds

-----------------------------------------------------------------------------
(* The implementation of DriverDirectory. *)

\* Both modules read the same UserModel.
LEMMA SameModel ==
  /\ \A r : (Directory!Valid(r) <=> Valid(r)) /\ Directory!Retired(r) = Retired(r)
  /\ \A r, id : Directory!NewRow(r, id) = NewRow(r, id)
  /\ \A r, patch : Directory!Patched(r, patch) = Patched(r, patch)
  /\ Directory!Patch = Patch /\ Directory!Deleted = Deleted
<1>1. \A r : Directory!Valid(r) <=> Valid(r)
  BY DEF Directory!Valid, Directory!ValidCreate, Directory!ValidUpsert,
     Valid, ValidCreate, ValidUpsert
<1>2. \A r : Directory!Retired(r) = Retired(r)
  BY DEF Directory!Retired, Directory!Deleted, Retired, Deleted
<1>3. \A r, id : Directory!NewRow(r, id) = NewRow(r, id)
  BY DEF Directory!NewRow, Directory!StoredName, Directory!Active,
     NewRow, StoredName, Active
<1>4. \A r, patch : Directory!Patched(r, patch) = Patched(r, patch)
  BY DEF Directory!Patched, Directory!Overlay, Patched, Overlay
<1>5. Directory!Patch = Patch /\ Directory!Deleted = Deleted
  BY DEF Directory!Patch, Directory!Deleted, Patch, Deleted
<1> QED BY <1>1, <1>2, <1>3, <1>4, <1>5

DirOf == [e \in ExtIds |-> RowOf(e)]

\* The same table is the same directory.
LEMMA SameRows == UNCHANGED rows => UNCHANGED [e \in ExtIds |-> RowOf(e)]
<1>1. UNCHANGED rows => \A e \in ExtIds : Matching(e)' = Matching(e)
  BY DEF Matching
<1> QED BY <1>1 DEF RowOf

\* Where a driver has a row, the directory holds that row.
LEMMA RowOfIsTheRow ==
  ASSUME IInv, NEW r \in rows
  PROVE  RowOf(r.ext) = r /\ Matching(r.ext) = {r} /\ r.ext \in ExtIds /\ r # NoRow
<1>1. r \in Row
  BY DEF IInv, TypeOK
<1>2. Matching(r.ext) = {r}
  BY DEF IInv, OneProfilePerDriver, Matching
<1> QED BY <1>1, <1>2, ValuesAreDistinct DEF RowOf, ScanOne, Row

\* The ids in the directory are the ids in the table.
LEMMA SameUsedIds == ASSUME IInv PROVE Directory!UsedIds = {r.id : r \in rows}
<1>1. ASSUME NEW r \in rows PROVE r.id \in Directory!UsedIds
  BY RowOfIsTheRow DEF Directory!UsedIds
<1>2. ASSUME NEW e \in ExtIds, RowOf(e) # NoRow PROVE RowOf(e) \in rows
  BY <1>2 DEF RowOf, ScanOne, Matching
<1> QED BY <1>1, <1>2 DEF Directory!UsedIds

\* The table changed at one identity, so the directory does.
LEMMA DirectoryChanges ==
  ASSUME NEW e \in ExtIds, NEW new, new # NoRow,
         Matching(e)' = {new}, \A x \in ExtIds \ {e} : Matching(x)' = Matching(x)
  PROVE  DirOf' = [DirOf EXCEPT ![e] = new]
<1>1. RowOf(e)' = new
  BY DEF RowOf, ScanOne
<1>2. \A x \in ExtIds \ {e} : RowOf(x)' = RowOf(x)
  BY DEF RowOf
<1> QED BY <1>1, <1>2 DEF DirOf

\* A caller that finishes with the row the table holds: Return.
LEMMA FoundIsReturn ==
  ASSUME IInv, NEW p \in Callers, NEW from \in Running,
         Finish(p, from, GetByExternalID(req[p].ext)), UNCHANGED <<rows, req>>,
         Matching(req[p].ext) # {}
  PROVE  Directory!Return(p)
<1>1. PICK r \in rows : r.ext = req[p].ext
  BY DEF Matching
<1>2. RowOf(r.ext) = r /\ Matching(r.ext) = {r} /\ r.ext \in ExtIds /\ r # NoRow
  BY <1>1, RowOfIsTheRow
<1>3. GetByExternalID(req[p].ext) = Found(RowOf(req[p].ext))
  BY <1>1, <1>2 DEF GetByExternalID, RowOf
<1>4. req[p] # NoRequest /\ reply[p] = Pending
  BY RegistrationAssumption DEF IInv, RunningIsValid, Finish, Goto
<1>5. [e \in ExtIds |-> RowOf(e)][req[p].ext] = RowOf(req[p].ext)
  BY <1>1, <1>2
<1>6. Directory!Waiting(p)
  BY <1>4 DEF Directory!Waiting, Directory!Pending, Pending
<1>7. Directory!Answer(p, Directory!Found(RowOf(req[p].ext)))
  BY <1>3 DEF Directory!Answer, Directory!Found, Found, Finish
<1>8. UNCHANGED [e \in ExtIds |-> RowOf(e)]
  BY SameRows
<1> QED BY <1>1, <1>2, <1>5, <1>6, <1>7, <1>8 DEF Directory!Return

\* A committed INSERT: Create.
LEMMA InsertIsCreate ==
  ASSUME IInv, NEW p \in Callers, NEW id \in FreshIds, Insert(p, id)
  PROVE  Directory!Create(p, id)
<1>0. PICK e, new : e = req[p].ext /\ new = NewRow(req[p], id)
  OBVIOUS
<1>1. /\ pc[p] = "insert" /\ req[p] \in Requests /\ Valid(req[p])
      /\ reply[p] = Pending /\ rows' = rows \cup {new} /\ req' = req
  BY <1>0 DEF IInv, Insert, Finish, Goto, RunningIsValid, Running
<1>2. id \in RowIds /\ req[p] \in Request /\ req[p] # NoRequest
  BY <1>1, RegistrationAssumption DEF FreshIds
<1>3. e \in ExtIds /\ new \in Row /\ new.ext = e /\ new # NoRow
  BY <1>0, <1>1, <1>2, NewRowIsRow, ValuesAreDistinct DEF Request, Valid
<1>4. Matching(e) = {}
  BY <1>0 DEF Insert, Duplicate
<1>5. /\ Matching(e)' = {new}
      /\ \A x \in ExtIds \ {e} : Matching(x)' = Matching(x)
  BY <1>1, <1>3, <1>4 DEF Matching
<1>6. DirOf' = [DirOf EXCEPT ![e] = new]
  BY <1>3, <1>5, DirectoryChanges
<1>7. Directory!Waiting(p)
  BY <1>1, <1>2 DEF Directory!Waiting, Directory!Pending, Pending
<1>8. [x \in ExtIds |-> RowOf(x)][e] = NoRow
  BY <1>3, <1>4 DEF RowOf, ScanOne
<1>9. id \notin Directory!UsedIds
  BY SameUsedIds DEF FreshIds
<1>10. \/ Directory!Answer(p, Directory!Found(new))
       \/ Directory!Answer(p, Directory!Failed("ERROR"))
  BY <1>0, <1>1 DEF Insert, Finish, Directory!Answer, Directory!Found,
     Directory!Failed, Found, Failed
<1> QED
  BY <1>0, <1>6, <1>7, <1>8, <1>9, <1>10, SameModel DEF Directory!Create, DirOf

\* An UPDATE replaces one profile of the directory.
LEMMA ReplaceInDirectory ==
  ASSUME IInv, NEW r \in rows, NEW new \in Row, new.ext = r.ext, Replace(r, new)
  PROVE  /\ DirOf' = [DirOf EXCEPT ![r.ext] = new]
         /\ DirOf[r.ext] = r /\ r.ext \in ExtIds /\ r # NoRow
<1>1. RowOf(r.ext) = r /\ Matching(r.ext) = {r} /\ r.ext \in ExtIds /\ r # NoRow
  BY RowOfIsTheRow
<1>2. new # NoRow
  BY ValuesAreDistinct
<1>3. /\ Matching(r.ext)' = {new}
      /\ \A x \in ExtIds \ {r.ext} : Matching(x)' = Matching(x)
  BY <1>1 DEF Replace, Matching
<1> QED BY <1>1, <1>2, <1>3, DirectoryChanges DEF DirOf

(* Every step of Registration is a step of the directory or none: seen     *)
(* from outside, a call creates or returns its profile atomically.         *)
THEOREM ImplementsDirectorySafely == Spec => Directory!SafeSpec
<1>1. Init => Directory!Init
  BY DEF Init, Directory!Init, Directory!Pending, Pending, RowOf, ScanOne, Matching
<1>2. IInv /\ [Next]_vars => [Directory!Next]_(Directory!vars)
  <2> SUFFICES ASSUME IInv, [Next]_vars PROVE [Directory!Next]_(Directory!vars)
    OBVIOUS
  <2>1. ASSUME NEW p \in Callers, NEW r \in Requests, Accept(p, r) \/ Reject(p, r)
        PROVE  Directory!Ask(p, r)
    <3>1. req[p] = NoRequest /\ UNCHANGED [e \in ExtIds |-> RowOf(e)]
      BY <2>1, SameRows DEF Accept, Reject, Finish, Goto, IInv, ReplyWhenDone
    <3> QED BY <2>1, <3>1, SameModel DEF Accept, Reject, Finish, Goto, Directory!Ask,
         Directory!Pending, Directory!Failed, Failed, Pending, IInv, TypeOK, ReplyWhenDone
  <2>2. ASSUME NEW p \in Callers, SelectHit(p) PROVE Directory!Return(p)
    BY <2>2, FoundIsReturn DEF SelectHit, Running
  <2>3. ASSUME NEW p \in Callers, SelectMiss(p) \/ InsertConflict(p)
        PROVE  UNCHANGED Directory!vars
    BY <2>3, SameRows DEF SelectMiss, InsertConflict, Directory!vars
  <2>4. ASSUME NEW p \in Callers, NEW id \in FreshIds, Insert(p, id)
        PROVE  Directory!Create(p, id)
    BY <2>4, InsertIsCreate
  <2>5. ASSUME NEW p \in Callers, Reselect(p) PROVE Directory!Return(p)
    <3>1. Matching(req[p].ext) # {}
      BY <2>5 DEF IInv, LoserFindsRow, Reselect, Finish, Goto
    <3> QED BY <2>5, <3>1, FoundIsReturn DEF Reselect, Running
  <2>6. ASSUME NEW p \in Callers, StatementFails(p) PROVE Directory!Fail(p)
    <3>1. req[p] # NoRequest /\ reply[p] = Pending
      BY <2>6, RegistrationAssumption DEF StatementFails, Finish, Goto, IInv,
         RunningIsValid
    <3> QED BY <2>6, <3>1, SameRows DEF StatementFails, Finish, Directory!Fail,
         Directory!Waiting, Directory!Answer, Directory!Failed, Failed,
         Directory!Pending, Pending
  <2>7. ASSUME NEW p \in Callers, Deliver(p) PROVE Directory!Forget(p)
    BY <2>7, SameRows DEF Deliver, Goto, Directory!Forget, Directory!Pending, Pending,
       IInv, ReplyWhenDone
  <2>8. ASSUME NEW r \in rows, SoftDeleteRow(r)
        PROVE  r.ext \in ExtIds /\ Directory!Retire(r.ext)
    <3>1. r \in Row /\ Retired(r) \in Row /\ Retired(r).ext = r.ext
      BY RetiredIsRow DEF IInv, TypeOK
    <3>2. /\ DirOf' = [DirOf EXCEPT ![r.ext] = Retired(r)]
          /\ DirOf[r.ext] = r /\ r.ext \in ExtIds /\ r # NoRow
      BY <2>8, <3>1, ReplaceInDirectory DEF SoftDeleteRow
    <3> QED BY <2>8, <3>2, SameModel DEF SoftDeleteRow, Replace, Directory!Retire, DirOf
  <2>9. ASSUME NEW r \in rows, NEW patch \in Patch, UpdateRow(r, patch)
        PROVE  r.ext \in ExtIds /\ Directory!Edit(r.ext, patch)
    <3>1. r \in Row /\ Patched(r, patch) \in Row /\ Patched(r, patch).ext = r.ext
      BY PatchedIsRow DEF IInv, TypeOK
    <3>2. /\ DirOf' = [DirOf EXCEPT ![r.ext] = Patched(r, patch)]
          /\ DirOf[r.ext] = r /\ r.ext \in ExtIds /\ r # NoRow
      BY <2>9, <3>1, ReplaceInDirectory DEF UpdateRow
    <3> QED BY <2>9, <3>2, SameModel DEF UpdateRow, Replace, Directory!Edit, DirOf
  <2>10. CASE UNCHANGED vars
    BY <2>10, SameRows DEF vars, Directory!vars
  <2> QED
    BY <2>1, <2>2, <2>3, <2>4, <2>5, <2>6, <2>7, <2>8, <2>9, <2>10, SameModel
       DEF Next, Statement, OtherWrites, Directory!Next, Directory!Resolve, FreshIds
<1> QED BY <1>1, <1>2, InvariantHolds, PTL DEF Spec, Directory!SafeSpec

-----------------------------------------------------------------------------
(* The walk through the listing.  A place in the listing is a rank: how    *)
(* many of those listed are as young or younger.                           *)
Rank(u) == Cardinality({v \in Listed : created[v] >= created[u]})

Rows == {u \in Users : created[u] # 0}

\* The clock never falls behind a row, and without a tie instants are distinct.
Clock ==
  /\ IsFiniteSet(Rows)
  /\ \A u \in Users : created[u] <= now
  /\ "tie" \notin events => \A u, v \in Rows : created[u] = created[v] => u = v

Fresh ==
  walk = "idle" =>
    /\ offset = 0 /\ page = <<>> /\ got = {}
    /\ events \cap {"broken", "repeated"} = {}

\* Whoever is due and has not been told of stands behind the offset.
Ahead ==
  walk # "idle" /\ events \cap {"deleted", "broken", "tie"} = {} =>
    /\ due \subseteq Listed
    /\ walk # "done" => \A u \in due : u \in got \/ Rank(u) > offset
    /\ walk = "count" =>
         /\ \A u \in due : u \in got \cup ToSet(page) \/ Rank(u) > offset + Len(page)
         /\ page = <<>> => due \subseteq got
    /\ walk = "done" => due \subseteq got

\* Whoever has been told of stands before it.
Behind ==
  events \cap {"registered", "tie"} = {} =>
    /\ "repeated" \notin events
    /\ \A u \in got \cap Listed : Rank(u) <= offset
    /\ walk = "count" =>
         /\ \A u \in ToSet(page) \cap Listed : Rank(u) <= offset + Len(page)
         /\ got \cap ToSet(page) = {}

\* A walk nothing disturbs looks at one listing.
Still ==
  walk # "idle" /\ events \cap {"registered", "deleted", "broken", "tie"} = {} =>
    /\ due = Listed /\ got \subseteq Listed
    /\ walk = "count" => ToSet(page) \subseteq Listed
    /\ walk = "done" => total = Cardinality(Listed)

Covered ==
  walk = "count" /\ "shrank" \notin events /\ page # <<>> =>
    offset + Len(page) <= Cardinality(Listed)

WalkInv == WalkTypeOK /\ Clock /\ Fresh /\ Ahead /\ Behind /\ Still /\ Covered

-----------------------------------------------------------------------------
(* Ranks. *)

LEMMA ClampedBounds == ASSUME NEW l \in Limits PROVE Clamped(l) \in 1..MaxListLimit
  BY ListUsersAssumption DEF Clamped

LEMMA ListedFinite ==
  ASSUME WalkInv
  PROVE  /\ Listed \subseteq Rows /\ IsFiniteSet(Listed) /\ Cardinality(Listed) \in Nat
         /\ Rows \subseteq Users
  <1>1. Listed \subseteq Rows
    BY DEF Listed, Present, Rows
  <1> QED
    BY <1>1, FS_Subset, FS_CardinalityType DEF WalkInv, Clock, Rows

LEMMA RankBounds ==
  ASSUME WalkInv, NEW u
  PROVE  /\ Rank(u) \in Nat /\ Rank(u) <= Cardinality(Listed)
         /\ u \in Listed => Rank(u) >= 1
  <1> DEFINE S == {v \in Listed : created[v] >= created[u]}
  <1>1. IsFiniteSet(S) /\ Cardinality(S) <= Cardinality(Listed)
    BY ListedFinite, FS_Subset
  <1>2. Cardinality(S) \in Nat
    BY <1>1, FS_CardinalityType
  <1>3. ASSUME u \in Listed PROVE Cardinality(S) >= 1
    <2>1. u \in Users /\ created[u] \in Int
      BY <1>3, ListedFinite DEF WalkInv, WalkTypeOK
    <2>2. u \in S
      BY <1>3, <2>1
    <2>3. Cardinality(S) # 0
      BY <1>1, <2>2, FS_EmptySet
    <2> QED
      BY <1>2, <2>3
  <1> QED
    BY <1>1, <1>2, <1>3 DEF Rank

(* Without a tie the place of a user in the answer is its rank, and        *)
(* everyone listed is in the answer.                                       *)
LEMMA PlaceIsRank ==
  ASSUME WalkInv, "tie" \notin events, NEW s \in Orders
  PROVE  /\ s \in [1..Cardinality(Listed) -> Listed]
         /\ \A i \in 1..Cardinality(Listed) : Rank(s[i]) = i
         /\ \A u \in Listed : \E i \in 1..Cardinality(Listed) : s[i] = u
  <1> DEFINE N == Cardinality(Listed)
  <1>1. N \in Nat /\ IsFiniteSet(Listed) /\ Listed \subseteq Rows /\ Rows \subseteq Users
    BY ListedFinite
  <1>2. /\ s \in [1..N -> Listed]
        /\ \A i, j \in 1..N : i # j => s[i] # s[j]
        /\ \A i, j \in 1..N : i < j => created[s[i]] >= created[s[j]]
    BY DEF Orders, SetToSeqs
  <1>3. \A u \in Listed : \E i \in 1..N : s[i] = u
    <2>1. s \in Injection(1..N, Listed)
      BY <1>2 DEF Injection, IsInjective
    <2>2. Cardinality(1..N) = N
      BY <1>1, FS_Interval
    <2>3. s \in Surjection(1..N, Listed)
      BY <1>1, <2>1, <2>2, FS_Injection
    <2> QED
      BY <2>3 DEF Surjection
  <1> HIDE DEF N
  <1>4. ASSUME NEW i \in 1..N PROVE Rank(s[i]) = i
    <2> DEFINE T == {v \in Listed : created[v] >= created[s[i]]}
               f == [j \in 1..i |-> s[j]]
    <2>1. \A j \in 1..N : s[j] \in Listed /\ created[s[j]] \in Int
      BY <1>1, <1>2 DEF WalkInv, WalkTypeOK
    <2>2. \A j \in 1..i : s[j] \in T
      BY <1>1, <1>2, <2>1
    <2>3. ASSUME NEW v \in T PROVE \E j \in 1..i : s[j] = v
      <3>1. PICK j \in 1..N : s[j] = v
        BY <1>3
      <3>2. ASSUME j > i PROVE FALSE
        <4>1. created[s[j]] = created[s[i]]
          BY <1>2, <2>1, <3>1, <3>2
        <4>2. s[j] = s[i]
          BY <1>1, <2>1, <4>1 DEF WalkInv, Clock
        <4> QED
          BY <1>2, <3>2, <4>2
      <3> QED
        BY <1>1, <3>1, <3>2
    <2>4. f \in Bijection(1..i, T)
      <3>1. f \in [1..i -> T]
        BY <2>2
      <3>2. \A j, k \in 1..i : f[j] = f[k] => j = k
        BY <1>1, <1>2
      <3>3. \A v \in T : \E j \in 1..i : f[j] = v
        BY <2>3
      <3> HIDE DEF f, T
      <3> QED
        BY <3>1, <3>2, <3>3 DEF Bijection, Injection, Surjection, IsInjective
    <2>5. Cardinality(T) = i
      BY <1>1, <2>4, FS_CountingElements DEF ExistsBijection
    <2> QED
      BY <2>5 DEF Rank
  <1> QED
    BY <1>2, <1>3, <1>4 DEF N

-----------------------------------------------------------------------------
(* Pages. *)

\* What a statement, whole or cut short, leaves in the page.
LEMMA SliceIs ==
  ASSUME WalkInv, NEW s \in Orders, NEW n \in Nat, NEW p,
         \/ p = Slice(s) /\ n = Len(p)
         \/ p = SubSeq(Slice(s), 1, n) /\ n <= Len(Slice(s))
  PROVE  /\ p \in [1..n -> Listed] /\ n = Len(p) /\ n <= Clamped(limit)
         /\ n > 0 => offset + n <= Cardinality(Listed)
         /\ \A i \in 1..n : p[i] = s[offset + i]
         /\ p = Slice(s) => \/ n >= Cardinality(Listed) - offset
                            \/ n = Clamped(limit)
  <1> DEFINE N == Cardinality(Listed)
             C == Clamped(limit)
             m == IF offset + C < N THEN offset + C ELSE N
             t == SubSeq(s, offset + 1, m)
             k == IF offset + 1 <= m THEN m - offset ELSE 0
  <1>1. N \in Nat /\ C \in Nat /\ C >= 1 /\ offset \in Nat /\ m \in Nat
    BY ListedFinite, ClampedBounds, ListUsersAssumption DEF WalkInv, WalkTypeOK
  <1>2. s \in [1..N -> Listed]
    BY DEF Orders, SetToSeqs
  <1>3. Len(s) = N /\ Slice(s) = t
    <2>1. s \in Seq(Listed) /\ Len(s) = N
      BY <1>1, <1>2, SeqDef, LenProperties
    <2> QED
      BY <2>1 DEF Slice
  <1> HIDE DEF N, C
  <1>4. \A i \in (offset + 1)..m : s[i] \in Listed
    BY <1>1, <1>2
  <1>5. /\ t \in Seq(Listed) /\ Len(t) = k /\ k \in Nat
        /\ \A i \in 1..k : t[i] = s[offset + i]
    <2> HIDE DEF m
    <2>1. /\ t \in Seq(Listed)
          /\ Len(t) = IF offset + 1 <= m THEN m - (offset + 1) + 1 ELSE 0
          /\ \A i \in 1..(m - (offset + 1) + 1) : t[i] = s[(offset + 1) + i - 1]
      BY <1>1, <1>4, SubSeqProperties
    <2> HIDE DEF t
    <2>2. Len(t) = k /\ k \in Nat
      BY <1>1, <2>1
    <2>3. ASSUME NEW i \in 1..k PROVE t[i] = s[offset + i]
      <3>1. i \in 1..(m - (offset + 1) + 1) /\ (offset + 1) + i - 1 = offset + i
        BY <1>1
      <3> QED
        BY <2>1, <3>1
    <2> QED
      BY <2>1, <2>2, <2>3
  <1>6. /\ p \in Seq(Listed) /\ Len(p) = n /\ n <= k
        /\ \A i \in 1..n : p[i] = t[i]
        /\ p = t => n = k
    <2>1. CASE p = Slice(s) /\ n = Len(p)
      BY <1>3, <1>5, <2>1
    <2>2. CASE p = SubSeq(Slice(s), 1, n) /\ n <= Len(Slice(s))
      <3> HIDE DEF t, k
      <3>1. \A i \in 1..n : t[i] \in Listed
        BY <1>3, <1>5, <2>2, ElementOfSeq
      <3>2. p = SubSeq(t, 1, n)
        BY <1>3, <2>2
      <3>3. /\ p \in Seq(Listed) /\ Len(p) = IF 1 <= n THEN n - 1 + 1 ELSE 0
            /\ \A i \in 1..n - 1 + 1 : p[i] = t[1 + i - 1]
        BY <3>1, <3>2, SubSeqProperties
      <3> QED
        BY <1>3, <1>5, <2>2, <3>3
    <2> QED
      BY <2>1, <2>2
  <1>7. p \in [1..n -> Listed]
    BY <1>6, LenProperties
  <1>8. n <= C /\ (n > 0 => offset + n <= N) /\ (p = t => n >= N - offset \/ n = C)
    BY <1>1, <1>6
  <1> HIDE DEF t, k, m
  <1>9. \A i \in 1..n : p[i] = s[offset + i]
    BY <1>5, <1>6
  <1> QED
    BY <1>3, <1>6, <1>7, <1>8, <1>9 DEF N, C

LEMMA SliceLen ==
  ASSUME WalkInv, NEW s \in Orders PROVE Len(Slice(s)) \in Nat
  <1>1. /\ offset \in Nat /\ Clamped(limit) \in Nat /\ Cardinality(Listed) \in Nat
        /\ s \in [1..Cardinality(Listed) -> Listed]
    BY ListedFinite, ClampedBounds, ListUsersAssumption
       DEF WalkInv, WalkTypeOK, Orders, SetToSeqs
  <1>2. s \in Seq(Listed) /\ Len(s) \in Nat /\ DOMAIN s = 1..Len(s)
    BY <1>1, SeqDef, LenProperties
  <1> DEFINE m == IF offset + Clamped(limit) < Len(s) THEN offset + Clamped(limit) ELSE Len(s)
  <1>3. m \in Nat /\ m <= Len(s)
    BY <1>1, <1>2
  <1> HIDE DEF m
  <1>4. \A i \in (offset + 1)..m : s[i] \in Listed
    BY <1>1, <1>2, <1>3
  <1>5. SubSeq(s, offset + 1, m) \in Seq(Listed)
    BY <1>1, <1>3, <1>4, SubSeqProperties
  <1> QED
    BY <1>5, LenProperties DEF Slice, m

LEMMA EmptyLen == ASSUME NEW S, NEW n \in Nat, NEW p \in [1..n -> S] PROVE p = <<>> <=> n = 0
  BY EmptySeq, SeqDef, LenProperties

LEMMA EmptyTyped == <<>> \in BoundedSeq(Users, MaxListLimit)
  BY ListUsersAssumption DEF BoundedSeq, SeqOf

(* Without a tie a page holds the ranks behind the offset, without a gap.  *)
LEMMA PageIsRanks ==
  ASSUME WalkInv, "tie" \notin events, NEW s \in Orders, NEW n \in Nat, NEW p,
         \/ p = Slice(s) /\ n = Len(p)
         \/ p = SubSeq(Slice(s), 1, n) /\ n <= Len(Slice(s))
  PROVE  /\ ToSet(p) \subseteq Listed /\ n = Len(p)
         /\ \A u \in ToSet(p) : offset < Rank(u) /\ Rank(u) <= offset + n
         /\ \A u \in Listed : offset < Rank(u) /\ Rank(u) <= offset + n => u \in ToSet(p)
  <1> DEFINE N == Cardinality(Listed)
  <1>1. /\ p \in [1..n -> Listed] /\ n = Len(p)
        /\ n > 0 => offset + n <= N
        /\ \A i \in 1..n : p[i] = s[offset + i]
    BY SliceIs
  <1>2. N \in Nat /\ offset \in Nat
    BY ListedFinite DEF WalkInv, WalkTypeOK
  <1>3. /\ \A i \in 1..N : Rank(s[i]) = i
        /\ \A u \in Listed : \E i \in 1..N : s[i] = u
    BY PlaceIsRank
  <1>4. ToSet(p) = {p[i] : i \in 1..n}
    BY <1>1 DEF ToSet
  <1> HIDE DEF N
  <1>5. ASSUME NEW i \in 1..n
        PROVE  p[i] \in Listed /\ offset < Rank(p[i]) /\ Rank(p[i]) <= offset + n
    <2>1. offset + i \in 1..N
      BY <1>1, <1>2
    <2>2. Rank(s[offset + i]) = offset + i
      BY <1>3, <2>1
    <2> QED
      BY <1>1, <1>2, <2>2
  <1>6. ASSUME NEW u \in Listed, offset < Rank(u), Rank(u) <= offset + n
        PROVE  u \in {p[i] : i \in 1..n}
    <2>1. PICK j \in 1..N : s[j] = u
      BY <1>3
    <2>2. Rank(u) = j
      BY <1>3, <2>1
    <2>3. PICK i \in 1..n : j = offset + i
      <3>1. j - offset \in 1..n /\ j = offset + (j - offset)
        BY <1>2, <1>6, <2>2
      <3> QED
        BY <3>1
    <2> QED
      BY <1>1, <2>1, <2>3
  <1> QED
    BY <1>1, <1>4, <1>5, <1>6

-----------------------------------------------------------------------------
(* The steps. *)

\* The action property, as a step.
Covers == offset' # offset /\ "shrank" \notin events => offset' <= total'

WalkGood == WalkInv' /\ Covers

LEMMA SameRanks ==
  ASSUME UNCHANGED <<table, asked>>
  PROVE  /\ Listed' = Listed /\ Rows' = Rows
         /\ \A u : Rank(u)' = Rank(u)
  <1>1. Listed' = Listed
    BY DEF Listed, Present, table, asked
  <1> QED
    BY <1>1 DEF Rank, Rows, table

LEMMA SameClock ==
  ASSUME WalkInv, UNCHANGED <<table, asked>>, "tie" \in events => "tie" \in events'
  PROVE  Clock'
  BY SameRanks DEF WalkInv, Clock, table

LEMMA StartGood == ASSUME WalkInv, Start PROVE WalkGood
  <1>1. UNCHANGED <<table, asked, offset, page, total, got>> /\ walk' = "select"
        /\ due' = Listed /\ events' = events \ {"registered", "deleted"}
        /\ offset = 0 /\ page = <<>> /\ got = {} /\ events \cap {"broken", "repeated"} = {}
    BY DEF Start, WalkInv, Fresh
  <1>2. WalkTypeOK'
    BY <1>1, ListedFinite DEF WalkInv, WalkTypeOK, table, asked
  <1>3. Clock'
    BY <1>1, SameClock
  <1>4. Fresh' /\ Covered' /\ Covers
    BY <1>1 DEF Fresh, Covered, Covers
  <1>5. Ahead'
    BY <1>1, SameRanks, RankBounds DEF Ahead
  <1>6. Behind'
    BY <1>1 DEF Behind
  <1>7. Still'
    BY <1>1, SameRanks DEF Still
  <1> QED
    BY <1>2, <1>3, <1>4, <1>5, <1>6, <1>7 DEF WalkGood, WalkInv

(* A page that was read, in full or not.                                   *)
LEMMA SelectGood ==
  ASSUME WalkInv, Select \/ SelectBreaks PROVE WalkGood
  <1>1. /\ UNCHANGED <<table, asked, offset, total, got, due>>
        /\ walk = "select" /\ walk' = "count"
        /\ events \ {"grew", "shrank"} \subseteq events'
        /\ events' \subseteq (events \ {"grew", "shrank"}) \cup {"broken"}
    BY DEF Select, SelectBreaks
  <1>2. PICK s \in Orders, n \in Nat :
          /\ \/ page' = Slice(s) /\ n = Len(page')
             \/ page' = SubSeq(Slice(s), 1, n) /\ n <= Len(Slice(s))
          /\ "broken" \notin events' => page' = Slice(s)
    <2>1. CASE Select
      <3>1. PICK s \in Orders : page' = Slice(s)
        BY <2>1 DEF Select
      <3>2. Len(page') \in Nat
        BY <3>1, SliceLen
      <3> QED
        BY <3>1, <3>2
    <2>2. CASE SelectBreaks
      <3>1. PICK s \in Orders : \E n \in 0..Len(Slice(s)) - 1 : page' = SubSeq(Slice(s), 1, n)
        BY <2>2 DEF SelectBreaks
      <3>2. PICK n \in 0..Len(Slice(s)) - 1 : page' = SubSeq(Slice(s), 1, n)
        BY <3>1
      <3>3. Len(Slice(s)) \in Nat
        BY SliceLen
      <3>4. "broken" \in events'
        BY <2>2 DEF SelectBreaks
      <3> QED
        BY <3>2, <3>3, <3>4
    <2> QED
      BY <2>1, <2>2
  <1>3. /\ page' \in [1..n -> Listed] /\ n = Len(page') /\ n <= Clamped(limit)
        /\ n > 0 => offset + n <= Cardinality(Listed)
        /\ page' = Slice(s) => n >= Cardinality(Listed) - offset \/ n = Clamped(limit)
    BY <1>2, SliceIs
  <1>4. Clamped(limit) \in 1..MaxListLimit /\ offset \in Nat /\ Cardinality(Listed) \in Nat
        /\ MaxListLimit \in Nat
    BY ListedFinite, ClampedBounds, ListUsersAssumption DEF WalkInv, WalkTypeOK
  <1>5. WalkTypeOK'
    <2>1. page' \in [1..n -> Users] /\ n \in 0..MaxListLimit
      BY <1>3, <1>4, ListedFinite
    <2>2. page' \in BoundedSeq(Users, MaxListLimit)
      BY <2>1 DEF BoundedSeq, SeqOf
    <2>3. events' \subseteq Events
      BY <1>1 DEF WalkInv, WalkTypeOK, Events
    <2> QED
      BY <1>1, <2>2, <2>3 DEF WalkInv, WalkTypeOK, table, asked
  <1>6. Clock'
    BY <1>1, SameClock
  <1>7. Fresh' /\ Covers
    BY <1>1 DEF Fresh, Covers
  <1>8. Covered'
    BY <1>1, <1>3, <1>4, SameRanks, EmptyLen DEF Covered
  <1>9. "tie" \notin events' =>
          /\ ToSet(page') \subseteq Listed
          /\ \A u \in ToSet(page') : offset < Rank(u) /\ Rank(u) <= offset + n
          /\ \A u \in Listed : offset < Rank(u) /\ Rank(u) <= offset + n => u \in ToSet(page')
    BY <1>1, <1>2, PageIsRanks
  <1>10. Ahead'
    <2> SUFFICES ASSUME events' \cap {"deleted", "broken", "tie"} = {}
                 PROVE  /\ due \subseteq Listed
                        /\ \A u \in due : u \in got \/ Rank(u) > offset
                        /\ \A u \in due : u \in got \cup ToSet(page') \/ Rank(u) > offset + n
                        /\ page' = <<>> => due \subseteq got
      BY <1>1, <1>3, SameRanks DEF Ahead
    <2>1. due \subseteq Listed /\ \A u \in due : u \in got \/ Rank(u) > offset
      BY <1>1 DEF WalkInv, Ahead
    <2>2. \A u \in due : Rank(u) \in Nat /\ Rank(u) <= Cardinality(Listed)
      BY RankBounds
    <2>3. ASSUME NEW u \in due PROVE u \in got \cup ToSet(page') \/ Rank(u) > offset + n
      BY <1>4, <1>9, <2>1, <2>2
    <2>4. ASSUME page' = <<>> PROVE due \subseteq got
      <3>1. n = 0
        BY <1>3, <2>4, EmptyLen
      <3>2. offset >= Cardinality(Listed)
        BY <1>2, <1>3, <1>4, <3>1
      <3> QED
        BY <1>4, <2>1, <2>2, <3>2
    <2> QED
      BY <2>1, <2>3, <2>4
  <1>11. Behind'
    <2> SUFFICES ASSUME events' \cap {"registered", "tie"} = {}
                 PROVE  /\ "repeated" \notin events'
                        /\ \A u \in got \cap Listed : Rank(u) <= offset
                        /\ \A u \in ToSet(page') \cap Listed : Rank(u) <= offset + n
                        /\ got \cap ToSet(page') = {}
      BY <1>1, <1>3, SameRanks DEF Behind
    <2>1. "repeated" \notin events' /\ \A u \in got \cap Listed : Rank(u) <= offset
      BY <1>1 DEF WalkInv, Behind
    <2>2. ASSUME NEW u \in got, u \in ToSet(page') PROVE FALSE
      BY <1>4, <1>9, <2>1, <2>2, RankBounds
    <2> QED
      BY <1>9, <2>1, <2>2
  <1>12. Still'
    BY <1>1, <1>9, SameRanks DEF WalkInv, Still
  <1> QED
    BY <1>5, <1>6, <1>7, <1>8, <1>10, <1>11, <1>12 DEF WalkGood, WalkInv

LEMMA FailGood == ASSUME WalkInv, Fail PROVE WalkGood
  <1>1. /\ UNCHANGED <<table, asked, offset, total, got, due, events>>
        /\ walk \in {"select", "count"} /\ walk' = "select" /\ page' = <<>>
    BY DEF Fail
  <1>2. WalkTypeOK'
    BY <1>1, EmptyTyped DEF WalkInv, WalkTypeOK, table, asked
  <1>3. Clock'
    BY <1>1, SameClock
  <1>4. Fresh' /\ Covered' /\ Covers
    BY <1>1 DEF Fresh, Covered, Covers
  <1>5. Ahead'
    BY <1>1, SameRanks DEF WalkInv, Ahead
  <1>6. Behind' /\ Still'
    BY <1>1, SameRanks DEF WalkInv, Behind, Still
  <1> QED
    BY <1>2, <1>3, <1>4, <1>5, <1>6 DEF WalkGood, WalkInv

LEMMA PageTyped ==
  ASSUME WalkInv
  PROVE  Len(page) \in Nat /\ ToSet(page) \subseteq Users /\ (page = <<>> <=> Len(page) = 0)
  <1>1. PICK n \in 0..MaxListLimit : page \in [1..n -> Users]
    BY DEF WalkInv, WalkTypeOK, BoundedSeq, SeqOf
  <1>2. n \in Nat /\ page \in Seq(Users)
    BY <1>1, SeqDef, ListUsersAssumption
  <1>3. Len(page) = n /\ DOMAIN page = 1..n
    BY <1>1, <1>2, LenProperties
  <1> QED
    BY <1>1, <1>2, <1>3, EmptyLen DEF ToSet

LEMMA CountGood == ASSUME WalkInv, Count PROVE WalkGood
  <1>1. /\ UNCHANGED <<table, asked, due>>
        /\ walk = "count" /\ total' = Cardinality(Listed) /\ got' = got \cup ToSet(page)
        /\ events' = IF got \cap ToSet(page) # {} THEN events \cup {"repeated"} ELSE events
        /\ offset' = offset + Len(page) /\ page' = <<>>
        /\ walk' = IF page = <<>> \/ offset' >= total' THEN "done" ELSE "select"
    BY DEF Count, CountListed
  <1>2. /\ Len(page) \in Nat /\ ToSet(page) \subseteq Users /\ (page = <<>> <=> Len(page) = 0)
        /\ offset \in Nat /\ Cardinality(Listed) \in Nat
    BY PageTyped, ListedFinite DEF WalkInv, WalkTypeOK
  <1>3. WalkTypeOK'
    BY <1>1, <1>2, EmptyTyped DEF WalkInv, WalkTypeOK, table, asked, Events
  <1>4. Clock'
    BY <1>1, SameClock
  <1>5. Fresh' /\ Covered'
    BY <1>1 DEF Fresh, Covered
  <1>6. Covers
    BY <1>1, <1>2 DEF WalkInv, Covered, Covers
  <1>7. Ahead'
    <2> SUFFICES ASSUME events' \cap {"deleted", "broken", "tie"} = {}
                 PROVE  /\ due \subseteq Listed
                        /\ walk' # "done" => \A u \in due : u \in got' \/ Rank(u) > offset'
                        /\ walk' = "done" => due \subseteq got'
      BY <1>1, SameRanks DEF Ahead
    <2>1. /\ due \subseteq Listed
          /\ \A u \in due : u \in got' \/ Rank(u) > offset'
          /\ page = <<>> => due \subseteq got
      BY <1>1 DEF WalkInv, Ahead
    <2>2. ASSUME offset' >= total' PROVE due \subseteq got'
      BY <1>1, <1>2, <2>1, <2>2, RankBounds
    <2> QED
      BY <1>1, <2>1, <2>2
  <1>8. Behind'
    <2> SUFFICES ASSUME events' \cap {"registered", "tie"} = {}
                 PROVE  /\ "repeated" \notin events'
                        /\ \A u \in got' \cap Listed : Rank(u) <= offset'
      BY <1>1, SameRanks DEF Behind
    <2>1. /\ "repeated" \notin events
          /\ \A u \in got \cap Listed : Rank(u) <= offset
          /\ \A u \in ToSet(page) \cap Listed : Rank(u) <= offset + Len(page)
          /\ got \cap ToSet(page) = {}
      BY <1>1 DEF WalkInv, Behind
    <2>2. ASSUME NEW u \in got' \cap Listed PROVE Rank(u) <= offset'
      BY <1>1, <1>2, <2>1, RankBounds
    <2> QED
      BY <1>1, <2>1, <2>2
  <1>9. Still'
    BY <1>1, SameRanks DEF WalkInv, Still
  <1> QED
    BY <1>3, <1>4, <1>5, <1>6, <1>7, <1>8, <1>9 DEF WalkGood, WalkInv

(* A registration moves nobody forward.                                    *)
LEMMA RegisterRanks ==
  ASSUME WalkInv, NEW u \in Users, Register(u)
  PROVE  /\ Rows' = Rows \cup {u} /\ IsFiniteSet(Rows')
         /\ Listed \subseteq Listed' /\ Cardinality(Listed)' >= Cardinality(Listed)
         /\ Cardinality(Listed)' \in Nat
         /\ \A v \in Listed : Rank(v)' >= Rank(v) /\ Rank(v)' \in Nat
  <1>1. PICK t \in {now, now + 1} \ {0} : t <= MaxTime /\ created' = [created EXCEPT ![u] = t]
    BY DEF Register
  <1>2. /\ created[u] = 0 /\ UNCHANGED <<deleted, asked>>
        /\ created \in [Users -> 0..MaxTime]
    BY DEF Register, WalkInv, WalkTypeOK
  <1>3. Rows' = Rows \cup {u} /\ IsFiniteSet(Rows')
    <2>1. Rows' = Rows \cup {u}
      BY <1>1, <1>2 DEF Rows
    <2> QED
      BY <2>1, FS_AddElement DEF WalkInv, Clock
  <1>4. Listed \subseteq Listed' /\ Listed' \subseteq Rows'
    BY <1>1, <1>2 DEF Listed, Present, Rows, asked
  <1>5. IsFiniteSet(Listed') /\ IsFiniteSet(Listed)
    BY <1>3, <1>4, FS_Subset, ListedFinite
  <1>6. Cardinality(Listed') >= Cardinality(Listed) /\ Cardinality(Listed') \in Nat
    BY <1>4, <1>5, FS_Subset, FS_CardinalityType
  <1>7. ASSUME NEW v \in Listed PROVE Rank(v)' >= Rank(v) /\ Rank(v)' \in Nat
    <2> DEFINE S == {w \in Listed : created[w] >= created[v]}
               T == {w \in Listed' : created'[w] >= created'[v]}
    <2>1. \A w \in Listed : created'[w] = created[w]
      BY <1>1, <1>2 DEF Listed, Present
    <2>2. S \subseteq T /\ T \subseteq Listed'
      BY <1>4, <2>1
    <2>3. IsFiniteSet(T) /\ Cardinality(T) \in Nat
      BY <1>5, <2>2, FS_Subset, FS_CardinalityType
    <2>4. Cardinality(S) <= Cardinality(T)
      BY <2>2, <2>3, FS_Subset
    <2>5. Rank(v)' = Cardinality(T) /\ Rank(v) = Cardinality(S) /\ Rank(v) \in Nat
      BY RankBounds DEF Rank
    <2> QED
      BY <2>3, <2>4, <2>5
  <1> QED
    BY <1>3, <1>4, <1>6, <1>7

LEMMA RegisterGood == ASSUME WalkInv, NEW u \in Users, Register(u) PROVE WalkGood
  <1>1. PICK t \in {now, now + 1} \ {0} :
          /\ t <= MaxTime /\ now' = t /\ created' = [created EXCEPT ![u] = t]
          /\ events' = events \cup {"registered", "grew"}
                       \cup (IF \E v \in Users : created[v] = t THEN {"tie"} ELSE {})
    BY DEF Register
  <1>2. UNCHANGED <<deleted, walk, asked, offset, page, total, got, due>> /\ created[u] = 0
    BY DEF Register
  <1>3. WalkTypeOK'
    BY <1>1, <1>2 DEF WalkInv, WalkTypeOK, asked, Events
  <1>4. Clock'
    <2>1. now \in Nat /\ t >= now /\ created \in [Users -> 0..MaxTime]
      BY <1>1 DEF WalkInv, WalkTypeOK
    <2>2. \A v \in Users : created'[v] <= now'
      BY <1>1, <2>1 DEF WalkInv, WalkTypeOK, Clock
    <2>3. ASSUME "tie" \notin events', NEW v \in Rows', NEW w \in Rows',
                 created'[v] = created'[w]
          PROVE  v = w
      <3>1. \A x \in Users : created[x] # t
        BY <1>1, <2>3
      <3>2. /\ \A x \in Users : created'[x] = IF x = u THEN t ELSE created[x]
            /\ \A x \in Rows' : x \in Users /\ (x # u => x \in Rows)
        BY <1>1, <2>1 DEF Rows
      <3> QED
        BY <1>1, <2>3, <3>1, <3>2 DEF WalkInv, Clock
    <2> QED
      BY <2>2, <2>3, RegisterRanks DEF Clock
  <1>5. Fresh' /\ Behind' /\ Still' /\ Covers
    BY <1>1, <1>2 DEF WalkInv, Fresh, Behind, Still, Covers
  <1>6. Covered'
    BY <1>1, <1>2, RegisterRanks, ListedFinite, PageTyped DEF WalkInv, WalkTypeOK, Covered
  <1>7. Ahead'
    <2> SUFFICES ASSUME walk # "idle", events' \cap {"deleted", "broken", "tie"} = {}
                 PROVE  /\ due \subseteq Listed'
                        /\ walk # "done" => \A v \in due : v \in got \/ Rank(v)' > offset
                        /\ walk = "count" =>
                             /\ \A v \in due : v \in got \cup ToSet(page)
                                               \/ Rank(v)' > offset + Len(page)
                             /\ page = <<>> => due \subseteq got
                        /\ walk = "done" => due \subseteq got
      BY <1>2 DEF Ahead
    <2>1. /\ due \subseteq Listed
          /\ walk # "done" => \A v \in due : v \in got \/ Rank(v) > offset
          /\ walk = "count" =>
               /\ \A v \in due : v \in got \cup ToSet(page) \/ Rank(v) > offset + Len(page)
               /\ page = <<>> => due \subseteq got
          /\ walk = "done" => due \subseteq got
      BY <1>1 DEF WalkInv, Ahead
    <2>2. ASSUME NEW v \in due
          PROVE  /\ v \in Listed' /\ (Rank(v) > offset => Rank(v)' > offset)
                 /\ Rank(v) > offset + Len(page) => Rank(v)' > offset + Len(page)
      <3>1. /\ Rank(v)' >= Rank(v) /\ Rank(v)' \in Nat /\ Rank(v) \in Nat
            /\ offset \in Nat /\ Len(page) \in Nat /\ v \in Listed'
        BY <2>1, RegisterRanks, RankBounds, PageTyped DEF WalkInv, WalkTypeOK
      <3> QED
        BY <3>1
    <2> QED
      BY <2>1, <2>2
  <1> QED
    BY <1>3, <1>4, <1>5, <1>6, <1>7 DEF WalkGood, WalkInv

(* A deletion moves nobody back.                                           *)
LEMMA DeleteRanks ==
  ASSUME WalkInv, NEW u \in Users, Delete(u)
  PROVE  /\ Rows' = Rows /\ Listed' \subseteq Listed
         /\ \A v \in Listed' : Rank(v)' <= Rank(v) /\ Rank(v)' \in Nat
  <1>1. UNCHANGED <<created, asked>> /\ deleted' = deleted \cup {u}
    BY DEF Delete
  <1>2. Rows' = Rows /\ Listed' \subseteq Listed
    BY <1>1 DEF Rows, Listed, Present, asked
  <1>3. ASSUME NEW v \in Listed' PROVE Rank(v)' <= Rank(v) /\ Rank(v)' \in Nat
    <2> DEFINE S == {w \in Listed : created[w] >= created[v]}
               T == {w \in Listed' : created[w] >= created[v]}
    <2>1. IsFiniteSet(S) /\ IsFiniteSet(T) /\ T \subseteq S
      BY <1>2, ListedFinite, FS_Subset
    <2>2. Cardinality(T) <= Cardinality(S) /\ Cardinality(T) \in Nat
      BY <2>1, FS_Subset, FS_CardinalityType
    <2>3. Rank(v)' = Cardinality(T) /\ Rank(v) = Cardinality(S)
      BY <1>1 DEF Rank
    <2> QED
      BY <2>2, <2>3
  <1> QED
    BY <1>2, <1>3

LEMMA DeleteGood == ASSUME WalkInv, NEW u \in Users, Delete(u) PROVE WalkGood
  <1>1. /\ UNCHANGED <<created, now, walk, asked, offset, page, total, got, due>>
        /\ deleted' = deleted \cup {u} /\ events' = events \cup {"deleted", "shrank"}
    BY DEF Delete
  <1>2. WalkTypeOK'
    BY <1>1 DEF WalkInv, WalkTypeOK, asked, Events
  <1>3. Clock'
    BY <1>1, DeleteRanks DEF WalkInv, Clock
  <1>4. Fresh' /\ Ahead' /\ Still' /\ Covered' /\ Covers
    BY <1>1 DEF WalkInv, Fresh, Ahead, Still, Covered, Covers
  <1>5. Behind'
    <2> SUFFICES ASSUME events' \cap {"registered", "tie"} = {}
                 PROVE  /\ "repeated" \notin events'
                        /\ \A v \in got \cap Listed' : Rank(v)' <= offset
                        /\ walk = "count" =>
                             /\ \A v \in ToSet(page) \cap Listed' :
                                  Rank(v)' <= offset + Len(page)
                             /\ got \cap ToSet(page) = {}
      BY <1>1 DEF Behind
    <2>1. /\ "repeated" \notin events
          /\ \A v \in got \cap Listed : Rank(v) <= offset
          /\ walk = "count" =>
               /\ \A v \in ToSet(page) \cap Listed : Rank(v) <= offset + Len(page)
               /\ got \cap ToSet(page) = {}
      BY <1>1 DEF WalkInv, Behind
    <2>2. ASSUME NEW v \in Listed'
          PROVE  /\ v \in Listed /\ (Rank(v) <= offset => Rank(v)' <= offset)
                 /\ Rank(v) <= offset + Len(page) => Rank(v)' <= offset + Len(page)
      <3>1. /\ Rank(v)' <= Rank(v) /\ Rank(v)' \in Nat /\ Rank(v) \in Nat
            /\ offset \in Nat /\ Len(page) \in Nat /\ v \in Listed
        BY DeleteRanks, RankBounds, PageTyped DEF WalkInv, WalkTypeOK
      <3> QED
        BY <3>1
    <2> QED
      BY <1>1, <2>1, <2>2
  <1> QED
    BY <1>2, <1>3, <1>4, <1>5 DEF WalkGood, WalkInv

LEMMA PlaceIs ==
  ASSUME NEW u
  PROVE  Place(u) \in 0..Len(Registered) /\ (Place(u) # 0 => Registered[Place(u)] = u)
  <1> DEFINE I == {i \in 1..Len(Registered) : Registered[i] = u}
  <1>1. DOMAIN Registered = 1..Len(Registered) /\ Len(Registered) \in Nat
    BY ListUsersAssumption, LenProperties
  <1>2. Place(u) = IF I # {} THEN Min(I) ELSE 0
    BY DEF Place, SelectInSeq
  <1>3. CASE I = {}
    BY <1>1, <1>2, <1>3
  <1>4. CASE I # {}
    <2>1. PICK i \in 1..Len(Registered) : Registered[i] = u
      BY <1>4
    <2>2. I = {i}
      BY <1>1, <2>1, ListUsersAssumption DEF IsInjective
    <2>3. Min({i}) = i
      BY <1>1, <2>1 DEF Min
    <2> QED
      BY <1>1, <1>2, <2>1, <2>2, <2>3
  <1> QED
    BY <1>3, <1>4

LEMMA WalkInitHolds == WalkInit => WalkInv
  <1> SUFFICES ASSUME WalkInit PROVE WalkInv
    OBVIOUS
  <1>1. /\ Len(Registered) \in Nat /\ Len(Registered) <= MaxTime /\ MaxTime \in Nat
        /\ DOMAIN Registered = 1..Len(Registered)
        /\ Registered \in [1..Len(Registered) -> Users]
    BY ListUsersAssumption, LenProperties
  <1>2. ASSUME NEW u \in Users
        PROVE  /\ created[u] \in 0..Len(Registered)
               /\ created[u] # 0 => Registered[created[u]] = u
    BY PlaceIs DEF WalkInit
  <1>3. WalkTypeOK
    <2>1. created \in [Users -> 0..MaxTime]
      BY <1>1, <1>2 DEF WalkInit
    <2> QED
      BY <1>1, <2>1, EmptyTyped DEF WalkInit, WalkTypeOK
  <1>4. Clock
    <2>1. IsFiniteSet(Rows)
      <3> DEFINE D == {i \in 1..Len(Registered) : Registered[i] \in Rows}
      <3>1. IsFiniteSet(D)
        <4>1. IsFiniteSet(1..Len(Registered)) /\ D \subseteq 1..Len(Registered)
          BY <1>1, FS_Interval
        <4> QED
          BY <4>1, FS_Subset
      <3>2. [i \in D |-> Registered[i]] \in Surjection(D, Rows)
        <4>1. \A u \in Rows : created[u] \in D /\ Registered[created[u]] = u
          BY <1>1, <1>2 DEF Rows
        <4> QED
          BY <4>1 DEF Surjection
      <3> QED
        BY <3>1, <3>2, FS_Surjection
    <2> QED
      BY <1>1, <1>2, <2>1 DEF WalkInit, Clock, Rows
  <1>5. Fresh /\ Ahead /\ Behind /\ Still /\ Covered
    BY DEF WalkInit, Fresh, Ahead, Behind, Still, Covered
  <1> QED
    BY <1>3, <1>4, <1>5 DEF WalkInv

LEMMA WalkStutters == ASSUME WalkInv, UNCHANGED walkVars PROVE WalkGood
  <1>1. /\ UNCHANGED <<table, asked, walk, offset, page, total, got, due, events>>
        /\ UNCHANGED <<created, deleted, now>>
    BY DEF walkVars, table, asked
  <1>2. WalkTypeOK' /\ Clock'
    BY <1>1, SameClock DEF WalkInv, WalkTypeOK, table, asked
  <1>3. Fresh' /\ Ahead' /\ Behind' /\ Still' /\ Covered' /\ Covers
    BY <1>1, SameRanks DEF WalkInv, Fresh, Ahead, Behind, Still, Covered, Covers
  <1> QED
    BY <1>2, <1>3 DEF WalkGood, WalkInv

LEMMA WalkStep == WalkInv /\ [WalkNext]_walkVars => WalkGood
  <1> SUFFICES ASSUME WalkInv, [WalkNext]_walkVars PROVE WalkGood
    OBVIOUS
  <1>1. CASE UNCHANGED walkVars
    BY <1>1, WalkStutters
  <1>2. CASE Start \/ Select \/ SelectBreaks \/ Fail \/ Count
    BY <1>2, StartGood, SelectGood, FailGood, CountGood
  <1>3. ASSUME NEW u \in Users, Register(u) \/ Delete(u) PROVE WalkGood
    BY <1>3, RegisterGood, DeleteGood
  <1> QED
    BY <1>1, <1>2, <1>3 DEF WalkNext

LEMMA WalkInductive == WalkSpec => []WalkInv
  BY WalkInitHolds, WalkStep, PTL DEF WalkSpec, WalkGood

(* A page never holds more users than the cap, whatever limit is asked     *)
(* for, and no offset or total is negative.                                *)
THEOREM WalkTypeCorrect == WalkSpec => []WalkTypeOK
  BY WalkInductive, PTL DEF WalkInv

(* A walk skips nobody who was there when it began, whoever registers.     *)
THEOREM WalkSkipsNobody == WalkSpec => []NobodySkipped
  <1>1. WalkInv => NobodySkipped
    BY DEF WalkInv, Ahead, NobodySkipped
  <1> QED
    BY <1>1, WalkInductive, PTL

(* A walk tells of nobody twice, whoever is deleted.                       *)
THEOREM WalkRepeatsNobody == WalkSpec => []NobodyTwice
  <1>1. WalkInv => NobodyTwice
    BY DEF WalkInv, Behind, NobodyTwice
  <1> QED
    BY <1>1, WalkInductive, PTL

(* A walk nothing disturbs tells of as many users as its total says.       *)
THEOREM WalkReachesTotal == WalkSpec => []TotalIsReached
  <1>1. ASSUME WalkInv, walk = "done", events = {} PROVE Cardinality(got) = total
    <2>1. due \subseteq got /\ due = Listed /\ got \subseteq Listed
          /\ total = Cardinality(Listed)
      BY <1>1 DEF WalkInv, Ahead, Still
    <2>2. got = Listed
      BY <2>1
    <2> QED
      BY <2>1, <2>2
  <1>2. WalkInv => TotalIsReached
    BY <1>1 DEF TotalIsReached
  <1> QED
    BY <1>2, WalkInductive, PTL

(* No page runs beyond the total it came with.                             *)
THEOREM TotalCoversEveryPage == WalkSpec => TotalCoversPage
  <1>1. WalkInv /\ [WalkNext]_walkVars => [Covers]_walkVars
    BY WalkStep DEF WalkGood
  <1> QED
    BY <1>1, WalkInductive, PTL DEF WalkSpec, TotalCoversPage, Covers
=============================================================================
