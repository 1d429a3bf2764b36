---------------------------- MODULE VehiclesProofs ----------------------------
(***************************************************************************)
(* Proofs about Vehicles, for every set of callers, drivers, plates and    *)
(* calls: the inductive invariant IInv, the safety properties of the runs  *)
(* and the refinement of PlateRegister.                                    *)
(***************************************************************************)
EXTENDS Vehicles, TLAPS

(* What a caller's program counter says of its call and its reply.         *)
Serving(p) ==
  /\ pc[p] = "idle" => call[p] = NoCall /\ reply[p].code = "PENDING"
  /\ pc[p] # "idle" => call[p] \in Calls
  /\ pc[p] \in Running => Valid(call[p]) /\ reply[p].code = "PENDING"
  /\ pc[p] \in {"check", "upsert"} => call[p].kind = "register"
  /\ pc[p] = "list" => call[p].kind = "list"

\* The first part of ToldIsOnRecord, of one row.
OnRecord(t) ==
  \E v \in vehicles : v.id = t.id /\ v.driver = t.driver /\ v.nopol = t.nopol

\* The second part, of one caller.
AnsweredAsAsked(p) ==
  reply[p].code = "OK" /\ call[p].kind = "register" =>
    \E id \in VehicleIds : reply[p].rows = {Written(p, id)}

(* The invariant adds to the properties only what the program counter      *)
(* knows: the upsert relies on its call having been validated.             *)
IInv ==
  /\ TypeOK
  /\ \A p \in Callers : Serving(p)
  /\ OneVehiclePerPlate
  /\ OwnersAreOnRecord
  /\ ToldIsOnRecord

USE DEF VehicleType, PCs, Running

-----------------------------------------------------------------------------
(* A validated registration is about a driver, a plate and a known type,   *)
(* so the row it writes is a row of the table.                             *)
LEMMA WrittenIsVehicle ==
  ASSUME TypeOK, NEW p \in Callers, NEW id \in VehicleIds,
         call[p] \in Calls, Valid(call[p]), call[p].kind = "register"
  PROVE  /\ Written(p, id) \in Vehicle
         /\ Written(p, id).id = id
         /\ Written(p, id).driver = call[p].driver
         /\ Written(p, id).nopol = Plate(p)
  <1>1. call[p] \in Call
    BY VehiclesAssumption
  <1>2. Plate(p) \in Plates
    BY <1>1, VehiclesAssumption DEF Plate, Valid, Call
  <1>3. call[p].driver \in Drivers /\ call[p].type \in VehicleType
        /\ call[p].default \in BOOLEAN
    BY <1>1 DEF Valid, Call
  <1> QED
    BY <1>2, <1>3 DEF Written, Vehicle

(* The row a caller would write depends on its own call only.              *)
LEMMA SameCall ==
  ASSUME NEW p \in Callers, NEW id, call'[p] = call[p]
  PROVE  Written(p, id)' = Written(p, id)
  BY DEF Written, Plate

-----------------------------------------------------------------------------
(* Steps that leave the other callers where they are. *)

OnlyMoves(p) ==
  \A q \in Callers \ {p} :
    pc'[q] = pc[q] /\ call'[q] = call[q] /\ reply'[q] = reply[q]

(* A step of one caller that writes no row keeps the invariant when what   *)
(* it says of that caller is kept and what it tells is on record.          *)
LEMMA QuietStep ==
  ASSUME IInv, TypeOK', NEW p \in Callers, OnlyMoves(p),
         vehicles' = vehicles, users' = users,
         told' \subseteq told \cup vehicles,
         Serving(p)', AnsweredAsAsked(p)',
         pc'[p] = "upsert" => Registered(call'[p].driver)
  PROVE  IInv'
  <1>1. \A q \in Callers : Serving(q)'
    <2> SUFFICES ASSUME NEW q \in Callers \ {p} PROVE Serving(q)'
      OBVIOUS
    <2>1. Serving(q)
      BY DEF IInv
    <2>2. pc'[q] = pc[q] /\ call'[q] = call[q] /\ reply'[q] = reply[q]
      BY DEF OnlyMoves
    <2> QED
      BY <2>1, <2>2 DEF Serving, Valid
  <1>2. OneVehiclePerPlate'
    BY DEF IInv, OneVehiclePerPlate
  <1>3. OwnersAreOnRecord'
    BY DEF IInv, OwnersAreOnRecord, Registered, OnlyMoves
  <1>4. \A t \in told' : OnRecord(t)'
    BY DEF IInv, ToldIsOnRecord, OnRecord
  <1>5. \A q \in Callers : AnsweredAsAsked(q)'
    <2> SUFFICES ASSUME NEW q \in Callers \ {p} PROVE AnsweredAsAsked(q)'
      OBVIOUS
    <2>1. AnsweredAsAsked(q)
      BY DEF IInv, ToldIsOnRecord, AnsweredAsAsked
    <2>2. call'[q] = call[q] /\ reply'[q] = reply[q]
      BY DEF OnlyMoves
    <2>3. ASSUME NEW id PROVE Written(q, id)' = Written(q, id)
      BY <2>2 DEF Written, Plate
    <2> QED
      BY <2>1, <2>2, <2>3 DEF AnsweredAsAsked
  <1>6. ToldIsOnRecord'
    BY <1>4, <1>5 DEF ToldIsOnRecord, OnRecord, AnsweredAsAsked
  <1> QED
    BY <1>1, <1>2, <1>3, <1>6 DEF IInv

(* What the actions of a caller move.                                      *)
LEMMA GotoMoves ==
  ASSUME TypeOK, NEW p \in Callers, NEW from, NEW to \in PCs, Goto(p, from, to)
  PROVE  /\ pc[p] = from /\ pc'[p] = to /\ pc' \in [Callers -> PCs]
         /\ \A q \in Callers \ {p} : pc'[q] = pc[q]
  BY DEF TypeOK, Goto

LEMMA FinishMoves ==
  ASSUME TypeOK, NEW p \in Callers, NEW from, NEW answer \in Reply,
         Finish(p, from, answer)
  PROVE  /\ pc[p] = from /\ pc'[p] = "done" /\ pc' \in [Callers -> PCs]
         /\ reply'[p] = answer /\ reply' \in [Callers -> Reply]
         /\ \A q \in Callers \ {p} : pc'[q] = pc[q] /\ reply'[q] = reply[q]
  BY DEF TypeOK, Finish, Goto

LEMMA RepliesAreReplies ==
  /\ Pending \in Reply
  /\ \A why \in {"VALIDATION", "NOT_FOUND", "ERROR"} : Failed(why) \in Reply
  /\ \A rows : rows \subseteq Vehicle => Found(rows) \in Reply
  <1>1. \A why \in {"VALIDATION", "NOT_FOUND", "ERROR"} : Failed(why) \in Reply
    BY DEF Failed, Reply
  <1>2. ASSUME NEW rows, rows \subseteq Vehicle PROVE Found(rows) \in Reply
    BY <1>2 DEF Found, Reply
  <1> QED
    BY <1>1, <1>2 DEF Pending, Reply

-----------------------------------------------------------------------------
LEMMA AcceptKeeps ==
  ASSUME IInv, NEW p \in Callers, NEW c \in Calls, Accept(p, c)
  PROVE  IInv'
  <1>1. TypeOK /\ Serving(p)
    BY DEF IInv
  <1>2. c \in Call
    BY VehiclesAssumption
  <1>3. FirstStatement[c.kind] \in {"check", "list"}
        /\ (FirstStatement[c.kind] = "check" <=> c.kind = "register")
    BY <1>2 DEF FirstStatement, Call
  <1>4. Goto(p, "idle", FirstStatement[c.kind])
    BY DEF Accept
  <1>5. /\ pc[p] = "idle" /\ pc'[p] = FirstStatement[c.kind]
        /\ pc' \in [Callers -> PCs] /\ \A q \in Callers \ {p} : pc'[q] = pc[q]
    BY <1>1, <1>3, <1>4, GotoMoves
  <1>6. call'[p] = c /\ call' \in [Callers -> Calls \cup {NoCall}]
        /\ \A q \in Callers \ {p} : call'[q] = call[q]
    BY <1>1 DEF Accept, TypeOK
  <1>7. reply'[p].code = "PENDING"
    BY <1>1, <1>5 DEF Accept, Serving
  <1>8. TypeOK'
    BY <1>1, <1>5, <1>6 DEF Accept, TypeOK
  <1>9. Serving(p)'
    <2>1. Valid(c)' = Valid(c) /\ Valid(c)
      BY DEF Accept, Valid
    <2>2. c.kind \in {"register", "list"}
      BY <1>2 DEF Call
    <2> QED
      BY <1>3, <1>5, <1>6, <1>7, <2>1, <2>2 DEF Serving, Valid
  <1>10. AnsweredAsAsked(p)'
    BY <1>7 DEF AnsweredAsAsked
  <1>11. OnlyMoves(p)
    BY <1>5, <1>6 DEF OnlyMoves, Accept
  <1> QED
    BY <1>3, <1>5, <1>8, <1>9, <1>10, <1>11, QuietStep DEF Accept

LEMMA RejectKeeps ==
  ASSUME IInv, NEW p \in Callers, NEW c \in Calls, Reject(p, c)
  PROVE  IInv'
  <1>1. TypeOK
    BY DEF IInv
  <1>2. Finish(p, "idle", Failed("VALIDATION")) /\ Failed("VALIDATION") \in Reply
    BY RepliesAreReplies DEF Reject
  <1>3. /\ pc'[p] = "done" /\ pc' \in [Callers -> PCs]
        /\ reply'[p] = Failed("VALIDATION") /\ reply' \in [Callers -> Reply]
        /\ \A q \in Callers \ {p} : pc'[q] = pc[q] /\ reply'[q] = reply[q]
    BY <1>1, <1>2, FinishMoves
  <1>4. call'[p] = c /\ call' \in [Callers -> Calls \cup {NoCall}]
        /\ \A q \in Callers \ {p} : call'[q] = call[q]
    BY <1>1 DEF Reject, TypeOK
  <1>5. TypeOK'
    BY <1>1, <1>3, <1>4 DEF Reject, TypeOK
  <1>6. Serving(p)' /\ AnsweredAsAsked(p)'
    BY <1>3, <1>4 DEF Serving, AnsweredAsAsked, Failed
  <1>7. OnlyMoves(p)
    BY <1>3, <1>4 DEF OnlyMoves
  <1> QED
    BY <1>3, <1>5, <1>6, <1>7, QuietStep DEF Reject

LEMMA DeliverKeeps ==
  ASSUME IInv, NEW p \in Callers, Deliver(p)
  PROVE  IInv'
  <1>1. TypeOK
    BY DEF IInv
  <1>2. /\ pc'[p] = "idle" /\ pc' \in [Callers -> PCs]
        /\ \A q \in Callers \ {p} : pc'[q] = pc[q]
    BY <1>1, GotoMoves DEF Deliver
  <1>3. /\ call' \in [Callers -> Calls \cup {NoCall}]
        /\ reply' \in [Callers -> Reply] /\ reply'[p] = Pending
        /\ \A q \in Callers \ {p} : call'[q] = call[q] /\ reply'[q] = reply[q]
    BY <1>1, RepliesAreReplies DEF Deliver, TypeOK
  <1>4. TypeOK'
    BY <1>1, <1>2, <1>3 DEF Deliver, TypeOK
  <1>5. Serving(p)' /\ AnsweredAsAsked(p)'
    BY <1>1, <1>2, <1>3 DEF Serving, AnsweredAsAsked, Pending, Deliver, TypeOK
  <1>6. OnlyMoves(p)
    BY <1>2, <1>3 DEF OnlyMoves
  <1> QED
    BY <1>2, <1>4, <1>5, <1>6, QuietStep DEF Deliver

LEMMA FailureKeeps ==
  ASSUME IInv, NEW p \in Callers, StatementFails(p)
  PROVE  IInv'
  <1>1. TypeOK /\ Serving(p)
    BY DEF IInv
  <1>2. PICK s \in Running : Finish(p, s, Failed("ERROR"))
    BY DEF StatementFails
  <1>3. Failed("ERROR") \in Reply
    BY RepliesAreReplies
  <1>4. /\ pc[p] = s /\ pc'[p] = "done" /\ pc' \in [Callers -> PCs]
        /\ reply'[p] = Failed("ERROR") /\ reply' \in [Callers -> Reply]
        /\ \A q \in Callers \ {p} : pc'[q] = pc[q] /\ reply'[q] = reply[q]
    BY <1>1, <1>2, <1>3, FinishMoves
  <1>5. TypeOK'
    BY <1>1, <1>4 DEF StatementFails, TypeOK
  <1>6. Serving(p)' /\ AnsweredAsAsked(p)'
    BY <1>1, <1>4 DEF Serving, AnsweredAsAsked, Failed, StatementFails
  <1>7. OnlyMoves(p)
    BY <1>4 DEF OnlyMoves, StatementFails
  <1> QED
    BY <1>4, <1>5, <1>6, <1>7, QuietStep DEF StatementFails

LEMMA CheckFoundKeeps ==
  ASSUME IInv, NEW p \in Callers, CheckFound(p)
  PROVE  IInv'
  <1>1. TypeOK /\ Serving(p)
    BY DEF IInv
  <1>2. /\ pc[p] = "check" /\ pc'[p] = "upsert" /\ pc' \in [Callers -> PCs]
        /\ \A q \in Callers \ {p} : pc'[q] = pc[q]
    BY <1>1, GotoMoves DEF CheckFound
  <1>3. TypeOK'
    BY <1>1, <1>2 DEF CheckFound, TypeOK
  <1>4. Serving(p)' /\ AnsweredAsAsked(p)'
    BY <1>1, <1>2 DEF Serving, AnsweredAsAsked, CheckFound, Valid
  <1>5. OnlyMoves(p)
    BY <1>2 DEF OnlyMoves, CheckFound
  <1> QED
    BY <1>2, <1>3, <1>4, <1>5, QuietStep DEF CheckFound

LEMMA CheckMissingKeeps ==
  ASSUME IInv, NEW p \in Callers, CheckMissing(p)
  PROVE  IInv'
  <1>1. TypeOK /\ Serving(p)
    BY DEF IInv
  <1>2. Finish(p, "check", Failed("NOT_FOUND")) /\ Failed("NOT_FOUND") \in Reply
    BY RepliesAreReplies DEF CheckMissing
  <1>3. /\ pc[p] = "check" /\ pc'[p] = "done" /\ pc' \in [Callers -> PCs]
        /\ reply'[p] = Failed("NOT_FOUND") /\ reply' \in [Callers -> Reply]
        /\ \A q \in Callers \ {p} : pc'[q] = pc[q] /\ reply'[q] = reply[q]
    BY <1>1, <1>2, FinishMoves
  <1>4. TypeOK'
    BY <1>1, <1>3 DEF CheckMissing, TypeOK
  <1>5. Serving(p)' /\ AnsweredAsAsked(p)'
    BY <1>1, <1>3 DEF Serving, AnsweredAsAsked, Failed, CheckMissing
  <1>6. OnlyMoves(p)
    BY <1>3 DEF OnlyMoves, CheckMissing
  <1> QED
    BY <1>3, <1>4, <1>5, <1>6, QuietStep DEF CheckMissing

LEMMA ListKeeps ==
  ASSUME IInv, NEW p \in Callers, List(p)
  PROVE  IInv'
  <1>1. TypeOK /\ Serving(p)
    BY DEF IInv
  <1>2. PICK rows : rows = Owned(call[p].driver)
    OBVIOUS
  <1>3. rows \subseteq vehicles /\ rows \subseteq Vehicle /\ Found(rows) \in Reply
    BY <1>1, <1>2, RepliesAreReplies DEF Owned, TypeOK
  <1>4. Finish(p, "list", Found(rows))
    BY <1>2 DEF List
  <1>5. /\ pc[p] = "list" /\ pc'[p] = "done" /\ pc' \in [Callers -> PCs]
        /\ reply' \in [Callers -> Reply]
        /\ \A q \in Callers \ {p} : pc'[q] = pc[q] /\ reply'[q] = reply[q]
    BY <1>1, <1>3, <1>4, FinishMoves
  <1>6. told' = told \cup rows
    BY <1>2 DEF List
  <1>7. TypeOK'
    BY <1>1, <1>3, <1>5, <1>6 DEF List, TypeOK
  <1>8. Serving(p)' /\ AnsweredAsAsked(p)'
    BY <1>1, <1>5 DEF Serving, AnsweredAsAsked, List
  <1>9. OnlyMoves(p)
    BY <1>5 DEF OnlyMoves, List
  <1> QED
    BY <1>3, <1>5, <1>6, <1>7, <1>8, <1>9, QuietStep DEF List

(* The two ways the upsert ends have in common that the caller is done and *)
(* that only what it wrote was told.                                       *)
LEMMA ReturnMoves ==
  ASSUME TypeOK, NEW p \in Callers, NEW row \in Vehicle, Return(p, row)
  PROVE  /\ pc[p] = "upsert" /\ pc'[p] = "done" /\ pc' \in [Callers -> PCs]
         /\ reply'[p] \in {Found({row}), Failed("ERROR")}
         /\ reply' \in [Callers -> Reply]
         /\ \A q \in Callers \ {p} : pc'[q] = pc[q] /\ reply'[q] = reply[q]
         /\ told' \in {told, told \cup {row}}
         /\ users' = users /\ call' = call
  <1>1. Found({row}) \in Reply /\ Failed("ERROR") \in Reply
    BY RepliesAreReplies
  <1>2. CASE Finish(p, "upsert", Found({row})) /\ told' = told \cup {row}
    BY <1>1, <1>2, FinishMoves DEF Return
  <1>3. CASE Finish(p, "upsert", Failed("ERROR")) /\ UNCHANGED told
    BY <1>1, <1>3, FinishMoves DEF Return
  <1> QED
    BY <1>2, <1>3 DEF Return

(* An upsert that puts row in the place of the rows it conflicts with      *)
(* keeps the invariant: row has their id, if there is one, or a fresh one. *)
LEMMA UpsertKeeps ==
  ASSUME IInv, NEW p \in Callers, NEW id \in VehicleIds, NEW old,
         pc[p] = "upsert", Return(p, Written(p, id)),
         old \subseteq vehicles,
         vehicles' = (vehicles \ old) \cup {Written(p, id)},
         \A v \in old : v.id = id /\ v.driver = call[p].driver /\ v.nopol = Plate(p),
         \A v \in vehicles \ old :
           v.id # id /\ (v.driver # call[p].driver \/ v.nopol # Plate(p))
  PROVE  IInv'
  <1>1. TypeOK /\ Serving(p)
    BY DEF IInv
  <1>2. call[p] \in Calls /\ Valid(call[p]) /\ call[p].kind = "register"
    BY <1>1 DEF Serving
  <1>3. PICK row : row = Written(p, id)
    OBVIOUS
  <1>4. /\ row \in Vehicle /\ row.id = id
        /\ row.driver = call[p].driver /\ row.nopol = Plate(p)
    BY <1>1, <1>2, <1>3, WrittenIsVehicle
  <1>5. /\ pc'[p] = "done" /\ pc' \in [Callers -> PCs]
        /\ reply'[p] \in {Found({row}), Failed("ERROR")}
        /\ reply' \in [Callers -> Reply]
        /\ \A q \in Callers \ {p} : pc'[q] = pc[q] /\ reply'[q] = reply[q]
        /\ told' \in {told, told \cup {row}}
        /\ users' = users /\ call' = call
    BY <1>1, <1>3, <1>4, ReturnMoves
  <1>6. vehicles' = (vehicles \ old) \cup {row}
    BY <1>3
  <1>7. TypeOK'
    BY <1>1, <1>4, <1>5, <1>6 DEF TypeOK
  <1>8. \A q \in Callers : Serving(q)'
    <2> TAKE q \in Callers
    <2>1. CASE q = p
      BY <1>2, <1>5, <2>1 DEF Serving
    <2>2. CASE q # p
      BY <1>5, <2>2 DEF IInv, Serving, Valid
    <2> QED
      BY <2>1, <2>2
  <1>9. OneVehiclePerPlate'
    BY <1>4, <1>6 DEF IInv, OneVehiclePerPlate
  <1>10. OwnersAreOnRecord'
    BY <1>4, <1>5, <1>6 DEF IInv, OwnersAreOnRecord, Registered
  <1>11. \A t \in told' : OnRecord(t)'
    <2> TAKE t \in told'
    <2>1. CASE t = row
      BY <1>6, <2>1 DEF OnRecord
    <2>2. CASE t \in told
      <3>1. PICK v \in vehicles : v.id = t.id /\ v.driver = t.driver /\ v.nopol = t.nopol
        BY <2>2 DEF IInv, ToldIsOnRecord
      <3>2. CASE v \in old
        BY <1>4, <1>6, <3>1, <3>2 DEF OnRecord
      <3>3. CASE v \notin old
        BY <1>6, <3>1, <3>3 DEF OnRecord
      <3> QED
        BY <3>2, <3>3
    <2> QED
      BY <1>5, <2>1, <2>2
  <1>12. \A q \in Callers : AnsweredAsAsked(q)'
    <2> TAKE q \in Callers
    <2>1. ASSUME NEW i PROVE Written(q, i)' = Written(q, i)
      BY <1>5 DEF Written, Plate
    <2>2. CASE q = p
      BY <1>3, <1>5, <2>1, <2>2 DEF AnsweredAsAsked, Found, Failed
    <2>3. CASE q # p
      BY <1>5, <2>1, <2>3 DEF IInv, ToldIsOnRecord, AnsweredAsAsked
    <2> QED
      BY <2>2, <2>3
  <1>13. ToldIsOnRecord'
    BY <1>11, <1>12 DEF ToldIsOnRecord, OnRecord, AnsweredAsAsked
  <1> QED
    BY <1>7, <1>8, <1>9, <1>10, <1>13 DEF IInv

LEMMA InsertKeeps ==
  ASSUME IInv, NEW p \in Callers, NEW id \in FreshIds, InsertVehicle(p, id)
  PROVE  IInv'
  <1>1. id \in VehicleIds /\ \A v \in vehicles : v.id # id
    BY DEF FreshIds
  <1>2. \A v \in vehicles : v.driver # call[p].driver \/ v.nopol # Plate(p)
    BY DEF InsertVehicle, Conflicting
  <1>3. vehicles' = (vehicles \ {}) \cup {Written(p, id)}
    BY DEF InsertVehicle
  <1> QED
    BY <1>1, <1>2, <1>3, UpsertKeeps DEF InsertVehicle

LEMMA UpdateKeeps ==
  ASSUME IInv, NEW p \in Callers, NEW old \in vehicles, UpdateVehicle(p, old)
  PROVE  IInv'
  <1>1. old.driver = call[p].driver /\ old.nopol = Plate(p)
    BY DEF UpdateVehicle, Conflicting
  <1>2. old.id \in VehicleIds
    BY DEF IInv, TypeOK, Vehicle
  <1>3. \A v \in vehicles \ {old} :
          v.id # old.id /\ (v.driver # call[p].driver \/ v.nopol # Plate(p))
    BY <1>1 DEF IInv, OneVehiclePerPlate
  <1>4. PICK id \in VehicleIds : id = old.id
    BY <1>2
  <1>5. vehicles' = (vehicles \ {old}) \cup {Written(p, id)} /\ Return(p, Written(p, id))
    BY <1>4 DEF UpdateVehicle
  <1> QED
    BY <1>1, <1>3, <1>4, <1>5, UpsertKeeps DEF UpdateVehicle

(* Drivers only come and stay.                                             *)
LEMMA DriversKeep ==
  ASSUME IInv, NEW d \in Drivers, Enrol(d) \/ Retire(d)
  PROVE  IInv'
  <1>1. \A e \in Drivers : Registered(e) => users'[e] # "NONE"
    BY DEF IInv, TypeOK, Registered, Enrol, Retire
  <1>2. TypeOK'
    BY DEF IInv, TypeOK, Enrol, Retire
  <1>3. UNCHANGED <<vehicles, pc, call, reply, told>>
    BY DEF Enrol, Retire
  <1>4. \A p \in Callers : Serving(p)'
    BY <1>3 DEF IInv, Serving, Valid
  <1>5. OneVehiclePerPlate'
    BY <1>3 DEF IInv, OneVehiclePerPlate
  <1>6. OwnersAreOnRecord'
    <2>1. \A v \in vehicles : v.driver \in Drivers
      BY DEF IInv, TypeOK, Vehicle
    <2>2. \A p \in Callers : pc[p] = "upsert" => call[p].driver \in Drivers
      BY VehiclesAssumption DEF IInv, Serving, Valid, Call
    <2> QED
      BY <1>1, <1>3, <2>1, <2>2 DEF IInv, OwnersAreOnRecord, Registered
  <1>7. ToldIsOnRecord'
    <2>1. ASSUME NEW p, NEW i PROVE Written(p, i)' = Written(p, i)
      BY <1>3 DEF Written, Plate
    <2> QED
      BY <1>3, <2>1 DEF IInv, ToldIsOnRecord
  <1> QED
    BY <1>2, <1>4, <1>5, <1>6, <1>7 DEF IInv

-----------------------------------------------------------------------------
LEMMA InitHolds == Init => IInv
  BY RepliesAreReplies
  DEF Init, IInv, TypeOK, Serving, OneVehiclePerPlate, OwnersAreOnRecord,
      ToldIsOnRecord, Pending

LEMMA NextKeeps == IInv /\ [Next]_vars => IInv'
  <1> SUFFICES ASSUME IInv, [Next]_vars PROVE IInv'
    OBVIOUS
  <1>1. CASE UNCHANGED vars
    <2>1. UNCHANGED <<users, vehicles, pc, call, reply, told>>
      BY <1>1 DEF vars
    <2>2. ASSUME NEW p, NEW i PROVE Written(p, i)' = Written(p, i)
      BY <2>1 DEF Written, Plate
    <2>3. ToldIsOnRecord'
      BY <2>1, <2>2 DEF IInv, ToldIsOnRecord
    <2> QED
      BY <2>1, <2>3 DEF IInv, TypeOK, Serving, Valid, OneVehiclePerPlate,
                        OwnersAreOnRecord, Registered
  <1>2. ASSUME NEW p \in Callers, NEW c \in Calls, Accept(p, c) PROVE IInv'
    BY <1>2, AcceptKeeps
  <1>3. ASSUME NEW p \in Callers, NEW c \in Calls, Reject(p, c) PROVE IInv'
    BY <1>3, RejectKeeps
  <1>4. ASSUME NEW p \in Callers, Progress(p) PROVE IInv'
    <2>1. CASE CheckFound(p)
      BY <2>1, CheckFoundKeeps
    <2>2. CASE CheckMissing(p)
      BY <2>2, CheckMissingKeeps
    <2>3. ASSUME NEW id \in FreshIds, InsertVehicle(p, id) PROVE IInv'
      BY <2>3, InsertKeeps
    <2>4. ASSUME NEW old \in vehicles, UpdateVehicle(p, old) PROVE IInv'
      BY <2>4, UpdateKeeps
    <2>5. CASE List(p)
      BY <2>5, ListKeeps
    <2> QED
      BY <1>4, <2>1, <2>2, <2>3, <2>4, <2>5 DEF Progress, Upsert
  <1>5. ASSUME NEW p \in Callers, StatementFails(p) PROVE IInv'
    BY <1>5, FailureKeeps
  <1>6. ASSUME NEW p \in Callers, Deliver(p) PROVE IInv'
    BY <1>6, DeliverKeeps
  <1>7. ASSUME NEW d \in Drivers, Enrol(d) \/ Retire(d) PROVE IInv'
    BY <1>7, DriversKeep
  <1> QED
    BY <1>1, <1>2, <1>3, <1>4, <1>5, <1>6, <1>7 DEF Next

(* The invariant holds in every reachable state.                           *)
THEOREM InvariantHolds == Spec => []IInv
  BY InitHolds, NextKeeps, PTL DEF Spec

(* Every variable has its type.                                            *)
THEOREM TypeCorrect == Spec => []TypeOK
  <1>1. IInv => TypeOK
    BY DEF IInv
  <1> QED
    BY <1>1, InvariantHolds, PTL

(* RegisterVehicle never leaves two rows of one driver and plate, nor two  *)
(* rows of one id, for any number of racing or repeated registrations.     *)
THEOREM OneVehicle == Spec => []OneVehiclePerPlate
  <1>1. IInv => OneVehiclePerPlate
    BY DEF IInv
  <1> QED
    BY <1>1, InvariantHolds, PTL

(* The look-up of RegisterVehicle is enough for the foreign key.           *)
THEOREM OwnersOnRecord == Spec => []OwnersAreOnRecord
  <1>1. IInv => OwnersAreOnRecord
    BY DEF IInv
  <1> QED
    BY <1>1, InvariantHolds, PTL

(* No answer of RegisterVehicle or ListVehicles is ever taken back.        *)
THEOREM ToldStays == Spec => []ToldIsOnRecord
  <1>1. IInv => ToldIsOnRecord
    BY DEF IInv
  <1> QED
    BY <1>1, InvariantHolds, PTL

\* The steps OnlyOwnPlateChanges and ListingIsComplete allow.
OwnPlateStep ==
  \A v \in vehicles : \E w \in vehicles' :
    /\ w.id = v.id /\ w.driver = v.driver /\ w.nopol = v.nopol
    /\ w = v \/ \E p \in Callers :
         /\ pc[p] = "upsert" /\ pc'[p] = "done" /\ call[p].driver = v.driver
         /\ \/ w = Written(p, v.id)
            \/ /\ v.nopol # Plate(p) /\ call[p].default
               /\ w = [v EXCEPT !.default = FALSE]

CompleteListingStep ==
  \A p \in Callers : pc[p] = "list" /\ reply'[p].code = "OK" =>
    /\ \A v \in reply'[p].rows : v.driver = call[p].driver
    /\ \A t \in told : t.driver = call[p].driver =>
         \E v \in reply'[p].rows : v.id = t.id /\ v.nopol = t.nopol

(* No vehicle is lost or changes hands, plate or id, and only a            *)
(* registration of a vehicle's own driver and plate changes its type.      *)
THEOREM OthersAreUntouched == Spec => OnlyOwnPlateChanges
  <1>1. IInv /\ [Next]_vars => [OwnPlateStep]_vars
    <2> SUFFICES ASSUME IInv, Next PROVE OwnPlateStep
      OBVIOUS
    <2> USE DEF OwnPlateStep
    <2>1. CASE UNCHANGED vehicles
      BY <2>1
    <2>2. CASE ~UNCHANGED vehicles
      <3>1. PICK p \in Callers : Upsert(p)
        BY <2>2 DEF Next, Accept, Reject, Progress, CheckFound, CheckMissing, List,
               StatementFails, Deliver, Enrol, Retire
      <3>2. CASE \E id \in FreshIds : InsertVehicle(p, id)
        BY <3>2 DEF InsertVehicle
      <3>3. ASSUME NEW old \in vehicles, UpdateVehicle(p, old) PROVE OwnPlateStep
        <4>1. /\ pc[p] = "upsert" /\ call[p].driver = old.driver /\ Plate(p) = old.nopol
              /\ Return(p, Written(p, old.id))
              /\ vehicles' = (vehicles \ {old}) \cup {Written(p, old.id)}
          BY <3>3 DEF UpdateVehicle, Conflicting
        <4>2. pc'[p] = "done"
          BY <4>1 DEF Return, Finish, Goto, IInv, TypeOK
        <4>3. /\ Written(p, old.id).id = old.id
              /\ Written(p, old.id).driver = old.driver
              /\ Written(p, old.id).nopol = old.nopol
          BY <4>1 DEF Written
        <4> QED
          BY <4>1, <4>2, <4>3
      <3> QED
        BY <3>1, <3>2, <3>3 DEF Upsert
    <2> QED
      BY <2>1, <2>2
  <1> QED
    BY <1>1, InvariantHolds, PTL DEF Spec, OnlyOwnPlateChanges, OwnPlateStep

(* A listing holds its driver's rows only, and all that were told before.  *)
THEOREM ListingsAreComplete == Spec => ListingIsComplete
  <1>1. IInv /\ [Next]_vars => [CompleteListingStep]_vars
    <2> SUFFICES ASSUME IInv, Next, NEW p \in Callers,
                        pc[p] = "list", reply'[p].code = "OK"
                 PROVE  /\ \A v \in reply'[p].rows : v.driver = call[p].driver
                        /\ \A t \in told : t.driver = call[p].driver =>
                             \E v \in reply'[p].rows : v.id = t.id /\ v.nopol = t.nopol
      BY DEF CompleteListingStep
    <2>1. TypeOK /\ reply[p].code = "PENDING"
      BY DEF IInv, Serving
    <2>2. reply'[p] # reply[p]
      BY <2>1
    <2>3. List(p)
      <3>1. ASSUME NEW q \in Callers, NEW c \in Calls, Accept(q, c) PROVE FALSE
        BY <2>2, <3>1 DEF Accept
      <3>2. ASSUME NEW q \in Callers, NEW c \in Calls, Reject(q, c) PROVE FALSE
        BY <2>1, <2>2, <3>2 DEF Reject, Finish, Goto, TypeOK
      <3>3. ASSUME NEW q \in Callers, CheckFound(q) \/ CheckMissing(q) PROVE FALSE
        BY <2>1, <2>2, <3>3 DEF CheckFound, CheckMissing, Finish, Goto, TypeOK
      <3>4. ASSUME NEW q \in Callers, Upsert(q) PROVE FALSE
        BY <2>1, <2>2, <3>4
        DEF Upsert, InsertVehicle, UpdateVehicle, Return, Finish, Goto, TypeOK
      <3>5. ASSUME NEW q \in Callers, StatementFails(q) PROVE FALSE
        <4>1. reply'[q] = Failed("ERROR") /\ (q # p => reply'[p] = reply[p])
          BY <2>1, <3>5 DEF StatementFails, Finish, TypeOK
        <4> QED
          BY <2>2, <4>1 DEF Failed
      <3>6. ASSUME NEW q \in Callers, Deliver(q) PROVE FALSE
        BY <2>1, <2>2, <3>6 DEF Deliver, Goto, TypeOK
      <3>7. ASSUME NEW d \in Drivers, Enrol(d) \/ Retire(d) PROVE FALSE
        BY <2>2, <3>7 DEF Enrol, Retire
      <3>8. ASSUME NEW q \in Callers, List(q) PROVE List(p)
        BY <2>1, <2>2, <3>8 DEF List, Finish, Goto, TypeOK
      <3> QED
        BY <3>1, <3>2, <3>3, <3>4, <3>5, <3>6, <3>7, <3>8 DEF Next, Progress
    <2>4. reply'[p].rows = Owned(call[p].driver)
      BY <2>1, <2>3 DEF List, Finish, Found, TypeOK
    <2> QED
      BY <2>4 DEF Owned, IInv, ToldIsOnRecord
  <1> QED
    BY <1>1, InvariantHolds, PTL DEF Spec, ListingIsComplete, CompleteListingStep

-----------------------------------------------------------------------------
(* The register of PlateRegister.  Its variables under the mapping:        *)
Joined == {d \in Drivers : Registered(d)}
Pages == [d \in Drivers |-> PageOf(d)]
Stages == [p \in Callers |-> StageOf(p)]
Asked == [p \in Callers |-> AskedBy(p)]
Answers == [p \in Callers |-> ToldTo(p)]
Asks == {RequestOf(c) : c \in {d \in Calls : Valid(d)}}

(* A call that is under way is asked as it was made.                       *)
LEMMA AskedIs ==
  ASSUME IInv, NEW p \in Callers, pc[p] \in Running
  PROVE  /\ AskedBy(p) = RequestOf(call[p]) /\ Asked[p] = RequestOf(call[p])
         /\ Asked[p].kind = call[p].kind /\ Asked[p].driver = call[p].driver
         /\ Asked[p].plate = Plate(p) /\ Asked[p].type = call[p].type
         /\ call[p] \in Call /\ call[p].driver \in Drivers
         /\ Stages[p] = "working"
  <1>1. call[p] \in Calls /\ call[p] \in Call /\ call[p] # NoCall /\ Valid(call[p])
    BY VehiclesAssumption DEF IInv, Serving
  <1>2. AskedBy(p) = RequestOf(call[p])
    BY <1>1 DEF AskedBy
  <1>3. call[p].driver \in Drivers
    BY <1>1 DEF Call, Valid
  <1> QED
    BY <1>1, <1>2, <1>3 DEF Asked, RequestOf, Plate, Stages, StageOf

(* What a caller's step does to the variables with a place for each.       *)
LEMMA OneMoves ==
  ASSUME NEW p \in Callers, OnlyMoves(p)
  PROVE  /\ Stages' = [Stages EXCEPT ![p] = StageOf(p)']
         /\ Asked' = [Asked EXCEPT ![p] = AskedBy(p)']
         /\ Answers' = [Answers EXCEPT ![p] = ToldTo(p)']
         /\ Stages[p] = StageOf(p) /\ Asked[p] = AskedBy(p) /\ Answers[p] = ToldTo(p)
         /\ StageOf(p)' = StageOf(p) => Stages' = Stages
         /\ AskedBy(p)' = AskedBy(p) => Asked' = Asked
         /\ ToldTo(p)' = ToldTo(p) => Answers' = Answers
  <1>1. ASSUME NEW q \in Callers \ {p}
        PROVE  /\ StageOf(q)' = StageOf(q) /\ AskedBy(q)' = AskedBy(q)
               /\ ToldTo(q)' = ToldTo(q)
    BY DEF OnlyMoves, StageOf, AskedBy, RequestOf, Valid, ToldTo
  <1> QED
    BY <1>1 DEF Stages, Asked, Answers

LEMMA SameRegister ==
  ASSUME UNCHANGED <<users, vehicles>> PROVE Joined' = Joined /\ Pages' = Pages
  <1>1. ASSUME NEW d PROVE PageOf(d)' = PageOf(d) /\ Registered(d)' = Registered(d)
    BY DEF PageOf, Owned, Registered
  <1> QED
    BY <1>1 DEF Joined, Pages

(* A caller is answered.                                                   *)
LEMMA EndsIs ==
  ASSUME IInv, NEW p \in Callers, NEW from, NEW a \in Reply, Finish(p, from, a),
         \A q \in Callers \ {p} : call'[q] = call[q],
         NEW st, st = StageOf(p)
  PROVE  /\ Register!Ends(p, st, [code |-> a.code, entries |-> {Shown(v) : v \in a.rows}])
         /\ OnlyMoves(p)
  <1>1. /\ pc[p] = from /\ pc'[p] = "done" /\ reply'[p] = a
        /\ \A q \in Callers \ {p} : pc'[q] = pc[q] /\ reply'[q] = reply[q]
    BY FinishMoves DEF IInv
  <1>2. OnlyMoves(p)
    BY <1>1 DEF OnlyMoves
  <1>3. /\ StageOf(p)' = "done"
        /\ ToldTo(p)' = [code |-> a.code, entries |-> {Shown(v) : v \in a.rows}]
    BY <1>1 DEF StageOf, ToldTo
  <1> QED
    BY <1>2, <1>3, OneMoves DEF Register!Ends, Stages, Answers

(* An answer that shows no vehicle.                                        *)
LEMMA FailedEnds ==
  ASSUME IInv, NEW p \in Callers, NEW from,
         NEW why \in {"VALIDATION", "NOT_FOUND", "ERROR"}, Finish(p, from, Failed(why)),
         \A q \in Callers \ {p} : call'[q] = call[q],
         NEW st, st = StageOf(p)
  PROVE  Register!Ends(p, st, Register!Says(why, {})) /\ OnlyMoves(p)
  <1>1. Failed(why) \in Reply
    BY RepliesAreReplies
  <1>2. Register!Says(why, {}) =
          [code |-> Failed(why).code, entries |-> {Shown(v) : v \in Failed(why).rows}]
    BY DEF Register!Says, Failed
  <1> QED
    BY <1>1, <1>2, EndsIs

LEMMA AcceptIsAsk ==
  ASSUME IInv, NEW p \in Callers, NEW c \in Calls, Accept(p, c) PROVE Register!Ask(p)
  <1>1. TypeOK /\ c \in Call /\ c # NoCall /\ Valid(c)
    BY VehiclesAssumption DEF IInv, Accept
  <1>2. FirstStatement[c.kind] \in {"check", "list"}
    BY <1>1 DEF FirstStatement, Call
  <1>3. /\ pc[p] = "idle" /\ pc'[p] \in {"check", "list"} /\ call'[p] = c
        /\ OnlyMoves(p) /\ UNCHANGED <<users, vehicles, reply>>
    BY <1>1, <1>2 DEF Accept, Goto, TypeOK, OnlyMoves
  <1>4. /\ StageOf(p) = "idle" /\ StageOf(p)' = "working" /\ ToldTo(p)' = ToldTo(p)
        /\ AskedBy(p)' = RequestOf(c)
    BY <1>1, <1>3 DEF StageOf, ToldTo, AskedBy, RequestOf, Valid
  <1>5. RequestOf(c) \in Asks
    BY <1>1 DEF Asks
  <1> QED
    BY <1>3, <1>4, <1>5, OneMoves, SameRegister
    DEF Register!Ask, Joined, Pages, Stages, Asked, Answers, Asks

LEMMA RejectIsRefuse ==
  ASSUME IInv, NEW p \in Callers, NEW c \in Calls, Reject(p, c) PROVE Register!Refuse(p)
  <1>1. /\ TypeOK /\ Finish(p, "idle", Failed("VALIDATION")) /\ pc[p] = "idle"
        /\ \A q \in Callers \ {p} : call'[q] = call[q]
    BY DEF IInv, TypeOK, Reject, Finish, Goto
  <1>2. StageOf(p) = "idle"
    BY <1>1 DEF StageOf
  <1>3. Register!Ends(p, "idle", Register!Says("VALIDATION", {})) /\ OnlyMoves(p)
    BY <1>1, <1>2, FailedEnds
  <1>4. call[p] = NoCall /\ call'[p] = c /\ ~Valid(c)
    BY <1>1 DEF IInv, Serving, Reject, TypeOK
  <1>5. AskedBy(p) = NoCall /\ AskedBy(p)' = NoCall
    BY <1>4 DEF AskedBy, Valid
  <1> QED
    BY <1>3, <1>5, OneMoves, SameRegister
    DEF Register!Refuse, Reject, Joined, Pages, Asked

LEMMA DeliverIsForget ==
  ASSUME IInv, NEW p \in Callers, Deliver(p) PROVE Register!Forget(p)
  <1>1. /\ pc[p] = "done" /\ pc'[p] = "idle" /\ call'[p] = NoCall /\ reply'[p] = Pending
        /\ OnlyMoves(p) /\ UNCHANGED <<users, vehicles>>
    BY DEF IInv, TypeOK, Deliver, Goto, OnlyMoves
  <1>2. /\ StageOf(p) = "done" /\ StageOf(p)' = "idle" /\ AskedBy(p)' = NoCall
        /\ ToldTo(p)' = Register!Silent
    BY <1>1 DEF StageOf, AskedBy, ToldTo, Pending, Register!Silent, Register!Says
  <1> QED
    BY <1>1, <1>2, OneMoves, SameRegister
    DEF Register!Forget, Joined, Pages, Stages, Asked, Answers

LEMMA CheckFoundIsStutter ==
  ASSUME IInv, NEW p \in Callers, CheckFound(p) PROVE UNCHANGED Register!vars
  <1>1. /\ pc[p] = "check" /\ pc'[p] = "upsert" /\ OnlyMoves(p)
        /\ UNCHANGED <<users, vehicles, call, reply>>
    BY DEF IInv, TypeOK, CheckFound, Goto, OnlyMoves
  <1>2. StageOf(p)' = StageOf(p) /\ AskedBy(p)' = AskedBy(p) /\ ToldTo(p)' = ToldTo(p)
    BY <1>1 DEF StageOf, AskedBy, RequestOf, Valid, ToldTo
  <1>3. UNCHANGED <<Joined, Pages, Stages, Asked, Answers>>
    BY <1>1, <1>2, OneMoves, SameRegister
  <1> QED
    BY <1>3 DEF Register!vars, Joined, Pages, Stages, Asked, Answers

(* A step that answers a call under way and leaves the tables alone.       *)
LEMMA AnswerMoves ==
  ASSUME IInv, NEW p \in Callers, NEW from \in Running, NEW a, Finish(p, from, a),
         OnlyMoves(p), UNCHANGED <<users, vehicles, call>>
  PROVE  Stages[p] = "working" /\ UNCHANGED <<Joined, Pages, Asked>>
  <1>1. pc[p] = from
    BY DEF Finish, Goto
  <1>2. AskedBy(p)' = AskedBy(p)
    BY DEF AskedBy, RequestOf, Valid
  <1> QED
    BY <1>1, <1>2, AskedIs, OneMoves, SameRegister

LEMMA QuietIsServe ==
  ASSUME IInv, NEW p \in Callers, CheckMissing(p) \/ List(p) \/ StatementFails(p)
  PROVE  Register!Serve(p)
  <1>1. CASE StatementFails(p)
    <2>1. PICK s \in Running : Finish(p, s, Failed("ERROR"))
      BY <1>1 DEF StatementFails
    <2>2. UNCHANGED <<users, vehicles, call>> /\ StageOf(p) = "working"
      BY <1>1, <2>1 DEF StatementFails, StageOf, Finish, Goto
    <2>3. Register!Ends(p, "working", Register!Says("ERROR", {})) /\ OnlyMoves(p)
      BY <2>1, <2>2, FailedEnds
    <2>4. Stages[p] = "working" /\ UNCHANGED <<Joined, Pages, Asked>>
      BY <2>1, <2>2, <2>3, AnswerMoves
    <2>5. Register!Fail(p)
      BY <2>3, <2>4 DEF Register!Fail, Joined, Pages, Asked
    <2> QED
      BY <2>4, <2>5 DEF Register!Serve, Stages
  <1>2. CASE CheckMissing(p)
    <2>1. /\ Finish(p, "check", Failed("NOT_FOUND")) /\ UNCHANGED <<users, vehicles, call>>
          /\ pc[p] = "check" /\ StageOf(p) = "working" /\ ~Registered(call[p].driver)
          /\ call[p].kind = "register"
      BY <1>2 DEF CheckMissing, StageOf, IInv, Serving
    <2>2. Register!Ends(p, "working", Register!Says("NOT_FOUND", {})) /\ OnlyMoves(p)
      BY <2>1, FailedEnds
    <2>3. Stages[p] = "working" /\ UNCHANGED <<Joined, Pages, Asked>>
      BY <2>1, <2>2, AnswerMoves
    <2>4. Asked[p].kind = "register" /\ Asked[p].driver \notin Joined
      BY <2>1, AskedIs DEF Joined
    <2>5. Register!Unknown(p)
      BY <2>2, <2>3, <2>4 DEF Register!Unknown, Joined, Pages, Asked
    <2> QED
      BY <2>3, <2>5 DEF Register!Serve, Stages
  <1>3. CASE List(p)
    <2>1. PICK rows : rows = Owned(call[p].driver)
      OBVIOUS
    <2>2. /\ Finish(p, "list", Found(rows)) /\ UNCHANGED <<users, vehicles, call>>
          /\ pc[p] = "list" /\ StageOf(p) = "working" /\ call[p].kind = "list"
      BY <1>3, <2>1 DEF List, Finish, Goto, StageOf, IInv, Serving
    <2>3. Found(rows) \in Reply
      BY <2>1, RepliesAreReplies DEF Owned, IInv, TypeOK
    <2>4. Pages[Asked[p].driver] = {Shown(v) : v \in rows} /\ Asked[p].kind = "list"
      BY <2>1, <2>2, AskedIs DEF Pages, PageOf
    <2>5. Register!Says("OK", Pages[Asked[p].driver]) =
            [code |-> Found(rows).code, entries |-> {Shown(v) : v \in Found(rows).rows}]
      BY <2>4 DEF Register!Says, Found
    <2>6. /\ Register!Ends(p, "working", Register!Says("OK", Pages[Asked[p].driver]))
          /\ OnlyMoves(p)
      BY <2>2, <2>3, <2>5, EndsIs
    <2>7. Stages[p] = "working" /\ UNCHANGED <<Joined, Pages, Asked>>
      BY <2>2, <2>6, AnswerMoves
    <2>8. Register!Show(p)
      BY <2>4, <2>6, <2>7 DEF Register!Show, Joined, Pages, Asked
    <2> QED
      BY <2>7, <2>8 DEF Register!Serve, Stages
  <1> QED
    BY <1>1, <1>2, <1>3

(* Both outcomes of an upsert replace old, the rows of its plate, by one   *)
(* row, as in UpsertKeeps.                                                 *)
Replaces(p, id, old) ==
  /\ pc[p] = "upsert" /\ Return(p, Written(p, id))
  /\ old \subseteq vehicles
  /\ vehicles' = (vehicles \ old) \cup {Written(p, id)}
  /\ \A v \in old : v.id = id /\ v.driver = call[p].driver /\ v.nopol = Plate(p)
  /\ \A v \in vehicles \ old :
       v.id # id /\ (v.driver # call[p].driver \/ v.nopol # Plate(p))

\* What that does to the pages.
LEMMA UpsertTurnsPage ==
  ASSUME IInv, NEW p \in Callers, NEW id \in VehicleIds, NEW old, Replaces(p, id, old)
  PROVE  /\ Register!Fits(id, Asked[p])
         /\ Shown(Written(p, id)) = Register!Entry(id, Asked[p])
         /\ Pages' = [Pages EXCEPT ![Asked[p].driver] =
                        Register!Others(Asked[p]) \cup {Register!Entry(id, Asked[p])}]
  <1> USE DEF Replaces
  <1>1. /\ Asked[p].driver = call[p].driver /\ Asked[p].plate = Plate(p)
        /\ Asked[p].type = call[p].type /\ call[p].driver \in Drivers
    BY AskedIs
  <1>2. PICK w : w = Written(p, id)
    OBVIOUS
  <1>3. w.id = id /\ w.driver = call[p].driver /\ w.nopol = Plate(p) /\ w.type = call[p].type
    BY <1>2 DEF Written
  <1>4. Shown(w) = Register!Entry(id, Asked[p])
    BY <1>1, <1>3 DEF Shown, Register!Entry
  <1>5. ASSUME NEW d \in Drivers, NEW e \in PageOf(d)
        PROVE  \E v \in vehicles : v.driver = d /\ e = Shown(v)
    BY <1>5 DEF PageOf, Owned
  <1>6. \A v : Shown(v).id = v.id /\ Shown(v).plate = v.nopol
    BY DEF Shown
  <1>7. Register!Fits(id, Asked[p])
    <2>1. \A e \in Pages[Asked[p].driver] : e.plate = Asked[p].plate => e.id = id
      BY <1>1, <1>5, <1>6 DEF Pages
    <2>2. \A d \in Drivers : \A e \in Pages[d] :
            e.id = id => d = Asked[p].driver /\ e.plate = Asked[p].plate
      BY <1>1, <1>5, <1>6 DEF Pages
    <2> QED
      BY <2>1, <2>2 DEF Register!Fits, Pages
  <1>8. ASSUME NEW d \in Drivers, d # call[p].driver PROVE PageOf(d)' = PageOf(d)
    <2>1. Owned(d)' = Owned(d)
      BY <1>2, <1>3, <1>8 DEF Owned
    <2> QED
      BY <2>1 DEF PageOf
  <1>9. PICK d : d = call[p].driver
    OBVIOUS
  <1>10. PageOf(d)' = {e \in PageOf(d) : e.plate # Plate(p)} \cup {Shown(w)}
    <2>1. \A v \in Owned(d) : v \in old <=> v.nopol = Plate(p)
      BY <1>9 DEF Owned
    <2>2. Owned(d)' = {v \in Owned(d) : v.nopol # Plate(p)} \cup {w}
      BY <1>2, <1>3, <1>9, <2>1 DEF Owned
    <2>3. PageOf(d)' = {Shown(v) : v \in Owned(d)'}
      BY DEF PageOf
    <2>4. {e \in PageOf(d) : e.plate # Plate(p)} =
            {Shown(v) : v \in {x \in Owned(d) : x.nopol # Plate(p)}}
      BY <1>6 DEF PageOf
    <2> QED
      BY <2>2, <2>3, <2>4
  <1>11. Asked[p].driver = d /\ d \in Drivers
    BY <1>1, <1>9
  <1>12. \A c \in Drivers : c # d => PageOf(c)' = PageOf(c)
    BY <1>8, <1>9
  <1>13. PageOf(d)' = Register!Others(Asked[p]) \cup {Register!Entry(id, Asked[p])}
    BY <1>1, <1>2, <1>4, <1>10, <1>11 DEF Register!Others, Pages
  <1>14. Pages' = [Pages EXCEPT ![d] =
                     Register!Others(Asked[p]) \cup {Register!Entry(id, Asked[p])}]
    BY <1>11, <1>12, <1>13 DEF Pages
  <1> QED
    BY <1>2, <1>4, <1>7, <1>11, <1>14

(* The two outcomes of an upsert, and its two answers.                     *)
LEMMA UpsertIsServe ==
  ASSUME IInv, NEW p \in Callers, Upsert(p) PROVE Register!Serve(p)
  <1>1. PICK id \in VehicleIds, old \in SUBSET vehicles : Replaces(p, id, old)
    <2>1. ASSUME NEW i \in FreshIds, InsertVehicle(p, i) PROVE Replaces(p, i, {})
      BY <2>1 DEF InsertVehicle, Conflicting, FreshIds, Replaces
    <2>2. ASSUME NEW o \in vehicles, UpdateVehicle(p, o) PROVE Replaces(p, o.id, {o})
      BY <2>2 DEF UpdateVehicle, Conflicting, IInv, OneVehiclePerPlate, Replaces
    <2>3. \A o \in vehicles : o.id \in VehicleIds
      BY DEF IInv, TypeOK, Vehicle
    <2> QED
      BY <2>1, <2>2, <2>3 DEF Upsert, FreshIds
  <1>2. /\ Register!Fits(id, Asked[p])
        /\ Shown(Written(p, id)) = Register!Entry(id, Asked[p])
        /\ Pages' = [Pages EXCEPT ![Asked[p].driver] =
                       Register!Others(Asked[p]) \cup {Register!Entry(id, Asked[p])}]
    BY <1>1, UpsertTurnsPage
  <1>3. /\ pc[p] = "upsert" /\ UNCHANGED <<users, call>> /\ StageOf(p) = "working"
        /\ \/ Finish(p, "upsert", Found({Written(p, id)}))
           \/ Finish(p, "upsert", Failed("ERROR"))
    BY <1>1 DEF Replaces, Return, StageOf
  <1>4. /\ Asked[p].kind = "register" /\ Asked[p].driver \in Joined
        /\ Stages[p] = "working"
    BY <1>3, AskedIs DEF IInv, Serving, OwnersAreOnRecord, Joined
  <1>5. PICK entry : entry = Register!Entry(id, Asked[p])
    OBVIOUS
  <1>6. /\ OnlyMoves(p)
        /\ \/ Register!Ends(p, "working", Register!Says("OK", {entry}))
           \/ Register!Ends(p, "working", Register!Says("ERROR", {}))
    <2>1. CASE Finish(p, "upsert", Failed("ERROR"))
      BY <1>3, <2>1, FailedEnds
    <2>2. CASE Finish(p, "upsert", Found({Written(p, id)}))
      <3>1. Written(p, id) \in Vehicle
        BY <1>3, WrittenIsVehicle DEF IInv, Serving
      <3>2. Found({Written(p, id)}) \in Reply
        BY <3>1, RepliesAreReplies
      <3>3. Register!Says("OK", {entry}) =
              [code |-> Found({Written(p, id)}).code,
               entries |-> {Shown(v) : v \in Found({Written(p, id)}).rows}]
        BY <1>2, <1>5 DEF Register!Says, Found
      <3> QED
        BY <1>3, <2>2, <3>2, <3>3, EndsIs
    <2> QED
      BY <1>3, <2>1, <2>2
  <1>7. Joined' = Joined /\ Asked' = Asked
    <2>1. AskedBy(p)' = AskedBy(p)
      BY <1>3 DEF AskedBy, RequestOf, Valid
    <2>2. Joined' = Joined
      BY <1>3 DEF Joined, Registered
    <2> QED
      BY <1>6, <2>1, <2>2, OneMoves
  <1>8. Register!Enter(p)
    BY <1>2, <1>4, <1>5, <1>6, <1>7 DEF Register!Enter, Joined, Pages, Asked
  <1> QED
    BY <1>4, <1>8 DEF Register!Serve, Stages

LEMMA EnrolIsJoin ==
  ASSUME IInv, NEW d \in Drivers, Enrol(d) PROVE Register!Join(d)
  <1>1. ~Registered(d) /\ UNCHANGED <<vehicles, pc, call, reply>>
    BY DEF Enrol, Registered
  <1>2. \A e \in Drivers : Registered(e)' <=> (Registered(e) \/ e = d)
    BY DEF IInv, TypeOK, Enrol, Registered
  <1>3. d \notin Joined /\ Joined' = Joined \cup {d}
    BY <1>1, <1>2 DEF Joined
  <1>4. UNCHANGED <<Pages, Stages, Asked, Answers>>
    BY <1>1 DEF Pages, PageOf, Owned, Stages, StageOf, Asked, AskedBy, RequestOf, Valid,
                Answers, ToldTo
  <1> QED
    BY <1>3, <1>4 DEF Register!Join, Joined, Pages, Stages, Asked, Answers

(* A deletion, or nothing at all, shows nobody anything.                   *)
LEMMA RetireIsStutter ==
  ASSUME IInv, UNCHANGED vars \/ \E d \in Drivers : Retire(d)
  PROVE  UNCHANGED Register!vars
  <1>1. UNCHANGED <<vehicles, pc, call, reply>>
    BY DEF vars, Retire
  <1>2. \A e \in Drivers : Registered(e)' <=> Registered(e)
    BY DEF IInv, TypeOK, Retire, Registered, vars
  <1>3. Joined' = Joined
    BY <1>2 DEF Joined
  <1>4. UNCHANGED <<Pages, Stages, Asked, Answers>>
    BY <1>1 DEF Pages, PageOf, Owned, Stages, StageOf, Asked, AskedBy, RequestOf, Valid,
                Answers, ToldTo
  <1> QED
    BY <1>3, <1>4 DEF Register!vars, Joined, Pages, Stages, Asked, Answers

LEMMA InitIsRegister == Init => Register!Init
  <1> SUFFICES ASSUME Init PROVE Register!Init
    OBVIOUS
  <1>1. Joined = {} /\ Pages = [d \in Drivers |-> {}]
    BY DEF Init, Joined, Registered, Pages, PageOf, Owned
  <1>2. /\ Stages = [p \in Callers |-> "idle"] /\ Asked = [p \in Callers |-> NoCall]
        /\ Answers = [p \in Callers |-> Register!Silent]
    BY DEF Init, Stages, StageOf, Asked, AskedBy, Answers, ToldTo, Pending,
           Register!Silent, Register!Says
  <1> QED
    BY <1>1, <1>2 DEF Register!Init, Joined, Pages, Stages, Asked, Answers

LEMMA StepIsRegister == IInv /\ [Next]_vars => [Register!Next]_(Register!vars)
  <1> SUFFICES ASSUME IInv, [Next]_vars PROVE Register!Next \/ UNCHANGED Register!vars
    OBVIOUS
  <1>1. ASSUME NEW p \in Callers, Progress(p) \/ StatementFails(p)
        PROVE  Register!Serve(p) \/ UNCHANGED Register!vars
    BY <1>1, CheckFoundIsStutter, QuietIsServe, UpsertIsServe DEF Progress
  <1>2. ASSUME NEW p \in Callers, (\E c \in Calls : Accept(p, c) \/ Reject(p, c)) \/ Deliver(p)
        PROVE  Register!Ask(p) \/ Register!Refuse(p) \/ Register!Forget(p)
    BY <1>2, AcceptIsAsk, RejectIsRefuse, DeliverIsForget
  <1>3. ASSUME NEW d \in Drivers, Enrol(d) PROVE Register!Join(d)
    BY <1>3, EnrolIsJoin
  <1>4. CASE UNCHANGED vars \/ \E d \in Drivers : Retire(d)
    BY <1>4, RetireIsStutter
  <1> QED
    BY <1>1, <1>2, <1>3, <1>4 DEF Next, Register!Next

(* Check, upsert and listing, statement by statement and race by race, are *)
(* atomic operations on one register of plates, or show nobody anything.   *)
THEOREM PlatesAreAtomic == Spec => ImplementsRegister
  BY InvariantHolds, InitIsRegister, StepIsRegister, PTL
  DEF Spec, ImplementsRegister, Register!Spec
=============================================================================
