----------------------------- MODULE ProfileProofs -----------------------------
(* Safety of ProfileCache for every set of callers, drivers and calls, and *)
(* its implementation of ProfileRegister, proved with TLAPS.               *)
EXTENDS ProfileCache, TLAPS

-----------------------------------------------------------------------------
(* The inductive invariant. *)

\* The table is where its history ends, and a version names one content.
TableOK ==
  \A id \in RowIds :
    /\ db[id] \in past[id] \cup {NoRow}
    /\ db[id] = NoRow => past[id] = {}
    /\ \A r, s \in past[id] : r.version = s.version => r = s
    /\ \A r \in past[id] : r.version <= db[id].version

CacheOK == \A id \in RowIds : cache[id] \in past[id] \cup {NoRow}

\* Which call is served at which step, and what is in hand there.
Shape(p) ==
  /\ pc[p] = "idle" <=> op[p] = NoCall
  /\ pc[p] = "done" <=> reply[p] # Pending
  /\ pc[p] \in {"lookup", "read", "fill"} => op[p].kind = "get"
  /\ pc[p] = "update" => op[p].kind = "update"
  /\ pc[p] \in {"delete", "exists"} => op[p].kind = "delete"
  /\ pc[p] = "evict" => op[p].kind \in {"update", "delete"}
  /\ seen[p] # NoRow => pc[p] \in {"fill", "evict"}
  /\ pc[p] = "evict" => (seen[p] # NoRow <=> op[p].kind = "update")
  /\ pc[p] = "fill" => seen[p] # NoRow

\* What a caller holds or was told was committed.
CopyOK(p) ==
  op[p] # NoCall => /\ seen[p] \in past[op[p].id] \cup {NoRow}
                    /\ reply[p].row \in past[op[p].id] \cup {NoRow}

\* The UPDATE of p matched its version: acknowledged, or about to be.
Won(p) == /\ op[p] # NoCall /\ op[p].kind = "update"
          /\ pc[p] = "evict" \/ reply[p].code = "OK"

WonOK(p) ==
  Won(p) => /\ Decided(p).row \in past[op[p].id]
            /\ Decided(p).row.version = op[p].expected + 1
            /\ \E r \in past[op[p].id] :
                 /\ r.version = op[p].expected
                 /\ Decided(p).row = Patched(r, op[p].patch)

\* A deletion that is about to be acknowledged, or was.
DeleteOK(p) ==
  /\ op[p] # NoCall /\ op[p].kind = "delete" /\ (pc[p] = "evict" \/ reply[p].code = "OK")
       => db[op[p].id] # NoRow /\ db[op[p].id].status = Deleted
  /\ pc[p] = "exists" => ~Live(db[op[p].id])

CallerOK(p) == Shape(p) /\ CopyOK(p) /\ WonOK(p) /\ DeleteOK(p)

OneWinner ==
  \A p, q \in Callers :
    p # q /\ Won(p) /\ Won(q) /\ op[p].id = op[q].id => op[p].expected # op[q].expected

IInv == /\ TypeOK /\ TableOK /\ CacheOK
        /\ \A p \in Callers : CallerOK(p)
        /\ OneWinner

-----------------------------------------------------------------------------
(* Lemmas about the rows the two UPDATE statements write. *)

LEMMA PatchedIsRow ==
  ASSUME NEW r \in Row, NEW patch \in Patch
  PROVE  /\ Patched(r, patch) \in Row
         /\ Patched(r, patch).version = r.version + 1
         /\ Patched(r, patch).status = r.status
<1>1. /\ Overlay(patch.name, r.name) \in Names \cup {DefaultName}
      /\ Overlay(patch.phone, r.phone) \in Phones \cup {Blank}
  BY DEF Patch, Row, Overlay
<1> QED BY <1>1 DEF Patched, Row

LEMMA RetiredIsRow ==
  ASSUME NEW r \in Row
  PROVE  /\ Retired(r) \in Row
         /\ Retired(r).version = r.version + 1
         /\ Retired(r).status = Deleted
BY DEF Retired, Row, Status, Deleted

-----------------------------------------------------------------------------
(* Frames: what a step of p leaves to the other callers. *)

Others(p) == \A q \in Callers \ {p} : /\ pc'[q] = pc[q] /\ op'[q] = op[q]
                                      /\ seen'[q] = seen[q] /\ reply'[q] = reply[q]

\* A step of p that leaves the table alone keeps the invariant when it does
\* so for p and for the cache, and does not make p a winner.
LEMMA QuietStep ==
  ASSUME IInv, NEW p \in Callers, Others(p), UNCHANGED Table,
         TypeOK', CacheOK', CallerOK(p)', Won(p)' => Won(p) /\ op'[p] = op[p]
  PROVE  IInv'
<1>1. TableOK'
  BY DEF IInv, TableOK, Table
<1>2. ASSUME NEW q \in Callers \ {p} PROVE CallerOK(q)'
  BY <1>2 DEF IInv, Others, Table, CallerOK, Shape, CopyOK, Won, WonOK, DeleteOK,
     Live, Decided
<1>3. \A q \in Callers \ {p} : Won(q)' <=> Won(q)
  BY DEF Others, Won
<1>4. OneWinner'
  BY <1>3 DEF IInv, OneWinner, Others
<1> QED BY <1>1, <1>2, <1>4 DEF IInv

\* A step of p that commits the next version of a live row.
LEMMA CommitStep ==
  ASSUME IInv, NEW p \in Callers, Others(p), NEW id \in RowIds, NEW row \in Row,
         Live(db[id]), row.version = db[id].version + 1,
         Commit(id, row), UNCHANGED <<cache, op>>, TypeOK', CallerOK(p)',
         op[p] # NoCall, op[p].id = id, Won(p)' => op[p].expected = db[id].version
  PROVE  IInv'
<1> USE DEF IInv
<1>0. /\ db[id] \in Row /\ db[id].version \in Nat /\ db[id] \in past[id]
      /\ db' = [db EXCEPT ![id] = row]
      /\ past' = [past EXCEPT ![id] = @ \cup {row}]
  BY DEF Live, TypeOK, TableOK, Row, Commit
<1>1. /\ db'[id] = row /\ past'[id] = past[id] \cup {row}
      /\ \A x \in RowIds \ {id} : db'[x] = db[x] /\ past'[x] = past[x]
      /\ \A x \in RowIds : past[x] \subseteq past'[x]
  BY <1>0 DEF TypeOK
<1>2. row.version \in Nat /\ \A r \in past[id] : r.version \in Nat
  BY <1>0 DEF Row, TypeOK
<1>3. TableOK'
  <2> SUFFICES ASSUME NEW x \in RowIds
               PROVE  /\ db'[x] \in past'[x] \cup {NoRow}
                      /\ db'[x] = NoRow => past'[x] = {}
                      /\ \A r, s \in past'[x] : r.version = s.version => r = s
                      /\ \A r \in past'[x] : r.version <= db'[x].version
    BY DEF TableOK
  <2>1. CASE x = id
    <3>1. \A r \in past[id] : r.version <= db[id].version
      BY DEF TableOK
    <3>2. \A r \in past[id] : r.version < row.version
      BY <3>1, <1>0, <1>2
    <3>3. row # NoRow
      BY ValuesAreDistinct
    <3> QED BY <2>1, <1>1, <1>2, <3>2, <3>3 DEF TableOK
  <2>2. CASE x # id
    BY <2>2, <1>1 DEF TableOK
  <2> QED BY <2>1, <2>2
<1>4. CacheOK'
  BY <1>1 DEF CacheOK
<1>5. ASSUME NEW q \in Callers \ {p} PROVE CallerOK(q)'
  <2>1. /\ pc'[q] = pc[q] /\ op'[q] = op[q] /\ seen'[q] = seen[q]
        /\ reply'[q] = reply[q]
    BY DEF Others
  <2>2. op[q] # NoCall => op[q].id \in RowIds
    BY ProfileAssumption DEF TypeOK, Call
  <2>3. Shape(q)' /\ CopyOK(q)'
    BY <1>1, <2>1, <2>2 DEF CallerOK, Shape, CopyOK
  <2>4. Decided(q)' = Decided(q) /\ (Won(q)' <=> Won(q))
    BY <2>1 DEF Decided, Won
  <2>5. WonOK(q)'
    BY <1>1, <2>1, <2>2, <2>4 DEF CallerOK, WonOK, Won
  <2>6. DeleteOK(q)'
    <3>1. CASE op[q] = NoCall \/ op[q].id # id
      BY <3>1, <1>1, <2>1, <2>2 DEF CallerOK, DeleteOK, Shape, Live
    <3>2. CASE op[q] # NoCall /\ op[q].id = id
      BY <3>2, <1>1, <2>1 DEF CallerOK, DeleteOK, Live
    <3> QED BY <3>1, <3>2
  <2> QED BY <2>3, <2>5, <2>6 DEF CallerOK
<1>6. OneWinner'
  <2>1. ASSUME NEW q \in Callers \ {p}, Won(q), op[q].id = id
        PROVE  op[q].expected < db[id].version
    <3>1. PICK r \in past[id] : r.version = op[q].expected + 1
      BY <2>1 DEF CallerOK, WonOK
    <3>2. r.version <= db[id].version /\ op[q].expected \in Nat
      BY <2>1, ProfileAssumption DEF TableOK, TypeOK, Call, Won
    <3> QED BY <3>1, <3>2, <1>0
  <2>2. \A q \in Callers \ {p} : Won(q)' <=> Won(q)
    BY DEF Others, Won
  <2>3. ASSUME NEW q \in Callers \ {p}, Won(q), Won(p)', op[q].id = id
        PROVE  op[q].expected # op[p].expected
    BY <2>1, <2>3, <1>0, ProfileAssumption DEF TypeOK, Call, Won
  <2> QED BY <2>2, <2>3 DEF OneWinner
<1> QED BY <1>3, <1>4, <1>5, <1>6

-----------------------------------------------------------------------------
(* The invariant holds of the registered profiles and an empty cache. *)
LEMMA InitInv == Init => IInv
<1> SUFFICES ASSUME Init PROVE IInv
  OBVIOUS
<1>1. ASSUME NEW id \in RowIds
      PROVE  /\ past[id] \subseteq Row
             /\ \A r, s \in past[id] : r = s /\ r.version = 1
             /\ past[id] = {} => db[id] = NoRow
             /\ past[id] # {} => db[id] \in past[id]
  BY ProfileAssumption DEF Init, ScanOne
<1>2. TypeOK
  BY <1>1 DEF Init, TypeOK, PCs, Reply
<1>3. TableOK
  <2> SUFFICES ASSUME NEW id \in RowIds
               PROVE  /\ db[id] \in past[id] \cup {NoRow}
                      /\ db[id] = NoRow => past[id] = {}
                      /\ \A r, s \in past[id] : r.version = s.version => r = s
                      /\ \A r \in past[id] : r.version <= db[id].version
    BY DEF TableOK
  <2> QED BY <1>1, ValuesAreDistinct
<1>4. CacheOK /\ OneWinner /\ \A p \in Callers : CallerOK(p)
  BY DEF Init, CacheOK, OneWinner, CallerOK, Shape, CopyOK, WonOK, DeleteOK, Won, Pending
<1> QED BY <1>2, <1>3, <1>4 DEF IInv

-----------------------------------------------------------------------------
(* The steps of GetUserByID, and of the cache. *)

\* What a step of p that finishes does to the callers' variables.
LEMMA FinishFrame ==
  ASSUME TypeOK, NEW p \in Callers, NEW from, NEW answer \in Reply,
         Finish(p, from, answer), UNCHANGED op
  PROVE  /\ Others(p)
         /\ pc[p] = from /\ pc'[p] = "done" /\ seen'[p] = NoRow /\ reply'[p] = answer
         /\ pc' \in [Callers -> PCs] /\ seen' \in [Callers -> Row \cup {NoRow}]
         /\ reply' \in [Callers -> Reply]
BY DEF TypeOK, Finish, Goto, Others, PCs

\* Ending with a row that was committed, or with an error, is quiet.
LEMMA FinishStep ==
  ASSUME IInv, NEW p \in Callers, NEW from \in PCs \ {"idle", "done"},
         NEW answer \in Reply \ {Pending}, Finish(p, from, answer),
         UNCHANGED Table, UNCHANGED op, cache' \in [RowIds -> Row \cup {NoRow}], CacheOK',
         answer.row \in past[op[p].id] \cup {NoRow},
         answer.code = "OK" /\ op[p].kind = "update"
           => from = "evict" /\ answer = Found(seen[p]),
         answer.code = "OK" /\ op[p].kind = "delete" => from = "evict"
  PROVE  IInv'
<1>1. /\ Others(p)
      /\ pc[p] = from /\ pc'[p] = "done" /\ seen'[p] = NoRow /\ reply'[p] = answer
      /\ pc' \in [Callers -> PCs] /\ seen' \in [Callers -> Row \cup {NoRow}]
      /\ reply' \in [Callers -> Reply]
  BY FinishFrame DEF IInv
<1>2. TypeOK'
  BY <1>1 DEF IInv, TypeOK, Table
<1>3. op[p] # NoCall
  BY <1>1 DEF IInv, CallerOK, Shape
<1>4. Shape(p)' /\ CopyOK(p)'
  BY <1>1, <1>3 DEF Shape, CopyOK, Table
<1>5. Won(p)' => Won(p) /\ op'[p] = op[p] /\ Decided(p)' = Decided(p)
  BY <1>1 DEF Won, Decided
<1>6. WonOK(p)'
  BY <1>5 DEF IInv, CallerOK, WonOK, Table
<1>7. DeleteOK(p)'
  BY <1>1 DEF IInv, CallerOK, DeleteOK, Table
<1> QED BY <1>1, <1>2, <1>4, <1>5, <1>6, <1>7, QuietStep DEF CallerOK

\* A step of p between two places of one call, with the table unchanged.
LEMMA MoveStep ==
  ASSUME IInv, NEW p \in Callers, NEW from, NEW to \in PCs \ {"idle", "done"},
         Goto(p, from, to), UNCHANGED <<Table, cache, op, seen, reply>>,
         Shape(p)', CopyOK(p)', WonOK(p)', DeleteOK(p)', Won(p)' => Won(p)
  PROVE  IInv'
<1>1. Others(p) /\ TypeOK' /\ CacheOK'
  BY DEF IInv, TypeOK, CacheOK, Others, Goto, Table
<1> QED BY <1>1, QuietStep DEF CallerOK

-----------------------------------------------------------------------------
(* Every step keeps the invariant: one case per action. *)
LEMMA NextInv == IInv /\ [Next]_vars => IInv'
<1> SUFFICES ASSUME IInv, [Next]_vars PROVE IInv'
  OBVIOUS
<1>a. \A p \in Callers : op[p] # NoCall =>
        /\ op[p] \in Call /\ op[p] \in Calls /\ op[p].id \in RowIds
        /\ op[p].patch \in Patch /\ op[p].expected \in Nat
  BY ProfileAssumption DEF IInv, TypeOK, Call
<1>b. \A p \in Callers : pc[p] # "idle" => op[p] # NoCall
  BY DEF IInv, CallerOK, Shape
<1>1. ASSUME NEW p \in Callers, NEW call \in Calls, Accept(p, call) PROVE IInv'
  <2>1. /\ Others(p) /\ pc[p] = "idle" /\ pc'[p] = FirstStep[call.kind]
        /\ op'[p] = call /\ UNCHANGED <<Table, cache, seen, reply>>
    BY <1>1 DEF IInv, TypeOK, Accept, Goto, Others
  <2>2. call \in Call /\ call # NoCall
    BY ProfileAssumption
  <2>3. /\ call.kind \in {"get", "update", "delete"}
        /\ FirstStep["get"] = "lookup" /\ FirstStep["update"] = "update"
        /\ FirstStep["delete"] = "delete"
    BY <2>2 DEF Call, FirstStep
  <2>4. TypeOK' /\ CacheOK'
    <3>1. FirstStep[call.kind] \in PCs
      BY <2>3 DEF PCs
    <3> QED BY <1>1, <2>1, <3>1 DEF IInv, TypeOK, CacheOK, Accept, Goto, Table
  <2>5. reply[p] = Pending /\ seen[p] = NoRow
    BY <2>1 DEF IInv, CallerOK, Shape
  <2>6. Shape(p)' /\ CopyOK(p)' /\ WonOK(p)' /\ DeleteOK(p)' /\ ~Won(p)'
    BY <2>1, <2>2, <2>3, <2>5 DEF Shape, CopyOK, Won, WonOK, DeleteOK, Pending
  <2> QED BY <2>1, <2>4, <2>6, QuietStep DEF CallerOK
<1>2. ASSUME NEW p \in Callers, Deliver(p) PROVE IInv'
  <2>1. /\ Others(p) /\ pc[p] = "done" /\ pc'[p] = "idle" /\ op'[p] = NoCall
        /\ reply'[p] = Pending /\ UNCHANGED <<Table, cache, seen>>
    BY <1>2 DEF IInv, TypeOK, Deliver, Goto, Others
  <2>2. TypeOK' /\ CacheOK'
    BY <1>2 DEF IInv, TypeOK, CacheOK, Deliver, Goto, PCs, Reply, Table
  <2>3. seen[p] = NoRow
    BY <2>1 DEF IInv, CallerOK, Shape
  <2>4. Shape(p)' /\ CopyOK(p)' /\ WonOK(p)' /\ DeleteOK(p)' /\ ~Won(p)'
    BY <2>1, <2>3 DEF Shape, CopyOK, Won, WonOK, DeleteOK
  <2> QED BY <2>1, <2>2, <2>4, QuietStep DEF CallerOK
<1>3. ASSUME NEW p \in Callers, StatementFails(p) PROVE IInv'
  <2>1. PICK s \in {"read", "update", "delete"} : Finish(p, s, Failed("ERROR"))
    BY <1>3 DEF StatementFails
  <2> QED BY <1>3, <2>1, FinishStep DEF StatementFails, Failed, Pending, Reply, Failures,
       PCs, IInv, TypeOK, CacheOK, Table
<1>4. ASSUME NEW p \in Callers, CacheHit(p) PROVE IInv'
  <2>1. op[p] # NoCall /\ op[p].kind = "get" /\ op[p].id \in RowIds
    BY <1>4, <1>a, <1>b DEF CacheHit, IInv, CallerOK, Shape
  <2>2. Cached(p) \in past[op[p].id] /\ Cached(p) \in Row
    BY <1>4, <2>1 DEF CacheHit, Cached, IInv, CacheOK, TypeOK
  <2> QED BY <1>4, <2>1, <2>2, FinishStep DEF CacheHit, Found, Pending, Reply, PCs,
       IInv, TypeOK, CacheOK, Table
<1>5. ASSUME NEW p \in Callers, CacheMiss(p) PROVE IInv'
  <2>1. pc[p] = "lookup" /\ pc'[p] = "read" /\ UNCHANGED <<Table, cache, op, seen, reply>>
    BY <1>5 DEF CacheMiss, Goto, IInv, TypeOK
  <2>2. Shape(p)' /\ CopyOK(p)' /\ WonOK(p)' /\ DeleteOK(p)' /\ (Won(p)' => Won(p))
    BY <2>1 DEF IInv, CallerOK, Shape, CopyOK, Won, WonOK, DeleteOK, Table, Decided
  <2> QED BY <1>5, <2>2, MoveStep DEF CacheMiss, PCs
<1>6. ASSUME NEW p \in Callers, ReadRow(p) PROVE IInv'
  <2>1. /\ Others(p) /\ pc[p] = "read" /\ pc'[p] = "fill" /\ seen'[p] = Current(p)
        /\ Current(p) # NoRow /\ UNCHANGED <<Table, cache, op, reply>>
    BY <1>6 DEF IInv, TypeOK, ReadRow, Goto, Others
  <2>2. /\ op[p] # NoCall /\ op[p].kind = "get" /\ op[p].id \in RowIds
        /\ reply[p] = Pending
    BY <2>1, <1>a, <1>b DEF IInv, CallerOK, Shape
  <2>3. Current(p) \in past[op[p].id] /\ Current(p) \in Row
    BY <2>1, <2>2 DEF Current, IInv, TableOK, TypeOK
  <2>4. TypeOK' /\ CacheOK'
    BY <1>6, <2>1, <2>3 DEF IInv, TypeOK, CacheOK, ReadRow, Goto, PCs, Table
  <2>5. Shape(p)' /\ CopyOK(p)' /\ WonOK(p)' /\ DeleteOK(p)' /\ ~Won(p)'
    BY <2>1, <2>2, <2>3 DEF Shape, CopyOK, Won, WonOK, DeleteOK, Table, Pending
  <2> QED BY <2>1, <2>4, <2>5, QuietStep DEF CallerOK
<1>7. ASSUME NEW p \in Callers, ReadNothing(p) PROVE IInv'
  <2>1. op[p].kind = "get"
    BY <1>7 DEF ReadNothing, IInv, CallerOK, Shape
  <2> QED BY <1>7, <2>1, FinishStep DEF ReadNothing, Failed, Pending, Reply, Failures,
       PCs, IInv, TypeOK, CacheOK, Table
<1>8. ASSUME NEW p \in Callers, Fill(p) PROVE IInv'
  <2>1. /\ pc[p] = "fill" /\ op[p] # NoCall /\ op[p].kind = "get"
        /\ op[p].id \in RowIds /\ seen[p] # NoRow
    BY <1>8, <1>a, <1>b DEF Fill, Finish, Goto, IInv, CallerOK, Shape
  <2>2. seen[p] \in past[op[p].id] /\ seen[p] \in Row
    BY <2>1 DEF IInv, CallerOK, CopyOK, TypeOK
  <2>3. cache' \in [RowIds -> Row \cup {NoRow}] /\ CacheOK'
    BY <1>8, <2>1, <2>2 DEF Fill, IInv, TypeOK, CacheOK, Table
  <2> QED BY <1>8, <2>1, <2>2, <2>3, FinishStep DEF Fill, Found, Pending, Reply, PCs
<1>9. ASSUME NEW p \in Callers, Update(p) PROVE IInv'
  <2>1. /\ pc[p] = "update" /\ op[p] # NoCall /\ op[p].kind = "update"
        /\ reply[p] = Pending /\ seen[p] = NoRow
        /\ op[p].id \in RowIds /\ op[p].patch \in Patch
    BY <1>9, <1>a, <1>b DEF Update, IInv, CallerOK, Shape
  <2>2. PICK id, row : id = op[p].id /\ row = Patched(Current(p), op[p].patch)
    OBVIOUS
  <2>3. /\ Live(db[id]) /\ db[id].version = op[p].expected /\ db[id] \in Row
        /\ db[id] \in past[id]
    BY <1>9, <2>1, <2>2 DEF Update, Matches, Current, Live, IInv, TypeOK, TableOK
  <2>4. row \in Row /\ row.version = db[id].version + 1 /\ row # NoRow
    BY <2>1, <2>2, <2>3, PatchedIsRow, ValuesAreDistinct DEF Current
  <2>5. Commit(id, row) /\ UNCHANGED <<cache, op>>
    BY <1>9, <2>2 DEF Update
  <2>6. past'[id] = past[id] \cup {row} /\ db' \in [RowIds -> Row \cup {NoRow}]
        /\ past' \in [RowIds -> SUBSET Row]
    BY <2>1, <2>2, <2>4, <2>5 DEF Commit, IInv, TypeOK
  <2>7. CASE Goto(p, "update", "evict") /\ seen' = [seen EXCEPT ![p] = row] /\ UNCHANGED reply
    <3>1. /\ Others(p) /\ pc'[p] = "evict" /\ seen'[p] = row /\ reply'[p] = Pending
          /\ op' = op /\ TypeOK'
      BY <2>1, <2>4, <2>5, <2>6, <2>7 DEF Goto, Others, IInv, TypeOK, PCs
    <3>2. Decided(p)' = Found(row)
      BY <3>1 DEF Decided
    <3>3. Shape(p)' /\ CopyOK(p)' /\ DeleteOK(p)'
      BY <2>1, <2>2, <2>4, <2>6, <3>1 DEF Shape, CopyOK, DeleteOK, Pending
    <3>4. WonOK(p)'
      <4>1. /\ Found(row).row = row /\ row \in past'[id] /\ db[id] \in past'[id]
            /\ row.version = op[p].expected + 1 /\ row = Patched(db[id], op[p].patch)
        BY <2>2, <2>3, <2>4, <2>6 DEF Found, Current
      <4> QED BY <2>2, <2>3, <3>1, <3>2, <4>1 DEF WonOK
    <3> QED BY <2>1, <2>2, <2>3, <2>4, <2>5, <3>1, <3>3, <3>4, CommitStep DEF CallerOK
  <2>8. CASE Finish(p, "update", Failed("ERROR"))
    <3>1. /\ Others(p) /\ pc'[p] = "done" /\ seen'[p] = NoRow
          /\ reply'[p] = Failed("ERROR") /\ op' = op /\ TypeOK'
      <4>1. Failed("ERROR") \in Reply
        BY DEF Reply, Failures
      <4> QED BY <2>5, <2>6, <2>8, <4>1, FinishFrame DEF IInv, TypeOK
    <3>2. Shape(p)' /\ CopyOK(p)' /\ DeleteOK(p)' /\ ~Won(p)' /\ WonOK(p)'
      BY <2>1, <3>1 DEF Shape, CopyOK, DeleteOK, Won, WonOK, Pending, Failed
    <3> QED BY <2>1, <2>2, <2>3, <2>4, <2>5, <3>1, <3>2, CommitStep DEF CallerOK
  <2> QED BY <1>9, <2>2, <2>7, <2>8 DEF Update
<1>10. ASSUME NEW p \in Callers, UpdateNothing(p) PROVE IInv'
  BY <1>10, FinishStep DEF UpdateNothing, Failed, Pending, Reply, Failures, PCs,
     IInv, TypeOK, CacheOK, Table
<1>11. ASSUME NEW p \in Callers, SoftDelete(p) PROVE IInv'
  <2>1. /\ pc[p] = "delete" /\ op[p] # NoCall /\ op[p].kind = "delete"
        /\ reply[p] = Pending /\ seen[p] = NoRow /\ op[p].id \in RowIds
    BY <1>11, <1>a, <1>b DEF SoftDelete, IInv, CallerOK, Shape
  <2>2. PICK id, row : id = op[p].id /\ row = Retired(Current(p))
    OBVIOUS
  <2>3. Live(db[id]) /\ db[id] \in Row
    BY <1>11, <2>1, <2>2 DEF SoftDelete, Current, Live, IInv, TypeOK
  <2>4. /\ row \in Row /\ row.version = db[id].version + 1 /\ row # NoRow
        /\ row.status = Deleted
    BY <2>2, <2>3, RetiredIsRow, ValuesAreDistinct DEF Current
  <2>5. Commit(id, row) /\ UNCHANGED <<cache, op>>
    BY <1>11, <2>2 DEF SoftDelete
  <2>6. /\ db'[id] = row /\ db' \in [RowIds -> Row \cup {NoRow}]
        /\ past' \in [RowIds -> SUBSET Row]
    BY <2>1, <2>2, <2>4, <2>5 DEF Commit, IInv, TypeOK
  <2>7. CASE Goto(p, "delete", "evict") /\ UNCHANGED <<seen, reply>>
    <3>1. Others(p) /\ pc'[p] = "evict" /\ op' = op /\ TypeOK'
      BY <2>5, <2>6, <2>7 DEF Goto, Others, IInv, TypeOK, PCs
    <3>2. Shape(p)' /\ CopyOK(p)' /\ DeleteOK(p)' /\ ~Won(p)' /\ WonOK(p)'
      BY <2>1, <2>2, <2>4, <2>6, <2>7, <3>1 DEF Shape, CopyOK, DeleteOK, Won, WonOK, Pending
    <3> QED BY <2>1, <2>2, <2>3, <2>4, <2>5, <3>1, <3>2, CommitStep DEF CallerOK
  <2>8. CASE Finish(p, "delete", Failed("ERROR"))
    <3>1. /\ Others(p) /\ pc'[p] = "done" /\ seen'[p] = NoRow
          /\ reply'[p] = Failed("ERROR") /\ op' = op /\ TypeOK'
      <4>1. Failed("ERROR") \in Reply
        BY DEF Reply, Failures
      <4> QED BY <2>5, <2>6, <2>8, <4>1, FinishFrame DEF IInv, TypeOK
    <3>2. Shape(p)' /\ CopyOK(p)' /\ DeleteOK(p)' /\ ~Won(p)' /\ WonOK(p)'
      BY <2>1, <3>1 DEF Shape, CopyOK, DeleteOK, Won, WonOK, Pending, Failed
    <3> QED BY <2>1, <2>2, <2>3, <2>4, <2>5, <3>1, <3>2, CommitStep DEF CallerOK
  <2> QED BY <1>11, <2>7, <2>8 DEF SoftDelete
<1>12. ASSUME NEW p \in Callers, SoftDeleteNothing(p) PROVE IInv'
  <2>1. /\ pc[p] = "delete" /\ pc'[p] = "exists" /\ ~Live(db[op[p].id])
        /\ UNCHANGED <<Table, cache, op, seen, reply>>
    BY <1>12 DEF SoftDeleteNothing, Goto, Current, IInv, TypeOK
  <2>2. Shape(p)' /\ CopyOK(p)' /\ WonOK(p)' /\ DeleteOK(p)' /\ (Won(p)' => Won(p))
    BY <2>1 DEF IInv, CallerOK, Shape, CopyOK, Won, WonOK, DeleteOK, Table, Live, Pending
  <2> QED BY <1>12, <2>2, MoveStep DEF SoftDeleteNothing, PCs
<1>13. ASSUME NEW p \in Callers, ExistsTrue(p) PROVE IInv'
  <2>1. /\ pc[p] = "exists" /\ pc'[p] = "evict" /\ db[op[p].id] # NoRow
        /\ UNCHANGED <<Table, cache, op, seen, reply>>
    BY <1>13 DEF ExistsTrue, Goto, Current, IInv, TypeOK
  <2>2. Shape(p)' /\ CopyOK(p)' /\ WonOK(p)' /\ DeleteOK(p)' /\ (Won(p)' => Won(p))
    BY <2>1 DEF IInv, CallerOK, Shape, CopyOK, Won, WonOK, DeleteOK, Table, Live, Pending
  <2> QED BY <1>13, <2>2, MoveStep DEF ExistsTrue, PCs
<1>14. ASSUME NEW p \in Callers, ExistsFalse(p) PROVE IInv'
  BY <1>14, FinishStep DEF ExistsFalse, Failed, Pending, Reply, Failures, PCs,
     IInv, TypeOK, CacheOK, Table
<1>15. ASSUME NEW p \in Callers, Evict(p) PROVE IInv'
  <2>1. pc[p] = "evict" /\ op[p] # NoCall /\ op[p].id \in RowIds
    BY <1>15, <1>a, <1>b DEF Evict, Finish, Goto
  <2>2. seen[p] \in past[op[p].id] \cup {NoRow} /\ seen[p] \in Row \cup {NoRow}
    BY <2>1 DEF IInv, CallerOK, CopyOK, TypeOK
  <2>3. cache' \in [RowIds -> Row \cup {NoRow}] /\ CacheOK'
    BY <1>15, <2>1 DEF Evict, IInv, TypeOK, CacheOK, Table
  <2> QED BY <1>15, <2>1, <2>2, <2>3, FinishStep DEF Evict, Found, Pending, Reply, PCs
<1>16. ASSUME NEW id \in RowIds, Expire(id) PROVE IInv'
  <2>1. TypeOK' /\ TableOK' /\ CacheOK' /\ UNCHANGED <<db, past, pc, op, seen, reply>>
    BY <1>16 DEF Expire, IInv, TypeOK, TableOK, CacheOK
  <2>2. \A p \in Callers : CallerOK(p)' /\ (Won(p)' <=> Won(p))
    BY <2>1 DEF IInv, CallerOK, Shape, CopyOK, Won, WonOK, DeleteOK, Live, Decided
  <2> QED BY <2>1, <2>2 DEF IInv, OneWinner
<1>17. CASE UNCHANGED vars
  BY <1>17 DEF vars, IInv, TypeOK, TableOK, CacheOK, CallerOK, Shape, CopyOK, Won, WonOK,
     DeleteOK, Live, Decided, OneWinner
<1> QED
  BY <1>1, <1>2, <1>3, <1>4, <1>5, <1>6, <1>7, <1>8, <1>9, <1>10, <1>11, <1>12, <1>13,
     <1>14, <1>15, <1>16, <1>17 DEF Next, Step

(* The inductive invariant holds throughout. *)
THEOREM InvariantHolds == Spec => []IInv
BY InitInv, NextInv, PTL DEF Spec

(* Type correctness. *)
THEOREM TypeCorrect == Spec => []TypeOK
BY InvariantHolds, PTL DEF IInv

(* The cache, a usecase's row in hand and a client's answer are all rows   *)
(* that were committed, and a version stands for one content.              *)
THEOREM CopiesCommitted == Spec => []CopiesAreCommitted
<1>1. IInv => CopiesAreCommitted
  BY DEF IInv, CopiesAreCommitted, TableOK, CacheOK, CallerOK, CopyOK
<1> QED BY <1>1, InvariantHolds, PTL

(* Optimistic locking: an acknowledged update started from the version its *)
(* client had read, and is the only one that did.                          *)
THEOREM UpdatesAreNotLost == Spec => []NoLostUpdate
<1>1. IInv => NoLostUpdate
  <2> SUFFICES ASSUME IInv, NEW p \in Callers, Acknowledged(p)
               PROVE  /\ reply[p].row.version = op[p].expected + 1
                      /\ \E r \in past[op[p].id] :
                           /\ r.version = op[p].expected
                           /\ reply[p].row = Patched(r, op[p].patch)
                      /\ \A q \in Callers \ {p} :
                           Acknowledged(q) /\ op[q].id = op[p].id
                             => op[q].expected # op[p].expected
    BY DEF NoLostUpdate
  <2>1. \A q \in Callers : Acknowledged(q) => Won(q)
    BY DEF Acknowledged, Won
  <2>2. pc[p] = "done" /\ Decided(p) = reply[p]
    BY DEF IInv, CallerOK, Shape, Acknowledged, Pending, Decided
  <2> QED BY <2>1, <2>2 DEF IInv, CallerOK, WonOK, OneWinner
<1> QED BY <1>1, InvariantHolds, PTL

(* A deletion that was acknowledged has taken effect and stays.            *)
THEOREM DeletesAreDone == Spec => []AcknowledgedDeleteIsDone
<1>1. IInv => AcknowledgedDeleteIsDone
  BY DEF IInv, AcknowledgedDeleteIsDone, CallerOK, DeleteOK
<1> QED BY <1>1, InvariantHolds, PTL

(* No statement changes a row that is deleted or creates one that is       *)
(* missing.                                                                *)
LEMMA GoneStays ==
  ASSUME IInv, [Next]_vars, NEW id \in RowIds, ~Live(db[id])
  PROVE  db'[id] = db[id]
<1>1. ASSUME NEW p \in Callers, Update(p) \/ SoftDelete(p)
      PROVE  db'[id] = db[id]
  <2>1. Live(db[op[p].id])
    BY <1>1 DEF Live, Update, Matches, SoftDelete, Current
  <2>2. \E row : db' = [db EXCEPT ![op[p].id] = row]
    BY <1>1 DEF Update, SoftDelete, Commit
  <2> QED BY <2>1, <2>2 DEF IInv, TypeOK
<1>2. CASE ~\E p \in Callers : Update(p) \/ SoftDelete(p)
  BY <1>2 DEF Next, Step, Accept, Deliver, StatementFails, CacheHit, CacheMiss,
     ReadRow, ReadNothing, Fill, UpdateNothing, SoftDeleteNothing, ExistsTrue,
     ExistsFalse, Evict, Expire, Table, vars
<1> QED BY <1>1, <1>2

(* A deleted row never changes again.                                      *)
THEOREM DeletionIsFinal == Spec => DeletedIsFinal
<1>1. ASSUME IInv, [Next]_vars
      PROVE  [\A id \in RowIds : db[id] # NoRow /\ db[id].status = Deleted
                => db'[id] = db[id]]_db
  BY <1>1, GoneStays DEF Live
<1> QED BY <1>1, InvariantHolds, PTL DEF Spec, DeletedIsFinal

(* NOT_FOUND is said of a driver who does not exist or was deleted: what a *)
(* statement found to be gone is gone for good.                            *)
THEOREM TheLivingAreFound == Spec => []NotFoundSparesTheLiving
<1>1. Init => NotFoundSparesTheLiving
  BY DEF Init, NotFoundSparesTheLiving, Pending
<1>2. ASSUME IInv, NotFoundSparesTheLiving, [Next]_vars, NEW q \in Callers,
             reply'[q].code = "NOT_FOUND"
      PROVE  Current(q)' = NoRow \/ (op'[q].kind = "delete" /\ Current(q)'.status = Deleted)
  <2>1. CASE reply'[q] = reply[q] /\ op'[q] = op[q]
    <3>1. op[q] # NoCall /\ op[q].id \in RowIds
      BY <1>2, <2>1, ProfileAssumption DEF IInv, TypeOK, CallerOK, Shape, Call, Pending
    <3>2. /\ ~Live(Current(q))
          /\ Current(q) = NoRow \/ (op[q].kind = "delete" /\ Current(q).status = Deleted)
      BY <1>2, <2>1 DEF NotFoundSparesTheLiving, Live
    <3> QED BY <1>2, <2>1, <3>1, <3>2, GoneStays DEF Current
  <2>2. CASE ReadNothing(q)
    BY <2>2 DEF ReadNothing, Current, Table
  <2>3. CASE ExistsFalse(q)
    <3>1. pc[q] = "exists" /\ UNCHANGED <<Table, op>>
      BY <2>3 DEF ExistsFalse, Finish, Goto
    <3>2. op[q].kind = "delete" /\ ~Live(db[op[q].id])
      BY <1>2, <3>1 DEF IInv, CallerOK, Shape, DeleteOK
    <3> QED BY <3>1, <3>2 DEF Current, Table, Live
  <2>4. CASE ~(ReadNothing(q) \/ ExistsFalse(q))
    <3>1. ASSUME NEW p \in Callers, NEW from, NEW answer, Finish(p, from, answer),
                 UNCHANGED op, p = q => answer.code # "NOT_FOUND"
          PROVE  reply'[q] = reply[q] /\ op'[q] = op[q]
      BY <1>2, <3>1 DEF Finish, IInv, TypeOK
    <3>2. ASSUME NEW p \in Callers, Step(p)
          PROVE  reply'[q] = reply[q] /\ op'[q] = op[q]
      <4>1. CASE CacheHit(p) \/ Fill(p) \/ Evict(p)
        BY <3>1, <4>1 DEF CacheHit, Fill, Evict, Found
      <4>2. CASE CacheMiss(p) \/ ReadRow(p) \/ SoftDeleteNothing(p) \/ ExistsTrue(p)
        BY <4>2 DEF CacheMiss, ReadRow, SoftDeleteNothing, ExistsTrue
      <4>3. CASE Update(p) \/ SoftDelete(p) \/ UpdateNothing(p) \/ StatementFails(p)
        BY <3>1, <4>3 DEF Update, SoftDelete, UpdateNothing, StatementFails, Failed
      <4>4. CASE ReadNothing(p) \/ ExistsFalse(p)
        BY <2>4, <3>1, <4>4 DEF ReadNothing, ExistsFalse
      <4> QED BY <3>2, <4>1, <4>2, <4>3, <4>4 DEF Step
    <3>3. ASSUME NEW p \in Callers, NEW call \in Calls, Accept(p, call)
          PROVE  reply'[q] = reply[q] /\ op'[q] = op[q]
      <4>1. p # q
        BY <1>2, <3>3 DEF Accept, Goto, IInv, CallerOK, Shape, Pending
      <4> QED BY <1>2, <3>3, <4>1 DEF Accept, IInv, TypeOK
    <3>4. ASSUME NEW p \in Callers, Deliver(p)
          PROVE  reply'[q] = reply[q] /\ op'[q] = op[q]
      <4>1. p # q
        BY <1>2, <3>4 DEF Deliver, IInv, TypeOK, Pending
      <4> QED BY <1>2, <3>4, <4>1 DEF Deliver, IInv, TypeOK
    <3>5. ASSUME (\E id \in RowIds : Expire(id)) \/ UNCHANGED vars
          PROVE  reply'[q] = reply[q] /\ op'[q] = op[q]
      BY <3>5 DEF Expire, vars
    <3> QED BY <1>2, <2>1, <3>2, <3>3, <3>4, <3>5 DEF Next
  <2> QED BY <2>2, <2>3, <2>4
<1>3. IInv /\ NotFoundSparesTheLiving /\ [Next]_vars => NotFoundSparesTheLiving'
  BY <1>2 DEF NotFoundSparesTheLiving
<1> QED BY <1>1, <1>3, InvariantHolds, PTL DEF Spec

\* What RedisFailsNobody says of a step.
FailsInPostgres ==
  \A p \in Callers : reply[p].code # "ERROR" /\ reply'[p].code = "ERROR"
    => pc[p] \in {"read", "update", "delete"}

(* No failure of Redis makes a call fail.                                  *)
THEOREM RedisIsOptional == Spec => RedisFailsNobody
<1>1. ASSUME IInv, [Next]_vars, NEW q \in Callers,
             reply[q].code # "ERROR", reply'[q].code = "ERROR"
      PROVE  pc[q] \in {"read", "update", "delete"}
  <2>1. ASSUME NEW p \in Callers, NEW from, NEW answer, Finish(p, from, answer),
               answer.code # "ERROR"
        PROVE  FALSE
    BY <1>1, <2>1 DEF Finish, IInv, TypeOK
  <2>2. CASE UNCHANGED reply
    BY <1>1, <2>2
  <2>3. ASSUME NEW p \in Callers, Deliver(p) PROVE FALSE
    BY <1>1, <2>3 DEF Deliver, IInv, TypeOK, Pending
  <2>4. ASSUME NEW p \in Callers, NEW from \in {"read", "update", "delete"}, NEW answer,
               Finish(p, from, answer)
        PROVE  pc[q] \in {"read", "update", "delete"}
    BY <1>1, <2>4 DEF Finish, Goto, IInv, TypeOK
  <2>5. ASSUME NEW p \in Callers, Step(p) PROVE pc[q] \in {"read", "update", "delete"}
    <3>1. CASE CacheHit(p) \/ ReadNothing(p) \/ Fill(p) \/ UpdateNothing(p) \/ ExistsFalse(p)
               \/ Evict(p)
      BY <3>1, <2>1 DEF CacheHit, ReadNothing, Fill, UpdateNothing, ExistsFalse, Evict,
         Found, Failed
    <3>2. CASE CacheMiss(p) \/ ReadRow(p) \/ SoftDeleteNothing(p) \/ ExistsTrue(p)
      BY <3>2, <2>2 DEF CacheMiss, ReadRow, SoftDeleteNothing, ExistsTrue
    <3>3. CASE Update(p) \/ SoftDelete(p)
      BY <3>3, <2>2, <2>4 DEF Update, SoftDelete
    <3>4. CASE StatementFails(p)
      BY <3>4, <2>4 DEF StatementFails
    <3> QED BY <2>5, <3>1, <3>2, <3>3, <3>4 DEF Step
  <2> QED BY <1>1, <2>2, <2>3, <2>5 DEF Next, Accept, Expire, vars
<1>2. IInv /\ [Next]_vars => [FailsInPostgres]_vars
  BY <1>1 DEF FailsInPostgres
<1> QED BY <1>2, InvariantHolds, PTL DEF Spec, RedisFailsNobody, FailsInPostgres

-----------------------------------------------------------------------------
(* The implementation of ProfileRegister. *)

\* Both modules read the same UserModel.
LEMMA SameModel ==
  /\ \A r : Register!Retired(r) = Retired(r)
  /\ \A r, patch : Register!Patched(r, patch) = Patched(r, patch)
  /\ \A r : Register!Found(r) = Found(r)
  /\ \A why : Register!Failed(why) = Failed(why)
  /\ Register!Pending = Pending /\ Register!Deleted = Deleted
  /\ \A S : Register!ScanOne(S) = ScanOne(S)
<1>1. \A r : Register!Retired(r) = Retired(r)
  BY DEF Register!Retired, Register!Deleted, Retired, Deleted
<1>2. \A r, patch : Register!Patched(r, patch) = Patched(r, patch)
  BY DEF Register!Patched, Register!Overlay, Patched, Overlay
<1>3. \A S : Register!ScanOne(S) = ScanOne(S)
  BY DEF Register!ScanOne, ScanOne
<1>4. /\ \A r : Register!Found(r) = Found(r)
      /\ \A why : Register!Failed(why) = Failed(why)
      /\ Register!Pending = Pending /\ Register!Deleted = Deleted
  BY DEF Register!Found, Register!Failed, Register!Pending, Register!Deleted,
     Found, Failed, Pending, Deleted
<1> QED BY <1>1, <1>2, <1>3, <1>4

\* A caller that reaches its answer answers the register's call.
LEMMA Answers ==
  ASSUME NEW p \in Callers, Others(p), NEW a, Decided(p)' = a, UNCHANGED op
  PROVE  Register!Answer(p, a)
<1>1. \A q \in Callers \ {p} : Decided(q)' = Decided(q)
  BY DEF Others, Decided
<1> QED BY <1>1 DEF Register!Answer

\* A step that decides nothing is invisible to the register.
LEMMA Invisible ==
  ASSUME NEW p \in Callers, Others(p), UNCHANGED <<Table, op>>, Decided(p)' = Decided(p)
  PROVE  UNCHANGED Register!vars
<1>1. \A q \in Callers : Decided(q)' = Decided(q)
  BY DEF Others, Decided
<1> QED BY <1>1 DEF Register!vars, Table

\* A call that is under way and undecided is one the register waits for.
LEMMA Waits ==
  ASSUME IInv, NEW p \in Callers, pc[p] \in {"lookup", "read", "update", "delete", "exists"}
  PROVE  /\ op[p] # NoCall /\ op[p] \in Call /\ op[p].id \in RowIds
         /\ Register!Waiting(p, op[p].kind)
         /\ [q \in Callers |-> Decided(q)][p] = Pending
<1>1. op[p] # NoCall /\ reply[p] = Pending
  BY DEF IInv, CallerOK, Shape
<1>2. op[p] \in Call /\ op[p].id \in RowIds
  BY <1>1, ProfileAssumption DEF IInv, TypeOK, Call
<1>3. [q \in Callers |-> Decided(q)][p] = Pending
  BY <1>1 DEF Decided
<1> QED BY <1>1, <1>2, <1>3, SameModel DEF Register!Waiting

(* Every step of ProfileCache is a step of the register or none: updates   *)
(* and deletions are atomic compare-and-sets at their UPDATE statement,    *)
(* reads return a state the profile went through, and no Redis failure,    *)
(* delay or expiry changes an answer that was decided.                     *)
THEOREM ImplementsRegisterSafely == Spec => Register!SafeSpec
<1>1. Init => Register!Init
  BY SameModel DEF Init, Register!Init, Decided
<1>2. IInv /\ [Next]_vars => [Register!Next]_(Register!vars)
  <2> SUFFICES ASSUME IInv, [Next]_vars PROVE [Register!Next]_(Register!vars)
    OBVIOUS
  <2>a. ASSUME NEW p \in Callers, NEW from, NEW answer, Finish(p, from, answer), UNCHANGED op
        PROVE  Others(p) /\ pc[p] = from /\ Decided(p)' = answer
    BY <2>a DEF IInv, TypeOK, Finish, Goto, Others, Decided
  <2>b. ASSUME NEW p \in Callers, NEW from, NEW to \in PCs \ {"fill", "evict"},
               from \notin {"fill", "evict"}, Goto(p, from, to), UNCHANGED <<op, reply, seen>>
        PROVE  Others(p) /\ pc[p] = from /\ Decided(p)' = Decided(p)
    BY <2>b DEF IInv, TypeOK, Goto, Others, Decided
  <2>1. ASSUME NEW p \in Callers, NEW call \in Calls, Accept(p, call)
        PROVE  Register!Ask(p, call)
    <3>1. call.kind \in {"get", "update", "delete"}
      BY ProfileAssumption DEF Call
    <3>2. FirstStep[call.kind] \in PCs \ {"fill", "evict"}
      BY <3>1 DEF FirstStep, PCs
    <3>3. op[p] = NoCall
      BY <2>1 DEF Accept, Goto, IInv, CallerOK, Shape
    <3>4. \A q \in Callers : Decided(q)' = Decided(q)
      BY <2>1, <3>2 DEF Accept, Goto, Decided, IInv, TypeOK
    <3> QED BY <2>1, <3>3, <3>4 DEF Accept, Register!Ask, Table
  <2>2. ASSUME NEW p \in Callers, Deliver(p) PROVE Register!Forget(p)
    <3>1. Decided(p) # Pending
      BY <2>2 DEF Deliver, Goto, Decided, IInv, CallerOK, Shape
    <3>2. Decided(p)' = Pending /\ \A q \in Callers \ {p} : Decided(q)' = Decided(q)
      BY <2>2 DEF Deliver, Goto, Decided, IInv, TypeOK
    <3>3. [q \in Callers |-> Decided(q)]' = [[q \in Callers |-> Decided(q)] EXCEPT ![p] = Pending]
      BY <3>2
    <3>4. op' = [op EXCEPT ![p] = NoCall] /\ UNCHANGED <<db, past>>
      BY <2>2 DEF Deliver, Table
    <3> QED BY <3>1, <3>3, <3>4, SameModel DEF Register!Forget
  <2>3. ASSUME NEW p \in Callers, StatementFails(p) PROVE Register!Fail(p)
    <3>1. PICK s \in {"read", "update", "delete"} : Finish(p, s, Failed("ERROR"))
      BY <2>3 DEF StatementFails
    <3>2. Others(p) /\ pc[p] = s /\ Decided(p)' = Failed("ERROR")
      BY <2>3, <3>1, <2>a DEF StatementFails
    <3> QED BY <2>3, <3>2, Waits, Answers, SameModel DEF StatementFails, Register!Fail, Table
  <2>4. ASSUME NEW p \in Callers, CacheHit(p) PROVE Register!Read(p)
    <3>1. PICK row : row = Cached(p)
      OBVIOUS
    <3>2. Others(p) /\ pc[p] = "lookup" /\ Decided(p)' = Found(row) /\ UNCHANGED <<Table, op>>
      BY <2>4, <3>1, <2>a DEF CacheHit
    <3>3. op[p].kind = "get" /\ row \in past[op[p].id]
      BY <2>4, <3>1, <3>2, Waits DEF CacheHit, Cached, IInv, CacheOK, CallerOK, Shape
    <3> QED BY <3>2, <3>3, Waits, Answers, SameModel DEF Register!Read, Table
  <2>5. ASSUME NEW p \in Callers, CacheMiss(p) PROVE UNCHANGED Register!vars
    BY <2>5, <2>b, Invisible DEF CacheMiss, PCs
  <2>6. ASSUME NEW p \in Callers, ReadRow(p) PROVE Register!Read(p)
    <3>1. PICK row : row = Current(p)
      OBVIOUS
    <3>2. /\ Others(p) /\ pc[p] = "read" /\ Decided(p)' = Found(row)
          /\ UNCHANGED <<Table, op>>
      BY <2>6, <3>1 DEF ReadRow, Goto, Others, Decided, IInv, TypeOK
    <3>3. op[p].kind = "get" /\ row \in past[op[p].id]
      BY <2>6, <3>1, <3>2, Waits DEF ReadRow, Current, IInv, TableOK, CallerOK, Shape
    <3> QED BY <3>2, <3>3, Waits, Answers, SameModel DEF Register!Read, Table
  <2>7. ASSUME NEW p \in Callers, ReadNothing(p) PROVE Register!Read(p)
    <3>1. Others(p) /\ pc[p] = "read" /\ Decided(p)' = Failed("NOT_FOUND")
      BY <2>7, <2>a DEF ReadNothing
    <3>2. op[p].kind = "get" /\ db[op[p].id] = NoRow
      BY <2>7, <3>1 DEF ReadNothing, Current, IInv, CallerOK, Shape
    <3> QED BY <2>7, <3>1, <3>2, Waits, Answers, SameModel DEF ReadNothing, Register!Read, Table
  <2>8. ASSUME NEW p \in Callers, Fill(p) \/ Evict(p) PROVE UNCHANGED Register!vars
    <3>1. PICK row : row = seen[p]
      OBVIOUS
    <3>2. Others(p) /\ pc[p] \in {"fill", "evict"} /\ Decided(p)' = Found(row)
      BY <2>8, <3>1, <2>a DEF Fill, Evict
    <3>3. Decided(p) = Found(row)
      BY <3>1, <3>2 DEF Decided
    <3> QED BY <2>8, <3>2, <3>3, Invisible DEF Fill, Evict
  <2>9. ASSUME NEW p \in Callers, Update(p) PROVE Register!Write(p)
    <3>1. PICK row : row = Patched(db[op[p].id], op[p].patch)
      OBVIOUS
    <3>2. pc[p] = "update" /\ op[p].kind = "update"
      BY <2>9 DEF Update, IInv, CallerOK, Shape
    <3>3. /\ Commit(op[p].id, row) /\ UNCHANGED op
          /\ Register!Live(op[p].id) /\ db[op[p].id].version = op[p].expected
      BY <2>9, <3>1, SameModel DEF Update, Matches, Current, Live, Register!Live
    <3>4. Others(p) /\ Decided(p)' \in {Found(row), Failed("ERROR")}
      <4>1. CASE Finish(p, "update", Failed("ERROR"))
        BY <4>1, <3>3, <2>a
      <4>2. CASE Goto(p, "update", "evict") /\ seen' = [seen EXCEPT ![p] = row]
                 /\ UNCHANGED reply
        BY <4>2, <3>3 DEF Goto, Others, Decided, IInv, TypeOK
      <4> QED BY <2>9, <3>1, <4>1, <4>2 DEF Update, Current
    <3>5. Register!Answer(p, Found(row)) \/ Register!Answer(p, Failed("ERROR"))
      BY <3>3, <3>4, Answers
    <3> QED BY <3>1, <3>2, <3>3, <3>5, Waits, SameModel DEF Register!Write, Register!Commit, Commit
  <2>10. ASSUME NEW p \in Callers, UpdateNothing(p) PROVE Register!Lose(p)
    <3>1. Others(p) /\ pc[p] = "update" /\ Decided(p)' = Failed("CONFLICT")
      BY <2>10, <2>a DEF UpdateNothing
    <3>2. /\ op[p].kind = "update"
          /\ ~(Register!Live(op[p].id) /\ db[op[p].id].version = op[p].expected)
      BY <2>10, <3>1, SameModel DEF UpdateNothing, Matches, Current, Live, Register!Live,
         IInv, CallerOK, Shape
    <3> QED BY <2>10, <3>1, <3>2, Waits, Answers, SameModel DEF UpdateNothing, Register!Lose, Table
  <2>11. ASSUME NEW p \in Callers, SoftDelete(p) PROVE Register!Retire(p)
    <3>1. pc[p] = "delete" /\ op[p].kind = "delete" /\ seen[p] = NoRow
      BY <2>11 DEF SoftDelete, IInv, CallerOK, Shape
    <3>2. /\ Commit(op[p].id, Retired(db[op[p].id])) /\ UNCHANGED op
          /\ Register!Live(op[p].id)
      BY <2>11, SameModel DEF SoftDelete, Current, Live, Register!Live
    <3>3. Others(p) /\ Decided(p)' \in {Found(NoRow), Failed("ERROR")}
      <4>1. CASE Finish(p, "delete", Failed("ERROR"))
        BY <4>1, <3>2, <2>a
      <4>2. CASE Goto(p, "delete", "evict") /\ UNCHANGED <<seen, reply>>
        BY <4>2, <3>1, <3>2 DEF Goto, Others, Decided, IInv, TypeOK
      <4> QED BY <2>11, <4>1, <4>2 DEF SoftDelete
    <3>4. Register!Answer(p, Found(NoRow)) \/ Register!Answer(p, Failed("ERROR"))
      BY <3>2, <3>3, Answers
    <3> QED BY <3>1, <3>2, <3>4, Waits, SameModel DEF Register!Retire, Register!Commit, Commit
  <2>12. ASSUME NEW p \in Callers, SoftDeleteNothing(p) PROVE UNCHANGED Register!vars
    BY <2>12, <2>b, Invisible DEF SoftDeleteNothing, PCs
  <2>13. ASSUME NEW p \in Callers, ExistsTrue(p) \/ ExistsFalse(p)
         PROVE  Register!RetireAgain(p)
    <3>1. /\ pc[p] = "exists" /\ op[p].kind = "delete" /\ seen[p] = NoRow
          /\ UNCHANGED <<Table, op>> /\ ~Register!Live(op[p].id)
      BY <2>13, SameModel DEF ExistsTrue, ExistsFalse, Finish, Goto, IInv, CallerOK, Shape,
         DeleteOK, Live, Register!Live
    <3>2. CASE ExistsTrue(p)
      <4>1. Others(p) /\ Decided(p)' = Found(NoRow) /\ db[op[p].id] # NoRow
        BY <3>1, <3>2 DEF ExistsTrue, Current, Goto, Others, Decided, IInv, TypeOK
      <4> QED BY <3>1, <4>1, Waits, Answers, SameModel DEF Register!RetireAgain, Table
    <3>3. CASE ExistsFalse(p)
      <4>1. Others(p) /\ Decided(p)' = Failed("NOT_FOUND")
        BY <3>3, <2>a DEF ExistsFalse
      <4> QED BY <3>1, <4>1, Waits, Answers, SameModel DEF Register!RetireAgain, Table
    <3> QED BY <2>13, <3>2, <3>3
  <2>14. ASSUME NEW id \in RowIds, Expire(id) PROVE UNCHANGED Register!vars
    BY <2>14 DEF Expire, Decided, Register!vars
  <2>15. CASE UNCHANGED vars
    BY <2>15 DEF vars, Decided, Register!vars
  <2> QED
    BY <2>1, <2>2, <2>3, <2>4, <2>5, <2>6, <2>7, <2>8, <2>9, <2>10, <2>11, <2>12, <2>13,
       <2>14, <2>15 DEF Next, Step, Register!Next, Register!Resolve
<1> QED BY <1>1, <1>2, InvariantHolds, PTL DEF Spec, Register!SafeSpec
=============================================================================
