--------------------------- MODULE ProfileRegister ---------------------------
(***************************************************************************)
(* What the profile RPCs promise: one versioned register per driver.  An   *)
(* update is a compare-and-set on the version and a deletion is terminal,  *)
(* each taking effect in one step between call and answer.  A read is only *)
(* promised some state the profile went through, not the latest.  Any call *)
(* may end in an error, with its effect or without it.                     *)
(***************************************************************************)
EXTENDS UserModel

CONSTANTS Callers, Calls, NoCall,
          Profiles    \* the rows there are at the start

VARIABLES db,      \* id -> the current row, or NoRow
          past,    \* id -> the rows that were ever current
          op,      \* caller -> its call
          answer   \* caller -> its answer, Pending until the call took effect

vars == <<db, past, op, answer>>

Init ==
  /\ db = [id \in RowIds |-> ScanOne({r \in Profiles : r.id = id})]
  /\ past = [id \in RowIds |-> {r \in Profiles : r.id = id}]
  /\ op = [p \in Callers |-> NoCall]
  /\ answer = [p \in Callers |-> Pending]

Live(id) == db[id] # NoRow /\ db[id].status # Deleted

Commit(id, row) ==
  /\ db' = [db EXCEPT ![id] = row]
  /\ past' = [past EXCEPT ![id] = @ \cup {row}]

Ask(p, call) ==
  /\ op[p] = NoCall
  /\ op' = [op EXCEPT ![p] = call]
  /\ UNCHANGED <<db, past, answer>>

Waiting(p, kind) == op[p] # NoCall /\ op[p].kind = kind /\ answer[p] = Pending

Answer(p, a) == answer' = [answer EXCEPT ![p] = a] /\ UNCHANGED op

Read(p) ==
  /\ Waiting(p, "get")
  /\ \/ \E row \in past[op[p].id] : Answer(p, Found(row))
     \/ db[op[p].id] = NoRow /\ Answer(p, Failed("NOT_FOUND"))
  /\ UNCHANGED <<db, past>>

Write(p) ==
  /\ Waiting(p, "update")
  /\ Live(op[p].id) /\ db[op[p].id].version = op[p].expected
  /\ LET row == Patched(db[op[p].id], op[p].patch)
     IN  /\ Commit(op[p].id, row)
         /\ Answer(p, Found(row)) \/ Answer(p, Failed("ERROR"))

Lose(p) ==
  /\ Waiting(p, "update")
  /\ ~(Live(op[p].id) /\ db[op[p].id].version = op[p].expected)
  /\ Answer(p, Failed("CONFLICT"))
  /\ UNCHANGED <<db, past>>

Retire(p) ==
  /\ Waiting(p, "delete") /\ Live(op[p].id)
  /\ Commit(op[p].id, Retired(db[op[p].id]))
  /\ Answer(p, Found(NoRow)) \/ Answer(p, Failed("ERROR"))

\* The driver is gone already or was never there; a repeated deletion is
\* allowed to say either.
RetireAgain(p) ==
  /\ Waiting(p, "delete") /\ ~Live(op[p].id)
  /\ \/ db[op[p].id] # NoRow /\ Answer(p, Found(NoRow))
     \/ Answer(p, Failed("NOT_FOUND"))
  /\ UNCHANGED <<db, past>>

Fail(p) ==
  /\ op[p] # NoCall /\ answer[p] = Pending
  /\ Answer(p, Failed("ERROR"))
  /\ UNCHANGED <<db, past>>

Forget(p) ==
  /\ answer[p] # Pending
  /\ op' = [op EXCEPT ![p] = NoCall]
  /\ answer' = [answer EXCEPT ![p] = Pending]
  /\ UNCHANGED <<db, past>>

Resolve(p) == Read(p) \/ Write(p) \/ Lose(p) \/ Retire(p) \/ RetireAgain(p) \/ Fail(p)

Next == \E p \in Callers : \/ \E call \in Calls : Ask(p, call)
                           \/ Resolve(p)
                           \/ Forget(p)

Fairness == \A p \in Callers : WF_vars(Resolve(p))

\* Spec without its fairness.
SafeSpec == Init /\ [][Next]_vars

Spec == SafeSpec /\ Fairness
=============================================================================
