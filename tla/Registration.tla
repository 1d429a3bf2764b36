----------------------------- MODULE Registration -----------------------------
(***************************************************************************)
(* CreateUser (usecase/create_user.go) and UpsertDriver, that is           *)
(* GetOrCreateByMSISDN (repository/postgres/upsert.go): concurrent callers *)
(* each running SELECT, INSERT, and SELECT again when the INSERT lost the  *)
(* race, over one user_profile table.  Every statement is one atomic step; *)
(* nothing spans two of them (no transaction is opened).  A statement may  *)
(* fail, and an INSERT may commit and its caller still see an error.       *)
(***************************************************************************)
EXTENDS UserModel

CONSTANTS Callers,     \* goroutines serving requests
          Requests,    \* the requests callers make
          NoRequest,
          MaxVersion   \* bound: edits stop at this version

ASSUME RegistrationAssumption ==
  /\ Requests \subseteq Request /\ NoRequest \notin Request
  /\ MaxVersion \in Nat \ {0}

VARIABLES rows,    \* the user_profile table, a set of rows
          pc,      \* caller -> the statement it is about to run
          req,     \* caller -> the request it serves
          reply    \* caller -> what the usecase returned

vars == <<rows, pc, req, reply>>

Failures == {"VALIDATION", "CONFLICT", "NOT_FOUND", "ERROR"}
Reply    == {Pending} \cup [code: {"OK"}, row: Row] \cup {Failed(why) : why \in Failures}

PCs     == {"idle", "select", "insert", "reselect", "done"}
Running == {"select", "insert", "reselect"}

Goto(p, from, to) == pc[p] = from /\ pc' = [pc EXCEPT ![p] = to]

Finish(p, from, answer) ==
  /\ Goto(p, from, "done")
  /\ reply' = [reply EXCEPT ![p] = answer]

\* SELECT ... WHERE external_user_id = ext.
Matching(ext) == {r \in rows : r.ext = ext}

GetByExternalID(ext) ==
  IF Matching(ext) = {} THEN Failed("NOT_FOUND") ELSE Found(ScanOne(Matching(ext)))

\* Mutant: the table has no unique index.
NoIndex(ext) == FALSE

\* UNIQUE (external_user_id), which raises 23505.
Duplicate(ext) == Matching(ext) # {}

\* gen_random_uuid()
FreshIds == RowIds \ {r.id : r \in rows}

TypeOK ==
  /\ rows \subseteq Row
  /\ pc \in [Callers -> PCs]
  /\ req \in [Callers -> Requests \cup {NoRequest}]
  /\ reply \in [Callers -> Reply]

Init ==
  /\ rows = {}
  /\ pc = [p \in Callers |-> "idle"]
  /\ req = [p \in Callers |-> NoRequest]
  /\ reply = [p \in Callers |-> Pending]

-----------------------------------------------------------------------------
(* The request arrives and is validated before any statement runs. *)

Accept(p, r) ==
  /\ Valid(r)
  /\ Goto(p, "idle", "select")
  /\ req' = [req EXCEPT ![p] = r]
  /\ UNCHANGED <<rows, reply>>

Reject(p, r) ==
  /\ ~Valid(r)
  /\ Finish(p, "idle", Failed("VALIDATION"))
  /\ req' = [req EXCEPT ![p] = r]
  /\ UNCHANGED rows

(* The first SELECT: a hit is returned as it is, a miss goes on. *)

SelectHit(p) ==
  /\ pc[p] = "select" /\ Matching(req[p].ext) # {}
  /\ Finish(p, "select", GetByExternalID(req[p].ext))
  /\ UNCHANGED <<rows, req>>

SelectMiss(p) ==
  /\ Goto(p, "select", "insert")
  /\ Matching(req[p].ext) = {}
  /\ UNCHANGED <<rows, req, reply>>

(* The INSERT: refused by the unique index, or committed; when it is       *)
(* committed the reply may still be lost with the connection.              *)

\* Mutant: the violation is reported instead of being read again.
ConflictSurfaces(p) ==
  /\ Finish(p, "insert", Failed("CONFLICT"))
  /\ Duplicate(req[p].ext)
  /\ UNCHANGED <<rows, req>>

InsertConflict(p) ==
  /\ Goto(p, "insert", "reselect")
  /\ Duplicate(req[p].ext)
  /\ UNCHANGED <<rows, req, reply>>

\* Mutant: the answer does not wait for the commit, which is lost.
InsertUncommitted(p, id) ==
  /\ ~Duplicate(req[p].ext)
  /\ Finish(p, "insert", Found(NewRow(req[p], id)))
  /\ UNCHANGED <<rows, req>>

Insert(p, id) ==
  /\ pc[p] = "insert" /\ ~Duplicate(req[p].ext)
  /\ rows' = rows \cup {NewRow(req[p], id)}
  /\ \/ Finish(p, "insert", Found(NewRow(req[p], id)))
     \/ Finish(p, "insert", Failed("ERROR"))
  /\ UNCHANGED req

(* The SELECT of the loser. *)

Reselect(p) ==
  /\ Finish(p, "reselect", GetByExternalID(req[p].ext))
  /\ UNCHANGED <<rows, req>>

(* A statement that fails: connection, cancellation, deadline. *)

StatementFails(p) ==
  /\ \E s \in Running : Finish(p, s, Failed("ERROR"))
  /\ UNCHANGED <<rows, req>>

(* The caller reads its answer; it may come back with any request. *)

Deliver(p) ==
  /\ Goto(p, "done", "idle")
  /\ req' = [req EXCEPT ![p] = NoRequest]
  /\ reply' = [reply EXCEPT ![p] = Pending]
  /\ UNCHANGED rows

-----------------------------------------------------------------------------
(* The UPDATE statements of the other RPCs, UpdateUser and DeleteUser. *)

Replace(r, new) == rows' = (rows \ {r}) \cup {new} /\ UNCHANGED <<pc, req, reply>>

UpdateRow(r, patch) ==
  /\ r.status # Deleted /\ r.version < MaxVersion
  /\ Replace(r, Patched(r, patch))

SoftDeleteRow(r) == r.status # Deleted /\ Replace(r, Retired(r))

-----------------------------------------------------------------------------
Statement(p) ==
  \/ SelectHit(p) \/ SelectMiss(p)
  \/ InsertConflict(p) \/ \E id \in FreshIds : Insert(p, id)
  \/ Reselect(p)
  \/ StatementFails(p)

OtherWrites ==
  \E r \in rows : SoftDeleteRow(r) \/ \E patch \in Patch : UpdateRow(r, patch)

Next ==
  \/ \E p \in Callers : \/ \E r \in Requests : Accept(p, r) \/ Reject(p, r)
                        \/ Statement(p)
                        \/ Deliver(p)
  \/ OtherWrites

(* A statement that was started ends, with a result or with an error: an   *)
(* assumption about Postgres, which answers or cancels it, or the network, *)
(* which gives the connection up.  lib/pq does not stop reading when a     *)
(* context ends, so no deadline does this.  Nothing makes a caller call,   *)
(* or the other RPCs write.                                                *)
Fairness == \A p \in Callers : WF_vars(Statement(p))

Spec == Init /\ [][Next]_vars /\ Fairness

-----------------------------------------------------------------------------
(* Every driver has one profile, whichever mixture of CreateUser and       *)
(* UpsertDriver races to create it, and no generated id is shared.         *)
OneProfilePerDriver ==
  \A r, s \in rows : r.ext = s.ext \/ r.id = s.id => r = s

(* A profile that was handed out is the caller's own and stays on record:  *)
(* the table still holds that id for that identity, at the same version    *)
(* with the same content or at a later one.                                *)
AnsweredProfileIsOnRecord ==
  \A p \in Callers : reply[p].code = "OK" =>
    /\ reply[p].row.ext = req[p].ext
    /\ \E r \in rows : /\ r.id = reply[p].row.id /\ r.ext = reply[p].row.ext
                       /\ r.version >= reply[p].row.version
                       /\ r.version = reply[p].row.version => r = reply[p].row

(* Racing callers of one driver are all told the same id.                  *)
RacersAgree ==
  \A p, q \in Callers :
    reply[p].code = "OK" /\ reply[q].code = "OK" /\ req[p].ext = req[q].ext
      => reply[p].row.id = reply[q].row.id

(* A lost race is never reported: the conflict is answered by the second   *)
(* SELECT, which always finds the winner because rows are never removed.   *)
LostRaceIsHidden ==
  \A p \in Callers : reply[p].code \notin {"CONFLICT", "NOT_FOUND"}

(* A caller that was answered OK did not disturb a profile: only the other *)
(* RPCs change a row that exists, so a deleted driver who signs in again   *)
(* is neither revived nor edited.                                          *)
RegistrationOnlyAdds ==
  [][(\E p \in Callers : pc'[p] # pc[p]) => rows \subseteq rows']_vars

(* Registration implements the atomic directory: a hit takes effect at the *)
(* first SELECT, a creation at the INSERT, a lost race at the second       *)
(* SELECT.  The mapping reads the table as a function of the identity.     *)
RowOf(ext) == ScanOne(Matching(ext))

Directory == INSTANCE DriverDirectory WITH
  dir    <- [e \in ExtIds |-> RowOf(e)],
  asked  <- req,
  answer <- reply

ImplementsDirectory == Directory!Spec
=============================================================================
