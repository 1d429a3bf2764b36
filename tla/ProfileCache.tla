----------------------------- MODULE ProfileCache -----------------------------
(***************************************************************************)
(* The profile of a driver in Postgres and its copy in Redis: GetUserByID, *)
(* UpdateUser and DeleteUser (internal/user/usecase), each a sequence of   *)
(* Redis commands and SQL statements with nothing holding them together.   *)
(* A write commits and then deletes the cache key; a read that missed      *)
(* reads the row and then sets the key.                                    *)
(*                                                                         *)
(* The calls are valid ones: validation comes before any statement and     *)
(* changes nothing, and its refusal is the subject of RpcServer.           *)
(*                                                                         *)
(* With DbMayFail a statement may fail, or commit and lose its reply; with *)
(* RedisMayFail a Redis command may fail, which every usecase ignores.     *)
(* Without the cache (a nil Collections) the system behaves as with a      *)
(* Redis that fails every command, so that wiring needs no case.           *)
(***************************************************************************)
EXTENDS UserModel

CONSTANTS Callers,        \* goroutines serving requests
          Calls,          \* the calls they may serve
          NoCall,
          Profiles,       \* the rows registered at the start
          DbMayFail, RedisMayFail

Call == [kind: {"get", "update", "delete"}, id: RowIds, patch: Patch, expected: Nat]

ASSUME ProfileAssumption ==
  /\ Calls \subseteq Call /\ NoCall \notin Call
  /\ Profiles \subseteq {r \in Row : r.version = 1 /\ r.status = Active}
  /\ \A r, s \in Profiles : r.id = s.id => r = s
  /\ DbMayFail \in BOOLEAN /\ RedisMayFail \in BOOLEAN

VARIABLES db,      \* user_profile: id -> its row, or NoRow
          cache,   \* Redis: the value of key user:<id>, or NoRow
          pc,      \* caller -> the command or statement it is about to run
          op,      \* caller -> the call it serves
          seen,    \* caller -> the row its last statement returned
          reply,   \* caller -> what the usecase returned
          past     \* history: id -> every row that was ever current

vars == <<db, cache, pc, op, seen, reply, past>>

PCs == {"idle", "lookup", "read", "fill", "update", "delete", "exists", "evict", "done"}

Failures == {"NOT_FOUND", "CONFLICT", "ERROR"}
Reply == {Pending} \cup [code: {"OK"}, row: Row \cup {NoRow}]
                   \cup {Failed(why) : why \in Failures}

TypeOK ==
  /\ db \in [RowIds -> Row \cup {NoRow}]
  /\ cache \in [RowIds -> Row \cup {NoRow}]
  /\ pc \in [Callers -> PCs]
  /\ op \in [Callers -> Calls \cup {NoCall}]
  /\ seen \in [Callers -> Row \cup {NoRow}]
  /\ reply \in [Callers -> Reply]
  /\ past \in [RowIds -> SUBSET Row]

Init ==
  /\ db = [id \in RowIds |-> ScanOne({r \in Profiles : r.id = id})]
  /\ past = [id \in RowIds |-> {r \in Profiles : r.id = id}]
  /\ cache = [id \in RowIds |-> NoRow]
  /\ pc = [p \in Callers |-> "idle"]
  /\ op = [p \in Callers |-> NoCall]
  /\ seen = [p \in Callers |-> NoRow]
  /\ reply = [p \in Callers |-> Pending]

-----------------------------------------------------------------------------
Goto(p, from, to) == pc[p] = from /\ pc' = [pc EXCEPT ![p] = to]

Finish(p, from, answer) ==
  /\ Goto(p, from, "done")
  /\ reply' = [reply EXCEPT ![p] = answer]
  /\ seen' = [seen EXCEPT ![p] = NoRow]

\* The row p's call is about, as it is in the table and in Redis.
Current(p) == db[op[p].id]
Cached(p)  == cache[op[p].id]

\* WHERE ... status != 'DELETED'
Live(row) == row # NoRow /\ row.status # Deleted

Commit(id, row) ==
  /\ db' = [db EXCEPT ![id] = row]
  /\ past' = [past EXCEPT ![id] = @ \cup {row}]

Table == <<db, past>>

FirstStep == [get |-> "lookup", update |-> "update", delete |-> "delete"]

Accept(p, call) ==
  /\ Goto(p, "idle", FirstStep[call.kind])
  /\ op' = [op EXCEPT ![p] = call]
  /\ UNCHANGED <<Table, cache, seen, reply>>

Deliver(p) ==
  /\ Goto(p, "done", "idle")
  /\ op' = [op EXCEPT ![p] = NoCall]
  /\ reply' = [reply EXCEPT ![p] = Pending]
  /\ UNCHANGED <<Table, cache, seen>>

\* A statement of p fails without effect.
StatementFails(p) ==
  /\ DbMayFail
  /\ \E s \in {"read", "update", "delete"} : Finish(p, s, Failed("ERROR"))
  /\ UNCHANGED <<Table, cache, op>>

-----------------------------------------------------------------------------
(* GetUserByID *)

CacheHit(p) ==
  /\ pc[p] = "lookup" /\ Cached(p) # NoRow
  /\ Finish(p, "lookup", Found(Cached(p)))
  /\ UNCHANGED <<Table, cache, op>>

CacheMiss(p) ==
  /\ Goto(p, "lookup", "read")
  /\ Cached(p) = NoRow \/ RedisMayFail
  /\ UNCHANGED <<Table, cache, op, seen, reply>>

ReadRow(p) ==
  /\ Goto(p, "read", "fill")
  /\ Current(p) # NoRow
  /\ seen' = [seen EXCEPT ![p] = Current(p)]
  /\ UNCHANGED <<Table, cache, op, reply>>

\* Mutant: the SELECT leaves deleted drivers out.
ReadNothingLive(p) ==
  /\ pc[p] = "read" /\ ~Live(Current(p))
  /\ Finish(p, "read", Failed("NOT_FOUND"))
  /\ UNCHANGED <<Table, cache, op>>

ReadNothing(p) ==
  /\ pc[p] = "read" /\ Current(p) = NoRow
  /\ Finish(p, "read", Failed("NOT_FOUND"))
  /\ UNCHANGED <<Table, cache, op>>

\* The SET, with the row as it was read; its error is dropped.
Fill(p) ==
  /\ Finish(p, "fill", Found(seen[p]))
  /\ \/ cache' = [cache EXCEPT ![op[p].id] = seen[p]]
     \/ RedisMayFail /\ UNCHANGED cache
  /\ UNCHANGED <<Table, op>>

-----------------------------------------------------------------------------
(* UpdateUser *)

\* Mutant: WHERE id = $4 AND status != 'DELETED'
MatchesAnyVersion(p) == Live(Current(p))

\* WHERE id = $4 AND version = $6 AND status != 'DELETED'
Matches(p) == Live(Current(p)) /\ Current(p).version = op[p].expected

Update(p) ==
  /\ pc[p] = "update" /\ Matches(p)
  /\ LET row == Patched(Current(p), op[p].patch)
     IN  /\ Commit(op[p].id, row)
         /\ \/ /\ Goto(p, "update", "evict")
               /\ seen' = [seen EXCEPT ![p] = row]
               /\ UNCHANGED reply
            \/ DbMayFail /\ Finish(p, "update", Failed("ERROR"))
  /\ UNCHANGED <<cache, op>>

\* Mutant: no row updated is taken for success.
UpdateNothingSucceeds(p) ==
  /\ pc[p] = "update" /\ ~Matches(p)
  /\ Finish(p, "update", Found(Current(p)))
  /\ UNCHANGED <<Table, cache, op>>

\* No row updated: stale, deleted and missing are all ErrConflict.
UpdateNothing(p) ==
  /\ pc[p] = "update" /\ ~Matches(p)
  /\ Finish(p, "update", Failed("CONFLICT"))
  /\ UNCHANGED <<Table, cache, op>>

-----------------------------------------------------------------------------
(* DeleteUser *)

SoftDelete(p) ==
  /\ pc[p] = "delete" /\ Live(Current(p))
  /\ Commit(op[p].id, Retired(Current(p)))
  /\ \/ Goto(p, "delete", "evict") /\ UNCHANGED <<seen, reply>>
     \/ DbMayFail /\ Finish(p, "delete", Failed("ERROR"))
  /\ UNCHANGED <<cache, op>>

\* Mutant: n = 0 is success, whether or not there is a row.
SoftDeleteSucceeds(p) ==
  /\ Goto(p, "delete", "evict")
  /\ ~Live(Current(p))
  /\ UNCHANGED <<Table, cache, op, seen, reply>>

\* n = 0: one more statement tells a deleted row from a missing one.
SoftDeleteNothing(p) ==
  /\ Goto(p, "delete", "exists")
  /\ ~Live(Current(p))
  /\ UNCHANGED <<Table, cache, op, seen, reply>>

ExistsTrue(p) ==
  /\ Goto(p, "exists", "evict")
  /\ Current(p) # NoRow
  /\ UNCHANGED <<Table, cache, op, seen, reply>>

\* exists is false: there is no row, or the query failed and left it unset.
ExistsFalse(p) ==
  /\ pc[p] = "exists" /\ (Current(p) = NoRow \/ DbMayFail)
  /\ Finish(p, "exists", Failed("NOT_FOUND"))
  /\ UNCHANGED <<Table, cache, op>>

-----------------------------------------------------------------------------
\* The DEL that ends UpdateUser and DeleteUser; its error is dropped.
Evict(p) ==
  /\ Finish(p, "evict", Found(seen[p]))
  /\ \/ cache' = [cache EXCEPT ![op[p].id] = NoRow]
     \/ RedisMayFail /\ UNCHANGED cache
  /\ UNCHANGED <<Table, op>>

\* Mutant: the SET carries no TTL.
NeverExpires(id) == FALSE /\ UNCHANGED vars

\* userCacheTTL runs out (or Redis evicts the key).
Expire(id) ==
  /\ cache[id] # NoRow
  /\ cache' = [cache EXCEPT ![id] = NoRow]
  /\ UNCHANGED <<db, past, pc, op, seen, reply>>

-----------------------------------------------------------------------------
Step(p) ==
  \/ CacheHit(p) \/ CacheMiss(p) \/ ReadRow(p) \/ ReadNothing(p) \/ Fill(p)
  \/ Update(p) \/ UpdateNothing(p)
  \/ SoftDelete(p) \/ SoftDeleteNothing(p) \/ ExistsTrue(p) \/ ExistsFalse(p)
  \/ Evict(p)
  \/ StatementFails(p)

Next ==
  \/ \E p \in Callers : \/ \E call \in Calls : Accept(p, call)
                        \/ Step(p)
                        \/ Deliver(p)
  \/ \E id \in RowIds : Expire(id)

(* A command that was started ends, by its result, an error or the         *)
(* timeouts of go-redis, and a statement by its result or an error, which  *)
(* is an assumption about Postgres and the network: lib/pq does not stop   *)
(* reading at a deadline.  A key that was set with a TTL expires.          *)
Fairness == /\ \A p \in Callers : WF_vars(Step(p))
            /\ \A id \in RowIds : WF_vars(Expire(id))

Spec == Init /\ [][Next]_vars /\ Fairness

-----------------------------------------------------------------------------
(* Whatever Redis holds, a usecase carries or a client was told is a row   *)
(* that was once committed, and a version number names one content: no     *)
(* copy is torn, invented or ahead of the table.                           *)
CopiesAreCommitted ==
  \A id \in RowIds :
    /\ cache[id] \in past[id] \cup {NoRow}
    /\ \A p \in Callers : op[p] # NoCall /\ op[p].id = id =>
         /\ seen[p] \in past[id] \cup {NoRow}
         /\ reply[p].row \in past[id] \cup {NoRow}
    /\ \A r, s \in past[id] : r.version = s.version => r = s
    /\ \A r \in past[id] : r.version <= db[id].version

(* No lost update: an update that was acknowledged was applied on top of   *)
(* exactly the version its client had read, and no two acknowledged        *)
(* updates of a driver started from the same version.                      *)
Acknowledged(p) ==
  op[p] # NoCall /\ op[p].kind = "update" /\ reply[p].code = "OK"

NoLostUpdate ==
  \A p \in Callers : Acknowledged(p) =>
    /\ reply[p].row.version = op[p].expected + 1
    /\ \E r \in past[op[p].id] :
         r.version = op[p].expected /\ reply[p].row = Patched(r, op[p].patch)
    /\ \A q \in Callers \ {p} : Acknowledged(q) /\ op[q].id = op[p].id
                                  => op[q].expected # op[p].expected

(* A deletion that was acknowledged has taken effect for good, whoever     *)
(* made it: the first call and every retry.                                *)
AcknowledgedDeleteIsDone ==
  \A p \in Callers :
    op[p] # NoCall /\ op[p].kind = "delete" /\ reply[p].code = "OK"
      => db[op[p].id] # NoRow /\ db[op[p].id].status = Deleted

(* A deleted row never changes again, neither by an update that read it    *)
(* before it was deleted nor by a second deletion.                         *)
DeletedIsFinal ==
  [][\A id \in RowIds : db[id] # NoRow /\ db[id].status = Deleted
       => db'[id] = db[id]]_db

(* NOT_FOUND is never said of a driver who is there: only of an id that    *)
(* does not exist or, when the EXISTS query failed, to one who deletes a   *)
(* driver that was deleted before.                                         *)
NotFoundSparesTheLiving ==
  \A p \in Callers : reply[p].code = "NOT_FOUND" =>
    Current(p) = NoRow \/ (op[p].kind = "delete" /\ Current(p).status = Deleted)

(* Redis alone never fails a call: only a statement of Postgres ever turns *)
(* a call into an error, whatever the GET, SET or DEL before or after it   *)
(* came to.                                                                *)
RedisFailsNobody ==
  [][\A p \in Callers : reply[p].code # "ERROR" /\ reply'[p].code = "ERROR"
       => pc[p] \in {"read", "update", "delete"}]_vars

(* Staleness is bounded by the TTL: when the table stops changing, the     *)
(* cache ends up empty or up to date, although a reader may set an old row *)
(* after the DEL of the write it missed, and although a DEL may be lost.   *)
EventuallyFresh ==
  \/ []<><<db' # db>>_db
  \/ <>[](\A id \in RowIds : cache[id] \in {NoRow, db[id]})

(* The implementation of the register: an update or a deletion takes       *)
(* effect at its UPDATE, a read at its GET or its SELECT; the Redis        *)
(* commands that follow change no answer.                                  *)
Decided(p) == IF pc[p] \in {"fill", "evict"} THEN Found(seen[p]) ELSE reply[p]

Register == INSTANCE ProfileRegister WITH
  answer <- [p \in Callers |-> Decided(p)]

ImplementsRegister == Register!Spec

-----------------------------------------------------------------------------
(* What a document says beyond that. *)

(* After UpdateUser, the next GetUserByID returns the new value: with no   *)
(* call under way the cache holds no old row.                              *)
NextReadIsFresh ==
  (\A p \in Callers : pc[p] = "idle")
    => \A id \in RowIds : cache[id] \in {NoRow, db[id]}
=============================================================================
