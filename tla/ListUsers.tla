------------------------------- MODULE ListUsers -------------------------------
(***************************************************************************)
(* ListUsers (repository/postgres/list_users.go): a page is one SELECT     *)
(* ordered by created_at, its total a second SELECT, and no snapshot spans *)
(* the two, or two pages.  A client walks through all pages while drivers  *)
(* register and are deleted.                                               *)
(*                                                                         *)
(* A driver is ACTIVE or DELETED: no statement writes SUSPENDED.           *)
(***************************************************************************)
EXTENDS Integers, FiniteSets, Sequences, SequencesExt

CONSTANTS Users,         \* ids of user_profile
          Registered,    \* those registered at the start, oldest first
          Limits,        \* the limits a client may ask for
          Filters,       \* the numbers it may send as status_filter
          DefaultListLimit, MaxListLimit,
          MaxTime        \* bound: the clock stops here

ASSUME ListUsersAssumption ==
  /\ Registered \in Seq(Users) /\ IsInjective(Registered)
  /\ Limits \subseteq Int /\ Filters \subseteq Int
  /\ MaxListLimit \in Nat /\ DefaultListLimit \in 1..MaxListLimit
  /\ MaxTime \in Nat /\ MaxTime >= Len(Registered)

VARIABLES created,   \* user -> created_at, 0 when it is not registered
          deleted,   \* the users whose status is DELETED
          now,       \* the clock of the database
          walk,        \* the client: "idle", before a "select" or "count", "done"
          limit,     \* the limit it asked for
          filter,    \* the status_filter it sends
          offset,    \* the offset of the page under way
          page,      \* the users scanned for it
          total,     \* the total it was last told
          got,       \* the users it was told of
          due,       \* history: the users listed when the walk began
          events     \* history: what happened during the walk

table == <<created, deleted, now>>
asked == <<limit, filter>>
walkVars  == <<created, deleted, now, walk, limit, filter, offset, page, total, got, due,
          events>>

Events == {"registered", "deleted", "broken", "tie", "repeated", "grew", "shrank"}

WalkTypeOK ==
  /\ created \in [Users -> 0..MaxTime] /\ deleted \subseteq Users /\ now \in 0..MaxTime
  /\ walk \in {"idle", "select", "count", "done"}
  /\ limit \in Limits /\ filter \in Filters /\ offset \in Nat /\ total \in Nat
  /\ page \in BoundedSeq(Users, MaxListLimit)
  /\ got \subseteq Users /\ due \subseteq Users /\ events \subseteq Events

\* One instant after the other; 0 for a user of no place in the sequence.
Place(u) == SelectInSeq(Registered, LAMBDA x : x = u)

WalkInit ==
  /\ created = [u \in Users |-> Place(u)]
  /\ deleted = {} /\ now = Len(Registered)
  /\ walk = "idle" /\ limit \in Limits /\ filter \in Filters
  /\ offset = 0 /\ page = <<>> /\ total = 0
  /\ got = {} /\ due = {} /\ events = {}

\* Of the messages only the enums are used here.
Proto == INSTANCE Wire WITH Text <- {""}, Empty <- "", Phones <- {}, Emails <- {},
                            Plates <- {}

\* WHERE status != 'DELETED'
Present == {u \in Users : created[u] # 0} \ deleted

\* ... AND status = $5, unless the filter is one the mapper does not list
Listed ==
  {u \in Present : Proto!StatusFromProto(filter) \in {"", "ACTIVE"}}

\* Mutant: no ORDER BY.
AnyOrders == SetToSeqs(Listed)

\* ORDER BY created_at DESC: users of one instant come in any order.
Orders ==
  {s \in SetToSeqs(Listed) : \A i, j \in DOMAIN s : i < j => created[s[i]] >= created[s[j]]}

\* Mutant: the cap is forgotten.
Uncapped(l) == IF l <= 0 THEN DefaultListLimit ELSE l

\* The limit that is applied.
Clamped(l) ==
  IF l <= 0 THEN DefaultListLimit ELSE IF l > MaxListLimit THEN MaxListLimit ELSE l

\* Mutant: pages count from one.
SliceFromOne(s) ==
  SubSeq(s, offset + 2, IF offset + Clamped(limit) < Len(s) THEN offset + Clamped(limit)
                                                            ELSE Len(s))

\* LIMIT and OFFSET
Slice(s) ==
  SubSeq(s, offset + 1, IF offset + Clamped(limit) < Len(s) THEN offset + Clamped(limit)
                                                            ELSE Len(s))

-----------------------------------------------------------------------------
(* The other RPCs. *)

\* A registration; two of them may fall on one instant.
Register(u) ==
  /\ created[u] = 0
  /\ \E t \in {now, now + 1} \ {0} :
       /\ t <= MaxTime
       /\ now' = t /\ created' = [created EXCEPT ![u] = t]
       /\ events' = events \cup {"registered", "grew"}
                    \cup (IF \E v \in Users : created[v] = t THEN {"tie"} ELSE {})
  /\ UNCHANGED <<deleted, walk, asked, offset, page, total, got, due>>

Delete(u) ==
  /\ u \in Present
  /\ deleted' = deleted \cup {u}
  /\ events' = events \cup {"deleted", "shrank"}
  /\ UNCHANGED <<created, now, walk, asked, offset, page, total, got, due>>

-----------------------------------------------------------------------------
(* The walk. *)

Start ==
  /\ walk = "idle" /\ walk' = "select"
  /\ due' = Listed
  /\ events' = events \ {"registered", "deleted"}
  /\ UNCHANGED <<table, asked, offset, page, total, got>>

Select ==
  /\ walk = "select" /\ walk' = "count"
  /\ \E s \in Orders : page' = Slice(s)
  /\ events' = events \ {"grew", "shrank"}
  /\ UNCHANGED <<table, asked, offset, total, got, due>>

\* The connection breaks while the rows are read: rows.WalkNext() says there are no
\* more, rows.Err() is not asked, and COUNT runs on another connection.
SelectBreaks ==
  /\ walk = "select" /\ walk' = "count"
  /\ \E s \in Orders : \E n \in 0..Len(Slice(s)) - 1 : page' = SubSeq(Slice(s), 1, n)
  /\ events' = (events \ {"grew", "shrank"}) \cup {"broken"}
  /\ UNCHANGED <<table, asked, offset, total, got, due>>

\* Either statement fails and the call with it; the client asks again.
Fail ==
  /\ walk \in {"select", "count"} /\ walk' = "select"
  /\ page' = <<>>
  /\ UNCHANGED <<table, asked, offset, total, got, due, events>>

\* Mutant: the total is what is left behind the offset.
CountRest == Cardinality(Listed) - offset

\* Mutant: the filter is forgotten.
CountPresent == Cardinality(Present)

\* SELECT COUNT(*) with the same conditions
CountListed == Cardinality(Listed)

\* COUNT, and the answer.  External: the client goes on behind the last user it
\* was told of, until a page is empty or the total is reached.
Count ==
  /\ walk = "count"
  /\ total' = CountListed
  /\ got' = got \cup ToSet(page)
  /\ events' = IF got \cap ToSet(page) # {} THEN events \cup {"repeated"} ELSE events
  /\ offset' = offset + Len(page)
  /\ walk' = IF page = <<>> \/ offset' >= total' THEN "done" ELSE "select"
  /\ page' = <<>>
  /\ UNCHANGED <<table, asked, due>>

WalkNext ==
  \/ Start \/ Select \/ SelectBreaks \/ Fail \/ Count
  \/ \E u \in Users : Register(u) \/ Delete(u)

WalkSpec == WalkInit /\ [][WalkNext]_walkVars

-----------------------------------------------------------------------------
(* A walk skips nobody who was there when it began, whoever registers      *)
(* meanwhile, when no driver is deleted, no two share an instant and no    *)
(* connection breaks: new drivers come first in the order.                 *)
NobodySkipped ==
  walk = "done" /\ events \cap {"deleted", "broken", "tie"} = {} => due \subseteq got

(* A walk tells of nobody twice, whoever is deleted meanwhile, when no     *)
(* driver registers and no two share an instant.                           *)
NobodyTwice ==
  events \cap {"registered", "tie"} = {} => "repeated" \notin events

(* A walk nothing disturbed ends with as many drivers as its last total    *)
(* says: page and total are of the same filter.                            *)
TotalIsReached ==
  walk = "done" /\ events = {} => Cardinality(got) = total

(* The total covers the page it came with: no client sees more users than  *)
(* there are, unless one was deleted between the two statements.           *)
TotalCoversPage ==
  [][offset' # offset /\ "shrank" \notin events => offset' <= total']_walkVars
=============================================================================
