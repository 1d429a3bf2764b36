------------------------------ MODULE RpcProofs ------------------------------
(***************************************************************************)
(* Proofs about RpcServer, for every set of clients, whatever they send    *)
(* and however often they repeat it.                                       *)
(***************************************************************************)
EXTENDS RpcServer, TLAPS

(* An update that took effect has left the version it started from behind: *)
(* this is what keeps a second attempt, or a rival, from being applied.    *)
VersionMovedOn ==
  \A c \in Clients :
    Updates(c) /\ effects[c] > 0 => profile.version > request[c].expected

\* The attempts a server with a store turns away.
Keyless(c) == request[c].method \in IdempotentMethods /\ request[c].key = NoKey

(* Such an attempt never gets past the interceptor.                        *)
KeylessStaysOut ==
  wired => \A a \in Attempts :
    Keyless(a[1]) => pc[a] \in {"unsent", "arrived", "reply", "over"}

(* An attempt about to be answered has its answer.                         *)
Decided == \A a \in Attempts : pc[a] = "reply" => status[a] \in Codes

IInv ==
  /\ TypeOK
  /\ Decided
  /\ VersionMovedOn
  /\ UpdateAppliedOnce
  /\ KeylessStaysOut
  /\ KeylessWritesNothing

USE DEF PCs, Codes, setup

-----------------------------------------------------------------------------
(* An attempt is an attempt of a client, and its request is well formed.   *)
LEMMA AttemptIsOfClient ==
  ASSUME TypeOK, NEW a \in Attempts
  PROVE  a[1] \in Clients /\ Sent(a) = request[a[1]] /\ Sent(a) \in Request
  BY DEF TypeOK, Attempts, Sent

(* What the building blocks of the actions do to the types.                *)
LEMMA GotoType ==
  ASSUME TypeOK, NEW a, NEW from, NEW to \in PCs, Goto(a, from, to)
  PROVE  pc' \in [Attempts -> PCs]
  BY DEF TypeOK, Goto

LEMMA FinishType ==
  ASSUME TypeOK, NEW a, NEW from, NEW code \in Codes, Finish(a, from, code)
  PROVE  pc' \in [Attempts -> PCs] /\ status' \in [Attempts -> Codes \cup {"none"}]
  BY DEF TypeOK, Finish, Goto

(* A step to anything but the answer decides none; a Finish decides one.   *)
LEMMA GotoDecided ==
  ASSUME IInv, NEW a \in Attempts, NEW from, NEW to \in PCs \ {"reply"},
         Goto(a, from, to), UNCHANGED status
  PROVE  Decided'
  BY DEF IInv, TypeOK, Decided, Goto

LEMMA FinishDecided ==
  ASSUME IInv, NEW a \in Attempts, NEW from, NEW code \in Codes, Finish(a, from, code)
  PROVE  Decided'
  BY DEF IInv, TypeOK, Decided, Finish, Goto

(* A step that writes no row keeps what the invariant says of the rows.    *)
LEMMA QuietStep ==
  ASSUME IInv, UNCHANGED setup, UNCHANGED rows
  PROVE  VersionMovedOn' /\ UpdateAppliedOnce' /\ KeylessWritesNothing'
  BY DEF IInv, rows, VersionMovedOn, UpdateAppliedOnce, KeylessWritesNothing, Updates

(* The interceptor lets no keyless attempt through, and nothing else moves *)
(* one from outside to inside.                                             *)
LEMMA KeylessStays ==
  ASSUME IInv, UNCHANGED setup, NEW a \in Attempts, NEW from, NEW to \in PCs, Goto(a, from, to),
         wired /\ Keyless(a[1]) => to \in {"unsent", "arrived", "reply", "over"}
  PROVE  KeylessStaysOut'
  BY DEF IInv, TypeOK, KeylessStaysOut, Keyless, Goto

-----------------------------------------------------------------------------
(* A committed write of a.  It counts as an effect of its own client only, *)
(* and the version grows unless it is a registration.                      *)
LEMMA CommitKeeps ==
  ASSUME IInv, UNCHANGED setup, NEW a \in Attempts, pc[a] = "handler",
         effects' = [effects EXCEPT ![a[1]] = @ + 1],
         \/ Updates(a[1]) /\ profile.version = request[a[1]].expected
                          /\ profile'.version = profile.version + 1
         \/ ~Updates(a[1]) /\ profile'.version \in {profile.version, profile.version + 1}
  PROVE  VersionMovedOn' /\ UpdateAppliedOnce' /\ KeylessWritesNothing'
  <1>1. TypeOK /\ a[1] \in Clients
    BY AttemptIsOfClient DEF IInv
  <1>2. profile.version \in Nat /\ effects \in [Clients -> Nat]
    BY <1>1 DEF TypeOK
  <1>3. \A c \in Clients : request[c].expected \in Nat
    BY <1>1 DEF TypeOK, Request
  <1>4. PICK me \in Clients : me = a[1]
    BY <1>1
  <1>5. /\ effects'[me] = effects[me] + 1
        /\ \A c \in Clients \ {me} : effects'[c] = effects[c]
        /\ \A c \in Clients : effects[c] \in Nat
    BY <1>2, <1>4
  <1>6. VersionMovedOn'
    <2>1. \A c \in Clients : Updates(c) /\ effects[c] > 0
                               => profile.version > request[c].expected
      BY DEF IInv, VersionMovedOn
    <2>2. ASSUME NEW c \in Clients, Updates(c), effects'[c] > 0
          PROVE  profile'.version > request[c].expected
      <3>1. CASE c = me
        BY <1>2, <1>3, <1>4, <2>2, <3>1
      <3>2. CASE c # me
        BY <1>2, <1>3, <1>5, <2>1, <2>2, <3>2
      <3> QED
        BY <3>1, <3>2
    <2> QED
      BY <2>2 DEF VersionMovedOn, Updates
  <1>7. UpdateAppliedOnce'
    <2>1. ASSUME Updates(me), NEW d \in Clients, Updates(d),
                 request[d].expected = request[me].expected
          PROVE  effects[d] = 0
      BY <1>2, <1>3, <1>4, <1>5, <2>1 DEF IInv, VersionMovedOn
    <2>2. ASSUME NEW c \in Clients, NEW d \in Clients, Updates(c), Updates(d)
          PROVE  /\ effects'[c] <= 1
                 /\ c # d /\ request[c].expected = request[d].expected
                      => effects'[c] + effects'[d] <= 1
      <3>1. /\ effects[c] <= 1
            /\ c # d /\ request[c].expected = request[d].expected
                 => effects[c] + effects[d] <= 1
        BY <2>2 DEF IInv, UpdateAppliedOnce
      <3>2. CASE c = me
        BY <1>5, <2>1, <2>2, <3>1, <3>2
      <3>3. CASE d = me
        BY <1>5, <2>1, <2>2, <3>1, <3>3
      <3>4. CASE c # me /\ d # me
        BY <1>5, <3>1, <3>4
      <3> QED
        BY <3>2, <3>3, <3>4
    <2> QED
      BY <2>2 DEF UpdateAppliedOnce, Updates
  <1>8. KeylessWritesNothing'
    <2>1. ~(wired /\ Keyless(me))
      BY <1>4 DEF IInv, KeylessStaysOut
    <2> QED
      BY <1>5, <2>1 DEF IInv, KeylessWritesNothing, Keyless
  <1> QED
    BY <1>6, <1>7, <1>8

(* Where a committed write goes next, and that its attempt was let in.     *)
LEMMA CommittedMoves ==
  ASSUME IInv, UNCHANGED setup, NEW a \in Attempts, Committed(a)
  PROVE  /\ pc[a] = "handler" /\ client' = client
         /\ pc' \in [Attempts -> PCs]
         /\ status' \in [Attempts -> Codes \cup {"none"}]
         /\ effects' \in [Clients -> Nat]
         /\ effects' = [effects EXCEPT ![a[1]] = @ + 1]
         /\ KeylessStaysOut' /\ Decided'
  <1>1. TypeOK /\ a[1] \in Clients
    BY AttemptIsOfClient DEF IInv
  <1>2. effects' \in [Clients -> Nat]
    BY <1>1 DEF Committed, TypeOK
  <1>3. CASE Goto(a, "handler", "record") /\ UNCHANGED status
    <2>1. pc[a] = "handler"
      BY <1>3 DEF Goto
    <2>2. ~(wired /\ Keyless(a[1]))
      BY <2>1 DEF IInv, KeylessStaysOut
    <2>3. KeylessStaysOut' /\ Decided' /\ pc' \in [Attempts -> PCs]
      BY <1>1, <1>3, <2>2, KeylessStays, GotoType, GotoDecided
    <2> QED
      BY <1>1, <1>2, <1>3, <2>1, <2>3 DEF Committed, TypeOK
  <1>4. ASSUME NEW code \in Codes, Finish(a, "handler", code)
        PROVE  /\ pc[a] = "handler"
               /\ pc' \in [Attempts -> PCs]
               /\ status' \in [Attempts -> Codes \cup {"none"}]
               /\ KeylessStaysOut' /\ Decided'
    BY <1>1, <1>4, KeylessStays, FinishType, FinishDecided DEF Finish, Goto
  <1>5. \/ Goto(a, "handler", "record") /\ UNCHANGED status
        \/ \E code \in Codes : Finish(a, "handler", code)
    BY DEF Committed, Respond
  <1> QED
    BY <1>2, <1>3, <1>4, <1>5 DEF Committed

-----------------------------------------------------------------------------
(* The steps of a client.                                                  *)
LEMMA ClientKeeps ==
  ASSUME IInv, UNCHANGED setup, NEW c \in Clients, Send(c) \/ GiveUp(c)
  PROVE  IInv'
  <1>1. TypeOK /\ UNCHANGED rows /\ UNCHANGED status /\ UNCHANGED heard
    BY DEF IInv, Send, GiveUp
  <1>2. VersionMovedOn' /\ UpdateAppliedOnce' /\ KeylessWritesNothing'
    BY <1>1, QuietStep
  <1>3. waiting' \in [Clients -> BOOLEAN] /\ sent' \in [Clients -> Nat]
    <2>1. waiting \in [Clients -> BOOLEAN] /\ sent \in [Clients -> Nat]
      BY <1>1 DEF TypeOK
    <2>2. \/ waiting' = [waiting EXCEPT ![c] = TRUE] /\ sent' = [sent EXCEPT ![c] = @ + 1]
          \/ waiting' = [waiting EXCEPT ![c] = FALSE] /\ sent' = sent
      BY DEF Send, GiveUp
    <2>3. sent[c] + 1 \in Nat
      BY <2>1
    <2>4. sent' \in [Clients -> Nat]
      BY <2>1, <2>2, <2>3
    <2>5. waiting' \in [Clients -> BOOLEAN]
      BY <2>1, <2>2
    <2> QED
      BY <2>4, <2>5
  <1>4. pc' \in [Attempts -> PCs] /\ KeylessStaysOut' /\ Decided'
    <2>1. CASE Send(c)
      <3>1. PICK at : at = <<c, sent[c] + 1>>
        OBVIOUS
      <3>2. pc' = [pc EXCEPT ![at] = "arrived"]
        BY <2>1, <3>1 DEF Send
      <3>3. pc \in [Attempts -> PCs]
        BY <1>1 DEF TypeOK
      <3>4. \A a \in Attempts : pc'[a] \in {pc[a], "arrived"}
        BY <3>2, <3>3
      <3>5. pc' \in [Attempts -> PCs]
        BY <3>2, <3>3
      <3>6. KeylessStaysOut'
        BY <3>4 DEF IInv, KeylessStaysOut, Keyless
      <3>7. Decided'
        BY <1>1, <3>4 DEF IInv, Decided
      <3> QED
        BY <3>5, <3>6, <3>7
    <2>2. CASE GiveUp(c)
      BY <2>2 DEF IInv, TypeOK, GiveUp, KeylessStaysOut, Keyless, Decided
    <2> QED
      BY <2>1, <2>2
  <1>5. TypeOK'
    BY <1>1, <1>3, <1>4 DEF TypeOK, rows
  <1> QED
    BY <1>2, <1>4, <1>5 DEF IInv

(* An attempt that goes on without writing or being answered.              *)
LEMMA GotoKeeps ==
  ASSUME IInv, UNCHANGED setup, NEW a \in Attempts, NEW from, NEW to \in PCs \ {"reply"},
         Goto(a, from, to), UNCHANGED <<rows, client, status>>,
         wired /\ Keyless(a[1]) => to \in {"unsent", "arrived", "reply", "over"}
  PROVE  IInv'
  <1>1. TypeOK
    BY DEF IInv
  <1>2. pc' \in [Attempts -> PCs]
    BY <1>1, GotoType
  <1>3. TypeOK'
    BY <1>1, <1>2 DEF TypeOK, rows, client
  <1> QED
    BY <1>3, QuietStep, KeylessStays, GotoDecided DEF IInv

(* An attempt whose answer is decided without a write.                     *)
LEMMA FinishKeeps ==
  ASSUME IInv, UNCHANGED setup, NEW a \in Attempts, NEW from, NEW code \in Codes,
         Finish(a, from, code), UNCHANGED <<rows, client>>
  PROVE  IInv'
  <1>1. TypeOK
    BY DEF IInv
  <1>2. TypeOK'
    BY <1>1, FinishType DEF TypeOK, rows, client
  <1>3. KeylessStaysOut'
    BY KeylessStays DEF Finish
  <1> QED
    BY <1>2, <1>3, QuietStep, FinishDecided DEF IInv

(* The interceptor.                                                        *)
LEMMA InterceptorKeeps ==
  ASSUME IInv, UNCHANGED setup, NEW a \in Attempts,
         Pass(a) \/ RefuseKeyless(a) \/ BeginLookup(a) \/ Lookup(a) \/ Record(a)
  PROVE  IInv'
  <1>1. Sent(a) = request[a[1]]
    BY AttemptIsOfClient DEF IInv
  <1>2. CASE Pass(a)
    <2>1. ~(wired /\ Keyless(a[1]))
      BY <1>1, <1>2 DEF Pass, Guarded, Keyless
    <2> QED
      BY <1>2, <2>1, GotoKeeps DEF Pass
  <1>3. CASE RefuseKeyless(a)
    BY <1>3, FinishKeeps DEF RefuseKeyless
  <1>4. CASE BeginLookup(a)
    <2>1. ~Keyless(a[1])
      BY <1>1, <1>4 DEF BeginLookup, Keyless
    <2> QED
      BY <1>4, <2>1, GotoKeeps DEF BeginLookup
  <1>5. CASE Lookup(a)
    <2>1. ~(wired /\ Keyless(a[1]))
      BY <1>5 DEF Lookup, Goto, IInv, KeylessStaysOut
    <2> QED
      BY <1>5, <2>1, GotoKeeps DEF Lookup
  <1>6. CASE Record(a)
    BY <1>6, FinishKeeps DEF Record
  <1> QED
    BY <1>2, <1>3, <1>4, <1>5, <1>6

(* The handlers that write nothing.                                        *)
LEMMA RefusalKeeps ==
  ASSUME IInv, UNCHANGED setup, NEW a \in Attempts,
         \/ Unimplemented(a) \/ Invalid(a) \/ StatementFails(a)
         \/ UpdateConflict(a) \/ DeleteAgain(a)
  PROVE  IInv'
  <1>1. \/ \E code \in Codes : Finish(a, "handler", code) /\ UNCHANGED <<rows, client>>
        \/ Goto(a, "handler", "record") /\ UNCHANGED <<rows, client, status>>
    BY DEF Unimplemented, Invalid, StatementFails, UpdateConflict, DeleteAgain,
           Respond, MapError
  <1>2. ASSUME NEW code \in Codes, Finish(a, "handler", code), UNCHANGED <<rows, client>>
        PROVE  IInv'
    BY <1>2, FinishKeeps
  <1>3. CASE Goto(a, "handler", "record") /\ UNCHANGED <<rows, client, status>>
    <2>1. ~(wired /\ Keyless(a[1]))
      BY <1>3 DEF Goto, IInv, KeylessStaysOut
    <2> QED
      BY <1>3, <2>1, GotoKeeps
  <1> QED
    BY <1>1, <1>2, <1>3

(* The handlers that write.                                                *)
LEMMA WriteKeeps ==
  ASSUME IInv, UNCHANGED setup, NEW a \in Attempts,
         UpdateUser(a) \/ DeleteUser(a) \/ RegisterVehicle(a)
  PROVE  IInv'
  <1>1. TypeOK /\ Sent(a) = request[a[1]] /\ Sent(a) \in Request
    BY AttemptIsOfClient DEF IInv
  <1>2. Committed(a)
    BY DEF UpdateUser, DeleteUser, RegisterVehicle
  <1>3. /\ pc[a] = "handler" /\ client' = client
        /\ pc' \in [Attempts -> PCs]
        /\ status' \in [Attempts -> Codes \cup {"none"}]
        /\ effects' \in [Clients -> Nat]
        /\ effects' = [effects EXCEPT ![a[1]] = @ + 1]
        /\ KeylessStaysOut' /\ Decided'
    BY <1>2, CommittedMoves
  <1>4. Sent(a).value \in Values
    BY <1>1 DEF Request
  <1>5. profile' \in [version: Nat, name: Values \cup {Unset}, deleted: BOOLEAN]
        /\ plate' \in Values \cup {Unset}
    <2>1. /\ profile \in [version: Nat, name: Values \cup {Unset}, deleted: BOOLEAN]
          /\ plate \in Values \cup {Unset}
      BY <1>1 DEF TypeOK
    <2>2. profile.version + 1 \in Nat /\ profile.name \in Values \cup {Unset}
      BY <2>1
    <2>3. CASE UpdateUser(a)
      <3>1. /\ profile' = [version |-> profile.version + 1, name |-> Sent(a).value,
                           deleted |-> FALSE]
            /\ plate' = plate
        BY <2>3 DEF UpdateUser
      <3> QED
        BY <1>4, <2>1, <2>2, <3>1
    <2>4. CASE DeleteUser(a)
      <3>1. /\ profile' = [version |-> profile.version + 1, name |-> profile.name,
                           deleted |-> TRUE]
            /\ plate' = plate
        BY <2>4 DEF DeleteUser
      <3> QED
        BY <2>1, <2>2, <3>1
    <2>5. CASE RegisterVehicle(a)
      BY <1>4, <2>1, <2>5 DEF RegisterVehicle
    <2> QED
      BY <2>3, <2>4, <2>5
  <1>6. \/ Updates(a[1]) /\ profile.version = request[a[1]].expected
                         /\ profile'.version = profile.version + 1
        \/ ~Updates(a[1]) /\ profile'.version \in {profile.version, profile.version + 1}
    BY <1>1 DEF TypeOK, UpdateUser, DeleteUser, RegisterVehicle, Serves,
                VersionMatches, Updates
  <1>7. TypeOK'
    BY <1>1, <1>3, <1>5 DEF TypeOK, client
  <1> QED
    BY <1>3, <1>6, <1>7, CommitKeeps DEF IInv

(* The answer.                                                             *)
LEMMA AnswerKeeps ==
  ASSUME IInv, UNCHANGED setup, NEW a \in Attempts, Answer(a)
  PROVE  IInv'
  <1>1. TypeOK /\ UNCHANGED rows /\ UNCHANGED sent
    BY DEF IInv, Answer
  <1>2. KeylessStaysOut' /\ pc' \in [Attempts -> PCs]
    BY <1>1, KeylessStays, GotoType DEF Answer
  <1>3. status[a] \in Codes /\ a[1] \in Clients
    BY AttemptIsOfClient DEF IInv, Decided, Answer, Goto
  <1>4. status' \in [Attempts -> Codes \cup {"none"}]
    BY <1>1 DEF TypeOK, Answer
  <1>5. waiting' \in [Clients -> BOOLEAN]
    <2>1. waiting \in [Clients -> BOOLEAN]
      BY <1>1 DEF TypeOK
    <2>2. waiting' = waiting \/ waiting' = [waiting EXCEPT ![a[1]] = FALSE]
      BY DEF Answer
    <2> QED
      BY <2>1, <2>2
  <1>6. heard' \in [Clients -> SUBSET Codes]
    <2>1. heard \in [Clients -> SUBSET Codes]
      BY <1>1 DEF TypeOK
    <2>2. PICK code \in Codes : code = status[a]
      BY <1>3
    <2>3. heard' = heard \/ heard' = [heard EXCEPT ![a[1]] = @ \cup {code}]
      BY <2>2 DEF Answer
    <2> QED
      BY <2>1, <2>3
  <1>7. Decided'
    <2>1. \A b \in Attempts : pc'[b] = "reply" => b # a /\ pc[b] = "reply"
      BY <1>1 DEF Answer, Goto, TypeOK
    <2>2. \A b \in Attempts : b # a => status'[b] = status[b]
      BY <1>1 DEF Answer, TypeOK
    <2> QED
      BY <2>1, <2>2 DEF IInv, Decided
  <1>8. TypeOK'
    BY <1>1, <1>2, <1>4, <1>5, <1>6 DEF TypeOK, rows
  <1> QED
    BY <1>1, <1>2, <1>7, <1>8, QuietStep DEF IInv

-----------------------------------------------------------------------------
LEMMA InitHolds == Init => IInv
  <1> SUFFICES ASSUME Init PROVE IInv
    OBVIOUS
  <1>0. wired \in BOOLEAN /\ request \in [Clients -> Request]
    BY RpcAssumption DEF Init
  <1>1. TypeOK
    BY <1>0 DEF Init, TypeOK
  <1>2. Decided /\ KeylessStaysOut
    BY DEF Init, Decided, KeylessStaysOut
  <1>3. VersionMovedOn /\ UpdateAppliedOnce /\ KeylessWritesNothing
    BY DEF Init, VersionMovedOn, UpdateAppliedOnce, KeylessWritesNothing
  <1> QED
    BY <1>1, <1>2, <1>3 DEF IInv

LEMMA NextKeeps == IInv /\ [Next]_vars => IInv'
  <1> SUFFICES ASSUME IInv, [Next]_vars PROVE IInv'
    OBVIOUS
  <1>1. ASSUME NEW c \in Clients, Send(c) \/ GiveUp(c), UNCHANGED setup
        PROVE  IInv'
    BY <1>1, ClientKeeps
  <1>2. ASSUME NEW a \in Attempts, Serve(a), UNCHANGED setup
        PROVE  IInv'
    <2>1. CASE Pass(a) \/ RefuseKeyless(a) \/ BeginLookup(a) \/ Lookup(a) \/ Record(a)
      BY <1>2, <2>1, InterceptorKeeps
    <2>2. CASE Handle(a)
      BY <1>2, <2>2, RefusalKeeps, WriteKeeps DEF Handle
    <2>3. CASE Answer(a)
      BY <1>2, <2>3, AnswerKeeps
    <2> QED
      BY <1>2, <2>1, <2>2, <2>3 DEF Serve
  <1>3. CASE UNCHANGED vars
    BY <1>3 DEF vars, rows, IInv, TypeOK, Decided, VersionMovedOn, UpdateAppliedOnce,
                KeylessStaysOut, KeylessWritesNothing, Updates, Keyless
  <1> QED
    BY <1>1, <1>2, <1>3 DEF Next, Step

(* The inductive invariant: the version has moved past every update that   *)
(* took effect, and no keyless attempt is inside a server with a store.    *)
THEOREM InvariantHolds == Spec => []IInv
  BY InitHolds, NextKeeps, PTL DEF Spec

(* The state of the chain, the handlers and the clients keeps its type.    *)
THEOREM TypeCorrect == Spec => []TypeOK
  <1>1. IInv => TypeOK
    BY DEF IInv
  <1> QED
    BY <1>1, InvariantHolds, PTL

(* The version check of update_user.go makes a retried UpdateUser safe     *)
(* without an idempotency key: it is applied once at most, whatever was    *)
(* lost, repeated or abandoned, and only one of two rivals is applied.     *)
THEOREM UpdatesOnce == Spec => []UpdateAppliedOnce
  <1>1. IInv => UpdateAppliedOnce
    BY DEF IInv
  <1> QED
    BY <1>1, InvariantHolds, PTL

(* With a store, the interceptor keeps every guarded write without a key   *)
(* away from the handlers.                                                 *)
THEOREM KeylessNeverWrites == Spec => []KeylessWritesNothing
  <1>1. IInv => KeylessWritesNothing
    BY DEF IInv
  <1> QED
    BY <1>1, InvariantHolds, PTL

-----------------------------------------------------------------------------
(* What clients hear.                                                      *)

\* What an OK to c claims, and when no attempt of c can ever write.
Done(c)     == effects[c] > 0 \/ (request[c].method = "DeleteUser" /\ profile.deleted)
Hopeless(c) == \/ ~request[c].valid \/ request[c].method = "GetUserById"
               \/ wired /\ Keyless(c)

Refusals == {"Internal", "InvalidArgument", "Unimplemented"}

\* A status tells c the truth.
True(c, code) ==
  /\ code = "OK" => Done(c)
  /\ code \in Refusals => Hopeless(c)
  /\ code = "AlreadyExists" /\ sent[c] <= 1 => effects[c] = 0

Before == {"arrived", "lookup", "handler"}

(* An attempt was sent, tells the truth once its answer is decided, and if *)
(* it is the only one, then nothing was written or heard before it ended.  *)
AttemptInv(a) ==
  /\ pc[a] # "unsent" => a[2] <= sent[a[1]]
  /\ pc[a] = "record" => Done(a[1])
  /\ pc[a] = "reply" => True(a[1], status[a])
  /\ sent[a[1]] <= 1 /\ pc[a] \in Before \cup {"record", "reply"} => heard[a[1]] = {}
  /\ sent[a[1]] <= 1 /\ pc[a] \in Before => effects[a[1]] = 0

ClientInv(c) ==
  /\ \A code \in heard[c] : True(c, code)
  /\ sent[c] = 0 => heard[c] = {} /\ effects[c] = 0
  /\ Hopeless(c) => effects[c] = 0

HInv == (\A a \in Attempts : AttemptInv(a)) /\ (\A c \in Clients : ClientInv(c))

(* Attempts are numbered: of a client that has sent one, one is under way. *)
LEMMA OnlyAttempt ==
  ASSUME TypeOK, HInv, NEW a \in Attempts, NEW b \in Attempts, a[1] = b[1],
         sent[a[1]] <= 1, pc[a] # "unsent", pc[b] # "unsent"
  PROVE  a = b
  <1>1. PICK c \in Clients : a \in {c} \X (1..Tries[c])
    BY DEF Attempts
  <1>2. PICK d \in Clients : b \in {d} \X (1..Tries[d])
    BY DEF Attempts
  <1>3. Tries[c] \in Nat /\ Tries[d] \in Nat /\ sent[c] \in Nat
    BY RpcAssumption DEF TypeOK
  <1>4. a[2] <= sent[c] /\ b[2] <= sent[c] /\ a[1] = c /\ b[1] = c /\ c = d
    BY <1>1, <1>2 DEF HInv, AttemptInv
  <1>5. a[2] = 1 /\ b[2] = 1
    BY <1>1, <1>2, <1>3, <1>4
  <1> QED
    BY <1>1, <1>2, <1>4, <1>5

(* An attempt moves on, and no row changes.                                *)
LEMMA MoveTells ==
  ASSUME TypeOK, HInv, UNCHANGED <<setup, rows, client>>,
         NEW a \in Attempts, NEW from \in Before \cup {"record"}, NEW to \in PCs,
         Goto(a, from, to), to \notin {"unsent", "arrived"},
         to \in Before => from \in Before,
         to = "record" => Done(a[1]),
         to = "reply" => True(a[1], status'[a]),
         \A b \in Attempts \ {a} : status'[b] = status[b]
  PROVE  HInv'
  <1>1. pc[a] = from /\ pc'[a] = to /\ \A b \in Attempts \ {a} : pc'[b] = pc[b]
    BY DEF Goto, TypeOK
  <1>2. ASSUME NEW c \in Clients
        PROVE  ClientInv(c)'
    BY DEF HInv, ClientInv, True, Done, Hopeless, Keyless, rows, client
  <1>3. ASSUME NEW b \in Attempts
        PROVE  AttemptInv(b)'
    <2>1. AttemptInv(b)
      BY DEF HInv
    <2>2. CASE b = a
      BY <1>1, <2>1, <2>2 DEF AttemptInv, True, Done, Hopeless, Keyless, rows, client, Before
    <2>3. CASE b # a
      BY <1>1, <2>1, <2>3 DEF AttemptInv, True, Done, Hopeless, Keyless, rows, client
    <2> QED
      BY <2>2, <2>3
  <1> QED
    BY <1>2, <1>3 DEF HInv

(* A write of an attempt is committed.                                     *)
LEMMA WriteTells ==
  ASSUME TypeOK, HInv, UNCHANGED <<setup, client>>,
         NEW a \in Attempts, NEW to \in {"record", "reply"}, Goto(a, "handler", to),
         ~Hopeless(a[1]), profile.deleted => profile'.deleted,
         effects' = [effects EXCEPT ![a[1]] = @ + 1],
         to = "reply" => status'[a] \in {"OK", "Unknown"},
         \A b \in Attempts \ {a} : status'[b] = status[b]
  PROVE  HInv'
  <1>1. pc[a] = "handler" /\ pc'[a] = to /\ \A b \in Attempts \ {a} : pc'[b] = pc[b]
    BY DEF Goto, TypeOK
  <1>2. PICK me \in Clients : me = a[1]
    BY AttemptIsOfClient
  <1>3. /\ effects[me] \in Nat /\ effects'[me] = effects[me] + 1
        /\ \A c \in Clients \ {me} : effects'[c] = effects[c]
    BY <1>2 DEF TypeOK
  <1>4. \A c \in Clients : (Hopeless(c)' <=> Hopeless(c)) /\ sent'[c] = sent[c]
                           /\ heard'[c] = heard[c]
    BY DEF Hopeless, Keyless, client
  <1>5. Done(me)' /\ \A c \in Clients : Done(c) => Done(c)'
    BY <1>3 DEF Done
  <1>6. ASSUME NEW c \in Clients, NEW code, True(c, code), c = me => sent[c] > 1
        PROVE  True(c, code)'
    <2>1. sent[c] > 1 => ~(sent[c] <= 1)
      BY DEF TypeOK
    <2> QED
      BY <1>3, <1>4, <1>5, <1>6, <2>1 DEF True
  <1>7. AttemptInv(a) /\ (sent[me] <= 1 => heard[me] = {}) /\ sent[me] # 0
    <2>1. AttemptInv(a) /\ a[2] <= sent[a[1]] /\ sent[a[1]] \in Nat
      BY <1>1, <1>2 DEF HInv, AttemptInv, TypeOK
    <2>2. a[2] \in Nat /\ a[2] > 0
      BY RpcAssumption DEF Attempts
    <2> QED
      BY <1>1, <1>2, <2>1, <2>2 DEF AttemptInv, Before
  <1>8. ASSUME NEW c \in Clients
        PROVE  ClientInv(c)'
    <2>1. ClientInv(c)
      BY DEF HInv
    <2>2. \A code \in heard'[c] : True(c, code)'
      <3>1. c = me /\ sent[c] <= 1 => heard'[c] = {}
        BY <1>4, <1>7
      <3>2. sent[c] <= 1 \/ sent[c] > 1
        BY DEF TypeOK
      <3> QED
        BY <1>4, <1>6, <2>1, <3>1, <3>2 DEF ClientInv
    <2> QED
      BY <1>2, <1>3, <1>4, <1>7, <2>1, <2>2 DEF ClientInv
  <1>9. ASSUME NEW b \in Attempts
        PROVE  AttemptInv(b)'
    <2>1. AttemptInv(b) /\ b[1] \in Clients
      BY AttemptIsOfClient DEF HInv
    <2>2. CASE b = a
      BY <1>1, <1>2, <1>4, <1>5, <1>7, <2>2 DEF AttemptInv, True, Before, Refusals
    <2>3. CASE b # a /\ pc[b] = "unsent"
      BY <1>1, <2>3 DEF AttemptInv, Before
    <2>4. CASE b # a /\ pc[b] # "unsent"
      <3>1. b[1] = me => sent[me] > 1
        <4>1. b[1] = me => ~(sent[me] <= 1)
          BY <1>1, <1>2, <2>4, OnlyAttempt
        <4> QED
          BY <4>1 DEF TypeOK
      <3>2. pc'[b] = pc[b] /\ status'[b] = status[b]
        BY <1>1, <2>4
      <3>3. PICK code : code = status[b] /\ (pc[b] = "reply" => True(b[1], code)')
        BY <1>6, <2>1, <3>1 DEF AttemptInv
      <3>4. /\ sent'[b[1]] = sent[b[1]] /\ heard'[b[1]] = heard[b[1]]
            /\ Done(b[1]) => Done(b[1])'
        BY <1>4, <1>5, <2>1
      <3>5. sent[b[1]] <= 1 => effects'[b[1]] = effects[b[1]]
        BY <1>3, <2>1, <3>1 DEF TypeOK
      <3>6. (pc[b] = "reply" => True(b[1], status[b]))'
        BY <3>2, <3>3 DEF True
      <3> QED
        BY <2>1, <3>2, <3>4, <3>5, <3>6 DEF AttemptInv
    <2> QED
      BY <2>2, <2>3, <2>4
  <1> QED
    BY <1>8, <1>9 DEF HInv

(* An answer is heard, or nobody waits for it.                             *)
LEMMA AnswerTells ==
  ASSUME IInv, HInv, UNCHANGED setup, NEW a \in Attempts, Answer(a)
  PROVE  HInv'
  <1>1. TypeOK /\ UNCHANGED <<setup, rows, sent>>
    BY DEF IInv, Answer
  <1>2. /\ pc[a] = "reply" /\ pc'[a] = "over"
        /\ \A b \in Attempts \ {a} : pc'[b] = pc[b] /\ status'[b] = status[b]
    BY <1>1 DEF Answer, Goto, TypeOK
  <1>3. PICK me \in Clients : me = a[1]
    BY <1>1, AttemptIsOfClient
  <1>4. /\ heard'[me] \in {heard[me], heard[me] \cup {status[a]}}
        /\ \A c \in Clients \ {me} : heard'[c] = heard[c]
    BY <1>1, <1>3 DEF Answer, TypeOK
  <1>5. \A c \in Clients : \A code : True(c, code) => True(c, code)'
    BY <1>1 DEF True, Done, Hopeless, Keyless, rows
  <1>6. AttemptInv(a) /\ True(me, status[a]) /\ sent[me] # 0
    <2>1. a[2] \in Nat /\ a[2] > 0
      BY RpcAssumption DEF Attempts
    <2>2. sent[me] \in Nat
      BY <1>1 DEF TypeOK
    <2> QED
      BY <1>2, <1>3, <2>1, <2>2 DEF HInv, AttemptInv
  <1>7. ASSUME NEW c \in Clients
        PROVE  ClientInv(c)'
    <2>1. ClientInv(c)
      BY DEF HInv
    <2>2. \A code \in heard'[c] : True(c, code)'
      BY <1>4, <1>5, <1>6, <2>1 DEF ClientInv
    <2> QED
      BY <1>1, <1>4, <1>6, <2>1, <2>2 DEF ClientInv, Hopeless, Keyless, rows
  <1>8. ASSUME NEW b \in Attempts
        PROVE  AttemptInv(b)'
    <2>1. AttemptInv(b) /\ b[1] \in Clients
      BY <1>1, AttemptIsOfClient DEF HInv
    <2>2. CASE b = a
      BY <1>1, <1>2, <2>1, <2>2 DEF AttemptInv, Before
    <2>3. CASE b # a /\ pc[b] = "unsent"
      BY <1>2, <2>3 DEF AttemptInv, Before
    <2>4. CASE b # a /\ pc[b] # "unsent"
      <3>1. b[1] = me => ~(sent[me] <= 1)
        BY <1>1, <1>2, <1>3, <2>4, OnlyAttempt
      <3>2. pc'[b] = pc[b] /\ status'[b] = status[b]
        BY <1>2, <2>4
      <3>3. sent[b[1]] <= 1 => heard'[b[1]] = heard[b[1]]
        BY <1>4, <2>1, <3>1
      <3>4. PICK code : code = status[b] /\ (pc[b] = "reply" => True(b[1], code)')
        BY <1>5, <2>1 DEF AttemptInv
      <3>5. (pc[b] = "reply" => True(b[1], status[b]))'
        BY <3>2, <3>4 DEF True
      <3>6. Done(b[1]) => Done(b[1])'
        BY <1>1 DEF Done, rows
      <3> QED
        BY <1>1, <2>1, <3>2, <3>3, <3>5, <3>6 DEF AttemptInv, rows
    <2> QED
      BY <2>2, <2>3, <2>4
  <1> QED
    BY <1>7, <1>8 DEF HInv

(* A client sends, or stops waiting.                                       *)
LEMMA ClientTells ==
  ASSUME IInv, HInv, UNCHANGED setup, NEW c \in Clients, Send(c) \/ GiveUp(c)
  PROVE  HInv'
  <1>1. TypeOK /\ UNCHANGED <<rows, status, heard>>
    BY DEF IInv, Send, GiveUp
  <1>2. CASE GiveUp(c)
    <2>1. UNCHANGED <<setup, rows, pc, status, sent, heard>>
      BY <1>2 DEF GiveUp
    <2> QED
      BY <2>1 DEF HInv, AttemptInv, ClientInv, True, Done, Hopeless, Keyless, rows
  <1>3. CASE Send(c)
    <2>1. /\ sent[c] \in Nat /\ sent'[c] = sent[c] + 1
          /\ \A d \in Clients \ {c} : sent'[d] = sent[d]
          /\ \A d \in Clients : sent[d] \in Nat
      BY <1>1, <1>3 DEF Send, TypeOK
    <2>2. PICK at : at = <<c, sent[c] + 1>>
      OBVIOUS
    <2>3. \A b \in Attempts : pc'[b] = IF b = at THEN "arrived" ELSE pc[b]
      BY <1>1, <1>3, <2>2 DEF Send, TypeOK
    <2>4. \A d \in Clients : \A code : True(d, code) => True(d, code)'
      BY <1>1, <2>1 DEF True, Done, Hopeless, Keyless, rows
    <2>5. ASSUME NEW d \in Clients
          PROVE  ClientInv(d)'
      <3>1. ClientInv(d)
        BY DEF HInv
      <3> QED
        BY <1>1, <2>1, <2>4, <3>1 DEF ClientInv, Hopeless, Keyless, rows
    <2>6. ASSUME NEW b \in Attempts
          PROVE  AttemptInv(b)'
      <3>1. AttemptInv(b) /\ b[1] \in Clients
        BY <1>1, AttemptIsOfClient DEF HInv
      <3>2. CASE b = at
        <4>1. pc'[b] = "arrived" /\ b[1] = c /\ b[2] = sent'[c]
          BY <2>1, <2>2, <2>3, <3>2
        <4>2. sent'[c] <= 1 => heard[c] = {} /\ effects[c] = 0
          BY <2>1 DEF HInv, ClientInv
        <4> QED
          BY <1>1, <2>1, <4>1, <4>2 DEF AttemptInv, rows
      <3>3. CASE b # at
        <4>1. pc'[b] = pc[b] /\ status'[b] = status[b]
          BY <1>1, <2>3, <3>3
        <4>2. b[2] \in Nat
          BY RpcAssumption DEF Attempts
        <4>3. pc[b] # "unsent" => b[2] <= sent'[b[1]]
          BY <2>1, <3>1, <4>2 DEF AttemptInv
        <4>4. sent'[b[1]] <= 1 => sent[b[1]] <= 1
          BY <2>1, <3>1
        <4>5. (pc[b] = "reply" => True(b[1], status[b]))'
          <5>1. PICK code : code = status[b] /\ (pc[b] = "reply" => True(b[1], code)')
            BY <2>4, <3>1 DEF AttemptInv
          <5> QED
            BY <4>1, <5>1 DEF True
        <4>6. Done(b[1]) => Done(b[1])'
          BY <1>1 DEF Done, rows
        <4> QED
          BY <1>1, <3>1, <4>1, <4>3, <4>4, <4>5, <4>6 DEF AttemptInv, rows
      <3> QED
        BY <3>2, <3>3
    <2> QED
      BY <2>5, <2>6 DEF HInv
  <1> QED
    BY <1>2, <1>3

(* Whatever an attempt does in the server.                                 *)
LEMMA ServeTells ==
  ASSUME IInv, HInv, UNCHANGED setup, NEW a \in Attempts, Serve(a)
  PROVE  HInv'
  <1>1. TypeOK /\ AttemptInv(a) /\ Sent(a) = request[a[1]] /\ Sent(a) \in Request
    BY AttemptIsOfClient DEF IInv, HInv
  <1>2. CASE Pass(a) \/ BeginLookup(a) \/ Lookup(a)
    <2>1. /\ UNCHANGED <<rows, client, status>>
          /\ \E from, to \in {"arrived", "lookup", "handler"} :
               Goto(a, from, to) /\ to # "arrived"
      BY <1>2 DEF Pass, BeginLookup, Lookup
    <2> QED
      BY <1>1, <2>1, MoveTells DEF Before
  <1>3. ASSUME NEW from \in Before \cup {"record"}, NEW code \in Codes,
               Finish(a, from, code), UNCHANGED <<rows, client>>, True(a[1], code)
        PROVE  HInv'
    <2>1. /\ Goto(a, from, "reply") /\ status'[a] = code
          /\ \A b \in Attempts \ {a} : status'[b] = status[b]
      BY <1>1, <1>3 DEF Finish, TypeOK
    <2>2. True(a[1], status'[a])
      BY <1>3, <2>1
    <2> QED
      BY <1>1, <1>3, <2>1, <2>2, MoveTells DEF Before
  <1>4. CASE RefuseKeyless(a)
    <2>1. True(a[1], "InvalidArgument")
      BY <1>1, <1>4 DEF RefuseKeyless, Guarded, True, Hopeless, Keyless
    <2> QED
      BY <1>3, <1>4, <2>1 DEF RefuseKeyless, Before
  <1>5. CASE Record(a)
    <2>1. True(a[1], "OK")
      BY <1>1, <1>5 DEF Record, Finish, Goto, AttemptInv, True, Refusals
    <2> QED
      BY <1>3, <1>5, <2>1 DEF Record
  <1>6. CASE Unimplemented(a)
    <2>1. True(a[1], "Unimplemented")
      BY <1>1, <1>6 DEF Unimplemented, Implemented, True, Hopeless
    <2> QED
      BY <1>3, <1>6, <2>1 DEF Unimplemented, Before
  <1>7. CASE Invalid(a)
    <2>1. True(a[1], "Internal")
      BY <1>1, <1>7 DEF Invalid, True, Hopeless
    <2> QED
      BY <1>3, <1>7, <2>1 DEF Invalid, Before, MapError
  <1>8. CASE StatementFails(a)
    <2>1. True(a[1], "Unknown")
      BY DEF True, Refusals
    <2> QED
      BY <1>3, <1>8, <2>1 DEF StatementFails, Before
  <1>9. CASE UpdateConflict(a)
    <2>1. True(a[1], "AlreadyExists")
      BY <1>1, <1>9 DEF UpdateConflict, Serves, AttemptInv, Before, True, Refusals
    <2> QED
      BY <1>3, <1>9, <2>1 DEF UpdateConflict, Before, MapError
  <1>10. CASE DeleteAgain(a)
    <2>1. Done(a[1]) /\ Respond(a) /\ UNCHANGED <<rows, client>>
      BY <1>1, <1>10 DEF DeleteAgain, Serves, Done
    <2>2. CASE Goto(a, "handler", "record") /\ UNCHANGED status
      BY <1>1, <2>1, <2>2, MoveTells DEF Before
    <2>3. CASE Finish(a, "handler", "OK")
      <3>1. True(a[1], "OK")
        BY <2>1 DEF True, Refusals
      <3> QED
        BY <1>3, <2>1, <2>3, <3>1 DEF Before
    <2> QED
      BY <2>1, <2>2, <2>3 DEF Respond
  <1>11. CASE UpdateUser(a) \/ DeleteUser(a) \/ RegisterVehicle(a)
    <2>1. Committed(a)
      BY <1>11 DEF UpdateUser, DeleteUser, RegisterVehicle
    <2>2. pc[a] = "handler" /\ client' = client
          /\ effects' = [effects EXCEPT ![a[1]] = @ + 1]
      BY <2>1, CommittedMoves
    <2>3. ~Hopeless(a[1])
      <3>1. ~(wired /\ Keyless(a[1]))
        BY <2>2 DEF IInv, KeylessStaysOut
      <3>2. request[a[1]].valid /\ request[a[1]].method # "GetUserById"
        BY <1>1, <1>11 DEF UpdateUser, DeleteUser, RegisterVehicle, Serves
      <3> QED
        BY <3>1, <3>2 DEF Hopeless
    <2>4. profile.deleted => profile'.deleted
      BY <1>11 DEF UpdateUser, DeleteUser, RegisterVehicle, VersionMatches
    <2>5. CASE Goto(a, "handler", "record") /\ UNCHANGED status
      BY <1>1, <2>2, <2>3, <2>4, <2>5, WriteTells
    <2>6. ASSUME NEW code \in {"OK", "Unknown"}, Finish(a, "handler", code)
          PROVE  HInv'
      <3>1. /\ Goto(a, "handler", "reply") /\ status'[a] = code
            /\ \A b \in Attempts \ {a} : status'[b] = status[b]
        BY <1>1, <2>6 DEF Finish, TypeOK
      <3> QED
        BY <1>1, <2>2, <2>3, <2>4, <3>1, WriteTells
    <2> QED
      BY <2>1, <2>5, <2>6 DEF Committed, Respond
  <1>12. CASE Answer(a)
    BY <1>12, AnswerTells
  <1> QED
    BY <1>2, <1>4, <1>5, <1>6, <1>7, <1>8, <1>9, <1>10, <1>11, <1>12 DEF Serve, Handle

(* What clients hear is true in every state.                               *)
THEOREM TruthHolds == Spec => []HInv
  <1>1. Init => HInv
    BY DEF Init, HInv, AttemptInv, ClientInv, Before
  <1>2. IInv /\ HInv /\ [Next]_vars => HInv'
    <2> SUFFICES ASSUME IInv, HInv, [Next]_vars PROVE HInv'
      OBVIOUS
    <2>1. CASE UNCHANGED vars
      BY <2>1 DEF vars, rows, HInv, AttemptInv, ClientInv, True, Done, Hopeless, Keyless
    <2> QED
      BY <2>1, ClientTells, ServeTells DEF Next, Step
  <1> QED
    BY <1>1, <1>2, InvariantHolds, PTL DEF Spec

(* An OK means that the write took effect, a refusal that no attempt ever  *)
(* did, and a conflict answered to an only attempt that it was not         *)
(* applied, however often clients repeat and give up (interceptors.go,     *)
(* update_user.go, soft_delete_user.go).                                   *)
THEOREM ClientsHearTheTruth == Spec => []HeardIsTrue
  <1>1. ASSUME HInv, NEW c \in Clients
        PROVE  /\ "OK" \in heard[c] => Done(c)
               /\ heard[c] \cap Refusals # {} => effects[c] = 0
               /\ "AlreadyExists" \in heard[c] /\ sent[c] = 1 => effects[c] = 0
    <2>1. /\ \A code \in heard[c] : True(c, code)
          /\ Hopeless(c) => effects[c] = 0
      BY <1>1 DEF HInv, ClientInv
    <2>2. "OK" \in heard[c] => Done(c)
      BY <2>1 DEF True
    <2>3. ASSUME heard[c] \cap Refusals # {}
          PROVE  effects[c] = 0
      <3>1. PICK code \in heard[c] : code \in Refusals
        BY <2>3
      <3>2. Hopeless(c)
        BY <2>1, <3>1 DEF True
      <3> QED
        BY <2>1, <3>2
    <2>4. "AlreadyExists" \in heard[c] /\ sent[c] = 1 => effects[c] = 0
      BY <2>1 DEF True
    <2> QED
      BY <2>2, <2>3, <2>4
  <1>2. HInv => HeardIsTrue
    BY <1>1 DEF HeardIsTrue, Done, Refusals
  <1> QED
    BY <1>2, TruthHolds, PTL
=============================================================================
