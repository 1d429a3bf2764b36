------------------------------ MODULE CallProofs ------------------------------
(***************************************************************************)
(* Proofs about Wire and CallPath, for any calls, deadlines and pool.      *)
(***************************************************************************)
EXTENDS CallPath, FiniteSetTheorems, TLAPS

(* The conversions of mapper.go lose nothing of what the model knows, and  *)
(* take every number it does not know for no status at all.                *)
THEOREM StatusRoundTrip ==
  /\ \A s \in ModelStatus : StatusFromProto(StatusToProto(s)) = s
  /\ \A n \in Int32 : StatusFromProto(n) # "" => StatusToProto(StatusFromProto(n)) = n
  BY DEF ModelStatus, StatusFromProto, StatusToProto, UserStatus

THEOREM VehicleTypeRoundTrip ==
  /\ \A v \in ModelVehicle : VehicleTypeFromProto(VehicleTypeToProto(v)) = v
  /\ \A n \in Int32 :
       VehicleTypeFromProto(n) # "" => VehicleTypeToProto(VehicleTypeFromProto(n)) = n
  BY DEF ModelVehicle, VehicleTypeFromProto, VehicleTypeToProto, VehicleType

-----------------------------------------------------------------------------
(* What every list of operations has in common, and every rest of one: its *)
(* own write is followed by nothing but DEL and ends in OK, and a gRPC     *)
(* call goes to Redis last and only to delete.                             *)
OwnWriteIsLast(q, code) ==
  \A i \in 1..Len(q) : q[i] = "write" =>
    code = "OK" /\ \A j \in (i + 1)..Len(q) : q[j] = "del"

RedisIsLast(q) ==
  \A i \in 1..Len(q) : q[i] \in PgOps \/ (q[i] = "del" /\ i + 1 \notin 1..Len(q))

Shape(q, code, via) ==
  /\ q \in Seq(PgOps \cup RedisOps) /\ Len(q) >= 1
  /\ code \in Codes \ {"TooLate"}
  /\ OwnWriteIsLast(q, code)
  /\ via = "grpc" => RedisIsLast(q)

OnlyDel(q) == \A i \in 1..Len(q) : q[i] = "del"

LEMMA TailKeepsShape ==
  ASSUME NEW q \in Seq(PgOps \cup RedisOps), NEW code, NEW via,
         Shape(q, code, via), Len(q) # 1
  PROVE  Shape(Tail(q), code, via) /\ (via = "grpc" => Head(q) \in PgOps)
  <1>1. Len(q) \in Nat /\ Len(q) > 1
    <2>1. \A n \in Nat : n >= 1 /\ n # 1 => n > 1
      OBVIOUS
    <2>2. Len(q) \in Nat
      OBVIOUS
    <2>3. Len(q) >= 1
      BY DEF Shape
    <2> QED
      BY <2>1, <2>2, <2>3
  <1>2. /\ Tail(q) \in Seq(PgOps \cup RedisOps) /\ Len(Tail(q)) = Len(q) - 1
        /\ \A i \in 1..Len(Tail(q)) : Tail(q)[i] = q[i + 1]
    BY <1>1
  <1>3. OwnWriteIsLast(Tail(q), code)
    BY <1>1, <1>2 DEF Shape, OwnWriteIsLast
  <1>4. via = "grpc" => RedisIsLast(Tail(q))
    <2> SUFFICES ASSUME RedisIsLast(q), NEW i \in 1..Len(Tail(q))
                 PROVE  Tail(q)[i] \in PgOps
                        \/ (Tail(q)[i] = "del" /\ i + 1 \notin 1..Len(Tail(q)))
      BY DEF Shape, RedisIsLast
    <2>1. i + 1 \in 1..Len(q)
      BY <1>1, <1>2
    <2>2. q[i + 1] \in PgOps \/ (q[i + 1] = "del" /\ i + 1 + 1 \notin 1..Len(q))
      BY <2>1 DEF RedisIsLast
    <2> QED
      BY <1>1, <1>2, <2>1, <2>2
  <1>5. via = "grpc" => Head(q) \in PgOps
    <2>1. Head(q) = q[1] /\ 1 \in 1..Len(q) /\ 1 + 1 \in 1..Len(q)
      BY <1>1
    <2> QED
      BY <2>1 DEF Shape, RedisIsLast
  <1> QED
    BY <1>1, <1>2, <1>3, <1>4, <1>5 DEF Shape

(* After the call's own write only DELs are left.                          *)
LEMMA AfterWrite ==
  ASSUME NEW q, NEW code, NEW via, Shape(q, code, via), Head(q) = "write"
  PROVE  code = "OK" /\ (Len(q) # 1 => OnlyDel(Tail(q)))
  <1>1. /\ q \in Seq(PgOps \cup RedisOps) /\ Len(q) \in Nat /\ Len(q) >= 1
        /\ q[1] = "write"
    BY DEF Shape
  <1>2. code = "OK" /\ \A j \in 2..Len(q) : q[j] = "del"
    BY <1>1 DEF Shape, OwnWriteIsLast
  <1>3. Len(q) # 1 => /\ Len(Tail(q)) = Len(q) - 1
                      /\ \A i \in 1..Len(Tail(q)) : Tail(q)[i] = q[i + 1]
    BY <1>1
  <1> QED
    BY <1>1, <1>2, <1>3 DEF OnlyDel

LEMMA TailKeepsOnlyDel ==
  ASSUME NEW q \in Seq(PgOps \cup RedisOps), Len(q) >= 1, OnlyDel(q)
  PROVE  Head(q) = "del" /\ (Len(q) # 1 => OnlyDel(Tail(q)))
  <1>1. Head(q) = q[1] /\ Len(q) \in Nat
    OBVIOUS
  <1>2. Len(q) # 1 => /\ Len(Tail(q)) = Len(q) - 1
                      /\ \A i \in 1..Len(Tail(q)) : Tail(q)[i] = q[i + 1]
    BY <1>1
  <1> QED
    BY <1>1, <1>2 DEF OnlyDel

(* The lists as they are written: one, two and three operations.           *)
LEMMA OneOp ==
  ASSUME NEW a \in PgOps, NEW code \in Codes \ {"TooLate"}, a # "write"
  PROVE  Shape(<<a>>, code, "grpc")
  <1> DEFINE q == <<a>>
  <1>1. q \in Seq(PgOps \cup RedisOps) /\ Len(q) = 1 /\ q[1] = a
    OBVIOUS
  <1> HIDE DEF q
  <1>2. \A i \in 1..Len(q) : q[i] \in PgOps /\ q[i] # "write"
    BY <1>1
  <1>3. Shape(q, code, "grpc")
    BY <1>1, <1>2 DEF Shape, OwnWriteIsLast, RedisIsLast
  <1> QED
    BY <1>3 DEF q

LEMMA TwoOps ==
  ASSUME NEW a \in PgOps, NEW b \in PgOps \cup {"del"}, NEW code \in Codes \ {"TooLate"},
         a = "write" => b = "del", a = "write" \/ b = "write" => code = "OK"
  PROVE  Shape(<<a, b>>, code, "grpc")
  <1> DEFINE q == <<a, b>>
  <1>1. q \in Seq(PgOps \cup RedisOps) /\ Len(q) = 2 /\ q[1] = a /\ q[2] = b
    BY DEF RedisOps
  <1> HIDE DEF q
  <1>2. \A i \in 1..Len(q) : i = 1 \/ i = 2
    BY <1>1
  <1>3. OwnWriteIsLast(q, code)
    <2> SUFFICES ASSUME NEW i \in 1..Len(q), q[i] = "write"
                 PROVE  code = "OK" /\ \A k \in (i + 1)..Len(q) : q[k] = "del"
      BY DEF OwnWriteIsLast
    <2>1. CASE i = 1
      BY <1>1, <2>1
    <2>2. CASE i = 2
      BY <1>1, <2>2
    <2> QED
      BY <1>2, <2>1, <2>2
  <1>4. RedisIsLast(q)
    BY <1>1, <1>2 DEF RedisIsLast
  <1>5. Shape(q, code, "grpc")
    BY <1>1, <1>3, <1>4 DEF Shape
  <1> QED
    BY <1>5 DEF q

LEMMA ThreeOps ==
  ASSUME NEW a \in PgOps, NEW b \in PgOps, NEW c \in PgOps \cup {"del"},
         NEW code \in Codes \ {"TooLate"}, "write" \notin {a, b, c}
  PROVE  Shape(<<a, b, c>>, code, "grpc")
  <1> DEFINE q == <<a, b, c>>
  <1>1. /\ q \in Seq(PgOps \cup RedisOps) /\ Len(q) = 3
        /\ q[1] = a /\ q[2] = b /\ q[3] = c
    BY DEF RedisOps
  <1> HIDE DEF q
  <1>2. \A i \in 1..Len(q) : i = 1 \/ i = 2 \/ i = 3
    BY <1>1
  <1>3. \A i \in 1..Len(q) : q[i] # "write"
    BY <1>1, <1>2
  <1>4. RedisIsLast(q)
    BY <1>1, <1>2 DEF RedisIsLast
  <1>5. Shape(q, code, "grpc")
    BY <1>1, <1>3, <1>4 DEF Shape, OwnWriteIsLast
  <1> QED
    BY <1>5 DEF q

LEMMA UpdatesShape == \A s \in Updates : Shape(s.ops, s.code, "grpc")
  <1>1. \A s \in Updates : \/ s = Script(<<"write", "del">>, "OK")
                           \/ s = Script(<<"try">>, "AlreadyExists")
    BY DEF Updates, Ends
  <1>2. Shape(<<"write", "del">>, "OK", "grpc") /\ Shape(<<"try">>, "AlreadyExists", "grpc")
    BY OneOp, TwoOps DEF PgOps, Codes
  <1> QED
    BY <1>1, <1>2 DEF Script

LEMMA DeletesShape == \A s \in Deletes : Shape(s.ops, s.code, "grpc")
  <1>1. \A s \in Deletes : \/ s = Script(<<"write", "del">>, "OK")
                           \/ s = Script(<<"try", "exists", "del">>, "OK")
                           \/ s = Script(<<"try", "exists">>, "NotFound")
    BY DEF Deletes, Ends
  <1>2. /\ Shape(<<"write", "del">>, "OK", "grpc")
        /\ Shape(<<"try", "exists", "del">>, "OK", "grpc")
        /\ Shape(<<"try", "exists">>, "NotFound", "grpc")
    BY TwoOps, ThreeOps DEF PgOps, Codes
  <1> QED
    BY <1>1, <1>2 DEF Script

LEMMA RegistersShape == \A s \in Registers : Shape(s.ops, s.code, "grpc")
  <1>1. \A s \in Registers : \/ s = Script(<<"read", "write">>, "OK")
                             \/ s = Script(<<"read">>, "NotFound")
    BY DEF Registers, Ends
  <1>2. Shape(<<"read", "write">>, "OK", "grpc") /\ Shape(<<"read">>, "NotFound", "grpc")
    BY OneOp, TwoOps DEF PgOps, Codes
  <1> QED
    BY <1>1, <1>2 DEF Script

(* Redis comes first here, so that the list is none of a gRPC call.        *)
LEMMA LooksShape == \A s \in Looks : Shape(s.ops, s.code, "rest")
  <1>1. \A s \in Looks : \/ s = Script(<<"get", "read", "set">>, "OK")
                         \/ s = Script(<<"get", "read">>, "NotFound")
    BY DEF Looks, Ends
  <1>2. ASSUME NEW q \in Seq(PgOps \cup RedisOps), Len(q) >= 1,
               NEW code \in Codes \ {"TooLate"}, \A i \in 1..Len(q) : q[i] # "write"
        PROVE  Shape(q, code, "rest")
    BY <1>2 DEF Shape, OwnWriteIsLast
  <1>3. /\ <<"get", "read", "set">> \in Seq(PgOps \cup RedisOps)
        /\ <<"get", "read">> \in Seq(PgOps \cup RedisOps)
    BY DEF PgOps, RedisOps
  <1>4. Shape(<<"get", "read", "set">>, "OK", "rest")
    <2> DEFINE q == <<"get", "read", "set">>
    <2>1. Len(q) >= 1 /\ \A i \in 1..Len(q) : q[i] # "write"
      OBVIOUS
    <2> QED
      BY <1>2, <1>3, <2>1 DEF Codes
  <1>5. Shape(<<"get", "read">>, "NotFound", "rest")
    <2> DEFINE q == <<"get", "read">>
    <2>1. Len(q) >= 1 /\ \A i \in 1..Len(q) : q[i] # "write"
      OBVIOUS
    <2> QED
      BY <1>2, <1>3, <2>1 DEF Codes
  <1> QED
    BY <1>1, <1>4, <1>5 DEF Script

LEMMA EnrolmentsShape ==
  \A s \in Ends("OK", Enrolments("write")) : Shape(s.ops, s.code, "grpc")
  <1>1. \A s \in Ends("OK", Enrolments("write")) :
          \/ s = Script(<<"read">>, "OK")
          \/ s = Script(<<"read", "write">>, "OK")
          \/ s = Script(<<"read", "try", "read">>, "OK")
    BY DEF Enrolments, Ends
  <1>2. /\ Shape(<<"read">>, "OK", "grpc") /\ Shape(<<"read", "write">>, "OK", "grpc")
        /\ Shape(<<"read", "try", "read">>, "OK", "grpc")
    BY OneOp, TwoOps, ThreeOps DEF PgOps, Codes
  <1> QED
    BY <1>1, <1>2 DEF Script

LEMMA ListsShape ==
  \A s \in Ends("OK", {<<"read">>}) \cup Ends("OK", {<<"list", "count">>}) :
    Shape(s.ops, s.code, "grpc")
  <1>1. \A s \in Ends("OK", {<<"read">>}) \cup Ends("OK", {<<"list", "count">>}) :
          s = Script(<<"read">>, "OK") \/ s = Script(<<"list", "count">>, "OK")
    BY DEF Ends
  <1>2. Shape(<<"read">>, "OK", "grpc") /\ Shape(<<"list", "count">>, "OK", "grpc")
    BY OneOp, TwoOps DEF PgOps, Codes
  <1> QED
    BY <1>1, <1>2 DEF Script

LEMMA RpcShape ==
  ASSUME NEW m \in Served, NEW s \in RpcScripts[m]
  PROVE  Shape(s.ops, s.code, "grpc")
  <1>1. m \in {"CreateUser", "UpsertDriver", "UpdateUser", "DeleteUser", "ListUsers",
               "RegisterVehicle", "ListVehicles"}
    BY DEF Served, ServiceDesc, Unimplemented
  <1>2. \/ s \in Ends("OK", Enrolments("write")) \/ s \in Updates \/ s \in Deletes
        \/ s \in Registers
        \/ s \in Ends("OK", {<<"read">>}) \cup Ends("OK", {<<"list", "count">>})
    BY <1>1 DEF RpcScripts
  <1> QED
    BY <1>2, EnrolmentsShape, UpdatesShape, DeletesShape, RegistersShape, ListsShape

LEMMA EnrolmentShape ==
  ASSUME NEW e \in Enrolments("enrol"), NEW s, NEW code,
         Shape(s, code, "rest")
  PROVE  Shape(e \o s, code, "rest")
  <1>1. /\ e \in Seq(PgOps \cup RedisOps) /\ Len(e) \in Nat
        /\ \A i \in 1..Len(e) : e[i] # "write"
    <2>1. e = <<"read">> \/ e = <<"read", "enrol">> \/ e = <<"read", "try", "read">>
      BY DEF Enrolments
    <2>2. CASE e = <<"read">>
      BY <2>2 DEF PgOps
    <2>3. CASE e = <<"read", "enrol">>
      BY <2>3 DEF PgOps
    <2>4. CASE e = <<"read", "try", "read">>
      BY <2>4 DEF PgOps
    <2> QED
      BY <2>1, <2>2, <2>3, <2>4
  <1>2. s \in Seq(PgOps \cup RedisOps) /\ Len(s) \in Nat /\ Len(s) >= 1
    BY DEF Shape
  <1>3. /\ e \o s \in Seq(PgOps \cup RedisOps) /\ Len(e \o s) = Len(e) + Len(s)
        /\ \A i \in 1..Len(e) : (e \o s)[i] = e[i]
        /\ \A i \in (Len(e) + 1)..Len(e \o s) : (e \o s)[i] = s[i - Len(e)]
    BY <1>1, <1>2
  <1>4. OwnWriteIsLast(e \o s, code)
    <2> SUFFICES ASSUME NEW i \in 1..Len(e \o s), (e \o s)[i] = "write"
                 PROVE  code = "OK" /\ \A j \in (i + 1)..Len(e \o s) : (e \o s)[j] = "del"
      BY DEF OwnWriteIsLast
    <2>1. i > Len(e) /\ i - Len(e) \in 1..Len(s) /\ s[i - Len(e)] = "write"
      BY <1>1, <1>2, <1>3
    <2>2. code = "OK" /\ \A j \in (i - Len(e) + 1)..Len(s) : s[j] = "del"
      BY <2>1 DEF Shape, OwnWriteIsLast
    <2>3. ASSUME NEW j \in (i + 1)..Len(e \o s) PROVE (e \o s)[j] = "del"
      <3>1. j - Len(e) \in (i - Len(e) + 1)..Len(s) /\ j \in (Len(e) + 1)..Len(e \o s)
        BY <1>1, <1>2, <1>3, <2>1
      <3> QED
        BY <1>3, <2>2, <3>1
    <2> QED
      BY <2>2, <2>3
  <1> QED
    BY <1>2, <1>3, <1>4 DEF Shape

LEMMA RestShape ==
  ASSUME NEW m \in RestMethods, NEW s \in RestScripts(m)
  PROVE  Shape(s.ops, s.code, "rest")
  <1>1. PICK e \in Enrolments("enrol"), h \in HandlerScripts[m] :
          s = Script(e \o h.ops, h.code)
    BY DEF RestScripts
  <1>2. \/ h \in Looks \/ h \in Updates \/ h \in Registers
        \/ h \in Ends("OK", {<<"read">>}) \cup Ends("OK", {<<"list", "count">>})
    BY <1>1 DEF RestMethods, HandlerScripts
  <1>3. Shape(h.ops, h.code, "rest")
    BY <1>2, LooksShape, UpdatesShape, RegistersShape, ListsShape DEF Shape
  <1>4. Shape(e \o h.ops, h.code, "rest")
    BY <1>1, <1>3, EnrolmentShape
  <1> QED
    BY <1>1, <1>4 DEF Script

-----------------------------------------------------------------------------
(* The messages fit the stubs that decode them.                            *)
LEMMA ReturnedFits == \A m \in Served : Returned[m] \in Receives[m]
  <1>1. ToUserProto(StoredUser) \in User /\ ToVehicleProto(StoredVehicle) \in Vehicle
    BY CallPathAssumption
  <1>2. [ok |-> TRUE] \in DeleteUserResponse
    BY DEF DeleteUserResponse
  <1>3. [users |-> <<ToUserProto(StoredUser)>>, total |-> 1] \in ListUsersResponse
    <2>1. <<ToUserProto(StoredUser)>> \in Seq(User)
      BY <1>1
    <2>2. MinInt32 \in Int /\ MaxInt32 \in Int /\ MinInt32 <= 1 /\ 1 <= MaxInt32
      BY SMT DEF MinInt32, MaxInt32
    <2>3. 1 \in Int32
      BY <2>2 DEF Int32
    <2> QED
      BY <2>1, <2>3 DEF ListUsersResponse
  <1>4. [vehicles |-> <<ToVehicleProto(StoredVehicle)>>] \in ListVehiclesResponse
    <2>1. <<ToVehicleProto(StoredVehicle)>> \in Seq(Vehicle)
      BY <1>1
    <2> QED
      BY <2>1 DEF ListVehiclesResponse
  <1> SUFFICES ASSUME NEW m \in Served PROVE Returned[m] \in Receives[m]
    OBVIOUS
  <1>5. m \in {"CreateUser", "UpsertDriver", "UpdateUser", "DeleteUser", "ListUsers",
               "RegisterVehicle", "ListVehicles"}
    BY DEF Served, ServiceDesc, Unimplemented
  <1>6. CASE m \in {"CreateUser", "UpsertDriver", "UpdateUser"}
    BY <1>1, <1>6 DEF Returned, Receives
  <1>7. CASE m = "DeleteUser"
    BY <1>2, <1>7 DEF Returned, Receives
  <1>8. CASE m = "ListUsers"
    BY <1>3, <1>8 DEF Returned, Receives
  <1>9. CASE m = "RegisterVehicle"
    BY <1>1, <1>9 DEF Returned, Receives
  <1>10. CASE m = "ListVehicles"
    BY <1>4, <1>10 DEF Returned, Receives
  <1> QED
    BY <1>5, <1>6, <1>7, <1>8, <1>9, <1>10

LEMMA OffersTyped ==
  ASSUME NEW o \in Offers
  PROVE  /\ o # NoOffer
         /\ o.via = "grpc" \/ (o.via = "rest" /\ o.deadline = None)
         /\ Deadline(o) = None \/ (o.via = "grpc" /\ Deadline(o) \in Nat \ {0})
         /\ o.via = "rest" => o.method \in RestMethods
  BY CallPathAssumption DEF IsRpc, IsRest, Deadline

-----------------------------------------------------------------------------
(* The inductive invariant, call by call.                                  *)
Typing ==
  /\ call \in [Calls -> Offers \cup {NoOffer}]
  /\ pc \in [Calls -> {"idle", "queue", "sql", "redis", "done"}]
  /\ todo \in [Calls -> Seq(PgOps \cup RedisOps)]
  /\ ends \in [Calls -> Codes]
  /\ held \in [Calls -> Nat] /\ age \in [Calls -> Nat] /\ waited \in [Calls -> Nat]
  /\ left \in [Calls -> BOOLEAN] /\ slow \in [Calls -> BOOLEAN]
  /\ told \in [Calls -> BOOLEAN] /\ wrote \in [Calls -> BOOLEAN]
  /\ answer = [c \in Calls |-> answer[c]]

\* A call under way goes through one of the lists above, and waits where the
\* operation at the head of it is done.
OnItsWay(c) ==
  /\ Active(c) => /\ Shape(todo[c], ends[c], call[c].via)
                  /\ call[c].via = "grpc" => call[c].method \in Served
  /\ pc[c] = "redis" => Head(todo[c]) \in RedisOps
  /\ pc[c] \in {"queue", "sql"} => Head(todo[c]) \in PgOps

\* Only a call at Postgres holds a connection.
Holds(c) == pc[c] # "sql" => held[c] = 0

\* Until it has waited for Postgres, a gRPC call before Postgres is fresh.
Fresh(c) ==
  /\ pc[c] = "idle" => age[c] = 0
  /\ pc[c] \in {"queue", "sql"} /\ ~slow[c] /\ call[c].via = "grpc" => age[c] = 0

Late(c) == answer[c].code = "TooLate" /\ ~left[c] => slow[c]

\* What is left after an acknowledged write cannot fail.
Tells(c) ==
  told[c] => /\ wrote[c]
             /\ \/ pc[c] = "redis" /\ ends[c] = "OK" /\ OnlyDel(todo[c])
                \/ pc[c] = "done" /\ answer[c].code = "OK"

Answers(c) ==
  /\ pc[c] = "idle" <=> call[c] = NoOffer
  /\ pc[c] = "done" => Fits(call[c], answer[c])
  /\ pc[c] # "done" => answer[c] = Unanswered

CInv(c) == OnItsWay(c) /\ Holds(c) /\ Fresh(c) /\ Late(c) /\ Tells(c) /\ Answers(c)

IInv == Typing /\ \A c \in Calls : CInv(c)

Same(c) ==
  /\ call'[c] = call[c] /\ pc'[c] = pc[c] /\ todo'[c] = todo[c] /\ ends'[c] = ends[c]
  /\ held'[c] = held[c] /\ age'[c] = age[c] /\ waited'[c] = waited[c]
  /\ left'[c] = left[c] /\ answer'[c] = answer[c] /\ slow'[c] = slow[c]
  /\ told'[c] = told[c] /\ wrote'[c] = wrote[c]

LEMMA SameKeeps == ASSUME NEW c \in Calls, CInv(c), Same(c) PROVE CInv(c)'
  BY DEF CInv, OnItsWay, Holds, Fresh, Late, Tells, Answers, Active, Same, Fits

LEMMA InitIInv == Init => IInv
  <1> SUFFICES ASSUME Init PROVE IInv
    OBVIOUS
  <1>1. Typing
    BY DEF Init, Typing, Codes
  <1>2. ASSUME NEW c \in Calls PROVE CInv(c)
    BY DEF Init, CInv, OnItsWay, Holds, Fresh, Late, Tells, Answers, Active, Unanswered
  <1> QED
    BY <1>1, <1>2 DEF IInv

LEMMA TurnAwayKeeps ==
  ASSUME IInv, NEW c \in Calls, NEW o \in Offers, NEW code \in Codes \ {"OK", "TooLate"},
         TurnAway(c, o, code)
  PROVE  IInv'
  <1>1. Typing'
    BY DEF IInv, Typing, TurnAway
  <1>2. CInv(c)'
    <2>1. /\ pc'[c] = "done" /\ call'[c] = o /\ answer'[c] = Failed(code)
          /\ held'[c] = held[c] /\ told'[c] = told[c]
      BY DEF IInv, Typing, TurnAway
    <2>2. held[c] = 0 /\ ~told[c]
      BY DEF IInv, CInv, Holds, Tells, TurnAway
    <2>3. Fits(o, Failed(code)) /\ Failed(code).code # "TooLate" /\ o # NoOffer
      BY OffersTyped DEF Fits, Failed
    <2> QED
      BY <2>1, <2>2, <2>3
      DEF CInv, OnItsWay, Holds, Fresh, Late, Tells, Answers, Active, Fits
  <1>3. ASSUME NEW d \in Calls \ {c} PROVE CInv(d)'
    <2>1. Same(d)
      BY DEF TurnAway, Same, IInv, Typing
    <2> QED
      BY <2>1, SameKeeps DEF IInv
  <1> QED
    BY <1>1, <1>2, <1>3 DEF IInv

LEMMA PlaceFits ==
  ASSUME NEW q \in Seq(PgOps \cup RedisOps), Len(q) >= 1
  PROVE  /\ Place(q) \in {"queue", "redis"}
         /\ Place(q) = "redis" => Head(q) \in RedisOps
         /\ Place(q) = "queue" => Head(q) \in PgOps
  <1>1. Head(q) \in PgOps \cup RedisOps
    OBVIOUS
  <1> QED
    BY <1>1 DEF Place

LEMMA BeginKeeps ==
  ASSUME IInv, NEW c \in Calls, NEW o \in Offers, Begin(c, o)
  PROVE  IInv'
  <1>1. PICK s \in Scripts(o) : /\ pc' = [pc EXCEPT ![c] = Place(s.ops)]
                                /\ todo' = [todo EXCEPT ![c] = s.ops]
                                /\ ends' = [ends EXCEPT ![c] = s.code]
    BY DEF Begin
  <1>2. Shape(s.ops, s.code, o.via) /\ (o.via = "grpc" => o.method \in Served)
    <2>1. CASE o.via = "grpc"
      BY <2>1, RpcShape DEF Begin, Scripts
    <2>2. CASE o.via # "grpc"
      BY <2>2, RestShape, OffersTyped DEF Scripts
    <2> QED
      BY <2>1, <2>2
  <1>3. s.ops \in Seq(PgOps \cup RedisOps) /\ Len(s.ops) >= 1 /\ s.code \in Codes
    BY <1>2 DEF Shape
  <1>4. Typing'
    BY <1>1, <1>3, PlaceFits DEF IInv, Typing, Begin
  <1>5. CInv(c)'
    <2>1. /\ pc'[c] = Place(s.ops) /\ todo'[c] = s.ops /\ ends'[c] = s.code /\ call'[c] = o
          /\ held'[c] = held[c] /\ told'[c] = told[c] /\ age'[c] = age[c]
          /\ answer'[c] = answer[c]
      BY <1>1 DEF IInv, Typing, Begin
    <2>2. held[c] = 0 /\ ~told[c] /\ age[c] = 0 /\ answer[c] = Unanswered
      BY DEF IInv, CInv, Holds, Tells, Fresh, Answers, Begin
    <2>3. answer[c].code # "TooLate" /\ o # NoOffer
      BY <2>2, OffersTyped DEF Unanswered
    <2> QED
      BY <1>2, <1>3, <2>1, <2>2, <2>3, PlaceFits
      DEF CInv, OnItsWay, Holds, Fresh, Late, Tells, Answers, Active
  <1>6. ASSUME NEW d \in Calls \ {c} PROVE CInv(d)'
    <2>1. Same(d)
      BY <1>1 DEF Begin, Same, IInv, Typing
    <2> QED
      BY <2>1, SameKeeps DEF IInv
  <1> QED
    BY <1>4, <1>5, <1>6 DEF IInv

-----------------------------------------------------------------------------
LEMMA TickKeeps == ASSUME IInv, Tick PROVE IInv'
  <1>1. Typing'
    BY DEF IInv, Typing, Tick
  <1>2. ASSUME NEW c \in Calls PROVE CInv(c)'
    <2>1. CInv(c) /\ slow'[c] = (slow[c] \/ pc[c] \in {"queue", "sql"})
          /\ (~Active(c) => age'[c] = age[c])
      BY DEF IInv, Typing, Tick, Ages
    <2> QED
      BY <2>1
      DEF Tick, CInv, OnItsWay, Holds, Fresh, Late, Tells, Answers, Active, Fits
  <1> QED
    BY <1>1, <1>2 DEF IInv

LEMMA LeaveKeeps == ASSUME IInv, NEW c \in Calls, Leave(c) PROVE IInv'
  <1>1. Typing'
    BY DEF IInv, Typing, Leave
  <1>2. CInv(c)'
    <2>1. CInv(c) /\ left'[c] = TRUE
      BY DEF IInv, Typing, Leave
    <2> QED
      BY <2>1
      DEF Leave, CInv, OnItsWay, Holds, Fresh, Late, Tells, Answers, Active, Fits
  <1>3. ASSUME NEW d \in Calls \ {c} PROVE CInv(d)'
    <2>1. Same(d)
      BY DEF Leave, Same, IInv, Typing
    <2> QED
      BY <2>1, SameKeeps DEF IInv
  <1> QED
    BY <1>1, <1>2, <1>3 DEF IInv

LEMMA ConnectKeeps == ASSUME IInv, NEW c \in Calls, Connect(c) PROVE IInv'
  <1>1. Typing'
    BY DEF IInv, Typing, Connect
  <1>2. CInv(c)'
    <2>1. CInv(c) /\ pc[c] = "queue" /\ pc'[c] = "sql"
      BY DEF IInv, Typing, Connect
    <2> QED
      BY <2>1
      DEF Connect, CInv, OnItsWay, Holds, Fresh, Late, Tells, Answers, Active
  <1>3. ASSUME NEW d \in Calls \ {c} PROVE CInv(d)'
    <2>1. Same(d)
      BY DEF Connect, Same, IInv, Typing
    <2> QED
      BY <2>1, SameKeeps DEF IInv
  <1> QED
    BY <1>1, <1>2, <1>3 DEF IInv

(* A context that is over has let time pass, or its client has left.       *)
LEMMA OverIsSlow ==
  ASSUME IInv, NEW c \in Calls, pc[c] \in {"queue", "sql"}, Over(c), ~left[c]
  PROVE  slow[c]
  <1>1. call[c] \in Offers /\ age[c] \in Nat
    BY DEF IInv, Typing, CInv, Answers
  <1>2. call[c].via = "grpc" /\ age[c] \in Nat \ {0}
    BY <1>1, OffersTyped, CallPathAssumption DEF Over
  <1> QED
    BY <1>2 DEF IInv, CInv, Fresh, Typing

(* The rest of a step of the call c, beside what Finish and GoOn say.      *)
Aside(c) ==
  /\ UNCHANGED <<call, ends, left, slow>>
  /\ held' \in [Calls -> Nat] /\ told' \in [Calls -> BOOLEAN] /\ wrote' \in [Calls -> BOOLEAN]
  /\ \A d \in Calls \ {c} : held'[d] = held[d] /\ told'[d] = told[d] /\ wrote'[d] = wrote[d]
  /\ held'[c] = 0

LEMMA FinishKeeps ==
  ASSUME IInv, NEW c \in Calls, NEW a, Finish(c, a), Active(c), Fits(call[c], a),
         a.code = "TooLate" /\ ~left[c] => slow[c],
         Aside(c), told'[c] => wrote'[c] /\ a.code = "OK"
  PROVE  IInv'
  <1>1. Typing'
    <2>1. /\ pc' \in [Calls -> {"idle", "queue", "sql", "redis", "done"}]
          /\ age' \in [Calls -> Nat] /\ waited' \in [Calls -> Nat]
      BY DEF IInv, Typing, Finish
    <2>2. todo' \in [Calls -> Seq(PgOps \cup RedisOps)]
      <3>1. <<>> \in Seq(PgOps \cup RedisOps)
        OBVIOUS
      <3> QED
        BY <3>1 DEF IInv, Typing, Finish
    <2>3. answer' = [d \in Calls |-> answer'[d]]
      BY DEF IInv, Typing, Finish
    <2> QED
      BY <2>1, <2>2, <2>3 DEF IInv, Typing, Aside
  <1>2. CInv(c)'
    <2>1. CInv(c) /\ pc'[c] = "done" /\ answer'[c] = a
      BY DEF IInv, Typing, Finish
    <2>2. call[c] # NoOffer
      BY <2>1 DEF CInv, Answers, Active
    <2> QED
      BY <2>1, <2>2
      DEF Aside, CInv, OnItsWay, Holds, Fresh, Late, Tells, Answers, Active, Fits
  <1>3. ASSUME NEW d \in Calls \ {c} PROVE CInv(d)'
    <2>1. Same(d)
      BY DEF Aside, Finish, Same, IInv, Typing
    <2> QED
      BY <2>1, SameKeeps DEF IInv
  <1> QED
    BY <1>1, <1>2, <1>3 DEF IInv

LEMMA QueueCutKeeps == ASSUME IInv, NEW c \in Calls, QueueCut(c) PROVE IInv'
  <1>1. PICK code \in {"NotFound", "TooLate"} : Finish(c, Failed(code))
    BY DEF QueueCut, Error
  <1>2. Fits(call[c], Failed(code))
    BY DEF Fits, Failed, Codes
  <1>3. ~left[c] => slow[c]
    BY OverIsSlow DEF QueueCut
  <1>4. Aside(c) /\ ~told'[c]
    BY DEF QueueCut, Aside, IInv, CInv, Holds, Tells, Typing
  <1> QED
    BY <1>1, <1>2, <1>3, <1>4, FinishKeeps DEF QueueCut, Active

LEMMA LostKeeps ==
  ASSUME IInv, NEW c \in Calls, NEW code \in {"Unknown", "TooLate"}, Lost(c, code),
         code = "TooLate" => Over(c)
  PROVE  IInv'
  <1>1. PICK k \in {"NotFound", code} : Finish(c, Failed(k))
    BY DEF Lost, Error
  <1>2. Fits(call[c], Failed(k))
    BY DEF Fits, Failed, Codes
  <1>3. Failed(k).code = "TooLate" /\ ~left[c] => slow[c]
    BY OverIsSlow DEF Lost, Failed
  <1>4. PICK w \in BOOLEAN : wrote' = [wrote EXCEPT ![c] = w]
    BY DEF Lost, IInv, Typing
  <1>5. Aside(c) /\ ~told'[c]
    BY <1>4 DEF Lost, Aside, IInv, CInv, Tells, Typing
  <1> QED
    BY <1>1, <1>2, <1>3, <1>5, FinishKeeps DEF Lost, Active

(* What GoOn asks of the state and of the step it is part of.              *)
LEMMA ReplyFits ==
  ASSUME IInv, NEW c \in Calls, Active(c)
  PROVE  Fits(call[c], Reply(c)) /\ Reply(c).code = ends[c] /\ ends[c] # "TooLate"
  <1>1. ends[c] \in Codes \ {"TooLate"}
        /\ (call[c].via = "grpc" => call[c].method \in Served)
    BY DEF IInv, CInv, OnItsWay, Shape
  <1> QED
    BY <1>1, ReturnedFits DEF Reply, Fits, Failed

LEMMA GoOnKeeps ==
  ASSUME IInv, NEW c \in Calls, GoOn(c), pc[c] \in {"sql", "redis"}, Aside(c),
         told'[c] => /\ wrote'[c] /\ ends[c] = "OK"
                     /\ Len(todo[c]) # 1 => OnlyDel(Tail(todo[c]))
  PROVE  IInv'
  <1>1. Active(c) /\ CInv(c)
    BY DEF Active, IInv
  <1>2. CASE Len(todo[c]) = 1
    <2>1. PICK a : a = Reply(c)
      OBVIOUS
    <2>2. Finish(c, a) /\ Fits(call[c], a) /\ a.code = ends[c] /\ ends[c] # "TooLate"
      BY <1>1, <1>2, <2>1, ReplyFits DEF GoOn
    <2>3. /\ told'[c] => wrote'[c] /\ a.code = "OK"
          /\ a.code = "TooLate" /\ ~left[c] => slow[c]
      BY <2>2
    <2> QED
      BY <1>1, <2>2, <2>3, FinishKeeps
  <1>3. CASE Len(todo[c]) # 1
    <2> DEFINE q == Tail(todo[c])
    <2>1. Shape(todo[c], ends[c], call[c].via)
      BY <1>1 DEF CInv, OnItsWay
    <2>2. todo[c] \in Seq(PgOps \cup RedisOps)
      BY <2>1 DEF Shape
    <2>3. Shape(q, ends[c], call[c].via) /\ (call[c].via = "grpc" => Head(todo[c]) \in PgOps)
      BY <1>3, <2>1, <2>2, TailKeepsShape
    <2>4. q \in Seq(PgOps \cup RedisOps) /\ Len(q) >= 1
      BY <2>3 DEF Shape
    <2>5. call[c].via = "grpc" => pc[c] = "sql"
      BY <1>1, <2>3 DEF CInv, OnItsWay, PgOps, RedisOps
    <2>6. /\ pc' = [pc EXCEPT ![c] = Place(q)] /\ todo' = [todo EXCEPT ![c] = q]
          /\ waited' = [waited EXCEPT ![c] = 0] /\ age' = age /\ answer' = answer
      BY <1>3 DEF GoOn, IInv, Typing
    <2> HIDE DEF q
    <2>7. Typing'
      <3>1. Place(q) \in {"queue", "redis"}
        BY <2>4, PlaceFits
      <3>2. /\ pc' \in [Calls -> {"idle", "queue", "sql", "redis", "done"}]
            /\ waited' \in [Calls -> Nat]
        BY <2>6, <3>1 DEF IInv, Typing
      <3>3. todo' \in [Calls -> Seq(PgOps \cup RedisOps)]
        BY <2>4, <2>6 DEF IInv, Typing
      <3> QED
        BY <2>6, <3>2, <3>3 DEF IInv, Typing, Aside
    <2>8. CInv(c)'
      <3>1. /\ pc'[c] = Place(q) /\ todo'[c] = q /\ age'[c] = age[c]
            /\ answer'[c] = answer[c]
        BY <1>1, <2>6 DEF IInv, Typing
      <3>2. Place(q) \in {"queue", "redis"}
        BY <2>4, PlaceFits
      <3>3. OnItsWay(c)'
        BY <1>1, <2>3, <2>4, <3>1, PlaceFits DEF CInv, OnItsWay, Active, Aside
      <3>4. Fresh(c)'
        BY <1>1, <2>5, <3>1, <3>2 DEF CInv, Fresh, Aside
      <3>5. Tells(c)'
        <4>1. told'[c] => OnlyDel(q)
          BY <1>3 DEF q
        <4>2. OnlyDel(q) => Place(q) = "redis"
          BY <2>4, TailKeepsOnlyDel DEF Place, RedisOps
        <4> QED
          BY <3>1, <4>1, <4>2 DEF Tells, Aside
      <3>6. Holds(c)' /\ Late(c)' /\ Answers(c)'
        BY <1>1, <3>1, <3>2 DEF CInv, Holds, Late, Answers, Active, Aside
      <3> QED
        BY <3>3, <3>4, <3>5, <3>6 DEF CInv
    <2>9. ASSUME NEW d \in Calls \ {c} PROVE CInv(d)'
      <3>1. Same(d)
        BY <2>6 DEF Aside, Same, IInv, Typing
      <3> QED
        BY <3>1, SameKeeps DEF IInv
    <2> QED
      BY <2>7, <2>8, <2>9 DEF IInv
  <1> QED
    BY <1>2, <1>3

LEMMA StatementEndsKeeps == ASSUME IInv, NEW c \in Calls, StatementEnds(c) PROVE IInv'
  <1>1. pc[c] = "sql" /\ CInv(c) /\ ~told[c] /\ Shape(todo[c], ends[c], call[c].via)
    BY DEF StatementEnds, IInv, CInv, OnItsWay, Tells, Active, Typing
  <1>2. Aside(c) /\ (told'[c] => wrote'[c] /\ Head(todo[c]) = "write")
    BY <1>1 DEF StatementEnds, Release, Aside, IInv, Typing
  <1>3. told'[c] => ends[c] = "OK" /\ (Len(todo[c]) # 1 => OnlyDel(Tail(todo[c])))
    BY <1>1, <1>2, AfterWrite
  <1> QED
    BY <1>1, <1>2, <1>3, GoOnKeeps DEF StatementEnds

LEMMA RedisEndsKeeps == ASSUME IInv, NEW c \in Calls, RedisEnds(c) PROVE IInv'
  <1>1. pc[c] = "redis" /\ CInv(c) /\ Aside(c) /\ told'[c] = told[c] /\ wrote'[c] = wrote[c]
    BY DEF RedisEnds, Aside, IInv, CInv, Holds, Typing
  <1>2. todo[c] \in Seq(PgOps \cup RedisOps) /\ Len(todo[c]) >= 1
    BY <1>1 DEF CInv, OnItsWay, Active, Shape
  <1>3. told'[c] => /\ wrote'[c] /\ ends[c] = "OK"
                    /\ (Len(todo[c]) # 1 => OnlyDel(Tail(todo[c])))
    BY <1>1, <1>2, TailKeepsOnlyDel DEF CInv, Tells
  <1> QED
    BY <1>1, <1>3, GoOnKeeps DEF RedisEnds

LEMMA HitKeeps == ASSUME IInv, NEW c \in Calls, Hit(c) PROVE IInv'
  <1>1. /\ pc[c] = "redis" /\ CInv(c) /\ Head(todo[c]) = "get"
        /\ todo[c] \in Seq(PgOps \cup RedisOps) /\ Len(todo[c]) >= 1
        /\ Shape(todo[c], ends[c], call[c].via)
    BY DEF Hit, IInv, CInv, OnItsWay, Active, Shape
  <1>2. call[c].via # "grpc"
    <2>1. 1 \in 1..Len(todo[c]) /\ todo[c][1] = "get"
      BY <1>1
    <2>2. "get" \notin PgOps
      BY DEF PgOps
    <2> QED
      BY <1>1, <2>1, <2>2 DEF Shape, RedisIsLast
  <1>3. Finish(c, [code |-> "OK", out |-> None]) /\ Fits(call[c], [code |-> "OK", out |-> None])
    BY <1>2 DEF Hit, Fits, Codes
  <1>4. ~told[c]
    BY <1>1, TailKeepsOnlyDel DEF CInv, Tells
  <1>5. Aside(c) /\ ~told'[c]
    BY <1>1, <1>4 DEF Hit, Aside, IInv, CInv, Holds, Typing
  <1> QED
    BY <1>1, <1>3, <1>5, FinishKeeps DEF Hit, Active

LEMMA StepKeeps == IInv /\ [Next]_vars => IInv'
  <1> SUFFICES ASSUME IInv, [Next]_vars PROVE IInv'
    OBVIOUS
  <1>1. CASE Tick
    BY <1>1, TickKeeps
  <1>2. ASSUME NEW c \in Calls, NEW o \in Offers, Stub(c, o) \/ Refuse(c, o) \/ Begin(c, o)
        PROVE  IInv'
    BY <1>2, TurnAwayKeeps, BeginKeeps DEF Stub, Refuse, Codes
  <1>3. ASSUME NEW c \in Calls, Leave(c) \/ Connect(c) \/ QueueCut(c) PROVE IInv'
    BY <1>3, LeaveKeeps, ConnectKeeps, QueueCutKeeps
  <1>4. ASSUME NEW c \in Calls, StatementFails(c) \/ StatementCut(c) PROVE IInv'
    BY <1>4, LostKeeps DEF StatementFails, StatementCut
  <1>5. ASSUME NEW c \in Calls, StatementEnds(c) PROVE IInv'
    BY <1>5, StatementEndsKeeps
  <1>6. ASSUME NEW c \in Calls, RedisEnds(c) \/ Hit(c) \/ RedisTimesOut(c) PROVE IInv'
    BY <1>6, RedisEndsKeeps, HitKeeps DEF RedisTimesOut
  <1>7. CASE UNCHANGED vars
    BY <1>7 DEF vars, IInv, Typing, CInv, OnItsWay, Holds, Fresh, Late, Tells, Answers,
                Active, Fits
  <1> QED
    BY <1>1, <1>2, <1>3, <1>4, <1>5, <1>6, <1>7 DEF Next

THEOREM Inductive == Spec => []IInv
  BY InitIInv, StepKeeps, PTL DEF Spec

-----------------------------------------------------------------------------
(* Every message a gRPC call is answered with is of the type its client    *)
(* decodes, for any method, row and deadline.                              *)
THEOREM TypeCorrect == Spec => []TypeOK
  <1>1. IInv => TypeOK
    BY DEF IInv, Typing, CInv, Answers, TypeOK
  <1> QED
    BY <1>1, Inductive, PTL

(* A gRPC call that is too late has waited for Postgres, however long      *)
(* Redis hangs and whatever deadline its client set.                       *)
THEOREM LateIsPostgres == Spec => []LateOnlyForPostgres
  <1>1. IInv => LateOnlyForPostgres
    BY DEF IInv, CInv, Late, LateOnlyForPostgres
  <1> QED
    BY <1>1, Inductive, PTL

(* An acknowledged write is never answered with a failure.                 *)
THEOREM WritesAreTold == Spec => []AcknowledgedWriteIsTold
  <1>1. IInv => AcknowledgedWriteIsTold
    BY DEF IInv, CInv, Tells, AcknowledgedWriteIsTold
  <1> QED
    BY <1>1, Inductive, PTL

(* A pool of any size that calls wait for has a statement under way.       *)
THEOREM PoolIsLive == Spec => []PoolMoves
  <1>1. ASSUME IInv PROVE PoolMoves
    <2> SUFFICES ASSUME ~(\E c \in Calls : pc[c] = "sql") PROVE Free
      BY DEF PoolMoves
    <2>1. \A c \in Calls : {c} \X (1..held[c]) = {}
      BY <1>1 DEF IInv, CInv, Holds
    <2>2. Connections = {}
      BY <2>1 DEF Connections
    <2> QED
      BY <2>2, FS_EmptySet, CallPathAssumption DEF Free
  <1> QED
    BY <1>1, Inductive, PTL
=============================================================================
