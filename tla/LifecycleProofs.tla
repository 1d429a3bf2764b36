--------------------------- MODULE LifecycleProofs ---------------------------
(***************************************************************************)
(* Proofs about ServiceLifecycle, for any requests of any kinds.           *)
(***************************************************************************)
EXTENDS ServiceLifecycle, TLAPS

(* The flag is the last thing that is written, and is told to nobody       *)
(* before the port is open.                                                *)
ReadyIsLast ==
  /\ "health" \in mounted
  /\ main \in {"register", "announce"} => "rest" \in mounted
  /\ main = "announce" => "rpc" \in mounted
  /\ ready => mounted = Kinds
              /\ main \in {"running", "draining", "closing", "exited", "crashed"}
  /\ told => ready /\ listener # "starting"
  /\ trusting # {} => told

\* main leaves its wait for the signal only when it has come.
StopsOnSignal == main \in {"draining", "closing", "exited"} => signalled

(* While the process lives nothing is cut, and once the gRPC server is     *)
(* drained no RPC is inside and none can enter.                            *)
DrainIsComplete ==
  /\ ~Over => \A r \in Requests : state[r] # "cut"
  /\ main \in {"closing", "exited"} => listener = "closed" /\ Inside("rpc") = {}

\* GET /health never waits.
NoHealthInside == \A r \in Requests : Kind[r] = "health" => state[r] # "inside"

IInv ==
  /\ TypeOK
  /\ NoHealthInside
  /\ ReadyIsLast
  /\ StopsOnSignal
  /\ DrainIsComplete
  /\ HealthMeansWired
  /\ ExitCutsOnlyTheLate

USE DEF Kinds, Mains, States

-----------------------------------------------------------------------------
LEMMA InitHolds == Init => IInv
  BY LifecycleAssumption DEF Init, IInv, TypeOK, ReadyIsLast, StopsOnSignal,
     DrainIsComplete, HealthMeansWired, ExitCutsOnlyTheLate, NoHealthInside, Over, Inside

(* What a crash leaves: everything inside is cut, which harms a client     *)
(* that trusts /health only when the signal has come.                      *)
LEMMA CrashKeeps ==
  ASSUME IInv, Crash, trusting = {} \/ signalled
  PROVE  IInv'
  <1>1. TypeOK'
    BY DEF IInv, TypeOK, Crash, Cut, wiring, stopping
  <1>2. ReadyIsLast' /\ StopsOnSignal' /\ DrainIsComplete'
    BY DEF IInv, ReadyIsLast, StopsOnSignal, DrainIsComplete, Crash, Over, wiring, stopping
  <1>3. HealthMeansWired'
    BY DEF IInv, TypeOK, HealthMeansWired, Crash, Cut, wiring, stopping
  <1>4. ExitCutsOnlyTheLate'
    BY DEF ExitCutsOnlyTheLate, Crash
  <1>5. NoHealthInside'
    BY DEF NoHealthInside, Crash, Cut
  <1> QED
    BY <1>1, <1>2, <1>3, <1>4, <1>5 DEF IInv

(* The steps of the listening goroutine, the signal and the clock.         *)
LEMMA BackgroundKeeps ==
  ASSUME IInv, Bind \/ BindFails \/ Signal \/ DrainPanics \/ Expire
  PROVE  IInv'
  <1>1. CASE Bind
    BY <1>1 DEF IInv, TypeOK, ReadyIsLast, StopsOnSignal, DrainIsComplete, NoHealthInside,
       Over, Inside, HealthMeansWired, ExitCutsOnlyTheLate, Bind, wiring, stopping, requests
  <1>2. CASE BindFails
    <2>1. trusting = {}
      BY <1>2 DEF IInv, ReadyIsLast, BindFails
    <2> QED
      BY <1>2, <2>1, CrashKeeps DEF BindFails
  <1>3. CASE Signal
    BY <1>3 DEF IInv, TypeOK, ReadyIsLast, StopsOnSignal, DrainIsComplete, NoHealthInside,
       Over, Inside, HealthMeansWired, ExitCutsOnlyTheLate, Signal, wiring, stopping,
       requests
  <1>4. CASE DrainPanics
    BY <1>4, CrashKeeps DEF DrainPanics
  <1>5. CASE Expire
    BY <1>5 DEF IInv, TypeOK, ReadyIsLast, StopsOnSignal, DrainIsComplete, NoHealthInside,
       Over, Inside, HealthMeansWired, ExitCutsOnlyTheLate, Expire, wiring, stopping,
       requests
  <1> QED
    BY <1>1, <1>2, <1>3, <1>4, <1>5

(* The steps of main.                                                      *)
LEMMA MainKeeps ==
  ASSUME IInv, Main
  PROVE  IInv'
  <1>1. CASE Connect \/ Mount \/ Register \/ Announce
    <2>1. /\ UNCHANGED <<listener, stopping, requests>>
          /\ main \in {"connect", "mount", "register", "announce"}
          /\ main' \in {"mount", "register", "announce", "running"}
          /\ ~ready /\ (ready' => main' = "running")
      BY <1>1 DEF IInv, TypeOK, ReadyIsLast, Connect, Mount, Register, Announce, Goto
    <2>2. TypeOK'
      BY <1>1, <2>1 DEF IInv, TypeOK, Connect, Mount, Register, Announce, stopping, requests
    <2>3. ReadyIsLast'
      BY <1>1, <2>1 DEF IInv, TypeOK, ReadyIsLast, Connect, Mount, Register, Announce,
         Goto, requests
    <2>4. StopsOnSignal' /\ DrainIsComplete' /\ NoHealthInside'
      BY <2>1 DEF IInv, StopsOnSignal, DrainIsComplete, NoHealthInside, Over, requests
    <2>5. HealthMeansWired' /\ ExitCutsOnlyTheLate'
      BY <2>1 DEF IInv, HealthMeansWired, ExitCutsOnlyTheLate, stopping, requests
    <2> QED
      BY <2>2, <2>3, <2>4, <2>5 DEF IInv
  <1>2. CASE BeginDrain
    BY <1>2 DEF IInv, TypeOK, ReadyIsLast, StopsOnSignal, DrainIsComplete, NoHealthInside,
       Over, Inside, HealthMeansWired, ExitCutsOnlyTheLate, BeginDrain, Goto, wiring,
       stopping, requests
  <1>3. CASE EndDrain
    BY <1>3 DEF IInv, TypeOK, ReadyIsLast, StopsOnSignal, DrainIsComplete, NoHealthInside,
       Over, Inside, HealthMeansWired, ExitCutsOnlyTheLate, EndDrain, Goto, wiring,
       stopping, requests
  <1>4. CASE Exit
    <2>1. /\ \A r \in Requests : state'[r] = IF state[r] = "inside" THEN "cut" ELSE state[r]
          /\ \A r \in Requests : state[r] # "cut"
          /\ \A r \in Requests : state[r] = "inside" => Kind[r] # "rpc"
          /\ signalled
      BY <1>4 DEF IInv, TypeOK, StopsOnSignal, DrainIsComplete, NoHealthInside, Over,
         Inside, Exit, Goto, Cut
    <2>2. TypeOK'
      BY <1>4 DEF IInv, TypeOK, Exit, Goto, Cut, wiring, stopping
    <2>3. ReadyIsLast' /\ StopsOnSignal'
      BY <1>4 DEF IInv, ReadyIsLast, StopsOnSignal, Exit, Goto, wiring, stopping
    <2>4. DrainIsComplete'
      BY <1>4, <2>1 DEF IInv, DrainIsComplete, NoHealthInside, Over, Inside, Exit, Goto
    <2>5. HealthMeansWired'
      BY <1>4, <2>1 DEF IInv, TypeOK, HealthMeansWired, Exit, wiring, stopping
    <2>6. ExitCutsOnlyTheLate'
      <3>1. ASSUME NEW r \in Requests, state'[r] = "cut"
            PROVE  Kind[r] = "rest" /\ timer = "late"
        <4>1. state[r] = "inside"
          BY <2>1, <3>1
        <4>2. Kind[r] \in {"rest", "health"}
          BY <2>1, <4>1, LifecycleAssumption
        <4>3. Kind[r] # "health"
          BY <1>4, <4>1 DEF IInv, NoHealthInside
        <4> QED
          BY <1>4, <4>1, <4>2, <4>3 DEF Exit, Inside
      <3> QED
        BY <1>4, <3>1 DEF ExitCutsOnlyTheLate, Exit, stopping
    <2>7. NoHealthInside'
      BY <2>1 DEF IInv, NoHealthInside
    <2> QED
      BY <2>2, <2>3, <2>4, <2>5, <2>6, <2>7 DEF IInv
  <1> QED
    BY <1>1, <1>2, <1>3, <1>4 DEF Main

(* A request that is routed: where it may go, and when "ok" may be told.   *)
Admissible(r, to) ==
  /\ to \in States \ {"unsent", "cut"}
  /\ told' \in BOOLEAN /\ (told' => told \/ ready) /\ (told => told')
  /\ to = "missing" => Kind[r] \notin mounted
  /\ to = "aborted" => signalled \/ ~ready
  /\ to = "inside" => Kind[r] # "health"

LEMMA RoutedKeeps ==
  ASSUME IInv, NEW r \in Requests, NEW to, Admissible(r, to), Routed(r, to)
  PROVE  IInv'
  <1>1. /\ state' = [state EXCEPT ![r] = to]
        /\ trusting' = IF told THEN trusting \cup {r} ELSE trusting
        /\ UNCHANGED <<main, listener, wiring, stopping>>
        /\ listener = "open"
    BY DEF Routed
  <1>2. TypeOK'
    BY <1>1 DEF IInv, TypeOK, wiring, stopping, Admissible
  <1>3. /\ state'[r] = to /\ to \notin {"unsent", "cut"}
        /\ \A x \in Requests \ {r} : state'[x] = state[x]
    BY <1>1 DEF IInv, TypeOK, Admissible
  <1>4. ReadyIsLast' /\ StopsOnSignal'
    BY <1>1 DEF IInv, ReadyIsLast, StopsOnSignal, wiring, stopping, Admissible
  <1>5. DrainIsComplete'
    BY <1>1, <1>3 DEF IInv, DrainIsComplete, Over, Inside
  <1>6. HealthMeansWired'
    BY <1>1, <1>3, LifecycleAssumption
       DEF IInv, TypeOK, ReadyIsLast, HealthMeansWired, wiring, stopping, Admissible
  <1>7. ExitCutsOnlyTheLate'
    BY <1>1, <1>3 DEF IInv, ExitCutsOnlyTheLate, stopping
  <1>8. NoHealthInside'
    BY <1>3 DEF IInv, NoHealthInside, Admissible
  <1> QED
    BY <1>2, <1>4, <1>5, <1>6, <1>7, <1>8 DEF IInv

(* A request that arrives.                                                 *)
LEMMA ArriveKeeps ==
  ASSUME IInv, NEW r \in Requests, Arrive(r)
  PROVE  IInv'
  <1>1. CASE Health(r)
    <2>1. Admissible(r, "answered")
      BY <1>1 DEF Health, IInv, TypeOK, Admissible
    <2>2. Routed(r, "answered")
      BY <1>1 DEF Health
    <2> QED
      BY <2>1, <2>2, RoutedKeeps
  <1>2. CASE Enter(r)
    <2>1. Routed(r, "inside") /\ Admissible(r, "inside")
      BY <1>2 DEF Enter, IInv, TypeOK, Admissible
    <2> QED
      BY <2>1, RoutedKeeps
  <1>3. CASE Missing(r)
    <2>1. Routed(r, "missing") /\ Admissible(r, "missing")
      BY <1>3 DEF Missing, IInv, TypeOK, Admissible
    <2> QED
      BY <2>1, RoutedKeeps
  <1>4. CASE TurnedAway(r)
    <2>1. signalled
      BY <1>4 DEF IInv, StopsOnSignal, TurnedAway
    <2>2. Routed(r, "aborted") /\ Admissible(r, "aborted")
      BY <1>4, <2>1 DEF TurnedAway, IInv, TypeOK, Admissible
    <2> QED
      BY <2>2, RoutedKeeps
  <1>5. CASE RaceOnRoutes(r)
    <2>1. ~ready
      BY <1>5 DEF IInv, ReadyIsLast, RaceOnRoutes
    <2>2. PICK to \in {"aborted", "inside"} :
            Routed(r, to) /\ (to = "inside" => Kind[r] = "rest") /\ UNCHANGED told
      BY <1>5 DEF RaceOnRoutes
    <2>3. Admissible(r, to)
      BY <2>1, <2>2 DEF IInv, TypeOK, Admissible
    <2> QED
      BY <2>2, <2>3, RoutedKeeps
  <1>6. CASE RaceOnServices(r)
    <2>1. trusting = {}
      BY <1>6 DEF IInv, ReadyIsLast, RaceOnServices
    <2>2. CASE Routed(r, "inside") /\ UNCHANGED told
      <3>1. Admissible(r, "inside")
        BY <1>6, <2>2 DEF RaceOnServices, IInv, TypeOK, Admissible
      <3> QED
        BY <2>2, <3>1, RoutedKeeps
    <2>3. CASE Crash
      BY <2>1, <2>3, CrashKeeps
    <2> QED
      BY <1>6, <2>2, <2>3 DEF RaceOnServices
  <1> QED
    BY <1>1, <1>2, <1>3, <1>4, <1>5, <1>6 DEF Arrive

(* A handler that ends.                                                    *)
LEMMA FinishKeeps ==
  ASSUME IInv, NEW r \in Requests, Finish(r)
  PROVE  IInv'
  <1>1. /\ state' = [state EXCEPT ![r] = IF db = "open" THEN "answered" ELSE "failed"]
        /\ UNCHANGED <<main, listener, wiring, stopping, told, trusting>>
    BY DEF Finish
  <1>2. /\ state'[r] \in {"answered", "failed"}
        /\ \A x \in Requests \ {r} : state'[x] = state[x]
    BY <1>1 DEF IInv, TypeOK
  <1>3. TypeOK'
    BY <1>1 DEF IInv, TypeOK, wiring, stopping
  <1>4. ReadyIsLast' /\ StopsOnSignal'
    BY <1>1 DEF IInv, ReadyIsLast, StopsOnSignal, wiring, stopping
  <1>5. DrainIsComplete' /\ NoHealthInside'
    BY <1>1, <1>2 DEF IInv, DrainIsComplete, NoHealthInside, Over, Inside
  <1>6. HealthMeansWired'
    BY <1>1, <1>2 DEF IInv, TypeOK, HealthMeansWired, stopping
  <1>7. ExitCutsOnlyTheLate'
    BY <1>1, <1>2 DEF IInv, ExitCutsOnlyTheLate, stopping
  <1> QED
    BY <1>3, <1>4, <1>5, <1>6, <1>7 DEF IInv

LEMMA NextKeeps == IInv /\ [Next]_vars => IInv'
  <1> SUFFICES ASSUME IInv, [Next]_vars PROVE IInv'
    OBVIOUS
  <1>1. CASE Main
    BY <1>1, MainKeeps
  <1>2. CASE Bind \/ BindFails \/ Signal \/ DrainPanics \/ Expire
    BY <1>2, BackgroundKeeps
  <1>3. ASSUME NEW r \in Requests, Arrive(r) \/ Finish(r)
        PROVE  IInv'
    BY <1>3, ArriveKeeps, FinishKeeps
  <1>4. CASE UNCHANGED vars
    BY <1>4 DEF vars, IInv, TypeOK, ReadyIsLast, StopsOnSignal, DrainIsComplete,
       NoHealthInside, HealthMeansWired, ExitCutsOnlyTheLate, Over, Inside
  <1> QED
    BY <1>1, <1>2, <1>3, <1>4 DEF Next

(* The inductive invariant: readiness is announced last, main stops on the *)
(* signal alone, and a drained server holds no RPC.                        *)
THEOREM InvariantHolds == Spec => []IInv
  BY InitHolds, NextKeeps, PTL DEF Spec

-----------------------------------------------------------------------------
(* Nothing but /health is served until the pool is decided.                *)
PoolComesFirst ==
  /\ main = "connect" => db = "unset"
  /\ db = "unset" =>
       /\ main \in {"connect", "crashed"} /\ mounted = {"health"}
       /\ \A r \in Requests :
            Kind[r] # "health" => state[r] \notin {"inside", "answered", "failed"}

LEMMA PoolKeeps ==
  IInv /\ PoolComesFirst /\ PoolDecides /\ [Next]_vars => (PoolComesFirst /\ PoolDecides)'
  <1> SUFFICES ASSUME IInv, PoolComesFirst, PoolDecides, [Next]_vars
               PROVE  (PoolComesFirst /\ PoolDecides)'
    OBVIOUS
  <1> USE DEF PoolComesFirst, PoolDecides
  <1>1. CASE Crash
    BY <1>1 DEF IInv, TypeOK, Crash, Cut, wiring
  <1>2. CASE Connect \/ Mount \/ Register \/ Announce
    BY <1>2 DEF IInv, TypeOK, Connect, Mount, Register, Announce, Goto, requests, wiring
  <1>3. CASE BeginDrain \/ EndDrain \/ Bind \/ Signal \/ Expire
    BY <1>3 DEF BeginDrain, EndDrain, Bind, Signal, Expire, Goto, requests, wiring
  <1>4. CASE Exit
    BY <1>4 DEF IInv, TypeOK, Exit, Goto, Cut, wiring
  <1>5. ASSUME NEW r \in Requests, NEW to \in {"missing", "aborted", "inside"},
               Routed(r, to), to = "inside" => db # "unset" \/ Kind[r] = "health"
        PROVE  (PoolComesFirst /\ PoolDecides)'
    BY <1>5 DEF IInv, TypeOK, Routed, wiring
  <1>6. ASSUME NEW r \in Requests, Health(r)
        PROVE  (PoolComesFirst /\ PoolDecides)'
    BY <1>6 DEF IInv, TypeOK, Health, Routed, wiring
  <1>7. ASSUME NEW r \in Requests, Arrive(r)
        PROVE  (PoolComesFirst /\ PoolDecides)'
    <2>1. CASE Enter(r)
      BY <2>1, <1>5, LifecycleAssumption DEF Enter
    <2>2. CASE Missing(r) \/ TurnedAway(r)
      BY <2>2, <1>5 DEF Missing, TurnedAway
    <2>3. CASE RaceOnRoutes(r)
      <3>1. db # "unset"
        BY <2>3 DEF RaceOnRoutes
      <3> QED
        BY <2>3, <3>1, <1>5 DEF RaceOnRoutes
    <2>4. CASE RaceOnServices(r)
      <3>1. db # "unset"
        BY <2>4 DEF RaceOnServices
      <3> QED
        BY <2>4, <3>1, <1>1, <1>5 DEF RaceOnServices
    <2> QED
      BY <1>7, <1>6, <2>1, <2>2, <2>3, <2>4 DEF Arrive
  <1>8. ASSUME NEW r \in Requests, Finish(r)
        PROVE  (PoolComesFirst /\ PoolDecides)'
    <2>1. Kind[r] # "health" /\ db \in {"open", "nil"}
      BY <1>8 DEF IInv, TypeOK, NoHealthInside, Finish
    <2>2. /\ state'[r] = IF db = "open" THEN "answered" ELSE "failed"
          /\ \A x \in Requests \ {r} : state'[x] = state[x]
          /\ UNCHANGED <<main, db, mounted>>
      BY <1>8 DEF IInv, TypeOK, Finish, wiring
    <2> QED
      BY <2>1, <2>2
  <1>9. CASE UNCHANGED vars
    BY <1>9 DEF vars
  <1> QED
    BY <1>1, <1>2, <1>3, <1>4, <1>7, <1>8, <1>9 DEF Next, Main, BindFails, DrainPanics

(* A call fails for want of the database if and only if there is none to   *)
(* be had: no handler runs before the pool is decided.                     *)
THEOREM PoolIsDecisive == Spec => []PoolDecides
  <1>1. Init => PoolComesFirst /\ PoolDecides
    BY DEF Init, PoolComesFirst, PoolDecides
  <1> QED
    BY <1>1, PoolKeeps, InvariantHolds, PTL DEF Spec

(* The state of the process keeps its type.                                *)
THEOREM TypeCorrect == Spec => []TypeOK
  <1>1. IInv => TypeOK
    BY DEF IInv
  <1> QED
    BY <1>1, InvariantHolds, PTL

(* "ok" from /health means that every route and service is in place, and   *)
(* that no later request is dropped before a signal, although the tables   *)
(* are written while the port is served.                                   *)
THEOREM OkMeansWired == Spec => []HealthMeansWired
  <1>1. IInv => HealthMeansWired
    BY DEF IInv
  <1> QED
    BY <1>1, InvariantHolds, PTL

(* An orderly exit of main cuts no RPC, and no REST request before the     *)
(* deadline.                                                               *)
THEOREM ExitIsOrderly == Spec => []ExitCutsOnlyTheLate
  <1>1. IInv => ExitCutsOnlyTheLate
    BY DEF IInv
  <1> QED
    BY <1>1, InvariantHolds, PTL
=============================================================================
