--------------------------- MODULE ServiceLifecycle ---------------------------
(***************************************************************************)
(* The life of the process, cmd/user/main.go: the port is served at once,  *)
(* while main still connects to Postgres, mounts the REST routes, registers*)
(* the RPC service and at last reports itself ready; on a signal it drains *)
(* the gRPC server, then the HTTP server, under a deadline of ten seconds. *)
(* Requests come at any time in between.                                   *)
(*                                                                         *)
(* The specification starts at line 94, where the listening goroutine is   *)
(* started.  Redis, which only ever costs a warning, is left out.          *)
(***************************************************************************)
CONSTANTS Requests,
          Kind        \* request -> what it asks for

Kinds == {"rest", "rpc", "health"}

ASSUME LifecycleAssumption == Kind \in [Requests -> Kinds]

VARIABLES main,      \* where main() is
          listener,  \* the listening goroutine
          db,        \* the pool of connections, "nil" when the ping failed
          mounted,   \* the kinds of request that have handlers
          ready,     \* the flag /health reads
          signalled, \* SIGTERM or SIGINT has come
          timer,     \* shutCtx
          state,     \* request -> what has become of it
          told,      \* history: /health has answered "ok"
          trusting   \* history: the requests sent after that

vars == <<main, listener, db, mounted, ready, signalled, timer, state, told, trusting>>

requests == <<state, told, trusting>>
wiring   == <<db, mounted, ready>>
stopping == <<signalled, timer>>

Mains == {"connect", "mount", "register", "announce", "running", "draining",
          "closing", "exited", "crashed"}

States == {"unsent", "inside", "answered", "missing", "failed", "aborted", "cut"}

TypeOK ==
  /\ main \in Mains
  /\ listener \in {"starting", "open", "closed"}
  /\ db \in {"unset", "open", "nil"}
  /\ mounted \subseteq Kinds
  /\ ready \in BOOLEAN /\ signalled \in BOOLEAN /\ told \in BOOLEAN
  /\ timer \in {"off", "armed", "late"}
  /\ state \in [Requests -> States]
  /\ trusting \subseteq Requests

\* Mutant: the REST routes are there from the start.
InitMounted ==
  /\ main = "connect" /\ listener = "starting" /\ db = "unset"
  /\ mounted = {"health", "rest"} /\ ready = FALSE
  /\ signalled = FALSE /\ timer = "off"
  /\ state = [r \in Requests |-> "unsent"]
  /\ told = FALSE /\ trusting = {}

Init ==
  /\ main = "connect" /\ listener = "starting" /\ db = "unset"
  /\ mounted = {"health"} /\ ready = FALSE
  /\ signalled = FALSE /\ timer = "off"
  /\ state = [r \in Requests |-> "unsent"]
  /\ told = FALSE /\ trusting = {}

Over == main \in {"exited", "crashed"}

Inside(kind) == {r \in Requests : Kind[r] = kind /\ state[r] = "inside"}

\* What the end of the process leaves of the requests.
Cut == [r \in Requests |-> IF state[r] = "inside" THEN "cut" ELSE state[r]]

Crash ==
  /\ main' = "crashed" /\ listener' = "closed" /\ state' = Cut
  /\ UNCHANGED <<wiring, stopping, told, trusting>>

-----------------------------------------------------------------------------
(* The listening goroutine. *)

Bind ==
  /\ listener = "starting"
  /\ listener' = "open"
  /\ UNCHANGED <<main, wiring, stopping, requests>>

\* logger.Fatal exits the process.
BindFails == listener = "starting" /\ Crash

-----------------------------------------------------------------------------
(* main(): wiring. *)

Goto(from, to) == main = from /\ main' = to

\* A failed ping leaves db nil, is logged, and wiring goes on.
Connect ==
  /\ Goto("connect", "mount")
  /\ db' \in {"open", "nil"}
  /\ UNCHANGED <<listener, mounted, ready, stopping, requests>>

\* Mutant: the service reports itself ready before the RPCs are registered.
MountAndAnnounce ==
  /\ Goto("mount", "register")
  /\ mounted' = mounted \cup {"rest"} /\ ready' = TRUE
  /\ UNCHANGED <<listener, db, stopping, requests>>

Mount ==
  /\ Goto("mount", "register")
  /\ mounted' = mounted \cup {"rest"}
  /\ UNCHANGED <<listener, db, ready, stopping, requests>>

Register ==
  /\ Goto("register", "announce")
  /\ mounted' = mounted \cup {"rpc"}
  /\ UNCHANGED <<listener, db, ready, stopping, requests>>

Announce ==
  /\ Goto("announce", "running")
  /\ ready' = TRUE
  /\ UNCHANGED <<listener, db, mounted, stopping, requests>>

-----------------------------------------------------------------------------
(* main(): shutdown. *)

\* A signal during the wiring is found when main waits for it.
Signal ==
  /\ ~Over /\ ~signalled
  /\ signalled' = TRUE
  /\ UNCHANGED <<main, listener, wiring, timer, requests>>

\* The deadline is set before GracefulStop, which it does not bound.
BeginDrain ==
  /\ Goto("running", "draining")
  /\ signalled
  /\ timer' = "armed"
  /\ UNCHANGED <<listener, wiring, signalled, requests>>

\* External: GracefulStop drains the transports of the RPCs in flight, and the
\* transport that ServeHTTP makes has no drain: it panics, here in main.
DrainPanics == main = "running" /\ signalled /\ Inside("rpc") # {} /\ Crash

\* Mutant: Stop instead of GracefulStop.
EndDrainAtOnce ==
  /\ Goto("draining", "closing")
  /\ listener' = "closed"
  /\ UNCHANGED <<wiring, stopping, requests>>

\* GracefulStop returns when no RPC is left, and Shutdown closes the listener.
EndDrain ==
  /\ Goto("draining", "closing")
  /\ Inside("rpc") = {}
  /\ listener' = "closed"
  /\ UNCHANGED <<wiring, stopping, requests>>

\* Mutant: Shutdown is given a context without a deadline.
ExitWhenIdle ==
  /\ Goto("closing", "exited")
  /\ Inside("rest") = {}
  /\ state' = Cut
  /\ UNCHANGED <<listener, wiring, stopping, told, trusting>>

\* Shutdown returns when no request is left, or at the deadline.
Exit ==
  /\ Goto("closing", "exited")
  /\ timer = "late" \/ Inside("rest") = {}
  /\ state' = Cut
  /\ UNCHANGED <<listener, wiring, stopping, told, trusting>>

Expire ==
  /\ ~Over /\ timer = "armed"
  /\ timer' = "late"
  /\ UNCHANGED <<main, listener, wiring, signalled, requests>>

-----------------------------------------------------------------------------
(* The requests, each routed when it arrives. *)

Routed(r, to) ==
  /\ listener = "open" /\ state[r] = "unsent"
  /\ state' = [state EXCEPT ![r] = to]
  /\ trusting' = IF told THEN trusting \cup {r} ELSE trusting
  /\ UNCHANGED <<main, listener, wiring, stopping>>

\* GET /health answers at once, with 200 also when it says "starting".
Health(r) ==
  /\ Kind[r] = "health"
  /\ Routed(r, "answered")
  /\ told' = (told \/ ready)

Enter(r) ==
  /\ Kind[r] \in mounted \ {"health"}
  /\ Kind[r] = "rpc" => main # "draining"
  /\ Routed(r, "inside")
  /\ UNCHANGED told

\* 404, or Unimplemented.
Missing(r) ==
  /\ Kind[r] \notin mounted
  /\ Routed(r, "missing")
  /\ UNCHANGED told

\* A gRPC server that is draining takes no new transport.
TurnedAway(r) ==
  /\ Kind[r] = "rpc" /\ main = "draining"
  /\ Routed(r, "aborted")
  /\ UNCHANGED told

\* Undefined behaviour: the route tree is read while Mount writes it.  The
\* look-up may find the route or miss it, or panic, which net/http recovers.
RaceOnRoutes(r) ==
  /\ main = "mount" /\ Kind[r] \in {"rest", "health"}
  /\ \E to \in {"aborted"} \cup (IF Kind[r] = "rest" THEN {"inside"} ELSE {}) :
       Routed(r, to)
  /\ UNCHANGED told

\* Undefined behaviour: the service map is read while Register writes it; the
\* runtime stops a process in which it notices that.
RaceOnServices(r) ==
  /\ main = "register" /\ Kind[r] = "rpc"
  /\ listener = "open" /\ state[r] = "unsent"
  /\ \/ Routed(r, "inside") /\ UNCHANGED told
     \/ Crash

\* A handler ends.  With db nil its statement panics, which is recovered and
\* answered 500 or Internal.
Finish(r) ==
  /\ state[r] = "inside"
  /\ state' = [state EXCEPT ![r] = IF db = "open" THEN "answered" ELSE "failed"]
  /\ UNCHANGED <<main, listener, wiring, stopping, told, trusting>>

-----------------------------------------------------------------------------
Main == Connect \/ Mount \/ Register \/ Announce \/ BeginDrain \/ EndDrain \/ Exit

Arrive(r) == \/ Health(r) \/ Enter(r) \/ Missing(r) \/ TurnedAway(r)
             \/ RaceOnRoutes(r) \/ RaceOnServices(r)

Next == \/ Main \/ Bind \/ BindFails \/ Signal \/ DrainPanics \/ Expire
        \/ \E r \in Requests : Arrive(r) \/ Finish(r)

(* main goes on when it can and the clock runs; an RPC ends, if Postgres   *)
(* ends its statements or at least cancels them at the deadline of 2 s     *)
(* (CancelIsEnough of CallPath).  Nothing bounds a REST request.           *)
Fairness ==
  /\ WF_vars(Main) /\ WF_vars(Expire)
  /\ \A r \in Requests : Kind[r] = "rpc" => WF_vars(Finish(r))

Spec == Init /\ [][Next]_vars /\ Fairness

-----------------------------------------------------------------------------
(* A client that has read "ok" from /health finds every route and service, *)
(* and until a signal comes no request of it is dropped: the flag is set   *)
(* after all that wires the server has been written.                       *)
HealthMeansWired ==
  \A r \in trusting :
    /\ state[r] # "missing"
    /\ state[r] \in {"aborted", "cut"} => signalled

(* An exit that is not a crash cuts no RPC, and a REST request only when   *)
(* the ten seconds have passed.                                            *)
ExitCutsOnlyTheLate ==
  \A r \in Requests :
    main = "exited" /\ state[r] = "cut" => Kind[r] = "rest" /\ timer = "late"

(* The pool decides what becomes of the calls: with one that opened no     *)
(* handler fails for want of it, though requests come while main is still  *)
(* connecting, and with a nil one, which the process survives and does not *)
(* report, none succeeds.                                                  *)
PoolDecides ==
  \A r \in Requests : Kind[r] # "health" =>
    /\ state[r] = "answered" => db = "open"
    /\ state[r] = "failed"   => db = "nil"

(* A signal ends the process, however long its REST requests take and      *)
(* whenever during the wiring it comes.                                    *)
ShutdownTerminates == signalled ~> Over
=============================================================================
