---------------------------- MODULE PlateRegister ----------------------------
(***************************************************************************)
(* What RegisterVehicle and ListVehicles promise their callers: a register *)
(* with a page for every driver.  A registration enters a plate, or        *)
(* changes the type of one that is entered, atomically and under the id    *)
(* the plate was first given; a listing shows one page as it is at one     *)
(* moment.  Drivers join, and stay.  Any request may also end in an error, *)
(* with the effect it was after or without it.                             *)
(*                                                                         *)
(* Which vehicle is the default is no part of this promise.                *)
(***************************************************************************)
CONSTANTS Callers, Drivers,
          Ids,                  \* what an entry may be known by
          Requests, NoRequest   \* what a caller may ask, and nothing asked

VARIABLES joined,  \* the drivers who have a page to write on
          page,    \* driver -> the entries on its page
          stage,   \* caller -> how far its request has come
          asked,   \* caller -> its request, or NoRequest
          answer   \* caller -> a code, and the entries it shows

vars == <<joined, page, stage, asked, answer>>

Says(code, entries) == [code |-> code, entries |-> entries]
Silent == Says("PENDING", {})

Init ==
  /\ joined = {}
  /\ page = [d \in Drivers |-> {}]
  /\ stage = [p \in Callers |-> "idle"]
  /\ asked = [p \in Callers |-> NoRequest]
  /\ answer = [p \in Callers |-> Silent]

Ends(p, from, a) ==
  /\ stage[p] = from /\ stage' = [stage EXCEPT ![p] = "done"]
  /\ answer' = [answer EXCEPT ![p] = a]

Ask(p) ==
  /\ stage[p] = "idle" /\ stage' = [stage EXCEPT ![p] = "working"]
  /\ \E r \in Requests : asked' = [asked EXCEPT ![p] = r]
  /\ UNCHANGED <<joined, page, answer>>

\* A malformed request never becomes one of this register's.
Refuse(p) ==
  /\ Ends(p, "idle", Says("VALIDATION", {}))
  /\ UNCHANGED <<joined, page, asked>>

Fail(p) ==
  /\ Ends(p, "working", Says("ERROR", {}))
  /\ UNCHANGED <<joined, page, asked>>

\* Only who never joined is unknown.
Unknown(p) ==
  /\ asked[p].kind = "register" /\ asked[p].driver \notin joined
  /\ Ends(p, "working", Says("NOT_FOUND", {}))
  /\ UNCHANGED <<joined, page, asked>>

Entry(id, r) == [id |-> id, plate |-> r.plate, type |-> r.type]

\* An id is that of a driver's plate if it is nothing else's, and the plate
\* has no other.
Fits(id, r) ==
  /\ \A e \in page[r.driver] : e.plate = r.plate => e.id = id
  /\ \A d \in Drivers : \A e \in page[d] :
       e.id = id => d = r.driver /\ e.plate = r.plate

Others(r) == {e \in page[r.driver] : e.plate # r.plate}

Enter(p) ==
  /\ asked[p].kind = "register" /\ asked[p].driver \in joined
  /\ \E id \in Ids :
       /\ Fits(id, asked[p])
       /\ page' = [page EXCEPT ![asked[p].driver] =
                     Others(asked[p]) \cup {Entry(id, asked[p])}]
       /\ \/ Ends(p, "working", Says("OK", {Entry(id, asked[p])}))
          \/ Ends(p, "working", Says("ERROR", {}))
  /\ UNCHANGED <<joined, asked>>

Show(p) ==
  /\ asked[p].kind = "list"
  /\ Ends(p, "working", Says("OK", page[asked[p].driver]))
  /\ UNCHANGED <<joined, page, asked>>

Forget(p) ==
  /\ stage[p] = "done" /\ stage' = [stage EXCEPT ![p] = "idle"]
  /\ asked' = [asked EXCEPT ![p] = NoRequest]
  /\ answer' = [answer EXCEPT ![p] = Silent]
  /\ UNCHANGED <<joined, page>>

Join(d) ==
  /\ d \notin joined /\ joined' = joined \cup {d}
  /\ UNCHANGED <<page, stage, asked, answer>>

Serve(p) == stage[p] = "working" /\ (Fail(p) \/ Unknown(p) \/ Enter(p) \/ Show(p))

Next ==
  \/ \E p \in Callers : Ask(p) \/ Refuse(p) \/ Serve(p) \/ Forget(p)
  \/ \E d \in Drivers : Join(d)

Spec == Init /\ [][Next]_vars
=============================================================================
