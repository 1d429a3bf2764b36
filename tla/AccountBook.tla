----------------------------- MODULE AccountBook -----------------------------
(***************************************************************************)
(* What the REST API promises its clients: a book of accounts, one for an  *)
(* identity, each with its plates.  A request that is let in finds the     *)
(* account of its identity, opened on first contact, and then does one     *)
(* thing with that account, atomically: it reads, edits if the version is  *)
(* the one the client expects, or parks a plate.  Any request may also end *)
(* in an error, with the effect it was after or without it.                *)
(***************************************************************************)
EXTENDS Naturals

CONSTANTS Callers, Identities, Plates,
          Requests, NoRequest,  \* caller -> the requests it may send
          MaxVersion

Bodied == {"updateMe", "registerVehicle"}

VARIABLES account,  \* identity -> its account: one, or none yet
          garage,   \* identity -> its plates
          stage,    \* caller -> how far its request has come
          asked,    \* caller -> its request, or NoRequest
          answer    \* caller -> status, whose profile and which plates it shows

vars == <<account, garage, stage, asked, answer>>

Says(status, who, plates) == [status |-> status, who |-> who, plates |-> plates]
Silent == Says(0, {}, {})

Init ==
  /\ account = [e \in Identities |-> {}]
  /\ garage = [e \in Identities |-> {}]
  /\ stage = [p \in Callers |-> "idle"]
  /\ asked = [p \in Callers |-> NoRequest]
  /\ answer = [p \in Callers |-> Silent]

Who(p) == asked[p].who

Move(p, from, to) == stage[p] = from /\ stage' = [stage EXCEPT ![p] = to]

Ends(p, from, a) ==
  /\ Move(p, from, "answered")
  /\ answer' = [answer EXCEPT ![p] = a]
  /\ UNCHANGED asked

Fails(p, from) == Ends(p, from, Says(500, {}, {}))

Ask(p) ==
  /\ Move(p, "idle", "outside")
  /\ \E r \in Requests[p] : asked' = [asked EXCEPT ![p] = r]
  /\ UNCHANGED <<account, garage, answer>>

Refuse(p) ==
  /\ \E s \in {400, 401, 500} : Ends(p, "outside", Says(s, {}, {}))
  /\ UNCHANGED <<account, garage>>

\* Whoever has an account is let in, deleted or not.
Enter(p) ==
  /\ Who(p) \in Identities /\ account[Who(p)] # {}
  /\ Move(p, "outside", "inside")
  /\ UNCHANGED <<account, garage, asked, answer>>

Enrol(p) ==
  /\ Who(p) \in Identities /\ account[Who(p)] = {}
  /\ account' = [account EXCEPT ![Who(p)] = {[version |-> 1, deleted |-> FALSE]}]
  /\ \/ Move(p, "outside", "inside") /\ UNCHANGED <<asked, answer>>
     \/ Fails(p, "outside")
  /\ UNCHANGED garage

Reject(p) ==
  /\ \/ Fails(p, "inside")
     \/ asked[p].route \in Bodied /\ Ends(p, "inside", Says(400, {}, {}))
  /\ UNCHANGED <<account, garage>>

Show(p) ==
  /\ asked[p].route = "getMe"
  /\ Ends(p, "inside", Says(200, {Who(p)}, {}))
  /\ UNCHANGED <<account, garage>>

List(p) ==
  /\ asked[p].route = "listVehicles"
  /\ Ends(p, "inside", Says(200, {}, garage[Who(p)]))
  /\ UNCHANGED <<account, garage>>

Editable(p, a) == a.version = asked[p].expected /\ ~a.deleted

Edited(a)  == [a EXCEPT !.version = @ + 1]
Retired(a) == [version |-> a.version + 1, deleted |-> TRUE]

Edit(p) ==
  /\ asked[p].route = "updateMe"
  /\ \E a \in account[Who(p)] :
       /\ Editable(p, a) /\ a.version < MaxVersion
       /\ account' = [account EXCEPT ![Who(p)] = {Edited(a)}]
  /\ Ends(p, "inside", Says(200, {Who(p)}, {})) \/ Fails(p, "inside")
  /\ UNCHANGED garage

\* A conflict is told only where there is one.
Conflict(p) ==
  /\ asked[p].route = "updateMe"
  /\ \A a \in account[Who(p)] : ~Editable(p, a)
  /\ Ends(p, "inside", Says(409, {}, {}))
  /\ UNCHANGED <<account, garage>>

Park(p) ==
  /\ asked[p].route = "registerVehicle"
  /\ garage' = [garage EXCEPT ![Who(p)] = @ \cup {asked[p].plate}]
  /\ Ends(p, "inside", Says(201, {}, {asked[p].plate})) \/ Fails(p, "inside")
  /\ UNCHANGED account

Forget(p) ==
  /\ Move(p, "answered", "idle")
  /\ asked' = [asked EXCEPT ![p] = NoRequest]
  /\ answer' = [answer EXCEPT ![p] = Silent]
  /\ UNCHANGED <<account, garage>>

\* Other services edit and retire accounts; a retired one stays as it is.
OtherWrite(e) ==
  /\ \E a \in account[e] :
       /\ ~a.deleted
       /\ \/ a.version < MaxVersion /\ account' = [account EXCEPT ![e] = {Edited(a)}]
          \/ account' = [account EXCEPT ![e] = {Retired(a)}]
  /\ UNCHANGED <<garage, stage, asked, answer>>

Gate(p)   == Refuse(p) \/ Enter(p) \/ Enrol(p)
Handle(p) == Reject(p) \/ Show(p) \/ List(p) \/ Edit(p) \/ Conflict(p) \/ Park(p)

Serve(p) == \/ stage[p] = "outside" /\ Gate(p)
            \/ stage[p] = "inside" /\ Handle(p)

Next ==
  \/ \E p \in Callers : Ask(p) \/ Serve(p) \/ Forget(p)
  \/ \E e \in Identities : OtherWrite(e)

Spec == Init /\ [][Next]_vars
=============================================================================
