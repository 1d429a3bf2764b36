------------------------------- MODULE Vehicles -------------------------------
(***************************************************************************)
(* RegisterVehicle and ListVehicles (usecase/register_vehicle.go,          *)
(* usecase/list_vehicles.go) over the vehicle table: a registration looks  *)
(* its driver up and then, in a second statement, inserts the plate or     *)
(* overwrites what is stored for it; a listing is one SELECT.  Drivers     *)
(* enrol and are deleted meanwhile.  Any statement may fail, and a write   *)
(* may commit and its caller still see an error.                           *)
(*                                                                         *)
(* A plate is what strings.ToUpper and ReplaceAll make of its spellings    *)
(* (Normal); the ORDER BY of the listing and created_at are left out.      *)
(***************************************************************************)
EXTENDS Naturals, FiniteSets

CONSTANTS Callers,      \* goroutines serving requests
          Drivers,      \* ids of user_profile
          NoDriver,     \* the empty driver_id
          VehicleIds,   \* the uuids the database generates
          Plates,       \* normalised plates, as nopolRE accepts them
          BadPlate,     \* anything it refuses
          Spellings,    \* what callers write
          Normal,       \* spelling -> its normalised plate, or BadPlate
          BadType,      \* anything but CAR and MOTORCYCLE
          Calls,        \* the calls callers make
          NoCall

VehicleType == {"CAR", "MOTORCYCLE"}

Call == [kind: {"register", "list"}, driver: Drivers \cup {NoDriver},
         nopol: Spellings, type: VehicleType \cup {BadType}, default: BOOLEAN]

Vehicle == [id: VehicleIds, driver: Drivers, nopol: Plates,
            type: VehicleType, default: BOOLEAN]

ASSUME VehiclesAssumption ==
  /\ Normal \in [Spellings -> Plates \cup {BadPlate}]
  /\ NoDriver \notin Drivers /\ BadPlate \notin Plates
  /\ BadType \notin VehicleType
  /\ Calls \subseteq Call /\ NoCall \notin Call

VARIABLES users,     \* driver -> the status of its profile, or "NONE"
          vehicles,  \* the vehicle table, a set of rows
          pc,        \* caller -> the statement it is about to run
          call,      \* caller -> the call it serves
          reply,     \* caller -> what the usecase returned
          told       \* history: the rows callers were answered with

vars == <<users, vehicles, pc, call, reply, told>>

PCs     == {"idle", "check", "upsert", "list", "done"}
Running == {"check", "upsert", "list"}

\* A reply carries the rows it is about, one of them for a registration.
Reply == [code: {"PENDING", "OK", "VALIDATION", "NOT_FOUND", "ERROR"},
          rows: SUBSET Vehicle]

Pending     == [code |-> "PENDING", rows |-> {}]
Found(rows) == [code |-> "OK", rows |-> rows]
Failed(why) == [code |-> why, rows |-> {}]

TypeOK ==
  /\ users \in [Drivers -> {"NONE", "ACTIVE", "DELETED"}]
  /\ vehicles \subseteq Vehicle
  /\ pc \in [Callers -> PCs]
  /\ call \in [Callers -> Calls \cup {NoCall}]
  /\ reply \in [Callers -> Reply]
  /\ told \subseteq Vehicle

Init ==
  /\ users = [d \in Drivers |-> "NONE"]
  /\ vehicles = {} /\ told = {}
  /\ pc = [p \in Callers |-> "idle"]
  /\ call = [p \in Callers |-> NoCall]
  /\ reply = [p \in Callers |-> Pending]

-----------------------------------------------------------------------------
Goto(p, from, to) == pc[p] = from /\ pc' = [pc EXCEPT ![p] = to]

Finish(p, from, answer) ==
  /\ Goto(p, from, "done")
  /\ reply' = [reply EXCEPT ![p] = answer]

\* Validate() of RegisterVehicleRequest, and the blank test of ListVehicles.
Valid(c) ==
  /\ c.driver # NoDriver
  /\ c.kind = "register" => Normal[c.nopol] # BadPlate /\ c.type # BadType

FirstStatement == [register |-> "check", list |-> "list"]

Accept(p, c) ==
  /\ Valid(c)
  /\ Goto(p, "idle", FirstStatement[c.kind])
  /\ call' = [call EXCEPT ![p] = c]
  /\ UNCHANGED <<users, vehicles, reply, told>>

Reject(p, c) ==
  /\ ~Valid(c)
  /\ Finish(p, "idle", Failed("VALIDATION"))
  /\ call' = [call EXCEPT ![p] = c]
  /\ UNCHANGED <<users, vehicles, told>>

Deliver(p) ==
  /\ Goto(p, "done", "idle")
  /\ call' = [call EXCEPT ![p] = NoCall]
  /\ reply' = [reply EXCEPT ![p] = Pending]
  /\ UNCHANGED <<users, vehicles, told>>

StatementFails(p) ==
  /\ \E s \in Running : Finish(p, s, Failed("ERROR"))
  /\ UNCHANGED <<users, vehicles, call, told>>

-----------------------------------------------------------------------------
(* RegisterVehicle: GetByID, which also finds deleted drivers. *)

Registered(d) == users[d] # "NONE"

CheckFound(p) ==
  /\ Goto(p, "check", "upsert")
  /\ Registered(call[p].driver)
  /\ UNCHANGED <<users, vehicles, call, reply, told>>

CheckMissing(p) ==
  /\ pc[p] = "check" /\ ~Registered(call[p].driver)
  /\ Finish(p, "check", Failed("NOT_FOUND"))
  /\ UNCHANGED <<users, vehicles, call, told>>

(* RegisterVehicle: INSERT ... ON CONFLICT (driver_id, nopol) DO UPDATE. *)

Plate(p) == Normal[call[p].nopol]

\* Mutant: no unique index.
NoConflict(p) == {}

\* Mutant: UNIQUE (nopol).
ConflictingAnywhere(p) == {v \in vehicles : v.nopol = Plate(p)}

\* The rows the INSERT conflicts with.
Conflicting(p) == {v \in vehicles : v.driver = call[p].driver /\ v.nopol = Plate(p)}

FreshIds == VehicleIds \ {v.id : v \in vehicles}

Written(p, id) ==
  [id |-> id, driver |-> call[p].driver, nopol |-> Plate(p),
   type |-> call[p].type, default |-> call[p].default]

\* What follows the commit of row: RETURNING answers with it, or is lost.
Return(p, row) ==
  /\ \/ Finish(p, "upsert", Found({row})) /\ told' = told \cup {row}
     \/ Finish(p, "upsert", Failed("ERROR")) /\ UNCHANGED told
  /\ UNCHANGED <<users, call>>

\* The foreign key asks for the driver again.
InsertVehicle(p, id) ==
  /\ pc[p] = "upsert" /\ Conflicting(p) = {} /\ Registered(call[p].driver)
  /\ vehicles' = vehicles \cup {Written(p, id)}
  /\ Return(p, Written(p, id))

\* Mutant: the row is replaced, under an id of its own.
ReplaceVehicle(p, old) ==
  /\ pc[p] = "upsert" /\ old \in Conflicting(p)
  /\ \E id \in FreshIds :
       /\ vehicles' = (vehicles \ {old}) \cup {Written(p, id)}
       /\ Return(p, Written(p, id))

\* Mutant: the SET clause leaves the type out.
UpdateVehicleKeeps(p, old) ==
  /\ pc[p] = "upsert" /\ old \in Conflicting(p)
  /\ vehicles' = (vehicles \ {old}) \cup {[old EXCEPT !.default = call[p].default]}
  /\ Return(p, [old EXCEPT !.default = call[p].default])

\* The other plates of the driver keep their is_default, also when this one
\* is to be the default (against openapi-spec.yaml:139).
UpdateVehicle(p, old) ==
  /\ pc[p] = "upsert" /\ old \in Conflicting(p)
  /\ vehicles' = (vehicles \ {old}) \cup {Written(p, old.id)}
  /\ Return(p, Written(p, old.id))

-----------------------------------------------------------------------------
(* ListVehicles; the driver is not looked up. *)

\* Mutant: no WHERE clause.
Everybodys(d) == vehicles

Owned(d) == {v \in vehicles : v.driver = d}

List(p) ==
  /\ Finish(p, "list", Found(Owned(call[p].driver)))
  /\ told' = told \cup Owned(call[p].driver)
  /\ UNCHANGED <<users, vehicles, call>>

-----------------------------------------------------------------------------
(* The INSERT of a registration, and SoftDelete. *)

Enrol(d) ==
  /\ users[d] = "NONE"
  /\ users' = [users EXCEPT ![d] = "ACTIVE"]
  /\ UNCHANGED <<vehicles, pc, call, reply, told>>

Retire(d) ==
  /\ users[d] = "ACTIVE"
  /\ users' = [users EXCEPT ![d] = "DELETED"]
  /\ UNCHANGED <<vehicles, pc, call, reply, told>>

-----------------------------------------------------------------------------
Upsert(p) ==
  \/ \E id \in FreshIds : InsertVehicle(p, id)
  \/ \E old \in vehicles : UpdateVehicle(p, old)

\* A statement that is answered by the database.
Progress(p) == CheckFound(p) \/ CheckMissing(p) \/ Upsert(p) \/ List(p)

Next ==
  \/ \E p \in Callers : \/ \E c \in Calls : Accept(p, c) \/ Reject(p, c)
                        \/ Progress(p) \/ StatementFails(p)
                        \/ Deliver(p)
  \/ \E d \in Drivers : Enrol(d) \/ Retire(d)

Spec == Init /\ [][Next]_vars

-----------------------------------------------------------------------------
(* One row per driver and plate, however the plate was spelled, whoever    *)
(* raced and however often a call was repeated; and no id is shared.       *)
OneVehiclePerPlate ==
  \A v, w \in vehicles :
    v.id = w.id \/ (v.driver = w.driver /\ v.nopol = w.nopol) => v = w

(* A caller that passed the look-up, and every vehicle, belongs to a       *)
(* driver on record, although nothing holds the driver between the two     *)
(* statements: the foreign key never fires.                                *)
OwnersAreOnRecord ==
  /\ \A v \in vehicles : Registered(v.driver)
  /\ \A p \in Callers : pc[p] = "upsert" => Registered(call[p].driver)

(* What a caller was told is never taken back: the plate is still listed   *)
(* for that driver under the id that was given out, and a registration was *)
(* answered with the plate it asked for, as it asked for it.               *)
ToldIsOnRecord ==
  /\ \A t \in told : \E v \in vehicles :
       v.id = t.id /\ v.driver = t.driver /\ v.nopol = t.nopol
  /\ \A p \in Callers :
       reply[p].code = "OK" /\ call[p].kind = "register" =>
         \E id \in VehicleIds : reply[p].rows = {Written(p, id)}

(* A listing shows one driver's plates and all that were acknowledged for  *)
(* that driver up to the statement that reads them.                        *)
ListingIsComplete ==
  [][\A p \in Callers : pc[p] = "list" /\ reply'[p].code = "OK" =>
       /\ \A v \in reply'[p].rows : v.driver = call[p].driver
       /\ \A t \in told : t.driver = call[p].driver =>
            \E v \in reply'[p].rows : v.id = t.id /\ v.nopol = t.nopol]_vars

(* A registration leaves other drivers' vehicles alone, and every vehicle  *)
(* keeps its id, driver and plate.  Of another plate of its own driver a   *)
(* registration may at most take back the default, as the API promises for *)
(* one that asks for it (and as none does: DefaultUnsetsPrevious).         *)
OnlyOwnPlateChanges ==
  [][\A v \in vehicles : \E w \in vehicles' :
       /\ w.id = v.id /\ w.driver = v.driver /\ w.nopol = v.nopol
       /\ w = v \/ \E p \in Callers :
            /\ pc[p] = "upsert" /\ pc'[p] = "done" /\ call[p].driver = v.driver
            /\ \/ w = Written(p, v.id)
               \/ /\ v.nopol # Plate(p) /\ call[p].default
                  /\ w = [v EXCEPT !.default = FALSE]]_vars

(* What the API documents (openapi-spec.yaml:139) of is_default: a         *)
(* registration that asks for it and is acknowledged leaves the driver no  *)
(* other default.  The upsert does not do this.                            *)
DefaultUnsetsPrevious ==
  [][\A p \in Callers :
       pc[p] = "upsert" /\ call[p].default /\ reply'[p].code = "OK" =>
         \A v \in vehicles' :
           v.driver = call[p].driver /\ v.default => v.nopol = Plate(p)]_vars

-----------------------------------------------------------------------------
(* The promise: what a caller sees of the table and of the calls.          *)
Shown(v) == [id |-> v.id, plate |-> v.nopol, type |-> v.type]

PageOf(d) == {Shown(v) : v \in Owned(d)}

StageOf(p) == IF pc[p] \in Running THEN "working" ELSE pc[p]

\* A spelling counts as the plate it stands for; a malformed call is none.
RequestOf(c) == [kind |-> c.kind, driver |-> c.driver,
                 plate |-> Normal[c.nopol], type |-> c.type]

AskedBy(p) == IF call[p] # NoCall /\ Valid(call[p]) THEN RequestOf(call[p])
                                                   ELSE NoCall

ToldTo(p) == [code |-> reply[p].code, entries |-> {Shown(v) : v \in reply[p].rows}]

Register == INSTANCE PlateRegister WITH
              Ids <- VehicleIds, NoRequest <- NoCall,
              Requests <- {RequestOf(c) : c \in {d \in Calls : Valid(d)}},
              joined <- {d \in Drivers : Registered(d)},
              page <- [d \in Drivers |-> PageOf(d)],
              stage <- [p \in Callers |-> StageOf(p)],
              asked <- [p \in Callers |-> AskedBy(p)],
              answer <- [p \in Callers |-> ToldTo(p)]

(* The check and the upsert of racing registrations, in any spelling, with *)
(* lost replies and drivers who join and are deleted in between, look to   *)
(* the callers like atomic operations on one register: a page never shows  *)
(* a plate twice or under another id, and NOT_FOUND is said only of a      *)
(* driver who has never joined.                                            *)
ImplementsRegister == Register!Spec
=============================================================================
