--------------------------- MODULE DriverDirectory ---------------------------
(***************************************************************************)
(* What lazy registration promises its callers: a directory that holds at  *)
(* most one profile per external identity and answers a valid request,     *)
(* atomically, with the profile of its caller, created on first contact.   *)
(* A call may also fail, having registered the driver or not; it never     *)
(* reports a lost race.  The other RPCs may edit or retire a profile.      *)
(***************************************************************************)
EXTENDS UserModel

CONSTANTS Callers, Requests, NoRequest, MaxVersion

VARIABLES dir,     \* external identity -> its profile, or NoRow
          asked,   \* caller -> the request being served, or NoRequest
          answer   \* caller -> the answer given, or Pending

vars == <<dir, asked, answer>>

UsedIds == {dir[e].id : e \in {x \in ExtIds : dir[x] # NoRow}}

Init == /\ dir = [e \in ExtIds |-> NoRow]
        /\ asked = [p \in Callers |-> NoRequest]
        /\ answer = [p \in Callers |-> Pending]

Ask(p, req) ==
  /\ asked[p] = NoRequest
  /\ asked' = [asked EXCEPT ![p] = req]
  /\ answer' = [answer EXCEPT ![p] = IF Valid(req) THEN Pending
                                                    ELSE Failed("VALIDATION")]
  /\ UNCHANGED dir

Waiting(p) == asked[p] # NoRequest /\ answer[p] = Pending

Answer(p, a) == answer' = [answer EXCEPT ![p] = a] /\ UNCHANGED asked

\* The caller is known.
Return(p) ==
  /\ Waiting(p) /\ dir[asked[p].ext] # NoRow
  /\ Answer(p, Found(dir[asked[p].ext]))
  /\ UNCHANGED dir

\* First contact: the profile is created, whether or not the caller is told.
Create(p, id) ==
  /\ Waiting(p) /\ dir[asked[p].ext] = NoRow
  /\ id \notin UsedIds
  /\ dir' = [dir EXCEPT ![asked[p].ext] = NewRow(asked[p], id)]
  /\ \/ Answer(p, Found(NewRow(asked[p], id)))
     \/ Answer(p, Failed("ERROR"))

Fail(p) == Waiting(p) /\ Answer(p, Failed("ERROR")) /\ UNCHANGED dir

Forget(p) ==
  /\ answer[p] # Pending
  /\ asked' = [asked EXCEPT ![p] = NoRequest]
  /\ answer' = [answer EXCEPT ![p] = Pending]
  /\ UNCHANGED dir

Resolve(p) == Return(p) \/ Fail(p) \/ \E id \in RowIds : Create(p, id)

Edit(e, patch) ==
  /\ dir[e] # NoRow /\ dir[e].status # Deleted /\ dir[e].version < MaxVersion
  /\ dir' = [dir EXCEPT ![e] = Patched(dir[e], patch)]
  /\ UNCHANGED <<asked, answer>>

Retire(e) ==
  /\ dir[e] # NoRow /\ dir[e].status # Deleted
  /\ dir' = [dir EXCEPT ![e] = Retired(dir[e])]
  /\ UNCHANGED <<asked, answer>>

Next == \/ \E p \in Callers : \/ \E req \in Requests : Ask(p, req)
                              \/ Resolve(p)
                              \/ Forget(p)
        \/ \E e \in ExtIds : Retire(e) \/ \E patch \in Patch : Edit(e, patch)

Fairness == \A p \in Callers : WF_vars(Resolve(p))

\* Spec without its fairness.
SafeSpec == Init /\ [][Next]_vars

Spec == SafeSpec /\ Fairness
=============================================================================
