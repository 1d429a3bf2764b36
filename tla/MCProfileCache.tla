---------------------------- MODULE MCProfileCache ----------------------------
(* Small instances of ProfileCache. *)
EXTENDS ProfileCache

CONSTANTS p1, p2, u1, u2, e1, ph1, n1, n2

MCProfiles ==
  { [id |-> u1, ext |-> e1, phone |-> ph1, name |-> n1,
     status |-> Active, version |-> 1] }

NoChange == [name |-> Blank, phone |-> Blank]
Rename(n) == [name |-> n, phone |-> Blank]

Get(id)       == [kind |-> "get", id |-> id, patch |-> NoChange, expected |-> 0]
Del(id)       == [kind |-> "delete", id |-> id, patch |-> NoChange, expected |-> 0]
Put(id, v, n) == [kind |-> "update", id |-> id, patch |-> Rename(n), expected |-> v]

\* Two clients that read version 1 and want different names, one that read
\* version 2; readers and deleters; and the id u2 that was never registered.
MCCalls == { Get(u1), Del(u1), Put(u1, 1, n1), Put(u1, 1, n2), Put(u1, 2, n1),
             Get(u2), Del(u2), Put(u2, 1, n1) }

\* The registered driver alone, never deleted.
MCReadAndUpdate == { Get(u1), Put(u1, 1, n2), Put(u1, 2, n1) }
=============================================================================
