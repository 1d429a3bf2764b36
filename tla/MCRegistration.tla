---------------------------- MODULE MCRegistration ----------------------------
(* A small instance of Registration. *)
EXTENDS Registration

CONSTANTS p1, p2, u1, u2, e1, e2, ph1, n1

Req(k, e, ph, n) == [kind |-> k, ext |-> e, phone |-> ph, name |-> n]

\* Two drivers, both RPCs, and requests each validator refuses.
MCRequests ==
  { Req("create", e1, Blank, n1), Req("upsert", e1, ph1, Blank),
    Req("upsert", e2, ph1, n1), Req("create", Blank, ph1, n1),
    Req("create", e1, BadPhone, n1), Req("upsert", e2, Blank, n1) }
=============================================================================
