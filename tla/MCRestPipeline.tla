---------------------------- MODULE MCRestPipeline ----------------------------
(* A small instance of RestPipeline. *)
EXTENDS RestPipeline, TLC

CONSTANTS e1, e2, f1, n1, s1, s2, p1, p2, u1, u2

T(ext, phone, exp, signer) ==
  [bearer |-> TRUE, header |-> TRUE, alg |-> "RS256", claims |-> TRUE, exp |-> exp,
   signer |-> signer, ext |-> ext, phone |-> phone]

\* Two drivers with one phone number; the token of the first expires after 1.
Short  == T(e1, f1, 1, s1)
Long   == T(e2, f1, 0, s1)
Forged == T(e1, f1, 1, s2)

\* Everything else that can be wrong with a header.
Odd == {[Short EXCEPT !.bearer = FALSE], [Short EXCEPT !.header = FALSE],
        [Short EXCEPT !.alg = "other"], [Short EXCEPT !.claims = FALSE],
        [Long EXCEPT !.ext = Blank], [Long EXCEPT !.phone = BadPhone]}

MCTokens == {Short, Long, Forged} \cup Odd

C(route, token, expected) ==
  [route |-> route, token |-> token, bound |-> TRUE, valid |-> TRUE,
   expected |-> expected, plate |-> n1]

\* Two clients: one comes with every token, the other with one of each kind.
MCCalls ==
  [p \in Callers |-> IF p = p1
     THEN {C("getMe", t, 0) : t \in Odd \cup {Forged}}
            \cup {C("updateMe", Short, 1), C("updateMe", Forged, 0),
                  C("listVehicles", Short, 0), C("registerVehicle", Long, 0),
                  [C("registerVehicle", Forged, 0) EXCEPT !.bound = FALSE],
                  [C("updateMe", Forged, 0) EXCEPT !.valid = FALSE]}
     ELSE {C("updateMe", Short, 1), C("registerVehicle", Short, 0)}]

MCSymmetry == Permutations({u1, u2})
=============================================================================
