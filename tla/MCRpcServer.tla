---------------------------- MODULE MCRpcServer ----------------------------
(* Small instances of RpcServer. *)
EXTENDS RpcServer

CONSTANTS c1, c2, c3, k1, a1, a2

R(m, k, ok, e, x) ==
  [method |-> m, key |-> k, valid |-> ok, expected |-> e, value |-> x]

Three(r1, r2, r3) == [c \in {c1, c2, c3} |-> IF c = c1 THEN r1 ELSE IF c = c2 THEN r2 ELSE r3]

\* Two clients that read version 1, one of which has no key, and a deletion.
Rivals == Three(R("UpdateUser", k1, TRUE, 1, a1), R("UpdateUser", NoKey, TRUE, 1, a2),
                R("DeleteUser", NoKey, TRUE, 0, a1))

\* A deletion, sent again, beside an update and a registration.
Deletion == Three(R("DeleteUser", NoKey, TRUE, 0, a1), R("UpdateUser", k1, TRUE, 1, a2),
                  R("RegisterVehicle", NoKey, TRUE, 0, a1))

\* A registration with a key, an invalid deletion and a look-up.
Mixed == Three(R("RegisterVehicle", k1, TRUE, 0, a1), R("DeleteUser", NoKey, FALSE, 0, a1),
               R("GetUserById", NoKey, TRUE, 0, a1))

\* The server as main.go builds it, and with a store.
MCScenarios == [wired: BOOLEAN, request: {Rivals, Deletion, Mixed}]

MCUnwired == {[wired |-> FALSE, request |-> Mixed]}

MCTries == [c \in Clients |-> IF c = c1 THEN 2 ELSE 1]
=============================================================================
