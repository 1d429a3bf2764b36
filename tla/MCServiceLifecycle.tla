------------------------- MODULE MCServiceLifecycle -------------------------
(* A small instance of ServiceLifecycle: two requests of every kind. *)
EXTENDS ServiceLifecycle, TLC

CONSTANTS a1, a2, b1, b2, h1, h2

MCKind == a1 :> "rest" @@ a2 :> "rest" @@ b1 :> "rpc" @@ b2 :> "rpc"
            @@ h1 :> "health" @@ h2 :> "health"
=============================================================================
