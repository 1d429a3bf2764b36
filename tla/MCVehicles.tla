----------------------------- MODULE MCVehicles -----------------------------
(* Small instances of Vehicles. *)
EXTENDS Vehicles, TLC

CONSTANTS p1, p2, d1, d2, v1, v2, v3, b1, b2, s1, s1spaced, s2, sbad

\* Two spellings of the first plate.
MCNormal == s1 :> b1 @@ s1spaced :> b1 @@ s2 :> b2 @@ sbad :> BadPlate

Reg(d, s, t, def) ==
  [kind |-> "register", driver |-> d, nopol |-> s, type |-> t, default |-> def]
Lst(d) == [kind |-> "list", driver |-> d, nopol |-> sbad, type |-> BadType,
           default |-> FALSE]

\* Two drivers of one plate, a plate in two spellings and two types, a driver
\* of two plates, listings, and the requests each check refuses.
MCCalls ==
  { Reg(d1, s1, "CAR", TRUE), Reg(d1, s1spaced, "MOTORCYCLE", FALSE),
    Reg(d1, s2, "CAR", TRUE), Reg(d2, s1, "CAR", FALSE),
    Lst(d1), Lst(NoDriver), Reg(d1, sbad, "CAR", FALSE), Reg(d1, s1, BadType, FALSE) }

MCSymmetry == Permutations(Callers) \cup Permutations(VehicleIds)
=============================================================================
