----------------------------- MODULE MCCallPath -----------------------------
(* A small instance of CallPath. *)
EXTENDS CallPath, TLC

CONSTANTS c1, c2, t, empty, phone, plate

\* A driver somebody suspended by hand, and his car.
MCUser == [ID |-> t, ExternalUserID |-> t, FullName |-> t, PhoneE164 |-> phone,
           Email |-> empty, Status |-> "SUSPENDED", Version |-> 1]
MCVehicle == [ID |-> t, DriverID |-> t, Nopol |-> plate, VehicleType |-> "CAR",
              IsDefault |-> TRUE]

Rpc(m, in, d) == [via |-> "grpc", method |-> m, in |-> in, deadline |-> d]
Rest(m)       == [via |-> "rest", method |-> m, in |-> None, deadline |-> None]

Enrol(p)     == [phone_e164 |-> p, external_user_id |-> t, full_name |-> empty]
Plate(d, ty) == [driver_id |-> d, nopol |-> plate, vehicle_type |-> ty,
                 is_default |-> FALSE]
Patch(i)     == [id |-> i, full_name |-> t, phone_e164 |-> empty, email |-> empty,
                 expected_version |-> 1]

\* Each method with the default deadline, one with a shorter and one with a
\* longer one, the requests each Validate refuses, the stubs, and REST.
MCOffers ==
  { Rpc("CreateUser", [external_user_id |-> t, full_name |-> empty,
                       phone_e164 |-> phone, email |-> empty], None),
    Rpc("UpsertDriver", Enrol(phone), 1), Rpc("UpsertDriver", Enrol(t), None),
    Rpc("UpdateUser", Patch(t), None), Rpc("UpdateUser", Patch(empty), None),
    Rpc("DeleteUser", [id |-> t], 3),
    Rpc("ListUsers", [limit |-> 0, offset |-> 0, status_filter |-> 7], None),
    Rpc("RegisterVehicle", Plate(t, 1), None), Rpc("RegisterVehicle", Plate(t, 0), None),
    Rpc("ListVehicles", [driver_id |-> empty], None),
    Rpc("GetUserById", [id |-> t], None),
    Rest("getMe"), Rest("updateMe") }
=============================================================================
