--------------------------------- MODULE Wire ---------------------------------
(***************************************************************************)
(* What goes over the wire of the gRPC service: the messages and enums of  *)
(* api/proto/user/v1 as the generated code declares them, the methods of   *)
(* its ServiceDesc, which of them handler/grpc serves, and the conversions *)
(* of handler/grpc/mapper.go.                                              *)
(*                                                                         *)
(* Every message is proto3: a field that was not sent reads as its zero    *)
(* value, an enum may hold any int32.  A text is a value of a constant     *)
(* set; the timestamps are left out.                                       *)
(***************************************************************************)
EXTENDS Integers, Sequences

CONSTANTS Text,    \* strings
          Empty,   \* the empty one
          Phones,  \* those the E.164 expression accepts
          Emails,  \* those mail.ParseAddress accepts
          Plates   \* those the plate expression accepts once normalised

ASSUME WireAssumption ==
  Empty \in Text /\ Phones \cup Emails \cup Plates \subseteq Text \ {Empty}

MaxInt32 == 2147483647
MinInt32 == -MaxInt32 - 1
Int32    == MinInt32..MaxInt32

(* The enums, name -> number. *)

UserStatus  == [USER_STATUS_UNSPECIFIED |-> 0, USER_STATUS_ACTIVE |-> 1,
                USER_STATUS_SUSPENDED |-> 2, USER_STATUS_DELETED |-> 3]
VehicleType == [VEHICLE_TYPE_UNSPECIFIED |-> 0, VEHICLE_TYPE_CAR |-> 1,
                VEHICLE_TYPE_MOTORCYCLE |-> 2]

-----------------------------------------------------------------------------
(* The messages. *)

User    == [id: Text, external_user_id: Text, full_name: Text, phone_e164: Text,
            email: Text, status: Int32, version: Int32]
Vehicle == [id: Text, driver_id: Text, nopol: Text, vehicle_type: Int32,
            is_default: BOOLEAN]

CreateUserRequest   == [external_user_id: Text, full_name: Text, phone_e164: Text,
                        email: Text]
UpsertDriverRequest == [phone_e164: Text, external_user_id: Text, full_name: Text]
GetUserByIdRequest  == [id: Text]
GetUserByExternalIdRequest == [external_user_id: Text]
UpdateUserRequest   == [id: Text, full_name: Text, phone_e164: Text, email: Text,
                        expected_version: Int32]
DeleteUserRequest   == [id: Text]
DeleteUserResponse  == [ok: BOOLEAN]
ListUsersRequest    == [limit: Int32, offset: Int32, status_filter: Int32]
ListUsersResponse   == [users: Seq(User), total: Int32]
RegisterVehicleRequest == [driver_id: Text, nopol: Text, vehicle_type: Int32,
                           is_default: BOOLEAN]
ListVehiclesRequest    == [driver_id: Text]
ListVehiclesResponse   == [vehicles: Seq(Vehicle)]
GetDefaultPaymentMethodRequest == [user_id: Text]
PaymentMethodResponse  == [type: Text, last4: Text, brand: Text]

\* What the client's stub of a method sends, and decodes of an answer.
Sends ==
  [CreateUser |-> CreateUserRequest, UpsertDriver |-> UpsertDriverRequest,
   GetUserById |-> GetUserByIdRequest, GetUserByExternalId |-> GetUserByExternalIdRequest,
   UpdateUser |-> UpdateUserRequest, DeleteUser |-> DeleteUserRequest,
   ListUsers |-> ListUsersRequest, RegisterVehicle |-> RegisterVehicleRequest,
   ListVehicles |-> ListVehiclesRequest,
   GetDefaultPaymentMethod |-> GetDefaultPaymentMethodRequest]

Receives ==
  [CreateUser |-> User, UpsertDriver |-> User, GetUserById |-> User,
   GetUserByExternalId |-> User, UpdateUser |-> User, DeleteUser |-> DeleteUserResponse,
   ListUsers |-> ListUsersResponse, RegisterVehicle |-> Vehicle,
   ListVehicles |-> ListVehiclesResponse,
   GetDefaultPaymentMethod |-> PaymentMethodResponse]

-----------------------------------------------------------------------------
(* The methods. *)

ServiceDesc == {"CreateUser", "UpsertDriver", "GetUserById", "GetUserByExternalId",
                "UpdateUser", "DeleteUser", "ListUsers", "RegisterVehicle",
                "ListVehicles", "GetDefaultPaymentMethod"}

\* The stubs of UnimplementedUserServiceServer that userHandler leaves in place:
\* its methods are called GetUserByID and GetUserByExternalID, and the handler
\* of payment methods is a type of its own that nobody registers.
Unimplemented == {"GetUserById", "GetUserByExternalId", "GetDefaultPaymentMethod"}

Served == ServiceDesc \ Unimplemented

(* mapper.go: an enum the mapper does not list is "" one way, 0 the other. *)

ModelStatus  == {"ACTIVE", "SUSPENDED", "DELETED"}
ModelVehicle == {"CAR", "MOTORCYCLE"}

StatusToProto(s) ==
  CASE s = "ACTIVE"    -> UserStatus.USER_STATUS_ACTIVE
    [] s = "SUSPENDED" -> UserStatus.USER_STATUS_SUSPENDED
    [] s = "DELETED"   -> UserStatus.USER_STATUS_DELETED
    [] OTHER           -> UserStatus.USER_STATUS_UNSPECIFIED

StatusFromProto(n) ==
  CASE n = UserStatus.USER_STATUS_ACTIVE    -> "ACTIVE"
    [] n = UserStatus.USER_STATUS_SUSPENDED -> "SUSPENDED"
    [] n = UserStatus.USER_STATUS_DELETED   -> "DELETED"
    [] OTHER                                -> ""

VehicleTypeToProto(v) ==
  CASE v = "CAR"        -> VehicleType.VEHICLE_TYPE_CAR
    [] v = "MOTORCYCLE" -> VehicleType.VEHICLE_TYPE_MOTORCYCLE
    [] OTHER            -> VehicleType.VEHICLE_TYPE_UNSPECIFIED

VehicleTypeFromProto(n) ==
  CASE n = VehicleType.VEHICLE_TYPE_CAR        -> "CAR"
    [] n = VehicleType.VEHICLE_TYPE_MOTORCYCLE -> "MOTORCYCLE"
    [] OTHER                                   -> ""

\* toUserProto and toVehicleProto.  The versions are an INTEGER column, so that
\* int32 loses nothing of them.
ToUserProto(u) ==
  [id |-> u.ID, external_user_id |-> u.ExternalUserID, full_name |-> u.FullName,
   phone_e164 |-> u.PhoneE164, email |-> u.Email, status |-> StatusToProto(u.Status),
   version |-> u.Version]

ToVehicleProto(v) ==
  [id |-> v.ID, driver_id |-> v.DriverID, nopol |-> v.Nopol,
   vehicle_type |-> VehicleTypeToProto(v.VehicleType), is_default |-> v.IsDefault]

-----------------------------------------------------------------------------
(* Validate() of what the handlers make of a request.  DeleteUser and      *)
(* ListUsers check nothing.                                                *)

Optional(t, accepted) == t = Empty \/ t \in accepted

ValidCreateUser(in) ==
  /\ in.external_user_id # Empty /\ in.full_name # Empty
  /\ Optional(in.phone_e164, Phones) /\ Optional(in.email, Emails)

ValidUpsertDriver(in) == in.external_user_id # Empty /\ in.phone_e164 \in Phones

ValidUpdateUser(in) ==
  in.id # Empty /\ Optional(in.phone_e164, Phones) /\ Optional(in.email, Emails)

ValidRegisterVehicle(in) ==
  /\ in.driver_id # Empty /\ in.nopol \in Plates
  /\ VehicleTypeFromProto(in.vehicle_type) \in ModelVehicle

ValidListVehicles(in) == in.driver_id # Empty

Valid(method, in) ==
  CASE method = "CreateUser"      -> ValidCreateUser(in)
    [] method = "UpsertDriver"    -> ValidUpsertDriver(in)
    [] method = "UpdateUser"      -> ValidUpdateUser(in)
    [] method = "RegisterVehicle" -> ValidRegisterVehicle(in)
    [] method = "ListVehicles"    -> ValidListVehicles(in)
    [] OTHER                      -> TRUE
=============================================================================
