------------------------------ MODULE UserModel ------------------------------
(***************************************************************************)
(* The user domain of internal/user/model: the row of user_profile, the    *)
(* requests that register a driver, their validation, and the three row    *)
(* transformers the SQL statements of repository/postgres apply.           *)
(*                                                                         *)
(* A string is a value of a constant set.  Blank is the empty string,      *)
(* BadPhone any text the E.164 expression rejects.  E-mail, which every    *)
(* statement treats exactly as it treats the phone number, and the two     *)
(* timestamps are left out.                                                *)
(***************************************************************************)
EXTENDS Naturals

CONSTANTS RowIds,       \* the uuids the database generates
          ExtIds,       \* super-app identities (the sub claim)
          Phones,       \* well-formed E.164 numbers
          Names,        \* full names
          DefaultName,  \* the literal "Driver"
          Blank,        \* the empty string
          BadPhone,     \* a phone that is not E.164
          NoRow         \* sql.ErrNoRows: no such row

Active  == "ACTIVE"
Deleted == "DELETED"

\* SUSPENDED is declared by the schema, but no statement ever writes it.
Status == {Active, Deleted}

Row == [id: RowIds, ext: ExtIds, phone: Phones \cup {Blank},
        name: Names \cup {DefaultName}, status: Status, version: Nat \ {0}]

\* A CreateUserRequest or an UpsertDriverRequest.
Request == [kind: {"create", "upsert"}, ext: ExtIds \cup {Blank},
            phone: Phones \cup {Blank, BadPhone}, name: Names \cup {Blank}]

ASSUME ValuesAreDistinct ==
  /\ Blank \notin ExtIds \cup Phones \cup Names
  /\ BadPhone \notin Phones \cup {Blank}
  /\ DefaultName # Blank
  /\ NoRow \notin Row

-----------------------------------------------------------------------------
(* Validate() of the two requests. *)

ValidCreate(req) == req.name # Blank /\ req.phone # BadPhone

ValidUpsert(req) == req.phone \in Phones

Valid(req) ==
  /\ req.ext # Blank
  /\ IF req.kind = "create" THEN ValidCreate(req) ELSE ValidUpsert(req)

\* The name that is stored: GetOrCreateByMSISDN replaces an empty one.
StoredName(req) ==
  IF req.kind = "upsert" /\ req.name = Blank THEN DefaultName ELSE req.name

(* What a usecase returns: a row, or the code of an error. *)

Pending     == [code |-> "PENDING", row |-> NoRow]
Found(row)  == [code |-> "OK", row |-> row]
Failed(why) == [code |-> why, row |-> NoRow]

\* The one row scanOne reads of a result, NoRow when there is none.
ScanOne(result) == IF result = {} THEN NoRow ELSE CHOOSE r \in result : TRUE

(* The rows the INSERT and the two UPDATE statements write. *)

NewRow(req, id) ==
  [id |-> id, ext |-> req.ext, phone |-> req.phone, name |-> StoredName(req),
   status |-> Active, version |-> 1]

\* A patch of UpdateUser: Blank leaves the column as it is.
Patch == [name: Names \cup {Blank}, phone: Phones \cup {Blank}]

\* COALESCE(NULLIF(new, ''), old)
Overlay(new, old) == IF new = Blank THEN old ELSE new

Patched(r, patch) ==
  [id |-> r.id, ext |-> r.ext,
   phone |-> Overlay(patch.phone, r.phone), name |-> Overlay(patch.name, r.name),
   status |-> r.status, version |-> r.version + 1]

Retired(r) ==
  [id |-> r.id, ext |-> r.ext, phone |-> r.phone, name |-> r.name,
   status |-> Deleted, version |-> r.version + 1]
=============================================================================
