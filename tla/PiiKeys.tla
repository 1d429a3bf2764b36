------------------------------- MODULE PiiKeys -------------------------------
(***************************************************************************)
(* The encryption of phone number and e-mail (repository/postgres): the    *)
(* columns are encrypted and decrypted inside the statements, with the key *)
(* that the process read from its configuration (pkg/configs) when it      *)
(* started.  Processes come and go, in a deployment two generations run    *)
(* side by side, and they share Postgres and Redis but not necessarily the *)
(* key.  pgp_sym_decrypt raises an error under another key than the one    *)
(* the value was encrypted with, and an error undoes its whole statement.  *)
(*                                                                         *)
(* A row is described by the keys of its two columns.  A usecase is one    *)
(* step, but for the Set with which a read ends; how the other commands    *)
(* interleave is the subject of ProfileCache.                              *)
(***************************************************************************)
EXTENDS Naturals, FiniteSets, FiniteSetsExt

CONSTANTS Processes,
          Keys, DefaultKey,  \* the default of PG_CRYPTO_KEY is one of the keys
          Unset,             \* PG_CRYPTO_KEY is not set
          Environments,      \* what a process may be started with
          Down,              \* the process does not run
          Drivers, NoRow,
          PageSize,
          MaxVersion         \* bound: edits stop at this version

Row == [phone: Keys, email: Keys, deleted: BOOLEAN, version: Nat \ {0}]

Environment == [production: BOOLEAN, os: Keys \cup {Unset}, file: Keys \cup {Unset}]

ASSUME PiiAssumption ==
  /\ DefaultKey \in Keys /\ Unset \notin Keys /\ Down \notin Keys
  /\ Environments \subseteq Environment
  /\ NoRow \notin Row \cup (Drivers \X Row)
  /\ PageSize \in Nat \ {0} /\ MaxVersion \in Nat \ {0}

VARIABLES running,  \* process -> its key, or Down
          row,      \* user_profile, by driver
          cache,    \* Redis, by driver: the plaintext of a row
          held,     \* process -> the driver and the row a read is about to set
          writer,   \* history: driver -> the key of the process that wrote last
          answer    \* what the last call was answered

vars == <<running, row, cache, held, writer, answer>>

Outcomes == {"none", "OK", "CONFLICT", "NOT_FOUND", "ERROR"}

TypeOK ==
  /\ running \in [Processes -> Keys \cup {Down}]
  /\ row \in [Drivers -> Row \cup {NoRow}]
  /\ cache \in [Drivers -> Row \cup {NoRow}]
  /\ held \in [Processes -> (Drivers \X Row) \cup {NoRow}]
  /\ writer \in [Drivers -> Keys \cup {Unset}]
  /\ answer \in [code: Outcomes, listed: BOOLEAN, page: SUBSET Drivers]

Answered(code) == [code |-> code, listed |-> FALSE, page |-> {}]
Listed(page) == [code |-> "OK", listed |-> TRUE, page |-> page]

Say(code) == answer' = Answered(code)

Init ==
  /\ running = [i \in Processes |-> Down]
  /\ row = [d \in Drivers |-> NoRow]
  /\ cache = [d \in Drivers |-> NoRow]
  /\ held = [i \in Processes |-> NoRow]
  /\ writer = [d \in Drivers |-> Unset]
  /\ answer = Answered("none")

-----------------------------------------------------------------------------
(* NewConfig: the environment first, then, outside production, configs/.env, *)
(* which overrides nothing, then the default.                               *)
PgCryptoKey(env) ==
  IF env.os # Unset THEN env.os
  ELSE IF ~env.production /\ env.file # Unset THEN env.file
  ELSE DefaultKey

Start(i, env) ==
  /\ running[i] = Down
  /\ running' = [running EXCEPT ![i] = PgCryptoKey(env)]
  /\ UNCHANGED <<row, cache, held, writer, answer>>

Stop(i) ==
  /\ running[i] # Down
  /\ running' = [running EXCEPT ![i] = Down]
  /\ held' = [held EXCEPT ![i] = NoRow]
  /\ UNCHANGED <<row, cache, writer, answer>>

-----------------------------------------------------------------------------
Present(d) == row[d] # NoRow
Live(d)    == Present(d) /\ ~row[d].deleted

\* COALESCE(pgp_sym_decrypt(...), '') of both columns: no error under this key.
Decrypts(r, key) == r.phone = key /\ r.email = key

\* The statement commits; its outcome may be lost on the way back.
Written(d, r, key) ==
  /\ row' = [row EXCEPT ![d] = r]
  /\ writer' = [writer EXCEPT ![d] = key]
  /\ Say("OK") \/ Say("ERROR")

\* Both columns are encrypted, the empty string as well: the NULLIF compares two
\* ciphertexts of different salt.
Encrypted(key) == [phone |-> key, email |-> key, deleted |-> FALSE, version |-> 1]

\* CreateUser or UpsertDriver of a driver who is not on record.
Enrol(i, d) ==
  /\ ~Present(d)
  /\ Written(d, Encrypted(running[i]), running[i])
  /\ UNCHANGED <<cache, held>>

\* Mutant: a profile that cannot be read is taken for a missing one.
EnrolledAnew(i, d) ==
  /\ Present(d)
  /\ IF Decrypts(row[d], running[i])
     THEN Say("OK") /\ UNCHANGED <<row, writer>>
     ELSE Written(d, Encrypted(running[i]), running[i])
  /\ UNCHANGED <<cache, held>>

\* The same of one who is: the SELECT decrypts, and its error is not NOT_FOUND.
Enrolled(i, d) ==
  /\ Present(d)
  /\ Say(IF Decrypts(row[d], running[i]) THEN "OK" ELSE "ERROR")
  /\ UNCHANGED <<row, cache, held, writer>>

\* GetUserByID from Redis.
ReadCached(i, d) ==
  /\ cache[d] # NoRow
  /\ Say("OK")
  /\ UNCHANGED <<row, cache, held, writer>>

\* Mutant: what was read is kept whether or not it could be decrypted.
ReadStoredBlindly(i, d) ==
  /\ held[i] = NoRow /\ Present(d)
  /\ held' = [held EXCEPT ![i] = <<d, row[d]>>]
  /\ UNCHANGED <<row, cache, writer, answer>>

\* GetUserByID from Postgres, on a miss or when Redis fails.
ReadStored(i, d) ==
  /\ held[i] = NoRow /\ Present(d) /\ Decrypts(row[d], running[i])
  /\ held' = [held EXCEPT ![i] = <<d, row[d]>>]
  /\ UNCHANGED <<row, cache, writer, answer>>

ReadFails(i, d) ==
  /\ ~(Present(d) /\ Decrypts(row[d], running[i]))
  /\ Say(IF Present(d) THEN "ERROR" ELSE "NOT_FOUND")
  /\ UNCHANGED <<row, cache, held, writer>>

\* The Set, which may fail.
Fill(i) ==
  /\ held[i] # NoRow
  /\ cache' \in {cache, [cache EXCEPT ![held[i][1]] = held[i][2]]}
  /\ held' = [held EXCEPT ![i] = NoRow]
  /\ Say("OK")
  /\ UNCHANGED <<row, writer>>

\* The DEL after a write, which may fail.
Invalidated(d) == cache' \in {cache, [cache EXCEPT ![d] = NoRow]}

\* What the UPDATE makes of a row: columns that are supplied get this key.
Recoded(r, key, phone, email) ==
  [phone |-> IF phone THEN key ELSE r.phone, email |-> IF email THEN key ELSE r.email,
   deleted |-> FALSE, version |-> r.version + 1]

\* Mutant: the UPDATE returns nothing that has to be decrypted.
UpdateReturningNothing(i, d, expected, phone, email) ==
  /\ Live(d) /\ row[d].version = expected
  /\ Written(d, Recoded(row[d], running[i], phone, email), running[i])
  /\ Invalidated(d)
  /\ UNCHANGED held

\* UpdateUser of a row that matches: RETURNING decrypts both columns, and if it
\* cannot the UPDATE is undone.
Update(i, d, expected, phone, email) ==
  /\ Live(d) /\ row[d].version = expected
  /\ LET new == Recoded(row[d], running[i], phone, email) IN
     IF Decrypts(new, running[i])
     THEN Written(d, new, running[i]) /\ Invalidated(d)
     ELSE Say("ERROR") /\ UNCHANGED <<row, cache, writer>>
  /\ UNCHANGED held

\* No row matches: nothing is decrypted.
UpdateNothing(i, d, expected) ==
  /\ ~(Live(d) /\ row[d].version = expected)
  /\ Say("CONFLICT")
  /\ UNCHANGED <<row, cache, held, writer>>

Deleted(r) == [phone |-> r.phone, email |-> r.email, deleted |-> TRUE,
               version |-> r.version + 1]

\* DeleteUser touches no encrypted column.
Delete(i, d) ==
  /\ IF Live(d) THEN row' = [row EXCEPT ![d] = Deleted(@)] ELSE UNCHANGED row
  /\ Say(IF Present(d) THEN "OK" ELSE "NOT_FOUND")
  /\ IF Present(d) THEN Invalidated(d) ELSE UNCHANGED cache
  /\ UNCHANGED <<held, writer>>

-----------------------------------------------------------------------------
Listable == {d \in Drivers : Live(d)}

Length == IF Cardinality(Listable) < PageSize THEN Cardinality(Listable) ELSE PageSize

\* The first page of ListUsers.  Which rows it holds is left open.
List(i) ==
  /\ \E page \in kSubset(Length, Listable) :
       /\ \A d \in page : Decrypts(row[d], running[i])
       /\ answer' = Listed(page)
  /\ UNCHANGED <<row, cache, held, writer>>

\* One row that does not decrypt fails the whole statement; Postgres may have
\* decrypted it before it cut the page off.
ListFails(i) ==
  /\ \E d \in Listable : ~Decrypts(row[d], running[i])
  /\ Say("ERROR")
  /\ UNCHANGED <<row, cache, held, writer>>

Serve(i) ==
  /\ running[i] # Down
  /\ \/ \E d \in Drivers :
          \/ Enrol(i, d) \/ Enrolled(i, d)
          \/ ReadCached(i, d) \/ ReadStored(i, d) \/ ReadFails(i, d)
          \/ Delete(i, d)
          \/ \E v \in 1..MaxVersion :
               \/ UpdateNothing(i, d, v)
               \/ v < MaxVersion /\ \E phone, email \in BOOLEAN : Update(i, d, v, phone, email)
     \/ Fill(i)
     \/ List(i) \/ ListFails(i)
  /\ UNCHANGED running

\* The five minutes of a cached profile are over.
Expire(d) ==
  /\ cache[d] # NoRow
  /\ cache' = [cache EXCEPT ![d] = NoRow]
  /\ UNCHANGED <<running, row, held, writer, answer>>

Next ==
  \/ \E i \in Processes : (\E env \in Environments : Start(i, env)) \/ Stop(i) \/ Serve(i)
  \/ \E d \in Drivers : Expire(d)

(* Redis drops a key when its time is over.  Nothing makes a client call   *)
(* or a process start.                                                     *)
Fairness == \A d \in Drivers : WF_vars(Expire(d))

Spec == Init /\ [][Next]_vars /\ Fairness

-----------------------------------------------------------------------------
(* A row is never left with its two columns under different keys, and the  *)
(* key it is under is that of the process that wrote it last: however      *)
(* generations with different keys mix, a profile can be read in full by   *)
(* whoever wrote it last.                                                  *)
WriterCanRead ==
  \A d \in Drivers : Present(d) => Decrypts(row[d], writer[d])

(* A profile that cannot be read is not lost by that: no process with      *)
(* another key enrols its driver anew or takes it off the record; the      *)
(* version goes up by one with every write, under whichever key.           *)
ProfilesOnlyAdvance ==
  [][\A d \in Drivers : Present(d) /\ row'[d] # row[d] =>
       row'[d] # NoRow /\ row'[d].version = row[d].version + 1]_vars

(* A listing is whole or an error: a driver whose row is under another key *)
(* is never silently left out of a page.                                   *)
PageIsWhole ==
  [][answer' # answer /\ answer'.listed => Cardinality(answer'.page) = Length]_vars

(* Redis can show a profile that no running process can decrypt any more,  *)
(* but not for good: once every process runs under one key, what is cached *)
(* is in the end only what that key decrypts.                              *)
CacheForgetsOtherKeys ==
  \A key \in Keys :
    <>[](\A i \in Processes : running[i] \in {key, Down})
      => <>[](\A d \in Drivers : cache[d] # NoRow => Decrypts(cache[d], key))
=============================================================================
