------------------------------ MODULE PiiProofs ------------------------------
(***************************************************************************)
(* Proofs about PiiKeys, for any processes, keys, environments and drivers *)
(* and any page size.  Type correctness and WriterCanRead are inductive    *)
(* together; the action properties need only the type of the rows.         *)
(***************************************************************************)
EXTENDS PiiKeys, TLAPS

IInv == TypeOK /\ WriterCanRead

\* The action properties, as steps.
Advances ==
  \A d \in Drivers : Present(d) /\ row'[d] # row[d] =>
    row'[d] # NoRow /\ row'[d].version = row[d].version + 1

Whole == answer' # answer /\ answer'.listed => Cardinality(answer'.page) = Length

Good == IInv' /\ Advances /\ Whole

Answers == [code: Outcomes, listed: BOOLEAN, page: SUBSET Drivers]

LEMMA RowIsRow == ASSUME TypeOK, NEW d \in Drivers, Present(d) PROVE row[d] \in Row
  BY DEF TypeOK, Present

(* Recoded and Encrypted make rows, and what decrypts is under one key.    *)
LEMMA RecodedIsRow ==
  ASSUME NEW r \in Row, NEW key \in Keys, NEW phone \in BOOLEAN, NEW email \in BOOLEAN
  PROVE  /\ Recoded(r, key, phone, email) \in Row
         /\ Recoded(r, key, phone, email).version = r.version + 1
  BY DEF Row, Recoded

LEMMA EncryptedIsRow ==
  ASSUME NEW key \in Keys
  PROVE  Encrypted(key) \in Row /\ Decrypts(Encrypted(key), key)
  BY DEF Row, Encrypted, Decrypts

\* A cached profile is a row read before, or none.
CacheMoves ==
  cache' \in [Drivers -> Row \cup {NoRow}]

LEMMA InvalidatedTyped ==
  ASSUME TypeOK, NEW d \in Drivers, Invalidated(d) PROVE CacheMoves
  BY DEF TypeOK, Invalidated, CacheMoves

LEMMA SayTyped ==
  ASSUME NEW code \in Outcomes, Say(code)
  PROVE  /\ answer' \in Answers
         /\ ~answer'.listed
  BY DEF Say, Answered, Answers

LEMMA WrittenTyped ==
  ASSUME TypeOK, NEW d \in Drivers, NEW r \in Row, NEW key \in Keys, Written(d, r, key)
  PROVE  /\ row' \in [Drivers -> Row \cup {NoRow}]
         /\ writer' \in [Drivers -> Keys \cup {Unset}]
         /\ answer' \in Answers
         /\ ~answer'.listed
  <1>1. row' \in [Drivers -> Row \cup {NoRow}] /\ writer' \in [Drivers -> Keys \cup {Unset}]
    BY DEF Written, TypeOK
  <1>2. Say("OK") \/ Say("ERROR")
    BY DEF Written
  <1> QED
    BY <1>1, <1>2, SayTyped DEF Outcomes

LEMMA WrittenKeeps ==
  ASSUME IInv, NEW d \in Drivers, NEW r \in Row, NEW key \in Keys, Written(d, r, key),
         Decrypts(r, key)
  PROVE  WriterCanRead'
  BY DEF IInv, TypeOK, Written, WriterCanRead, Present, Decrypts

(* Writing a row under one key.                                            *)
LEMMA WriteGood ==
  ASSUME IInv, NEW d \in Drivers, NEW r \in Row, NEW key \in Keys, Written(d, r, key),
         Decrypts(r, key), Present(d) => r.version = row[d].version + 1,
         CacheMoves, UNCHANGED <<running, held>>
  PROVE  Good
  <1>1. TypeOK'
    BY WrittenTyped DEF IInv, TypeOK, CacheMoves, Answers
  <1>2. WriterCanRead'
    BY WrittenKeeps
  <1>3. Advances
    BY PiiAssumption DEF IInv, TypeOK, Written, Advances
  <1>4. Whole
    BY WrittenTyped DEF IInv, Whole
  <1> QED
    BY <1>1, <1>2, <1>3, <1>4 DEF Good, IInv

(* A step that leaves the rows alone and lists nothing.                    *)
LEMMA QuietGood ==
  ASSUME IInv, UNCHANGED <<row, writer>>, running' \in [Processes -> Keys \cup {Down}],
         CacheMoves, held' \in [Processes -> (Drivers \X Row) \cup {NoRow}],
         answer' \in Answers, answer' = answer \/ ~answer'.listed
  PROVE  Good
  <1>1. TypeOK'
    BY DEF IInv, TypeOK, CacheMoves, Answers
  <1>2. WriterCanRead'
    BY DEF IInv, WriterCanRead, Present, Decrypts
  <1>3. Advances /\ Whole
    BY DEF Advances, Whole
  <1> QED
    BY <1>1, <1>2, <1>3 DEF Good, IInv

(* An answer alone.                                                        *)
LEMMA SayGood ==
  ASSUME IInv, NEW code \in Outcomes, Say(code), UNCHANGED <<running, row, cache, held, writer>>
  PROVE  Good
  <1>1. answer' \in Answers /\ ~answer'.listed
    BY SayTyped
  <1> QED
    BY <1>1, QuietGood DEF IInv, TypeOK, CacheMoves

-----------------------------------------------------------------------------
LEMMA InitIInv == Init => IInv
  BY DEF Init, IInv, TypeOK, WriterCanRead, Present, Answered, Outcomes

LEMMA StartGood ==
  ASSUME IInv, NEW i \in Processes, NEW env \in Environments, Start(i, env) PROVE Good
  <1>1. PgCryptoKey(env) \in Keys
    BY PiiAssumption DEF PgCryptoKey, Environment
  <1> QED
    BY <1>1, QuietGood DEF Start, IInv, TypeOK, CacheMoves, Answers

LEMMA StopGood == ASSUME IInv, NEW i \in Processes, Stop(i) PROVE Good
  BY QuietGood DEF Stop, IInv, TypeOK, CacheMoves, Answers

LEMMA ExpireGood == ASSUME IInv, NEW d \in Drivers, Expire(d) PROVE Good
  BY QuietGood DEF Expire, IInv, TypeOK, CacheMoves, Answers

LEMMA EnrolGood ==
  ASSUME IInv, NEW i \in Processes, running[i] \in Keys, NEW d \in Drivers, Enrol(i, d),
         UNCHANGED running
  PROVE  Good
  <1>1. PICK key \in Keys : key = running[i]
    OBVIOUS
  <1>2. Written(d, Encrypted(key), key)
    BY <1>1 DEF Enrol
  <1> QED
    BY <1>2, EncryptedIsRow, WriteGood DEF Enrol, IInv, TypeOK, CacheMoves

LEMMA AnswerGood ==
  ASSUME IInv, NEW i \in Processes, NEW d \in Drivers, UNCHANGED running,
         \/ Enrolled(i, d) \/ ReadCached(i, d) \/ ReadFails(i, d) \/ ListFails(i)
         \/ \E v \in 1..MaxVersion : UpdateNothing(i, d, v)
  PROVE  Good
  <1>1. PICK code \in Outcomes : Say(code)
    BY DEF Enrolled, ReadCached, ReadFails, ListFails, UpdateNothing, Outcomes
  <1> QED
    BY <1>1, SayGood DEF Enrolled, ReadCached, ReadFails, ListFails, UpdateNothing

LEMMA ReadStoredGood ==
  ASSUME IInv, NEW i \in Processes, NEW d \in Drivers, ReadStored(i, d), UNCHANGED running
  PROVE  Good
  <1>1. <<d, row[d]>> \in Drivers \X Row
    BY RowIsRow DEF ReadStored, IInv
  <1> QED
    BY <1>1, QuietGood DEF ReadStored, IInv, TypeOK, CacheMoves, Answers

LEMMA FillGood ==
  ASSUME IInv, NEW i \in Processes, Fill(i), UNCHANGED running PROVE Good
  <1>1. held[i] \in Drivers \X Row
    BY DEF Fill, IInv, TypeOK
  <1>2. held[i][1] \in Drivers /\ held[i][2] \in Row
    BY <1>1
  <1>3. CacheMoves
    BY <1>2 DEF Fill, IInv, TypeOK, CacheMoves
  <1>4. answer' \in Answers /\ ~answer'.listed
    BY SayTyped DEF Fill, Outcomes
  <1> QED
    BY <1>3, <1>4, QuietGood DEF Fill, IInv, TypeOK

LEMMA UpdateGood ==
  ASSUME IInv, NEW i \in Processes, running[i] \in Keys, NEW d \in Drivers,
         NEW v \in 1..MaxVersion, NEW phone \in BOOLEAN, NEW email \in BOOLEAN,
         Update(i, d, v, phone, email), UNCHANGED running
  PROVE  Good
  <1>1. PICK key \in Keys, old \in Row : key = running[i] /\ old = row[d] /\ Present(d)
    BY RowIsRow DEF Update, Live, IInv
  <1>2. PICK new \in Row : /\ new = Recoded(old, key, phone, email)
                          /\ new.version = old.version + 1
    BY RecodedIsRow
  <1>3. CASE Decrypts(new, key)
    <2>1. Written(d, new, key) /\ Invalidated(d) /\ UNCHANGED held
      BY <1>1, <1>2, <1>3 DEF Update
    <2>2. CacheMoves
      BY <2>1, InvalidatedTyped DEF IInv
    <2> QED
      BY <1>1, <1>2, <1>3, <2>1, <2>2, WriteGood
  <1>4. CASE ~Decrypts(new, key)
    <2>1. Say("ERROR") /\ UNCHANGED <<row, cache, held, writer>>
      BY <1>1, <1>2, <1>4 DEF Update
    <2> QED
      BY <2>1, SayGood DEF Outcomes
  <1> QED
    BY <1>3, <1>4

LEMMA DeleteGood ==
  ASSUME IInv, NEW i \in Processes, NEW d \in Drivers, Delete(i, d), UNCHANGED running
  PROVE  Good
  <1>1. answer' \in Answers /\ ~answer'.listed
    BY SayTyped DEF Delete, Outcomes
  <1>2. CacheMoves
    BY InvalidatedTyped DEF Delete, IInv, TypeOK, CacheMoves
  <1>3. CASE ~Live(d)
    BY <1>1, <1>2, <1>3, QuietGood DEF Delete, IInv, TypeOK
  <1>4. CASE Live(d)
    <2>1. PICK r \in Row : /\ row' = [row EXCEPT ![d] = r] /\ r.version = row[d].version + 1
                          /\ r.phone = row[d].phone /\ r.email = row[d].email
      <3>1. Present(d) /\ row[d] \in Row
        BY <1>4, RowIsRow DEF Live, IInv
      <3>2. PICK old \in Row : old = row[d]
        BY <3>1
      <3>3. row' = [row EXCEPT ![d] = Deleted(old)]
        BY <1>4, <3>2 DEF Delete
      <3>4. Deleted(old) \in Row
        BY DEF Row, Deleted
      <3>5. /\ Deleted(old).version = old.version + 1
            /\ Deleted(old).phone = old.phone /\ Deleted(old).email = old.email
        BY DEF Row, Deleted
      <3> QED
        BY <3>2, <3>3, <3>4, <3>5
    <2>2. TypeOK'
      BY <1>1, <1>2, <2>1 DEF Delete, IInv, TypeOK, CacheMoves, Answers
    <2>3. WriterCanRead'
      BY <1>4, <2>1 DEF Delete, IInv, TypeOK, WriterCanRead, Present, Live, Decrypts
    <2>4. Advances
      BY <2>1, PiiAssumption DEF Advances, IInv, TypeOK
    <2>5. Whole
      BY <1>1 DEF Whole
    <2> QED
      BY <2>2, <2>3, <2>4, <2>5 DEF Good, IInv
  <1> QED
    BY <1>3, <1>4

LEMMA ListGood ==
  ASSUME IInv, NEW i \in Processes, List(i), UNCHANGED running PROVE Good
  <1>1. PICK page \in kSubset(Length, Listable) : answer' = Listed(page)
    BY DEF List
  <1>2. page \in SUBSET Drivers /\ Cardinality(page) = Length
    BY <1>1 DEF kSubset, Listable
  <1>3. answer' \in Answers /\ answer'.page = page
    BY <1>1, <1>2 DEF Listed, Answers, Outcomes
  <1>4. TypeOK'
    BY <1>3 DEF List, IInv, TypeOK, Answers
  <1>5. WriterCanRead' /\ Advances /\ Whole
    BY <1>2, <1>3 DEF List, IInv, WriterCanRead, Present, Decrypts, Advances, Whole
  <1> QED
    BY <1>4, <1>5 DEF Good, IInv

LEMMA StutterGood == ASSUME IInv, UNCHANGED vars PROVE Good
  BY QuietGood DEF vars, IInv, TypeOK, CacheMoves, Answers

LEMMA StepGood == IInv /\ [Next]_vars => Good
  <1> SUFFICES ASSUME IInv, [Next]_vars PROVE Good
    OBVIOUS
  <1>1. CASE UNCHANGED vars
    BY <1>1, StutterGood
  <1>2. ASSUME NEW d \in Drivers, Expire(d) PROVE Good
    BY <1>2, ExpireGood
  <1>3. ASSUME NEW i \in Processes, (\E env \in Environments : Start(i, env)) \/ Stop(i)
        PROVE  Good
    BY <1>3, StartGood, StopGood
  <1>4. ASSUME NEW i \in Processes, Serve(i) PROVE Good
    <2>1. running[i] \in Keys /\ running' = running
      BY <1>4 DEF Serve, IInv, TypeOK
    <2>2. CASE Fill(i) \/ List(i)
      BY <2>1, <2>2, FillGood, ListGood
    <2>3. CASE ListFails(i)
      <3>1. PICK d \in Drivers : TRUE
        BY <2>3 DEF ListFails, Listable
      <3> QED
        BY <2>1, <2>3, <3>1, AnswerGood
    <2>4. ASSUME NEW d \in Drivers,
                 \/ Enrol(i, d) \/ ReadStored(i, d) \/ Delete(i, d)
                 \/ Enrolled(i, d) \/ ReadCached(i, d) \/ ReadFails(i, d)
          PROVE  Good
      BY <2>1, <2>4, EnrolGood, ReadStoredGood, DeleteGood, AnswerGood
    <2>5. ASSUME NEW d \in Drivers, NEW v \in 1..MaxVersion,
                 \/ UpdateNothing(i, d, v)
                 \/ \E phone, email \in BOOLEAN : Update(i, d, v, phone, email)
          PROVE  Good
      BY <2>1, <2>5, UpdateGood, AnswerGood
    <2> QED
      BY <1>4, <2>2, <2>3, <2>4, <2>5 DEF Serve
  <1> QED
    BY <1>1, <1>2, <1>3, <1>4 DEF Next

THEOREM Inductive == Spec => []IInv
  BY InitIInv, StepGood, PTL DEF Spec, Good

-----------------------------------------------------------------------------
(* Every process that runs has a key, whatever its environment holds, and  *)
(* every row is encrypted under keys of the model.                         *)
THEOREM TypeCorrect == Spec => []TypeOK
  BY Inductive, PTL DEF IInv

(* Whoever wrote a profile last can read it in full, however many          *)
(* generations with different keys write it.                               *)
THEOREM WriterReads == Spec => []WriterCanRead
  BY Inductive, PTL DEF IInv

(* No write under another key loses a profile or its version.              *)
THEOREM ProfilesAdvance == Spec => ProfilesOnlyAdvance
  <1>1. IInv /\ [Next]_vars => [Advances]_vars
    BY StepGood DEF Good
  <1> QED
    BY <1>1, Inductive, PTL DEF Spec, ProfilesOnlyAdvance, Advances

(* A page shows as many drivers as it can hold, or is an error.            *)
THEOREM PagesAreWhole == Spec => PageIsWhole
  <1>1. IInv /\ [Next]_vars => [Whole]_vars
    BY StepGood DEF Good
  <1> QED
    BY <1>1, Inductive, PTL DEF Spec, PageIsWhole, Whole
=============================================================================
