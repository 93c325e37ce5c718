----------------------------- MODULE BootProofs -----------------------------
(***************************************************************************)
(* The keys and the schema of a server that starts, after any number of    *)
(* deaths and failures.                                                    *)
(***************************************************************************)
EXTENDS Boot, FiniteSetTheorems, TLAPS

-----------------------------------------------------------------------------
(* Boot: as long as no query for a key has failed, a key has one row.      *)

(* A key in use has a row, and one only, unless a query failed. *)
KeysInv ==
    /\ keys \in [KeyNames -> Nat] /\ failures \in Nat
    /\ used \in [KeyNames -> SUBSET Nat]
    /\ \A n \in KeyNames :
         /\ used[n] \subseteq 1 .. keys[n]
         /\ failures = 0 => keys[n] <= 1

LEMMA BootInitKeys == BootInit => KeysInv
BY DEF BootInit, KeysInv

LEMMA InitKeyKeepsKeys ==
    ASSUME KeysInv, NEW name \in KeyNames, NEW next, InitKey(name, next)
    PROVE  KeysInv'
<1>1. ASSUME NEW one \in KeyRows(name), used' = [used EXCEPT ![name] = @ \union {one}],
             UNCHANGED <<keys, failures>>
      PROVE  KeysInv'
    BY <1>1 DEF KeysInv, KeyRows
<1>2. ASSUME KeyRows(name) = {} \/ failures < MaxFailures, CreateKey(name),
             failures' = IF KeyRows(name) = {} THEN failures ELSE failures + 1
      PROVE  KeysInv'
    <2>1. /\ keys' = [keys EXCEPT ![name] = keys[name] + 1]
          /\ used' = [used EXCEPT ![name] = used[name] \union {keys[name] + 1}]
        BY <1>2 DEF CreateKey
    <2>2. /\ keys' \in [KeyNames -> Nat] /\ failures' \in Nat
          /\ used' \in [KeyNames -> SUBSET Nat]
        BY <1>2, <2>1 DEF KeysInv
    <2>3. failures' = 0 => keys[name] = 0 /\ failures = 0
        BY <1>2 DEF KeysInv, KeyRows
    <2>4. \A n \in KeyNames : /\ used'[n] \subseteq 1 .. keys'[n]
                              /\ failures' = 0 => keys'[n] <= 1
        BY <2>1, <2>3 DEF KeysInv
    <2> QED BY <2>2, <2>4 DEF KeysInv
<1> QED
    BY <1>1, <1>2 DEF InitKey

LEMMA BootKeepsKeys == KeysInv /\ [BootNext]_bootVars => KeysInv'
<1> SUFFICES ASSUME KeysInv, [BootNext]_bootVars
             PROVE  KeysInv'
    OBVIOUS
<1>1. CASE InitPwState
    BY <1>1, InitKeyKeepsKeys DEF InitPwState, KeyNames
<1>2. CASE InitWithAuth
    BY <1>2, InitKeyKeepsKeys DEF InitWithAuth, KeyNames
<1>3. CASE UNCHANGED <<keys, used, failures>>
    BY <1>3 DEF KeysInv
<1>4. \/ InitPwState \/ InitWithAuth \/ UNCHANGED <<keys, used, failures>>
    BY DEF BootNext, bootVars, Connect, Rename, Discard, Refuse, Execute, Record, Migrated,
           SqliteInit, Shutdown, Die
<1> QED
    BY <1>1, <1>2, <1>3, <1>4

(* However often the process starts and dies, all starts use one key for   *)
(* each purpose, as long as no query for one has failed.                   *)
THEOREM StartsKeepTheKeys == BootSpec => []KeysStay
<1>1. KeysInv => KeysStay
    <2> SUFFICES ASSUME KeysInv, failures = 0, NEW n \in KeyNames
                 PROVE  Cardinality(used[n]) <= 1
        BY DEF KeysStay
    <2>1. used[n] \subseteq {1}
        BY DEF KeysInv
    <2>2. CASE used[n] = {}
        BY <2>2, FS_EmptySet
    <2>3. CASE used[n] = {1}
        BY <2>3, FS_Singleton
    <2> QED BY <2>1, <2>2, <2>3
<1> QED
    BY <1>1, BootInitKeys, BootKeepsKeys, PTL DEF BootSpec

-----------------------------------------------------------------------------
(* The schema.  What a record stands for is there; the migration under way *)
(* is there, or in its transaction, as far as it has got; and the column   *)
(* of m6 has its record, or is known to be half of it.                     *)

Names == {Migrations[i] : i \in DOMAIN Migrations}

OldNames == {OldMigrations[i] : i \in DOMAIN OldMigrations}

Column == "oidc_subject_column"

(* What a database from between two of the old migrations goes without. *)
Excused == IF began \in 3 .. 6 THEN {"user_avatar"} ELSE {}

Whole(m) == Pieces(m) \subseteq schema \union Excused

(* The migration under way has been done so far. *)
Underway ==
    /\ done > 0 => done <= Len(Up(Current))
    /\ \A i \in 1 .. done : Up(Current)[i] \in IF backend = "Postgres" THEN pending ELSE schema
    /\ pending \subseteq Pieces(Current)

Migrating == stage = "migrating" /\ Open # {}

Up2date == stage \in {"pragmas", "password", "jwt", "serving"}

(* What has a record is there, under the old names as under the new. *)
RecordsInv ==
    /\ recorded \subseteq {New(m) : m \in Names} \union {Old(m) : m \in OldNames}
    /\ \A m \in Names : New(m) \in recorded => Whole(m)
    /\ \A m \in OldNames \ {"user_avatar"} : Old(m) \in recorded => Whole(m)
    /\ stage \notin {"down", "renaming"} => \A m \in OldNames \ {"user_avatar"} : Old(m) \notin recorded
    /\ stage \notin {"down", "renaming", "discarding"} => Old("user_avatar") \notin recorded

(* The column of m6 has its record, or is half of m6. *)
ColumnKnown ==
    \/ New("m6_user_oidc_subject") \in recorded
    \/ /\ backend = "Sqlite"
       /\ halfway \/ (Migrating /\ Current = "m6_user_oidc_subject" /\ done >= 1)

(* The inductive invariant of the migrations. *)
SchemaInv ==
    /\ stage \in {"down", "renaming", "discarding", "migrating", "refused", "pragmas",
                  "password", "jwt", "serving"}
    /\ backend \in {"Postgres", "Sqlite"}
    /\ RecordsInv
    /\ done \in Nat
    /\ Migrating => Underway
    /\ ~Migrating => done = 0 /\ pending = {}
    /\ Column \in schema => ColumnKnown
    /\ stage = "refused" => halfway /\ backend = "Sqlite"
    /\ Up2date => Open = {}

LEMMA MigrationFacts ==
    /\ DOMAIN Migrations = 1 .. 7
    /\ Names = {"m0_key", "m1_invalid_jwt", "m2_settings", "m3_user", "m4_groups", "m5_setup",
                "m6_user_oidc_subject"}
    /\ OldNames \ {"user_avatar"} \subseteq Names
    /\ "user_avatar" \notin Names
BY DEF Migrations, OldMigrations, Names, OldNames

LEMMA ColumnFacts ==
    ASSUME NEW m \in Names
    PROVE  /\ Len(Up(m)) \in Nat
           /\ Pieces(m) = {Up(m)[i] : i \in 1 .. Len(Up(m))}
           /\ \A i \in 1 .. Len(Up(m)) : Up(m)[i] = Column => m = "m6_user_oidc_subject" /\ i = 1
           /\ m = "m6_user_oidc_subject" => Len(Up(m)) = 2
<1> DEFINE Sound(u) == /\ Len(u) \in Nat /\ DOMAIN u = 1 .. Len(u)
                       /\ \A i \in 1 .. Len(u) : u[i] = Column =>
                            m = "m6_user_oidc_subject" /\ i = 1
                       /\ m = "m6_user_oidc_subject" => Len(u) = 2
<1>1. CASE m = "m0_key"
    <2>1. Sound(UpKey)
        BY <1>1 DEF UpKey, Column
    <2>2. Up(m) = UpKey
        BY <1>1 DEF Up
    <2> QED BY <2>1, <2>2 DEF Pieces
<1>2. CASE m = "m1_invalid_jwt"
    <2>1. Sound(UpInvalidJwt)
        BY <1>2 DEF UpInvalidJwt, Column
    <2>2. Up(m) = UpInvalidJwt
        BY <1>2 DEF Up
    <2> QED BY <2>1, <2>2 DEF Pieces
<1>3. CASE m = "m2_settings"
    <2>1. Sound(UpSettings)
        BY <1>3 DEF UpSettings, Column
    <2>2. Up(m) = UpSettings
        BY <1>3 DEF Up
    <2> QED BY <2>1, <2>2 DEF Pieces
<1>4. CASE m = "m3_user"
    <2>1. Sound(UpUser)
        BY <1>4 DEF UpUser, Column
    <2>2. Up(m) = UpUser
        BY <1>4 DEF Up
    <2> QED BY <2>1, <2>2 DEF Pieces
<1>5. CASE m = "m4_groups"
    <2>1. Sound(UpGroups)
        BY <1>5 DEF UpGroups, Column
    <2>2. Up(m) = UpGroups
        BY <1>5 DEF Up
    <2> QED BY <2>1, <2>2 DEF Pieces
<1>6. CASE m = "m5_setup"
    <2>1. Sound(UpSetup)
        BY <1>6 DEF UpSetup, Column
    <2>2. Up(m) = UpSetup
        BY <1>6 DEF Up
    <2> QED BY <2>1, <2>2 DEF Pieces
<1>7. CASE m = "m6_user_oidc_subject"
    <2>1. Sound(UpOidcSubject)
        BY <1>7 DEF UpOidcSubject, Column
    <2>2. Up(m) = UpOidcSubject
        BY <1>7 DEF Up
    <2> QED BY <2>1, <2>2 DEF Pieces
<1> QED
    BY <1>1, <1>2, <1>3, <1>4, <1>5, <1>6, <1>7, MigrationFacts

(* A set of the numbers of migrations that is not empty has a least one.   *)
LEMMA LeastOfSeven ==
    ASSUME NEW S \in SUBSET (1 .. 7), S # {}
    PROVE  \E i \in S : \A j \in S : i <= j
<1>1. CASE 1 \in S
    BY <1>1
<1>2. CASE 1 \notin S /\ 2 \in S
    BY <1>2
<1>3. CASE 1 \notin S /\ 2 \notin S /\ 3 \in S
    BY <1>3
<1>4. CASE 1 \notin S /\ 2 \notin S /\ 3 \notin S
    <2>1. S \subseteq 4 .. 7
        BY <1>4
    <2>2. CASE 4 \in S
        BY <2>1, <2>2
    <2>3. CASE 4 \notin S /\ 5 \in S
        BY <2>1, <2>3
    <2>4. CASE 4 \notin S /\ 5 \notin S /\ 6 \in S
        BY <2>1, <2>4
    <2>5. CASE 4 \notin S /\ 5 \notin S /\ 6 \notin S
        <3>1. \A x \in S : x = 7
            BY <2>1, <2>5
        <3>2. PICK x \in S : TRUE
            OBVIOUS
        <3> QED BY <3>1, <3>2
    <2> QED BY <2>2, <2>3, <2>4, <2>5
<1> QED BY <1>1, <1>2, <1>3, <1>4

LEMMA CurrentIsOpen ==
    ASSUME Open # {}
    PROVE  Current \in Names /\ New(Current) \notin recorded
<1>1. Open \subseteq 1 .. 7
    BY MigrationFacts DEF Open
<1>2. \E i \in Open : \A j \in Open : i <= j
    BY <1>1, LeastOfSeven
<1> QED
    BY <1>2 DEF Current, Open, Names

LEMMA OpenNames == Open = {} <=> \A m \in Names : New(m) \in recorded
BY DEF Open, Names

LEMMA RecordsDiffer ==
    ASSUME NEW m, NEW n
    PROVE  /\ New(m) # Old(n)
           /\ New(m) = New(n) <=> m = n
           /\ Old(m) = Old(n) <=> m = n
           /\ New(m).version = m /\ ~New(m).old
           /\ Old(m).version = m /\ Old(m).old
BY DEF New, Old

LEMMA BootInitSchema == BootInit => SchemaInv
<1> SUFFICES ASSUME BootInit PROVE SchemaInv
    OBVIOUS
<1>1. /\ DOMAIN OldMigrations = 1 .. 7 /\ Len(OldMigrations) = 7
      /\ OldMigrations[3] = "m3_user" /\ OldMigrations[7] = "user_avatar"
      /\ \A i \in 1 .. 7 : OldMigrations[i] = "m3_user" => i = 3
    BY DEF OldMigrations
<1>2. \A i \in 1 .. began : OldPieces(OldMigrations[i]) \subseteq schema
    BY DEF BootInit
<1>3. recorded = {Old(OldMigrations[i]) : i \in 1 .. began} /\ began \in 0 .. 7
    BY <1>1 DEF BootInit
<1>4. ASSUME NEW m \in OldNames \ {"user_avatar"}, Old(m) \in recorded
      PROVE  Whole(m)
    <2>1. PICK i \in 1 .. began : m = OldMigrations[i] /\ i \in 1 .. 7
        BY <1>3, <1>4, RecordsDiffer
    <2>2. CASE m # "m3_user"
        BY <1>2, <1>4, <2>1, <2>2 DEF OldPieces, Whole
    <2>3. CASE m = "m3_user"
        <3>5. i = 3
            BY <1>1, <2>1, <2>3
        <3>1. began >= 3
            BY <1>3, <2>1, <3>5
        <3> DEFINE D == Pieces("m3_user")
        <3>0. OldPieces("m3_user") = D \ {"user_avatar"}
            BY DEF OldPieces
        <3>4. D \subseteq schema \union {"user_avatar"}
            BY <1>2, <2>1, <2>3, <3>0
        <3> HIDE DEF D
        <3>2. CASE began = 7
            <4>1. OldPieces("user_avatar") = {"user_avatar"}
                BY DEF OldPieces
            <4>2. "user_avatar" \in schema
                BY <1>1, <1>2, <3>2, <4>1
            <4> QED BY <2>3, <3>4, <4>2 DEF Whole, D
        <3>3. CASE began # 7
            BY <1>3, <2>3, <3>1, <3>3, <3>4 DEF Whole, Excused, D
        <3> QED BY <3>2, <3>3
    <2> QED BY <2>2, <2>3
<1>5. RecordsInv
    <2>1. \A m \in Names : New(m) \notin recorded
        BY <1>3, RecordsDiffer
    <2>2. recorded \subseteq {Old(m) : m \in OldNames}
        BY <1>1, <1>3 DEF OldNames
    <2> QED BY <1>4, <2>1, <2>2 DEF RecordsInv, BootInit
<1>6. Column \notin schema
    <2>1. ASSUME NEW m \in OldNames PROVE Column \notin OldPieces(m)
        <3>1. CASE m = "user_avatar"
            BY <3>1 DEF OldPieces, Column
        <3>2. CASE m # "user_avatar"
            <4>1. m \in Names /\ m # "m6_user_oidc_subject"
                BY <3>2, MigrationFacts DEF OldNames, OldMigrations
            <4> QED BY <3>2, <4>1, ColumnFacts DEF OldPieces
        <3> QED BY <3>1, <3>2
    <2> QED BY <1>1, <1>3, <2>1 DEF BootInit, OldNames
<1> QED
    BY <1>5, <1>6 DEF BootInit, SchemaInv, Migrating, Up2date

LEMMA RecordsStay ==
    ASSUME RecordsInv, UNCHANGED <<recorded, began>>, schema \subseteq schema',
           \/ stage' \in {stage, "down"}
           \/ stage = "down" /\ stage' = "renaming"
           \/ stage \notin {"down", "renaming", "discarding"}
    PROVE  RecordsInv' /\ Open' = Open /\ Current' = Current
<1>1. \A m : Whole(m) => Whole(m)'
    BY DEF Whole, Excused
<1>2. Open' = Open
    BY DEF Open
<1> QED
    BY <1>1, <1>2 DEF RecordsInv, Current

LEMMA StageMoves ==
    ASSUME SchemaInv,
           UNCHANGED <<backend, began, schema, pending, recorded, done, halfway>>,
           \/ stage = "down" /\ stage' = "renaming"
           \/ Up2date /\ (Up2date' \/ stage' = "down")
    PROVE  SchemaInv'
<1>1. RecordsInv' /\ Open' = Open /\ Current' = Current
    BY RecordsStay DEF SchemaInv, Up2date
<1>2. ~Migrating /\ ~Migrating'
    BY DEF Up2date, Migrating
<1>3. Column \in schema => ColumnKnown'
    BY <1>2 DEF SchemaInv, ColumnKnown
<1> QED
    BY <1>1, <1>2, <1>3 DEF SchemaInv, Up2date

(* Every statement of a start keeps the schema and its records in step. *)
LEMMA BootStep == SchemaInv /\ [BootNext]_bootVars => SchemaInv'
<1> SUFFICES ASSUME SchemaInv, [BootNext]_bootVars
             PROVE  SchemaInv'
    OBVIOUS
<1>1. CASE Connect
    BY <1>1, StageMoves DEF Connect, Move
<1>2. CASE Rename
    <2>1. /\ stage = "renaming" /\ stage' = "discarding"
          /\ recorded' = {Renamed(r) : r \in recorded}
          /\ UNCHANGED <<backend, began, schema, pending, done, halfway>>
        BY <1>2 DEF Rename, Move
    <2>2. \A m \in Names : Renamed(New(m)) = New(m)
        BY RecordsDiffer DEF Renamed
    <2>3. \A m \in OldNames \ {"user_avatar"} : Renamed(Old(m)) = New(m)
        BY RecordsDiffer DEF Renamed
    <2>4. Renamed(Old("user_avatar")) = Old("user_avatar")
        BY RecordsDiffer DEF Renamed
    <2>5. \A r \in recorded' :
            \/ \E m \in Names : r = New(m) /\ Whole(m)
            \/ r = Old("user_avatar") /\ "user_avatar" \in OldNames
        BY <2>1, <2>2, <2>3, <2>4, MigrationFacts DEF SchemaInv, RecordsInv
    <2>6. \A m : Whole(m) => Whole(m)'
        BY <2>1 DEF Whole, Excused
    <2>7. RecordsInv'
        BY <2>1, <2>5, <2>6, RecordsDiffer DEF RecordsInv
    <2>8. New("m6_user_oidc_subject") \in recorded => New("m6_user_oidc_subject") \in recorded'
        BY <2>1, <2>2, MigrationFacts
    <2>9. ~Migrating /\ ~Migrating'
        BY <2>1 DEF Migrating
    <2>10. Column \in schema => ColumnKnown'
        BY <2>1, <2>8, <2>9 DEF SchemaInv, ColumnKnown
    <2> QED BY <2>1, <2>7, <2>9, <2>10 DEF SchemaInv, Up2date
<1>3. CASE Discard
    <2>1. /\ stage = "discarding" /\ stage' = "migrating"
          /\ recorded' = {r \in recorded : ~Outdated(r)}
          /\ UNCHANGED <<backend, began, schema, pending, done, halfway>>
        BY <1>3 DEF Discard, Move
    <2>2. recorded' = recorded \ {Old("user_avatar")}
        BY <2>1 DEF Outdated
    <2>3. \A m : Whole(m) => Whole(m)'
        BY <2>1 DEF Whole, Excused
    <2>4. RecordsInv'
        BY <2>1, <2>2, <2>3, RecordsDiffer DEF SchemaInv, RecordsInv
    <2>5. ~Migrating
        BY <2>1 DEF Migrating
    <2>6. Underway'
        BY <2>1, <2>5 DEF Underway, SchemaInv
    <2>7. Column \in schema => ColumnKnown'
        BY <2>1, <2>2, <2>5, RecordsDiffer DEF SchemaInv, ColumnKnown
    <2> QED BY <2>1, <2>4, <2>5, <2>6, <2>7 DEF SchemaInv, Up2date
<1>4. CASE Refuse
    <2>1. /\ stage = "migrating" /\ stage' = "refused" /\ Refuses
          /\ pending' = {} /\ done' = 0
          /\ UNCHANGED <<backend, began, schema, recorded, halfway>>
        BY <1>4 DEF Refuse, Move
    <2>2. RecordsInv' /\ Open' = Open /\ Current' = Current
        BY <2>1, RecordsStay DEF SchemaInv
    <2>3. Unknown = {}
        BY <2>1 DEF Unknown, SchemaInv, RecordsInv, Names
    <2>4. /\ Open # {} /\ done < Len(Up(Current))
          /\ Up(Current)[done + 1] = Column /\ Column \in schema
        BY <2>1, <2>3 DEF Refuses, IfNotExists, Column
    <2>5. Current \in Names /\ New(Current) \notin recorded
        BY <2>4, CurrentIsOpen
    <2>6. Current = "m6_user_oidc_subject" /\ done = 0
        <3>1. done + 1 \in 1 .. Len(Up(Current))
            BY <2>4, <2>5, ColumnFacts DEF SchemaInv
        <3> QED BY <2>4, <2>5, <3>1, ColumnFacts DEF SchemaInv
    <2>7. halfway /\ backend = "Sqlite"
        BY <2>4, <2>5, <2>6 DEF SchemaInv, ColumnKnown
    <2> QED BY <2>1, <2>2, <2>7 DEF SchemaInv, Migrating, ColumnKnown, Up2date
<1>5. CASE Execute
    <2> DEFINE object == Up(Current)[done + 1]
    <2>1. /\ stage = "migrating" /\ Open # {} /\ done < Len(Up(Current)) /\ done' = done + 1
          /\ UNCHANGED <<backend, began, recorded, stage, halfway>>
          /\ IF backend = "Postgres"
               THEN pending' = pending \union {object} /\ UNCHANGED schema
               ELSE schema' = schema \union {object} /\ UNCHANGED pending
        BY <1>5 DEF Execute
    <2>2. RecordsInv' /\ Open' = Open /\ Current' = Current
        BY <2>1, RecordsStay DEF SchemaInv
    <2>3. Migrating /\ Underway /\ Migrating' /\ done \in Nat
        BY <2>1, <2>2 DEF SchemaInv, Migrating
    <2>4. Current \in Names
        BY <2>1, CurrentIsOpen
    <2>5. done + 1 \in 1 .. Len(Up(Current)) /\ object \in Pieces(Current)
        BY <2>1, <2>3, <2>4, ColumnFacts
    <2>6. Underway'
        BY <2>1, <2>2, <2>3, <2>5 DEF Underway
    <2>7. Column \in schema' => ColumnKnown'
        <3>1. CASE Column \in schema
            BY <2>1, <2>2, <2>3, <3>1 DEF SchemaInv, ColumnKnown
        <3>2. CASE Column \notin schema /\ Column \in schema'
            <4>1. backend = "Sqlite" /\ object = Column
                BY <2>1, <3>2 DEF SchemaInv
            <4>2. Current = "m6_user_oidc_subject"
                BY <2>4, <2>5, <4>1, ColumnFacts
            <4> QED BY <2>1, <2>2, <2>3, <4>1, <4>2 DEF ColumnKnown
        <3> QED BY <3>1, <3>2
    <2> QED BY <2>1, <2>2, <2>3, <2>6, <2>7 DEF SchemaInv, Up2date
<1>6. CASE Record
    <2>1. /\ stage = "migrating" /\ Open # {} /\ done = Len(Up(Current))
          /\ recorded' = recorded \union {New(Current)} /\ schema' = schema \union pending
          /\ pending' = {} /\ done' = 0
          /\ UNCHANGED <<backend, began, stage, halfway>>
        BY <1>6 DEF Record
    <2>2. Migrating /\ Underway /\ done \in Nat /\ Current \in Names
        BY <2>1, CurrentIsOpen DEF SchemaInv, Migrating
    <2>3. Pieces(Current) \subseteq schema'
        BY <2>1, <2>2, ColumnFacts DEF Underway
    <2>4. \A m : Whole(m) => Whole(m)'
        BY <2>1 DEF Whole, Excused
    <2>5. \A m : m = Current => Whole(m)'
        BY <2>1, <2>3 DEF Whole, Excused
    <2>6. \A m \in Names : New(m) \in recorded' => Whole(m)'
        BY <2>1, <2>4, <2>5, RecordsDiffer DEF SchemaInv, RecordsInv
    <2>7. RecordsInv'
        BY <2>1, <2>2, <2>4, <2>6, RecordsDiffer DEF SchemaInv, RecordsInv
    <2>8. Underway'
        BY <2>1 DEF Underway
    <2>9. Column \in schema' => ColumnKnown'
        <3>1. CASE Column \in schema
            BY <2>1, <3>1 DEF SchemaInv, ColumnKnown
        <3>2. CASE Column \in pending
            <4>1. Current = "m6_user_oidc_subject"
                BY <2>2, <3>2, ColumnFacts DEF Underway
            <4> QED BY <2>1, <4>1 DEF ColumnKnown
        <3> QED BY <2>1, <3>1, <3>2
    <2> QED BY <2>1, <2>7, <2>8, <2>9 DEF SchemaInv, Up2date
<1>7. CASE Migrated
    <2>1. /\ stage = "migrating" /\ stage' = "pragmas" /\ Open = {}
          /\ UNCHANGED <<backend, began, schema, pending, recorded, done, halfway>>
        BY <1>7 DEF Migrated, Move
    <2>2. RecordsInv' /\ Open' = Open /\ Current' = Current
        BY <2>1, RecordsStay DEF SchemaInv
    <2>3. ~Migrating /\ ~Migrating'
        BY <2>1 DEF Migrating
    <2>4. Column \in schema => ColumnKnown'
        BY <2>1, <2>3 DEF SchemaInv, ColumnKnown
    <2> QED BY <2>1, <2>2, <2>3, <2>4 DEF SchemaInv, Up2date
<1>8. CASE SqliteInit \/ InitPwState \/ InitWithAuth \/ Shutdown
    BY <1>8, StageMoves DEF SqliteInit, InitPwState, InitWithAuth, InitKey, Shutdown, Move, Up2date
<1>9. CASE Die
    <2>1. /\ stage' = "down" /\ pending' = {} /\ done' = 0
          /\ halfway' = (halfway \/ HalfOfM6)
          /\ UNCHANGED <<backend, began, schema, recorded>>
        BY <1>9 DEF Die
    <2>2. RecordsInv' /\ Open' = Open /\ Current' = Current
        BY <2>1, RecordsStay DEF SchemaInv
    <2>3. Column \in schema => ColumnKnown'
        BY <2>1 DEF SchemaInv, ColumnKnown, HalfOfM6, Column
    <2> QED BY <2>1, <2>2, <2>3 DEF SchemaInv, Migrating, Up2date
<1>10. CASE UNCHANGED bootVars
    <2>1. RecordsInv' /\ Open' = Open /\ Current' = Current
        BY <1>10, RecordsStay DEF SchemaInv, bootVars
    <2> QED BY <1>10, <2>1 DEF bootVars, SchemaInv, Migrating, Underway, ColumnKnown, Up2date
<1> QED
    BY <1>1, <1>2, <1>3, <1>4, <1>5, <1>6, <1>7, <1>8, <1>9, <1>10 DEF BootNext

(* Whatever database a server starts on and however often it dies, it gets *)
(* through the migrations in the end, and serves on the whole schema; with *)
(* the two exceptions that StartsWell names.                               *)
THEOREM StartsEndWell == BootSpec => []StartsWell
<1>1. SchemaInv => StartsWell
    <2> SUFFICES ASSUME SchemaInv, stage = "serving"
                 PROVE  Objects \subseteq schema \union Excused
        BY DEF StartsWell, SchemaInv, Excused
    <2>1. \A m \in Names : Whole(m)
        BY OpenNames DEF SchemaInv, Up2date, RecordsInv
    <2>2. /\ Pieces("m0_key") = {"key"} /\ Pieces("m1_invalid_jwt") = {"invalid_jwt"}
          /\ Pieces("m2_settings") = {"settings"} /\ Pieces("m5_setup") = {"setup"}
        BY DEF Pieces, Up, UpKey, UpInvalidJwt, UpSettings, UpSetup
    <2> QED BY <2>1, <2>2, MigrationFacts DEF Objects, Whole
<1> QED
    BY <1>1, BootInitSchema, BootStep, PTL DEF BootSpec

-----------------------------------------------------------------------------
(* The types *)

(* What the migrations make is what the entities are made of. *)
LEMMA PiecesAreObjects == \A m \in Names : Pieces(m) \subseteq Objects
<1>1. /\ Pieces("m0_key") = {"key"} /\ Pieces("m1_invalid_jwt") = {"invalid_jwt"}
      /\ Pieces("m2_settings") = {"settings"} /\ Pieces("m5_setup") = {"setup"}
    BY DEF Pieces, Up, UpKey, UpInvalidJwt, UpSettings, UpSetup
<1> QED BY <1>1, MigrationFacts DEF Objects

(* What is there is made of the pieces of migrations. *)
ObjectsInv == schema \subseteq Objects /\ pending \subseteq Objects

(* The old migrations made no more than the new ones make. *)
LEMMA BootInitObjects == BootInit => ObjectsInv
<1> SUFFICES ASSUME BootInit PROVE schema \subseteq Objects
    BY DEF BootInit, ObjectsInv
<1>1. \A m \in OldNames : OldPieces(m) \subseteq Objects
    <2> SUFFICES ASSUME NEW m \in OldNames PROVE OldPieces(m) \subseteq Objects
        OBVIOUS
    <2>1. CASE m = "user_avatar"
        <3>1. "user_avatar" \in Pieces("m3_user")
            <4>1. UpUser[2] = "user_avatar" /\ 2 \in DOMAIN UpUser
                BY DEF UpUser
            <4>2. Up("m3_user") = UpUser
                BY DEF Up
            <4> QED BY <4>1, <4>2 DEF Pieces
        <3> QED BY <2>1, <3>1, PiecesAreObjects, MigrationFacts DEF OldPieces
    <2>2. CASE m # "user_avatar"
        <3>1. OldPieces(m) \subseteq Pieces(m)
            BY <2>2 DEF OldPieces
        <3> QED BY <2>2, <3>1, PiecesAreObjects, MigrationFacts
    <2> QED BY <2>1, <2>2
<1>2. \A i \in 1 .. began : OldMigrations[i] \in OldNames
    <2>1. DOMAIN OldMigrations = 1 .. 7 /\ Len(OldMigrations) = 7
        BY DEF OldMigrations
    <2> QED BY <2>1 DEF BootInit, OldNames
<1> QED BY <1>1, <1>2 DEF BootInit

(* A statement makes a piece of the migration under way. *)
LEMMA BootKeepsObjects == SchemaInv /\ ObjectsInv /\ [BootNext]_bootVars => ObjectsInv'
<1> SUFFICES ASSUME SchemaInv, ObjectsInv, [BootNext]_bootVars
             PROVE  ObjectsInv'
    OBVIOUS
<1>1. CASE Execute
    <2>1. Current \in Names /\ Underway /\ done \in Nat /\ done < Len(Up(Current))
        BY <1>1, CurrentIsOpen DEF Execute, SchemaInv, Migrating
    <2>2. done + 1 \in 1 .. Len(Up(Current))
        BY <2>1, ColumnFacts
    <2>3. Up(Current)[done + 1] \in Objects
        BY <2>1, <2>2, ColumnFacts, PiecesAreObjects
    <2> QED BY <1>1, <2>3 DEF Execute, ObjectsInv
<1>2. CASE schema' \subseteq schema \union pending /\ pending' \subseteq pending
    BY <1>2 DEF ObjectsInv
<1>3. Execute \/ (schema' \subseteq schema \union pending /\ pending' \subseteq pending)
    BY DEF BootNext, bootVars, Connect, Rename, Discard, Refuse, Record, Migrated,
           SqliteInit, InitPwState, InitWithAuth, InitKey, Shutdown, Die
<1> QED BY <1>1, <1>2, <1>3

(* However a start goes, everything that it keeps has its type: there is   *)
(* no table but those of the entities, no record of a migration that there *)
(* never was, and every key in use has its row.                            *)
THEOREM StartsAreTyped == BootSpec => []BootTypeOK
<1>1. KeysInv /\ SchemaInv /\ ObjectsInv => BootTypeOK
    BY DEF KeysInv, SchemaInv, RecordsInv, ObjectsInv, BootTypeOK, Names, OldNames
<1>2. BootInit => KeysInv /\ SchemaInv /\ ObjectsInv
    BY BootInitKeys, BootInitSchema, BootInitObjects
<1>3. KeysInv /\ SchemaInv /\ ObjectsInv /\ [BootNext]_bootVars
        => KeysInv' /\ SchemaInv' /\ ObjectsInv'
    BY BootKeepsKeys, BootStep, BootKeepsObjects
<1> QED
    BY <1>1, <1>2, <1>3, PTL DEF BootSpec
=============================================================================
