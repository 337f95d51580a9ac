---------------------------- MODULE MigrateProofs ----------------------------
(***************************************************************************)
(* Proofs about migrate: it implements MigrateSpec for every set of files  *)
(* and every pair of tables; nothing legacy is left and a second migration *)
(* changes nothing if the tables are unchained, as those of the code are.  *)
(*                                                                         *)
(* The invariant MInv says where the writer and the output path stand in   *)
(* each phase, and that what has been declared so far is what MigrateSpec  *)
(* makes of as much of the input as the loops are past.                    *)
(***************************************************************************)
EXTENDS Migrate, GGUFWriterProofs, CommonLemmas

-----------------------------------------------------------------------------
(* The inductive invariant.                                                *)

\* Values of an input: those of a first file, and the report of a migration.
Val == (Forms \X Nat) \cup {<<"arr", r>> : r \in Seq(Names \X Nat)}
Kv == [key : Keys, val : Val]
AnyFile == [kvs : Seq(Kv), tensors : Seq(InTensor)]

\* What run r may be given: room for a key per run that is left, and tensors
\* whose length in any known type the writer's instance takes.
Fit(f, r) ==
  /\ f \in AnyFile
  /\ Len(f.kvs) + MaxRounds < MaxKvs + r /\ Len(f.tensors) <= MaxTensors
  /\ \A i \in 1..Len(f.tensors), t \in KnownTypes : NBytes(t, f.tensors[i].elems) \in Sizes

Typed ==
  /\ Fit(input, round)
  /\ pc \in {"open", "create", "kvs", "begin", "header", "stream", "sync"} \cup Ends
  /\ round \in 1..MaxRounds /\ again \in BOOLEAN /\ inplace \in BOOLEAN
  /\ at \in 0..Len(input.kvs)

\* What is declared and written, sequence by sequence.
Lists == vals \in Seq(Val) /\ codes \in Seq(Nat) /\ written \in Seq(STRING)

\* A writer exists; everything has been declared.
Begun == {"kvs", "begin", "header", "stream", "sync", "ok"}
Complete == {"begin", "header", "stream", "sync", "ok"}

\* Where the writer and the output path stand in each phase.
Phase ==
  /\ pc \in {"open", "create"} => WInit /\ at = 0 /\ disk = "old" /\ Len(codes) = 0
                                  /\ Len(vals) = 0 /\ Len(written) = 0
  /\ pc \in {"kvs", "begin"} => wstate = "open" /\ ~header_written /\ next_tensor = 0
  /\ pc = "header" => wstate = "encoding" /\ next_tensor = 0
  /\ pc = "stream" => wstate = "open" /\ header_written
  /\ pc \in {"sync", "ok"} => wstate = "finished" /\ next_tensor = Len(tensors)
  /\ pc \in {"kvs", "begin", "header", "stream", "sync", "panicked"} => disk = "partial"
  /\ pc # "ok" => output = NoFile
  /\ pc = "panicked" => Spec0!Ambiguous(input)
  /\ pc \in Begun \cup {"create"} => ~Spec0!Unreadable(input)
  /\ pc \in Complete => at = Len(input.kvs)

Causes ==
  /\ cause \in {"none", "io", "early EOF", "unsupported type", "ftype is not an integer"}
  /\ cause = "unsupported type" => Spec0!Unreadable(input)
  /\ cause = "ftype is not an integer" => Spec0!Refused(input)

\* The KVs of f that the copy loop passes on, in n iterations and in all.
KeptSet(f) == {kv \in Range(f.kvs) : Spec0!Kept(kv)}
KeptUpTo(f, n) == OnlyUpTo(f.kvs, KeptSet(f))[n]

\* What has been declared is what MigrateSpec makes of the KVs passed.
CopiedKvs ==
  /\ pc # "panicked" => Len(vals) = Len(kvs)
  /\ pc = "kvs" =>
       LET s == KeptUpTo(input, at)
       IN  /\ Len(kvs) = Len(s)
           /\ \A k \in 1..Len(s) : kvs[k] = s[k].key /\ vals[k] = Spec0!NewVal(s[k])
  /\ pc \in Complete =>
       LET s == Spec0!Migrated(input).kvs
       IN  /\ Len(kvs) = Len(s)
           /\ \A k \in 1..Len(s) : kvs[k] = s[k].key /\ vals[k] = s[k].val
  /\ \A i, j \in 1..Len(kvs) : i # j => kvs[i] # kvs[j]
  /\ pc \in Begun =>
       \A i \in 1..at : input.kvs[i].key = FTYPE => input.kvs[i].val[1] \in {"u32", "i32"}

CopiedTensors ==
  /\ pc # "panicked" => Len(codes) = Len(tensors) /\ Len(codes) <= Len(input.tensors)
  /\ pc \in Begun => \A i \in 1..Len(tensors) :
       /\ tensors[i].name = input.tensors[i].name /\ tensors[i].nbytes = Bytes(i)
       /\ codes[i] = Code(i)
  /\ \A i, j \in 1..Len(tensors) : i # j => tensors[i].name # tensors[j].name
  /\ pc \in Complete => Len(codes) = Len(input.tensors)

CopiedData ==
  /\ pc # "panicked" => Len(written) = next_tensor
  /\ pc \in Begun => \A i \in 1..Len(written) :
                           written[i] = input.tensors[i].data /\ Readable(i)

\* A run that went through leaves the migrated file.
Done ==
  pc = "ok" => /\ output = Spec0!Migrated(input) /\ disk = "whole"
               /\ ~Spec0!Refused(input) /\ ~Spec0!Ambiguous(input)
               /\ Fit(output, round + 1)

MInv == /\ TInv /\ Typed /\ Lists /\ Phase /\ Causes
        /\ CopiedKvs /\ CopiedTensors /\ CopiedData /\ Done

\* Tables without chains: what a row leads to is moved no further.
Unchained ==
  /\ \A i \in DOMAIN TypeTable :
       resolve_type_code(TypeTable, TypeTable[i][2]) = TypeTable[i][2]
  /\ \A i \in DOMAIN FtypeTable : remap_ftype(FtypeTable, FtypeTable[i][2]) = FtypeTable[i][2]

\* A file in which there is nothing left to migrate.
Settled(f) ==
  /\ ~Spec0!Unreadable(f) /\ Spec0!Legacy(f) = <<>>
  /\ \A i, j \in 1..Len(f.kvs) : i # j => f.kvs[i].key # f.kvs[j].key
  /\ \A i, j \in 1..Len(f.tensors) : i # j => f.tensors[i].name # f.tensors[j].name
  /\ \A i \in 1..Len(f.kvs) :
       /\ Spec0!Kept(f.kvs[i])
       /\ f.kvs[i].key = FTYPE =>
            /\ f.kvs[i].val[1] \in {"u32", "i32"} /\ Spec0!NewVal(f.kvs[i]) = f.kvs[i].val

\* Whatever is migrated again is settled.
Again == again => Settled(input)

-----------------------------------------------------------------------------
(* The tables.                                                             *)

\* A code is left alone or goes where a row of the table leads.
LEMMA Resolves ==
  ASSUME NEW table \in Seq(Nat \X Nat), NEW c
  PROVE  \/ resolve_type_code(table, c) = c
         \/ \E i \in DOMAIN table : resolve_type_code(table, c) = table[i][2]
<1> DEFINE rows == {i \in DOMAIN table : table[i][1] = c}
<1>1. CASE rows = {}
  BY <1>1 DEF resolve_type_code
<1>2. CASE rows # {}
  <2>1. rows \in SUBSET Nat
    BY LenProperties
  <2>2. \E i \in rows : \A j \in rows : i <= j
    <3> HIDE DEF rows
    <3> QED BY <1>2, <2>1, LeastExists
  <2>3. (CHOOSE i \in rows : \A j \in rows : i <= j) \in rows
    <3> HIDE DEF rows
    <3> QED BY <2>2
  <2>4. resolve_type_code(table, c) = table[CHOOSE i \in rows : \A j \in rows : i <= j][2]
    BY <1>2 DEF resolve_type_code
  <2> QED BY <2>3, <2>4
<1> QED BY <1>1, <1>2

\* The same of an ftype, for which the last row counts: of the distances to
\* the end of the table one is least.
LEMMA Remaps ==
  ASSUME NEW table \in Seq(Nat \X Nat), NEW c
  PROVE  \/ remap_ftype(table, c) = c
         \/ \E i \in DOMAIN table : remap_ftype(table, c) = table[i][2]
<1> DEFINE rows == {i \in DOMAIN table : table[i][1] = c}
           D == {Len(table) - i : i \in rows}
<1>1. CASE rows = {}
  BY <1>1 DEF remap_ftype
<1>2. CASE rows # {}
  <2>1. rows \in SUBSET (1..Len(table)) /\ Len(table) \in Nat
    BY LenProperties
  <2>2. D \in SUBSET Nat /\ D # {}
    BY <1>2, <2>1
  <2>3. PICK d \in D : \A e \in D : d <= e
    <3> HIDE DEF D
    <3> QED BY <2>2, LeastExists
  <2>4. PICK i \in rows : d = Len(table) - i
    OBVIOUS
  <2>5. \A j \in rows : j <= i
    <3> TAKE j \in rows
    <3>1. Len(table) - i <= Len(table) - j
      BY <2>3, <2>4
    <3> QED BY <2>1, <3>1
  <2>6. (CHOOSE k \in rows : \A j \in rows : j <= k) \in rows
    <3> HIDE DEF rows
    <3> QED BY <2>5
  <2>7. remap_ftype(table, c) = table[CHOOSE k \in rows : \A j \in rows : j <= k][2]
    BY <1>2 DEF remap_ftype
  <2> QED BY <2>6, <2>7
<1> QED BY <1>1, <1>2

\* Both tables lead from numbers to numbers.
LEMMA MovedType ==
  ASSUME NEW c \in Nat
  PROVE  resolve_type_code(TypeTable, c) \in Nat /\ remap_ftype(FtypeTable, c) \in Nat
<1>1. \A table \in Seq(Nat \X Nat) : \A i \in DOMAIN table : table[i][2] \in Nat
  <2> TAKE table \in Seq(Nat \X Nat)
  <2> TAKE i \in DOMAIN table
  <2>1. table[i] \in Nat \X Nat
    BY ElementOfSeq, LenProperties
  <2> QED BY <2>1
<1>2. TypeTable \in Seq(Nat \X Nat) /\ FtypeTable \in Seq(Nat \X Nat)
  BY MigrateAssumption
<1>3. resolve_type_code(TypeTable, c) \in Nat
  BY <1>1, <1>2, Resolves
<1>4. remap_ftype(FtypeTable, c) \in Nat
  BY <1>1, <1>2, Remaps
<1> QED BY <1>3, <1>4

\* In a table without chains one move is all.
LEMMA MovedOnce ==
  ASSUME Unchained, NEW c
  PROVE  /\ resolve_type_code(TypeTable, resolve_type_code(TypeTable, c))
              = resolve_type_code(TypeTable, c)
         /\ remap_ftype(FtypeTable, remap_ftype(FtypeTable, c)) = remap_ftype(FtypeTable, c)
<1>1. TypeTable \in Seq(Nat \X Nat) /\ FtypeTable \in Seq(Nat \X Nat)
  BY MigrateAssumption
<1>2. resolve_type_code(TypeTable, resolve_type_code(TypeTable, c))
        = resolve_type_code(TypeTable, c)
  BY <1>1, Resolves DEF Unchained
<1>3. remap_ftype(FtypeTable, remap_ftype(FtypeTable, c)) = remap_ftype(FtypeTable, c)
  BY <1>1, Remaps, SMTT(20) DEF Unchained
<1> QED BY <1>2, <1>3

\* The tables of src/gguf.rs have no chains.
LEMMA TablesUnchained ==
  ASSUME TypeTable = TYPE_CODE_MIGRATIONS, FtypeTable = FTYPE_MIGRATIONS
  PROVE  Unchained
<1>1. \A i \in DOMAIN TYPE_CODE_MIGRATIONS :
        resolve_type_code(TYPE_CODE_MIGRATIONS, TYPE_CODE_MIGRATIONS[i][2])
          = TYPE_CODE_MIGRATIONS[i][2]
  <2>1. \A i \in DOMAIN TYPE_CODE_MIGRATIONS :
          TYPE_CODE_MIGRATIONS[i][1] # 43 /\ TYPE_CODE_MIGRATIONS[i][2] = 43
    BY DEF TYPE_CODE_MIGRATIONS, T_Q4_0_AR16
  <2>2. resolve_type_code(TYPE_CODE_MIGRATIONS, 43) = 43
    BY <2>1 DEF resolve_type_code
  <2> QED BY <2>1, <2>2
<1>2. \A i \in DOMAIN FTYPE_MIGRATIONS :
        remap_ftype(FTYPE_MIGRATIONS, FTYPE_MIGRATIONS[i][2]) = FTYPE_MIGRATIONS[i][2]
  <2>1. \A i \in DOMAIN FTYPE_MIGRATIONS :
          FTYPE_MIGRATIONS[i][1] # 29 /\ FTYPE_MIGRATIONS[i][2] = 29
    BY DEF FTYPE_MIGRATIONS
  <2>2. remap_ftype(FTYPE_MIGRATIONS, 29) = 29
    BY <2>1 DEF remap_ftype
  <2> QED BY <2>1, <2>2
<1> QED BY <1>1, <1>2 DEF Unchained

-----------------------------------------------------------------------------
(* What MigrateSpec makes of a file.                                       *)

\* The inputs it refuses.
LEMMA RefusalMeans ==
  ASSUME NEW f \in AnyFile
  PROVE  /\ Spec0!Unreadable(f) <=>
              \E i \in 1..Len(f.tensors) :
                 resolve_type_code(TypeTable, f.tensors[i].code) \notin KnownTypes
         /\ Spec0!Refused(f) <=>
              \E i \in 1..Len(f.kvs) :
                 f.kvs[i].key = FTYPE /\ f.kvs[i].val[1] \notin {"u32", "i32"}
<1>1. DOMAIN f.kvs = 1..Len(f.kvs) /\ DOMAIN f.tensors = 1..Len(f.tensors)
  <2>1. f.kvs \in Seq(Kv) /\ f.tensors \in Seq(InTensor)
    BY DEF AnyFile
  <2> QED BY <2>1, LenProperties
<1>2. Spec0!Unreadable(f) <=>
        \E i \in DOMAIN f.tensors :
           resolve_type_code(TypeTable, f.tensors[i].code) \notin KnownTypes
  BY DEF Spec0!Unreadable, Spec0!Resolved, Spec0!resolve_type_code, resolve_type_code,
         Spec0!KnownTypes, KnownTypes, Spec0!type_sizes, type_sizes, Spec0!T_F32, T_F32,
         Spec0!T_F16, T_F16, Spec0!T_Q4_0, T_Q4_0, Spec0!T_Q8_0, T_Q8_0, Spec0!T_BF16,
         T_BF16, Spec0!T_Q4_0_AR16, T_Q4_0_AR16
<1>3. Spec0!Refused(f) <=>
        \E i \in DOMAIN f.kvs :
           f.kvs[i].key = FTYPE /\ f.kvs[i].val[1] \notin {"u32", "i32"}
  BY DEF Spec0!Refused, Spec0!Integral, Spec0!FTYPE, FTYPE
<1> QED BY <1>1, <1>2, <1>3

\* Which KVs it keeps, and with which value.
LEMMA KvMeans ==
  ASSUME NEW kv \in Kv
  PROVE  /\ Spec0!Kept(kv) <=> kv.val # EMPTY /\ (kv.key = ARCH => kv.val[1] = "str")
         /\ Spec0!NewVal(kv) =
              IF kv.key = FTYPE THEN <<"u32", remap_ftype(FtypeTable, kv.val[2])>>
              ELSE kv.val
         /\ kv.val[1] \in {"u32", "i32"} => kv.val # EMPTY /\ kv.val[2] \in Nat
         /\ kv.key = FTYPE /\ kv.val[1] \in {"u32", "i32"} => Spec0!Kept(kv)
         /\ (kv.key = FTYPE => kv.val[1] \in {"u32", "i32"}) => Spec0!NewVal(kv) \in Val
<1>1. Spec0!Kept(kv) <=> kv.val # EMPTY /\ (kv.key = ARCH => kv.val[1] = "str")
  BY DEF Spec0!Kept, Spec0!EMPTY, EMPTY, Spec0!ARCH, ARCH
<1>2. Spec0!NewVal(kv) =
        IF kv.key = FTYPE THEN <<"u32", remap_ftype(FtypeTable, kv.val[2])>> ELSE kv.val
  BY DEF Spec0!NewVal, Spec0!FTYPE, FTYPE, Spec0!remap_ftype, remap_ftype
<1>3. ASSUME kv.val[1] \in {"u32", "i32"}
      PROVE  kv.val # EMPTY /\ kv.val[2] \in Nat
  <2>1. kv.val \in Forms \X Nat \/ \E r \in Seq(Names \X Nat) : kv.val = <<"arr", r>>
    BY DEF Kv, Val
  <2>2. kv.val \in Forms \X Nat
    BY <1>3, <2>1
  <2> QED BY <1>3, <2>2 DEF EMPTY
<1>4. FTYPE # ARCH
  BY DEF FTYPE, ARCH
<1>5. ASSUME kv.key = FTYPE => kv.val[1] \in {"u32", "i32"}
      PROVE  Spec0!NewVal(kv) \in Val
  <2>1. CASE kv.key = FTYPE
    <3>1. remap_ftype(FtypeTable, kv.val[2]) \in Nat
      BY <1>3, <1>5, <2>1, MovedType
    <3>2. Spec0!NewVal(kv) = <<"u32", remap_ftype(FtypeTable, kv.val[2])>>
      BY <1>2, <2>1
    <3>3. \A n \in Nat : <<"u32", n>> \in Forms \X Nat
      BY DEF Forms
    <3>4. Spec0!NewVal(kv) \in Forms \X Nat
      BY <3>1, <3>2, <3>3, Zenon
    <3> QED BY <3>4 DEF Val
  <2>2. CASE kv.key # FTYPE
    BY <1>2, <2>2 DEF Kv
  <2> QED BY <2>1, <2>2
<1> QED BY <1>1, <1>2, <1>3, <1>4, <1>5

\* The KVs it keeps are those of KeptSet.
LEMMA KeptMeans ==
  ASSUME NEW f \in AnyFile, NEW i \in 1..Len(f.kvs)
  PROVE  f.kvs[i] \in Kv /\ (f.kvs[i] \in KeptSet(f) <=> Spec0!Kept(f.kvs[i]))
<1>1. f.kvs \in Seq(Kv)
  BY DEF AnyFile
<1>2. f.kvs[i] \in Kv /\ i \in DOMAIN f.kvs
  BY <1>1, LenProperties, ElementOfSeq
<1> QED BY <1>2 DEF KeptSet, Range

\* The tensors it reports.
LEMMA LegacyMeans ==
  ASSUME NEW f \in AnyFile
  PROVE  /\ Spec0!Legacy(f) \in Seq(InTensor)
         /\ DOMAIN Spec0!Legacy(f) = 1..Len(Spec0!Legacy(f))
         /\ Spec0!Legacy(f) = <<>> <=>
              \A i \in 1..Len(f.tensors) :
                 resolve_type_code(TypeTable, f.tensors[i].code) = f.tensors[i].code
         /\ Spec0!Legacy(f) =
              Only(f.tensors, {t \in Range(f.tensors) :
                                 resolve_type_code(TypeTable, t.code) # t.code})
<1> DEFINE K == {t \in Range(f.tensors) : resolve_type_code(TypeTable, t.code) # t.code}
<1>1. f.tensors \in Seq(InTensor)
  BY DEF AnyFile
<1>2. Spec0!Legacy(f) = Only(f.tensors, K)
  BY DEF Spec0!Legacy, Spec0!Only, Only, Spec0!OnlyUpTo, OnlyUpTo, Spec0!Resolved,
         Spec0!resolve_type_code, resolve_type_code, Spec0!Range, Range
<1>3. \A i \in 1..Len(f.tensors) :
        f.tensors[i] \in K <=> resolve_type_code(TypeTable, f.tensors[i].code) # f.tensors[i].code
  BY <1>1, LenProperties DEF Range
<1>4. Only(f.tensors, K) = <<>> <=> \A i \in 1..Len(f.tensors) : f.tensors[i] \notin K
  <2> HIDE DEF K
  <2> QED BY <1>1, OnlyNone
<1>5. Only(f.tensors, K) \in Seq(InTensor)
  <2> HIDE DEF K
  <2>1. Only(f.tensors, K) \in Seq(InTensor \cap K)
    BY <1>1, OnlySeq
  <2> QED BY <2>1, SeqMonotonic
<1> HIDE DEF K
<1>6. DOMAIN Only(f.tensors, K) = 1..Len(Only(f.tensors, K))
  BY <1>5, LenProperties
<1> QED BY <1>2, <1>3, <1>4, <1>5, <1>6 DEF K

\* What the report says.
ReportOf(s) == <<"arr", [i \in DOMAIN s |-> <<s[i].name, s[i].code>>]>>

LEMMA ReportType ==
  ASSUME NEW s \in Seq(InTensor)
  PROVE  ReportOf(s) \in Val /\ ReportOf(s) # EMPTY /\ ReportOf(s)[1] = "arr"
<1> DEFINE r == [i \in DOMAIN s |-> <<s[i].name, s[i].code>>]
<1>1. Len(s) \in Nat /\ DOMAIN s = 1..Len(s) /\ \A i \in DOMAIN s : s[i] \in InTensor
  BY LenProperties, ElementOfSeq
<1>2. \A i \in DOMAIN s : <<s[i].name, s[i].code>> \in Names \X Nat
  BY <1>1 DEF InTensor
<1>3. r \in [1..Len(s) -> Names \X Nat]
  BY <1>1, <1>2
<1>4. r \in Seq(Names \X Nat)
  <2> HIDE DEF r
  <2> QED BY <1>1, <1>3, FunctionIsSeq
<1>5. ReportOf(s) = <<"arr", r>>
  BY DEF ReportOf
<1> HIDE DEF r
<1> QED BY <1>4, <1>5 DEF Val, EMPTY

\* One sequence after another, element by element.
LEMMA Concatenated ==
  ASSUME NEW a, NEW b, NEW m \in Nat, NEW n \in Nat, DOMAIN a = 1..m, DOMAIN b = 1..n,
         a = [i \in 1..m |-> a[i]], b = [i \in 1..n |-> b[i]]
  PROVE  /\ Len(a \o b) = m + n /\ DOMAIN (a \o b) = 1..(m + n)
         /\ \A i \in 1..m : (a \o b)[i] = a[i]
         /\ \A i \in 1..n : (a \o b)[m + i] = b[i]
         /\ a \o b = [i \in 1..(m + n) |-> (a \o b)[i]]
<1> DEFINE S == {a[i] : i \in 1..m} \cup {b[i] : i \in 1..n}
<1>1. a \in Seq(S) /\ Len(a) = m
  <2>1. a \in [1..m -> S]
    OBVIOUS
  <2> HIDE DEF S
  <2> QED BY <2>1, FunctionIsSeq
<1>2. b \in Seq(S) /\ Len(b) = n
  <2>1. b \in [1..n -> S]
    OBVIOUS
  <2> HIDE DEF S
  <2> QED BY <2>1, FunctionIsSeq
<1> HIDE DEF S
<1>3. /\ a \o b \in Seq(S) /\ Len(a \o b) = m + n
      /\ \A i \in 1..(m + n) : (a \o b)[i] = IF i <= m THEN a[i] ELSE b[i - m]
  BY <1>1, <1>2, ConcatProperties, ZenonT(60)
<1>4. DOMAIN (a \o b) = 1..(m + n) /\ a \o b = [i \in 1..(m + n) |-> (a \o b)[i]]
  BY <1>3, LenProperties
<1>5. \A i \in 1..m : (a \o b)[i] = a[i]
  BY <1>3
<1>6. \A i \in 1..n : (a \o b)[m + i] = b[i]
  <2> TAKE i \in 1..n
  <2>1. m + i \in 1..(m + n) /\ ~(m + i <= m) /\ (m + i) - m = i
    OBVIOUS
  <2> QED BY <1>3, <2>1
<1> QED BY <1>3, <1>4, <1>5, <1>6

\* The number of KVs kept, and of KVs the report adds.
KeptLen(f) == Len(KeptUpTo(f, Len(f.kvs)))
Extra(f) == IF Spec0!Legacy(f) = <<>> THEN 0 ELSE 1

\* The KVs kept are a sequence of KVs of the file.
LEMMA KeptType ==
  ASSUME NEW f \in AnyFile, NEW n \in 0..Len(f.kvs)
  PROVE  /\ KeptUpTo(f, n) \in Seq(Kv) /\ Len(KeptUpTo(f, n)) \in 0..n
         /\ DOMAIN KeptUpTo(f, n) = 1..Len(KeptUpTo(f, n))
         /\ \A k \in 1..Len(KeptUpTo(f, n)) :
              \E i \in 1..n : KeptUpTo(f, n)[k] = f.kvs[i] /\ Spec0!Kept(f.kvs[i])
<1> DEFINE K == KeptSet(f)
<1>1. f.kvs \in Seq(Kv) /\ Len(f.kvs) \in Nat
  BY LenProperties DEF AnyFile
<1>2. \A i \in 1..Len(f.kvs) : f.kvs[i] \in K <=> Spec0!Kept(f.kvs[i])
  BY KeptMeans
<1> HIDE DEF K
<1>3. OnlyUpTo(f.kvs, K)[n] \in Seq(Kv \cap K) /\ Len(OnlyUpTo(f.kvs, K)[n]) \in 0..n
  BY <1>1, OnlyType
<1>4. \A k \in 1..Len(OnlyUpTo(f.kvs, K)[n]) :
        \E i \in 1..n : f.kvs[i] \in K /\ OnlyUpTo(f.kvs, K)[n][k] = f.kvs[i]
  <2>1. ComesFrom(f.kvs, K, n)
    BY <1>1, OnlyFrom
  <2> QED BY <2>1 DEF ComesFrom
<1>5. OnlyUpTo(f.kvs, K)[n] \in Seq(Kv)
  BY <1>3, SeqMonotonic
<1>6. DOMAIN OnlyUpTo(f.kvs, K)[n] = 1..Len(OnlyUpTo(f.kvs, K)[n])
  BY <1>5, LenProperties
<1>7. \A k \in 1..Len(OnlyUpTo(f.kvs, K)[n]) :
        \E i \in 1..n : OnlyUpTo(f.kvs, K)[n][k] = f.kvs[i] /\ Spec0!Kept(f.kvs[i])
  <2> TAKE k \in 1..Len(OnlyUpTo(f.kvs, K)[n])
  <2>1. PICK i \in 1..n : f.kvs[i] \in K /\ OnlyUpTo(f.kvs, K)[n][k] = f.kvs[i]
    BY <1>4
  <2>2. i \in 1..Len(f.kvs)
    BY <1>1
  <2> QED BY <1>2, <2>1, <2>2
<1> QED BY <1>3, <1>5, <1>6, <1>7 DEF KeptUpTo, K

\* The migrated file, KV by KV and tensor by tensor.
LEMMA MigratedMeans ==
  ASSUME NEW f \in AnyFile
  PROVE  LET m == Spec0!Migrated(f)
             s == KeptUpTo(f, Len(f.kvs))
         IN  /\ KeptLen(f) \in 0..Len(f.kvs)
             /\ m = [kvs |-> m.kvs, tensors |-> m.tensors]
             /\ Len(m.kvs) = KeptLen(f) + Extra(f)
             /\ DOMAIN m.kvs = 1..(KeptLen(f) + Extra(f))
             /\ m.kvs = [k \in 1..(KeptLen(f) + Extra(f)) |-> m.kvs[k]]
             /\ \A k \in 1..KeptLen(f) :
                  m.kvs[k] = [key |-> s[k].key, val |-> Spec0!NewVal(s[k])]
             /\ Extra(f) = 1 =>
                  m.kvs[KeptLen(f) + 1] = [key |-> MIGRATED, val |-> ReportOf(Spec0!Legacy(f))]
             /\ m.tensors = [i \in 1..Len(f.tensors) |->
                  [f.tensors[i] EXCEPT !.code = resolve_type_code(TypeTable, f.tensors[i].code)]]
<1> DEFINE s == KeptUpTo(f, Len(f.kvs))
           a == [i \in DOMAIN s |-> [key |-> s[i].key, val |-> Spec0!NewVal(s[i])]]
           b == Spec0!Report(f)
           t == [i \in DOMAIN f.tensors |->
                   [f.tensors[i] EXCEPT !.code = resolve_type_code(TypeTable, f.tensors[i].code)]]
<1>1. Spec0!Migrated(f) = [kvs |-> a \o b, tensors |-> t]
  <2>1. Only(f.kvs, KeptSet(f)) = s
    BY DEF Only, KeptUpTo
  <2>2. Spec0!Only(f.kvs, {kv \in Spec0!Range(f.kvs) : Spec0!Kept(kv)}) = s
    BY <2>1 DEF Spec0!Only, Only, Spec0!OnlyUpTo, OnlyUpTo, KeptSet, Range, Spec0!Range
  <2> HIDE DEF s, b
  <2> QED BY <2>2 DEF Spec0!Migrated, Spec0!Resolved, Spec0!resolve_type_code,
                      resolve_type_code, b
<1>2. Len(s) \in 0..Len(f.kvs) /\ DOMAIN s = 1..Len(s) /\ Len(f.kvs) \in Nat
      /\ DOMAIN f.tensors = 1..Len(f.tensors)
  <2>1. Len(f.kvs) \in 0..Len(f.kvs) /\ Len(f.kvs) \in Nat
        /\ DOMAIN f.tensors = 1..Len(f.tensors)
    BY LenProperties DEF AnyFile
  <2> QED BY <2>1, KeptType
<1>3. b = IF Spec0!Legacy(f) = <<>> THEN <<>>
          ELSE <<[key |-> MIGRATED, val |-> ReportOf(Spec0!Legacy(f))]>>
  BY DEF Spec0!Report, ReportOf, Spec0!MIGRATED, MIGRATED
<1>4. Extra(f) \in Nat /\ DOMAIN b = 1..Extra(f) /\ b = [i \in 1..Extra(f) |-> b[i]]
  BY <1>3 DEF Extra
<1>5. DOMAIN a = 1..Len(s) /\ a = [i \in 1..Len(s) |-> a[i]]
  BY <1>2
<1> HIDE DEF a, b, s, t
<1>6. Len(s) \in Nat
  BY <1>2
<1>7. /\ Len(a \o b) = Len(s) + Extra(f) /\ DOMAIN (a \o b) = 1..(Len(s) + Extra(f))
      /\ \A i \in 1..Len(s) : (a \o b)[i] = a[i]
      /\ \A i \in 1..Extra(f) : (a \o b)[Len(s) + i] = b[i]
      /\ a \o b = [i \in 1..(Len(s) + Extra(f)) |-> (a \o b)[i]]
  BY <1>4, <1>5, <1>6, Concatenated
<1>8. \A k \in 1..Len(s) : a[k] = [key |-> s[k].key, val |-> Spec0!NewVal(s[k])]
  BY <1>2 DEF a
<1>9. Extra(f) = 1 =>
        (a \o b)[Len(s) + 1] = [key |-> MIGRATED, val |-> ReportOf(Spec0!Legacy(f))]
  BY <1>3, <1>7 DEF Extra
<1>10. t = [i \in 1..Len(f.tensors) |->
              [f.tensors[i] EXCEPT !.code = resolve_type_code(TypeTable, f.tensors[i].code)]]
  BY <1>2 DEF t
<1>11. KeptLen(f) = Len(s)
  BY DEF KeptLen, s
<1>12. LET m == Spec0!Migrated(f)
       IN  m = [kvs |-> m.kvs, tensors |-> m.tensors] /\ m.kvs = a \o b /\ m.tensors = t
  BY <1>1
<1> QED BY <1>2, <1>7, <1>8, <1>9, <1>10, <1>11, <1>12 DEF s

\* A file is ambiguous if two KVs of the output would have one key, or two
\* tensors one name.
LEMMA AmbiguousMeans ==
  ASSUME NEW f \in AnyFile
  PROVE  Spec0!Ambiguous(f) <=>
           \/ \E i, j \in 1..(KeptLen(f) + Extra(f)) :
                i # j /\ Spec0!Migrated(f).kvs[i].key = Spec0!Migrated(f).kvs[j].key
           \/ \E i, j \in 1..Len(f.tensors) :
                i # j /\ f.tensors[i].name = f.tensors[j].name
<1> PICK m : m = Spec0!Migrated(f)
  OBVIOUS
<1>1. /\ DOMAIN m.kvs = 1..(KeptLen(f) + Extra(f))
      /\ m.tensors = [i \in 1..Len(f.tensors) |->
           [f.tensors[i] EXCEPT !.code = resolve_type_code(TypeTable, f.tensors[i].code)]]
  BY MigratedMeans
<1>2. \A i \in 1..Len(f.tensors) : f.tensors[i] \in InTensor
  BY ElementOfSeq DEF AnyFile
<1>3. DOMAIN m.tensors = 1..Len(f.tensors)
      /\ \A i \in 1..Len(f.tensors) : m.tensors[i].name = f.tensors[i].name
  <2>1. DOMAIN m.tensors = 1..Len(f.tensors)
    BY <1>1
  <2>2. ASSUME NEW i \in 1..Len(f.tensors)
        PROVE  m.tensors[i].name = f.tensors[i].name
    <3>1. m.tensors[i] =
            [f.tensors[i] EXCEPT !.code = resolve_type_code(TypeTable, f.tensors[i].code)]
      BY <1>1
    <3>2. f.tensors[i] \in InTensor
      BY <1>2
    <3> QED BY <3>1, <3>2 DEF InTensor
  <2> QED BY <2>1, <2>2
<1>4. Spec0!Ambiguous(f) <=>
        \/ ~Spec0!IsInjective([i \in DOMAIN m.kvs |-> m.kvs[i].key])
        \/ ~Spec0!IsInjective([i \in DOMAIN m.tensors |-> m.tensors[i].name])
  BY DEF Spec0!Ambiguous
<1>5. ~Spec0!IsInjective([i \in DOMAIN m.kvs |-> m.kvs[i].key]) <=>
        \E i, j \in 1..(KeptLen(f) + Extra(f)) : i # j /\ m.kvs[i].key = m.kvs[j].key
  BY <1>1 DEF Spec0!IsInjective
<1>6. ~Spec0!IsInjective([i \in DOMAIN m.tensors |-> m.tensors[i].name]) <=>
        \E i, j \in 1..Len(f.tensors) : i # j /\ f.tensors[i].name = f.tensors[j].name
  <2> DEFINE g == [i \in DOMAIN m.tensors |-> m.tensors[i].name]
  <2>1. DOMAIN g = 1..Len(f.tensors) /\ \A i \in 1..Len(f.tensors) : g[i] = f.tensors[i].name
    BY <1>3
  <2> HIDE DEF g
  <2>2. ~Spec0!IsInjective(g) <=>
          \E i, j \in 1..Len(f.tensors) : i # j /\ f.tensors[i].name = f.tensors[j].name
    BY <2>1 DEF Spec0!IsInjective
  <2> QED BY <2>2 DEF g
<1> QED BY <1>4, <1>5, <1>6

\* A key of the output is the report's or comes from a KV that is kept.
LEMMA MigratedKv ==
  ASSUME NEW f \in AnyFile, NEW k \in 1..(KeptLen(f) + Extra(f))
  PROVE  \/ /\ k = KeptLen(f) + 1 /\ Spec0!Legacy(f) # <<>>
            /\ Spec0!Migrated(f).kvs[k] = [key |-> MIGRATED, val |-> ReportOf(Spec0!Legacy(f))]
         \/ \E i \in 1..Len(f.kvs) :
              /\ f.kvs[i] \in Kv /\ Spec0!Kept(f.kvs[i])
              /\ Spec0!Migrated(f).kvs[k]
                   = [key |-> f.kvs[i].key, val |-> Spec0!NewVal(f.kvs[i])]
<1>n. Len(f.kvs) \in Nat
  BY LenProperties DEF AnyFile
<1> PICK n \in 0..Len(f.kvs) : n = Len(f.kvs)
  BY <1>n
<1> PICK m, s : m = Spec0!Migrated(f) /\ s = KeptUpTo(f, n)
  OBVIOUS
<1>1. /\ KeptLen(f) \in 0..Len(f.kvs)
      /\ \A j \in 1..KeptLen(f) : m.kvs[j] = [key |-> s[j].key, val |-> Spec0!NewVal(s[j])]
      /\ Extra(f) = 1 =>
           m.kvs[KeptLen(f) + 1] = [key |-> MIGRATED, val |-> ReportOf(Spec0!Legacy(f))]
  BY MigratedMeans
<1>2. CASE k \in 1..KeptLen(f)
  <2>1. PICK i \in 1..Len(f.kvs) : s[k] = f.kvs[i] /\ Spec0!Kept(f.kvs[i])
    <3>1. \A j \in 1..Len(KeptUpTo(f, n)) :
            \E i \in 1..n : KeptUpTo(f, n)[j] = f.kvs[i] /\ Spec0!Kept(f.kvs[i])
      BY KeptType
    <3>2. k \in 1..Len(KeptUpTo(f, n))
      BY <1>2 DEF KeptLen
    <3> QED BY <3>1, <3>2
  <2>2. f.kvs[i] \in Kv
    BY KeptMeans
  <2> QED BY <1>1, <1>2, <2>1, <2>2
<1>3. CASE k \notin 1..KeptLen(f)
  <2>1. k = KeptLen(f) + 1 /\ Extra(f) = 1
    BY <1>n, <1>1, <1>3 DEF Extra
  <2> QED BY <1>1, <2>1 DEF Extra
<1> QED BY <1>2, <1>3

\* What a migration writes is a file, with at most one KV more than its input.
LEMMA MigratedFits ==
  ASSUME NEW r \in Nat, NEW f, Fit(f, r), ~Spec0!Refused(f)
  PROVE  Fit(Spec0!Migrated(f), r + 1)
<1> PICK m : m = Spec0!Migrated(f)
  OBVIOUS
<1>1. f \in AnyFile /\ Len(f.tensors) \in Nat /\ Len(f.kvs) \in Nat
  BY LenProperties DEF Fit, AnyFile
<1>2. /\ m = [kvs |-> m.kvs, tensors |-> m.tensors]
      /\ Len(m.kvs) = KeptLen(f) + Extra(f) /\ KeptLen(f) \in 0..Len(f.kvs)
      /\ m.kvs = [k \in 1..(KeptLen(f) + Extra(f)) |-> m.kvs[k]]
      /\ m.tensors = [i \in 1..Len(f.tensors) |->
           [f.tensors[i] EXCEPT !.code = resolve_type_code(TypeTable, f.tensors[i].code)]]
  BY <1>1, MigratedMeans
<1>3. KeptLen(f) + Extra(f) \in Nat /\ KeptLen(f) + Extra(f) <= Len(f.kvs) + 1
  <2>1. Extra(f) \in {0, 1}
    BY DEF Extra
  <2> QED BY <1>1, <1>2, <2>1
<1>4. \A k \in 1..(KeptLen(f) + Extra(f)) : m.kvs[k] \in Kv
  <2> TAKE k \in 1..(KeptLen(f) + Extra(f))
  <2>1. CASE m.kvs[k] = [key |-> MIGRATED, val |-> ReportOf(Spec0!Legacy(f))]
    <3>1. ReportOf(Spec0!Legacy(f)) \in Val /\ MIGRATED \in Keys
      BY <1>1, LegacyMeans, ReportType, MigrateAssumption
    <3> QED BY <2>1, <3>1 DEF Kv
  <2>2. CASE \E i \in 1..Len(f.kvs) :
               /\ f.kvs[i] \in Kv /\ Spec0!Kept(f.kvs[i])
               /\ m.kvs[k] = [key |-> f.kvs[i].key, val |-> Spec0!NewVal(f.kvs[i])]
    <3> PICK i \in 1..Len(f.kvs) :
               /\ f.kvs[i] \in Kv
               /\ m.kvs[k] = [key |-> f.kvs[i].key, val |-> Spec0!NewVal(f.kvs[i])]
      BY <2>2
    <3>1. f.kvs[i].key = FTYPE => f.kvs[i].val[1] \in {"u32", "i32"}
      BY <1>1, RefusalMeans
    <3>2. Spec0!NewVal(f.kvs[i]) \in Val
      BY <3>1, KvMeans
    <3>3. f.kvs[i].key \in Keys
      BY DEF Kv
    <3> QED BY <3>2, <3>3 DEF Kv
  <2> QED BY <1>1, <2>1, <2>2, MigratedKv
<1>5. m.kvs \in Seq(Kv)
  <2>1. m.kvs \in [1..(KeptLen(f) + Extra(f)) -> Kv]
    BY <1>2, <1>4
  <2> QED BY <1>3, <2>1, FunctionIsSeq
<1>6. ASSUME NEW i \in 1..Len(f.tensors)
      PROVE  m.tensors[i] \in InTensor /\ m.tensors[i].elems = f.tensors[i].elems
  <2>1. f.tensors[i] \in InTensor
    BY <1>1, ElementOfSeq DEF AnyFile
  <2>2. resolve_type_code(TypeTable, f.tensors[i].code) \in Nat
    BY <2>1, MovedType DEF InTensor
  <2>3. m.tensors[i] =
          [f.tensors[i] EXCEPT !.code = resolve_type_code(TypeTable, f.tensors[i].code)]
    BY <1>2
  <2> QED BY <2>1, <2>2, <2>3 DEF InTensor
<1>7. m.tensors \in Seq(InTensor) /\ Len(m.tensors) = Len(f.tensors)
  <2>1. m.tensors \in [1..Len(f.tensors) -> InTensor]
    BY <1>2, <1>6
  <2> QED BY <1>1, <2>1, FunctionIsSeq
<1>8. m \in AnyFile
  BY <1>2, <1>5, <1>7 DEF AnyFile
<1>9. Len(m.kvs) + MaxRounds < MaxKvs + (r + 1)
  BY <1>1, <1>2, <1>3, MigrateAssumption, SMTT(20) DEF Fit
<1> QED BY <1>6, <1>7, <1>8, <1>9 DEF Fit

\* What a migration wrote has nothing left to migrate: no code and no ftype the
\* tables move, no KV it would drop, no key and no name twice.
LEMMA MigratedSettled ==
  ASSUME Unchained, NEW f \in AnyFile, Spec0!Migrated(f) \in AnyFile,
         ~Spec0!Unreadable(f), ~Spec0!Refused(f), ~Spec0!Ambiguous(f)
  PROVE  Settled(Spec0!Migrated(f))
<1> PICK m \in AnyFile : m = Spec0!Migrated(f)
  OBVIOUS
<1>1. /\ Len(m.kvs) = KeptLen(f) + Extra(f)
      /\ m.tensors = [i \in 1..Len(f.tensors) |->
           [f.tensors[i] EXCEPT !.code = resolve_type_code(TypeTable, f.tensors[i].code)]]
  BY MigratedMeans
<1>2. Len(m.tensors) = Len(f.tensors) /\ DOMAIN m.tensors = 1..Len(m.tensors)
  <2>1. Len(m.tensors) \in Nat /\ DOMAIN m.tensors = 1..Len(m.tensors)
    BY LenProperties DEF AnyFile
  <2>2. DOMAIN m.tensors = 1..Len(f.tensors) /\ Len(f.tensors) \in Nat
    BY <1>1, LenProperties DEF AnyFile
  <2> QED BY <2>1, <2>2
<1>3. ASSUME NEW i \in 1..Len(m.tensors)
      PROVE  /\ m.tensors[i].name = f.tensors[i].name
             /\ resolve_type_code(TypeTable, m.tensors[i].code) = m.tensors[i].code
             /\ m.tensors[i].code \in KnownTypes
  <2>1. f.tensors[i] \in InTensor
    BY <1>2, ElementOfSeq DEF AnyFile
  <2>2. m.tensors[i] =
          [f.tensors[i] EXCEPT !.code = resolve_type_code(TypeTable, f.tensors[i].code)]
    BY <1>1, <1>2
  <2>3. /\ m.tensors[i].name = f.tensors[i].name
        /\ m.tensors[i].code = resolve_type_code(TypeTable, f.tensors[i].code)
    BY <2>1, <2>2 DEF InTensor
  <2>4. resolve_type_code(TypeTable, f.tensors[i].code) \in KnownTypes
    BY <1>2, RefusalMeans
  <2> QED BY <2>3, <2>4, MovedOnce
<1>4. ~Spec0!Unreadable(m) /\ Spec0!Legacy(m) = <<>>
  BY <1>3, RefusalMeans, LegacyMeans, ZenonT(60)
<1>5. \A i, j \in 1..Len(m.kvs) : i # j => m.kvs[i].key # m.kvs[j].key
  BY <1>1, AmbiguousMeans
<1>6. \A i, j \in 1..Len(m.tensors) : i # j => m.tensors[i].name # m.tensors[j].name
  BY <1>2, <1>3, AmbiguousMeans
<1>7. ASSUME NEW k \in 1..Len(m.kvs)
      PROVE  /\ Spec0!Kept(m.kvs[k])
             /\ m.kvs[k].key = FTYPE => /\ m.kvs[k].val[1] \in {"u32", "i32"}
                                        /\ Spec0!NewVal(m.kvs[k]) = m.kvs[k].val
  <2>1. m.kvs[k] \in Kv
    BY ElementOfSeq DEF AnyFile
  <2>2. CASE m.kvs[k] = [key |-> MIGRATED, val |-> ReportOf(Spec0!Legacy(f))]
    <3>1. ReportOf(Spec0!Legacy(f)) # EMPTY
      BY LegacyMeans, ReportType
    <3>2. MIGRATED # ARCH /\ MIGRATED # FTYPE
      BY DEF MIGRATED, ARCH, FTYPE
    <3> QED BY <2>1, <2>2, <3>1, <3>2, KvMeans
  <2>3. ASSUME NEW i \in 1..Len(f.kvs), f.kvs[i] \in Kv, Spec0!Kept(f.kvs[i]),
               m.kvs[k] = [key |-> f.kvs[i].key, val |-> Spec0!NewVal(f.kvs[i])]
        PROVE  /\ Spec0!Kept(m.kvs[k])
               /\ m.kvs[k].key = FTYPE => /\ m.kvs[k].val[1] \in {"u32", "i32"}
                                          /\ Spec0!NewVal(m.kvs[k]) = m.kvs[k].val
    <3>1. CASE f.kvs[i].key = FTYPE
      <4> PICK n : n = remap_ftype(FtypeTable, f.kvs[i].val[2])
        OBVIOUS
      <4>1. m.kvs[k].key = FTYPE /\ m.kvs[k].val = <<"u32", n>>
        BY <2>3, <3>1, KvMeans
      <4>2. remap_ftype(FtypeTable, n) = n
        BY MovedOnce
      <4>3. Spec0!NewVal(m.kvs[k]) = <<"u32", remap_ftype(FtypeTable, m.kvs[k].val[2])>>
        BY <2>1, <4>1, KvMeans
      <4>4. m.kvs[k].val[1] = "u32" /\ m.kvs[k].val[2] = n
        BY <4>1
      <4> QED BY <2>1, <4>1, <4>2, <4>3, <4>4, KvMeans
    <3>2. CASE f.kvs[i].key # FTYPE
      <4>1. m.kvs[k].key = f.kvs[i].key /\ m.kvs[k].val = f.kvs[i].val
        BY <2>3, <3>2, KvMeans
      <4> QED BY <2>1, <2>3, <3>2, <4>1, KvMeans
    <3> QED BY <3>1, <3>2
  <2>4. k \in 1..(KeptLen(f) + Extra(f))
    BY <1>1
  <2> QED BY <2>2, <2>3, <2>4, MigratedKv
<1> QED BY <1>4, <1>5, <1>6, <1>7 DEF Settled

\* Migrating such a file is refused by nothing and changes nothing.
LEMMA SettledStays ==
  ASSUME NEW f \in AnyFile, Settled(f)
  PROVE  /\ Spec0!Migrated(f) = f
         /\ ~Spec0!Unreadable(f) /\ ~Spec0!Refused(f) /\ ~Spec0!Ambiguous(f)
<1> PICK m : m = Spec0!Migrated(f)
  OBVIOUS
<1>1. f.kvs \in Seq(Kv) /\ f.tensors \in Seq(InTensor)
      /\ f = [kvs |-> f.kvs, tensors |-> f.tensors]
  BY DEF AnyFile
<1>2. KeptUpTo(f, Len(f.kvs)) = f.kvs
  <2>1. \A i \in 1..Len(f.kvs) : f.kvs[i] \in KeptSet(f)
    BY KeptMeans DEF Settled
  <2>2. Only(f.kvs, KeptSet(f)) = f.kvs
    BY <1>1, <2>1, OnlyAll
  <2> QED BY <2>2 DEF Only, KeptUpTo
<1>3. KeptLen(f) = Len(f.kvs) /\ Extra(f) = 0 /\ Len(f.kvs) \in Nat
  BY <1>1, <1>2, LenProperties DEF KeptLen, Extra, Settled
<1>4. /\ m = [kvs |-> m.kvs, tensors |-> m.tensors]
      /\ m.kvs = [k \in 1..Len(f.kvs) |-> m.kvs[k]]
      /\ \A k \in 1..Len(f.kvs) :
           m.kvs[k] = [key |-> f.kvs[k].key, val |-> Spec0!NewVal(f.kvs[k])]
      /\ m.tensors = [i \in 1..Len(f.tensors) |->
           [f.tensors[i] EXCEPT !.code = resolve_type_code(TypeTable, f.tensors[i].code)]]
  <2>1. KeptLen(f) + Extra(f) = Len(f.kvs)
    BY <1>3
  <2> PICK s : s = KeptUpTo(f, Len(f.kvs))
    OBVIOUS
  <2>2. /\ m = [kvs |-> m.kvs, tensors |-> m.tensors]
        /\ m.kvs = [k \in 1..(KeptLen(f) + Extra(f)) |-> m.kvs[k]]
        /\ \A k \in 1..KeptLen(f) :
             m.kvs[k] = [key |-> s[k].key, val |-> Spec0!NewVal(s[k])]
        /\ m.tensors = [i \in 1..Len(f.tensors) |->
             [f.tensors[i] EXCEPT !.code = resolve_type_code(TypeTable, f.tensors[i].code)]]
    BY MigratedMeans
  <2>3. s = f.kvs
    BY <1>2
  <2> QED BY <1>3, <2>1, <2>2, <2>3
<1>5. \A k \in 1..Len(f.kvs) : m.kvs[k] = f.kvs[k]
  <2> TAKE k \in 1..Len(f.kvs)
  <2>1. f.kvs[k] \in Kv
    BY KeptMeans
  <2>2. Spec0!NewVal(f.kvs[k]) = f.kvs[k].val
    BY <2>1, KvMeans DEF Settled
  <2>3. m.kvs[k] = [key |-> f.kvs[k].key, val |-> f.kvs[k].val]
    BY <1>4, <2>2
  <2> QED BY <2>1, <2>3 DEF Kv
<1>6. m.kvs = f.kvs
  <2>1. f.kvs = [k \in 1..Len(f.kvs) |-> f.kvs[k]]
    BY <1>1, LenProperties
  <2> QED BY <1>4, <1>5, <2>1
<1>7. m.tensors = f.tensors
  <2>1. f.tensors = [i \in 1..Len(f.tensors) |-> f.tensors[i]]
    BY <1>1, LenProperties
  <2>2. ASSUME NEW i \in 1..Len(f.tensors)
        PROVE  m.tensors[i] = f.tensors[i]
    <3>1. f.tensors[i] \in InTensor
      BY <1>1, ElementOfSeq
    <3>2. resolve_type_code(TypeTable, f.tensors[i].code) = f.tensors[i].code
      BY LegacyMeans DEF Settled
    <3>3. m.tensors[i] = [f.tensors[i] EXCEPT !.code = f.tensors[i].code]
      BY <1>4, <3>2
    <3> QED BY <3>1, <3>3 DEF InTensor
  <2>3. m.tensors = [i \in 1..Len(f.tensors) |-> m.tensors[i]]
    BY <1>4
  <2> QED BY <2>1, <2>2, <2>3
<1>8. m = f
  BY <1>1, <1>4, <1>6, <1>7
<1>9. ~Spec0!Refused(f)
  BY RefusalMeans DEF Settled
<1>10. ~Spec0!Ambiguous(f)
  <2>1. KeptLen(f) + Extra(f) = Len(f.kvs)
    BY <1>3
  <2> QED BY <1>6, <2>1, AmbiguousMeans DEF Settled
<1> QED BY <1>8, <1>9, <1>10 DEF Settled

-----------------------------------------------------------------------------
(* The loops.                                                              *)

\* Whatever run r is given has room in the writer.
LEMMA Room ==
  ASSUME Typed
  PROVE  /\ input \in AnyFile /\ Len(input.kvs) \in Nat /\ Len(input.tensors) \in Nat
         /\ input.kvs \in Seq(Kv) /\ input.tensors \in Seq(InTensor)
         /\ Len(input.kvs) < MaxKvs /\ Len(input.tensors) <= MaxTensors
         /\ at \in Nat /\ at <= Len(input.kvs) /\ round \in Nat
         /\ DOMAIN input.kvs = 1..Len(input.kvs)
         /\ DOMAIN input.tensors = 1..Len(input.tensors)
<1>1. /\ input \in AnyFile /\ input.kvs \in Seq(Kv) /\ input.tensors \in Seq(InTensor)
      /\ Len(input.kvs) + MaxRounds < MaxKvs + round /\ Len(input.tensors) <= MaxTensors
  BY DEF Typed, Fit, AnyFile
<1>2. /\ Len(input.kvs) \in Nat /\ Len(input.tensors) \in Nat
      /\ DOMAIN input.kvs = 1..Len(input.kvs)
      /\ DOMAIN input.tensors = 1..Len(input.tensors)
  BY <1>1, LenProperties
<1>3. round \in Nat /\ round <= MaxRounds /\ MaxKvs \in Nat /\ MaxRounds \in Nat
  BY MigrateAssumption DEF Typed
<1>4. Len(input.kvs) < MaxKvs
  BY <1>1, <1>2, <1>3
<1>5. at \in Nat /\ at <= Len(input.kvs)
  BY <1>2 DEF Typed
<1> QED BY <1>1, <1>2, <1>3, <1>4, <1>5

\* The copy loop: the next KV, and what has been declared before it.
LEMMA Copying ==
  ASSUME Typed, CopiedKvs, pc = "kvs", at < Len(input.kvs), NEW kv, kv = input.kvs[at + 1]
  PROVE  /\ kv \in Kv /\ at + 1 \in 1..Len(input.kvs) /\ Len(kvs) \in 0..at
         /\ KeptUpTo(input, at + 1) = IF Spec0!Kept(kv) THEN Append(KeptUpTo(input, at), kv)
                                      ELSE KeptUpTo(input, at)
         /\ Spec0!Kept(kv) =>
              /\ Len(kvs) + 1 \in 1..KeptLen(input)
              /\ Spec0!Migrated(input).kvs[Len(kvs) + 1].key = kv.key
              /\ \A i \in 1..Len(kvs) : Spec0!Migrated(input).kvs[i].key = kvs[i]
<1> PICK n, s, K, l : n = at + 1 /\ s = input.kvs /\ K = KeptSet(input) /\ l = Len(s)
  BY Room
<1>1. /\ s \in Seq(Kv) /\ l \in Nat /\ n \in 1..l /\ at \in 0..l /\ l \in 0..l
      /\ l \in at..l /\ n - 1 = at /\ kv = s[n] /\ kv \in Kv /\ l = Len(s)
      /\ (kv \in K <=> Spec0!Kept(kv))
  <2>1. s \in Seq(Kv) /\ l \in Nat /\ n \in 1..l /\ at \in 0..l /\ n - 1 = at
        /\ input \in AnyFile
    BY Room
  <2>2. kv \in Kv /\ (kv \in K <=> Spec0!Kept(kv))
    BY <2>1, KeptMeans
  <2> QED BY <2>1, <2>2
<1>2. KeptUpTo(input, at) = OnlyUpTo(s, K)[at] /\ KeptUpTo(input, n) = OnlyUpTo(s, K)[n]
      /\ KeptLen(input) = Len(OnlyUpTo(s, K)[l]) /\ Only(s, K) = OnlyUpTo(s, K)[l]
  BY <1>1 DEF KeptUpTo, KeptLen, Only
<1>3. KeptUpTo(input, n) = IF Spec0!Kept(kv) THEN Append(KeptUpTo(input, at), kv)
                           ELSE KeptUpTo(input, at)
  <2>1. OnlyUpTo(s, K)[n] = IF s[n] \in K THEN Append(OnlyUpTo(s, K)[n - 1], s[n])
                            ELSE OnlyUpTo(s, K)[n - 1]
    BY <1>1, OnlyStep
  <2> QED BY <1>1, <1>2, <2>1
<1>4. Len(kvs) = Len(KeptUpTo(input, at)) /\ Len(kvs) \in 0..at
      /\ \A k \in 1..Len(kvs) : kvs[k] = KeptUpTo(input, at)[k].key
  <2>1. Len(OnlyUpTo(s, K)[at]) \in 0..at
    BY <1>1, OnlyType
  <2> QED BY <1>2, <2>1 DEF CopiedKvs
<1>5. ASSUME Spec0!Kept(kv)
      PROVE  /\ Len(kvs) + 1 \in 1..KeptLen(input)
             /\ Spec0!Migrated(input).kvs[Len(kvs) + 1].key = kv.key
             /\ \A i \in 1..Len(kvs) : Spec0!Migrated(input).kvs[i].key = kvs[i]
  <2>1. /\ Len(OnlyUpTo(s, K)[n]) = Len(OnlyUpTo(s, K)[at]) + 1
        /\ Len(OnlyUpTo(s, K)[n]) \in 1..Len(OnlyUpTo(s, K)[l])
        /\ OnlyUpTo(s, K)[l][Len(OnlyUpTo(s, K)[n])] = kv
    BY <1>1, <1>2, <1>5, OnlyPlace, SMTT(20)
  <2>2. Begins(OnlyUpTo(s, K)[at], OnlyUpTo(s, K)[l])
    BY <1>1, OnlyGrows
  <2>3. PICK o : o = OnlyUpTo(s, K)[l] /\ o = KeptUpTo(input, Len(input.kvs))
    BY <1>1 DEF KeptUpTo
  <2>4. /\ Len(kvs) + 1 \in 1..KeptLen(input) /\ o[Len(kvs) + 1] = kv
        /\ \A i \in 1..Len(kvs) : o[i] = KeptUpTo(input, at)[i]
    BY <1>2, <1>4, <2>1, <2>2, <2>3 DEF Begins
  <2> PICK m : m = Spec0!Migrated(input)
    OBVIOUS
  <2>5. \A k \in 1..KeptLen(input) :
          m.kvs[k] = [key |-> o[k].key, val |-> Spec0!NewVal(o[k])]
    <3>1. input \in AnyFile
      BY Room
    <3>2. \A k \in 1..KeptLen(input) :
            m.kvs[k] = [key |-> KeptUpTo(input, Len(input.kvs))[k].key,
                        val |-> Spec0!NewVal(KeptUpTo(input, Len(input.kvs))[k])]
      BY <3>1, MigratedMeans
    <3> QED BY <2>3, <3>2
  <2>6. \A i \in 1..Len(kvs) : i \in 1..KeptLen(input)
    <3>1. KeptLen(input) \in Nat
      BY <1>1, <1>2, OnlyType
    <3> QED BY <1>4, <2>4, <3>1
  <2>7. \A k \in 1..KeptLen(input) : m.kvs[k].key = o[k].key
    <3> TAKE k \in 1..KeptLen(input)
    <3>1. m.kvs[k] = [key |-> o[k].key, val |-> Spec0!NewVal(o[k])]
      BY <2>5, Zenon
    <3>2. \A a, b : [key |-> a, val |-> b].key = a
      OBVIOUS
    <3> QED BY <3>1, <3>2, SMTT(20)
  <2>8. \A i \in 1..Len(kvs) : m.kvs[i].key = kvs[i]
    <3> TAKE i \in 1..Len(kvs)
    <3>1. kvs[i] = KeptUpTo(input, at)[i].key /\ o[i] = KeptUpTo(input, at)[i]
      BY <1>4, <2>4
    <3> QED BY <2>6, <2>7, <3>1
  <2>9. m.kvs[Len(kvs) + 1].key = kv.key
    BY <2>4, <2>7
  <2> QED BY <2>4, <2>8, <2>9
<1> QED BY <1>1, <1>3, <1>4, <1>5

\* One pass of the loop: it keeps the KV or skips it as MigrateSpec says, or
\* fails on an ftype that is no integer.
LEMMA CopyKvCases ==
  ASSUME Typed, CopiedKvs, CopyKv, NEW kv, kv = input.kvs[at + 1]
  PROVE  \/ /\ Fail("ftype is not an integer")
            /\ kv.key = FTYPE /\ kv.val[1] \notin {"u32", "i32"}
         \/ SkipKv /\ ~Spec0!Kept(kv) /\ kv.key # FTYPE
         \/ /\ PutKv(kv.key, Spec0!NewVal(kv)) /\ Spec0!Kept(kv)
            /\ kv.key = FTYPE => kv.val[1] \in {"u32", "i32"}
<1>1. kv \in Kv /\ FTYPE # ARCH
  BY Copying DEF CopyKv, FTYPE, ARCH
<1>a. (kv.key = ARCH) \in BOOLEAN /\ (kv.key = FTYPE) \in BOOLEAN
      /\ (kv.val = EMPTY) \in BOOLEAN /\ (kv.val[1] \in {"u32", "i32"}) \in BOOLEAN
  OBVIOUS
<1>b. /\ kv.key = ARCH => IF kv.val[1] = "str" /\ kv.val # EMPTY
                            THEN PutKv(ARCH, kv.val) ELSE SkipKv
      /\ kv.key = FTYPE => IF kv.val[1] \in {"u32", "i32"}
                             THEN PutKv(FTYPE,
                                    <<"u32", remap_ftype(FtypeTable, kv.val[2])>>)
                             ELSE Fail("ftype is not an integer")
      /\ kv.key # ARCH /\ kv.key # FTYPE =>
           IF kv.val = EMPTY THEN SkipKv ELSE PutKv(kv.key, kv.val)
  BY <1>1, Zenon DEF CopyKv
<1>2. CASE kv.key = ARCH
  <2>1. CASE kv.val[1] = "str" /\ kv.val # EMPTY
    <3>1. PutKv(ARCH, kv.val)
      BY <1>b, <1>2, <2>1, Zenon
    <3>2. Spec0!Kept(kv) /\ Spec0!NewVal(kv) = kv.val
      BY <1>1, <1>2, <2>1, KvMeans
    <3> QED BY <1>1, <1>2, <3>1, <3>2
  <2>2. CASE ~(kv.val[1] = "str" /\ kv.val # EMPTY)
    <3>1. SkipKv
      BY <1>b, <1>2, <2>2, Zenon
    <3> QED BY <1>1, <1>2, <2>2, <3>1, KvMeans
  <2> QED BY <2>1, <2>2
<1>3. CASE kv.key = FTYPE
  <2>1. CASE kv.val[1] \in {"u32", "i32"}
    <3>1. PutKv(FTYPE, <<"u32", remap_ftype(FtypeTable, kv.val[2])>>)
      BY <1>b, <1>3, <2>1, Zenon
    <3>2. Spec0!Kept(kv)
          /\ Spec0!NewVal(kv) = <<"u32", remap_ftype(FtypeTable, kv.val[2])>>
      BY <1>1, <1>3, <2>1, KvMeans
    <3>3. PutKv(kv.key, Spec0!NewVal(kv))
      BY <1>3, <3>1, <3>2
    <3> QED BY <2>1, <3>2, <3>3
  <2>2. CASE kv.val[1] \notin {"u32", "i32"}
    BY <1>b, <1>3, <2>2, Zenon
  <2> QED BY <2>1, <2>2
<1>4. CASE kv.key # ARCH /\ kv.key # FTYPE
  <2>1. CASE kv.val = EMPTY
    <3>1. SkipKv
      BY <1>b, <1>4, <2>1, Zenon
    <3> QED BY <1>1, <1>4, <2>1, <3>1, KvMeans
  <2>2. CASE kv.val # EMPTY
    <3>1. PutKv(kv.key, kv.val)
      BY <1>b, <1>4, <2>2, Zenon
    <3>2. Spec0!Kept(kv) /\ Spec0!NewVal(kv) = kv.val
      BY <1>1, <1>4, <2>2, KvMeans
    <3> QED BY <1>4, <3>1, <3>2
  <2> QED BY <2>1, <2>2
<1> QED BY <1>2, <1>3, <1>4

-----------------------------------------------------------------------------
(* Initial states, and what a step leaves alone.                           *)

\* A first file is a file, and no run has begun on it.
LEMMA MInit == Init => MInv
<1> SUFFICES ASSUME Init PROVE MInv
  OBVIOUS
<1>1. input \in Files /\ input \in File
  BY MigrateAssumption DEF Init
<1>2. input \in AnyFile
  <2>1. Forms \X Nat \subseteq Val
    BY DEF Val
  <2>2. [key : Keys, val : Forms \X Nat] \subseteq Kv
    BY <2>1 DEF Kv
  <2>3. \A s \in Seq([key : Keys, val : Forms \X Nat]) : s \in Seq(Kv)
    BY <2>2, SeqMonotonic
  <2> QED BY <1>1, <2>3 DEF File, AnyFile
<1>3. Len(input.kvs) \in Nat /\ DOMAIN input.tensors = 1..Len(input.tensors)
  BY <1>2, LenProperties DEF AnyFile
<1>4. Fit(input, round)
  <2>1. /\ round = 1 /\ Len(input.kvs) + MaxRounds <= MaxKvs
        /\ Len(input.tensors) <= MaxTensors
        /\ \A i \in DOMAIN input.tensors, t \in KnownTypes :
             NBytes(t, input.tensors[i].elems) \in Sizes
    BY <1>1, MigrateAssumption DEF Init
  <2>2. Len(input.kvs) + MaxRounds < MaxKvs + 1
    BY <1>3, <2>1, MigrateAssumption
  <2> QED BY <1>2, <1>3, <2>1, <2>2 DEF Fit
<1>5. Typed
  <2>1. 1 \in 1..MaxRounds /\ 0 \in 0..Len(input.kvs)
    BY <1>3, MigrateAssumption
  <2>2. /\ pc = "open" /\ round = 1 /\ again = FALSE /\ inplace \in BOOLEAN /\ at = 0
    BY DEF Init
  <2> QED BY <1>4, <2>1, <2>2 DEF Typed
<1>6. TInv /\ WInit /\ Len(kvs) = 0 /\ Len(tensors) = 0 /\ next_tensor = 0
  BY TypeInit DEF Init, WInit
<1>7. /\ pc = "open" /\ disk = "old" /\ output = NoFile /\ cause = "none" /\ at = 0
      /\ Len(vals) = 0 /\ Len(codes) = 0 /\ Len(written) = 0
  BY DEF Init
<1>l. Lists
  <2>1. <<>> \in Seq(Val) /\ <<>> \in Seq(Nat) /\ <<>> \in Seq(STRING)
    BY EmptySeq
  <2> QED BY <2>1, Zenon DEF Lists, Init
<1>8. Phase /\ Causes /\ Done
  BY <1>6, <1>7 DEF Phase, Causes, Done, Begun, Complete
<1>9. CopiedKvs /\ CopiedTensors /\ CopiedData
  <2>1. 0 <= Len(input.tensors)
    BY <1>2, LenProperties DEF AnyFile
  <2>2. CopiedKvs
    BY <1>6, <1>7 DEF CopiedKvs, Begun, Complete
  <2>3. CopiedTensors
    BY <1>6, <1>7, <2>1 DEF CopiedTensors, Begun, Complete
  <2>4. CopiedData
    BY <1>6, <1>7 DEF CopiedData, Begun
  <2> QED BY <2>2, <2>3, <2>4
<1> QED BY <1>5, <1>6, <1>l, <1>8, <1>9 DEF MInv

\* The phase a step leads to claims no more than the one it comes from.
NoFurther ==
  /\ pc = "panicked" => pc' = "panicked"
  /\ pc' = "kvs" => pc = "kvs"
  /\ pc' \in Complete => pc \in Complete
  /\ pc' \in Begun => pc \in Begun

LEMMA KvsFrame ==
  ASSUME CopiedKvs, UNCHANGED <<input, at, kvs, vals>>, NoFurther
  PROVE  CopiedKvs'
BY DEF CopiedKvs, NoFurther, KeptUpTo, KeptSet

LEMMA TensorsFrame ==
  ASSUME CopiedTensors, UNCHANGED <<input, tensors, codes>>, NoFurther
  PROVE  CopiedTensors'
BY DEF CopiedTensors, NoFurther, Bytes, Code

LEMMA DataFrame ==
  ASSUME CopiedData, UNCHANGED <<input, inplace, next_tensor, written>>, NoFurther
  PROVE  CopiedData'
BY DEF CopiedData, NoFurther, Readable, Bytes, Code

LEMMA TypedFrame ==
  ASSUME Typed, UNCHANGED <<input, round, again, inplace>>, at' \in 0..Len(input.kvs),
         pc' \in {"open", "create", "kvs", "begin", "header", "stream", "sync"} \cup Ends
  PROVE  Typed'
<1>1. Fit(input, round)'
  BY DEF Typed
<1> QED BY <1>1 DEF Typed

\* A call that succeeds or fails an assertion.
LEMMA PutKvMeans ==
  ASSUME NEW k, NEW v, PutKv(k, v), wstate = "open", ~header_written
  PROVE  /\ at' = at + 1 /\ vals' = Append(vals, v)
         /\ UNCHANGED <<round, again, input, inplace, codes, written, disk, output, cause>>
         /\ UNCHANGED <<tensors, header_written, next_tensor>>
         /\ \/ /\ pc' = "panicked" /\ wstate' = "panicked" /\ kvs' = kvs
               /\ \E i \in DOMAIN kvs : kvs[i] = k
            \/ /\ pc' = "kvs" /\ wstate' = "open" /\ kvs' = Append(kvs, k)
               /\ \A i \in DOMAIN kvs : kvs[i] # k
BY DEF PutKv, AddKv, Panic, AfterWriter, decl, head, data, result

-----------------------------------------------------------------------------
(* The steps.  TInv' comes with the step of the writer, see WriterMoves.   *)

\* run returns an error or the process dies: nothing else changes.
LEMMA EndStep ==
  ASSUME MInv, TInv', pc \notin Ends,
         \/ Fail("io") \/ Fail("early EOF")
         \/ Fail("unsupported type") /\ Spec0!Unreadable(input)
         \/ Fail("ftype is not an integer") /\ Spec0!Refused(input)
         \/ Crash
  PROVE  MInv'
<1>1. /\ pc' \in {"err", "crashed"}
      /\ UNCHANGED <<round, again, input, inplace, at, vals, codes, written, disk, output, wvars>>
      /\ \/ cause' = cause \/ cause' \in {"io", "early EOF"}
         \/ cause' = "unsupported type" /\ Spec0!Unreadable(input)
         \/ cause' = "ftype is not an integer" /\ Spec0!Refused(input)
  BY DEF Fail, Crash, run, result
<1>2. UNCHANGED <<kvs, tensors, next_tensor>>
  BY <1>1 DEF wvars, decl, data
<1>3. NoFurther
  BY <1>1 DEF NoFurther, Begun, Complete, MInv, Ends
<1>4. Typed'
  <2>1. at' \in 0..Len(input.kvs) /\ pc' \in Ends
    BY <1>1 DEF MInv, Typed, Ends
  <2> QED BY <1>1, <2>1, TypedFrame DEF MInv
<1>5. Phase'
  <2>1. output' = NoFile
    BY <1>1 DEF MInv, Phase, Ends
  <2> QED BY <1>1, <2>1 DEF Phase, Begun, Complete
<1>6. Causes'
  BY <1>1 DEF MInv, Causes
<1>7. CopiedKvs' /\ CopiedTensors' /\ CopiedData'
  BY <1>1, <1>2, <1>3, KvsFrame, TensorsFrame, DataFrame DEF MInv
<1>8. Done' /\ Lists'
  BY <1>1 DEF Done, Lists, MInv
<1> QED BY <1>4, <1>5, <1>6, <1>7, <1>8 DEF MInv

\* Opening the input finds it readable, creating the output spoils what was there.
LEMMA OpenStep ==
  ASSUME MInv, TInv', Open
  PROVE  MInv'
<1>1. pc = "open" /\ pc \notin Ends /\ input \in AnyFile /\ Len(input.tensors) \in Nat
      /\ DOMAIN input.tensors = 1..Len(input.tensors)
  BY Room DEF Open, Ends, MInv
<1>2. CASE \E i \in DOMAIN input.tensors : Code(i) \notin KnownTypes
  <2>1. Fail("unsupported type")
    BY <1>2 DEF Open
  <2>2. Spec0!Unreadable(input)
    BY <1>1, <1>2, RefusalMeans DEF Code
  <2> QED BY <1>1, <2>1, <2>2, EndStep
<1>3. CASE \A i \in DOMAIN input.tensors : Code(i) \in KnownTypes
  <2>1. pc' = "create" /\ UNCHANGED <<round, again, input, inplace, run, result, wvars>>
    BY <1>3 DEF Open
  <2>2. UNCHANGED <<at, vals, codes, written, cause, disk, output, kvs, tensors, next_tensor>>
    BY <2>1 DEF run, result, wvars, decl, data
  <2>3. ~Spec0!Unreadable(input)
    BY <1>1, <1>3, RefusalMeans DEF Code
  <2>4. NoFurther
    BY <1>1, <2>1 DEF NoFurther, Begun, Complete
  <2>5. Typed'
    <3>1. at' \in 0..Len(input.kvs)
      BY <2>2 DEF MInv, Typed
    <3> QED BY <2>1, <3>1, TypedFrame DEF MInv
  <2>6. Phase'
    <3>1. /\ WInit /\ at = 0 /\ disk = "old" /\ Len(codes) = 0 /\ Len(vals) = 0
          /\ Len(written) = 0 /\ output = NoFile
      BY <1>1 DEF MInv, Phase
    <3>2. WInit'
      BY <2>1, <3>1 DEF WInit, wvars, decl, head, data
    <3> QED BY <2>1, <2>2, <2>3, <3>1, <3>2 DEF Phase, Begun, Complete
  <2>7. Causes'
    BY <2>1, <2>2 DEF MInv, Causes
  <2>8. CopiedKvs' /\ CopiedTensors' /\ CopiedData'
    BY <2>1, <2>2, <2>4, KvsFrame, TensorsFrame, DataFrame DEF MInv
  <2>9. Done' /\ Lists'
    BY <2>1, <2>2 DEF Done, Lists, MInv
  <2> QED BY <2>5, <2>6, <2>7, <2>8, <2>9 DEF MInv
<1> QED BY <1>2, <1>3 DEF Open

LEMMA CreateStep ==
  ASSUME MInv, TInv', Create
  PROVE  MInv'
<1>1. /\ pc = "create" /\ pc' = "kvs" /\ disk' = "partial" /\ wstate' = "open"
      /\ UNCHANGED <<round, again, input, inplace, run, output, decl, head, data>>
  BY DEF Create, New
<1>2. UNCHANGED <<at, vals, codes, written, cause, kvs, tensors, header_written, next_tensor>>
  BY <1>1 DEF run, decl, head, data
<1>3. /\ kvs = <<>> /\ tensors = <<>> /\ ~header_written /\ next_tensor = 0
      /\ at = 0 /\ Len(vals) = 0 /\ Len(codes) = 0 /\ Len(written) = 0 /\ output = NoFile
      /\ ~Spec0!Unreadable(input)
  BY <1>1 DEF MInv, Phase, WInit
<1>4. input \in AnyFile /\ 0 \in 0..Len(input.kvs) /\ Len(kvs) = 0 /\ Len(tensors) = 0
      /\ 0 <= Len(input.tensors) /\ input.kvs \in Seq(Kv)
  BY <1>3, Room DEF MInv
<1>5. Typed'
  BY <1>1, <1>2, <1>3, <1>4, TypedFrame DEF MInv
<1>6. Phase'
  BY <1>1, <1>2, <1>3 DEF Phase, Begun, Complete
<1>7. Causes'
  BY <1>1, <1>2 DEF MInv, Causes
<1>8. CopiedKvs'
  <2>1. Len(KeptUpTo(input, 0)) = 0
    BY <1>4, KeptType
  <2>2. Len(KeptUpTo(input, at)') = 0
    BY <1>1, <1>2, <1>3, <2>1 DEF KeptUpTo, KeptSet
  <2> QED BY <1>1, <1>2, <1>3, <1>4, <2>2 DEF CopiedKvs, Begun, Complete
<1>9. CopiedTensors' /\ CopiedData'
  BY <1>1, <1>2, <1>3, <1>4 DEF CopiedTensors, CopiedData, Begun, Complete
<1>10. Done' /\ Lists'
  BY <1>1, <1>2 DEF Done, Lists, MInv
<1> QED BY <1>5, <1>6, <1>7, <1>8, <1>9, <1>10 DEF MInv
\* The copy loop: MigrateSpec keeps, drops, remaps or refuses the same KVs, and
\* a key that is there already is one of those that make the file ambiguous.
LEMMA CopyKvStep ==
  ASSUME MInv, TInv', CopyKv
  PROVE  MInv'
<1> PICK kv : kv = input.kvs[at + 1]
  OBVIOUS
<1>1. /\ pc = "kvs" /\ at < Len(input.kvs) /\ wstate = "open" /\ ~header_written
      /\ Typed /\ CopiedKvs /\ pc \notin Ends /\ next_tensor = 0 /\ disk = "partial"
      /\ output = NoFile /\ ~Spec0!Unreadable(input)
  BY DEF MInv, CopyKv, Phase, Ends, Begun
<1>2. /\ input \in AnyFile /\ Len(input.kvs) \in Nat /\ at \in Nat /\ at + 1 \in 1..Len(input.kvs)
      /\ kvs \in Seq(Keys) /\ Len(kvs) \in Nat /\ kv \in Kv /\ DOMAIN kvs = 1..Len(kvs)
  BY <1>1, Room, Copying, LenProperties DEF MInv, TInv, TypeOK
<1>3. KeptUpTo(input, at) \in Seq(Kv)
  <2>1. at \in 0..Len(input.kvs)
    BY <1>2
  <2> QED BY <1>2, <2>1, KeptType
<1>4. CASE /\ Fail("ftype is not an integer")
           /\ kv.key = FTYPE /\ kv.val[1] \notin {"u32", "i32"}
  <2>1. Spec0!Refused(input)
    BY <1>2, <1>4, RefusalMeans
  <2> QED BY <1>1, <1>4, <2>1, EndStep
<1>5. CASE SkipKv /\ ~Spec0!Kept(kv) /\ kv.key # FTYPE
  <2>1. /\ at' = at + 1
        /\ UNCHANGED <<pc, round, again, input, inplace, vals, codes, written, disk, output,
                       cause, wvars>>
    BY <1>5 DEF SkipKv, result
  <2>2. UNCHANGED <<kvs, tensors, header_written, next_tensor, wstate>>
    BY <2>1 DEF wvars, decl, head, data
  <2>3. NoFurther
    BY <2>1 DEF NoFurther
  <2>4. Typed'
    BY <1>1, <1>2, <2>1, TypedFrame DEF Typed
  <2>5. Phase' /\ Causes' /\ Done' /\ Lists'
    BY <1>1, <2>1, <2>2 DEF MInv, Phase, Causes, Done, Lists, Begun, Complete
  <2>6. KeptUpTo(input, at)' = KeptUpTo(input, at)
    <3>1. KeptUpTo(input, at + 1) = KeptUpTo(input, at)
      BY <1>1, <1>5, Copying
    <3> QED BY <2>1, <3>1 DEF KeptUpTo, KeptSet
  <2>7. CopiedKvs'
    <3>1. \A i \in 1..at' : input'.kvs[i].key = FTYPE => input'.kvs[i].val[1] \in {"u32", "i32"}
      BY <1>1, <1>2, <1>5, <2>1 DEF CopiedKvs, Begun
    <3> QED BY <1>1, <2>1, <2>2, <2>6, <3>1 DEF CopiedKvs, Complete
  <2>8. CopiedTensors' /\ CopiedData'
    BY <2>1, <2>2, <2>3, TensorsFrame, DataFrame DEF MInv
  <2> QED BY <2>4, <2>5, <2>7, <2>8 DEF MInv
<1>6. CASE /\ PutKv(kv.key, Spec0!NewVal(kv)) /\ Spec0!Kept(kv)
           /\ kv.key = FTYPE => kv.val[1] \in {"u32", "i32"}
  <2> PICK v, k : v = Spec0!NewVal(kv) /\ k = kv.key
    OBVIOUS
  <2>1. /\ at' = at + 1 /\ vals' = Append(vals, v)
        /\ UNCHANGED <<round, again, input, inplace, codes, written, disk, output, cause>>
        /\ UNCHANGED <<tensors, header_written, next_tensor>>
        /\ \/ /\ pc' = "panicked" /\ wstate' = "panicked" /\ kvs' = kvs
              /\ \E i \in DOMAIN kvs : kvs[i] = k
           \/ /\ pc' = "kvs" /\ wstate' = "open" /\ kvs' = Append(kvs, k)
              /\ \A i \in DOMAIN kvs : kvs[i] # k
    BY <1>1, <1>6, PutKvMeans
  <2>2. v \in Val /\ k \in Keys /\ vals \in Seq(Val) /\ Len(vals) = Len(kvs)
    <3>1. v \in Val
      BY <1>2, <1>6, KvMeans
    <3> QED BY <1>1, <1>2, <3>1 DEF Kv, MInv, Lists, CopiedKvs
  <2>3. /\ Append(vals, v) \in Seq(Val) /\ Len(Append(vals, v)) = Len(kvs) + 1
        /\ Append(vals, v)[Len(kvs) + 1] = v
        /\ \A i \in 1..Len(kvs) : Append(vals, v)[i] = vals[i]
    BY <2>2, Appended
  <2>4. NoFurther
    BY <1>1, <2>1 DEF NoFurther, Begun, Complete
  <2>5. Typed'
    BY <1>1, <1>2, <2>1, TypedFrame DEF Typed, Ends
  <2>6. Causes' /\ Done' /\ Lists' /\ CopiedTensors' /\ CopiedData'
    BY <2>1, <2>3, <2>4, TensorsFrame, DataFrame DEF MInv, Causes, Done, Lists
  <2>7. CASE /\ pc' = "panicked" /\ kvs' = kvs
             /\ \E i \in DOMAIN kvs : kvs[i] = k
    <3>1. Spec0!Ambiguous(input)
      <4> PICK m : m = Spec0!Migrated(input)
        OBVIOUS
      <4>1. PICK i \in 1..Len(kvs) : kvs[i] = k
        BY <1>2, <2>7
      <4>2. Len(kvs) + 1 \in 1..KeptLen(input) /\ m.kvs[Len(kvs) + 1].key = kv.key
            /\ m.kvs[i].key = kvs[i]
        BY <1>1, <1>6, Copying
      <4>3. KeptLen(input) \in Nat /\ Extra(input) \in {0, 1}
        <5>1. KeptLen(input) \in 0..Len(input.kvs)
          BY <1>2, MigratedMeans
        <5> QED BY <1>2, <5>1 DEF Extra
      <4>4. /\ i \in 1..(KeptLen(input) + Extra(input)) /\ i # Len(kvs) + 1
            /\ Len(kvs) + 1 \in 1..(KeptLen(input) + Extra(input))
        BY <1>2, <4>2, <4>3
      <4>5. m.kvs[i].key = m.kvs[Len(kvs) + 1].key
        BY <4>1, <4>2
      <4> QED BY <1>2, <4>4, <4>5, AmbiguousMeans
    <3>2. Phase'
      BY <1>1, <2>1, <2>7, <3>1 DEF Phase, Begun, Complete
    <3>3. CopiedKvs'
      BY <1>1, <2>7 DEF CopiedKvs, Begun, Complete
    <3> QED BY <2>5, <2>6, <3>2, <3>3 DEF MInv
  <2>8. CASE /\ pc' = "kvs" /\ wstate' = "open" /\ kvs' = Append(kvs, k)
             /\ \A i \in DOMAIN kvs : kvs[i] # k
    <3>1. Phase'
      BY <1>1, <2>1, <2>8 DEF Phase, Begun, Complete
    <3>2. /\ Len(kvs') = Len(kvs) + 1 /\ kvs'[Len(kvs) + 1] = k
          /\ \A i \in 1..Len(kvs) : kvs'[i] = kvs[i]
      BY <1>2, <2>2, <2>8, Appended
    <3> PICK s, t : s = KeptUpTo(input, at) /\ t = Append(s, kv)
      OBVIOUS
    <3>3. /\ Len(t) = Len(kvs) + 1 /\ t[Len(kvs) + 1] = kv
          /\ \A i \in 1..Len(kvs) : t[i] = s[i]
      BY <1>1, <1>2, <1>3, Appended DEF CopiedKvs
    <3>4. KeptUpTo(input, at)' = t
      <4>1. KeptUpTo(input, at + 1) = t
        BY <1>1, <1>6, Copying
      <4> QED BY <2>1, <4>1 DEF KeptUpTo, KeptSet
    <3>5. \A i \in 1..Len(t) : kvs'[i] = t[i].key /\ vals'[i] = Spec0!NewVal(t[i])
      <4> TAKE i \in 1..Len(t)
      <4>1. CASE i = Len(kvs) + 1
        BY <2>1, <2>3, <3>2, <3>3, <4>1
      <4>2. CASE i \in 1..Len(kvs)
        <5>1. kvs[i] = s[i].key /\ vals[i] = Spec0!NewVal(s[i])
          BY <1>1, <4>2 DEF CopiedKvs
        <5> QED BY <2>1, <2>3, <3>2, <3>3, <4>2, <5>1
      <4> QED BY <1>2, <3>3, <4>1, <4>2
    <3>6. \A i, j \in 1..Len(kvs') : i # j => kvs'[i] # kvs'[j]
      <4>1. \A i \in 1..Len(kvs') : i = Len(kvs) + 1 \/ i \in 1..Len(kvs)
        BY <1>2, <3>2
      <4>2. \A i, j \in 1..Len(kvs) : i # j => kvs[i] # kvs[j]
        BY <1>1 DEF CopiedKvs
      <4>3. \A i \in 1..Len(kvs) : kvs'[i] = kvs[i] /\ kvs'[i] # k
        BY <1>2, <2>8, <3>2
      <4>4. kvs'[Len(kvs) + 1] = k
        BY <3>2
      <4> SUFFICES ASSUME NEW i \in 1..Len(kvs'), NEW j \in 1..Len(kvs'), i # j
                   PROVE  kvs'[i] # kvs'[j]
        OBVIOUS
      <4>5. CASE i \in 1..Len(kvs) /\ j \in 1..Len(kvs)
        BY <4>2, <4>3, <4>5, Zenon
      <4>6. CASE i = Len(kvs) + 1 \/ j = Len(kvs) + 1
        <5>1. i = Len(kvs) + 1 => j \in 1..Len(kvs)
          BY <4>1
        <5>2. j = Len(kvs) + 1 => i \in 1..Len(kvs)
          BY <4>1
        <5> QED BY <4>3, <4>4, <4>6, <5>1, <5>2, Zenon
      <4> QED BY <4>1, <4>5, <4>6, Zenon
    <3>7. \A i \in 1..at' : input'.kvs[i].key = FTYPE => input'.kvs[i].val[1] \in {"u32", "i32"}
      <4>1. \A i \in 1..at : input.kvs[i].key = FTYPE => input.kvs[i].val[1] \in {"u32", "i32"}
        BY <1>1 DEF CopiedKvs, Begun
      <4>2. \A i \in 1..at' : i \in 1..at \/ input.kvs[i] = kv
        BY <1>2, <2>1
      <4> QED BY <1>6, <2>1, <4>1, <4>2
    <3>9. Len(vals') = Len(kvs')
      BY <2>1, <2>3, <3>2
    <3>10. CopiedKvs'
      BY <2>8, <3>2, <3>3, <3>4, <3>5, <3>6, <3>7, <3>9 DEF CopiedKvs, Complete
    <3> QED BY <2>5, <2>6, <3>1, <3>10 DEF MInv
  <2> QED BY <2>1, <2>7, <2>8
<1> QED BY <1>1, <1>4, <1>5, <1>6, CopyKvCases
\* What the writer is told of a tensor is what its instance takes.
LEMMA Sized ==
  ASSUME Typed, ~Spec0!Unreadable(input), NEW i \in 1..Len(input.tensors)
  PROVE  /\ input.tensors[i] \in InTensor /\ input.tensors[i].name \in Names
         /\ Bytes(i) \in Sizes /\ Code(i) \in Nat
<1>1. input \in AnyFile /\ input.tensors \in Seq(InTensor)
  BY Room
<1>2. input.tensors[i] \in InTensor
  BY <1>1, ElementOfSeq
<1>3. Code(i) \in Nat
  BY <1>2, MovedType DEF Code, InTensor
<1>4. Code(i) \in KnownTypes
  BY <1>1, RefusalMeans DEF Code
<1>5. Bytes(i) \in Sizes
  BY <1>4 DEF Typed, Fit, Bytes
<1> QED BY <1>2, <1>3, <1>5 DEF InTensor

\* A tensor is declared with its resolved code and its length in that type; a
\* name that is there already makes the file ambiguous.
LEMMA DeclareTensorStep ==
  ASSUME MInv, TInv', DeclareTensor
  PROVE  MInv'
<1> PICK i, n, b, c : i = Len(codes) + 1 /\ n = input.tensors[i].name /\ b = Bytes(i)
                      /\ c = Code(i)
  OBVIOUS
<1>1. /\ pc = "kvs" /\ wstate = "open" /\ ~header_written /\ next_tensor = 0
      /\ disk = "partial" /\ output = NoFile /\ ~Spec0!Unreadable(input) /\ Typed
      /\ CopiedTensors /\ Len(codes) = Len(tensors) /\ Len(codes) < Len(input.tensors)
  BY DEF MInv, DeclareTensor, Phase, Begun, CopiedTensors
<1>2. /\ tensors \in Seq(Tensor) /\ Len(tensors) \in Nat /\ DOMAIN tensors = 1..Len(tensors)
      /\ codes \in Seq(Nat) /\ i = Len(tensors) + 1
      /\ input \in AnyFile /\ Len(input.tensors) \in Nat /\ i \in 1..Len(input.tensors)
      /\ at \in 0..Len(input.kvs)
  <2>1. tensors \in Seq(Tensor) /\ codes \in Seq(Nat)
    BY DEF MInv, TInv, TypeOK, Lists
  <2>2. Len(tensors) \in Nat /\ DOMAIN tensors = 1..Len(tensors)
    BY <2>1, LenProperties
  <2> QED BY <1>1, <2>1, <2>2, Room DEF Typed
<1>3. n \in Names /\ b \in Sizes /\ c \in Nat
  BY <1>1, <1>2, Sized
<1>4. /\ codes' = Append(codes, c)
      /\ UNCHANGED <<round, again, input, inplace, at, vals, written, disk, output, cause>>
      /\ UNCHANGED <<kvs, header_written, next_tensor>>
      /\ \/ /\ pc' = "panicked" /\ wstate' = "panicked" /\ tensors' = tensors
            /\ \E j \in DOMAIN tensors : tensors[j].name = n
         \/ /\ pc' = "kvs" /\ wstate' = "open"
            /\ tensors' = Append(tensors, [name |-> n, nbytes |-> b])
            /\ \A j \in DOMAIN tensors : tensors[j].name # n
  BY <1>1 DEF DeclareTensor, AddTensorInfo, Panic, AfterWriter, decl, head, data, result
<1>5. /\ codes' \in Seq(Nat) /\ Len(codes') = Len(codes) + 1 /\ codes'[i] = c
      /\ \A j \in 1..Len(tensors) : codes'[j] = codes[j]
  BY <1>1, <1>2, <1>3, <1>4, Appended
<1>6. NoFurther
  BY <1>1, <1>4 DEF NoFurther, Begun, Complete
<1>7. Typed'
  BY <1>1, <1>2, <1>4, TypedFrame DEF Ends
<1>8. Causes' /\ Done' /\ Lists' /\ CopiedKvs' /\ CopiedData'
  BY <1>4, <1>5, <1>6, KvsFrame, DataFrame DEF MInv, Causes, Done, Lists
<1>9. CASE /\ pc' = "panicked" /\ tensors' = tensors
           /\ \E j \in DOMAIN tensors : tensors[j].name = n
  <2>1. Spec0!Ambiguous(input)
    <3>1. PICK j \in 1..Len(tensors) : tensors[j].name = n
      BY <1>2, <1>9
    <3>2. tensors[j].name = input.tensors[j].name
      BY <1>1 DEF CopiedTensors, Begun
    <3>3. input.tensors[j].name = input.tensors[i].name
      BY <3>1, <3>2
    <3>4. j # i /\ j \in 1..Len(input.tensors)
      BY <1>1, <1>2
    <3> QED BY <1>2, <3>3, <3>4, AmbiguousMeans
  <2>2. Phase'
    BY <1>1, <1>4, <1>9, <2>1 DEF Phase, Begun, Complete
  <2>3. CopiedTensors'
    BY <1>1, <1>9 DEF CopiedTensors, Begun, Complete
  <2> QED BY <1>7, <1>8, <2>2, <2>3 DEF MInv
<1>10. CASE /\ pc' = "kvs" /\ wstate' = "open"
            /\ tensors' = Append(tensors, [name |-> n, nbytes |-> b])
            /\ \A j \in DOMAIN tensors : tensors[j].name # n
  <2>1. Phase'
    BY <1>1, <1>4, <1>10 DEF Phase, Begun, Complete
  <2>t. [name |-> n, nbytes |-> b] \in Tensor
    BY <1>3 DEF Tensor
  <2> PICK t \in Tensor : t = [name |-> n, nbytes |-> b]
    BY <2>t
  <2>f. t.name = n /\ t.nbytes = b
    OBVIOUS
  <2>2. /\ Len(tensors') = Len(tensors) + 1 /\ tensors'[i] = t
        /\ \A j \in 1..Len(tensors) : tensors'[j] = tensors[j]
    BY <1>2, <1>10, Appended
  <2>3. \A j \in 1..Len(tensors') : j = i \/ j \in 1..Len(tensors)
    BY <1>2, <2>2
  <2>4. \A j \in 1..Len(tensors) :
          /\ tensors[j].name = input.tensors[j].name /\ tensors[j].nbytes = Bytes(j)
          /\ codes[j] = Code(j)
    BY <1>1 DEF CopiedTensors, Begun
  <2>5. \A j \in 1..Len(tensors') :
          /\ tensors'[j].name = input.tensors[j].name /\ tensors'[j].nbytes = Bytes(j)
          /\ codes'[j] = Code(j)
    <3> TAKE j \in 1..Len(tensors')
    <3>1. CASE j = i
      BY <1>5, <2>2, <2>f, <3>1
    <3>2. CASE j \in 1..Len(tensors)
      BY <1>5, <2>2, <2>4, <3>2
    <3> QED BY <2>3, <3>1, <3>2
  <2>6. \A j \in 1..Len(tensors') :
          /\ tensors'[j].name = input'.tensors[j].name /\ tensors'[j].nbytes = Bytes(j)'
          /\ codes'[j] = Code(j)'
    BY <1>4, <2>5 DEF Bytes, Code
  <2>7. \A j, k \in 1..Len(tensors') : j # k => tensors'[j].name # tensors'[k].name
    <3>1. \A j, k \in 1..Len(tensors) : j # k => tensors[j].name # tensors[k].name
      BY <1>1 DEF CopiedTensors
    <3> QED BY <1>2, <1>10, <2>2, <2>3, <2>f, <3>1, SMTT(30)
  <2>8. Len(codes') = Len(tensors') /\ Len(codes') <= Len(input.tensors)
    BY <1>1, <1>2, <1>5, <2>2
  <2>9. CopiedTensors'
    BY <1>4, <1>10, <2>6, <2>7, <2>8 DEF CopiedTensors, Complete
  <2> QED BY <1>7, <1>8, <2>1, <2>9 DEF MInv
<1> QED BY <1>4, <1>9, <1>10

\* The loop is done: what is declared is the migrated KV section, but for the
\* report.
LEMMA AllCopied ==
  ASSUME Typed, CopiedKvs, pc = "kvs", at = Len(input.kvs)
  PROVE  LET m == Spec0!Migrated(input)
         IN  /\ Len(kvs) = KeptLen(input) /\ Len(kvs) \in Nat /\ Extra(input) \in {0, 1}
             /\ Len(m.kvs) = Len(kvs) + Extra(input)
             /\ \A k \in 1..Len(kvs) : m.kvs[k].key = kvs[k] /\ m.kvs[k].val = vals[k]
             /\ Extra(input) = 1 =>
                  /\ m.kvs[Len(kvs) + 1].key = MIGRATED
                  /\ m.kvs[Len(kvs) + 1].val = ReportOf(Spec0!Legacy(input))
<1> PICK m, s, e : m = Spec0!Migrated(input) /\ s = KeptUpTo(input, Len(input.kvs))
                   /\ e = ReportOf(Spec0!Legacy(input))
  OBVIOUS
<1>1. /\ KeptLen(input) \in 0..Len(input.kvs) /\ Len(m.kvs) = KeptLen(input) + Extra(input)
      /\ \A k \in 1..KeptLen(input) :
           m.kvs[k] = [key |-> s[k].key, val |-> Spec0!NewVal(s[k])]
      /\ Extra(input) = 1 => m.kvs[KeptLen(input) + 1] = [key |-> MIGRATED, val |-> e]
      /\ Len(input.kvs) \in Nat
  BY Room, MigratedMeans
<1>2. /\ Len(kvs) = KeptLen(input)
      /\ \A k \in 1..Len(kvs) : kvs[k] = s[k].key /\ vals[k] = Spec0!NewVal(s[k])
  <2>1. KeptUpTo(input, at) = s
    OBVIOUS
  <2>2. /\ Len(kvs) = Len(s)
        /\ \A k \in 1..Len(s) : kvs[k] = s[k].key /\ vals[k] = Spec0!NewVal(s[k])
    BY <2>1, Zenon DEF CopiedKvs
  <2> QED BY <2>2 DEF KeptLen
<1>4. ASSUME NEW k \in 1..Len(kvs)
      PROVE  m.kvs[k].key = kvs[k] /\ m.kvs[k].val = vals[k]
  <2>1. m.kvs[k] = [key |-> s[k].key, val |-> Spec0!NewVal(s[k])]
    <3>1. k \in 1..KeptLen(input)
      BY <1>2
    <3> QED BY <1>1, <3>1, Zenon
  <2> PICK a, b : a = s[k].key /\ b = Spec0!NewVal(s[k])
    OBVIOUS
  <2>2. m.kvs[k] = [key |-> a, val |-> b]
    BY <2>1, Zenon
  <2>3. m.kvs[k].key = a /\ m.kvs[k].val = b
    BY <2>2
  <2> QED BY <1>2, <2>3, Zenon
<1>5. Extra(input) = 1 => m.kvs[Len(kvs) + 1].key = MIGRATED /\ m.kvs[Len(kvs) + 1].val = e
  BY <1>1, <1>2
<1>6. Extra(input) \in {0, 1} /\ Len(kvs) \in Nat /\ Len(m.kvs) = Len(kvs) + Extra(input)
  BY <1>1, <1>2 DEF Extra
<1>7. \A k \in 1..Len(kvs) : m.kvs[k].key = kvs[k] /\ m.kvs[k].val = vals[k]
  BY <1>4, Zenon
<1>8. Len(kvs) = KeptLen(input)
  BY <1>2
<1> QED BY <1>5, <1>6, <1>7, <1>8, Zenon
\* The report of the moved codes completes the KV section; there is such a key
\* already only if the file is ambiguous.
LEMMA DeclareReportStep ==
  ASSUME MInv, TInv', DeclareReport
  PROVE  MInv'
<1> PICK m, l, e : m = Spec0!Migrated(input) /\ l = Spec0!Legacy(input)
                   /\ e = ReportOf(Spec0!Legacy(input))
  OBVIOUS
<1>1. /\ pc = "kvs" /\ wstate = "open" /\ ~header_written /\ next_tensor = 0
      /\ disk = "partial" /\ output = NoFile /\ ~Spec0!Unreadable(input) /\ Typed
      /\ CopiedKvs /\ CopiedTensors /\ Len(codes) = Len(tensors) /\ Len(vals) = Len(kvs)
      /\ at = Len(input.kvs) /\ Len(codes) = Len(input.tensors)
  BY DEF MInv, DeclareReport, Phase, Begun, CopiedTensors, CopiedKvs
<1>2. /\ input \in AnyFile /\ kvs \in Seq(Keys) /\ vals \in Seq(Val) /\ at \in 0..Len(input.kvs)
      /\ DOMAIN kvs = 1..Len(kvs) /\ Len(kvs) \in Nat
  <2>1. kvs \in Seq(Keys) /\ vals \in Seq(Val)
    BY DEF MInv, TInv, TypeOK, Lists
  <2> QED BY <1>1, <2>1, Room, LenProperties DEF Typed
<1>3. /\ Len(kvs) = KeptLen(input) /\ Extra(input) \in {0, 1}
      /\ Len(m.kvs) = Len(kvs) + Extra(input)
      /\ \A k \in 1..Len(kvs) : m.kvs[k].key = kvs[k] /\ m.kvs[k].val = vals[k]
      /\ Extra(input) = 1 => m.kvs[Len(kvs) + 1].key = MIGRATED /\ m.kvs[Len(kvs) + 1].val = e
  BY <1>1, AllCopied
<1>4. Moved = l /\ MovedNames = e
  <2>1. Moved = l
    BY <1>2, LegacyMeans DEF Moved
  <2> QED BY <2>1 DEF MovedNames, ReportOf
<1>5. e \in Val /\ MIGRATED \in Keys
  BY <1>2, LegacyMeans, ReportType, MigrateAssumption
<1>6. /\ \A i \in 1..Len(tensors) :
           /\ tensors[i].name = input.tensors[i].name /\ tensors[i].nbytes = Bytes(i)
           /\ codes[i] = Code(i)
      /\ \A i, j \in 1..Len(tensors) : i # j => tensors[i].name # tensors[j].name
      /\ \A i, j \in 1..Len(kvs) : i # j => kvs[i] # kvs[j]
      /\ \A i \in 1..at : input.kvs[i].key = FTYPE => input.kvs[i].val[1] \in {"u32", "i32"}
      /\ \A i \in 1..Len(written) : written[i] = input.tensors[i].data /\ Readable(i)
      /\ Len(written) = next_tensor /\ Len(codes) <= Len(input.tensors)
  BY <1>1 DEF MInv, CopiedTensors, CopiedKvs, CopiedData, Begun
<1>7. CASE l = <<>> /\ pc' = "begin"
           /\ UNCHANGED <<round, again, input, inplace, run, result, wvars>>
  <2>1. UNCHANGED <<round, again, input, inplace, at, vals, codes, written, disk, output, cause,
                    wstate, kvs, tensors, header_written, next_tensor>>
    BY <1>7 DEF run, result, wvars, decl, head, data
  <2>2. Typed'
    BY <1>1, <1>2, <1>7, <2>1, TypedFrame
  <2>3. Phase' /\ Causes' /\ Done' /\ Lists'
    BY <1>1, <1>7, <2>1 DEF MInv, Phase, Causes, Done, Lists, Begun, Complete
  <2>4. CopiedTensors' /\ CopiedData'
    <3>1. \A i : Bytes(i)' = Bytes(i) /\ Code(i)' = Code(i) /\ Readable(i)' = Readable(i)
      BY <2>1 DEF Bytes, Code, Readable
    <3> QED BY <1>1, <1>6, <1>7, <2>1, <3>1 DEF CopiedTensors, CopiedData
  <2>5. CopiedKvs'
    <3>1. Extra(input) = 0
      BY <1>7 DEF Extra
    <3>2. Len(m.kvs) = Len(kvs)
      BY <1>2, <1>3, <3>1
    <3>3. Spec0!Migrated(input)' = m
      BY <2>1
    <3> QED BY <1>1, <1>3, <1>6, <1>7, <2>1, <3>2, <3>3 DEF CopiedKvs
  <2> QED BY <2>2, <2>3, <2>4, <2>5 DEF MInv
<1>8. CASE l # <<>> /\ AddKv(MIGRATED) /\ vals' = Append(vals, e) /\ AfterWriter("begin")
           /\ UNCHANGED <<at, codes, written, result>>
  <2>1. /\ UNCHANGED <<round, again, input, inplace, at, codes, written, disk, output, cause>>
        /\ UNCHANGED <<tensors, header_written, next_tensor>>
        /\ \/ /\ pc' = "panicked" /\ wstate' = "panicked" /\ kvs' = kvs
              /\ \E i \in DOMAIN kvs : kvs[i] = MIGRATED
           \/ /\ pc' = "begin" /\ wstate' = "open" /\ kvs' = Append(kvs, MIGRATED)
              /\ \A i \in DOMAIN kvs : kvs[i] # MIGRATED
    BY <1>1, <1>8 DEF AddKv, Panic, AfterWriter, decl, head, data, result
  <2>2. /\ vals' \in Seq(Val) /\ Len(vals') = Len(kvs) + 1 /\ vals'[Len(kvs) + 1] = e
        /\ \A i \in 1..Len(kvs) : vals'[i] = vals[i]
    BY <1>1, <1>2, <1>5, <1>8, Appended
  <2>3. Typed'
    BY <1>1, <1>2, <2>1, TypedFrame DEF Ends
  <2>4. Causes' /\ Done' /\ Lists'
    BY <2>1, <2>2 DEF MInv, Causes, Done, Lists
  <2>5. CopiedTensors' /\ CopiedData'
    <3>1. \A i : Bytes(i)' = Bytes(i) /\ Code(i)' = Code(i) /\ Readable(i)' = Readable(i)
      BY <2>1 DEF Bytes, Code, Readable
    <3> QED BY <1>1, <1>6, <2>1, <3>1 DEF CopiedTensors, CopiedData
  <2>6. Extra(input) = 1
    BY <1>8 DEF Extra
  <2>7. CASE /\ pc' = "panicked" /\ kvs' = kvs
             /\ \E i \in DOMAIN kvs : kvs[i] = MIGRATED
    <3>1. Spec0!Ambiguous(input)
      <4>1. PICK i \in 1..Len(kvs) : kvs[i] = MIGRATED
        BY <1>2, <2>7
      <4>2. m.kvs[i].key = m.kvs[Len(kvs) + 1].key
        BY <1>3, <2>6, <4>1
      <4>3. /\ i # Len(kvs) + 1 /\ i \in 1..(KeptLen(input) + Extra(input))
            /\ Len(kvs) + 1 \in 1..(KeptLen(input) + Extra(input))
        BY <1>2, <1>3, <2>6
      <4> QED BY <1>2, <4>2, <4>3, AmbiguousMeans
    <3>2. Phase'
      BY <1>1, <2>1, <2>7, <3>1 DEF Phase, Begun, Complete
    <3>3. CopiedKvs'
      BY <1>6, <2>7 DEF CopiedKvs, Begun, Complete
    <3> QED BY <2>3, <2>4, <2>5, <3>2, <3>3 DEF MInv
  <2>8. CASE /\ pc' = "begin" /\ wstate' = "open" /\ kvs' = Append(kvs, MIGRATED)
             /\ \A i \in DOMAIN kvs : kvs[i] # MIGRATED
    <3>1. Phase'
      BY <1>1, <2>1, <2>8 DEF Phase, Begun, Complete
    <3>2. /\ Len(kvs') = Len(kvs) + 1 /\ kvs'[Len(kvs) + 1] = MIGRATED
          /\ \A i \in 1..Len(kvs) : kvs'[i] = kvs[i]
      BY <1>2, <1>5, <2>8, Appended
    <3>3. \A k \in 1..Len(kvs') : k = Len(kvs) + 1 \/ k \in 1..Len(kvs)
      BY <1>2, <3>2
    <3>4. \A k \in 1..Len(kvs') : kvs'[k] = m.kvs[k].key /\ vals'[k] = m.kvs[k].val
      <4> TAKE k \in 1..Len(kvs')
      <4>1. CASE k = Len(kvs) + 1
        BY <1>3, <2>2, <2>6, <3>2, <4>1
      <4>2. CASE k \in 1..Len(kvs)
        BY <1>3, <2>2, <3>2, <4>2
      <4> QED BY <3>3, <4>1, <4>2
    <3>5. \A i, j \in 1..Len(kvs') : i # j => kvs'[i] # kvs'[j]
      <4>1. \A i, j \in 1..Len(kvs) : i # j => kvs[i] # kvs[j]
        BY <1>6
      <4> QED BY <1>2, <2>8, <3>2, <3>3, <4>1
    <3>6. Len(vals') = Len(kvs') /\ Len(m.kvs) = Len(kvs')
      BY <1>3, <2>2, <2>6, <3>2
    <3>7. Spec0!Migrated(input)' = m
      BY <2>1
    <3>8. CopiedKvs'
      BY <1>6, <2>1, <2>8, <3>4, <3>5, <3>6, <3>7 DEF CopiedKvs
    <3> QED BY <2>3, <2>4, <2>5, <3>1, <3>8 DEF MInv
  <2> QED BY <2>1, <2>7, <2>8
<1> QED BY <1>4, <1>7, <1>8 DEF DeclareReport

\* The header's steps change nothing run keeps track of.
LEMMA HeaderKeeps ==
  ASSUME MInv, TInv', Header
  PROVE  MInv'
<1>1. /\ pc \in {"begin", "header"} /\ pc' \in {"header", "stream", "err"}
      /\ UNCHANGED <<round, again, input, inplace, at, vals, codes, written, disk, output,
                     kvs, tensors, next_tensor>>
      /\ cause' = cause \/ cause' = "io"
      /\ pc' = "header" => wstate' = "encoding" /\ (pc = "begin" \/ wstate = "encoding")
      /\ pc' = "stream" => wstate' = "open" /\ header_written'
  <2>1. CASE pc = "begin" /\ BeginHeader /\ AfterWriter("header")
    BY <2>1 DEF MInv, Phase, BeginHeader, AfterWriter, Header, decl, data, head, result
  <2>2. CASE pc = "header" /\ EncodeInfo /\ AfterWriter("header")
    BY <2>2 DEF MInv, Phase, EncodeInfo, AfterWriter, Header, decl, data, result
  <2>3. CASE pc = "header" /\ (\E h \in HeaderLens : EmitHeader(h)) /\ AfterWriter("stream")
    BY <2>3 DEF MInv, Phase, EmitHeader, AfterWriter, Header, decl, data, result
  <2>4. CASE pc = "header" /\ (\E h \in HeaderLens, k \in TornAt : EmitHeaderErr(h, k))
             /\ AfterWriter("stream")
    BY <2>4 DEF MInv, Phase, EmitHeaderErr, AfterWriter, Header, decl, data, result
  <2> QED BY <2>1, <2>2, <2>3, <2>4 DEF Header
<1>2. NoFurther
  BY <1>1 DEF NoFurther, Begun, Complete
<1>3. Typed'
  <2>1. at' \in 0..Len(input.kvs)
    BY <1>1 DEF MInv, Typed
  <2> QED BY <1>1, <2>1, TypedFrame DEF MInv, Ends
<1>4. Phase'
  BY <1>1 DEF MInv, Phase, Begun, Complete
<1>5. Causes' /\ Done' /\ Lists'
  BY <1>1 DEF MInv, Causes, Done, Lists
<1>6. CopiedKvs' /\ CopiedTensors' /\ CopiedData'
  BY <1>1, <1>2, KvsFrame, TensorsFrame, DataFrame DEF MInv
<1> QED BY <1>3, <1>4, <1>5, <1>6 DEF MInv
\* Where the data loop stands, and what it hands the writer next.
LEMMA Streaming ==
  ASSUME MInv, pc = "stream"
  PROVE  /\ wstate = "open" /\ header_written /\ Typed /\ ~Spec0!Unreadable(input)
         /\ input.tensors \in Seq(InTensor)
         /\ next_tensor \in Nat /\ next_tensor <= Len(tensors)
         /\ Len(tensors) = Len(input.tensors) /\ Len(written) = next_tensor
         /\ \A i \in 1..Len(tensors) : tensors[i].nbytes = Bytes(i)
<1>1. /\ wstate = "open" /\ header_written /\ Typed /\ ~Spec0!Unreadable(input)
      /\ Len(tensors) = Len(input.tensors) /\ Len(written) = next_tensor
      /\ next_tensor \in 0..Len(tensors) /\ tensors \in Seq(Tensor)
      /\ \A i \in 1..Len(tensors) : tensors[i].nbytes = Bytes(i)
  BY DEF MInv, Phase, Begun, Complete, CopiedTensors, CopiedData, TInv, TypeOK
<1>2. Len(tensors) \in Nat /\ input.tensors \in Seq(InTensor)
  BY <1>1, Room, LenProperties
<1> QED BY <1>1, <1>2

\* A tensor's data goes out under the length that was declared, or the run ends.
LEMMA CopyDataStep ==
  ASSUME MInv, TInv', CopyData
  PROVE  MInv'
<1> PICK i, b, d : i = next_tensor + 1 /\ b = Bytes(i) /\ d = input.tensors[i].data
  OBVIOUS
<1>1. /\ pc = "stream" /\ pc \notin Ends /\ next_tensor < Len(input.tensors)
      /\ wstate = "open" /\ header_written /\ Typed /\ ~Spec0!Unreadable(input)
      /\ next_tensor \in Nat /\ i \in 1..Len(input.tensors)
      /\ Len(written) = next_tensor /\ Accepts(b)
  <2>1. /\ pc = "stream" /\ next_tensor < Len(input.tensors)
        /\ wstate = "open" /\ header_written /\ Typed /\ ~Spec0!Unreadable(input)
        /\ next_tensor \in Nat /\ Len(tensors) = Len(input.tensors)
        /\ Len(written) = next_tensor
        /\ \A j \in 1..Len(tensors) : tensors[j].nbytes = Bytes(j)
    BY Streaming DEF CopyData
  <2>2. Len(input.tensors) \in Nat
    BY <2>1, Room
  <2>3. i \in 1..Len(tensors)
    BY <2>1, <2>2
  <2>4. tensors[i].nbytes = b
    BY <2>1, <2>3
  <2>5. Accepts(b)
    BY <2>1, <2>4 DEF Accepts, CanStart, Declared
  <2> QED BY <2>1, <2>3, <2>5 DEF Ends
<1>2. CASE Fail("early EOF")
  BY <1>1, <1>2, EndStep
<1>3. CASE /\ Readable(i)
           /\ WriteTensorData(b) \/ \E k \in TornAt : WriteTensorDataErr(b, k)
           /\ written' = Append(written, d) /\ AfterWriter("stream")
           /\ UNCHANGED <<at, vals, codes, result>>
  <2>1. /\ UNCHANGED <<round, again, input, inplace, at, vals, codes, disk, output, kvs, tensors,
                       header_written>>
        /\ next_tensor' = i
        /\ \/ pc' = "stream" /\ wstate' = "open" /\ cause' = cause
           \/ pc' = "err" /\ cause' = "io"
    <3>1. CASE WriteTensorData(b)
      <4>1. next_tensor' = next_tensor + 1 /\ UNCHANGED <<wstate, kvs, tensors, header_written>>
        BY <1>1, <3>1, Zenon DEF WriteTensorData, decl, head
      <4> QED BY <1>1, <1>3, <4>1 DEF AfterWriter, result
    <3>2. CASE \E k \in TornAt : WriteTensorDataErr(b, k)
      BY <1>1, <1>3, <3>2 DEF WriteTensorDataErr, AfterWriter, decl, head, result
    <3> QED BY <1>3, <3>1, <3>2
  <2>2. /\ written' \in Seq(STRING) /\ Len(written') = i /\ written'[i] = d
        /\ \A j \in 1..next_tensor : written'[j] = written[j]
    <3>1. d \in STRING /\ written \in Seq(STRING)
      BY <1>1, Sized DEF InTensor, MInv, Lists
    <3> QED BY <1>1, <1>3, <3>1, Appended
  <2>3. NoFurther
    BY <1>1, <2>1 DEF NoFurther, Begun, Complete
  <2>4. Typed'
    <3>1. at' \in 0..Len(input.kvs)
      BY <2>1 DEF MInv, Typed
    <3> QED BY <2>1, <3>1, TypedFrame DEF MInv, Ends
  <2>5. Phase'
    BY <1>1, <2>1 DEF MInv, Phase, Begun, Complete
  <2>6. Causes' /\ Done' /\ Lists'
    BY <2>1, <2>2 DEF MInv, Causes, Done, Lists
  <2>7. CopiedKvs' /\ CopiedTensors'
    BY <2>1, <2>3, KvsFrame, TensorsFrame DEF MInv
  <2>8. CopiedData'
    <3>1. \A j \in 1..Len(written) : written[j] = input.tensors[j].data /\ Readable(j)
      BY <1>1 DEF MInv, CopiedData, Begun
    <3>2. \A j \in 1..Len(written') : j = i \/ j \in 1..Len(written)
      BY <1>1, <2>2
    <3>3. \A j \in 1..Len(written') : written'[j] = input.tensors[j].data /\ Readable(j)
      BY <1>1, <1>3, <2>2, <3>1, <3>2
    <3>4. \A j : Readable(j)' = Readable(j)
      BY <2>1 DEF Readable, Bytes, Code
    <3> QED BY <2>1, <2>2, <3>3, <3>4 DEF CopiedData
  <2> QED BY <2>4, <2>5, <2>6, <2>7, <2>8 DEF MInv
<1> QED BY <1>2, <1>3 DEF CopyData

\* finish finds every declared tensor started.
LEMMA FinishFileStep ==
  ASSUME MInv, TInv', FinishFile
  PROVE  MInv'
<1>1. /\ pc = "stream" /\ next_tensor = Len(input.tensors) /\ wstate = "open"
      /\ Len(tensors) = Len(input.tensors)
  BY Streaming DEF FinishFile
<1>2. /\ UNCHANGED <<round, again, input, inplace, at, vals, codes, written, disk, output, kvs,
                     tensors, header_written, next_tensor>>
      /\ \/ pc' = "sync" /\ wstate' = "finished" /\ cause' = cause
         \/ pc' = "err" /\ cause' = "io"
  BY <1>1 DEF FinishFile, Finish, AfterWriter, decl, head, data, result
<1>3. NoFurther
  BY <1>1, <1>2 DEF NoFurther, Begun, Complete
<1>4. Typed'
  <2>1. at' \in 0..Len(input.kvs)
    BY <1>2 DEF MInv, Typed
  <2> QED BY <1>2, <2>1, TypedFrame DEF MInv, Ends
<1>5. Phase'
  BY <1>1, <1>2 DEF MInv, Phase, Begun, Complete
<1>6. Causes' /\ Done' /\ Lists'
  BY <1>2 DEF MInv, Causes, Done, Lists
<1>7. CopiedKvs' /\ CopiedTensors' /\ CopiedData'
  BY <1>2, <1>3, KvsFrame, TensorsFrame, DataFrame DEF MInv
<1> QED BY <1>4, <1>5, <1>6, <1>7 DEF MInv

\* A file that is declared and written in full is the migrated one, and neither
\* refused nor ambiguous.
LEMMA WholeFile ==
  ASSUME MInv, pc = "sync"
  PROVE  /\ OutFile = Spec0!Migrated(input)
         /\ ~Spec0!Refused(input) /\ ~Spec0!Ambiguous(input)
<1> PICK m, l, e : m = Spec0!Migrated(input) /\ l = KeptLen(input) + Extra(input)
                   /\ e = ReportOf(Spec0!Legacy(input))
  OBVIOUS
<1>1. /\ Typed /\ at = Len(input.kvs) /\ input \in AnyFile /\ kvs \in Seq(Keys)
      /\ tensors \in Seq(Tensor) /\ next_tensor = Len(tensors) /\ input.tensors \in Seq(InTensor)
      /\ DOMAIN kvs = 1..Len(kvs) /\ DOMAIN tensors = 1..Len(tensors)
  <2>1. Typed /\ kvs \in Seq(Keys) /\ tensors \in Seq(Tensor)
    BY DEF MInv, TInv, TypeOK
  <2> QED BY <2>1, Room, LenProperties DEF MInv, Phase, Complete
<1>2. /\ Len(kvs) = Len(m.kvs) /\ \A k \in 1..Len(m.kvs) : kvs[k] = m.kvs[k].key
      /\ \A k \in 1..Len(m.kvs) : vals[k] = m.kvs[k].val
      /\ \A i, j \in 1..Len(kvs) : i # j => kvs[i] # kvs[j]
      /\ \A i \in 1..at : input.kvs[i].key = FTYPE => input.kvs[i].val[1] \in {"u32", "i32"}
  BY DEF MInv, CopiedKvs, Complete, Begun
<1>3. /\ Len(tensors) = Len(input.tensors) /\ Len(written) = Len(tensors)
      /\ \A i \in 1..Len(tensors) :
           /\ tensors[i].name = input.tensors[i].name
           /\ codes[i] = Code(i) /\ written[i] = input.tensors[i].data
      /\ \A i, j \in 1..Len(tensors) : i # j => tensors[i].name # tensors[j].name
  BY <1>1 DEF MInv, CopiedTensors, CopiedData, Complete, Begun
<1>4. /\ m = [kvs |-> m.kvs, tensors |-> m.tensors] /\ Len(m.kvs) = l
      /\ m.kvs = [k \in 1..l |-> m.kvs[k]]
      /\ m.tensors = [i \in 1..Len(input.tensors) |->
           [input.tensors[i] EXCEPT !.code = resolve_type_code(TypeTable, input.tensors[i].code)]]
  BY <1>1, MigratedMeans
<1>5. \A k \in 1..l : m.kvs[k] = [key |-> m.kvs[k].key, val |-> m.kvs[k].val]
  <2> TAKE k \in 1..l
  <2>1. \E a, b : m.kvs[k] = [key |-> a, val |-> b]
    BY <1>1, MigratedKv, ZenonT(60)
  <2> QED BY <2>1
<1>6. OutFile.kvs = m.kvs
  <2> DEFINE g == [k \in DOMAIN kvs |-> [key |-> kvs[k], val |-> vals[k]]]
  <2>1. DOMAIN g = 1..l /\ \A k \in 1..l : g[k] = [key |-> kvs[k], val |-> vals[k]]
    BY <1>1, <1>2, <1>4
  <2>2. \A k \in 1..l : g[k] = m.kvs[k]
    <3> HIDE DEF g
    <3> TAKE k \in 1..l
    <3>1. kvs[k] = m.kvs[k].key /\ vals[k] = m.kvs[k].val
      BY <1>2, <1>4
    <3>2. g[k] = [key |-> m.kvs[k].key, val |-> m.kvs[k].val]
      BY <2>1, <3>1, Zenon
    <3> QED BY <1>5, <3>2, Zenon
  <2>3. g = [k \in 1..l |-> g[k]]
    BY <2>1
  <2>4. OutFile.kvs = g
    BY DEF OutFile
  <2> HIDE DEF g
  <2> QED BY <1>4, <2>2, <2>3, <2>4
<1>7. OutFile.tensors = m.tensors
  <2> DEFINE g == [i \in DOMAIN tensors |->
                     [name |-> tensors[i].name, code |-> codes[i],
                      elems |-> input.tensors[i].elems, data |-> written[i]]]
  <2>1. g = [i \in 1..Len(input.tensors) |-> g[i]]
    BY <1>1, <1>3
  <2>2. ASSUME NEW i \in 1..Len(input.tensors)
        PROVE  g[i] = m.tensors[i]
    <3>1. input.tensors[i] \in InTensor
      BY <1>1, ElementOfSeq
    <3>2. g[i] = [name |-> tensors[i].name, code |-> codes[i],
                  elems |-> input.tensors[i].elems, data |-> written[i]]
      BY <1>1, <1>3
    <3>3. tensors[i].name = input.tensors[i].name
      BY <1>3
    <3>4. codes[i] = resolve_type_code(TypeTable, input.tensors[i].code)
          /\ written[i] = input.tensors[i].data
      BY <1>3 DEF Code
    <3>5. m.tensors[i] =
            [input.tensors[i] EXCEPT !.code = resolve_type_code(TypeTable, input.tensors[i].code)]
      BY <1>4
    <3> HIDE DEF g
    <3> QED BY <3>1, <3>2, <3>3, <3>4, <3>5 DEF InTensor
  <2>3. OutFile.tensors = g
    BY DEF OutFile
  <2>4. m.tensors = [i \in 1..Len(input.tensors) |-> m.tensors[i]]
    BY <1>4
  <2> HIDE DEF g
  <2> QED BY <2>1, <2>2, <2>3, <2>4
<1>8. OutFile = [kvs |-> OutFile.kvs, tensors |-> OutFile.tensors]
  BY DEF OutFile
<1>9. OutFile = m
  BY <1>4, <1>6, <1>7, <1>8
<1>10. ~Spec0!Refused(input)
  BY <1>1, <1>2, RefusalMeans
<1>11. ~Spec0!Ambiguous(input)
  <2>1. \A i, j \in 1..l : i # j => m.kvs[i].key # m.kvs[j].key
    BY <1>2, <1>4
  <2>2. \A i, j \in 1..Len(input.tensors) :
          i # j => input.tensors[i].name # input.tensors[j].name
    BY <1>3
  <2> QED BY <1>1, <2>1, <2>2, AmbiguousMeans
<1> QED BY <1>9, <1>10, <1>11

LEMMA SyncStep ==
  ASSUME MInv, TInv', Sync
  PROVE  MInv'
<1>1. /\ pc = "sync" /\ pc' = "ok" /\ disk' = "whole" /\ output' = OutFile
      /\ UNCHANGED <<round, again, input, inplace, at, vals, codes, written, cause,
                     wstate, kvs, tensors, header_written, next_tensor>>
  BY DEF Sync, run, wvars, decl, head, data
<1>2. NoFurther
  BY <1>1 DEF NoFurther, Begun, Complete
<1>3. Typed'
  <2>1. at' \in 0..Len(input.kvs)
    BY <1>1 DEF MInv, Typed
  <2> QED BY <1>1, <2>1, TypedFrame DEF MInv, Ends
<1>4. Phase'
  BY <1>1 DEF MInv, Phase, Begun, Complete
<1>5. Causes' /\ Lists'
  BY <1>1 DEF MInv, Causes, Lists
<1>6. CopiedKvs' /\ CopiedTensors' /\ CopiedData'
  BY <1>1, <1>2, KvsFrame, TensorsFrame, DataFrame DEF MInv
<1>7. /\ OutFile = Spec0!Migrated(input)
      /\ ~Spec0!Refused(input) /\ ~Spec0!Ambiguous(input)
  BY <1>1, WholeFile
<1>8. Fit(Spec0!Migrated(input), round + 1)
  <2>1. round \in Nat /\ Fit(input, round)
    BY Room DEF MInv, Typed
  <2> QED BY <1>7, <2>1, MigratedFits
<1>9. Done'
  BY <1>1, <1>7, <1>8 DEF Done
<1> QED BY <1>3, <1>4, <1>5, <1>6, <1>9 DEF MInv

\* The next run starts afresh, on a file that fits as its predecessor's did.
LEMMA RestartStep ==
  ASSUME MInv, TInv', Restart
  PROVE  MInv'
<1>1. /\ round < MaxRounds /\ round' = round + 1
      /\ pc' = "open" /\ disk' = "old" /\ output' = NoFile /\ cause' = "none" /\ at' = 0
      /\ vals' = <<>> /\ codes' = <<>> /\ written' = <<>> /\ WInit'
      /\ \/ pc = "ok" /\ input' = output /\ again' = TRUE /\ inplace' \in BOOLEAN
         \/ input' = input /\ again' = again /\ inplace' = inplace
  BY DEF Restart, WInit
<1>2. round \in Nat /\ MaxRounds \in Nat /\ MaxKvs \in Nat /\ round' \in 1..MaxRounds
  BY <1>1, Room, MigrateAssumption DEF MInv
<1>3. Fit(input', round')
  <2>1. CASE pc = "ok" /\ input' = output
    BY <1>1, <2>1 DEF MInv, Done
  <2>2. CASE input' = input
    <3>1. Fit(input, round) /\ Len(input.kvs) \in Nat
      BY Room DEF MInv, Typed
    <3>2. Len(input.kvs) + MaxRounds < MaxKvs + (round + 1)
      BY <1>2, <3>1 DEF Fit
    <3> QED BY <1>1, <2>2, <3>1, <3>2 DEF Fit
  <2> QED BY <1>1, <2>1, <2>2
<1>4. input' \in AnyFile /\ Len(input'.kvs) \in Nat /\ Len(input'.tensors) \in Nat
  BY <1>3, LenProperties DEF Fit, AnyFile
<1>5. Typed'
  <2>1. again \in BOOLEAN /\ inplace \in BOOLEAN
    BY DEF MInv, Typed
  <2>a. at' \in 0..Len(input'.kvs)
    BY <1>1, <1>4
  <2>2. at' \in 0..Len(input'.kvs) /\ again' \in BOOLEAN /\ inplace' \in BOOLEAN
    BY <1>1, <2>1, <2>a, Zenon
  <2>3. Fit(input, round)'
    BY <1>3
  <2> QED BY <1>1, <1>2, <2>2, <2>3 DEF Typed
<1>6. /\ Len(kvs') = 0 /\ Len(tensors') = 0 /\ next_tensor' = 0
      /\ Len(vals') = 0 /\ Len(codes') = 0 /\ Len(written') = 0
  BY <1>1 DEF WInit
<1>7. Lists'
  <2>1. <<>> \in Seq(Val) /\ <<>> \in Seq(Nat) /\ <<>> \in Seq(STRING)
    BY EmptySeq
  <2> QED BY <1>1, <2>1, Zenon DEF Lists
<1>8. Phase' /\ Causes' /\ Done'
  BY <1>1, <1>6 DEF Phase, Causes, Done, Begun, Complete
<1>9. CopiedKvs' /\ CopiedTensors' /\ CopiedData'
  BY <1>1, <1>4, <1>6 DEF CopiedKvs, CopiedTensors, CopiedData, Begun, Complete
<1> QED BY <1>5, <1>7, <1>8, <1>9 DEF MInv
-----------------------------------------------------------------------------
(* Every step keeps the invariant.                                         *)

\* A KV that is declared is a key the writer's instance has room for.
LEMMA DeclaresKv ==
  ASSUME MInv, CopyKv \/ DeclareReport
  PROVE  UNCHANGED wvars \/ \E k \in Keys : Len(kvs) < MaxKvs /\ AddKv(k)
<1>1. Typed /\ CopiedKvs
  BY DEF MInv
<1>2. /\ input \in AnyFile /\ Len(input.kvs) \in Nat /\ Len(input.kvs) < MaxKvs /\ MaxKvs \in Nat
      /\ at \in Nat /\ at <= Len(input.kvs)
  BY <1>1, Room, MigrateAssumption
<1>3. CASE CopyKv
  <2> PICK kv : kv = input.kvs[at + 1]
    OBVIOUS
  <2>1. pc = "kvs" /\ at < Len(input.kvs)
    BY <1>3 DEF CopyKv
  <2>2. kv \in Kv /\ Len(kvs) \in 0..at
    BY <1>1, <2>1, Copying
  <2>3. \/ UNCHANGED wvars
        \/ AddKv(kv.key)
    BY <1>1, <1>3, CopyKvCases DEF Fail, SkipKv, PutKv
  <2>4. kv.key \in Keys /\ Len(kvs) < MaxKvs
    BY <1>2, <2>1, <2>2 DEF Kv
  <2> QED BY <2>3, <2>4
<1>4. CASE DeclareReport
  <2>1. pc = "kvs" /\ at = Len(input.kvs)
    BY <1>4 DEF DeclareReport
  <2>2. Len(kvs) = KeptLen(input) /\ KeptLen(input) \in 0..Len(input.kvs)
    BY <1>1, <1>2, <2>1, AllCopied, MigratedMeans
  <2>3. MIGRATED \in Keys /\ Len(kvs) < MaxKvs
    BY <1>2, <2>2, MigrateAssumption
  <2>4. UNCHANGED wvars \/ AddKv(MIGRATED)
    BY <1>4 DEF DeclareReport
  <2> QED BY <2>3, <2>4
<1> QED BY <1>3, <1>4

\* Within a run every call is one that the writer's specification allows; a new
\* run has a new writer.
LEMMA WriterMoves ==
  ASSUME MInv, [Next]_vars
  PROVE  [WNext]_wvars \/ WInit'
<1>1. CASE UNCHANGED wvars
  BY <1>1
<1>2. CASE Create
  BY <1>2 DEF Create, WNext, Declare
<1>3. CASE CopyKv \/ DeclareReport
  BY <1>3, DeclaresKv DEF WNext, Declare
<1>4. CASE DeclareTensor
  <2> PICK i : i = Len(codes) + 1
    OBVIOUS
  <2>1. /\ Typed /\ ~Spec0!Unreadable(input) /\ Len(codes) = Len(tensors)
        /\ Len(codes) < Len(input.tensors) /\ tensors \in Seq(Tensor)
        /\ AddTensorInfo(input.tensors[i].name, Bytes(i))
    BY <1>4 DEF DeclareTensor, MInv, Phase, Begun, CopiedTensors, TInv, TypeOK
  <2>2. Len(tensors) \in Nat /\ Len(input.tensors) \in Nat /\ Len(input.tensors) <= MaxTensors
        /\ MaxTensors \in Nat
    BY <2>1, Room, LenProperties, MigrateAssumption
  <2>3. i \in 1..Len(input.tensors) /\ Len(tensors) < MaxTensors
    BY <2>1, <2>2
  <2>4. input.tensors[i].name \in Names /\ Bytes(i) \in Sizes
    BY <2>1, <2>3, Sized
  <2> QED BY <2>1, <2>3, <2>4 DEF WNext, Declare
<1>5. CASE Header
  BY <1>5 DEF Header, WNext, WriteHeader
<1>6. CASE CopyData
  <2> PICK i : i = next_tensor + 1
    OBVIOUS
  <2>1. /\ Typed /\ ~Spec0!Unreadable(input) /\ next_tensor \in Nat
        /\ next_tensor < Len(input.tensors)
    BY <1>6, Streaming DEF CopyData
  <2>2. i \in 1..Len(input.tensors)
    BY <2>1, Room
  <2>3. Bytes(i) \in Sizes
    BY <2>1, <2>2, Sized
  <2>4. \/ UNCHANGED wvars \/ WriteTensorData(Bytes(i))
        \/ \E k \in TornAt : WriteTensorDataErr(Bytes(i), k)
    BY <1>6 DEF CopyData, Fail
  <2>5. WriteTensorData(Bytes(i)) => Stream
    BY <2>3 DEF Stream
  <2>6. \A k \in TornAt : WriteTensorDataErr(Bytes(i), k) => Stream
    BY <2>3 DEF Stream
  <2> QED BY <2>4, <2>5, <2>6 DEF WNext
<1>7. CASE FinishFile
  BY <1>7 DEF FinishFile, WNext
<1>8. CASE Restart
  BY <1>8 DEF Restart, WInit
<1>9. [Next]_vars =>
         \/ UNCHANGED wvars \/ Create \/ CopyKv \/ DeclareReport \/ DeclareTensor
         \/ Header \/ CopyData \/ FinishFile \/ Restart
  BY DEF Next, Run, Open, Sync, IoErr, Crash, Fail, vars
<1> QED BY <1>1, <1>2, <1>3, <1>4, <1>5, <1>6, <1>7, <1>8, <1>9

LEMMA MStep == MInv /\ [Next]_vars => MInv'
<1> SUFFICES ASSUME MInv, [Next]_vars
             PROVE  MInv'
  OBVIOUS
<1>1. TInv'
  <2>1. WInit' => TInv'
    BY TypeInit, PTL
  <2>2. TInv /\ [WNext]_wvars => TInv'
    BY TypeStep
  <2> QED BY <2>1, <2>2, WriterMoves DEF MInv
<1>2. CASE UNCHANGED vars
  <2>1. UNCHANGED <<pc, round, again, input, inplace, at, vals, codes, written, cause, disk,
                    output, wvars>>
    BY <1>2 DEF vars, mvars, run, result
  <2>2. UNCHANGED <<wstate, kvs, tensors, header_written, next_tensor>>
    BY <2>1 DEF wvars, decl, head, data
  <2>3. NoFurther
    BY <2>1 DEF NoFurther
  <2>4. Typed' /\ Lists' /\ Causes' /\ Done'
    BY <2>1 DEF MInv, Typed, Lists, Causes, Done
  <2>5. Phase'
    <3>1. WInit => WInit'
      BY <2>1 DEF WInit, wvars, decl, head, data
    <3> QED BY <2>1, <2>2, <3>1 DEF MInv, Phase
  <2>6. CopiedKvs' /\ CopiedTensors' /\ CopiedData'
    BY <2>1, <2>2, <2>3, KvsFrame, TensorsFrame, DataFrame DEF MInv
  <2> QED BY <1>1, <2>4, <2>5, <2>6 DEF MInv
<1>3. CASE Open \/ Create \/ CopyKv \/ DeclareTensor \/ DeclareReport
  BY <1>1, <1>3, OpenStep, CreateStep, CopyKvStep, DeclareTensorStep, DeclareReportStep
<1>4. CASE Header \/ CopyData \/ FinishFile \/ Sync
  BY <1>1, <1>4, HeaderKeeps, CopyDataStep, FinishFileStep, SyncStep
<1>5. CASE IoErr \/ Crash
  <2>1. pc \notin Ends /\ (Fail("io") \/ Crash)
    BY <1>5 DEF IoErr, Crash, Ends
  <2> QED BY <1>1, <2>1, EndStep
<1>6. CASE Restart
  BY <1>1, <1>6, RestartStep
<1> QED BY <1>2, <1>3, <1>4, <1>5, <1>6 DEF Next, Run

-----------------------------------------------------------------------------
(* The theorems, for every set of files, all tables and all bounds.        *)

\* Every variable of migrate and of its writer keeps its type, and what is kept
\* beside the writer's sequences grows with them.
THEOREM MigrateTypes == Spec => []MTypeOK
<1>1. MInv => MTypeOK
  BY DEF MInv, TInv, Typed, CopiedKvs, CopiedTensors, CopiedData, MTypeOK
<1> QED BY <1>1, MInit, MStep, PTL DEF Spec
\* Steps of the program are steps of MigrateSpec: creating the output touches it,
\* the last sync makes it whole, and nothing in between is seen from outside.
LEMMA AbstractStep ==
  ASSUME MInv, MInv', [Next]_vars
  PROVE  [Spec0!ANext]_<<input, disk, output,
                         IF pc \in {"ok", "err", "panicked", "crashed"} THEN pc ELSE "running",
                         again>>
<1> DEFINE verdict == IF pc \in {"ok", "err", "panicked", "crashed"} THEN pc ELSE "running"
           same == UNCHANGED <<input, disk, output, again>>
<1>1. CASE Create
  <2>1. /\ pc = "create" /\ pc' = "kvs" /\ disk' = "partial" /\ disk = "old"
        /\ UNCHANGED <<input, output, again>> /\ ~Spec0!Unreadable(input)
    BY <1>1 DEF Create, MInv, Phase
  <2> QED BY <2>1 DEF Spec0!ANext, Spec0!Touch
<1>2. CASE Sync
  <2>1. /\ pc = "sync" /\ pc' = "ok" /\ disk = "partial" /\ disk' = "whole"
        /\ UNCHANGED <<input, again>> /\ output' = OutFile
    BY <1>2 DEF Sync, run, MInv, Phase
  <2>2. /\ output' = Spec0!Migrated(input)
        /\ ~Spec0!Refused(input) /\ ~Spec0!Ambiguous(input)
    BY <2>1, WholeFile
  <2> QED BY <2>1, <2>2 DEF Spec0!ANext, Spec0!Succeed
<1>3. CASE Restart
  <2>1. CASE pc = "ok" /\ input' = output /\ again' = TRUE
    BY <1>3, <2>1 DEF Restart, Spec0!ANext, Spec0!Again, Spec0!NoFile, NoFile
  <2>2. CASE pc \in {"err", "crashed"} /\ UNCHANGED <<input, again, inplace>>
    <3>1. output = NoFile
      BY <2>2 DEF MInv, Phase
    <3> QED BY <1>3, <2>2, <3>1 DEF Restart, Spec0!ANext, Spec0!Retry
  <2> QED BY <1>3, <2>1, <2>2 DEF Restart
<1>4. CASE /\ same /\ pc \notin {"ok", "err", "panicked", "crashed"}
           /\ pc' \notin {"ok", "err", "panicked", "crashed"}
  BY <1>4
<1>5. CASE /\ same /\ pc \notin {"ok", "err", "panicked", "crashed"}
           /\ pc' \in {"err", "panicked", "crashed"}
  <2>1. pc' = "panicked" => Spec0!Ambiguous(input) /\ disk = "partial"
    BY <1>5 DEF MInv, Phase
  <2> QED BY <1>5, <2>1 DEF Spec0!ANext, Spec0!Stop
<1>6. CASE UNCHANGED vars
  BY <1>6 DEF vars, mvars, result
<1>7. CASE Open \/ CopyKv \/ DeclareTensor \/ DeclareReport \/ Header \/ CopyData \/ FinishFile
           \/ IoErr \/ Crash
  <2>1. same
    BY <1>7 DEF Open, CopyKv, SkipKv, PutKv, DeclareTensor, DeclareReport, Header, CopyData,
                FinishFile, IoErr, Crash, Fail, AfterWriter, result
  <2>2. pc \notin {"ok", "err", "panicked", "crashed"}
    BY <1>7 DEF Open, CopyKv, DeclareTensor, DeclareReport, Header, CopyData, FinishFile,
                IoErr, Crash, Ends
  <2>3. pc' # "ok"
    BY <1>7 DEF Open, CopyKv, SkipKv, PutKv, DeclareTensor, DeclareReport, Header, CopyData,
                FinishFile, IoErr, Crash, Fail, AfterWriter
  <2>4. pc' \in {"open", "create", "kvs", "begin", "header", "stream", "sync",
                 "err", "panicked", "crashed"}
    BY <2>3 DEF MInv, Typed, Ends
  <2> QED BY <1>4, <1>5, <2>1, <2>2, <2>4
<1> QED BY <1>1, <1>2, <1>3, <1>6, <1>7 DEF Next, Run

\* migrate implements MigrateSpec: whatever it is given, however its steps are
\* cut by failures, crashes and new runs, the output path is seen untouched,
\* partial, or whole with exactly the migrated file in it.
THEOREM ImplementsTheorem == Spec => Implements
<1>1. Init => Spec0!AInit
  BY DEF Init, Spec0!AInit, Spec0!NoFile, NoFile
<1>2. MInv /\ MInv' /\ [Next]_vars =>
        [Spec0!ANext]_<<input, disk, output,
                        IF pc \in {"ok", "err", "panicked", "crashed"} THEN pc ELSE "running",
                        again>>
  BY AbstractStep
<1> QED BY <1>1, <1>2, MInit, MStep, PTL DEF Spec, Implements, Spec0!ASpec

\* The data arrives where the header announces it, under the name and with the
\* length it had.  (The writer's part needs that streamed sources have the
\* declared length; migrate streams none.)
THEOREM DataUntouchedTheorem ==
  ASSUME SourceExact
  PROVE  Spec => []DataUntouched
<1>1. ASSUME MInv, IInv
      PROVE  DataUntouched
  <2> SUFFICES ASSUME pc = "ok"
               PROVE  /\ Len(output.tensors) = Len(input.tensors)
                      /\ \A i \in DOMAIN input.tensors :
                           /\ Intact(i)
                           /\ LET t == input.tensors[i]
                                  u == output.tensors[i]
                              IN  /\ <<u.name, u.elems>> = <<t.name, t.elems>>
                                  /\ u.data = t.data \/ Bytes(i) = 0
    BY <1>1 DEF DataUntouched
  <2> PICK m : m = Spec0!Migrated(input)
    OBVIOUS
  <2>1. /\ input \in AnyFile /\ input.tensors \in Seq(InTensor) /\ output = m
        /\ DOMAIN input.tensors = 1..Len(input.tensors) /\ Len(input.tensors) \in Nat
        /\ wstate = "finished" /\ next_tensor = Len(tensors)
        /\ Len(tensors) = Len(input.tensors)
    BY <1>1, Room DEF MInv, Done, Phase, CopiedTensors, Complete
  <2>2. m.tensors = [i \in 1..Len(input.tensors) |->
          [input.tensors[i] EXCEPT !.code = resolve_type_code(TypeTable, input.tensors[i].code)]]
    BY <2>1, MigratedMeans
  <2>3. m \in AnyFile
    BY <1>1, <2>1 DEF MInv, Done, Fit
  <2>4. Len(m.tensors) = Len(input.tensors)
    <3>1. DOMAIN m.tensors = 1..Len(m.tensors) /\ Len(m.tensors) \in Nat
      BY <2>3, LenProperties DEF AnyFile
    <3>2. DOMAIN m.tensors = 1..Len(input.tensors)
      BY <2>2
    <3> QED BY <2>1, <3>1, <3>2
  <2>5. ASSUME NEW i \in 1..Len(input.tensors)
        PROVE  /\ Intact(i)
               /\ m.tensors[i].name = input.tensors[i].name
               /\ m.tensors[i].elems = input.tensors[i].elems
               /\ m.tensors[i].data = input.tensors[i].data
    <3>1. i \in DOMAIN placed
      <4>1. Len(placed) = next_tensor /\ placed \in Seq(Landing)
        BY <1>1, Shapes
      <4> QED BY <2>1, <4>1, LenProperties
    <3>2. Intact(i)
      BY <1>1, <2>1, <3>1, EarlierIntact
    <3>3. input.tensors[i] \in InTensor
      BY <2>1, ElementOfSeq
    <3>4. m.tensors[i] =
            [input.tensors[i] EXCEPT !.code = resolve_type_code(TypeTable, input.tensors[i].code)]
      BY <2>2
    <3> QED BY <3>2, <3>3, <3>4 DEF InTensor
  <2> QED BY <2>1, <2>4, <2>5
<1>2. Init => IInv
  BY WriterInit DEF Init
<1>3. MInv /\ IInv /\ [Next]_vars => IInv'
  <2>1. WInit' => IInv'
    BY WriterInit, PTL
  <2>2. IInv /\ [WNext]_wvars => IInv'
    BY WriterStep
  <2> QED BY <2>1, <2>2, WriterMoves
<1> QED BY <1>1, <1>2, <1>3, MInit, MStep, PTL DEF Spec

\* A migrated file is settled.
LEMMA OutputSettled ==
  ASSUME Unchained, MInv, pc = "ok"
  PROVE  output \in AnyFile /\ Settled(output)
<1>1. /\ input \in AnyFile /\ output = Spec0!Migrated(input) /\ output \in AnyFile
      /\ ~Spec0!Unreadable(input) /\ ~Spec0!Refused(input) /\ ~Spec0!Ambiguous(input)
  BY Room DEF MInv, Done, Fit, Phase, Begun
<1> QED BY <1>1, MigratedSettled

\* Nothing in a migrated file is legacy, if no row of the tables leads to the
\* left side of another.
THEOREM MigratedIsCurrentTheorem ==
  ASSUME Unchained
  PROVE  Spec => []MigratedIsCurrent
<1>1. ASSUME MInv
      PROVE  MigratedIsCurrent
  <2> SUFFICES ASSUME pc = "ok"
               PROVE  /\ \A i \in DOMAIN output.tensors :
                           resolve_type_code(TypeTable, output.tensors[i].code)
                             = output.tensors[i].code
                      /\ \A i \in DOMAIN output.kvs :
                           LET kv == output.kvs[i]
                           IN  kv.key = FTYPE => remap_ftype(FtypeTable, kv.val[2]) = kv.val[2]
    BY DEF MigratedIsCurrent
  <2>1. output \in AnyFile /\ Settled(output)
    BY <1>1, OutputSettled
  <2>2. /\ DOMAIN output.tensors = 1..Len(output.tensors)
        /\ DOMAIN output.kvs = 1..Len(output.kvs)
    BY <2>1, LenProperties DEF AnyFile
  <2>3. \A i \in 1..Len(output.tensors) :
          resolve_type_code(TypeTable, output.tensors[i].code) = output.tensors[i].code
    BY <2>1, LegacyMeans DEF Settled
  <2>4. ASSUME NEW i \in 1..Len(output.kvs), output.kvs[i].key = FTYPE
        PROVE  remap_ftype(FtypeTable, output.kvs[i].val[2]) = output.kvs[i].val[2]
    <3> PICK kv : kv = output.kvs[i]
      OBVIOUS
    <3>1. kv \in Kv
      BY <2>1, KeptMeans
    <3>2. Spec0!NewVal(kv) = kv.val
      BY <2>1, <2>4 DEF Settled
    <3>3. Spec0!NewVal(kv) = <<"u32", remap_ftype(FtypeTable, kv.val[2])>>
      BY <2>4, <3>1, KvMeans
    <3> QED BY <3>2, <3>3
  <2> QED BY <2>2, <2>3, <2>4
<1> QED BY <1>1, MInit, MStep, PTL DEF Spec

\* What is migrated again is the output of a migration.
LEMMA AgainStep ==
  ASSUME Unchained, MInv, Again, [Next]_vars
  PROVE  Again'
<1>1. CASE pc = "ok" /\ input' = output
  BY <1>1, OutputSettled DEF Again
<1>2. CASE UNCHANGED <<input, again>>
  BY <1>2 DEF Again
<1>3. [Next]_vars => (pc = "ok" /\ input' = output) \/ UNCHANGED <<input, again>>
  BY DEF Next, Run, Open, Create, CopyKv, SkipKv, PutKv, DeclareTensor, DeclareReport, Header,
         CopyData, FinishFile, Sync, IoErr, Crash, Restart, Fail, AfterWriter, vars, mvars
<1> QED BY <1>1, <1>2, <1>3

\* A second migration reproduces its input.
THEOREM SecondRunChangesNothingTheorem ==
  ASSUME Unchained
  PROVE  Spec => []SecondRunChangesNothing
<1>1. ASSUME MInv, Again
      PROVE  SecondRunChangesNothing
  <2> SUFFICES ASSUME again, pc = "ok"
               PROVE  output = input
    BY DEF SecondRunChangesNothing
  <2>1. input \in AnyFile /\ Settled(input) /\ output = Spec0!Migrated(input)
    BY <1>1, Room DEF MInv, Done, Again
  <2> QED BY <2>1, SettledStays
<1>2. Init => Again
  BY DEF Init, Again
<1>3. MInv /\ Again /\ [Next]_vars => Again'
  BY AgainStep
<1> QED BY <1>1, <1>2, <1>3, MInit, MStep, PTL DEF Spec

\* Nothing but I/O can stop it.
THEOREM SecondRunGoesThroughTheorem ==
  ASSUME Unchained
  PROVE  Spec => []SecondRunGoesThrough
<1>1. ASSUME MInv, Again
      PROVE  SecondRunGoesThrough
  <2> SUFFICES ASSUME again
               PROVE  pc # "panicked" /\ cause \in {"none", "io", "early EOF"}
    BY DEF SecondRunGoesThrough
  <2>1. input \in AnyFile /\ Settled(input)
    BY <1>1, Room DEF MInv, Again
  <2>2. ~Spec0!Unreadable(input) /\ ~Spec0!Refused(input) /\ ~Spec0!Ambiguous(input)
    BY <2>1, SettledStays
  <2> QED BY <1>1, <2>2 DEF MInv, Phase, Causes
<1>2. Init => Again
  BY DEF Init, Again
<1>3. MInv /\ Again /\ [Next]_vars => Again'
  BY AgainStep
<1> QED BY <1>1, <1>2, <1>3, MInit, MStep, PTL DEF Spec
=============================================================================
