----------------------------- MODULE SinksProofs -----------------------------
(***************************************************************************)
(* What SyncSinks' run checks of the sinks and their adapter, for all      *)
(* tables, samples, batches and opens. What a sink holds only ever loses   *)
(* its end or grows by the latest batch, in every call and every failure;  *)
(* the argument follows the two through each step.                         *)
(***************************************************************************)
EXTENDS SyncSinks, FiniteSetTheorems, SequenceTheorems, TLAPS

Cells   == {"float", "int", "str", "None"}
RowType == [id : Samples, cells : [Columns -> Cells]]
Fates   == {"unwritten", "under way", "acked", "raised", "cut off", "overwritten", "dropped", "lost"}
Writing == {"create", "insert", "commit"}

Types ==
  /\ kind \in Kinds /\ create \in BOOLEAN
  /\ handle \in {"none", "open", "dead"} /\ schema \in Schemas /\ table \in Schemas
  /\ ready \in BOOLEAN /\ (ready => Locked)
  /\ pc \in {"idle", "introspect"} \cup Writing /\ (pc = "create" => Locked)
  /\ raised \in {"no", "error", "assert"}
  /\ scars \subseteq {"introspect", "create", "closed"}
  /\ opens \in 0..MaxOpens
  /\ batch \in Seq(RowType) /\ stored \in Seq(RowType)
  /\ pending \in Seq(RowType) /\ txn \in Seq(RowType)
  /\ fate \in [Samples -> Fates]

\* Rows that are repeated come first where their samples come in order.
Ordered(rows) ==
  \A n \in DOMAIN rows : \A m \in 1..(n - 1) :
    rows[m].id > rows[n].id => \E k \in 1..(m - 1) : rows[k].id = rows[n].id

\* The rows of b can follow: a later sample is there only after the one that b has.
Ready(rows, b) ==
  \A m \in DOMAIN rows, x \in Named(b) :
    rows[m].id > x => \E k \in 1..(m - 1) : rows[k].id = x

Rising(b)     == \A i, j \in DOMAIN b : i < j => b[i].id < b[j].id
Single(rows)  == \A m, n \in DOMAIN rows : rows[m].id = rows[n].id => m = n
SameIds(a, b) == Len(a) = Len(b) /\ \A i \in DOMAIN a : a[i].id = b[i].id

\* A write is under way just when its samples are; one that raised may be made again.
WriteInv ==
  /\ Rising(batch)
  /\ \A i \in Samples : fate[i] = "under way" <=> pc \in Writing /\ i \in Named(batch)
  /\ pc \in Writing \/ raised # "no" => batch # <<>>
  /\ raised # "no" => \A i \in Named(batch) : fate[i] = "raised"

\* Samples are numbered as they are written first, and only those can be held.
NumberInv ==
  \E w \in 0..MaxSamples :
    /\ \A i \in Samples : fate[i] # "unwritten" <=> i <= w
    /\ Named(Held) \cup Named(batch) \subseteq 1..w

\* sqlite's transaction is the batch that is to be committed.
TxnInv ==
  /\ kind \in Databases => pending = <<>>
  /\ pc = "commit" =>
       /\ kind = "sqlite"
       /\ txn = <<>> \/ SameIds(txn, batch)
       /\ handle = "open" => SameIds(txn, batch)

OrderInv == Ordered(Held) /\ Ready(Held, batch)

\* What is durable is not taken from the buffer, but where a crash loses the buffer's samples.
AckedInv ==
  /\ \A i \in Samples :
       fate[i] = "acked" => i \in Named(IF kind \in {"memory", "parquet"} THEN Held ELSE stored)
  /\ \A i \in Samples : fate[i] \in {"lost", "dropped"} => kind \in {"memory", "parquet"}

AbsentInv ==
  kind \in {"sqlite", "memory"} =>
    /\ Single(Held)
    /\ \A i \in Samples : fate[i] \in {"raised", "under way"} => i \notin Named(Held)

\* A schema without its statement or writer is that of a create under way or failed.
PreparedInv ==
  /\ pc = "introspect" => kind \in Databases
  /\ handle = "dead" => kind \in {"csv", "jsonl"}
  /\ Locked /\ ~ready /\ kind \in {"sqlite", "postgres", "parquet"} =>
       pc = "create" \/ "create" \in scars \/ (kind = "parquet" /\ "closed" \in scars)
  /\ kind \in Databases /\ ~create /\ handle = "open" /\ pc # "introspect" =>
       IF kind = "sqlite" THEN ready ELSE Locked \/ "introspect" \in scars
  /\ AssertionsExplained

RowsInv == WriteInv /\ NumberInv /\ OrderInv /\ AbsentInv

IInv == Types /\ RowsInv /\ TxnInv /\ AckedInv /\ PreparedInv

\* Where the adapter's with block is, the portal runs; its end leaves the handle to close.
AdapterInv ==
  /\ adapter \in {"unused", "entering", "abandoned", "dropped", "inside", "interrupted", "exiting", "left"}
  /\ {sync, own, loop} \subseteq BOOLEAN
  /\ sync =>
       /\ adapter = "unused" => New /\ pc = "idle"
       /\ adapter = "entering" /\ handle # "none" /\ "introspect" \in scars => kind = "postgres"
       /\ adapter \in {"entering", "abandoned", "inside", "interrupted", "exiting"} \/ ~own => loop
       /\ adapter \in {"left", "dropped"} /\ own => pc = "idle"
       /\ adapter \in {"exiting", "left"} /\ handle # "none" =>
            \/ kind = "postgres" /\ "introspect" \in scars
            \/ kind \in {"csv", "jsonl"} /\ handle = "dead"
            \/ kind = "parquet" /\ "closed" \in scars

-----------------------------------------------------------------------------
(* Rows.                                                                   *)

\* p is the start of the rows s.
Begins(p, s) == Len(p) <= Len(s) /\ \A i \in 1..Len(p) : p[i] = s[i]

LEMMA NamedIs == ASSUME NEW rows PROVE Named(rows) = {rows[i].id : i \in DOMAIN rows}
BY DEF Named, Ids, Range

LEMMA RowsTyped ==
  ASSUME NEW rows \in Seq(RowType)
  PROVE  /\ DOMAIN rows = 1..Len(rows) /\ Len(rows) \in Nat
         /\ \A i \in DOMAIN rows : rows[i].id \in Samples /\ rows[i].id \in Nat /\ rows[i].id \in Named(rows)
         /\ Named(rows) \subseteq Samples
<1>1. MaxSamples \in Nat
  BY SinksAssumption
<1>2. Samples \subseteq Nat
  BY <1>1 DEF Samples
<1>3. \A i \in DOMAIN rows : rows[i] \in RowType
  OBVIOUS
<1>4. \A i \in DOMAIN rows : rows[i].id \in Samples
  BY <1>3 DEF RowType
<1>5. \A i \in DOMAIN rows : rows[i].id \in Named(rows)
  BY NamedIs
<1>6. Named(rows) \subseteq Samples
  BY <1>4, NamedIs
<1>7. DOMAIN rows = 1..Len(rows) /\ Len(rows) \in Nat
  OBVIOUS
<1> QED
  BY <1>2, <1>4, <1>5, <1>6, <1>7

LEMMA Joined ==
  ASSUME NEW s \in Seq(RowType), NEW t \in Seq(RowType)
  PROVE  /\ s \o t \in Seq(RowType) /\ Len(s \o t) = Len(s) + Len(t)
         /\ \A i \in 1..Len(s) : (s \o t)[i] = s[i]
         /\ \A i \in 1..Len(t) : (s \o t)[Len(s) + i] = t[i]
         /\ \A i \in 1..Len(s \o t) : i \in 1..Len(s) \/ i - Len(s) \in 1..Len(t)
         /\ Begins(s, s \o t)
BY DEF Begins

LEMMA JoinedNames ==
  ASSUME NEW s \in Seq(RowType), NEW t \in Seq(RowType)
  PROVE  Named(s \o t) = Named(s) \cup Named(t)
<1> DEFINE r == s \o t
<1>1. /\ r \in Seq(RowType) /\ Len(r) = Len(s) + Len(t)
      /\ \A i \in 1..Len(s) : r[i] = s[i]
      /\ \A i \in 1..Len(t) : r[Len(s) + i] = t[i]
      /\ \A i \in 1..Len(r) : i \in 1..Len(s) \/ i - Len(s) \in 1..Len(t)
  BY Joined
<1> HIDE DEF r
<1>2. ASSUME NEW i \in DOMAIN r PROVE r[i].id \in Named(s) \cup Named(t)
  <2>1. i \in 1..Len(r)
    BY <1>1
  <2>2. CASE i \in 1..Len(s)
    BY <1>1, <2>2, NamedIs
  <2>3. CASE i - Len(s) \in 1..Len(t)
    <3>1. Len(s) + (i - Len(s)) = i
      BY <1>1, <2>1
    <3>2. r[i] = t[i - Len(s)]
      BY <1>1, <2>3, <3>1
    <3> QED
      BY <2>3, <3>2, NamedIs
  <2> QED
    BY <1>1, <2>1, <2>2, <2>3
<1>3. ASSUME NEW i \in DOMAIN s PROVE s[i].id \in Named(r)
  <2>1. i \in DOMAIN r /\ r[i] = s[i]
    BY <1>1
  <2> QED
    BY <2>1, NamedIs
<1>4. ASSUME NEW i \in DOMAIN t PROVE t[i].id \in Named(r)
  <2>1. Len(s) + i \in DOMAIN r /\ r[Len(s) + i] = t[i]
    BY <1>1
  <2> QED
    BY <2>1, NamedIs
<1>5. Named(r) = Named(s) \cup Named(t)
  BY <1>2, <1>3, <1>4, NamedIs
<1> QED
  BY <1>5 DEF r

LEMMA SameNames ==
  ASSUME NEW a \in Seq(RowType), NEW b \in Seq(RowType), SameIds(a, b)
  PROVE  Named(a) = Named(b)
<1>1. DOMAIN a = DOMAIN b /\ \A i \in DOMAIN a : a[i].id = b[i].id
  BY DEF SameIds
<1> QED
  BY <1>1, NamedIs

\* What is lost from the end of rows disturbs nothing.
LEMMA StartKeeps ==
  ASSUME NEW p \in Seq(RowType), NEW s \in Seq(RowType), NEW b, Begins(p, s)
  PROVE  /\ Ordered(s) => Ordered(p)
         /\ Ready(s, b) => Ready(p, b)
         /\ Single(s) => Single(p)
         /\ Named(p) \subseteq Named(s)
<1>1. \A i \in DOMAIN p : i \in DOMAIN s /\ p[i] = s[i] /\ (\A k \in 1..(i - 1) : p[k] = s[k])
  BY DEF Begins
<1>2. Named(p) \subseteq Named(s)
  BY <1>1, NamedIs
<1>3. ASSUME Ordered(s) PROVE Ordered(p)
  <2> SUFFICES ASSUME NEW n \in DOMAIN p, NEW m \in 1..(n - 1), p[m].id > p[n].id
               PROVE  \E k \in 1..(m - 1) : p[k].id = p[n].id
    BY DEF Ordered
  <2>1. n \in 1..Len(p) /\ n \in DOMAIN s /\ p[n] = s[n] /\ p[m] = s[m]
    BY <1>1
  <2>2. PICK k \in 1..(m - 1) : s[k].id = s[n].id
    BY <1>3, <2>1 DEF Ordered
  <2>3. k \in 1..(n - 1)
    BY <2>1
  <2>4. p[k] = s[k]
    BY <1>1, <2>3
  <2> QED
    BY <2>1, <2>2, <2>4
<1>4. ASSUME Ready(s, b) PROVE Ready(p, b)
  <2> SUFFICES ASSUME NEW m \in DOMAIN p, NEW x \in Named(b), p[m].id > x
               PROVE  \E k \in 1..(m - 1) : p[k].id = x
    BY DEF Ready
  <2>1. m \in DOMAIN s /\ p[m] = s[m]
    BY <1>1
  <2>2. PICK k \in 1..(m - 1) : s[k].id = x
    BY <1>4, <2>1 DEF Ready
  <2>3. p[k] = s[k]
    BY <1>1
  <2> QED
    BY <2>2, <2>3
<1>5. ASSUME Single(s) PROVE Single(p)
  BY <1>1, <1>5 DEF Single
<1> QED
  BY <1>2, <1>3, <1>4, <1>5

\* The batch joins the rows, its samples in the columns' types.
LEMMA BatchJoins ==
  ASSUME NEW s \in Seq(RowType), NEW b \in Seq(RowType), NEW k \in Seq(RowType),
         SameIds(k, b), Rising(b), Ordered(s), Ready(s, b)
  PROVE  Ordered(s \o k) /\ Ready(s \o k, b)
<1> DEFINE r == s \o k
<1>1. /\ r \in Seq(RowType) /\ Len(r) = Len(s) + Len(k)
      /\ \A i \in 1..Len(s) : r[i] = s[i]
      /\ \A i \in 1..Len(k) : r[Len(s) + i] = k[i]
      /\ \A i \in 1..Len(r) : i \in 1..Len(s) \/ i - Len(s) \in 1..Len(k)
  BY Joined
<1> HIDE DEF r
<1>2. ASSUME NEW n \in 1..Len(r), n - Len(s) \in 1..Len(k)
      PROVE  n - Len(s) \in DOMAIN b /\ r[n].id = b[n - Len(s)].id
  <2>1. Len(s) + (n - Len(s)) = n
    BY <1>1
  <2>2. r[n] = k[n - Len(s)]
    BY <1>1, <1>2, <2>1
  <2> QED
    BY <1>2, <2>2 DEF SameIds
<1>3. \A i \in DOMAIN b : b[i].id \in Named(b) /\ b[i].id \in Nat
  BY RowsTyped
<1>4. \A m \in DOMAIN s, x \in Named(b) :
        s[m].id > x => \E i \in 1..(m - 1) : s[i].id = x
  BY DEF Ready
<1>5. ASSUME NEW n \in 1..Len(r), NEW m \in 1..(n - 1), r[m].id > r[n].id
      PROVE  \E i \in 1..(m - 1) : r[i].id = r[n].id
  <2>1. CASE n \in 1..Len(s)
    <3>1. r[n] = s[n] /\ r[m] = s[m] /\ n \in DOMAIN s /\ \A i \in 1..(m - 1) : r[i] = s[i]
      BY <1>1, <2>1
    <3> QED
      BY <1>5, <3>1 DEF Ordered
  <2>2. CASE n - Len(s) \in 1..Len(k) /\ m \in 1..Len(s)
    <3>1. r[m] = s[m] /\ m \in DOMAIN s /\ \A i \in 1..(m - 1) : r[i] = s[i]
      BY <1>1, <2>2
    <3>2. r[n].id \in Named(b)
      BY <1>2, <1>3, <2>2
    <3>3. \E i \in 1..(m - 1) : s[i].id = r[n].id
      BY <1>4, <1>5, <3>1, <3>2
    <3> QED
      BY <3>1, <3>3
  <2>3. CASE n - Len(s) \in 1..Len(k) /\ m - Len(s) \in 1..Len(k)
    <3>1. m \in 1..Len(r) /\ m - Len(s) < n - Len(s)
      BY <1>1, <2>3
    <3>2. r[n].id = b[n - Len(s)].id /\ r[m].id = b[m - Len(s)].id
          /\ n - Len(s) \in DOMAIN b /\ m - Len(s) \in DOMAIN b
      BY <1>2, <2>3, <3>1
    <3>3. r[m].id < r[n].id /\ r[m].id \in Nat /\ r[n].id \in Nat
      BY <1>3, <3>1, <3>2 DEF Rising
    <3> QED
      BY <1>5, <3>3
  <2>4. m \in 1..Len(r)
    BY <1>1
  <2> QED
    BY <1>1, <2>1, <2>2, <2>3, <2>4
<1>6. Ordered(r)
  <2>1. DOMAIN r = 1..Len(r)
    BY <1>1
  <2> QED
    BY <1>5, <2>1 DEF Ordered
<1>7. ASSUME NEW m \in 1..Len(r), NEW x \in Named(b), r[m].id > x
      PROVE  \E i \in 1..(m - 1) : r[i].id = x
  <2>1. CASE m \in 1..Len(s)
    <3>1. r[m] = s[m] /\ m \in DOMAIN s /\ \A i \in 1..(m - 1) : r[i] = s[i]
      BY <1>1, <2>1
    <3> QED
      BY <1>4, <1>7, <3>1
  <2>2. CASE m - Len(s) \in 1..Len(k)
    <3>1. PICK j \in DOMAIN b : b[j].id = x
      BY NamedIs
    <3>2. m - Len(s) \in DOMAIN b /\ r[m].id = b[m - Len(s)].id
      BY <1>2, <2>2
    <3>3. j \in 1..Len(b) /\ m - Len(s) \in 1..Len(b)
      BY <3>2
    <3>4. j < m - Len(s)
      <4>1. CASE j = m - Len(s)
        BY <1>3, <1>7, <3>1, <3>2, <4>1
      <4>2. CASE m - Len(s) < j
        BY <1>3, <1>7, <3>1, <3>2, <4>2 DEF Rising
      <4> QED
        BY <3>3, <4>1, <4>2
    <3>5. Len(s) + j \in 1..(m - 1) /\ Len(s) + j \in 1..Len(r) /\ (Len(s) + j) - Len(s) = j
      BY <1>1, <3>3, <3>4
    <3>6. r[Len(s) + j].id = x
      <4>1. j \in 1..Len(k)
        BY <3>3 DEF SameIds
      <4> QED
        BY <1>2, <3>1, <3>5, <4>1
    <3> QED
      BY <3>5, <3>6
  <2> QED
    BY <1>1, <2>1, <2>2
<1>8. Ready(r, b)
  <2>1. DOMAIN r = 1..Len(r)
    BY <1>1
  <2> QED
    BY <1>7, <2>1 DEF Ready
<1> QED
  BY <1>6, <1>8 DEF r

\* A batch that is not among the rows yet joins them without a repeat.
LEMMA NoRepeat ==
  ASSUME NEW s \in Seq(RowType), NEW b \in Seq(RowType), NEW k \in Seq(RowType),
         SameIds(k, b), Rising(b), Single(s), Named(s) \cap Named(b) = {}
  PROVE  Single(s \o k)
<1> DEFINE r == s \o k
<1>1. /\ r \in Seq(RowType) /\ Len(r) = Len(s) + Len(k)
      /\ \A i \in 1..Len(s) : r[i] = s[i]
      /\ \A i \in 1..Len(k) : r[Len(s) + i] = k[i]
      /\ \A i \in 1..Len(r) : i \in 1..Len(s) \/ i - Len(s) \in 1..Len(k)
  BY Joined
<1> HIDE DEF r
<1>2. ASSUME NEW n \in 1..Len(r), n - Len(s) \in 1..Len(k)
      PROVE  n - Len(s) \in DOMAIN b /\ r[n].id = b[n - Len(s)].id
  <2>1. Len(s) + (n - Len(s)) = n
    BY <1>1
  <2>2. r[n] = k[n - Len(s)]
    BY <1>1, <1>2, <2>1
  <2> QED
    BY <1>2, <2>2 DEF SameIds
<1>3. \A i \in DOMAIN b : b[i].id \in Named(b) /\ b[i].id \in Nat
  BY RowsTyped
<1>4. \A i \in DOMAIN s : s[i].id \in Named(s)
  BY NamedIs
<1>5. ASSUME NEW n \in 1..Len(r), NEW m \in 1..Len(r), r[m].id = r[n].id PROVE m = n
  <2>1. CASE n \in 1..Len(s) /\ m \in 1..Len(s)
    BY <1>1, <1>5, <2>1 DEF Single
  <2>2. CASE n - Len(s) \in 1..Len(k) /\ m - Len(s) \in 1..Len(k)
    <3>1. /\ n - Len(s) \in DOMAIN b /\ r[n].id = b[n - Len(s)].id
          /\ m - Len(s) \in DOMAIN b /\ r[m].id = b[m - Len(s)].id
      BY <1>2, <2>2
    <3>2. ~(n - Len(s) < m - Len(s)) /\ ~(m - Len(s) < n - Len(s))
      BY <1>3, <1>5, <3>1 DEF Rising
    <3> QED
      BY <1>1, <3>2
  <2>3. CASE n \in 1..Len(s) /\ m - Len(s) \in 1..Len(k)
    <3>1. r[n] = s[n] /\ n \in DOMAIN s
      BY <1>1, <2>3
    <3>2. r[m].id \in Named(b)
      BY <1>2, <1>3, <2>3
    <3> QED
      BY <1>4, <1>5, <3>1, <3>2
  <2>4. CASE m \in 1..Len(s) /\ n - Len(s) \in 1..Len(k)
    <3>1. r[m] = s[m] /\ m \in DOMAIN s
      BY <1>1, <2>4
    <3>2. r[n].id \in Named(b)
      BY <1>2, <1>3, <2>4
    <3> QED
      BY <1>4, <1>5, <3>1, <3>2
  <2> QED
    BY <1>1, <2>1, <2>2, <2>3, <2>4
<1>6. Single(r)
  <2>1. DOMAIN r = 1..Len(r)
    BY <1>1
  <2> QED
    BY <1>5, <2>1 DEF Single
<1> QED
  BY <1>6 DEF r

-----------------------------------------------------------------------------
(* Schemas and what a row becomes in them.                                 *)

LEMMA SchemaIs ==
  ASSUME NEW s
  PROVE  s \in Schemas <=> s \in [DOMAIN s -> {"float", "int", "str"}] /\ DOMAIN s \subseteq Columns
BY DEF Schemas

LEMMA NoSchema == <<>> \in Schemas
<1>1. <<>> \in [{} -> {"float", "int", "str"}]
  BY SMT
<1> QED
  BY <1>1 DEF Schemas

LEMMA FullSchema ==
  ASSUME NEW s, s \in [Columns -> {"float", "int", "str"}]
  PROVE  s \in Schemas /\ s # <<>>
<1>1. s \in Schemas
  BY DEF Schemas
<1>2. "value" \in DOMAIN s
  BY DEF Columns
<1>3. "value" \notin DOMAIN <<>>
  OBVIOUS
<1> QED
  BY <1>1, <1>2, <1>3

LEMMA InferredTyped ==
  ASSUME NEW rows \in Seq(RowType)
  PROVE  Inferred(rows) \in [Columns -> {"float", "int", "str"}]
<1> SUFFICES ASSUME NEW c \in Columns PROVE Inferred(rows)[c] \in {"float", "int", "str"}
  BY DEF Inferred
<1> DEFINE types == {rows[i].cells[c] : i \in DOMAIN rows} \ {"None"}
<1>1. types \subseteq {"float", "int", "str"}
  <2>1. \A i \in DOMAIN rows : rows[i] \in RowType
    OBVIOUS
  <2>2. \A i \in DOMAIN rows : rows[i].cells[c] \in Cells
    BY <2>1 DEF RowType
  <2> QED
    BY <2>2 DEF Cells
<1>2. Inferred(rows)[c] =
        CASE types = {} -> "str"
          [] types = {"int", "float"} -> "float"
          [] \E t \in types : types = {t} -> CHOOSE t \in types : TRUE
          [] OTHER -> "str"
  BY DEF Inferred
<1> HIDE DEF types
<1>3. CASE types = {}
  <2>1. types # {"int", "float"} /\ ~\E t \in types : types = {t}
    BY <1>3
  <2> QED
    BY <1>2, <1>3, <2>1
<1>4. CASE types = {"int", "float"}
  <2>1. "int" \in types /\ "float" \in types /\ "int" # "float"
    BY <1>4
  <2>2. types # {} /\ ~\E t \in types : types = {t}
    BY <2>1
  <2> QED
    BY <1>2, <1>4, <2>2
<1>5. CASE \E t \in types : types = {t}
  <2>1. types # {} /\ types # {"int", "float"}
    BY <1>5
  <2>2. (CHOOSE t \in types : TRUE) \in types
    BY <1>5
  <2> QED
    BY <1>1, <1>2, <1>5, <2>1, <2>2
<1>6. CASE types # {} /\ types # {"int", "float"} /\ ~\E t \in types : types = {t}
  BY <1>2, <1>6
<1> QED
  BY <1>3, <1>4, <1>5, <1>6

LEMMA KeptTyped ==
  ASSUME NEW rows \in Seq(RowType), schema \in Schemas, table \in Schemas,
         kind \in {"memory", "jsonl", "csv"} \/ Fits(rows)
  PROVE  Kept(rows) \in Seq(RowType) /\ SameIds(Kept(rows), rows)
<1>1. \A i \in DOMAIN rows : rows[i] \in RowType
  OBVIOUS
<1> DEFINE kept(i) == [c \in Columns |->
        IF kind \in {"memory", "jsonl"} THEN rows[i].cells[c]
        ELSE IF kind = "csv" THEN "str"
        ELSE IF c \notin DOMAIN schema \/ rows[i].cells[c] = "None" THEN "None"
        ELSE table[c]]
<1>2. ASSUME NEW i \in DOMAIN rows, NEW c \in Columns PROVE kept(i)[c] \in Cells
  <2>1. rows[i].cells[c] \in Cells
    BY <1>1 DEF RowType
  <2>2. CASE kind \in {"memory", "jsonl"}
    <3>1. kept(i)[c] = rows[i].cells[c]
      BY <2>2
    <3> QED
      BY <2>1, <3>1
  <2>3. CASE kind = "csv"
    <3>1. kept(i)[c] = "str"
      BY <2>3
    <3> QED
      BY <3>1 DEF Cells
  <2>4. CASE kind \notin {"memory", "jsonl", "csv"}
    <3>1. c \in DOMAIN schema => c \in DOMAIN table
      BY <2>4 DEF Fits
    <3>2. c \in DOMAIN table => table[c] \in {"float", "int", "str"}
      BY SchemaIs
    <3>3. CASE c \notin DOMAIN schema \/ rows[i].cells[c] = "None"
      <4>1. kept(i)[c] = "None"
        BY <2>4, <3>3
      <4> QED
        BY <4>1 DEF Cells
    <3>4. CASE c \in DOMAIN schema /\ rows[i].cells[c] # "None"
      <4>1. kept(i)[c] = table[c]
        BY <2>4, <3>4
      <4> QED
        BY <3>1, <3>2, <3>4, <4>1 DEF Cells
    <3> QED
      BY <3>3, <3>4
  <2> QED
    BY <2>2, <2>3, <2>4
<1>3. Kept(rows) = [i \in DOMAIN rows |-> [id |-> rows[i].id, cells |-> kept(i)]]
  BY DEF Kept
<1>4. \A i \in DOMAIN rows : kept(i) \in [Columns -> Cells] /\ rows[i].id \in Samples
  BY <1>1, <1>2 DEF RowType
<1> HIDE DEF kept
<1>5. \A i \in DOMAIN rows : Kept(rows)[i] \in RowType /\ Kept(rows)[i].id = rows[i].id
  BY <1>3, <1>4 DEF RowType
<1>6. DOMAIN rows = 1..Len(rows) /\ DOMAIN Kept(rows) = DOMAIN rows
  BY <1>3
<1>7. Kept(rows) \in [1..Len(rows) -> RowType]
  BY <1>3, <1>5, <1>6
<1>8. Kept(rows) \in Seq(RowType) /\ Len(Kept(rows)) = Len(rows)
  BY <1>7
<1> QED
  BY <1>5, <1>6, <1>8 DEF SameIds

-----------------------------------------------------------------------------
(* What a step does to the rows that are held, and to the latest batch.    *)

LEMMA HeldTyped == ASSUME Types PROVE Held \in Seq(RowType)
BY DEF Types, Held

LEMMA Begun == ASSUME NEW s \in Seq(RowType) PROVE Begins(s, s) /\ Begins(<<>>, s)
BY DEF Begins

LEMMA HeldStarts ==
  ASSUME Types, Types', Begins(Held', Held)
  PROVE  /\ Ordered(Held) => Ordered(Held')
         /\ \A b : Ready(Held, b) => Ready(Held', b)
         /\ Single(Held) => Single(Held')
         /\ Named(Held') \subseteq Named(Held)
<1>1. Held \in Seq(RowType) /\ Held' \in Seq(RowType)
  BY HeldTyped DEF Types, Held
<1> DEFINE s == Held
           p == Held'
<1>2. p \in Seq(RowType) /\ s \in Seq(RowType) /\ Begins(p, s)
  BY <1>1
<1> HIDE DEF p, s
<1>3. /\ Ordered(s) => Ordered(p)
      /\ \A b : Ready(s, b) => Ready(p, b)
      /\ Single(s) => Single(p)
      /\ Named(p) \subseteq Named(s)
  BY <1>2, StartKeeps
<1> QED
  BY <1>3 DEF p, s, Ordered, Ready, Single, Named, Ids, Range

\* Held rows lose their end at most, and acknowledged samples what they were.
LEMMA RowsKept ==
  ASSUME Types, Types', RowsInv, UNCHANGED <<kind, batch, raised>>, Begins(Held', Held),
         pc' \in Writing <=> pc \in Writing,
         \A i \in Samples :
           fate'[i] = fate[i] \/ (fate[i] = "acked" /\ fate'[i] \in {"overwritten", "dropped"})
  PROVE  RowsInv'
<1> USE DEF RowsInv
<1>1. WriteInv'
  <2>1. Rising(batch')
    BY DEF WriteInv
  <2>2. \A i \in Samples : fate'[i] = "under way" <=> fate[i] = "under way"
    OBVIOUS
  <2>3. \A i \in Samples : fate[i] = "raised" => fate'[i] = "raised"
    OBVIOUS
  <2>4. Named(batch) \subseteq Samples
    BY RowsTyped DEF Types
  <2> QED
    BY <2>1, <2>2, <2>3, <2>4 DEF WriteInv
<1>2. Named(Held') \subseteq Named(Held)
  BY HeldStarts
<1>3. NumberInv'
  <2>1. PICK w \in 0..MaxSamples :
          /\ \A i \in Samples : fate[i] # "unwritten" <=> i <= w
          /\ Named(Held) \cup Named(batch) \subseteq 1..w
    BY DEF NumberInv
  <2>2. \A i \in Samples : fate'[i] # "unwritten" <=> i <= w
    BY <2>1
  <2>3. Named(Held') \cup Named(batch') \subseteq 1..w
    BY <1>2, <2>1
  <2> QED
    BY <2>2, <2>3 DEF NumberInv
<1>4. OrderInv'
  BY HeldStarts DEF OrderInv
<1>5. AbsentInv'
  <2>1. CASE kind \in {"sqlite", "memory"}
    <3>1. Single(Held')
      BY <2>1, HeldStarts DEF AbsentInv
    <3>2. \A i \in Samples : fate'[i] \in {"raised", "under way"} => i \notin Named(Held')
      BY <1>2, <2>1 DEF AbsentInv
    <3> QED
      BY <3>1, <3>2 DEF AbsentInv
  <2>2. CASE kind \notin {"sqlite", "memory"}
    BY <2>2 DEF AbsentInv
  <2> QED
    BY <2>1, <2>2
<1> QED
  BY <1>1, <1>3, <1>4, <1>5

\* The latest batch joined the held rows, or they lost their end.
Joins == \E k \in Seq(RowType) : SameIds(k, batch) /\ Held' = Held \o k

LEMMA JoinOrdered ==
  ASSUME Types, RowsInv, Joins
  PROVE  /\ Ordered(Held') /\ Ready(Held', batch)
         /\ Named(Held') = Named(Held) \cup Named(batch)
         /\ Single(Held) /\ Named(Held) \cap Named(batch) = {} => Single(Held')
<1>1. PICK k \in Seq(RowType) : SameIds(k, batch) /\ Held' = Held \o k
  BY DEF Joins
<1>2. Held \in Seq(RowType) /\ batch \in Seq(RowType)
  BY HeldTyped DEF Types
<1>3. Rising(batch) /\ Ordered(Held) /\ Ready(Held, batch)
  BY DEF RowsInv, WriteInv, OrderInv
<1> DEFINE s == Held
<1> HIDE DEF s
<1>4. s \in Seq(RowType) /\ Ordered(s) /\ Ready(s, batch)
  BY <1>2, <1>3 DEF s
<1>5. Ordered(s \o k) /\ Ready(s \o k, batch)
  BY <1>1, <1>2, <1>3, <1>4, BatchJoins
<1>6. Named(s \o k) = Named(s) \cup Named(batch)
  BY <1>1, <1>2, <1>4, JoinedNames, SameNames
<1>7. Single(s) /\ Named(s) \cap Named(batch) = {} => Single(s \o k)
  BY <1>1, <1>2, <1>3, <1>4, NoRepeat
<1> QED
  BY <1>1, <1>5, <1>6, <1>7 DEF s

\* write_many raises: its rows may be held all the same, but not in sqlite.
LEMMA RowsRaised ==
  ASSUME Types, Types', RowsInv, pc \in Writing, Refuse("error", batch), UNCHANGED kind,
         Begins(Held', Held) \/ (Joins /\ kind \notin {"sqlite", "memory"})
  PROVE  RowsInv'
<1> USE DEF RowsInv
<1>1. /\ pc' = "idle" /\ batch' = batch /\ raised' = "error"
      /\ fate' = [i \in Samples |-> IF i \in Named(batch) THEN "raised" ELSE fate[i]]
  BY DEF Refuse
<1>2. Named(batch) \subseteq Samples /\ batch # <<>>
  BY RowsTyped DEF Types, WriteInv
<1>3. WriteInv'
  <2>1. \A i \in Samples : fate'[i] # "under way"
    BY <1>1 DEF WriteInv
  <2>2. \A i \in Named(batch) : fate'[i] = "raised"
    BY <1>1, <1>2
  <2> QED
    BY <1>1, <1>2, <2>1, <2>2 DEF WriteInv, Writing
<1>4. Named(Held') \subseteq Named(Held) \cup Named(batch)
  BY HeldStarts, JoinOrdered
<1>5. NumberInv'
  <2>1. PICK w \in 0..MaxSamples :
          /\ \A i \in Samples : fate[i] # "unwritten" <=> i <= w
          /\ Named(Held) \cup Named(batch) \subseteq 1..w
    BY DEF NumberInv
  <2>2. \A i \in Samples : fate'[i] # "unwritten" <=> i <= w
    BY <1>1, <2>1 DEF WriteInv
  <2>3. Named(Held') \cup Named(batch') \subseteq 1..w
    BY <1>1, <1>4, <2>1
  <2> QED
    BY <2>2, <2>3 DEF NumberInv
<1>6. OrderInv'
  BY <1>1, HeldStarts, JoinOrdered DEF OrderInv
<1>7. AbsentInv'
  <2>1. CASE kind \in {"sqlite", "memory"}
    <3>1. Single(Held') /\ Named(Held') \subseteq Named(Held)
      BY <2>1, HeldStarts DEF AbsentInv
    <3>2. \A i \in Named(batch) : fate[i] = "under way"
      BY <1>2 DEF WriteInv
    <3>3. \A i \in Samples : fate'[i] \in {"raised", "under way"} => i \notin Named(Held')
      BY <1>1, <1>2, <2>1, <3>1, <3>2 DEF AbsentInv
    <3> QED
      BY <3>1, <3>3 DEF AbsentInv
  <2>2. CASE kind \notin {"sqlite", "memory"}
    BY <2>2 DEF AbsentInv
  <2> QED
    BY <2>1, <2>2
<1> QED
  BY <1>3, <1>5, <1>6, <1>7

LEMMA RowsReturned ==
  ASSUME Types, Types', RowsInv, pc \in Writing, Return, Joins
  PROVE  RowsInv'
<1> USE DEF RowsInv
<1>1. /\ pc' = "idle" /\ batch' = batch /\ raised' = "no" /\ kind' = kind
      /\ fate' = [i \in Samples |-> IF i \in Named(batch) THEN "acked" ELSE fate[i]]
  BY DEF Return, Settle
<1>2. Named(batch) \subseteq Samples
  BY RowsTyped DEF Types
<1>3. \A i \in Named(batch) : fate[i] = "under way"
  BY <1>2 DEF WriteInv
<1>4. WriteInv'
  <2>1. \A i \in Samples : fate'[i] # "under way"
    BY <1>1 DEF WriteInv
  <2> QED
    BY <1>1, <2>1 DEF WriteInv, Writing
<1>5. NumberInv'
  <2>1. PICK w \in 0..MaxSamples :
          /\ \A i \in Samples : fate[i] # "unwritten" <=> i <= w
          /\ Named(Held) \cup Named(batch) \subseteq 1..w
    BY DEF NumberInv
  <2>2. \A i \in Samples : fate'[i] # "unwritten" <=> i <= w
    BY <1>1, <1>3, <2>1
  <2>3. Named(Held') \cup Named(batch') \subseteq 1..w
    BY <1>1, <2>1, JoinOrdered
  <2> QED
    BY <2>2, <2>3 DEF NumberInv
<1>6. OrderInv'
  BY <1>1, JoinOrdered DEF OrderInv
<1>7. AbsentInv'
  <2>1. CASE kind \in {"sqlite", "memory"}
    <3>1. Single(Held) /\ Named(Held) \cap Named(batch) = {}
      BY <1>2, <1>3, <2>1 DEF AbsentInv
    <3>2. Single(Held') /\ Named(Held') = Named(Held) \cup Named(batch)
      BY <3>1, JoinOrdered
    <3>3. \A i \in Samples : fate'[i] \in {"raised", "under way"} => i \notin Named(Held')
      BY <1>1, <2>1, <3>2 DEF AbsentInv
    <3> QED
      BY <3>2, <3>3 DEF AbsentInv
  <2>2. CASE kind \notin {"sqlite", "memory"}
    BY <1>1, <2>2 DEF AbsentInv
  <2> QED
    BY <2>1, <2>2
<1> QED
  BY <1>4, <1>5, <1>6, <1>7

-----------------------------------------------------------------------------
(* write_many, up to its first await.                                      *)

LEMMA WrittenIs ==
  ASSUME NEW w \in 0..MaxSamples, \A i \in Samples : fate[i] # "unwritten" <=> i <= w
  PROVE  Written = w
<1>1. MaxSamples \in Nat
  BY SinksAssumption
<1>2. {i \in Samples : fate[i] # "unwritten"} = 1..w
  BY <1>1 DEF Samples
<1>3. Cardinality(1..w) = w
  BY FS_Interval
<1> QED
  BY <1>2, <1>3 DEF Written

\* The rows of new samples.
LEMMA NewRows ==
  ASSUME NEW w \in 0..MaxSamples, NEW n \in 1..MaxBatch, NEW cells \in [1..MaxBatch -> Rows],
         NEW rows, rows = [i \in 1..n |-> [id |-> w + i, cells |-> cells[i]]],
         Named(rows) \subseteq Samples
  PROVE  /\ rows \in Seq(RowType) /\ Rising(rows) /\ rows # <<>>
         /\ w + n \in 0..MaxSamples /\ Named(rows) = (w + 1)..(w + n)
<1>1. MaxSamples \in Nat /\ MaxBatch \in Nat
  BY SinksAssumption
<1>2. DOMAIN rows = 1..n /\ \A i \in 1..n : rows[i].id = w + i /\ rows[i] = [id |-> w + i, cells |-> cells[i]]
  OBVIOUS
<1>3. Named(rows) = (w + 1)..(w + n)
  <2>1. Named(rows) = {w + i : i \in 1..n}
    BY <1>2, NamedIs
  <2>2. ASSUME NEW x \in (w + 1)..(w + n) PROVE x \in {w + i : i \in 1..n}
    <3>1. x - w \in 1..n /\ w + (x - w) = x
      BY <1>1
    <3> QED
      BY <3>1
  <2>3. {w + i : i \in 1..n} \subseteq (w + 1)..(w + n)
    BY <1>1
  <2> QED
    BY <2>1, <2>2, <2>3
<1>4. w + n \in 0..MaxSamples
  <2>0. w \in Nat /\ n \in Nat /\ n > 0
    BY <1>1
  <2>1. w + n \in Samples
    <3>1. w + n \in (w + 1)..(w + n)
      BY <2>0
    <3> QED
      BY <1>3, <3>1
  <2> QED
    BY <1>1, <2>1 DEF Samples
<1>5. rows \in Seq(RowType)
  <2>1. \A c \in Rows : c \in [Columns -> Cells]
    <3>1. [value |-> "float", sequence |-> "int"] \in [Columns -> Cells]
      BY DEF Columns, Cells
    <3>2. [value |-> "float", sequence |-> "None"] \in [Columns -> Cells]
      BY DEF Columns, Cells
    <3>3. [value |-> "None", sequence |-> "None"] \in [Columns -> Cells]
      BY DEF Columns, Cells
    <3> QED
      BY <3>1, <3>2, <3>3 DEF Rows
  <2>2. ASSUME NEW i \in 1..n PROVE rows[i] \in RowType
    <3>1. cells[i] \in [Columns -> Cells]
      BY <1>1, <2>1
    <3>2. w + i \in Samples
      BY <1>2, <1>3, NamedIs
    <3> QED
      BY <1>2, <3>1, <3>2 DEF RowType
  <2>3. rows \in [1..n -> RowType]
    BY <2>2
  <2> QED
    BY <1>1, <2>3
<1>6. Rising(rows)
  BY <1>1, <1>2 DEF Rising
<1>7. rows # <<>>
  <2>1. Len(rows) = n /\ n > 0
    BY <1>1, <1>2, <1>5
  <2> QED
    BY <1>5, <2>1
<1> QED
  BY <1>3, <1>4, <1>5, <1>6, <1>7

\* With rows on offer every sample up to a number is written or one of them.
Numbered(rows, w) ==
  /\ \A i \in Samples : fate[i] # "unwritten" \/ i \in Named(rows) <=> i <= w
  /\ Named(Held) \cup Named(rows) \subseteq 1..w

LEMMA OfferFits ==
  ASSUME Types, RowsInv, NEW rows \in Offers, Named(rows) \subseteq Samples
  PROVE  /\ rows \in Seq(RowType) /\ Rising(rows) /\ rows # <<>>
         /\ \E w \in 0..MaxSamples : Numbered(rows, w)
         /\ Ready(Held, rows)
         /\ kind \in {"sqlite", "memory"} => Named(Held) \cap Named(rows) = {}
<1>1. PICK w \in 0..MaxSamples :
        /\ \A i \in Samples : fate[i] # "unwritten" <=> i <= w
        /\ Named(Held) \cup Named(batch) \subseteq 1..w
  BY DEF RowsInv, NumberInv
<1>2. Written = w
  BY <1>1, WrittenIs
<1>3. Held \in Seq(RowType) /\ MaxSamples \in Nat /\ MaxBatch \in Nat
  BY HeldTyped, SinksAssumption
<1>4. ASSUME NEW n \in 1..MaxBatch, NEW cells \in [1..MaxBatch -> Rows],
             rows = [i \in 1..n |-> [id |-> Written + i, cells |-> cells[i]]]
      PROVE  /\ rows \in Seq(RowType) /\ Rising(rows) /\ rows # <<>>
             /\ \E v \in 0..MaxSamples : Numbered(rows, v)
             /\ Ready(Held, rows) /\ Named(Held) \cap Named(rows) = {}
  <2>1. /\ rows \in Seq(RowType) /\ Rising(rows) /\ rows # <<>>
        /\ w + n \in 0..MaxSamples /\ Named(rows) = (w + 1)..(w + n)
    <3>1. rows = [i \in 1..n |-> [id |-> w + i, cells |-> cells[i]]]
      BY <1>2, <1>4
    <3> QED
      BY <3>1, NewRows
  <2>2. Numbered(rows, w + n)
    <3>1. ASSUME NEW i \in Samples
          PROVE  fate[i] # "unwritten" \/ i \in Named(rows) <=> i <= w + n
      <4>1. fate[i] # "unwritten" <=> i <= w
        BY <1>1
      <4>2. i \in Int /\ w \in Int /\ n \in Int /\ n > 0
        BY <1>3 DEF Samples
      <4>3. i \in Named(rows) <=> i > w /\ i <= w + n
        BY <2>1, <4>2
      <4> QED
        BY <4>1, <4>2, <4>3
    <3>2. Named(Held) \cup Named(rows) \subseteq 1..(w + n)
      BY <1>1, <1>3, <2>1
    <3> QED
      BY <3>1, <3>2 DEF Numbered
  <2>3. ASSUME NEW m \in DOMAIN Held, NEW x \in Named(rows) PROVE ~(Held[m].id > x)
    <3>1. Held[m].id \in 1..w
      BY <1>1, <1>3, RowsTyped
    <3> QED
      BY <1>3, <2>1, <3>1
  <2>4. Ready(Held, rows)
    BY <2>3 DEF Ready
  <2>5. Named(Held) \cap Named(rows) = {}
    BY <1>1, <1>3, <2>1
  <2> QED
    BY <2>1, <2>2, <2>4, <2>5
<1>5. ASSUME rows = batch, raised \in {"error", "assert"}
      PROVE  /\ rows \in Seq(RowType) /\ Rising(rows) /\ rows # <<>>
             /\ \E v \in 0..MaxSamples : Numbered(rows, v)
             /\ Ready(Held, rows)
             /\ kind \in {"sqlite", "memory"} => Named(Held) \cap Named(rows) = {}
  <2>1. /\ rows \in Seq(RowType) /\ Rising(rows) /\ rows # <<>> /\ Ready(Held, rows)
        /\ \A i \in Named(rows) : fate[i] = "raised"
    BY <1>5 DEF Types, RowsInv, WriteInv, OrderInv
  <2>2. Numbered(rows, w)
    <3>1. \A i \in Samples : fate[i] # "unwritten" \/ i \in Named(rows) <=> i <= w
      BY <1>1, <2>1
    <3> QED
      BY <1>1, <1>5, <3>1 DEF Numbered
  <2>3. kind \in {"sqlite", "memory"} => Named(Held) \cap Named(rows) = {}
    BY <2>1 DEF RowsInv, AbsentInv
  <2> QED
    BY <2>1, <2>2, <2>3
<1> QED
  BY <1>4, <1>5 DEF Offers

\* The rows become the batch: they are under way, or refused at once.
LEMMA RowsOffered ==
  ASSUME Types, Types', RowsInv, pc \notin Writing, UNCHANGED <<kind, stored, pending>>,
         NEW rows \in Offers, Named(rows) \subseteq Samples, NEW how, NEW next,
         batch' = rows, pc' = next,
         fate' = [i \in Samples |-> IF i \in Named(rows) THEN how ELSE fate[i]],
         \/ how = "under way" /\ next \in Writing /\ raised' = "no"
         \/ how = "raised" /\ next \notin Writing /\ raised' = "assert"
  PROVE  RowsInv'
<1>1. /\ rows \in Seq(RowType) /\ Rising(rows) /\ rows # <<>>
      /\ Ready(Held, rows)
      /\ kind \in {"sqlite", "memory"} => Named(Held) \cap Named(rows) = {}
  BY OfferFits
<1>2. PICK w \in 0..MaxSamples : Numbered(rows, w)
  BY OfferFits
<1>3. Held' = Held
  BY DEF Held
<1>4. \A i \in Samples : fate[i] # "under way"
  BY DEF RowsInv, WriteInv
<1>5. WriteInv'
  <2>1. \A i \in Samples : fate'[i] = "under way" <=> pc' \in Writing /\ i \in Named(batch')
    BY <1>4
  <2>2. raised' # "no" => \A i \in Named(batch') : fate'[i] = "raised"
    OBVIOUS
  <2> QED
    BY <1>1, <2>1, <2>2 DEF WriteInv
<1>6. NumberInv'
  <2>1. \A i \in Samples : fate'[i] # "unwritten" <=> i <= w
    BY <1>2 DEF Numbered
  <2>2. Named(Held') \cup Named(batch') \subseteq 1..w
    BY <1>2, <1>3 DEF Numbered
  <2> QED
    BY <2>1, <2>2 DEF NumberInv
<1>7. OrderInv'
  BY <1>1, <1>3 DEF RowsInv, OrderInv
<1>8. AbsentInv'
  BY <1>1, <1>3 DEF RowsInv, AbsentInv
<1> QED
  BY <1>5, <1>6, <1>7, <1>8 DEF RowsInv

-----------------------------------------------------------------------------
(* The shapes that a step leaves the held rows in.                         *)

LEMMA CutRows ==
  ASSUME NEW s \in Seq(RowType), NEW n \in 0..Len(s)
  PROVE  /\ SubSeq(s, 1, n) \in Seq(RowType) /\ SubSeq(s, n + 1, Len(s)) \in Seq(RowType)
         /\ Begins(SubSeq(s, 1, n), s)
         /\ SubSeq(s, 1, n) \o SubSeq(s, n + 1, Len(s)) = s
<1> DEFINE a == SubSeq(s, 1, n)
           z == SubSeq(s, n + 1, Len(s))
<1>1. /\ a \in Seq(RowType) /\ Len(a) = n
      /\ \A i \in 1..n : a[i] = s[i]
  BY SubSeqProperties
<1>2. /\ z \in Seq(RowType) /\ Len(z) = Len(s) - n
      /\ \A i \in 1..(Len(s) - n) : z[i] = s[n + i]
  BY SubSeqProperties
<1> HIDE DEF a, z
<1>3. a \o z = s
  <2>0. Len(s) \in Nat /\ n \in Nat /\ n <= Len(s) /\ Len(a) + Len(z) = Len(s)
    BY <1>1, <1>2
  <2>1. a \o z \in Seq(RowType) /\ Len(a \o z) = Len(s)
    BY <1>1, <1>2, <2>0, ConcatProperties
  <2>2. \A i \in 1..(Len(a) + Len(z)) : (a \o z)[i] = IF i <= Len(a) THEN a[i] ELSE z[i - Len(a)]
    BY <1>1, <1>2, ConcatProperties
  <2>3. ASSUME NEW i \in 1..Len(s) PROVE (a \o z)[i] = s[i]
    <3>1. (a \o z)[i] = IF i <= n THEN a[i] ELSE z[i - n]
      BY <1>1, <2>0, <2>2
    <3>2. CASE i <= n
      BY <1>1, <3>1, <3>2
    <3>3. CASE i > n
      <4>1. i - n \in 1..(Len(s) - n) /\ n + (i - n) = i
        BY <2>0, <3>3
      <4>2. z[i - n] = s[n + (i - n)]
        BY <1>2, <4>1
      <4> QED
        BY <2>0, <3>1, <3>3, <4>1, <4>2
    <3> QED
      BY <2>0, <3>2, <3>3
  <2> QED
    BY <2>1, <2>3, SeqEqual
<1>4. Begins(a, s)
  BY <1>1 DEF Begins
<1> QED
  BY <1>1, <1>2, <1>3, <1>4 DEF a, z

LEMMA SplitJoin ==
  ASSUME NEW s \in Seq(RowType), NEW a \in Seq(RowType), NEW z \in Seq(RowType)
  PROVE  (s \o a) \o z = s \o (a \o z)
BY ConcatAssociative

LEMMA NoRows == DOMAIN <<>> = {} /\ Named(<<>>) = {}
<1>1. \A x : x \notin DOMAIN <<>>
  OBVIOUS
<1>2. DOMAIN <<>> = {}
  BY <1>1
<1> QED
  BY <1>2, NamedIs

LEMMA JoinBegins ==
  ASSUME NEW s \in Seq(RowType), NEW t \in Seq(RowType), NEW p \in Seq(RowType), Begins(p, t)
  PROVE  Begins(s \o p, s \o t)
<1>1. /\ Len(s \o t) = Len(s) + Len(t) /\ Len(s \o p) = Len(s) + Len(p)
      /\ \A i \in 1..Len(s \o t) : (s \o t)[i] = IF i <= Len(s) THEN s[i] ELSE t[i - Len(s)]
      /\ \A i \in 1..Len(s \o p) : (s \o p)[i] = IF i <= Len(s) THEN s[i] ELSE p[i - Len(s)]
  BY ConcatProperties
<1>2. Len(p) <= Len(t) /\ \A i \in 1..Len(p) : p[i] = t[i]
  BY DEF Begins
<1>3. ASSUME NEW i \in 1..Len(s \o p) PROVE (s \o p)[i] = (s \o t)[i] /\ i \in 1..Len(s \o t)
  <2>1. i \in 1..Len(s \o t)
    BY <1>1, <1>2
  <2>2. i > Len(s) => i - Len(s) \in 1..Len(p)
    BY <1>1
  <2> QED
    BY <1>1, <1>2, <2>1, <2>2
<1> QED
  BY <1>1, <1>2, <1>3 DEF Begins

\* Nothing is taken from stored, and the buffer becomes empty: its start may be stored.
LEMMA BufferEnds ==
  ASSUME Types, pending' = <<>>, NEW p \in Seq(RowType), Begins(p, pending), stored' = stored \o p
  PROVE  Begins(Held', Held) /\ Named(stored) \subseteq Named(stored')
<1>1. stored \in Seq(RowType) /\ pending \in Seq(RowType)
  BY DEF Types
<1>2. Begins(stored \o p, stored \o pending)
  BY <1>1, JoinBegins
<1>3. Held' = stored \o p
  <2>1. stored \o p \in Seq(RowType)
    BY <1>1
  <2> QED
    BY <2>1, ConcatEmptySeq DEF Held
<1>4. Named(stored \o p) = Named(stored) \cup Named(p)
  BY <1>1, JoinedNames
<1> QED
  BY <1>2, <1>3, <1>4 DEF Held

LEMMA BufferLost ==
  ASSUME Types, pending' = <<>>, stored' = stored \/ stored' = <<>>
  PROVE  Begins(Held', Held)
<1>1. stored \in Seq(RowType) /\ pending \in Seq(RowType) /\ Held \in Seq(RowType)
  BY HeldTyped DEF Types
<1>2. CASE stored' = stored
  <2>1. Held' = stored
    BY <1>1, <1>2, ConcatEmptySeq DEF Held
  <2> QED
    BY <1>1, <2>1, Joined DEF Held
<1>3. CASE stored' = <<>>
  <2>1. Held' = <<>>
    BY <1>3 DEF Held
  <2> QED
    BY <1>1, <2>1, Begun
<1> QED
  BY <1>2, <1>3

LEMMA BufferSame == ASSUME Types, UNCHANGED <<stored, pending>> PROVE Begins(Held', Held)
<1>1. Held \in Seq(RowType) /\ Held' = Held
  BY HeldTyped DEF Held
<1> QED
  BY <1>1, Begun

LEMMA BufferGrows ==
  ASSUME Types, NEW k \in Seq(RowType), SameIds(k, batch),
         stored' = stored, pending' = pending \o k
  PROVE  Joins
<1>1. stored \in Seq(RowType) /\ pending \in Seq(RowType)
  BY DEF Types
<1>2. (stored \o pending) \o k = stored \o (pending \o k)
  BY <1>1, SplitJoin, SMTT(30)
<1> QED
  BY <1>2 DEF Joins, Held

\* The buffer's lines and the batch: what is not flushed stays in the buffer.
LEMMA BufferFlushed ==
  ASSUME Types, NEW k \in Seq(RowType), SameIds(k, batch), NEW n \in 0..Len(pending \o k),
         stored' = stored \o SubSeq(pending \o k, 1, n),
         pending' = SubSeq(pending \o k, n + 1, Len(pending \o k))
  PROVE  Joins /\ Named(stored) \subseteq Named(stored')
<1> DEFINE lines == pending \o k
           a == SubSeq(lines, 1, n)
           z == SubSeq(lines, n + 1, Len(lines))
<1>1. stored \in Seq(RowType) /\ pending \in Seq(RowType) /\ lines \in Seq(RowType)
  BY DEF Types
<1>2. (stored \o pending) \o k = stored \o lines
  BY <1>1, SplitJoin, SMTT(30)
<1> HIDE DEF lines
<1>3. a \in Seq(RowType) /\ z \in Seq(RowType) /\ a \o z = lines
  BY <1>1, CutRows DEF lines
<1>4. stored' = stored \o a /\ pending' = z
  BY DEF lines
<1> HIDE DEF a, z
<1>5. (stored \o a) \o z = stored \o lines
  BY <1>1, <1>3, SplitJoin
<1>6. Held' = Held \o k
  BY <1>2, <1>4, <1>5 DEF Held
<1>7. Named(stored \o a) = Named(stored) \cup Named(a)
  BY <1>1, <1>3, JoinedNames
<1> QED
  BY <1>4, <1>6, <1>7 DEF Joins

\* A database takes the batch at once.
LEMMA BatchStored ==
  ASSUME Types, NEW k \in Seq(RowType), SameIds(k, batch), pending = <<>>, pending' = <<>>,
         stored' = stored \o k
  PROVE  Joins /\ Named(stored') = Named(stored) \cup Named(batch)
<1>1. stored \in Seq(RowType) /\ batch \in Seq(RowType) /\ stored \o k \in Seq(RowType)
  BY DEF Types
<1>2. Held = stored /\ Held' = stored \o k
  BY <1>1, ConcatEmptySeq DEF Held
<1>3. Named(stored \o k) = Named(stored) \cup Named(batch)
  BY <1>1, JoinedNames, SameNames
<1> QED
  BY <1>2, <1>3 DEF Joins

\* The process dies: a write that was cut off may have stored its batch.
LEMMA RowsCrashed ==
  ASSUME Types, Types', RowsInv, UNCHANGED kind, batch' = <<>>, pc' \notin Writing, raised' = "no",
         Begins(Held', Held) \/ (Joins /\ pc \in Writing),
         \A i \in Samples :
           \/ fate'[i] = fate[i] /\ fate[i] # "under way"
           \/ fate[i] = "under way" /\ fate'[i] = "cut off"
           \/ fate[i] = "acked" /\ fate'[i] = "lost"
  PROVE  RowsInv'
<1> USE DEF RowsInv
<1>1. DOMAIN batch' = {} /\ Named(batch') = {}
  BY NoRows
<1>2. Named(Held') \subseteq Named(Held) \cup Named(batch)
  BY HeldStarts, JoinOrdered
<1>3. WriteInv'
  <2>1. Rising(batch')
    BY <1>1 DEF Rising
  <2>2. \A i \in Samples : fate'[i] # "under way"
    OBVIOUS
  <2> QED
    BY <1>1, <2>1, <2>2 DEF WriteInv
<1>4. NumberInv'
  <2>1. PICK w \in 0..MaxSamples :
          /\ \A i \in Samples : fate[i] # "unwritten" <=> i <= w
          /\ Named(Held) \cup Named(batch) \subseteq 1..w
    BY DEF NumberInv
  <2>2. \A i \in Samples : fate'[i] # "unwritten" <=> i <= w
    BY <2>1
  <2>3. Named(Held') \cup Named(batch') \subseteq 1..w
    BY <1>1, <1>2, <2>1
  <2> QED
    BY <2>2, <2>3 DEF NumberInv
<1>5. OrderInv'
  <2>1. Ordered(Held')
    BY HeldStarts, JoinOrdered DEF OrderInv
  <2>2. Ready(Held', batch')
    BY <1>1 DEF Ready
  <2> QED
    BY <2>1, <2>2 DEF OrderInv
<1>6. AbsentInv'
  <2>1. CASE kind \in {"sqlite", "memory"}
    <3>1. Named(batch) \subseteq Samples
      BY RowsTyped DEF Types
    <3>2. pc \in Writing => Named(Held) \cap Named(batch) = {} /\ \A i \in Named(batch) : fate[i] = "under way"
      BY <2>1, <3>1 DEF WriteInv, AbsentInv
    <3>3. Single(Held')
      BY <2>1, <3>2, HeldStarts, JoinOrdered DEF AbsentInv
    <3>4. \A i \in Samples : fate'[i] \in {"raised", "under way"} => fate[i] = "raised"
      OBVIOUS
    <3>5. \A i \in Samples : fate'[i] \in {"raised", "under way"} => i \notin Named(Held')
      BY <2>1, <3>2, <3>4, HeldStarts, JoinOrdered DEF AbsentInv
    <3> QED
      BY <3>3, <3>5 DEF AbsentInv
  <2>2. CASE kind \notin {"sqlite", "memory"}
    BY <2>2 DEF AbsentInv
  <2> QED
    BY <2>1, <2>2
<1> QED
  BY <1>3, <1>4, <1>5, <1>6

-----------------------------------------------------------------------------
(* open, and reading the table's columns.                                  *)

LEMMA InitHolds == Init => IInv
<1> SUFFICES ASSUME Init PROVE IInv
  OBVIOUS
<1>1. Types
  <2>1. table \in Schemas
    BY NoSchema, SinksAssumption DEF Init, Absent
  <2>2. schema \in Schemas
    BY NoSchema DEF Init, New, Unlocked
  <2>3. MaxOpens \in Nat
    BY SinksAssumption
  <2>4. kind \in Kinds /\ create \in BOOLEAN /\ handle = "none" /\ ready = FALSE /\ pc = "idle" /\ raised = "no"
    BY DEF Init, New, Kinds, Databases
  <2>5. opens \in 0..MaxOpens /\ scars = {}
    BY <2>3 DEF Init, New
  <2>6. batch \in Seq(RowType) /\ stored \in Seq(RowType) /\ pending \in Seq(RowType) /\ txn \in Seq(RowType)
    <3>1. <<>> \in Seq(RowType)
      OBVIOUS
    <3> QED
      BY <3>1 DEF Init
  <2>7. fate \in [Samples -> Fates]
    BY DEF Init, Fates
  <2> QED
    BY <2>1, <2>2, <2>4, <2>5, <2>6, <2>7 DEF Types
<1>2. MaxSamples \in Nat /\ Held = <<>>
  BY SinksAssumption DEF Init, Held
<1>3. DOMAIN <<>> = {} /\ Named(<<>>) = {}
  BY NoRows
<1>4. WriteInv
  BY <1>3 DEF Init, WriteInv, Rising, Writing
<1>5. NumberInv
  <2>1. \A i \in Samples : fate[i] # "unwritten" <=> i <= 0
    BY <1>2 DEF Init, Samples
  <2>2. 0 \in 0..MaxSamples
    BY <1>2
  <2> QED
    BY <1>2, <1>3, <2>1, <2>2 DEF Init, NumberInv
<1>6. OrderInv /\ AbsentInv
  BY <1>2, <1>3 DEF Init, OrderInv, AbsentInv, Ordered, Ready, Single
<1>7. AckedInv /\ TxnInv /\ PreparedInv
  BY DEF Init, AckedInv, TxnInv, PreparedInv, New, Locked, AssertionsExplained
<1> QED
  BY <1>1, <1>4, <1>5, <1>6, <1>7 DEF IInv, RowsInv

\* A step that leaves the rows and the write.
LEMMA AsideRows ==
  ASSUME IInv, Types', UNCHANGED <<kind, batch, raised, stored, pending, fate>>,
         pc' \in Writing <=> pc \in Writing
  PROVE  RowsInv' /\ AckedInv'
<1>1. Begins(Held', Held)
  BY BufferSame DEF IInv
<1>2. RowsInv'
  BY <1>1, RowsKept DEF IInv
<1>3. Held' = Held
  BY DEF Held
<1>4. AckedInv'
  BY <1>3 DEF IInv, AckedInv
<1> QED
  BY <1>2, <1>4

\* An open for writing.
LEMMA TruncatedRows ==
  ASSUME IInv, Types', UNCHANGED <<kind, batch, raised>>, Truncated,
         pc' \in Writing <=> pc \in Writing
  PROVE  RowsInv' /\ AckedInv'
<1>1. Begins(Held', Held)
  BY BufferLost DEF IInv, Truncated
<1>2. RowsInv'
  BY <1>1, RowsKept DEF IInv, Truncated
<1>3. \A i \in Samples : fate'[i] # "acked" /\ (fate'[i] \in {"lost", "dropped"} => fate[i] = fate'[i])
  BY DEF Truncated
<1>4. AckedInv'
  BY <1>3 DEF IInv, AckedInv
<1> QED
  BY <1>2, <1>4

LEMMA OpenKeeps == ASSUME IInv, Open PROVE IInv'
<1>1. /\ pc = "idle" /\ handle = "none" /\ opens' \in 0..MaxOpens
      /\ pc' \in {"idle", "introspect"} /\ handle' \in {"none", "open"}
      /\ UNCHANGED <<kind, create, schema, ready, batch, raised, scars, table, txn>>
  BY SinksAssumption DEF Open, OpenMemory, OpenFile, OpenParquet, OpenSqlite, OpenPostgres, Opened, disk, IInv, Types
<1>2. CASE UNCHANGED <<disk, fate>>
  <2>1. Types'
    BY <1>1, <1>2 DEF disk, IInv, Types, Locked
  <2> QED
    <3>1. RowsInv' /\ AckedInv'
      BY <1>1, <1>2, <2>1, AsideRows DEF disk, Writing
    <3>2. TxnInv'
      BY <1>1, <1>2 DEF disk, IInv, TxnInv
    <3>3. PreparedInv'
      BY <1>1 DEF Open, OpenMemory, OpenFile, OpenParquet, OpenSqlite, OpenPostgres, Opened, Databases,
                  IInv, PreparedInv, Locked, AssertionsExplained
    <3> QED
      BY <2>1, <3>1, <3>2, <3>3 DEF IInv
<1>3. CASE OpenFile
  <2>1. Types'
    <3>1. fate' \in [Samples -> Fates] /\ stored' = <<>> /\ pending' = <<>>
      BY <1>3 DEF OpenFile, Truncated, IInv, Types, Fates
    <3> QED
      BY <1>1, <3>1 DEF IInv, Types, Locked
  <2>2. RowsInv' /\ AckedInv'
    BY <1>1, <1>3, <2>1, TruncatedRows DEF OpenFile, Writing
  <2>3. TxnInv' /\ PreparedInv'
    BY <1>1, <1>3 DEF OpenFile, Opened, Databases, IInv, TxnInv, PreparedInv, Locked, AssertionsExplained
  <2> QED
    BY <2>1, <2>2, <2>3 DEF IInv
<1> QED
  BY <1>2, <1>3 DEF Open, OpenMemory, OpenParquet, OpenSqlite, OpenPostgres

LEMMA IntrospectKeeps == ASSUME IInv, IntrospectSqlite \/ IntrospectPostgres PROVE IInv'
<1>1. pc = "introspect" /\ pc' = "idle" /\ UNCHANGED <<kind, create, batch, raised, opens, disk, fate>>
  BY DEF IntrospectSqlite, IntrospectPostgres, Introspected, Unread
<1>2. \/ Introspected
      \/ Unread("none") /\ kind = "sqlite"
      \/ Unread(handle) /\ kind = "postgres"
  BY DEF IntrospectSqlite, IntrospectPostgres
<1>3. CASE Introspected
  <2>1. Types'
    BY <1>1, <1>3 DEF Introspected, disk, Locked, Absent, Unlocked, Writing, IInv, Types
  <2>2. RowsInv' /\ AckedInv'
    BY <1>1, <2>1, AsideRows DEF disk, Writing
  <2>3. TxnInv' /\ PreparedInv'
    BY <1>1, <1>3 DEF Introspected, disk, Locked, Absent, Unlocked, IInv, TxnInv, PreparedInv, AssertionsExplained
  <2> QED
    BY <2>1, <2>2, <2>3 DEF IInv
<1>4. ASSUME NEW h, Unread(h), h = handle \/ h = "none", kind = "sqlite" => h = "none" PROVE IInv'
  <2>1. Types'
    BY <1>1, <1>4 DEF Unread, disk, Locked, Writing, IInv, Types
  <2>2. RowsInv' /\ AckedInv'
    BY <1>1, <2>1, AsideRows DEF disk, Writing
  <2>3. TxnInv'
    BY <1>1 DEF disk, IInv, TxnInv
  <2>4. PreparedInv'
    BY <1>1, <1>4 DEF Unread, disk, Locked, IInv, PreparedInv, AssertionsExplained, Databases
  <2> QED
    BY <2>1, <2>2, <2>3, <2>4 DEF IInv
<1> QED
  BY <1>2, <1>3, <1>4


-----------------------------------------------------------------------------
(* write_many's first step, with the rows of an offer.                     *)

\* Acknowledged samples stay what they are, and their rows where they are.
LEMMA AckedKept ==
  ASSUME AckedInv, UNCHANGED kind, Named(stored) \subseteq Named(stored'), Named(Held) \subseteq Named(Held'),
         \A i \in Samples : fate'[i] \in {"acked", "lost", "dropped"} => fate'[i] = fate[i]
  PROVE  AckedInv'
<1>1. CASE kind \in {"memory", "parquet"}
  BY <1>1 DEF AckedInv
<1>2. CASE kind \notin {"memory", "parquet"}
  BY <1>2 DEF AckedInv
<1> QED
  BY <1>1, <1>2

LEMMA StartedRows ==
  ASSUME IInv, handle = "open", pc = "idle",
         UNCHANGED <<kind, create, handle, scars, opens, stored, pending, txn>>,
         NEW rows \in Offers, Named(rows) \subseteq Samples,
         NEW next \in {"create", "insert"}, NEW columns \in Schemas, Start(rows, next, columns),
         table' \in Schemas, ready' \in BOOLEAN,
         ready' \/ next = "create" => columns # Unlocked
  PROVE  Types' /\ RowsInv' /\ TxnInv' /\ AckedInv'
<1>1. rows \in Seq(RowType)
  BY OfferFits DEF IInv
<1>2. /\ pc' = next /\ batch' = rows /\ raised' = "no" /\ schema' = columns
      /\ fate' = [i \in Samples |-> IF i \in Named(rows) THEN "under way" ELSE fate[i]]
  BY DEF Start
<1>3. fate' \in [Samples -> Fates]
  BY <1>2 DEF IInv, Types, Fates
<1>4. Types'
  BY <1>1, <1>2, <1>3 DEF IInv, Types, Writing, Locked
<1>5. RowsInv'
  BY <1>2, <1>4, RowsOffered DEF IInv, Writing
<1>6. TxnInv'
  BY <1>2 DEF IInv, TxnInv
<1>7. AckedInv'
  <2>1. \A i \in Samples : fate'[i] \in {"acked", "lost", "dropped"} => fate'[i] = fate[i]
    BY <1>2
  <2>2. Held' = Held
    BY DEF Held
  <2> QED
    BY <2>1, <2>2, AckedKept DEF IInv
<1> QED
  BY <1>4, <1>5, <1>6, <1>7

LEMMA RefusedRows ==
  ASSUME IInv, handle = "open", pc = "idle",
         UNCHANGED <<kind, create, handle, scars, opens, stored, pending, txn, ready, table>>,
         NEW rows \in Offers, Named(rows) \subseteq Samples, Assertion(rows)
  PROVE  Types' /\ RowsInv' /\ TxnInv' /\ AckedInv'
<1>1. rows \in Seq(RowType)
  BY OfferFits DEF IInv
<1>2. /\ pc' = "idle" /\ batch' = rows /\ raised' = "assert" /\ schema' = schema
      /\ fate' = [i \in Samples |-> IF i \in Named(rows) THEN "raised" ELSE fate[i]]
  BY DEF Assertion, Refuse
<1>3. fate' \in [Samples -> Fates]
  BY <1>2 DEF IInv, Types, Fates
<1>4. Types'
  BY <1>1, <1>2, <1>3 DEF IInv, Types, Writing, Locked
<1>5. RowsInv'
  BY <1>2, <1>4, RowsOffered DEF IInv, Writing
<1>6. TxnInv'
  BY <1>2 DEF IInv, TxnInv
<1>7. AckedInv'
  <2>1. \A i \in Samples : fate'[i] \in {"acked", "lost", "dropped"} => fate'[i] = fate[i]
    BY <1>2
  <2>2. Held' = Held
    BY DEF Held
  <2> QED
    BY <2>1, <2>2, AckedKept DEF IInv
<1> QED
  BY <1>4, <1>5, <1>6, <1>7

LEMMA WriteKeeps == ASSUME IInv, Write PROVE IInv'
<1>1. /\ pc = "idle" /\ handle = "open"
      /\ UNCHANGED <<kind, create, handle, scars, opens, stored, pending, txn>>
  BY DEF Write
<1>2. PICK rows \in Offers :
        /\ Named(rows) \subseteq Samples
        /\ \/ StartPlain(rows) \/ StartCsv(rows)
           \/ StartSqlite(rows) \/ StartParquet(rows) \/ StartPostgres(rows)
  BY DEF Write
<1>3. rows \in Seq(RowType) /\ rows # <<>>
  BY <1>2, OfferFits DEF IInv
<1>4. schema \in Schemas /\ table \in Schemas /\ ready \in BOOLEAN /\ (ready => schema # Unlocked)
  BY DEF IInv, Types, Locked
<1>5. Inferred(rows) \in Schemas /\ Inferred(rows) # Unlocked
  BY <1>3, InferredTyped, FullSchema DEF Unlocked
<1>6. CASE StartPlain(rows)
  <2>1. Types' /\ RowsInv' /\ TxnInv' /\ AckedInv'
    BY <1>1, <1>2, <1>4, <1>6, StartedRows DEF StartPlain
  <2>2. PreparedInv'
    BY <1>1, <1>6 DEF StartPlain, Start, PreparedInv, AssertionsExplained, Databases
  <2> QED
    BY <2>1, <2>2 DEF IInv
<1>7. CASE StartCsv(rows)
  <2> DEFINE columns == IF ready THEN schema ELSE [c \in DOMAIN rows[1].cells |-> "str"]
  <2>1. columns \in Schemas /\ columns # Unlocked
    <3>1. rows[1] \in RowType
      BY <1>3
    <3>2. DOMAIN rows[1].cells = Columns
      BY <3>1 DEF RowType
    <3>3. [c \in Columns |-> "str"] \in [Columns -> {"float", "int", "str"}]
      OBVIOUS
    <3>4. [c \in Columns |-> "str"] \in Schemas /\ [c \in Columns |-> "str"] # Unlocked
      BY <3>3, FullSchema DEF Unlocked
    <3> QED
      BY <1>4, <3>2, <3>4
  <2>2. Start(rows, "insert", columns) /\ table' = columns /\ ready' = TRUE
    BY <1>7 DEF StartCsv
  <2> HIDE DEF columns
  <2>3. Types' /\ RowsInv' /\ TxnInv' /\ AckedInv'
    BY <1>1, <1>2, <2>1, <2>2, StartedRows
  <2>4. PreparedInv'
    BY <1>1, <1>7, <2>2 DEF StartCsv, Start, PreparedInv, AssertionsExplained, Databases
  <2> QED
    BY <2>3, <2>4 DEF IInv
<1>8. CASE StartSqlite(rows)
  <2>1. CASE Start(rows, "create", Inferred(rows)) /\ ~Locked /\ create
    <3>1. Types' /\ RowsInv' /\ TxnInv' /\ AckedInv'
      BY <1>1, <1>2, <1>4, <1>5, <1>8, <2>1, StartedRows DEF StartSqlite
    <3>2. PreparedInv'
      BY <1>1, <1>8, <2>1 DEF StartSqlite, Start, PreparedInv, AssertionsExplained, Databases
    <3> QED
      BY <3>1, <3>2 DEF IInv
  <2>2. CASE Start(rows, "insert", schema) /\ ready
    <3>1. Types' /\ RowsInv' /\ TxnInv' /\ AckedInv'
      BY <1>1, <1>2, <1>4, <1>8, <2>2, StartedRows DEF StartSqlite
    <3>2. PreparedInv'
      BY <1>1, <1>8, <2>2 DEF StartSqlite, Start, PreparedInv, AssertionsExplained, Databases
    <3> QED
      BY <3>1, <3>2 DEF IInv
  <2>3. CASE Assertion(rows) /\ ~ready /\ ~(~Locked /\ create)
    <3>1. Types' /\ RowsInv' /\ TxnInv' /\ AckedInv'
      BY <1>1, <1>2, <1>8, <2>3, RefusedRows DEF StartSqlite
    <3>2. PreparedInv'
      BY <1>1, <1>8, <2>3 DEF StartSqlite, Assertion, Refuse, PreparedInv, AssertionsExplained,
                              Databases, IInv, Types, Locked
    <3> QED
      BY <3>1, <3>2 DEF IInv
  <2> QED
    BY <1>8, <2>1, <2>2, <2>3 DEF StartSqlite
<1>9. CASE StartParquet(rows)
  <2>1. CASE Start(rows, "create", Inferred(rows)) /\ ~Locked
    <3>1. Types' /\ RowsInv' /\ TxnInv' /\ AckedInv'
      BY <1>1, <1>2, <1>4, <1>5, <1>9, <2>1, StartedRows DEF StartParquet
    <3>2. PreparedInv'
      BY <1>1, <1>9, <2>1 DEF StartParquet, Start, PreparedInv, AssertionsExplained, Databases
    <3> QED
      BY <3>1, <3>2 DEF IInv
  <2>2. CASE Start(rows, "insert", schema) /\ ready
    <3>1. Types' /\ RowsInv' /\ TxnInv' /\ AckedInv'
      BY <1>1, <1>2, <1>4, <1>9, <2>2, StartedRows DEF StartParquet
    <3>2. PreparedInv'
      BY <1>1, <1>9, <2>2 DEF StartParquet, Start, PreparedInv, AssertionsExplained, Databases
    <3> QED
      BY <3>1, <3>2 DEF IInv
  <2>3. CASE Assertion(rows) /\ ~ready /\ Locked
    <3>1. Types' /\ RowsInv' /\ TxnInv' /\ AckedInv'
      BY <1>1, <1>2, <1>9, <2>3, RefusedRows DEF StartParquet
    <3>2. PreparedInv'
      BY <1>1, <1>9, <2>3 DEF StartParquet, Assertion, Refuse, PreparedInv, AssertionsExplained,
                              Databases, IInv, Types, Locked
    <3> QED
      BY <3>1, <3>2 DEF IInv
  <2> QED
    BY <1>9, <2>1, <2>2, <2>3 DEF StartParquet
<1>10. CASE StartPostgres(rows)
  <2>1. CASE Start(rows, "create", Inferred(rows)) /\ ~Locked /\ create
    <3>1. Types' /\ RowsInv' /\ TxnInv' /\ AckedInv'
      BY <1>1, <1>2, <1>4, <1>5, <1>10, <2>1, StartedRows DEF StartPostgres
    <3>2. PreparedInv'
      BY <1>1, <1>10, <2>1 DEF StartPostgres, Start, PreparedInv, AssertionsExplained, Databases
    <3> QED
      BY <3>1, <3>2 DEF IInv
  <2>2. CASE Start(rows, "insert", schema) /\ ready
    <3>1. Types' /\ RowsInv' /\ TxnInv' /\ AckedInv'
      BY <1>1, <1>2, <1>4, <1>10, <2>2, StartedRows DEF StartPostgres
    <3>2. PreparedInv'
      BY <1>1, <1>4, <1>10, <2>2 DEF StartPostgres, Start, PreparedInv, AssertionsExplained, Databases, Locked
    <3> QED
      BY <3>1, <3>2 DEF IInv
  <2>3. CASE Assertion(rows) /\ ~ready /\ (Locked \/ ~create)
    <3>1. Types' /\ RowsInv' /\ TxnInv' /\ AckedInv'
      BY <1>1, <1>2, <1>10, <2>3, RefusedRows DEF StartPostgres
    <3>2. PreparedInv'
      BY <1>1, <1>10, <2>3 DEF StartPostgres, Assertion, Refuse, PreparedInv, AssertionsExplained,
                               Databases, IInv, Types, Locked
    <3> QED
      BY <3>1, <3>2 DEF IInv
  <2> QED
    BY <1>4, <1>10, <2>1, <2>2, <2>3 DEF StartPostgres, Locked
<1> QED
  BY <1>2, <1>6, <1>7, <1>8, <1>9, <1>10

-----------------------------------------------------------------------------
(* write_many's other steps: it raises, returns, or goes on.               *)

LEMMA RaisedKeeps ==
  ASSUME IInv, pc \in Writing, Refuse("error", batch),
         UNCHANGED <<kind, create, handle, schema, ready, opens>>,
         scars' \in {scars, scars \cup {"create"}}, pc = "create" => "create" \in scars',
         table' \in Schemas,
         stored' \in Seq(RowType), pending' \in Seq(RowType), txn' \in Seq(RowType),
         kind \in Databases => pending' = <<>>,
         Named(stored) \subseteq Named(stored'),
         Held' = Held \/ (Joins /\ kind \notin {"sqlite", "memory"})
  PROVE  IInv'
<1>1. /\ pc' = "idle" /\ batch' = batch /\ raised' = "error"
      /\ fate' = [i \in Samples |-> IF i \in Named(batch) THEN "raised" ELSE fate[i]]
  BY DEF Refuse
<1>2. Types'
  <2>1. fate' \in [Samples -> Fates]
    BY <1>1 DEF IInv, Types, Fates
  <2>2. scars' \subseteq {"introspect", "create", "closed"}
    BY DEF IInv, Types
  <2> QED
    BY <1>1, <2>1, <2>2 DEF IInv, Types, Locked
<1>3. Begins(Held', Held) \/ (Joins /\ kind \notin {"sqlite", "memory"})
  BY HeldTyped, Begun DEF IInv
<1>4. RowsInv'
  BY <1>2, <1>3, RowsRaised DEF IInv
<1>5. TxnInv'
  BY <1>1 DEF TxnInv
<1>6. AckedInv'
  <2>1. \A i \in Samples : fate'[i] \in {"acked", "lost", "dropped"} => fate'[i] = fate[i]
    BY <1>1
  <2>2. Named(Held) \subseteq Named(Held')
    BY JoinOrdered DEF IInv
  <2> QED
    BY <2>1, <2>2, AckedKept DEF IInv
<1>7. PreparedInv'
  <2>1. pc # "introspect" /\ scars \subseteq scars'
    BY DEF Writing
  <2> QED
    BY <1>1, <2>1 DEF IInv, PreparedInv, Locked, AssertionsExplained
<1> QED
  BY <1>2, <1>4, <1>5, <1>6, <1>7 DEF IInv

LEMMA ReturnedKeeps ==
  ASSUME IInv, pc \in {"insert", "commit"}, Return, table' = table,
         stored' \in Seq(RowType), pending' \in Seq(RowType), txn' \in Seq(RowType),
         kind \in Databases => pending' = <<>>,
         Joins, Named(stored) \subseteq Named(stored'),
         kind \notin {"memory", "parquet"} => Named(batch) \subseteq Named(stored')
  PROVE  IInv'
<1>1. /\ pc' = "idle" /\ raised' = "no" /\ batch' = batch
      /\ UNCHANGED <<kind, create, handle, schema, ready, scars, opens>>
      /\ fate' = [i \in Samples |-> IF i \in Named(batch) THEN "acked" ELSE fate[i]]
  BY DEF Return, Settle, object
<1>2. Types'
  <2>1. fate' \in [Samples -> Fates]
    BY <1>1 DEF IInv, Types, Fates
  <2> QED
    BY <1>1, <2>1 DEF IInv, Types, Locked
<1>3. RowsInv'
  BY <1>2, RowsReturned DEF IInv, Writing
<1>4. TxnInv'
  BY <1>1 DEF TxnInv
<1>5. AckedInv'
  <2>1. Named(Held') = Named(Held) \cup Named(batch)
    BY JoinOrdered DEF IInv
  <2>2. ASSUME NEW i \in Samples, fate'[i] = "acked"
        PROVE  i \in Named(IF kind' \in {"memory", "parquet"} THEN Held' ELSE stored')
    <3>1. i \in Named(batch) \/ fate[i] = "acked"
      BY <1>1, <2>2
    <3>2. CASE kind \in {"memory", "parquet"}
      BY <1>1, <2>1, <3>1, <3>2 DEF IInv, AckedInv
    <3>3. CASE kind \notin {"memory", "parquet"}
      BY <1>1, <3>1, <3>3 DEF IInv, AckedInv
    <3> QED
      BY <3>2, <3>3
  <2>3. \A i \in Samples : fate'[i] \in {"lost", "dropped"} => fate[i] = fate'[i]
    BY <1>1
  <2>4. CASE kind \in {"memory", "parquet"}
    BY <1>1, <2>2, <2>3, <2>4 DEF IInv, AckedInv
  <2>5. CASE kind \notin {"memory", "parquet"}
    BY <1>1, <2>2, <2>3, <2>5 DEF IInv, AckedInv
  <2> QED
    BY <2>4, <2>5
<1>6. PreparedInv'
  BY <1>1 DEF IInv, PreparedInv, Locked, AssertionsExplained
<1> QED
  BY <1>2, <1>3, <1>4, <1>5, <1>6 DEF IInv

LEMMA CreateKeeps == ASSUME IInv, CreateSqlite \/ CreatePostgres \/ OpenWriter PROVE IInv'
<1>1. Types /\ schema \in Schemas /\ table \in Schemas /\ Existing \in Schemas
  BY DEF IInv, Types, Existing
<1>2. ASSUME NEW columns \in Schemas, Created(columns), kind \in {"sqlite", "postgres", "parquet"},
             stored' \in Seq(RowType), pending' \in Seq(RowType), fate' \in [Samples -> Fates]
      PROVE  Types' /\ PreparedInv'
  <2>1. /\ pc = "create" /\ handle = "open" /\ table' = columns /\ ready' = TRUE /\ pc' = "insert"
        /\ UNCHANGED <<kind, create, handle, schema, batch, raised, scars, opens, txn>>
    BY <1>2 DEF Created
  <2>2. Types'
    BY <1>1, <1>2, <2>1 DEF Types, Writing, Locked
  <2>3. PreparedInv'
    BY <2>1 DEF IInv, PreparedInv, Locked, AssertionsExplained
  <2> QED
    BY <2>2, <2>3
<1>3. CASE \/ kind \in Databases /\ Created(Existing) /\ UNCHANGED <<stored, pending, fate>>
  <2>1. Types' /\ PreparedInv'
    BY <1>1, <1>2, <1>3 DEF Databases, Types
  <2>2. RowsInv' /\ AckedInv'
    BY <1>3, <2>1, AsideRows DEF Created, Writing
  <2>3. TxnInv'
    BY <1>3 DEF Created, IInv, TxnInv
  <2> QED
    BY <2>1, <2>2, <2>3 DEF IInv
<1>4. CASE kind = "parquet" /\ Created(schema) /\ Truncated
  <2>0. <<>> \in Seq(RowType)
    OBVIOUS
  <2>1. fate' \in [Samples -> Fates] /\ stored' \in Seq(RowType) /\ pending' \in Seq(RowType)
    BY <1>1, <1>4, <2>0 DEF Truncated, Types, Fates
  <2>2. Types' /\ PreparedInv'
    BY <1>1, <1>2, <1>4, <2>1
  <2>3. RowsInv' /\ AckedInv'
    BY <1>4, <2>2, TruncatedRows DEF Created, Writing
  <2>4. TxnInv'
    BY <1>4 DEF Created, TxnInv, Databases
  <2> QED
    BY <2>2, <2>3, <2>4 DEF IInv
<1>5. CASE Uncreated({table}) \/ Uncreated({table, Existing})
  <2>1. /\ pc = "create" /\ table' \in {table, Existing} /\ scars' = scars \cup {"create"}
        /\ Refuse("error", batch)
        /\ UNCHANGED <<kind, create, handle, schema, ready, opens, stored, pending, txn>>
    BY <1>5 DEF Uncreated
  <2>2. Held' = Held
    BY <2>1 DEF Held
  <2>3. kind \in Databases => pending' = <<>>
    BY <2>1 DEF IInv, TxnInv
  <2> QED
    BY <1>1, <2>1, <2>2, <2>3, RaisedKeeps DEF Types, Writing
<1> QED
  BY <1>3, <1>4, <1>5 DEF CreateSqlite, CreatePostgres, OpenWriter, Databases

LEMMA FlushKeeps == ASSUME IInv, Flush PROVE IInv'
<1> DEFINE k == Kept(batch)
           lines == pending \o k
<1>1. /\ pc = "insert" /\ kind \in {"csv", "jsonl"} /\ UNCHANGED <<table, txn>>
      /\ \/ stored' = stored \o lines /\ pending' = <<>> /\ Return
         \/ \E n \in 0..(Len(lines) - 1) :
              stored' = stored \o SubSeq(lines, 1, n) /\ pending' = SubSeq(lines, n + 1, Len(lines)) /\ Fail
  BY DEF Flush
<1>2. k \in Seq(RowType) /\ SameIds(k, batch)
  BY <1>1, KeptTyped DEF IInv, Types
<1> HIDE DEF k
<1>3. stored \in Seq(RowType) /\ pending \in Seq(RowType) /\ txn \in Seq(RowType) /\ batch \in Seq(RowType)
      /\ table \in Schemas
  BY DEF IInv, Types
<1>4. lines \in Seq(RowType) /\ Len(lines) \in Nat /\ Named(lines) = Named(pending) \cup Named(batch)
  BY <1>2, <1>3, JoinedNames, SameNames
<1>5. kind \notin Databases /\ kind \notin {"sqlite", "memory", "parquet"}
  BY <1>1 DEF Databases
<1>6. CASE stored' = stored \o lines /\ pending' = <<>> /\ Return
  <2>1. (stored \o pending) \o k = stored \o (pending \o k)
    BY <1>2, <1>3, SplitJoin, SMTT(30)
  <2>2. Named(stored') = Named(stored) \cup Named(lines) /\ stored' \in Seq(RowType) /\ pending' \in Seq(RowType)
    <3> HIDE DEF lines
    <3>1. stored \o lines \in Seq(RowType) /\ Named(stored \o lines) = Named(stored) \cup Named(lines)
      BY <1>3, <1>4, Joined, JoinedNames
    <3>2. <<>> \in Seq(RowType)
      OBVIOUS
    <3> QED
      BY <1>6, <3>1, <3>2
  <2>3. Joins
    <3>1. Held' = Held \o k
      BY <1>6, <2>1, <2>2, ConcatEmptySeq DEF Held
    <3> QED
      BY <1>2, <3>1 DEF Joins
  <2> QED
    BY <1>1, <1>3, <1>4, <1>5, <1>6, <2>2, <2>3, ReturnedKeeps
<1>7. ASSUME NEW n \in 0..(Len(lines) - 1), stored' = stored \o SubSeq(lines, 1, n),
             pending' = SubSeq(lines, n + 1, Len(lines)), Fail
      PROVE  IInv'
  <2>1. n \in 0..Len(lines)
    BY <1>4
  <2>2. Joins /\ Named(stored) \subseteq Named(stored')
    BY <1>2, <1>7, <2>1, BufferFlushed DEF IInv
  <2>3. SubSeq(lines, 1, n) \in Seq(RowType) /\ SubSeq(lines, n + 1, Len(lines)) \in Seq(RowType)
    BY <1>4, <2>1, CutRows
  <2>4. stored' \in Seq(RowType) /\ pending' \in Seq(RowType)
    BY <1>3, <1>7, <2>3
  <2> QED
    BY <1>1, <1>3, <1>5, <1>7, <2>2, <2>4, RaisedKeeps DEF Fail, object, Writing
<1> QED
  BY <1>1, <1>6, <1>7

\* memory, and a row group of parquet: the batch joins what is pending.
LEMMA PendingKeeps ==
  ASSUME IInv, pc = "insert", kind \in {"memory", "parquet"}, kind = "memory" \/ Fits(batch),
         pending' = pending \o Kept(batch), UNCHANGED <<table, stored, txn>>,
         Return \/ (Fail /\ kind = "parquet")
  PROVE  IInv'
<1> DEFINE k == Kept(batch)
<1>1. k \in Seq(RowType) /\ SameIds(k, batch)
  BY KeptTyped DEF IInv, Types
<1> HIDE DEF k
<1>2. pending' = pending \o k
  BY DEF k
<1>3. stored \in Seq(RowType) /\ pending \in Seq(RowType) /\ txn \in Seq(RowType) /\ table \in Schemas
  BY DEF IInv, Types
<1>4. Joins
  BY <1>1, <1>2, BufferGrows DEF IInv
<1>5. pending' \in Seq(RowType) /\ kind \notin Databases
  BY <1>1, <1>2, <1>3 DEF Databases
<1>6. CASE Return
  BY <1>3, <1>4, <1>5, <1>6, ReturnedKeeps
<1>7. CASE Fail /\ kind = "parquet"
  BY <1>3, <1>4, <1>5, <1>7, RaisedKeeps DEF Fail, object, Writing
<1> QED
  BY <1>6, <1>7

\* A write that raises and changes nothing that is held.
LEMMA FailKeeps ==
  ASSUME IInv, pc \in {"insert", "commit"}, Fail, UNCHANGED <<table, stored, pending>>, txn' \in {<<>>, txn}
  PROVE  IInv'
<1>1. Held' = Held
  BY DEF Held
<1>0. <<>> \in Seq(RowType)
  OBVIOUS
<1>2. stored \in Seq(RowType) /\ pending \in Seq(RowType) /\ txn' \in Seq(RowType) /\ table \in Schemas
  BY <1>0 DEF IInv, Types
<1>3. kind \in Databases => pending' = <<>>
  BY DEF IInv, TxnInv
<1> QED
  BY <1>1, <1>2, <1>3, RaisedKeeps DEF Fail, object, Writing

LEMMA PlainKeeps == ASSUME IInv, Remember \/ WriteTable PROVE IInv'
<1>1. CASE Remember
  BY <1>1, PendingKeeps DEF Remember
<1>2. CASE WriteTable
  <2>1. \/ Fits(batch) /\ pending' = pending \o Kept(batch) /\ Return
        \/ pending' = pending /\ Fail
        \/ Fits(batch) /\ pending' = pending \o Kept(batch) /\ Fail
    BY <1>2 DEF WriteTable
  <2>2. pc = "insert" /\ kind = "parquet" /\ UNCHANGED <<table, stored, txn>>
    BY <1>2 DEF WriteTable
  <2> QED
    BY <2>1, <2>2, PendingKeeps, FailKeeps
<1> QED
  BY <1>1, <1>2

\* The databases: a transaction or a COPY takes the batch at once.
LEMMA BatchKeeps ==
  ASSUME IInv, pc \in {"insert", "commit"}, kind \in Databases, NEW k \in Seq(RowType), SameIds(k, batch),
         stored' = stored \o k, UNCHANGED <<table, pending>>, txn' \in {<<>>, txn},
         Return \/ (Fail /\ kind = "postgres")
  PROVE  IInv'
<1>1. pending = <<>> /\ pending' = <<>>
  BY DEF IInv, TxnInv
<1>2. Joins /\ Named(stored') = Named(stored) \cup Named(batch)
  BY <1>1, BatchStored DEF IInv
<1>0. <<>> \in Seq(RowType) /\ stored \o k \in Seq(RowType)
  BY DEF IInv, Types
<1>3. stored' \in Seq(RowType) /\ pending' \in Seq(RowType) /\ txn' \in Seq(RowType) /\ table \in Schemas
  BY <1>0, <1>1 DEF IInv, Types
<1>4. CASE Return
  BY <1>1, <1>2, <1>3, <1>4, ReturnedKeeps
<1>5. CASE Fail /\ kind = "postgres"
  BY <1>1, <1>2, <1>3, <1>5, RaisedKeeps DEF Fail, object, Writing
<1> QED
  BY <1>4, <1>5

LEMMA InsertKeeps == ASSUME IInv, Insert PROVE IInv'
<1>1. pc = "insert" /\ kind = "sqlite" /\ UNCHANGED <<table, stored, pending>>
  BY DEF Insert
<1>2. CASE txn' \in {<<>>, txn} /\ Fail
  BY <1>1, <1>2, FailKeeps
<1>3. CASE /\ handle = "open" /\ Fits(batch) /\ txn' = Kept(batch) /\ pc' = "commit"
           /\ UNCHANGED <<kind, create, object, batch, raised, opens, fate>>
  <2>1. Kept(batch) \in Seq(RowType) /\ SameIds(Kept(batch), batch)
    BY <1>3, KeptTyped DEF IInv, Types
  <2>2. Types'
    BY <1>1, <1>3, <2>1 DEF object, IInv, Types, Writing, Locked
  <2>3. RowsInv' /\ AckedInv'
    BY <1>1, <1>3, <2>2, AsideRows DEF Writing
  <2>4. TxnInv'
    BY <1>1, <1>3, <2>1 DEF object, IInv, TxnInv, SameIds
  <2>5. PreparedInv'
    BY <1>1, <1>3 DEF object, IInv, PreparedInv, Locked, AssertionsExplained
  <2> QED
    BY <2>2, <2>3, <2>4, <2>5 DEF IInv
<1> QED
  BY <1>2, <1>3 DEF Insert

LEMMA CommitKeeps == ASSUME IInv, Commit PROVE IInv'
<1>1. pc = "commit" /\ kind = "sqlite" /\ UNCHANGED <<table, pending>> /\ txn \in Seq(RowType)
  BY DEF Commit, IInv, TxnInv, Types
<1>2. CASE handle = "open" /\ stored' = stored \o txn /\ txn' = <<>> /\ Return
  <2>1. SameIds(txn, batch)
    BY <1>1, <1>2 DEF IInv, TxnInv
  <2> QED
    BY <1>1, <1>2, <2>1, BatchKeeps DEF Databases
<1>3. CASE txn' \in {<<>>, txn} /\ Fail /\ UNCHANGED stored
  BY <1>1, <1>3, FailKeeps
<1> QED
  BY <1>2, <1>3 DEF Commit

LEMMA CopyKeeps == ASSUME IInv, Copy \/ Cancel PROVE IInv'
<1>1. CASE Copy
  <2>1. pc = "insert" /\ kind = "postgres" /\ UNCHANGED <<table, pending, txn>>
    BY <1>1 DEF Copy
  <2>2. CASE Fits(batch) /\ stored' = stored \o Kept(batch) /\ (Return \/ Fail)
    <3>1. Kept(batch) \in Seq(RowType) /\ SameIds(Kept(batch), batch)
      BY <2>2, KeptTyped DEF IInv, Types
    <3> QED
      BY <2>1, <2>2, <3>1, BatchKeeps DEF Databases
  <2>3. CASE stored' = stored /\ Fail
    BY <2>1, <2>3, FailKeeps
  <2> QED
    BY <1>1, <2>2, <2>3 DEF Copy
<1>2. CASE Cancel
  BY <1>2, FailKeeps DEF Cancel, disk
<1> QED
  BY <1>1, <1>2

-----------------------------------------------------------------------------
(* close, and the end of the process.                                      *)

\* A close leaves the rows in the order they were, or drops the end of them.
LEMMA ClosedKeeps ==
  ASSUME IInv, CloseHandle, handle = "open",
         handle' \in {"none", "open", "dead"}, ready' \in BOOLEAN, ready' => ready,
         handle' = "open" => kind = "parquet",
         handle' = "dead" => kind \in {"csv", "jsonl"},
         ready' # ready => kind \in {"csv", "jsonl", "parquet"},
         stored' \in Seq(RowType), pending' \in Seq(RowType), txn' \in Seq(RowType),
         kind \in Databases => pending' = <<>>, txn' \in {txn, <<>>},
         Begins(Held', Held), AckedInv',
         fate' \in [Samples -> Fates],
         \A i \in Samples : fate'[i] = fate[i] \/ (fate[i] = "acked" /\ fate'[i] = "dropped")
  PROVE  IInv'
<1>1. /\ UNCHANGED <<kind, create, schema, table, opens, pc, batch, raised>>
      /\ scars' = scars \cup {"closed"}
  BY DEF CloseHandle
<1>2. Types'
  <2>1. ready' \in BOOLEAN /\ (ready' => ready) /\ scars' \subseteq {"introspect", "create", "closed"}
    BY <1>1 DEF IInv, Types
  <2>2. txn' \in Seq(RowType) /\ batch' \in Seq(RowType)
    BY <1>1 DEF IInv, Types
  <2> QED
    BY <1>1, <2>1, <2>2 DEF IInv, Types, Locked
<1>3. RowsInv'
  BY <1>1, <1>2, RowsKept DEF IInv
<1>4. TxnInv'
  BY <1>1 DEF IInv, TxnInv, Databases
<1>5. PreparedInv'
  BY <1>1 DEF IInv, PreparedInv, Locked, AssertionsExplained, Databases
<1> QED
  BY <1>2, <1>3, <1>4, <1>5 DEF IInv

LEMMA CloseFileKeeps == ASSUME IInv, CloseHandle, handle = "open", CloseFile PROVE IInv'
<1>1. /\ stored \in Seq(RowType) /\ pending \in Seq(RowType) /\ txn \in Seq(RowType) /\ <<>> \in Seq(RowType)
      /\ Len(pending) \in Nat /\ ready \in BOOLEAN
  BY DEF IInv, Types
<1>2. /\ kind \in {"csv", "jsonl"} /\ pending' = <<>> /\ UNCHANGED <<txn, fate, kind>>
      /\ \/ stored' = stored \o pending /\ handle' = "none" /\ ready' = FALSE
         \/ /\ \E n \in 0..Len(pending) : stored' = stored \o SubSeq(pending, 1, n)
            /\ handle' = "dead" /\ ready' = ready
  BY DEF CloseFile, CloseHandle
<1>3. PICK p \in Seq(RowType) : stored' = stored \o p /\ Begins(p, pending)
  <2>1. CASE stored' = stored \o pending
    BY <1>1, <2>1, Begun
  <2>2. ASSUME NEW n \in 0..Len(pending), stored' = stored \o SubSeq(pending, 1, n)
        PROVE  \E p \in Seq(RowType) : stored' = stored \o p /\ Begins(p, pending)
    BY <1>1, <2>2, CutRows
  <2> QED
    BY <1>2, <2>1, <2>2
<1>4. Begins(Held', Held) /\ Named(stored) \subseteq Named(stored')
  BY <1>2, <1>3, BufferEnds DEF IInv
<1>5. stored' \in Seq(RowType) /\ pending' \in Seq(RowType)
  BY <1>1, <1>2, <1>3
<1>6. AckedInv'
  BY <1>2, <1>4 DEF IInv, AckedInv
<1>7. kind \notin Databases /\ fate' \in [Samples -> Fates]
  BY <1>2 DEF Databases, IInv, Types
<1>8. handle' \in {"none", "dead"} /\ ready' \in BOOLEAN /\ (ready' => ready)
  <2>1. CASE handle' = "none" /\ ready' = FALSE
    BY <2>1
  <2>2. CASE handle' = "dead" /\ ready' = ready
    BY <1>1, <2>2
  <2> QED
    BY <1>2, <2>1, <2>2
<1> QED
  BY <1>1, <1>2, <1>4, <1>5, <1>6, <1>7, <1>8, ClosedKeeps

LEMMA CloseParquetKeeps == ASSUME IInv, CloseHandle, handle = "open", CloseParquet PROVE IInv'
<1>1. stored \in Seq(RowType) /\ pending \in Seq(RowType) /\ txn \in Seq(RowType) /\ <<>> \in Seq(RowType)
      /\ fate \in [Samples -> Fates]
  BY DEF IInv, Types
<1>2. /\ kind = "parquet" /\ pending' = <<>> /\ ready' = FALSE /\ UNCHANGED <<txn, kind>> /\ kind \notin Databases
      /\ \/ stored' = stored \o pending /\ handle' = "none" /\ fate' = fate
         \/ /\ fate' = [i \in Samples |->
                 IF fate[i] = "acked" /\ i \in Named(pending) THEN "dropped" ELSE fate[i]]
            /\ stored' = stored /\ handle' = handle
  BY DEF CloseParquet, CloseHandle, Databases
<1>3. CASE stored' = stored \o pending /\ handle' = "none" /\ fate' = fate
  <2>1. Begins(Held', Held)
    BY <1>1, <1>2, <1>3, BufferEnds, Begun DEF IInv
  <2>2. stored' \in Seq(RowType) /\ Held' = Held
    <3>1. stored' \in Seq(RowType)
      BY <1>1, <1>3
    <3> QED
      BY <1>2, <1>3, <3>1, ConcatEmptySeq DEF Held
  <2>3. AckedInv'
    BY <1>2, <1>3, <2>2 DEF IInv, AckedInv
  <2> QED
    BY <1>1, <1>2, <1>3, <2>1, <2>2, <2>3, ClosedKeeps
<1>4. CASE /\ fate' = [i \in Samples |->
                IF fate[i] = "acked" /\ i \in Named(pending) THEN "dropped" ELSE fate[i]]
           /\ stored' = stored /\ handle' = handle
  <2>1. Begins(Held', Held)
    BY <1>2, <1>4, BufferLost DEF IInv
  <2>2. Held' = stored /\ Named(Held) = Named(stored) \cup Named(pending)
    BY <1>1, <1>2, <1>4, ConcatEmptySeq, JoinedNames DEF Held
  <2>3. AckedInv'
    <3>1. \A i \in Samples : fate'[i] = "acked" => fate[i] = "acked" /\ i \notin Named(pending)
      BY <1>4
    <3>2. \A i \in Samples : fate[i] = "acked" => i \in Named(Held)
      BY <1>2 DEF IInv, AckedInv
    <3>3. \A i \in Samples : fate'[i] = "acked" => i \in Named(Held')
      BY <1>4, <2>2, <3>1, <3>2
    <3> QED
      BY <1>2, <3>3 DEF AckedInv
  <2>4. fate' \in [Samples -> Fates]
    BY <1>1, <1>4 DEF Fates
  <2>5. \A i \in Samples : fate'[i] = fate[i] \/ (fate[i] = "acked" /\ fate'[i] = "dropped")
    BY <1>4
  <2> QED
    BY <1>1, <1>2, <1>4, <2>1, <2>3, <2>4, <2>5, ClosedKeeps
<1> QED
  BY <1>2, <1>3, <1>4

LEMMA CloseKeeps == ASSUME IInv, CloseHandle, handle = "open" PROVE IInv'
<1>1. CASE CloseSqlite \/ ClosePostgres \/ CloseMemory
  <2>1. /\ handle' = "none" /\ UNCHANGED <<ready, stored, pending, fate, kind>> /\ txn' \in {txn, <<>>}
    BY <1>1 DEF CloseSqlite, ClosePostgres, CloseMemory, CloseHandle
  <2>2. stored \in Seq(RowType) /\ pending \in Seq(RowType) /\ txn \in Seq(RowType) /\ <<>> \in Seq(RowType)
        /\ fate \in [Samples -> Fates] /\ ready \in BOOLEAN
    BY DEF IInv, Types
  <2>3. Begins(Held', Held) /\ Held' = Held
    BY <2>1, BufferSame DEF IInv, Held
  <2>4. AckedInv'
    BY <2>1, <2>3 DEF IInv, AckedInv
  <2>5. kind \in Databases => pending' = <<>>
    BY <2>1 DEF IInv, TxnInv
  <2> QED
    BY <2>1, <2>2, <2>3, <2>4, <2>5, ClosedKeeps
<1> QED
  BY <1>1, CloseFileKeeps, CloseParquetKeeps DEF CloseHandle

LEMMA CloseDeadKeeps == ASSUME IInv, CloseDead PROVE IInv'
<1>1. /\ pc = "idle" /\ handle' = "none" /\ ready' = FALSE /\ kind \in {"csv", "jsonl"}
      /\ UNCHANGED <<kind, create, schema, scars, pc, batch, raised, opens, table, stored, pending, txn, fate>>
  BY DEF CloseDead, disk, IInv, PreparedInv
<1>2. Types'
  BY <1>1 DEF IInv, Types, Locked, Writing
<1>3. RowsInv' /\ AckedInv'
  BY <1>1, <1>2, AsideRows
<1>4. TxnInv'
  BY <1>1 DEF IInv, TxnInv
<1>5. PreparedInv'
  BY <1>1 DEF IInv, PreparedInv, Locked, AssertionsExplained, Databases
<1> QED
  BY <1>2, <1>3, <1>4, <1>5 DEF IInv

\* The batch that a database was storing when the process died is there or not.
LEMMA CrashStores ==
  ASSUME IInv, Crash
  PROVE  /\ stored' \in Seq(RowType)
         /\ stored' = stored \/ (Joins /\ pc \in Writing /\ Named(stored) \subseteq Named(stored'))
<1> DEFINE parts == CASE kind = "postgres" /\ pc = "insert" /\ Fits(batch) -> {<<>>, Kept(batch)}
                      [] pc = "commit" -> {<<>>, txn}
                      [] OTHER -> {<<>>}
<1>1. PICK done \in parts : stored' = stored \o done
  BY DEF Crash
<1>2. \/ done = <<>>
      \/ kind = "postgres" /\ pc = "insert" /\ Fits(batch) /\ done = Kept(batch)
      \/ pc = "commit" /\ done = txn
  <2>1. CASE kind = "postgres" /\ pc = "insert" /\ Fits(batch)
    BY <1>1, <2>1
  <2>2. CASE pc = "commit"
    BY <1>1, <2>2
  <2>3. CASE ~(kind = "postgres" /\ pc = "insert" /\ Fits(batch)) /\ pc # "commit"
    BY <1>1, <2>3
  <2> QED
    BY <2>1, <2>2, <2>3
<1> HIDE DEF parts
<1>3. stored \in Seq(RowType) /\ txn \in Seq(RowType) /\ pending' = <<>>
  BY DEF IInv, Types, Crash
<1>4. CASE done = <<>>
  BY <1>1, <1>3, <1>4, ConcatEmptySeq
<1>5. ASSUME done \in Seq(RowType), SameIds(done, batch), kind \in Databases, pc \in Writing
      PROVE  stored' \in Seq(RowType) /\ Joins /\ Named(stored) \subseteq Named(stored')
  <2>1. pending = <<>>
    BY <1>5 DEF IInv, TxnInv
  <2>2. stored \o done \in Seq(RowType)
    BY <1>3, <1>5
  <2> QED
    BY <1>1, <1>3, <1>5, <2>1, <2>2, BatchStored DEF IInv
<1>6. CASE kind = "postgres" /\ pc = "insert" /\ Fits(batch) /\ done = Kept(batch)
  <2>1. done \in Seq(RowType) /\ SameIds(done, batch)
    BY <1>6, KeptTyped DEF IInv, Types
  <2> QED
    BY <1>5, <1>6, <2>1 DEF Databases, Writing
<1>7. CASE pc = "commit" /\ done = txn /\ done # <<>>
  <2>1. kind = "sqlite" /\ SameIds(done, batch)
    BY <1>7 DEF IInv, TxnInv
  <2> QED
    BY <1>3, <1>5, <1>7, <2>1 DEF Databases, Writing
<1> QED
  BY <1>2, <1>4, <1>6, <1>7

LEMMA CrashKeeps == ASSUME IInv, Crash PROVE IInv'
<1>1. /\ handle' = "none" /\ schema' = Unlocked /\ ready' = FALSE /\ scars' = {}
      /\ pc' = "idle" /\ batch' = <<>> /\ raised' = "no" /\ pending' = <<>> /\ txn' = <<>>
      /\ UNCHANGED <<kind, create, opens, table>>
  BY DEF Crash
<1>2. fate' = [i \in Samples |->
        CASE fate[i] = "under way" -> "cut off"
          [] fate[i] = "acked" /\ kind \in {"memory", "parquet"} /\ i \in Named(pending) -> "lost"
          [] OTHER -> fate[i]]
  BY DEF Crash
<1>3. \A i \in Samples :
        \/ fate[i] = "under way" /\ fate'[i] = "cut off"
        \/ fate[i] = "acked" /\ kind \in {"memory", "parquet"} /\ i \in Named(pending) /\ fate'[i] = "lost"
        \/ /\ fate'[i] = fate[i] /\ fate[i] # "under way"
           /\ ~(fate[i] = "acked" /\ kind \in {"memory", "parquet"} /\ i \in Named(pending))
  BY <1>2
<1>4. fate' \in [Samples -> Fates]
  <2>1. fate \in [Samples -> Fates] /\ DOMAIN fate' = Samples /\ fate' = [i \in Samples |-> fate'[i]]
    BY <1>2 DEF IInv, Types
  <2>2. \A i \in Samples : fate'[i] \in Fates
    BY <1>3, <2>1 DEF Fates
  <2> QED
    BY <2>1, <2>2
<1>5. /\ stored' \in Seq(RowType)
      /\ stored' = stored \/ (Joins /\ pc \in Writing /\ Named(stored) \subseteq Named(stored'))
  BY CrashStores
<1>6. Types'
  <2>1. <<>> \in Seq(RowType) /\ <<>> \in Schemas
    BY NoSchema
  <2> QED
    BY <1>1, <1>4, <1>5, <2>1 DEF IInv, Types, Locked, Unlocked, Writing
<1>7. Begins(Held', Held) \/ (Joins /\ pc \in Writing)
  BY <1>1, <1>5, BufferLost DEF IInv
<1>8. RowsInv'
  BY <1>1, <1>3, <1>6, <1>7, RowsCrashed DEF IInv, Writing
<1>9. AckedInv'
  <2>1. stored \in Seq(RowType) /\ pending \in Seq(RowType)
    BY DEF IInv, Types
  <2>2. Named(stored) \subseteq Named(stored') /\ Held' = stored'
    BY <1>1, <1>5, ConcatEmptySeq DEF Held
  <2>3. Named(Held) = Named(stored) \cup Named(pending)
    BY <2>1, JoinedNames DEF Held
  <2>4. \A i \in Samples : fate[i] = "acked" => i \in Named(IF kind \in {"memory", "parquet"} THEN Held ELSE stored)
    BY DEF IInv, AckedInv
  <2>5. ASSUME NEW i \in Samples, fate'[i] = "acked" PROVE i \in Named(stored')
    <3>1. fate[i] = "acked" /\ (kind \in {"memory", "parquet"} => i \notin Named(pending))
      BY <1>3, <2>5
    <3>2. CASE kind \in {"memory", "parquet"}
      BY <2>2, <2>3, <2>4, <3>1, <3>2
    <3>3. CASE kind \notin {"memory", "parquet"}
      BY <2>2, <2>4, <3>1, <3>3
    <3> QED
      BY <3>2, <3>3
  <2>6. ASSUME NEW i \in Samples, fate'[i] \in {"lost", "dropped"} PROVE kind \in {"memory", "parquet"}
    BY <1>3, <2>6 DEF IInv, AckedInv
  <2>7. CASE kind \in {"memory", "parquet"}
    BY <1>1, <2>2, <2>5, <2>6, <2>7 DEF AckedInv
  <2>8. CASE kind \notin {"memory", "parquet"}
    BY <1>1, <2>2, <2>5, <2>6, <2>8 DEF AckedInv
  <2> QED
    BY <2>7, <2>8
<1>10. TxnInv' /\ PreparedInv'
  BY <1>1 DEF TxnInv, PreparedInv, Locked, AssertionsExplained
<1> QED
  BY <1>6, <1>8, <1>9, <1>10 DEF IInv

-----------------------------------------------------------------------------
(* Every step of the sink and its adapter.                                 *)

LEMMA StepKeeps == ASSUME IInv, Step PROVE IInv'
BY IntrospectKeeps, CreateKeeps, FlushKeeps, PlainKeeps, InsertKeeps, CommitKeeps, CopyKeeps DEF Step

LEMMA CallKeeps == ASSUME IInv, Call PROVE IInv'
BY OpenKeeps, WriteKeeps, CloseKeeps, CloseDeadKeeps DEF Call, Close

LEMMA StutterKeeps == ASSUME IInv, UNCHANGED vars PROVE IInv'
<1>1. UNCHANGED <<kind, create, handle, schema, ready, scars, pc, batch, raised, opens,
                  table, stored, pending, txn, fate>>
  BY DEF vars, object, disk
<1>2. Types'
  BY <1>1 DEF IInv, Types, Locked
<1>3. RowsInv' /\ AckedInv'
  BY <1>1, <1>2, AsideRows
<1>4. TxnInv' /\ PreparedInv'
  BY <1>1 DEF IInv, TxnInv, PreparedInv, Locked, AssertionsExplained
<1> QED
  BY <1>2, <1>3, <1>4 DEF IInv

LEMMA Progress == ASSUME IInv, [SyncNext]_allVars PROVE IInv'
<1>1. CASE Exit
  BY <1>1, CloseKeeps, CloseDeadKeeps, StutterKeeps DEF Exit
<1>2. CASE Enter \/ Blocking \/ Direct
  BY <1>2, OpenKeeps, CallKeeps DEF Enter, Blocking, Direct
<1>3. CASE Running
  BY <1>3, StepKeeps DEF Running
<1>4. CASE Killed
  BY <1>4, CrashKeeps DEF Killed
<1>5. CASE Entered \/ Interrupt \/ Abandoned \/ Exited \/ UNCHANGED allVars
  BY <1>5, StutterKeeps DEF Entered, Interrupt, Abandoned, Exited, allVars
<1> QED
  BY <1>1, <1>2, <1>3, <1>4, <1>5 DEF SyncNext

\* What is held, what was acknowledged and what raised agree, in every state.
THEOREM RowsAgree == SyncSpec => []IInv
<1>1. SyncInit => IInv
  BY InitHolds DEF SyncInit
<1> QED
  BY <1>1, Progress, PTL DEF SyncSpec

-----------------------------------------------------------------------------
(* From the invariant to what the run checks.                              *)

LEMMA TimesOf ==
  ASSUME NEW rows \in Seq(RowType), NEW i
  PROVE  /\ Times(i, rows) \in Nat
         /\ i \in Named(rows) => Times(i, rows) >= 1
         /\ i \notin Named(rows) => Times(i, rows) = 0
         /\ Single(rows) => Times(i, rows) <= 1
<1> DEFINE places == {n \in DOMAIN rows : rows[n].id = i}
<1>1. IsFiniteSet(places)
  <2>1. DOMAIN rows = 1..Len(rows) /\ Len(rows) \in Nat
    OBVIOUS
  <2>2. IsFiniteSet(1..Len(rows))
    BY <2>1, FS_Interval
  <2> QED
    BY <2>1, <2>2, FS_Subset
<1>2. Times(i, rows) = Cardinality(places)
  BY DEF Times
<1>3. i \in Named(rows) <=> places # {}
  BY NamedIs
<1> HIDE DEF places
<1>4. Cardinality(places) \in Nat /\ (Cardinality(places) = 0 <=> places = {})
  BY <1>1, FS_CardinalityType, FS_EmptySet
<1>5. ASSUME Single(rows) PROVE Cardinality(places) <= 1
  <2>1. CASE places = {}
    BY <1>4, <2>1
  <2>2. ASSUME NEW n \in places PROVE Cardinality(places) = 1
    <3>1. \A m \in places : m = n
      BY <1>5, <2>2 DEF Single, places
    <3>2. places = {n}
      BY <2>2, <3>1
    <3> QED
      BY <3>2, FS_Singleton
  <2> QED
    BY <1>4, <2>1, <2>2
<1> QED
  BY <1>2, <1>3, <1>4, <1>5

LEMMA TypeOKFollows == ASSUME IInv PROVE TypeOK
<1>1. ASSUME NEW rows \in Seq(RowType) PROVE IsRows(rows)
  <2>1. \A i \in DOMAIN rows : rows[i] \in RowType
    BY <1>1
  <2> QED
    BY <2>1 DEF IsRows, RowType, Cells
<1>2. IsRows(batch) /\ IsRows(stored) /\ IsRows(pending) /\ IsRows(txn)
  BY <1>1 DEF IInv, Types
<1>3. pc \in Writing <=> \E i \in Samples : fate[i] = "under way"
  <2>1. ASSUME pc \in Writing PROVE \E i \in Samples : i \in Named(batch)
    <3>1. batch # <<>> /\ batch \in Seq(RowType)
      BY <2>1 DEF IInv, Types, RowsInv, WriteInv
    <3>2. batch[1].id \in Named(batch) /\ Named(batch) \subseteq Samples
      <4>1. 1 \in DOMAIN batch
        BY <3>1
      <4> QED
        BY <3>1, <4>1, RowsTyped
    <3> QED
      BY <3>2
  <2> QED
    BY <2>1 DEF IInv, RowsInv, WriteInv
<1> QED
  BY <1>2, <1>3 DEF TypeOK, IInv, Types, Fates, Writing

LEMMA HeldFollows == ASSUME IInv PROVE AckedIsHeld
<1>1. Held \in Seq(RowType) /\ stored \in Seq(RowType)
  BY HeldTyped DEF IInv, Types
<1>2. ASSUME NEW i \in Samples, fate[i] = "acked"
      PROVE  Times(i, IF kind \in {"memory", "parquet"} THEN Held ELSE stored) >= 1
  <2>1. CASE kind \in {"memory", "parquet"}
    BY <1>1, <1>2, <2>1, TimesOf DEF IInv, AckedInv
  <2>2. CASE kind \notin {"memory", "parquet"}
    BY <1>1, <1>2, <2>2, TimesOf DEF IInv, AckedInv
  <2> QED
    BY <2>1, <2>2
<1> QED
  BY <1>2, TypeOKFollows DEF AckedIsHeld, IInv, RowsInv, OrderInv, Ordered, AckedInv

LEMMA AbsentFollows == ASSUME IInv PROVE RaisedIsAbsent
<1>1. Held \in Seq(RowType) /\ stored \in Seq(RowType) /\ pending \in Seq(RowType)
  BY HeldTyped DEF IInv, Types
<1>2. Named(Held) = Named(stored) \cup Named(pending)
  BY <1>1, JoinedNames DEF Held
<1>3. ASSUME kind = "sqlite", NEW i \in Samples, fate[i] \in {"raised", "under way"}
      PROVE  Times(i, stored) = 0
  <2>1. i \notin Named(stored)
    BY <1>2, <1>3 DEF IInv, RowsInv, AbsentInv
  <2> QED
    BY <1>1, <2>1, TimesOf
<1>4. ASSUME kind \in {"sqlite", "memory"}, NEW i \in Samples PROVE Times(i, Held) <= 1
  BY <1>1, <1>4, TimesOf DEF IInv, RowsInv, AbsentInv
<1> QED
  BY <1>3, <1>4 DEF RaisedIsAbsent

(* Every sample that write_many acknowledged is in the file, the table or  *)
(* the memory that keeps it, and samples are held in the order they were   *)
(* written in but for repeats: through failures, retries, closes and       *)
(* crashes, for every number of samples, batches and opens.                *)
THEOREM AckedHeld == SyncSpec => []AckedIsHeld
BY RowsAgree, HeldFollows, PTL

(* A batch that raised has left no row in sqlite, so a retry repeats none: *)
(* sqlite and the in-memory sink hold no sample twice.                     *)
THEOREM RaisedAbsent == SyncSpec => []RaisedIsAbsent
BY RowsAgree, AbsentFollows, PTL

(* The assertion that a statement or writer is prepared fails only after a *)
(* create or a postgres introspection that failed, or on a closed parquet  *)
(* sink.                                                                   *)
THEOREM AssertionsAccounted == SyncSpec => []AssertionsExplained
<1>1. IInv => AssertionsExplained
  BY DEF IInv, PreparedInv
<1> QED
  BY <1>1, RowsAgree, PTL

-----------------------------------------------------------------------------
(* A database takes a batch whole.                                         *)

LEMMA IdsTyped ==
  ASSUME NEW s \in Seq(RowType)
  PROVE  /\ Ids(s) \in Seq(Samples) /\ Len(Ids(s)) = Len(s)
         /\ \A i \in 1..Len(s) : Ids(s)[i] = s[i].id
<1>1. DOMAIN s = 1..Len(s) /\ Len(s) \in Nat /\ \A i \in 1..Len(s) : s[i].id \in Samples
  BY RowsTyped
<1>2. Ids(s) = [i \in 1..Len(s) |-> s[i].id]
  BY <1>1 DEF Ids
<1> QED
  BY <1>1, <1>2

LEMMA NumbersJoined ==
  ASSUME NEW a \in Seq(Samples), NEW b \in Seq(Samples)
  PROVE  /\ a \o b \in Seq(Samples) /\ Len(a \o b) = Len(a) + Len(b)
         /\ \A i \in 1..Len(a) : (a \o b)[i] = a[i]
         /\ \A i \in 1..Len(b) : (a \o b)[Len(a) + i] = b[i]
OBVIOUS

LEMMA IdsJoined ==
  ASSUME NEW s \in Seq(RowType), NEW t \in Seq(RowType)
  PROVE  Ids(s \o t) = Ids(s) \o Ids(t)
<1> DEFINE r == s \o t
           a == Ids(s)
           b == Ids(t)
           c == a \o b
<1>1. /\ r \in Seq(RowType) /\ Len(r) = Len(s) + Len(t)
      /\ \A i \in 1..Len(s) : r[i] = s[i]
      /\ \A i \in 1..Len(t) : r[Len(s) + i] = t[i]
      /\ \A i \in 1..Len(r) : i \in 1..Len(s) \/ i - Len(s) \in 1..Len(t)
  BY Joined
<1>2. a \in Seq(Samples) /\ Len(a) = Len(s) /\ (\A i \in 1..Len(s) : a[i] = s[i].id)
  BY IdsTyped
<1>3. b \in Seq(Samples) /\ Len(b) = Len(t) /\ (\A i \in 1..Len(t) : b[i] = t[i].id)
  BY IdsTyped
<1> HIDE DEF r, a, b
<1>4. Ids(r) \in Seq(Samples) /\ Len(Ids(r)) = Len(r) /\ (\A i \in 1..Len(r) : Ids(r)[i] = r[i].id)
  BY <1>1, IdsTyped
<1>5. /\ c \in Seq(Samples) /\ Len(c) = Len(a) + Len(b)
      /\ \A i \in 1..Len(a) : c[i] = a[i]
      /\ \A i \in 1..Len(b) : c[Len(a) + i] = b[i]
  BY <1>2, <1>3, NumbersJoined
<1> HIDE DEF c
<1>6. ASSUME NEW i \in 1..Len(r) PROVE Ids(r)[i] = c[i]
  <2>1. CASE i \in 1..Len(s)
    <3>1. r[i] = s[i] /\ c[i] = a[i] /\ a[i] = s[i].id
      BY <1>1, <1>2, <1>5, <2>1
    <3> QED
      BY <1>4, <3>1
  <2>2. CASE i - Len(s) \in 1..Len(t)
    <3>1. Len(s) + (i - Len(s)) = i
      BY <1>1
    <3>2. r[i] = t[i - Len(s)] /\ b[i - Len(s)] = t[i - Len(s)].id
      BY <1>1, <1>3, <2>2, <3>1
    <3>3. c[i] = b[i - Len(s)]
      BY <1>2, <1>3, <1>5, <2>2, <3>1
    <3> QED
      BY <1>4, <3>2, <3>3
  <2> QED
    BY <1>1, <2>1, <2>2
<1>7. Ids(r) = c
  BY <1>1, <1>2, <1>3, <1>4, <1>5, <1>6, SeqEqual
<1> QED
  BY <1>7 DEF r, a, b, c

LEMMA IdsSame ==
  ASSUME NEW a \in Seq(RowType), NEW b \in Seq(RowType), SameIds(a, b)
  PROVE  Ids(a) = Ids(b)
<1>1. DOMAIN a = DOMAIN b /\ \A i \in DOMAIN a : a[i].id = b[i].id
  BY DEF SameIds
<1> QED
  BY <1>1 DEF Ids

Whole == stored' = stored \/ Ids(stored') = Ids(stored) \o Ids(batch)

LEMMA StoredWhole ==
  ASSUME IInv, NEW k \in Seq(RowType), SameIds(k, batch), stored' = stored \o k
  PROVE  Whole
<1>1. stored \in Seq(RowType) /\ batch \in Seq(RowType)
  BY DEF IInv, Types
<1>2. Ids(stored \o k) = Ids(stored) \o Ids(k) /\ Ids(k) = Ids(batch)
  BY <1>1, IdsJoined, IdsSame
<1>3. Ids(stored') = Ids(stored) \o Ids(batch)
  BY <1>2
<1> QED
  BY <1>3 DEF Whole

LEMMA StepWhole == ASSUME IInv, kind \in Databases, Step PROVE Whole
<1>1. CASE Commit
  <2>1. pc = "commit" /\ kind = "sqlite" /\ txn \in Seq(RowType)
    BY <1>1 DEF Commit, IInv, TxnInv, Types
  <2>2. CASE handle = "open" /\ stored' = stored \o txn
    <3>1. SameIds(txn, batch)
      BY <2>1, <2>2 DEF IInv, TxnInv
    <3> QED
      BY <2>1, <2>2, <3>1, StoredWhole
  <2> QED
    BY <1>1, <2>2 DEF Commit, Whole
<1>2. CASE Copy
  <2>1. CASE Fits(batch) /\ stored' = stored \o Kept(batch)
    <3>1. Kept(batch) \in Seq(RowType) /\ SameIds(Kept(batch), batch)
      BY <2>1, KeptTyped DEF IInv, Types
    <3> QED
      BY <2>1, <3>1, StoredWhole
  <2> QED
    BY <1>2, <2>1 DEF Copy, Whole
<1>3. CASE IntrospectSqlite \/ IntrospectPostgres
  BY <1>3 DEF IntrospectSqlite, IntrospectPostgres, Introspected, Unread, disk, Whole
<1>4. CASE CreateSqlite \/ CreatePostgres \/ OpenWriter
  BY <1>4 DEF CreateSqlite, CreatePostgres, OpenWriter, Uncreated, Databases, Whole
<1>5. CASE Flush \/ Remember \/ WriteTable \/ Insert \/ Cancel
  BY <1>5 DEF Flush, Remember, WriteTable, Insert, Cancel, disk, Databases, Whole
<1> QED
  BY <1>1, <1>2, <1>3, <1>4, <1>5 DEF Step

LEMMA CloseWhole == ASSUME kind \in Databases, CloseHandle \/ CloseDead PROVE Whole
BY DEF CloseHandle, CloseFile, CloseSqlite, CloseParquet, ClosePostgres, CloseMemory, CloseDead,
       disk, Databases, Whole

LEMMA CallWhole == ASSUME kind \in Databases, Call PROVE Whole
<1>1. CASE Open
  BY <1>1 DEF Open, OpenMemory, OpenFile, OpenParquet, OpenSqlite, OpenPostgres, disk, Databases, Whole
<1>2. CASE Write
  BY <1>2 DEF Write, Whole
<1> QED
  BY <1>1, <1>2, CloseWhole DEF Call, Close

LEMMA CrashWhole == ASSUME IInv, Crash PROVE Whole
<1> DEFINE parts == CASE kind = "postgres" /\ pc = "insert" /\ Fits(batch) -> {<<>>, Kept(batch)}
                      [] pc = "commit" -> {<<>>, txn}
                      [] OTHER -> {<<>>}
<1>1. PICK done \in parts : stored' = stored \o done
  BY DEF Crash
<1>2. \/ done = <<>>
      \/ kind = "postgres" /\ pc = "insert" /\ Fits(batch) /\ done = Kept(batch)
      \/ pc = "commit" /\ done = txn
  <2>1. CASE kind = "postgres" /\ pc = "insert" /\ Fits(batch)
    BY <1>1, <2>1
  <2>2. CASE pc = "commit"
    BY <1>1, <2>2
  <2>3. CASE ~(kind = "postgres" /\ pc = "insert" /\ Fits(batch)) /\ pc # "commit"
    BY <1>1, <2>3
  <2> QED
    BY <2>1, <2>2, <2>3
<1> HIDE DEF parts
<1>3. CASE done = <<>>
  BY <1>1, <1>3, ConcatEmptySeq DEF IInv, Types, Whole
<1>4. CASE kind = "postgres" /\ pc = "insert" /\ Fits(batch) /\ done = Kept(batch)
  <2>1. done \in Seq(RowType) /\ SameIds(done, batch)
    BY <1>4, KeptTyped DEF IInv, Types
  <2> QED
    BY <1>1, <2>1, StoredWhole
<1>5. CASE pc = "commit" /\ done = txn /\ done # <<>>
  <2>1. done \in Seq(RowType) /\ SameIds(done, batch)
    BY <1>5 DEF IInv, TxnInv, Types
  <2> QED
    BY <1>1, <2>1, StoredWhole
<1> QED
  BY <1>2, <1>3, <1>4, <1>5

LEMMA StepsWhole == ASSUME IInv, [SyncNext]_allVars, kind \in Databases PROVE Whole
<1>1. CASE Exit
  BY <1>1, CloseWhole DEF Exit, vars, disk, Whole
<1>2. CASE Enter \/ Blocking \/ Direct
  BY <1>2, CallWhole DEF Enter, Blocking, Direct, Call
<1>3. CASE Running
  BY <1>3, StepWhole DEF Running
<1>4. CASE Killed
  BY <1>4, CrashWhole DEF Killed
<1>5. CASE Entered \/ Interrupt \/ Abandoned \/ Exited \/ UNCHANGED allVars
  BY <1>5 DEF Entered, Interrupt, Abandoned, Exited, allVars, vars, disk, Whole
<1> QED
  BY <1>1, <1>2, <1>3, <1>4, <1>5 DEF SyncNext

(* What a database holds grows by the whole batch of write_many or not at  *)
(* all, whichever statement fails and wherever the process dies.           *)
THEOREM BatchesAreWhole == SyncSpec => BatchesWhole
<1>1. IInv /\ [SyncNext]_allVars =>
        [(kind \in Databases /\ stored' # stored) => Ids(stored') = Ids(stored) \o Ids(batch)]_vars
  BY StepsWhole DEF Whole
<1> QED
  BY <1>1, RowsAgree, PTL DEF SyncSpec, BatchesWhole

-----------------------------------------------------------------------------
(* The adapter: where its with block is, what runs, and the handle.        *)

LEMMA HandleKept ==
  ASSUME IInv, Step
  PROVE  /\ kind' = kind /\ pc # "idle" /\ scars \subseteq scars'
         /\ handle' = handle \/ handle' = "none"
         /\ handle' = handle /\ "introspect" \in scars' =>
              "introspect" \in scars \/ kind = "postgres" \/ handle = "none"
<1>1. CASE IntrospectSqlite \/ IntrospectPostgres
  BY <1>1 DEF IntrospectSqlite, IntrospectPostgres, Introspected, Unread
<1>2. CASE CreateSqlite \/ CreatePostgres \/ OpenWriter
  BY <1>2 DEF CreateSqlite, CreatePostgres, OpenWriter, Created, Uncreated, Refuse
<1>3. CASE Flush \/ Remember \/ WriteTable \/ Insert \/ Commit \/ Copy \/ Cancel
  BY <1>3 DEF Flush, Remember, WriteTable, Insert, Commit, Copy, Cancel, Return, Fail, object
<1> QED
  BY <1>1, <1>2, <1>3 DEF Step

LEMMA AdapterStarts == SyncInit => AdapterInv
<1> SUFFICES ASSUME SyncInit PROVE AdapterInv
  OBVIOUS
<1>1. adapter = "unused" /\ sync \in BOOLEAN /\ own \in BOOLEAN /\ loop = (sync /\ ~own)
  BY DEF SyncInit
<1>2. loop \in BOOLEAN /\ (sync /\ ~own => loop)
  BY <1>1
<1>3. New /\ pc = "idle"
  BY DEF SyncInit, Init
<1> QED
  BY <1>1, <1>2, <1>3 DEF AdapterInv

LEMMA AdapterKeeps == ASSUME IInv, AdapterInv, [SyncNext]_allVars PROVE AdapterInv'
<1> USE DEF AdapterInv
<1>1. CASE Enter
  <2>1. scars = {} /\ UNCHANGED scars
    BY <1>1 DEF Enter, New, Open, OpenMemory, OpenFile, OpenParquet, OpenSqlite, OpenPostgres, Opened
  <2> QED
    BY <1>1, <2>1 DEF Enter
<1>2. CASE Entered
  <2>1. UNCHANGED <<kind, pc, handle, scars, sync, own>> /\ adapter = "entering" /\ pc = "idle"
    BY <1>2 DEF Entered, vars, object
  <2>2. CASE adapter' = "inside" /\ loop' = loop
    BY <2>1, <2>2
  <2>3. CASE adapter' = "left" /\ loop' = ~own /\ (handle = "none" \/ "introspect" \in scars)
    BY <2>1, <2>3
  <2> QED
    BY <1>2, <2>2, <2>3 DEF Entered
<1>3. CASE Blocking
  BY <1>3 DEF Blocking, wrapper
<1>4. CASE Running
  <2>1. UNCHANGED <<sync, own, adapter, loop>>
    BY <1>4 DEF Running, wrapper
  <2>2. CASE ~sync
    BY <2>1, <2>2
  <2>3. CASE sync
    BY <1>4, <2>1, <2>3, HandleKept DEF Running
  <2> QED
    BY <2>2, <2>3
<1>5. CASE Interrupt \/ Abandoned
  <2>1. UNCHANGED <<kind, pc, handle, scars, sync, own>>
    BY <1>5 DEF Interrupt, Abandoned, vars, object
  <2>2. CASE Interrupt
    BY <2>1, <2>2 DEF Interrupt
  <2>3. CASE Abandoned
    BY <2>1, <2>3 DEF Abandoned
  <2> QED
    BY <1>5, <2>2, <2>3
<1>6. CASE Exit
  <2>1. adapter \in {"inside", "interrupted"} /\ adapter' = "exiting" /\ UNCHANGED <<sync, own, loop>>
    BY <1>6 DEF Exit
  <2>2. handle' # "none" =>
          \/ kind' \in {"csv", "jsonl"} /\ handle' = "dead"
          \/ kind' = "parquet" /\ "closed" \in scars'
    <3>1. CASE handle = "open"
      BY <1>6, <3>1 DEF Exit, CloseHandle, CloseFile, CloseSqlite, CloseParquet, ClosePostgres, CloseMemory
    <3>2. CASE handle = "dead"
      BY <1>6, <3>2 DEF Exit, CloseDead
    <3>3. CASE handle = "none"
      BY <1>6, <3>3 DEF Exit, vars, object
    <3> QED
      BY <3>1, <3>2, <3>3 DEF IInv, Types
  <2> QED
    BY <2>1, <2>2
<1>7. CASE Exited
  BY <1>7 DEF Exited, vars, object
<1>8. CASE Direct
  BY <1>8 DEF Direct, wrapper
<1>9. CASE Killed
  BY <1>9 DEF Killed, Crash, New
<1>10. CASE UNCHANGED allVars
  BY <1>10 DEF allVars, wrapper, vars, object, New
<1> QED
  BY <1>1, <1>2, <1>3, <1>4, <1>5, <1>6, <1>7, <1>8, <1>9, <1>10 DEF SyncNext

(* A task of the sink runs only while its portal does, and a with block    *)
(* that is over has let go of the handle, but for the sinks whose open or  *)
(* close raised. An __enter__ that is interrupted is no such block: it may *)
(* leave the handle.                                                       *)
THEOREM LeavingIsQuiet == SyncSpec => []LeftIsQuiet
<1>1. IInv /\ AdapterInv => LeftIsQuiet
  BY DEF AdapterInv, LeftIsQuiet
<1>2. SyncSpec => []AdapterInv
  BY AdapterStarts, AdapterKeeps, RowsAgree, PTL DEF SyncSpec
<1> QED
  BY <1>1, <1>2, RowsAgree, PTL
=============================================================================
