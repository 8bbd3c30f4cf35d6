------------------------- MODULE TursoStoreProofs -------------------------
(***************************************************************************)
(* Proofs about TursoStore, for every set of barcodes and details and      *)
(* every bound: the schema is always ready for the next statement, the     *)
(* index comes and goes with the parity of the imports, a reported success *)
(* has installed its file, and the statements implement Catalog.           *)
(*                                                                         *)
(* The inductive invariant says, for each statement Import may execute     *)
(* next, which tables the transaction sees, what the new one holds and     *)
(* which of them carries the index.                                        *)
(***************************************************************************)
EXTENDS TursoStore, WellFoundedInduction, TLAPS

\* From CREATE products_next until it is renamed.
NextFilled == {"rows", "create_index", "drop_old",
               "rename_products", "rename_next"}

TablesInv ==
  /\ ~Exists(disk, "products_next")
  /\ ~Exists(disk, "products_old")
  /\ open => Exists(disk, "products")
  /\ ~open => step = "idle"
  /\ step = "idle" => view = disk
  /\ step \in {"drop_next", "create_next"} => ~Exists(view, "products_next")
  /\ step \in NextFilled => Exists(view, "products_next")
  /\ step \in {"drop_renamed", "commit"} => ~Exists(view, "products_next")
  /\ step \notin {"idle", "rename_next"} => Exists(view, "products")
  /\ step = "rename_next" => ~Exists(view, "products")
  /\ step \in {"rename_next", "drop_renamed"} => Exists(view, "products_old")
  /\ step \notin {"idle", "rename_next", "drop_renamed"} => ~Exists(view, "products_old")

ContentsInv ==
  /\ step \in NextFilled => view.table["products_next"] = LastRows(received)
  /\ step \in {"drop_renamed", "commit"} => view.table["products"] = LastRows(received)
  /\ step \in {"drop_next", "create_next"} => received = <<>>
  /\ result = "ok" => /\ step = "idle"
                      /\ disk.table["products"] = LastRows(received)
                      /\ open

Odd == generation % 2 = 1

IndexInv ==
  /\ disk.index = IF Odd THEN "products" ELSE NoIndex
  /\ step \in {"drop_next", "create_next", "rows", "create_index"}
       => view.index = disk.index
  /\ step \in {"drop_old", "rename_products"}
       => view.index = IF Odd THEN "products" ELSE "products_next"
  /\ step = "rename_next"
       => view.index = IF Odd THEN "products_old" ELSE "products_next"
  /\ step = "drop_renamed"
       => view.index = IF Odd THEN "products_old" ELSE "products"
  /\ step = "commit"
       => view.index = IF Odd THEN NoIndex ELSE "products"

IInv == TypeOK /\ TablesInv /\ ContentsInv /\ IndexInv

-----------------------------------------------------------------------------
(* What each statement leaves in the schema. *)

\* An empty table is a table.
LEMMA EmptyIsContents == Empty \in Contents /\ Empty # NoTable
  BY StoreAssumption DEF Empty, Contents

\* CREATE TABLE: the new table is empty, the rest is as before.
LEMMA CreateEffect ==
  ASSUME NEW s \in Schemas, NEW t \in TableNames, NEW r, r = CreateTable(s, t)
  PROVE  /\ r \in Schemas
         /\ r.table[t] = Empty /\ Exists(r, t)
         /\ \A u \in TableNames \ {t} : r.table[u] = s.table[u]
         /\ r.index = s.index
  BY EmptyIsContents DEF Schemas, CreateTable, Exists

\* DROP TABLE: the table is gone, and its index with it.
LEMMA DropEffect ==
  ASSUME NEW s \in Schemas, NEW t \in TableNames, NEW r, r = DropIfExists(s, t)
  PROVE  /\ r \in Schemas
         /\ r.table[t] = NoTable
         /\ \A u \in TableNames \ {t} : r.table[u] = s.table[u]
         /\ r.index = IF s.index = t THEN NoIndex ELSE s.index
  BY DEF Schemas, DropIfExists

\* ALTER TABLE RENAME: contents and index move to the new name.
LEMMA RenameEffect ==
  ASSUME NEW s \in Schemas, NEW t \in TableNames, NEW u \in TableNames, t # u,
         NEW r, r = RenameTable(s, t, u)
  PROVE  /\ r \in Schemas
         /\ r.table[u] = s.table[t] /\ r.table[t] = NoTable
         /\ \A v \in TableNames \ {t, u} : r.table[v] = s.table[v]
         /\ r.index = IF s.index = t THEN u ELSE s.index
  BY DEF Schemas, RenameTable

\* CREATE INDEX IF NOT EXISTS: no table changes.
LEMMA IndexEffect ==
  ASSUME NEW s \in Schemas, NEW t \in TableNames,
         NEW r, r = CreateIndexIfNotExists(s, t)
  PROVE  /\ r \in Schemas
         /\ r.table = s.table
         /\ r.index = IF s.index = NoIndex THEN t ELSE s.index
  BY DEF Schemas, CreateIndexIfNotExists

\* INSERT OR REPLACE of a row with a barcode, into a table that exists.
LEMMA InsertEffect ==
  ASSUME NEW s \in Schemas, NEW t \in TableNames, Exists(s, t),
         NEW row \in Rows, row.barcode # NoBarcode,
         NEW r, r = InsertOrReplace(s, t, row)
  PROVE  /\ r \in Schemas
         /\ r.table[t] = [s.table[t] EXCEPT ![row.barcode] = row.details]
         /\ Exists(r, t)
         /\ \A u \in TableNames \ {t} : r.table[u] = s.table[u]
         /\ r.index = s.index
<1>1. s.table[t] \in Contents /\ row.barcode \in Barcodes /\ row.details \in Details
  BY DEF Schemas, Exists, Rows
<1>2. [s.table[t] EXCEPT ![row.barcode] = row.details] \in Contents
  BY <1>1 DEF Contents
<1>3. [s.table[t] EXCEPT ![row.barcode] = row.details] # NoTable
  BY <1>2, StoreAssumption
<1> QED
  BY <1>2, <1>3 DEF Schemas, InsertOrReplace, Exists

-----------------------------------------------------------------------------
(* LastRows, row by row. *)

\* Before the first row there is no product.
LEMMA LastRowsOfNone == LastRows(<<>>) = Empty
  BY DEF LastRows, Empty

\* The last row of a barcode that occurs is where CHOOSE looks for it.
LEMMA LastRowOfIs ==
  ASSUME NEW rows \in Seq(Rows), NEW b,
         NEW i \in DOMAIN rows, rows[i].barcode = b,
         \A j \in DOMAIN rows : rows[j].barcode = b => j <= i
  PROVE  LastRowOf(rows, b) = i
<1> DEFINE k == LastRowOf(rows, b)
<1>1. /\ k \in DOMAIN rows
      /\ rows[k].barcode = b
      /\ \A j \in DOMAIN rows : rows[j].barcode = b => j <= k
  BY DEF LastRowOf
<1>2. k <= i /\ i <= k
  BY <1>1
<1>3. k \in Nat /\ i \in Nat
  BY <1>1
<1> QED
  BY <1>2, <1>3

\* A barcode that occurs in a file has a last row there.
LEMMA LastOccurrence ==
  ASSUME NEW rows \in Seq(Rows), NEW b,
         \E i \in DOMAIN rows : rows[i].barcode = b
  PROVE  \E i \in DOMAIN rows :
           /\ rows[i].barcode = b
           /\ \A j \in DOMAIN rows : rows[j].barcode = b => j <= i
<1> DEFINE occ == {i \in DOMAIN rows : rows[i].barcode = b}
           late == {n \in Nat : \E i \in occ : n = Len(rows) - i}
<1>1. late # {} /\ late \subseteq Nat
  <2>1. PICK i \in occ : TRUE
    OBVIOUS
  <2>2. Len(rows) - i \in late
    OBVIOUS
  <2> QED
    BY <2>2
<1>2. PICK n \in late : \A m \in late : n <= m
  <2> DEFINE less == {ss \in Nat \X Nat : ss[1] < ss[2]}
  <2>1. IsWellFoundedOn(less, Nat)
    BY NatLessThanWellFounded DEF OpToRel
  <2>2. PICK n \in late : \A m \in late : <<m, n>> \notin less
    <3> HIDE DEF less, late
    <3> QED
      BY <1>1, <2>1, WFMin
  <2>3. \A m \in late : ~ (m < n) /\ m \in Nat /\ n \in Nat
    <3> HIDE DEF late
    <3> QED
      BY <1>1, <2>2
  <2> QED
    <3> HIDE DEF late
    <3> QED
      BY <2>3
<1>3. PICK i \in occ : n = Len(rows) - i
  BY <1>2
<1>4. \A j \in occ : Len(rows) - j \in late
  OBVIOUS
<1>5. \A j \in occ : j <= i
  <2>1. \A j \in occ : Len(rows) - i <= Len(rows) - j
    <3> HIDE DEF late
    <3> QED
      BY <1>2, <1>3, <1>4
  <2>2. \A j \in occ : j \in Nat /\ Len(rows) \in Nat
    OBVIOUS
  <2> QED
    BY <2>1, <2>2
<1> QED
  BY <1>3, <1>5

\* A row without a barcode changes nothing; any other replaces one product.
LEMMA LastRowsAppend ==
  ASSUME NEW rows \in Seq(Rows), NEW row \in Rows
  PROVE  LastRows(Append(rows, row)) =
           IF row.barcode = NoBarcode THEN LastRows(rows)
           ELSE [LastRows(rows) EXCEPT ![row.barcode] = row.details]
<1> DEFINE more == Append(rows, row)
           n == Len(rows) + 1
<1>1. /\ more \in Seq(Rows)
      /\ n \in DOMAIN more /\ more[n] = row
      /\ DOMAIN rows \subseteq DOMAIN more
      /\ \A i \in DOMAIN rows : more[i] = rows[i] /\ i < n
      /\ \A i \in DOMAIN more : i = n \/ i \in DOMAIN rows
      /\ \A i \in DOMAIN more : i <= n
  OBVIOUS
<1>2. ASSUME NEW b \in Barcodes, b # row.barcode
      PROVE  LastRows(more)[b] = LastRows(rows)[b]
  <2>1. CASE \E i \in DOMAIN rows : rows[i].barcode = b
    <3> DEFINE k == LastRowOf(rows, b)
    <3>1. PICK i \in DOMAIN rows :
            /\ rows[i].barcode = b
            /\ \A j \in DOMAIN rows : rows[j].barcode = b => j <= i
      BY <2>1, LastOccurrence
    <3>2. k = i
      BY <3>1, LastRowOfIs
    <3>3. LastRowOf(more, b) = i
      <4>1. i \in DOMAIN more /\ more[i].barcode = b
        BY <1>1, <3>1
      <4>2. \A j \in DOMAIN more : more[j].barcode = b => j <= i
        BY <1>1, <3>1, <1>2
      <4> QED
        BY <1>1, <4>1, <4>2, LastRowOfIs
    <3> QED
      BY <1>1, <2>1, <3>1, <3>2, <3>3 DEF LastRows
  <2>2. CASE ~ \E i \in DOMAIN rows : rows[i].barcode = b
    <3>1. ~ \E i \in DOMAIN more : more[i].barcode = b
      BY <1>1, <1>2, <2>2
    <3> QED
      BY <2>2, <3>1 DEF LastRows
  <2> QED
    BY <2>1, <2>2
<1>3. CASE row.barcode = NoBarcode
  <2>1. \A b \in Barcodes : b # row.barcode
    BY <1>3, StoreAssumption
  <2> QED
    BY <1>2, <1>3, <2>1 DEF LastRows
<1>4. CASE row.barcode # NoBarcode
  <2>1. row.barcode \in Barcodes
    BY <1>4 DEF Rows
  <2>2. LastRowOf(more, row.barcode) = n
    BY <1>1, LastRowOfIs
  <2>3. LastRows(more)[row.barcode] = row.details
    BY <1>1, <2>1, <2>2 DEF LastRows
  <2>4. /\ DOMAIN LastRows(rows) = Barcodes
        /\ LastRows(more) = [b \in Barcodes |-> LastRows(more)[b]]
        /\ LastRows(rows) = [b \in Barcodes |-> LastRows(rows)[b]]
    BY DEF LastRows
  <2>5. LastRows(more) = [LastRows(rows) EXCEPT ![row.barcode] = row.details]
    BY <1>2, <2>1, <2>3, <2>4
  <2> QED
    BY <1>4, <2>5
<1> QED
  BY <1>3, <1>4

-----------------------------------------------------------------------------
(* The invariant holds initially and is preserved, action by action. *)

LEMMA InitIInv == Init => IInv
<1> SUFFICES ASSUME Init PROVE IInv
  OBVIOUS
<1>1. /\ disk \in Schemas /\ view = disk
      /\ \A t \in TableNames : disk.table[t] = NoTable
      /\ disk.index = NoIndex
  BY DEF Init, Schemas
<1>2. ~Odd
  BY DEF Init, Odd
<1>3. TypeOK
  <2>1. received \in Seq(Rows) /\ imported \in Nat /\ generation \in Nat
    BY DEF Init
  <2>2. open \in BOOLEAN /\ step \in Steps /\ result \in {"none", "ok", "error"}
    BY DEF Init, Steps
  <2> QED
    BY <1>1, <2>1, <2>2 DEF TypeOK
<1>4. TablesInv
  BY <1>1 DEF Init, TablesInv, TableNames, NextFilled, Exists
<1>5. ContentsInv /\ IndexInv
  BY <1>1, <1>2 DEF Init, ContentsInv, IndexInv, NextFilled
<1> QED
  BY <1>3, <1>4, <1>5 DEF IInv

\* A statement that is executed inside the transaction, whatever it is: the
\* committed schema and the other variables are out of its reach.
LEMMA ExecFrame ==
  ASSUME IInv, NEW at, NEW schema, NEW next, Exec(at, schema, next),
         at # "idle", next \in Steps, next # "idle", schema \in Schemas
  PROVE  /\ TypeOK'
         /\ step = at /\ step' = next /\ view' = schema
         /\ open' = open /\ open
         /\ disk' = disk /\ received' = received /\ generation' = generation
         /\ result' = result /\ result # "ok"
         /\ Odd' = Odd
  BY DEF IInv, TypeOK, TablesInv, ContentsInv, Exec, Odd

LEMMA ParityFlips ==
  ASSUME NEW n \in Nat
  PROVE  ((n + 1) % 2 = 1) = ~(n % 2 = 1)
  OBVIOUS

LEMMA NextIInv == IInv /\ [Next]_vars => IInv'
<1> SUFFICES ASSUME IInv, [Next]_vars PROVE IInv'
  OBVIOUS
<1> USE DEF IInv
<1>1. CASE OpenTurso
  BY <1>1, CreateEffect
     DEF OpenTurso, TypeOK, TablesInv, ContentsInv, IndexInv, Odd, TableNames,
         NextFilled, Exists
<1>2. CASE BeginTx
  BY <1>2 DEF BeginTx, TypeOK, TablesInv, ContentsInv, IndexInv, Odd, Exists,
              NextFilled, Steps
<1>3. CASE DropNext
  <2> DEFINE s == DropIfExists(view, "products_next")
  <2>1. /\ s \in Schemas
        /\ s.table["products_next"] = NoTable
        /\ s.table["products"] = view.table["products"]
        /\ s.table["products_old"] = view.table["products_old"]
        /\ s.index = IF view.index = "products_next" THEN NoIndex ELSE view.index
    BY DropEffect DEF TypeOK, TableNames
  <2> HIDE DEF s
  <2>2. Exec("drop_next", s, "create_next")
    BY <1>3 DEF DropNext, s
  <2> QED
    BY <2>1, <2>2, ExecFrame
       DEF TablesInv, ContentsInv, IndexInv, Exists, NextFilled, Steps, NoIndex
<1>4. CASE CreateNext
  <2> DEFINE s == CreateTable(view, "products_next")
  <2>1. /\ s \in Schemas
        /\ s.table["products_next"] = Empty /\ Exists(s, "products_next")
        /\ s.table["products"] = view.table["products"]
        /\ s.table["products_old"] = view.table["products_old"]
        /\ s.index = view.index
    BY CreateEffect DEF TypeOK, TableNames
  <2> HIDE DEF s
  <2>2. Exec("create_next", s, "rows")
    BY <1>4 DEF CreateNext, s
  <2>3. received = <<>>
    BY <2>2 DEF Exec, ContentsInv
  <2> QED
    BY <2>1, <2>2, <2>3, ExecFrame, LastRowsOfNone
       DEF TablesInv, ContentsInv, IndexInv, Exists, NextFilled,
           Steps, NoIndex
<1>5. CASE \E row \in Rows : ReceiveRow(row)
  <2> PICK row \in Rows : ReceiveRow(row)
    BY <1>5
  <2>1. CASE row.barcode = NoBarcode
    BY <2>1, LastRowsAppend
       DEF ReceiveRow, TypeOK, TablesInv, ContentsInv, IndexInv, Odd, Exists,
           NextFilled
  <2>2. CASE row.barcode # NoBarcode
    <3> DEFINE s == InsertOrReplace(view, "products_next", row)
    <3>1. Exists(view, "products_next") /\ step = "rows"
      BY DEF ReceiveRow, TablesInv, NextFilled
    <3>2. /\ s \in Schemas
          /\ s.table["products_next"]
               = [view.table["products_next"] EXCEPT ![row.barcode] = row.details]
          /\ Exists(s, "products_next")
          /\ s.table["products"] = view.table["products"]
          /\ s.table["products_old"] = view.table["products_old"]
          /\ s.index = view.index
      <4>1. view \in Schemas /\ "products_next" \in TableNames
        BY DEF TypeOK, TableNames
      <4>2. "products" \in TableNames \ {"products_next"}
            /\ "products_old" \in TableNames \ {"products_next"}
        BY DEF TableNames
      <4> QED
        BY <2>2, <3>1, <4>1, <4>2, InsertEffect
    <3> HIDE DEF s
    <3>3. /\ view' = s /\ received' = Append(received, row)
          /\ UNCHANGED <<open, disk, step, result, generation>>
          /\ imported' = imported + 1
      BY <2>2 DEF ReceiveRow, s
    <3>4. s.table["products_next"] = LastRows(received')
      BY <2>2, <3>1, <3>2, <3>3, LastRowsAppend DEF TypeOK, ContentsInv, NextFilled
    <3> QED
      BY <3>1, <3>2, <3>3, <3>4
         DEF TypeOK, TablesInv, ContentsInv, IndexInv, Odd, Exists, NextFilled
  <2> QED
    BY <2>1, <2>2
<1>6. CASE ParserDone
  BY <1>6 DEF ParserDone, Exec, TypeOK, TablesInv, ContentsInv,
              IndexInv, Odd, Exists, NextFilled, Steps
<1>7. CASE CreateIndex
  <2> DEFINE s == CreateIndexIfNotExists(view, "products_next")
  <2>1. /\ s \in Schemas
        /\ s.table = view.table
        /\ s.index = IF view.index = NoIndex THEN "products_next" ELSE view.index
    BY IndexEffect DEF TypeOK, TableNames
  <2> HIDE DEF s
  <2>2. Exec("create_index", s, "drop_old")
    BY <1>7 DEF CreateIndex, s
  <2> QED
    BY <2>1, <2>2, ExecFrame
       DEF TablesInv, ContentsInv, IndexInv, Exists, NextFilled, Steps, NoIndex
<1>8. CASE DropOld
  <2> DEFINE s == DropIfExists(view, "products_old")
  <2>1. /\ s \in Schemas
        /\ s.table["products_old"] = NoTable
        /\ s.table["products"] = view.table["products"]
        /\ s.table["products_next"] = view.table["products_next"]
        /\ s.index = IF view.index = "products_old" THEN NoIndex ELSE view.index
    BY DropEffect DEF TypeOK, TableNames
  <2> HIDE DEF s
  <2>2. Exec("drop_old", s, "rename_products")
    BY <1>8 DEF DropOld, s
  <2> QED
    BY <2>1, <2>2, ExecFrame
       DEF TablesInv, ContentsInv, IndexInv, Exists, NextFilled, Steps, NoIndex
<1>9. CASE RenameProducts
  <2> DEFINE s == RenameTable(view, "products", "products_old")
  <2>1. /\ s \in Schemas
        /\ s.table["products_old"] = view.table["products"]
        /\ s.table["products"] = NoTable
        /\ s.table["products_next"] = view.table["products_next"]
        /\ s.index = IF view.index = "products" THEN "products_old" ELSE view.index
    BY RenameEffect DEF TypeOK, TableNames
  <2> HIDE DEF s
  <2>2. Exec("rename_products", s, "rename_next")
    BY <1>9 DEF RenameProducts, s
  <2> QED
    BY <2>1, <2>2, ExecFrame
       DEF TablesInv, ContentsInv, IndexInv, Exists, NextFilled, Steps, NoIndex
<1>10. CASE RenameNext
  <2> DEFINE s == RenameTable(view, "products_next", "products")
  <2>1. /\ s \in Schemas
        /\ s.table["products"] = view.table["products_next"]
        /\ s.table["products_next"] = NoTable
        /\ s.table["products_old"] = view.table["products_old"]
        /\ s.index = IF view.index = "products_next" THEN "products" ELSE view.index
    BY RenameEffect DEF TypeOK, TableNames
  <2> HIDE DEF s
  <2>2. Exec("rename_next", s, "drop_renamed")
    BY <1>10 DEF RenameNext, s
  <2> QED
    BY <2>1, <2>2, ExecFrame
       DEF TablesInv, ContentsInv, IndexInv, Exists, NextFilled, Steps, NoIndex
<1>11. CASE DropRenamed
  <2> DEFINE s == DropIfExists(view, "products_old")
  <2>1. /\ s \in Schemas
        /\ s.table["products_old"] = NoTable
        /\ s.table["products"] = view.table["products"]
        /\ s.table["products_next"] = view.table["products_next"]
        /\ s.index = IF view.index = "products_old" THEN NoIndex ELSE view.index
    BY DropEffect DEF TypeOK, TableNames
  <2> HIDE DEF s
  <2>2. Exec("drop_renamed", s, "commit")
    BY <1>11 DEF DropRenamed, s
  <2> QED
    BY <2>1, <2>2, ExecFrame
       DEF TablesInv, ContentsInv, IndexInv, Exists, NextFilled, Steps, NoIndex
<1>12. CASE Commit
  <2>1. Odd' = ~Odd
    BY <1>12, ParityFlips DEF Commit, TypeOK, Odd
  <2>2. TypeOK' /\ TablesInv' /\ ContentsInv'
    BY <1>12 DEF Commit, TypeOK, TablesInv, ContentsInv, Exists, NextFilled, Steps
  <2>3. disk'.index = IF Odd' THEN "products" ELSE NoIndex
    BY <1>12, <2>1 DEF Commit, IndexInv
  <2>4. IndexInv'
    BY <1>12, <2>3 DEF Commit, IndexInv
  <2> QED
    BY <2>2, <2>4
<1>13. CASE Fail \/ Crash
  BY <1>13 DEF Fail, Crash, TypeOK, TablesInv, ContentsInv, IndexInv, Odd, Exists,
               NextFilled, Steps
<1>14. CASE UNCHANGED vars
  BY <1>14 DEF vars, TypeOK, TablesInv, ContentsInv, IndexInv, Odd, Exists
<1> QED
  BY <1>1, <1>2, <1>3, <1>4, <1>5, <1>6, <1>7, <1>8, <1>9, <1>10, <1>11, <1>12,
     <1>13, <1>14 DEF Next

THEOREM Invariance == Spec => []IInv
<1>1. Init => IInv
  BY InitIInv
<1>2. IInv /\ [Next]_vars => IInv'
  BY NextIInv
<1> QED
  BY <1>1, <1>2, PTL DEF Spec

-----------------------------------------------------------------------------
(* The properties of TursoStore. *)

\* Type correctness.
THEOREM TypeCorrect == Spec => []TypeOK
<1>1. IInv => TypeOK
  BY DEF IInv
<1> QED
  BY <1>1, Invariance, PTL

\* Lookups always have a products table, and no import leaves a table behind.
THEOREM SchemaIsClean == Spec => []CommittedSchema
<1>1. IInv => CommittedSchema
  BY DEF IInv, TablesInv, CommittedSchema
<1> QED
  BY <1>1, Invariance, PTL

\* No statement of the swap can be refused for the tables it finds.
THEOREM SwapIsReady == Spec => []SwapReady
<1>1. IInv => SwapReady
  BY DEF IInv, TablesInv, SwapReady, NextFilled
<1> QED
  BY <1>1, Invariance, PTL

\* A reported success has installed exactly its file.
THEOREM SuccessInstalls == Spec => []SuccessInstallsTheFile
<1>1. IInv => SuccessInstallsTheFile
  BY DEF IInv, ContentsInv, SuccessInstallsTheFile, Lookup
<1> QED
  BY <1>1, Invariance, PTL

\* The index the import creates survives every second import only: the one
\* of the import before it still holds the name, then goes with products_old.
IndexParity ==
  disk.index = IF generation % 2 = 1 THEN "products" ELSE NoIndex

\* The index is there after an odd number of imports, and only then.
THEOREM IndexAlternates == Spec => []IndexParity
<1>1. IInv => IndexParity
  BY DEF IInv, IndexInv, IndexParity, Odd
<1> QED
  BY <1>1, Invariance, PTL

-----------------------------------------------------------------------------
(* TursoStore implements Catalog: each statement begins, stages, installs   *)
(* or discards, or leaves what the mapping shows as it was.                 *)

LEMMA InitRefines == Init => Catalog!Init
  BY DEF Init, Catalog!Init, Catalog!Empty, Empty, catalogProducts,
         catalogStaged, Staging, Exists, TableNames

LEMMA NextRefines == IInv /\ [Next]_vars => [Catalog!Next]_Catalog!vars
<1> SUFFICES ASSUME IInv, [Next]_vars
             PROVE  [Catalog!Next]_Catalog!vars
  OBVIOUS
<1> USE DEF IInv
<1>1. CASE OpenTurso
  BY <1>1, CreateEffect
     DEF OpenTurso, TypeOK, TableNames, TablesInv, Catalog!vars, catalogProducts,
         catalogStaged, Staging, Exists
<1>2. CASE BeginTx \/ DropNext
  BY <1>2 DEF BeginTx, DropNext, Exec, Catalog!vars, catalogProducts,
              catalogStaged, Staging, Exists
<1>3. CASE CreateNext
  <2>1. view'.table["products_next"] = Empty
    BY <1>3, CreateEffect DEF CreateNext, Exec, TypeOK, TableNames
  <2> QED
    BY <1>3, <2>1
       DEF CreateNext, Exec, Catalog!Next, Catalog!Begin, Catalog!Empty, Empty,
           catalogProducts, catalogStaged, Staging, Exists
<1>4. CASE \E row \in Rows : ReceiveRow(row)
  <2> PICK row \in Rows : ReceiveRow(row)
    BY <1>4
  <2>1. /\ step = "rows" /\ step' = "rows"
        /\ disk' = disk
        /\ Exists(view, "products_next")
    BY DEF ReceiveRow, TablesInv, NextFilled
  <2>2. /\ catalogStaged = view.table["products_next"]
        /\ catalogStaged' = view'.table["products_next"]
        /\ catalogProducts' = catalogProducts
    BY <2>1 DEF catalogStaged, catalogProducts, Staging, Exists
  <2>3. CASE row.barcode = NoBarcode
    BY <2>2, <2>3 DEF ReceiveRow, Catalog!vars
  <2>4. CASE row.barcode # NoBarcode
    <3>1. row.barcode \in Barcodes /\ row.details \in Details
      BY <2>4 DEF Rows
    <3>2. view \in Schemas /\ "products_next" \in TableNames
      BY DEF TypeOK, TableNames
    <3>3. view' = InsertOrReplace(view, "products_next", row)
      BY <2>4 DEF ReceiveRow
    <3>4. catalogStaged' = [catalogStaged EXCEPT ![row.barcode] = row.details]
      BY <2>1, <2>2, <2>4, <3>2, <3>3, InsertEffect
    <3>5. catalogStaged # NoStage
      <4>1. view.table["products_next"] \in Contents
        BY <2>1, <3>2 DEF Schemas, Exists
      <4> QED
        BY <2>2, <4>1, StoreAssumption
    <3>6. Catalog!Stage(row.barcode, row.details)
      BY <2>2, <3>4, <3>5 DEF Catalog!Stage
    <3> QED
      BY <3>1, <3>6 DEF Catalog!Next
  <2> QED
    BY <2>3, <2>4
<1>5. CASE ParserDone
  BY <1>5 DEF ParserDone, Exec, Catalog!vars, catalogProducts,
              catalogStaged, Staging, Exists
<1>6. CASE CreateIndex \/ DropOld \/ RenameProducts
  <2>1. /\ step \in Staging /\ step' \in Staging /\ disk' = disk
        /\ view'.table["products_next"] = view.table["products_next"]
    <3>1. view \in Schemas /\ "products_next" \in TableNames
          /\ "products_old" \in TableNames /\ "products" \in TableNames
      BY DEF TypeOK, TableNames
    <3>2. CASE CreateIndex
      BY <3>1, <3>2, IndexEffect DEF CreateIndex, Exec, Staging
    <3>3. CASE DropOld
      BY <3>1, <3>3, DropEffect DEF DropOld, Exec, Staging
    <3>4. CASE RenameProducts
      <4>1. RenameTable(view, "products", "products_old").table["products_next"]
              = view.table["products_next"]
        BY <3>1, RenameEffect
      <4> QED
        BY <3>4, <4>1 DEF RenameProducts, Exec, Staging
    <3> QED
      BY <1>6, <3>2, <3>3, <3>4
  <2> QED
    BY <2>1 DEF Catalog!vars, catalogProducts, catalogStaged, Exists
<1>7. CASE RenameNext
  <2>1. view'.table["products"] = view.table["products_next"]
    BY <1>7, RenameEffect DEF RenameNext, Exec, TypeOK, TableNames
  <2> QED
    BY <1>7, <2>1
       DEF RenameNext, Exec, Catalog!vars, catalogProducts, catalogStaged, Staging,
           Exists
<1>8. CASE DropRenamed
  <2>1. view'.table["products"] = view.table["products"]
    BY <1>8, DropEffect DEF DropRenamed, Exec, TypeOK, TableNames
  <2> QED
    BY <1>8, <2>1
       DEF DropRenamed, Exec, Catalog!vars, catalogProducts, catalogStaged, Staging,
           Exists
<1>9. CASE Commit
  <2>1. Exists(view, "products") /\ view.table["products"] \in Contents
    BY <1>9 DEF Commit, TablesInv, TypeOK, Schemas, TableNames, Exists
  <2>2. /\ catalogStaged = view.table["products"]
        /\ catalogStaged' = NoStage
        /\ catalogProducts' = view.table["products"]
    BY <1>9, <2>1 DEF Commit, catalogStaged, catalogProducts, Staging, Exists
  <2>3. Catalog!Install
    BY <2>1, <2>2, StoreAssumption DEF Catalog!Install
  <2> QED
    BY <2>3 DEF Catalog!Next
<1>10. CASE Fail \/ Crash
  <2>1. Catalog!Discard
    BY <1>10 DEF Fail, Crash, Catalog!Discard, catalogProducts, catalogStaged,
                 Staging, Exists
  <2> QED
    BY <2>1 DEF Catalog!Next
<1>11. CASE UNCHANGED vars
  BY <1>11 DEF vars, Catalog!vars, catalogProducts, catalogStaged, Exists
<1> QED
  BY <1>1, <1>2, <1>3, <1>4, <1>5, <1>6, <1>7, <1>8, <1>9, <1>10, <1>11 DEF Next

\* Every behaviour of the statements is one of the abstract store: lookups
\* see complete catalogs only, each installed in a single step.
THEOREM Refinement == Spec => ImplementsCatalog
<1>1. Init => Catalog!Init
  BY InitRefines
<1>2. IInv /\ [Next]_vars => [Catalog!Next]_Catalog!vars
  BY NextRefines
<1> QED
  BY <1>1, <1>2, Invariance, PTL DEF Spec, ImplementsCatalog, Catalog!Spec
=============================================================================
