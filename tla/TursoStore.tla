---------------------------- MODULE TursoStore ----------------------------
(***************************************************************************)
(* internal/catalog/turso_store.go: TursoStore.Import, one SQL statement   *)
(* per action, with the failures and the crashes that can come between two *)
(* statements.  The import fills products_next and swaps it for products   *)
(* inside one transaction; Lookup reads the committed products meanwhile.  *)
(*                                                                         *)
(*   open        OpenTurso has returned a store                            *)
(*   disk        the committed schema, what Lookup and a restart see       *)
(*   view        the schema inside the transaction (= disk without one)    *)
(*   step        the statement Import executes next; "idle": not running   *)
(*   received    the rows Import has taken from the parser's channel       *)
(*   imported    the counter Import returns                                *)
(*   result      what the last Import returned                             *)
(*   generation  how many imports were committed (history)                 *)
(*                                                                         *)
(* The engine's side of it - transactional DDL, an index that follows its  *)
(* table through ALTER TABLE RENAME and goes with DROP TABLE, index names  *)
(* that are global to the schema - is SQLite's, which Turso implements.    *)
(***************************************************************************)
EXTENDS Naturals, Sequences, FiniteSets

CONSTANTS Barcodes,    (* the barcodes a product can have                  *)
          Details,     (* the other columns of a row                       *)
          NoBarcode,   (* the empty barcode, which Import skips            *)
          NoProduct,   (* the entry of a barcode that has no row           *)
          NoTable,     (* a table that does not exist                      *)
          NoStage,     (* Catalog: no import is writing                    *)
          MaxRows,     (* bound: rows of one file                          *)
          MaxImports   (* bound: committed imports                         *)

Contents == [Barcodes -> Details \cup {NoProduct}]

ASSUME StoreAssumption ==
  /\ NoProduct \notin Details
  /\ NoBarcode \notin Barcodes
  /\ NoTable \notin Contents
  /\ NoStage \notin Contents
  /\ MaxRows \in Nat
  /\ MaxImports \in Nat

TableNames == {"products", "products_next", "products_old"}

\* products_next_barcode_idx is on one of the tables or does not exist.
NoIndex == "none"

Schemas == [table : [TableNames -> Contents \cup {NoTable}],
            index : TableNames \cup {NoIndex}]

Rows == [barcode : Barcodes \cup {NoBarcode}, details : Details]

Steps == {"idle", "drop_next", "create_next", "rows", "create_index", "drop_old",
          "rename_products", "rename_next", "drop_renamed", "commit"}

VARIABLES open, disk, view, step, received, imported, result, generation

vars == <<open, disk, view, step, received, imported, result, generation>>

-----------------------------------------------------------------------------
(* The statements, as functions of a schema. *)

Empty == [b \in Barcodes |-> NoProduct]

Exists(schema, t) == schema.table[t] # NoTable

CreateTable(schema, t) ==
  [schema EXCEPT !.table = [schema.table EXCEPT ![t] = Empty]]

DropIfExists(schema, t) ==
  [table |-> [schema.table EXCEPT ![t] = NoTable],
   index |-> IF schema.index = t THEN NoIndex ELSE schema.index]

RenameTable(schema, from, to) ==
  [table |-> [schema.table EXCEPT ![to] = schema.table[from], ![from] = NoTable],
   index |-> IF schema.index = from THEN to ELSE schema.index]

\* The name decides, whatever table carries the index of that name.
CreateIndexIfNotExists(schema, t) ==
  IF schema.index = NoIndex THEN [schema EXCEPT !.index = t] ELSE schema

\* Mutant: INSERT OR IGNORE, the first row of a barcode stays.
InsertOrIgnore(schema, t, row) ==
  IF schema.table[t][row.barcode] # NoProduct THEN schema
  ELSE [schema EXCEPT !.table =
          [schema.table EXCEPT ![t] = [schema.table[t] EXCEPT ![row.barcode] = row.details]]]

InsertOrReplace(schema, t, row) ==
  [schema EXCEPT !.table =
     [schema.table EXCEPT ![t] = [schema.table[t] EXCEPT ![row.barcode] = row.details]]]

\* What Lookup answers: the row of the committed table, or Valid: false.
Lookup(barcode) == disk.table["products"][barcode]

-----------------------------------------------------------------------------
Init ==
  /\ open = FALSE
  /\ disk = [table |-> [t \in TableNames |-> NoTable], index |-> NoIndex]
  /\ view = disk
  /\ step = "idle"
  /\ received = <<>>
  /\ imported = 0
  /\ result = "none"
  /\ generation = 0

\* OpenTurso with ensureSchema: CREATE TABLE IF NOT EXISTS products.
OpenTurso ==
  /\ ~open
  /\ open' = TRUE
  /\ disk' = IF Exists(disk, "products") THEN disk ELSE CreateTable(disk, "products")
  /\ view' = disk'
  /\ UNCHANGED <<step, received, imported, result, generation>>

BeginTx ==
  /\ open /\ step = "idle" /\ generation < MaxImports
  /\ view' = disk
  /\ step' = "drop_next"
  /\ received' = <<>>
  /\ imported' = 0
  /\ result' = "none"
  /\ UNCHANGED <<open, disk, generation>>

\* tx.ExecContext of one statement that returns without an error.
Exec(at, schema, next) ==
  /\ step = at
  /\ view' = schema
  /\ step' = next
  /\ UNCHANGED <<open, disk, received, imported, result, generation>>

DropNext == Exec("drop_next", DropIfExists(view, "products_next"), "create_next")

\* CREATE TABLE products_next, and the insert that is prepared for it.
CreateNext ==
  /\ ~Exists(view, "products_next")
  /\ Exec("create_next", CreateTable(view, "products_next"), "rows")

\* One product from the channel: skipped without a barcode, else inserted.
ReceiveRow(row) ==
  /\ step = "rows" /\ Len(received) < MaxRows
  /\ received' = Append(received, row)
  /\ IF row.barcode = NoBarcode
       THEN UNCHANGED <<view, imported>>
       ELSE /\ view' = InsertOrReplace(view, "products_next", row)
            /\ imported' = imported + 1
  /\ UNCHANGED <<open, disk, step, result, generation>>

\* The parser closed the channel, and parseErrors has nil.
ParserDone == Exec("rows", view, "create_index")

CreateIndex ==
  Exec("create_index", CreateIndexIfNotExists(view, "products_next"), "drop_old")

DropOld == Exec("drop_old", DropIfExists(view, "products_old"), "rename_products")

\* Mutant: the current table is not moved away first.
ForgetsRename == Exec("rename_products", view, "rename_next")

RenameProducts ==
  /\ Exists(view, "products") /\ ~Exists(view, "products_old")
  /\ Exec("rename_products", RenameTable(view, "products", "products_old"), "rename_next")

RenameNext ==
  /\ Exists(view, "products_next") /\ ~Exists(view, "products")
  /\ Exec("rename_next", RenameTable(view, "products_next", "products"), "drop_renamed")

\* Mutant: the replaced table stays.
KeepsOldTable == Exec("drop_renamed", view, "commit")

DropRenamed ==
  /\ Exists(view, "products_old")
  /\ Exec("drop_renamed", DropIfExists(view, "products_old"), "commit")

Commit ==
  /\ step = "commit"
  /\ disk' = view
  /\ step' = "idle"
  /\ result' = "ok"
  /\ generation' = generation + 1
  /\ UNCHANGED <<open, view, received, imported>>

\* Mutant: no transaction, what was executed stays.
NoRollback ==
  /\ step # "idle"
  /\ disk' = view
  /\ step' = "idle"
  /\ result' = "error"
  /\ UNCHANGED <<open, view, received, imported, generation>>

\* A statement, the parser or the commit failed: the deferred Rollback.
Fail ==
  /\ step # "idle"
  /\ view' = disk
  /\ step' = "idle"
  /\ result' = "error"
  /\ UNCHANGED <<open, disk, received, imported, generation>>

\* The process ends; an open transaction goes with it.
Crash ==
  /\ open
  /\ open' = FALSE
  /\ view' = disk
  /\ step' = "idle"
  /\ result' = "none"
  /\ UNCHANGED <<disk, received, imported, generation>>

Next ==
  \/ OpenTurso \/ BeginTx \/ DropNext \/ CreateNext
  \/ \E row \in Rows : ReceiveRow(row)
  \/ ParserDone \/ CreateIndex \/ DropOld
  \/ RenameProducts \/ RenameNext \/ DropRenamed \/ Commit
  \/ Fail \/ Crash

Spec == Init /\ [][Next]_vars

-----------------------------------------------------------------------------
(* What the rows of a file amount to, defined without the tables: the last *)
(* row of a barcode gives its product.                                     *)

LastRowOf(rows, b) ==
  CHOOSE i \in DOMAIN rows :
    /\ rows[i].barcode = b
    /\ \A j \in DOMAIN rows : rows[j].barcode = b => j <= i

LastRows(rows) ==
  [b \in Barcodes |->
     IF \E i \in DOMAIN rows : rows[i].barcode = b
       THEN rows[LastRowOf(rows, b)].details
       ELSE NoProduct]

-----------------------------------------------------------------------------
TypeOK ==
  /\ open \in BOOLEAN
  /\ disk \in Schemas
  /\ view \in Schemas
  /\ step \in Steps
  /\ received \in Seq(Rows)
  /\ imported \in Nat
  /\ result \in {"none", "ok", "error"}
  /\ generation \in Nat

\* Whenever the service runs, at whatever statement an import is, fails or
\* crashes, lookups have a products table, and none of the import's own
\* tables was left behind by an earlier one.
CommittedSchema ==
  open => /\ Exists(disk, "products")
          /\ ~Exists(disk, "products_next")
          /\ ~Exists(disk, "products_old")

\* No statement of the swap can be refused for the tables it finds: each
\* source exists and each target is free when its turn comes.
SwapReady ==
  /\ step = "create_next" => ~Exists(view, "products_next")
  /\ step = "rename_products" => Exists(view, "products") /\ ~Exists(view, "products_old")
  /\ step = "rename_next" => Exists(view, "products_next") /\ ~Exists(view, "products")
  /\ step = "drop_renamed" => Exists(view, "products_old")

\* An import that reports success has installed its file, the last row of
\* each barcode and nothing of the catalog before it.
SuccessInstallsTheFile ==
  result = "ok" => \A b \in Barcodes : Lookup(b) = LastRows(received)[b]

\* README: "Import writes into `products_next`, indexes it, then atomically
\* swaps it into `products`": a catalog that was imported has the index.
InstalledCatalogIsIndexed ==
  result = "ok" => disk.index = "products"

\* The import as the rest of the service sees it.
Staging ==
  {"rows", "create_index", "drop_old", "rename_products", "rename_next"}

catalogProducts ==
  IF Exists(disk, "products") THEN disk.table["products"] ELSE Empty

catalogStaged ==
  IF step \in Staging THEN view.table["products_next"]
  ELSE IF step \in {"drop_renamed", "commit"} THEN view.table["products"]
  ELSE NoStage

Catalog == INSTANCE Catalog WITH products <- catalogProducts, staged <- catalogStaged

\* The statements, their failures and the crashes implement the abstract store:
\* lookups see the catalog change in one step, and only to a complete file.
ImplementsCatalog == Catalog!Spec
=============================================================================
