--------------------------------- MODULE Rows ---------------------------------
(***************************************************************************)
(* Tables of rows by id, and the Maps of the code, as functions.           *)
(***************************************************************************)

(* A row is written, whether the table had one with its id or not.         *)
Upsert(table, id, row) ==
    [k \in DOMAIN table \cup {id} |-> IF k = id THEN row ELSE table[k]]

(* All of these rows are written.                                          *)
UpsertAll(table, rows) ==
    [k \in DOMAIN table \cup DOMAIN rows |-> IF k \in DOMAIN rows THEN rows[k] ELSE table[k]]
=============================================================================
