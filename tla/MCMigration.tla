---------------------------- MODULE MCMigration ----------------------------
(* Short scripts: like the shipped one, the first begins with a statement after *)
(* a comment and one whose syntax SQLite does not know; the others are       *)
(* repaired, one of them with a column that a comment hides.                 *)
EXTENDS Migration

Add == [kind |-> "ddl", needs |-> {}, commented |-> FALSE, valid |-> TRUE]
Fill(i) == [kind |-> "dml", needs |-> {i}, commented |-> FALSE, valid |-> TRUE]
Commented(s) == [s EXCEPT !.commented = TRUE]
IfNotExists == [Add EXCEPT !.valid = FALSE]

Shipped  == <<Commented(IfNotExists), IfNotExists, Fill(1), Fill(2)>>
Hidden   == <<Add, Fill(1), Commented(Add), Fill(3)>>
Repaired == <<Add, Add, Fill(1), Commented(Fill(2)), Add, Fill(5)>>
MCScripts == {Shipped, Hidden, Repaired}
=============================================================================
