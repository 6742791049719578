------------------------------ MODULE CgiDatabase ------------------------------
(* src/cgihandler/database.py: a DBBase object, the MySQL connection it holds   *)
(* and the tables, and the Transaction objects that use it.                     *)
(*                                                                              *)
(* d.up, d.trans are the object's (conn that works, _trans); d.open, d.unit,    *)
(* d.pending and d.rows are the server's: whether the connection is inside a    *)
(* transaction, its number, its rows and the rows that others see.  Every       *)
(* operation has a set of outcomes: the database after it and what it raised.   *)
(* MySQL itself (external) is in autocommit mode outside a transaction, commits *)
(* what is open on BEGIN, and rolls back when the connection breaks.  It may    *)
(* refuse a statement alone, or end the transaction with it (a deadlock), which *)
(* the object does not notice.  Nothing here connects again.                    *)
EXTENDS Integers

CONSTANT None

Connect == [up |-> TRUE, trans |-> FALSE, open |-> FALSE, unit |-> 0, pending |-> {}, rows |-> {}]

-------------------------------------------------------------------------------
(* MySQL *)
Done(d) == [db |-> d, err |-> None]
Refused(d) == [db |-> d, err |-> "Database"]
RolledBack(d) == [d EXCEPT !.open = FALSE, !.pending = {}]
Committed(d) == [RolledBack(d) EXCEPT !.rows = @ \union d.pending]
Broken(d) == Refused([d EXCEPT !.up = FALSE])
Statement(d, outcomes) == IF d.up THEN outcomes ELSE {[db |-> d, err |-> "Interface"]}

-------------------------------------------------------------------------------
(* DBBase *)
Begin(d) ==
  IF d.trans THEN {Done(d)}
  ELSE Statement(d, {Done([Committed(d) EXCEPT !.open = TRUE, !.unit = @ + 1, !.trans = TRUE]),
                     Refused(d), Broken(RolledBack(d))})

RollBack(d) ==
  IF ~d.trans THEN {Done(d)}
  ELSE Statement(d, {Done([RolledBack(d) EXCEPT !.trans = FALSE]), Broken(RolledBack(d))})

(* The connection may break before or after MySQL has committed. *)
Commit(d) ==
  IF ~d.trans THEN {Done(d)}
  ELSE Statement(d, {Done([Committed(d) EXCEPT !.trans = FALSE]), Refused(RolledBack(d)),
                     Broken(RolledBack(d)), Broken(Committed(d))})

Query(d) == Statement(d, {Done(d), Refused(d), Refused(RolledBack(d)), Broken(RolledBack(d))})

(* A row, with the transaction that the object takes it to belong to (0: none). *)
RowOf(d, row) == [unit |-> IF d.trans THEN d.unit ELSE 0, row |-> row]

Modify(d, row) ==
  Statement(d, {Done(IF d.open THEN [d EXCEPT !.pending = @ \union {RowOf(d, row)}]
                     ELSE [d EXCEPT !.rows = @ \union {RowOf(d, row)}]),
                Refused(d), Refused(RolledBack(d)), Broken(RolledBack(d))})

(* DBBase.__del__: the process ends. *)
Close(d) == {[RolledBack(o.db) EXCEPT !.up = FALSE] : o \in RollBack(d)}

-------------------------------------------------------------------------------
(* Transaction: made with Begin, and deleted with (what RollBack raises in      *)
(* __del__ is not passed on)                                                    *)
(* Mutant: nothing is undone.                                                   *)
Deleted_Left(d) == {d}

Deleted(d) == {o.db : o \in RollBack(d)}
===============================================================================
