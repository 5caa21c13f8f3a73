------------------------------ MODULE UnitOfWork ------------------------------
(***************************************************************************)
(* What an SQLAlchemy session writes. A request loads a row, assigns to    *)
(* the object, and commits; the flush issues an UPDATE of the columns      *)
(* whose value is no longer the one that was loaded. PostgreSQL runs it at *)
(* READ COMMITTED, so that every other column keeps what others have       *)
(* written since, and an assignment of the loaded value writes nothing.    *)
(***************************************************************************)

\* A column of a row that is now at "now", was loaded as "seen" and should
\* become "wanted".
\* Mutant: every column is written back.
ColumnAlways(now, seen, wanted) == wanted

Column(now, seen, wanted) == IF wanted = seen THEN now ELSE wanted
=============================================================================
