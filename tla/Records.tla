------------------------------- MODULE Records -------------------------------
(* The row operations of repository/base.go.  A table is a total function     *)
(* from codes to rows; a code nobody has used yet has a row tagged "none".    *)
(* Deletion is gorm's soft delete: the row stays, every read and every UPDATE *)
(* skips it, and the unique indexes still see it.                             *)

RowTags == {"none", "live", "deleted"}

\* base.go Get and GetByCode find a row only while it is not soft deleted.
Found(row) == row.row = "live"

\* Mutant of Updatable: the version is missing from the WHERE clause.
UpdatableAnyVersion(row, expect) == Found(row)

\* base.go update touches the row with this version, and nothing otherwise.
Updatable(row, expect) == Found(row) /\ row.version = expect

\* base.go Create: the unique index on code covers soft deleted rows too.
Insertable(row) == row.row = "none"

\* Mutant of SoftDeleted: deletion as one more status value.
DeletedByStatus(row) == [row EXCEPT !.status = "deleted"]

SoftDeleted(row) == [row EXCEPT !.row = "deleted"]
=============================================================================
