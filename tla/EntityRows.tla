----------------------------- MODULE EntityRows -----------------------------
(***************************************************************************)
(* How an entity that was read without a lock gets back into its row.     *)
(* Repository.save of TypeORM reads the row again, compares it with the   *)
(* entity column by column, and then updates the columns that differ, in  *)
(* a statement of its own: whatever another request committed since the   *)
(* entity was read is written back, and whatever it commits between the   *)
(* comparison and the update survives in the columns left out.            *)
(***************************************************************************)

\* The columns in which the entity differs from the row.
Changed(entity, row) == {c \in DOMAIN entity : entity[c] # row[c]}

\* The row after an update of cols with the entity's values.
Written(row, entity, cols) ==
  [c \in DOMAIN row |-> IF c \in cols THEN entity[c] ELSE row[c]]

=============================================================================
