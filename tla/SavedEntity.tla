----------------------------- MODULE SavedEntity -----------------------------
(***************************************************************************)
(* TypeORM's repository.save(entity) for an entity that has an id: SELECT  *)
(* the row, then UPDATE the columns in which the entity in memory differs  *)
(* from it.  Rows and entities are records or functions of their columns.  *)
(***************************************************************************)

(* The columns the UPDATE will set.  A numeric column is compared as text, *)
(* so a quantity may count as changed when its value is not (see retyped   *)
(* in the modules).                                                        *)
Differing(entity, row) == {c \in DOMAIN row : entity[c] # row[c]}

(* The row after the UPDATE of these columns.                              *)
Overlay(row, entity, columns) ==
    [c \in DOMAIN row |-> IF c \in columns THEN entity[c] ELSE row[c]]
==============================================================================
