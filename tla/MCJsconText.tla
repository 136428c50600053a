----------------------------- MODULE MCJsconText -----------------------------
(***************************************************************************)
(* The texts of MCJsconParse, parsed and printed; those of at most         *)
(* EditedItems values are edited and cloned as well.                       *)
(***************************************************************************)
EXTENDS JsconText, MCJsconParse

LongPrints == LongStays /\ (Long => UNCHANGED source)

\* After a fault it does not matter which call was at work.
Visible == <<VisibleParse, IF status = "ok" THEN cloning ELSE <<>> >>
==============================================================================
