-------------------------- MODULE MCRecipeExecutor --------------------------
(* Small pushes for TLC.                                                   *)
EXTENDS RecipeExecutor

CONSTANTS old, new, kid1, kid2, a, b, blank

NoChildren == <<>>
OneChild == <<kid1>>
TwoChildren == <<kid1, kid2>>

(* The locales of an existing item hold another value than its default     *)
(* language.                                                               *)
MCStart == [l \in Langs |-> IF l \in Primary THEN a ELSE b]
=============================================================================
