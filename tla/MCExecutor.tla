---------------------------- MODULE MCExecutor ----------------------------
(* Two handlers, a short and a long config text, two paths.                *)
EXTENDS Executor

MCSize == [c \in Content |-> IF c = "long" THEN 2 ELSE 1]
=============================================================================
