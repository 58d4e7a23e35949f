----------------------------- MODULE MCLdbShare -----------------------------
(* Instantiates LdbShare for TLC: two handler objects on table t1 and one  *)
(* on t2, so that opens of one table race and another table is open too.   *)
EXTENDS LdbShare, TLC

CONSTANTS h1, h2, h3, t1, t2

MCHandlers == {h1, h2, h3}
MCTables == {t1, t2}
MCHandlerTable == (h1 :> t1) @@ (h2 :> t1) @@ (h3 :> t2)
=============================================================================
