------------------------------ MODULE MCLdbTrx ------------------------------
(* Instantiates LdbTrx for TLC; the cfg files choose the bounds.           *)
EXTENDS LdbTrx, TLC

\* Only statements that run ordinary DML (write locks are downgraded).
DmlOnly == {"DML"}
\* DML and LOCK TABLES (write locks are kept exclusive).
DmlAndLockTables == {"DML", "LOCK_TABLES"}
\* Only LOCK TABLES scopes.
LockTablesOnly == {"LOCK_TABLES"}
=============================================================================
