---------------------------- MODULE ShareRegistry ----------------------------
(***************************************************************************)
(* What the share registry promises (spec.md 4.3): one entry per open      *)
(* table name, holding one Store and a use count.  acquire(t) by a table   *)
(* adapter returns the Store of t's entry and counts the adapter, creating *)
(* the entry with a new Store when there is none; release drops the count  *)
(* and removes the entry, closing its Store, at zero.  acquire and release *)
(* are strictly paired per adapter, so a count never goes below zero.  At  *)
(* process shutdown every adapter and entry is gone.                       *)
(*                                                                         *)
(* A Store is named by the adapter whose acquire created it.               *)
(***************************************************************************)
EXTENDS Naturals, TLC

CONSTANTS
  Adapters,   \* table adapters (handler objects)
  Tables,     \* table names
  None        \* an adapter holding no Store

VARIABLES
  registry,   \* table name -> [store, useCount] of its entry
  holding     \* holding[a]: the Store adapter a acquired, or None

vars == <<registry, holding>>

Init ==
  /\ registry = [t \in {} |-> [store |-> None, useCount |-> 0]]
  /\ holding = [a \in Adapters |-> None]

\* acquire(t): the existing entry's Store, or a new entry and Store.
Acquire(a, t) ==
  /\ holding[a] = None
  /\ registry' =
       IF t \in DOMAIN registry
       THEN [registry EXCEPT ![t].useCount = @ + 1]
       ELSE (t :> [store |-> a, useCount |-> 1]) @@ registry
  /\ holding' = [holding EXCEPT ![a] = registry'[t].store]

\* release: the adapter gives back the Store it holds.
Release(a) ==
  \E t \in DOMAIN registry :
    /\ holding[a] /= None
    /\ registry[t].store = holding[a]
    /\ registry' =
         IF registry[t].useCount = 1
         THEN [x \in DOMAIN registry \ {t} |-> registry[x]]
         ELSE [registry EXCEPT ![t].useCount = @ - 1]
    /\ holding' = [holding EXCEPT ![a] = None]

\* Process shutdown (and start): nothing is held, the registry is empty.
Shutdown ==
  /\ registry' = [t \in {} |-> [store |-> None, useCount |-> 0]]
  /\ holding' = [a \in Adapters |-> None]

Next ==
  \/ \E a \in Adapters : Release(a) \/ \E t \in Tables : Acquire(a, t)
  \/ Shutdown

Spec == Init /\ [][Next]_vars

=============================================================================
