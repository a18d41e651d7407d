----------------------------- MODULE Persistence -----------------------------
(***************************************************************************)
(* What saving an event-sourced aggregate does, shared by every component. *)
(*                                                                         *)
(* A repository's save(entity) is TypeORM's: a SELECT of the stored row,   *)
(* and, when a column of the entity in memory differs from the row just    *)
(* read, one transaction that                                              *)
(*   - INSERTs the row, or UPDATEs the columns that differed (and no       *)
(*     others, by primary key, with no test of the version column);        *)
(*   - runs the EntitySubscriber, which INSERTs the entity's pending       *)
(*     events in the same transaction.                                     *)
(* The event tables are UNIQUE on (aggregateId, version): this constraint, *)
(* and nothing else, is the optimistic lock of the system.  When no column *)
(* differs, TypeORM opens no transaction and calls no subscriber: save     *)
(* returns and the pending events are dropped.                             *)
(*                                                                         *)
(* A row is a record with a version; version 0 is a row that is not in the *)
(* table, as it is for an entity that `new` has just made (isNew).         *)
(***************************************************************************)
EXTENDS Naturals

isNew(row) == row.version = 0

nextVersion(row) == row.version + 1

\* The (aggregateId, version) pair is already in the event table.
VersionTaken(events, id, version) ==
  \E e \in events : e.aggregateId = id /\ e.version = version

\* The value a column has after an UPDATE: written when the entity's value
\* differs from the one `save` read, otherwise left as it is stored.
Written(mine, seen, stored) == IF mine # seen THEN mine ELSE stored
==============================================================================
