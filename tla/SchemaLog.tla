----------------------------- MODULE SchemaLog ------------------------------
(***************************************************************************)
(* What the migrations promise: the schema of a database file is the list   *)
(* All() of some build applied from its start, each entry once, in order;   *)
(* it only ever grows by the next entry.                                    *)
(***************************************************************************)
EXTENDS Naturals, Sequences

VARIABLE schema   \* the ids applied to the file, in the order of their commits

LogInit == schema = <<>>
LogNext == schema' = Append(schema, Len(schema) + 1)
LogSpec == LogInit /\ [][LogNext]_schema
=============================================================================
