------------------------------- MODULE Schema -------------------------------
(* The tables of the database, as far as init_db of src/database.py looks at
   them. *)
EXTENDS FiniteSets, Naturals

CONSTANTS
  MAC,          \* devices an old database may hold
  Column,       \* the columns _migrate_add_columns adds
  EmptyIp,      \* the empty string an old row holds for "no address"
  SomeIp,       \* any other address
  NULL,         \* SQL NULL, and a table that does not exist
  MaxStops      \* stops of the process that are modelled

\* A devices table: its ip constraint, its added columns, its rows.
TableState ==
  [notnull : BOOLEAN,
   columns : SUBSET Column,
   rows    : UNION {[D -> {EmptyIp, SomeIp, NULL}] : D \in SUBSET MAC}]

ASSUME SchemaConstants ==
  /\ MaxStops \in Nat
  /\ NULL \notin {EmptyIp, SomeIp}
  /\ EmptyIp # SomeIp
  /\ NULL \notin TableState

Schema ==
  [devices    : TableState \cup {NULL},
   devices_v2 : TableState \cup {NULL},
   syslogs    : BOOLEAN]

NewTable(columns) == [notnull |-> FALSE, columns |-> columns, rows |-> [m \in {} |-> NULL]]
=============================================================================
