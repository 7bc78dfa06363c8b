---------------------------- MODULE SqliteStore ----------------------------
(***************************************************************************)
(* The same calls on SQLite with its rollback journal, as src/database.py  *)
(* uses it: every call opens a connection, a SELECT holds a SHARED lock    *)
(* from execute to fetch, a write takes RESERVED with its statement and    *)
(* keeps new readers out (PENDING) while its commit waits for the old      *)
(* ones.  Who waits for five seconds raises.                               *)
(***************************************************************************)
EXTENDS DeviceList

VARIABLES
  disk,         \* the committed table
  draft,        \* what the writer that holds RESERVED has changed it to
  stage,        \* where each call is, and with it what it holds
  cursor,       \* the rows the client's SELECT has stepped to by itself
  request,      \* see Registry
  walk          \* see Registry

vars == <<disk, draft, stage, cursor, request, walk>>

Atomic == INSTANCE Registry WITH table <- disk

Stage == {"idle", "called", "reading", "read", "reserved", "committing"}

TypeOK ==
  /\ disk \in Table
  /\ stage \in [Call -> Stage]
  /\ draft # NULL <=> \E c \in Call : stage[c] \in {"reserved", "committing"}
  /\ cursor \in Seq(MAC)
  /\ request \in [Call -> Request \cup {NULL}]
  /\ \A c \in Call : stage[c] = "idle" <=> request[c] = NULL
  /\ walk \in Walk

Init ==
  /\ Atomic!Init
  /\ draft = NULL
  /\ stage = [c \in Call |-> "idle"]
  /\ cursor = <<>>

\* Who holds which lock.
Readers  == {c \in Call : stage[c] = "reading"}
Reserved == {c \in Call : stage[c] \in {"reserved", "committing"}}
Pending  == {c \in Call : stage[c] = "committing"}

ReadsFirst(c) == request[c].op \in {"list", "merge"}

Enter(c, s) == stage' = [stage EXCEPT ![c] = s]

\* Faulty variant, to test the properties with: the connection goes back to a
\* pool, with the transaction of a commit that failed still open.
Close_Pooled(c) ==
  /\ Enter(c, "idle")
  /\ request' = [request EXCEPT ![c] = NULL]
  /\ cursor' = IF c = Client THEN <<>> ELSE cursor
  /\ draft' = IF c \in Reserved /\ Readers \subseteq {c} THEN NULL ELSE draft

\* The connection is closed: its locks go, and what it has not committed.
Close(c) ==
  /\ Enter(c, "idle")
  /\ request' = [request EXCEPT ![c] = NULL]
  /\ cursor' = IF c = Client THEN <<>> ELSE cursor
  /\ draft' = IF c \in Reserved THEN NULL ELSE draft

-----------------------------------------------------------------------------

Submit(c, r) ==
  /\ Atomic!Submit(c, r)
  /\ Enter(c, "called")
  /\ UNCHANGED <<draft, cursor>>

Ask ==
  /\ \/ \E filter \in Filters, limit \in Limits : Atomic!StartWalk(filter, limit)
     \/ Atomic!NextPage
  /\ Enter(Client, "called")
  /\ UNCHANGED <<draft, cursor>>

CurrentPage == Page(disk, walk.filter, walk.limit, walk.offset)

\* execute of a SELECT steps to its first row.
Select(c) ==
  /\ stage[c] = "called"
  /\ ReadsFirst(c)
  /\ Pending = {}
  /\ Enter(c, "reading")
  /\ cursor' = IF c = Client THEN SubSeq(CurrentPage, 1, Least(1, Len(CurrentPage))) ELSE cursor
  /\ UNCHANGED <<disk, draft, request, walk>>

\* fetchall steps to the others, on the thread of its connection, some time
\* later; then the cursor and the connection are closed.
FetchAll ==
  /\ stage[Client] = "reading"
  /\ walk' = Advanced(walk, cursor \o SubSeq(CurrentPage, 2, Len(CurrentPage)))
  /\ Close(Client)
  /\ UNCHANGED disk

\* merge_host_containers has its row, and closes the cursor before it writes;
\* with no such row it returns.
FetchMetadata(c) ==
  /\ c \in Writer
  /\ stage[c] = "reading"
  /\ IF request[c].mac \in Members(disk.order)
     THEN Enter(c, "read") /\ UNCHANGED <<draft, cursor, request>>
     ELSE Close(c)
  /\ UNCHANGED <<disk, walk>>

\* Faulty variant, to test the properties with: merge_host_containers writes while
\* its cursor is open.
WantsToWrite_CursorOpen(c) ==
  \/ stage[c] = "called" /\ ~ReadsFirst(c)
  \/ stage[c] = "reading" /\ c # Client

WantsToWrite(c) == stage[c] = "read" \/ (stage[c] = "called" /\ ~ReadsFirst(c))

\* execute of an INSERT or UPDATE begins a transaction.
Execute(c) ==
  /\ WantsToWrite(c)
  /\ Reserved = {}
  /\ Enter(c, "reserved")
  /\ draft' = Applied(disk, request[c])
  /\ UNCHANGED <<disk, cursor, request, walk>>

Commit(c) ==
  /\ stage[c] = "reserved"
  /\ Enter(c, "committing")
  /\ UNCHANGED <<disk, draft, cursor, request, walk>>

\* Faulty variant, to test the properties with: the commit waits for nobody.
Publish_OverReaders(c) ==
  /\ stage[c] = "committing"
  /\ disk' = draft
  /\ walk' = Witnessed(walk, disk, draft, request[c])
  /\ Close(c)

\* With the last reader gone the commit goes through.
Publish(c) ==
  /\ stage[c] = "committing"
  /\ Readers \subseteq {c}
  /\ disk' = draft
  /\ walk' = Witnessed(walk, disk, draft, request[c])
  /\ Close(c)

Blocked(c) ==
  \/ stage[c] = "called" /\ ReadsFirst(c) /\ Pending # {}
  \/ WantsToWrite(c) /\ Reserved # {}
  \/ stage[c] = "committing" /\ ~(Readers \subseteq {c})

\* Faulty variant, to test the properties with: no timeout.
TimeOut_Never(c) == Blocked(c) /\ UNCHANGED vars

\* "database is locked": connect's timeout is left at five seconds.
TimeOut(c) ==
  /\ Blocked(c)
  /\ Close(c)
  /\ walk' = IF c = Client THEN NoWalk ELSE walk
  /\ UNCHANGED disk

\* A kill; a later start rolls back what the journal holds.
Kill ==
  /\ \E c \in Call : stage[c] # "idle"
  /\ Atomic!Die
  /\ stage' = [c \in Call |-> "idle"]
  /\ cursor' = <<>>
  /\ draft' = NULL

Proceed(c) ==
  \/ Select(c)
  \/ c = Client /\ FetchAll
  \/ FetchMetadata(c)
  \/ Execute(c)
  \/ Commit(c)
  \/ Publish(c)

Next ==
  \/ \E c \in Writer : \E r \in Requests[c] : Submit(c, r)
  \/ Ask
  \/ \E c \in Call : Proceed(c)
  \/ \E c \in Call : TimeOut(c)
  \/ Kill

Spec == Init /\ [][Next]_vars

\* Each connection has a thread of its own, and a busy timeout.
FairSpec == Spec /\ \A c \in Call : WF_vars(Proceed(c) \/ TimeOut(c))

-----------------------------------------------------------------------------
(* Properties. *)

\* Through the locks every call keeps what Registry promises: a write shows as a
\* whole and only once it has returned, one that raises or is killed never, and
\* no list mixes the table of two moments, though its rows are fetched in two
\* steps with awaits in between.
CallsAreAtomic == Atomic!Spec

\* Nobody waits for a lock in a circle: while calls wait some other call can go
\* on, so that five seconds are only ever spent behind calls that work.
SomeCallProceeds ==
  (\E c \in Call : Blocked(c)) => \E c \in Call : stage[c] # "idle" /\ ~Blocked(c)

\* Whoever else keeps writing, a call returns or raises in the end.
CallsEnd == \A c \in Call : request[c] # NULL ~> request[c] = NULL

\* main.py: "Rows to skip (for pagination)".  A device that matched all along and
\* that no scan has seen meanwhile is on one of the pages, however many arrive,
\* are seen again or start to match between them, as long as none ceases to.  When
\* nothing changes the pages put together are the list.
WalkComplete ==
  walk.status = "done" =>
    /\ ~walk.left => walk.steady \subseteq Members(walk.got)
    /\ walk.list \in {NULL, walk.got}
=============================================================================
