----------------------------- MODULE DeviceList -----------------------------
(***************************************************************************)
(* What a list of devices depends on: the order in which the scans saw     *)
(* them, their types, and the pages and filters of get_all_devices.  And   *)
(* a client of GET /api/devices that walks through the pages.              *)
(***************************************************************************)
EXTENDS Naturals, Sequences

CONSTANTS
  MAC, Type, NULL,
  Writer,       \* the scan loop and the operator
  Client,       \* who lists the devices
  Requests,     \* the writes each writer may ask for
  Filters,      \* device_type parameters, NULL for none
  Limits,       \* limit parameters, NULL for none
  Tables        \* the tables to start from

Call == Writer \cup {Client}

Request == [op : {"upsert", "retype", "merge", "list"}, mac : MAC \cup {NULL}, type : Type \cup {NULL}]
List    == [op |-> "list", mac |-> NULL, type |-> NULL]

Table ==
  {t \in [order : Seq(MAC), detected : [MAC -> Type \cup {NULL}], custom : [MAC -> Type \cup {NULL}]] :
     \A i, j \in DOMAIN t.order : t.order[i] = t.order[j] => i = j}

ASSUME RegistryConstants ==
  /\ NULL \notin MAC \cup Type \cup Request \cup Table
  /\ Client \notin Writer
  /\ Requests \in [Writer -> SUBSET Request]
  /\ \A c \in Writer : \A r \in Requests[c] : r.op # "list" /\ r.mac # NULL
  /\ Filters \subseteq Type \cup {NULL}
  /\ Limits \subseteq (Nat \ {0}) \cup {NULL}
  /\ Tables \subseteq Table

-----------------------------------------------------------------------------
(* The table. *)

Members(s) == {s[i] : i \in DOMAIN s}

Least(m, n) == IF m < n THEN m ELSE n

\* The elements of s that are in S, in their order: of each prefix of s, and of s.
ChosenUpTo(s, S) ==
  LET chosen[n \in 0..Len(s)] ==
        IF n = 0 THEN <<>>
        ELSE IF s[n] \in S THEN Append(chosen[n - 1], s[n])
        ELSE chosen[n - 1]
  IN  chosen

Chosen(s, S) == ChosenUpTo(s, S)[Len(s)]

\* Faulty variant, to test the properties with: ORDER BY last_seen.
Upserted_Oldest(t, m, type) ==
  [t EXCEPT !.order = Append(Chosen(t.order, MAC \ {m}), m), !.detected[m] = type]

\* upsert_device: the device is the last seen, and the scan's type replaces its own.
Upserted(t, m, type) ==
  [t EXCEPT !.order = <<m>> \o Chosen(t.order, MAC \ {m}), !.detected[m] = type]

\* set_custom_type; an unknown MAC changes nothing and gets a 404.
Retyped(t, m, type) == IF m \in Members(t.order) THEN [t EXCEPT !.custom[m] = type] ELSE t

\* merge_host_containers rewrites metadata, which no list is ordered or filtered by.
Applied(t, r) ==
  CASE r.op = "upsert" -> Upserted(t, r.mac, r.type)
    [] r.op = "retype" -> Retyped(t, r.mac, r.type)
    [] OTHER           -> t

\* COALESCE(custom_type, device_type)
EffectiveType(t, m) == IF t.custom[m] # NULL THEN t.custom[m] ELSE t.detected[m]

Matching(t, filter) == {m \in MAC : filter = NULL \/ EffectiveType(t, m) = filter}

Selected(t, filter) == Chosen(t.order, Matching(t, filter))

\* get_all_devices: without a limit all rows, and the offset does not matter.
Page(t, filter, limit, offset) ==
  LET rows == Selected(t, filter)
  IN  IF limit = NULL THEN rows ELSE SubSeq(rows, offset + 1, Least(offset + limit, Len(rows)))

-----------------------------------------------------------------------------
(* The client's walk: it asks for page after page until one is not full. *)

Walk ==
  [status : {"none", "walking", "done"}, filter : Filters \cup {NULL}, limit : Limits \cup {NULL},
   offset : Nat, got : Seq(MAC),
   \* History:
   steady : SUBSET MAC,  \* matched the filter all along, and were not seen by a scan
   left   : BOOLEAN,     \* some device ceased to match
   list   : Seq(MAC) \cup {NULL}]  \* the whole list, while nothing has changed

NoWalk ==
  [status |-> "none", filter |-> NULL, limit |-> NULL, offset |-> 0, got |-> <<>>,
   steady |-> {}, left |-> FALSE, list |-> <<>>]

SetOut(t, filter, limit) ==
  [NoWalk EXCEPT !.status = "walking", !.filter = filter, !.limit = limit,
                 !.steady = Members(Selected(t, filter)), !.list = Selected(t, filter)]

\* The next page, or the last.
Advanced(w, page) ==
  LET last == w.limit = NULL \/ Len(page) < w.limit
  IN  [w EXCEPT !.got = @ \o page,
                !.status = IF last THEN "done" ELSE "walking",
                !.offset = IF last THEN 0 ELSE @ + w.limit]

\* A write that took the table from t to u, as the walk sees it.
Witnessed(w, t, u, r) ==
  LET before == Members(Selected(t, w.filter))
      after  == Members(Selected(u, w.filter))
  IN  IF w.status # "walking" THEN w
      ELSE [w EXCEPT !.steady = IF r.op = "upsert" THEN @ \ {r.mac} ELSE @ \cap after,
                     !.left = @ \/ ~(before \subseteq after),
                     !.list = IF t = u THEN @ ELSE NULL]

=============================================================================
