------------------------------- MODULE Syslog -------------------------------
(***************************************************************************)
(* The syslog pipeline: src/syslog_server.py parses each datagram and      *)
(* hands it to a task of its own, insert_syslog stores it, every scan      *)
(* cycle purge_old_syslogs deletes by timestamp, and get_logs_for_ip and   *)
(* search_syslogs return the newest.  Time is counted in days of a         *)
(* calendar without leap days; the devices and the network between them    *)
(* and the server are the environment.                                     *)
(***************************************************************************)
EXTENDS FiniteSetsExt, Integers

CONSTANTS
  Message,         \* identities of the messages sent
  Address,         \* IPv4 addresses of the devices that send them
  Relay,           \* 127.0.0.1, where an rsyslog relay forwards from
  NoAddress,       \* a HOSTNAME that does not look like an IPv4 address
  NoStamp,         \* no time in the header, or one that does not parse
  MonthsPerYear, DaysPerMonth,
  Retention,       \* days purge_old_syslogs keeps
  FirstDay, LastDay,  \* the days modelled
  MaxDelay,        \* days a datagram may be under way
  Skew,            \* by how many days a device's clock may be ahead
  Hostnames,       \* what a device with address a may write as HOSTNAME
  LogLimit,        \* entries a reply holds (50 and 100 in the code)
  Failures         \* "insert" may raise, "stop" may end the process

DaysPerYear == MonthsPerYear * DaysPerMonth

ASSUME SyslogConstants ==
  /\ MonthsPerYear \in Nat \ {0} /\ DaysPerMonth \in Nat \ {0}
  /\ Retention \in Nat /\ MaxDelay \in Nat
  /\ Skew \subseteq Int /\ Skew # {}
  /\ NoStamp \notin Int
  /\ LogLimit \in Nat \ {0}
  /\ FirstDay \in Nat /\ LastDay \in Nat
  /\ FirstDay >= 2 * DaysPerYear /\ FirstDay <= LastDay
  /\ Relay \notin Address /\ NoAddress \notin Address \cup {Relay}
  /\ Hostnames \in [Address -> SUBSET (Address \cup {NoAddress})]
  /\ Failures \subseteq {"insert", "stop"}

Format == {"rfc3164", "rfc5424", "bare"}

VARIABLES
  today,      \* the server's clock, in days
  listening,  \* the UDP endpoint is open
  network,    \* datagrams under way
  tasks,      \* insert_syslog tasks created and not finished
  syslogs,    \* the syslogs table
  unsent,     \* messages not sent yet
  received    \* History: messages received that no exception, stop or purge has claimed

vars == <<today, listening, network, tasks, syslogs, unsent, received>>

Datagram ==
  [id : Message, device : Address, addr : Address \cup {Relay},
   hostname : Address \cup {NoAddress}, format : Format, clock : Int \cup {NoStamp}, sent : Nat]

\* A stored entry; the fields of its datagram are kept beside it as history.
Entry == [source_ip : Address \cup {Relay}, timestamp : Int, datagram : Datagram]

TypeOK ==
  /\ today \in FirstDay..LastDay
  /\ listening \in BOOLEAN
  /\ network \subseteq Datagram
  /\ tasks \subseteq Entry
  /\ syslogs \subseteq Entry
  /\ unsent \subseteq Message
  /\ received \subseteq Message

Init ==
  /\ today = FirstDay
  /\ listening = FALSE
  /\ network = {}
  /\ tasks = {}
  /\ syslogs = {}
  /\ unsent = Message
  /\ received = {}

-----------------------------------------------------------------------------
(* Parsing. *)

Year(day)  == day \div DaysPerYear
Month(day) == (day % DaysPerYear) \div DaysPerMonth

\* Faulty variant, to test the properties with: always this year.
ParseRfc3164_ThisYear(now, stamp) ==
  (Year(now) * DaysPerYear) + (stamp % DaysPerYear)

\* _parse_rfc3164_ts: the stamp has no year; this year is taken, or the last one
\* if the month is ahead of the current one.
ParseRfc3164(now, stamp) ==
  LET year == IF Month(stamp) > Month(now) THEN Year(now) - 1 ELSE Year(now)
  IN  (year * DaysPerYear) + (stamp % DaysPerYear)

\* The `timestamp` of parse_syslog: without a usable stamp it is the time of arrival.
Timestamp(d, now) ==
  IF d.clock = NoStamp THEN now
  ELSE IF d.format = "rfc3164" THEN ParseRfc3164(now, d.clock)
  ELSE d.clock

\* Faulty variant, to test the properties with: the HOSTNAME is not looked at.
ResolveSource_Sender(d) == d.addr

\* _resolve_source: any HOSTNAME that looks like an address is believed.
ResolveSource(d) ==
  IF d.format # "bare" /\ d.hostname # NoAddress THEN d.hostname ELSE d.addr

ParseSyslog(d, now) ==
  [source_ip |-> ResolveSource(d), timestamp |-> Timestamp(d, now), datagram |-> d]

-----------------------------------------------------------------------------
(* Reading: the newest entries that match, any of them among equals. *)

LimitOf(matching) == Min({LogLimit, Cardinality(matching)})

\* Faulty variant, to test the properties with: no ORDER BY.
Newest_AnyOrder(matching) == kSubset(LimitOf(matching), matching)

\* ORDER BY timestamp DESC LIMIT ?
Newest(matching) ==
  {shown \in kSubset(LimitOf(matching), matching) :
     \A e \in shown, f \in matching \ shown : e.timestamp >= f.timestamp}

GetLogsForIp(ip) == Newest({e \in syslogs : e.source_ip = ip})

\* q is in the texts of the messages ids.
SearchSyslogs(ids) == Newest({e \in syslogs : e.datagram.id \in ids})

-----------------------------------------------------------------------------
(* The environment: devices, network, the clock. *)

\* A bare message has no header, so no stamp and no HOSTNAME.
Send(id, a, via, hostname, format, clock) ==
  /\ id \in unsent
  /\ hostname \in Hostnames[a]
  /\ format = "bare" => hostname = NoAddress /\ clock = NoStamp
  /\ network' = network \cup
       {[id |-> id, device |-> a, addr |-> via, hostname |-> hostname,
         format |-> format, clock |-> clock, sent |-> today]}
  /\ unsent' = unsent \ {id}
  /\ UNCHANGED <<today, listening, tasks, syslogs, received>>

Lose(d) ==
  /\ d \in network
  /\ network' = network \ {d}
  /\ UNCHANGED <<today, listening, tasks, syslogs, unsent, received>>

\* Neither a datagram nor a task outlives MaxDelay days.
NextDay ==
  /\ today < LastDay
  /\ \A d \in network : today - d.sent < MaxDelay
  /\ tasks = {}
  /\ today' = today + 1
  /\ UNCHANGED <<listening, network, tasks, syslogs, unsent, received>>

-----------------------------------------------------------------------------
(* The server. *)

\* start_syslog_server, from lifespan.
Listen ==
  /\ ~listening
  /\ listening' = TRUE
  /\ UNCHANGED <<today, network, tasks, syslogs, unsent, received>>

DatagramReceived(d) ==
  /\ listening
  /\ d \in network
  /\ network' = network \ {d}
  /\ tasks' = tasks \cup {ParseSyslog(d, today)}
  /\ received' = received \cup {d.id}
  /\ UNCHANGED <<today, listening, syslogs, unsent>>

\* Faulty variant, to test the properties with: no commit.
InsertSyslog_NoCommit(t) ==
  /\ t \in tasks
  /\ tasks' = tasks \ {t}
  /\ UNCHANGED <<today, listening, network, syslogs, unsent, received>>

\* Tasks run in any order, each on a connection of its own.
InsertSyslog(t) ==
  /\ t \in tasks
  /\ tasks' = tasks \ {t}
  /\ syslogs' = syslogs \cup {t}
  /\ UNCHANGED <<today, listening, network, unsent, received>>

\* Nobody awaits the task: an exception in it is the end of the message.
InsertRaises(t) ==
  /\ "insert" \in Failures
  /\ t \in tasks
  /\ tasks' = tasks \ {t}
  /\ received' = received \ {t.datagram.id}
  /\ UNCHANGED <<today, listening, network, syslogs, unsent>>

\* DELETE FROM syslogs: what the comparison of timestamps selects is gone.
Purge(expired) ==
  /\ listening
  /\ syslogs' = syslogs \ expired
  /\ received' = received \ {e.datagram.id : e \in expired}
  /\ UNCHANGED <<today, listening, network, tasks, unsent>>

\* Faulty variant, to test the properties with: the comparison is turned round.
PurgeOldSyslogs_Newer == Purge({e \in syslogs : e.timestamp > today - Retention})

\* After each cycle of the scan loop; there may be several a day.
PurgeOldSyslogs == Purge({e \in syslogs : e.timestamp < today - Retention})

\* A shutdown closes the transport and waits for no task; a kill does neither.
Stop ==
  /\ "stop" \in Failures
  /\ listening
  /\ listening' = FALSE
  /\ tasks' = {}
  /\ received' = {}
  /\ UNCHANGED <<today, network, syslogs, unsent>>

Server ==
  \/ Listen
  \/ \E d \in network : DatagramReceived(d)
  \/ \E t \in tasks : InsertSyslog(t) \/ InsertRaises(t)
  \/ PurgeOldSyslogs
  \/ Stop

Environment ==
  \/ \E id \in Message, a \in Address, format \in Format :
       \E via \in {a, Relay}, hostname \in Address \cup {NoAddress} :
         \E clock \in {today + skew : skew \in Skew} \cup {NoStamp} :
           Send(id, a, via, hostname, format, clock)
  \/ \E d \in network : Lose(d)
  \/ NextDay

Next == Server \/ Environment

Spec == Init /\ [][Next]_vars

\* asyncio runs every task that is ready.
FairSpec == Spec /\ WF_vars(\E t \in tasks : InsertSyslog(t) \/ InsertRaises(t))

-----------------------------------------------------------------------------
(* Properties. *)

Stored == tasks \cup syslogs

\* ARCHITECTURE.md: timestamps without a year survive the turn of the year.  An
\* entry is stored under the day its device's clock showed.
YearResolved ==
  \A e \in Stored :
    e.datagram.format = "rfc3164" /\ e.datagram.clock # NoStamp => e.timestamp = e.datagram.clock

\* A message is filed under the device it comes from, unless a relay hides the
\* sender and its HOSTNAME is not an address.
FiledUnderOrigin ==
  \A e \in Stored :
    LET d == e.datagram
    IN  (d.addr = d.device \/ (d.format # "bare" /\ d.hostname # NoAddress)) =>
          e.source_ip = d.device

\* How late an entry may be dated, and how early: by the device's clock, or by the delay.
Latest(d)   == d.sent + (IF d.clock = NoStamp THEN MaxDelay ELSE Max(Skew))
Earliest(d) == d.sent + (IF d.clock = NoStamp THEN 0 ELSE Min(Skew))

NothingNewerLeftOut(replies, matching) ==
  \A shown \in replies : \A e \in shown, f \in matching \ shown :
    Earliest(f.datagram) <= Latest(e.datagram)

\* main.py: "the last 50 syslog messages received ..., ordered newest first".  A
\* reply leaves out no message for one sent before it, as far as clocks and delays
\* can tell, though the order is that of stamps which devices wrote, some of them
\* without a year, and some are missing.
RecentShown ==
  /\ \A ip \in Address : NothingNewerLeftOut(GetLogsForIp(ip), {e \in syslogs : e.source_ip = ip})
  /\ NothingNewerLeftOut(SearchSyslogs(Message), syslogs)

\* The purge never deletes a message sent within the retention period, less
\* what the slowest clock is behind.
FreshKept ==
  [][\A e \in syslogs \ syslogs' :
       \E skew \in Skew : e.datagram.sent + skew < today - Retention]_vars

\* A received message is not lost in the hand-over to its task: unless the
\* process stops or the insert raises, it gets into the table.
ReceivedIsStored ==
  \A id \in Message :
    id \in received ~> (id \notin received \/ \E e \in syslogs : e.datagram.id = id)
=============================================================================
