---------------------------- MODULE SyslogProofs ----------------------------
(***************************************************************************)
(* What the table of syslog entries says of when a message was sent and of *)
(* who sent it, for any calendar, any delays and any set of devices.  What *)
(* the stamps and the HOSTNAMEs are worth is up to the devices, so two of  *)
(* the theorems have a condition on them.                                  *)
(***************************************************************************)
EXTENDS Syslog, WellFoundedInduction, TLAPS

\* No clock is ahead, and what a stamp is behind its arrival, by its clock and by
\* the delay, is no more than a year less a month: only then its year is certain.
ClocksAreBehind ==
  \A skew \in Skew : skew <= 0 /\ MaxDelay - skew <= DaysPerYear - DaysPerMonth

\* A device whose HOSTNAME looks like an address writes its own.
NamesAreOwn == \A a \in Address : Hostnames[a] \subseteq {a, NoAddress}

-----------------------------------------------------------------------------
(* The invariant. *)

\* What Send makes a datagram of.
Sent(d) ==
  /\ d \in Datagram
  /\ d.addr \in {d.device, Relay}
  /\ d.hostname \in Hostnames[d.device]
  /\ d.format = "bare" => d.hostname = NoAddress /\ d.clock = NoStamp
  /\ d.clock # NoStamp => \E skew \in Skew : d.clock = d.sent + skew

\* A datagram is under way for MaxDelay days at most, and an entry is what was
\* parsed of one on a day within them.
Arrives(d, day) == day \in Nat /\ d.sent <= day /\ day <= d.sent + MaxDelay

NetworkInv == \A d \in network : Sent(d) /\ Arrives(d, today)

StoredInv ==
  \A e \in Stored :
    /\ Sent(e.datagram)
    /\ \E now \in Nat : Arrives(e.datagram, now) /\ e = ParseSyslog(e.datagram, now)

SyslogInv ==
  /\ TypeOK
  /\ NetworkInv
  /\ StoredInv

-----------------------------------------------------------------------------
(* The calendar. *)

LEMMA DivMod ==
  ASSUME NEW a \in Int, NEW b \in Nat \ {0}
  PROVE  /\ a \div b \in Int /\ a % b \in 0..(b - 1)
         /\ a = b * (a \div b) + (a % b)
<1>1. a \div b \in Int /\ a % b \in Int
  OBVIOUS
<1>2. 0 <= a % b /\ a % b < b
  OBVIOUS
<1>3. a = b * (a \div b) + (a % b)
  OBVIOUS
<1> QED
  BY <1>1, <1>2, <1>3

\* A product is monotonic, and strictly so.
LEMMA Multiples ==
  ASSUME NEW b \in Nat \ {0}, NEW p \in Int, NEW q \in Int
  PROVE  /\ p <= q => b * p <= b * q
         /\ b * p < b * (q + 1) => p <= q
<1>1. ASSUME NEW k \in Int, NEW l \in Int, k <= l
      PROVE  b * k <= b * l
  <2>1. b * l = b * k + b * (l - k)
    OBVIOUS
  <2>2. b * (l - k) >= 0
    BY <1>1
  <2> QED
    BY <2>1, <2>2
<1>2. p <= q => b * p <= b * q
  BY <1>1
<1>3. ASSUME b * p < b * (q + 1), q + 1 <= p
      PROVE  FALSE
  BY <1>1, <1>3
<1> QED
  BY <1>2, <1>3

LEMMA YearIsPositive == DaysPerYear \in Nat \ {0}
<1>1. MonthsPerYear * DaysPerMonth >= 1
  BY SyslogConstants
<1> QED
  BY <1>1, SyslogConstants DEF DaysPerYear

\* In months of equal length the month tells the year, of a stamp that is at most
\* a year less a month old: a larger month is of the last year, and no other is.
LEMMA YearIsFound ==
  ASSUME NEW now \in Int, NEW stamp \in Int,
         stamp <= now, now - stamp <= DaysPerYear - DaysPerMonth
  PROVE  ParseRfc3164(now, stamp) = stamp
<1> DEFINE Y == DaysPerYear
           D == DaysPerMonth
<1>1. Y \in Nat \ {0} /\ D \in Nat \ {0}
  BY YearIsPositive, SyslogConstants
<1> HIDE DEF Y, D
<1> DEFINE q == stamp \div Y
           r == stamp % Y
           qn == now \div Y
           rn == now % Y
<1>2. /\ q \in Int /\ r \in Int /\ qn \in Int /\ rn \in Int
      /\ 0 <= r /\ r < Y /\ 0 <= rn /\ rn < Y
      /\ stamp = Y * q + r /\ now = Y * qn + rn
  BY <1>1, DivMod
<1>3. ParseRfc3164(now, stamp) = (IF (r \div D) > (rn \div D) THEN qn - 1 ELSE qn) * Y + r
  BY DEF ParseRfc3164, Year, Month, Y, D
<1>4. stamp <= now /\ now - stamp <= Y - D
  BY DEF Y, D
<1> HIDE DEF q, r, qn, rn
<1> DEFINE m == r \div D
           mn == rn \div D
<1>5. /\ m \in Int /\ mn \in Int
      /\ r % D \in 0..(D - 1) /\ rn % D \in 0..(D - 1)
      /\ r = D * m + (r % D) /\ rn = D * mn + (rn % D)
  BY <1>1, <1>2, DivMod
<1> HIDE DEF m, mn
<1>6. D * m <= r /\ r < D * (m + 1) /\ D * mn <= rn /\ rn < D * (mn + 1)
  <2>1. D * (m + 1) = D * m + D /\ D * (mn + 1) = D * mn + D
    BY <1>1, <1>5
  <2>2. D * m \in Int /\ D * mn \in Int
    BY <1>1, <1>5
  <2> QED
    BY <1>1, <1>5, <2>1, <2>2
<1>7. q <= qn
  <2>1. Y * (qn + 1) = Y * qn + Y
    BY <1>1, <1>2
  <2>2. Y * q < Y * (qn + 1)
    BY <1>1, <1>2, <1>4, <2>1
  <2> QED
    BY <1>1, <1>2, <2>2, Multiples
<1>8. qn <= q + 1
  <2>1. Y * (q + 2) = Y * q + Y + Y
    BY <1>1, <1>2
  <2>2. Y * qn < Y * (q + 2)
    BY <1>1, <1>2, <1>4, <2>1
  <2> QED
    BY <1>1, <1>2, <2>2, Multiples
<1>9. CASE qn = q
  <2>1. r <= rn
    BY <1>1, <1>2, <1>4, <1>9
  <2>2. D * m < D * (mn + 1)
    BY <1>1, <1>2, <1>5, <1>6, <2>1
  <2>3. m <= mn
    BY <1>1, <1>5, <2>2, Multiples
  <2> QED
    BY <1>1, <1>2, <1>3, <1>5, <1>9, <2>3 DEF m, mn
<1>10. CASE qn = q + 1
  <2>1. Y * qn = Y * q + Y
    BY <1>1, <1>2, <1>10
  <2>2. rn <= r - D
    BY <1>1, <1>2, <1>4, <2>1
  <2>3. D * (m + 1) = D * m + D
    BY <1>1, <1>5
  <2>4. D * mn < D * m
    BY <1>1, <1>2, <1>5, <1>6, <2>2, <2>3
  <2>5. m > mn
    BY <1>1, <1>5, <2>4, Multiples
  <2> QED
    BY <1>1, <1>2, <1>3, <1>5, <1>10, <2>5 DEF m, mn
<1> QED
  BY <1>2, <1>7, <1>8, <1>9, <1>10
\* A set of integers between two bounds has a largest and a smallest member.
LEMMA Extremes ==
  ASSUME NEW S \in SUBSET Int, S # {}, NEW lo \in Int, NEW hi \in Int,
         \A k \in S : lo <= k /\ k <= hi
  PROVE  /\ Max(S) \in S /\ \A k \in S : k <= Max(S)
         /\ Min(S) \in S /\ \A k \in S : Min(S) <= k
<1> DEFINE R == {ss \in Nat \X Nat : ss[1] < ss[2]}
<1>1. IsWellFoundedOn(R, Nat)
  BY NatLessThanWellFounded DEF OpToRel
<1>2. ASSUME NEW T \in SUBSET Nat, T # {}
      PROVE  \E t \in T : \A u \in T : t <= u
  <2>1. PICK t \in T : \A u \in T : <<u, t>> \notin R
    BY <1>1, <1>2, WFMin
  <2>2. ASSUME NEW u \in T
        PROVE  t <= u
    <3>1. <<u, t>> \notin R /\ u \in Nat /\ t \in Nat
      BY <2>1
    <3> QED
      BY <3>1
  <2> QED
    BY <2>2
<1> HIDE DEF R
<1>3. \E k \in S : \A l \in S : k <= l
  <2> DEFINE T == {k - lo : k \in S}
  <2>1. T \in SUBSET Nat /\ T # {}
    <3>1. \A k \in S : k - lo \in Nat
      OBVIOUS
    <3> QED
      BY <3>1
  <2>2. PICK t \in T : \A u \in T : t <= u
    BY <1>2, <2>1
  <2>3. PICK k \in S : t = k - lo
    BY <2>2
  <2>4. ASSUME NEW l \in S
        PROVE  k <= l
    <3>1. l - lo \in T
      OBVIOUS
    <3>2. k - lo <= l - lo
      BY <2>2, <2>3, <3>1
    <3> QED
      BY <3>2
  <2> QED
    BY <2>4
<1>4. \E k \in S : \A l \in S : k >= l
  <2> DEFINE T == {hi - k : k \in S}
  <2>1. T \in SUBSET Nat /\ T # {}
    <3>1. \A k \in S : hi - k \in Nat
      OBVIOUS
    <3> QED
      BY <3>1
  <2>2. PICK t \in T : \A u \in T : t <= u
    BY <1>2, <2>1
  <2>3. PICK k \in S : t = hi - k
    BY <2>2
  <2>4. ASSUME NEW l \in S
        PROVE  k >= l
    <3>1. hi - l \in T
      OBVIOUS
    <3>2. hi - k <= hi - l
      BY <2>2, <2>3, <3>1
    <3> QED
      BY <3>2
  <2> QED
    BY <2>4
<1>5. Max(S) \in S /\ \A k \in S : Max(S) >= k
  BY <1>4 DEF Max
<1>6. Min(S) \in S /\ \A k \in S : Min(S) <= k
  BY <1>3 DEF Min
<1> QED
  BY <1>5, <1>6

-----------------------------------------------------------------------------
(* The steps. *)

LEMMA ParsedIsEntry ==
  ASSUME NEW d \in Datagram, NEW now \in Nat
  PROVE  ParseSyslog(d, now) \in Entry
<1>1. /\ d.addr \in Address \cup {Relay} /\ d.hostname \in Address \cup {NoAddress}
      /\ d.clock \in Int \cup {NoStamp}
  BY DEF Datagram
<1>2. ResolveSource(d) \in Address \cup {Relay}
  BY <1>1 DEF ResolveSource
<1>3. ASSUME NEW stamp \in Int
      PROVE  ParseRfc3164(now, stamp) \in Int
  <2> DEFINE y == IF Month(stamp) > Month(now) THEN Year(now) - 1 ELSE Year(now)
  <2>1. /\ now \div DaysPerYear \in Int
        /\ stamp % DaysPerYear \in 0..(DaysPerYear - 1)
    BY YearIsPositive, DivMod
  <2>2. y \in Int
    BY <2>1 DEF Year
  <2>3. ParseRfc3164(now, stamp) = (y * DaysPerYear) + (stamp % DaysPerYear)
    BY DEF ParseRfc3164
  <2> HIDE DEF y
  <2> QED
    BY <2>1, <2>2, <2>3, YearIsPositive
<1>4. Timestamp(d, now) \in Int
  <2>1. CASE d.clock = NoStamp
    BY <2>1 DEF Timestamp
  <2>2. CASE d.clock # NoStamp /\ d.format = "rfc3164"
    <3>1. ParseRfc3164(now, d.clock) \in Int
      BY <1>1, <1>3, <2>2
    <3>2. Timestamp(d, now) = ParseRfc3164(now, d.clock)
      BY <2>2 DEF Timestamp
    <3> QED
      BY <3>1, <3>2
  <2>3. CASE d.clock # NoStamp /\ d.format # "rfc3164"
    BY <1>1, <2>3 DEF Timestamp
  <2> QED
    BY <2>1, <2>2, <2>3
<1> QED
  BY <1>2, <1>4 DEF ParseSyslog, Entry

LEMMA InitSyslogInv == Init => SyslogInv
<1> SUFFICES ASSUME Init PROVE SyslogInv
  OBVIOUS
<1>1. FirstDay \in FirstDay..LastDay
  BY SyslogConstants
<1>2. TypeOK
  BY <1>1 DEF Init, TypeOK
<1> QED
  BY <1>2 DEF Init, SyslogInv, NetworkInv, StoredInv, Stored

\* A datagram that a device sends.
LEMMA SendInv ==
  ASSUME SyslogInv, NEW id \in Message, NEW a \in Address, NEW via \in {a, Relay},
         NEW hostname \in Address \cup {NoAddress}, NEW format \in Format,
         NEW clock \in {today + skew : skew \in Skew} \cup {NoStamp},
         Send(id, a, via, hostname, format, clock)
  PROVE  SyslogInv'
<1> DEFINE d == [id |-> id, device |-> a, addr |-> via, hostname |-> hostname,
                 format |-> format, clock |-> clock, sent |-> today]
<1>1. /\ network' = network \cup {d} /\ unsent' = unsent \ {id}
      /\ UNCHANGED <<today, listening, tasks, syslogs, received>>
  BY DEF Send
<1>2. today \in Nat
  BY SyslogConstants DEF SyslogInv, TypeOK
<1>3. Sent(d)
  <2>1. clock \in Int \cup {NoStamp}
    BY <1>2, SyslogConstants
  <2>2. d \in Datagram
    BY <1>2, <2>1 DEF Datagram
  <2>3. hostname \in Hostnames[a] /\ (format = "bare" => hostname = NoAddress /\ clock = NoStamp)
    BY DEF Send
  <2>4. clock # NoStamp => \E skew \in Skew : clock = today + skew
    OBVIOUS
  <2> QED
    BY <2>2, <2>3, <2>4 DEF Sent
<1>4. Arrives(d, today)
  BY <1>2, SyslogConstants DEF Arrives
<1> HIDE DEF d
<1>5. TypeOK'
  BY <1>1, <1>3 DEF SyslogInv, TypeOK, Sent
<1>6. NetworkInv'
  BY <1>1, <1>3, <1>4 DEF SyslogInv, NetworkInv, Arrives
<1>7. StoredInv'
  BY <1>1 DEF SyslogInv, StoredInv, Stored
<1> QED
  BY <1>5, <1>6, <1>7 DEF SyslogInv
LEMMA NextDayInv ==
  ASSUME SyslogInv, NextDay
  PROVE  SyslogInv'
<1>1. /\ today < LastDay /\ today' = today + 1
      /\ \A d \in network : today - d.sent < MaxDelay
      /\ UNCHANGED <<listening, network, tasks, syslogs, unsent, received>>
  BY DEF NextDay
<1>2. today \in FirstDay..LastDay /\ FirstDay \in Nat /\ LastDay \in Nat /\ MaxDelay \in Nat
  BY SyslogConstants DEF SyslogInv, TypeOK
<1>3. TypeOK'
  <2>1. today' \in FirstDay..LastDay
    BY <1>1, <1>2
  <2> QED
    BY <1>1, <2>1 DEF SyslogInv, TypeOK
<1>4. NetworkInv'
  <2> SUFFICES ASSUME NEW d \in network PROVE Sent(d) /\ Arrives(d, today')
    BY <1>1 DEF NetworkInv
  <2>1. Sent(d) /\ Arrives(d, today) /\ d.sent \in Nat
    BY DEF SyslogInv, NetworkInv, Sent, Datagram
  <2> QED
    BY <1>1, <1>2, <2>1 DEF Arrives
<1>5. StoredInv'
  BY <1>1 DEF SyslogInv, StoredInv, Stored
<1> QED
  BY <1>3, <1>4, <1>5 DEF SyslogInv

LEMMA ReceivedInv ==
  ASSUME SyslogInv, NEW d \in network, DatagramReceived(d)
  PROVE  SyslogInv'
<1> DEFINE e == ParseSyslog(d, today)
<1>1. /\ network' = network \ {d} /\ tasks' = tasks \cup {e}
      /\ received' = received \cup {d.id}
      /\ UNCHANGED <<today, listening, syslogs, unsent>>
  BY DEF DatagramReceived
<1>2. Sent(d) /\ Arrives(d, today) /\ d \in Datagram /\ d.id \in Message /\ today \in Nat
  BY DEF SyslogInv, NetworkInv, Sent, Datagram, Arrives
<1>3. e \in Entry /\ e.datagram = d
  BY <1>2, ParsedIsEntry DEF ParseSyslog
<1>4. \E now \in Nat : Arrives(e.datagram, now) /\ e = ParseSyslog(e.datagram, now)
  BY <1>2, <1>3
<1> HIDE DEF e
<1>5. TypeOK'
  BY <1>1, <1>2, <1>3 DEF SyslogInv, TypeOK
<1>6. NetworkInv'
  BY <1>1 DEF SyslogInv, NetworkInv
<1>7. StoredInv'
  BY <1>1, <1>2, <1>3, <1>4 DEF SyslogInv, StoredInv, Stored
<1> QED
  BY <1>5, <1>6, <1>7 DEF SyslogInv

\* What adds no datagram and no entry, and has the day stay the same.
LEMMA NothingNewInv ==
  ASSUME SyslogInv, today' = today, network' \subseteq network, Stored' \subseteq Stored,
         listening' \in BOOLEAN, unsent' = unsent, received' \subseteq received
  PROVE  SyslogInv'
<1>1. TypeOK'
  BY DEF SyslogInv, TypeOK, Stored
<1>2. NetworkInv'
  BY DEF SyslogInv, NetworkInv
<1>3. StoredInv'
  BY DEF SyslogInv, StoredInv
<1> QED
  BY <1>1, <1>2, <1>3 DEF SyslogInv

LEMMA NextSyslogInv == SyslogInv /\ [Next]_vars => SyslogInv'
<1> SUFFICES ASSUME SyslogInv, [Next]_vars PROVE SyslogInv'
  OBVIOUS
<1>1. listening \in BOOLEAN
  BY DEF SyslogInv, TypeOK
<1>2. CASE Listen
  BY <1>1, <1>2, NothingNewInv DEF Listen, Stored
<1>3. ASSUME NEW t \in tasks, InsertSyslog(t) \/ InsertRaises(t)
      PROVE  SyslogInv'
  BY <1>1, <1>3, NothingNewInv DEF InsertSyslog, InsertRaises, Stored
<1>4. CASE PurgeOldSyslogs
  BY <1>1, <1>4, NothingNewInv DEF PurgeOldSyslogs, Purge, Stored
<1>5. CASE Stop
  BY <1>1, <1>5, NothingNewInv DEF Stop, Stored
<1>6. ASSUME NEW d \in network, Lose(d)
      PROVE  SyslogInv'
  BY <1>1, <1>6, NothingNewInv DEF Lose, Stored
<1>7. CASE UNCHANGED vars
  BY <1>1, <1>7, NothingNewInv DEF vars, Stored
<1>8. CASE Environment
  BY <1>6, <1>8, SendInv, NextDayInv DEF Environment
<1>9. CASE Server
  BY <1>2, <1>3, <1>4, <1>5, <1>9, ReceivedInv DEF Server
<1> QED
  BY <1>7, <1>8, <1>9 DEF Next

LEMMA SyslogInvariant == Spec => []SyslogInv
BY InitSyslogInv, NextSyslogInv, PTL DEF Spec

-----------------------------------------------------------------------------
(* What the table says of when a message was sent. *)

\* The stamp of an entry is that of its device's clock, where there is one, and
\* else the day of its arrival.
LEMMA StampsAreClocks ==
  ASSUME SyslogInv, ClocksAreBehind, NEW e \in Stored
  PROVE  /\ e.datagram.sent \in Nat
         /\ e.datagram.clock # NoStamp =>
              e.timestamp = e.datagram.clock /\ \E skew \in Skew : e.timestamp = e.datagram.sent + skew
         /\ e.datagram.clock = NoStamp => Arrives(e.datagram, e.timestamp)
<1> DEFINE d == e.datagram
<1>1. PICK now \in Nat : Arrives(d, now) /\ e = ParseSyslog(d, now)
  BY DEF SyslogInv, StoredInv
<1>2. Sent(d)
  BY DEF SyslogInv, StoredInv
<1>3. e.timestamp = Timestamp(d, now)
  BY <1>1 DEF ParseSyslog
<1> HIDE DEF d
<1>4. d.sent \in Nat /\ d.clock \in Int \cup {NoStamp}
  BY <1>2 DEF Sent, Datagram
<1>5. CASE d.clock = NoStamp
  <2>1. e.timestamp = now
    BY <1>3, <1>5 DEF Timestamp
  <2> QED
    BY <1>1, <1>4, <1>5, <2>1 DEF d
<1>6. CASE d.clock # NoStamp
  <2>1. PICK skew \in Skew : d.clock = d.sent + skew
    BY <1>2, <1>6 DEF Sent
  <2>2. /\ skew \in Int /\ skew <= 0 /\ MaxDelay - skew <= DaysPerYear - DaysPerMonth
        /\ MaxDelay \in Nat /\ DaysPerYear \in Int /\ DaysPerMonth \in Int
    BY SyslogConstants, YearIsPositive DEF ClocksAreBehind
  <2>3. d.clock \in Int /\ d.clock <= now /\ now - d.clock <= DaysPerYear - DaysPerMonth
    BY <1>1, <1>4, <2>1, <2>2 DEF Arrives
  <2>4. ParseRfc3164(now, d.clock) = d.clock
    BY <2>3, YearIsFound
  <2>5. e.timestamp = d.clock
    <3>1. CASE d.format = "rfc3164"
      BY <1>3, <1>6, <2>4, <3>1 DEF Timestamp
    <3>2. CASE d.format # "rfc3164"
      BY <1>3, <1>6, <3>2 DEF Timestamp
    <3> QED
      BY <3>1, <3>2
  <2> QED
    BY <1>4, <1>6, <2>1, <2>5 DEF d
<1> QED
  BY <1>5, <1>6

\* Where ClocksAreBehind, every stamp without a year is given that of the clock
\* which wrote it, also across the turn of the year.
THEOREM YearsAreResolved == Spec => [](ClocksAreBehind => YearResolved)
<1>1. SyslogInv => (ClocksAreBehind => YearResolved)
  BY StampsAreClocks DEF YearResolved
<1> QED
  BY <1>1, SyslogInvariant, PTL

\* And the purge deletes nothing sent within the retention period, less what a
\* clock is behind.
THEOREM FreshEntriesAreKept == ASSUME ClocksAreBehind PROVE Spec => FreshKept
<1>1. ASSUME SyslogInv, [Next]_vars, NEW e \in syslogs \ syslogs'
      PROVE  \E skew \in Skew : e.datagram.sent + skew < today - Retention
  <2>1. PurgeOldSyslogs
    BY <1>1 DEF Next, Server, Environment, Listen, DatagramReceived, InsertSyslog, InsertRaises,
                Stop, Send, Lose, NextDay, vars
  <2>2. e.timestamp < today - Retention
    BY <1>1, <2>1 DEF PurgeOldSyslogs, Purge
  <2>3. CASE e.datagram.clock # NoStamp
    BY <1>1, <2>2, <2>3, StampsAreClocks DEF Stored
  <2>4. CASE e.datagram.clock = NoStamp
    <3>1. /\ e.datagram.sent \in Nat /\ e.timestamp \in Nat /\ e.datagram.sent <= e.timestamp
      BY <1>1, <2>4, StampsAreClocks DEF Stored, Arrives
    <3>2. PICK skew \in Skew : skew \in Int /\ skew <= 0
      BY SyslogConstants DEF ClocksAreBehind
    <3>3. today \in Int /\ Retention \in Nat
      BY <1>1, SyslogConstants DEF SyslogInv, TypeOK
    <3> QED
      BY <2>2, <3>1, <3>2, <3>3
  <2> QED
    BY <2>3, <2>4
<1>2. SyslogInv /\ [Next]_vars =>
        [\A e \in syslogs \ syslogs' :
           \E skew \in Skew : e.datagram.sent + skew < today - Retention]_vars
  BY <1>1
<1> QED
  BY <1>2, SyslogInvariant, PTL DEF Spec, FreshKept

LEMMA DatedWithin ==
  ASSUME SyslogInv, ClocksAreBehind, NEW e \in syslogs
  PROVE  /\ e.timestamp \in Int
         /\ Earliest(e.datagram) \in Int /\ Earliest(e.datagram) <= e.timestamp
         /\ Latest(e.datagram) \in Int /\ e.timestamp <= Latest(e.datagram)
<1> DEFINE d == e.datagram
<1>1. e \in Stored
  BY DEF Stored
<1>2. Max(Skew) \in Skew /\ Min(Skew) \in Skew
      /\ \A skew \in Skew : Min(Skew) <= skew /\ skew <= Max(Skew)
  <2> DEFINE lo == MaxDelay - (DaysPerYear - DaysPerMonth)
  <2>1. /\ lo \in Int /\ 0 \in Int /\ Skew \in SUBSET Int /\ Skew # {} /\ MaxDelay \in Nat
        /\ DaysPerYear \in Int /\ DaysPerMonth \in Int
    BY SyslogConstants, YearIsPositive
  <2>2. \A skew \in Skew : lo <= skew /\ skew <= 0
    BY <2>1 DEF ClocksAreBehind
  <2> HIDE DEF lo
  <2>3. /\ Max(Skew) \in Skew /\ \A skew \in Skew : skew <= Max(Skew)
        /\ Min(Skew) \in Skew /\ \A skew \in Skew : Min(Skew) <= skew
    BY <2>1, <2>2, Extremes
  <2> QED
    BY <2>3
<1>3. d.sent \in Nat /\ MaxDelay \in Nat /\ Skew \subseteq Int
  BY <1>1, StampsAreClocks, SyslogConstants
<1>4. CASE d.clock = NoStamp
  <2>1. Arrives(d, e.timestamp)
    BY <1>1, <1>4, StampsAreClocks
  <2>2. Earliest(d) = d.sent /\ Latest(d) = d.sent + MaxDelay
    BY <1>3, <1>4 DEF Earliest, Latest
  <2> QED
    BY <1>3, <2>1, <2>2 DEF Arrives
<1>5. CASE d.clock # NoStamp
  <2>1. PICK skew \in Skew : e.timestamp = d.sent + skew
    BY <1>1, <1>5, StampsAreClocks
  <2>2. Earliest(d) = d.sent + Min(Skew) /\ Latest(d) = d.sent + Max(Skew)
    BY <1>5 DEF Earliest, Latest
  <2>3. /\ skew \in Int /\ Min(Skew) \in Int /\ Max(Skew) \in Int
        /\ Min(Skew) <= skew /\ skew <= Max(Skew)
    BY <1>2, <1>3
  <2> HIDE DEF d
  <2>4. /\ e.timestamp \in Int
        /\ Earliest(d) \in Int /\ Earliest(d) <= e.timestamp
        /\ Latest(d) \in Int /\ e.timestamp <= Latest(d)
    BY <1>3, <2>1, <2>2, <2>3
  <2> QED
    BY <2>4 DEF d
<1> QED
  BY <1>4, <1>5

\* A reply leaves out nothing for what was sent before it, as far as the clocks and
\* the delays can tell, whatever the limit and whoever has sent the entries.
THEOREM RecentEntriesAreShown == Spec => [](ClocksAreBehind => RecentShown)
<1>1. ASSUME SyslogInv, ClocksAreBehind, NEW matching \in SUBSET syslogs
      PROVE  NothingNewerLeftOut(Newest(matching), matching)
  <2> SUFFICES ASSUME NEW shown \in Newest(matching), NEW e \in shown, NEW f \in matching \ shown
               PROVE  Earliest(f.datagram) <= Latest(e.datagram)
    BY DEF NothingNewerLeftOut
  <2>1. shown \in SUBSET matching /\ e.timestamp >= f.timestamp
    BY DEF Newest, kSubset
  <2>2. e \in syslogs /\ f \in syslogs
    BY <2>1
  <2>3. e.timestamp \in Int /\ e.timestamp <= Latest(e.datagram) /\ Latest(e.datagram) \in Int
    BY <1>1, <2>2, DatedWithin
  <2>4. f.timestamp \in Int /\ Earliest(f.datagram) <= f.timestamp /\ Earliest(f.datagram) \in Int
    BY <1>1, <2>2, DatedWithin
  <2> QED
    BY <2>1, <2>3, <2>4
<1>2. ASSUME SyslogInv, ClocksAreBehind
      PROVE  RecentShown
  <2>1. \A ip \in Address : NothingNewerLeftOut(GetLogsForIp(ip), {e \in syslogs : e.source_ip = ip})
    BY <1>1, <1>2 DEF GetLogsForIp
  <2>2. {e \in syslogs : e.datagram.id \in Message} = syslogs
    BY <1>2 DEF SyslogInv, TypeOK, Entry, Datagram
  <2>3. SearchSyslogs(Message) = Newest(syslogs)
    BY <2>2 DEF SearchSyslogs
  <2>4. NothingNewerLeftOut(SearchSyslogs(Message), syslogs)
    BY <1>1, <1>2, <2>3
  <2> QED
    BY <2>1, <2>4 DEF RecentShown
<1>3. SyslogInv => (ClocksAreBehind => RecentShown)
  BY <1>2
<1> QED
  BY <1>3, SyslogInvariant, PTL

-----------------------------------------------------------------------------
(* What it says of who sent it. *)

\* Where NamesAreOwn, an entry is filed under its device, whether the datagram came
\* from there or through the relay, unless the relay is all there is to go by.
THEOREM EntriesAreFiledUnderOrigin == Spec => [](NamesAreOwn => FiledUnderOrigin)
<1>1. ASSUME SyslogInv, NamesAreOwn, NEW e \in Stored,
             \/ e.datagram.addr = e.datagram.device
             \/ e.datagram.format # "bare" /\ e.datagram.hostname # NoAddress
      PROVE  e.source_ip = e.datagram.device
  <2>1. Sent(e.datagram) /\ e.source_ip = ResolveSource(e.datagram)
    BY <1>1 DEF SyslogInv, StoredInv, ParseSyslog
  <2>2. e.datagram.hostname \in {e.datagram.device, NoAddress}
    BY <1>1, <2>1 DEF NamesAreOwn, Sent, Datagram
  <2> QED
    BY <1>1, <2>1, <2>2 DEF ResolveSource
<1>2. SyslogInv => (NamesAreOwn => FiledUnderOrigin)
  BY <1>1 DEF FiledUnderOrigin
<1> QED
  BY <1>2, SyslogInvariant, PTL

-----------------------------------------------------------------------------
(* What the hand-over to the tasks keeps. *)

\* A received message that nothing has claimed is with its task or in the table.
NoneForgotten == \A id \in received : \E e \in Stored : e.datagram.id = id

LEMMA NextNoneForgotten == NoneForgotten /\ [Next]_vars => NoneForgotten'
<1> SUFFICES ASSUME NoneForgotten, [Next]_vars, NEW id \in received'
             PROVE  \E e \in Stored' : e.datagram.id = id
  BY DEF NoneForgotten
<1>1. ASSUME id \in received, UNCHANGED <<tasks, syslogs>>
      PROVE  \E e \in Stored' : e.datagram.id = id
  BY <1>1 DEF NoneForgotten, Stored
<1>2. ASSUME NEW d \in network, DatagramReceived(d)
      PROVE  \E e \in Stored' : e.datagram.id = id
  <2>1. ParseSyslog(d, today) \in Stored' /\ ParseSyslog(d, today).datagram = d
    BY <1>2 DEF DatagramReceived, ParseSyslog, Stored
  <2>2. Stored \subseteq Stored' /\ received' = received \cup {d.id}
    BY <1>2 DEF DatagramReceived, Stored
  <2> QED
    BY <2>1, <2>2 DEF NoneForgotten
<1>3. ASSUME NEW t \in tasks, InsertSyslog(t)
      PROVE  \E e \in Stored' : e.datagram.id = id
  <2>1. Stored \subseteq Stored' /\ received' = received
    BY <1>3 DEF InsertSyslog, Stored
  <2> QED
    BY <2>1 DEF NoneForgotten
<1>4. ASSUME NEW t \in tasks, InsertRaises(t)
      PROVE  \E e \in Stored' : e.datagram.id = id
  <2>1. Stored \ {t} \subseteq Stored' /\ id \in received /\ id # t.datagram.id
    BY <1>4 DEF InsertRaises, Stored
  <2> QED
    BY <2>1 DEF NoneForgotten
<1>5. CASE PurgeOldSyslogs
  <2> DEFINE expired == {e \in syslogs : e.timestamp < today - Retention}
  <2>1. Stored \ expired \subseteq Stored' /\ id \in received
        /\ id \notin {e.datagram.id : e \in expired}
    BY <1>5 DEF PurgeOldSyslogs, Purge, Stored
  <2> HIDE DEF expired
  <2>2. PICK e \in Stored : e.datagram.id = id
    BY <2>1 DEF NoneForgotten
  <2>3. e \notin expired
    BY <2>1, <2>2
  <2> QED
    BY <2>1, <2>2, <2>3
<1>6. CASE Environment
  BY <1>1, <1>6 DEF Environment, Send, Lose, NextDay
<1>7. CASE Listen \/ UNCHANGED vars
  BY <1>1, <1>7 DEF Listen, vars
<1>8. CASE Stop
  BY <1>8 DEF Stop
<1> QED
  BY <1>2, <1>3, <1>4, <1>5, <1>6, <1>7, <1>8 DEF Next, Server

\* At every moment a message that was received, and that no exception, stop or purge
\* has claimed, is with its task or in the table: the hand-over drops none.  With the
\* tasks' fairness that makes ReceivedIsStored.
THEOREM ReceivedIsNeverForgotten == Spec => []NoneForgotten
<1>1. Init => NoneForgotten
  BY DEF Init, NoneForgotten
<1> QED
  BY <1>1, NextNoneForgotten, PTL DEF Spec
=============================================================================
