------------------------- MODULE SourceHealthProofs -------------------------
(***************************************************************************)
(* What /api/health says of the sources is true for any interval, any      *)
(* duration of a cycle, and any set of configured integrations.            *)
(***************************************************************************)
EXTENDS SourceHealth, TLAPS

\* last_ok is never younger than the last answer.
AnsweredInv ==
  \A s \in Source : last_ok[s] # NULL => answered[s] # NULL /\ answered[s] <= last_ok[s]

\* How old a record may be whose source has answered every gather: it is made when
\* a gather ends, and lives through a merge, a sleep and the next gather.
MaxRecordAge ==
  CASE phase = "merge"  -> timer
    [] phase = "sleep"  -> MergeLimit + timer
    [] phase = "gather" -> MergeLimit + Interval + timer

SteadyInv ==
  \A s \in steady : answered[s] # NULL => last_ok[s] # NULL /\ last_ok[s] <= MaxRecordAge

HealthInv ==
  /\ TypeOK
  /\ timer <= Limit
  /\ AnsweredInv
  /\ SteadyInv

\* A tick makes an age older by at most one, keeps the order of two of them, and
\* makes none of nothing.
LEMMA OlderFacts ==
  ASSUME NEW a \in Age, NEW b \in Age
  PROVE  /\ Older(a) \in Age
         /\ Older(a) = NULL <=> a = NULL
         /\ a # NULL => Older(a) <= a + 1
         /\ a # NULL /\ b # NULL /\ a <= b => Older(a) <= Older(b)
BY HealthConstants DEF Older, Age, MaxAge, stale_threshold

LEMMA InitHealthInv == Init => HealthInv
BY HealthConstants
   DEF Init, HealthInv, TypeOK, Age, MaxAge, stale_threshold, Limit, AnsweredInv, SteadyInv

LEMMA TickHealthInv ==
  ASSUME HealthInv, Tick
  PROVE  HealthInv'
<1>1. /\ timer < Limit /\ timer' = timer + 1
      /\ last_ok' = [s \in Source |-> Older(last_ok[s])]
      /\ answered' = [s \in Source |-> Older(answered[s])]
      /\ phase' = phase /\ steady' = steady
  BY DEF Tick
<1>2. \A s \in Source : last_ok[s] \in Age /\ answered[s] \in Age
  BY DEF HealthInv, TypeOK
<1>3. Limit \in Nat /\ Limit' = Limit /\ timer \in Nat
  BY <1>1, HealthConstants DEF Limit, HealthInv, TypeOK
<1>4. TypeOK'
  BY <1>1, <1>2, OlderFacts DEF HealthInv, TypeOK
<1>5. AnsweredInv'
  BY <1>1, <1>2, OlderFacts DEF HealthInv, AnsweredInv
<1>6. SteadyInv'
  <2>1. MaxRecordAge \in Nat /\ MaxRecordAge' = MaxRecordAge + 1
    BY <1>1, <1>3, HealthConstants DEF MaxRecordAge, HealthInv, TypeOK
  <2>2. ASSUME NEW s \in steady, answered'[s] # NULL
        PROVE  last_ok'[s] # NULL /\ last_ok'[s] <= MaxRecordAge'
    <3>1. s \in Source
      BY DEF HealthInv, TypeOK
    <3>2. answered[s] # NULL
      BY <1>1, <1>2, <2>2, <3>1, OlderFacts
    <3>3. last_ok[s] # NULL /\ last_ok[s] <= MaxRecordAge
      BY <3>2 DEF HealthInv, SteadyInv
    <3>4. /\ last_ok'[s] = Older(last_ok[s])
          /\ last_ok'[s] # NULL /\ last_ok'[s] <= last_ok[s] + 1
      BY <1>1, <1>2, <3>1, <3>3, OlderFacts
    <3>5. last_ok[s] \in Nat /\ last_ok'[s] \in Nat
      BY <1>2, <1>4, <3>1, <3>3, <3>4, HealthConstants
         DEF TypeOK, Age, MaxAge, stale_threshold
    <3> QED
      BY <2>1, <3>3, <3>4, <3>5
  <2> QED
    BY <1>1, <2>2 DEF SteadyInv
<1> QED
  BY <1>1, <1>3, <1>4, <1>5, <1>6 DEF HealthInv

LEMMA RecordHealthInv ==
  ASSUME HealthInv, NEW nonempty \in SUBSET Enabled, Record(nonempty)
  PROVE  HealthInv'
<1>1. /\ phase' = "merge" /\ timer' = 0 /\ steady' = steady \cap nonempty
      /\ last_ok' = [s \in Source |-> IF s \in nonempty THEN 0 ELSE last_ok[s]]
      /\ answered' = [s \in Source |-> IF s \in nonempty THEN 0 ELSE answered[s]]
  BY DEF Record, Answers, Enter
<1>2. 0 \in Age /\ 0 # NULL
  BY HealthConstants DEF Age, MaxAge, stale_threshold
<1>3. TypeOK'
  BY <1>1, <1>2 DEF HealthInv, TypeOK
<1>4. AnsweredInv'
  BY <1>1, <1>2 DEF HealthInv, AnsweredInv
<1>5. SteadyInv'
  BY <1>1, <1>2 DEF HealthInv, TypeOK, SteadyInv, MaxRecordAge
<1> QED
  BY <1>1, <1>3, <1>4, <1>5, HealthConstants DEF HealthInv, Limit

LEMMA RaiseHealthInv ==
  ASSUME HealthInv, NEW nonempty \in SUBSET Enabled, GatherRaises(nonempty)
  PROVE  HealthInv'
<1>1. /\ phase' = "sleep" /\ timer' = 0 /\ steady' = {} /\ last_ok' = last_ok
      /\ answered' = [s \in Source |-> IF s \in nonempty THEN 0 ELSE answered[s]]
  BY DEF GatherRaises, Answers, Enter
<1>2. 0 \in Age /\ 0 # NULL
  BY HealthConstants DEF Age, MaxAge, stale_threshold
<1>3. TypeOK'
  BY <1>1, <1>2 DEF HealthInv, TypeOK
<1>4. AnsweredInv'
  <2>1. \A s \in Source : last_ok[s] # NULL => 0 <= last_ok[s]
    BY HealthConstants DEF HealthInv, TypeOK, Age, MaxAge, stale_threshold
  <2> QED
    BY <1>1, <1>2, <2>1 DEF HealthInv, AnsweredInv
<1> QED
  BY <1>1, <1>3, <1>4, HealthConstants DEF HealthInv, Limit, SteadyInv

\* The phase changes, and nothing is recorded.
LEMMA EnterHealthInv ==
  ASSUME HealthInv,
         \/ phase = "sleep" /\ timer = Interval /\ Enter("gather")
         \/ phase = "merge" /\ Enter("sleep"),
         UNCHANGED <<last_ok, answered, steady>>
  PROVE  HealthInv'
<1>1. timer' = 0 /\ phase' \in {"sleep", "gather"}
  BY DEF Enter
<1>2. TypeOK' /\ AnsweredInv'
  BY <1>1 DEF HealthInv, TypeOK, AnsweredInv
<1>3. MaxRecordAge \in Nat /\ MaxRecordAge' \in Nat /\ MaxRecordAge <= MaxRecordAge'
  BY HealthConstants DEF HealthInv, TypeOK, Enter, MaxRecordAge, Limit
<1>4. SteadyInv'
  <2>1. ASSUME NEW s \in steady, answered[s] # NULL
        PROVE  last_ok[s] # NULL /\ last_ok[s] <= MaxRecordAge'
    <3>1. last_ok[s] # NULL /\ last_ok[s] <= MaxRecordAge
      BY <2>1 DEF HealthInv, SteadyInv
    <3>2. last_ok[s] \in Nat
      BY <3>1, HealthConstants DEF HealthInv, TypeOK, Age, MaxAge, stale_threshold
    <3> QED
      BY <1>3, <3>1, <3>2
  <2> QED
    BY <2>1 DEF SteadyInv
<1> QED
  BY <1>1, <1>2, <1>4, HealthConstants DEF HealthInv, Limit

LEMMA NextHealthInv == HealthInv /\ [Next]_vars => HealthInv'
<1> SUFFICES ASSUME HealthInv, [Next]_vars PROVE HealthInv'
  OBVIOUS
<1>1. CASE Tick
  BY <1>1, TickHealthInv
<1>2. CASE Wake
  BY <1>2, EnterHealthInv DEF Wake
<1>3. ASSUME NEW nonempty \in SUBSET Enabled, Record(nonempty) \/ GatherRaises(nonempty)
      PROVE  HealthInv'
  BY <1>3, RecordHealthInv, RaiseHealthInv
<1>4. CASE MergeRaises \/ FinishScan
  BY <1>4, EnterHealthInv DEF MergeRaises, FinishScan
<1>5. CASE Restart
  <2>1. NULL \in Age
    BY DEF Age
  <2> QED
    BY <1>5, <2>1, HealthConstants
       DEF Restart, Reset, HealthInv, TypeOK, Limit, AnsweredInv, SteadyInv
<1>6. CASE UNCHANGED vars
  BY <1>6 DEF vars, HealthInv, TypeOK, Limit, AnsweredInv, SteadyInv, MaxRecordAge
<1> QED
  BY <1>1, <1>2, <1>3, <1>4, <1>5, <1>6 DEF Next, Cycle

LEMMA HealthInvariant == Spec => []HealthInv
BY InitHealthInv, NextHealthInv, PTL DEF Spec

\* A green dashboard: whatever is configured, however long cycles take, whichever
\* of them raise and whenever the process restarts, each enabled source has given
\* a non-empty answer within two intervals, in this process.
THEOREM GreenIsRecent == Spec => []GreenMeansRecent
<1>1. HealthInv => GreenMeansRecent
  <2> SUFFICES ASSUME HealthInv, Overall = "ok", NEW s \in Enabled
               PROVE  answered[s] # NULL /\ answered[s] <= stale_threshold
    BY DEF GreenMeansRecent
  <2>1. Status(s) \notin {"unknown", "stale"}
    BY DEF Overall
  <2>2. last_ok[s] # NULL /\ last_ok[s] <= stale_threshold
    BY <2>1 DEF Status
  <2>3. s \in Source
    BY DEF Enabled, Source
  <2>4. answered[s] # NULL /\ answered[s] <= last_ok[s]
    BY <2>2, <2>3 DEF HealthInv, AnsweredInv
  <2>5. answered[s] \in Nat /\ last_ok[s] \in Nat /\ stale_threshold \in Nat
    BY <2>2, <2>3, <2>4, HealthConstants DEF HealthInv, TypeOK, Age, MaxAge, stale_threshold
  <2> QED
    BY <2>2, <2>4, <2>5
<1> QED
  BY <1>1, HealthInvariant, PTL

\* A source that answers every gather is "ok" from its first answer on, as long as
\* a gather and a merge together take no longer than the interval: the threshold
\* of two intervals leaves room for a whole sleep and the slowest cycle.
THEOREM SteadySourcesAreOk == Spec => []SteadySourcesOk
<1>1. HealthInv => SteadySourcesOk
  <2> SUFFICES ASSUME HealthInv, GatherLimit + MergeLimit <= Interval,
                      NEW s \in Enabled \cap steady, answered[s] # NULL
               PROVE  Status(s) = "ok"
    BY DEF SteadySourcesOk
  <2>1. last_ok[s] # NULL /\ last_ok[s] <= MaxRecordAge
    BY DEF HealthInv, SteadyInv
  <2>2. MaxRecordAge \in Nat /\ MaxRecordAge <= stale_threshold
    BY HealthConstants DEF HealthInv, TypeOK, Limit, MaxRecordAge, stale_threshold
  <2>3. last_ok[s] \in Nat /\ stale_threshold \in Nat
    BY <2>1, HealthConstants DEF HealthInv, TypeOK, Age, MaxAge, stale_threshold
  <2> QED
    BY <2>1, <2>2, <2>3 DEF Status
<1> QED
  BY <1>1, HealthInvariant, PTL
=============================================================================
