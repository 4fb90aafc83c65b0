-------------------------- MODULE QuotaLedgerProofs --------------------------
(***************************************************************************)
(* The promises of the ledger, for every set of entries and accounts and   *)
(* every allowance, and whatever may be refunded or expires.               *)
(***************************************************************************)
EXTENDS QuotaLedger, FiniteSetTheorems, TLAPS

\* Every entry is absent or well formed (usage_events rows).
EntryOK == entry \in [Request -> Entry \cup {Absent}] /\ now \in 0..MaxTime

\* The ledger starts empty and at time zero (Init).
LEMMA EntryInit == Init => EntryOK
  BY LedgerConstantsOK DEF Init, EntryOK

\* Every step writes well-formed entries (reserve, commit_reservation, DELETE).
LEMMA EntryStep == EntryOK /\ [Next]_ledger => EntryOK'
<1> SUFFICES ASSUME EntryOK, [Next]_ledger PROVE EntryOK'
  OBVIOUS
<1> USE LedgerConstantsOK DEF EntryOK
<1>1. ASSUME NEW r \in Request, Admit(r) PROVE EntryOK'
  <2>1. PICK struck \in SUBSET Expired(Owner[r]), at \in 0..now, counted \in 0..now :
          entry' = [q \in Request |->
                     IF q = r THEN [kind |-> "reserved", at |-> at, counted |-> counted]
                     ELSE IF q \in struck THEN Absent
                     ELSE entry[q]]
    BY <1>1, ZenonT(60) DEF Admit
  <2>2. [kind |-> "reserved", at |-> at, counted |-> counted] \in Entry
    BY DEF Entry
  <2> QED
    BY <1>1, <2>1, <2>2 DEF Admit
<1>2. ASSUME NEW r \in Request, Settle(r) PROVE EntryOK'
  <2>1. entry[r] \in Entry
    BY <1>2 DEF Settle, Absent
  <2>2. [entry[r] EXCEPT !.kind = "settled"] \in Entry
    BY <2>1 DEF Entry
  <2> QED
    BY <1>2, <2>2 DEF Settle
<1>3. ASSUME NEW r \in Request, Refund(r) PROVE EntryOK'
  BY <1>3 DEF Refund
<1>4. ASSUME NEW u \in User, Verify(u) PROVE EntryOK'
  BY <1>4 DEF Verify
<1>5. CASE Tick
  BY <1>5 DEF Tick
<1>6. CASE UNCHANGED ledger
  BY <1>6 DEF ledger
<1> QED
  BY <1>1, <1>2, <1>3, <1>4, <1>5, <1>6 DEF Next

\* The entries of an account made and counted on one day (DayHolds).
OnDay(u, d) == {q \in EntriesOf(u) : Day(entry[q].at) = d /\ Day(entry[q].counted) = d}

Limits ==
    /\ TasterLimit > 0 =>
          \A u \in User : ~verified[u] => Cardinality(EntriesOf(u)) <= TasterLimit
    /\ TasterLimit \in 1..DailyLimit =>
          \A u \in User, d \in {Day(t) : t \in 0..MaxTime} :
             Cardinality(OnDay(u, d)) <= DailyLimit

\* Limits says the same as the two promises (LifetimeHolds, DayHolds).
LEMMA LimitsAreThePromises == Limits <=> LifetimeHolds /\ DayHolds
<1>1. \A u : EntriesOf(u) = {q \in Request : Owner[q] = u /\ entry[q] # Absent}
  BY DEF EntriesOf
<1>2. \A u, d : OnDay(u, d) = {q \in Request : /\ Owner[q] = u
                                              /\ entry[q] # Absent
                                              /\ Day(entry[q].at) = d
                                              /\ Day(entry[q].counted) = d}
  BY DEF OnDay, EntriesOf
<1> QED
  BY <1>1, <1>2 DEF Limits, LifetimeHolds, DayHolds

\* The ledger is finite (Request is).
LEMMA Finite ==
    ASSUME NEW S, S \subseteq Request
    PROVE  IsFiniteSet(S) /\ Cardinality(S) \in Nat
  BY LedgerConstantsOK, FS_Subset, FS_CardinalityType

\* Subsets of what stays within a limit stay within it.
LEMMA Fewer ==
    ASSUME NEW T, T \subseteq Request, NEW S, S \subseteq T,
           NEW limit \in Nat, Cardinality(T) <= limit
    PROVE  Cardinality(S) <= limit
<1>1. /\ Cardinality(S) \in Nat /\ Cardinality(T) \in Nat
      /\ Cardinality(S) <= Cardinality(T)
  BY Finite, FS_Subset
<1> QED
  BY <1>1

\* One entry more than what was below a limit is within it.
LEMMA OneMore ==
    ASSUME NEW T, T \subseteq Request, NEW x \in Request, NEW S, S \subseteq T \cup {x},
           NEW limit \in Nat, Cardinality(T) < limit
    PROVE  Cardinality(S) <= limit
<1>1. /\ IsFiniteSet(T \cup {x}) /\ Cardinality(T) \in Nat
      /\ Cardinality(T \cup {x}) \in {Cardinality(T), Cardinality(T) + 1}
  BY Finite, FS_AddElement
<1> QED
  BY <1>1, Fewer

\* A step that adds no entry, and moves none to another day, keeps the limits.
LEMMA NoNewEntry ==
    ASSUME Limits,
           \A u \in User : verified[u] => verified'[u],
           \A q \in Request : entry'[q] # Absent =>
              /\ entry[q] # Absent
              /\ entry'[q].at = entry[q].at
              /\ entry'[q].counted = entry[q].counted
    PROVE  Limits'
<1>1. TasterLimit \in Nat /\ DailyLimit \in Nat
  BY LedgerConstantsOK
<1>2. \A u \in User : EntriesOf(u)' \subseteq EntriesOf(u) /\ EntriesOf(u) \subseteq Request
  BY DEF EntriesOf
<1>3. \A u, d : OnDay(u, d)' \subseteq OnDay(u, d) /\ OnDay(u, d) \subseteq Request
  BY DEF OnDay, EntriesOf
<1>4. ASSUME TasterLimit > 0, NEW u \in User, ~verified'[u]
      PROVE  Cardinality(EntriesOf(u)') <= TasterLimit
  <2>1. Cardinality(EntriesOf(u)) <= TasterLimit
    BY <1>4 DEF Limits
  <2> QED
    BY <1>1, <1>2, <2>1, Fewer
<1>5. ASSUME TasterLimit \in 1..DailyLimit, NEW u \in User, NEW d \in {Day(t) : t \in 0..MaxTime}
      PROVE  Cardinality(OnDay(u, d)') <= DailyLimit
  <2>1. Cardinality(OnDay(u, d)) <= DailyLimit
    BY <1>5 DEF Limits
  <2> QED
    BY <1>1, <1>3, <2>1, Fewer
<1> QED
  BY <1>4, <1>5 DEF Limits

\* An admission stays within both limits: it found room in what it left
\* (enforce_limits).
LEMMA AdmitWithinLimits ==
    ASSUME EntryOK, Limits, NEW r \in Request, Admit(r)
    PROVE  Limits'
<1> DEFINE me == Owner[r]
<1>1. PICK struck \in SUBSET Expired(me), at \in 0..now, counted \in 0..now :
        /\ Room(me, EntriesOf(me) \ struck, counted)
        /\ entry' = [q \in Request |->
               IF q = r THEN [kind |-> "reserved", at |-> at, counted |-> counted]
               ELSE IF q \in struck THEN Absent
               ELSE entry[q]]
  BY DEF Admit
<1> DEFINE left == EntriesOf(me) \ struck
<1> DEFINE today == {q \in left : Day(entry[q].at) >= Day(counted)}
<1>2. /\ TasterLimit \in Nat /\ DailyLimit \in Nat /\ me \in User
      /\ UNCHANGED verified
  BY LedgerConstantsOK DEF Admit
<1>3. left \subseteq Request /\ today \subseteq Request
  BY DEF EntriesOf
<1>4. \A q \in Request : q # r /\ entry'[q] # Absent => q \notin struck /\ entry'[q] = entry[q]
  BY <1>1
<1>5. ASSUME TasterLimit > 0, NEW u \in User, ~verified'[u]
      PROVE  Cardinality(EntriesOf(u)') <= TasterLimit
  <2>1. CASE u = me
    <3>1. Cardinality(left) < TasterLimit
      BY <1>1, <1>2, <1>5, <2>1 DEF Room
    <3>2. EntriesOf(u)' \subseteq left \cup {r}
      BY <1>4, <2>1 DEF EntriesOf
    <3> QED
      BY <1>2, <1>3, <3>1, <3>2, OneMore
  <2>2. CASE u # me
    <3>1. EntriesOf(u)' \subseteq EntriesOf(u) /\ EntriesOf(u) \subseteq Request
      BY <1>4, <2>2 DEF EntriesOf
    <3>2. Cardinality(EntriesOf(u)) <= TasterLimit
      BY <1>2, <1>5 DEF Limits
    <3> QED
      BY <1>2, <3>1, <3>2, Fewer
  <2> QED
    BY <2>1, <2>2
<1>6. ASSUME TasterLimit \in 1..DailyLimit, NEW u \in User, NEW d \in {Day(t) : t \in 0..MaxTime}
      PROVE  Cardinality(OnDay(u, d)') <= DailyLimit
  <2>1. Cardinality(OnDay(u, d)) <= DailyLimit /\ OnDay(u, d) \subseteq Request
    BY <1>6 DEF Limits, OnDay, EntriesOf
  <2>2. CASE u # me \/ Day(counted) # d
    <3>1. r \notin OnDay(u, d)'
      BY <1>1, <2>2 DEF OnDay, EntriesOf
    <3>2. OnDay(u, d)' \subseteq OnDay(u, d)
      BY <1>4, <3>1 DEF OnDay, EntriesOf
    <3> QED
      BY <1>2, <2>1, <3>2, Fewer
  <2>3. CASE u = me /\ Day(counted) = d
    <3>1. OnDay(u, d)' \subseteq left \cup {r}
      BY <1>4, <2>3 DEF OnDay, EntriesOf
    <3>2. OnDay(u, d)' \subseteq today \cup {r}
      <4>1. d \in Int
        BY LedgerConstantsOK DEF Day
      <4>2. \A q \in OnDay(u, d)' \ {r} : q \in left /\ Day(entry[q].at) = d
        BY <1>4, <2>3 DEF OnDay, EntriesOf
      <4> QED
        BY <2>3, <4>1, <4>2
    <3>3. CASE Cardinality(left) < TasterLimit
      <4>1. Cardinality(left) < DailyLimit
        BY <1>2, <1>3, <1>6, <3>3, Finite
      <4> QED
        BY <1>2, <1>3, <3>1, <4>1, OneMore
    <3>4. CASE Cardinality(today) < DailyLimit
      BY <1>2, <1>3, <3>2, <3>4, OneMore
    <3> QED
      BY <1>1, <1>2, <1>6, <3>3, <3>4 DEF Room
  <2> QED
    BY <2>2, <2>3
<1> QED
  BY <1>5, <1>6 DEF Limits

\* The empty ledger is within its limits (Init).
LEMMA LimitsInit == Init => Limits
<1> SUFFICES ASSUME Init PROVE Limits
  OBVIOUS
<1>1. \A u, d : EntriesOf(u) = {} /\ OnDay(u, d) = {}
  BY DEF Init, EntriesOf, OnDay
<1>2. \A u, d : Cardinality(EntriesOf(u)) = 0 /\ Cardinality(OnDay(u, d)) = 0
  BY <1>1, FS_EmptySet
<1>3. TasterLimit \in Nat /\ DailyLimit \in Nat
  BY LedgerConstantsOK
<1> QED
  BY <1>2, <1>3 DEF Limits

\* Every step keeps the limits.
LEMMA LimitsStep == EntryOK /\ Limits /\ [Next]_ledger => Limits'
<1> SUFFICES ASSUME EntryOK, Limits, [Next]_ledger PROVE Limits'
  OBVIOUS
<1>1. CASE \E r \in Request : Admit(r)
  BY <1>1, AdmitWithinLimits
<1>2. ASSUME NEW r \in Request, Settle(r) PROVE Limits'
  <2>1. entry[r] # Absent /\ entry[r] \in Entry
    BY <1>2 DEF Settle, Absent, EntryOK
  <2>2. entry'[r].at = entry[r].at /\ entry'[r].counted = entry[r].counted
    BY <1>2, <2>1 DEF Settle, EntryOK, Entry
  <2>3. \A q \in Request : q # r => entry'[q] = entry[q]
    BY <1>2 DEF Settle, EntryOK
  <2>4. UNCHANGED verified
    BY <1>2 DEF Settle
  <2> QED
    BY <2>1, <2>2, <2>3, <2>4, NoNewEntry
<1>3. ASSUME NEW r \in Request, Refund(r) PROVE Limits'
  BY <1>3, NoNewEntry DEF Refund, EntryOK
<1>4. ASSUME NEW u \in User, Verify(u) PROVE Limits'
  <2>1. UNCHANGED entry /\ \A v \in User : verified[v] => verified'[v]
    BY <1>4 DEF Verify
  <2> QED
    BY <2>1, NoNewEntry
<1>5. CASE Tick
  BY <1>5, NoNewEntry DEF Tick
<1>6. CASE UNCHANGED ledger
  BY <1>6, NoNewEntry DEF ledger
<1> QED
  BY <1>1, <1>2, <1>3, <1>4, <1>5, <1>6 DEF Next

\* No account that never verified ever holds more entries than its lifetime
\* allowance (unverified_query_exceeded).
THEOREM LedgerLifetime == Spec => []LifetimeHolds
<1>1. Init => EntryOK /\ Limits
  BY EntryInit, LimitsInit
<1>2. EntryOK /\ Limits /\ [Next]_ledger => (EntryOK /\ Limits)'
  BY EntryStep, LimitsStep
<1>3. Limits => LifetimeHolds
  BY LimitsAreThePromises
<1> QED
  BY <1>1, <1>2, <1>3, PTL DEF Spec

\* No account makes and counts more entries on one day than its daily allowance
\* (query_quota_exceeded).
THEOREM LedgerDay == Spec => []DayHolds
<1>1. Init => EntryOK /\ Limits
  BY EntryInit, LimitsInit
<1>2. EntryOK /\ Limits /\ [Next]_ledger => (EntryOK /\ Limits)'
  BY EntryStep, LimitsStep
<1>3. Limits => DayHolds
  BY LimitsAreThePromises
<1> QED
  BY <1>1, <1>2, <1>3, PTL DEF Spec

=============================================================================
