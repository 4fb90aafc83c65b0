----------------------------- MODULE QuotaLedger -----------------------------
(***************************************************************************)
(* What app/services/usage.py promises about query quotas, without locks,  *)
(* transactions or handlers: a ledger in which admission is one atomic     *)
(* step.  QueryPipeline implements it (see QueryPipelineRefinement).       *)
(***************************************************************************)
EXTENDS Integers, FiniteSets

CONSTANTS
    Request,      \* requests that may ever be admitted
    User,         \* accounts
    Owner,        \* Owner[r]: whose allowance request r draws on
    DailyLimit,   \* admissions per calendar day; 0 for no limit
    TasterLimit,  \* admissions in the life of an unverified account; 0 likewise
    TTL,          \* the age past which an unsettled entry may expire
    DayLength,    \* clock ticks per day
    MaxTime,      \* bound on the clock
    Refundable    \* the kinds of entry a refund may remove

Absent == [kind |-> "none", at |-> 0, counted |-> 0]

Entry == [kind : {"reserved", "settled"}, at : 0..MaxTime, counted : 0..MaxTime]

ASSUME LedgerConstantsOK ==
    /\ IsFiniteSet(Request)
    /\ Owner \in [Request -> User]
    /\ DailyLimit \in Nat
    /\ TasterLimit \in Nat
    /\ TTL \in Nat
    /\ DayLength \in Nat \ {0}
    /\ MaxTime \in Nat
    /\ Refundable \subseteq {"reserved", "settled"}

VARIABLES
    now,       \* the wall clock
    verified,  \* verified[u]: the account has confirmed its address
    entry      \* entry[r]: what the ledger holds for request r

ledger == <<now, verified, entry>>

Day(t) == t \div DayLength

\* Faulty: an entry counts only once it is settled.
EntriesSettled(u) == {q \in Request : Owner[q] = u /\ entry[q].kind = "settled"}

EntriesOf(u) == {q \in Request : Owner[q] = u /\ entry[q] # Absent}

\* The entries an admission at this moment may strike out.
Expired(u) == {q \in EntriesOf(u) : entry[q].kind = "reserved" /\ entry[q].at + TTL < now}

Init ==
    /\ now = 0
    /\ verified \in [User -> BOOLEAN]
    /\ entry = [r \in Request |-> Absent]

\* Faulty: a full day still has room.
RoomForOneMore(u, left, counted) ==
    \/ TasterLimit = 0 \/ Cardinality(left) < TasterLimit
    \/ /\ verified[u]
       /\ \/ DailyLimit = 0
          \/ Cardinality({q \in left : Day(entry[q].at) >= Day(counted)}) <= DailyLimit

\* What is left of the entries after the strike-out leaves room for one more:
\* under the lifetime allowance, which an unverified account cannot avoid, or
\* under the allowance of the day on which the entries were counted.
Room(u, left, counted) ==
    \/ TasterLimit = 0 \/ Cardinality(left) < TasterLimit
    \/ /\ verified[u]
       /\ \/ DailyLimit = 0
          \/ Cardinality({q \in left : Day(entry[q].at) >= Day(counted)}) < DailyLimit

Admit(r) ==
    LET u == Owner[r]
    IN  /\ entry[r] = Absent
        /\ \E struck \in SUBSET Expired(u), at \in 0..now, counted \in 0..now :
              /\ Room(u, EntriesOf(u) \ struck, counted)
              /\ entry' = [q \in Request |->
                     IF q = r THEN [kind |-> "reserved", at |-> at, counted |-> counted]
                     ELSE IF q \in struck THEN Absent
                     ELSE entry[q]]
        /\ UNCHANGED <<now, verified>>

\* The work was done: the entry is final.
Settle(r) ==
    /\ entry[r].kind = "reserved"
    /\ entry' = [entry EXCEPT ![r].kind = "settled"]
    /\ UNCHANGED <<now, verified>>

\* The work was not done: the entry goes.
Refund(r) ==
    /\ entry[r].kind \in Refundable
    /\ entry' = [entry EXCEPT ![r] = Absent]
    /\ UNCHANGED <<now, verified>>

Verify(u) ==
    /\ ~verified[u]
    /\ verified' = [verified EXCEPT ![u] = TRUE]
    /\ UNCHANGED <<now, entry>>

Tick ==
    /\ now < MaxTime
    /\ now' = now + 1
    /\ UNCHANGED <<verified, entry>>

Next ==
    \/ \E r \in Request : Admit(r) \/ Settle(r) \/ Refund(r)
    \/ \E u \in User : Verify(u)
    \/ Tick

Spec == Init /\ [][Next]_ledger

-----------------------------------------------------------------------------
(***************************************************************************)
(* What the ledger promises.                                               *)
(***************************************************************************)
\* An account that never verified never holds more entries than its lifetime
\* allowance, whatever is struck out or refunded in between
\* (unverified_query_exceeded).
LifetimeHolds ==
    TasterLimit > 0 =>
        \A u \in User : ~verified[u] =>
            Cardinality({q \in Request : Owner[q] = u /\ entry[q] # Absent}) <= TasterLimit

\* The entries made and counted on one day stay within the daily allowance, also
\* for the account that verified during that day and so changed allowances
\* (enforce_limits); it needs a lifetime allowance that is on and no larger.
DayHolds ==
    TasterLimit \in 1..DailyLimit =>
        \A u \in User, d \in {Day(t) : t \in 0..MaxTime} :
            Cardinality({q \in Request : /\ Owner[q] = u
                                         /\ entry[q] # Absent
                                         /\ Day(entry[q].at) = d
                                         /\ Day(entry[q].counted) = d}) <= DailyLimit
=============================================================================
