------------------------- MODULE QueryPipelineProofs -------------------------
(***************************************************************************)
(* Theorems about QueryPipeline, for every set of requests and accounts,   *)
(* every limit, every clock bound and every set of faults; and of the      *)
(* ledger that it implements (QueryPipelineRefinement).                    *)
(***************************************************************************)
EXTENDS QueryPipelineRefinement, FiniteSetTheorems, TLAPS

-----------------------------------------------------------------------------
(***************************************************************************)
(* Types.                                                                  *)
(***************************************************************************)

\* The labels a request is sent to after an await are labels of the program,
\* past admission: OnError, OnCancel and the After operators.
LEMMA Labels ==
    ASSUME NEW r \in Request
    PROVE  /\ OnError(r) \in Cleanup \cup Ended
           /\ OnCancel(r) \in Cleanup \cup Ended
           /\ AfterScope(r) \in Working
           /\ AfterEmbed(r) \in Working
           /\ AfterRetrieve(r) \in Working
           /\ AfterSettle(r) \in Working
           /\ AfterTrace(r) \in Working \cup Ended
           /\ AfterRelease(r) \in Cleanup \cup Ended
<1> USE DEF Cleanup, Ended, Working
<1>1. OnError(r) \in Cleanup \cup Ended
  BY DEF OnError
<1>2. OnCancel(r) \in Cleanup \cup Ended
  BY <1>1 DEF OnCancel
<1>3. AfterRelease(r) \in Cleanup \cup Ended
  BY DEF AfterRelease
<1> QED
  BY <1>1, <1>2, <1>3 DEF AfterScope, AfterEmbed, AfterRetrieve, AfterSettle, AfterTrace

\* Every variable starts with its type (Init).
LEMMA TypeInit == Init => TypeOK
  BY ConstantsOK DEF Init, TypeOK, Status, PCs, Modes

\* Sending one request to a label of the program keeps pc well typed (Goto).
LEMMA GotoType ==
    ASSUME TypeOK, NEW r \in Request, NEW label \in PCs, Goto(r, label)
    PROVE  pc' \in [Request -> PCs]
  BY DEF TypeOK, Goto

\* Giving up the lock keeps the lock table well typed (Unlock).
LEMMA UnlockType ==
    ASSUME TypeOK, NEW r \in Request, Unlock(r)
    PROVE  /\ lock' \in [User -> Request \cup {NoRequest}]
           /\ doomed' \in [User -> SUBSET Request]
  BY ConstantsOK DEF TypeOK, Unlock

\* A commit ends at its next label or in a handler, and leaves a well-typed
\* session behind (Commits).
LEMMA CommitsType ==
    ASSUME TypeOK, NEW r \in Request, NEW label \in PCs, Commits(r, label)
    PROVE  pc' \in [Request -> PCs] /\ dirty' \in [Request -> BOOLEAN]
<1>1. OnError(r) \in PCs /\ OnCancel(r) \in PCs
  BY Labels DEF PCs, Live
<1>2. CASE Goto(r, label) /\ UNCHANGED dirty
  BY <1>2, GotoType DEF TypeOK
<1>3. CASE AckLost(r)
  <2>1. PICK l \in {OnError(r), OnCancel(r)} : Goto(r, l)
    BY <1>3 DEF AckLost
  <2>2. pc' \in [Request -> PCs]
    BY <1>1, <2>1, GotoType
  <2>3. dirty' \in [Request -> BOOLEAN]
    BY <1>3 DEF AckLost, Spoil, TypeOK
  <2> QED
    BY <2>2, <2>3
<1> QED
  BY <1>2, <1>3 DEF Commits

\* No action takes a variable out of its type.
LEMMA TypeStep == TypeOK /\ [Next]_vars => TypeOK'
<1> SUFFICES ASSUME TypeOK, [Next]_vars PROVE TypeOK'
  OBVIOUS
<1> USE DEF tables, gate, arrival, runner, world
<1>p. /\ Admission \subseteq PCs
      /\ Working \subseteq PCs
      /\ Cleanup \subseteq PCs
      /\ Ended \subseteq PCs
  BY DEF PCs, Live
<1>1. ASSUME NEW r \in Request, Arrive(r) PROVE TypeOK'
  <2>1. pc' \in [Request -> PCs]
    BY <1>1, GotoType, <1>p DEF Arrive, Admission, Ended, Cleanup
  <2> QED
    BY <1>1, <2>1 DEF Arrive, TypeOK
<1>2. ASSUME NEW r \in Request, TakeLock(r) PROVE TypeOK'
  <2>1. pc' \in [Request -> PCs]
    BY <1>2, GotoType, <1>p DEF TakeLock, Admission
  <2>2. Stale(Owner[r], now) \in SUBSET Request
    BY DEF Stale, Rows
  <2> QED
    BY <1>2, <2>1, <2>2, ConstantsOK DEF TakeLock, TypeOK
<1>3. ASSUME NEW r \in Request, Check(r) PROVE TypeOK'
  <2>1. pc' \in [Request -> PCs]
    BY <1>3, GotoType, Labels, <1>p DEF Check, Admission
  <2>2. /\ lock' \in [User -> Request \cup {NoRequest}]
        /\ doomed' \in [User -> SUBSET Request]
    BY <1>3, UnlockType DEF Check, TypeOK
  <2> QED
    BY <1>3, <2>1, <2>2 DEF Check, TypeOK
<1>4. ASSUME NEW r \in Request, Reserve(r) PROVE TypeOK'
  <2>1. pc' \in [Request -> PCs] /\ dirty' \in [Request -> BOOLEAN]
    <3>1. (Goto(r, "scope") /\ UNCHANGED dirty) \/ AckLost(r)
      BY <1>4 DEF Reserve
    <3> QED
      BY <3>1, CommitsType, <1>p DEF Commits, Working
  <2>2. /\ lock' \in [User -> Request \cup {NoRequest}]
        /\ doomed' \in [User -> SUBSET Request]
    BY <1>4, UnlockType DEF Reserve
  <2>3. row' \in [Request -> Status]
    BY <1>4 DEF Reserve, TypeOK, Status
  <2> QED
    BY <1>4, <2>1, <2>2, <2>3 DEF Reserve, TypeOK, Modes
<1>5. ASSUME NEW r \in Request, ResolveScope(r) PROVE TypeOK'
  BY <1>5, GotoType, Labels, <1>p DEF ResolveScope, TypeOK
<1>6. ASSUME NEW r \in Request, SaveQuestion(r) PROVE TypeOK'
  <2>1. pc' \in [Request -> PCs] /\ dirty' \in [Request -> BOOLEAN]
    BY <1>6, CommitsType, <1>p DEF SaveQuestion, Working
  <2> QED
    BY <1>6, <2>1 DEF SaveQuestion, TypeOK
<1>7. ASSUME NEW r \in Request, Embed(r) PROVE TypeOK'
  BY <1>7, GotoType, Labels, <1>p DEF Embed, TypeOK
<1>8. ASSUME NEW r \in Request, Lookup(r) PROVE TypeOK'
  <2>1. pc' \in [Request -> PCs]
    BY <1>8, GotoType, <1>p DEF Lookup, Working
  <2> QED
    BY <1>8, <2>1 DEF Lookup, TypeOK, Modes
<1>9. ASSUME NEW r \in Request, Retrieve(r) PROVE TypeOK'
  <2>1. pc' \in [Request -> PCs]
    BY <1>9, GotoType, Labels, <1>p DEF Retrieve
  <2> QED
    BY <1>9, <2>1 DEF Retrieve, TypeOK, Modes
<1>10. ASSUME NEW r \in Request, Generate(r) PROVE TypeOK'
  <2>1. pc' \in [Request -> PCs]
    BY <1>10, GotoType, <1>p DEF Generate, Working
  <2> QED
    BY <1>10, <2>1 DEF Generate, TypeOK, Modes
<1>11. ASSUME NEW r \in Request, Settle(r) PROVE TypeOK'
  <2>1. pc' \in [Request -> PCs] /\ dirty' \in [Request -> BOOLEAN]
    <3>1. (Goto(r, AfterSettle(r)) /\ UNCHANGED dirty) \/ AckLost(r)
      BY <1>11 DEF Settle
    <3> QED
      BY <3>1, CommitsType, Labels, <1>p DEF Commits
  <2>2. row' \in [Request -> Status]
    BY <1>11 DEF Settle, TypeOK, Status
  <2>3. pending' \in [Request -> BOOLEAN] /\ hold' \in [Request -> BOOLEAN]
    BY <1>11 DEF Settle, TypeOK, StillPending
  <2> QED
    BY <1>11, <2>1, <2>2, <2>3 DEF Settle, TypeOK
<1>12. ASSUME NEW r \in Request, Store(r) PROVE TypeOK'
  <2>1. pc' \in [Request -> PCs] /\ dirty' \in [Request -> BOOLEAN]
    BY <1>12, CommitsType, <1>p DEF Store, Working
  <2> QED
    BY <1>12, <2>1 DEF Store, TypeOK
<1>13. ASSUME NEW r \in Request, Trace(r) PROVE TypeOK'
  <2>1. pc' \in [Request -> PCs]
    BY <1>13, GotoType, Labels, <1>p DEF Trace
  <2>2. traces' \in [Request -> Nat]
    BY <1>13 DEF Trace, TypeOK
  <2> QED
    BY <1>13, <2>1, <2>2 DEF Trace, TypeOK
<1>14. ASSUME NEW r \in Request, PersistAnswer(r) PROVE TypeOK'
  <2>1. pc' \in [Request -> PCs] /\ dirty' \in [Request -> BOOLEAN]
    BY <1>14, CommitsType, <1>p DEF PersistAnswer, Ended
  <2> QED
    BY <1>14, <2>1 DEF PersistAnswer, TypeOK
<1>15. ASSUME NEW r \in Request, Release(r) PROVE TypeOK'
  <2>1. pc' \in [Request -> PCs]
    BY <1>15, GotoType, Labels, <1>p DEF Release, Ended
  <2>2. row' \in [Request -> Status]
    BY <1>15 DEF Release, TypeOK, Status
  <2> QED
    BY <1>15, <2>1, <2>2 DEF Release, TypeOK
<1>16. ASSUME NEW r \in Request, Discard(r) PROVE TypeOK'
  <2>1. pc' \in [Request -> PCs]
    BY <1>16, GotoType, <1>p DEF Discard, Cleanup
  <2> QED
    BY <1>16, <2>1 DEF Discard, TypeOK
<1>17. ASSUME NEW r \in Request, Report(r) PROVE TypeOK'
  <2>1. pc' \in [Request -> PCs]
    BY <1>17, GotoType, <1>p DEF Report, Ended
  <2>2. traces' \in [Request -> Nat]
    BY <1>17 DEF Report, TypeOK
  <2> QED
    BY <1>17, <2>1, <2>2 DEF Report, TypeOK
<1>18. ASSUME NEW r \in Request, Fail(r) PROVE TypeOK'
  <2>1. pc' \in [Request -> PCs]
    BY <1>18, GotoType, Labels, <1>p DEF Fail
  <2>2. /\ lock' \in [User -> Request \cup {NoRequest}]
        /\ doomed' \in [User -> SUBSET Request]
    BY <1>18, UnlockType DEF Fail
  <2>3. hold' \in [Request -> BOOLEAN]
    <3>1. (hold[r] \/ pc[r] = "reserve") \in BOOLEAN
      OBVIOUS
    <3> QED
      BY <1>18, <3>1, Zenon DEF Fail, TypeOK
  <2>4. dirty' \in [Request -> BOOLEAN]
    <3>1. (pc[r] \in {"ask", "settle", "store", "persist"}) \in BOOLEAN
      OBVIOUS
    <3> QED
      BY <1>18, <3>1, Zenon DEF Fail, Spoil, TypeOK
  <2> QED
    BY <1>18, <2>1, <2>2, <2>3, <2>4 DEF Fail, TypeOK
<1>19. ASSUME NEW r \in Request, Cancel(r) PROVE TypeOK'
  <2>1. pc' \in [Request -> PCs]
    BY <1>19, GotoType, Labels, <1>p DEF Cancel
  <2>2. /\ lock' \in [User -> Request \cup {NoRequest}]
        /\ doomed' \in [User -> SUBSET Request]
    BY <1>19, UnlockType DEF Cancel
  <2>3. hold' \in [Request -> BOOLEAN]
    <3>1. (hold[r] \/ pc[r] = "reserve") \in BOOLEAN
      OBVIOUS
    <3> QED
      BY <1>19, <3>1, Zenon DEF Cancel, TypeOK
  <2>4. dirty' \in [Request -> BOOLEAN]
    <3>1. (pc[r] \in {"ask", "settle", "store", "persist"}) \in BOOLEAN
      OBVIOUS
    <3> QED
      BY <1>19, <3>1, Zenon DEF Cancel, Spoil, TypeOK
  <2> QED
    BY <1>19, <2>1, <2>2, <2>3, <2>4 DEF Cancel, TypeOK
<1>20. ASSUME NEW r \in Request, CleanupFails(r) PROVE TypeOK'
  <2>1. pc' \in [Request -> PCs]
    BY <1>20, GotoType, <1>p DEF CleanupFails, Ended
  <2> QED
    BY <1>20, <2>1 DEF CleanupFails, TypeOK
<1>21. ASSUME NEW r \in Request, Die(r) PROVE TypeOK'
  <2>1. pc' \in [Request -> PCs]
    BY <1>21, GotoType, <1>p DEF Die, Ended
  <2>2. /\ lock' \in [User -> Request \cup {NoRequest}]
        /\ doomed' \in [User -> SUBSET Request]
    BY <1>21, UnlockType DEF Die
  <2> QED
    BY <1>21, <2>1, <2>2 DEF Die, TypeOK
<1>22. ASSUME NEW u \in User, Verify(u) PROVE TypeOK'
  BY <1>22 DEF Verify, TypeOK
<1>23. CASE Tick
  BY <1>23, ConstantsOK DEF Tick, TypeOK
<1>24. CASE UNCHANGED vars
  BY <1>24 DEF vars, TypeOK
<1> QED
  BY <1>1, <1>2, <1>3, <1>4, <1>5, <1>6, <1>7, <1>8, <1>9, <1>10, <1>11, <1>12,
     <1>13, <1>14, <1>15, <1>16, <1>17, <1>18, <1>19, <1>20, <1>21, <1>22, <1>23, <1>24
     DEF Next, Step, AllDone

\* The tables, the lock, the clock and every QueryRunner keep their types.
THEOREM TypeCorrect == Spec => []TypeOK
  BY TypeInit, TypeStep, PTL DEF Spec

-----------------------------------------------------------------------------
(***************************************************************************)
(* Every answer is charged, if the TTL outlasts every request.             *)
(***************************************************************************)

\* No request runs, and no sweep is open, when the system starts (Init).
LEMMA ChargeInit == Init => ChargeInv
  BY DEF Init, ChargeInv, Admission, Live, Working, Cleanup, BeforeCharge, AfterCharge

\* No action breaks it: time stops at MaxAge for whoever runs, so the sweep
\* (TakeLock) passes over every live request, and only Settle charges.
LEMMA ChargeStep ==
    ASSUME MaxAge <= TTL
    PROVE  TypeOK /\ ChargeInv /\ [Next]_vars => ChargeInv'
<1> SUFFICES ASSUME TypeOK, ChargeInv, [Next]_vars PROVE ChargeInv'
  OBVIOUS
<1> USE DEF tables, gate, arrival, runner, world, TypeOK, ChargeInv, Goto, Unlock,
            Admission, Live, Working, Cleanup, Ended, BeforeCharge, AfterCharge
<1>1. ASSUME NEW r \in Request, Arrive(r) PROVE ChargeInv'
  BY <1>1, ConstantsOK, SMTT(30) DEF Arrive
<1>2. ASSUME NEW r \in Request, TakeLock(r) PROVE ChargeInv'
  <2>1. ASSUME NEW q \in Stale(Owner[r], now) PROVE pc[q] \in {"failed", "abandoned"}
    <3>1. q \in Request /\ row[q] = "reserved" /\ stamp[q] + TTL < now
      BY DEF Stale, Rows
    <3>2. pc[q] \notin Live
      BY <3>1, ConstantsOK
    <3> QED
      BY <3>1, <3>2 DEF PCs
  <2>2. Owner[r] \in User
    BY ConstantsOK
  <2>3. doomed' = [doomed EXCEPT ![Owner[r]] = Stale(Owner[r], now)]
    BY <1>2 DEF TakeLock
  <2>4. pc' = [pc EXCEPT ![r] = "check"] /\ pc[r] = "lock"
    BY <1>2 DEF TakeLock
  <2>5. UNCHANGED <<row, stamp, now>>
    BY <1>2 DEF TakeLock
  <2>6. \A u \in User : \A q \in doomed'[u] : pc'[q] \in {"failed", "abandoned"}
    <3> SUFFICES ASSUME NEW u \in User, NEW q \in doomed'[u]
                 PROVE  pc'[q] \in {"failed", "abandoned"}
      OBVIOUS
    <3>1. pc[q] \in {"failed", "abandoned"}
      BY <2>1, <2>2, <2>3
    <3>2. q \in Request
      BY <2>2, <2>3 DEF Stale, Rows
    <3> QED
      BY <2>4, <3>1, <3>2
  <2> QED
    BY <2>4, <2>5, <2>6
<1>3. ASSUME NEW r \in Request, Check(r) PROVE ChargeInv'
  <2>1. pc[r] = "check" /\ pc' = [pc EXCEPT ![r] = pc'[r]]
        /\ pc'[r] \in {"reserve", "failed", "release"}
    BY <1>3 DEF Check, OnError
  <2>2. UNCHANGED <<row, stamp, now>>
    BY <1>3 DEF Check
  <2>3. \A u \in User : doomed'[u] \subseteq doomed[u]
    BY <1>3 DEF Check
  <2> QED
    BY <2>1, <2>2, <2>3
<1>4. ASSUME NEW r \in Request, Reserve(r) PROVE ChargeInv'
  <2>1. pc[r] = "reserve" /\ pc' = [pc EXCEPT ![r] = pc'[r]]
        /\ pc'[r] \in {"scope", "failed", "release", "abandoned"}
    BY <1>4 DEF Reserve, AckLost, OnError, OnCancel
  <2>2. \A q \in Request : row'[q] = IF q = r THEN "reserved"
                                     ELSE IF q \in doomed[Owner[r]] THEN "none"
                                     ELSE row[q]
    BY <1>4 DEF Reserve
  <2>3. UNCHANGED <<stamp, now>>
    BY <1>4 DEF Reserve
  <2>4. \A u \in User : doomed'[u] \subseteq doomed[u]
    BY <1>4 DEF Reserve
  <2>5. \A q \in doomed[Owner[r]] : pc[q] \in {"failed", "abandoned"}
    BY ConstantsOK
  <2> QED
    BY <2>1, <2>2, <2>3, <2>4, <2>5
<1>5. ASSUME NEW r \in Request, ResolveScope(r) PROVE ChargeInv'
  BY <1>5, ConstantsOK DEF ResolveScope, AfterScope
<1>6. ASSUME NEW r \in Request, SaveQuestion(r) PROVE ChargeInv'
  BY <1>6, ConstantsOK DEF SaveQuestion, Commits, AckLost, OnError, OnCancel
<1>7. ASSUME NEW r \in Request, Embed(r) PROVE ChargeInv'
  BY <1>7, ConstantsOK DEF Embed, AfterEmbed
<1>8. ASSUME NEW r \in Request, Lookup(r) PROVE ChargeInv'
  BY <1>8, ConstantsOK DEF Lookup
<1>9. ASSUME NEW r \in Request, Retrieve(r) PROVE ChargeInv'
  BY <1>9, ConstantsOK DEF Retrieve, AfterRetrieve
<1>10. ASSUME NEW r \in Request, Generate(r) PROVE ChargeInv'
  BY <1>10, ConstantsOK DEF Generate
<1>11. ASSUME NEW r \in Request, Settle(r) PROVE ChargeInv'
  BY <1>11, ConstantsOK DEF Settle, AckLost, AfterSettle, OnError, OnCancel
<1>12. ASSUME NEW r \in Request, Store(r) PROVE ChargeInv'
  BY <1>12, ConstantsOK, ZenonT(60) DEF Store, Commits, AckLost, OnError, OnCancel
<1>13. ASSUME NEW r \in Request, Trace(r) PROVE ChargeInv'
  BY <1>13, ConstantsOK, SMTT(30) DEF Trace, AfterTrace, OnError, OnCancel
<1>14. ASSUME NEW r \in Request, PersistAnswer(r) PROVE ChargeInv'
  BY <1>14, ConstantsOK DEF PersistAnswer, Commits, AckLost, OnError, OnCancel
<1>15. ASSUME NEW r \in Request, Release(r) PROVE ChargeInv'
  BY <1>15, ConstantsOK DEF Release, AfterRelease
<1>16. ASSUME NEW r \in Request, Discard(r) PROVE ChargeInv'
  BY <1>16, ConstantsOK DEF Discard
<1>17. ASSUME NEW r \in Request, Report(r) PROVE ChargeInv'
  BY <1>17, ConstantsOK DEF Report
<1>18. ASSUME NEW r \in Request, Fail(r) PROVE ChargeInv'
  BY <1>18, ConstantsOK DEF Fail, OnError
<1>19. ASSUME NEW r \in Request, Cancel(r) PROVE ChargeInv'
  BY <1>19, ConstantsOK DEF Cancel, OnCancel, OnError
<1>20. ASSUME NEW r \in Request, CleanupFails(r) PROVE ChargeInv'
  BY <1>20, ConstantsOK DEF CleanupFails
<1>21. ASSUME NEW r \in Request, Die(r) PROVE ChargeInv'
  BY <1>21, ConstantsOK DEF Die
<1>22. ASSUME NEW u \in User, Verify(u) PROVE ChargeInv'
  BY <1>22 DEF Verify
<1>23. CASE Tick
  BY <1>23, ConstantsOK DEF Tick
<1>24. CASE UNCHANGED vars
  BY <1>24 DEF vars
<1> QED
  BY <1>1, <1>2, <1>3, <1>4, <1>5, <1>6, <1>7, <1>8, <1>9, <1>10, <1>11, <1>12,
     <1>13, <1>14, <1>15, <1>16, <1>17, <1>18, <1>19, <1>20, <1>21, <1>22, <1>23, <1>24
     DEF Next, Step, AllDone

\* A request keeps its row from reserve() to its charge and after, under every
\* fault, if the TTL outlasts every request: no sweep meets a running request.
THEOREM ChargeSafe == MaxAge <= TTL => (Spec => []ChargeInv)
<1> SUFFICES ASSUME MaxAge <= TTL PROVE Spec => []ChargeInv
  OBVIOUS
<1>1. TypeOK /\ ChargeInv /\ [Next]_vars => ChargeInv'
  BY ChargeStep
<1> QED
  BY <1>1, ChargeInit, TypeCorrect, PTL DEF Spec

\* An answered request has its row, settled, if the TTL outlasts every request:
\* whatever fails, and whenever acquire_quota_lock sweeps.
THEOREM AnsweredCharged == MaxAge <= TTL => (Spec => []AnsweredIsCharged)
<1>1. ChargeInv => AnsweredIsCharged
  BY DEF ChargeInv, AnsweredIsCharged, AfterCharge
<1> QED
  BY <1>1, ChargeSafe, PTL

-----------------------------------------------------------------------------
(***************************************************************************)
(* The limits hold.                                                        *)
(***************************************************************************)

\* The control part of AdmissionInv: who holds the lock, who has a row, who
\* knows the account is unverified.
ControlInv == LockHeld /\ RowAfterAdmission /\ TasterKnown

\* Nobody is in admission when the system starts (Init).
LEMMA ControlInit == Init => ControlInv
  BY ConstantsOK DEF Init, ControlInv, LockHeld, RowAfterAdmission, TasterKnown, Admission

\* The lock is taken by TakeLock, given up on every way out of admission, and
\* nobody else touches it; rows appear at Reserve only; Verify has no inverse.
LEMMA ControlStep == TypeOK /\ ControlInv /\ [Next]_vars => ControlInv'
<1> SUFFICES ASSUME TypeOK, ControlInv, [Next]_vars PROVE ControlInv'
  OBVIOUS
<1> USE DEF tables, gate, arrival, runner, world, TypeOK, Goto, Unlock,
            ControlInv, LockHeld, RowAfterAdmission, TasterKnown,
            Admission, Live, Working, Cleanup, Ended
<1>1. ASSUME NEW r \in Request, Arrive(r) PROVE ControlInv'
  <2>1. /\ pc[r] = "idle"
        /\ pc' = [pc EXCEPT ![r] = pc'[r]]
        /\ pc'[r] \in {"lock", "failed", "release"}
    BY <1>1 DEF Arrive
  <2>2. UNCHANGED <<lock, row, verified>>
    BY <1>1 DEF Arrive
  <2>3. taster' = [taster EXCEPT ![r] = ~verified[Owner[r]]]
    BY <1>1 DEF Arrive
  <2>4. LockHeld'
    BY <2>1, <2>2
  <2>5. RowAfterAdmission'
    BY <2>1, <2>2
  <2>6. TasterKnown'
    <3> SUFFICES ASSUME NEW q \in Request, pc'[q] \in Admission, ~verified'[Owner[q]]
                 PROVE  taster'[q]
      OBVIOUS
    <3>1. CASE q = r
      <4>1. taster'[r] = ~verified[Owner[r]]
        BY <2>3, ZenonT(60)
      <4>2. ~verified[Owner[r]]
        BY <2>2, <3>1
      <4> QED
        BY <3>1, <4>1, <4>2
    <3>2. CASE q # r
      <4>1. taster'[q] = taster[q]
        BY <2>3, <3>2, ZenonT(60)
      <4>2. pc'[q] = pc[q]
        BY <2>1, <3>2
      <4> QED
        BY <2>2, <4>1, <4>2
    <3> QED
      BY <3>1, <3>2
  <2> QED
    BY <2>4, <2>5, <2>6
<1>2. ASSUME NEW r \in Request, TakeLock(r) PROVE ControlInv'
  <2>1. pc[r] = "lock" /\ pc' = [pc EXCEPT ![r] = "check"]
    BY <1>2 DEF TakeLock
  <2>2. lock[Owner[r]] = NoRequest /\ lock' = [lock EXCEPT ![Owner[r]] = r]
    BY <1>2 DEF TakeLock
  <2>3. UNCHANGED <<row, verified, taster>>
    BY <1>2 DEF TakeLock
  <2>4. Owner[r] \in User /\ NoRequest \notin Request
    BY ConstantsOK
  <2>5. LockHeld'
    BY <2>1, <2>2, <2>4
  <2> QED
    BY <2>1, <2>3, <2>5
<1>3. ASSUME NEW r \in Request, Check(r) PROVE ControlInv'
  <2>1. pc[r] = "check" /\ UNCHANGED <<row, verified, taster>>
    BY <1>3 DEF Check
  <2>2. \/ pc' = [pc EXCEPT ![r] = "reserve"] /\ UNCHANGED lock
        \/ /\ pc' = [pc EXCEPT ![r] = OnError(r)]
           /\ lock' = [lock EXCEPT ![Owner[r]] = IF @ = r THEN NoRequest ELSE @]
    BY <1>3 DEF Check
  <2>3. OnError(r) \in {"failed", "release"}
    BY DEF OnError
  <2>4. Owner[r] \in User /\ NoRequest \notin Request
    BY ConstantsOK
  <2>5. CASE pc' = [pc EXCEPT ![r] = "reserve"] /\ UNCHANGED lock
    BY <2>1, <2>5
  <2>6. CASE /\ pc' = [pc EXCEPT ![r] = OnError(r)]
             /\ lock' = [lock EXCEPT ![Owner[r]] = IF @ = r THEN NoRequest ELSE @]
    <3>1. lock[Owner[r]] = r
      BY <2>1
    <3>2. lock' = [lock EXCEPT ![Owner[r]] = NoRequest]
      BY <2>6, <3>1
    <3>3. LockHeld'
      BY <2>1, <2>3, <2>4, <2>6, <3>1, <3>2
    <3> QED
      BY <2>1, <2>3, <2>6, <3>3
  <2> QED
    BY <2>2, <2>5, <2>6
<1>4. ASSUME NEW r \in Request, Reserve(r) PROVE ControlInv'
  <2>1. pc[r] = "reserve" /\ UNCHANGED <<verified, taster>>
    BY <1>4 DEF Reserve
  <2>2. pc' = [pc EXCEPT ![r] = pc'[r]] /\ pc'[r] \in {"scope", "failed", "release", "abandoned"}
    BY <1>4 DEF Reserve, AckLost, OnError, OnCancel
  <2>3. lock' = [lock EXCEPT ![Owner[r]] = IF @ = r THEN NoRequest ELSE @]
    BY <1>4 DEF Reserve
  <2>4. \A q \in Request : q # r => row'[q] \in {"none", row[q]}
    BY <1>4 DEF Reserve
  <2>5. Owner[r] \in User /\ NoRequest \notin Request
    BY ConstantsOK
  <2>6. LockHeld'
    BY <2>1, <2>2, <2>3, <2>5
  <2> QED
    BY <2>1, <2>2, <2>4, <2>6
<1>5. ASSUME NEW r \in Request, ResolveScope(r) PROVE ControlInv'
  BY <1>5, ConstantsOK DEF ResolveScope, AfterScope
<1>6. ASSUME NEW r \in Request, SaveQuestion(r) PROVE ControlInv'
  BY <1>6, ConstantsOK DEF SaveQuestion, Commits, AckLost, OnError, OnCancel
<1>7. ASSUME NEW r \in Request, Embed(r) PROVE ControlInv'
  BY <1>7, ConstantsOK DEF Embed, AfterEmbed
<1>8. ASSUME NEW r \in Request, Lookup(r) PROVE ControlInv'
  BY <1>8, ConstantsOK DEF Lookup
<1>9. ASSUME NEW r \in Request, Retrieve(r) PROVE ControlInv'
  BY <1>9, ConstantsOK DEF Retrieve, AfterRetrieve
<1>10. ASSUME NEW r \in Request, Generate(r) PROVE ControlInv'
  BY <1>10, ConstantsOK DEF Generate
<1>11. ASSUME NEW r \in Request, Settle(r) PROVE ControlInv'
  BY <1>11, ConstantsOK DEF Settle, AckLost, AfterSettle, OnError, OnCancel
<1>12. ASSUME NEW r \in Request, Store(r) PROVE ControlInv'
  BY <1>12, ConstantsOK DEF Store, Commits, AckLost, OnError, OnCancel
<1>13. ASSUME NEW r \in Request, Trace(r) PROVE ControlInv'
  BY <1>13, ConstantsOK DEF Trace, AfterTrace, OnError, OnCancel
<1>14. ASSUME NEW r \in Request, PersistAnswer(r) PROVE ControlInv'
  BY <1>14, ConstantsOK DEF PersistAnswer, Commits, AckLost, OnError, OnCancel
<1>15. ASSUME NEW r \in Request, Release(r) PROVE ControlInv'
  BY <1>15, ConstantsOK DEF Release, AfterRelease
<1>16. ASSUME NEW r \in Request, Discard(r) PROVE ControlInv'
  BY <1>16, ConstantsOK DEF Discard
<1>17. ASSUME NEW r \in Request, Report(r) PROVE ControlInv'
  BY <1>17, ConstantsOK DEF Report
<1>18. ASSUME NEW r \in Request, Fail(r) PROVE ControlInv'
  BY <1>18, ConstantsOK DEF Fail, OnError
<1>19. ASSUME NEW r \in Request, Cancel(r) PROVE ControlInv'
  BY <1>19, ConstantsOK DEF Cancel, OnCancel, OnError
<1>20. ASSUME NEW r \in Request, CleanupFails(r) PROVE ControlInv'
  BY <1>20, ConstantsOK DEF CleanupFails
<1>21. ASSUME NEW r \in Request, Die(r) PROVE ControlInv'
  BY <1>21, ConstantsOK DEF Die
<1>22. ASSUME NEW u \in User, Verify(u) PROVE ControlInv'
  BY <1>22 DEF Verify
<1>23. CASE Tick
  BY <1>23 DEF Tick
<1>24. CASE UNCHANGED vars
  BY <1>24 DEF vars
<1> QED
  BY <1>1, <1>2, <1>3, <1>4, <1>5, <1>6, <1>7, <1>8, <1>9, <1>10, <1>11, <1>12,
     <1>13, <1>14, <1>15, <1>16, <1>17, <1>18, <1>19, <1>20, <1>21, <1>22, <1>23, <1>24
     DEF Next, Step, AllDone

\* A step that opens no row, moves no stamp of an existing one, and leaves alone
\* whoever has counted and not yet inserted.
Harmless ==
    /\ \A q \in Request : row'[q] # "none" =>
          row[q] # "none" /\ stamp'[q] = stamp[q] /\ countedAt'[q] = countedAt[q]
    /\ \A q \in Request : pc'[q] = "reserve" =>
          /\ pc[q] = "reserve"
          /\ taster'[q] = taster[q]
          /\ countedAt'[q] = countedAt[q]
          /\ doomed'[Owner[q]] = doomed[Owner[q]]
    /\ \A u \in User : verified[u] => verified'[u]

\* Every step but Check and Reserve is harmless.
LEMMA MostStepsHarmless ==
    ASSUME TypeOK, ControlInv, [Next]_vars,
           \A r \in Request : ~Check(r) /\ ~Reserve(r)
    PROVE  Harmless
<1> USE DEF tables, gate, arrival, runner, world, TypeOK, Goto, Unlock, Harmless,
            ControlInv, LockHeld, RowAfterAdmission, Admission, Live, Working, Cleanup, Ended
<1>1. ASSUME NEW r \in Request, Arrive(r) PROVE Harmless
  BY <1>1, ConstantsOK DEF Arrive
<1>2. ASSUME NEW r \in Request, TakeLock(r) PROVE Harmless
  BY <1>2, ConstantsOK DEF TakeLock
<1>5. ASSUME NEW r \in Request, ResolveScope(r) PROVE Harmless
  BY <1>5, ConstantsOK DEF ResolveScope, AfterScope
<1>6. ASSUME NEW r \in Request, SaveQuestion(r) PROVE Harmless
  BY <1>6, ConstantsOK DEF SaveQuestion, Commits, AckLost, OnError, OnCancel
<1>7. ASSUME NEW r \in Request, Embed(r) PROVE Harmless
  BY <1>7, ConstantsOK DEF Embed, AfterEmbed
<1>8. ASSUME NEW r \in Request, Lookup(r) PROVE Harmless
  BY <1>8, ConstantsOK DEF Lookup
<1>9. ASSUME NEW r \in Request, Retrieve(r) PROVE Harmless
  BY <1>9, ConstantsOK DEF Retrieve, AfterRetrieve
<1>10. ASSUME NEW r \in Request, Generate(r) PROVE Harmless
  BY <1>10, ConstantsOK DEF Generate
<1>11. ASSUME NEW r \in Request, Settle(r) PROVE Harmless
  BY <1>11, ConstantsOK DEF Settle, AckLost, AfterSettle, OnError, OnCancel
<1>12. ASSUME NEW r \in Request, Store(r) PROVE Harmless
  BY <1>12, ConstantsOK DEF Store, Commits, AckLost, OnError, OnCancel
<1>13. ASSUME NEW r \in Request, Trace(r) PROVE Harmless
  BY <1>13, ConstantsOK DEF Trace, AfterTrace, OnError, OnCancel
<1>14. ASSUME NEW r \in Request, PersistAnswer(r) PROVE Harmless
  BY <1>14, ConstantsOK DEF PersistAnswer, Commits, AckLost, OnError, OnCancel
<1>15. ASSUME NEW r \in Request, Release(r) PROVE Harmless
  BY <1>15, ConstantsOK DEF Release, AfterRelease
<1>16. ASSUME NEW r \in Request, Discard(r) PROVE Harmless
  BY <1>16, ConstantsOK DEF Discard
<1>17. ASSUME NEW r \in Request, Report(r) PROVE Harmless
  BY <1>17, ConstantsOK DEF Report
<1>18. ASSUME NEW r \in Request, Fail(r) PROVE Harmless
  BY <1>18, ConstantsOK DEF Fail, OnError
<1>19. ASSUME NEW r \in Request, Cancel(r) PROVE Harmless
  BY <1>19, ConstantsOK DEF Cancel, OnCancel, OnError
<1>20. ASSUME NEW r \in Request, CleanupFails(r) PROVE Harmless
  BY <1>20, ConstantsOK DEF CleanupFails
<1>21. ASSUME NEW r \in Request, Die(r) PROVE Harmless
  BY <1>21, ConstantsOK DEF Die
<1>22. ASSUME NEW u \in User, Verify(u) PROVE Harmless
  BY <1>22 DEF Verify
<1>23. CASE Tick
  BY <1>23 DEF Tick
<1>24. CASE UNCHANGED vars
  BY <1>24 DEF vars
<1> QED
  BY <1>1, <1>2, <1>5, <1>6, <1>7, <1>8, <1>9, <1>10, <1>11, <1>12, <1>13, <1>14,
     <1>15, <1>16, <1>17, <1>18, <1>19, <1>20, <1>21, <1>22, <1>23, <1>24
     DEF Next, Step, AllDone

\* Subsets of what stays within a limit stay within it (counting queries).
LEMMA FewerRows ==
    ASSUME NEW T, IsFiniteSet(T), NEW S, S \subseteq T
    PROVE  /\ Cardinality(S) \in Nat
           /\ Cardinality(T) \in Nat
           /\ Cardinality(S) <= Cardinality(T)
  BY FS_Subset, FS_CardinalityType

\* One row more than what was below a limit is within it (reserve after count).
LEMMA OneMoreRow ==
    ASSUME NEW T, IsFiniteSet(T), NEW x, NEW S, S \subseteq T \cup {x},
           NEW limit \in Nat, Cardinality(T) < limit
    PROVE  Cardinality(S) <= limit
<1>1. IsFiniteSet(T \cup {x}) /\ Cardinality(T) \in Nat
      /\ Cardinality(T \cup {x}) \in {Cardinality(T), Cardinality(T) + 1}
  BY FS_AddElement, FS_CardinalityType
<1>2. Cardinality(S) \in Nat /\ Cardinality(S) <= Cardinality(T \cup {x})
  BY <1>1, FewerRows
<1> QED
  BY <1>1, <1>2

\* The days the limits range over are integers (Day).
LEMMA DayType == \A t \in Int : Day(t) \in Int
  BY ConstantsOK DEF Day

\* Counting sees no more rows than before of an account none was added to.
LEMMA FewerCounted ==
    ASSUME TypeOK, NEW u \in User,
           \A q \in Request : Owner[q] = u /\ row'[q] # "none" =>
                                  row[q] # "none" /\ stamp'[q] = stamp[q],
           doomed'[u] = doomed[u], NEW t
    PROVE  /\ Visible(u)' \subseteq Visible(u)
           /\ {q \in Visible(u)' : Day(stamp'[q]) >= Day(t)} \subseteq
                 {q \in Visible(u) : Day(stamp[q]) >= Day(t)}
  BY DEF Visible, Rows

\* The tables are finite (Rows, Visible).
LEMMA RowsFinite ==
    ASSUME NEW u
    PROVE  IsFiniteSet(Rows(u)) /\ IsFiniteSet(Visible(u))
<1>1. Rows(u) \subseteq Request /\ Visible(u) \subseteq Request
  BY DEF Visible, Rows
<1> QED
  BY <1>1, ConstantsOK, FS_Subset

\* The room a request found stays until it inserts, unless somebody adds a row
\* to its account.
LEMMA RoomStays ==
    ASSUME TypeOK, NEW r \in Request, HasRoom(r, countedAt'[r]),
           taster'[r] = taster[r],
           doomed'[Owner[r]] = doomed[Owner[r]],
           \A q \in Request : Owner[q] = Owner[r] /\ row'[q] # "none" =>
                                  row[q] # "none" /\ stamp'[q] = stamp[q]
    PROVE  HasRoom(r, countedAt[r])'
<1> DEFINE u == Owner[r]
<1> DEFINE today == {q \in Visible(u) : Day(stamp[q]) >= Day(countedAt'[r])}
<1> DEFINE todayNext == {q \in Visible(u)' : Day(stamp'[q]) >= Day(countedAt'[r])}
<1>1. u \in User
  BY ConstantsOK
<1>2. Visible(u)' \subseteq Visible(u) /\ todayNext \subseteq today
  BY <1>1, FewerCounted
<1>3. IsFiniteSet(Visible(u)) /\ IsFiniteSet(today)
  BY RowsFinite, FS_Subset
<1>4. /\ Cardinality(Visible(u)') \in Nat /\ Cardinality(Visible(u)) \in Nat
      /\ Cardinality(Visible(u)') <= Cardinality(Visible(u))
  BY <1>2, <1>3, FewerRows
<1>5. /\ Cardinality(todayNext) \in Nat /\ Cardinality(today) \in Nat
      /\ Cardinality(todayNext) <= Cardinality(today)
  BY <1>2, <1>3, FewerRows
<1>6. TasterLimit \in Nat /\ DailyLimit \in Nat
  BY ConstantsOK
<1>7. CASE taster[r]
  <2>1. TasterLimit = 0 \/ Cardinality(Visible(u)) < TasterLimit
    BY <1>7 DEF HasRoom
  <2>2. TasterLimit = 0 \/ Cardinality(Visible(u)') < TasterLimit
    BY <2>1, <1>4, <1>6
  <2> QED
    BY <1>7, <2>2 DEF HasRoom
<1>8. CASE ~taster[r]
  <2>1. DailyLimit = 0 \/ Cardinality(today) < DailyLimit
    BY <1>8 DEF HasRoom, Today
  <2>2. DailyLimit = 0 \/ Cardinality(todayNext) < DailyLimit
    BY <2>1, <1>5, <1>6
  <2> QED
    BY <1>8, <2>2 DEF HasRoom, Today
<1> QED
  BY <1>7, <1>8

\* The rows of an account opened and counted on one day (DailyHolds).
OnDay(u, d) ==
    {q \in Request : /\ Owner[q] = u
                     /\ row[q] # "none"
                     /\ Day(stamp[q]) = d
                     /\ Day(countedAt[q]) = d}

\* The limits in terms of the sets the lemmas speak of.
LEMMA LimitsAsSets ==
    /\ TasterHolds <=> (TasterLimit > 0 =>
          \A u \in User : ~verified[u] => Cardinality(Rows(u)) <= TasterLimit)
    /\ DailyHolds <=> (TasterLimit \in 1..DailyLimit =>
          \A u \in User, d \in {Day(t) : t \in 0..MaxTime} :
             Cardinality(OnDay(u, d)) <= DailyLimit)
  BY DEF TasterHolds, DailyHolds, Rows, OnDay

\* A harmless step keeps everything: no limit is approached, no room is lost.
LEMMA HarmlessKeeps ==
    ASSUME TypeOK, AdmissionInv, Harmless
    PROVE  RoomKept' /\ TasterHolds' /\ DailyHolds'
<1>1. RoomKept'
  <2> SUFFICES ASSUME NEW r \in Request, pc'[r] = "reserve"
               PROVE  HasRoom(r, countedAt[r])'
    BY DEF RoomKept
  <2>1. /\ pc[r] = "reserve" /\ taster'[r] = taster[r] /\ countedAt'[r] = countedAt[r]
        /\ doomed'[Owner[r]] = doomed[Owner[r]]
    BY DEF Harmless
  <2>2. HasRoom(r, countedAt'[r])
    BY <2>1 DEF AdmissionInv, RoomKept
  <2>3. \A q \in Request : Owner[q] = Owner[r] /\ row'[q] # "none" =>
           row[q] # "none" /\ stamp'[q] = stamp[q]
    BY DEF Harmless
  <2> QED
    BY <2>1, <2>2, <2>3, RoomStays
<1>2. \A u \in User : /\ Cardinality(Rows(u)') \in Nat /\ Cardinality(Rows(u)) \in Nat
                      /\ Cardinality(Rows(u)') <= Cardinality(Rows(u))
  <2> SUFFICES ASSUME NEW u \in User
               PROVE  /\ Cardinality(Rows(u)') \in Nat /\ Cardinality(Rows(u)) \in Nat
                      /\ Cardinality(Rows(u)') <= Cardinality(Rows(u))
    OBVIOUS
  <2>1. Rows(u)' \subseteq Rows(u)
    BY DEF Harmless, Rows
  <2> QED
    BY <2>1, RowsFinite, FewerRows
<1>3. TasterHolds'
  <2>1. \A u \in User : ~verified'[u] => ~verified[u]
    BY DEF Harmless
  <2>2. TasterLimit \in Nat
    BY ConstantsOK
  <2> SUFFICES ASSUME TasterLimit > 0, NEW u \in User, ~verified'[u]
               PROVE  Cardinality(Rows(u)') <= TasterLimit
    BY DEF TasterHolds, Rows
  <2>3. Cardinality(Rows(u)) <= TasterLimit
    BY <2>1, LimitsAsSets DEF AdmissionInv
  <2> QED
    BY <1>2, <2>2, <2>3
<1>4. DailyHolds'
  <2>1. ASSUME NEW u \in User, NEW d
        PROVE  /\ Cardinality(OnDay(u, d)') \in Nat /\ Cardinality(OnDay(u, d)) \in Nat
               /\ Cardinality(OnDay(u, d)') <= Cardinality(OnDay(u, d))
    <3>1. OnDay(u, d)' \subseteq OnDay(u, d)
      BY DEF Harmless, OnDay
    <3>2. IsFiniteSet(OnDay(u, d))
      <4>1. OnDay(u, d) \subseteq Request
        BY DEF OnDay
      <4> QED
        BY <4>1, ConstantsOK, FS_Subset
    <3> QED
      BY <3>1, <3>2, FewerRows
  <2>2. DailyLimit \in Nat
    BY ConstantsOK
  <2> SUFFICES ASSUME TasterLimit \in 1..DailyLimit,
                      NEW u \in User, NEW d \in {Day(t) : t \in 0..MaxTime}
               PROVE  Cardinality(OnDay(u, d)') <= DailyLimit
    BY DEF DailyHolds, OnDay
  <2>3. Cardinality(OnDay(u, d)) <= DailyLimit
    BY LimitsAsSets DEF AdmissionInv
  <2> QED
    BY <2>1, <2>2, <2>3
<1> QED
  BY <1>1, <1>3, <1>4

\* A count does not change the table; if it found room, it notes the moment and
\* goes on to insert (Check).
LEMMA CheckKeeps ==
    ASSUME TypeOK, AdmissionInv, NEW r \in Request, Check(r)
    PROVE  RoomKept' /\ TasterHolds' /\ DailyHolds'
<1>1. /\ pc[r] = "check" /\ UNCHANGED <<now, verified, row, stamp, taster>>
      /\ countedAt' = [countedAt EXCEPT ![r] = now]
  BY DEF Check, world, tables
<1>2. row[r] = "none" /\ lock[Owner[r]] = r
  BY <1>1 DEF AdmissionInv, LockHeld, RowAfterAdmission, Admission
<1>3. TasterHolds'
  BY <1>1 DEF AdmissionInv, TasterHolds
<1>4. DailyHolds'
  <2>1. \A q \in Request : row[q] # "none" => countedAt'[q] = countedAt[q]
    BY <1>1, <1>2 DEF TypeOK
  <2>2. \A u, d : OnDay(u, d)' = OnDay(u, d)
    BY <1>1, <2>1 DEF OnDay
  <2> SUFFICES ASSUME TasterLimit \in 1..DailyLimit,
                      NEW u \in User, NEW d \in {Day(t) : t \in 0..MaxTime}
               PROVE  Cardinality(OnDay(u, d)') <= DailyLimit
    BY DEF DailyHolds, OnDay
  <2>3. Cardinality(OnDay(u, d)) <= DailyLimit
    BY LimitsAsSets DEF AdmissionInv
  <2> QED
    BY <2>2, <2>3
<1>5. RoomKept'
  <2> SUFFICES ASSUME NEW q \in Request, pc'[q] = "reserve"
               PROVE  HasRoom(q, countedAt[q])'
    BY DEF RoomKept
  <2>1. \/ pc' = [pc EXCEPT ![r] = "reserve"] /\ UNCHANGED doomed /\ HasRoom(r, now)
        \/ /\ pc' = [pc EXCEPT ![r] = OnError(r)]
           /\ doomed' = [doomed EXCEPT ![Owner[r]] = IF lock[Owner[r]] = r THEN {} ELSE @]
    BY DEF Check, Goto, Unlock, gate
  <2>2. OnError(r) # "reserve"
    BY DEF OnError
  <2>3. CASE q = r
    <3>1. countedAt'[q] = now /\ HasRoom(q, now) /\ UNCHANGED doomed
      BY <1>1, <2>1, <2>2, <2>3 DEF TypeOK
    <3> QED
      BY <1>1, <3>1, RoomStays
  <2>4. CASE q # r
    <3>1. pc[q] = "reserve" /\ countedAt'[q] = countedAt[q]
      BY <1>1, <2>1, <2>4 DEF TypeOK
    <3>2. HasRoom(q, countedAt'[q]) /\ Owner[q] # Owner[r]
      BY <1>2, <2>4, <3>1 DEF AdmissionInv, LockHeld, RoomKept
    <3>3. doomed'[Owner[q]] = doomed[Owner[q]]
      BY <2>1, <3>2, ConstantsOK DEF TypeOK
    <3> QED
      BY <1>1, <3>2, <3>3, RoomStays
  <2> QED
    BY <2>3, <2>4
<1> QED
  BY <1>3, <1>4, <1>5

\* The insert uses the room that was counted: nobody of the same account could
\* come between, and the swept rows were left out of the count (Reserve).
LEMMA ReserveKeeps ==
    ASSUME TypeOK, AdmissionInv, NEW r \in Request, Reserve(r)
    PROVE  RoomKept' /\ TasterHolds' /\ DailyHolds'
<1> DEFINE me == Owner[r]
<1>1. /\ pc[r] = "reserve"
      /\ UNCHANGED <<verified, stamp, taster, countedAt>>
      /\ pc' = [pc EXCEPT ![r] = pc'[r]]
      /\ pc'[r] \in {"scope", "failed", "release", "abandoned"}
  <2>1. pc[r] = "reserve" /\ UNCHANGED <<verified, stamp, taster, countedAt>>
    BY DEF Reserve, arrival, world
  <2>2. /\ pc' = [pc EXCEPT ![r] = pc'[r]]
        /\ pc'[r] \in {"scope", "failed", "release", "abandoned"}
    BY DEF TypeOK, Reserve, Goto, AckLost, OnError, OnCancel
  <2> QED
    BY <2>1, <2>2
<1>2. row' = [q \in Request |-> IF q = r THEN "reserved"
                                ELSE IF q \in doomed[me] THEN "none"
                                ELSE row[q]]
  BY DEF Reserve
<1>3. doomed' = [doomed EXCEPT ![me] = IF lock[me] = r THEN {} ELSE @]
  BY DEF Reserve, Unlock
<1>4. me \in User /\ TasterLimit \in Nat /\ DailyLimit \in Nat
  BY ConstantsOK
<1>5. HasRoom(r, countedAt[r])
  BY <1>1 DEF AdmissionInv, RoomKept
<1>6. \A q \in Request : q # r /\ row'[q] # "none" => q \notin doomed[me] /\ row[q] # "none"
  BY <1>2
<1>7. RoomKept'
  <2> SUFFICES ASSUME NEW q \in Request, pc'[q] = "reserve"
               PROVE  HasRoom(q, countedAt[q])'
    BY DEF RoomKept
  <2>1. q # r /\ pc[q] = "reserve"
    BY <1>1 DEF TypeOK
  <2>2. HasRoom(q, countedAt'[q]) /\ Owner[q] # me
    BY <1>1, <2>1 DEF AdmissionInv, LockHeld, RoomKept
  <2>3. doomed'[Owner[q]] = doomed[Owner[q]]
    BY <1>3, <2>2, ConstantsOK DEF TypeOK
  <2> QED
    BY <1>1, <1>6, <2>2, <2>3, RoomStays
<1>8. IsFiniteSet(Visible(me)) /\ IsFiniteSet(Today(me, countedAt[r]))
  BY RowsFinite, FS_Subset DEF Today
<1>9. TasterHolds'
  <2> SUFFICES ASSUME TasterLimit > 0, NEW u \in User, ~verified[u]
               PROVE  Cardinality(Rows(u)') <= TasterLimit
    BY <1>1 DEF TasterHolds, Rows
  <2>1. CASE u = me
    <3>1. taster[r]
      BY <1>1, <2>1 DEF AdmissionInv, TasterKnown, Admission
    <3>2. Cardinality(Visible(me)) < TasterLimit
      BY <1>4, <1>5, <3>1 DEF HasRoom
    <3>3. Rows(u)' \subseteq Visible(me) \cup {r}
      BY <1>6, <2>1 DEF Rows, Visible
    <3> QED
      BY <1>4, <1>8, <3>2, <3>3, OneMoreRow
  <2>2. CASE u # me
    <3>1. Rows(u)' \subseteq Rows(u)
      BY <1>6, <2>2 DEF Rows
    <3>2. Cardinality(Rows(u)) <= TasterLimit
      BY LimitsAsSets DEF AdmissionInv
    <3>3. /\ Cardinality(Rows(u)') \in Nat /\ Cardinality(Rows(u)) \in Nat
          /\ Cardinality(Rows(u)') <= Cardinality(Rows(u))
      BY <3>1, RowsFinite, FewerRows
    <3> QED
      BY <1>4, <3>2, <3>3
  <2> QED
    BY <2>1, <2>2
<1>10. DailyHolds'
  <2> SUFFICES ASSUME TasterLimit \in 1..DailyLimit,
                      NEW u \in User, NEW d \in {Day(t) : t \in 0..MaxTime}
               PROVE  Cardinality(OnDay(u, d)') <= DailyLimit
    BY DEF DailyHolds, OnDay
  <2>1. CASE u # me \/ Day(countedAt[r]) # d
    <3>1. OnDay(u, d)' \subseteq OnDay(u, d)
      BY <1>1, <1>6, <2>1 DEF OnDay
    <3>2. Cardinality(OnDay(u, d)) <= DailyLimit
      BY LimitsAsSets DEF AdmissionInv
    <3>3. IsFiniteSet(OnDay(u, d))
      <4>1. OnDay(u, d) \subseteq Request
        BY DEF OnDay
      <4> QED
        BY <4>1, ConstantsOK, FS_Subset
    <3>4. /\ Cardinality(OnDay(u, d)') \in Nat /\ Cardinality(OnDay(u, d)) \in Nat
          /\ Cardinality(OnDay(u, d)') <= Cardinality(OnDay(u, d))
      BY <3>1, <3>3, FewerRows
    <3> QED
      BY <1>4, <3>2, <3>4
  <2>2. CASE u = me /\ taster[r]
    <3>1. Cardinality(Visible(me)) < DailyLimit
      <4>1. Cardinality(Visible(me)) < TasterLimit
        BY <1>4, <1>5, <2>2 DEF HasRoom
      <4>2. Cardinality(Visible(me)) \in Nat
        BY <1>8, FS_CardinalityType
      <4> QED
        BY <1>4, <4>1, <4>2
    <3>2. OnDay(u, d)' \subseteq Visible(me) \cup {r}
      BY <1>6, <2>2 DEF OnDay, Rows, Visible
    <3> QED
      BY <1>4, <1>8, <3>1, <3>2, OneMoreRow
  <2>3. CASE u = me /\ ~taster[r] /\ Day(countedAt[r]) = d
    <3>1. Cardinality(Today(me, countedAt[r])) < DailyLimit
      BY <1>4, <1>5, <2>3 DEF HasRoom
    <3>2. d \in Int
      BY DayType
    <3>3. OnDay(u, d)' \subseteq Today(me, countedAt[r]) \cup {r}
      BY <1>1, <1>6, <2>3, <3>2 DEF OnDay, Today, Rows, Visible
    <3> QED
      BY <1>4, <1>8, <3>1, <3>3, OneMoreRow
  <2> QED
    BY <2>1, <2>2, <2>3
<1> QED
  BY <1>7, <1>9, <1>10

\* At the start nobody has counted and there are no rows (Init).
LEMMA AdmissionInit == Init => AdmissionInv
<1> SUFFICES ASSUME Init PROVE AdmissionInv
  OBVIOUS
<1>1. TypeOK /\ ControlInv
  BY TypeInit, ControlInit
<1>2. RoomKept
  BY DEF Init, RoomKept
<1>3. Cardinality({}) = 0 /\ TasterLimit \in Nat /\ DailyLimit \in Nat
  BY FS_EmptySet, ConstantsOK
<1>4. TasterHolds
  <2>1. \A u : Rows(u) = {}
    BY DEF Init, Rows
  <2>2. \A u : Cardinality(Rows(u)) = 0
    BY <2>1, <1>3
  <2> QED
    BY <2>2, <1>3, LimitsAsSets
<1>5. DailyHolds
  <2>1. \A u, d : OnDay(u, d) = {}
    BY DEF Init, OnDay
  <2>2. \A u, d : Cardinality(OnDay(u, d)) = 0
    BY <2>1, <1>3
  <2> QED
    BY <2>2, <1>3, LimitsAsSets
<1> QED
  BY <1>1, <1>2, <1>4, <1>5 DEF AdmissionInv, ControlInv

\* Every step keeps the admission invariant.
LEMMA AdmissionStep == TypeOK /\ AdmissionInv /\ [Next]_vars => AdmissionInv'
<1> SUFFICES ASSUME TypeOK, AdmissionInv, [Next]_vars PROVE AdmissionInv'
  OBVIOUS
<1>1. ControlInv
  BY DEF AdmissionInv, ControlInv
<1>2. ControlInv'
  BY <1>1, ControlStep
<1>3. RoomKept' /\ TasterHolds' /\ DailyHolds'
  <2>1. CASE \E r \in Request : Check(r)
    BY <2>1, CheckKeeps
  <2>2. CASE \E r \in Request : Reserve(r)
    BY <2>2, ReserveKeeps
  <2>3. CASE \A r \in Request : ~Check(r) /\ ~Reserve(r)
    <3>1. Harmless
      BY <1>1, <2>3, MostStepsHarmless
    <3> QED
      BY <3>1, HarmlessKeeps
  <2> QED
    BY <2>1, <2>2, <2>3
<1> QED
  BY <1>2, <1>3 DEF AdmissionInv, ControlInv

\* What a count found is still true at the insert, for any number of requests,
\* accounts, faults and clock ticks: the advisory lock with its sweep inside.
THEOREM AdmissionSafe == Spec => []AdmissionInv
<1>1. Init => TypeOK /\ AdmissionInv
  BY TypeInit, AdmissionInit
<1>2. TypeOK /\ AdmissionInv /\ [Next]_vars => (TypeOK /\ AdmissionInv)'
  BY TypeStep, AdmissionStep
<1> QED
  BY <1>1, <1>2, PTL DEF Spec

\* No unverified account ever gets past its lifetime allowance
\* (unverified_query_exceeded under acquire_quota_lock).
THEOREM TasterLimitHolds == Spec => []TasterHolds
<1>1. AdmissionInv => TasterHolds
  BY DEF AdmissionInv
<1> QED
  BY <1>1, AdmissionSafe, PTL

\* No account opens and counts more requests on one day than its daily limit
\* (query_quota_exceeded under acquire_quota_lock).
THEOREM DailyLimitHolds == Spec => []DailyHolds
<1>1. AdmissionInv => DailyHolds
  BY DEF AdmissionInv
<1> QED
  BY <1>1, AdmissionSafe, PTL

-----------------------------------------------------------------------------
(***************************************************************************)
(* Failures, threads, traces and refusals.                                 *)
(***************************************************************************)

\* A reserved row belongs to a request on its way to the charge or into the
\* release, which still knows its id, or to one that was cut off.
SlotInv ==
    \A r \in Request :
        /\ pc[r] \in {"idle"} \cup Admission => row[r] = "none"
        /\ pc[r] \in BeforeCharge => hold[r]
        /\ row[r] = "settled" => ~hold[r]
        /\ row[r] = "reserved" =>
              (pc[r] \in BeforeCharge \cup {"release"} /\ hold[r]) \/ pc[r] = "abandoned"

\* No row and no label but "idle" when the system starts (Init).
LEMMA SlotInit == Init => SlotInv
  BY DEF Init, SlotInv, Admission, BeforeCharge

\* With no acknowledgement lost, the runner knows of its row from the commit of
\* reserve() to the charge or the release (Reserve, Settle, Release).
LEMMA SlotStep ==
    ASSUME "lost_ack" \notin Faults
    PROVE  TypeOK /\ SlotInv /\ [Next]_vars => SlotInv'
<1> SUFFICES ASSUME TypeOK, SlotInv, [Next]_vars PROVE SlotInv'
  OBVIOUS
<1> USE DEF tables, gate, arrival, runner, world, TypeOK, SlotInv, Goto, Unlock,
            Admission, Live, Working, Cleanup, Ended, BeforeCharge
<1>1. ASSUME NEW r \in Request, Arrive(r) PROVE SlotInv'
  BY <1>1, ConstantsOK DEF Arrive
<1>2. ASSUME NEW r \in Request, TakeLock(r) PROVE SlotInv'
  BY <1>2, ConstantsOK DEF TakeLock
<1>3. ASSUME NEW r \in Request, Check(r) PROVE SlotInv'
  BY <1>3, ConstantsOK DEF Check, OnError
<1>4. ASSUME NEW r \in Request, Reserve(r) PROVE SlotInv'
  BY <1>4, ConstantsOK DEF Reserve, AckLost, OnError, OnCancel
<1>5. ASSUME NEW r \in Request, ResolveScope(r) PROVE SlotInv'
  BY <1>5, ConstantsOK DEF ResolveScope, AfterScope
<1>6. ASSUME NEW r \in Request, SaveQuestion(r) PROVE SlotInv'
  BY <1>6, ConstantsOK DEF SaveQuestion, Commits, AckLost, OnError, OnCancel
<1>7. ASSUME NEW r \in Request, Embed(r) PROVE SlotInv'
  BY <1>7, ConstantsOK DEF Embed, AfterEmbed
<1>8. ASSUME NEW r \in Request, Lookup(r) PROVE SlotInv'
  BY <1>8, ConstantsOK DEF Lookup
<1>9. ASSUME NEW r \in Request, Retrieve(r) PROVE SlotInv'
  BY <1>9, ConstantsOK DEF Retrieve, AfterRetrieve
<1>10. ASSUME NEW r \in Request, Generate(r) PROVE SlotInv'
  BY <1>10, ConstantsOK DEF Generate
<1>11. ASSUME NEW r \in Request, Settle(r) PROVE SlotInv'
  BY <1>11, ConstantsOK DEF Settle, StillPending, AckLost, AfterSettle, OnError, OnCancel
<1>12. ASSUME NEW r \in Request, Store(r) PROVE SlotInv'
  BY <1>12, ConstantsOK DEF Store, Commits, AckLost, OnError, OnCancel
<1>13. ASSUME NEW r \in Request, Trace(r) PROVE SlotInv'
  BY <1>13, ConstantsOK DEF Trace, AfterTrace, OnError, OnCancel
<1>14. ASSUME NEW r \in Request, PersistAnswer(r) PROVE SlotInv'
  BY <1>14, ConstantsOK DEF PersistAnswer, Commits, AckLost, OnError, OnCancel
<1>15. ASSUME NEW r \in Request, Release(r) PROVE SlotInv'
  BY <1>15, ConstantsOK DEF Release, AfterRelease
<1>16. ASSUME NEW r \in Request, Discard(r) PROVE SlotInv'
  BY <1>16, ConstantsOK DEF Discard
<1>17. ASSUME NEW r \in Request, Report(r) PROVE SlotInv'
  BY <1>17, ConstantsOK DEF Report, MayReport
<1>18. ASSUME NEW r \in Request, Fail(r) PROVE SlotInv'
  BY <1>18, ConstantsOK DEF Fail, Spoil, OnError
<1>19. ASSUME NEW r \in Request, Cancel(r) PROVE SlotInv'
  BY <1>19, ConstantsOK DEF Cancel, Spoil, OnCancel, OnError
<1>20. ASSUME NEW r \in Request, CleanupFails(r) PROVE SlotInv'
  BY <1>20, ConstantsOK DEF CleanupFails
<1>21. ASSUME NEW r \in Request, Die(r) PROVE SlotInv'
  BY <1>21, ConstantsOK DEF Die
<1>22. ASSUME NEW u \in User, Verify(u) PROVE SlotInv'
  BY <1>22 DEF Verify
<1>23. CASE Tick
  BY <1>23, ConstantsOK DEF Tick
<1>24. CASE UNCHANGED vars
  BY <1>24 DEF vars
<1> QED
  BY <1>1, <1>2, <1>3, <1>4, <1>5, <1>6, <1>7, <1>8, <1>9, <1>10, <1>11, <1>12,
     <1>13, <1>14, <1>15, <1>16, <1>17, <1>18, <1>19, <1>20, <1>21, <1>22, <1>23, <1>24
     DEF Next, Step, AllDone

\* A reserved slot is owned by a running request or by one that was cut off, for
\* any number of requests, if no commit takes effect without its
\* acknowledgement (release_reservation on every path).
THEOREM SlotsOwned == "lost_ack" \notin Faults => (Spec => []ReservationOwned)
<1> SUFFICES ASSUME "lost_ack" \notin Faults PROVE Spec => []ReservationOwned
  OBVIOUS
<1>1. TypeOK /\ SlotInv /\ [Next]_vars => SlotInv'
  BY SlotStep
<1>2. SlotInv => ReservationOwned
  BY DEF SlotInv, ReservationOwned, BeforeCharge, Live, Working, Cleanup
<1> QED
  BY <1>1, <1>2, SlotInit, TypeCorrect, PTL DEF Spec

\* The labels around SaveQuestion (the commit of the turn's user message).
BeforeQuestion == {"idle", "scope", "ask"} \cup Admission
AfterQuestion  == {"embed", "lookup", "retrieve", "generate", "settle",
                    "store", "trace", "persist"}

\* Which of a turn's two messages are stored, label by label.
ThreadInv ==
    \A r \in Request : Source[r] = "conversation" =>
        /\ pc[r] \in BeforeQuestion \cup {"report", "failed"} => ~question[r]
        /\ pc[r] \in AfterQuestion \cup {"answered"} => question[r]
        /\ pc[r] \in BeforeQuestion \cup AfterQuestion \cup Cleanup \cup {"failed"} => ~answer[r]
        /\ pc[r] = "answered" => answer[r]

\* Nothing is stored when the system starts (Init).
LEMMA ThreadInit == Init => ThreadInv
  BY DEF Init, ThreadInv, BeforeQuestion, AfterQuestion, Cleanup, Admission

\* A turn has its question from SaveQuestion on and its answer with its end, and
\* Discard undoes the question on the way to a failure.
LEMMA ThreadStep ==
    ASSUME {"lost_ack", "cleanup"} \cap Faults = {}
    PROVE  TypeOK /\ ThreadInv /\ [Next]_vars => ThreadInv'
<1> SUFFICES ASSUME TypeOK, ThreadInv, [Next]_vars PROVE ThreadInv'
  OBVIOUS
<1> USE DEF tables, gate, arrival, runner, world, TypeOK, ThreadInv, Goto, Unlock,
            Admission, Live, Working, Cleanup, Ended, BeforeQuestion, AfterQuestion
<1>1. ASSUME NEW r \in Request, Arrive(r) PROVE ThreadInv'
  BY <1>1, ConstantsOK DEF Arrive
<1>2. ASSUME NEW r \in Request, TakeLock(r) PROVE ThreadInv'
  BY <1>2, ConstantsOK DEF TakeLock
<1>3. ASSUME NEW r \in Request, Check(r) PROVE ThreadInv'
  BY <1>3, ConstantsOK DEF Check, OnError
<1>4. ASSUME NEW r \in Request, Reserve(r) PROVE ThreadInv'
  BY <1>4, ConstantsOK DEF Reserve, AckLost, OnError, OnCancel
<1>5. ASSUME NEW r \in Request, ResolveScope(r) PROVE ThreadInv'
  BY <1>5, ConstantsOK DEF ResolveScope, AfterScope
<1>6. ASSUME NEW r \in Request, SaveQuestion(r) PROVE ThreadInv'
  BY <1>6, ConstantsOK DEF SaveQuestion, Commits, AckLost, OnError, OnCancel
<1>7. ASSUME NEW r \in Request, Embed(r) PROVE ThreadInv'
  BY <1>7, ConstantsOK DEF Embed, AfterEmbed
<1>8. ASSUME NEW r \in Request, Lookup(r) PROVE ThreadInv'
  BY <1>8, ConstantsOK DEF Lookup
<1>9. ASSUME NEW r \in Request, Retrieve(r) PROVE ThreadInv'
  BY <1>9, ConstantsOK DEF Retrieve, AfterRetrieve
<1>10. ASSUME NEW r \in Request, Generate(r) PROVE ThreadInv'
  BY <1>10, ConstantsOK DEF Generate
<1>11. ASSUME NEW r \in Request, Settle(r) PROVE ThreadInv'
  BY <1>11, ConstantsOK DEF Settle, StillPending, AckLost, AfterSettle, OnError, OnCancel
<1>12. ASSUME NEW r \in Request, Store(r) PROVE ThreadInv'
  BY <1>12, ConstantsOK DEF Store, Commits, AckLost, OnError, OnCancel
<1>13. ASSUME NEW r \in Request, Trace(r) PROVE ThreadInv'
  BY <1>13, ConstantsOK DEF Trace, AfterTrace, OnError, OnCancel
<1>14. ASSUME NEW r \in Request, PersistAnswer(r) PROVE ThreadInv'
  BY <1>14, ConstantsOK DEF PersistAnswer, Commits, AckLost, OnError, OnCancel
<1>15. ASSUME NEW r \in Request, Release(r) PROVE ThreadInv'
  BY <1>15, ConstantsOK DEF Release, AfterRelease
<1>16. ASSUME NEW r \in Request, Discard(r) PROVE ThreadInv'
  BY <1>16, ConstantsOK DEF Discard
<1>17. ASSUME NEW r \in Request, Report(r) PROVE ThreadInv'
  BY <1>17, ConstantsOK DEF Report, MayReport
<1>18. ASSUME NEW r \in Request, Fail(r) PROVE ThreadInv'
  BY <1>18, ConstantsOK DEF Fail, Spoil, OnError
<1>19. ASSUME NEW r \in Request, Cancel(r) PROVE ThreadInv'
  BY <1>19, ConstantsOK DEF Cancel, Spoil, OnCancel, OnError
<1>20. ASSUME NEW r \in Request, CleanupFails(r) PROVE ThreadInv'
  BY <1>20, ConstantsOK DEF CleanupFails
<1>21. ASSUME NEW r \in Request, Die(r) PROVE ThreadInv'
  BY <1>21, ConstantsOK DEF Die
<1>22. ASSUME NEW u \in User, Verify(u) PROVE ThreadInv'
  BY <1>22 DEF Verify
<1>23. CASE Tick
  BY <1>23, ConstantsOK DEF Tick
<1>24. CASE UNCHANGED vars
  BY <1>24 DEF vars
<1> QED
  BY <1>1, <1>2, <1>3, <1>4, <1>5, <1>6, <1>7, <1>8, <1>9, <1>10, <1>11, <1>12,
     <1>13, <1>14, <1>15, <1>16, <1>17, <1>18, <1>19, <1>20, <1>21, <1>22, <1>23, <1>24
     DEF Next, Step, AllDone

\* An answered turn has both messages and a failed one neither, if no
\* acknowledgement is lost and the cleanup reaches the database
\* (_discard_unanswered, _persist_answer).
THEOREM TurnsPaired == {"lost_ack", "cleanup"} \cap Faults = {} => (Spec => []ThreadPaired)
<1> SUFFICES ASSUME {"lost_ack", "cleanup"} \cap Faults = {} PROVE Spec => []ThreadPaired
  OBVIOUS
<1>1. TypeOK /\ ThreadInv /\ [Next]_vars => ThreadInv'
  BY ThreadStep
<1>2. ThreadInv => ThreadPaired
  BY DEF ThreadInv, ThreadPaired
<1> QED
  BY <1>1, <1>2, ThreadInit, TypeCorrect, PTL DEF Spec

\* Nothing is traced before the trace, and what a cache hit or a search may
\* still report and what it reported never add up to two.
OnceInv ==
    \A r \in Request :
        /\ pc[r] \in {"idle", "store", "trace"} \cup Admission \cup BeforeCharge => traces[r] = 0
        /\ pc[r] = "store" => mode[r] = "answer"
        /\ mode[r] \in {"hit", "search"} =>
              /\ pc[r] = "trace" => ~pending[r]
              /\ pending[r] => traces[r] = 0
              /\ traces[r] <= 1

\* Nothing is traced when the system starts (Init).
LEMMA OnceInit == Init => OnceInv
  BY DEF Init, OnceInv, BeforeCharge, Admission

\* The flag is lowered at the charge for whoever traces without cache.store
\* (Settle), and only Trace and Report write.
LEMMA OnceStep == TypeOK /\ OnceInv /\ [Next]_vars => OnceInv'
<1> SUFFICES ASSUME TypeOK, OnceInv, [Next]_vars PROVE OnceInv'
  OBVIOUS
<1> USE DEF tables, gate, arrival, runner, world, TypeOK, OnceInv, Goto, Unlock,
            Admission, Live, Working, Cleanup, Ended, BeforeCharge
<1>1. ASSUME NEW r \in Request, Arrive(r) PROVE OnceInv'
  BY <1>1, ConstantsOK DEF Arrive
<1>2. ASSUME NEW r \in Request, TakeLock(r) PROVE OnceInv'
  BY <1>2, ConstantsOK DEF TakeLock
<1>3. ASSUME NEW r \in Request, Check(r) PROVE OnceInv'
  BY <1>3, ConstantsOK DEF Check, OnError
<1>4. ASSUME NEW r \in Request, Reserve(r) PROVE OnceInv'
  BY <1>4, ConstantsOK DEF Reserve, AckLost, OnError, OnCancel
<1>5. ASSUME NEW r \in Request, ResolveScope(r) PROVE OnceInv'
  BY <1>5, ConstantsOK DEF ResolveScope, AfterScope
<1>6. ASSUME NEW r \in Request, SaveQuestion(r) PROVE OnceInv'
  BY <1>6, ConstantsOK DEF SaveQuestion, Commits, AckLost, OnError, OnCancel
<1>7. ASSUME NEW r \in Request, Embed(r) PROVE OnceInv'
  BY <1>7, ConstantsOK DEF Embed, AfterEmbed
<1>8. ASSUME NEW r \in Request, Lookup(r) PROVE OnceInv'
  BY <1>8, ConstantsOK DEF Lookup
<1>9. ASSUME NEW r \in Request, Retrieve(r) PROVE OnceInv'
  BY <1>9, ConstantsOK DEF Retrieve, AfterRetrieve
<1>10. ASSUME NEW r \in Request, Generate(r) PROVE OnceInv'
  BY <1>10, ConstantsOK DEF Generate
<1>11. ASSUME NEW r \in Request, Settle(r) PROVE OnceInv'
  <2>1. /\ pc[r] = "settle" /\ traces[r] = 0
        /\ UNCHANGED <<traces, mode>>
        /\ pc' = [pc EXCEPT ![r] = pc'[r]]
        /\ pc'[r] \in {"store", "trace", "release", "failed", "abandoned"}
        /\ pc'[r] = "store" => mode[r] = "answer"
    BY <1>11 DEF Settle, AckLost, AfterSettle, OnError, OnCancel
  <2>2. pc'[r] = "trace" => pending' = [pending EXCEPT ![r] = StillPending(r)]
    BY <1>11 DEF Settle, AckLost, OnError, OnCancel
  <2>3. ASSUME pc'[r] = "trace", mode[r] \in {"hit", "search"} PROVE ~pending'[r]
    <3>1. ~StillPending(r)
      BY <2>3 DEF StillPending
    <3> QED
      BY <2>2, <2>3, <3>1, Zenon
  <2>4. \A q \in Request : q # r => pending'[q] = pending[q]
    BY <1>11 DEF Settle
  <2>5. \A q \in Request : q # r => pc'[q] = pc[q]
    BY <2>1
  <2> QED
    BY <2>1, <2>3, <2>4, <2>5
<1>12. ASSUME NEW r \in Request, Store(r) PROVE OnceInv'
  BY <1>12, ConstantsOK DEF Store, Commits, AckLost, OnError, OnCancel
<1>13. ASSUME NEW r \in Request, Trace(r) PROVE OnceInv'
  BY <1>13, ConstantsOK DEF Trace, AfterTrace, OnError, OnCancel
<1>14. ASSUME NEW r \in Request, PersistAnswer(r) PROVE OnceInv'
  BY <1>14, ConstantsOK DEF PersistAnswer, Commits, AckLost, OnError, OnCancel
<1>15. ASSUME NEW r \in Request, Release(r) PROVE OnceInv'
  BY <1>15, ConstantsOK DEF Release, AfterRelease
<1>16. ASSUME NEW r \in Request, Discard(r) PROVE OnceInv'
  BY <1>16, ConstantsOK DEF Discard
<1>17. ASSUME NEW r \in Request, Report(r) PROVE OnceInv'
  BY <1>17, ConstantsOK DEF Report, MayReport
<1>18. ASSUME NEW r \in Request, Fail(r) PROVE OnceInv'
  BY <1>18, ConstantsOK DEF Fail, Spoil, OnError
<1>19. ASSUME NEW r \in Request, Cancel(r) PROVE OnceInv'
  BY <1>19, ConstantsOK DEF Cancel, Spoil, OnCancel, OnError
<1>20. ASSUME NEW r \in Request, CleanupFails(r) PROVE OnceInv'
  BY <1>20, ConstantsOK DEF CleanupFails
<1>21. ASSUME NEW r \in Request, Die(r) PROVE OnceInv'
  BY <1>21, ConstantsOK DEF Die
<1>22. ASSUME NEW u \in User, Verify(u) PROVE OnceInv'
  BY <1>22 DEF Verify
<1>23. CASE Tick
  BY <1>23, ConstantsOK DEF Tick
<1>24. CASE UNCHANGED vars
  BY <1>24 DEF vars
<1> QED
  BY <1>1, <1>2, <1>3, <1>4, <1>5, <1>6, <1>7, <1>8, <1>9, <1>10, <1>11, <1>12,
     <1>13, <1>14, <1>15, <1>16, <1>17, <1>18, <1>19, <1>20, <1>21, <1>22, <1>23, <1>24
     DEF Next, Step, AllDone

\* A cache hit or a search never writes two traces, under every fault: the flag
\* is lowered before the insert (record_cache_hit, finalize_search).
THEOREM ServedOnce == Spec => []ServedTracedOnce
<1>1. TypeOK /\ OnceInv /\ [Next]_vars => OnceInv'
  BY OnceStep
<1>2. OnceInv => ServedTracedOnce
  BY DEF OnceInv, ServedTracedOnce
<1> QED
  BY <1>1, <1>2, OnceInit, TypeCorrect, PTL DEF Spec

\* Where neither an acknowledgement nor a trace is lost, a request that was not
\* admitted has left nothing, and one past its trace has left one.
TraceInv ==
    \A r \in Request :
        /\ pc[r] \in BeforeCharge \cup AfterCharge => mode[r] # "none"
        /\ mode[r] = "none" => traces[r] = 0 /\ ~pending[r] /\ row[r] = "none"
        /\ pc[r] \in {"idle", "store", "trace"} \cup Admission \cup BeforeCharge => traces[r] = 0
        /\ pc[r] \in {"persist", "answered"} => traces[r] = 1

\* Nobody is admitted when the system starts (Init).
LEMMA TraceInit == Init => TraceInv
  BY DEF Init, TraceInv, BeforeCharge, AfterCharge, Admission

\* Trace writes exactly once where its insert cannot fail, and nobody reports a
\* request that was not admitted (Report).
LEMMA TraceStep ==
    ASSUME {"lost_ack", "trace"} \cap Faults = {}
    PROVE  TypeOK /\ TraceInv /\ [Next]_vars => TraceInv'
<1> SUFFICES ASSUME TypeOK, TraceInv, [Next]_vars PROVE TraceInv'
  OBVIOUS
<1> USE DEF tables, gate, arrival, runner, world, TypeOK, TraceInv, Goto, Unlock,
            Admission, Live, Working, Cleanup, Ended, BeforeCharge, AfterCharge
<1>1. ASSUME NEW r \in Request, Arrive(r) PROVE TraceInv'
  BY <1>1, ConstantsOK DEF Arrive
<1>2. ASSUME NEW r \in Request, TakeLock(r) PROVE TraceInv'
  BY <1>2, ConstantsOK DEF TakeLock
<1>3. ASSUME NEW r \in Request, Check(r) PROVE TraceInv'
  BY <1>3, ConstantsOK DEF Check, OnError
<1>4. ASSUME NEW r \in Request, Reserve(r) PROVE TraceInv'
  BY <1>4, ConstantsOK DEF Reserve, AckLost, OnError, OnCancel
<1>5. ASSUME NEW r \in Request, ResolveScope(r) PROVE TraceInv'
  BY <1>5, ConstantsOK DEF ResolveScope, AfterScope
<1>6. ASSUME NEW r \in Request, SaveQuestion(r) PROVE TraceInv'
  BY <1>6, ConstantsOK DEF SaveQuestion, Commits, AckLost, OnError, OnCancel
<1>7. ASSUME NEW r \in Request, Embed(r) PROVE TraceInv'
  BY <1>7, ConstantsOK DEF Embed, AfterEmbed
<1>8. ASSUME NEW r \in Request, Lookup(r) PROVE TraceInv'
  BY <1>8, ConstantsOK DEF Lookup
<1>9. ASSUME NEW r \in Request, Retrieve(r) PROVE TraceInv'
  BY <1>9, ConstantsOK DEF Retrieve, AfterRetrieve
<1>10. ASSUME NEW r \in Request, Generate(r) PROVE TraceInv'
  BY <1>10, ConstantsOK DEF Generate
<1>11. ASSUME NEW r \in Request, Settle(r) PROVE TraceInv'
  BY <1>11, ConstantsOK DEF Settle, StillPending, AckLost, AfterSettle, OnError, OnCancel
<1>12. ASSUME NEW r \in Request, Store(r) PROVE TraceInv'
  BY <1>12, ConstantsOK DEF Store, Commits, AckLost, OnError, OnCancel
<1>13. ASSUME NEW r \in Request, Trace(r) PROVE TraceInv'
  BY <1>13, ConstantsOK DEF Trace, AfterTrace, OnError, OnCancel
<1>14. ASSUME NEW r \in Request, PersistAnswer(r) PROVE TraceInv'
  BY <1>14, ConstantsOK DEF PersistAnswer, Commits, AckLost, OnError, OnCancel
<1>15. ASSUME NEW r \in Request, Release(r) PROVE TraceInv'
  BY <1>15, ConstantsOK DEF Release, AfterRelease
<1>16. ASSUME NEW r \in Request, Discard(r) PROVE TraceInv'
  BY <1>16, ConstantsOK DEF Discard
<1>17. ASSUME NEW r \in Request, Report(r) PROVE TraceInv'
  BY <1>17, ConstantsOK DEF Report, MayReport
<1>18. ASSUME NEW r \in Request, Fail(r) PROVE TraceInv'
  BY <1>18, ConstantsOK DEF Fail, Spoil, OnError
<1>19. ASSUME NEW r \in Request, Cancel(r) PROVE TraceInv'
  BY <1>19, ConstantsOK DEF Cancel, Spoil, OnCancel, OnError
<1>20. ASSUME NEW r \in Request, CleanupFails(r) PROVE TraceInv'
  BY <1>20, ConstantsOK DEF CleanupFails
<1>21. ASSUME NEW r \in Request, Die(r) PROVE TraceInv'
  BY <1>21, ConstantsOK DEF Die
<1>22. ASSUME NEW u \in User, Verify(u) PROVE TraceInv'
  BY <1>22 DEF Verify
<1>23. CASE Tick
  BY <1>23, ConstantsOK DEF Tick
<1>24. CASE UNCHANGED vars
  BY <1>24 DEF vars
<1> QED
  BY <1>1, <1>2, <1>3, <1>4, <1>5, <1>6, <1>7, <1>8, <1>9, <1>10, <1>11, <1>12,
     <1>13, <1>14, <1>15, <1>16, <1>17, <1>18, <1>19, <1>20, <1>21, <1>22, <1>23, <1>24
     DEF Next, Step, AllDone

\* An answered request left one trace and a refused one nothing, if no
\* acknowledgement and no trace insert is lost (tracing.record).
THEOREM TracesFollow == {"lost_ack", "trace"} \cap Faults = {} => (Spec => []TraceFollowsAdmission)
<1> SUFFICES ASSUME {"lost_ack", "trace"} \cap Faults = {}
             PROVE  Spec => []TraceFollowsAdmission
  OBVIOUS
<1>1. TypeOK /\ TraceInv /\ [Next]_vars => TraceInv'
  BY TraceStep
<1>2. TraceInv => TraceFollowsAdmission
  BY DEF TraceInv, TraceFollowsAdmission
<1> QED
  BY <1>1, <1>2, TraceInit, TypeCorrect, PTL DEF Spec

\* A request that fails before its charge goes into the handlers with its
\* reservation and its trace pending, and out of the release with a usable
\* session; only the rows of requests that were cut off are swept.
UnchargedInv ==
    /\ \A u \in User : \A q \in doomed[u] : pc[q] = "abandoned"
    /\ \A r \in Request : Source[r] \in {"query", "conversation"} =>
        /\ pc[r] \in {"idle"} \cup Admission => mode[r] = "none"
        /\ pc[r] \in BeforeCharge => pending[r]
        /\ pc[r] \in Cleanup /\ mode[r] # "none" =>
              row[r] = "settled" \/ (pending[r] /\ traces[r] = 0)
        /\ pc[r] = "release" /\ mode[r] # "none" => row[r] = "settled" \/ hold[r]
        /\ pc[r] \in {"discard", "report"} /\ mode[r] # "none" => row[r] = "settled" \/ ~dirty[r]
        /\ pc[r] = "failed" /\ mode[r] # "none" => row[r] = "settled" \/ traces[r] = 1

\* No sweep is open and nobody is admitted when the system starts (Init).
LEMMA UnchargedInit == Init => UnchargedInv
  BY DEF Init, UnchargedInv, BeforeCharge, Cleanup, Admission

\* A sweep passes over whoever still runs or failed through its handlers, and the
\* release that gives the row back also makes the session usable (Release).
LEMMA UnchargedStep ==
    ASSUME MaxAge <= TTL, {"lost_ack", "trace"} \cap Faults = {}
    PROVE  TypeOK /\ ChargeInv /\ SlotInv /\ TraceInv /\ UnchargedInv /\ [Next]_vars
              => UnchargedInv'
<1> SUFFICES ASSUME TypeOK, ChargeInv, SlotInv, TraceInv, UnchargedInv, [Next]_vars
             PROVE  UnchargedInv'
  OBVIOUS
<1> USE DEF tables, gate, arrival, runner, world, TypeOK, Goto, Unlock,
            UnchargedInv, ChargeInv, SlotInv, TraceInv,
            Admission, Live, Working, Cleanup, Ended, BeforeCharge, AfterCharge
<1>1. ASSUME NEW r \in Request, Arrive(r) PROVE UnchargedInv'
  BY <1>1, ConstantsOK DEF Arrive
<1>2. ASSUME NEW r \in Request, TakeLock(r) PROVE UnchargedInv'
  <2>1. ASSUME NEW q \in Stale(Owner[r], now) PROVE q \in Request /\ pc[q] = "abandoned"
    <3>1. q \in Request /\ row[q] = "reserved" /\ stamp[q] + TTL < now
      BY DEF Stale, Rows
    <3>2. pc[q] \notin Live
      BY <3>1, ConstantsOK
    <3> QED
      BY <3>1, <3>2
  <2>2. doomed' = [doomed EXCEPT ![Owner[r]] = Stale(Owner[r], now)]
    BY <1>2 DEF TakeLock
  <2>3. pc' = [pc EXCEPT ![r] = "check"] /\ pc[r] = "lock"
    BY <1>2 DEF TakeLock
  <2>4. \A u \in User : \A q \in doomed'[u] : pc'[q] = "abandoned"
    BY <2>1, <2>2, <2>3
  <2> QED
    BY <1>2, <2>3, <2>4 DEF TakeLock
<1>3. ASSUME NEW r \in Request, Check(r) PROVE UnchargedInv'
  BY <1>3, ConstantsOK DEF Check, OnError
<1>4. ASSUME NEW r \in Request, Reserve(r) PROVE UnchargedInv'
  <2>1. /\ pc[r] = "reserve"
        /\ UNCHANGED traces
        /\ pc' = [pc EXCEPT ![r] = "scope"]
        /\ hold' = [hold EXCEPT ![r] = TRUE]
        /\ pending' = [pending EXCEPT ![r] = TRUE]
        /\ mode' = [mode EXCEPT ![r] = "open"]
        /\ UNCHANGED dirty
    BY <1>4 DEF Reserve, AckLost
  <2>2. \A u \in User : doomed'[u] \subseteq doomed[u]
    BY <1>4 DEF Reserve
  <2>3. \A q \in doomed[Owner[r]] : pc[q] = "abandoned"
    BY ConstantsOK
  <2>4. \A q \in Request : q # r /\ pc[q] # "abandoned" => row'[q] = row[q]
    BY <1>4, <2>3 DEF Reserve
  <2>5. \A u \in User : \A q \in doomed'[u] : pc'[q] = "abandoned"
    BY <2>1, <2>2
  <2> QED
    BY <2>1, <2>4, <2>5
<1>5. ASSUME NEW r \in Request, ResolveScope(r) PROVE UnchargedInv'
  BY <1>5, ConstantsOK DEF ResolveScope, AfterScope
<1>6. ASSUME NEW r \in Request, SaveQuestion(r) PROVE UnchargedInv'
  BY <1>6, ConstantsOK DEF SaveQuestion, Commits, AckLost, OnError, OnCancel
<1>7. ASSUME NEW r \in Request, Embed(r) PROVE UnchargedInv'
  BY <1>7, ConstantsOK DEF Embed, AfterEmbed
<1>8. ASSUME NEW r \in Request, Lookup(r) PROVE UnchargedInv'
  BY <1>8, ConstantsOK DEF Lookup
<1>9. ASSUME NEW r \in Request, Retrieve(r) PROVE UnchargedInv'
  BY <1>9, ConstantsOK DEF Retrieve, AfterRetrieve
<1>10. ASSUME NEW r \in Request, Generate(r) PROVE UnchargedInv'
  BY <1>10, ConstantsOK DEF Generate
<1>11. ASSUME NEW r \in Request, Settle(r) PROVE UnchargedInv'
  BY <1>11, ConstantsOK DEF Settle, StillPending, AckLost, AfterSettle, OnError, OnCancel
<1>12. ASSUME NEW r \in Request, Store(r) PROVE UnchargedInv'
  BY <1>12, ConstantsOK DEF Store, Commits, AckLost, OnError, OnCancel
<1>13. ASSUME NEW r \in Request, Trace(r) PROVE UnchargedInv'
  BY <1>13, ConstantsOK DEF Trace, AfterTrace, OnError, OnCancel
<1>14. ASSUME NEW r \in Request, PersistAnswer(r) PROVE UnchargedInv'
  BY <1>14, ConstantsOK DEF PersistAnswer, Commits, AckLost, OnError, OnCancel
<1>15. ASSUME NEW r \in Request, Release(r) PROVE UnchargedInv'
  BY <1>15, ConstantsOK DEF Release, AfterRelease
<1>16. ASSUME NEW r \in Request, Discard(r) PROVE UnchargedInv'
  BY <1>16, ConstantsOK DEF Discard
<1>17. ASSUME NEW r \in Request, Report(r) PROVE UnchargedInv'
  BY <1>17, ConstantsOK DEF Report, MayReport
<1>18. ASSUME NEW r \in Request, Fail(r) PROVE UnchargedInv'
  BY <1>18, ConstantsOK DEF Fail, Spoil, OnError
<1>19. ASSUME NEW r \in Request, Cancel(r) PROVE UnchargedInv'
  BY <1>19, ConstantsOK DEF Cancel, Spoil, OnCancel, OnError
<1>20. ASSUME NEW r \in Request, CleanupFails(r) PROVE UnchargedInv'
  BY <1>20, ConstantsOK DEF CleanupFails
<1>21. ASSUME NEW r \in Request, Die(r) PROVE UnchargedInv'
  BY <1>21, ConstantsOK DEF Die
<1>22. ASSUME NEW u \in User, Verify(u) PROVE UnchargedInv'
  BY <1>22 DEF Verify
<1>23. CASE Tick
  BY <1>23, ConstantsOK DEF Tick
<1>24. CASE UNCHANGED vars
  BY <1>24 DEF vars
<1> QED
  BY <1>1, <1>2, <1>3, <1>4, <1>5, <1>6, <1>7, <1>8, <1>9, <1>10, <1>11, <1>12,
     <1>13, <1>14, <1>15, <1>16, <1>17, <1>18, <1>19, <1>20, <1>21, <1>22, <1>23, <1>24
     DEF Next, Step, AllDone

\* A one-shot or streamed request that failed before its charge left its trace,
\* if moreover the TTL outlasts every request: it still had its reservation, so
\* release_reservation rolled back before record_failure wrote.
THEOREM UnchargedTraced ==
    MaxAge <= TTL /\ {"lost_ack", "trace"} \cap Faults = {} => (Spec => []UnchargedFailureTraced)
<1> SUFFICES ASSUME MaxAge <= TTL, {"lost_ack", "trace"} \cap Faults = {}
             PROVE  Spec => []UnchargedFailureTraced
  OBVIOUS
<1>0. "lost_ack" \notin Faults
  OBVIOUS
<1> DEFINE Inv == TypeOK /\ ChargeInv /\ SlotInv /\ TraceInv /\ UnchargedInv
<1>1. Init => Inv
  BY TypeInit, ChargeInit, SlotInit, TraceInit, UnchargedInit
<1>2. Inv /\ [Next]_vars => Inv'
  BY <1>0, TypeStep, ChargeStep, SlotStep, TraceStep, UnchargedStep
<1>3. Inv => UnchargedFailureTraced
  BY DEF UnchargedInv, UnchargedFailureTraced
<1> QED
  BY <1>1, <1>2, <1>3, PTL DEF Spec

\* Whoever is about to count has swept every reservation of its account that was
\* too old when its request came.
SweptInv ==
    \A r \in Request :
        /\ stamp[r] <= now
        /\ pc[r] = "check" => \A q \in Request :
              (Owner[q] = Owner[r] /\ row[q] = "reserved" /\ stamp[q] + TTL < stamp[r])
                  => q \in doomed[Owner[r]]

\* Nobody counts when the system starts (Init).
LEMMA SweptInit == Init => SweptInv
  BY DEF Init, SweptInv

\* The sweep is part of taking the lock, and while it is held nobody else inserts
\* a row of the account (TakeLock, Reserve).
LEMMA SweptStep == TypeOK /\ ControlInv /\ SweptInv /\ [Next]_vars => SweptInv'
<1> SUFFICES ASSUME TypeOK, ControlInv, SweptInv, [Next]_vars PROVE SweptInv'
  OBVIOUS
<1> USE DEF tables, gate, arrival, runner, world, TypeOK, Goto, Unlock,
            SweptInv, ControlInv, LockHeld, RowAfterAdmission,
            Admission, Live, Working, Cleanup, Ended
<1>1. ASSUME NEW r \in Request, Arrive(r) PROVE SweptInv'
  BY <1>1, ConstantsOK DEF Arrive
<1>2. ASSUME NEW r \in Request, TakeLock(r) PROVE SweptInv'
  <2>1. /\ pc[r] = "lock" /\ lock[Owner[r]] = NoRequest
        /\ pc' = [pc EXCEPT ![r] = "check"]
        /\ doomed' = [doomed EXCEPT ![Owner[r]] = Stale(Owner[r], now)]
        /\ UNCHANGED <<row, stamp, now>>
    BY <1>2 DEF TakeLock
  <2>2. Owner[r] \in User /\ r # NoRequest
    BY ConstantsOK
  <2>3. ASSUME NEW q \in Request, Owner[q] = Owner[r], row[q] = "reserved",
               stamp[q] + TTL < stamp[r]
        PROVE  q \in doomed'[Owner[r]]
    <3>1. stamp[q] + TTL < now
      BY <2>3, ConstantsOK
    <3> QED
      BY <2>1, <2>2, <2>3, <3>1 DEF Stale, Rows
  <2>4. \A p \in Request : p # r /\ pc[p] = "check" => doomed'[Owner[p]] = doomed[Owner[p]]
    BY <2>1, <2>2, ConstantsOK
  <2> QED
    BY <2>1, <2>3, <2>4
<1>3. ASSUME NEW r \in Request, Check(r) PROVE SweptInv'
  <2>1. /\ pc[r] = "check" /\ UNCHANGED <<row, stamp, now>>
        /\ pc' = [pc EXCEPT ![r] = pc'[r]]
        /\ pc'[r] # "check"
    BY <1>3 DEF Check, OnError
  <2>2. \A p \in Request : p # r /\ pc[p] = "check" => Owner[p] # Owner[r]
    BY <2>1
  <2>3. \A u \in User : u # Owner[r] => doomed'[u] = doomed[u]
    BY <1>3 DEF Check
  <2>4. \A p \in Request : p # r /\ pc[p] = "check" => doomed'[Owner[p]] = doomed[Owner[p]]
    BY <2>2, <2>3, ConstantsOK
  <2> QED
    BY <2>1, <2>4
<1>4. ASSUME NEW r \in Request, Reserve(r) PROVE SweptInv'
  BY <1>4, ConstantsOK DEF Reserve, AckLost, OnError, OnCancel
<1>5. ASSUME NEW r \in Request, ResolveScope(r) PROVE SweptInv'
  BY <1>5, ConstantsOK DEF ResolveScope, AfterScope
<1>6. ASSUME NEW r \in Request, SaveQuestion(r) PROVE SweptInv'
  BY <1>6, ConstantsOK DEF SaveQuestion, Commits, AckLost, OnError, OnCancel
<1>7. ASSUME NEW r \in Request, Embed(r) PROVE SweptInv'
  BY <1>7, ConstantsOK DEF Embed, AfterEmbed
<1>8. ASSUME NEW r \in Request, Lookup(r) PROVE SweptInv'
  BY <1>8, ConstantsOK DEF Lookup
<1>9. ASSUME NEW r \in Request, Retrieve(r) PROVE SweptInv'
  BY <1>9, ConstantsOK DEF Retrieve, AfterRetrieve
<1>10. ASSUME NEW r \in Request, Generate(r) PROVE SweptInv'
  BY <1>10, ConstantsOK DEF Generate
<1>11. ASSUME NEW r \in Request, Settle(r) PROVE SweptInv'
  BY <1>11, ConstantsOK DEF Settle, StillPending, AckLost, AfterSettle, OnError, OnCancel
<1>12. ASSUME NEW r \in Request, Store(r) PROVE SweptInv'
  BY <1>12, ConstantsOK DEF Store, Commits, AckLost, OnError, OnCancel
<1>13. ASSUME NEW r \in Request, Trace(r) PROVE SweptInv'
  BY <1>13, ConstantsOK DEF Trace, AfterTrace, OnError, OnCancel
<1>14. ASSUME NEW r \in Request, PersistAnswer(r) PROVE SweptInv'
  BY <1>14, ConstantsOK DEF PersistAnswer, Commits, AckLost, OnError, OnCancel
<1>15. ASSUME NEW r \in Request, Release(r) PROVE SweptInv'
  BY <1>15, ConstantsOK DEF Release, AfterRelease
<1>16. ASSUME NEW r \in Request, Discard(r) PROVE SweptInv'
  BY <1>16, ConstantsOK DEF Discard
<1>17. ASSUME NEW r \in Request, Report(r) PROVE SweptInv'
  BY <1>17, ConstantsOK DEF Report, MayReport
<1>18. ASSUME NEW r \in Request, Fail(r) PROVE SweptInv'
  BY <1>18, ConstantsOK DEF Fail, Spoil, OnError
<1>19. ASSUME NEW r \in Request, Cancel(r) PROVE SweptInv'
  BY <1>19, ConstantsOK DEF Cancel, Spoil, OnCancel, OnError
<1>20. ASSUME NEW r \in Request, CleanupFails(r) PROVE SweptInv'
  BY <1>20, ConstantsOK DEF CleanupFails
<1>21. ASSUME NEW r \in Request, Die(r) PROVE SweptInv'
  BY <1>21, ConstantsOK DEF Die
<1>22. ASSUME NEW u \in User, Verify(u) PROVE SweptInv'
  BY <1>22 DEF Verify
<1>23. CASE Tick
  BY <1>23, ConstantsOK DEF Tick
<1>24. CASE UNCHANGED vars
  BY <1>24 DEF vars
<1> QED
  BY <1>1, <1>2, <1>3, <1>4, <1>5, <1>6, <1>7, <1>8, <1>9, <1>10, <1>11, <1>12,
     <1>13, <1>14, <1>15, <1>16, <1>17, <1>18, <1>19, <1>20, <1>21, <1>22, <1>23, <1>24
     DEF Next, Step, AllDone

\* What the lock holder sees of its account, once it has swept, deserves to
\* count: it is settled, or not older than the TTL (Visible after TakeLock).
LEMMA VisibleDeserves ==
    ASSUME TypeOK, SweptInv, NEW r \in Request, pc[r] = "check",
           NEW q \in Visible(Owner[r])
    PROVE  /\ q \in Request /\ Owner[q] = Owner[r]
           /\ row[q] = "settled" \/ (row[q] = "reserved" /\ stamp[q] + TTL >= stamp[r])
<1>1. q \in Request /\ Owner[q] = Owner[r] /\ row[q] # "none" /\ q \notin doomed[Owner[r]]
  BY DEF Visible, Rows
<1>2. row[q] \in {"reserved", "settled"}
  BY <1>1 DEF TypeOK, Status
<1>3. ~(row[q] = "reserved" /\ stamp[q] + TTL < stamp[r])
  BY <1>1 DEF SweptInv
<1>4. stamp[q] \in Int /\ stamp[r] \in Int /\ TTL \in Int
  BY <1>1, ConstantsOK DEF TypeOK
<1> QED
  BY <1>1, <1>2, <1>3, <1>4

\* A request is refused only by rows of its own account that deserve to count,
\* under every fault: the sweep comes before the count, in the same lock
\* (acquire_quota_lock, query_quota_exceeded).
THEOREM RefusedOnlyAtLimit == Spec => RefusedAtLimit
<1> DEFINE OnDayOf(S) == {q \in S : Day(stamp[q]) >= Day(now)}
<1> DEFINE Refusal(r) ==
      IF taster[r] THEN Cardinality(Deserving(r)) >= TasterLimit
                   ELSE Cardinality(OnDayOf(Deserving(r))) >= DailyLimit
<1>1. ASSUME TypeOK, SweptInv, NEW r \in Request, Check(r), ~HasRoom(r, now)
      PROVE  Refusal(r)
  <2>1. pc[r] = "check"
    BY <1>1 DEF Check
  <2>2. Visible(Owner[r]) \subseteq Deserving(r)
    BY <1>1, <2>1, VisibleDeserves DEF Deserving
  <2>3. Today(Owner[r], now) \subseteq OnDayOf(Deserving(r))
    BY <2>2 DEF Today
  <2>4. IsFiniteSet(Deserving(r)) /\ IsFiniteSet(OnDayOf(Deserving(r)))
    <3>1. Deserving(r) \subseteq Request /\ OnDayOf(Deserving(r)) \subseteq Request
      BY DEF Deserving
    <3> QED
      BY <3>1, ConstantsOK, FS_Subset
  <2>5. /\ Cardinality(Visible(Owner[r])) \in Nat /\ Cardinality(Deserving(r)) \in Nat
        /\ Cardinality(Visible(Owner[r])) <= Cardinality(Deserving(r))
    BY <2>2, <2>4, FewerRows
  <2>6. /\ Cardinality(Today(Owner[r], now)) \in Nat
        /\ Cardinality(OnDayOf(Deserving(r))) \in Nat
        /\ Cardinality(Today(Owner[r], now)) <= Cardinality(OnDayOf(Deserving(r)))
    BY <2>3, <2>4, FewerRows
  <2>7. TasterLimit \in Nat /\ DailyLimit \in Nat
    BY ConstantsOK
  <2>8. CASE taster[r]
    <3>1. ~(Cardinality(Visible(Owner[r])) < TasterLimit)
      BY <1>1, <2>8 DEF HasRoom
    <3>2. Cardinality(Deserving(r)) >= TasterLimit
      BY <2>5, <2>7, <3>1
    <3> QED
      BY <2>8, <3>2
  <2>9. CASE ~taster[r]
    <3>1. ~(Cardinality(Today(Owner[r], now)) < DailyLimit)
      BY <1>1, <2>9 DEF HasRoom
    <3>2. Cardinality(OnDayOf(Deserving(r))) >= DailyLimit
      BY <2>6, <2>7, <3>1
    <3> QED
      BY <2>9, <3>2
  <2> QED
    BY <2>8, <2>9
<1>2. TypeOK /\ SweptInv => RefusalsDeserved
  BY <1>1 DEF RefusalsDeserved
<1>3. TypeOK /\ ControlInv /\ SweptInv /\ [Next]_vars => (ControlInv /\ SweptInv)'
  BY ControlStep, SweptStep
<1> QED
  BY <1>2, <1>3, ControlInit, SweptInit, TypeCorrect, PTL DEF Spec, RefusedAtLimit

-----------------------------------------------------------------------------
(***************************************************************************)
(* The request handlers implement the ledger, for every set of requests,   *)
(* accounts and faults and every limit, clock bound and TTL.               *)
(***************************************************************************)


\* What the mapping needs to know of the rows: they were opened and counted in
\* the past; a row the sweep picked is unsettled, stale and of the account that
\* swept; and a charged request forgets its reservation unless the
\* acknowledgement of the charge was lost (acquire_quota_lock, finalize).
RowsInv ==
    /\ \A r \in Request : stamp[r] <= now /\ countedAt[r] <= now
    /\ \A u \in User : \A q \in doomed[u] :
          Owner[q] = u /\ row[q] = "reserved" /\ stamp[q] + TTL < now
    /\ \A r \in Request : row[r] = "settled" /\ hold[r] => "lost_ack" \in Faults

\* There are no rows at the start (Init).
LEMMA RowsInit == Init => RowsInv
  BY ConstantsOK DEF Init, RowsInv

\* Every step keeps the facts about the rows.
LEMMA RowsStep == TypeOK /\ ControlInv /\ RowsInv /\ [Next]_vars => RowsInv'
<1> SUFFICES ASSUME TypeOK, ControlInv, RowsInv, [Next]_vars PROVE RowsInv'
  OBVIOUS
<1>a. /\ TTL \in Nat /\ Owner \in [Request -> User] /\ MaxTime \in Nat
      /\ NoRequest \notin Request
  BY ConstantsOK
<1> USE <1>a DEF tables, gate, arrival, runner, world, TypeOK, Unlock, RowsInv,
            ControlInv, RowAfterAdmission, Admission, Status
<1>1. ASSUME NEW r \in Request, Arrive(r) PROVE RowsInv'
  BY <1>1 DEF Arrive
<1>2. ASSUME NEW r \in Request, TakeLock(r) PROVE RowsInv'
  BY <1>2 DEF TakeLock, Stale, Rows
<1>3. ASSUME NEW r \in Request, Check(r) PROVE RowsInv'
  BY <1>3 DEF Check
<1>4. ASSUME NEW r \in Request, Reserve(r) PROVE RowsInv'
  BY <1>4 DEF Reserve, LockHeld
<1>5. ASSUME NEW r \in Request, ResolveScope(r) PROVE RowsInv'
  BY <1>5 DEF ResolveScope
<1>6. ASSUME NEW r \in Request, SaveQuestion(r) PROVE RowsInv'
  BY <1>6 DEF SaveQuestion
<1>7. ASSUME NEW r \in Request, Embed(r) PROVE RowsInv'
  BY <1>7 DEF Embed
<1>8. ASSUME NEW r \in Request, Lookup(r) PROVE RowsInv'
  BY <1>8 DEF Lookup
<1>9. ASSUME NEW r \in Request, Retrieve(r) PROVE RowsInv'
  BY <1>9 DEF Retrieve
<1>10. ASSUME NEW r \in Request, Generate(r) PROVE RowsInv'
  BY <1>10 DEF Generate
<1>11. ASSUME NEW r \in Request, Settle(r) PROVE RowsInv'
  BY <1>11 DEF Settle, AckLost
<1>12. ASSUME NEW r \in Request, Store(r) PROVE RowsInv'
  BY <1>12 DEF Store
<1>13. ASSUME NEW r \in Request, Trace(r) PROVE RowsInv'
  BY <1>13 DEF Trace
<1>14. ASSUME NEW r \in Request, PersistAnswer(r) PROVE RowsInv'
  BY <1>14 DEF PersistAnswer
<1>15. ASSUME NEW r \in Request, Release(r) PROVE RowsInv'
  BY <1>15, SMTT(30) DEF Release
<1>16. ASSUME NEW r \in Request, Discard(r) PROVE RowsInv'
  BY <1>16 DEF Discard
<1>17. ASSUME NEW r \in Request, Report(r) PROVE RowsInv'
  BY <1>17 DEF Report
<1>18. ASSUME NEW r \in Request, Fail(r) PROVE RowsInv'
  BY <1>18 DEF Fail
<1>19. ASSUME NEW r \in Request, Cancel(r) PROVE RowsInv'
  BY <1>19 DEF Cancel
<1>20. ASSUME NEW r \in Request, CleanupFails(r) PROVE RowsInv'
  BY <1>20 DEF CleanupFails
<1>21. ASSUME NEW r \in Request, Die(r) PROVE RowsInv'
  BY <1>21 DEF Die
<1>22. ASSUME NEW u \in User, Verify(u) PROVE RowsInv'
  BY <1>22 DEF Verify
<1>23. CASE Tick
  BY <1>23 DEF Tick
<1>24. CASE UNCHANGED vars
  BY <1>24 DEF vars
<1> QED
  BY <1>1, <1>2, <1>3, <1>4, <1>5, <1>6, <1>7, <1>8, <1>9, <1>10, <1>11, <1>12,
     <1>13, <1>14, <1>15, <1>16, <1>17, <1>18, <1>19, <1>20, <1>21, <1>22, <1>23, <1>24
     DEF Next, Step, AllDone

\* The entries of the ledger are the rows of the table (entryOf).
LEMMA Entries ==
    /\ \A q \in Request : (entryOf[q] = Ledger!Absent) <=> (row[q] = "none")
    /\ \A q \in Request : row[q] # "none" =>
          entryOf[q] = [kind |-> row[q], at |-> stamp[q], counted |-> countedAt[q]]
    /\ \A u \in User : Ledger!EntriesOf(u) = Rows(u)
<1>1. \A q \in Request : row[q] = "none" => entryOf[q] = Ledger!Absent
  BY DEF entryOf, Ledger!Absent
<1>2. \A q \in Request : row[q] # "none" =>
          entryOf[q] = [kind |-> row[q], at |-> stamp[q], counted |-> countedAt[q]]
  BY DEF entryOf
<1>3. \A q \in Request : row[q] # "none" => entryOf[q] # Ledger!Absent
  <2> SUFFICES ASSUME NEW q \in Request, row[q] # "none"
               PROVE  entryOf[q] # Ledger!Absent
    OBVIOUS
  <2>1. entryOf[q] = [kind |-> row[q], at |-> stamp[q], counted |-> countedAt[q]]
    BY <1>2
  <2>2. entryOf[q].kind # "none"
    BY <2>1
  <2> QED
    BY <2>2 DEF Ledger!Absent
<1> QED
  BY <1>1, <1>2, <1>3 DEF Ledger!EntriesOf, Rows

\* A step that leaves the rows alone, and moves neither stamp nor count of a row
\* that exists, does nothing to the ledger.
LEMMA Stutters ==
    ASSUME UNCHANGED <<now, verified>>,
           \A q \in Request : /\ row'[q] = row[q]
                              /\ row[q] # "none" => /\ stamp'[q] = stamp[q]
                                                    /\ countedAt'[q] = countedAt[q]
    PROVE  UNCHANGED Ledger!ledger
<1>1. entryOf' = entryOf
  BY DEF entryOf
<1> QED
  BY <1>1 DEF Ledger!ledger

\* The ledger counts as the pipeline does: both extend FiniteSets (queries_total).
LEMMA SameCount == \A S : Ledger!Cardinality(S) = Cardinality(S)
  BY DEF Cardinality, Ledger!Cardinality

\* Inserting the row is admitting the request: what the count saw is what the
\* strike-out leaves (Reserve).
LEMMA ReserveAdmits ==
    ASSUME TypeOK, AdmissionInv, RowsInv, NEW r \in Request, Reserve(r)
    PROVE  Ledger!Admit(r)
<1> DEFINE u == Owner[r]
<1>1. u \in User /\ TasterLimit \in Nat /\ DailyLimit \in Nat
  BY ConstantsOK
<1>2. /\ pc[r] = "reserve" /\ row[r] = "none"
      /\ UNCHANGED <<now, verified, stamp, countedAt>>
      /\ row' = [q \in Request |-> IF q = r THEN "reserved"
                                   ELSE IF q \in doomed[u] THEN "none"
                                   ELSE row[q]]
  BY DEF Reserve, AdmissionInv, RowAfterAdmission, Admission, arrival, world
<1>3. stamp[r] \in 0..now /\ countedAt[r] \in 0..now
  BY DEF RowsInv, TypeOK
<1>4. doomed[u] \in SUBSET Ledger!Expired(u)
  <2> SUFFICES ASSUME NEW q \in doomed[u]
               PROVE  q \in Ledger!Expired(u)
    OBVIOUS
  <2>1. q \in Request /\ Owner[q] = u /\ row[q] = "reserved" /\ stamp[q] + TTL < now
    BY <1>1 DEF RowsInv, TypeOK
  <2>2. entryOf[q] = [kind |-> row[q], at |-> stamp[q], counted |-> countedAt[q]]
    BY <2>1, Entries
  <2>3. q \in Ledger!EntriesOf(u)
    BY <1>1, <2>1, Entries DEF Rows
  <2> QED
    BY <2>1, <2>2, <2>3 DEF Ledger!Expired
<1>5. Ledger!Room(u, Ledger!EntriesOf(u) \ doomed[u], countedAt[r])
  <2>1. Ledger!EntriesOf(u) \ doomed[u] = Visible(u)
    BY <1>1, Entries DEF Visible
  <2>2. {q \in Visible(u) : Ledger!Day(entryOf[q].at) >= Ledger!Day(countedAt[r])}
          = Today(u, countedAt[r])
    <3>1. \A q \in Visible(u) : entryOf[q].at = stamp[q]
      <4> SUFFICES ASSUME NEW q \in Visible(u) PROVE entryOf[q].at = stamp[q]
        OBVIOUS
      <4>1. entryOf[q] = [kind |-> row[q], at |-> stamp[q], counted |-> countedAt[q]]
        BY Entries DEF Visible, Rows
      <4> QED
        BY <4>1
    <3> QED
      BY <3>1 DEF Today, Ledger!Day, Day
  <2>3. HasRoom(r, countedAt[r])
    BY <1>2 DEF AdmissionInv, RoomKept
  <2>4. CASE taster[r]
    <3>1. TasterLimit = 0 \/ Cardinality(Visible(u)) < TasterLimit
      BY <2>3, <2>4 DEF HasRoom
    <3> QED
      BY <2>1, <3>1, SameCount DEF Ledger!Room
  <2>5. CASE ~taster[r]
    <3>1. DailyLimit = 0 \/ Cardinality(Today(u, countedAt[r])) < DailyLimit
      BY <2>3, <2>5 DEF HasRoom
    <3>2. verified[u]
      BY <1>2, <2>5 DEF AdmissionInv, TasterKnown, Admission
    <3> QED
      BY <2>1, <2>2, <3>1, <3>2, SameCount DEF Ledger!Room
  <2> QED
    BY <2>4, <2>5
<1>6. entryOf' = [q \in Request |->
          IF q = r THEN [kind |-> "reserved", at |-> stamp[r], counted |-> countedAt[r]]
          ELSE IF q \in doomed[u] THEN Ledger!Absent
          ELSE entryOf[q]]
  BY <1>2 DEF entryOf, Ledger!Absent
<1>7. entryOf[r] = Ledger!Absent
  BY <1>2, Entries
<1> QED
  BY <1>2, <1>3, <1>4, <1>5, <1>6, <1>7 DEF Ledger!Admit

\* commit_reservation settles the entry, or does nothing when the row is gone.
LEMMA SettleSettles ==
    ASSUME TypeOK, NEW r \in Request, Settle(r)
    PROVE  Ledger!Settle(r) \/ UNCHANGED Ledger!ledger
<1>1. /\ UNCHANGED <<now, verified, stamp, countedAt>>
      /\ row' = [row EXCEPT ![r] = IF @ = "none" THEN @ ELSE "settled"]
  BY DEF Settle, arrival, world
<1>2. CASE row[r] = "reserved"
  <2>1. entryOf[r] = [kind |-> "reserved", at |-> stamp[r], counted |-> countedAt[r]]
    BY <1>2, Entries
  <2>2. entryOf' = [entryOf EXCEPT ![r].kind = "settled"]
    BY <1>1, <1>2, <2>1 DEF entryOf, TypeOK
  <2> QED
    BY <1>1, <2>1, <2>2 DEF Ledger!Settle
<1>3. CASE row[r] # "reserved"
  <2>1. row' = row
    BY <1>1, <1>3 DEF TypeOK, Status
  <2> QED
    BY <1>1, <2>1, Stutters
<1> QED
  BY <1>2, <1>3

\* release_reservation refunds the entry, or does nothing when there is none.
LEMMA ReleaseRefunds ==
    ASSUME TypeOK, RowsInv, NEW r \in Request, Release(r)
    PROVE  Ledger!Refund(r) \/ UNCHANGED Ledger!ledger
<1>1. /\ UNCHANGED <<now, verified, stamp, countedAt>>
      /\ row' = row \/ (hold[r] /\ row' = [row EXCEPT ![r] = "none"])
  BY DEF Release, arrival, world
<1>2. CASE row' = row
  BY <1>1, <1>2, Stutters
<1>3. CASE row' # row
  <2>1. hold[r] /\ row' = [row EXCEPT ![r] = "none"] /\ row[r] \in {"reserved", "settled"}
    BY <1>1, <1>3 DEF TypeOK, Status
  <2>2. entryOf[r].kind = row[r]
    <3>1. entryOf[r] = [kind |-> row[r], at |-> stamp[r], counted |-> countedAt[r]]
      BY <2>1, Entries
    <3> QED
      BY <3>1
  <2>3. row[r] \in refundable
    BY <2>1 DEF RowsInv, refundable
  <2>4. entryOf' = [entryOf EXCEPT ![r] = Ledger!Absent]
    BY <1>1, <2>1 DEF entryOf, TypeOK, Ledger!Absent
  <2> QED
    BY <1>1, <2>2, <2>3, <2>4 DEF Ledger!Refund
<1> QED
  BY <1>2, <1>3

\* Every other step of a request is invisible in the ledger.
LEMMA OthersStutter ==
    ASSUME TypeOK, ControlInv, NEW r \in Request,
           Arrive(r) \/ Step(r) \/ Fail(r) \/ Cancel(r) \/ CleanupFails(r) \/ Die(r),
           ~Reserve(r), ~Settle(r), ~Release(r)
    PROVE  UNCHANGED Ledger!ledger
<1>1. CASE Arrive(r)
  <2>1. row[r] = "none" /\ UNCHANGED <<now, verified, row, countedAt>>
        /\ stamp' = [stamp EXCEPT ![r] = now]
    BY <1>1 DEF Arrive, ControlInv, RowAfterAdmission, world, tables
  <2> QED
    BY <2>1, Stutters DEF TypeOK
<1>2. CASE Check(r)
  <2>1. row[r] = "none" /\ UNCHANGED <<now, verified, row, stamp>>
        /\ countedAt' = [countedAt EXCEPT ![r] = now]
    BY <1>2 DEF Check, ControlInv, RowAfterAdmission, Admission, world, tables
  <2> QED
    BY <2>1, Stutters DEF TypeOK
<1>3. CASE ~Arrive(r) /\ ~Check(r)
  <2>1. UNCHANGED <<now, verified, row, stamp, countedAt>>
    <3> USE DEF world, tables, arrival
    <3>1. CASE TakeLock(r) \/ ResolveScope(r) \/ SaveQuestion(r) \/ Embed(r) \/ Lookup(r)
      BY <3>1 DEF TakeLock, ResolveScope, SaveQuestion, Embed, Lookup
    <3>2. CASE Retrieve(r) \/ Generate(r) \/ Store(r) \/ Trace(r) \/ PersistAnswer(r)
      BY <3>2 DEF Retrieve, Generate, Store, Trace, PersistAnswer
    <3>3. CASE Discard(r) \/ Report(r) \/ Fail(r) \/ Cancel(r) \/ CleanupFails(r) \/ Die(r)
      BY <3>3 DEF Discard, Report, Fail, Cancel, CleanupFails, Die
    <3> QED
      BY <1>3, <3>1, <3>2, <3>3 DEF Step
  <2> QED
    BY <2>1, Stutters
<1> QED
  BY <1>1, <1>2, <1>3

\* The empty table is the empty ledger (Init).
LEMMA LedgerInit == Init => Ledger!Init
<1> SUFFICES ASSUME Init PROVE Ledger!Init
  OBVIOUS
<1>1. entryOf = [r \in Request |-> Ledger!Absent]
  BY DEF Init, entryOf, Ledger!Absent
<1> QED
  BY <1>1 DEF Init, Ledger!Init

\* Every step of the handlers is a step of the ledger or invisible in it.
LEMMA LedgerStep ==
    TypeOK /\ AdmissionInv /\ RowsInv /\ [Next]_vars => [Ledger!Next]_(Ledger!ledger)
<1> SUFFICES ASSUME TypeOK, AdmissionInv, RowsInv, [Next]_vars
             PROVE  Ledger!Next \/ UNCHANGED Ledger!ledger
  OBVIOUS
<1>1. ControlInv
  BY DEF AdmissionInv, ControlInv
<1>2. CASE \E r \in Request : Reserve(r)
  BY <1>2, ReserveAdmits DEF Ledger!Next
<1>3. CASE \E r \in Request : Settle(r)
  BY <1>3, SettleSettles DEF Ledger!Next
<1>4. CASE \E r \in Request : Release(r)
  BY <1>4, ReleaseRefunds DEF Ledger!Next
<1>5. ASSUME NEW u \in User, Verify(u) PROVE Ledger!Next
  <2>1. UNCHANGED <<now, row, stamp, countedAt>>
    BY <1>5 DEF Verify, tables, arrival
  <2>2. entryOf' = entryOf
    BY <2>1 DEF entryOf
  <2>3. Ledger!Verify(u)
    BY <1>5, <2>1, <2>2 DEF Verify, Ledger!Verify
  <2> QED
    BY <2>3 DEF Ledger!Next
<1>6. CASE Tick
  <2>1. UNCHANGED <<verified, row, stamp, countedAt>>
    BY <1>6 DEF Tick, tables, arrival
  <2>2. entryOf' = entryOf
    BY <2>1 DEF entryOf
  <2> QED
    BY <1>6, <2>1, <2>2 DEF Tick, Ledger!Tick, Ledger!Next
<1>7. CASE UNCHANGED vars
  <2>1. UNCHANGED <<now, verified, row, stamp, countedAt>>
    BY <1>7 DEF vars, world, tables, arrival
  <2> QED
    BY <2>1, Stutters
<1>8. ASSUME NEW r \in Request,
             Arrive(r) \/ Step(r) \/ Fail(r) \/ Cancel(r) \/ CleanupFails(r) \/ Die(r),
             ~Reserve(r), ~Settle(r), ~Release(r)
      PROVE  UNCHANGED Ledger!ledger
  BY <1>1, <1>8, OthersStutter
<1> QED
  BY <1>2, <1>3, <1>4, <1>5, <1>6, <1>7, <1>8 DEF Next, AllDone

\* The lock, the sweep, the count and the insert are together one atomic
\* admission; a charge is final; only stale unsettled rows are ever struck out:
\* the handlers implement the ledger.
THEOREM PipelineImplementsLedger == Spec => LedgerSpec
<1>1. Init => TypeOK /\ AdmissionInv /\ RowsInv /\ Ledger!Init
  BY TypeInit, AdmissionInit, RowsInit, LedgerInit
<1>2. TypeOK /\ AdmissionInv /\ RowsInv /\ [Next]_vars => (TypeOK /\ AdmissionInv /\ RowsInv)'
  <2>1. AdmissionInv => ControlInv
    BY DEF AdmissionInv, ControlInv
  <2> QED
    BY <2>1, TypeStep, AdmissionStep, RowsStep
<1>3. TypeOK /\ AdmissionInv /\ RowsInv /\ [Next]_vars => [Ledger!Next]_(Ledger!ledger)
  BY LedgerStep
<1> QED
  BY <1>1, <1>2, <1>3, PTL DEF Spec, LedgerSpec, Ledger!Spec

=============================================================================
