---------------------------- MODULE DocumentsProofs ----------------------------
(***************************************************************************)
(* Theorems about Documents, for every set of documents, accounts and      *)
(* questions, every limit and every set of faults.                         *)
(***************************************************************************)
EXTENDS Documents, FiniteSetTheorems, TLAPS

-----------------------------------------------------------------------------
(***************************************************************************)
(* One document: its row, its chunks, its bill and its file.               *)
(***************************************************************************)

\* An upload that is not accepted yet, or was refused.
BeforeRow == {"idle", "read", "lock", "count", "commit", "refused"}

\* Where the upload, the indexing task and the delete request of a document may
\* be, given its row: the three tasks share no transaction, so this is what
\* their guards and early returns come to.
LifeInv ==
    \A d \in Document :
        /\ row[d] # "none" <=> d \in accepted
        /\ upload[d] \in BeforeRow => row[d] = "none"
        /\ row[d] = "none" => upload[d] \in BeforeRow \cup {"failed"} /\ remove[d] = "idle"
        /\ index[d] # "none" <=> upload[d] = "accepted"
        /\ remove[d] \in {"discard", "invalidate", "done"} => row[d] = "deleted"
        /\ row[d] = "deleted" => remove[d] \in {"discard", "invalidate", "done", "dead"}
        /\ index[d] \in {"load", "claim"} => row[d] \in {"pending", "deleted"}
        /\ index[d] \in {"extract", "store"} => row[d] \in {"processing", "deleted"}
        /\ index[d] \in {"charge", "invalidate"} => row[d] \in {"ready", "deleted"}
        /\ row[d] = "pending" => index[d] \in {"none", "load", "claim", "dead"}
        /\ row[d] = "processing" => index[d] \in {"extract", "store", "fail", "dead"}
        /\ row[d] = "ready" => index[d] \in {"charge", "invalidate", "fail", "done", "dead"}
        /\ row[d] = "failed" => index[d] = "done"
        /\ row[d] = "ready" => d \in chunks
        /\ row[d] \in {"none", "pending", "processing", "deleted"} => d \notin chunks
        /\ index[d] = "invalidate" => d \in ingested
        /\ index[d] = "done" /\ row[d] = "ready" => d \in ingested
        /\ upload[d] = "accepted" /\ Live(d) => d \in files

\* What a question holds in hand (NoProbe, SearchDense, SearchSparse).
Probe == [scope : Document \cup {All}, seen : SUBSET Document, overtaken : BOOLEAN]

\* A question begins with nothing in hand.
LEMMA NoProbeType == NoProbe \in Probe
  BY DEF NoProbe, Probe

\* Changing a field of it keeps its type.
LEMMA ProbeType ==
    ASSUME NEW p \in Probe
    PROVE  /\ [p EXCEPT !.overtaken = TRUE] \in Probe
           /\ [p EXCEPT !.overtaken = FALSE] \in Probe
           /\ \A s \in Document \cup {All} : [p EXCEPT !.scope = s] \in Probe
           /\ \A S \in SUBSET Document : [p EXCEPT !.seen = S] \in Probe
<1>1. [p EXCEPT !.overtaken = TRUE] \in Probe /\ [p EXCEPT !.overtaken = FALSE] \in Probe
  BY Zenon DEF Probe
<1>2. \A s \in Document \cup {All} : [p EXCEPT !.scope = s] \in Probe
  BY DEF Probe
<1>3. \A S \in SUBSET Document : [p EXCEPT !.seen = S] \in Probe
  BY DEF Probe
<1> QED
  BY <1>1, <1>2, <1>3, Zenon

\* So does dropping an account's answers over its whole corpus.
LEMMA DropType ==
    ASSUME TypeOK, NEW u, DropCorpusWide(u)
    PROVE  cached' \subseteq Answers /\ probe' \in [Question -> Probe]
<1>1. cached' \subseteq Answers
  BY DEF DropCorpusWide, TypeOK
<1>2. \A q \in Question : probe[q] \in Probe
  BY DEF TypeOK, Probe
<1>3. \A q \in Question : [probe[q] EXCEPT !.overtaken = TRUE] \in Probe
  BY <1>2, ProbeType, Zenon
<1>4. probe' \in [Question -> Probe]
  BY <1>2, <1>3, Zenon DEF DropCorpusWide
<1> QED
  BY <1>1, <1>4

\* Every variable starts with its type (Init).
LEMMA TypeInit == Init => TypeOK
<1> SUFFICES ASSUME Init PROVE TypeOK
  OBVIOUS
<1>1. \A u \in User : EarlyAnswer(u) \in Answers
  BY DEF EarlyAnswer, Answers
<1>2. cached \subseteq Answers
  BY <1>1 DEF Init
<1>3. probe \in [Question -> Probe]
  BY NoProbeType DEF Init
<1> QED
  BY <1>2, <1>3, DocumentsOK DEF Init, TypeOK, Probe, Statuses, UploadPC, IndexPC, RemovePC, AskPC

\* No action takes a variable out of its type, and a page is only billed for an
\* accepted upload (Charge).
LEMMA TypeStep == TypeOK /\ LifeInv /\ [Next]_vars => TypeOK'
<1> SUFFICES ASSUME TypeOK, LifeInv, [Next]_vars PROVE TypeOK'
  OBVIOUS
<1> USE DEF documents, ledger, tasks, questions, UploadGoes, IndexGoes, RemoveGoes, AskGoes,
            TypeOK, Statuses, UploadPC, IndexPC, RemovePC, AskPC
<1>1. ASSUME NEW d \in Document, Arrive(d) PROVE TypeOK'
  BY <1>1, DocumentsOK DEF Arrive
<1>2. ASSUME NEW d \in Document, ReadFile(d) PROVE TypeOK'
  BY <1>2, DocumentsOK DEF ReadFile
<1>3. ASSUME NEW d \in Document, TakeLock(d) PROVE TypeOK'
  BY <1>3, DocumentsOK DEF TakeLock
<1>4. ASSUME NEW d \in Document, Count(d) PROVE TypeOK'
  BY <1>4, DocumentsOK DEF Count, Unlocked
<1>5. ASSUME NEW d \in Document, Accept(d) PROVE TypeOK'
  <2>1. lock' \in [User -> Document \cup {NoUpload}]
    BY <1>5, DocumentsOK DEF Accept, Unlocked
  <2>2. row' \in [Document -> Statuses] /\ upload' \in [Document -> UploadPC]
    BY <1>5 DEF Accept
  <2>3. ingested' \subseteq accepted' /\ accepted' \subseteq Document
    BY <1>5 DEF Accept
  <2> QED
    BY <1>5, <2>1, <2>2, <2>3 DEF Accept
<1>6. ASSUME NEW d \in Document, Refresh(d) PROVE TypeOK'
  BY <1>6, DocumentsOK DEF Refresh
<1>7. ASSUME NEW d \in Document, WriteFile(d) PROVE TypeOK'
  BY <1>7, DocumentsOK, SMTT(30) DEF WriteFile
<1>8. ASSUME NEW d \in Document, Load(d) PROVE TypeOK'
  BY <1>8, DocumentsOK DEF Load
<1>9. ASSUME NEW d \in Document, Claim(d) PROVE TypeOK'
  BY <1>9, DocumentsOK, ZenonT(60) DEF Claim
<1>10. ASSUME NEW d \in Document, ExtractAndEmbed(d) PROVE TypeOK'
  BY <1>10, DocumentsOK DEF ExtractAndEmbed
<1>11. ASSUME NEW d \in Document, StoreChunks(d) PROVE TypeOK'
  <2>1. /\ row' = row \/ row' = [row EXCEPT ![d] = "ready"]
        /\ index' = [index EXCEPT ![d] = "charge"] \/ index' = [index EXCEPT ![d] = "fail"]
    BY <1>11, Zenon DEF StoreChunks, IndexRaises
  <2>3. row' \in [Document -> Statuses] /\ index' \in [Document -> IndexPC]
    BY <2>1
  <2>2. chunks' \subseteq Document /\ UNCHANGED <<ingested, cached, accepted>>
    BY <1>11 DEF StoreChunks, IndexRaises
  <2> QED
    BY <1>11, <2>2, <2>3 DEF StoreChunks
<1>12. ASSUME NEW d \in Document, Charge(d) PROVE TypeOK'
  BY <1>12, DocumentsOK DEF Charge, IndexRaises, LifeInv
<1>13. ASSUME NEW d \in Document, InvalidateIndexed(d) PROVE TypeOK'
  <2>1. index' \in [Document -> IndexPC]
    BY <1>13 DEF InvalidateIndexed, IndexRaises
  <2>2. cached' \subseteq Answers /\ probe' \in [Question -> Probe]
    BY <1>13, DropType DEF InvalidateIndexed, IndexRaises, Probe
  <2>3. UNCHANGED <<row, chunks, ingested>>
    BY <1>13 DEF InvalidateIndexed, IndexRaises
  <2> QED
    BY <1>13, <2>1, <2>2, <2>3 DEF InvalidateIndexed, Probe
<1>14. ASSUME NEW d \in Document, FailIndexing(d) PROVE TypeOK'
  BY <1>14, DocumentsOK, SMTT(30) DEF FailIndexing
<1>15. ASSUME NEW d \in Document, Find(d) PROVE TypeOK'
  BY <1>15, DocumentsOK DEF Find
<1>16. ASSUME NEW d \in Document, Remove(d) PROVE TypeOK'
  BY <1>16, DocumentsOK, SMTT(30) DEF Remove
<1>17. ASSUME NEW d \in Document, Discard(d) PROVE TypeOK'
  BY <1>17, DocumentsOK DEF Discard
<1>18. ASSUME NEW d \in Document, InvalidateRemoved(d) PROVE TypeOK'
  <2>1. cached' \subseteq Answers /\ probe' \in [Question -> Probe]
    BY <1>18, DropType DEF InvalidateRemoved
  <2> QED
    BY <1>18, <2>1 DEF InvalidateRemoved, Probe
<1>19. ASSUME NEW d \in Document, Die(d) PROVE TypeOK'
  <2>1. /\ upload' = upload \/ upload' = [upload EXCEPT ![d] = "failed"]
        /\ index' = index \/ index' = [index EXCEPT ![d] = "dead"]
        /\ remove' = remove \/ remove' = [remove EXCEPT ![d] = "dead"]
        /\ lock' = lock \/ lock' = Unlocked(d)
    BY <1>19, Zenon DEF Die
  <2>2. upload' \in [Document -> UploadPC] /\ index' \in [Document -> IndexPC]
    BY <2>1
  <2>3. remove' \in [Document -> RemovePC] /\ lock' \in [User -> Document \cup {NoUpload}]
    BY <2>1, DocumentsOK, SMTT(30) DEF Unlocked
  <2> QED
    BY <1>19, <2>2, <2>3 DEF Die
<1>20. ASSUME NEW q \in Question, Ask(q) PROVE TypeOK'
  <2>1. PICK s \in DocumentsOf(Asker[q]) \cup {All} :
           IF s \in Scopes
           THEN AskGoes(q, "lookup") /\ probe' = [probe EXCEPT ![q].scope = s]
           ELSE AskEnds(q)
    BY <1>20 DEF Ask
  <2>2. s \in Document \cup {All}
    BY DEF DocumentsOf
  <2>3. probe \in [Question -> Probe]
    BY DEF Probe
  <2>4. [probe[q] EXCEPT !.scope = s] \in Probe
    BY <2>2, <2>3, ProbeType, Zenon
  <2>5. \/ probe' = [probe EXCEPT ![q] = [probe[q] EXCEPT !.scope = s]]
        \/ probe' = [probe EXCEPT ![q] = NoProbe]
    BY <2>1, Zenon DEF AskEnds
  <2>6. probe' \in [Question -> Probe]
    BY <2>3, <2>4, <2>5, NoProbeType
  <2>7. asked' \in [Question -> AskPC]
    BY <2>1 DEF AskEnds
  <2> QED
    BY <1>20, <2>6, <2>7 DEF Ask, Probe
<1>21. ASSUME NEW q \in Question, Lookup(q) PROVE TypeOK'
  <2>1. probe' \in [Question -> Probe] /\ asked' \in [Question -> AskPC]
    BY <1>21, NoProbeType DEF Lookup, AskEnds, Probe
  <2> QED
    BY <1>21, <2>1 DEF Lookup, Probe
<1>22. ASSUME NEW q \in Question, SearchDense(q) PROVE TypeOK'
  <2>1. Visible(q) \subseteq Document
    BY DEF Visible
  <2>2. probe' = [probe EXCEPT ![q] = [[probe[q] EXCEPT !.seen = Visible(q)] EXCEPT !.overtaken = FALSE]]
    BY <1>22, Zenon DEF SearchDense
  <2>3. probe \in [Question -> Probe]
    BY DEF Probe
  <2>4. [[probe[q] EXCEPT !.seen = Visible(q)] EXCEPT !.overtaken = FALSE] \in Probe
    BY <2>1, <2>3, ProbeType, Zenon
  <2>5. probe' \in [Question -> Probe]
    BY <2>2, <2>3, <2>4, Zenon
  <2> QED
    BY <1>22, <2>5 DEF SearchDense, Probe
<1>23. ASSUME NEW q \in Question, SearchSparse(q) PROVE TypeOK'
  <2>1. probe[q].seen \cup Visible(q) \subseteq Document
    BY DEF Visible
  <2>2. probe' = [probe EXCEPT ![q] = [probe[q] EXCEPT !.seen = probe[q].seen \cup Visible(q)]]
    BY <1>23, Zenon DEF SearchSparse
  <2>3. probe \in [Question -> Probe]
    BY DEF Probe
  <2>4. [probe[q] EXCEPT !.seen = probe[q].seen \cup Visible(q)] \in Probe
    BY <2>1, <2>3, ProbeType, Zenon
  <2>5. probe' \in [Question -> Probe]
    BY <2>2, <2>3, <2>4, Zenon
  <2> QED
    BY <1>23, <2>5 DEF SearchSparse, Probe
<1>24. ASSUME NEW q \in Question, StoreAnswer(q) PROVE TypeOK'
  <2>1. [user |-> Asker[q], scope |-> probe[q].scope, seen |-> probe[q].seen,
         overtaken |-> probe[q].overtaken] \in Answers
    BY DocumentsOK DEF Answers
  <2>2. cached' \subseteq Answers
    BY <1>24, <2>1 DEF StoreAnswer
  <2>3. probe' \in [Question -> Probe] /\ asked' \in [Question -> AskPC]
    BY <1>24, NoProbeType, SMTT(30) DEF StoreAnswer, AskEnds, Probe
  <2> QED
    BY <1>24, <2>2, <2>3 DEF StoreAnswer, Probe
<1>25. ASSUME NEW u \in User, Verify(u) PROVE TypeOK'
  BY <1>25, DocumentsOK DEF Verify
<1>26. CASE UNCHANGED vars
  BY <1>26 DEF vars
<1> QED
  BY <1>1, <1>2, <1>3, <1>4, <1>5, <1>6, <1>7, <1>8, <1>9, <1>10, <1>11, <1>12,
     <1>13, <1>14, <1>15, <1>16, <1>17, <1>18, <1>19, <1>20, <1>21, <1>22, <1>23,
     <1>24, <1>25, <1>26 DEF Next, Upload, Index, Delete, Answer, AllDone

\* There is no document when the system starts (Init).
LEMMA LifeInit == Init => LifeInv
  BY DEF Init, LifeInv, BeforeRow, Live

\* Every task looks at the row again before it goes on, so it holds whatever the
\* other two did since it last looked (Refresh, Load, Claim, StoreChunks).
LEMMA LifeStep == TypeOK /\ LifeInv /\ [Next]_vars => LifeInv'
<1> SUFFICES ASSUME TypeOK, LifeInv, [Next]_vars PROVE LifeInv'
  OBVIOUS
<1> USE DEF documents, ledger, tasks, questions, UploadGoes, IndexGoes, RemoveGoes, AskGoes,
            TypeOK, LifeInv, BeforeRow, Live
<1>1. ASSUME NEW d \in Document, Arrive(d) PROVE LifeInv'
  BY <1>1, DocumentsOK DEF Arrive
<1>2. ASSUME NEW d \in Document, ReadFile(d) PROVE LifeInv'
  BY <1>2, DocumentsOK DEF ReadFile
<1>3. ASSUME NEW d \in Document, TakeLock(d) PROVE LifeInv'
  BY <1>3, DocumentsOK DEF TakeLock
<1>4. ASSUME NEW d \in Document, Count(d) PROVE LifeInv'
  BY <1>4, DocumentsOK DEF Count, Unlocked
<1>5. ASSUME NEW d \in Document, Accept(d) PROVE LifeInv'
  BY <1>5, DocumentsOK DEF Accept, Unlocked
<1>6. ASSUME NEW d \in Document, Refresh(d) PROVE LifeInv'
  BY <1>6, DocumentsOK DEF Refresh
<1>7. ASSUME NEW d \in Document, WriteFile(d) PROVE LifeInv'
  BY <1>7, DocumentsOK DEF WriteFile, Statuses
<1>8. ASSUME NEW d \in Document, Load(d) PROVE LifeInv'
  BY <1>8, DocumentsOK DEF Load
<1>9. ASSUME NEW d \in Document, Claim(d) PROVE LifeInv'
  BY <1>9, DocumentsOK DEF Claim
<1>10. ASSUME NEW d \in Document, ExtractAndEmbed(d) PROVE LifeInv'
  BY <1>10, DocumentsOK DEF ExtractAndEmbed
<1>11. ASSUME NEW d \in Document, StoreChunks(d) PROVE LifeInv'
  BY <1>11, DocumentsOK DEF StoreChunks, IndexRaises
<1>12. ASSUME NEW d \in Document, Charge(d) PROVE LifeInv'
  BY <1>12, DocumentsOK DEF Charge, IndexRaises
<1>13. ASSUME NEW d \in Document, InvalidateIndexed(d) PROVE LifeInv'
  BY <1>13, DocumentsOK DEF InvalidateIndexed, IndexRaises, DropCorpusWide
<1>14. ASSUME NEW d \in Document, FailIndexing(d) PROVE LifeInv'
  BY <1>14, DocumentsOK DEF FailIndexing
<1>15. ASSUME NEW d \in Document, Find(d) PROVE LifeInv'
  BY <1>15, DocumentsOK DEF Find
<1>16. ASSUME NEW d \in Document, Remove(d) PROVE LifeInv'
  BY <1>16, DocumentsOK DEF Remove
<1>17. ASSUME NEW d \in Document, Discard(d) PROVE LifeInv'
  BY <1>17, DocumentsOK DEF Discard
<1>18. ASSUME NEW d \in Document, InvalidateRemoved(d) PROVE LifeInv'
  BY <1>18, DocumentsOK DEF InvalidateRemoved, DropCorpusWide
<1>19. ASSUME NEW d \in Document, Die(d) PROVE LifeInv'
  BY <1>19, DocumentsOK DEF Die, Unlocked
<1>20. ASSUME NEW q \in Question, Ask(q) PROVE LifeInv'
  BY <1>20, DocumentsOK DEF Ask, AskEnds
<1>21. ASSUME NEW q \in Question, Lookup(q) PROVE LifeInv'
  BY <1>21, DocumentsOK DEF Lookup, AskEnds
<1>22. ASSUME NEW q \in Question, SearchDense(q) PROVE LifeInv'
  BY <1>22, DocumentsOK DEF SearchDense
<1>23. ASSUME NEW q \in Question, SearchSparse(q) PROVE LifeInv'
  BY <1>23, DocumentsOK DEF SearchSparse
<1>24. ASSUME NEW q \in Question, StoreAnswer(q) PROVE LifeInv'
  BY <1>24, DocumentsOK DEF StoreAnswer, AskEnds
<1>25. ASSUME NEW u \in User, Verify(u) PROVE LifeInv'
  BY <1>25, DocumentsOK DEF Verify
<1>26. CASE UNCHANGED vars
  BY <1>26 DEF vars
<1> QED
  BY <1>1, <1>2, <1>3, <1>4, <1>5, <1>6, <1>7, <1>8, <1>9, <1>10, <1>11, <1>12,
     <1>13, <1>14, <1>15, <1>16, <1>17, <1>18, <1>19, <1>20, <1>21, <1>22, <1>23,
     <1>24, <1>25, <1>26 DEF Next, Upload, Index, Delete, Answer, AllDone

\* Every row, task, cached answer and question keeps its type, and nothing is
\* billed that was not accepted.
THEOREM TypeCorrect == Spec => []TypeOK
<1>1. Init => TypeOK /\ LifeInv
  BY TypeInit, LifeInit
<1>2. TypeOK /\ LifeInv /\ [Next]_vars => (TypeOK /\ LifeInv)'
  BY TypeStep, LifeStep
<1> QED
  BY <1>1, <1>2, PTL DEF Spec

\* The row of a document tells the truth about its chunks, its bill and its file,
\* however indexing, deletion and failures interleave.
THEOREM RowTellsTruth == Spec => []DocumentTrue
<1>1. Init => TypeOK /\ LifeInv
  BY TypeInit, LifeInit
<1>2. TypeOK /\ LifeInv /\ [Next]_vars => (TypeOK /\ LifeInv)'
  BY TypeStep, LifeStep
<1>3. LifeInv => DocumentTrue
  BY DEF LifeInv, DocumentTrue, StatusTellsChunks, ReadyIsCharged, RowHasFile
<1> QED
  BY <1>1, <1>2, <1>3, PTL DEF Spec

-----------------------------------------------------------------------------
(***************************************************************************)
(* The allowances of an account that has never verified.                   *)
(***************************************************************************)

\* The lock table and the labels agree, and an upload of an account that is
\* still unverified knows it.
LockInv ==
    /\ \A u \in User, d \in Document :
          lock[u] = d => Owner[d] = u /\ upload[d] \in {"count", "commit"}
    /\ \A d \in Document : upload[d] \in {"count", "commit"} => lock[Owner[d]] = d
    /\ \A d \in Document :
          upload[d] \in {"read", "lock", "count", "commit"} /\ ~verified[Owner[d]] => taster[d]

\* Nobody uploads when the system starts (Init).
LEMMA LockInit == Init => LockInv
  BY DocumentsOK DEF Init, LockInv

\* The lock is taken by TakeLock and given up on every way out of the two labels
\* it covers (Count, Accept, Die); Verify has no inverse.
LEMMA LockStep == TypeOK /\ LockInv /\ [Next]_vars => LockInv'
<1> SUFFICES ASSUME TypeOK, LockInv, [Next]_vars PROVE LockInv'
  OBVIOUS
<1> USE DEF documents, ledger, tasks, questions, UploadGoes, IndexGoes, RemoveGoes, AskGoes,
            TypeOK, LockInv
<1>1. ASSUME NEW d \in Document, Arrive(d) PROVE LockInv'
  <2>1. /\ upload[d] = "idle"
        /\ taster' = [taster EXCEPT ![d] = ~verified[Owner[d]]]
        /\ UNCHANGED <<verified, lock>>
        /\ upload' = [upload EXCEPT ![d] = upload'[d]]
        /\ upload'[d] \in {"refused", "read"}
    BY <1>1 DEF Arrive
  <2>2. taster'[d] = ~verified[Owner[d]] /\ \A e \in Document : e # d => taster'[e] = taster[e]
    BY <2>1, ZenonT(60)
  <2>3. \A e \in Document : e # d => upload'[e] = upload[e]
    BY <2>1
  <2>4. ASSUME NEW e \in Document, upload'[e] \in {"read", "lock", "count", "commit"},
               ~verified'[Owner[e]]
        PROVE  taster'[e]
    <3>1. CASE e = d
      BY <2>1, <2>2, <2>4, <3>1, Zenon
    <3>2. CASE e # d
      <4>1. taster[e]
        BY <2>1, <2>3, <2>4, <3>2
      <4> QED
        BY <2>2, <3>2, <4>1, Zenon
    <3> QED
      BY <3>1, <3>2
  <2> QED
    BY <2>1, <2>3, <2>4, DocumentsOK
<1>2. ASSUME NEW d \in Document, ReadFile(d) PROVE LockInv'
  BY <1>2, DocumentsOK DEF ReadFile
<1>3. ASSUME NEW d \in Document, TakeLock(d) PROVE LockInv'
  <2>1. /\ upload[d] = "lock" /\ lock[Owner[d]] = NoUpload
        /\ lock' = [lock EXCEPT ![Owner[d]] = d]
        /\ upload' = [upload EXCEPT ![d] = "count"]
        /\ UNCHANGED <<verified, taster>>
    BY <1>3 DEF TakeLock
  <2>2. Owner[d] \in User /\ d # NoUpload /\ NoUpload \notin Document
    BY DocumentsOK
  <2>3. \A e \in Document : upload'[e] \in {"count", "commit"} => lock'[Owner[e]] = e
    BY <2>1, <2>2, DocumentsOK
  <2>4. \A u \in User, e \in Document :
           lock'[u] = e => Owner[e] = u /\ upload'[e] \in {"count", "commit"}
    BY <2>1, <2>2
  <2> QED
    BY <2>1, <2>3, <2>4
<1>4. ASSUME NEW d \in Document, Count(d) PROVE LockInv'
  BY <1>4, DocumentsOK DEF Count, Unlocked
<1>5. ASSUME NEW d \in Document, Accept(d) PROVE LockInv'
  BY <1>5, DocumentsOK, SMTT(30) DEF Accept, Unlocked
<1>6. ASSUME NEW d \in Document, Refresh(d) PROVE LockInv'
  BY <1>6, DocumentsOK DEF Refresh
<1>7. ASSUME NEW d \in Document, WriteFile(d) PROVE LockInv'
  BY <1>7, DocumentsOK DEF WriteFile
<1>8. ASSUME NEW d \in Document, Load(d) PROVE LockInv'
  BY <1>8, DocumentsOK DEF Load
<1>9. ASSUME NEW d \in Document, Claim(d) PROVE LockInv'
  BY <1>9, DocumentsOK DEF Claim
<1>10. ASSUME NEW d \in Document, ExtractAndEmbed(d) PROVE LockInv'
  BY <1>10, DocumentsOK DEF ExtractAndEmbed
<1>11. ASSUME NEW d \in Document, StoreChunks(d) PROVE LockInv'
  BY <1>11, DocumentsOK DEF StoreChunks, IndexRaises
<1>12. ASSUME NEW d \in Document, Charge(d) PROVE LockInv'
  BY <1>12, DocumentsOK DEF Charge, IndexRaises
<1>13. ASSUME NEW d \in Document, InvalidateIndexed(d) PROVE LockInv'
  BY <1>13, DocumentsOK DEF InvalidateIndexed, IndexRaises, DropCorpusWide
<1>14. ASSUME NEW d \in Document, FailIndexing(d) PROVE LockInv'
  BY <1>14, DocumentsOK DEF FailIndexing
<1>15. ASSUME NEW d \in Document, Find(d) PROVE LockInv'
  BY <1>15, DocumentsOK DEF Find
<1>16. ASSUME NEW d \in Document, Remove(d) PROVE LockInv'
  BY <1>16, DocumentsOK DEF Remove
<1>17. ASSUME NEW d \in Document, Discard(d) PROVE LockInv'
  BY <1>17, DocumentsOK DEF Discard
<1>18. ASSUME NEW d \in Document, InvalidateRemoved(d) PROVE LockInv'
  BY <1>18, DocumentsOK DEF InvalidateRemoved, DropCorpusWide
<1>19. ASSUME NEW d \in Document, Die(d) PROVE LockInv'
  BY <1>19, DocumentsOK DEF Die, Unlocked
<1>20. ASSUME NEW q \in Question, Ask(q) PROVE LockInv'
  BY <1>20, DocumentsOK DEF Ask, AskEnds
<1>21. ASSUME NEW q \in Question, Lookup(q) PROVE LockInv'
  BY <1>21, DocumentsOK DEF Lookup, AskEnds
<1>22. ASSUME NEW q \in Question, SearchDense(q) PROVE LockInv'
  BY <1>22, DocumentsOK DEF SearchDense
<1>23. ASSUME NEW q \in Question, SearchSparse(q) PROVE LockInv'
  BY <1>23, DocumentsOK DEF SearchSparse
<1>24. ASSUME NEW q \in Question, StoreAnswer(q) PROVE LockInv'
  BY <1>24, DocumentsOK DEF StoreAnswer, AskEnds
<1>25. ASSUME NEW u \in User, Verify(u) PROVE LockInv'
  BY <1>25, DocumentsOK DEF Verify
<1>26. CASE UNCHANGED vars
  BY <1>26 DEF vars
<1> QED
  BY <1>1, <1>2, <1>3, <1>4, <1>5, <1>6, <1>7, <1>8, <1>9, <1>10, <1>11, <1>12,
     <1>13, <1>14, <1>15, <1>16, <1>17, <1>18, <1>19, <1>20, <1>21, <1>22, <1>23,
     <1>24, <1>25, <1>26 DEF Next, Upload, Index, Delete, Answer, AllDone

\* What the counts found is still true when the upload is accepted.
RoomKept ==
    \A d \in Document : upload[d] = "commit" /\ taster[d] =>
        /\ ~TooManyDocuments(Owner[d])
        /\ d \in Readable => ~TooManyPages(Owner[d], Pages[d])

AllowanceInv == LockInv /\ RoomKept /\ TasterUploadsHold

\* The pages of the readable documents of S, one by one (PagesIn).
PageSet(S) == UNION {{d} \X (1 .. Pages[d]) : d \in S \cap Readable}

\* A file of n pages has n pages.
LEMMA PagesOfOne ==
    ASSUME NEW n \in Nat
    PROVE  IsFiniteSet(1 .. n) /\ Cardinality(1 .. n) = n
<1>1. 1 \in Int /\ n \in Int
  OBVIOUS
<1>2. /\ IsFiniteSet(1 .. n)
      /\ Cardinality(1 .. n) = IF 1 > n THEN 0 ELSE n - 1 + 1
  BY <1>1, FS_Interval, Zenon
<1> QED
  BY <1>2

\* They are finitely many.
LEMMA PageSetFinite ==
    ASSUME NEW S, S \subseteq Document
    PROVE  IsFiniteSet(PageSet(S)) /\ PagesIn(S) \in Nat
<1> DEFINE T == S \cap Readable
<1> DEFINE pagesOf == [d \in T |-> {d} \X (1 .. Pages[d])]
<1> DEFINE sets == {{d} \X (1 .. Pages[d]) : d \in T}
<1>1. IsFiniteSet(T)
  BY DocumentsOK, FS_Subset
<1>2. pagesOf \in Surjection(T, sets)
  BY DEF Surjection
<1>3. IsFiniteSet(sets)
  <2> HIDE DEF pagesOf, sets, T
  <2> QED
    BY <1>1, <1>2, FS_Surjection
<1>4. ASSUME NEW X \in sets PROVE IsFiniteSet(X)
  <2>1. PICK d \in T : X = {d} \X (1 .. Pages[d])
    OBVIOUS
  <2>2. Pages[d] \in Nat
    BY DocumentsOK
  <2>3. IsFiniteSet({d}) /\ IsFiniteSet(1 .. Pages[d])
    BY <2>2, FS_Singleton, PagesOfOne
  <2> QED
    BY <2>1, <2>3, FS_Product
<1>5. IsFiniteSet(UNION sets)
  <2> HIDE DEF sets
  <2> QED
    BY <1>3, <1>4, FS_UNION
<1> QED
  BY <1>5, FS_CardinalityType DEF PageSet, PagesIn

\* A document more adds its pages at most, and none if it is not readable.
LEMMA OneMoreDocument ==
    ASSUME NEW S, S \subseteq Document, NEW d \in Document
    PROVE  /\ PagesIn(S \cup {d}) <= PagesIn(S) + Pages[d]
           /\ d \notin Readable => PagesIn(S \cup {d}) = PagesIn(S)
<1>1. IsFiniteSet(PageSet(S)) /\ PagesIn(S) \in Nat /\ Pages[d] \in Nat
  BY PageSetFinite, DocumentsOK
<1>2. ASSUME d \notin Readable PROVE PagesIn(S \cup {d}) = PagesIn(S)
  <2>1. (S \cup {d}) \cap Readable = S \cap Readable
    BY <1>2
  <2> QED
    BY <2>1 DEF PagesIn
<1>3. ASSUME d \in Readable PROVE PagesIn(S \cup {d}) <= PagesIn(S) + Pages[d]
  <2> DEFINE own == {d} \X (1 .. Pages[d])
  <2>1. PageSet(S \cup {d}) = PageSet(S) \cup own
    BY <1>3 DEF PageSet
  <2>2. IsFiniteSet(own) /\ Cardinality(own) = Pages[d]
    <3>1. /\ IsFiniteSet({d}) /\ Cardinality({d}) = 1
          /\ IsFiniteSet(1 .. Pages[d]) /\ Cardinality(1 .. Pages[d]) = Pages[d]
      BY <1>1, FS_Singleton, PagesOfOne
    <3>2. IsFiniteSet(own) /\ Cardinality(own) = 1 * Pages[d]
      BY <3>1, FS_Product
    <3> QED
      BY <1>1, <3>2
  <2> HIDE DEF own
  <2>3. /\ Cardinality(PageSet(S) \cup own)
              = Cardinality(PageSet(S)) + Cardinality(own) - Cardinality(PageSet(S) \cap own)
        /\ Cardinality(PageSet(S) \cap own) \in Nat
    BY <1>1, <2>2, FS_Union, FS_Intersection, FS_CardinalityType
  <2>4. PagesIn(S \cup {d}) = Cardinality(PageSet(S) \cup own) /\ PagesIn(S) = Cardinality(PageSet(S))
    BY <2>1 DEF PagesIn, PageSet
  <2> QED
    BY <1>1, <2>2, <2>3, <2>4
<1> QED
  BY <1>1, <1>2, <1>3

\* What the counts say depends on the accepted uploads alone (Uploads).
LEMMA SameCounts ==
    ASSUME accepted' = accepted
    PROVE  /\ \A u : TooManyDocuments(u)' <=> TooManyDocuments(u)
           /\ \A u, n : TooManyPages(u, n)' <=> TooManyPages(u, n)
  BY DEF TooManyDocuments, TooManyPages, Uploads, PagesIn

\* The allowance in terms of the accepted uploads.
LEMMA AllowanceAsUploads ==
    TasterUploadsHold <=>
        \A u \in User : ~verified[u] =>
            /\ DocumentLimit > 0 => Cardinality(Uploads(u)) <= DocumentLimit
            /\ PageLimit > 0 => PagesIn(Uploads(u)) <= PageLimit
  BY DEF TasterUploadsHold, Uploads

\* A step that accepts no upload, and leaves alone whoever has been counted.
Harmless ==
    /\ accepted' = accepted
    /\ \A u \in User : verified[u] => verified'[u]
    /\ \A d \in Document : upload'[d] = "commit" =>
          (upload[d] = "commit" \/ Count(d)) /\ taster'[d] = taster[d]

\* Every step but Accept is harmless.
LEMMA MostStepsHarmless ==
    ASSUME TypeOK, [Next]_vars, \A d \in Document : ~Accept(d)
    PROVE  Harmless
<1> USE DEF documents, ledger, tasks, questions, UploadGoes, IndexGoes, RemoveGoes, AskGoes,
            TypeOK, Harmless
<1>1. ASSUME NEW d \in Document, Arrive(d) PROVE Harmless
  BY <1>1, DocumentsOK DEF Arrive
<1>2. ASSUME NEW d \in Document, ReadFile(d) PROVE Harmless
  BY <1>2, DocumentsOK DEF ReadFile
<1>3. ASSUME NEW d \in Document, TakeLock(d) PROVE Harmless
  BY <1>3, DocumentsOK DEF TakeLock
<1>4. ASSUME NEW d \in Document, Count(d) PROVE Harmless
  BY <1>4, DocumentsOK DEF Count, Unlocked
<1>6. ASSUME NEW d \in Document, Refresh(d) PROVE Harmless
  BY <1>6, DocumentsOK DEF Refresh
<1>7. ASSUME NEW d \in Document, WriteFile(d) PROVE Harmless
  BY <1>7, DocumentsOK DEF WriteFile
<1>8. ASSUME NEW d \in Document, Load(d) PROVE Harmless
  BY <1>8, DocumentsOK DEF Load
<1>9. ASSUME NEW d \in Document, Claim(d) PROVE Harmless
  BY <1>9, DocumentsOK DEF Claim
<1>10. ASSUME NEW d \in Document, ExtractAndEmbed(d) PROVE Harmless
  BY <1>10, DocumentsOK DEF ExtractAndEmbed
<1>11. ASSUME NEW d \in Document, StoreChunks(d) PROVE Harmless
  BY <1>11, DocumentsOK DEF StoreChunks, IndexRaises
<1>12. ASSUME NEW d \in Document, Charge(d) PROVE Harmless
  BY <1>12, DocumentsOK DEF Charge, IndexRaises
<1>13. ASSUME NEW d \in Document, InvalidateIndexed(d) PROVE Harmless
  BY <1>13, DocumentsOK DEF InvalidateIndexed, IndexRaises, DropCorpusWide
<1>14. ASSUME NEW d \in Document, FailIndexing(d) PROVE Harmless
  BY <1>14, DocumentsOK DEF FailIndexing
<1>15. ASSUME NEW d \in Document, Find(d) PROVE Harmless
  BY <1>15, DocumentsOK DEF Find
<1>16. ASSUME NEW d \in Document, Remove(d) PROVE Harmless
  BY <1>16, DocumentsOK DEF Remove
<1>17. ASSUME NEW d \in Document, Discard(d) PROVE Harmless
  BY <1>17, DocumentsOK DEF Discard
<1>18. ASSUME NEW d \in Document, InvalidateRemoved(d) PROVE Harmless
  BY <1>18, DocumentsOK DEF InvalidateRemoved, DropCorpusWide
<1>19. ASSUME NEW d \in Document, Die(d) PROVE Harmless
  BY <1>19, DocumentsOK DEF Die, Unlocked
<1>20. ASSUME NEW q \in Question, Ask(q) PROVE Harmless
  BY <1>20, DocumentsOK DEF Ask, AskEnds
<1>21. ASSUME NEW q \in Question, Lookup(q) PROVE Harmless
  BY <1>21, DocumentsOK DEF Lookup, AskEnds
<1>22. ASSUME NEW q \in Question, SearchDense(q) PROVE Harmless
  BY <1>22, DocumentsOK DEF SearchDense
<1>23. ASSUME NEW q \in Question, SearchSparse(q) PROVE Harmless
  BY <1>23, DocumentsOK DEF SearchSparse
<1>24. ASSUME NEW q \in Question, StoreAnswer(q) PROVE Harmless
  BY <1>24, DocumentsOK DEF StoreAnswer, AskEnds
<1>25. ASSUME NEW u \in User, Verify(u) PROVE Harmless
  BY <1>25, DocumentsOK DEF Verify
<1>26. CASE UNCHANGED vars
  BY <1>26 DEF vars
<1> QED
  BY <1>1, <1>2, <1>3, <1>4, <1>6, <1>7, <1>8, <1>9, <1>10, <1>11, <1>12,
     <1>13, <1>14, <1>15, <1>16, <1>17, <1>18, <1>19, <1>20, <1>21, <1>22, <1>23,
     <1>24, <1>25, <1>26 DEF Next, Upload, Index, Delete, Answer, AllDone

\* A harmless step keeps the room and the allowance; Count is where the room is
\* found.
LEMMA HarmlessKeeps ==
    ASSUME TypeOK, AllowanceInv, Harmless
    PROVE  RoomKept' /\ TasterUploadsHold'
<1>1. accepted' = accepted
  BY DEF Harmless
<1>2. RoomKept'
  <2> SUFFICES ASSUME NEW d \in Document, upload'[d] = "commit", taster'[d]
               PROVE  /\ ~TooManyDocuments(Owner[d])
                      /\ d \in Readable => ~TooManyPages(Owner[d], Pages[d])
    BY <1>1, SameCounts DEF RoomKept
  <2>1. taster[d] /\ (upload[d] = "commit" \/ Count(d))
    BY DEF Harmless
  <2>2. CASE upload[d] = "commit"
    BY <2>1, <2>2 DEF AllowanceInv, RoomKept
  <2>3. CASE Count(d)
    BY <2>1, <2>3 DEF Count, UploadGoes, TypeOK
  <2> QED
    BY <2>1, <2>2, <2>3
<1>3. TasterUploadsHold'
  <2>1. \A u : Uploads(u)' = Uploads(u)
    BY <1>1 DEF Uploads
  <2>2. \A u \in User : ~verified'[u] => ~verified[u]
    BY DEF Harmless
  <2>3. \A u \in User : ~verified'[u] =>
            /\ DocumentLimit > 0 => Cardinality(Uploads(u)') <= DocumentLimit
            /\ PageLimit > 0 => PagesIn(Uploads(u)') <= PageLimit
    BY <2>1, <2>2, AllowanceAsUploads DEF AllowanceInv
  <2> QED
    BY <2>3 DEF TasterUploadsHold, Uploads
<1> QED
  BY <1>2, <1>3

\* An accepted upload takes the room that was counted for it: nobody else of the
\* account is past the lock (Accept).
LEMMA AcceptKeeps ==
    ASSUME TypeOK, LifeInv, AllowanceInv, NEW d \in Document, Accept(d)
    PROVE  RoomKept' /\ TasterUploadsHold'
<1> DEFINE me == Owner[d]
<1>1. /\ upload[d] = "commit"
      /\ UNCHANGED <<verified, taster>>
      /\ accepted' \in {accepted, accepted \cup {d}}
      /\ upload' = [upload EXCEPT ![d] = upload'[d]]
      /\ upload'[d] \in {"refresh", "failed"}
  BY DEF Accept, UploadGoes, TypeOK
<1>2. me \in User /\ Pages[d] \in Nat /\ DocumentLimit \in Nat /\ PageLimit \in Nat
  BY DocumentsOK
<1>3. \A u : u # me => Uploads(u)' = Uploads(u)
  BY <1>1 DEF Uploads, DocumentsOf
<1>4. Uploads(me)' \in {Uploads(me), Uploads(me) \cup {d}}
  BY <1>1 DEF Uploads, DocumentsOf
<1>5. RoomKept'
  <2> SUFFICES ASSUME NEW e \in Document, upload'[e] = "commit", taster'[e]
               PROVE  /\ ~TooManyDocuments(Owner[e])'
                      /\ e \in Readable => ~TooManyPages(Owner[e], Pages[e])'
    BY DEF RoomKept
  <2>1. e # d /\ upload[e] = "commit" /\ taster[e]
    BY <1>1 DEF TypeOK
  <2>2. Owner[e] # me
    BY <1>1, <2>1 DEF AllowanceInv, LockInv
  <2>3. Uploads(Owner[e])' = Uploads(Owner[e])
    BY <1>3, <2>2
  <2>4. /\ ~TooManyDocuments(Owner[e])
        /\ e \in Readable => ~TooManyPages(Owner[e], Pages[e])
    BY <2>1 DEF AllowanceInv, RoomKept
  <2> QED
    BY <2>3, <2>4 DEF TooManyDocuments, TooManyPages, PagesIn
<1>6. ASSUME NEW u \in User, ~verified'[u]
      PROVE  /\ DocumentLimit > 0 => Cardinality(Uploads(u)') <= DocumentLimit
             /\ PageLimit > 0 => PagesIn(Uploads(u)') <= PageLimit
  <2>1. /\ DocumentLimit > 0 => Cardinality(Uploads(u)) <= DocumentLimit
        /\ PageLimit > 0 => PagesIn(Uploads(u)) <= PageLimit
    BY <1>1, <1>6, AllowanceAsUploads DEF AllowanceInv
  <2>2. CASE Uploads(u)' = Uploads(u)
    BY <2>1, <2>2
  <2>3. CASE Uploads(u)' # Uploads(u)
    <3>1. u = me /\ Uploads(u)' = Uploads(u) \cup {d}
      BY <1>3, <1>4, <2>3
    <3>2. taster[d]
      BY <1>1, <1>6, <3>1 DEF AllowanceInv, LockInv
    <3>3. /\ ~TooManyDocuments(u)
          /\ d \in Readable => ~TooManyPages(u, Pages[d])
      BY <1>1, <3>1, <3>2 DEF AllowanceInv, RoomKept
    <3>4. Uploads(u) \subseteq Document
      BY DEF Uploads, DocumentsOf
    <3>5. IsFiniteSet(Uploads(u)) /\ PagesIn(Uploads(u)) \in Nat
      BY <3>4, DocumentsOK, FS_Subset, PageSetFinite
    <3>6. DocumentLimit > 0 => Cardinality(Uploads(u)') <= DocumentLimit
      <4>1. /\ Cardinality(Uploads(u)) \in Nat
            /\ Cardinality(Uploads(u) \cup {d}) \in {Cardinality(Uploads(u)), Cardinality(Uploads(u)) + 1}
        BY <3>5, FS_AddElement, FS_CardinalityType
      <4>2. DocumentLimit > 0 => Cardinality(Uploads(u)) < DocumentLimit
        BY <1>2, <3>3, <4>1 DEF TooManyDocuments
      <4> QED
        BY <1>2, <3>1, <4>1, <4>2
    <3>7. PageLimit > 0 => PagesIn(Uploads(u)') <= PageLimit
      <4>1. /\ PagesIn(Uploads(u) \cup {d}) <= PagesIn(Uploads(u)) + Pages[d]
            /\ d \notin Readable => PagesIn(Uploads(u) \cup {d}) = PagesIn(Uploads(u))
        BY <3>4, OneMoreDocument
      <4>2. PagesIn(Uploads(u) \cup {d}) \in Nat
        BY <3>4, PageSetFinite
      <4>3. d \in Readable /\ PageLimit > 0 => PagesIn(Uploads(u)) + Pages[d] <= PageLimit
        BY <1>2, <3>3, <3>5 DEF TooManyPages
      <4> QED
        BY <1>2, <2>1, <3>1, <3>5, <4>1, <4>2, <4>3
    <3> QED
      BY <3>6, <3>7
  <2> QED
    BY <2>2, <2>3
<1>7. TasterUploadsHold'
  BY <1>6 DEF TasterUploadsHold, Uploads
<1> QED
  BY <1>5, <1>7

\* At the start nothing was accepted (Init).
LEMMA AllowanceInit == Init => AllowanceInv
<1> SUFFICES ASSUME Init PROVE AllowanceInv
  OBVIOUS
<1>1. \A u : Uploads(u) = {}
  BY DEF Init, Uploads
<1>2. Cardinality({}) = 0 /\ PagesIn({}) = 0
  <2>1. UNION {{d} \X (1 .. Pages[d]) : d \in {} \cap Readable} = {}
    OBVIOUS
  <2> QED
    BY <2>1, FS_EmptySet DEF PagesIn
<1>3. DocumentLimit \in Nat /\ PageLimit \in Nat
  BY DocumentsOK
<1>4. TasterUploadsHold
  BY <1>1, <1>2, <1>3, AllowanceAsUploads
<1>5. RoomKept
  BY DEF Init, RoomKept
<1> QED
  BY <1>4, <1>5, LockInit DEF AllowanceInv

\* Every step keeps the allowances.
LEMMA AllowanceStep == TypeOK /\ LifeInv /\ AllowanceInv /\ [Next]_vars => AllowanceInv'
<1> SUFFICES ASSUME TypeOK, LifeInv, AllowanceInv, [Next]_vars PROVE AllowanceInv'
  OBVIOUS
<1>1. LockInv'
  BY LockStep DEF AllowanceInv
<1>2. RoomKept' /\ TasterUploadsHold'
  <2>1. CASE \E d \in Document : Accept(d)
    BY <2>1, AcceptKeeps
  <2>2. CASE \A d \in Document : ~Accept(d)
    BY <2>2, MostStepsHarmless, HarmlessKeeps
  <2> QED
    BY <2>1, <2>2
<1> QED
  BY <1>1, <1>2 DEF AllowanceInv

\* No account that has never verified gets past its allowance of documents or
\* pages, for any number of concurrent uploads (unverified_upload_exceeded and
\* unverified_pages_exceeded under acquire_quota_lock).
THEOREM TasterAllowance == Spec => []TasterUploadsHold
<1> DEFINE Inv == TypeOK /\ LifeInv /\ AllowanceInv
<1>1. Init => Inv
  BY TypeInit, LifeInit, AllowanceInit
<1>2. Inv /\ [Next]_vars => Inv'
  BY TypeStep, LifeStep, AllowanceStep
<1>3. Inv => TasterUploadsHold
  BY DEF AllowanceInv
<1> QED
  BY <1>1, <1>2, <1>3, PTL DEF Spec

-----------------------------------------------------------------------------
(***************************************************************************)
(* The answers cached over an account's whole corpus.                      *)
(***************************************************************************)

\* The documents of u that have chunks.
Corpus(u) == chunks \cap DocumentsOf(u)

\* The corpus changed by d, and whoever changed it has not dropped the answers
\* yet, or died or failed before it could.
Undropped(d) ==
    \/ d \in chunks /\ index[d] \in {"charge", "invalidate", "fail", "dead"}
    \/ remove[d] \in {"discard", "invalidate", "dead"}
    \/ row[d] = "failed" /\ d \in chunks

Outstanding(u) == \E d \in DocumentsOf(u) : Undropped(d)

\* A cached answer over the corpus, and the chunks a question over the corpus
\* holds in hand, are those of the present corpus, unless a drop is outstanding
\* or has overtaken them.
CacheInv ==
    /\ \A a \in cached : a.scope = All /\ a.seen # Corpus(a.user) =>
          Outstanding(a.user) \/ a.overtaken
    /\ \A q \in Question : asked[q] \in {"sparse", "store"} /\ probe[q].scope = All =>
          \/ probe[q].seen = Corpus(Asker[q])
          \/ Outstanding(Asker[q])
          \/ probe[q].overtaken

\* What a task does to its own document d: another document's chunks and
\* outstanding drop stay; d's change is outstanding, or nothing changed, or the
\* answers of its owner are dropped.
Moves(d) ==
    /\ asked' = asked
    /\ \A e \in Document : e # d =>
          (e \in chunks' <=> e \in chunks) /\ (Undropped(e) => Undropped(e)')
    /\ \/ /\ cached' \subseteq cached /\ probe' = probe
          /\ \/ Undropped(d)'
             \/ (d \in chunks' <=> d \in chunks) /\ ~Undropped(d)
       \/ DropCorpusWide(Owner[d]) /\ (d \in chunks' <=> d \in chunks)

\* Every step of a document's three tasks is such a move.
LEMMA TasksMove ==
    ASSUME TypeOK, LifeInv, NEW d \in Document,
           Arrive(d) \/ Upload(d) \/ Index(d) \/ Find(d) \/ Delete(d) \/ Die(d)
    PROVE  Moves(d)
<1> USE DEF documents, ledger, tasks, questions, UploadGoes, IndexGoes, RemoveGoes, AskGoes,
            TypeOK, LifeInv, Live, Moves, Undropped
<1>1. CASE Arrive(d)
  BY <1>1 DEF Arrive
<1>2. CASE ReadFile(d)
  BY <1>2 DEF ReadFile
<1>3. CASE TakeLock(d)
  BY <1>3 DEF TakeLock
<1>4. CASE Count(d)
  BY <1>4 DEF Count
<1>5. CASE Accept(d)
  BY <1>5 DEF Accept
<1>6. CASE Refresh(d)
  BY <1>6 DEF Refresh
<1>7. CASE WriteFile(d)
  BY <1>7 DEF WriteFile
<1>8. CASE Load(d)
  BY <1>8 DEF Load
<1>9. CASE Claim(d)
  BY <1>9 DEF Claim
<1>10. CASE ExtractAndEmbed(d)
  BY <1>10 DEF ExtractAndEmbed
<1>11. CASE StoreChunks(d)
  BY <1>11 DEF StoreChunks, IndexRaises
<1>12. CASE Charge(d)
  BY <1>12 DEF Charge, IndexRaises
<1>13. CASE InvalidateIndexed(d)
  BY <1>13 DEF InvalidateIndexed, IndexRaises
<1>14. CASE FailIndexing(d)
  BY <1>14 DEF FailIndexing
<1>15. CASE Find(d)
  BY <1>15 DEF Find
<1>16. CASE Remove(d)
  BY <1>16 DEF Remove
<1>17. CASE Discard(d)
  BY <1>17 DEF Discard
<1>18. CASE InvalidateRemoved(d)
  BY <1>18 DEF InvalidateRemoved
<1>19. CASE Die(d)
  BY <1>19 DEF Die
<1> QED
  BY <1>1, <1>2, <1>3, <1>4, <1>5, <1>6, <1>7, <1>8, <1>9, <1>10, <1>11,
     <1>12, <1>13, <1>14, <1>15, <1>16, <1>17, <1>18, <1>19 DEF Upload, Index, Delete

\* A task's step keeps the answers fresh, or its change is outstanding.
LEMMA MovesKeep ==
    ASSUME TypeOK, CacheInv, NEW d \in Document, Moves(d)
    PROVE  CacheInv'
<1> DEFINE me == Owner[d]
<1>1. asked' = asked
  BY DEF Moves
<1>2. \A u : u # me => Corpus(u)' = Corpus(u) /\ (Outstanding(u) => Outstanding(u)')
  <2> SUFFICES ASSUME NEW u, u # me
               PROVE  Corpus(u)' = Corpus(u) /\ (Outstanding(u) => Outstanding(u)')
    OBVIOUS
  <2>1. \A e \in DocumentsOf(u) :
           (e \in chunks' <=> e \in chunks) /\ (Undropped(e) => Undropped(e)')
    BY DEF Moves, DocumentsOf
  <2>2. Corpus(u)' = Corpus(u)
    BY <2>1 DEF Corpus
  <2>3. Outstanding(u) => Outstanding(u)'
    BY <2>1 DEF Outstanding
  <2> QED
    BY <2>2, <2>3
<1>3. CASE /\ cached' \subseteq cached /\ probe' = probe
           /\ Undropped(d)' \/ ((d \in chunks' <=> d \in chunks) /\ ~Undropped(d))
  <2>1. Outstanding(me)' \/ (Corpus(me)' = Corpus(me) /\ (Outstanding(me) => Outstanding(me)'))
    <3>1. CASE Undropped(d)'
      <4>1. d \in DocumentsOf(me)
        BY DEF DocumentsOf
      <4> QED
        BY <3>1, <4>1 DEF Outstanding
    <3>2. CASE (d \in chunks' <=> d \in chunks) /\ ~Undropped(d)
      <4>1. \A e \in DocumentsOf(me) :
               (e \in chunks' <=> e \in chunks) /\ (Undropped(e) => Undropped(e)')
        BY <3>2 DEF Moves, DocumentsOf
      <4>2. Corpus(me)' = Corpus(me)
        BY <4>1 DEF Corpus
      <4>3. Outstanding(me) => Outstanding(me)'
        BY <4>1 DEF Outstanding
      <4> QED
        BY <4>2, <4>3
    <3> QED
      BY <1>3, <3>1, <3>2
  <2>2. \A u : Outstanding(u)' \/ (Corpus(u)' = Corpus(u) /\ (Outstanding(u) => Outstanding(u)'))
    BY <1>2, <2>1
  <2> QED
    BY <1>1, <1>3, <2>2 DEF CacheInv
<1>4. CASE DropCorpusWide(me) /\ (d \in chunks' <=> d \in chunks)
  <2>1. \A a \in cached' : a \in cached /\ (a.scope = All => a.user # me)
    BY <1>4 DEF DropCorpusWide
  <2>2. \A a \in cached' : a.scope = All /\ a.seen # Corpus(a.user)' =>
           Outstanding(a.user)' \/ a.overtaken
    BY <1>2, <2>1 DEF CacheInv
  <2>3. ASSUME NEW q \in Question, asked'[q] \in {"sparse", "store"}, probe'[q].scope = All
        PROVE  \/ probe'[q].seen = Corpus(Asker[q])'
               \/ Outstanding(Asker[q])'
               \/ probe'[q].overtaken
    <3>1. probe[q] \in Probe
      BY DEF TypeOK, Probe
    <3>2. CASE Asker[q] = me
      <4>1. probe'[q] = [probe[q] EXCEPT !.overtaken = TRUE]
        BY <1>1, <1>4, <2>3, <3>2 DEF DropCorpusWide
      <4>2. probe'[q].overtaken
        BY <3>1, <4>1 DEF Probe
      <4> QED
        BY <4>2
    <3>3. CASE Asker[q] # me
      <4>1. probe'[q] = probe[q]
        BY <1>4, <3>3 DEF DropCorpusWide
      <4> QED
        BY <1>1, <1>2, <2>3, <3>3, <4>1 DEF CacheInv
    <3> QED
      BY <3>2, <3>3
  <2> QED
    BY <2>2, <2>3 DEF CacheInv
<1> QED
  BY <1>3, <1>4 DEF Moves

\* A question looks at the corpus as it is, and stores what it holds
\* (SearchDense, SearchSparse, StoreAnswer).
LEMMA QuestionKeeps ==
    ASSUME TypeOK, CacheInv, NEW q \in Question, Ask(q) \/ Answer(q)
    PROVE  CacheInv'
<1>1. UNCHANGED <<row, chunks, index, remove>>
  BY DEF Ask, Answer, Lookup, SearchDense, SearchSparse, StoreAnswer, documents, tasks
<1>2. \A u : Corpus(u)' = Corpus(u) /\ (Outstanding(u)' <=> Outstanding(u))
  BY <1>1 DEF Corpus, Outstanding, Undropped
<1>3. \A p \in Question : p # q => asked'[p] = asked[p] /\ probe'[p] = probe[p]
  BY DEF Ask, Answer, Lookup, SearchDense, SearchSparse, StoreAnswer, AskGoes, AskEnds, TypeOK
<1>4. probe[q] \in Probe /\ probe \in [Question -> Probe]
  BY DEF TypeOK, Probe
<1> DEFINE Fresh(p) == \/ probe[p].seen = Corpus(Asker[p])
                       \/ Outstanding(Asker[p])
                       \/ probe[p].overtaken
<1>5. asked'[q] \in {"sparse", "store"} /\ probe'[q].scope = All => Fresh(q)'
  <2>1. CASE Ask(q) \/ Lookup(q) \/ StoreAnswer(q)
    BY <2>1 DEF Ask, Lookup, StoreAnswer, AskGoes, AskEnds, TypeOK
  <2>2. CASE SearchDense(q)
    <3>1. probe' = [probe EXCEPT ![q] = [[probe[q] EXCEPT !.seen = Visible(q)] EXCEPT !.overtaken = FALSE]]
      BY <2>2, Zenon DEF SearchDense
    <3>2. probe'[q] = [[probe[q] EXCEPT !.seen = Visible(q)] EXCEPT !.overtaken = FALSE]
      BY <1>4, <3>1, Zenon
    <3>3. probe'[q].seen = Visible(q) /\ probe'[q].scope = probe[q].scope
      BY <1>4, <3>2 DEF Probe
    <3>4. probe[q].scope = All => Visible(q) = Corpus(Asker[q])
      BY DEF Visible, Corpus
    <3> QED
      BY <1>2, <3>3, <3>4
  <2>3. CASE SearchSparse(q)
    <3>1. probe' = [probe EXCEPT ![q] = [probe[q] EXCEPT !.seen = probe[q].seen \cup Visible(q)]]
      BY <2>3, Zenon DEF SearchSparse
    <3>2. probe'[q] = [probe[q] EXCEPT !.seen = probe[q].seen \cup Visible(q)]
      BY <1>4, <3>1, Zenon
    <3>3. /\ probe'[q].seen = probe[q].seen \cup Visible(q)
          /\ probe'[q].scope = probe[q].scope
          /\ probe'[q].overtaken = probe[q].overtaken
      BY <1>4, <3>2 DEF Probe
    <3>4. probe[q].scope = All => Visible(q) = Corpus(Asker[q]) /\ Fresh(q)
      BY <2>3 DEF Visible, Corpus, SearchSparse, CacheInv
    <3> QED
      BY <1>2, <3>3, <3>4
  <2> QED
    BY <2>1, <2>2, <2>3 DEF Answer
<1>6. ASSUME NEW a \in cached', a.scope = All, a.seen # Corpus(a.user)
      PROVE  Outstanding(a.user) \/ a.overtaken
  <2>1. CASE a \in cached
    BY <1>6, <2>1 DEF CacheInv
  <2>2. CASE a \notin cached
    <3>1. /\ asked[q] = "store"
          /\ a = [user |-> Asker[q], scope |-> probe[q].scope, seen |-> probe[q].seen,
                  overtaken |-> probe[q].overtaken]
      BY <1>6, <2>2 DEF Ask, Answer, Lookup, SearchDense, SearchSparse, StoreAnswer
    <3>2. a.user = Asker[q] /\ a.scope = probe[q].scope /\ a.seen = probe[q].seen
          /\ a.overtaken = probe[q].overtaken
      BY <3>1
    <3>3. probe[q].scope = All => Fresh(q)
      BY <3>1 DEF CacheInv
    <3> QED
      BY <1>6, <3>2, <3>3
  <2> QED
    BY <2>1, <2>2
<1>7. \A p \in Question : asked'[p] \in {"sparse", "store"} /\ probe'[p].scope = All => Fresh(p)'
  <2> SUFFICES ASSUME NEW p \in Question, p # q,
                      asked'[p] \in {"sparse", "store"}, probe'[p].scope = All
               PROVE  Fresh(p)'
    BY <1>5
  <2>1. Fresh(p)
    BY <1>3 DEF CacheInv
  <2> QED
    BY <1>2, <1>3, <2>1
<1>8. \A a \in cached' : a.scope = All /\ a.seen # Corpus(a.user)' => Outstanding(a.user)' \/ a.overtaken
  BY <1>2, <1>6
<1> QED
  BY <1>7, <1>8 DEF CacheInv

\* Before the first upload every answer was computed over nothing (Init).
LEMMA CacheInit == Init => CacheInv
  BY DEF Init, CacheInv, Corpus, EarlyAnswer

\* Every step keeps the cached answers fresh.
LEMMA CacheStep == TypeOK /\ LifeInv /\ CacheInv /\ [Next]_vars => CacheInv'
<1> SUFFICES ASSUME TypeOK, LifeInv, CacheInv, [Next]_vars PROVE CacheInv'
  OBVIOUS
<1>1. CASE \E d \in Document : Moves(d)
  BY <1>1, MovesKeep
<1>2. CASE \E q \in Question : Ask(q) \/ Answer(q)
  BY <1>2, QuestionKeeps
<1>3. ASSUME UNCHANGED <<row, chunks, index, remove, cached, asked, probe>> PROVE CacheInv'
  <2>1. \A u : Corpus(u)' = Corpus(u) /\ (Outstanding(u)' <=> Outstanding(u))
    BY <1>3 DEF Corpus, Outstanding, Undropped
  <2> QED
    BY <1>3, <2>1 DEF CacheInv
<1>4. CASE \E u \in User : Verify(u)
  BY <1>3, <1>4 DEF Verify, documents, tasks, questions
<1>5. CASE UNCHANGED vars
  BY <1>3, <1>5 DEF vars, documents, tasks, questions
<1> QED
  BY <1>1, <1>2, <1>4, <1>5, TasksMove DEF Next, AllDone

\* An answer over all of an account's documents that was computed over another
\* corpus than the present one is only found while a drop is outstanding, or
\* because it was stored after the drop that overtook it (cache.store,
\* invalidate_corpus_wide).
THEOREM StaleAnswersRaced == Spec => []StaleOnlyByRace
<1> DEFINE Inv == TypeOK /\ LifeInv /\ CacheInv
<1>1. Init => Inv
  BY TypeInit, LifeInit, CacheInit
<1>2. Inv /\ [Next]_vars => Inv'
  BY TypeStep, LifeStep, CacheStep
<1>3. Inv => StaleOnlyByRace
  <2>1. \A u : Outstanding(u) => DropOutstanding(u)
    BY DEF Outstanding, Undropped, DropOutstanding
  <2> QED
    BY <2>1 DEF CacheInv, StaleOnlyByRace, Corpus
<1> QED
  BY <1>1, <1>2, <1>3, PTL DEF Spec

=============================================================================
