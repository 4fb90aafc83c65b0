---------------------------- MODULE AccountsProofs ----------------------------
(***************************************************************************)
(* Theorems about Accounts, for every set of requests and addresses,       *)
(* whatever mix of endpoints they call and whatever fails.                 *)
(***************************************************************************)
EXTENDS Accounts, FiniteSetTheorems, TLAPS

\* The account a request acts for exists, and is the same from then on: that of
\* its address, or of the session it presented.
ActsInv ==
    \A r \in Request :
        /\ pc[r] = "session" => kind[r] \in {"signup", "login"} /\ EmailOf[r] \in users
        /\ session[r] # "none" => kind[r] \in {"signup", "login"} /\ EmailOf[r] \in users
        /\ pc[r] = "known" => kind[r] = "resend"
        /\ pc[r] \in {"known", "issue", "delete", "insert"} =>
              kind[r] \in {"signup", "resend"} /\ Owner(r) \in users
        /\ pc[r] \in {"claim", "claimed", "missed", "already", "invalid"} => kind[r] = "verify"
        /\ token[r] # "none" =>
              kind[r] \in {"signup", "resend"} /\ pc[r] \in {"created", "sent"} /\ Owner(r) \in users
        /\ mail[r] # "none" => token[r] # "none"
        /\ pc[r] = "new" => shown[r] = Nobody
        /\ fresh[r] => shown[r] # Nobody
        /\ kind[r] = "verify" /\ shown[r] # Nobody => token[shown[r]] # "none"

\* Who holds a row lock, and on what: the tokens an issue is about to delete, or
\* the token a click has claimed, which is still unconsumed.
HolderInv ==
    /\ \A r, t \in Request : holder[t] = r =>
          \/ pc[r] = "claimed" /\ shown[r] = t
          \/ pc[r] = "insert" /\ t \in doomed[r]
    /\ \A r \in Request :
          /\ pc[r] = "claimed" =>
                /\ shown[r] \in Request /\ holder[shown[r]] = r
                /\ token[shown[r]] \in {"live", "expired"}
          /\ pc[r] = "insert" => \A t \in doomed[r] :
                holder[t] = r /\ token[t] \in {"live", "expired"}

\* Every variable starts with its type (Init).
LEMMA TypeInit == Init => TypeOK
  BY AccountsOK DEF Init, TypeOK, SessionStates, TokenStates, MailStates, Working

\* No action takes a variable out of its type, and only an account that exists is
\* verified (Consume).
LEMMA TypeStep == TypeOK /\ ActsInv /\ HolderInv /\ [Next]_vars => TypeOK'
<1> SUFFICES ASSUME TypeOK, ActsInv, HolderInv, [Next]_vars PROVE TypeOK'
  OBVIOUS
<1> USE DEF rows, Goes, TypeOK, SessionStates, TokenStates, MailStates, Working, Answers
<1>1. ASSUME NEW r \in Request, CreateUser(r) PROVE TypeOK'
  BY <1>1, AccountsOK DEF CreateUser
<1>2. ASSUME NEW r \in Request, Login(r) PROVE TypeOK'
  BY <1>2, AccountsOK DEF Login
<1>3. ASSUME NEW r \in Request, Authenticate(r) PROVE TypeOK'
  BY <1>3, AccountsOK DEF Authenticate, Cookies
<1>4. ASSUME NEW r \in Request, Logout(r) PROVE TypeOK'
  BY <1>4, AccountsOK DEF Logout, Cookies
<1>5. ASSUME NEW r \in Request, Present(r) PROVE TypeOK'
  BY <1>5, AccountsOK DEF Present
<1>6. ASSUME NEW r \in Request, Refuse(r) PROVE TypeOK'
  BY <1>6, AccountsOK DEF Refuse
<1>7. ASSUME NEW r \in Request, CreateSession(r) PROVE TypeOK'
  BY <1>7, AccountsOK DEF CreateSession
<1>8. ASSUME NEW r \in Request, CheckUnverified(r) PROVE TypeOK'
  BY <1>8, AccountsOK DEF CheckUnverified
<1>9. ASSUME NEW r \in Request, FindUnused(r) PROVE TypeOK'
  <2>1. Meets(r) \subseteq SUBSET Request /\ Unconsumed(Owner(r)) \subseteq Request
    BY DEF Meets, Unconsumed, TokensOf
  <2> QED
    BY <1>9, <2>1, AccountsOK DEF FindUnused
<1>10. ASSUME NEW r \in Request, DeleteUnused(r) PROVE TypeOK'
  BY <1>10, AccountsOK DEF DeleteUnused, Blocked, Unconsumed, TokensOf
<1>11. ASSUME NEW r \in Request, InsertToken(r) PROVE TypeOK'
  BY <1>11, AccountsOK DEF InsertToken, Released
<1>12. ASSUME NEW r \in Request, Claim(r) PROVE TypeOK'
  BY <1>12, AccountsOK DEF Claim, Claimable, Blocked
<1>13. ASSUME NEW r \in Request, Consume(r) PROVE TypeOK'
  BY <1>13, AccountsOK DEF Consume, Released, ActsInv, HolderInv
<1>14. ASSUME NEW r \in Request, Tell(r) PROVE TypeOK'
  BY <1>14, AccountsOK DEF Tell
<1>15. ASSUME NEW r \in Request, Fail(r) PROVE TypeOK'
  BY <1>15, AccountsOK DEF Fail, Released, Working
<1>16. ASSUME NEW x \in Request, Deliver(x) PROVE TypeOK'
  BY <1>16, AccountsOK DEF Deliver
<1>17. ASSUME NEW x \in Request, ExpireSession(x) PROVE TypeOK'
  BY <1>17, AccountsOK DEF ExpireSession
<1>18. ASSUME NEW x \in Request, ExpireToken(x) PROVE TypeOK'
  BY <1>18, AccountsOK DEF ExpireToken
<1>19. CASE UNCHANGED vars
  BY <1>19 DEF vars
<1> QED
  BY <1>1, <1>2, <1>3, <1>4, <1>5, <1>6, <1>7, <1>8, <1>9, <1>10, <1>11, <1>12,
     <1>13, <1>14, <1>15, <1>16, <1>17, <1>18, <1>19 DEF Next, Works, AllDone

\* Nobody has begun when the system starts (Init).
LEMMA ActsInit == Init => ActsInv
  BY AccountsOK DEF Init, ActsInv

\* Accounts, sessions and tokens are only ever added to, and a request presents one
\* session or one token (Authenticate, Present).
LEMMA ActsStep == TypeOK /\ ActsInv /\ HolderInv /\ [Next]_vars => ActsInv'
<1> SUFFICES ASSUME TypeOK, ActsInv, HolderInv, [Next]_vars PROVE ActsInv'
  OBVIOUS
<1> USE DEF rows, Goes, TypeOK, ActsInv, Owner, Answers
<1>1. ASSUME NEW r \in Request, CreateUser(r) PROVE ActsInv'
  BY <1>1, AccountsOK DEF CreateUser
<1>2. ASSUME NEW r \in Request, Login(r) PROVE ActsInv'
  BY <1>2, AccountsOK DEF Login
<1>3. ASSUME NEW r \in Request, Authenticate(r) PROVE ActsInv'
  BY <1>3, AccountsOK DEF Authenticate, Cookies
<1>4. ASSUME NEW r \in Request, Logout(r) PROVE ActsInv'
  BY <1>4, AccountsOK DEF Logout, Cookies
<1>5. ASSUME NEW r \in Request, Present(r) PROVE ActsInv'
  BY <1>5, AccountsOK DEF Present
<1>6. ASSUME NEW r \in Request, Refuse(r) PROVE ActsInv'
  BY <1>6, AccountsOK DEF Refuse
<1>7. ASSUME NEW r \in Request, CreateSession(r) PROVE ActsInv'
  BY <1>7, AccountsOK DEF CreateSession
<1>8. ASSUME NEW r \in Request, CheckUnverified(r) PROVE ActsInv'
  BY <1>8, AccountsOK DEF CheckUnverified
<1>9. ASSUME NEW r \in Request, FindUnused(r) PROVE ActsInv'
  BY <1>9, AccountsOK DEF FindUnused, Unconsumed, TokensOf
<1>10. ASSUME NEW r \in Request, DeleteUnused(r) PROVE ActsInv'
  BY <1>10, AccountsOK DEF DeleteUnused, Blocked, Unconsumed, TokensOf
<1>11. ASSUME NEW r \in Request, InsertToken(r) PROVE ActsInv'
  <2>1. \A t \in doomed[r] : token[t] # "none"
    BY <1>11 DEF InsertToken, HolderInv
  <2>2. \A t \in Request : /\ token[t] # "none" => token'[t] # "none"
                           /\ t # r /\ token'[t] # "none" => token[t] # "none"
    BY <1>11, <2>1 DEF InsertToken
  <2>3. /\ pc[r] = "insert" /\ pc' = [pc EXCEPT ![r] = pc'[r]]
        /\ pc'[r] \in {"created", "sent"}
        /\ mail' = [mail EXCEPT ![r] = "queued"] /\ token'[r] # "none"
        /\ UNCHANGED <<kind, users, session, shown, fresh>>
    BY <1>11 DEF InsertToken
  <2>4. \A t \in Request : Owner(t)' = Owner(t)
    BY <2>3
  <2> QED
    BY <2>2, <2>3, <2>4, AccountsOK
<1>12. ASSUME NEW r \in Request, Claim(r) PROVE ActsInv'
  BY <1>12, AccountsOK DEF Claim, Claimable, Blocked
<1>13. ASSUME NEW r \in Request, Consume(r) PROVE ActsInv'
  BY <1>13, AccountsOK DEF Consume, Released
<1>14. ASSUME NEW r \in Request, Tell(r) PROVE ActsInv'
  BY <1>14, AccountsOK DEF Tell
<1>15. ASSUME NEW r \in Request, Fail(r) PROVE ActsInv'
  BY <1>15, AccountsOK DEF Fail, Released, Working
<1>16. ASSUME NEW x \in Request, Deliver(x) PROVE ActsInv'
  BY <1>16, AccountsOK DEF Deliver
<1>17. ASSUME NEW x \in Request, ExpireSession(x) PROVE ActsInv'
  BY <1>17, AccountsOK DEF ExpireSession
<1>18. ASSUME NEW x \in Request, ExpireToken(x) PROVE ActsInv'
  BY <1>18, AccountsOK DEF ExpireToken
<1>19. CASE UNCHANGED vars
  BY <1>19 DEF vars
<1> QED
  BY <1>1, <1>2, <1>3, <1>4, <1>5, <1>6, <1>7, <1>8, <1>9, <1>10, <1>11, <1>12,
     <1>13, <1>14, <1>15, <1>16, <1>17, <1>18, <1>19 DEF Next, Works, AllDone

\* Nothing is locked when the system starts (Init).
LEMMA HolderInit == Init => HolderInv
  BY AccountsOK DEF Init, HolderInv

\* A statement waits for the rows another transaction has changed, so no two hold
\* the same one (DeleteUnused, Claim), and a commit gives all of them up.
LEMMA HolderStep == TypeOK /\ ActsInv /\ HolderInv /\ [Next]_vars => HolderInv'
<1> SUFFICES ASSUME TypeOK, ActsInv, HolderInv, [Next]_vars PROVE HolderInv'
  OBVIOUS
<1> USE DEF rows, Goes, TypeOK, ActsInv, HolderInv, Answers
<1>1. ASSUME NEW r \in Request, CreateUser(r) PROVE HolderInv'
  BY <1>1, AccountsOK DEF CreateUser
<1>2. ASSUME NEW r \in Request, Login(r) PROVE HolderInv'
  BY <1>2, AccountsOK DEF Login
<1>3. ASSUME NEW r \in Request, Authenticate(r) PROVE HolderInv'
  BY <1>3, AccountsOK DEF Authenticate, Cookies
<1>4. ASSUME NEW r \in Request, Logout(r) PROVE HolderInv'
  BY <1>4, AccountsOK DEF Logout, Cookies
<1>5. ASSUME NEW r \in Request, Present(r) PROVE HolderInv'
  BY <1>5, AccountsOK DEF Present
<1>6. ASSUME NEW r \in Request, Refuse(r) PROVE HolderInv'
  BY <1>6, AccountsOK DEF Refuse
<1>7. ASSUME NEW r \in Request, CreateSession(r) PROVE HolderInv'
  BY <1>7, AccountsOK DEF CreateSession
<1>8. ASSUME NEW r \in Request, CheckUnverified(r) PROVE HolderInv'
  BY <1>8, AccountsOK DEF CheckUnverified
<1>9. ASSUME NEW r \in Request, FindUnused(r) PROVE HolderInv'
  BY <1>9, AccountsOK DEF FindUnused, Unconsumed, TokensOf
<1>10. ASSUME NEW r \in Request, DeleteUnused(r) PROVE HolderInv'
  BY <1>10, AccountsOK DEF DeleteUnused, Blocked, Unconsumed, TokensOf
<1>11. ASSUME NEW r \in Request, InsertToken(r) PROVE HolderInv'
  BY <1>11, AccountsOK DEF InsertToken, Released
<1>12. ASSUME NEW r \in Request, Claim(r) PROVE HolderInv'
  BY <1>12, AccountsOK DEF Claim, Claimable, Blocked
<1>13. ASSUME NEW r \in Request, Consume(r) PROVE HolderInv'
  BY <1>13, AccountsOK DEF Consume, Released
<1>14. ASSUME NEW r \in Request, Tell(r) PROVE HolderInv'
  BY <1>14, AccountsOK DEF Tell
<1>15. ASSUME NEW r \in Request, Fail(r) PROVE HolderInv'
  BY <1>15, AccountsOK DEF Fail, Released, Working
<1>16. ASSUME NEW x \in Request, Deliver(x) PROVE HolderInv'
  BY <1>16, AccountsOK DEF Deliver
<1>17. ASSUME NEW x \in Request, ExpireSession(x) PROVE HolderInv'
  BY <1>17, AccountsOK DEF ExpireSession
<1>18. ASSUME NEW x \in Request, ExpireToken(x) PROVE HolderInv'
  BY <1>18, AccountsOK DEF ExpireToken
<1>19. CASE UNCHANGED vars
  BY <1>19 DEF vars
<1> QED
  BY <1>1, <1>2, <1>3, <1>4, <1>5, <1>6, <1>7, <1>8, <1>9, <1>10, <1>11, <1>12,
     <1>13, <1>14, <1>15, <1>16, <1>17, <1>18, <1>19 DEF Next, Works, AllDone

\* Types, with what they rest on: accounts that exist and locks that are held.
Base == TypeOK /\ ActsInv /\ HolderInv

-----------------------------------------------------------------------------
(***************************************************************************)
(* A link verifies its address, once, and says so truly.                   *)
(***************************************************************************)

\* What a click was answered, or is about to be, follows from what became of its
\* link, and no two clicks on one link are answered "ok".
Verdicts ==
    /\ \A r \in Request : kind[r] = "verify" =>
          /\ pc[r] \in {"ok", "already"} => shown[r] # Nobody /\ token[shown[r]] = "consumed"
          /\ pc[r] = "missed" /\ fresh[r] => token[shown[r]] \in {"consumed", "gone"}
          /\ pc[r] = "invalid" /\ fresh[r] => token[shown[r]] = "gone"
    /\ \A r, q \in Request :
          kind[r] = "verify" /\ kind[q] = "verify" /\ pc[r] = "ok" /\ pc[q] = "ok"
             /\ shown[r] = shown[q] => r = q


\* No link has been used when the system starts (Init).
LEMMA VerdictInit == Init => Verdicts
  BY AccountsOK DEF Init, Verdicts

\* Tokens stay what they became: used ones used, replaced ones replaced, and
\* their account the same.
TokensKept ==
    /\ \A t \in Request : /\ token[t] = "consumed" => token'[t] = "consumed"
                          /\ token[t] = "gone" => token'[t] = "gone"
                          /\ token[t] # "none" => Owner(t)' = Owner(t) /\ token'[t] # "none"
    /\ kind' = kind

\* No step undoes a verdict: what InsertToken deletes it holds, and nobody holds a
\* used link.
LEMMA TokensStay == Base /\ [Next]_vars => TokensKept
<1> SUFFICES ASSUME Base, [Next]_vars PROVE TokensKept
  OBVIOUS
<1> USE DEF rows, Goes, Base, TypeOK, ActsInv, HolderInv, TokensKept, Owner
<1>1. ASSUME NEW r \in Request, CreateUser(r) PROVE TokensKept
  BY <1>1, AccountsOK DEF CreateUser
<1>2. ASSUME NEW r \in Request, Login(r) PROVE TokensKept
  BY <1>2, AccountsOK DEF Login
<1>3. ASSUME NEW r \in Request, Authenticate(r) PROVE TokensKept
  BY <1>3, AccountsOK DEF Authenticate, Cookies
<1>4. ASSUME NEW r \in Request, Logout(r) PROVE TokensKept
  BY <1>4, AccountsOK DEF Logout, Cookies
<1>5. ASSUME NEW r \in Request, Present(r) PROVE TokensKept
  BY <1>5, AccountsOK DEF Present
<1>6. ASSUME NEW r \in Request, Refuse(r) PROVE TokensKept
  BY <1>6, AccountsOK DEF Refuse
<1>7. ASSUME NEW r \in Request, CreateSession(r) PROVE TokensKept
  BY <1>7, AccountsOK DEF CreateSession
<1>8. ASSUME NEW r \in Request, CheckUnverified(r) PROVE TokensKept
  BY <1>8, AccountsOK DEF CheckUnverified
<1>9. ASSUME NEW r \in Request, FindUnused(r) PROVE TokensKept
  BY <1>9, AccountsOK DEF FindUnused, Unconsumed, TokensOf
<1>10. ASSUME NEW r \in Request, DeleteUnused(r) PROVE TokensKept
  BY <1>10, AccountsOK DEF DeleteUnused, Blocked, Unconsumed, TokensOf
<1>11. ASSUME NEW r \in Request, InsertToken(r) PROVE TokensKept
  BY <1>11, AccountsOK DEF InsertToken, Released
<1>12. ASSUME NEW r \in Request, Claim(r) PROVE TokensKept
  BY <1>12, AccountsOK DEF Claim, Claimable, Blocked
<1>13. ASSUME NEW r \in Request, Consume(r) PROVE TokensKept
  BY <1>13, AccountsOK DEF Consume, Released
<1>14. ASSUME NEW r \in Request, Tell(r) PROVE TokensKept
  BY <1>14, AccountsOK DEF Tell
<1>15. ASSUME NEW r \in Request, Fail(r) PROVE TokensKept
  BY <1>15, AccountsOK DEF Fail, Released, Working
<1>16. ASSUME NEW x \in Request, Deliver(x) PROVE TokensKept
  BY <1>16, AccountsOK DEF Deliver
<1>17. ASSUME NEW x \in Request, ExpireSession(x) PROVE TokensKept
  BY <1>17, AccountsOK DEF ExpireSession
<1>18. ASSUME NEW x \in Request, ExpireToken(x) PROVE TokensKept
  BY <1>18, AccountsOK DEF ExpireToken
<1>19. CASE UNCHANGED vars
  BY <1>19 DEF vars
<1> QED
  BY <1>1, <1>2, <1>3, <1>4, <1>5, <1>6, <1>7, <1>8, <1>9, <1>10, <1>11, <1>12,
     <1>13, <1>14, <1>15, <1>16, <1>17, <1>18, <1>19 DEF Next, Works, AllDone


\* A claim is judged on the row it waited for, and a miss on what that row has
\* become (Claim, Consume, Tell).
LEMMA VerdictStep == Base /\ TokensKept /\ Verdicts /\ [Next]_vars => Verdicts'
<1> SUFFICES ASSUME Base, TokensKept, Verdicts, [Next]_vars PROVE Verdicts'
  OBVIOUS
<1> USE DEF rows, Goes, Base, TypeOK, ActsInv, HolderInv, Verdicts, TokensKept
<1>1. ASSUME NEW r \in Request, CreateUser(r) PROVE Verdicts'
  BY <1>1, AccountsOK DEF CreateUser
<1>2. ASSUME NEW r \in Request, Login(r) PROVE Verdicts'
  BY <1>2, AccountsOK DEF Login
<1>3. ASSUME NEW r \in Request, Authenticate(r) PROVE Verdicts'
  BY <1>3, AccountsOK DEF Authenticate, Cookies
<1>4. ASSUME NEW r \in Request, Logout(r) PROVE Verdicts'
  BY <1>4, AccountsOK DEF Logout, Cookies
<1>5. ASSUME NEW r \in Request, Present(r) PROVE Verdicts'
  BY <1>5, AccountsOK DEF Present
<1>6. ASSUME NEW r \in Request, Refuse(r) PROVE Verdicts'
  BY <1>6, AccountsOK DEF Refuse
<1>7. ASSUME NEW r \in Request, CreateSession(r) PROVE Verdicts'
  BY <1>7, AccountsOK DEF CreateSession
<1>8. ASSUME NEW r \in Request, CheckUnverified(r) PROVE Verdicts'
  BY <1>8, AccountsOK DEF CheckUnverified
<1>9. ASSUME NEW r \in Request, FindUnused(r) PROVE Verdicts'
  BY <1>9, AccountsOK DEF FindUnused, Unconsumed, TokensOf
<1>10. ASSUME NEW r \in Request, DeleteUnused(r) PROVE Verdicts'
  BY <1>10, AccountsOK DEF DeleteUnused, Blocked, Unconsumed, TokensOf
<1>11. ASSUME NEW r \in Request, InsertToken(r) PROVE Verdicts'
  BY <1>11, AccountsOK DEF InsertToken, Released
<1>12. ASSUME NEW r \in Request, Claim(r) PROVE Verdicts'
  <2>1. /\ kind[r] = "verify" /\ pc[r] = "claim" /\ pc' = [pc EXCEPT ![r] = pc'[r]]
        /\ pc'[r] \in {"claimed", "missed"}
        /\ UNCHANGED <<kind, token, shown, fresh>>
    <3>1. \/ pc' = [pc EXCEPT ![r] = "claimed"]
          \/ pc' = [pc EXCEPT ![r] = "missed"]
      BY <1>12, Zenon DEF Claim
    <3>2. pc[r] = "claim" /\ UNCHANGED <<kind, token, shown, fresh>>
      BY <1>12 DEF Claim
    <3> QED
      BY <3>1, <3>2
  <2>2. pc'[r] = "missed" /\ fresh[r] => token[shown[r]] \in {"consumed", "gone"}
    <3> SUFFICES ASSUME pc'[r] = "missed", fresh[r] PROVE token[shown[r]] \in {"consumed", "gone"}
      OBVIOUS
    <3>1. ~Claimable(r)
      BY <1>12, AccountsOK DEF Claim
    <3>2. shown[r] \in Request /\ token[shown[r]] # "none"
      BY <2>1, AccountsOK
    <3> QED
      BY <3>1, <3>2 DEF Claimable, TokenStates
  <2> QED
    BY <2>1, <2>2
<1>13. ASSUME NEW r \in Request, Consume(r) PROVE Verdicts'
  BY <1>13, AccountsOK DEF Consume, Released
<1>14. ASSUME NEW r \in Request, Tell(r) PROVE Verdicts'
  BY <1>14, AccountsOK DEF Tell
<1>15. ASSUME NEW r \in Request, Fail(r) PROVE Verdicts'
  BY <1>15, AccountsOK DEF Fail, Released, Working
<1>16. ASSUME NEW x \in Request, Deliver(x) PROVE Verdicts'
  BY <1>16, AccountsOK DEF Deliver
<1>17. ASSUME NEW x \in Request, ExpireSession(x) PROVE Verdicts'
  BY <1>17, AccountsOK DEF ExpireSession
<1>18. ASSUME NEW x \in Request, ExpireToken(x) PROVE Verdicts'
  BY <1>18, AccountsOK DEF ExpireToken
<1>19. CASE UNCHANGED vars
  BY <1>19 DEF vars
<1> QED
  BY <1>1, <1>2, <1>3, <1>4, <1>5, <1>6, <1>7, <1>8, <1>9, <1>10, <1>11, <1>12,
     <1>13, <1>14, <1>15, <1>16, <1>17, <1>18, <1>19 DEF Next, Works, AllDone


\* The links that were used, and the accounts they verified, stay the same.
UsedSame == /\ verified' = verified
            /\ \A t \in Request : token'[t] = "consumed" => token[t] = "consumed"

\* A step that uses no link keeps VerifiedByLink.
LEMMA VerifiedStays ==
    TypeOK /\ TokensKept /\ UsedSame /\ VerifiedByLink => VerifiedByLink'
<1> SUFFICES ASSUME TypeOK, TokensKept, UsedSame, VerifiedByLink, NEW u \in Email
             PROVE  (u \in verified)' <=> (\E t \in TokensOf(u) : token[t] = "consumed")'
  BY DEF VerifiedByLink
<1>1. ASSUME u \in verified' PROVE \E t \in Request : token'[t] = "consumed" /\ Owner(t)' = u
  BY <1>1 DEF VerifiedByLink, UsedSame, TokensKept, TokensOf
<1>2. ASSUME NEW t \in Request, token'[t] = "consumed", Owner(t)' = u PROVE u \in verified'
  <2>1. token[t] = "consumed" /\ Owner(t) = u
    BY <1>2 DEF UsedSame, TokensKept
  <2> QED
    BY <2>1 DEF VerifiedByLink, UsedSame, TokensOf
<1> QED
  BY <1>1, <1>2 DEF TokensOf

\* Token and account are marked in one commit, and nothing unmarks either (Consume).
LEMMA VerifiedStep == Base /\ TokensKept /\ VerifiedByLink /\ [Next]_vars => VerifiedByLink'
<1> SUFFICES ASSUME Base, TokensKept, VerifiedByLink, [Next]_vars PROVE VerifiedByLink'
  OBVIOUS
<1> USE DEF rows, Goes, Base, TypeOK, ActsInv, HolderInv, UsedSame
<1>1. ASSUME NEW r \in Request, CreateUser(r) PROVE VerifiedByLink'
  BY <1>1, VerifiedStays DEF CreateUser
<1>2. ASSUME NEW r \in Request, Login(r) PROVE VerifiedByLink'
  BY <1>2, VerifiedStays DEF Login
<1>3. ASSUME NEW r \in Request, Authenticate(r) PROVE VerifiedByLink'
  BY <1>3, VerifiedStays DEF Authenticate, Cookies
<1>4. ASSUME NEW r \in Request, Logout(r) PROVE VerifiedByLink'
  BY <1>4, VerifiedStays DEF Logout, Cookies
<1>5. ASSUME NEW r \in Request, Present(r) PROVE VerifiedByLink'
  BY <1>5, VerifiedStays DEF Present
<1>6. ASSUME NEW r \in Request, Refuse(r) PROVE VerifiedByLink'
  BY <1>6, VerifiedStays DEF Refuse
<1>7. ASSUME NEW r \in Request, CreateSession(r) PROVE VerifiedByLink'
  BY <1>7, VerifiedStays DEF CreateSession
<1>8. ASSUME NEW r \in Request, CheckUnverified(r) PROVE VerifiedByLink'
  BY <1>8, VerifiedStays DEF CheckUnverified
<1>9. ASSUME NEW r \in Request, FindUnused(r) PROVE VerifiedByLink'
  BY <1>9, VerifiedStays DEF FindUnused, Unconsumed, TokensOf
<1>10. ASSUME NEW r \in Request, DeleteUnused(r) PROVE VerifiedByLink'
  BY <1>10, VerifiedStays DEF DeleteUnused, Blocked, Unconsumed, TokensOf
<1>11. ASSUME NEW r \in Request, InsertToken(r) PROVE VerifiedByLink'
  BY <1>11, VerifiedStays DEF InsertToken, Released
<1>12. ASSUME NEW r \in Request, Claim(r) PROVE VerifiedByLink'
  BY <1>12, VerifiedStays DEF Claim, Claimable, Blocked
<1>13. ASSUME NEW r \in Request, Consume(r) PROVE VerifiedByLink'
  <2>1. /\ shown[r] \in Request /\ token[shown[r]] \in {"live", "expired"}
    BY <1>13 DEF Consume
  <2>2. /\ token' = [token EXCEPT ![shown[r]] = "consumed"]
        /\ verified' = verified \cup {Owner(shown[r])}
        /\ UNCHANGED <<kind, shown>>
    BY <1>13 DEF Consume
  <2>3. \A t \in Request : Owner(t)' = Owner(t)
    BY <2>2 DEF Owner
  <2>4. ASSUME NEW u \in Email
        PROVE  u \in verified' <=> \E t \in Request : token'[t] = "consumed" /\ Owner(t) = u
    <3>1. u \in verified <=> \E t \in Request : token[t] = "consumed" /\ Owner(t) = u
      BY DEF VerifiedByLink, TokensOf
    <3>2. token'[shown[r]] = "consumed" /\ \A t \in Request \ {shown[r]} : token'[t] = token[t]
      BY <2>1, <2>2
    <3> QED
      BY <2>1, <2>2, <3>1, <3>2
  <2>5. ASSUME NEW u \in Email
        PROVE  (\E t \in TokensOf(u) : token[t] = "consumed")'
                  <=> \E t \in Request : token'[t] = "consumed" /\ Owner(t) = u
    BY <2>3 DEF TokensOf
  <2> QED
    BY <2>4, <2>5 DEF VerifiedByLink
<1>14. ASSUME NEW r \in Request, Tell(r) PROVE VerifiedByLink'
  BY <1>14, VerifiedStays DEF Tell
<1>15. ASSUME NEW r \in Request, Fail(r) PROVE VerifiedByLink'
  BY <1>15, VerifiedStays DEF Fail, Released, Working
<1>16. ASSUME NEW x \in Request, Deliver(x) PROVE VerifiedByLink'
  BY <1>16, VerifiedStays DEF Deliver
<1>17. ASSUME NEW x \in Request, ExpireSession(x) PROVE VerifiedByLink'
  BY <1>17, VerifiedStays DEF ExpireSession
<1>18. ASSUME NEW x \in Request, ExpireToken(x) PROVE VerifiedByLink'
  BY <1>18, VerifiedStays DEF ExpireToken
<1>19. CASE UNCHANGED vars
  <2> UsedSame
    BY <1>19 DEF vars
  <2> QED
    BY VerifiedStays
<1> QED
  BY <1>1, <1>2, <1>3, <1>4, <1>5, <1>6, <1>7, <1>8, <1>9, <1>10, <1>11, <1>12,
     <1>13, <1>14, <1>15, <1>16, <1>17, <1>18, <1>19 DEF Next, Works, AllDone


-----------------------------------------------------------------------------
(***************************************************************************)
(* Two links of an account are alive together only by a race.              *)
(***************************************************************************)

\* What an issue under way cannot see ran beside it: the links of its account
\* that are alive and that its DELETE did not find, and the other issues.
RaceInv ==
    /\ TwoLinksOnlyByRace
    /\ \A r, t \in Request :
          Issuing(r) /\ IsLive(t) /\ Owner(t) = Owner(r) => t \in doomed[r] \/ {r, t} \in overlapped
    /\ \A r, o \in Request :
          Issuing(r) /\ Issuing(o) /\ r # o /\ Owner(r) = Owner(o) => {r, o} \in overlapped

\* Nobody has issued anything when the system starts (Init).
LEMMA RaceInit == Init => RaceInv
  BY DEF Init, RaceInv, TwoLinksOnlyByRace, TokensOf, Issuing, IsLive

\* No issue begins and no link comes to life; an issue under way still dooms
\* the living links it doomed.
NoneIssued ==
    /\ overlapped' = overlapped
    /\ \A t \in Request : token'[t] = "live" => token[t] = "live"
    /\ \A r \in Request : Issuing(r)' =>
          /\ Issuing(r) /\ Owner(r)' = Owner(r)
          /\ \A t \in doomed[r] : token'[t] = "live" /\ Owner(t) = Owner(r) => t \in doomed'[r]

\* A step that neither begins nor ends an issue keeps RaceInv.
LEMMA RaceStays == TypeOK /\ TokensKept /\ NoneIssued /\ RaceInv => RaceInv'
<1> SUFFICES ASSUME TypeOK, TokensKept, NoneIssued, RaceInv PROVE RaceInv'
  OBVIOUS
<1>1. \A t \in Request : token'[t] = "live" => token[t] = "live" /\ Owner(t)' = Owner(t)
  BY DEF NoneIssued, TokensKept
<1>2. TwoLinksOnlyByRace'
  <2> SUFFICES ASSUME NEW u \in Email, NEW s \in Request, NEW t \in Request, s # t,
                      token'[s] = "live", token'[t] = "live", Owner(s)' = u, Owner(t)' = u
               PROVE  {s, t} \in overlapped'
    BY DEF TwoLinksOnlyByRace, TokensOf, IsLive
  <2>1. token[s] = "live" /\ token[t] = "live" /\ Owner(s) = u /\ Owner(t) = u
    BY <1>1
  <2>2. {s, t} \in overlapped
    BY <2>1 DEF RaceInv, TwoLinksOnlyByRace, TokensOf, IsLive
  <2> QED
    BY <2>2 DEF NoneIssued
<1>3. ASSUME NEW r \in Request, NEW t \in Request, Issuing(r)', IsLive(t)', Owner(t)' = Owner(r)'
      PROVE  t \in doomed'[r] \/ {r, t} \in overlapped'
  <2>1. Issuing(r) /\ IsLive(t) /\ Owner(t) = Owner(r)
    BY <1>1, <1>3 DEF NoneIssued, IsLive
  <2>2. t \in doomed[r] \/ {r, t} \in overlapped
    BY <2>1 DEF RaceInv
  <2> QED
    BY <1>3, <2>1, <2>2 DEF NoneIssued, IsLive
<1>4. ASSUME NEW r \in Request, NEW o \in Request, Issuing(r)', Issuing(o)', r # o, Owner(r)' = Owner(o)'
      PROVE  {r, o} \in overlapped'
  BY <1>4 DEF NoneIssued, RaceInv
<1> QED
  BY <1>2, <1>3, <1>4 DEF RaceInv

\* An issue that begins dooms the links it finds and meets the issues that run
\* (FindUnused); one that ends leaves alive only links of issues it met, and is
\* met by those that still run (InsertToken).
LEMMA RaceStep == Base /\ TokensKept /\ RaceInv /\ [Next]_vars => RaceInv'
<1> SUFFICES ASSUME Base, TokensKept, RaceInv, [Next]_vars PROVE RaceInv'
  OBVIOUS
<1> USE DEF rows, Goes, Base, TypeOK, ActsInv, HolderInv, NoneIssued, Issuing, Owner
<1>1. ASSUME NEW r \in Request, CreateUser(r) PROVE RaceInv'
  BY <1>1, RaceStays DEF CreateUser
<1>2. ASSUME NEW r \in Request, Login(r) PROVE RaceInv'
  BY <1>2, RaceStays DEF Login
<1>3. ASSUME NEW r \in Request, Authenticate(r) PROVE RaceInv'
  BY <1>3, RaceStays DEF Authenticate, Cookies
<1>4. ASSUME NEW r \in Request, Logout(r) PROVE RaceInv'
  BY <1>4, RaceStays DEF Logout, Cookies
<1>5. ASSUME NEW r \in Request, Present(r) PROVE RaceInv'
  BY <1>5, RaceStays DEF Present
<1>6. ASSUME NEW r \in Request, Refuse(r) PROVE RaceInv'
  BY <1>6, RaceStays DEF Refuse
<1>7. ASSUME NEW r \in Request, CreateSession(r) PROVE RaceInv'
  BY <1>7, RaceStays DEF CreateSession
<1>8. ASSUME NEW r \in Request, CheckUnverified(r) PROVE RaceInv'
  BY <1>8, RaceStays DEF CheckUnverified
<1>9. ASSUME NEW r \in Request, FindUnused(r) PROVE RaceInv'
  <2>1. /\ pc[r] = "issue" /\ pc' = [pc EXCEPT ![r] = "delete"]
        /\ doomed' = [doomed EXCEPT ![r] = Unconsumed(Owner(r))]
        /\ overlapped' = overlapped \cup Meets(r)
        /\ UNCHANGED <<kind, token, shown>>
    BY <1>9 DEF FindUnused
  <2>2. /\ \A x \in Request : Owner(x)' = Owner(x) /\ IsLive(x)' = IsLive(x)
        /\ \A x \in Request \ {r} : Issuing(x)' = Issuing(x) /\ doomed'[x] = doomed[x]
        /\ ~Issuing(r) /\ doomed'[r] = Unconsumed(Owner(r))
    BY <2>1 DEF IsLive
  <2> HIDE DEF Issuing, Owner
  <2>3. TwoLinksOnlyByRace'
    BY <2>1, <2>2 DEF RaceInv, TwoLinksOnlyByRace, TokensOf, IsLive
  <2>4. ASSUME NEW x \in Request, NEW t \in Request, Issuing(x)', IsLive(t)', Owner(t)' = Owner(x)'
        PROVE  t \in doomed'[x] \/ {x, t} \in overlapped'
    <3>1. CASE x = r
      BY <2>2, <2>4, <3>1 DEF Unconsumed, TokensOf, IsLive
    <3>2. CASE x # r
      BY <2>1, <2>2, <2>4, <3>2 DEF RaceInv
    <3> QED
      BY <3>1, <3>2
  <2>5. ASSUME NEW x \in Request, NEW o \in Request, Issuing(x)', Issuing(o)', x # o, Owner(x)' = Owner(o)'
        PROVE  {x, o} \in overlapped'
    <3>1. CASE x = r
      BY <2>1, <2>2, <2>5, <3>1 DEF Meets
    <3>2. CASE o = r
      <4>1. {o, x} \in overlapped'
        BY <2>1, <2>2, <2>5, <3>2 DEF Meets
      <4>2. {o, x} = {x, o}
        OBVIOUS
      <4> QED
        BY <4>1, <4>2
    <3>3. CASE x # r /\ o # r
      BY <2>1, <2>2, <2>5, <3>3 DEF RaceInv
    <3> QED
      BY <3>1, <3>2, <3>3
  <2> QED
    BY <2>3, <2>4, <2>5 DEF RaceInv
<1>10. ASSUME NEW r \in Request, DeleteUnused(r) PROVE RaceInv'
  <2>1. /\ pc[r] = "delete" /\ pc' = [pc EXCEPT ![r] = "insert"]
        /\ doomed' = [doomed EXCEPT ![r] = doomed[r] \cap Unconsumed(Owner(r))]
        /\ UNCHANGED <<kind, token, shown, overlapped>>
    BY <1>10 DEF DeleteUnused
  <2>2. NoneIssued
    BY <2>1 DEF Unconsumed, TokensOf
  <2> QED
    BY <2>2, RaceStays
<1>11. ASSUME NEW r \in Request, InsertToken(r) PROVE RaceInv'
  <2>1. /\ pc[r] = "insert" /\ pc' = [pc EXCEPT ![r] = pc'[r]] /\ pc'[r] \in {"created", "sent"}
        /\ token' = [t \in Request |-> IF t \in doomed[r] THEN "gone"
                                       ELSE IF t = r THEN "live" ELSE token[t]]
        /\ doomed' = [doomed EXCEPT ![r] = {}]
        /\ UNCHANGED <<kind, shown, overlapped>>
    BY <1>11 DEF InsertToken
  <2>2. /\ \A x \in Request : Owner(x)' = Owner(x)
        /\ \A x \in Request \ {r} : Issuing(x)' = Issuing(x) /\ doomed'[x] = doomed[x]
        /\ Issuing(r) /\ ~Issuing(r)'
        /\ \A t \in Request \ {r} : IsLive(t)' => IsLive(t) /\ t \notin doomed[r]
    BY <2>1 DEF IsLive
  <2> HIDE DEF Issuing, Owner
  <2>3. ASSUME NEW t \in Request \ {r}, IsLive(t)', Owner(t) = Owner(r) PROVE {r, t} \in overlapped'
    BY <2>1, <2>2, <2>3 DEF RaceInv
  <2>4. TwoLinksOnlyByRace'
    <3> SUFFICES ASSUME NEW u \in Email, NEW s \in Request, NEW t \in Request, s # t,
                        IsLive(s)', IsLive(t)', Owner(s)' = u, Owner(t)' = u
                 PROVE  {s, t} \in overlapped'
      BY DEF TwoLinksOnlyByRace, TokensOf
    <3>1. CASE s = r
      BY <2>2, <2>3, <3>1
    <3>2. CASE t = r
      <4>1. {t, s} \in overlapped'
        BY <2>2, <2>3, <3>2
      <4>2. {t, s} = {s, t}
        OBVIOUS
      <4> QED
        BY <4>1, <4>2
    <3>3. CASE s # r /\ t # r
      <4>1. IsLive(s) /\ IsLive(t) /\ Owner(s) = u /\ Owner(t) = u
        BY <2>2, <3>3
      <4>2. {s, t} \in overlapped
        BY <4>1 DEF RaceInv, TwoLinksOnlyByRace, TokensOf, IsLive
      <4> QED
        BY <2>1, <4>2
    <3> QED
      BY <3>1, <3>2, <3>3
  <2>5. ASSUME NEW x \in Request, NEW t \in Request, Issuing(x)', IsLive(t)', Owner(t)' = Owner(x)'
        PROVE  t \in doomed'[x] \/ {x, t} \in overlapped'
    <3>1. x # r /\ Issuing(x) /\ doomed'[x] = doomed[x] /\ Owner(t) = Owner(x)
      BY <2>2, <2>5
    <3>2. CASE t = r
      BY <2>1, <2>2, <3>1, <3>2 DEF RaceInv
    <3>3. CASE t # r
      BY <2>1, <2>2, <2>5, <3>1, <3>3 DEF RaceInv
    <3> QED
      BY <3>2, <3>3
  <2>6. ASSUME NEW x \in Request, NEW o \in Request, Issuing(x)', Issuing(o)', x # o, Owner(x)' = Owner(o)'
        PROVE  {x, o} \in overlapped'
    BY <2>1, <2>2, <2>6 DEF RaceInv
  <2> QED
    BY <2>4, <2>5, <2>6 DEF RaceInv
<1>12. ASSUME NEW r \in Request, Claim(r) PROVE RaceInv'
  BY <1>12, RaceStays DEF Claim, Claimable, Blocked
<1>13. ASSUME NEW r \in Request, Consume(r) PROVE RaceInv'
  BY <1>13, RaceStays DEF Consume, Released
<1>14. ASSUME NEW r \in Request, Tell(r) PROVE RaceInv'
  BY <1>14, RaceStays DEF Tell
<1>15. ASSUME NEW r \in Request, Fail(r) PROVE RaceInv'
  BY <1>15, RaceStays DEF Fail, Released, Working
<1>16. ASSUME NEW x \in Request, Deliver(x) PROVE RaceInv'
  BY <1>16, RaceStays DEF Deliver
<1>17. ASSUME NEW x \in Request, ExpireSession(x) PROVE RaceInv'
  BY <1>17, RaceStays DEF ExpireSession
<1>18. ASSUME NEW x \in Request, ExpireToken(x) PROVE RaceInv'
  BY <1>18, RaceStays DEF ExpireToken
<1>19. CASE UNCHANGED vars
  <2> NoneIssued
    BY <1>19 DEF vars
  <2> QED
    BY RaceStays
<1> QED
  BY <1>1, <1>2, <1>3, <1>4, <1>5, <1>6, <1>7, <1>8, <1>9, <1>10, <1>11, <1>12,
     <1>13, <1>14, <1>15, <1>16, <1>17, <1>18, <1>19 DEF Next, Works, AllDone


-----------------------------------------------------------------------------
(***************************************************************************)
(* The theorems.                                                           *)
(***************************************************************************)

\* Base holds in every behaviour.
LEMMA BaseHolds == Spec => []Base
<1>1. Init => Base
  BY TypeInit, ActsInit, HolderInit DEF Base
<1>2. Base /\ [Next]_vars => Base'
  BY TypeStep, ActsStep, HolderStep DEF Base
<1> QED
  BY <1>1, <1>2, PTL DEF Spec

\* Every state has its type, and only accounts that exist are verified
\* (routers/auth.py, services/auth.py).
THEOREM TypeCorrect == Spec => []TypeOK
  BY BaseHolds, PTL DEF Base

\* Requests that all present one link and were answered "ok" are one request.
LEMMA OnceFromVerdicts == Verdicts => LinkWorksOnce
<1> SUFFICES ASSUME Verdicts, NEW t \in Request
             PROVE  Cardinality({r \in Request : kind[r] = "verify" /\ shown[r] = t
                                                  /\ pc[r] = "ok"}) <= 1
  BY DEF LinkWorksOnce
<1> DEFINE S == {r \in Request : kind[r] = "verify" /\ shown[r] = t /\ pc[r] = "ok"}
<1>1. CASE S = {}
  BY <1>1, FS_EmptySet
<1>2. CASE S # {}
  <2>1. PICK r \in S : TRUE
    BY <1>2
  <2>2. S = {r}
    BY <2>1 DEF Verdicts
  <2>3. Cardinality({r}) = 1
    BY FS_Singleton
  <2> QED
    BY <2>2, <2>3
<1> QED
  BY <1>1, <1>2

\* A link verifies its address, once, and every tab that shows it is told so
\* truly, however clicks, re-issues and failures interleave (consume_token
\* against issue_token).
THEOREM LinkIsTrue == Spec => []LinkTrue
<1>1. Init => Verdicts /\ VerifiedByLink
  BY VerdictInit, AccountsOK DEF Init, VerifiedByLink, TokensOf
<1>2. Base /\ Verdicts /\ VerifiedByLink /\ [Next]_vars => (Verdicts /\ VerifiedByLink)'
  BY TokensStay, VerdictStep, VerifiedStep DEF Base
<1>3. Verdicts /\ VerifiedByLink => LinkTrue
  BY OnceFromVerdicts DEF Verdicts, VerdictsTrue, LinkTrue
<1> QED
  BY <1>1, <1>2, <1>3, BaseHolds, PTL DEF Spec

\* Two links of an account are alive together only if the second issue began
\* before the first had committed, whatever clicks and issues fail beside them
\* (issue_token).
THEOREM LinksRaced == Spec => []TwoLinksOnlyByRace
<1>1. Base /\ RaceInv /\ [Next]_vars => RaceInv'
  BY TokensStay, RaceStep DEF Base
<1>2. RaceInv => TwoLinksOnlyByRace
  BY DEF RaceInv
<1> QED
  BY <1>1, <1>2, RaceInit, BaseHolds, PTL DEF Spec

=============================================================================
