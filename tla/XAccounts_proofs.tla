-------------------------- MODULE XAccounts_proofs --------------------------
(***************************************************************************)
(* For any number of workers, API calls, answers of X and rows: the stored *)
(* refresh token stays accounted for, and is never rolled back; handlers   *)
(* implement TokenCustody; and a single worker gives up for good only.     *)
(*                                                                         *)
(* The argument: a token that only one handler has seen (Unsaved) is good  *)
(* and nobody else knows it, so only the stored token can be spent, and    *)
(* whoever spends it holds its successor, for the same row.                *)
(***************************************************************************)
EXTENDS XAccounts, TLAPS

USE NoTokenAssumption, NoRowAssumption

SavesToken(w) == workerAt[w] = "save" /\ workerRefresh[w] # NoToken
Upserts(c) == callerAt[c] = "upsert"

(* A token that n is the name of and that only its handler has seen.       *)
Unsaved(n) ==
  /\ n \in live \cup revoked
  /\ refresh # n
  /\ \A v \in Workers : workerToken[v] # n

(* X accepts a token, has replaced it, or it was withdrawn, never two of   *)
(* these; and what the handlers and the table hold has been given out.     *)
TokensIssued ==
  /\ live \cap spent = {} /\ live \cap revoked = {} /\ revoked \cap spent = {}
  /\ refresh \in issued \cup {NoToken}
  /\ \A w \in Workers : workerToken[w] \in issued \cup {NoToken}

(* What is about to be written is unsaved, and every writer has his own.   *)
WritesUnsaved ==
  /\ \A w \in Workers : SavesToken(w) => Unsaved(workerRefresh[w])
  /\ \A c \in Callers : Upserts(c) => Unsaved(callerToken[c])
  /\ \A w, v \in Workers : SavesToken(w) /\ SavesToken(v) /\ w # v =>
       workerRefresh[w] # workerRefresh[v]
  /\ \A c, d \in Callers : Upserts(c) /\ Upserts(d) /\ c # d =>
       callerToken[c] # callerToken[d]
  /\ \A w \in Workers, c \in Callers : SavesToken(w) /\ Upserts(c) =>
       workerRefresh[w] # callerToken[c]

(* A worker works for a row, and has the stored token only for that row.   *)
WorkersKnowRow ==
  \A w \in Workers :
    /\ workerAt[w] \in {"load", "refresh", "save"} => workerRow[w] \in RowIds
    /\ workerAt[w] \in {"refresh", "save"} =>
         /\ workerToken[w] # NoToken
         /\ workerToken[w] = refresh => workerRow[w] = account
    /\ SavesToken(w) => workerToken[w] \in spent

Inv ==
  /\ TypeOK
  /\ TokensIssued
  /\ WritesUnsaved
  /\ WorkersKnowRow
  /\ StoredTokenAccounted

(* Nothing is connected, issued or under way at first.                     *)
LEMMA InitInv == Init => Inv
BY DEF Init, Inv, TypeOK, TokensIssued, WritesUnsaved, WorkersKnowRow,
       StoredTokenAccounted, SavesToken, Upserts

(* The variables keep their types; a connected account has its tokens.     *)
LEMMA TypeStep == Inv /\ [Next]_vars => TypeOK'
<1> SUFFICES ASSUME Inv, [Next]_vars PROVE TypeOK'
  OBVIOUS
<1> USE DEF Inv, TypeOK, TokensIssued, WritesUnsaved, WorkersKnowRow, SavesToken,
           Upserts, Unsaved
<1>1. CASE UNCHANGED vars
  BY <1>1 DEF vars
<1>2. CASE Expire
  BY <1>2 DEF Expire, table, workers, callers
<1>3. CASE Revoke
  BY <1>3 DEF Revoke, table, workers, callers
<1>4. CASE LinkBot
  BY <1>4 DEF LinkBot, server, workers, callers
<1>5. ASSUME NEW w \in Workers, ReadTweet(w) PROVE TypeOK'
  BY <1>5 DEF ReadTweet, table, server, callers
<1>6. ASSUME NEW w \in Workers, LoadAccount(w) PROVE TypeOK'
  BY <1>6 DEF LoadAccount, EndPost, table, server, callers
<1>7. ASSUME NEW w \in Workers, Save(w) PROVE TypeOK'
  BY <1>7 DEF Save, SaveWith, EndPost, server, callers
<1>8. ASSUME NEW w \in Workers, SaveFails(w) PROVE TypeOK'
  BY <1>8 DEF SaveFails, EndPost, table, server, callers
<1>9. ASSUME NEW w \in Workers, RefreshRefused(w) PROVE TypeOK'
  BY <1>9 DEF RefreshRefused, table, server, callers
<1>10. ASSUME NEW w \in Workers, FinishPost(w) PROVE TypeOK'
  BY <1>10 DEF FinishPost, EndPost, table, server, callers
<1>11. ASSUME NEW w \in Workers, NEW n \in Tokens, NEW rotated \in BOOLEAN,
             RefreshToken(w, n, rotated)
      PROVE  TypeOK'
  BY <1>11 DEF RefreshToken, Exchange, table, callers
<1>12. ASSUME NEW w \in Workers, NEW n \in Tokens, RefreshLost(w, n)
      PROVE  TypeOK'
  BY <1>12 DEF RefreshLost, Exchange, EndPost, table, callers
<1>13. ASSUME NEW c \in Callers, NEW n \in Tokens, NEW withdrawn \in SUBSET Tokens,
             ExchangeCode(c, n, withdrawn)
      PROVE  TypeOK'
  BY <1>13 DEF ExchangeCode, table, workers
<1>14. ASSUME NEW c \in Callers, UpsertAccount(c) PROVE TypeOK'
  BY <1>14 DEF UpsertAccount, EndCall, server, workers
<1>15. ASSUME NEW c \in Callers, Disconnect(c) PROVE TypeOK'
  BY <1>15 DEF Disconnect, table, server, workers
<1>16. ASSUME NEW c \in Callers, UnlinkBots(c) PROVE TypeOK'
  BY <1>16 DEF UnlinkBots, server, workers
<1>17. ASSUME NEW c \in Callers, DeleteAccount(c) PROVE TypeOK'
  BY <1>17 DEF DeleteAccount, EndCall, server, workers
<1>18. ASSUME NEW c \in Callers, CallFails(c) PROVE TypeOK'
  BY <1>18 DEF CallFails, EndCall, table, server, workers
<1> QED
  BY <1>1, <1>2, <1>3, <1>4, <1>5, <1>6, <1>7, <1>8,
     <1>9, <1>10, <1>11, <1>12, <1>13, <1>14, <1>15, <1>16, <1>17, <1>18 DEF Next

(* Only a live token is spent or withdrawn, and a new one is new.          *)
LEMMA IssuedStep == Inv /\ [Next]_vars => TokensIssued'
<1> SUFFICES ASSUME Inv, [Next]_vars PROVE TokensIssued'
  OBVIOUS
<1> USE DEF Inv, TypeOK, TokensIssued, WritesUnsaved, WorkersKnowRow, SavesToken,
           Upserts, Unsaved
<1>1. CASE UNCHANGED vars
  BY <1>1 DEF vars
<1>2. CASE Expire
  BY <1>2 DEF Expire, table, workers
<1>3. CASE Revoke
  BY <1>3 DEF Revoke, table, workers
<1>4. CASE LinkBot
  BY <1>4 DEF LinkBot, server, workers
<1>5. ASSUME NEW w \in Workers, ReadTweet(w) PROVE TokensIssued'
  BY <1>5 DEF ReadTweet, table, server
<1>6. ASSUME NEW w \in Workers, LoadAccount(w) PROVE TokensIssued'
  BY <1>6 DEF LoadAccount, EndPost, table, server
<1>7. ASSUME NEW w \in Workers, Save(w) PROVE TokensIssued'
  BY <1>7 DEF Save, SaveWith, EndPost, server
<1>8. ASSUME NEW w \in Workers, SaveFails(w) PROVE TokensIssued'
  BY <1>8 DEF SaveFails, EndPost, table, server
<1>9. ASSUME NEW w \in Workers, RefreshRefused(w) PROVE TokensIssued'
  BY <1>9 DEF RefreshRefused, table, server
<1>10. ASSUME NEW w \in Workers, FinishPost(w) PROVE TokensIssued'
  BY <1>10 DEF FinishPost, EndPost, table, server
<1>11. ASSUME NEW w \in Workers, NEW n \in Tokens, NEW rotated \in BOOLEAN,
             RefreshToken(w, n, rotated)
      PROVE  TokensIssued'
  BY <1>11 DEF RefreshToken, Exchange, table
<1>12. ASSUME NEW w \in Workers, NEW n \in Tokens, RefreshLost(w, n)
      PROVE  TokensIssued'
  BY <1>12 DEF RefreshLost, Exchange, EndPost, table
<1>13. ASSUME NEW c \in Callers, NEW n \in Tokens, NEW withdrawn \in SUBSET Tokens,
             ExchangeCode(c, n, withdrawn)
      PROVE  TokensIssued'
  BY <1>13 DEF ExchangeCode, table, workers
<1>14. ASSUME NEW c \in Callers, UpsertAccount(c) PROVE TokensIssued'
  BY <1>14 DEF UpsertAccount, server, workers
<1>15. ASSUME NEW c \in Callers, Disconnect(c) PROVE TokensIssued'
  BY <1>15 DEF Disconnect, table, server, workers
<1>16. ASSUME NEW c \in Callers, UnlinkBots(c) PROVE TokensIssued'
  BY <1>16 DEF UnlinkBots, server, workers
<1>17. ASSUME NEW c \in Callers, DeleteAccount(c) PROVE TokensIssued'
  BY <1>17 DEF DeleteAccount, EndCall, table, server, workers, callers
<1>18. ASSUME NEW c \in Callers, CallFails(c) PROVE TokensIssued'
  BY <1>18 DEF CallFails, EndCall, table, server, workers, callers
<1> QED
  BY <1>1, <1>2, <1>3, <1>4, <1>5, <1>6, <1>7, <1>8,
     <1>9, <1>10, <1>11, <1>12, <1>13, <1>14, <1>15, <1>16, <1>17, <1>18 DEF Next

(* A token that is about to be written stays good and unknown to others.   *)
LEMMA WritesStep == Inv /\ [Next]_vars => WritesUnsaved'
<1> SUFFICES ASSUME Inv, [Next]_vars PROVE WritesUnsaved'
  OBVIOUS
<1> USE DEF Inv, TypeOK, TokensIssued, WritesUnsaved, WorkersKnowRow, SavesToken,
           Upserts, Unsaved
<1>1. CASE UNCHANGED vars
  BY <1>1 DEF vars, table, server, workers, callers
<1>2. CASE Expire
  BY <1>2 DEF Expire, table, server, workers, callers
<1>3. CASE Revoke
  BY <1>3 DEF Revoke, table, server, workers, callers
<1>4. CASE LinkBot
  BY <1>4 DEF LinkBot, table, server, workers, callers
<1>5. ASSUME NEW w \in Workers, ReadTweet(w) PROVE WritesUnsaved'
  BY <1>5 DEF ReadTweet, table, server, workers, callers
<1>6. ASSUME NEW w \in Workers, LoadAccount(w) PROVE WritesUnsaved'
  BY <1>6 DEF LoadAccount, EndPost, table, server, workers, callers
<1>7. ASSUME NEW w \in Workers, Save(w) PROVE WritesUnsaved'
  BY <1>7 DEF Save, SaveWith, EndPost, table, server, workers, callers
<1>8. ASSUME NEW w \in Workers, SaveFails(w) PROVE WritesUnsaved'
  BY <1>8 DEF SaveFails, EndPost, table, server, workers, callers
<1>9. ASSUME NEW w \in Workers, RefreshRefused(w) PROVE WritesUnsaved'
  BY <1>9 DEF RefreshRefused, table, server, workers, callers
<1>10. ASSUME NEW w \in Workers, FinishPost(w) PROVE WritesUnsaved'
  BY <1>10 DEF FinishPost, EndPost, table, server, workers, callers
<1>11. ASSUME NEW w \in Workers, NEW n \in Tokens, NEW rotated \in BOOLEAN,
             RefreshToken(w, n, rotated)
      PROVE  WritesUnsaved'
  BY <1>11 DEF RefreshToken, Exchange, table, server, workers, callers
<1>12. ASSUME NEW w \in Workers, NEW n \in Tokens, RefreshLost(w, n)
      PROVE  WritesUnsaved'
  BY <1>12 DEF RefreshLost, Exchange, EndPost, table, server, workers, callers
<1>13. ASSUME NEW c \in Callers, NEW n \in Tokens, NEW withdrawn \in SUBSET Tokens,
             ExchangeCode(c, n, withdrawn)
      PROVE  WritesUnsaved'
  BY <1>13 DEF ExchangeCode, table, server, workers, callers
<1>14. ASSUME NEW c \in Callers, UpsertAccount(c) PROVE WritesUnsaved'
  BY <1>14 DEF UpsertAccount, EndCall, table, server, workers, callers
<1>15. ASSUME NEW c \in Callers, Disconnect(c) PROVE WritesUnsaved'
  BY <1>15 DEF Disconnect, table, server, workers, callers
<1>16. ASSUME NEW c \in Callers, UnlinkBots(c) PROVE WritesUnsaved'
  BY <1>16 DEF UnlinkBots, table, server, workers, callers
<1>17. ASSUME NEW c \in Callers, DeleteAccount(c) PROVE WritesUnsaved'
  BY <1>17 DEF DeleteAccount, EndCall, table, server, workers, callers
<1>18. ASSUME NEW c \in Callers, CallFails(c) PROVE WritesUnsaved'
  BY <1>18 DEF CallFails, EndCall, table, server, workers, callers
<1> QED
  BY <1>1, <1>2, <1>3, <1>4, <1>5, <1>6, <1>7, <1>8,
     <1>9, <1>10, <1>11, <1>12, <1>13, <1>14, <1>15, <1>16, <1>17, <1>18 DEF Next

(* A row keeps its id, and a token its row.                                *)
LEMMA RowStep == Inv /\ [Next]_vars => WorkersKnowRow'
<1> SUFFICES ASSUME Inv, [Next]_vars PROVE WorkersKnowRow'
  OBVIOUS
<1> USE DEF Inv, TypeOK, TokensIssued, WritesUnsaved, WorkersKnowRow, SavesToken,
           Upserts, Unsaved
<1>1. CASE UNCHANGED vars
  BY <1>1 DEF vars, table, server, workers, callers
<1>2. CASE Expire
  BY <1>2 DEF Expire, table, server, workers, callers
<1>3. CASE Revoke
  BY <1>3 DEF Revoke, table, server, workers, callers
<1>4. CASE LinkBot
  BY <1>4 DEF LinkBot, table, server, workers, callers
<1>5. ASSUME NEW w \in Workers, ReadTweet(w) PROVE WorkersKnowRow'
  BY <1>5 DEF ReadTweet, table, server, workers, callers
<1>6. ASSUME NEW w \in Workers, LoadAccount(w) PROVE WorkersKnowRow'
  BY <1>6 DEF LoadAccount, EndPost, table, server, workers, callers
<1>7. ASSUME NEW w \in Workers, Save(w) PROVE WorkersKnowRow'
  BY <1>7 DEF Save, SaveWith, EndPost, table, server, workers, callers
<1>8. ASSUME NEW w \in Workers, SaveFails(w) PROVE WorkersKnowRow'
  BY <1>8 DEF SaveFails, EndPost, table, server, workers, callers
<1>9. ASSUME NEW w \in Workers, RefreshRefused(w) PROVE WorkersKnowRow'
  BY <1>9 DEF RefreshRefused, table, server, workers, callers
<1>10. ASSUME NEW w \in Workers, FinishPost(w) PROVE WorkersKnowRow'
  BY <1>10 DEF FinishPost, EndPost, table, server, workers, callers
<1>11. ASSUME NEW w \in Workers, NEW n \in Tokens, NEW rotated \in BOOLEAN,
             RefreshToken(w, n, rotated)
      PROVE  WorkersKnowRow'
  BY <1>11 DEF RefreshToken, Exchange, table, server, workers, callers
<1>12. ASSUME NEW w \in Workers, NEW n \in Tokens, RefreshLost(w, n)
      PROVE  WorkersKnowRow'
  BY <1>12 DEF RefreshLost, Exchange, EndPost, table, server, workers, callers
<1>13. ASSUME NEW c \in Callers, NEW n \in Tokens, NEW withdrawn \in SUBSET Tokens,
             ExchangeCode(c, n, withdrawn)
      PROVE  WorkersKnowRow'
  BY <1>13 DEF ExchangeCode, table, server, workers, callers
<1>14. ASSUME NEW c \in Callers, UpsertAccount(c) PROVE WorkersKnowRow'
  BY <1>14 DEF UpsertAccount, EndCall, table, server, workers, callers
<1>15. ASSUME NEW c \in Callers, Disconnect(c) PROVE WorkersKnowRow'
  BY <1>15 DEF Disconnect, table, server, workers, callers
<1>16. ASSUME NEW c \in Callers, UnlinkBots(c) PROVE WorkersKnowRow'
  BY <1>16 DEF UnlinkBots, table, server, workers, callers
<1>17. ASSUME NEW c \in Callers, DeleteAccount(c) PROVE WorkersKnowRow'
  BY <1>17 DEF DeleteAccount, EndCall, table, server, workers, callers
<1>18. ASSUME NEW c \in Callers, CallFails(c) PROVE WorkersKnowRow'
  BY <1>18 DEF CallFails, EndCall, table, server, workers, callers
<1> QED
  BY <1>1, <1>2, <1>3, <1>4, <1>5, <1>6, <1>7, <1>8,
     <1>9, <1>10, <1>11, <1>12, <1>13, <1>14, <1>15, <1>16, <1>17, <1>18 DEF Next

(* Whoever spends the stored token saves its successor, or it is lost.     *)
LEMMA StoredStep == Inv /\ [Next]_vars => StoredTokenAccounted'
<1> SUFFICES ASSUME Inv, [Next]_vars PROVE StoredTokenAccounted'
  OBVIOUS
<1> USE DEF Inv, TypeOK, TokensIssued, WritesUnsaved, WorkersKnowRow, SavesToken,
           Upserts, Unsaved, StoredTokenAccounted
<1>1. CASE UNCHANGED vars
  BY <1>1 DEF vars, table, server, workers, callers
<1>2. CASE Expire
  BY <1>2 DEF Expire, table, server, workers, callers
<1>3. CASE Revoke
  BY <1>3 DEF Revoke, table, server, workers, callers
<1>4. CASE LinkBot
  BY <1>4 DEF LinkBot, table, server, workers, callers
<1>5. ASSUME NEW w \in Workers, ReadTweet(w) PROVE StoredTokenAccounted'
  BY <1>5 DEF ReadTweet, table, server, workers, callers
<1>6. ASSUME NEW w \in Workers, LoadAccount(w) PROVE StoredTokenAccounted'
  BY <1>6 DEF LoadAccount, EndPost, table, server, workers, callers
<1>7. ASSUME NEW w \in Workers, Save(w) PROVE StoredTokenAccounted'
  BY <1>7 DEF Save, SaveWith, EndPost, table, server, workers, callers
<1>8. ASSUME NEW w \in Workers, SaveFails(w) PROVE StoredTokenAccounted'
  BY <1>8 DEF SaveFails, EndPost, table, server, workers, callers
<1>9. ASSUME NEW w \in Workers, RefreshRefused(w) PROVE StoredTokenAccounted'
  BY <1>9 DEF RefreshRefused, table, server, workers, callers
<1>10. ASSUME NEW w \in Workers, FinishPost(w) PROVE StoredTokenAccounted'
  BY <1>10 DEF FinishPost, EndPost, table, server, workers, callers
<1>11. ASSUME NEW w \in Workers, NEW n \in Tokens, NEW rotated \in BOOLEAN,
             RefreshToken(w, n, rotated)
      PROVE  StoredTokenAccounted'
  BY <1>11 DEF RefreshToken, Exchange, table, server, workers, callers
<1>12. ASSUME NEW w \in Workers, NEW n \in Tokens, RefreshLost(w, n)
      PROVE  StoredTokenAccounted'
  BY <1>12 DEF RefreshLost, Exchange, EndPost, table, server, workers, callers
<1>13. ASSUME NEW c \in Callers, NEW n \in Tokens, NEW withdrawn \in SUBSET Tokens,
             ExchangeCode(c, n, withdrawn)
      PROVE  StoredTokenAccounted'
  BY <1>13 DEF ExchangeCode, table, server, workers, callers
<1>14. ASSUME NEW c \in Callers, UpsertAccount(c) PROVE StoredTokenAccounted'
  BY <1>14 DEF UpsertAccount, EndCall, table, server, workers, callers
<1>15. ASSUME NEW c \in Callers, Disconnect(c) PROVE StoredTokenAccounted'
  BY <1>15 DEF Disconnect, table, server, workers, callers
<1>16. ASSUME NEW c \in Callers, UnlinkBots(c) PROVE StoredTokenAccounted'
  BY <1>16 DEF UnlinkBots, table, server, workers, callers
<1>17. ASSUME NEW c \in Callers, DeleteAccount(c) PROVE StoredTokenAccounted'
  BY <1>17 DEF DeleteAccount, EndCall, table, server, workers, callers
<1>18. ASSUME NEW c \in Callers, CallFails(c) PROVE StoredTokenAccounted'
  BY <1>18 DEF CallFails, EndCall, table, server, workers, callers
<1> QED
  BY <1>1, <1>2, <1>3, <1>4, <1>5, <1>6, <1>7, <1>8,
     <1>9, <1>10, <1>11, <1>12, <1>13, <1>14, <1>15, <1>16, <1>17, <1>18 DEF Next

(* The inductive invariant holds for any workers, calls, tokens and rows.  *)
THEOREM Invariance == Spec => []Inv
<1>1. Inv /\ [Next]_vars => Inv'
  BY TypeStep, IssuedStep, WritesStep, RowStep, StoredStep DEF Inv
<1> QED
  BY <1>1, InitInv, PTL DEF Spec

(* Every variable of the X accounts keeps its type, and a connected        *)
(* account always has a refresh token.                                     *)
THEOREM TypeCorrect == Spec => []TypeOK
BY Invariance, PTL DEF Inv

(* The stored refresh token is good, was withdrawn or lost, or its         *)
(* successor is about to be saved, however refreshes and calls race.       *)
THEOREM StoredTokenSafe == Spec => []StoredTokenAccounted
BY Invariance, PTL DEF Inv

(* No write of the refresh token, late as it may come, restores a token    *)
(* that X has replaced.                                                    *)
THEOREM TokensMoveForward == Spec => NeverRollsBack
<1>1. ASSUME Inv, [Next]_vars
      PROVE  [refresh' # refresh => refresh' \notin spent']_vars
  <2> SUFFICES ASSUME refresh' # refresh PROVE refresh' \notin spent'
    OBVIOUS
  <2>1. \/ \E w \in Workers : Save(w)
        \/ \E c \in Callers : UpsertAccount(c) \/ DeleteAccount(c)
    BY <1>1 DEF Next, vars, table, Expire, Revoke, LinkBot, ReadTweet, LoadAccount,
       RefreshToken, RefreshLost, Exchange, SaveFails, RefreshRefused, FinishPost,
       ExchangeCode, Disconnect, UnlinkBots, CallFails
  <2>2. spent' = spent /\ NoToken \notin spent
    BY <1>1, <2>1 DEF Inv, TypeOK, Save, SaveWith, UpsertAccount, DeleteAccount, server
  <2>3. ASSUME NEW w \in Workers, Save(w) PROVE refresh' \notin spent
    <3>1. SavesToken(w) /\ refresh' = workerRefresh[w]
      BY <2>3 DEF Save, SaveWith, SavesToken
    <3> QED
      BY <1>1, <3>1 DEF Inv, WritesUnsaved, Unsaved, TokensIssued
  <2>4. ASSUME NEW c \in Callers, UpsertAccount(c) PROVE refresh' \notin spent
    BY <1>1, <2>4 DEF Inv, WritesUnsaved, Unsaved, TokensIssued, Upserts, UpsertAccount
  <2>5. ASSUME NEW c \in Callers, DeleteAccount(c) PROVE refresh' \notin spent
    BY <2>2, <2>5 DEF DeleteAccount
  <2> QED
    BY <2>1, <2>2, <2>3, <2>4, <2>5
<1> QED
  BY <1>1, Invariance, PTL DEF Spec, NeverRollsBack

-----------------------------------------------------------------------------
(* The refinement of TokenCustody.  What a step of one handler changes in  *)
(* what is read and carried.                                               *)
RenewalOf(w) == <<workerToken[w], workerRefresh[w]>>

CustodyStep == [Custody!CustodyNext]_(Custody!custodyVars)

LEMMA CallersRest == UNCHANGED callers => Granted' = Granted
BY DEF callers, Granted

LEMMA WorkersRest ==
  UNCHANGED workers => UNCHANGED <<Renewals, ReadTokens>>
BY DEF workers, Renewals, ReadTokens

LEMMA EndCallDrops ==
  ASSUME Inv, NEW c \in Callers, EndCall(c)
  PROVE  Granted' = IF Upserts(c) THEN Granted \ {callerToken[c]} ELSE Granted
BY DEF Inv, TypeOK, WritesUnsaved, Upserts, EndCall, Granted

LEMMA EndPostDrops ==
  ASSUME Inv, NEW w \in Workers, EndPost(w)
  PROVE  /\ Renewals' = IF SavesToken(w) THEN Renewals \ {RenewalOf(w)} ELSE Renewals
         /\ ReadTokens' \subseteq ReadTokens
<1>1. ReadTokens' \subseteq ReadTokens
  BY DEF Inv, TypeOK, EndPost, ReadTokens
<1>2. /\ workerAt' = [workerAt EXCEPT ![w] = "idle"]
      /\ \A v \in Workers \ {w} : workerToken'[v] = workerToken[v]
                                  /\ workerRefresh'[v] = workerRefresh[v]
  BY DEF Inv, TypeOK, EndPost
<1>3. \A v \in Workers \ {w} : SavesToken(v) /\ SavesToken(w) =>
                                 RenewalOf(v) # RenewalOf(w)
  BY DEF Inv, WritesUnsaved, RenewalOf
<1>4. \A v \in Workers : SavesToken(v)' <=> SavesToken(v) /\ v # w
  BY <1>2 DEF Inv, TypeOK, SavesToken
<1>5. Renewals = {RenewalOf(v) : v \in {u \in Workers : SavesToken(u)}}
  BY DEF Renewals, RenewalOf, SavesToken
<1>6. Renewals' = {RenewalOf(v)' : v \in {u \in Workers : SavesToken(u)'}}
  BY DEF Renewals, RenewalOf, SavesToken
<1>7. Renewals' = {RenewalOf(v) : v \in {u \in Workers : SavesToken(u) /\ u # w}}
  BY <1>2, <1>4, <1>6 DEF RenewalOf
<1> QED
  BY <1>1, <1>3, <1>5, <1>7

(* Steps that only change what is read, and those that EndPost completes.  *)
LEMMA ReadingIsSeen ==
  ASSUME ReadTokens' \subseteq ReadTokens \cup ({refresh} \ {NoToken}),
         UNCHANGED <<issued, live, spent, revoked, lost, refresh, Granted, Renewals, Serving>>
  PROVE  CustodyStep
BY DEF CustodyStep, Custody!CustodyNext, Custody!Read

LEMMA StutterIsSeen ==
  ASSUME UNCHANGED <<issued, live, spent, revoked, lost, refresh, ReadTokens, Granted, Renewals,
                   Serving>>
  PROVE  CustodyStep
BY DEF CustodyStep, Custody!custodyVars

(* Steps that only link a bot to the row, or unlink it.                    *)
LEMMA LinkIsSeen ==
  ASSUME UNCHANGED <<issued, live, spent, revoked, lost, refresh, ReadTokens, Granted, Renewals>>,
         Serving' = Serving \/ Serving' \in {refresh # NoToken, FALSE}
  PROVE  CustodyStep
BY DEF CustodyStep, Custody!CustodyNext, Custody!custodyVars, Custody!Link

(* A worker asks X: a successor is carried, or lost, or there is none.     *)
LEMMA ExchangeIsSeen ==
  ASSUME Inv, NEW w \in Workers, NEW n \in Tokens, NEW rotated \in BOOLEAN,
         RefreshToken(w, n, rotated)
  PROVE  CustodyStep
<1> USE DEF RefreshToken, Exchange
<1>1. /\ n \in Tokens \ issued /\ workerToken[w] \in live
      /\ UNCHANGED <<lost, refresh, revoked, Serving>> /\ issued' = issued \cup {n}
  BY DEF table, Serving
<1>2. Granted' = Granted
  BY CallersRest
<1>3. workerToken' = workerToken /\ ReadTokens' = ReadTokens
  BY DEF ReadTokens
<1>4. workerToken[w] \in ReadTokens
  BY <1>1 DEF Inv, TypeOK, ReadTokens
<1>5. /\ \A v \in Workers \ {w} : /\ workerAt'[v] = workerAt[v]
                                  /\ workerRefresh'[v] = workerRefresh[v]
      /\ workerAt'[w] = "save" /\ workerAt[w] = "refresh"
      /\ workerRefresh'[w] = IF rotated THEN n ELSE NoToken
  BY DEF Inv, TypeOK
<1>6. CASE rotated
  <2>1. Renewals' = Renewals \cup {<<workerToken[w], n>>}
    BY <1>3, <1>5, <1>6 DEF Renewals
  <2>2. Custody!Renew(workerToken[w], n)
    BY <1>1, <1>2, <1>3, <1>6, <2>1 DEF Custody!Renew, Custody!Exchange
  <2> QED
    BY <1>1, <1>4, <2>2 DEF CustodyStep, Custody!CustodyNext
<1>7. CASE ~rotated
  <2>1. Renewals' = Renewals
    BY <1>3, <1>5, <1>7 DEF Renewals
  <2>2. Custody!LetStand(n)
    BY <1>1, <1>2, <1>3, <1>7, <2>1 DEF Custody!LetStand
  <2> QED
    BY <1>1, <2>2 DEF CustodyStep, Custody!CustodyNext
<1> QED
  BY <1>6, <1>7

LEMMA LossIsSeen ==
  ASSUME Inv, NEW w \in Workers, NEW n \in Tokens, RefreshLost(w, n)
  PROVE  CustodyStep
<1> USE DEF RefreshLost, Exchange
<1>1. n \in Tokens \ issued /\ workerToken[w] \in live /\ ~SavesToken(w)
  BY DEF SavesToken
<1>2. Granted' = Granted /\ UNCHANGED <<refresh, revoked, Serving>>
  BY CallersRest DEF table, Serving
<1>3. workerToken[w] \in ReadTokens
  BY <1>1 DEF Inv, TypeOK, ReadTokens
<1>4. Renewals' = Renewals /\ ReadTokens' \subseteq ReadTokens
  BY <1>1, EndPostDrops
<1>5. Custody!RenewLost(workerToken[w], n)
  BY <1>2, <1>4 DEF Custody!RenewLost, Custody!Exchange
<1> QED
  BY <1>1, <1>3, <1>5 DEF CustodyStep, Custody!CustodyNext

(* A save stores the successor, or drops it with a row that is gone.       *)
LEMMA SaveIsSeen ==
  ASSUME Inv, NEW w \in Workers, Save(w)
  PROVE  CustodyStep
<1> USE DEF Save, SaveWith
<1>1. Granted' = Granted /\ UNCHANGED <<issued, live, spent, revoked, lost, Serving>>
  BY CallersRest DEF server, Serving
<1>2. workerAt[w] = "save" /\ workerRow[w] \in RowIds
  BY DEF Inv, WorkersKnowRow
<1>3. SavesToken(w) => RenewalOf(w) \in Renewals
  BY DEF SavesToken, RenewalOf, Renewals
<1>4. CASE account = workerRow[w]
  <2>1. refresh # NoToken
    BY <1>2, <1>4 DEF Inv, TypeOK
  <2>2. /\ workerAt' = [workerAt EXCEPT ![w] = "send"]
        /\ UNCHANGED <<workerToken, workerRefresh>> /\ ReadTokens' = ReadTokens
    BY <1>4 DEF ReadTokens
  <2>3. CASE SavesToken(w)
    <3>1. refresh' = RenewalOf(w)[2]
      BY <1>4, <2>3 DEF SavesToken, RenewalOf
    <3>2. Renewals' = Renewals \ {RenewalOf(w)}
      <4>1. \A v \in Workers \ {w} : SavesToken(v) => RenewalOf(v) # RenewalOf(w)
        BY <2>3 DEF Inv, WritesUnsaved, RenewalOf
      <4>2. Renewals = {RenewalOf(v) : v \in {u \in Workers : SavesToken(u)}}
        BY DEF Renewals, RenewalOf, SavesToken
      <4>3. Renewals' = {RenewalOf(v) : v \in {u \in Workers : SavesToken(u) /\ u # w}}
        BY <2>2 DEF Inv, TypeOK, Renewals, RenewalOf, SavesToken
      <4> QED
        BY <4>1, <4>2, <4>3
    <3>3. Custody!Succeed(RenewalOf(w))
      BY <1>1, <2>1, <2>2, <3>1, <3>2 DEF Custody!Succeed
    <3> QED
      BY <1>3, <2>3, <3>3 DEF CustodyStep, Custody!CustodyNext
  <2>4. CASE ~SavesToken(w)
    <3>1. refresh' = refresh
      BY <1>2, <1>4, <2>4 DEF SavesToken
    <3>2. Renewals' = Renewals
      BY <1>2, <2>2, <2>4 DEF Inv, TypeOK, Renewals, SavesToken
    <3> QED
      BY <1>1, <2>2, <3>1, <3>2, StutterIsSeen
  <2> QED
    BY <2>3, <2>4
<1>5. CASE account # workerRow[w]
  <2>1. EndPost(w) /\ refresh' = refresh /\ refresh # workerToken[w]
    BY <1>2, <1>5 DEF Inv, WorkersKnowRow
  <2>2. CASE SavesToken(w)
    <3>1. Custody!Drop(RenewalOf(w))
      BY <1>1, <2>1, <2>2, EndPostDrops DEF Custody!Drop, RenewalOf
    <3> QED
      BY <1>3, <2>2, <3>1 DEF CustodyStep, Custody!CustodyNext
  <2>3. CASE ~SavesToken(w)
    BY <1>1, <2>1, <2>3, EndPostDrops, ReadingIsSeen
  <2> QED
    BY <2>2, <2>3
<1> QED
  BY <1>4, <1>5

LEMMA FailedSaveIsSeen ==
  ASSUME Inv, NEW w \in Workers, SaveFails(w)
  PROVE  CustodyStep
<1> USE DEF SaveFails
<1>1. UNCHANGED <<issued, live, spent, revoked, refresh, Granted, Serving>>
  BY CallersRest DEF server, table, Serving
<1>2. CASE SavesToken(w)
  <2>1. RenewalOf(w) \in Renewals
    BY <1>2 DEF SavesToken, RenewalOf, Renewals
  <2>2. Custody!Drop(RenewalOf(w))
    BY <1>1, <1>2, EndPostDrops DEF Custody!Drop, RenewalOf, SavesToken
  <2> QED
    BY <2>1, <2>2 DEF CustodyStep, Custody!CustodyNext
<1>3. CASE ~SavesToken(w)
  BY <1>1, <1>3, EndPostDrops, ReadingIsSeen DEF SavesToken
<1> QED
  BY <1>2, <1>3

(* A call gets a token of its own, stores it, or drops it.                 *)
LEMMA GrantIsSeen ==
  ASSUME Inv, NEW c \in Callers, NEW n \in Tokens, NEW withdrawn \in SUBSET Tokens,
         ExchangeCode(c, n, withdrawn)
  PROVE  CustodyStep
<1> USE DEF ExchangeCode
<1>1. UNCHANGED <<spent, lost, refresh, Renewals, ReadTokens, Serving>> /\ n \in Tokens \ issued
  BY WorkersRest DEF table, Serving
<1>2. Granted' = Granted \cup {n}
  BY DEF Inv, TypeOK, Granted
<1>3. Custody!Grant(n, {}) \/ Custody!Grant(n, live)
  BY <1>1, <1>2 DEF Custody!Grant
<1> QED
  BY <1>1, <1>3 DEF CustodyStep, Custody!CustodyNext

LEMMA CallIsSeen ==
  ASSUME Inv, NEW c \in Callers,
         \/ UpsertAccount(c) \/ Disconnect(c) \/ UnlinkBots(c)
         \/ DeleteAccount(c) \/ CallFails(c)
  PROVE  CustodyStep
<1>1. UNCHANGED <<issued, live, spent, revoked, lost, Renewals, ReadTokens>>
  BY WorkersRest DEF UpsertAccount, Disconnect, UnlinkBots, DeleteAccount, CallFails, server
<1>2. Upserts(c) => callerToken[c] \in Granted
  BY DEF Upserts, Granted
<1>3. CASE UpsertAccount(c)
  <2>1. Upserts(c) /\ EndCall(c) /\ refresh' = callerToken[c]
    BY <1>3 DEF UpsertAccount, Upserts
  <2>2. Serving' = Serving
    BY <1>3 DEF UpsertAccount, Serving
  <2>3. Custody!Install(callerToken[c])
    BY <1>1, <2>1, <2>2, EndCallDrops DEF Custody!Install
  <2> QED
    BY <1>2, <2>1, <2>3 DEF CustodyStep, Custody!CustodyNext
<1>4. CASE Disconnect(c) \/ UnlinkBots(c)
  <2>1. refresh' = refresh /\ Granted' = Granted
    BY <1>4 DEF Inv, TypeOK, Disconnect, UnlinkBots, table, Granted
  <2>2. Serving' = Serving \/ Serving' = FALSE
    BY <1>4 DEF Disconnect, UnlinkBots, table, Serving
  <2> QED
    BY <1>1, <2>1, <2>2, LinkIsSeen
<1>5. CASE DeleteAccount(c)
  <2>1. ~Upserts(c) /\ EndCall(c)
    BY <1>5 DEF DeleteAccount, Upserts
  <2>2. Granted' = Granted
    BY <2>1, EndCallDrops
  <2>3. CASE refresh' = refresh
    <3>1. Serving' = Serving
      BY <1>5, <2>3 DEF Inv, TypeOK, DeleteAccount, Serving
    <3> QED
      BY <1>1, <2>2, <2>3, <3>1, StutterIsSeen
  <2>4. CASE refresh' # refresh
    <3>1. Custody!Disconnect
      BY <1>1, <1>5, <2>2, <2>4 DEF DeleteAccount, Serving, Custody!Disconnect
    <3> QED
      BY <3>1 DEF CustodyStep, Custody!CustodyNext
  <2> QED
    BY <2>3, <2>4
<1>6. CASE CallFails(c)
  <2>1. EndCall(c) /\ UNCHANGED <<refresh, Serving>>
    BY <1>6 DEF CallFails, table, Serving
  <2>2. CASE Upserts(c)
    <3>1. Custody!DropGrant(callerToken[c])
      BY <1>1, <2>1, <2>2, EndCallDrops DEF Custody!DropGrant
    <3> QED
      BY <1>2, <2>2, <3>1 DEF CustodyStep, Custody!CustodyNext
  <2>3. CASE ~Upserts(c)
    BY <1>1, <2>1, <2>3, EndCallDrops, StutterIsSeen
  <2> QED
    BY <2>2, <2>3
<1> QED
  BY <1>3, <1>4, <1>5, <1>6

(* Every step of the handlers, of X and of the user is one of TokenCustody.*)
LEMMA NextKeeps == Inv /\ [Next]_vars => CustodyStep
<1> SUFFICES ASSUME Inv, [Next]_vars PROVE CustodyStep
  OBVIOUS
<1>1. CASE UNCHANGED vars \/ Expire \/ LinkBot
  <2>1. UNCHANGED <<issued, live, spent, revoked, lost, refresh, workers, callers>>
    BY <1>1 DEF vars, Expire, LinkBot, table, server, workers, callers
  <2>2. Serving' = Serving \/ (Serving' = TRUE /\ refresh # NoToken)
    BY <1>1 DEF Inv, TypeOK, vars, Expire, LinkBot, table, Serving
  <2> QED
    BY <2>1, <2>2, WorkersRest, CallersRest, LinkIsSeen
<1>2. CASE Revoke
  <2>1. Custody!Withdraw
    BY <1>2, WorkersRest, CallersRest DEF Revoke, table, Serving, Custody!Withdraw
  <2> QED
    BY <2>1 DEF CustodyStep, Custody!CustodyNext
<1>3. ASSUME NEW w \in Workers, ReadTweet(w) \/ RefreshRefused(w) PROVE CustodyStep
  <2>1. UNCHANGED <<issued, live, spent, revoked, lost, refresh, Granted, ReadTokens,
                   Serving>>
    BY <1>3, CallersRest DEF ReadTweet, RefreshRefused, table, server, ReadTokens, Serving
  <2>2. Renewals' = Renewals
    BY <1>3 DEF Inv, TypeOK, ReadTweet, RefreshRefused, Renewals
  <2> QED
    BY <2>1, <2>2, StutterIsSeen
<1>4. ASSUME NEW w \in Workers, LoadAccount(w) \/ FinishPost(w) PROVE CustodyStep
  <2>1. /\ UNCHANGED <<issued, live, spent, revoked, lost, refresh, Granted, Serving>>
        /\ ~SavesToken(w)
    BY <1>4, CallersRest DEF LoadAccount, FinishPost, table, server, SavesToken, Serving
  <2>2. CASE EndPost(w)
    BY <2>1, <2>2, EndPostDrops, ReadingIsSeen
  <2>3. CASE ~EndPost(w)
    <3>1. LoadAccount(w) /\ account = workerRow[w]
      BY <1>4, <2>3 DEF LoadAccount, FinishPost
    <3>2. ReadTokens' \subseteq ReadTokens \cup ({refresh} \ {NoToken})
      BY <3>1 DEF Inv, TypeOK, LoadAccount, ReadTokens
    <3>3. Renewals' = Renewals
      BY <3>1 DEF Inv, TypeOK, LoadAccount, Renewals
    <3> QED
      BY <2>1, <3>2, <3>3, ReadingIsSeen
  <2> QED
    BY <2>2, <2>3
<1> QED
  BY <1>1, <1>2, <1>3, <1>4, ExchangeIsSeen, LossIsSeen, SaveIsSeen, FailedSaveIsSeen,
     GrantIsSeen, CallIsSeen
  DEF Next

(* However refreshes, reconnections, disconnections and failures race, a   *)
(* token goes from X to a handler to the table and on, and never back      *)
(* (XApiClientService, XOAuthService).                                     *)
THEOREM CustodyKept == Spec => CustodyRefined
<1>1. Init => Custody!CustodyInit
  BY DEF Init, Custody!CustodyInit, ReadTokens, Granted, Renewals, Serving
<1>2. Inv /\ [Next]_vars => [Custody!CustodyNext]_(Custody!custodyVars)
  BY NextKeeps DEF CustodyStep
<1> QED
  BY <1>1, <1>2, Invariance, PTL DEF Spec, CustodyRefined, Custody!CustodySpec

-----------------------------------------------------------------------------
(* What the refresh race needs.  With one worker in all replicas, the      *)
(* token that is sent to X is good, withdrawn or lost.                     *)
SentAccounted ==
  \A w \in Workers : workerAt[w] = "refresh" =>
    workerToken[w] \in live \cup revoked \cup lost

LEMMA SoleStep ==
  ASSUME \A v, w \in Workers : v = w,
         Inv, SentAccounted, GivenUpForGood, [Next]_vars
  PROVE  SentAccounted' /\ GivenUpForGood'
<1> USE DEF Inv, TypeOK, SentAccounted, GivenUpForGood
<1>1. CASE UNCHANGED vars \/ Expire \/ Revoke \/ LinkBot
  BY <1>1 DEF vars, Expire, Revoke, LinkBot, table, server, workers, callers
<1>2. ASSUME NEW w \in Workers, ReadTweet(w) \/ RefreshRefused(w) \/ FinishPost(w)
                                \/ Save(w) \/ SaveFails(w)
      PROVE  SentAccounted' /\ GivenUpForGood'
  BY <1>2 DEF ReadTweet, RefreshRefused, FinishPost, Save, SaveWith, SaveFails, EndPost,
              table, server
<1>3. ASSUME NEW w \in Workers, LoadAccount(w) PROVE SentAccounted' /\ GivenUpForGood'
  <2>1. account = workerRow[w] => refresh \in live \cup revoked \cup lost
    BY <1>3 DEF LoadAccount, StoredTokenAccounted, WorkersKnowRow
  <2> QED
    BY <1>3, <2>1 DEF LoadAccount, EndPost, table, server
<1>4. ASSUME NEW w \in Workers, NEW n \in Tokens,
             RefreshLost(w, n) \/ \E rotated \in BOOLEAN : RefreshToken(w, n, rotated)
      PROVE  SentAccounted' /\ GivenUpForGood'
  BY <1>4 DEF RefreshToken, RefreshLost, Exchange, EndPost
<1>5. ASSUME NEW c \in Callers
      PROVE  /\ \A n \in Tokens, withdrawn \in SUBSET Tokens :
                  ExchangeCode(c, n, withdrawn) => SentAccounted' /\ GivenUpForGood'
             /\ UpsertAccount(c) \/ Disconnect(c) \/ UnlinkBots(c) \/ DeleteAccount(c)
                  \/ CallFails(c) => SentAccounted' /\ GivenUpForGood'
  BY DEF ExchangeCode, UpsertAccount, Disconnect, UnlinkBots, DeleteAccount, CallFails,
         table, server, workers
<1> QED
  BY <1>1, <1>2, <1>3, <1>4, <1>5 DEF Next

(* With one worker a tweet is given up over a refresh token only when the  *)
(* account is lost: the race of XApiClientService needs a second worker,   *)
(* whatever users, reconnections, X and failures do.                       *)
THEOREM OneWorkerGivesUpForGood ==
  ASSUME \A v, w \in Workers : v = w
  PROVE  Spec => []GivenUpForGood
<1>1. Init => SentAccounted /\ GivenUpForGood
  BY DEF Init, SentAccounted, GivenUpForGood
<1>2. Inv /\ SentAccounted /\ GivenUpForGood /\ [Next]_vars
        => SentAccounted' /\ GivenUpForGood'
  BY SoleStep
<1> QED
  BY <1>1, <1>2, Invariance, PTL DEF Spec
=============================================================================
