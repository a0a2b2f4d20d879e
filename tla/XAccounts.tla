----------------------------- MODULE XAccounts -----------------------------
(***************************************************************************)
(* The OAuth tokens of one X user: the row of x_accounts, the posting      *)
(* workers that refresh an expired access token (XApiClientService), the   *)
(* API calls that connect, reconnect and disconnect the account            *)
(* (XOAuthService), and X's authorization server, which exchanges a        *)
(* refresh token once and may give out its successor with the answer.      *)
(*                                                                         *)
(* A handler in flight is a worker or a caller, and every await is a point *)
(* where others run.  An answer of X is a token: the access token and the  *)
(* refresh token that came with it have one name.                          *)
(***************************************************************************)
EXTENDS FiniteSets

CONSTANTS
  Workers,  \* posting workers of all replicas that post for this account
  Callers,  \* API calls that can be in flight together
  Tokens,   \* bound: answers of X
  RowIds,   \* bound: primary keys the row can have, one after the other
  NoToken,
  NoRow

ASSUME NoTokenAssumption == NoToken \notin Tokens
ASSUME NoRowAssumption == NoRow \notin RowIds

VARIABLES
  account,       \* id of the X user's row, NoRow: not connected
  access,        \* its access token
  refresh,       \* its refresh token
  linked,        \* bots.x_account_id of the bot the workers post for
  expired,       \* access tokens whose stored expiry is less than 60 s away
  issued,        \* tokens X has given out
  live,          \* refresh tokens X accepts
  spent,         \* refresh tokens X has replaced by a successor
  revoked,       \* refresh tokens withdrawn by the user or by X
  lost,          \* spent tokens whose successor never reached the table
  rowsUsed,      \* ids that have been given to a row
  workerAt,      \* the statement each worker executes next
  workerRow,     \* xAccountId
  workerToken,   \* the refresh token it read
  workerAccess,  \* newAccessToken
  workerRefresh, \* newRefreshToken, NoToken: X keeps the one that was sent
  callerAt,      \* the statement each caller executes next
  callerToken,   \* what the callback got for its code
  callerRow      \* the row that is being disconnected

table == <<account, access, refresh, linked, rowsUsed>>
server == <<expired, issued, live, spent, revoked>>
workers == <<workerAt, workerRow, workerToken, workerAccess, workerRefresh>>
callers == <<callerAt, callerToken, callerRow>>
vars == <<account, access, refresh, linked, expired, issued, live, spent,
          revoked, lost, rowsUsed, workerAt, workerRow, workerToken,
          workerAccess, workerRefresh, callerAt, callerToken, callerRow>>

TypeOK ==
  /\ account \in RowIds \cup {NoRow}
  /\ linked \in {account, NoRow}
  /\ access \in Tokens \cup {NoToken}
  /\ refresh \in Tokens \cup {NoToken}
  /\ (account = NoRow) <=> (refresh = NoToken)
  /\ issued \subseteq Tokens
  /\ expired \subseteq issued
  /\ live \subseteq issued
  /\ spent \subseteq issued
  /\ revoked \subseteq issued
  /\ lost \subseteq spent
  /\ rowsUsed \subseteq RowIds
  /\ workerAt \in [Workers -> {"idle", "load", "refresh", "save", "send",
                            "giveUp"}]
  /\ workerRow \in [Workers -> RowIds \cup {NoRow}]
  /\ workerToken \in [Workers -> Tokens \cup {NoToken}]
  /\ workerAccess \in [Workers -> Tokens \cup {NoToken}]
  /\ workerRefresh \in [Workers -> Tokens \cup {NoToken}]
  /\ callerAt \in [Callers -> {"idle", "upsert", "unlink", "delete"}]
  /\ callerToken \in [Callers -> Tokens \cup {NoToken}]
  /\ callerRow \in [Callers -> RowIds \cup {NoRow}]

Init ==
  /\ account = NoRow /\ linked = NoRow
  /\ access = NoToken /\ refresh = NoToken
  /\ expired = {} /\ issued = {} /\ live = {}
  /\ spent = {} /\ revoked = {} /\ lost = {} /\ rowsUsed = {}
  /\ workerAt = [w \in Workers |-> "idle"]
  /\ workerRow = [w \in Workers |-> NoRow]
  /\ workerToken = [w \in Workers |-> NoToken]
  /\ workerAccess = [w \in Workers |-> NoToken]
  /\ workerRefresh = [w \in Workers |-> NoToken]
  /\ callerAt = [c \in Callers |-> "idle"]
  /\ callerToken = [c \in Callers |-> NoToken]
  /\ callerRow = [c \in Callers |-> NoRow]

(* The stored expiry comes within 60 seconds.                              *)
Expire ==
  /\ access \in issued \ expired
  /\ expired' = expired \cup {access}
  /\ UNCHANGED <<table, issued, live, spent, revoked, lost, workers, callers>>

(* The user withdraws the app's access in the settings of X.               *)
Revoke ==
  /\ live # {}
  /\ live' = {}
  /\ revoked' = revoked \cup live
  /\ UNCHANGED <<table, expired, issued, spent, lost, workers, callers>>

-----------------------------------------------------------------------------
(* A worker posts a tweet.                                                 *)

EndPost(w) ==
  /\ workerAt' = [workerAt EXCEPT ![w] = "idle"]
  /\ workerRow' = [workerRow EXCEPT ![w] = NoRow]
  /\ workerToken' = [workerToken EXCEPT ![w] = NoToken]
  /\ workerAccess' = [workerAccess EXCEPT ![w] = NoToken]
  /\ workerRefresh' = [workerRefresh EXCEPT ![w] = NoToken]

(* The worker reads the tweet with the account its bot is linked to.       *)
ReadTweet(w) ==
  /\ workerAt[w] = "idle"
  /\ linked # NoRow
  /\ workerAt' = [workerAt EXCEPT ![w] = "load"]
  /\ workerRow' = [workerRow EXCEPT ![w] = linked]
  /\ UNCHANGED <<table, server, lost, workerToken, workerAccess, workerRefresh,
                 callers>>

(* postTweet reads the row again, and refreshes a token that has expired.  *)
LoadAccount(w) ==
  /\ workerAt[w] = "load"
  /\ IF account = workerRow[w]
     THEN /\ workerAt' = [workerAt EXCEPT ![w] = IF access \in expired
                                                THEN "refresh" ELSE "send"]
          /\ workerToken' = [workerToken EXCEPT ![w] = refresh]
          /\ UNCHANGED <<workerRow, workerAccess, workerRefresh>>
     ELSE EndPost(w)
  /\ UNCHANGED <<table, server, lost, callers>>

(* X takes the refresh token; it gives out a successor, or lets it stand.  *)
Exchange(w, n, rotated) ==
  /\ workerAt[w] = "refresh"
  /\ workerToken[w] \in live
  /\ n \in Tokens \ issued
  /\ issued' = issued \cup {n}
  /\ IF rotated
     THEN /\ live' = (live \ {workerToken[w]}) \cup {n}
          /\ spent' = spent \cup {workerToken[w]}
     ELSE UNCHANGED <<live, spent>>
  /\ UNCHANGED <<table, expired, revoked, callers>>

RefreshToken(w, n, rotated) ==
  /\ Exchange(w, n, rotated)
  /\ workerAt' = [workerAt EXCEPT ![w] = "save"]
  /\ workerAccess' = [workerAccess EXCEPT ![w] = n]
  /\ workerRefresh' = [workerRefresh EXCEPT ![w] = IF rotated THEN n ELSE NoToken]
  /\ UNCHANGED <<lost, workerRow, workerToken>>

(* The answer is lost, or the process dies before it has come.             *)
RefreshLost(w, n) ==
  /\ Exchange(w, n, TRUE)
  /\ lost' = lost \cup {workerToken[w]}
  /\ EndPost(w)

(* Mutants of Save: the successor is dropped; the token that was read is   *)
(* written back.                                                           *)
SaveDropped(w) ==
  /\ workerAt[w] = "save"
  /\ IF account = workerRow[w]
     THEN /\ access' = workerAccess[w]
          /\ workerAt' = [workerAt EXCEPT ![w] = "send"]
          /\ UNCHANGED <<refresh, workerRow, workerToken, workerAccess, workerRefresh>>
     ELSE EndPost(w) /\ UNCHANGED <<access, refresh>>
  /\ UNCHANGED <<account, linked, rowsUsed, server, lost, callers>>

SaveWith(w, token) ==
  /\ workerAt[w] = "save"
  /\ IF account = workerRow[w]
     THEN /\ access' = workerAccess[w]
          /\ refresh' = token
          /\ workerAt' = [workerAt EXCEPT ![w] = "send"]
          /\ UNCHANGED <<workerRow, workerToken, workerAccess, workerRefresh>>
     ELSE EndPost(w) /\ UNCHANGED <<access, refresh>>
  /\ UNCHANGED <<account, linked, rowsUsed, server, lost, callers>>

SaveBack(w) == SaveWith(w, workerToken[w])

(* The row is updated; an update of a row that is gone throws.             *)
Save(w) ==
  SaveWith(w, IF workerRefresh[w] = NoToken THEN refresh ELSE workerRefresh[w])

(* The process dies, or the update fails, after X has answered.            *)
SaveFails(w) ==
  /\ workerAt[w] = "save"
  /\ lost' = IF workerRefresh[w] = NoToken THEN lost
                                           ELSE lost \cup {workerToken[w]}
  /\ EndPost(w)
  /\ UNCHANGED <<table, server, callers>>

(* RFC 6749, 5.2: the answer to a refresh token that is not valid is 400,  *)
(* and a 400 is not retried: the tweet is marked as failed.                *)
RefreshRefused(w) ==
  /\ workerAt[w] = "refresh"
  /\ workerToken[w] \notin live
  /\ workerAt' = [workerAt EXCEPT ![w] = "giveUp"]
  /\ UNCHANGED <<table, server, lost, workerRow, workerToken, workerAccess,
                 workerRefresh, callers>>

(* X takes the tweet or refuses it, a statement throws, the tweet has been *)
(* marked as failed; none of it changes the tokens.                        *)
FinishPost(w) ==
  /\ workerAt[w] \in {"load", "refresh", "send", "giveUp"}
  /\ EndPost(w)
  /\ UNCHANGED <<table, server, lost, callers>>

-----------------------------------------------------------------------------
(* Connecting and disconnecting.                                           *)

EndCall(c) ==
  /\ callerAt' = [callerAt EXCEPT ![c] = "idle"]
  /\ callerToken' = [callerToken EXCEPT ![c] = NoToken]
  /\ callerRow' = [callerRow EXCEPT ![c] = NoRow]

(* The callback exchanges its code; X may withdraw what it gave before.    *)
ExchangeCode(c, n, withdrawn) ==
  /\ callerAt[c] = "idle"
  /\ n \in Tokens \ issued
  /\ withdrawn \in {{}, live}
  /\ issued' = issued \cup {n}
  /\ live' = (live \ withdrawn) \cup {n}
  /\ revoked' = revoked \cup withdrawn
  /\ callerAt' = [callerAt EXCEPT ![c] = "upsert"]
  /\ callerToken' = [callerToken EXCEPT ![c] = n]
  /\ UNCHANGED <<table, expired, spent, lost, workers, callerRow>>

(* The row of this X user is updated, or created under a new id.           *)
UpsertAccount(c) ==
  /\ callerAt[c] = "upsert"
  /\ IF account # NoRow
     THEN UNCHANGED <<account, rowsUsed>>
     ELSE \E id \in RowIds \ rowsUsed :
            /\ account' = id
            /\ rowsUsed' = rowsUsed \cup {id}
  /\ access' = callerToken[c]
  /\ refresh' = callerToken[c]
  /\ EndCall(c)
  /\ UNCHANGED <<linked, server, lost, workers>>

(* Linking a bot to a row that is gone throws: the key is a foreign key.   *)
LinkBot ==
  /\ account # NoRow
  /\ linked' = account
  /\ UNCHANGED <<account, access, refresh, rowsUsed, server, lost, workers,
                 callers>>

Disconnect(c) ==
  /\ callerAt[c] = "idle"
  /\ account # NoRow
  /\ callerAt' = [callerAt EXCEPT ![c] = "unlink"]
  /\ callerRow' = [callerRow EXCEPT ![c] = account]
  /\ UNCHANGED <<table, server, lost, workers, callerToken>>

UnlinkBots(c) ==
  /\ callerAt[c] = "unlink"
  /\ linked' = IF linked = callerRow[c] THEN NoRow ELSE linked
  /\ callerAt' = [callerAt EXCEPT ![c] = "delete"]
  /\ UNCHANGED <<account, access, refresh, rowsUsed, server, lost, workers,
                 callerToken, callerRow>>

(* Mutant of DeleteAccount: a bot that was linked since stays linked.      *)
DeleteAccountLinked(c) ==
  /\ callerAt[c] = "delete"
  /\ IF account = callerRow[c]
     THEN account' = NoRow /\ access' = NoToken /\ refresh' = NoToken
     ELSE UNCHANGED <<account, access, refresh>>
  /\ EndCall(c)
  /\ UNCHANGED <<linked, rowsUsed, server, lost, workers>>

(* The delete unlinks a bot that was linked since; of a row that is gone   *)
(* it throws.                                                              *)
DeleteAccount(c) ==
  /\ callerAt[c] = "delete"
  /\ IF account = callerRow[c]
     THEN /\ account' = NoRow /\ linked' = NoRow
          /\ access' = NoToken /\ refresh' = NoToken
     ELSE UNCHANGED <<account, linked, access, refresh>>
  /\ EndCall(c)
  /\ UNCHANGED <<rowsUsed, server, lost, workers>>

(* X does not say who the user is, a statement throws, the process dies.   *)
CallFails(c) ==
  /\ callerAt[c] # "idle"
  /\ EndCall(c)
  /\ UNCHANGED <<table, server, lost, workers>>

-----------------------------------------------------------------------------
Next ==
  \/ Expire
  \/ Revoke
  \/ LinkBot
  \/ \E w \in Workers :
       \/ ReadTweet(w)
       \/ LoadAccount(w)
       \/ \E n \in Tokens, rotated \in BOOLEAN : RefreshToken(w, n, rotated)
       \/ \E n \in Tokens : RefreshLost(w, n)
       \/ Save(w)
       \/ SaveFails(w)
       \/ RefreshRefused(w)
       \/ FinishPost(w)
  \/ \E c \in Callers :
       \/ \E n \in Tokens, withdrawn \in SUBSET Tokens : ExchangeCode(c, n, withdrawn)
       \/ UpsertAccount(c)
       \/ Disconnect(c)
       \/ UnlinkBots(c)
       \/ DeleteAccount(c)
       \/ CallFails(c)

Spec == Init /\ [][Next]_vars

-----------------------------------------------------------------------------
(* Whatever workers, reconnections and disconnections race, the stored     *)
(* refresh token stays good: X takes it, or it was withdrawn, or the       *)
(* worker that has its successor is about to save it, or an answer of X    *)
(* never reached the table.                                                *)
StoredTokenAccounted ==
  account # NoRow =>
    \/ refresh \in live \cup revoked \cup lost
    \/ \E w \in Workers : /\ workerAt[w] = "save"
                          /\ workerRow[w] = account
                          /\ workerToken[w] = refresh
                          /\ workerRefresh[w] # NoToken

(* A save never puts back a token that X has replaced already, not even    *)
(* when it comes after a reconnection.                                     *)
NeverRollsBack ==
  [][refresh' # refresh => refresh' \notin spent']_vars

(* What the workers have read of the table, and who carries what X has     *)
(* answered until it is in the table.                                      *)
ReadTokens == {workerToken[w] : w \in Workers} \ {NoToken}
Granted == {callerToken[c] : c \in {d \in Callers : callerAt[d] = "upsert"}}
Renewals ==
  {<<workerToken[w], workerRefresh[w]>> :
     w \in {v \in Workers : workerAt[v] = "save" /\ workerRefresh[v] # NoToken}}

(* A bot that is linked to a row posts for the account.                    *)
Serving == linked # NoRow

(* The handlers keep the promises of TokenCustody: a token is stored once  *)
(* at most and exchanged only after that, the successor of the stored one  *)
(* is carried or counted as lost, and no bot is linked to a row that is    *)
(* gone.                                                                   *)
Custody == INSTANCE TokenCustody WITH
  accepted <- live, replaced <- spent, withdrawn <- revoked, stored <- refresh,
  read <- ReadTokens, granted <- Granted, renewals <- Renewals,
  serving <- Serving

CustodyRefined == Custody!CustodySpec

(* posting-errors.ts:70: a 400 is a "malformed tweet": a tweet is given up *)
(* over a refresh token only if the account is lost with it, and not when  *)
(* another worker has its successor or has saved it already.               *)
GivenUpForGood ==
  \A w \in Workers : workerAt[w] = "giveUp" =>
    workerToken[w] \in revoked \cup lost
=============================================================================
