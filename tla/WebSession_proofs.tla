------------------------- MODULE WebSession_proofs --------------------------
(***************************************************************************)
(* For any number of tabs, calls and faults: a logout is final, and nobody *)
(* is signed out by an interleaving.                                       *)
(***************************************************************************)
EXTENDS WebSession, TLAPS

USE SessionAssumption

(* After a logout nothing can store tokens before the next login.          *)
Quiet == quiet => stored = "none" /\ \A t \in Tabs : ~Storing(t)

(* A call that was sent again has a new token, which outlives it; a user   *)
(* is only asked for with a token.                                         *)
Fresh ==
  \A t \in Tabs :
    /\ \A c \in Calls : call[t][c] = "resent" => bearer[t][c] = "good"
    /\ call[t]["me"] = "sent" => bearer[t]["me"] # "none"

SessionInv == SessionTypeOK /\ Quiet /\ Fresh

(* The calls of a tab and the tokens they were sent with.                  *)
CallsFit(calls, tokens, refreshes) ==
  /\ calls \in [Tabs -> [Calls -> {"no", "sent", "waiting", "resent"}]]
  /\ tokens \in [Tabs -> [Calls -> {"none", "good", "stale"}]]
  /\ \A t \in Tabs, c \in Calls :
       /\ calls[t][c] \in {"no", "waiting"} => tokens[t][c] = "none"
       /\ calls[t][c] = "waiting" => refreshes[t] # "no"

LEMMA SendFits ==
  ASSUME SessionTypeOK, NEW t \in Tabs, NEW c \in Calls, Send(t, c),
         refreshing' = refreshing
  PROVE  CallsFit(call', bearer', refreshing')
BY DEF SessionTypeOK, Send, Access, TokenStates, CallsFit, Calls

LEMMA DoneFits ==
  ASSUME SessionTypeOK, NEW t \in Tabs, NEW c \in Calls, Done(t, c),
         refreshing' = refreshing
  PROVE  CallsFit(call', bearer', refreshing')
BY DEF SessionTypeOK, Done, CallsFit, Calls

(* A call that is refused fails, ends the session, or waits for a refresh. *)
Waits(t, c) ==
  /\ refreshing[t] # "no" \/ stored # "none"
  /\ call' = [call EXCEPT ![t][c] = "waiting"]
  /\ bearer' = [bearer EXCEPT ![t][c] = "none"]
  /\ refreshing' = [refreshing EXCEPT ![t] = IF @ = "no" THEN stored ELSE @]
  /\ UNCHANGED <<stored, page, store, quiet, sessionFaults>>

LEMMA UnauthorizedCases ==
  ASSUME NEW t \in Tabs, NEW c \in Calls, Unauthorized(t, c)
  PROVE  /\ InFlight(t, c) /\ Refuses(t, c) /\ sessionFaults' = sessionFaults
         /\ \/ Throws(t, c) /\ (call[t][c] # "sent" \/ bearer[t][c] = "none")
            \/ Expired(t) /\ stored = "none"
            \/ Waits(t, c)
BY DEF Unauthorized, RefreshFor, Waits

LEMMA TypeStep ==
  ASSUME SessionTypeOK, [SessionNext]_sessionVars
  PROVE  SessionTypeOK'
<1> USE DEF SessionTypeOK, TokenStates, Calls
<1>1. ASSUME AccessExpires
      PROVE  SessionTypeOK'
  BY <1>1 DEF AccessExpires, AgeTokens, Aged, Access
<1>2. ASSUME RefreshExpires
      PROVE  SessionTypeOK'
  BY <1>2 DEF RefreshExpires, AgeTokens, Aged, Access
<1>3. ASSUME NEW t \in Tabs, NEW to \in {"login", "guide", "dashboard"}, FollowLink(t, to)
      PROVE  SessionTypeOK'
  <2>1. CallsFit(call', bearer', refreshing')
    <3>1. CASE /\ call' = call /\ bearer' = bearer
      BY <1>3, <3>1 DEF FollowLink, CallsFit
    <3>2. CASE Send(t, "me")
      BY <1>3, <3>2, SendFits DEF FollowLink
    <3> QED
      BY <1>3, <3>1, <3>2 DEF FollowLink, FetchUser
  <2>2. store' \in [Tabs -> {"loading", "in", "out"}]
    BY <1>3 DEF FollowLink, FetchUser
  <2> QED
    BY <1>3, <2>1, <2>2 DEF FollowLink, CallsFit
<1>4. ASSUME NEW t \in Tabs, NEW to \in {"login", "guide", "dashboard"}, Reload(t, to)
      PROVE  SessionTypeOK'
  BY <1>4 DEF Reload, Load, Access, NoCall, NoBearer
<1>5. ASSUME NEW t \in Tabs, Guard(t)
      PROVE  SessionTypeOK'
  BY <1>5 DEF Guard
<1>6. ASSUME NEW t \in Tabs, Submit(t)
      PROVE  SessionTypeOK'
  <2>1. CallsFit(call', bearer', refreshing')
    BY <1>6, SendFits DEF Submit
  <2> QED
    BY <1>6, <2>1 DEF Submit, CallsFit
<1>7. ASSUME NEW t \in Tabs, AskForData(t)
      PROVE  SessionTypeOK'
  BY <1>7 DEF AskForData, Send, Access
<1>8. ASSUME NEW t \in Tabs, Logout(t)
      PROVE  SessionTypeOK'
  BY <1>8 DEF Logout
<1>9. ASSUME NEW t \in Tabs, LoggedIn(t)
      PROVE  SessionTypeOK'
  BY <1>9 DEF LoggedIn, InFlight
<1>10. ASSUME NEW t \in Tabs, ProfileRead(t)
      PROVE  SessionTypeOK'
  BY <1>10 DEF ProfileRead, InFlight, Accepts, Access
<1>11. ASSUME NEW t \in Tabs, UserRead(t)
      PROVE  SessionTypeOK'
  BY <1>11 DEF UserRead, InFlight, Accepts, Done
<1>12. ASSUME NEW t \in Tabs, DataRead(t)
      PROVE  SessionTypeOK'
  BY <1>12 DEF DataRead, InFlight, Accepts, Done
<1>13. ASSUME NEW t \in Tabs, NEW c \in Calls, Unauthorized(t, c)
      PROVE  SessionTypeOK'
  <2>1. CASE Throws(t, c)
    <3>1. CallsFit(call', bearer', refreshing')
      BY <2>1, DoneFits DEF Throws
    <3>2. stored' \in TokenStates /\ store' \in [Tabs -> {"loading", "in", "out"}]
      BY <2>1 DEF Throws
    <3> QED
      BY <1>13, <2>1, <3>1, <3>2, UnauthorizedCases DEF Throws, CallsFit
  <2>2. CASE Expired(t)
    BY <1>13, <2>2, UnauthorizedCases DEF Expired, NoCall, NoBearer
  <2>3. CASE Waits(t, c)
    <3>1. CallsFit(call', bearer', refreshing')
      BY <2>3 DEF Waits, CallsFit
    <3>2. refreshing' \in [Tabs -> {"no", "good", "stale", "dead"}]
      BY <2>3 DEF Waits
    <3> QED
      BY <2>3, <3>1, <3>2 DEF Waits, CallsFit
  <2> QED
    BY <1>13, <2>1, <2>2, <2>3, UnauthorizedCases
<1>14. ASSUME NEW t \in Tabs, NEW c \in Calls, CallLost(t, c)
      PROVE  SessionTypeOK'
  <2>1. CallsFit(call', bearer', refreshing')
    BY <1>14, DoneFits DEF CallLost, Throws
  <2>2. stored' \in TokenStates /\ store' \in [Tabs -> {"loading", "in", "out"}]
    BY <1>14 DEF CallLost, Throws
  <2>3. sessionFaults' \in 0..MaxSessionFaults
    BY <1>14 DEF CallLost
  <2> QED
    BY <1>14, <2>1, <2>2, <2>3 DEF CallLost, Throws, CallsFit
<1>15. ASSUME NEW t \in Tabs, Refreshed(t)
      PROVE  SessionTypeOK'
  BY <1>15 DEF Refreshed, Resend, ResendWith, Waiting
<1>16. ASSUME NEW t \in Tabs, RefreshRefused(t)
      PROVE  SessionTypeOK'
  BY <1>16 DEF RefreshRefused, Expired, NoCall, NoBearer
<1>17. ASSUME NEW t \in Tabs, RefreshLost(t)
      PROVE  SessionTypeOK'
  BY <1>17 DEF RefreshLost, Expired, NoCall, NoBearer
<1>18. CASE UNCHANGED sessionVars
  BY <1>18 DEF sessionVars
<1> HIDE DEF SessionTypeOK, TokenStates
<1> QED
  BY <1>1, <1>2, <1>3, <1>4, <1>5, <1>6, <1>7, <1>8, <1>9, <1>10, <1>11, <1>12, <1>13, <1>14, <1>15, <1>16, <1>17, <1>18
     DEF SessionNext, Answered, RefreshAnswered

LEMMA QuietStep ==
  ASSUME SessionTypeOK, Quiet, [SessionNext]_sessionVars
  PROVE  Quiet'
<1> USE DEF SessionTypeOK, TokenStates, Calls, Storing
<1>1. ASSUME AccessExpires
      PROVE  Quiet'
  BY <1>1 DEF AccessExpires, AgeTokens, Aged, Access, Quiet
<1>2. ASSUME RefreshExpires
      PROVE  Quiet'
  BY <1>2 DEF RefreshExpires, AgeTokens, Aged, Access, Quiet
<1>3. ASSUME NEW t \in Tabs, NEW to \in {"login", "guide", "dashboard"}, FollowLink(t, to)
      PROVE  Quiet'
  BY <1>3 DEF FollowLink, FetchUser, Send, Access, Quiet
<1>4. ASSUME NEW t \in Tabs, NEW to \in {"login", "guide", "dashboard"}, Reload(t, to)
      PROVE  Quiet'
  BY <1>4 DEF Reload, Load, Access, NoCall, NoBearer, Quiet
<1>5. ASSUME NEW t \in Tabs, Guard(t)
      PROVE  Quiet'
  BY <1>5 DEF Guard, Quiet
<1>6. ASSUME NEW t \in Tabs, Submit(t)
      PROVE  Quiet'
  BY <1>6 DEF Submit, Send, Access, Quiet
<1>7. ASSUME NEW t \in Tabs, AskForData(t)
      PROVE  Quiet'
  BY <1>7 DEF AskForData, Send, Access, Quiet
<1>8. ASSUME NEW t \in Tabs, Logout(t)
      PROVE  Quiet'
  BY <1>8 DEF Logout, Quiet
<1>9. ASSUME NEW t \in Tabs, LoggedIn(t)
      PROVE  Quiet'
  BY <1>9 DEF LoggedIn, InFlight, Quiet
<1>10. ASSUME NEW t \in Tabs, ProfileRead(t)
      PROVE  Quiet'
  BY <1>10 DEF ProfileRead, InFlight, Accepts, Access, Quiet
<1>11. ASSUME NEW t \in Tabs, UserRead(t)
      PROVE  Quiet'
  BY <1>11 DEF UserRead, InFlight, Accepts, Done, Quiet
<1>12. ASSUME NEW t \in Tabs, DataRead(t)
      PROVE  Quiet'
  BY <1>12 DEF DataRead, InFlight, Accepts, Done, Quiet
<1>13. ASSUME NEW t \in Tabs, NEW c \in Calls, Unauthorized(t, c)
      PROVE  Quiet'
  <2>1. CASE Throws(t, c)
    <3>1. call[t][c] # "no"
      BY <1>13, UnauthorizedCases DEF InFlight
    <3> QED
      BY <2>1, <3>1 DEF Throws, Done, Quiet
  <2>2. CASE Expired(t)
    BY <1>13, <2>2, UnauthorizedCases DEF Expired, NoCall, NoBearer, Quiet
  <2>3. CASE Waits(t, c)
    BY <2>3 DEF Waits, Quiet
  <2> QED
    BY <1>13, <2>1, <2>2, <2>3, UnauthorizedCases
<1>14. ASSUME NEW t \in Tabs, NEW c \in Calls, CallLost(t, c)
      PROVE  Quiet'
  BY <1>14 DEF CallLost, InFlight, Throws, Done, Quiet
<1>15. ASSUME NEW t \in Tabs, Refreshed(t)
      PROVE  Quiet'
  BY <1>15 DEF Refreshed, Resend, ResendWith, Waiting, Quiet
<1>16. ASSUME NEW t \in Tabs, RefreshRefused(t)
      PROVE  Quiet'
  BY <1>16 DEF RefreshRefused, Expired, NoCall, NoBearer, Quiet
<1>17. ASSUME NEW t \in Tabs, RefreshLost(t)
      PROVE  Quiet'
  BY <1>17 DEF RefreshLost, Expired, NoCall, NoBearer, Quiet
<1>18. CASE UNCHANGED sessionVars
  BY <1>18 DEF sessionVars, Quiet
<1> QED
  BY <1>1, <1>2, <1>3, <1>4, <1>5, <1>6, <1>7, <1>8, <1>9, <1>10, <1>11, <1>12, <1>13, <1>14, <1>15, <1>16, <1>17, <1>18
     DEF SessionNext, Answered, RefreshAnswered

LEMMA FreshStep ==
  ASSUME SessionTypeOK, Fresh, [SessionNext]_sessionVars
  PROVE  Fresh'
<1> USE DEF SessionTypeOK, TokenStates, Calls
<1>1. ASSUME AccessExpires
      PROVE  Fresh'
  BY <1>1 DEF AccessExpires, AgeTokens, Aged, Access, Fresh
<1>2. ASSUME RefreshExpires
      PROVE  Fresh'
  BY <1>2 DEF RefreshExpires, AgeTokens, Aged, Access, Fresh
<1>3. ASSUME NEW t \in Tabs, NEW to \in {"login", "guide", "dashboard"}, FollowLink(t, to)
      PROVE  Fresh'
  BY <1>3 DEF FollowLink, FetchUser, Send, Access, Fresh
<1>4. ASSUME NEW t \in Tabs, NEW to \in {"login", "guide", "dashboard"}, Reload(t, to)
      PROVE  Fresh'
  BY <1>4 DEF Reload, Load, Access, NoCall, NoBearer, Fresh
<1>5. ASSUME NEW t \in Tabs, Guard(t)
      PROVE  Fresh'
  BY <1>5 DEF Guard, Fresh
<1>6. ASSUME NEW t \in Tabs, Submit(t)
      PROVE  Fresh'
  BY <1>6 DEF Submit, Send, Access, Fresh
<1>7. ASSUME NEW t \in Tabs, AskForData(t)
      PROVE  Fresh'
  BY <1>7 DEF AskForData, Send, Access, Fresh
<1>8. ASSUME NEW t \in Tabs, Logout(t)
      PROVE  Fresh'
  BY <1>8 DEF Logout, Fresh
<1>9. ASSUME NEW t \in Tabs, LoggedIn(t)
      PROVE  Fresh'
  BY <1>9 DEF LoggedIn, InFlight, Fresh
<1>10. ASSUME NEW t \in Tabs, ProfileRead(t)
      PROVE  Fresh'
  BY <1>10 DEF ProfileRead, InFlight, Accepts, Access, Fresh
<1>11. ASSUME NEW t \in Tabs, UserRead(t)
      PROVE  Fresh'
  BY <1>11 DEF UserRead, InFlight, Accepts, Done, Fresh
<1>12. ASSUME NEW t \in Tabs, DataRead(t)
      PROVE  Fresh'
  BY <1>12 DEF DataRead, InFlight, Accepts, Done, Fresh
<1>13. ASSUME NEW t \in Tabs, NEW c \in Calls, Unauthorized(t, c)
      PROVE  Fresh'
  <2>1. CASE Throws(t, c)
    BY <2>1 DEF Throws, Done, Fresh
  <2>2. CASE Expired(t)
    BY <1>13, <2>2, UnauthorizedCases DEF Expired, NoCall, NoBearer, Fresh
  <2>3. CASE Waits(t, c)
    BY <2>3 DEF Waits, Fresh
  <2> QED
    BY <1>13, <2>1, <2>2, <2>3, UnauthorizedCases
<1>14. ASSUME NEW t \in Tabs, NEW c \in Calls, CallLost(t, c)
      PROVE  Fresh'
  BY <1>14 DEF CallLost, InFlight, Throws, Done, Fresh
<1>15. ASSUME NEW t \in Tabs, Refreshed(t)
      PROVE  Fresh'
  BY <1>15 DEF Refreshed, Resend, ResendWith, Waiting, Fresh
<1>16. ASSUME NEW t \in Tabs, RefreshRefused(t)
      PROVE  Fresh'
  BY <1>16 DEF RefreshRefused, Expired, NoCall, NoBearer, Fresh
<1>17. ASSUME NEW t \in Tabs, RefreshLost(t)
      PROVE  Fresh'
  BY <1>17 DEF RefreshLost, Expired, NoCall, NoBearer, Fresh
<1>18. CASE UNCHANGED sessionVars
  BY <1>18 DEF sessionVars, Fresh
<1> QED
  BY <1>1, <1>2, <1>3, <1>4, <1>5, <1>6, <1>7, <1>8, <1>9, <1>10, <1>11, <1>12, <1>13, <1>14, <1>15, <1>16, <1>17, <1>18
     DEF SessionNext, Answered, RefreshAnswered

LEMMA InitInv == SessionInit => SessionInv
BY DEF SessionInit, SessionInv, SessionTypeOK, Quiet, Fresh, Storing, TokenStates, Calls,
       NoCall, NoBearer

(* The inductive invariant holds in every reachable state.                 *)
THEOREM SessionInvariance == SessionSpec => []SessionInv
<1>1. SessionInv /\ [SessionNext]_sessionVars => SessionInv'
  BY TypeStep, QuietStep, FreshStep DEF SessionInv
<1> QED
  BY InitInv, <1>1, PTL DEF SessionSpec

(* Every variable keeps its type, and no call waits for a refresh that has *)
(* ended.                                                                  *)
THEOREM SessionTypes == SessionSpec => []SessionTypeOK
<1>1. SessionInv => SessionTypeOK
  BY DEF SessionInv
<1> QED
  BY SessionInvariance, <1>1, PTL

(* Calls that were sent before a logout do not bring the session back.     *)
THEOREM LogoutIsFinal == SessionSpec => []LogoutFinal
<1>1. SessionInv => LogoutFinal
  BY DEF SessionInv, Quiet, LogoutFinal
<1> QED
  BY SessionInvariance, <1>1, PTL

Ends ==
  stored # "none" /\ stored' = "none" =>
    \/ \E t \in Tabs : Logout(t)
    \/ \E t \in Tabs : refreshing[t] = "dead"
    \/ sessionFaults' > sessionFaults

LEMMA EndsStep ==
  ASSUME SessionTypeOK, Fresh, [SessionNext]_sessionVars
  PROVE  Ends
<1> USE DEF SessionTypeOK, TokenStates, Calls
<1>1. ASSUME AccessExpires
      PROVE  Ends
  BY <1>1 DEF AccessExpires, AgeTokens, Aged, Access, Fresh, Ends
<1>2. ASSUME RefreshExpires
      PROVE  Ends
  BY <1>2 DEF RefreshExpires, AgeTokens, Aged, Access, Fresh, Ends
<1>3. ASSUME NEW t \in Tabs, NEW to \in {"login", "guide", "dashboard"}, FollowLink(t, to)
      PROVE  Ends
  BY <1>3 DEF FollowLink, FetchUser, Send, Access, Fresh, Ends
<1>4. ASSUME NEW t \in Tabs, NEW to \in {"login", "guide", "dashboard"}, Reload(t, to)
      PROVE  Ends
  BY <1>4 DEF Reload, Load, Access, NoCall, NoBearer, Fresh, Ends
<1>5. ASSUME NEW t \in Tabs, Guard(t)
      PROVE  Ends
  BY <1>5 DEF Guard, Fresh, Ends
<1>6. ASSUME NEW t \in Tabs, Submit(t)
      PROVE  Ends
  BY <1>6 DEF Submit, Send, Access, Fresh, Ends
<1>7. ASSUME NEW t \in Tabs, AskForData(t)
      PROVE  Ends
  BY <1>7 DEF AskForData, Send, Access, Fresh, Ends
<1>8. ASSUME NEW t \in Tabs, Logout(t)
      PROVE  Ends
  BY <1>8 DEF Logout, Fresh, Ends
<1>9. ASSUME NEW t \in Tabs, LoggedIn(t)
      PROVE  Ends
  BY <1>9 DEF LoggedIn, InFlight, Fresh, Ends
<1>10. ASSUME NEW t \in Tabs, ProfileRead(t)
      PROVE  Ends
  BY <1>10 DEF ProfileRead, InFlight, Accepts, Access, Fresh, Ends
<1>11. ASSUME NEW t \in Tabs, UserRead(t)
      PROVE  Ends
  BY <1>11 DEF UserRead, InFlight, Accepts, Done, Fresh, Ends
<1>12. ASSUME NEW t \in Tabs, DataRead(t)
      PROVE  Ends
  BY <1>12 DEF DataRead, InFlight, Accepts, Done, Fresh, Ends
<1>13. ASSUME NEW t \in Tabs, NEW c \in Calls, Unauthorized(t, c)
      PROVE  Ends
  BY <1>13 DEF Unauthorized, InFlight, Refuses, RefreshFor, Throws, Done, Expired, NoCall, NoBearer, Fresh, Ends
<1>14. ASSUME NEW t \in Tabs, NEW c \in Calls, CallLost(t, c)
      PROVE  Ends
  BY <1>14 DEF CallLost, InFlight, Throws, Done, Fresh, Ends
<1>15. ASSUME NEW t \in Tabs, Refreshed(t)
      PROVE  Ends
  BY <1>15 DEF Refreshed, Resend, ResendWith, Waiting, Fresh, Ends
<1>16. ASSUME NEW t \in Tabs, RefreshRefused(t)
      PROVE  Ends
  BY <1>16 DEF RefreshRefused, Expired, NoCall, NoBearer, Fresh, Ends
<1>17. ASSUME NEW t \in Tabs, RefreshLost(t)
      PROVE  Ends
  BY <1>17 DEF RefreshLost, Expired, NoCall, NoBearer, Fresh, Ends
<1>18. CASE UNCHANGED sessionVars
  BY <1>18 DEF sessionVars, Fresh, Ends
<1> QED
  BY <1>1, <1>2, <1>3, <1>4, <1>5, <1>6, <1>7, <1>8, <1>9, <1>10, <1>11, <1>12, <1>13, <1>14, <1>15, <1>16, <1>17, <1>18
     DEF SessionNext, Answered, RefreshAnswered

(* A user who is signed in stays so until a logout, an expired refresh     *)
(* token or a failed call.                                                 *)
THEOREM StaysSignedIn == SessionSpec => SignedInStays
<1>1. SessionInv /\ [SessionNext]_sessionVars => [Ends]_sessionVars
  BY EndsStep DEF SessionInv
<1> QED
  BY SessionInvariance, <1>1, PTL DEF SessionSpec, SignedInStays, Ends
=============================================================================
