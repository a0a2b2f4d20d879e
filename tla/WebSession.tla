----------------------------- MODULE WebSession -----------------------------
(***************************************************************************)
(* The session of one user in the browser: the tabs that share the tokens  *)
(* in localStorage (api.ts), the store each tab keeps of the user          *)
(* (auth-store.ts), the guard of the dashboard (auth-guard.tsx), and the   *)
(* endpoints that give out tokens.                                         *)
(*                                                                         *)
(* A tab runs one handler at a time; every fetch is a point where other    *)
(* handlers and other tabs run.  A token is its state: the access token is *)
(* good or has expired (stale), and so has, seven days later, the refresh  *)
(* token (dead).  The endpoints accept every token that has not expired.   *)
(***************************************************************************)
EXTENDS Naturals, FiniteSets

CONSTANTS
  Tabs,             \* tabs of one browser
  MaxSessionFaults, \* bound: calls that are lost or end with a server error
  MaxCalls          \* bound: calls that are under way in all tabs

ASSUME SessionAssumption == MaxSessionFaults \in Nat /\ MaxCalls \in Nat

VARIABLES
  stored,      \* localStorage auth_tokens
  page,        \* the page a tab shows; login stands for the public forms
  store,       \* useAuthStore: isLoading, isAuthenticated, or neither
  call,        \* calls of request() that are under way in a tab
  bearer,      \* the access token each of them was sent with
  refreshing,  \* refreshPromise: the tokens that are being refreshed, or "no"
  quiet,       \* observer: logged out while nothing could store tokens again
  sessionFaults

sessionVars ==
  <<stored, page, store, call, bearer, refreshing, quiet, sessionFaults>>

TokenStates == {"none", "good", "stale", "dead"}

(* The access token of a pair of tokens: it has expired in both last states.*)
Access(tokens) == IF tokens = "dead" THEN "stale" ELSE tokens

(* What a tab calls the API for: to log in or register, then to read the   *)
(* profile (login, register); to find out who is logged in (fetchUser);    *)
(* for the data of the dashboard.                                          *)
Calls == {"submit", "profile", "me", "data"}

(* Types; and no call waits for a refresh that has ended.                  *)
SessionTypeOK ==
  /\ stored \in TokenStates
  /\ page \in [Tabs -> {"login", "guide", "dashboard"}]
  /\ store \in [Tabs -> {"loading", "in", "out"}]
  /\ call \in [Tabs -> [Calls -> {"no", "sent", "waiting", "resent"}]]
  /\ bearer \in [Tabs -> [Calls -> {"none", "good", "stale"}]]
  /\ refreshing \in [Tabs -> {"no", "good", "stale", "dead"}]
  /\ quiet \in BOOLEAN
  /\ sessionFaults \in 0..MaxSessionFaults
  /\ \A t \in Tabs, c \in Calls :
       /\ call[t][c] \in {"no", "waiting"} => bearer[t][c] = "none"
       /\ call[t][c] = "waiting" => refreshing[t] # "no"

NoCall == [c \in Calls |-> "no"]
NoBearer == [c \in Calls |-> "none"]

SessionInit ==
  /\ stored = "none"
  /\ page = [t \in Tabs |-> "login"]
  /\ store = [t \in Tabs |-> "loading"]
  /\ call = [t \in Tabs |-> NoCall]
  /\ bearer = [t \in Tabs |-> NoBearer]
  /\ refreshing = [t \in Tabs |-> "no"]
  /\ quiet = TRUE
  /\ sessionFaults = 0

(* Tokens are about to be stored: a login or a refresh is under way.       *)
Storing(t) == call[t]["submit"] # "no" \/ refreshing[t] # "no"

-----------------------------------------------------------------------------
(* Time.  A token outlives the calls that are sent right after it came.    *)

Aged(x) == IF x = "good" THEN "stale" ELSE IF x = "stale" THEN "dead" ELSE x

AgeTokens(from) ==
  LET Age(x) == IF x = from THEN Aged(x) ELSE x IN
  /\ stored' = Age(stored)
  /\ bearer' = [t \in Tabs |-> [c \in Calls |-> Access(Age(bearer[t][c]))]]
  /\ refreshing' = [t \in Tabs |-> Age(refreshing[t])]
  /\ UNCHANGED <<page, store, call, quiet, sessionFaults>>

AccessExpires ==
  /\ \A t \in Tabs : call[t]["profile"] = "no" /\ \A c \in Calls : call[t][c] # "resent"
  /\ AgeTokens("good")

RefreshExpires == AgeTokens("stale")

-----------------------------------------------------------------------------
(* The pages.                                                              *)

UnderWay == {tc \in Tabs \X Calls : call[tc[1]][tc[2]] # "no"}

(* request(): the access token that is stored now goes with the call.      *)
Send(t, c) ==
  /\ Cardinality(UnderWay) < MaxCalls
  /\ call' = [call EXCEPT ![t][c] = "sent"]
  /\ bearer' = [bearer EXCEPT ![t][c] = Access(stored)]

(* Mutant of FetchUser: without a token the store keeps loading.           *)
FetchUserLoading(t) ==
  IF stored # "none" /\ call[t]["me"] = "no"
  THEN Send(t, "me") /\ UNCHANGED store
  ELSE UNCHANGED <<store, call, bearer>>

(* fetchUser, which a page calls when it is mounted.  Bound: a tab does    *)
(* not ask again while it waits for the answer.                            *)
FetchUser(t) ==
  IF stored = "none"
  THEN /\ store' = [store EXCEPT ![t] = "out"]
       /\ UNCHANGED <<call, bearer>>
  ELSE /\ IF call[t]["me"] = "no"
          THEN Send(t, "me")
          ELSE UNCHANGED <<call, bearer>>
       /\ UNCHANGED store

(* A link inside the application: the scripts of the tab run on.           *)
FollowLink(t, to) ==
  /\ to \in {"login", "guide", "dashboard"} \ {page[t]}
  /\ page' = [page EXCEPT ![t] = to]
  /\ IF to = "login" THEN UNCHANGED <<store, call, bearer>> ELSE FetchUser(t)
  /\ UNCHANGED <<stored, refreshing, quiet, sessionFaults>>

(* The page is loaded: what the scripts of the tab knew, and the answers   *)
(* they waited for, are lost.                                              *)
Load(t, to) ==
  LET asks == to # "login" /\ stored # "none" IN
  /\ page' = [page EXCEPT ![t] = to]
  /\ store' = [store EXCEPT ![t] = IF to # "login" /\ stored = "none" THEN "out"
                                                                     ELSE "loading"]
  /\ call' = [call EXCEPT ![t] = [NoCall EXCEPT !["me"] = IF asks THEN "sent" ELSE "no"]]
  /\ bearer' = [bearer EXCEPT ![t] = [NoBearer EXCEPT !["me"] = IF asks THEN Access(stored)
                                                                        ELSE "none"]]
  /\ refreshing' = [refreshing EXCEPT ![t] = "no"]

Reload(t, to) ==
  /\ Cardinality({tc \in UnderWay : tc[1] # t}) < MaxCalls
  /\ to \in {"login", "guide", "dashboard"}
  /\ Load(t, to)
  /\ UNCHANGED <<stored, quiet, sessionFaults>>

(* AuthGuard sends the user to the login page.                             *)
Guard(t) ==
  /\ page[t] = "dashboard"
  /\ store[t] = "out"
  /\ page' = [page EXCEPT ![t] = "login"]
  /\ UNCHANGED <<stored, store, call, bearer, refreshing, quiet, sessionFaults>>

(* The form of the login or the register page.                             *)
Submit(t) ==
  /\ page[t] = "login"
  /\ call[t]["submit"] = "no" /\ call[t]["profile"] = "no"
  /\ Send(t, "submit")
  /\ quiet' = FALSE
  /\ UNCHANGED <<stored, page, store, refreshing, sessionFaults>>

(* A query or a mutation of a page that the guard shows.                   *)
AskForData(t) ==
  /\ page[t] = "dashboard" /\ store[t] = "in"
  /\ call[t]["data"] = "no"
  /\ Send(t, "data")
  /\ UNCHANGED <<stored, page, store, refreshing, quiet, sessionFaults>>

Logout(t) ==
  /\ page[t] = "dashboard" /\ store[t] = "in"
  /\ stored' = "none"
  /\ store' = [store EXCEPT ![t] = "out"]
  /\ quiet' = \A u \in Tabs : ~Storing(u)
  /\ UNCHANGED <<page, call, bearer, refreshing, sessionFaults>>
-----------------------------------------------------------------------------
(* Answers.                                                                *)

InFlight(t, c) == call[t][c] \in {"sent", "resent"}

(* The endpoint takes a login whose password is right, and any other call  *)
(* whose access token is good.                                             *)
Accepts(t, c) == c = "submit" \/ bearer[t][c] = "good"
Refuses(t, c) == c = "submit" \/ bearer[t][c] # "good"

Done(t, c) ==
  /\ call' = [call EXCEPT ![t][c] = "no"]
  /\ bearer' = [bearer EXCEPT ![t][c] = "none"]

(* Tokens for an email and a password: login and register store them and   *)
(* read the profile.                                                       *)
LoggedIn(t) ==
  /\ InFlight(t, "submit")
  /\ stored' = "good"
  /\ call' = [call EXCEPT ![t]["submit"] = "no", ![t]["profile"] = "sent"]
  /\ bearer' = [bearer EXCEPT ![t]["submit"] = "none", ![t]["profile"] = "good"]
  /\ UNCHANGED <<page, store, refreshing, quiet, sessionFaults>>

(* The profile of login: the form sends the user to the dashboard, whose   *)
(* guard asks for the user once more.                                      *)
ProfileRead(t) ==
  LET ask == call[t]["me"] = "no" /\ stored # "none" IN
  /\ InFlight(t, "profile") /\ Accepts(t, "profile")
  /\ store' = [store EXCEPT ![t] = IF stored = "none" THEN "out" ELSE "in"]
  /\ page' = [page EXCEPT ![t] = "dashboard"]
  /\ call' = [call EXCEPT ![t]["profile"] = "no",
                          ![t]["me"] = IF ask THEN "sent" ELSE @]
  /\ bearer' = [bearer EXCEPT ![t]["profile"] = "none",
                              ![t]["me"] = IF ask THEN Access(stored) ELSE @]
  /\ UNCHANGED <<stored, refreshing, quiet, sessionFaults>>

(* The user of fetchUser: the store is signed in, whatever came between.   *)
UserRead(t) ==
  /\ InFlight(t, "me") /\ Accepts(t, "me")
  /\ store' = [store EXCEPT ![t] = "in"]
  /\ Done(t, "me")
  /\ UNCHANGED <<stored, page, refreshing, quiet, sessionFaults>>

DataRead(t) ==
  /\ InFlight(t, "data") /\ Accepts(t, "data")
  /\ Done(t, "data")
  /\ UNCHANGED <<stored, page, store, refreshing, quiet, sessionFaults>>

(* request() throws: fetchUser signs out after any error, the others only  *)
(* tell the user.                                                          *)
Throws(t, c) ==
  /\ Done(t, c)
  /\ IF c = "me"
     THEN /\ stored' = "none"
          /\ store' = [store EXCEPT ![t] = "out"]
     ELSE UNCHANGED <<stored, store>>
  /\ UNCHANGED <<page, refreshing, quiet>>

(* The session has expired: tokens are cleared, /login is loaded.          *)
Expired(t) ==
  /\ stored' = "none"
  /\ page' = [page EXCEPT ![t] = "login"]
  /\ store' = [store EXCEPT ![t] = "loading"]
  /\ call' = [call EXCEPT ![t] = NoCall]
  /\ bearer' = [bearer EXCEPT ![t] = NoBearer]
  /\ refreshing' = [refreshing EXCEPT ![t] = "no"]
  /\ UNCHANGED quiet

(* Mutant of RefreshFor: the tokens the call was sent with are refreshed.  *)
RefreshForBearer(t, c) ==
  /\ call' = [call EXCEPT ![t][c] = "waiting"]
  /\ bearer' = [bearer EXCEPT ![t][c] = "none"]
  /\ refreshing' = [refreshing EXCEPT ![t] = IF @ = "no" THEN bearer[t][c] ELSE @]
  /\ UNCHANGED <<stored, page, store, quiet>>

(* refreshAccessToken: the call joins the refresh that is under way, or    *)
(* starts one with the tokens that are stored now.                         *)
RefreshFor(t, c) ==
  IF refreshing[t] = "no" /\ stored = "none"
  THEN Expired(t)
  ELSE /\ call' = [call EXCEPT ![t][c] = "waiting"]
       /\ bearer' = [bearer EXCEPT ![t][c] = "none"]
       /\ refreshing' = [refreshing EXCEPT ![t] = IF @ = "no" THEN stored ELSE @]
       /\ UNCHANGED <<stored, page, store, quiet>>

(* Mutant of Unauthorized: a call that was sent again is refreshed again.  *)
UnauthorizedAgain(t, c) ==
  /\ InFlight(t, c) /\ Refuses(t, c)
  /\ IF bearer[t][c] # "none" THEN RefreshFor(t, c) ELSE Throws(t, c)
  /\ UNCHANGED sessionFaults

(* 401: the first answer to a call that had tokens is followed by a        *)
(* refresh, the second one is an error.                                    *)
Unauthorized(t, c) ==
  /\ InFlight(t, c) /\ Refuses(t, c)
  /\ IF call[t][c] = "sent" /\ bearer[t][c] # "none"
     THEN RefreshFor(t, c)
     ELSE Throws(t, c)
  /\ UNCHANGED sessionFaults

Waiting(t) == {c \in Calls : call[t][c] = "waiting"}

ResendWith(t, token) ==
  /\ call' = [call EXCEPT ![t] = [c \in Calls |-> IF c \in Waiting(t) THEN "resent"
                                                                     ELSE @[c]]]
  /\ bearer' = [bearer EXCEPT ![t] = [c \in Calls |-> IF c \in Waiting(t) THEN token
                                                                         ELSE @[c]]]

(* Mutant of Resend: the refresh answers one of the calls only.            *)
ResendOne(t) ==
  \E c \in Waiting(t) :
    /\ call' = [call EXCEPT ![t][c] = "resent"]
    /\ bearer' = [bearer EXCEPT ![t][c] = "good"]

(* Mutant of Resend: the calls are sent with the header they had.          *)
ResendOldHeader(t) == ResendWith(t, "stale")

(* The calls that waited for the refresh are sent once more.               *)
Resend(t) == ResendWith(t, "good")

Refreshed(t) ==
  /\ refreshing[t] \in {"good", "stale"}
  /\ stored' = "good"
  /\ refreshing' = [refreshing EXCEPT ![t] = "no"]
  /\ Resend(t)
  /\ UNCHANGED <<page, store, quiet, sessionFaults>>

RefreshRefused(t) ==
  /\ refreshing[t] = "dead"
  /\ Expired(t)
  /\ UNCHANGED sessionFaults

(* The network fails or the server answers with an error.                  *)
CallLost(t, c) ==
  /\ InFlight(t, c)
  /\ sessionFaults < MaxSessionFaults
  /\ sessionFaults' = sessionFaults + 1
  /\ Throws(t, c)

RefreshLost(t) ==
  /\ refreshing[t] # "no"
  /\ sessionFaults < MaxSessionFaults
  /\ sessionFaults' = sessionFaults + 1
  /\ Expired(t)

-----------------------------------------------------------------------------
Answered(t, c) ==
  \/ c = "submit" /\ LoggedIn(t)
  \/ c = "profile" /\ ProfileRead(t)
  \/ c = "me" /\ UserRead(t)
  \/ c = "data" /\ DataRead(t)
  \/ Unauthorized(t, c)

RefreshAnswered(t) == Refreshed(t) \/ RefreshRefused(t)

SessionNext ==
  \/ AccessExpires
  \/ RefreshExpires
  \/ \E t \in Tabs :
       \/ \E to \in {"login", "guide", "dashboard"} : FollowLink(t, to) \/ Reload(t, to)
       \/ Guard(t)
       \/ Submit(t)
       \/ AskForData(t)
       \/ Logout(t)
       \/ \E c \in Calls : Answered(t, c) \/ CallLost(t, c)
       \/ RefreshAnswered(t)
       \/ RefreshLost(t)

(* A fetch ends some time, and a tab runs its handlers.  Nothing is        *)
(* assumed of the user and the clock.                                      *)
SessionFairness ==
  \A t \in Tabs :
    /\ \A c \in Calls : WF_sessionVars(Answered(t, c))
    /\ WF_sessionVars(RefreshAnswered(t))
    /\ WF_sessionVars(Guard(t))

SessionSpec == SessionInit /\ [][SessionNext]_sessionVars

-----------------------------------------------------------------------------
(* A logout is final unless a login or a refresh was under way in some     *)
(* tab: calls that were sent before it do not bring the session back.      *)
LogoutFinal == quiet => stored = "none"

(* However calls, refreshes, logins and tabs interleave, a user who is     *)
(* signed in stays so until a logout, a refresh token that has expired, or *)
(* a call that fails for another reason than its token.                    *)
SignedInStays ==
  [][stored # "none" /\ stored' = "none" =>
       \/ \E t \in Tabs : Logout(t)
       \/ \E t \in Tabs : refreshing[t] = "dead"
       \/ sessionFaults' > sessionFaults]_sessionVars

(* The user does not load the page of a tab again and again: each time, it *)
(* starts over.                                                            *)
LeftAlone(t) ==
  <>[][~\E to \in {"login", "guide", "dashboard"} : Reload(t, to)]_sessionVars

(* The form of the login page always gets an answer: no call is refreshed  *)
(* and sent again for ever, whatever the server answers and the clock does.*)
FormEndsIn(t) ==
  LeftAlone(t) => (call[t]["submit"] # "no" ~> call[t]["submit"] = "no")

(* The spinner of the guard goes: the dashboard or the login page is shown.*)
SpinnerEndsIn(t) ==
  LeftAlone(t) => (page[t] = "dashboard" /\ store[t] = "loading" ~>
                   page[t] # "dashboard" \/ store[t] # "loading")
=============================================================================
