------------------------- MODULE PostingRateLimiter -------------------------
(***************************************************************************)
(* The sliding-window limiter of an X account (posting-rate-limiter.       *)
(* service.ts), used by PostingService.postTweet: canPost before the call  *)
(* to X, record after it.  The window is a Redis sorted set per account,   *)
(* shared by the workers of all replicas; nothing reserves a slot between  *)
(* the check and the record.                                               *)
(***************************************************************************)
EXTENDS Naturals, FiniteSets

CONSTANTS
  Accounts,   \* X accounts
  Attempts,   \* attempts to post a tweet
  Account,    \* the account each attempt posts for
  Slots,      \* worker slots of all replicas together
  MaxPerDay,  \* maxPerDay
  Window,     \* windowMs, in ticks of the clock
  MaxTime     \* bound: the clock stops here

ASSUME AccountAssumption == Account \in [Attempts -> Accounts]
ASSUME SlotsAssumption == Slots \in Nat \ {0}
ASSUME MaxPerDayAssumption == MaxPerDay \in Nat \ {0}
ASSUME WindowAssumption == Window \in Nat \ {0}
ASSUME MaxTimeAssumption == MaxTime \in Nat

VARIABLES
  now,      \* Date.now()
  stage,    \* what each attempt does next
  zset,     \* the members of rate:xpost:<account>
  score,    \* the time under which an attempt was recorded
  postedAt, \* observer: when X accepted the attempt
  accepted, \* observer: the attempts that X accepted
  unrecorded \* observer: accepted by X and never recorded

limiterVars == <<now, stage, zset, score, postedAt, accepted, unrecorded>>

Stages == {"new", "clean", "count", "send", "record", "done"}

LimiterTypeOK ==
  /\ now \in 0..MaxTime
  /\ stage \in [Attempts -> Stages]
  /\ zset \in [Accounts -> SUBSET Attempts]
  /\ score \in [Attempts -> 0..MaxTime]
  /\ postedAt \in [Attempts -> 0..MaxTime]
  /\ accepted \subseteq Attempts
  /\ unrecorded \subseteq Attempts

LimiterInit ==
  /\ now = 0
  /\ stage = [p \in Attempts |-> "new"]
  /\ zset = [a \in Accounts |-> {}]
  /\ score = [p \in Attempts |-> 0]
  /\ postedAt = [p \in Attempts |-> 0]
  /\ accepted = {}
  /\ unrecorded = {}

(* Attempts that hold a worker, and those that have passed the check.      *)
Running == {p \in Attempts : stage[p] \in {"clean", "count", "send", "record"}}
Passed(a) == {p \in Attempts : stage[p] \in {"send", "record"} /\ Account[p] = a}

(* Mutant of Expired: the window is one tick too short.                    *)
ExpiredEarly(p) == score[p] + Window <= now + 1

(* The members that zremrangebyscore(key, 0, now - windowMs) removes.      *)
Expired(p) == score[p] + Window <= now

Tick ==
  /\ now < MaxTime
  /\ now' = now + 1
  /\ UNCHANGED <<stage, zset, score, postedAt, accepted, unrecorded>>

(* A worker takes the attempt and comes to canPost.                        *)
TakeAttempt(p) ==
  /\ stage[p] = "new"
  /\ Cardinality(Running) < Slots
  /\ stage' = [stage EXCEPT ![p] = "clean"]
  /\ UNCHANGED <<now, zset, score, postedAt, accepted, unrecorded>>

(* getCurrentCount, first call: expired entries are removed.               *)
Clean(p) ==
  /\ stage[p] = "clean"
  /\ zset' = [zset EXCEPT ![Account[p]] = {q \in @ : ~Expired(q)}]
  /\ stage' = [stage EXCEPT ![p] = "count"]
  /\ UNCHANGED <<now, score, postedAt, accepted, unrecorded>>

CanPost(p) == Cardinality(zset[Account[p]]) < MaxPerDay

(* Second call, zcard: below the limit the attempt goes on to X, otherwise *)
(* its job is delayed and tries again.                                     *)
Count(p) ==
  /\ stage[p] = "count"
  /\ stage' = [stage EXCEPT ![p] = IF CanPost(p) THEN "send" ELSE "new"]
  /\ UNCHANGED <<now, zset, score, postedAt, accepted, unrecorded>>

(* X accepts the post, or the attempt ends in an error.                    *)
XAccepts(p) ==
  /\ stage[p] = "send"
  /\ stage' = [stage EXCEPT ![p] = "record"]
  /\ postedAt' = [postedAt EXCEPT ![p] = now]
  /\ accepted' = accepted \cup {p}
  /\ UNCHANGED <<now, zset, score, unrecorded>>

XRejects(p) ==
  /\ stage[p] = "send"
  /\ stage' = [stage EXCEPT ![p] = "done"]
  /\ UNCHANGED <<now, zset, score, postedAt, accepted, unrecorded>>

(* record: one pipeline adds the entry and removes expired ones.           *)
Record(p) ==
  /\ stage[p] = "record"
  /\ score' = [score EXCEPT ![p] = now]
  /\ zset' = [zset EXCEPT ![Account[p]] = {q \in @ : ~Expired(q)} \cup {p}]
  /\ stage' = [stage EXCEPT ![p] = "done"]
  /\ UNCHANGED <<now, postedAt, accepted, unrecorded>>

(* The worker dies, or Redis does not answer, before the post is recorded. *)
RecordFails(p) ==
  /\ stage[p] = "record"
  /\ unrecorded' = unrecorded \cup {p}
  /\ stage' = [stage EXCEPT ![p] = "done"]
  /\ UNCHANGED <<now, zset, score, postedAt, accepted>>

LimiterNext ==
  \/ Tick
  \/ \E p \in Attempts :
       \/ TakeAttempt(p)
       \/ Clean(p)
       \/ Count(p)
       \/ XAccepts(p)
       \/ XRejects(p)
       \/ Record(p)
       \/ RecordFails(p)

LimiterSpec == LimiterInit /\ [][LimiterNext]_limiterVars

-----------------------------------------------------------------------------
(* What Redis and what X count for an account in the window that ends now. *)
Recorded(a) == {p \in zset[a] : ~Expired(p)}
Posted(a) == {p \in accepted : Account[p] = a /\ postedAt[p] + Window > now}
Lost(a) == {p \in unrecorded : Account[p] = a}

(* Check and record are not atomic: every worker but one can overshoot by  *)
(* one post.  With the posts under way the window never holds more.        *)
OvershootBounded ==
  \A a \in Accounts :
    Cardinality(Recorded(a)) + Cardinality(Passed(a)) <= MaxPerDay + Slots - 1

(* The same of the window X itself counts, up to the posts that were never *)
(* recorded: an entry expires in Redis no earlier than its post does on X. *)
XOvershootBounded ==
  \A a \in Accounts :
    Cardinality(Posted(a)) <= MaxPerDay + Slots - 1 + Cardinality(Lost(a))
=============================================================================
