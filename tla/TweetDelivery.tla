--------------------------- MODULE TweetDelivery ---------------------------
(***************************************************************************)
(* What SmartX promises the owner of a bot about one tweet, whatever the   *)
(* queues, workers and cron jobs do: X gets a tweet only after it has been *)
(* reviewed (by the owner, or by the bot's auto-approve setting), a review *)
(* is not undone, what X has accepted stays published, and the dashboard   *)
(* claims success only for tweets that X has accepted.                     *)
(***************************************************************************)
EXTENDS Naturals

CONSTANT Tweets

VARIABLES
  reviewed,   \* has the tweet been approved?
  published,  \* how often X has accepted it (0, 1, 2 or more)
  claimed     \* does the database say that it is posted?

deliveryVars == <<reviewed, published, claimed>>

DeliveryInit ==
  /\ reviewed \in [Tweets -> BOOLEAN]
  /\ published = [t \in Tweets |-> 0]
  /\ claimed = [t \in Tweets |-> FALSE]

Review(t) ==
  /\ ~reviewed[t]
  /\ reviewed' = [reviewed EXCEPT ![t] = TRUE]
  /\ UNCHANGED <<published, claimed>>

Deliver(t) ==
  /\ reviewed[t]
  /\ published' = [published EXCEPT ![t] = IF @ < 2 THEN @ + 1 ELSE 2]
  /\ UNCHANGED <<reviewed, claimed>>

Claim(t) ==
  /\ published[t] > 0
  /\ claimed' = [claimed EXCEPT ![t] = TRUE]
  /\ UNCHANGED <<reviewed, published>>

(* A later write may overwrite the claim; the post itself stays.           *)
Retract(t) ==
  /\ claimed[t]
  /\ claimed' = [claimed EXCEPT ![t] = FALSE]
  /\ UNCHANGED <<reviewed, published>>

DeliveryNext ==
  \E t \in Tweets : Review(t) \/ Deliver(t) \/ Claim(t) \/ Retract(t)

DeliverySpec == DeliveryInit /\ [][DeliveryNext]_deliveryVars
=============================================================================
