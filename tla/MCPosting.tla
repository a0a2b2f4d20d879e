----------------------------- MODULE MCPosting ------------------------------
(* How a tweet is written, timed and posted, component by component: a     *)
(* behaviour is one of the component that part names, the others rest.     *)
EXTENDS MCTweetPosting, PostingRateLimiter, TimeSlots, TweetText

CONSTANTS a1, a2, p1, p2, p3, p4

VARIABLE part

(* Two accounts: one with several attempts, one with a single attempt that *)
(* competes for the same worker slots.                                     *)
MCAccount == p1 :> a1 @@ p2 :> a1 @@ p3 :> a1 @@ p4 :> a2

(* A short text, the boundaries of 280 characters, a long text without a   *)
(* late space, a forbidden word, links alone and blanks.  With its number  *)
(* a short text is an "item", its near twin, and a number alone a "mark".  *)
Sample(length, space, banned, tags, kept) ==
  [length |-> length, space |-> space, banned |-> banned, mentions |-> tags,
   hashtags |-> tags, kept |-> kept]

MCSample ==
  "short" :> Sample(100, 90, FALSE, 5, 100) @@
  "edge" :> Sample(280, 201, FALSE, 0, 280) @@
  "words" :> Sample(281, 279, TRUE, 0, 281) @@
  "solid" :> Sample(900, 200, FALSE, 9, 900) @@
  "banned" :> Sample(50, 40, TRUE, 0, 50) @@
  "links" :> Sample(60, -1, FALSE, 0, 0) @@
  "blank" :> Sample(0, -1, FALSE, 0, 0) @@
  "item" :> Sample(103, 93, FALSE, 5, 103) @@
  "mark" :> Sample(2, -1, FALSE, 0, 2)

MCSamples == DOMAIN MCSample
MCTextOf(x) == MCSample[x] @@ [id |-> x]
MCAlike ==
  {<<x, x>> : x \in MCSamples} \cup
  {<<"short", "item">>, <<"item", "short">>}
MCWithNumber ==
  [x \in MCSamples \cup {NoText} |->
     CASE x = "short" -> "item"
       [] x = "edge" -> "words"
       [] x \in {"links", "blank", NoText} -> "mark"
       [] OTHER -> x]

MCInit ==
  /\ part \in {"posting", "limiter", "slots", "text"}
  /\ Init /\ LimiterInit
  /\ IF part = "slots" THEN SlotsInit
     ELSE /\ minute = 0 /\ startHour = 8 /\ endHour = 23 /\ frequency = 1
          /\ wanted = 0 /\ jobs = 0 /\ times = <<>>
  /\ TextInit /\ recent \in {{}, {"short"}} /\ (part = "text" \/ recent = {})

MCNext ==
  /\ part' = part
  /\ \/ /\ part = "posting" /\ Next
        /\ UNCHANGED <<limiterVars, slotVars, textVars>>
     \/ /\ part = "limiter" /\ LimiterNext
        /\ UNCHANGED <<vars, slotVars, textVars>>
     \/ /\ part = "slots" /\ SlotsNext
        /\ UNCHANGED <<vars, limiterVars, textVars>>
     \/ /\ part = "text" /\ TextNext
        /\ UNCHANGED <<vars, limiterVars, slotVars>>

MCSymmetry == WorkerSymmetry \cup Permutations({p1, p2, p3})

MCSpec == MCInit /\ [][MCNext]_<<part, vars, limiterVars, slotVars, textVars>>
=============================================================================
