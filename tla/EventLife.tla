----------------------------- MODULE EventLife ------------------------------
(***************************************************************************)
(* What SmartX promises about the events of its feeds, whatever the        *)
(* ingestion, generation, posting and cleanup workers do: an entry of a    *)
(* feed is on the dashboard at most once at a time; a bot only tweets      *)
(* about events that are there and that it was given; what was shared      *)
(* stays shared; an event is only removed when it is a day old or was      *)
(* shared, and a removed event does not come back.                         *)
(***************************************************************************)
CONSTANTS
  Events,  \* primary keys
  Entry,   \* the entry of a feed an event stands for
  Bots

VARIABLES
  stage,   \* not yet stored, fresh, old, removed
  given,   \* the events each bot was given
  drafted, \* the events each bot has written a tweet about
  shared   \* the events with a tweet on X

lifeVars == <<stage, given, drafted, shared>>

Present(e) == stage[e] \in {"fresh", "old"}

LifeInit ==
  /\ stage = [e \in Events |-> "none"]
  /\ given = [b \in Bots |-> {}]
  /\ drafted = [b \in Bots |-> {}]
  /\ shared = {}

Store(e) ==
  /\ stage[e] = "none"
  /\ \A f \in Events : Entry[f] = Entry[e] => ~Present(f)
  /\ stage' = [stage EXCEPT ![e] = "fresh"]
  /\ UNCHANGED <<given, drafted, shared>>

GrowOld(e) ==
  /\ stage[e] = "fresh"
  /\ stage' = [stage EXCEPT ![e] = "old"]
  /\ UNCHANGED <<given, drafted, shared>>

(* Any number of events to any number of bots.                             *)
Give ==
  /\ given' \in [Bots -> SUBSET Events]
  /\ \A b \in Bots : /\ given[b] \subseteq given'[b]
                     /\ \A e \in given'[b] \ given[b] : Present(e)
  /\ UNCHANGED <<stage, drafted, shared>>

Draft(b, e) ==
  /\ Present(e) /\ e \in given[b]
  /\ drafted' = [drafted EXCEPT ![b] = @ \cup {e}]
  /\ UNCHANGED <<stage, given, shared>>

(* The event may have been removed in the meantime.                        *)
Share(e) ==
  /\ \E b \in Bots : e \in drafted[b]
  /\ shared' = shared \cup {e}
  /\ UNCHANGED <<stage, given, drafted>>

Removable(e) == stage[e] = "old" \/ (Present(e) /\ e \in shared)

Remove ==
  /\ stage' \in [Events -> {"none", "fresh", "old", "deleted"}]
  /\ \A e \in Events : stage'[e] # stage[e] => Removable(e) /\ stage'[e] = "deleted"
  /\ UNCHANGED <<given, drafted, shared>>

LifeNext ==
  \/ Give
  \/ Remove
  \/ \E e \in Events : Store(e) \/ GrowOld(e) \/ Share(e)
  \/ \E b \in Bots, e \in Events : Draft(b, e)

LifeSpec == LifeInit /\ [][LifeNext]_lifeVars
=============================================================================
