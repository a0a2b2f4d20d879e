-------------------------- MODULE MCEventSafety ----------------------------
(* Three small instances of EventPipeline in one run: two ingestors and    *)
(* the cleanup, with three items of one story; the same ingestors when the *)
(* story is stored already, in another category and beyond the look-up;    *)
(* and one event, ingested once, which jobs of a bot work on afterwards    *)
(* that it is forwarded to several times.                                  *)
EXTENDS MCEventPipeline

VARIABLE instance

MCInit == Init /\ instance \in {"ingestion", "reach", "generation"}

(* Which items may be fetched: in "reach" x1 and then the others, alone,   *)
(* until the look-up no longer finds x1; then x2, x3 and w by two of them. *)
Queued == <<x1, z, y1, y2, y3>>
Fetchable(i) ==
  IF instance # "reach"
  THEN feed'[i] \subseteq (IF instance = "ingestion" THEN {x1, x2, x3} ELSE {x1})
  ELSE \E n \in 1..6 :
         /\ \A m \in 1..(n - 1) : event[<<Queued[m], 1>>] # "none"
         /\ feed'[i] \subseteq (IF n = 6 THEN {x2, x3, w} ELSE {Queued[n]})
         /\ Cardinality(feed'[i]) <= 1

MCNext ==
  /\ Next
  /\ instance' = instance
  /\ \A i \in Ingestors : Fetchable(i)
  /\ CASE instance = "ingestion" -> jobState' = jobState
     [] instance = "reach" ->
          /\ jobState' = jobState
          /\ \A e \in EventId : event[e] = "fresh" => event'[e] = "fresh"
     [] OTHER ->
          /\ event[<<x1, 1>>] # "none" => \A i \in Ingestors :
               ingestAt[i] = "idle" => ingestAt'[i] = "idle"
          /\ Cardinality({i \in Ingestors : ingestAt'[i] # "idle"}) <= 1
          /\ (\E i \in Ingestors : ingestAt[i] # "idle") => jobState' = jobState
          /\ event'[<<x1, 2>>] = "none"

MCSpec == MCInit /\ [][MCNext]_<<vars, instance>>

MCSymmetry == IngestorSymmetry \cup GeneratorSymmetry
=============================================================================
