-------------------------- MODULE MCEventLiveness --------------------------
(* A small instance of EventPipeline for liveness: a second ingestion is   *)
(* started only when the first event has had its job and is gone, and      *)
(* before the create of the other item, so that one of two creates throws. *)
EXTENDS MCEventPipeline

StartOrRace(i) ==
  /\ StartIngestion(i)
  /\ \A j \in Ingestors \ {i} :
       ingestAt[j] # "idle" =>
         /\ ingestAt[j] = "create" /\ feed'[i] = {item[j]}
         /\ \A k \in JobId : jobState[k] \in {"completed", "failed"}
         /\ \A e \in EventId : event[e] \in {"none", "deleted"}

MCNext ==
  \/ \E i \in Ingestors : StartOrRace(i) \/ IngestorStep(i) \/ IngestionFails(i)
  \/ \E g \in Generators :
       \/ \E k \in JobId : TakeJob(g, k)
       \/ GeneratorStep(g)
       \/ GeneratorDies(g)
  \/ \E d \in Deleters :
       \/ \E k \in JobId, e \in EventId : PostTweet(d, k, e)
       \/ Cleanup(d)
       \/ DeleterStep(d)
       \/ DeleterDies(d)
  \/ \E k \in JobId, e \in EventId : FailTweet(k, e)
  \/ \E e \in EventId, b \in Bots : ForwardEvent(e, b)
  \/ \E e \in EventId : Age(e)

MCFairSpec == Init /\ [][MCNext]_vars /\ Fairness
=============================================================================
