------------------------------ MODULE MCPages -------------------------------
(* The account of a user, the board of tweets and the sources of events: a *)
(* behaviour is one of the component that part names, the others rest.     *)
EXTENDS AuthLinks, TweetBoard, SourceAdapters, TLC

CONSTANTS s1, s2, s3

VARIABLE part

(* Two stories of one slug; one that has the hash of another has no date.  *)
MCSlug == s1 :> 1 @@ s2 :> 1 @@ s3 :> 2
MCHash == s1 :> 1 @@ s2 :> 2 @@ s3 :> 2

(* The same names stand for pages and calls, and for links and texts.      *)
Symmetry == Permutations(Pages) \cup Permutations(Links)

MCInit ==
  /\ part \in {"links", "board", "adapters"}
  /\ LinksInit
  /\ BoardInit /\ (part = "board" \/ status = "draft")
  /\ AdaptersInit /\ (part = "adapters" \/ adapter = "rss")

MCNext ==
  /\ part' = part
  /\ \/ part = "links" /\ LinksNext /\ UNCHANGED <<boardVars, adapterVars>>
     \/ part = "board" /\ BoardNext /\ UNCHANGED <<linksVars, adapterVars>>
     \/ part = "adapters" /\ AdaptersNext /\ UNCHANGED <<linksVars, boardVars>>

MCSpec == MCInit /\ [][MCNext]_<<part, linksVars, boardVars, adapterVars>>
=============================================================================
