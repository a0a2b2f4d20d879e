-------------------------- MODULE MCTweetPosting ---------------------------
(* Small instances of TweetPosting for TLC.                                *)
EXTENDS TweetPosting, TLC

(* Callers are interchangeable, and so are workers.                        *)
CallerSymmetry == Permutations(Callers)
WorkerSymmetry == Permutations(Workers)
=============================================================================
