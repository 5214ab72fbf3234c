----------------------------- MODULE MCFeedSync -----------------------------
(* Values for FeedSync's constants that a .cfg cannot express. *)
EXTENDS FeedSync, TLC

CONSTANTS v1, v2, v3, v4, a1, a2, a3

KindsOfContent == [v \in Versions |->
                    CASE v = v2 -> "empty" [] v = v4 -> "broken" [] OTHER -> "events"]

EverySetOfHeaders == [v \in Versions |->
                         CASE v = v1 -> Headers [] v = v2 -> {"lastModified"}
                           [] v = v3 -> {"etag"} [] v = v4 -> {}]

AttemptSymmetry == Permutations(Attempts)

=============================================================================
