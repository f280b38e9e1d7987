--------------------------- MODULE MCReviewClient ---------------------------
(* Instances of ReviewClient: decision identities are records, or chosen.  *)
EXTENDS ReviewClient

MCDecisionIds == [rev : 1 .. MaxRevision, action : {"approve", "reject"}] \cup OwnIds
=============================================================================
