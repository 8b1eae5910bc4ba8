SPECIFICATION Spec
CONSTANT MaxRevisions = 4
INVARIANTS PublicFollowsOfficial NoReviewOfReplaced
PROPERTIES ImplementsResult DecisionsStand OfficialReplacesOfficial LastDeliveryEndsReview
CHECK_DEADLOCK FALSE
