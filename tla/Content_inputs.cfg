CONSTANT Context = 1
SPECIFICATION Spec
INVARIANTS OrderedRecipesFollowIt AcceptedScrubIsExact NoStaleName NothingOldIsReached IntakeIsExact PlacedHunksAreStaged RecordsAreTrue ConclusionIsResolved
CHECK_DEADLOCK FALSE
