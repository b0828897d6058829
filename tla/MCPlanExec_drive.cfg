SPECIFICATION FairSpec
CONSTANTS
  Names = {"a", "b", "c"}
  Review = "review"
  Plans <- Shapes
INVARIANTS
  StartsAfterDependencies
  NoChildLeftBehind
  StatusTellsOutcomes
PROPERTIES
  PlanEnds
CHECK_DEADLOCK FALSE
