SPECIFICATION Spec
CONSTANTS
  Libraries <- MCLibraries
  Heroes <- MCHeroes
  Levels <- MCLevels
  Requests <- MCRequests
  Starts <- MCStarts
  Destinations <- MCDestinations
  Alternatives <- MCAlternatives
  Touring <- MCTouring
  MaxQuests = 3
  NoHero = NoHero
INVARIANTS CyclesAreFound PathIsPlayable PlanIsSound RoutesAreFastest
CHECK_DEADLOCK FALSE
