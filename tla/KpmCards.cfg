SPECIFICATION Spec
CONSTANTS
  Names = {"p"}
  Builds = {1, 2}
  Props <- MCProps
  Catalogs <- MCCatalogs
  Versions <- MCVersions
  NoVersion = NoVersion
  Queries <- MCQueries
  MaxActs = 2
  MaxWorld = 1
  MaxRefreshes = 1
  MaxPasses = 2
  Patient = TRUE
INVARIANTS TypeOK CardsAreTrue BadgeIsNewer
PROPERTY StatsCatchUp
