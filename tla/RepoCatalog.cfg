SPECIFICATION Spec
CONSTANTS
  Urls = {"main", "old", "third"}
  Invalid = {"file"}
  Default = "main"
  Retired = {"old"}
  Content <- MCContent
  Queries <- MCQueries
  SystemLists <- MCSystemLists
  SavedLists <- MCSavedLists
  Typed <- MCTyped
  LegacyUrls = {"no url", "old"}
  NoUrl = "no url"
  MaxFetches = 2
  MaxOpens = 2
INVARIANTS TypeOK AskedListIsClean FirstRepositoryWins MessageIsTrue
PROPERTIES SavedListSurvives LoadingEnds
