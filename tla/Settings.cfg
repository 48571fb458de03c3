SPECIFICATION Spec
CONSTANTS
  Kpms = {"maps", "mounts"}
  Styles = {"tight", "spaced"}
  Releases <- MCReleases
  Local = 1
  None = None
  MaxActs = 5
  Patient = TRUE
INVARIANTS TypeOK ShownIsSaved OfferIsSafe
CONSTRAINT OnePage
CHECK_DEADLOCK FALSE
