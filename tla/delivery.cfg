\* The bound on edits ends every behaviour.
CONSTANTS
  Names <- MCNames
  Lower <- MCLower
  Slug <- MCSlug
  Trim <- MCTrim
  Numbered <- MCNumbered
  GivenIds <- MCGivenIds
  RandomIds = {"f3"}
  Inlines <- MCInlines
  References <- MCReferences
  Changes <- MCChanges
  Handlers = {h1, h2}
  Runs = {r1}
  MaxEdits = 3
SYMMETRY Symmetry
SPECIFICATION Spec
INVARIANTS SentAsMeant IdsAreUnique
PROPERTIES CompleteStaysComplete
CHECK_DEADLOCK FALSE
