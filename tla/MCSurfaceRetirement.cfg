SPECIFICATION RetirementSpec
CONSTANTS
  Original <- MCOriginal
  Facet <- MCFacet
  Replacement <- MCReplacement
  Rewrites <- Restricting
  Rows <- MCRows
  NoRow = NoRow
  Corrections <- MCCorrections
  NoMember = NoMember
  LastMinor = 2
  LastDay = 1
  MaxMerges = 3
INVARIANT NoNewRestriction
CHECK_DEADLOCK FALSE
