SPECIFICATION FairSpec
INVARIANTS
  TypeOK
  VerifiedIsChecked
  DraftNeedsVerdict
  VerdictIsPublished
  SurvivesFailures
PROPERTIES
  Terminates
