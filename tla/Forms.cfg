\* The portal's two forms and two richer ones, contents empty, blank, right, wrong.
SPECIFICATION Spec
CONSTANTS
  f1 = f1
  f2 = f2
  Fields = {f1, f2}
  NoField = NoField
  NoText = NoText
  Forms <- MCForms
  Contents <- MCContents
  Empty <- MCEmpty
INVARIANTS
  TypeOK
  FeedbackIsCurrent
  SentPasses
  RefusalIsExplained
