CONSTANTS
  r1 = r1
  r2 = r2
  q1 = q1
  q2 = q2
  t1 = t1
  t2 = t2
  NoReport = NoReport
  NoText = NoText
  Reports <- OneReport
  Requests <- OneRequest
  ReportOf <- OneAboutOne
  Texts <- OneText
  MaxRevisions = 2
  MaxVersions = 1
  MaxPool = 1
SPECIFICATION Spec
SYMMETRY Symmetry
CHECK_DEADLOCK FALSE
PROPERTIES ReportFollowsDomain
