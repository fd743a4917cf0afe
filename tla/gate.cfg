\* One user whose account changes while two requests are under way.
SPECIFICATION FairSpec
CONSTANTS
  Users = {u1}
  Calls = {c1, c2}
  AccessTTL = 1
  Null = Null
PROPERTIES CutOffIsFinal RevocationTakesEffect AnswersDocumented
