CONSTANTS
  ann = ann
  bob = bob
  l1 = l1
  l2 = l2
  l3 = l3
  h1 = h1
  h2 = h2
  Users = {ann, bob}
  Moderators = {bob}
  ArticleIds = {a1, a2}
  ListIds = {l1, l2, l3}
  FirstLists <- MCFirstLists
  CommentIds = {c1}
  Handlers = {h1, h2}
  MaxPickups = 1
  MaxJobs = 3
SPECIFICATION Spec
CHECK_DEADLOCK FALSE
INVARIANTS
  CommunityConsistent
  LimitsKept
PROPERTY ButtonsAreMarks
