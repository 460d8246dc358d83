CONSTANTS
  olga = olga
  adam = adam
  rita = rita
  g1 = g1
  g2 = g2
  h1 = h1
  h2 = h2
  gh1 = gh1
  gh2 = gh2
  Users = {olga, adam, rita}
  GroupIds = {g1, g2}
  GroupHandlers = {gh1, gh2}
  FirstGroups = {g1}
  FirstRoles <- MCFirstRoles
  MaxGroupJobs = 2
  ArticleIds = {a1}
  ArticleHandlers = {h1, h2}
  Authors = {adam}
  Moderators = {olga}
  MaxJobs = 3
SPECIFICATION Spec
SYMMETRY Alike
CHECK_DEADLOCK FALSE
 
PROPERTIES
  ActsManaged
  ReadersMayRead
