SPECIFICATION TerminalSpec
CONSTANTS
  u1 = u1
  u2 = u2
  c1 = c1
  c2 = c2
  c3 = c3
  NoCard = NoCard
  NoUser = NoUser
  Default = Default
  Ids <- TwoIds
  Cards <- ThreeCards
  Levels <- SomeLevels
  Interval = 2
  Employees <- TwoEmployees
  MaxCalls = 3
  MaxPosts = 2
  MaxAsked = 2
SYMMETRY Symmetric
CONSTRAINT Split
INVARIANT TypeOK
INVARIANT LevelIsOfUser
INVARIANT LogoutWhenIdle
INVARIANT SessionIsTimed
INVARIANT DialogIsServed
INVARIANT BookerIsLoggedOut
INVARIANT OthersAreLeftAlone
INVARIANT ViewIsOfUser
