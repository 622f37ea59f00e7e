\* Three operations, three tokens: a token that expires, its refresh, and a refresh or
\* a sign-in after that. No symmetry, for the sake of the liveness properties.
CONSTANTS
  Ops = {o1, o2, o3}
  MaxToken = 3
  MaxCopies = 1
SPECIFICATION FairSpec
INVARIANTS TypeOK ScreenFollowsUserState SingleRefresh OwedExactlyOnce ParkedHasRefresh
PROPERTIES NotRunInNextSession ImplementsDelivery ParkedIsRetried SettledOrNamedException
CHECK_DEADLOCK FALSE
