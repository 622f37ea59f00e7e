\* README.md against the code: after a failed refresh and a new sign-in, no refresh
\* is ever started again, and an operation that meets an expired token stays parked.
CONSTANTS
  Ops = {o1}
  MaxToken = 3
  MaxCopies = 1
SPECIFICATION FairSpec
PROPERTY SettledAfterNewSignIn
CHECK_DEADLOCK FALSE
