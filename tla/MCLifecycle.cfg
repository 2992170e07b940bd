SPECIFICATION Spec
CONSTANT Devices = {a, b}
INVARIANTS
  TypeOK
  WholeOrGone
  IssueFollowsExchange
  IssuesOfListed
