SPECIFICATION Spec
CONSTANT Devices = {a}
INVARIANT IssueAlwaysTruthful
