\* An accepted resume that leaves the halt set.
SPECIFICATION HSpec
CONSTANTS
  MaxDecisions = 3
  Proposals <- MCProposals
  Starts <- MCStarts
PROPERTIES
  AcceptedResumeClearsHalt
CHECK_DEADLOCK FALSE
