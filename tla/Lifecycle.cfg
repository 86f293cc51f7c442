\* The transition table on its own, every event and guard.
SPECIFICATION HSpec
CONSTANTS
  MaxDecisions = 3
  Proposals <- MCProposals
  Starts <- MCStarts
INVARIANTS
  NeverRevived
  WaitingIsHalted
  OneNoticePerDecision
PROPERTIES
  HaltEndsOnlyByResume
  CompletedIsFinal
