\* Two blocks, transfers of one and of both, two faults of the hardware: enough for a
\* command that is given up and whose answer comes late, and for a loss during recovery.
SPECIFICATION FairSpec
CONSTANTS
  NumBlocks = 2
  Rca = 2
  Junk = 3
  MaxFaults = 2
  Tries = 2
INVARIANTS AnswersMatch TransfersFromTran TransfersExact SingleBlocksSucceed HangsOnlyWhenLate
PROPERTIES WritesInRange CallsReturn
\* The machine stops when it is switched off, when sd_cmd hangs and at a wild call.
CHECK_DEADLOCK FALSE
