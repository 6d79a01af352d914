\* The numbers of claims start again at 1 whenever the coordinator is idle, so
\* a scan that lost its claim may meet its own number again.
SPECIFICATION ClaimSpec
CONSTANTS
  Scans = {timer, request1, request2}
  Timer = timer
  NoScan = NoScan
  WedgedAfter = 1
  MaxClock = 2
PROPERTY LateDropLeavesHolderAlone
