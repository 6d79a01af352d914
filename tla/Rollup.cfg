\* Buckets of two ticks, widths that do and do not divide into them, and a
\* retention that deletes in the middle of a bucket.
SPECIFICATION Spec
CONSTANTS
  Width = 2
  Retention = 3
  Requested = {1, 2, 3, 4}
  MaxTime = 7
  MaxFaults = 2
INVARIANTS TypeOK AnswersAgree
PROPERTY FoldedIsFinal
CHECK_DEADLOCK FALSE
