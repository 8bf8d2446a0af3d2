SPECIFICATION KeepAliveSpec
CONSTANTS
  IQs = {q1}
  Timeout = 1
  MaxTime = 2
  MaxLosses = 3
  MaxChanges = 2
  PingThreshold = 2
INVARIANTS LossIsHandled
PROPERTIES NoSendAfterSettled GivenUpStaysDown ResumedOrReported DeadLinkNoticed
CHECK_DEADLOCK FALSE
