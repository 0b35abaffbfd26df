SPECIFICATION Spec
CONSTANTS
    Timers = {once, every}
    Intervals = {every}
    Delay <- Delays
    IdleTimeouts = {0, 3}
    Early = 1
    MaxLate = 1
    Cast = Cast
    None = None
    MaxMailbox = 1
INVARIANTS CancelledStaysCancelled TimedOutInTime
PROPERTY EndsQuietly
