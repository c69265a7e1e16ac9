SPECIFICATION Spec
CONSTANTS
    MaxAttempts = 6
    Backoff <- DefaultBackoffSeconds
    RetryAfter = {660}
    RequestTimes = {5}
    Preparation <- LongPreparation
    ReadTtl <- DefaultReadTtl
    MaxPolls = 1
    MaxRedeliveries = 0
INVARIANT UrlOutlivesRetries
CHECK_DEADLOCK FALSE
