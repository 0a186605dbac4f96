\* With numbers for the clock: backoff with its jitter and cap, dates of
\* recurring jobs, a late or restarted scheduler and a crash of the worker:
\* delays grow, retries keep their distance, and missed runs are not made up
\* for.
CONSTANTS
  Bases <- SmallBases
  Rules = {"every", "cron"}
  Period = 3
  MaxAttempts = 4
  MaxDelay = 5
  MaxTime = 12
  MaxCrashes = 1
  MaxRestarts = 1
SPECIFICATION Spec
PROPERTIES DelaysGrow RetrySpacing NoBurst DatesAdvance
CHECK_DEADLOCK FALSE
