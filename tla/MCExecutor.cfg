\* A worker and the UI thread wake two tasks that sleep, under a host that posts.
CONSTANTS
  Workers = {w1}
  UI = ui
  NoThread = noThread
  NoTask = noTask
  HasPoster = TRUE
  HasDelayed = TRUE
  MicroTicks = 2
  MaxTasks = 2
  MaxPosts = 1
  MaxTime = 2
  MaxSleep = 2
  MaxTimers = 1
SPECIFICATION FairSpec
INVARIANTS NoLostWake NoCallAfterDetach SpawnOrder TimerCovered
PROPERTIES MicrotaskSpec SleepersWake
CHECK_DEADLOCK FALSE
