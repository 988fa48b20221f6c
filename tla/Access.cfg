\* Three changes from outside, failures or typed addresses; one read under way
\* when a link is followed.
SPECIFICATION AccessSpec
CONSTANTS
  MaxMeddling = 3
  MaxReads = 1
INVARIANT LinkedIsServed
PROPERTIES ThrownOutRightly GetsToWork
\* A dismissed user signs in no more.
CHECK_DEADLOCK FALSE
