\* Three coroutines share one handle; one of them may be kicked while it joins.
\* The system stops when the process aborts or every user is done with it.
SPECIFICATION CoroutineSpec
CONSTANTS Users = {u1, u2, u3}
          Kickable = {u1}
INVARIANTS HandleIsSound
PROPERTIES ErrorIsFinal StopReturns
CHECK_DEADLOCK FALSE
