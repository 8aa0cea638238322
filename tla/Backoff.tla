------------------------------- MODULE Backoff -------------------------------
(***************************************************************************)
(* The time after which the GerritGroupMember controller tries again, as a *)
(* function of the failures counted so far (controllers/helper/status.go). *)
(* It grows exponentially until it leaves the range of time.Duration.      *)
(***************************************************************************)
EXTENDS Integers

CONSTANTS MaxTimeOut,  \* the longest time between two runs
          Width,       \* the width of time.Duration, 64 in the code
          Exponential, \* Exponential[k] is TimeOut * e^k, rounded down
          MaxFailures  \* bound: the failure counter is not followed further

ASSUME WidthAssumption == Width \in Nat \ {0}
ASSUME BackoffAssumption ==
    /\ MaxFailures \in Nat
    /\ Exponential \in [1 .. MaxFailures + 1 -> Nat]
    /\ MaxTimeOut \in 1 .. 2^(Width - 1) - 1

Failures == 0 .. MaxFailures

\* What a float64 becomes as a time.Duration.  Beyond its range Go leaves that to
\* the processor: the smallest value (amd64) or the largest (arm64).
Duration(x) ==
    IF x < 2^(Width - 1) THEN {x} ELSE {-(2^(Width - 1)), 2^(Width - 1) - 1}

\* Mutant of getTimeout: the guard does not ask for values that are not positive.
getTimeoutIfPositive(failures) ==
    {IF d > MaxTimeOut THEN MaxTimeOut ELSE d : d \in Duration(Exponential[failures + 1])}

getTimeout(failures) ==
    {IF d > MaxTimeOut \/ d <= 0 THEN MaxTimeOut ELSE d :
        d \in Duration(Exponential[failures + 1])}

\* Mutant of SetFailureCount: the count is not incremented.
SetFailureCountOnce(failures) == failures

SetFailureCount(failures) == IF failures = MaxFailures THEN failures ELSE failures + 1

=============================================================================
