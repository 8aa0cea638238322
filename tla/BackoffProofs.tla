---------------------------- MODULE BackoffProofs ----------------------------
(* For every width, limit and table of exponentials the backoff is a time to     *)
(* wait: what is out of range never becomes "do not requeue".                    *)
EXTENDS Backoff, TLAPS

\* Values in range are left alone, the others become one of the two ends.
LEMMA DurationInRange ==
    ASSUME NEW x \in Nat, NEW d \in Duration(x)
    PROVE  d \in Int
<1> DEFINE Limit == 2^(Width - 1)
<1>1. Limit \in Int
  BY WidthAssumption
<1>2. d \in {x, -Limit, Limit - 1}
  BY DEF Duration
<1> QED
  BY <1>1, <1>2

\* The controller always asks for another run after an error, and never later than
\* MaxTimeOut: getTimeout turns whatever the conversion yields into such a time.
THEOREM TimeoutRequeues ==
    \A failures \in Failures :
        getTimeout(failures) # {} /\ getTimeout(failures) \subseteq 1 .. MaxTimeOut
<1> SUFFICES ASSUME NEW failures \in Failures
             PROVE  getTimeout(failures) # {} /\ getTimeout(failures) \subseteq 1 .. MaxTimeOut
  OBVIOUS
<1> DEFINE x == Exponential[failures + 1]
<1>1. x \in Nat
  BY BackoffAssumption DEF Failures
<1>2. MaxTimeOut \in Nat \ {0}
  <2> DEFINE Limit == 2^(Width - 1)
  <2>1. Limit \in Int
    BY WidthAssumption
  <2> QED
    BY <2>1, BackoffAssumption
<1>3. Duration(x) # {}
  BY DEF Duration
<1>4. \A d \in Duration(x) :
          (IF d > MaxTimeOut \/ d <= 0 THEN MaxTimeOut ELSE d) \in 1 .. MaxTimeOut
  BY <1>1, <1>2, DurationInRange
<1> QED
  BY <1>3, <1>4 DEF getTimeout

=============================================================================
