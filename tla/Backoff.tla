------------------------------- MODULE Backoff -------------------------------
(***************************************************************************)
(* How long a retry waits: the schedules of worker/executor.go, of         *)
(* worker/retry.go, of the notifications and of pkg/email, each as the     *)
(* sequence of waits it gives to one failing thing.  The jitter, a tenth   *)
(* at most, that some of them add is left out.                             *)
(*                                                                         *)
(* A duration is a mantissa and a power of two, [m, e] for m * 2^e units,  *)
(* so that the 64 bits of time.Duration can be kept as they are: the       *)
(* executor counts nanoseconds, where 5 seconds are 9765625 * 2^9.  The    *)
(* other schedules stay far from 64 bits and are in seconds.               *)
(***************************************************************************)
EXTENDS Integers

CONSTANTS
    MaxAttempts,   \* bound: retries of a workflow's step, which sets as many as it likes
    FewAttempts,   \* bound: retries of everything else
    Longer         \* bound: the base delay is 5 s times 2^b for b in Longer, 5 s by default

\* The base delay and its multiples are durations: below 2^63 ns, where 5 s are below 2^33.
BackoffAssumption ==
    /\ MaxAttempts \in Nat /\ FewAttempts \in 0 .. MaxAttempts
    /\ Longer \subseteq 0 .. 30 /\ \A b \in Longer : FewAttempts <= 2^(30 - b)

VARIABLES
    schedule,      \* which schedule is followed
    base,          \* the base delay of the executor's
    attempt,       \* retries so far
    wait, last     \* the latest wait, and the one before

vars == <<schedule, base, attempt, wait, last>>

Schedules == {"exponential", "linear", "fixed", "manager", "managerLinear", "managerCustom",
              "notification", "smtp"}

Seconds(n) == [m |-> n, e |-> 0]
FiveSeconds == [m |-> 9765625, e |-> 9]
FiveMinutes == [m |-> 146484375, e |-> 11]

\* a <= b, for mantissas below 2^28; a negative mantissa is less than all others.
AtMost(a, b) ==
    \/ a.m <= 0
    \/ a.e >= b.e /\ a.e - b.e <= 30 /\ a.m <= b.m \div 2^(a.e - b.e)
    \/ a.e < b.e /\ \/ b.e - a.e >= 28
                    \/ b.m >= 2^28 \div 2^(b.e - a.e)
                    \/ a.m <= b.m * 2^(b.e - a.e)

Least(a, b) == IF AtMost(a, b) THEN a ELSE b

\* d << k in 64 bits, the highest of which is the sign.
Shifted(d, k) ==
    LET e == d.e + k
        room == 63 - e
        m == d.m % 2^(room + 1)
    IN IF e >= 64 THEN [m |-> 0, e |-> 0]
       ELSE IF room >= 28 THEN [m |-> d.m, e |-> e]
       ELSE [m |-> IF m >= 2^room THEN m - 2^(room + 1) ELSE m, e |-> e]

-----------------------------------------------------------------------------
(* The schedules.                                                          *)

\* Mutant: the cap is taken from the base, before it is multiplied.
calculateRetryDelay_CapFirst(strategy, delay, n) ==
    IF strategy = "linear" THEN [delay EXCEPT !.m = @ * n]
    ELSE IF strategy = "fixed" THEN delay
    ELSE Shifted(Least(delay, FiveMinutes), n)

\* WorkflowExecutor.calculateRetryDelay, of the n-th retry.
calculateRetryDelay(strategy, delay, n) ==
    IF strategy = "linear" THEN [delay EXCEPT !.m = @ * n]
    ELSE IF strategy = "fixed" THEN delay
    ELSE Least(Shifted(delay, n), FiveMinutes)

PowerOfTwo[n \in Nat] == IF n = 0 THEN 1 ELSE 2 * PowerOfTwo[n - 1]
Fibonacci[n \in Nat] == IF n < 2 THEN n + 1 ELSE Fibonacci[n - 1] + Fibonacci[n - 2]

\* RetryManager.calculateRetryDelay of the default policy, after n retries: 30 s to
\* begin with, 10 minutes at most.
managerDelay(strategy, n) ==
    LET delay == IF strategy = "managerLinear" THEN 30 * (n + 1)
                 ELSE IF strategy = "managerCustom" THEN 30 * Fibonacci[n]
                 ELSE 30 * PowerOfTwo[n]
    IN Seconds(IF delay > 600 THEN 600 ELSE delay)

\* The wait doubled n - 1 times, 2 being the factor of the mail's default.
Doubled(first, most, n) ==
    LET delay[i \in Nat] ==
            IF i <= 1 THEN first ELSE IF 2 * delay[i - 1] > most THEN most ELSE 2 * delay[i - 1]
    IN Seconds(delay[n])

CalculateNextRetry(n) == Doubled(300, 86400, n)
smtpDelay(n) == Doubled(5, 3600, n)

Delay(n) ==
    CASE schedule \in {"exponential", "linear", "fixed"} -> calculateRetryDelay(schedule, base, n)
      [] schedule = "notification" -> CalculateNextRetry(n)
      [] schedule = "smtp" -> smtpDelay(n)
      [] OTHER -> managerDelay(schedule, n - 1)

Init ==
    /\ schedule \in Schedules
    /\ base \in {[FiveSeconds EXCEPT !.e = @ + b] : b \in Longer}
    /\ schedule \in {"exponential", "linear", "fixed"} \/ base = FiveSeconds
    /\ attempt = 0 /\ wait = Seconds(0) /\ last = Seconds(0)

Retry ==
    /\ attempt < IF schedule = "exponential" THEN MaxAttempts ELSE FewAttempts
    /\ attempt' = attempt + 1
    /\ last' = wait /\ wait' = Delay(attempt + 1)
    /\ UNCHANGED <<schedule, base>>

Next == Retry

Spec == Init /\ [][Next]_vars

-----------------------------------------------------------------------------
(* The properties.                                                         *)

TypeOK ==
    /\ schedule \in Schedules /\ attempt \in 0 .. MaxAttempts
    /\ \A d \in {base, wait, last} : d.m \in Int /\ d.e \in Nat

Most ==
    CASE schedule = "exponential" -> FiveMinutes
      [] schedule = "notification" -> Seconds(86400)
      [] schedule = "smtp" -> Seconds(3600)
      [] schedule \in {"linear", "fixed"} -> [base EXCEPT !.m = @ * FewAttempts]
      [] OTHER -> Seconds(600)

\* The shifted base fits the 63 bits of a positive duration: 9765625 has 24.
Fits == schedule = "exponential" => base.e + attempt <= 39

\* A retry is never sooner after its failure than the one before it, nor later than
\* the schedule allows: no boundary of the loops, caps and shifts makes a wait shrink,
\* as long as the shift of the executor's exponential delay does not overflow.  The cap
\* is applied after the shift, so that the first delay that overflows passes it as a
\* negative number: that retry does not wait at all.
WaitsGrow ==
    /\ attempt > 0 /\ Fits => wait.m > 0 /\ AtMost(last, wait) /\ AtMost(wait, Most)
    /\ schedule = "exponential" /\ base.e + attempt = 40 => wait.m < 0
=============================================================================
