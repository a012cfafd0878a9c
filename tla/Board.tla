--------------------------------- MODULE Board ---------------------------------
(* The clock of the board, which the libraries see as millis(). *)
EXTENDS Integers

CONSTANTS
    Wrap,      \* units of time until millis() wraps: 2^32 milliseconds
    StartTime  \* when the board was started

ASSUME BoardAssumption == Wrap \in Nat \ {0} /\ StartTime \in Nat

VARIABLE clock \* the true time

\* What millis() shows at some time, and now.
millisAt(time) == (time - StartTime) % Wrap

millis == millisAt(clock)
=============================================================================
