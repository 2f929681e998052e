---------------------------- MODULE MCCommandRun ----------------------------
(* The instance of CommandRun for TLC, and the volume arithmetic of the    *)
(* commands it runs against its definition, on small numbers.              *)
EXTENDS CommandRun, Integers

V == INSTANCE VolumeScale

\* math.Round(a / b): the nearest whole number, of two the one farther from
\* zero.
Nearest(a, b) ==
    CHOOSE n \in -20..20 :
        /\ 2 * (n * b - a) \in -b..b
        /\ 2 * (n * b - a) = b => a > 0
        /\ 2 * (n * b - a) = -b => a < 0

ASSUME RoundsToNearest ==
    \A a \in -20..20, b \in 1..6 : V!Round(a, b) = Nearest(a, b)

=============================================================================
