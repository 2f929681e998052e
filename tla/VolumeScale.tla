---------------------------- MODULE VolumeScale ----------------------------
(***************************************************************************)
(* The arithmetic of a volume: the wire steps of a receiver and the dB and *)
(* percent a user gives (pkg/yxc/scale.go, internal/cli/volume.go), and    *)
(* the grids of the YNCA values (pkg/ynca/codec.go).                       *)
(*                                                                         *)
(* A float is an integer here, in a unit small enough for the values at    *)
(* hand (tenths of a dB, say): what binary fractions round off is left     *)
(* out, and so are NaN and the infinities, which are refused or clamped    *)
(* before any conversion.  An int has no width: what a receiver reports is *)
(* brought into it before it gets here.                                    *)
(***************************************************************************)
EXTENDS Integers

\* math.Round(a / b), half away from zero.
Half(a, b)  == (2 * a + b) \div (2 * b)
Round(a, b) == IF a >= 0 THEN Half(a, b) ELSE -Half(-a, b)

\* clampInt, and the clamping in dB that comes before a conversion.
Clamp(n, lo, hi) == IF n < lo THEN lo ELSE IF n > hi THEN hi ELSE n

\* A scale is where it begins and its step.  One the receiver does not report,
\* or reports without a step, is the fallback.
VolumeDBScale(reported, fallback) ==
    IF reported.step > 0 THEN reported ELSE fallback

VolumeIntToDB(scale, n)  == scale.baseline + scale.step * n
VolumeDBToInt(scale, db) == Round(db - scale.baseline, scale.step)

\* volume --db: clamped in dB, converted, clamped again.
FromDB(scale, db, lo, hi) ==
    Clamp(VolumeDBToInt(scale, Clamp(db, VolumeIntToDB(scale, lo), VolumeIntToDB(scale, hi))),
          lo, hi)

\* volume --percent: p of the whole 100 percent.
FromPercent(p, whole, lo, hi) ==
    LET v == lo + Round(p * (hi - lo), whole)
    IN  Clamp(v, lo, hi)

\* formatStepped: a volume, a tone or a frequency on its grid.
Stepped(value, step) == IF step > 0 THEN Round(value, step) * step ELSE value

=============================================================================
