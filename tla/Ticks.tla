--------------------------------- MODULE Ticks ---------------------------------
(***************************************************************************)
(* Times: a time.Duration counts nanoseconds, Windows counts ticks of 100  *)
(* nanoseconds, both in signed integers of 64 bits.  TicksToDuration and   *)
(* DurationToTicks (pkg/smtc/types.go) carry the timeline and the position *)
(* to seek to; durationToReferenceTime (pkg/audio/loopback/capture.go) the *)
(* length of the capture buffer.  The width is a parameter: the integers   *)
(* are -MaxInt - 1 to MaxInt, and arithmetic wraps around.                 *)
(***************************************************************************)
EXTENDS Integers

CONSTANT MaxInt \* 2^63 - 1 in the code

ASSUME MaxIntAssumption == MaxInt \in Nat /\ MaxInt >= 100

MinInt == -MaxInt - 1
Int64  == MinInt..MaxInt

\* what is left of a result that does not fit
Wrap(n) == IF n \in Int64 THEN n ELSE ((n - MinInt) % (2 * (MaxInt + 1))) + MinInt

\* a slip: a division that rounds down, as a shift or \div does
QuoDown(n, m) == n \div m

\* Go's division truncates toward zero
Quo(n, m) == IF n >= 0 THEN n \div m ELSE -((-n) \div m)

TicksToDuration(ticks) == Wrap(ticks * 100)
DurationToTicks(d) == Quo(d, 100)

\* nothing requested, or nonsense: 0, which stands for the default
ReferenceTime(d) == IF d <= 0 THEN 0 ELSE Quo(d, 100)

\* the ticks a time.Duration can hold; others wrap around
Representable == Quo(MinInt, 100)..Quo(MaxInt, 100)
=============================================================================
