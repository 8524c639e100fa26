------------------------------ MODULE Conversions ------------------------------
(***************************************************************************)
(* The pure functions of the program at work: each is given a value, any   *)
(* that Windows, a device or the program may give it, and makes another.   *)
(* The definitions are those of Formats and Ticks.                         *)
(***************************************************************************)
EXTENDS Formats, Ticks

VARIABLES given,    \* the value, with the function it is for
          finished, \* the function has returned
          made      \* what it returned; before, what it was given

conversionVars == <<given, finished, made>>

Given == [for : {"parse"}, raw : Raw]
         \cup [for : {"convert"}, sample : {"Int16"}, bytes : Samples("Int16")]
         \cup [for : {"convert"}, sample : {"Int24"}, bytes : Samples("Int24")]
         \cup [for : {"clamp"}, class : FloatClasses]
         \cup [for : {"fromTicks", "toTicks", "length"}, number : Int64]

ConversionInit == given \in Given /\ finished = FALSE /\ made = given

Makes(value) == ~finished /\ finished' = TRUE /\ made' = value /\ UNCHANGED given

\* GetMixFormat, when parseWaveFormat does not fail
ParsesFormat == given.for = "parse" /\ ~Unparsable(given.raw) /\ Makes(Parse(given.raw))

\* ConvertToFloat32, one sample of it
ConvertsInt == given.for = "convert" /\ Makes(SampleValue(given.sample, given.bytes))
ConvertsFloat == given.for = "clamp" /\ Makes(ConvertFloat(given.class))

MakesDuration == given.for = "fromTicks" /\ Makes(TicksToDuration(given.number))
MakesTicks == given.for = "toTicks" /\ Makes(DurationToTicks(given.number))
MakesReferenceTime == given.for = "length" /\ Makes(ReferenceTime(given.number))

ConversionNext == ParsesFormat \/ ConvertsInt \/ ConvertsFloat
        \/ MakesDuration \/ MakesTicks \/ MakesReferenceTime

ConversionSpec == ConversionInit /\ [][ConversionNext]_conversionVars

Made(for) == finished /\ given.for = for

-----------------------------------------------------------------------------
(* Properties. *)

(* format.go:24-103, pcm.go:10-80.  ConvertToFloat32 accepts a stream only   *)
(* for what it is: floats of 32 bits, or integers whose valid bits fill      *)
(* their container, of just that width; and it refuses none of these.  The   *)
(* exception is FallsBack: an extensible stream of 32 bits that is not       *)
(* recognized, integers of 20 valid bits say, is converted as floats.  The   *)
(* integer that a sample's bytes are taken for is that of two's complement,  *)
(* in the half-open range that the division by HalfRange makes -1 to 1; and  *)
(* no float leaves that range closed.                                        *)
FormatsTruthful ==
    /\ given \in Given
    /\ Made("parse") /\ ~FallsBack(given.raw) =>
         /\ CanConvert(made) => Is(given.raw, made.sample)
         /\ (\E sample \in SampleFormats : Is(given.raw, sample)) => CanConvert(made)
    /\ Made("convert") =>
         /\ made = TwosComplement(given.bytes)
         /\ made \in -HalfRange(given.sample)..(HalfRange(given.sample) - 1)
    /\ Made("clamp") => made \in {"-1", "0", "in range", "1"}

(* types.go:144-152, control.go:150, create.go:340-352, monitor.go:645-657,  *)
(* capture.go:271-276.  A time that comes from Windows and goes back is the  *)
(* same, if a Duration can hold it; one that goes to Windows and comes back  *)
(* has lost less than a tick, never grows in size and keeps its sign; no two *)
(* times change order; and InitializeLoopback is never asked for a negative  *)
(* buffer, which it refuses, or for a longer one than the program wants.     *)
TicksExact ==
    /\ Made("fromTicks") /\ given.number \in Representable =>
         /\ DurationToTicks(made) = given.number
         /\ given.number + 1 \in Representable => made < TicksToDuration(given.number + 1)
    /\ Made("toTicks") =>
         /\ LET back == TicksToDuration(made)
            IN  IF given.number >= 0
                THEN back \in 0..given.number /\ given.number - back < 100
                ELSE back \in given.number..0 /\ back - given.number < 100
         /\ made <= DurationToTicks(given.number + 1)
    /\ Made("length") =>
         /\ made >= 0
         /\ given.number > 0 => made * 100 \in (given.number - 99)..given.number
=============================================================================
