-------------------------------- MODULE Formats --------------------------------
(***************************************************************************)
(* How a WAVEFORMATEX of the audio engine becomes an audio.Format          *)
(* (internal/wasapi/format.go), which of those ConvertToFloat32 accepts,   *)
(* and what it makes of the bytes of a sample (pkg/audio/pcm.go, types.go). *)
(*                                                                         *)
(* A raw format is a record of the fields the code reads; the rate and the *)
(* channels are left out.  A float is only the class it belongs to.        *)
(***************************************************************************)
EXTENDS Integers, Sequences

CONSTANTS Bits, \* the bit depths a raw format may give
          Byte  \* the bytes a sample may be made of

ASSUME BitsAssumption == Bits \subseteq Nat
ASSUME ByteAssumption == Byte \subseteq 0..255

Tags == {"pcm", "float", "extensible", "other"}
SubFormats == {"pcm", "float", "other"}
SampleFormats == {"Unknown", "Float32", "Int16", "Int24", "Int32"}
ExtensionSize == 22 \* what an extensible format has after its WAVEFORMATEX

Raw == [tag : Tags, sub : SubFormats, bits : Bits, valid : Bits, cbSize : {0, ExtensionSize}]
Format == [sample : SampleFormats, bits : Bits]

\* intSampleFormat
IntSample(bits) == IF bits = 16 THEN "Int16"
                   ELSE IF bits = 24 THEN "Int24"
                   ELSE IF bits = 32 THEN "Int32" ELSE "Unknown"

FloatSample(bits) == IF bits = 32 THEN "Float32" ELSE "Unknown"

\* sampleFormatFromTag
SampleOfTag(raw) == IF raw.tag = "pcm" THEN IntSample(raw.bits)
                    ELSE IF raw.tag = "float" THEN FloatSample(raw.bits) ELSE "Unknown"

\* ValidBitsPerSample, all bits when the field makes no sense
ValidBits(raw) == IF raw.valid \in 1..raw.bits THEN raw.valid ELSE raw.bits

\* a slip: the bits of the container are taken for those of the sample
SampleOfContainer(raw) == IF raw.sub = "pcm" THEN IntSample(raw.bits)
                          ELSE IF raw.sub = "float" THEN FloatSample(raw.bits) ELSE "Unknown"

\* sampleFormatFromSubFormat
SampleOfSub(raw) == IF raw.sub = "pcm"
                    THEN IntSample(IF ValidBits(raw) > 0 THEN ValidBits(raw) ELSE raw.bits)
                    ELSE IF raw.sub = "float" THEN FloatSample(raw.bits) ELSE "Unknown"

\* an extensible format of 32 bits that is not recognized
FallsBack(raw) == raw.tag = "extensible" /\ SampleOfSub(raw) = "Unknown" /\ raw.bits = 32

SampleOf(raw) == IF FallsBack(raw) THEN "Float32"
                 ELSE IF raw.tag = "extensible" THEN SampleOfSub(raw) ELSE SampleOfTag(raw)

\* parseWaveFormat fails
Unparsable(raw) == raw.tag = "extensible" /\ raw.cbSize < ExtensionSize

\* parseWaveFormat
Parse(raw) == [sample |-> SampleOf(raw), bits |-> raw.bits]

\* CanConvertToFloat32
CanConvert(format) == \/ format.sample \in {"Float32", "Int32"} /\ format.bits = 32
                      \/ format.sample = "Int16" /\ format.bits = 16
                      \/ format.sample = "Int24" /\ format.bits = 24

-----------------------------------------------------------------------------
(* ConvertToFloat32: the integer of a sample's bytes, the lowest first.  The *)
(* code divides it by half the range, HalfRange.                             *)
Samples(sample) == [1..(IF sample = "Int16" THEN 2 ELSE 3) -> Byte]

Unsigned16(b) == b[1] + 256 * b[2]
Unsigned24(b) == b[1] + 256 * b[2] + 65536 * b[3]

\* int16(u), and raw |= ^0xFFFFFF for 24 bits
Signed16(u) == IF u >= 32768 THEN u - 65536 ELSE u
Signed24(u) == IF u >= 8388608 THEN u - 16777216 ELSE u

HalfRange(sample) == IF sample = "Int16" THEN 32768 ELSE 8388608

SampleValue(sample, b) == IF sample = "Int16" THEN Signed16(Unsigned16(b))
                                              ELSE Signed24(Unsigned24(b))

\* the classes of floats: clampFloat32, after NaN and infinities were zeroed
FloatClasses == {"NaN", "-Inf", "+Inf", "< -1", "in range", "> 1"}
ConvertFloat(class) == IF class \in {"NaN", "-Inf", "+Inf"} THEN "0"
                       ELSE IF class = "> 1" THEN "1"
                       ELSE IF class = "< -1" THEN "-1" ELSE class

-----------------------------------------------------------------------------
(* What the bytes are: the meaning of a raw format (external).               *)
IsFloat(raw) == raw.tag = "float" \/ (raw.tag = "extensible" /\ raw.sub = "float")
IsInt(raw)   == raw.tag = "pcm" \/ (raw.tag = "extensible" /\ raw.sub = "pcm")

\* the width of integers that fill their container, 0 for others
Width(raw) == IF raw.tag = "extensible" /\ ValidBits(raw) # raw.bits THEN 0 ELSE raw.bits

\* a stream is what its sample format says
Is(raw, sample) == \/ sample = "Float32" /\ IsFloat(raw) /\ raw.bits = 32
                   \/ IsInt(raw) /\ \/ sample = "Int16" /\ Width(raw) = 16
                                    \/ sample = "Int24" /\ Width(raw) = 24
                                    \/ sample = "Int32" /\ Width(raw) = 32

\* two's complement: the highest byte has the sign
TwosComplement(b) ==
    LET n == Len(b)
        top == IF b[n] >= 128 THEN b[n] - 256 ELSE b[n]
    IN  IF n = 2 THEN b[1] + 256 * top ELSE b[1] + 256 * b[2] + 65536 * top
=============================================================================
