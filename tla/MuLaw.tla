------------------------------- MODULE MuLaw -------------------------------
(***************************************************************************)
(* G.711 mu-law: encode_mulaw of src/vhp_producer.cpp and mulaw_to_linear  *)
(* of include/vhp/codec.hpp, on 16-bit samples and bytes.                  *)
(***************************************************************************)
EXTENDS Shift, Integers, FiniteSetsExt

kBias == 132
kClip == 32635

Int16 == -32768 .. 32767
Byte == 0 .. 255

Magnitude(sample) == IF sample < 0 THEN - sample ELSE sample

\* The byte for a biased magnitude: the exponent is that of its first bit found
\* going down from the fifteenth, and 0 when there is none above the eighth.
Code(sample, value) ==
  LET exponent == Max({0} \cup {e \in 1 .. 7 : (value \div Bit(e + 7)) % 2 = 1})
      mantissa == (value \div Bit(exponent + 3)) % 16
  IN  255 - ((IF sample < 0 THEN 128 ELSE 0) + 16 * exponent + mantissa)

\* Slip: the magnitude is not clipped before the bias is added.
Encode_NoClip(sample) == Code(sample, Magnitude(sample) + kBias)

Encode(sample) == Code(sample, Min({Magnitude(sample), kClip}) + kBias)

Decode(byte) ==
  LET mu       == 255 - byte
      exponent == (mu \div 16) % 8
      sample   == (8 * (mu % 16) + 132) * Bit(exponent) - 132
      signed   == IF mu >= 128 THEN - sample ELSE sample
  IN  Max({-32768, Min({32767, signed})})

-----------------------------------------------------------------------------
(* A property of the pair.                                                 *)

\* Each byte is the code of what it stands for, but for the second zero; a sample is
\* off by at most one part in thirty-two, bias included, or is the loudest there is;
\* and of two samples the greater is not heard as the lesser.
RoundTrip ==
  LET Heard(s) == Decode(Encode(s))
      Error(s) == Magnitude(Heard(s) - s)
  IN  /\ \A b \in Byte \ {127} : Encode(Decode(b)) = b
      /\ \A s \in Int16 : /\ Magnitude(s) <= kClip => 32 * Error(s) <= Magnitude(s) + kBias
                          /\ Magnitude(s) > kClip => Magnitude(Heard(s)) = 32124
                          /\ s < 32767 => Heard(s) <= Heard(s + 1)
=============================================================================
