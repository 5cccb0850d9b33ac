---------------------------- MODULE RegisterCodec ----------------------------
(***************************************************************************)
(* What the words of a register mean and which words a write sends         *)
(* (codec.py), with the check a value passes first (`Register.validate`).  *)
(* One register of the board is read, written, and switched off and on in  *)
(* the controller's own menu.  Physical values are counted in thousandths. *)
(***************************************************************************)
EXTENDS Integers

CONSTANTS Registers,  \* the kinds of registers of the map
          Content(_), \* the words the board may hold in a register
          Asked,      \* the values a caller may ask for
          None

Word == 0..(2^16 - 1)

\* Number of words: dates and 32-bit values take two.
length(r) == IF r.type \in {"uint32", "dtime"} THEN 2 ELSE 1

\* One raw step of a register, in thousandths; the scale is 1 if it has none.
Unit(r) == IF r.type = "temp" THEN 100 ELSE r.scale

\* Every optional `uint16` a user may write has a maximum below the flag; no
\* `uint32` of the map has a scale.
ASSUME RegisterAssumption ==
  /\ \A r \in Registers :
       /\ r.type \in {"uint16", "temp", "uint32", "dtime"}
       /\ {r.optional, r.writable} \subseteq BOOLEAN
       /\ r.scale \in Nat \ {0}
       /\ r.minimum \in Int \cup {None} /\ r.maximum \in Int \cup {None}
       /\ r.step \in Nat \cup {None} /\ (r.options = None \/ r.options \subseteq Int)
       /\ r.type = "uint32" => r.scale = 1000
       /\ r.writable => r.type \in {"uint16", "temp"}
       /\ r.writable /\ r.optional /\ r.type = "uint16" =>
            r.maximum # None /\ r.maximum <= 32767 * r.scale
       /\ Content(r) \subseteq [1..length(r) -> Word]
  /\ Asked \subseteq Int
  /\ None \notin [year : Nat, month : Nat, day : Nat, hour : Nat, minute : Nat]

VARIABLES register,  \* the register looked at
          words,     \* what the board holds there
          shown,     \* the last DecodedValue read from it
          asked,     \* the value of the last write
          outcome    \* idle, written, invalid (`validate`) or unfit (`encode`)

vars == <<register, words, shown, asked, outcome>>
-----------------------------------------------------------------------------
(* Words *)

Bit(w, n) == (w \div 2^n) % 2
Field(w, n, width) == (w \div 2^n) % 2^width

to_int16(raw) == IF Bit(raw, 15) = 1 THEN raw - 2^16 ELSE raw

\* Fault of from_int16: the result is not cut to 16 bits.
FromInt16Unmasked(value) == value

from_int16(value) == value % 2^16

Magnitude(n) == IF n < 0 THEN -n ELSE n

\* `_round_half_up` of n / d: ties go away from zero.
RoundHalfUp(n, d) ==
  (IF n < 0 THEN -1 ELSE 1) * ((2 * Magnitude(n) + d) \div (2 * d))
-----------------------------------------------------------------------------
(* Decoding *)

Decoded(v, off) == [value |-> v, disabled |-> off]

\* Fault of decode_uint16: bit 15 is a flag in every register.
DecodeUint16Masked(raw, optional, unit) ==
  Decoded((raw % 2^15) * unit, optional /\ Bit(raw, 15) = 1)

decode_uint16(raw, optional, unit) ==
  IF optional THEN Decoded((raw % 2^15) * unit, Bit(raw, 15) = 1)
  ELSE Decoded(raw * unit, FALSE)

\* raw ^ TEMP_DISABLE_BIT
FlipBit14(raw) == IF Bit(raw, 14) = 1 THEN raw - 2^14 ELSE raw + 2^14

\* External: what the controller's menu does to bit 15.
FlipBit15(raw) == IF Bit(raw, 15) = 1 THEN raw - 2^15 ELSE raw + 2^15

\* Fault of decode_temp: the flag is masked off instead of flipped.
DecodeTempMasked(raw, optional, unit) ==
  LET off == optional /\ Bit(raw, 15) # Bit(raw, 14)
      value == IF off /\ Bit(raw, 14) = 1 THEN FlipBit14(raw) ELSE raw
  IN  Decoded(to_int16(value) * unit, off)

\* The flag is relative to the sign: bit 15 XOR bit 14.
decode_temp(raw, optional, unit) ==
  LET off == optional /\ Bit(raw, 15) # Bit(raw, 14)
  IN  Decoded(to_int16(IF off THEN FlipBit14(raw) ELSE raw) * unit, off)

\* A value of 32 bits is the pair of its halves, high word first.
decode_uint32(high, low, optional) ==
  IF optional THEN Decoded(<<high % 2^15, low>>, Bit(high, 15) = 1)
  ELSE Decoded(<<high, low>>, FALSE)

DaysIn(year, month) ==
  IF month = 2 THEN IF year % 4 = 0 /\ (year % 100 # 0 \/ year % 400 = 0) THEN 29 ELSE 28
  ELSE IF month \in {4, 6, 9, 11} THEN 30 ELSE 31

\* What `datetime` accepts.
IsDate(d) == /\ d.month \in 1..12 /\ d.day \in 1..DaysIn(d.year, d.month)
             /\ d.hour < 24 /\ d.minute < 60

\* The bit fields of a date: year and month in the high word, the rest below.
Packed(high, low) ==
  [year |-> Field(high, 4, 8) + 1900, month |-> Field(high, 0, 4),
   day |-> Field(low, 11, 5), hour |-> Field(low, 6, 5), minute |-> Field(low, 0, 6)]

decode_dtime(high, low) ==
  LET d == Packed(high, low)
  IN  Decoded(IF IsDate(d) THEN d ELSE None, Bit(high, 15) = 1)

decode(r, ws) ==
  CASE r.type = "uint16" -> decode_uint16(ws[1], r.optional, Unit(r))
    [] r.type = "temp"   -> decode_temp(ws[1], r.optional, Unit(r))
    [] r.type = "uint32" -> decode_uint32(ws[1], ws[2], r.optional)
    [] r.type = "dtime"  -> decode_dtime(ws[1], ws[2])
-----------------------------------------------------------------------------
(* Encoding *)

\* The raw value a write rounds to, and whether the type can carry it.
Raw(r, v) == RoundHalfUp(v, Unit(r))

CarriesUint16(raw) == raw \in Word
CarriesTemp(raw, optional) ==
  raw \in -(2^15)..(2^15 - 1) /\ (optional => Bit(from_int16(raw), 15) = Bit(from_int16(raw), 14))

Carries(r, v) == IF r.type = "temp" THEN CarriesTemp(Raw(r, v), r.optional)
                 ELSE CarriesUint16(Raw(r, v))

\* `encode` of a value its type can carry; dates and pairs are never written.
encode(r, v) == <<IF r.type = "temp" THEN from_int16(Raw(r, v)) ELSE Raw(r, v)>>

\* The years the eight bits of a date reach.
CarriesDtime(d) == d.year - 1900 \in 0..255

encode_dtime(d, off) ==
  <<(IF off THEN 2^15 ELSE 0) + (d.year - 1900) * 2^4 + d.month,
    d.day * 2^11 + d.hour * 2^6 + d.minute>>

\* Fault of Valid: the upper bound is not checked.
ValidAboveMaximum(r, v) ==
  /\ r.minimum # None => v >= r.minimum
  /\ r.options # None => v \in r.options
  /\ r.step # None =>
       (v - (IF r.minimum # None THEN r.minimum ELSE 0)) % r.step = 0

\* Register.validate
Valid(r, v) ==
  /\ r.minimum # None => v >= r.minimum
  /\ r.maximum # None => v <= r.maximum
  /\ r.options # None => v \in r.options
  /\ r.step # None =>
       (v - (IF r.minimum # None THEN r.minimum ELSE 0)) % r.step = 0
-----------------------------------------------------------------------------
Init == /\ register \in Registers
        /\ words \in Content(register)
        /\ shown = None /\ asked = None /\ outcome = "idle"

Read == /\ shown' = decode(register, words)
        /\ UNCHANGED <<register, words, asked, outcome>>

\* `WaterstageRuntime.async_write` and `MbioClient.async_write_register`.
Write(v) == /\ register.writable
            /\ asked' = v
            /\ outcome' = IF ~Valid(register, v) THEN "invalid"
                          ELSE IF Carries(register, v) THEN "written" ELSE "unfit"
            /\ words' = IF outcome' = "written" THEN encode(register, v) ELSE words
            /\ UNCHANGED <<register, shown>>

\* The value on show is sent back as it is.
WriteShown == shown # None /\ Write(shown.value)

\* External: the controller's menu disables a parameter, or enables it again.
Menu == /\ register.optional \/ register.type = "dtime"
        /\ words' = [words EXCEPT
             ![1] = IF register.type = "temp" THEN FlipBit14(@) ELSE FlipBit15(@)]
        /\ outcome' = "idle"
        /\ UNCHANGED <<register, shown, asked>>

Next == Read \/ WriteShown \/ Menu \/ \E v \in Asked : Write(v)

Spec == Init /\ [][Next]_vars
-----------------------------------------------------------------------------
(* Properties *)

TypeOK == /\ register \in Registers
          /\ words \in [1..length(register) -> Word]
          /\ outcome \in {"idle", "written", "invalid", "unfit"}

\* What was written reads back as what was asked for, to half a raw step, and
\* never as a disabled data point, for negative values and at every bound.
WrittenReadsBack ==
  outcome = "written" =>
    LET d == decode(register, words)
    IN  ~d.disabled /\ 2 * Magnitude(d.value - asked) <= Unit(register)

\* Disabling a parameter and enabling it again changes the flag and nothing
\* else: the value under the flag is the same for either sign.
MenuKeepsValue ==
  [][Menu => LET d == decode(register, words)
             IN  decode(register, words') = [d EXCEPT !.disabled = ~@]]_vars

\* Writing back the value a register shows is refused or leaves the words as
\* they are, so a read and a write of the same value never drift apart.
WriteBackKeepsWords ==
  [][WriteShown /\ shown = Decoded(shown.value, FALSE) /\ shown = decode(register, words)
       => words' = words]_vars

\* A date that was read is one that can be packed, and survives it, flag
\* included; a slot that holds no date is None and not taken for a nearby date.
DatesRoundTrip ==
  register.type = "dtime" =>
    LET d == decode(register, words)
    IN  IF d.value = None THEN ~IsDate(Packed(words[1], words[2]))
        ELSE LET again == encode_dtime(d.value, d.disabled)
             IN  CarriesDtime(d.value) /\ decode_dtime(again[1], again[2]) = d

\* Both directions, for every type of register.
ReadsAndWritesAgree == WrittenReadsBack /\ DatesRoundTrip
=============================================================================
