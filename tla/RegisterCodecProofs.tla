-------------------------- MODULE RegisterCodecProofs --------------------------
(***************************************************************************)
(* Proofs about RegisterCodec, for every kind of register it admits, every *)
(* word and every value: scales, limits, dates and flags are not sampled.  *)
(***************************************************************************)
EXTENDS RegisterCodec, TLAPS

-----------------------------------------------------------------------------
(* Numbers *)

\* The powers of two the codec uses, as numbers.
LEMMA Powers ==
  /\ 2^16 = 65536 /\ 2^15 = 32768 /\ 2^14 = 16384 /\ 2^11 = 2048 /\ 2^8 = 256
  /\ 2^6 = 64 /\ 2^5 = 32 /\ 2^4 = 16 /\ 2^0 = 1
OBVIOUS

\* Division by a variable, as the provers need it.
LEMMA Division ==
  ASSUME NEW a \in Nat, NEW b \in Nat \ {0}
  PROVE  /\ a \div b \in Nat
         /\ (a \div b) * b <= a /\ a < (a \div b) * b + b
OBVIOUS

\* Twice the distance of a rounded quotient from the exact one is a divisor
\* at most, and the sign is kept.
LEMMA Rounding ==
  ASSUME NEW n \in Int, NEW d \in Nat \ {0}
  PROVE  /\ RoundHalfUp(n, d) \in Int
         /\ 2 * Magnitude(RoundHalfUp(n, d) * d - n) <= d
<1> DEFINE m == Magnitude(n)
           q == (2 * m + d) \div (2 * d)
<1>1. m \in Nat
  BY DEF Magnitude
<1>2. 2 * m + d \in Nat /\ 2 * d \in Nat \ {0}
  BY <1>1
<1>3. q \in Nat /\ q * (2 * d) <= 2 * m + d /\ 2 * m + d < q * (2 * d) + 2 * d
  BY <1>2, Division
<1>4. q * (2 * d) = 2 * (q * d) /\ q * d \in Nat
  BY <1>3
<1>5. 2 * (q * d) <= 2 * m + d /\ 2 * m < 2 * (q * d) + d
  BY <1>1, <1>3, <1>4
<1>6. RoundHalfUp(n, d) = IF n < 0 THEN -q ELSE q
  <2>1. RoundHalfUp(n, d) = (IF n < 0 THEN -1 ELSE 1) * q
    BY DEF RoundHalfUp
  <2> QED BY <2>1, <1>3
<1> HIDE DEF q
<1>7. CASE n < 0
  <2>1. m = -n /\ RoundHalfUp(n, d) = -q
    BY <1>6, <1>7 DEF Magnitude
  <2>2. (-q) * d = -(q * d)
    BY <1>3
  <2> QED BY <1>3, <1>4, <1>5, <2>1, <2>2 DEF Magnitude
<1>8. CASE ~(n < 0)
  <2>1. m = n /\ RoundHalfUp(n, d) = q
    BY <1>6, <1>8 DEF Magnitude
  <2> QED BY <1>3, <1>4, <1>5, <2>1 DEF Magnitude
<1> QED BY <1>7, <1>8

\* A multiple of d other than 0 is at least d away from 0.
LEMMA Times ==
  ASSUME NEW j \in Int, NEW d \in Nat
  PROVE  (j >= 1 => j * d >= d) /\ (j <= -1 => j * d <= -d)
OBVIOUS

\* A whole number of units is rounded to that number.
LEMMA RoundingBack ==
  ASSUME NEW k \in Int, NEW d \in Nat \ {0}
  PROVE  RoundHalfUp(k * d, d) = k
<1> DEFINE x == RoundHalfUp(k * d, d)
<1>1. k * d \in Int
  OBVIOUS
<1>2. x \in Int /\ 2 * Magnitude(x * d - k * d) <= d
  BY <1>1, Rounding
<1> HIDE DEF x
<1>3. x - k \in Int /\ (x - k) * d = x * d - k * d /\ x * d \in Int
  BY <1>2
<1>4. (x - k >= 1 => x * d - k * d >= d) /\ (x - k <= -1 => x * d - k * d <= -d)
  BY <1>3, Times
<1>5. ~(x - k >= 1)
  BY <1>1, <1>2, <1>3, <1>4 DEF Magnitude
<1>6. ~(x - k <= -1)
  BY <1>1, <1>2, <1>3, <1>4 DEF Magnitude
<1>7. x = k
  BY <1>2, <1>5, <1>6
<1> QED BY <1>7 DEF x

-----------------------------------------------------------------------------
(* Words *)

\* A word by its bounds: the provers do not look into a range of this size.
LEMMA WordIs ==
  \A w : w \in Word <=> w \in Int /\ 0 <= w /\ w <= 65535
<1>1. \A n \in Nat : \A w : w \in 0..n <=> w \in Int /\ 0 <= w /\ w <= n
  OBVIOUS
<1>2. 2^16 - 1 = 65535 /\ 2^16 - 1 \in Nat
  OBVIOUS
<1>3. \A w : w \in Word <=> w \in Int /\ 0 <= w /\ w <= 2^16 - 1
  BY <1>1, <1>2 DEF Word
<1> QED BY <1>2, <1>3

\* The flags of a word.
LEMMA BitIs ==
  ASSUME NEW w \in Word
  PROVE  /\ Bit(w, 15) = IF w >= 32768 THEN 1 ELSE 0
         /\ Bit(w, 14) = IF (16384 <= w /\ w < 32768) \/ 49152 <= w THEN 1 ELSE 0
<1>0. w \in Int /\ 0 <= w /\ w <= 65535
  BY WordIs
<1>1. Bit(w, 15) = (w \div 32768) % 2
  <2>1. 2^15 = 32768
    OBVIOUS
  <2> QED BY <2>1 DEF Bit
<1>2. Bit(w, 14) = (w \div 16384) % 2
  <2>1. 2^14 = 16384
    OBVIOUS
  <2> QED BY <2>1 DEF Bit
<1>3. (w \div 32768) % 2 = IF w >= 32768 THEN 1 ELSE 0
  BY <1>0
<1>4. PICK q \in 0..3 : q = w \div 16384 /\ 16384 * q <= w /\ w < 16384 * q + 16384
  BY <1>0
<1>5. q % 2 = IF q \in {1, 3} THEN 1 ELSE 0
  OBVIOUS
<1>6. q \in {1, 3} <=> (16384 <= w /\ w < 32768) \/ 49152 <= w
  BY <1>0, <1>4
<1>7. Bit(w, 14) = IF (16384 <= w /\ w < 32768) \/ 49152 <= w THEN 1 ELSE 0
  BY <1>2, <1>4, <1>5, <1>6
<1> QED BY <1>1, <1>3, <1>7

\* The two readings of a word, signed and as it travels, belong together.
LEMMA Signed ==
  /\ \A w \in Word :
       /\ to_int16(w) \in Int /\ -32768 <= to_int16(w) /\ to_int16(w) <= 32767
       /\ from_int16(to_int16(w)) = w
  /\ \A i \in Int : -32768 <= i /\ i <= 32767 =>
       from_int16(i) \in Word /\ to_int16(from_int16(i)) = i
<1>0. \A i \in Int : from_int16(i) = i % 65536
  BY Powers DEF from_int16
<1>1. \A w \in Word : to_int16(w) = IF w >= 32768 THEN w - 65536 ELSE w
  BY BitIs, Powers DEF to_int16
<1>2. ASSUME NEW i \in Int, -32768 <= i, i <= 32767
      PROVE  from_int16(i) = IF i < 0 THEN i + 65536 ELSE i
  BY <1>0, <1>2
<1>3. ASSUME NEW w \in Word
      PROVE  /\ to_int16(w) \in Int /\ -32768 <= to_int16(w) /\ to_int16(w) <= 32767
             /\ from_int16(to_int16(w)) = w
  <2>1. w \in Int /\ 0 <= w /\ w <= 65535
    BY WordIs
  <2>2. to_int16(w) \in Int /\ -32768 <= to_int16(w) /\ to_int16(w) <= 32767
    BY <1>1, <2>1
  <2> QED BY <1>1, <1>2, <2>1, <2>2
<1>4. ASSUME NEW i \in Int, -32768 <= i, i <= 32767
      PROVE  from_int16(i) \in Word /\ to_int16(from_int16(i)) = i
  <2>1. from_int16(i) \in Word
    BY <1>2, <1>4, WordIs
  <2> QED BY <1>1, <1>2, <1>4, <2>1
<1> QED BY <1>3, <1>4

\* Flipping bit 14 is its own inverse and leaves the sign alone.
LEMMA Flipped ==
  ASSUME NEW w \in Word
  PROVE  /\ FlipBit14(w) \in Word /\ FlipBit14(FlipBit14(w)) = w
         /\ Bit(FlipBit14(w), 15) = Bit(w, 15)
         /\ Bit(FlipBit14(w), 14) = 1 - Bit(w, 14)
<1> DEFINE high == (16384 <= w /\ w < 32768) \/ 49152 <= w
<1>0. w \in Int /\ 0 <= w /\ w <= 65535
  BY WordIs
<1>1. \A v \in Word : FlipBit14(v) = IF Bit(v, 14) = 1 THEN v - 16384 ELSE v + 16384
  <2>1. 2^14 = 16384
    OBVIOUS
  <2> QED BY <2>1 DEF FlipBit14
<1>2. FlipBit14(w) = IF high THEN w - 16384 ELSE w + 16384
  BY <1>1, BitIs
<1>3. FlipBit14(w) \in Word
  BY <1>0, <1>2, WordIs
<1>4. Bit(FlipBit14(w), 15) = Bit(w, 15) /\ Bit(FlipBit14(w), 14) = 1 - Bit(w, 14)
  <2>1. FlipBit14(w) >= 32768 <=> w >= 32768
    BY <1>0, <1>2
  <2>2. (16384 <= FlipBit14(w) /\ FlipBit14(w) < 32768) \/ 49152 <= FlipBit14(w) <=> ~high
    BY <1>0, <1>2
  <2> QED BY <1>3, <2>1, <2>2, BitIs
<1>5. FlipBit14(FlipBit14(w)) = w
  <2>1. Bit(w, 14) = IF high THEN 1 ELSE 0
    BY BitIs
  <2> QED BY <1>0, <1>1, <1>2, <1>3, <1>4, <2>1
<1> QED BY <1>3, <1>4, <1>5

-----------------------------------------------------------------------------
(* One register *)

\* What a kind of register is, as far as every lemma needs it.
LEMMA Kinds ==
  ASSUME NEW r \in Registers
  PROVE  /\ r.type \in {"uint16", "temp", "uint32", "dtime"}
         /\ r.optional \in BOOLEAN /\ r.writable \in BOOLEAN
         /\ Unit(r) \in Nat \ {0}
         /\ r.writable => r.type \in {"uint16", "temp"} /\ length(r) = 1
BY RegisterAssumption DEF Unit, length

\* A value on show that can be written is a number.
LEMMA ShownNumber ==
  ASSUME NEW r \in Registers, r.writable, NEW ws \in [1..length(r) -> Word]
  PROVE  decode(r, ws).value \in Int
<1>1. ws[1] \in Word /\ ws[1] \in Int
  BY Kinds, WordIs
<1>2. CASE r.type = "uint16"
  <2>1. 2^15 \in Nat \ {0}
    BY Powers
  <2>2. ws[1] % 2^15 \in Int
    BY <1>1, <2>1
  <2>3. decode(r, ws) = decode_uint16(ws[1], r.optional, Unit(r))
    BY <1>2 DEF decode
  <2>4. decode(r, ws).value \in {(ws[1] % 2^15) * Unit(r), ws[1] * Unit(r)}
    BY <2>3 DEF decode_uint16, Decoded
  <2> QED BY <1>1, <2>2, <2>4, Kinds
<1>3. CASE r.type = "temp"
  <2>1. decode(r, ws) = decode_temp(ws[1], r.optional, Unit(r))
    BY <1>3 DEF decode
  <2>2. decode(r, ws).value \in {to_int16(ws[1]) * Unit(r), to_int16(FlipBit14(ws[1])) * Unit(r)}
    BY <2>1 DEF decode_temp, Decoded
  <2>3. to_int16(ws[1]) \in Int /\ to_int16(FlipBit14(ws[1])) \in Int
    BY <1>1, Flipped, Signed
  <2> QED BY <2>2, <2>3, Kinds
<1> QED BY <1>2, <1>3, Kinds

\* What a temperature must be to travel.
LEMMA TempRange ==
  ASSUME NEW raw, NEW off, CarriesTemp(raw, off)
  PROVE  /\ raw \in Int /\ -32768 <= raw /\ raw <= 32767
         /\ off => Bit(from_int16(raw), 15) = Bit(from_int16(raw), 14)
<1>1. -(2^15) = -32768 /\ 2^15 - 1 = 32767
  BY Powers
<1>2. \A lo, hi \in Int : \A x : x \in lo..hi => x \in Int /\ lo <= x /\ x <= hi
  OBVIOUS
<1>3. -(2^15) \in Int /\ 2^15 - 1 \in Int
  BY Powers
<1>4. raw \in -(2^15)..(2^15 - 1)
  BY DEF CarriesTemp
<1>5. raw \in Int /\ -(2^15) <= raw /\ raw <= 2^15 - 1
  BY <1>2, <1>3, <1>4
<1> QED BY <1>1, <1>5 DEF CarriesTemp

\* An encoded value is a word.
LEMMA EncodedWord ==
  ASSUME NEW r \in Registers, r.writable, NEW v, Carries(r, v)
  PROVE  encode(r, v) \in [1..length(r) -> Word]
<1>1. CASE r.type = "temp"
  <2>1. from_int16(Raw(r, v)) \in Word
    BY <1>1, TempRange, Signed DEF Carries
  <2> QED BY <1>1, <2>1, Kinds DEF encode
<1>2. CASE r.type # "temp"
  <2>1. Raw(r, v) \in Word
    BY <1>2 DEF Carries, CarriesUint16
  <2> QED BY <1>2, <2>1, Kinds DEF encode
<1> QED BY <1>1, <1>2

\* Below its maximum an optional value leaves the flag of `uint16` clear.
LEMMA BelowTheFlag ==
  ASSUME NEW r \in Registers, r.writable, r.optional, r.type = "uint16",
         NEW v \in Int, Valid(r, v)
  PROVE  Raw(r, v) <= 32767
<1> DEFINE u == r.scale
           q == Raw(r, v)
<1>1. u \in Nat \ {0} /\ Unit(r) = u
  BY RegisterAssumption DEF Unit
<1>2. v <= 32767 * u
  BY RegisterAssumption DEF Valid
<1>3. q \in Int /\ 2 * Magnitude(q * u - v) <= u
  BY <1>1, Rounding DEF Raw
<1> HIDE DEF u, q
<1>4. (q - 32767) * u = q * u - 32767 * u /\ q * u \in Int
  BY <1>1, <1>3
<1>5. q - 32767 >= 1 => q * u - 32767 * u >= u
  BY <1>1, <1>3, <1>4, Times
<1>6. ~(q - 32767 >= 1)
  BY <1>1, <1>2, <1>3, <1>4, <1>5 DEF Magnitude
<1> QED BY <1>3, <1>6 DEF q

\* The parts of a decoded value.
LEMMA Parts ==
  ASSUME NEW v, NEW off
  PROVE  /\ Decoded(v, off).value = v
         /\ Decoded(v, off).disabled <=> off
BY DEF Decoded

\* The parts, of something known to be a decoded value.
LEMMA Valued ==
  ASSUME NEW d, NEW v, NEW off, d = Decoded(v, off)
  PROVE  d.value = v /\ (~d.disabled => ~off)
BY Parts

\* A write that passed both checks reads back as what was asked for.
LEMMA WrittenOne ==
  ASSUME NEW r \in Registers, r.writable, NEW v \in Int, Valid(r, v), Carries(r, v)
  PROVE  LET d == decode(r, encode(r, v))
         IN  ~d.disabled /\ 2 * Magnitude(d.value - v) <= Unit(r)
<1> DEFINE q == Raw(r, v)
<1>1. q \in Int /\ 2 * Magnitude(q * Unit(r) - v) <= Unit(r)
  BY Kinds, Rounding DEF Raw
<1> SUFFICES decode(r, encode(r, v)) = Decoded(q * Unit(r), FALSE)
  BY <1>1 DEF Decoded
<1>2. CASE r.type = "uint16"
  <2>1. encode(r, v)[1] = q /\ q \in Word
    BY <1>2 DEF encode, Carries, CarriesUint16
  <2>2. decode(r, encode(r, v)) = decode_uint16(q, r.optional, Unit(r))
    BY <1>2, <2>1 DEF decode
  <2>3. CASE r.optional
    <3>1. q \in Int /\ 0 <= q /\ q <= 32767
      BY <1>2, <2>1, <2>3, BelowTheFlag, WordIs
    <3>2. Bit(q, 15) = 0
      BY <2>1, <3>1, BitIs
    <3>3. q % 2^15 = q
      BY <3>1, Powers
    <3>4. decode(r, encode(r, v)) = Decoded(q * Unit(r), Bit(q, 15) = 1)
      BY <2>2, <2>3, <3>3, Zenon DEF decode_uint16
    <3>5. (Bit(q, 15) = 1) = FALSE
      BY <3>2
    <3> QED BY <3>4, <3>5, Zenon
  <2>4. CASE ~r.optional
    BY <2>2, <2>4 DEF decode_uint16
  <2> QED BY <2>3, <2>4
<1>3. CASE r.type = "temp"
  <2>1. encode(r, v)[1] = from_int16(q)
    BY <1>3 DEF encode
  <2>2. /\ -32768 <= q /\ q <= 32767
        /\ r.optional => Bit(from_int16(q), 15) = Bit(from_int16(q), 14)
    BY <1>3, TempRange DEF Carries
  <2>3. to_int16(from_int16(q)) = q
    BY <1>1, <2>2, Signed
  <2>4. decode(r, encode(r, v)) = decode_temp(from_int16(q), r.optional, Unit(r))
    BY <1>3, <2>1 DEF decode
  <2> DEFINE off == r.optional /\ Bit(from_int16(q), 15) # Bit(from_int16(q), 14)
  <2>5. off = FALSE
    BY <2>2
  <2>6. decode(r, encode(r, v)) =
          Decoded(to_int16(IF off THEN FlipBit14(from_int16(q)) ELSE from_int16(q)) * Unit(r), off)
    BY <2>4, Zenon DEF decode_temp
  <2> HIDE DEF off
  <2> QED BY <2>3, <2>5, <2>6, Zenon
<1> QED BY <1>2, <1>3, Kinds

\* A value on show with its flag clear is sent as the words it came from.
LEMMA WrittenBack ==
  ASSUME NEW r \in Registers, r.writable, NEW ws \in [1..length(r) -> Word],
         ~decode(r, ws).disabled
  PROVE  encode(r, decode(r, ws).value) = ws
<1> DEFINE w == ws[1]
<1>1. w \in Word /\ w \in Int /\ 0 <= w /\ w <= 65535 /\ ws = <<w>>
  BY Kinds, WordIs
<1> HIDE DEF w
<1>2. CASE r.type = "uint16"
  <2>1. decode(r, ws) = decode_uint16(w, r.optional, Unit(r))
    BY <1>2 DEF decode, w
  <2>2. decode(r, ws).value = w * Unit(r)
    <3>1. CASE r.optional
      <4>1. decode(r, ws) = Decoded((w % 2^15) * Unit(r), Bit(w, 15) = 1)
        BY <2>1, <3>1, Zenon DEF decode_uint16
      <4>2. Bit(w, 15) # 1
        <5>1. ~Decoded((w % 2^15) * Unit(r), Bit(w, 15) = 1).disabled
          BY <4>1, Zenon
        <5>2. ASSUME NEW flag, ~Decoded((w % 2^15) * Unit(r), flag).disabled
              PROVE  ~flag
          BY <5>2, Parts, Zenon
        <5> QED BY <5>1, <5>2, Zenon
      <4>3. w < 32768
        BY <1>1, <4>2, BitIs
      <4>4. w % 2^15 = w
        BY <1>1, <4>3, Powers
      <4>5. decode(r, ws).value = (w % 2^15) * Unit(r)
        BY <4>1, Parts
      <4> QED BY <4>4, <4>5
    <3>2. CASE ~r.optional
      BY <2>1, <3>2, Parts DEF decode_uint16
    <3> QED BY <3>1, <3>2
  <2>3. Raw(r, decode(r, ws).value) = w
    BY <1>1, <2>2, Kinds, RoundingBack DEF Raw
  <2> QED BY <1>1, <1>2, <2>3 DEF encode
<1>3. CASE r.type = "temp"
  <2>1. decode(r, ws) = decode_temp(w, r.optional, Unit(r))
    BY <1>3 DEF decode, w
  <2> DEFINE off == r.optional /\ Bit(w, 15) # Bit(w, 14)
             sent == IF off THEN FlipBit14(w) ELSE w
  <2>2. decode(r, ws) = Decoded(to_int16(sent) * Unit(r), off)
    BY <2>1, Zenon DEF decode_temp
  <2> HIDE DEF off, sent
  <2>3. ~off
    BY <2>2, Valued, Zenon
  <2>4. sent = w
    BY <2>3 DEF sent
  <2>5. decode(r, ws).value = to_int16(w) * Unit(r)
    <3>1. decode(r, ws).value = to_int16(sent) * Unit(r)
      BY <2>2, Valued, Zenon
    <3> QED BY <2>4, <3>1
  <2>6. to_int16(w) \in Int /\ from_int16(to_int16(w)) = w
    BY <1>1, Signed
  <2>7. Raw(r, decode(r, ws).value) = to_int16(w)
    BY <2>5, <2>6, Kinds, RoundingBack DEF Raw
  <2> QED BY <1>1, <1>3, <2>6, <2>7 DEF encode
<1> QED BY <1>2, <1>3, Kinds

-----------------------------------------------------------------------------
(* The menu *)

\* What the menu makes of the first word.
Switched(r, w) ==
  IF r.type = "temp" THEN FlipBit14(w) ELSE FlipBit15(w)

\* Where the flag is bit 15, the other bits stay.
LEMMA SwitchedHigh ==
  ASSUME NEW r, r.type # "temp", NEW w \in Word
  PROVE  /\ Switched(r, w) \in Word
         /\ Switched(r, w) % 2^15 = w % 2^15
         /\ Bit(Switched(r, w), 15) = 1 - Bit(w, 15)
         /\ Field(Switched(r, w), 4, 8) = Field(w, 4, 8)
         /\ Field(Switched(r, w), 0, 4) = Field(w, 0, 4)
<1> DEFINE x == Switched(r, w)
<1>1. w \in Int /\ 0 <= w /\ w <= 65535
  BY WordIs
<1>2. x = IF w >= 32768 THEN w - 32768 ELSE w + 32768
  BY BitIs, Powers DEF Switched, FlipBit15
<1>3. x \in Word /\ x \in Int /\ 0 <= x
  BY <1>1, <1>2, WordIs
<1>4. x % 32768 = w % 32768
  BY <1>1, <1>2
<1>5. x >= 32768 <=> ~(w >= 32768)
  BY <1>1, <1>2
<1>6. Bit(x, 15) = 1 - Bit(w, 15)
  BY <1>3, <1>5, BitIs
<1>7. (x \div 16) % 256 = (w \div 16) % 256
  <2>1. x \div 16 = IF w >= 32768 THEN (w \div 16) - 2048 ELSE (w \div 16) + 2048
    BY <1>1, <1>2
  <2> QED BY <1>1, <2>1
<1>8. x % 16 = w % 16
  BY <1>1, <1>2
<1> HIDE DEF x
<1>9. Field(x, 4, 8) = Field(w, 4, 8)
  BY <1>7, Powers DEF Field
<1>10. Field(x, 0, 4) = Field(w, 0, 4)
  <2>1. x \div 1 = x /\ w \div 1 = w
    BY <1>1, <1>3
  <2> QED BY <1>8, <2>1, Powers DEF Field
<1>11. x % 2^15 = w % 2^15
  BY <1>4, Powers
<1> QED BY <1>3, <1>6, <1>9, <1>10, <1>11 DEF x

\* Switching turns the flag over and keeps the value under it.
LEMMA SwitchedOne ==
  ASSUME NEW r \in Registers, r.optional \/ r.type = "dtime",
         NEW ws \in [1..length(r) -> Word], NEW new \in [1..length(r) -> Word],
         new = [ws EXCEPT ![1] = Switched(r, ws[1])]
  PROVE  decode(r, new) = [decode(r, ws) EXCEPT !.disabled = ~@]
<1> DEFINE w == ws[1]
           x == new[1]
<1>0. w \in Word /\ x = Switched(r, w) /\ x \in Word
  BY Kinds DEF length
<1>1. ASSUME r.type # "temp" PROVE (Bit(x, 15) = 1) = ~(Bit(w, 15) = 1)
  <2>1. Bit(x, 15) = 1 - Bit(w, 15) /\ Bit(w, 15) \in {0, 1}
    BY <1>0, <1>1, SwitchedHigh, BitIs
  <2> QED BY <2>1
<1> DEFINE flag(y) == Bit(y, 15) = 1
<1> HIDE DEF w, x, flag
<1>2. CASE r.type = "uint16"
  <2>1. /\ decode(r, ws) = decode_uint16(w, r.optional, Unit(r))
        /\ decode(r, new) = decode_uint16(x, r.optional, Unit(r))
    BY <1>2 DEF decode, w, x
  <2>2. r.optional
    BY <1>2
  <2>3. /\ decode(r, ws) = Decoded((w % 2^15) * Unit(r), flag(w))
        /\ decode(r, new) = Decoded((x % 2^15) * Unit(r), flag(x))
    BY <2>1, <2>2, Zenon DEF decode_uint16, flag
  <2>4. w % 2^15 = x % 2^15
    BY <1>0, <1>2, SwitchedHigh
  <2>5. flag(x) = ~flag(w)
    BY <1>1, <1>2 DEF flag
  <2> QED BY <2>3, <2>4, <2>5 DEF Decoded
<1>3. CASE r.type = "temp"
  <2> DEFINE flagged(y) == Bit(y, 15) # Bit(y, 14)
             sent(y) == IF flagged(y) THEN FlipBit14(y) ELSE y
  <2>1. /\ decode(r, ws) = decode_temp(w, r.optional, Unit(r))
        /\ decode(r, new) = decode_temp(x, r.optional, Unit(r))
    BY <1>3 DEF decode, w, x
  <2>2. r.optional
    BY <1>3
  <2>3. /\ decode(r, ws) = Decoded(to_int16(sent(w)) * Unit(r), flagged(w))
        /\ decode(r, new) = Decoded(to_int16(sent(x)) * Unit(r), flagged(x))
    BY <2>1, <2>2, Zenon DEF decode_temp
  <2>4. x = FlipBit14(w)
    BY <1>0, <1>3 DEF Switched
  <2>5. flagged(x) = ~flagged(w)
    <3>1. Bit(w, 14) \in {0, 1} /\ Bit(w, 15) \in {0, 1}
      BY <1>0, BitIs
    <3>2. Bit(x, 15) = Bit(w, 15) /\ Bit(x, 14) = 1 - Bit(w, 14)
      BY <1>0, <2>4, Flipped
    <3>3. Bit(x, 15) # Bit(x, 14) <=> ~(Bit(w, 15) # Bit(w, 14))
      BY <3>1, <3>2
    <3> QED BY <3>3
  <2>6. FlipBit14(x) = w
    BY <1>0, <2>4, Flipped
  <2>7. sent(x) = sent(w)
    BY <2>4, <2>5, <2>6
  <2> HIDE DEF sent, flagged
  <2> QED BY <2>3, <2>5, <2>7 DEF Decoded
<1>4. CASE r.type = "uint32"
  <2>1. new[2] = ws[2]
    BY <1>4 DEF length
  <2>2. /\ decode(r, ws) = decode_uint32(w, ws[2], r.optional)
        /\ decode(r, new) = decode_uint32(x, ws[2], r.optional)
    BY <1>4, <2>1 DEF decode, w, x
  <2>3. r.optional
    BY <1>4
  <2>4. /\ decode(r, ws) = Decoded(<<w % 2^15, ws[2]>>, flag(w))
        /\ decode(r, new) = Decoded(<<x % 2^15, ws[2]>>, flag(x))
    BY <2>2, <2>3, Zenon DEF decode_uint32, flag
  <2>5. w % 2^15 = x % 2^15
    BY <1>0, <1>4, SwitchedHigh
  <2>6. flag(x) = ~flag(w)
    BY <1>1, <1>4 DEF flag
  <2> QED BY <2>4, <2>5, <2>6 DEF Decoded
<1>5. CASE r.type = "dtime"
  <2>1. new[2] = ws[2]
    BY <1>5 DEF length
  <2>2. /\ decode(r, ws) = decode_dtime(w, ws[2])
        /\ decode(r, new) = decode_dtime(x, ws[2])
    BY <1>5, <2>1 DEF decode, w, x
  <2> DEFINE date(d) == IF IsDate(d) THEN d ELSE None
  <2>3. /\ decode(r, ws) = Decoded(date(Packed(w, ws[2])), flag(w))
        /\ decode(r, new) = Decoded(date(Packed(x, ws[2])), flag(x))
    BY <2>2, Zenon DEF decode_dtime, flag
  <2>4. Packed(x, ws[2]) = Packed(w, ws[2])
    BY <1>0, <1>5, SwitchedHigh DEF Packed
  <2>5. flag(x) = ~flag(w)
    BY <1>1, <1>5 DEF flag
  <2> HIDE DEF date
  <2> QED BY <2>3, <2>4, <2>5 DEF Decoded
<1> QED BY <1>2, <1>3, <1>4, <1>5, Kinds

-----------------------------------------------------------------------------
(* Dates *)

\* A word is what its fields say.
LEMMA Fields ==
  ASSUME NEW high \in Word, NEW low \in Word
  PROVE  /\ Field(high, 4, 8) \in Int /\ 0 <= Field(high, 4, 8) /\ Field(high, 4, 8) <= 255
         /\ Field(high, 0, 4) \in Int /\ 0 <= Field(high, 0, 4) /\ Field(high, 0, 4) <= 15
         /\ Field(low, 11, 5) \in Int /\ 0 <= Field(low, 11, 5) /\ Field(low, 11, 5) <= 31
         /\ Field(low, 6, 5) \in Int /\ 0 <= Field(low, 6, 5) /\ Field(low, 6, 5) <= 31
         /\ Field(low, 0, 6) \in Int /\ 0 <= Field(low, 0, 6) /\ Field(low, 0, 6) <= 63
<1>1. high \in Int /\ 0 <= high /\ low \in Int /\ 0 <= low
  BY WordIs
<1>2. /\ high \div 16 \in Int /\ high \div 1 \in Int /\ low \div 2048 \in Int
      /\ low \div 64 \in Int /\ low \div 1 \in Int
  BY <1>1
<1>3. /\ Field(high, 4, 8) = (high \div 16) % 256 /\ Field(high, 0, 4) = (high \div 1) % 16
      /\ Field(low, 11, 5) = (low \div 2048) % 32 /\ Field(low, 6, 5) = (low \div 64) % 32
      /\ Field(low, 0, 6) = (low \div 1) % 64
  BY Powers DEF Field
<1> QED BY <1>2, <1>3

\* Fields put together are the fields again, and leave bit 15 to the flag.
LEMMA PackedAgain ==
  ASSUME NEW y \in Int, NEW m \in Int, NEW d \in Int, NEW h \in Int, NEW n \in Int,
         NEW flag \in {0, 32768},
         0 <= y, y <= 255, 0 <= m, m <= 15, 0 <= d, d <= 31,
         0 <= h, h <= 31, 0 <= n, n <= 63
  PROVE  LET high == flag + y * 16 + m
             low == d * 2048 + h * 64 + n
         IN  /\ Field(high, 4, 8) = y /\ Field(high, 0, 4) = m
             /\ Field(low, 11, 5) = d /\ Field(low, 6, 5) = h /\ Field(low, 0, 6) = n
             /\ Bit(high, 15) = IF flag = 0 THEN 0 ELSE 1
<1> DEFINE high == flag + y * 16 + m
           low == d * 2048 + h * 64 + n
<1>1. high \in Word /\ (high >= 32768 <=> flag # 0)
  BY WordIs
<1>2. high \div 16 = (flag \div 16) + y /\ flag \div 16 \in {0, 2048}
  OBVIOUS
<1>3. (high \div 16) % 256 = y
  BY <1>2
<1>4. (high \div 1) % 16 = m
  OBVIOUS
<1>5. (low \div 2048) % 32 = d
  OBVIOUS
<1>6. low \div 64 = d * 32 + h
  OBVIOUS
<1>7. (low \div 64) % 32 = h
  BY <1>6
<1>8. (low \div 1) % 64 = n
  OBVIOUS
<1>9. Bit(high, 15) = IF flag = 0 THEN 0 ELSE 1
  BY <1>1, BitIs
<1> HIDE DEF high, low
<1> SUFFICES /\ Field(high, 4, 8) = y /\ Field(high, 0, 4) = m
             /\ Field(low, 11, 5) = d /\ Field(low, 6, 5) = h /\ Field(low, 0, 6) = n
             /\ Bit(high, 15) = IF flag = 0 THEN 0 ELSE 1
  BY DEF high, low
<1> QED BY <1>3, <1>4, <1>5, <1>7, <1>8, <1>9, Powers DEF Field

\* A date survives packing, a slot without one shows none.
LEMMA DateOne ==
  ASSUME NEW high \in Word, NEW low \in Word
  PROVE  LET d == decode_dtime(high, low)
         IN  IF d.value = None THEN ~IsDate(Packed(high, low))
             ELSE LET again == encode_dtime(d.value, d.disabled)
                  IN  CarriesDtime(d.value) /\ decode_dtime(again[1], again[2]) = d
<1> DEFINE date == Packed(high, low)
           off == Bit(high, 15) = 1
           d == decode_dtime(high, low)
<1>1. d = Decoded(IF IsDate(date) THEN date ELSE None, off)
  BY Zenon DEF decode_dtime
<1>2. /\ date = [year |-> date.year, month |-> date.month, day |-> date.day,
                hour |-> date.hour, minute |-> date.minute]
      /\ date.year - 1900 \in Int /\ 0 <= date.year - 1900 /\ date.year - 1900 <= 255
      /\ date.year \in Int
      /\ date.month \in Int /\ 0 <= date.month /\ date.month <= 15
      /\ date.day \in Int /\ 0 <= date.day /\ date.day <= 31
      /\ date.hour \in Int /\ 0 <= date.hour /\ date.hour <= 31
      /\ date.minute \in Int /\ 0 <= date.minute /\ date.minute <= 63
  BY Fields DEF Packed
<1>3. date # None
  <2>1. date \in [year : Nat, month : Nat, day : Nat, hour : Nat, minute : Nat]
    BY Fields DEF Packed
  <2> QED BY <2>1, RegisterAssumption
<1> DEFINE again == encode_dtime(date, off)
           flag == IF off THEN 2^15 ELSE 0
<1>4. /\ again[1] = flag + (date.year - 1900) * 16 + date.month
      /\ again[2] = date.day * 2048 + date.hour * 64 + date.minute
  BY Powers DEF encode_dtime
<1>5. flag \in {0, 32768} /\ (flag = 0 <=> ~off)
  BY Powers
<1>6. Packed(again[1], again[2]) = date
  <2> DEFINE y == date.year - 1900
             top == flag + y * 16 + date.month
             rest == date.day * 2048 + date.hour * 64 + date.minute
  <2>1. /\ Field(top, 4, 8) = y /\ Field(top, 0, 4) = date.month
        /\ Field(rest, 11, 5) = date.day /\ Field(rest, 6, 5) = date.hour
        /\ Field(rest, 0, 6) = date.minute
    <3> HIDE DEF flag, date
    <3> QED BY <1>2, <1>5, PackedAgain
  <2>2. again[1] = top /\ again[2] = rest
    BY <1>4, Zenon
  <2> HIDE DEF top, rest, again
  <2>3. y + 1900 = date.year
    BY <1>2
  <2>4. Packed(again[1], again[2]) =
          [year |-> date.year, month |-> date.month, day |-> date.day,
           hour |-> date.hour, minute |-> date.minute]
    BY <2>1, <2>2, <2>3 DEF Packed
  <2> QED BY <2>4, <1>2
<1>7. (Bit(again[1], 15) = 1) = off
  <2> HIDE DEF flag, date, again
  <2>1. Bit(again[1], 15) = IF flag = 0 THEN 0 ELSE 1
    BY <1>2, <1>4, <1>5, PackedAgain
  <2> QED BY <1>5, <2>1
<1> HIDE DEF date, again, flag
<1>8. CASE IsDate(date)
  <2>1. d = Decoded(date, off)
    BY <1>1, <1>8
  <2>2. d.value = date
    BY <2>1, Valued
  <2>3. encode_dtime(d.value, d.disabled) = again
    <3>1. d.disabled = off
      BY <2>1 DEF Decoded
    <3> QED BY <2>2, <3>1, Zenon DEF again
  <2>4. decode_dtime(again[1], again[2]) = Decoded(date, off)
    <3>1. decode_dtime(again[1], again[2]) = Decoded(date, Bit(again[1], 15) = 1)
      BY <1>6, <1>8 DEF decode_dtime
    <3> QED BY <3>1, <1>7, Zenon
  <2>5. CarriesDtime(d.value)
    BY <1>2, <2>2 DEF CarriesDtime
  <2> QED BY <1>3, <2>1, <2>2, <2>3, <2>4, <2>5
<1>9. CASE ~IsDate(date)
  <2>1. d.value = None
    BY <1>1, <1>9, Valued
  <2> QED BY <1>9, <2>1 DEF date
<1> QED BY <1>8, <1>9

-----------------------------------------------------------------------------
(* The invariant *)

\* What is on show was once decoded from words of this register.
ShownIsDecoded ==
  shown # None =>
    \E ws \in [1..length(register) -> Word] : shown = decode(register, ws)

IInv == TypeOK /\ ShownIsDecoded /\ WrittenReadsBack

\* Whatever is written, by a caller or as the value on show, is a number.
LEMMA WritesNumbers ==
  ASSUME IInv, WriteShown \/ \E v \in Asked : Write(v)
  PROVE  \E v \in Int : Write(v) /\ (WriteShown => v = shown.value)
<1>1. CASE WriteShown
  <2>1. shown # None /\ Write(shown.value) /\ register.writable
    BY <1>1 DEF WriteShown, Write
  <2>2. PICK ws \in [1..length(register) -> Word] : shown = decode(register, ws)
    BY <2>1 DEF IInv, ShownIsDecoded
  <2>3. shown.value \in Int
    BY <2>1, <2>2, ShownNumber DEF IInv, TypeOK
  <2> QED BY <2>1, <2>3
<1>2. CASE ~WriteShown
  <2>1. PICK v \in Asked : Write(v)
    BY <1>2
  <2> QED BY <1>2, <2>1, RegisterAssumption
<1> QED BY <1>1, <1>2

\* The menu keeps words words.
LEMMA MenuWords ==
  ASSUME IInv, Menu
  PROVE  /\ words' = [words EXCEPT ![1] = Switched(register, words[1])]
         /\ words' \in [1..length(register) -> Word]
<1>1. words[1] \in Word
  BY DEF IInv, TypeOK, length
<1>2. Switched(register, words[1]) \in Word
  <2>1. CASE register.type = "temp"
    BY <1>1, <2>1, Flipped DEF Switched
  <2>2. CASE register.type # "temp"
    BY <1>1, <2>2, SwitchedHigh
  <2> QED BY <2>1, <2>2
<1>3. words' = [words EXCEPT ![1] = Switched(register, words[1])]
  BY DEF Menu, Switched
<1> QED BY <1>2, <1>3 DEF IInv, TypeOK

\* The register looked at starts in the invariant.
LEMMA InitIInv ==
  Init => IInv
<1> SUFFICES ASSUME Init PROVE IInv
  OBVIOUS
<1>1. words \in [1..length(register) -> Word]
  BY RegisterAssumption DEF Init
<1> QED BY <1>1 DEF Init, IInv, TypeOK, ShownIsDecoded, WrittenReadsBack

\* Reading, writing and the menu keep it.
LEMMA NextIInv ==
  IInv /\ [Next]_vars => IInv'
<1> SUFFICES ASSUME IInv, [Next]_vars PROVE IInv'
  OBVIOUS
<1>1. CASE Read
  <2>1. TypeOK'
    BY <1>1 DEF Read, IInv, TypeOK
  <2>2. ShownIsDecoded'
    BY <1>1 DEF Read, IInv, TypeOK, ShownIsDecoded
  <2>3. WrittenReadsBack'
    BY <1>1 DEF Read, IInv, WrittenReadsBack
  <2> QED BY <2>1, <2>2, <2>3 DEF IInv
<1>2. CASE WriteShown \/ \E v \in Asked : Write(v)
  <2>1. PICK v \in Int : Write(v)
    BY <1>2, WritesNumbers
  <2>2. register \in Registers /\ register' = register /\ shown' = shown /\ register.writable
    BY <2>1 DEF Write, IInv, TypeOK
  <2>3. CASE outcome' = "written"
    <3>1. Valid(register, v) /\ Carries(register, v) /\ words' = encode(register, v) /\ asked' = v
      BY <2>1, <2>3 DEF Write
    <3>2. TypeOK'
      BY <2>2, <2>3, <3>1, EncodedWord DEF TypeOK
    <3>3. ShownIsDecoded'
      BY <2>2 DEF IInv, ShownIsDecoded
    <3>4. WrittenReadsBack'
      <4>1. LET d == decode(register, encode(register, v))
            IN  ~d.disabled /\ 2 * Magnitude(d.value - v) <= Unit(register)
        BY <2>2, <3>1, WrittenOne
      <4> QED BY <2>2, <3>1, <4>1 DEF WrittenReadsBack
    <3> QED BY <3>2, <3>3, <3>4 DEF IInv
  <2>4. CASE outcome' # "written"
    <3>1. outcome' \in {"invalid", "unfit"} /\ words' = words
      BY <2>1, <2>4 DEF Write
    <3> QED BY <2>2, <3>1 DEF IInv, TypeOK, ShownIsDecoded, WrittenReadsBack
  <2> QED BY <2>3, <2>4
<1>3. CASE Menu
  <2>1. words' \in [1..length(register) -> Word]
    BY <1>3, MenuWords
  <2> QED BY <1>3, <2>1 DEF Menu, IInv, TypeOK, ShownIsDecoded, WrittenReadsBack
<1>4. CASE UNCHANGED vars
  BY <1>4 DEF vars, IInv, TypeOK, ShownIsDecoded, WrittenReadsBack
<1> QED BY <1>1, <1>2, <1>3, <1>4 DEF Next

\* The invariant holds in every state.
LEMMA Invariance ==
  Spec => []IInv
BY InitIInv, NextIInv, PTL DEF Spec

-----------------------------------------------------------------------------
(* Theorems *)

\* Whatever is written, refused, read or switched: the board holds words, of
\* the number the type takes.
THEOREM TypeCorrect ==
  Spec => []TypeOK
<1>1. IInv => TypeOK
  BY DEF IInv
<1> QED BY <1>1, Invariance, PTL

\* Both directions of the codec agree: a written value reads back to half a
\* raw step and enabled, whatever the type, scale, limits and sign; a date
\* survives packing with its flag, and no other slot passes for a date.
THEOREM RoundTrips ==
  Spec => []ReadsAndWritesAgree
<1>1. IInv => ReadsAndWritesAgree
  <2> SUFFICES ASSUME IInv PROVE WrittenReadsBack /\ DatesRoundTrip
    BY DEF ReadsAndWritesAgree
  <2>1. DatesRoundTrip
    <3> SUFFICES ASSUME register.type = "dtime"
                 PROVE  LET d == decode(register, words)
                        IN  IF d.value = None THEN ~IsDate(Packed(words[1], words[2]))
                            ELSE LET again == encode_dtime(d.value, d.disabled)
                                 IN  /\ CarriesDtime(d.value)
                                     /\ decode_dtime(again[1], again[2]) = d
      BY Zenon DEF DatesRoundTrip
    <3>1. words[1] \in Word /\ words[2] \in Word
      BY DEF IInv, TypeOK, length
    <3>2. decode(register, words) = decode_dtime(words[1], words[2])
      BY DEF decode
    <3> QED BY <3>1, <3>2, DateOne, Zenon
  <2> QED BY <2>1 DEF IInv
<1> QED BY <1>1, Invariance, PTL

\* The menu changes the flag and nothing else, for every type and either sign.
THEOREM TheMenuKeepsTheValue ==
  Spec => MenuKeepsValue
<1>1. IInv /\ [Next]_vars
        => [Menu => LET d == decode(register, words)
                    IN  decode(register, words') = [d EXCEPT !.disabled = ~@]]_vars
  <2> SUFFICES ASSUME IInv, Menu
               PROVE  decode(register, words') = [decode(register, words) EXCEPT !.disabled = ~@]
    OBVIOUS
  <2>1. register \in Registers /\ words \in [1..length(register) -> Word]
    BY DEF IInv, TypeOK
  <2>2. register.optional \/ register.type = "dtime"
    BY DEF Menu
  <2> QED BY <2>1, <2>2, MenuWords, SwitchedOne
<1> QED BY <1>1, Invariance, PTL DEF MenuKeepsValue, Spec

\* A value on show that is sent back leaves the words as they are, or is refused.
THEOREM WritingBackIsHarmless ==
  Spec => WriteBackKeepsWords
<1>1. IInv /\ [Next]_vars
        => [WriteShown /\ shown = Decoded(shown.value, FALSE) /\ shown = decode(register, words)
              => words' = words]_vars
  <2> SUFFICES ASSUME IInv, WriteShown, shown = Decoded(shown.value, FALSE),
                      shown = decode(register, words)
               PROVE  words' = words
    OBVIOUS
  <2>1. register \in Registers /\ register.writable /\ words \in [1..length(register) -> Word]
    BY DEF IInv, TypeOK, WriteShown, Write
  <2>2. ~decode(register, words).disabled
    BY DEF Decoded
  <2>3. encode(register, shown.value) = words
    BY <2>1, <2>2, WrittenBack
  <2>4. words' \in {encode(register, shown.value), words}
    BY DEF WriteShown, Write
  <2> QED BY <2>3, <2>4
<1> QED BY <1>1, Invariance, PTL DEF WriteBackKeepsWords, Spec

=============================================================================
