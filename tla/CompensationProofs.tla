------------------------- MODULE CompensationProofs -------------------------
(* What bmp085Convert and si7021.c's formulas make of every raw value, for   *)
(* every device whose EEPROM is like that of the data sheet's example        *)
(* (Ordinary) and every raw temperature it returns between -40 and 85        *)
(* degrees (Measurable).                                                     *)
(*                                                                           *)
(* First, quotients: where they lie, and that the long division of the model *)
(* is a division.  Then the values line by line: bounds on b5, b4, b3, b7    *)
(* and p, for a temperature that was read, for one that was not or by half,  *)
(* and for calibration words that were not or by half.  From the bounds      *)
(* follow that no product is wider than its type and no divisor zero, where  *)
(* a raw value that was not read leads to, and how far apart two readings    *)
(* are, which also tells where half a raw value leads to.                    *)
(*                                                                           *)
(* A product, a quotient or a remainder is given a name before its bounds    *)
(* are derived, so that the derivation is linear arithmetic.                 *)
EXTENDS Compensation, TLAPS

-----------------------------------------------------------------------------
(* Products and quotients within bounds *)

\* A product of two bounded numbers.
LEMMA ProductBound ==
  ASSUME NEW X \in Nat, NEW Y \in Nat, NEW x \in 0 .. X, NEW y \in 0 .. Y
  PROVE  x * y \in 0 .. X * Y
<1>1. X * Y - x * y = (X - x) * Y + x * (Y - y)
  OBVIOUS
<1>2. (X - x) * Y >= 0 /\ x * (Y - y) >= 0 /\ x * y >= 0
  OBVIOUS
<1> QED
  BY <1>1, <1>2

\* The quotient is the number whose multiple leaves less than the divisor.
LEMMA Division ==
  ASSUME NEW a \in Int, NEW b \in Nat \ {0}
  PROVE  /\ a \div b \in Int /\ a % b \in 0 .. b - 1
         /\ a = b * (a \div b) + (a % b)
OBVIOUS

\* Conversely, such a number is the quotient.
LEMMA QuotientIs ==
  ASSUME NEW a \in Int, NEW b \in Nat \ {0}, NEW q \in Int, NEW r \in 0 .. b - 1,
         a = b * q + r
  PROVE  q = a \div b
<1> DEFINE d == a \div b
           s == a % b
<1>1. d \in Int /\ s \in 0 .. b - 1 /\ a = b * d + s
  BY Division
<1> HIDE DEF d, s
<1>2. b * (q - d) = s - r /\ s - r \in -(b - 1) .. b - 1
  BY <1>1
<1>3. q - d < 1
  <2> SUFFICES ASSUME q - d >= 1
               PROVE  b * (q - d) >= b
    BY <1>1, <1>2
  <2>1. b * (q - d) - b = b * (q - d - 1) /\ b * (q - d - 1) >= 0
    BY <1>1
  <2> QED
    BY <2>1, <1>1
<1>4. q - d > -1
  <2> SUFFICES ASSUME q - d <= -1
               PROVE  b * (q - d) <= -b
    BY <1>1, <1>2
  <2>1. -b - b * (q - d) = b * (d - q - 1) /\ b * (d - q - 1) >= 0
    BY <1>1
  <2> QED
    BY <2>1, <1>1
<1> QED
  BY <1>1, <1>3, <1>4 DEF d

\* From the shape multiple plus remainder, quotient and bounds.
LEMMA QuotientFrom ==
  ASSUME NEW a \in Int, NEW b \in Nat \ {0}, NEW q \in Int, NEW r \in Int,
         0 <= r, r < b, a = b * q + r
  PROVE  q = a \div b
<1>1. r \in 0 .. b - 1
  OBVIOUS
<1> QED
  BY <1>1, QuotientIs

\* Bounds of a quotient, from multiples of the divisor.
LEMMA QuotientAtMost ==
  ASSUME NEW a \in Int, NEW b \in Nat \ {0}, NEW k \in Int, a < b * (k + 1)
  PROVE  a \div b <= k
<1> DEFINE d == a \div b
<1>1. d \in Int /\ b * d <= a
  BY Division
<1> HIDE DEF d
<1>2. ~(d >= k + 1)
  <2> SUFFICES ASSUME d >= k + 1
               PROVE  b * d >= b * (k + 1)
    BY <1>1
  <2>1. b * d - b * (k + 1) = b * (d - (k + 1)) /\ b * (d - (k + 1)) >= 0
    BY <1>1
  <2> QED
    BY <1>1, <2>1
<1> QED
  BY <1>1, <1>2 DEF d

LEMMA QuotientAtLeast ==
  ASSUME NEW a \in Int, NEW b \in Nat \ {0}, NEW k \in Int, b * k <= a
  PROVE  k <= a \div b
<1> DEFINE d == a \div b
           s == a % b
<1>1. d \in Int /\ s \in 0 .. b - 1 /\ a = b * d + s
  BY Division
<1> HIDE DEF d, s
<1>2. ~(d + 1 <= k)
  <2> SUFFICES ASSUME d + 1 <= k
               PROVE  b * (d + 1) <= b * k
    BY <1>1
  <2>1. b * k - b * (d + 1) = b * (k - (d + 1)) /\ b * (k - (d + 1)) >= 0
    BY <1>1
  <2> QED
    BY <1>1, <2>1
<1> QED
  BY <1>1, <1>2 DEF d

\* The product of two bounded numbers fits if that of the bounds does.
LEMMA Fits ==
  ASSUME NEW a \in Int, NEW b \in Int, NEW X \in Nat, NEW Y \in Nat,
         InRange(-X, a, X), InRange(-Y, b, Y), X * Y <= 2147483647
  PROVE  ProductFits(a, b)
<1> DEFINE x == Magnitude(a)
           y == Magnitude(b)
<1>1. x \in 0 .. X /\ y \in 0 .. Y
  BY DEF Magnitude, InRange
<1>2. x = 0 <=> a = 0
  BY DEF Magnitude
<1> HIDE DEF x, y
<1>3. CASE x # 0
  <2>1. x * y <= 2147483647
    BY <1>1, ProductBound
  <2>2. y <= 2147483647 \div x
    BY <1>1, <1>3, <2>1, QuotientAtLeast
  <2> QED
    BY <2>2 DEF ProductFits, x, y
<1> QED
  BY <1>2, <1>3 DEF ProductFits

\* Division, for a quotient and a remainder that have names.
LEMMA DivisionParts ==
  ASSUME NEW a \in Int, NEW b \in Nat \ {0}, NEW q, NEW r, q = a \div b, r = a % b
  PROVE  q \in Int /\ r \in Int /\ 0 <= r /\ r < b /\ a = b * q + r
BY Division

\* Long division divides.
LEMMA DivisionStep ==
  ASSUME NEW b \in Nat \ {0}, NEW v \in Int, NEW q \in Int, NEW r \in Int,
         v = b * q + r, NEW byte \in Int,
         NEW n, n = r * 256 + byte, NEW d, d = n \div b, NEW s, s = n % b
  PROVE  /\ q * 256 + d \in Int /\ s \in Int /\ 0 <= s /\ s < b
         /\ 256 * v + byte = b * (q * 256 + d) + s
<1>1. n \in Int
  OBVIOUS
<1>2. d \in Int /\ s \in Int /\ 0 <= s /\ s < b /\ n = b * d + s
  BY <1>1, DivisionParts
<1>3. 256 * v + byte = 256 * (b * q) + n
  BY <1>1
<1>4. b * (q * 256 + d) = 256 * (b * q) + b * d
  BY <1>2
<1> QED
  BY <1>1, <1>2, <1>3, <1>4

LEMMA Bytes ==
  ASSUME NEW low \in Nat, low < 65536, NEW l1, l1 = low \div 256, NEW l2, l2 = low % 256
  PROVE  l1 \in Int /\ l2 \in Int /\ low = 256 * l1 + l2
OBVIOUS

\* Byte by byte, UnsignedQuotient is the quotient of the 32-bit number.
LEMMA LongDivision ==
  ASSUME NEW u, NEW h \in Nat, u.high = h, NEW low \in Nat, u.low = low, low < 65536,
         NEW b \in Nat \ {0}
  PROVE  UnsignedQuotient(u, b) = (65536 * h + low) \div b
<1>1. PICK l1 : l1 = low \div 256
  OBVIOUS
<1>2. PICK l2 : l2 = low % 256
  OBVIOUS
<1>3. l1 \in Int /\ l2 \in Int /\ low = 256 * l1 + l2
  BY <1>1, <1>2, Bytes
<1>4. PICK q0 : q0 = h \div b
  OBVIOUS
<1>5. PICK r0 : r0 = h % b
  OBVIOUS
<1>6. q0 \in Int /\ r0 \in Int /\ h = b * q0 + r0
  BY <1>4, <1>5, DivisionParts
<1>7. PICK n1 : n1 = r0 * 256 + l1
  OBVIOUS
<1>8. PICK d1 : d1 = n1 \div b
  OBVIOUS
<1>9. PICK r1 : r1 = n1 % b
  OBVIOUS
<1>10. q0 * 256 + d1 \in Int /\ r1 \in Int /\ 256 * h + l1 = b * (q0 * 256 + d1) + r1
  BY <1>3, <1>6, <1>7, <1>8, <1>9, DivisionStep
<1>11. PICK q1 : q1 = q0 * 256 + d1
  OBVIOUS
<1>12. PICK n2 : n2 = r1 * 256 + l2
  OBVIOUS
<1>13. PICK d2 : d2 = n2 \div b
  OBVIOUS
<1>14. PICK r2 : r2 = n2 % b
  OBVIOUS
<1>15. PICK v : v = 256 * h + l1
  OBVIOUS
<1>16. q1 \in Int /\ v \in Int /\ v = b * q1 + r1
  BY <1>3, <1>10, <1>11, <1>15
<1>17. /\ q1 * 256 + d2 \in Int /\ r2 \in Int /\ 0 <= r2 /\ r2 < b
       /\ 256 * v + l2 = b * (q1 * 256 + d2) + r2
  BY <1>3, <1>10, <1>12, <1>13, <1>14, <1>16, DivisionStep
<1>18. PICK q2 : q2 = q1 * 256 + d2
  OBVIOUS
<1>19. UnsignedQuotient(u, b) = q2
  BY <1>1, <1>2, <1>4, <1>5, <1>7, <1>8, <1>9, <1>11, <1>12, <1>13, <1>18
     DEF UnsignedQuotient
<1>20. PICK w : w = 65536 * h + low
  OBVIOUS
<1>21. w \in Int /\ w = 256 * v + l2
  BY <1>3, <1>15, <1>20
<1>22. q2 \in Int /\ r2 \in 0 .. b - 1 /\ w = b * q2 + r2
  BY <1>17, <1>18, <1>21
<1>23. q2 = w \div b
  BY <1>21, <1>22, QuotientIs
<1> QED
  BY <1>19, <1>20, <1>23

-----------------------------------------------------------------------------
(* The invariant *)

\* The stored words are what was read of a device's, and the reading is what
\* bmp085Convert makes of what was read of the current raw values.
CompensationInv ==
  /\ got \in Losses
  /\ \E c \in Calibrations : stored = Kept(c, got)
  /\ ut \in RawTemps
  /\ word \in Int /\ InRange(0, word, 65535)
  /\ gotTemp \in Outcomes /\ gotPressure \in Outcomes
  /\ reading = bmp085Convert(stored, Received(ut, gotTemp),
                             Received(word, gotPressure))

LEMMA InitCompensation == Init => CompensationInv
<1> SUFFICES ASSUME Init
             PROVE  CompensationInv
  OBVIOUS
<1>1. Received(ut, gotTemp) = ut /\ Received(word, gotPressure) = word
  BY DEF Init, Received
<1> QED
  BY <1>1 DEF Init, CompensationInv, InRange, Outcomes

LEMMA StepCompensation == CompensationInv /\ [Measure]_vars => CompensationInv'
<1> SUFFICES ASSUME CompensationInv, [Measure]_vars
             PROVE  CompensationInv'
  OBVIOUS
<1>1. CASE Measure
  <2>1. word' \in Int /\ InRange(0, word', 65535)
    BY <1>1, StepAssumption DEF Measure, CompensationInv, InRange
  <2>2. /\ UNCHANGED <<stored, got, ut>>
        /\ gotTemp' \in Outcomes /\ gotPressure' \in Outcomes
        /\ reading' = bmp085Convert(stored, Received(ut, gotTemp'),
                                    Received(word', gotPressure'))
    BY <1>1 DEF Measure
  <2> QED
    BY <2>1, <2>2 DEF CompensationInv
<1>2. CASE UNCHANGED vars
  BY <1>2 DEF vars, CompensationInv
<1> QED
  BY <1>1, <1>2

LEMMA ReadingIsConversion == Spec => []CompensationInv
<1>1. CompensationInv /\ [Measure]_vars => CompensationInv'
  BY StepCompensation
<1> QED
  BY <1>1, InitCompensation, PTL DEF Spec

-----------------------------------------------------------------------------
(* The SI7021 *)

LEMMA SiCode ==
  ASSUME NEW w \in Int, InRange(0, w, 65535)
  PROVE  Code(w) \in Int /\ InRange(0, Code(w), 65535)
BY DEF Code, InRange

\* The two formulas against the data sheet, for any code.
LEMMA SiTemperature ==
  ASSUME NEW v \in Int, InRange(0, v, 65535)
  PROVE  InRange(0, (17572 * v) \div 65536 - 4685
                      - 10 * ((v * 1757) \div 65536 - 469), 19)
<1>1. PICK a : a = (17572 * v) \div 65536
  OBVIOUS
<1>2. PICK b : b = (v * 1757) \div 65536
  OBVIOUS
<1>3. a \in Int /\ 65536 * a <= 17572 * v /\ 17572 * v < 65536 * a + 65536
  BY <1>1
<1>4. b \in Int /\ 65536 * b <= 1757 * v /\ 1757 * v < 65536 * b + 65536
  BY <1>2
<1>5. InRange(0, a - 4685 - 10 * (b - 469), 19)
  BY <1>3, <1>4 DEF InRange
<1> QED
  BY <1>1, <1>2, <1>5

LEMMA SiHumidity ==
  ASSUME NEW v \in Int, InRange(0, v, 65535)
  PROVE  InRange(0, (12500 * v) \div 65536 - 600
                      - 10 * ((v * 625) \div 32768 - 60), 9)
<1>1. PICK a : a = (12500 * v) \div 65536
  OBVIOUS
<1>2. PICK b : b = (v * 625) \div 32768
  OBVIOUS
<1>3. a \in Int /\ 65536 * a <= 12500 * v /\ 12500 * v < 65536 * a + 65536
  BY <1>1
<1>4. b \in Int /\ 32768 * b <= 625 * v /\ 625 * v < 32768 * b + 32768
  BY <1>2
<1>5. InRange(0, a - 600 - 10 * (b - 60), 9)
  BY <1>3, <1>4 DEF InRange
<1> QED
  BY <1>1, <1>2, <1>5

\* For every code the SI7021 can return, the integer formulas of si7021.c are
\* less than two tenths below those of the data sheet and never above.
THEOREM HumiditySensorNearDatasheet == Spec => []SiNearDatasheet
<1>1. ASSUME CompensationInv
      PROVE  SiNearDatasheet
  <2>1. Code(word) \in Int /\ InRange(0, Code(word), 65535)
    BY <1>1, SiCode DEF CompensationInv
  <2> QED
    BY <2>1, SiTemperature, SiHumidity
       DEF SiNearDatasheet, SI7021_temperature, SI7021_humidity
<1> QED
  BY <1>1, ReadingIsConversion, PTL

-----------------------------------------------------------------------------
(* b5 *)

\* What was read of a number is at most 255 below it, or zero.
LEMMA ReceivedBounds ==
  ASSUME NEW x \in Int, NEW o \in Outcomes
  PROVE  /\ Received(x, o) \in Int
         /\ o = "read" => Received(x, o) = x
         /\ o = "zero" => Received(x, o) = 0
         /\ o # "zero" => InRange(x - 255, Received(x, o), x)
         /\ x >= 0 => InRange(0, Received(x, o), x)
         /\ x <= 0 => InRange(x - 255, Received(x, o), 0)
<1>1. CASE o = "read"
  BY <1>1 DEF Received, InRange
<1>2. CASE o = "zero"
  BY <1>2 DEF Received, InRange
<1>3. CASE o = "partial"
  <2>1. PICK q : q = x \div 256
    OBVIOUS
  <2>2. q \in Int /\ 256 * q <= x /\ x < 256 * q + 256
    BY <2>1
  <2>3. Received(x, o) = 256 * q
    BY <1>3, <2>1 DEF Received
  <2> QED
    BY <1>3, <2>2, <2>3 DEF InRange
<1> QED
  BY <1>1, <1>2, <1>3 DEF Outcomes

\* The same of a word that is used as an uint16_t.
LEMMA ReceivedUnsigned ==
  ASSUME NEW x \in Int, NEW o \in Outcomes
  PROVE  /\ Uint16(x) \in Int /\ 0 <= Uint16(x)
         /\ Uint16(Received(x, o)) \in Int
         /\ o = "zero" => Uint16(Received(x, o)) = 0
         /\ o # "zero" => InRange(Uint16(x) - 255, Uint16(Received(x, o)), Uint16(x))
         /\ InRange(0, Uint16(Received(x, o)), Uint16(x))
<1>1. PICK q : q = x \div 65536
  OBVIOUS
<1>2. PICK u : u = Uint16(x)
  OBVIOUS
<1>3. q \in Int /\ u \in Int /\ 0 <= u /\ u < 65536 /\ x = 65536 * q + u
  BY <1>1, <1>2 DEF Uint16
<1>4. CASE o = "read"
  BY <1>2, <1>3, <1>4, ReceivedBounds DEF InRange
<1>5. CASE o = "zero"
  <2>1. Uint16(0) = 0
    BY DEF Uint16
  <2> QED
    BY <1>2, <1>3, <1>5, <2>1, ReceivedBounds DEF InRange
<1>6. CASE o = "partial"
  <2>1. PICK s : s = u \div 256
    OBVIOUS
  <2>2. s \in Int /\ 256 * s <= u /\ u < 256 * s + 256 /\ 0 <= s /\ s < 256
    BY <1>3, <2>1
  <2>3. PICK e : e = u - 256 * s
    OBVIOUS
  <2>4. e \in Int /\ 0 <= e /\ e < 256 /\ x = 256 * (256 * q + s) + e
    BY <1>3, <2>2, <2>3
  <2>5. 256 * q + s \in Int
    BY <1>3, <2>2
  <2>6. x \div 256 = 256 * q + s
    BY <2>4, <2>5, QuotientFrom
  <2>7. PICK y : y = Received(x, o)
    OBVIOUS
  <2>8. y \in Int /\ y = 65536 * q + 256 * s
    BY <1>3, <1>6, <2>2, <2>6, <2>7 DEF Received
  <2>9. Uint16(y) = 256 * s
    BY <1>3, <2>2, <2>8 DEF Uint16
  <2> QED
    BY <1>2, <1>3, <1>6, <2>2, <2>7, <2>9 DEF InRange
<1> QED
  BY <1>4, <1>5, <1>6 DEF Outcomes

\* What is kept of a word; with all of them read, the words are the EEPROM's.
LEMMA KeptWord ==
  ASSUME NEW c, NEW os, NEW w \in Words
  PROVE  Kept(c, os)[w] = Received(c[w], os[w])
BY DEF Kept

LEMMA KeptAll ==
  ASSUME NEW c \in Calibrations, NEW os, \A w \in Words : os[w] = "read"
  PROVE  Kept(c, os) = c
BY CalibrationsAssumption DEF Kept, Received

\* What there is to know of a word.
LEMMA WordTypes ==
  ASSUME NEW c \in Calibrations, NEW w \in Words
  PROVE  /\ c[w] \in Int
         /\ Uint16(c[w]) \in Int
BY CalibrationsAssumption DEF Uint16

LEMMA ProductBetween ==
  ASSUME NEW a \in Int, NEW b \in Int, NEW X \in Nat, NEW Y \in Nat,
         InRange(0, a, X), InRange(0, b, Y)
  PROVE  a * b \in Int /\ InRange(0, a * b, X * Y)
<1>1. a \in 0 .. X /\ b \in 0 .. Y
  BY DEF InRange
<1> QED
  BY <1>1, ProductBound DEF InRange

\* A raw temperature as measured: nothing goes wrong on the way to b5.
LEMMA TermDefined ==
  ASSUME NEW c \in Calibrations, Ordinary(c), NEW t, Measurable(c, t)
  PROVE  LET term == TemperatureTerm(c, t)
         IN term.fault = "none" /\ term.b5 \in Int /\ InRange(-6400, term.b5, 13600)
<1>1. PICK ac5 : ac5 = Uint16(c["ac5"])
  OBVIOUS
<1>2. PICK ac6 : ac6 = Uint16(c["ac6"])
  OBVIOUS
<1>3. PICK md : md = c["md"]
  OBVIOUS
<1>4. PICK mc : mc = c["mc"]
  OBVIOUS
<1>5. PICK above : above = t - ac6
  OBVIOUS
<1>6. PICK x1 : x1 = (above * ac5) \div 32768
  OBVIOUS
<1>7. /\ ac5 \in Int /\ InRange(24000, ac5, 32767)
      /\ ac6 \in Int /\ InRange(16400, ac6, 24000)
      /\ md \in Int /\ InRange(2000, md, 3000) /\ mc \in Int
  BY <1>1, <1>2, <1>3, <1>4, WordTypes DEF Ordinary, Words
<1>8. t \in Int /\ InRange(ac6, t, 65535)
  BY <1>2 DEF Measurable
<1>9. above \in Int /\ InRange(0, above, 65535)
  BY <1>5, <1>7, <1>8 DEF InRange
<1>10. ProductFits(above, ac5)
  <2>1. InRange(-65535, above, 65535) /\ InRange(-32767, ac5, 32767)
    BY <1>7, <1>9 DEF InRange
  <2>2. 65535 * 32767 <= 2147483647
    OBVIOUS
  <2> QED
    BY <1>7, <1>9, <2>1, <2>2, Fits
<1>11. x1 \in Int /\ x1 >= 0
  <2>1. above * ac5 \in Int /\ above * ac5 >= 0
    BY <1>7, <1>9 DEF InRange
  <2> QED
    BY <1>6, <2>1
<1>12. x1 + md # 0
  BY <1>7, <1>11 DEF InRange
<1>13. TemperatureTerm(c, t) = [fault |-> "none", b5 |-> x1 + Quotient(mc * 2048, x1 + md)]
  BY <1>1, <1>2, <1>3, <1>4, <1>5, <1>6, <1>10, <1>12 DEF TemperatureTerm
<1>14. Quotient(mc * 2048, x1 + md) \in Int
  <2>1. PICK d : d = x1 + md
    OBVIOUS
  <2>2. d \in Nat \ {0}
    BY <1>7, <1>11, <2>1 DEF InRange
  <2>3. PICK m : m = Magnitude(mc * 2048)
    OBVIOUS
  <2>4. m \in Nat
    BY <1>7, <2>3 DEF Magnitude
  <2>5. m \div d \in Int
    BY <2>2, <2>4
  <2>6. Magnitude(d) = d
    BY <2>2 DEF Magnitude
  <2>7. Quotient(mc * 2048, d) \in {m \div d, -(m \div d)}
    BY <2>3, <2>6 DEF Quotient
  <2> QED
    BY <2>1, <2>5, <2>7
<1>15. InRange(-6400, TemperatureTerm(c, t).b5, 13600)
  BY DEF Measurable
<1> QED
  BY <1>11, <1>13, <1>14, <1>15

-----------------------------------------------------------------------------
(* b4 *)

\* Squares and products of a b6 within bounds.
LEMMA Square ==
  ASSUME NEW b \in Int, NEW B \in Nat, InRange(-B, b, B)
  PROVE  b * b \in Int /\ InRange(0, b * b, B * B)
<1>1. CASE b >= 0
  BY <1>1, ProductBetween DEF InRange
<1>2. CASE b < 0
  <2>1. InRange(0, (-b) * (-b), B * B)
    BY <1>2, ProductBetween DEF InRange
  <2> QED
    BY <2>1
<1> QED
  BY <1>1, <1>2

LEMMA NegativeTimes ==
  ASSUME NEW a \in Int, NEW b \in Int, NEW A \in Nat, NEW L \in Nat, NEW H \in Nat,
         InRange(-A, a, 0), InRange(-L, b, H)
  PROVE  a * b \in Int /\ InRange(-(A * H), a * b, A * L)
<1>1. PICK m : m = -a
  OBVIOUS
<1>2. m \in 0 .. A /\ a * b = -(m * b)
  BY <1>1 DEF InRange
<1>3. CASE b >= 0
  <2>1. m * b \in 0 .. A * H
    BY <1>2, <1>3, ProductBound DEF InRange
  <2>2. A * L >= 0
    OBVIOUS
  <2> QED
    BY <1>2, <2>1, <2>2 DEF InRange
<1>4. CASE b < 0
  <2>1. m * (-b) \in 0 .. A * L
    BY <1>2, <1>4, ProductBound DEF InRange
  <2>2. A * H >= 0 /\ m * b = -(m * (-b))
    BY <1>2
  <2> QED
    BY <1>2, <2>1, <2>2 DEF InRange
<1> QED
  BY <1>3, <1>4

\* Done in parts, the shift of line 299 is that of the product.
LEMMA B4Product ==
  ASSUME NEW s, NEW b6, NEW ac4 \in Int, NEW x1, NEW x2, NEW x3 \in Int,
         ac4 = Uint16(s["ac4"]), x1 = (s["ac3"] * b6) \div 8192,
         x2 = (s["b1"] * ((b6 * b6) \div 4096)) \div 65536,
         x3 = (x1 + x2 + 2) \div 4 + 32768
  PROVE  B4(s, b6) = ((ac4 * x3) \div 32768) % 131072
<1>1. PICK q : q = x3 \div 32768
  OBVIOUS
<1>2. PICK r : r = x3 % 32768
  OBVIOUS
<1>3. q \in Int /\ r \in Int /\ x3 = 32768 * q + r
  BY <1>1, <1>2, DivisionParts
<1>4. PICK d : d = (ac4 * r) \div 32768
  OBVIOUS
<1>5. PICK e : e = (ac4 * r) % 32768
  OBVIOUS
<1>6. PICK n : n = ac4 * r
  OBVIOUS
<1>7. n \in Int
  BY <1>3, <1>6
<1>8. d \in Int /\ e \in Int /\ 0 <= e /\ e < 32768 /\ n = 32768 * d + e
  BY <1>4, <1>5, <1>6, <1>7, DivisionParts
<1>10. PICK k : k = ac4 * q + d
  OBVIOUS
<1>11. PICK v : v = ac4 * x3
  OBVIOUS
<1>12. k \in Int /\ v \in Int /\ v = 32768 * k + e
  BY <1>3, <1>6, <1>8, <1>10, <1>11
<1>13. k = v \div 32768
  BY <1>8, <1>12, QuotientFrom
<1>9. B4(s, b6) = (ac4 * q + d) % 131072
  BY <1>1, <1>2, <1>4 DEF B4
<1> QED
  BY <1>9, <1>10, <1>11, <1>13

\* The product of line 299.
LEMMA Ac4Times ==
  ASSUME NEW ac4 \in Int, NEW x3 \in Int, NEW A \in Nat, NEW L \in Nat, NEW H \in Nat,
         InRange(A, ac4, 34000), InRange(L, x3, H)
  PROVE  ac4 * x3 \in Int /\ InRange(A * L, ac4 * x3, 34000 * H)
<1>1. ac4 * x3 - A * L = (ac4 - A) * x3 + A * (x3 - L)
  OBVIOUS
<1>2. 34000 * H - ac4 * x3 = (34000 - ac4) * x3 + 34000 * (H - x3)
  OBVIOUS
<1>3. (ac4 - A) * x3 >= 0 /\ (34000 - ac4) * x3 >= 0
  BY DEF InRange
<1>4. A * (x3 - L) >= 0 /\ H - x3 >= 0
  BY DEF InRange
<1>5. A * L \in Int /\ ac4 * x3 \in Int /\ A * (x3 - L) \in Int
  OBVIOUS
<1> QED
  BY <1>1, <1>2, <1>3, <1>4, <1>5 DEF InRange

\* What Ordinary says of the signed words.
WithinBounds(s) ==
  /\ s["ac1"] \in Int /\ InRange(0, s["ac1"], 9000)
  /\ s["ac2"] \in Int /\ InRange(-1500, s["ac2"], 0)
  /\ s["ac3"] \in Int /\ InRange(-14750, s["ac3"], 0)
  /\ s["b1"] \in Int /\ InRange(0, s["b1"], 6500)
  /\ s["b2"] \in Int /\ InRange(0, s["b2"], 70)
  /\ s["mc"] \in Int /\ InRange(-11500, s["mc"], 0)

\* b4's words keep to these bounds, however their reads ended.
LEMMA KeptWithinBounds ==
  ASSUME NEW c \in Calibrations, Ordinary(c), NEW os \in [Words -> Outcomes],
         NEW s, s = Kept(c, os)
  PROVE  /\ s["ac3"] \in Int /\ InRange(-15005, s["ac3"], 0)
         /\ s["b1"] \in Int /\ InRange(0, s["b1"], 6500)
         /\ Uint16(s["ac4"]) \in Int
         /\ os["ac4"] # "zero" => InRange(32445, Uint16(s["ac4"]), 34000)
<1>1. \A w \in Words : s[w] = Received(c[w], os[w]) /\ c[w] \in Int /\ os[w] \in Outcomes
  BY KeptWord, WordTypes
<1>2. {"ac3", "ac4", "b1"} \subseteq Words
  BY DEF Words
<1>3. s["ac3"] \in Int /\ InRange(c["ac3"] - 255, s["ac3"], 0)
  BY <1>1, <1>2, ReceivedBounds DEF Ordinary, InRange
<1>4. s["b1"] \in Int /\ InRange(0, s["b1"], c["b1"])
  BY <1>1, <1>2, ReceivedBounds DEF Ordinary, InRange
<1>5. /\ Uint16(c["ac4"]) \in Int /\ Uint16(s["ac4"]) \in Int
      /\ os["ac4"] # "zero" =>
           InRange(Uint16(c["ac4"]) - 255, Uint16(s["ac4"]), Uint16(c["ac4"]))
  BY <1>1, <1>2, ReceivedUnsigned
<1> QED
  BY <1>1, <1>2, <1>3, <1>4, <1>5 DEF Ordinary, InRange

\* b6 * b6 >> 12.
LEMMA SquareQuotient ==
  ASSUME NEW b \in Int, NEW B \in Nat, InRange(-B, b, B),
         NEW sq, sq = (b * b) \div 4096
  PROVE  sq \in Int /\ 0 <= sq /\ 4096 * sq <= B * B
<1>1. PICK v : v = b * b
  OBVIOUS
<1>2. v \in Int /\ 0 <= v /\ v <= B * B
  BY <1>1, Square DEF InRange
<1>3. sq \in Int /\ 4096 * sq <= v /\ v < 4096 * sq + 4096
  BY <1>1, <1>2
<1> QED
  BY <1>2, <1>3

\* b4 for the temperatures a sensor measures.
LEMMA B4Measured ==
  ASSUME NEW s, WithinBounds(s), Uint16(s["ac4"]) \in Int,
         InRange(32700, Uint16(s["ac4"]), 34000),
         NEW b6 \in Int, InRange(-10400, b6, 9600)
  PROVE  B4(s, b6) \in Int /\ InRange(28387, B4(s, b6), 39536)
<1>1. PICK ac3 : ac3 = s["ac3"]
  OBVIOUS
<1>2. PICK b1 : b1 = s["b1"]
  OBVIOUS
<1>3. PICK ac4 : ac4 = Uint16(s["ac4"])
  OBVIOUS
<1>4. PICK sq : sq = (b6 * b6) \div 4096
  OBVIOUS
<1>5. PICK x1 : x1 = (ac3 * b6) \div 8192
  OBVIOUS
<1>6. PICK x2 : x2 = (b1 * sq) \div 65536
  OBVIOUS
<1>7. PICK x3 : x3 = (x1 + x2 + 2) \div 4 + 32768
  OBVIOUS
<1>8. x1 \in Int /\ -17286 <= x1 /\ x1 <= 18725
  <2>1. PICK v : v = ac3 * b6
    OBVIOUS
  <2>2. v \in Int /\ -(14750 * 9600) <= v /\ v <= 14750 * 10400
    BY <1>1, <2>1, NegativeTimes DEF WithinBounds, InRange
  <2> QED
    BY <1>5, <2>1, <2>2
<1>9. x2 \in Int /\ 0 <= x2 /\ x2 <= 2619
  <2>1. InRange(-10400, b6, 10400)
    BY DEF InRange
  <2>2. sq \in Int /\ 0 <= sq /\ 4096 * sq <= 10400 * 10400
    BY <1>4, <2>1, SquareQuotient
  <2>3. PICK v : v = b1 * sq
    OBVIOUS
  <2>4. InRange(0, b1, 6500) /\ InRange(0, sq, 26406) /\ b1 \in Int
    BY <1>2, <2>2 DEF WithinBounds, InRange
  <2>5. v \in Int /\ 0 <= v /\ v <= 6500 * 26406
    BY <2>2, <2>3, <2>4, ProductBetween DEF InRange
  <2> QED
    BY <1>6, <2>3, <2>5
<1>10. x3 \in Int /\ InRange(28447, x3, 38104)
  BY <1>7, <1>8, <1>9 DEF InRange
<1>11. B4(s, b6) = ((ac4 * x3) \div 32768) % 131072
  BY <1>1, <1>2, <1>3, <1>4, <1>5, <1>6, <1>7, <1>10, B4Product
<1>12. PICK v : v = ac4 * x3
  OBVIOUS
<1>13. v \in Int /\ InRange(32700 * 28447, v, 34000 * 38104)
  BY <1>3, <1>10, <1>12, Ac4Times
<1>14. PICK q : q = v \div 32768
  OBVIOUS
<1>15. q \in Int /\ InRange(28387, q, 39536)
  BY <1>13, <1>14 DEF InRange
<1>16. q % 131072 = q
  BY <1>15 DEF InRange
<1> QED
  BY <1>11, <1>12, <1>14, <1>15, <1>16

\* b4 when the raw temperature was not read: b6 is far below zero.
LEMMA B4Cold ==
  ASSUME NEW s, WithinBounds(s), Uint16(s["ac4"]) \in Int,
         InRange(32700, Uint16(s["ac4"]), 34000),
         NEW b6 \in Int, InRange(-28000, b6, 0)
  PROVE  B4(s, b6) \in Int /\ InRange(32700, B4(s, b6), 52002)
<1>1. PICK ac3 : ac3 = s["ac3"]
  OBVIOUS
<1>2. PICK b1 : b1 = s["b1"]
  OBVIOUS
<1>3. PICK ac4 : ac4 = Uint16(s["ac4"])
  OBVIOUS
<1>4. PICK sq : sq = (b6 * b6) \div 4096
  OBVIOUS
<1>5. PICK x1 : x1 = (ac3 * b6) \div 8192
  OBVIOUS
<1>6. PICK x2 : x2 = (b1 * sq) \div 65536
  OBVIOUS
<1>7. PICK x3 : x3 = (x1 + x2 + 2) \div 4 + 32768
  OBVIOUS
<1>8. x1 \in Int /\ 0 <= x1 /\ x1 <= 50415
  <2>1. PICK v : v = ac3 * b6
    OBVIOUS
  <2>2. v \in Int /\ -(14750 * 0) <= v /\ v <= 14750 * 28000
    BY <1>1, <2>1, NegativeTimes DEF WithinBounds, InRange
  <2> QED
    BY <1>5, <2>1, <2>2
<1>9. x2 \in Int /\ 0 <= x2 /\ x2 <= 18984
  <2>1. InRange(-28000, b6, 28000)
    BY DEF InRange
  <2>2. sq \in Int /\ 0 <= sq /\ 4096 * sq <= 28000 * 28000
    BY <1>4, <2>1, SquareQuotient
  <2>3. PICK v : v = b1 * sq
    OBVIOUS
  <2>4. InRange(0, b1, 6500) /\ InRange(0, sq, 191406) /\ b1 \in Int
    BY <1>2, <2>2 DEF WithinBounds, InRange
  <2>5. v \in Int /\ 0 <= v /\ v <= 6500 * 191406
    BY <2>2, <2>3, <2>4, ProductBetween DEF InRange
  <2> QED
    BY <1>6, <2>3, <2>5
<1>10. x3 \in Int /\ InRange(32768, x3, 50118)
  BY <1>7, <1>8, <1>9 DEF InRange
<1>11. B4(s, b6) = ((ac4 * x3) \div 32768) % 131072
  BY <1>1, <1>2, <1>3, <1>4, <1>5, <1>6, <1>7, <1>10, B4Product
<1>12. PICK v : v = ac4 * x3
  OBVIOUS
<1>13. v \in Int /\ InRange(32700 * 32768, v, 34000 * 50118)
  BY <1>3, <1>10, <1>12, Ac4Times
<1>14. PICK q : q = v \div 32768
  OBVIOUS
<1>15. q \in Int /\ InRange(32700, q, 52002)
  BY <1>13, <1>14 DEF InRange
<1>16. q % 131072 = q
  BY <1>15 DEF InRange
<1> QED
  BY <1>11, <1>12, <1>14, <1>15, <1>16

\* A product that fits is a number of 31 bits, a square of at most 46340.
LEMMA FittingProduct ==
  ASSUME NEW a \in Nat, NEW b \in Nat, ProductFits(a, b)
  PROVE  a * b \in Int /\ 0 <= a * b /\ a * b <= 2147483647
<1>1. Magnitude(a) = a /\ Magnitude(b) = b
  BY DEF Magnitude
<1>2. CASE a = 0
  BY <1>2
<1>3. CASE a # 0
  <2>1. PICK q : q = 2147483647 \div a
    OBVIOUS
  <2>2. b <= q
    BY <1>1, <1>3, <2>1 DEF ProductFits
  <2>3. PICK r : r = 2147483647 % a
    OBVIOUS
  <2>4. q \in Int /\ r \in Int /\ 0 <= r /\ 2147483647 = a * q + r
    BY <1>3, <2>1, <2>3, DivisionParts
  <2>5. a * q - a * b = a * (q - b) /\ a * (q - b) >= 0 /\ a * b >= 0
    BY <2>2, <2>4
  <2> QED
    BY <2>4, <2>5
<1> QED
  BY <1>2, <1>3

LEMMA FittingSquare ==
  ASSUME NEW b \in Int, ProductFits(b, b)
  PROVE  InRange(-46340, b, 46340)
<1>1. PICK m : m = Magnitude(b)
  OBVIOUS
<1>2. m \in Nat /\ (b = m \/ b = -m)
  BY <1>1 DEF Magnitude
<1>3. ProductFits(m, m)
  BY <1>1, <1>2 DEF ProductFits, Magnitude
<1>4. m * m <= 2147483647
  BY <1>2, <1>3, FittingProduct
<1>5. ASSUME m >= 46341
      PROVE  FALSE
  <2>1. m * m - 46341 * 46341 = (m - 46341) * (m + 46341)
    BY <1>2
  <2>2. (m - 46341) * (m + 46341) >= 0
    BY <1>2, <1>5
  <2> QED
    BY <1>2, <1>4, <2>1, <2>2
<1> QED
  BY <1>2, <1>5 DEF InRange

\* b4 is no zero, as long as a byte of ac4 was read and no product on the way
\* overflows.
LEMMA B4NotZero ==
  ASSUME NEW s, s["ac3"] \in Int, InRange(-15005, s["ac3"], 0),
         s["b1"] \in Int, InRange(0, s["b1"], 6500), Uint16(s["ac4"]) \in Int,
         InRange(32445, Uint16(s["ac4"]), 34000),
         NEW b6 \in Int, ProductFits(b6, b6), ProductFits(s["b1"], (b6 * b6) \div 4096)
  PROVE  B4(s, b6) # 0
<1>1. PICK ac3 : ac3 = s["ac3"]
  OBVIOUS
<1>2. PICK b1 : b1 = s["b1"]
  OBVIOUS
<1>3. PICK ac4 : ac4 = Uint16(s["ac4"])
  OBVIOUS
<1>4. PICK sq : sq = (b6 * b6) \div 4096
  OBVIOUS
<1>5. PICK x1 : x1 = (ac3 * b6) \div 8192
  OBVIOUS
<1>6. PICK x2 : x2 = (b1 * sq) \div 65536
  OBVIOUS
<1>7. PICK x3 : x3 = (x1 + x2 + 2) \div 4 + 32768
  OBVIOUS
<1>8. InRange(-46340, b6, 46340)
  BY FittingSquare
<1>9. x1 \in Int /\ -84881 <= x1 /\ x1 <= 84880
  <2>1. PICK v : v = ac3 * b6
    OBVIOUS
  <2>2. v \in Int /\ -(15005 * 46340) <= v /\ v <= 15005 * 46340
    BY <1>1, <1>8, <2>1, NegativeTimes DEF InRange
  <2> QED
    BY <1>5, <2>1, <2>2
<1>10. x2 \in Int /\ 0 <= x2 /\ x2 <= 32767
  <2>1. sq \in Nat
    BY <1>4, <1>8, SquareQuotient
  <2>2. PICK v : v = b1 * sq
    OBVIOUS
  <2>3. b1 \in Nat /\ ProductFits(b1, sq)
    BY <1>2, <1>4 DEF InRange
  <2>4. v \in Int /\ 0 <= v /\ v <= 2147483647
    BY <2>1, <2>2, <2>3, FittingProduct
  <2> QED
    BY <1>6, <2>2, <2>4
<1>11. x3 \in Int /\ InRange(11548, x3, 62180)
  BY <1>7, <1>9, <1>10 DEF InRange
<1>12. B4(s, b6) = ((ac4 * x3) \div 32768) % 131072
  BY <1>1, <1>2, <1>3, <1>4, <1>5, <1>6, <1>7, <1>11, B4Product
<1>13. PICK v : v = ac4 * x3
  OBVIOUS
<1>14. v \in Int /\ InRange(32445 * 11548, v, 34000 * 62180)
  BY <1>3, <1>11, <1>13, Ac4Times
<1>15. PICK q : q = v \div 32768
  OBVIOUS
<1>16. q \in Int /\ InRange(11434, q, 64518)
  BY <1>14, <1>15 DEF InRange
<1>17. q % 131072 = q
  BY <1>16 DEF InRange
<1> QED
  BY <1>12, <1>13, <1>15, <1>16, <1>17 DEF InRange

-----------------------------------------------------------------------------
(* b3 *)

LEMMA Oversampling == 2 ^ OSS = 4
BY DEF OSS

LEMMA ShiftAndBack ==
  ASSUME NEW v \in Int
  PROVE  (v * 4 + 2) \div 4 = v
OBVIOUS

\* The shift by the oversampling is undone by the division by 4.
LEMMA B3Sum ==
  ASSUME NEW s, NEW b6, NEW ac1 \in Int, NEW x1 \in Int, NEW x2 \in Int, ac1 = s["ac1"],
         x1 = (s["b2"] * ((b6 * b6) \div 4096)) \div 2048,
         x2 = (s["ac2"] * b6) \div 2048
  PROVE  B3(s, b6) = 4 * ac1 + x1 + x2
<1>1. PICK v : v = 4 * ac1 + x1 + x2
  OBVIOUS
<1>2. v \in Int
  BY <1>1
<1>3. B3(s, b6) = (v * 4 + 2) \div 4
  BY <1>1, Oversampling DEF B3
<1>4. (v * 4 + 2) \div 4 = v
  BY <1>2, ShiftAndBack
<1> QED
  BY <1>1, <1>3, <1>4

LEMMA Shift2048 ==
  ASSUME NEW a \in Int, NEW b \in Int, a <= b
  PROVE  a \div 2048 \in Int /\ a \div 2048 <= b \div 2048
OBVIOUS

LEMMA Shift4096 ==
  ASSUME NEW a \in Int, NEW b \in Int, a <= b
  PROVE  a \div 4096 \in Int /\ a \div 4096 <= b \div 4096
OBVIOUS

\* b3 for the temperatures a sensor measures: below the least raw pressure.
LEMMA B3Measured ==
  ASSUME NEW s, WithinBounds(s), 4 * s["ac1"] + 5 * s["ac2"] >= -4000,
         B3(s, -10400) <= 40000,
         NEW b6 \in Int, InRange(-10400, b6, 9600)
  PROVE  B3(s, b6) \in Int /\ InRange(-4000, B3(s, b6), 40000)
<1>1. PICK ac1 : ac1 = s["ac1"]
  OBVIOUS
<1>2. PICK ac2 : ac2 = s["ac2"]
  OBVIOUS
<1>3. PICK b2 : b2 = s["b2"]
  OBVIOUS
<1>4. PICK L : L = -10400
  OBVIOUS
<1>5. PICK v : v = b6 * b6
  OBVIOUS
<1>6. PICK V : V = L * L
  OBVIOUS
<1>7. PICK sq : sq = v \div 4096
  OBVIOUS
<1>8. PICK Sq : Sq = V \div 4096
  OBVIOUS
<1>9. PICK x1 : x1 = (b2 * sq) \div 2048
  OBVIOUS
<1>10. PICK X1 : X1 = (b2 * Sq) \div 2048
  OBVIOUS
<1>11. PICK x2 : x2 = (ac2 * b6) \div 2048
  OBVIOUS
<1>12. PICK X2 : X2 = (ac2 * L) \div 2048
  OBVIOUS
<1>13. /\ ac1 \in Int /\ 0 <= ac1 /\ ac2 \in Int /\ ac2 <= 0
       /\ b2 \in Int /\ 0 <= b2 /\ 4 * ac1 + 5 * ac2 >= -4000
       /\ L \in Int /\ L <= b6 /\ b6 <= 9600
  BY <1>1, <1>2, <1>3, <1>4 DEF WithinBounds, InRange
<1>14. v \in Int /\ V \in Int /\ 0 <= v /\ v <= V
  <2>1. InRange(-10400, b6, 10400)
    BY DEF InRange
  <2> QED
    BY <1>4, <1>5, <1>6, <2>1, Square DEF InRange
<1>15. sq \in Int /\ Sq \in Int /\ 0 <= sq /\ sq <= Sq
  BY <1>7, <1>8, <1>14, Shift4096
<1>16. x1 \in Int /\ X1 \in Int /\ 0 <= x1 /\ x1 <= X1
  <2>1. PICK a : a = b2 * sq
    OBVIOUS
  <2>2. PICK b : b = b2 * Sq
    OBVIOUS
  <2>3. b - a = b2 * (Sq - sq)
    BY <1>13, <1>15, <2>1, <2>2
  <2>4. a \in Int /\ b \in Int /\ 0 <= a /\ b2 * (Sq - sq) >= 0
    BY <1>13, <1>15, <2>1, <2>2
  <2>5. a <= b
    BY <2>3, <2>4
  <2> QED
    BY <1>9, <1>10, <2>1, <2>2, <2>4, <2>5
<1>17. x2 \in Int /\ X2 \in Int /\ 5 * ac2 <= x2 /\ x2 <= X2
  <2>1. PICK a : a = ac2 * b6
    OBVIOUS
  <2>2. PICK b : b = ac2 * L
    OBVIOUS
  <2>3. b - a = -ac2 * (b6 - L) /\ a - ac2 * 9600 = -ac2 * (9600 - b6)
    BY <1>13, <2>1, <2>2
  <2>4. a \in Int /\ b \in Int /\ -ac2 * (b6 - L) >= 0 /\ -ac2 * (9600 - b6) >= 0
    BY <1>13, <2>1, <2>2
  <2>5. a <= b /\ 9600 * ac2 <= a
    BY <1>13, <2>3, <2>4
  <2> QED
    BY <1>11, <1>12, <1>13, <2>1, <2>2, <2>4, <2>5
<1>18. B3(s, b6) = 4 * ac1 + x1 + x2
  <2>1. x1 = (s["b2"] * ((b6 * b6) \div 4096)) \div 2048
    BY <1>3, <1>5, <1>7, <1>9
  <2>2. x2 = (s["ac2"] * b6) \div 2048
    BY <1>2, <1>11
  <2> QED
    BY <1>1, <1>13, <1>16, <1>17, <2>1, <2>2, B3Sum
<1>19. B3(s, L) = 4 * ac1 + X1 + X2
  <2>1. X1 = (s["b2"] * ((L * L) \div 4096)) \div 2048
    BY <1>3, <1>6, <1>8, <1>10
  <2>2. X2 = (s["ac2"] * L) \div 2048
    BY <1>2, <1>12
  <2> QED
    BY <1>1, <1>13, <1>16, <1>17, <2>1, <2>2, B3Sum
<1>20. 4 * ac1 + X1 + X2 <= 40000
  BY <1>4, <1>19
<1> QED
  BY <1>13, <1>16, <1>17, <1>18, <1>20 DEF InRange

\* b3 when the raw temperature was not read.
LEMMA B3Cold ==
  ASSUME NEW s, WithinBounds(s), NEW b6 \in Int, InRange(-28000, b6, 0)
  PROVE  B3(s, b6) \in Int /\ InRange(0, B3(s, b6), 63050)
<1>1. PICK ac1 : ac1 = s["ac1"]
  OBVIOUS
<1>2. PICK ac2 : ac2 = s["ac2"]
  OBVIOUS
<1>3. PICK b2 : b2 = s["b2"]
  OBVIOUS
<1>4. PICK sq : sq = (b6 * b6) \div 4096
  OBVIOUS
<1>5. PICK x1 : x1 = (b2 * sq) \div 2048
  OBVIOUS
<1>6. PICK x2 : x2 = (ac2 * b6) \div 2048
  OBVIOUS
<1>7. x1 \in Int /\ 0 <= x1 /\ x1 <= 6542
  <2>1. InRange(-28000, b6, 28000)
    BY DEF InRange
  <2>2. sq \in Int /\ 0 <= sq /\ 4096 * sq <= 28000 * 28000
    BY <1>4, <2>1, SquareQuotient
  <2>3. PICK v : v = b2 * sq
    OBVIOUS
  <2>4. InRange(0, b2, 70) /\ InRange(0, sq, 191406) /\ b2 \in Int
    BY <1>3, <2>2 DEF WithinBounds, InRange
  <2>5. v \in Int /\ 0 <= v /\ v <= 70 * 191406
    BY <2>2, <2>3, <2>4, ProductBetween DEF InRange
  <2> QED
    BY <1>5, <2>3, <2>5
<1>8. x2 \in Int /\ 0 <= x2 /\ x2 <= 20508
  <2>1. PICK v : v = ac2 * b6
    OBVIOUS
  <2>2. v \in Int /\ -(1500 * 0) <= v /\ v <= 1500 * 28000
    BY <1>2, <2>1, NegativeTimes DEF WithinBounds, InRange
  <2> QED
    BY <1>6, <2>1, <2>2
<1>9. ac1 \in Int /\ 0 <= ac1 /\ ac1 <= 9000
  BY <1>1 DEF WithinBounds, InRange
<1>10. B3(s, b6) = 4 * ac1 + x1 + x2
  BY <1>1, <1>2, <1>3, <1>4, <1>5, <1>6, <1>7, <1>8, <1>9, B3Sum
<1> QED
  BY <1>7, <1>8, <1>9, <1>10 DEF InRange

-----------------------------------------------------------------------------
(* b7 and p *)

LEMMA Factor == 50000 \div 2 ^ OSS = 12500
BY Oversampling

\* Sixteen bits of a number that is too large by at most as much.
LEMMA Wrapped ==
  ASSUME NEW n \in Int, NEW r, r = n % 65536
  PROVE  /\ r \in Int /\ 0 <= r /\ r < 65536
         /\ 0 <= n /\ n < 65536 => r = n
         /\ -65536 <= n /\ n < 0 => r = n + 65536
OBVIOUS

\* b7 is the product, or what is left of it in 32 bits.
LEMMA ProductHalves ==
  ASSUME NEW d \in Int, NEW u, u = UnsignedProduct(d, 12500)
  PROVE  /\ u.high \in Int /\ 0 <= u.high /\ u.high < 65536
         /\ u.low \in Int /\ 0 <= u.low /\ u.low < 65536
         /\ 0 <= d /\ d <= 343597 => 65536 * u.high + u.low = 12500 * d
         /\ -343597 <= d /\ d < 0 =>
              65536 * u.high + u.low = 12500 * d + 4294967296
<1>1. PICK dh : dh = d \div 65536
  OBVIOUS
<1>2. PICK dl : dl = d % 65536
  OBVIOUS
<1>3. dh \in Int /\ dl \in Int /\ 0 <= dl /\ dl < 65536 /\ d = 65536 * dh + dl
  BY <1>1, <1>2
<1>4. PICK n : n = dl * 12500
  OBVIOUS
<1>5. PICK nh : nh = n \div 65536
  OBVIOUS
<1>6. PICK nl : nl = n % 65536
  OBVIOUS
<1>7. n \in Int /\ n = 12500 * dl
  BY <1>3, <1>4
<1>8. nh \in Int /\ nl \in Int /\ 0 <= nl /\ nl < 65536 /\ n = 65536 * nh + nl
  BY <1>5, <1>6, <1>7, DivisionParts
<1>9. PICK k : k = dh * 12500 + nh
  OBVIOUS
<1>10. k \in Int /\ 65536 * k + nl = 12500 * d
  BY <1>3, <1>7, <1>8, <1>9
<1>11. PICK h : h = k % 65536
  OBVIOUS
<1>12. /\ h \in Int /\ 0 <= h /\ h < 65536
       /\ 0 <= k /\ k < 65536 => h = k
       /\ -65536 <= k /\ k < 0 => h = k + 65536
  BY <1>10, <1>11, Wrapped
<1>13. u.high = h /\ u.low = nl
  BY <1>1, <1>2, <1>4, <1>5, <1>6, <1>9, <1>11 DEF UnsignedProduct, Uint32
<1>14. 0 <= d /\ d <= 343597 => 0 <= k /\ k < 65536
  BY <1>8, <1>10
<1>15. -343597 <= d /\ d < 0 => -65536 <= k /\ k < 0
  BY <1>8, <1>10
<1>16. 0 <= d /\ d <= 343597 => 65536 * h + nl = 12500 * d
  BY <1>8, <1>10, <1>12, <1>14
<1>17. -343597 <= d /\ d < 0 => 65536 * h + nl = 12500 * d + 4294967296
  BY <1>8, <1>10, <1>12, <1>15
<1> QED
  BY <1>8, <1>12, <1>13, <1>16, <1>17

\* Line 304 divides twice b7, or b7 where the doubling would wrap around.
LEMMA QuotientSplit ==
  ASSUME NEW u, NEW h \in Nat, NEW l \in Nat, u.high = h, u.low = l,
         h < 65536, l < 65536, NEW b \in Nat \ {0}, NEW v, v = 65536 * h + l
  PROVE  QuotientB7(u, b) = IF v < 2147483648 THEN (2 * v) \div b ELSE 2 * (v \div b)
<1>1. h < 32768 <=> v < 2147483648
  OBVIOUS
<1>2. CASE h < 32768
  <2>1. PICK t : t = l \div 32768
    OBVIOUS
  <2>2. PICK k : k = (2 * l) % 65536
    OBVIOUS
  <2>3. t \in Nat /\ k \in Nat /\ t <= 1 /\ k < 65536 /\ 2 * l = 65536 * t + k
    BY <2>1, <2>2
  <2>4. PICK n : n = 2 * h + t
    OBVIOUS
  <2>5. n \in Nat /\ n < 65536
    BY <1>2, <2>3, <2>4
  <2>6. n % 65536 = n
    BY <2>5
  <2>7. PICK s : s = ShiftLeft1(u)
    OBVIOUS
  <2>8. s.high = n /\ s.low = k
    BY <2>1, <2>2, <2>4, <2>6, <2>7 DEF ShiftLeft1, Uint32
  <2>9. UnsignedQuotient(s, b) = (65536 * n + k) \div b
    BY <2>3, <2>5, <2>8, LongDivision
  <2>10. 65536 * n + k = 2 * v
    BY <2>3, <2>4
  <2>11. QuotientB7(u, b) = (2 * v) \div b
    BY <1>2, <2>7, <2>9, <2>10 DEF QuotientB7
  <2> QED
    BY <1>1, <1>2, <2>11
<1>3. CASE ~(h < 32768)
  <2>1. UnsignedQuotient(u, b) = v \div b
    BY LongDivision
  <2>2. QuotientB7(u, b) = 2 * (v \div b)
    BY <1>3, <2>1 DEF QuotientB7
  <2> QED
    BY <1>1, <1>3, <2>2
<1> QED
  BY <1>2, <1>3

\* p as a function of b7 and b4, on both sides of line 304.
PressureTerm(v, b4) ==
  IF v < 2147483648 THEN (2 * v) \div b4 ELSE 2 * (v \div b4)

\* p for every raw pressure and every divisor a device leads to.
LEMMA PressureTermBetween ==
  ASSUME NEW v \in Nat, v <= 3050000000, NEW b \in Int, 28387 <= b
  PROVE  PressureTerm(v, b) \in Int /\ InRange(0, PressureTerm(v, b), 215039)
<1>1. b \in Nat \ {0}
  OBVIOUS
<1>n. PICK n : n = 2 * v
  OBVIOUS
<1>m. n \in Int
  BY <1>n
<1>2. PICK q : q = n \div b
  OBVIOUS
<1>3. PICK r : r = v \div b
  OBVIOUS
<1>4. PICK qr : qr = n % b
  OBVIOUS
<1>5. PICK rr : rr = v % b
  OBVIOUS
<1>6. q \in Int /\ qr \in Int /\ 0 <= qr /\ qr < b /\ n = b * q + qr
  BY <1>1, <1>2, <1>4, <1>m, DivisionParts
<1>7. r \in Int /\ rr \in Int /\ 0 <= rr /\ rr < b /\ v = b * r + rr
  BY <1>1, <1>3, <1>5, DivisionParts
<1>8. ASSUME NEW k \in Int, NEW m \in Int, NEW e \in Int, 0 <= e, e < b,
             m = b * k + e, 0 <= m
      PROVE  k >= 0
  <2> SUFFICES ASSUME k <= -1
               PROVE  FALSE
    BY <1>8
  <2>1. b * k + b = b * (k + 1) /\ b * (k + 1) <= 0
    OBVIOUS
  <2> QED
    BY <1>8, <2>1
<1>9. ASSUME NEW k \in Int, NEW K \in Int, NEW m \in Int, NEW e \in Int,
             0 <= e, m = b * k + e, K >= 0, m < 28387 * (K + 1)
      PROVE  k <= K
  <2> SUFFICES ASSUME k >= K + 1
               PROVE  FALSE
    BY <1>9
  <2>1. b * k - 28387 * (K + 1) = (b - 28387) * k + 28387 * (k - (K + 1))
    BY <1>9
  <2>2. (b - 28387) * k >= 0
    BY <1>9
  <2> QED
    BY <1>9, <2>1, <2>2
<1>10. 0 <= q /\ q <= 215039
  <2>1. 0 <= n /\ n \in Int /\ n < 28387 * (215039 + 1)
    BY <1>n
  <2>2. 0 <= q
    BY <1>6, <1>8, <2>1
  <2>3. q <= 215039
    BY <1>6, <1>9, <2>1
  <2> QED
    BY <2>2, <2>3
<1>11. 0 <= r /\ r <= 107519
  <2>1. v < 28387 * (107519 + 1)
    OBVIOUS
  <2>2. 0 <= r
    BY <1>7, <1>8
  <2>3. r <= 107519
    BY <1>7, <1>9, <2>1
  <2> QED
    BY <2>2, <2>3
<1>12. CASE v < 2147483648
  <2>1. PressureTerm(v, b) = q
    BY <1>n, <1>2, <1>12 DEF PressureTerm
  <2> QED
    BY <1>6, <1>10, <2>1 DEF InRange
<1>13. CASE ~(v < 2147483648)
  <2>1. PressureTerm(v, b) = 2 * r
    BY <1>3, <1>13 DEF PressureTerm
  <2> QED
    BY <1>7, <1>11, <2>1 DEF InRange
<1> QED
  BY <1>12, <1>13

\* The products of the last lines fit.
LEMMA LastProductsFit ==
  ASSUME NEW p \in Int, InRange(0, p, 215039)
  PROVE  ProductFits(7357, p) /\ ProductFits((p \div 256) * (p \div 256), 3038)
<1>1. ProductFits(7357, p)
  <2>1. InRange(-7357, 7357, 7357) /\ InRange(-215039, p, 215039)
    BY DEF InRange
  <2>2. 7357 * 215039 <= 2147483647
    OBVIOUS
  <2> QED
    BY <2>1, <2>2, Fits
<1>2. PICK n : n = p \div 256
  OBVIOUS
<1>3. n \in Int /\ InRange(0, n, 839)
  BY <1>2 DEF InRange
<1>4. PICK nn : nn = n * n
  OBVIOUS
<1>5. nn \in Int /\ InRange(0, nn, 839 * 839)
  BY <1>3, <1>4, ProductBetween
<1>6. ProductFits(nn, 3038)
  <2>1. InRange(-703921, nn, 703921) /\ InRange(-3038, 3038, 3038)
    BY <1>5 DEF InRange
  <2>2. 703921 * 3038 <= 2147483647
    OBVIOUS
  <2> QED
    BY <1>5, <2>1, <2>2, Fits
<1> QED
  BY <1>1, <1>2, <1>4, <1>6

-----------------------------------------------------------------------------
(* Readings *)

\* The quotient of the 32-bit b7, which a negative difference wraps around.
LEMMA PressureTermIs ==
  ASSUME NEW d \in Int, InRange(-343597, d, 343597), NEW b \in Nat \ {0},
         NEW v, v = 12500 * d + (IF d < 0 THEN 4294967296 ELSE 0)
  PROVE  QuotientB7(UnsignedProduct(d, 12500), b) = PressureTerm(v, b)
<1>1. PICK u : u = UnsignedProduct(d, 12500)
  OBVIOUS
<1>2. PICK h : h = u.high
  OBVIOUS
<1>3. PICK l : l = u.low
  OBVIOUS
<1>4. /\ h \in Int /\ 0 <= h /\ h < 65536
      /\ l \in Int /\ 0 <= l /\ l < 65536
      /\ 0 <= d /\ d <= 343597 => 65536 * h + l = 12500 * d
      /\ -343597 <= d /\ d < 0 => 65536 * h + l = 12500 * d + 4294967296
  BY <1>1, <1>2, <1>3, ProductHalves
<1>5. PICK n : n = 65536 * h + l
  OBVIOUS
<1>6. n = v
  BY <1>4, <1>5 DEF InRange
<1>7. QuotientB7(u, b) = PressureTerm(n, b)
  <2>1. h \in Nat /\ l \in Nat /\ h < 65536 /\ l < 65536 /\ u.high = h /\ u.low = l
    BY <1>2, <1>3, <1>4
  <2>2. QuotientB7(u, b) = IF n < 2147483648 THEN (2 * n) \div b ELSE 2 * (n \div b)
    BY <1>5, <2>1, QuotientSplit
  <2> QED
    BY <2>2 DEF PressureTerm
<1> QED
  BY <1>1, <1>6, <1>7

\* What the devices of the model are like.
LEMMA DeviceWords ==
  ASSUME NEW c \in Calibrations, Ordinary(c)
  PROVE  /\ WithinBounds(c)
         /\ Uint16(c["ac4"]) \in Int /\ InRange(32700, Uint16(c["ac4"]), 34000)
         /\ Uint16(c["ac5"]) \in Int /\ InRange(24000, Uint16(c["ac5"]), 32767)
         /\ Uint16(c["ac6"]) \in Int /\ InRange(16400, Uint16(c["ac6"]), 24000)
         /\ c["md"] \in Int /\ InRange(2000, c["md"], 3000)
         /\ 4 * c["ac1"] + 5 * c["ac2"] >= -4000
         /\ B3(c, -10400) <= 40000
<1>1. WithinBounds(c)
  BY WordTypes DEF WithinBounds, Ordinary, Words
<1>2. -6400 - 4000 = -10400
  OBVIOUS
<1> QED
  BY <1>1, <1>2, WordTypes DEF Ordinary, Words

\* The products with b6 fit for the temperatures a sensor measures.
LEMMA B6ProductsFit ==
  ASSUME NEW s, WithinBounds(s), NEW b6 \in Int, InRange(-28000, b6, 28000)
  PROVE  /\ ProductFits(b6, b6)
         /\ ProductFits(s["b1"], (b6 * b6) \div 4096)
         /\ ProductFits(s["b2"], (b6 * b6) \div 4096)
<1>1. ProductFits(b6, b6)
  <2>1. 28000 * 28000 <= 2147483647
    OBVIOUS
  <2> QED
    BY <2>1, Fits
<1>2. PICK sq : sq = (b6 * b6) \div 4096
  OBVIOUS
<1>3. sq \in Int /\ InRange(-191406, sq, 191406)
  <2>1. sq \in Int /\ 0 <= sq /\ 4096 * sq <= 28000 * 28000
    BY <1>2, SquareQuotient
  <2> QED
    BY <2>1 DEF InRange
<1>4. ASSUME NEW b \in Int, InRange(-6500, b, 6500)
      PROVE  ProductFits(b, sq)
  <2>1. 6500 * 191406 <= 2147483647
    OBVIOUS
  <2> QED
    BY <1>3, <1>4, <2>1, Fits
<1>5. /\ s["b1"] \in Int /\ InRange(-6500, s["b1"], 6500)
      /\ s["b2"] \in Int /\ InRange(-6500, s["b2"], 6500)
  BY DEF WithinBounds, InRange
<1> QED
  BY <1>1, <1>2, <1>4, <1>5

\* With everything read, nothing goes wrong, and this is the pressure.
LEMMA MeasuredReading ==
  ASSUME NEW c \in Calibrations, Ordinary(c), NEW t, Measurable(c, t),
         NEW w \in Int, RawPressureRead(w),
         NEW b6, b6 = TemperatureTerm(c, t).b5 - 4000,
         NEW b4, b4 = B4(c, b6), NEW b3, b3 = B3(c, b6),
         NEW v, v = 12500 * (4 * w - b3)
  PROVE  /\ b3 \in Int /\ b4 \in Int /\ InRange(28387, b4, 39536)
         /\ v \in Nat /\ v <= 3050000000
         /\ bmp085Convert(c, t, w).fault = "none"
         /\ bmp085Convert(c, t, w).pressure = PressureOf(PressureTerm(v, b4))
<1>1. PICK term : term = TemperatureTerm(c, t)
  OBVIOUS
<1>2. term.fault = "none" /\ b6 \in Int /\ InRange(-10400, b6, 9600)
  <2>1. term.fault = "none" /\ term.b5 \in Int /\ InRange(-6400, term.b5, 13600)
    BY <1>1, TermDefined
  <2> QED
    BY <1>1, <2>1 DEF InRange
<1>3. b4 \in Int /\ InRange(28387, b4, 39536)
  BY <1>2, DeviceWords, B4Measured
<1>4. b3 \in Int /\ InRange(-4000, b3, 40000)
  BY <1>2, DeviceWords, B3Measured
<1>5. PICK d : d = 4 * w - b3
  OBVIOUS
<1>6. d \in Int /\ 0 <= d /\ d <= 244000
  BY <1>4, <1>5 DEF InRange, RawPressureRead
<1>7. v \in Nat /\ v <= 3050000000
  BY <1>5, <1>6
<1>8. PICK p : p = PressureTerm(v, b4)
  OBVIOUS
<1>9. QuotientB7(UnsignedProduct(d, 12500), b4) = p
  <2>1. b4 \in Nat \ {0} /\ InRange(-343597, d, 343597)
    BY <1>3, <1>6 DEF InRange
  <2>2. v = 12500 * d + (IF d < 0 THEN 4294967296 ELSE 0)
    BY <1>5, <1>6
  <2> QED
    BY <1>6, <1>8, <2>1, <2>2, PressureTermIs
<1>10. p \in Int /\ InRange(0, p, 215039)
  BY <1>3, <1>7, <1>8, PressureTermBetween DEF InRange
<1>11. ProductFits(7357, p) /\ ProductFits((p \div 256) * (p \div 256), 3038)
  BY <1>10, LastProductsFit
<1>12. /\ ProductFits(b6, b6)
       /\ ProductFits(c["b1"], (b6 * b6) \div 4096)
       /\ ProductFits(c["b2"], (b6 * b6) \div 4096)
  <2>1. InRange(-28000, b6, 28000)
    BY <1>2 DEF InRange
  <2> QED
    BY <1>2, <2>1, DeviceWords, B6ProductsFit
<1>13. b4 # 0
  BY <1>3 DEF InRange
<1>14. RawPressure(w) - B3(c, b6) = d
  <2>1. RawPressure(w) = 4 * w
    BY Oversampling DEF RawPressure
  <2> QED
    BY <1>5, <2>1
<1>15. bmp085Convert(c, t, w) =
         [fault |-> "none", temperature |-> (term.b5 + 8) \div 16,
          pressure |-> PressureOf(p)]
  BY <1>1, <1>2, <1>9, <1>11, <1>12, <1>13, <1>14, Factor DEF bmp085Convert
<1> QED
  BY <1>3, <1>4, <1>7, <1>8, <1>15

\* With the calibration and the raw temperature read, and at least the high
\* byte of the raw pressure, bmp085Convert divides by no zero and no product
\* overflows, at every temperature and pressure.
THEOREM MeasurementsAreDefined ==
  ASSUME DevicesOrdinary
  PROVE  Spec => []DefinedWhenRead
<1>1. ASSUME CompensationInv
      PROVE  DefinedWhenRead
  <2> SUFFICES ASSUME CalibrationRead, gotTemp = "read",
                      RawPressureRead(Received(word, gotPressure))
               PROVE  reading.fault = "none"
    BY DEF DefinedWhenRead
  <2>1. PICK c \in Calibrations : stored = Kept(c, got)
    BY <1>1 DEF CompensationInv
  <2>2. stored = c
    BY <2>1, KeptAll DEF CalibrationRead
  <2>3. Ordinary(c) /\ Measurable(c, ut)
    BY <1>1 DEF DevicesOrdinary, CompensationInv
  <2>4. PICK w : w = Received(word, gotPressure)
    OBVIOUS
  <2>5. Received(ut, gotTemp) = ut
    BY DEF Received
  <2>6. w \in Int /\ RawPressureRead(w)
    BY <1>1, <2>4, ReceivedBounds DEF CompensationInv
  <2>7. reading = bmp085Convert(c, ut, w)
    BY <1>1, <2>2, <2>4, <2>5 DEF CompensationInv
  <2> QED
    BY <2>3, <2>6, <2>7, MeasuredReading
<1> QED
  BY <1>1, ReadingIsConversion, PTL

\* A quotient of int32_t is a number unless the divisor is zero.
LEMMA QuotientIsInt ==
  ASSUME NEW a \in Int, NEW b \in Int, b # 0
  PROVE  Quotient(a, b) \in Int
<1>1. PICK m : m = Magnitude(a)
  OBVIOUS
<1>2. PICK n : n = Magnitude(b)
  OBVIOUS
<1>3. m \in Int /\ n \in Nat \ {0}
  BY <1>1, <1>2 DEF Magnitude
<1>4. PICK q : q = m \div n
  OBVIOUS
<1>5. q \in Int
  BY <1>3, <1>4
<1>6. Quotient(a, b) \in {q, -q}
  BY <1>1, <1>2, <1>4 DEF Quotient
<1> QED
  BY <1>5, <1>6

\* x1 when the raw temperature was not read: below zero by more than md can
\* be above it, even if only halves of ac5 and ac6 were read.
LEMMA ColdProduct ==
  ASSUME NEW ac5 \in Int, NEW ac6 \in Int, InRange(23745, ac5, 32767),
         InRange(16145, ac6, 24000), NEW x1, x1 = ((-ac6) * ac5) \div 32768
  PROVE  x1 \in Int /\ InRange(-24000, x1, -11700)
<1>1. PICK v : v = ac6 * ac5
  OBVIOUS
<1>2. (-ac6) * ac5 = -v
  BY <1>1
<1>3. v \in Int /\ 16145 * 23745 <= v /\ v <= 24000 * 32767
  <2>1. v - 16145 * 23745 = (ac6 - 16145) * ac5 + 16145 * (ac5 - 23745)
    BY <1>1
  <2>2. 24000 * 32767 - v = (24000 - ac6) * ac5 + 24000 * (32767 - ac5)
    BY <1>1
  <2>3. (ac6 - 16145) * ac5 >= 0 /\ (24000 - ac6) * ac5 >= 0
    BY DEF InRange
  <2>4. 16145 * (ac5 - 23745) >= 0 /\ 24000 * (32767 - ac5) >= 0
    BY DEF InRange
  <2> QED
    BY <1>1, <2>1, <2>2, <2>3, <2>4
<1>4. x1 = (-v) \div 32768
  BY <1>2
<1> QED
  BY <1>3, <1>4 DEF InRange

\* With a byte of md read, b5's divisor is not zero: x1 is at most 255 below
\* zero when a byte of the raw temperature was read, and zero or far below -md
\* when none was.
LEMMA TermOfKept ==
  ASSUME NEW c \in Calibrations, Ordinary(c), NEW os \in [Words -> Outcomes],
         os["md"] # "zero", NEW u, Measurable(c, u), NEW o \in Outcomes,
         NEW t, t = Received(u, o), NEW s, s = Kept(c, os)
  PROVE  LET term == TemperatureTerm(s, t)
         IN term.fault # "divisor" /\ term.b5 \in Int
<1>1. PICK ac5 : ac5 = Uint16(s["ac5"])
  OBVIOUS
<1>2. PICK ac6 : ac6 = Uint16(s["ac6"])
  OBVIOUS
<1>3. PICK md : md = s["md"]
  OBVIOUS
<1>4. PICK mc : mc = s["mc"]
  OBVIOUS
<1>5. PICK above : above = t - ac6
  OBVIOUS
<1>6. PICK x1 : x1 = (above * ac5) \div 32768
  OBVIOUS
<1>7. /\ \A w \in Words : s[w] = Received(c[w], os[w]) /\ c[w] \in Int /\ os[w] \in Outcomes
      /\ {"ac5", "ac6", "mc", "md"} \subseteq Words
  <2>1. {"ac5", "ac6", "mc", "md"} \subseteq Words
    BY DEF Words
  <2> QED
    BY <2>1, KeptWord, WordTypes
<1>8. PICK AC6 : AC6 = Uint16(c["ac6"])
  OBVIOUS
<1>9. AC6 \in Int /\ InRange(16400, AC6, 24000)
  BY <1>8, DeviceWords
<1>10. ac5 \in Int /\ (ac5 = 0 \/ InRange(23745, ac5, 32767))
  <2>1. /\ ac5 \in Int
        /\ os["ac5"] = "zero" => ac5 = 0
        /\ os["ac5"] # "zero" => InRange(Uint16(c["ac5"]) - 255, ac5, Uint16(c["ac5"]))
    BY <1>1, <1>7, ReceivedUnsigned
  <2> QED
    BY <2>1, DeviceWords DEF InRange
<1>11. ac6 \in Int /\ (ac6 = 0 \/ InRange(16145, ac6, 24000)) /\ InRange(0, ac6, AC6)
  <2>1. /\ ac6 \in Int /\ InRange(0, ac6, AC6)
        /\ os["ac6"] = "zero" => ac6 = 0
        /\ os["ac6"] # "zero" => InRange(AC6 - 255, ac6, AC6)
    BY <1>2, <1>7, <1>8, ReceivedUnsigned
  <2> QED
    BY <1>9, <2>1 DEF InRange
<1>12. md \in Int /\ InRange(1745, md, 3000)
  <2>1. md \in Int /\ InRange(c["md"] - 255, md, c["md"])
    BY <1>3, <1>7, ReceivedBounds
  <2> QED
    BY <2>1, DeviceWords DEF InRange
<1>13. mc \in Int
  BY <1>4, <1>7, ReceivedBounds
<1>14. u \in Int /\ InRange(AC6, u, 65535)
  BY <1>8 DEF Measurable
<1>15. x1 \in Int /\ x1 + md # 0
  <2>1. CASE o # "zero"
    <3>1. t \in Int /\ InRange(u - 255, t, u)
      BY <1>14, <2>1, ReceivedBounds
    <3>2. above \in Int /\ -255 <= above /\ 0 <= ac5 /\ ac5 <= 32767
      BY <1>5, <1>9, <1>10, <1>11, <1>14, <3>1 DEF InRange
    <3>3. PICK v : v = above * ac5
      OBVIOUS
    <3>4. v \in Int /\ -(255 * 32767) <= v
      <4>1. (above + 255) * ac5 >= 0 /\ 255 * (32767 - ac5) >= 0
        BY <1>10, <3>2
      <4>2. v = (above + 255) * ac5 - 255 * ac5
        BY <1>10, <3>2, <3>3
      <4>3. (above + 255) * ac5 \in Int
        BY <1>10, <3>2
      <4> QED
        BY <1>10, <3>2, <4>1, <4>2, <4>3
    <3>5. x1 \in Int /\ -255 <= x1
      BY <1>6, <3>3, <3>4
    <3> QED
      BY <1>12, <3>5 DEF InRange
  <2>2. CASE o = "zero" /\ (ac5 = 0 \/ ac6 = 0)
    <3>1. t = 0
      BY <1>14, <2>2, ReceivedBounds
    <3>2. above * ac5 = 0
      BY <1>5, <1>10, <1>11, <2>2, <3>1
    <3>3. x1 = 0
      BY <1>6, <3>2
    <3> QED
      BY <1>12, <3>3 DEF InRange
  <2>3. CASE o = "zero" /\ ac5 # 0 /\ ac6 # 0
    <3>1. t = 0
      BY <1>14, <2>3, ReceivedBounds
    <3>2. x1 = ((-ac6) * ac5) \div 32768
      BY <1>5, <1>6, <1>11, <3>1
    <3>3. x1 \in Int /\ InRange(-24000, x1, -11700)
      BY <1>10, <1>11, <2>3, <3>2, ColdProduct
    <3> QED
      BY <1>12, <3>3 DEF InRange
  <2> QED
    BY <2>1, <2>2, <2>3
<1>16. Quotient(mc * 2048, x1 + md) \in Int
  BY <1>12, <1>13, <1>15, QuotientIsInt
<1>17. TemperatureTerm(s, t) \in
         {[fault |-> "overflow", b5 |-> 0],
          [fault |-> "none", b5 |-> x1 + Quotient(mc * 2048, x1 + md)]}
  BY <1>1, <1>2, <1>3, <1>4, <1>5, <1>6, <1>15 DEF TemperatureTerm
<1> QED
  BY <1>15, <1>16, <1>17

\* However the reads at boot ended, and those since, the two divisions of
\* bmp085Convert have a zero divisor only if no byte of ac4 or none of md was
\* read.
THEOREM DivisorsNeedTheirWords ==
  ASSUME DevicesOrdinary
  PROVE  Spec => []ZeroDivisorNeedsLostWord
<1>1. ASSUME CompensationInv
      PROVE  ZeroDivisorNeedsLostWord
  <2> SUFFICES ASSUME reading.fault = "divisor", got["ac4"] # "zero", got["md"] # "zero"
               PROVE  FALSE
    BY DEF ZeroDivisorNeedsLostWord
  <2>1. PICK c \in Calibrations : stored = Kept(c, got)
    BY <1>1 DEF CompensationInv
  <2>2. Ordinary(c) /\ Measurable(c, ut) /\ got \in [Words -> Outcomes]
    BY <1>1, LossesAssumption DEF DevicesOrdinary, CompensationInv
  <2>3. PICK t : t = Received(ut, gotTemp)
    OBVIOUS
  <2>4. PICK term : term = TemperatureTerm(stored, t)
    OBVIOUS
  <2>5. term.fault # "divisor" /\ term.b5 \in Int
    BY <1>1, <2>1, <2>2, <2>3, <2>4, TermOfKept DEF CompensationInv
  <2>6. PICK b6 : b6 = term.b5 - 4000
    OBVIOUS
  <2>7. ProductFits(b6, b6) /\ ProductFits(stored["b1"], (b6 * b6) \div 4096)
          => B4(stored, b6) # 0
    BY <2>1, <2>2, <2>5, <2>6, KeptWithinBounds, B4NotZero
  <2>8. reading = bmp085Convert(stored, t, Received(word, gotPressure))
    BY <1>1, <2>3 DEF CompensationInv
  <2>9. reading.fault # "divisor"
    BY <2>4, <2>5, <2>6, <2>7, <2>8 DEF bmp085Convert, Undefined
  <2> QED
    BY <2>9
<1> QED
  BY <1>1, ReadingIsConversion, PTL

-----------------------------------------------------------------------------
(* Raw values that were not read *)

\* b5 when the raw temperature was not read.
LEMMA ColdTerm ==
  ASSUME NEW c \in Calibrations, Ordinary(c)
  PROVE  LET b5 == TemperatureTerm(c, 0).b5
         IN b5 \in Int /\ InRange(-24000, b5, -8993)
              /\ TemperatureTerm(c, 0).fault = "none"
<1>1. PICK ac5 : ac5 = Uint16(c["ac5"])
  OBVIOUS
<1>2. PICK ac6 : ac6 = Uint16(c["ac6"])
  OBVIOUS
<1>3. PICK md : md = c["md"]
  OBVIOUS
<1>4. PICK mc : mc = c["mc"]
  OBVIOUS
<1>5. PICK x1 : x1 = ((-ac6) * ac5) \div 32768
  OBVIOUS
<1>6. /\ ac5 \in Int /\ InRange(24000, ac5, 32767)
      /\ ac6 \in Int /\ InRange(16400, ac6, 24000)
      /\ md \in Int /\ InRange(2000, md, 3000)
  BY <1>1, <1>2, <1>3, DeviceWords
<1>7. mc \in Int /\ InRange(-11500, mc, 0)
  BY <1>4, DeviceWords DEF WithinBounds
<1>8. x1 \in Int /\ InRange(-24000, x1, -11700)
  <2>1. InRange(23745, ac5, 32767) /\ InRange(16145, ac6, 24000)
    BY <1>6 DEF InRange
  <2> QED
    BY <1>5, <1>6, <2>1, ColdProduct
<1>9. PICK m : m = -(x1 + md)
  OBVIOUS
<1>10. m \in Int /\ 8700 <= m
  BY <1>6, <1>8, <1>9 DEF InRange
<1>11. PICK n : n = -(mc * 2048)
  OBVIOUS
<1>12. n \in Int /\ 0 <= n /\ n <= 11500 * 2048
  BY <1>7, <1>11 DEF InRange
<1>13. PICK q : q = n \div m
  OBVIOUS
<1>14. q \in Int /\ 0 <= q /\ q <= 2707
  <2>1. m \in Nat \ {0}
    BY <1>10
  <2>2. m * 0 <= n
    BY <1>10, <1>12
  <2>3. n < m * (2707 + 1)
    BY <1>10, <1>12
  <2>4. q \in Int
    BY <1>12, <1>13, <2>1
  <2>5. 0 <= q
    BY <1>12, <1>13, <2>1, <2>2, QuotientAtLeast
  <2>6. q <= 2707
    BY <1>12, <1>13, <2>1, <2>3, QuotientAtMost
  <2> QED
    BY <2>4, <2>5, <2>6
<1>15. Quotient(mc * 2048, x1 + md) = q
  <2>1. Magnitude(mc * 2048) = n /\ Magnitude(x1 + md) = m
    BY <1>6, <1>7, <1>8, <1>9, <1>10, <1>11, <1>12 DEF Magnitude
  <2>2. ~(x1 + md > 0) /\ x1 + md \in Int
    BY <1>6, <1>8, <1>9, <1>10
  <2>3. CASE n = 0
    <3>1. n < m * (0 + 1) /\ m \in Nat \ {0}
      BY <1>10, <2>3
    <3>2. q <= 0
      BY <1>12, <1>13, <3>1, QuotientAtMost
    <3>3. q = 0 /\ -q = 0
      BY <1>14, <3>2
    <3>4. Quotient(mc * 2048, x1 + md) \in {q, -q}
      BY <1>13, <2>1 DEF Quotient
    <3> QED
      BY <3>3, <3>4
  <2>4. CASE n # 0
    <3>1. ~(mc * 2048 >= 0)
      BY <1>7, <1>11, <1>12, <2>4
    <3> QED
      BY <1>13, <2>1, <2>2, <3>1 DEF Quotient
  <2> QED
    BY <2>3, <2>4
<1>16. ProductFits(0 - ac6, ac5)
  <2>1. InRange(-24000, 0 - ac6, 24000) /\ InRange(-32767, ac5, 32767)
    BY <1>6 DEF InRange
  <2>2. 24000 * 32767 <= 2147483647
    OBVIOUS
  <2> QED
    BY <1>6, <2>1, <2>2, Fits
<1>17. 0 - ac6 = -ac6 /\ x1 + md # 0
  BY <1>6, <1>8, <1>9, <1>10
<1>18. TemperatureTerm(c, 0) =
         [fault |-> "none", b5 |-> x1 + Quotient(mc * 2048, x1 + md)]
  BY <1>1, <1>2, <1>3, <1>4, <1>5, <1>16, <1>17 DEF TemperatureTerm
<1>19. TemperatureTerm(c, 0) = [fault |-> "none", b5 |-> x1 + q]
  BY <1>15, <1>18
<1> QED
  BY <1>8, <1>14, <1>19 DEF InRange

LEMMA Distributes ==
  ASSUME NEW a \in Int, NEW b \in Int, NEW x \in Int
  PROVE  (a + b) * x = a * x + b * x
OBVIOUS

\* The quotients of md's line for two divisors not far apart.
LEMMA QuotientsApart ==
  ASSUME NEW n \in Int, NEW d \in Int, NEW D \in Int,
         0 <= n /\ n <= 23552000 /\ 1745 <= d /\ 2000 <= D /\ d <= D /\ D <= d + 255
  PROVE  /\ n \div d \in Int /\ n \div D \in Int
         /\ n \div D <= n \div d /\ n \div d <= n \div D + 1721
<1>a. PICK q : q = n \div d
  OBVIOUS
<1>b. PICK Q : Q = n \div D
  OBVIOUS
<1>1. d \in Nat \ {0} /\ D \in Nat \ {0}
  OBVIOUS
<1>2. PICK R : R = n % D
  OBVIOUS
<1>3. Q \in Int /\ R \in Int /\ 0 <= R /\ R < D /\ n = D * Q + R
  BY <1>b, <1>1, <1>2, DivisionParts
<1>4. q \in Int
  BY <1>a, <1>1
<1>5. 0 <= Q /\ Q <= 11776
  <2>1. D * 0 <= n /\ n < D * (11776 + 1)
    OBVIOUS
  <2> QED
    BY <1>b, <1>1, <2>1, QuotientAtLeast, QuotientAtMost
<1>6. PICK e : e = D - d
  OBVIOUS
<1>7. e \in Int /\ 0 <= e /\ e <= 255 /\ D = d + e
  BY <1>6
<1>8. e * Q \in Int /\ 0 <= e * Q /\ e * Q <= 255 * 11776
  <2>1. InRange(0, e, 255) /\ InRange(0, Q, 11776)
    BY <1>5, <1>7 DEF InRange
  <2> QED
    BY <1>3, <1>7, <2>1, ProductBetween DEF InRange
<1>9. D * Q = d * Q + e * Q
  <2>1. (d + e) * Q = d * Q + e * Q
    BY <1>3, <1>7, Distributes
  <2> QED
    BY <1>7, <2>1
<1>10. d * Q <= n
  BY <1>3, <1>8, <1>9
<1>11. Q <= q
  BY <1>a, <1>1, <1>3, <1>10, QuotientAtLeast
<1>12. n < d * ((Q + 1721) + 1)
  <2>1. d * ((Q + 1721) + 1) = d * Q + 1722 * d
    BY <1>3
  <2>2. PICK f : f = d * Q
    OBVIOUS
  <2>3. PICK g : g = e * Q
    OBVIOUS
  <2>4. f \in Int /\ g \in Int /\ g <= 3002880
    BY <1>3, <1>7, <1>8, <2>2, <2>3
  <2>5. n = f + g + R
    <3>1. PICK h : h = D * Q
      OBVIOUS
    <3>2. n = h + R /\ h = f + g
      BY <1>3, <1>9, <2>2, <2>3, <3>1
    <3> QED
      BY <3>2
  <2> QED
    BY <1>3, <2>1, <2>2, <2>4, <2>5
<1>13. q <= Q + 1721
  BY <1>a, <1>1, <1>3, <1>12, QuotientAtMost
<1> QED
  BY <1>a, <1>b, <1>3, <1>4, <1>11, <1>13

\* A quotient of int32_t with a numerator that is not positive.
LEMMA QuotientNegative ==
  ASSUME NEW n \in Int, 0 <= n, NEW b \in Int, 0 < b
  PROVE  Quotient(-n, b) = -(n \div b)
<1>1. Magnitude(-n) = n /\ Magnitude(b) = b
  BY DEF Magnitude
<1>2. PICK q : q = n \div b
  OBVIOUS
<1>3. q \in Int
  BY <1>2
<1>4. CASE n = 0
  <2>1. n < b * (0 + 1) /\ b * 0 <= n /\ b \in Nat \ {0}
    BY <1>4
  <2>2. q <= 0 /\ 0 <= q
    BY <1>2, <2>1, QuotientAtMost, QuotientAtLeast
  <2>3. q = 0 /\ -q = 0
    BY <1>3, <2>2
  <2>4. Quotient(-n, b) \in {q, -q}
    BY <1>1, <1>2 DEF Quotient
  <2> QED
    BY <1>2, <2>3, <2>4
<1>5. CASE n # 0
  <2>1. ~(-n >= 0) /\ b > 0
    BY <1>5
  <2> QED
    BY <1>1, <1>2, <2>1 DEF Quotient
<1> QED
  BY <1>4, <1>5

\* b5 for a raw temperature that is not much below another.
LEMMA TermOf ==
  ASSUME NEW c \in Calibrations, Ordinary(c), NEW t \in Int,
         NEW above, above = t - Uint16(c["ac6"]), InRange(-255, above, 65535),
         NEW x1, x1 = (above * Uint16(c["ac5"])) \div 32768,
         NEW n, n = -(c["mc"] * 2048), NEW q, q = n \div (x1 + c["md"])
  PROVE  /\ x1 \in Int /\ -255 <= x1 /\ q \in Int /\ n \in Int /\ InRange(0, n, 23552000)
         /\ TemperatureTerm(c, t) = [fault |-> "none", b5 |-> x1 - q]
<1>1. PICK ac5 : ac5 = Uint16(c["ac5"])
  OBVIOUS
<1>2. PICK md : md = c["md"]
  OBVIOUS
<1>3. PICK mc : mc = c["mc"]
  OBVIOUS
<1>4. /\ ac5 \in Int /\ InRange(24000, ac5, 32767)
      /\ md \in Int /\ InRange(2000, md, 3000)
      /\ mc \in Int /\ InRange(-11500, mc, 0)
      /\ Uint16(c["ac6"]) \in Int
  BY <1>1, <1>2, <1>3, DeviceWords DEF WithinBounds
<1>5. above \in Int
  BY <1>4
<1>6. ProductFits(above, ac5)
  <2>1. InRange(-65535, above, 65535) /\ InRange(-32767, ac5, 32767)
    BY <1>4, <1>5 DEF InRange
  <2>2. 65535 * 32767 <= 2147483647
    OBVIOUS
  <2> QED
    BY <1>4, <1>5, <2>1, <2>2, Fits
<1>7. x1 \in Int /\ -255 <= x1
  <2>1. PICK v : v = above * ac5
    OBVIOUS
  <2>2. v = (above + 255) * ac5 - 255 * ac5 /\ (above + 255) * ac5 >= 0
    BY <1>4, <1>5, <2>1 DEF InRange
  <2>3. (above + 255) * ac5 \in Int /\ v \in Int
    BY <1>4, <1>5, <2>1
  <2>4. -(255 * 32767) <= v
    BY <1>4, <2>2, <2>3 DEF InRange
  <2> QED
    BY <1>1, <2>1, <2>3, <2>4
<1>8. n \in Int /\ InRange(0, n, 23552000) /\ mc * 2048 = -n
  BY <1>3, <1>4 DEF InRange
<1>9. PICK d : d = x1 + md
  OBVIOUS
<1>10. d \in Int /\ 1745 <= d
  BY <1>4, <1>7, <1>9 DEF InRange
<1>11. q = n \div d
  BY <1>2, <1>9
<1>12. q \in Int
  BY <1>8, <1>10, <1>11
<1>13. Quotient(mc * 2048, d) = -q
  BY <1>8, <1>10, <1>11, QuotientNegative DEF InRange
<1>14. TemperatureTerm(c, t) = [fault |-> "none", b5 |-> x1 + Quotient(mc * 2048, d)]
  BY <1>1, <1>2, <1>3, <1>6, <1>9, <1>10 DEF TemperatureTerm
<1>15. x1 + (-q) = x1 - q
  BY <1>7, <1>12
<1> QED
  BY <1>7, <1>8, <1>12, <1>13, <1>14, <1>15

\* b5 of half a raw temperature: not above that of the whole.
LEMMA HalfTerm ==
  ASSUME NEW c \in Calibrations, Ordinary(c), NEW u, Measurable(c, u),
         NEW t \in Int, InRange(u - 255, t, u)
  PROVE  LET term == TemperatureTerm(c, t)
         IN /\ term.fault = "none" /\ term.b5 \in Int
            /\ TemperatureTerm(c, u).b5 \in Int
            /\ InRange(0, TemperatureTerm(c, u).b5 - term.b5, 1976)
<1>1. PICK ac5 : ac5 = Uint16(c["ac5"])
  OBVIOUS
<1>2. PICK ac6 : ac6 = Uint16(c["ac6"])
  OBVIOUS
<1>3. PICK md : md = c["md"]
  OBVIOUS
<1>4. /\ ac5 \in Int /\ InRange(24000, ac5, 32767)
      /\ ac6 \in Int /\ InRange(16400, ac6, 24000)
      /\ md \in Int /\ InRange(2000, md, 3000)
  BY <1>1, <1>2, <1>3, DeviceWords
<1>5. u \in Int /\ InRange(ac6, u, 65535)
  BY <1>2 DEF Measurable
<1>6. PICK a : a = t - ac6
  OBVIOUS
<1>7. PICK A : A = u - ac6
  OBVIOUS
<1>8. /\ a \in Int /\ A \in Int /\ InRange(-255, a, 65535) /\ InRange(-255, A, 65535)
      /\ 0 <= A /\ InRange(0, A - a, 255)
  BY <1>4, <1>5, <1>6, <1>7 DEF InRange
<1>9. PICK x : x = (a * ac5) \div 32768
  OBVIOUS
<1>10. PICK X : X = (A * ac5) \div 32768
  OBVIOUS
<1>11. PICK n : n = -(c["mc"] * 2048)
  OBVIOUS
<1>12. PICK q : q = n \div (x + md)
  OBVIOUS
<1>13. PICK Q : Q = n \div (X + md)
  OBVIOUS
<1>14. /\ x \in Int /\ -255 <= x /\ q \in Int /\ n \in Int /\ InRange(0, n, 23552000)
       /\ TemperatureTerm(c, t) = [fault |-> "none", b5 |-> x - q]
  BY <1>1, <1>2, <1>3, <1>6, <1>8, <1>9, <1>11, <1>12, TermOf
<1>15. /\ X \in Int /\ Q \in Int
       /\ TemperatureTerm(c, u) = [fault |-> "none", b5 |-> X - Q]
  BY <1>1, <1>2, <1>3, <1>5, <1>7, <1>8, <1>10, <1>11, <1>13, TermOf
<1>16. 0 <= X /\ x <= X /\ X <= x + 255
  <2>1. PICK v : v = a * ac5
    OBVIOUS
  <2>2. PICK V : V = A * ac5
    OBVIOUS
  <2>3. PICK g : g = (A - a) * ac5
    OBVIOUS
  <2>4. v \in Int /\ V \in Int /\ g \in Int /\ V = v + g /\ 0 <= V
    BY <1>4, <1>8, <2>1, <2>2, <2>3 DEF InRange
  <2>5. 0 <= g /\ g <= 255 * 32767
    <3>1. InRange(0, A - a, 255) /\ InRange(0, ac5, 32767) /\ A - a \in Int
      BY <1>4, <1>8 DEF InRange
    <3> QED
      BY <1>4, <2>3, <3>1, ProductBetween DEF InRange
  <2> QED
    BY <1>9, <1>10, <2>1, <2>2, <2>4, <2>5
<1>17. Q <= q /\ q <= Q + 1721
  <2>1. PICK d : d = x + md
    OBVIOUS
  <2>2. PICK D : D = X + md
    OBVIOUS
  <2>3. d \in Int /\ D \in Int /\ 1745 <= d /\ 2000 <= D /\ d <= D /\ D <= d + 255
    BY <1>4, <1>14, <1>15, <1>16, <2>1, <2>2 DEF InRange
  <2>4. q = n \div d /\ Q = n \div D
    BY <1>12, <1>13, <2>1, <2>2
  <2>5. n \in Int /\ 0 <= n /\ n <= 23552000
    BY <1>14 DEF InRange
  <2>6. n \div D <= n \div d /\ n \div d <= n \div D + 1721
    BY <2>3, <2>5, QuotientsApart
  <2> QED
    BY <2>4, <2>6
<1> QED
  BY <1>14, <1>15, <1>16, <1>17 DEF InRange

\* b5 however the read of the raw temperature ended.
LEMMA AnyTerm ==
  ASSUME NEW c \in Calibrations, Ordinary(c), NEW u, Measurable(c, u),
         NEW o \in Outcomes, NEW t, t = Received(u, o)
  PROVE  LET term == TemperatureTerm(c, t)
         IN /\ term.fault = "none" /\ term.b5 \in Int /\ InRange(-24000, term.b5, 13600)
            /\ o = "zero" => term.b5 <= -8993
<1>1. u \in Int
  BY DEF Measurable
<1>2. CASE o = "zero"
  <2>1. t = 0
    BY <1>1, <1>2, ReceivedBounds
  <2> QED
    BY <2>1, ColdTerm DEF InRange
<1>3. CASE o # "zero"
  <2>1. t \in Int /\ InRange(u - 255, t, u)
    BY <1>1, <1>3, ReceivedBounds
  <2>2. InRange(-6400, TemperatureTerm(c, u).b5, 13600)
    BY DEF Measurable
  <2> QED
    BY <1>3, <2>1, <2>2, HalfTerm DEF InRange
<1> QED
  BY <1>2, <1>3

\* The last lines in parts: p's high part, x1, x2 and what is added to p.
PartsOf(p, n, x1, x2, y) ==
  /\ 0 <= n /\ 256 * n <= p /\ p < 256 * n + 256
  /\ 65536 * x1 <= (n * n) * 3038 /\ (n * n) * 3038 < 65536 * x1 + 65536
  /\ 65536 * x2 <= -7357 * p /\ -7357 * p < 65536 * x2 + 65536
  /\ 16 * y <= x1 + x2 + 3791 /\ x1 + x2 + 3791 < 16 * y + 16
  /\ PressureOf(p) = p + y

LEMMA PressureParts ==
  ASSUME NEW p \in Int, 0 <= p
  PROVE  \E n, x1, x2, y \in Int : PartsOf(p, n, x1, x2, y)
<1>1. PICK n : n = p \div 256
  OBVIOUS
<1>2. PICK nn : nn = n * n
  OBVIOUS
<1>3. PICK x1 : x1 = (nn * 3038) \div 65536
  OBVIOUS
<1>4. PICK x2 : x2 = (-7357 * p) \div 65536
  OBVIOUS
<1>5. PICK y : y = (x1 + x2 + 3791) \div 16
  OBVIOUS
<1>6. n \in Int /\ 0 <= n /\ 256 * n <= p /\ p < 256 * n + 256
  BY <1>1
<1>7. nn \in Int
  BY <1>2, <1>6
<1>8. x1 \in Int /\ 65536 * x1 <= nn * 3038 /\ nn * 3038 < 65536 * x1 + 65536
  BY <1>3, <1>7
<1>9. x2 \in Int /\ 65536 * x2 <= -7357 * p /\ -7357 * p < 65536 * x2 + 65536
  BY <1>4
<1>10. y \in Int /\ 16 * y <= x1 + x2 + 3791 /\ x1 + x2 + 3791 < 16 * y + 16
  BY <1>5, <1>8, <1>9
<1>11. PressureOf(p) = p + y
  BY <1>1, <1>2, <1>3, <1>4, <1>5 DEF PressureOf
<1> QED
  BY <1>2, <1>6, <1>8, <1>9, <1>10, <1>11 DEF PartsOf

\* Above and below what the sensor measures.
LEMMA HighPressure ==
  ASSUME NEW p \in Int, 134872 <= p
  PROVE  ~PressureMeasured(PressureOf(p))
<1>1. PICK n, x1, x2, y \in Int : PartsOf(p, n, x1, x2, y)
  BY PressureParts
<1>2. PICK nn : nn = n * n
  OBVIOUS
<1>3. nn \in Int /\ 0 <= nn
  BY <1>2
<1>4. /\ nn * 3038 < 65536 * x1 + 65536
      /\ -7357 * p < 65536 * x2 + 65536
      /\ x1 + x2 + 3791 < 16 * y + 16
      /\ PressureOf(p) = p + y
  BY <1>1, <1>2 DEF PartsOf
<1>5. p + y > 110000
  BY <1>3, <1>4
<1> QED
  BY <1>4, <1>5 DEF PressureMeasured, InRange

LEMMA LowPressure ==
  ASSUME NEW p \in Int, 0 <= p, p <= 3522
  PROVE  ~PressureMeasured(PressureOf(p))
<1>1. PICK n, x1, x2, y \in Int : PartsOf(p, n, x1, x2, y)
  BY PressureParts
<1>2. PICK nn : nn = n * n
  OBVIOUS
<1>3. /\ 0 <= n /\ 256 * n <= p
      /\ 65536 * x1 <= nn * 3038
      /\ 65536 * x2 <= -7357 * p
      /\ 16 * y <= x1 + x2 + 3791
      /\ PressureOf(p) = p + y
  BY <1>1, <1>2 DEF PartsOf
<1>4. nn \in Int /\ nn <= 13 * 13
  <2>1. InRange(0, n, 13)
    BY <1>3 DEF InRange
  <2> QED
    BY <1>2, <2>1, ProductBetween DEF InRange
<1>5. p + y < 30000
  BY <1>3, <1>4
<1> QED
  BY <1>3, <1>5 DEF PressureMeasured, InRange

\* The pressure computed from a raw pressure of zero: b7 wraps around, or is
\* next to nothing.
LEMMA NoPressureRead ==
  ASSUME NEW b3 \in Int, InRange(-4000, b3, 63050), NEW b4 \in Int, InRange(28387, b4, 52002)
  PROVE  ~PressureMeasured(PressureOf(QuotientB7(UnsignedProduct(-b3, 12500), b4)))
<1>1. PICK d : d = -b3
  OBVIOUS
<1>2. d \in Int /\ -63050 <= d /\ d <= 4000 /\ b4 \in Nat \ {0} /\ 28387 <= b4 /\ b4 <= 52002
  BY <1>1 DEF InRange
<1>3. PICK v : v = 12500 * d + (IF d < 0 THEN 4294967296 ELSE 0)
  OBVIOUS
<1>4. PICK p : p = PressureTerm(v, b4)
  OBVIOUS
<1>5. QuotientB7(UnsignedProduct(d, 12500), b4) = p
  <2>1. InRange(-343597, d, 343597)
    BY <1>2 DEF InRange
  <2> QED
    BY <1>2, <1>3, <1>4, <2>1, PressureTermIs
<1>6. CASE d < 0
  <2>1. v \in Int /\ 3506842296 <= v
    BY <1>2, <1>3, <1>6
  <2>2. PICK q : q = v \div b4
    OBVIOUS
  <2>3. q \in Int /\ 67436 <= q
    <3>1. b4 * 67436 <= v
      BY <1>2, <2>1
    <3>2. q \in Int
      BY <1>2, <2>1, <2>2
    <3> QED
      BY <1>2, <2>1, <2>2, <3>1, <3>2, QuotientAtLeast
  <2>4. p = 2 * q
    BY <1>4, <2>1, <2>2 DEF PressureTerm
  <2>5. p \in Int /\ 134872 <= p
    BY <2>3, <2>4
  <2> QED
    BY <1>1, <1>5, <2>5, HighPressure
<1>7. CASE ~(d < 0)
  <2>1. v \in Int /\ 0 <= v /\ v <= 50000000
    BY <1>2, <1>3, <1>7
  <2>2. PICK n : n = 2 * v
    OBVIOUS
  <2>3. n \in Int /\ 0 <= n /\ n <= 100000000
    BY <2>1, <2>2
  <2>4. PICK q : q = n \div b4
    OBVIOUS
  <2>5. q \in Int /\ 0 <= q /\ q <= 3522
    <3>1. b4 * 0 <= n /\ n < b4 * (3522 + 1)
      BY <1>2, <2>3
    <3>2. q \in Int
      BY <1>2, <2>3, <2>4
    <3>3. 0 <= q
      BY <1>2, <2>3, <2>4, <3>1, QuotientAtLeast
    <3>4. q <= 3522
      BY <1>2, <2>3, <2>4, <3>1, QuotientAtMost
    <3> QED
      BY <3>2, <3>3, <3>4
  <2>6. p = q
    BY <1>4, <2>1, <2>2, <2>4 DEF PressureTerm
  <2> QED
    BY <1>1, <1>5, <2>5, <2>6, LowPressure
<1> QED
  BY <1>6, <1>7

\* b3 and b4 however the read of the raw temperature ended.
LEMMA DivisionRanges ==
  ASSUME NEW c \in Calibrations, Ordinary(c),
         NEW b5 \in Int, InRange(-24000, b5, 13600), NEW b6, b6 = b5 - 4000
  PROVE  /\ B3(c, b6) \in Int /\ InRange(-4000, B3(c, b6), 63050)
         /\ B4(c, b6) \in Int /\ InRange(28387, B4(c, b6), 52002)
<1>1. CASE b5 < -6400
  <2>1. b6 \in Int /\ InRange(-28000, b6, 0)
    BY <1>1 DEF InRange
  <2>2. B3(c, b6) \in Int /\ InRange(0, B3(c, b6), 63050)
    BY <2>1, DeviceWords, B3Cold
  <2>3. B4(c, b6) \in Int /\ InRange(32700, B4(c, b6), 52002)
    BY <2>1, DeviceWords, B4Cold
  <2> QED
    BY <2>2, <2>3 DEF InRange
<1>2. CASE b5 >= -6400
  <2>1. b6 \in Int /\ InRange(-10400, b6, 9600)
    BY <1>2 DEF InRange
  <2>2. B3(c, b6) \in Int /\ InRange(-4000, B3(c, b6), 40000)
    BY <2>1, DeviceWords, B3Measured
  <2>3. B4(c, b6) \in Int /\ InRange(28387, B4(c, b6), 39536)
    BY <2>1, DeviceWords, B4Measured
  <2> QED
    BY <2>2, <2>3 DEF InRange
<1> QED
  BY <1>1, <1>2

\* A raw value of which no byte was read is zero, and leads to a temperature
\* below -40 degrees, a pressure beyond 1100 hPa or one under 300 hPa, however
\* the read of the other raw value ended.
THEOREM MissingReadsShow ==
  ASSUME DevicesOrdinary
  PROVE  Spec => []MissingReadShows
<1>1. ASSUME CompensationInv
      PROVE  MissingReadShows
  <2> SUFFICES ASSUME CalibrationRead, reading.fault = "none"
               PROVE  /\ gotTemp = "zero" => ~TemperatureMeasured(reading.temperature)
                      /\ gotPressure = "zero" => ~PressureMeasured(reading.pressure)
    BY DEF MissingReadShows
  <2>1. PICK c \in Calibrations : stored = Kept(c, got)
    BY <1>1 DEF CompensationInv
  <2>2. stored = c
    BY <2>1, KeptAll DEF CalibrationRead
  <2>3. Ordinary(c) /\ Measurable(c, ut)
    BY <1>1 DEF DevicesOrdinary, CompensationInv
  <2>4. PICK t : t = Received(ut, gotTemp)
    OBVIOUS
  <2>5. reading = bmp085Convert(c, t, Received(word, gotPressure))
    BY <1>1, <2>2, <2>4 DEF CompensationInv
  <2>6. PICK b5 : b5 = TemperatureTerm(c, t).b5
    OBVIOUS
  <2>7. /\ b5 \in Int /\ InRange(-24000, b5, 13600)
        /\ gotTemp = "zero" => b5 <= -8993
    BY <1>1, <2>3, <2>4, <2>6, AnyTerm DEF CompensationInv
  <2>8. PICK b6 : b6 = b5 - 4000
    OBVIOUS
  <2>9. PICK b3 : b3 = B3(c, b6)
    OBVIOUS
  <2>10. PICK b4 : b4 = B4(c, b6)
    OBVIOUS
  <2>11. /\ b3 \in Int /\ InRange(-4000, b3, 63050)
         /\ b4 \in Int /\ InRange(28387, b4, 52002)
    BY <2>3, <2>7, <2>8, <2>9, <2>10, DivisionRanges
  <2>12. reading.temperature = (b5 + 8) \div 16
    BY <2>5, <2>6 DEF bmp085Convert, Undefined
  <2>13. reading.pressure =
           PressureOf(QuotientB7(UnsignedProduct(
             RawPressure(Received(word, gotPressure)) - b3, 12500), b4))
    BY <2>5, <2>6, <2>8, <2>9, <2>10, Factor DEF bmp085Convert, Undefined
  <2>14. ASSUME gotTemp = "zero"
         PROVE  ~TemperatureMeasured(reading.temperature)
    <3>1. reading.temperature \in Int /\ reading.temperature < -400
      BY <2>7, <2>12, <2>14
    <3> QED
      BY <3>1 DEF TemperatureMeasured, InRange
  <2>15. ASSUME gotPressure = "zero"
         PROVE  ~PressureMeasured(reading.pressure)
    <3>1. Received(word, gotPressure) = 0
      BY <2>15 DEF Received
    <3>2. RawPressure(0) - b3 = -b3
      BY <2>11, Oversampling DEF RawPressure
    <3>3. reading.pressure = PressureOf(QuotientB7(UnsignedProduct(-b3, 12500), b4))
      BY <2>13, <3>1, <3>2
    <3> QED
      BY <2>11, <3>3, NoPressureRead
  <2> QED
    BY <2>14, <2>15
<1> QED
  BY <1>1, ReadingIsConversion, PTL

-----------------------------------------------------------------------------
(* Two raw pressures *)

\* p is at most two below 2 * b7 / b4, on either side of line 304.
LEMMA PressureTermParts ==
  ASSUME NEW v \in Nat, NEW b \in Nat \ {0}
  PROVE  \E p \in Int : p = PressureTerm(v, b) /\ b * p <= 2 * v /\ 2 * v < b * p + 2 * b
<1>1. PICK n : n = 2 * v
  OBVIOUS
<1>2. n \in Int /\ v \in Int /\ b \in Int /\ 0 < b
  BY <1>1
<1>3. PICK q : q = n \div b
  OBVIOUS
<1>4. PICK qr : qr = n % b
  OBVIOUS
<1>5. PICK r : r = v \div b
  OBVIOUS
<1>6. PICK rr : rr = v % b
  OBVIOUS
<1>7. q \in Int /\ qr \in Int /\ 0 <= qr /\ qr < b /\ n = b * q + qr
  BY <1>2, <1>3, <1>4, DivisionParts
<1>8. r \in Int /\ rr \in Int /\ 0 <= rr /\ rr < b /\ v = b * r + rr
  BY <1>2, <1>5, <1>6, DivisionParts
<1>9. PICK p : p = PressureTerm(v, b)
  OBVIOUS
<1>10. p \in {q, 2 * r}
  BY <1>1, <1>3, <1>5, <1>9 DEF PressureTerm
<1>11. p \in Int /\ b * p <= 2 * v /\ 2 * v < b * p + 2 * b
  <2>1. CASE p = q
    BY <1>1, <1>2, <1>7, <2>1
  <2>2. CASE p = 2 * r
    <3>1. PICK e : e = b * r
      OBVIOUS
    <3>2. e \in Int /\ b * p = 2 * e
      BY <1>2, <1>8, <2>2, <3>1
    <3> QED
      BY <1>2, <1>8, <2>2, <3>1, <3>2
  <2> QED
    BY <1>10, <2>1, <2>2
<1> QED
  BY <1>9, <1>11

\* A larger word never gives a smaller p: one word more is more than the two
\* by which the case split can set p back.
LEMMA PressureTermRises ==
  ASSUME NEW v \in Int, 0 <= v, NEW n \in Int, 1 <= n,
         NEW b \in Int, 28387 <= b, b <= 39536, NEW w, w = v + 50000 * n,
         NEW p, p = PressureTerm(v, b), NEW q, q = PressureTerm(w, b)
  PROVE  /\ p \in Int /\ q \in Int /\ p <= q
         /\ 28387 * (q - p - 2) < 100000 * n
<1>1. v \in Nat /\ w \in Nat /\ b \in Nat \ {0}
  OBVIOUS
<1>2. p \in Int /\ b * p <= 2 * v /\ 2 * v < b * p + 2 * b
  BY <1>1, PressureTermParts
<1>3. q \in Int /\ b * q <= 2 * w /\ 2 * w < b * q + 2 * b
  BY <1>1, PressureTermParts
<1>4. PICK d : d = q - p
  OBVIOUS
<1>5. d \in Int /\ b * d = b * q - b * p
  BY <1>2, <1>3, <1>4
<1>6. PICK bd : bd = b * d
  OBVIOUS
<1>7. bd \in Int /\ bd < 100000 * n + 2 * b /\ 0 < bd
  BY <1>2, <1>3, <1>5, <1>6
<1>8. 0 <= d
  <2> SUFFICES ASSUME d <= -1
               PROVE  FALSE
    BY <1>5
  <2>1. bd = -(b * (-d))
    BY <1>5, <1>6
  <2>2. b * (-d) >= 0
    BY <1>5
  <2>3. PICK e : e = b * (-d)
    OBVIOUS
  <2> QED
    BY <1>7, <2>1, <2>2, <2>3
<1>9. 28387 * (d - 2) < 100000 * n
  <2>1. CASE d <= 2
    BY <1>5, <2>1
  <2>2. CASE d > 2
    <3>1. bd - 2 * b = 28387 * (d - 2) + (b - 28387) * (d - 2)
      BY <1>5, <1>6
    <3>2. (b - 28387) * (d - 2) >= 0
      BY <1>5, <2>2
    <3> QED
      BY <1>5, <1>7, <3>1, <3>2
  <2> QED
    BY <1>5, <2>1, <2>2
<1> QED
  BY <1>2, <1>3, <1>4, <1>5, <1>8, <1>9

\* The squares of two high parts.
LEMMA SquaresApart ==
  ASSUME NEW m \in Int, NEW n \in Int, 0 <= m, m <= n, n <= 839
  PROVE  0 <= n * n - m * m /\ n * n - m * m <= 1678 * (n - m)
<1>1. n * n - m * m = (n - m) * (n + m)
  OBVIOUS
<1>2. 1678 * (n - m) - (n - m) * (n + m) = (n - m) * (1678 - n - m)
  OBVIOUS
<1>3. (n - m) * (n + m) >= 0 /\ (n - m) * (1678 - n - m) >= 0
  OBVIOUS
<1>4. PICK e : e = (n - m) * (n + m)
  OBVIOUS
<1>5. e \in Int
  BY <1>4
<1> QED
  BY <1>1, <1>2, <1>3, <1>4, <1>5

\* A larger p never gives a smaller pressure, nor one much larger.
LEMMA PressureRises ==
  ASSUME NEW p \in Int, 0 <= p, NEW q \in Int, p <= q, q <= 215039
  PROVE  /\ PressureOf(p) \in Int /\ PressureOf(q) \in Int
         /\ PressureOf(p) <= PressureOf(q)
         /\ 1000 * (PressureOf(q) - PressureOf(p)) <= 1012 * (q - p) + 5925
<1>1. PICK m, x1, x2, y \in Int : PartsOf(p, m, x1, x2, y)
  BY PressureParts
<1>2. PICK n, X1, X2, Y \in Int : PartsOf(q, n, X1, X2, Y)
  BY PressureParts
<1>3. PICK mm : mm = m * m
  OBVIOUS
<1>4. PICK nn : nn = n * n
  OBVIOUS
<1>5. /\ 0 <= m /\ 256 * m <= p /\ p < 256 * m + 256
      /\ 65536 * x1 <= mm * 3038 /\ mm * 3038 < 65536 * x1 + 65536
      /\ 65536 * x2 <= -7357 * p /\ -7357 * p < 65536 * x2 + 65536
      /\ 16 * y <= x1 + x2 + 3791 /\ x1 + x2 + 3791 < 16 * y + 16
      /\ PressureOf(p) = p + y
  BY <1>1, <1>3 DEF PartsOf
<1>6. /\ 0 <= n /\ 256 * n <= q /\ q < 256 * n + 256
      /\ 65536 * X1 <= nn * 3038 /\ nn * 3038 < 65536 * X1 + 65536
      /\ 65536 * X2 <= -7357 * q /\ -7357 * q < 65536 * X2 + 65536
      /\ 16 * Y <= X1 + X2 + 3791 /\ X1 + X2 + 3791 < 16 * Y + 16
      /\ PressureOf(q) = q + Y
  BY <1>2, <1>4 DEF PartsOf
<1>7. m <= n /\ n <= 839
  BY <1>5, <1>6
<1>8. mm \in Int /\ nn \in Int /\ 0 <= nn - mm /\ nn - mm <= 1678 * (n - m)
  BY <1>3, <1>4, <1>5, <1>7, SquaresApart
<1>9. p + y <= q + Y
  BY <1>5, <1>6, <1>8
<1>10. 1000 * ((q + Y) - (p + y)) <= 1012 * (q - p) + 5925
  BY <1>5, <1>6, <1>8
<1> QED
  BY <1>5, <1>6, <1>9, <1>10

\* From one raw pressure to a larger one, the pressure never falls and rises
\* by little more than four times as much.
LEMMA PressuresApart ==
  ASSUME NEW c \in Calibrations, Ordinary(c), NEW t, Measurable(c, t),
         NEW word1 \in Int, RawPressureRead(word1), NEW n \in Int, 0 <= n,
         NEW word2, word2 = word1 + n, RawPressureRead(word2)
  PROVE  LET rise == bmp085Convert(c, t, word2).pressure
                       - bmp085Convert(c, t, word1).pressure
         IN rise \in Int /\ InRange(0, rise, 4 * n + 8)
<1>1. PICK b6 : b6 = TemperatureTerm(c, t).b5 - 4000
  OBVIOUS
<1>2. PICK b3 : b3 = B3(c, b6)
  OBVIOUS
<1>3. PICK b4 : b4 = B4(c, b6)
  OBVIOUS
<1>4. PICK v : v = 12500 * (4 * word1 - b3)
  OBVIOUS
<1>5. PICK u : u = 12500 * (4 * word2 - b3)
  OBVIOUS
<1>6. /\ b3 \in Int /\ b4 \in Int /\ InRange(28387, b4, 39536)
      /\ v \in Nat /\ v <= 3050000000
      /\ bmp085Convert(c, t, word1).pressure = PressureOf(PressureTerm(v, b4))
  BY <1>1, <1>2, <1>3, <1>4, MeasuredReading
<1>7. /\ u \in Nat /\ u <= 3050000000
      /\ bmp085Convert(c, t, word2).pressure = PressureOf(PressureTerm(u, b4))
  BY <1>1, <1>2, <1>3, <1>5, MeasuredReading
<1>8. u = v + 50000 * n
  BY <1>4, <1>5, <1>6
<1>9. PICK p : p = PressureTerm(v, b4)
  OBVIOUS
<1>10. PICK q : q = PressureTerm(u, b4)
  OBVIOUS
<1>11. 28387 <= b4 /\ b4 <= 39536 /\ v \in Int /\ 0 <= v
  BY <1>6 DEF InRange
<1>12. p \in Int /\ 0 <= p /\ q \in Int /\ q <= 215039
  BY <1>6, <1>7, <1>9, <1>10, <1>11, PressureTermBetween DEF InRange
<1>13. p <= q /\ 28387 * (q - p - 2) < 100000 * n + 1
  <2>1. CASE 1 <= n
    BY <1>6, <1>8, <1>9, <1>10, <1>11, <1>12, <2>1, PressureTermRises
  <2>2. CASE n = 0
    BY <1>6, <1>8, <1>9, <1>10, <1>12, <2>2
  <2> QED
    BY <2>1, <2>2
<1>14. PICK P : P = PressureOf(p)
  OBVIOUS
<1>15. PICK Q : Q = PressureOf(q)
  OBVIOUS
<1>16. P \in Int /\ Q \in Int /\ P <= Q /\ 1000 * (Q - P) <= 1012 * (q - p) + 5925
  BY <1>12, <1>13, <1>14, <1>15, PressureRises
<1>17. 0 <= Q - P /\ Q - P <= 4 * n + 8
  <2>1. PICK k : k = q - p
    OBVIOUS
  <2>2. PICK K : K = Q - P
    OBVIOUS
  <2>3. /\ k \in Int /\ 28387 * k < 100000 * n + 56775
        /\ K \in Int /\ 0 <= K /\ 1000 * K <= 1012 * k + 5925
    BY <1>12, <1>13, <1>16, <2>1, <2>2
  <2>4. K <= 4 * n + 8
    BY <2>3
  <2> QED
    BY <2>2, <2>3, <2>4
<1>18. bmp085Convert(c, t, word1).pressure = P /\ bmp085Convert(c, t, word2).pressure = Q
  BY <1>6, <1>7, <1>9, <1>10, <1>14, <1>15
<1>19. Q - P \in Int /\ InRange(0, Q - P, 4 * n + 8)
  BY <1>16, <1>17 DEF InRange
<1> QED
  BY <1>18, <1>19

\* From one measurement to the next with a larger raw pressure, the pressure
\* never falls and rises by no more than the step allows, across the case
\* split of line 303 too.
THEOREM PressureRisesContinuously ==
  ASSUME DevicesOrdinary
  PROVE  Spec => PressureContinuous
<1>1. ASSUME CompensationInv, Measure,
             AllRead, AllRead', RawPressureRead(word), RawPressureRead(word')
      PROVE  InRange(0, reading'.pressure - reading.pressure, 4 * Step + 8)
  <2>1. PICK c \in Calibrations : stored = Kept(c, got)
    BY <1>1 DEF CompensationInv
  <2>2. stored = c
    BY <1>1, <2>1, KeptAll DEF AllRead, CalibrationRead
  <2>3. Ordinary(c) /\ Measurable(c, ut)
    BY <1>1 DEF DevicesOrdinary, CompensationInv
  <2>4. word \in Int /\ reading = bmp085Convert(c, ut, word)
    BY <1>1, <2>2 DEF CompensationInv, AllRead, Received
  <2>5. Step \in Int /\ 0 <= Step
    BY StepAssumption
  <2>6. PICK w : w = word'
    OBVIOUS
  <2>7. w = word + Step
    <3>1. w # 0
      BY <1>1, <2>6 DEF RawPressureRead, InRange
    <3> QED
      BY <1>1, <2>6, <3>1 DEF Measure
  <2>8. RawPressureRead(w)
    BY <1>1, <2>6
  <2>9. gotTemp' = "read" /\ gotPressure' = "read"
    BY <1>1 DEF AllRead
  <2>10. reading' = bmp085Convert(c, ut, w)
    BY <1>1, <2>2, <2>6, <2>9 DEF Measure, Received
  <2> QED
    BY <1>1, <2>3, <2>4, <2>5, <2>7, <2>8, <2>10, PressuresApart
<1>2. CompensationInv /\ [Measure]_vars =>
        [AllRead /\ AllRead' /\ RawPressureRead(word) /\ RawPressureRead(word') =>
           InRange(0, reading'.pressure - reading.pressure, 4 * Step + 8)]_vars
  BY <1>1
<1> QED
  BY <1>2, ReadingIsConversion, PTL DEF Spec, PressureContinuous

\* Half a raw value, with the calibration complete, leads to a temperature that
\* is not above the true one and less than 12.5 degrees below it, or to a
\* pressure not above the true one and at most 1028 Pa below it.
THEOREM HalfReadsLower ==
  ASSUME DevicesOrdinary
  PROVE  Spec => []HalfReadLowers
<1>1. ASSUME CompensationInv
      PROVE  HalfReadLowers
  <2> SUFFICES ASSUME CalibrationRead, reading.fault = "none"
               PROVE  /\ gotTemp = "partial" =>
                           InRange(0, (TemperatureTerm(stored, ut).b5 + 8) \div 16
                                        - reading.temperature, 124)
                      /\ /\ gotTemp = "read" /\ gotPressure = "partial"
                         /\ RawPressureRead(Received(word, "partial"))
                         /\ RawPressureRead(word)
                         => InRange(0, bmp085Convert(stored, ut, word).pressure
                                         - reading.pressure, 4 * 255 + 8)
    BY DEF HalfReadLowers
  <2>1. PICK c \in Calibrations : stored = Kept(c, got)
    BY <1>1 DEF CompensationInv
  <2>2. stored = c
    BY <2>1, KeptAll DEF CalibrationRead
  <2>3. Ordinary(c) /\ Measurable(c, ut)
    BY <1>1 DEF DevicesOrdinary, CompensationInv
  <2>4. ASSUME gotTemp = "partial"
        PROVE  InRange(0, (TemperatureTerm(c, ut).b5 + 8) \div 16 - reading.temperature, 124)
    <3>1. PICK t : t = Received(ut, gotTemp)
      OBVIOUS
    <3>2. reading = bmp085Convert(c, t, Received(word, gotPressure))
      BY <1>1, <2>2, <3>1 DEF CompensationInv
    <3>3. ut \in Int
      BY <2>3 DEF Measurable
    <3>4. t \in Int /\ InRange(ut - 255, t, ut)
      BY <2>4, <3>1, <3>3, ReceivedBounds DEF Outcomes
    <3>5. PICK b5 : b5 = TemperatureTerm(c, t).b5
      OBVIOUS
    <3>6. PICK B5 : B5 = TemperatureTerm(c, ut).b5
      OBVIOUS
    <3>7. b5 \in Int /\ B5 \in Int /\ 0 <= B5 - b5 /\ B5 - b5 <= 1976
      BY <2>3, <3>4, <3>5, <3>6, HalfTerm DEF InRange
    <3>8. reading.temperature = (b5 + 8) \div 16
      BY <3>2, <3>5 DEF bmp085Convert, Undefined
    <3>9. InRange(0, (B5 + 8) \div 16 - (b5 + 8) \div 16, 124)
      BY <3>7 DEF InRange
    <3> QED
      BY <3>6, <3>8, <3>9
  <2>5. ASSUME gotTemp = "read", gotPressure = "partial",
               RawPressureRead(Received(word, "partial")), RawPressureRead(word)
        PROVE  InRange(0, bmp085Convert(c, ut, word).pressure - reading.pressure, 4 * 255 + 8)
    <3>1. PICK h : h = Received(word, "partial")
      OBVIOUS
    <3>2. reading = bmp085Convert(c, ut, h)
      BY <1>1, <2>2, <2>5, <3>1 DEF CompensationInv, Received
    <3>3. word \in Int
      BY <1>1 DEF CompensationInv
    <3>4. h \in Int /\ InRange(word - 255, h, word)
      BY <3>1, <3>3, ReceivedBounds DEF Outcomes
    <3>5. PICK n : n = word - h
      OBVIOUS
    <3>6. n \in Int /\ 0 <= n /\ n <= 255 /\ word = h + n
      BY <3>3, <3>4, <3>5 DEF InRange
    <3>7. PICK d : d = bmp085Convert(c, ut, word).pressure - bmp085Convert(c, ut, h).pressure
      OBVIOUS
    <3>8. d \in Int /\ InRange(0, d, 4 * n + 8)
      <4>1. RawPressureRead(h) /\ RawPressureRead(word) /\ h \in Int
        BY <2>5, <3>1, <3>4
      <4> QED
        BY <2>3, <3>6, <3>7, <4>1, PressuresApart
    <3> QED
      BY <3>2, <3>6, <3>7, <3>8 DEF InRange
  <2> QED
    BY <2>2, <2>4, <2>5
<1> QED
  BY <1>1, ReadingIsConversion, PTL

\* A failed read of a raw value shows if it brought no byte, and lowers the
\* reading by a bounded amount if it brought the high one.
THEOREM FailedReadsAreBounded ==
  ASSUME DevicesOrdinary
  PROVE  Spec => []FailedReadBounded
<1>1. Spec => []MissingReadShows
  BY MissingReadsShow
<1>2. Spec => []HalfReadLowers
  BY HalfReadsLower
<1>3. MissingReadShows /\ HalfReadLowers => FailedReadBounded
  BY DEF FailedReadBounded
<1> QED
  BY <1>1, <1>2, <1>3, PTL
=============================================================================
