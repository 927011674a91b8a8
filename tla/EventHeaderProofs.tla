--------------------------- MODULE EventHeaderProofs -------------------------
(***************************************************************************)
(* Proofs about EventHeader, for any width of a byte and of the fields,    *)
(* and for either byte order of the host.                                  *)
(***************************************************************************)
EXTENDS EventHeader, TLAPS

(* Division with remainder: what is left is less than the divisor.         *)
LEMMA DivMod ==
  ASSUME NEW m \in Nat, m > 0, NEW x \in Int
  PROVE  x = m * (x \div m) + (x % m) /\ (x % m) \in 0 .. m - 1 /\ (x \div m) \in Int
OBVIOUS

(* And there is one way only to divide.                                    *)
LEMMA DivModIs ==
  ASSUME NEW m \in Nat, m > 0, NEW q \in Int, NEW r \in 0 .. m - 1
  PROVE  (m * q + r) \div m = q /\ (m * q + r) % m = r
<1>1. PICK x \in Int : x = m * q + r
  OBVIOUS
<1>2. PICK p \in Int, s \in 0 .. m - 1 : p = x \div m /\ s = x % m
  BY DivMod
<1>3. x = m * p + s
  BY <1>2, DivMod
<1>4. m * q + r = m * p + s
  BY <1>1, <1>3
<1>5. q = p /\ r = s
  BY <1>4
<1> QED BY <1>1, <1>2, <1>5

(* A digit and what is above it.                                           *)
LEMMA Digits ==
  ASSUME NEW m \in Nat, m > 0, NEW n \in Nat, NEW q \in 0 .. n - 1, NEW r \in 0 .. m - 1
  PROVE  m * q + r \in 0 .. m * n - 1
<1>1. m * (n - 1 - q) >= 0
  OBVIOUS
<1>2. m * q >= 0
  OBVIOUS
<1> QED BY <1>1, <1>2

(* A number below a product has its upper digit below the factor.          *)
LEMMA UpperDigit ==
  ASSUME NEW m \in Nat, m > 0, NEW n \in Nat, NEW x \in 0 .. m * n - 1
  PROVE  x \div m \in 0 .. n - 1
<1>1. PICK q \in Int, r \in 0 .. m - 1 : q = x \div m /\ x = m * q + r
  BY DivMod
<1>2. q >= 0
  <2>1. CASE q < 0
    <3>1. m * (-1 - q) >= 0
      BY <2>1
    <3> QED BY <1>1, <3>1
  <2> QED BY <2>1
<1>3. q <= n - 1
  <2>1. CASE q >= n
    <3>1. m * (q - n) >= 0
      BY <2>1
    <3> QED BY <1>1, <3>1
  <2> QED BY <2>1
<1> QED BY <1>1, <1>2, <1>3

-----------------------------------------------------------------------------
(* The sizes of a word and of the fields.                                  *)
LEMMA Sizes ==
  /\ Half \in Nat /\ Half > 1 /\ Whole \in Nat /\ Whole > Half /\ Whole >= 4
  /\ Whole = Half * Half
  /\ Channels \in Nat /\ Channels > 0 /\ Boards \in Nat /\ Boards > 0
  /\ Half = Channels * Boards /\ Lengths \in Nat /\ Lengths > 0
  /\ Byte \in Nat /\ Byte > 0 /\ Half = Byte * Byte
<1>1. Byte \in Nat /\ Byte >= 2
  BY EventHeaderAssumption
<1>2. Byte * Byte \in Nat /\ Byte * Byte >= 4
  <2>1. (Byte - 2) * (Byte + 2) >= 0
    BY <1>1
  <2>2. (Byte - 2) * (Byte + 2) = Byte * Byte - 4
    BY <1>1
  <2> QED BY <1>1, <2>1, <2>2
<1>3. Half \in Nat /\ Half >= 4
  BY <1>2 DEF Half
<1>4. Half * Half \in Nat /\ Half * Half >= 2 * Half
  <2>1. Half * (Half - 2) >= 0
    BY <1>3
  <2> QED BY <1>3, <2>1
<1>5. Whole \in Nat /\ Whole > Half /\ Whole >= 4 /\ Whole = Half * Half
  BY <1>3, <1>4 DEF Whole
<1>6. Half = Byte * Byte
  BY DEF Half
<1> QED BY <1>1, <1>3, <1>5, <1>6, EventHeaderAssumption

-----------------------------------------------------------------------------
(* Byte order.                                                             *)

(* Two digits, swapped.                                                    *)
LEMMA SwapDigits ==
  ASSUME NEW m \in Nat, m > 0, NEW a \in 0 .. m - 1, NEW b \in 0 .. m - 1
  PROVE  /\ b * m + a \in 0 .. m * m - 1
         /\ (b * m + a) \div m = b /\ (b * m + a) % m = a
<1>1. m * b + a \in 0 .. m * m - 1
  BY Digits
<1>2. (m * b + a) \div m = b /\ (m * b + a) % m = a
  BY DivModIs
<1>3. b * m = m * b
  OBVIOUS
<1> QED BY <1>1, <1>2, <1>3

(* A half-word is two bytes.                                               *)
LEMMA SwapHalfIs ==
  ASSUME NEW h \in 0 .. Half - 1
  PROVE  SwapHalf(h) \in 0 .. Half - 1 /\ SwapHalf(SwapHalf(h)) = h
<1>1. PICK a \in 0 .. Byte - 1, b \in 0 .. Byte - 1 :
        a = h \div Byte /\ b = h % Byte /\ h = Byte * a + b
  <2>1. h \div Byte \in 0 .. Byte - 1
    BY Sizes, UpperDigit
  <2>2. h = Byte * (h \div Byte) + (h % Byte) /\ h % Byte \in 0 .. Byte - 1
    BY Sizes, DivMod
  <2> QED BY <2>1, <2>2
<1>2. SwapHalf(h) = b * Byte + a
  BY <1>1 DEF SwapHalf
<1>3. /\ b * Byte + a \in 0 .. Half - 1
      /\ (b * Byte + a) \div Byte = b /\ (b * Byte + a) % Byte = a
  BY Sizes, SwapDigits
<1>4. SwapHalf(b * Byte + a) = a * Byte + b
  BY <1>3 DEF SwapHalf
<1>5. a * Byte = Byte * a
  BY Sizes
<1> QED BY <1>1, <1>2, <1>3, <1>4, <1>5

(* A word is two half-words.                                               *)
LEMMA SwapIs ==
  ASSUME NEW w \in 0 .. Whole - 1
  PROVE  Swap(w) \in 0 .. Whole - 1 /\ Swap(Swap(w)) = w
<1>1. PICK a \in 0 .. Half - 1, b \in 0 .. Half - 1 :
        a = w \div Half /\ b = w % Half /\ w = Half * a + b
  <2>1. w \div Half \in 0 .. Half - 1
    BY Sizes, UpperDigit
  <2>2. w = Half * (w \div Half) + (w % Half) /\ w % Half \in 0 .. Half - 1
    BY Sizes, DivMod
  <2> QED BY <2>1, <2>2
<1>2. PICK p \in 0 .. Half - 1, q \in 0 .. Half - 1 :
        p = SwapHalf(a) /\ q = SwapHalf(b) /\ SwapHalf(p) = a /\ SwapHalf(q) = b
  BY SwapHalfIs
<1>3. Swap(w) = q * Half + p
  BY <1>1, <1>2 DEF Swap
<1>4. /\ q * Half + p \in 0 .. Whole - 1
      /\ (q * Half + p) \div Half = q /\ (q * Half + p) % Half = p
  BY Sizes, SwapDigits
<1>5. Swap(q * Half + p) = a * Half + b
  BY <1>2, <1>4 DEF Swap
<1>6. a * Half = Half * a
  BY Sizes
<1> QED BY <1>1, <1>3, <1>4, <1>5, <1>6

(* ntohl undoes the byte order of the network, whatever the host's is.     *)
LEMMA ntohlIs ==
  ASSUME NEW w \in 0 .. Whole - 1
  PROVE  ntohl(w) \in 0 .. Whole - 1 /\ ntohl(ntohl(w)) = w
BY SwapIs DEF ntohl

LEMMA HeaderStored ==
  ASSUME NEW n \in Nat, NEW words \in [1 .. n -> 0 .. Whole - 1]
  PROVE  /\ Stored(words) \in [1 .. n -> 0 .. Whole - 1]
         /\ Header(Stored(words)) = words
<1>1. Stored(words) = [i \in 1 .. n |-> ntohl(words[i])]
  BY DEF Stored
<1>2. Stored(words) \in [1 .. n -> 0 .. Whole - 1]
  BY <1>1, ntohlIs
<1>3. Header(Stored(words)) = [i \in 1 .. n |-> ntohl(ntohl(words[i]))]
  BY <1>1 DEF Header
<1>4. \A i \in 1 .. n : ntohl(ntohl(words[i])) = words[i]
  BY ntohlIs
<1>5. Header(Stored(words)) = [i \in 1 .. n |-> words[i]]
  BY <1>3, <1>4
<1> QED BY <1>2, <1>5

-----------------------------------------------------------------------------
(* A time is three half-words, t \div Whole, (t \div Half) % Half and      *)
(* t % Half, of which the last two are the lower word.                     *)
LEMMA TimeDigits ==
  ASSUME NEW t \in 0 .. Half * Whole - 1
  PROVE  /\ t \div Whole \in 0 .. Half - 1 /\ (t \div Half) % Half \in 0 .. Half - 1
         /\ t % Half \in 0 .. Half - 1 /\ t % Whole \in 0 .. Whole - 1
         /\ t = Whole * (t \div Whole) + (t % Whole)
         /\ ((t \div Half) % Half) * Half + (t % Half) = t % Whole
<1>1. PICK w \in Nat : w = Whole /\ w > 0
  BY Sizes
<1>2. t \in Int /\ t \in 0 .. Whole * Half - 1
  BY Sizes
<1>3. t \div Whole \in 0 .. Half - 1
  BY <1>2, Sizes, UpperDigit
<1>4. t = Whole * (t \div Whole) + (t % Whole) /\ t % Whole \in 0 .. Whole - 1
  <2>1. t = w * (t \div w) + (t % w) /\ t % w \in 0 .. w - 1
    BY <1>1, <1>2, DivMod
  <2> QED BY <1>1, <2>1
<1>5. PICK a \in Int, r \in 0 .. Half - 1 : a = t \div Half /\ r = t % Half /\ t = Half * a + r
  BY <1>2, Sizes, DivMod
<1>6. PICK u \in Int, m \in 0 .. Half - 1 : u = a \div Half /\ m = a % Half /\ a = Half * u + m
  BY Sizes, DivMod
<1>7. PICK low \in Int : low = Half * m + r
  BY Sizes
<1>8. low \in 0 .. Whole - 1
  BY <1>7, Sizes, Digits
<1>9. t = Whole * u + low
  <2>1. t = Half * (Half * u + m) + r
    BY <1>5, <1>6
  <2>2. Half * (Half * u + m) = (Half * Half) * u + Half * m
    BY Sizes
  <2> QED BY <1>7, <2>1, <2>2, Sizes
<1>10. t % Whole = low
  <2>1. t = w * u + low /\ low \in 0 .. w - 1
    BY <1>1, <1>8, <1>9
  <2>2. t % w = low
    BY <1>1, <2>1, DivModIs
  <2> QED BY <1>1, <2>2
<1>11. m * Half + r = low
  BY <1>7, Sizes
<1> QED BY <1>3, <1>4, <1>5, <1>6, <1>10, <1>11

-----------------------------------------------------------------------------
(* What is in data is what the hardware took at the time of the clock, and *)
(* what was made of it.                                                    *)
HeaderInv ==
  /\ clock \in 0 .. Half * Whole - 1 /\ source \in Source
  /\ data = Stored(HeaderOf(source, clock)) /\ geb = GebTimestamp(Header(data))
  /\ \E v \in Payloads : trigger = Stored(TriggerOf(clock, v))
  /\ payload = TrigPayload(Header(trigger))

(* Before the first event everything is 0, the timestamp too.              *)
LEMMA ZeroTime == 0 \in 0 .. Half * Whole - 1
<1>1. Half * Whole >= Half
  <2>1. Half * (Whole - 1) >= 0
    BY Sizes
  <2> QED BY <2>1, Sizes
<1> QED BY <1>1, Sizes

(* Two half-words make a word.                                             *)
LEMMA PackIs ==
  ASSUME NEW hi \in 0 .. Half - 1, NEW lo \in 0 .. Half - 1
  PROVE  Pack(hi, lo) \in 0 .. Whole - 1 /\ Pack(hi, lo) % Half = lo /\ Pack(hi, lo) \div Half = hi
<1>1. PICK h \in Nat : h = Half /\ h > 0 /\ Whole = h * h
  BY Sizes
<1>2. Pack(hi, lo) = h * hi + lo
  BY <1>1 DEF Pack
<1>3. h * hi + lo \in 0 .. h * h - 1
  BY <1>1, Digits
<1>4. (h * hi + lo) % h = lo /\ (h * hi + lo) \div h = hi
  BY <1>1, DivModIs
<1> QED BY <1>1, <1>2, <1>3, <1>4

(* The field of the length ends where a half-word does, or before.         *)
LEMMA LengthsDivide == \E n \in Nat : Half = Lengths * n
<1>1. PICK h \in Int, m \in Nat : h = Half /\ h > 0 /\ m = Lengths /\ m > 0
  BY Sizes
<1>2. h % m = 0
  BY <1>1, EventHeaderAssumption
<1>3. h = m * (h \div m) + (h % m) /\ (h \div m) \in Int
  BY <1>1, DivMod
<1>4. PICK n \in Int : h = m * n
  BY <1>2, <1>3
<1>5. CASE n < 0
  <2>1. m * (0 - n) >= 0
    BY <1>1, <1>5
  <2> QED BY <1>1, <1>4, <2>1
<1> QED BY <1>1, <1>4, <1>5

(* The fields the hardware sends are in their ranges.                      *)
LEMMA SourceType ==
  ASSUME NEW s \in Source
  PROVE  /\ s.ch \in 0 .. Channels - 1 /\ s.ch \in 0 .. 99 /\ s.board \in 0 .. Boards - 1
         /\ s.len \in 0 .. Lengths - 1 /\ s.spare \in 0 .. Half - 1
<1>1. s.ch \in 0 .. DigChannels - 1 /\ s.board \in 0 .. Boards - 1
  BY DEF Source
<1>2. s.len \in Lens /\ s.spare \in Spare
  BY DEF Source
<1>3. DigChannels \in 1 .. Channels /\ DigChannels <= 100 /\ Channels \in Nat
  BY EventHeaderAssumption
<1>4. Lens \subseteq 0 .. Lengths - 1 /\ Spare \subseteq 0 .. Half - 1
  BY EventHeaderAssumption, Zenon
<1>5. s.ch \in 0 .. Channels - 1 /\ s.ch \in 0 .. 99
  BY <1>1, <1>3
<1>6. s.len \in 0 .. Lengths - 1 /\ s.spare \in 0 .. Half - 1
  BY <1>2, <1>4
<1> QED BY <1>1, <1>5, <1>6

(* The words the hardware sends are words.                                 *)
LEMMA HeaderType ==
  ASSUME NEW t \in 0 .. Half * Whole - 1, NEW s \in Source
  PROVE  /\ HeaderOf(s, t) \in [1 .. 3 -> 0 .. Whole - 1]
         /\ s.len + Lengths * (s.spare \div Lengths) \in 0 .. Half - 1
<1>1. /\ s.ch \in 0 .. Channels - 1 /\ s.board \in 0 .. Boards - 1
      /\ s.len \in 0 .. Lengths - 1 /\ s.spare \in 0 .. Half - 1
  BY SourceType
<1>2. PICK n \in Nat : Half = Lengths * n
  BY LengthsDivide
<1>3. PICK g \in 0 .. n - 1 : g = s.spare \div Lengths
  BY <1>1, <1>2, Sizes, UpperDigit
<1>4. PICK up \in 0 .. Half - 1 : up = s.len + Lengths * g
  <2>1. Lengths * g + s.len \in 0 .. Lengths * n - 1
    BY <1>1, <1>3, Sizes, Digits
  <2> QED BY <1>1, <1>2, <1>3, <2>1, Sizes
<1>5. PICK low \in 0 .. Half - 1 : low = Channels * s.board + s.ch
  <2>1. Channels * s.board + s.ch \in 0 .. Channels * Boards - 1
    BY <1>1, Sizes, Digits
  <2> QED BY <2>1, Sizes
<1>6. s.ch + Channels * s.board + Half * up \in 0 .. Whole - 1
  <2>1. Half * up + low \in 0 .. Half * Half - 1
    BY Sizes, Digits
  <2>2. s.ch + Channels * s.board = low
    BY <1>1, <1>5, Sizes
  <2> QED BY <2>1, <2>2, Sizes
<1>7. t % Whole \in 0 .. Whole - 1 /\ t \div Whole \in 0 .. Half - 1
  BY TimeDigits
<1>8. t \div Whole + Half * s.spare \in 0 .. Whole - 1
  <2>1. PICK x \in 0 .. Half - 1, y \in 0 .. Half - 1, h \in Nat :
          x = s.spare /\ y = t \div Whole /\ h = Half /\ h > 0 /\ Whole = h * h
    BY <1>1, <1>7, Sizes
  <2>2. h * x + y \in 0 .. h * h - 1
    BY <2>1, Digits
  <2>3. y + h * x = h * x + y
    BY <2>1
  <2> QED BY <2>1, <2>2, <2>3
<1> QED BY <1>3, <1>4, <1>6, <1>7, <1>8 DEF HeaderOf

LEMMA TriggerType ==
  ASSUME NEW t \in 0 .. Half * Whole - 1, NEW v \in Payloads
  PROVE  /\ TriggerOf(t, v) \in [1 .. TrigDataSize - 1 -> 0 .. Half - 1]
         /\ TrigDataSize - 1 \in Nat
<1>1. v \in Nat
  BY EventHeaderAssumption
<1>2. ASSUME NEW i \in 1 .. TrigDataSize - 1 PROVE (v + i) % Half \in 0 .. Half - 1
  BY <1>1, Sizes, DivMod
<1>3. /\ t \div Whole \in 0 .. Half - 1 /\ (t \div Half) % Half \in 0 .. Half - 1
      /\ t % Half \in 0 .. Half - 1
  BY TimeDigits
<1>4. TrigDataSize - 1 \in Nat
  BY EventHeaderAssumption
<1> QED BY <1>2, <1>3, <1>4 DEF TriggerOf

(* The time is in words 2 and 3, whatever the other bits are.              *)
LEMMA HeaderTime ==
  ASSUME NEW t \in 0 .. Half * Whole - 1, NEW s \in Source
  PROVE  HeaderOf(s, t)[2] = t % Whole /\ HeaderOf(s, t)[3] % Half = t \div Whole
<1>1. HeaderOf(s, t)[2] = t % Whole /\ HeaderOf(s, t)[3] = t \div Whole + Half * s.spare
  BY DEF HeaderOf
<1>2. PICK h \in Nat, x \in Int, y \in Int :
        h = Half /\ h > 0 /\ x = s.spare /\ y = t \div Whole /\ y \in 0 .. h - 1
  <2>1. s.spare \in 0 .. Half - 1
    BY SourceType
  <2>2. t \div Whole \in 0 .. Half - 1
    BY TimeDigits
  <2>3. Half \in Nat /\ Half > 0
    BY Sizes
  <2> QED BY <2>1, <2>2, <2>3
<1>3. (h * x + y) % h = y
  BY <1>2, DivModIs
<1>4. y + h * x = h * x + y
  BY <1>2
<1> QED BY <1>1, <1>2, <1>3, <1>4

(* The timestamp of the GEB header, for both values of the sign bit.       *)
LEMMA GebIs ==
  ASSUME NEW t \in 0 .. Half * Whole - 1, NEW e, e[2] = t % Whole, e[3] % Half = t \div Whole
  PROVE  /\ t % Whole < Whole \div 2 => GebTimestamp(e) = t
         /\ t % Whole >= Whole \div 2 => GebTimestamp(e) = Whole * (Whole - 1) + (t % Whole)
<1>1. PICK w \in Nat, u \in 0 .. Half - 1, x \in 0 .. Whole - 1 :
        w = Whole /\ w >= 4 /\ u = t \div Whole /\ x = t % Whole /\ t = Whole * u + x
  <2>1. /\ t \div Whole \in 0 .. Half - 1 /\ t % Whole \in 0 .. Whole - 1
        /\ t = Whole * (t \div Whole) + (t % Whole)
    BY TimeDigits
  <2>2. Whole \in Nat /\ Whole >= 4
    BY Sizes
  <2> QED BY <2>1, <2>2, Zenon
<1>2. timestamp_upper(e) = u
  BY <1>1 DEF timestamp_upper
<1>3. PICK ww \in Nat : ww = w * w /\ ww >= 2 * w
  <2>1. w * (w - 2) >= 0
    BY <1>1
  <2>2. w * w \in Nat /\ w * w >= 2 * w
    BY <2>1
  <2> QED BY <2>2
<1>4. CASE x < Whole \div 2
  <2>1. timestamp_lower(e) = x
    BY <1>1, <1>4 DEF timestamp_lower, Signed
  <2>2. x % ww = x
    BY <1>1, <1>3
  <2>3. ToUnsigned64(x) = x
    BY <1>1, <1>3, <2>2 DEF ToUnsigned64
  <2>4. GebTimestamp(e) = u * Whole + x
    BY <1>1, <1>2, <2>1, <2>3 DEF GebTimestamp, OrUpper
  <2>5. u * Whole = Whole * u
    BY <1>1
  <2> QED BY <1>1, <1>4, <2>4, <2>5
<1>5. CASE ~ (x < Whole \div 2)
  <2>1. timestamp_lower(e) = x - w
    BY <1>1, <1>5 DEF timestamp_lower, Signed
  <2>2. PICK r \in 0 .. ww - 1 : r = (ww - w) + x /\ r >= w
    BY <1>1, <1>3
  <2>3. x - w = ww * (-1) + r
    BY <1>1, <1>3, <2>2
  <2>4. (x - w) % ww = r
    BY <1>1, <1>3, <2>2, <2>3, DivModIs
  <2>5. ToUnsigned64(x - w) = r
    BY <1>1, <1>3, <2>4 DEF ToUnsigned64
  <2>6. GebTimestamp(e) = r
    BY <1>1, <2>1, <2>2, <2>5 DEF GebTimestamp, OrUpper
  <2>7. w * (w - 1) = ww - w
    BY <1>1, <1>3
  <2> QED BY <1>1, <1>5, <2>2, <2>6, <2>7
<1> QED BY <1>1, <1>4, <1>5

(* Before the first event the GEB header has the time 0.                   *)
LEMMA ZeroGeb ==
  ASSUME NEW s \in Source
  PROVE  GebTimestamp(Header(Stored(HeaderOf(s, 0)))) = 0
<1>1. PICK t \in 0 .. Half * Whole - 1 : t = 0
  BY ZeroTime
<1> DEFINE e == HeaderOf(s, t)
<1>2. e = Header(Stored(HeaderOf(s, t)))
  BY HeaderType, HeaderStored
<1>3. e[2] = t % Whole /\ e[3] % Half = t \div Whole
  BY <1>2, HeaderTime
<1>4. t % Whole = 0 /\ Whole \div 2 > 0
  <2>1. PICK w \in Nat : w = Whole /\ w >= 4
    BY Sizes
  <2>2. w \div 2 > 0 /\ (w * 0 + 0) % w = 0
    BY <2>1, DivModIs
  <2>3. w * 0 + 0 = 0
    BY <2>1
  <2> QED BY <1>1, <2>1, <2>2, <2>3
<1>5. Whole \div 2 \in Int
  BY Sizes
<1> HIDE DEF e
<1>6. GebTimestamp(e) = t
  BY <1>3, <1>4, <1>5, GebIs
<1> QED BY <1>1, <1>2, <1>6

LEMMA HeaderInit == Init => HeaderInv
<1> SUFFICES ASSUME Init PROVE HeaderInv
  OBVIOUS
<1>1. clock \in 0 .. Half * Whole - 1 /\ source \in Source
  BY ZeroTime DEF Init
<1>2. data = Stored(HeaderOf(source, clock)) /\ \E v \in Payloads : trigger = Stored(TriggerOf(clock, v))
  BY DEF Init
<1>3. geb = GebTimestamp(Header(data))
  BY <1>1, ZeroGeb DEF Init
<1>4. payload = TrigPayload(Header(trigger))
  BY DEF Init
<1> QED BY <1>1, <1>2, <1>3, <1>4 DEF HeaderInv

LEMMA HeaderStep == HeaderInv /\ [Next]_vars => HeaderInv'
<1> SUFFICES ASSUME HeaderInv, [Next]_vars PROVE HeaderInv'
  OBVIOUS
<1>1. CASE Tick
  <2>1. clock' \in 0 .. Half * Whole - 1
    <3>1. Half * Whole \in Nat
      BY Sizes
    <3> QED BY <1>1, <3>1 DEF Tick, HeaderInv
  <2> QED BY <1>1, <2>1 DEF Tick, Decoded, HeaderInv
<1>2. CASE UNCHANGED vars
  BY <1>2 DEF vars, HeaderInv
<1> QED BY <1>1, <1>2 DEF Next

(* So the words of the event, as the host counts, are those sent.          *)
LEMMA EventWords ==
  ASSUME HeaderInv
  PROVE  /\ Header(data) = HeaderOf(source, clock)
         /\ data \in [1 .. 3 -> 0 .. Whole - 1]
         /\ Header(data)[2] = clock % Whole
         /\ Header(data)[3] % Half = clock \div Whole
<1>1. PICK t \in 0 .. Half * Whole - 1, s \in Source : t = clock /\ s = source
  BY DEF HeaderInv
<1>2. HeaderOf(s, t) \in [1 .. 3 -> 0 .. Whole - 1]
  BY HeaderType
<1>3. data = Stored(HeaderOf(s, t))
  BY <1>1 DEF HeaderInv
<1>4. Header(data) = HeaderOf(s, t) /\ data \in [1 .. 3 -> 0 .. Whole - 1]
  BY <1>2, <1>3, HeaderStored
<1>5. HeaderOf(s, t)[2] = t % Whole /\ HeaderOf(s, t)[3] % Half = t \div Whole
  BY HeaderTime
<1> QED BY <1>1, <1>4, <1>5

-----------------------------------------------------------------------------
(* The GEB timestamp of the event at hand.                                 *)
LEMMA GebOfEvent ==
  ASSUME HeaderInv
  PROVE  /\ clock % Whole < Whole \div 2 => geb = clock
         /\ clock % Whole >= Whole \div 2 => geb = Whole * (Whole - 1) + (clock % Whole)
<1>1. PICK t \in 0 .. Half * Whole - 1 : t = clock
  BY DEF HeaderInv
<1> DEFINE e == Header(data)
<1>2. e[2] = t % Whole /\ e[3] % Half = t \div Whole
  BY <1>1, EventWords
<1>3. geb = GebTimestamp(e)
  BY <1>1 DEF HeaderInv
<1> HIDE DEF e
<1> QED BY <1>1, <1>2, <1>3, GebIs

(* So GEB timestamps are right in the first half of each turn.             *)
LEMMA GebHalf == HeaderInv => GebTimeInHalf
<1> SUFFICES ASSUME HeaderInv PROVE GebTimeInHalf
  OBVIOUS
<1>1. PICK t \in 0 .. Half * Whole - 1 : t = clock
  BY DEF HeaderInv
<1>2. PICK w \in Nat, x \in Nat :
        w = Whole /\ w >= 4 /\ x = t % Whole /\ x \in 0 .. w - 1
  BY Sizes, TimeDigits
<1>3. /\ x < Whole \div 2 => geb = t
      /\ x >= Whole \div 2 => geb = Whole * (Whole - 1) + x
  BY <1>1, <1>2, GebOfEvent
<1>4. PICK v \in Int : v = w - 1
  OBVIOUS
<1>5. (w * v + x) \div w = v /\ (w * v + x) % w = x
  BY <1>2, DivModIs
<1> QED BY <1>1, <1>2, <1>3, <1>4, <1>5 DEF GebTimeInHalf

(* They fit into 64 bits.                                                  *)
LEMMA GebType == HeaderInv => geb \in 0 .. Whole * Whole - 1
<1> SUFFICES ASSUME HeaderInv PROVE geb \in 0 .. Whole * Whole - 1
  OBVIOUS
<1>1. PICK t \in 0 .. Half * Whole - 1 : t = clock
  BY DEF HeaderInv
<1>2. PICK w \in Nat, x \in Nat, h \in Nat :
        w = Whole /\ w >= 4 /\ x = t % Whole /\ x \in 0 .. w - 1 /\ h = Half /\ h < w
  BY Sizes, TimeDigits
<1>3. geb = t \/ geb = w * (w - 1) + x
  <2>1. /\ x < Whole \div 2 => geb = t
        /\ x >= Whole \div 2 => geb = Whole * (Whole - 1) + x
    BY <1>1, <1>2, GebOfEvent
  <2> QED BY <1>2, <2>1
<1>4. h * w <= w * w /\ t \in 0 .. h * w - 1
  <2>1. (w - h) * w >= 0
    BY <1>2
  <2>2. h * w <= w * w
    BY <2>1
  <2> QED BY <1>2, <2>2
<1>5. w * (w - 1) + x \in 0 .. w * w - 1
  BY <1>2, Digits
<1>6. geb \in 0 .. w * w - 1
  BY <1>3, <1>4, <1>5
<1> QED BY <1>2, <1>6

-----------------------------------------------------------------------------
(* The fields of a header.                                                 *)

(* The first word of a header: channel, board, length and what is above,   *)
(* one above the other.                                                    *)
LEMMA FirstWord ==
  ASSUME NEW ch \in 0 .. Channels - 1, NEW board \in 0 .. Boards - 1,
         NEW len \in 0 .. Lengths - 1, NEW g \in Nat, len + Lengths * g \in 0 .. Half - 1,
         NEW e, e[1] = ch + Channels * board + Half * (len + Lengths * g)
  PROVE  /\ ch_id(e) = ch /\ board_id(e) = board /\ packet_length_in_words(e) = len
         /\ e[1] \in 0 .. Whole - 1
<1>1. PICK c \in Nat, b \in Nat, h \in Nat, n \in Nat, up \in Nat :
        /\ c = Channels /\ c > 0 /\ b = Boards /\ b > 0 /\ h = Half /\ h > 0 /\ h = c * b
        /\ n = Lengths /\ n > 0 /\ Whole = h * h /\ up = len + Lengths * g /\ up <= h - 1
  BY Sizes
<1>2. PICK above \in Int : above = b * up + board
  BY <1>1
<1>3. PICK low \in 0 .. h - 1 : low = c * board + ch
  <2>1. c * board + ch \in 0 .. c * b - 1
    BY <1>1, Digits
  <2> QED BY <1>1, <2>1
<1>4. e[1] = c * above + ch /\ e[1] = h * up + low
  <2>1. h * up = c * (b * up)
    BY <1>1
  <2>2. c * above = c * (b * up) + c * board
    BY <1>1, <1>2
  <2>3. e[1] = ch + c * board + h * up
    BY <1>1
  <2> QED BY <1>1, <1>3, <2>1, <2>2, <2>3
<1>5. e[1] % c = ch /\ e[1] \div c = above
  <2>1. (c * above + ch) \div c = above /\ (c * above + ch) % c = ch
    BY <1>1, DivModIs
  <2> QED BY <1>4, <2>1, Zenon
<1>6. above % b = board
  BY <1>1, <1>2, DivModIs
<1>7. e[1] \div h = up
  BY <1>1, <1>3, <1>4, DivModIs
<1>8. up % n = len
  <2>1. (n * g + len) % n = len
    BY <1>1, DivModIs
  <2>2. up = n * g + len
    BY <1>1
  <2> QED BY <2>1, <2>2
<1>9. e[1] \in 0 .. h * h - 1
  <2>1. up \in 0 .. h - 1
    BY <1>1
  <2> QED BY <1>1, <1>3, <1>4, <2>1, Digits
<1> QED BY <1>1, <1>5, <1>6, <1>7, <1>8, <1>9 DEF ch_id, board_id, packet_length_in_words

(* A time is put together from its words.                                  *)
LEMMA TimeOfWords ==
  ASSUME NEW t \in 0 .. Half * Whole - 1
  PROVE  (t \div Whole) * Whole + (t % Whole) = t
<1>1. PICK u \in Int, x \in Int, w \in Int :
        u = t \div Whole /\ x = t % Whole /\ w = Whole /\ t = w * u + x
  <2>1. /\ t \div Whole \in Int /\ t % Whole \in Int
        /\ t = Whole * (t \div Whole) + (t % Whole)
    BY TimeDigits
  <2>2. Whole \in Int
    BY Sizes
  <2> QED BY <2>1, <2>2, Zenon
<1>2. u * w + x = t
  BY <1>1
<1> QED BY <1>1, <1>2

(* An event is filed under its own channel and board, and cut to its own   *)
(* length.                                                                 *)
LEMMA EventFields == HeaderInv => FieldsOfEvent
<1> SUFFICES ASSUME HeaderInv PROVE FieldsOfEvent
  OBVIOUS
<1>1. PICK t \in 0 .. Half * Whole - 1, s \in Source : t = clock /\ s = source
  BY DEF HeaderInv
<1> DEFINE e == Header(data)
<1>2. /\ s.ch \in 0 .. Channels - 1 /\ s.ch \in 0 .. 99 /\ s.board \in 0 .. Boards - 1
      /\ s.len \in 0 .. Lengths - 1
  BY SourceType
<1>3. PICK g \in Nat : g = s.spare \div Lengths
  <2>1. s.spare \in 0 .. Half - 1
    BY SourceType
  <2>2. s.spare \in 0 .. Lengths * Half - 1
    <3>1. (Lengths - 1) * Half >= 0
      BY Sizes
    <3> QED BY <2>1, <3>1, Sizes
  <2>3. s.spare \div Lengths \in 0 .. Half - 1
    BY <2>2, Sizes, UpperDigit
  <2> QED BY <2>3
<1>4. s.len + Lengths * g \in 0 .. Half - 1
  BY <1>3, HeaderType
<1>5. e[1] = s.ch + Channels * s.board + Half * (s.len + Lengths * g)
  BY <1>1, <1>3, EventWords DEF HeaderOf
<1>6. ch_id(e) = s.ch /\ board_id(e) = s.board /\ packet_length_in_words(e) = s.len
  BY <1>2, <1>4, <1>5, FirstWord
<1>7. timestamp_upper(e) * Whole + e[2] = t
  <2>1. e[2] = t % Whole /\ timestamp_upper(e) = t \div Whole
    BY <1>1, EventWords DEF timestamp_upper
  <2> QED BY <2>1, TimeOfWords
<1>8. ASSUME NEW board \in 0 .. Boards - 1, NEW ch \in 0 .. DigChannels - 1
      PROVE  FileIDOf(board_id(e), ch_id(e)) = FileIDOf(board, ch)
               <=> board = s.board /\ ch = s.ch
  <2>1. ch \in 0 .. 99 /\ board \in Nat
    BY EventHeaderAssumption
  <2>2. PICK b \in Nat, c \in 0 .. 99 : b = s.board /\ c = s.ch
    BY <1>2, Sizes
  <2>3. FileIDOf(b, c) = FileIDOf(board, ch) <=> board = b /\ ch = c
    BY <2>1, <2>2 DEF FileIDOf
  <2> QED BY <1>6, <2>2, <2>3
<1> QED BY <1>1, <1>6, <1>7, <1>8 DEF FieldsOfEvent

-----------------------------------------------------------------------------
(* The words made of a trigger.                                            *)

(* The words of trigger data, as the host counts.                          *)
TriggerAt(h, t) ==
  /\ h \in [1 .. TrigDataSize - 1 -> 0 .. Half - 1]
  /\ h[2] = t \div Whole /\ h[3] = (t \div Half) % Half /\ h[4] = t % Half
  /\ \A i \in 1 .. TrigDataSize - 1 : ntohl(trigger[i]) = h[i]
  /\ payload = TrigPayload(h)

LEMMA TriggerHalves ==
  ASSUME HeaderInv PROVE \E h : TriggerAt(h, clock)
<1>1. PICK t \in 0 .. Half * Whole - 1, v \in Payloads :
        t = clock /\ trigger = Stored(TriggerOf(t, v))
  BY DEF HeaderInv
<1>2. PICK n \in Nat : n = TrigDataSize - 1 /\ TriggerOf(t, v) \in [1 .. n -> 0 .. Half - 1]
  BY TriggerType
<1> DEFINE h == TriggerOf(t, v)
<1>3. h \in [1 .. n -> 0 .. Whole - 1]
  BY <1>2, Sizes
<1>4. Header(trigger) = h
  BY <1>1, <1>2, <1>3, HeaderStored
<1>5. \A i \in 1 .. n : ntohl(trigger[i]) = h[i]
  <2>1. trigger = [i \in 1 .. n |-> ntohl(h[i])]
    BY <1>1, <1>2 DEF Stored
  <2> QED BY <1>3, <2>1, ntohlIs
<1>6. h[2] = t \div Whole /\ h[3] = (t \div Half) % Half /\ h[4] = t % Half
  <2>1. 2 \in 1 .. n /\ 3 \in 1 .. n /\ 4 \in 1 .. n
    BY <1>2, EventHeaderAssumption
  <2> QED BY <1>2, <2>1 DEF TriggerOf
<1>7. payload = TrigPayload(h)
  BY <1>4 DEF HeaderInv
<1> QED BY <1>1, <1>2, <1>5, <1>6, <1>7 DEF TriggerAt

(* The two half-words of each word after the first.                        *)
HalvesOf(h, k) ==
  CASE k = 2 -> <<h[3], h[4]>>
    [] k = 3 -> <<HeaderTypeTrig, h[2]>>
    [] k = 4 -> <<h[1], h[5]>>
    [] OTHER -> <<h[2 * k - 4], h[2 * k - 3]>>

LEMMA PayloadHalves ==
  ASSUME NEW h \in [1 .. TrigDataSize - 1 -> 0 .. Half - 1],
         NEW k \in 2 .. TrigPacketLength - 1
  PROVE  /\ TrigPayload(h)[k] \in 0 .. Whole - 1
         /\ TrigPayload(h)[k] \div Half = HalvesOf(h, k)[1]
         /\ TrigPayload(h)[k] % Half = HalvesOf(h, k)[2]
<1>1. PICK a \in 0 .. Half - 1, b \in 0 .. Half - 1 :
        HalvesOf(h, k) = <<a, b>> /\ TrigPayload(h)[k] = Pack(a, b)
  <2>1. TrigDataSize = 2 * TrigPacketLength - 4 /\ TrigPacketLength \in Nat /\ TrigPacketLength >= 5
    BY EventHeaderAssumption
  <2>2. HeaderTypeTrig \in 0 .. Half - 1
    BY Sizes, DivMod DEF HeaderTypeTrig
  <2>3. CASE k = 2
    BY <2>1, <2>3 DEF HalvesOf, TrigPayload
  <2>4. CASE k = 3
    BY <2>1, <2>2, <2>4 DEF HalvesOf, TrigPayload
  <2>5. CASE k = 4
    BY <2>1, <2>5 DEF HalvesOf, TrigPayload
  <2>6. CASE k > 4
    <3>1. 2 * k - 4 \in 1 .. TrigDataSize - 1 /\ 2 * k - 3 \in 1 .. TrigDataSize - 1
      BY <2>1, <2>6
    <3>2. k # 2 /\ k # 3 /\ k # 4 /\ k # 1 /\ k \in 1 .. TrigPacketLength - 1
      BY <2>1, <2>6
    <3>3. HalvesOf(h, k) = <<h[2 * k - 4], h[2 * k - 3]>>
      BY <3>2 DEF HalvesOf
    <3>4. TrigPayload(h)[k] = Pack(h[2 * k - 4], h[2 * k - 3])
      BY <3>2 DEF TrigPayload, TrigPair
    <3> QED BY <3>1, <3>3, <3>4
  <2> QED BY <2>3, <2>4, <2>5, <2>6
<1> QED BY <1>1, PackIs

(* Each half-word of the data is in a word.                                *)
LEMMA HalfIsIn ==
  ASSUME NEW h, NEW i \in 1 .. TrigDataSize - 1
  PROVE  \E k \in 2 .. TrigPacketLength - 1 : h[i] \in {HalvesOf(h, k)[1], HalvesOf(h, k)[2]}
<1>1. TrigDataSize = 2 * TrigPacketLength - 4 /\ TrigPacketLength \in Nat /\ TrigPacketLength >= 5
  BY EventHeaderAssumption
<1>2. CASE i = 3 \/ i = 4
  <2>1. HalvesOf(h, 2) = <<h[3], h[4]>> /\ 2 \in 2 .. TrigPacketLength - 1
    BY <1>1 DEF HalvesOf
  <2> QED BY <1>2, <2>1
<1>3. CASE i = 2
  <2>1. HalvesOf(h, 3)[2] = h[2] /\ 3 \in 2 .. TrigPacketLength - 1
    BY <1>1 DEF HalvesOf
  <2> QED BY <1>3, <2>1
<1>4. CASE i = 1 \/ i = 5
  <2>1. HalvesOf(h, 4) = <<h[1], h[5]>> /\ 4 \in 2 .. TrigPacketLength - 1
    BY <1>1 DEF HalvesOf
  <2> QED BY <1>4, <2>1
<1>5. CASE i > 5
  <2>1. PICK k \in 5 .. TrigPacketLength - 1 : i = 2 * k - 4 \/ i = 2 * k - 3
    <3>1. PICK j \in Int, r \in 0 .. 1 : i = 2 * j + r
      <4>1. i \in Int /\ i = 2 * (i \div 2) + (i % 2) /\ i % 2 \in 0 .. 1 /\ i \div 2 \in Int
        BY <1>1
      <4> QED BY <4>1
    <3>2. j + 2 \in 5 .. TrigPacketLength - 1
      BY <1>1, <1>5, <3>1
    <3>3. i = 2 * (j + 2) - 4 \/ i = 2 * (j + 2) - 3
      BY <3>1
    <3> QED BY <3>2, <3>3
  <2>2. HalvesOf(h, k) = <<h[2 * k - 4], h[2 * k - 3]>>
    BY <2>1 DEF HalvesOf
  <2> QED BY <2>1, <2>2
<1> QED BY <1>2, <1>3, <1>4, <1>5

LEMMA TriggerWords ==
  ASSUME HeaderInv
  PROVE  /\ TriggerReadsInHostOrder
         /\ \A k \in 1 .. TrigPacketLength - 1 : payload[k] \in 0 .. Whole - 1
<1>0. PICK t \in 0 .. Half * Whole - 1 : t = clock
  BY DEF HeaderInv
<1>1. PICK h : t = clock /\ TriggerAt(h, t)
  BY <1>0, TriggerHalves
<1>2. /\ h \in [1 .. TrigDataSize - 1 -> 0 .. Half - 1] /\ payload = TrigPayload(h)
      /\ h[2] = t \div Whole /\ h[3] = (t \div Half) % Half /\ h[4] = t % Half
      /\ \A i \in 1 .. TrigDataSize - 1 : ntohl(trigger[i]) = h[i]
  BY <1>1 DEF TriggerAt
<1>3. /\ ch_id(payload) = 0 /\ board_id(payload) = BoardTrig
      /\ packet_length_in_words(payload) = TrigPacketLength /\ payload[1] \in 0 .. Whole - 1
  <2>1. payload[1] = TrigPacketLength * Half + BoardTrig * Channels
    <3>1. 1 \in 1 .. TrigPacketLength - 1
      BY EventHeaderAssumption
    <3> QED BY <1>2, <3>1 DEF TrigPayload
  <2>2. /\ 0 \in 0 .. Channels - 1 /\ BoardTrig \in 0 .. Boards - 1
        /\ TrigPacketLength \in 0 .. Lengths - 1
    BY Sizes, EventHeaderAssumption
  <2>3. TrigPacketLength + Lengths * 0 \in 0 .. Half - 1
    <3>1. Lengths <= Half
      <4>1. Half % Lengths = 0
        BY EventHeaderAssumption
      <4>2. CASE Lengths > Half
        <5>1. (Lengths * 0 + Half) % Lengths = Half
          BY <4>2, Sizes, DivModIs
        <5> QED BY <4>1, <5>1, Sizes
      <4> QED BY <4>2, Sizes
    <3> QED BY <2>2, <3>1, Sizes
  <2>4. payload[1] = 0 + Channels * BoardTrig + Half * (TrigPacketLength + Lengths * 0)
    BY <2>1, <2>2, Sizes
  <2> QED BY <2>2, <2>3, <2>4, FirstWord
<1>4. \A k \in 2 .. TrigPacketLength - 1 :
        /\ payload[k] \in 0 .. Whole - 1
        /\ payload[k] \div Half = HalvesOf(h, k)[1] /\ payload[k] % Half = HalvesOf(h, k)[2]
  BY <1>2, PayloadHalves
<1>5. timestamp_upper(payload) * Whole + payload[2] = t
  <2>1. 2 \in 2 .. TrigPacketLength - 1 /\ 3 \in 2 .. TrigPacketLength - 1
    BY EventHeaderAssumption
  <2>2. payload[2] = h[3] * Half + h[4]
    <3>1. 2 \in 1 .. TrigPacketLength - 1
      BY EventHeaderAssumption
    <3> QED BY <1>2, <3>1 DEF TrigPayload, Pack
  <2>3. payload[2] = t % Whole
    BY <1>2, <2>2, TimeDigits
  <2>4. payload[3] % Half = h[2]
    BY <1>4, <2>1 DEF HalvesOf
  <2>5. timestamp_upper(payload) = t \div Whole
    BY <1>2, <2>4 DEF timestamp_upper
  <2> QED BY <2>3, <2>5, TimeOfWords
<1>6. ASSUME NEW i \in 1 .. TrigDataSize - 1
      PROVE  \E k \in 2 .. TrigPacketLength - 1 :
               ntohl(trigger[i]) \in {payload[k] \div Half, payload[k] % Half}
  <2>1. PICK k \in 2 .. TrigPacketLength - 1 :
          h[i] \in {HalvesOf(h, k)[1], HalvesOf(h, k)[2]}
    BY HalfIsIn
  <2> QED BY <1>2, <1>4, <2>1
<1>7. \A k \in 1 .. TrigPacketLength - 1 : k = 1 \/ k \in 2 .. TrigPacketLength - 1
  BY EventHeaderAssumption
<1> QED BY <1>1, <1>3, <1>4, <1>5, <1>6, <1>7 DEF TriggerReadsInHostOrder

-----------------------------------------------------------------------------

(* In every reachable state, for bytes and fields of any width and either  *)
(* byte order: the GEB timestamp has 64 bits, and the words made of a      *)
(* trigger have 32.                                                        *)
THEOREM EventHeaderTypeCorrect == Spec => []TypeOK
<1>1. HeaderInv => TypeOK
  BY GebType, TriggerWords, EventWords DEF TypeOK, HeaderInv
<1> QED BY <1>1, HeaderInit, HeaderStep, PTL DEF Spec

(* The GEB header that WriteData puts before an event has the time of the  *)
(* event while the top bit of its lower word is clear; when it is set, the *)
(* lower word is right and the upper is all ones.                          *)
THEOREM EventHeaderGebTimeInHalf == Spec => []GebTimeInHalf
<1> QED BY GebHalf, HeaderInit, HeaderStep, PTL DEF Spec

(* What WriteData makes of a trigger is, read as the host stores it, an    *)
(* event of channel 0 of board 99 at the time of the trigger, whose length *)
(* counts its marker, with all of the trigger data in it.                  *)
THEOREM EventHeaderTriggerReadsInHostOrder == Spec => []TriggerReadsInHostOrder
<1>1. HeaderInv => TriggerReadsInHostOrder
  BY TriggerWords
<1> QED BY <1>1, HeaderInit, HeaderStep, PTL DEF Spec

(* WriteData files an event under a number that only its own board and     *)
(* channel have, and takes its own length, whatever the other bits are.    *)
THEOREM EventHeaderFieldsOfEvent == Spec => []FieldsOfEvent
<1> QED BY EventFields, HeaderInit, HeaderStep, PTL DEF Spec
=============================================================================
