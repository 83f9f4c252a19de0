------------------------------ MODULE RtcProofs ------------------------------
(***************************************************************************)
(* Theorems about Rtc, for any clock and any time it starts at: the digits *)
(* base10_string makes of a number are its numeral; what read_rtc makes of *)
(* registers; to_timestamp counts the seconds of the calendar; and a time  *)
(* that get_timestamp returns is one between its call and its return.      *)
(***************************************************************************)
EXTENDS Rtc, FoldLemmas

-----------------------------------------------------------------------------
(***************************************************************************)
(* The value of digits.                                                    *)
(***************************************************************************)
\* The fold of Value, as a function of sets of positions.
ValueEqn(q, s) ==
  q = [X \in SUBSET DOMAIN s |->
         IF X = {} THEN 0 ELSE q[X \ {Max(X)}] * 10 + s[Max(X)]]

\* Value goes through the digits from the first to the last.
LEMMA ValueTrace ==
  ASSUME NEW n \in Nat, NEW s \in [1..n -> Nat]
  PROVE  \E g : /\ Value(10, s) = g[1..n]
                /\ g[1..0] = 0
                /\ \A k \in 1..n : g[1..k] = g[1..k - 1] * 10 + s[k]
<1>1. PICK h : h = [p \in Nat \X Nat |-> p[1] * 10 + p[2]]
  OBVIOUS
<1>2. h \in [Nat \X Nat -> Nat] /\ \A x, y \in Nat : h[<<x, y>>] = x * 10 + y
  BY <1>1
<1>3. DOMAIN s = 1..n
  OBVIOUS
<1>4. PICK f \in [SUBSET (1..n) -> Nat] : FoldEqn(f, h, 0, n, s)
  <2>1. 0 \in Nat
    OBVIOUS
  <2> QED BY <1>2, <2>1, FoldExists
<1>5. ValueEqn(f, s)
  <2>1. \A X \in SUBSET (1..n) :
          (IF X = {} THEN 0 ELSE h[<<f[X \ {Max(X)}], s[Max(X)]>>])
            = (IF X = {} THEN 0 ELSE f[X \ {Max(X)}] * 10 + s[Max(X)])
    <3> SUFFICES ASSUME NEW X \in SUBSET (1..n), X # {}
                 PROVE  h[<<f[X \ {Max(X)}], s[Max(X)]>>] = f[X \ {Max(X)}] * 10 + s[Max(X)]
      OBVIOUS
    <3>1. Max(X) \in 1..n
      BY MaxIs
    <3>2. f[X \ {Max(X)}] \in Nat /\ s[Max(X)] \in Nat
      BY <3>1
    <3> QED BY <1>2, <3>2
  <2> QED BY <1>3, <1>4, <2>1 DEF FoldEqn, ValueEqn
<1>6. PICK g : g = CHOOSE q : ValueEqn(q, s)
  OBVIOUS
<1>7. ValueEqn(g, s)
  BY <1>5, <1>6, Zenon
<1>8. Value(10, s) = g[1..n]
  <2>1. g = CHOOSE q : q = [X \in SUBSET DOMAIN s |->
              IF X = {} THEN 0 ELSE q[X \ {Max(X)}] * 10 + s[Max(X)]]
    BY <1>6 DEF ValueEqn
  <2> QED BY <1>3, <2>1 DEF Value, FoldLeft, MapThenFoldSet
<1>9. g[1..0] = 0
  <2>1. 1..0 = {} /\ {} \in SUBSET (1..n)
    OBVIOUS
  <2> QED BY <1>3, <1>7, <2>1 DEF ValueEqn
<1>10. ASSUME NEW k \in 1..n PROVE g[1..k] = g[1..k - 1] * 10 + s[k]
  <2>1. 1..k \in SUBSET (1..n) /\ k \in 1..k
    OBVIOUS
  <2>2. Max(1..k) = k
    <3>1. \A y \in 1..k : k >= y
      OBVIOUS
    <3> QED BY <2>1, <3>1, MaxUnique
  <2>3. (1..k) \ {k} = 1..k - 1
    OBVIOUS
  <2> QED BY <1>3, <1>7, <2>1, <2>2, <2>3 DEF ValueEqn
<1> QED BY <1>8, <1>9, <1>10

\* One more digit shifts what was there.
LEMMA ValueAppend ==
  ASSUME NEW s \in Seq(Nat), NEW d \in Nat
  PROVE  /\ Value(10, <<>>) = 0
         /\ Value(10, Append(s, d)) = Value(10, s) * 10 + d
<1>1. Value(10, <<>>) = 0
  <2>1. <<>> \in [1..0 -> Nat] /\ 0 \in Nat
    OBVIOUS
  <2>2. PICK g : Value(10, <<>>) = g[1..0] /\ g[1..0] = 0
    BY <2>1, ValueTrace
  <2> QED BY <2>2
<1>2. PICK n \in Nat : n = Len(s) /\ s \in [1..n -> Nat]
  OBVIOUS
<1>3. PICK t : t = Append(s, d)
  OBVIOUS
<1>4. t \in [1..n + 1 -> Nat] /\ t[n + 1] = d /\ \A k \in 1..n : t[k] = s[k]
  <2>1. t \in Seq(Nat) /\ Len(t) = n + 1
    BY <1>2, <1>3
  <2>2. t \in [1..n + 1 -> Nat]
    BY <2>1
  <2>3. t[Len(s) + 1] = d /\ \A k \in 1..Len(s) : t[k] = s[k]
    BY <1>3
  <2> QED BY <1>2, <2>2, <2>3
<1>5. PICK g : /\ Value(10, s) = g[1..n]
               /\ g[1..0] = 0
               /\ \A k \in 1..n : g[1..k] = g[1..k - 1] * 10 + s[k]
  BY <1>2, ValueTrace
<1>6. PICK m \in Nat : m = n + 1
  OBVIOUS
<1>7. PICK h : /\ Value(10, t) = h[1..m]
               /\ h[1..0] = 0
               /\ \A k \in 1..m : h[1..k] = h[1..k - 1] * 10 + t[k]
  BY <1>4, <1>6, ValueTrace
<1> DEFINE S == {k \in Nat : k <= n => h[1..k] = g[1..k]}
<1>8. 0 \in S
  BY <1>5, <1>7
<1>9. ASSUME NEW k \in Nat, k \in S PROVE k + 1 \in S
  <2> SUFFICES ASSUME k + 1 <= n PROVE h[1..k + 1] = g[1..k + 1]
    OBVIOUS
  <2>1. k + 1 \in 1..n /\ k + 1 \in 1..m /\ (k + 1) - 1 = k /\ k <= n
    BY <1>6
  <2>2. h[1..k] = g[1..k]
    BY <1>9, <2>1
  <2>3. h[1..k + 1] = h[1..k] * 10 + t[k + 1]
    BY <1>7, <2>1
  <2>4. g[1..k + 1] = g[1..k] * 10 + s[k + 1]
    BY <1>5, <2>1
  <2> QED BY <1>4, <2>1, <2>2, <2>3, <2>4
<1>10. n \in S
  <2> HIDE DEF S
  <2> QED BY <1>8, <1>9, NatSet
<1>11. h[1..n] = g[1..n]
  <2>1. n <= n
    OBVIOUS
  <2> QED BY <1>10, <2>1
<1>12. h[1..m] = h[1..n] * 10 + t[m]
  <2>1. m \in 1..m /\ m - 1 = n
    BY <1>6
  <2> QED BY <1>7, <2>1
<1> QED BY <1>1, <1>3, <1>4, <1>5, <1>6, <1>7, <1>11, <1>12

-----------------------------------------------------------------------------
(***************************************************************************)
(* The digits of a number.                                                 *)
(***************************************************************************)
\* The recursion of Digits, for the numbers of D.
DigitsEqn(f, D) ==
  f = [n \in D |-> IF n = 0 THEN <<>> ELSE Append(f[n \div 10], n % 10)]

\* A number less its last digit is a lesser one.
LEMMA Shorter ==
  ASSUME NEW n \in Nat
  PROVE  /\ n \div 10 \in Nat /\ n % 10 \in Nat /\ n = 10 * (n \div 10) + (n % 10)
         /\ n # 0 => n \div 10 \in 0..n - 1
<1>1. n \div 10 \in Int /\ n % 10 \in 0..9
  OBVIOUS
<1>2. n = 10 * (n \div 10) + (n % 10)
  OBVIOUS
<1>3. PICK y, d : y = n \div 10 /\ d = n % 10
  OBVIOUS
<1>4. y \in Int /\ d \in 0..9 /\ n = 10 * y + d
  BY <1>1, <1>2, <1>3
<1>5. y >= 0 /\ d \in Nat /\ (n # 0 => y <= n - 1)
  BY <1>4
<1>6. y \in Nat /\ d \in Nat /\ (n # 0 => y \in 0..n - 1)
  BY <1>4, <1>5
<1> QED BY <1>2, <1>3, <1>6

\* Two functions with that recursion agree where both are defined.
LEMMA DigitsUnique ==
  ASSUME NEW a \in Nat, NEW b \in Nat, NEW f, NEW h,
         DigitsEqn(f, 0..a), DigitsEqn(h, 0..b), NEW n \in Nat, n <= a, n <= b
  PROVE  f[n] = h[n]
<1> DEFINE S == {k \in Nat : \A x \in 0..k : x <= a /\ x <= b => f[x] = h[x]}
<1>1. 0 \in S
  <2>1. f[0] = <<>> /\ h[0] = <<>>
    BY DEF DigitsEqn
  <2> QED BY <2>1
<1>2. ASSUME NEW k \in Nat, k \in S PROVE k + 1 \in S
  <2> SUFFICES ASSUME NEW x \in 0..k + 1, x <= a, x <= b, x # 0 PROVE f[x] = h[x]
    BY <1>1
  <2>1. x \div 10 \in 0..x - 1 /\ x \in Nat
    BY Shorter
  <2>2. PICK y : y = x \div 10
    OBVIOUS
  <2>3. f[x \div 10] = h[x \div 10]
    <3>1. y \in 0..k /\ y <= a /\ y <= b
      BY <2>1, <2>2
    <3>2. f[y] = h[y]
      BY <1>2, <3>1
    <3> QED BY <2>2, <3>2
  <2>4. f[x] = Append(f[x \div 10], x % 10) /\ h[x] = Append(h[x \div 10], x % 10)
    <3>1. x \in 0..a /\ x \in 0..b
      BY <2>1
    <3> QED BY <3>1 DEF DigitsEqn
  <2> QED BY <2>3, <2>4
<1>3. n \in S
  <2> HIDE DEF S
  <2> QED BY <1>1, <1>2, NatSet
<1> QED BY <1>3

\* There is such a function for the numbers up to any one.
LEMMA DigitsUpTo ==
  ASSUME NEW n \in Nat
  PROVE  \E f : DigitsEqn(f, 0..n)
<1> DEFINE S == {k \in Nat : \E f : DigitsEqn(f, 0..k)}
<1>1. 0 \in S
  <2> DEFINE f == [x \in 0..0 |-> <<>>]
  <2>1. DigitsEqn(f, 0..0)
    BY DEF DigitsEqn
  <2> QED BY <2>1
<1>2. ASSUME NEW k \in Nat, k \in S PROVE k + 1 \in S
  <2>1. PICK f : DigitsEqn(f, 0..k)
    BY <1>2
  <2> DEFINE g == [x \in 0..k + 1 |-> IF x = 0 THEN <<>> ELSE Append(f[x \div 10], x % 10)]
  <2>2. \A x \in 0..k + 1 : x # 0 => g[x \div 10] = f[x \div 10]
    <3> SUFFICES ASSUME NEW x \in 0..k + 1, x # 0 PROVE g[x \div 10] = f[x \div 10]
      OBVIOUS
    <3>1. PICK y : y = x \div 10
      OBVIOUS
    <3>2. y \in 0..k /\ y \in 0..k + 1
      BY <3>1, Shorter
    <3>3. f[y] = IF y = 0 THEN <<>> ELSE Append(f[y \div 10], y % 10)
      BY <2>1, <3>2 DEF DigitsEqn
    <3> QED BY <3>1, <3>2, <3>3
  <2>3. DigitsEqn(g, 0..k + 1)
    <3>1. \A x \in 0..k + 1 :
            (IF x = 0 THEN <<>> ELSE Append(f[x \div 10], x % 10))
              = (IF x = 0 THEN <<>> ELSE Append(g[x \div 10], x % 10))
      BY <2>2
    <3> QED BY <3>1 DEF DigitsEqn
  <2> HIDE DEF g
  <2> QED BY <2>3
<1> HIDE DEF S
<1>3. n \in S
  BY <1>1, <1>2, NatSet
<1> QED BY <1>3 DEF S

\* So there is one for all numbers, and Digits is it.
LEMMA DigitsFunction ==
  \E f : DigitsEqn(f, Nat) /\ \A n \in Nat : Digits(10, n) = f[n]
<1> DEFINE F(n) == CHOOSE f : DigitsEqn(f, 0..n)
           g == [n \in Nat |-> F(n)[n]]
<1>1. ASSUME NEW n \in Nat PROVE DigitsEqn(F(n), 0..n)
  BY DigitsUpTo, Zenon
<1> HIDE DEF F
<1>2. ASSUME NEW n \in Nat
      PROVE  F(n)[n] = IF n = 0 THEN <<>> ELSE Append(g[n \div 10], n % 10)
  <2>1. PICK f : f = F(n)
    OBVIOUS
  <2>2. DigitsEqn(f, 0..n)
    BY <1>1, <2>1
  <2>3. CASE n = 0
    BY <2>1, <2>2, <2>3 DEF DigitsEqn
  <2>4. CASE n # 0
    <3>1. PICK y \in Nat : y = n \div 10 /\ y \in 0..n - 1
      BY <2>4, Shorter
    <3>2. f[n] = Append(f[n \div 10], n % 10)
      <4>1. n \in 0..n
        OBVIOUS
      <4> QED BY <2>2, <2>4, <4>1 DEF DigitsEqn
    <3>3. f[y] = F(y)[y]
      <4>1. DigitsEqn(F(y), 0..y) /\ y <= n /\ y <= y
        BY <1>1, <3>1
      <4> QED BY <2>2, <4>1, DigitsUnique
    <3>4. g[n \div 10] = F(y)[y]
      BY <3>1
    <3> QED BY <2>1, <2>4, <3>1, <3>2, <3>3, <3>4
  <2> QED BY <2>3, <2>4
<1>3. DigitsEqn(g, Nat)
  BY <1>2 DEF DigitsEqn
<1> HIDE DEF g
<1>4. PICK f : f = CHOOSE q : DigitsEqn(q, Nat)
  OBVIOUS
<1>5. DigitsEqn(f, Nat)
  BY <1>3, <1>4, Zenon
<1>6. \A n \in Nat : Digits(10, n) = f[n]
  <2>1. f = CHOOSE q : q = [n \in Nat |-> IF n = 0 THEN <<>> ELSE Append(q[n \div 10], n % 10)]
    BY <1>4 DEF DigitsEqn
  <2> QED BY <2>1, Zenon DEF Digits
<1> QED BY <1>5, <1>6

\* The digits of a number are its value, and the first is 0 for no number.
Numeral(s, n) ==
  /\ s \in Seq(Nat) /\ Value(10, s) = n
  /\ n # 0 => Len(s) > 0 /\ s[1] # 0
  /\ n = 0 => s = <<>>

LEMMA DigitsAreNumeral == \A n \in Nat : Numeral(Digits(10, n), n)
<1>1. PICK f : DigitsEqn(f, Nat) /\ \A n \in Nat : Digits(10, n) = f[n]
  BY DigitsFunction
<1> DEFINE S == {k \in Nat : \A x \in 0..k : Numeral(f[x], x)}
<1>2. Numeral(f[0], 0)
  <2>1. f[0] = <<>>
    BY <1>1 DEF DigitsEqn
  <2>2. <<>> \in Seq(Nat) /\ 0 \in Nat
    OBVIOUS
  <2>3. Value(10, <<>>) = 0
    BY <2>2, ValueAppend
  <2> QED BY <2>1, <2>2, <2>3 DEF Numeral
<1>3. ASSUME NEW k \in Nat, k \in S PROVE k + 1 \in S
  <2> SUFFICES ASSUME NEW x \in 0..k + 1, x # 0 PROVE Numeral(f[x], x)
    BY <1>2
  <2>1. PICK y, d : y = x \div 10 /\ d = x % 10
    OBVIOUS
  <2>2. y \in Nat /\ d \in Nat /\ x = 10 * y + d /\ y \in 0..x - 1 /\ x \in Nat
    BY <2>1, Shorter
  <2>3. PICK s : s = f[y]
    OBVIOUS
  <2>4. s \in Seq(Nat) /\ Value(10, s) = y /\ (y # 0 => Len(s) > 0 /\ s[1] # 0)
        /\ (y = 0 => s = <<>>)
    <3>1. y \in 0..k
      BY <2>2
    <3> QED BY <1>3, <2>3, <3>1 DEF Numeral
  <2>5. f[x] = Append(s, d)
    BY <1>1, <2>1, <2>2, <2>3 DEF DigitsEqn
  <2>6. Value(10, f[x]) = x
    <3>1. Value(10, Append(s, d)) = Value(10, s) * 10 + d
      BY <2>2, <2>4, ValueAppend
    <3> QED BY <2>2, <2>4, <2>5, <3>1
  <2>7. f[x] \in Seq(Nat) /\ Len(f[x]) > 0
    BY <2>2, <2>4, <2>5
  <2>8. f[x][1] # 0
    <3>1. CASE y = 0
      <4>1. f[x] = <<d>> /\ d = x
        BY <2>2, <2>4, <2>5, <3>1
      <4> QED BY <4>1
    <3>2. CASE y # 0
      <4>1. f[x][1] = s[1]
        BY <2>2, <2>4, <2>5, <3>2
      <4> QED BY <2>4, <3>2, <4>1
    <3> QED BY <3>1, <3>2
  <2> QED BY <2>6, <2>7, <2>8 DEF Numeral
<1> SUFFICES ASSUME NEW n \in Nat PROVE Numeral(f[n], n)
  BY <1>1
<1>4. n \in S
  <2>1. 0 \in S
    BY <1>2
  <2> HIDE DEF S
  <2> QED BY <1>3, <2>1, NatSet
<1> QED BY <1>4

\* base10_string: the digits without a leading 0 that have the value of the
\* number, 0 included.
THEOREM DecimalReadsBack ==
  \A n \in Nat : IsNumeral(base10_string(n)) /\ Value(10, base10_string(n)) = n
<1> SUFFICES ASSUME NEW n \in Nat
             PROVE  IsNumeral(base10_string(n)) /\ Value(10, base10_string(n)) = n
  OBVIOUS
<1>1. PICK s : s = Digits(10, n)
  OBVIOUS
<1>2. Numeral(s, n)
  BY <1>1, DigitsAreNumeral
<1>3. base10_string(n) = IF s = <<>> THEN <<0>> ELSE s
  BY <1>1 DEF base10_string
<1>4. CASE n # 0
  BY <1>2, <1>3, <1>4 DEF Numeral, IsNumeral
<1>5. CASE n = 0
  <2>1. base10_string(n) = Append(<<>>, 0)
    BY <1>2, <1>3, <1>5 DEF Numeral
  <2>2. <<>> \in Seq(Nat) /\ 0 \in Nat
    OBVIOUS
  <2>3. Value(10, Append(<<>>, 0)) = 0
    <3>1. Value(10, <<>>) = 0 /\ Value(10, Append(<<>>, 0)) = Value(10, <<>>) * 10 + 0
      BY <2>2, ValueAppend
    <3> QED BY <3>1
  <2>4. IsNumeral(Append(<<>>, 0))
    <3>1. Append(<<>>, 0) # <<>> /\ Len(Append(<<>>, 0)) = 1
      OBVIOUS
    <3> QED BY <3>1 DEF IsNumeral
  <2> QED BY <1>5, <2>1, <2>3, <2>4
<1> QED BY <1>4, <1>5

-----------------------------------------------------------------------------
(***************************************************************************)
(* What read_rtc makes of the registers.                                   *)
(***************************************************************************)
\* The clock's time and registers are numbers, and so is what was read.
RtcInv ==
  /\ now \in [1..6 -> Nat]
  /\ reg \in [Reg -> Nat]
  /\ left \subseteq Reg
  /\ got \in Seq(Nat) /\ Len(got) <= 7
  /\ pc \in {"idle", "wait", "read"}
  /\ pc = "idle" => got = <<>> \/ Len(got) = 7

\* Quotients and remainders of numbers are numbers.
LEMMA PartsOfNat ==
  ASSUME NEW v \in Nat
  PROVE  /\ v \div 10 \in Nat /\ v % 10 \in Nat
         /\ v \div 16 \in Nat /\ v % 16 \in Nat
         /\ v \div 128 \in Nat /\ v % 128 \in Nat /\ (v % 128) \div 16 \in Nat
         /\ v \div 100 \in Nat /\ v % 100 \in Nat
         /\ v % 12 \in Nat /\ v % 24 \in Nat
<1>1. v \div 10 \in Nat /\ v % 10 \in Nat /\ v \div 16 \in Nat /\ v % 16 \in Nat
  OBVIOUS
<1>2. v \div 128 \in Nat /\ v % 128 \in Nat /\ v \div 100 \in Nat /\ v % 100 \in Nat
  OBVIOUS
<1>3. v % 12 \in Nat /\ v % 24 \in Nat
  OBVIOUS
<1>4. PICK m \in Nat : m = v % 128
  BY <1>2
<1>5. m \div 16 \in Nat
  BY <1>4
<1> QED BY <1>1, <1>2, <1>3, <1>4, <1>5

\* The clock's codes of numbers are numbers.
LEMMA RegistersIn ==
  ASSUME NEW t \in [1..6 -> Nat]
  PROVE  Registers(t) \in [Reg -> Nat]
<1>1. \A v \in Nat : Code(v) \in Nat
  <2> SUFFICES ASSUME NEW v \in Nat PROVE Code(v) \in Nat
    OBVIOUS
  <2>1. PICK y, d \in Nat : y = v \div 10 /\ d = v % 10
    BY PartsOfNat
  <2>2. y * 16 + d \in Nat
    OBVIOUS
  <2> QED BY <2>1, <2>2 DEF Code, ToBcd
<1>2. HourCode(t[3]) \in Nat
  <2>1. PICK h \in Nat : h = t[3]
    OBVIOUS
  <2>2. PICK r \in Nat : r = h % 12
    BY PartsOfNat
  <2>3. PICK x \in Nat : x = IF r = 0 THEN 12 ELSE r
    OBVIOUS
  <2>4. PICK c, e \in Nat : c = Code(x) /\ e = Code(h)
    BY <1>1
  <2>5. c + 128 \in Nat /\ c + 0 \in Nat
    OBVIOUS
  <2> QED BY <2>1, <2>2, <2>3, <2>4, <2>5 DEF HourCode
<1>3. PICK y \in Nat : y = t[6]
  OBVIOUS
<1>4. y % 100 \in Nat /\ y \div 100 \in Nat
  BY PartsOfNat
<1>5. /\ Code(t[1]) \in Nat /\ Code(t[2]) \in Nat /\ Code(t[4]) \in Nat /\ Code(t[5]) \in Nat
      /\ Code(t[6] % 100) \in Nat /\ Code(t[6] \div 100) \in Nat
  BY <1>1, <1>3, <1>4
<1> QED BY <1>2, <1>5 DEF Registers, Reg

\* The parts of a time that may go up without carrying to the next one.
Top(t) == <<59, 59, 23, MonthDays(t[6], t[5]), 12>>
Bottom == <<0, 0, 0, 1, 1>>

\* Part k of the time t is the first that does not carry.
Stops(t, k) ==
  /\ \A j \in 1..k - 1 : t[j] = Top(t)[j]
  /\ k < 6 => t[k] # Top(t)[k]

\* A second later the parts before that one are the first of their kind, that
\* one is one more, and the others stay.
LEMMA LaterAt ==
  ASSUME NEW t \in [1..6 -> Nat], NEW k \in 1..6, Stops(t, k), NEW j \in 1..6
  PROVE  Later(t)[j] = IF j < k THEN Bottom[j] ELSE IF j = k THEN t[j] + 1 ELSE t[j]
<1> DEFINE stop == CHOOSE x \in 1..6 : Stops(t, x)
<1>1. Later(t) = [x \in 1..6 |-> CASE x < stop -> Bottom[x]
                                   [] x = stop -> t[x] + 1
                                   [] OTHER -> t[x]]
  BY Zenon DEF Later, Stops, Top, Bottom
<1>2. PICK s \in 1..6 : s = stop /\ Stops(t, s)
  BY Zenon
<1> HIDE DEF stop
<1>3. s = k
  <2>1. CASE s < k
    <3>1. s \in 1..k - 1 /\ s < 6
      BY <2>1
    <3>2. t[s] = Top(t)[s] /\ t[s] # Top(t)[s]
      BY <1>2, <3>1 DEF Stops
    <3> QED BY <3>2
  <2>2. CASE k < s
    <3>1. k \in 1..s - 1 /\ k < 6
      BY <2>2
    <3>2. t[k] = Top(t)[k] /\ t[k] # Top(t)[k]
      BY <1>2, <3>1 DEF Stops
    <3> QED BY <3>2
  <2> QED BY <2>1, <2>2
<1>4. Later(t)[j] = CASE j < k -> Bottom[j] [] j = k -> t[j] + 1 [] OTHER -> t[j]
  BY <1>1, <1>2, <1>3
<1> QED BY <1>4

\* Some part does not carry.
LEMMA SomeStop ==
  ASSUME NEW t \in [1..6 -> Nat]
  PROVE  \E k \in 1..6 : Stops(t, k)
<1>1. PICK X : X = {j \in 1..5 : t[j] # Top(t)[j]} \cup {6}
  OBVIOUS
<1>2. PICK m : m = Min(X)
  OBVIOUS
<1>3. m \in X /\ \A j \in X : m <= j
  BY <1>1, <1>2, MinIs
<1>4. m \in 1..6
  BY <1>1, <1>3
<1>5. \A j \in 1..m - 1 : t[j] = Top(t)[j]
  <2> SUFFICES ASSUME NEW j \in 1..m - 1, t[j] # Top(t)[j] PROVE FALSE
    OBVIOUS
  <2>1. j \in 1..5 /\ ~ (m <= j)
    BY <1>4
  <2> QED BY <1>1, <1>3, <2>1
<1>6. m < 6 => t[m] # Top(t)[m]
  BY <1>1, <1>3, <1>4
<1> QED BY <1>4, <1>5, <1>6 DEF Stops

\* A second later the parts of the time are numbers.
LEMMA LaterIn ==
  ASSUME NEW t \in [1..6 -> Nat]
  PROVE  Later(t) \in [1..6 -> Nat]
<1>1. PICK k \in 1..6 : Stops(t, k)
  BY SomeStop
<1>2. \A j \in 1..6 : Later(t)[j] = IF j < k THEN Bottom[j] ELSE IF j = k THEN t[j] + 1 ELSE t[j]
  BY <1>1, LaterAt
<1>3. \A j \in 1..6 : (j < k => Bottom[j] \in Nat) /\ t[j] \in Nat /\ t[j] + 1 \in Nat
  <2>1. \A j \in 1..5 : Bottom[j] \in Nat
    BY DEF Bottom
  <2>2. \A j \in 1..6 : j < k => j \in 1..5
    OBVIOUS
  <2> QED BY <2>1, <2>2
<1>4. \A j \in 1..6 : Later(t)[j] \in Nat
  BY <1>2, <1>3
<1>5. Later(t) = [j \in 1..6 |-> Later(t)[j]]
  BY DEF Later
<1> QED BY <1>4, <1>5

\* Conversion from BCD and to 24 hours makes numbers of numbers.
LEMMA FromIn ==
  ASSUME NEW v \in Nat
  PROVE  FromBcd(v) \in Nat /\ HourFromBcd(v) \in Nat /\ To24(v) \in Nat
<1>1. PICK a, b, c, d, e \in Nat :
        /\ a = v % 16 /\ b = v \div 16 /\ c = (v % 128) \div 16
        /\ d = v \div 128 /\ e = v % 128
  BY PartsOfNat
<1>2. a + b * 10 \in Nat /\ a + c * 10 + d * 128 \in Nat
  OBVIOUS
<1>3. (e + 12) % 24 \in Nat
  <2>1. e + 12 \in Nat
    OBVIOUS
  <2> QED BY <2>1, PartsOfNat
<1>4. FromBcd(v) \in Nat /\ HourFromBcd(v) \in Nat
  BY <1>1, <1>2 DEF FromBcd, HourFromBcd
<1>5. To24(v) \in Nat
  BY <1>1, <1>3 DEF To24
<1> QED BY <1>4, <1>5

\* A sequence of seven numbers is a function of the registers.
LEMMA AllRead ==
  ASSUME NEW r
  PROVE  r \in Seq(Nat) /\ Len(r) = 7 => r \in [Reg -> Nat]
<1>1. r \in Seq(Nat) => r \in [1..Len(r) -> Nat]
  OBVIOUS
<1>2. 1..7 = Reg
  BY DEF Reg
<1> QED BY <1>1, <1>2, Zenon

\* read_rtc makes numbers of numbers.
LEMMA TimeIn ==
  ASSUME NEW r \in [Reg -> Nat], NEW k \in 1..6
  PROVE  TimeOf(r)[k] \in Nat
<1> DEFINE b == IF 4 \in mode THEN r
                ELSE [j \in Reg |-> IF j = 3 THEN HourFromBcd(r[j]) ELSE FromBcd(r[j])]
<1>1. \A j \in Reg : r[j] \in Nat
  OBVIOUS
<1>2. \A j \in Reg : b[j] \in Nat
  BY <1>1, FromIn
<1>3. TimeOf(r) = <<b[1], b[2], To24(b[3]), b[4], b[5], b[6] + b[7] * 100>>
  BY Zenon DEF TimeOf
<1> HIDE DEF b
<1>4. /\ b[1] \in Nat /\ b[2] \in Nat /\ b[3] \in Nat /\ b[4] \in Nat
      /\ b[5] \in Nat /\ b[6] \in Nat /\ b[7] \in Nat
  BY <1>2 DEF Reg
<1>5. PICK h, y \in Nat : h = To24(b[3]) /\ y = b[6] + b[7] * 100
  <2>1. To24(b[3]) \in Nat
    BY <1>4, FromIn
  <2>2. b[6] + b[7] * 100 \in Nat
    BY <1>4
  <2> QED BY <2>1, <2>2
<1>6. PICK s, m, d, n \in Nat : s = b[1] /\ m = b[2] /\ d = b[4] /\ n = b[5]
  BY <1>4
<1>7. TimeOf(r) = <<s, m, h, d, n, y>>
  BY <1>3, <1>5, <1>6
<1>8. \A j \in 1..6 : <<s, m, h, d, n, y>>[j] \in Nat
  OBVIOUS
<1> QED BY <1>7, <1>8

\* A number of two digits survives its code, alone and below the PM bit.
LEMMA BcdReadsBack ==
  ASSUME NEW v \in 0..99
  PROVE  /\ FromBcd(ToBcd(v)) = v
         /\ v <= 12 => HourFromBcd(ToBcd(v)) = v /\ HourFromBcd(ToBcd(v) + 128) = v + 128
         /\ v <= 23 => HourFromBcd(ToBcd(v)) = v
<1>1. PICK a, b : a = v \div 10 /\ b = v % 10
  OBVIOUS
<1>2. a \in 0..9 /\ b \in 0..9 /\ v = 10 * a + b
  BY <1>1
<1>3. PICK c \in Nat : c = a * 16 + b /\ c = ToBcd(v)
  BY <1>1, <1>2 DEF ToBcd
<1>4. c % 16 = b /\ c \div 16 = a
  BY <1>2, <1>3
<1>5. FromBcd(c) = v
  BY <1>2, <1>4 DEF FromBcd
<1>6. v <= 23 => HourFromBcd(c) = v
  <2> SUFFICES ASSUME v <= 23 PROVE HourFromBcd(c) = v
    OBVIOUS
  <2>1. a <= 2
    BY <1>2
  <2>2. c % 128 = c /\ c \div 128 = 0
    BY <1>2, <1>3, <2>1
  <2> QED BY <1>2, <1>4, <2>2 DEF HourFromBcd
<1>7. v <= 12 => HourFromBcd(c + 128) = v + 128
  <2> SUFFICES ASSUME v <= 12 PROVE HourFromBcd(c + 128) = v + 128
    OBVIOUS
  <2>1. a <= 1 /\ c < 128
    BY <1>2, <1>3
  <2>2. (c + 128) % 128 = c /\ (c + 128) \div 128 = 1
    BY <2>1
  <2>3. (c + 128) % 16 = b
    BY <1>2, <1>3, <2>1
  <2> QED BY <1>2, <1>4, <2>2, <2>3 DEF HourFromBcd
<1>8. v <= 12 => v <= 23
  OBVIOUS
<1> QED BY <1>3, <1>5, <1>6, <1>7, <1>8

\* The times a clock shows, up to the year 9999.
Shown ==
  {t \in [1..6 -> Nat] : /\ t[1] <= 59 /\ t[2] <= 59 /\ t[3] <= 23
                         /\ t[4] <= 31 /\ t[5] <= 12 /\ t[6] <= 9999}

\* The hour that read_rtc makes of one: 12 o'clock of a clock that counts to 12
\* is taken for the other.
HourRead(h) == IF 2 \in mode \/ h % 12 # 0 THEN h ELSE 12 - h

\* The clock's code and read_rtc's conversion together.
LEMMA HourReadsBack ==
  ASSUME NEW h \in 0..23
  PROVE  To24(IF 4 \in mode THEN HourCode(h) ELSE HourFromBcd(HourCode(h))) = HourRead(h)
<1>1. CASE 2 \in mode
  <2>1. HourFromBcd(ToBcd(h)) = h
    BY BcdReadsBack
  <2> QED BY <1>1, <2>1 DEF HourCode, Code, To24, HourRead
<1>2. CASE 2 \notin mode /\ h % 12 # 0
  <2>1. PICK r : r = h % 12
    OBVIOUS
  <2>2. r \in 1..11 /\ r # 0 /\ h = IF h >= 12 THEN r + 12 ELSE r
    BY <1>2, <2>1
  <2>3. HourFromBcd(ToBcd(r)) = r /\ HourFromBcd(ToBcd(r) + 128) = r + 128
    BY <2>2, BcdReadsBack
  <2>4. HourCode(h) = Code(r) + (IF h >= 12 THEN 128 ELSE 0)
    BY <1>2, <2>1, <2>2 DEF HourCode
  <2>5. PICK x : x = IF 4 \in mode THEN HourCode(h) ELSE HourFromBcd(HourCode(h))
    OBVIOUS
  <2>6. x = IF h >= 12 THEN r + 128 ELSE r
    <3>1. ToBcd(r) \in Int
      BY <2>2 DEF ToBcd
    <3> QED BY <2>2, <2>3, <2>4, <2>5, <3>1 DEF Code
  <2>7. To24(x) = h
    <3>1. CASE h >= 12
      <4>1. x = r + 128 /\ x >= 128 /\ x % 128 = r
        BY <2>2, <2>6, <3>1
      <4>2. (r + 12) % 24 = r + 12
        BY <2>2
      <4> QED BY <1>2, <2>2, <3>1, <4>1, <4>2 DEF To24
    <3>2. CASE ~ (h >= 12)
      BY <1>2, <2>2, <2>6, <3>2 DEF To24
    <3> QED BY <3>1, <3>2
  <2> QED BY <1>2, <2>5, <2>7 DEF HourRead
<1>3. CASE 2 \notin mode /\ h % 12 = 0
  <2>1. h = 0 \/ h = 12
    BY <1>3
  <2>2. HourFromBcd(ToBcd(12)) = 12 /\ HourFromBcd(ToBcd(12) + 128) = 12 + 128
    <3>1. 12 \in 0..99 /\ 12 <= 12
      OBVIOUS
    <3> QED BY <3>1, BcdReadsBack
  <2>3. ToBcd(12) \in Int
    BY DEF ToBcd
  <2>4. PICK x : x = IF 4 \in mode THEN HourCode(h) ELSE HourFromBcd(HourCode(h))
    OBVIOUS
  <2>5. CASE h = 0
    <3>1. x = 12
      BY <1>3, <2>2, <2>3, <2>4, <2>5 DEF HourCode, Code
    <3> QED BY <1>3, <2>4, <2>5, <3>1 DEF To24, HourRead
  <2>6. CASE h = 12
    <3>1. x = 140
      BY <1>3, <2>2, <2>3, <2>4, <2>6 DEF HourCode, Code
    <3> QED BY <1>3, <2>4, <2>6, <3>1 DEF To24, HourRead
  <2> QED BY <2>1, <2>5, <2>6
<1> QED BY <1>1, <1>2, <1>3

\* read_rtc and the clock: what it makes of the registers of one time is that
\* time, in BCD or binary, but for 12 o'clock of a clock that counts to 12: 12
\* AM is read as 12 o'clock and 12 PM as 0 o'clock.
THEOREM RegistersReadBack ==
  \A t \in Shown : TimeOf(Registers(t)) = [t EXCEPT ![3] = HourRead(t[3])]
<1> SUFFICES ASSUME NEW t \in Shown
             PROVE  TimeOf(Registers(t)) = [t EXCEPT ![3] = HourRead(t[3])]
  OBVIOUS
<1>1a. PICK s, m, h : s = t[1] /\ m = t[2] /\ h = t[3]
  OBVIOUS
<1>1b. PICK d, n, y : d = t[4] /\ n = t[5] /\ y = t[6]
  OBVIOUS
<1>1. /\ s = t[1] /\ m = t[2] /\ h = t[3] /\ d = t[4] /\ n = t[5] /\ y = t[6]
      /\ s <= 59 /\ m <= 59 /\ h <= 23 /\ d <= 31 /\ n <= 12 /\ y <= 9999
      /\ s \in Nat /\ m \in Nat /\ h \in Nat /\ d \in Nat /\ n \in Nat /\ y \in Nat
  BY <1>1a, <1>1b DEF Shown
<1>2. t = <<s, m, h, d, n, y>>
  BY <1>1 DEF Shown
<1>3. PICK low, high : low = y % 100 /\ high = y \div 100
  OBVIOUS
<1>4. low \in 0..99 /\ high \in 0..99 /\ y = low + high * 100
  <2>1. low \in 0..99 /\ high \in Int /\ y = 100 * high + low
    <3>1. y \in Nat
      BY <1>1
    <3> QED BY <1>3, <3>1
  <2>2. high >= 0 /\ high <= 99
    BY <1>1, <2>1
  <2> QED BY <2>1, <2>2
<1>5. PICK r : r = Registers(t)
  OBVIOUS
<1>6. r = <<Code(s), Code(m), HourCode(h), Code(d), Code(n), Code(low), Code(high)>>
  BY <1>1, <1>3, <1>5 DEF Registers
<1> DEFINE back(c) == IF 4 \in mode THEN c ELSE FromBcd(c)
           b == IF 4 \in mode THEN r
                ELSE [j \in Reg |-> IF j = 3 THEN HourFromBcd(r[j]) ELSE FromBcd(r[j])]
<1>7. \A v \in 0..99 : back(Code(v)) = v
  BY BcdReadsBack DEF Code
<1>8. \A j \in {1, 2, 4, 5, 6, 7} : b[j] = back(r[j])
  BY DEF Reg
<1>9. To24(b[3]) = HourRead(h)
  <2>1. b[3] = IF 4 \in mode THEN HourCode(h) ELSE HourFromBcd(HourCode(h))
    BY <1>6 DEF Reg
  <2>2. h \in 0..23
    BY <1>1
  <2> QED BY <2>1, <2>2, HourReadsBack
<1>10. TimeOf(r) = <<b[1], b[2], To24(b[3]), b[4], b[5], b[6] + b[7] * 100>>
  BY Zenon DEF TimeOf
<1> HIDE DEF b, back
<1>11. b[1] = s /\ b[2] = m /\ b[4] = d /\ b[5] = n /\ b[6] = low /\ b[7] = high
  <2>1. /\ s \in 0..99 /\ m \in 0..99 /\ d \in 0..99 /\ n \in 0..99
        /\ low \in 0..99 /\ high \in 0..99
    BY <1>1, <1>4
  <2> QED BY <1>6, <1>7, <1>8, <2>1
<1>12. TimeOf(r) = <<s, m, HourRead(h), d, n, y>>
  BY <1>4, <1>9, <1>10, <1>11
<1>13. [t EXCEPT ![3] = HourRead(t[3])] = <<s, m, HourRead(h), d, n, y>>
  <2>1. PICK x : x = HourRead(h)
    OBVIOUS
  <2> QED BY <1>1, <1>2, <2>1
<1> QED BY <1>5, <1>12, <1>13

\* It holds initially.
LEMMA RtcInit == Init => RtcInv
<1> SUFFICES ASSUME Init PROVE RtcInv
  OBVIOUS
<1>1. now \in [1..6 -> Nat]
  BY RtcAssumption DEF Init
<1>2. reg \in [Reg -> Nat]
  BY <1>1, RegistersIn DEF Init
<1>3. <<>> \in Seq(Nat) /\ Len(<<>>) <= 7 /\ {} \subseteq Reg
  OBVIOUS
<1> QED BY <1>1, <1>2, <1>3 DEF Init, RtcInv

\* Each step of clock and reader keeps it.
LEMMA RtcStep == RtcInv /\ [Next]_vars => RtcInv'
<1> SUFFICES ASSUME RtcInv, [Next]_vars PROVE RtcInv'
  OBVIOUS
<1>1. CASE BeginUpdate
  <2>1. now' \in [1..6 -> Nat]
    BY <1>1, LaterIn DEF BeginUpdate, RtcInv
  <2> QED BY <1>1, <2>1 DEF BeginUpdate, RtcInv, readerVars
<1>2. CASE ChangeRegister
  <2>1. PICK k, v : reg' = [reg EXCEPT ![k] = v] /\ v = Registers(now)[k] /\ k = Min(left)
                    /\ left' = left \ {k}
    BY <1>2 DEF ChangeRegister
  <2>2. left \in SUBSET Nat /\ left # {}
    <3>1. left # {}
      BY <1>2 DEF ChangeRegister
    <3>2. left \subseteq Reg /\ Reg \subseteq Nat
      BY DEF RtcInv, Reg
    <3> QED BY <3>1, <3>2
  <2>3. k \in Reg
    BY <2>1, <2>2, MinIs DEF RtcInv
  <2>4. v \in Nat
    BY <2>1, <2>3, RegistersIn DEF RtcInv
  <2> QED BY <1>2, <2>1, <2>3, <2>4 DEF ChangeRegister, RtcInv, readerVars
<1>3. CASE EndUpdate
  BY <1>3 DEF EndUpdate, RtcInv, readerVars
<1>4. CASE Call
  BY <1>4 DEF Call, RtcInv, clockVars
<1>5. CASE Wait
  <2>1. <<>> \in Seq(Nat) /\ Len(<<>>) <= 7
    OBVIOUS
  <2> QED BY <1>5, <2>1 DEF Wait, RtcInv, clockVars
<1>6. CASE Read
  <2>1. Len(got) + 1 \in Reg /\ got \in Seq(Nat)
    <3>1. got \in Seq(Nat)
      BY DEF RtcInv
    <3>2. Len(got) < 7
      BY <1>6 DEF Read
    <3>3. Len(got) \in Nat
      BY <3>1
    <3>4. Len(got) + 1 \in 1..7
      BY <3>2, <3>3
    <3> QED BY <3>1, <3>4 DEF Reg
  <2>2. PICK v \in Nat : v = reg[Len(got) + 1]
    BY <2>1 DEF RtcInv
  <2>3. got' = Append(got, v) /\ pc' = "read"
    BY <1>6, <2>2 DEF Read
  <2>4. got' \in Seq(Nat) /\ Len(got') <= 7
    BY <2>1, <2>3 DEF Reg
  <2> QED BY <1>6, <2>3, <2>4 DEF Read, RtcInv, clockVars
<1>7. CASE Compare
  BY <1>7 DEF Compare, RtcInv, clockVars
<1>8. CASE UNCHANGED vars
  BY <1>8 DEF vars, RtcInv
<1> QED BY <1>1, <1>2, <1>3, <1>4, <1>5, <1>6, <1>7, <1>8 DEF Next, Reader

\* It always holds.
LEMMA RtcAlways == Spec => []RtcInv
BY RtcInit, RtcStep, PTL DEF Spec

\* Printed: the digits the command rtc prints for each part of the time read
\* back as that part, whatever the clock's code and however long the reader
\* was held up between two registers.
THEOREM PrintedAlways == Spec => []Printed
<1>1. RtcInv => Printed
  <2> SUFFICES ASSUME RtcInv, pc = "idle", got # <<>>, NEW k \in 1..6
               PROVE  LET text == base10_string(TimeOf(got)[k])
                      IN  IsNumeral(text) /\ Value(10, text) = TimeOf(got)[k]
    BY DEF Printed
  <2>1. PICK n \in Nat : n = TimeOf(got)[k]
    <3>1. got \in Seq(Nat) /\ Len(got) = 7
      BY DEF RtcInv
    <3>2. got \in [Reg -> Nat]
      BY <3>1, AllRead
    <3> QED BY <3>2, TimeIn
  <2>2. IsNumeral(base10_string(n)) /\ Value(10, base10_string(n)) = n
    BY DecimalReadsBack
  <2> QED BY <2>1, <2>2
<1> QED BY <1>1, RtcAlways, PTL

-----------------------------------------------------------------------------
(***************************************************************************)
(* to_timestamp against the calendar of the clock.                         *)
(***************************************************************************)
\* The days of to_timestamp, by year, month and day.
Days(y, m, d) ==
  LET month == IF m <= 2 THEN m + 10 ELSE m - 2
      year == IF m <= 2 THEN y - 1 ELSE y
  IN  (year \div 4) - (year \div 100) + (year \div 400)
        + ((367 * month) \div 12) + d + year * 365 - 719499

\* A year has one more multiple of its divisors than the year before.
LEMMA LeapDays ==
  ASSUME NEW y \in Nat \ {0}
  PROVE  (y \div 4) - (y \div 100) + (y \div 400)
           = ((y - 1) \div 4) - ((y - 1) \div 100) + ((y - 1) \div 400) + IF Leap(y) THEN 1 ELSE 0
<1>1. y \div 4 = ((y - 1) \div 4) + IF y % 4 = 0 THEN 1 ELSE 0
  OBVIOUS
<1>2. y \div 100 = ((y - 1) \div 100) + IF y % 100 = 0 THEN 1 ELSE 0
  OBVIOUS
<1>3. y \div 400 = ((y - 1) \div 400) + IF y % 400 = 0 THEN 1 ELSE 0
  OBVIOUS
<1>4. y % 400 = 0 => y % 100 = 0
  OBVIOUS
<1>5. y % 100 = 0 => y % 4 = 0
  OBVIOUS
<1>6. /\ y \div 4 \in Int /\ y \div 100 \in Int /\ y \div 400 \in Int
      /\ (y - 1) \div 4 \in Int /\ (y - 1) \div 100 \in Int /\ (y - 1) \div 400 \in Int
  OBVIOUS
<1> QED BY <1>1, <1>2, <1>3, <1>4, <1>5, <1>6 DEF Leap

\* The day after the last of a month is the first of the next, and the day
\* after the last of a year the first of the next.
LEMMA MonthEnd ==
  ASSUME NEW y \in Nat \ {0}, NEW m \in 1..12
  PROVE  Days(y, m, MonthDays(y, m)) + 1 = IF m = 12 THEN Days(y + 1, 1, 1) ELSE Days(y, m + 1, 1)
<1>1. PICK a, b \in Int :
        /\ a = (y \div 4) - (y \div 100) + (y \div 400)
        /\ b = ((y - 1) \div 4) - ((y - 1) \div 100) + ((y - 1) \div 400)
        /\ a = b + IF Leap(y) THEN 1 ELSE 0
  BY LeapDays
<1>2. \A d \in Int : Days(y, m, d) = IF m <= 2
        THEN b + ((367 * (m + 10)) \div 12) + d + (y - 1) * 365 - 719499
        ELSE a + ((367 * (m - 2)) \div 12) + d + y * 365 - 719499
  BY <1>1 DEF Days
<1>3. m # 12 => Days(y, m + 1, 1) = IF m + 1 <= 2
        THEN b + ((367 * (m + 11)) \div 12) + 1 + (y - 1) * 365 - 719499
        ELSE a + ((367 * (m - 1)) \div 12) + 1 + y * 365 - 719499
  BY <1>1 DEF Days
<1>4. Days(y + 1, 1, 1) = a + ((367 * 11) \div 12) + 1 + y * 365 - 719499
  BY <1>1 DEF Days
<1>5. MonthDays(y, m) = IF m = 2 THEN (IF Leap(y) THEN 29 ELSE 28)
                        ELSE IF m \in {4, 6, 9, 11} THEN 30 ELSE 31
  BY DEF MonthDays
<1>6. MonthDays(y, m) \in Int
  BY <1>5
<1>7. CASE m = 1
  BY <1>1, <1>2, <1>3, <1>5, <1>6, <1>7
<1>8. CASE m = 2
  BY <1>1, <1>2, <1>3, <1>5, <1>6, <1>8
<1>9. CASE m \in 3..11
  BY <1>1, <1>2, <1>3, <1>5, <1>6, <1>9
<1>10. CASE m = 12
  BY <1>1, <1>2, <1>4, <1>5, <1>6, <1>10
<1> QED BY <1>7, <1>8, <1>9, <1>10

\* A day later in a month.
LEMMA DayNext ==
  ASSUME NEW y \in Nat, NEW m \in 1..12, NEW d \in Nat
  PROVE  Days(y, m, d) \in Int /\ Days(y, m, d + 1) = Days(y, m, d) + 1
<1>1. PICK x, n \in Int : /\ x = IF m <= 2 THEN y - 1 ELSE y
                          /\ n = IF m <= 2 THEN m + 10 ELSE m - 2
  OBVIOUS
<1>2. PICK a, b \in Int : /\ a = (x \div 4) - (x \div 100) + (x \div 400)
                          /\ b = (367 * n) \div 12
  OBVIOUS
<1>3. \A e : Days(y, m, e) = a + b + e + x * 365 - 719499
  BY <1>1, <1>2 DEF Days
<1> QED BY <1>3

\* The times of the calendar.
Times ==
  {t \in [1..6 -> Nat] : /\ t[1] <= 59 /\ t[2] <= 59 /\ t[3] <= 23
                         /\ t[4] \in 1..MonthDays(t[6], t[5])
                         /\ t[5] \in 1..12 /\ t[6] >= 1}

\* to_timestamp counts seconds: it is 0 at the start of 1970, and one more a
\* second later, over the end of every minute, hour, day, month and year, leap
\* or not.  (The code counts modulo 2^32.)
THEOREM TimestampCounts ==
  /\ to_timestamp(<<0, 0, 0, 1, 1, 1970>>) = 0
  /\ \A t \in Times : Later(t) \in Times /\ to_timestamp(Later(t)) = to_timestamp(t) + 1
<1>1. to_timestamp(<<0, 0, 0, 1, 1, 1970>>) = 0
  BY DEF to_timestamp
<1>2. ASSUME NEW t \in Times
      PROVE  Later(t) \in Times /\ to_timestamp(Later(t)) = to_timestamp(t) + 1
  <2>1. t \in [1..6 -> Nat]
    BY DEF Times
  <2>2. PICK k \in 1..6 : Stops(t, k)
    BY <2>1, SomeStop
  <2>3. PICK u : u = Later(t)
    OBVIOUS
  <2>4. \A j \in 1..6 : u[j] = IF j < k THEN Bottom[j] ELSE IF j = k THEN t[j] + 1 ELSE t[j]
    BY <2>1, <2>2, <2>3, LaterAt
  <2>5. u \in [1..6 -> Nat]
    BY <2>1, <2>3, LaterIn
  <2>6a. PICK s, mi, h : s = t[1] /\ mi = t[2] /\ h = t[3]
    OBVIOUS
  <2>6b. PICK d, m, y : d = t[4] /\ m = t[5] /\ y = t[6]
    OBVIOUS
  <2>6. /\ s \in 0..59 /\ mi \in 0..59 /\ h \in 0..23 /\ d \in 1..MonthDays(y, m)
        /\ m \in 1..12 /\ y \in Nat \ {0} /\ d \in Nat
    BY <2>6a, <2>6b DEF Times
  <2>7. \A v \in [1..6 -> Nat] :
          to_timestamp(v) = ((Days(v[6], v[5], v[4]) * 24 + v[3]) * 60 + v[2]) * 60 + v[1]
    BY DEF to_timestamp, Days
  <2>8. /\ to_timestamp(t) = ((Days(y, m, d) * 24 + h) * 60 + mi) * 60 + s
        /\ to_timestamp(u) = ((Days(u[6], u[5], u[4]) * 24 + u[3]) * 60 + u[2]) * 60 + u[1]
    BY <2>1, <2>5, <2>6a, <2>6b, <2>7
  <2>9. /\ u[1] = IF k > 1 THEN 0 ELSE s + 1
        /\ u[2] = IF k > 2 THEN 0 ELSE IF k = 2 THEN mi + 1 ELSE mi
        /\ u[3] = IF k > 3 THEN 0 ELSE IF k = 3 THEN h + 1 ELSE h
        /\ u[4] = IF k > 4 THEN 1 ELSE IF k = 4 THEN d + 1 ELSE d
        /\ u[5] = IF k > 5 THEN 1 ELSE IF k = 5 THEN m + 1 ELSE m
        /\ u[6] = IF k = 6 THEN y + 1 ELSE y
    BY <2>4, <2>6a, <2>6b DEF Bottom
  <2>10. PICK last \in Nat : last = MonthDays(y, m) /\ last >= 28
    <3>1. MonthDays(y, m) \in 28..31
      BY <2>6 DEF MonthDays
    <3> QED BY <3>1
  <2>11. /\ k > 1 => s = 59
         /\ k > 2 => mi = 59
         /\ k > 3 => h = 23
         /\ k > 4 => d = last
         /\ k > 5 => m = 12
         /\ k = 1 => s # 59
         /\ k = 2 => mi # 59
         /\ k = 3 => h # 23
         /\ k = 4 => d # last
         /\ k = 5 => m # 12
    BY <2>2, <2>6a, <2>6b, <2>10 DEF Stops, Top
  <2>12. /\ Days(y, m, d) \in Int
         /\ Days(y, m, d + 1) = Days(y, m, d) + 1
    BY <2>6, DayNext
  <2>13. Days(y, m, last) + 1 = IF m = 12 THEN Days(y + 1, 1, 1) ELSE Days(y, m + 1, 1)
    BY <2>6, <2>10, MonthEnd
  <2>14. MonthDays(u[6], u[5]) \in 28..31
    <3>1. u[5] \in 1..12
      BY <2>6, <2>9, <2>11
    <3> QED BY <3>1 DEF MonthDays
  <2>15. k < 5 => MonthDays(u[6], u[5]) = last
    BY <2>9, <2>10
  <2>16. u \in Times
    <3>1. u[1] <= 59 /\ u[2] <= 59 /\ u[3] <= 23
      BY <2>6, <2>9, <2>11
    <3>2. u[4] \in 1..MonthDays(u[6], u[5])
      <4>1. CASE k < 5
        <5>1. d \in 1..last /\ (k = 4 => d + 1 \in 1..last)
          BY <2>6, <2>10, <2>11
        <5> QED BY <2>9, <2>15, <4>1, <5>1
      <4>2. CASE k >= 5
        <5>1. u[4] = 1
          BY <2>9, <4>2
        <5> QED BY <2>14, <5>1
      <4> QED BY <4>1, <4>2
    <3>3. u[5] \in 1..12 /\ u[6] >= 1
      BY <2>6, <2>9, <2>11
    <3> QED BY <2>5, <3>1, <3>2, <3>3 DEF Times
  <2>17. Days(u[6], u[5], u[4]) = IF k >= 4 THEN Days(y, m, d) + 1 ELSE Days(y, m, d)
    <3>1. CASE k < 4
      BY <2>9, <3>1
    <3>2. CASE k = 4
      BY <2>9, <2>12, <3>2
    <3>3. CASE k = 5
      <4>1. u[4] = 1 /\ u[5] = m + 1 /\ u[6] = y /\ d = last /\ m # 12
        BY <2>9, <2>11, <3>3
      <4> QED BY <2>13, <3>3, <4>1
    <3>4. CASE k = 6
      <4>1. u[4] = 1 /\ u[5] = 1 /\ u[6] = y + 1 /\ d = last /\ m = 12
        BY <2>9, <2>11, <3>4
      <4> QED BY <2>13, <3>4, <4>1
    <3> QED BY <3>1, <3>2, <3>3, <3>4
  <2>18. to_timestamp(u) = to_timestamp(t) + 1
    <3>1. PICK D \in Int : D = Days(y, m, d)
      BY <2>12
    <3>2. PICK E : E = Days(u[6], u[5], u[4])
      OBVIOUS
    <3>3. E = IF k >= 4 THEN D + 1 ELSE D
      BY <2>17, <3>1, <3>2
    <3> QED BY <2>6, <2>8, <2>9, <2>11, <3>1, <3>2, <3>3
  <2> QED BY <2>3, <2>16, <2>18
<1> QED BY <1>1, <1>2

\* The fold of Total, as a function of sets of positions.
TotalEqn(q, s) ==
  q = [X \in SUBSET DOMAIN s |-> IF X = {} THEN 0 ELSE q[X \ {Max(X)}] + s[Max(X)]]

\* Total goes through the numbers from the first to the last.
LEMMA TotalTrace ==
  ASSUME NEW n \in Nat, NEW s \in [1..n -> Nat]
  PROVE  \E g : /\ Total(s) = g[1..n]
                /\ g[1..0] = 0
                /\ \A k \in 1..n : g[1..k] = g[1..k - 1] + s[k]
<1>1. PICK h : h = [p \in Nat \X Nat |-> p[1] + p[2]]
  OBVIOUS
<1>2. h \in [Nat \X Nat -> Nat] /\ \A x, y \in Nat : h[<<x, y>>] = x + y
  BY <1>1
<1>3. DOMAIN s = 1..n
  OBVIOUS
<1>4. PICK f \in [SUBSET (1..n) -> Nat] : FoldEqn(f, h, 0, n, s)
  <2>1. 0 \in Nat
    OBVIOUS
  <2> QED BY <1>2, <2>1, FoldExists
<1>5. TotalEqn(f, s)
  <2>1. \A X \in SUBSET (1..n) :
          (IF X = {} THEN 0 ELSE h[<<f[X \ {Max(X)}], s[Max(X)]>>])
            = (IF X = {} THEN 0 ELSE f[X \ {Max(X)}] + s[Max(X)])
    <3> SUFFICES ASSUME NEW X \in SUBSET (1..n), X # {}
                 PROVE  h[<<f[X \ {Max(X)}], s[Max(X)]>>] = f[X \ {Max(X)}] + s[Max(X)]
      OBVIOUS
    <3>1. Max(X) \in 1..n
      BY MaxIs
    <3>2. f[X \ {Max(X)}] \in Nat /\ s[Max(X)] \in Nat
      BY <3>1
    <3> QED BY <1>2, <3>2
  <2> QED BY <1>3, <1>4, <2>1 DEF FoldEqn, TotalEqn
<1>6. PICK g : g = CHOOSE q : TotalEqn(q, s)
  OBVIOUS
<1>7. TotalEqn(g, s)
  BY <1>5, <1>6, Zenon
<1>8. Total(s) = g[1..n]
  <2>1. g = CHOOSE q : q = [X \in SUBSET DOMAIN s |->
              IF X = {} THEN 0 ELSE q[X \ {Max(X)}] + s[Max(X)]]
    BY <1>6 DEF TotalEqn
  <2> QED BY <1>3, <2>1 DEF Total, FoldLeft, MapThenFoldSet
<1>9. g[1..0] = 0
  <2>1. 1..0 = {} /\ {} \in SUBSET (1..n)
    OBVIOUS
  <2> QED BY <1>3, <1>7, <2>1 DEF TotalEqn
<1>10. ASSUME NEW k \in 1..n PROVE g[1..k] = g[1..k - 1] + s[k]
  <2>1. 1..k \in SUBSET (1..n) /\ k \in 1..k
    OBVIOUS
  <2>2. Max(1..k) = k
    <3>1. \A y \in 1..k : k >= y
      OBVIOUS
    <3> QED BY <2>1, <3>1, MaxUnique
  <2>3. (1..k) \ {k} = 1..k - 1
    OBVIOUS
  <2> QED BY <1>3, <1>7, <2>1, <2>2, <2>3 DEF TotalEqn
<1> QED BY <1>8, <1>9, <1>10

\* The days from the first of a month on.
LEMMA DayOf ==
  ASSUME NEW y \in Nat, NEW m \in 1..12
  PROVE  Days(y, m, 1) \in Int /\ \A d \in Nat : Days(y, m, d) = Days(y, m, 1) + d - 1
<1>1. PICK x, n \in Int : /\ x = IF m <= 2 THEN y - 1 ELSE y
                          /\ n = IF m <= 2 THEN m + 10 ELSE m - 2
  OBVIOUS
<1>2. PICK a, b \in Int : /\ a = (x \div 4) - (x \div 100) + (x \div 400)
                          /\ b = (367 * n) \div 12
  OBVIOUS
<1>3. \A e : Days(y, m, e) = a + b + e + x * 365 - 719499
  BY <1>1, <1>2 DEF Days
<1> QED BY <1>3

\* A year later.
LEMMA YearNext ==
  ASSUME NEW y \in Nat \ {0}
  PROVE  Days(y + 1, 1, 1) = Days(y, 1, 1) + YearDays(y)
<1>1. PICK a, b \in Int :
        /\ a = (y \div 4) - (y \div 100) + (y \div 400)
        /\ b = ((y - 1) \div 4) - ((y - 1) \div 100) + ((y - 1) \div 400)
        /\ a = b + IF Leap(y) THEN 1 ELSE 0
  BY LeapDays
<1>2. Days(y, 1, 1) = b + ((367 * 11) \div 12) + 1 + (y - 1) * 365 - 719499
  BY <1>1 DEF Days
<1>3. Days(y + 1, 1, 1) = a + ((367 * 11) \div 12) + 1 + y * 365 - 719499
  BY <1>1 DEF Days
<1> QED BY <1>1, <1>2, <1>3 DEF YearDays

\* The days of the years since 1970 are what to_timestamp counts up to a year.
LEMMA YearsCounted ==
  ASSUME NEW N \in Nat
  PROVE  Total([n \in 1..N |-> YearDays(1969 + n)]) = Days(1970 + N, 1, 1)
<1> DEFINE q == [n \in 1..N |-> YearDays(1969 + n)]
<1>2. \A n \in 1..N : q[n] = YearDays(1969 + n)
  OBVIOUS
<1>3. q \in [1..N -> Nat]
  <2>1. \A n \in 1..N : YearDays(1969 + n) \in Nat
    BY DEF YearDays
  <2> QED BY <2>1
<1> HIDE DEF q
<1>4. PICK g : /\ Total(q) = g[1..N]
               /\ g[1..0] = 0
               /\ \A k \in 1..N : g[1..k] = g[1..k - 1] + q[k]
  BY <1>3, TotalTrace
<1> DEFINE S == {k \in Nat : k <= N => g[1..k] = Days(1970 + k, 1, 1)}
<1>5. 0 \in S
  <2>1. Days(1970, 1, 1) = 0
    BY DEF Days
  <2>2. 1970 + 0 = 1970
    OBVIOUS
  <2> QED BY <1>4, <2>1, <2>2
<1>6. ASSUME NEW k \in Nat, k \in S PROVE k + 1 \in S
  <2> SUFFICES ASSUME k + 1 <= N PROVE g[1..k + 1] = Days(1970 + (k + 1), 1, 1)
    OBVIOUS
  <2>1. k + 1 \in 1..N /\ (k + 1) - 1 = k /\ k <= N
    OBVIOUS
  <2>2. g[1..k + 1] = g[1..k] + q[k + 1]
    BY <1>4, <2>1
  <2>3. g[1..k] = Days(1970 + k, 1, 1)
    BY <1>6, <2>1
  <2>4. q[k + 1] = YearDays(1970 + k)
    BY <1>2, <2>1
  <2>5. PICK x \in Nat \ {0} : x = 1970 + k /\ x + 1 = 1970 + (k + 1)
    OBVIOUS
  <2>6. Days(x + 1, 1, 1) = Days(x, 1, 1) + YearDays(x)
    BY YearNext
  <2> QED BY <2>2, <2>3, <2>4, <2>5, <2>6
<1>7. N \in S
  <2> HIDE DEF S
  <2> QED BY <1>5, <1>6, NatSet
<1> QED BY <1>4, <1>7 DEF q

\* And so are those of the months of a year.
LEMMA MonthsCounted ==
  ASSUME NEW y \in Nat \ {0}, NEW m \in 1..12
  PROVE  MonthsBefore(y, m) = Days(y, m, 1) - Days(y, 1, 1)
<1>1. PICK N \in 0..11 : N = m - 1
  OBVIOUS
<1> DEFINE q == [n \in 1..N |-> MonthDays(y, n)]
<1>2. \A n \in 1..N : q[n] = MonthDays(y, n)
  OBVIOUS
<1>3. q \in [1..N -> Nat]
  <2>1. \A n \in 1..N : MonthDays(y, n) \in Nat
    BY DEF MonthDays
  <2> QED BY <2>1
<1> HIDE DEF q
<1>4. PICK g : /\ Total(q) = g[1..N]
               /\ g[1..0] = 0
               /\ \A k \in 1..N : g[1..k] = g[1..k - 1] + q[k]
  <2>1. N \in Nat
    OBVIOUS
  <2> QED BY <1>3, <2>1, TotalTrace
<1>5. PICK first \in Int : first = Days(y, 1, 1)
  <2>1. 1 \in 1..12 /\ y \in Nat
    OBVIOUS
  <2> QED BY <2>1, DayOf
<1> DEFINE S == {k \in Nat : k <= N => g[1..k] = Days(y, k + 1, 1) - first}
<1>6. 0 \in S
  BY <1>4, <1>5
<1>7. ASSUME NEW k \in Nat, k \in S PROVE k + 1 \in S
  <2> SUFFICES ASSUME k + 1 <= N PROVE g[1..k + 1] = Days(y, (k + 1) + 1, 1) - first
    OBVIOUS
  <2>1. k + 1 \in 1..N /\ (k + 1) - 1 = k /\ k <= N
    OBVIOUS
  <2>2. g[1..k + 1] = g[1..k] + q[k + 1]
    BY <1>4, <2>1
  <2>3. g[1..k] = Days(y, k + 1, 1) - first
    BY <1>7, <2>1
  <2>4. PICK n \in 1..11 : n = k + 1
    OBVIOUS
  <2>5. q[k + 1] = MonthDays(y, n)
    BY <1>2, <2>1, <2>4
  <2>6. PICK last \in Nat : last = MonthDays(y, n)
    <3>1. MonthDays(y, n) \in Nat
      BY DEF MonthDays
    <3> QED BY <3>1
  <2>7. Days(y, n, 1) \in Int /\ Days(y, n, last) = Days(y, n, 1) + last - 1
    <3>1. n \in 1..12 /\ y \in Nat
      BY <2>4
    <3> QED BY <3>1, DayOf
  <2>8. Days(y, n, last) + 1 = Days(y, n + 1, 1)
    BY <2>4, <2>6, MonthEnd
  <2> QED BY <2>2, <2>3, <2>4, <2>5, <2>6, <2>7, <2>8
<1>8. N \in S
  <2> HIDE DEF S
  <2> QED BY <1>6, <1>7, NatSet
<1>9. g[1..N] = Days(y, m, 1) - first
  BY <1>1, <1>8
<1> QED BY <1>1, <1>4, <1>5, <1>9 DEF q, MonthsBefore

\* The years whose seconds fit the 32 bits of a timestamp.
Modern == 1970..2105

\* So the days of a date are added up year by year and month by month.
LEMMA DaysCounted ==
  ASSUME NEW y \in Modern, NEW m \in 1..12, NEW d \in Nat
  PROVE  Days(y, m, d) = YearsBefore(y) + MonthsBefore(y, m) + d - 1
<1>1. y \in Nat /\ y \in Nat \ {0}
  BY DEF Modern
<1>2. 1 \in 1..12 /\ m \in 1..12
  OBVIOUS
<1>3. Days(y, 1, 1) \in Int
  BY <1>1, <1>2, DayOf
<1>4. Days(y, m, 1) \in Int /\ Days(y, m, d) = Days(y, m, 1) + d - 1
  BY <1>1, <1>2, DayOf
<1>5. YearsBefore(y) = Days(y, 1, 1)
  <2>1. y - 1970 \in Nat /\ y = 1970 + (y - 1970)
    BY DEF Modern
  <2> QED BY <2>1, YearsCounted DEF YearsBefore
<1>6. MonthsBefore(y, m) = Days(y, m, 1) - Days(y, 1, 1)
  BY <1>1, MonthsCounted
<1> QED BY <1>3, <1>4, <1>5, <1>6

\* The days of those years, from 0 up to what fits.
LEMMA DaysFit ==
  ASSUME NEW y \in Modern, NEW m \in 1..12, NEW d \in 1..31
  PROVE  Days(y, m, d) \in Nat /\ Days(y, m, d) <= 49674
<1>1. PICK x, n \in Int : /\ x = IF m <= 2 THEN y - 1 ELSE y
                          /\ n = IF m <= 2 THEN m + 10 ELSE m - 2
  BY DEF Modern
<1>2. PICK a, b \in Int : /\ a = (x \div 4) - (x \div 100) + (x \div 400)
                          /\ b = (367 * n) \div 12
  OBVIOUS
<1>3. Days(y, m, d) = a + b + d + x * 365 - 719499
  BY <1>1, <1>2 DEF Days
<1>4. x \in 1969..2105 /\ n \in 1..12
  BY <1>1 DEF Modern
<1>5. a \in 475..512 /\ (x < 2000 => a >= 477)
  <2>1. x \div 4 \in 492..526 /\ x \div 100 \in 19..21 /\ x \div 400 \in 4..5
    BY <1>4
  <2>2. x < 2000 => x \div 100 = 19
    BY <1>4
  <2> QED BY <1>2, <2>1, <2>2
<1>6. b \in 30..367
  BY <1>2, <1>4
<1>7. x = 1969 => b >= 336
  <2>1. x = 1969 => n \in 11..12
    BY <1>1 DEF Modern
  <2> QED BY <1>2, <2>1
<1>8. x = 2105 => b <= 305
  <2>1. x = 2105 => n \in 1..10
    BY <1>1 DEF Modern
  <2> QED BY <1>2, <2>1
<1>9. 0 <= a + b + d + x * 365 - 719499 /\ a + b + d + x * 365 - 719499 <= 49674
  <2>1. CASE x = 1969
    BY <1>5, <1>6, <1>7, <2>1
  <2>2. CASE x = 2105
    BY <1>5, <1>6, <1>8, <2>2
  <2>3. CASE x \in 1970..2104
    BY <1>5, <1>6, <2>3
  <2> QED BY <1>4, <2>1, <2>2, <2>3
<1> QED BY <1>3, <1>9

\* to_timestamp: until its 32 bits run out, it is the seconds of the calendar
\* since 1970, added up year by year and month by month.
THEOREM TimestampIsCalendar ==
  \A t \in Times : t[6] \in Modern =>
    to_timestamp(t) = Seconds(t) /\ 0 <= Seconds(t) /\ Seconds(t) <= 4294967295
<1> SUFFICES ASSUME NEW t \in Times, t[6] \in Modern
             PROVE  to_timestamp(t) = Seconds(t) /\ 0 <= Seconds(t) /\ Seconds(t) <= 4294967295
  OBVIOUS
<1>1. PICK d, m, y : d = t[4] /\ m = t[5] /\ y = t[6]
  OBVIOUS
<1>2. d \in Nat /\ m \in 1..12 /\ y \in Modern
  BY <1>1 DEF Times
<1>3. Days(y, m, d) = YearsBefore(y) + MonthsBefore(y, m) + d - 1
  BY <1>2, DaysCounted
<1>4. to_timestamp(t) = ((Days(y, m, d) * 24 + t[3]) * 60 + t[2]) * 60 + t[1]
  BY <1>1 DEF to_timestamp, Days
<1>5. to_timestamp(t) = Seconds(t)
  BY <1>1, <1>3, <1>4 DEF Seconds
<1>6. PICK D \in Nat : D = Days(y, m, d) /\ D <= 49674
  <2>1. d \in 1..31
    <3>1. MonthDays(y, m) \in 28..31 /\ d \in 1..MonthDays(y, m)
      BY <1>1, <1>2 DEF Times, MonthDays
    <3> QED BY <3>1
  <2> QED BY <1>2, <2>1, DaysFit
<1>7. PICK s, mi, h \in Nat : /\ s = t[1] /\ mi = t[2] /\ h = t[3]
                              /\ s <= 59 /\ mi <= 59 /\ h <= 23
  BY DEF Times
<1>8. 0 <= to_timestamp(t) /\ to_timestamp(t) <= 4294967295
  <2>1. PICK H \in Nat : H = D * 24 + h /\ H <= 1192199
    BY <1>6, <1>7
  <2>2. PICK M \in Nat : M = H * 60 + mi /\ M <= 71531999
    BY <1>7, <2>1
  <2>3. 0 <= M * 60 + s /\ M * 60 + s <= 4294967295
    BY <1>7, <2>2
  <2> QED BY <1>4, <1>6, <1>7, <2>1, <2>2, <2>3
<1> QED BY <1>5, <1>8

-----------------------------------------------------------------------------
(***************************************************************************)
(* Readings during a clock that goes on.                                   *)
(***************************************************************************)
\* What the registers are at each time.
Face == [t \in Times |-> Registers(t)]

\* The times that a reader of this clock gets back.
Known == {t \in Times : t[6] \in Modern /\ (2 \in mode \/ t[3] % 12 # 0)}

\* Both only depend on register B.
LEMMA SameMode ==
  ASSUME mode' = mode
  PROVE  Face' = Face /\ Known' = Known
<1>1. Face' = Face
  BY DEF Face, Registers, HourCode, Code
<1>2. Known' = Known
  BY DEF Known
<1> QED BY <1>1, <1>2

\* Seconds go round in a minute.
LEMMA SecondOf ==
  ASSUME NEW t \in Times
  PROVE  t[1] \in 0..59 /\ \E m \in Int : to_timestamp(t) = m * 60 + t[1]
<1>1. PICK s, mi, h \in Nat : s = t[1] /\ mi = t[2] /\ h = t[3] /\ s <= 59
  BY DEF Times
<1>2. PICK D \in Int : to_timestamp(t) = ((D * 24 + t[3]) * 60 + t[2]) * 60 + t[1]
  <2>1. t[6] \in Nat /\ t[5] \in 1..12 /\ t[4] \in Nat
    BY DEF Times
  <2>2. PICK d, m, y : d = t[4] /\ m = t[5] /\ y = t[6]
    OBVIOUS
  <2>3. y \in Nat /\ m \in 1..12 /\ d \in Nat
    BY <2>1, <2>2
  <2>4. Days(y, m, d) \in Int
    BY <2>3, DayNext
  <2>5. to_timestamp(t) = ((Days(y, m, d) * 24 + t[3]) * 60 + t[2]) * 60 + t[1]
    BY <2>2 DEF to_timestamp, Days
  <2> QED BY <2>4, <2>5
<1>3. PICK m \in Int : m = (D * 24 + h) * 60 + mi
  OBVIOUS
<1> QED BY <1>1, <1>2, <1>3

\* A time of the calendar up to the year 2105 is one that the clock shows.
LEMMA KnownShown == Known \subseteq Shown
<1> SUFFICES ASSUME NEW t \in Known PROVE t \in Shown
  OBVIOUS
<1>1. /\ t \in [1..6 -> Nat] /\ t[1] <= 59 /\ t[2] <= 59 /\ t[3] <= 23
      /\ t[4] \in 1..MonthDays(t[6], t[5]) /\ t[5] \in 1..12
  BY DEF Known, Times
<1>2. t[4] <= 31
  <2>1. MonthDays(t[6], t[5]) \in 28..31
    BY <1>1 DEF MonthDays
  <2> QED BY <1>1, <2>1
<1>3. t[6] <= 9999
  BY DEF Known, Modern
<1> QED BY <1>1, <1>2, <1>3 DEF Shown

\* The register of seconds tells them apart.
LEMMA SecondsTold ==
  ASSUME NEW t \in Times, NEW u \in Times, Face[t][1] = Face[u][1]
  PROVE  t[1] = u[1]
<1>1. Face[t][1] = Code(t[1]) /\ Face[u][1] = Code(u[1])
  BY DEF Face, Registers
<1>2. t[1] \in 0..99 /\ u[1] \in 0..99
  BY DEF Times
<1>3. FromBcd(ToBcd(t[1])) = t[1] /\ FromBcd(ToBcd(u[1])) = u[1]
  BY <1>2, BcdReadsBack
<1> QED BY <1>1, <1>3 DEF Code

\* So two times that show the same second are a minute or more apart.
LEMMA MinuteApart ==
  ASSUME NEW t \in Times, NEW u \in Times, Face[t][1] = Face[u][1],
         to_timestamp(t) < to_timestamp(u)
  PROVE  to_timestamp(u) - to_timestamp(t) >= 60
<1>1. PICK m \in Int : to_timestamp(t) = m * 60 + t[1]
  BY SecondOf
<1>2. PICK n \in Int : to_timestamp(u) = n * 60 + u[1]
  BY SecondOf
<1>3. PICK s \in 0..59 : s = t[1] /\ s = u[1]
  BY SecondsTold, SecondOf
<1>4. m < n
  BY <1>1, <1>2, <1>3
<1> QED BY <1>1, <1>2, <1>3, <1>4

\* A minute that begins at t ends at u, or u is of a later minute.
LEMMA MinuteEnd ==
  ASSUME NEW t \in Times, NEW u \in Times, t[1] = 0, u[1] = 59,
         to_timestamp(t) <= to_timestamp(u)
  PROVE  to_timestamp(u) - to_timestamp(t) >= 59
<1>1. PICK m \in Int : to_timestamp(t) = m * 60
  <2>1. PICK m \in Int : to_timestamp(t) = m * 60 + t[1]
    BY SecondOf
  <2> QED BY <2>1
<1>2. PICK n \in Int : to_timestamp(u) = n * 60 + 59
  <2>1. PICK n \in Int : to_timestamp(u) = n * 60 + u[1]
    BY SecondOf
  <2> QED BY <2>1
<1>3. m <= n
  BY <1>1, <1>2
<1> QED BY <1>1, <1>2, <1>3

\* Within a minute only the register of seconds changes.
LEMMA MinuteKept ==
  ASSUME NEW t \in Times
  PROVE  /\ Later(t) \in Times
         /\ to_timestamp(Later(t)) = to_timestamp(t) + 1
         /\ Later(t)[1] # 0 => t[1] # 59
         /\ t[1] # 59 => \A k \in 2..7 : Face[Later(t)][k] = Face[t][k]
<1>1. Later(t) \in Times /\ to_timestamp(Later(t)) = to_timestamp(t) + 1
  BY TimestampCounts
<1>2. t \in [1..6 -> Nat]
  BY DEF Times
<1>3. PICK j \in 1..6 : Stops(t, j)
  BY <1>2, SomeStop
<1>4. \A k \in 1..6 : Later(t)[k] = IF k < j THEN Bottom[k] ELSE IF k = j THEN t[k] + 1 ELSE t[k]
  BY <1>2, <1>3, LaterAt
<1>5. t[1] = 59 => Later(t)[1] = 0
  <2> SUFFICES ASSUME t[1] = 59 PROVE Later(t)[1] = 0
    OBVIOUS
  <2>1. j # 1
    BY <1>3 DEF Stops, Top
  <2> QED BY <1>4, <2>1 DEF Bottom
<1>6. t[1] # 59 => \A k \in 2..6 : Later(t)[k] = t[k]
  <2> SUFFICES ASSUME t[1] # 59 PROVE \A k \in 2..6 : Later(t)[k] = t[k]
    OBVIOUS
  <2>1. j = 1
    <3> SUFFICES ASSUME j # 1 PROVE FALSE
      OBVIOUS
    <3>1. 1 \in 1..j - 1
      OBVIOUS
    <3> QED BY <1>3, <3>1 DEF Stops, Top
  <2> QED BY <1>4, <2>1
<1>7. t[1] # 59 => \A k \in 2..7 : Face[Later(t)][k] = Face[t][k]
  <2> SUFFICES ASSUME t[1] # 59 PROVE \A k \in 2..7 : Face[Later(t)][k] = Face[t][k]
    OBVIOUS
  <2>1. PICK u : u = Later(t)
    OBVIOUS
  <2>2. u[2] = t[2] /\ u[3] = t[3] /\ u[4] = t[4] /\ u[5] = t[5] /\ u[6] = t[6]
    BY <1>6, <2>1
  <2>3. Face[t] = Registers(t) /\ Face[u] = Registers(u)
    BY <1>1, <2>1 DEF Face
  <2>4. Registers(t) = <<Code(t[1]), Code(t[2]), HourCode(t[3]), Code(t[4]), Code(t[5]),
                         Code(t[6] % 100), Code(t[6] \div 100)>>
    BY DEF Registers
  <2>5. Registers(u) = <<Code(u[1]), Code(t[2]), HourCode(t[3]), Code(t[4]), Code(t[5]),
                         Code(t[6] % 100), Code(t[6] \div 100)>>
    BY <2>2 DEF Registers
  <2>6. \A k \in 2..7 : Registers(t)[k] = Registers(u)[k]
    BY <2>4, <2>5
  <2> QED BY <2>1, <2>3, <2>6
<1> QED BY <1>1, <1>5, <1>7

\* A reading of one time, complete, is that time.
LEMMA WholeReading ==
  ASSUME NEW t \in Known, NEW r \in Seq(Nat), Len(r) = 7,
         \A k \in 1..7 : r[k] = Face[t][k]
  PROVE  TimeOf(r) = t
<1>1. t \in Times /\ t \in Shown /\ (2 \in mode \/ t[3] % 12 # 0)
  BY KnownShown DEF Known
<1>2. Face[t] = Registers(t) /\ Face[t] \in [Reg -> Nat]
  <2>1. Face[t] = Registers(t)
    BY <1>1 DEF Face
  <2>2. t \in [1..6 -> Nat]
    BY <1>1 DEF Times
  <2> QED BY <2>1, <2>2, RegistersIn
<1>3. r \in [Reg -> Nat]
  BY AllRead
<1>4. r = Registers(t)
  <2>1. \A k \in Reg : r[k] = Face[t][k]
    BY DEF Reg
  <2> QED BY <1>2, <1>3, <2>1
<1>5. [t EXCEPT ![3] = HourRead(t[3])] = t
  BY <1>1 DEF HourRead, Times
<1> QED BY <1>1, <1>4, <1>5, RegistersReadBack

\* Reading s has the registers of the time t, as far as it goes.
Whole(s, t) == \A k \in 1..Len(s) : s[k] = Face[t][k]

\* The seven values s have those of the time t, but for the seconds.
Rest(s, t) == \A k \in 2..7 : s[k] = Face[t][k]

\* A time since the call.
During(t) ==
  /\ t \in Known
  /\ to_timestamp(called) <= to_timestamp(t)
  /\ to_timestamp(t) <= to_timestamp(now)

\* The second with which the reading under way begins.
Second == IF got = <<>> THEN reg[1] ELSE got[1]

\* Its time: while that goes on, and unless it began during the update to a
\* new minute, what is read is of that time.
Begun(x) ==
  /\ During(x)
  /\ Second = Face[x][1]
  /\ \/ to_timestamp(x) < to_timestamp(now)
     \/ x = now /\ x[1] = 0
     \/ x = now /\ Whole(got, x) /\ Rest(reg, x)

\* The time of the reading before it, once that is complete ...
Once(p) ==
  /\ During(p)
  /\ previous[1] = Face[p][1]
  /\ \/ Whole(previous, p)
     \/ to_timestamp(p) < to_timestamp(now)
     \/ p = now /\ p[1] = 0

\* ... and against the one under way: a reading that mixed two times is of an
\* earlier one, or of the first second of a minute that goes on.
Before(p, x) ==
  /\ During(p)
  /\ previous[1] = Face[p][1]
  /\ \/ Whole(previous, p)
     \/ to_timestamp(p) < to_timestamp(x)
     \/ p = x /\ p[1] = 0 /\ Whole(got, p) /\ Rest(reg, p) /\ Rest(Face[now], p)

\* The registers are those of the time, or on their way there.
ClockInv ==
  /\ now \in Known
  /\ ~uip => reg = Face[now]
  /\ uip => \A k \in Reg \ left : reg[k] = Face[now][k]
  /\ uip /\ now[1] # 0 => Rest(reg, now)

ReadInv ==
  /\ ClockInv
  /\ During(called)
  /\ pc = "wait" => previous = <<>> \/ \E p \in Times : Once(p)
  /\ pc = "read" => \E x \in Times : Begun(x) /\ (previous = <<>> \/ \E p \in Times : Before(p, x))
  /\ stamp \in Int
  /\ pc = "idle" /\ stamp # -1 => /\ to_timestamp(called) <= stamp
                                  /\ stamp <= to_timestamp(now)

\* The reader is prompt: it is held up for less than a minute, and the clock
\* shows times that read_rtc converts rightly.
Prompt ==
  /\ now \in Known
  /\ pc # "idle" => to_timestamp(now) - to_timestamp(called) < 60

\* Timestamps are numbers.
LEMMA StampIn ==
  ASSUME NEW t \in Known
  PROVE  t \in Times /\ to_timestamp(t) \in Int
<1>1. t \in Times
  BY DEF Known
<1>2. PICK m \in Int : to_timestamp(t) = m * 60 + t[1] /\ t[1] \in Int
  BY <1>1, SecondOf
<1> QED BY <1>1, <1>2

\* It holds initially.
LEMMA ReadInit == Init /\ Prompt => ReadInv
<1> SUFFICES ASSUME Init, Prompt PROVE ReadInv
  OBVIOUS
<1>1. now \in Known /\ called = now /\ pc = "idle" /\ stamp = -1 /\ ~uip
  BY DEF Init, Prompt
<1>2. now \in Times /\ to_timestamp(now) \in Int
  BY <1>1, StampIn
<1>3. reg = Face[now]
  BY <1>2 DEF Init, Face
<1> QED BY <1>1, <1>2, <1>3 DEF ReadInv, ClockInv, During

\* The update begins.
LEMMA ReadBegin == RtcInv /\ ReadInv /\ Prompt' /\ BeginUpdate => ReadInv'
<1> SUFFICES ASSUME RtcInv, ReadInv, Prompt', BeginUpdate PROVE ReadInv'
  OBVIOUS
<1>1. /\ mode' = mode /\ reg' = reg /\ now' = Later(now) /\ uip' = TRUE /\ ~uip
      /\ left' = {k \in Reg : Registers(now)[k] # Registers(Later(now))[k]}
      /\ pc' = pc /\ got' = got /\ previous' = previous /\ called' = called /\ stamp' = stamp
  BY DEF BeginUpdate, readerVars
<1>2. Face' = Face /\ Known' = Known
  BY <1>1, SameMode
<1>3. /\ now \in Known /\ now \in Times /\ now' \in Known /\ now' \in Times
      /\ called \in Known
  <2>1. now \in Known /\ called \in Known
    BY DEF ReadInv, ClockInv, During
  <2>2. now' \in Known
    BY <1>2 DEF Prompt
  <2> QED BY <2>1, <2>2, StampIn
<1>4. /\ to_timestamp(now') = to_timestamp(now) + 1
      /\ to_timestamp(now) \in Int /\ to_timestamp(called) \in Int
      /\ now'[1] # 0 => now[1] # 59
      /\ now[1] # 59 => \A k \in 2..7 : Face[now'][k] = Face[now][k]
  BY <1>1, <1>3, MinuteKept, StampIn
<1>5. ClockInv'
  <2>1. reg = Face[now]
    BY <1>1 DEF ReadInv, ClockInv
  <2>2. \A k \in Reg \ left' : reg[k] = Face[now'][k]
    <3>1. Face[now] = Registers(now) /\ Face[now'] = Registers(Later(now))
      BY <1>1, <1>3 DEF Face
    <3> QED BY <1>1, <2>1, <3>1
  <2>3. now'[1] # 0 => \A k \in 2..7 : reg[k] = Face[now'][k]
    BY <1>4, <2>1
  <2> QED BY <1>1, <1>2, <1>3, <2>2, <2>3 DEF ClockInv, Rest
<1>6. ASSUME NEW t \in Times, During(t)
      PROVE  During(t)' /\ to_timestamp(t) < to_timestamp(now')
  <2>1. t \in Known /\ to_timestamp(t) \in Int
    BY <1>6, StampIn DEF During
  <2> QED BY <1>1, <1>2, <1>4, <1>6, <2>1 DEF During
<1>7. ASSUME NEW p \in Times, Once(p) PROVE Once(p)'
  BY <1>1, <1>2, <1>6, <1>7 DEF Once
<1>8. ASSUME NEW x \in Times, Begun(x) PROVE Begun(x)'
  BY <1>1, <1>2, <1>6, <1>8 DEF Begun, Second
<1>9. ASSUME NEW p \in Times, NEW x \in Times, Before(p, x), pc = "read" PROVE Before(p, x)'
  <2>1. During(p) /\ During(p)' /\ previous'[1] = Face'[p][1]
    BY <1>1, <1>2, <1>6, <1>9 DEF Before
  <2>2. CASE Whole(previous, p)
    BY <1>1, <1>2, <2>1, <2>2 DEF Before, Whole
  <2>3. CASE to_timestamp(p) < to_timestamp(x)
    BY <2>1, <2>3 DEF Before
  <2>4. CASE p = x /\ p[1] = 0 /\ Whole(got, p) /\ Rest(reg, p) /\ Rest(Face[now], p)
    <3>1. now[1] # 59
      <4> SUFFICES ASSUME now[1] = 59 PROVE FALSE
        OBVIOUS
      <4>1. to_timestamp(p) <= to_timestamp(now) /\ to_timestamp(called) <= to_timestamp(p)
        BY <2>1 DEF During
      <4>2. to_timestamp(now) - to_timestamp(p) >= 59
        BY <1>3, <2>4, <4>1, MinuteEnd
      <4>3. to_timestamp(now') - to_timestamp(called) < 60
        BY <1>1, <1>9 DEF Prompt
      <4>4. to_timestamp(p) \in Int
        BY <2>1, StampIn DEF During
      <4> QED BY <1>4, <4>1, <4>2, <4>3, <4>4
    <3>2. \A k \in 2..7 : Face[now'][k] = Face[p][k]
      BY <1>4, <2>4, <3>1 DEF Rest
    <3>3. Rest(Face[now], p)' /\ Rest(reg, p)' /\ Whole(got, p)'
      BY <1>1, <1>2, <2>4, <3>2 DEF Rest, Whole
    <3> QED BY <2>1, <2>4, <3>3 DEF Before
  <2> QED BY <1>9, <2>2, <2>3, <2>4 DEF Before
<1>10. During(called)'
  BY <1>1, <1>3, <1>6, StampIn DEF ReadInv
<1>11. pc' = "wait" => previous' = <<>> \/ \E p \in Times : Once(p)'
  BY <1>1, <1>7 DEF ReadInv
<1>12. pc' = "read" => \E x \in Times : Begun(x)' /\ (previous' = <<>> \/ \E p \in Times : Before(p, x)')
  BY <1>1, <1>8, <1>9 DEF ReadInv
<1>13. pc' = "idle" /\ stamp' # -1 => to_timestamp(called') <= stamp' /\ stamp' <= to_timestamp(now')
  <2> SUFFICES ASSUME pc = "idle", stamp # -1
               PROVE  to_timestamp(called) <= stamp /\ stamp <= to_timestamp(now')
    BY <1>1
  <2>1. stamp \in Int /\ to_timestamp(called) <= stamp /\ stamp <= to_timestamp(now)
    BY DEF ReadInv
  <2> QED BY <1>4, <2>1
<1>14. stamp' \in Int
  BY <1>1 DEF ReadInv
<1> QED BY <1>5, <1>10, <1>11, <1>12, <1>13, <1>14 DEF ReadInv

\* A register changes.
LEMMA ReadChange == RtcInv /\ ReadInv /\ ChangeRegister => ReadInv'
<1> SUFFICES ASSUME RtcInv, ReadInv, ChangeRegister PROVE ReadInv'
  OBVIOUS
<1>1. /\ mode' = mode /\ now' = now /\ uip' = uip /\ uip
      /\ pc' = pc /\ got' = got /\ previous' = previous /\ called' = called /\ stamp' = stamp
  BY DEF ChangeRegister, readerVars
<1>2. Face' = Face /\ Known' = Known
  BY <1>1, SameMode
<1>3. PICK k : /\ k = Min(left) /\ reg' = [reg EXCEPT ![k] = Registers(now)[k]]
               /\ left' = left \ {k}
  BY DEF ChangeRegister
<1>4. k \in left /\ k \in Reg
  <2>1. left \in SUBSET Nat /\ left # {}
    <3>1. left # {}
      BY DEF ChangeRegister
    <3>2. left \subseteq Reg /\ Reg \subseteq Nat
      BY DEF RtcInv, Reg
    <3> QED BY <3>1, <3>2
  <2>2. k \in left
    BY <1>3, <2>1, MinIs
  <2> QED BY <2>2 DEF RtcInv
<1>5. now \in Known /\ now \in Times /\ Face[now] = Registers(now)
  <2>1. now \in Known
    BY DEF ReadInv, ClockInv
  <2>2. now \in Times
    BY <2>1, StampIn
  <2> QED BY <2>1, <2>2 DEF Face
<1>6. \A j \in Reg : reg'[j] = IF j = k THEN Face[now][j] ELSE reg[j]
  <2>1. reg \in [Reg -> Nat]
    BY DEF RtcInv
  <2> QED BY <1>3, <1>4, <1>5, <2>1
<1>7. ClockInv'
  <2>1. \A j \in Reg \ left' : reg'[j] = Face[now][j]
    BY <1>1, <1>3, <1>6 DEF ReadInv, ClockInv
  <2>2. now[1] # 0 => \A j \in 2..7 : reg'[j] = Face[now][j]
    BY <1>1, <1>6 DEF ReadInv, ClockInv, Rest, Reg
  <2> QED BY <1>1, <1>2, <1>5, <2>1, <2>2 DEF ClockInv, Rest
<1>8. \A t \in Times : During(t)' <=> During(t)
  BY <1>1, <1>2 DEF During
<1>9. ASSUME NEW p \in Times, Once(p) PROVE Once(p)'
  BY <1>1, <1>2, <1>8, <1>9 DEF Once, Whole
<1>10. ASSUME NEW t \in Times, Rest(Face[now], t), Rest(reg, t) PROVE Rest(reg, t)' /\ Rest(Face[now], t)'
  <2>1. \A j \in 2..7 : reg'[j] = Face[t][j]
    BY <1>6, <1>10 DEF Rest, Reg
  <2> QED BY <1>1, <1>2, <1>10, <2>1 DEF Rest
<1>10a. During(called)'
  BY <1>1, <1>2 DEF ReadInv, During
<1>10b. pc' = "wait" => previous' = <<>> \/ \E p \in Times : Once(p)'
  BY <1>1, <1>9 DEF ReadInv
<1>10c. /\ stamp' \in Int
        /\ pc' = "idle" /\ stamp' # -1 => to_timestamp(called') <= stamp' /\ stamp' <= to_timestamp(now')
  BY <1>1 DEF ReadInv
<1>10d. SUFFICES ASSUME pc = "read"
                 PROVE  \E x \in Times : /\ Begun(x)'
                                         /\ previous = <<>> \/ \E p \in Times : Before(p, x)'
  BY <1>1, <1>7, <1>10a, <1>10b, <1>10c DEF ReadInv
<1>10e. PICK x \in Times : Begun(x) /\ (previous = <<>> \/ \E p \in Times : Before(p, x))
  BY <1>10d DEF ReadInv
<1>11. CASE got # <<>> \/ k # 1
  <2>1. Second' = Second
    <3>1. got = <<>> => reg'[1] = reg[1]
      BY <1>6, <1>11 DEF Reg
    <3> QED BY <1>1, <3>1 DEF Second
  <2>2. Begun(x)'
    <3>1. x = now /\ Rest(reg, x) => Rest(reg, x)'
      <4>1. Rest(Face[now], now)
        BY DEF Rest
      <4> QED BY <1>10, <4>1
    <3> QED BY <1>1, <1>2, <1>8, <1>10e, <2>1, <3>1 DEF Begun, Whole
  <2>3. ASSUME NEW p \in Times, Before(p, x) PROVE Before(p, x)'
    BY <1>1, <1>2, <1>8, <1>10, <2>3 DEF Before, Whole
  <2> QED BY <1>10e, <2>2, <2>3
<1>12. CASE got = <<>> /\ k = 1
  <2>1. Second' = Face[now][1]
    <3>1. 1 \in Reg
      BY DEF Reg
    <3> QED BY <1>1, <1>6, <1>12, <3>1 DEF Second
  <2>2. During(now)
    BY <1>5, StampIn DEF ReadInv, During
  <2>3. Begun(now)'
    <3>1. now[1] = 0 \/ Rest(reg, now)'
      BY <1>1, <1>7 DEF ClockInv
    <3>2. Whole(got, now)'
      <4>1. \A j \in 1..Len(got) : FALSE
        BY <1>12
      <4> QED BY <1>1, <4>1 DEF Whole
    <3>3. During(now)'
      BY <1>1, <1>5, <1>8, <2>2
    <3> QED BY <1>1, <1>2, <2>1, <3>1, <3>2, <3>3 DEF Begun
  <2>4. ASSUME NEW p \in Times, Before(p, x) PROVE Before(p, now)'
    <3>1. During(p)' /\ previous'[1] = Face'[p][1] /\ During(x)
      BY <1>1, <1>2, <1>8, <1>10e, <2>4 DEF Before, Begun
    <3>2. CASE Whole(previous, p)
      BY <1>1, <1>2, <3>1, <3>2 DEF Before, Whole
    <3>3. CASE to_timestamp(p) < to_timestamp(x)
      <4>1. to_timestamp(p) < to_timestamp(now)
        <5>1. to_timestamp(x) <= to_timestamp(now) /\ x \in Known /\ p \in Known
          BY <1>2, <3>1 DEF During
        <5> QED BY <1>5, <3>3, <5>1, StampIn
      <4> QED BY <1>1, <3>1, <4>1 DEF Before
    <3>4. CASE p = x /\ p[1] = 0 /\ Whole(got, p) /\ Rest(reg, p) /\ Rest(Face[now], p)
      <4>1. CASE to_timestamp(x) < to_timestamp(now)
        BY <1>1, <3>1, <3>4, <4>1 DEF Before
      <4>2. CASE x = now
        <5>1. Rest(reg, p)' /\ Rest(Face[now], p)' /\ Whole(got, p)'
          BY <1>1, <1>2, <1>10, <3>4 DEF Whole
        <5> QED BY <1>1, <3>1, <3>4, <4>2, <5>1 DEF Before
      <4> QED BY <1>10e, <4>1, <4>2 DEF Begun
    <3> QED BY <2>4, <3>2, <3>3, <3>4 DEF Before
  <2>5. PICK n : n = now
    OBVIOUS
  <2>6. n \in Times /\ Begun(n)'
    BY <1>1, <1>5, <2>3, <2>5
  <2>7. \A p \in Times : Before(p, x) => Before(p, n)'
    BY <1>1, <2>4, <2>5
  <2> QED BY <1>10e, <2>6, <2>7
<1> QED BY <1>11, <1>12

\* The update ends.
LEMMA ReadEnd == RtcInv /\ ReadInv /\ EndUpdate => ReadInv'
<1> SUFFICES ASSUME RtcInv, ReadInv, EndUpdate PROVE ReadInv'
  OBVIOUS
<1>1. /\ mode' = mode /\ now' = now /\ reg' = reg /\ left' = left /\ left = {} /\ uip /\ uip' = FALSE
      /\ pc' = pc /\ got' = got /\ previous' = previous /\ called' = called /\ stamp' = stamp
  BY DEF EndUpdate, readerVars
<1>2. Face' = Face /\ Known' = Known
  BY <1>1, SameMode
<1>3. reg = Face[now]
  <2>1. now \in Times /\ \A k \in Reg : reg[k] = Face[now][k]
    BY <1>1, StampIn DEF ReadInv, ClockInv
  <2>2. reg \in [Reg -> Nat] /\ Face[now] \in [Reg -> Nat]
    <3>1. now \in [1..6 -> Nat] /\ Face[now] = Registers(now)
      BY <2>1 DEF Face, Times
    <3> QED BY <3>1, RegistersIn DEF RtcInv
  <2> QED BY <2>1, <2>2
<1>4. ClockInv'
  BY <1>1, <1>2, <1>3 DEF ReadInv, ClockInv
<1>5. \A t \in Times : During(t)' <=> During(t)
  BY <1>1, <1>2 DEF During
<1>6. \A t \in Times : Once(t)' <=> Once(t)
  BY <1>1, <1>2, <1>5 DEF Once, Whole
<1>7. \A t \in Times : Begun(t)' <=> Begun(t)
  BY <1>1, <1>2, <1>5 DEF Begun, Whole, Rest, Second
<1>8. \A p, x \in Times : Before(p, x)' <=> Before(p, x)
  BY <1>1, <1>2, <1>5 DEF Before, Whole, Rest
<1> QED BY <1>1, <1>2, <1>4, <1>6, <1>7, <1>8 DEF ReadInv, During

\* read_rtc is called.
LEMMA ReadCall == RtcInv /\ ReadInv /\ Call => ReadInv'
<1> SUFFICES ASSUME RtcInv, ReadInv, Call PROVE ReadInv'
  OBVIOUS
<1>1. /\ mode' = mode /\ now' = now /\ reg' = reg /\ uip' = uip /\ left' = left
      /\ pc' = "wait" /\ previous' = <<>> /\ called' = now /\ stamp' = stamp
  BY DEF Call, clockVars
<1>2. Face' = Face /\ Known' = Known
  BY <1>1, SameMode
<1>3. ClockInv'
  BY <1>1, <1>2 DEF ReadInv, ClockInv, Rest
<1>4. During(called)'
  <2>1. now \in Known /\ to_timestamp(now) \in Int
    BY StampIn DEF ReadInv, ClockInv
  <2> QED BY <1>1, <1>2, <2>1 DEF During
<1> QED BY <1>1, <1>3, <1>4 DEF ReadInv

\* The wait for the end of an update is over.
LEMMA ReadWait == RtcInv /\ ReadInv /\ Wait => ReadInv'
<1> SUFFICES ASSUME RtcInv, ReadInv, Wait PROVE ReadInv'
  OBVIOUS
<1>1. /\ mode' = mode /\ now' = now /\ reg' = reg /\ uip' = uip /\ ~uip /\ left' = left
      /\ pc = "wait" /\ pc' = "read" /\ got' = <<>>
      /\ previous' = previous /\ called' = called /\ stamp' = stamp
  BY DEF Wait, clockVars
<1>2. Face' = Face /\ Known' = Known
  BY <1>1, SameMode
<1>3. ClockInv'
  BY <1>1, <1>2 DEF ReadInv, ClockInv, Rest
<1>4. reg = Face[now] /\ now \in Known /\ now \in Times /\ to_timestamp(now) \in Int
  BY <1>1, StampIn DEF ReadInv, ClockInv
<1>5. \A t \in Times : During(t)' <=> During(t)
  BY <1>1, <1>2 DEF During
<1>6. PICK n : n = now
  OBVIOUS
<1>7. \A t : Whole(got, t)'
  <2>1. Len(got') = 0 /\ \A j \in 1..0 : FALSE
    BY <1>1
  <2> QED BY <2>1 DEF Whole
<1>8. Begun(n)'
  <2>1. During(n)
    BY <1>4, <1>6 DEF ReadInv, During
  <2>2. Second' = Face[n][1] /\ Rest(reg, n)'
    BY <1>1, <1>2, <1>4, <1>6 DEF Second, Rest
  <2> QED BY <1>1, <1>2, <1>4, <1>5, <1>6, <1>7, <2>1, <2>2 DEF Begun
<1>9. ASSUME NEW p \in Times, Once(p) PROVE Before(p, n)'
  <2>1. During(p)' /\ previous'[1] = Face'[p][1]
    BY <1>1, <1>2, <1>5, <1>9 DEF Once
  <2>2. CASE Whole(previous, p)
    BY <1>1, <1>2, <2>1, <2>2 DEF Before, Whole
  <2>3. CASE to_timestamp(p) < to_timestamp(now)
    BY <1>6, <2>1, <2>3 DEF Before
  <2>4. CASE p = now /\ p[1] = 0
    <3>1. Rest(reg, p)' /\ Rest(Face[now], p)'
      BY <1>1, <1>2, <1>4, <2>4 DEF Rest
    <3> QED BY <1>6, <1>7, <2>1, <2>4, <3>1 DEF Before
  <2> QED BY <1>9, <2>2, <2>3, <2>4 DEF Once
<1>10. During(called)'
  BY <1>1, <1>2 DEF ReadInv, During
<1>11. previous' = <<>> \/ \E p \in Times : Before(p, n)'
  BY <1>1, <1>9 DEF ReadInv
<1>12. n \in Times
  BY <1>4, <1>6
<1>13. stamp' \in Int
  BY <1>1 DEF ReadInv
<1> QED BY <1>1, <1>3, <1>8, <1>10, <1>11, <1>12, <1>13 DEF ReadInv

\* A register is read.
LEMMA ReadRead == RtcInv /\ ReadInv /\ Read => ReadInv'
<1> SUFFICES ASSUME RtcInv, ReadInv, Read PROVE ReadInv'
  OBVIOUS
<1>1. /\ mode' = mode /\ now' = now /\ reg' = reg /\ uip' = uip /\ left' = left
      /\ pc = "read" /\ pc' = "read"
      /\ previous' = previous /\ called' = called /\ stamp' = stamp
  BY DEF Read, clockVars
<1>2. Face' = Face /\ Known' = Known
  BY <1>1, SameMode
<1>3. PICK n \in 0..6 : n = Len(got) /\ got' = Append(got, reg[n + 1])
  <2>1. got \in Seq(Nat)
    BY DEF RtcInv
  <2>2. Len(got) < 7
    BY DEF Read
  <2>3. Len(got) \in Nat
    BY <2>1
  <2>4. PICK n : n = Len(got)
    OBVIOUS
  <2>5. n \in Nat /\ n < 7
    BY <2>2, <2>3, <2>4, Zenon
  <2>6. n \in 0..6
    BY <2>5
  <2> QED BY <2>4, <2>6 DEF Read
<1>4. /\ Len(got') = n + 1 /\ got'[n + 1] = reg[n + 1] /\ got' # <<>>
      /\ \A j \in 1..n : got'[j] = got[j]
      /\ got = <<>> <=> n = 0
  <2>1. got \in Seq(Nat) /\ reg[n + 1] \in Nat
    <3>1. n + 1 \in Reg
      BY DEF Reg
    <3> QED BY <3>1 DEF RtcInv
  <2>2. Len(got') = n + 1 /\ got'[n + 1] = reg[n + 1] /\ \A j \in 1..n : got'[j] = got[j]
    BY <1>3, <2>1
  <2>3. got = <<>> <=> n = 0
    BY <1>3, <2>1
  <2>4. got' # <<>>
    BY <2>2
  <2> QED BY <2>2, <2>3, <2>4
<1>5. Second' = Second
  <2>1. CASE n = 0
    BY <1>4, <2>1 DEF Second
  <2>2. CASE n # 0
    <3>1. 1 \in 1..n
      BY <2>2
    <3> QED BY <1>4, <2>2, <3>1 DEF Second
  <2> QED BY <2>1, <2>2
<1>6. \A t \in Times : During(t)' <=> During(t)
  BY <1>1, <1>2 DEF During
<1>7. \A t \in Times : (Rest(reg, t)' <=> Rest(reg, t)) /\ (Rest(Face[now], t)' <=> Rest(Face[now], t))
  BY <1>1, <1>2 DEF Rest
<1>8. ASSUME NEW t \in Times, Whole(got, t), Rest(reg, t), Second = Face[t][1]
      PROVE  Whole(got, t)'
  <2> SUFFICES ASSUME NEW j \in 1..n + 1 PROVE got'[j] = Face[t][j]
    BY <1>2, <1>4 DEF Whole
  <2>1. CASE j \in 1..n
    BY <1>3, <1>4, <1>8, <2>1 DEF Whole
  <2>2. CASE j = n + 1 /\ n # 0
    <3>1. j \in 2..7
      BY <2>2
    <3> QED BY <1>4, <1>8, <2>2, <3>1 DEF Rest
  <2>3. CASE j = n + 1 /\ n = 0
    BY <1>4, <1>8, <2>3 DEF Second
  <2> QED BY <2>1, <2>2, <2>3
<1>9. PICK x \in Times : Begun(x) /\ (previous = <<>> \/ \E p \in Times : Before(p, x))
  BY <1>1 DEF ReadInv
<1>10. Begun(x)'
  BY <1>1, <1>2, <1>5, <1>6, <1>7, <1>8, <1>9 DEF Begun
<1>11. ASSUME NEW p \in Times, Before(p, x) PROVE Before(p, x)'
  <2>1. During(p)' /\ previous'[1] = Face'[p][1]
    BY <1>1, <1>2, <1>6, <1>11 DEF Before
  <2>2. CASE Whole(previous, p)
    BY <1>1, <1>2, <2>1, <2>2 DEF Before, Whole
  <2>3. CASE to_timestamp(p) < to_timestamp(x)
    BY <2>1, <2>3 DEF Before
  <2>4. CASE p = x /\ p[1] = 0 /\ Whole(got, p) /\ Rest(reg, p) /\ Rest(Face[now], p)
    <3>1. Whole(got, p)'
      BY <1>8, <1>9, <2>4 DEF Begun
    <3> QED BY <1>7, <2>1, <2>4, <3>1 DEF Before
  <2> QED BY <1>11, <2>2, <2>3, <2>4 DEF Before
<1>12. ClockInv'
  BY <1>1, <1>2 DEF ReadInv, ClockInv, Rest
<1>13. During(called)'
  BY <1>1, <1>2 DEF ReadInv, During
<1>14. previous' = <<>> \/ \E p \in Times : Before(p, x)'
  BY <1>1, <1>9, <1>11
<1>15. stamp' \in Int
  BY <1>1 DEF ReadInv
<1> QED BY <1>1, <1>10, <1>12, <1>13, <1>14, <1>15 DEF ReadInv

\* The reading is complete and compared to the one before it.
LEMMA ReadCompare == RtcInv /\ ReadInv /\ Prompt /\ Compare => ReadInv'
<1> SUFFICES ASSUME RtcInv, ReadInv, Prompt, Compare PROVE ReadInv'
  OBVIOUS
<1>1. /\ mode' = mode /\ now' = now /\ reg' = reg /\ uip' = uip /\ left' = left
      /\ pc = "read" /\ got' = got /\ called' = called
      /\ got \in Seq(Nat) /\ Len(got) = 7
  BY DEF Compare, clockVars, RtcInv
<1>2. Face' = Face /\ Known' = Known
  BY <1>1, SameMode
<1>3. ClockInv'
  BY <1>1, <1>2 DEF ReadInv, ClockInv, Rest
<1>4. During(called)'
  BY <1>1, <1>2 DEF ReadInv, During
<1>5. PICK x \in Times : Begun(x) /\ (previous = <<>> \/ \E p \in Times : Before(p, x))
  BY <1>1 DEF ReadInv
<1>6. got # <<>> /\ got[1] = Face[x][1]
  <2>1. Len(<<>>) # 7
    OBVIOUS
  <2>2. got # <<>>
    BY <1>1, <2>1
  <2> QED BY <1>5, <2>2 DEF Begun, Second
<1>7. CASE got # previous
  <2>1. pc' = "wait" /\ previous' = got /\ stamp' = stamp
    BY <1>7 DEF Compare
  <2>2. Once(x)'
    <3>1. During(x)' /\ previous'[1] = Face'[x][1]
      BY <1>1, <1>2, <1>5, <1>6, <2>1 DEF Begun, During
    <3>2. Whole(got, x) => Whole(previous, x)'
      BY <1>2, <2>1 DEF Whole
    <3> QED BY <1>1, <1>5, <3>1, <3>2 DEF Begun, Once
  <2>3. stamp' \in Int
    BY <2>1 DEF ReadInv
  <2> QED BY <1>3, <1>4, <2>1, <2>2, <2>3 DEF ReadInv
<1>8. CASE got = previous
  <2>1. pc' = "idle" /\ stamp' = to_timestamp(TimeOf(got))
    BY <1>8 DEF Compare
  <2>2. PICK p \in Times : Before(p, x)
    BY <1>5, <1>6, <1>8
  <2>3. p \in Known /\ x \in Known /\ During(p) /\ During(x) /\ called \in Known
    BY <1>5, <2>2 DEF Before, Begun, During, ReadInv
  <2>4. Whole(got, p)
    <3>1. ~ (to_timestamp(p) < to_timestamp(x))
      <4> SUFFICES ASSUME to_timestamp(p) < to_timestamp(x) PROVE FALSE
        OBVIOUS
      <4>1. Face[p][1] = Face[x][1]
        BY <1>6, <1>8, <2>2 DEF Before
      <4>2. to_timestamp(x) - to_timestamp(p) >= 60
        BY <4>1, MinuteApart
      <4>3. to_timestamp(now) - to_timestamp(called) < 60
        BY <1>1 DEF Prompt
      <4>4. /\ to_timestamp(called) <= to_timestamp(p)
            /\ to_timestamp(x) <= to_timestamp(now)
        BY <2>3 DEF During
      <4>5. /\ to_timestamp(p) \in Int /\ to_timestamp(x) \in Int
            /\ to_timestamp(called) \in Int /\ to_timestamp(now) \in Int
        BY <2>3, StampIn DEF ReadInv, ClockInv
      <4> QED BY <4>2, <4>3, <4>4, <4>5
    <3> QED BY <1>8, <2>2, <3>1 DEF Before
  <2>5. TimeOf(got) = p
    <3>1. \A k \in 1..7 : got[k] = Face[p][k]
      BY <1>1, <2>4 DEF Whole
    <3> QED BY <1>1, <2>3, <3>1, WholeReading
  <2>6. /\ stamp' \in Int /\ to_timestamp(called') <= stamp' /\ stamp' <= to_timestamp(now')
    BY <1>1, <2>1, <2>3, <2>5, StampIn DEF During
  <2> QED BY <1>3, <1>4, <2>1, <2>6 DEF ReadInv
<1> QED BY <1>7, <1>8

\* Each step keeps it.
LEMMA ReadStep == RtcInv /\ ReadInv /\ Prompt /\ Prompt' /\ [Next]_vars => ReadInv'
<1> SUFFICES ASSUME RtcInv, ReadInv, Prompt, Prompt', [Next]_vars PROVE ReadInv'
  OBVIOUS
<1>1. CASE UNCHANGED vars
  <2>1. /\ mode' = mode /\ now' = now /\ reg' = reg /\ uip' = uip /\ left' = left
        /\ pc' = pc /\ got' = got /\ previous' = previous /\ called' = called /\ stamp' = stamp
    BY <1>1 DEF vars
  <2>2. Face' = Face /\ Known' = Known
    BY <2>1, SameMode
  <2>3. \A t : During(t)' <=> During(t)
    BY <2>1, <2>2 DEF During
  <2>4. \A t : (Once(t)' <=> Once(t)) /\ (Begun(t)' <=> Begun(t))
    BY <2>1, <2>2, <2>3 DEF Once, Begun, Whole, Rest, Second
  <2>5. \A p, x : Before(p, x)' <=> Before(p, x)
    BY <2>1, <2>2, <2>3 DEF Before, Whole, Rest
  <2>6. ClockInv' /\ During(called)'
    BY <2>1, <2>2 DEF ReadInv, ClockInv, During, Rest
  <2> QED BY <2>1, <2>4, <2>5, <2>6 DEF ReadInv
<1> QED BY <1>1, ReadBegin, ReadChange, ReadEnd, ReadCall, ReadWait, ReadRead, ReadCompare
        DEF Next, Reader

\* TimeWas: what get_timestamp returns is the number of seconds, by the
\* calendar, of a time between its call and its return, however its register
\* reads and the clock's updates interleave, if it is held up for less than a
\* minute.  (A reader held up for an hour may take the same mixture twice.)
THEOREM PromptReadingWas == Spec /\ []Prompt => []TimeWas
<1>1. ReadInv => TimeWas
  <2> SUFFICES ASSUME ReadInv, stamp # -1, pc = "idle"
               PROVE  stamp \in Seconds(called)..Seconds(now)
    BY DEF TimeWas
  <2>1. now \in Known /\ called \in Known
    BY DEF ReadInv, ClockInv, During
  <2>2. /\ to_timestamp(now) = Seconds(now) /\ to_timestamp(called) = Seconds(called)
        /\ to_timestamp(now) \in Int /\ to_timestamp(called) \in Int
    BY <2>1, TimestampIsCalendar, StampIn DEF Known
  <2>3. stamp \in Int /\ to_timestamp(called) <= stamp /\ stamp <= to_timestamp(now)
    BY DEF ReadInv
  <2> QED BY <2>2, <2>3
<1> QED BY <1>1, RtcAlways, ReadInit, ReadStep, PTL DEF Spec
=============================================================================
