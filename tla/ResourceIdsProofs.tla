--------------------------- MODULE ResourceIdsProofs ---------------------------
EXTENDS ResourceIds, FiniteSetTheorems, SequenceTheorems, TLAPS

--------------------------------------------------------------------------------
(* Induction *)

\* A set of natural numbers has a least one: a statement about all numbers is proved by way of
\* the least that it does not hold of.
LEMMA LeastNumber ==
  ASSUME NEW T \in SUBSET Nat, T # {}
  PROVE  \E x \in T : \A y \in T : x <= y
  <1>1. PICK n \in T : TRUE
    OBVIOUS
  <1> DEFINE S == 0 .. n
             U == {0 .. k : k \in T \cap S}
  <1>2. IsFiniteSet(S)
    BY FS_Interval
  <1>3. IsWellFoundedOn(StrictSubsetOrdering(S), FiniteSubsetsOf(S))
    BY FS_StrictSubsetOrderingWellFounded
  <1>4. U \subseteq SUBSET S /\ U # {}
    <2>1. \A k \in T \cap S : 0 .. k \subseteq S
      OBVIOUS
    <2>2. n \in T \cap S
      OBVIOUS
    <2>3. QED
      BY <2>1, <2>2
  <1>5. U \subseteq FiniteSubsetsOf(S)
    BY <1>2, <1>4, FS_Subset DEF FiniteSubsetsOf
  <1>6. PICK s \in U : \A t \in U : ~(<<t, s>> \in StrictSubsetOrdering(S))
    <2> HIDE DEF U, S
    <2> QED
      BY <1>3, <1>4, <1>5, WFMin
  <1>7. PICK x \in T \cap S : s = 0 .. x
    BY <1>6
  <1>8. \A y \in T : x <= y
    <2> SUFFICES ASSUME NEW y \in T, y < x PROVE FALSE
      BY <1>7
    <2>1. y \in T \cap S /\ 0 .. y \in U
      BY <1>7
    <2>2. 0 .. y \subseteq 0 .. x /\ 0 .. y # 0 .. x /\ 0 .. x \in SUBSET S /\ 0 .. y \in SUBSET S
      <3>1. x \in 0 .. x /\ x \notin 0 .. y
        BY <1>7
      <3>2. QED
        BY <3>1, <1>7
    <2>3. <<0 .. y, s>> \in StrictSubsetOrdering(S)
      BY <1>7, <2>2 DEF StrictSubsetOrdering
    <2>4. QED
      BY <2>1, <2>3, <1>6
  <1>9. QED
    BY <1>7, <1>8

--------------------------------------------------------------------------------
(* Decimal numbers *)

DigitChars == {Digits[i] : i \in 1 .. 10}

LEMMA DigitsAreDigits ==
  /\ \A n \in 0 .. 9 : Digits[n + 1] \in DigitChars /\ DigitValue(Digits[n + 1]) = n
  /\ \A ch \in DigitChars : ch # "-" /\ DigitValue(ch) \in 0 .. 9
  <1>1. \A n \in 0 .. 9 : Digits[n + 1] \in DigitChars /\ DigitValue(Digits[n + 1]) = n
    BY DEF DigitValue, Digits, DigitChars
  <1>2. \A ch \in DigitChars : \E n \in 0 .. 9 : ch = Digits[n + 1]
    BY DEF DigitChars
  <1>3. \A ch \in DigitChars : ch # "-"
    BY DEF DigitChars, Digits
  <1>4. QED
    BY <1>1, <1>2, <1>3

\* The definition of decimal, for a function g.
Decimal(g, n) == IF n < 10 THEN <<Digits[n + 1]>> ELSE Append(g[n \div 10], Digits[(n % 10) + 1])

LEMMA Division == \A n \in Nat : /\ n \div 10 \in Nat /\ n % 10 \in 0 .. 9
                                 /\ n = 10 * (n \div 10) + (n % 10)
                                 /\ n >= 10 => n \div 10 < n /\ n \div 10 > 0
  OBVIOUS

\* There is such a function: the definition says what decimal is.
LEMMA DecimalDefined == \A n \in Nat : decimal[n] = Decimal(decimal, n)
  <1> DEFINE UpTo(g, k) == g = [n \in 0 .. k |-> Decimal(g, n)]
             Bad == {k \in Nat : ~(\E g : UpTo(g, k))}
  <1>1. Bad = {}
    <2> SUFFICES ASSUME Bad # {} PROVE FALSE
      OBVIOUS
    <2>1. PICK k \in Bad : \A j \in Bad : k <= j
      BY LeastNumber
    <2>2. CASE k = 0
      <3> DEFINE g == [n \in 0 .. 0 |-> <<Digits[n + 1]>>]
      <3>1. g = [n \in 0 .. 0 |-> Decimal(g, n)]
        BY DEF Decimal
      <3>2. QED
        BY <3>1, <2>1, <2>2
    <2>3. CASE k # 0
      <3>1. k - 1 \in Nat /\ k - 1 \notin Bad
        BY <2>1, <2>3
      <3>2. PICK h : UpTo(h, k - 1)
        BY <3>1
      <3> DEFINE g == [n \in 0 .. k |-> Decimal(h, n)]
      <3>3. \A n \in 0 .. k : g[n] = Decimal(h, n)
        OBVIOUS
      <3>4. \A n \in 0 .. (k - 1) : h[n] = Decimal(h, n)
        BY <3>2
      <3>5. \A n \in 0 .. k : n >= 10 => n \div 10 \in 0 .. (k - 1)
        BY <2>1, Division
      <3>6. \A n \in 0 .. k : n >= 10 => g[n \div 10] = h[n \div 10]
        <4> HIDE DEF g
        <4> QED
        BY <3>1, <3>3, <3>4, <3>5
      <3>7. \A n \in 0 .. k : Decimal(h, n) = Decimal(g, n)
        <4> HIDE DEF g
        <4> QED
        BY <3>6, <2>1 DEF Decimal
      <3>8. UpTo(g, k)
        BY <3>7
      <3>9. QED
        BY <3>8, <2>1
    <2>4. QED
      BY <2>2, <2>3
  <1> DEFINE G(k) == CHOOSE g : UpTo(g, k)
             f == [n \in Nat |-> G(n)[n]]
  <1>2. \A k \in Nat : UpTo(G(k), k)
    BY <1>1
  <1>3. \A k \in Nat : \A n \in 0 .. k : G(k)[n] = Decimal(G(k), n)
    <2> SUFFICES ASSUME NEW k \in Nat, NEW n \in 0 .. k PROVE G(k)[n] = Decimal(G(k), n)
      OBVIOUS
    <2>1. G(k) = [i \in 0 .. k |-> Decimal(G(k), i)]
      BY <1>2
    <2> HIDE DEF G
    <2>2. QED
      BY <2>1
  <1> HIDE DEF G, UpTo
  <1>4. \A k \in Nat : \A n \in 0 .. k : G(k)[n] = G(n)[n]
    <2> SUFFICES ASSUME NEW k \in Nat PROVE \A n \in 0 .. k : G(k)[n] = G(n)[n]
      OBVIOUS
    <2> DEFINE Differ == {n \in 0 .. k : \E l \in Nat : n <= l /\ G(k)[n] # G(l)[n]}
    <2>1. Differ = {}
      <3> SUFFICES ASSUME Differ # {} PROVE FALSE
        OBVIOUS
      <3>1. PICK n \in Differ : \A j \in Differ : n <= j
        <4>1. Differ \in SUBSET Nat
          OBVIOUS
        <4> HIDE DEF Differ
        <4>2. QED
          BY <4>1, LeastNumber
      <3>2. PICK l \in Nat : n <= l /\ G(k)[n] # G(l)[n]
        BY <3>1
      <3>3. n >= 10 => n \div 10 \in 0 .. k /\ n \div 10 < n
        BY <3>1, Division
      <3>4. n >= 10 => G(k)[n \div 10] = G(l)[n \div 10]
        BY <3>1, <3>2, <3>3
      <3>5. G(k)[n] = Decimal(G(k), n) /\ G(l)[n] = Decimal(G(l), n)
        BY <1>3, <3>1, <3>2
      <3>6. Decimal(G(k), n) = Decimal(G(l), n)
        BY <3>4, <3>1 DEF Decimal
      <3>7. QED
        BY <3>2, <3>5, <3>6
    <2>2. QED
      BY <2>1
  <1>5. \A n \in Nat : f[n] = Decimal(f, n)
    <2> SUFFICES ASSUME NEW n \in Nat PROVE f[n] = Decimal(f, n)
      OBVIOUS
    <2>1. f[n] = Decimal(G(n), n)
      BY <1>3
    <2>2. n >= 10 => n \div 10 \in 0 .. n
      BY Division
    <2>3. n >= 10 => G(n)[n \div 10] = f[n \div 10]
      BY <2>2, <1>4
    <2>4. Decimal(G(n), n) = Decimal(f, n)
      <3> HIDE DEF f
      <3> QED
        BY <2>3 DEF Decimal
    <2>5. QED
      BY <2>1, <2>4
  <1>6. f = [n \in Nat |-> Decimal(f, n)]
    <2>1. f = [n \in Nat |-> f[n]]
      BY SMTT(30)
    <2> HIDE DEF f
    <2>2. QED
      BY <1>5, <2>1
  <1>7. decimal = [n \in Nat |-> Decimal(decimal, n)]
    <2> HIDE DEF f
    <2> QED
      BY <1>6 DEF decimal, Decimal
  <1>8. QED
    BY <1>7

\* Numbers are written with digits.
LEMMA DecimalHasDigits == \A n \in Nat : decimal[n] \in Seq(DigitChars) /\ decimal[n] # <<>>
  <1> DEFINE Bad == {n \in Nat : ~(decimal[n] \in Seq(DigitChars) /\ decimal[n] # <<>>)}
  <1> SUFFICES ASSUME Bad # {} PROVE FALSE
    OBVIOUS
  <1>1. PICK n \in Nat : /\ ~(decimal[n] \in Seq(DigitChars) /\ decimal[n] # <<>>)
                         /\ \A j \in 0 .. (n - 1) : decimal[j] \in Seq(DigitChars)
    <2>1. PICK n \in Bad : \A j \in Bad : n <= j
      BY LeastNumber
    <2>2. \A j \in 0 .. (n - 1) : j \in Nat /\ ~(n <= j)
      BY <2>1
    <2>3. \A j \in 0 .. (n - 1) : decimal[j] \in Seq(DigitChars)
      BY <2>1, <2>2
    <2>4. QED
      BY <2>1, <2>3
  <1> HIDE DEF Bad
  <1>2. CASE n < 10
    <2>1. decimal[n] = <<Digits[n + 1]>>
      BY <1>2, DecimalDefined DEF Decimal
    <2>2. Digits[n + 1] \in DigitChars
      BY <1>2, DigitsAreDigits
    <2>3. QED
      BY <1>1, <2>1, <2>2
  <1>3. CASE n >= 10
    <2>1. decimal[n] = Append(decimal[n \div 10], Digits[(n % 10) + 1])
      <3>1. ~(n < 10) /\ decimal[n] = Decimal(decimal, n)
        BY <1>3, DecimalDefined
      <3>2. QED
        BY <3>1, Zenon DEF Decimal
    <2>2. n \div 10 \in Nat /\ n \div 10 < n /\ n % 10 \in 0 .. 9
      BY <1>1, <1>3, Division
    <2>3. decimal[n \div 10] \in Seq(DigitChars) /\ Digits[(n % 10) + 1] \in DigitChars
      BY <1>1, <2>2, DigitsAreDigits
    <2>4. decimal[n] \in Seq(DigitChars) /\ decimal[n] # <<>>
      <3> DEFINE s == decimal[n \div 10]
                 d == Digits[(n % 10) + 1]
      <3>1. Append(s, d) \in Seq(DigitChars) /\ Append(s, d) # <<>>
        <4>1. s \in Seq(DigitChars) /\ d \in DigitChars
          BY <2>3
        <4> HIDE DEF s, d
        <4>2. QED
          BY <4>1, AppendProperties
      <3>2. QED
        BY <3>1, <2>1
    <2>5. QED
      BY <1>1, <2>4
  <1>4. QED
    BY <1>1, <1>2, <1>3

\* What Number adds up, character by character.
Adds(v, text) ==
  v = [i \in 0 .. Len(text) |-> IF i = 0 THEN 0 ELSE 10 * v[i - 1] + DigitValue(text[i])]

LEMMA SumAtEach ==
  ASSUME NEW text \in Seq(DigitChars), NEW v, Adds(v, text)
  PROVE  /\ v[0] = 0
         /\ \A i \in 1 .. Len(text) : v[i] = 10 * v[i - 1] + DigitValue(text[i])
  <1>1. \A i \in 0 .. Len(text) :
          v[i] = IF i = 0 THEN 0 ELSE 10 * v[i - 1] + DigitValue(text[i])
    BY DEF Adds
  <1>2. 0 \in 0 .. Len(text) /\ \A i \in 1 .. Len(text) : i \in 0 .. Len(text) /\ i # 0
    OBVIOUS
  <1>3. QED
    BY <1>1, <1>2

LEMMA NumberDefined ==
  ASSUME NEW text \in Seq(DigitChars)
  PROVE  \E v : Adds(v, text) /\ Number(text) = v[Len(text)]
  <1> DEFINE Step(v, i) == IF i = 0 THEN 0 ELSE 10 * v[i - 1] + DigitValue(text[i])
             UpTo(v, k) == v = [i \in 0 .. k |-> Step(v, i)]
             Bad == {k \in Nat : ~(\E v : UpTo(v, k))}
  <1>1. Bad = {}
    <2> SUFFICES ASSUME Bad # {} PROVE FALSE
      OBVIOUS
    <2>1. PICK k \in Bad : \A j \in Bad : k <= j
      BY LeastNumber
    <2>2. CASE k = 0
      <3> DEFINE v == [i \in 0 .. 0 |-> 0]
      <3>1. v = [i \in 0 .. 0 |-> Step(v, i)]
        OBVIOUS
      <3>2. QED
        BY <3>1, <2>1, <2>2
    <2>3. CASE k # 0
      <3>1. k - 1 \in Nat /\ k - 1 \notin Bad
        <4>1. k \in Nat
          BY <2>1
        <4> HIDE DEF Bad
        <4>2. QED
          BY <4>1, <2>1, <2>3
      <3>2. PICK u : UpTo(u, k - 1)
        BY <3>1
      <3> DEFINE v == [i \in 0 .. k |-> Step(u, i)]
      <3>3. \A i \in 0 .. k : v[i] = Step(u, i)
        OBVIOUS
      <3>4. \A i \in 0 .. (k - 1) : u[i] = Step(u, i)
        BY <3>2
      <3>5. \A i \in 0 .. k : i # 0 => i - 1 \in 0 .. (k - 1) /\ i - 1 \in 0 .. k
        BY <2>1
      <3>6. \A i \in 0 .. k : i # 0 => v[i - 1] = u[i - 1]
        <4> HIDE DEF v, Step
        <4> QED
        BY <3>3, <3>4, <3>5
      <3>7. \A i \in 0 .. k : Step(u, i) = Step(v, i)
        <4> HIDE DEF v
        <4> QED
        BY <3>6
      <3>8. UpTo(v, k)
        BY <3>7
      <3>9. QED
        BY <3>8, <2>1
    <2>4. QED
      BY <2>2, <2>3
  <1>2. Len(text) \in Nat
    OBVIOUS
  <1>3. \E v : v = [i \in 0 .. Len(text) |-> IF i = 0 THEN 0 ELSE 10 * v[i - 1] + DigitValue(text[i])]
    BY <1>1, <1>2
  <1> DEFINE value == CHOOSE v : v = [i \in 0 .. Len(text) |->
                                      IF i = 0 THEN 0 ELSE 10 * v[i - 1] + DigitValue(text[i])]
  <1>4. Adds(value, text)
    <2> HIDE DEF Bad
    <2> QED
      BY <1>3 DEF Adds
  <1>5. Number(text) = value[Len(text)]
    BY DEF Number
  <1>6. QED
    BY <1>4, <1>5

\* The sum up to a character depends on the characters up to there.
LEMMA SumsAgree ==
  ASSUME NEW s \in Seq(DigitChars), NEW t \in Seq(DigitChars), Len(s) <= Len(t),
         \A i \in 1 .. Len(s) : s[i] = t[i], NEW u, NEW v, Adds(u, s), Adds(v, t)
  PROVE  \A i \in 0 .. Len(s) : u[i] = v[i] /\ u[i] \in Nat
  <1> DEFINE Bad == {i \in 0 .. Len(s) : ~(u[i] = v[i] /\ u[i] \in Nat)}
  <1> SUFFICES ASSUME Bad # {} PROVE FALSE
    OBVIOUS
  <1>1. PICK i \in 0 .. Len(s) : /\ ~(u[i] = v[i] /\ u[i] \in Nat)
                                 /\ i # 0 => u[i - 1] = v[i - 1] /\ u[i - 1] \in Nat
    <2>1. Bad \in SUBSET Nat
      OBVIOUS
    <2>2. PICK i \in Bad : \A j \in Bad : i <= j
      <3> HIDE DEF Bad
      <3> QED
        BY <2>1, LeastNumber
    <2>3. i # 0 => i - 1 \in 0 .. Len(s) /\ ~(i <= i - 1)
      BY <2>2
    <2>4. QED
      BY <2>2, <2>3
  <1> HIDE DEF Bad
  <1>2. /\ i = 0 => u[i] = 0 /\ v[i] = 0
        /\ i # 0 => /\ u[i] = 10 * u[i - 1] + DigitValue(s[i])
                    /\ v[i] = 10 * v[i - 1] + DigitValue(t[i])
    <2>1. Len(s) \in Nat /\ Len(t) \in Nat
      OBVIOUS
    <2>2. i # 0 => i \in 1 .. Len(s) /\ i \in 1 .. Len(t)
      BY <2>1
    <2>3. QED
      BY <2>2, SumAtEach
  <1>3. i # 0 => s[i] = t[i] /\ DigitValue(s[i]) \in Nat
    BY DigitsAreDigits
  <1>4. QED
    BY <1>1, <1>2, <1>3

LEMMA NumberIsNatural == \A text \in Seq(DigitChars) : Number(text) \in Nat
  BY NumberDefined, SumsAgree

LEMMA NumberOfNothing == Number(<<>>) = 0
  <1>1. <<>> \in Seq(DigitChars) /\ Len(<<>>) = 0
    OBVIOUS
  <1>2. PICK v : Adds(v, <<>>) /\ Number(<<>>) = v[0]
    BY <1>1, NumberDefined
  <1>3. QED
    BY <1>1, <1>2 DEF Adds

LEMMA NumberOfAppended ==
  ASSUME NEW s \in Seq(DigitChars), NEW ch \in DigitChars
  PROVE  Number(Append(s, ch)) = 10 * Number(s) + DigitValue(ch)
  <1> DEFINE t == Append(s, ch)
  <1>1. /\ t \in Seq(DigitChars) /\ Len(t) = Len(s) + 1 /\ t[Len(s) + 1] = ch
        /\ \A i \in 1 .. Len(s) : s[i] = t[i]
    OBVIOUS
  <1> HIDE DEF t
  <1>2. PICK u : Adds(u, s) /\ Number(s) = u[Len(s)]
    BY NumberDefined
  <1>3. PICK v : Adds(v, t) /\ Number(t) = v[Len(t)]
    BY <1>1, NumberDefined
  <1>4. u[Len(s)] = v[Len(s)]
    BY <1>1, <1>2, <1>3, SumsAgree
  <1>5. v[Len(s) + 1] = 10 * v[Len(s)] + DigitValue(t[Len(s) + 1])
    <2>1. Len(s) + 1 \in 1 .. Len(t) /\ (Len(s) + 1) - 1 = Len(s)
      BY <1>1
    <2>2. QED
      BY <1>1, <1>3, <2>1, SumAtEach
  <1>6. QED
    BY <1>1, <1>2, <1>3, <1>4, <1>5 DEF t

\* A zero before a number does not change it.
LEMMA NumberOfPadded == \A s \in Seq(DigitChars) : Number(<<"0">> \o s) = Number(s)
  <1> SUFFICES ASSUME NEW s \in Seq(DigitChars) PROVE Number(<<"0">> \o s) = Number(s)
    OBVIOUS
  <1> DEFINE t == <<"0">> \o s
  <1>1. "0" \in DigitChars /\ DigitValue("0") = 0
    <2>1. Digits[0 + 1] = "0"
      BY DEF Digits
    <2>2. QED
      BY <2>1, DigitsAreDigits
  <1>2. /\ t \in Seq(DigitChars) /\ Len(t) = Len(s) + 1 /\ t[1] = "0"
        /\ \A i \in 1 .. Len(s) : t[i + 1] = s[i]
    BY <1>1
  <1> HIDE DEF t
  <1>3. PICK u : Adds(u, s) /\ Number(s) = u[Len(s)]
    BY NumberDefined
  <1>4. PICK v : Adds(v, t) /\ Number(t) = v[Len(t)]
    BY <1>2, NumberDefined
  <1> DEFINE Bad == {i \in 0 .. Len(s) : v[i + 1] # u[i]}
  <1>5. Bad = {}
    <2> SUFFICES ASSUME Bad # {} PROVE FALSE
      OBVIOUS
    <2>1. PICK i \in 0 .. Len(s) : v[i + 1] # u[i] /\ (i # 0 => v[i] = u[i - 1])
      <3>1. Bad \in SUBSET Nat
        OBVIOUS
      <3>2. PICK i \in Bad : \A j \in Bad : i <= j
        <4> HIDE DEF Bad
        <4> QED
          BY <3>1, LeastNumber
      <3>3. i # 0 => i - 1 \in 0 .. Len(s) /\ ~(i <= i - 1) /\ (i - 1) + 1 = i
        BY <3>2
      <3>4. QED
        BY <3>2, <3>3
    <2> HIDE DEF Bad
    <2>2. v[i + 1] = 10 * v[i] + DigitValue(t[i + 1]) /\ v[0] = 0
      <3>1. i + 1 \in 1 .. Len(t) /\ (i + 1) - 1 = i
        BY <1>2
      <3>2. QED
        BY <3>1, <1>2, <1>4, SumAtEach
    <2>3. u[0] = 0 /\ (i # 0 => u[i] = 10 * u[i - 1] + DigitValue(s[i]))
      <3>1. i # 0 => i \in 1 .. Len(s)
        OBVIOUS
      <3>2. QED
        BY <3>1, <1>3, SumAtEach
    <2>4. QED
      BY <1>1, <1>2, <2>1, <2>2, <2>3
  <1>6. v[Len(s) + 1] = u[Len(s)]
    BY <1>5
  <1>7. QED
    BY <1>2, <1>3, <1>4, <1>6 DEF t

\* A number comes back from its digits.
LEMMA NumberOfDecimal == \A n \in Nat : Number(decimal[n]) = n
  <1> DEFINE Bad == {n \in Nat : Number(decimal[n]) # n}
  <1> SUFFICES ASSUME Bad # {} PROVE FALSE
    OBVIOUS
  <1>1. PICK n \in Nat : /\ Number(decimal[n]) # n
                         /\ \A j \in 0 .. (n - 1) : Number(decimal[j]) = j
    <2>1. PICK n \in Bad : \A j \in Bad : n <= j
      BY LeastNumber
    <2>2. \A j \in 0 .. (n - 1) : j \in Nat /\ ~(n <= j)
      BY <2>1
    <2>3. QED
      BY <2>1, <2>2
  <1> HIDE DEF Bad
  <1>2. decimal[n] = Decimal(decimal, n)
    BY DecimalDefined
  <1>3. CASE n < 10
    <2>1. decimal[n] = <<Digits[n + 1]>>
      BY <1>2, <1>3 DEF Decimal
    <2>2. Digits[n + 1] \in DigitChars /\ DigitValue(Digits[n + 1]) = n
      BY <1>3, DigitsAreDigits
    <2>3. decimal[n] = Append(<<>>, Digits[n + 1])
      BY <2>1
    <2>4. <<>> \in Seq(DigitChars)
      OBVIOUS
    <2>5. Number(Append(<<>>, Digits[n + 1])) = 10 * 0 + n
      BY <2>2, <2>4, NumberOfAppended, NumberOfNothing
    <2>6. QED
      BY <1>1, <2>3, <2>5
  <1>4. CASE n >= 10
    <2> DEFINE q == n \div 10
               d == n % 10
    <2>1. q \in 0 .. (n - 1) /\ d \in 0 .. 9 /\ n = 10 * q + d
      BY <1>4, Division
    <2>2. decimal[n] = Append(decimal[q], Digits[d + 1])
      <3>1. ~(n < 10)
        BY <1>4
      <3>2. QED
        BY <1>2, <3>1, Zenon DEF Decimal
    <2> HIDE DEF q, d
    <2>3. decimal[q] \in Seq(DigitChars) /\ Digits[d + 1] \in DigitChars
          /\ DigitValue(Digits[d + 1]) = d
      <3>1. q \in Nat
        BY <2>1
      <3>2. QED
        BY <2>1, <3>1, DecimalHasDigits, DigitsAreDigits
    <2>4. Number(decimal[n]) = 10 * Number(decimal[q]) + d
      BY <2>2, <2>3, NumberOfAppended
    <2>5. QED
      BY <1>1, <2>1, <2>4
  <1>5. QED
    BY <1>3, <1>4

--------------------------------------------------------------------------------
(* Weights *)

LEMMA ZerosKeepNumber ==
  ASSUME NEW z \in Int, z <= 2, NEW s \in Seq(DigitChars), s # <<>>
  PROVE  LET t == [i \in 1 .. z |-> "0"] \o s
         IN  t \in Seq(DigitChars) /\ t # <<>> /\ Number(t) = Number(s)
  <1> DEFINE Z == [i \in 1 .. z |-> "0"]
  <1>1. "0" \in DigitChars
    <2>1. Digits[0 + 1] = "0"
      BY DEF Digits
    <2>2. QED
      BY <2>1, DigitsAreDigits
  <1>2. <<"0">> \o s \in Seq(DigitChars) /\ <<"0">> \o s # <<>>
    BY <1>1
  <1>3. CASE z <= 0
    <2>1. Z = <<>>
      BY <1>3
    <2>2. <<>> \o s = s
      BY ConcatEmptySeq
    <2>3. QED
      BY <2>1, <2>2
  <1>4. CASE z = 1
    <2>1. Z = <<"0">>
      BY <1>4
    <2>2. QED
      BY <2>1, <1>2, NumberOfPadded
  <1>5. CASE z = 2
    <2>1. Z = <<"0", "0">>
      BY <1>5
    <2> DEFINE t == <<"0">> \o s
    <2>2. Z \o s = <<"0">> \o t
      <3>1. <<"0">> \in Seq(DigitChars) /\ <<"0", "0">> = <<"0">> \o <<"0">>
        BY <1>1
      <3>2. (<<"0">> \o <<"0">>) \o s = <<"0">> \o (<<"0">> \o s)
        BY <3>1, ConcatAssociative
      <3>3. QED
        BY <2>1, <3>1, <3>2
    <2>3. t \in Seq(DigitChars) /\ Number(t) = Number(s)
      BY <1>2, NumberOfPadded
    <2> HIDE DEF t
    <2>4. <<"0">> \o t \in Seq(DigitChars) /\ <<"0">> \o t # <<>>
      BY <2>3, <1>1
    <2>5. Number(<<"0">> \o t) = Number(s)
      BY <2>3, NumberOfPadded
    <2>6. QED
      BY <2>2, <2>4, <2>5
  <1>6. QED
    BY <1>3, <1>4, <1>5

\* What Format writes after the sign.
Padded(n) == [i \in 1 .. 3 - Len(Sign(n) \o decimal[Abs(n)]) |-> "0"] \o decimal[Abs(n)]

LEMMA WeightIsWritten ==
  ASSUME NEW n \in Int
  PROVE  /\ Format(n) = Sign(n) \o Padded(n)
         /\ Padded(n) \in Seq(DigitChars) /\ Padded(n) # <<>> /\ Number(Padded(n)) = Abs(n)
  <1>1. Abs(n) \in Nat
    BY DEF Abs
  <1> DEFINE d == decimal[Abs(n)]
             z == 3 - Len(Sign(n) \o d)
  <1>2. d \in Seq(DigitChars) /\ d # <<>> /\ Number(d) = Abs(n)
    BY <1>1, DecimalHasDigits, NumberOfDecimal
  <1>3. Sign(n) \in Seq({"-"})
    <2>1. <<>> \in Seq({"-"}) /\ <<"-">> \in Seq({"-"})
      OBVIOUS
    <2>2. QED
      BY <2>1 DEF Sign, Dash
  <1>4. z \in Int /\ z <= 2
    <2> HIDE DEF d
    <2>1. Len(Sign(n) \o d) = Len(Sign(n)) + Len(d) /\ Len(Sign(n)) \in Nat
          /\ Len(d) \in Nat \ {0}
      BY <1>2, <1>3
    <2>2. QED
      BY <2>1
  <1>5. Padded(n) = [i \in 1 .. z |-> "0"] \o d
    BY DEF Padded
  <1> DEFINE Z == [i \in 1 .. z |-> "0"]
  <1>6. Z \in Seq({"0"})
    <2>1. /\ <<>> \in Seq({"0"}) /\ <<"0">> \in Seq({"0"}) /\ <<"0", "0">> \in Seq({"0"})
      OBVIOUS
    <2> HIDE DEF z
    <2>2. Z \in {<<>>, <<"0">>, <<"0", "0">>}
      <3>1. z <= 0 => Z = <<>>
        BY <1>4
      <3>2. z = 1 => Z = <<"0">>
        OBVIOUS
      <3>3. z = 2 => Z = <<"0", "0">>
        OBVIOUS
      <3>4. QED
        <4> HIDE DEF Z
        <4> QED
          BY <1>4, <3>1, <3>2, <3>3
    <2> HIDE DEF Z
    <2>3. QED
      BY <2>1, <2>2
  <1>7. Format(n) = (Sign(n) \o Z) \o d
    BY DEF Format
  <1>8. (Sign(n) \o Z) \o d = Sign(n) \o (Z \o d)
    <2> DEFINE Chars == DigitChars \cup {"-", "0"}
    <2>1. Sign(n) \in Seq(Chars) /\ Z \in Seq(Chars) /\ d \in Seq(Chars)
      <3> HIDE DEF Z, d
      <3> QED
        BY <1>2, <1>3, <1>6, SeqMonotonic
    <2> HIDE DEF Chars, Z, d
    <2>2. QED
      BY <2>1, ConcatAssociative
  <1>9. QED
    <2>1. /\ Z \o d \in Seq(DigitChars) /\ Z \o d # <<>> /\ Number(Z \o d) = Number(d)
      <3> HIDE DEF d, z
      <3> QED
        BY <1>2, <1>4, ZerosKeepNumber
    <2>2. QED
      BY <1>2, <1>5, <1>7, <1>8, <2>1

--------------------------------------------------------------------------------
(* IDs *)

Chars == STRING \cup DigitChars \cup {"-", "control", "planes", "workers", "schematic"}

HasNoDash(s) == \A i \in 1 .. Len(s) : s[i] # "-"

\* The parts of a joined text.
Joins(t, s, u) ==
  /\ Len(t) = Len(s) + 1 + Len(u)
  /\ \A i \in 1 .. Len(s) : t[i] = s[i]
  /\ t[Len(s) + 1] = "-"
  /\ \A i \in 1 .. Len(u) : t[Len(s) + 1 + i] = u[i]

LEMMA Joined ==
  ASSUME NEW C, "-" \in C, NEW s \in Seq(C), NEW u \in Seq(C)
  PROVE  s \o Dash \o u \in Seq(C) /\ Joins(s \o Dash \o u, s, u)
  <1> DEFINE p == s \o Dash
             t == p \o u
  <1>1. Dash \in Seq(C) /\ Len(Dash) = 1 /\ Dash[1] = "-"
    BY DEF Dash
  <1>2. Len(s) \in Nat /\ Len(u) \in Nat
    OBVIOUS
  <1>3. /\ p \in Seq(C) /\ Len(p) = Len(s) + Len(Dash)
        /\ \A i \in 1 .. Len(s) + Len(Dash) : p[i] = IF i <= Len(s) THEN s[i] ELSE Dash[i - Len(s)]
    BY <1>1, ConcatProperties
  <1> HIDE DEF p
  <1>4. /\ t \in Seq(C) /\ Len(t) = Len(p) + Len(u)
        /\ \A i \in 1 .. Len(p) + Len(u) : t[i] = IF i <= Len(p) THEN p[i] ELSE u[i - Len(p)]
    <2>1. p \in Seq(C)
      BY <1>3
    <2>2. QED
      BY <2>1, ConcatProperties
  <1> HIDE DEF t
  <1>5. Len(p) = Len(s) + 1
    BY <1>1, <1>3
  <1>6. \A i \in 1 .. Len(s) : t[i] = s[i]
    <2>1. \A i \in 1 .. Len(s) : p[i] = s[i]
      BY <1>1, <1>2, <1>3
    <2>2. \A i \in 1 .. Len(s) : t[i] = p[i]
      BY <1>2, <1>4, <1>5
    <2>3. QED
      BY <2>1, <2>2
  <1>7. t[Len(s) + 1] = "-"
    <2> DEFINE k == Len(s) + 1
    <2>1. k \in 1 .. Len(s) + Len(Dash) /\ k - Len(s) = 1 /\ ~(k <= Len(s))
          /\ k \in 1 .. Len(p) + Len(u) /\ k <= Len(p)
      BY <1>1, <1>2, <1>5
    <2> HIDE DEF k
    <2>2. p[k] = Dash[k - Len(s)]
      BY <1>3, <2>1
    <2>3. t[k] = p[k]
      BY <1>4, <2>1
    <2>4. t[k] = "-"
      BY <1>1, <2>1, <2>2, <2>3
    <2>5. QED
      BY <2>4 DEF k
  <1>8. \A i \in 1 .. Len(u) : t[Len(s) + 1 + i] = u[i]
    <2> SUFFICES ASSUME NEW i \in 1 .. Len(u) PROVE t[Len(s) + 1 + i] = u[i]
      OBVIOUS
    <2> DEFINE k == Len(s) + 1 + i
    <2>1. k \in 1 .. Len(p) + Len(u) /\ ~(k <= Len(p)) /\ k - Len(p) = i
      BY <1>2, <1>5
    <2> HIDE DEF k
    <2>2. t[k] = u[i]
      BY <1>4, <2>1
    <2>3. QED
      BY <2>2 DEF k
  <1>9. QED
    BY <1>2, <1>4, <1>5, <1>6, <1>7, <1>8 DEF Joins, t, p

\* A text says where its first dash is.
LEMMA SplitAtDash ==
  ASSUME NEW C, "-" \in C, NEW s \in Seq(C), NEW t \in Seq(C), NEW u \in Seq(C), NEW v \in Seq(C),
         HasNoDash(s), HasNoDash(t), s \o Dash \o u = t \o Dash \o v
  PROVE  s = t /\ u = v
  <1> DEFINE x == s \o Dash \o u
  <1>1. Joins(x, s, u) /\ Joins(x, t, v)
    BY Joined
  <1> HIDE DEF x
  <1>2. Len(s) \in Nat /\ Len(t) \in Nat /\ Len(u) \in Nat /\ Len(v) \in Nat
    OBVIOUS
  <1>3. ~(Len(s) < Len(t)) /\ ~(Len(t) < Len(s))
    <2>1. Len(s) < Len(t) => Len(s) + 1 \in 1 .. Len(t)
      BY <1>2
    <2>2. Len(t) < Len(s) => Len(t) + 1 \in 1 .. Len(s)
      BY <1>2
    <2>3. QED
      BY <1>1, <2>1, <2>2 DEF Joins, HasNoDash
  <1>4. Len(s) = Len(t) /\ Len(u) = Len(v)
    BY <1>1, <1>2, <1>3 DEF Joins
  <1>5. \A i \in 1 .. Len(s) : s[i] = t[i]
    BY <1>1, <1>4 DEF Joins
  <1>6. \A i \in 1 .. Len(u) : u[i] = v[i]
    BY <1>1, <1>4 DEF Joins
  <1>7. QED
    BY <1>4, <1>5, <1>6, SeqEqual

\* The weight is what stands before the first dash.
LEMMA WeightIsCutOff ==
  ASSUME NEW C, DigitChars \cup {"-"} \subseteq C, NEW s \in Seq(DigitChars), s # <<>>,
         NEW u \in Seq(C)
  PROVE  ParseConfigPatchID(s \o Dash \o u) = [weight |-> Number(s), name |-> u]
  <1> DEFINE t == s \o Dash \o u
             D == {i \in 1 .. Len(t) : IsDash(t[i])}
             k == Len(s) + 1
  <1>1. s \in Seq(C) /\ "-" \in C
    BY SeqMonotonic
  <1>2. /\ t \in Seq(C) /\ Len(t) = Len(s) + 1 + Len(u)
        /\ \A i \in 1 .. Len(s) : t[i] = s[i]
        /\ t[Len(s) + 1] = "-"
        /\ \A i \in 1 .. Len(u) : t[Len(s) + 1 + i] = u[i]
    BY <1>1, Joined, SMTT(30) DEF Joins
  <1>3. Len(s) \in Nat /\ Len(s) # 0 /\ Len(u) \in Nat
    OBVIOUS
  <1> HIDE DEF t
  <1>4. k \in D /\ \A i \in D : k <= i
    <2>1. k \in D
      BY <1>2, <1>3 DEF IsDash
    <2>2. \A i \in 1 .. Len(s) : s[i] # "-"
      BY DigitsAreDigits
    <2>3. \A i \in D : k <= i
      <3>1. \A i \in D : i \in 1 .. Len(t) /\ t[i] = "-"
        BY DEF IsDash
      <3>2. \A i \in D : i \notin 1 .. Len(s)
        BY <1>2, <2>2, <3>1
      <3> HIDE DEF D
      <3>3. \A i \in D : i \in Nat /\ i >= 1
        BY <1>2, <3>1
      <3>4. QED
        BY <1>3, <3>2, <3>3
    <2>4. QED
      BY <2>1, <2>3
  <1>5. SelectInSeq(t, IsDash) = k
    <2>1. D # {} /\ D \subseteq Nat
      BY <1>4
    <2>2. Min(D) = k
      <3> HIDE DEF D
      <3>1. \A i \in D : (\A j \in D : i <= j) => i = k
        BY <1>3, <1>4, <2>1
      <3>2. QED
        BY <1>4, <3>1 DEF Min
    <2>3. SelectInSeq(t, IsDash) = IF D # {} THEN Min(D) ELSE 0
      BY DEF SelectInSeq
    <2>4. QED
      <3> HIDE DEF D, k
      <3> QED
        BY <2>1, <2>2, <2>3
  <1>6. SubSeq(t, 1, k - 1) = s
    <2>1. Len(SubSeq(t, 1, k - 1)) = Len(s) /\ SubSeq(t, 1, k - 1) \in Seq(C)
      BY <1>2, <1>3
    <2>2. \A i \in 1 .. Len(s) : SubSeq(t, 1, k - 1)[i] = s[i]
      BY <1>2, <1>3
    <2>3. QED
      BY <1>1, <2>1, <2>2, SeqEqual
  <1>7. SubSeq(t, k + 1, Len(t)) = u
    <2>1. Len(SubSeq(t, k + 1, Len(t))) = Len(u) /\ SubSeq(t, k + 1, Len(t)) \in Seq(C)
      BY <1>2, <1>3
    <2>2. \A i \in 1 .. Len(u) : SubSeq(t, k + 1, Len(t))[i] = u[i]
      BY <1>2, <1>3
    <2>3. QED
      BY <2>1, <2>2, SeqEqual
  <1>8. IsNumber(s)
    <2>1. \A i \in 1 .. Len(s) : s[i] \in DigitChars
      OBVIOUS
    <2>2. Len(Digits) = 10
      BY DEF Digits
    <2>3. \A i \in 1 .. Len(s) : Contains(Digits, s[i])
      BY <2>1, <2>2 DEF Contains, DigitChars
    <2>4. QED
      BY <2>3 DEF IsNumber
  <1>9. k # 0
    BY <1>3
  <1> HIDE DEF k
  <1>10. QED
    BY <1>5, <1>6, <1>7, <1>8, <1>9 DEF ParseConfigPatchID, CutAt, t

Regroups(s, t, u, v) == ((s \o t) \o u) \o v = s \o ((t \o u) \o v)

LEMMA FourParts ==
  ASSUME NEW s \in Seq(Chars), NEW t \in Seq(Chars), NEW u \in Seq(Chars), NEW v \in Seq(Chars)
  PROVE  Regroups(s, t, u, v)
  <1>1. (s \o t) \o u = s \o (t \o u)
    BY ConcatAssociative
  <1>2. t \o u \in Seq(Chars)
    BY ConcatProperties
  <1>3. ASSUME NEW w \in Seq(Chars) PROVE (s \o w) \o v = s \o (w \o v)
    BY ConcatAssociative
  <1>4. (s \o (t \o u)) \o v = s \o ((t \o u) \o v)
    BY <1>2, <1>3
  <1>5. QED
    BY <1>1, <1>4 DEF Regroups

LEMMA TextsAreChars == Texts \subseteq Seq(Chars) /\ Seq(DigitChars) \subseteq Seq(Chars)
                       /\ "-" \in Chars /\ Dash \in Seq(Chars) /\ <<>> \in Seq(Chars)
  <1>1. STRING \subseteq Chars /\ DigitChars \subseteq Chars /\ "-" \in Chars
    BY DEF Chars
  <1> HIDE DEF Chars
  <1>2. Seq(STRING) \subseteq Seq(Chars) /\ Seq(DigitChars) \subseteq Seq(Chars)
    BY <1>1, SeqMonotonic
  <1>3. QED
    BY <1>1, <1>2 DEF Texts, Dash

LEMMA TargetIsText ==
  ASSUME NEW r, WellFormed(r)
  PROVE  TargetSuffix(r) \in Seq(Chars) /\ \E a \in Sort(r) : TargetSuffix(r) = r[a]
  <1>1. \A a \in ScopeAttributes : a \in Sort(r) <=> r[a] # Null
    BY DEF Sort
  <1>2. Sort(r) \in {{"cluster"}, {"cluster", "machineSet"}, {"cluster", "clusterMachine"}, {"machine"}}
    BY DEF WellFormed, SortsOf, Kinds
  <1>3. \E a \in Sort(r) : TargetSuffix(r) = r[a]
    BY <1>1, <1>2 DEF TargetSuffix, ScopeAttributes
  <1>4. \A a \in Sort(r) : r[a] \in Texts
    BY DEF WellFormed
  <1>5. QED
    BY <1>3, <1>4, TextsAreChars

\* An ID of a patch or a manifest, read from the left.
LEMMA PatchIdParts ==
  ASSUME NEW r, WellFormed(r), r.kind \in {"patch", "manifest"}
  PROVE  LET rest == TargetSuffix(r) \o Dash \o r.name
         IN  /\ rest \in Seq(Chars) /\ r.name \in Seq(Chars)
             /\ r.weight >= 0 => Id(r) = Padded(r.weight) \o Dash \o rest
             /\ r.weight < 0 => Id(r) = <<>> \o Dash \o (Padded(r.weight) \o Dash \o rest)
  <1> DEFINE rest == TargetSuffix(r) \o Dash \o r.name
             w == r.weight
             P == Padded(w)
             T == TargetSuffix(r)
             N == r.name
  <1>1. w \in Int /\ N \in Seq(Chars) /\ T \in Seq(Chars)
    BY TextsAreChars, TargetIsText DEF WellFormed
  <1>2. Dash \in Seq(Chars) /\ <<>> \in Seq(Chars)
    BY TextsAreChars
  <1>3. P \in Seq(Chars) /\ Format(w) = Sign(w) \o P
    BY <1>1, WeightIsWritten, TextsAreChars
  <1>4. Id(r) = (((Format(w) \o Dash) \o T) \o Dash) \o N
    BY DEF Id, ConfigPatchID
  <1>5. rest = (T \o Dash) \o N /\ rest \in Seq(Chars)
    <2>1. (T \o Dash) \o N \in Seq(Chars)
      <3> HIDE DEF T, N
      <3>1. T \o Dash \in Seq(Chars)
        BY <1>1, <1>2, ConcatProperties
      <3>2. QED
        BY <1>1, <3>1, ConcatProperties
    <2>2. QED
      BY <2>1
  <1> HIDE DEF P, T, N, w, rest
  <1>6. ASSUME NEW F \in Seq(Chars)
        PROVE  (((F \o Dash) \o T) \o Dash) \o N = (F \o Dash) \o rest
    <2> DEFINE G == F \o Dash
    <2>1. G \in Seq(Chars)
      BY <1>2, ConcatProperties
    <2> HIDE DEF G
    <2>2. T \in Seq(Chars) /\ Dash \in Seq(Chars) /\ N \in Seq(Chars)
      BY <1>1, <1>2
    <2>3. ((G \o T) \o Dash) \o N = G \o ((T \o Dash) \o N)
      <3>1. Regroups(G, T, Dash, N)
        BY <2>1, <2>2, FourParts
      <3>2. QED
        BY <3>1 DEF Regroups
    <2>4. QED
      BY <2>3, <1>5 DEF G
  <1>7. w >= 0 => Id(r) = (P \o Dash) \o rest
    <2>1. w >= 0 => Sign(w) = <<>>
      BY <1>1 DEF Sign
    <2>2. <<>> \o P = P
      BY <1>3, ConcatEmptySeq
    <2>3. w >= 0 => Format(w) = P
      BY <1>3, <2>1, <2>2
    <2>4. QED
      BY <1>3, <1>4, <1>6, <2>3
  <1>8. w < 0 => Id(r) = (<<>> \o Dash) \o ((P \o Dash) \o rest)
    <2>1. w < 0 => Format(w) = Dash \o P
      BY <1>1, <1>3 DEF Sign
    <2>2. Dash \o P \in Seq(Chars) /\ P \o Dash \in Seq(Chars)
      BY <1>2, <1>3, ConcatProperties
    <2>3. (Dash \o P) \o Dash = Dash \o (P \o Dash)
      BY <1>2, <1>3, ConcatAssociative
    <2>4. (Dash \o (P \o Dash)) \o rest = Dash \o ((P \o Dash) \o rest)
      <3> DEFINE X == P \o Dash
      <3>1. X \in Seq(Chars)
        BY <2>2
      <3> HIDE DEF X
      <3>2. rest \in Seq(Chars) /\ Dash \in Seq(Chars)
        BY <1>2, <1>5
      <3>3. (Dash \o X) \o rest = Dash \o (X \o rest)
        BY <3>1, <3>2, ConcatAssociative
      <3>4. QED
        BY <3>3 DEF X
    <2>5. <<>> \o Dash = Dash
      BY <1>2, ConcatEmptySeq
    <2>6. w < 0 => Id(r) = ((Dash \o P) \o Dash) \o rest
      BY <1>4, <1>6, <2>1, <2>2
    <2>7. QED
      BY <2>3, <2>4, <2>5, <2>6
  <1>9. QED
    BY <1>1, <1>5, <1>7, <1>8 DEF rest, P, w, T, N

\* What Read takes from the ID.
LEMMA WeightComesBack ==
  ASSUME NEW r, WellFormed(r), r.kind \in {"patch", "manifest"}, r.weight >= 0
  PROVE  ParseConfigPatchID(Id(r)).weight = r.weight
  <1> DEFINE rest == TargetSuffix(r) \o Dash \o r.name
             P == Padded(r.weight)
  <1>1. rest \in Seq(Chars) /\ Id(r) = P \o Dash \o rest
    BY PatchIdParts
  <1>2. r.weight \in Int
    BY DEF WellFormed
  <1>3. P \in Seq(DigitChars) /\ P # <<>> /\ Number(P) = r.weight
    <2>1. Abs(r.weight) = r.weight
      BY <1>2 DEF Abs
    <2>2. QED
      BY <1>2, <2>1, WeightIsWritten
  <1>4. DigitChars \cup {"-"} \subseteq Chars
    BY DEF Chars
  <1> HIDE DEF rest, P
  <1>5. ParseConfigPatchID(P \o Dash \o rest) = [weight |-> Number(P), name |-> rest]
    BY <1>1, <1>3, <1>4, WeightIsCutOff
  <1>6. QED
    BY <1>1, <1>3, <1>5

\* Two patches or manifests with the same ID and targets without a dash: the ID says the rest.
LEMMA PatchesApart ==
  ASSUME NEW r, WellFormed(r), r.kind \in {"patch", "manifest"}, HasNoDash(TargetSuffix(r)),
         NEW s, WellFormed(s), s.kind \in {"patch", "manifest"}, HasNoDash(TargetSuffix(s)),
         Id(r) = Id(s)
  PROVE  r.weight = s.weight /\ TargetSuffix(r) = TargetSuffix(s) /\ r.name = s.name
  <1> DEFINE Rest(x) == TargetSuffix(x) \o Dash \o x.name
             P(x) == Padded(x.weight)
  <1>1. r.weight \in Int /\ s.weight \in Int
    BY DEF WellFormed
  <1>2. \A x \in {r, s} : /\ P(x) \in Seq(DigitChars) /\ P(x) # <<>> /\ Number(P(x)) = Abs(x.weight)
                          /\ P(x) \in Seq(Chars) /\ HasNoDash(P(x))
    <2>1. \A p \in Seq(DigitChars) : HasNoDash(p)
      BY DigitsAreDigits DEF HasNoDash
    <2>2. QED
      BY <1>1, <2>1, WeightIsWritten, TextsAreChars
  <1>3. \A x \in {r, s} : /\ Rest(x) \in Seq(Chars) /\ x.name \in Seq(Chars)
                          /\ x.weight >= 0 => Id(x) = P(x) \o Dash \o Rest(x)
                          /\ x.weight < 0 => Id(x) = <<>> \o Dash \o (P(x) \o Dash \o Rest(x))
    BY PatchIdParts
  <1>4. HasNoDash(<<>>) /\ <<>> \in Seq(Chars) /\ "-" \in Chars
    BY TextsAreChars DEF HasNoDash
  <1>5. TargetSuffix(r) \in Seq(Chars) /\ TargetSuffix(s) \in Seq(Chars)
    BY TargetIsText
  <1>6. Rest(r) = Rest(s) => TargetSuffix(r) = TargetSuffix(s) /\ r.name = s.name
    <2> DEFINE t == TargetSuffix(r)
               u == TargetSuffix(s)
               m == r.name
               n == s.name
    <2>1. t \in Seq(Chars) /\ u \in Seq(Chars) /\ m \in Seq(Chars) /\ n \in Seq(Chars)
      BY <1>3, <1>5
    <2>2. HasNoDash(t) /\ HasNoDash(u)
      OBVIOUS
    <2>3. Rest(r) = t \o Dash \o m /\ Rest(s) = u \o Dash \o n
      OBVIOUS
    <2> HIDE DEF t, u, m, n, Rest
    <2>4. t \o Dash \o m = u \o Dash \o n => t = u /\ m = n
      BY <1>4, <2>1, <2>2, SplitAtDash
    <2>5. QED
      BY <2>3, <2>4 DEF t, u, m, n
  <1> HIDE DEF P, Rest
  <1> DEFINE WithoutSign(x) == P(x) \o Dash \o Rest(x)
  <1>7. \A x \in {r, s} : WithoutSign(x) \in Seq(Chars)
    BY <1>2, <1>3, <1>4, Joined
  <1>8. WithoutSign(r) = WithoutSign(s) => P(r) = P(s) /\ Rest(r) = Rest(s)
    <2> DEFINE t == P(r)
               u == P(s)
               m == Rest(r)
               n == Rest(s)
    <2>1. t \in Seq(Chars) /\ u \in Seq(Chars) /\ m \in Seq(Chars) /\ n \in Seq(Chars)
      BY <1>2, <1>3
    <2>2. HasNoDash(t) /\ HasNoDash(u)
      BY <1>2
    <2> HIDE DEF t, u, m, n
    <2>3. t \o Dash \o m = u \o Dash \o n => t = u /\ m = n
      BY <1>4, <2>1, <2>2, SplitAtDash
    <2>4. QED
      BY <2>3 DEF t, u, m, n
  <1>9. CASE r.weight >= 0 /\ s.weight >= 0
    <2>1. WithoutSign(r) = WithoutSign(s)
      BY <1>3, <1>9
    <2>2. Abs(r.weight) = Abs(s.weight)
      BY <1>2, <1>8, <2>1
    <2>3. QED
      BY <1>1, <1>6, <1>8, <1>9, <2>1, <2>2 DEF Abs
  <1>10. CASE r.weight < 0 /\ s.weight < 0
    <2>1. <<>> \o Dash \o WithoutSign(r) = <<>> \o Dash \o WithoutSign(s)
      BY <1>3, <1>10
    <2>2. WithoutSign(r) = WithoutSign(s)
      <3> HIDE DEF WithoutSign
      <3> QED
        BY <1>4, <1>7, <2>1, SplitAtDash
    <2>3. Abs(r.weight) = Abs(s.weight)
      BY <1>2, <1>8, <2>2
    <2>4. QED
      BY <1>1, <1>6, <1>8, <1>10, <2>2, <2>3 DEF Abs
  <1>11. ASSUME NEW x \in {r, s}, NEW y \in {r, s}, x.weight >= 0, y.weight < 0, Id(x) = Id(y)
         PROVE  FALSE
    <2>1. P(x) \o Dash \o Rest(x) = <<>> \o Dash \o WithoutSign(y)
      BY <1>3, <1>11
    <2>2. P(x) = <<>>
      <3>1. WithoutSign(y) \in Seq(Chars)
        BY <1>7
      <3> HIDE DEF WithoutSign
      <3>2. QED
        <4> DEFINE t == P(x)
                   m == Rest(x)
                   n == WithoutSign(y)
        <4>1. t \in Seq(Chars) /\ m \in Seq(Chars) /\ n \in Seq(Chars) /\ HasNoDash(t)
          BY <1>2, <1>3, <3>1
        <4>2. t \o Dash \o m = <<>> \o Dash \o n
          BY <2>1
        <4> HIDE DEF t, m, n
        <4>3. t = <<>>
          BY <1>4, <4>1, <4>2, SplitAtDash
        <4>4. QED
          BY <4>3 DEF t
    <2>3. QED
      BY <1>2, <2>2
  <1>12. QED
    BY <1>1, <1>9, <1>10, <1>11

\* Two texts behind the same beginning.
LEMMA SameBeginning ==
  ASSUME NEW C, NEW s \in Seq(C), NEW t \in Seq(C), NEW u \in Seq(C), s \o t = s \o u
  PROVE  t = u
  <1> DEFINE x == s \o t
  <1>1. /\ Len(x) = Len(s) + Len(t)
        /\ \A i \in 1 .. Len(s) + Len(t) : x[i] = IF i <= Len(s) THEN s[i] ELSE t[i - Len(s)]
    BY ConcatProperties
  <1>2. /\ Len(x) = Len(s) + Len(u)
        /\ \A i \in 1 .. Len(s) + Len(u) : x[i] = IF i <= Len(s) THEN s[i] ELSE u[i - Len(s)]
    BY ConcatProperties
  <1> HIDE DEF x
  <1>3. Len(s) \in Nat /\ Len(t) \in Nat /\ Len(u) \in Nat
    OBVIOUS
  <1>4. Len(t) = Len(u)
    BY <1>1, <1>2, <1>3
  <1>5. ASSUME NEW i \in 1 .. Len(t) PROVE t[i] = u[i]
    <2> DEFINE k == Len(s) + i
    <2>1. k \in 1 .. Len(s) + Len(t) /\ ~(k <= Len(s)) /\ k - Len(s) = i
      BY <1>3
    <2> HIDE DEF k
    <2>2. QED
      BY <1>1, <1>2, <1>4, <2>1
  <1>6. QED
    BY <1>4, <1>5, SeqEqual

LEMMA ExtensionsApart ==
  ASSUME NEW r, WellFormed(r), r.kind = "extensions", NEW s, WellFormed(s), s.kind = "extensions",
         Id(r) = Id(s)
  PROVE  TargetSuffix(r) = TargetSuffix(s)
  <1>1. TargetSuffix(r) \in Seq(Chars) /\ TargetSuffix(s) \in Seq(Chars)
    BY TargetIsText
  <1>2. <<"schematic", "-">> \in Seq(Chars)
    BY DEF Chars
  <1>3. <<"schematic", "-">> \o TargetSuffix(r) = <<"schematic", "-">> \o TargetSuffix(s)
    BY DEF Id, MachineExtensionsID
  <1>4. QED
    BY <1>1, <1>2, <1>3, SameBeginning

\* A machine set's ID is its cluster's and its name.
LEMMA MachineSetParts ==
  ASSUME NEW r, WellFormed(r), r.kind = "machineSet"
  PROVE  /\ r.cluster # Null /\ r.cluster \in Seq(Chars) /\ NameOf(r) \in Seq(Chars)
         /\ TargetSuffix(r) = r.cluster /\ Id(r) = r.cluster \o Dash \o NameOf(r)
  <1>1. Sort(r) = {"cluster"}
    BY DEF WellFormed, SortsOf
  <1>2. r.cluster # Null /\ r.cluster \in Seq(Chars)
    <2>1. "cluster" \in Sort(r) /\ r["cluster"] = r.cluster
      BY <1>1
    <2>2. r["cluster"] \in Texts /\ r["cluster"] # Null
      BY <2>1 DEF WellFormed, Sort
    <2>3. QED
      BY <2>2, TextsAreChars
  <1>3. TargetSuffix(r) = r.cluster
    BY <1>1, TargetIsText
  <1>4. ControlPlanes \in Seq(Chars) /\ Workers \in Seq(Chars)
    BY DEF ControlPlanes, Workers, Chars
  <1>5. r.name # Null => r.name \in Seq(Chars)
    BY TextsAreChars DEF WellFormed
  <1>6. NameOf(r) \in Seq(Chars)
    BY <1>4, <1>5 DEF NameOf
  <1>7. Id(r) = r.cluster \o Dash \o NameOf(r)
    BY DEF Id, MachineSetID, NameOf
  <1>8. QED
    BY <1>2, <1>3, <1>6, <1>7

\* Its name is what is left without the cluster's prefix.
LEMMA NameComesBack ==
  ASSUME NEW r, WellFormed(r), r.kind = "machineSet"
  PROVE  MachineSetNameFromID(Id(r), r.cluster) = NameOf(r)
  <1> DEFINE c == r.cluster
             n == NameOf(r)
             t == c \o Dash \o n
             p == c \o Dash
  <1>1. c # Null /\ c \in Seq(Chars) /\ n \in Seq(Chars) /\ Id(r) = t
    BY MachineSetParts
  <1> HIDE DEF c, n
  <1>2. t \in Seq(Chars) /\ Joins(t, c, n)
    BY <1>1, Joined, TextsAreChars
  <1>3. Len(c) \in Nat /\ Len(n) \in Nat
    BY <1>1
  <1>4. /\ p \in Seq(Chars) /\ Len(p) = Len(c) + 1
        /\ \A i \in 1 .. Len(p) : i \in 1 .. Len(t) /\ t[i] = p[i]
    <2>1. p \in Seq(Chars) /\ Len(p) = Len(c) + 1
      BY <1>1, TextsAreChars DEF Dash
    <2>2. t = p \o n
      OBVIOUS
    <2> HIDE DEF p
    <2>3. \A i \in 1 .. Len(p) + Len(n) : t[i] = IF i <= Len(p) THEN p[i] ELSE n[i - Len(p)]
      BY <1>1, <2>1, <2>2, ConcatProperties
    <2> HIDE DEF t
    <2>4. Len(t) = Len(p) + Len(n)
      BY <1>2, <1>3, <2>1 DEF Joins
    <2>5. \A i \in 1 .. Len(p) : i \in 1 .. Len(p) + Len(n) /\ i <= Len(p)
      BY <1>3, <2>1
    <2>6. QED
      BY <2>1, <2>3, <2>4, <2>5
  <1> HIDE DEF t, p
  <1>5. Len(t) = Len(c) + 1 + Len(n)
    BY <1>2 DEF Joins
  <1>6. IsPrefix(p, t)
    <2>1. /\ SubSeq(p, 1, Len(p)) \in Seq(Chars) /\ Len(SubSeq(p, 1, Len(p))) = Len(p)
          /\ \A i \in 1 .. Len(p) : SubSeq(p, 1, Len(p))[i] = p[i]
      BY <1>3, <1>4
    <2>2. /\ SubSeq(t, 1, Len(p)) \in Seq(Chars) /\ Len(SubSeq(t, 1, Len(p))) = Len(p)
          /\ \A i \in 1 .. Len(p) : SubSeq(t, 1, Len(p))[i] = t[i]
      BY <1>2, <1>3, <1>4, <1>5
    <2>3. SubSeq(p, 1, Len(p)) = SubSeq(t, 1, Len(p))
      BY <1>4, <2>1, <2>2, SeqEqual
    <2>4. QED
      BY <1>3, <1>4, <1>5, <2>3 DEF IsPrefix
  <1>7. SubSeq(t, Len(c) + 2, Len(t)) = n
    <2> DEFINE q == SubSeq(t, Len(c) + 2, Len(t))
    <2>1. q \in Seq(Chars) /\ Len(q) = Len(n)
      BY <1>2, <1>3, <1>5
    <2>2. \A i \in 1 .. Len(n) : q[i] = n[i]
      <3>1. \A i \in 1 .. Len(n) : q[i] = t[Len(c) + 1 + i]
        BY <1>2, <1>3, <1>5
      <3>2. QED
        BY <1>2, <3>1 DEF Joins
    <2>3. QED
      BY <1>1, <2>1, <2>2, SeqEqual
  <1>8. QED
    BY <1>1, <1>6, <1>7 DEF MachineSetNameFromID, p, c, n

--------------------------------------------------------------------------------
(* The order of IDs *)

Hundreds(n) == (n \div 10) \div 10
Tens(n) == (n \div 10) % 10
Ones(n) == n % 10

LEMMA ShortTexts ==
  ASSUME NEW h, NEW i, NEW j
  PROVE  /\ Append(<<h>>, i) = <<h, i>> /\ Append(<<h, i>>, j) = <<h, i, j>>
         /\ <<h>> \o <<i, j>> = <<h, i, j>> /\ <<h, i>> \o <<j>> = <<h, i, j>>
  <1> DEFINE C == {h, i, j}
  <1>1. /\ <<h>> \in Seq(C) /\ <<i>> \in Seq(C) /\ <<j>> \in Seq(C) /\ <<h, i>> \in Seq(C)
        /\ <<i, j>> \in Seq(C) /\ <<h, i, j>> \in Seq(C) /\ h \in C /\ i \in C /\ j \in C
    OBVIOUS
  <1> HIDE DEF C
  <1>2. ASSUME NEW t \in Seq(C), Len(t) = 2, t[1] = h, t[2] = i
        PROVE  t = <<h, i>>
    <2> DEFINE w == <<h, i>>
    <2>1. w \in Seq(C) /\ Len(w) = 2 /\ w[1] = h /\ w[2] = i
      BY <1>1
    <2> HIDE DEF w
    <2>2. \A k \in 1 .. 2 : k = 1 \/ k = 2
      OBVIOUS
    <2>3. \A k \in 1 .. Len(t) : t[k] = w[k]
      BY <1>2, <2>1, <2>2
    <2>4. t = w
      BY <1>2, <2>1, <2>3, SeqEqual
    <2>5. QED
      BY <2>4 DEF w
  <1>3. ASSUME NEW t \in Seq(C), Len(t) = 3, t[1] = h, t[2] = i, t[3] = j
        PROVE  t = <<h, i, j>>
    <2> DEFINE w == <<h, i, j>>
    <2>1. w \in Seq(C) /\ Len(w) = 3 /\ w[1] = h /\ w[2] = i /\ w[3] = j
      BY <1>1
    <2> HIDE DEF w
    <2>2. \A k \in 1 .. 3 : k = 1 \/ k = 2 \/ k = 3
      OBVIOUS
    <2>3. \A k \in 1 .. Len(t) : t[k] = w[k]
      BY <1>3, <2>1, <2>2
    <2>4. t = w
      BY <1>3, <2>1, <2>3, SeqEqual
    <2>5. QED
      BY <2>4 DEF w
  <1>4. Append(<<h>>, i) = <<h, i>>
    <2> DEFINE t == Append(<<h>>, i)
    <2>1. t \in Seq(C) /\ Len(t) = 2 /\ t[1] = h /\ t[2] = i
      BY <1>1
    <2> HIDE DEF t
    <2>2. t = <<h, i>>
      BY <1>2, <2>1
    <2>3. QED
      BY <2>2 DEF t
  <1>5. Append(<<h, i>>, j) = <<h, i, j>>
    <2> DEFINE t == Append(<<h, i>>, j)
    <2>1. t \in Seq(C) /\ Len(t) = 3 /\ t[1] = h /\ t[2] = i /\ t[3] = j
      BY <1>1
    <2> HIDE DEF t
    <2>2. t = <<h, i, j>>
      BY <1>3, <2>1
    <2>3. QED
      BY <2>2 DEF t
  <1>6. <<h>> \o <<i, j>> = <<h, i, j>>
    <2> DEFINE t == <<h>> \o <<i, j>>
    <2>1. t \in Seq(C) /\ Len(t) = 3 /\ t[1] = h /\ t[2] = i /\ t[3] = j
      BY <1>1
    <2> HIDE DEF t
    <2>2. t = <<h, i, j>>
      BY <1>3, <2>1
    <2>3. QED
      BY <2>2 DEF t
  <1>7. <<h, i>> \o <<j>> = <<h, i, j>>
    <2> DEFINE t == <<h, i>> \o <<j>>
    <2>1. t \in Seq(C) /\ Len(t) = 3 /\ t[1] = h /\ t[2] = i /\ t[3] = j
      BY <1>1
    <2> HIDE DEF t
    <2>2. t = <<h, i, j>>
      BY <1>3, <2>1
    <2>3. QED
      BY <2>2 DEF t
  <1>8. QED
    BY <1>4, <1>5, <1>6, <1>7

\* Up to 999 a weight has its three digits.
ShortWeights == 0 .. 999

HasThreeDigits(n) ==
  /\ Padded(n) = <<Digits[Hundreds(n) + 1], Digits[Tens(n) + 1], Digits[Ones(n) + 1]>>
  /\ Hundreds(n) \in 0 .. 9 /\ Tens(n) \in 0 .. 9 /\ Ones(n) \in 0 .. 9
  /\ n = 100 * Hundreds(n) + 10 * Tens(n) + Ones(n)

LEMMA ShortDecimal == ASSUME NEW n \in Nat, n < 10 PROVE decimal[n] = <<Digits[n + 1]>>
  BY DecimalDefined, Zenon DEF Decimal

LEMMA LongDecimal ==
  ASSUME NEW n \in Nat, n >= 10
  PROVE  decimal[n] = Append(decimal[n \div 10], Digits[(n % 10) + 1])
  <1>1. ~(n < 10)
    OBVIOUS
  <1>2. QED
    BY <1>1, DecimalDefined, Zenon DEF Decimal

LEMMA ThreeDigits == \A n \in ShortWeights : HasThreeDigits(n)
  <1> SUFFICES ASSUME NEW n \in ShortWeights
               PROVE  /\ Padded(n) = <<Digits[Hundreds(n) + 1], Digits[Tens(n) + 1], Digits[Ones(n) + 1]>>
                      /\ Hundreds(n) \in 0 .. 9 /\ Tens(n) \in 0 .. 9 /\ Ones(n) \in 0 .. 9
                      /\ n = 100 * Hundreds(n) + 10 * Tens(n) + Ones(n)
    BY DEF HasThreeDigits
  <1>0. n \in Nat /\ n \in 0 .. 999
    BY DEF ShortWeights
  <1>1. /\ Hundreds(n) \in 0 .. 9 /\ Tens(n) \in 0 .. 9 /\ Ones(n) \in 0 .. 9
        /\ n = 100 * Hundreds(n) + 10 * Tens(n) + Ones(n)
        /\ n \div 10 = 10 * Hundreds(n) + Tens(n) /\ n \div 10 \in 0 .. 99
    <2>1. n \div 10 \in Nat /\ n % 10 \in 0 .. 9 /\ n = 10 * (n \div 10) + (n % 10)
      BY <1>0, Division
    <2>2. n \div 10 \in 0 .. 99
      BY <1>0, <2>1
    <2> DEFINE q == n \div 10
    <2>3. q \div 10 \in Nat /\ q % 10 \in 0 .. 9 /\ q = 10 * (q \div 10) + (q % 10)
      BY <2>1, Division
    <2> HIDE DEF q
    <2>4. q \div 10 \in 0 .. 9
      <3>1. q \in 0 .. 99
        BY <2>2 DEF q
      <3>2. QED
        BY <2>3, <3>1
    <2>5. Hundreds(n) = q \div 10 /\ Tens(n) = q % 10 /\ Ones(n) = n % 10
      BY DEF Hundreds, Tens, Ones, q
    <2>6. n = 10 * q + (n % 10) /\ q \in 0 .. 99
      BY <2>1, <2>2 DEF q
    <2>7. n = 100 * (q \div 10) + 10 * (q % 10) + (n % 10)
      BY <2>1, <2>3, <2>6
    <2>8. QED
      BY <2>1, <2>2, <2>3, <2>4, <2>5, <2>7 DEF q
  <1> DEFINE d == decimal[n]
  <1>2. Padded(n) = [i \in 1 .. 3 - Len(d) |-> "0"] \o d
    <2>1. Abs(n) = n /\ Sign(n) = <<>>
      BY <1>0 DEF Abs, Sign
    <2>2. <<>> \o d = d
      <3>1. d \in Seq(DigitChars)
        BY <1>0, DecimalHasDigits
      <3> HIDE DEF d
      <3>2. QED
        BY <3>1, ConcatEmptySeq
    <2>3. QED
      BY <2>1, <2>2 DEF Padded
  <1>3. n >= 10 => d = Append(decimal[n \div 10], Digits[Ones(n) + 1])
    <2>1. n >= 10 => d = Append(decimal[n \div 10], Digits[(n % 10) + 1])
      BY <1>0, LongDecimal
    <2>2. QED
      BY <2>1 DEF Ones
  <1>4. Digits[0 + 1] = "0"
    BY DEF Digits
  <1>5. CASE n < 10
    <2>1. Hundreds(n) = 0 /\ Tens(n) = 0 /\ Ones(n) = n
      BY <1>1, <1>5
    <2>2. d = <<Digits[n + 1]>>
      BY <1>0, <1>5, ShortDecimal
    <2>3. [i \in 1 .. 3 - Len(d) |-> "0"] = <<"0", "0">>
      BY <2>2
    <2>4. Padded(n) = <<"0", "0">> \o <<Digits[n + 1]>>
      BY <1>2, <2>2, <2>3
    <2>5. Padded(n) = <<"0", "0", Digits[n + 1]>>
      BY <2>4, ShortTexts, Zenon
    <2>6. Digits[Hundreds(n) + 1] = "0" /\ Digits[Tens(n) + 1] = "0" /\ Digits[Ones(n) + 1] = Digits[n + 1]
      BY <1>4, <2>1
    <2>7. QED
      BY <1>1, <2>5, <2>6
  <1>6. CASE n >= 10 /\ n < 100
    <2>1. Hundreds(n) = 0 /\ n \div 10 = Tens(n)
      BY <1>1, <1>6
    <2>2. decimal[n \div 10] = <<Digits[Tens(n) + 1]>>
      <3>1. Tens(n) \in Nat /\ Tens(n) < 10
        BY <1>1
      <3>2. QED
        BY <2>1, <3>1, ShortDecimal
    <2>3. d = <<Digits[Tens(n) + 1], Digits[Ones(n) + 1]>>
      <3>1. d = Append(decimal[n \div 10], Digits[Ones(n) + 1])
        BY <1>3, <1>6
      <3> HIDE DEF d
      <3>2. QED
        BY <2>2, <3>1, ShortTexts, Zenon
    <2>4. [i \in 1 .. 3 - Len(d) |-> "0"] = <<"0">>
      BY <2>3
    <2>5. Padded(n) = <<"0", Digits[Tens(n) + 1], Digits[Ones(n) + 1]>>
      <3>1. Padded(n) = <<"0">> \o <<Digits[Tens(n) + 1], Digits[Ones(n) + 1]>>
        BY <1>2, <2>3, <2>4
      <3>2. QED
        BY <3>1, ShortTexts, Zenon
    <2>7. Digits[Hundreds(n) + 1] = "0"
      BY <1>4, <2>1
    <2>8. QED
      BY <1>1, <2>5, <2>7
  <1>7. CASE n >= 100
    <2> DEFINE q == n \div 10
    <2>1. q \in Nat /\ q >= 10 /\ q \div 10 = Hundreds(n) /\ q % 10 = Tens(n)
      BY <1>0, <1>1, <1>7 DEF Hundreds, Tens
    <2>2. Hundreds(n) < 10 /\ Hundreds(n) \in Nat
      BY <1>1
    <2>3. decimal[q] = Append(<<Digits[Hundreds(n) + 1]>>, Digits[Tens(n) + 1])
      <3> HIDE DEF q
      <3>1. decimal[q] = Append(decimal[q \div 10], Digits[(q % 10) + 1])
        <4>1. q \in Nat /\ q >= 10
          BY <2>1
        <4>2. QED
          BY <4>1, LongDecimal, Zenon
      <3>2. decimal[Hundreds(n)] = <<Digits[Hundreds(n) + 1]>>
        BY <2>2, ShortDecimal
      <3>3. q \div 10 = Hundreds(n) /\ q % 10 = Tens(n)
        BY <2>1
      <3>4. QED
        BY <3>1, <3>2, <3>3, Zenon
    <2>4. d = Append(decimal[q], Digits[Ones(n) + 1])
      <3>1. n >= 10
        BY <1>0, <1>7
      <3>2. QED
        BY <1>3, <3>1
    <2>5. d = <<Digits[Hundreds(n) + 1], Digits[Tens(n) + 1], Digits[Ones(n) + 1]>>
      <3> HIDE DEF d, q
      <3> QED
        <4>1. decimal[q] = <<Digits[Hundreds(n) + 1], Digits[Tens(n) + 1]>>
          BY <2>3, ShortTexts, Zenon
        <4>2. d = Append(<<Digits[Hundreds(n) + 1], Digits[Tens(n) + 1]>>, Digits[Ones(n) + 1])
          BY <2>4, <4>1, Zenon
        <4>3. QED
          BY <4>2, ShortTexts, Zenon
    <2>6. [i \in 1 .. 3 - Len(d) |-> "0"] = <<>>
      BY <2>5
    <2>7. QED
      <3>1. d \in Seq(DigitChars)
        BY <1>0, DecimalHasDigits
      <3> HIDE DEF d
      <3>2. <<>> \o d = d
        BY <3>1, ConcatEmptySeq
      <3>3. QED
        BY <1>1, <1>2, <2>5, <2>6, <3>2
  <1>8. QED
    BY <1>0, <1>5, <1>6, <1>7

LEMMA RankOfDigit == \A k \in 0 .. 9 : Rank(Digits[k + 1]) = 1 + k
  <1> SUFFICES ASSUME NEW k \in 0 .. 9 PROVE Rank(Digits[k + 1]) = 1 + k
    OBVIOUS
  <1>1. Digits[k + 1] # "-" /\ DigitValue(Digits[k + 1]) = k
    BY DigitsAreDigits
  <1>2. Contains(Digits, Digits[k + 1])
    <2>1. Len(Digits) = 10
      BY DEF Digits
    <2>2. k + 1 \in 1 .. Len(Digits)
      BY <2>1
    <2>3. QED
      BY <2>2 DEF Contains
  <1>3. QED
    BY <1>1, <1>2 DEF Rank

\* Of two texts, what decides is the first place where they differ.
LEMMA FirstDifference ==
  ASSUME NEW C, NEW s \in Seq(C), NEW t \in Seq(C), NEW i \in Nat \ {0}, i <= Len(s), i <= Len(t),
         \A j \in 1 .. (i - 1) : s[j] = t[j], Rank(s[i]) < Rank(t[i])
  PROVE  Precedes(s, t)
  <1>1. SubSeq(s, 1, i - 1) = SubSeq(t, 1, i - 1)
    <2>1. /\ SubSeq(s, 1, i - 1) \in Seq(C) /\ Len(SubSeq(s, 1, i - 1)) = i - 1
          /\ \A j \in 1 .. (i - 1) : SubSeq(s, 1, i - 1)[j] = s[j]
      OBVIOUS
    <2>2. /\ SubSeq(t, 1, i - 1) \in Seq(C) /\ Len(SubSeq(t, 1, i - 1)) = i - 1
          /\ \A j \in 1 .. (i - 1) : SubSeq(t, 1, i - 1)[j] = t[j]
      OBVIOUS
    <2>3. QED
      BY <2>1, <2>2, SeqEqual
  <1>2. i \in 1 .. Len(s)
    OBVIOUS
  <1>3. QED
    BY <1>1, <1>2 DEF Precedes

StartsWith(x, m) ==
  /\ x \in Seq(Chars) /\ 3 <= Len(x)
  /\ x[1] = Digits[Hundreds(m) + 1] /\ x[2] = Digits[Tens(m) + 1] /\ x[3] = Digits[Ones(m) + 1]

LEMMA IdStartsWithWeight ==
  ASSUME NEW m \in ShortWeights, NEW r, WellFormed(r), r.kind \in {"patch", "manifest"}, r.weight = m
  PROVE  StartsWith(Id(r), m)
  <1> DEFINE p == Padded(m)
             q == TargetSuffix(r) \o Dash \o r.name
             x == Id(r)
  <1>1. q \in Seq(Chars) /\ x = p \o Dash \o q
    <2>1. r.weight >= 0
      BY DEF ShortWeights
    <2>2. q \in Seq(Chars) /\ x = Padded(r.weight) \o Dash \o q
      BY <2>1, PatchIdParts
    <2>3. QED
      BY <2>2
  <1>2. p \in Seq(Chars)
    <2>1. m \in Int
      BY DEF ShortWeights
    <2> HIDE DEF p
    <2>2. QED
      BY <2>1, WeightIsWritten, TextsAreChars DEF p
  <1>3. p = <<Digits[Hundreds(m) + 1], Digits[Tens(m) + 1], Digits[Ones(m) + 1]>>
    BY ThreeDigits DEF HasThreeDigits
  <1>4. /\ Len(p) = 3 /\ p[1] = Digits[Hundreds(m) + 1]
        /\ p[2] = Digits[Tens(m) + 1] /\ p[3] = Digits[Ones(m) + 1]
    <2> HIDE DEF p
    <2> QED
      BY <1>3
  <1> HIDE DEF p, q, x
  <1>5. x \in Seq(Chars) /\ Joins(x, p, q)
    BY <1>1, <1>2, Joined, TextsAreChars
  <1>6. Len(q) \in Nat /\ 1 \in 1 .. 3 /\ 2 \in 1 .. 3 /\ 3 \in 1 .. 3
    BY <1>1
  <1>7. x[1] = p[1] /\ x[2] = p[2] /\ x[3] = p[3] /\ 3 <= Len(x)
    BY <1>4, <1>5, <1>6 DEF Joins
  <1>8. QED
    BY <1>4, <1>5, <1>7 DEF x, StartsWith

LEMMA LowerDigit ==
  ASSUME NEW j \in 0 .. 9, NEW k \in 0 .. 9, j < k
  PROVE  Rank(Digits[j + 1]) < Rank(Digits[k + 1])
  <1>1. Rank(Digits[j + 1]) = 1 + j /\ Rank(Digits[k + 1]) = 1 + k
    BY RankOfDigit
  <1>2. QED
    BY <1>1

LEMMA InOrderOfWeights ==
  ASSUME NEW m \in ShortWeights, NEW n \in ShortWeights, NEW x, NEW y,
         m < n, StartsWith(x, m), StartsWith(y, n)
  PROVE  Precedes(x, y)
  <1>1. /\ Hundreds(m) \in 0 .. 9 /\ Tens(m) \in 0 .. 9 /\ Ones(m) \in 0 .. 9
        /\ Hundreds(n) \in 0 .. 9 /\ Tens(n) \in 0 .. 9 /\ Ones(n) \in 0 .. 9
        /\ m = 100 * Hundreds(m) + 10 * Tens(m) + Ones(m)
        /\ n = 100 * Hundreds(n) + 10 * Tens(n) + Ones(n)
    <2>1. HasThreeDigits(m)
      BY ThreeDigits
    <2>2. HasThreeDigits(n)
      BY ThreeDigits
    <2>3. QED
      BY <2>1, <2>2 DEF HasThreeDigits
  <1>2. /\ x \in Seq(Chars) /\ y \in Seq(Chars) /\ 3 <= Len(x) /\ 3 <= Len(y)
        /\ x[1] = Digits[Hundreds(m) + 1] /\ x[2] = Digits[Tens(m) + 1] /\ x[3] = Digits[Ones(m) + 1]
        /\ y[1] = Digits[Hundreds(n) + 1] /\ y[2] = Digits[Tens(n) + 1] /\ y[3] = Digits[Ones(n) + 1]
    BY DEF StartsWith
  <1>3. \/ Hundreds(m) < Hundreds(n)
        \/ Hundreds(m) = Hundreds(n) /\ Tens(m) < Tens(n)
        \/ Hundreds(m) = Hundreds(n) /\ Tens(m) = Tens(n) /\ Ones(m) < Ones(n)
    <2> DEFINE h == Hundreds(m)
               t == Tens(m)
               u == Ones(m)
               i == Hundreds(n)
               j == Tens(n)
               k == Ones(n)
    <2>1. /\ h \in Int /\ t \in 0 .. 9 /\ u \in 0 .. 9 /\ i \in Int /\ j \in 0 .. 9 /\ k \in 0 .. 9
          /\ 100 * h + 10 * t + u < 100 * i + 10 * j + k
      BY <1>1 DEF ShortWeights
    <2> HIDE DEF h, t, u, i, j, k
    <2>2. h < i \/ (h = i /\ t < j) \/ (h = i /\ t = j /\ u < k)
      BY <2>1
    <2>3. QED
      BY <2>2 DEF h, t, u, i, j, k
  <1>4. x \in Seq(Chars) /\ y \in Seq(Chars)
    BY <1>2
  <1>9. ASSUME NEW i \in 1 .. 3, \A j \in 1 .. (i - 1) : x[j] = y[j], Rank(x[i]) < Rank(y[i])
        PROVE  Precedes(x, y)
    <2>1. i \in Nat \ {0} /\ i <= Len(x) /\ i <= Len(y)
      BY <1>2
    <2>2. QED
      BY <1>4, <1>9, <2>1, FirstDifference
  <1>5. CASE Hundreds(m) < Hundreds(n)
    <2>1. Rank(Digits[Hundreds(m) + 1]) < Rank(Digits[Hundreds(n) + 1])
      BY <1>1, <1>5, LowerDigit
    <2>2. Rank(x[1]) < Rank(y[1])
      BY <1>2, <2>1
    <2>3. \A j \in 1 .. (1 - 1) : x[j] = y[j]
      BY <1>2, <1>5
    <2>4. 1 \in 1 .. 3
      OBVIOUS
    <2>5. QED
      BY <1>9, <2>2, <2>3, <2>4
  <1>6. CASE Hundreds(m) = Hundreds(n) /\ Tens(m) < Tens(n)
    <2>1. Rank(Digits[Tens(m) + 1]) < Rank(Digits[Tens(n) + 1])
      BY <1>1, <1>6, LowerDigit
    <2>2. Rank(x[2]) < Rank(y[2])
      BY <1>2, <2>1
    <2>3. \A j \in 1 .. (2 - 1) : x[j] = y[j]
      BY <1>2, <1>6
    <2>4. 2 \in 1 .. 3
      OBVIOUS
    <2>5. QED
      BY <1>9, <2>2, <2>3, <2>4
  <1>7. CASE Hundreds(m) = Hundreds(n) /\ Tens(m) = Tens(n) /\ Ones(m) < Ones(n)
    <2>1. Rank(Digits[Ones(m) + 1]) < Rank(Digits[Ones(n) + 1])
      BY <1>1, <1>7, LowerDigit
    <2>2. Rank(x[3]) < Rank(y[3])
      BY <1>2, <2>1
    <2>3. \A j \in 1 .. (3 - 1) : x[j] = y[j]
      BY <1>2, <1>7
    <2>4. 3 \in 1 .. 3
      OBVIOUS
    <2>5. QED
      BY <1>9, <2>2, <2>3, <2>4
  <1>8. QED
    BY <1>3, <1>5, <1>6, <1>7

--------------------------------------------------------------------------------
(* The workspace and its objects *)

\* Every object is the one that its resource asked for, perhaps without its annotation.
Made(o) == \E r \in Resources : o \in {NewObject(r), [NewObject(r) EXCEPT !.annotation = Null]}

Unique(os) == \A o, p \in os : o.kind = p.kind /\ o.id = p.id => o = p

IInv == /\ configured \subseteq Resources /\ IsFiniteSet(configured)
        /\ Cardinality(configured) <= MaxResources
        /\ DOMAIN state = Resources /\ state = [r \in Resources |-> state[r]]
        /\ \A r \in Resources : state[r] # Null => r \in configured
        /\ \A o \in objects : Made(o)
        /\ Unique(objects)

\* An object says what it was made for, and its kind and ID are its resource's.
LEMMA MadeFor ==
  ASSUME NEW o, Made(o)
  PROVE  /\ o.made \in Resources /\ WellFormed(o.made) /\ o.kind = o.made.kind /\ o.id = Id(o.made)
         /\ o.labels = Scope(o.made) /\ o.role = o.made.role
         /\ o.annotation \in {Null, NewObject(o.made).annotation}
  <1>1. PICK r \in Resources : o \in {NewObject(r), [NewObject(r) EXCEPT !.annotation = Null]}
    BY DEF Made
  <1>2. /\ o.made = r /\ o.kind = r.kind /\ o.id = Id(r) /\ o.labels = Scope(r) /\ o.role = r.role
        /\ o.annotation \in {Null, NewObject(r).annotation}
    BY <1>1 DEF NewObject
  <1>3. QED
    BY <1>2, ResourcesAssumption

LEMMA InitEstablishes == Init => IInv
  <1>1. IsFiniteSet({}) /\ Cardinality({}) = 0
    BY FS_EmptySet
  <1>2. QED
    BY <1>1, ResourcesAssumption DEF Init, IInv, Unique

\* A state entry is replaced: by Null, or by anything for a resource that stays configured.
StateStep(r) ==
  /\ \E m : state' = [state EXCEPT ![r] = m]
  /\ state'[r] # Null => r \in configured'

LEMMA StateStepKeeps ==
  ASSUME IInv, NEW r \in Resources, StateStep(r), configured \ {r} \subseteq configured'
  PROVE  /\ DOMAIN state' = Resources /\ state' = [x \in Resources |-> state'[x]]
         /\ \A x \in Resources : state'[x] # Null => x \in configured'
  <1>1. PICK m : state' = [state EXCEPT ![r] = m]
    BY DEF StateStep
  <1>2. DOMAIN state' = Resources /\ state' = [x \in Resources |-> state'[x]]
    BY <1>1 DEF IInv
  <1>3. \A x \in Resources : x # r => state'[x] = state[x]
    BY <1>1 DEF IInv
  <1>4. QED
    BY <1>2, <1>3 DEF IInv, StateStep

LEMMA NextKeeps == IInv /\ [Next]_vars => IInv'
  <1> SUFFICES ASSUME IInv, [Next]_vars PROVE IInv'
    OBVIOUS
  <1> DEFINE Bounded == configured' \subseteq Resources /\ IsFiniteSet(configured')
                        /\ Cardinality(configured') <= MaxResources
             StateOk == /\ DOMAIN state' = Resources /\ state' = [x \in Resources |-> state'[x]]
                        /\ \A x \in Resources : state'[x] # Null => x \in configured'
             ObjectsOk == (\A o \in objects' : Made(o)) /\ Unique(objects')
  <1>1. Bounded /\ StateOk /\ ObjectsOk => IInv'
    BY DEF IInv, Unique, Made, NewObject
  <1>2. configured' = configured => Bounded
    BY DEF IInv
  <1>3. objects' \subseteq objects => ObjectsOk
    BY DEF IInv, Unique
  <1> HIDE DEF Bounded, StateOk, ObjectsOk
  <1>4. ASSUME NEW r \in Resources, Configure(r) PROVE IInv'
    <2>1. Bounded
      <3>1. Cardinality(configured) < MaxResources /\ r \notin configured
            /\ configured' = configured \cup {r}
        BY <1>4 DEF Configure
      <3>2. IsFiniteSet(configured) /\ configured \subseteq Resources
        BY DEF IInv
      <3>3. IsFiniteSet(configured') /\ Cardinality(configured') = Cardinality(configured) + 1
        BY <3>1, <3>2, FS_AddElement
      <3>4. Cardinality(configured) \in Nat
        BY <3>2, FS_CardinalityType
      <3>5. Cardinality(configured') <= MaxResources
        BY <3>1, <3>3, <3>4, ResourcesAssumption
      <3>6. QED
        BY <3>1, <3>2, <3>3, <3>5 DEF Bounded
    <2>2. StateOk
      BY <1>4 DEF Configure, IInv, StateOk
    <2>3. ObjectsOk
      BY <1>3, <1>4 DEF Configure
    <2>4. QED
      BY <1>1, <2>1, <2>2, <2>3
  <1>5. ASSUME NEW r \in Resources, Create(r) PROVE IInv'
    <2>1. Bounded
      BY <1>2, <1>5 DEF Create
    <2>2. StateOk
      <3>1. StateStep(r) /\ configured' = configured
        BY <1>5 DEF Create, StateStep
      <3>2. QED
        BY <3>1, StateStepKeeps DEF StateOk
    <2>3. ObjectsOk
      <3>1. objects' = objects \cup {NewObject(r)}
        BY <1>5 DEF Create
      <3>2. \A o \in objects : ~(o.kind = r.kind /\ o.id = Id(r))
        BY <1>5 DEF Create, Taken
      <3>3. NewObject(r).kind = r.kind /\ NewObject(r).id = Id(r) /\ Made(NewObject(r))
        BY DEF NewObject, Made
      <3>4. \A o \in objects' : Made(o)
        BY <3>1, <3>3 DEF IInv
      <3>5. Unique(objects')
        <4> DEFINE n == NewObject(r)
        <4>1. n.kind = r.kind /\ n.id = Id(r) /\ objects' = objects \cup {n}
          BY <3>1, <3>3
        <4> HIDE DEF n
        <4>2. QED
          BY <3>2, <4>1 DEF IInv, Unique
      <3>6. QED
        BY <3>4, <3>5 DEF ObjectsOk
    <2>4. QED
      BY <1>1, <2>1, <2>2, <2>3
  <1>6. ASSUME NEW r \in Resources, NEW id, Read(r, id), r \in configured PROVE IInv'
    <2>1. Bounded /\ ObjectsOk
      BY <1>2, <1>3, <1>6 DEF Read
    <2>2. StateOk
      <3>1. StateStep(r) /\ configured' = configured
        BY <1>6 DEF Read, StateStep
      <3>2. QED
        BY <3>1, StateStepKeeps DEF StateOk
    <2>3. QED
      BY <1>1, <2>1, <2>2
  <1>7. ASSUME NEW r \in Resources, Refresh(r) \/ Import(r) PROVE IInv'
    BY <1>6, <1>7 DEF Refresh, Import, IInv
  <1>8. ASSUME NEW r \in Resources, Delete(r) PROVE IInv'
    <2>1. Bounded
      <3>1. configured' = configured \ {r}
        BY <1>8 DEF Delete
      <3>2. IsFiniteSet(configured) /\ configured \subseteq Resources
            /\ Cardinality(configured) <= MaxResources
        BY DEF IInv
      <3>3. IsFiniteSet(configured') /\ Cardinality(configured') <= Cardinality(configured)
            /\ configured' \subseteq Resources
        <4>1. configured' \subseteq configured
          BY <3>1
        <4>2. QED
          BY <3>2, <4>1, FS_Subset
      <3>4. Cardinality(configured) \in Nat /\ Cardinality(configured') \in Nat
        BY <3>2, <3>3, FS_CardinalityType
      <3>5. QED
        BY <3>2, <3>3, <3>4, ResourcesAssumption DEF Bounded
    <2>2. StateOk
      <3>1. state' = [state EXCEPT ![r] = Null] /\ configured' = configured \ {r}
        BY <1>8 DEF Delete
      <3>2. state'[r] = Null
        BY <3>1 DEF IInv
      <3>3. QED
        BY <3>1, <3>2, StateStepKeeps DEF StateOk, StateStep
    <2>3. ObjectsOk
      BY <1>3, <1>8 DEF Delete
    <2>4. QED
      BY <1>1, <2>1, <2>2, <2>3
  <1>9. ASSUME NEW r \in Resources, Forget(r) PROVE IInv'
    <2>1. Bounded /\ ObjectsOk
      BY <1>2, <1>3, <1>9 DEF Forget
    <2>2. StateOk
      <3>1. state' = [state EXCEPT ![r] = Null] /\ configured' = configured
        BY <1>9 DEF Forget
      <3>2. state'[r] = Null
        BY <3>1 DEF IInv
      <3>3. QED
        BY <3>1, <3>2, StateStepKeeps DEF StateOk, StateStep
    <2>3. QED
      BY <1>1, <2>1, <2>2
  <1>10. CASE DropAnnotation
    <2>1. Bounded
      BY <1>2, <1>10 DEF DropAnnotation
    <2>2. StateOk
      BY <1>10 DEF DropAnnotation, IInv, StateOk
    <2>3. ObjectsOk
      <3>1. PICK o \in objects :
              objects' = (objects \ {o}) \cup {[o EXCEPT !.annotation = Null]}
        BY <1>10 DEF DropAnnotation
      <3> DEFINE n == [o EXCEPT !.annotation = Null]
      <3>2. Made(n) /\ n.kind = o.kind /\ n.id = o.id
        <4>1. PICK r \in Resources : o \in {NewObject(r), [NewObject(r) EXCEPT !.annotation = Null]}
          BY DEF IInv, Made
        <4>2. n = [NewObject(r) EXCEPT !.annotation = Null]
          BY <4>1 DEF NewObject
        <4>3. n.kind = r.kind /\ n.id = Id(r) /\ o.kind = r.kind /\ o.id = Id(r)
          BY <4>1, <4>2 DEF NewObject
        <4>4. QED
          <5> HIDE DEF n
          <5> QED
            BY <4>2, <4>3 DEF Made
      <3> HIDE DEF n
      <3>3. objects' = (objects \ {o}) \cup {n}
        BY <3>1 DEF n
      <3>4. \A p \in objects' : Made(p)
        BY <3>2, <3>3 DEF IInv
      <3>5. Unique(objects')
        BY <3>2, <3>3 DEF IInv, Unique
      <3>6. QED
        BY <3>4, <3>5 DEF ObjectsOk
    <2>4. QED
      BY <1>1, <2>1, <2>2, <2>3
  <1>11. CASE UNCHANGED vars
    <2>1. Bounded /\ ObjectsOk
      BY <1>2, <1>3, <1>11 DEF vars
    <2>2. StateOk
      BY <1>11 DEF vars, IInv, StateOk
    <2>3. QED
      BY <1>1, <2>1, <2>2
  <1>12. QED
    BY <1>4, <1>5, <1>7, <1>8, <1>9, <1>10, <1>11 DEF Next

LEMMA Invariance == Spec => []IInv
  <1>1. QED
    BY InitEstablishes, NextKeeps, PTL DEF Spec

\* No two resources of a kind have an object of the same ID, and the terraform state holds what is
\* configured.
THEOREM Typing == Spec => []TypeOK
  <1>1. IInv => TypeOK
    BY DEF IInv, TypeOK, Unique
  <1>2. QED
    BY <1>1, Invariance, PTL

\* What Read makes of an object is what was configured: weight, name and scope come back from the
\* ID and the labels, of resources of every name, cluster and weight from zero up.
THEOREM Recovery == Spec => []Recovered
  <1>1. ASSUME IInv, NEW r \in Resources, NEW o \in objects, o.made = r,
               r.weight # Null => r.weight >= 0
        PROVE  /\ ToModel(o).id = Id(r) /\ ToModel(o).scope = Scope(r) /\ ToModel(o).weight = r.weight
               /\ o.annotation = NewObject(r).annotation => ToModel(o) = Configured(r)
    <2>1. /\ WellFormed(r) /\ o.kind = r.kind /\ o.id = Id(r) /\ o.labels = Scope(r) /\ o.role = r.role
      BY <1>1, MadeFor DEF IInv
    <2>2. WeightIn(o) = r.weight
      <3>1. CASE r.kind \in {"patch", "manifest"}
        <4>1. r.weight >= 0
          BY <1>1, <2>1, <3>1 DEF WellFormed
        <4>2. ParseConfigPatchID(Id(r)).weight = r.weight
          BY <2>1, <3>1, <4>1, WeightComesBack
        <4>3. QED
          BY <2>1, <3>1, <4>2 DEF WeightIn
      <3>2. CASE r.kind \notin {"patch", "manifest"}
        BY <2>1, <3>2 DEF WeightIn, WellFormed
      <3>3. QED
        BY <3>1, <3>2
    <2>3. ASSUME o.annotation = NewObject(r).annotation PROVE NameIn(o) = NameOf(r)
      <3>1. CASE r.kind \in {"patch", "manifest"}
        <4>1. o.annotation = r.name /\ r.name # Null
          BY <2>1, <2>3, <3>1 DEF NewObject, WellFormed
        <4>2. QED
          BY <2>1, <3>1, <4>1 DEF NameIn, NameOf
      <3>2. CASE r.kind = "extensions"
        BY <2>1, <3>2 DEF NameIn, NameOf, WellFormed
      <3>3. CASE r.kind = "machineSet"
        <4>1. o.labels.cluster = r.cluster
          BY <2>1 DEF Scope, ScopeAttributes
        <4>2. MachineSetNameFromID(Id(r), r.cluster) = NameOf(r)
          BY <2>1, <3>3, NameComesBack
        <4>3. QED
          BY <2>1, <3>3, <4>1, <4>2 DEF NameIn
      <3>4. QED
        BY <2>1, <3>1, <3>2, <3>3 DEF WellFormed, Kinds
    <2>4. QED
      BY <2>1, <2>2, <2>3 DEF ToModel, Configured
  <1>2. IInv => Recovered
    BY <1>1 DEF Recovered
  <1>3. QED
    BY <1>2, Invariance, PTL

\* The order of IDs, by which Omni applies patches, is the order of weights, for every two weights
\* of at most three digits.
THEOREM Order == Spec => []SortedByWeight
  <1>1. ASSUME IInv, NEW o \in objects, NEW p \in objects, o.kind = p.kind,
               o.kind \in {"patch", "manifest"}, o.made.weight < p.made.weight,
               {o.made.weight, p.made.weight} \subseteq 0 .. 999
        PROVE  Precedes(o.id, p.id)
    <2>1. /\ WellFormed(o.made) /\ o.made.kind = o.kind /\ o.id = Id(o.made)
          /\ WellFormed(p.made) /\ p.made.kind = p.kind /\ p.id = Id(p.made)
      BY MadeFor, <1>1 DEF IInv
    <2> DEFINE m == o.made.weight
               n == p.made.weight
               x == Id(o.made)
               y == Id(p.made)
    <2>2. m \in ShortWeights /\ n \in ShortWeights /\ m < n
      BY <1>1 DEF ShortWeights
    <2>3. o.made.kind \in {"patch", "manifest"} /\ p.made.kind \in {"patch", "manifest"}
      BY <1>1, <2>1
    <2>4. ASSUME NEW r, WellFormed(r), r.kind \in {"patch", "manifest"}, r.weight \in ShortWeights
          PROVE  StartsWith(Id(r), r.weight)
      BY <2>4, IdStartsWithWeight
    <2>5. StartsWith(x, m) /\ StartsWith(y, n)
      BY <2>1, <2>2, <2>3, <2>4
    <2> HIDE DEF m, n, x, y
    <2>6. Precedes(x, y)
      BY <2>2, <2>5, InOrderOfWeights
    <2>7. QED
      BY <2>1, <2>6 DEF x, y
  <1>2. IInv => SortedByWeight
    BY <1>1 DEF SortedByWeight
  <1>3. QED
    BY <1>2, Invariance, PTL

\* With the same target, and with no target of two clusters, the scope is the same.
LEMMA ScopeOfTarget ==
  ASSUME NEW r, NEW s, WellFormed(r), WellFormed(s), Sort(r) = Sort(s),
         TargetSuffix(r) = TargetSuffix(s), Sort(r) = {"cluster"} \/ r.cluster = s.cluster
  PROVE  Scope(r) = Scope(s)
  <1>1. \A a \in ScopeAttributes : (a \in Sort(r) <=> r[a] # Null) /\ (a \in Sort(s) <=> s[a] # Null)
    BY DEF Sort
  <1>2. Sort(r) \in {{"cluster"}, {"cluster", "machineSet"}, {"cluster", "clusterMachine"}, {"machine"}}
    BY DEF WellFormed, SortsOf, Kinds
  <1>3. /\ r.cluster = s.cluster /\ r.machineSet = s.machineSet
        /\ r.clusterMachine = s.clusterMachine /\ r.machine = s.machine
    <2>1. CASE Sort(r) = {"cluster"}
      BY <1>1, <2>1 DEF ScopeAttributes, TargetSuffix
    <2>2. CASE Sort(r) = {"cluster", "machineSet"}
      BY <1>1, <2>2 DEF ScopeAttributes, TargetSuffix
    <2>3. CASE Sort(r) = {"cluster", "clusterMachine"}
      BY <1>1, <2>3 DEF ScopeAttributes, TargetSuffix
    <2>4. CASE Sort(r) = {"machine"}
      BY <1>1, <2>4 DEF ScopeAttributes, TargetSuffix
    <2>5. QED
      BY <1>2, <2>1, <2>2, <2>3, <2>4
  <1>4. QED
    BY <1>3 DEF Scope, ScopeAttributes

\* An ID that is taken is taken by a resource configured the same, where the targets have no dash,
\* whatever the names have: Create refuses nobody else's resource.
THEOREM Apart == Spec => []ApartWithoutDashes
  <1>1. ASSUME IInv, NEW r \in configured, NEW o \in Taken(r), SameSort(r, o.made),
               ~SharedTarget(r, o.made), ~LikeControlPlane(r)
        PROVE  Configured(r) = Configured(o.made)
    <2> DEFINE s == o.made
    <2>1. /\ WellFormed(r) /\ WellFormed(s) /\ r.kind = s.kind /\ Id(r) = Id(s)
      <3>1. o \in objects /\ o.kind = r.kind /\ o.id = Id(r)
        BY DEF Taken
      <3>2. WellFormed(s) /\ o.kind = s.kind /\ o.id = Id(s)
        BY <1>1, <3>1, MadeFor DEF IInv
      <3>3. WellFormed(r)
        BY <1>1, ResourcesAssumption DEF IInv
      <3>4. QED
        BY <3>1, <3>2, <3>3
    <2>2. /\ Sort(r) = Sort(s) /\ HasNoDash(TargetSuffix(r)) /\ HasNoDash(TargetSuffix(s))
          /\ Sort(r) = {"cluster"} \/ r.cluster = s.cluster
      BY <1>1 DEF SameSort, SharedTarget, HasNoDash, Contains
    <2> HIDE DEF s
    <2>3. TargetSuffix(r) = TargetSuffix(s) => Scope(r) = Scope(s)
      BY <2>1, <2>2, ScopeOfTarget
    <2>4. CASE r.kind \in {"patch", "manifest"}
      <3>1. r.weight = s.weight /\ TargetSuffix(r) = TargetSuffix(s) /\ r.name = s.name
        BY <2>1, <2>2, <2>4, PatchesApart
      <3>2. r.role = Null /\ s.role = Null
        BY <2>1, <2>4 DEF WellFormed
      <3>3. NameOf(r) = r.name /\ NameOf(s) = s.name
        BY <2>1, <2>4 DEF NameOf
      <3>4. QED
        BY <2>1, <2>3, <3>1, <3>2, <3>3 DEF Configured, s
    <2>5. CASE r.kind = "extensions"
      <3>1. TargetSuffix(r) = TargetSuffix(s)
        BY <2>1, <2>5, ExtensionsApart
      <3>2. r.role = s.role /\ r.weight = s.weight /\ r.name = s.name
        BY <2>1, <2>5 DEF WellFormed
      <3>3. NameOf(r) = r.name /\ NameOf(s) = s.name
        BY <2>1, <2>5 DEF NameOf
      <3>4. QED
        BY <2>1, <2>3, <3>1, <3>2, <3>3 DEF Configured, s
    <2>6. CASE r.kind = "machineSet"
      <3> DEFINE c == r.cluster
                 d == s.cluster
                 m == NameOf(r)
                 n == NameOf(s)
      <3>1. /\ c \in Seq(Chars) /\ m \in Seq(Chars) /\ TargetSuffix(r) = c /\ Id(r) = c \o Dash \o m
            /\ d \in Seq(Chars) /\ n \in Seq(Chars) /\ TargetSuffix(s) = d /\ Id(s) = d \o Dash \o n
        BY <2>1, <2>6, MachineSetParts
      <3> HIDE DEF c, d, m, n
      <3>2. c = d /\ m = n
        <4>1. HasNoDash(c) /\ HasNoDash(d) /\ c \o Dash \o m = d \o Dash \o n
          BY <2>1, <2>2, <3>1
        <4>2. QED
          BY <3>1, <4>1, TextsAreChars, SplitAtDash
      <3>3. NameOf(r) # ControlPlanes /\ NameOf(s) # ControlPlanes
        BY <1>1, <2>6, <3>2 DEF LikeControlPlane, m, n
      <3>4. r.role # "controlplane" /\ s.role # "controlplane"
        BY <2>1, <2>6, <3>3 DEF NameOf
      <3>5. r.role = s.role /\ r.weight = s.weight
        BY <2>1, <2>6, <3>4 DEF WellFormed
      <3>6. QED
        BY <2>1, <2>3, <3>1, <3>2, <3>5 DEF Configured, m, n, s
    <2>7. QED
      BY <2>1, <2>4, <2>5, <2>6 DEF WellFormed, Kinds
  <1>2. IInv => ApartWithoutDashes
    BY <1>1 DEF ApartWithoutDashes
  <1>3. QED
    BY <1>2, Invariance, PTL

================================================================================
