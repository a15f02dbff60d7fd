------------------------- MODULE Propagation_proofs -------------------------
(***************************************************************************)
(* Proofs about Propagation, in three parts: numbers are read back from    *)
(* their digits; a context is read back from both carriers, with all its   *)
(* ids, and with its flags below ten (one hop); and so a trace survives    *)
(* any number of hops, processes and spans.                                *)
(***************************************************************************)
EXTENDS Propagation, SequenceTheorems, TLAPS

-----------------------------------------------------------------------------
(* Numbers and texts. *)

Numbers == INSTANCE ThriftProtocols_proofs

Bases == {10, 16}

\* A property of the numbers up to n that passes from each to the next holds of all.
LEMMA FromEachToTheNext ==
    ASSUME NEW n \in Nat, NEW T, T \subseteq 0..n, 0 \notin T,
           \A i \in 1..n : i - 1 \notin T => i \notin T
    PROVE  T = {}
<1>1. ASSUME T # {} PROVE FALSE
    <2>1. T \in SUBSET Nat
        OBVIOUS
    <2>2. PICK x \in T : \A y \in T : x <= y
        BY <1>1, <2>1, Numbers!LeastNumber
    <2>3. x \in 1..n /\ ~(x <= x - 1)
        OBVIOUS
    <2>4. x - 1 \notin T
        BY <2>2, <2>3
    <2> QED
        BY <2>3, <2>4
<1> QED
    BY <1>1

\* The digits of a number, one after those of the number without its last one.
LEMMA NumeralDef ==
    ASSUME NEW n \in Nat, NEW b \in Bases
    PROVE  Numeral(n, b) = IF n < b THEN <<n>> ELSE Append(Numeral(n \div b, b), n % b)
<1> DEFINE S == Seq(Int)
           a == [m \in Nat |-> <<m>>]
           h == [m \in Nat |-> [v \in S |-> Append(v, m % b)]]
           g == [m \in Nat |-> m \div b]
           Def(f) == [m \in Nat |-> IF m < b THEN <<m>> ELSE Append(f[m \div b], m % b)]
<1>1. b \in Nat \ {0} /\ \A m \in Nat : m \div b \in Nat /\ m % b \in Int /\ (m >= b => m \div b < m)
    BY DEF Bases
<1>2. a \in [Nat -> S] /\ g \in [Nat -> Nat] /\ \A m \in Nat : m >= b => g[m] < m
    BY <1>1
<1>3. h \in [Nat -> [S -> S]]
    <2>1. \A m \in Nat, v \in S : Append(v, m % b) \in S
        BY <1>1, AppendProperties
    <2> QED
        BY <2>1
<1>4. PICK f \in [Nat -> S] : Numbers!Recurs(f, b, a, h, g)
    <2> HIDE DEF S, a, g, h
    <2>1. Numbers!Recursion(S, b, a, h, g)
        BY <1>1, <1>2, <1>3 DEF Numbers!Recursion
    <2> QED
        BY <2>1, Numbers!FunctionExists
<1>5. f = Def(f)
    <2> HIDE DEF S
    <2>1. \A m \in Nat : f[m \div b] \in S
        BY <1>1
    <2>2. \A m \in Nat : (IF m < b THEN a[m] ELSE h[m][f[g[m]]])
                          = (IF m < b THEN <<m>> ELSE Append(f[m \div b], m % b))
        BY <1>1, <2>1
    <2> HIDE DEF a, h, g
    <2>3. \A m \in Nat : f[m] = IF m < b THEN a[m] ELSE h[m][f[g[m]]]
        BY <1>4 DEF Numbers!Recurs
    <2>4. f = [m \in Nat |-> f[m]]
        OBVIOUS
    <2>5. \A m \in Nat : f[m] = IF m < b THEN <<m>> ELSE Append(f[m \div b], m % b)
        BY <2>2, <2>3, Zenon
    <2> QED
        BY <2>4, <2>5, Zenon
<1> DEFINE digits == CHOOSE q : q = Def(q)
<1>6. digits = Def(digits)
    <2> HIDE DEF Def
    <2> QED
        BY <1>5
<1>7. \A m \in Nat : Numeral(m, b) = digits[m]
    BY DEF Numeral
<1> DEFINE At(m) == IF m < b THEN <<m>> ELSE Append(digits[m \div b], m % b)
<1>8. digits[n] = At(n)
    <2>1. Def(digits) = [m \in Nat |-> At(m)]
        OBVIOUS
    <2> HIDE DEF Def, At, digits
    <2>2. digits = [m \in Nat |-> At(m)]
        BY <1>6, <2>1
    <2> QED
        BY <2>2
<1> HIDE DEF digits
<1>9. Numeral(n \div b, b) = digits[n \div b]
    BY <1>1, <1>7
<1> QED
    BY <1>7, <1>8, <1>9

\* There is one word without digits, and each digit makes sixteen times as many.
LEMMA WordCountDef ==
    /\ WordCount[0] = 1
    /\ \A k \in Nat \ {0} : WordCount[k] = 16 * WordCount[k - 1]
    /\ \A k \in Nat : WordCount[k] \in Nat
<1> DEFINE a == [m \in Nat |-> 1]
           h == [m \in Nat |-> [v \in Nat |-> 16 * v]]
           g == [m \in Nat |-> IF m = 0 THEN 0 ELSE m - 1]
           Def(f) == [k \in Nat |-> IF k = 0 THEN 1 ELSE 16 * f[k - 1]]
<1>1. /\ a \in [Nat -> Nat] /\ h \in [Nat -> [Nat -> Nat]]
      /\ g \in [Nat -> Nat] /\ \A m \in Nat : m >= 1 => g[m] < m
    OBVIOUS
<1>2. PICK f \in [Nat -> Nat] : Numbers!Recurs(f, 1, a, h, g)
    <2> HIDE DEF a, g, h
    <2>1. 1 \in Nat \ {0}
        OBVIOUS
    <2>2. Numbers!Recursion(Nat, 1, a, h, g)
        BY <1>1, <2>1, Zenon DEF Numbers!Recursion
    <2> QED
        BY <2>2, Numbers!FunctionExists
<1>3. f = Def(f)
    <2>1. \A m \in Nat : (IF m < 1 THEN a[m] ELSE h[m][f[g[m]]])
                          = (IF m = 0 THEN 1 ELSE 16 * f[m - 1])
        OBVIOUS
    <2> HIDE DEF a, h, g
    <2>2. \A m \in Nat : f[m] = IF m < 1 THEN a[m] ELSE h[m][f[g[m]]]
        BY <1>2 DEF Numbers!Recurs
    <2>3. f = [m \in Nat |-> f[m]]
        OBVIOUS
    <2>4. \A m \in Nat : f[m] = IF m = 0 THEN 1 ELSE 16 * f[m - 1]
        BY <2>1, <2>2, Zenon
    <2> QED
        BY <2>3, <2>4, Zenon
<1>4. WordCount = CHOOSE e : e = Def(e)
    BY DEF WordCount
<1> DEFINE At(k) == IF k = 0 THEN 1 ELSE 16 * WordCount[k - 1]
<1>5. \A k \in Nat : WordCount[k] = At(k)
    <2>1. WordCount = Def(WordCount)
        <3> HIDE DEF Def
        <3> QED
            BY <1>3, <1>4
    <2>2. Def(WordCount) = [k \in Nat |-> At(k)]
        OBVIOUS
    <2> HIDE DEF Def, At
    <2>3. WordCount = [k \in Nat |-> At(k)]
        BY <2>1, <2>2
    <2> QED
        BY <2>3
<1>6. \A k \in Nat : WordCount[k] \in Nat
    <2> SUFFICES ASSUME NEW n \in Nat PROVE WordCount[n] \in Nat
        OBVIOUS
    <2> DEFINE T == {k \in 0..n : WordCount[k] \notin Nat}
    <2>1. \A k \in Nat : (k = 0 => WordCount[k] = 1) /\ (k # 0 => WordCount[k] = 16 * WordCount[k - 1])
        BY <1>5
    <2>2. 0 \notin T /\ \A k \in 1..n : k - 1 \notin T => k \notin T
        BY <2>1
    <2>3. T \subseteq 0..n /\ n \in 0..n
        OBVIOUS
    <2>4. T = {}
        <3> HIDE DEF T
        <3> QED
            BY <2>2, <2>3, FromEachToTheNext
    <2> QED
        BY <2>3, <2>4
<1> QED
    BY <1>5, <1>6

\* What adds up the digits from the left.
Climbs(f, t, b) ==
    /\ f \in [0..Len(t) -> Int] /\ f[0] = 0
    /\ \A i \in 1..Len(t) : f[i] = f[i - 1] * b + t[i]

\* The value of a text is what its digits add up to.
LEMMA ValueDef ==
    ASSUME NEW t \in Seq(Int), NEW b \in Bases
    PROVE  \E f : Climbs(f, t, b) /\ Value(t, b) = f[Len(t)]
<1> DEFINE n == Len(t)
           digit == [i \in Nat |-> IF i \in 1..n THEN t[i] ELSE 0]
           a == [i \in Nat |-> 0]
           h == [i \in Nat |-> [v \in Int |-> v * b + digit[i]]]
           g == [i \in Nat |-> IF i = 0 THEN 0 ELSE i - 1]
           Def(f) == [i \in 0..n |-> IF i = 0 THEN 0 ELSE f[i - 1] * b + t[i]]
<1>1. b \in Int /\ n \in Nat /\ \A i \in 1..n : t[i] \in Int
    BY ElementOfSeq, LenProperties DEF Bases
<1>2. digit \in [Nat -> Int]
    BY <1>1
<1>3. \A i \in 1..n : digit[i] = t[i]
    OBVIOUS
<1> HIDE DEF digit
<1>4. a \in [Nat -> Int] /\ g \in [Nat -> Nat] /\ \A i \in Nat : i >= 1 => g[i] < i
    OBVIOUS
<1>5. h \in [Nat -> [Int -> Int]]
    BY <1>1, <1>2
<1>6. PICK f \in [Nat -> Int] : Numbers!Recurs(f, 1, a, h, g)
    <2> HIDE DEF a, g, h
    <2>0. 1 \in Nat \ {0}
        OBVIOUS
    <2>1. Numbers!Recursion(Int, 1, a, h, g)
        BY <1>4, <1>5, <2>0, Zenon DEF Numbers!Recursion
    <2> QED
        BY <2>1, Numbers!FunctionExists
<1> DEFINE e == [i \in 0..n |-> f[i]]
<1>7. \A i \in 0..n : f[i] = IF i = 0 THEN 0 ELSE f[i - 1] * b + t[i]
    <2>1. \A i \in Nat : f[i] = IF i < 1 THEN a[i] ELSE h[i][f[g[i]]]
        <3> HIDE DEF a, g, h
        <3> QED
            BY <1>6 DEF Numbers!Recurs
    <2>2. TAKE i \in 0..n
    <2>3. CASE i = 0
        <3>1. a[0] = 0 /\ 0 \in Nat /\ 0 < 1
            OBVIOUS
        <3> HIDE DEF a, h, g
        <3>2. f[0] = 0
            BY <2>1, <3>1
        <3> QED
            BY <2>3, <3>2, Zenon
    <2>4. CASE i # 0
        <3>1. i \in 1..n /\ i \in Nat /\ ~(i < 1) /\ g[i] = i - 1 /\ i - 1 \in Nat
            BY <1>1, <2>2, <2>4
        <3>2. f[i] = h[i][f[i - 1]]
            <4> HIDE DEF a, h, g
            <4>1. f[i] = h[i][f[g[i]]]
                BY <2>1, <3>1
            <4> QED
                BY <3>1, <4>1
        <3>3. f[i - 1] \in Int
            BY <3>1
        <3>4. h[i][f[i - 1]] = f[i - 1] * b + digit[i]
            BY <3>1, <3>3
        <3> QED
            BY <1>3, <2>4, <3>1, <3>2, <3>4, Zenon
    <2> QED
        BY <2>3, <2>4
<1> HIDE DEF a, h, g
<1>8. e = Def(e) /\ e \in [0..n -> Int]
    <2>1. \A i \in 0..n : e[i] = IF i = 0 THEN 0 ELSE e[i - 1] * b + t[i]
        <3>1. TAKE i \in 0..n
        <3>2. e[i] = f[i]
            OBVIOUS
        <3>3. i # 0 => i - 1 \in 0..n /\ e[i - 1] = f[i - 1]
            BY <1>1
        <3> HIDE DEF e
        <3> QED
            BY <1>7, <3>2, <3>3
    <2>2. e = [i \in 0..n |-> e[i]]
        OBVIOUS
    <2>3. e \in [0..n -> Int]
        BY <1>1
    <2> HIDE DEF e
    <2> QED
        BY <2>1, <2>2, <2>3
<1> DEFINE upTo == CHOOSE q : q = Def(q)
<1>9. upTo = Def(upTo)
    <2> HIDE DEF Def, e
    <2> QED
        BY <1>8
<1>10. Value(t, b) = upTo[n]
    BY DEF Value
<1>11. upTo \in [0..n -> Int]
    <2> DEFINE T == {i \in 0..n : upTo[i] # e[i]}
    <2>1. \A i \in 0..n : /\ i = 0 => upTo[i] = 0 /\ e[i] = 0
                          /\ i # 0 => upTo[i] = upTo[i - 1] * b + t[i] /\ e[i] = e[i - 1] * b + t[i]
        <3> HIDE DEF e, upTo
        <3>1. TAKE i \in 0..n
        <3>2. Def(upTo)[i] = IF i = 0 THEN 0 ELSE upTo[i - 1] * b + t[i]
            OBVIOUS
        <3>3. Def(e)[i] = IF i = 0 THEN 0 ELSE e[i - 1] * b + t[i]
            OBVIOUS
        <3> HIDE DEF Def
        <3> QED
            BY <1>8, <1>9, <3>2, <3>3, Zenon
    <2> HIDE DEF e, upTo
    <2>2. 0 \notin T /\ \A i \in 1..n : i - 1 \notin T => i \notin T
        <3>1. 0 \notin T
            BY <1>1, <2>1
        <3>2. ASSUME NEW i \in 1..n, i - 1 \notin T PROVE i \notin T
            <4>1. i \in 0..n /\ i # 0 /\ i - 1 \in 0..n
                BY <1>1
            <4>2. upTo[i - 1] = e[i - 1]
                BY <3>2, <4>1
            <4>3. upTo[i] = e[i]
                BY <2>1, <4>1, <4>2, Zenon
            <4> QED
                BY <4>3
        <3> QED
            BY <3>1, <3>2
    <2>3. T \subseteq 0..n
        OBVIOUS
    <2>4. T = {}
        <3> HIDE DEF T
        <3> QED
            BY <1>1, <2>2, <2>3, FromEachToTheNext
    <2>5. \A i \in 0..n : upTo[i] \in Int
        BY <1>8, <2>4
    <2>6. upTo = [i \in 0..n |-> upTo[i]]
        <3>1. Def(upTo) = [i \in 0..n |-> Def(upTo)[i]]
            OBVIOUS
        <3> HIDE DEF Def
        <3> QED
            BY <1>9, <3>1, Zenon
    <2> QED
        BY <2>5, <2>6
<1>12. Climbs(upTo, t, b)
    <2> HIDE DEF upTo
    <2>1. \A i \in 0..n : upTo[i] = IF i = 0 THEN 0 ELSE upTo[i - 1] * b + t[i]
        <3>1. TAKE i \in 0..n
        <3>2. Def(upTo)[i] = IF i = 0 THEN 0 ELSE upTo[i - 1] * b + t[i]
            OBVIOUS
        <3> HIDE DEF Def
        <3> QED
            BY <1>9, <3>2, Zenon
    <2>2. upTo[0] = 0
        BY <1>1, <2>1
    <2>3. ASSUME NEW i \in 1..n PROVE upTo[i] = upTo[i - 1] * b + t[i]
        <3>1. i \in 0..n /\ i # 0
            BY <1>1
        <3> QED
            BY <2>1, <3>1, Zenon
    <2> QED
        BY <1>11, <2>2, <2>3 DEF Climbs
<1> QED
    BY <1>10, <1>12

\* Texts that begin alike add up alike.
LEMMA ClimbsAlike ==
    ASSUME NEW b \in Bases, NEW t \in Seq(Int), NEW u \in Seq(Int), NEW f, NEW g,
           Climbs(f, t, b), Climbs(g, u, b),
           NEW n \in Nat, n <= Len(t), n <= Len(u), \A i \in 1..n : t[i] = u[i]
    PROVE  \A i \in 0..n : f[i] = g[i]
<1> DEFINE T == {i \in 0..n : f[i] # g[i]}
<1>0. Len(t) \in Nat /\ Len(u) \in Nat
    BY LenProperties
<1>1. 0 \notin T
    BY DEF Climbs
<1>2. ASSUME NEW i \in 1..n, i - 1 \notin T PROVE i \notin T
    <2>1. i - 1 \in 0..n /\ i \in 1..Len(t) /\ i \in 1..Len(u)
        BY <1>0
    <2>2. f[i - 1] = g[i - 1]
        BY <1>2, <2>1
    <2>3. f[i] = f[i - 1] * b + t[i] /\ g[i] = g[i - 1] * b + u[i]
        BY <2>1, Zenon DEF Climbs
    <2>4. f[i] = g[i]
        BY <2>2, <2>3, Zenon
    <2> QED
        BY <2>4
<1>3. T \subseteq 0..n
    OBVIOUS
<1>4. T = {}
    <2> HIDE DEF T
    <2> QED
        BY <1>1, <1>2, <1>3, FromEachToTheNext
<1> QED
    BY <1>4

\* A text with one more digit.
LEMMA ValueAppend ==
    ASSUME NEW b \in Bases, NEW t \in Seq(Int), NEW d \in Int
    PROVE  Value(Append(t, d), b) = Value(t, b) * b + d /\ Value(t, b) \in Int
<1> DEFINE n == Len(t)
<1>1. PICK u : u = Append(t, d)
    OBVIOUS
<1>2. /\ u \in Seq(Int) /\ Len(u) = n + 1 /\ n \in Nat
      /\ u[n + 1] = d /\ \A i \in 1..n : t[i] = u[i]
    BY <1>1, AppendProperties, LenProperties
<1>3. PICK f : Climbs(f, t, b) /\ Value(t, b) = f[n]
    BY ValueDef
<1>4. PICK g : Climbs(g, u, b) /\ Value(u, b) = g[n + 1]
    BY <1>2, ValueDef
<1>5. \A i \in 0..n : f[i] = g[i]
    <2>1. n <= Len(t) /\ n <= Len(u)
        BY <1>2
    <2> HIDE DEF n
    <2> QED
        BY <1>2, <1>3, <1>4, <2>1, ClimbsAlike, SMTT(60)
<1>6. n \in 0..n /\ n + 1 \in 1..(n + 1) /\ (n + 1) - 1 = n
    BY <1>2
<1>7. g[n + 1] = g[n] * b + u[n + 1]
    <2>1. \A i \in 1..(n + 1) : g[i] = g[i - 1] * b + u[i]
        BY <1>2, <1>4 DEF Climbs
    <2> HIDE DEF n
    <2>2. g[n + 1] = g[(n + 1) - 1] * b + u[n + 1]
        BY <1>6, <2>1, Zenon
    <2> QED
        BY <1>6, <2>2, Zenon
<1>8. f[n] \in Int
    BY <1>3, <1>6 DEF Climbs
<1> QED
    BY <1>1, <1>2, <1>3, <1>4, <1>5, <1>6, <1>7, <1>8, Zenon

\* Zeros in front do not count.
LEMMA ZerosInFront ==
    ASSUME NEW b \in Bases, NEW z \in Seq(Int), NEW t \in Seq(Int), \A i \in 1..Len(z) : z[i] = 0
    PROVE  Value(z \o t, b) = Value(t, b)
<1>1. PICK u : u = z \o t
    OBVIOUS
<1>2. PICK m, n : m = Len(z) /\ n = Len(t)
    OBVIOUS
<1>3. /\ m \in Nat /\ n \in Nat /\ b \in Int
      /\ u \in Seq(Int) /\ Len(u) = m + n
    BY <1>1, <1>2, ConcatProperties, LenProperties DEF Bases
<1>4. /\ \A i \in 1..m : u[i] = 0
      /\ \A i \in 1..n : u[m + i] = t[i]
    BY <1>1, <1>2, <1>3, ConcatProperties
<1>5. PICK f : Climbs(f, t, b) /\ Value(t, b) = f[n]
    BY <1>2, ValueDef
<1>6. PICK g : Climbs(g, u, b) /\ Value(u, b) = g[m + n]
    BY <1>3, ValueDef
<1>7. \A i \in 1..(m + n) : g[i] = g[i - 1] * b + u[i]
    BY <1>3, <1>6 DEF Climbs
<1>8. g[m] = 0
    <2> DEFINE T == {i \in 0..m : g[i] # 0}
    <2>1. 0 \notin T
        BY <1>6 DEF Climbs
    <2>2. ASSUME NEW i \in 1..m, i - 1 \notin T PROVE i \notin T
        <3>1. i - 1 \in 0..m /\ i \in 1..(m + n)
            BY <1>3
        <3>2. g[i - 1] = 0 /\ u[i] = 0
            BY <1>4, <2>2, <3>1
        <3>3. g[i] = 0 * b + 0
            BY <1>7, <3>1, <3>2, Zenon
        <3> QED
            BY <1>3, <3>3
    <2>3. T \subseteq 0..m /\ m \in 0..m
        BY <1>3
    <2>4. T = {}
        <3> HIDE DEF T
        <3> QED
            BY <1>3, <2>1, <2>2, <2>3, FromEachToTheNext
    <2> QED
        BY <2>3, <2>4
<1>9. g[m + n] = f[n]
    <2> DEFINE T == {i \in 0..n : g[m + i] # f[i]}
    <2>1. 0 \notin T
        BY <1>3, <1>5, <1>8 DEF Climbs
    <2>2. ASSUME NEW i \in 1..n, i - 1 \notin T PROVE i \notin T
        <3>1. i - 1 \in 0..n /\ m + i \in 1..(m + n) /\ m + (i - 1) = (m + i) - 1
            BY <1>3
        <3>2. g[(m + i) - 1] = f[i - 1] /\ u[m + i] = t[i]
            BY <1>4, <2>2, <3>1
        <3>3. g[m + i] = f[i - 1] * b + t[i]
            BY <1>7, <3>1, <3>2, Zenon
        <3>4. f[i] = f[i - 1] * b + t[i]
            BY <1>2, <1>5 DEF Climbs
        <3> QED
            BY <3>3, <3>4
    <2>3. T \subseteq 0..n /\ n \in 0..n
        BY <1>3
    <2>4. T = {}
        <3> HIDE DEF T
        <3> QED
            BY <1>3, <2>1, <2>2, <2>3, FromEachToTheNext
    <2> QED
        BY <2>3, <2>4
<1> QED
    BY <1>1, <1>5, <1>6, <1>9, Zenon

\* The digits of a number add up to it.
Digits(t, b) == t \in Seq(Int) /\ t # <<>> /\ \A i \in 1..Len(t) : t[i] \in 0..(b - 1)

Spells(t, n, b) == Digits(t, b) /\ Value(t, b) = n

\* One digit is worth itself, and none is worth nothing.
LEMMA ValueOfDigit ==
    ASSUME NEW b \in Bases, NEW d \in Int
    PROVE  Value(<< >>, b) = 0 /\ Value(<<d>>, b) = d
<1>1. b \in Int /\ << >> \in Seq(Int) /\ Len(<< >>) = 0
    BY DEF Bases
<1>2. Value(Append(<< >>, d), b) = Value(<< >>, b) * b + d
    BY <1>1, ValueAppend
<1>3. Value(<< >>, b) = 0
    <2>1. PICK f : Climbs(f, << >>, b) /\ Value(<< >>, b) = f[Len(<< >>)]
        BY <1>1, ValueDef
    <2> QED
        BY <1>1, <2>1 DEF Climbs
<1>4. Append(<< >>, d) = <<d>>
    OBVIOUS
<1>5. Value(<<d>>, b) = 0 * b + d
    BY <1>2, <1>3, <1>4, Zenon
<1> QED
    BY <1>1, <1>3, <1>5

\* A number is written by one digit.
LEMMA OneDigit ==
    ASSUME NEW b \in Bases, NEW d \in 0..(b - 1)
    PROVE  Spells(<<d>>, d, b)
<1>1. d \in Int /\ b \in Int
    BY DEF Bases
<1>2. Digits(<<d>>, b)
    BY <1>1 DEF Digits
<1> QED
    BY <1>1, <1>2, ValueOfDigit DEF Spells

\* What is written of a number is read as that number.
LEMMA NumeralSpells ==
    ASSUME NEW b \in Bases, NEW n \in Nat
    PROVE  Spells(Numeral(n, b), n, b)
<1> DEFINE T == {m \in Nat : ~Spells(Numeral(m, b), m, b)}
<1>1. ASSUME T # {} PROVE FALSE
    <2>1. PICK x \in T : \A y \in T : x <= y
        <3>1. T \in SUBSET Nat
            OBVIOUS
        <3> HIDE DEF T
        <3> QED
            BY <1>1, <3>1, Numbers!LeastNumber
    <2>2. x \in Nat /\ ~Spells(Numeral(x, b), x, b) /\ b \in Nat
        BY DEF Bases
    <2>3. CASE x < b
        <3>1. Numeral(x, b) = <<x>> /\ x \in 0..(b - 1)
            BY <2>2, <2>3, NumeralDef
        <3> QED
            BY <2>2, <3>1, OneDigit
    <2>4. CASE ~(x < b)
        <3>1. PICK q, d : q = x \div b /\ d = x % b
            OBVIOUS
        <3>2. q \in Nat /\ ~(x <= q) /\ d \in 0..(b - 1) /\ d \in Int /\ q * b + d = x
            BY <2>2, <2>4, <3>1 DEF Bases
        <3>3. Spells(Numeral(q, b), q, b)
            BY <2>1, <3>2
        <3>4. PICK t : t = Numeral(q, b)
            OBVIOUS
        <3>5. Numeral(x, b) = Append(t, d)
            BY <2>2, <2>4, <3>1, <3>4, NumeralDef
        <3>6. t \in Seq(Int) /\ Value(t, b) = q /\ \A i \in 1..Len(t) : t[i] \in 0..(b - 1)
            BY <3>3, <3>4 DEF Spells, Digits
        <3>7. Value(Append(t, d), b) = x
            <4>1. Value(Append(t, d), b) = Value(t, b) * b + d
                BY <3>2, <3>6, ValueAppend
            <4> QED
                BY <3>2, <3>6, <4>1, Zenon
        <3>8. Digits(Append(t, d), b)
            <4>1. /\ Append(t, d) \in Seq(Int) /\ Len(Append(t, d)) = Len(t) + 1 /\ Len(t) \in Nat
                  /\ Append(t, d)[Len(t) + 1] = d
                  /\ \A i \in 1..Len(t) : Append(t, d)[i] = t[i]
                BY <3>2, <3>6, AppendProperties, LenProperties
            <4>2. Append(t, d) # <<>>
                BY <4>1
            <4> QED
                BY <3>2, <3>6, <4>1, <4>2 DEF Digits
        <3> QED
            BY <2>2, <3>5, <3>7, <3>8, Zenon DEF Spells
    <2> QED
        BY <2>3, <2>4
<1> QED
    BY <1>1

\* The words of one digit.
LEMMA OneDigitWords == WordCount[1] = 16
<1>1. 1 \in Nat \ {0} /\ 1 - 1 = 0
    OBVIOUS
<1>2. WordCount[1] = 16 * WordCount[0]
    BY <1>1, WordCountDef
<1> QED
    BY <1>2, WordCountDef

\* Whatever the number of digits, numbers below sixteen are words.
LEMMA SmallWords == \A m \in 0..15 : m \in Word
<1>1. WordDigits \in Nat \ {0}
    BY WordDigitsAssumption DEF WordDigitsAssumption
<1>2. WordCount[WordDigits] >= 16
    <2> DEFINE U == {k \in 0..WordDigits : k # 0 /\ ~(WordCount[k] >= 16)}
    <2>1. 0 \notin U /\ U \subseteq 0..WordDigits
        OBVIOUS
    <2>2. ASSUME NEW k \in 1..WordDigits, k - 1 \notin U PROVE k \notin U
        <3>1. CASE k = 1
            BY OneDigitWords, <3>1
        <3>2. CASE k # 1
            <4>1. k - 1 \in 0..WordDigits /\ k - 1 # 0 /\ k - 1 \in Nat /\ k \in Nat \ {0}
                BY <1>1, <3>2
            <4>2. PICK c : c = WordCount[k - 1] /\ c \in Nat /\ WordCount[k] = 16 * c
                BY <4>1, WordCountDef
            <4>3. c >= 16
                BY <2>2, <4>1, <4>2
            <4> QED
                BY <4>2, <4>3
        <3> QED
            BY <3>1, <3>2
    <2>3. U = {}
        <3> HIDE DEF U
        <3> QED
            BY <1>1, <2>1, <2>2, FromEachToTheNext
    <2> QED
        BY <1>1, <2>3
<1>3. WordCount[WordDigits] \in Nat
    BY <1>1, WordCountDef
<1> QED
    BY <1>2, <1>3 DEF Word

\* A word has no more digits than there are for words.
LEMMA WordFits ==
    ASSUME NEW n \in Word
    PROVE  n \in Nat /\ Len(Numeral(n, 16)) \in 1..WordDigits
<1>1. WordDigits \in Nat \ {0} /\ 16 \in Bases
    BY WordDigitsAssumption DEF WordDigitsAssumption, Bases
<1> DEFINE Fits(k) == \A m \in Nat : m < WordCount[k] => Len(Numeral(m, 16)) \in 1..k
           T == {k \in 0..WordDigits : k # 0 /\ ~Fits(k)}
<1>2. 0 \notin T /\ T \subseteq 0..WordDigits
    OBVIOUS
<1>3. WordCount[1] = 16
    BY OneDigitWords
<1>4. \A m \in Nat : m < 16 => Len(Numeral(m, 16)) = 1
    <2>1. TAKE m \in Nat
    <2>2. m < 16 => Numeral(m, 16) = <<m>>
        BY <1>1, NumeralDef
    <2> QED
        BY <2>2
<1>5. ASSUME NEW k \in 1..WordDigits, k - 1 \notin T PROVE k \notin T
    <2>1. CASE k = 1
        <3>1. ASSUME NEW m \in Nat, m < WordCount[k] PROVE Len(Numeral(m, 16)) \in 1..k
            <4>1. Len(Numeral(m, 16)) = 1
                BY <1>3, <1>4, <2>1, <3>1
            <4>2. 1 \in 1..k
                BY <2>1
            <4> QED
                BY <4>1, <4>2, Zenon
        <3> QED
            BY <3>1
    <2>2. CASE k # 1
        <3>1. k - 1 \in 0..WordDigits /\ k - 1 # 0 /\ k - 1 \in Nat /\ k \in Nat \ {0}
            BY <1>1, <2>2
        <3>2. Fits(k - 1)
            BY <1>5, <3>1
        <3>3. PICK c : c = WordCount[k - 1] /\ c \in Nat /\ WordCount[k] = 16 * c
            BY <3>1, WordCountDef
        <3>4. ASSUME NEW m \in Nat, m < 16 * c PROVE Len(Numeral(m, 16)) \in 1..k
            <4>1. CASE m < 16
                <5>1. 1 \in 1..k
                    BY <3>1
                <5>2. Len(Numeral(m, 16)) = 1
                    BY <1>4, <4>1
                <5> QED
                    BY <5>1, <5>2, Zenon
            <4>2. CASE ~(m < 16)
                <5>1. PICK q \in Nat : q = m \div 16
                    OBVIOUS
                <5>2. q < c
                    BY <3>3, <3>4, <5>1
                <5>3. Len(Numeral(q, 16)) \in 1..(k - 1)
                    BY <3>2, <3>3, <5>2
                <5>4. Numeral(q, 16) \in Seq(Int)
                    BY <1>1, NumeralSpells DEF Spells, Digits
                <5>5. Numeral(m, 16) = Append(Numeral(q, 16), m % 16)
                    BY <1>1, <4>2, <5>1, NumeralDef
                <5>6. m % 16 \in Int
                    OBVIOUS
                <5>7. Len(Numeral(m, 16)) = Len(Numeral(q, 16)) + 1
                    BY <5>4, <5>5, <5>6, AppendProperties
                <5> QED
                    BY <3>1, <5>3, <5>7
            <4> QED
                BY <4>1, <4>2
        <3>5. Fits(k)
            BY <3>3, <3>4
        <3> QED
            BY <3>5
    <2> QED
        BY <2>1, <2>2
<1>6. Fits(WordDigits)
    <2>1. T = {}
        <3> HIDE DEF T
        <3> QED
            BY <1>1, <1>2, <1>5, FromEachToTheNext
    <2> QED
        BY <1>1, <2>1
<1>7. WordCount[WordDigits] \in Nat
    BY <1>1, WordCountDef
<1>8. n \in Nat /\ n < WordCount[WordDigits]
    BY <1>7 DEF Word
<1> QED
    BY <1>6, <1>8

\* A text of digits is read as a whole; it is a number if that is a word.
LEMMA StoulReads ==
    ASSUME NEW b \in Bases, NEW t, NEW n, Spells(t, n, b)
    PROVE  Stoul(t, b) = IF n \in Word THEN {n} ELSE {}
<1>1. /\ t \in Seq(Int) /\ t # <<>> /\ Len(t) \in Nat /\ b \in Nat
      /\ \A i \in 1..Len(t) : t[i] \in Int /\ t[i] < b
    BY LenProperties DEF Spells, Digits, Bases
<1> DEFINE P(k) == (\A i \in 1..k : t[i] < b) /\ (k < Len(t) => t[k + 1] >= b)
           k == CHOOSE k \in 0..Len(t) : P(k)
<1>2. Len(t) \in 0..Len(t) /\ P(Len(t))
    BY <1>1
<1>3. \A j \in 0..Len(t) : P(j) => j = Len(t)
    BY <1>1
<1>4. k = Len(t)
    <2> HIDE DEF P
    <2> QED
        BY <1>2, <1>3
<1>5. LeadingDigits(t, b) = SubSeq(t, 1, k)
    BY DEF LeadingDigits
<1> HIDE DEF k
<1>6. SubSeq(t, 1, Len(t)) = t
    BY <1>1
<1>7. LeadingDigits(t, b) = t
    BY <1>4, <1>5, <1>6
<1> QED
    BY <1>1, <1>7 DEF Stoul, Spells

\* No digits, no number.
LEMMA StoulOfNothing == ASSUME NEW b PROVE Stoul(<< >>, b) = {}
<1> DEFINE P(k) == (\A i \in 1..k : << >>[i] < b) /\ (k < Len(<< >>) => << >>[k + 1] >= b)
           k == CHOOSE k \in 0..Len(<< >>) : P(k)
<1>1. Len(<< >>) = 0 /\ 0 \in 0..0 /\ 0..0 = {0}
    OBVIOUS
<1>2. P(0)
    BY <1>1
<1>3. k = 0
    <2> HIDE DEF P
    <2> QED
        BY <1>1, <1>2
<1>4. LeadingDigits(<< >>, b) = SubSeq(<< >>, 1, k)
    BY DEF LeadingDigits
<1> HIDE DEF k
<1>5. LeadingDigits(<< >>, b) = << >>
    BY <1>3, <1>4
<1> QED
    BY <1>5 DEF Stoul

\* A word that is filled up with zeros has all its digits and is the same.
LEMMA PaddedSpells ==
    ASSUME NEW n \in Word
    PROVE  Spells(Padded(Numeral(n, 16)), n, 16) /\ Len(Padded(Numeral(n, 16))) = WordDigits
<1>1. PICK t : t = Numeral(n, 16)
    OBVIOUS
<1>2. /\ WordDigits \in Nat /\ 16 \in Bases /\ n \in Nat
      /\ Len(t) \in 1..WordDigits
      /\ Spells(t, n, 16)
    BY <1>1, WordFits, NumeralSpells, WordDigitsAssumption DEF WordDigitsAssumption, Bases
<1>3. t \in Seq(Int) /\ Value(t, 16) = n /\ \A i \in 1..Len(t) : t[i] \in 0..15
    BY <1>2 DEF Spells, Digits
<1>4. PICK m \in Nat : m = WordDigits - Len(t)
    BY <1>2
<1> DEFINE z == [i \in 1..m |-> 0]
<1>5. z \in Seq(Int) /\ Len(z) = m /\ \A i \in 1..m : z[i] = 0
    <2>1. z \in [1..m -> Int]
        OBVIOUS
    <2>2. z \in Seq(Int)
        BY <2>1, SeqDef
    <2> QED
        BY <2>1, <2>2, LenProperties
<1>6. Padded(t) = z \o t
    BY <1>4 DEF Padded
<1> HIDE DEF z
<1>7. Value(z \o t, 16) = n
    BY <1>2, <1>3, <1>5, ZerosInFront
<1>8. /\ z \o t \in Seq(Int) /\ Len(z \o t) = WordDigits
      /\ \A i \in 1..Len(z \o t) : (z \o t)[i] = IF i <= m THEN z[i] ELSE t[i - m]
    BY <1>2, <1>3, <1>4, <1>5, ConcatProperties
<1>9. \A i \in 1..Len(z \o t) : (z \o t)[i] \in 0..15
    <2> SUFFICES ASSUME NEW i \in 1..WordDigits
                 PROVE  (IF i <= m THEN z[i] ELSE t[i - m]) \in 0..15
        BY <1>8
    <2>1. CASE i <= m
        BY <1>2, <1>4, <1>5, <2>1
    <2>2. CASE ~(i <= m)
        <3>1. i - m \in 1..Len(t)
            BY <1>2, <1>4, <2>2
        <3> QED
            BY <1>3, <2>2, <3>1
    <2> QED
        BY <2>1, <2>2
<1>10. z \o t # <<>>
    BY <1>2, <1>8
<1>11. Digits(z \o t, 16)
    BY <1>8, <1>9, <1>10 DEF Digits
<1> QED
    BY <1>1, <1>6, <1>7, <1>8, <1>11 DEF Spells

\* A trace id is read from t.
ReadsTrace(t, high, low) == Stoul(HighText(t), 16) = {high} /\ Stoul(LowText(t), 16) = {low}

\* Behind the high word, the low one has all its digits; so it is found.
LEMMA LongTrace ==
    ASSUME NEW high \in Word, NEW low \in Word, NEW h, Spells(h, high, 16)
    PROVE  ReadsTrace(h \o Padded(Numeral(low, 16)), high, low)
<1>1. PICK l : l = Padded(Numeral(low, 16))
    OBVIOUS
<1>2. /\ Spells(l, low, 16) /\ Len(l) = WordDigits
      /\ WordDigits \in Nat /\ 16 \in Bases
    BY <1>1, PaddedSpells, WordDigitsAssumption DEF WordDigitsAssumption, Bases
<1>3. h \in Seq(Int) /\ l \in Seq(Int) /\ h # <<>>
    BY <1>2 DEF Spells, Digits
<1>4. PICK m, t : m = Len(h) /\ t = h \o l
    OBVIOUS
<1>5. m \in Nat /\ m # 0
    BY <1>3, <1>4, LenProperties, EmptySeq
<1>6. /\ t \in Seq(Int) /\ Len(t) = m + WordDigits
      /\ \A i \in 1..m : t[i] = h[i]
      /\ \A i \in 1..WordDigits : t[m + i] = l[i]
    <2>1. /\ t \in Seq(Int) /\ Len(t) = m + WordDigits
          /\ \A i \in 1..(m + WordDigits) : t[i] = IF i <= m THEN h[i] ELSE l[i - m]
        BY <1>2, <1>3, <1>4, ConcatProperties
    <2>2. ASSUME NEW i \in 1..WordDigits PROVE t[m + i] = l[i]
        <3>1. m + i \in 1..(m + WordDigits) /\ ~(m + i <= m) /\ (m + i) - m = i
            BY <1>2, <1>5
        <3> QED
            BY <2>1, <3>1
    <2>3. \A i \in 1..m : i \in 1..(m + WordDigits) /\ i <= m
        BY <1>2, <1>5
    <2> QED
        BY <2>1, <2>2, <2>3
<1>7. SubSeq(t, 1, m) = h
    <2>1. /\ SubSeq(t, 1, m) \in Seq(Int) /\ Len(SubSeq(t, 1, m)) = m
          /\ \A i \in 1..m : SubSeq(t, 1, m)[i] = t[i]
        <3>1. \A i \in 1..m : t[i] \in Int
            BY <1>3, <1>4, <1>6, ElementOfSeq
        <3> QED
            BY <1>2, <1>5, <1>6, <3>1, SubSeqProperties
    <2>2. \A i \in 1..m : SubSeq(t, 1, m)[i] = h[i]
        BY <1>6, <2>1
    <2> QED
        BY <1>3, <1>4, <2>1, <2>2, SeqEqual
<1>8. SubSeq(t, m + 1, Len(t)) = l
    <2>1. /\ SubSeq(t, m + 1, m + WordDigits) \in Seq(Int)
          /\ Len(SubSeq(t, m + 1, m + WordDigits)) = WordDigits
          /\ \A i \in 1..WordDigits : SubSeq(t, m + 1, m + WordDigits)[i] = t[m + i]
        <3>1. \A i \in (m + 1)..(m + WordDigits) : t[i] \in Int
            <4>1. \A i \in (m + 1)..(m + WordDigits) : i \in 1..Len(t)
                BY <1>2, <1>5, <1>6
            <4> QED
                BY <1>6, <4>1, ElementOfSeq
        <3>2. /\ m + 1 \in 1..(Len(t) + 1) /\ m + WordDigits \in m..Len(t)
              /\ (m + WordDigits) - (m + 1) + 1 = WordDigits
              /\ \A i \in 1..WordDigits : (m + 1) + i - 1 = m + i
            BY <1>2, <1>5, <1>6
        <3> QED
            BY <1>2, <1>5, <1>6, <3>1, <3>2, SubSeqProperties
    <2>2. \A i \in 1..WordDigits : SubSeq(t, m + 1, m + WordDigits)[i] = l[i]
        BY <1>6, <2>1
    <2> QED
        BY <1>2, <1>3, <1>6, <2>1, <2>2, SeqEqual
<1>9. Len(t) > WordDigits /\ Len(t) - WordDigits = m
    BY <1>2, <1>5, <1>6
<1>10. HighText(t) = h /\ LowText(t) = l
    BY <1>7, <1>8, <1>9 DEF HighText, LowText
<1>11. Stoul(h, 16) = {high} /\ Stoul(l, 16) = {low}
    BY <1>2, StoulReads
<1> QED
    BY <1>1, <1>4, <1>10, <1>11, Zenon DEF ReadsTrace

\* Without a high word it is zero.
LEMMA ShortTrace ==
    ASSUME NEW low \in Word, NEW t, Spells(t, low, 16), Len(t) <= WordDigits
    PROVE  ReadsTrace(t, 0, low)
<1>1. 16 \in Bases /\ WordDigits \in Nat /\ 0 \in Word
    BY SmallWords, WordDigitsAssumption DEF WordDigitsAssumption, Bases
<1>2. t \in Seq(Int) /\ Len(t) \in Nat /\ t # <<>>
    BY LenProperties DEF Spells, Digits
<1>3. HighText(t) = <<0>> /\ LowText(t) = t
    BY <1>1, <1>2 DEF HighText, LowText
<1>4. Spells(<<0>>, 0, 16)
    <2>1. 0 \in 0..(16 - 1)
        OBVIOUS
    <2> QED
        BY <1>1, <2>1, OneDigit
<1>5. Stoul(<<0>>, 16) = {0} /\ Stoul(t, 16) = {low}
    BY <1>1, <1>4, StoulReads
<1> QED
    BY <1>3, <1>5, Zenon DEF ReadsTrace

\* Both forms of a trace id that are written, by inject and by others, are read back.
LEMMA TraceTextRead ==
    ASSUME NEW c \in ContextType
    PROVE  /\ ReadsTrace(TraceText(c), c.high, c.low)
           /\ ReadsTrace((IF c.high = 0 THEN <<>> ELSE Padded(Numeral(c.high, 16)))
                            \o Padded(Numeral(c.low, 16)), c.high, c.low)
<1>1. /\ c.high \in Word /\ c.low \in Word /\ 16 \in Bases
      /\ c.high \in Nat /\ c.low \in Nat /\ WordDigits \in Nat
    BY WordFits, WordDigitsAssumption DEF ContextType, WordDigitsAssumption, Bases
<1>2. PICK high \in Word, low \in Word : high = c.high /\ low = c.low
    BY <1>1
<1>3. /\ Spells(Numeral(high, 16), high, 16) /\ Spells(Numeral(low, 16), low, 16)
      /\ Spells(Padded(Numeral(high, 16)), high, 16) /\ Spells(Padded(Numeral(low, 16)), low, 16)
      /\ Len(Numeral(low, 16)) <= WordDigits /\ Len(Padded(Numeral(low, 16))) = WordDigits
    <2>1. high \in Nat /\ low \in Nat /\ Len(Numeral(low, 16)) <= WordDigits
        BY <1>1, <1>2, WordFits
    <2>2. Spells(Numeral(high, 16), high, 16) /\ Spells(Numeral(low, 16), low, 16)
        BY <1>1, <2>1, NumeralSpells
    <2>3. /\ Spells(Padded(Numeral(high, 16)), high, 16) /\ Spells(Padded(Numeral(low, 16)), low, 16)
          /\ Len(Padded(Numeral(low, 16))) = WordDigits
        BY PaddedSpells
    <2> QED
        BY <2>1, <2>2, <2>3, Zenon
<1>4. CASE high = 0
    <2>1. ReadsTrace(Numeral(low, 16), 0, low)
        BY <1>1, <1>2, <1>3, ShortTrace
    <2>2. ReadsTrace(Padded(Numeral(low, 16)), 0, low)
        <3>1. PICK t : t = Padded(Numeral(low, 16))
            OBVIOUS
        <3>2. Spells(t, low, 16) /\ Len(t) <= WordDigits
            BY <1>1, <1>3, <3>1
        <3> QED
            BY <1>1, <1>2, <3>1, <3>2, ShortTrace
    <2>3. << >> \o Padded(Numeral(low, 16)) = Padded(Numeral(low, 16))
        <3>1. Padded(Numeral(low, 16)) \in Seq(Int)
            BY <1>3 DEF Spells, Digits
        <3> QED
            BY <3>1, ConcatEmptySeq
    <2> QED
        BY <1>2, <1>4, <2>1, <2>2, <2>3, Zenon DEF TraceText
<1>5. CASE high # 0
    <2>1. /\ ReadsTrace(Numeral(high, 16) \o Padded(Numeral(low, 16)), high, low)
          /\ ReadsTrace(Padded(Numeral(high, 16)) \o Padded(Numeral(low, 16)), high, low)
        BY <1>1, <1>2, <1>3, LongTrace
    <2> QED
        BY <1>2, <1>5, <2>1, Zenon DEF TraceText
<1> QED
    BY <1>4, <1>5

\* Four texts, of which the first three say the ids of c: the parent may be
\* missing, the flags may be read as something else.
LEMMA ParseFour ==
    ASSUME NEW c \in ContextType, NEW t1, NEW t2, NEW t3, NEW t4, t4 # <<>>,
           ReadsTrace(t1, c.high, c.low), Stoul(t2, 16) = {c.span},
           Stoul(t3, 16) \subseteq {c.parent}
    PROVE  Parse(<<t1, t2, t3, t4>>) =
              {[c EXCEPT !.flags = f] : f \in IF Stoul(t3, 16) = {} THEN {} ELSE Stoul(t4, 10)}
<1>1. PICK s : s = <<t1, t2, t3, t4>>
    OBVIOUS
<1>2. Len(s) = 4 /\ s[1] = t1 /\ s[2] = t2 /\ s[3] = t3 /\ s[4] = t4
    BY <1>1
<1>3. Items(s) = s
    BY <1>2 DEF Items, Last
<1> DEFINE R(high, low, span, parent, flags) ==
               [high |-> high, low |-> low, span |-> span, parent |-> parent, flags |-> flags]
           All(A, B, C, D, E) == {R(high, low, span, parent, flags) :
                    high \in A, low \in B, span \in C, parent \in D, flags \in E}
<1>4. Parse(s) = All(Stoul(HighText(t1), 16), Stoul(LowText(t1), 16),
                     Stoul(t2, 16), Stoul(t3, 16), Stoul(t4, 10))
    <2> DEFINE i == Items(s)
    <2>1. Parse(s) = IF Len(i) < 4 THEN {}
                     ELSE All(Stoul(HighText(i[1]), 16), Stoul(LowText(i[1]), 16),
                              Stoul(i[2], 16), Stoul(i[3], 16), Stoul(i[4], 10))
        BY DEF Parse
    <2>2. ~(Len(i) < 4) /\ i[1] = t1 /\ i[2] = t2 /\ i[3] = t3 /\ i[4] = t4
        <3>1. ~(Len(s) < 4) /\ i = s
            BY <1>2, <1>3
        <3> HIDE DEF i
        <3> QED
            BY <1>2, <3>1, Zenon
    <2> HIDE DEF i, All
    <2> QED
        BY <2>1, <2>2, Zenon
<1>5. Stoul(HighText(t1), 16) = {c.high} /\ Stoul(LowText(t1), 16) = {c.low}
    BY DEF ReadsTrace
<1>6. \A f : R(c.high, c.low, c.span, c.parent, f) = [c EXCEPT !.flags = f]
    BY DEF ContextType
<1> HIDE DEF R
<1>7. CASE Stoul(t3, 16) = {}
    BY <1>1, <1>4, <1>7
<1>8. CASE Stoul(t3, 16) # {}
    <2>1. Stoul(t3, 16) = {c.parent}
        BY <1>8
    <2>2. Parse(s) = {R(high, low, span, parent, flags) :
                    high \in {c.high}, low \in {c.low},
                    span \in {c.span}, parent \in {c.parent}, flags \in Stoul(t4, 10)}
        BY <1>4, <1>5, <2>1
    <2>3. Parse(s) = {R(c.high, c.low, c.span, c.parent, f) : f \in Stoul(t4, 10)}
        BY <2>2
    <2> QED
        BY <1>1, <1>6, <1>8, <2>3
<1> QED
    BY <1>7, <1>8

\* Without flags nothing is read.
LEMMA ParseThree ==
    ASSUME NEW t1, NEW t2, NEW t3 PROVE Parse(<<t1, t2, t3, << >>>>) = {}
<1>1. PICK s : s = <<t1, t2, t3, << >>>>
    OBVIOUS
<1>2. s # <<>> /\ Last(s) = <<>> /\ Len(Front(s)) = 3
    BY <1>1 DEF Last, Front
<1>3. Items(s) = Front(s)
    BY <1>2, Zenon DEF Items
<1> QED
    BY <1>1, <1>2, <1>3, SMTT(60) DEF Parse

-----------------------------------------------------------------------------
(* Flags: written in hexadecimal behind a bar, in decimal into a header, and *)
(* always read in decimal.                                                 *)

\* Reading stops at some character that is no digit, or at the end.
LEMMA DigitsCounted ==
    ASSUME NEW b \in Bases, NEW t \in Seq(Int)
    PROVE  \E k \in 0..Len(t) :
              LeadingDigits(t, b) = SubSeq(t, 1, k) /\ \A i \in 1..k : t[i] < b
<1>1. Len(t) \in Nat /\ b \in Nat /\ \A i \in 1..Len(t) : t[i] \in Int
    BY LenProperties, ElementOfSeq DEF Bases
<1> DEFINE P(k) == (\A i \in 1..k : t[i] < b) /\ (k < Len(t) => t[k + 1] >= b)
           T == {k \in 0..Len(t) : k < Len(t) => t[k + 1] >= b}
<1>2. \E k \in 0..Len(t) : P(k)
    <2>1. T \in SUBSET Nat /\ Len(t) \in T
        BY <1>1
    <2>2. PICK k \in T : \A j \in T : k <= j
        <3> HIDE DEF T
        <3> QED
            BY <2>1, Numbers!LeastNumber
    <2>3. ASSUME NEW i \in 1..k PROVE t[i] < b
        <3>1. i - 1 \in 0..Len(t) /\ i - 1 < Len(t) /\ (i - 1) + 1 = i /\ i \in 1..Len(t)
            BY <1>1
        <3>2. i - 1 \notin T
            BY <2>2, <3>1
        <3>3. ~(t[i] >= b)
            BY <3>1, <3>2
        <3> QED
            BY <1>1, <3>1, <3>3
    <2> QED
        BY <2>3
<1> DEFINE k == CHOOSE k \in 0..Len(t) : P(k)
<1>3. k \in 0..Len(t) /\ P(k)
    <2> HIDE DEF P
    <2> QED
        BY <1>2
<1>4. LeadingDigits(t, b) = SubSeq(t, 1, k)
    BY DEF LeadingDigits
<1> QED
    BY <1>3, <1>4

\* The first digits of t, read in decimal.
DecimalOf(t, k) == Value(SubSeq(t, 1, k), 10)

\* Hexadecimal digits that are read in decimal say no more, and less if they
\* are more than one.
LEMMA DecimalIsLess ==
    ASSUME NEW n \in Nat, NEW k \in 0..Len(Numeral(n, 16))
    PROVE  DecimalOf(Numeral(n, 16), k) \in 0..n /\ (n >= 16 => DecimalOf(Numeral(n, 16), k) # n)
<1>0. 10 \in Bases /\ 16 \in Bases
    BY DEF Bases
<1> DEFINE Less(m) == \A j \in 0..Len(Numeral(m, 16)) :
                          /\ DecimalOf(Numeral(m, 16), j) \in 0..m
                          /\ m >= 16 => DecimalOf(Numeral(m, 16), j) # m
           T == {m \in Nat : ~Less(m)}
<1>1. ASSUME T # {} PROVE FALSE
    <2>1. PICK x \in T : \A y \in T : x <= y
        <3>1. T \in SUBSET Nat
            OBVIOUS
        <3> HIDE DEF T
        <3> QED
            BY <1>1, <3>1, Numbers!LeastNumber
    <2>2. x \in Nat /\ ~Less(x)
        OBVIOUS
    <2>3. CASE x < 16
        <3>1. Numeral(x, 16) = <<x>>
            BY <1>0, <2>2, <2>3, NumeralDef
        <3>2. Value(<< >>, 10) = 0 /\ Value(<<x>>, 10) = x
            BY <1>0, <2>2, ValueOfDigit
        <3>3. Len(<<x>>) = 1 /\ SubSeq(<<x>>, 1, 0) = << >> /\ SubSeq(<<x>>, 1, 1) = <<x>>
            <4> HIDE DEF T, Less
            <4>1. x \in Int
                BY <2>2
            <4>2. <<x>> \in Seq(Int) /\ Len(<<x>>) = 1
                BY <4>1
            <4>3. PICK u \in Seq(Int) : u = <<x>>
                BY <4>2
            <4>4. SubSeq(u, 1, Len(u)) = u
                OBVIOUS
            <4>5. SubSeq(u, 1, 0) \in Seq(Int) /\ Len(SubSeq(u, 1, 0)) = 0
                BY SubSeqProperties, LenProperties
            <4>6. SubSeq(u, 1, 0) = << >>
                BY <4>5, EmptySeq
            <4> QED
                BY <4>2, <4>3, <4>4, <4>6
        <3>4. ASSUME NEW j \in 0..1 PROVE DecimalOf(<<x>>, j) \in 0..x
            <4>1. j = 0 \/ j = 1
                OBVIOUS
            <4>2. DecimalOf(<<x>>, j) = 0 \/ DecimalOf(<<x>>, j) = x
                BY <3>2, <3>3, <4>1, Zenon DEF DecimalOf
            <4> QED
                BY <2>2, <4>2
        <3>5. Less(x)
            <4> SUFFICES ASSUME NEW j \in 0..1
                         PROVE  DecimalOf(<<x>>, j) \in 0..x /\ (x >= 16 => DecimalOf(<<x>>, j) # x)
                BY <3>1, <3>3
            <4> HIDE DEF T, Less
            <4> QED
                BY <2>2, <2>3, <3>4
        <3> QED
            BY <2>2, <3>5
    <2>4. CASE ~(x < 16)
        <3>1. PICK q, d : q = x \div 16 /\ d = x % 16
            OBVIOUS
        <3>2. q \in Nat /\ q < x /\ 0 < q /\ d \in 0..15 /\ 16 * q + d = x
            BY <2>2, <2>4, <3>1
        <3>3. Less(q)
            <4>1. ~(x <= q)
                BY <2>2, <3>2
            <4> HIDE DEF Less
            <4> QED
                BY <2>1, <3>2, <4>1
        <3>4. PICK t : t = Numeral(q, 16)
            OBVIOUS
        <3>5. Numeral(x, 16) = Append(t, d)
            BY <1>0, <2>2, <2>4, <3>1, <3>4, NumeralDef
        <3>6. t \in Seq(Int) /\ Len(t) \in Nat
            BY <1>0, <3>2, <3>4, NumeralSpells, LenProperties DEF Spells, Digits
        <3>7. PICK u : u = Append(t, d)
            OBVIOUS
        <3>8. u \in Seq(Int) /\ Len(u) = Len(t) + 1 /\ \A i \in 1..Len(t) : u[i] = t[i]
            BY <3>2, <3>6, <3>7, AppendProperties
        <3>9. ASSUME NEW j \in 0..Len(t) PROVE DecimalOf(u, j) \in 0..q
            <4>1. SubSeq(u, 1, j) = SubSeq(t, 1, j)
                <5>1. /\ SubSeq(t, 1, j) \in Seq(Int) /\ Len(SubSeq(t, 1, j)) = j
                      /\ \A i \in 1..j : SubSeq(t, 1, j)[i] = t[i]
                    <6>1. \A i \in 1..j : t[i] \in Int
                        BY <3>6, ElementOfSeq
                    <6> QED
                        BY <3>6, <6>1, SubSeqProperties
                <5>2. /\ SubSeq(u, 1, j) \in Seq(Int) /\ Len(SubSeq(u, 1, j)) = j
                      /\ \A i \in 1..j : SubSeq(u, 1, j)[i] = u[i]
                    <6>1. \A i \in 1..j : u[i] \in Int
                        BY <3>6, <3>8, ElementOfSeq
                    <6>2. j \in 0..Len(u)
                        BY <3>6, <3>8
                    <6> QED
                        BY <3>6, <3>8, <6>1, <6>2, SubSeqProperties
                <5>3. \A i \in 1..j : SubSeq(u, 1, j)[i] = SubSeq(t, 1, j)[i]
                    <6>1. \A i \in 1..j : i \in 1..Len(t)
                        BY <3>6
                    <6> QED
                        BY <3>8, <5>1, <5>2, <6>1
                <5> QED
                    BY <5>1, <5>2, <5>3, SeqEqual
            <4>2. DecimalOf(t, j) \in 0..q
                BY <3>3, <3>4
            <4> QED
                BY <4>1, <4>2 DEF DecimalOf
        <3>10. DecimalOf(u, Len(u)) \in 0..(x - 1)
            <4>1. SubSeq(u, 1, Len(u)) = u
                BY <3>8
            <4>2. SubSeq(t, 1, Len(t)) = t
                BY <3>6
            <4>3. Value(u, 10) = Value(t, 10) * 10 + d
                BY <1>0, <3>2, <3>6, <3>7, ValueAppend
            <4>4. Value(t, 10) \in 0..q
                <5>1. Len(t) \in 0..Len(t)
                    BY <3>6
                <5>2. DecimalOf(t, Len(t)) \in 0..q
                    BY <3>3, <3>4, <5>1
                <5> QED
                    BY <4>2, <5>2 DEF DecimalOf
            <4>5. Value(u, 10) \in 0..(x - 1)
                BY <2>2, <3>2, <4>3, <4>4
            <4> QED
                BY <4>1, <4>5 DEF DecimalOf
        <3>11. ASSUME NEW j \in 0..Len(u) PROVE DecimalOf(u, j) \in 0..(x - 1)
            <4>1. CASE j = Len(u)
                BY <3>10, <4>1
            <4>2. CASE j # Len(u)
                <5>1. j \in 0..Len(t)
                    BY <3>6, <3>8, <4>2
                <5>2. DecimalOf(u, j) \in 0..q
                    BY <3>9, <5>1
                <5> QED
                    BY <2>2, <3>2, <5>2
            <4> QED
                BY <4>1, <4>2
        <3>12. Less(x)
            <4> SUFFICES ASSUME NEW j \in 0..Len(u)
                         PROVE  DecimalOf(u, j) \in 0..x /\ (x >= 16 => DecimalOf(u, j) # x)
                BY <3>5, <3>7
            <4> QED
                BY <2>2, <3>11
        <3> QED
            BY <2>2, <3>12
    <2> QED
        BY <2>3, <2>4
<1> QED
    BY <1>1

\* Flags in decimal are read back, if they are a word at all.
LEMMA FlagsInDecimal ==
    ASSUME NEW f \in Nat
    PROVE  /\ Stoul(Numeral(f, 10), 10) \subseteq {f} /\ Numeral(f, 10) # <<>>
           /\ f < 10 => Stoul(Numeral(f, 10), 10) = {f}
<1>1. 10 \in Bases
    BY DEF Bases
<1>2. Spells(Numeral(f, 10), f, 10)
    BY <1>1, NumeralSpells
<1>3. Stoul(Numeral(f, 10), 10) = IF f \in Word THEN {f} ELSE {}
    BY <1>1, <1>2, StoulReads
<1>4. Numeral(f, 10) # <<>>
    BY <1>2 DEF Spells, Digits
<1>5. f < 10 => f \in Word
    BY SmallWords
<1> QED
    BY <1>3, <1>4, <1>5

\* Flags in hexadecimal are read back from below ten, and only from there.
LEMMA FlagsInHexadecimal ==
    ASSUME NEW f \in Nat
    PROVE  /\ Stoul(Numeral(f, 16), 10) \subseteq 0..f /\ Numeral(f, 16) # <<>>
           /\ f < 10 => Stoul(Numeral(f, 16), 10) = {f}
           /\ f >= 10 => f \notin Stoul(Numeral(f, 16), 10)
<1>1. 10 \in Bases /\ 16 \in Bases
    BY DEF Bases
<1>2. PICK t : t = Numeral(f, 16)
    OBVIOUS
<1>3. t \in Seq(Int) /\ t # <<>> /\ Len(t) \in Nat
    BY <1>1, <1>2, NumeralSpells, LenProperties DEF Spells, Digits
<1>4. PICK k \in 0..Len(t) :
         LeadingDigits(t, 10) = SubSeq(t, 1, k) /\ \A i \in 1..k : t[i] < 10
    BY <1>1, <1>3, DigitsCounted
<1>5. DecimalOf(t, k) \in 0..f /\ (f >= 16 => DecimalOf(t, k) # f)
    BY <1>2, DecimalIsLess
<1>6. Stoul(t, 10) = IF SubSeq(t, 1, k) = <<>> \/ DecimalOf(t, k) \notin Word
                     THEN {} ELSE {DecimalOf(t, k)}
    BY <1>4, Zenon DEF Stoul, DecimalOf
<1>7. Stoul(t, 10) \subseteq 0..f
    BY <1>5, <1>6
<1>8. ASSUME f < 10 PROVE Stoul(t, 10) = {f}
    <2>1. t = <<f>> /\ Numeral(f, 10) = <<f>>
        BY <1>1, <1>2, <1>8, NumeralDef
    <2> QED
        BY <1>8, <2>1, FlagsInDecimal
<1>9. ASSUME f >= 10, f < 16 PROVE Stoul(t, 10) = {}
    <2>1. t = <<f>>
        BY <1>1, <1>2, <1>9, NumeralDef
    <2>2. k = 0
        <3>1. Len(t) = 1 /\ t[1] = f /\ ~(f < 10)
            BY <1>9, <2>1
        <3>2. 1 \notin 1..k
            BY <1>4, <3>1
        <3> QED
            BY <3>1, <3>2
    <2>3. SubSeq(t, 1, k) = <<>>
        BY <1>3, <2>2
    <2> QED
        BY <1>6, <2>3
<1>10. ASSUME f >= 16 PROVE f \notin Stoul(t, 10)
    BY <1>5, <1>6, <1>10
<1> QED
    BY <1>2, <1>3, <1>7, <1>8, <1>9, <1>10

-----------------------------------------------------------------------------
(* One hop. *)

\* The ids of a context are read from the three texts that say them.
LEMMA IdsRead ==
    ASSUME NEW c \in ContextType
    PROVE  /\ Stoul(Numeral(c.span, 16), 16) = {c.span}
           /\ Stoul(Numeral(c.parent, 16), 16) = {c.parent}
           /\ Stoul(Padded(Numeral(c.span, 16)), 16) = {c.span}
           /\ Stoul(Padded(Numeral(c.parent, 16)), 16) = {c.parent}
<1>1. 16 \in Bases /\ c.span \in Word /\ c.parent \in Word
    BY DEF Bases, ContextType
<1>2. ASSUME NEW n \in Word
      PROVE  Stoul(Numeral(n, 16), 16) = {n} /\ Stoul(Padded(Numeral(n, 16)), 16) = {n}
    <2>1. Spells(Numeral(n, 16), n, 16)
        BY <1>1, NumeralSpells, WordFits
    <2>2. Spells(Padded(Numeral(n, 16)), n, 16)
        BY PaddedSpells
    <2> QED
        BY <1>1, <2>1, <2>2, StoulReads
<1> QED
    BY <1>1, <1>2

\* What is read from a text with these flags.
WithFlags(c, F) == {[c EXCEPT !.flags = f] : f \in F}

\* A context with its own flags is that context.
LEMMA OwnFlags ==
    ASSUME NEW c \in ContextType, NEW F
    PROVE  /\ F = {} => WithFlags(c, F) = {}
           /\ F = {c.flags} => WithFlags(c, F) = {c}
           /\ F \subseteq {c.flags} => WithFlags(c, F) \subseteq {c}
           /\ c \in WithFlags(c, F) => c.flags \in F
<1>1. [c EXCEPT !.flags = c.flags] = c
    BY DEF ContextType
<1>2. \A f : [c EXCEPT !.flags = f].flags = f
    BY DEF ContextType
<1> QED
    BY <1>1, <1>2 DEF WithFlags

\* A context behind a payload is read with all its ids, and with its flags if they
\* have one decimal digit: SpanContext::operator std::string writes hexadecimal, and
\* SpanContext::SpanContext reads decimal.  Otherwise its flags become smaller, or
\* nothing is read.
THEOREM StringCarrierRead ==
    ASSUME NEW c \in ContextType
    PROVE  /\ Parse(ContextText(c)) \subseteq WithFlags(c, 0..c.flags)
           /\ Parse(ContextText(c)) = {c} <=> c.flags < 10
<1>1. c.flags \in Nat
    BY DEF ContextType
<1> DEFINE t == Numeral(c.flags, 16)
<1>2. /\ Stoul(t, 10) \subseteq 0..c.flags /\ t # <<>>
      /\ c.flags < 10 => Stoul(t, 10) = {c.flags}
      /\ c.flags >= 10 => c.flags \notin Stoul(t, 10)
    BY <1>1, FlagsInHexadecimal
<1> HIDE DEF t
<1>3. Parse(ContextText(c)) = WithFlags(c, Stoul(t, 10))
    <2>1. ReadsTrace(TraceText(c), c.high, c.low)
        BY TraceTextRead
    <2>2. Stoul(Numeral(c.span, 16), 16) = {c.span} /\ Stoul(Numeral(c.parent, 16), 16) = {c.parent}
        BY IdsRead
    <2>3. PICK p : p = Numeral(c.parent, 16)
        OBVIOUS
    <2>4. Stoul(p, 16) = {c.parent} /\ Stoul(p, 16) \subseteq {c.parent} /\ Stoul(p, 16) # {}
        BY <2>2, <2>3
    <2>5. Parse(<<TraceText(c), Numeral(c.span, 16), p, t>>) =
              {[c EXCEPT !.flags = f] : f \in IF Stoul(p, 16) = {} THEN {} ELSE Stoul(t, 10)}
        BY <1>2, <2>1, <2>2, <2>4, ParseFour
    <2> QED
        BY <2>3, <2>4, <2>5, Zenon DEF ContextText, WithFlags, t
<1>4. Parse(ContextText(c)) \subseteq WithFlags(c, 0..c.flags)
    BY <1>2, <1>3 DEF WithFlags
<1>5. c.flags < 10 => Parse(ContextText(c)) = {c}
    BY <1>2, <1>3, OwnFlags
<1>6. Parse(ContextText(c)) = {c} => c.flags < 10
    <2>1. Parse(ContextText(c)) = {c} => c.flags \in Stoul(t, 10)
        BY <1>3, OwnFlags
    <2> QED
        BY <1>1, <1>2, <2>1
<1> QED
    BY <1>4, <1>5, <1>6

\* What a header says, for one that is there and one that is not.
LEMMA HeaderText == Text({}) = <<>> /\ \A text : Text({text}) = text
BY DEF Text

\* From the headers inject writes, a context is read as it was, or, if its flags
\* are too large for stoul, not at all.
THEOREM MapCarrierRead ==
    ASSUME NEW c \in ContextType
    PROVE  /\ ExtractMap(InjectMap(c, EmptyMap)) \subseteq {c}
           /\ c.flags < 10 => ExtractMap(InjectMap(c, EmptyMap)) = {c}
<1>1. c.flags \in Nat
    BY DEF ContextType
<1> DEFINE map == InjectMap(c, EmptyMap)
           t == Numeral(c.flags, 10)
           p == Numeral(c.parent, 16)
<1>2. Stoul(t, 10) \subseteq {c.flags} /\ t # <<>> /\ (c.flags < 10 => Stoul(t, 10) = {c.flags})
    BY <1>1, FlagsInDecimal
<1>3. /\ map.small["traceid"] = {TraceText(c)}
      /\ map.small["spanid"] = {Numeral(c.span, 16)}
      /\ map.small["parentspanid"] = {p}
      /\ map.small["sampled"] = {t}
    BY DEF InjectMap, EmptyMap, Headers
<1>4. /\ Lowercase(map)["traceid"] = {TraceText(c)}
      /\ Lowercase(map)["spanid"] = {Numeral(c.span, 16)}
      /\ Lowercase(map)["parentspanid"] = {p}
      /\ Lowercase(map)["sampled"] = {t}
    <2> HIDE DEF map, t, p
    <2>1. \A h \in Headers : Lowercase(map)[h] = IF map.small[h] # {} THEN map.small[h] ELSE map.capital[h]
        BY DEF Lowercase
    <2>2. {"traceid", "spanid", "parentspanid", "sampled"} \subseteq Headers
        BY DEF Headers
    <2> QED
        BY <1>3, <2>1, <2>2
<1> HIDE DEF map, t, p
<1>5. ExtractMap(map) = Parse(<<TraceText(c), Numeral(c.span, 16), p, t>>)
    BY <1>4, HeaderText, Zenon DEF ExtractMap
<1>6. Stoul(p, 16) = {c.parent} /\ Stoul(p, 16) \subseteq {c.parent} /\ Stoul(p, 16) # {}
    BY IdsRead DEF p
<1>7. ExtractMap(map) = WithFlags(c, Stoul(t, 10))
    <2>1. ReadsTrace(TraceText(c), c.high, c.low) /\ Stoul(Numeral(c.span, 16), 16) = {c.span}
        BY IdsRead, TraceTextRead
    <2>2. Parse(<<TraceText(c), Numeral(c.span, 16), p, t>>) =
              {[c EXCEPT !.flags = f] : f \in IF Stoul(p, 16) = {} THEN {} ELSE Stoul(t, 10)}
        BY <1>2, <1>6, <2>1, ParseFour
    <2> QED
        BY <1>5, <1>6, <2>2, Zenon DEF WithFlags
<1>8. ExtractMap(map) \subseteq {c} /\ (c.flags < 10 => ExtractMap(map) = {c})
    BY <1>2, <1>7, OwnFlags
<1> QED
    BY <1>8 DEF map

\* From the headers of a caller of another make, all of its context is read or
\* nothing; and all of it if it has a parent and has decided about sampling.
THEOREM ForeignMapRead ==
    ASSUME NEW c \in ContextType, NEW decided \in BOOLEAN
    PROVE  /\ ExtractMap(ForeignMap(c, decided)) \subseteq {c}
           /\ c.flags < 10 /\ c.parent # 0 /\ decided => ExtractMap(ForeignMap(c, decided)) = {c}
<1>1. c.flags \in Nat
    BY DEF ContextType
<1> DEFINE map == ForeignMap(c, decided)
           trace == (IF c.high = 0 THEN <<>> ELSE Padded(Numeral(c.high, 16)))
                       \o Padded(Numeral(c.low, 16))
           p == IF c.parent = 0 THEN <<>> ELSE Padded(Numeral(c.parent, 16))
           t == IF decided THEN Numeral(c.flags, 10) ELSE <<>>
<1>2. \A h \in Headers : map.small[h] = {}
    BY DEF ForeignMap, NoHeaders
<1>3. /\ map.capital["traceid"] = {trace}
      /\ map.capital["spanid"] = {Padded(Numeral(c.span, 16))}
      /\ Text(map.capital["parentspanid"]) = p
      /\ Text(map.capital["sampled"]) = t
    <2> HIDE DEF trace
    <2>1. /\ map.capital["spanid"] = {Padded(Numeral(c.span, 16))}
          /\ map.capital["parentspanid"] = IF c.parent = 0 THEN {} ELSE {Padded(Numeral(c.parent, 16))}
          /\ map.capital["sampled"] = IF decided THEN {Numeral(c.flags, 10)} ELSE {}
        BY DEF ForeignMap, Headers
    <2>2. map.capital["traceid"] = {trace}
        BY DEF ForeignMap, Headers, trace
    <2>3. /\ Text(map.capital["parentspanid"]) = p
          /\ Text(map.capital["sampled"]) = t
        <3> HIDE DEF map
        <3> QED
            BY <2>1, HeaderText, Zenon
    <2> QED
        BY <2>1, <2>2, <2>3
<1>4. \A h \in {"traceid", "spanid", "parentspanid", "sampled"} : Lowercase(map)[h] = map.capital[h]
    <2> HIDE DEF map
    <2>1. \A h \in Headers : Lowercase(map)[h] = map.capital[h]
        BY <1>2 DEF Lowercase
    <2> QED
        BY <2>1 DEF Headers
<1> HIDE DEF map, trace
<1>5. ExtractMap(map) = Parse(<<trace, Padded(Numeral(c.span, 16)), p, t>>)
    <2> HIDE DEF p, t
    <2>1. /\ Text(Lowercase(map)["traceid"]) = trace
          /\ Text(Lowercase(map)["spanid"]) = Padded(Numeral(c.span, 16))
          /\ Text(Lowercase(map)["parentspanid"]) = p
          /\ Text(Lowercase(map)["sampled"]) = t
        BY <1>3, <1>4, HeaderText
    <2> QED
        BY <2>1, Zenon DEF ExtractMap
<1>6. CASE ~decided
    <2>1. t = << >>
        BY <1>6
    <2>2. ExtractMap(map) = {}
        BY <1>5, <2>1, ParseThree
    <2> QED
        BY <1>6, <2>2 DEF map
<1>7. CASE decided
    <2>1. t = Numeral(c.flags, 10)
        BY <1>7
    <2>2. Stoul(t, 10) \subseteq {c.flags} /\ t # <<>> /\ (c.flags < 10 => Stoul(t, 10) = {c.flags})
        BY <1>1, <2>1, FlagsInDecimal
    <2>3. Stoul(p, 16) = IF c.parent = 0 THEN {} ELSE {c.parent}
        BY IdsRead, StoulOfNothing
    <2>4. ReadsTrace(trace, c.high, c.low) /\ Stoul(Padded(Numeral(c.span, 16)), 16) = {c.span}
        BY IdsRead, TraceTextRead DEF trace
    <2> HIDE DEF p, t
    <2>5. Stoul(p, 16) \subseteq {c.parent}
        BY <2>3
    <2>6. Parse(<<trace, Padded(Numeral(c.span, 16)), p, t>>) =
              {[c EXCEPT !.flags = f] : f \in IF Stoul(p, 16) = {} THEN {} ELSE Stoul(t, 10)}
        BY <2>2, <2>4, <2>5, ParseFour
    <2>7. ExtractMap(map) = WithFlags(c, IF Stoul(p, 16) = {} THEN {} ELSE Stoul(t, 10))
        BY <1>5, <2>6, Zenon DEF WithFlags
    <2>8. ExtractMap(map) \subseteq {c}
        BY <2>2, <2>7, OwnFlags
    <2>9. c.flags < 10 /\ c.parent # 0 => ExtractMap(map) = {c}
        BY <2>2, <2>3, <2>7, OwnFlags
    <2> QED
        BY <2>8, <2>9 DEF map
<1> QED
    BY <1>6, <1>7

-----------------------------------------------------------------------------
(* What is in flight, and what a script has of it. *)

HasMap(x) == "small" \in DOMAIN x.map

\* Headers that the context k was injected into, whatever else is in the map.
Injected(map, k) ==
    \A h \in Headers : map.small[h] # {} /\ map.small[h] = InjectMap(k, EmptyMap).small[h]

\* What was sent for a span with the context k and the payload whole.
Carries(m, k, whole) ==
    \/ m.string = <<>> /\ Injected(m.map, k)
    \/ m.string = <<>> /\ \E decided \in BOOLEAN : m.map = ForeignMap(k, decided)
    \/ m.string = <<>> /\ FlagThrows(m.map)
    \/ m.string = <<Head(whole), ContextText(k)>> /\ m.map = EmptyMap

MessageInv ==
    \A m \in inFlight :
        /\ HasMap(m)
        /\ m.from \in DOMAIN spans
        /\ Carries(m, spans[m.from].context, spans[m.from].payload)

Given(x) ==
    HasMap(x) /\ (x.string = x.payload \/ \E text : x.string = <<Head(x.payload), text>>)

SpanInv ==
    /\ spans \in Seq({spans[i] : i \in DOMAIN spans})
    /\ \A i \in DOMAIN spans : Given(spans[i]) /\ spans[i].caller \in {NoCaller} \cup DOMAIN spans

Shape == MessageInv /\ SpanInv

\* A sequence with one element appended.
LEMMA OneMore ==
    ASSUME NEW s, s \in Seq({s[i] : i \in DOMAIN s}), NEW x, NEW t, t = Append(s, x)
    PROVE  /\ t \in Seq({t[i] : i \in DOMAIN t})
           /\ Len(s) \in Nat /\ DOMAIN s = 1 .. Len(s) /\ DOMAIN t = 1 .. (Len(s) + 1)
           /\ \A i \in DOMAIN s : t[i] = s[i]
           /\ t[Len(s) + 1] = x
<1> DEFINE S == {s[i] : i \in DOMAIN s} \cup {x}
<1>1. s \in Seq(S)
    <2>1. {s[i] : i \in DOMAIN s} \subseteq S
        OBVIOUS
    <2> HIDE DEF S
    <2>2. QED  BY <2>1
<1>2. x \in S
    OBVIOUS
<1> HIDE DEF S
<1>3. /\ t \in Seq(S) /\ Len(t) = Len(s) + 1
      /\ \A i \in 1 .. Len(s) : t[i] = s[i]
      /\ t[Len(s) + 1] = x
    BY <1>1, <1>2, AppendProperties
<1>4. Len(s) \in Nat /\ DOMAIN s = 1 .. Len(s) /\ DOMAIN t = 1 .. (Len(s) + 1)
    BY <1>1, <1>3
<1>5. t \in Seq({t[i] : i \in DOMAIN t})
    <2> DEFINE R == {t[i] : i \in DOMAIN t}
    <2>1. \A i \in DOMAIN t : t[i] \in R
        OBVIOUS
    <2> HIDE DEF R
    <2>2. t \in [1 .. Len(t) -> S] /\ DOMAIN t = 1 .. Len(t) /\ Len(t) \in Nat
        BY <1>3, LenProperties
    <2>3. t \in [1 .. Len(t) -> R]
        BY <2>1, <2>2
    <2>4. PICK n \in Nat : t \in [1 .. n -> R]
        BY <2>2, <2>3
    <2>5. t \in Seq(R)
        <3>1. [1 .. n -> R] \subseteq Seq(R)
            BY <2>4, SeqDef
        <3>2. QED  BY <2>4, <3>1, Zenon
    <2>6. QED  BY <2>5 DEF R
<1>6. QED  BY <1>3, <1>4, <1>5

\* A map that was injected into has the context that was injected.
LEMMA InjectedMap ==
    ASSUME NEW k, NEW map, "small" \in DOMAIN map
    PROVE  Injected(InjectMap(k, map), k) /\ "small" \in DOMAIN InjectMap(k, map)
<1>1. DOMAIN InjectMap(k, map) = DOMAIN map
    BY DEF InjectMap
<1>2. "small" \in DOMAIN EmptyMap
    BY DEF EmptyMap
<1>3. InjectMap(k, map).small = InjectMap(k, EmptyMap).small
    BY <1>2 DEF InjectMap
<1>4. \A h \in Headers : InjectMap(k, EmptyMap).small[h] # {}
    BY <1>2 DEF InjectMap, Headers
<1>5. QED  BY <1>1, <1>3, <1>4 DEF Injected

\* Every carrier has the headers in small letters.
LEMMA MapsHaveSmall ==
    "small" \in DOMAIN EmptyMap /\ \A c, decided : "small" \in DOMAIN ForeignMap(c, decided)
BY DEF EmptyMap, ForeignMap

\* A decision in words is one that stoul does not read.
LEMMA WordsThrow ==
    ASSUME NEW c, NEW decided \in BOOLEAN
    PROVE  FlagThrows(InWords(ForeignMap(c, decided))) /\ "small" \in DOMAIN InWords(ForeignMap(c, decided))
<1> DEFINE map == InWords(ForeignMap(c, decided))
           word == <<29>>
<1>1. "sampled" \in Headers
    BY DEF Headers
<1>2. "small" \in DOMAIN map /\ map.small["sampled"] = {} /\ map.capital["sampled"] = {word}
    BY <1>1 DEF InWords, ForeignMap, NoHeaders
<1>3. LeadingDigits(word, 10) = <<>>
    <2> DEFINE P(n) == (\A i \in 1..n : word[i] < 10) /\ (n < Len(word) => word[n + 1] >= 10)
    <2>1. Len(word) = 1 /\ word[1] = 29 /\ word \in Seq(Int)
        OBVIOUS
    <2>2. 0 \in 0..Len(word) /\ P(0)
        BY <2>1
    <2>3. ASSUME NEW n \in 0..Len(word), P(n) PROVE n = 0
        BY <2>1, <2>3
    <2>4. (CHOOSE n \in 0..Len(word) : P(n)) = 0
        <3> HIDE DEF P
        <3>1. QED  BY <2>2, <2>3
    <2>5. SubSeq(word, 1, 0) = <<>>
        BY <2>1
    <2>6. QED  BY <2>4, <2>5 DEF LeadingDigits
<1>4. Lowercase(map)["sampled"] = {word}
    <2> HIDE DEF map, word
    <2>1. QED  BY <1>1, <1>2 DEF Lowercase
<1>5. FlagThrows(map)
    <2> HIDE DEF map
    <2>1. QED  BY <1>3, <1>4 DEF FlagThrows
<1>6. QED  BY <1>2, <1>5

\* A span is made, and perhaps what its caller sent with it.
Makes(x, sent) ==
    /\ spans' = Append(spans, x)
    /\ inFlight' = inFlight \cup sent
    /\ Given(x) /\ x.caller \in {NoCaller} \cup DOMAIN spans
    /\ \A m \in sent : /\ HasMap(m) /\ m.from = Len(spans) + 1
                       /\ Carries(m, x.context, x.payload)

\* A span is injected.
Sends(m) ==
    /\ spans' = spans
    /\ inFlight' = inFlight \cup {m}
    /\ HasMap(m) /\ m.from \in DOMAIN spans
    /\ Carries(m, spans[m.from].context, spans[m.from].payload)

\* A new span, with what it sends, keeps the shape of spans and messages.
LEMMA MakesShape ==
    ASSUME Shape, NEW x, NEW sent, Makes(x, sent)
    PROVE  Shape'
<1>1. /\ spans' \in Seq({spans'[i] : i \in DOMAIN spans'})
      /\ Len(spans) \in Nat /\ DOMAIN spans = 1 .. Len(spans)
      /\ DOMAIN spans' = 1 .. (Len(spans) + 1)
      /\ \A i \in DOMAIN spans : spans'[i] = spans[i]
      /\ spans'[Len(spans) + 1] = x
    <2>1. spans \in Seq({spans[i] : i \in DOMAIN spans}) /\ spans' = Append(spans, x)
        BY DEF Shape, SpanInv, Makes
    <2>2. QED  BY <2>1, OneMore
<1>2. DOMAIN spans' = DOMAIN spans \cup {Len(spans) + 1}
    BY <1>1
<1>3. ASSUME NEW m \in inFlight'
      PROVE  HasMap(m) /\ m.from \in DOMAIN spans' /\ Carries(m, spans'[m.from].context, spans'[m.from].payload)
    <2>1. CASE m \in inFlight
        <3>1. HasMap(m) /\ m.from \in DOMAIN spans /\ Carries(m, spans[m.from].context, spans[m.from].payload)
            BY <2>1 DEF Shape, MessageInv
        <3>2. QED  BY <1>1, <1>2, <3>1
    <2>2. CASE m \in sent
        BY <1>1, <1>2, <2>2 DEF Makes
    <2>3. QED  BY <2>1, <2>2 DEF Makes
<1>4. ASSUME NEW i \in DOMAIN spans'
      PROVE  Given(spans'[i]) /\ spans'[i].caller \in {NoCaller} \cup DOMAIN spans'
    <2>1. CASE i \in DOMAIN spans
        BY <1>1, <1>2, <2>1 DEF Shape, SpanInv
    <2>2. CASE i = Len(spans) + 1
        BY <1>1, <1>2, <2>2 DEF Makes
    <2>3. QED  BY <1>2, <2>1, <2>2
<1>5. MessageInv'
    BY <1>3 DEF MessageInv
<1>6. SpanInv'
    BY <1>1, <1>4 DEF SpanInv
<1>7. QED  BY <1>5, <1>6 DEF Shape

\* A message that is sent by a span keeps it too.
LEMMA SendsShape ==
    ASSUME Shape, NEW m, Sends(m)
    PROVE  Shape'
<1>1. MessageInv'
    BY DEF Shape, MessageInv, Sends
<1>2. SpanInv'
    BY DEF Shape, SpanInv, Sends
<1>3. QED  BY <1>1, <1>2 DEF Shape

\* There are no spans and messages at first.
LEMMA ShapeInit == Init => Shape
<1> SUFFICES ASSUME Init PROVE Shape
    OBVIOUS
<1>1. inFlight = {} /\ spans = <<>> /\ DOMAIN spans = {}
    BY DEF Init
<1>2. <<>> \in Seq({spans[i] : i \in DOMAIN spans})
    OBVIOUS
<1>3. QED  BY <1>1, <1>2 DEF Shape, MessageInv, SpanInv

\* A call from outside makes one span and one message.
LEMMA FromOutside ==
    ASSUME NEW c \in Callers, NEW map \in ForeignMaps(c), CallFromOutside(c, map)
    PROVE  LET x == Span(c, NoCaller, Outside, EmptyMap, <<>>, <<>>)
               m == Message(Len(spans) + 1, map, <<>>)
           IN Makes(x, {m}) /\ x.context = c /\ x.caller = NoCaller
<1> DEFINE x == Span(c, NoCaller, Outside, EmptyMap, <<>>, <<>>)
           m == Message(Len(spans) + 1, map, <<>>)
<1>1. x.context = c /\ x.caller = NoCaller /\ x.map = EmptyMap /\ x.string = x.payload
    BY DEF Span
<1>2. m.from = Len(spans) + 1 /\ m.map = map /\ m.string = <<>>
    BY DEF Message
<1>3. spans' = Append(spans, x) /\ inFlight' = inFlight \cup {m}
    BY DEF CallFromOutside
<1>4. /\ "small" \in DOMAIN map
      /\ (\E decided \in BOOLEAN : map = ForeignMap(c, decided)) \/ FlagThrows(map)
    BY MapsHaveSmall, WordsThrow DEF ForeignMaps
<1> HIDE DEF x, m
<1>5. Given(x) /\ HasMap(m)
    BY <1>1, <1>2, <1>4, MapsHaveSmall DEF Given, HasMap
<1>6. Carries(m, x.context, x.payload)
    BY <1>1, <1>2, <1>4 DEF Carries
<1>7. Makes(x, {m})
    BY <1>1, <1>2, <1>3, <1>5, <1>6 DEF Makes
<1>8. QED  BY <1>1, <1>7 DEF x, m

\* A root span has a new context and no caller.
LEMMA ARoot ==
    ASSUME NEW p \in Processes, StartRoot(p)
    PROVE  \E c \in RootContexts(headerFlag[p]), payload \in Payloads :
              Makes(Span(c, NoCaller, p, EmptyMap, payload, payload), {})
<1>1. PICK c \in RootContexts(headerFlag[p]), payload \in Payloads :
         spans' = Append(spans, Span(c, NoCaller, p, EmptyMap, payload, payload))
    BY DEF StartRoot
<1> DEFINE x == Span(c, NoCaller, p, EmptyMap, payload, payload)
<1>2. x.caller = NoCaller /\ x.map = EmptyMap /\ x.string = x.payload
    BY DEF Span
<1> HIDE DEF x
<1>3. Given(x)
    BY <1>2, MapsHaveSmall DEF Given, HasMap
<1>4. spans' = Append(spans, x) /\ inFlight' = inFlight \cup {}
    BY <1>1 DEF StartRoot, x
<1>5. Makes(x, {})
    BY <1>2, <1>3, <1>4 DEF Makes
<1>6. QED  BY <1>5 DEF x

\* The strings a script that handles m may have, and their payloads.
Held(m, string, payload) ==
    \/ m.string = <<>> /\ string = payload
    \/ m.string # <<>> /\ string = m.string /\ payload = spans[m.from].payload

\* A handler makes a root, or a child of the context it extracted.
LEMMA AHandler ==
    ASSUME Shape, NEW p \in Processes, NEW m \in inFlight, NEW contexts, NEW string, NEW payload,
           Held(m, string, payload), Handle(p, m, contexts, string, payload)
    PROVE  \/ /\ contexts = {}
              /\ \E c \in RootContexts(headerFlag'[p]) :
                    Makes(Span(c, NoCaller, p, m.map, string, payload), {})
           \/ \E c \in contexts, id \in FreshIds :
                 Makes(Span(Child(c, id), m.from, p, m.map, string, payload), {})
<1>1. /\ HasMap(m) /\ m.from \in DOMAIN spans
      /\ Carries(m, spans[m.from].context, spans[m.from].payload)
    BY DEF Shape, MessageInv
<1>2. ASSUME NEW c, NEW caller, caller \in {NoCaller, m.from},
             spans' = Append(spans, Span(c, caller, p, m.map, string, payload))
      PROVE  Makes(Span(c, caller, p, m.map, string, payload), {})
    <2> DEFINE x == Span(c, caller, p, m.map, string, payload)
    <2>1. x.caller = caller /\ x.map = m.map /\ x.string = string /\ x.payload = payload
        BY DEF Span
    <2> HIDE DEF x
    <2>2. string = payload \/ \E text : string = <<Head(payload), text>>
        BY <1>1 DEF Carries, Held
    <2>3. Given(x)
        BY <1>1, <2>1, <2>2 DEF Given, HasMap
    <2>4. spans' = Append(spans, x) /\ inFlight' = inFlight \cup {}
        BY <1>2 DEF Handle, x
    <2>5. Makes(x, {})
        BY <1>1, <1>2, <2>1, <2>3, <2>4 DEF Makes
    <2>6. QED  BY <2>5 DEF x
<1>3. CASE contexts = {}
    <2>1. PICK c \in RootContexts(headerFlag'[p]) :
             spans' = Append(spans, Span(c, NoCaller, p, m.map, string, payload))
        BY <1>3 DEF Handle
    <2>2. QED  BY <1>2, <1>3, <2>1
<1>4. CASE contexts # {}
    <2>1. PICK c \in contexts, id \in FreshIds :
             spans' = Append(spans, Span(Child(c, id), m.from, p, m.map, string, payload))
        BY <1>4 DEF Handle
    <2>2. QED  BY <1>2, <2>1
<1>5. QED  BY <1>3, <1>4

\* A request or a message of the script is one that a span sends.
LEMMA Sending ==
    ASSUME Shape, NEW i \in DOMAIN spans,
           SendMessage(i) \/ \E map \in {EmptyMap, spans[i].map} : SendRequest(i, map)
    PROVE  \E m : Sends(m)
<1> DEFINE k == spans[i].context
<1>0. Given(spans[i])
    BY DEF Shape, SpanInv
<1>1. CASE SendMessage(i)
    <2> DEFINE m == Message(i, EmptyMap, InjectString(k, spans[i].string))
    <2>1. /\ m.from = i /\ m.map = EmptyMap
          /\ m.string = <<Head(spans[i].string), ContextText(k)>>
        BY DEF Message, InjectString
    <2>2. Head(spans[i].string) = Head(spans[i].payload)
        BY <1>0 DEF Given
    <2>3. spans' = spans /\ inFlight' = inFlight \cup {m}
        BY <1>1 DEF SendMessage
    <2> HIDE DEF m
    <2>4. HasMap(m) /\ Carries(m, k, spans[i].payload)
        BY <2>1, <2>2, MapsHaveSmall DEF HasMap, Carries
    <2>5. Sends(m)
        BY <2>1, <2>3, <2>4 DEF Sends
    <2>6. QED  BY <2>5
<1>2. ASSUME NEW map \in {EmptyMap, spans[i].map}, SendRequest(i, map)
      PROVE  \E m : Sends(m)
    <2> DEFINE m == Message(i, InjectMap(k, map), <<>>)
    <2>1. m.from = i /\ m.map = InjectMap(k, map) /\ m.string = <<>>
        BY DEF Message
    <2>2. "small" \in DOMAIN map
        BY <1>0, MapsHaveSmall DEF Given, HasMap
    <2>3. spans' = spans /\ inFlight' = inFlight \cup {m}
        BY <1>2 DEF SendRequest
    <2> HIDE DEF m
    <2>4. HasMap(m) /\ Carries(m, k, spans[i].payload)
        BY <2>1, <2>2, InjectedMap DEF HasMap, Carries
    <2>5. Sends(m)
        BY <2>1, <2>3, <2>4 DEF Sends
    <2>6. QED  BY <2>5
<1>3. QED  BY <1>1, <1>2

\* Every step keeps the shape.
LEMMA ShapeNext == Shape /\ [Next]_vars => Shape'
<1> SUFFICES ASSUME Shape, [Next]_vars PROVE Shape'
    OBVIOUS
<1>1. ASSUME NEW c \in Callers, NEW map \in ForeignMaps(c), CallFromOutside(c, map)
      PROVE  Shape'
    BY <1>1, FromOutside, MakesShape
<1>2. ASSUME NEW p \in Processes, StartRoot(p) PROVE Shape'
    BY <1>2, ARoot, MakesShape
<1>3. ASSUME NEW p \in Processes, NEW m \in inFlight, HandleRequest(p, m) \/ HandleMessage(p, m)
      PROVE  Shape'
    <2>1. PICK contexts, string, payload :
             Held(m, string, payload) /\ Handle(p, m, contexts, string, payload)
        BY <1>3 DEF HandleRequest, HandleMessage, Held
    <2>2. QED  BY <2>1, AHandler, MakesShape
<1>4. ASSUME NEW p \in Processes, NEW m \in inFlight, EndByRequest(p, m) PROVE Shape'
    BY <1>4 DEF EndByRequest, Shape, MessageInv, SpanInv
<1>5. ASSUME NEW i \in DOMAIN spans,
             SendMessage(i) \/ \E map \in {EmptyMap, spans[i].map} : SendRequest(i, map)
      PROVE  Shape'
    BY <1>5, Sending, SendsShape
<1>6. CASE UNCHANGED vars
    BY <1>6 DEF vars, Shape, MessageInv, SpanInv
<1>7. QED  BY <1>1, <1>2, <1>3, <1>4, <1>5, <1>6 DEF Next

\* However often a message is handled and sent on, it is the payload that its first
\* sender began with, cut at the first bar of its own if it has one
\* (TextCarrier::inject takes any bar for its own), followed by one context, that of
\* its last sender: no hop loses more of the payload than the first, and no context
\* is left behind.
THEOREM PayloadCutOnce == Spec => []PayloadKept
<1>1. Shape => PayloadKept
    <2> SUFFICES ASSUME Shape, NEW m \in inFlight, m.string # <<>>
                 PROVE  m.string = <<Head(spans[m.from].payload), ContextText(spans[m.from].context)>>
        BY DEF PayloadKept
    <2>1. Carries(m, spans[m.from].context, spans[m.from].payload)
        BY DEF Shape, MessageInv
    <2>2. QED  BY <2>1 DEF Carries
<1>2. QED  BY <1>1, ShapeInit, ShapeNext, PTL DEF Spec

-----------------------------------------------------------------------------
(* The trace: its ids over all hops, its flags where both carriers read them. *)

\* The flags of callers have one decimal digit, and so have those of all spans.
Readable   == \A c \in Callers : c.flags < 10
KnownFlags == {f \in Nat : Readable => f < 10}
Known      == {c \in ContextType : c.flags \in KnownFlags}

\* The context c continues the trace of k.
SameTrace(c, k) ==
    /\ c.high = k.high /\ c.low = k.low /\ c.parent = k.span
    /\ Readable => c.flags = k.flags

\* Where the new span x comes from: nobody, or the span it continues.
Continues(x) == x.caller # NoCaller => SameTrace(x.context, spans[x.caller].context)

Told(x) ==
    \/ \A h \in Headers : Lowercase(x.map)[h] # {}
    \/ x.string # x.payload

TraceInv ==
    /\ headerFlag \in [Processes -> KnownFlags]
    /\ \A i \in DOMAIN spans : spans[i].context \in Known
    /\ \A i \in DOMAIN spans : Continues(spans[i])
    /\ Readable => NeverStartsAnew

\* A new span that continues its caller's trace keeps all traces.
LEMMA MakesTrace ==
    ASSUME Shape, TraceInv, NEW x, NEW sent, Makes(x, sent),
           headerFlag' \in [Processes -> KnownFlags],
           x.context \in Known, Continues(x),
           Readable /\ x.process # Outside /\ Told(x) => x.caller # NoCaller
    PROVE  TraceInv'
<1>1. /\ DOMAIN spans = 1 .. Len(spans) /\ DOMAIN spans' = 1 .. (Len(spans) + 1)
      /\ Len(spans) \in Nat
      /\ \A i \in DOMAIN spans : spans'[i] = spans[i]
      /\ spans'[Len(spans) + 1] = x
    <2>1. spans \in Seq({spans[i] : i \in DOMAIN spans}) /\ spans' = Append(spans, x)
        BY DEF Shape, SpanInv, Makes
    <2>2. QED  BY <2>1, OneMore
<1>2. DOMAIN spans' = DOMAIN spans \cup {Len(spans) + 1}
    BY <1>1
<1>3. \A i \in DOMAIN spans' : spans'[i].context \in Known
    BY <1>1, <1>2 DEF TraceInv
<1>4. ASSUME NEW i \in DOMAIN spans', spans'[i].caller # NoCaller
      PROVE  SameTrace(spans'[i].context, spans'[spans'[i].caller].context)
    <2>1. CASE i \in DOMAIN spans
        <3>1. spans'[i] = spans[i] /\ spans[i].caller \in DOMAIN spans
            BY <1>1, <1>4, <2>1 DEF Shape, SpanInv
        <3>2. spans'[spans[i].caller] = spans[spans[i].caller]
            BY <1>1, <3>1
        <3>3. SameTrace(spans[i].context, spans[spans[i].caller].context)
            BY <1>4, <2>1, <3>1 DEF TraceInv, Continues
        <3>4. QED  BY <3>1, <3>2, <3>3
    <2>2. CASE i = Len(spans) + 1
        <3>1. spans'[i] = x /\ x.caller \in DOMAIN spans
            BY <1>1, <1>4, <2>2 DEF Makes
        <3>2. spans'[x.caller] = spans[x.caller]
            BY <1>1, <3>1
        <3>3. QED  BY <1>4, <3>1, <3>2 DEF Continues
    <2>3. QED  BY <1>2, <2>1, <2>2
<1>5. (\A i \in DOMAIN spans : Continues(spans[i]))'
    BY <1>4 DEF Continues
<1>6. ASSUME Readable, NEW i \in DOMAIN spans', spans'[i].process # Outside, Told(spans'[i])
      PROVE  spans'[i].caller # NoCaller
    BY <1>1, <1>2, <1>6 DEF TraceInv, NeverStartsAnew, Told
<1>7. Readable => NeverStartsAnew'
    BY <1>6 DEF NeverStartsAnew, Told
<1>8. QED  BY <1>3, <1>5, <1>7 DEF TraceInv, Readable

\* Of a map that was injected into, the headers of that hop are what is read.
LEMMA LowercaseSmall ==
    ASSUME NEW k, NEW map, Injected(map, k)
    PROVE  /\ \A h \in Headers : Lowercase(map)[h] = InjectMap(k, EmptyMap).small[h]
           /\ Lowercase(map) = Lowercase(InjectMap(k, EmptyMap))
<1>1. \A h \in Headers : Lowercase(map)[h] = InjectMap(k, EmptyMap).small[h]
    BY DEF Injected, Lowercase
<1>2. "small" \in DOMAIN EmptyMap
    BY MapsHaveSmall
<1>3. Injected(InjectMap(k, EmptyMap), k)
    BY <1>2, InjectedMap
<1>4. \A h \in Headers : Lowercase(InjectMap(k, EmptyMap))[h] = InjectMap(k, EmptyMap).small[h]
    BY <1>3 DEF Injected, Lowercase
<1>5. Lowercase(map) = Lowercase(InjectMap(k, EmptyMap))
    BY <1>1, <1>4 DEF Lowercase
<1>6. QED  BY <1>1, <1>5

\* An empty map has no headers.
LEMMA NoHeadersTold == ~\A h \in Headers : Lowercase(EmptyMap)[h] # {}
BY DEF Lowercase, EmptyMap, NoHeaders, Headers

\* A foreign caller with all four headers has decided about sampling.
LEMMA ForeignTold ==
    ASSUME NEW k, NEW decided \in BOOLEAN,
           \A h \in Headers : Lowercase(ForeignMap(k, decided))[h] # {}
    PROVE  decided = TRUE /\ k.parent # 0
<1> DEFINE map == ForeignMap(k, decided)
<1>1. "parentspanid" \in Headers /\ "sampled" \in Headers
    BY DEF Headers
<1>2. \A h \in Headers : map.small[h] = {}
    BY DEF ForeignMap, NoHeaders
<1>3. \A h \in Headers : Lowercase(map)[h] = map.capital[h]
    BY <1>2 DEF Lowercase
<1>4. map.capital["parentspanid"] # {} /\ map.capital["sampled"] # {}
    BY <1>1, <1>3
<1>5. /\ map.capital["parentspanid"] # {} => k.parent # 0
      /\ map.capital["sampled"] # {} => decided
    BY <1>1 DEF ForeignMap
<1>6. QED  BY <1>4, <1>5

\* Contexts that are known can be read if the flags of all callers can.
LEMMA KnownContexts ==
    ASSUME NEW k \in Known
    PROVE  k \in ContextType /\ k.flags \in Nat /\ (Readable => k.flags < 10)
BY DEF Known, KnownFlags

\* Behind one bar is one piece.
LEMMA BehindBar ==
    ASSUME NEW before, NEW text
    PROVE  ExtractString(<<before, text>>) = Parse(text)
<1> DEFINE pieces == <<text>>
           More(f, n) == Front(f[n - 1])
                           \o <<Last(f[n - 1]) \o <<Bar>> \o Head(pieces[n])>> \o Tail(pieces[n])
           Def(f) == [n \in 1..Len(pieces) |-> IF n = 1 THEN pieces[1] ELSE More(f, n)]
           upTo == CHOOSE f : f = Def(f)
<1>1. Len(pieces) = 1 /\ pieces[1] = text /\ 1..1 = {1}
    OBVIOUS
<1>2. ASSUME NEW f PROVE Def(f) = [n \in {1} |-> text]
    <2> HIDE DEF More, pieces
    <2>1. QED  BY <1>1
<1>3. upTo = Def(upTo)
    <2> DEFINE e == [n \in {1} |-> text]
    <2>1. e = Def(e)
        BY <1>2
    <2> HIDE DEF Def, e
    <2>2. QED  BY <2>1
<1>4. upTo[1] = text
    <2> HIDE DEF upTo, Def
    <2>1. QED  BY <1>2, <1>3
<1>5. Joined(pieces) = upTo[1]
    <2>1. Joined(pieces) = upTo[Len(pieces)]
        BY DEF Joined
    <2> HIDE DEF upTo
    <2>2. QED  BY <1>1, <2>1
<1>6. Len(<<before, text>>) > 1 /\ Tail(<<before, text>>) = pieces
    OBVIOUS
<1> HIDE DEF pieces, upTo
<1>7. QED  BY <1>4, <1>5, <1>6 DEF ExtractString

\* What is extracted from a message is the context it carries, or nothing; or, from
\* a string, that context with smaller flags.
LEMMA Extracted ==
    ASSUME NEW k \in Known, NEW m, NEW whole, Carries(m, k, whole)
    PROVE  /\ m.string = <<>> /\ ~FlagThrows(m.map) =>
                 /\ ExtractMap(m.map) \subseteq {k}
                 /\ Readable /\ (\A h \in Headers : Lowercase(m.map)[h] # {})
                        => ExtractMap(m.map) = {k}
           /\ m.string # <<>> =>
                 /\ ExtractString(m.string) \subseteq WithFlags(k, 0..k.flags)
                 /\ Readable => ExtractString(m.string) = {k}
                 /\ m.map = EmptyMap
<1>0. k \in ContextType /\ (Readable => k.flags < 10)
    BY KnownContexts
<1>1. CASE m.string = <<>> /\ Injected(m.map, k)
    <2>1. ExtractMap(m.map) = ExtractMap(InjectMap(k, EmptyMap))
        BY <1>1, LowercaseSmall DEF ExtractMap
    <2>2. QED  BY <1>0, <1>1, <2>1, MapCarrierRead
<1>2. ASSUME m.string = <<>>, NEW decided \in BOOLEAN, m.map = ForeignMap(k, decided)
      PROVE  /\ ExtractMap(m.map) \subseteq {k}
             /\ Readable /\ (\A h \in Headers : Lowercase(m.map)[h] # {})
                    => ExtractMap(m.map) = {k}
    <2>1. ExtractMap(m.map) \subseteq {k}
        BY <1>0, <1>2, ForeignMapRead
    <2>2. ASSUME Readable, \A h \in Headers : Lowercase(m.map)[h] # {}
          PROVE  ExtractMap(m.map) = {k}
        <3>1. decided = TRUE /\ k.parent # 0
            BY <1>2, <2>2, ForeignTold
        <3>2. QED  BY <1>0, <1>2, <2>2, <3>1, ForeignMapRead
    <2>3. QED  BY <2>1, <2>2
<1>3. CASE m.string = <<Head(whole), ContextText(k)>> /\ m.map = EmptyMap
    <2>1. m.string # <<>>
        BY <1>3
    <2>2. ExtractString(m.string) = Parse(ContextText(k))
        BY <1>3, BehindBar
    <2>3. QED  BY <1>0, <1>3, <2>1, <2>2, StringCarrierRead
<1>4. QED  BY <1>1, <1>2, <1>3 DEF Carries

\* The flag of a request is that of its span, or the one before.
LEMMA FlagKnown ==
    ASSUME NEW k \in Known, NEW m, NEW whole, Carries(m, k, whole),
           m.string = <<>>, ~FlagThrows(m.map),
           NEW old \in KnownFlags
    PROVE  HeaderFlag(m.map, old) \in KnownFlags
<1>1. k.flags \in KnownFlags /\ Stoul(Numeral(k.flags, 10), 10) \subseteq {k.flags}
    <2>1. k.flags \in Nat
        BY KnownContexts
    <2>2. QED  BY <2>1, FlagsInDecimal DEF Known
<1>2. "sampled" \in Headers /\ "small" \in DOMAIN EmptyMap
    BY MapsHaveSmall DEF Headers
<1>3. Lowercase(m.map)["sampled"] \in {{}, {Numeral(k.flags, 10)}}
    <2>1. CASE Injected(m.map, k)
        <3>1. Lowercase(m.map)["sampled"] = InjectMap(k, EmptyMap).small["sampled"]
            BY <1>2, <2>1, LowercaseSmall
        <3>2. InjectMap(k, EmptyMap).small["sampled"] = {Numeral(k.flags, 10)}
            BY <1>2 DEF InjectMap
        <3>3. QED  BY <3>1, <3>2
    <2>2. ASSUME NEW decided \in BOOLEAN, m.map = ForeignMap(k, decided)
          PROVE  Lowercase(m.map)["sampled"] \in {{}, {Numeral(k.flags, 10)}}
        <3>1. m.map.small["sampled"] = {}
            BY <1>2, <2>2 DEF ForeignMap, NoHeaders
        <3>2. m.map.capital["sampled"] = IF decided THEN {Numeral(k.flags, 10)} ELSE {}
            BY <1>2, <2>2 DEF ForeignMap
        <3>3. QED  BY <1>2, <3>1, <3>2 DEF Lowercase
    <2>3. QED  BY <2>1, <2>2 DEF Carries
<1>4. CASE Lowercase(m.map)["sampled"] = {}
    BY <1>4 DEF HeaderFlag
<1>5. CASE Lowercase(m.map)["sampled"] = {Numeral(k.flags, 10)}
    <2>1. UNION {Stoul(text, 10) : text \in Lowercase(m.map)["sampled"]} \in {{}, {k.flags}}
        BY <1>1, <1>5
    <2>2. HeaderFlag(m.map, old) \in {old, k.flags}
        BY <2>1 DEF HeaderFlag
    <2>3. QED  BY <1>1, <2>2
<1>6. QED  BY <1>3, <1>4, <1>5

\* A root's context is one.
LEMMA RootsAreKnown ==
    ASSUME NEW flag \in KnownFlags, NEW c \in RootContexts(flag)
    PROVE  c \in Known
<1>1. FreshIds \subseteq Word /\ NewIds \subseteq Word /\ 0 \in Word
    BY PropagationAssumption, SmallWords DEF PropagationAssumption, FreshIds
<1>2. RootFlags(flag) \subseteq KnownFlags
    BY DEF RootFlags, KnownFlags
<1>3. QED  BY <1>1, <1>2 DEF RootContexts, Known, KnownFlags, ContextType

\* A child continues the trace of the span whose context was read, and so does a
\* child of that context with smaller flags, except for the flags.
LEMMA ChildrenContinue ==
    ASSUME NEW k \in Known, NEW id \in FreshIds, NEW c \in WithFlags(k, 0..k.flags),
           Readable => c = k
    PROVE  Child(c, id) \in Known /\ SameTrace(Child(c, id), k)
<1>1. id \in Word
    BY PropagationAssumption DEF PropagationAssumption, FreshIds
<1>2. PICK f \in 0..k.flags : c = [k EXCEPT !.flags = f]
    BY DEF WithFlags
<1>3. k \in ContextType /\ k.flags \in Nat /\ (Readable => k.flags < 10)
    BY KnownContexts
<1>4. /\ c.high = k.high /\ c.low = k.low /\ c.span = k.span /\ c.flags = f
      /\ c \in ContextType
    BY <1>2, <1>3 DEF ContextType
<1>5. /\ Child(c, id).high = c.high /\ Child(c, id).low = c.low /\ Child(c, id).flags = c.flags
      /\ Child(c, id).parent = c.span /\ Child(c, id) \in ContextType
    BY <1>1, <1>4 DEF Child, ContextType
<1>6. c.flags \in KnownFlags
    BY <1>3, <1>4 DEF KnownFlags
<1>7. QED  BY <1>4, <1>5, <1>6 DEF Known, SameTrace

\* The contexts of outside callers are known.
LEMMA CallersAreKnown == Callers \subseteq Known
BY PropagationAssumption DEF PropagationAssumption, Known, KnownFlags, Readable, ContextType

\* There are no traces at first.
LEMMA TraceInit == Init => TraceInv
<1> SUFFICES ASSUME Init PROVE TraceInv
    OBVIOUS
<1>1. spans = <<>> /\ DOMAIN spans = {} /\ headerFlag = [p \in Processes |-> 0] /\ 0 \in KnownFlags
    BY DEF Init, KnownFlags
<1>2. QED  BY <1>1 DEF TraceInv, NeverStartsAnew

\* A handler continues the trace of the message, as far as it can read it.
LEMMA HandlerTrace ==
    ASSUME Shape, TraceInv, NEW p \in Processes, NEW m \in inFlight,
           HandleRequest(p, m) \/ HandleMessage(p, m)
    PROVE  TraceInv'
<1>1. PICK k, whole : k = spans[m.from].context /\ whole = spans[m.from].payload
    OBVIOUS
<1>2. /\ k \in Known /\ Carries(m, k, whole) /\ m.from \in DOMAIN spans
      /\ m.string = <<>> => ~FlagThrows(m.map)
    BY <1>1 DEF Shape, MessageInv, TraceInv, HandleRequest, HandleMessage
<1>3. headerFlag' \in [Processes -> KnownFlags]
    <2>1. headerFlag[p] \in KnownFlags
        BY DEF TraceInv
    <2>2. CASE HandleRequest(p, m)
        <3>1. HeaderFlag(m.map, headerFlag[p]) \in KnownFlags
            BY <1>2, <2>1, <2>2, FlagKnown DEF HandleRequest
        <3>2. headerFlag' = [headerFlag EXCEPT ![p] = HeaderFlag(m.map, headerFlag[p])]
            BY <2>2 DEF HandleRequest
        <3>3. QED  BY <3>1, <3>2 DEF TraceInv
    <2>3. CASE HandleMessage(p, m)
        BY <2>3 DEF HandleMessage, TraceInv
    <2>4. QED  BY <2>2, <2>3
<1>4. PICK contexts, string, payload :
         /\ Handle(p, m, contexts, string, payload) /\ Held(m, string, payload)
         /\ contexts = IF m.string = <<>> THEN ExtractMap(m.map) ELSE ExtractString(m.string)
    BY DEF HandleRequest, HandleMessage, Held
<1>5. contexts \subseteq WithFlags(k, 0..k.flags) /\ (Readable => contexts \subseteq {k})
    <2>1. k \in WithFlags(k, 0..k.flags)
        <3>1. k \in ContextType /\ k.flags \in 0..k.flags
            BY <1>2, KnownContexts
        <3>2. k = [k EXCEPT !.flags = k.flags]
            BY <3>1 DEF ContextType
        <3>3. QED  BY <3>1, <3>2 DEF WithFlags
    <2>2. CASE m.string = <<>>
        <3>1. contexts \subseteq {k}
            BY <1>2, <1>4, <2>2, Extracted
        <3>2. QED  BY <2>1, <3>1
    <2>3. CASE m.string # <<>>
        BY <1>2, <1>4, <2>3, Extracted
    <2>4. QED  BY <2>2, <2>3
\* Who was told everything has a caller.
<1>6. ASSUME Readable, contexts = {}
      PROVE  /\ m.string = <<>>
             /\ ~\A h \in Headers : Lowercase(m.map)[h] # {}
    <2>1. m.string = <<>>
        <3>1. CASE m.string # <<>>
            <4>1. ExtractString(m.string) = {k}
                BY <1>2, <1>6, <3>1, Extracted
            <4>2. QED  BY <1>4, <1>6, <3>1, <4>1
        <3>2. QED  BY <3>1
    <2>2. ASSUME \A h \in Headers : Lowercase(m.map)[h] # {}  PROVE FALSE
        <3>1. ExtractMap(m.map) = {k}
            BY <1>2, <1>6, <2>1, <2>2, Extracted
        <3>2. QED  BY <1>4, <1>6, <2>1, <3>1
    <2>3. QED  BY <2>1, <2>2
<1>7. ASSUME contexts = {}, NEW c \in RootContexts(headerFlag'[p]),
             Makes(Span(c, NoCaller, p, m.map, string, payload), {})
      PROVE  TraceInv'
    <2> DEFINE x == Span(c, NoCaller, p, m.map, string, payload)
    <2>1. /\ x.context = c /\ x.caller = NoCaller /\ x.map = m.map
          /\ m.string = <<>> => x.string = x.payload
        BY <1>4 DEF Held, Span
    <2>2. headerFlag'[p] \in KnownFlags
        BY <1>3
    <2>3. c \in Known
        BY <1>7, <2>2, RootsAreKnown
    <2> HIDE DEF x
    <2>4. ASSUME Readable PROVE ~Told(x)
        <3>1. x.string = x.payload /\ ~\A h \in Headers : Lowercase(x.map)[h] # {}
            BY <1>6, <1>7, <2>1, <2>4
        <3>2. QED  BY <3>1 DEF Told
    <2>5. Continues(x)
        BY <2>1 DEF Continues
    <2>6. Makes(x, {})
        BY <1>7 DEF x
    <2>7. QED  BY <1>3, <2>1, <2>3, <2>4, <2>5, <2>6, MakesTrace
<1>8. ASSUME NEW c \in contexts, NEW id \in FreshIds,
             Makes(Span(Child(c, id), m.from, p, m.map, string, payload), {})
      PROVE  TraceInv'
    <2> DEFINE x == Span(Child(c, id), m.from, p, m.map, string, payload)
    <2>1. c \in WithFlags(k, 0..k.flags) /\ (Readable => c = k)
        BY <1>5
    <2>2. x.context = Child(c, id) /\ x.caller = m.from
        BY DEF Span
    <2>3. x.caller # NoCaller
        <3>1. DOMAIN spans = 1 .. Len(spans) /\ Len(spans) \in Nat
            BY LenProperties DEF Shape, SpanInv
        <3>2. QED  BY <1>2, <2>2, <3>1 DEF NoCaller
    <2>4. Makes(x, {})
        BY <1>8
    <2> HIDE DEF x
    <2>5. Child(c, id) \in Known /\ SameTrace(Child(c, id), k)
        BY <1>2, <2>1, ChildrenContinue
    <2>6. x.context \in Known /\ Continues(x)
        BY <1>1, <2>2, <2>5, Zenon DEF Continues
    <2>7. QED  BY <1>3, <2>3, <2>4, <2>6, MakesTrace
<1>9. QED  BY <1>4, <1>7, <1>8, AHandler

\* Every step keeps the traces.
LEMMA TraceNext == Shape /\ TraceInv /\ [Next]_vars => TraceInv'
<1> SUFFICES ASSUME Shape, TraceInv, [Next]_vars PROVE TraceInv'
    OBVIOUS
<1>1. ASSUME NEW c \in Callers, NEW map \in ForeignMaps(c), CallFromOutside(c, map)
      PROVE  TraceInv'
    <2> DEFINE x == Span(c, NoCaller, Outside, EmptyMap, <<>>, <<>>)
               m == Message(Len(spans) + 1, map, <<>>)
    <2>1. Makes(x, {m}) /\ x.context = c /\ x.caller = NoCaller
        BY <1>1, FromOutside
    <2>2. x.process = Outside
        BY DEF Span
    <2>3. c \in Known /\ headerFlag' = headerFlag
        BY <1>1, CallersAreKnown DEF CallFromOutside
    <2> HIDE DEF x, m
    <2>4. Continues(x)
        BY <2>1 DEF Continues
    <2>5. headerFlag' \in [Processes -> KnownFlags]
        BY <2>3 DEF TraceInv
    <2>6. QED  BY <2>1, <2>2, <2>3, <2>4, <2>5, MakesTrace
<1>2. ASSUME NEW p \in Processes, StartRoot(p) PROVE TraceInv'
    <2>1. PICK c \in RootContexts(headerFlag[p]), payload \in Payloads :
             Makes(Span(c, NoCaller, p, EmptyMap, payload, payload), {})
        BY <1>2, ARoot
    <2> DEFINE x == Span(c, NoCaller, p, EmptyMap, payload, payload)
    <2>2. x.context = c /\ x.caller = NoCaller /\ x.map = EmptyMap /\ x.string = x.payload
        BY DEF Span
    <2>3. headerFlag' = headerFlag /\ headerFlag[p] \in KnownFlags /\ headerFlag \in [Processes -> KnownFlags]
        BY <1>2 DEF StartRoot, TraceInv
    <2>4. c \in Known
        BY <2>3, RootsAreKnown
    <2>5. Makes(x, {})
        BY <2>1
    <2> HIDE DEF x
    <2>6. ~Told(x)
        BY <2>2, NoHeadersTold DEF Told
    <2>7. Continues(x)
        BY <2>2 DEF Continues
    <2>8. QED  BY <2>2, <2>3, <2>4, <2>5, <2>6, <2>7, MakesTrace
<1>3. ASSUME NEW p \in Processes, NEW m \in inFlight, HandleRequest(p, m) \/ HandleMessage(p, m)
      PROVE  TraceInv'
    BY <1>3, HandlerTrace
<1>4. ASSUME NEW p \in Processes, NEW m \in inFlight, EndByRequest(p, m)
      PROVE  TraceInv'
    <2>1. UNCHANGED spans /\ headerFlag' = [headerFlag EXCEPT ![p] = 0] /\ 0 \in KnownFlags
        BY <1>4 DEF EndByRequest, KnownFlags
    <2>2. headerFlag' \in [Processes -> KnownFlags]
        BY <2>1 DEF TraceInv
    <2>3. QED  BY <2>1, <2>2 DEF TraceInv, Continues, NeverStartsAnew
<1>5. ASSUME NEW i \in DOMAIN spans,
             SendMessage(i) \/ \E map \in {EmptyMap, spans[i].map} : SendRequest(i, map)
      PROVE  TraceInv'
    <2>1. UNCHANGED <<headerFlag, spans>>
        BY <1>5 DEF SendMessage, SendRequest
    <2>2. QED  BY <2>1 DEF TraceInv, Continues, NeverStartsAnew
<1>6. CASE UNCHANGED vars
    BY <1>6 DEF vars, TraceInv, Continues, NeverStartsAnew
<1>7. QED  BY <1>1, <1>2, <1>3, <1>4, <1>5, <1>6 DEF Next

\* The invariant from which the theorems about traces follow.
LEMMA TraceInvariant == Spec => [](Shape /\ TraceInv)
<1>1. Shape /\ TraceInv /\ [Next]_vars => (Shape /\ TraceInv)'
    BY ShapeNext, TraceNext
<1>2. QED  BY <1>1, ShapeInit, TraceInit, PTL DEF Spec

\* What CarriersRead asks of one hop holds for all ids, and exactly for the flags
\* that inject and extract agree about (TextCarrier.cpp:37, SpanContext.cpp:81).
THEOREM CarriersReadFlags == CarriersRead <=> \A c \in Callers : c.flags < 10
<1>1. ASSUME Readable PROVE CarriersRead
    <2> SUFFICES ASSUME NEW c \in Contexts
                 PROVE  /\ Parse(ContextText(c)) = {c}
                        /\ ExtractMap(InjectMap(c, EmptyMap)) = {c}
                        /\ Stoul(Numeral(c.flags, 10), 10) = {c.flags}
                        /\ \A decided \in BOOLEAN : ExtractMap(ForeignMap(c, decided)) \subseteq {c}
                        /\ c.parent # 0 => ExtractMap(ForeignMap(c, TRUE)) = {c}
        BY DEF CarriersRead
    <2>1. Ids \subseteq Word
        BY PropagationAssumption, SmallWords DEF PropagationAssumption, Ids, ContextType
    <2>2. c.flags \in Nat /\ c.flags < 10
        <3>1. \A d \in Callers : d.flags \in Nat /\ d.flags < 10
            BY <1>1, PropagationAssumption DEF PropagationAssumption, ContextType, Readable
        <3>2. c.flags \in Flags
            BY DEF Contexts
        <3>3. QED  BY <3>1, <3>2 DEF Flags
    <2>3. c \in ContextType
        BY <2>1, <2>2 DEF Contexts, ContextType
    <2>4. TRUE \in BOOLEAN
        OBVIOUS
    <2>5. QED  BY <2>2, <2>3, <2>4, StringCarrierRead, MapCarrierRead, FlagsInDecimal, ForeignMapRead
<1>2. ASSUME CarriersRead, NEW c \in Callers PROVE c.flags < 10
    <2>1. c \in ContextType
        BY PropagationAssumption DEF PropagationAssumption
    <2>2. c \in Contexts
        <3>1. {c.high, c.low, c.span, c.parent} \subseteq Ids /\ c.flags \in Flags
            BY DEF Ids, Flags
        <3>2. QED  BY <2>1, <3>1 DEF ContextType, Contexts
    <2>3. Parse(ContextText(c)) = {c}
        BY <1>2, <2>2, Zenon DEF CarriersRead
    <2>4. QED  BY <2>1, <2>3, StringCarrierRead
<1>3. QED  BY <1>1, <1>2 DEF Readable

\* Over any number of hops, whatever flags callers send, a span that continues
\* another has the trace of that span and names it as its parent.
IdsSurvive ==
    \A i \in DOMAIN spans : spans[i].caller # NoCaller =>
        LET c == spans[i].context
            k == spans[spans[i].caller].context
        IN c.high = k.high /\ c.low = k.low /\ c.parent = k.span

\* The ids of a trace survive any number of hops: requests and messages, in any
\* order, handled any number of times, through maps that hold the headers of
\* earlier hops.
THEOREM IdsKept == Spec => []IdsSurvive
<1>1. TraceInv => IdsSurvive
    BY DEF TraceInv, Continues, SameTrace, IdsSurvive
<1>2. QED  BY <1>1, TraceInvariant, PTL

\* ... and so does the sampling decision, where the flags of callers have one
\* decimal digit.
THEOREM TraceKept ==
    ASSUME \A c \in Callers : c.flags < 10
    PROVE  Spec => []TraceSurvives
<1>1. TraceInv => TraceSurvives
    BY DEF TraceInv, Continues, SameTrace, Readable, TraceSurvives
<1>2. QED  BY <1>1, TraceInvariant, PTL

\* ... where also whoever got all four headers, or a message that was injected
\* into, continues a trace.
THEOREM TraceContinued ==
    ASSUME \A c \in Callers : c.flags < 10
    PROVE  Spec => []NeverStartsAnew
<1>1. TraceInv => NeverStartsAnew
    BY DEF TraceInv, Readable
<1>2. QED  BY <1>1, TraceInvariant, PTL
=============================================================================
