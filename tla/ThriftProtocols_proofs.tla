---------------------- MODULE ThriftProtocols_proofs ----------------------
(***************************************************************************)
(* Proofs about the two protocols: what was encoded is read back, whatever *)
(* follows it, and what was cut is not read at all.  The encodings are     *)
(* recursive functions on the naturals; a property of all of them is       *)
(* proved by looking at the least number that does not have it.            *)
(***************************************************************************)
EXTENDS ThriftProtocols, SequenceTheorems, WellFoundedInduction, TLAPS

-----------------------------------------------------------------------------
(* Recursion on the naturals. *)

\* A set of naturals has a least one; a property of all naturals is proved from it.
LEMMA LeastNumber ==
    ASSUME NEW T \in SUBSET Nat, T # {}
    PROVE  \E x \in T : \A y \in T : x <= y
<1> DEFINE R == {p \in Nat \X Nat : p[1] < p[2]}
<1>1. IsWellFoundedOn(R, Nat)
    <2>1. OpToRel(<, Nat) = R
        BY DEF OpToRel
    <2> QED  BY <2>1, NatLessThanWellFounded
<1>2. \A x, y \in Nat : y < x => <<y, x>> \in R
    OBVIOUS
<1> HIDE DEF R
<1>3. PICK x \in T : \A y \in T : <<y, x>> \notin R
    BY <1>1, WFMin
<1>4. \A y \in T : x <= y
    <2> TAKE y \in T
    <2>1. x \in Nat /\ y \in Nat
        OBVIOUS
    <2>2. ~(y < x)
        BY <1>2, <1>3, <2>1, Zenon
    <2> QED  BY <2>1, <2>2
<1> QED  BY <1>4

\* What such a definition is made of: below b the values are a, from b on h gives the
\* value from the one for a smaller number g.
Recursion(S, b, a, h, g) ==
    /\ b \in Nat \ {0} /\ a \in [Nat -> S] /\ h \in [Nat -> [S -> S]]
    /\ g \in [Nat -> Nat] /\ \A n \in Nat : n >= b => g[n] < n

Recurs(f, b, a, h, g) == f = [n \in Nat |-> IF n < b THEN a[n] ELSE h[n][f[g[n]]]]

\* A function is defined by its values below a bound and by what it is elsewhere,
\* given its value for a smaller number: there is one, and it has the type its
\* definition says.
LEMMA FunctionExists ==
    ASSUME NEW S, NEW b, NEW a, NEW h, NEW g, Recursion(S, b, a, h, g)
    PROVE  \E f \in [Nat -> S] : Recurs(f, b, a, h, g)
<1>0. /\ b \in Nat \ {0} /\ a \in [Nat -> S] /\ h \in [Nat -> [S -> S]]
      /\ g \in [Nat -> Nat] /\ \A n \in Nat : n >= b => g[n] < n
    BY DEF Recursion
<1> USE <1>0
<1> DEFINE Value(f, n) == IF n < b THEN a[n] ELSE h[n][f[g[n]]]
           Good(f, n) == f \in [0..n -> S] /\ \A i \in 0..n : f[i] = Value(f, i)
<1>1. ASSUME NEW m \in Nat, NEW n \in Nat, m <= n, NEW e, NEW f, Good(e, m), Good(f, n)
      PROVE  \A i \in 0..m : e[i] = f[i]
    <2> DEFINE T == {i \in 0..m : e[i] # f[i]}
    <2>1. ASSUME T # {} PROVE FALSE
        <3>1. PICK x \in T : \A y \in T : x <= y
            <4>1. T \in SUBSET Nat
                OBVIOUS
            <4> HIDE DEF T
            <4> QED
                BY <2>1, <4>1, LeastNumber
        <3>2. x \in Nat /\ x \in 0..m /\ x \in 0..n /\ e[x] # f[x]
            BY <1>1
        <3>3. e[x] = Value(e, x) /\ f[x] = Value(f, x)
            BY <1>1, <3>2
        <3>4. CASE x < b
            BY <3>2, <3>3, <3>4
        <3>5. CASE x >= b
            <4>1. g[x] \in Nat /\ g[x] < x
                BY <3>2, <3>5
            <4>2. g[x] \in 0..m /\ g[x] \notin T
                BY <3>1, <3>2, <4>1
            <4>3. e[g[x]] = f[g[x]]
                BY <4>2
            <4> QED
                BY <3>2, <3>3, <3>5, <4>3
        <3> QED
            BY <3>2, <3>4, <3>5
    <2> QED
        BY <2>1
<1>2. \A n \in Nat : \E f : Good(f, n)
    <2> DEFINE T == {n \in Nat : ~\E f : Good(f, n)}
    <2>1. ASSUME T # {} PROVE FALSE
        <3>1. PICK x \in T : \A y \in T : x <= y
            BY <2>1, LeastNumber
        <3>2. x \in Nat /\ ~\E f : Good(f, x)
            OBVIOUS
        <3>3. CASE x = 0
            <4> DEFINE f == [i \in 0..0 |-> a[i]]
            <4>1. Good(f, 0)
                OBVIOUS
            <4> QED
                BY <3>2, <3>3, <4>1
        <3>4. CASE x # 0
            <4>1. x - 1 \in Nat /\ x - 1 \notin T
                <5>1. x - 1 \in Nat /\ ~(x <= x - 1)
                    BY <3>2, <3>4
                <5> HIDE DEF T
                <5> QED
                    BY <3>1, <5>1
            <4>2. PICK e : Good(e, x - 1)
                BY <4>1
            <4> DEFINE f == [i \in 0..x |-> IF i < x THEN e[i] ELSE Value(e, x)]
            <4>3. x < b \/ (g[x] \in Nat /\ g[x] < x /\ g[x] \in 0..(x - 1) /\ e[g[x]] \in S)
                BY <3>2, <4>2
            <4>4. Value(e, x) \in S
                <5>1. CASE x < b
                    BY <3>2, <5>1
                <5>2. CASE ~(x < b)
                    <6>1. e[g[x]] \in S /\ h[x] \in [S -> S]
                        BY <3>2, <4>3, <5>2
                    <6> QED
                        BY <5>2, <6>1
                <5> QED
                    BY <5>1, <5>2
            <4>5. f \in [0..x -> S]
                BY <3>2, <4>2, <4>4
            <4>6. ASSUME NEW i \in 0..x PROVE f[i] = Value(f, i)
                <5>1. CASE i = x
                    <6>1. x < b \/ f[g[x]] = e[g[x]]
                        BY <3>2, <4>3
                    <6> QED
                        BY <3>2, <5>1, <6>1
                <5>2. CASE i < x
                    <6>1. i \in 0..(x - 1) /\ f[i] = e[i] /\ i \in Nat
                        BY <3>2, <4>6, <5>2
                    <6>2. i < b \/ (g[i] \in 0..x /\ g[i] < x)
                        BY <3>2, <6>1, <5>2
                    <6>3. i < b \/ f[g[i]] = e[g[i]]
                        BY <6>2
                    <6>4. e[i] = Value(e, i)
                        BY <4>2, <6>1
                    <6> QED
                        BY <6>1, <6>3, <6>4
                <5>3. i = x \/ i < x
                    BY <3>2, <4>6
                <5> QED
                    BY <5>1, <5>2, <5>3, Zenon
            <4> HIDE DEF f
            <4>7. Good(f, x)
                BY <4>5, <4>6
            <4> QED
                BY <3>2, <4>7
        <3> QED
            BY <3>3, <3>4
    <2> QED
        BY <2>1
<1> DEFINE G == [n \in Nat |-> CHOOSE f : Good(f, n)]
           F == [n \in Nat |-> G[n][n]]
<1>3. \A n \in Nat : Good(G[n], n)
    <2> HIDE DEF Good
    <2> QED
        BY <1>2
<1>4. ASSUME NEW n \in Nat PROVE F[n] = Value(F, n)
    <2> HIDE DEF G
    <2>1. F[n] = G[n][n] /\ n \in 0..n
        OBVIOUS
    <2>2. G[n][n] = Value(G[n], n)
        BY <1>3, <2>1
    <2>3. CASE n < b
        BY <2>1, <2>2, <2>3
    <2>4. CASE n >= b
        <3>1. g[n] \in Nat /\ g[n] <= n /\ g[n] \in 0..g[n]
            BY <2>4
        <3>2. G[g[n]][g[n]] = G[n][g[n]]
            <4>1. PICK k \in Nat : k = g[n] /\ k <= n /\ k \in 0..k
                BY <3>1
            <4>2. Good(G[k], k) /\ Good(G[n], n)
                BY <1>3
            <4> HIDE DEF Good
            <4>3. \A i \in 0..k : G[k][i] = G[n][i]
                BY <1>1, <4>1, <4>2
            <4> QED
                BY <4>1, <4>3
        <3>3. F[g[n]] = G[g[n]][g[n]]
            BY <3>1
        <3> QED
            BY <2>1, <2>2, <2>4, <3>2, <3>3
    <2> QED
        BY <2>3, <2>4
<1>5. F = [n \in Nat |-> F[n]]
    OBVIOUS
<1>6. F \in [Nat -> S]
    <2> HIDE DEF G
    <2>1. \A n \in Nat : G[n][n] \in S
        BY <1>3
    <2> QED
        BY <2>1
<1> HIDE DEF F, G
<1>7. F = [n \in Nat |-> Value(F, n)]
    BY <1>4, <1>5
<1> QED
    BY <1>6, <1>7 DEF Recurs

-----------------------------------------------------------------------------
(* Zigzag: it is undone by its inverse, and fits the width of its argument. *)

\* zigzagToI64(i64ToZigzag(n)) = n, for every integer.
THEOREM ZigZagUndone == ASSUME NEW n \in Int PROVE UnZigZag(ZigZag(n)) = n
<1>1. CASE n >= 0
    BY <1>1 DEF ZigZag, UnZigZag
<1>2. CASE n < 0
    <2>1. ZigZag(n) = -2 * n - 1
        BY <1>2 DEF ZigZag
    <2>2. (-2 * n - 1) % 2 = 1
        BY <1>2
    <2>3. ((-2 * n - 1) + 1) \div 2 = -n
        BY <1>2
    <2> QED
        BY <2>1, <2>2, <2>3 DEF UnZigZag
<1> QED
    BY <1>1, <1>2

\* An n-bit integer becomes an n-bit natural: the shifts of i32ToZigzag lose nothing.
THEOREM ZigZagFits ==
    ASSUME NEW half \in Nat, NEW n \in (-half)..(half - 1)
    PROVE  ZigZag(n) \in 0..(2 * half - 1)
BY DEF ZigZag

\* Zigzag makes a natural number, from which UnZigZag gets the integer back.
LEMMA ZigZagBack == \A n \in Int : ZigZag(n) \in Nat /\ UnZigZag(ZigZag(n)) = n
BY ZigZagUndone, SMT DEF ZigZag

-----------------------------------------------------------------------------
(* Variable-length numbers. *)

\* Varint is the function its definition says.
LEMMA VarintDef ==
    ASSUME NEW n \in Nat
    PROVE  Varint[n] = IF n < 128 THEN <<n>> ELSE <<128 + (n % 128)>> \o Varint[n \div 128]
<1> DEFINE S == Seq(Nat)
           a == [m \in Nat |-> <<m>>]
           h == [m \in Nat |-> [v \in S |-> <<128 + (m % 128)>> \o v]]
           g == [m \in Nat |-> m \div 128]
           Def(f) == [m \in Nat |-> IF m < 128 THEN <<m>> ELSE <<128 + (m % 128)>> \o f[m \div 128]]
<1>1. a \in [Nat -> S] /\ g \in [Nat -> Nat] /\ \A m \in Nat : m >= 128 => g[m] < m
    OBVIOUS
<1>2. h \in [Nat -> [S -> S]]
    <2>1. \A m \in Nat : <<128 + (m % 128)>> \in Seq(Nat)
        OBVIOUS
    <2>2. \A m \in Nat, v \in S : <<128 + (m % 128)>> \o v \in S
        BY <2>1, ConcatProperties
    <2> QED
        BY <2>2
<1>3. PICK f \in [Nat -> S] :
             Recurs(f, 128, a, h, g)
    <2> HIDE DEF S, a, g, h
    <2>1. Recursion(S, 128, a, h, g)
        BY <1>1, <1>2 DEF Recursion
    <2> QED
        BY <2>1, FunctionExists
<1>4. f = Def(f)
    <2> HIDE DEF S
    <2>1. \A m \in Nat : f[m \div 128] \in S
        OBVIOUS
    <2>2. \A m \in Nat : (IF m < 128 THEN a[m] ELSE h[m][f[g[m]]])
                          = (IF m < 128 THEN <<m>> ELSE <<128 + (m % 128)>> \o f[m \div 128])
        BY <2>1
    <2> HIDE DEF a, h, g
    <2>3. \A m \in Nat : f[m] = IF m < 128 THEN a[m] ELSE h[m][f[g[m]]]
        BY <1>3 DEF Recurs
    <2>4. f = [m \in Nat |-> f[m]]
        OBVIOUS
    <2>5. \A m \in Nat :
            f[m] = IF m < 128 THEN <<m>> ELSE <<128 + (m % 128)>> \o f[m \div 128]
        BY <2>2, <2>3, Zenon
    <2> QED
        BY <2>4, <2>5, Zenon
<1>5. Varint = CHOOSE e : e = Def(e)
    BY DEF Varint
<1>6. Varint = Def(Varint)
    <2> HIDE DEF Def
    <2> QED
        BY <1>4, <1>5
<1> DEFINE At(m) == IF m < 128 THEN <<m>> ELSE <<128 + (m % 128)>> \o Varint[m \div 128]
<1>7. Varint[n] = At(n)
    <2>1. Def(Varint) = [m \in Nat |-> At(m)]
        OBVIOUS
    <2> HIDE DEF Def, At
    <2>2. Varint = [m \in Nat |-> At(m)]
        BY <1>6, <2>1
    <2> QED
        BY <2>2
<1> QED
    BY <1>7

\* A number of one byte, or a byte that announces more and the rest of the number.
LEMMA VarintParts ==
    ASSUME NEW n \in Nat
    PROVE  /\ n < 128 => Varint[n] = <<n>>
           /\ n >= 128 => Varint[n] = <<128 + (n % 128)>> \o Varint[n \div 128]
<1> DEFINE more == <<128 + (n % 128)>> \o Varint[n \div 128]
<1>1. Varint[n] = IF n < 128 THEN <<n>> ELSE more
    BY VarintDef, Zenon
<1>2. n >= 128 => ~(n < 128)
    OBVIOUS
<1> HIDE DEF more
<1>3. (n < 128 => Varint[n] = <<n>>) /\ (n >= 128 => Varint[n] = more)
    BY <1>1, <1>2, Zenon
<1> QED
    BY <1>3 DEF more

\* The bytes of a number are naturals.
LEMMA VarintType == ASSUME NEW n \in Nat PROVE Varint[n] \in Seq(Nat)
<1> DEFINE T == {m \in Nat : Varint[m] \notin Seq(Nat)}
<1>1. ASSUME T # {} PROVE FALSE
    <2>1. PICK x \in T : \A y \in T : x <= y
        <3>1. T \in SUBSET Nat
            OBVIOUS
        <3> HIDE DEF T
        <3> QED
            BY <1>1, <3>1, LeastNumber
    <2>2. x \in Nat /\ Varint[x] \notin Seq(Nat)
        OBVIOUS
    <2>3. CASE x < 128
        <3>1. Varint[x] = <<x>>
            BY <2>2, <2>3, VarintParts, Zenon
        <3>2. <<x>> \in Seq(Nat)
            BY <2>2
        <3> QED
            BY <2>2, <3>1, <3>2, Zenon
    <2>4. CASE x >= 128
        <3>1. x \div 128 \in Nat /\ ~(x <= x \div 128) /\ <<128 + (x % 128)>> \in Seq(Nat)
            BY <2>2, <2>4
        <3>2. Varint[x \div 128] \in Seq(Nat)
            BY <2>1, <3>1
        <3>3. Varint[x] = <<128 + (x % 128)>> \o Varint[x \div 128]
            BY <2>2, <2>4, VarintParts
        <3> QED
            BY <2>2, <3>1, <3>2, <3>3, ConcatProperties
    <2> QED
        BY <2>2, <2>3, <2>4
<1> QED
    BY <1>1

\* A number of more than one byte, byte by byte.
LEMMA VarintMore ==
    ASSUME NEW n \in Nat, n >= 128
    PROVE  /\ n \div 128 \in Nat /\ n \div 128 < n
           /\ Len(Varint[n \div 128]) \in Nat
           /\ Len(Varint[n]) = 1 + Len(Varint[n \div 128])
           /\ Varint[n][1] = 128 + (n % 128)
           /\ \A i \in 1..Len(Varint[n \div 128]) : Varint[n][1 + i] = Varint[n \div 128][i]
<1> DEFINE b == 128 + (n % 128)
           more == Varint[n \div 128]
<1>1. n \div 128 \in Nat /\ n \div 128 < n /\ b \in Nat
    OBVIOUS
<1>2. more \in Seq(Nat) /\ Len(more) \in Nat
    BY <1>1, VarintType, LenProperties
<1>3. Varint[n] = <<b>> \o more
    BY VarintParts
<1> HIDE DEF b, more
<1>4. <<b>> \in Seq(Nat) /\ Len(<<b>>) = 1 /\ <<b>>[1] = b
    BY <1>1
<1>5. /\ Len(<<b>> \o more) = 1 + Len(more)
      /\ \A i \in 1..(1 + Len(more)) :
            (<<b>> \o more)[i] = IF i <= 1 THEN <<b>>[i] ELSE more[i - 1]
    BY <1>2, <1>4, ConcatProperties
<1>6. (<<b>> \o more)[1] = b
    BY <1>2, <1>4, <1>5
<1>7. ASSUME NEW i \in 1..Len(more) PROVE (<<b>> \o more)[1 + i] = more[i]
    <2>1. PICK j \in 1..(1 + Len(more)) : j = 1 + i /\ ~(j <= 1) /\ j - 1 = i
        BY <1>2
    <2> QED
        BY <1>5, <2>1
<1> QED
    BY <1>1, <1>2, <1>3, <1>5, <1>6, <1>7 DEF b, more

\* The last byte of a number is below 128, and no other is.
LEMMA VarintBytes ==
    ASSUME NEW n \in Nat
    PROVE  /\ Len(Varint[n]) \in Nat \ {0}
           /\ Varint[n][Len(Varint[n])] < 128
           /\ \A i \in 1..(Len(Varint[n]) - 1) : Varint[n][i] >= 128
<1> DEFINE Ends(m) == /\ Len(Varint[m]) \in Nat \ {0}
                      /\ Varint[m][Len(Varint[m])] < 128
                      /\ \A i \in 1..(Len(Varint[m]) - 1) : Varint[m][i] >= 128
           T == {m \in Nat : ~Ends(m)}
<1>1. ASSUME T # {} PROVE FALSE
    <2>1. PICK x \in T : \A y \in T : x <= y
        <3>1. T \in SUBSET Nat
            OBVIOUS
        <3> HIDE DEF T
        <3> QED
            BY <1>1, <3>1, LeastNumber
    <2>2. x \in Nat /\ ~Ends(x)
        OBVIOUS
    <2>3. CASE x < 128
        <3>1. Varint[x] = <<x>>
            BY <2>2, <2>3, VarintParts, Zenon
        <3>2. Len(<<x>>) = 1 /\ <<x>>[1] = x
            OBVIOUS
        <3>3. Ends(x)
            BY <2>2, <2>3, <3>1, <3>2
        <3> QED
            BY <2>2, <3>3
    <2>4. CASE x >= 128
        <3> DEFINE d == x \div 128
        <3>1. /\ d \in Nat /\ d < x
              /\ Len(Varint[d]) \in Nat
              /\ Len(Varint[x]) = 1 + Len(Varint[d])
              /\ Varint[x][1] = 128 + (x % 128)
              /\ \A i \in 1..Len(Varint[d]) : Varint[x][1 + i] = Varint[d][i]
            BY <2>2, <2>4, VarintMore
        <3>2. Varint[x][1] >= 128
            BY <2>2, <3>1
        <3>3. ~(x <= d)
            BY <2>2, <3>1
        <3> HIDE DEF d
        <3>4. Ends(d)
            <4> HIDE DEF Ends
            <4> QED
                BY <2>1, <3>1, <3>3
        <3> HIDE DEF T
        <3>5. Len(Varint[x]) \in Nat \ {0} /\ Varint[x][Len(Varint[x])] < 128
            BY <3>1, <3>4
        <3>6. ASSUME NEW i \in 1..(Len(Varint[x]) - 1) PROVE Varint[x][i] >= 128
            <4>1. CASE i = 1
                BY <3>2, <4>1
            <4>2. CASE i # 1
                <5>1. i - 1 \in 1..(Len(Varint[d]) - 1) /\ i - 1 \in 1..Len(Varint[d]) /\ 1 + (i - 1) = i
                    BY <3>1, <3>6, <4>2
                <5>2. Varint[x][i] = Varint[d][i - 1]
                    BY <3>1, <5>1
                <5> QED
                    BY <3>4, <5>1, <5>2
            <4> QED
                BY <4>1, <4>2
        <3> QED
            BY <2>2, <3>5, <3>6
    <2> QED
        BY <2>2, <2>3, <2>4
<1> QED
    BY <1>1

\* Byte by byte, the last one first.
Grows(last, s, n) ==
    /\ last[0] = 0
    /\ \A i \in 1..n : last[i] = (s[n - i + 1] % 128) + 128 * last[i - 1]

\* The function in Number: what it is for no byte, and for one byte more.
LEMMA NumberDef ==
    ASSUME NEW s \in Seq(Int), NEW n \in Nat, n <= Len(s)
    PROVE  \E last : Number(s, n) = last[n] /\ Grows(last, s, n)
<1> DEFINE byte == [i \in Nat |-> IF i \in 1..n THEN s[n - i + 1] % 128 ELSE 0]
           a == [i \in Nat |-> 0]
           h == [i \in Nat |-> [v \in Int |-> byte[i] + 128 * v]]
           g == [i \in Nat |-> IF i = 0 THEN 0 ELSE i - 1]
           Def(f) == [i \in 0..n |-> IF i = 0 THEN 0 ELSE (s[n - i + 1] % 128) + 128 * f[i - 1]]
<1>1. \A i \in 1..n : n - i + 1 \in 1..Len(s) /\ s[n - i + 1] \in Int
    BY ElementOfSeq, LenProperties
<1>2. byte \in [Nat -> Int]
    BY <1>1
<1>3. \A i \in 1..n : byte[i] = s[n - i + 1] % 128
    OBVIOUS
<1> HIDE DEF byte
<1>4. a \in [Nat -> Int] /\ g \in [Nat -> Nat] /\ \A i \in Nat : i >= 1 => g[i] < i
    OBVIOUS
<1>5. h \in [Nat -> [Int -> Int]]
    BY <1>2
<1>6. PICK f \in [Nat -> Int] : Recurs(f, 1, a, h, g)
    <2> HIDE DEF a, g, h
    <2>0. 1 \in Nat \ {0}
        OBVIOUS
    <2>1. Recursion(Int, 1, a, h, g)
        BY <1>4, <1>5, <2>0, Zenon DEF Recursion
    <2> QED
        BY <2>1, FunctionExists
<1> DEFINE e == [i \in 0..n |-> f[i]]
<1>7. \A i \in 0..n : f[i] = IF i = 0 THEN 0 ELSE (s[n - i + 1] % 128) + 128 * f[i - 1]
    <2>1. \A i \in Nat : f[i] = IF i < 1 THEN a[i] ELSE h[i][f[g[i]]]
        <3> HIDE DEF a, g, h
        <3> QED
            BY <1>6 DEF Recurs
    <2>2. TAKE i \in 0..n
    <2>3. CASE i = 0
        <3>1. a[0] = 0 /\ 0 \in Nat /\ 0 < 1
            OBVIOUS
        <3> HIDE DEF a, h, g
        <3>2. f[0] = 0
            BY <2>1, <3>1
        <3> QED
            BY <2>3, <3>2, Zenon
    <2>4. CASE i # 0
        <3>1. i \in 1..n /\ i \in Nat /\ ~(i < 1) /\ g[i] = i - 1 /\ i - 1 \in Nat
            BY <2>2, <2>4
        <3>2. f[i] = h[i][f[i - 1]]
            <4> HIDE DEF a, h, g
            <4>1. f[i] = h[i][f[g[i]]]
                BY <2>1, <3>1
            <4> QED
                BY <3>1, <4>1
        <3>3. f[i - 1] \in Int
            BY <3>1
        <3>4. h[i][f[i - 1]] = byte[i] + 128 * f[i - 1]
            BY <3>1, <3>3
        <3> QED
            BY <1>3, <2>4, <3>1, <3>2, <3>4
    <2> QED
        BY <2>3, <2>4
<1> HIDE DEF a, h, g
<1>8. e = Def(e)
    <2>1. \A i \in 0..n : e[i] = IF i = 0 THEN 0 ELSE (s[n - i + 1] % 128) + 128 * e[i - 1]
        <3>1. TAKE i \in 0..n
        <3>2. e[i] = f[i]
            OBVIOUS
        <3>3. i # 0 => i - 1 \in 0..n /\ e[i - 1] = f[i - 1]
            OBVIOUS
        <3> HIDE DEF e
        <3> QED
            BY <1>7, <3>2, <3>3
    <2>2. e = [i \in 0..n |-> e[i]]
        OBVIOUS
    <2> HIDE DEF e
    <2> QED
        BY <2>1, <2>2
<1> DEFINE last == CHOOSE q : q = Def(q)
<1>9. last = Def(last) /\ Number(s, n) = last[n]
    <2>1. Number(s, n) = last[n]
        BY DEF Number
    <2>2. \E q : q = Def(q)
        <3> HIDE DEF Def, e
        <3> QED
            BY <1>8
    <2> HIDE DEF Def
    <2>3. last = Def(last)
        BY <2>2
    <2> QED
        BY <2>1, <2>3
<1> HIDE DEF last, e
<1>10. \A i \in 0..n : last[i] = IF i = 0 THEN 0 ELSE (s[n - i + 1] % 128) + 128 * last[i - 1]
    BY <1>9
<1>11. last[0] = 0
    BY <1>10
<1>12. \A i \in 1..n : last[i] = (s[n - i + 1] % 128) + 128 * last[i - 1]
    BY <1>10
<1> QED
    BY <1>9, <1>11, <1>12 DEF Grows

\* The bytes of s are those of e, as far as both go.
Agrees(s, e) == \A i \in 1..Len(e) : i <= Len(s) => s[i] = e[i]

\* The bytes of a number give the number.
LEMMA NumberOfVarint ==
    ASSUME NEW s \in Seq(Int), NEW m \in Nat, Len(Varint[m]) <= Len(s), Agrees(s, Varint[m])
    PROVE  Number(s, Len(Varint[m])) = m
<1>1. PICK n \in Nat : n = Len(Varint[m]) /\ n <= Len(s)
    BY VarintBytes
<1>2. PICK last :
         /\ Number(s, n) = last[n]
         /\ last[0] = 0
         /\ \A i \in 1..n : last[i] = (s[n - i + 1] % 128) + 128 * last[i - 1]
    <2>1. PICK last : Number(s, n) = last[n] /\ Grows(last, s, n)
        BY <1>1, NumberDef
    <2> QED
        BY <2>1 DEF Grows
<1>3. \A i \in 1..n : s[i] = Varint[m][i]
    <2>1. Len(s) \in Nat
        BY LenProperties
    <2> QED
        BY <1>1, <2>1 DEF Agrees
\* A number that the bytes end with.
<1> DEFINE Suffix(x) == /\ Len(Varint[x]) <= n
                        /\ \A j \in 1..Len(Varint[x]) : s[n - Len(Varint[x]) + j] = Varint[x][j]
           T == {x \in Nat : Suffix(x) /\ last[Len(Varint[x])] # x}
<1>4. ASSUME T # {} PROVE FALSE
    <2>1. PICK x \in T : \A y \in T : x <= y
        <3>1. T \in SUBSET Nat
            OBVIOUS
        <3> HIDE DEF T
        <3> QED
            BY <1>4, <3>1, LeastNumber
    <2>2. x \in Nat /\ Suffix(x) /\ last[Len(Varint[x])] # x
        OBVIOUS
    <2>3. CASE x < 128
        <3>1. Varint[x] = <<x>>
            BY <2>2, <2>3, VarintParts, Zenon
        <3>2. Len(Varint[x]) = 1 /\ Varint[x][1] = x
            BY <3>1
        <3>3. 1 \in 1..n /\ n - 1 + 1 = n /\ s[n] = x
            BY <1>1, <2>2, <3>2
        <3>4. last[1] = (x % 128) + 128 * 0
            <4>1. last[1] = (s[n - 1 + 1] % 128) + 128 * last[1 - 1]
                BY <1>2, <3>3
            <4>2. 1 - 1 = 0
                OBVIOUS
            <4> QED
                BY <1>2, <3>3, <4>1, <4>2
        <3>5. last[1] = x
            BY <2>2, <2>3, <3>4
        <3> QED
            BY <2>2, <3>2, <3>5
    <2>4. CASE x >= 128
        <3> DEFINE d == x \div 128
        <3>1. /\ d \in Nat /\ d < x
              /\ Len(Varint[d]) \in Nat
              /\ Len(Varint[x]) = 1 + Len(Varint[d])
              /\ Varint[x][1] = 128 + (x % 128)
              /\ \A i \in 1..Len(Varint[d]) : Varint[x][1 + i] = Varint[d][i]
            BY <2>2, <2>4, VarintMore
        <3>2. ~(x <= d) /\ ((128 + (x % 128)) % 128) + 128 * d = x
            <4>1. x \in Nat
                BY <2>2
            <4>2. \A z \in Nat : ((128 + (z % 128)) % 128) + 128 * (z \div 128) = z
                OBVIOUS
            <4> QED
                BY <2>4, <3>1, <4>1, <4>2
        <3> HIDE DEF d
        <3>3. PICK k \in Nat : k = Len(Varint[d]) /\ Len(Varint[x]) = k + 1 /\ k + 1 <= n
            BY <2>2, <3>1
        <3>4. Suffix(d)
            <4>1. ASSUME NEW j \in 1..k PROVE s[n - k + j] = Varint[d][j]
                <5>1. 1 + j \in 1..(k + 1) /\ n - (k + 1) + (1 + j) = n - k + j
                    BY <3>3
                <5>2. s[n - (k + 1) + (1 + j)] = Varint[x][1 + j]
                    BY <2>2, <3>3, <5>1
                <5> QED
                    BY <3>1, <3>3, <5>1, <5>2
            <4>2. k <= n
                BY <1>1, <3>3
            <4> QED
                BY <3>3, <4>1, <4>2
        <3>5. last[k] = d
            <4> HIDE DEF Suffix
            <4>1. d \notin T
                BY <2>1, <3>1, <3>2
            <4> QED
                BY <3>1, <3>3, <3>4, <4>1
        <3>6. s[n - (k + 1) + 1] = 128 + (x % 128)
            <4>1. 1 \in 1..(k + 1)
                BY <3>3
            <4> QED
                BY <2>2, <3>1, <3>3, <4>1
        <3>7. last[k + 1] = (s[n - (k + 1) + 1] % 128) + 128 * last[k]
            <4>1. k + 1 \in 1..n /\ (k + 1) - 1 = k
                BY <3>3
            <4> QED
                BY <1>2, <4>1
        <3>8. last[k + 1] = x
            BY <3>2, <3>5, <3>6, <3>7
        <3> QED
            BY <2>2, <3>3, <3>8
    <2> QED
        BY <2>2, <2>3, <2>4
<1>5. Suffix(m)
    <2>1. \A j \in 1..n : n - n + j = j
        BY <1>1
    <2> QED
        BY <1>1, <1>3, <2>1
<1>6. last[n] = m
    <2>1. m \notin T
        BY <1>4
    <2> HIDE DEF Suffix
    <2> QED
        BY <1>1, <1>5, <2>1
<1> QED
    BY <1>1, <1>2, <1>6

-----------------------------------------------------------------------------
(* Bytes one after the other. *)

\* What is left after the first bytes.
LEMMA AfterIs ==
    ASSUME NEW s \in Seq(Int), NEW n \in Nat, n <= Len(s)
    PROVE  /\ After(s, n) \in Seq(Int) /\ Len(After(s, n)) = Len(s) - n
           /\ \A i \in 1..(Len(s) - n) : After(s, n)[i] = s[n + i]
<1>1. Len(s) \in Nat /\ \A i \in (n + 1)..Len(s) : s[i] \in Int
    BY ElementOfSeq, LenProperties
<1>2. /\ SubSeq(s, n + 1, Len(s)) \in Seq(Int)
      /\ Len(SubSeq(s, n + 1, Len(s))) = IF n + 1 <= Len(s) THEN Len(s) - (n + 1) + 1 ELSE 0
      /\ \A i \in 1..(Len(s) - (n + 1) + 1) : SubSeq(s, n + 1, Len(s))[i] = s[n + 1 + i - 1]
    <2>1. PICK k \in Nat : k = n + 1 /\ \A i \in k..Len(s) : s[i] \in Int
        BY <1>1
    <2>2. /\ SubSeq(s, k, Len(s)) \in Seq(Int)
          /\ Len(SubSeq(s, k, Len(s))) = IF k <= Len(s) THEN Len(s) - k + 1 ELSE 0
          /\ \A i \in 1..(Len(s) - k + 1) : SubSeq(s, k, Len(s))[i] = s[k + i - 1]
        BY <1>1, <2>1, SubSeqProperties
    <2> QED
        BY <2>1, <2>2
<1>3. Len(After(s, n)) = Len(s) - n
    BY <1>1, <1>2 DEF After
<1>4. ASSUME NEW i \in 1..(Len(s) - n) PROVE After(s, n)[i] = s[n + i]
    <2>1. i \in 1..(Len(s) - (n + 1) + 1) /\ n + 1 + i - 1 = n + i
        BY <1>1
    <2> QED
        BY <1>2, <2>1 DEF After
<1> QED
    BY <1>2, <1>3, <1>4 DEF After

\* The first bytes.
LEMMA FirstIs ==
    ASSUME NEW s \in Seq(Int), NEW n \in Nat, n <= Len(s)
    PROVE  /\ SubSeq(s, 1, n) \in Seq(Int) /\ Len(SubSeq(s, 1, n)) = n
           /\ \A i \in 1..n : SubSeq(s, 1, n)[i] = s[i]
<1>1. Len(s) \in Nat /\ \A i \in 1..n : s[i] \in Int
    BY ElementOfSeq, LenProperties
<1>2. /\ SubSeq(s, 1, n) \in Seq(Int)
      /\ Len(SubSeq(s, 1, n)) = IF 1 <= n THEN n - 1 + 1 ELSE 0
      /\ \A i \in 1..(n - 1 + 1) : SubSeq(s, 1, n)[i] = s[1 + i - 1]
    BY <1>1, SubSeqProperties
<1>3. Len(SubSeq(s, 1, n)) = n
    BY <1>2
<1>4. ASSUME NEW i \in 1..n PROVE SubSeq(s, 1, n)[i] = s[i]
    <2>1. i \in 1..(n - 1 + 1) /\ 1 + i - 1 = i
        OBVIOUS
    <2> QED
        BY <1>2, <2>1
<1> QED
    BY <1>2, <1>3, <1>4

\* Dropping n bytes and then m is dropping n + m.
LEMMA AfterAfter ==
    ASSUME NEW s \in Seq(Int), NEW n \in Nat, NEW m \in Nat, n + m <= Len(s)
    PROVE  After(After(s, n), m) = After(s, n + m)
<1>1. Len(s) \in Nat /\ n <= Len(s) /\ m <= Len(s) - n /\ n + m \in Nat
    BY LenProperties
<1>2. /\ After(s, n) \in Seq(Int) /\ Len(After(s, n)) = Len(s) - n
      /\ \A i \in 1..(Len(s) - n) : After(s, n)[i] = s[n + i]
    BY <1>1, AfterIs
<1>3. /\ After(After(s, n), m) \in Seq(Int) /\ Len(After(After(s, n), m)) = Len(s) - n - m
      /\ \A i \in 1..(Len(s) - n - m) : After(After(s, n), m)[i] = After(s, n)[m + i]
    <2> DEFINE r == After(s, n)
    <2>1. r \in Seq(Int) /\ Len(r) = Len(s) - n /\ m <= Len(r)
        BY <1>1, <1>2
    <2> HIDE DEF r
    <2>2. /\ After(r, m) \in Seq(Int) /\ Len(After(r, m)) = Len(r) - m
          /\ \A i \in 1..(Len(r) - m) : After(r, m)[i] = r[m + i]
        BY <2>1, AfterIs
    <2> QED
        BY <2>1, <2>2 DEF r
<1>4. /\ After(s, n + m) \in Seq(Int) /\ Len(After(s, n + m)) = Len(s) - (n + m)
      /\ \A i \in 1..(Len(s) - (n + m)) : After(s, n + m)[i] = s[n + m + i]
    BY <1>1, AfterIs
<1>5. Len(s) - n - m = Len(s) - (n + m)
    BY <1>1
<1>6. ASSUME NEW i \in 1..(Len(s) - (n + m))
      PROVE  After(After(s, n), m)[i] = After(s, n + m)[i]
    <2>1. m + i \in 1..(Len(s) - n) /\ i \in 1..(Len(s) - n - m) /\ n + (m + i) = n + m + i
        BY <1>1
    <2> QED
        BY <1>2, <1>3, <1>4, <2>1
<1> QED
    BY <1>3, <1>4, <1>5, <1>6, SeqEqual

\* Two encodings, one after the other.
LEMMA TwoParts ==
    ASSUME NEW s \in Seq(Int), NEW d \in Seq(Int), NEW e \in Seq(Int), Agrees(s, d \o e)
    PROVE  /\ d \o e \in Seq(Int) /\ Len(d \o e) = Len(d) + Len(e)
           /\ Agrees(s, d)
           /\ Len(d) <= Len(s) => Agrees(After(s, Len(d)), e)
<1>1. Len(s) \in Nat /\ Len(d) \in Nat /\ Len(e) \in Nat
    BY LenProperties
<1>2. /\ d \o e \in Seq(Int) /\ Len(d \o e) = Len(d) + Len(e)
      /\ \A i \in 1..(Len(d) + Len(e)) : (d \o e)[i] = IF i <= Len(d) THEN d[i] ELSE e[i - Len(d)]
    BY ConcatProperties
<1>3. Agrees(s, d)
    <2>1. ASSUME NEW i \in 1..Len(d), i <= Len(s) PROVE s[i] = d[i]
        <3>1. i \in 1..(Len(d) + Len(e)) /\ i <= Len(d)
            BY <1>1
        <3>2. s[i] = (d \o e)[i]
            BY <1>2, <2>1, <3>1 DEF Agrees
        <3> QED
            BY <1>2, <3>1, <3>2
    <2> QED
        BY <2>1 DEF Agrees
<1>4. ASSUME Len(d) <= Len(s) PROVE Agrees(After(s, Len(d)), e)
    <2> DEFINE r == After(s, Len(d))
    <2>1. Len(r) = Len(s) - Len(d) /\ \A i \in 1..(Len(s) - Len(d)) : r[i] = s[Len(d) + i]
        BY <1>1, <1>4, AfterIs
    <2> HIDE DEF r
    <2>2. ASSUME NEW i \in 1..Len(e), i <= Len(r) PROVE r[i] = e[i]
        <3>1. PICK j \in 1..(Len(d) + Len(e)) :
                 j = Len(d) + i /\ ~(j <= Len(d)) /\ j - Len(d) = i /\ j <= Len(s)
            <4>1. /\ Len(d) + i \in 1..(Len(d) + Len(e)) /\ ~(Len(d) + i <= Len(d))
                  /\ Len(d) + i - Len(d) = i /\ Len(d) + i <= Len(s)
                BY <1>1, <1>4, <2>1, <2>2
            <4> QED
                BY <4>1
        <3>2. s[j] = (d \o e)[j]
            BY <1>2, <3>1 DEF Agrees
        <3>3. (d \o e)[j] = e[i]
            BY <1>2, <3>1
        <3>4. r[i] = s[j]
            BY <1>1, <2>1, <2>2, <3>1
        <3> QED
            BY <3>2, <3>3, <3>4
    <2> QED
        BY <2>2 DEF Agrees, r
<1> QED
    BY <1>2, <1>3, <1>4

\* Bytes that are copied are found, or thrown at where they are cut.
LEMMA BytesFound ==
    ASSUME NEW s \in Seq(Int), NEW e \in Seq(Int), Agrees(s, e)
    PROVE  BytesAt(s, Len(e)) = IF Len(e) <= Len(s)
                                THEN {[value |-> e, rest |-> After(s, Len(e))]} ELSE {}
<1>1. ASSUME Len(e) <= Len(s) PROVE SubSeq(s, 1, Len(e)) = e
    <2>1. Len(e) \in Nat /\ Len(s) \in Nat
        BY LenProperties
    <2>2. /\ SubSeq(s, 1, Len(e)) \in Seq(Int) /\ Len(SubSeq(s, 1, Len(e))) = Len(e)
          /\ \A i \in 1..Len(e) : SubSeq(s, 1, Len(e))[i] = s[i]
        BY <1>1, <2>1, FirstIs
    <2>3. \A i \in 1..Len(e) : s[i] = e[i]
        BY <1>1, <2>1 DEF Agrees
    <2> QED
        BY <2>2, <2>3, SeqEqual
<1> QED
    BY <1>1 DEF BytesAt

\* readVarint64 reads what writeVarint64 wrote, and throws where it is cut.
LEMMA VarintFound ==
    ASSUME NEW s \in Seq(Int), NEW n \in Nat, Len(Varint[n]) <= 10, Agrees(s, Varint[n])
    PROVE  VarintAt(s) = IF Len(Varint[n]) <= Len(s)
                         THEN {[value |-> <<n>>, rest |-> After(s, Len(Varint[n]))]} ELSE {}
<1> DEFINE k == Len(Varint[n])
           ends == {j \in 1..Len(s) : j <= 10 /\ s[j] < 128 /\ \A i \in 1..(j - 1) : s[i] >= 128}
<1>1. k \in Nat \ {0} /\ Varint[n][k] < 128 /\ \A i \in 1..(k - 1) : Varint[n][i] >= 128
    BY VarintBytes
<1>2. Len(s) \in Nat /\ \A i \in 1..Len(s) : s[i] \in Int
    BY LenProperties, ElementOfSeq
<1>3. \A i \in 1..k : i <= Len(s) => s[i] = Varint[n][i]
    BY DEF Agrees
<1> HIDE DEF k
<1>4. ASSUME k <= Len(s) PROVE ends = {k}
    <2>1. s[k] < 128 /\ \A i \in 1..(k - 1) : s[i] >= 128
        <3>1. k \in 1..k /\ \A i \in 1..(k - 1) : i \in 1..k /\ i <= Len(s)
            BY <1>1, <1>2, <1>4
        <3> QED
            BY <1>1, <1>3, <1>4, <3>1
    <2>2. k \in ends
        BY <1>1, <1>2, <1>4, <2>1 DEF k
    <2>3. ASSUME NEW j \in ends PROVE j = k
        <3>1. j \in 1..Len(s) /\ s[j] < 128 /\ \A i \in 1..(j - 1) : s[i] >= 128
            OBVIOUS
        <3>2. ~(j < k)
            <4>1. j < k => j \in 1..(k - 1)
                BY <1>1, <1>2, <3>1
            <4> QED
                BY <1>2, <2>1, <3>1, <4>1
        <3>3. ~(k < j)
            <4>1. k < j => k \in 1..(j - 1)
                BY <1>1, <1>2, <3>1
            <4>2. s[k] \in Int
                BY <1>1, <1>2, <1>4
            <4> QED
                BY <2>1, <3>1, <4>1, <4>2
        <3> QED
            BY <1>1, <1>2, <3>1, <3>2, <3>3
    <2> HIDE DEF ends
    <2> QED
        BY <2>2, <2>3
<1>5. ASSUME ~(k <= Len(s)) PROVE ends = {}
    <2>1. ASSUME NEW j \in ends PROVE FALSE
        <3>1. j \in 1..Len(s) /\ s[j] < 128
            OBVIOUS
        <3>2. j \in 1..(k - 1) /\ j \in 1..k /\ j <= Len(s)
            BY <1>1, <1>2, <1>5, <3>1
        <3>3. s[j] >= 128 /\ s[j] \in Int
            BY <1>1, <1>2, <1>3, <3>1, <3>2
        <3> QED
            BY <3>1, <3>3
    <2> QED
        BY <2>1
<1>6. VarintAt(s) = {[value |-> <<Number(s, j)>>, rest |-> After(s, j)] : j \in ends}
    BY DEF VarintAt
<1> HIDE DEF ends
<1>7. k <= Len(s) => Number(s, k) = n
    BY NumberOfVarint DEF k
<1>8. VarintAt(s) = IF k <= Len(s) THEN {[value |-> <<n>>, rest |-> After(s, k)]} ELSE {}
    BY <1>4, <1>5, <1>6, <1>7
<1> QED
    BY <1>8 DEF k

-----------------------------------------------------------------------------
(* Values. *)

\* What a decoder finds at the start of s that was encoded as e: nothing if s is too short.
Read(s, e, v) ==
    IF Len(e) <= Len(s) THEN {[value |-> v, rest |-> After(s, Len(e))]} ELSE {}

\* An integer of any width.
LEMMA IntegerFound ==
    ASSUME NEW s \in Seq(Int), NEW type \in Integer, NEW n \in Int, Short(ZigZag(n)),
           Agrees(s, Encoded(type, <<n>>))
    PROVE  /\ Encoded(type, <<n>>) \in Seq(Int) /\ Len(Encoded(type, <<n>>)) \in Nat
           /\ Decoded(type, s) = Read(s, Encoded(type, <<n>>), <<n>>)
<1>1. PICK z \in Nat : z = ZigZag(n) /\ UnZigZag(z) = n
    BY ZigZagBack
<1>2. Encoded(type, <<n>>) = Varint[z]
    <2>1. <<n>>[1] = n
        OBVIOUS
    <2>2. Encoded(type, <<n>>) = Varint[ZigZag(<<n>>[1])]
        BY DEF Encoded, Integer
    <2> QED
        BY <1>1, <2>1, <2>2
<1>3. Varint[z] \in Seq(Int) /\ Len(Varint[z]) \in Nat
    BY VarintType, LenProperties, SeqMonotonic
<1>4. VarintAt(s) = Read(s, Varint[z], <<z>>)
    BY <1>1, <1>2, VarintFound DEF Read, Short
<1>5. Decoded(type, s) = {[x EXCEPT !.value = <<UnZigZag(x.value[1])>>] : x \in VarintAt(s)}
    BY DEF Decoded, Integer
<1>6. CASE Len(Varint[z]) <= Len(s)
    <2>1. PICK x : x = [value |-> <<z>>, rest |-> After(s, Len(Varint[z]))]
        OBVIOUS
    <2>3. VarintAt(s) = {x}
        BY <1>4, <1>6, <2>1 DEF Read
    <2>4. x.value[1] = z
        BY <2>1
    <2>2. [x EXCEPT !.value = <<UnZigZag(x.value[1])>>]
          = [value |-> <<n>>, rest |-> After(s, Len(Varint[z]))]
        BY <1>1, <2>1, <2>4
    <2>5. Decoded(type, s) = {[x EXCEPT !.value = <<UnZigZag(x.value[1])>>]}
        BY <1>5, <2>3
    <2> QED
        BY <1>2, <1>3, <1>6, <2>2, <2>5 DEF Read
<1>7. CASE ~(Len(Varint[z]) <= Len(s))
    BY <1>2, <1>3, <1>4, <1>5, <1>7 DEF Read
<1> QED
    BY <1>6, <1>7

\* A boolean that is no field.
LEMMA BoolFound ==
    ASSUME NEW s \in Seq(Int), NEW v \in {<< 0 >>, << 1 >>}, Agrees(s, <<BoolCode(v)>>)
    PROVE  Decoded("BOOL", s) = Read(s, <<BoolCode(v)>>, v)
<1>1. BoolCode(v) \in {1, 2} /\ (BoolCode(v) = 1 <=> v = <<1>>)
    BY DEF BoolCode
<1>2. PICK b \in {1, 2} : b = BoolCode(v) /\ (b = 1 <=> v = <<1>>)
    BY <1>1
<1>3. <<b>> \in Seq(Int) /\ Len(<<b>>) = 1
    OBVIOUS
<1>4. BytesAt(s, 1) = Read(s, <<b>>, <<b>>)
    BY <1>2, <1>3, BytesFound DEF Read
<1>5. Decoded("BOOL", s) = {[x EXCEPT !.value = IF x.value = <<1>> THEN <<1>> ELSE <<0>>] :
                               x \in BytesAt(s, 1)}
    BY DEF Decoded, Integer
<1>6. CASE 1 <= Len(s)
    <2>1. PICK x : x = [value |-> <<b>>, rest |-> After(s, 1)]
        OBVIOUS
    <2>2. BytesAt(s, 1) = {x}
        BY <1>3, <1>4, <1>6, <2>1 DEF Read
    <2>3. (x.value = <<1>>) <=> (b = 1)
        BY <2>1
    <2>4. [x EXCEPT !.value = IF x.value = <<1>> THEN <<1>> ELSE <<0>>]
          = [value |-> v, rest |-> After(s, 1)]
        <3>1. (IF x.value = <<1>> THEN <<1>> ELSE <<0>>) = v
            BY <1>2, <2>3
        <3> QED
            BY <2>1, <3>1
    <2>5. Decoded("BOOL", s) = {[x EXCEPT !.value = IF x.value = <<1>> THEN <<1>> ELSE <<0>>]}
        BY <1>5, <2>2
    <2> QED
        BY <1>2, <1>3, <1>6, <2>4, <2>5 DEF Read
<1>7. CASE ~(1 <= Len(s))
    BY <1>2, <1>3, <1>4, <1>5, <1>7 DEF Read
<1> QED
    BY <1>6, <1>7

\* readByte finds the signed byte that writeByte wrote.
LEMMA ByteFound ==
    ASSUME NEW s \in Seq(Int), NEW n \in -128..127, Agrees(s, <<n % 256>>)
    PROVE  Decoded("BYTE", s) = Read(s, <<n % 256>>, <<n>>)
<1>1. PICK b \in Nat : b = n % 256 /\ (IF b < 128 THEN b ELSE b - 256) = n
    OBVIOUS
<1>3. <<b>> \in Seq(Int) /\ Len(<<b>>) = 1
    OBVIOUS
<1>4. BytesAt(s, 1) = Read(s, <<b>>, <<b>>)
    BY <1>1, <1>3, BytesFound DEF Read
<1>5. Decoded("BYTE", s) = {[x EXCEPT !.value = IF x.value[1] < 128 THEN x.value
                                                ELSE <<x.value[1] - 256>>] : x \in BytesAt(s, 1)}
    BY DEF Decoded, Integer
<1>6. CASE 1 <= Len(s)
    <2>1. PICK x : x = [value |-> <<b>>, rest |-> After(s, 1)]
        OBVIOUS
    <2>2. BytesAt(s, 1) = {x}
        BY <1>3, <1>4, <1>6, <2>1 DEF Read
    <2>3. x.value = <<b>> /\ x.value[1] = b
        BY <2>1
    <2>4. [x EXCEPT !.value = IF x.value[1] < 128 THEN x.value ELSE <<x.value[1] - 256>>]
          = [value |-> <<n>>, rest |-> After(s, 1)]
        <3>1. (IF x.value[1] < 128 THEN x.value ELSE <<x.value[1] - 256>>) = <<n>>
            BY <1>1, <2>3
        <3> QED
            BY <2>1, <3>1
    <2>5. Decoded("BYTE", s) = {[x EXCEPT !.value = IF x.value[1] < 128 THEN x.value
                                                    ELSE <<x.value[1] - 256>>]}
        BY <1>5, <2>2
    <2> QED
        BY <1>1, <1>3, <1>6, <2>4, <2>5 DEF Read
<1>7. CASE ~(1 <= Len(s))
    BY <1>1, <1>3, <1>4, <1>5, <1>7 DEF Read
<1> QED
    BY <1>6, <1>7

\* A text: its length, and its bytes.
LEMMA TextFound ==
    ASSUME NEW s \in Seq(Int), NEW v \in Seq(Int), Short(Len(v)), Agrees(s, Text(v))
    PROVE  Text(v) \in Seq(Int) /\ TextAt(s) = Read(s, Text(v), v)
<1>1. PICK n \in Nat : n = Len(v)
    BY LenProperties
<1>2. PICK k \in Nat : k = Len(Varint[n])
    BY VarintBytes
<1>3. Varint[n] \in Seq(Int) /\ Text(v) = Varint[n] \o v
    BY <1>1, VarintType, SeqMonotonic DEF Text
<1>4. /\ Text(v) \in Seq(Int) /\ Len(Text(v)) = k + n
      /\ Agrees(s, Varint[n])
      /\ k <= Len(s) => Agrees(After(s, k), v)
    BY <1>1, <1>2, <1>3, TwoParts
<1>5. VarintAt(s) = Read(s, Varint[n], <<n>>)
    BY <1>1, <1>4, VarintFound DEF Read, Short
<1>6. TextAt(s) = UNION {BytesAt(x.rest, x.value[1]) : x \in Sizes(VarintAt(s))}
    BY DEF TextAt
<1>7. Len(s) \in Nat
    BY LenProperties
<1>8. CASE ~(k <= Len(s))
    <2>1. Sizes(VarintAt(s)) = {} /\ ~(k + n <= Len(s))
        BY <1>2, <1>5, <1>7, <1>8 DEF Read, Sizes
    <2> QED
        BY <1>4, <1>6, <2>1 DEF Read
<1>9. CASE k <= Len(s)
    <2> DEFINE x == [value |-> <<n>>, rest |-> After(s, k)]
    <2>1. VarintAt(s) = {x} /\ x.value[1] = n /\ x.rest = After(s, k)
        BY <1>2, <1>5, <1>9 DEF Read
    <2> HIDE DEF x
    <2>2. Sizes(VarintAt(s)) = {x}
        BY <2>1 DEF Sizes
    <2>3. TextAt(s) = BytesAt(After(s, k), n)
        BY <1>6, <2>1, <2>2
    <2>4. After(s, k) \in Seq(Int) /\ Len(After(s, k)) = Len(s) - k
        BY <1>9, AfterIs
    <2>5. BytesAt(After(s, k), n) = Read(After(s, k), v, v)
        BY <1>1, <1>4, <1>9, <2>4, BytesFound DEF Read
    <2>6. CASE k + n <= Len(s)
        <3>1. After(After(s, k), n) = After(s, k + n) /\ n <= Len(s) - k
            BY <1>7, <2>6, AfterAfter
        <3> QED
            BY <1>1, <1>4, <2>3, <2>4, <2>5, <2>6, <3>1 DEF Read
    <2>7. CASE ~(k + n <= Len(s))
        <3>1. ~(n <= Len(s) - k)
            BY <1>7, <2>7
        <3> QED
            BY <1>1, <1>4, <2>3, <2>4, <2>5, <2>7, <3>1 DEF Read
    <2> QED
        BY <2>6, <2>7
<1> QED
    BY <1>4, <1>8, <1>9

\* Every scalar that the widths of the code allow is read back.
LEMMA ScalarFound ==
    ASSUME NEW s \in Seq(Int), NEW type \in Scalar, NEW v, Carried(type, v),
           Agrees(s, Encoded(type, v))
    PROVE  /\ Encoded(type, v) \in Seq(Int)
           /\ Decoded(type, s) = Read(s, Encoded(type, v), v)
<1>1. CASE type \in Integer
    <2>1. PICK n \in Int : v = <<n>> /\ Short(ZigZag(n))
        BY <1>1 DEF Carried, Integer
    <2> QED
        BY <1>1, <2>1, IntegerFound
<1>2. CASE type = "BOOL"
    <2>1. v \in {<<0>>, <<1>>} /\ Encoded(type, v) = <<BoolCode(v)>>
        BY <1>2 DEF Carried, Encoded, Integer
    <2>2. BoolCode(v) \in Int
        BY DEF BoolCode
    <2>3. <<BoolCode(v)>> \in Seq(Int)
        BY <2>2
    <2>4. Decoded("BOOL", s) = Read(s, <<BoolCode(v)>>, v)
        BY <2>1, BoolFound
    <2> QED
        BY <1>2, <2>1, <2>3, <2>4
<1>3. CASE type = "BYTE"
    <2>1. PICK n \in -128..127 : v = <<n>>
        BY <1>3 DEF Carried, Integer
    <2>2. v[1] = n
        BY <2>1
    <2>3. Encoded(type, v) = <<v[1] % 256>>
        BY <1>3 DEF Encoded, Integer
    <2>4. <<n % 256>> \in Seq(Int)
        OBVIOUS
    <2>6. Agrees(s, <<n % 256>>)
        BY <2>2, <2>3
    <2>5. Decoded("BYTE", s) = Read(s, <<n % 256>>, <<n>>)
        BY <2>6, ByteFound
    <2> QED
        BY <1>3, <2>1, <2>2, <2>3, <2>4, <2>5
<1>4. CASE type = "STRING"
    <2>1. /\ v \in Seq(Int) /\ Short(Len(v)) /\ Encoded(type, v) = Text(v)
          /\ Decoded(type, s) = TextAt(s)
        BY <1>4 DEF Carried, Encoded, Decoded, Integer
    <2> QED
        BY <2>1, TextFound
<1>5. CASE type = "DOUBLE"
    <2>1. v \in Seq(Int) /\ Len(v) = 8 /\ Encoded(type, v) = v /\ Decoded(type, s) = BytesAt(s, 8)
        BY <1>5 DEF Carried, Encoded, Decoded, Integer
    <2> QED
        BY <2>1, BytesFound DEF Read
<1> QED
    BY <1>1, <1>2, <1>3, <1>4, <1>5 DEF Scalar, Types, Integer, Collection

-----------------------------------------------------------------------------
(* Headers of fields. *)

\* The first byte.
LEMMA ByteAt ==
    ASSUME NEW s \in Seq(Int), NEW b \in Int, Agrees(s, <<b>>)
    PROVE  /\ 1 <= Len(s) => BytesAt(s, 1) = {[value |-> <<b>>, rest |-> After(s, 1)]}
           /\ ~(1 <= Len(s)) => BytesAt(s, 1) = {}
<1>1. <<b>> \in Seq(Int) /\ Len(<<b>>) = 1
    OBVIOUS
<1> QED
    BY <1>1, BytesFound

OnlyType(c, t) == TypesOf(c) = {t}

\* Every type has a code between 1 and 12, from which getTType gets that type only;
\* the two codes of a boolean field both mean BOOL.
LEMMA TypeCodes ==
    /\ \A t \in Types : CType[t] \in 1..12 /\ OnlyType(CType[t], t)
    /\ \A v : BoolCode(v) \in 1..12 /\ OnlyType(BoolCode(v), "BOOL")
<1>1. \A t \in Types : CType[t] \in 1..12 /\ TypesOf(CType[t]) = {t}
    BY DEF CType, Types, TypesOf, BoolCode
<1>2. TypesOf(1) = {"BOOL"} /\ TypesOf(2) = {"BOOL"}
    BY DEF CType, Types, TypesOf, BoolCode
<1>3. \A v : BoolCode(v) \in {1, 2}
    BY DEF BoolCode
<1> QED
    BY <1>1, <1>2, <1>3 DEF OnlyType

\* One of the alternatives of FieldAt.
StopIn(code, last, r) == {[types |-> {}, code |-> code, id |-> last, rest |-> r]}
ShortIn(code, id, r) ==
    {[types |-> {t}, code |-> code, id |-> id, rest |-> r] : t \in TypesOf(code)}
LongIn(code, r) ==
    {[types |-> {t}, code |-> code, id |-> y.value[1], rest |-> y.rest] :
        t \in TypesOf(code), y \in Decoded("I16", r)}
FieldIn(x, last) ==
    IF x.value[1] % 16 = 0 THEN StopIn(x.value[1] % 16, last, x.rest)
    ELSE IF x.value[1] \div 16 # 0
    THEN ShortIn(x.value[1] % 16, last + (x.value[1] \div 16), x.rest)
    ELSE LongIn(x.value[1] % 16, x.rest)

\* readFieldBegin goes on with its first byte, or throws when there is none.
LEMMA FieldFirst ==
    ASSUME NEW s \in Seq(Int), NEW b \in Int, NEW last, Agrees(s, <<b>>)
    PROVE  /\ 1 <= Len(s) => FieldAt(s, last) = FieldIn([value |-> <<b>>, rest |-> After(s, 1)], last)
           /\ ~(1 <= Len(s)) => FieldAt(s, last) = {}
<1>1. FieldAt(s, last) = UNION {FieldIn(x, last) : x \in BytesAt(s, 1)}
    BY DEF FieldAt, FieldIn, StopIn, ShortIn, LongIn
<1> QED
    BY <1>1, ByteAt

FieldRead(s, e, types, code, id) ==
    IF Len(e) <= Len(s)
    THEN {[types |-> types, code |-> code, id |-> id, rest |-> After(s, Len(e))]} ELSE {}

\* The end of a struct.
LEMMA StopFound ==
    ASSUME NEW s \in Seq(Int), NEW last, Agrees(s, << 0 >>)
    PROVE  FieldAt(s, last) = FieldRead(s, <<0>>, {}, 0, last)
<1>0. Len(<<0>>) = 1
    OBVIOUS
<1>1. PICK x : x = [value |-> <<0>>, rest |-> After(s, 1)]
    OBVIOUS
<1>2. x.value[1] = 0 /\ x.rest = After(s, 1)
    BY <1>1
<1>3. x.value[1] % 16 = 0
    BY <1>2
<1>4. FieldIn(x, last) = {[types |-> {}, code |-> 0, id |-> last, rest |-> After(s, 1)]}
    BY <1>2, <1>3 DEF FieldIn, StopIn
<1> QED
    BY <1>0, <1>1, <1>4, FieldFirst DEF FieldRead

\* A header of the short form.
LEMMA ShortFound ==
    ASSUME NEW s \in Seq(Int), NEW last \in Int, NEW d \in 1..15, NEW c \in 1..12,
           NEW t, OnlyType(c, t), Agrees(s, <<16 * d + c>>)
    PROVE  FieldAt(s, last) = IF 1 <= Len(s)
               THEN {[types |-> {t}, code |-> c, id |-> last + d, rest |-> After(s, 1)]} ELSE {}
<1>1. PICK b \in Int : b = 16 * d + c /\ b % 16 = c /\ b \div 16 = d
    <2>1. PICK b \in Int : b = 16 * d + c
        OBVIOUS
    <2>2. b % 16 = c
        BY <2>1
    <2>3. b \div 16 = d
        BY <2>1
    <2> QED
        BY <2>1, <2>2, <2>3
<1>2. PICK x : x = [value |-> <<b>>, rest |-> After(s, 1)]
    OBVIOUS
<1>3. x.value[1] = b /\ x.rest = After(s, 1)
    BY <1>2
<1>4. x.value[1] % 16 = c /\ x.value[1] \div 16 = d /\ c # 0 /\ d # 0
    BY <1>1, <1>3
<1>5. FieldIn(x, last) = ShortIn(c, last + d, After(s, 1))
    BY <1>3, <1>4 DEF FieldIn
<1>6. FieldIn(x, last) = {[types |-> {t}, code |-> c, id |-> last + d, rest |-> After(s, 1)]}
    BY <1>5 DEF ShortIn, OnlyType
<1> QED
    BY <1>1, <1>2, <1>6, FieldFirst

\* The bytes w are a header, and read as what was written.
HeaderIs(s, last, w, t, c, id) ==
    w \in Seq(Int) /\ FieldAt(s, last) = FieldRead(s, w, {t}, c, id)

\* A header of the long form.
LEMMA LongFound ==
    ASSUME NEW s \in Seq(Int), NEW last \in Int, NEW id \in Int, Short(ZigZag(id)), NEW c \in 1..12,
           NEW t, OnlyType(c, t), NEW w, w = <<c>> \o Encoded("I16", <<id>>), Agrees(s, w)
    PROVE  HeaderIs(s, last, w, t, c, id)
<1>1. PICK e : e = Encoded("I16", <<id>>) /\ w = <<c>> \o e
    OBVIOUS
<1>2. e \in Seq(Int)
    <2>1. <<id>>[1] = id /\ ZigZag(id) \in Nat
        BY ZigZagBack
    <2>2. Encoded("I16", <<id>>) = Varint[ZigZag(<<id>>[1])]
        BY DEF Encoded, Integer
    <2>3. Varint[ZigZag(id)] \in Seq(Int)
        BY <2>1, VarintType, SeqMonotonic
    <2> QED
        BY <1>1, <2>1, <2>2, <2>3
<1>3. <<c>> \in Seq(Int) /\ Len(<<c>>) = 1
    OBVIOUS
<1>4. Len(s) \in Nat /\ Len(e) \in Nat
    BY <1>2, LenProperties
<1>5. /\ <<c>> \o e \in Seq(Int) /\ Len(<<c>> \o e) = 1 + Len(e) /\ Agrees(s, <<c>>)
      /\ 1 <= Len(s) => Agrees(After(s, 1), e)
    <2>1. Agrees(s, <<c>> \o e)
        BY <1>1
    <2> QED
        <3>1. <<c>> \o e \in Seq(Int)
            BY <1>2, <1>3, <2>1, TwoParts
        <3>2. Len(<<c>> \o e) = 1 + Len(e)
            BY <1>2, <1>3, <2>1, TwoParts
        <3>3. Agrees(s, <<c>>)
            BY <1>2, <1>3, <2>1, TwoParts
        <3>4. 1 <= Len(s) => Agrees(After(s, 1), e)
            BY <1>2, <1>3, <2>1, TwoParts
        <3> QED
            BY <3>1, <3>2, <3>3, <3>4
<1>6. CASE ~(1 <= Len(s))
    <2>1. FieldAt(s, last) = {}
        <3>1. c \in Int
            OBVIOUS
        <3> QED
            BY <1>5, <1>6, <3>1, FieldFirst
    <2>2. ~(Len(<<c>> \o e) <= Len(s))
        BY <1>4, <1>5, <1>6
    <2> QED
        BY <1>1, <1>5, <2>1, <2>2 DEF FieldRead, HeaderIs
<1>7. CASE 1 <= Len(s)
    <2>1. PICK r : r = After(s, 1)
        OBVIOUS
    <2>2. r \in Seq(Int) /\ Len(r) = Len(s) - 1 /\ Agrees(r, e)
        BY <1>5, <1>7, <2>1, AfterIs
    <2>3. Decoded("I16", r) = Read(r, e, <<id>>)
        BY <1>1, <2>2, IntegerFound DEF Integer
    <2>4. PICK x : x = [value |-> <<c>>, rest |-> r]
        OBVIOUS
    <2>5. x.value[1] = c /\ x.rest = r
        BY <2>4
    <2>6. x.value[1] % 16 = c /\ x.value[1] \div 16 = 0 /\ c # 0
        BY <2>5
    <2>7. FieldIn(x, last) = LongIn(c, r)
        BY <2>5, <2>6 DEF FieldIn
    <2>8. FieldAt(s, last) = FieldIn(x, last)
        BY <1>5, <1>7, <2>1, <2>4, FieldFirst
    <2>9. CASE ~(Len(e) <= Len(r))
        <3>1. Decoded("I16", r) = {}
            BY <2>3, <2>9 DEF Read
        <3>2. FieldAt(s, last) = {}
            BY <2>7, <2>8, <3>1 DEF LongIn
        <3>3. ~(Len(<<c>> \o e) <= Len(s))
            BY <1>4, <1>5, <2>2, <2>9
        <3> QED
            BY <1>1, <1>5, <3>2, <3>3 DEF FieldRead, HeaderIs
    <2>10. CASE Len(e) <= Len(r)
        <3>1. PICK y : y = [value |-> <<id>>, rest |-> After(r, Len(e))]
            OBVIOUS
        <3>2. Decoded("I16", r) = {y} /\ y.value[1] = id
            BY <2>3, <2>10, <3>1 DEF Read
        <3>3. FieldAt(s, last) = {[types |-> {t}, code |-> c, id |-> y.value[1], rest |-> y.rest]}
            BY <2>7, <2>8, <3>2 DEF LongIn, OnlyType
        <3>4. After(r, Len(e)) = After(s, 1 + Len(e))
            BY <1>4, <2>1, <2>2, <2>10, AfterAfter
        <3>5. y.rest = After(s, 1 + Len(e)) /\ 1 + Len(e) <= Len(s)
            BY <1>4, <2>2, <2>10, <3>1, <3>4
        <3> QED
            BY <1>1, <1>5, <3>2, <3>3, <3>5 DEF FieldRead, HeaderIs
    <2> QED
        BY <2>9, <2>10
<1> QED
    BY <1>6, <1>7

\* The short form, for an id of any size.
LEMMA ShortHeaderFound ==
    ASSUME NEW s \in Seq(Int), NEW last \in Int, NEW id \in Int, id > last, id - last <= 15,
           NEW c \in 1..12, NEW t, OnlyType(c, t), Agrees(s, FieldHeader(c, id, last))
    PROVE  /\ FieldHeader(c, id, last) \in Seq(Int)
           /\ FieldAt(s, last) = FieldRead(s, FieldHeader(c, id, last), {t}, c, id)
<1>1. PICK d \in 1..15 : d = id - last /\ last + d = id
    OBVIOUS
<1>2. FieldHeader(c, id, last) = <<16 * d + c>>
    BY <1>1 DEF FieldHeader
<1>3. <<16 * d + c>> \in Seq(Int) /\ Len(<<16 * d + c>>) = 1
    OBVIOUS
<1>4. FieldAt(s, last) = IF 1 <= Len(s)
          THEN {[types |-> {t}, code |-> c, id |-> last + d, rest |-> After(s, 1)]} ELSE {}
    BY <1>2, ShortFound
<1> QED
    BY <1>1, <1>2, <1>3, <1>4 DEF FieldRead

\* The header of a field gives back its type, its code and its id, whatever id came before.
LEMMA HeaderFound ==
    ASSUME NEW s \in Seq(Int), NEW last \in Int, NEW id \in Int, Short(ZigZag(id)), NEW c \in 1..12,
           NEW t, OnlyType(c, t), Agrees(s, FieldHeader(c, id, last))
    PROVE  /\ FieldHeader(c, id, last) \in Seq(Int)
           /\ FieldAt(s, last) = FieldRead(s, FieldHeader(c, id, last), {t}, c, id)
<1>1. CASE id > last /\ id - last <= 15
    <2>1. FieldHeader(c, id, last) \in Seq(Int)
        BY <1>1, ShortHeaderFound
    <2>2. FieldAt(s, last) = FieldRead(s, FieldHeader(c, id, last), {t}, c, id)
        BY <1>1, ShortHeaderFound
    <2> QED
        BY <2>1, <2>2
<1>2. CASE ~(id > last /\ id - last <= 15)
    <2>1. FieldHeader(c, id, last) = <<c>> \o Encoded("I16", <<id>>)
        BY <1>2 DEF FieldHeader
    <2>2. PICK w : w = FieldHeader(c, id, last)
        OBVIOUS
    <2>3. w = <<c>> \o Encoded("I16", <<id>>) /\ Agrees(s, w)
        BY <2>1, <2>2
    <2>4. HeaderIs(s, last, w, t, c, id)
        BY <2>3, LongFound
    <2> QED
        BY <2>2, <2>4 DEF HeaderIs
<1> QED
    BY <1>1, <1>2

-----------------------------------------------------------------------------
(* Headers of lists, sets and maps. *)

\* A size that fits ten bytes is read back from its varint.
LEMMA SizeFound ==
    ASSUME NEW s \in Seq(Int), NEW n \in Nat, Short(n), Agrees(s, Varint[n])
    PROVE  /\ VarintAt(s) = Read(s, Varint[n], <<n>>)
           /\ Sizes(VarintAt(s)) = Read(s, Varint[n], <<n>>)
<1>1. VarintAt(s) = Read(s, Varint[n], <<n>>)
    BY VarintFound DEF Read, Short
<1>2. PICK x : x = [value |-> <<n>>, rest |-> After(s, Len(Varint[n]))]
    OBVIOUS
<1>3. x.value[1] = n
    BY <1>2
<1>4. CASE Len(Varint[n]) <= Len(s)
    <2>1. VarintAt(s) = {x} /\ Read(s, Varint[n], <<n>>) = {x}
        BY <1>1, <1>2, <1>4 DEF Read
    <2> QED
        BY <1>1, <1>3, <2>1 DEF Sizes
<1>5. CASE ~(Len(Varint[n]) <= Len(s))
    <2>1. VarintAt(s) = {} /\ Read(s, Varint[n], <<n>>) = {}
        BY <1>1, <1>5 DEF Read
    <2> QED
        BY <2>1 DEF Sizes
<1> QED
    BY <1>1, <1>4, <1>5

\* The header of a list, a set or a map, and what follows it.
SizedRead(s, e, types, size) ==
    IF Len(e) <= Len(s) THEN {[types |-> types, size |-> size, rest |-> After(s, Len(e))]} ELSE {}

SizedIn(types, sizes) ==
    {[types |-> <<t>>, size |-> y.value[1], rest |-> y.rest] : t \in types, y \in sizes}
CollectionIn(x) ==
    SizedIn(TypesOf(x.value[1] % 16),
            Sizes(IF x.value[1] \div 16 = 15 THEN VarintAt(x.rest)
                  ELSE {[value |-> <<x.value[1] \div 16>>, rest |-> x.rest]}))

\* For one type and one size there is one header of a list or set.
LEMMA OneSize ==
    ASSUME NEW t, NEW y
    PROVE  SizedIn({t}, {y}) = {[types |-> <<t>>, size |-> y.value[1], rest |-> y.rest]}
BY DEF SizedIn

\* A header of a list or a set is read back, whether the size is in its first byte or after it.
LEMMA CollectionReadBack ==
    ASSUME NEW s \in Seq(Int), NEW type \in Types, NEW size \in Nat, Short(size),
           Agrees(s, CollectionHeader(type, size))
    PROVE  /\ CollectionHeader(type, size) \in Seq(Int)
           /\ CollectionAt(s) = SizedRead(s, CollectionHeader(type, size), <<type>>, size)
<1>1. CollectionAt(s) = UNION {CollectionIn(x) : x \in BytesAt(s, 1)}
    BY DEF CollectionAt, CollectionIn, SizedIn
<1>2. PICK c \in 1..12 : c = CType[type] /\ TypesOf(c) = {type}
    BY TypeCodes DEF OnlyType
<1>3. Len(s) \in Nat
    BY LenProperties
<1>4. CASE size <= 14
    <2>1. PICK b \in Int : b = 16 * size + c /\ b % 16 = c /\ b \div 16 = size
        BY <1>4
    <2>2. CollectionHeader(type, size) = <<b>> /\ <<b>> \in Seq(Int) /\ Len(<<b>>) = 1
        BY <1>2, <1>4, <2>1 DEF CollectionHeader
    <2>3. CASE ~(1 <= Len(s))
        BY <1>1, <2>2, <2>3, ByteAt DEF SizedRead
    <2>4. CASE 1 <= Len(s)
        <3>1. PICK x : x = [value |-> <<b>>, rest |-> After(s, 1)]
            OBVIOUS
        <3>2. CollectionAt(s) = CollectionIn(x)
            BY <1>1, <2>2, <2>4, <3>1, ByteAt
        <3>3. x.value[1] = b /\ x.rest = After(s, 1)
            BY <3>1
        <3>4. CollectionIn(x) = SizedIn(TypesOf(c), Sizes({[value |-> <<size>>, rest |-> After(s, 1)]}))
            <4>1. x.value[1] % 16 = c /\ x.value[1] \div 16 = size /\ size # 15
                BY <1>4, <2>1, <3>3
            <4> HIDE <1>4, <2>1
            <4> QED
                BY <3>3, <4>1 DEF CollectionIn
        <3>5. PICK y : y = [value |-> <<size>>, rest |-> After(s, 1)]
            OBVIOUS
        <3>6. y.value[1] = size /\ y.rest = After(s, 1)
            BY <3>5
        <3>7. Sizes({y}) = {y}
            BY <3>6 DEF Sizes
        <3>8. SizedIn(TypesOf(c), Sizes({y})) = {[types |-> <<type>>, size |-> size, rest |-> y.rest]}
            <4>1. SizedIn(TypesOf(c), Sizes({y})) = SizedIn({type}, {y})
                BY <1>2, <3>7
            <4> QED
                BY <3>6, <4>1, OneSize
        <3> QED
            BY <2>2, <2>4, <3>2, <3>4, <3>5, <3>6, <3>8 DEF SizedRead
    <2> QED
        BY <2>3, <2>4
<1>5. CASE ~(size <= 14)
    <2>1. PICK b \in Int : b = 16 * 15 + c /\ b % 16 = c /\ b \div 16 = 15
        OBVIOUS
    <2>2. PICK e : e = Varint[size]
        OBVIOUS
    <2>3. e \in Seq(Int) /\ <<b>> \in Seq(Int) /\ Len(<<b>>) = 1
        BY <2>2, VarintType, SeqMonotonic
    <2>4. CollectionHeader(type, size) = <<b>> \o e
        BY <1>2, <1>5, <2>1, <2>2 DEF CollectionHeader
    <2>5. /\ <<b>> \o e \in Seq(Int) /\ Len(<<b>> \o e) = 1 + Len(e) /\ Agrees(s, <<b>>)
          /\ 1 <= Len(s) => Agrees(After(s, 1), e)
        <3>1. Agrees(s, <<b>> \o e)
            BY <2>4
        <3> QED
            BY <2>3, <3>1, TwoParts
    <2>6. Len(e) \in Nat
        BY <2>3, LenProperties
    <2>7. CASE ~(1 <= Len(s))
        <3>1. CollectionAt(s) = {}
            BY <1>1, <2>5, <2>7, ByteAt
        <3>2. ~(Len(<<b>> \o e) <= Len(s))
            BY <1>3, <2>5, <2>6, <2>7
        <3> QED
            BY <2>4, <2>5, <3>1, <3>2 DEF SizedRead
    <2>8. CASE 1 <= Len(s)
        <3>1. PICK r : r = After(s, 1)
            OBVIOUS
        <3>2. r \in Seq(Int) /\ Len(r) = Len(s) - 1 /\ Agrees(r, e)
            BY <2>5, <2>8, <3>1, AfterIs
        <3>3. PICK x : x = [value |-> <<b>>, rest |-> r]
            OBVIOUS
        <3>4. CollectionAt(s) = CollectionIn(x)
            BY <1>1, <2>5, <2>8, <3>1, <3>3, ByteAt
        <3>5. x.value[1] = b /\ x.rest = r
            BY <3>3
        <3>6. CollectionIn(x) = SizedIn(TypesOf(c), Sizes(VarintAt(r)))
            BY <2>1, <3>5 DEF CollectionIn
        <3>7. Sizes(VarintAt(r)) = Read(r, e, <<size>>)
            BY <2>2, <3>2, SizeFound
        <3>8. CASE ~(Len(e) <= Len(r))
            <4>1. CollectionAt(s) = {}
                BY <3>4, <3>6, <3>7, <3>8 DEF SizedIn, Read
            <4>2. ~(Len(<<b>> \o e) <= Len(s))
                BY <1>3, <2>5, <2>6, <3>2, <3>8
            <4> QED
                BY <2>4, <2>5, <4>1, <4>2 DEF SizedRead
        <3>9. CASE Len(e) <= Len(r)
            <4>1. PICK y : y = [value |-> <<size>>, rest |-> After(r, Len(e))]
                OBVIOUS
            <4>2. Sizes(VarintAt(r)) = {y} /\ y.value[1] = size
                BY <3>7, <3>9, <4>1 DEF Read
            <4>3. SizedIn(TypesOf(c), Sizes(VarintAt(r))) = {[types |-> <<type>>, size |-> size, rest |-> y.rest]}
                <5>1. SizedIn(TypesOf(c), Sizes(VarintAt(r))) = SizedIn({type}, {y})
                    BY <1>2, <4>2
                <5> QED
                    BY <4>2, <5>1, OneSize
            <4>4. After(r, Len(e)) = After(s, 1 + Len(e)) /\ 1 + Len(e) <= Len(s)
                BY <1>3, <2>6, <3>1, <3>2, <3>9, AfterAfter
            <4>5. y.rest = After(s, 1 + Len(e))
                BY <4>1, <4>4
            <4> QED
                BY <2>4, <2>5, <3>4, <3>6, <4>3, <4>4, <4>5 DEF SizedRead
        <3> QED
            BY <3>8, <3>9
    <2> QED
        BY <2>7, <2>8
<1> QED
    BY <1>4, <1>5

PairIn(keys, vals, size, r) ==
    {[types |-> <<k, v>>, size |-> size, rest |-> r] : k \in keys, v \in vals}
PairsIn(size, y) == PairIn(TypesOf(y.value[1] \div 16), TypesOf(y.value[1] % 16), size, y.rest)
MapIn(x) ==
    IF x.value = <<0>> THEN {[types |-> <<>>, size |-> 0, rest |-> x.rest]}
    ELSE UNION {PairsIn(x.value[1], y) : y \in BytesAt(x.rest, 1)}

\* For one pair of types there is one header of a map.
LEMMA OnePair ==
    ASSUME NEW k, NEW v, NEW size, NEW r
    PROVE  PairIn({k}, {v}, size, r) = {[types |-> <<k, v>>, size |-> size, rest |-> r]}
BY DEF PairIn

\* A header of a map is read back, the empty one from its only byte.
LEMMA MapReadBack ==
    ASSUME NEW s \in Seq(Int), NEW key \in Types, NEW val \in Types, NEW size \in Nat, Short(size),
           Agrees(s, MapHeader(key, val, size))
    PROVE  /\ MapHeader(key, val, size) \in Seq(Int)
           /\ MapAt(s) = SizedRead(s, MapHeader(key, val, size),
                                   IF size = 0 THEN <<>> ELSE <<key, val>>, size)
<1>1. MapAt(s) = UNION {MapIn(x) : x \in Sizes(VarintAt(s))}
    BY DEF MapAt, MapIn, PairsIn, PairIn
<1>2. PICK e : e = Varint[size]
    OBVIOUS
<1>3. Len(s) \in Nat /\ e \in Seq(Int) /\ Len(e) \in Nat
    BY <1>2, VarintType, SeqMonotonic, LenProperties
<1>4. CASE size = 0
    <2>1. MapHeader(key, val, size) = <<0>> /\ <<0>> \in Seq(Int)
        BY <1>4 DEF MapHeader
    <2>2. e = <<0>>
        <3>1. 0 \in Nat /\ 0 < 128
            OBVIOUS
        <3>2. Varint[0] = <<0>>
            BY <3>1, VarintDef
        <3> QED
            BY <1>2, <1>4, <3>2
    <2>3. Sizes(VarintAt(s)) = Read(s, e, <<0>>)
        <3>1. Agrees(s, Varint[size])
            BY <1>2, <2>1, <2>2
        <3> QED
            BY <1>2, <1>4, <3>1, SizeFound
    <2>4. CASE ~(Len(e) <= Len(s))
        <3>1. Sizes(VarintAt(s)) = {}
            BY <2>3, <2>4 DEF Read
        <3> QED
            BY <1>1, <2>1, <2>2, <2>4, <3>1 DEF SizedRead
    <2>5. CASE Len(e) <= Len(s)
        <3>1. PICK x : x = [value |-> <<0>>, rest |-> After(s, Len(e))]
            OBVIOUS
        <3>2. Sizes(VarintAt(s)) = {x}
            BY <2>3, <2>5, <3>1 DEF Read
        <3>3. x.value = <<0>> /\ x.rest = After(s, Len(e))
            BY <3>1
        <3>4. MapIn(x) = {[types |-> <<>>, size |-> 0, rest |-> After(s, Len(e))]}
            BY <3>3 DEF MapIn
        <3>5. MapAt(s) = MapIn(x)
            BY <1>1, <3>2
        <3> QED
            BY <1>4, <2>1, <2>2, <2>5, <3>4, <3>5 DEF SizedRead
    <2> QED
        BY <2>4, <2>5
<1>5. CASE size # 0
    <2>1. PICK b \in Int : /\ b = 16 * CType[key] + CType[val]
                           /\ TypesOf(b \div 16) = {key} /\ TypesOf(b % 16) = {val}
        <3>1. PICK c \in 1..12, d \in 1..12 :
                 c = CType[key] /\ d = CType[val] /\ TypesOf(c) = {key} /\ TypesOf(d) = {val}
            BY TypeCodes DEF OnlyType
        <3>2. PICK b \in Int : b = 16 * c + d /\ b \div 16 = c /\ b % 16 = d
            OBVIOUS
        <3> QED
            BY <3>1, <3>2
    <2>2. MapHeader(key, val, size) = e \o <<b>> /\ <<b>> \in Seq(Int) /\ Len(<<b>>) = 1
        BY <1>2, <1>5, <2>1 DEF MapHeader
    <2>3. /\ e \o <<b>> \in Seq(Int) /\ Len(e \o <<b>>) = Len(e) + 1 /\ Agrees(s, e)
          /\ Len(e) <= Len(s) => Agrees(After(s, Len(e)), <<b>>)
        <3>1. Agrees(s, e \o <<b>>)
            BY <2>2
        <3> QED
            BY <1>3, <2>2, <3>1, TwoParts
    <2>4. Sizes(VarintAt(s)) = Read(s, e, <<size>>)
        BY <1>2, <2>3, SizeFound
    <2>5. CASE ~(Len(e) <= Len(s))
        <3>1. MapAt(s) = {}
            BY <1>1, <2>4, <2>5 DEF Read
        <3>2. ~(Len(e \o <<b>>) <= Len(s))
            BY <1>3, <2>3, <2>5
        <3> QED
            BY <2>2, <2>3, <3>1, <3>2 DEF SizedRead
    <2>6. CASE Len(e) <= Len(s)
        <3>1. PICK r : r = After(s, Len(e))
            OBVIOUS
        <3>2. r \in Seq(Int) /\ Len(r) = Len(s) - Len(e) /\ Agrees(r, <<b>>)
            BY <1>3, <2>3, <2>6, <3>1, AfterIs
        <3>3. PICK x : x = [value |-> <<size>>, rest |-> r]
            OBVIOUS
        <3>4. Sizes(VarintAt(s)) = {x}
            BY <2>4, <2>6, <3>1, <3>3 DEF Read
        <3>5. x.value = <<size>> /\ x.value[1] = size /\ x.rest = r
            BY <3>3
        <3>6. x.value # <<0>>
            <4>1. x.value = <<0>> => x.value[1] = 0
                OBVIOUS
            <4> QED
                BY <1>5, <3>5, <4>1
        <3>7. MapAt(s) = UNION {PairsIn(size, y) : y \in BytesAt(r, 1)}
            <4>1. MapAt(s) = MapIn(x)
                BY <1>1, <3>4
            <4> QED
                BY <3>5, <3>6, <4>1 DEF MapIn
        <3>8. CASE ~(1 <= Len(r))
            <4>1. MapAt(s) = {}
                BY <3>2, <3>7, <3>8, ByteAt
            <4>2. ~(Len(e \o <<b>>) <= Len(s))
                BY <1>3, <2>3, <3>2, <3>8
            <4> QED
                BY <2>2, <2>3, <4>1, <4>2 DEF SizedRead
        <3>9. CASE 1 <= Len(r)
            <4>1. PICK y : y = [value |-> <<b>>, rest |-> After(r, 1)]
                OBVIOUS
            <4>2. BytesAt(r, 1) = {y}
                BY <3>2, <3>9, <4>1, ByteAt
            <4>3. y.value[1] = b
                BY <4>1
            <4>4. MapAt(s) = PairsIn(size, y)
                BY <3>7, <4>2
            <4>5. MapAt(s) = PairIn({key}, {val}, size, y.rest)
                BY <2>1, <4>3, <4>4 DEF PairsIn
            <4>6. After(r, 1) = After(s, Len(e) + 1) /\ Len(e) + 1 <= Len(s)
                BY <1>3, <3>1, <3>2, <3>9, AfterAfter
            <4>7. y.rest = After(s, Len(e) + 1)
                BY <4>1, <4>6
            <4>8. MapAt(s) = {[types |-> <<key, val>>, size |-> size, rest |-> y.rest]}
                BY <4>5, OnePair
            <4> QED
                BY <1>5, <2>2, <2>3, <4>6, <4>7, <4>8 DEF SizedRead
        <3> QED
            BY <3>8, <3>9
    <2> QED
        BY <2>5, <2>6
<1> QED
    BY <1>4, <1>5

-----------------------------------------------------------------------------
(* The header of a message. *)

NamesIn(type, q) ==
    {[name |-> n.value, seqid |-> q.value[1], type |-> type, rest |-> n.rest] : n \in TextAt(q.rest)}
MessageIn(h) ==
    IF h.value[1] # ProtocolId \/ h.value[2] % 32 # Version THEN {}
    ELSE UNION {NamesIn(h.value[2] \div 32, q) : q \in VarintAt(h.rest)}

MessageRead(s, e, name, type, seqid) ==
    IF Len(e) <= Len(s)
    THEN {[name |-> name, seqid |-> seqid, type |-> type, rest |-> After(s, Len(e))]} ELSE {}

\* readMessageBegin finds the type, the sequence number and the name of writeMessageBegin.
LEMMA MessageReadBack ==
    ASSUME NEW s \in Seq(Int), NEW name \in Seq(Int), Short(Len(name)),
           NEW type, MessageType[type] \in 1..4, NEW seqid \in Nat, Short(seqid),
           Agrees(s, MessageHeader(name, type, seqid))
    PROVE  /\ MessageHeader(name, type, seqid) \in Seq(Int)
           /\ MessageAt(s) = MessageRead(s, MessageHeader(name, type, seqid),
                                         name, MessageType[type], seqid)
<1>1. MessageAt(s) = UNION {MessageIn(h) : h \in BytesAt(s, 2)}
    BY DEF MessageAt, MessageIn, NamesIn
<1>2. PICK m \in 1..4, b \in Int : /\ m = MessageType[type] /\ b = 32 * m + Version
                                    /\ b % 32 = Version /\ b \div 32 = m
    <2>1. PICK m \in 1..4 : m = MessageType[type]
        OBVIOUS
    <2>2. PICK b \in Int : b = 32 * m + Version /\ b % 32 = Version /\ b \div 32 = m
        BY DEF Version
    <2> QED
        BY <2>1, <2>2
<1>3. PICK a : a = <<ProtocolId, b>>
    OBVIOUS
<1>4. a \in Seq(Int)
    BY <1>3 DEF ProtocolId
<1>16. Len(a) = 2 /\ a[1] = ProtocolId /\ a[2] = b
    BY <1>3
<1>5. PICK e, w : e = Varint[seqid] /\ w = Text(name)
    OBVIOUS
<1>6. e \in Seq(Int) /\ Len(e) \in Nat /\ Len(s) \in Nat
    BY <1>5, VarintType, SeqMonotonic, LenProperties
<1>7. MessageHeader(name, type, seqid) = (a \o e) \o w
    BY <1>2, <1>3, <1>5 DEF MessageHeader
<1>8. w \in Seq(Int) /\ Len(w) \in Nat
    <2>1. Varint[Len(name)] \in Seq(Int)
        BY VarintType, SeqMonotonic, LenProperties
    <2>2. Text(name) \in Seq(Int)
        BY <2>1, ConcatProperties DEF Text
    <2> QED
        BY <1>5, <2>2, LenProperties
<1>9. PICK d : d = a \o e
    OBVIOUS
<1>10. d \in Seq(Int) /\ Len(d) \in Nat
    BY <1>4, <1>6, <1>9, ConcatProperties, LenProperties
<1>17. Len(d) = 2 + Len(e)
    <2>1. d \in Seq(Int) /\ Len(d) = Len(a) + Len(e)
        BY <1>4, <1>6, <1>9, ConcatProperties
    <2> QED
        BY <1>16, <2>1
<1>11. /\ d \o w \in Seq(Int) /\ Len(d \o w) = Len(d) + Len(w) /\ Agrees(s, d)
       /\ Len(d) <= Len(s) => Agrees(After(s, Len(d)), w)
    <2>1. Agrees(s, d \o w)
        BY <1>7, <1>9
    <2> QED
        BY <1>8, <1>10, <2>1, TwoParts
<1>12. /\ Agrees(s, a)
       /\ 2 <= Len(s) => Agrees(After(s, 2), e)
    <2>1. Agrees(s, a \o e)
        BY <1>9, <1>11
    <2>2. Agrees(s, a) /\ (Len(a) <= Len(s) => Agrees(After(s, Len(a)), e))
        BY <1>4, <1>6, <2>1, TwoParts
    <2> QED
        BY <1>16, <2>2
<1>13. BytesAt(s, 2) = Read(s, a, a)
    <2>1. BytesAt(s, Len(a)) = Read(s, a, a)
        BY <1>4, <1>12, BytesFound DEF Read
    <2> QED
        BY <1>16, <2>1
<1>14. CASE ~(2 <= Len(s))
    <2>1. MessageAt(s) = {}
        BY <1>1, <1>13, <1>14, <1>16 DEF Read
    <2>2. ~(Len(d \o w) <= Len(s))
        BY <1>6, <1>8, <1>10, <1>17, <1>11, <1>14
    <2> QED
        BY <1>7, <1>9, <1>11, <2>1, <2>2 DEF MessageRead
<1>15. CASE 2 <= Len(s)
    <2>1. PICK r : r = After(s, 2)
        OBVIOUS
    <2>2. r \in Seq(Int) /\ Len(r) = Len(s) - 2 /\ Agrees(r, e)
        BY <1>12, <1>15, <2>1, AfterIs
    <2>3. PICK h : h = [value |-> a, rest |-> r]
        OBVIOUS
    <2>4. BytesAt(s, 2) = {h} /\ h.value = a /\ h.rest = r
        BY <1>13, <1>15, <1>16, <2>1, <2>3 DEF Read
    <2>5. MessageAt(s) = UNION {NamesIn(m, q) : q \in VarintAt(r)}
        <3>1. MessageAt(s) = MessageIn(h)
            BY <1>1, <2>4
        <3>2. /\ h.value[1] = ProtocolId /\ h.value[2] % 32 = Version
              /\ h.value[2] \div 32 = m
            BY <1>2, <1>16, <2>4
        <3> QED
            BY <2>4, <3>1, <3>2 DEF MessageIn
    <2>6. VarintAt(r) = Read(r, e, <<seqid>>)
        BY <1>5, <2>2, SizeFound
    <2>7. CASE ~(Len(e) <= Len(r))
        <3>1. MessageAt(s) = {}
            BY <2>5, <2>6, <2>7 DEF Read
        <3>2. ~(Len(d \o w) <= Len(s))
            BY <1>6, <1>8, <1>10, <1>17, <1>11, <2>2, <2>7
        <3> QED
            BY <1>7, <1>9, <1>11, <3>1, <3>2 DEF MessageRead
    <2>8. CASE Len(e) <= Len(r)
        <3>1. PICK t : t = After(r, Len(e))
            OBVIOUS
        <3>2. PICK q : q = [value |-> <<seqid>>, rest |-> t]
            OBVIOUS
        <3>3. VarintAt(r) = {q} /\ q.value[1] = seqid /\ q.rest = t
            BY <2>6, <2>8, <3>1, <3>2 DEF Read
        <3>4. MessageAt(s) = {[name |-> n.value, seqid |-> seqid, type |-> m, rest |-> n.rest] :
                                 n \in TextAt(t)}
            <4>1. MessageAt(s) = NamesIn(m, q)
                BY <2>5, <3>3
            <4> QED
                BY <3>3, <4>1 DEF NamesIn
        <3>5. t = After(s, Len(d)) /\ Len(d) <= Len(s)
            BY <1>6, <1>10, <1>17, <2>1, <2>2, <2>8, <3>1, AfterAfter
        <3>6. t \in Seq(Int) /\ Len(t) = Len(s) - Len(d) /\ Agrees(t, w)
            BY <1>10, <1>11, <3>5, AfterIs
        <3>7. TextAt(t) = Read(t, w, name)
            BY <1>5, <3>6, TextFound
        <3>8. CASE ~(Len(w) <= Len(t))
            <4>1. MessageAt(s) = {}
                BY <3>4, <3>7, <3>8 DEF Read
            <4>2. ~(Len(d \o w) <= Len(s))
                BY <1>6, <1>8, <1>10, <1>17, <1>11, <3>6, <3>8
            <4> QED
                BY <1>7, <1>9, <1>11, <4>1, <4>2 DEF MessageRead
        <3>9. CASE Len(w) <= Len(t)
            <4>1. PICK n : n = [value |-> name, rest |-> After(t, Len(w))]
                OBVIOUS
            <4>2. TextAt(t) = {n} /\ n.value = name
                BY <3>7, <3>9, <4>1 DEF Read
            <4>3. MessageAt(s) = {[name |-> name, seqid |-> seqid, type |-> m, rest |-> n.rest]}
                BY <3>4, <4>2
            <4>6. /\ Len(d) \in Nat /\ Len(w) \in Nat /\ Len(s) \in Nat
                  /\ Len(w) <= Len(s) - Len(d) /\ Len(d) <= Len(s)
                BY <1>6, <1>8, <1>10, <1>17, <3>5, <3>6, <3>9
            <4>7. After(t, Len(w)) = After(s, Len(d) + Len(w))
                BY <3>5, <4>6, AfterAfter
            <4>4. After(t, Len(w)) = After(s, Len(d) + Len(w)) /\ Len(d) + Len(w) <= Len(s)
                BY <4>6, <4>7
            <4>5. n.rest = After(s, Len(d \o w)) /\ Len(d \o w) <= Len(s)
                BY <1>11, <4>1, <4>4
            <4> QED
                BY <1>2, <1>7, <1>9, <1>11, <4>3, <4>5 DEF MessageRead
        <3> QED
            BY <3>8, <3>9
    <2> QED
        BY <2>7, <2>8
<1> QED
    BY <1>14, <1>15

-----------------------------------------------------------------------------
(* What reader and writer promise each other. *)

\* A number below 128 times another one has at most one byte more.
LEMMA OneByteMore ==
    ASSUME NEW b \in Nat, NEW k \in Nat, \A m \in Nat : m < b => Len(Varint[m]) <= k,
           NEW n \in Nat, n < 128 * b
    PROVE  Len(Varint[n]) <= k + 1
<1>1. CASE n < 128
    <2>1. Varint[n] = <<n>>
        BY <1>1, VarintParts
    <2>2. Len(<<n>>) = 1
        OBVIOUS
    <2> QED
        BY <2>1, <2>2
<1>2. CASE n >= 128
    <2>1. PICK d \in Nat : d = n \div 128 /\ d < b
        BY <1>2
    <2>2. Len(Varint[d]) \in Nat /\ Len(Varint[n]) = 1 + Len(Varint[d])
        BY <1>2, <2>1, VarintMore
    <2>3. Len(Varint[d]) <= k
        BY <2>1
    <2> QED
        BY <2>2, <2>3
<1> QED
    BY <1>1, <1>2

\* A number of 64 bits: what is left of it after three times sixteen bits has sixteen.
Word(n) == ((n \div 65536) \div 65536) \div 65536 < 65536

\* The ten bytes of writeVarint64's buffer hold every number of 64 bits, so that what
\* Carried asks of a value and StreamAssumption of a size the widths of the code give.
THEOREM WordsAreShort == ASSUME NEW n \in Nat, Word(n) PROVE Short(n)
<1> DEFINE Fits(b, k) == \A m \in Nat : m < b => Len(Varint[m]) <= k
<1>1. ASSUME NEW b \in Nat, NEW k \in Nat, Fits(b, k) PROVE Fits(128 * b, k + 1)
    BY <1>1, OneByteMore
<1>2. Fits(128, 1)
    <2>1. \A m \in Nat : m < 128 => Varint[m] = <<m>>
        BY VarintParts
    <2>2. \A m : Len(<<m>>) = 1
        OBVIOUS
    <2>3. \A m \in Nat : m < 128 => Len(Varint[m]) = 1
        BY <2>1, <2>2
    <2> QED
        BY <2>3
<1> HIDE DEF Fits
<1>3. \A b \in Nat, k \in Nat : Fits(b, k) => 128 * b \in Nat /\ k + 1 \in Nat /\ Fits(128 * b, k + 1)
    BY <1>1
<1>4. PICK b4 \in Nat : b4 = 128 * (128 * (128 * 128)) /\ Fits(b4, 4)
    <2>0. PICK a \in Nat : a = 128 /\ Fits(a, 1)
        BY <1>2
    <2>1. PICK b \in Nat : b = 128 * a /\ Fits(b, 2)
        BY <1>3, <2>0
    <2>2. PICK c \in Nat : c = 128 * b /\ Fits(c, 3)
        BY <1>3, <2>1
    <2> QED
        BY <1>3, <2>0, <2>1, <2>2
<1>5. PICK b7 \in Nat : b7 = 128 * (128 * (128 * b4)) /\ Fits(b7, 7)
    <2>1. PICK b \in Nat : b = 128 * b4 /\ Fits(b, 5)
        BY <1>3, <1>4
    <2>2. PICK c \in Nat : c = 128 * b /\ Fits(c, 6)
        BY <1>3, <2>1
    <2> QED
        BY <1>3, <2>1, <2>2
<1>6. PICK b10 \in Nat : b10 = 128 * (128 * (128 * b7)) /\ Fits(b10, 10)
    <2>1. PICK b \in Nat : b = 128 * b7 /\ Fits(b, 8)
        BY <1>3, <1>5
    <2>2. PICK c \in Nat : c = 128 * b /\ Fits(c, 9)
        BY <1>3, <2>1
    <2> QED
        BY <1>3, <2>1, <2>2
<1>7. n < b10
    <2>1. \A c \in Nat, m \in Nat : m \div 65536 < c => m < 65536 * c
        OBVIOUS
    <2>2. PICK c2 \in Nat : c2 = 65536 * 65536 /\ (n \div 65536) \div 65536 < c2
        BY <2>1 DEF Word
    <2>3. PICK c3 \in Nat : c3 = 65536 * c2 /\ n \div 65536 < c3
        BY <2>1, <2>2
    <2>4. PICK c4 \in Nat : c4 = 65536 * c3 /\ n < c4
        BY <2>1, <2>3
    <2>5. c3 <= b7
        BY <1>4, <1>5, <2>2, <2>3
    <2>6. c4 <= b10
        BY <1>6, <2>4, <2>5
    <2> QED
        BY <2>4, <2>6
<1> QED
    BY <1>6, <1>7 DEF Fits, Short

\* What was encoded and what follows it.
LEMMA WithTail ==
    ASSUME NEW e \in Seq(Int), NEW tail \in Seq(Int)
    PROVE  /\ e \o tail \in Seq(Int) /\ Agrees(e \o tail, e) /\ Len(e) <= Len(e \o tail)
           /\ After(e \o tail, Len(e)) = tail
<1>1. PICK n \in Nat, m \in Nat : n = Len(e) /\ m = Len(tail)
    BY LenProperties
<1>2. PICK s : s = e \o tail
    OBVIOUS
<1>3. /\ s \in Seq(Int) /\ Len(s) = n + m
      /\ \A i \in 1..(n + m) : s[i] = IF i <= n THEN e[i] ELSE tail[i - n]
    BY <1>1, <1>2, ConcatProperties
<1>4. Agrees(s, e)
    <2>1. Len(e) = n /\ Len(s) = n + m /\ n <= n + m
        BY <1>1, <1>3
    <2>2. ASSUME NEW i \in 1..n, i <= Len(s) PROVE s[i] = e[i]
        BY <1>3, <2>1
    <2> QED
        BY <2>1, <2>2 DEF Agrees
<1>5. n <= Len(s) /\ Len(s) - n = m
    BY <1>3
<1>6. After(s, n) \in Seq(Int) /\ Len(After(s, n)) = m /\ \A i \in 1..m : After(s, n)[i] = s[n + i]
    BY <1>3, <1>5, AfterIs
<1>7. \A i \in 1..m : After(s, n)[i] = tail[i]
    <2>1. TAKE i \in 1..m
    <2>2. PICK j \in 1..(n + m) : j = n + i /\ ~(j <= n) /\ j - n = i
        OBVIOUS
    <2>3. s[j] = tail[j - n]
        BY <1>3, <2>2
    <2> QED
        BY <1>6, <2>2, <2>3
<1>8. After(s, n) = tail
    BY <1>1, <1>6, <1>7, SeqEqual
<1> QED
    BY <1>1, <1>2, <1>3, <1>4, <1>5, <1>8

\* The beginning of what was encoded.
LEMMA WithoutEnd ==
    ASSUME NEW e \in Seq(Int), NEW n \in 0..(Len(e) - 1)
    PROVE  SubSeq(e, 1, n) \in Seq(Int) /\ Agrees(SubSeq(e, 1, n), e) /\ ~(Len(e) <= Len(SubSeq(e, 1, n)))
<1>1. PICK l \in Nat : l = Len(e) /\ n \in Nat /\ n <= l /\ ~(l <= n)
    BY LenProperties
<1>2. PICK s : s = SubSeq(e, 1, n)
    OBVIOUS
<1>3. s \in Seq(Int) /\ Len(s) = n /\ \A i \in 1..n : s[i] = e[i]
    BY <1>1, <1>2, FirstIs
<1>4. Agrees(s, e)
    BY <1>1, <1>3 DEF Agrees
<1> QED
    BY <1>1, <1>2, <1>3, <1>4

\* The write calls of TProtocol and the read calls give back every value of the C++ types,
\* and nothing of a value that was cut.
THEOREM ScalarsReadBack ==
    ASSUME NEW type \in Scalar, NEW v, Carried(type, v)
    PROVE  /\ \A tail \in Seq(Int) :
                 Decoded(type, Encoded(type, v) \o tail) = {[value |-> v, rest |-> tail]}
           /\ \A n \in 0..(Len(Encoded(type, v)) - 1) :
                 Decoded(type, SubSeq(Encoded(type, v), 1, n)) = {}
<1>1. PICK e : e = Encoded(type, v)
    OBVIOUS
<1>2. e \in Seq(Int)
    <2>1. <<>> \in Seq(Int) /\ Agrees(<<>>, e)
        BY EmptySeq DEF Agrees
    <2> QED
        BY <1>1, <2>1, ScalarFound
<1>3. ASSUME NEW s \in Seq(Int), Agrees(s, e) PROVE Decoded(type, s) = Read(s, e, v)
    BY <1>1, <1>3, ScalarFound
<1>4. ASSUME NEW tail \in Seq(Int) PROVE Decoded(type, e \o tail) = {[value |-> v, rest |-> tail]}
    BY <1>2, <1>3, WithTail DEF Read
<1>5. ASSUME NEW n \in 0..(Len(e) - 1) PROVE Decoded(type, SubSeq(e, 1, n)) = {}
    BY <1>2, <1>3, WithoutEnd DEF Read
<1> QED
    BY <1>1, <1>4, <1>5

\* A field of any type and id is found again, whatever field came before it, whether its
\* header is the short or the long one; writeFieldBeginInternal and readFieldBegin agree.
THEOREM FieldHeadersReadBack ==
    ASSUME NEW t \in Types, NEW id \in Int, Short(ZigZag(id)), NEW last \in Int
    PROVE  /\ \A tail \in Seq(Int) :
                 FieldAt(FieldHeader(CType[t], id, last) \o tail, last)
                     = {[types |-> {t}, code |-> CType[t], id |-> id, rest |-> tail]}
           /\ \A n \in 0..(Len(FieldHeader(CType[t], id, last)) - 1) :
                 FieldAt(SubSeq(FieldHeader(CType[t], id, last), 1, n), last) = {}
<1>1. PICK c : c = CType[t] /\ c \in 1..12 /\ OnlyType(c, t)
    BY TypeCodes
<1>2. PICK e : e = FieldHeader(c, id, last)
    OBVIOUS
<1>3. e \in Seq(Int)
    <2>1. <<>> \in Seq(Int) /\ Agrees(<<>>, FieldHeader(c, id, last))
        BY EmptySeq DEF Agrees
    <2> QED
        BY <1>1, <1>2, <2>1, HeaderFound
<1>4. ASSUME NEW s \in Seq(Int), Agrees(s, e) PROVE FieldAt(s, last) = FieldRead(s, e, {t}, c, id)
    <2>1. Agrees(s, FieldHeader(c, id, last))
        BY <1>2, <1>4
    <2>2. FieldAt(s, last) = FieldRead(s, FieldHeader(c, id, last), {t}, c, id)
        BY <1>1, <2>1, HeaderFound
    <2> QED
        BY <1>2, <2>2
<1>5. ASSUME NEW tail \in Seq(Int)
      PROVE  FieldAt(e \o tail, last) = {[types |-> {t}, code |-> c, id |-> id, rest |-> tail]}
    BY <1>3, <1>4, WithTail DEF FieldRead
<1>6. ASSUME NEW n \in 0..(Len(e) - 1) PROVE FieldAt(SubSeq(e, 1, n), last) = {}
    BY <1>3, <1>4, WithoutEnd DEF FieldRead
<1> QED
    BY <1>1, <1>2, <1>5, <1>6

\* The short form takes any id, up to fifteen after the last one: its bytes hold the
\* difference only.
THEOREM ShortHeaderRead ==
    ASSUME NEW t \in Types, NEW last \in Int, NEW id \in Int,
           id > last, id - last <= 15, NEW tail \in Seq(Nat)
    PROVE  FieldAt(FieldHeader(CType[t], id, last) \o tail, last)
               = {[types |-> {t}, code |-> CType[t], id |-> id, rest |-> tail]}
<1>1. PICK c : c = CType[t] /\ c \in 1..12 /\ OnlyType(c, t)
    BY TypeCodes
<1>2. PICK e : e = FieldHeader(c, id, last)
    OBVIOUS
<1>3. e \in Seq(Int)
    <2>1. <<>> \in Seq(Int) /\ Agrees(<<>>, FieldHeader(c, id, last))
        BY EmptySeq DEF Agrees
    <2> QED
        BY <1>1, <1>2, <2>1, ShortHeaderFound
<1>4. ASSUME NEW s \in Seq(Int), Agrees(s, e) PROVE FieldAt(s, last) = FieldRead(s, e, {t}, c, id)
    <2>1. Agrees(s, FieldHeader(c, id, last))
        BY <1>2, <1>4
    <2>2. FieldAt(s, last) = FieldRead(s, FieldHeader(c, id, last), {t}, c, id)
        BY <1>1, <2>1, ShortHeaderFound
    <2> QED
        BY <1>2, <2>2
<1>5. tail \in Seq(Int)
    BY SeqMonotonic
<1> QED
    BY <1>1, <1>2, <1>3, <1>4, <1>5, WithTail DEF FieldRead

\* Element types and sizes of lists and sets come back, around the fourteen elements of
\* the short header too; readListBegin and writeCollectionBegin agree.
THEOREM CollectionsReadBack ==
    ASSUME NEW type \in Types, NEW size \in Nat, Short(size)
    PROVE  /\ \A tail \in Seq(Int) :
                 CollectionAt(CollectionHeader(type, size) \o tail)
                     = {[types |-> <<type>>, size |-> size, rest |-> tail]}
           /\ \A n \in 0..(Len(CollectionHeader(type, size)) - 1) :
                 CollectionAt(SubSeq(CollectionHeader(type, size), 1, n)) = {}
<1>1. PICK e : e = CollectionHeader(type, size)
    OBVIOUS
<1>2. e \in Seq(Int)
    <2>1. <<>> \in Seq(Int) /\ Agrees(<<>>, e)
        BY EmptySeq DEF Agrees
    <2> QED
        BY <1>1, <2>1, CollectionReadBack
<1>3. ASSUME NEW s \in Seq(Int), Agrees(s, e)
      PROVE  CollectionAt(s) = SizedRead(s, e, <<type>>, size)
    BY <1>1, <1>3, CollectionReadBack
<1>4. ASSUME NEW tail \in Seq(Int)
      PROVE  CollectionAt(e \o tail) = {[types |-> <<type>>, size |-> size, rest |-> tail]}
    BY <1>2, <1>3, WithTail DEF SizedRead
<1>5. ASSUME NEW n \in 0..(Len(e) - 1) PROVE CollectionAt(SubSeq(e, 1, n)) = {}
    BY <1>2, <1>3, WithoutEnd DEF SizedRead
<1> QED
    BY <1>1, <1>4, <1>5

\* So do the types and the size of a map; the header of an empty one is a single zero.
THEOREM MapsReadBack ==
    ASSUME NEW key \in Types, NEW val \in Types, NEW size \in Nat, Short(size)
    PROVE  /\ \A tail \in Seq(Int) :
                 MapAt(MapHeader(key, val, size) \o tail)
                     = {[types |-> IF size = 0 THEN <<>> ELSE <<key, val>>, size |-> size,
                         rest |-> tail]}
           /\ \A n \in 0..(Len(MapHeader(key, val, size)) - 1) :
                 MapAt(SubSeq(MapHeader(key, val, size), 1, n)) = {}
<1>1. PICK e, types : e = MapHeader(key, val, size) /\ types = IF size = 0 THEN <<>> ELSE <<key, val>>
    OBVIOUS
<1>2. e \in Seq(Int)
    <2>1. <<>> \in Seq(Int) /\ Agrees(<<>>, e)
        BY EmptySeq DEF Agrees
    <2> QED
        BY <1>1, <2>1, MapReadBack
<1>3. ASSUME NEW s \in Seq(Int), Agrees(s, e) PROVE MapAt(s) = SizedRead(s, e, types, size)
    BY <1>1, <1>3, MapReadBack
<1>4. ASSUME NEW tail \in Seq(Int)
      PROVE  MapAt(e \o tail) = {[types |-> types, size |-> size, rest |-> tail]}
    BY <1>2, <1>3, WithTail DEF SizedRead
<1>5. ASSUME NEW n \in 0..(Len(e) - 1) PROVE MapAt(SubSeq(e, 1, n)) = {}
    BY <1>2, <1>3, WithoutEnd DEF SizedRead
<1> QED
    BY <1>1, <1>4, <1>5
-----------------------------------------------------------------------------
(* What either protocol writes, the reader of that protocol finds. *)

\* What is found is this, and nothing else.
Is(S, x) == S = {x}

Gives(v, t) == [value |-> v, rest |-> t]
Opening(type, c, id, t) == [types |-> {type}, code |-> c, id |-> id, rest |-> t]

\* A header of a field.
HeaderGood(p, h, last, type, c, id) ==
    /\ h \in Seq(Int) /\ Len(h) \in Nat \ {0} /\ c \in Nat /\ id \in Int
    /\ \A t \in Seq(Int) : Is(NextField(p, h \o t, last), Opening(type, c, id, t))

\* A stop.
StopIsGood(p, h, last) ==
    /\ h \in Seq(Int) /\ Len(h) \in Nat \ {0}
    /\ \A t \in Seq(Int) : \E f : f.types = {} /\ f.rest = t /\ Is(NextField(p, h \o t, last), f)

\* The bytes of a number or a text.
ScalarIsGood(p, type, v, e) ==
    /\ e \in Seq(Int)
    /\ \A t \in Seq(Int) : Is(NextScalar(p, type, e \o t), Gives(v, t))

\* A header of a list of structs.
CollectionIsGood(p, h, n) ==
    /\ h \in Seq(Int)
    /\ \A t \in Seq(Int) : Is(NextCollection(p, h \o t), [types |-> <<"STRUCT">>, size |-> n, rest |-> t])

\* These bytes are those and then those.
Joins(w, a, b) == w = a \o b

\* Bytes and then bytes are bytes.
LEMMA JoinedTwo ==
    ASSUME NEW a \in Seq(Int), NEW b \in Seq(Int), NEW w, Joins(w, a, b)
    PROVE  w \in Seq(Int) /\ Len(w) = Len(a) + Len(b)
BY ConcatProperties DEF Joins

\* Of three parts the last two, or the first two, can be joined first.
LEMMA JoinedThree ==
    ASSUME NEW a \in Seq(Int), NEW b \in Seq(Int), NEW c \in Seq(Int),
           NEW ab, Joins(ab, a, b), NEW bc, Joins(bc, b, c), NEW w
    PROVE  Joins(w, ab, c) <=> Joins(w, a, bc)
<1>1. (a \o b) \o c = a \o (b \o c)
    BY ConcatAssociative, SMTT(20)
<1> QED
    BY <1>1 DEF Joins

\* Three parts before a fourth one.
LEMMA Joined ==
    ASSUME NEW h \in Seq(Int), NEW e \in Seq(Int), NEW b \in Seq(Int), NEW t \in Seq(Int),
           NEW eb, Joins(eb, e, b), NEW w, Joins(w, h, eb),
           NEW r2, Joins(r2, b, t), NEW r1, Joins(r1, e, r2), NEW s, Joins(s, w, t)
    PROVE  r2 \in Seq(Int) /\ r1 \in Seq(Int) /\ s \in Seq(Int) /\ Joins(s, h, r1)
<1>1. eb \in Seq(Int) /\ r2 \in Seq(Int)
    BY JoinedTwo
<1>2. w \in Seq(Int) /\ r1 \in Seq(Int)
    BY <1>1, JoinedTwo
<1>3. s \in Seq(Int)
    BY <1>2, JoinedTwo
<1>4. Joins(r1, eb, t)
    BY JoinedThree
<1>5. Joins(s, h, r1)
    BY <1>1, <1>4, JoinedThree
<1> QED
    BY <1>1, <1>2, <1>3, <1>5
\* The types of fields that are structs, or lists of them.
Nested == {"LIST", "STRUCT"}

-----------------------------------------------------------------------------
(* The bytes of the compact protocol. *)

\* Every field id is a small number.
LEMMA SmallIds == \A id \in 0..255 : Short(ZigZag(id)) /\ Short(id)
<1>1. \A id \in 0..255 : ZigZag(id) \in Nat /\ Word(ZigZag(id)) /\ id \in Nat /\ Word(id)
    BY DEF ZigZag, Word
<1> QED
    BY <1>1, WordsAreShort

\* The header of a field.
LEMMA CompactHeader ==
    ASSUME NEW last \in Int, NEW id \in Int, id \in 1..12, NEW c \in 1..12, NEW type, OnlyType(c, type)
    PROVE  HeaderGood("compact", FieldHeader(c, id, last), last, type, c, id)
<1>1. PICK h : h = FieldHeader(c, id, last)
    OBVIOUS
<1>2. Short(ZigZag(id)) /\ id \in Int
    BY SmallIds
<1>3. h \in Seq(Int)
    <2>1. <<>> \in Seq(Int) /\ Agrees(<<>>, h)
        BY EmptySeq DEF Agrees
    <2> QED
        BY <1>1, <1>2, <2>1, HeaderFound
<1>4. Len(h) \in Nat \ {0}
    <2>1. CASE id > last /\ id - last <= 15
        BY <1>1, <2>1 DEF FieldHeader
    <2>2. CASE ~(id > last /\ id - last <= 15)
        <3>1. <<>> \in Seq(Int) /\ Agrees(<<>>, Encoded("I16", <<id>>))
            BY EmptySeq DEF Agrees
        <3>2. "I16" \in Integer
            BY DEF Integer
        <3>3. Encoded("I16", <<id>>) \in Seq(Int)
            BY <1>2, <3>1, <3>2, IntegerFound
        <3>4. Joins(h, <<c>>, Encoded("I16", <<id>>))
            BY <1>1, <2>2 DEF FieldHeader, Joins
        <3>5. <<c>> \in Seq(Int) /\ Len(<<c>>) = 1
            OBVIOUS
        <3>6. PICK a \in Seq(Int), b \in Seq(Int) : Joins(h, a, b) /\ Len(a) = 1
            BY <3>3, <3>4, <3>5
        <3>7. Len(h) = 1 + Len(b)
            BY <3>6, JoinedTwo
        <3> QED
            BY <3>6, <3>7, LenProperties
    <2> QED
        BY <2>1, <2>2
<1>5. ASSUME NEW t \in Seq(Int)
      PROVE  Is(NextField("compact", h \o t, last), Opening(type, c, id, t))
    <2>1. PICK s \in Seq(Int) : s = h \o t /\ Agrees(s, h) /\ Len(h) <= Len(s) /\ After(s, Len(h)) = t
        BY <1>3, WithTail
    <2>2. FieldAt(s, last) = FieldRead(s, h, {type}, c, id)
        <3>1. Agrees(s, FieldHeader(c, id, last))
            BY <1>1, <2>1
        <3>2. FieldAt(s, last) = FieldRead(s, FieldHeader(c, id, last), {type}, c, id)
            BY <1>2, <3>1, HeaderFound
        <3> QED
            BY <1>1, <3>2
    <2>3. FieldAt(s, last) = {[types |-> {type}, code |-> c, id |-> id, rest |-> t]}
        BY <2>1, <2>2 DEF FieldRead
    <2> QED
        BY <2>1, <2>3 DEF NextField, Is, Opening
<1> QED
    BY <1>1, <1>2, <1>3, <1>4, <1>5 DEF HeaderGood

\* The stop.
LEMMA CompactStop == ASSUME NEW last PROVE StopIsGood("compact", << 0 >>, last)
<1>0. <<0>> \in Seq(Int)
    OBVIOUS
<1>1. PICK h \in Seq(Int) : h = <<0>>
    BY <1>0
<1>2. ASSUME NEW t \in Seq(Int)
      PROVE  \E f : f.types = {} /\ f.rest = t /\ Is(NextField("compact", h \o t, last), f)
    <2>1. PICK s \in Seq(Int) : s = h \o t /\ Agrees(s, h) /\ Len(h) <= Len(s) /\ After(s, Len(h)) = t
        BY WithTail
    <2>2. FieldAt(s, last) = FieldRead(s, h, {}, 0, last)
        BY <1>1, <2>1, StopFound
    <2>3. PICK f : f = [types |-> {}, code |-> 0, id |-> last, rest |-> t]
        OBVIOUS
    <2>4. f.types = {} /\ f.rest = t
        BY <2>3
    <2>5. FieldAt(s, last) = {f}
        BY <2>1, <2>2, <2>3 DEF FieldRead
    <2>6. Is(NextField("compact", h \o t, last), f)
        BY <2>1, <2>5 DEF NextField, Is
    <2> QED
        BY <2>4, <2>6
<1>3. Len(h) \in Nat \ {0}
    BY <1>1
<1> QED
    BY <1>1, <1>2, <1>3 DEF StopIsGood

\* A number or a text.
LEMMA CompactScalar ==
    ASSUME NEW type \in Scalar, NEW v, Carried(type, v)
    PROVE  ScalarIsGood("compact", type, v, Encoded(type, v))
<1>1. PICK e : e = Encoded(type, v)
    OBVIOUS
<1>2. e \in Seq(Int)
    <2>1. <<>> \in Seq(Int) /\ Agrees(<<>>, e)
        BY EmptySeq DEF Agrees
    <2> QED
        BY <1>1, <2>1, ScalarFound
<1>3. ASSUME NEW t \in Seq(Int) PROVE Is(NextScalar("compact", type, e \o t), Gives(v, t))
    BY <1>1, ScalarsReadBack DEF NextScalar, Is, Gives
<1> QED
    BY <1>1, <1>2, <1>3 DEF ScalarIsGood

\* The header of a list.
LEMMA CompactCollection ==
    ASSUME NEW n \in Nat, Short(n)
    PROVE  CollectionIsGood("compact", CollectionHeader("STRUCT", n), n)
<1>1. PICK h : h = CollectionHeader("STRUCT", n)
    OBVIOUS
<1>2. "STRUCT" \in Types
    BY DEF Types
<1>3. h \in Seq(Int)
    <2>1. <<>> \in Seq(Int) /\ Agrees(<<>>, h)
        BY EmptySeq DEF Agrees
    <2> QED
        BY <1>1, <1>2, <2>1, CollectionReadBack
<1>4. ASSUME NEW t \in Seq(Int)
      PROVE  Is(NextCollection("compact", h \o t), [types |-> <<"STRUCT">>, size |-> n, rest |-> t])
    BY <1>1, <1>2, CollectionsReadBack DEF NextCollection, Is
<1> QED
    BY <1>1, <1>3, <1>4 DEF CollectionIsGood

-----------------------------------------------------------------------------
(* The numbers of the binary protocol. *)

\* A number and what is left of it byte after byte.
Quotients(q, n, w) ==
    q[0] = n /\ \A k \in 0..w : q[k] \in Int /\ (k # 0 => q[k] = q[k - 1] \div 256)

\* The function in BigEndian is these quotients.
LEMMA BigEndianDef ==
    ASSUME NEW w \in Nat, NEW n \in Int
    PROVE  \E q : Quotients(q, n, w) /\ Binary!BigEndian(w, n) = [k \in 1..w |-> q[w - k] % 256]
<1> DEFINE a == [i \in Nat |-> n]
           h == [i \in Nat |-> [v \in Int |-> v \div 256]]
           g == [i \in Nat |-> IF i = 0 THEN 0 ELSE i - 1]
           Def(f) == [i \in 0..w |-> IF i = 0 THEN n ELSE f[i - 1] \div 256]
<1>1. a \in [Nat -> Int] /\ g \in [Nat -> Nat] /\ h \in [Nat -> [Int -> Int]] /\ \A i \in Nat : i >= 1 => g[i] < i
    OBVIOUS
<1>2. PICK f \in [Nat -> Int] : Recurs(f, 1, a, h, g)
    <2> HIDE DEF a, g, h
    <2>0. 1 \in Nat \ {0}
        OBVIOUS
    <2>1. Recursion(Int, 1, a, h, g)
        BY <1>1, <2>0, Zenon DEF Recursion
    <2> QED
        BY <2>1, FunctionExists
<1>3. \A i \in Nat : f[i] = IF i < 1 THEN a[i] ELSE h[i][f[g[i]]]
    <2> HIDE DEF a, g, h
    <2> QED
        BY <1>2 DEF Recurs
<1>4. ASSUME NEW i \in 0..w PROVE f[i] = IF i = 0 THEN n ELSE f[i - 1] \div 256
    <2>1. CASE i = 0
        <3>1. i \in Nat /\ i < 1 /\ a[i] = n
            BY <2>1
        <3> HIDE DEF a, g, h
        <3> QED
            BY <1>3, <2>1, <3>1
    <2>2. CASE i # 0
        <3>1. i \in Nat /\ ~(i < 1) /\ g[i] = i - 1 /\ i - 1 \in Nat /\ f[i - 1] \in Int
            BY <2>2
        <3>2. h[i][f[i - 1]] = f[i - 1] \div 256
            BY <3>1
        <3> HIDE DEF a, g, h
        <3> QED
            BY <1>3, <2>2, <3>1, <3>2
    <2> QED
        BY <2>1, <2>2
<1> DEFINE e == [i \in 0..w |-> f[i]]
<1> HIDE DEF a, h, g
<1>5. e = Def(e)
    <2>1. \A i \in 0..w : e[i] = IF i = 0 THEN n ELSE e[i - 1] \div 256
        <3>1. TAKE i \in 0..w
        <3>2. e[i] = f[i] /\ (i # 0 => i - 1 \in 0..w /\ e[i - 1] = f[i - 1])
            OBVIOUS
        <3> HIDE DEF e
        <3> QED
            BY <1>4, <3>2
    <2>2. e = [i \in 0..w |-> e[i]]
        OBVIOUS
    <2> HIDE DEF e
    <2> QED
        BY <2>1, <2>2
<1> DEFINE q == CHOOSE q : q = Def(q)
<1>6. q = Def(q) /\ Binary!BigEndian(w, n) = [k \in 1..w |-> q[w - k] % 256]
    <2>1. Binary!BigEndian(w, n) = [k \in 1..w |-> q[w - k] % 256]
        BY DEF Binary!BigEndian
    <2>2. \E x : x = Def(x)
        <3> HIDE DEF Def, e
        <3> QED
            BY <1>5
    <2> HIDE DEF Def
    <2>3. q = Def(q)
        BY <2>2
    <2> QED
        BY <2>1, <2>3
<1> HIDE DEF q
<1>7. \A i \in 0..w : q[i] = IF i = 0 THEN n ELSE q[i - 1] \div 256
    BY <1>6
<1> HIDE DEF e, Def
<1> DEFINE T == {i \in 0..w : q[i] \notin Int}
<1>8. ASSUME T # {} PROVE FALSE
    <2>1. PICK x \in T : \A y \in T : x <= y
        <3>1. T \in SUBSET Nat
            OBVIOUS
        <3> HIDE DEF T
        <3> QED
            BY <1>8, <3>1, LeastNumber
    <2>2. x \in 0..w /\ q[x] \notin Int
        OBVIOUS
    <2>3. x # 0
        BY <1>7, <2>2
    <2>4. x - 1 \in 0..w /\ ~(x <= x - 1)
        BY <2>2, <2>3
    <2>5. q[x - 1] \in Int
        BY <2>1, <2>4
    <2>6. q[x] = q[x - 1] \div 256
        BY <1>7, <2>2, <2>3
    <2> QED
        BY <2>2, <2>5, <2>6
<1>9. Quotients(q, n, w)
    BY <1>7, <1>8 DEF Quotients
<1> QED
    BY <1>6, <1>9

\* A number of so many bytes, with its sign.
Weighed(u, b, w) ==
    /\ u[1] = IF b[1] < 128 THEN b[1] ELSE b[1] - 256
    /\ \A k \in 2..w : u[k] = 256 * u[k - 1] + b[k]

\* The function in Signed weighs the bytes.
LEMMA SignedDef ==
    ASSUME NEW b \in Seq(Int), NEW w \in Nat \ {0}, Len(b) = w
    PROVE  \E u : Weighed(u, b, w) /\ Binary!Signed(b) = u[w]
<1> DEFINE first == IF b[1] < 128 THEN b[1] ELSE b[1] - 256
           a == [i \in Nat |-> first]
           byte == [i \in Nat |-> IF i \in 1..w THEN b[i] ELSE 0]
           h == [i \in Nat |-> [v \in Int |-> 256 * v + byte[i]]]
           g == [i \in Nat |-> IF i = 0 THEN 0 ELSE i - 1]
           Def(f) == [k \in 1..Len(b) |-> IF k > 1 THEN 256 * f[k - 1] + b[k]
                                          ELSE IF b[1] < 128 THEN b[1] ELSE b[1] - 256]
<1>1. first \in Int /\ byte \in [Nat -> Int] /\ \A i \in 1..w : byte[i] = b[i]
    BY ElementOfSeq
<1> HIDE DEF byte, first
<1>2. a \in [Nat -> Int] /\ g \in [Nat -> Nat] /\ h \in [Nat -> [Int -> Int]] /\ \A i \in Nat : i >= 2 => g[i] < i
    BY <1>1
<1>3. PICK f \in [Nat -> Int] : Recurs(f, 2, a, h, g)
    <2> HIDE DEF a, g, h
    <2>0. 2 \in Nat \ {0}
        OBVIOUS
    <2>1. Recursion(Int, 2, a, h, g)
        BY <1>2, <2>0, Zenon DEF Recursion
    <2> QED
        BY <2>1, FunctionExists
<1>4. \A i \in Nat : f[i] = IF i < 2 THEN a[i] ELSE h[i][f[g[i]]]
    <2> HIDE DEF a, g, h
    <2> QED
        BY <1>3 DEF Recurs
<1>5. ASSUME NEW i \in 1..w PROVE f[i] = IF i > 1 THEN 256 * f[i - 1] + b[i] ELSE first
    <2>1. CASE ~(i > 1)
        <3>1. i \in Nat /\ i < 2 /\ a[i] = first
            BY <2>1
        <3> HIDE DEF a, g, h
        <3> QED
            BY <1>4, <2>1, <3>1
    <2>2. CASE i > 1
        <3>1. i \in Nat /\ ~(i < 2) /\ g[i] = i - 1 /\ i - 1 \in Nat /\ f[i - 1] \in Int
            BY <2>2
        <3>2. h[i][f[i - 1]] = 256 * f[i - 1] + byte[i]
            BY <3>1
        <3> HIDE DEF a, g, h
        <3> QED
            BY <1>1, <1>4, <2>2, <3>1, <3>2
    <2> QED
        BY <2>1, <2>2
<1> DEFINE e == [i \in 1..w |-> f[i]]
<1> HIDE DEF a, h, g
<1>6. e = Def(e)
    <2>1. \A i \in 1..w : e[i] = IF i > 1 THEN 256 * e[i - 1] + b[i] ELSE first
        <3>1. TAKE i \in 1..w
        <3>2. e[i] = f[i] /\ (i > 1 => i - 1 \in 1..w /\ e[i - 1] = f[i - 1])
            OBVIOUS
        <3> HIDE DEF e
        <3> QED
            BY <1>5, <3>2
    <2>2. e = [i \in 1..w |-> e[i]]
        OBVIOUS
    <2>3. Len(b) = w
        OBVIOUS
    <2> HIDE DEF e
    <2> QED
        BY <2>1, <2>2, <2>3 DEF first
<1> DEFINE u == CHOOSE u : u = Def(u)
<1>7. u = Def(u) /\ Binary!Signed(b) = u[w]
    <2>1. Binary!Signed(b) = u[Len(b)]
        BY DEF Binary!Signed
    <2>2. \E x : x = Def(x)
        <3> HIDE DEF Def, e
        <3> QED
            BY <1>6
    <2> HIDE DEF Def
    <2>3. u = Def(u)
        BY <2>2
    <2> HIDE DEF u
    <2> QED
        BY <2>1, <2>3
<1> HIDE DEF u, e
<1>8. \A k \in 1..w : u[k] = IF k > 1 THEN 256 * u[k - 1] + b[k] ELSE first
    BY <1>7 DEF first
<1>9. u[1] = first
    BY <1>8
<1>10. \A k \in 2..w : u[k] = 256 * u[k - 1] + b[k]
    BY <1>8
<1> QED
    BY <1>7, <1>9, <1>10 DEF Weighed, first

\* The numbers a width has: those whose most significant byte has the sign.
Wide(w, n) == \E q : Quotients(q, n, w) /\ q[w - 1] \in -128..127

\* Quotients are what they are.
LEMMA OneQuotients ==
    ASSUME NEW w \in Nat, NEW n \in Int, NEW q, NEW r, Quotients(q, n, w), Quotients(r, n, w)
    PROVE  \A k \in 0..w : q[k] = r[k]
<1> DEFINE T == {k \in 0..w : q[k] # r[k]}
<1>1. ASSUME T # {} PROVE FALSE
    <2>1. PICK x \in T : \A y \in T : x <= y
        <3>1. T \in SUBSET Nat
            OBVIOUS
        <3> HIDE DEF T
        <3> QED
            BY <1>1, <3>1, LeastNumber
    <2>2. x \in 0..w /\ q[x] # r[x]
        OBVIOUS
    <2>3. x # 0
        BY <2>2 DEF Quotients
    <2>4. x - 1 \in 0..w /\ ~(x <= x - 1)
        BY <2>2, <2>3
    <2>5. q[x - 1] = r[x - 1]
        BY <2>1, <2>4
    <2>6. q[x] = q[x - 1] \div 256 /\ r[x] = r[x - 1] \div 256
        BY <2>2, <2>3 DEF Quotients
    <2> QED
        BY <2>2, <2>5, <2>6
<1> QED
    BY <1>1

\* A number of a width is read as it was written.
LEMMA SignedBack ==
    ASSUME NEW w \in Nat \ {0}, NEW n \in Int, Wide(w, n)
    PROVE  /\ Binary!BigEndian(w, n) \in Seq(Int) /\ Len(Binary!BigEndian(w, n)) = w
           /\ Binary!Signed(Binary!BigEndian(w, n)) = n
<1>1. PICK q : Quotients(q, n, w) /\ Binary!BigEndian(w, n) = [k \in 1..w |-> q[w - k] % 256]
    BY BigEndianDef
<1>2. PICK r : Quotients(r, n, w) /\ r[w - 1] \in -128..127
    BY DEF Wide
<1>3. q[w - 1] \in -128..127
    <2>1. w - 1 \in 0..w
        OBVIOUS
    <2>2. w \in Nat
        OBVIOUS
    <2>3. \A k \in 0..w : q[k] = r[k]
        BY <1>1, <1>2, <2>2, OneQuotients
    <2> QED
        BY <1>2, <2>1, <2>3
<1>4. PICK b : b = Binary!BigEndian(w, n)
    OBVIOUS
<1>5. \A k \in 1..w : w - k \in 0..w /\ q[w - k] \in Int /\ q[w - k] % 256 \in Int
    BY <1>1 DEF Quotients
<1>6. b \in Seq(Int) /\ Len(b) = w /\ \A k \in 1..w : b[k] = q[w - k] % 256
    <2>1. b = [k \in 1..w |-> q[w - k] % 256]
        BY <1>1, <1>4
    <2>2. b \in [1..w -> Int]
        BY <1>5, <2>1
    <2>3. b \in Seq(Int) /\ Len(b) = w
        BY <2>2
    <2> QED
        BY <2>1, <2>3
<1>7. PICK u : Weighed(u, b, w) /\ Binary!Signed(b) = u[w]
    BY <1>6, SignedDef
<1> DEFINE T == {k \in 1..w : u[k] # q[w - k]}
<1>8. ASSUME T # {} PROVE FALSE
    <2>1. PICK x \in T : \A y \in T : x <= y
        <3>1. T \in SUBSET Nat
            OBVIOUS
        <3> HIDE DEF T
        <3> QED
            BY <1>8, <3>1, LeastNumber
    <2>2. x \in 1..w /\ u[x] # q[w - x]
        OBVIOUS
    <2>3. CASE x = 1
        <3>1. PICK m \in -128..127 : m = q[w - 1]
            BY <1>3
        <3>2. b[1] = m % 256
            BY <1>6, <3>1
        <3>3. (IF m % 256 < 128 THEN m % 256 ELSE (m % 256) - 256) = m
            OBVIOUS
        <3>4. u[1] = m
            BY <1>7, <3>2, <3>3 DEF Weighed
        <3> QED
            BY <2>2, <2>3, <3>1, <3>4
    <2>4. CASE x # 1
        <3>1. x - 1 \in 1..w /\ ~(x <= x - 1) /\ x \in 2..w
            BY <2>2, <2>4
        <3>2. u[x - 1] = q[w - (x - 1)]
            BY <2>1, <3>1
        <3>3. PICK i \in 0..w : i = w - (x - 1) /\ i # 0 /\ i - 1 = w - x
            BY <2>2, <3>1
        <3>4. q[i] = q[i - 1] \div 256 /\ q[i - 1] \in Int
            BY <1>1, <1>5, <2>2, <3>3 DEF Quotients
        <3>5. PICK m \in Int : m = q[i - 1]
            BY <3>4
        <3>6. b[x] = m % 256 /\ u[x - 1] = m \div 256
            BY <1>6, <2>2, <3>2, <3>3, <3>4, <3>5
        <3>7. u[x] = 256 * u[x - 1] + b[x]
            BY <1>7, <3>1 DEF Weighed
        <3>8. 256 * (m \div 256) + (m % 256) = m
            OBVIOUS
        <3> QED
            BY <2>2, <3>3, <3>5, <3>6, <3>7, <3>8
    <2> QED
        BY <2>3, <2>4
<1>9. u[w] = n
    <2>1. w \in 1..w /\ w - w = 0
        OBVIOUS
    <2>2. u[w] = q[w - w]
        BY <1>8, <2>1
    <2> QED
        BY <1>1, <2>1, <2>2 DEF Quotients
<1> QED
    BY <1>4, <1>6, <1>7, <1>9

\* The numbers of two, four and eight bytes.
LEMMA WideTwo == ASSUME NEW n \in Int, Int16(n) PROVE Wide(2, n)
<1>1. PICK q : Quotients(q, n, 2)
    BY BigEndianDef
<1>2. q[0] = n /\ q[1] = q[0] \div 256
    BY <1>1 DEF Quotients
<1>3. n \div 256 \in -128..127
    BY DEF Int16
<1> QED
    BY <1>1, <1>2, <1>3 DEF Wide

\* Two bytes less are a division by 65536.
LEMMA TwoBytes ==
    ASSUME NEW q, NEW n, NEW w \in Nat, Quotients(q, n, w), NEW k \in 0..w, k >= 2
    PROVE  k - 2 \in 0..w /\ q[k - 2] \in Int /\ q[k] = q[k - 2] \div 65536
<1>1. k - 2 \in 0..w /\ k - 1 \in 0..w /\ k - 1 # 0 /\ k # 0 /\ (k - 1) - 1 = k - 2
    OBVIOUS
<1>2. q[k - 2] \in Int /\ q[k - 1] = q[k - 2] \div 256 /\ q[k] = q[k - 1] \div 256
    BY <1>1 DEF Quotients
<1>3. \A m \in Int : (m \div 256) \div 256 = m \div 65536
    OBVIOUS
<1> QED
    BY <1>1, <1>2, <1>3

\* The numbers of four bytes.
LEMMA WideFour == ASSUME NEW n \in Int, Int16(n \div 65536) PROVE Wide(4, n)
<1>1. PICK q : Quotients(q, n, 4)
    BY BigEndianDef
<1>2. q[2] = q[0] \div 65536
    BY <1>1, TwoBytes
<1>3. q[0] = n /\ q[3] = q[2] \div 256
    BY <1>1 DEF Quotients
<1>4. PICK m \in Int : Int16(m) /\ m = n \div 65536
    OBVIOUS
<1>5. m \div 256 \in -128..127
    BY <1>4 DEF Int16
<1>6. q[4 - 1] \in -128..127
    BY <1>2, <1>3, <1>4, <1>5
<1> QED
    BY <1>1, <1>6 DEF Wide

\* The numbers of eight bytes.
LEMMA WideEight ==
    ASSUME NEW n \in Int, Int16(((n \div 65536) \div 65536) \div 65536)
    PROVE  Wide(8, n)
<1>1. PICK q : Quotients(q, n, 8)
    BY BigEndianDef
<1>2. q[2] = q[0] \div 65536 /\ q[4] = q[2] \div 65536 /\ q[6] = q[4] \div 65536
    BY <1>1, TwoBytes
<1>3. q[0] = n /\ q[7] = q[6] \div 256
    BY <1>1 DEF Quotients
<1>4. PICK m \in Int : Int16(m) /\ m = ((n \div 65536) \div 65536) \div 65536
    OBVIOUS
<1>5. m \div 256 \in -128..127
    BY <1>4 DEF Int16
<1>6. q[8 - 1] \in -128..127
    BY <1>2, <1>3, <1>4, <1>5
<1> QED
    BY <1>1, <1>6 DEF Wide

-----------------------------------------------------------------------------
(* The bytes of the binary protocol. *)

\* The first bytes of some are taken.
LEMMA BytesTaken ==
    ASSUME NEW e \in Seq(Int), NEW t \in Seq(Int), NEW s, Joins(s, e, t)
    PROVE  s \in Seq(Int) /\ Is(Binary!BytesAt(s, Len(e)), Gives(e, t))
<1>1. s \in Seq(Int) /\ Agrees(s, e) /\ Len(e) <= Len(s) /\ After(s, Len(e)) = t
    BY WithTail DEF Joins
<1>2. BytesAt(s, Len(e)) = {[value |-> e, rest |-> t]}
    BY <1>1, BytesFound
<1>3. Binary!BytesAt(s, Len(e)) = BytesAt(s, Len(e))
    BY DEF Binary!BytesAt, Binary!After, BytesAt, After
<1> QED
    BY <1>1, <1>2, <1>3 DEF Is, Gives

\* One byte.
LEMMA ByteTaken ==
    ASSUME NEW c \in Int, NEW t \in Seq(Int), NEW s, Joins(s, <<c>>, t)
    PROVE  s \in Seq(Int) /\ Is(Binary!BytesAt(s, 1), Gives(<<c>>, t))
<1>1. <<c>> \in Seq(Int) /\ Len(<<c>>) = 1
    OBVIOUS
<1>2. PICK e \in Seq(Int) : e = <<c>> /\ Len(e) = 1
    BY <1>1
<1>3. Joins(s, e, t)
    BY <1>2
<1>4. s \in Seq(Int) /\ Is(Binary!BytesAt(s, Len(e)), Gives(e, t))
    BY <1>3, BytesTaken
<1> QED
    BY <1>2, <1>4

\* A number.
LEMMA NumberTaken ==
    ASSUME NEW w \in Nat \ {0}, NEW n \in Int, Wide(w, n), NEW t \in Seq(Int),
           NEW s, Joins(s, Binary!BigEndian(w, n), t)
    PROVE  s \in Seq(Int) /\ Is(Binary!NumberAt(w, s), Gives(<<n>>, t))
<1>1. PICK e \in Seq(Int) : e = Binary!BigEndian(w, n) /\ Len(e) = w /\ Binary!Signed(e) = n
    BY SignedBack
<1>2. Joins(s, e, t)
    BY <1>1
<1>3. s \in Seq(Int) /\ Is(Binary!BytesAt(s, Len(e)), Gives(e, t))
    BY <1>2, BytesTaken
<1>4. PICK x : x = Gives(e, t)
    OBVIOUS
<1>5. Binary!BytesAt(s, w) = {x}
    BY <1>1, <1>3, <1>4 DEF Is
<1>6. [x EXCEPT !.value = <<Binary!Signed(x.value)>>] = Gives(<<n>>, t)
    BY <1>1, <1>4 DEF Gives
<1>7. Binary!NumberAt(w, s) = {[x EXCEPT !.value = <<Binary!Signed(x.value)>>]}
    BY <1>5 DEF Binary!NumberAt
<1> QED
    BY <1>3, <1>6, <1>7 DEF Is

\* A number that is not negative is a size.
LEMMA SizeTaken ==
    ASSUME NEW S, NEW n \in Nat, NEW t, Is(S, Gives(<<n>>, t))
    PROVE  Is(Binary!Sizes(S), Gives(<<n>>, t))
<1>1. PICK x : x = Gives(<<n>>, t)
    OBVIOUS
<1>2. x.value[1] = n
    BY <1>1 DEF Gives
<1> QED
    BY <1>1, <1>2 DEF Is, Binary!Sizes

\* A text.
LEMMA TextTaken ==
    ASSUME NEW v \in Seq(Int), Wide(4, Len(v)), NEW t \in Seq(Int),
           NEW h, Joins(h, Binary!BigEndian(4, Len(v)), v), NEW s, Joins(s, h, t)
    PROVE  s \in Seq(Int) /\ Is(Binary!TextOf(Binary!NumberAt(4, s)), Gives(v, t))
<1>1. PICK n \in Nat : n = Len(v) /\ Wide(4, n)
    BY LenProperties
<1>2. PICK e \in Seq(Int) : e = Binary!BigEndian(4, n)
    BY <1>1, SignedBack
<1>3. PICK r : Joins(r, v, t)
    BY DEF Joins
<1>4. r \in Seq(Int)
    BY <1>3, JoinedTwo
<1>5. Joins(s, e, r)
    <2>1. Joins(h, e, v)
        BY <1>1, <1>2
    <2> QED
        BY <1>3, <2>1, JoinedThree
<1>6. s \in Seq(Int) /\ Is(Binary!NumberAt(4, s), Gives(<<n>>, r))
    BY <1>1, <1>2, <1>4, <1>5, NumberTaken
<1>7. Is(Binary!Sizes(Binary!NumberAt(4, s)), Gives(<<n>>, r))
    <2>1. PICK S : S = Binary!NumberAt(4, s)
        OBVIOUS
    <2> QED
        BY <1>6, <2>1, SizeTaken
<1>8. Is(Binary!BytesAt(r, n), Gives(v, t))
    BY <1>1, <1>3, BytesTaken
<1>9. PICK x : x = Gives(<<n>>, r)
    OBVIOUS
<1>10. x.value[1] = n /\ x.rest = r
    BY <1>9 DEF Gives
<1> QED
    BY <1>6, <1>7, <1>8, <1>9, <1>10 DEF Is, Binary!TextOf

\* Eight bytes the other way round, and back.
LEMMA TurnedBack ==
    ASSUME NEW v \in Seq(Int), Len(v) = 8
    PROVE  /\ Binary!Turned(v) \in Seq(Int) /\ Len(Binary!Turned(v)) = 8
           /\ Binary!Turned(Binary!Turned(v)) = v
<1>1. DOMAIN v = 1..8 /\ \A i \in 1..8 : v[i] \in Int /\ 9 - i \in 1..8
    <2>1. DOMAIN v = 1..Len(v) /\ v \in [1..Len(v) -> Int]
        BY LenProperties
    <2>2. DOMAIN v = 1..8 /\ v \in [1..8 -> Int]
        BY <2>1
    <2> QED
        BY <2>2
<1>2. PICK e : e = Binary!Turned(v)
    OBVIOUS
<1>3. e = [i \in 1..8 |-> v[9 - i]]
    BY <1>1, <1>2 DEF Binary!Turned
<1>4. e \in [1..8 -> Int]
    BY <1>1, <1>3
<1>5. e \in Seq(Int) /\ Len(e) = 8 /\ DOMAIN e = 1..8
    <2>1. PICK w \in Nat : w = 8
        OBVIOUS
    <2>2. e \in [1..w -> Int]
        BY <1>4, <2>1
    <2>3. e \in Seq(Int) /\ Len(e) = w /\ DOMAIN e = 1..w
        BY <2>2
    <2> QED
        BY <2>1, <2>3
<1>6. Binary!Turned(e) = [i \in 1..8 |-> e[9 - i]]
    BY <1>5 DEF Binary!Turned
<1>7. \A i \in 1..8 : e[9 - i] = v[i]
    <2>1. TAKE i \in 1..8
    <2>2. PICK j \in 1..8 : j = 9 - i /\ 9 - j = i
        BY <1>1
    <2> QED
        BY <1>3, <2>2
<1>8. v = [i \in 1..8 |-> v[i]]
    BY <1>1
<1> QED
    BY <1>2, <1>5, <1>6, <1>7, <1>8

\* A number or a text.
LEMMA BinaryScalar ==
    ASSUME NEW type \in {"I16", "I32", "I64", "BOOL", "STRING", "DOUBLE"}, NEW v, Held(type, v)
    PROVE  ScalarIsGood("binary", type, v, Binary!Encoded(type, v))
<1>1. PICK e : e = Binary!Encoded(type, v)
    OBVIOUS
<1> SUFFICES e \in Seq(Int) /\ \A t \in Seq(Int) : Is(Binary!Decoded(type, e \o t), Gives(v, t))
    BY <1>1 DEF ScalarIsGood, NextScalar
<1>2. ASSUME NEW w \in Nat \ {0}, NEW n \in Int, v = <<n>>, Wide(w, n), type \in {"I16", "I32", "I64"},
             Binary!Width[type] = w
      PROVE  e \in Seq(Int) /\ \A t \in Seq(Int) : Is(Binary!Decoded(type, e \o t), Gives(v, t))
    <2>1. type \in DOMAIN Binary!Width
        BY <1>2 DEF Binary!Width
    <2>2. e = Binary!BigEndian(w, n)
        <3>1. e = Binary!BigEndian(w, v[1])
            BY <1>1, <1>2, <2>1 DEF Binary!Encoded
        <3>2. v[1] = n
            BY <1>2
        <3> QED
            BY <3>1, <3>2
    <2>3. e \in Seq(Int)
        BY <1>2, <2>2, SignedBack
    <2>4. ASSUME NEW t \in Seq(Int) PROVE Is(Binary!Decoded(type, e \o t), Gives(v, t))
        <3>1. PICK s : Joins(s, e, t) /\ s = e \o t
            BY DEF Joins
        <3>2. Is(Binary!NumberAt(w, s), Gives(<<n>>, t))
            BY <1>2, <2>2, <3>1, NumberTaken
        <3>3. Binary!Decoded(type, s) = Binary!NumberAt(w, s)
            BY <1>2, <2>1 DEF Binary!Decoded
        <3> QED
            BY <1>2, <3>1, <3>2, <3>3
    <2> QED
        BY <2>3, <2>4
<1>3. CASE type = "I16"
    <2>1. PICK n \in Int : v = <<n>> /\ Int16(n)
        BY <1>3 DEF Held, Int16
    <2>2. Wide(2, n) /\ Binary!Width[type] = 2
        BY <1>3, <2>1, WideTwo DEF Binary!Width
    <2> QED
        BY <1>2, <1>3, <2>1, <2>2
<1>4. CASE type = "I32"
    <2>1. PICK n \in Int : v = <<n>> /\ Int16(n \div 65536)
        BY <1>4 DEF Held
    <2>2. Wide(4, n) /\ Binary!Width[type] = 4
        BY <1>4, <2>1, WideFour DEF Binary!Width
    <2> QED
        BY <1>2, <1>4, <2>1, <2>2
<1>5. CASE type = "I64"
    <2>1. PICK n \in Int : v = <<n>> /\ Int16(((n \div 65536) \div 65536) \div 65536)
        BY <1>5 DEF Held
    <2>2. Wide(8, n) /\ Binary!Width[type] = 8
        BY <1>5, <2>1, WideEight DEF Binary!Width
    <2> QED
        BY <1>2, <1>5, <2>1, <2>2
<1>6. CASE type = "BOOL"
    <2>1. e = v /\ v \in {<<0>>, <<1>>}
        BY <1>1, <1>6 DEF Binary!Encoded, Held, Binary!Width
    <2>2. PICK b \in {0, 1} : v = <<b>>
        BY <2>1
    <2>3. <<b>> \in Seq(Int)
        OBVIOUS
    <2>4. ASSUME NEW t \in Seq(Int) PROVE Is(Binary!Decoded(type, e \o t), Gives(v, t))
        <3>1. PICK s : Joins(s, <<b>>, t) /\ s = e \o t
            BY <2>1, <2>2 DEF Joins
        <3>2. Is(Binary!BytesAt(s, 1), Gives(v, t))
            BY <2>2, <3>1, ByteTaken
        <3>3. Binary!Decoded("BOOL", s)
                  = {[x EXCEPT !.value = IF x.value # <<0>> THEN <<1>> ELSE <<0>>] : x \in Binary!BytesAt(s, 1)}
            BY DEF Binary!Decoded, Binary!Width
        <3>4. PICK x : x = Gives(v, t)
            OBVIOUS
        <3>5. (IF x.value # <<0>> THEN <<1>> ELSE <<0>>) = v
            BY <2>1, <3>4 DEF Gives
        <3>6. [x EXCEPT !.value = IF x.value # <<0>> THEN <<1>> ELSE <<0>>] = x
            BY <3>4, <3>5 DEF Gives
        <3>7. Binary!BytesAt(s, 1) = {x}
            BY <3>2, <3>4 DEF Is
        <3>8. Binary!Decoded("BOOL", s) = {[x EXCEPT !.value = IF x.value # <<0>> THEN <<1>> ELSE <<0>>]}
            BY <3>3, <3>7
        <3> QED
            BY <1>6, <3>1, <3>4, <3>6, <3>8 DEF Is
    <2> QED
        BY <2>1, <2>2, <2>3, <2>4
<1>7. CASE type = "STRING"
    <2>1. v \in Seq(Bytes) /\ Len(v) \div 65536 < 32768
        BY <1>7 DEF Held
    <2>2. v \in Seq(Int) /\ Len(v) \in Nat
        <3>1. Bytes \subseteq Int
            BY DEF Bytes
        <3>2. v \in Seq(Bytes)
            BY <2>1
        <3>3. v \in Seq(Int)
            BY <3>1, <3>2, SeqMonotonic
        <3> QED
            BY <3>3, LenProperties
    <2>3. Wide(4, Len(v))
        <3>1. PICK n \in Nat : n = Len(v) /\ n \div 65536 < 32768
            BY <2>1, <2>2
        <3>2. Int16(n \div 65536)
            BY <3>1 DEF Int16
        <3> QED
            BY <3>1, <3>2, WideFour
    <2>4. Joins(e, Binary!BigEndian(4, Len(v)), v)
        BY <1>1, <1>7 DEF Binary!Encoded, Joins, Binary!Width
    <2>5. e \in Seq(Int)
        <3>1. Binary!BigEndian(4, Len(v)) \in Seq(Int)
            BY <2>2, <2>3, SignedBack
        <3> QED
            BY <2>2, <2>4, <3>1, JoinedTwo
    <2>6. ASSUME NEW t \in Seq(Int) PROVE Is(Binary!Decoded(type, e \o t), Gives(v, t))
        <3>1. PICK s : Joins(s, e, t) /\ s = e \o t
            BY DEF Joins
        <3>2. Is(Binary!TextOf(Binary!NumberAt(4, s)), Gives(v, t))
            BY <2>2, <2>3, <2>4, <3>1, TextTaken
        <3>3. Binary!Decoded("STRING", s) = Binary!TextOf(Binary!NumberAt(4, s))
            BY DEF Binary!Decoded, Binary!Width
        <3> QED
            BY <1>7, <3>1, <3>2, <3>3
    <2> QED
        BY <2>5, <2>6
<1>8. CASE type = "DOUBLE"
    <2>1. v \in Seq(Int) /\ Len(v) = 8
        <3>1. Bytes \subseteq Int
            BY DEF Bytes
        <3> QED
            BY <1>8, <3>1, SeqMonotonic DEF Held
    <2>2. e = Binary!Turned(v)
        BY <1>1, <1>8 DEF Binary!Encoded, Binary!Width
    <2>3. e \in Seq(Int) /\ Len(e) = 8 /\ Binary!Turned(e) = v
        BY <2>1, <2>2, TurnedBack
    <2>4. ASSUME NEW t \in Seq(Int) PROVE Is(Binary!Decoded(type, e \o t), Gives(v, t))
        <3>1. PICK s : Joins(s, e, t) /\ s = e \o t
            BY DEF Joins
        <3>2. Is(Binary!BytesAt(s, 8), Gives(e, t))
            BY <2>3, <3>1, BytesTaken
        <3>3. Binary!Decoded("DOUBLE", s)
                  = {[x EXCEPT !.value = Binary!Turned(x.value)] : x \in Binary!BytesAt(s, 8)}
            BY DEF Binary!Decoded, Binary!Width
        <3>4. PICK x : x = Gives(e, t)
            OBVIOUS
        <3>5. [x EXCEPT !.value = Binary!Turned(x.value)] = Gives(v, t)
            BY <2>3, <3>4 DEF Gives
        <3>6. Binary!BytesAt(s, 8) = {x}
            BY <3>2, <3>4 DEF Is
        <3>7. Binary!Decoded("DOUBLE", s) = {[x EXCEPT !.value = Binary!Turned(x.value)]}
            BY <3>3, <3>6
        <3> QED
            BY <1>8, <3>1, <3>5, <3>7 DEF Is
    <2> QED
        BY <2>3, <2>4
<1> QED
    BY <1>3, <1>4, <1>5, <1>6, <1>7, <1>8

\* The types of fields.
TypesInUse == {"I16", "I32", "I64", "BOOL", "DOUBLE", "STRING"} \union Nested

\* A code belongs to one type.
LEMMA BinaryTypes ==
    ASSUME NEW type \in TypesInUse
    PROVE  Binary!Code[type] \in 1..15 /\ Is(Binary!TypesOf(Binary!Code[type]), type)
BY DEF TypesInUse, Nested, Binary!Code, Binary!TypesOf, Binary!Types, Is

\* The header of a field.
LEMMA BinaryHeader ==
    ASSUME NEW last, NEW id \in Int, id \in 1..12, NEW type \in TypesInUse
    PROVE  HeaderGood("binary", Binary!FieldHeader(type, id), last, type, 0, id)
<1>1. PICK c \in Int : c = Binary!Code[type] /\ c \in 1..15 /\ Is(Binary!TypesOf(c), type)
    BY BinaryTypes
<1>2. Wide(2, id)
    <2>1. Int16(id)
        BY DEF Int16
    <2> QED
        BY <2>1, WideTwo
<1>3. PICK e \in Seq(Int) : e = Binary!BigEndian(2, id) /\ Len(e) = 2
    <2>1. PICK w \in Nat \ {0} : w = 2
        OBVIOUS
    <2>2. Wide(w, id)
        BY <1>2, <2>1
    <2>3. Binary!BigEndian(w, id) \in Seq(Int) /\ Len(Binary!BigEndian(w, id)) = w
        BY <2>2, SignedBack
    <2> QED
        BY <2>1, <2>3
<1>4. PICK h : h = Binary!FieldHeader(type, id)
    OBVIOUS
<1>5. Joins(h, <<c>>, e)
    BY <1>1, <1>3, <1>4 DEF Binary!FieldHeader, Joins
<1>6. <<c>> \in Seq(Int) /\ Len(<<c>>) = 1
    OBVIOUS
<1>7. PICK a \in Seq(Int) : a = <<c>> /\ Len(a) = 1
    BY <1>6
<1>8. h \in Seq(Int) /\ Len(h) = 3
    <2>1. h \in Seq(Int) /\ Len(h) = Len(a) + Len(e)
        BY <1>5, <1>7, JoinedTwo
    <2> QED
        BY <1>3, <1>7, <2>1
<1>9. ASSUME NEW t \in Seq(Int)
      PROVE  Is(NextField("binary", h \o t, last), Opening(type, 0, id, t))
    <2>1. PICK s : Joins(s, h, t) /\ s = h \o t
        BY DEF Joins
    <2>2. PICK r : Joins(r, e, t)
        BY DEF Joins
    <2>3. r \in Seq(Int)
        BY <2>2, JoinedTwo
    <2>4. Joins(s, a, r)
        <3>1. Joins(h, a, e)
            BY <1>5, <1>7
        <3> QED
            BY <2>1, <2>2, <3>1, JoinedThree
    <2>5. Is(Binary!BytesAt(s, 1), Gives(<<c>>, r))
        BY <1>7, <2>3, <2>4, ByteTaken
    <2>6. Is(Binary!NumberAt(2, r), Gives(<<id>>, t))
        BY <1>2, <1>3, <2>2, NumberTaken
    <2>7. PICK x, y : x = Gives(<<c>>, r) /\ y = Gives(<<id>>, t)
        OBVIOUS
    <2>8. x.value[1] = c /\ x.value # Binary!Stop /\ x.rest = r /\ y.value[1] = id /\ y.rest = t
        BY <1>1, <2>7 DEF Gives, Binary!Stop
    <2> DEFINE Opened(q, types, ns) ==
                   {[types |-> {u}, code |-> 0, id |-> z.value[1], rest |-> z.rest] : u \in types, z \in ns}
               First(q) == IF q.value = Binary!Stop THEN {[types |-> {}, code |-> 0, id |-> 0, rest |-> q.rest]}
                           ELSE Opened(q, Binary!TypesOf(q.value[1]), Binary!NumberAt(2, q.rest))
    <2>9. Binary!FieldAt(s) = UNION {First(q) : q \in Binary!BytesAt(s, 1)}
        BY DEF Binary!FieldAt
    <2>10. Opened(x, {type}, {y}) = {Opening(type, 0, id, t)}
        BY <2>8 DEF Opening
    <2> HIDE DEF Opened
    <2>11. First(x) = Opened(x, {type}, {y})
        BY <1>1, <2>6, <2>7, <2>8 DEF Is
    <2> HIDE DEF First
    <2>12. Binary!FieldAt(s) = First(x)
        BY <2>5, <2>7, <2>9 DEF Is
    <2> QED
        BY <2>1, <2>10, <2>11, <2>12 DEF NextField, Is
<1>10. Len(h) \in Nat \ {0} /\ 0 \in Nat
    BY <1>8
<1> QED
    BY <1>4, <1>8, <1>9, <1>10 DEF HeaderGood

\* The stop.
LEMMA BinaryStop == ASSUME NEW last PROVE StopIsGood("binary", Binary!Stop, last)
<1>1. Binary!Stop = <<0>> /\ <<0>> \in Seq(Int) /\ Len(<<0>>) = 1
    BY DEF Binary!Stop
<1>2. PICK h \in Seq(Int) : h = Binary!Stop /\ Len(h) \in Nat \ {0} /\ h = <<0>>
    <2>1. Binary!Stop \in Seq(Int) /\ Len(Binary!Stop) \in Nat \ {0}
        BY <1>1
    <2> QED
        BY <1>1, <2>1
<1>3. ASSUME NEW t \in Seq(Int)
      PROVE  \E f : f.types = {} /\ f.rest = t /\ Is(NextField("binary", h \o t, last), f)
    <2>1. PICK s : Joins(s, h, t) /\ s = h \o t
        BY DEF Joins
    <2>2. Is(Binary!BytesAt(s, 1), Gives(h, t))
        BY <1>2, <2>1, ByteTaken
    <2>3. PICK x : x = Gives(h, t)
        OBVIOUS
    <2>4. x.value = Binary!Stop /\ x.rest = t
        BY <1>2, <2>3 DEF Gives
    <2>5. PICK f : f = [types |-> {}, code |-> 0, id |-> 0, rest |-> t]
        OBVIOUS
    <2>6. f.types = {} /\ f.rest = t
        BY <2>5
    <2> DEFINE Opened(q, types, ns) ==
                   {[types |-> {u}, code |-> 0, id |-> z.value[1], rest |-> z.rest] : u \in types, z \in ns}
               First(q) == IF q.value = Binary!Stop THEN {[types |-> {}, code |-> 0, id |-> 0, rest |-> q.rest]}
                           ELSE Opened(q, Binary!TypesOf(q.value[1]), Binary!NumberAt(2, q.rest))
    <2>7. Binary!FieldAt(s) = UNION {First(q) : q \in Binary!BytesAt(s, 1)}
        BY DEF Binary!FieldAt
    <2> HIDE DEF Opened
    <2>8. First(x) = {f}
        BY <2>4, <2>5
    <2> HIDE DEF First
    <2>9. Binary!FieldAt(s) = {f}
        BY <2>2, <2>3, <2>7, <2>8 DEF Is
    <2>10. Is(NextField("binary", h \o t, last), f)
        BY <2>1, <2>9 DEF NextField, Is
    <2> QED
        BY <2>6, <2>10
<1> QED
    BY <1>2, <1>3 DEF StopIsGood

\* A list is as long as an int32_t says.
SizeFits(n) == n \in Nat /\ n \div 65536 < 32768

\* The header of a list.
LEMMA BinaryCollection ==
    ASSUME NEW n \in Nat, SizeFits(n)
    PROVE  CollectionIsGood("binary", Binary!CollectionHeader("STRUCT", n), n)
<1>1. PICK c \in Int : c = Binary!Code["STRUCT"] /\ Is(Binary!TypesOf(c), "STRUCT")
    <2>1. "STRUCT" \in TypesInUse
        BY DEF TypesInUse, Nested
    <2> QED
        BY <2>1, BinaryTypes
<1>2. Wide(4, n)
    <2>1. Int16(n \div 65536)
        BY DEF Int16, SizeFits
    <2> QED
        BY <2>1, WideFour
<1>3. PICK e \in Seq(Int) : e = Binary!BigEndian(4, n)
    BY <1>2, SignedBack
<1>4. PICK h : h = Binary!CollectionHeader("STRUCT", n)
    OBVIOUS
<1>5. Joins(h, <<c>>, e)
    BY <1>1, <1>3, <1>4 DEF Binary!CollectionHeader, Joins
<1>6. <<c>> \in Seq(Int)
    OBVIOUS
<1>7. PICK a \in Seq(Int) : a = <<c>>
    BY <1>6
<1>8. h \in Seq(Int)
    BY <1>5, <1>7, JoinedTwo
<1>9. ASSUME NEW t \in Seq(Int)
      PROVE  Is(NextCollection("binary", h \o t), [types |-> <<"STRUCT">>, size |-> n, rest |-> t])
    <2>1. PICK s : Joins(s, h, t) /\ s = h \o t
        BY DEF Joins
    <2>2. PICK r : Joins(r, e, t)
        BY DEF Joins
    <2>3. r \in Seq(Int)
        BY <2>2, JoinedTwo
    <2>4. Joins(s, a, r)
        <3>1. Joins(h, a, e)
            BY <1>5, <1>7
        <3> QED
            BY <2>1, <2>2, <3>1, JoinedThree
    <2>5. Is(Binary!BytesAt(s, 1), Gives(<<c>>, r))
        BY <1>7, <2>3, <2>4, ByteTaken
    <2>6. Is(Binary!Sizes(Binary!NumberAt(4, r)), Gives(<<n>>, t))
        <3>1. PICK S : S = Binary!NumberAt(4, r)
            OBVIOUS
        <3>2. Is(S, Gives(<<n>>, t))
            BY <1>2, <1>3, <2>2, <3>1, NumberTaken
        <3> QED
            BY <3>1, <3>2, SizeTaken
    <2>7. PICK x, y : x = Gives(<<c>>, r) /\ y = Gives(<<n>>, t)
        OBVIOUS
    <2>8. x.value[1] = c /\ x.rest = r /\ y.value[1] = n /\ y.rest = t
        BY <2>7 DEF Gives
    <2> DEFINE Sized(types, ns) ==
                   {[types |-> <<u>>, size |-> z.value[1], rest |-> z.rest] : u \in types, z \in ns}
               First(q) == Sized(Binary!TypesOf(q.value[1]), Binary!Sizes(Binary!NumberAt(4, q.rest)))
    <2>9. Binary!CollectionAt(s) = UNION {First(q) : q \in Binary!BytesAt(s, 1)}
        BY DEF Binary!CollectionAt
    <2>10. Sized({"STRUCT"}, {y}) = {[types |-> <<"STRUCT">>, size |-> n, rest |-> t]}
        BY <2>8
    <2> HIDE DEF Sized
    <2>11. First(x) = Sized({"STRUCT"}, {y})
        BY <1>1, <2>6, <2>7, <2>8 DEF Is
    <2> HIDE DEF First
    <2>12. Binary!CollectionAt(s) = First(x)
        BY <2>5, <2>7, <2>9 DEF Is
    <2> QED
        BY <2>1, <2>10, <2>11, <2>12 DEF NextCollection, Is
<1> QED
    BY <1>4, <1>8, <1>9 DEF CollectionIsGood

-----------------------------------------------------------------------------
(* What the C++ types hold, the compact protocol carries. *)

\* Twice a number of sixteen bits less, and one more.
LEMMA Halved ==
    ASSUME NEW a \in Nat, NEW b \in Nat, a <= 2 * b + 1
    PROVE  a \div 65536 \in Nat /\ b \div 65536 \in Nat /\ a \div 65536 <= 2 * (b \div 65536) + 1
OBVIOUS

\* A number of 64 bits is one after zigzag.
LEMMA LongFits ==
    ASSUME NEW n \in Int, Int16(((n \div 65536) \div 65536) \div 65536)
    PROVE  Short(ZigZag(n))
<1>1. PICK z \in Nat : z = ZigZag(n)
    BY ZigZagBack
<1>2. PICK b \in Nat : z <= 2 * b + 1 /\ ((b \div 65536) \div 65536) \div 65536 <= 32767
    <2>1. CASE n >= 0
        <3>1. z = 2 * n /\ n \in Nat
            BY <1>1, <2>1 DEF ZigZag
        <3>2. ((n \div 65536) \div 65536) \div 65536 <= 32767
            BY DEF Int16
        <3> QED
            BY <3>1, <3>2
    <2>2. CASE ~(n >= 0)
        <3>1. z = -2 * n - 1 /\ -n - 1 \in Nat
            BY <1>1, <2>2 DEF ZigZag
        <3>2. \A m \in Int : m \div 65536 \in Int /\ (-m - 1) \div 65536 = -(m \div 65536) - 1
            OBVIOUS
        <3>3. PICK n1 \in Int : n1 = n \div 65536 /\ (-n - 1) \div 65536 = -n1 - 1
            BY <3>2
        <3>4. PICK n2 \in Int : n2 = n1 \div 65536 /\ (-n1 - 1) \div 65536 = -n2 - 1
            BY <3>2
        <3>5. PICK n3 \in Int : n3 = n2 \div 65536 /\ (-n2 - 1) \div 65536 = -n3 - 1
            BY <3>2
        <3>6. -32768 <= n3
            BY <3>3, <3>4, <3>5 DEF Int16
        <3>7. PICK b \in Nat : b = -n - 1
            BY <3>1
        <3>8. b \div 65536 = -n1 - 1
            BY <3>3, <3>7
        <3>9. ((b \div 65536) \div 65536) \div 65536 = -n3 - 1
            BY <3>4, <3>5, <3>8
        <3>10. z = 2 * b + 1
            BY <3>1, <3>7
        <3> QED
            BY <3>6, <3>9, <3>10
    <2> QED
        BY <2>1, <2>2
<1>3. PICK z1 \in Nat, b1 \in Nat : z1 = z \div 65536 /\ b1 = b \div 65536 /\ z1 <= 2 * b1 + 1
    BY <1>2, Halved
<1>4. PICK z2 \in Nat, b2 \in Nat : z2 = z1 \div 65536 /\ b2 = b1 \div 65536 /\ z2 <= 2 * b2 + 1
    BY <1>3, Halved
<1>5. PICK z3 \in Nat, b3 \in Nat : z3 = z2 \div 65536 /\ b3 = b2 \div 65536 /\ z3 <= 2 * b3 + 1
    BY <1>4, Halved
<1>6. b3 <= 32767
    BY <1>2, <1>3, <1>4, <1>5
<1>7. z3 < 65536
    BY <1>5, <1>6
<1>8. Word(z)
    BY <1>3, <1>4, <1>5, <1>7 DEF Word
<1> QED
    BY <1>1, <1>8, WordsAreShort

\* A number of fewer bits is one of 64.
LEMMA FewerFit == ASSUME NEW n \in Int PROVE Int16(n) => n \div 65536 \in Int /\ Int16(n \div 65536)
BY DEF Int16

\* A size is short.
LEMMA SizeIsShort == ASSUME NEW n \in Nat, SizeFits(n) PROVE Short(n)
<1>1. PICK m \in Nat : m = n \div 65536 /\ m < 32768
    BY DEF SizeFits
<1>2. m \div 65536 = 0
    BY <1>1
<1>3. 0 \div 65536 = 0
    OBVIOUS
<1>4. Word(n)
    BY <1>1, <1>2, <1>3 DEF Word
<1> QED
    BY <1>4, WordsAreShort

\* Values of the C++ types are carried.
LEMMA HeldIsCarried ==
    ASSUME NEW type \in {"I16", "I32", "I64", "BOOL", "STRING", "DOUBLE"}, NEW v, Held(type, v)
    PROVE  Carried(type, v)
<1>1. ASSUME NEW n \in Int, v = <<n>>, type \in {"I16", "I32", "I64"},
             Int16(((n \div 65536) \div 65536) \div 65536)
      PROVE  Carried(type, v)
    <2>1. v[1] = n /\ Short(ZigZag(n))
        BY <1>1, LongFits
    <2>2. v[1] \in Int /\ v = <<v[1]>> /\ Short(ZigZag(v[1]))
        BY <1>1, <2>1
    <2>3. type \in Integer
        BY <1>1 DEF Integer
    <2>4. CASE type = "I16"
        BY <2>2, <2>3, <2>4, Zenon DEF Carried
    <2>5. CASE type = "I32"
        BY <2>2, <2>3, <2>5, Zenon DEF Carried
    <2>6. CASE type = "I64"
        BY <2>2, <2>3, <2>6, SMT DEF Carried
    <2> QED
        BY <1>1, <2>4, <2>5, <2>6
<1>2. CASE type = "I16"
    <2>1. PICK n \in Int : v = <<n>> /\ Int16(n)
        BY <1>2 DEF Held, Int16
    <2>2. PICK a \in Int : a = n \div 65536 /\ Int16(a)
        BY <2>1, FewerFit
    <2>3. PICK b \in Int : b = a \div 65536 /\ Int16(b)
        BY <2>2, FewerFit
    <2>4. Int16(b \div 65536)
        BY <2>3, FewerFit
    <2> QED
        BY <1>1, <1>2, <2>1, <2>2, <2>3, <2>4
<1>3. CASE type = "I32"
    <2>1. PICK n \in Int : v = <<n>> /\ Int16(n \div 65536)
        BY <1>3 DEF Held
    <2>2. PICK a \in Int : a = n \div 65536 /\ Int16(a)
        BY <2>1
    <2>3. PICK b \in Int : b = a \div 65536 /\ Int16(b)
        BY <2>2, FewerFit
    <2>4. Int16(b \div 65536)
        BY <2>3, FewerFit
    <2> QED
        BY <1>1, <1>3, <2>1, <2>2, <2>3, <2>4
<1>4. CASE type = "I64"
    <2>1. PICK n \in Int : v = <<n>> /\ Int16(((n \div 65536) \div 65536) \div 65536)
        BY <1>4 DEF Held
    <2> QED
        BY <1>1, <1>4, <2>1
<1>5. CASE type = "BOOL"
    BY <1>5 DEF Held, Carried, Integer
<1>6. Bytes \subseteq Int
    BY DEF Bytes
<1>7. CASE type = "STRING"
    <2>1. v \in Seq(Bytes) /\ Len(v) \div 65536 < 32768
        BY <1>7 DEF Held
    <2>2. v \in Seq(Bytes)
        BY <2>1
    <2>3. v \in Seq(Int)
        BY <1>6, <2>2, SeqMonotonic
    <2>4. Len(v) \in Nat
        BY <2>3, LenProperties
    <2>5. Short(Len(v))
        BY <2>1, <2>4, SizeIsShort DEF SizeFits
    <2> QED
        BY <1>7, <2>3, <2>5 DEF Carried, Integer
<1>8. CASE type = "DOUBLE"
    <2>1. v \in Seq(Bytes) /\ Len(v) = 8
        BY <1>8 DEF Held
    <2>2. v \in Seq(Bytes)
        BY <2>1
    <2>3. v \in Seq(Int)
        BY <1>6, <2>2, SeqMonotonic
    <2> QED
        BY <1>8, <2>1, <2>3 DEF Carried, Integer
<1> QED
    BY <1>2, <1>3, <1>4, <1>5, <1>7, <1>8

-----------------------------------------------------------------------------
(* The headers of both. *)

\* The bytes of a field's header, where it is not a boolean of the compact protocol.
LEMMA HeadersAreGood ==
    ASSUME NEW last \in Int, NEW id \in Int, id \in 1..12, NEW type \in TypesInUse
    PROVE  /\ HeaderGood("binary", Binary!FieldHeader(type, id), last, type, 0, id)
           /\ type # "BOOL" => HeaderGood("compact", FieldHeader(CType[type], id, last), last, type, CType[type], id)
           /\ \A v \in {<<0>>, <<1>>} :
                 type = "BOOL" => HeaderGood("compact", FieldHeader(BoolCode(v), id, last), last, type, BoolCode(v), id)
<1>1. HeaderGood("binary", Binary!FieldHeader(type, id), last, type, 0, id)
    BY BinaryHeader
<1>2. ASSUME type # "BOOL"
      PROVE  HeaderGood("compact", FieldHeader(CType[type], id, last), last, type, CType[type], id)
    <2>1. PICK c \in 1..12 : c = CType[type] /\ OnlyType(c, type)
        BY <1>2, TypeCodes DEF TypesInUse, Nested, Types
    <2> QED
        BY <2>1, CompactHeader
<1>3. ASSUME type = "BOOL", NEW v \in {<< 0 >>, << 1 >>}
      PROVE  HeaderGood("compact", FieldHeader(BoolCode(v), id, last), last, type, BoolCode(v), id)
    <2>1. PICK c \in 1..12 : c = BoolCode(v) /\ OnlyType(c, type)
        BY <1>3, TypeCodes DEF TypesInUse, Nested, Types
    <2> QED
        BY <2>1, CompactHeader
<1> QED
    BY <1>1, <1>2, <1>3
=============================================================================
