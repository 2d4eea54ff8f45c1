--------------------------- MODULE NumericProofs ---------------------------
(* What the integers of templates obey, whatever the width of a word. *)
EXTENDS Numeric, TLAPS

(* The two kinds of numbers, for the provers. *)
LEMMA NumberKinds ==
  ASSUME NEW v \in Numbers
  PROVE  /\ v.n \in Int
         /\ \/ v.t = "int" /\ v.n >= -MaxInt - 1 /\ v.n <= MaxInt
            \/ v.t = "uint" /\ v.n >= 0 /\ v.n <= MaxUint
BY MaxIntAssumption DEF Numbers, SignedRange, UnsignedRange, MaxUint

LEMMA UnsignedWordsKeepNaturals ==
  ASSUME NEW n \in Int, n >= 0, n <= MaxUint
  PROVE  AsUint64(n) = n
BY MaxIntAssumption DEF AsUint64, MaxUint

(* README.md: "Numeric equality and ordering are safe across common Go numeric
   types."  Comparing a signed number with an unsigned one never converts one that
   does not fit: the answer is that of the integers they stand for.          *)
THEOREM ComparisonsAreExact ==
  ASSUME NEW l \in Numbers, NEW r \in Numbers
  PROVE  /\ CompareNumericEquality(l, r) <=> l.n = r.n
         /\ \A op \in Orders : CompareNumericOrdered(op, l, r) <=> Ordered(op, l.n, r.n)
<1>1. CompareNumericEquality(l, r) <=> l.n = r.n
  BY NumberKinds, MaxIntAssumption DEF CompareNumericEquality, IsInt64, IsUint64, MaxUint
<1>2. ASSUME NEW op \in Orders
      PROVE  CompareNumericOrdered(op, l, r) <=> Ordered(op, l.n, r.n)
  <2>1. CASE l.t = r.t
    BY <2>1 DEF CompareNumericOrdered
  <2>2. CASE l.t # r.t /\ l.t = "int" /\ l.n < 0
    <3>1. l.n < r.n /\ l.n \in Int /\ r.n \in Int
      BY <2>2, NumberKinds, MaxIntAssumption DEF MaxUint
    <3>2. CompareNumericOrdered(op, l, r) <=> op \in {"<", "<="}
      BY <2>2 DEF CompareNumericOrdered
    <3>. QED  BY <3>1, <3>2 DEF Ordered, Orders
  <2>3. CASE l.t # r.t /\ r.t = "int" /\ r.n < 0
    <3>1. r.n < l.n /\ l.n \in Int /\ r.n \in Int /\ ~(l.t = "int" /\ l.n < 0)
      BY <2>3, NumberKinds, MaxIntAssumption DEF MaxUint
    <3>2. CompareNumericOrdered(op, l, r) <=> op \in {">", ">="}
      BY <2>3, <3>1 DEF CompareNumericOrdered
    <3>. QED  BY <3>1, <3>2 DEF Ordered, Orders
  <2>4. CASE l.t # r.t /\ ~(l.t = "int" /\ l.n < 0) /\ ~(r.t = "int" /\ r.n < 0)
    <3>1. /\ l.n \in Int /\ l.n >= 0 /\ l.n <= MaxUint
          /\ r.n \in Int /\ r.n >= 0 /\ r.n <= MaxUint
      BY <2>4, NumberKinds, MaxIntAssumption DEF MaxUint
    <3>2. AsUint64(l.n) = l.n /\ AsUint64(r.n) = r.n
      BY <3>1, UnsignedWordsKeepNaturals
    <3>. QED  BY <2>4, <3>2 DEF CompareNumericOrdered
  <2>. QED  BY <2>1, <2>2, <2>3, <2>4
<1>. QED  BY <1>1, <1>2

-----------------------------------------------------------------------------
LEMMA NarrowingKeepsTheNumber ==
  ASSUME NEW v \in Numbers
  PROVE  /\ Narrowed(v) \in Numbers
         /\ Narrowed(v).n = v.n
         /\ IsInt64(Narrowed(v)) <=> IsInt64(v)
         /\ IsUint64(Narrowed(v)) <=> IsUint64(v)
<1>1. CASE v.t = "uint" /\ IsInt64(v)
  <2>1. Narrowed(v) = Num(v.n)
    BY <1>1 DEF Narrowed
  <2>2. v.n \in SignedRange /\ v.n >= 0
    BY <1>1, NumberKinds, MaxIntAssumption DEF IsInt64, SignedRange, MaxUint
  <2>3. Num(v.n) \in Numbers
    BY <2>2 DEF Num, Numbers
  <2>. QED  BY <1>1, <2>1, <2>2, <2>3 DEF Num, IsInt64, IsUint64
<1>2. CASE ~(v.t = "uint" /\ IsInt64(v))
  BY <1>2 DEF Narrowed
<1>. QED  BY <1>1, <1>2

(* The machine makes an unsigned number signed as soon as it fits, the interpreter
   never does (object.Wrap and unsignedNumericObject in vm/).  No template can tell:
   whatever is computed or compared next has the same outcome.  This is the step by
   which the engines agree on an expression of any depth.                    *)
THEOREM NarrowingIsInvisible ==
  ASSUME NEW l \in Numbers, NEW r \in Numbers
  PROVE  /\ \A op \in Operations :
              NumericOperationObject(op, Narrowed(l), Narrowed(r)) = Narrowed(NumericArithmetic(op, l, r))
         /\ CompareNumericEquality(Narrowed(l), Narrowed(r)) <=> CompareNumericEquality(l, r)
         /\ \A op \in Orders :
              CompareNumericOrdered(op, Narrowed(l), Narrowed(r)) <=> CompareNumericOrdered(op, l, r)
<1>1. /\ Narrowed(l) \in Numbers /\ Narrowed(l).n = l.n
      /\ Narrowed(r) \in Numbers /\ Narrowed(r).n = r.n
  BY NarrowingKeepsTheNumber
<1>2. ASSUME NEW op \in Operations
      PROVE  NumericArithmetic(op, Narrowed(l), Narrowed(r)) = NumericArithmetic(op, l, r)
  BY <1>1, NarrowingKeepsTheNumber DEF NumericArithmetic
<1>3. CompareNumericEquality(Narrowed(l), Narrowed(r)) <=> CompareNumericEquality(l, r)
  BY <1>1, ComparisonsAreExact
<1>4. ASSUME NEW op \in Orders
      PROVE  CompareNumericOrdered(op, Narrowed(l), Narrowed(r)) <=> CompareNumericOrdered(op, l, r)
  BY <1>1, ComparisonsAreExact
<1>. QED  BY <1>2, <1>3, <1>4 DEF NumericOperationObject

-----------------------------------------------------------------------------
LEMMA SignedWords ==
  ASSUME NEW n \in Int
  PROVE  /\ AsInt64(n) \in SignedRange
         /\ n \in SignedRange => AsInt64(n) = n
BY MaxIntAssumption DEF AsInt64, SignedRange, MaxUint

LEMMA NaturalQuotients ==
  ASSUME NEW a \in Nat, NEW b \in Nat, b > 0
  PROVE  /\ a \div b \in Nat
         /\ b * (a \div b) <= a
         /\ a \div b <= a
OBVIOUS

LEMMA ProductsUpTo ==
  ASSUME NEW a \in Nat, NEW b \in Nat, NEW q \in Nat, a <= q
  PROVE  a * b <= b * q
OBVIOUS

LEMMA ExactIsInteger ==
  ASSUME NEW op \in Operations, NEW l \in Int, NEW r \in Int, op = "/" => r # 0
  PROVE  Exact(op, l, r) \in Int
BY DEF Exact, Operations, Quotient

(* An operation gives a number of a word or an error, and a number that is not the
   exact one only if both operands fit in a signed word: then it wraps around, even
   if an unsigned word could hold it; else it is exact, or an error.         *)
THEOREM ArithmeticIsExactOrWraps ==
  ASSUME NEW l \in Numbers, NEW r \in Numbers, NEW op \in Operations,
         NumericArithmetic(op, l, r) # NoNumber
  PROVE  /\ NumericArithmetic(op, l, r) \in Numbers
         /\ NumericArithmetic(op, l, r).n # Exact(op, l.n, r.n) =>
              IsInt64(l) /\ IsInt64(r) /\ Exact(op, l.n, r.n) \notin SignedRange
<1>. l.n \in Int /\ r.n \in Int
  BY NumberKinds
<1>1. CASE IsInt64(l) /\ IsInt64(r)
  <2>1. NumericArithmetic(op, l, r) = SignedArithmetic(op, l.n, r.n)
    BY <1>1 DEF NumericArithmetic
  <2>2. ~(op = "/" /\ r.n = 0) /\ NumericArithmetic(op, l, r) = Num(AsInt64(Exact(op, l.n, r.n)))
    BY <2>1 DEF SignedArithmetic
  <2>3. Exact(op, l.n, r.n) \in Int
    BY <2>2, ExactIsInteger
  <2>. QED  BY <1>1, <2>2, <2>3, SignedWords DEF Num, Numbers
<1>2. CASE ~(IsInt64(l) /\ IsInt64(r))
  <2>1. IsUint64(l) /\ IsUint64(r) /\ NumericArithmetic(op, l, r) = UnsignedArithmetic(op, l.n, r.n)
    BY <1>2 DEF NumericArithmetic
  <2>2. /\ ~(op = "+" /\ MaxUint - l.n < r.n) /\ ~(op = "-" /\ l.n < r.n)
        /\ ~(op = "*" /\ r.n # 0 /\ l.n > MaxUint \div r.n) /\ ~(op = "/" /\ r.n = 0)
        /\ NumericArithmetic(op, l, r) = Uint(Exact(op, l.n, r.n))
    BY <2>1 DEF UnsignedArithmetic
  <2>3. /\ l.n \in Nat /\ l.n <= MaxUint
        /\ r.n \in Nat /\ r.n <= MaxUint /\ MaxUint \in Nat
    BY <2>1, NumberKinds, MaxIntAssumption DEF IsUint64, MaxUint
  <2>4. Exact(op, l.n, r.n) \in UnsignedRange
    <3>1. CASE op = "+"
      BY <2>2, <2>3, <3>1 DEF Exact, UnsignedRange
    <3>2. CASE op = "-"
      BY <2>2, <2>3, <3>2 DEF Exact, UnsignedRange
    <3>3. CASE op = "*" /\ r.n = 0
      BY <2>3, <3>3 DEF Exact, UnsignedRange
    <3>4. CASE op = "*" /\ r.n # 0
      <4>1. l.n * r.n <= r.n * (MaxUint \div r.n)
        BY <2>2, <2>3, <3>4, NaturalQuotients, ProductsUpTo
      <4>2. r.n * (MaxUint \div r.n) <= MaxUint
        BY <2>3, <3>4, NaturalQuotients
      <4>3. l.n * r.n \in Nat /\ r.n * (MaxUint \div r.n) \in Int
        BY <2>3, <3>4, NaturalQuotients
      <4>. QED  BY <2>3, <3>4, <4>1, <4>2, <4>3 DEF Exact, UnsignedRange
    <3>5. CASE op = "/"
      <4>1. Exact(op, l.n, r.n) = l.n \div r.n
        BY <2>2, <2>3, <3>5 DEF Exact, Quotient
      <4>. QED  BY <2>2, <2>3, <3>5, <4>1, NaturalQuotients DEF UnsignedRange
    <3>. QED  BY <3>1, <3>2, <3>3, <3>4, <3>5 DEF Operations
  <2>. QED  BY <2>2, <2>4 DEF Uint, Numbers
<1>. QED  BY <1>1, <1>2
=============================================================================
