------------------------------ MODULE Numeric ------------------------------
(* The integers a template computes with (src/numeric.go for the interpreter,
   src/vm/vm/numeric.go for the virtual machine): a number is signed or unsigned,
   of the width of a machine word, and operators mix the two.  Floats are left
   out.  The engines' copies of the code differ in what becomes of an unsigned
   number that a signed one can hold: the machine makes it signed (Narrowed).  *)
EXTENDS Integers

CONSTANT MaxInt                                          \* math.MaxInt64
ASSUME MaxIntAssumption == MaxInt \in Nat

MaxUint == 2 * MaxInt + 1                                \* math.MaxUint64
Num(n)  == [t |-> "int", n |-> n]
Uint(n) == [t |-> "uint", n |-> n]
SignedRange   == (-MaxInt - 1)..MaxInt
UnsignedRange == 0..MaxUint
Numbers == [t : {"int"}, n : SignedRange] \cup [t : {"uint"}, n : UnsignedRange]
NoNumber == [t |-> "none"]                               \* an error
IsNumber(v) == v.t \in {"int", "uint"}

(* What a word keeps of an integer. *)
AsUint64(n) == n % (MaxUint + 1)
AsInt64(n)  == ((n + MaxInt + 1) % (MaxUint + 1)) - MaxInt - 1

(* Whether the methods int64() and uint64() have a value for a number. *)
IsInt64(v)  == v.t = "int" \/ v.n <= MaxInt
IsUint64(v) == v.t = "uint" \/ v.n >= 0
Narrowed(v) == IF v.t = "uint" /\ IsInt64(v) THEN Num(v.n) ELSE v

-----------------------------------------------------------------------------
(* Comparisons. *)
CompareNumericEquality(l, r) ==
  IF IsInt64(l) /\ IsInt64(r) THEN l.n = r.n
  ELSE IsUint64(l) /\ IsUint64(r) /\ l.n = r.n

Orders == {"<", "<=", ">", ">="}
Ordered(op, l, r) ==
  \/ op = "<" /\ l < r
  \/ op = ">" /\ l > r
  \/ op = "<=" /\ l <= r
  \/ op = ">=" /\ l >= r
CompareNumericOrdered(op, l, r) ==
  IF l.t = r.t THEN Ordered(op, l.n, r.n)
  ELSE IF l.t = "int" /\ l.n < 0 THEN op \in {"<", "<="}
  ELSE IF r.t = "int" /\ r.n < 0 THEN op \in {">", ">="}
  ELSE Ordered(op, AsUint64(l.n), AsUint64(r.n))

-----------------------------------------------------------------------------
(* Arithmetic: signed if both numbers fit in a signed one, and then it wraps
   around; else unsigned, and then it does not.                              *)
Operations == {"+", "-", "*", "/"}
Quotient(l, r) ==
  CASE l >= 0 /\ r > 0 -> l \div r
    [] l >= 0 /\ r < 0 -> -(l \div (-r))
    [] l < 0 /\ r > 0  -> -((-l) \div r)
    [] OTHER           -> (-l) \div (-r)
Exact(op, l, r) ==
  CASE op = "+" -> l + r [] op = "-" -> l - r [] op = "*" -> l * r [] op = "/" -> Quotient(l, r)

SignedArithmetic(op, l, r) ==
  IF op = "/" /\ r = 0 THEN NoNumber ELSE Num(AsInt64(Exact(op, l, r)))
UnsignedArithmetic(op, l, r) ==
  IF \/ op = "+" /\ MaxUint - l < r
     \/ op = "-" /\ l < r
     \/ op = "*" /\ r # 0 /\ l > MaxUint \div r
     \/ op = "/" /\ r = 0
  THEN NoNumber ELSE Uint(Exact(op, l, r))
NumericArithmetic(op, l, r) ==
  IF IsInt64(l) /\ IsInt64(r) THEN SignedArithmetic(op, l.n, r.n)
  ELSE IF IsUint64(l) /\ IsUint64(r) THEN UnsignedArithmetic(op, l.n, r.n)
  ELSE NoNumber
NumericOperationObject(op, l, r) == Narrowed(NumericArithmetic(op, l, r))
=============================================================================
