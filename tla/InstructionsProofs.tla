------------------------- MODULE InstructionsProofs -------------------------
(***************************************************************************)
(* What is written can be read, for any market, arguments and snapshots    *)
(* whose numbers are of the types that the program declares: the account   *)
(* by the dashboard's decoder, an instruction by the program, by the other *)
(* clients and by the timeline.                                            *)
(***************************************************************************)
EXTENDS Instructions, WellFoundedInduction, SequenceTheorems, TLAPS

Byte == 0 .. 255

-----------------------------------------------------------------------------
(* Integers.                                                               *)

(* A set of natural numbers that holds 0 and with each its successor is    *)
(* the whole of them.                                                      *)
LEMMA Induction ==
  ASSUME NEW S, 0 \in S, \A k \in Nat : k \in S => k + 1 \in S
  PROVE  Nat \subseteq S
<1> DEFINE Less == OpToRel(<, Nat)
           Rest == Nat \ S
<1>1. SUFFICES ASSUME Rest # {} PROVE FALSE
  OBVIOUS
<1>2. IsWellFoundedOn(Less, Nat)
  BY NatLessThanWellFounded
<1>3. PICK k \in Rest : \A l \in Rest : <<l, k>> \notin Less
  <2> HIDE DEF Less
  <2> QED
    BY <1>1, <1>2, WFMin
<1>4. \A l \in Nat : l < k => <<l, k>> \in Less
  BY <1>3 DEF OpToRel
<1> HIDE DEF Less
<1>5. \A l \in Nat : l < k => l \in S
  BY <1>3, <1>4
<1>6. k # 0 /\ k - 1 \in S
  BY <1>3, <1>5
<1> QED
  BY <1>3, <1>6

(* The recursive definition of Shifted has a solution.                     *)
Shifts(n, k, rest) ==
  rest = [i \in 0 .. k |-> IF i = 0 THEN n ELSE rest[i - 1] \div 256]

LEMMA ShiftsExist ==
  ASSUME NEW n
  PROVE  \A k \in Nat : \E rest : Shifts(n, k, rest)
<1> DEFINE S == {k \in Nat : \E rest : Shifts(n, k, rest)}
<1>1. 0 \in S
  <2>1. Shifts(n, 0, [i \in 0 .. 0 |-> n])
    BY DEF Shifts
  <2> QED
    BY <2>1
<1>2. ASSUME NEW k \in Nat, k \in S PROVE k + 1 \in S
  <2>1. PICK rest : Shifts(n, k, rest)
    BY <1>2
  <2> DEFINE more == [i \in 0 .. k + 1 |-> IF i = k + 1 THEN rest[k] \div 256 ELSE rest[i]]
  <2>2. \A i \in 0 .. k : rest[i] = IF i = 0 THEN n ELSE rest[i - 1] \div 256
    BY <2>1 DEF Shifts
  <2>3. ASSUME NEW i \in 0 .. k + 1
        PROVE  more[i] = IF i = 0 THEN n ELSE more[i - 1] \div 256
    BY <2>2
  <2>4. Shifts(n, k + 1, more)
    BY <2>3 DEF Shifts
  <2> QED
    BY <2>4
<1> HIDE DEF S
<1>3. Nat \subseteq S
  BY <1>1, <1>2, Induction
<1> QED
  BY <1>3 DEF S

(* The solutions agree.                                                    *)
LEMMA ShiftsAgree ==
  ASSUME NEW n, NEW k \in Nat, NEW l \in Nat, NEW r, NEW s,
         Shifts(n, k, r), Shifts(n, l, s)
  PROVE  \A i \in Nat : i <= k /\ i <= l => r[i] = s[i]
<1> DEFINE S == {i \in Nat : i <= k /\ i <= l => r[i] = s[i]}
<1>1. /\ \A i \in 0 .. k : r[i] = IF i = 0 THEN n ELSE r[i - 1] \div 256
      /\ \A i \in 0 .. l : s[i] = IF i = 0 THEN n ELSE s[i - 1] \div 256
  BY DEF Shifts
<1>2. 0 \in S
  BY <1>1
<1>3. ASSUME NEW i \in Nat, i \in S PROVE i + 1 \in S
  BY <1>1, <1>3
<1> HIDE DEF S
<1>4. Nat \subseteq S
  BY <1>2, <1>3, Induction
<1> QED
  BY <1>4 DEF S

LEMMA ShiftedIs ==
  ASSUME NEW n, NEW k \in Nat
  PROVE  \E rest : Shifts(n, k, rest) /\ Shifted(n, k) = rest[k]
<1> DEFINE rest == CHOOSE r : Shifts(n, k, r)
<1>1. Shifts(n, k, rest)
  BY ShiftsExist
<1>2. Shifted(n, k) = rest[k]
  BY DEF Shifted, Shifts
<1> QED
  BY <1>1, <1>2

(* Shifting one byte further divides by 256.                               *)
LEMMA ShiftedOnce ==
  ASSUME NEW n
  PROVE  /\ Shifted(n, 0) = n
         /\ \A k \in Nat : Shifted(n, k + 1) = Shifted(n, k) \div 256
<1>1. Shifted(n, 0) = n
  BY ShiftedIs DEF Shifts
<1>2. ASSUME NEW k \in Nat PROVE Shifted(n, k + 1) = Shifted(n, k) \div 256
  <2>1. PICK r : Shifts(n, k, r) /\ Shifted(n, k) = r[k]
    BY ShiftedIs
  <2>2. PICK s : Shifts(n, k + 1, s) /\ Shifted(n, k + 1) = s[k + 1]
    BY ShiftedIs
  <2>3. s[k + 1] = s[k] \div 256
    BY <2>2 DEF Shifts
  <2>4. r[k] = s[k]
    BY <2>1, <2>2, ShiftsAgree
  <2> QED
    BY <2>1, <2>2, <2>3, <2>4
<1> QED
  BY <1>1, <1>2

LEMMA ShiftedInt ==
  ASSUME NEW n \in Int
  PROVE  \A k \in Nat : Shifted(n, k) \in Int
<1> DEFINE S == {k \in Nat : Shifted(n, k) \in Int}
<1>1. 0 \in S
  BY ShiftedOnce
<1>2. ASSUME NEW k \in Nat, k \in S PROVE k + 1 \in S
  <2>1. Shifted(n, k + 1) = Shifted(n, k) \div 256
    BY ShiftedOnce
  <2> QED
    BY <1>2, <2>1
<1> HIDE DEF S
<1>3. Nat \subseteq S
  BY <1>1, <1>2, Induction
<1> QED
  BY <1>3 DEF S

LEMMA LEBytes ==
  ASSUME NEW n \in Int, NEW w \in Nat
  PROVE  /\ LE(n, w) \in Seq(Byte) /\ Len(LE(n, w)) = w
         /\ \A i \in 1 .. w : LE(n, w)[i] = Shifted(n, i - 1) % 256
<1>1. \A i \in 1 .. w : Shifted(n, i - 1) % 256 \in Byte
  <2> TAKE i \in 1 .. w
  <2>1. Shifted(n, i - 1) \in Int
    BY ShiftedInt
  <2>2. \A x \in Int : x % 256 \in Byte
    BY DEF Byte
  <2> QED
    BY <2>1, <2>2
<1>2. LE(n, w) \in [1 .. w -> Byte]
  BY <1>1 DEF LE
<1> QED
  BY <1>2 DEF LE

(* A last byte tells a number between bounds.                              *)
LEMMA SameByte ==
  ASSUME NEW x, NEW y, x % 256 = y % 256,
         \/ x \in 0 .. 255 /\ y \in 0 .. 255
         \/ x \in -128 .. 127 /\ y \in -128 .. 127
  PROVE  x = y
<1>1. \A z \in Int : 0 <= z /\ z <= 255 => z % 256 = z
  OBVIOUS
<1>2. \A z \in Int : -128 <= z /\ z < 0 => z % 256 = z + 256
  OBVIOUS
<1>3. x \in Int /\ y \in Int
  OBVIOUS
<1>4. x % 256 = IF x < 0 THEN x + 256 ELSE x
  BY <1>1, <1>2, <1>3
<1>5. y % 256 = IF y < 0 THEN y + 256 ELSE y
  BY <1>1, <1>2, <1>3
<1> QED
  BY <1>3, <1>4, <1>5

(* An integer of a type of w bytes is told by them.                        *)
LEMMA LETells ==
  ASSUME NEW m, NEW n, NEW w \in Nat \ {0},
         \/ Unsigned(m, w) /\ Unsigned(n, w)
         \/ Signed(m, w) /\ Signed(n, w),
         LE(m, w) = LE(n, w)
  PROVE  m = n
<1> DEFINE S == {j \in Nat : j < w => Shifted(m, w - 1 - j) = Shifted(n, w - 1 - j)}
<1>1. m \in Int /\ n \in Int
  BY DEF Unsigned, Signed
<1>2. \A k \in 0 .. w - 1 : /\ Shifted(m, k) \in Int /\ Shifted(n, k) \in Int
                            /\ Shifted(m, k) % 256 = Shifted(n, k) % 256
  <2> TAKE k \in 0 .. w - 1
  <2>1. k + 1 \in 1 .. w /\ k + 1 - 1 = k
    OBVIOUS
  <2>2. /\ LE(m, w)[k + 1] = Shifted(m, k + 1 - 1) % 256
        /\ LE(n, w)[k + 1] = Shifted(n, k + 1 - 1) % 256
    BY <2>1 DEF LE
  <2>3. Shifted(m, k) \in Int /\ Shifted(n, k) \in Int
    BY <1>1, ShiftedInt
  <2> QED
    BY <2>1, <2>2, <2>3
<1>3. 0 \in S
  <2>1. w - 1 \in 0 .. w - 1
    OBVIOUS
  <2>2. Shifted(m, w - 1) % 256 = Shifted(n, w - 1) % 256
    BY <1>2, <2>1
  <2> HIDE DEF S
  <2>3. ASSUME Unsigned(m, w), Unsigned(n, w)
        PROVE  Shifted(m, w - 1) = Shifted(n, w - 1)
    BY <2>2, <2>3, SameByte DEF Unsigned
  <2>4. ASSUME Signed(m, w), Signed(n, w)
        PROVE  Shifted(m, w - 1) = Shifted(n, w - 1)
    BY <2>2, <2>4, SameByte DEF Signed
  <2>5. w - 1 - 0 = w - 1
    OBVIOUS
  <2>6. Shifted(m, w - 1) = Shifted(n, w - 1)
    BY <2>3, <2>4
  <2> QED
    BY <2>5, <2>6 DEF S
<1>4. ASSUME NEW j \in Nat, j \in S PROVE j + 1 \in S
  <2> SUFFICES ASSUME j + 1 < w
               PROVE  Shifted(m, w - 1 - (j + 1)) = Shifted(n, w - 1 - (j + 1))
    OBVIOUS
  <2> DEFINE k == w - 1 - (j + 1)
  <2>1. k \in 0 .. w - 1 /\ k \in Nat /\ k + 1 = w - 1 - j
    OBVIOUS
  <2>2. Shifted(m, k + 1) = Shifted(n, k + 1)
    BY <1>4, <2>1
  <2>3. /\ Shifted(m, k + 1) = Shifted(m, k) \div 256
        /\ Shifted(n, k + 1) = Shifted(n, k) \div 256
    BY <2>1, ShiftedOnce
  <2>4. \A x, y \in Int : x \div 256 = y \div 256 /\ x % 256 = y % 256 => x = y
    OBVIOUS
  <2> HIDE DEF k
  <2>5. Shifted(m, k) = Shifted(n, k)
    BY <1>2, <2>1, <2>2, <2>3, <2>4
  <2> QED
    BY <2>5 DEF k
<1> HIDE DEF S
<1>5. w - 1 \in S
  BY <1>3, <1>4, Induction
<1>6. Shifted(m, 0) = Shifted(n, 0)
  BY <1>5 DEF S
<1> QED
  BY <1>6, ShiftedOnce

-----------------------------------------------------------------------------
(* Bytes.                                                                  *)

Bytes == Seq(Byte)

(* The data d begin with x.                                                *)
Begins(x, d) == Len(x) <= Len(d) /\ \A i \in 1 .. Len(x) : d[i] = x[i]

(* They hold y at an offset.                                               *)
HoldsAt(d, offset, y) ==
  /\ At(d, offset, Len(y)) = y
  /\ \A i \in 1 .. Len(y) : d[offset + i] = y[i]

LEMMA Joined ==
  ASSUME NEW x \in Bytes, NEW y \in Bytes
  PROVE  /\ x \o y \in Bytes /\ Len(x \o y) = Len(x) + Len(y)
         /\ Len(x) \in Nat /\ Len(y) \in Nat
         /\ \A i \in 1 .. Len(x) : (x \o y)[i] = x[i]
         /\ \A i \in 1 .. Len(y) : (x \o y)[Len(x) + i] = y[i]
  BY ConcatProperties, LenProperties DEF Bytes

LEMMA Regroup ==
  ASSUME NEW x \in Bytes, NEW y \in Bytes, NEW z \in Bytes
  PROVE  x \o (y \o z) = x \o y \o z
  BY ConcatAssociative DEF Bytes

(* What begins with a concatenation begins with its first part and has the *)
(* second where the first ends.                                            *)
LEMMA Peel ==
  ASSUME NEW x \in Bytes, NEW y \in Bytes, NEW d, Len(d) \in Nat, Begins(x \o y, d)
  PROVE  /\ Begins(x, d) /\ Len(x) + Len(y) <= Len(d)
         /\ \A i \in 1 .. Len(y) : d[Len(x) + i] = y[i]
<1>1. Len(x) <= Len(d) /\ Len(x) + Len(y) <= Len(d)
  BY Joined DEF Begins
<1>2. ASSUME NEW i \in 1 .. Len(x) PROVE d[i] = x[i]
  <2>1. i \in 1 .. Len(x \o y) /\ (x \o y)[i] = x[i]
    BY Joined
  <2> QED
    BY <2>1 DEF Begins
<1>3. ASSUME NEW i \in 1 .. Len(y) PROVE d[Len(x) + i] = y[i]
  <2>1. Len(x) + i \in 1 .. Len(x \o y)
    BY Joined
  <2> QED
    BY <2>1, Joined DEF Begins
<1> QED
  BY <1>1, <1>2, <1>3 DEF Begins

(* Bytes that stand at an offset can be cut out.                           *)
LEMMA Stands ==
  ASSUME NEW y \in Bytes, NEW d, NEW o \in Nat, \A i \in 1 .. Len(y) : d[o + i] = y[i]
  PROVE  HoldsAt(d, o, y)
<1>1. Len(y) \in Nat
  BY Joined
<1>2. \A i \in o + 1 .. o + Len(y) : d[i] \in Byte
  <2> TAKE i \in o + 1 .. o + Len(y)
  <2>1. i - o \in 1 .. Len(y) /\ i = o + (i - o)
    BY <1>1
  <2>2. d[o + (i - o)] = y[i - o]
    BY <2>1
  <2>3. y[i - o] \in Byte
    BY <2>1, ElementOfSeq DEF Bytes
  <2> QED
    BY <2>1, <2>2, <2>3
<1> DEFINE c == SubSeq(d, o + 1, o + Len(y))
<1>3. /\ c \in Seq(Byte) /\ Len(c) = Len(y)
      /\ \A i \in 1 .. Len(y) : c[i] = d[o + i]
  BY <1>1, <1>2, SubSeqProperties
<1>4. c = y
  BY <1>3, SeqEqual DEF Bytes
<1> QED
  BY <1>4 DEF At, HoldsAt

LEMMA Cut ==
  ASSUME NEW x \in Bytes, NEW y \in Bytes, NEW d, Len(d) \in Nat, Begins(x \o y, d)
  PROVE  HoldsAt(d, Len(x), y)
<1>1. Len(x) \in Nat
  BY Joined
<1> QED
  BY <1>1, Peel, Stands

(* The same after a header, whose end is where the first part begins.      *)
LEMMA Field ==
  ASSUME NEW h \in Bytes, NEW x \in Bytes, NEW y \in Bytes, NEW d, Len(d) \in Nat,
         Begins(h \o (x \o y), d)
  PROVE  Begins(h \o x, d) /\ HoldsAt(d, Len(h) + Len(x), y)
<1> DEFINE z == h \o x
<1>1. z \in Bytes /\ Len(z) = Len(h) + Len(x)
  BY Joined
<1>2. Begins(z \o y, d)
  BY Regroup
<1> HIDE DEF z
<1>3. Begins(z, d)
  BY <1>1, <1>2, Peel
<1>4. HoldsAt(d, Len(z), y)
  BY <1>1, <1>2, Cut
<1> QED
  BY <1>1, <1>3, <1>4 DEF z

(* A byte or two.                                                          *)
LEMMA OneByte ==
  ASSUME NEW n \in Byte
  PROVE  <<n>> \in Bytes /\ Len(<<n>>) = 1 /\ <<n>>[1] = n
  BY DEF Bytes

LEMMA BoolByte ==
  ASSUME NEW p
  PROVE  Bool(p) \in Bytes /\ Len(Bool(p)) = 1 /\ Bool(p)[1] = IF p THEN 1 ELSE 0
  BY DEF Bool, Bytes, Byte

LEMMA ComparisonByte ==
  /\ Variant(Comparisons, "GreaterThan") = <<0>>
  /\ Variant(Comparisons, "LessThan") = <<1>>
  /\ Variant(Comparisons, "EqualTo") = <<2>>
<1>1. \A i \in DOMAIN Comparisons : i = 1 \/ i = 2 \/ i = 3
  BY DEF Comparisons
<1>2. /\ 1 \in DOMAIN Comparisons /\ Comparisons[1] = "GreaterThan"
      /\ 2 \in DOMAIN Comparisons /\ Comparisons[2] = "LessThan"
      /\ 3 \in DOMAIN Comparisons /\ Comparisons[3] = "EqualTo"
  BY DEF Comparisons
<1> HIDE DEF Comparisons
<1>3. /\ (CHOOSE i \in DOMAIN Comparisons : Comparisons[i] = "GreaterThan") = 1
      /\ (CHOOSE i \in DOMAIN Comparisons : Comparisons[i] = "LessThan") = 2
      /\ (CHOOSE i \in DOMAIN Comparisons : Comparisons[i] = "EqualTo") = 3
  BY <1>1, <1>2
<1> QED
  BY <1>3 DEF Variant

LEMMA ExpressionByte ==
  /\ Variant(Expressions, "Add") = <<0>>
  /\ Variant(Expressions, "Subtract") = <<1>>
<1>1. \A i \in DOMAIN Expressions : i = 1 \/ i = 2
  BY DEF Expressions
<1>2. /\ 1 \in DOMAIN Expressions /\ Expressions[1] = "Add"
      /\ 2 \in DOMAIN Expressions /\ Expressions[2] = "Subtract"
  BY DEF Expressions
<1> HIDE DEF Expressions
<1>3. /\ (CHOOSE i \in DOMAIN Expressions : Expressions[i] = "Add") = 1
      /\ (CHOOSE i \in DOMAIN Expressions : Expressions[i] = "Subtract") = 2
  BY <1>1, <1>2
<1> QED
  BY <1>3 DEF Variant

(* An Option.                                                              *)
LEMMA OptionBytes ==
  /\ Option({}) = <<0>>
  /\ \A v \in Bytes : /\ Option({v}) = <<1>> \o v
                      /\ Option({v}) \in Bytes /\ Len(Option({v})) = 1 + Len(v)
                      /\ Option({v})[1] = 1
                      /\ \A i \in 1 .. Len(v) : Option({v})[1 + i] = v[i]
<1>1. Option({}) = <<0>>
  BY DEF Option, None
<1>2. ASSUME NEW v \in Bytes
      PROVE  Option({v}) = <<1>> \o v
  <2>1. (CHOOSE u \in {v} : TRUE) = v
    OBVIOUS
  <2> QED
    BY <2>1 DEF Option, None
<1>3. <<1>> \in Bytes /\ Len(<<1>>) = 1 /\ <<1>>[1] = 1
  BY OneByte DEF Byte
<1>4. ASSUME NEW v \in Bytes
      PROVE  /\ Option({v}) \in Bytes /\ Len(Option({v})) = 1 + Len(v)
             /\ Option({v})[1] = 1
             /\ \A i \in 1 .. Len(v) : Option({v})[1 + i] = v[i]
  <2> DEFINE tag == <<1>>
  <2> HIDE DEF tag
  <2>1. /\ tag \o v \in Bytes /\ Len(tag \o v) = Len(tag) + Len(v)
        /\ \A i \in 1 .. Len(tag) : (tag \o v)[i] = tag[i]
        /\ \A i \in 1 .. Len(v) : (tag \o v)[Len(tag) + i] = v[i]
    BY <1>3, Joined DEF tag
  <2>2. Len(tag) = 1 /\ tag[1] = 1
    BY <1>3 DEF tag
  <2>3. Option({v}) = tag \o v
    BY <1>2 DEF tag
  <2> DEFINE z == tag \o v
  <2> HIDE DEF z
  <2>4. /\ z \in Bytes /\ Len(z) = 1 + Len(v) /\ z[1] = 1
        /\ \A i \in 1 .. Len(v) : z[1 + i] = v[i]
    BY <2>1, <2>2 DEF z
  <2> QED
    BY <2>3, <2>4 DEF z
<1> QED
  BY <1>1, <1>2, <1>4

-----------------------------------------------------------------------------
(* The account.                                                            *)

(* What is stored has the fields' types, and the market has an outcome     *)
(* exactly when it is resolved.                                            *)
Stored ==
  /\ created => terms \in Terms /\ ConsistentStats(terms)
  /\ lock_ts \in Int /\ yes_pool \in Int /\ no_pool \in Int
  /\ locked \in BOOLEAN /\ resolved \in BOOLEAN
  /\ outcome \in Side \cup {Unknown}
  /\ resolved <=> outcome # Unknown

(* The parts of a two-stat market that are no plain integers.              *)
LEMMA StoredParts ==
  ASSUME Stored, created, TwoStat
  PROVE  /\ \E k \in Nat : /\ terms.stat_b_key = {k}
                           /\ {LE(l, 4) : l \in terms.stat_b_key} = {LE(k, 4)}
         /\ \E e \in {"Add", "Subtract"} :
               /\ terms.op = {e}
               /\ {Variant(Expressions, f) : f \in terms.op} = {Variant(Expressions, e)}
         /\ terms.comparison \in {"GreaterThan", "LessThan", "EqualTo"}
         /\ {terms.fixture_id, terms.epoch_day, terms.stat_a_key, terms.threshold} \subseteq Int
<1>1. terms \in Terms /\ terms.stat_b_key # {} /\ terms.op # {}
  BY DEF Stored, TwoStat, ConsistentStats, IsSome, None
<1>2. /\ terms.stat_b_key \in SUBSET Nat /\ terms.op \in SUBSET {"Add", "Subtract"}
      /\ terms.comparison \in {"GreaterThan", "LessThan", "EqualTo"}
      /\ terms.fixture_id \in Int /\ terms.epoch_day \in Nat
      /\ terms.stat_a_key \in Nat /\ terms.threshold \in Int
      /\ \A k, other \in terms.stat_b_key : k = other
      /\ \A e, other \in terms.op : e = other
  BY <1>1, FieldAssumption
<1>3. PICK k \in terms.stat_b_key : TRUE
  BY <1>1
<1>4. PICK e \in terms.op : TRUE
  BY <1>1
<1>5. terms.stat_b_key = {k} /\ terms.op = {e}
  BY <1>2, <1>3, <1>4
<1> QED
  BY <1>2, <1>5

(* Bytes x, n of them.                                                     *)
Sized(x, n) == x \in Bytes /\ Len(x) = n

(* Concatenation, without its definition.                                  *)
Cat(x, y) == x \o y

LEMMA CatBytes ==
  ASSUME NEW x, NEW y, NEW m \in Nat, NEW n \in Nat,
         Sized(x, m), Sized(y, n)
  PROVE  Sized(Cat(x, y), m + n)
  BY Joined DEF Sized, Cat

LEMMA CatField ==
  ASSUME NEW h, NEW x, NEW y, NEW k \in Nat, NEW m \in Nat, NEW n \in Nat,
         Sized(h, k), Sized(x, m), Sized(y, n),
         NEW d, Len(d) \in Nat, Begins(Cat(h, Cat(x, y)), d)
  PROVE  Begins(Cat(h, x), d) /\ HoldsAt(d, k + m, y)
  BY Field DEF Sized, Cat

(* Of two parts held each is.                                              *)
LEMMA CatHolds ==
  ASSUME NEW x, NEW y, NEW m \in Nat, NEW n \in Nat, Sized(x, m), Sized(y, n),
         NEW d, NEW o \in Nat, HoldsAt(d, o, Cat(x, y))
  PROVE  HoldsAt(d, o, x) /\ HoldsAt(d, o + m, y)
<1> DEFINE z == x \o y
<1>1. /\ z \in Bytes /\ Len(z) = m + n
      /\ \A i \in 1 .. m : z[i] = x[i]
      /\ \A i \in 1 .. n : z[m + i] = y[i]
  BY Joined DEF Sized
<1> HIDE DEF z
<1>2. \A i \in 1 .. m + n : d[o + i] = z[i]
  BY <1>1 DEF HoldsAt, Cat, z
<1>3. ASSUME NEW i \in 1 .. m PROVE d[o + i] = x[i]
  <2>1. i \in 1 .. m + n
    OBVIOUS
  <2> QED
    BY <1>1, <1>2, <2>1
<1>4. ASSUME NEW i \in 1 .. n PROVE d[o + m + i] = y[i]
  <2>1. m + i \in 1 .. m + n /\ o + (m + i) = o + m + i
    OBVIOUS
  <2> QED
    BY <1>1, <1>2, <2>1
<1>5. x \in Bytes /\ Len(x) = m /\ y \in Bytes /\ Len(y) = n
  BY DEF Sized
<1>6. HoldsAt(d, o, x)
  BY <1>3, <1>5, Stands
<1>7. o + m \in Nat
  OBVIOUS
<1>8. HoldsAt(d, o + m, y)
  BY <1>4, <1>5, <1>7, Stands
<1> QED
  BY <1>6, <1>8

(* 32 bytes: a key, or a hash.                                             *)
LEMMA HashSized ==
  ASSUME NEW key \in [1 .. 32 -> 0 .. 255]
  PROVE  Sized(key, 32)
<1>1. \A i \in 1 .. 32 : key[i] \in Byte
  BY DEF Byte
<1>2. key = [i \in 1 .. 32 |-> key[i]]
  OBVIOUS
<1> DEFINE copy == [i \in 1 .. 32 |-> key[i]]
<1>3. copy \in Seq(Byte) /\ Len(copy) = 32
  BY <1>1
<1> QED
  BY <1>2, <1>3 DEF Sized, Bytes

LEMMA KeyBytes ==
  /\ Sized(UsdcMint, 32) /\ Sized(VaultKey, 32) /\ Sized(CanonicalMint, 32)
  /\ Sized(<<Bump>>, 1) /\ <<Bump>>[1] = Bump
<1>1. \A key \in [1 .. 32 -> 0 .. 255] : Sized(key, 32)
  BY HashSized
<1>2. /\ UsdcMint \in [1 .. 32 -> 0 .. 255] /\ VaultKey \in [1 .. 32 -> 0 .. 255]
      /\ CanonicalMint \in [1 .. 32 -> 0 .. 255]
  BY FieldAssumption
<1>3. Bump \in Byte
  BY FieldAssumption DEF Byte
<1>4. <<Bump>> \in Bytes /\ Len(<<Bump>>) = 1 /\ <<Bump>>[1] = Bump
  BY <1>3, OneByte
<1> QED
  BY <1>1, <1>2, <1>4 DEF Sized

(* What is left open of a two-stat market is its outcome.                  *)
OutcomeBytes == Option({Bool(v) : v \in OutcomeOption})

LEMMA OutcomeParts ==
  ASSUME Stored
  PROVE  \/ ~resolved /\ OutcomeBytes = <<0>> /\ OutcomeOption = None
         \/ /\ resolved /\ OutcomeBytes = Cat(<<1>>, Bool(outcome = Yes))
            /\ OutcomeOption = Some(outcome = Yes)
<1>1. CASE ~resolved
  <2>1. OutcomeOption = {}
    BY <1>1 DEF Stored, OutcomeOption, None
  <2>2. {Bool(v) : v \in OutcomeOption} = {}
    BY <2>1
  <2> QED
    BY <1>1, <2>1, <2>2, OptionBytes DEF OutcomeBytes, None
<1>2. CASE resolved
  <2>1. OutcomeOption = {outcome = Yes}
    BY <1>2 DEF Stored, OutcomeOption, Some
  <2>2. {Bool(v) : v \in OutcomeOption} = {Bool(outcome = Yes)}
    BY <2>1
  <2>3. Bool(outcome = Yes) \in Bytes
    BY BoolByte
  <2>4. Option({Bool(outcome = Yes)}) = <<1>> \o Bool(outcome = Yes)
    BY <2>3, OptionBytes
  <2> QED
    BY <1>2, <2>1, <2>2, <2>4 DEF OutcomeBytes, Some, Cat
<1> QED
  BY <1>1, <1>2 DEF Stored

(* A number of w bytes.                                                    *)
LEMMA LESized ==
  ASSUME NEW n \in Int, NEW w \in Nat
  PROVE  Sized(LE(n, w), w)
  BY LEBytes DEF Sized, Bytes

LEMMA SmallSized ==
  /\ \A b \in {0, 1, 2} : Sized(<<b>>, 1)
  /\ \A p : Sized(Bool(p), 1)
<1>1. \A b \in {0, 1, 2} : b \in Byte
  BY DEF Byte
<1> QED
  BY <1>1, OneByte, BoolByte DEF Sized

(* The optional fields of a two-stat market, in bytes.                     *)
KeyField == Option({LE(k, 4) : k \in terms.stat_b_key})
OpField == Option({Variant(Expressions, e) : e \in terms.op})

(* The second key and the operation.                                       *)
LEMMA OptionalFields ==
  ASSUME Stored, created, TwoStat
  PROVE  /\ \E k \in Nat : /\ terms.stat_b_key = {k}
                           /\ {LE(l, 4) : l \in terms.stat_b_key} = {LE(k, 4)}
                           /\ KeyField = Cat(<<1>>, LE(k, 4))
         /\ \E e \in {"Add", "Subtract"} :
               /\ terms.op = {e}
               /\ OpField = Cat(<<1>>, <<IF e = "Add" THEN 0 ELSE 1>>)
<1>1. PICK k \in Nat : /\ terms.stat_b_key = {k}
                       /\ {LE(l, 4) : l \in terms.stat_b_key} = {LE(k, 4)}
  BY StoredParts
<1>2. LE(k, 4) \in Bytes
  BY LESized DEF Sized
<1>3. KeyField = Cat(<<1>>, LE(k, 4))
  BY <1>1, <1>2, OptionBytes DEF KeyField, Cat
<1>4. PICK e \in {"Add", "Subtract"} :
         /\ terms.op = {e}
         /\ {Variant(Expressions, f) : f \in terms.op} = {Variant(Expressions, e)}
  BY StoredParts
<1>5. /\ Variant(Expressions, e) = <<IF e = "Add" THEN 0 ELSE 1>>
      /\ Variant(Expressions, e) \in Bytes
  <2>1. <<0>> \in Bytes /\ <<1>> \in Bytes
    BY OneByte DEF Byte
  <2>2. CASE e = "Add"
    BY <2>1, <2>2, ExpressionByte
  <2>3. CASE e = "Subtract"
    BY <2>1, <2>3, ExpressionByte
  <2> QED
    BY <1>4, <2>2, <2>3
<1>6. OpField = Cat(<<1>>, <<IF e = "Add" THEN 0 ELSE 1>>)
  BY <1>4, <1>5, OptionBytes DEF OpField, Cat
<1> QED
  BY <1>1, <1>3, <1>4, <1>6

(* What an account of a two-stat market holds, and where.                  *)
LEMMA AccountHolds ==
  ASSUME Stored, created, TwoStat
  PROVE  LET d == AccountData
         IN  /\ HoldsAt(d, 8, LE(MarketId, 8)) /\ HoldsAt(d, 16, LE(terms.fixture_id, 8))
             /\ HoldsAt(d, 24, LE(terms.epoch_day, 2))
             /\ HoldsAt(d, 26, LE(terms.stat_a_key, 4)) /\ HoldsAt(d, 30, KeyField)
             /\ HoldsAt(d, 35, OpField) /\ HoldsAt(d, 37, LE(terms.threshold, 4))
             /\ HoldsAt(d, 41, Variant(Comparisons, terms.comparison))
             /\ HoldsAt(d, 42, LE(yes_pool, 8)) /\ HoldsAt(d, 50, LE(no_pool, 8))
             /\ HoldsAt(d, 58, UsdcMint) /\ HoldsAt(d, 90, VaultKey)
             /\ HoldsAt(d, 122, LE(lock_ts, 8)) /\ HoldsAt(d, 130, Bool(locked))
             /\ HoldsAt(d, 131, Bool(resolved)) /\ HoldsAt(d, 132, OutcomeBytes)
             /\ resolved => HoldsAt(d, 134, <<Bump>>)
<1> DEFINE n == IF resolved THEN 2 ELSE 1
           f1 == LE(MarketId, 8)
           f2 == LE(terms.fixture_id, 8)
           f3 == LE(terms.epoch_day, 2)
           f4 == LE(terms.stat_a_key, 4)
           f5 == KeyField
           f6 == OpField
           f7 == LE(terms.threshold, 4)
           f8 == Variant(Comparisons, terms.comparison)
           f9 == LE(yes_pool, 8)
           f10 == LE(no_pool, 8)
           f11 == UsdcMint
           f12 == VaultKey
           f13 == LE(lock_ts, 8)
           f14 == Bool(locked)
           f15 == Bool(resolved)
           f16 == OutcomeBytes
           f17 == <<Bump>>
           x1 == f1
           x2 == Cat(x1, f2)
           x3 == Cat(x2, f3)
           x4 == Cat(x3, f4)
           x5 == Cat(x4, f5)
           x6 == Cat(x5, f6)
           x7 == Cat(x6, f7)
           x8 == Cat(x7, f8)
           x9 == Cat(x8, f9)
           x10 == Cat(x9, f10)
           x11 == Cat(x10, f11)
           x12 == Cat(x11, f12)
           x13 == Cat(x12, f13)
           x14 == Cat(x13, f14)
           x15 == Cat(x14, f15)
           x16 == Cat(x15, f16)
           x17 == Cat(x16, f17)
           used == Cat(MARKET_DISCRIMINATOR, x17)
           pad == [i \in 1 .. MARKET_ACCOUNT_SIZE - Len(used) |-> 0]
           d == AccountData
<1> HIDE DEF n, f1, f2, f3, f4, f5, f6, f7, f8, f9, f10, f11, f12, f13, f14,
             f15, f16, f17, x1, x2, x3, x4, x5, x6, x7, x8, x9, x10, x11, x12,
             x13, x14, x15, x16, x17, used, pad, d
<1>1. n \in Nat /\ n <= 2 /\ (resolved => n = 2)
  BY DEF n
<1>2. Sized(MARKET_DISCRIMINATOR, 8)
  BY DEF MARKET_DISCRIMINATOR, Sized, Bytes, Byte
<1>3. /\ Sized(f1, 8) /\ Sized(f9, 8) /\ Sized(f10, 8) /\ Sized(f13, 8)
  <2>1. MarketId \in Nat
    BY FieldAssumption, Zenon DEF Unsigned
  <2>2. yes_pool \in Int /\ no_pool \in Int /\ lock_ts \in Int
    BY DEF Stored
  <2> QED
    BY <2>1, <2>2, LESized DEF f1, f9, f10, f13
<1>4. /\ Sized(f2, 8) /\ Sized(f3, 2) /\ Sized(f4, 4) /\ Sized(f7, 4)
  BY StoredParts, LESized DEF f2, f3, f4, f7
<1>5. Sized(<<1>>, 1)
  BY SmallSized
<1>6. Sized(f5, 5)
  <2>1. PICK k \in Nat : KeyField = Cat(<<1>>, LE(k, 4))
    BY OptionalFields
  <2>2. Sized(LE(k, 4), 4)
    BY LESized
  <2> QED
    BY <1>5, <2>1, <2>2, CatBytes DEF f5
<1>7. Sized(f6, 2)
  <2>1. PICK e : OpField = Cat(<<1>>, <<IF e = "Add" THEN 0 ELSE 1>>)
    BY OptionalFields
  <2>2. Sized(<<IF e = "Add" THEN 0 ELSE 1>>, 1)
    BY SmallSized
  <2> QED
    BY <1>5, <2>1, <2>2, CatBytes DEF f6
<1>8. Sized(f8, 1)
  <2>1. \A c \in {"GreaterThan", "LessThan", "EqualTo"} : Sized(Variant(Comparisons, c), 1)
    BY ComparisonByte, SmallSized
  <2> QED
    BY <2>1, StoredParts DEF f8
<1>9. Sized(f16, n)
  <2>1. CASE resolved
    <3>1. OutcomeBytes = Cat(<<1>>, Bool(outcome = Yes))
      BY <2>1, OutcomeParts
    <3> QED
      BY <1>5, <2>1, <3>1, CatBytes, SmallSized DEF n, f16
  <2>2. CASE ~resolved
    BY <2>2, OutcomeParts, SmallSized DEF n, f16
  <2> QED
    BY <2>1, <2>2
<1>10. Sized(f14, 1) /\ Sized(f15, 1)
  BY SmallSized DEF f14, f15
<1>11. Sized(f11, 32) /\ Sized(f12, 32) /\ Sized(f17, 1)
  BY KeyBytes DEF f11, f12, f17
<1>12. Sized(x1, 8)
  BY <1>3 DEF x1
<1>13. Sized(x2, 16)
  BY <1>4, <1>12, CatBytes DEF x2
<1>14. Sized(x3, 18)
  BY <1>4, <1>13, CatBytes DEF x3
<1>15. Sized(x4, 22)
  BY <1>4, <1>14, CatBytes DEF x4
<1>16. Sized(x5, 27)
  BY <1>6, <1>15, CatBytes DEF x5
<1>17. Sized(x6, 29)
  BY <1>7, <1>16, CatBytes DEF x6
<1>18. Sized(x7, 33)
  BY <1>4, <1>17, CatBytes DEF x7
<1>19. Sized(x8, 34)
  BY <1>8, <1>18, CatBytes DEF x8
<1>20. Sized(x9, 42)
  BY <1>3, <1>19, CatBytes DEF x9
<1>21. Sized(x10, 50)
  BY <1>3, <1>20, CatBytes DEF x10
<1>22. Sized(x11, 82)
  BY <1>11, <1>21, CatBytes DEF x11
<1>23. Sized(x12, 114)
  BY <1>11, <1>22, CatBytes DEF x12
<1>24. Sized(x13, 122)
  BY <1>3, <1>23, CatBytes DEF x13
<1>25. Sized(x14, 123)
  BY <1>10, <1>24, CatBytes DEF x14
<1>26. Sized(x15, 124)
  BY <1>10, <1>25, CatBytes DEF x15
<1>27. Sized(x16, 124 + n)
  BY <1>1, <1>9, <1>26, CatBytes DEF x16
<1>28. Sized(x17, 125 + n)
  BY <1>1, <1>11, <1>27, CatBytes DEF x17
<1>29. Sized(used, 133 + n)
  BY <1>1, <1>2, <1>28, CatBytes DEF used
<1>30. pad \in Bytes
  <2>1. Len(used) = 133 + n
    BY <1>29 DEF Sized
  <2>2. MARKET_ACCOUNT_SIZE - Len(used) \in Nat
    BY <1>1, <2>1 DEF MARKET_ACCOUNT_SIZE
  <2> DEFINE k == MARKET_ACCOUNT_SIZE - Len(used)
  <2> HIDE DEF k
  <2>3. [i \in 1 .. k |-> 0] \in Seq(Byte)
    BY <2>2 DEF k, Byte
  <2> QED
    BY <2>3 DEF k, pad, Bytes
<1>31. d = used \o pad
  BY Zenon DEF d, AccountData, Struct, KeyField, OpField, OutcomeBytes, Cat,
               f1, f2, f3, f4, f5, f6, f7, f8, f9, f10, f11, f12, f13, f14,
               f15, f16, f17, x1, x2, x3, x4, x5, x6, x7, x8, x9, x10, x11,
               x12, x13, x14, x15, x16, x17, used, pad
<1>32. Len(d) \in Nat /\ Begins(used, d)
  <2> DEFINE z == used \o pad
  <2>1. /\ Len(z) = Len(used) + Len(pad) /\ Len(used) \in Nat /\ Len(pad) \in Nat
        /\ \A i \in 1 .. Len(used) : z[i] = used[i]
    BY <1>29, <1>30, Joined DEF Sized
  <2> HIDE DEF z
  <2>2. Len(z) \in Nat /\ Begins(used, z)
    BY <2>1 DEF Begins
  <2> QED
    BY <1>31, <2>2 DEF z
<1>33. Begins(Cat(MARKET_DISCRIMINATOR, x17), d)
  BY <1>32 DEF used
<1>34. Begins(Cat(MARKET_DISCRIMINATOR, x16), d) /\ HoldsAt(d, 132 + n, f17)
  BY <1>33, <1>1, <1>2, <1>32, <1>11, <1>27, CatField DEF x17
<1>35. Begins(Cat(MARKET_DISCRIMINATOR, x15), d) /\ HoldsAt(d, 132, f16)
  BY <1>34, <1>1, <1>2, <1>32, <1>9, <1>26, CatField DEF x16
<1>36. Begins(Cat(MARKET_DISCRIMINATOR, x14), d) /\ HoldsAt(d, 131, f15)
  BY <1>35, <1>2, <1>32, <1>10, <1>25, CatField DEF x15
<1>37. Begins(Cat(MARKET_DISCRIMINATOR, x13), d) /\ HoldsAt(d, 130, f14)
  BY <1>36, <1>2, <1>32, <1>10, <1>24, CatField DEF x14
<1>38. Begins(Cat(MARKET_DISCRIMINATOR, x12), d) /\ HoldsAt(d, 122, f13)
  BY <1>37, <1>2, <1>32, <1>3, <1>23, CatField DEF x13
<1>39. Begins(Cat(MARKET_DISCRIMINATOR, x11), d) /\ HoldsAt(d, 90, f12)
  BY <1>38, <1>2, <1>32, <1>11, <1>22, CatField DEF x12
<1>40. Begins(Cat(MARKET_DISCRIMINATOR, x10), d) /\ HoldsAt(d, 58, f11)
  BY <1>39, <1>2, <1>32, <1>11, <1>21, CatField DEF x11
<1>41. Begins(Cat(MARKET_DISCRIMINATOR, x9), d) /\ HoldsAt(d, 50, f10)
  BY <1>40, <1>2, <1>32, <1>3, <1>20, CatField DEF x10
<1>42. Begins(Cat(MARKET_DISCRIMINATOR, x8), d) /\ HoldsAt(d, 42, f9)
  BY <1>41, <1>2, <1>32, <1>3, <1>19, CatField DEF x9
<1>43. Begins(Cat(MARKET_DISCRIMINATOR, x7), d) /\ HoldsAt(d, 41, f8)
  BY <1>42, <1>2, <1>32, <1>8, <1>18, CatField DEF x8
<1>44. Begins(Cat(MARKET_DISCRIMINATOR, x6), d) /\ HoldsAt(d, 37, f7)
  BY <1>43, <1>2, <1>32, <1>4, <1>17, CatField DEF x7
<1>45. Begins(Cat(MARKET_DISCRIMINATOR, x5), d) /\ HoldsAt(d, 35, f6)
  BY <1>44, <1>2, <1>32, <1>7, <1>16, CatField DEF x6
<1>46. Begins(Cat(MARKET_DISCRIMINATOR, x4), d) /\ HoldsAt(d, 30, f5)
  BY <1>45, <1>2, <1>32, <1>6, <1>15, CatField DEF x5
<1>47. Begins(Cat(MARKET_DISCRIMINATOR, x3), d) /\ HoldsAt(d, 26, f4)
  BY <1>46, <1>2, <1>32, <1>4, <1>14, CatField DEF x4
<1>48. Begins(Cat(MARKET_DISCRIMINATOR, x2), d) /\ HoldsAt(d, 24, f3)
  BY <1>47, <1>2, <1>32, <1>4, <1>13, CatField DEF x3
<1>49. Begins(Cat(MARKET_DISCRIMINATOR, x1), d) /\ HoldsAt(d, 16, f2)
  BY <1>48, <1>2, <1>32, <1>4, <1>12, CatField DEF x2
<1>50. HoldsAt(d, 8, f1)
  <2>1. Begins(MARKET_DISCRIMINATOR \o f1, d)
    BY <1>49 DEF x1, Cat
  <2>2. /\ MARKET_DISCRIMINATOR \in Bytes /\ f1 \in Bytes
        /\ Len(MARKET_DISCRIMINATOR) = 8
    BY <1>2, <1>3 DEF Sized
  <2>3. HoldsAt(d, Len(MARKET_DISCRIMINATOR), f1)
    BY <1>32, <2>1, <2>2, Cut
  <2> QED
    BY <2>2, <2>3
<1>51. resolved => HoldsAt(d, 134, f17)
  BY <1>1, <1>34
<1> QED
  BY <1>34, <1>35, <1>36, <1>37, <1>38, <1>39, <1>40, <1>41, <1>42, <1>43,
     <1>44, <1>45, <1>46, <1>47, <1>48, <1>49, <1>50, <1>51
     DEF d, f1, f2, f3, f4, f5, f6, f7, f8, f9, f10, f11, f12, f13, f14, f15,
         f16, f17

-----------------------------------------------------------------------------
(* The decoder.                                                            *)
LEMMA ReadPart ==
  ASSUME NEW d, NEW o \in Nat, NEW y, NEW n, Sized(y, n), HoldsAt(d, o, y)
  PROVE  At(d, o, n) = y
  BY DEF Sized, HoldsAt

LEMMA ReadByte ==
  ASSUME NEW d, NEW o \in Nat, NEW b, HoldsAt(d, o, <<b>>)
  PROVE  ByteAt(d, o) = b
<1>1. 1 \in 1 .. Len(<<b>>) /\ <<b>>[1] = b
  OBVIOUS
<1>2. d[o + 1] = b
  BY <1>1 DEF HoldsAt
<1> QED
  BY <1>2 DEF ByteAt

LEMMA ReadBool ==
  ASSUME NEW d, NEW o \in Nat, NEW p \in BOOLEAN, HoldsAt(d, o, Bool(p))
  PROVE  IsTrue(d, o) = p
<1>1. ByteAt(d, o) = IF p THEN 1 ELSE 0
  BY ReadByte DEF Bool
<1> QED
  BY <1>1 DEF IsTrue

(* The two optional fields and the outcome.                                *)
LEMMA ReadKey ==
  ASSUME NEW d, HoldsAt(d, 30, KeyField), Stored, created, TwoStat
  PROVE  (IF IsTrue(d, 30) THEN Some(At(d, 31, 4)) ELSE None)
           = {LE(k, 4) : k \in terms.stat_b_key}
<1>1. PICK k \in Nat : /\ {LE(l, 4) : l \in terms.stat_b_key} = {LE(k, 4)}
                       /\ KeyField = Cat(<<1>>, LE(k, 4))
  BY OptionalFields
<1>2. Sized(<<1>>, 1) /\ Sized(LE(k, 4), 4)
  BY SmallSized, LESized
<1>3. HoldsAt(d, 30, <<1>>) /\ HoldsAt(d, 30 + 1, LE(k, 4))
  BY <1>1, <1>2, CatHolds
<1>4. IsTrue(d, 30)
  BY <1>3, ReadByte DEF IsTrue
<1>5. At(d, 31, 4) = LE(k, 4)
  BY <1>2, <1>3, ReadPart
<1> QED
  BY <1>1, <1>4, <1>5 DEF Some

LEMMA ReadOp ==
  ASSUME NEW d, HoldsAt(d, 35, OpField), Stored, created, TwoStat
  PROVE  (IF IsTrue(d, 35) THEN {Named(Expressions, ByteAt(d, 36), "null")} \ {"null"}
          ELSE None) = terms.op
<1>1. PICK e \in {"Add", "Subtract"} :
         /\ terms.op = {e}
         /\ OpField = Cat(<<1>>, <<IF e = "Add" THEN 0 ELSE 1>>)
  BY OptionalFields
<1> DEFINE b == IF e = "Add" THEN 0 ELSE 1
<1>2. Sized(<<1>>, 1) /\ Sized(<<b>>, 1)
  BY SmallSized
<1> HIDE DEF b
<1>3. HoldsAt(d, 35, <<1>>) /\ HoldsAt(d, 35 + 1, <<b>>)
  BY <1>1, <1>2, CatHolds DEF b
<1>4. IsTrue(d, 35) /\ ByteAt(d, 36) = b
  BY <1>3, ReadByte DEF IsTrue
<1>5. Named(Expressions, b, "null") = e
  BY <1>1 DEF Named, Expressions, b
<1> QED
  BY <1>1, <1>4, <1>5

LEMMA ReadComparison ==
  ASSUME NEW d, HoldsAt(d, 41, Variant(Comparisons, terms.comparison)),
         terms.comparison \in {"GreaterThan", "LessThan", "EqualTo"}
  PROVE  Named(Comparisons, ByteAt(d, 41), "EqualTo") = terms.comparison
<1>1. /\ Named(Comparisons, 0, "EqualTo") = "GreaterThan"
      /\ Named(Comparisons, 1, "EqualTo") = "LessThan"
      /\ Named(Comparisons, 2, "EqualTo") = "EqualTo"
  BY DEF Named, Comparisons
<1>2. CASE terms.comparison = "GreaterThan"
  BY <1>1, <1>2, ComparisonByte, ReadByte
<1>3. CASE terms.comparison = "LessThan"
  BY <1>1, <1>3, ComparisonByte, ReadByte
<1>4. CASE terms.comparison = "EqualTo"
  BY <1>1, <1>4, ComparisonByte, ReadByte
<1> QED
  BY <1>2, <1>3, <1>4

LEMMA ReadOutcome ==
  ASSUME NEW d, HoldsAt(d, 132, OutcomeBytes), Stored
  PROVE  OutcomeOf(d) = OutcomeOption
<1>1. CASE resolved
  <2> DEFINE p == outcome = Yes
  <2>1. /\ OutcomeBytes = Cat(<<1>>, Bool(p)) /\ OutcomeOption = Some(p)
        /\ Sized(<<1>>, 1) /\ Sized(Bool(p), 1) /\ p \in BOOLEAN
    BY <1>1, OutcomeParts, SmallSized
  <2> HIDE DEF p
  <2>2. HoldsAt(d, 132, <<1>>) /\ HoldsAt(d, 132 + 1, Bool(p))
    BY <2>1, CatHolds
  <2>3. IsTrue(d, 132) /\ IsTrue(d, 133) = p
    BY <2>1, <2>2, ReadByte, ReadBool DEF IsTrue
  <2> QED
    BY <2>1, <2>3 DEF OutcomeOf
<1>2. CASE ~resolved
  <2>1. ~IsTrue(d, 132)
    BY <1>2, OutcomeParts, ReadByte DEF IsTrue
  <2> QED
    BY <1>2, <2>1, OutcomeParts DEF OutcomeOf
<1> QED
  BY <1>1, <1>2

(* What is stored of a two-stat market is what is read.                    *)
LEMMA Decoded ==
  ASSUME Stored, created, TwoStat
  PROVE  LET d == AccountData
         IN  /\ \A f \in DOMAIN TrueMarket \ {"bump"} : decodeMarket(d)[f] = TrueMarket[f]
             /\ resolved => decodeMarket(d)["bump"] = TrueMarket["bump"]
             /\ At(d, 58, 32) = UsdcMint
<1> DEFINE d == AccountData
<1> HIDE DEF d
<1>1. /\ HoldsAt(d, 8, LE(MarketId, 8)) /\ HoldsAt(d, 16, LE(terms.fixture_id, 8))
      /\ HoldsAt(d, 24, LE(terms.epoch_day, 2))
      /\ HoldsAt(d, 26, LE(terms.stat_a_key, 4)) /\ HoldsAt(d, 30, KeyField)
      /\ HoldsAt(d, 35, OpField) /\ HoldsAt(d, 37, LE(terms.threshold, 4))
      /\ HoldsAt(d, 41, Variant(Comparisons, terms.comparison))
      /\ HoldsAt(d, 42, LE(yes_pool, 8)) /\ HoldsAt(d, 50, LE(no_pool, 8))
      /\ HoldsAt(d, 58, UsdcMint) /\ HoldsAt(d, 90, VaultKey)
      /\ HoldsAt(d, 122, LE(lock_ts, 8)) /\ HoldsAt(d, 130, Bool(locked))
      /\ HoldsAt(d, 131, Bool(resolved)) /\ HoldsAt(d, 132, OutcomeBytes)
      /\ resolved => HoldsAt(d, 134, <<Bump>>)
  BY AccountHolds DEF d
<1>2. /\ Sized(LE(MarketId, 8), 8) /\ Sized(LE(yes_pool, 8), 8)
      /\ Sized(LE(no_pool, 8), 8) /\ Sized(LE(lock_ts, 8), 8)
  <2>1. MarketId \in Nat
    BY FieldAssumption, Zenon DEF Unsigned
  <2>2. yes_pool \in Int /\ no_pool \in Int /\ lock_ts \in Int
    BY DEF Stored
  <2> QED
    BY <2>1, <2>2, LESized
<1>3. /\ Sized(LE(terms.fixture_id, 8), 8) /\ Sized(LE(terms.epoch_day, 2), 2)
      /\ Sized(LE(terms.stat_a_key, 4), 4) /\ Sized(LE(terms.threshold, 4), 4)
  BY StoredParts, LESized
<1>4. /\ At(d, 8, 8) = LE(MarketId, 8) /\ At(d, 16, 8) = LE(terms.fixture_id, 8)
      /\ At(d, 24, 2) = LE(terms.epoch_day, 2) /\ At(d, 26, 4) = LE(terms.stat_a_key, 4)
      /\ At(d, 37, 4) = LE(terms.threshold, 4) /\ At(d, 42, 8) = LE(yes_pool, 8)
      /\ At(d, 50, 8) = LE(no_pool, 8) /\ At(d, 122, 8) = LE(lock_ts, 8)
  BY <1>1, <1>2, <1>3, ReadPart
<1>5. At(d, 58, 32) = UsdcMint /\ At(d, 90, 32) = VaultKey
  BY <1>1, KeyBytes, ReadPart
<1>6. /\ (IF IsTrue(d, 30) THEN Some(At(d, 31, 4)) ELSE None)
           = {LE(k, 4) : k \in terms.stat_b_key}
      /\ (IF IsTrue(d, 35) THEN {Named(Expressions, ByteAt(d, 36), "null")} \ {"null"}
          ELSE None) = terms.op
  BY <1>1, ReadKey, ReadOp
<1>7. Named(Comparisons, ByteAt(d, 41), "EqualTo") = terms.comparison
  BY <1>1, StoredParts, ReadComparison
<1>8. IsTrue(d, 130) = locked /\ IsTrue(d, 131) = resolved
  BY <1>1, ReadBool DEF Stored
<1>9. OutcomeOf(d) = OutcomeOption
  BY <1>1, ReadOutcome
<1>10. resolved => ByteAt(d, 134) = Bump
  BY <1>1, ReadByte
<1> DEFINE bump == ByteAt(d, 134)
           read == decodeMarket(d)
<1> HIDE DEF bump
<1>11. read =
        [ marketId |-> LE(MarketId, 8),
          fixtureId |-> LE(terms.fixture_id, 8),
          epochDay |-> LE(terms.epoch_day, 2),
          statAKey |-> LE(terms.stat_a_key, 4),
          statBKey |-> {LE(k, 4) : k \in terms.stat_b_key},
          op |-> terms.op, threshold |-> LE(terms.threshold, 4),
          comparison |-> terms.comparison, yesPool |-> LE(yes_pool, 8),
          noPool |-> LE(no_pool, 8), usdcMint |-> UsdcMint,
          vault |-> VaultKey, lockTs |-> LE(lock_ts, 8),
          locked |-> locked, resolved |-> resolved,
          outcome |-> OutcomeOption, bump |-> bump ]
  BY <1>4, <1>5, <1>6, <1>7, <1>8, <1>9 DEF decodeMarket, bump
<1> HIDE DEF read
<1>12. \A f \in DOMAIN TrueMarket \ {"bump"} : read[f] = TrueMarket[f]
  <2> DEFINE a == TrueMarket
  <2>1. DOMAIN a = {"marketId", "fixtureId", "epochDay", "statAKey",
                 "statBKey", "op", "threshold", "comparison", "yesPool",
                 "noPool", "usdcMint", "vault", "lockTs", "locked",
                 "resolved", "outcome", "bump"}
    BY DEF TrueMarket
  <2>2. /\ a["marketId"] = read["marketId"] /\ a["fixtureId"] = read["fixtureId"]
        /\ a["epochDay"] = read["epochDay"] /\ a["statAKey"] = read["statAKey"]
        /\ a["statBKey"] = read["statBKey"] /\ a["op"] = read["op"]
        /\ a["threshold"] = read["threshold"] /\ a["comparison"] = read["comparison"]
        /\ a["yesPool"] = read["yesPool"] /\ a["noPool"] = read["noPool"]
        /\ a["usdcMint"] = read["usdcMint"] /\ a["vault"] = read["vault"]
        /\ a["lockTs"] = read["lockTs"] /\ a["locked"] = read["locked"]
        /\ a["resolved"] = read["resolved"] /\ a["outcome"] = read["outcome"]
    BY <1>11 DEF TrueMarket
  <2> HIDE DEF a
  <2>3. \A f \in DOMAIN a \ {"bump"} : read[f] = a[f]
    BY <2>1, <2>2
  <2> QED
    BY <2>3 DEF a
<1>13. read["bump"] = bump /\ TrueMarket["bump"] = Bump
  BY <1>11, Zenon DEF TrueMarket
<1> QED
  BY <1>5, <1>10, <1>12, <1>13 DEF d, read, bump

-----------------------------------------------------------------------------
(* The invariant.                                                          *)

(* A transaction under way is what one of the clients has built, and there *)
(* is one at a time.                                                       *)
Sent(w) ==
  /\ w.meant \in Arguments /\ w.by \in Bettor
  /\ \E client \in Clients : w.built \in BuiltBy(client, w.meant, w.by)

WireInv ==
  /\ Stored
  /\ \A w \in wire : Sent(w)
  /\ \A w, other \in wire : w = other

LEMMA ArgumentTypes ==
  ASSUME NEW a \in Arguments
  PROVE  /\ a.ix \in {"init_market", "deposit", "lock_market", "resolve", "claim_payout",
                     "mint_to"}
         /\ a.ix = "init_market" =>
              a.marketId = MarketId /\ a.t \in Terms /\ a.lockTs \in LockTimes
         /\ a.ix \in {"deposit", "mint_to"} => a.n \in Amounts
         /\ a.ix = "deposit" => a.s \in Side
         /\ a.ix = "resolve" =>
              /\ a.sn \in Snapshots /\ a.ka \in ResolveKeys
              /\ a.kb \in {None} \cup {Some(k) : k \in ResolveKeys}
  BY DEF Arguments

LEMMA EffectStored ==
  ASSUME Stored, NEW a \in Arguments, NEW b, Effect(a, b)
  PROVE  Stored'
<1>1. CASE a.ix = "init_market" /\ InitMarket(a.t, a.lockTs)
  <2>1. a.t \in Terms /\ a.lockTs \in Int
    <3>1. a.t \in Terms /\ a.lockTs \in LockTimes
      BY <1>1, ArgumentTypes
    <3>2. LockTimes \subseteq Nat
      BY InputAssumption
    <3>3. a.lockTs \in Nat
      BY <3>1, <3>2, Zenon
    <3> QED
      BY <3>1, <3>3
  <2>2. /\ ConsistentStats(a.t) /\ created' = TRUE /\ terms' = a.t /\ lock_ts' = a.lockTs
        /\ yes_pool' = 0 /\ no_pool' = 0 /\ locked' = FALSE /\ resolved' = FALSE
        /\ outcome' = Unknown
    BY <1>1 DEF InitMarket, InitMarketAdmits
  <2>3. ConsistentStats(terms)'
    BY <2>2 DEF ConsistentStats
  <2>4. lock_ts' \in Int /\ yes_pool' \in Int /\ no_pool' \in Int
    BY <2>1, <2>2
  <2> QED
    BY <2>1, <2>2, <2>3, <2>4, Zenon DEF Stored
<1>2. CASE a.ix = "deposit" /\ Deposit(b, a.n, a.s)
  <2>1. a.n \in Int
    <3>1. a.n \in Amounts
      BY <1>2, ArgumentTypes
    <3>2. Amounts \subseteq Int
      BY ArgumentAssumption, MaxU64Assumption DEF U64
    <3> QED
      BY <3>1, <3>2
  <2>2. /\ UNCHANGED <<created, terms, lock_ts, locked, resolved, outcome>>
        /\ yes_pool' \in {yes_pool + a.n, yes_pool}
        /\ no_pool' \in {no_pool + a.n, no_pool}
    BY <1>2 DEF Deposit
  <2> HIDE <1>2
  <2> QED
    BY <2>1, <2>2 DEF Stored, ConsistentStats
<1>3. CASE LockMarket
  BY <1>3 DEF LockMarket, Stored, ConsistentStats
<1>4. CASE Resolve(a.sn, a.ka, a.kb)
  <2>1. outcome' \in Side
    BY <1>4 DEF Resolve, Decode, Side
  <2>2. /\ resolved' = TRUE
        /\ UNCHANGED <<created, terms, lock_ts, yes_pool, no_pool, locked>>
    BY <1>4 DEF Resolve
  <2>3. Unknown \notin Side
    BY DEF Unknown, Side, Yes, No
  <2> QED
    BY <2>1, <2>2, <2>3 DEF Stored, ConsistentStats
<1>5. CASE ClaimPayout(b) \/ MintTo(b, a.n)
  BY <1>5 DEF ClaimPayout, MintTo, marketVars, Stored, ConsistentStats
<1> QED
  BY <1>1, <1>2, <1>3, <1>4, <1>5 DEF Effect

LEMMA WireInitInv == WireInit => WireInv
<1> SUFFICES ASSUME WireInit PROVE WireInv
  OBVIOUS
<1>1. /\ created = FALSE /\ lock_ts = 0 /\ yes_pool = 0 /\ no_pool = 0 /\ locked = FALSE
      /\ resolved = FALSE /\ outcome = Unknown /\ wire = {}
  BY DEF WireInit, Init
<1>2. lock_ts \in Int /\ yes_pool \in Int /\ no_pool \in Int
  BY <1>1
<1> QED
  BY <1>1, <1>2, Zenon DEF WireInv, Stored

LEMMA WireNextInv == WireInv /\ [WireNext]_wireVars => WireInv'
<1> SUFFICES ASSUME WireInv, [WireNext]_wireVars PROVE WireInv'
  OBVIOUS
<1>1. ASSUME UNCHANGED vars PROVE Stored'
  BY <1>1 DEF WireInv, Stored, ConsistentStats, vars, marketVars
<1>2. ASSUME UNCHANGED vars, NEW w PROVE Sent(w) => Sent(w)'
  OBVIOUS
<1>3. CASE Submit
  <2>1. PICK a \in Arguments, b \in Bettor, client \in Clients :
          \E i \in BuiltBy(client, a, b) : wire' = {[by |-> b, meant |-> a, built |-> i]}
    BY <1>3 DEF Submit
  <2>2. PICK i \in BuiltBy(client, a, b) : wire' = {[by |-> b, meant |-> a, built |-> i]}
    BY <2>1
  <2>3. Sent([by |-> b, meant |-> a, built |-> i])
    BY <2>2 DEF Sent
  <2>4. \A w \in wire' : Sent(w)
    BY <2>2, <2>3
  <2> QED
    BY <1>1, <1>3, <2>4 DEF Submit, WireInv, Sent
<1>4. CASE Execute
  <2>1. PICK w \in wire : Executed(w) /\ wire' = {}
    BY <1>4 DEF Execute
  <2>2. PICK a \in Arguments : Effect(a, w.by)
    BY <2>1 DEF Executed, Understood, Reading
  <2>3. Stored'
    BY <2>2, EffectStored DEF WireInv
  <2> QED
    BY <2>1, <2>3 DEF WireInv
<1>5. CASE Drop
  BY <1>1, <1>5 DEF Drop, WireInv
<1>6. CASE World
  <2>1. UNCHANGED <<marketVars, wire>>
    BY <1>6 DEF World, Tick, PublishRoot
  <2> QED
    BY <2>1 DEF WireInv, Stored, ConsistentStats, marketVars, Sent
<1>7. CASE UNCHANGED wireVars
  BY <1>1, <1>7 DEF wireVars, WireInv, Sent
<1> QED
  BY <1>3, <1>4, <1>5, <1>6, <1>7 DEF WireNext

THEOREM WireInductive == WireSpec => []WireInv
  BY WireInitInv, WireNextInv, PTL DEF WireSpec

(* What the page shows of a two-stat market is what the program has        *)
(* stored, whatever its numbers, keys and terms are (decodeMarket).        *)
THEOREM DecodingIsTrue == WireSpec => []TwoStatMarketsDecode
<1>1. ASSUME Stored PROVE TwoStatMarketsDecode
  <2> SUFFICES ASSUME created, TwoStat
               PROVE  /\ Agree(IF resolved THEN DOMAIN TrueMarket
                                           ELSE DOMAIN TrueMarket \ {"bump"})
                      /\ hasCanonicalMint(AccountData) <=> UsdcMint = CanonicalMint
    BY DEF TwoStatMarketsDecode
  <2>1. /\ \A f \in DOMAIN TrueMarket \ {"bump"} :
               decodeMarket(AccountData)[f] = TrueMarket[f]
        /\ resolved => decodeMarket(AccountData)["bump"] = TrueMarket["bump"]
        /\ At(AccountData, 58, 32) = UsdcMint
    BY <1>1, Decoded
  <2> QED
    BY <2>1 DEF Agree, hasCanonicalMint, USDC_MINT_OFFSET
<1>2. WireInv => TwoStatMarketsDecode
  BY <1>1 DEF WireInv
<1> QED
  BY <1>2, WireInductive, PTL

-----------------------------------------------------------------------------
(* The builders.                                                           *)
LEMMA Regroup3 ==
  ASSUME NEW x \in Bytes, NEW y \in Bytes, NEW z \in Bytes
  PROVE  Cat(x, Cat(y, z)) = Cat(Cat(x, y), z)
  BY Regroup DEF Cat

LEMMA SameDeposit ==
  ASSUME NEW a \in Arguments, a.ix = "deposit", NEW b, NEW ata
  PROVE  buildDeposit(a, b, ata) = buildDepositInstruction(a, b, ata)
<1> DEFINE opcode == IX_DISCRIMINATOR.deposit
           n == LE(a.n, 8)
           s == Bool(a.s = Yes)
<1> HIDE DEF opcode, n, s
<1>1. opcode \in Bytes /\ n \in Bytes /\ s \in Bytes
  <2>1. opcode \in Bytes
    BY DEF opcode, IX_DISCRIMINATOR, Bytes, Byte
  <2>2. a.n \in Amounts /\ Amounts \subseteq Int
    BY ArgumentTypes, ArgumentAssumption, MaxU64Assumption DEF U64
  <2>3. a.n \in Int
    BY <2>2, Zenon
  <2> QED
    BY <2>1, <2>3, LEBytes, BoolByte DEF n, s, Bytes
<1>2. Cat(Cat(opcode, n), s) = Cat(opcode, Cat(n, s))
  BY <1>1, Regroup3
<1>3. PariWriter.u64 = 8
  BY DEF PariWriter
<1>4. IX_DISCRIMINATORS.deposit = opcode
  BY DEF IX_DISCRIMINATORS, IX_DISCRIMINATOR, opcode
<1>5. buildDeposit(a, b, ata) =
        Built(PARI_MARKET_PROGRAM_ID, DepositKeys(b, ata), Cat(Cat(opcode, n), s))
  BY <1>3, Zenon DEF buildDeposit, opcode, n, s, Cat
<1>6. buildDepositInstruction(a, b, ata) =
        Built(PARI_MARKET_PROGRAM_ID, DepositKeys(b, ata), Cat(opcode, Cat(n, s)))
  BY <1>4, Zenon DEF buildDepositInstruction, encodeDepositArgs, DepositKeys, n, s, Bool,
     Cat, dashboardVaultPda, dashboardPositionPda, vaultPda, positionPda
<1> QED
  BY <1>2, <1>5, <1>6

LEMMA SameClaim ==
  ASSUME NEW b, NEW ata
  PROVE  buildClaimPayout(b, ata) = buildClaimPayoutInstruction(b, ata)
<1>1. IX_DISCRIMINATORS.claim_payout = IX_DISCRIMINATOR.claim_payout
  BY DEF IX_DISCRIMINATORS, IX_DISCRIMINATOR
<1> QED
  BY <1>1, Zenon DEF buildClaimPayout, buildClaimPayoutInstruction, claimKeys,
     dashboardVaultPda, dashboardPositionPda, vaultPda, positionPda

LEMMA SameLock ==
  ASSUME NEW b
  PROVE  buildLockMarket(b) = buildLockMarketIx(b)
<1>1. IX_DISCRIMINATOR.lock_market = DevnetDiscriminator.lock_market
  BY DEF IX_DISCRIMINATOR, DevnetDiscriminator
<1> QED
  BY <1>1, Zenon DEF buildLockMarket, buildLockMarketIx

LEMMA Widths ==
  /\ PariWriter.u8 = 1 /\ PariWriter.u16 = 2 /\ PariWriter.u32 = 4
  /\ PariWriter.u64 = 8 /\ PariWriter.i32 = 4 /\ PariWriter.i64 = 8
  /\ DevnetWriter.u8 = 1 /\ DevnetWriter.u16 = 2 /\ DevnetWriter.u32 = 4
  /\ DevnetWriter.u64 = 8 /\ DevnetWriter.i32 = 4 /\ DevnetWriter.i64 = 8
  /\ ValidateStatWriter.u8 = 1 /\ ValidateStatWriter.u32 = 4
  /\ ValidateStatWriter.i32 = 4 /\ ValidateStatWriter.i64 = 8
  BY DEF PariWriter, DevnetWriter, ValidateStatWriter

LEMMA WriteOption ==
  ASSUME NEW o, o \subseteq Bytes
  PROVE  writeOption(o) \in Bytes
<1>1. Bool(FALSE) \in Bytes /\ Bool(TRUE) \in Bytes
  BY BoolByte
<1>2. CASE o = {}
  BY <1>1, <1>2 DEF writeOption
<1>3. CASE o # {}
  <2> DEFINE v == CHOOSE v \in o : TRUE
  <2>1. v \in Bytes
    BY <1>3
  <2>2. writeOption(o) = Bool(TRUE) \o v
    BY <1>3 DEF writeOption
  <2> HIDE DEF v
  <2> QED
    BY <1>1, <2>1, <2>2, Joined
<1> QED
  BY <1>2, <1>3

(* The terms of a market.                                                  *)
LEMMA TermTypes ==
  ASSUME NEW t \in Terms
  PROVE  /\ t \in [fixture_id : Int, epoch_day : Nat, stat_a_key : Nat,
                   stat_b_key : SUBSET Nat, op : SUBSET {"Add", "Subtract"},
                   comparison : {"GreaterThan", "LessThan", "EqualTo"},
                   threshold : Int]
         /\ t.fixture_id \in Int /\ t.epoch_day \in Nat /\ t.stat_a_key \in Nat
         /\ t.threshold \in Int /\ t.stat_b_key \subseteq Nat
         /\ t.op \subseteq {"Add", "Subtract"}
         /\ t.comparison \in {"GreaterThan", "LessThan", "EqualTo"}
         /\ Signed(t.fixture_id, 8) /\ Unsigned(t.epoch_day, 2)
         /\ Unsigned(t.stat_a_key, 4) /\ \A k \in t.stat_b_key : Unsigned(k, 4)
         /\ Signed(t.threshold, 4)
         /\ \A k, other \in t.stat_b_key : k = other
         /\ \A e, other \in t.op : e = other
<1>1. t \in [fixture_id : Int, epoch_day : Nat, stat_a_key : Nat,
            stat_b_key : SUBSET Nat, op : SUBSET {"Add", "Subtract"},
            comparison : {"GreaterThan", "LessThan", "EqualTo"}, threshold : Int]
  BY FieldAssumption, Zenon
<1>2. /\ t.fixture_id \in Int /\ t.epoch_day \in Nat /\ t.stat_a_key \in Nat
      /\ t.threshold \in Int /\ t.stat_b_key \subseteq Nat
      /\ t.op \subseteq {"Add", "Subtract"}
      /\ t.comparison \in {"GreaterThan", "LessThan", "EqualTo"}
  BY <1>1
<1>3. /\ Signed(t.fixture_id, 8) /\ Unsigned(t.epoch_day, 2)
      /\ Unsigned(t.stat_a_key, 4) /\ \A k \in t.stat_b_key : Unsigned(k, 4)
      /\ Signed(t.threshold, 4)
      /\ \A k, other \in t.stat_b_key : k = other
      /\ \A e, other \in t.op : e = other
  BY FieldAssumption, Zenon
<1> QED
  BY <1>1, <1>2, <1>3

LEMMA SameInit ==
  ASSUME NEW a \in Arguments, a.ix = "init_market", NEW b,
         "Subtract" \in a.t.op, a.t.comparison = "GreaterThan"
  PROVE  buildInitMarket(a, b) = buildInitMarketIx(a, b)
<1> DEFINE opcode == IX_DISCRIMINATOR.init_market
           id == LE(a.marketId, 8)
           fixture == LE(a.t.fixture_id, 8)
           day == LE(a.t.epoch_day, 2)
           key == LE(a.t.stat_a_key, 4)
           second == writeOption({LE(k, 4) : k \in a.t.stat_b_key})
           op == writeOption({<<1>>})
           threshold == LE(a.t.threshold, 4)
           greater == <<0>>
           lock == LE(a.lockTs, 8)
           x2 == Cat(opcode, id)
           x3 == Cat(x2, fixture)
           x4 == Cat(x3, day)
           x5 == Cat(x4, key)
           x6 == Cat(x5, second)
           x7 == Cat(x6, op)
           accounts == << RW(marketPda(a.marketId)), RO(USDC_MINT),
                          RW(vaultPda(marketPda(a.marketId))), SignRW(b),
                          RO(SPL_TOKEN_PROGRAM_ID), RO(SYSTEM_PROGRAM_ID),
                          RO(RENT_SYSVAR_ID) >>
<1> HIDE DEF opcode, id, fixture, day, key, second, op, threshold, greater, lock, x2, x3,
             x4, x5, x6, x7, accounts
<1>1. a.t \in Terms /\ a.marketId \in Int
  <2>1. a.t \in Terms /\ a.marketId = MarketId
    BY ArgumentTypes
  <2>2. MarketId \in Nat
    BY FieldAssumption, Zenon DEF Unsigned
  <2> QED
    BY <2>1, <2>2
<1>2. opcode \in Bytes
  BY DEF opcode, IX_DISCRIMINATOR, Bytes, Byte
<1>3. /\ id \in Bytes /\ fixture \in Bytes /\ day \in Bytes /\ key \in Bytes
      /\ threshold \in Bytes
  <2>1. /\ a.t.fixture_id \in Int /\ a.t.epoch_day \in Int /\ a.t.stat_a_key \in Int
        /\ a.t.threshold \in Int
    BY <1>1, TermTypes
  <2>2. \A n \in Int, w \in {2, 4, 8} : LE(n, w) \in Bytes
    BY LEBytes DEF Bytes
  <2> QED
    BY <1>1, <2>1, <2>2 DEF id, fixture, day, key, threshold
<1>4. second \in Bytes
  <2>1. \A k \in a.t.stat_b_key : LE(k, 4) \in Bytes
    <3>1. \A n \in Nat : LE(n, 4) \in Bytes
      BY LEBytes DEF Bytes
    <3>2. a.t.stat_b_key \subseteq Nat
      BY <1>1, TermTypes
    <3> QED
      BY <3>1, <3>2, Zenon
  <2> QED
    BY <2>1, WriteOption DEF second
<1>5. op \in Bytes /\ greater \in Bytes
  <2>1. <<1>> \in Bytes /\ <<0>> \in Bytes
    BY OneByte DEF Byte
  <2> QED
    BY <2>1, WriteOption DEF op, greater
<1>6. /\ x2 \in Bytes /\ x3 \in Bytes /\ x4 \in Bytes /\ x5 \in Bytes /\ x6 \in Bytes
      /\ x7 \in Bytes
  <2>1. \A x, y \in Bytes : Cat(x, y) \in Bytes
    BY Joined DEF Cat
  <2> QED
    BY <1>2, <1>3, <1>4, <1>5, <2>1 DEF x2, x3, x4, x5, x6, x7
<1>7. Cat(x7, Cat(threshold, greater)) = Cat(Cat(x7, threshold), greater)
  BY <1>3, <1>5, <1>6, Regroup3
<1>8. {LE(k, PariWriter.u32) : k \in a.t.stat_b_key} = {LE(k, 4) : k \in a.t.stat_b_key}
  BY Widths
<1>9. {LE(k, DevnetWriter.u32) : k \in a.t.stat_b_key} = {LE(k, 4) : k \in a.t.stat_b_key}
  BY Widths
<1>10. {Variant(Expressions, e) : e \in a.t.op} = {<<1>>}
  <2>1. a.t.op = {"Subtract"}
    BY <1>1, TermTypes
  <2> QED
    BY <2>1, ExpressionByte
<1>11. writeTraderPredicate(a.t) = Cat(threshold, greater)
  BY Widths, ComparisonByte DEF writeTraderPredicate, Cat, threshold, greater
<1>12. DevnetDiscriminator.init_market = opcode
  BY DEF DevnetDiscriminator, IX_DISCRIMINATOR, opcode
<1>13. buildInitMarket(a, b) =
         Built(PARI_MARKET_PROGRAM_ID, accounts, Cat(Cat(x7, Cat(threshold, greater)), lock))
  BY <1>8, <1>10, <1>11, Widths, Zenon DEF buildInitMarket, Cat, opcode, id, fixture, day,
     key, second, op, lock, x2, x3, x4, x5, x6, x7, accounts
<1>14. buildInitMarketIx(a, b) =
         Built(PARI_MARKET_PROGRAM_ID, accounts, Cat(Cat(Cat(x7, threshold), greater), lock))
  BY <1>9, <1>12, Widths, Zenon DEF buildInitMarketIx, Cat, id, fixture, day,
     key, second, op, threshold, greater, lock, x2, x3, x4, x5, x6, x7, accounts,
     devnetMarketPda, devnetVaultPdaOf, marketPda, vaultPda
<1> QED
  BY <1>7, <1>13, <1>14

(* The four writers of a proof's nodes, and of a statistic.                *)
LEMMA SameProof ==
  ASSUME NEW S, NEW nodes \in Seq(S)
  PROVE  /\ writeProof(nodes) = ProofNodes(nodes)
         /\ devnetProof(nodes) = ProofNodes(nodes)
         /\ m0Proof(nodes) = ProofNodes(nodes)
<1> DEFINE items == [i \in DOMAIN nodes |-> nodes[i].hash \o Bool(nodes[i].isRightSibling)]
<1>1. Len(items) = Len(nodes)
  <2>1. DOMAIN nodes = 1 .. Len(nodes) /\ Len(nodes) \in Nat
    BY LenProperties
  <2>2. DOMAIN items = 1 .. Len(nodes)
    BY <2>1
  <2>3. items = [i \in 1 .. Len(nodes) |-> items[i]]
    BY <2>1
  <2> DEFINE n == Len(nodes)
             same == [i \in 1 .. n |-> items[i]]
  <2> HIDE DEF items, n
  <2>4. n \in Nat
    BY <2>1 DEF n
  <2>5. Len(same) = n
    BY <2>4
  <2> QED
    BY <2>3, <2>5 DEF n
<1>2. writeProof(nodes) = LE(Len(items), PariWriter.u32) \o FlattenSeq(items)
  BY DEF writeProof, writeVec
<1>3. writeProof(nodes) = ProofNodes(nodes)
  BY <1>1, <1>2, Widths, Zenon DEF ProofNodes
<1>4. devnetProof(nodes) = ProofNodes(nodes) /\ m0Proof(nodes) = ProofNodes(nodes)
  BY Widths, Zenon DEF devnetProof, m0Proof, ProofNodes
<1> QED
  BY <1>3, <1>4

LEMMA SameStat ==
  ASSUME NEW sn, NEW k
  PROVE  LET t == Term(sn, k)
         IN  /\ writeStatTerm(t) = StatTerm(t)
             /\ devnetStatTerm(t) = StatTerm(t)
             /\ m0StatTerm(t) = StatTerm(t)
<1> DEFINE t == Term(sn, k)
           nodes == t.statProof
<1>1. nodes \in Seq({Node(20 + k, TRUE), Node(30 + k, FALSE)})
  BY DEF Term
<1> HIDE DEF t, nodes
<1>2. /\ writeProof(nodes) = ProofNodes(nodes)
      /\ devnetProof(nodes) = ProofNodes(nodes)
      /\ m0Proof(nodes) = ProofNodes(nodes)
  BY <1>1, SameProof
<1>3. writeStatTerm(t) = StatTerm(t)
  BY <1>2, Widths, Zenon DEF writeStatTerm, StatTerm, nodes
<1>4. devnetStatTerm(t) = StatTerm(t)
  BY <1>2, Widths, Zenon DEF devnetStatTerm, StatTerm, nodes
<1>5. m0StatTerm(t) = StatTerm(t)
  BY <1>2, Widths, Zenon DEF m0StatTerm, StatTerm, nodes
<1> QED
  BY <1>3, <1>4, <1>5 DEF t

(* The summary of a batch, alone or after something else.                  *)
LEMMA SummaryParts ==
  ASSUME NEW a \in Arguments, a.ix = "resolve"
  PROVE  LET p == Material(a)
         IN  /\ Sized(LE(p.ts, 8), 8) /\ Sized(LE(p.fixtureId, 8), 8)
             /\ Sized(LE(p.updateCount, 4), 4) /\ Sized(LE(p.minTimestamp, 8), 8)
             /\ Sized(LE(p.maxTimestamp, 8), 8) /\ Sized(p.eventsSubTreeRoot, 32)
<1>1. a.sn \in Snapshots
  BY ArgumentTypes
<1>2. a.sn.fixture_id \in Int
  <2>1. Signed(a.sn.fixture_id, 8)
    BY <1>1, ArgumentAssumption, Zenon
  <2> QED
    BY <2>1 DEF Signed
<1>3. SubTreeRoot[a.sn] \in [1 .. 32 -> 0 .. 255]
  <2>1. SubTreeRoot \in [Snapshots -> [1 .. 32 -> 0 .. 255]]
    BY ArgumentAssumption, Zenon
  <2> QED
    BY <1>1, <2>1, Zenon
<1>4. Sized(SubTreeRoot[a.sn], 32)
  BY <1>3, HashSized
<1> DEFINE p == Material(a)
<1>5. /\ p.ts = 501 /\ p.fixtureId = a.sn.fixture_id /\ p.updateCount = 7
      /\ p.minTimestamp = 501 /\ p.maxTimestamp = 502
      /\ p.eventsSubTreeRoot = SubTreeRoot[a.sn]
  BY DEF Material
<1> HIDE DEF p
<1>6. /\ Sized(LE(p.ts, 8), 8) /\ Sized(LE(p.fixtureId, 8), 8)
      /\ Sized(LE(p.updateCount, 4), 4) /\ Sized(LE(p.minTimestamp, 8), 8)
      /\ Sized(LE(p.maxTimestamp, 8), 8)
  BY <1>2, <1>5, LESized
<1> QED
  BY <1>4, <1>5, <1>6 DEF p

LEMMA SummaryAfter ==
  ASSUME NEW x \in Bytes, NEW a \in Arguments, a.ix = "resolve"
  PROVE  LET p == Material(a)
         IN  x \o writeScoresBatchSummary(p)
               = x \o LE(p.fixtureId, 8) \o LE(p.updateCount, 4)
                   \o LE(p.minTimestamp, 8) \o LE(p.maxTimestamp, 8)
                   \o p.eventsSubTreeRoot
<1> DEFINE p == Material(a)
           f == LE(p.fixtureId, 8)
           u == LE(p.updateCount, 4)
           l == LE(p.minTimestamp, 8)
           h == LE(p.maxTimestamp, 8)
           r == p.eventsSubTreeRoot
<1>1. f \in Bytes /\ u \in Bytes /\ l \in Bytes /\ h \in Bytes /\ r \in Bytes
  BY SummaryParts DEF Sized
<1>2. writeScoresBatchSummary(p) = Cat(Cat(Cat(Cat(f, u), l), h), r)
  BY Widths, Zenon DEF writeScoresBatchSummary, Cat
<1> HIDE DEF p, f, u, l, h, r
<1>3. \A y, z \in Bytes : Cat(y, z) \in Bytes
  BY Joined DEF Cat
<1>4. Cat(x, Cat(Cat(Cat(Cat(f, u), l), h), r)) = Cat(Cat(x, Cat(Cat(Cat(f, u), l), h)), r)
  <2> DEFINE s == Cat(Cat(Cat(f, u), l), h)
  <2>1. s \in Bytes
    BY <1>1, <1>3
  <2> HIDE DEF s
  <2>2. Cat(x, Cat(s, r)) = Cat(Cat(x, s), r)
    BY <1>1, <2>1, Regroup3
  <2> QED
    BY <2>2 DEF s
<1>5. Cat(x, Cat(Cat(Cat(f, u), l), h)) = Cat(Cat(x, Cat(Cat(f, u), l)), h)
  BY <1>1, <1>3, Regroup3
<1>6. Cat(x, Cat(Cat(f, u), l)) = Cat(Cat(x, Cat(f, u)), l)
  BY <1>1, <1>3, Regroup3
<1>7. Cat(x, Cat(f, u)) = Cat(Cat(x, f), u)
  BY <1>1, Regroup3
<1>8. Cat(x, writeScoresBatchSummary(p)) = Cat(Cat(Cat(Cat(Cat(x, f), u), l), h), r)
  BY <1>2, <1>4, <1>5, <1>6, <1>7, Zenon
<1> QED
  BY <1>8, Zenon DEF Cat, p, f, u, l, h, r

(* The proofs of a snapshot.                                               *)
LEMMA MaterialProofs ==
  ASSUME NEW a
  PROVE  LET p == Material(a)
         IN  /\ writeProof(p.fixtureProof) = ProofNodes(p.fixtureProof)
             /\ devnetProof(p.fixtureProof) = ProofNodes(p.fixtureProof)
             /\ m0Proof(p.fixtureProof) = ProofNodes(p.fixtureProof)
             /\ writeProof(p.mainTreeProof) = ProofNodes(p.mainTreeProof)
             /\ devnetProof(p.mainTreeProof) = ProofNodes(p.mainTreeProof)
             /\ m0Proof(p.mainTreeProof) = ProofNodes(p.mainTreeProof)
<1> DEFINE p == Material(a)
           x == p.fixtureProof
           y == p.mainTreeProof
<1>1. /\ x \in Seq({Node(50, FALSE), Node(60, TRUE), Node(70, TRUE)})
      /\ y \in Seq({Node(50, FALSE), Node(60, TRUE), Node(70, TRUE)})
  BY DEF Material
<1> HIDE DEF p, x, y
<1>2. /\ writeProof(x) = ProofNodes(x) /\ devnetProof(x) = ProofNodes(x)
      /\ m0Proof(x) = ProofNodes(x)
  BY <1>1, SameProof
<1>3. /\ writeProof(y) = ProofNodes(y) /\ devnetProof(y) = ProofNodes(y)
      /\ m0Proof(y) = ProofNodes(y)
  BY <1>1, SameProof
<1> QED
  BY <1>2, <1>3 DEF p, x, y

LEMMA MaterialStats ==
  ASSUME NEW a
  PROVE  LET p == Material(a)
         IN  /\ writeStatTerm(p.statA) = StatTerm(p.statA)
             /\ devnetStatTerm(p.statA) = StatTerm(p.statA)
             /\ m0StatTerm(p.statA) = StatTerm(p.statA)
             /\ {writeStatTerm(t) : t \in p.statB} = {StatTerm(t) : t \in p.statB}
             /\ {devnetStatTerm(t) : t \in p.statB} = {StatTerm(t) : t \in p.statB}
             /\ \A t \in p.statB : m0StatTerm(t) = StatTerm(t)
<1> DEFINE p == Material(a)
<1>1. p.statA = Term(a.sn, a.ka) /\ p.statB = {Term(a.sn, k) : k \in a.kb}
  BY DEF Material
<1> HIDE DEF p
<1>2. /\ writeStatTerm(p.statA) = StatTerm(p.statA)
      /\ devnetStatTerm(p.statA) = StatTerm(p.statA)
      /\ m0StatTerm(p.statA) = StatTerm(p.statA)
  BY <1>1, SameStat
<1>3. \A t \in p.statB : /\ writeStatTerm(t) = StatTerm(t)
                         /\ devnetStatTerm(t) = StatTerm(t)
                         /\ m0StatTerm(t) = StatTerm(t)
  BY <1>1, SameStat
<1> QED
  BY <1>2, <1>3 DEF p

LEMMA SameResolve ==
  ASSUME NEW a \in Arguments, a.ix = "resolve", NEW b
  PROVE  buildResolve(a, b) = buildResolveIx(a, b)
<1> DEFINE p == Material(a)
           opcode == IX_DISCRIMINATOR.resolve
           ts == LE(p.ts, 8)
           x == opcode \o ts
           accounts == << RW(TheMarket), RO(dailyScoresRootsPda(a.sn.epoch_day)),
                          RO(TXORACLE_PROGRAM_ID), SignRO(b) >>
           statA == StatTerm(p.statA)
           statB == writeOption({StatTerm(t) : t \in p.statB})
           summary == x \o LE(p.fixtureId, 8) \o LE(p.updateCount, 4)
                        \o LE(p.minTimestamp, 8) \o LE(p.maxTimestamp, 8)
                        \o p.eventsSubTreeRoot
           data == summary \o ProofNodes(p.fixtureProof) \o ProofNodes(p.mainTreeProof)
                     \o statA \o statB
<1>1. x \in Bytes
  <2> HIDE DEF opcode, ts
  <2>1. opcode \in Bytes
    BY DEF opcode, IX_DISCRIMINATOR, Bytes, Byte
  <2>2. ts \in Bytes
    BY SummaryParts DEF ts, Sized
  <2> QED
    BY <2>1, <2>2, Joined
<1> HIDE DEF x
<1>2. x \o writeScoresBatchSummary(p) = summary
  BY <1>1, SummaryAfter
<1>3. DevnetDiscriminator.resolve = opcode
  BY DEF DevnetDiscriminator, IX_DISCRIMINATOR
<1>4. buildResolve(a, b) = Built(PARI_MARKET_PROGRAM_ID, accounts, data)
  <2>1. buildResolve(a, b) =
          Built(PARI_MARKET_PROGRAM_ID, accounts,
                x \o writeScoresBatchSummary(p) \o writeProof(p.fixtureProof)
                  \o writeProof(p.mainTreeProof) \o writeStatTerm(p.statA)
                  \o writeOption({writeStatTerm(t) : t \in p.statB}))
    BY Widths, Zenon DEF buildResolve, x
  <2> QED
    BY <1>2, <2>1, MaterialProofs, MaterialStats, Zenon
<1>5. buildResolveIx(a, b) = Built(PARI_MARKET_PROGRAM_ID, accounts, data)
  <2>1. buildResolveIx(a, b) =
          Built(PARI_MARKET_PROGRAM_ID, accounts,
                summary \o devnetProof(p.fixtureProof)
                  \o devnetProof(p.mainTreeProof) \o devnetStatTerm(p.statA)
                  \o writeOption({devnetStatTerm(t) : t \in p.statB}))
    <3>1. devnetRootsPda(a.sn.epoch_day) = dailyScoresRootsPda(a.sn.epoch_day)
      BY Widths, Zenon DEF devnetRootsPda, dailyScoresRootsPda
    <3> QED
      BY <1>3, <3>1, Widths, Zenon DEF buildResolveIx, x
  <2> QED
    BY <2>1, MaterialProofs, MaterialStats, Zenon
<1> QED
  BY <1>4, <1>5, Zenon

(* All that the clients build for some arguments is one instruction.       *)
LEMMA OneInstruction ==
  ASSUME NEW a \in Arguments, NEW b, NEW client \in Clients, NEW other \in Clients,
         NEW i \in BuiltBy(client, a, b), NEW j \in BuiltBy(other, a, b)
  PROVE  i = j
<1> USE DEF BuiltBy, Clients
<1>1. CASE a.ix = "init_market"
  <2>1. \A c \in Clients : \A x \in BuiltBy(c, a, b) : x = buildInitMarket(a, b)
    <3> TAKE c \in Clients
    <3>1. CASE c = "pari-client"
      BY <1>1, <3>1
    <3>2. CASE c = "dashboard"
      BY <1>1, <3>2
    <3>3. CASE c = "devnet-verify"
      BY <1>1, <3>3, SameInit
    <3> QED
      BY <3>1, <3>2, <3>3
  <2> QED
    BY <2>1
<1>2. CASE a.ix = "deposit"
  BY <1>2, SameDeposit
<1>3. CASE a.ix = "lock_market"
  BY <1>3, SameLock
<1>4. CASE a.ix = "resolve"
  BY <1>4, SameResolve
<1>5. CASE a.ix = "claim_payout"
  BY <1>5, SameClaim
<1>6. CASE a.ix = "mint_to"
  BY <1>6
<1> QED
  BY <1>1, <1>2, <1>3, <1>4, <1>5, <1>6, ArgumentTypes

(* The hand-written builders agree to the byte and the flag, for any       *)
(* arguments: a dropped field, another width, another order of the         *)
(* accounts or another flag in one of the three would break this.          *)
THEOREM AgreeingBuilders == WireSpec => []BuildersAgree
<1>1. WireInv => BuildersAgree
  BY OneInstruction DEF WireInv, Sent, BuildersAgree
<1> QED
  BY <1>1, WireInductive, PTL

-----------------------------------------------------------------------------
(* The length of what is written.                                          *)

(* A list of two in one line of bytes (and of one).                        *)
Flattening(seqs, f) ==
  f = [i \in 1 .. Len(seqs) |-> IF i = 1 THEN seqs[i] ELSE f[i - 1] \o seqs[i]]

LEMMA FlattenIs ==
  ASSUME NEW seqs, Len(seqs) # 0, \E f : Flattening(seqs, f)
  PROVE  \E f : Flattening(seqs, f) /\ FlattenSeq(seqs) = f[Len(seqs)]
<1> DEFINE f == CHOOSE g : Flattening(seqs, g)
<1>1. Flattening(seqs, f)
  OBVIOUS
<1>2. FlattenSeq(seqs) = f[Len(seqs)]
  BY DEF FlattenSeq, Flattening
<1> QED
  BY <1>1, <1>2

LEMMA FlattenShort ==
  ASSUME NEW x, NEW y
  PROVE  FlattenSeq(<<x>>) = x /\ FlattenSeq(<<x, y>>) = Cat(x, y)
<1>1. FlattenSeq(<<x>>) = x
  <2> DEFINE seqs == <<x>>
  <2>1. Len(seqs) = 1 /\ seqs[1] = x
    OBVIOUS
  <2> HIDE DEF seqs
  <2> DEFINE g == [i \in 1 .. 1 |-> x]
  <2>2. Flattening(seqs, g)
    BY <2>1 DEF Flattening
  <2> HIDE DEF g
  <2>3. PICK f : Flattening(seqs, f) /\ FlattenSeq(seqs) = f[1]
    <3>1. Len(seqs) # 0
      BY <2>1
    <3>2. PICK f : Flattening(seqs, f) /\ FlattenSeq(seqs) = f[Len(seqs)]
      BY <2>2, <3>1, FlattenIs, Zenon
    <3> QED
      BY <2>1, <3>2
  <2>4. f[1] = x
    BY <2>1, <2>3 DEF Flattening
  <2> QED
    BY <2>3, <2>4 DEF seqs
<1>2. FlattenSeq(<<x, y>>) = Cat(x, y)
  <2> DEFINE seqs == <<x, y>>
             joined == Cat(x, y)
  <2>1. Len(seqs) = 2 /\ seqs[1] = x /\ seqs[2] = y
    OBVIOUS
  <2>2. joined = x \o y
    BY DEF Cat
  <2> HIDE DEF seqs, joined
  <2> DEFINE g == [i \in 1 .. 2 |-> IF i = 1 THEN x ELSE joined]
  <2>3. \A i \in 1 .. 2 : g[i] = IF i = 1 THEN seqs[i] ELSE g[i - 1] \o seqs[i]
    <3>1. g[1] = seqs[1]
      BY <2>1
    <3>2. g[2] = x \o y
      BY <2>2
    <3>3. g[2 - 1] = x /\ seqs[2] = y
      BY <2>1
    <3>4. g[2] = g[2 - 1] \o seqs[2]
      BY <3>2, <3>3, Zenon
    <3>5. \A i \in 1 .. 2 : i = 1 \/ i = 2
      OBVIOUS
    <3> HIDE DEF g
    <3> QED
      BY <3>1, <3>4, <3>5
  <2>4. g = [i \in 1 .. 2 |-> IF i = 1 THEN seqs[i] ELSE g[i - 1] \o seqs[i]]
    <3> DEFINE next(i) == IF i = 1 THEN seqs[i] ELSE g[i - 1] \o seqs[i]
    <3>1. \A i \in 1 .. 2 : g[i] = next(i)
      BY <2>3
    <3> HIDE DEF next
    <3>2. g = [i \in 1 .. 2 |-> next(i)]
      BY <3>1
    <3> QED
      BY <3>2 DEF next
  <2>5. Flattening(seqs, g)
    BY <2>1, <2>4, Zenon DEF Flattening
  <2>6. PICK f : Flattening(seqs, f) /\ FlattenSeq(seqs) = f[2]
    <3>1. Len(seqs) # 0
      BY <2>1
    <3> HIDE DEF g
    <3>2. PICK f : Flattening(seqs, f) /\ FlattenSeq(seqs) = f[Len(seqs)]
      BY <2>5, <3>1, FlattenIs, Zenon
    <3> QED
      BY <2>1, <3>2
  <2>7. f[1] = x /\ f[2] = f[1] \o y
    <3> DEFINE next(i) == IF i = 1 THEN seqs[i] ELSE f[i - 1] \o seqs[i]
    <3>1. f = [i \in 1 .. 2 |-> next(i)]
      BY <2>1, <2>6 DEF Flattening
    <3>2. next(1) = x
      BY <2>1
    <3>3. next(2) = f[2 - 1] \o y
      BY <2>1
    <3>4. 2 - 1 = 1
      OBVIOUS
    <3> HIDE DEF next
    <3>5. f[1] = next(1) /\ f[2] = next(2)
      BY <3>1
    <3> QED
      BY <3>2, <3>3, <3>4, <3>5, Zenon
  <2> QED
    BY <2>2, <2>6, <2>7, Zenon DEF seqs, joined
<1> QED
  BY <1>1, <1>2

LEMMA DigestSized ==
  ASSUME NEW h \in Int
  PROVE  Sized(Digest(h), 32)
<1>1. h % 256 \in 0 .. 255
  OBVIOUS
<1> DEFINE b == h % 256
<1> HIDE DEF b
<1>2. [i \in 1 .. 32 |-> b] \in [1 .. 32 -> 0 .. 255]
  BY <1>1 DEF b
<1> QED
  BY <1>2, HashSized DEF Digest, b

LEMMA NodesSized ==
  ASSUME NEW g \in Int, NEW h \in Int, NEW p \in BOOLEAN, NEW q \in BOOLEAN
  PROVE  /\ Sized(ProofNodes(<<Node(g, p)>>), 37)
         /\ Sized(ProofNodes(<<Node(g, p), Node(h, q)>>), 70)
<1> DEFINE x == Cat(Digest(g), Bool(p))
           y == Cat(Digest(h), Bool(q))
           bytes(n) == n.hash \o Bool(n.isRightSibling)
<1>1. Sized(x, 33) /\ Sized(y, 33)
  BY DigestSized, SmallSized, CatBytes
<1>2. Sized(LE(1, 4), 4) /\ Sized(LE(2, 4), 4)
  BY LESized
<1>3. bytes(Node(g, p)) = x /\ bytes(Node(h, q)) = y
  BY DEF Node, Cat
<1>4. Sized(Cat(x, y), 66)
  BY <1>1, CatBytes
<1> HIDE DEF x, y, bytes
<1>5. ProofNodes(<<Node(g, p)>>) = Cat(LE(1, 4), x)
  <2> DEFINE nodes == <<Node(g, p)>>
  <2>1. [i \in DOMAIN nodes |-> bytes(nodes[i])] = <<x>> /\ Len(nodes) = 1
    BY <1>3
  <2> QED
    BY <2>1, FlattenShort, Zenon DEF ProofNodes, Cat, bytes
<1>6. ProofNodes(<<Node(g, p), Node(h, q)>>) = Cat(LE(2, 4), Cat(x, y))
  <2> DEFINE nodes == <<Node(g, p), Node(h, q)>>
  <2>1. [i \in DOMAIN nodes |-> bytes(nodes[i])] = <<x, y>> /\ Len(nodes) = 2
    BY <1>3
  <2>2. ProofNodes(nodes) = LE(2, 4) \o FlattenSeq(<<x, y>>)
    BY <2>1, Zenon DEF ProofNodes, bytes
  <2> QED
    BY <2>2, FlattenShort, Zenon DEF Cat
<1>7. Sized(Cat(LE(1, 4), x), 37) /\ Sized(Cat(LE(2, 4), Cat(x, y)), 70)
  BY <1>1, <1>2, <1>4, CatBytes
<1> QED
  BY <1>5, <1>6, <1>7

(* A statistic of a snapshot.                                              *)
LEMMA SnapshotTypes ==
  ASSUME NEW sn \in Snapshots
  PROVE  /\ sn.fixture_id \in Int /\ sn.epoch_day \in Int
         /\ \A k \in ResolveKeys : sn.stat[k] \in Int
<1>1. /\ Signed(sn.fixture_id, 8) /\ Unsigned(sn.epoch_day, 2)
      /\ \A k \in ResolveKeys : Signed(sn.stat[k], 4)
  BY ArgumentAssumption, Zenon
<1>2. \A n, w : (Signed(n, w) => n \in Int) /\ (Unsigned(n, w) => n \in Int)
  BY DEF Signed, Unsigned
<1> QED
  BY <1>1, <1>2, Zenon

LEMMA KeyTypes ==
  ASSUME NEW k \in ResolveKeys
  PROVE  k \in Nat /\ Unsigned(k, 4)
<1>1. PICK t \in Terms : k \in {t.stat_a_key} \cup t.stat_b_key
  BY DEF ResolveKeys
<1>2. /\ t.stat_a_key \in Nat /\ t.stat_b_key \subseteq Nat
      /\ Unsigned(t.stat_a_key, 4) /\ \A l \in t.stat_b_key : Unsigned(l, 4)
  BY TermTypes
<1> QED
  BY <1>1, <1>2

LEMMA StatSized ==
  ASSUME NEW sn \in Snapshots, NEW k \in ResolveKeys
  PROVE  LET t == Term(sn, k)
         IN  /\ Sized(LE(t.key, 4), 4)
             /\ Sized(StatTerm(t), 114)
             /\ \E rest : Sized(rest, 110) /\ StatTerm(t) = Cat(LE(t.key, 4), rest)
<1> DEFINE t == Term(sn, k)
           key == LE(t.key, 4)
           value == LE(t.value, 4)
           period == LE(t.period, 4)
           root == t.eventStatRoot
           proof == ProofNodes(t.statProof)
<1>1. /\ t.key = k /\ t.value = sn.stat[k] /\ t.period = 4 /\ root = Digest(10 + k)
      /\ t.statProof = <<Node(20 + k, TRUE), Node(30 + k, FALSE)>>
  BY DEF Term
<1>2. k \in Int /\ sn.stat[k] \in Int
  BY KeyTypes, SnapshotTypes
<1>3. StatTerm(t) = Cat(Cat(Cat(Cat(key, value), period), root), proof)
  BY Zenon DEF StatTerm, Cat
<1> HIDE DEF t
<1>4. Sized(key, 4) /\ Sized(value, 4) /\ Sized(period, 4)
  <2>1. \A n \in Int : Sized(LE(n, 4), 4)
    BY LESized
  <2>2. t.key \in Int /\ t.value \in Int /\ t.period \in Int
    BY <1>1, <1>2
  <2> QED
    BY <2>1, <2>2, Zenon
<1>5. Sized(root, 32)
  BY <1>1, <1>2, DigestSized
<1>6. Sized(proof, 70)
  <2>1. 20 + k \in Int /\ 30 + k \in Int /\ TRUE \in BOOLEAN /\ FALSE \in BOOLEAN
    BY <1>2
  <2>2. Sized(ProofNodes(<<Node(20 + k, TRUE), Node(30 + k, FALSE)>>), 70)
    BY <2>1, NodesSized, Zenon
  <2> QED
    BY <1>1, <2>2, Zenon
<1> HIDE DEF key, value, period, root, proof
<1>7. Sized(Cat(key, value), 8) /\ Sized(Cat(value, period), 8)
  BY <1>4, CatBytes
<1>8. Sized(Cat(Cat(key, value), period), 12)
  BY <1>4, <1>7, CatBytes
<1>9. Sized(Cat(Cat(Cat(key, value), period), root), 44)
  BY <1>5, <1>8, CatBytes
<1>10. Sized(Cat(Cat(Cat(Cat(key, value), period), root), proof), 114)
  BY <1>6, <1>9, CatBytes
<1> DEFINE v == Cat(value, period)
           w == Cat(v, root)
           rest == Cat(w, proof)
<1>11. Sized(v, 8)
  BY <1>7
<1> HIDE DEF v
<1>12. Sized(w, 40)
  BY <1>5, <1>11, CatBytes
<1> HIDE DEF w
<1>13. Sized(rest, 110)
  BY <1>6, <1>12, CatBytes
<1>14. /\ key \in Bytes /\ value \in Bytes /\ period \in Bytes /\ root \in Bytes
       /\ proof \in Bytes /\ v \in Bytes /\ w \in Bytes
  BY <1>4, <1>5, <1>6, <1>11, <1>12 DEF Sized
<1>15. Cat(Cat(key, value), period) = Cat(key, v)
  BY <1>14, Regroup3 DEF v
<1>16. Cat(Cat(key, v), root) = Cat(key, w)
  BY <1>14, Regroup3 DEF w
<1>17. Cat(Cat(key, w), proof) = Cat(key, rest)
  BY <1>14, Regroup3
<1>18. StatTerm(t) = Cat(key, rest)
  BY <1>3, <1>15, <1>16, <1>17, Zenon
<1> QED
  BY <1>3, <1>4, <1>10, <1>13, <1>18 DEF t, key

(* What is optional: none or one value of n bytes.                         *)
AtMostOne(S, n) == \A v \in S : Sized(v, n) /\ \A u \in S : u = v

LEMMA OptionCases ==
  ASSUME NEW n \in Nat, NEW S, AtMostOne(S, n)
  PROVE  \/ S = {} /\ Option(S) = <<0>>
         \/ \E v : S = {v} /\ Sized(v, n) /\ Option(S) = Cat(<<1>>, v)
<1>1. CASE S = {}
  BY <1>1, OptionBytes
<1>2. CASE S # {}
  <2>1. PICK v \in S : TRUE
    BY <1>2
  <2>2. S = {v} /\ Sized(v, n)
    BY <2>1 DEF AtMostOne
  <2>3. Option({v}) = Cat(<<1>>, v)
    BY <2>2, OptionBytes DEF Sized, Cat
  <2> QED
    BY <2>2, <2>3
<1> QED
  BY <1>1, <1>2

LEMMA OptionSized ==
  ASSUME NEW n \in Nat, NEW S, AtMostOne(S, n)
  PROVE  Sized(Option(S), IF S = {} THEN 1 ELSE 1 + n)
<1>1. CASE S = {}
  BY <1>1, OptionBytes, SmallSized
<1>2. CASE S # {}
  <2>1. PICK v : S = {v} /\ Sized(v, n) /\ Option(S) = Cat(<<1>>, v)
    BY <1>2, OptionCases
  <2>2. Sized(<<1>>, 1)
    BY SmallSized
  <2>3. Sized(Cat(<<1>>, v), 1 + n)
    BY <2>1, <2>2, CatBytes
  <2> QED
    BY <1>2, <2>1, <2>3
<1> QED
  BY <1>1, <1>2

LEMMA OptionTells ==
  ASSUME NEW n \in Nat, NEW S, NEW T, AtMostOne(S, n), AtMostOne(T, n),
         NEW d, NEW o \in Nat, HoldsAt(d, o, Option(S)), HoldsAt(d, o, Option(T))
  PROVE  S = T
<1>1. ASSUME NEW U, AtMostOne(U, n), HoldsAt(d, o, Option(U))
      PROVE  \/ U = {} /\ ByteAt(d, o) = 0
             \/ U = {At(d, o + 1, n)} /\ ByteAt(d, o) = 1
  <2>1. CASE U = {} /\ Option(U) = <<0>>
    BY <1>1, <2>1, ReadByte
  <2>2. CASE \E v : U = {v} /\ Sized(v, n) /\ Option(U) = Cat(<<1>>, v)
    <3>1. PICK v : U = {v} /\ Sized(v, n) /\ Option(U) = Cat(<<1>>, v)
      BY <2>2
    <3>2. Sized(<<1>>, 1)
      BY SmallSized
    <3>3. HoldsAt(d, o, <<1>>) /\ HoldsAt(d, o + 1, v)
      BY <1>1, <3>1, <3>2, CatHolds
    <3>4. ByteAt(d, o) = 1
      BY <3>3, ReadByte
    <3>5. o + 1 \in Nat
      OBVIOUS
    <3>6. At(d, o + 1, n) = v
      BY <3>1, <3>3, <3>5, ReadPart
    <3> QED
      BY <3>1, <3>4, <3>6
  <2> QED
    BY <1>1, <2>1, <2>2, OptionCases
<1>2. \/ S = {} /\ ByteAt(d, o) = 0
      \/ S = {At(d, o + 1, n)} /\ ByteAt(d, o) = 1
  BY <1>1
<1>3. \/ T = {} /\ ByteAt(d, o) = 0
      \/ T = {At(d, o + 1, n)} /\ ByteAt(d, o) = 1
  BY <1>1
<1> QED
  BY <1>2, <1>3

-----------------------------------------------------------------------------
(* What the program reads.                                                 *)

LEMMA Encoded ==
  ASSUME NEW a \in Arguments
  PROVE  Encoding[a] = Cat(Opcode(a), ArgumentBytes(a))
  BY Zenon DEF Encoding, Cat

(* Every instruction of the program begins with its own eight bytes.       *)
LEMMA Opcodes ==
  ASSUME NEW a \in Arguments
  PROVE  /\ a.ix = "mint_to" => Opcode(a) = <<7>> /\ Sized(Opcode(a), 1)
         /\ a.ix # "mint_to" => /\ Opcode(a) = IX_DISCRIMINATOR[a.ix]
                                /\ Sized(Opcode(a), 8)
<1>1. /\ Sized(IX_DISCRIMINATOR["init_market"], 8) /\ Sized(IX_DISCRIMINATOR["deposit"], 8)
      /\ Sized(IX_DISCRIMINATOR["lock_market"], 8) /\ Sized(IX_DISCRIMINATOR["resolve"], 8)
      /\ Sized(IX_DISCRIMINATOR["claim_payout"], 8)
  BY DEF IX_DISCRIMINATOR, Sized, Bytes, Byte
<1>2. Sized(<<7>>, 1)
  BY OneByte DEF Sized, Byte
<1> QED
  BY <1>1, <1>2, ArgumentTypes DEF Opcode

LEMMA AtStart ==
  ASSUME NEW x, NEW n, Sized(x, n), NEW d, Begins(x, d)
  PROVE  HoldsAt(d, 0, x)
<1>1. \A i \in 1 .. Len(x) : d[0 + i] = x[i]
  <2>1. Len(x) \in Nat
    BY LenProperties DEF Sized, Bytes
  <2> QED
    BY <2>1 DEF Begins
<1> QED
  BY <1>1, Stands DEF Sized

LEMMA CatStart ==
  ASSUME NEW x, NEW y, NEW m \in Nat, NEW n \in Nat, Sized(x, m), Sized(y, n),
         NEW d, Len(d) \in Nat, Begins(Cat(x, y), d)
  PROVE  Begins(x, d) /\ HoldsAt(d, m, y)
  BY Peel, Cut DEF Cat, Sized

(* init_market.                                                            *)
SecondKey(t) == {LE(k, 4) : k \in t.stat_b_key}
Operation(t) == {Variant(Expressions, e) : e \in t.op}

LEMMA OptionalTerms ==
  ASSUME NEW t \in Terms
  PROVE  /\ AtMostOne(SecondKey(t), 4) /\ (SecondKey(t) = {} <=> t.stat_b_key = {})
         /\ AtMostOne(Operation(t), 1) /\ (Operation(t) = {} <=> t.op = {})
<1>1. AtMostOne(SecondKey(t), 4)
  <2>1. \A k \in t.stat_b_key : Sized(LE(k, 4), 4)
    <3>1. \A k \in Nat : Sized(LE(k, 4), 4)
      BY LESized
    <3>2. t.stat_b_key \subseteq Nat
      BY TermTypes
    <3> QED
      BY <3>1, <3>2, Zenon
  <2>2. \A k, other \in t.stat_b_key : k = other
    BY TermTypes
  <2> QED
    BY <2>1, <2>2 DEF AtMostOne, SecondKey
<1>2. AtMostOne(Operation(t), 1)
  <2>1. \A e \in t.op : Sized(Variant(Expressions, e), 1)
    <3>1. t.op \subseteq {"Add", "Subtract"}
      BY TermTypes
    <3> QED
      BY <3>1, ExpressionByte, SmallSized
  <2>2. \A e, other \in t.op : e = other
    BY TermTypes
  <2> QED
    BY <2>1, <2>2 DEF AtMostOne, Operation
<1>3. SecondKey(t) = {} <=> t.stat_b_key = {}
  BY DEF SecondKey
<1>4. Operation(t) = {} <=> t.op = {}
  BY DEF Operation
<1> QED
  BY <1>1, <1>2, <1>3, <1>4

LEMMA PredicateSized ==
  ASSUME NEW t \in Terms
  PROVE  /\ Sized(LE(t.threshold, 4), 4) /\ Sized(Variant(Comparisons, t.comparison), 1)
         /\ TraderPredicate(t) = Cat(LE(t.threshold, 4), Variant(Comparisons, t.comparison))
         /\ Sized(TraderPredicate(t), 5)
<1>1. Sized(LE(t.threshold, 4), 4)
  BY TermTypes, LESized
<1>2. Sized(Variant(Comparisons, t.comparison), 1)
  <2>1. \A c \in {"GreaterThan", "LessThan", "EqualTo"} : Sized(Variant(Comparisons, c), 1)
    BY ComparisonByte, SmallSized
  <2> QED
    BY <2>1, TermTypes
<1>3. TraderPredicate(t) = Cat(LE(t.threshold, 4), Variant(Comparisons, t.comparison))
  BY DEF TraderPredicate, Cat
<1> QED
  BY <1>1, <1>2, <1>3, CatBytes

LEMMA InitHolds ==
  ASSUME NEW a \in Arguments, a.ix = "init_market"
  PROVE  LET n == IF a.t.stat_b_key = {} THEN 1 ELSE 5
             m == IF a.t.op = {} THEN 1 ELSE 2
         IN  /\ ArgumentBytes(a) \in Bytes
             /\ \A d : Len(d) \in Nat /\ Begins(Encoding[a], d) =>
                  /\ HoldsAt(d, 0, Opcode(a))
                  /\ HoldsAt(d, 8, LE(a.marketId, 8))
                  /\ HoldsAt(d, 16, LE(a.t.fixture_id, 8))
                  /\ HoldsAt(d, 24, LE(a.t.epoch_day, 2))
                  /\ HoldsAt(d, 26, LE(a.t.stat_a_key, 4))
                  /\ HoldsAt(d, 30, Option(SecondKey(a.t)))
                  /\ HoldsAt(d, 30 + n, Option(Operation(a.t)))
                  /\ HoldsAt(d, 30 + n + m, TraderPredicate(a.t))
                  /\ HoldsAt(d, 35 + n + m, LE(a.lockTs, 8))
<1> DEFINE op == Opcode(a)
           n == IF a.t.stat_b_key = {} THEN 1 ELSE 5
           m == IF a.t.op = {} THEN 1 ELSE 2
           f1 == LE(a.marketId, 8)
           f2 == LE(a.t.fixture_id, 8)
           f3 == LE(a.t.epoch_day, 2)
           f4 == LE(a.t.stat_a_key, 4)
           f5 == Option(SecondKey(a.t))
           f6 == Option(Operation(a.t))
           f7 == TraderPredicate(a.t)
           f8 == LE(a.lockTs, 8)
           c1 == f1
           c2 == Cat(c1, f2)
           c3 == Cat(c2, f3)
           c4 == Cat(c3, f4)
           c5 == Cat(c4, f5)
           c6 == Cat(c5, f6)
           c7 == Cat(c6, f7)
           c8 == Cat(c7, f8)
<1>1. ArgumentBytes(a) = c8 /\ Sized(op, 8)
  <2>1. ArgumentBytes(a) = c8
    BY Zenon DEF ArgumentBytes, Cat, SecondKey, Operation
  <2> QED
    BY <2>1, Opcodes
<1>2. n \in Nat /\ m \in Nat
  OBVIOUS
<1>3. a.t \in Terms /\ a.lockTs \in LockTimes /\ a.marketId = MarketId
  BY ArgumentTypes
<1>4. Sized(f1, 8) /\ Sized(f8, 8)
  <2>1. a.marketId \in Int
    <3>1. MarketId \in Nat
      BY FieldAssumption, Zenon DEF Unsigned
    <3> QED
      BY <1>3, <3>1
  <2>2. a.lockTs \in Nat
    BY <1>3, InputAssumption, Zenon
  <2> QED
    BY <2>1, <2>2, LESized
<1>5. Sized(f2, 8) /\ Sized(f3, 2) /\ Sized(f4, 4)
  BY <1>3, TermTypes, LESized
<1>6. Sized(f5, n)
  <2>1. Sized(f5, IF SecondKey(a.t) = {} THEN 1 ELSE 1 + 4)
    BY <1>3, OptionalTerms, OptionSized
  <2>2. SecondKey(a.t) = {} <=> a.t.stat_b_key = {}
    BY <1>3, OptionalTerms
  <2> QED
    BY <2>1, <2>2
<1>7. Sized(f6, m)
  <2>1. Sized(f6, IF Operation(a.t) = {} THEN 1 ELSE 1 + 1)
    BY <1>3, OptionalTerms, OptionSized
  <2>2. Operation(a.t) = {} <=> a.t.op = {}
    BY <1>3, OptionalTerms
  <2> QED
    BY <2>1, <2>2
<1>8. Sized(f7, 5)
  BY <1>3, PredicateSized
<1> HIDE DEF op, n, m, f1, f2, f3, f4, f5, f6, f7, f8, c1, c2, c3, c4, c5, c6,
             c7, c8
<1>9. Sized(c1, 8)
  BY <1>4 DEF c1
<1>10. Sized(c2, 16)
  BY <1>5, <1>9, CatBytes DEF c2
<1>11. Sized(c3, 18)
  BY <1>5, <1>10, CatBytes DEF c3
<1>12. Sized(c4, 22)
  BY <1>5, <1>11, CatBytes DEF c4
<1>13. Sized(c5, 22 + n)
  BY <1>2, <1>6, <1>12, CatBytes DEF c5
<1>14. Sized(c6, 22 + n + m)
  BY <1>2, <1>7, <1>13, CatBytes DEF c6
<1>15. Sized(c7, 27 + n + m)
  BY <1>2, <1>8, <1>14, CatBytes DEF c7
<1>16. Sized(c8, 35 + n + m)
  BY <1>2, <1>4, <1>15, CatBytes DEF c8
<1>17. ArgumentBytes(a) \in Bytes
  BY <1>1, <1>16 DEF Sized
<1>18. ASSUME NEW d, Len(d) \in Nat, Begins(Encoding[a], d)
      PROVE  /\ HoldsAt(d, 0, op)
             /\ HoldsAt(d, 8, f1)
             /\ HoldsAt(d, 16, f2)
             /\ HoldsAt(d, 24, f3)
             /\ HoldsAt(d, 26, f4)
             /\ HoldsAt(d, 30, f5)
             /\ HoldsAt(d, 30 + n, f6)
             /\ HoldsAt(d, 30 + n + m, f7)
             /\ HoldsAt(d, 35 + n + m, f8)
  <2>1. Begins(Cat(op, c8), d)
    BY <1>1, <1>18, Encoded, Zenon DEF op
  <2>2. Begins(Cat(op, c7), d) /\ HoldsAt(d, 35 + n + m, f8)
    BY <1>1, <1>2, <1>4, <1>18, <2>1, <1>15, CatField DEF c8
  <2>3. Begins(Cat(op, c6), d) /\ HoldsAt(d, 30 + n + m, f7)
    BY <1>1, <1>2, <1>8, <1>18, <2>2, <1>14, CatField DEF c7
  <2>4. Begins(Cat(op, c5), d) /\ HoldsAt(d, 30 + n, f6)
    BY <1>1, <1>2, <1>7, <1>18, <2>3, <1>13, CatField DEF c6
  <2>5. Begins(Cat(op, c4), d) /\ HoldsAt(d, 30, f5)
    BY <1>1, <1>2, <1>6, <1>18, <2>4, <1>12, CatField DEF c5
  <2>6. Begins(Cat(op, c3), d) /\ HoldsAt(d, 26, f4)
    BY <1>1, <1>5, <1>18, <2>5, <1>11, CatField DEF c4
  <2>7. Begins(Cat(op, c2), d) /\ HoldsAt(d, 24, f3)
    BY <1>1, <1>5, <1>18, <2>6, <1>10, CatField DEF c3
  <2>8. Begins(Cat(op, c1), d) /\ HoldsAt(d, 16, f2)
    BY <1>1, <1>5, <1>18, <2>7, <1>9, CatField DEF c2
  <2>9. Begins(op, d) /\ HoldsAt(d, 8, f1)
    BY <1>1, <1>18, <1>9, <2>8, CatStart DEF c1
  <2>10. HoldsAt(d, 0, op)
    BY <1>1, <2>9, AtStart
  <2> QED
    BY <2>2, <2>3, <2>4, <2>5, <2>6, <2>7, <2>8, <2>9, <2>10
<1> QED
  BY <1>17, <1>18, Zenon DEF op, n, m, f1, f2, f3, f4, f5, f6, f7, f8

(* resolve.                                                                *)
LEMMA StatsOfMaterial ==
  ASSUME NEW a \in Arguments, a.ix = "resolve"
  PROVE  LET p == Material(a)
         IN  /\ Sized(StatTerm(p.statA), 114)
             /\ AtMostOne({StatTerm(t) : t \in p.statB}, 114)
             /\ {StatTerm(t) : t \in p.statB} = {StatTerm(Term(a.sn, k)) : k \in a.kb}
<1> DEFINE p == Material(a)
<1>1. p.statA = Term(a.sn, a.ka) /\ p.statB = {Term(a.sn, k) : k \in a.kb}
  BY DEF Material
<1>2. /\ a.sn \in Snapshots /\ a.ka \in ResolveKeys
      /\ a.kb \in {None} \cup {Some(k) : k \in ResolveKeys}
  BY ArgumentTypes
<1>3. /\ \A k \in a.kb : k \in ResolveKeys
      /\ \A k, other \in a.kb : k = other
  BY <1>2 DEF None, Some
<1> HIDE DEF p
<1>4. Sized(StatTerm(p.statA), 114)
  BY <1>1, <1>2, StatSized
<1>5. {StatTerm(t) : t \in p.statB} = {StatTerm(Term(a.sn, k)) : k \in a.kb}
  BY <1>1
<1>6. \A k \in a.kb : Sized(StatTerm(Term(a.sn, k)), 114)
  BY <1>2, <1>3, StatSized
<1>7. AtMostOne({StatTerm(Term(a.sn, k)) : k \in a.kb}, 114)
  BY <1>3, <1>6 DEF AtMostOne
<1> QED
  BY <1>4, <1>5, <1>7 DEF p

LEMMA SummarySized ==
  ASSUME NEW a \in Arguments, a.ix = "resolve"
  PROVE  LET p == Material(a)
         IN  /\ Sized(ScoresBatchSummary(p), 60)
             /\ \A d, o : o \in Nat /\ HoldsAt(d, o, ScoresBatchSummary(p)) =>
                  HoldsAt(d, o + 28, SubTreeRoot[a.sn])
<1> DEFINE p == Material(a)
           f1 == LE(p.fixtureId, 8)
           f2 == LE(p.updateCount, 4)
           f3 == LE(p.minTimestamp, 8)
           f4 == LE(p.maxTimestamp, 8)
           f5 == p.eventsSubTreeRoot
           c2 == Cat(f1, f2)
           c3 == Cat(c2, f3)
           c4 == Cat(c3, f4)
<1>1. ScoresBatchSummary(p) = Cat(c4, f5)
  BY Zenon DEF ScoresBatchSummary, Cat
<1>2. /\ Sized(f1, 8) /\ Sized(f2, 4) /\ Sized(f3, 8) /\ Sized(f4, 8) /\ Sized(f5, 32)
  BY SummaryParts
<1>3. f5 = SubTreeRoot[a.sn]
  BY DEF Material
<1> HIDE DEF p, f1, f2, f3, f4, f5, c2, c3, c4
<1>4. Sized(c2, 12)
  BY <1>2, CatBytes DEF c2
<1>5. Sized(c3, 20)
  BY <1>2, <1>4, CatBytes DEF c3
<1>6. Sized(c4, 28)
  BY <1>2, <1>5, CatBytes DEF c4
<1>7. Sized(Cat(c4, f5), 60)
  BY <1>2, <1>6, CatBytes
<1>8. \A d, o : o \in Nat /\ HoldsAt(d, o, Cat(c4, f5)) => HoldsAt(d, o + 28, f5)
  BY <1>2, <1>6, CatHolds
<1> QED
  BY <1>1, <1>3, <1>7, <1>8 DEF p

LEMMA TreesSized ==
  ASSUME NEW a
  PROVE  LET p == Material(a)
         IN  Sized(ProofNodes(p.fixtureProof), 37) /\ Sized(ProofNodes(p.mainTreeProof), 70)
<1> DEFINE p == Material(a)
<1>1. /\ p.fixtureProof = <<Node(50, FALSE)>>
      /\ p.mainTreeProof = <<Node(60, TRUE), Node(70, TRUE)>>
  BY DEF Material
<1> HIDE DEF p
<1>2. 50 \in Int /\ 60 \in Int /\ 70 \in Int /\ TRUE \in BOOLEAN /\ FALSE \in BOOLEAN
  OBVIOUS
<1>3. Sized(ProofNodes(<<Node(50, FALSE)>>), 37)
  BY <1>2, NodesSized, Zenon
<1>4. Sized(ProofNodes(<<Node(60, TRUE), Node(70, TRUE)>>), 70)
  BY <1>2, NodesSized, Zenon
<1> QED
  BY <1>1, <1>3, <1>4, Zenon DEF p

LEMMA ResolveHolds ==
  ASSUME NEW a \in Arguments, a.ix = "resolve"
  PROVE  LET p == Material(a)
             n == IF a.kb = {} THEN 1 ELSE 115
         IN  /\ ArgumentBytes(a) \in Bytes
             /\ \A d : Len(d) \in Nat /\ Begins(Encoding[a], d) =>
                  /\ HoldsAt(d, 0, Opcode(a))
                  /\ HoldsAt(d, 8, LE(p.ts, 8))
                  /\ HoldsAt(d, 16, ScoresBatchSummary(p))
                  /\ HoldsAt(d, 76, ProofNodes(p.fixtureProof))
                  /\ HoldsAt(d, 113, ProofNodes(p.mainTreeProof))
                  /\ HoldsAt(d, 183, StatTerm(p.statA))
                  /\ HoldsAt(d, 297, Option({StatTerm(t) : t \in p.statB}))
<1> DEFINE op == Opcode(a)
           p == Material(a)
           n == IF a.kb = {} THEN 1 ELSE 115
           f1 == LE(p.ts, 8)
           f2 == ScoresBatchSummary(p)
           f3 == ProofNodes(p.fixtureProof)
           f4 == ProofNodes(p.mainTreeProof)
           f5 == StatTerm(p.statA)
           f6 == Option({StatTerm(t) : t \in p.statB})
           c1 == f1
           c2 == Cat(c1, f2)
           c3 == Cat(c2, f3)
           c4 == Cat(c3, f4)
           c5 == Cat(c4, f5)
           c6 == Cat(c5, f6)
<1>1. ArgumentBytes(a) = c6 /\ Sized(op, 8)
  <2>1. ArgumentBytes(a) = c6
    BY Zenon DEF ArgumentBytes, Cat
  <2> QED
    BY <2>1, Opcodes
<1>2. n \in Nat
  OBVIOUS
<1>3. Sized(f1, 8)
  BY SummaryParts
<1>4. Sized(f2, 60)
  BY SummarySized
<1>5. Sized(f3, 37) /\ Sized(f4, 70)
  BY TreesSized
<1>6. Sized(f5, 114)
  BY StatsOfMaterial
<1>7. Sized(f6, n)
  <2> DEFINE S == {StatTerm(t) : t \in p.statB}
  <2>1. AtMostOne(S, 114) /\ S = {StatTerm(Term(a.sn, k)) : k \in a.kb}
    BY StatsOfMaterial
  <2>2. S = {} <=> a.kb = {}
    BY <2>1
  <2> HIDE DEF S
  <2>3. Sized(Option(S), IF S = {} THEN 1 ELSE 1 + 114)
    BY <2>1, OptionSized
  <2>4. Sized(Option(S), n)
    BY <2>2, <2>3
  <2> QED
    BY <2>4 DEF S
<1> HIDE DEF op, p, n, f1, f2, f3, f4, f5, f6, c1, c2, c3, c4, c5, c6
<1>8. Sized(c1, 8)
  BY <1>3 DEF c1
<1>9. Sized(c2, 68)
  BY <1>4, <1>8, CatBytes DEF c2
<1>10. Sized(c3, 105)
  BY <1>5, <1>9, CatBytes DEF c3
<1>11. Sized(c4, 175)
  BY <1>5, <1>10, CatBytes DEF c4
<1>12. Sized(c5, 289)
  BY <1>6, <1>11, CatBytes DEF c5
<1>13. Sized(c6, 289 + n)
  BY <1>2, <1>7, <1>12, CatBytes DEF c6
<1>14. ArgumentBytes(a) \in Bytes
  BY <1>1, <1>13 DEF Sized
<1>15. ASSUME NEW d, Len(d) \in Nat, Begins(Encoding[a], d)
      PROVE  /\ HoldsAt(d, 0, op)
             /\ HoldsAt(d, 8, f1)
             /\ HoldsAt(d, 16, f2)
             /\ HoldsAt(d, 76, f3)
             /\ HoldsAt(d, 113, f4)
             /\ HoldsAt(d, 183, f5)
             /\ HoldsAt(d, 297, f6)
  <2>1. Begins(Cat(op, c6), d)
    BY <1>1, <1>15, Encoded, Zenon DEF op
  <2>2. Begins(Cat(op, c5), d) /\ HoldsAt(d, 297, f6)
    BY <1>1, <1>2, <1>7, <1>15, <2>1, <1>12, CatField DEF c6
  <2>3. Begins(Cat(op, c4), d) /\ HoldsAt(d, 183, f5)
    BY <1>1, <1>6, <1>15, <2>2, <1>11, CatField DEF c5
  <2>4. Begins(Cat(op, c3), d) /\ HoldsAt(d, 113, f4)
    BY <1>1, <1>5, <1>15, <2>3, <1>10, CatField DEF c4
  <2>5. Begins(Cat(op, c2), d) /\ HoldsAt(d, 76, f3)
    BY <1>1, <1>5, <1>15, <2>4, <1>9, CatField DEF c3
  <2>6. Begins(Cat(op, c1), d) /\ HoldsAt(d, 16, f2)
    BY <1>1, <1>4, <1>15, <2>5, <1>8, CatField DEF c2
  <2>7. Begins(op, d) /\ HoldsAt(d, 8, f1)
    BY <1>1, <1>15, <1>8, <2>6, CatStart DEF c1
  <2>8. HoldsAt(d, 0, op)
    BY <1>1, <2>7, AtStart
  <2> QED
    BY <2>2, <2>3, <2>4, <2>5, <2>6, <2>7, <2>8
<1> QED
  BY <1>14, <1>15, Zenon DEF op, p, n, f1, f2, f3, f4, f5, f6

(* deposit.                                                                *)
LEMMA DepositHolds ==
  ASSUME NEW a \in Arguments, a.ix = "deposit"
  PROVE  /\ ArgumentBytes(a) \in Bytes
         /\ \A d : Len(d) \in Nat /\ Begins(Encoding[a], d) =>
              /\ HoldsAt(d, 0, Opcode(a))
              /\ HoldsAt(d, 8, LE(a.n, 8))
              /\ HoldsAt(d, 16, Bool(a.s = Yes))
<1> DEFINE op == Opcode(a)
           f1 == LE(a.n, 8)
           f2 == Bool(a.s = Yes)
           c1 == f1
           c2 == Cat(c1, f2)
<1>1. ArgumentBytes(a) = c2 /\ Sized(op, 8)
  <2>1. ArgumentBytes(a) = c2
    BY Zenon DEF ArgumentBytes, Cat
  <2> QED
    BY <2>1, Opcodes
<1>2. Sized(f1, 8)
  <2>1. a.n \in Amounts /\ Amounts \subseteq Int
    BY ArgumentTypes, ArgumentAssumption, MaxU64Assumption DEF U64
  <2>2. a.n \in Int
    BY <2>1, Zenon
  <2> QED
    BY <2>2, LESized
<1>3. Sized(f2, 1)
  BY SmallSized
<1> HIDE DEF op, f1, f2, c1, c2
<1>4. Sized(c1, 8)
  BY <1>2 DEF c1
<1>5. Sized(c2, 9)
  BY <1>3, <1>4, CatBytes DEF c2
<1>6. ArgumentBytes(a) \in Bytes
  BY <1>1, <1>5 DEF Sized
<1>7. ASSUME NEW d, Len(d) \in Nat, Begins(Encoding[a], d)
      PROVE  /\ HoldsAt(d, 0, op)
             /\ HoldsAt(d, 8, f1)
             /\ HoldsAt(d, 16, f2)
  <2>1. Begins(Cat(op, c2), d)
    BY <1>1, <1>7, Encoded, Zenon DEF op
  <2>2. Begins(Cat(op, c1), d) /\ HoldsAt(d, 16, f2)
    BY <1>1, <1>3, <1>7, <2>1, <1>4, CatField DEF c2
  <2>3. Begins(op, d) /\ HoldsAt(d, 8, f1)
    BY <1>1, <1>7, <1>4, <2>2, CatStart DEF c1
  <2>4. HoldsAt(d, 0, op)
    BY <1>1, <2>3, AtStart
  <2> QED
    BY <2>2, <2>3, <2>4
<1> QED
  BY <1>6, <1>7, Zenon DEF op, f1, f2

(* The others have no argument but an amount.                              *)
LEMMA ArgumentsAreBytes ==
  ASSUME NEW a \in Arguments
  PROVE  ArgumentBytes(a) \in Bytes /\ Encoding[a] \in Bytes
<1>1. ArgumentBytes(a) \in Bytes
  <2>1. CASE a.ix = "init_market"
    BY <2>1, InitHolds, Zenon
  <2>2. CASE a.ix = "deposit"
    BY <2>2, DepositHolds, Zenon
  <2>3. CASE a.ix = "resolve"
    BY <2>3, ResolveHolds, Zenon
  <2>4. CASE a.ix \in {"lock_market", "claim_payout"}
    <3>1. ArgumentBytes(a) = <<>>
      BY <2>4 DEF ArgumentBytes
    <3> QED
      BY <3>1, EmptySeq DEF Bytes
  <2>5. CASE a.ix = "mint_to"
    <3>1. a.n \in Amounts /\ Amounts \subseteq Int
      BY <2>5, ArgumentTypes, ArgumentAssumption, MaxU64Assumption DEF U64
    <3>2. a.n \in Int
      BY <3>1, Zenon
    <3>3. ArgumentBytes(a) = LE(a.n, 8)
      BY <2>5 DEF ArgumentBytes
    <3> QED
      BY <3>2, <3>3, LESized DEF Sized
  <2> QED
    BY <2>1, <2>2, <2>3, <2>4, <2>5, ArgumentTypes
<1>2. Opcode(a) \in Bytes
  BY Opcodes DEF Sized
<1>3. Cat(Opcode(a), ArgumentBytes(a)) \in Bytes
  BY <1>1, <1>2, Joined DEF Cat
<1> QED
  BY <1>1, <1>3, Encoded

LEMMA MintHolds ==
  ASSUME NEW a \in Arguments, a.ix = "mint_to",
         NEW d, Len(d) \in Nat, Begins(Encoding[a], d)
  PROVE  HoldsAt(d, 0, <<7>>) /\ HoldsAt(d, 1, LE(a.n, 8))
<1>1. a.n \in Int
  <2>1. a.n \in Amounts /\ Amounts \subseteq Int
    BY ArgumentTypes, ArgumentAssumption, MaxU64Assumption DEF U64
  <2> QED
    BY <2>1, Zenon
<1>2. ArgumentBytes(a) = LE(a.n, 8)
  BY DEF ArgumentBytes
<1>3. Sized(LE(a.n, 8), 8) /\ Sized(<<7>>, 1)
  BY <1>1, LESized, Opcodes
<1>4. Begins(Cat(<<7>>, LE(a.n, 8)), d)
  BY <1>2, Encoded, Opcodes
<1>5. Begins(<<7>>, d) /\ HoldsAt(d, 1, LE(a.n, 8))
  BY <1>3, <1>4, CatStart
<1> QED
  BY <1>3, <1>5, AtStart

LEMMA OpcodeFirst ==
  ASSUME NEW a \in Arguments, NEW d, Len(d) \in Nat, Begins(Encoding[a], d)
  PROVE  HoldsAt(d, 0, Opcode(a))
<1>1. Begins(Cat(Opcode(a), ArgumentBytes(a)), d)
  BY Encoded
<1>2. Opcode(a) \in Bytes /\ ArgumentBytes(a) \in Bytes
  BY Opcodes, ArgumentsAreBytes DEF Sized
<1>3. Begins(Opcode(a), d)
  BY <1>1, <1>2, Peel DEF Cat
<1> QED
  BY <1>2, <1>3, AtStart DEF Sized

(* The first byte tells the instructions apart.                            *)
FirstByte ==
  [init_market |-> 33, deposit |-> 242, lock_market |-> 107, resolve |-> 246,
   claim_payout |-> 127, mint_to |-> 7]

LEMMA FirstBytes ==
  ASSUME NEW a \in Arguments, NEW d, Len(d) \in Nat, Begins(Encoding[a], d)
  PROVE  d[1] = FirstByte[a.ix]
<1>1. HoldsAt(d, 0, Opcode(a))
  BY OpcodeFirst
<1>2. Len(Opcode(a)) \in {1, 8}
  BY Opcodes DEF Sized
<1>3. d[0 + 1] = Opcode(a)[1]
  BY <1>1, <1>2 DEF HoldsAt
<1>4. Opcode(a)[1] = FirstByte[a.ix]
  <2>1. /\ IX_DISCRIMINATOR["init_market"][1] = 33 /\ IX_DISCRIMINATOR["deposit"][1] = 242
        /\ IX_DISCRIMINATOR["lock_market"][1] = 107 /\ IX_DISCRIMINATOR["resolve"][1] = 246
        /\ IX_DISCRIMINATOR["claim_payout"][1] = 127
    BY DEF IX_DISCRIMINATOR
  <2>2. /\ FirstByte["init_market"] = 33 /\ FirstByte["deposit"] = 242
        /\ FirstByte["lock_market"] = 107 /\ FirstByte["resolve"] = 246
        /\ FirstByte["claim_payout"] = 127 /\ FirstByte["mint_to"] = 7
    BY DEF FirstByte
  <2>3. <<7>>[1] = 7
    OBVIOUS
  <2> QED
    BY <2>1, <2>2, <2>3, Opcodes, ArgumentTypes
<1> QED
  BY <1>3, <1>4

LEMMA SameIx ==
  ASSUME NEW a \in Arguments, NEW m \in Arguments, NEW d, Len(d) \in Nat,
         Begins(Encoding[a], d), Begins(Encoding[m], d)
  PROVE  a.ix = m.ix
<1>1. d[1] = FirstByte[a.ix] /\ d[1] = FirstByte[m.ix]
  BY FirstBytes
<1>2. \A x, y \in {"init_market", "deposit", "lock_market", "resolve", "claim_payout",
                   "mint_to"} : FirstByte[x] = FirstByte[y] => x = y
  BY DEF FirstByte
<1> QED
  BY <1>1, <1>2, ArgumentTypes

(* A number of the type it is read with.                                   *)
LEMMA NumberTells ==
  ASSUME NEW x, NEW y, NEW w \in Nat \ {0},
         \/ Unsigned(x, w) /\ Unsigned(y, w)
         \/ Signed(x, w) /\ Signed(y, w),
         NEW d, NEW o \in Nat, HoldsAt(d, o, LE(x, w)), HoldsAt(d, o, LE(y, w))
  PROVE  x = y
<1>1. x \in Int /\ y \in Int
  BY DEF Unsigned, Signed
<1>2. Sized(LE(x, w), w) /\ Sized(LE(y, w), w)
  BY <1>1, LESized
<1>3. LE(x, w) = LE(y, w)
  BY <1>2, ReadPart
<1> QED
  BY <1>3, LETells

(* Shifting keeps the order, so what is below a u64 is one.                *)
LEMMA SmallerFits ==
  ASSUME NEW n \in U64
  PROVE  Unsigned(n, 8)
<1> DEFINE S == {k \in Nat : /\ Shifted(n, k) \in Nat /\ Shifted(MaxU64, k) \in Nat
                             /\ Shifted(n, k) <= Shifted(MaxU64, k)}
<1>1. n \in Nat /\ n <= MaxU64 /\ MaxU64 \in Nat
  BY MaxU64Assumption DEF U64
<1>2. 0 \in S
  BY <1>1, ShiftedOnce
<1>3. ASSUME NEW k \in Nat, k \in S PROVE k + 1 \in S
  <2>1. /\ Shifted(n, k + 1) = Shifted(n, k) \div 256
        /\ Shifted(MaxU64, k + 1) = Shifted(MaxU64, k) \div 256
    BY ShiftedOnce
  <2>2. \A x, y \in Nat : x <= y =>
          x \div 256 \in Nat /\ y \div 256 \in Nat /\ x \div 256 <= y \div 256
    OBVIOUS
  <2> QED
    BY <1>3, <2>1, <2>2
<1> HIDE DEF S
<1>4. 7 \in S
  BY <1>2, <1>3, Induction
<1>5. Unsigned(MaxU64, 8)
  BY ArgumentAssumption, Zenon
<1>6. Shifted(MaxU64, 7) <= 255
  BY <1>5 DEF Unsigned
<1>7. Shifted(n, 7) \in 0 .. 255
  BY <1>4, <1>6 DEF S
<1> QED
  BY <1>1, <1>7 DEF Unsigned

(* The values of a set of options, told apart by their bytes.              *)
LEMMA SameKeys ==
  ASSUME NEW t \in Terms, NEW u \in Terms, SecondKey(t) = SecondKey(u)
  PROVE  t.stat_b_key = u.stat_b_key
<1>1. \A v, w \in Terms : SecondKey(v) = SecondKey(w) => v.stat_b_key \subseteq w.stat_b_key
  <2> SUFFICES ASSUME NEW v \in Terms, NEW w \in Terms, SecondKey(v) = SecondKey(w),
                      NEW k \in v.stat_b_key
               PROVE  k \in w.stat_b_key
    OBVIOUS
  <2>1. PICK l \in w.stat_b_key : LE(k, 4) = LE(l, 4)
    <3>1. LE(k, 4) \in SecondKey(w)
      BY DEF SecondKey
    <3> QED
      BY <3>1 DEF SecondKey
  <2>2. Unsigned(k, 4) /\ Unsigned(l, 4)
    BY TermTypes
  <2>3. k = l
    BY <2>1, <2>2, LETells
  <2> QED
    BY <2>3
<1> QED
  BY <1>1

LEMMA SameOps ==
  ASSUME NEW t \in Terms, NEW u \in Terms, Operation(t) = Operation(u)
  PROVE  t.op = u.op
<1>1. \A v, w \in Terms : Operation(v) = Operation(w) => v.op \subseteq w.op
  <2> SUFFICES ASSUME NEW v \in Terms, NEW w \in Terms, Operation(v) = Operation(w),
                      NEW e \in v.op
               PROVE  e \in w.op
    OBVIOUS
  <2>1. PICK f \in w.op : Variant(Expressions, e) = Variant(Expressions, f)
    <3>1. Variant(Expressions, e) \in Operation(w)
      BY DEF Operation
    <3> QED
      BY <3>1 DEF Operation
  <2>2. e \in {"Add", "Subtract"} /\ f \in {"Add", "Subtract"}
    BY TermTypes
  <2>3. <<0>> # <<1>>
    OBVIOUS
  <2>4. e = f
    BY <2>1, <2>2, <2>3, ExpressionByte
  <2> QED
    BY <2>4
<1> QED
  BY <1>1

LEMMA SameComparison ==
  ASSUME NEW t \in Terms, NEW u \in Terms,
         Variant(Comparisons, t.comparison) = Variant(Comparisons, u.comparison)
  PROVE  t.comparison = u.comparison
<1>1. /\ t.comparison \in {"GreaterThan", "LessThan", "EqualTo"}
      /\ u.comparison \in {"GreaterThan", "LessThan", "EqualTo"}
  BY TermTypes
<1>2. <<0>> # <<1>> /\ <<0>> # <<2>> /\ <<1>> # <<2>>
  OBVIOUS
<1> QED
  BY <1>1, <1>2, ComparisonByte

LEMMA SameTerms ==
  ASSUME NEW t \in Terms, NEW u \in Terms,
         t.fixture_id = u.fixture_id, t.epoch_day = u.epoch_day,
         t.stat_a_key = u.stat_a_key, t.stat_b_key = u.stat_b_key, t.op = u.op,
         t.comparison = u.comparison, t.threshold = u.threshold
  PROVE  t = u
<1> DEFINE R == [fixture_id : Int, epoch_day : Nat, stat_a_key : Nat,
                 stat_b_key : SUBSET Nat, op : SUBSET {"Add", "Subtract"},
                 comparison : {"GreaterThan", "LessThan", "EqualTo"}, threshold : Int]
<1>1. t \in R /\ u \in R
  BY TermTypes
<1>2. \A x \in R : x = [fixture_id |-> x.fixture_id, epoch_day |-> x.epoch_day,
                        stat_a_key |-> x.stat_a_key, stat_b_key |-> x.stat_b_key,
                        op |-> x.op, comparison |-> x.comparison, threshold |-> x.threshold]
  OBVIOUS
<1> QED
  BY <1>1, <1>2

(* Arguments are told by their fields.                                     *)
LEMMA ArgumentFields ==
  ASSUME NEW a \in Arguments
  PROVE  /\ a.ix = "init_market" =>
              a = [ix |-> "init_market", marketId |-> a.marketId, t |-> a.t,
                   lockTs |-> a.lockTs]
         /\ a.ix = "deposit" => a = [ix |-> "deposit", n |-> a.n, s |-> a.s]
         /\ a.ix = "lock_market" => a = [ix |-> "lock_market"]
         /\ a.ix = "resolve" => a = [ix |-> "resolve", sn |-> a.sn, ka |-> a.ka, kb |-> a.kb]
         /\ a.ix = "claim_payout" => a = [ix |-> "claim_payout"]
         /\ a.ix = "mint_to" => a = [ix |-> "mint_to", n |-> a.n]
  BY DEF Arguments

LEMMA AmountTypes ==
  ASSUME NEW a \in Arguments, a.ix \in {"deposit", "mint_to"}
  PROVE  a.n \in U64 /\ Unsigned(a.n, 8)
<1>1. a.n \in Amounts
  BY ArgumentTypes
<1>2. Amounts \subseteq U64
  BY ArgumentAssumption, Zenon
<1> QED
  BY <1>1, <1>2, SmallerFits

LEMMA OneInit ==
  ASSUME NEW a \in Arguments, a.ix = "init_market", NEW m \in Arguments, m.ix = "init_market",
         NEW d, Len(d) \in Nat, Begins(Encoding[a], d), Begins(Encoding[m], d)
  PROVE  a = m
<1> DEFINE n == IF a.t.stat_b_key = {} THEN 1 ELSE 5
           k == IF a.t.op = {} THEN 1 ELSE 2
           i == IF m.t.stat_b_key = {} THEN 1 ELSE 5
           j == IF m.t.op = {} THEN 1 ELSE 2
<1>1. /\ HoldsAt(d, 16, LE(a.t.fixture_id, 8)) /\ HoldsAt(d, 24, LE(a.t.epoch_day, 2))
      /\ HoldsAt(d, 26, LE(a.t.stat_a_key, 4)) /\ HoldsAt(d, 30, Option(SecondKey(a.t)))
      /\ HoldsAt(d, 30 + n, Option(Operation(a.t)))
      /\ HoldsAt(d, 30 + n + k, TraderPredicate(a.t)) /\ HoldsAt(d, 35 + n + k, LE(a.lockTs, 8))
  BY InitHolds, Zenon
<1>2. /\ HoldsAt(d, 16, LE(m.t.fixture_id, 8)) /\ HoldsAt(d, 24, LE(m.t.epoch_day, 2))
      /\ HoldsAt(d, 26, LE(m.t.stat_a_key, 4)) /\ HoldsAt(d, 30, Option(SecondKey(m.t)))
      /\ HoldsAt(d, 30 + i, Option(Operation(m.t)))
      /\ HoldsAt(d, 30 + i + j, TraderPredicate(m.t)) /\ HoldsAt(d, 35 + i + j, LE(m.lockTs, 8))
  BY InitHolds, Zenon
<1>3. /\ a.t \in Terms /\ m.t \in Terms /\ a.lockTs \in LockTimes /\ m.lockTs \in LockTimes
      /\ a.marketId = m.marketId
  BY ArgumentTypes
<1>4. n \in Nat /\ k \in Nat
  OBVIOUS
<1>5. a.t.fixture_id = m.t.fixture_id
  <2>1. Signed(a.t.fixture_id, 8) /\ Signed(m.t.fixture_id, 8)
    BY <1>3, TermTypes
  <2> HIDE DEF n, k, i, j
  <2> QED
    BY <1>1, <1>2, <2>1, NumberTells
<1>6. a.t.epoch_day = m.t.epoch_day
  <2>1. Unsigned(a.t.epoch_day, 2) /\ Unsigned(m.t.epoch_day, 2)
    BY <1>3, TermTypes
  <2> HIDE DEF n, k, i, j
  <2> QED
    BY <1>1, <1>2, <2>1, NumberTells
<1>7. a.t.stat_a_key = m.t.stat_a_key
  <2>1. Unsigned(a.t.stat_a_key, 4) /\ Unsigned(m.t.stat_a_key, 4)
    BY <1>3, TermTypes
  <2> HIDE DEF n, k, i, j
  <2> QED
    BY <1>1, <1>2, <2>1, NumberTells
<1>8. a.t.stat_b_key = m.t.stat_b_key
  <2>1. AtMostOne(SecondKey(a.t), 4) /\ AtMostOne(SecondKey(m.t), 4)
    BY <1>3, OptionalTerms
  <2> HIDE DEF n, k, i, j
  <2>2. SecondKey(a.t) = SecondKey(m.t)
    BY <1>1, <1>2, <2>1, OptionTells
  <2> QED
    BY <1>3, <2>2, SameKeys
<1>9. n = i
  BY <1>8
<1>10. a.t.op = m.t.op
  <2>1. AtMostOne(Operation(a.t), 1) /\ AtMostOne(Operation(m.t), 1)
    BY <1>3, OptionalTerms
  <2> HIDE DEF n, k, i, j
  <2>2. 30 + n \in Nat
    BY <1>4
  <2>3. Operation(a.t) = Operation(m.t)
    BY <1>1, <1>2, <1>9, <2>1, <2>2, OptionTells
  <2> QED
    BY <1>3, <2>3, SameOps
<1>11. k = j
  BY <1>10
<1> DEFINE o == 30 + n + k
<1>12. o \in Nat /\ o + 4 \in Nat /\ 35 + n + k \in Nat
  BY <1>4
<1>13. \A x \in {a, m} : /\ HoldsAt(d, o, LE(x.t.threshold, 4))
                         /\ HoldsAt(d, o + 4, Variant(Comparisons, x.t.comparison))
  <2> TAKE x \in {a, m}
  <2>1. HoldsAt(d, o, TraderPredicate(x.t)) /\ x.t \in Terms
    BY <1>1, <1>2, <1>3, <1>9, <1>11, Zenon
  <2>2. /\ Sized(LE(x.t.threshold, 4), 4) /\ Sized(Variant(Comparisons, x.t.comparison), 1)
        /\ TraderPredicate(x.t) = Cat(LE(x.t.threshold, 4), Variant(Comparisons, x.t.comparison))
    BY <2>1, PredicateSized
  <2> HIDE DEF o, n, k, i, j
  <2> QED
    BY <1>12, <2>1, <2>2, CatHolds
<1> HIDE DEF o
<1>14. a.t.threshold = m.t.threshold
  <2>1. Signed(a.t.threshold, 4) /\ Signed(m.t.threshold, 4)
    BY <1>3, TermTypes
  <2> HIDE DEF n, k, i, j
  <2> QED
    BY <1>12, <1>13, <2>1, NumberTells
<1>15. a.t.comparison = m.t.comparison
  <2>1. /\ Sized(Variant(Comparisons, a.t.comparison), 1)
        /\ Sized(Variant(Comparisons, m.t.comparison), 1)
    BY <1>3, PredicateSized
  <2> HIDE DEF n, k, i, j
  <2> DEFINE v == Variant(Comparisons, a.t.comparison)
             w == Variant(Comparisons, m.t.comparison)
  <2>2. HoldsAt(d, o + 4, v) /\ HoldsAt(d, o + 4, w) /\ Sized(v, 1) /\ Sized(w, 1)
    BY <1>13, <2>1, Zenon
  <2> HIDE DEF v, w
  <2>3. v = w
    BY <1>12, <2>2, ReadPart
  <2>4. Variant(Comparisons, a.t.comparison) = Variant(Comparisons, m.t.comparison)
    BY <2>3, Zenon DEF v, w
  <2> QED
    BY <1>3, <2>4, SameComparison
<1>16. a.lockTs = m.lockTs
  <2>1. \A ts \in LockTimes : Signed(ts, 8)
    BY ArgumentAssumption, Zenon
  <2>2. Signed(a.lockTs, 8) /\ Signed(m.lockTs, 8)
    BY <1>3, <2>1
  <2>3. HoldsAt(d, 35 + n + k, LE(m.lockTs, 8))
    BY <1>2, <1>9, <1>11, Zenon
  <2> HIDE DEF n, k, i, j
  <2> QED
    BY <1>1, <1>12, <2>2, <2>3, NumberTells
<1>17. a.t = m.t
  BY <1>3, <1>5, <1>6, <1>7, <1>8, <1>10, <1>14, <1>15, SameTerms
<1> QED
  BY <1>3, <1>16, <1>17, ArgumentFields, Zenon

LEMMA OneDeposit ==
  ASSUME NEW a \in Arguments, a.ix = "deposit", NEW m \in Arguments, m.ix = "deposit",
         NEW d, Len(d) \in Nat, Begins(Encoding[a], d), Begins(Encoding[m], d)
  PROVE  a = m
<1>1. /\ HoldsAt(d, 8, LE(a.n, 8)) /\ HoldsAt(d, 16, Bool(a.s = Yes))
      /\ HoldsAt(d, 8, LE(m.n, 8)) /\ HoldsAt(d, 16, Bool(m.s = Yes))
  BY DepositHolds, Zenon
<1>2. a.n = m.n
  BY <1>1, AmountTypes, NumberTells
<1>3. IsTrue(d, 16) = (a.s = Yes) /\ IsTrue(d, 16) = (m.s = Yes)
  BY <1>1, ReadBool
<1>4. a.s \in Side /\ m.s \in Side
  BY ArgumentTypes
<1>5. a.s = m.s
  BY <1>3, <1>4 DEF Side
<1> QED
  BY <1>2, <1>5, ArgumentFields, Zenon

LEMMA OneMint ==
  ASSUME NEW a \in Arguments, a.ix = "mint_to", NEW m \in Arguments, m.ix = "mint_to",
         NEW d, Len(d) \in Nat, Begins(Encoding[a], d), Begins(Encoding[m], d)
  PROVE  a = m
<1>1. HoldsAt(d, 1, LE(a.n, 8)) /\ HoldsAt(d, 1, LE(m.n, 8))
  BY MintHolds
<1>2. a.n = m.n
  BY <1>1, AmountTypes, NumberTells
<1> QED
  BY <1>2, ArgumentFields, Zenon

LEMMA KeyOfStat ==
  ASSUME NEW sn \in Snapshots, NEW ka \in ResolveKeys, NEW kb \in ResolveKeys,
         NEW d, NEW o \in Nat,
         HoldsAt(d, o, StatTerm(Term(sn, ka))), HoldsAt(d, o, StatTerm(Term(sn, kb)))
  PROVE  ka = kb
<1>1. ASSUME NEW k \in ResolveKeys, HoldsAt(d, o, StatTerm(Term(sn, k)))
      PROVE  HoldsAt(d, o, LE(k, 4))
  <2>1. Term(sn, k).key = k
    BY DEF Term
  <2>2. Sized(LE(k, 4), 4)
    BY <2>1, StatSized
  <2>3. PICK rest : Sized(rest, 110) /\ StatTerm(Term(sn, k)) = Cat(LE(k, 4), rest)
    BY <2>1, StatSized
  <2> QED
    BY <1>1, <2>2, <2>3, CatHolds
<1>2. HoldsAt(d, o, LE(ka, 4)) /\ HoldsAt(d, o, LE(kb, 4))
  BY <1>1
<1>3. Unsigned(ka, 4) /\ Unsigned(kb, 4)
  BY KeyTypes
<1> QED
  BY <1>2, <1>3, NumberTells

LEMMA OneResolve ==
  ASSUME NEW a \in Arguments, a.ix = "resolve", NEW m \in Arguments, m.ix = "resolve",
         NEW d, Len(d) \in Nat, Begins(Encoding[a], d), Begins(Encoding[m], d)
  PROVE  a = m
<1> DEFINE p == Material(a)
           q == Material(m)
           S == {StatTerm(Term(a.sn, l)) : l \in a.kb}
           T == {StatTerm(Term(m.sn, l)) : l \in m.kb}
<1>1. /\ a.sn \in Snapshots /\ a.ka \in ResolveKeys
      /\ a.kb \in {None} \cup {Some(l) : l \in ResolveKeys}
      /\ m.sn \in Snapshots /\ m.ka \in ResolveKeys
      /\ m.kb \in {None} \cup {Some(l) : l \in ResolveKeys}
  BY ArgumentTypes
<1>2. /\ {StatTerm(t) : t \in p.statB} = S /\ {StatTerm(t) : t \in q.statB} = T
      /\ AtMostOne(S, 114) /\ AtMostOne(T, 114)
  BY StatsOfMaterial, Zenon
<1>3. /\ HoldsAt(d, 16, ScoresBatchSummary(p)) /\ HoldsAt(d, 183, StatTerm(p.statA))
      /\ HoldsAt(d, 297, Option(S))
  BY <1>2, ResolveHolds, Zenon
<1>4. /\ HoldsAt(d, 16, ScoresBatchSummary(q)) /\ HoldsAt(d, 183, StatTerm(q.statA))
      /\ HoldsAt(d, 297, Option(T))
  BY <1>2, ResolveHolds, Zenon
<1>5. p.statA = Term(a.sn, a.ka) /\ q.statA = Term(m.sn, m.ka)
  BY DEF Material
<1> HIDE DEF p, q
<1>6. a.sn = m.sn
  <2>1. 16 \in Nat /\ 16 + 28 = 44 /\ 44 \in Nat
    OBVIOUS
  <2>2. HoldsAt(d, 16 + 28, SubTreeRoot[a.sn]) /\ HoldsAt(d, 16 + 28, SubTreeRoot[m.sn])
    BY <1>3, <1>4, <2>1, SummarySized, Zenon DEF p, q
  <2>3. Sized(SubTreeRoot[a.sn], 32) /\ Sized(SubTreeRoot[m.sn], 32)
    <3>1. \A sn \in Snapshots : SubTreeRoot[sn] \in [1 .. 32 -> 0 .. 255]
      BY ArgumentAssumption, Zenon
    <3> QED
      BY <1>1, <3>1, HashSized
  <2> HIDE DEF S, T
  <2>4. SubTreeRoot[a.sn] = SubTreeRoot[m.sn]
    BY <2>1, <2>2, <2>3, ReadPart
  <2> QED
    BY <1>1, <2>4, ArgumentAssumption, Zenon
<1>7. a.ka = m.ka
  <2>1. /\ HoldsAt(d, 183, StatTerm(Term(a.sn, a.ka)))
        /\ HoldsAt(d, 183, StatTerm(Term(a.sn, m.ka)))
    BY <1>3, <1>4, <1>5, <1>6
  <2> HIDE DEF S, T
  <2> QED
    BY <1>1, <2>1, KeyOfStat
<1>8. S = T
  <2> HIDE DEF S, T
  <2> QED
    BY <1>2, <1>3, <1>4, OptionTells
<1>9. \A x, y \in ResolveKeys : StatTerm(Term(a.sn, x)) = StatTerm(Term(a.sn, y)) => x = y
  <2> SUFFICES ASSUME NEW x \in ResolveKeys, NEW y \in ResolveKeys,
                      StatTerm(Term(a.sn, x)) = StatTerm(Term(a.sn, y))
               PROVE  x = y
    OBVIOUS
  <2> DEFINE z == StatTerm(Term(a.sn, x))
  <2>1. Sized(z, 114)
    BY <1>1, StatSized
  <2>2. Begins(z, z) /\ HoldsAt(z, 0, z)
    <3> HIDE DEF z
    <3>1. Begins(z, z)
      BY <2>1 DEF Begins, Sized
    <3> QED
      BY <2>1, <3>1, AtStart
  <2>3. HoldsAt(z, 0, StatTerm(Term(a.sn, x))) /\ HoldsAt(z, 0, StatTerm(Term(a.sn, y)))
    BY <2>2
  <2> HIDE DEF z, S, T
  <2> QED
    BY <1>1, <2>3, KeyOfStat
<1>10. a.kb = m.kb
  <2>1. a.kb \subseteq ResolveKeys /\ m.kb \subseteq ResolveKeys
    BY <1>1 DEF None, Some
  <2>2. ASSUME NEW l \in a.kb PROVE l \in m.kb
    <3>1. StatTerm(Term(a.sn, l)) \in T
      BY <1>8, Zenon
    <3>2. PICK x \in m.kb : StatTerm(Term(a.sn, l)) = StatTerm(Term(a.sn, x))
      BY <1>6, <3>1, Zenon
    <3> QED
      BY <1>9, <2>1, <3>2, Zenon
  <2>3. ASSUME NEW l \in m.kb PROVE l \in a.kb
    <3>1. StatTerm(Term(a.sn, l)) \in S
      BY <1>6, <1>8, Zenon
    <3>2. PICK x \in a.kb : StatTerm(Term(a.sn, l)) = StatTerm(Term(a.sn, x))
      BY <3>1, Zenon
    <3> QED
      BY <1>9, <2>1, <3>2, Zenon
  <2> HIDE DEF S, T
  <2> QED
    BY <2>2, <2>3
<1> QED
  BY <1>6, <1>7, <1>10, ArgumentFields, Zenon

(* Data that begin with the encodings of two instructions have one         *)
(* meaning: no amount, key, hash or option of one is read as another's.    *)
LEMMA UniqueReading ==
  ASSUME NEW a \in Arguments, NEW m \in Arguments, NEW d, Len(d) \in Nat,
         Begins(Encoding[a], d), Begins(Encoding[m], d)
  PROVE  a = m
<1>1. a.ix = m.ix
  BY SameIx
<1>2. CASE a.ix = "init_market"
  BY <1>1, <1>2, OneInit
<1>3. CASE a.ix = "deposit"
  BY <1>1, <1>3, OneDeposit
<1>4. CASE a.ix = "resolve"
  BY <1>1, <1>4, OneResolve
<1>5. CASE a.ix = "mint_to"
  BY <1>1, <1>5, OneMint
<1>6. CASE a.ix \in {"lock_market", "claim_payout"}
  BY <1>1, <1>6, ArgumentFields
<1> QED
  BY <1>2, <1>3, <1>4, <1>5, <1>6, ArgumentTypes

-----------------------------------------------------------------------------
(* What the clients build is what the program reads.                       *)
LEMMA OptionWritten ==
  ASSUME NEW S
  PROVE  writeOption(S) = Option(S)
<1>1. Bool(FALSE) = <<0>> /\ Bool(TRUE) = <<1>>
  BY DEF Bool
<1>2. CASE S = {}
  <2>1. writeOption(S) = Bool(FALSE) /\ Option(S) = <<0>>
    BY <1>2, OptionBytes DEF writeOption
  <2> QED
    BY <1>1, <2>1
<1>3. CASE S # {}
  <2>1. writeOption(S) = Bool(TRUE) \o (CHOOSE v \in S : TRUE)
    BY <1>3, Zenon DEF writeOption
  <2>2. Option(S) = <<1>> \o (CHOOSE v \in S : TRUE)
    BY <1>3, Zenon DEF Option, None
  <2> QED
    BY <1>1, <2>1, <2>2, Zenon
<1> QED
  BY <1>2, <1>3

LEMMA BytesJoin ==
  ASSUME NEW x \in Bytes, NEW y \in Bytes
  PROVE  Cat(x, y) \in Bytes
  BY Joined DEF Cat

LEMMA InitBytes ==
  ASSUME NEW a \in Arguments, a.ix = "init_market"
  PROVE  /\ LE(a.marketId, 8) \in Bytes /\ LE(a.t.fixture_id, 8) \in Bytes
         /\ LE(a.t.epoch_day, 2) \in Bytes /\ LE(a.t.stat_a_key, 4) \in Bytes
         /\ Option(SecondKey(a.t)) \in Bytes /\ Option(Operation(a.t)) \in Bytes
         /\ TraderPredicate(a.t) \in Bytes /\ LE(a.lockTs, 8) \in Bytes
<1>1. a.t \in Terms /\ a.lockTs \in LockTimes /\ a.marketId = MarketId
  BY ArgumentTypes
<1>2. a.marketId \in Int /\ a.lockTs \in Int
  <2>1. MarketId \in Nat
    BY FieldAssumption, Zenon DEF Unsigned
  <2>2. a.lockTs \in Nat
    BY <1>1, InputAssumption, Zenon
  <2> QED
    BY <1>1, <2>1, <2>2
<1>3. /\ a.t.fixture_id \in Int /\ a.t.epoch_day \in Int /\ a.t.stat_a_key \in Int
  BY <1>1, TermTypes
<1>4. \A n \in Int, w \in {2, 4, 8} : LE(n, w) \in Bytes
  BY LEBytes DEF Bytes
<1>5. Option(SecondKey(a.t)) \in Bytes /\ Option(Operation(a.t)) \in Bytes
  <2>1. AtMostOne(SecondKey(a.t), 4) /\ AtMostOne(Operation(a.t), 1)
    BY <1>1, OptionalTerms
  <2> QED
    BY <2>1, OptionSized DEF Sized
<1>6. TraderPredicate(a.t) \in Bytes
  BY <1>1, PredicateSized DEF Sized
<1> QED
  BY <1>2, <1>3, <1>4, <1>5, <1>6

LEMMA InitIsEncoding ==
  ASSUME NEW a \in Arguments, a.ix = "init_market", NEW b
  PROVE  buildInitMarket(a, b).data = Encoding[a]
<1> DEFINE op == IX_DISCRIMINATOR.init_market
           f1 == LE(a.marketId, 8)
           f2 == LE(a.t.fixture_id, 8)
           f3 == LE(a.t.epoch_day, 2)
           f4 == LE(a.t.stat_a_key, 4)
           f5 == Option(SecondKey(a.t))
           f6 == Option(Operation(a.t))
           f7 == TraderPredicate(a.t)
           f8 == LE(a.lockTs, 8)
           c2 == Cat(f1, f2)
           c3 == Cat(c2, f3)
           c4 == Cat(c3, f4)
           c5 == Cat(c4, f5)
           c6 == Cat(c5, f6)
           c7 == Cat(c6, f7)
           c8 == Cat(c7, f8)
<1>1. ArgumentBytes(a) = c8
  BY Zenon DEF ArgumentBytes, Cat, SecondKey, Operation
<1>2. Encoding[a] = Cat(op, c8)
  BY <1>1, Encoded, Opcodes
<1>3. buildInitMarket(a, b).data =
        Cat(Cat(Cat(Cat(Cat(Cat(Cat(Cat(op, f1), f2), f3), f4), f5), f6), f7), f8)
  <2>1. {LE(k, PariWriter.u32) : k \in a.t.stat_b_key} = SecondKey(a.t)
    BY Widths DEF SecondKey
  <2>2. writeOption({LE(k, PariWriter.u32) : k \in a.t.stat_b_key}) = f5
    BY <2>1, OptionWritten, Zenon
  <2>3. writeOption({Variant(Expressions, e) : e \in a.t.op}) = f6
    BY OptionWritten, Zenon DEF Operation
  <2>4. writeTraderPredicate(a.t) = f7
    BY Widths, Zenon DEF writeTraderPredicate, TraderPredicate
  <2> DEFINE data == IX_DISCRIMINATOR.init_market
               \o LE(a.marketId, PariWriter.u64) \o LE(a.t.fixture_id, PariWriter.i64)
               \o LE(a.t.epoch_day, PariWriter.u16) \o LE(a.t.stat_a_key, PariWriter.u32)
               \o writeOption({LE(k, PariWriter.u32) : k \in a.t.stat_b_key})
               \o writeOption({Variant(Expressions, e) : e \in a.t.op})
               \o writeTraderPredicate(a.t) \o LE(a.lockTs, PariWriter.i64)
  <2>5. buildInitMarket(a, b).data = data
    BY Zenon DEF buildInitMarket, Built
  <2>6. data = Cat(Cat(Cat(Cat(Cat(Cat(Cat(Cat(op, f1), f2), f3), f4), f5), f6), f7), f8)
    BY <2>2, <2>3, <2>4, Widths, Zenon DEF Cat
  <2> QED
    BY <2>5, <2>6, Zenon
<1>4. op \in Bytes
  BY DEF IX_DISCRIMINATOR, Bytes, Byte
<1>5. /\ f1 \in Bytes /\ f2 \in Bytes /\ f3 \in Bytes /\ f4 \in Bytes /\ f5 \in Bytes
      /\ f6 \in Bytes /\ f7 \in Bytes /\ f8 \in Bytes
  BY InitBytes
<1> HIDE DEF op, f1, f2, f3, f4, f5, f6, f7, f8
<1>6. /\ c2 \in Bytes /\ c3 \in Bytes /\ c4 \in Bytes /\ c5 \in Bytes /\ c6 \in Bytes
      /\ c7 \in Bytes
  BY <1>5, BytesJoin
<1> HIDE DEF c2, c3, c4, c5, c6, c7, c8
<1>7. Cat(Cat(op, f1), f2) = Cat(op, c2)
  BY <1>4, <1>5, Regroup3 DEF c2
<1>8. Cat(Cat(op, c2), f3) = Cat(op, c3)
  BY <1>4, <1>5, <1>6, Regroup3 DEF c3
<1>9. Cat(Cat(op, c3), f4) = Cat(op, c4)
  BY <1>4, <1>5, <1>6, Regroup3 DEF c4
<1>10. Cat(Cat(op, c4), f5) = Cat(op, c5)
  BY <1>4, <1>5, <1>6, Regroup3 DEF c5
<1>11. Cat(Cat(op, c5), f6) = Cat(op, c6)
  BY <1>4, <1>5, <1>6, Regroup3 DEF c6
<1>12. Cat(Cat(op, c6), f7) = Cat(op, c7)
  BY <1>4, <1>5, <1>6, Regroup3 DEF c7
<1>13. Cat(Cat(op, c7), f8) = Cat(op, c8)
  BY <1>4, <1>5, <1>6, Regroup3 DEF c8
<1> QED
  BY <1>2, <1>3, <1>7, <1>8, <1>9, <1>10, <1>11, <1>12, <1>13, Zenon

LEMMA DepositIsEncoding ==
  ASSUME NEW a \in Arguments, a.ix = "deposit", NEW b, NEW ata
  PROVE  buildDeposit(a, b, ata).data = Encoding[a]
<1> DEFINE op == IX_DISCRIMINATOR.deposit
           f1 == LE(a.n, 8)
           f2 == Bool(a.s = Yes)
<1>1. ArgumentBytes(a) = Cat(f1, f2)
  BY Zenon DEF ArgumentBytes, Cat
<1>2. Encoding[a] = Cat(op, Cat(f1, f2))
  BY <1>1, Encoded, Opcodes
<1>3. buildDeposit(a, b, ata).data = Cat(Cat(op, f1), f2)
  <2>1. buildDeposit(a, b, ata).data = op \o LE(a.n, PariWriter.u64) \o Bool(a.s = Yes)
    BY Zenon DEF buildDeposit, Built
  <2> QED
    BY <2>1, Widths, Zenon DEF Cat
<1>4. op \in Bytes
  BY DEF IX_DISCRIMINATOR, Bytes, Byte
<1>5. f1 \in Bytes /\ f2 \in Bytes
  <2>1. a.n \in U64 /\ U64 \subseteq Int
    BY AmountTypes, MaxU64Assumption DEF U64
  <2>2. a.n \in Int
    BY <2>1, Zenon
  <2> QED
    BY <2>2, LESized, BoolByte DEF Sized
<1> HIDE DEF op, f1, f2
<1> QED
  BY <1>2, <1>3, <1>4, <1>5, Regroup3

LEMMA ResolveIsEncoding ==
  ASSUME NEW a \in Arguments, a.ix = "resolve", NEW b
  PROVE  buildResolve(a, b).data = Encoding[a]
<1> DEFINE p == Material(a)
           op == IX_DISCRIMINATOR.resolve
           f1 == LE(p.ts, 8)
           f2 == ScoresBatchSummary(p)
           f3 == ProofNodes(p.fixtureProof)
           f4 == ProofNodes(p.mainTreeProof)
           f5 == StatTerm(p.statA)
           f6 == Option({StatTerm(t) : t \in p.statB})
           c2 == Cat(f1, f2)
           c3 == Cat(c2, f3)
           c4 == Cat(c3, f4)
           c5 == Cat(c4, f5)
           c6 == Cat(c5, f6)
<1>1. ArgumentBytes(a) = c6
  BY Zenon DEF ArgumentBytes, Cat
<1>2. Encoding[a] = Cat(op, c6)
  BY <1>1, Encoded, Opcodes
<1>3. buildResolve(a, b).data = Cat(Cat(Cat(Cat(Cat(Cat(op, f1), f2), f3), f4), f5), f6)
  <2>1. writeScoresBatchSummary(p) = f2
    BY Widths, Zenon DEF writeScoresBatchSummary, ScoresBatchSummary
  <2>2. /\ writeProof(p.fixtureProof) = f3 /\ writeProof(p.mainTreeProof) = f4
    BY MaterialProofs, Zenon
  <2>3. writeStatTerm(p.statA) = f5
    BY MaterialStats, Zenon
  <2>4. writeOption({writeStatTerm(t) : t \in p.statB}) = f6
    BY MaterialStats, OptionWritten, Zenon
  <2> DEFINE data == IX_DISCRIMINATOR.resolve
               \o LE(p.ts, PariWriter.i64) \o writeScoresBatchSummary(p)
               \o writeProof(p.fixtureProof) \o writeProof(p.mainTreeProof)
               \o writeStatTerm(p.statA) \o writeOption({writeStatTerm(t) : t \in p.statB})
  <2>5. buildResolve(a, b).data = data
    BY Zenon DEF buildResolve, Built
  <2>6. data = Cat(Cat(Cat(Cat(Cat(Cat(op, f1), f2), f3), f4), f5), f6)
    BY <2>1, <2>2, <2>3, <2>4, Widths, Zenon DEF Cat
  <2> QED
    BY <2>5, <2>6, Zenon
<1>4. op \in Bytes
  BY DEF IX_DISCRIMINATOR, Bytes, Byte
<1>5. /\ f1 \in Bytes /\ f2 \in Bytes /\ f3 \in Bytes /\ f4 \in Bytes /\ f5 \in Bytes
      /\ f6 \in Bytes
  <2>1. f1 \in Bytes
    BY SummaryParts DEF Sized
  <2>2. f2 \in Bytes
    BY SummarySized DEF Sized
  <2>3. f3 \in Bytes /\ f4 \in Bytes
    BY TreesSized DEF Sized
  <2>4. f5 \in Bytes
    BY StatsOfMaterial DEF Sized
  <2>5. f6 \in Bytes
    <3> DEFINE S == {StatTerm(t) : t \in p.statB}
    <3>1. AtMostOne(S, 114)
      BY StatsOfMaterial, Zenon
    <3> HIDE DEF S
    <3>2. Option(S) \in Bytes
      BY <3>1, OptionSized DEF Sized
    <3> QED
      BY <3>2 DEF S
  <2> HIDE DEF f1, f2, f3, f4, f5, f6
  <2> QED
    BY <2>1, <2>2, <2>3, <2>4, <2>5
<1> HIDE DEF p, op, f1, f2, f3, f4, f5, f6
<1>6. c2 \in Bytes /\ c3 \in Bytes /\ c4 \in Bytes /\ c5 \in Bytes
  BY <1>5, BytesJoin
<1> HIDE DEF c2, c3, c4, c5, c6
<1>7. Cat(Cat(op, f1), f2) = Cat(op, c2)
  BY <1>4, <1>5, Regroup3 DEF c2
<1>8. Cat(Cat(op, c2), f3) = Cat(op, c3)
  BY <1>4, <1>5, <1>6, Regroup3 DEF c3
<1>9. Cat(Cat(op, c3), f4) = Cat(op, c4)
  BY <1>4, <1>5, <1>6, Regroup3 DEF c4
<1>10. Cat(Cat(op, c4), f5) = Cat(op, c5)
  BY <1>4, <1>5, <1>6, Regroup3 DEF c5
<1>11. Cat(Cat(op, c5), f6) = Cat(op, c6)
  BY <1>4, <1>5, <1>6, Regroup3 DEF c6
<1> QED
  BY <1>2, <1>3, <1>7, <1>8, <1>9, <1>10, <1>11, Zenon

LEMMA BareIsEncoding ==
  ASSUME NEW a \in Arguments, a.ix \in {"lock_market", "claim_payout"}
  PROVE  Encoding[a] = IX_DISCRIMINATOR[a.ix]
<1>1. ArgumentBytes(a) = <<>>
  BY DEF ArgumentBytes
<1>2. Opcode(a) = IX_DISCRIMINATOR[a.ix] /\ Opcode(a) \in Seq(Byte)
  BY Opcodes DEF Sized, Bytes
<1>3. Opcode(a) \o <<>> = Opcode(a)
  BY <1>2, ConcatEmptySeq
<1> QED
  BY <1>1, <1>2, <1>3, Encoded DEF Cat

(* The instruction that every client builds for arguments it can build.    *)
TheBuilt(a, b) ==
  CASE a.ix = "init_market" -> buildInitMarket(a, b)
    [] a.ix = "deposit" -> buildDeposit(a, b, findAta(b))
    [] a.ix = "lock_market" -> buildLockMarket(b)
    [] a.ix = "resolve" -> buildResolve(a, b)
    [] a.ix = "claim_payout" -> buildClaimPayout(b, findAta(b))
    [] a.ix = "mint_to" -> mintToIx(a, b)

LEMMA BuiltIs ==
  ASSUME NEW a \in Arguments, NEW b, NEW client \in Clients, NEW i \in BuiltBy(client, a, b)
  PROVE  i = TheBuilt(a, b)
<1>1. CASE a.ix = "mint_to"
  <2>1. client = "devnet-verify" /\ i = mintToIx(a, b)
    BY <1>1 DEF BuiltBy, Clients
  <2> QED
    BY <1>1, <2>1 DEF TheBuilt
<1>2. CASE a.ix # "mint_to"
  <2>1. "pari-client" \in Clients
    BY DEF Clients
  <2>2. TheBuilt(a, b) \in BuiltBy("pari-client", a, b)
    BY <1>2, ArgumentTypes DEF BuiltBy, TheBuilt
  <2> QED
    BY <2>1, <2>2, OneInstruction
<1> QED
  BY <1>1, <1>2

LEMMA BuiltIsEncoding ==
  ASSUME NEW a \in Arguments, NEW b
  PROVE  TheBuilt(a, b).data = Encoding[a] /\ TheBuilt(a, b).programId = Recipient(a)
<1>1. CASE a.ix = "init_market"
  <2>1. TheBuilt(a, b) = buildInitMarket(a, b)
    BY <1>1 DEF TheBuilt
  <2>2. buildInitMarket(a, b).programId = PARI_MARKET_PROGRAM_ID
    BY Zenon DEF buildInitMarket, Built
  <2> QED
    BY <1>1, <2>1, <2>2, InitIsEncoding DEF Recipient
<1>2. CASE a.ix = "deposit"
  <2>1. TheBuilt(a, b) = buildDeposit(a, b, findAta(b))
    BY <1>2 DEF TheBuilt
  <2>2. buildDeposit(a, b, findAta(b)).programId = PARI_MARKET_PROGRAM_ID
    BY Zenon DEF buildDeposit, Built
  <2> QED
    BY <1>2, <2>1, <2>2, DepositIsEncoding DEF Recipient
<1>3. CASE a.ix = "lock_market"
  <2>1. TheBuilt(a, b) = buildLockMarket(b)
    BY <1>3 DEF TheBuilt
  <2>2. /\ buildLockMarket(b).programId = PARI_MARKET_PROGRAM_ID
        /\ buildLockMarket(b).data = IX_DISCRIMINATOR.lock_market
    BY Zenon DEF buildLockMarket, Built
  <2> QED
    BY <1>3, <2>1, <2>2, BareIsEncoding DEF Recipient
<1>4. CASE a.ix = "resolve"
  <2>1. TheBuilt(a, b) = buildResolve(a, b)
    BY <1>4 DEF TheBuilt
  <2>2. buildResolve(a, b).programId = PARI_MARKET_PROGRAM_ID
    BY Zenon DEF buildResolve, Built
  <2> QED
    BY <1>4, <2>1, <2>2, ResolveIsEncoding DEF Recipient
<1>5. CASE a.ix = "claim_payout"
  <2>1. TheBuilt(a, b) = buildClaimPayout(b, findAta(b))
    BY <1>5 DEF TheBuilt
  <2>2. /\ buildClaimPayout(b, findAta(b)).programId = PARI_MARKET_PROGRAM_ID
        /\ buildClaimPayout(b, findAta(b)).data = IX_DISCRIMINATOR.claim_payout
    BY Zenon DEF buildClaimPayout, Built
  <2> QED
    BY <1>5, <2>1, <2>2, BareIsEncoding DEF Recipient
<1>6. CASE a.ix = "mint_to"
  <2>1. TheBuilt(a, b) = mintToIx(a, b)
    BY <1>6 DEF TheBuilt
  <2>2. /\ mintToIx(a, b).programId = SPL_TOKEN_PROGRAM_ID
        /\ mintToIx(a, b).data = Cat(<<7>>, LE(a.n, 8))
    BY Zenon DEF mintToIx, Built, Cat
  <2>3. Encoding[a] = Cat(<<7>>, LE(a.n, 8))
    BY <1>6, Encoded, Opcodes DEF ArgumentBytes
  <2> QED
    BY <1>6, <2>1, <2>2, <2>3 DEF Recipient
<1> QED
  BY <1>1, <1>2, <1>3, <1>4, <1>5, <1>6, ArgumentTypes

-----------------------------------------------------------------------------
(* Reading.                                                                *)
LEMMA PrefixBegins ==
  ASSUME NEW x \in Bytes, NEW y \in Bytes
  PROVE  /\ IsPrefix(x, y) => Begins(x, y)
         /\ IsPrefix(x, x) /\ Begins(x, x)
         /\ Len(x) \in Nat
<1>1. Len(x) \in Nat /\ Len(y) \in Nat
  BY LenProperties DEF Bytes
<1>2. \A i \in 1 .. Len(x) : x[i] \in Byte
  BY ElementOfSeq DEF Bytes
<1>3. \A i \in 1 .. Len(y) : y[i] \in Byte
  BY ElementOfSeq DEF Bytes
<1>4. ASSUME IsPrefix(x, y) PROVE Begins(x, y)
  <2> DEFINE u == SubSeq(x, 1, Len(x))
             v == SubSeq(y, 1, Len(x))
  <2>1. Len(x) <= Len(y) /\ u = v
    BY <1>4 DEF IsPrefix
  <2>2. \A i \in 1 .. Len(x) : u[i] = x[1 + i - 1]
    BY <1>1, <1>2, SubSeqProperties
  <2>3. \A i \in 1 .. Len(x) : v[i] = y[1 + i - 1]
    <3>1. \A i \in 1 .. Len(x) : y[i] \in Byte
      BY <1>1, <1>3, <2>1
    <3> QED
      BY <1>1, <3>1, SubSeqProperties
  <2> HIDE DEF u, v
  <2>4. \A i \in 1 .. Len(x) : y[i] = x[i]
    BY <1>1, <2>1, <2>2, <2>3
  <2> QED
    BY <2>1, <2>4 DEF Begins
<1>5. IsPrefix(x, x) /\ Begins(x, x)
  BY <1>1 DEF IsPrefix, Begins
<1> QED
  BY <1>1, <1>4, <1>5

(* A transaction under way: the built instruction, and its one reading.    *)
LEMMA BuiltOf ==
  ASSUME WireInv, NEW w \in wire
  PROVE  /\ w.meant \in Arguments /\ w.by \in Bettor
         /\ w.built = TheBuilt(w.meant, w.by)
         /\ w.built.data = Encoding[w.meant] /\ w.built.data \in Bytes
         /\ w.built.programId = Recipient(w.meant)
<1>1. w.meant \in Arguments /\ w.by \in Bettor
  BY DEF WireInv, Sent
<1>2. PICK client \in Clients : w.built \in BuiltBy(client, w.meant, w.by)
  BY DEF WireInv, Sent
<1>3. w.built = TheBuilt(w.meant, w.by)
  BY <1>1, <1>2, BuiltIs
<1> QED
  BY <1>1, <1>3, BuiltIsEncoding, ArgumentsAreBytes

LEMMA ReadAsMeant ==
  ASSUME WireInv, NEW w \in wire
  PROVE  Reading(w.built) = {w.meant}
<1> DEFINE d == w.built.data
<1>1. /\ w.meant \in Arguments /\ d = Encoding[w.meant] /\ d \in Bytes
      /\ w.built.programId = Recipient(w.meant)
  BY BuiltOf
<1> HIDE DEF d
<1>2. w.meant \in Reading(w.built)
  <2>1. IsPrefix(Encoding[w.meant], d)
    BY <1>1, PrefixBegins
  <2> QED
    BY <1>1, <2>1 DEF Reading, d
<1>3. ASSUME NEW a \in Reading(w.built) PROVE a = w.meant
  <2>1. a \in Arguments /\ IsPrefix(Encoding[a], d)
    BY DEF Reading, d
  <2>2. Encoding[a] \in Bytes
    BY <2>1, ArgumentsAreBytes
  <2>3. Begins(Encoding[a], d) /\ Begins(Encoding[w.meant], d) /\ Len(d) \in Nat
    BY <1>1, <2>1, <2>2, PrefixBegins
  <2> QED
    BY <1>1, <2>1, <2>3, UniqueReading
<1> QED
  BY <1>2, <1>3

(* Whatever is built, the program executes what its client was asked for,  *)
(* whoever built it and whatever the amounts, keys, terms and hashes are.  *)
THEOREM NothingElseExecuted == WireSpec => ExecutedAsMeant
<1>1. WireInv /\ [WireNext]_wireVars =>
        [\A w \in wire \ wire' : UNCHANGED vars \/ Effect(w.meant, w.by)]_wireVars
  <2> SUFFICES ASSUME WireInv, [WireNext]_wireVars, NEW w \in wire \ wire'
               PROVE  UNCHANGED vars \/ Effect(w.meant, w.by)
    OBVIOUS
  <2>1. CASE Execute
    <3>1. PICK v \in wire : Executed(v)
      BY <2>1 DEF Execute
    <3>2. v = w
      BY <3>1 DEF WireInv
    <3>3. PICK a \in Reading(w.built) : Effect(a, w.by)
      BY <3>1, <3>2 DEF Executed, Understood
    <3>4. a = w.meant
      BY <3>3, ReadAsMeant
    <3> QED
      BY <3>3, <3>4
  <2>2. CASE Submit
    BY <2>2 DEF Submit
  <2>3. CASE Drop
    BY <2>3 DEF Drop
  <2>4. CASE World
    BY <2>4 DEF World
  <2>5. CASE UNCHANGED wireVars
    BY <2>5 DEF wireVars
  <2> QED
    BY <2>1, <2>2, <2>3, <2>4, <2>5 DEF WireNext
<1> QED
  BY <1>1, WireInductive, PTL DEF WireSpec, ExecutedAsMeant

(* The eight bytes of one instruction are not another's.                   *)
LEMMA Discriminators ==
  /\ DOMAIN IX_DISCRIMINATORS
       = {"init_market", "deposit", "lock_market", "resolve", "claim_payout"}
  /\ \A name \in DOMAIN IX_DISCRIMINATORS :
       /\ IX_DISCRIMINATORS[name] = IX_DISCRIMINATOR[name]
       /\ IX_DISCRIMINATORS[name][1] = FirstByte[name]
<1>1. DOMAIN IX_DISCRIMINATORS
        = {"init_market", "deposit", "lock_market", "resolve", "claim_payout"}
  BY DEF IX_DISCRIMINATORS
<1>2. IX_DISCRIMINATORS = IX_DISCRIMINATOR
  BY DEF IX_DISCRIMINATORS, IX_DISCRIMINATOR
<1>3. /\ IX_DISCRIMINATOR["init_market"][1] = 33 /\ IX_DISCRIMINATOR["deposit"][1] = 242
      /\ IX_DISCRIMINATOR["lock_market"][1] = 107 /\ IX_DISCRIMINATOR["resolve"][1] = 246
      /\ IX_DISCRIMINATOR["claim_payout"][1] = 127
  BY DEF IX_DISCRIMINATOR
<1>4. /\ FirstByte["init_market"] = 33 /\ FirstByte["deposit"] = 242
      /\ FirstByte["lock_market"] = 107 /\ FirstByte["resolve"] = 246
      /\ FirstByte["claim_payout"] = 127
  BY DEF FirstByte
<1> QED
  BY <1>1, <1>2, <1>3, <1>4

(* The timeline names what the program executes, and shows the amount and  *)
(* the side of a deposit, for all of them (matchDiscriminator).            *)
THEOREM TimelineIsTrue == WireSpec => []TimelineShowsIt
<1>1. WireInv => TimelineShowsIt
  <2> SUFFICES ASSUME WireInv, NEW w \in wire
               PROVE  /\ matchDiscriminator(w.built.data) = {w.meant.ix} \ {"mint_to"}
                      /\ w.meant.ix = "deposit" =>
                           decodeDepositArgs(w.built.data)
                             = [amount |-> LE(w.meant.n, 8), side |-> w.meant.s = Yes]
    BY DEF TimelineShowsIt
  <2> DEFINE d == w.built.data
             m == w.meant
  <2>1. m \in Arguments /\ d = Encoding[m] /\ d \in Bytes
    BY BuiltOf
  <2> HIDE DEF d, m
  <2>2. Begins(Encoding[m], d) /\ Len(d) \in Nat
    BY <2>1, PrefixBegins
  <2>3. HoldsAt(d, 0, Opcode(m)) /\ d[1] = FirstByte[m.ix]
    BY <2>1, <2>2, OpcodeFirst, FirstBytes
  <2>4. m.ix # "mint_to" =>
          /\ Len(d) >= 8 /\ At(d, 0, 8) = IX_DISCRIMINATORS[m.ix]
          /\ m.ix \in DOMAIN IX_DISCRIMINATORS
    <3> SUFFICES ASSUME m.ix # "mint_to"
                 PROVE  /\ Len(d) >= 8 /\ At(d, 0, 8) = IX_DISCRIMINATORS[m.ix]
                        /\ m.ix \in DOMAIN IX_DISCRIMINATORS
      OBVIOUS
    <3>1. Sized(Opcode(m), 8) /\ Opcode(m) = IX_DISCRIMINATOR[m.ix]
      BY <2>1, Opcodes
    <3>2. At(d, 0, 8) = Opcode(m)
      BY <2>3, <3>1, ReadPart
    <3>3. m.ix \in DOMAIN IX_DISCRIMINATORS
      BY <2>1, ArgumentTypes, Discriminators
    <3>4. Len(d) >= 8
      <4>1. d = Cat(Opcode(m), ArgumentBytes(m)) /\ ArgumentBytes(m) \in Bytes
        BY <2>1, Encoded, ArgumentsAreBytes
      <4> DEFINE n == Len(ArgumentBytes(m))
      <4>2. n \in Nat /\ Sized(ArgumentBytes(m), n)
        BY <4>1, PrefixBegins DEF Sized
      <4> HIDE DEF n
      <4>3. Sized(d, 8 + n)
        BY <3>1, <4>1, <4>2, CatBytes
      <4> QED
        BY <4>2, <4>3 DEF Sized
    <3> QED
      BY <3>1, <3>2, <3>3, <3>4, Discriminators
  <2>5. ASSUME NEW name \in matchDiscriminator(d) PROVE name = m.ix
    <3>1. /\ name \in DOMAIN IX_DISCRIMINATORS /\ Len(d) >= 8
          /\ At(d, 0, 8) = IX_DISCRIMINATORS[name]
      BY DEF matchDiscriminator
    <3>2. At(d, 0, 8)[1] = d[1]
      <4>1. \A i \in 1 .. 8 : d[i] \in Byte
        BY <2>1, <2>2, <3>1, ElementOfSeq DEF Bytes
      <4>2. \A i \in 1 .. 8 : SubSeq(d, 1, 8)[i] = d[1 + i - 1]
        BY <4>1, SubSeqProperties
      <4>3. SubSeq(d, 1, 8)[1] = d[1]
        BY <4>2
      <4> QED
        BY <4>3 DEF At
    <3>3. FirstByte[name] = FirstByte[m.ix]
      BY <2>3, <3>1, <3>2, Discriminators
    <3>4. \A x, y \in {"init_market", "deposit", "lock_market", "resolve", "claim_payout",
                       "mint_to"} : FirstByte[x] = FirstByte[y] => x = y
      BY DEF FirstByte
    <3> QED
      BY <2>1, <3>1, <3>3, <3>4, ArgumentTypes, Discriminators
  <2>6. matchDiscriminator(d) = {m.ix} \ {"mint_to"}
    <3>1. CASE m.ix = "mint_to"
      <4>1. \A name \in matchDiscriminator(d) : name \in DOMAIN IX_DISCRIMINATORS
        BY DEF matchDiscriminator
      <4>2. "mint_to" \notin DOMAIN IX_DISCRIMINATORS
        BY Discriminators
      <4> QED
        BY <2>5, <3>1, <4>1, <4>2
    <3>2. CASE m.ix # "mint_to"
      <4>1. m.ix \in matchDiscriminator(d)
        BY <2>4, <3>2 DEF matchDiscriminator
      <4> QED
        BY <2>5, <3>2, <4>1
    <3> QED
      BY <3>1, <3>2
  <2>7. ASSUME m.ix = "deposit"
        PROVE  decodeDepositArgs(d) = [amount |-> LE(m.n, 8), side |-> m.s = Yes]
    <3>1. HoldsAt(d, 8, LE(m.n, 8)) /\ HoldsAt(d, 16, Bool(m.s = Yes))
      BY <2>1, <2>2, <2>7, DepositHolds, Zenon
    <3>2. Sized(LE(m.n, 8), 8)
      <4>1. m.n \in U64 /\ U64 \subseteq Int
        BY <2>1, <2>7, AmountTypes, MaxU64Assumption DEF U64
      <4>2. m.n \in Int
        BY <4>1, Zenon
      <4> QED
        BY <4>2, LESized
    <3>3. At(d, 8, 8) = LE(m.n, 8)
      BY <3>1, <3>2, ReadPart
    <3>4. IsTrue(d, 16) = (m.s = Yes)
      BY <3>1, ReadBool
    <3> QED
      BY <3>3, <3>4, Zenon DEF decodeDepositArgs
  <2> QED
    BY <2>6, <2>7 DEF d, m
<1> QED
  BY <1>1, WireInductive, PTL

-----------------------------------------------------------------------------
(* The CPI.                                                                *)
LEMMA StatWritten ==
  ASSUME NEW a \in Arguments, a.ix = "resolve"
  PROVE  LET S == Material(a).statB
         IN  (IF S # {} THEN Bool(TRUE) \o m0StatTerm(CHOOSE b \in S : TRUE) ELSE Bool(FALSE))
               = Option({StatTerm(b) : b \in S})
<1> DEFINE S == Material(a).statB
<1>1. S = {Term(a.sn, k) : k \in a.kb}
  BY DEF Material
<1>2. a.kb \in {None} \cup {Some(k) : k \in ResolveKeys}
  BY ArgumentTypes
<1>3. /\ AtMostOne({StatTerm(b) : b \in S}, 114)
      /\ \A b \in S : m0StatTerm(b) = StatTerm(b)
  BY StatsOfMaterial, MaterialStats, Zenon
<1>4. Bool(FALSE) = <<0>> /\ Bool(TRUE) = <<1>>
  BY DEF Bool
<1> HIDE DEF S
<1>5. CASE a.kb = {}
  <2>1. S = {} /\ {StatTerm(b) : b \in S} = {}
    BY <1>1, <1>5
  <2> QED
    BY <1>4, <2>1, OptionBytes DEF S
<1>6. CASE a.kb # {}
  <2>1. PICK k \in ResolveKeys : a.kb = {k}
    BY <1>2, <1>6 DEF None, Some
  <2> DEFINE t == Term(a.sn, k)
  <2> HIDE DEF t
  <2>2. S = {t}
    BY <1>1, <2>1 DEF t
  <2>3. (CHOOSE b \in S : TRUE) = t /\ {StatTerm(b) : b \in S} = {StatTerm(t)}
    BY <2>2
  <2>4. m0StatTerm(t) = StatTerm(t) /\ StatTerm(t) \in Bytes
    BY <1>3, <2>2, <2>3 DEF AtMostOne, Sized
  <2>5. Option({StatTerm(t)}) = <<1>> \o StatTerm(t)
    BY <2>4, OptionBytes
  <2> QED
    BY <1>4, <2>2, <2>3, <2>4, <2>5, Zenon DEF S
<1> QED
  BY <1>5, <1>6

LEMMA OperationWritten ==
  ASSUME NEW t \in Terms
  PROVE  (IF t.op # {} THEN Bool(TRUE) \o Variant(Expressions, CHOOSE e \in t.op : TRUE)
          ELSE Bool(FALSE))
           = Option(Operation(t))
<1>1. Bool(FALSE) = <<0>> /\ Bool(TRUE) = <<1>>
  BY DEF Bool
<1>2. CASE t.op = {}
  <2>1. Operation(t) = {}
    BY <1>2 DEF Operation
  <2> QED
    BY <1>1, <1>2, <2>1, OptionBytes
<1>3. CASE t.op # {}
  <2>1. PICK e \in t.op : TRUE
    BY <1>3
  <2>2. t.op = {e}
    BY TermTypes
  <2>3. (CHOOSE f \in t.op : TRUE) = e /\ Operation(t) = {Variant(Expressions, e)}
    BY <2>2 DEF Operation
  <2>4. Variant(Expressions, e) \in Bytes
    <3>1. AtMostOne(Operation(t), 1)
      BY OptionalTerms
    <3> QED
      BY <2>3, <3>1 DEF AtMostOne, Sized
  <2>5. Option({Variant(Expressions, e)}) = <<1>> \o Variant(Expressions, e)
    BY <2>4, OptionBytes
  <2> QED
    BY <1>1, <1>3, <2>3, <2>5, Zenon
<1> QED
  BY <1>2, <1>3

LEMMA SameCpi ==
  ASSUME NEW a \in Arguments, a.ix = "resolve", NEW t \in Terms
  PROVE  encode_validate_stat_args(Material(a), t, Material(a).statB)
           = encodeValidateStatArgs(Material(a), t, Material(a).statB)
<1> DEFINE p == Material(a)
           ts == LE(p.ts, 8)
           threshold == LE(t.threshold, 4)
           comparison == Variant(Comparisons, t.comparison)
           proof == ProofNodes(p.fixtureProof)
           tree == ProofNodes(p.mainTreeProof)
           statA == StatTerm(p.statA)
           statB == Option({StatTerm(b) : b \in p.statB})
           op == Option(Operation(t))
           head == ts \o ScoresBatchSummary(p)
           x == Cat(Cat(head, proof), tree)
           last(y) == Cat(Cat(Cat(y, statA), statB), op)
<1>1. encode_validate_stat_args(p, t, p.statB) = last(Cat(x, TraderPredicate(t)))
  BY Zenon DEF encode_validate_stat_args, Cat, Operation
<1>2. head = ts \o LE(p.fixtureId, 8) \o LE(p.updateCount, 4) \o LE(p.minTimestamp, 8)
               \o LE(p.maxTimestamp, 8) \o p.eventsSubTreeRoot
  <2>1. writeScoresBatchSummary(p) = ScoresBatchSummary(p)
    BY Widths, Zenon DEF writeScoresBatchSummary, ScoresBatchSummary
  <2>2. ts \in Bytes
    BY SummaryParts DEF Sized
  <2>3. \A y \in Bytes :
          y \o writeScoresBatchSummary(p)
            = y \o LE(p.fixtureId, 8) \o LE(p.updateCount, 4) \o LE(p.minTimestamp, 8)
                \o LE(p.maxTimestamp, 8) \o p.eventsSubTreeRoot
    BY SummaryAfter, Zenon
  <2> QED
    BY <2>1, <2>2, <2>3, Zenon
<1>3. encodeValidateStatArgs(p, t, p.statB) = last(Cat(Cat(x, threshold), comparison))
  <2> DEFINE given == LE(p.ts, ValidateStatWriter.i64)
             \o LE(p.fixtureId, ValidateStatWriter.i64)
             \o LE(p.updateCount, ValidateStatWriter.i32)
             \o LE(p.minTimestamp, ValidateStatWriter.i64)
             \o LE(p.maxTimestamp, ValidateStatWriter.i64)
             \o p.eventsSubTreeRoot
             stat == IF p.statB # {} THEN Bool(TRUE) \o m0StatTerm(CHOOSE b \in p.statB : TRUE)
                     ELSE Bool(FALSE)
             expr == IF t.op # {}
                     THEN Bool(TRUE) \o Variant(Expressions, CHOOSE e \in t.op : TRUE)
                     ELSE Bool(FALSE)
  <2>1. given = head
    BY <1>2, Widths, Zenon
  <2>2. stat = statB
    BY StatWritten, Zenon
  <2>3. expr = op
    BY OperationWritten, Zenon
  <2>4. encodeValidateStatArgs(p, t, p.statB) =
          given \o m0Proof(p.fixtureProof) \o m0Proof(p.mainTreeProof)
            \o LE(t.threshold, ValidateStatWriter.i32) \o comparison
            \o m0StatTerm(p.statA) \o stat \o expr
    BY Zenon DEF encodeValidateStatArgs
  <2>5. /\ m0Proof(p.fixtureProof) = proof /\ m0Proof(p.mainTreeProof) = tree
        /\ m0StatTerm(p.statA) = statA
    BY MaterialProofs, MaterialStats, Zenon
  <2> HIDE DEF given, stat, expr, head, proof, tree, statA, statB, op, comparison
  <2> QED
    BY <2>1, <2>2, <2>3, <2>4, <2>5, Widths, Zenon DEF Cat
<1>4. Cat(x, TraderPredicate(t)) = Cat(Cat(x, threshold), comparison)
  <2>1. /\ threshold \in Bytes /\ comparison \in Bytes
        /\ TraderPredicate(t) = Cat(threshold, comparison)
    BY PredicateSized DEF Sized
  <2>2. x \in Bytes
    <3>1. ts \in Bytes /\ ScoresBatchSummary(p) \in Bytes
      BY SummaryParts, SummarySized DEF Sized
    <3>2. head \in Bytes
      BY <3>1, Joined
    <3>3. proof \in Bytes /\ tree \in Bytes
      BY TreesSized DEF Sized
    <3> HIDE DEF head, proof, tree
    <3> QED
      BY <3>2, <3>3, BytesJoin
  <2> HIDE DEF x, threshold, comparison
  <2> QED
    BY <2>1, <2>2, Regroup3
<1> HIDE DEF x, threshold, comparison, last
<1> QED
  BY <1>1, <1>3, <1>4 DEF p

(* The arguments of the CPI are the reference encoder's, for any market,   *)
(* snapshot and keys (encode_validate_stat_args).                          *)
THEOREM CpiAsReference == WireSpec => []CpiIsReference
<1>1. WireInv => CpiIsReference
  <2> SUFFICES ASSUME WireInv, NEW w \in wire, NEW a \in Reading(w.built), created,
                      a.ix = "resolve"
               PROVE  encode_validate_stat_args(Material(a), terms, Material(a).statB)
                        = encodeValidateStatArgs(Material(w.meant), terms,
                                                 Material(w.meant).statB)
    BY DEF CpiIsReference
  <2>1. a = w.meant /\ a \in Arguments
    BY ReadAsMeant, BuiltOf
  <2>2. terms \in Terms
    BY DEF WireInv, Stored
  <2>3. encode_validate_stat_args(Material(a), terms, Material(a).statB)
          = encodeValidateStatArgs(Material(a), terms, Material(a).statB)
    BY <2>1, <2>2, SameCpi
  <2> QED
    BY <2>1, <2>3
<1> QED
  BY <1>1, WireInductive, PTL

-----------------------------------------------------------------------------
(* The accounts.                                                           *)
LEMMA SameAddresses ==
  /\ \A id : marketPda(id) = MarketOfId(id)
  /\ \A market : vaultPda(market) = Vault(market)
  /\ \A market, b : positionPda(market, b) = Position(market, b)
  /\ \A day : dailyScoresRootsPda(day) = Roots(day)
  /\ TheMarket = MarketOfId(MarketId)
  BY Widths, Zenon DEF marketPda, MarketOfId, vaultPda, Vault, positionPda, Position,
     dailyScoresRootsPda, Roots, TheMarket

LEMMA SameAccounts ==
  ASSUME NEW a \in Arguments, NEW b, a.ix = "resolve" => a.sn.epoch_day = terms.epoch_day
  PROVE  TheBuilt(a, b).keys = Accounts(a, b)
<1>1. CASE a.ix = "init_market"
  <2>1. TheBuilt(a, b) = buildInitMarket(a, b)
    BY <1>1 DEF TheBuilt
  <2>2. Accounts(a, b) =
          << RW(MarketOfId(a.marketId)), RO(USDC_MINT), RW(Vault(MarketOfId(a.marketId))),
             SignRW(b), RO(SPL_TOKEN_PROGRAM_ID), RO(SYSTEM_PROGRAM_ID), RO(RENT_SYSVAR_ID) >>
    BY <1>1, Zenon DEF Accounts
  <2>3. buildInitMarket(a, b).keys =
          << RW(marketPda(a.marketId)), RO(USDC_MINT), RW(vaultPda(marketPda(a.marketId))),
             SignRW(b), RO(SPL_TOKEN_PROGRAM_ID), RO(SYSTEM_PROGRAM_ID), RO(RENT_SYSVAR_ID) >>
    BY Zenon DEF buildInitMarket, Built
  <2> QED
    BY <2>1, <2>2, <2>3, SameAddresses, Zenon
<1>2. CASE a.ix = "deposit"
  <2>1. TheBuilt(a, b).keys = DepositKeys(b, findAta(b))
    BY <1>2 DEF TheBuilt, buildDeposit, Built
  <2>2. Accounts(a, b) =
          << RW(MarketOfId(MarketId)), RW(Position(MarketOfId(MarketId), b)),
             RW(Vault(MarketOfId(MarketId))), RW(findAta(b)), SignRW(b),
             RO(SPL_TOKEN_PROGRAM_ID), RO(SYSTEM_PROGRAM_ID) >>
    BY <1>2, Zenon DEF Accounts
  <2> QED
    BY <2>1, <2>2, SameAddresses, Zenon DEF DepositKeys
<1>3. CASE a.ix = "lock_market"
  <2>1. TheBuilt(a, b).keys = << RW(TheMarket), SignRO(b) >>
    BY <1>3 DEF TheBuilt, buildLockMarket, Built
  <2>2. Accounts(a, b) = << RW(MarketOfId(MarketId)), SignRO(b) >>
    BY <1>3, Zenon DEF Accounts
  <2> QED
    BY <2>1, <2>2, SameAddresses, Zenon
<1>4. CASE a.ix = "resolve"
  <2>1. TheBuilt(a, b) = buildResolve(a, b)
    BY <1>4 DEF TheBuilt
  <2>2. buildResolve(a, b).keys =
          << RW(TheMarket), RO(dailyScoresRootsPda(a.sn.epoch_day)),
             RO(TXORACLE_PROGRAM_ID), SignRO(b) >>
    BY Zenon DEF buildResolve, Built
  <2>3. Accounts(a, b) =
          << RW(MarketOfId(MarketId)), RO(Roots(terms.epoch_day)), RO(TXORACLE_PROGRAM_ID),
             SignRO(b) >>
    BY <1>4, Zenon DEF Accounts
  <2> QED
    BY <1>4, <2>1, <2>2, <2>3, SameAddresses, Zenon
<1>5. CASE a.ix = "claim_payout"
  <2>1. TheBuilt(a, b).keys =
          << RO(TheMarket), RW(positionPda(TheMarket, b)), RW(vaultPda(TheMarket)),
             RW(findAta(b)), SignRW(b), RO(SPL_TOKEN_PROGRAM_ID) >>
    BY <1>5 DEF TheBuilt, buildClaimPayout, Built
  <2>2. Accounts(a, b) =
          << RO(MarketOfId(MarketId)), RW(Position(MarketOfId(MarketId), b)),
             RW(Vault(MarketOfId(MarketId))), RW(findAta(b)), SignRW(b),
             RO(SPL_TOKEN_PROGRAM_ID) >>
    BY <1>5, Zenon DEF Accounts
  <2> QED
    BY <2>1, <2>2, SameAddresses, Zenon
<1>6. CASE a.ix = "mint_to"
  <2>1. TheBuilt(a, b).keys = << RW(USDC_MINT), RW(findAta(b)), SignRO(b) >>
    BY <1>6 DEF TheBuilt, mintToIx, Built
  <2> QED
    BY <1>6, <2>1, Zenon DEF Accounts
<1> QED
  BY <1>1, <1>2, <1>3, <1>4, <1>5, <1>6, ArgumentTypes

(* Only the caller is asked to sign.                                       *)
LEMMA OnlyCallerSigns ==
  ASSUME NEW a \in Arguments, NEW b
  PROVE  \A i \in DOMAIN Accounts(a, b) :
           Accounts(a, b)[i].isSigner => Accounts(a, b)[i].pubkey = b
<1> DEFINE OfCaller(k) == (k.isSigner => k.pubkey = b)
<1>1. \A key : OfCaller(RO(key)) /\ OfCaller(RW(key))
  BY DEF RO, RW, Meta
<1>2. OfCaller(SignRO(b)) /\ OfCaller(SignRW(b))
  BY DEF SignRO, SignRW, Meta
<1> HIDE DEF OfCaller
<1>3. \A k1, k2 : OfCaller(k1) /\ OfCaller(k2) =>
        \A i \in DOMAIN <<k1, k2>> : OfCaller(<<k1, k2>>[i])
  OBVIOUS
<1>4. \A k1, k2, k3 : OfCaller(k1) /\ OfCaller(k2) /\ OfCaller(k3) =>
        \A i \in DOMAIN <<k1, k2, k3>> : OfCaller(<<k1, k2, k3>>[i])
  OBVIOUS
<1>5. \A k1, k2, k3, k4 : OfCaller(k1) /\ OfCaller(k2) /\ OfCaller(k3) /\ OfCaller(k4) =>
        \A i \in DOMAIN <<k1, k2, k3, k4>> : OfCaller(<<k1, k2, k3, k4>>[i])
  OBVIOUS
<1>6. \A k1, k2, k3, k4, k5, k6 :
        /\ OfCaller(k1) /\ OfCaller(k2) /\ OfCaller(k3)
        /\ OfCaller(k4) /\ OfCaller(k5) /\ OfCaller(k6)
        => \A i \in DOMAIN <<k1, k2, k3, k4, k5, k6>> :
             OfCaller(<<k1, k2, k3, k4, k5, k6>>[i])
  OBVIOUS
<1>7. \A k1, k2, k3, k4, k5, k6, k7 :
        /\ OfCaller(k1) /\ OfCaller(k2) /\ OfCaller(k3)
        /\ OfCaller(k4) /\ OfCaller(k5) /\ OfCaller(k6) /\ OfCaller(k7)
        => \A i \in DOMAIN <<k1, k2, k3, k4, k5, k6, k7>> :
             OfCaller(<<k1, k2, k3, k4, k5, k6, k7>>[i])
  OBVIOUS
<1>8. \A i \in DOMAIN Accounts(a, b) : OfCaller(Accounts(a, b)[i])
  <2>1. CASE a.ix = "init_market"
    BY <1>1, <1>2, <1>7, <2>1, Zenon DEF Accounts
  <2>2. CASE a.ix = "deposit"
    BY <1>1, <1>2, <1>7, <2>2, Zenon DEF Accounts
  <2>3. CASE a.ix = "lock_market"
    BY <1>1, <1>2, <1>3, <2>3, Zenon DEF Accounts
  <2>4. CASE a.ix = "resolve"
    BY <1>1, <1>2, <1>5, <2>4, Zenon DEF Accounts
  <2>5. CASE a.ix = "claim_payout"
    BY <1>1, <1>2, <1>6, <2>5, Zenon DEF Accounts
  <2>6. CASE a.ix = "mint_to"
    BY <1>1, <1>2, <1>4, <2>6, Zenon DEF Accounts
  <2> QED
    BY <2>1, <2>2, <2>3, <2>4, <2>5, <2>6, ArgumentTypes
<1> QED
  BY <1>8 DEF OfCaller

(* What the state allows of a client's request, the program understands of *)
(* what the client has built.                                              *)
LEMMA MeantIsUnderstood ==
  ASSUME WireInv, NEW w \in wire, EffectAdmits(w.meant, w.by)
  PROVE  w.meant \in Understood(w)
<1> DEFINE m == w.meant
           accounts == Accounts(m, w.by)
<1>1. m \in Arguments /\ w.built = TheBuilt(m, w.by) /\ m \in Reading(w.built)
  BY BuiltOf, ReadAsMeant
<1>2. m.ix = "resolve" => m.sn.epoch_day = terms.epoch_day
  BY DEF EffectAdmits, ResolveAdmits, Provable
<1>3. created \/ m.ix \in {"init_market", "mint_to"}
  BY DEF EffectAdmits, DepositAdmits, LockMarketAdmits, ResolveAdmits,
    ClaimPayoutAdmits
<1>4. w.built.keys = accounts
  BY <1>1, <1>2, SameAccounts
<1>5. \A i \in DOMAIN accounts : accounts[i].isSigner => accounts[i].pubkey = w.by
  BY <1>1, OnlyCallerSigns
<1>6. Len(accounts) >= Len(accounts)
  <2>1. Len(accounts) \in Int
    BY <1>1, ArgumentTypes DEF Accounts
  <2> QED
    BY <2>1
<1>7. Satisfied(w.built.keys, accounts, w.by)
  <2> HIDE DEF accounts
  <2> QED
    BY <1>4, <1>5, <1>6 DEF Satisfied
<1> QED
  BY <1>1, <1>3, <1>7 DEF Understood

(* In any state that can be reached, whatever the market's state lets a    *)
(* client's request do, the program does with what the client has built:   *)
(* no layout, address, flag or signature stands in the way.                *)
THEOREM NothingElseRefused == WireSpec => []RefusedOnlyOnMerit
<1>1. WireInv => RefusedOnlyOnMerit
  BY MeantIsUnderstood DEF RefusedOnlyOnMerit, Executable
<1> QED
  BY <1>1, WireInductive, PTL
=============================================================================
