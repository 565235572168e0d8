--------------------------------- MODULE Alu ---------------------------------
(***************************************************************************)
(* The integer instructions of src/src/Instructions.cpp at one operand     *)
(* size: what they compute in a destination, in the accumulator pair and   *)
(* in the status flags.  Fetching and storing the operands (the op         *)
(* formats) is memory and register access and is left out: a source        *)
(* operand is any value.                                                   *)
(*                                                                         *)
(* The operand has Bits bits (8, 16, 32 or 64).  hi and lo are AH:AL for   *)
(* 8-bit operands and xDX:xAX above.                                       *)
(***************************************************************************)
EXTENDS Integers, FiniteSets, FiniteSetsExt

CONSTANTS
  Bits,        (* bits of an operand                                       *)
  Nibble,      (* how many values half a byte has (16)                     *)
  Counts,      (* shift counts, after the mask of FetchShiftOpFormat       *)
  Rands        (* what Rand() draws for flags that are undefined           *)

MaxBits == 64

(* Two to the n.                                                           *)
Two[n \in 0 .. MaxBits] == IF n = 0 THEN 1 ELSE 2 * Two[n - 1]

ASSUME AluAssumption ==
  /\ Bits \in 2 .. MaxBits
  /\ Nibble \in {Two[n] : n \in 1 .. Bits}
  /\ Counts \subseteq 0 .. (MaxBits - 1)
  /\ Rands \subseteq SUBSET {"CF", "PF", "AF", "ZF", "SF", "OF"} /\ Rands # {}

VARIABLES
  lo, hi,      (* the destination (or low accumulator), the high one       *)
  flags,       (* the status flags that are on                             *)
  error,       (* ArithmeticError stops the client, a Trap the emulator    *)
  compared,    (* history: the operands of the last CMP or SUB, while the  *)
               (* flags are still what it left; <<>> otherwise             *)
  op           (* history: the last instruction and its source operand     *)

cpu == <<lo, hi, flags, error, compared>>
vars == <<cpu, op>>

M == Two[Bits]
Half == M \div 2
Operand == 0 .. (M - 1)
Flag == {"CF", "PF", "AF", "ZF", "SF", "OF"}

Negative(v) == v % M >= Half
Positive(v) == ~Negative(v)
Signed(v) == IF Negative(v) THEN v - M ELSE v

\* Mutant: a result keeps the bits above the operand.
TruncateNot(x) == x

Truncate(x) == x % M

(* The set of bits that are on, and the value of a set of bits.            *)
BitsOf(v) == {i \in 0 .. (Bits - 1) : (v \div Two[i]) % 2 = 1}
Value(S) ==
  LET sum[k \in 0 .. Bits] ==
        IF k = 0 THEN 0 ELSE sum[k - 1] + (IF k - 1 \in S THEN 1 ELSE 0) * Two[k - 1]
  IN sum[Bits]

On(flag, condition) == IF condition THEN {flag} ELSE {}
Is(flag) == flag \in flags

-----------------------------------------------------------------------------
(* Flags.                                                                  *)

(* UpdateFlagsZSP; parity is that of the low byte.                         *)
ZSPFlags == {"ZF", "SF", "PF"}
ZSP(res) == On("ZF", res = 0) \cup On("SF", Negative(res))
            \cup On("PF", Cardinality({i \in BitsOf(res) : i < 8}) % 2 = 0)

(* Flags on and touched are determined; those undefined take any value     *)
(* (Rand()); the rest stay.                                                *)
Set(on, touched, undefined) ==
  \E any \in Rands :
    flags' = (flags \ (touched \cup undefined)) \cup on \cup (any \cap undefined)

Runs(name, b) == error = "None" /\ op' = <<name, b>>
Keeps == UNCHANGED <<flags, compared>>
Result(res) == lo' = res /\ UNCHANGED <<hi, error>>

-----------------------------------------------------------------------------
(* Sums.                                                                   *)

SumFlags == {"CF", "AF", "OF"} \cup ZSPFlags

\* Mutant: adding nothing sets the carry.
SumOfAtMost(a, b, res) ==
  ZSP(res) \cup On("CF", res <= a)
  \cup On("AF", res % Nibble < a % Nibble)
  \cup On("OF", Negative(a) = Negative(b) /\ Negative(a) # Negative(res))

(* The flags of res as a sum of a and b: CF and AF are read off res.        *)
SumOf(a, b, res) ==
  ZSP(res) \cup On("CF", res < a)
  \cup On("AF", res % Nibble < a % Nibble)
  \cup On("OF", Negative(a) = Negative(b) /\ Negative(a) # Negative(res))

ADD(b) ==
  LET res == Truncate(lo + b) IN
  /\ Runs("ADD", b)
  /\ Result(res) /\ compared' = <<>>
  /\ Set(SumOf(lo, b, res), SumFlags, {})

\* Mutant: overflow is any change of sign.
DifferenceSignChange(a, b) ==
  LET res == Truncate(a - b) IN
  ZSP(res) \cup On("CF", a < b)
  \cup On("AF", a % Nibble < b % Nibble)
  \cup On("OF", Negative(a) # Negative(res))

(* The flags of a - b.                                                     *)
Difference(a, b) ==
  LET res == Truncate(a - b) IN
  ZSP(res) \cup On("CF", a < b)
  \cup On("AF", a % Nibble < b % Nibble)
  \cup On("OF", Negative(a) # Negative(b) /\ Negative(a) # Negative(res))

SUB(b) ==
  /\ Runs("SUB", b)
  /\ Result(Truncate(lo - b)) /\ compared' = <<lo, b>>
  /\ Set(Difference(lo, b), SumFlags, {})

CMP(b) ==
  /\ Runs("CMP", b)
  /\ Set(Difference(lo, b), SumFlags, {})
  /\ UNCHANGED <<lo, hi, error>> /\ compared' = <<lo, b>>

(* ADC, ADCX and ADOX: which flag carries in, and which flags result.      *)
ADXX(ext, b) ==
  LET carry == IF Is(IF ext = "ADOX" THEN "OF" ELSE "CF") THEN 1 ELSE 0
      res == Truncate(lo + b + carry)
      out == CASE ext = "ADC" -> SumFlags [] ext = "ADCX" -> {"CF"} [] OTHER -> {"OF"}
  IN
  /\ Runs(ext, b)
  /\ Result(res) /\ compared' = <<>>
  /\ Set(SumOf(lo, b, res) \cap out, out, {})

INC ==
  LET res == Truncate(lo + 1) IN
  /\ Runs("INC", 0)
  /\ Result(res) /\ compared' = <<>>
  /\ Set(ZSP(res) \cup On("AF", res % Nibble = 0)
         \cup On("OF", Positive(lo) /\ Negative(res)), SumFlags \ {"CF"}, {})

DEC ==
  LET res == Truncate(lo - 1) IN
  /\ Runs("DEC", 0)
  /\ Result(res) /\ compared' = <<>>
  /\ Set(ZSP(res) \cup On("AF", lo % Nibble = 0)
         \cup On("OF", Negative(lo) /\ Positive(res)), SumFlags \ {"CF"}, {})

NEG ==
  LET res == Truncate(0 - lo) IN
  /\ Runs("NEG", 0)
  /\ Result(res) /\ compared' = <<>>
  /\ Set(ZSP(res) \cup On("CF", 0 < lo) \cup On("AF", 0 < lo % Nibble)
         \cup On("OF", Negative(lo) /\ Negative(res)), SumFlags, {})

(* CMPZ compares with zero without a subtraction.                          *)
CMPZ ==
  /\ Runs("CMPZ", 0)
  /\ Set(ZSP(lo), SumFlags, {})
  /\ UNCHANGED <<lo, hi, error>> /\ compared' = <<lo, 0>>

-----------------------------------------------------------------------------
(* Conditions: SETcc, MOVcc and Jcc test the same eighteen.                *)

Holds(cc, on) ==
  LET Up(flag) == flag \in on IN
  CASE cc = "Z" -> Up("ZF")   [] cc = "NZ" -> ~Up("ZF")
    [] cc = "S" -> Up("SF")   [] cc = "NS" -> ~Up("SF")
    [] cc = "P" -> Up("PF")   [] cc = "NP" -> ~Up("PF")
    [] cc = "O" -> Up("OF")   [] cc = "NO" -> ~Up("OF")
    [] cc = "C" -> Up("CF")   [] cc = "NC" -> ~Up("CF")
    [] cc = "B" -> Up("CF")   [] cc = "AE" -> ~Up("CF")
    [] cc = "BE" -> Up("CF") \/ Up("ZF")
    [] cc = "A" -> ~Up("CF") /\ ~Up("ZF")
    [] cc = "L" -> Up("SF") # Up("OF")
    [] cc = "GE" -> Up("SF") = Up("OF")
    [] cc = "LE" -> Up("ZF") \/ Up("SF") # Up("OF")
    [] cc = "G" -> ~Up("ZF") /\ Up("SF") = Up("OF")

Conditions == {"Z", "NZ", "S", "NS", "P", "NP", "O", "NO", "C", "NC",
               "B", "BE", "A", "AE", "L", "LE", "G", "GE"}

SETcc(cc) == Runs("SETcc", 0) /\ Result(IF Holds(cc, flags) THEN 1 ELSE 0) /\ Keeps

MOVcc(cc, b) == Runs("MOVcc", b) /\ Result(IF Holds(cc, flags) THEN b ELSE lo) /\ Keeps

(* STC, CLC and CMC.                                                       *)
FlagManip ==
  /\ Runs("FlagManip", 0)
  /\ flags' \in {flags \cup {"CF"}, flags \ {"CF"}}
  /\ UNCHANGED <<lo, hi, error>> /\ compared' = <<>>

-----------------------------------------------------------------------------
(* Bits.                                                                   *)

LogicFlags == {"CF", "OF"} \cup ZSPFlags

Logic(res) ==
  Set(ZSP(res), LogicFlags, {"AF"}) /\ compared' = <<>>

And(a, b) == Value(BitsOf(a) \cap BitsOf(b))
Or(a, b) == Value(BitsOf(a) \cup BitsOf(b))
Xor(a, b) == Value(SymDiff(BitsOf(a), BitsOf(b)))

AND(b) == Runs("AND", b) /\ Logic(And(lo, b)) /\ Result(And(lo, b))
TEST(b) == Runs("TEST", b) /\ Logic(And(lo, b)) /\ UNCHANGED <<lo, hi, error>>
OR(b) == Runs("OR", b) /\ Logic(Or(lo, b)) /\ Result(Or(lo, b))
XOR(b) == Runs("XOR", b) /\ Logic(Xor(lo, b)) /\ Result(Xor(lo, b))
NOT == Runs("NOT", 0) /\ Result(M - 1 - lo) /\ Keeps

(* BLSI, BLSMSK and BLSR of lo, and ANDN of a source; AF and PF undefined. *)
BLS(name, b, res, on) ==
  /\ Runs(name, b)
  /\ Result(res) /\ compared' = <<>>
  /\ Set(on, {"ZF", "SF", "CF", "OF"}, {"AF", "PF"})

BLSI ==
  LET res == And(lo, Truncate(0 - lo))
  IN BLS("BLSI", 0, res, On("ZF", res = 0) \cup On("SF", Negative(res)) \cup On("CF", lo # 0))
BLSMSK ==
  LET res == Xor(lo, Truncate(lo - 1))
  IN BLS("BLSMSK", 0, res, On("SF", Negative(res)) \cup On("CF", lo = 0))

BLSR ==
  LET res == And(lo, Truncate(lo - 1))
  IN BLS("BLSR", 0, res, On("ZF", res = 0) \cup On("SF", Negative(res)) \cup On("CF", lo = 0))
ANDN(b) ==
  LET res == And(M - 1 - lo, b)
  IN BLS("ANDN", b, res, On("ZF", res = 0) \cup On("SF", Negative(res)))

(* BT, BTS, BTR and BTC: bit b modulo the operand size.                    *)
BTx(ext, b) ==
  LET bit == {b % Bits}
      res == CASE ext = "BT" -> lo
               [] ext = "BTS" -> Value(BitsOf(lo) \cup bit)
               [] ext = "BTR" -> Value(BitsOf(lo) \ bit)
               [] ext = "BTC" -> Value(SymDiff(BitsOf(lo), bit))
  IN
  /\ Runs(ext, b)
  /\ Result(res) /\ compared' = <<>>
  /\ Set(On("CF", bit \subseteq BitsOf(lo)), {"CF"}, {"OF", "SF", "AF", "PF"})

(* BSF and BSR of a source: no bit leaves any value.                       *)
BSx(forward, b) ==
  /\ Runs("BSx", b)
  /\ IF b = 0 THEN \E any \in Operand : Result(any)
     ELSE Result(IF forward THEN Min(BitsOf(b)) ELSE Max(BitsOf(b)))
  /\ Set(On("ZF", b = 0), {"ZF"}, {"CF", "OF", "SF", "AF", "PF"})
  /\ compared' = <<>>

TZCNT(b) ==
  LET res == IF b = 0 THEN Bits ELSE Min(BitsOf(b)) IN
  /\ Runs("TZCNT", b)
  /\ Result(res) /\ compared' = <<>>
  /\ Set(On("CF", b = 0) \cup On("ZF", res = 0), {"CF", "ZF"}, {"OF", "SF", "AF", "PF"})

(* The field of len bits at pos; position and length are taken modulo the  *)
(* operand size.                                                           *)
BEXTR(pos, len) ==
  LET res == (lo \div Two[pos % Bits]) % Two[len % Bits] IN
  /\ Runs("BEXTR", 0)
  /\ Result(res) /\ compared' = <<>>
  /\ Set(On("ZF", res = 0), {"ZF", "CF", "OF"}, {"AF", "SF", "PF"})

-----------------------------------------------------------------------------
(* Shifts and rotates; a count of zero changes nothing.                    *)

(* The count is over Bits where the mask (0x1f) is wider than the operand.  *)
(* CF is undefined from Bits on, OF for any count but 1, AF always.        *)
Shift(name, count, res, carry, overflow) ==
  LET undefined == {"AF"} \cup On("CF", count >= Bits) \cup On("OF", count # 1)
  IN
  /\ Runs(name, count)
  /\ IF count = 0 THEN UNCHANGED cpu
     ELSE /\ Result(res) /\ compared' = <<>>
          /\ Set((ZSP(res) \cup carry \cup overflow) \ undefined,
                 {"CF", "OF"} \cup ZSPFlags, undefined)

(* SHL and SAL.                                                            *)
SHL(count) ==
  LET res == Truncate(lo * Two[count])
      carry == On("CF", count < Bits /\ (Bits - count) \in BitsOf(lo))
  IN Shift("SHL", count, res, carry, On("OF", Negative(res) # (carry # {})))

SHR(count) ==
  Shift("SHR", count, lo \div Two[count], On("CF", (count - 1) \in BitsOf(lo)),
        On("OF", Negative(lo)))

SAR(count) ==
  Shift("SAR", count, Truncate(Signed(lo) \div Two[count]),
        On("CF", (count - 1) \in BitsOf(lo)), {})

(* A rotate sets CF, and OF for a count of 1; the other flags stay.        *)
Rotate(name, n, count, res, carry, overflow) ==
  LET undefined == On("OF", count # 1)
  IN
  /\ Runs(name, n)
  /\ IF count = 0 THEN UNCHANGED cpu
     ELSE /\ Result(res) /\ compared' = <<>>
          /\ Set((On("CF", carry) \cup On("OF", overflow)) \ undefined, {"CF", "OF"}, undefined)

TopTwoDiffer(res) == Negative(res) # ((Bits - 2) \in BitsOf(res))

ROL(n) ==
  LET count == n % Bits
      res == Truncate(lo * Two[count] + lo \div Two[Bits - count])
      carry == (Bits - count) \in BitsOf(lo)
  IN Rotate("ROL", n, count, res, carry, carry # Negative(res))

ROR(n) ==
  LET count == n % Bits
      res == Truncate(lo \div Two[count] + lo * Two[Bits - count])
  IN Rotate("ROR", n, count, res, (count - 1) \in BitsOf(lo), TopTwoDiffer(res))

(* RCL and RCR rotate through CF one bit at a time, modulo Bits + 1.  Bits  *)
(* that RCL moves out of the operand are only dropped when it is stored.   *)
OneLeft(p) ==
  [res |-> Truncate(2 * p.res) + (IF p.carry THEN 1 ELSE 0), carry |-> Negative(p.res)]
OneRight(p) ==
  [res |-> p.res \div 2 + (IF p.carry THEN Half ELSE 0), carry |-> p.res % 2 = 1]

ThroughCarry(left, count) ==
  LET turn[i \in 0 .. count] ==
        IF i = 0 THEN [res |-> lo, carry |-> Is("CF")]
        ELSE IF left THEN OneLeft(turn[i - 1]) ELSE OneRight(turn[i - 1])
  IN turn[count]

\* Mutant: the count is taken modulo the operand size.
RCLModuloBits(n) ==
  LET count == n % Bits
      end == ThroughCarry(TRUE, count)
  IN Rotate("RCL", n, count, end.res, end.carry, end.carry # Negative(end.res))

RCL(n) ==
  LET count == n % (Bits + 1)
      end == ThroughCarry(TRUE, count)
  IN Rotate("RCL", n, count, end.res, end.carry, end.carry # Negative(end.res))

RCR(n) ==
  LET count == n % (Bits + 1)
      end == ThroughCarry(FALSE, count)
  IN Rotate("RCR", n, count, end.res, end.carry, TopTwoDiffer(end.res))

-----------------------------------------------------------------------------
(* Products and quotients.                                                 *)

Pair == hi * M + lo
SignedPair == Signed(hi) * M + lo

StorePair(x) == hi' = x \div M % M /\ lo' = Truncate(x) /\ UNCHANGED error
Product(overflows) ==
  Set(IF overflows THEN {"CF", "OF"} ELSE {}, {"CF", "OF"}, {"SF", "ZF", "AF", "PF"})
  /\ compared' = <<>>

\* Mutant: one too many on the positive side.
FitsSignedPlusOne(x) == x \in (0 - Half) .. Half

(* A result cast to the operand's signed type is unchanged.                *)
FitsSigned(x) == x \in (0 - Half) .. (Half - 1)

MUL(b) == Runs("MUL", b) /\ StorePair(lo * b) /\ Product(hi' # 0)

MULX(b) == Runs("MULX", b) /\ StorePair(lo * b) /\ Keeps

(* IMUL of one operand keeps both halves; of two or three, the low one.    *)
UnaryIMUL(b) ==
  Runs("UnaryIMUL", b) /\ StorePair(Signed(lo) * Signed(b)) /\ Product(~FitsSigned(Signed(lo) * Signed(b)))
BinaryIMUL(b) ==
  /\ Runs("BinaryIMUL", b)
  /\ Result(Truncate(Signed(lo) * Signed(b)))
  /\ Product(~FitsSigned(Signed(lo) * Signed(b)))

(* Division of the C++ language: the quotient is truncated toward zero.    *)
Magnitude(x) == IF x < 0 THEN -x ELSE x
Quotient(x, y) ==
  LET q == Magnitude(x) \div Magnitude(y)
  IN IF (x < 0) = (y < 0) THEN q ELSE -q
Remainder(x, y) == x - y * Quotient(x, y)

Quotients(quo, rem) ==
  /\ lo' = Truncate(quo) /\ hi' = Truncate(rem)
  /\ Set({}, {}, Flag)
  /\ UNCHANGED error /\ compared' = <<>>

Fault == error' = "ArithmeticError" /\ UNCHANGED <<lo, hi, flags, compared>>

DIV(b) ==
  /\ Runs("DIV", b)
  /\ IF b # 0 /\ Pair \div b < M THEN Quotients(Pair \div b, Pair % b) ELSE Fault

(* The quotient of the least pair by -1 does not fit.  For 32-bit operands  *)
(* it is computed as an i64, where it overflows: undefined behaviour, which *)
(* on some hosts gives a quotient that does not fit either and on others   *)
(* traps and takes the emulator down.                                      *)
Trap == error' = "Trap" /\ UNCHANGED <<lo, hi, flags, compared>>

IDIV(b) ==
  /\ Runs("IDIV", b)
  /\ IF b # 0 /\ FitsSigned(Quotient(SignedPair, Signed(b)))
     THEN Quotients(Quotient(SignedPair, Signed(b)), Remainder(SignedPair, Signed(b)))
     ELSE \/ Fault
          \/ SignedPair = 0 - Half * M /\ Signed(b) = 0 - 1 /\ Trap

-----------------------------------------------------------------------------
(* Moves.                                                                  *)

(* CWD, CDQ and CQO; CBW, CWDE, CDQE and MOVSX write the same two halves.  *)
Cxy == Runs("Cxy", 0) /\ hi' = (IF Negative(lo) THEN M - 1 ELSE 0) /\ UNCHANGED <<lo, error>> /\ Keeps

MOV(b) == Runs("MOV", b) /\ Result(b) /\ Keeps

XCHG == Runs("XCHG", 0) /\ lo' = hi /\ hi' = lo /\ UNCHANGED error /\ Keeps

-----------------------------------------------------------------------------

Init ==
  /\ lo \in Operand /\ hi \in Operand
  /\ flags = {}
  /\ error = "None" /\ compared = <<>>
  /\ op = <<"", 0>>

Next ==
  \/ \E b \in Operand :
       \/ ADD(b) \/ SUB(b) \/ CMP(b)
       \/ \E ext \in {"ADC", "ADCX", "ADOX"} : ADXX(ext, b)
       \/ \E cc \in Conditions : MOVcc(cc, b)
       \/ AND(b) \/ TEST(b) \/ OR(b) \/ XOR(b) \/ ANDN(b)
       \/ \E ext \in {"BT", "BTS", "BTR", "BTC"} : BTx(ext, b)
       \/ \E forward \in BOOLEAN : BSx(forward, b)
       \/ TZCNT(b)
       \/ MUL(b) \/ MULX(b) \/ UnaryIMUL(b) \/ BinaryIMUL(b)
       \/ DIV(b) \/ IDIV(b)
       \/ MOV(b)
  \/ \E cc \in Conditions : SETcc(cc)
  \/ \E n \in Counts :
       \/ SHL(n) \/ SHR(n) \/ SAR(n)
       \/ ROL(n) \/ ROR(n) \/ RCL(n) \/ RCR(n)
       \/ \E len \in Counts : BEXTR(n, len)
  \/ INC \/ DEC \/ NEG \/ CMPZ \/ FlagManip \/ NOT
  \/ BLSI \/ BLSMSK \/ BLSR \/ Cxy \/ XCHG

Spec == Init /\ [][Next]_vars

-----------------------------------------------------------------------------
(* Correctness.                                                            *)

TypeOK ==
  /\ lo \in Operand /\ hi \in Operand
  /\ flags \in SUBSET Flag
  /\ error \in {"None", "ArithmeticError", "Trap"}
  /\ compared \in {<<>>} \cup (Operand \X Operand)

(* As long as the flags are those of a comparison, every condition a       *)
(* client can test orders the operands that were compared, as unsigned     *)
(* numbers and as signed ones.                                             *)
Orders(cc, a, b) ==
  CASE cc \in {"B", "C"} -> a < b
    [] cc \in {"AE", "NC"} -> a >= b
    [] cc = "BE" -> a <= b
    [] cc = "A" -> a > b
    [] cc = "L" -> Signed(a) < Signed(b)
    [] cc = "LE" -> Signed(a) <= Signed(b)
    [] cc = "G" -> Signed(a) > Signed(b)
    [] cc = "GE" -> Signed(a) >= Signed(b)
    [] cc = "Z" -> a = b
    [] cc = "NZ" -> a # b

CompareDecides ==
  compared # <<>> =>
    \A cc \in {"B", "C", "AE", "NC", "BE", "A", "L", "LE", "G", "GE", "Z", "NZ"} :
      Holds(cc, flags) <=> Orders(cc, compared[1], compared[2])

(* An addition, subtraction, increment, decrement or negation is exact     *)
(* with its carry as an unsigned number, and exact as a signed number      *)
(* unless it says that it overflowed.  ADC loses the carry when it adds one *)
(* to all ones (see AddWithCarryExact), and is exact otherwise.            *)
Did == op'[1]
Source == op'[2]
Carry == IF "CF" \in flags' THEN 1 ELSE 0
CarryIn == IF Is("CF") THEN 1 ELSE 0
SignedExact(x) == (Signed(lo') = x) <=> "OF" \notin flags'

SumsExact ==
  [][/\ Did = "ADD" => lo' + M * Carry = lo + Source
                       /\ SignedExact(Signed(lo) + Signed(Source))
     /\ Did = "ADC" => /\ Source + CarryIn # M => lo' + M * Carry = lo + Source + CarryIn
                       /\ SignedExact(Signed(lo) + Signed(Source) + CarryIn)
     /\ Did = "SUB" => lo' - M * Carry = lo - Source
                       /\ SignedExact(Signed(lo) - Signed(Source))
     /\ Did = "NEG" => lo' - M * Carry = 0 - lo /\ SignedExact(0 - Signed(lo))
     /\ Did = "INC" => SignedExact(Signed(lo) + 1)
     /\ Did = "DEC" => SignedExact(Signed(lo) - 1)]_vars

(* A sum with a carry into it is exact with the carry out of it.           *)
AddWithCarryExact ==
  [][Did = "ADC" =>
       lo' + M * Carry = lo + Source + CarryIn]_vars

(* A division ends in the quotient and remainder of the whole pair, or in  *)
(* an error exactly when there is no quotient of the operand size.         *)
Divides(quo, rem) ==
  /\ SignedPair = quo * Signed(Source) + rem
  /\ Magnitude(rem) < Magnitude(Signed(Source))
  /\ rem # 0 => (rem < 0) = (SignedPair < 0)

DivisionExact ==
  [][/\ Did = "DIV" =>
          IF error' = "None" THEN Pair = lo' * Source + hi' /\ hi' < Source
          ELSE \A q \in Operand : Pair \notin (q * Source) .. ((q + 1) * Source - 1)
     /\ Did = "IDIV" =>
          IF error' = "None" THEN Divides(Signed(lo'), Signed(hi'))
          ELSE \A q \in (0 - Half) .. (Half - 1) :
                 ~Divides(q, SignedPair - q * Signed(Source))]_vars

(* A rotate turns a ring of bits: the operand, or the operand with CF      *)
(* above it.                                                               *)
Turned(S, n, size) == {(i + n) % size : i \in S}
Ring == BitsOf(lo) \cup (IF Is("CF") THEN {Bits} ELSE {})

RotatesTurnTheRing ==
  [][/\ Did = "ROL" => BitsOf(lo') = Turned(BitsOf(lo), Source, Bits)
     /\ Did = "ROR" => BitsOf(lo) = Turned(BitsOf(lo'), Source, Bits)
     /\ Did = "RCL" => Ring' = Turned(Ring, Source, Bits + 1)
     /\ Did = "RCR" => Ring = Turned(Ring', Source, Bits + 1)]_vars

=============================================================================
