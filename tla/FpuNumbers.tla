----------------------------- MODULE FpuNumbers -----------------------------
(***************************************************************************)
(* The numbers of the x87 unit: names for classes of long doubles, how     *)
(* they compare and what is left of one in single or double precision.     *)
(***************************************************************************)
EXTENDS Integers

CONSTANTS
  NReg,           (* registers (8)                                         *)
  Values,         (* what a register may hold: numbers and NaN             *)
  NaN,
  Beyond,         (* the numbers below -1 or above 1                       *)
  Single, Double, (* a value after it went through a float, a double       *)
  Empty

Slots == 0 .. (NReg - 1)
Precisions == 0 .. 3
Flags == {"ZF", "PF", "CF"}
C0123 == {"C0", "C1", "C2", "C3"}

ASSUME FpuAssumption ==
  /\ NReg \in Nat /\ NReg >= 2
  /\ Values \subseteq Int /\ {0, NaN} \subseteq Values /\ NaN # 0
  /\ Beyond \subseteq Values \ {0, NaN}
  /\ Single \in [Values -> Values] /\ Double \in [Values -> Values]
  /\ Empty \in Int \ Values

(* A register holds no more than the precision control lets it.            *)
Rounded(v, pc) == IF pc = 0 THEN Single[v] ELSE IF pc = 2 THEN Double[v] ELSE v

(* How a and b compare, as C3, C2, C0 and as ZF, PF, CF.                   *)
Unordered(a, b) == NaN \in {a, b}
Codes(a, b) ==
  IF Unordered(a, b) THEN {"C3", "C2", "C0"}
  ELSE IF a < b THEN {"C0"} ELSE IF a = b THEN {"C3"} ELSE {}
AsFlags(a, b) ==
  IF Unordered(a, b) THEN Flags
  ELSE IF a < b THEN {"CF"} ELSE IF a = b THEN {"ZF"} ELSE {}

=============================================================================
