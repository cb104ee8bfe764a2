------------------------------- MODULE SimState -------------------------------
(***************************************************************************)
(* The register file behind fuelsim's Modbus slave (modbus.py): tags by    *)
(* name, 16-bit registers and bits, a scale per register, and the meters'  *)
(* totals in two registers each.                                           *)
(*                                                                         *)
(* Values are integers in hundredths, the finest scale of the map: a tag's *)
(* Scale is what one count of its register is worth.                       *)
(***************************************************************************)
EXTENDS Integers

CONSTANTS
  Tags,      \* names of the map: TagMap refuses to load one twice
  Block,     \* Block[t]: the Modbus area of a tag
  Addr,      \* Addr[t]: its address there
  Scale,     \* Scale[t]: hundredths per count
  Racks,
  Hi, Lo,    \* TOTALIZER_PAIRS: Hi[r] and Lo[r] are tags
  HiFirst,   \* totalizer_word_order = "hi_first"
  Values     \* what the program sets

Bits == {"coils", "discrete_inputs"}
Blocks == Bits \cup {"input_registers", "holding_registers"}

Cell(t) == <<Block[t], Addr[t]>>
Cells == {Cell(t) : t \in Tags}

Sensible ==
  /\ Block \in [Tags -> Blocks]
  /\ Addr \in [Tags -> Nat]
  /\ Scale \in [Tags -> {1, 10, 100}]
  /\ Hi \in [Racks -> Tags] /\ Lo \in [Racks -> Tags]
  /\ \A r \in Racks : Block[Hi[r]] = "input_registers" /\ Block[Lo[r]] = "input_registers"
  /\ Values \subseteq Int

(***************************************************************************)
(* What TagMap does not look at: that no two tags share a register.        *)
(***************************************************************************)
OneTagPerCell == \A t, u \in Tags : Cell(t) = Cell(u) => t = u

(***************************************************************************)
(* The four registers of the two totals are four tags.                     *)
(***************************************************************************)
PairsApart ==
  /\ \A q, r \in Racks : Hi[q] # Lo[r]
  /\ \A q, r \in Racks : q # r => Hi[q] # Hi[r] /\ Lo[q] # Lo[r]

Word == 65536
Words == {n \in Nat : n < Word}

VARIABLE regs

TypeOK == regs \in [Cells -> Words]

Init == regs = [c \in Cells |-> 0]

-------------------------------------------------------------------------------
Clamped(n) == IF n < 0 THEN 0 ELSE IF n > 65535 THEN 65535 ELSE n

(***************************************************************************)
(* round(v / s), a half to the even side.                                  *)
(***************************************************************************)
RoundedBy(s, v) ==
  LET up == 2 * (v % s) > s \/ (2 * (v % s) = s /\ (v \div s) % 2 = 1)
  IN  (v \div s) + (IF up THEN 1 ELSE 0)

Raw(t, v) ==
  IF Block[t] \in Bits THEN (IF v # 0 THEN 1 ELSE 0) ELSE Clamped(RoundedBy(Scale[t], v))

Get(t) == IF Block[t] \in Bits THEN regs[Cell(t)] ELSE regs[Cell(t)] * Scale[t]

Set(t, v) == regs' = [regs EXCEPT ![Cell(t)] = Raw(t, v)]

(***************************************************************************)
(* set_totalizer writes the high word to the tag named HI whatever the     *)
(* word order; get_totalizer honours the order.                            *)
(***************************************************************************)
HiWord(v) == (v \div Word) % Word
LoWord(v) == v % Word

SetTotalizer(r, v) ==
  regs' = [regs EXCEPT ![Cell(Hi[r])] = HiWord(v), ![Cell(Lo[r])] = LoWord(v)]

GetTotalizer(r) ==
  LET hi == regs[Cell(Hi[r])]
      lo == regs[Cell(Lo[r])]
  IN  IF HiFirst THEN hi * Word + lo ELSE lo * Word + hi

(***************************************************************************)
(* Any Modbus master may write coils and holding registers.                *)
(***************************************************************************)
MasterWrites(c, n) ==
  /\ c[1] \in {"coils", "holding_registers"}
  /\ c[1] = "coils" => n \in {0, 1}
  /\ regs' = [regs EXCEPT ![c] = n]

Next ==
  \/ \E t \in Tags, v \in Values : Set(t, v)
  \/ \E r \in Racks, v \in Values : SetTotalizer(r, v)
  \/ \E c \in Cells, n \in Words : MasterWrites(c, n)

Spec == Init /\ [][Next]_regs

-------------------------------------------------------------------------------
(***************************************************************************)
(* A bit is a bit: whatever number the program sets on a coil or discrete  *)
(* input, a master reads 0 or 1.  (modbus.py:150-151)                      *)
(***************************************************************************)
BitsAreBits == \A c \in Cells : c[1] \in Bits => regs[c] \in {0, 1}

InstrumentStep ==
  \A t \in Tags :
    Block[t] \in {"discrete_inputs", "input_registers"} /\ Get(t)' # Get(t)
      => \/ \E v \in Values : Set(t, v)
         \/ \E r \in Racks, v \in Values : t \in {Hi[r], Lo[r]} /\ SetTotalizer(r, v)

(***************************************************************************)
(* The instruments are the program's: only a set of the very tag, or of    *)
(* its rack's total, changes what a read-only tag reads.                   *)
(* (modbus.py:139-175)                                                     *)
(***************************************************************************)
InstrumentsAreOurs == [][InstrumentStep]_regs

===============================================================================
