---------------------------- MODULE FieldBusProofs ----------------------------
(***************************************************************************)
(* Proofs about fuelsim's register file and the PLC that polls it, for any *)
(* tag map, any racks and any values.                                      *)
(***************************************************************************)
EXTENDS PlcScan, TLAPS

(***************************************************************************)
(* Every write puts a word, and a bit in a bit's place.                    *)
(***************************************************************************)
LEMMA RawIsAWord ==
  ASSUME Sensible, NEW t \in Tags, NEW v \in Values
  PROVE  /\ Raw(t, v) \in Words
         /\ Block[t] \in Bits => Raw(t, v) \in {0, 1}
<1>1. v \in Int /\ Scale[t] \in {1, 10, 100}
  BY DEF Sensible
<1>2. RoundedBy(Scale[t], v) \in Int
  BY <1>1 DEF RoundedBy
<1>3. Clamped(RoundedBy(Scale[t], v)) \in Words
  <2> DEFINE n == RoundedBy(Scale[t], v)
  <2> HIDE DEF n
  <2>1. \A m \in Int : Clamped(m) \in Int /\ 0 <= Clamped(m) /\ Clamped(m) <= 65535
    BY DEF Clamped
  <2>2. \A m \in Int : 0 <= m /\ m <= 65535 => m \in Words
    BY DEF Words, Word
  <2> QED
    BY <1>2, <2>1, <2>2
<1>4. 0 \in Words /\ 1 \in Words
  BY DEF Words, Word
<1> QED
  BY <1>3, <1>4 DEF Raw

LEMMA HalvesAreWords ==
  ASSUME NEW v \in Int
  PROVE  HiWord(v) \in Words /\ LoWord(v) \in Words
<1>1. HiWord(v) \in Words
  BY DEF HiWord, Words, Word
<1>2. LoWord(v) \in Words
  BY DEF LoWord, Words, Word
<1> QED
  BY <1>1, <1>2

(***************************************************************************)
(* Registers hold words, and bits are bits.                                *)
(***************************************************************************)
Inv == TypeOK /\ BitsAreBits

LEMMA StepKeepsWords == ASSUME Sensible, Inv, [Next]_regs PROVE Inv'
<1> USE DEF Inv, TypeOK, BitsAreBits
<1>1. ASSUME NEW t \in Tags, NEW v \in Values, Set(t, v) PROVE Inv'
  <2>1. Cell(t) \in Cells /\ (Cell(t)[1] = Block[t])
    BY DEF Cells, Cell
  <2>2. /\ Raw(t, v) \in Words
        /\ Block[t] \in Bits => Raw(t, v) \in {0, 1}
    BY Sensible, RawIsAWord
  <2>3. regs' = [regs EXCEPT ![Cell(t)] = Raw(t, v)]
    BY <1>1 DEF Set
  <2> QED
    BY <2>1, <2>2, <2>3
<1>2. ASSUME NEW r \in Racks, NEW v \in Values, SetTotalizer(r, v) PROVE Inv'
  <2>1. /\ Hi[r] \in Tags /\ Lo[r] \in Tags /\ v \in Int
        /\ Block[Hi[r]] \notin Bits /\ Block[Lo[r]] \notin Bits
    BY Sensible DEF Sensible, Bits
  <2>2. /\ Cell(Hi[r]) \in Cells /\ Cell(Lo[r]) \in Cells
        /\ Cell(Hi[r])[1] \notin Bits /\ Cell(Lo[r])[1] \notin Bits
    BY <2>1 DEF Cells, Cell
  <2>3. HiWord(v) \in Words /\ LoWord(v) \in Words
    BY <2>1, HalvesAreWords
  <2>4. regs' = [regs EXCEPT ![Cell(Hi[r])] = HiWord(v), ![Cell(Lo[r])] = LoWord(v)]
    BY <1>2 DEF SetTotalizer
  <2> HIDE DEF Bits
  <2> QED
    BY <2>2, <2>3, <2>4
<1>3. ASSUME NEW c \in Cells, NEW n \in Words, MasterWrites(c, n) PROVE Inv'
  BY <1>3 DEF MasterWrites, Bits
<1>4. CASE UNCHANGED regs
  BY <1>4
<1> QED
  BY <1>1, <1>2, <1>3, <1>4 DEF Next

LEMMA Invariance == ASSUME Sensible PROVE Spec => []Inv
<1>1. Init => Inv
  BY DEF Init, Inv, TypeOK, BitsAreBits, Words, Word
<1>2. Inv /\ [Next]_regs => Inv'
  BY StepKeepsWords
<1> QED
  BY <1>1, <1>2, PTL DEF Spec

(***************************************************************************)
(* No write overflows a register, and a bit never reads as anything else.  *)
(***************************************************************************)
THEOREM RegistersHoldWords == ASSUME Sensible PROVE Spec => [](TypeOK /\ BitsAreBits)
  BY Invariance DEF Inv

-------------------------------------------------------------------------------
(***************************************************************************)
(* Where no two tags share a register, a set shows in its own tag alone.   *)
(* TagMap refuses a name given twice, not an address.                      *)
(***************************************************************************)
THEOREM SetDisturbsNoOther ==
  ASSUME TypeOK, OneTagPerCell,
         NEW t \in Tags, NEW u \in Tags, u # t, NEW v, Set(t, v)
  PROVE  Get(u)' = Get(u)
<1>1. Cell(u) # Cell(t) /\ Cell(u) \in Cells
  BY DEF OneTagPerCell, Cells
<1>2. regs'[Cell(u)] = regs[Cell(u)]
  BY <1>1 DEF Set, TypeOK
<1> QED
  BY <1>2 DEF Get

(***************************************************************************)
(* A value in a register's range reads back to the nearest count; one      *)
(* outside is pinned to the end of the range.                              *)
(***************************************************************************)
Near(s, v, n) == n \in Int /\ 2 * (n * s - v) <= s /\ 2 * (v - n * s) <= s

LEMMA RoundingIsNear ==
  ASSUME NEW s \in {1, 10, 100}, NEW v \in Int
  PROVE  Near(s, v, RoundedBy(s, v))
<1>1. CASE s = 1
  BY <1>1 DEF RoundedBy, Near
<1>2. CASE s = 10
  BY <1>2 DEF RoundedBy, Near
<1>3. CASE s = 100
  BY <1>3 DEF RoundedBy, Near
<1> QED
  BY <1>1, <1>2, <1>3

THEOREM SetReadsBack ==
  ASSUME Sensible, TypeOK, NEW t \in Tags, Block[t] \notin Bits,
         NEW v \in Int, 0 <= v, v <= 65535 * Scale[t],
         Set(t, v)
  PROVE  2 * (Get(t)' - v) <= Scale[t] /\ 2 * (v - Get(t)') <= Scale[t]
<1>1. Scale[t] \in {1, 10, 100}
  BY DEF Sensible
<1>2. Near(Scale[t], v, RoundedBy(Scale[t], v))
  BY <1>1, RoundingIsNear
<1> DEFINE n == RoundedBy(Scale[t], v)
<1>3. Near(Scale[t], v, n)
  BY <1>2
<1> HIDE DEF n
<1>4. 0 <= n /\ n <= 65535
  <2>1. CASE Scale[t] = 1
    BY <1>3, <2>1 DEF Near
  <2>2. CASE Scale[t] = 10
    BY <1>3, <2>2 DEF Near
  <2>3. CASE Scale[t] = 100
    BY <1>3, <2>3 DEF Near
  <2> QED
    BY <1>1, <2>1, <2>2, <2>3
<1>5. regs'[Cell(t)] = n
  <2>1. Clamped(n) = n
    BY <1>3, <1>4 DEF Near, Clamped
  <2>2. Raw(t, v) = n
    BY <2>1 DEF Raw, n
  <2> QED
    BY <2>2 DEF Set, TypeOK, Cells
<1>6. Get(t)' = n * Scale[t]
  BY <1>5 DEF Get
<1> QED
  BY <1>3, <1>6 DEF Near

-------------------------------------------------------------------------------
(***************************************************************************)
(* A total reads back modulo 2^32 when the high word comes first, and      *)
(* leaves the other rack's total alone.                                    *)
(***************************************************************************)
LEMMA TotalsLand ==
  ASSUME Sensible, TypeOK, OneTagPerCell, PairsApart,
         NEW r \in Racks, NEW v, SetTotalizer(r, v)
  PROVE  /\ regs'[Cell(Hi[r])] = HiWord(v)
         /\ regs'[Cell(Lo[r])] = LoWord(v)
         /\ \A q \in Racks : q # r => /\ regs'[Cell(Hi[q])] = regs[Cell(Hi[q])]
                                      /\ regs'[Cell(Lo[q])] = regs[Cell(Lo[q])]
<1>1. \A q \in Racks : /\ Hi[q] \in Tags /\ Lo[q] \in Tags
                       /\ Cell(Hi[q]) \in Cells /\ Cell(Lo[q]) \in Cells
  BY DEF Sensible, Cells
<1>2. /\ Cell(Hi[r]) # Cell(Lo[r])
      /\ \A q \in Racks : q # r => /\ Cell(Hi[q]) \notin {Cell(Hi[r]), Cell(Lo[r])}
                                   /\ Cell(Lo[q]) \notin {Cell(Hi[r]), Cell(Lo[r])}
  BY <1>1 DEF OneTagPerCell, PairsApart
<1>3. regs' = [regs EXCEPT ![Cell(Hi[r])] = HiWord(v), ![Cell(Lo[r])] = LoWord(v)]
  BY DEF SetTotalizer
<1>4. regs \in [Cells -> Words]
  BY DEF TypeOK
<1> QED
  BY <1>1, <1>2, <1>3, <1>4

THEOREM TotalReadsBack ==
  ASSUME Sensible, TypeOK, OneTagPerCell, PairsApart, HiFirst = TRUE,
         NEW r \in Racks, NEW v \in Int, SetTotalizer(r, v)
  PROVE  /\ GetTotalizer(r)' = v % (Word * Word)
         /\ \A q \in Racks : q # r => GetTotalizer(q)' = GetTotalizer(q)
<1>1. GetTotalizer(r)' = HiWord(v) * Word + LoWord(v)
  BY TotalsLand DEF GetTotalizer
<1>2. HiWord(v) * Word + LoWord(v) = v % (Word * Word)
  BY DEF HiWord, LoWord, Word
<1>3. \A q \in Racks : q # r => GetTotalizer(q)' = GetTotalizer(q)
  BY TotalsLand DEF GetTotalizer
<1> QED
  BY <1>1, <1>2, <1>3

(***************************************************************************)
(* The other word order does not survive the round trip: the total comes   *)
(* back with its words exchanged.  (modbus.py:16 says the split honours    *)
(* the order.)                                                             *)
(***************************************************************************)
THEOREM LoFirstExchangesTheWords ==
  ASSUME Sensible, TypeOK, OneTagPerCell, PairsApart, HiFirst = FALSE,
         NEW r \in Racks, NEW v \in Nat, v < Word * Word, SetTotalizer(r, v)
  PROVE  GetTotalizer(r)' = v <=> HiWord(v) = LoWord(v)
<1>1. GetTotalizer(r)' = LoWord(v) * Word + HiWord(v)
  BY TotalsLand DEF GetTotalizer
<1>2. v = HiWord(v) * Word + LoWord(v)
  <2>1. v \in Int /\ 0 <= v /\ v < 65536 * 65536
    BY DEF Word
  <2>2. v \div 65536 \in Int /\ 0 <= v \div 65536 /\ v \div 65536 < 65536
    BY <2>1
  <2>3. (v \div 65536) % 65536 = v \div 65536
    BY <2>2
  <2>4. v = (v \div 65536) * 65536 + (v % 65536)
    BY <2>1
  <2> QED
    BY <2>3, <2>4 DEF HiWord, LoWord, Word
<1>3. /\ HiWord(v) \in Int /\ 0 <= HiWord(v) /\ HiWord(v) < 65536
      /\ LoWord(v) \in Int /\ 0 <= LoWord(v) /\ LoWord(v) < 65536
  <2>1. HiWord(v) \in Words /\ LoWord(v) \in Words
    BY HalvesAreWords
  <2> QED
    BY <2>1 DEF Words, Word
<1>4. LoWord(v) * 65536 + HiWord(v) = HiWord(v) * 65536 + LoWord(v)
        <=> HiWord(v) = LoWord(v)
  BY <1>3
<1> QED
  BY <1>1, <1>2, <1>4 DEF Word

-------------------------------------------------------------------------------
(***************************************************************************)
(* A read-only tag changes by a set of its own, or by its rack's total.    *)
(***************************************************************************)
THEOREM OnlyOursMoveInstruments ==
  ASSUME Sensible, OneTagPerCell PROVE Spec => InstrumentsAreOurs
<1> DEFINE Instrument(t) == Block[t] \in {"discrete_inputs", "input_registers"}
           Ours(t) == \/ \E v \in Values : Set(t, v)
                      \/ \E r \in Racks, v \in Values : t \in {Hi[r], Lo[r]} /\ SetTotalizer(r, v)
<1>1. ASSUME TypeOK, Next, NEW t \in Tags, Instrument(t), Get(t)' # Get(t)
      PROVE  Ours(t)
  <2>1. regs'[Cell(t)] # regs[Cell(t)] /\ Cell(t) \in Cells
    BY <1>1 DEF Get, Cells
  <2>2. ASSUME NEW u \in Tags, NEW v \in Values, Set(u, v) PROVE Ours(t)
    <3>1. Cell(u) = Cell(t)
      BY <1>1, <2>1, <2>2 DEF Set, TypeOK
    <3> QED
      BY <2>2, <3>1 DEF OneTagPerCell
  <2>3. ASSUME NEW r \in Racks, NEW v \in Values, SetTotalizer(r, v) PROVE Ours(t)
    <3>1. Cell(t) \in {Cell(Hi[r]), Cell(Lo[r])}
      BY <1>1, <2>1, <2>3 DEF SetTotalizer, TypeOK
    <3>2. Hi[r] \in Tags /\ Lo[r] \in Tags
      BY DEF Sensible
    <3>3. t \in {Hi[r], Lo[r]}
      BY <3>1, <3>2 DEF OneTagPerCell
    <3> QED
      BY <2>3, <3>3
  <2>4. ASSUME NEW c \in Cells, NEW n \in Words, MasterWrites(c, n) PROVE Ours(t)
    <3>1. Cell(t) # c
      BY <1>1, <2>4 DEF MasterWrites, Cell
    <3> QED
      BY <1>1, <2>1, <2>4, <3>1 DEF MasterWrites, TypeOK
  <2> QED
    BY <1>1, <2>2, <2>3, <2>4 DEF Next
<1>2. Inv /\ [Next]_regs => [InstrumentStep]_regs
  BY <1>1, Zenon DEF Inv, InstrumentStep
<1> QED
  BY <1>2, Invariance, PTL DEF Spec, InstrumentsAreOurs

-------------------------------------------------------------------------------
(***************************************************************************)
(* The PLC.  Coils nobody touched since the last scan are what the inputs  *)
(* it read permit; before the first scan, the zeros permit nothing.        *)
(***************************************************************************)
CoilsFollowInputs ==
  \A r \in Racks \ touched :
    /\ permit[r] <=> Permit(seen, r)
    /\ valve[r] <=> Permit(seen, r)

PlcInv == PlcTypeOK /\ BitsAreBits /\ CoilsFollowInputs /\ RunsOnOrder

(***************************************************************************)
(* A poll finds bits, because every write to a discrete input is a bit.    *)
(***************************************************************************)
LEMMA PollFindsBits ==
  ASSUME TypeOK, BitsAreBits, NEW t \in Inputs
  PROVE  Get(t) \in {0, 1}
<1>1. t \in Tags /\ Block[t] \in Bits
  BY DEF Inputs, Bits
<1>2. Cell(t) \in Cells /\ Cell(t)[1] = Block[t]
  BY <1>1 DEF Cell, Cells
<1> QED
  BY <1>1, <1>2 DEF Get, BitsAreBits

LEMMA PlcInvariance == ASSUME Sensible, Wired PROVE PlcSpec => []PlcInv
<1>1. PlcInit => PlcInv
  <2> SUFFICES ASSUME PlcInit PROVE PlcInv
    OBVIOUS
  <2>1. TypeOK /\ BitsAreBits
    BY DEF PlcInit, Init, TypeOK, BitsAreBits, Words, Word
  <2>2. PlcTypeOK
    BY <2>1 DEF PlcInit, PlcTypeOK
  <2>3. CoilsFollowInputs
    BY DEF PlcInit, CoilsFollowInputs, Permit, Wired
  <2> QED
    BY <2>1, <2>2, <2>3 DEF PlcInit, PlcInv, RunsOnOrder
<1>2. PlcInv /\ [PlcNext]_<<regs, plc>> => PlcInv'
  <2> SUFFICES ASSUME PlcInv, [PlcNext]_<<regs, plc>> PROVE PlcInv'
    OBVIOUS
  <2>1. CASE (Next \/ UNCHANGED regs) /\ UNCHANGED plc
    <3>1. Inv'
      BY <2>1, StepKeepsWords DEF PlcInv, PlcTypeOK, Inv
    <3>2. UNCHANGED <<mirror, cmd, valve, permit, seen, touched, ordered>>
      BY <2>1 DEF plc
    <3> QED
      BY <3>1, <3>2 DEF PlcInv, PlcTypeOK, Inv, CoilsFollowInputs, RunsOnOrder, Permit
  <2>2. CASE Poll
    <3>1. mirror' \in [Inputs -> {0, 1}]
      BY <2>2, PollFindsBits DEF Poll, PlcInv, PlcTypeOK
    <3> QED
      BY <2>2, <3>1 DEF Poll, PlcInv, PlcTypeOK, TypeOK, BitsAreBits, CoilsFollowInputs,
                        RunsOnOrder, Permit
  <2>3. CASE Scan
    <3>1. /\ \A r \in Racks : Permit(seen, r)' <=> Permit(mirror, r)
          /\ \A r \in Racks : permit'[r] <=> Permit(mirror, r)
          /\ \A r \in Racks : valve'[r] <=> Permit(mirror, r)
      <4>1. \A r \in Racks : Permit(seen, r)' <=> Permit(mirror, r)
        BY <2>3 DEF Scan, Permit
      <4>2. \A r \in Racks : permit'[r] <=> Permit(mirror, r)
        BY <2>3 DEF Scan
      <4>3. \A r \in Racks : valve'[r] <=> Permit(mirror, r) /\ ~(mirror[Esd] = 1)
        BY <2>3, Zenon DEF Scan
      <4>4. \A r \in Racks : Permit(mirror, r) => mirror[Esd] # 1
        BY DEF Permit
      <4> QED
        BY <4>1, <4>2, <4>3, <4>4
    <3>2. CoilsFollowInputs'
      BY <3>1 DEF CoilsFollowInputs
    <3>3. PlcTypeOK' /\ BitsAreBits'
      <4>1. TypeOK' /\ BitsAreBits' /\ {mirror, seen}' \subseteq [Inputs -> {0, 1}]
        BY <2>3 DEF Scan, PlcInv, PlcTypeOK, TypeOK, BitsAreBits
      <4>2. permit' \in [Racks -> BOOLEAN] /\ valve' \in [Racks -> BOOLEAN]
        <5>1. \A r \in Racks : Permit(mirror, r) \in BOOLEAN
          BY DEF Permit
        <5> QED
          BY <2>3, <5>1 DEF Scan
      <4>3. cmd' \in [Commands -> BOOLEAN] /\ touched' \subseteq Racks /\ ordered' \subseteq Commands
        BY <2>3 DEF Scan, PlcInv, PlcTypeOK
      <4> QED
        BY <4>1, <4>2, <4>3 DEF PlcTypeOK
    <3>4. RunsOnOrder'
      BY <2>3 DEF Scan, PlcInv, PlcTypeOK, RunsOnOrder
    <3> QED
      BY <3>2, <3>3, <3>4 DEF PlcInv
  <2>4. ASSUME NEW c \in Commands, NEW on \in BOOLEAN, MasterCommands(c, on) PROVE PlcInv'
    BY <2>4 DEF MasterCommands, PlcInv, PlcTypeOK, TypeOK, BitsAreBits, CoilsFollowInputs,
                RunsOnOrder, Permit
  <2>5. ASSUME NEW r \in Racks, MasterWritesRack(r) PROVE PlcInv'
    BY <2>5 DEF MasterWritesRack, PlcInv, PlcTypeOK, TypeOK, BitsAreBits, CoilsFollowInputs,
                RunsOnOrder, Permit
  <2> QED
    BY <2>1, <2>2, <2>3, <2>4, <2>5 DEF PlcNext
<1> QED
  BY <1>1, <1>2, PTL DEF PlcSpec

(***************************************************************************)
(* The load valve is the permit, and the permit is what the last scan's    *)
(* inputs allow: the ESD block adds nothing to the valves.                 *)
(***************************************************************************)
THEOREM ValvesFollowPermits == ASSUME Sensible, Wired PROVE PlcSpec => []ValveIsPermit
<1>1. PlcInv => ValveIsPermit
  BY DEF PlcInv, CoilsFollowInputs, ValveIsPermit
<1> QED
  BY <1>1, PlcInvariance, PTL

(***************************************************************************)
(* No pump or outlet valve runs but on an order given since the last scan  *)
(* under ESD.                                                              *)
(***************************************************************************)
THEOREM NothingRunsUnordered == ASSUME Sensible, Wired PROVE PlcSpec => []RunsOnOrder
<1>1. PlcInv => RunsOnOrder
  BY DEF PlcInv
<1> QED
  BY <1>1, PlcInvariance, PTL

(***************************************************************************)
(* One rack is open and another closed only for the closed one's own       *)
(* inputs.                                                                 *)
(***************************************************************************)
THEOREM RacksPartByTheirOwn == ASSUME Sensible, Wired PROVE PlcSpec => []SharedInputsCloseBoth
<1>1. PlcInv => SharedInputsCloseBoth
  BY DEF PlcInv, PlcTypeOK, CoilsFollowInputs, SharedInputsCloseBoth, Permit, Wired
<1> QED
  BY <1>1, PlcInvariance, PTL

===============================================================================
