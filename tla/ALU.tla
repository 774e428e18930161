-------------------------------- MODULE ALU --------------------------------
(***************************************************************************)
(* The ALU simulator, alu_simulation: main reads instructions from a file, *)
(* MIPS_Decode takes them apart and ALUSimulator executes them on a file   *)
(* of 32 registers.  An int is WordSize bits wide.                         *)
(***************************************************************************)
EXTENDS Integers, FiniteSets, Bitwise

CONSTANTS
  WordSize,      \* bits of an int: 32
  Instructions,  \* the instructions a file may have
  MaxExecuted    \* bound: instructions executed

Word == 0..(2 ^ WordSize - 1)
Registers == 0..31
ASSUME ALUAssumption ==
  /\ WordSize \in Nat \ {0} /\ MaxExecuted \in Nat
  /\ Instructions \subseteq Nat

VARIABLES
  regs,      \* Primary_RegisterFile
  instr,     \* aMIPS_Instruction, or -1 before any was read
  executed,  \* how many were executed
  phase      \* "runs", "stuck" at a token that is no number, "trapped" or "ended"

aluVars == <<regs, instr, executed, phase>>

LO == 30
HI == 31
Wrap(n) == n % 2 ^ WordSize
Truth(b) == IF b THEN 1 ELSE 0

Field(i, offset, width) == (i \div 2 ^ offset) % 2 ^ width

MIPS_Decode(i) ==
  [ImmediateValue |-> Field(i, 0, 16), FunctionCode |-> Field(i, 0, 6),
   ShiftAmt |-> Field(i, 6, 5), Rd |-> Field(i, 11, 5), Rt |-> Field(i, 16, 5),
   Rs |-> Field(i, 21, 5), OpCode |-> Field(i, 26, 6)]

\* C leaves open what a shift by the width or more does: the processor takes
\* the amount modulo the width, or every bit is shifted out.
Amounts(n) == IF n < WordSize THEN {n} ELSE {n % WordSize, WordSize}
ShiftLeft(v, n) == {Wrap(v * 2 ^ k) : k \in Amounts(n)}
ShiftRight(v, n) == {v \div 2 ^ k : k \in Amounts(n)}

\* What an R-type instruction may write to Rd, if it writes there.
ToRd(d, s, t) ==
  CASE d.FunctionCode = \h00 -> ShiftLeft(t, d.ShiftAmt)
    [] d.FunctionCode \in {\h02, \h03} -> ShiftRight(t, d.ShiftAmt)
    [] d.FunctionCode = \h04 -> ShiftLeft(t, s)
    [] d.FunctionCode = \h06 -> ShiftRight(t, s)
    [] d.FunctionCode = \h10 -> {HI}
    [] d.FunctionCode = \h12 -> {LO}
    [] d.FunctionCode \in {\h20, \h21} -> {Wrap(s + t)}
    [] d.FunctionCode \in {\h22, \h23} -> {Wrap(s - t)}
    [] d.FunctionCode = \h24 -> {s & t}
    [] d.FunctionCode = \h25 -> {s | t}
    [] d.FunctionCode = \h26 -> {s ^^ t}
    [] d.FunctionCode \in {\h2A, \h2B} -> {Truth(s < t)}
    [] OTHER -> {}

\* What an I-type instruction writes to Rt, if it writes there.
ToRt(d, s) ==
  CASE d.OpCode \in {\h08, \h09} -> {Wrap(s + d.ImmediateValue)}
    [] d.OpCode \in {10, 11} -> {Truth(s < d.ImmediateValue)}
    [] OTHER -> {}

DividesIn(d) == d.OpCode = 0 /\ d.FunctionCode \in {\h19, \h1A, \h1B}

RegisterFile_Write(addr, value) == regs' = [regs EXCEPT ![addr] = value]
-----------------------------------------------------------------------------
\* main writes five registers of the zeroed file.
ALUInit ==
  /\ regs = [r \in Registers |-> CASE r = 1 -> \h05 [] r = 2 -> \h10 [] r = 3 -> \h17
                                   [] r = 4 -> Wrap(\h390) [] r = 5 -> Wrap(\h1010)
                                   [] OTHER -> 0]
  /\ instr = -1 /\ executed = 0 /\ phase = "runs"

\* Mutant: the remainder is written first, over what is still to be divided.
Divide_HIFirst(d, s, t) ==
  /\ d.OpCode = 0 /\ d.FunctionCode \in {\h1A, \h1B} /\ t # 0
  /\ LET written == [regs EXCEPT ![HI] = s % t]
     IN regs' = [written EXCEPT ![LO] = written[d.Rs] \div t]

\* DIV and DIVU.
Divide(d, s, t) ==
  /\ d.OpCode = 0 /\ d.FunctionCode \in {\h1A, \h1B} /\ t # 0
  /\ regs' = [regs EXCEPT ![LO] = s \div t, ![HI] = s % t]

\* MULT keeps the low word; MULTU divides.
Multiply(d, s, t) ==
  /\ d.OpCode = 0
  /\ \/ d.FunctionCode = \h18 /\ RegisterFile_Write(LO, Wrap(s * t))
     \/ d.FunctionCode = \h19 /\ t # 0 /\ RegisterFile_Write(LO, s \div t)

\* ALUSimulator. Both operands are read before anything is written, and a
\* division by zero traps.
ALUSimulator(d) ==
  LET s == regs[d.Rs]
      t == regs[d.Rt]
  IN \/ d.OpCode = 0 /\ (\E v \in ToRd(d, s, t) : RegisterFile_Write(d.Rd, v)) /\ UNCHANGED phase
     \/ d.OpCode # 0 /\ (\E v \in ToRt(d, s) : RegisterFile_Write(d.Rt, v)) /\ UNCHANGED phase
     \/ Multiply(d, s, t) /\ UNCHANGED phase
     \/ Divide(d, s, t) /\ UNCHANGED phase
     \/ DividesIn(d) /\ t = 0 /\ phase' = "trapped" /\ UNCHANGED regs
     \/ /\ ~ DividesIn(d) /\ ~ (d.OpCode = 0 /\ d.FunctionCode = \h18)
        /\ IF d.OpCode = 0 THEN ToRd(d, s, t) = {} ELSE ToRt(d, s) = {}
        /\ UNCHANGED <<regs, phase>>

Execute(i) ==
  /\ executed < MaxExecuted
  /\ instr' = i /\ executed' = executed + 1
  /\ ALUSimulator(MIPS_Decode(i))

\* fscanf reads a number; meets a token that is none, which it does not get
\* past, so that main runs the instruction it has, or whatever was in its
\* variable, again and again; or meets the end of the file.
ReadNumber == phase = "runs" /\ \E i \in Instructions : Execute(i)
ReadBadToken == phase = "runs" /\ phase' = "stuck" /\ UNCHANGED <<regs, instr, executed>>
Again ==
  /\ phase = "stuck"
  /\ \E i \in IF instr = -1 THEN Instructions ELSE {instr} : Execute(i)
ReadEOF == phase = "runs" /\ phase' = "ended" /\ UNCHANGED <<regs, instr, executed>>

ALUNext == ReadNumber \/ ReadBadToken \/ Again \/ ReadEOF

ALUSpec == ALUInit /\ [][ALUNext]_aluVars
-----------------------------------------------------------------------------
\* Properties.

\* A word as the set of its bits that are one.
Bits(v) == {b \in 0..(WordSize - 1) : Field(v, b, 1) = 1}
Left(B, n) == {b + n : b \in B} \intersect (0..(WordSize - 1))
Right(B, n) == {b - n : b \in B} \intersect Nat

\* What the codes that write Rd are named for, in terms of bits and of
\* arithmetic modulo the word: r is right for the operands s and t, all of them
\* unsigned, in SRA and SLT too.  A shift by the width or more is left open, as
\* C leaves it.
RightR(d, s, t, r) ==
  CASE d.FunctionCode = \h00 -> Bits(r) = Left(Bits(t), d.ShiftAmt)
    [] d.FunctionCode \in {\h02, \h03} -> Bits(r) = Right(Bits(t), d.ShiftAmt)
    [] d.FunctionCode = \h04 -> s < WordSize => Bits(r) = Left(Bits(t), s)
    [] d.FunctionCode = \h06 -> s < WordSize => Bits(r) = Right(Bits(t), s)
    [] d.FunctionCode \in {\h20, \h21} -> (r - s - t) % 2 ^ WordSize = 0
    [] d.FunctionCode \in {\h22, \h23} -> (r + t - s) % 2 ^ WordSize = 0
    [] d.FunctionCode = \h24 -> Bits(r) = Bits(s) \intersect Bits(t)
    [] d.FunctionCode = \h25 -> Bits(r) = Bits(s) \union Bits(t)
    [] d.FunctionCode = \h26 -> Bits(r) = (Bits(s) \ Bits(t)) \union (Bits(t) \ Bits(s))
    [] d.FunctionCode \in {\h2A, \h2B} -> r \in {0, 1} /\ (r = 1 <=> s < t)
    [] OTHER -> TRUE

RightI(d, s, r) ==
  IF d.OpCode \in {\h08, \h09} THEN (r - s - d.ImmediateValue) % 2 ^ WordSize = 0
  ELSE r \in {0, 1} /\ (r = 1 <=> s < d.ImmediateValue)

\* The codes that do not do what they are named for: MFHI, MFLO and MULTU.
Misnamed == {\h10, \h12, \h19}

\* Of every instruction executed but those in Misnamed: what its operands were
\* when it began decides what is written, even when it writes over them;
\* quotient and remainder are those of one division.  Of every instruction: no
\* other register changes, and a code that is unknown changes none.  What
\* Misnamed write is compared with what is said of it in DoesAsCommented.
ComputesWhatItNames ==
  [][executed' # executed /\ phase' # "trapped" =>
       LET d == MIPS_Decode(instr')
           s == regs[d.Rs]
           t == regs[d.Rt]
           f == d.FunctionCode
           OnlyIn(R) == \A r \in Registers \ R : regs'[r] = regs[r]
       IN /\ \A r \in Registers : regs'[r] \in Word
          /\ d.OpCode = 0 =>
               CASE f \in {\h1A, \h1B} ->
                      OnlyIn({LO, HI}) /\ regs'[LO] * t + regs'[HI] = s /\ regs'[HI] < t
                 [] f = \h18 -> OnlyIn({LO}) /\ (regs'[LO] - s * t) % 2 ^ WordSize = 0
                 [] f \in Misnamed -> OnlyIn({IF f = \h19 THEN LO ELSE d.Rd})
                 [] f \in {0} \union (2..4) \union {6} \union (\h20..\h26) \union {\h2A, \h2B} ->
                      OnlyIn({d.Rd}) /\ RightR(d, s, t, regs'[d.Rd])
                 [] OTHER -> OnlyIn({})
          /\ d.OpCode # 0 =>
               IF d.OpCode \in 8..11 THEN OnlyIn({d.Rt}) /\ RightI(d, s, regs'[d.Rt])
               ELSE OnlyIn({})]_aluVars

\* What the comments say of five instructions: MFHI and MFLO write what HI and
\* LO hold to Rd (lines 108, 114), MULTU multiplies (line 125), and SLTI and
\* SLTIU shift to the left by the immediate value (lines 261, 269).
DoesAsCommented ==
  [][executed' # executed /\ phase' # "trapped" =>
       LET d == MIPS_Decode(instr')
           s == regs[d.Rs]
           t == regs[d.Rt]
       IN /\ d.OpCode = 0 /\ d.FunctionCode = \h10 => regs'[d.Rd] = regs[HI]
          /\ d.OpCode = 0 /\ d.FunctionCode = \h12 => regs'[d.Rd] = regs[LO]
          /\ d.OpCode = 0 /\ d.FunctionCode = \h19 => regs'[LO] = Wrap(s * t)
          /\ d.OpCode \in {10, 11} => regs'[d.Rt] \in ShiftLeft(s, d.ImmediateValue)]_aluVars
=============================================================================
