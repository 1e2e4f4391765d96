-------------------------------- MODULE RarVm --------------------------------
(***************************************************************************)
(* The virtual machine RAR 3 runs its filters on (rar/vm.c): programs are  *)
(* prepared when the stream declares them, and an invocation puts its      *)
(* globals and registers into the machine, executes the program and keeps  *)
(* the globals it leaves behind for the next invocation of that program.   *)
(*                                                                         *)
(* A word is a number; an operand is a mode, a register and a value.       *)
(***************************************************************************)
EXTENDS Integers, Sequences, FiniteSets
LOCAL INSTANCE SequencesExt
LOCAL INSTANCE FiniteSetsExt

CONSTANTS
  WordBits, ByteBits, \* 32 and 8
  NumRegisters,       \* 8; the last one is the stack pointer
  MemSize,            \* RAR_VM_MEM_SIZE, a power of two
  SysGlobal,          \* RAR_VM_SYS_GLOBAL: where the system globals are
  SysSize,            \* RAR_VM_SYS_GLOBAL_SZ; the user globals come after them
  UserSize,           \* RAR_VM_USR_GLOBAL_SZ
  Programs,           \* of each program: opcodes as the stream has them, static data
  Entries,            \* initial registers an invocation of each program may have
  UserGlobals,        \* user globals an invocation may bring along
  Positions,          \* where in the output a filter may begin
  MaxInvocations      \* for model checking: each program is among so many first ones

ASSUME RarVmAssumption ==
  /\ {WordBits, ByteBits, NumRegisters, MemSize, SysGlobal, SysSize, UserSize} \subseteq Nat
  /\ NumRegisters > 1
  /\ ByteBits > 0 /\ WordBits % ByteBits = 0
  /\ SysGlobal + SysSize + UserSize <= MemSize /\ MemSize < 2^WordBits
  \* the system's have the position first and the length of the user's last
  /\ SysSize >= 2 * (WordBits \div ByteBits)

VARIABLES
  vm,     \* registers, flags, memory, the opcode to run, and the status,
          \* "beyond" once it runs what is not the program's
  inv,    \* the invocation: its program, its globals, the registers it began with
  backup, \* global_backup of each program
  count   \* invocations so far

vmVars == <<vm, inv, backup, count>>

Modulus   == 2^WordBits
WordBytes == WordBits \div ByteBits
TopBit    == 2^(WordBits - 1)
SP        == NumRegisters - 1
Registers == 0 .. SP
Flag(b, f) == IF b THEN f ELSE 0
Carry == 1
Zero  == 2
Sign  == TopBit
Has(flags, f) == (flags \div f) % 2 = 1

-----------------------------------------------------------------------------
(* Memory and operands.  Only the first byte of a word is masked into the  *)
(* memory; three more bytes are there for the rest of a word at its end.   *)
Read8(m, addr)  == m[addr % MemSize]
Read32(m, addr) == FoldLeft(LAMBDA n, k : n * 2^ByteBits + m[(addr % MemSize) + WordBytes - k], 0, [k \in 1 .. WordBytes |-> k])
Write8(m, addr, v) == [m EXCEPT ![addr % MemSize] = v % 2^ByteBits]
Write32(m, addr, v) ==
  [a \in DOMAIN m |-> LET k == a - (addr % MemSize) IN
                      IF k \in 0 .. WordBytes - 1 THEN (v \div 2^(k * ByteBits)) % 2^ByteBits ELSE m[a]]

Reg(r)   == [mode |-> "reg", reg |-> r, value |-> 0]
Ind(r)   == [mode |-> "ind", reg |-> r, value |-> 0]
Idx(r, v) == [mode |-> "idx", reg |-> r, value |-> v]
Abs(v)   == [mode |-> "abs", reg |-> 0, value |-> v]
Imm(v)   == [mode |-> "imm", reg |-> 0, value |-> v]

AddressOf(s, op) ==
  CASE op.mode = "ind" -> s.registers[op.reg]
    [] op.mode = "idx" -> (op.value + s.registers[op.reg]) % Modulus
    [] op.mode = "abs" -> op.value

Get(s, op, byte) ==
  IF op.mode = "imm" THEN op.value
  ELSE IF op.mode = "reg" THEN s.registers[op.reg] % (IF byte THEN 2^ByteBits ELSE Modulus)
  ELSE IF byte THEN Read8(s.memory, AddressOf(s, op)) ELSE Read32(s.memory, AddressOf(s, op))

Set(s, op, byte, data) ==
  IF op.mode = "reg" THEN [s EXCEPT !.registers[op.reg] = data % (IF byte THEN 2^ByteBits ELSE Modulus)]
  ELSE IF byte THEN [s EXCEPT !.memory = Write8(@, AddressOf(s, op), data)]
  ELSE [s EXCEPT !.memory = Write32(@, AddressOf(s, op), data)]

-----------------------------------------------------------------------------
(* Which instructions there are, and what instruction_flags says of them.  *)
Logic  == {"XOR", "AND", "OR", "TEST"}
Shifts == {"SHL", "SHR", "SAR"}
Sums   == {"ADD", "SUB", "CMP", "ADC", "SBB"}
Steps  == {"INC", "DEC", "NEG"}
Moves  == {"MOV", "NOT", "XCHG", "MUL", "DIV", "MOVZX", "MOVSX"}
Jumps  == {"JZ", "JNZ", "JMP", "JS", "JNS", "JB", "JBE", "JA", "JAE"}
Stack  == {"PUSH", "POP", "CALL", "RET", "PUSHA", "POPA", "PUSHF", "POPF"}
TwoOperands == Logic \cup Shifts \cup Sums \cup (Moves \ {"NOT"})
NoOperand   == {"RET", "PUSHA", "POPA", "PUSHF", "POPF", "PRINT"}
NumOperands(ins) == IF ins \in TwoOperands THEN 2 ELSE IF ins \in NoOperand THEN 0 ELSE 1
HasByteMode(ins) == ins \in (Logic \cup Shifts \cup Sums \cup Steps \cup Moves) \ {"MOVZX", "MOVSX"}
WritesFirst(ins) == ins \in (Logic \cup Shifts \cup Sums \cup Steps \cup Moves) \ {"CMP", "TEST"}

IsUnconditionalJump(ins) == ins \in {"JZ", "RET"}

(* What a jump's immediate operand, read at opcode offset, leads to: the    *)
(* opcode 256 less, or one so many on or, in two ranges, back.             *)
RelativeTarget(value, offset) ==
  IF value >= 256 THEN value - 256
  ELSE (offset + (IF value >= 136 THEN value - 264 ELSE IF value >= 16 THEN value - 8
                  ELSE IF value >= 8 THEN value - 16 ELSE value)) % Modulus

ParsedOpcode(op, offset) ==
  IF op.ins \in Jumps \cup {"CALL"} /\ op.op1.mode = "imm"
    THEN [op EXCEPT !.op1.value = RelativeTarget(@, offset)] ELSE op

IsTerminated(opcodes) == opcodes # <<>> /\ IsUnconditionalJump(Last(opcodes).ins)

Ret == [ins |-> "RET", byte |-> FALSE, op1 |-> Imm(0), op2 |-> Imm(0)]

(* rar_vm_program_create appends a RET to what does not end by itself.     *)
ProgramCreate ==
  [p \in DOMAIN Programs |->
     LET read == [k \in DOMAIN Programs[p].opcodes |-> ParsedOpcode(Programs[p].opcodes[k], k - 1)]
     IN  <<>> \o (IF IsTerminated(read) THEN read ELSE Append(read, Ret))]

Opcodes(p) == ProgramCreate[p]

(* rar_vm_prepare_opcodes refuses what the instruction's properties do not *)
(* allow; the properties allow an exchange of bytes, for which there is no *)
(* routine.                                                                *)
HasRoutine(op) == ~(op.ins = "XCHG" /\ op.byte)
Prepared(p) ==
  \A i \in DOMAIN Opcodes(p) :
    LET op == Opcodes(p)[i] IN
    /\ op.byte => HasByteMode(op.ins)
    /\ NumOperands(op.ins) > 0 /\ op.op1.mode = "imm" => ~WritesFirst(op.ins)
    /\ op.ins = "XCHG" => op.op2.mode # "imm"

-----------------------------------------------------------------------------
(* The instructions.  a and b are the operands, c is the carry.            *)
Bitwise2(ones, a, b) ==
  FoldLeft(LAMBDA n, k : n + Flag(<<(a \div 2^(k - 1)) % 2, (b \div 2^(k - 1)) % 2>> \in ones, 2^(k - 1)),
           0, [k \in 1 .. WordBits |-> k])

Signed(a) == IF a >= TopBit THEN a - Modulus ELSE a
(* A shift by the whole width or more, undefined in C, is one by the rest, *)
(* as the processor does it.                                               *)
By(b) == b % WordBits

(* SUB and CMP of bytes, alone among the byte instructions that set flags, *)
(* keep the upper bits of the difference in their flags.                   *)
Kept(ins, byte) == IF byte /\ ins \notin {"SUB", "CMP"} THEN 2^ByteBits ELSE Modulus

Result(ins, byte, a, b, c) ==
  (CASE ins = "ADD" -> a + b
     [] ins = "ADC" -> a + b + c
     [] ins \in {"SUB", "CMP"} -> a - b
     [] ins = "SBB" -> a - b - c
     [] ins = "XOR" -> Bitwise2({<<0, 1>>, <<1, 0>>}, a, b)
     [] ins \in {"AND", "TEST"} -> Bitwise2({<<1, 1>>}, a, b)
     [] ins = "OR"  -> Bitwise2({<<0, 1>>, <<1, 0>>, <<1, 1>>}, a, b)
     [] ins = "SHL" -> a * 2^By(b)
     [] ins = "SHR" -> a \div 2^By(b)
     [] ins = "SAR" -> Signed(a) \div 2^By(b)
     [] ins = "INC" -> a + 1
     [] ins = "DEC" -> a - 1
     [] ins = "NEG" -> -a) % (IF ins \in Sums \cup {"INC", "DEC"} THEN Kept(ins, byte) ELSE Modulus)

(* Faulty: a carry that only shows in the result.                          *)
CarryForgotten(ins, a, b, c, r) == IF ins \in {"ADD", "ADC"} THEN r < a ELSE r > a

CarryOf(ins, a, b, c, r) ==
  CASE ins = "ADD" -> r < a
    [] ins = "ADC" -> r < a \/ (r = a /\ c = 1)
    [] ins \in {"SUB", "CMP"} -> r > a
    [] ins = "SBB" -> r > a \/ (r = a /\ c = 1)
    [] ins = "SHL" -> (a * 2^By(b - 1)) % Modulus >= TopBit
    [] ins \in {"SHR", "SAR"} -> (a \div 2^By(b - 1)) % 2 = 1
    [] ins = "NEG" -> r # 0
    [] OTHER -> FALSE

FlagsOf(ins, byte, r, carry) ==
  Flag(carry, Carry) +
  (IF r = 0 THEN Zero
   ELSE Flag(r >= (IF byte /\ ins = "ADD" THEN 2^(ByteBits - 1) ELSE TopBit), Sign))

Compute(s, op) ==
  LET a == Get(s, op.op1, op.byte)
      b == IF op.ins \in Steps THEN 0 ELSE Get(s, op.op2, op.byte)
      c == Flag(Has(s.flags, Carry), 1)
      r == Result(op.ins, op.byte, a, b, c)
      flagged == [s EXCEPT !.flags = FlagsOf(op.ins, op.byte, r, CarryOf(op.ins, a, b, c, r))]
  IN  IF WritesFirst(op.ins) THEN Set(flagged, op.op1, op.byte, r) ELSE flagged

SignExtend(b) == IF b % 2^ByteBits >= 2^(ByteBits - 1) THEN (b % 2^ByteBits) - 2^ByteBits + Modulus ELSE b % 2^ByteBits

Transfer(s, op) ==
  LET a == Get(s, op.op1, op.byte)
      b == Get(s, op.op2, op.byte)
  IN  CASE op.ins = "MOV" -> Set(s, op.op1, op.byte, b)
        [] op.ins = "NOT" -> Set(s, op.op1, op.byte, Modulus - 1 - a)
        [] op.ins = "XCHG" -> Set(Set(s, op.op1, op.byte, b), op.op2, op.byte, a)
        [] op.ins = "MUL" -> Set(s, op.op1, op.byte, a * b)
        [] op.ins = "DIV" -> IF b = 0 THEN s ELSE Set(s, op.op1, op.byte, a \div b)
        [] op.ins = "MOVZX" -> Set(s, op.op1, FALSE, Get(s, op.op2, TRUE))
        [] op.ins = "MOVSX" -> Set(s, op.op1, FALSE, SignExtend(Get(s, op.op2, TRUE)))

Goto(s, target) == IF target >= Len(Opcodes(inv.program)) THEN [s EXCEPT !.status = "failed"]
                   ELSE [s EXCEPT !.opcode = target]

Taken(ins, flags) ==
  CASE ins = "JMP" -> TRUE
    [] ins = "JZ"  -> Has(flags, Zero)  [] ins = "JNZ" -> ~Has(flags, Zero)
    [] ins = "JS"  -> Has(flags, Sign)  [] ins = "JNS" -> ~Has(flags, Sign)
    [] ins = "JB"  -> Has(flags, Carry) [] ins = "JAE" -> ~Has(flags, Carry)
    [] ins = "JBE" -> Has(flags, Carry) \/ Has(flags, Zero)
    [] ins = "JA"  -> ~(Has(flags, Carry) \/ Has(flags, Zero))

(* NextInstruction does not look whether there is one.                     *)
Advance(s) == [s EXCEPT !.opcode = @ + 1,
                        !.status = IF s.opcode + 1 = Len(Opcodes(inv.program)) THEN "beyond" ELSE @]

MoveSP(s, n)   == [s EXCEPT !.registers[SP] = (@ + n * WordBytes) % Modulus]
Push(s, v)     == [s EXCEPT !.memory = Write32(@, s.registers[SP], v)]
Top(s)         == Read32(s.memory, s.registers[SP])

SlotOf(s, r)   == s.registers[SP] - WordBytes - r * WordBytes + Modulus
PushAll(s) ==
  MoveSP([s EXCEPT !.memory = FoldLeft(LAMBDA m, r : Write32(m, SlotOf(s, r - 1), s.registers[r - 1]),
                                       @, [r \in 1 .. NumRegisters |-> r])], -NumRegisters)
(* Faulty: in the order of the registers.                                  *)
PopInOrder(s) ==
  [s EXCEPT !.registers = [r \in Registers |-> Read32(s.memory, s.registers[SP] + r * WordBytes)]]

PopAll(s) ==
  [s EXCEPT !.registers = [r \in Registers |->
     Read32(s.memory, s.registers[SP] + (NumRegisters - 1 - r) * WordBytes)]]

OnStack(s, op) ==
  LET below == MoveSP(s, -1) IN
  CASE op.ins = "PUSH" -> Advance(Push(below, Get(below, op.op1, FALSE)))
    [] op.ins = "POP"  -> Advance(MoveSP(Set(s, op.op1, FALSE, Top(s)), 1))
    [] op.ins = "PUSHF" -> Advance(Push(below, s.flags))
    [] op.ins = "POPF"  -> Advance(MoveSP([s EXCEPT !.flags = Top(s)], 1))
    [] op.ins = "PUSHA" -> Advance(PushAll(s))
    [] op.ins = "POPA"  -> Advance(PopAll(s))
    [] op.ins = "CALL" -> LET called == Push(below, s.opcode + 1) IN Goto(called, Get(called, op.op1, FALSE))
    [] op.ins = "RET"  -> IF s.registers[SP] >= MemSize THEN [s EXCEPT !.status = "done"]
                          ELSE Goto(MoveSP(s, 1), Top(s))

Current == Opcodes(inv.program)[vm.opcode + 1]

Step ==
  /\ vm.status = "running"
  /\ LET op == Current IN
     vm' = IF ~HasRoutine(op) THEN [vm EXCEPT !.status = "beyond"]
           ELSE IF op.ins \in Logic \cup Shifts \cup Sums \cup Steps THEN Advance(Compute(vm, op))
           ELSE IF op.ins \in Moves THEN Advance(Transfer(vm, op))
           ELSE IF op.ins \in Stack THEN OnStack(vm, op)
           ELSE IF op.ins \in Jumps /\ Taken(op.ins, vm.flags) THEN Goto(vm, Get(vm, op.op1, FALSE))
           ELSE Advance(vm)
  /\ UNCHANGED <<inv, backup, count>>

-----------------------------------------------------------------------------
(* Invocations.                                                            *)
Bytes(m, from, n) == <<>> \o [k \in 1 .. n |-> m[from + k - 1]]
PutBytes(m, from, bytes) ==
  [a \in DOMAIN m |-> IF a - from + 1 \in DOMAIN bytes THEN bytes[a - from + 1] ELSE m[a]]

Shortened(bytes, n) == SubSeq(bytes, 1, Min({Len(bytes), n}))
WordAt(bytes, from, v) == [k \in DOMAIN bytes |-> IF k - from \in 1 .. WordBytes THEN (v \div 2^((k - from - 1) * ByteBits)) % 2^ByteBits
                                                 ELSE bytes[k]]

(* rar_filter30_execute: the globals are those the program left last, or   *)
(* those that came with the filter, with the position put in; no more than *)
(* the system's are written, then the static data.                         *)
Invocable(p) == vm.status \notin {"running", "beyond"} /\ count < MaxInvocations[p] /\ Prepared(p)
Invoke(p, registers, user, pos) ==
  /\ Invocable(p)
  /\ LET given   == [k \in 1 .. SysSize |-> 0] \o user
         globals == WordAt(IF Len(backup[p]) > SysSize THEN backup[p] ELSE given, 0, pos)
         entry   == [registers EXCEPT ![SP - 1] = pos]
         system  == PutBytes(vm.memory, SysGlobal, Shortened(globals, SysSize))
     IN  /\ inv' = [program |-> p, globals |-> globals, entry |-> entry]
         /\ vm' = [registers |-> entry, flags |-> 0, opcode |-> 0, status |-> "running",
                   memory |-> PutBytes(system, SysGlobal + SysSize, Shortened(Programs[p].data, UserSize - SysSize))]
  /\ count' = count + 1
  /\ UNCHANGED backup

(* Faulty: keeps the globals it was given.                                 *)
FinishUnread ==
  /\ vm.status = "done"
  /\ backup' = [backup EXCEPT ![inv.program] = IF Len(inv.globals) > SysSize THEN inv.globals ELSE <<>>]
  /\ vm' = [vm EXCEPT !.status = "idle"]
  /\ UNCHANGED <<inv, count>>

(* The program says how many user globals it left; none at all leaves the  *)
(* invocation without any.                                                 *)
Finish ==
  /\ vm.status = "done"
  /\ LET size    == Min({UserSize, Read32(vm.memory, SysGlobal + SysSize - WordBytes)})
         globals == IF size = 0 THEN <<>> ELSE Bytes(vm.memory, SysGlobal, SysSize + size)
     IN  /\ inv' = [inv EXCEPT !.globals = globals]
         /\ backup' = [backup EXCEPT ![inv.program] = IF Len(globals) > SysSize THEN globals ELSE <<>>]
  /\ vm' = [vm EXCEPT !.status = "idle"]
  /\ UNCHANGED count

VmInit ==
  /\ vm = [registers |-> [r \in Registers |-> 0], flags |-> 0, opcode |-> 0, status |-> "idle",
           memory |-> [a \in 0 .. MemSize + WordBytes - 2 |-> 0]]
  /\ inv = [program |-> CHOOSE p \in DOMAIN Programs : TRUE, globals |-> <<>>, entry |-> [r \in Registers |-> 0]]
  /\ backup = [p \in DOMAIN Programs |-> <<>>]
  /\ count = 0

VmNext ==
  \/ \E p \in {p \in DOMAIN Programs : Invocable(p)}, user \in UserGlobals, pos \in Positions :
       \E registers \in Entries[p] : Invoke(p, registers, user, pos)
  \/ Step
  \/ Finish

VmSpec == VmInit /\ [][VmNext]_vmVars
=============================================================================
