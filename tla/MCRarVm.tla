------------------------------- MODULE MCRarVm -------------------------------
(***************************************************************************)
(* A library of programs for RarVm, what each computes, and the machine of *)
(* 8-bit words of two 4-bit bytes they run on: work area 0..15, system     *)
(* globals 16..19, user globals 20..27, stack below 64.                    *)
(***************************************************************************)
EXTENDS RarVm

Op(ins, op1, op2)  == [ins |-> ins, byte |-> FALSE, op1 |-> op1, op2 |-> op2]
OpB(ins, op1, op2) == [ins |-> ins, byte |-> TRUE, op1 |-> op1, op2 |-> op2]
None == Imm(0)
To(target) == Imm(256 + target)
User    == Abs(20)
UserLen == Abs(18)
Code(opcodes) == [opcodes |-> opcodes, data |-> <<>>]

Library ==
  [longSum |-> Code(<<Op("ADD", Reg(0), Reg(2)), Op("ADC", Reg(1), Reg(3))>>),
   longDifference |-> Code(<<Op("SUB", Reg(0), Reg(2)), Op("SBB", Reg(1), Reg(3))>>),
   byteSum |-> Code(<<OpB("ADD", Reg(0), Reg(2)), OpB("ADC", Reg(1), Reg(3))>>),
   byteDifference |-> Code(<<OpB("SUB", Reg(0), Reg(2)), OpB("SBB", Reg(1), Reg(3))>>),
   order |-> Code(<<Op("CMP", Reg(0), Reg(1)), Op("JBE", Imm(2), None), Op("XCHG", Reg(0), Reg(1))>>),
   signed |-> Code(<<Op("MOV", Reg(2), Reg(0)), Op("TEST", Reg(2), Imm(255)), Op("JNS", To(4), None), Op("NEG", Reg(2), None),
                     Op("SAR", Reg(0), Imm(7)), Op("NOT", Reg(1), None), Op("INC", Reg(1), None)>>),
   product |-> Code(<<Op("XOR", Reg(2), Reg(2)), Op("MOV", Reg(3), Reg(1)), Op("OR", Reg(3), Reg(3)), Op("JZ", Imm(4), None),
                      Op("ADD", Reg(2), Reg(0)), Op("DEC", Reg(3), None), Op("JNZ", Imm(14), None), Op("MUL", Reg(0), Reg(1))>>),
   quotient |-> Code(<<Op("MOV", Reg(2), Reg(0)), Op("DIV", Reg(2), Reg(1)), Op("MOV", Reg(3), Reg(2)),
                       Op("MUL", Reg(3), Reg(1)), Op("SUB", Reg(0), Reg(3))>>),
   shifts |-> Code(<<Op("MOV", Ind(3), Reg(0)), Op("SHL", Reg(0), Reg(2)), Op("ADC", Reg(1), Imm(0)),
                     OpB("MOV", Reg(3), Abs(1)), Op("MOVSX", Reg(2), Reg(3))>>),
   subroutine |-> Code(<<Op("PUSHA", None, None), Op("CALL", Imm(3), None), Op("POPA", None, None), Op("RET", None, None),
                         Op("PUSH", Reg(1), None), Op("PUSHF", None, None), Op("MOV", Reg(1), Imm(7)), Op("POPF", None, None),
                         Op("POP", Reg(0), None), Op("JA", To(10), None), Op("MOVZX", Reg(2), Idx(0, 5)), Op("AND", Reg(3), Imm(9)),
                         Op("JAE", To(14), None), Op("PRINT", None, None), Op("RET", None, None)>>),
   counter |-> Code(<<Op("INC", User, None), Op("MOV", UserLen, Imm(2)), Op("MOV", Abs(22), Reg(4))>>),
   statics |-> [opcodes |-> <<OpB("INC", User, None), Op("MOV", UserLen, Imm(200))>>, data |-> <<5, 6, 7, 8, 9>>],
   forgetful |-> Code(<<Op("MOV", User, Imm(3)), Op("MOV", UserLen, Imm(0)), Op("JMP", To(4), None), Op("JB", To(4), None),
                        Op("JS", To(5), None)>>),
   astray |-> Code(<<Op("INC", User, None), Op("JMP", To(40), None)>>),
   refused |-> Code(<<Op("MOV", Imm(1), Reg(0))>>)]

MCPrograms == Library

(* A program that tests for zero last, which the flags table calls an      *)
(* unconditional jump.                                                     *)
JumpLast == [loop |-> Code(<<Op("DEC", Reg(0), None), Op("TEST", Reg(0), Reg(1)), Op("JZ", To(0), None)>>)]

Start(r0, r1, r2, r3) == <<r0, r1, r2, r3, 0, MemSize>>
AsRegisters(s) == [r \in Registers |-> s[r + 1]]
Words == {0, 1, 128, 255}
Bytes4 == {0, 1, 15}
Some  == {0, 1, 3, 100, 127, 128, 254, 255}

LibraryEntries ==
  [p \in DOMAIN Library |->
     {AsRegisters(s) : s \in
        CASE p \in {"longSum", "longDifference"} -> {Start(a, b, c, d) : a, b, c, d \in Words}
          [] p \in {"byteSum", "byteDifference"} -> {Start(a, b, c, d) : a, b, c, d \in Bytes4}
          [] p \in {"order", "quotient", "signed"} -> {Start(a, b, 0, 0) : a, b \in Some}
          [] p = "product" -> {Start(a, b, 9, 9) : a \in Some, b \in 0 .. 3}
          [] p = "shifts" -> {Start(a, 0, b, 0) : a \in Some, b \in 1 .. 7}
          [] p = "subroutine" -> {Start(a, b, 9, 9) : a \in Some, b \in {0, 255}}
          [] OTHER -> {Start(0, 0, 0, 0)}}]

JumpLastEntries == [p \in DOMAIN JumpLast |-> {AsRegisters(Start(a, b, 0, 0)) : a, b \in Some}]

MCUserGlobals == {<<>>, <<9, 9, 9>>}
MCInvocations == [p \in DOMAIN Library |-> IF p \in {"counter", "statics", "forgetful", "astray", "refused"} THEN 3 ELSE 1]
OneInvocation == [p \in DOMAIN JumpLast |-> 1]

-----------------------------------------------------------------------------
Two(lo, hi, modulus) == lo + hi * modulus

(* Each program leaves in its registers what it computes from those it     *)
(* began with, over every branch, carry and call.                          *)
ProgramsComputeTheirResults ==
  vm.status = "done" =>
    LET r == vm.registers
        e == inv.entry
        mod(x, m) == ((x % m) + m) % m
    IN  CASE inv.program = "longSum" ->
               Two(r[0], r[1], 256) = mod(Two(e[0], e[1], 256) + Two(e[2], e[3], 256), 65536)
          [] inv.program = "longDifference" ->
               Two(r[0], r[1], 256) = mod(Two(e[0], e[1], 256) - Two(e[2], e[3], 256), 65536)
          [] inv.program = "byteSum" ->
               Two(r[0], r[1], 16) = mod(Two(e[0], e[1], 16) + Two(e[2], e[3], 16), 256)
          [] inv.program = "byteDifference" ->
               Two(r[0], r[1], 16) = mod(Two(e[0], e[1], 16) - Two(e[2], e[3], 16), 256)
          [] inv.program = "order" -> r[0] <= r[1] /\ {r[0], r[1]} = {e[0], e[1]}
          [] inv.program = "signed" ->
               /\ r[2] = IF Signed(e[0]) < 0 THEN -Signed(e[0]) ELSE Signed(e[0])
               /\ r[0] = IF Signed(e[0]) < 0 THEN 255 ELSE 0
               /\ r[1] = mod(-e[1], 256)
          [] inv.program = "product" -> r[2] = r[0] /\ r[0] = mod(e[0] * e[1], 256)
          [] inv.program = "quotient" -> e[1] > 0 => r[2] = e[0] \div e[1] /\ r[0] = e[0] % e[1]
          [] inv.program = "shifts" ->
               /\ r[0] = (e[0] * 2^e[2]) % 256
               /\ r[1] = ((e[0] * 2^e[2]) \div 256) % 2
               /\ mod(r[2], 16) = e[0] \div 16 /\ Signed(r[2]) \in -8 .. 7
          [] inv.program = "subroutine" -> r = e
          [] OTHER -> r[SP] = MemSize

(* The carry of a sum or difference says whether the exact result left the *)
(* range, zero and, for words, sign whether the result is zero or negative.*)
FlagsAreExact ==
  [][LET op == Current
         a  == Get(vm, op.op1, op.byte)
         b  == Get(vm, op.op2, op.byte)
         c  == IF op.ins \in {"ADC", "SBB"} THEN vm.flags % 2 ELSE 0
         m  == IF op.byte THEN 2^ByteBits ELSE Modulus
         exact == IF op.ins \in {"ADD", "ADC"} THEN a + b + c ELSE a - b - c
     IN  vm.status = "running" /\ op.ins \in Sums =>
           /\ Has(vm'.flags, Carry) <=> exact \notin 0 .. m - 1
           /\ Has(vm'.flags, Zero) <=> exact % m = 0
           /\ ~op.byte => (Has(vm'.flags, Sign) <=> exact % m >= TopBit)]_vm

(* A program finds the globals it left last, whatever the stream brings    *)
(* with the new filter; in the memory they are those only if no program    *)
(* ran in between.                                                         *)
GlobalsAreFoundAgain ==
  [][count' # count =>
       LET p   == inv'.program
           left == backup[p]
           user(globals) == SubSeq(globals, SysSize + 1, Len(globals))
       IN  Len(left) > SysSize =>
             /\ user(inv'.globals) = user(left)
             /\ vm.status = "idle" /\ inv.program = p /\ Programs[p].data = <<>> =>
                  Bytes(vm'.memory, SysGlobal + SysSize, Len(user(left))) = user(left)]_vmVars

(* What programs branch on and what they leave for later is true.          *)
FlagsAndGlobalsAreTrue == FlagsAreExact /\ GlobalsAreFoundAgain

(* The machine stays in the program (rar_vm_program_create appends a RET   *)
(* "if program doesn't end with an unconditional jump", vm.c:1194).        *)
StaysInProgram == vm.status # "beyond"
=============================================================================
