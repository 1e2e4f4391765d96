------------------------------- MODULE ZooLzd -------------------------------
(***************************************************************************)
(* The resumable LZW decoder of Zoo's method 1 (zoo/lzd.c) with the caller *)
(* that drives it: feed a chunk, drain into buffers of any size until      *)
(* nothing more comes out, feed the next chunk (tests/zoo/lzd.cpp).  The   *)
(* input may end, and the output buffer may be full, anywhere: between the *)
(* bytes of a code, between a CLEAR and its literal, inside a string.      *)
(*                                                                         *)
(* The encoder is not in the repository.  It is the environment here: it   *)
(* sends any code the decoder can know, at the width the format calls for, *)
(* a CLEAR always followed by a literal, and EOF last.                     *)
(***************************************************************************)
EXTENDS BitStrings

CONSTANTS
  Literals, \* 256
  MinBits,  \* width of the first codes: 9
  MAXBITS,  \* 13
  ByteBits, \* bits in a byte of input: 8
  Chunks,   \* sizes, in bytes, of the chunks the caller feeds
  OutLens,  \* sizes of the buffers the caller drains into
  Ahead,    \* bits not yet fed at which the encoder waits, for model checking
  MaxCodes  \* codes sent before EOF, for model checking

ASSUME LzdAssumption ==
  /\ {Literals, MinBits, MAXBITS, ByteBits} \subseteq Nat \ {0}
  /\ MinBits <= MAXBITS /\ 2 ^ MinBits >= Literals + 2
  \* so that the padding of the last byte is never a code
  /\ ByteBits <= MinBits
  /\ Chunks \subseteq Nat /\ OutLens \subseteq Nat

CLEAR      == Literals
Z_EOF      == Literals + 1
FIRST_FREE == Literals + 2
MAXMAX     == 2 ^ MAXBITS - 1

VARIABLES
  enc,   \* encoder: its free code and width, what it may send next, codes sent
  wire,  \* bits sent and not yet fed
  sent,  \* history variable: codes sent and not yet decoded
  head, tail, nbits, max_code, free_code, old_code, have_old, \* the context
  stack, \* its stack, top first
  bitbuf, inp, \* bits taken from the input, and bits of the chunk not taken
  pc, code, in_code, \* the loop of LZD_Drain
  outpos, out_len,   \* of the call that is running, or was the last
  status,            \* what the last call returned
  out                \* all that was ever produced

encVars  == <<enc, wire>>
dictVars == <<head, tail, nbits, max_code, free_code, old_code, have_old>>
bitVars  == <<bitbuf, inp>>
callVars == <<outpos, out_len, status>>
vars     == <<encVars, sent, dictVars, stack, bitVars, pc, code, in_code, callVars, out>>

OK == "OK"
NEED_INPUT == "NEED_INPUT"
DONE == "DONE"

TakeBits(s, k) == SubSeq(s, 1, k)
DropBits(s, k) == SubSeq(s, k + 1, Len(s))
LesserOf(a, b) == IF a < b THEN a ELSE b

-----------------------------------------------------------------------------
(* The encoder.  A code at free is the one it is making: KwKwK.            *)
NewEncoder(sentSoFar) ==
  [free |-> FIRST_FREE, nbits |-> MinBits, next |-> "any", prev |-> FALSE, sent |-> sentSoFar]

Sendable ==
  CASE enc.next = "literal" -> 0 .. Literals - 1
    [] enc.next = "any" ->
         IF enc.sent >= MaxCodes THEN {Z_EOF}
         ELSE 0 .. Literals - 1 \cup {CLEAR, Z_EOF} \cup
              (IF enc.prev THEN FIRST_FREE .. LesserOf(enc.free, 2 ^ enc.nbits - 1) ELSE {})
    [] OTHER -> {}

AfterSending(c) ==
  IF c = CLEAR THEN [NewEncoder(enc.sent + 1) EXCEPT !.next = "literal"]
  ELSE IF c = Z_EOF THEN [enc EXCEPT !.next = "nothing"]
  ELSE LET free == IF enc.prev /\ enc.free <= MAXMAX THEN enc.free + 1 ELSE enc.free
           wide == enc.prev /\ enc.free <= MAXMAX /\ free >= 2 ^ enc.nbits /\ enc.nbits < MAXBITS
       IN  [free |-> free, nbits |-> IF wide THEN enc.nbits + 1 ELSE enc.nbits,
            next |-> "any", prev |-> TRUE, sent |-> enc.sent + 1]

(* The last byte is padded with zeros.                                     *)
Padding(bits) == [b \in 1 .. (ByteBits - (Len(bits) % ByteBits)) % ByteBits |-> 0]

Send(c) ==
  /\ pc = "idle"
  /\ Len(wire) < Ahead
  /\ c \in Sendable
  /\ enc' = AfterSending(c)
  /\ sent' = Append(sent, c)
  /\ LET bits == wire \o BitsOf(c, enc.nbits)
     IN  wire' = IF c = Z_EOF THEN bits \o Padding(bits) ELSE bits
  /\ UNCHANGED <<dictVars, stack, bitVars, pc, code, in_code, callVars, out>>

-----------------------------------------------------------------------------
Init ==
  /\ enc = NewEncoder(0) /\ wire = <<>> /\ sent = <<>>
  /\ head = [c \in 0 .. MAXMAX |-> -1]
  /\ tail = [c \in 0 .. MAXMAX |-> IF c < Literals THEN c ELSE 0]
  /\ nbits = MinBits /\ max_code = 2 ^ MinBits /\ free_code = FIRST_FREE
  /\ old_code = 0 /\ have_old = FALSE
  /\ stack = <<>> /\ bitbuf = <<>> /\ inp = <<>>
  /\ pc = "idle" /\ code = 0 /\ in_code = 0
  /\ outpos = 0 /\ out_len = 0 /\ status = NEED_INPUT
  /\ out = <<>>

(* LZD_Feed.  The caller feeds when the last drain produced nothing: what  *)
(* the context had not taken from the last chunk is gone.                  *)
Feed(bytes) ==
  /\ pc = "idle" /\ status = NEED_INPUT
  /\ Len(wire) >= bytes * ByteBits
  /\ inp' = TakeBits(wire, bytes * ByteBits)
  /\ wire' = DropBits(wire, bytes * ByteBits)
  /\ status' = OK
  /\ UNCHANGED <<enc, sent, dictVars, stack, bitbuf, pc, code, in_code, outpos, out_len, out>>

(* LZD_Drain.  The caller drains until nothing comes out, and so once more *)
(* after a DONE that came with data.                                       *)
Drain(len) ==
  /\ pc = "idle"
  /\ outpos > 0 \/ status = OK
  /\ pc' = "loop"
  /\ outpos' = 0 /\ out_len' = len
  /\ UNCHANGED <<encVars, sent, dictVars, stack, bitVars, code, in_code, status, out>>

Return(result) ==
  /\ pc' = "idle"
  /\ status' = result
  /\ code' = 0 /\ in_code' = 0

Produce(byte) ==
  /\ out' = Append(out, byte)
  /\ outpos' = outpos + 1

ReturnFull ==
  /\ pc = "loop" /\ outpos >= out_len
  /\ Return(OK)
  /\ UNCHANGED <<encVars, sent, dictVars, stack, bitVars, outpos, out_len, out>>

PopStack ==
  /\ pc = "loop" /\ outpos < out_len
  /\ stack # <<>>
  /\ Produce(Head(stack))
  /\ stack' = Tail(stack)
  /\ UNCHANGED <<encVars, sent, dictVars, bitVars, pc, code, in_code, out_len, status>>

(* fill_bits: whole bytes, until there are nbits or the chunk is used up.  *)
BytesTaken(width) ==
  LesserOf((width - Len(bitbuf) + ByteBits - 1) \div ByteBits, Len(inp) \div ByteBits)

FilledBy(width) ==
  IF Len(bitbuf) >= width THEN bitbuf ELSE bitbuf \o TakeBits(inp, BytesTaken(width) * ByteBits)
LeftBy(width) ==
  IF Len(bitbuf) >= width THEN inp ELSE DropBits(inp, BytesTaken(width) * ByteBits)

BitsAfterFailureDropped(width) == bitbuf' = <<>> /\ inp' = LeftBy(width)

(* What was taken stays in bitbuf for the next call.                       *)
BitsAfterFailure(width) == bitbuf' = FilledBy(width) /\ inp' = LeftBy(width)

StarvedStatusInput == NEED_INPUT

StarvedStatusOK == OK

(* Only a call that produced nothing asks for input.                       *)
StarvedStatus == IF outpos > 0 THEN OK ELSE NEED_INPUT

(* read_code fails: the input is used up.                                  *)
Starve(width) ==
  /\ Len(FilledBy(width)) < width
  /\ BitsAfterFailure(width)
  /\ Return(StarvedStatus)
  /\ UNCHANGED <<encVars, sent, dictVars, stack, outpos, out_len, out>>

(* read_code returns c.                                                    *)
ReadCode(c, width) ==
  /\ Len(FilledBy(width)) >= width
  /\ c = ValueOf(TakeBits(FilledBy(width), width))
  /\ bitbuf' = DropBits(FilledBy(width), width)
  /\ inp' = LeftBy(width)

AtCode == pc = "loop" /\ outpos < out_len /\ stack = <<>>

StarveAtCode == AtCode /\ Starve(nbits)

init_dict ==
  /\ nbits' = MinBits /\ max_code' = 2 ^ MinBits
  /\ free_code' = FIRST_FREE /\ have_old' = FALSE

ReadClear ==
  /\ AtCode
  /\ ReadCode(CLEAR, nbits)
  /\ sent' = Tail(sent)
  /\ init_dict
  /\ pc' = "literal"
  /\ UNCHANGED <<encVars, head, tail, old_code, stack, code, in_code, callVars, out>>

StarveAtLiteral == pc = "literal" /\ Starve(nbits)

ReadLiteral ==
  /\ pc = "literal"
  /\ \E lit \in 0 .. MAXMAX :
       /\ ReadCode(lit, nbits)
       /\ old_code' = lit /\ have_old' = TRUE
       /\ Produce(lit)
  /\ sent' = Tail(sent)
  /\ pc' = "loop"
  /\ UNCHANGED <<encVars, head, tail, nbits, max_code, free_code, stack, code, in_code,
                 out_len, status>>

ReadEof ==
  /\ AtCode
  /\ ReadCode(Z_EOF, nbits)
  /\ sent' = Tail(sent)
  /\ Return(DONE)
  /\ UNCHANGED <<encVars, dictVars, stack, outpos, out_len, out>>

(* firstch: the first byte of a code's string, at the end of its chain.    *)
FirstIn(h, c) ==
  LET first[x \in -1 .. MAXMAX] == IF x < Literals THEN x ELSE first[h[x]]
  IN  first[c]
FirstByte(c) == FirstIn(head, c)

ReadString ==
  /\ AtCode
  /\ \E c \in 0 .. MAXMAX \ {CLEAR, Z_EOF} :
       /\ ReadCode(c, nbits)
       /\ in_code' = c
       /\ IF c < free_code
            THEN code' = c /\ pc' = "expand" /\ UNCHANGED <<stack, status>>
            ELSE IF have_old
              THEN /\ stack' = <<FirstByte(old_code)>>
                   /\ code' = old_code /\ pc' = "expand"
                   /\ UNCHANGED status
              ELSE pc' = "idle" /\ status' = DONE /\ code' = 0 /\ UNCHANGED stack
  /\ UNCHANGED <<encVars, sent, dictVars, outpos, out_len, out>>

PushByte ==
  /\ pc = "expand" /\ code >= Literals
  /\ stack' = <<tail[code]>> \o stack
  /\ code' = head[code]
  /\ UNCHANGED <<encVars, sent, dictVars, bitVars, pc, in_code, callVars, out>>

Wider(free) == free >= max_code /\ nbits < MAXBITS

NewEntry(first) ==
  /\ tail' = [tail EXCEPT ![free_code] = first]
  /\ head' = [head EXCEPT ![free_code] = old_code]

TableHasRoom == free_code <= MAXMAX

FinishCode ==
  /\ pc = "expand" /\ code < Literals
  /\ stack' = <<code>> \o stack
  /\ IF have_old /\ TableHasRoom
       THEN /\ NewEntry(code)
            /\ free_code' = free_code + 1
            /\ IF Wider(free_code + 1)
                 THEN nbits' = nbits + 1 /\ max_code' = 2 * max_code
                 ELSE UNCHANGED <<nbits, max_code>>
       ELSE UNCHANGED <<head, tail, free_code, nbits, max_code>>
  /\ old_code' = in_code /\ have_old' = TRUE
  /\ sent' = Tail(sent)
  /\ pc' = "loop" /\ code' = 0 /\ in_code' = 0
  /\ UNCHANGED <<encVars, bitVars, callVars, out>>

-----------------------------------------------------------------------------
Loop ==
  \/ ReturnFull \/ PopStack \/ StarveAtCode \/ ReadClear \/ StarveAtLiteral
  \/ ReadLiteral \/ ReadEof \/ ReadString \/ PushByte \/ FinishCode

CallFeed  == \E bytes \in Chunks : Feed(bytes)
CallDrain == \E len \in OutLens : Drain(len)

Next == (\E c \in 0 .. MAXMAX : Send(c)) \/ CallFeed \/ CallDrain \/ Loop

Spec == Init /\ [][Next]_vars

(* LZD_Drain runs to its return; the caller keeps calling while it may.    *)
FairSpec == Spec /\ WF_vars(Loop) /\ WF_vars(CallFeed) /\ WF_vars(CallDrain)

-----------------------------------------------------------------------------
(* The types, and the decoder's bounds: the stack fits in the MAXMAX + 1   *)
(* bytes allocated for it, bitbuf in its 64 bits with room to spare.       *)
TypeOK ==
  /\ head \in [0 .. MAXMAX -> -1 .. MAXMAX] /\ tail \in [0 .. MAXMAX -> 0 .. Literals - 1]
  /\ nbits \in MinBits .. MAXBITS /\ max_code = 2 ^ nbits
  /\ free_code \in FIRST_FREE .. MAXMAX + 1 /\ old_code \in 0 .. MAXMAX
  /\ have_old \in BOOLEAN
  /\ stack \in Seq(0 .. Literals - 1) /\ Len(stack) <= MAXMAX + 1
  /\ bitbuf \in Seq({0, 1}) /\ Len(bitbuf) < MAXBITS + ByteBits
  /\ inp \in Seq({0, 1}) /\ Len(inp) % ByteBits = 0
  /\ pc \in {"idle", "loop", "literal", "expand"}
  /\ code \in 0 .. MAXMAX /\ in_code \in 0 .. MAXMAX
  /\ outpos \in 0 .. out_len /\ status \in {OK, NEED_INPUT, DONE}
  /\ out \in Seq(0 .. Literals - 1)

(* What LZD_Drain returns is true: NEED_INPUT and a short OK only when the *)
(* chunk is used up, so that the next LZD_Feed, which overwrites in_ptr,   *)
(* loses no input; DONE only at the end of the stream.                     *)
ReturnsAreTrue ==
  pc = "idle" =>
    /\ status = NEED_INPUT => inp = <<>> /\ outpos = 0 /\ stack = <<>>
    /\ status = OK /\ 0 < outpos /\ outpos < out_len => inp = <<>> /\ stack = <<>>
    /\ status = DONE => enc.next = "nothing" /\ sent = <<>> /\ stack = <<>>

(* The string a code stands for in the tables.                             *)
TextIn(h, t, c) ==
  LET text[x \in -1 .. MAXMAX] ==
        IF x < Literals THEN <<x>> ELSE Append(text[h[x]], t[x])
  IN  text[c]
Text(c) == TextIn(head, tail, c)

(* However the input and the output are cut, the decoder produces the text *)
(* of the codes that were sent; what it holds on its stack counts as       *)
(* produced, and a code as decoded once it is wholly on the stack.         *)
Lzw == INSTANCE LzwText WITH
  MaxCode <- MAXMAX,
  Codes   <- 0 .. MAXMAX,
  queue   <- sent,
  entries <- [k \in 1 .. free_code - FIRST_FREE |-> Text(FIRST_FREE + k - 1)],
  prev    <- IF have_old THEN Text(old_code) ELSE <<>>,
  text    <- IF pc = "expand" THEN out ELSE out \o stack
ImplementsLzw == Lzw!AbsSpec

(* Once the encoder has sent its last code, the caller gets it all.        *)
EverythingIsDelivered ==
  (enc.next = "nothing" /\ sent # <<>>) ~> (sent = <<>> /\ stack = <<>> /\ status = DONE)
=============================================================================
