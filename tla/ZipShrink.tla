------------------------------ MODULE ZipShrink ------------------------------
(***************************************************************************)
(* ZIP's method 1, shrink (zip/shrink.c): LZW whose full table is cleared  *)
(* in part.  The entries that are no entry's parent are freed and their    *)
(* codes are given out again, lowest first, between those that stayed.     *)
(*                                                                         *)
(* The encoder is the environment.  It enters a string with each code it   *)
(* sends, clears the table only when it is full, and never sends a code    *)
(* whose string is lost: one entered under a code that the clear just      *)
(* before had freed.                                                       *)
(***************************************************************************)
EXTENDS BitStrings, SequencesExt, FiniteSetsExt

CONSTANTS
  SHRINK_CONTROL,   \* 256
  SHRINK_INIT_BITS, \* 9
  SHRINK_MAX_BITS,  \* 13
  OutSize           \* of the caller's buffer; bounds the stream

SHRINK_FIRST_CODE == SHRINK_CONTROL + 1
SHRINK_MAX_CODES  == 2 ^ SHRINK_MAX_BITS
SHRINK_GROW_CODE  == 1
SHRINK_CLEAR_CODE == 2

ASSUME ShrinkAssumption ==
  /\ SHRINK_CONTROL \in Nat \ {0} /\ OutSize \in Nat
  /\ SHRINK_INIT_BITS \in Nat \ {0, 1} /\ SHRINK_MAX_BITS \in Nat
  /\ SHRINK_INIT_BITS <= SHRINK_MAX_BITS /\ SHRINK_CONTROL < 2 ^ SHRINK_INIT_BITS

VARIABLES
  encoder,   \* its table by strings, and the code and the string it sent last
  bits,      \* sent and not read
  dict,      \* parent, chr, used
  next_code, code_size, prev_code,
  room,      \* out_size - out_pos
  delivered, \* bytes the last turn stored
  phase

decoder == <<dict, next_code, code_size, prev_code, room, delivered, phase>>
shrinkVars == <<encoder, bits, decoder>>

Codes   == 0 .. SHRINK_MAX_CODES - 1
Entries == SHRINK_FIRST_CODE .. SHRINK_MAX_CODES - 1
Bytes   == 0 .. SHRINK_CONTROL - 1
NoCode  == -1
Full    == SHRINK_MAX_CODES

-----------------------------------------------------------------------------
(* An encoder's str is <<>> for a code that is free or whose string is     *)
(* lost: the code before was freed by a clear when the entry was made.     *)
NewTable ==
  [used |-> {}, par |-> [c \in Entries |-> NoCode], str |-> [c \in Entries |-> <<>>],
   prev |-> NoCode, string |-> <<>>, n_bits |-> SHRINK_INIT_BITS]

Free(e)        == Entries \ e.used
NextEntry(e)   == IF Free(e) = {} THEN Full ELSE Min(Free(e))
KnownCodes(e)  == Bytes \cup {c \in e.used : e.str[c] # <<>>}
PrevIsKnown(e) == e.prev \in KnownCodes(e)

(* The entry being made is the decoder's KwKwK.                            *)
StringSent(e, c) ==
  IF c \in Bytes THEN <<c>>
  ELSE IF c \in e.used THEN e.str[c]
  ELSE Append(e.string, Head(e.string))

CodesToSend(e) ==
  {c \in KnownCodes(e) \cup (IF PrevIsKnown(e) /\ Free(e) # {} THEN {NextEntry(e)} ELSE {}) :
     c < 2 ^ e.n_bits}

AfterCode(e, c) ==
  LET string == StringSent(e, c)
      new    == NextEntry(e)
      enters == e.prev # NoCode /\ new # Full
  IN  [e EXCEPT !.used   = IF enters THEN @ \cup {new} ELSE @,
                !.par    = IF enters THEN [@ EXCEPT ![new] = e.prev] ELSE @,
                !.str    = IF enters /\ PrevIsKnown(e)
                             THEN [@ EXCEPT ![new] = Append(e.string, Head(string))] ELSE @,
                !.prev   = c,
                !.string = string]

(* The encoder clears its table only when it is full.                      *)
MayFollow(e, subcode) ==
  /\ subcode = SHRINK_GROW_CODE => e.n_bits < SHRINK_MAX_BITS
  /\ subcode = SHRINK_CLEAR_CODE => Free(e) = {}

Leaves(e) == {c \in e.used : \A d \in e.used : e.par[d] # c}

AfterControl(e, subcode) ==
  CASE subcode = SHRINK_GROW_CODE  -> [e EXCEPT !.n_bits = @ + 1]
    [] subcode = SHRINK_CLEAR_CODE ->
         [e EXCEPT !.used = @ \ Leaves(e),
                   !.str = [c \in Entries |-> IF c \in Leaves(e) THEN <<>> ELSE @[c]]]
    [] OTHER -> e

Waiting == phase \in {"first", "read"} /\ room > 0 /\ Len(bits) < code_size

SendCode(c) ==
  /\ Waiting /\ c \in CodesToSend(encoder)
  /\ encoder' = AfterCode(encoder, c)
  /\ bits' = bits \o BitsOf(c, encoder.n_bits)
  /\ UNCHANGED decoder

SendControl(subcode) ==
  /\ Waiting /\ encoder.prev # NoCode /\ MayFollow(encoder, subcode)
  /\ encoder' = AfterControl(encoder, subcode)
  /\ bits' = bits \o BitsOf(SHRINK_CONTROL, encoder.n_bits) \o BitsOf(subcode, encoder.n_bits)
  /\ UNCHANGED decoder

-----------------------------------------------------------------------------
ShrinkInit ==
  /\ encoder = NewTable
  /\ bits = <<>>
  /\ dict = [c \in Codes |->
               IF c <= SHRINK_CONTROL
                 THEN [parent |-> -1, chr |-> c % SHRINK_CONTROL, used |-> TRUE]
                 ELSE [parent |-> 0, chr |-> 0, used |-> FALSE]]
  /\ next_code = SHRINK_FIRST_CODE /\ code_size = SHRINK_INIT_BITS /\ prev_code = NoCode
  /\ room = OutSize /\ delivered = <<>>
  /\ phase = "first"

CanRead   == Len(bits) >= code_size
ReadValue == ValueOf(SubSeq(bits, 1, code_size))
Consume   == bits' = SubSeq(bits, code_size + 1, Len(bits))

(* shrink_decode_string: at most as long as the stack.                     *)
StringOf(code) ==
  LET string[n \in 0 .. SHRINK_MAX_CODES] ==
        [c \in Codes |->
           IF n = 0 THEN <<>>
           ELSE IF dict[c].parent < 0 THEN <<dict[c].chr>>
           ELSE Append(string[n - 1][dict[c].parent], dict[c].chr)]
  IN  string[SHRINK_MAX_CODES][code]

Emit(string) ==
  /\ delivered' = SubSeq(string, 1, IF Len(string) < room THEN Len(string) ELSE room)
  /\ room' = room - Len(delivered')

FirstFrom(d, from) == Min({c \in from .. Full : c = Full \/ ~d[c].used})

FreeAfterInOrder(d, from) == from

FreeAfter(d, from) == FirstFrom(d, from)

Enter(first) ==
  IF next_code < SHRINK_MAX_CODES
    THEN /\ dict' = [dict EXCEPT ![next_code] =
                       [parent |-> prev_code, chr |-> first, used |-> TRUE]]
         /\ next_code' = FreeAfter(dict', next_code + 1)
    ELSE UNCHANGED <<dict, next_code>>

FirstCode ==
  /\ phase = "first" /\ room > 0 /\ CanRead /\ Consume
  /\ prev_code' = ReadValue
  /\ Emit(IF ReadValue \in Bytes THEN <<ReadValue>> ELSE <<>>)
  /\ phase' = "read"
  /\ UNCHANGED <<encoder, dict, next_code, code_size>>

Reads == phase = "read" /\ room > 0 /\ CanRead

Control ==
  /\ Reads /\ ReadValue = SHRINK_CONTROL /\ Consume
  /\ phase' = "subcode"
  /\ UNCHANGED <<encoder, dict, next_code, code_size, prev_code, room, delivered>>

Grow ==
  /\ phase = "subcode" /\ CanRead /\ Consume
  /\ ReadValue = SHRINK_GROW_CODE
  /\ code_size' = code_size + 1
  /\ phase' = IF code_size' > SHRINK_MAX_BITS THEN "failed" ELSE "read"
  /\ UNCHANGED <<encoder, dict, next_code, prev_code, room, delivered>>

ParentsBelow(limit) ==
  {dict[c].parent : c \in {d \in SHRINK_FIRST_CODE .. limit - 1 : dict[d].used}}

(* Only codes below num_codes are looked at.                               *)
shrink_partial_clear(num_codes) ==
  dict' = [c \in Codes |->
             [dict[c] EXCEPT !.used = @ /\ ~(/\ c \in SHRINK_FIRST_CODE .. num_codes - 1
                                             /\ c \notin ParentsBelow(num_codes))]]

NextAfterClear(d) == FirstFrom(d, SHRINK_FIRST_CODE)

PartialClear ==
  /\ phase = "subcode" /\ CanRead /\ Consume
  /\ ReadValue = SHRINK_CLEAR_CODE
  /\ shrink_partial_clear(next_code)
  /\ next_code' = NextAfterClear(dict')
  /\ phase' = "read"
  /\ UNCHANGED <<encoder, code_size, prev_code, room, delivered>>

OtherSubcode ==
  /\ phase = "subcode" /\ CanRead /\ Consume
  /\ ReadValue \notin {SHRINK_GROW_CODE, SHRINK_CLEAR_CODE}
  /\ phase' = "read"
  /\ UNCHANGED <<encoder, dict, next_code, code_size, prev_code, room, delivered>>

KwKwK ==
  /\ Reads /\ ReadValue >= SHRINK_FIRST_CODE /\ ~dict[ReadValue].used /\ Consume
  /\ LET string == StringOf(prev_code)
     IN  Emit(Append(string, Head(string))) /\ Enter(Head(string))
  /\ prev_code' = ReadValue
  /\ UNCHANGED <<encoder, code_size, phase>>

Known ==
  /\ Reads /\ ReadValue # SHRINK_CONTROL /\ dict[ReadValue].used /\ Consume
  /\ LET string == StringOf(ReadValue)
     IN  Emit(string) /\ Enter(Head(string))
  /\ prev_code' = ReadValue
  /\ UNCHANGED <<encoder, code_size, phase>>

(* No room, or no whole code left: a stream may end after any code.        *)
ShrinkReturn ==
  /\ phase = "read" /\ (room = 0 \/ ~CanRead)
  /\ phase' = "done"
  /\ UNCHANGED <<encoder, bits, dict, next_code, code_size, prev_code, room, delivered>>

Decode == FirstCode \/ Control \/ Grow \/ PartialClear \/ OtherSubcode \/ KwKwK \/ Known \/ ShrinkReturn

ShrinkNext ==
  \/ \E c \in Codes : SendCode(c)
  \/ \E subcode \in 0 .. 2 ^ SHRINK_INIT_BITS - 1 : SendControl(subcode)
  \/ Decode

ShrinkSpec == ShrinkInit /\ [][ShrinkNext]_shrinkVars
-----------------------------------------------------------------------------
(* Types; the free code next to be given is the lowest one there is.       *)
ShrinkTypeOK ==
  /\ \A c \in Codes : dict[c] \in [parent : {-1} \cup Codes, chr : Bytes, used : BOOLEAN]
  /\ next_code \in SHRINK_FIRST_CODE .. Full /\ next_code = FirstFrom(dict, SHRINK_FIRST_CODE)
  /\ code_size \in SHRINK_INIT_BITS .. SHRINK_MAX_BITS
  /\ prev_code \in {NoCode} \cup Codes /\ room \in 0 .. OutSize
  /\ phase \in {"first", "read", "subcode", "done"}

(* Each code is decoded to the string the encoder had for it when it sent  *)
(* it, cut by the caller's buffer: through clears, entries that stay,      *)
(* codes that are given out again and the code that is being entered.      *)
StringsArrive ==
  phase = "read" /\ bits = <<>> =>
    IF room > 0 THEN delivered = encoder.string ELSE IsPrefix(delivered, encoder.string)
=============================================================================
