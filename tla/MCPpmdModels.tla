---------------------------- MODULE MCPpmdModels -----------------------------
(***************************************************************************)
(* The PPMd models of variants G, H and I, fed with every short sequence   *)
(* of symbols; start says which model it is.                               *)
(***************************************************************************)
EXTENDS PpmdContexts
LOCAL INSTANCE SequencesExt

CONSTANTS MaxOrder, TextMax, OBound, ScaleSum,
          Starts,    \* the models: <<variant, Brimstone or the method>>
          MaxBytes   \* bytes decoded

VARIABLES start, model
vars == <<start, model>>

H  == INSTANCE PpmdModelH
G(Brimstone) == INSTANCE PpmdModelG
I  == INSTANCE PpmdModelI

Init == /\ start \in Starts
        /\ model = CASE start[1] = "G" -> G(start[2] = 1)!Restarted
                     [] start[1] = "H" -> H!Restarted("H")
                     [] start[1] = "I" -> I!Restarted(start[2])

NextByte(sym, initEsc) ==
  CASE start[1] = "G" -> G(start[2] = 1)!NextByte(model, sym, initEsc)
    [] start[1] = "H" -> H!NextByte(model, sym, initEsc)
    [] start[1] = "I" -> I!NextByte(model, sym, initEsc)

Next == /\ Len(model.since) < MaxBytes /\ model.min # 0
        /\ \E sym \in Symbols \cup {EndOfStream}, initEsc \in InitEscs : model' = NextByte(sym, initEsc)
        /\ UNCHANGED start
Spec == Init /\ [][Next]_vars

-----------------------------------------------------------------------------
Ctx  == model.ctx
Live == {k \in DOMAIN Ctx : IF start[1] = "G" THEN Ctx[k].flags = 0 ELSE Ctx[k].flags # Freed}
SymbolsOf(c) == {c.states[i].sym : i \in DOMAIN c.states}

(* The context a state leads to, 0 if it is not made yet.                  *)
Made(s) == IF start[1] = "G" THEN (IF s.succ \in Live THEN s.succ ELSE 0)
           ELSE IF s.succ <= TextMax THEN 0 ELSE IF start[1] = "H" THEN H!ContextAt(s.succ) ELSE I!ContextAt(s.succ)
Waits(s) == start[1] # "G" /\ s.succ \in 1 .. TextMax

(* No symbol is masked before the first escape of a byte, although the     *)
(* byte that tells the escapes apart is used again and again.              *)
MasksAreFresh == model.min # 0 => \A s \in Symbols : model.mask[s] # model.esc

(* Whatever is counted, halved, dropped, cut off or frozen, the shortest   *)
(* context has all symbols, the suffix of every context in use is in use   *)
(* and has all of its symbols, and no state is sought where it is not:     *)
(* the loops of UpdateModel, CreateSuccessors and ReduceOrder that look    *)
(* for a symbol in a suffix have no other end.  A byte starts unmasked.    *)
SuffixesKnow ==
  /\ MasksAreFresh
  /\ ~model.lost
  /\ SymbolsOf(Ctx[1]) = Symbols
  /\ \A k \in Live \ {1} : Ctx[k].suffix \in Live /\ SymbolsOf(Ctx[k]) \subseteq SymbolsOf(Ctx[Ctx[k].suffix])

(* The sum of a context is above that of its frequencies, which leaves an  *)
(* escape some weight in the range coder, and no frequency leaves its byte *)
(* or the table that is indexed with it.                                   *)
EscapesHaveRoom ==
  \A k \in Live : LET c == Ctx[k] IN
    IF Binary(c) THEN c.states[1].freq \in 1 .. BinLimit
    ELSE /\ Total(c.states) < c.summ
         /\ \A i \in DOMAIN c.states : c.states[i].freq \in 1 .. MaxFreq

(* Both, through growth, rescaling, cutting off and restart.               *)
ContextsStaySound == SuffixesKnow /\ EscapesHaveRoom

(* A context stands for the bytes it was made after, one more than its     *)
(* suffix; a state leads to a context of those bytes and its own, or to a  *)
(* place in the text behind its own, which no restart or restoration has   *)
(* made stale; and the context of the next byte is one of the bytes        *)
(* decoded last, OrderFall below the highest order.                        *)
SuccessorsFollowTheText ==
  LET longest == IF start[1] = "G" THEN model.med ELSE model.max
      before  == IF start[1] = "G" THEN [i \in 1 .. MaxOrder |-> 0] ELSE <<>>
  IN  /\ \A k \in Live : LET c == Ctx[k] IN
           /\ k # 1 => c.path # <<>> /\ Ctx[c.suffix].path = Tail(c.path)
           /\ Len(c.path) <= MaxOrder
           /\ \A i \in DOMAIN c.states : LET s == c.states[i] IN
                /\ Made(s) # 0 => Made(s) \in Live /\ IsSuffix(Ctx[Made(s)].path, Append(c.path, s.sym))
                /\ Waits(s) => s.succ \in 2 .. model.ptext /\ model.text[s.succ - 1] = s.sym
      /\ model.min # 0 => /\ longest \in Live
                          /\ IsSuffix(Ctx[longest].path, before \o model.since)
                          /\ start[1] # "G" /\ ~model.restored => model.fall = MaxOrder - Len(Ctx[longest].path)

=============================================================================
