----------------------------- MODULE PpmdModelH ------------------------------
(***************************************************************************)
(* PPMd variant H, the model of RAR 3 and 7-Zip (ppmd/VariantH.c): what    *)
(* one byte of the output does to the tree of contexts.                    *)
(*                                                                         *)
(* A state's successor is an address: 0, a place in the text area if the   *)
(* context it leads to was not made yet, or TextMax + 1 + k for context k. *)
(***************************************************************************)
EXTENDS PpmdContexts
LOCAL INSTANCE SequencesExt

CONSTANTS MaxOrder,  \* the longest context
          TextMax    \* bytes of the text area

Address(k)    == TextMax + 1 + k
IsText(m, a)  == a <= m.ptext
ContextAt(a)  == a - TextMax - 1

Restarted(rescale) ==
  [ctx |-> <<Context(InOrder({State(s, 1, 0) : s \in Symbols}), Cardinality(Symbols) + 1, 0, 0, <<>>)>>,
   max |-> 1, min |-> 1, found |-> <<1, 1>>, fall |-> MaxOrder, esc |-> 1, mask |-> [s \in Symbols |-> 0],
   masked |-> 0, initEsc |-> 0, text |-> [p \in 1 .. TextMax |-> 0], ptext |-> 1, rescale |-> rescale,
   restored |-> FALSE, since |-> <<>>, lost |-> FALSE]
RestartModel(m) == [Restarted(m.rescale) EXCEPT !.lost = m.lost, !.text = m.text]

-----------------------------------------------------------------------------
(* The states that have no context yet for what the found state leads to,  *)
(* from the longest, and the context after them.                           *)
RECURSIVE Branches(_, _, _, _)
Branches(m, k, up, list) ==
  LET c == m.ctx[m.ctx[k].suffix]
      sym == At(m, m.found).sym
      i == IF Binary(c) THEN 1 ELSE Place(c, sym)
  IN  IF m.ctx[k].suffix = 0 THEN [list |-> list, context |-> k]
      ELSE IF c.states[i].succ # up THEN [list |-> list, context |-> ContextAt(c.states[i].succ)]
      ELSE Branches(m, m.ctx[k].suffix, up, Append(list, <<m.ctx[k].suffix, i>>))

StatesToServe(m, skip, state) ==
  LET up    == At(m, m.found).succ
      first == IF skip THEN <<>> ELSE <<m.found>>
  IN  IF state = NoState \/ m.ctx[m.min].suffix = 0 THEN Branches(m, m.min, up, first)
      ELSE IF At(m, state).succ # up THEN [list |-> first, context |-> ContextAt(At(m, state).succ)]
      ELSE Branches(m, state[1], up, Append(first, state))

(* A child of context for each state, each the suffix of the next; the     *)
(* result is m and context, 0 if there was no room.                        *)
ServedBy(m, up, serve) ==
  LET parent == m.ctx[serve.context]
      known  == Binary(parent) \/ Place(parent, m.text[up]) # 0
      one    == FirstState(m.text[up], FirstFrequency(parent, m.text[up]), up)
      child(acc, p) ==
        LET k == Len(acc.m.ctx) + 1
        IN  [m |-> [SetSucc(acc.m, p, Address(k)) EXCEPT
                      !.ctx = Append(@, Context(<<one>>, 0, acc.context, 0, Append(acc.m.ctx[p[1]].path, At(acc.m, p).sym)))],
             context |-> k]
  IN  IF serve.list = <<>> THEN [m |-> m, context |-> serve.context]
      ELSE IF ~known THEN [m |-> [m EXCEPT !.lost = TRUE], context |-> 0]
      ELSE IF ~HasRoom(m, Len(serve.list)) THEN [m |-> m, context |-> 0]
      ELSE FoldLeft(child, [m |-> m, context |-> serve.context], Reverse(serve.list))
CreateSuccessors(m, skip, state) == ServedBy(m, At(m, m.found).succ, StatesToServe(m, skip, state))

-----------------------------------------------------------------------------
(* A symbol whose state has no successor gets the place in the text; one   *)
(* with a place gets its context.                                          *)
WithText(m, fs, state) ==
  LET written == [m EXCEPT !.text[m.ptext] = fs.sym, !.ptext = @ + 1]
      minimum == m.ctx[m.min]
      lower(n)       == [n EXCEPT !.fall = @ - 1, !.ptext = IF n.fall = 1 /\ m.max # m.min THEN @ - 1 ELSE @]
      grown(n, succ) == AddToChain(n, Chain(m, m.max, m.min), fs, succ, Len(minimum.states),
                                   minimum.summ - Len(minimum.states) - (fs.freq - 1))
      all(next)      == IF fs.succ = 0 THEN grown(SetSucc(written, m.found, m.ptext + 1), m.ptext + 1)
                        ELSE grown(lower(next.m), IF next.m.fall = 1 THEN Address(next.context) ELSE m.ptext + 1)
      ended(n, next) == IF n.min = 0 THEN Failed(next.m) ELSE [n EXCEPT !.max = next.context, !.min = next.context]
      along(next)    == IF m.ptext + 1 > TextMax \/ next.context = 0 THEN Failed(next.m) ELSE ended(all(next), next)
  IN  along(IF fs.succ # 0 /\ IsText(written, fs.succ) THEN CreateSuccessors(written, FALSE, state)
            ELSE [m |-> written, context |-> IF fs.succ = 0 THEN m.min ELSE ContextAt(fs.succ)])

UpdateModel(m) ==
  LET fs           == At(m, m.found)
      led(made)    == IF made.context = 0 THEN Failed(made.m)
                      ELSE [SetSucc(made.m, m.found, Address(made.context)) EXCEPT !.min = made.context, !.max = made.context]
      next(bumped) == IF m.fall # 0 THEN WithText(bumped.m, fs, bumped.state)
                      ELSE led(CreateSuccessors(bumped.m, TRUE, bumped.state))
      whole(n)     == IF n.min = 0 THEN [RestartModel(n) EXCEPT !.esc = 0] ELSE n
  IN  ClearedIfWrapped(whole(next(BumpSuffix(m, fs, MaxFreq - 9))))

(* The byte of the range the coder is in; an escape from the shortest      *)
(* context ends the stream.                                                *)
NextByte(m, sym, initEsc) ==
  LET next  == [m EXCEPT !.since = IF sym = EndOfStream THEN @ ELSE Append(@, sym)]
      first == IF Binary(m.ctx[m.min]) THEN DecodeBinSymbol(next, sym, initEsc) ELSE DecodeSymbol1(next, sym)
      after(found) ==
        LET succ == At(found, found.found).succ
        IN  IF found.min = 0 THEN found
            ELSE IF found.fall = 0 /\ ~IsText(found, succ) THEN [found EXCEPT !.min = ContextAt(succ), !.max = ContextAt(succ)]
            ELSE UpdateModel(found)
  IN  after(Sought(first, sym))
=============================================================================
