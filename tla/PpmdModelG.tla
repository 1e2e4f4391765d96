----------------------------- MODULE PpmdModelG ------------------------------
(***************************************************************************)
(* PPMd variant G, the model of StuffIt X Cyanide's and Brimstone's        *)
(* decoders (ppmd/VariantG.c).  There is no text: a flagged context with   *)
(* one symbol stands for a context that has not been made.  med is the     *)
(* longest context, max the flagged one that waits for its symbol.         *)
(***************************************************************************)
EXTENDS PpmdContexts
LOCAL INSTANCE SequencesExt

CONSTANTS MaxOrder, Brimstone

LastOf(seq, n) == SubSeq(seq, Len(seq) - n + 1, Len(seq))
Flagged(m, k) == m.ctx[k].flags = 1
NewContext(m, flags) == [m EXCEPT !.ctx = Append(@, Context(<<State(0, 1, 0)>>, 0, 0, flags, <<>>))]

RootFreq(sym) == IF Brimstone /\ 2 * sym < Cardinality(Symbols) THEN 2 ELSE 1
Root == LET states == InOrder({State(s, RootFreq(s), IF s = 0 THEN 2 ELSE 0) : s \in Symbols})
        IN  Context(states, Total(states) + 1, 0, 0, <<>>)

(* As many contexts of the first symbol as there are orders.               *)
Restarted ==
  [ctx |-> <<Root>> \o [k \in 1 .. MaxOrder |->
             Context(<<State(0, 1, IF k < MaxOrder THEN k + 2 ELSE 0)>>, 0, k, IF k < MaxOrder THEN 0 ELSE 1, [j \in 1 .. k |-> 0])],
   max |-> MaxOrder + 1, med |-> MaxOrder, min |-> MaxOrder, found |-> NoState, fall |-> 1, esc |-> 1,
   mask |-> [s \in Symbols |-> 0], masked |-> 0, initEsc |-> 0, rescale |-> "G", since |-> <<>>, lost |-> FALSE]
RestartModel(m) == [Restarted EXCEPT !.lost = m.lost]

-----------------------------------------------------------------------------
(* The states that lead to the flagged context up too, and the context     *)
(* after them; 0 if the suffixes end.                                      *)
RECURSIVE Branches(_, _, _, _)
Branches(m, k, up, list) ==
  LET c == m.ctx[m.ctx[k].suffix]
      i == IF Binary(c) THEN 1 ELSE Place(c, At(m, m.found).sym)
      more == Append(list, <<m.ctx[k].suffix, i>>)
  IN  IF m.ctx[k].suffix = 0 THEN [list |-> list, context |-> 0]
      ELSE IF c.states[i].succ # up THEN [list |-> list, context |-> c.states[i].succ]
      ELSE IF c.suffix = 0 THEN [list |-> more, context |-> m.ctx[k].suffix]
      ELSE Branches(m, m.ctx[k].suffix, up, more)

RootStates(m, skip, state) ==
  LET up    == At(m, m.found).succ
      first == IF skip = 0 THEN <<m.found>> ELSE <<>>
      from  == IF skip = 2 THEN m.ctx[m.min].suffix ELSE m.min
  IN  IF skip = 0 /\ m.ctx[m.min].suffix = 0 THEN [list |-> first, context |-> m.min]
      ELSE IF state = NoState THEN Branches(m, from, up, first)
      ELSE IF At(m, state).succ # up THEN [list |-> first, context |-> At(m, state).succ]
      ELSE IF m.ctx[state[1]].suffix = 0 THEN [list |-> Append(first, state), context |-> state[1]]
      ELSE Branches(m, state[1], up, Append(first, state))

(* A child for each of those states; up itself becomes the longest one if  *)
(* it has the highest order.                                               *)
ServedBy(m, up, serve) ==
  LET parent == m.ctx[serve.context]
      sym    == m.ctx[up].states[1].sym
      known  == serve.context # 0 /\ (Binary(parent) \/ Place(parent, sym) # 0)
      one    == [m.ctx[up].states[1] EXCEPT !.freq = FirstFrequency(parent, sym)]
      child(acc, p) ==
        LET k == Len(acc.m.ctx) + 1
        IN  [m |-> [SetSucc(acc.m, p, k) EXCEPT
                      !.ctx = Append(@, Context(<<one>>, 0, acc.context, 0, Append(acc.m.ctx[p[1]].path, At(acc.m, p).sym)))],
             context |-> k]
      whole(made) ==
        IF m.fall # 0 THEN made.m
        ELSE [made.m EXCEPT !.ctx[up].flags = 0, !.ctx[up].suffix = made.context,
                            !.ctx[up].path = LastOf(Append(m.ctx[m.min].path, At(m, m.found).sym),
                                                    Len(made.m.ctx[made.context].path) + 1)]
  IN  IF ~known THEN [Failed(m) EXCEPT !.lost = TRUE]
      ELSE IF ~HasRoom(m, Len(serve.list)) THEN Failed(m)
      ELSE whole(FoldLeft(child, [m |-> [m EXCEPT !.ctx[up].states = <<one>>], context |-> serve.context],
                          Reverse(serve.list)))
MakeRoot(m, skip, state) == ServedBy(m, At(m, m.found).succ, RootStates(m, skip, state))

-----------------------------------------------------------------------------
(* Unless the highest order is reached, a flagged context takes the place  *)
(* of the one that will be longest.                                        *)
WithSuccessor(m, fs, state) ==
  LET lower == [m EXCEPT !.fall = @ - 1]
      skip  == IF m.fall = 1 THEN 1 ELSE 0
      succ  == IF skip = 1 THEN fs.succ ELSE Len(m.ctx) + 1
      minimum == m.ctx[m.min]
      named(new) == IF Flagged(m, m.max) THEN [new EXCEPT !.ctx[m.max].states = <<[@[1] EXCEPT !.sym = fs.sym, !.succ = succ]>>] ELSE new
      grown(new) == AddToChain(named(new), Chain(m, m.med, m.min), fs, succ, Len(minimum.states),
                               minimum.summ - Len(minimum.states) - (fs.freq - 1))
      led(made)  == IF made.min = 0 THEN made ELSE [made EXCEPT !.min = At(made, m.found).succ]
      next(all)  == IF all.min = 0 THEN all
                    ELSE IF fs.succ = 0 THEN [SetSucc(all, m.found, succ) EXCEPT !.fall = @ + 1]
                    ELSE led(IF Flagged(all, fs.succ) THEN MakeRoot(all, skip, state) ELSE all)
      ended(n)   == [n EXCEPT !.med = n.min, !.max = succ, !.lost = @ \/ (n.min # 0 /\ succ = 0)]
  IN  IF skip = 0 /\ ~HasRoom(m, 1) THEN Failed(m)
      ELSE ended(next(grown(IF skip = 1 THEN lower ELSE NewContext(lower, 1))))

UpdateModel(m) ==
  LET fs           == At(m, m.found)
      led(made)    == IF made.min = 0 THEN made ELSE [made EXCEPT !.min = fs.succ, !.med = fs.succ]
      next(bumped) == IF m.fall # 0 THEN WithSuccessor(bumped.m, fs, bumped.state)
                      ELSE led(MakeRoot(bumped.m, 2, NoState))
      whole(n)     == IF n.min = 0 THEN [RestartModel(n) EXCEPT !.esc = 0] ELSE n
  IN  ClearedIfWrapped(whole(next(BumpSuffix(m, fs, (7 * MaxFreq) \div 8))))

NextByte(m, sym, initEsc) ==
  LET next  == [m EXCEPT !.since = IF sym = EndOfStream THEN @ ELSE Append(@, sym)]
      first == IF Binary(m.ctx[m.min]) THEN DecodeBinSymbol(next, sym, initEsc) ELSE DecodeSymbol1(next, sym)
      after(found) ==
        LET succ == At(found, found.found).succ
        IN  IF found.min = 0 THEN found
            ELSE IF found.fall = 0 /\ ~Flagged(found, succ) THEN [found EXCEPT !.min = succ, !.med = succ]
            ELSE UpdateModel(found)
  IN  after(Sought(first, sym))
=============================================================================
