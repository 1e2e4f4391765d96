----------------------------- MODULE PpmdModelI ------------------------------
(***************************************************************************)
(* PPMd variant I, the model of ZIP's method 98 and of StuffIt X's word    *)
(* list (ppmd/VariantI.c).  When the room ends the model restarts, cuts    *)
(* off its longest contexts or freezes their number.                       *)
(*                                                                         *)
(* Successors are addresses as in variant H.  A record has the method as   *)
(* well; restored is set once the model is frozen.                         *)
(***************************************************************************)
EXTENDS PpmdContexts
LOCAL INSTANCE SequencesExt
LOCAL INSTANCE FiniteSetsExt

CONSTANTS MaxOrder,  \* the longest context
          TextMax,   \* bytes of the text area
          OBound,    \* O_BOUND
          ScaleSum   \* 128 in RestoreModel

Restart == 0
CutOff  == 1
Freeze  == 2

Address(k)   == TextMax + k
IsText(a)    == a <= TextMax
ContextAt(a) == a - TextMax

(* GetUsedMemoryVariantI, in units: an eighth of the heap is for text.     *)
Size == (8 * HeapUnits) \div 7

Restarted(method) ==
  [ctx |-> <<Context(InOrder({State(s, 1, 0) : s \in Symbols}), Cardinality(Symbols) + 1, 0, 0, <<>>)>>,
   max |-> 1, min |-> 1, found |-> <<1, 1>>, fall |-> MaxOrder, esc |-> 1, mask |-> [s \in Symbols |-> 0],
   masked |-> 0, initEsc |-> 0, text |-> [p \in 1 .. TextMax |-> 0], ptext |-> 1, rescale |-> "I",
   method |-> method, restored |-> FALSE, since |-> <<>>, lost |-> FALSE]
RestartModel(m) == [Restarted(m.method) EXCEPT !.lost = m.lost, !.text = m.text, !.esc = 0]

-----------------------------------------------------------------------------
(* A state of the found symbol counts on the way to the shortest context.  *)
CountedOnTheWay(m, k, by) ==
  LET c == m.ctx[k]
      i == Place(c, At(m, m.found).sym)
      last == Len(m.ctx[c.suffix].states) = 1
  IN  IF Binary(c) THEN [m EXCEPT !.ctx[k].states[1].freq =
                           IF by = 2 THEN (IF @ < RareLimit THEN @ + 1 ELSE @)
                           ELSE IF last /\ @ < MaxFreq \div 5 THEN @ + 1 ELSE @]
      ELSE IF i = 0 THEN [m EXCEPT !.lost = TRUE]
      ELSE IF c.states[i].freq < MaxFreq - 9
             THEN [m EXCEPT !.ctx[k].states[i].freq = @ + by, !.ctx[k].summ = @ + by] ELSE m

PlaceFound(m, k) == IF Binary(m.ctx[k]) THEN 1 ELSE Max({Place(m.ctx[k], At(m, m.found).sym), 1})

(* The states on the way whose successor is not made yet, and the context  *)
(* after them.                                                             *)
RECURSIVE Branches(_, _, _, _)
Branches(m, k, up, list) ==
  LET s    == m.ctx[k].suffix
      more == CountedOnTheWay(m, s, 1)
      p    == <<s, PlaceFound(m, s)>>
  IN  IF s = 0 THEN [m |-> m, list |-> list, context |-> k]
      ELSE IF At(more, p).succ # up THEN [m |-> more, list |-> list, context |-> ContextAt(At(more, p).succ)]
      ELSE Branches(more, s, up, Append(list, p))

StatesToServe(m, skip, state, k) ==
  LET up    == At(m, m.found).succ
      first == IF skip THEN <<>> ELSE <<m.found>>
  IN  IF state = NoState \/ (~skip /\ m.ctx[k].suffix = 0) THEN Branches(m, k, up, first)
      ELSE IF At(m, state).succ # up THEN [m |-> m, list |-> first, context |-> ContextAt(At(m, state).succ)]
      ELSE Branches(m, state[1], up, Append(first, state))

(* Half the found symbol's odds against the others, and at least 1.        *)
FirstFrequencyI(c, sym) ==
  LET cf == c.states[Place(c, sym)].freq - 1
      s0 == c.summ - (Len(c.states) - 1) - cf
  IN  IF Binary(c) THEN c.states[1].freq
      ELSE IF 2 * cf <= s0 THEN IF 5 * cf > s0 THEN 2 ELSE 1
      ELSE 1 + (cf + 2 * s0 - 3) \div s0

(* As in variant H, but the contexts made before the room ended stay.      *)
ServedBy(m, up, serve) ==
  LET parent == serve.m.ctx[serve.context]
      known  == Binary(parent) \/ Place(parent, m.text[up]) # 0
      one    == FirstState(m.text[up], FirstFrequencyI(parent, m.text[up]), up)
      child(acc, p) ==
        LET new == Len(acc.m.ctx) + 1
        IN  IF acc.context = 0 \/ ~HasRoom(acc.m, 1) THEN [acc EXCEPT !.context = 0]
            ELSE [m |-> [SetSucc(acc.m, p, Address(new)) EXCEPT
                     !.ctx = Append(@, Context(<<one>>, 0, acc.context, 0, Append(acc.m.ctx[p[1]].path, At(acc.m, p).sym)))],
                  context |-> new]
  IN  IF serve.list = <<>> THEN [m |-> serve.m, context |-> serve.context]
      ELSE IF ~known THEN [m |-> [serve.m EXCEPT !.lost = TRUE], context |-> 0]
      ELSE FoldLeft(child, [m |-> serve.m, context |-> serve.context], Reverse(serve.list))
CreateSuccessors(m, skip, state, k) == ServedBy(m, At(m, m.found).succ, StatesToServe(m, skip, state, k))

-----------------------------------------------------------------------------
(* The states on the way that have no successor get the place in the text  *)
(* (when frozen: the context found), until one has; the result has the     *)
(* successor's address, 0 if there was no room.                            *)
RECURSIVE Pending(_, _, _)
Pending(m, k, list) ==
  LET s    == m.ctx[k].suffix
      more == CountedOnTheWay(m, s, 2)
      p    == <<s, PlaceFound(m, s)>>
  IN  IF s = 0 THEN [m |-> m, list |-> list, state |-> NoState, context |-> k]
      ELSE IF At(more, p).succ # 0 THEN [m |-> more, list |-> list, state |-> p, context |-> s]
      ELSE Pending([more EXCEPT !.fall = @ + 1], s, Append(list, p))

AllSucc(m, list, a) == FoldLeft(LAMBDA acc, p : SetSucc(acc, p, a), m, list)

WayToReduce(m, one, state, k) ==
  IF state = NoState THEN Pending(one, k, <<m.found>>)
  ELSE IF At(m, state).succ # 0 THEN [m |-> one, list |-> <<m.found>>, state |-> state, context |-> state[1]]
  ELSE Pending([one EXCEPT !.fall = @ + 1], state[1], <<m.found, state>>)

ReducedTo(m, next, succ, k) ==
  [m |-> IF next.fall = 1 /\ k = m.max THEN [SetSucc(next, m.found, succ) EXCEPT !.ptext = @ - 1] ELSE next,
   succ |-> succ]

ReducedBy(m, way, set, k) ==
  LET root   == way.state = NoState
      frozen == IF root THEN Address(way.context) ELSE At(way.m, way.state).succ
      led(made) == SetSucc([made.m EXCEPT !.found = m.found], way.state, IF made.context = 0 THEN 0 ELSE Address(made.context))
      reduced(next) == ReducedTo(m, next, At(next, way.state).succ, k)
  IN  IF m.restored THEN [m |-> [AllSucc(way.m, way.list, frozen) EXCEPT !.ptext = 2, !.fall = 1], succ |-> frozen]
      ELSE IF root THEN [m |-> set, succ |-> Address(way.context)]
      ELSE IF At(set, way.state).succ > m.ptext THEN reduced(set)
      ELSE reduced(led(CreateSuccessors([set EXCEPT !.found = way.state], FALSE, NoState, way.context)))

ReduceOrder(m, state, k) ==
  LET by(way) == ReducedBy(m, way, AllSucc(way.m, way.list, m.ptext), k)
  IN  by(WayToReduce(m, [m EXCEPT !.fall = @ + 1], state, k))

-----------------------------------------------------------------------------
(* A context keeps its first states; the rest of the sum is the escape's.  *)
ShrinkContext(c, n, scale) ==
  LET kept == SubSeq(c.states, 1, n)
      half(x) == IF scale THEN (x + 1) \div 2 ELSE x
      new  == FoldLeft(LAMBDA out, s : Append(out, [s EXCEPT !.freq = half(@)]), <<>>, kept)
  IN  [c EXCEPT !.states = new, !.summ = Total(new) + half(c.summ - Total(kept))]

OneLeft(c) == [c EXCEPT !.states = <<[@[1] EXCEPT !.freq = (@ + 11) \div 8]>>, !.summ = 0]
FreedContext(c) == [c EXCEPT !.states = <<>>, !.flags = Freed]

(* The part of a context behind a state; nothing if it has the highest     *)
(* order.  The result has the state's new successor.                       *)
Leads(m, s)      == ~IsText(s.succ)
Gone(m, k)       == [m |-> [m EXCEPT !.ctx[k] = FreedContext(@)], succ |-> 0]
Stays(m, k)      == [m |-> m, succ |-> Address(k)]
SetAt(r, k, i)   == SetSucc(r.m, <<k, i>>, r.succ)

RECURSIVE CutOffContext(_, _, _)
CutOffContext(m, k, order) ==
  LET c == m.ctx[k]
      below(acc, i) ==
        IF order < MaxOrder THEN SetAt(CutOffContext(acc, ContextAt(acc.ctx[k].states[i].succ), order + 1), k, i)
        ELSE SetSucc(acc, <<k, i>>, 0)
      step(acc, i) ==
        IF Leads(acc.m, acc.m.ctx[k].states[i]) THEN [acc EXCEPT !.m = below(acc.m, i)]
        ELSE LET bare == SetSucc(acc.m, <<k, i>>, 0)
                 s    == bare.ctx[k].states
             IN  [m |-> [bare EXCEPT !.ctx[k].states = [s EXCEPT ![i] = s[acc.n], ![acc.n] = s[i]]], n |-> acc.n - 1]
      cut == FoldLeft(step, [m |-> m, n |-> Len(c.states)], Reverse([i \in 1 .. Len(c.states) |-> i]))
      one == below(m, 1)
  IN  IF Binary(c) THEN
        IF ~Leads(m, c.states[1]) THEN Gone(m, k)
        ELSE IF one.ctx[k].states[1].succ = 0 /\ order > OBound THEN Gone(one, k) ELSE Stays(one, k)
      ELSE IF cut.n = Len(c.states) \/ order = 0 THEN Stays(cut.m, k)
      ELSE IF cut.n = 0 THEN Gone(cut.m, k)
      ELSE IF cut.n = 1 THEN Stays([cut.m EXCEPT !.ctx[k] = OneLeft(@)], k)
      ELSE Stays([cut.m EXCEPT !.ctx[k] = ShrinkContext(@, cut.n, cut.m.ctx[k].summ > 16 * (cut.n - 1))], k)

(* Binary contexts that lead nowhere go, unless the suffix may stay.       *)
RECURSIVE RemoveBinConts(_, _, _)
RemoveBinConts(m, k, order) ==
  LET c == m.ctx[k]
      below(acc, i) ==
        IF Leads(acc, acc.ctx[k].states[i]) /\ order < MaxOrder
          THEN SetAt(RemoveBinConts(acc, ContextAt(acc.ctx[k].states[i].succ), order + 1), k, i)
          ELSE SetSucc(acc, <<k, i>>, 0)
      all == FoldLeft(below, m, Reverse([i \in 1 .. Len(c.states) |-> i]))
      suffix == all.ctx[c.suffix]
  IN  IF Binary(c) /\ all.ctx[k].states[1].succ = 0 /\ (Binary(suffix) \/ suffix.flags = Freed)
        THEN Gone(all, k) ELSE Stays(all, k)

RECURSIVE RootOf(_, _)
RootOf(m, k) == IF m.ctx[k].suffix = 0 THEN k ELSE RootOf(m, m.ctx[k].suffix)

(* Contexts are cut off until a quarter of the heap is free.               *)
RECURSIVE CutEnough(_, _)
CutEnough(m, root) ==
  LET enough(cut) == IF 4 * Used(cut) <= 3 * Size THEN cut
                     ELSE IF cut = m THEN [m EXCEPT !.lost = TRUE] ELSE CutEnough(cut, root)
  IN  enough(CutOffContext(m, root, 0).m)

-----------------------------------------------------------------------------
(* The contexts up to the one that could not grow lose the symbol again,   *)
(* those after it count less; then the room is made.                       *)
Lessened(m, k) ==
  LET c == m.ctx[k]
  IN  [m EXCEPT !.ctx[k] = IF Len(c.states) = 2 THEN OneLeft(c) ELSE ShrinkContext(c, Len(c.states) - 1, FALSE)]

Weakened(m, k) ==
  LET c    == m.ctx[k]
      more == [c EXCEPT !.summ = @ + 4]
  IN  [m EXCEPT !.ctx[k] = IF Binary(c) THEN [c EXCEPT !.states[1].freq = (@ + 1) \div 2]
                           ELSE IF more.summ > ScaleSum + 4 * (Len(c.states) - 1)
                                  THEN ShrinkContext(more, Len(c.states), TRUE) ELSE more]

RestoredFrom(weak, root, succ) ==
  LET again == [weak EXCEPT !.max = root, !.fall = MaxOrder]
  IN  IF weak.restored THEN [weak EXCEPT !.max = ContextAt(succ), !.lost = @ \/ IsText(succ)]
      ELSE IF weak.method = Freeze THEN [RemoveBinConts(again, root, 0).m EXCEPT !.restored = TRUE]
      ELSE IF weak.method = Restart \/ 2 * Used(weak) < Size THEN RestartModel(weak)
      ELSE CutEnough(again, root)

RestoreModel(m, k, minimum, succ) ==
  LET less       == FoldLeft(Lessened, [m EXCEPT !.ptext = 1], Chain(m, m.max, k))
      from(weak) == RestoredFrom(weak, RootOf(weak, weak.max), succ)
  IN  from(FoldLeft(Weakened, less, Chain(m, k, minimum)))

-----------------------------------------------------------------------------
(* Adds the symbol to the contexts from k to the minimum; at is the        *)
(* context that could not grow, or the minimum.                            *)
AddSymbolI(m, k, fs, succ, minnum, s0) ==
  LET c     == m.ctx[k]
      n     == Len(c.states)
      first == Doubled(c.states[1])
      grown == IF n = 1 THEN [c EXCEPT !.states = <<first>>, !.summ = FirstSum(m, first, minnum)]
               ELSE [c EXCEPT !.summ = @ + (IF 3 * n - 1 < minnum THEN 1 ELSE 0)]
      freq  == NewFrequency(2 * fs.freq * (grown.summ + 6), s0 + grown.summ, 1)
  IN  [m EXCEPT !.ctx[k] = [grown EXCEPT !.states = Append(@, State(fs.sym, freq, succ)),
                                         !.summ = @ + IF freq < 4 THEN 4 ELSE freq]]

RECURSIVE Added(_, _, _, _, _, _, _)
Added(m, k, minimum, fs, succ, minnum, s0) ==
  LET n == Len(m.ctx[k].states)
  IN  IF k = minimum \/ ~HasRoom(m, StateUnits(n + 1) - StateUnits(n)) THEN [m |-> m, at |-> k]
      ELSE Added(AddSymbolI(m, k, fs, succ, minnum, s0), m.ctx[k].suffix, minimum, fs, succ, minnum, s0)

(* As in variant H, except that a symbol without a successor gets one from *)
(* a shorter context, and that a frozen model makes no contexts.           *)
WayFrom(written, fs, state) ==
  LET led(made) == [m |-> made.m, succ |-> IF made.context = 0 THEN 0 ELSE Address(made.context)]
  IN  IF fs.succ = 0 THEN ReduceOrder(written, state, written.min)
      ELSE IF IsText(fs.succ) THEN led(CreateSuccessors(written, FALSE, state, written.min))
      ELSE [m |-> written, succ |-> fs.succ]

Lowered(m, lower) ==
  IF lower.fall = 0 THEN [lower EXCEPT !.ptext = IF m.max # m.min THEN @ - 1 ELSE @]
  ELSE IF m.restored THEN [lower EXCEPT !.ptext = 1, !.fall = 0] ELSE lower

AddedFrom(m, fs, lower, minimum, succ) ==
  Added(Lowered(m, lower), m.max, m.min, fs, IF lower.fall = 0 \/ m.restored THEN succ ELSE m.ptext + 1,
        Len(minimum.states), minimum.summ - Len(minimum.states) - (fs.freq - 1))

(* What came of an update: the model, the context that had no room (at = 0:*)
(* there was room), and the successor known so far.                        *)
Result(m, k, succ) == [m |-> m, at |-> k, succ |-> succ]

Ended(m, added, succ) ==
  IF added.at # m.min THEN Result(added.m, added.at, succ)
  ELSE Result([added.m EXCEPT !.max = ContextAt(succ)], 0, succ)

Along(m, fs, way) ==
  IF way.succ = 0 THEN Result(way.m, m.max, 0)
  ELSE Ended(m, AddedFrom(m, fs, [way.m EXCEPT !.fall = @ - 1], way.m.ctx[m.min], way.succ), way.succ)

WithText(m, written, fs, state) ==
  IF written.ptext > TextMax THEN Result(written, m.max, fs.succ)
  ELSE Along(m, fs, WayFrom(written, fs, state))

Led(m, fs, made) ==
  IF made.context = 0 THEN Result(SetSucc(made.m, m.found, 0), m.max, fs.succ)
  ELSE Result([SetSucc(made.m, m.found, Address(made.context)) EXCEPT !.max = made.context], 0, 0)

Updated(m, fs, bumped) ==
  IF m.fall # 0 \/ fs.succ = 0
    THEN WithText(bumped.m, [bumped.m EXCEPT !.text[m.ptext] = fs.sym, !.ptext = @ + 1], fs, bumped.state)
  ELSE Led(m, fs, CreateSuccessors(bumped.m, TRUE, bumped.state, m.min))

RestoredIf(result, minimum) ==
  ClearedIfWrapped(IF result.at = 0 THEN result.m ELSE RestoreModel(result.m, result.at, minimum, result.succ))
UpdateFrom(m, fs) == RestoredIf(Updated(m, fs, BumpSuffix(m, fs, MaxFreq - 9)), m.min)
UpdateModel(m) == UpdateFrom(m, At(m, m.found))

AfterSymbol(found) ==
  LET succ == At(found, found.found).succ
  IN  IF found.min = 0 THEN found
      ELSE IF found.fall = 0 /\ ~IsText(succ) THEN [found EXCEPT !.max = ContextAt(succ)]
      ELSE UpdateModel(found)

NextByte(m, sym, initEsc) ==
  LET start == [m EXCEPT !.min = m.max, !.since = IF sym = EndOfStream THEN @ ELSE Append(@, sym)]
      first == IF Binary(start.ctx[m.max]) THEN DecodeBinSymbol(start, sym, initEsc) ELSE DecodeSymbol1(start, sym)
  IN  AfterSymbol(Sought(first, sym))
=============================================================================
