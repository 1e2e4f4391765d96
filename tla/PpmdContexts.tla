---------------------------- MODULE PpmdContexts -----------------------------
(***************************************************************************)
(* The contexts of the PPMd models and what decoding a symbol does to the  *)
(* frequencies in them (ppmd/Context.c).                                   *)
(*                                                                         *)
(* A model is a record: ctx, the contexts, by the order they were made in; *)
(* max, min, the longest and the found symbol's context; found, the state  *)
(* found (<<context, place>>, NoState if none); fall, how many orders the  *)
(* longest context is below the highest, and escapes since; mask, the      *)
(* escapes that passed each symbol; masked, how many states were passed;   *)
(* esc, the number of this escape; initEsc, the weight of an escape from a *)
(* context of one symbol; rescale, the variant whose way of halving the    *)
(* frequencies is used.  For the properties only, since has the bytes      *)
(* since the last restart, and lost says that a state was looked for where *)
(* it is not: the code would read on behind the states.                    *)
(*                                                                         *)
(* A context has its states (one: a binary context, which has no sum), the *)
(* sum of the frequencies with the weight of an escape, its suffix, its    *)
(* flags, and, for the properties only, the symbols it stands for.         *)
(***************************************************************************)
EXTENDS Integers, Sequences
LOCAL INSTANCE SequencesExt
LOCAL INSTANCE FiniteSetsExt

CONSTANTS Symbols,    \* 0 to the largest
          MaxFreq,    \* MAX_FREQ
          BinLimit,   \* the highest frequency in a binary context
          Escapes,    \* values of EscCount, which is a byte
          InitEscs,   \* what ExpEscape may answer
          HeapUnits   \* units of the heap, for contexts and states

State(sym, freq, succ) == [sym |-> sym, freq |-> freq, succ |-> succ]
Context(states, summ, suffix, flags, path) ==
  [states |-> states, summ |-> summ, suffix |-> suffix, flags |-> flags, path |-> path]

InOrder(states) == SetToSortSeq(states, LAMBDA s, t : s.sym < t.sym)
NoState   == <<0, 0>>
EndOfStream == -1   \* a symbol no context has
RareLimit == MaxFreq \div 4 + 1
Binary(c) == Len(c.states) = 1
At(m, p)  == m.ctx[p[1]].states[p[2]]
Place(c, sym) == SelectInSeq(c.states, LAMBDA s : s.sym = sym)
Total(states) == FoldLeft(LAMBDA n, s : n + s.freq, 0, states)
SetSucc(m, p, succ) == [m EXCEPT !.ctx[p[1]].states[p[2]].succ = succ]

(* AllocContext and AllocUnits, as far as the room goes.                   *)
StateUnits(n) == IF n < 2 THEN 0 ELSE (n + 1) \div 2
Freed == 255
Used(m) == FoldLeft(LAMBDA n, c : IF c.flags = Freed THEN n ELSE n + 1 + StateUnits(Len(c.states)), 0, m.ctx)
HasRoom(m, units) == Used(m) + units <= HeapUnits

-----------------------------------------------------------------------------
(* Halves the frequencies, most frequent first, and drops those that       *)
(* become zero.                                                            *)
Inserted(states, s) ==
  LET k == Cardinality({i \in DOMAIN states : states[i].freq >= s.freq}) IN InsertAt(states, k + 1, s)

RECURSIVE HalvedTogether(_, _)
HalvedTogether(freq, esc) ==
  LET f == (freq + 1) \div 2 IN IF esc \div 2 > 1 THEN HalvedTogether(f, esc \div 2) ELSE f

HalvedBy(freq, esc) == Min({(2 * freq + esc - 1) \div esc, MaxFreq \div 3})

RescaleBy(m, k, adder) ==
  LET c      == m.ctx[k]
      bumped == [c.states EXCEPT ![m.found[2]].freq = @ + 4]
      halved == FoldLeft(LAMBDA out, s : Inserted(out, [s EXCEPT !.freq = (@ + adder) \div 2]), <<>>, bumped)
      kept   == SelectSeq(halved, LAMBDA s : s.freq > 0)
      esc    == c.summ + 4 - Total(bumped) + Len(halved) - Len(kept)
      alone  == IF m.rescale = "I" THEN HalvedBy(kept[1].freq, esc) ELSE HalvedTogether(kept[1].freq, esc)
  IN  [m EXCEPT !.found = <<k, 1>>,
                !.ctx[k] = IF Len(kept) = 1 THEN [c EXCEPT !.states = <<[kept[1] EXCEPT !.freq = alone]>>, !.summ = 0]
                           ELSE [c EXCEPT !.states = kept, !.summ = Total(halved) + (esc + 1) \div 2]]

(* Only a context of the highest order may lose a symbol.                  *)
(* Faulty: any context may.                                                *)
RescaleDropping(m, k) == RescaleBy(m, k, 0)
RescaleContext(m, k) == RescaleBy(m, k, IF m.fall = 0 /\ ~(m.rescale = "I" /\ m.restored) THEN 0 ELSE 1)

-----------------------------------------------------------------------------
(* The symbol is the one of a binary context, or it is not.                *)
DecodeBinSymbol(m, sym, initEsc) ==
  LET s == m.ctx[m.min].states[1]
  IN  IF s.sym = sym
        THEN [m EXCEPT !.found = <<m.min, 1>>, !.ctx[m.min].states[1].freq = IF @ < BinLimit THEN @ + 1 ELSE @]
        ELSE [m EXCEPT !.found = NoState, !.masked = 1, !.mask[s.sym] = m.esc, !.initEsc = initEsc]

CountedAt(m, p) ==
  [m EXCEPT !.ctx[p[1]].states[p[2]].freq = @ + 4, !.ctx[p[1]].summ = @ + 4, !.found = p]
RescaledIf(condition, m) == IF condition THEN RescaleContext(m, m.min) ELSE m

Passed(m, c) == [m EXCEPT !.found = NoState, !.masked = Len(c.states),
                          !.mask = [s \in Symbols |-> IF Place(c, s) # 0 THEN m.esc ELSE @[s]]]

(* A symbol found moves up one place if it has become the more frequent.   *)
DecodeSymbol1(m, sym) ==
  LET c    == m.ctx[m.min]
      i    == Place(c, sym)
      more == CountedAt(m, <<m.min, i>>)
      here == At(more, <<m.min, i>>)
      ahead == At(more, <<m.min, i - 1>>)
      up   == [more EXCEPT !.ctx[m.min].states[i] = ahead, !.ctx[m.min].states[i - 1] = here, !.found = <<m.min, i - 1>>]
  IN  IF i = 0 THEN Passed(m, c)
      ELSE IF i > 1 /\ here.freq <= ahead.freq THEN more
      ELSE RescaledIf(here.freq > MaxFreq, IF i = 1 THEN more ELSE up)

(* The symbol is sought among those that were not passed before.           *)
DecodeSymbol2(m, sym) ==
  LET c    == m.ctx[m.min]
      left == SelectSeq(c.states, LAMBDA s : m.mask[s.sym] # m.esc)
      i    == Place(c, sym)
      seen == [m EXCEPT !.lost = @ \/ Len(left) # Len(c.states) - m.masked]
      more == CountedAt(seen, <<m.min, i>>)
  IN  IF i = 0 THEN Passed(seen, c)
      ELSE [RescaledIf(At(more, more.found).freq > MaxFreq, more) EXCEPT !.esc = (@ + 1) % Escapes]

(* Escapes lead to shorter and shorter contexts, past those that have no   *)
(* more symbols than the last.                                             *)
RECURSIVE Escaped(_, _)
Escaped(m, masked) ==
  LET up == [m EXCEPT !.fall = @ + 1, !.min = m.ctx[m.min].suffix]
  IN  IF up.min # 0 /\ Len(up.ctx[up.min].states) = masked THEN Escaped(up, masked) ELSE up

RECURSIVE Sought(_, _)
Sought(m, sym) ==
  IF m.found # NoState THEN m
  ELSE LET up == Escaped(m, m.masked)
       IN  IF up.min = 0 THEN up ELSE Sought(DecodeSymbol2(up, sym), sym)

ClearedMask(m) == [m EXCEPT !.esc = 1, !.mask = [s \in Symbols |-> 0]]
(* The escapes are counted in a byte, and 0 is in every mask after that.    *)
(* Faulty: the masks of the escapes before are kept.                       *)
KeptWhenWrapped(m) == [m EXCEPT !.esc = IF @ = 0 THEN 1 ELSE @]
ClearedIfWrapped(m) == IF m.esc = 0 THEN ClearedMask(m) ELSE m

-----------------------------------------------------------------------------
(* The weight of a symbol in a context it is new in, given its frequency   *)
(* where it was found; variant I wants one above the limits of 5 to 7.     *)
NewFrequency(cf, sf, above) ==
  IF cf < 6 * sf THEN IF cf >= 4 * sf THEN 3 ELSE IF cf > sf THEN 2 ELSE 1
  ELSE IF cf >= 15 * sf + above THEN 7 ELSE IF cf >= 12 * sf + above THEN 6 ELSE IF cf >= 9 * sf + above THEN 5 ELSE 4

(* The found symbol's place in the suffix of its context, where it counts  *)
(* as well as long as it is rare.                                          *)
BumpSuffix(m, fs, limit) ==
  LET k == m.ctx[m.min].suffix
      c == m.ctx[k]
      i == Place(c, fs.sym)
      j == IF i > 1 /\ c.states[i].freq >= c.states[i - 1].freq THEN i - 1 ELSE i
      moved == IF j = i THEN c.states ELSE [c.states EXCEPT ![j] = c.states[i], ![i] = c.states[j]]
      fits  == moved[j].freq < limit
  IN  IF fs.freq >= MaxFreq \div 4 \/ k = 0 THEN [m |-> m, state |-> NoState]
      ELSE IF Binary(c) THEN [m |-> [m EXCEPT !.ctx[k].states[1].freq = IF @ < RareLimit THEN @ + 1 ELSE @], state |-> <<k, 1>>]
      ELSE IF i = 0 THEN [m |-> [m EXCEPT !.lost = TRUE], state |-> NoState]
      ELSE [m |-> IF fits THEN [m EXCEPT !.ctx[k].states = [moved EXCEPT ![j].freq = @ + 2], !.ctx[k].summ = @ + 2]
                  ELSE [m EXCEPT !.ctx[k].states = moved],
            state |-> <<k, j>>]

(* The contexts from one to another, along the suffixes.                   *)
RECURSIVE Chain(_, _, _)
Chain(m, from, to) == IF from = to THEN <<>> ELSE <<from>> \o Chain(m, m.ctx[from].suffix, to)

-----------------------------------------------------------------------------
(* There was no room for a context or for states.                           *)
Failed(m) == [m EXCEPT !.min = 0]

(* The only state of a context made for a place in the text.               *)
(* Faulty: it leads to the same place again.                               *)
StateInPlace(sym, freq, up) == State(sym, freq, up)
FirstState(sym, freq, up) == State(sym, freq, up + 1)

(* The frequency of the only symbol of a new context.                      *)
FirstFrequency(c, sym) ==
  LET cf == c.states[Place(c, sym)].freq - 1
      s0 == c.summ - Len(c.states) - cf
  IN  IF Binary(c) THEN c.states[1].freq
      ELSE IF 2 * cf <= s0 THEN IF 5 * cf > s0 THEN 2 ELSE 1
      ELSE 1 + (2 * cf + 3 * s0 - 1) \div (2 * s0)

(* The symbol is added to a context it is new in; minnum is the number of  *)
(* symbols where it was found, s0 what the others weigh there.             *)
Doubled(s) == [s EXCEPT !.freq = IF @ < MaxFreq \div 4 - 1 THEN 2 * @ ELSE MaxFreq - 4]

(* The sum a context gets with its second symbol.                          *)
(* Faulty: there is nothing for the escape.                                *)
WithoutEscape(m, first, minnum) == first.freq
FirstSum(m, first, minnum) == first.freq + m.initEsc + IF minnum > 3 THEN 1 ELSE 0

AddSymbol(m, k, fs, succ, minnum, s0) ==
  LET c     == m.ctx[k]
      n     == Len(c.states)
      first == Doubled(c.states[1])
      grown == IF n = 1 THEN [c EXCEPT !.states = <<first>>, !.summ = FirstSum(m, first, minnum)]
               ELSE [c EXCEPT !.summ = @ + (IF 4 * n <= minnum /\ @ <= 8 * n THEN 2 ELSE 0) + (IF 2 * n < minnum THEN 1 ELSE 0)]
      freq  == NewFrequency(2 * fs.freq * (grown.summ + 6), s0 + grown.summ, 0)
  IN  [m EXCEPT !.ctx[k] = [grown EXCEPT !.states = Append(@, State(fs.sym, freq, succ)),
                                         !.summ = @ + IF freq < 4 THEN 3 ELSE freq]]

(* AddSymbol in all contexts of the chain, as long as there is room.       *)
AddToChain(m, chain, fs, succ, minnum, s0) ==
  FoldLeft(LAMBDA acc, k : IF acc.min = 0 \/ ~HasRoom(acc, StateUnits(Len(acc.ctx[k].states) + 1) - StateUnits(Len(acc.ctx[k].states)))
                             THEN Failed(acc) ELSE AddSymbol(acc, k, fs, succ, minnum, s0), m, chain)
=============================================================================
