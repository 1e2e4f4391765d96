# Verification of Aaru.Compression.Native

The library is a collection of decoders (and a few encoders) of the formats
found in old disk images and archives, written in C, with no threads of its
own and no input but the caller's buffers.  What can go wrong in it is seldom
concurrency: it is state that lives through a long sequence of steps - a ring,
a code table, a tree that adapts, a heap, a queue of filters - and a boundary
that only one sequence in many thousands reaches.  That is what these modules
model: each is one such piece of state, with one action for each operation or
turn of a loop of the code, checked by TLC on small instances and, for the
parts where the argument is general, proved by TLAPS for all of them.

## The system

### Inventory

Each part below is a directory or a few files at the root of the repository.
"State" is what survives from one operation to the next.

| part | state | operations | hard behaviours |
|---|---|---|---|
| `rar/lzss.[ch]` | ring, `position` | restart, literal, match, copy out | wrap of source and destination, matches that overlap what they write, copies that end at the ring's end |
| `lha/lzss.[ch]` | ring, `position`, the caller's buffer and its fill | literal, match | the same, while the buffer fills in the middle of a match; `position` moves once per match |
| `rar/rar30.c`, `rar/filters.c` | window, code tables, match history, PPMd model, programs, queue of filters | block header, literal or match, declare a filter, output stage | filters declared ahead of their data, programs freed while filters are queued, blocks that chain, overlap or leave the data |
| `rar/rar50.c` | window, tables, match history, list of filters | block header, literal or match, declare a filter, flush a stretch | a stretch that ends at a filter, at the window's edge or at the end of a block |
| `rar/vm.c` | memory, registers, flags, a program's globals | prepare, invoke | programs without an end, globals that outlive an invocation |
| `lha/lh1.c`, `apple_lzh.c` | adaptive Huffman tree | walk to a symbol, count it, rebuild | swaps that rewire a tree and a sorted array together, a rebuild in place at 0x8000 counts |
| `stuffit/lzah.c` | the same tree with child links that are positions | the same | positions and identities mixed |
| `lha/lh_old.c` | two trees with blocks of equal weights from one stock | walk, count, new leaf, rebuild | nodes that enter and leave blocks one at a time |
| `zoo/lzd.c` | dictionary, bit buffer, stack of bytes not yet delivered, the caller's chunk | Init, Feed, Drain | input that ends within a code, output that fills within a string, full table, change of width |
| `arc/`, `pak/` | LZW tables, statics in `arc/lzw.c` | decode a stream | static state that survives a stream, eviction of table entries (crush) |
| `zip/` | tables of shrink, implode, reduce, deflate64, blast | decode a stream | partial clear of shrink's table, tables built on first use |
| `zoo/decode.c`, `huf.c`, `lh5.c` | statics | decode a stream | state shared by all streams |
| `ppmd/SubAllocator*.c` | free lists by size, the gap between units and contexts | AllocContext, AllocUnits, ExpandUnits, ShrinkUnits, FreeUnits, Init | splits whose remainder is no size, glueing, exhaustion, free links inside the blocks |
| `ppmd/Variant*.c`, `Context.c`, `RangeCoder.c` | context tree, range coder | decode a byte, restart | successors into text and units, rescaling, restart, cutting off and freezing |
| `lha/lh_static.c`, `larc.c`, `pmarc1.c`, `huffman.c`, `bitio.c` | bit reader, prefix codes, window | decode a stream | end of input, incomplete codes |
| `stuffit/` | per method: tables, models, block transforms | decode a stream | LZW with block codes, Burrows-Wheeler inverses, several streams interleaved |
| `ha/`, `ace/`, `arj/`, `arjz/`, `cpt/`, `dd/` | dictionaries, models, tables | decode a stream | HA keeps its context in file-wide statics |
| `lzip.c`, `flac.c`, `library.c`, `zip/zip.c` | another library's stream object, tables built once | encode or decode a buffer, answer a callback | loops that feed and drain, error returns, short buffers, an initialisation without a lock |
| `apple_rle.c`, `adc.c`, `kencode.c` | statics in `apple_rle.c` | decode a buffer | state that survives a call |
| `3rdparty/`, WavPack, dictionaries | - | - | third-party code and data |

The parts interact by plain calls within one call of the library: a decoder
reads bits, decodes a symbol with a prefix code or a tree, and tells its
window to emit a literal or a match; RAR 3 and the StuffIt methods that use
PPMd call a model, which calls a sub-allocator through the table of functions
in `ppmd/SubAllocator.h`; RAR's output stage reads back the window and runs
the virtual machine.  Only the Zoo LZD decoder and the wrappers of lzlib and
FLAC have a loop that is fed and drained; only Zoo's has it in its interface.
Nothing is persisted and there are no messages or timeouts, so there is
nothing to model of crashes, lost messages or retries.  What plays the part of
the environment is the caller (sizes of chunks and buffers), the encoder of
the stream, and the library behind a wrapper.

What makes each part correct:

- a window: what it holds is the tail of the stream; a match reads what it
  would read from the whole stream, even what it has just written; what comes
  out is the stream, cut only by the caller's capacity;
- an adaptive tree: it stays a binary tree under its root, in order of weight,
  each branch weighing what its children weigh; nothing is written outside its
  arrays; the code it stands for is a best one for the counts; an update ends;
- an LZW decoder: what it delivers does not depend on how the caller cuts
  input and output, the status it returns is true, and all is delivered;
- the filters: each byte of the stream comes out once, in order, run through
  the filters declared over it; no filter runs a program that was freed; the
  caller's buffer is not overrun; the output stage ends;
- a sub-allocator: every unit of the heap has one owner; what the model wrote
  into a block is there until it frees it, and follows it when it moves;
- a PPMd model: its states have room for an escape, its successors say what
  followed in the text;
- a transform: what its encoder, or the format, means comes back;
- a wrapper: an undamaged stream that fits arrives whole, a failure that the
  library behind it tells is told, and callbacks hand over every byte once.

### Plan

Done: the windows; the filters of RAR 3 and 5 and RAR's virtual machine; the
three adaptive trees; the LZW decoders of Zoo, ARC and shrink; PPMd's
sub-allocators and models; prefix codes, block sorts, run lengths and the
numbers of matches; the wrappers.  Proofs of the windows, of -lh1-'s tree, of
RAR's filters, of the wrappers, and of the LZW decoders of Zoo, ARC and shrink.

Left, in order of importance:

1. **Proofs of the sub-allocators.**  `HeapIsTiled` and `LinksSurvive`, for which
   `PpmdUnits`' RECURSIVE operators must become functions first.
2. **More decoders.**  The eviction of `pak/crush.c`, the block codes of
   `stuffit/compress.c`, the contexts HA keeps in statics, RAR 1.5.

Theorem modules extend the module they are about.  A module meant for proofs
uses no RECURSIVE operator.

## The modules

| module | models | state and actions |
|---|---|---|
| `LzHistory` | what a window promises (abstract) | the stream so far and the match under way; a literal, the beginning of a match, one byte of it |
| `LzssWindow` | `rar/lzss.c`, `rar/lzss.h` | `window`, `position` as in `rar_lzss_t`; `copy` is the loop of `rar_lzss_emit_match`, one action per turn; `CopyBytes` is `rar_lzss_copy_bytes`, a pure function of the window |
| `LhaLzss` | `lha/lzss.c`, `lha/lzss.h` | adds `out_buf`, `out_pos`; `position` moves when the match is over, as in the code |
| `Rar30Filters` | `rar/rar30.c` from 372, `rar/filters.c` | `DeclareNumbered`, `DeclareCleared`, `DeclareLast` are the three ways through `rar30_parse_filter`; the output stage is the walk (`CopyUnfiltered`, `Finish`) and the loop of `rar30_apply_filters` (`EnterFilters`, `RunFirst`, `RunChained`, `FlushBlock`, `LeaveFilters`) |
| `Rar50Stream` | the loop of `rar/rar50.c`, `rar/filters.c` | blocks, tokens, the list of filters, where a stretch ends, what a flush writes |
| `RarVm` | `rar/vm.c` | a program prepared, each instruction, an invocation and the globals it leaves |
| `SymbolCounts` | what an adaptive tree counts (abstract) | a count per symbol, incremented, all halved at once |
| `AdaptiveHuffman` | `lha/lh1.c`, `apple_lzh.c` | the fields of `lh1_node`, `nodes[]`, and `pc` for the loop that runs: each turn of each loop of the walk, the update, the swap and the rebuild is a step |
| `LzahTree` | `stuffit/lzah.c` | the same fields with child links by position; counting, the scan to the front, the swap, the rebuild |
| `DynamicTrees` | `lha/lh_old.c` | both trees of -lh2- with their blocks, edges and stock; of the rebuild in place (`Merged`), the leaves the inner loop places before a pair, as many as are lighter than it, and what is left to shift |
| `BitStrings` | `pak/bitstream.c`, the encoders | a code's bits on the wire and the number they stand for |
| `LzwText` | what an LZW encoder's codes mean (abstract) | codes sent and not read, the entries by their strings, the text |
| `ZooLzd` | `zoo/lzd.c` | the dictionary, the bit buffer as the sequence of its bits, the rest of the chunk, the stack, `outpos`; one action per way through the body of `LZD_Drain`'s loop; `Feed` and `Drain` are the caller's |
| `ArcLzw` | `arc/lzw.c` | `reader` is the statics of `getcode` and the file, the rest the locals of `arc_decompress_lzw`; `ArcFirstCode` and `NextCode` are the code before the loop and one turn of it, the second read after a CLEAR included; `Call` is what a call sets, `Another` the next stream |
| `ZipShrink` | `zip/shrink.c` | `dict`, `next_code`, `code_size`, `prev_code`; one action per way through the loop, a control code in two steps |
| `PpmdHeap` | what a sub-allocator promises (abstract) | where each block is and the words in it |
| `PpmdUnits`, `PpmdVariants` | `ppmd/SubAllocator*.c` | an allocator is a record; the operations the four have in common, and the four |
| `PpmdAllocators` | the model as a client of the heap | grows, shrinks, frees and moves blocks, writes text, starts over or is cut back when refused |
| `PpmdContexts`, `PpmdModelG`, `PpmdModelH`, `PpmdModelI` | `ppmd/Context.c`, `ppmd/Variant*.c` | contexts, states, suffixes and successors; what decoding a symbol does to them |
| `PrefixCodes` | `rar/huffman.c`, `lha/huffman.c`, `pak/prefixcode.c`, `zoo/maketbl.c`, `ace/huffman.c` | functions from widths to tables and trees, and of these to symbols; the coded lists of widths |
| `BlockSort` | `stuffit/bwt.c`, `stuffit/iron.c` | the inverses of the two block sorts, the ranks |
| `RunLengths` | `arc/pack.c`, `arc/squeeze.c`, `stuffit/rle90.c`, `cpt/cpt.c`, `zip/reduce.c`, `adc.c`, `apple_rle.c` | functions from a coded to a decoded text, with the room of the destination |
| `MatchCodes` | the LZ77 decoders | the numbers each symbol stands for; the distances remembered |
| `MatchTexts` | the loops of the LZ77 decoders | functions from tokens to text, with their blocks, ends and the room of the destination |
| `LibraryCalls` | `library.c`, `lzip.c`, `flac.c`, `zip/zip.c` | a call, given everything at once (`Answers`, `Returned`) or in a loop of the code's own (`LzipStep`, `FlacBlock`), with or without the memory it asks for, the callbacks of a reader, the threads that build the tables |
| `MC*` | - | values for TLC, and definitions only TLC evaluates |
| `*Proofs`, `NatLemmas` | - | theorems; facts about remainders, sums, sets of numbers, powers of two and bits that the proofs share |

Conventions.  Actions, variables and constants keep the names of the code where
they can.  A definition that stands just before another and changes it in one
point (`SlotWithMaskTooSmall`, `QueueKeptByClear`, ...) is that definition
with a likely mistake in it: each property is known to fail when the
mistake is made, and which is which is listed in `PROJECT.json` under
`mutants`.  None of them is used by a specification.

Data is abstract where the properties allow it.  In `Rar30Filters` and
`Rar50Stream` a byte is its position in the stream and the filters run over
it, so that a byte lost, repeated, misplaced or filtered twice is another
value.  In the sub-allocators a unit is one word.  In `LibraryCalls` a stream
is how many of its units are there and how many the library behind the call
finds nothing wrong with; damage it cannot notice makes another text.  In `ZooLzd` bits are real bits, because
the width of the codes and the cut of the chunks are what is checked; there
are fewer of them.

Composition.  Parts that never run at the same time share a run: one of them
moves while the others are in their initial state (`MCRarStreams`,
`MCEntryPoints`, `MCAdaptiveModels`, `MCLzwDecoders`).  The state
space is the sum of theirs, not the product.

Environment.  `ZooLzd` composes the decoder with the encoder of its
stream (`Send`, `NewEncoder`: any legal sequence of codes, the widths of an
encoder that grows its table with the decoder) and with the caller of
`tests/zoo/lzd.cpp`, which feeds on NEED_INPUT and drains otherwise.  The
client of `ArcLzw` and of `ZipShrink` is an encoder that keeps its own table, by
numbers of entries or by strings, and sends any code it may; ARC's may, in one
run, break a stream off with a code that is none.  What ARC's tables hold before
an entry is made is whatever `malloc` returned: a choice of `Call`.  ZIP's
encoder clears a full table only.  The client of the sub-allocators is the
PPMd model reduced to what it asks of the heap.  The libraries behind
`LibraryCalls` may cut, cap and refuse as their interfaces allow: definitions
of theirs are marked external in `PROJECT.json`.  One call on lzlib is not as its
interface means it: `lzip.c:73` asks `LZ_compress_finished` about a decoder
(`FinishedAnswers`, `StrayReads`).  With pointers of eight bytes the decoder is
refused, which overwrites the error it may have met; with pointers of four it is
taken for an encoder, and the loop may stop at any turn.

## What the runs check

Five runs pass and seven show a disagreement of the code with what a comment or a
header says of it (see Findings).  States are distinct states.

| run | module, configuration | properties | what is in it |
|---|---|---|---|
| `rar_streams` | `MCRarStreams` | `WindowIsTail`, `CopyOutIsExact`, `QueueIsCurrent`, `OutputIsClippedStream`, `FiveIsFilteredStream`; `ImplementsHistory`, `OutputEnds`, `FiveEnds` | RAR's ring, RAR 3's filters and output, RAR 5's loop; 604,706 states |
| `entry_points` | `MCEntryPoints` | `WindowIsTail`, `OutputIsStreamPrefix`, `CallsKeepTheirWord`, `CallbacksServe`, `CodesAreCanonical`, `SortedTextsComeBack`, `PackedTextsComeBack`, `ProgramsComputeTheirResults`, `MatchesComeBack`, `TextsArrive`; `ImplementsHistory`, `EveryCallReturns`, `FlagsAndGlobalsAreTrue` | LHA's ring, the calls on other libraries, the callbacks, the threads; each pure algorithm, a state per input, and the virtual machine step by step; 150,046 states |
| `adaptive_models` | `MCAdaptiveModels` | `RebuildInBounds`, `TreeIsLinked`, `WeightsAreConsistent`, `CodeIsOptimal`, `ParentsCountTheirChildren`, `ContextsStaySound`, `SuccessorsFollowTheText`, `DynamicTreesAreSound`; `ImplementsCounts`, `EverySymbolEnds`, `RebuiltCodeFollowsCounts` | the three adaptive trees and the PPMd models; 188,422 states |
| `lzw_decoders` | `MCLzwDecoders` | `ReturnsAreTrue`, `OutputIsText`, `StringsArrive`; `ImplementsLzw`, `EverythingIsDelivered` | the decoders of Zoo, ARC and shrink with their encoders; 1,209,660 states |
| `ppmd_heaps` | `MCPpmdAllocators` | `HeapIsTiled`, `LinksSurvive`; `ImplementsHeap` | the four sub-allocators; 275,277 states |
| `lzah_adapts`, `lzah_climb` | `LzahTree` with `LzahTreeAdapts.cfg`, `LzahTreeEnds.cfg` | `CodeAdapts`; `EveryClimbEnds` | StuffIt's LZAH tree, violated |
| `arc_lzw_after_error` | `MCLzwDecoders` with `MCArcLzwAfterError.cfg` | `OutputIsText` | a stream after one that broke off, violated |
| `rar30_long` | `MCRarStreams` with `MCRar30Long.cfg` | `OutputIsDecodedStream` | a stream longer than the window, violated |
| `rar50_small_window` | `MCRarStreams` with `MCRar50Small.cfg` | `FiveIsFilteredStream` | a stretch as long as the window, violated |
| `calls_fit` | `MCEntryPoints` with `MCEntryPointsFit.cfg` | `SizesFit` | a destination of FLAC that is not whole samples, violated |
| `rar_vm_ends` | `MCRarVm` | `StaysInProgram` | a program that ends with `JZ`, violated |

Bounds, and why they are enough:

- **Windows.**  A ring of 4, matches of up to 3, offsets up to 5 and streams of
  7: the ring is overwritten almost twice, every match length meets every
  position, and offsets equal to the ring and beyond it occur.  LHA's buffer
  holds 6 of them, so it fills inside a match.
- **RAR 3.**  A window of 8, an output of 5, two programs, up to three pending
  filters, blocks of 1 and more: overlapping, chained, empty and overhanging
  blocks, redeclarations after a clear.
- **RAR 5.**  A window of 4 and stretches of 2, so that the ring is passed and a
  match crosses the end of a stretch, 7 bytes wanted, up to 3 filters at
  distances and of lengths 0 to 2.
- **Calls.**  Texts to 6, destinations to 7, 3 units a write, FLAC's blocks of 2;
  a reader of a header of two bytes and a source of three with up to four
  requests; two threads that build two entries.  A loop needs a third turn and
  an end inside a turn; both occur.  Odd destinations and texts longer than they
  are, with and without damage, are among them.
- **Adaptive trees.**  4 leaves and a limit of 11 (-lh1-): three levels, three
  swaps in one climb, rebuilds of every shape these weights allow.  -lh2-:
  trees of 4, 6 and 3 symbols with a limit of 7, so that a rebuild has pairs
  before which two leaves are placed at once, and nothing is left to shift.
- **PPMd.**  Three symbols, order 3, counts to 12, a heap of 8 units, 7 bytes:
  rescaling, restart, cutting off.  Sub-allocators: heaps of 7 units with
  blocks of up to 5 in steps of 2 and 1, three blocks at once, interchangeable
  in a symmetry; glueing happens on every second refusal.  The code's 38 real
  sizes are checked in assumptions that TLC evaluates.
- **LZW.**  Zoo: 2 literals, codes of 2 and 3 bits, up to 6 codes, sent while fewer
  than 4 bits are unread, bytes of 2 bits, chunks of 1 and 3 bytes, buffers of 2: every way a
  code can lie across a chunk, a string across a buffer, and a table that
  fills.  ARC: 3 literals, 3 and 4 bits, bytes of 2, two streams of 6 codes and 1.  Shrink:
  codes of 2 and 3 bits, the two controls, 10 bytes.
- **Transforms.**  All inputs of up to 5 symbols from 5 values and of up to 8
  from 2, all lists of widths, all programs of the listed shapes.
- **LZAH.**  3 leaves with a limit of 11 and 4 with 9: the smallest that show the
  two errors.

`CHECK_DEADLOCK FALSE` stands in the configurations in which the system really
stops: the stream is as long as its bound, decoding has ended, the encoder has
no code left.  The sub-allocators never stop, and their run checks for deadlock.

### Fairness

What is fair is what a program that runs does: the next turn of a loop it is
in.  `AdaptiveHuffman` has weak fairness of the steps of an update (not of the
next symbol's arrival), `Rar30Filters` of the output stage, `Rar50Stream` of its
loop, `LibraryCalls` of `CallLoop`.  That RAR 5's loop ends supposes that the headers
of blocks do: behind the end of the source the bytes are zero, and no header of
zeros has the right checksum.  `ZooLzd` has it for the decoder's loop and
for the caller's `Feed` and `Drain` - the caller of the tests calls again until it
is told that the stream has ended - but for nothing the encoder does: what was
sent is delivered, whether more is sent or not.

## What is proved

Every theorem is proved for all values of the constants, from the named
assumptions of the modules only: a window has at least one slot and is filled
with bytes, a tree has at least two leaves and a limit above their number, sizes
are natural numbers, Zoo's first codes are wide enough for its special codes and
no narrower than a byte, and so are ARC's, shrink's hold its control code and have
two bits or more, memory that `malloc` returned holds any natural numbers.  TLC
evaluates each assumption in the runs above.

| module | theorem | what it says |
|---|---|---|
| `Rar50Proofs` | `TypeCorrect`, `WindowCorrect`, `CopyOutCorrect` | each slot of RAR's ring holds the newest byte of the stream that belongs there; `rar_lzss_copy_bytes` returns the bytes of the stream, wrapping or not |
| | `WindowImplementsHistory` | the ring implements `LzHistory`: reading a match from it is reading it from the whole stream |
| `LibraryCallsProofs` | `TypeCorrect`, `WindowCorrect`, `OutputCorrect`, `WindowImplementsHistory` | the same of LHA's ring, and the caller's buffer holds the beginning of the stream |
| `AdaptiveHuffmanProofs` | `TypeCorrect`, `RebuildCorrect` | the rebuild's counters stay in their arrays, for every distribution of weights |
| | `TreeCorrect`, `WeightsCorrect` | after every symbol the links agree and each branch weighs what its children weigh, in order |
| | `CountsCorrect` | the tree implements `SymbolCounts`: each update counts one symbol once, all counts are halved together |
| `Rar30Proofs` | `TypeCorrect`, `QueueCorrect` | a queued filter's program exists and its count is of this program since the last clear |
| | `OutputCorrect` | the caller's buffer is not overrun, and for a well-formed queue the output is the stream, each byte once, through the filters over it |
| `Rar50Proofs` | `ListCorrect`, `FiveCorrect` | the same of RAR 5's loop |
| `LibraryCallsProofs` | `CallsCorrect`, `CallbacksCorrect` | a sound stream that fits arrives whole and counted exactly, a failure is told, nothing is written beyond the destination but by the calls named in `MayOverrun`, the callbacks deliver every byte once and no thread reads a table not built |
| `ZooLzdProofs` | `TypeCorrect`, `ReturnsCorrect` | every string fits on the stack and the bits in their buffer; NEED_INPUT only when the chunk is used up, DONE only when all was decoded |
| | `LzwCorrect` | Zoo's decoder implements `LzwText`, however the input and the output are cut |
| `ZipShrinkProofs` | `ShrinkTypeCorrect`, `StringsCorrect` | an entry in use has the string the encoder entered it with, over partial clears: the string of every code is delivered, up to the buffer's end |
| `ArcLzwProofs` | `ArcTextCorrect` | ARC's decoder delivers the text of every stream's codes, up to the buffer's end, whatever the statics and memory held, as long as no stream holds a code that is none |

The arguments:

- **Windows.**  `TypeOK` carries the link of `position` with the length of the
  history.  Two positions with the same slot are a multiple of the size apart
  (`NatLemmas`), so a slot written last by the newest of them stays its own until
  a whole turn later; the index is `% Size`, so the size need not be the power of
  two the code has.  LHA's `position` is behind during a match; `CopySlots` says
  by how much.
- **-lh1-'s tree.**  `RebuildInBounds` is not inductive.  `CountersInv` adds what
  is still to be placed: leaves and branches left together always fill the slots
  left.  `Placing` says what has been placed forms a tree in order, `Weighing`
  that a climb leaves one node heavier than its children say (`SummedBut`) and
  one out of order (`SortedBut`), which the swap with the first node of its
  weight (`SwapPartner`) repairs; `Totalling` that the root's weight is the sum
  of the leaves'.  For `CountsCorrect` the mapping counts a leaf that the
  collecting loop has not reached as halved already, so that all counts are
  halved at one step.
- **RAR 3.**  `QueueInv` counts the queued filters by program.  `RingInv` says
  where the window still holds the stream, `SuffixInv` that the stack of filters
  is the rest of the declared ones, `Filtering` what the hand-over between the
  walk and the loop owes to the position.  A queue is well formed (`Ordered`)
  when its blocks are what an archiver declares: those that chain cover the same
  block, others begin behind it.
- **RAR 5.**  `RingHolds`, `ListIsSuffix`, `Written`, `InStretch`, `InFlush` and
  `Caught` say the same of a stretch and its flush.  `WindowIsAmple`, the window
  holds a stretch and a match, is a hypothesis, and a real one: without it the
  run `rar50_small_window` shows the property false.
- **Zoo's decoder.**  `Synced` says that the bits not read are the codes not read:
  there is a list of states from the decoder's to the encoder's, each reached
  from the one before by a code that may be sent there, and the bits are these
  codes, each in the width of its state, and the padding, which is shorter than
  a code (`Behind`).  Reading takes the first of them (`ReadNext`), sending adds
  one (`SendNext`).  So a code that is read is known, or is the entry being
  made, and EOF is the last.  `DictInv`: the chains of the tables descend and
  stay among the codes in use, so a string is no longer than its code is large
  and fits on the stack; a new entry leaves the other strings as they are
  (`SameText`).  `ExpandInv`: what is on the stack completes the string of
  `code` to that of `in_code`.  That 2 ^ n doubles is proved from the library's
  count of the subsets of n things: the provers know no powers.
- **Shrink's decoder.**  `StringsArrive` alone says nothing of the table.  `Agree`
  adds that the decoder uses the encoder's codes under the encoder's parents, and
  that a string which is not lost is its parent's, not lost either, and one
  character more.  A partial clear frees codes whose children stay, and an entry
  may take the place of its own parent: such strings are lost to both sides, and
  `KnownCodes` are those that may still be sent.  `ShrinkInv` is about what is on
  its way, too: while a code or a control code is not yet read there is an
  encoder with which the decoder agrees and which it turns into the one there is
  (`CodeOnItsWay`, `ControlOnItsWay`).  That the decoder's stack is large enough
  is a count: every beginning of a known string is the string of a code of its
  own (`StringsFit`).
- **ARC's decoder.**  An encoder has gone through one state for each code it
  sent, and what its codes mean through one text (`Sent`), so that every code has
  a place in the stream (`CodeAt`) that later codes and the padding of a group do
  not move.  Between two turns of the loop the decoder stands at one of these
  states: `ReaderAt` says that its buffer is the group this state was filling,
  its offset is behind the state's code and `size` is what `getcode` has to
  compare the offset with - at the end of a stream fewer bytes than a group -
  and `TableHolds` and `LastRead` that its tables are the text's entries.  The
  next read then refills exactly when the encoder left the group, for a new
  width, a CLEAR or because it was full (`SameGroup`, `RefillReads`,
  `StayReads`), and finds the end exactly behind the last code (`ReadEnd`), which
  leaves `size` at zero: the next stream starts as the first did.  A stream that
  breaks off at a code that is none leaves it positive.  `~Damaged` is a
  hypothesis of the theorem for this reason, and `arc_lzw_after_error` shows that
  it is needed.
- **Calls.**  `GoodAnswer` says what an answer of another library is worth, and
  `DoneInv` what the call makes of it.  `CallInv`: lzip's counters are true until
  damage is met, of an undamaged stream no more is read than could be decoded so
  far (`Decoded`), hence no more than its text, and a loop is left only when
  nothing is missing or, with pointers of four bytes, at a whim; FLAC's `out` is
  twice the samples read, or the destination is full, so it passes the end only
  when samples do not fill it.  `ReaderInv`: the reader has delivered the
  beginning of header and source, less the byte given back.  `ThreadsInv`: the
  entries behind a builder are built, and the flag is set only when all are.

Each inductive invariant was checked by TLC before it was proved, with constants
of its own where the runs' are small: -lh1-'s with two to five leaves, RAR 3's
with two sizes of window (377,422 states each), RAR 5's with two (199,413 and
198,588), the calls' with 150,046 states, Zoo's with 1,122,543, shrink's with
392,245, ARC's with 302,845.

Induction over data is stated of sets (`NatLemmas!Upwards`: a set that holds the
first number and with each its successor holds them all), and recursive
functions are proved to exist (`RecursionExists`, `SumsExist`) before they are
unfolded, since the provers take neither operators as parameters of a theorem
nor a recursive definition at its word.

### Only model-checked

- Liveness (`EverySymbolEnds`, `EverythingIsDelivered`, `OutputEnds`, `FiveEnds`,
  `EveryCallReturns`): fairness and `ENABLED` are out of the provers' reach.
- What is said of modules with RECURSIVE operators, to which the provers cannot
  be applied: `HeapIsTiled`, `LinksSurvive`, `ImplementsHeap`,
  `ContextsStaySound`, `SuccessorsFollowTheText`, `DynamicTreesAreSound`,
  `ParentsCountTheirChildren`, `RebuiltCodeFollowsCounts`, `CodesAreCanonical`,
  `PackedTextsComeBack`.
- What a recursive definition computes for every input: `CodeIsOptimal`,
  `SortedTextsComeBack`, `MatchesComeBack`, `TextsArrive`.
- RAR's virtual machine (`ProgramsComputeTheirResults`, `FlagsAndGlobalsAreTrue`):
  not proved yet.

## Findings

1. `stuffit/lzah.c:228`: child links are positions, and a swap changes both the
   links and what stands there, so the decode tree never adapts
   (`lzah_adapts`).
2. `stuffit/lzah.c:318`: the rebuild writes the parents of `storage[pair_idx]`,
   which is a position, and a later climb may not end (`lzah_climb`).  With four
   leaves the child links can form a cycle as well.
3. `rar/rar30.c:889`: a stream longer than the window has lost its beginning by
   the time it is copied out, with a return of 0 (`rar30_long`).
4. `rar/rar50.c:514`: when a stretch is the whole window, as it is up to 0x40000
   bytes, a match over its end overwrites its first bytes
   (`rar50_small_window`).
5. `arc/lzw.c:54`: after a stream that broke off, the next one reads codes left
   in the statics (`arc_lzw_after_error`).
6. `rar/vm.c:436`: a program that ends with `JZ` gets no RET (`rar_vm_ends`).
7. `flac.c:146`: the callback asks whether the end is reached and then writes a
   sample of two bytes, one of them beyond an odd destination; both calls then
   say so in `*dst_size` (`calls_fit`).

## What is not modelled, and remarks

- **PPMd, heaps.**  A unit past the heap's end is taken as not stamped; variant
  I's limit of 0x10000 bytes for a glued block is left out; variant G's allocator
  has no caller in the repository.  Text is counted in whole units, and a block
  is written as soon as it is given.
- **PPMd, models.**  The estimates (binary contexts, SEE), the flags and the range
  coder are abstract: any symbol may come where its context has it.  The sizes of
  text and heap are fixed.
- **-lh2-.**  The rebuild of `lh_old.c:366` is modelled as it runs: an inner loop
  that has placed two leaves leaves `i` below `l - 1`, and then nothing is
  shifted.  Both trees number their blocks from one stock of TREESIZE_C, which
  a contrived stream could exhaust.  -lh3-'s ready-made position code
  (`lha/lh_old.c:590`) is always refused.
- **Virtual machine.**  Words of 8 bits in two bytes of 4, 6 registers, 64 bytes of
  memory.  `RAR_VM_MAX_INSTRUCTIONS` is never used by the code.  A shift by the
  width or more, undefined in C, is taken modulo the width.  `XCHG` of bytes is
  accepted and has no routine (`vm.c:466`, `vm.c:702`): the machine would jump to
  a null label, and such programs are not run (`HasRoutine`).  The XOR checksum, the
  fingerprints and failures of `realloc` are left out.
- **Transforms.**  The properties speak of what the decoders give back, not of
  these, which are modelled as they are and asserted nowhere: `arc/pack.c` does
  not remember a byte written as `DLE 0`; `stuffit/rle90.c:52` gives a run one
  byte less than other encoders of the format mean by its count (the texts of
  `PackedTextsComeBack` are coded by the decoder's own counting); `apple_rle.c:35`
  compares with `<=`, so that a call with a full destination writes one byte more,
  against the capacity of `library.h:67`, and its statics hold the rest of a run
  for the next call.  PMarc 1's tree of 18 bytes never reaches its fourth node.
  Codes of one width are compared as a set where a builder sorts them with an
  unstable order (`ace/huffman.c:31`).
- **LZ77 loops.**  `TextsArrive` is about what an encoder of the format writes.
  Outside of it, ACE's last block stays uncopied when a match overshoots the
  wanted size, shrink puts a byte for a stream without a code when the
  destination has room (`zip/shrink.c:117`), Zoo's `lzh.c:19` reads what the buffer held before, and lists of
  widths are not stopped at their end.
- **RAR 5.**  A match over the start of a filter makes the filter run early; a
  filter left at the end of the data keeps the loop waiting.  `FiveEnds` is about
  the behaviours in which RAR 5's loop is the one that moves.
- **Calls.**  lzip's count is short on a damaged stream (`lzip.c:57`, a -1 added
  to the position), an empty text is a failure, FLAC's whole-stream call
  truncates without telling.  `CallsKeepTheirWord` excepts by name, in
  `MayOverrun`, the calls that write beyond their destination: `lzip_decode`
  offers lzlib all of `dst_size` at each turn (`lzip.c:57`, `lzip.c:69`), so a
  text that does not fit, or a count that damage set back, leads past the end;
  FLAC's callback (finding 7); LZO1's decompressors (`library.c:394`).  A call is
  refused memory only before it decodes; what fails inside a library looks like
  damage.  Whether a loop that stops early, with pointers of four bytes, has
  everything is not asked.  Null arguments are left out, and so is
  `zip/zip.c:278`, which reads `*dst_size` before it asks whether `dst_size` is
  null.  FLAC's encoder and what the libraries do inside are not modelled.
- **LZW.**  A ZIP encoder that clears a table that is not full, failures of
  `malloc`, and the header byte of ARC's crunch are left out.
- **Other decoders.**  The rest of ARC and PAK, Zoo's `io.c`, LHA's `bitio.c`,
  RAR 1.5, the rest of StuffIt, ARJZ, HA, Disk Doubler and the vendored
  libraries, as `PROJECT.json` lists them with the reasons.

The type invariants of the modules without theorems are definitions a run may
check; `TypeCorrect` and `ListCorrect` are proved and need no run.
