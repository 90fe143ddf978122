# A TLA+ development of dfajit

dfajit compiles the transition table of a deterministic finite automaton (DFA)
to x86_64 machine code and scans byte strings with it; where it cannot emit
code it interprets the same table. This directory holds TLA+ modules
translated from the crate's source, the configurations that check them with
TLC, and proofs that TLAPS checks. Paths below are relative to the repository
root (`src/` of this project's maps), so `src/codegen.rs` is the file
`src/src/codegen.rs` in `PROJECT.json`.

## 1. Inventory

| part | source | state | operations | modelled by |
|---|---|---|---|---|
| Transition table | `src/table.rs` | `transitions`, `state_count`, `class_count`, `accept_states`, `pattern_lengths` | `new`, `set_transition`, `add_accept`, `set_pattern_length`, the `_mut` accessors, `from_parts`, `to_bytes`, `from_bytes`; `minimize` | `TableApi`, `TableApiProofs`; `Minimize`, `MinimizeProofs` |
| Compiled program | `src/dfa.rs`, `src/codegen.rs` | the data section behind the code: flagged transitions, accept table, length table, output links | `compile`, `compile_with_output_links`, table layout of `compile_x86_64` | `Program`, `ProgramProofs` |
| Interpreted scan | `src/codegen.rs`, `src/dfa.rs` | locals `state`, `count`, `output_state`, the caller's buffer | `scan_interpreted`, `scan_count_interpreted`; `scan`, `scan_count`, `scan_first`, `has_match` on top | `InterpScan`, `InterpScanProofs`, `Language` |
| Machine code | `src/codegen.rs` | registers r8, r11, r13, r15, the caller's buffer | `scan_jit`, `scan_count_jit`, the emitted blocks | `JitScan`, `JitScanProofs` |
| Literal builder | `src/dfa.rs` | trie, failure links, queue, output links, pattern lists | `from_patterns`, `build_failure_links`, `build_dense_table` | `AhoCorasick`, `AhoCorasickProofs`, `LiteralMatch` |
| Executable buffer | `src/codegen.rs`, `src/dfa.rs` | the mapping and its protection, the `is_jit` flag | `mmap`, copy, patch, `mprotect`, `munmap` on the error path and in `Drop`; sharing by the hand-written `Send` and `Sync`; dispatch of `scan` | `ExecBuffer`, `ExecBufferProofs`, `DfaHandle` |
| Regex builder | `src/dfa.rs` | state map, queue, table; the DFA of `regex-automata` | `from_regex_patterns` | `RegexBuild`, `RegexBuildProofs`, `RegexDfa` (external) |
| Range analysis | `src/table.rs` | none | `compute_ranges`, `transition_density` | `Ranges`, `TableApiProofs` |
| Portable scan | `src/dfa.rs` | the locals of a scan | the loops of `codegen.rs` once more, for targets other than x86_64 | not translated a second time, see `InterpScan` |
| Errors, match type, tests | `src/error.rs`, `src/match_type.rs`, `tests/`, `src/lib.rs` | none | none | error kinds where an operation returns them; `match_type.rs` is in no module tree of the crate |

How they interact. A caller builds a `TransitionTable` by hand and calls
`JitDfa::compile` (no output links), or calls `from_patterns`, which builds the
automaton and its output links, or `from_regex_patterns`. All three end in
`compile_with_output_links`, which validates the table and hands it to the code
generator. The result is immutable and every scan works on the caller's own
buffer and on locals or registers, so two scans share nothing that either of
them writes: concurrency only touches the lifetime of the mapping. What is
hard in this crate is therefore

- that lifetime: pages written, flipped to executable and unmapped, on paths
  where each kernel call may fail, while other threads map, scan and unmap;

- two implementations of one loop, one of them unchecked machine code, that
  must agree on chains of output links, resets, full buffers and 32-bit offsets;
- data invariants that a builder establishes and a scanner relies on without a
  check, above all that chains of output links end and stay on accept states;
- a construction in five passes in which each reads what earlier ones, or
  earlier turns of the same pass, wrote;
- partition refinement that must stop at the right moment and keep class 0 for
  the start state;
- tables that were not built by the crate: filled by calls in any order, changed
  through an accessor, or read from bytes;
- a DFA of another crate, with one accept state per match and a special state
  for the end of the input, turned into a table that has neither.

What makes each part correct.

- Program: every table index the code can compute stays in its own table.
- Interpreted scan: the matches of the automaton in order, none lost or
  invented at a full buffer, nothing written past it, always a return.
- Machine code: the same result as the interpreter, block by block.
- Literal builder: the automaton of Aho and Corasick, with links that reach the
  next shorter pattern, accepted by the compiler for every list of patterns;
  with a scan after it, the occurrences a naive search names.
- minimize: the same matches from fewer states, no two states equivalent.
- Executable buffer: never writable and executable together, unmapped once, not
  in use when it is unmapped, nothing leaked on a failure.
- Table: filled through calls it stays rectangular, every accepting pattern has
  a length and every cell holds what was last set; what compiles can be stored;
  a stored table loads as it was, and bytes cut short are refused.
- Range analysis: ranges tile the classes and agree with the row.
- Regex builder: the states are the reachable ones, the matches are those the
  patterns describe, and it is known which lists of patterns compile.

The hazards these properties are aimed at are listed with their lines in
`PROJECT.json`, the uncovered ones with the reason.

## 2. Modules

`Program` holds the data: a program is a record of states, classes, flat
transitions (bit 31 included), accept pairs, pattern lengths and output links.
`Compilable` is the list of checks of `compile_with_output_links`,
`AcceptPattern`, `Flagged`, `OutputLink` and `PatLen` are the tables
`compile_x86_64` derives, and `DataSection` lays them out in one array of u32
words, so that a load at a wrong index reads the neighbouring table as it does
in memory. `WellFormed` adds what nothing checks and the builders guarantee:
links lead to accept states and form no cycle. That `from_patterns` does
guarantee it is the invariant `BuildsWellFormed` of `AhoCorasick`; `compile`
passes no links at all. Widths are constants: bytes are `0..ByteCount-1` and u32
values `0..2*Bit31-1`, so that wrap-around is within reach of a finite check.

`Language` is the reference: the walk of a DFA that returns to its start state
after each accept state, and the list `Found` of all matches, written without a
scanning loop, a buffer or a count.

`InterpScan` is one call of the interpreter. `EnterChain`, `RecordMatch` and
`LeaveChain` are the entry, one turn and the exit of the `while` loop over
output links, `StepPlain` the other branch of the `for` loop, `Return` what
`scan`, `scan_count` and `scan_first` make of the count. `has_match` is
`scan_first` compared with `None`.

`JitScan` is one call of the machine code, an action per basic block. `pc` holds
the jump targets of `compile_x86_64` (`scan_top`, `accept_loop`,
`skip_write_match`, `skip_match`, `epilogue`), and `reset` for the block that
falls out of the chain loop. Registers start with
whatever the caller left (`Junk`). The variable `src` is a history variable: the
DFA state the byte was fetched in, which the code overwrites early and the
interpreter keeps until the chain ends.

`AhoCorasick` is one construction: the trie byte by byte, one turn of the
breadth-first loop per `BfsStep`, one state per `LinkState` and
`PropagateState`, and `BuildTable` with the dense table, `TransitionTable::new`'s
limit and the compiler's checks. Child 0 means "no child", as in the source.

`LiteralMatch` composes the two: it extends `AhoCorasick`, which builds, with the
variables of one call of `InterpScan` (`scanState` is that module's `state`) that
scans with what was built, and says on strings what is reported. `MatchNext` is
`BuildStep` until the builder is done, `StartScan`, then `ScanStep`. The rule it states is the code's, and is finer than "every
occurrence": a match sends the DFA back to its start state, so matches that end
at different places never overlap; and where several patterns end at one place,
all of them are reported if the longest is also the longest string the trie
knows there, else that longest alone, because a state that merely inherits a
pattern in the propagation pass has no output link.

`Minimize` is `TransitionTable::minimize`, one action per round. Entries are
compared with `state_count` with their flag on, as in the code. The table is
whatever a caller can make of it; where an index is out of range, `RefinePanics`
and `BuildPanics` are the panic.

`DfaHandle` is what a `JitDfa` promises to threads, without memory: a compile
returns an error or a handle, its holders scan, concurrently, and get the answer
of their own DFA, and the last to let go drops it, once. Who holds it is Rust's
ownership (`Share` clones an `Arc` or lends a reference, `Release` gives it back)
and no promise of this crate; that a scan may run on any holder's thread is,
through the two `unsafe impl`s.

`ExecBuffer` implements it with memory. `mem` is the address space, a record per
page: protection, whose bytes, and the base its code was patched for. A thread
in `compile` goes through `Map`, `Write`, `Patch`, `Protect`, or through
`TooManyStates`, `MapFails`, `ProtectFails` and `Undo`; the interpreter's buffer
(`IsJit` false) is one page with a lone `ret`, is not patched, and is dropped like
the others. Other threads take steps in between, and `Map` may return addresses
that were just freed. The code ignores what `munmap` returns, so `Unmapped` has a
second outcome in which the pages stay, remembered in `refused`. `Scanned` is the
answer of a scan: `Fault` if `is_jit` sends it to memory that is not that DFA's
code, all of it, executable, with its own tables.

`TableApi` is the table in its callers' hands: one action per public operation,
`New`, `FromParts`, `ToBytes` and `FromBytes` as operators that return a table or
an error. `cells` and `lengths` are history variables: what the caller last
asked for. Stored data is a sequence of u32 words.

`Ranges` is `compute_ranges`, one action per turn of its loops, on tables that
may have lost or gained entries, with the panic of the row slice.

`RegexBuild` is `from_regex_patterns`: discovery of the states from a queue, the
check of their number, one row per `FillRow`, and the compiler's check. The DFA
it copies is external (`RegexDfa`): patterns are finite languages with the two
anchors, and a state is what the builder can observe of one: the last bytes
read, whether they are the whole text, and the match that is reported a byte late.

`ScanExamples` holds programs for the runs of both scanners; the `MC_*` modules
hold values of constants. A definition named after another with a suffix
(`RecordMatchOverrun`, `NewStateUncounted`, ...) and a comment `Mutant:` is a
plausible bug in the definition that follows it; substituted for it, the
property it is paired with in `PROJECT.json` fails. They are part of no
specification.

A module `XProofs` holds the theorems about the module `X`: `ProgramProofs`,
`InterpScanProofs`, `JitScanProofs`, `ExecBufferProofs`, `TableApiProofs`,
`AhoCorasickProofs`, `MinimizeProofs` and `RegexBuildProofs`. `ProgramProofs` also
holds what the others share; `AhoCorasickProofs` also holds the theorems about
`LiteralMatch`; `TableApiProofs` also holds the theorems about `Ranges`,
the other module about `table.rs`, whose variables and specification (`self`,
`RangesSpec`) have names of their own for that.

## 3. Runs

Each run checks one question; `PROJECT.json` lists the properties. Deadlock
checking is off everywhere because a behaviour is one call or one construction
and really ends.

| run | module | instance | shows |
|---|---|---|---|
| `interp_scan` | `MC_InterpScan` | every unflagged table of two states, a flagged one, one without patterns, chains of two and three links; every input of up to 4 bytes; buffers of 0 to 3 slots | the result is `Found`, in order, capped at the buffer; slots are written once, lowest first; offsets lie in the bytes consumed; calls return |
| `jit_scan` | `MC_JitScan` | the same programs and buffers, junk registers, u32 of four bits; inputs of up to 4 bytes, and two whose last matches end past 2^32 | loads stay in their tables; the code refines `InterpScan`, also when ends wrap and starts saturate |
| `aho_corasick` | `MC_AhoCorasick` | every list of up to two patterns of up to three bytes, every list of three patterns of up to two bytes, seven lists with long failure chains or more states than allowed | trie, failure links, output links, propagation and dense table are those of the automaton, at each pass; the program is well formed |
| `literal_match` | `MC_LiteralMatch` | 143 lists of patterns, every input of up to 5 bytes, buffers that fill up and that do not | a scan reports what a naive search names; `has_match` is occurrence |
| `minimize` | `MC_Minimize` | every unflagged table of three states and two classes with two patterns, five-state tables that take several rounds, flagged tables, tables other calls can leave | same matches from a valid and smaller table and, where no transition is flagged, the coarsest partition; panics on invalid tables only, rounds only split, the loop ends |
| `exec_buffer` | `MC_ExecBuffer` | two threads; a DFA with two pages of code, one interpreted, one refused; four pages | every mapped page has one owner, code that can be scanned is whole and executable, executable pages are never written, the whole implements `DfaHandle`; a compile returns, and the memory of a DFA nobody holds is given up |
| `table_api` | `MC_TableApi` | two-bit words, new tables of eight shapes, up to two states and four cells, up to two accept entries, any order of calls, one change through an accessor | shape and content survive every order of calls; storing loses nothing; cut bytes are refused; what compiles can be stored |
| `ranges` | `MC_Ranges` | every table of up to two states and four classes over three targets (one flagged), and of three states and two classes, with up to one entry too many or any number missing | the ranges describe the rows, the panic needs a missing row, the density agrees |
| `regex_build` | `MC_RegexBuild` | lists of up to two of 24 patterns over two bytes, a list with too many states, the empty list; texts of up to five bytes | the states copied are the reachable ones; the matches are the patterns'; it compiles exactly if no two patterns end a match together; it ends |
| `interp_quick_start`, `minimize_flagged`, `regex_width` | | the smallest instance that shows it | the findings below |

Why these bounds. Two states with both accept subsets give every kind of step
of a scan; chains of three with buffers of 0 to 3 slots fill the buffer before,
inside and after a chain; four bytes allow two resets and a match after each.
With a u32 of four bits, inputs of 17 and 18 bytes whose matches all lie at the
end pass the point where ends wrap before the buffer is full, with pattern
lengths on both sides of the wrapped end. Patterns of three bytes
over two byte values give every overlap pattern of that size, and the hand
picked lists of four bytes give failure chains of length three, a state that
inherits a pattern through another that inherited it, and the state limit.
Two DFAs of m and n states that differ do so on fewer than m + n bytes, which
is the bound of `SameMatches`; five states in a line need at least four rounds.
Two threads suffice for `ExecBuffer` because a step concerns the stepping
thread's DFA and shared memory, and two are a compile against a scan or a drop of
another DFA, or two scans of one. In four pages a mapping of two pages and one of
one page can lie in every order, with holes too small for the larger one, or
where another was before; a DFA whose code ends inside its second page tells the
page count from the length. A two-bit word puts 2^32 lengths, the
largest id and a flagged target within reach of `TableApi`; two states and two
classes are the least in which a cell has a neighbour in its row and in the
next. Four classes over three bytes are one class more than a byte can name, and
rows of three bytes have a first, an inner and a last range. In `RegexBuild`
words have at most three bytes, so five bytes of text hold a match, the reset
behind it and a second match that overlaps the first; the list `0011` has more
states than allowed, as `MaxStates` is 16 there.
`OffsetsSound` is stated for inputs shorter than 2^32 bytes, where ends do not
wrap; what happens beyond is left to `jit_scan`, where both backends wrap
alike. The machine code has no liveness property of its own: `Prologue`,
`NextOutput` and `Advance` are the only blocks the interpreter does not see, no
two of them follow one another in a loop, so `ImplementsInterp` leaves it no way
to run on where the interpreter returns.

Fairness. `FairSpec` is `Spec /\ WF_vars(Next)`: every modelled call runs on its
caller's thread and waits for nothing, so it takes a step as long as it has one.
Nothing stronger is assumed, and no action has fairness of its own. `ExecBuffer`
has several threads, and there `FairSpec` has `WF_vars` of the steps of each
(`Run`): a thread that is inside `compile`, `scan` or `drop` goes on. Nothing makes
a caller call, share or release, and nothing makes the kernel succeed: the
liveness properties hold on every path of failures.

## 4. Proofs

The theorems about these components hold for all values of the constants, under
the assumptions their modules name. Each proof starts from an inductive invariant
(`IInv`), checked with TLC on the run's instance before it was proved; one lemma
per action shows that the action preserves it.

**Data.** `ProgramProofs` begins with what several proofs need: a set of naturals
has a least element (`LeastElement`), hence induction up to a bound
(`InductionUpTo`) and along a rank (`RankInduction`); a recursive function exists
and satisfies its equation, over `0..n` (`RecursionExists`) and over a set with a
rank (`RankedRecursion`). The library's induction theorems take an operator as a
parameter, which no backend here can instantiate; these take a set or a function
instead, so a proof names the set of the numbers for which its claim holds. Then
come the laws of the sequence operators the models use.

The rest of the module is about programs: what masking and flagging do
(`FlaggedEntry`), where each table lies and what a read at its offset returns
(`TransEntry`, `AcceptEntry`, `PatLenEntry`, `OutputEntry`); that the walk, the
chains of output links and `Found` of `Language` are what their equations say
(`WalkOf`, `OutputsIs`, `FoundIs`). `OutputsIs` is where well-formedness is spent:
`OutputsOf` is defined on all states at once, and exists because links lead to
smaller ranks.

**Interpreted scan** (`InterpScanProofs`). `TypeCorrect`; `SlotsKept`;
`OffsetsAreSound`; and `ResultIsCorrect`: `SentinelUnused` implies
`Spec => []ResultCorrect`. The invariant ties the locals to the reference: at byte
`pos` the state is `Walk`'s, the count and the filled slots are a prefix of what
`Found` has for the bytes read, and inside a chain the rest of the chain is what is
still missing. `SentinelUnused` says that no accept entry has pattern id
2^32 - 1: the code stores that number for "no pattern", so a table with it (it
would need 2^32 - 1 pattern lengths) reports fewer matches than the reference.

**Machine code** (`JitScanProofs`).

- `TypeCorrect` and `LoadsSafe`: no store leaves the caller's buffer, and no
  load its table, whatever the program, input, buffer and register contents.
  `IInv == TypeOK /\ Control`; `TypeOK` alone is not inductive: that the buffer
  keeps its type needs r8 to be an accept state in `accept_loop`, which needs r11
  to be a state at `scan_top`. `Control` says these things.
- `Refinement`: `Spec => ImplementsInterp`. Each block maps to one step of the
  interpreter or to none: `FetchPlain` to `StepPlain`, `FetchAccept` to
  `EnterChain`, `WriteMatch` and `SkipWrite` to `RecordMatch`, `Reset` to
  `LeaveChain`, `CallEmpty` and `Epilogue` to `Return`; `Prologue`,
  `NextOutput` and `Advance` are stutters. `SameOperators` states that the
  operators of `Program` seen through the instance are those of `JitScan`.
- `ResultIsCorrect`: the machine code returns the automaton's matches, by
  `Refinement` and the interpreter's theorem.

**Executable buffer** (`ExecBufferProofs`), for any number of threads, DFAs and
pages. `TypeCorrect`, `PagesAreAccounted`, `CodeStaysIntact`, `ExecutableStays`, and
`Refinement`: the mapping protocol implements `DfaHandle`. The two safety
invariants need each other and more: `ControlInv` (each call is for one DFA, a compile
or a drop is its DFA's only call, who scans is a holder), `OwnedMapped` (a DFA has a
base exactly while a handle or a call owns it), `MappingInv` (the mapped pages are
those of the owned regions and those the kernel refused to give back, and no page
has two owners) and `ContentInv` (the pages of a compile under way are as far as its
step says; those of a held handle are whole, executable and patched for their base).
The refinement's interesting
step is a scan: its answer is its own DFA's because of `CodeIntact`.

**Table** (`TableApiProofs`). `TableStaysConsistent`, `CallsDoNotInterfere`,
`StorageLosesNothing`, `CutsAreNoticed`, `CompiledTablesLoad`. The invariant:
every table is within the limits of its constructor (`Limited`); while no accessor
has touched it, it is rectangular with a length for each accepting pattern
(`Shaped`) and its cells and lengths are those set last (`AsSet`). The storage
theorems are about sequences of words of any length: `from_bytes` finds each
section where `to_bytes` put it, and a prefix lacks a word that the header counts.

**Range analysis** (the end of `TableApiProofs`), of `RangesSpec`: `RangesAreCorrect`,
`PanicsAreJustified`. The loop invariant says of each finished row that its ranges describe it, and of the row
under way that its ranges describe it up to `start`, that the entries from `start`
to the byte before `index` are equal, and that the last range has another target.

**Literal builder** (`AhoCorasickProofs`), for every list of patterns.

- `TypeCorrect`; `TrieIsCorrect` (the trie is the prefix tree);
  `FailureLinksAreLongest`; `AcceptsAreCorrect`; `TableIsLongest`.
- `LinksAreCorrect`: `Spec /\ [](stateCount <= NONE) => []LinksAreNextPattern`.
- `BuildsAreWellFormed`: `ListsFit` implies `Spec => []BuildsWellFormed`.

The invariant is `Sound == \E w : IInv(w)`, where `w` gives each state its string:
only `NewState` extends it, and nothing else in the proof depends on how the trie
got its shape. Its parts follow the passes: `Trie`; `Begun` and `Cursor` for the
pattern being inserted; `Breadth` (the queue is in order of depth, spans two depths at most, and the
failure link is right of every state that is not below a queued one), so that the link
of a child is computed along links that are already right;
`FailOf`, `OutputOf`, `AcceptOf` and `DenseOf` for what each pass has written so
far. The failure walks are loops over a shorter and shorter suffix, and
`WalkFinds`, `WalkEnds` and `NearestFinds` prove by induction along the length
that the first hit is the longest.

**Literal builder and scan together** (the end of `AhoCorasickProofs`), of `MatchSpec`.

- `ScanFindsOccurrences`: `ListsFit` and `InputsShort` imply
  `MatchSpec => []ScanIsNaive`: a scan reports the occurrences that a search without
  an automaton names, in its order and with its offsets.
- `HasMatchIsOccurrence`: `ListsFit` implies `MatchSpec => []HasMatchIffOccurs`, for
  inputs of any length.

`Built` is what the invariant of the builder says of the finished program: each state
reports the longest pattern that ends its string, and its output link leads on to the
next shorter one. Hence a chain is the list of all patterns that end a pattern,
longest first (`ChainIsEnding`), and what a state reports is what `Reported` names
(`ReportedIs`). `WalkIsLongest` is the claim about the walk, by induction along the
input: the state is the longest end of the segment since the last match that begins a
pattern. Where that segment starts is the `from` of `NaiveMatches`, another recursion
over the same input, which `Begins` relates to the walk; `NaiveIs` then says that
both recursions collect the same list. `FoundWhenOccurs` needs only that a
walk without a match keeps its segment whole, so the first occurrence is seen.

`MatchInv` carries this to the behaviours: it is the builder's invariant, and from the
call on also that of `InterpScanProofs`, taken through the instance `Run` for all
well-formed programs that leave the sentinel free as a pattern id (`ListsFit` again).
TLC has checked its parts on the runs of the two components, not the whole: it
cannot enumerate the strings `w` of `SoundlyBuilt`. The interpreter's theorem says that a
scan returns `Found`, and the lemmas say what `Found` is.

The hypotheses are the widths of the source, which numbers states, patterns and offsets
with `as u32`: at 2^32 - 1 states a state has the number of the sentinel
(`LinksAreCorrect`), a list of more than 2^32 - 1 patterns reuses ids (`ListsFit`),
and an offset past 2^32 wraps (`InputsShort`). No list that fits in memory comes near
the first two; the runs satisfy all three.

**Minimization** (`MinimizeProofs`), for every table.

- `ValidTablesNeverPanic`, flagged or not; `RoundsOnlySplit`, whose proof needs no
  more than that a signature begins with the state's own class.
- `MinimizedFindsTheSame`, and `MinimizedFindsTheSameAnywhere` for inputs of every
  length: the run looks no further than two automata of these sizes need.
- `MinimizedIsMinimal`: no two states of the result are equivalent.

The invariant is `Refining` while the loop runs: classes respect patterns
(`Respects`), and states of two classes are told apart by a word shorter than the
number of classes (`Separates`), which a round keeps because a class it splits is
split by one byte and a word that told the targets apart. At the end it is `Stable` too:
a last round changed nothing. From `Stable` and `Respects`, a walk of the quotient is
the walk of the table, class by class (`QuotientFinds`: the reset after a match goes
to class 0, that of the start state); from `Separates`, words that tell states of the
table apart do so in the quotient (`QuotientReports`).

**Regex builder** (`RegexBuildProofs`), for every list of patterns.

- `StatesAreTheReachableOnes`: the states copied are the reachable ones, each once.
- `CompilesIffNoTextIsAmbiguous`, over texts of every length, and
  `CompilesIffNoShortTextIsAmbiguous`, the property of the run, whose hypothesis is
  that `MaxText` is no smaller than the longest word of a pattern (`Longest`): with
  shorter texts the property would not see every ambiguity. The run has words of
  three bytes and texts of five.
- `FindsPatternsAnywhere`, over texts of every length, and `ProgramFindsPatterns`.

The invariant follows the phases. `Discovered`: the states found are different, each
but the first is a successor of an earlier one, and all successors of those that left
the queue are found. From `Closed`, when the queue is empty, the states are closed
under successors, so every row can be written. `CopyOf`: the rows filled lead
where `NextState` leads, and the accept entries are the matches of those states. With
`Outcome` the result is what the compiler's check says of the copy.

What a regex state knows is the end of the text read (`seen`, `whole`), and that is
enough: `MatchingShown` and `RegexStep` say that a pattern matches at the end of a text
exactly if it matches at the end of what the state remembers, although the state
forgets bytes and reports a match one byte late. `EveryTextShown` and
`AmbiguousShown` are the two directions of "a reachable state with two matches is a
text with two matches". `ScanStep` relates one byte of the walk of the copy, since its
last reset, to the text since the last reported match, and `ScanOn` sums up:
`Found` is `RegexMatches`.

**Assumptions** of all this: at least one byte value; for `JitScan` the programs are
`WellFormed` and have at most `MaxJitStates` states, `MaxJitStates <= Bit31` and
`MaxJitStates * ByteCount <= 2 * Bit31` (4096, 256 and 2^31 in the code, so a
state number leaves bit 31 free and a table index fits a 32-bit register), and the
caller's registers hold words; for `TableApi` the limits are naturals, that of states below 2^32, and the shapes a
caller asks for are pairs of naturals; `Minimize` takes tables without output links
(a `TransitionTable` has none) and with at most `Bit31` states (its constructors allow
65536), and there and in `Ranges` a table has at least one class; for `RegexBuild` patterns
are finite sets of words with two anchors, a list has at most `Bit31` of them (the
crate numbers patterns in 31 bits) and `MaxStates` is at most `Bit31` (65536). TLC
evaluates all of them in the runs.

Only model-checked: the three findings, which are violations on one instance each,
and all liveness: liveness under fairness and ENABLED are out of reach of the
installed provers. Every other invariant and action property of the runs is stated by
a theorem.

## 5. Findings

Each of these has a run that shows it:

- The crate's `README.md` and the doc of `scan`: the quick start scans into an empty `Vec`
  and expects 2, "the number of new matches found"; the code returns the number
  stored, 0 (`interp_quick_start`).
- `minimize` compares transitions with `state_count` without clearing bit 31, so
  a flagged transition counts as one to class 0 and the minimized table loses
  the match it led to (`minimize_flagged`). For the same reason it may stop before the
coarsest partition, so `NoTwoStatesEquivalent` is about tables without flags.
- `from_regex_patterns` is documented to use the literal length as the width of a
  match, and a test expects it; the width is 0 (`regex_width`).

These divergences of the docs are visible in the models, where the passing
property named states what the code does instead:

- `scan_first` is documented to return at the first match; it scans the whole
  input and counts on (`ResultCorrect`; its answer is right).
- `from_patterns` is documented to give each pattern its own accept state; equal
  patterns share one and only the first is reported (`ScanIsNaive`).
- `minimize` panics on a table whose accept entry or row is out of range, where
  its doc names one panic, which cannot happen (`ValidNeverPanics`: never on a
  table `from_parts` accepts).
- `compile` is documented to return `TooManyStates` above 4096 states; it compiles
  for the interpreter, up to 65536 (`IsJit` and `TooManyStates` of `ExecBuffer`).
- `set_transition` is documented to ignore a state and byte out of bounds; with
  fewer than 256 classes it writes the next state's row (`LastCallWins` is stated
  for byte-indexed tables).
- `compute_ranges` is documented to return maximal ranges; flagged and unflagged
  entries to one state split them (`RangesCorrect` compares whole entries).
- `from_regex_patterns` is documented to record the first pattern of an
  accepting state; it records all, and a list in which two can match together is
  refused with `InvalidTable` (`CompilesIffUnambiguous`). A test says a pattern
  anchored at the start should not match in the middle; it does, right behind an
  earlier match (`FindsPatterns`).

`FindsPatterns` says what a regex program reports, which is in no doc: `$` holds
at every position, because acceptance is read as if the input ended there; `^`
holds at the start and again behind every match, because state 0 is the start
state of the regex; the empty match at position 0 is never reported.

## 6. Not modelled, and why

- The scan loops of `dfa.rs` for targets other than x86_64: the loops of
  `codegen.rs` again, compiled out where there is machine code.
- `estimated_code_size`, `is_jit_eligible`, `is_x86_64`, `pattern_count`: an
  estimate and three constants of a table, with no promise to check.
- The inside of `regex-automata`: `RegexDfa` states what the builder relies on
  for finite languages. Repetition without bound, and byte classes, change the
  number of states but nothing the builder does with one.
- Instruction encoding: `JitScan` models what the instructions do, not their
  bytes; jump displacements and the patched table addresses are taken to be right.
- Bytes of stored tables that are no multiple of four: they change no check of
  `from_bytes`, whose offsets all are.
- Overflow of a 64-bit usize in `from_bytes`: where a checked product or sum of
  the code overflows, the model's integers are longer than any input, and both
  return `InvalidTable`. The unchecked `trans_end + 4` would overflow for 2^62 - 3
  cells only, which is no product of two u32 values (it has the prime factor
  12586817029).
- Message texts, `Display`, `Debug`, benches, examples, scripts, `match_type.rs`
  (not compiled), fuzz targets (they call what is modelled).
- 64-bit wrap of positions and counts: an input or a match count of 2^64.

## 7. Plan

In this order; all ten are done.

1. `Program`, `InterpScan` with its reference `Language`.
2. `JitScan`, the refinement, its proofs.
3. `AhoCorasick`, `LiteralMatch`.
4. `Minimize`.
5. `ExecBuffer` with its abstract specification `DfaHandle`.
6. `TableApi`.
7. `Ranges`.
8. `RegexBuild` over the external `RegexDfa`.
9. Proofs of `InterpScan`, `JitScan`, `ExecBuffer`, `TableApi`, `Ranges`,
   `AhoCorasick`, `Minimize` and `RegexBuild`.
10. Proofs of `LiteralMatch`, from the lemmas about its two parts.
