------------------------------- MODULE Program -------------------------------
(***************************************************************************)
(* The compiled program of dfajit: what JitDfa::compile_with_output_links  *)
(* accepts and what codegen::compile_x86_64 lays out in memory.  Constant  *)
(* operators only; the scanners that run a program are InterpScan and      *)
(* JitScan.                                                                *)
(*                                                                         *)
(* A program p is a record                                                 *)
(*   states   number of DFA states                                         *)
(*   classes  class_count                                                  *)
(*   trans    flat transitions: trans[s * classes + b + 1] is the u32 for  *)
(*            state s on byte b, bit 31 included                           *)
(*   accepts  the sequence of <<state, pattern id>> pairs                  *)
(*   lens     pattern_lengths, lens[pid + 1]                               *)
(*   links    output_links, empty or one u32 per state                     *)
(* The widths are parameters: bytes are 0 .. ByteCount-1 (256 in the code) *)
(* and u32 values are 0 .. 2*Bit31-1 (Bit31 is 2^31 in the code), so that  *)
(* 32-bit wrap-around is within TLC's reach.                               *)
(***************************************************************************)
EXTENDS Integers, Sequences

CONSTANTS ByteCount,   \* number of byte values, and the class count of the JIT
          Bit31        \* the value of bit 31 of a u32

ASSUME ByteCountAssumption == ByteCount \in Nat \ {0}
ASSUME Bit31Assumption     == Bit31 \in Nat \ {0}

U32  == 2 * Bit31
Word == 0 .. U32 - 1
Byte == 0 .. ByteCount - 1

\* 0xFFFF_FFFF: "no pattern" in accept_pattern, "end of chain" in output_links.
NONE == U32 - 1

\* t & 0x7FFF_FFFF
Mask(t) == IF t >= Bit31 THEN t - Bit31 ELSE t

ProgramType ==
  [states : Nat, classes : Nat, trans : Seq(Word), accepts : Seq(Word \X Word),
   lens : Seq(Word), links : Seq(Word)]

State(p) == 0 .. p.states - 1

AcceptStates(p) == {p.accepts[i][1] : i \in DOMAIN p.accepts}

\* Mutant: a target is compared with its flag on.
ValidPartsFlagged(p) ==
  /\ p.classes > 0
  /\ Len(p.trans) = p.states * p.classes
  /\ \A i \in DOMAIN p.trans : p.trans[i] < p.states

\* The checks of TransitionTable::from_parts.
ValidParts(p) ==
  /\ p.classes > 0
  /\ Len(p.trans) = p.states * p.classes
  /\ \A i \in DOMAIN p.trans : Mask(p.trans[i]) < p.states
  /\ \A i \in DOMAIN p.accepts :
       /\ p.accepts[i][1] < p.states
       /\ p.accepts[i][2] < Len(p.lens)
       /\ \A j \in DOMAIN p.accepts : p.accepts[i][1] = p.accepts[j][1] => i = j

\* The checks of JitDfa::compile_with_output_links: TRUE when it returns Ok.
Compilable(p) ==
  /\ p.states # 0
  /\ p.classes = ByteCount
  /\ Len(p.trans) = p.states * p.classes
  /\ p.links = <<>> \/ Len(p.links) = p.states
  /\ \A i \in DOMAIN p.trans :
       /\ Mask(p.trans[i]) < p.states
       /\ p.trans[i] >= Bit31 => Mask(p.trans[i]) \in AcceptStates(p)
  /\ \A i \in DOMAIN p.accepts :
       /\ p.accepts[i][1] < p.states
       /\ p.accepts[i][2] < Len(p.lens)
       /\ \A j \in DOMAIN p.accepts : p.accepts[i][1] = p.accepts[j][1] => i = j

------------------------------------------------------------------------------
(***************************************************************************)
(* The tables compile_x86_64 derives from the program.                     *)
(***************************************************************************)

\* accept_pattern: the pattern id of an accept state, NONE for the others.
AcceptPattern(p) ==
  [s \in State(p) |->
     IF s \in AcceptStates(p)
     THEN p.accepts[CHOOSE i \in DOMAIN p.accepts : p.accepts[i][1] = s][2]
     ELSE NONE]

\* The flagged transitions: caller flags dropped, bit 31 set on accept targets.
Flagged(p) ==
  [i \in 0 .. Len(p.trans) - 1 |->
     LET target == Mask(p.trans[i + 1])
     IN  IF AcceptPattern(p)[target] # NONE THEN target + Bit31 ELSE target]

\* output_link: the caller's links, or NONE for every state when there are none.
OutputLink(p) ==
  [s \in State(p) |-> IF s < Len(p.links) THEN p.links[s + 1] ELSE NONE]

\* The pattern-length table; a single 0 when the program has no patterns.
PatLenSize(p) == IF p.lens = <<>> THEN 1 ELSE Len(p.lens)
PatLen(p) ==
  [i \in 0 .. PatLenSize(p) - 1 |-> IF p.lens = <<>> THEN 0 ELSE p.lens[i + 1]]

(***************************************************************************)
(* The data section: the four tables one after the other, in u32 words.    *)
(* A load at a wrong index reads the neighbouring table, as in the code.   *)
(***************************************************************************)
TransOffset(p)  == 0
AcceptOffset(p) == Len(p.trans)
PatLenOffset(p) == AcceptOffset(p) + p.states
OutputOffset(p) == PatLenOffset(p) + PatLenSize(p)
DataLength(p)   == OutputOffset(p) + p.states

DataSection(p) ==
  [w \in 0 .. DataLength(p) - 1 |->
     IF w < AcceptOffset(p) THEN Flagged(p)[w]
     ELSE IF w < PatLenOffset(p) THEN AcceptPattern(p)[w - AcceptOffset(p)]
     ELSE IF w < OutputOffset(p) THEN PatLen(p)[w - PatLenOffset(p)]
     ELSE OutputLink(p)[w - OutputOffset(p)]]

(***************************************************************************)
(* What the producers of output links guarantee and nothing checks:        *)
(* compile passes none, and build_failure_links links a state only to a    *)
(* state that has a pattern and is nearer to the root                      *)
(* (LinksAreNextPattern and BuildsWellFormed of AhoCorasick).              *)
(***************************************************************************)
LinksAccept(p) ==
  \A s \in State(p) :
    OutputLink(p)[s] # NONE =>
      /\ OutputLink(p)[s] \in State(p)
      /\ AcceptPattern(p)[OutputLink(p)[s]] # NONE

\* No cycle of links: every set of states has one whose link leaves it.
LinksDescend(p) ==
  \A S \in SUBSET State(p) : S # {} => \E s \in S : OutputLink(p)[s] \notin S

WellFormed(p) ==
  p \in ProgramType /\ Compilable(p) /\ LinksAccept(p) /\ LinksDescend(p)

------------------------------------------------------------------------------
(***************************************************************************)
(* Matches.  Offsets are u32: the end wraps at U32, the start saturates.   *)
(***************************************************************************)
MatchType == [pid : Word, start : Word, end : Word]

\* Mutant: the subtraction wraps.
SaturatingSubWraps(a, b) == (a - b) % U32

SaturatingSub(a, b) == IF a >= b THEN a - b ELSE 0

\* Match::from_parts for pattern pid of length len ending after byte pos.
MatchAt(pid, len, pos) ==
  LET end == (pos + 1) % U32
  IN  [pid |-> pid, start |-> SaturatingSub(end, len), end |-> end]

\* matches[i] = m.  The domain grows when i is outside the buffer, so that a
\* store the caller's slice does not cover shows up in the type of the buffer.
Stored(buffer, i, m) ==
  [j \in DOMAIN buffer \cup {i} |-> IF j = i THEN m ELSE buffer[j]]

\* The content a slot had when the caller passed the buffer.
Untouched == [untouched |-> TRUE]

\* min(count, matches.len()) of the scan functions.
AtMost(count, cap) == IF count <= cap THEN count ELSE cap
==============================================================================
