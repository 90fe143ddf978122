----------------------------- MODULE ExecBuffer ------------------------------
(***************************************************************************)
(* The executable memory of dfajit: compile_x86_64 and                     *)
(* compile_interpreted_fallback map pages, write them, make them           *)
(* executable or give them back; scan runs them on any number of threads;  *)
(* Drop unmaps them.  The kernel may refuse every call and reuses freed    *)
(* addresses.  A DFA stands for one call of compile on a valid table.      *)
(***************************************************************************)
EXTENDS Integers, FiniteSets

CONSTANTS Threads, Dfas, NoDfa,
          StateCount,    \* the number of states of each DFA
          CodeLength,    \* c.len(): bytes of code and data emitted for it
          PageSize,      \* page_size
          PageCount,     \* pages of the address space
          MaxStates,     \* the bound of compile_x86_64, 65536
          MaxJitStates   \* MAX_JIT_STATES

ASSUME DfasAssumption == NoDfa \notin Dfas
ASSUME SizesAssumption ==
  /\ StateCount \in [Dfas -> Nat] /\ CodeLength \in [Dfas -> Nat \ {0}]
  /\ PageSize \in Nat \ {0} /\ PageCount \in Nat
  /\ MaxStates \in Nat /\ MaxJitStates \in Nat

VARIABLES mem,       \* each page: its protection, whose bytes it holds, the patched base
          base,      \* ptr of each DFA; NoBase when it has no mapping
          refused,   \* pages munmap would not give back
          proc,      \* what each thread is in: [at, dfa]
          outcome, holders, answer   \* as in DfaHandle

memory == <<mem, base, refused>>
handle == <<outcome, holders, answer>>
vars   == <<memory, proc, handle>>

Page     == 0 .. PageCount - 1
NoBase   == PageCount
Errors   == {"TooManyStates", "MemoryAllocation"}
FreePage == [prot |-> "none", text |-> NoDfa, tables |-> NoBase]
Fresh    == [prot |-> "rw", text |-> NoDfa, tables |-> NoBase]

\* is_jit: the fallback maps one page with a `ret` that is never called.
IsJit(d)  == StateCount[d] <= MaxJitStates
Length(d) == IF IsJit(d) THEN CodeLength[d] ELSE 1

\* Mutant: the length is rounded down to whole pages.
AllocSizeDown(d) == Length(d) \div PageSize

\* alloc_size in pages.
AllocSize(d) == (Length(d) + PageSize - 1) \div PageSize

Region(d)  == IF base[d] = NoBase THEN {} ELSE base[d] .. base[d] + AllocSize(d) - 1
\* The pages copy_nonoverlapping writes.
Written(d) == IF base[d] = NoBase THEN {} ELSE base[d] .. base[d] + (Length(d) - 1) \div PageSize

Building == {"map", "write", "patch", "protect", "undo"}

Handle == INSTANCE DfaHandle
            WITH doing <- [t \in Threads |->
                             IF proc[t].at \in Building
                             THEN [proc[t] EXCEPT !.at = "compile"] ELSE proc[t]]

At(t, s, d) == proc[t] = Handle!In(s, d)
GoTo(t, s, d) == proc' = [proc EXCEPT ![t] = Handle!In(s, d)]
Leave(t) == proc' = [proc EXCEPT ![t] = Handle!Idle]

Init ==
  /\ mem = [p \in Page |-> FreePage]
  /\ base = [d \in Dfas |-> NoBase]
  /\ refused = {}
  /\ proc = [t \in Threads |-> Handle!Idle]
  /\ outcome = [d \in Dfas |-> "none"]
  /\ holders = [d \in Dfas |-> {}]
  /\ answer = [t \in Threads |-> NoDfa]

------------------------------------------------------------------------------
(***************************************************************************)
(* compile_x86_64.                                                         *)
(***************************************************************************)

\* A thread calls compile.
Call(t, d) ==
  /\ proc[t] = Handle!Idle /\ outcome[d] = "none"
  /\ \A u \in Threads : proc[u].dfa # d
  /\ GoTo(t, "map", d)
  /\ UNCHANGED <<memory, handle>>

Fails(t, d, error) ==
  /\ outcome' = [outcome EXCEPT ![d] = error]
  /\ Leave(t)
  /\ UNCHANGED <<holders, answer>>

TooManyStates(t, d) ==
  /\ At(t, "map", d) /\ StateCount[d] > MaxStates
  /\ Fails(t, d, "TooManyStates")
  /\ UNCHANGED memory

\* Mutant: MAP_FAILED, the address -1, is not looked for.
MapFailsUnseen(t, d) ==
  /\ At(t, "map", d) /\ StateCount[d] <= MaxStates
  /\ base' = [base EXCEPT ![d] = -1]
  /\ GoTo(t, "write", d)
  /\ UNCHANGED <<mem, refused, handle>>

\* mmap(RW) fails.
MapFails(t, d) ==
  /\ At(t, "map", d) /\ StateCount[d] <= MaxStates
  /\ Fails(t, d, "MemoryAllocation")
  /\ UNCHANGED memory

\* mmap(RW) succeeds: zeroed pages at an address of the kernel's choice.
Map(t, d) ==
  /\ At(t, "map", d) /\ StateCount[d] <= MaxStates
  /\ \E b \in Page :
       /\ b + AllocSize(d) <= PageCount
       /\ \A p \in b .. b + AllocSize(d) - 1 : mem[p] = FreePage
       /\ base' = [base EXCEPT ![d] = b]
       /\ mem' = [p \in Page |-> IF p \in b .. b + AllocSize(d) - 1 THEN Fresh ELSE mem[p]]
  /\ GoTo(t, "write", d)
  /\ UNCHANGED <<refused, handle>>

\* copy_nonoverlapping of the code and its tables.
Write(t, d) ==
  /\ At(t, "write", d)
  /\ mem' = [p \in Page |-> IF p \in Written(d) THEN [mem[p] EXCEPT !.text = d] ELSE mem[p]]
  /\ GoTo(t, IF IsJit(d) THEN "patch" ELSE "protect", d)
  /\ UNCHANGED <<base, refused, handle>>

\* The four table addresses in the code, absolute, from the mapping's base.
Patch(t, d) ==
  /\ At(t, "patch", d)
  /\ mem' = [mem EXCEPT ![base[d]].tables = base[d]]
  /\ GoTo(t, "protect", d)
  /\ UNCHANGED <<base, refused, handle>>

Protected(t, d, prot) ==
  /\ At(t, "protect", d)
  /\ mem' = [p \in Page |-> IF p \in Region(d) THEN [mem[p] EXCEPT !.prot = prot] ELSE mem[p]]
  /\ outcome' = [outcome EXCEPT ![d] = "ok"]
  /\ holders' = [holders EXCEPT ![d] = {t}]
  /\ Leave(t)
  /\ UNCHANGED <<base, refused, answer>>

\* Mutant: the result of mprotect is not looked at.
ProtectUnchecked(t, d) == \E prot \in {"rx", "rw"} : Protected(t, d, prot)

\* mprotect(RX) succeeds: the ExecutableBuffer is returned.
Protect(t, d) == Protected(t, d, "rx")

\* mprotect(RX) fails.
ProtectFails(t, d) ==
  /\ At(t, "protect", d)
  /\ GoTo(t, "undo", d)
  /\ UNCHANGED <<memory, handle>>

\* munmap(ptr, len): its result is ignored, the pages stay if it is refused.
Unmapped(d, pages) ==
  /\ base' = [base EXCEPT ![d] = NoBase]
  /\ \/ mem' = [p \in Page |-> IF p \in pages THEN FreePage ELSE mem[p]] /\ UNCHANGED refused
     \/ refused' = refused \cup pages /\ UNCHANGED mem

\* Mutants: the mapping is not released when mprotect fails; compile starts again.
UndoLeaks(t, d) ==
  /\ At(t, "undo", d)
  /\ base' = [base EXCEPT ![d] = NoBase] /\ UNCHANGED <<mem, refused>>
  /\ Fails(t, d, "MemoryAllocation")
UndoRetries(t, d) ==
  /\ At(t, "undo", d)
  /\ Unmapped(d, Region(d))
  /\ GoTo(t, "map", d)
  /\ UNCHANGED handle

\* The mapping is released and the error returned.
Undo(t, d) ==
  /\ At(t, "undo", d)
  /\ Unmapped(d, Region(d))
  /\ Fails(t, d, "MemoryAllocation")

------------------------------------------------------------------------------
(***************************************************************************)
(* Shared use.  Who holds a DFA is Rust's ownership; the rest is dfajit.   *)
(***************************************************************************)
Share(t, u, d) ==
  /\ proc[t] = Handle!Idle /\ t \in holders[d] /\ u \notin holders[d]
  /\ holders' = [holders EXCEPT ![d] = @ \cup {u}]
  /\ UNCHANGED <<memory, proc, outcome, answer>>

\* scan or scan_count: the call enters the code or the interpreter.
StartScan(t, d) ==
  /\ proc[t] = Handle!Idle /\ t \in holders[d]
  /\ GoTo(t, "scan", d)
  /\ UNCHANGED <<memory, handle>>

\* The bytes at ptr are d's code with d's tables, and may be executed.
Intact(d) ==
  /\ base[d] # NoBase
  /\ \A p \in Written(d) : p \in Page /\ mem[p].prot = "rx" /\ mem[p].text = d
  /\ mem[base[d]].tables = base[d]

\* Executing anything else has no defined answer.
Fault == "fault"

\* Mutant: the backend is not chosen by is_jit.
ScannedAlwaysJit(d) == IF Intact(d) THEN d ELSE Fault

\* What a scan computes: is_jit chooses between the mapping and the table the
\* buffer owns a clone of.
Scanned(d) == IF ~IsJit(d) \/ Intact(d) THEN d ELSE Fault

FinishScan(t, d) ==
  /\ At(t, "scan", d)
  /\ answer' = [answer EXCEPT ![t] = Scanned(d)]
  /\ Leave(t)
  /\ UNCHANGED <<memory, outcome, holders>>

\* A holder lets go; the last one drops the buffer.
Release(t, d) ==
  /\ proc[t] = Handle!Idle /\ t \in holders[d]
  /\ holders' = [holders EXCEPT ![d] = @ \ {t}]
  /\ proc' = [proc EXCEPT ![t] = IF holders[d] = {t} THEN Handle!In("drop", d) ELSE @]
  /\ UNCHANGED <<memory, outcome, answer>>

\* Mutant: Drop looks after machine code only.
DropJitOnly(t, d) ==
  /\ At(t, "drop", d)
  /\ IF IsJit(d) THEN Unmapped(d, Region(d)) ELSE UNCHANGED memory
  /\ Leave(t)
  /\ UNCHANGED handle

\* Drop::drop.
Drop(t, d) ==
  /\ At(t, "drop", d)
  /\ Unmapped(d, Region(d))
  /\ Leave(t)
  /\ UNCHANGED handle

\* Steps a thread takes by itself once it is in a call.
Run(t, d) ==
  \/ TooManyStates(t, d) \/ MapFails(t, d) \/ Map(t, d) \/ Write(t, d) \/ Patch(t, d)
  \/ Protect(t, d) \/ ProtectFails(t, d) \/ Undo(t, d) \/ FinishScan(t, d) \/ Drop(t, d)

Next ==
  \E t \in Threads, d \in Dfas :
    \/ Call(t, d) \/ Run(t, d) \/ StartScan(t, d) \/ Release(t, d)
    \/ \E u \in Threads : Share(t, u, d)

Spec     == Init /\ [][Next]_vars
FairSpec == Spec /\ \A t \in Threads : WF_vars(\E d \in Dfas : Run(t, d))

------------------------------------------------------------------------------
\* The variables have their types.
TypeOK ==
  /\ mem \in [Page -> [prot : {"none", "rw", "rx"}, text : Dfas \cup {NoDfa},
                       tables : Page \cup {NoBase}]]
  /\ base \in [Dfas -> Page \cup {NoBase}]
  /\ refused \subseteq Page
  /\ proc \in [Threads -> [at : {"idle", "scan", "drop"} \cup Building, dfa : Dfas \cup {NoDfa}]]
  /\ outcome \in [Dfas -> {"none", "ok"} \cup Errors]
  /\ holders \in [Dfas -> SUBSET Threads]
  /\ answer \in [Threads -> Dfas \cup {NoDfa, Fault}]

\* The DFAs whose mapping somebody still has to release: a compile under way, a
\* handle that is held, a drop under way.
Owned == {d \in Dfas : holders[d] # {} \/ \E t \in Threads :
            \E s \in (Building \ {"map"}) \cup {"drop"} : At(t, s, d)}

\* Every mapped page belongs to exactly one owned DFA, or the kernel refused to
\* take it back; every owned DFA has its whole region.  So nothing leaks on a
\* failing path, nothing is unmapped that another DFA was given, and nobody
\* keeps an address of pages that are gone.
PagesAccounted ==
  /\ \A d \in Dfas : base[d] # NoBase <=> d \in Owned
  /\ {p \in Page : mem[p].prot # "none"} = refused \cup UNION {Region(d) : d \in Owned}
  /\ \A d, e \in Owned : d # e => Region(d) \cap Region(e) = {}
  /\ \A d \in Owned : Region(d) \cap refused = {}

\* While any thread scans machine code or could start to, the whole of it is
\* there, executable, and refers to its own tables.
CodeIntact ==
  \A d \in Dfas : (holders[d] # {} /\ IsJit(d)) => Intact(d)

\* W^X: a page that can be executed is never written, which would be a fault, nor
\* made writable again, by any thread; it can only be unmapped.
ExecutableIsFinal ==
  [][\A p \in Page : mem[p].prot = "rx" => mem'[p] \in {mem[p], FreePage}]_vars

\* Seen without memory, this is a DfaHandle: every scan answers for its own DFA,
\* whatever the other threads map, fail to map and unmap in the meantime.
ImplementsHandle == Handle!Spec

\* A compile that was called returns, and the memory of a DFA nobody holds any
\* more is given up.
CompileReturns == \A d \in Dfas : (\E t \in Threads : At(t, "map", d)) ~> outcome[d] # "none"
MemoryGivenUp  == \A d \in Dfas : (outcome[d] # "none" /\ holders[d] = {}) ~> base[d] = NoBase
==============================================================================
