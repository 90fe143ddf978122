-------------------------- MODULE ExecBufferProofs --------------------------
(***************************************************************************)
(* Safety of the executable memory, for any number of threads, DFAs and    *)
(* pages and any choice of the kernel's: the inductive invariant, what it  *)
(* implies, and the refinement of DfaHandle.                               *)
(***************************************************************************)
EXTENDS ExecBuffer, TLAPS

\* A thread is in no call, or in one for a DFA.
ProcsInCalls ==
  \A t \in Threads :
    proc[t] = Handle!Idle \/ \E s \in {"scan", "drop"} \cup Building, d \in Dfas : At(t, s, d)

\* A compile or a drop is its DFA's only call.
BuildersAlone ==
  \A t, u \in Threads, d \in Dfas, s \in Building \cup {"drop"} :
    At(t, s, d) /\ proc[u].dfa = d => t = u

\* A DFA is held only after its compile succeeded; while it is built or dropped
\* nobody holds it; whoever scans holds it.
HoldersFollowOutcome ==
  /\ \A d \in Dfas : holders[d] # {} => outcome[d] = "ok"
  /\ \A t \in Threads, d \in Dfas :
       /\ \A s \in Building : At(t, s, d) => outcome[d] = "none"
       /\ At(t, "drop", d) => outcome[d] = "ok" /\ holders[d] = {}
       /\ At(t, "scan", d) => t \in holders[d]

\* Exactly the owned DFAs have a mapping.
OwnedMapped == \A d \in Dfas : base[d] # NoBase <=> d \in Owned

\* A mapping lies in the address space.
MappingsFit ==
  \A d \in Dfas : base[d] # NoBase => base[d] + AllocSize(d) <= PageCount

\* The mapped pages are those of the regions and those the kernel kept.
PagesOwned ==
  \A p \in Page : mem[p].prot # "none" <=> p \in refused \/ \E d \in Dfas : p \in Region(d)

\* No page belongs to two regions, nor to a region and the kernel.
RegionsApart ==
  /\ \A d, e \in Dfas : d # e => Region(d) \cap Region(e) = {}
  /\ \A d \in Dfas : Region(d) \cap refused = {}

\* What compile has made of its pages when it is at step s: they are writable,
\* then hold the code, then also refer to their own tables.
Progress(s, d) ==
  /\ s \in {"write", "patch", "protect"} => \A p \in Region(d) : mem[p].prot = "rw"
  /\ s \in {"patch", "protect"} => \A p \in Written(d) : mem[p].text = d
  /\ s = "protect" /\ IsJit(d) => mem[base[d]].tables = base[d]

PagesInProgress == \A s \in Building : \A t \in Threads, d \in Dfas : At(t, s, d) => Progress(s, d)

ControlInv == ProcsInCalls /\ BuildersAlone /\ HoldersFollowOutcome
MappingInv == MappingsFit /\ PagesOwned /\ RegionsApart
ContentInv == PagesInProgress /\ CodeIntact

IInv == TypeOK /\ ControlInv /\ OwnedMapped /\ MappingInv /\ ContentInv

------------------------------------------------------------------------------
\* Every allocation has a page, and the bytes written end in its last one.
LEMMA SizeFacts ==
  ASSUME NEW d \in Dfas
  PROVE  /\ AllocSize(d) \in Nat /\ AllocSize(d) >= 1
         /\ (Length(d) - 1) \div PageSize = AllocSize(d) - 1
<1> DEFINE n == Length(d) - 1
           q == n \div PageSize
           r == n % PageSize
<1>1. n \in Nat /\ PageSize \in Nat /\ PageSize > 0
  BY SizesAssumption DEF Length
<1> HIDE DEF n
<1>2. q \in Nat /\ r \in 0 .. PageSize - 1 /\ n = PageSize * q + r
  BY <1>1
<1>3. (n + PageSize) \div PageSize = q + 1
  BY <1>1
<1>4. Length(d) + PageSize - 1 = n + PageSize
  BY <1>1, SizesAssumption DEF n, Length
<1>5. AllocSize(d) = q + 1
  BY <1>3, <1>4 DEF AllocSize
<1> QED BY <1>2, <1>5 DEF n

\* A region lies in the address space; the bytes written lie in the region.
LEMMA RegionFacts ==
  ASSUME TypeOK, MappingsFit, NEW d \in Dfas
  PROVE  /\ Region(d) \subseteq Page
         /\ Written(d) \subseteq Region(d)
         /\ base[d] # NoBase => base[d] \in Written(d) /\ base[d] \in Page
<1>1. CASE base[d] = NoBase
  BY <1>1 DEF Region, Written
<1>2. CASE base[d] # NoBase
  <2>1. base[d] \in Page /\ base[d] + AllocSize(d) <= PageCount /\ PageCount \in Nat
    BY <1>2, SizesAssumption DEF TypeOK, MappingsFit
  <2>2. base[d] \in Int /\ base[d] >= 0 /\ AllocSize(d) \in Nat /\ AllocSize(d) >= 1
    BY <2>1, SizeFacts DEF Page
  <2>3. Region(d) = base[d] .. base[d] + AllocSize(d) - 1
    BY <1>2 DEF Region
  <2>4. Written(d) = base[d] .. base[d] + AllocSize(d) - 1
    BY <1>2, <2>2, SizeFacts DEF Written
  <2> QED BY <2>1, <2>2, <2>3, <2>4 DEF Page
<1> QED BY <1>1, <1>2

\* The initial state.
LEMMA InitIInv == Init => IInv
<1> SUFFICES ASSUME Init PROVE IInv
  OBVIOUS
<1> USE DEF Init, Handle!Idle
<1>1. TypeOK
  BY SizesAssumption DEF TypeOK, FreePage, Fault, NoBase
<1>2. ControlInv
  BY DfasAssumption DEF ControlInv, ProcsInCalls, BuildersAlone, HoldersFollowOutcome, At, Handle!In, Building
<1>3. OwnedMapped /\ MappingInv
  BY DfasAssumption DEF MappingInv, OwnedMapped, MappingsFit, PagesOwned, RegionsApart, Owned, At,
     Handle!In, Building, Region, FreePage
<1>4. ContentInv
  BY DfasAssumption DEF ContentInv, PagesInProgress, CodeIntact, At, Handle!In, Building
<1> QED BY <1>1, <1>2, <1>3, <1>4 DEF IInv

------------------------------------------------------------------------------
\* The types.
LEMMA TypeStep == TypeOK /\ ControlInv /\ MappingInv /\ [Next]_vars => TypeOK'
<1> SUFFICES ASSUME TypeOK, ControlInv, MappingInv, [Next]_vars PROVE TypeOK'
  OBVIOUS
<1> USE DEF TypeOK
<1>0. CASE UNCHANGED vars
  BY <1>0 DEF vars, memory, handle
<1>1. ASSUME NEW t \in Threads, NEW d \in Dfas, UNCHANGED memory,
             \/ Call(t, d) \/ TooManyStates(t, d) \/ MapFails(t, d) \/ ProtectFails(t, d)
             \/ StartScan(t, d) \/ FinishScan(t, d) \/ Release(t, d)
             \/ \E u \in Threads : Share(t, u, d)
      PROVE  TypeOK'
  BY <1>1 DEF Call, TooManyStates, MapFails, ProtectFails, StartScan, FinishScan, Release, Share,
     Fails, GoTo, Leave, Handle!In, Handle!Idle, memory, handle, Errors, Building, Scanned, Fault
<1>2. ASSUME NEW t \in Threads, NEW d \in Dfas, Map(t, d) PROVE TypeOK'
  BY <1>2 DEF Map, GoTo, Handle!In, handle, Building, Fresh
<1>3. ASSUME NEW t \in Threads, NEW d \in Dfas, Write(t, d) PROVE TypeOK'
  BY <1>3 DEF Write, GoTo, Handle!In, handle, Building
<1>4. ASSUME NEW t \in Threads, NEW d \in Dfas, Patch(t, d) PROVE TypeOK'
  BY <1>4 DEF Patch, GoTo, Handle!In, handle, Building
<1>5. ASSUME NEW t \in Threads, NEW d \in Dfas, Protect(t, d) PROVE TypeOK'
  BY <1>5 DEF Protect, Protected, Leave, Handle!Idle
<1>6. ASSUME NEW t \in Threads, NEW d \in Dfas, Undo(t, d) PROVE TypeOK'
  BY <1>6, RegionFacts DEF Undo, Unmapped, Fails, Leave, Handle!Idle, FreePage, Errors, MappingInv
<1>7. ASSUME NEW t \in Threads, NEW d \in Dfas, Drop(t, d) PROVE TypeOK'
  BY <1>7, RegionFacts DEF Drop, Unmapped, Leave, handle, Handle!Idle, FreePage, MappingInv
<1> QED
  BY <1>0, <1>1, <1>2, <1>3, <1>4, <1>5, <1>6, <1>7 DEF Next, Run, Call, TooManyStates, MapFails,
     ProtectFails, StartScan, FinishScan, Release, Share

------------------------------------------------------------------------------
\* A thread that enters a call for d, or goes on in it, is in no other; the
\* other threads are where they were.
LEMMA Entered ==
  ASSUME TypeOK, NEW t \in Threads, NEW d \in Dfas, NEW s, GoTo(t, s, d)
  PROVE  /\ \A u \in Threads : proc'[u] = IF u = t THEN Handle!In(s, d) ELSE proc[u]
         /\ proc'[t] # Handle!Idle /\ proc'[t].dfa = d
         /\ \A x : \A u \in Threads, e \in Dfas :
              At(u, x, e)' <=> IF u = t THEN x = s /\ e = d ELSE At(u, x, e)
BY DfasAssumption DEF GoTo, At, Handle!In, Handle!Idle, TypeOK

\* A thread that leaves its call is in none; the others are where they were.
LEMMA Left ==
  ASSUME TypeOK, NEW t \in Threads, Leave(t)
  PROVE  /\ \A u \in Threads : proc'[u] = IF u = t THEN Handle!Idle ELSE proc[u]
         /\ proc'[t].dfa = NoDfa
         /\ \A x : \A u \in Threads, e \in Dfas : At(u, x, e)' <=> u # t /\ At(u, x, e)
BY DfasAssumption DEF Leave, At, Handle!In, Handle!Idle, TypeOK

\* A thread is in one call at a time, for the DFA of its record.
LEMMA OneCall ==
  /\ \A s : \A t \in Threads, d \in Dfas : At(t, s, d) => proc[t] # Handle!Idle /\ proc[t].dfa = d
  /\ \A s, x : \A t \in Threads, d, e \in Dfas : At(t, s, d) /\ At(t, x, e) => s = x /\ d = e
BY DfasAssumption DEF At, Handle!In, Handle!Idle

\* Who is in which call, and who holds what.
LEMMA ControlStep == TypeOK /\ ControlInv /\ [Next]_vars => ControlInv'
<1> SUFFICES ASSUME TypeOK, ControlInv, [Next]_vars PROVE ControlInv'
  OBVIOUS
<1> USE DfasAssumption DEF ControlInv
<1>0. CASE UNCHANGED vars
  BY <1>0 DEF vars, handle, ProcsInCalls, BuildersAlone, HoldersFollowOutcome, At
<1>1. ASSUME NEW t \in Threads, NEW d \in Dfas, Call(t, d) PROVE ControlInv'
  <2>1. ProcsInCalls'
    BY <1>1, Entered DEF Call, ProcsInCalls, Building, At
  <2>2. BuildersAlone'
    BY <1>1, Entered, OneCall DEF Call, BuildersAlone, Building
  <2>3. HoldersFollowOutcome'
    BY <1>1, Entered DEF Call, handle, HoldersFollowOutcome, Building
  <2> QED BY <2>1, <2>2, <2>3
<1>2. ASSUME NEW t \in Threads, NEW d \in Dfas,
             TooManyStates(t, d) \/ MapFails(t, d) \/ Undo(t, d)
      PROVE  ControlInv'
  <2>1. ProcsInCalls'
    BY <1>2, Left DEF TooManyStates, MapFails, Undo, Fails, ProcsInCalls, At
  <2>2. BuildersAlone'
    BY <1>2, Left DEF TooManyStates, MapFails, Undo, Fails, BuildersAlone
  <2>3. HoldersFollowOutcome'
    BY <1>2, Left, OneCall DEF TooManyStates, MapFails, Undo, Fails, HoldersFollowOutcome, BuildersAlone, Building, TypeOK
  <2> QED BY <2>1, <2>2, <2>3
<1>3. ASSUME NEW t \in Threads, NEW d \in Dfas,
             Map(t, d) \/ Write(t, d) \/ Patch(t, d) \/ ProtectFails(t, d)
      PROVE  ControlInv'
  <2>1. PICK s \in Building, x \in Building : At(t, x, d) /\ GoTo(t, s, d) /\ UNCHANGED handle
    BY <1>3 DEF Map, Write, Patch, ProtectFails, Building
  <2>2. ProcsInCalls'
    <3>1. ASSUME NEW u \in Threads PROVE
             proc'[u] = Handle!Idle \/ \E y \in {"scan", "drop"} \cup Building, e \in Dfas : At(u, y, e)'
      <4>1. CASE u = t
        <5>1. At(t, s, d)'
          BY <2>1, Entered
        <5> QED BY <4>1, <5>1
      <4>2. CASE u # t
        BY <2>1, <4>2, Entered DEF ProcsInCalls
      <4> QED BY <4>1, <4>2
    <3> QED BY <3>1 DEF ProcsInCalls, At
  <2>3. BuildersAlone'
    BY <2>1, Entered, OneCall DEF BuildersAlone
  <2>4. HoldersFollowOutcome'
    BY <2>1, Entered DEF handle, HoldersFollowOutcome, Building
  <2> QED BY <2>2, <2>3, <2>4
<1>4. ASSUME NEW t \in Threads, NEW d \in Dfas, Protect(t, d) PROVE ControlInv'
  <2>1. ProcsInCalls'
    BY <1>4, Left DEF Protect, Protected, ProcsInCalls, At
  <2>2. BuildersAlone'
    BY <1>4, Left DEF Protect, Protected, BuildersAlone
  <2>3. HoldersFollowOutcome'
    BY <1>4, Left, OneCall DEF Protect, Protected, HoldersFollowOutcome, BuildersAlone, Building, TypeOK
  <2> QED BY <2>1, <2>2, <2>3
<1>5. ASSUME NEW t \in Threads, NEW u \in Threads, NEW d \in Dfas, Share(t, u, d) PROVE ControlInv'
  <2>1. ProcsInCalls' /\ BuildersAlone'
    BY <1>5 DEF Share, ProcsInCalls, BuildersAlone, At
  <2>2. HoldersFollowOutcome'
    BY <1>5 DEF Share, HoldersFollowOutcome, At, TypeOK
  <2> QED BY <2>1, <2>2
<1>6. ASSUME NEW t \in Threads, NEW d \in Dfas, StartScan(t, d) PROVE ControlInv'
  <2>0. \A u \in Threads, s \in Building \cup {"drop"} : ~ At(u, s, d)
    BY <1>6 DEF StartScan, HoldersFollowOutcome
  <2>1. ProcsInCalls'
    BY <1>6, Entered DEF StartScan, ProcsInCalls, At
  <2>2. BuildersAlone'
    BY <1>6, <2>0, Entered, OneCall DEF StartScan, BuildersAlone, Building
  <2>3. HoldersFollowOutcome'
    BY <1>6, Entered DEF StartScan, handle, HoldersFollowOutcome, Building
  <2> QED BY <2>1, <2>2, <2>3
<1>7. ASSUME NEW t \in Threads, NEW d \in Dfas, FinishScan(t, d) PROVE ControlInv'
  <2>1. ProcsInCalls'
    BY <1>7, Left DEF FinishScan, ProcsInCalls, At
  <2>2. BuildersAlone'
    BY <1>7, Left DEF FinishScan, BuildersAlone
  <2>3. HoldersFollowOutcome'
    BY <1>7, Left DEF FinishScan, HoldersFollowOutcome
  <2> QED BY <2>1, <2>2, <2>3
<1>8. ASSUME NEW t \in Threads, NEW d \in Dfas, Release(t, d) PROVE ControlInv'
  <2>0. \A u \in Threads, s \in Building \cup {"drop"} : ~ At(u, s, d)
    BY <1>8 DEF Release, HoldersFollowOutcome
  <2>1. CASE holders[d] = {t}
    <3>1. GoTo(t, "drop", d) /\ holders'[d] = {}
      BY <1>8, <2>1 DEF Release, GoTo, TypeOK
    <3>2. \A u \in Threads : proc[u].dfa # d
      BY <1>8, <2>0, <2>1, OneCall DEF Release, ProcsInCalls, HoldersFollowOutcome, Handle!Idle
    <3>3. ProcsInCalls'
      BY <3>1, Entered DEF ProcsInCalls, At
    <3>4. BuildersAlone'
      BY <3>1, <3>2, Entered, OneCall DEF BuildersAlone
    <3>5. HoldersFollowOutcome'
      BY <1>8, <3>1, <3>2, Entered, OneCall DEF Release, HoldersFollowOutcome, Building, TypeOK
    <3> QED BY <3>3, <3>4, <3>5
  <2>2. CASE holders[d] # {t}
    <3>1. proc' = proc
      BY <1>8, <2>2 DEF Release, TypeOK
    <3>2. \A s : \A u \in Threads, e \in Dfas : At(u, s, e)' <=> At(u, s, e)
      BY <3>1 DEF At
    <3>3. ProcsInCalls' /\ BuildersAlone'
      BY <3>1 DEF ProcsInCalls, BuildersAlone, At
    <3>4. \A e \in Dfas : holders'[e] = IF e = d THEN holders[d] \ {t} ELSE holders[e]
      BY <1>8 DEF Release, TypeOK
    <3>5. t \in holders[d] /\ \A s : \A e \in Dfas : ~ At(t, s, e)
      BY <1>8, OneCall DEF Release
    <3>6. outcome' = outcome /\ \A e \in Dfas : holders[e] = {} => holders'[e] = {}
      BY <1>8, <3>4 DEF Release
    <3>7. \A u \in Threads, e \in Dfas : At(u, "scan", e) => u \in holders'[e]
      BY <3>4, <3>5 DEF HoldersFollowOutcome
    <3>8. HoldersFollowOutcome'
      BY <3>2, <3>4, <3>6, <3>7 DEF HoldersFollowOutcome
    <3> QED BY <3>3, <3>8
  <2> QED BY <2>1, <2>2
<1>9. ASSUME NEW t \in Threads, NEW d \in Dfas, Drop(t, d) PROVE ControlInv'
  <2>1. ProcsInCalls'
    BY <1>9, Left DEF Drop, ProcsInCalls, At
  <2>2. BuildersAlone'
    BY <1>9, Left DEF Drop, BuildersAlone
  <2>3. HoldersFollowOutcome'
    BY <1>9, Left DEF Drop, handle, HoldersFollowOutcome
  <2> QED BY <2>1, <2>2, <2>3
<1> QED
  BY <1>0, <1>1, <1>2, <1>3, <1>4, <1>5, <1>6, <1>7, <1>8, <1>9 DEF Next, Run

------------------------------------------------------------------------------
\* A DFA is owned by whoever holds it, drops it, or builds it beyond mmap.
LEMMA OwnedMeans ==
  \A d \in Dfas : d \in Owned <=>
    \/ holders[d] # {}
    \/ \E t \in Threads : \E s \in {"write", "patch", "protect", "undo", "drop"} : At(t, s, d)
BY DEF Owned, Building

\* Owning and having a mapping stay the same thing.
LEMMA OwnedStep ==
  TypeOK /\ ControlInv /\ OwnedMapped /\ [Next]_vars => OwnedMapped'
<1> SUFFICES ASSUME TypeOK, ControlInv, OwnedMapped, [Next]_vars PROVE OwnedMapped'
  OBVIOUS
<1> DEFINE Owns(d) ==
      \/ holders[d] # {}
      \/ \E t \in Threads : \E s \in {"write", "patch", "protect", "undo", "drop"} : At(t, s, d)
<1>a. \A d \in Dfas : base[d] # NoBase <=> Owns(d)
  BY OwnedMeans DEF OwnedMapped
<1>b. (\A d \in Dfas : base[d] # NoBase <=> Owns(d))' => OwnedMapped'
  BY DEF OwnedMapped, Owned, Building
<1>0. CASE UNCHANGED vars
  BY <1>0, <1>a, <1>b DEF vars, memory, handle, At
<1>1. ASSUME NEW t \in Threads, NEW d \in Dfas, Call(t, d) PROVE OwnedMapped'
  BY <1>1, <1>a, <1>b, Entered, OneCall DEF Call, memory, handle
<1>2. ASSUME NEW t \in Threads, NEW d \in Dfas, TooManyStates(t, d) \/ MapFails(t, d)
      PROVE  OwnedMapped'
  BY <1>2, <1>a, <1>b, Left, OneCall DEF TooManyStates, MapFails, Fails, memory
<1>3. ASSUME NEW t \in Threads, NEW d \in Dfas, Map(t, d) PROVE OwnedMapped'
  <2>1. PICK b \in Page : base' = [base EXCEPT ![d] = b]
    BY <1>3 DEF Map
  <2>2. \A e \in Dfas : base'[e] = IF e = d THEN b ELSE base[e]
    BY <2>1 DEF TypeOK
  <2>3. b # NoBase
    BY SizesAssumption DEF Page, NoBase
  <2>4. At(t, "map", d) /\ GoTo(t, "write", d) /\ UNCHANGED handle
    BY <1>3 DEF Map
  <2> QED BY <1>a, <1>b, <2>2, <2>3, <2>4, Entered, OneCall DEF handle
<1>4. ASSUME NEW t \in Threads, NEW d \in Dfas, Write(t, d) \/ Patch(t, d) \/ ProtectFails(t, d)
      PROVE  OwnedMapped'
  BY <1>4, <1>a, <1>b, Entered, OneCall DEF Write, Patch, ProtectFails, memory, handle
<1>5. ASSUME NEW t \in Threads, NEW d \in Dfas, Protect(t, d) PROVE OwnedMapped'
  <2>1. \A e \in Dfas : holders'[e] = IF e = d THEN {t} ELSE holders[e]
    BY <1>5 DEF Protect, Protected, TypeOK
  <2>2. At(t, "protect", d) /\ Leave(t) /\ UNCHANGED base
    BY <1>5 DEF Protect, Protected
  <2> QED BY <1>a, <1>b, <2>1, <2>2, Left, OneCall
<1>6. ASSUME NEW t \in Threads, NEW d \in Dfas, Undo(t, d) \/ Drop(t, d) PROVE OwnedMapped'
  BY <1>6, <1>a, <1>b, Left, OneCall DEF Undo, Drop, Unmapped, Fails, handle, TypeOK, ControlInv,
     HoldersFollowOutcome, BuildersAlone, Building
<1>7. ASSUME NEW t \in Threads, NEW u \in Threads, NEW d \in Dfas, Share(t, u, d) PROVE OwnedMapped'
  BY <1>7, <1>a, <1>b DEF Share, memory, TypeOK, At
<1>8. ASSUME NEW t \in Threads, NEW d \in Dfas, StartScan(t, d) PROVE OwnedMapped'
  BY <1>8, <1>a, <1>b, Entered, OneCall DEF StartScan, memory, handle
<1>9. ASSUME NEW t \in Threads, NEW d \in Dfas, FinishScan(t, d) PROVE OwnedMapped'
  BY <1>9, <1>a, <1>b, Left, OneCall DEF FinishScan, memory
<1>10. ASSUME NEW t \in Threads, NEW d \in Dfas, Release(t, d) PROVE OwnedMapped'
  <2>1. CASE holders[d] = {t}
    <3>1. proc[t] = Handle!Idle /\ GoTo(t, "drop", d) /\ UNCHANGED base
      BY <1>10, <2>1 DEF Release, GoTo, TypeOK, memory
    <3>2. \A e \in Dfas : holders'[e] = IF e = d THEN {} ELSE holders[e]
      BY <1>10, <2>1 DEF Release, TypeOK
    <3> QED
      BY <1>a, <1>b, <2>1, <3>1, <3>2, Entered, OneCall
  <2>2. CASE holders[d] # {t}
    BY <1>10, <1>a, <1>b, <2>2 DEF Release, TypeOK, memory, At
  <2> QED BY <2>1, <2>2
<1> QED
  BY <1>0, <1>1, <1>2, <1>3, <1>4, <1>5, <1>6, <1>7, <1>8, <1>9, <1>10 DEF Next, Run

------------------------------------------------------------------------------
\* A region and the bytes written in it depend on where the mapping is.
LEMMA SameBase ==
  ASSUME NEW d \in Dfas, base'[d] = base[d]
  PROVE  Region(d)' = Region(d) /\ Written(d)' = Written(d)
BY DEF Region, Written

\* mmap took free pages: they were in no region and not with the kernel.
LEMMA MapStep ==
  ASSUME TypeOK, MappingInv, NEW t \in Threads, NEW d \in Dfas, Map(t, d), base[d] = NoBase
  PROVE  /\ \A e \in Dfas : e # d => Region(e)' = Region(e)
         /\ \A p \in Region(d)' : p \in Page /\ mem[p] = FreePage /\ mem'[p] = Fresh
         /\ \A p \in Page \ Region(d)' : mem'[p] = mem[p]
         /\ base'[d] + AllocSize(d) <= PageCount
         /\ \A e \in Dfas : Region(d)' \cap Region(e) = {}
         /\ Region(d)' \cap refused = {}
<1>1. PICK b \in Page :
        /\ b + AllocSize(d) <= PageCount
        /\ \A p \in b .. b + AllocSize(d) - 1 : mem[p] = FreePage
        /\ base' = [base EXCEPT ![d] = b]
        /\ mem' = [p \in Page |-> IF p \in b .. b + AllocSize(d) - 1 THEN Fresh ELSE mem[p]]
  BY DEF Map
<1>2. base'[d] = b /\ \A e \in Dfas : e # d => base'[e] = base[e]
  BY <1>1 DEF TypeOK
<1>3. b # NoBase /\ b \in Int /\ b >= 0 /\ PageCount \in Nat
  BY SizesAssumption DEF Page, NoBase
<1>4. Region(d)' = b .. b + AllocSize(d) - 1
  BY <1>2, <1>3 DEF Region
<1>5. b .. b + AllocSize(d) - 1 \subseteq Page
  BY <1>1, <1>3, SizeFacts DEF Page
<1>6. \A p \in Region(d)' : p \in Page /\ mem[p] = FreePage
  BY <1>1, <1>4, <1>5
<1>7. \A e \in Dfas, p \in Region(d)' : p \notin Region(e) /\ p \notin refused
  BY <1>6 DEF MappingInv, PagesOwned, FreePage
<1> QED BY <1>1, <1>2, <1>4, <1>5, <1>7, SameBase

\* munmap took back a region, or the kernel kept it.
LEMMA UnmapStep ==
  ASSUME TypeOK, MappingInv, NEW d \in Dfas, Unmapped(d, Region(d))
  PROVE  /\ base'[d] = NoBase /\ Region(d)' = {}
         /\ \A e \in Dfas : e # d => base'[e] = base[e] /\ Region(e)' = Region(e) /\ Written(e)' = Written(e)
         /\ \A p \in Page \ Region(d) : mem'[p] = mem[p] /\ (p \in refused' <=> p \in refused)
         /\ \/ \A p \in Region(d) : mem'[p] = FreePage /\ p \notin refused'
            \/ \A p \in Region(d) : mem'[p] = mem[p] /\ p \in refused'
<1>1. base'[d] = NoBase /\ \A e \in Dfas : e # d => base'[e] = base[e]
  BY DEF Unmapped, TypeOK
<1>2. Region(d)' = {}
  BY <1>1 DEF Region
<1>3. \A e \in Dfas : e # d => Region(e)' = Region(e) /\ Written(e)' = Written(e)
  BY <1>1, SameBase
<1>4. Region(d) \subseteq Page /\ Region(d) \cap refused = {}
  BY RegionFacts DEF MappingInv, RegionsApart
<1> QED BY <1>1, <1>2, <1>3, <1>4 DEF Unmapped, TypeOK

\* Where the mappings are and which pages they own.
LEMMA MappingStep == TypeOK /\ ControlInv /\ OwnedMapped /\ MappingInv /\ [Next]_vars => MappingInv'
<1> SUFFICES ASSUME TypeOK, ControlInv, OwnedMapped, MappingInv, [Next]_vars PROVE MappingInv'
  OBVIOUS
<1>1. CASE UNCHANGED memory
  BY <1>1, SameBase DEF memory, MappingInv, MappingsFit, PagesOwned, RegionsApart
<1>2. ASSUME NEW t \in Threads, NEW d \in Dfas, Map(t, d) PROVE MappingInv'
  <2>0. base[d] = NoBase
    BY <1>2, OneCall, OwnedMeans DEF Map, ControlInv, HoldersFollowOutcome, BuildersAlone, Building, OwnedMapped
  <2>1. MappingsFit'
    BY <1>2, <2>0, MapStep DEF MappingInv, MappingsFit, Map, TypeOK
  <2>2. \A e \in Dfas, p \in Region(d)' : p \notin Region(e) /\ p \notin refused
    BY <1>2, <2>0, MapStep
  <2>3. Region(d) = {}
    BY <2>0 DEF Region
  <2>4. PagesOwned'
    <3>1. ASSUME NEW p \in Page PROVE
             mem'[p].prot # "none" <=> p \in refused' \/ \E e \in Dfas : p \in Region(e)'
      <4>1. CASE p \in Region(d)'
        BY <1>2, <2>0, <4>1, MapStep DEF Fresh
      <4>2. CASE p \notin Region(d)'
        <5>1. mem'[p] = mem[p] /\ refused' = refused
          BY <1>2, <2>0, <4>2, MapStep DEF Map
        <5>2. \A e \in Dfas : p \in Region(e)' <=> p \in Region(e)
          BY <1>2, <2>0, <2>3, <4>2, MapStep
        <5> QED BY <5>1, <5>2 DEF MappingInv, PagesOwned
      <4> QED BY <4>1, <4>2
    <3> QED BY <3>1 DEF PagesOwned
  <2>5. RegionsApart'
    <3>1. \A e \in Dfas : e # d => Region(e)' = Region(e)
      BY <1>2, <2>0, MapStep
    <3>2. refused' = refused
      BY <1>2 DEF Map
    <3>3. \A e \in Dfas : e # d => Region(d)' \cap Region(e)' = {} /\ Region(e)' \cap Region(d)' = {}
      BY <2>2, <3>1
    <3>4. Region(d)' \cap refused' = {}
      BY <2>2, <3>2
    <3> QED BY <3>1, <3>2, <3>3, <3>4 DEF MappingInv, RegionsApart
  <2> QED BY <2>1, <2>4, <2>5 DEF MappingInv
<1>3. ASSUME UNCHANGED <<base, refused>>, \A p \in Page : mem[p].prot = "none" <=> mem'[p].prot = "none"
      PROVE  MappingInv'
  BY <1>3, SameBase DEF MappingInv, MappingsFit, PagesOwned, RegionsApart
<1>4. ASSUME NEW t \in Threads, NEW d \in Dfas, Write(t, d) \/ Patch(t, d) PROVE MappingInv'
  BY <1>3, <1>4 DEF Write, Patch, TypeOK
<1>5. ASSUME NEW t \in Threads, NEW d \in Dfas, Protect(t, d) PROVE MappingInv'
  <2>1. \A p \in Region(d) : p \in Page => mem[p].prot # "none"
    BY DEF MappingInv, PagesOwned
  <2> QED BY <1>3, <1>5, <2>1 DEF Protect, Protected, TypeOK
<1>6. ASSUME NEW d \in Dfas, Unmapped(d, Region(d)) PROVE MappingInv'
  <2>1. MappingsFit'
    BY <1>6, UnmapStep DEF MappingInv, MappingsFit
  <2>2. PagesOwned'
    BY <1>6, UnmapStep DEF MappingInv, PagesOwned, RegionsApart, FreePage
  <2>3. RegionsApart'
    <3>1. Region(d)' = {} /\ \A e \in Dfas : e # d => Region(e)' = Region(e)
      BY <1>6, UnmapStep
    <3>2. refused' \subseteq refused \cup Region(d)
      BY <1>6 DEF Unmapped
    <3>3. \A e \in Dfas : e # d => Region(e) \cap refused' = {}
      BY <3>2 DEF MappingInv, RegionsApart
    <3> QED BY <3>1, <3>3 DEF MappingInv, RegionsApart
  <2> QED BY <2>1, <2>2, <2>3 DEF MappingInv
<1> QED
  BY <1>1, <1>2, <1>4, <1>5, <1>6 DEF Next, Run, Call, TooManyStates, MapFails, ProtectFails, StartScan,
     FinishScan, Release, Share, Undo, Drop, vars

------------------------------------------------------------------------------
\* A step left the mapping of d and the content of its pages alone.
Kept(d) == base'[d] = base[d] /\ \A p \in Region(d) : mem'[p] = mem[p]

\* What is said of such pages stays true.
LEMMA KeptContent ==
  ASSUME TypeOK, MappingsFit, NEW d \in Dfas, base[d] # NoBase, Kept(d)
  PROVE  /\ \A s : Progress(s, d) => Progress(s, d)'
         /\ Intact(d) => Intact(d)'
<1>1. Region(d)' = Region(d) /\ Written(d)' = Written(d)
  BY SameBase DEF Kept
<1>2. Written(d) \subseteq Region(d) /\ base[d] \in Region(d)
  BY RegionFacts
<1> QED BY <1>1, <1>2 DEF Kept, Progress, Intact

\* A step that changes the pages of one region keeps all others.
LEMMA OthersKept ==
  ASSUME TypeOK, MappingInv, NEW d \in Dfas,
         \A e \in Dfas : e # d => base'[e] = base[e],
         \A p \in Page \ Region(d) : mem'[p] = mem[p]
  PROVE  \A e \in Dfas : e # d => Kept(e)
BY RegionFacts DEF Kept, MappingInv, RegionsApart

\* The content of the pages: a compile fills them step by step and finds them
\* as it left them, and finished code stays as it is while it is held.
LEMMA ContentStep == IInv /\ [Next]_vars => ContentInv'
<1> SUFFICES ASSUME IInv, [Next]_vars PROVE ContentInv'
  OBVIOUS
<1> USE DEF IInv
<1>1. ASSUME NEW d \in Dfas,
             \A e \in Dfas : e # d => Kept(e),
             \A s \in {"write", "patch", "protect"} : \A t \in Threads, e \in Dfas :
               At(t, s, e)' /\ e # d => At(t, s, e),
             \A e \in Dfas : e # d => holders'[e] = holders[e],
             \A s \in {"write", "patch", "protect"} : \A t \in Threads : At(t, s, d)' => Progress(s, d)',
             holders'[d] # {} /\ IsJit(d) => Intact(d)'
      PROVE  ContentInv'
  <2>1. PagesInProgress'
    <3>1. ASSUME NEW s \in Building, NEW t \in Threads, NEW e \in Dfas, At(t, s, e)' PROVE Progress(s, e)'
      <4>1. CASE s \notin {"write", "patch", "protect"}
        BY <4>1 DEF Progress
      <4>2. CASE s \in {"write", "patch", "protect"} /\ e = d
        BY <1>1, <3>1, <4>2
      <4>3. CASE s \in {"write", "patch", "protect"} /\ e # d
        <5>1. At(t, s, e)
          BY <1>1, <3>1, <4>3
        <5>2. Progress(s, e) /\ base[e] # NoBase
          BY <4>3, <5>1, OwnedMeans DEF ContentInv, PagesInProgress, OwnedMapped
        <5> QED BY <1>1, <4>3, <5>2, KeptContent DEF MappingInv
      <4> QED BY <4>1, <4>2, <4>3
    <3> QED BY <3>1 DEF PagesInProgress, Building
  <2>2. CodeIntact'
    <3>1. ASSUME NEW e \in Dfas, e # d, holders'[e] # {}, IsJit(e) PROVE Intact(e)'
      BY <1>1, <3>1, KeptContent DEF ContentInv, CodeIntact, MappingInv, Intact
    <3> QED BY <1>1, <3>1 DEF CodeIntact, IsJit
  <2> QED BY <2>1, <2>2 DEF ContentInv
<1>2. ASSUME UNCHANGED memory,
             \A s \in {"write", "patch", "protect"} : \A t \in Threads, e \in Dfas : At(t, s, e)' => At(t, s, e),
             \A e \in Dfas : holders'[e] # {} => holders[e] # {}
      PROVE  ContentInv'
  <2>1. \A s : \A e \in Dfas : Progress(s, e) => Progress(s, e)'
    BY <1>2, SameBase DEF memory, Progress
  <2>2. \A e \in Dfas : Intact(e) => Intact(e)'
    BY <1>2, SameBase DEF memory, Intact
  <2>3. \A s : s \notin {"write", "patch", "protect"} => \A e \in Dfas : Progress(s, e)'
    BY DEF Progress
  <2>4. PagesInProgress'
    BY <1>2, <2>1, <2>3 DEF ContentInv, PagesInProgress, Building
  <2>5. CodeIntact'
    BY <1>2, <2>2 DEF ContentInv, CodeIntact
  <2> QED BY <2>4, <2>5 DEF ContentInv
<1>3. CASE UNCHANGED vars
  BY <1>2, <1>3 DEF vars, handle, memory, At
<1>4. ASSUME NEW t \in Threads, NEW d \in Dfas,
             Call(t, d) \/ StartScan(t, d) \/ ProtectFails(t, d)
      PROVE  ContentInv'
  <2>1. PICK s \in {"map", "scan", "undo"} : GoTo(t, s, d) /\ UNCHANGED <<memory, handle>>
    BY <1>4 DEF Call, StartScan, ProtectFails
  <2>2. \A x \in {"write", "patch", "protect"} : \A u \in Threads, e \in Dfas : At(u, x, e)' => At(u, x, e)
    BY <2>1, Entered
  <2> QED BY <1>2, <2>1, <2>2 DEF handle
<1>5. ASSUME NEW t \in Threads, NEW d \in Dfas,
             TooManyStates(t, d) \/ MapFails(t, d) \/ FinishScan(t, d)
      PROVE  ContentInv'
  <2>1. Leave(t) /\ UNCHANGED <<memory, holders>>
    BY <1>5 DEF TooManyStates, MapFails, FinishScan, Fails
  <2> QED BY <1>2, <2>1, Left
<1>6. ASSUME NEW t \in Threads, NEW u \in Threads, NEW d \in Dfas, Share(t, u, d) PROVE ContentInv'
  <2>1. UNCHANGED <<memory, proc>> /\ \A e \in Dfas : holders'[e] # {} => holders[e] # {}
    BY <1>6 DEF Share, TypeOK
  <2> QED BY <1>2, <2>1 DEF At
<1>7. ASSUME NEW t \in Threads, NEW d \in Dfas, Release(t, d) PROVE ContentInv'
  <2>1. UNCHANGED memory /\ \A e \in Dfas : holders'[e] # {} => holders[e] # {}
    BY <1>7 DEF Release, TypeOK
  <2>2. CASE holders[d] = {t}
    <3>1. GoTo(t, "drop", d)
      BY <1>7, <2>2 DEF Release, GoTo, TypeOK
    <3> QED BY <1>2, <2>1, <3>1, Entered
  <2>3. CASE holders[d] # {t}
    <3>1. proc' = proc
      BY <1>7, <2>3 DEF Release, TypeOK
    <3> QED BY <1>2, <2>1, <3>1 DEF At
  <2> QED BY <2>2, <2>3
<1>8. ASSUME NEW t \in Threads, NEW d \in Dfas, Map(t, d) PROVE ContentInv'
  <2>1. /\ At(t, "map", d) /\ GoTo(t, "write", d) /\ UNCHANGED handle
        /\ \A e \in Dfas : e # d => base'[e] = base[e]
    BY <1>8 DEF Map, TypeOK
  <2>2. base[d] = NoBase /\ holders[d] = {}
    BY <2>1, OneCall, OwnedMeans DEF ControlInv, HoldersFollowOutcome, BuildersAlone, Building, OwnedMapped
  <2>3. \A e \in Dfas : e # d => Kept(e)
    BY <1>8, <2>1, <2>2, MapStep, RegionFacts DEF Kept, MappingInv
  <2>4. Progress("write", d)'
    BY <1>8, <2>2, MapStep DEF Progress, Fresh
  <2> QED BY <1>1, <2>1, <2>2, <2>3, <2>4, Entered, OneCall DEF handle, ControlInv, BuildersAlone, Building
<1>9. ASSUME NEW t \in Threads, NEW d \in Dfas, Write(t, d) PROVE ContentInv'
  <2>1. /\ At(t, "write", d) /\ UNCHANGED <<base, handle>>
        /\ GoTo(t, IF IsJit(d) THEN "patch" ELSE "protect", d)
        /\ \A p \in Page : mem'[p] = IF p \in Written(d) THEN [mem[p] EXCEPT !.text = d] ELSE mem[p]
    BY <1>9 DEF Write
  <2>2. holders[d] = {} /\ Progress("write", d) /\ base[d] # NoBase
    BY <2>1, OwnedMeans DEF ControlInv, HoldersFollowOutcome, Building, OwnedMapped, ContentInv, PagesInProgress
  <2>3. Region(d) \subseteq Page /\ Written(d) \subseteq Region(d)
    BY RegionFacts DEF MappingInv
  <2>4. \A e \in Dfas : e # d => Kept(e)
    BY <2>1, <2>3, OthersKept
  <2>5. Progress(IF IsJit(d) THEN "patch" ELSE "protect", d)'
    BY <2>1, <2>2, <2>3, SameBase DEF Progress, TypeOK
  <2> QED BY <1>1, <2>1, <2>2, <2>4, <2>5, Entered, OneCall DEF handle, ControlInv, BuildersAlone, Building
<1>10. ASSUME NEW t \in Threads, NEW d \in Dfas, Patch(t, d) PROVE ContentInv'
  <2>1. /\ At(t, "patch", d) /\ GoTo(t, "protect", d) /\ UNCHANGED <<base, handle>>
        /\ mem' = [mem EXCEPT ![base[d]].tables = base[d]]
    BY <1>10 DEF Patch
  <2>2. holders[d] = {} /\ Progress("patch", d) /\ base[d] # NoBase
    BY <2>1, OwnedMeans DEF ControlInv, HoldersFollowOutcome, Building, OwnedMapped, ContentInv, PagesInProgress
  <2>3. /\ Region(d) \subseteq Page /\ Written(d) \subseteq Region(d)
        /\ base[d] \in Page /\ base[d] \in Region(d)
    BY <2>2, RegionFacts DEF MappingInv
  <2>4. \A e \in Dfas : e # d => Kept(e)
    BY <2>1, <2>3, OthersKept DEF TypeOK
  <2>5. Progress("protect", d)'
    BY <2>1, <2>2, <2>3, SameBase DEF Progress, TypeOK
  <2> QED BY <1>1, <2>1, <2>2, <2>4, <2>5, Entered, OneCall DEF handle, ControlInv, BuildersAlone, Building
<1>11. ASSUME NEW t \in Threads, NEW d \in Dfas, Protect(t, d) PROVE ContentInv'
  <2>1. /\ At(t, "protect", d) /\ Leave(t) /\ UNCHANGED base
        /\ holders' = [holders EXCEPT ![d] = {t}]
        /\ \A p \in Page : mem'[p] = IF p \in Region(d) THEN [mem[p] EXCEPT !.prot = "rx"] ELSE mem[p]
    BY <1>11 DEF Protect, Protected
  <2>2. Progress("protect", d) /\ base[d] # NoBase
    BY <2>1, OwnedMeans DEF OwnedMapped, ContentInv, PagesInProgress, Building
  <2>3. /\ Region(d) \subseteq Page /\ Written(d) \subseteq Region(d)
        /\ base[d] \in Page /\ base[d] \in Region(d)
    BY <2>2, RegionFacts DEF MappingInv
  <2>4. \A e \in Dfas : e # d => Kept(e)
    BY <2>1, <2>3, OthersKept
  <2>5. IsJit(d) => Intact(d)'
    <3>1. \A p \in Region(d) : mem'[p] = [mem[p] EXCEPT !.prot = "rx"]
      BY <2>1, <2>3
    <3>a. \A p \in Page : mem[p] \in [prot : {"none", "rw", "rx"}, text : Dfas \cup {NoDfa},
                                      tables : Page \cup {NoBase}]
      BY DEF TypeOK
    <3>b. \A m \in [prot : {"none", "rw", "rx"}, text : Dfas \cup {NoDfa}, tables : Page \cup {NoBase}] :
            LET n == [m EXCEPT !.prot = "rx"]
            IN  n.prot = "rx" /\ n.text = m.text /\ n.tables = m.tables
      OBVIOUS
    <3>2. \A p \in Region(d) :
            mem'[p].prot = "rx" /\ mem'[p].text = mem[p].text /\ mem'[p].tables = mem[p].tables
      BY <2>3, <3>1, <3>a, <3>b
    <3>3. Written(d)' = Written(d) /\ base'[d] = base[d]
      BY <2>1, SameBase
    <3> QED BY <2>2, <2>3, <3>2, <3>3 DEF Progress, Intact
  <2>6. \A s \in Building : \A u \in Threads : ~ At(u, s, d)'
    BY <2>1, Left, OneCall DEF ControlInv, BuildersAlone, Building
  <2>7. \A e \in Dfas : e # d => holders'[e] = holders[e]
    BY <2>1 DEF TypeOK
  <2> QED BY <1>1, <2>1, <2>4, <2>5, <2>6, <2>7, Left DEF Building
<1>12. ASSUME NEW t \in Threads, NEW d \in Dfas, Undo(t, d) \/ Drop(t, d) PROVE ContentInv'
  <2>1. /\ At(t, "undo", d) \/ At(t, "drop", d)
        /\ Leave(t) /\ Unmapped(d, Region(d)) /\ UNCHANGED holders
    BY <1>12 DEF Undo, Drop, Fails, handle
  <2>2. holders[d] = {}
    BY <2>1 DEF ControlInv, HoldersFollowOutcome, Building
  <2>3. \A e \in Dfas : e # d => Kept(e)
    BY <2>1, UnmapStep, OthersKept
  <2>4. \A s \in Building : \A u \in Threads : ~ At(u, s, d)'
    BY <2>1, Left, OneCall DEF ControlInv, BuildersAlone, Building
  <2> QED BY <1>1, <2>1, <2>2, <2>3, <2>4, Left DEF Building
<1> QED
  BY <1>3, <1>4, <1>5, <1>6, <1>7, <1>8, <1>9, <1>10, <1>11, <1>12 DEF Next, Run

------------------------------------------------------------------------------
\* The invariant holds in every reachable state.
LEMMA NextIInv == IInv /\ [Next]_vars => IInv'
BY TypeStep, ControlStep, OwnedStep, MappingStep, ContentStep DEF IInv

\* So the invariant holds throughout.
LEMMA Invariant == Spec => []IInv
BY InitIInv, NextIInv, PTL DEF Spec

\* Type correctness.
THEOREM TypeCorrect == Spec => []TypeOK
<1>1. IInv => TypeOK
  BY DEF IInv
<1> QED BY <1>1, Invariant, PTL

\* No page leaks, is unmapped under another DFA's code, or is named by nobody:
\* for any interleaving of compile, scan and Drop and any refusals of the kernel.
THEOREM PagesAreAccounted == Spec => []PagesAccounted
<1>1. IInv => PagesAccounted
  <2> SUFFICES ASSUME IInv PROVE PagesAccounted
    OBVIOUS
  <2> USE DEF IInv, MappingInv
  <2>1. \A d \in Dfas : base[d] # NoBase <=> d \in Owned
    BY DEF OwnedMapped
  <2>2. \A d \in Dfas : d \notin Owned => Region(d) = {}
    BY <2>1 DEF Region
  <2>3. refused \subseteq Page /\ \A d \in Dfas : Region(d) \subseteq Page
    BY RegionFacts DEF TypeOK
  <2>4. \A p \in Page : mem[p].prot # "none" <=> p \in refused \cup UNION {Region(d) : d \in Owned}
    BY <2>2 DEF PagesOwned, Owned
  <2>5. {p \in Page : mem[p].prot # "none"} = refused \cup UNION {Region(d) : d \in Owned}
    BY <2>3, <2>4 DEF Owned
  <2> QED BY <2>1, <2>5 DEF PagesAccounted, RegionsApart, Owned
<1> QED BY <1>1, Invariant, PTL

\* Machine code that a thread runs or may run is whole, executable and refers to
\* its own tables.
THEOREM CodeStaysIntact == Spec => []CodeIntact
<1>1. IInv => CodeIntact
  BY DEF IInv, ContentInv
<1> QED BY <1>1, Invariant, PTL

------------------------------------------------------------------------------
\* W^X: no thread writes a page that can be executed, or makes it writable again.
THEOREM ExecutableStays == Spec => ExecutableIsFinal
<1> DEFINE Final == \A p \in Page : mem[p].prot = "rx" => mem'[p] \in {mem[p], FreePage}
<1>1. IInv /\ [Next]_vars => [Final]_vars
  <2> SUFFICES ASSUME IInv, Next PROVE Final
    OBVIOUS
  <2> USE DEF IInv
  <2>1. CASE UNCHANGED mem
    BY <2>1
  <2>2. ASSUME NEW t \in Threads, NEW d \in Dfas, Map(t, d) PROVE Final
    BY <2>2 DEF Map, FreePage
  <2>3. ASSUME NEW t \in Threads, NEW d \in Dfas, Write(t, d) PROVE Final
    <3>1. Progress("write", d) /\ Written(d) \subseteq Region(d)
      BY <2>3, RegionFacts DEF Write, ContentInv, PagesInProgress, Building, MappingInv
    <3> QED BY <2>3, <3>1 DEF Write, Progress
  <2>4. ASSUME NEW t \in Threads, NEW d \in Dfas, Patch(t, d) PROVE Final
    <3>1. Progress("patch", d) /\ base[d] \in Region(d)
      BY <2>4, OwnedMeans, RegionFacts DEF Patch, ContentInv, PagesInProgress, Building, MappingInv, OwnedMapped
    <3> QED BY <2>4, <3>1 DEF Patch, Progress, TypeOK
  <2>5. ASSUME NEW t \in Threads, NEW d \in Dfas, Protect(t, d) PROVE Final
    <3>1. Progress("protect", d)
      BY <2>5 DEF Protect, Protected, ContentInv, PagesInProgress, Building
    <3> QED BY <2>5, <3>1 DEF Protect, Protected, Progress
  <2>6. ASSUME NEW t \in Threads, NEW d \in Dfas, Undo(t, d) \/ Drop(t, d) PROVE Final
    BY <2>6 DEF Undo, Drop, Unmapped
  <2> QED
    BY <2>1, <2>2, <2>3, <2>4, <2>5, <2>6 DEF Next, Run, Call, TooManyStates, MapFails, ProtectFails,
       StartScan, FinishScan, Release, Share, memory
<1> HIDE DEF Final
<1>2. Spec => [][Final]_vars
  BY <1>1, Invariant, PTL DEF Spec
<1> QED BY <1>2 DEF ExecutableIsFinal, Final

------------------------------------------------------------------------------
(***************************************************************************)
(* The refinement of DfaHandle: mapping, writing, patching and undoing are *)
(* inside its compile; what a scan returns is its own DFA.                 *)
(***************************************************************************)

\* The abstract view of the threads.
Doing == [t \in Threads |-> IF proc[t].at \in Building THEN [proc[t] EXCEPT !.at = "compile"] ELSE proc[t]]

\* A thread of ExecBuffer seen as one of DfaHandle.
LEMMA DoingOf ==
  ASSUME NEW t \in Threads
  PROVE  /\ proc[t] = Handle!Idle => Doing[t] = Handle!Idle
         /\ \A d \in Dfas :
              /\ \A s \in Building : At(t, s, d) => Doing[t] = Handle!In("compile", d)
              /\ \A s \in {"scan", "drop"} : At(t, s, d) => Doing[t] = Handle!In(s, d)
         /\ Doing[t].dfa = proc[t].dfa
BY DEF Doing, At, Handle!In, Handle!Idle, Building

\* A thread's step changes its own entry only.
LEMMA DoingStep ==
  ASSUME TypeOK, NEW t \in Threads, \A u \in Threads \ {t} : proc'[u] = proc[u]
  PROVE  Doing' = [Doing EXCEPT ![t] = Doing'[t]]
BY DEF Doing

\* The entry a thread has after it enters or leaves a call.
LEMMA DoingNext ==
  ASSUME TypeOK, NEW t \in Threads
  PROVE  /\ \A d \in Dfas :
              /\ \A s \in Building : GoTo(t, s, d) => Doing' = [Doing EXCEPT ![t] = Handle!In("compile", d)]
              /\ \A s \in {"scan", "drop"} : GoTo(t, s, d) => Doing' = [Doing EXCEPT ![t] = Handle!In(s, d)]
         /\ Leave(t) => Doing' = [Doing EXCEPT ![t] = Handle!Idle]
<1>1. ASSUME NEW d \in Dfas, NEW s \in Building, GoTo(t, s, d)
      PROVE  Doing' = [Doing EXCEPT ![t] = Handle!In("compile", d)]
  <2>1. \A u \in Threads : proc'[u] = IF u = t THEN Handle!In(s, d) ELSE proc[u]
    BY <1>1, Entered
  <2>2. Doing'[t] = Handle!In("compile", d)
    BY <2>1 DEF Doing, Handle!In
  <2> QED BY <2>1, <2>2, DoingStep
<1>2. ASSUME NEW d \in Dfas, NEW s \in {"scan", "drop"}, GoTo(t, s, d)
      PROVE  Doing' = [Doing EXCEPT ![t] = Handle!In(s, d)]
  <2>1. \A u \in Threads : proc'[u] = IF u = t THEN Handle!In(s, d) ELSE proc[u]
    BY <1>2, Entered
  <2>2. Doing'[t] = Handle!In(s, d)
    BY <2>1 DEF Doing, Handle!In, Building
  <2> QED BY <2>1, <2>2, DoingStep
<1>3. ASSUME Leave(t) PROVE Doing' = [Doing EXCEPT ![t] = Handle!Idle]
  <2>1. \A u \in Threads : proc'[u] = IF u = t THEN Handle!Idle ELSE proc[u]
    BY <1>3, Left
  <2>2. Doing'[t] = Handle!Idle
    BY <2>1 DEF Doing, Handle!Idle, Building
  <2> QED BY <2>1, <2>2, DoingStep
<1> QED BY <1>1, <1>2, <1>3

\* Every step is a step of DfaHandle or leaves its variables alone.
LEMMA NextRefines == IInv /\ [Next]_vars => [Handle!Next]_(Handle!vars)
<1> SUFFICES ASSUME IInv, [Next]_vars PROVE Handle!Next \/ UNCHANGED Handle!vars
  OBVIOUS
<1> USE DEF IInv
<1>0. CASE UNCHANGED vars
  BY <1>0 DEF vars, handle, Handle!vars
<1>1. ASSUME NEW t \in Threads, NEW d \in Dfas, Call(t, d) PROVE Handle!Call(t, d)
  <2>1. /\ Doing[t] = Handle!Idle /\ outcome[d] = "none"
        /\ \A u \in Threads : Doing[u].dfa # d
        /\ Doing' = [Doing EXCEPT ![t] = Handle!In("compile", d)]
        /\ UNCHANGED <<outcome, holders, answer>>
    BY <1>1, DoingOf, DoingNext DEF Call, handle, Building
  <2> QED BY <2>1 DEF Handle!Call, Doing
<1>2. ASSUME NEW t \in Threads, NEW d \in Dfas, TooManyStates(t, d) \/ MapFails(t, d) \/ Undo(t, d)
      PROVE  Handle!Fail(t, d)
  <2>1. PICK e \in Errors : Fails(t, d, e)
    BY <1>2 DEF TooManyStates, MapFails, Undo, Errors
  <2>2. /\ Doing[t] = Handle!In("compile", d)
        /\ Doing' = [Doing EXCEPT ![t] = Handle!Idle]
    BY <1>2, <2>1, DoingOf, DoingNext DEF TooManyStates, MapFails, Undo, Fails, Building
  <2> QED BY <2>1, <2>2 DEF Fails, Handle!Fail, Doing
<1>3. ASSUME NEW t \in Threads, NEW d \in Dfas, Map(t, d) \/ Write(t, d) \/ Patch(t, d) \/ ProtectFails(t, d)
      PROVE  UNCHANGED Handle!vars
  <2>1. PICK s \in Building, x \in Building : At(t, x, d) /\ GoTo(t, s, d) /\ UNCHANGED handle
    BY <1>3 DEF Map, Write, Patch, ProtectFails, Building
  <2>2. Doing' = [Doing EXCEPT ![t] = Handle!In("compile", d)] /\ Doing[t] = Handle!In("compile", d)
    BY <2>1, DoingOf, DoingNext
  <2>3. Doing' = Doing
    BY <2>2 DEF Doing
  <2> QED BY <2>1, <2>3 DEF Handle!vars, handle, Doing
<1>4. ASSUME NEW t \in Threads, NEW d \in Dfas, Protect(t, d) PROVE Handle!Succeed(t, d)
  <2>1. /\ Doing[t] = Handle!In("compile", d)
        /\ Doing' = [Doing EXCEPT ![t] = Handle!Idle]
    BY <1>4, DoingOf, DoingNext DEF Protect, Protected, Building
  <2> QED BY <1>4, <2>1 DEF Protect, Protected, Handle!Succeed, Doing
<1>5. ASSUME NEW t \in Threads, NEW u \in Threads, NEW d \in Dfas, Share(t, u, d) PROVE Handle!Share(t, u, d)
  <2>1. Doing[t] = Handle!Idle /\ Doing' = Doing
    BY <1>5, DoingOf DEF Share, Doing
  <2> QED BY <1>5, <2>1 DEF Share, Handle!Share, Doing
<1>6. ASSUME NEW t \in Threads, NEW d \in Dfas, StartScan(t, d) PROVE Handle!StartScan(t, d)
  <2>1. Doing[t] = Handle!Idle /\ Doing' = [Doing EXCEPT ![t] = Handle!In("scan", d)]
    BY <1>6, DoingOf, DoingNext DEF StartScan
  <2> QED BY <1>6, <2>1 DEF StartScan, handle, Handle!StartScan, Doing
<1>7. ASSUME NEW t \in Threads, NEW d \in Dfas, FinishScan(t, d) PROVE Handle!FinishScan(t, d)
  <2>1. Doing[t] = Handle!In("scan", d) /\ Doing' = [Doing EXCEPT ![t] = Handle!Idle]
    BY <1>7, DoingOf, DoingNext DEF FinishScan
  <2>2. Scanned(d) = d
    BY <1>7 DEF FinishScan, Scanned, ControlInv, HoldersFollowOutcome, ContentInv, CodeIntact
  <2> QED BY <1>7, <2>1, <2>2 DEF FinishScan, Handle!FinishScan, Doing
<1>8. ASSUME NEW t \in Threads, NEW d \in Dfas, Release(t, d) PROVE Handle!Release(t, d)
  <2>1. Doing[t] = Handle!Idle
    BY <1>8, DoingOf DEF Release
  <2>2. Doing' = [Doing EXCEPT ![t] = IF holders[d] = {t} THEN Handle!In("drop", d) ELSE Handle!Idle]
    <3>1. CASE holders[d] = {t}
      <4>1. GoTo(t, "drop", d)
        BY <1>8, <3>1 DEF Release, GoTo, TypeOK
      <4> QED BY <3>1, <4>1, DoingNext
    <3>2. CASE holders[d] # {t}
      BY <1>8, <2>1, <3>2 DEF Release, Doing, TypeOK
    <3> QED BY <3>1, <3>2
  <2> QED BY <1>8, <2>1, <2>2 DEF Release, Handle!Release, Doing
<1>9. ASSUME NEW t \in Threads, NEW d \in Dfas, Drop(t, d) PROVE Handle!FinishDrop(t, d)
  <2>1. Doing[t] = Handle!In("drop", d) /\ Doing' = [Doing EXCEPT ![t] = Handle!Idle]
    BY <1>9, DoingOf, DoingNext DEF Drop
  <2> QED BY <1>9, <2>1 DEF Drop, handle, Handle!FinishDrop, Doing
<1> QED
  BY <1>0, <1>1, <1>2, <1>3, <1>4, <1>5, <1>6, <1>7, <1>8, <1>9 DEF Next, Run, Handle!Next

\* Whatever the other threads map, fail to map and unmap in the meantime, a
\* compile returns a handle or an error and a scan answers for its own DFA.
THEOREM Refinement == Spec => ImplementsHandle
<1>1. Init => Handle!Init
  BY DEF Init, Handle!Init, Handle!Idle, Building
<1> QED BY <1>1, Invariant, NextRefines, PTL DEF Spec, ImplementsHandle, Handle!Spec
==============================================================================
