------------------------------ MODULE DfaHandle ------------------------------
(***************************************************************************)
(* What a JitDfa promises to the threads that share it, without memory:    *)
(* compile returns an error or a handle; whoever holds the handle can      *)
(* scan, concurrently, and gets the answer of the DFA compiled; when the   *)
(* last holder lets go the handle is dropped, once.  Holding is Rust's     *)
(* ownership and borrowing: a thread holds an Arc<JitDfa> or is lent a     *)
(* &JitDfa, which the Send and Sync impls of ExecutableBuffer allow.       *)
(***************************************************************************)
CONSTANTS Threads, Dfas,
          Errors,      \* the kinds of error compile returns
          NoDfa        \* of a thread that has none

VARIABLES outcome,     \* of each compile: "none" before it returns, "ok" or an error
          holders,     \* the threads that hold each DFA
          doing,       \* what each thread is in: [at, dfa]
          answer       \* the DFA whose matches the thread's last scan returned

vars == <<outcome, holders, doing, answer>>

Idle    == [at |-> "idle", dfa |-> NoDfa]
In(s, d) == [at |-> s, dfa |-> d]

Init ==
  /\ outcome = [d \in Dfas |-> "none"]
  /\ holders = [d \in Dfas |-> {}]
  /\ doing   = [t \in Threads |-> Idle]
  /\ answer  = [t \in Threads |-> NoDfa]

Call(t, d) ==
  /\ doing[t] = Idle /\ outcome[d] = "none"
  /\ \A u \in Threads : doing[u].dfa # d
  /\ doing' = [doing EXCEPT ![t] = In("compile", d)]
  /\ UNCHANGED <<outcome, holders, answer>>

Succeed(t, d) ==
  /\ doing[t] = In("compile", d)
  /\ outcome' = [outcome EXCEPT ![d] = "ok"]
  /\ holders' = [holders EXCEPT ![d] = {t}]
  /\ doing' = [doing EXCEPT ![t] = Idle]
  /\ UNCHANGED answer

Fail(t, d) ==
  /\ doing[t] = In("compile", d)
  /\ \E e \in Errors : outcome' = [outcome EXCEPT ![d] = e]
  /\ doing' = [doing EXCEPT ![t] = Idle]
  /\ UNCHANGED <<holders, answer>>

Share(t, u, d) ==
  /\ doing[t] = Idle /\ t \in holders[d] /\ u \notin holders[d]
  /\ holders' = [holders EXCEPT ![d] = @ \cup {u}]
  /\ UNCHANGED <<outcome, doing, answer>>

StartScan(t, d) ==
  /\ doing[t] = Idle /\ t \in holders[d]
  /\ doing' = [doing EXCEPT ![t] = In("scan", d)]
  /\ UNCHANGED <<outcome, holders, answer>>

FinishScan(t, d) ==
  /\ doing[t] = In("scan", d)
  /\ answer' = [answer EXCEPT ![t] = d]
  /\ doing' = [doing EXCEPT ![t] = Idle]
  /\ UNCHANGED <<outcome, holders>>

\* The last holder drops the value.
Release(t, d) ==
  /\ doing[t] = Idle /\ t \in holders[d]
  /\ holders' = [holders EXCEPT ![d] = @ \ {t}]
  /\ doing' = [doing EXCEPT ![t] = IF holders[d] = {t} THEN In("drop", d) ELSE Idle]
  /\ UNCHANGED <<outcome, answer>>

FinishDrop(t, d) ==
  /\ doing[t] = In("drop", d)
  /\ doing' = [doing EXCEPT ![t] = Idle]
  /\ UNCHANGED <<outcome, holders, answer>>

Next ==
  \E t \in Threads, d \in Dfas :
    \/ Call(t, d) \/ Succeed(t, d) \/ Fail(t, d)
    \/ \E u \in Threads : Share(t, u, d)
    \/ StartScan(t, d) \/ FinishScan(t, d) \/ Release(t, d) \/ FinishDrop(t, d)

Spec == Init /\ [][Next]_vars
==============================================================================
