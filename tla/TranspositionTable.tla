-------------------------- MODULE TranspositionTable --------------------------
(***************************************************************************)
(* The transposition table (transposition.cpp) shared by the searches of   *)
(* all threads.  Every entry has a spin lock of its own, and an Add or a    *)
(* Probe reads and writes the fields of an entry one after the other.       *)
(***************************************************************************)
EXTENDS Integers, Sequences

CONSTANTS Threads, Slots, Hashes, NoHash, SlotOf, Entries

VARIABLES
  entries,   \* entries_, without the locks
  spin,      \* TTEntry::spin of each slot
  pc,
  next,      \* the field a thread reads or writes next, in Order
  op,        \* its call: add or probe, and the arguments
  found,     \* Probe's return value
  got        \* the TTEntry Probe fills

vars == <<entries, spin, pc, next, op, found, got>>

(* The order in which Add assigns the fields; Probe skips the hash.         *)
Order == <<"hash", "depth", "score", "best_move", "age", "node">>

Slot(t) == SlotOf[op[t].entry["hash"]]
Goto(t, label) == pc' = [pc EXCEPT ![t] = label]

(* The atomic table these entries stand for.  An Add takes effect when it   *)
(* decides to replace the entry, a Probe when it compares the hash; until   *)
(* the thread unlocks, the fields in memory lag behind.                     *)
Writers(p, o, s) ==
  { t \in Threads : p[t] = "write" /\ SlotOf[o[t].entry["hash"]] = s }

TableOf(e, p, o) ==
  [s \in Slots |-> IF Writers(p, o, s) = {} THEN e[s]
                   ELSE o[CHOOSE t \in Writers(p, o, s) : TRUE].entry]

PhaseOf(p) ==
  [t \in Threads |-> CASE p[t] = "idle" -> "idle"
                      [] p[t] \in {"lock", "check"} -> "called"
                      [] OTHER -> "done"]

GotOf(e, p, o, g) ==
  [t \in Threads |-> IF p[t] = "read"
                     THEN [e[SlotOf[o[t].entry["hash"]]] EXCEPT !["hash"] = NoHash]
                     ELSE g[t]]

Abstract == INSTANCE AtomicTable WITH
  table <- TableOf(entries, pc, op),
  phase <- PhaseOf(pc),
  got   <- GotOf(entries, pc, op, got)

ASSUME TableAssumption ==
  /\ NoHash \notin Hashes
  /\ SlotOf \in [Hashes -> Slots]
  /\ \A e \in Entries : /\ e \in [Abstract!Fields -> Abstract!Values]
                        /\ e["hash"] \in Hashes
                        /\ e["depth"] \in Int /\ e["age"] \in Int

Init ==
  /\ entries = [s \in Slots |-> Abstract!Blank]
  /\ spin = [s \in Slots |-> FALSE]
  /\ pc = [t \in Threads |-> "idle"]
  /\ next = [t \in Threads |-> 1]
  /\ op \in [Threads -> Abstract!Operations]
  /\ found = [t \in Threads |-> FALSE]
  /\ got = [t \in Threads |-> Abstract!Blank]

Call(t) ==
  /\ pc[t] = "idle"
  /\ \E o \in Abstract!Operations : op' = [op EXCEPT ![t] = o]
  /\ Goto(t, "lock")
  /\ found' = [found EXCEPT ![t] = FALSE]
  /\ got' = [got EXCEPT ![t] = Abstract!Blank]
  /\ UNCHANGED <<entries, spin, next>>

(* Bug: a lock that does not look at the flag.                              *)
SpinFreeUnchecked(s) == TRUE
SpinFree(s) == ~spin[s]

(* The test_and_set that finds the flag clear.                              *)
Lock(t) ==
  /\ pc[t] = "lock" /\ SpinFree(Slot(t))
  /\ spin' = [spin EXCEPT ![Slot(t)] = TRUE]
  /\ Goto(t, "check")
  /\ UNCHANGED <<entries, next, op, found, got>>

(* Bug: an entry is kept only when it is both deeper and later.             *)
KeepsBoth(old, new) ==
  /\ old["hash"] = new["hash"]
  /\ old["depth"] > new["depth"] /\ old["age"] > new["age"]
Keeps(old, new) ==
  /\ old["hash"] = new["hash"]
  /\ old["depth"] > new["depth"] \/ old["age"] > new["age"]

AddKeeps(t) ==
  /\ pc[t] = "check" /\ op[t].kind = "add"
  /\ Keeps(entries[Slot(t)], op[t].entry)
  /\ Goto(t, "unlock")
  /\ UNCHANGED <<entries, spin, next, op, found, got>>

AddReplaces(t) ==
  /\ pc[t] = "check" /\ op[t].kind = "add"
  /\ ~Keeps(entries[Slot(t)], op[t].entry)
  /\ next' = [next EXCEPT ![t] = 1]
  /\ Goto(t, "write")
  /\ UNCHANGED <<entries, spin, op, found, got>>

(* Bug: one field too many.                                                 *)
LastFieldPassed(k) == k > Len(Order)
LastField(k) == k = Len(Order)

Write(t) ==
  /\ pc[t] = "write"
  /\ LET f == Order[next[t]]
     IN entries' = [entries EXCEPT ![Slot(t)][f] = op[t].entry[f]]
  /\ IF LastField(next[t])
     THEN Goto(t, "unlock") /\ UNCHANGED next
     ELSE next' = [next EXCEPT ![t] = @ + 1] /\ UNCHANGED pc
  /\ UNCHANGED <<spin, op, found, got>>

FirstCopied == 2

ProbeHits(t) ==
  /\ pc[t] = "check" /\ op[t].kind = "probe"
  /\ entries[Slot(t)]["hash"] = op[t].entry["hash"]
  /\ next' = [next EXCEPT ![t] = FirstCopied]
  /\ found' = [found EXCEPT ![t] = TRUE]
  /\ Goto(t, "read")
  /\ UNCHANGED <<entries, spin, op, got>>

Read(t) ==
  /\ pc[t] = "read"
  /\ LET f == Order[next[t]]
     IN got' = [got EXCEPT ![t][f] = entries[Slot(t)][f]]
  /\ IF LastField(next[t])
     THEN Goto(t, "unlock") /\ UNCHANGED next
     ELSE next' = [next EXCEPT ![t] = @ + 1] /\ UNCHANGED pc
  /\ UNCHANGED <<entries, spin, op, found>>

ProbeMisses(t) ==
  /\ pc[t] = "check" /\ op[t].kind = "probe"
  /\ entries[Slot(t)]["hash"] # op[t].entry["hash"]
  /\ Goto(t, "unlock")
  /\ UNCHANGED <<entries, spin, next, op, found, got>>

Unlock(t) ==
  /\ pc[t] = "unlock"
  /\ spin' = [spin EXCEPT ![Slot(t)] = FALSE]
  /\ Goto(t, "idle")
  /\ UNCHANGED <<entries, next, op, found, got>>

(* Clear takes no lock; its callers have no search running.                 *)
Clear ==
  /\ \A t \in Threads : pc[t] = "idle"
  /\ entries' = [s \in Slots |-> [entries[s] EXCEPT !["hash"] = NoHash]]
  /\ UNCHANGED <<spin, pc, next, op, found, got>>

Step(t) ==
  \/ Call(t) \/ Lock(t) \/ AddKeeps(t) \/ AddReplaces(t) \/ Write(t)
  \/ ProbeHits(t) \/ Read(t) \/ ProbeMisses(t) \/ Unlock(t)

Next == Clear \/ \E t \in Threads : Step(t)

Spec == Init /\ [][Next]_vars

-----------------------------------------------------------------------------
Holding(t) == pc[t] \in {"check", "write", "read", "unlock"}

(* The variables keep their types.                                          *)
TypeOK ==
  /\ entries \in [Slots -> [Abstract!Fields -> Abstract!Values]]
  /\ spin \in [Slots -> BOOLEAN]
  /\ pc \in [Threads -> {"idle", "lock", "check", "write", "read", "unlock"}]
  /\ next \in [Threads -> 1..Len(Order)]
  /\ op \in [Threads -> Abstract!Operations]
  /\ found \in [Threads -> BOOLEAN]
  /\ got \in [Threads -> [Abstract!Fields -> Abstract!Values]]

(* A slot is only ever touched by the thread whose test_and_set took its    *)
(* lock, and the lock of a slot nobody works on is free.                    *)
Locked ==
  /\ \A t, u \in Threads : Holding(t) /\ Holding(u) /\ Slot(t) = Slot(u) => t = u
  /\ \A s \in Slots : spin[s] <=> \E t \in Threads : Holding(t) /\ Slot(t) = s

(* Add and Probe are linearizable: the table behaves as the atomic one, and *)
(* so what a Probe returns is an entry that one Add stored, whole.          *)
Linearizable == Abstract!Spec

(* While a slot holds the same position, its depth and its age never go     *)
(* down.                                                                    *)
Deepens == Abstract!Deepens
=============================================================================
