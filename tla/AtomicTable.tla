----------------------------- MODULE AtomicTable -----------------------------
(***************************************************************************)
(* What the transposition table promises the searches that share it: every *)
(* Add and every Probe takes effect at one instant between its call and its *)
(* return.  The table forgets (a position overwrites another one of the same *)
(* slot) but what it returns was stored by one Add, and whole.              *)
(***************************************************************************)
EXTENDS Integers

CONSTANTS
  Threads,
  Slots,     \* indices of entries_
  Hashes,    \* of the positions looked up
  NoHash,    \* the hash of an empty entry
  SlotOf,    \* the slot of a hash, hash & size_
  Entries    \* what may be added

Fields == {"hash", "depth", "score", "best_move", "age", "node"}
Values == (UNION { { e[f] : f \in Fields } : e \in Entries }) \cup {NoHash}

Operations == [kind : {"add", "probe"}, entry : Entries]

VARIABLES
  table,   \* each slot's entry
  phase,   \* each thread's: idle, called, done
  op,      \* its last operation
  found,   \* the result of its last Probe, and the entry it copied
  got

vars == <<table, phase, op, found, got>>

Blank == [f \in Fields |-> NoHash]

Init ==
  /\ table = [s \in Slots |-> Blank]
  /\ phase = [t \in Threads |-> "idle"]
  /\ op \in [Threads -> Operations]
  /\ found = [t \in Threads |-> FALSE]
  /\ got = [t \in Threads |-> Blank]

Call(t) ==
  /\ phase[t] = "idle"
  /\ \E o \in Operations : op' = [op EXCEPT ![t] = o]
  /\ phase' = [phase EXCEPT ![t] = "called"]
  /\ found' = [found EXCEPT ![t] = FALSE]
  /\ got' = [got EXCEPT ![t] = Blank]
  /\ UNCHANGED table

(* A deeper or a later entry of the same position is kept.                  *)
Keeps(old, new) ==
  /\ old["hash"] = new["hash"]
  /\ old["depth"] > new["depth"] \/ old["age"] > new["age"]

Apply(t) ==
  LET e == op[t].entry
      s == SlotOf[e["hash"]]
  IN /\ phase[t] = "called"
     /\ phase' = [phase EXCEPT ![t] = "done"]
     /\ \/ /\ op[t].kind = "add"
           /\ table' = IF Keeps(table[s], e) THEN table ELSE [table EXCEPT ![s] = e]
           /\ UNCHANGED <<found, got>>
        \/ /\ op[t].kind = "probe" /\ table[s]["hash"] = e["hash"]
           /\ found' = [found EXCEPT ![t] = TRUE]
           /\ got' = [got EXCEPT ![t] = [table[s] EXCEPT !["hash"] = NoHash]]
           /\ UNCHANGED table
        \/ /\ op[t].kind = "probe" /\ table[s]["hash"] # e["hash"]
           /\ UNCHANGED <<table, found, got>>
     /\ UNCHANGED op

Return(t) ==
  /\ phase[t] = "done"
  /\ phase' = [phase EXCEPT ![t] = "idle"]
  /\ UNCHANGED <<table, op, found, got>>

Clear ==
  /\ \A t \in Threads : phase[t] = "idle"
  /\ table' = [s \in Slots |-> [table[s] EXCEPT !["hash"] = NoHash]]
  /\ UNCHANGED <<phase, op, found, got>>

Next == Clear \/ \E t \in Threads : Call(t) \/ Apply(t) \/ Return(t)

Spec == Init /\ [][Next]_vars

(* As long as a slot holds the same position, what is known of it only gets *)
(* deeper and never older (unless the table is cleared).                    *)
Deepen ==
  \A s \in Slots :
    table[s]["hash"] # NoHash /\ table'[s]["hash"] = table[s]["hash"] =>
      /\ table'[s]["depth"] >= table[s]["depth"]
      /\ table'[s]["age"] >= table[s]["age"]

Deepens == [][Deepen]_vars
=============================================================================
