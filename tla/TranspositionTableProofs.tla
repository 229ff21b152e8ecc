---------------------- MODULE TranspositionTableProofs ----------------------
(***************************************************************************)
(* Proofs about TranspositionTable: mutual exclusion on an entry, and that  *)
(* the table with its spin locks implements the atomic one.                 *)
(***************************************************************************)
EXTENDS TranspositionTable, TLAPS

(* The fields written so far are the new entry's.                           *)
WriteInv ==
  \A t \in Threads : pc[t] = "write" =>
    \A k \in 1..(next[t] - 1) :
      entries[Slot(t)][Order[k]] = op[t].entry[Order[k]]

(* The fields read so far are the stored entry's.                           *)
ReadInv ==
  \A t \in Threads :
    /\ pc[t] \in {"lock", "check"} => got[t] = Abstract!Blank /\ found[t] = FALSE
    /\ pc[t] = "read" =>
         /\ next[t] >= 2
         /\ got[t]["hash"] = NoHash
         /\ \A k \in 2..(next[t] - 1) :
              got[t][Order[k]] = entries[Slot(t)][Order[k]]

(* An entry of the atomic table that has a hash has a depth and an age.     *)
WholeInv ==
  \A s \in Slots :
    LET entry == TableOf(entries, pc, op)[s]
    IN entry["hash"] # NoHash => entry["depth"] \in Int /\ entry["age"] \in Int

IInv == TypeOK /\ Locked /\ WriteInv /\ ReadInv

-----------------------------------------------------------------------------
LEMMA OrderFields ==
  /\ Len(Order) = 6
  /\ \A k \in 1..6 : Order[k] \in Abstract!Fields
  /\ \A f \in Abstract!Fields : \E k \in 1..6 : Order[k] = f
  /\ \A j, k \in 1..6 : Order[j] = Order[k] => j = k
  /\ Order[1] = "hash"
PROOF
  <1>1. Len(Order) = 6  BY DEF Order
  <1>2. /\ Order[1] = "hash" /\ Order[2] = "depth" /\ Order[3] = "score"
        /\ Order[4] = "best_move" /\ Order[5] = "age" /\ Order[6] = "node"
    BY DEF Order
  <1>3. \A k \in 1..6 : k = 1 \/ k = 2 \/ k = 3 \/ k = 4 \/ k = 5 \/ k = 6
    OBVIOUS
  <1>4. \A k \in 1..6 : Order[k] \in Abstract!Fields
    BY <1>2, <1>3 DEF Abstract!Fields
  <1>5. \A f \in Abstract!Fields : \E k \in 1..6 : Order[k] = f
    BY <1>2 DEF Abstract!Fields
  <1>6. \A j, k \in 1..6 : Order[j] = Order[k] => j = k
    BY <1>2, <1>3
  <1> QED BY <1>1, <1>2, <1>4, <1>5, <1>6

LEMMA SlotType ==
  ASSUME TypeOK, NEW t \in Threads
  PROVE  /\ op[t] \in Abstract!Operations /\ op[t].entry \in Entries
         /\ op[t].entry \in [Abstract!Fields -> Abstract!Values]
         /\ op[t].entry["hash"] \in Hashes /\ op[t].entry["hash"] # NoHash
         /\ Slot(t) \in Slots
  BY TableAssumption DEF TypeOK, Slot, Abstract!Operations

LEMMA BlankType == Abstract!Blank \in [Abstract!Fields -> Abstract!Values]
  BY DEF Abstract!Blank, Abstract!Values

LEMMA InitIInv == Init => IInv
  <1> SUFFICES ASSUME Init PROVE IInv
    OBVIOUS
  <1> USE DEF Init
  <1>1. TypeOK
    BY BlankType, OrderFields DEF TypeOK
  <1>2. Locked
    BY DEF Locked, Holding
  <1>3. WriteInv /\ ReadInv
    BY DEF WriteInv, ReadInv
  <1> QED BY <1>1, <1>2, <1>3 DEF IInv

-----------------------------------------------------------------------------
(* One lemma per action: it keeps the invariant.                            *)

LEMMA CallKeeps == ASSUME IInv, NEW t \in Threads, Call(t) PROVE IInv'
  <1> USE DEF IInv
  <1> PICK o \in Abstract!Operations : op' = [op EXCEPT ![t] = o]
    BY DEF Call
  <1>1. TypeOK'
    BY BlankType DEF Call, TypeOK, Goto
  <1>2. /\ \A u \in Threads \ {t} : pc'[u] = pc[u] /\ op'[u] = op[u] /\ got'[u] = got[u]
                                    /\ found'[u] = found[u] /\ Slot(u)' = Slot(u)
        /\ pc'[t] = "lock" /\ pc[t] = "idle" /\ got'[t] = Abstract!Blank /\ found'[t] = FALSE
        /\ entries' = entries /\ spin' = spin /\ next' = next
    BY DEF Call, TypeOK, Goto, Slot
  <1>3. Locked'
    BY <1>2 DEF Locked, Holding
  <1>4. WriteInv'
    BY <1>2 DEF WriteInv
  <1>5. ReadInv'
    BY <1>2 DEF ReadInv
  <1> QED BY <1>1, <1>3, <1>4, <1>5

LEMMA LockKeeps == ASSUME IInv, NEW t \in Threads, Lock(t) PROVE IInv'
  <1> USE DEF IInv
  <1>1. TypeOK'
    BY DEF Lock, TypeOK, Goto
  <1>2. /\ \A u \in Threads \ {t} : pc'[u] = pc[u]
        /\ pc'[t] = "check" /\ pc[t] = "lock"
        /\ \A u \in Threads : Slot(u)' = Slot(u)
        /\ entries' = entries /\ next' = next /\ op' = op /\ got' = got /\ found' = found
        /\ ~spin[Slot(t)] /\ spin' = [spin EXCEPT ![Slot(t)] = TRUE]
    BY DEF Lock, TypeOK, Goto, Slot, SpinFree
  <1>3. Slot(t) \in Slots /\ spin \in [Slots -> BOOLEAN]
    BY SlotType DEF TypeOK
  <1>4. \A u \in Threads : Holding(u) => Slot(u) # Slot(t)
    BY <1>2, <1>3 DEF Locked
  <1>5. \A u \in Threads : Holding(u)' <=> (Holding(u) \/ u = t)
    BY <1>2 DEF Holding
  <1>6. \A u, v \in Threads : Holding(u)' /\ Holding(v)' /\ Slot(u)' = Slot(v)' => u = v
    BY <1>2, <1>4, <1>5 DEF Locked
  <1>7. \A s \in Slots : spin'[s] <=> \E u \in Threads : Holding(u)' /\ Slot(u)' = s
    <2> TAKE s \in Slots
    <2>1. CASE s = Slot(t)
      BY <2>1, <1>2, <1>3, <1>5
    <2>2. CASE s # Slot(t)
      BY <2>2, <1>2, <1>3, <1>5 DEF Locked
    <2> QED BY <2>1, <2>2
  <1>8. Locked'
    BY <1>6, <1>7 DEF Locked
  <1>9. WriteInv'
    BY <1>2 DEF WriteInv
  <1>10. ReadInv'
    BY <1>2 DEF ReadInv
  <1> QED BY <1>1, <1>8, <1>9, <1>10

(* The decision steps of Add and Probe change no entry and no lock.         *)
LEMMA DecisionKeeps ==
  ASSUME IInv, NEW t \in Threads,
         AddKeeps(t) \/ AddReplaces(t) \/ ProbeHits(t) \/ ProbeMisses(t)
  PROVE  IInv'
  <1> USE DEF IInv
  <1>1. TypeOK'
    <2>1. CASE AddKeeps(t)  BY <2>1 DEF AddKeeps, TypeOK, Goto
    <2>2. CASE AddReplaces(t)  BY <2>2, OrderFields DEF AddReplaces, TypeOK, Goto
    <2>3. CASE ProbeHits(t)  BY <2>3, OrderFields DEF ProbeHits, TypeOK, Goto, FirstCopied
    <2>4. CASE ProbeMisses(t)  BY <2>4 DEF ProbeMisses, TypeOK, Goto
    <2> QED BY <2>1, <2>2, <2>3, <2>4
  <1>2. /\ \A u \in Threads \ {t} : pc'[u] = pc[u] /\ next'[u] = next[u]
        /\ pc'[t] \in {"unlock", "write", "read"} /\ pc[t] = "check"
        /\ pc'[t] = "write" => next'[t] = 1
        /\ pc'[t] = "read" => next'[t] = 2
        /\ \A u \in Threads : Slot(u)' = Slot(u) /\ (u # t => found'[u] = found[u])
        /\ entries' = entries /\ op' = op /\ got' = got /\ spin' = spin
    BY DEF AddKeeps, AddReplaces, ProbeHits, ProbeMisses, TypeOK, Goto, Slot, FirstCopied
  <1>3. \A u \in Threads : Holding(u)' <=> Holding(u)
    BY <1>2 DEF Holding
  <1>4. Locked'
    BY <1>2, <1>3 DEF Locked
  <1>5. WriteInv'
    BY <1>2 DEF WriteInv
  <1>6. ReadInv'
    <2> SUFFICES ASSUME NEW u \in Threads
                 PROVE  /\ pc'[u] \in {"lock", "check"} => got'[u] = Abstract!Blank /\ found'[u] = FALSE
                        /\ pc'[u] = "read" =>
                             /\ next'[u] >= 2
                             /\ got'[u]["hash"] = NoHash
                             /\ \A k \in 2..(next'[u] - 1) :
                                  got'[u][Order[k]] = entries'[Slot(u)'][Order[k]]
      BY DEF ReadInv
    <2>1. CASE u = t
      <3>1. got[t] = Abstract!Blank
        BY <1>2 DEF ReadInv
      <3>2. Abstract!Blank["hash"] = NoHash
        BY DEF Abstract!Blank, Abstract!Fields
      <3> QED BY <2>1, <1>2, <3>1, <3>2
    <2>2. CASE u # t
      BY <2>2, <1>2 DEF ReadInv
    <2> QED BY <2>1, <2>2
  <1> QED BY <1>1, <1>4, <1>5, <1>6

LEMMA WriteKeeps == ASSUME IInv, NEW t \in Threads, Write(t) PROVE IInv'
  <1> USE DEF IInv
  <1> DEFINE f == Order[next[t]]
  <1>1. next[t] \in 1..6 /\ f \in Abstract!Fields
    BY OrderFields DEF TypeOK
  <1>2. /\ \A u \in Threads \ {t} : pc'[u] = pc[u] /\ next'[u] = next[u] /\ Slot(u)' = Slot(u)
        /\ Slot(t)' = Slot(t) /\ pc[t] = "write"
        /\ \/ pc'[t] = "unlock" /\ next[t] = 6
           \/ pc'[t] = "write" /\ next'[t] = next[t] + 1 /\ next[t] # 6
        /\ op' = op /\ got' = got /\ spin' = spin /\ found' = found
        /\ entries' = [entries EXCEPT ![Slot(t)][f] = op[t].entry[f]]
    BY OrderFields DEF Write, TypeOK, Goto, Slot, LastField
  <1>3. Slot(t) \in Slots /\ op[t].entry[f] \in Abstract!Values
    BY SlotType, <1>1
  <1>4. TypeOK'
    <2>1. entries' \in [Slots -> [Abstract!Fields -> Abstract!Values]]
      BY <1>1, <1>2, <1>3 DEF TypeOK
    <2>2. pc' = [pc EXCEPT ![t] = "unlock"] \/ pc' = pc
      BY DEF Write, Goto
    <2>3. pc' \in [Threads -> {"idle", "lock", "check", "write", "read", "unlock"}]
      BY <2>2 DEF TypeOK
    <2>4. next' = next \/ (next[t] # Len(Order) /\ next' = [next EXCEPT ![t] = @ + 1])
      BY DEF Write, LastField
    <2>5. next' \in [Threads -> 1..Len(Order)]
      BY <1>1, <2>4, OrderFields DEF TypeOK
    <2> QED BY <1>2, <2>1, <2>3, <2>5 DEF TypeOK
  <1>5. \A u \in Threads : Holding(u)' <=> Holding(u)
    BY <1>2 DEF Holding
  <1>6. Locked'
    BY <1>2, <1>5 DEF Locked
  <1>7. \A s \in Slots : s # Slot(t) => entries'[s] = entries[s]
    BY <1>2, <1>3 DEF TypeOK
  <1>8. \A g \in Abstract!Fields :
          entries'[Slot(t)][g] = IF g = f THEN op[t].entry[f] ELSE entries[Slot(t)][g]
    BY <1>1, <1>2, <1>3 DEF TypeOK
  <1>9. \A u \in Threads : u # t /\ Holding(u) => Slot(u) # Slot(t) /\ Slot(u) \in Slots
    BY <1>2, SlotType DEF Locked, Holding
  <1>10. WriteInv'
    <2> SUFFICES ASSUME NEW u \in Threads, pc'[u] = "write", NEW k \in 1..(next'[u] - 1)
                 PROVE  entries'[Slot(u)'][Order[k]] = op'[u].entry[Order[k]]
      BY DEF WriteInv
    <2>1. CASE u = t
      <3>1. k \in 1..next[t] /\ k \in 1..6
        BY <2>1, <1>1, <1>2
      <3>2. Order[k] \in Abstract!Fields
        BY <3>1, OrderFields
      <3>3. CASE k = next[t]
        BY <3>2, <3>3, <2>1, <1>2, <1>8
      <3>4. CASE k # next[t]
        <4>1. k \in 1..(next[t] - 1)
          BY <3>1, <3>4, <1>1
        <4>2. Order[k] # f
          BY <3>1, <3>4, <1>1, OrderFields
        <4> QED BY <4>1, <4>2, <3>2, <2>1, <1>2, <1>8 DEF WriteInv
      <3> QED BY <3>3, <3>4
    <2>2. CASE u # t
      <3>1. pc[u] = "write" /\ k \in 1..(next[u] - 1)
        BY <2>2, <1>2
      <3>2. entries'[Slot(u)] = entries[Slot(u)]
        BY <2>2, <3>1, <1>7, <1>9 DEF Holding
      <3> QED BY <2>2, <3>1, <3>2, <1>2 DEF WriteInv
    <2> QED BY <2>1, <2>2
  <1>11. ReadInv'
    <2> SUFFICES ASSUME NEW u \in Threads
                 PROVE  /\ pc'[u] \in {"lock", "check"} => got'[u] = Abstract!Blank /\ found'[u] = FALSE
                        /\ pc'[u] = "read" =>
                             /\ next'[u] >= 2
                             /\ got'[u]["hash"] = NoHash
                             /\ \A k \in 2..(next'[u] - 1) :
                                  got'[u][Order[k]] = entries'[Slot(u)'][Order[k]]
      BY DEF ReadInv
    <2>1. CASE u = t
      BY <2>1, <1>2
    <2>2. CASE u # t /\ pc[u] # "read"
      BY <2>2, <1>2 DEF ReadInv
    <2>3. CASE u # t /\ pc[u] = "read"
      <3>1. entries'[Slot(u)] = entries[Slot(u)]
        BY <2>3, <1>7, <1>9 DEF Holding
      <3> QED BY <2>3, <3>1, <1>2 DEF ReadInv
    <2> QED BY <2>1, <2>2, <2>3
  <1> QED BY <1>4, <1>6, <1>10, <1>11

LEMMA ReadKeeps == ASSUME IInv, NEW t \in Threads, Read(t) PROVE IInv'
  <1> USE DEF IInv
  <1> DEFINE f == Order[next[t]]
  <1>1. /\ next[t] \in 2..6 /\ f \in Abstract!Fields /\ f # "hash"
        /\ pc[t] = "read"
    BY OrderFields DEF TypeOK, ReadInv, Read
  <1>2. /\ \A u \in Threads \ {t} : pc'[u] = pc[u] /\ next'[u] = next[u] /\ got'[u] = got[u]
        /\ \A u \in Threads : Slot(u)' = Slot(u)
        /\ \/ pc'[t] = "unlock" /\ next[t] = 6
           \/ pc'[t] = "read" /\ next'[t] = next[t] + 1 /\ next[t] # 6
        /\ op' = op /\ entries' = entries /\ spin' = spin /\ found' = found
        /\ got' = [got EXCEPT ![t][f] = entries[Slot(t)][f]]
    BY OrderFields DEF Read, TypeOK, Goto, Slot, LastField
  <1>3. Slot(t) \in Slots /\ entries[Slot(t)][f] \in Abstract!Values
    BY SlotType, <1>1 DEF TypeOK
  <1>4. TypeOK'
    <2>1. got' \in [Threads -> [Abstract!Fields -> Abstract!Values]]
      BY <1>1, <1>2, <1>3 DEF TypeOK
    <2>2. pc' = [pc EXCEPT ![t] = "unlock"] \/ pc' = pc
      BY DEF Read, Goto
    <2>3. pc' \in [Threads -> {"idle", "lock", "check", "write", "read", "unlock"}]
      BY <2>2 DEF TypeOK
    <2>4. next' = next \/ (next[t] # Len(Order) /\ next' = [next EXCEPT ![t] = @ + 1])
      BY DEF Read, LastField
    <2>5. next' \in [Threads -> 1..Len(Order)]
      BY <1>1, <2>4, OrderFields DEF TypeOK
    <2> QED BY <1>2, <2>1, <2>3, <2>5 DEF TypeOK
  <1>5. Locked'
    <2>1. \A u \in Threads : Holding(u)' <=> Holding(u)
      BY <1>1, <1>2 DEF Holding
    <2> QED BY <2>1, <1>2 DEF Locked
  <1>6. WriteInv'
    BY <1>1, <1>2 DEF WriteInv
  <1>7. \A g \in Abstract!Fields :
          got'[t][g] = IF g = f THEN entries[Slot(t)][f] ELSE got[t][g]
    BY <1>1, <1>2 DEF TypeOK
  <1>8. ReadInv'
    <2> SUFFICES ASSUME NEW u \in Threads
                 PROVE  /\ pc'[u] \in {"lock", "check"} => got'[u] = Abstract!Blank /\ found'[u] = FALSE
                        /\ pc'[u] = "read" =>
                             /\ next'[u] >= 2
                             /\ got'[u]["hash"] = NoHash
                             /\ \A k \in 2..(next'[u] - 1) :
                                  got'[u][Order[k]] = entries'[Slot(u)'][Order[k]]
      BY DEF ReadInv
    <2>1. CASE u = t /\ pc'[t] = "read"
      <3>1. next'[t] = next[t] + 1 /\ next'[t] >= 2
        BY <2>1, <1>1, <1>2
      <3>2. got'[t]["hash"] = NoHash
        BY <1>1, <1>7 DEF ReadInv, Abstract!Fields
      <3>3. ASSUME NEW k \in 2..(next'[t] - 1)
            PROVE  got'[t][Order[k]] = entries'[Slot(t)'][Order[k]]
        <4>1. k \in 2..next[t] /\ k \in 1..6 /\ next[t] \in 1..6
          BY <3>1, <1>1
        <4>2. Order[k] \in Abstract!Fields
          BY <4>1, OrderFields
        <4>3. CASE k = next[t]
          BY <4>2, <4>3, <1>2, <1>7
        <4>4. CASE k # next[t]
          <5>1. k \in 2..(next[t] - 1)
            BY <4>1, <4>4
          <5>2. Order[k] # f
            BY <4>1, <4>4, OrderFields
          <5> QED BY <5>1, <5>2, <4>2, <1>1, <1>2, <1>7 DEF ReadInv
        <4> QED BY <4>3, <4>4
      <3> QED BY <2>1, <3>1, <3>2, <3>3
    <2>2. CASE u = t /\ pc'[t] # "read"
      BY <2>2, <1>2
    <2>3. CASE u # t
      BY <2>3, <1>2 DEF ReadInv
    <2> QED BY <2>1, <2>2, <2>3
  <1> QED BY <1>4, <1>5, <1>6, <1>8

LEMMA UnlockKeeps == ASSUME IInv, NEW t \in Threads, Unlock(t) PROVE IInv'
  <1> USE DEF IInv
  <1>1. TypeOK'
    BY DEF Unlock, TypeOK, Goto
  <1>2. /\ \A u \in Threads \ {t} : pc'[u] = pc[u]
        /\ pc'[t] = "idle" /\ pc[t] = "unlock"
        /\ \A u \in Threads : Slot(u)' = Slot(u)
        /\ entries' = entries /\ next' = next /\ op' = op /\ got' = got /\ found' = found
        /\ spin' = [spin EXCEPT ![Slot(t)] = FALSE]
    BY DEF Unlock, TypeOK, Goto, Slot
  <1>3. Slot(t) \in Slots /\ spin \in [Slots -> BOOLEAN]
    BY SlotType DEF TypeOK
  <1>4. \A u \in Threads : Holding(u) /\ u # t => Slot(u) # Slot(t)
    BY <1>2 DEF Locked, Holding
  <1>5. \A u \in Threads : Holding(u)' <=> (Holding(u) /\ u # t)
    BY <1>2 DEF Holding
  <1>6. \A u, v \in Threads : Holding(u)' /\ Holding(v)' /\ Slot(u)' = Slot(v)' => u = v
    BY <1>2, <1>5 DEF Locked
  <1>7. \A s \in Slots : spin'[s] <=> \E u \in Threads : Holding(u)' /\ Slot(u)' = s
    <2> TAKE s \in Slots
    <2>1. CASE s = Slot(t)
      BY <2>1, <1>2, <1>3, <1>4, <1>5
    <2>2. CASE s # Slot(t)
      BY <2>2, <1>2, <1>3, <1>5 DEF Locked
    <2> QED BY <2>1, <2>2
  <1>8. Locked'
    BY <1>6, <1>7 DEF Locked
  <1>9. WriteInv'
    BY <1>2 DEF WriteInv
  <1>10. ReadInv'
    BY <1>2 DEF ReadInv
  <1> QED BY <1>1, <1>8, <1>9, <1>10

LEMMA ClearKeeps == ASSUME IInv, Clear PROVE IInv'
  <1> USE DEF IInv
  <1>1. NoHash \in Abstract!Values
    BY DEF Abstract!Values
  <1>2. TypeOK'
    <2>1. entries' \in [Slots -> [Abstract!Fields -> Abstract!Values]]
      BY <1>1 DEF Clear, TypeOK
    <2> QED BY <2>1 DEF Clear, TypeOK
  <1>3. Locked'
    BY DEF Clear, Locked, Holding, Slot
  <1>4. WriteInv' /\ ReadInv'
    BY DEF Clear, WriteInv, ReadInv
  <1> QED BY <1>2, <1>3, <1>4

LEMMA StepIInv == IInv /\ [Next]_vars => IInv'
  <1> SUFFICES ASSUME IInv, [Next]_vars PROVE IInv'
    OBVIOUS
  <1>1. CASE Clear
    BY <1>1, ClearKeeps
  <1>2. ASSUME NEW t \in Threads, Step(t) PROVE IInv'
    BY <1>2, CallKeeps, LockKeeps, DecisionKeeps, WriteKeeps, ReadKeeps, UnlockKeeps DEF Step
  <1>3. CASE UNCHANGED vars
    <2>1. TypeOK'
      BY <1>3 DEF vars, IInv, TypeOK
    <2>2. Locked'
      BY <1>3 DEF vars, IInv, Locked, Holding, Slot
    <2>3. WriteInv' /\ ReadInv'
      BY <1>3 DEF vars, IInv, WriteInv, ReadInv, Slot
    <2> QED BY <2>1, <2>2, <2>3 DEF IInv
  <1> QED BY <1>1, <1>2, <1>3 DEF Next

(* The invariant holds in every reachable state.                            *)
THEOREM Inductive == Spec => []IInv
  BY InitIInv, StepIInv, PTL DEF Spec

(* Every variable keeps its type.                                           *)
THEOREM TypeCorrect == Spec => []TypeOK
  <1>1. IInv => TypeOK
    BY DEF IInv
  <1> QED BY <1>1, Inductive, PTL

(* The spin locks exclude: whatever the number of threads and of slots, one *)
(* thread at a time is between Lock and Unlock of an entry.                 *)
THEOREM MutualExclusion == Spec => []Locked
  <1>1. IInv => Locked
    BY DEF IInv
  <1> QED BY <1>1, Inductive, PTL

-----------------------------------------------------------------------------
(* The refinement: what each step does to the atomic table.                 *)

(* The same writers write the same entries, and the other slots keep theirs. *)
NoChange(e, p, o, e2, p2, o2) ==
  /\ \A s \in Slots : Writers(p2, o2, s) = Writers(p, o, s)
  /\ \A t \in Threads : p[t] = "write" => o2[t] = o[t]
  /\ \A s \in Slots : Writers(p, o, s) = {} => e2[s] = e[s]

LEMMA SameTable ==
  ASSUME NEW e, NEW p, NEW o, NEW e2, NEW p2, NEW o2, NoChange(e, p, o, e2, p2, o2)
  PROVE  TableOf(e2, p2, o2) = TableOf(e, p, o)
  <1> USE DEF NoChange
  <1> SUFFICES ASSUME NEW s \in Slots
               PROVE  (IF Writers(p2, o2, s) = {} THEN e2[s]
                       ELSE o2[CHOOSE t \in Writers(p2, o2, s) : TRUE].entry)
                    = (IF Writers(p, o, s) = {} THEN e[s]
                       ELSE o[CHOOSE t \in Writers(p, o, s) : TRUE].entry)
    BY DEF TableOf
  <1>1. CASE Writers(p, o, s) = {}
    BY <1>1
  <1>2. CASE Writers(p, o, s) # {}
    <2> DEFINE c == CHOOSE t \in Writers(p, o, s) : TRUE
    <2>1. c \in Writers(p, o, s)
      BY <1>2
    <2>2. o2[c] = o[c]
      BY <2>1 DEF Writers
    <2>3. Writers(p2, o2, s) = Writers(p, o, s)
      OBVIOUS
    <2>4. (CHOOSE t \in Writers(p2, o2, s) : TRUE) = c
      BY <2>3, Zenon
    <2> HIDE DEF c
    <2>5. o2[CHOOSE t \in Writers(p2, o2, s) : TRUE].entry = o[c].entry
      BY <2>2, <2>4
    <2> QED BY <1>2, <2>3, <2>5 DEF c
  <1> QED BY <1>1, <1>2

LEMMA QuietSlot ==
  ASSUME NEW e, NEW p, NEW o, NEW s \in Slots, Writers(p, o, s) = {}
  PROVE  TableOf(e, p, o)[s] = e[s]
  BY DEF TableOf

LEMMA WrittenSlot ==
  ASSUME NEW e, NEW p, NEW o, NEW s \in Slots, NEW t, Writers(p, o, s) = {t}
  PROVE  TableOf(e, p, o)[s] = o[t].entry
  BY DEF TableOf

LEMMA PhaseExcept ==
  ASSUME NEW p, NEW t \in Threads, NEW l, DOMAIN p = Threads
  PROVE  PhaseOf([p EXCEPT ![t] = l]) =
           [PhaseOf(p) EXCEPT ![t] = CASE l = "idle" -> "idle"
                                       [] l \in {"lock", "check"} -> "called"
                                       [] OTHER -> "done"]
  BY DEF PhaseOf

(* While a thread holds a slot, nobody else writes it.                      *)
LEMMA HolderAlone ==
  ASSUME IInv, NEW t \in Threads, Holding(t)
  PROVE  Writers(pc, op, Slot(t)) = IF pc[t] = "write" THEN {t} ELSE {}
  <1>1. \A u \in Writers(pc, op, Slot(t)) : u = t
    BY DEF IInv, Locked, Holding, Writers, Slot
  <1>2. pc[t] = "write" <=> t \in Writers(pc, op, Slot(t))
    BY DEF Writers, Slot
  <1> QED BY <1>1, <1>2

LEMMA CallRefines == ASSUME IInv, NEW t \in Threads, Call(t) PROVE Abstract!Call(t)
  <1> PICK o \in Abstract!Operations : op' = [op EXCEPT ![t] = o]
    BY DEF Call
  <1>1. /\ pc[t] = "idle" /\ pc' = [pc EXCEPT ![t] = "lock"] /\ DOMAIN pc = Threads
        /\ found' = [found EXCEPT ![t] = FALSE]
        /\ got' = [got EXCEPT ![t] = Abstract!Blank]
        /\ entries' = entries /\ op \in [Threads -> Abstract!Operations]
        /\ DOMAIN got = Threads
    BY DEF Call, Goto, IInv, TypeOK
  <1>2. PhaseOf(pc)[t] = "idle"
    BY <1>1 DEF PhaseOf
  <1>3. PhaseOf(pc') = [PhaseOf(pc) EXCEPT ![t] = "called"]
    BY <1>1, PhaseExcept
  <1>4. TableOf(entries', pc', op') = TableOf(entries, pc, op)
    <2>1. \A s \in Slots : Writers(pc', op', s) = Writers(pc, op, s)
      BY <1>1 DEF Writers
    <2>2. \A u \in Threads : pc[u] = "write" => op'[u] = op[u]
      BY <1>1
    <2>3. \A s \in Slots : Writers(pc, op, s) = {} => entries'[s] = entries[s]
      BY <1>1
    <2>4. NoChange(entries, pc, op, entries', pc', op')
      BY <2>1, <2>2, <2>3 DEF NoChange
    <2> QED BY <2>4, SameTable
  <1>5. GotOf(entries', pc', op', got') = [GotOf(entries, pc, op, got) EXCEPT ![t] = Abstract!Blank]
    BY <1>1 DEF GotOf
  <1> QED BY <1>1, <1>2, <1>3, <1>4, <1>5 DEF Abstract!Call

LEMMA LockRefines ==
  ASSUME IInv, NEW t \in Threads, Lock(t) PROVE UNCHANGED Abstract!vars
  <1>1. /\ pc[t] = "lock" /\ pc' = [pc EXCEPT ![t] = "check"] /\ DOMAIN pc = Threads
        /\ entries' = entries /\ op' = op /\ got' = got /\ found' = found
        /\ DOMAIN got = Threads
    BY DEF Lock, Goto, IInv, TypeOK
  <1>2. PhaseOf(pc') = PhaseOf(pc)
    BY <1>1 DEF PhaseOf
  <1>3. TableOf(entries', pc', op') = TableOf(entries, pc, op)
    <2>1. \A s \in Slots : Writers(pc', op', s) = Writers(pc, op, s)
      BY <1>1 DEF Writers
    <2>2. \A u \in Threads : pc[u] = "write" => op'[u] = op[u]
      BY <1>1
    <2>3. \A s \in Slots : Writers(pc, op, s) = {} => entries'[s] = entries[s]
      BY <1>1
    <2>4. NoChange(entries, pc, op, entries', pc', op')
      BY <2>1, <2>2, <2>3 DEF NoChange
    <2> QED BY <2>4, SameTable
  <1>4. GotOf(entries', pc', op', got') = GotOf(entries, pc, op, got)
    BY <1>1 DEF GotOf
  <1> QED BY <1>1, <1>2, <1>3, <1>4 DEF Abstract!vars

(* A Probe, and an Add that keeps the entry, change no entry: the atomic    *)
(* table has the slot's entry as it is in memory.                           *)
LEMMA CheckedSlot ==
  ASSUME IInv, NEW t \in Threads, pc[t] = "check"
  PROVE  /\ Slot(t) \in Slots
         /\ TableOf(entries, pc, op)[Slot(t)] = entries[Slot(t)]
         /\ PhaseOf(pc)[t] = "called"
  <1>1. Slot(t) \in Slots
    BY SlotType DEF IInv
  <1>2. Writers(pc, op, Slot(t)) = {}
    BY HolderAlone DEF Holding
  <1>3. PhaseOf(pc)[t] = "called"
    BY DEF PhaseOf
  <1> QED BY <1>1, <1>2, <1>3, QuietSlot

LEMMA SameTableStep ==
  ASSUME NEW t \in Threads, NEW l, DOMAIN pc = Threads, pc[t] = "check", l # "write",
         pc' = [pc EXCEPT ![t] = l], entries' = entries, op' = op
  PROVE  TableOf(entries', pc', op') = TableOf(entries, pc, op)
  <1>1. \A s \in Slots : Writers(pc', op', s) = Writers(pc, op, s)
    BY DEF Writers
  <1>2. \A u \in Threads : pc[u] = "write" => op'[u] = op[u]
    OBVIOUS
  <1>3. \A s \in Slots : Writers(pc, op, s) = {} => entries'[s] = entries[s]
    OBVIOUS
  <1>4. NoChange(entries, pc, op, entries', pc', op')
    BY <1>1, <1>2, <1>3 DEF NoChange
  <1> QED BY <1>4, SameTable

LEMMA AddKeepsRefines ==
  ASSUME IInv, NEW t \in Threads, AddKeeps(t) PROVE Abstract!Apply(t)
  <1>1. /\ pc[t] = "check" /\ pc' = [pc EXCEPT ![t] = "unlock"] /\ DOMAIN pc = Threads
        /\ op[t].kind = "add" /\ Keeps(entries[Slot(t)], op[t].entry)
        /\ entries' = entries /\ op' = op /\ got' = got /\ found' = found
    BY DEF AddKeeps, Goto, IInv, TypeOK
  <1>2. /\ Slot(t) \in Slots /\ PhaseOf(pc)[t] = "called"
        /\ TableOf(entries, pc, op)[Slot(t)] = entries[Slot(t)]
    BY <1>1, CheckedSlot
  <1>3. PhaseOf(pc') = [PhaseOf(pc) EXCEPT ![t] = "done"]
    BY <1>1, PhaseExcept
  <1>4. TableOf(entries', pc', op') = TableOf(entries, pc, op)
    BY <1>1, SameTableStep
  <1>5. GotOf(entries', pc', op', got') = GotOf(entries, pc, op, got)
    BY <1>1 DEF GotOf
  <1>6. Abstract!Keeps(TableOf(entries, pc, op)[Slot(t)], op[t].entry)
    BY <1>1, <1>2 DEF Keeps, Abstract!Keeps
  <1> QED BY <1>1, <1>2, <1>3, <1>4, <1>5, <1>6 DEF Abstract!Apply, Slot

LEMMA AddReplacesRefines ==
  ASSUME IInv, NEW t \in Threads, AddReplaces(t) PROVE Abstract!Apply(t)
  <1>1. /\ pc[t] = "check" /\ pc' = [pc EXCEPT ![t] = "write"] /\ DOMAIN pc = Threads
        /\ op[t].kind = "add" /\ ~Keeps(entries[Slot(t)], op[t].entry)
        /\ entries' = entries /\ op' = op /\ got' = got /\ found' = found
    BY DEF AddReplaces, Goto, IInv, TypeOK
  <1>2. /\ Slot(t) \in Slots /\ PhaseOf(pc)[t] = "called"
        /\ TableOf(entries, pc, op)[Slot(t)] = entries[Slot(t)]
    BY <1>1, CheckedSlot
  <1>3. PhaseOf(pc') = [PhaseOf(pc) EXCEPT ![t] = "done"]
    BY <1>1, PhaseExcept
  <1>4. TableOf(entries', pc', op') =
          [TableOf(entries, pc, op) EXCEPT ![Slot(t)] = op[t].entry]
    <2>1. Writers(pc, op, Slot(t)) = {}
      BY <1>1, HolderAlone DEF Holding
    <2>2. Writers(pc', op', Slot(t)) = {t}
      BY <2>1, <1>1 DEF Writers, Slot
    <2>3. TableOf(entries', pc', op')[Slot(t)] = op[t].entry
      <3>1. TableOf(entries', pc', op')[Slot(t)] = op'[t].entry
        BY <2>2, <1>2, WrittenSlot
      <3> QED BY <3>1, <1>1
    <2>4. ASSUME NEW s \in Slots, s # Slot(t)
          PROVE  TableOf(entries', pc', op')[s] = TableOf(entries, pc, op)[s]
      <3>1. Writers(pc', op', s) = Writers(pc, op, s)
        BY <1>1, <2>4 DEF Writers, Slot
      <3>2. (CHOOSE u \in Writers(pc', op', s) : TRUE) = CHOOSE u \in Writers(pc, op, s) : TRUE
        BY <3>1, Zenon
      <3> QED BY <3>1, <3>2, <1>1 DEF TableOf
    <2> QED BY <2>3, <2>4, <1>2 DEF TableOf
  <1>5. GotOf(entries', pc', op', got') = GotOf(entries, pc, op, got)
    BY <1>1 DEF GotOf
  <1>6. ~Abstract!Keeps(TableOf(entries, pc, op)[Slot(t)], op[t].entry)
    BY <1>1, <1>2 DEF Keeps, Abstract!Keeps
  <1> QED BY <1>1, <1>2, <1>3, <1>4, <1>5, <1>6 DEF Abstract!Apply, Slot

LEMMA ProbeHitsRefines ==
  ASSUME IInv, NEW t \in Threads, ProbeHits(t) PROVE Abstract!Apply(t)
  <1>1. /\ pc[t] = "check" /\ pc' = [pc EXCEPT ![t] = "read"] /\ DOMAIN pc = Threads
        /\ op[t].kind = "probe" /\ entries[Slot(t)]["hash"] = op[t].entry["hash"]
        /\ entries' = entries /\ op' = op /\ got' = got
        /\ found' = [found EXCEPT ![t] = TRUE]
    BY DEF ProbeHits, Goto, IInv, TypeOK
  <1>2. /\ Slot(t) \in Slots /\ PhaseOf(pc)[t] = "called"
        /\ TableOf(entries, pc, op)[Slot(t)] = entries[Slot(t)]
    BY <1>1, CheckedSlot
  <1>3. PhaseOf(pc') = [PhaseOf(pc) EXCEPT ![t] = "done"]
    BY <1>1, PhaseExcept
  <1>4. TableOf(entries', pc', op') = TableOf(entries, pc, op)
    BY <1>1, SameTableStep
  <1>5. GotOf(entries', pc', op', got') =
          [GotOf(entries, pc, op, got) EXCEPT ![t] = [entries[Slot(t)] EXCEPT !["hash"] = NoHash]]
    BY <1>1 DEF GotOf, Slot
  <1> QED BY <1>1, <1>2, <1>3, <1>4, <1>5 DEF Abstract!Apply, Slot

LEMMA ProbeMissesRefines ==
  ASSUME IInv, NEW t \in Threads, ProbeMisses(t) PROVE Abstract!Apply(t)
  <1>1. /\ pc[t] = "check" /\ pc' = [pc EXCEPT ![t] = "unlock"] /\ DOMAIN pc = Threads
        /\ op[t].kind = "probe" /\ entries[Slot(t)]["hash"] # op[t].entry["hash"]
        /\ entries' = entries /\ op' = op /\ got' = got /\ found' = found
    BY DEF ProbeMisses, Goto, IInv, TypeOK
  <1>2. /\ Slot(t) \in Slots /\ PhaseOf(pc)[t] = "called"
        /\ TableOf(entries, pc, op)[Slot(t)] = entries[Slot(t)]
    BY <1>1, CheckedSlot
  <1>3. PhaseOf(pc') = [PhaseOf(pc) EXCEPT ![t] = "done"]
    BY <1>1, PhaseExcept
  <1>4. TableOf(entries', pc', op') = TableOf(entries, pc, op)
    BY <1>1, SameTableStep
  <1>5. GotOf(entries', pc', op', got') = GotOf(entries, pc, op, got)
    BY <1>1 DEF GotOf
  <1> QED BY <1>1, <1>2, <1>3, <1>4, <1>5 DEF Abstract!Apply, Slot

LEMMA UnlockRefines ==
  ASSUME IInv, NEW t \in Threads, Unlock(t) PROVE Abstract!Return(t)
  <1>1. /\ pc[t] = "unlock" /\ pc' = [pc EXCEPT ![t] = "idle"] /\ DOMAIN pc = Threads
        /\ entries' = entries /\ op' = op /\ got' = got /\ found' = found
    BY DEF Unlock, Goto, IInv, TypeOK
  <1>2. PhaseOf(pc)[t] = "done"
    BY <1>1 DEF PhaseOf
  <1>3. PhaseOf(pc') = [PhaseOf(pc) EXCEPT ![t] = "idle"]
    BY <1>1, PhaseExcept
  <1>4. TableOf(entries', pc', op') = TableOf(entries, pc, op)
    <2>1. \A s \in Slots : Writers(pc', op', s) = Writers(pc, op, s)
      BY <1>1 DEF Writers
    <2>2. \A u \in Threads : pc[u] = "write" => op'[u] = op[u]
      BY <1>1
    <2>3. \A s \in Slots : Writers(pc, op, s) = {} => entries'[s] = entries[s]
      BY <1>1
    <2>4. NoChange(entries, pc, op, entries', pc', op')
      BY <2>1, <2>2, <2>3 DEF NoChange
    <2> QED BY <2>4, SameTable
  <1>5. GotOf(entries', pc', op', got') = GotOf(entries, pc, op, got)
    BY <1>1 DEF GotOf
  <1> QED BY <1>1, <1>2, <1>3, <1>4, <1>5 DEF Abstract!Return

(* Writing a field changes only what the writer's slot holds in memory.     *)
LEMMA WriteLocal ==
  ASSUME IInv, NEW t \in Threads, Write(t)
  PROVE  /\ Slot(t) \in Slots /\ next[t] \in 1..6
         /\ pc[t] = "write" /\ Writers(pc, op, Slot(t)) = {t}
         /\ op' = op /\ got' = got /\ found' = found
         /\ \A s \in Slots \ {Slot(t)} : entries'[s] = entries[s]
         /\ GotOf(entries', pc, op, got) = GotOf(entries, pc, op, got)
  <1>1. Slot(t) \in Slots /\ next[t] \in 1..6
    BY SlotType, OrderFields DEF IInv, TypeOK
  <1>2. /\ pc[t] = "write" /\ op' = op /\ got' = got /\ found' = found
        /\ entries' = [entries EXCEPT ![Slot(t)][Order[next[t]]] = op[t].entry[Order[next[t]]]]
    BY DEF Write
  <1>3. Writers(pc, op, Slot(t)) = {t}
    BY <1>2, HolderAlone DEF Holding
  <1>4. \A s \in Slots \ {Slot(t)} : entries'[s] = entries[s]
    BY <1>2 DEF IInv, TypeOK
  <1>5. \A u \in Threads : pc[u] = "read" => Slot(u) # Slot(t) /\ Slot(u) \in Slots
    BY <1>2, SlotType DEF IInv, Locked, Holding
  <1>6. GotOf(entries', pc, op, got) = GotOf(entries, pc, op, got)
    BY <1>4, <1>5 DEF GotOf, Slot
  <1> QED BY <1>1, <1>2, <1>3, <1>4, <1>6

(* The last field completes the entry the atomic table already has.         *)
LEMMA WriteRefines ==
  ASSUME IInv, NEW t \in Threads, Write(t) PROVE UNCHANGED Abstract!vars
  <1>1. /\ Slot(t) \in Slots /\ next[t] \in 1..6
        /\ pc[t] = "write" /\ Writers(pc, op, Slot(t)) = {t}
        /\ op' = op /\ got' = got /\ found' = found
        /\ \A s \in Slots \ {Slot(t)} : entries'[s] = entries[s]
        /\ GotOf(entries', pc, op, got) = GotOf(entries, pc, op, got)
    BY WriteLocal
  <1>2. CASE next[t] # 6
    <2>1. pc' = pc
      BY <1>2, OrderFields DEF Write, LastField
    <2>2. NoChange(entries, pc, op, entries', pc', op')
      BY <1>1, <2>1 DEF NoChange
    <2>3. TableOf(entries', pc', op') = TableOf(entries, pc, op)
      BY <2>2, SameTable
    <2> QED BY <1>1, <2>1, <2>3 DEF Abstract!vars
  <1>3. CASE next[t] = 6
    <2>1. pc' = [pc EXCEPT ![t] = "unlock"] /\ DOMAIN pc = Threads
      BY <1>3, OrderFields DEF Write, LastField, Goto, IInv, TypeOK
    <2>2. entries'[Slot(t)] = op[t].entry
      <3>1. WriteInv /\ entries \in [Slots -> [Abstract!Fields -> Abstract!Values]]
        BY DEF IInv, TypeOK
      <3>2. entries' = [entries EXCEPT ![Slot(t)][Order[6]] = op[t].entry[Order[6]]]
        BY <1>3 DEF Write
      <3>3. \A k \in 1..5 : entries[Slot(t)][Order[k]] = op[t].entry[Order[k]]
        BY <3>1, <1>1, <1>3 DEF WriteInv
      <3>4. \A k \in 1..6 : entries'[Slot(t)][Order[k]] = op[t].entry[Order[k]]
        <4> TAKE k \in 1..6
        <4>1. Order[k] \in Abstract!Fields /\ Order[6] \in Abstract!Fields
          BY OrderFields
        <4>2. CASE k = 6
          BY <4>1, <4>2, <3>1, <3>2, <1>1
        <4>3. CASE k # 6
          <5>1. k \in 1..5 /\ Order[k] # Order[6]
            BY <4>3, OrderFields
          <5> QED BY <5>1, <4>1, <3>1, <3>2, <3>3, <1>1
        <4> QED BY <4>2, <4>3
      <3>5. \A f \in Abstract!Fields : entries'[Slot(t)][f] = op[t].entry[f]
        BY <3>4, OrderFields
      <3>6. entries'[Slot(t)] \in [Abstract!Fields -> Abstract!Values]
        <4>1. TypeOK'
          BY WriteKeeps DEF IInv
        <4> QED BY <4>1, <1>1 DEF TypeOK
      <3>7. op[t].entry \in [Abstract!Fields -> Abstract!Values]
        BY SlotType DEF IInv
      <3> QED BY <3>5, <3>6, <3>7
    <2>3. TableOf(entries', pc', op')[Slot(t)] = TableOf(entries, pc, op)[Slot(t)]
      <3>1. Writers(pc', op', Slot(t)) = {}
        BY <1>1, <2>1 DEF Writers
      <3>2. TableOf(entries', pc', op')[Slot(t)] = entries'[Slot(t)]
        BY <3>1, <1>1, QuietSlot
      <3>3. TableOf(entries, pc, op)[Slot(t)] = op[t].entry
        BY <1>1, WrittenSlot
      <3> QED BY <3>2, <3>3, <2>2
    <2>4. ASSUME NEW s \in Slots, s # Slot(t)
          PROVE  TableOf(entries', pc', op')[s] = TableOf(entries, pc, op)[s]
      <3>1. Writers(pc', op', s) = Writers(pc, op, s)
        BY <1>1, <2>1, <2>4 DEF Writers, Slot
      <3>2. (CHOOSE u \in Writers(pc', op', s) : TRUE) = CHOOSE u \in Writers(pc, op, s) : TRUE
        BY <3>1, Zenon
      <3> QED BY <3>1, <3>2, <1>1, <2>4 DEF TableOf
    <2>5. TableOf(entries', pc', op') = TableOf(entries, pc, op)
      BY <2>3, <2>4 DEF TableOf
    <2>6. PhaseOf(pc') = PhaseOf(pc)
      BY <1>1, <2>1 DEF PhaseOf
    <2>7. GotOf(entries', pc', op', got') = GotOf(entries', pc, op, got)
      BY <1>1, <2>1 DEF GotOf
    <2> QED BY <1>1, <2>5, <2>6, <2>7 DEF Abstract!vars
  <1> QED BY <1>2, <1>3

(* The last field completes the result the atomic Probe already has.        *)
LEMMA ReadRefines ==
  ASSUME IInv, NEW t \in Threads, Read(t) PROVE UNCHANGED Abstract!vars
  <1> DEFINE f == Order[next[t]]
  <1>1. /\ Slot(t) \in Slots /\ next[t] \in 2..6
        /\ pc[t] = "read" /\ f \in Abstract!Fields
        /\ got \in [Threads -> [Abstract!Fields -> Abstract!Values]]
        /\ entries \in [Slots -> [Abstract!Fields -> Abstract!Values]]
    BY SlotType, OrderFields DEF IInv, TypeOK, ReadInv, Read
  <1>2. /\ entries' = entries /\ op' = op /\ found' = found
        /\ got' = [got EXCEPT ![t][f] = entries[Slot(t)][f]]
    BY DEF Read
  <1>3. CASE next[t] # 6
    <2>1. pc' = pc
      BY <1>3, OrderFields DEF Read, LastField
    <2>2. GotOf(entries', pc', op', got') = GotOf(entries, pc, op, got)
      BY <1>1, <1>2, <2>1 DEF GotOf
    <2> QED BY <1>2, <2>1, <2>2 DEF Abstract!vars
  <1>4. CASE next[t] = 6
    <2>1. pc' = [pc EXCEPT ![t] = "unlock"] /\ DOMAIN pc = Threads
      BY <1>4, OrderFields DEF Read, LastField, Goto, IInv, TypeOK
    <2>2. \A s \in Slots : Writers(pc', op', s) = Writers(pc, op, s)
      BY <1>1, <1>2, <2>1 DEF Writers
    <2>3. NoChange(entries, pc, op, entries', pc', op')
      BY <2>2, <1>2 DEF NoChange
    <2>4. TableOf(entries', pc', op') = TableOf(entries, pc, op)
      BY <2>3, SameTable
    <2>5. PhaseOf(pc') = PhaseOf(pc)
      BY <1>1, <2>1 DEF PhaseOf
    <2>6. got'[t] = [entries[Slot(t)] EXCEPT !["hash"] = NoHash]
      <3>1. ReadInv
        BY DEF IInv
      <3>2. got[t]["hash"] = NoHash
        BY <3>1, <1>1 DEF ReadInv
      <3>3. \A k \in 2..5 : got[t][Order[k]] = entries[Slot(t)][Order[k]]
        BY <3>1, <1>1, <1>4 DEF ReadInv
      <3>4. \A g \in Abstract!Fields :
              got'[t][g] = IF g = f THEN entries[Slot(t)][f] ELSE got[t][g]
        BY <1>1, <1>2
      <3>5. "hash" \in Abstract!Fields /\ f # "hash"
        BY <1>4, OrderFields DEF Abstract!Fields
      <3>6. got'[t]["hash"] = NoHash
        BY <3>2, <3>4, <3>5
      <3>7. ASSUME NEW k \in 2..6 PROVE got'[t][Order[k]] = entries[Slot(t)][Order[k]]
        <4>1. Order[k] \in Abstract!Fields
          BY OrderFields
        <4>2. CASE k = 6
          BY <4>1, <4>2, <1>4, <3>4
        <4>3. CASE k # 6
          <5>1. k \in 2..5 /\ Order[k] # f
            BY <4>3, <1>4, OrderFields
          <5> QED BY <5>1, <4>1, <3>3, <3>4
        <4> QED BY <4>2, <4>3
      <3>8. ASSUME NEW g \in Abstract!Fields, g # "hash"
            PROVE  got'[t][g] = entries[Slot(t)][g]
        <4>1. PICK k \in 1..6 : Order[k] = g
          BY OrderFields
        <4>2. k \in 2..6
          BY <4>1, <3>8, OrderFields
        <4> QED BY <4>1, <4>2, <3>7
      <3>9. got'[t] \in [Abstract!Fields -> Abstract!Values]
        <4>1. TypeOK'
          BY ReadKeeps DEF IInv
        <4> QED BY <4>1 DEF TypeOK
      <3> QED BY <3>6, <3>8, <3>9, <1>1
    <2>7. GotOf(entries', pc', op', got') = GotOf(entries, pc, op, got)
      <3>1. \A u \in Threads \ {t} : got'[u] = got[u] /\ pc'[u] = pc[u]
        BY <1>1, <1>2, <2>1
      <3>2. GotOf(entries', pc', op', got')[t] = GotOf(entries, pc, op, got)[t]
        BY <1>1, <2>1, <2>6 DEF GotOf, Slot
      <3> QED BY <3>1, <3>2, <1>2, SMTT(30) DEF GotOf
    <2> QED BY <1>2, <2>4, <2>5, <2>7 DEF Abstract!vars
  <1> QED BY <1>3, <1>4

LEMMA ClearRefines == ASSUME IInv, Clear PROVE Abstract!Clear
  <1>1. /\ \A t \in Threads : pc[t] = "idle"
        /\ entries' = [s \in Slots |-> [entries[s] EXCEPT !["hash"] = NoHash]]
        /\ pc' = pc /\ op' = op /\ found' = found /\ got' = got
    BY DEF Clear
  <1>2. \A t \in Threads : PhaseOf(pc)[t] = "idle"
    BY <1>1 DEF PhaseOf
  <1>3. \A s \in Slots : Writers(pc, op, s) = {}
    BY <1>1 DEF Writers
  <1>4. /\ \A s \in Slots : TableOf(entries, pc, op)[s] = entries[s]
        /\ \A s \in Slots : TableOf(entries', pc', op')[s] = entries'[s]
    BY <1>1, <1>3 DEF TableOf
  <1>5. TableOf(entries', pc', op') =
          [s \in Slots |-> [TableOf(entries, pc, op)[s] EXCEPT !["hash"] = NoHash]]
    BY <1>1, <1>4 DEF TableOf
  <1>6. GotOf(entries', pc', op', got') = GotOf(entries, pc, op, got)
    BY <1>1 DEF GotOf
  <1> QED BY <1>1, <1>2, <1>5, <1>6 DEF Abstract!Clear

LEMMA InitRefines == Init => Abstract!Init
  <1> SUFFICES ASSUME Init PROVE Abstract!Init
    OBVIOUS
  <1> USE DEF Init
  <1>1. \A s \in Slots : Writers(pc, op, s) = {}
    BY DEF Writers
  <1>2. TableOf(entries, pc, op) = [s \in Slots |-> Abstract!Blank]
    BY <1>1 DEF TableOf
  <1>3. PhaseOf(pc) = [t \in Threads |-> "idle"]
    BY DEF PhaseOf
  <1>4. GotOf(entries, pc, op, got) = [t \in Threads |-> Abstract!Blank]
    BY DEF GotOf
  <1> QED BY <1>2, <1>3, <1>4 DEF Abstract!Init

LEMMA StepRefines == IInv /\ [Next]_vars => [Abstract!Next]_Abstract!vars
  <1> SUFFICES ASSUME IInv, [Next]_vars PROVE [Abstract!Next]_Abstract!vars
    OBVIOUS
  <1>1. CASE Clear
    BY <1>1, ClearRefines DEF Abstract!Next
  <1>2. ASSUME NEW t \in Threads, Step(t) PROVE [Abstract!Next]_Abstract!vars
    <2>1. CASE Call(t)  BY <2>1, CallRefines DEF Abstract!Next
    <2>2. CASE Lock(t)  BY <2>2, LockRefines
    <2>3. CASE AddKeeps(t)  BY <2>3, AddKeepsRefines DEF Abstract!Next
    <2>4. CASE AddReplaces(t)  BY <2>4, AddReplacesRefines DEF Abstract!Next
    <2>5. CASE Write(t)  BY <2>5, WriteRefines
    <2>6. CASE ProbeHits(t)  BY <2>6, ProbeHitsRefines DEF Abstract!Next
    <2>7. CASE Read(t)  BY <2>7, ReadRefines
    <2>8. CASE ProbeMisses(t)  BY <2>8, ProbeMissesRefines DEF Abstract!Next
    <2>9. CASE Unlock(t)  BY <2>9, UnlockRefines DEF Abstract!Next
    <2> QED BY <1>2, <2>1, <2>2, <2>3, <2>4, <2>5, <2>6, <2>7, <2>8, <2>9 DEF Step
  <1>3. CASE UNCHANGED vars
    <2>1. /\ entries' = entries /\ pc' = pc /\ op' = op /\ found' = found /\ got' = got
      BY <1>3 DEF vars
    <2> QED BY <2>1 DEF Abstract!vars
  <1> QED BY <1>1, <1>2, <1>3 DEF Next

(* Add and Probe are linearizable for any number of threads, slots and      *)
(* positions: every behaviour of the table with its spin locks and its      *)
(* field-by-field copies is one of the atomic table.                        *)
THEOREM Refinement == Spec => Linearizable
  BY Inductive, InitRefines, StepRefines, PTL DEF Spec, Linearizable, Abstract!Spec

-----------------------------------------------------------------------------
LEMMA WholeInit == Init => WholeInv
  <1> SUFFICES ASSUME Init, NEW s \in Slots
               PROVE  TableOf(entries, pc, op)[s]["hash"] = NoHash
    BY DEF WholeInv
  <1>1. TableOf(entries, pc, op)[s] = Abstract!Blank
    BY InitRefines DEF Abstract!Init
  <1> QED BY <1>1 DEF Abstract!Blank, Abstract!Fields

(* A step of the atomic table leaves a slot alone, empties it, or stores an *)
(* entry the old one does not outrank.                                      *)
LEMMA SlotStep ==
  ASSUME IInv, [Abstract!Next]_Abstract!vars, NEW s \in Slots
  PROVE  LET old == TableOf(entries, pc, op)[s]
             new == TableOf(entries', pc', op')[s]
         IN \/ new = old
            \/ new["hash"] = NoHash
            \/ /\ new["depth"] \in Int /\ new["age"] \in Int
               /\ ~Abstract!Keeps(old, new)
  <1> DEFINE T == TableOf(entries, pc, op)
             U == TableOf(entries', pc', op')
  <1>1. CASE Abstract!Clear
    <2>1. U = [r \in Slots |-> [T[r] EXCEPT !["hash"] = NoHash]]
      BY <1>1 DEF Abstract!Clear
    <2>2. DOMAIN T[s] = Abstract!Fields
      <3>1. TypeOK
        BY DEF IInv
      <3>2. CASE Writers(pc, op, s) = {}
        <4>1. T[s] = entries[s]
          BY <3>2, QuietSlot
        <4> QED BY <4>1, <3>1 DEF TypeOK
      <3>3. CASE Writers(pc, op, s) # {}
        <4>1. PICK t \in Threads : t \in Writers(pc, op, s)
          BY <3>3 DEF Writers
        <4>2. pc[t] = "write" /\ Slot(t) = s
          BY <4>1 DEF Writers, Slot
        <4>3. Writers(pc, op, s) = {t}
          BY <4>2, HolderAlone DEF Holding
        <4>4. T[s] = op[t].entry
          BY <4>3, WrittenSlot
        <4> QED BY <4>4, <3>1, SlotType
      <3> QED BY <3>2, <3>3
    <2>3. U[s]["hash"] = NoHash
      BY <2>1, <2>2 DEF Abstract!Fields
    <2> QED BY <2>3
  <1>2. ASSUME NEW t \in Threads, Abstract!Apply(t)
        PROVE  \/ U[s] = T[s]
               \/ /\ U[s]["depth"] \in Int /\ U[s]["age"] \in Int
                  /\ ~Abstract!Keeps(T[s], U[s])
    <2> DEFINE e == op[t].entry
               r == SlotOf[e["hash"]]
    <2>1. e["depth"] \in Int /\ e["age"] \in Int
      BY SlotType, TableAssumption DEF IInv
    <2>2. U = T \/ (~Abstract!Keeps(T[r], e) /\ U = [T EXCEPT ![r] = e])
      BY <1>2 DEF Abstract!Apply
    <2>3. CASE U = T
      BY <2>3
    <2>4. CASE ~Abstract!Keeps(T[r], e) /\ U = [T EXCEPT ![r] = e] /\ s = r
      <3>1. U[s] = e
        BY <2>4 DEF TableOf
      <3> QED BY <3>1, <2>1, <2>4
    <2>5. CASE U = [T EXCEPT ![r] = e] /\ s # r
      BY <2>5 DEF TableOf
    <2> QED BY <2>2, <2>3, <2>4, <2>5
  <1>3. ASSUME NEW t \in Threads, Abstract!Call(t) \/ Abstract!Return(t) PROVE U[s] = T[s]
    BY <1>3 DEF Abstract!Call, Abstract!Return
  <1>4. CASE UNCHANGED Abstract!vars
    BY <1>4 DEF Abstract!vars
  <1> QED BY <1>1, <1>2, <1>3, <1>4 DEF Abstract!Next

LEMMA WholeStep == IInv /\ WholeInv /\ [Next]_vars => WholeInv'
  <1> SUFFICES ASSUME IInv, WholeInv, [Next]_vars, NEW s \in Slots,
                      TableOf(entries', pc', op')[s]["hash"] # NoHash
               PROVE  /\ TableOf(entries', pc', op')[s]["depth"] \in Int
                      /\ TableOf(entries', pc', op')[s]["age"] \in Int
    BY DEF WholeInv
  <1> DEFINE T == TableOf(entries, pc, op)
             U == TableOf(entries', pc', op')
  <1>1. U[s] = T[s] \/ (U[s]["depth"] \in Int /\ U[s]["age"] \in Int)
    BY StepRefines, SlotStep
  <1>2. CASE U[s] = T[s]
    BY <1>2 DEF WholeInv
  <1> QED BY <1>1, <1>2

LEMMA DeepensStep == IInv /\ WholeInv /\ [Next]_vars => [Abstract!Deepen]_Abstract!vars
  <1> SUFFICES ASSUME IInv, WholeInv, [Next]_vars, NEW s \in Slots,
                      TableOf(entries, pc, op)[s]["hash"] # NoHash,
                      TableOf(entries', pc', op')[s]["hash"] = TableOf(entries, pc, op)[s]["hash"]
               PROVE  /\ TableOf(entries', pc', op')[s]["depth"] >= TableOf(entries, pc, op)[s]["depth"]
                      /\ TableOf(entries', pc', op')[s]["age"] >= TableOf(entries, pc, op)[s]["age"]
    BY DEF Abstract!Deepen
  <1> DEFINE T == TableOf(entries, pc, op)
             U == TableOf(entries', pc', op')
  <1>1. T[s]["depth"] \in Int /\ T[s]["age"] \in Int
    BY DEF WholeInv
  <1>2. \/ U[s] = T[s]
        \/ /\ U[s]["depth"] \in Int /\ U[s]["age"] \in Int
           /\ ~Abstract!Keeps(T[s], U[s])
    BY StepRefines, SlotStep
  <1> HIDE DEF T, U
  <1>3. CASE U[s] = T[s]
    BY <1>1, <1>3 DEF T, U
  <1>4. CASE /\ U[s]["depth"] \in Int /\ U[s]["age"] \in Int
             /\ ~Abstract!Keeps(T[s], U[s])
    <2>1. U[s]["hash"] = T[s]["hash"]
      BY DEF T, U
    <2>2. ~(T[s]["depth"] > U[s]["depth"]) /\ ~(T[s]["age"] > U[s]["age"])
      BY <1>4, <2>1 DEF Abstract!Keeps
    <2>3. U[s]["depth"] >= T[s]["depth"] /\ U[s]["age"] >= T[s]["age"]
      BY <1>1, <1>4, <2>2
    <2> QED BY <2>3 DEF T, U
  <1> QED BY <1>2, <1>3, <1>4

(* What the table knows of a position it keeps only gets deeper and never   *)
(* older, whatever the interleaving of the threads.                         *)
THEOREM DepthGrows == Spec => Deepens
  BY Inductive, WholeInit, WholeStep, DeepensStep, PTL
     DEF Spec, Deepens, Abstract!Deepens
=============================================================================
