---------------------------- MODULE ModalProofs ----------------------------
(***************************************************************************)
(* Theorems about Modal, for any scripts, key sequences and callbacks.     *)
(***************************************************************************)
EXTENDS Modal, TLAPS, WellFoundedInduction

----------------------------------------------------------------------------
(* The table of mappings.  An entry answers for a sequence in a mode; of a  *)
(* block at most one does, and it runs what the calls say.                  *)
Answers(entry, m, l) == m \in entry.mode /\ entry.lhs = l

Only(block, m, l, rhs) ==
  IF rhs = Unbound THEN \A i \in DOMAIN block : ~Answers(block[i], m, l)
  ELSE \E i \in DOMAIN block :
         /\ block[i].rhs = rhs
         /\ \A j \in DOMAIN block : Answers(block[j], m, l) <=> j = i

(* A sequence's block for a mode has what is bound there, the others nothing. *)
TableInv(t, b) ==
  \A h \in Blocks, m \in Modes, l \in Sides :
    Only(t[h], m, l, IF h = MapHash({m}, l[1]) THEN b[m][l] ELSE Unbound)

Bindings == [Modes -> [Sides -> Callbacks \cup {NOP, Unbound}]]
Tables == [Blocks -> Seq(Entries)]

LEMMA BlockOf ==
  ASSUME NEW ms \in SUBSET Modes, NEW l \in Sides
  PROVE  MapHash(ms, l[1]) \in Blocks
BY DEF Blocks

(* A call that joins no two halves of the table has one block, for all its  *)
(* modes.                                                                   *)
LEMMA CallBlock ==
  ASSUME NEW ms \in SUBSET Modes, NEW l \in Sides, ~(INTERACT \in ms /\ ms # {INTERACT})
  PROVE  /\ MapHash(ms, l[1]) \in Blocks
         /\ \A m \in ms : MapHash({m}, l[1]) = MapHash(ms, l[1])
<1>1. MapHash(ms, l[1]) \in Blocks
  BY BlockOf
<1>2. ASSUME NEW m \in ms PROVE MapHash({m}, l[1]) = MapHash(ms, l[1])
  <2>1. ({m} \cap {NORMAL, VISUAL} # {}) = (ms \cap {NORMAL, VISUAL} # {})
    BY DEF Modes, NORMAL, VISUAL, INTERACT
  <2> QED BY <2>1 DEF MapHash
<1> QED BY <1>1, <1>2

LEMMA PushFront ==
  ASSUME NEW block \in Seq(Entries), NEW new \in Entries
  PROVE  LET more == <<new>> \o block
         IN /\ more \in Seq(Entries) /\ Len(more) = Len(block) + 1
            /\ more[1] = new /\ \A i \in DOMAIN block : more[i + 1] = block[i]
            /\ \A j \in DOMAIN more : j # 1 => j - 1 \in DOMAIN block /\ more[j] = block[j - 1]
OBVIOUS

LEMMA ReducedBlock ==
  ASSUME NEW block \in Seq(Entries), NEW ms, NEW I
  PROVE  /\ Reduced(block, ms, I) \in Seq(Entries)
         /\ DOMAIN Reduced(block, ms, I) = DOMAIN block
         /\ \A i \in DOMAIN block :
              /\ Reduced(block, ms, I)[i].lhs = block[i].lhs
              /\ Reduced(block, ms, I)[i].rhs = block[i].rhs
              /\ i \in I => Reduced(block, ms, I)[i].mode = block[i].mode \ ms
              /\ i \notin I => Reduced(block, ms, I)[i].mode = block[i].mode
<1> DEFINE less == Reduced(block, ms, I)
<1>1. \A i \in DOMAIN block : block[i] \in Entries
  OBVIOUS
<1>2. \A i \in DOMAIN block : less[i] \in Entries
  BY <1>1 DEF Reduced, Entries
<1>3. DOMAIN less = DOMAIN block /\ DOMAIN block = 1 .. Len(block) /\ Len(block) \in Nat
  BY DEF Reduced
<1>4. less \in Seq(Entries)
  BY <1>2, <1>3 DEF Reduced
<1> QED BY <1>1, <1>3, <1>4 DEF Reduced, Entries

(* A block whose answering entries all come from another's, and go on to    *)
(* answer with what they run, runs what the other ran.                      *)
LEMMA Transfer ==
  ASSUME NEW a, NEW b, NEW m, NEW l, NEW rhs, NEW f,
         \A i \in DOMAIN a : /\ f[i] \in DOMAIN b
                             /\ Answers(b[f[i]], m, l) <=> Answers(a[i], m, l)
                             /\ Answers(a[i], m, l) => b[f[i]].rhs = a[i].rhs,
         \A j \in DOMAIN b : Answers(b[j], m, l) => \E i \in DOMAIN a : j = f[i],
         Only(a, m, l, rhs)
  PROVE  Only(b, m, l, rhs)
<1>1. CASE rhs = Unbound
  BY <1>1 DEF Only
<1>2. CASE rhs # Unbound
  <2>1. PICK i \in DOMAIN a : /\ a[i].rhs = rhs
                              /\ \A j \in DOMAIN a : Answers(a[j], m, l) <=> j = i
    BY <1>2 DEF Only
  <2>2. f[i] \in DOMAIN b /\ b[f[i]].rhs = rhs /\ Answers(b[f[i]], m, l)
    BY <2>1
  <2>3. ASSUME NEW j \in DOMAIN b, Answers(b[j], m, l) PROVE j = f[i]
    <3>1. PICK k \in DOMAIN a : j = f[k]
      BY <2>3
    <3>2. Answers(a[k], m, l)
      BY <2>3, <3>1
    <3> QED BY <2>1, <3>1, <3>2
  <2> QED BY <1>2, <2>2, <2>3 DEF Only
<1> QED BY <1>1, <1>2

(* A call that reduces some of its hits leaves alone what it does not       *)
(* concern; when it reduces them all, nothing of what it concerns is left.  *)
LEMMA ReducedOthers ==
  ASSUME NEW block \in Seq(Entries), NEW ms, NEW lhs, NEW I, I \subseteq Hits(block, ms, lhs),
         NEW m, NEW l, ~(m \in ms /\ l = lhs), NEW i \in DOMAIN block
  PROVE  Answers(Reduced(block, ms, I)[i], m, l) <=> Answers(block[i], m, l)
<1>1. i \in I => block[i].lhs = lhs
  BY DEF Hits
<1> QED BY <1>1, ReducedBlock DEF Answers

LEMMA ReducedNone ==
  ASSUME NEW block \in Seq(Entries), NEW ms, NEW lhs, NEW m \in ms, NEW i \in DOMAIN block
  PROVE  ~Answers(Reduced(block, ms, Hits(block, ms, lhs))[i], m, lhs)
BY ReducedBlock DEF Answers, Hits

(* What a call leaves alone in its block, and what it says there.           *)
Said(block, nb, ms, lhs, rhs) ==
  /\ nb \in Seq(Entries)
  /\ \A m \in Modes, l \in Sides :
       IF m \in ms /\ l = lhs THEN Only(nb, m, l, rhs)
       ELSE \A r : Only(block, m, l, r) => Only(nb, m, l, r)

LEMMA Pushes ==
  ASSUME NEW block \in Seq(Entries), NEW ms \in SUBSET Modes, NEW lhs \in Sides,
         NEW rhs \in Callbacks \cup {NOP}
  PROVE  Said(block, <<[mode |-> ms, lhs |-> lhs, rhs |-> rhs]>>
                       \o Reduced(block, ms, Hits(block, ms, lhs)), ms, lhs, rhs)
<1> DEFINE new == [mode |-> ms, lhs |-> lhs, rhs |-> rhs]
           less == Reduced(block, ms, Hits(block, ms, lhs))
           more == <<new>> \o less
           f == [i \in DOMAIN block |-> i + 1]
<1>1. /\ less \in Seq(Entries) /\ DOMAIN less = DOMAIN block
      /\ \A i \in DOMAIN block :
           /\ less[i].rhs = block[i].rhs /\ less[i].lhs = block[i].lhs
           /\ less[i].mode \subseteq block[i].mode
  BY ReducedBlock
<1>2. new \in Entries /\ new.mode = ms /\ new.lhs = lhs /\ new.rhs = rhs
  BY DEF Entries
<1> HIDE DEF new, less
<1>3. /\ more \in Seq(Entries) /\ Len(more) = Len(less) + 1
      /\ more[1] = new /\ \A i \in DOMAIN less : more[i + 1] = less[i]
      /\ \A j \in DOMAIN more : j # 1 => j - 1 \in DOMAIN less /\ more[j] = less[j - 1]
  BY <1>1, <1>2, PushFront
<1>4. DOMAIN more = 1 .. Len(less) + 1 /\ DOMAIN less = 1 .. Len(less) /\ Len(less) \in Nat
  BY <1>1, <1>3
<1> HIDE DEF more
<1>5. \A i \in DOMAIN block : f[i] = i + 1 /\ f[i] \in DOMAIN more /\ more[f[i]] = less[i]
  BY <1>1, <1>3, <1>4
<1>6. \A j \in DOMAIN more : j # 1 => \E i \in DOMAIN block : j = f[i]
  <2> SUFFICES ASSUME NEW j \in DOMAIN more, j # 1
               PROVE  j - 1 \in DOMAIN block /\ j = f[j - 1]
    OBVIOUS
  <2> QED BY <1>1, <1>3, <1>4
<1> HIDE DEF f
<1>8. ASSUME NEW m \in Modes, NEW l \in Sides
      PROVE  IF m \in ms /\ l = lhs THEN Only(more, m, l, rhs)
             ELSE \A r : Only(block, m, l, r) => Only(more, m, l, r)
  <2>1. CASE m \in ms /\ l = lhs
    <3>1. \A i \in DOMAIN block : ~Answers(less[i], m, l)
      BY <2>1, ReducedNone DEF less
    <3>2. \A j \in DOMAIN more : Answers(more[j], m, l) <=> j = 1
      BY <1>1, <1>2, <1>3, <2>1, <3>1 DEF Answers
    <3>3. 1 \in DOMAIN more /\ more[1].rhs = rhs /\ rhs # Unbound
      BY <1>2, <1>3, <1>4, NopAssumption
    <3> QED BY <2>1, <3>2, <3>3 DEF Only
  <2>2. CASE ~(m \in ms /\ l = lhs)
    <3> SUFFICES ASSUME NEW r, Only(block, m, l, r) PROVE Only(more, m, l, r)
      BY <2>2
    <3>1. \A i \in DOMAIN block : Answers(less[i], m, l) <=> Answers(block[i], m, l)
      BY <2>2, ReducedOthers DEF less
    <3>2. ~Answers(more[1], m, l)
      BY <1>2, <1>3, <2>2 DEF Answers
    <3>3. \A i \in DOMAIN block : /\ f[i] \in DOMAIN more
                                  /\ Answers(more[f[i]], m, l) <=> Answers(block[i], m, l)
                                  /\ more[f[i]].rhs = block[i].rhs
      BY <1>1, <1>5, <3>1
    <3>4. \A j \in DOMAIN more : Answers(more[j], m, l) => \E i \in DOMAIN block : j = f[i]
      BY <1>6, <3>2
    <3> QED BY <3>3, <3>4, Transfer
  <2> QED BY <2>1, <2>2
<1> QED BY <1>3, <1>8 DEF Said, more, less, new

LEMMA Replaces ==
  ASSUME NEW block \in Seq(Entries), NEW ms \in SUBSET Modes, NEW lhs \in Sides,
         NEW rhs \in Callbacks \cup {NOP}, NEW k \in DOMAIN block, NEW I, I \cap DOMAIN block = {},
         Hits(block, ms, lhs) = {k}, block[k].mode \subseteq ms
  PROVE  Said(block, [Reduced(block, ms, I) EXCEPT
                        ![k] = [mode |-> ms, lhs |-> lhs, rhs |-> rhs]], ms, lhs, rhs)
<1> DEFINE new == [mode |-> ms, lhs |-> lhs, rhs |-> rhs]
           less == Reduced(block, ms, I)
           nb == [less EXCEPT ![k] = new]
           f == [i \in DOMAIN block |-> i]
<1>1. /\ less \in Seq(Entries) /\ DOMAIN less = DOMAIN block
      /\ \A i \in DOMAIN block : /\ less[i].rhs = block[i].rhs /\ less[i].lhs = block[i].lhs
                                 /\ less[i].mode = block[i].mode
  BY ReducedBlock
<1>2. new \in Entries /\ new.mode = ms /\ new.lhs = lhs /\ new.rhs = rhs
  BY DEF Entries
<1>3. block[k].lhs = lhs
  BY DEF Hits
<1> HIDE DEF new, less
<1>4. /\ nb \in Seq(Entries) /\ DOMAIN nb = DOMAIN block /\ nb[k] = new
      /\ \A i \in DOMAIN block : i # k => nb[i] = less[i]
  BY <1>1, <1>2
<1> HIDE DEF nb
<1>6. ASSUME NEW m \in Modes, NEW l \in Sides
      PROVE  IF m \in ms /\ l = lhs THEN Only(nb, m, l, rhs)
             ELSE \A r : Only(block, m, l, r) => Only(nb, m, l, r)
  <2>1. CASE m \in ms /\ l = lhs
    <3>1. ASSUME NEW i \in DOMAIN block, i # k PROVE ~Answers(nb[i], m, l)
      BY <1>1, <1>4, <2>1, <3>1 DEF Answers, Hits
    <3>2. Answers(nb[k], m, l) /\ nb[k].rhs = rhs /\ rhs # Unbound
      BY <1>2, <1>4, <2>1, NopAssumption DEF Answers
    <3> QED BY <1>4, <2>1, <3>1, <3>2 DEF Only
  <2>2. CASE ~(m \in ms /\ l = lhs)
    <3> SUFFICES ASSUME NEW r, Only(block, m, l, r) PROVE Only(nb, m, l, r)
      BY <2>2
    <3>1. ~Answers(nb[k], m, l) /\ ~Answers(block[k], m, l)
      BY <1>2, <1>3, <1>4, <2>2 DEF Answers
    <3>2. \A i \in DOMAIN block : i # k => /\ Answers(nb[i], m, l) <=> Answers(block[i], m, l)
                                           /\ nb[i].rhs = block[i].rhs
      BY <1>1, <1>4 DEF Answers
    <3>3. \A i \in DOMAIN block : f[i] = i
      OBVIOUS
    <3> HIDE DEF f
    <3>4. \A i \in DOMAIN block : /\ f[i] \in DOMAIN nb
                                  /\ Answers(nb[f[i]], m, l) <=> Answers(block[i], m, l)
                                  /\ Answers(block[i], m, l) => nb[f[i]].rhs = block[i].rhs
      <4> TAKE i \in DOMAIN block
      <4>1. CASE i = k
        BY <1>4, <3>1, <3>3, <4>1
      <4>2. CASE i # k
        <5>1. f[i] = i /\ i \in DOMAIN nb
          BY <1>4, <3>3
        <5>2. (Answers(nb[i], m, l) <=> Answers(block[i], m, l)) /\ nb[i].rhs = block[i].rhs
          BY <3>2, <4>2
        <5> QED BY <5>1, <5>2
      <4> QED BY <4>1, <4>2
    <3>5. \A j \in DOMAIN nb : Answers(nb[j], m, l) => \E i \in DOMAIN block : j = f[i]
      BY <1>4, <3>3
    <3> QED BY <3>4, <3>5, Transfer
  <2> QED BY <2>1, <2>2
<1> QED BY <1>4, <1>6 DEF Said, nb, less, new

LEMMA Unbinds ==
  ASSUME NEW block \in Seq(Entries), NEW ms \in SUBSET Modes, NEW lhs \in Sides
  PROVE  Said(block, Reduced(block, ms, Hits(block, ms, lhs)), ms, lhs, Unbound)
<1> DEFINE less == Reduced(block, ms, Hits(block, ms, lhs))
           f == [i \in DOMAIN block |-> i]
<1>1. /\ less \in Seq(Entries) /\ DOMAIN less = DOMAIN block
      /\ \A i \in DOMAIN block : /\ less[i].rhs = block[i].rhs /\ less[i].lhs = block[i].lhs
                                 /\ less[i].mode \subseteq block[i].mode
  BY ReducedBlock
<1> HIDE DEF less
<1>3. ASSUME NEW m \in Modes, NEW l \in Sides
      PROVE  IF m \in ms /\ l = lhs THEN Only(less, m, l, Unbound)
             ELSE \A r : Only(block, m, l, r) => Only(less, m, l, r)
  <2>1. CASE m \in ms /\ l = lhs
    <3>1. \A i \in DOMAIN block : ~Answers(less[i], m, l)
      BY <2>1, ReducedNone DEF less
    <3> QED BY <1>1, <2>1, <3>1 DEF Only
  <2>2. CASE ~(m \in ms /\ l = lhs)
    <3> SUFFICES ASSUME NEW r, Only(block, m, l, r) PROVE Only(less, m, l, r)
      BY <2>2
    <3>1. \A i \in DOMAIN block : Answers(less[i], m, l) <=> Answers(block[i], m, l)
      BY <2>2, ReducedOthers DEF less
    <3>2. \A i \in DOMAIN block : f[i] = i
      OBVIOUS
    <3> HIDE DEF f
    <3> QED BY <1>1, <3>1, <3>2, Transfer
  <2> QED BY <2>1, <2>2
<1> QED BY <1>1, <1>3 DEF Said, less

(* The calls on a table, when they join no two halves of it and meet no two *)
(* entries at once.                                                         *)
Clean(t, ms, lhs) ==
  /\ ~(INTERACT \in ms /\ ms # {INTERACT})
  /\ \A i, j \in Hits(t[MapHash(ms, lhs[1])], ms, lhs) : i = j

LEMMA OneLeast ==
  ASSUME NEW k \in Int PROVE Least({k}) = k
BY DEF Least

LEMMA SetSays ==
  ASSUME NEW t \in Tables, NEW ms \in SUBSET Modes, NEW lhs \in Sides,
         NEW rhs \in Callbacks \cup {NOP}, Clean(t, ms, lhs)
  PROVE  \E nb : /\ SetKeymap(t, ms, lhs, rhs) = [t EXCEPT ![MapHash(ms, lhs[1])] = nb]
                 /\ Said(t[MapHash(ms, lhs[1])], nb, ms, lhs, rhs)
<1> DEFINE h == MapHash(ms, lhs[1])
           block == t[h]
           hits == Hits(block, ms, lhs)
           emptied == {i \in hits : block[i].mode \subseteq ms}
           new == [mode |-> ms, lhs |-> lhs, rhs |-> rhs]
<1>1. h \in Blocks /\ block \in Seq(Entries)
  BY CallBlock DEF Clean, Tables
<1>2. CASE emptied = {}
  <2>1. SetKeymap(t, ms, lhs, rhs) = [t EXCEPT ![h] = <<new>> \o Reduced(block, ms, hits)]
    BY <1>2 DEF SetKeymap
  <2> QED BY <1>1, <2>1, Pushes
<1>3. CASE emptied # {}
  <2>1. PICK k : k \in emptied
    BY <1>3
  <2>2. k \in DOMAIN block /\ block[k].mode \subseteq ms /\ hits = {k} /\ emptied = {k}
    BY <2>1 DEF Clean, Hits
  <2>3. k \in Int /\ Least(emptied) = k
    BY <1>1, <2>2, OneLeast
  <2> DEFINE I == {i \in hits : i < k}
  <2>4. I = {}
    BY <2>2, <2>3
  <2>5. SetKeymap(t, ms, lhs, rhs) = [t EXCEPT ![h] = [Reduced(block, ms, I) EXCEPT ![k] = new]]
    BY <1>3, <2>3 DEF SetKeymap
  <2>6. Said(block, [Reduced(block, ms, I) EXCEPT ![k] = new], ms, lhs, rhs)
    BY <1>1, <2>2, <2>4, Replaces
  <2> QED BY <2>5, <2>6
<1> QED BY <1>2, <1>3

LEMMA DelSays ==
  ASSUME NEW t \in Tables, NEW ms \in SUBSET Modes, NEW lhs \in Sides, Clean(t, ms, lhs)
  PROVE  \E nb : /\ DelKeymap(t, ms, lhs) = [t EXCEPT ![MapHash(ms, lhs[1])] = nb]
                 /\ Said(t[MapHash(ms, lhs[1])], nb, ms, lhs, Unbound)
<1> DEFINE h == MapHash(ms, lhs[1])
           block == t[h]
           hits == Hits(block, ms, lhs)
<1>1. h \in Blocks /\ block \in Seq(Entries)
  BY CallBlock DEF Clean, Tables
<1>2. Said(block, Reduced(block, ms, hits), ms, lhs, Unbound)
  BY <1>1, Unbinds
<1>3. CASE hits = {}
  <2>1. DelKeymap(t, ms, lhs) = t
    BY <1>3 DEF DelKeymap
  <2>2. Reduced(block, ms, hits) = block
    BY <1>1, <1>3 DEF Reduced
  <2> QED BY <1>1, <1>2, <2>1, <2>2 DEF Tables
<1>4. CASE hits # {}
  <2>1. PICK k : k \in hits
    BY <1>4
  <2>2. hits = {k} /\ k \in Int
    BY <1>1, <2>1 DEF Clean, Hits
  <2>3. {Least(hits)} = hits
    BY <2>2, OneLeast
  <2>4. DelKeymap(t, ms, lhs) = [t EXCEPT ![h] = Reduced(block, ms, hits)]
    BY <1>4, <2>3 DEF DelKeymap
  <2> QED BY <1>2, <2>4
<1> QED BY <1>3, <1>4

(* The bindings after a call.                                               *)
Rebound(b, ms, lhs, r) ==
  [m \in Modes |-> [b[m] EXCEPT ![lhs] = IF m \in ms THEN r ELSE @]]

LEMMA TableStep ==
  ASSUME NEW t \in Tables, NEW b \in Bindings, TableInv(t, b),
         NEW ms \in SUBSET Modes, NEW lhs \in Sides, ~(INTERACT \in ms /\ ms # {INTERACT}),
         NEW nb, NEW r, Said(t[MapHash(ms, lhs[1])], nb, ms, lhs, r)
  PROVE  TableInv([t EXCEPT ![MapHash(ms, lhs[1])] = nb], Rebound(b, ms, lhs, r))
<1> DEFINE h == MapHash(ms, lhs[1])
           t2 == [t EXCEPT ![h] = nb]
           b2 == Rebound(b, ms, lhs, r)
           At(g, m, l, x) == IF g = MapHash({m}, l[1]) THEN x[m][l] ELSE Unbound
<1>1. h \in Blocks /\ \A m \in ms : MapHash({m}, lhs[1]) = h
  BY CallBlock
<1>3. \A m \in Modes, l \in Sides :
        b2[m][l] = IF m \in ms /\ l = lhs THEN r ELSE b[m][l]
  BY DEF Bindings, Rebound
<1>4. t2[h] = nb /\ \A g \in Blocks : g # h => t2[g] = t[g]
  BY <1>1 DEF Tables
<1> HIDE DEF t2, b2, h
<1>5. ASSUME NEW g \in Blocks, NEW m \in Modes, NEW l \in Sides
      PROVE  Only(t2[g], m, l, At(g, m, l, b2))
  <2>1. Only(t[g], m, l, At(g, m, l, b))
    BY DEF TableInv
  <2>2. CASE m \in ms /\ l = lhs
    <3>1. CASE g = h
      <4>1. At(g, m, l, b2) = r
        BY <1>1, <1>3, <2>2, <3>1
      <4> QED BY <1>4, <2>2, <3>1, <4>1 DEF Said, h
    <3>2. CASE g # h
      BY <1>1, <1>4, <2>1, <2>2, <3>2
    <3> QED BY <3>1, <3>2
  <2>3. CASE ~(m \in ms /\ l = lhs)
    <3>1. At(g, m, l, b2) = At(g, m, l, b)
      BY <1>3, <2>3
    <3>2. CASE g = h
      BY <1>4, <2>1, <2>3, <3>1, <3>2 DEF Said, h
    <3>3. CASE g # h
      BY <1>4, <2>1, <3>1, <3>3
    <3> QED BY <3>2, <3>3
  <2> QED BY <2>2, <2>3
<1>6. TableInv(t2, b2)
  BY <1>5 DEF TableInv
<1> QED BY <1>6 DEF t2, b2, h

(* What the table does with a key sequence, and how it lists one.           *)
LEMMA HandleSays ==
  ASSUME NEW t \in Tables, NEW b \in Bindings, TableInv(t, b), NEW m \in Modes, NEW l \in Sides
  PROVE  Handle(t, m, l) = IF b[m][l] = NOP THEN Unbound ELSE b[m][l]
<1> DEFINE h == MapHash({m}, l[1])
           block == t[h]
           hits == {i \in Hits(block, {m}, l) : block[i].rhs # NOP}
<1>1. h \in Blocks /\ block \in Seq(Entries)
  BY BlockOf DEF Tables
<1>2. Handle(t, m, l) = IF hits = {} THEN Unbound ELSE block[Least(hits)].rhs
  BY <1>1 DEF Handle
<1>3. Hits(block, {m}, l) = {i \in DOMAIN block : Answers(block[i], m, l)}
  BY DEF Hits, Answers
<1>4. Only(block, m, l, b[m][l])
  BY <1>1 DEF TableInv
<1> HIDE DEF h, block
<1>5. CASE b[m][l] = Unbound
  <2>1. hits = {}
    BY <1>3, <1>4, <1>5 DEF Only
  <2> QED BY <1>2, <1>5, <2>1
<1>6. CASE b[m][l] # Unbound
  <2>1. PICK i \in DOMAIN block :
          /\ block[i].rhs = b[m][l]
          /\ \A j \in DOMAIN block : Answers(block[j], m, l) <=> j = i
    BY <1>4, <1>6 DEF Only
  <2>2. Hits(block, {m}, l) = {i}
    BY <1>3, <2>1
  <2>3. CASE b[m][l] = NOP
    BY <1>2, <2>1, <2>2, <2>3
  <2>4. CASE b[m][l] # NOP
    <3>1. hits = {i}
      BY <2>1, <2>2, <2>4
    <3>2. Least(hits) = i
      <4>1. i \in Int
        BY <1>1
      <4> QED BY <3>1, <4>1, OneLeast
    <3> HIDE DEF hits
    <3> QED BY <1>2, <2>1, <2>4, <3>1, <3>2
  <2> QED BY <2>3, <2>4
<1> QED BY <1>5, <1>6

LEMMA HandleElse ==
  ASSUME NEW t \in Tables, NEW m, NEW l, l \notin Sides
  PROVE  Handle(t, m, l) = Unbound
<1> DEFINE h == MapHash({m}, l[1])
           block == IF h \in Blocks THEN t[h] ELSE <<>>
<1>1. block \in Seq(Entries)
  BY DEF Tables
<1> HIDE DEF block
<1>2. ASSUME NEW i \in DOMAIN block PROVE block[i].lhs \in Sides
  <2>1. block[i] \in Entries
    BY <1>1
  <2> QED BY <2>1 DEF Entries
<1>3. Hits(block, {m}, l) = {}
  BY <1>2 DEF Hits
<1> QED BY <1>3 DEF Handle, block

LEMMA ListedOnce ==
  ASSUME NEW t \in Tables, NEW b \in Bindings, TableInv(t, b), NEW m \in Modes, NEW l \in Sides
  PROVE  LET listed == {p \in GetKeymaps(t, m) : t[p[1]][p[2]].lhs = l}
         IN IF b[m][l] = Unbound THEN listed = {} ELSE \E p \in listed : listed = {p}
<1> DEFINE home == MapHash({m}, l[1])
           listed == {p \in GetKeymaps(t, m) : t[p[1]][p[2]].lhs = l}
<1>1. home \in Blocks
  BY BlockOf
<1> HIDE DEF home
<1>2. \A h \in Blocks : \A i \in DOMAIN t[h] : Answers(t[h][i], m, l) => <<h, i>> \in listed
  BY DEF GetKeymaps, Answers
<1>3. ASSUME NEW p \in listed
      PROVE  \E h \in Blocks : \E i \in DOMAIN t[h] : p = <<h, i>> /\ Answers(t[h][i], m, l)
  <2>1. PICK h \in Blocks : p \in {<<h, i>> : i \in {j \in DOMAIN t[h] : m \in t[h][j].mode}}
    BY DEF GetKeymaps
  <2>2. PICK i \in DOMAIN t[h] : p = <<h, i>> /\ m \in t[h][i].mode
    BY <2>1
  <2> QED BY <2>2 DEF Answers
<1> HIDE DEF listed
<1>4. \A h \in Blocks : h # home => \A i \in DOMAIN t[h] : ~Answers(t[h][i], m, l)
  BY DEF TableInv, Only, home
<1>5. Only(t[home], m, l, b[m][l])
  BY <1>1 DEF TableInv, home
<1>6. CASE b[m][l] = Unbound
  BY <1>3, <1>4, <1>5, <1>6 DEF Only, listed
<1>7. CASE b[m][l] # Unbound
  <2>1. PICK i \in DOMAIN t[home] : \A j \in DOMAIN t[home] : Answers(t[home][j], m, l) <=> j = i
    BY <1>5, <1>7 DEF Only
  <2>2. <<home, i>> \in listed
    BY <1>1, <1>2, <2>1
  <2>3. ASSUME NEW p \in listed PROVE p = <<home, i>>
    BY <1>3, <1>4, <2>1
  <2>4. listed = {<<home, i>>}
    BY <2>2, <2>3
  <2> QED BY <1>7, <2>4 DEF listed
<1> QED BY <1>6, <1>7 DEF listed

----------------------------------------------------------------------------
(* Types.                                                                   *)
LEMMA Kinds ==
  ASSUME NEW c \in Calls
  PROVE  /\ c.op \in {"set", "del"} /\ c.modes \in SUBSET Modes /\ c.lhs \in Sides
         /\ c.op = "set" => c.rhs \in Callbacks \cup {NOP}
BY DEF Calls

LEMMA LeastIn ==
  ASSUME NEW S \in SUBSET Nat, S # {}
  PROVE  Least(S) \in S
<1> DEFINE R == {p \in Nat \X Nat : p[1] < p[2]}
<1>1. IsWellFoundedOn(R, Nat)
  BY NatLessThanWellFounded DEF OpToRel
<1>2. PICK x \in S : \A y \in S : <<y, x>> \notin R
  BY <1>1, WFMin
<1>3. ASSUME NEW y \in S PROVE x <= y
  <2>1. ~(y < x)
    BY <1>2
  <2> QED BY <2>1
<1> QED BY <1>3 DEF Least

LEMMA HandleTyped ==
  ASSUME NEW t \in Tables, NEW m, NEW keys
  PROVE  Handle(t, m, keys) \in Callbacks \cup {Unbound}
<1> DEFINE h == MapHash({m}, keys[1])
           block == IF h \in Blocks THEN t[h] ELSE <<>>
           hits == {i \in Hits(block, {m}, keys) : block[i].rhs # NOP}
<1>1. block \in Seq(Entries)
  BY DEF Tables
<1>2. hits \subseteq Nat
  BY <1>1 DEF Hits
<1>3. ASSUME NEW i \in hits PROVE block[i].rhs \in Callbacks
  <2>1. block[i] \in Entries
    BY <1>1, <1>3 DEF Hits
  <2> QED BY <1>3, <2>1 DEF Entries
<1>4. hits # {} => Least(hits) \in hits
  BY <1>2, LeastIn
<1> QED BY <1>3, <1>4 DEF Handle

LEMMA SeqExcept ==
  ASSUME NEW S, NEW s \in Seq(S), NEW k, NEW e \in S
  PROVE  [s EXCEPT ![k] = e] \in Seq(S)
<1> DEFINE u == [s EXCEPT ![k] = e]
<1>1. DOMAIN u = 1 .. Len(s) /\ Len(s) \in Nat
  OBVIOUS
<1>2. \A i \in 1 .. Len(s) : u[i] \in S
  OBVIOUS
<1>3. u = [i \in 1 .. Len(s) |-> u[i]]
  OBVIOUS
<1> HIDE DEF u
<1>4. u \in Seq(S)
  BY <1>1, <1>2, <1>3
<1> QED BY <1>4 DEF u

LEMMA SetTyped ==
  ASSUME NEW t \in Tables, NEW ms \in SUBSET Modes, NEW lhs \in Sides,
         NEW rhs \in Callbacks \cup {NOP}
  PROVE  SetKeymap(t, ms, lhs, rhs) \in Tables
<1> DEFINE h == MapHash(ms, lhs[1])
           hits == Hits(t[h], ms, lhs)
           emptied == {i \in hits : t[h][i].mode \subseteq ms}
           new == [mode |-> ms, lhs |-> lhs, rhs |-> rhs]
           k == Least(emptied)
           less == Reduced(t[h], ms, {i \in hits : i < k})
<1>1. h \in Blocks /\ t[h] \in Seq(Entries)
  BY BlockOf DEF Tables
<1>2. CASE emptied = {}
  <2>1. Reduced(t[h], ms, hits) \in Seq(Entries) /\ new \in Entries
    BY <1>1, ReducedBlock DEF Entries
  <2>2. <<new>> \o Reduced(t[h], ms, hits) \in Seq(Entries)
    BY <2>1
  <2>3. SetKeymap(t, ms, lhs, rhs) = [t EXCEPT ![h] = <<new>> \o Reduced(t[h], ms, hits)]
    BY <1>2 DEF SetKeymap
  <2> QED BY <2>2, <2>3 DEF Tables
<1>3. CASE emptied # {}
  <2>1. less \in Seq(Entries) /\ new \in Entries
    BY <1>1, ReducedBlock DEF Entries
  <2>2. [less EXCEPT ![k] = new] \in Seq(Entries)
    BY <2>1, SeqExcept
  <2>3. SetKeymap(t, ms, lhs, rhs) = [t EXCEPT ![h] = [less EXCEPT ![k] = new]]
    BY <1>3 DEF SetKeymap
  <2> QED BY <2>2, <2>3 DEF Tables
<1> QED BY <1>2, <1>3

LEMMA DelTyped ==
  ASSUME NEW t \in Tables, NEW ms \in SUBSET Modes, NEW lhs \in Sides
  PROVE  DelKeymap(t, ms, lhs) \in Tables
<1> DEFINE h == MapHash(ms, lhs[1])
           less == Reduced(t[h], ms, {Least(Hits(t[h], ms, lhs))})
<1>1. h \in Blocks /\ t[h] \in Seq(Entries)
  BY BlockOf DEF Tables
<1>2. less \in Seq(Entries)
  BY <1>1, ReducedBlock
<1>3. DelKeymap(t, ms, lhs) \in {t, [t EXCEPT ![h] = less]}
  BY DEF DelKeymap
<1> QED BY <1>2, <1>3 DEF Tables

LEMMA BindTyped == KeysTyped /\ Bind => KeysTyped'
<1> SUFFICES ASSUME KeysTyped, Bind PROVE KeysTyped'
  OBVIOUS
<1> DEFINE c == Head(calls)
<1>1. c \in Calls /\ calls' \in Seq(Calls) /\ script' = script
  BY DEF KeysTyped, Bind
<1>2. table \in Tables
  BY DEF KeysTyped, Tables
<1>3. table' \in Tables
  <2>1. CASE c.op = "set"
    BY <1>1, <1>2, <2>1, Kinds, SetTyped DEF Bind
  <2>2. CASE c.op # "set"
    BY <1>1, <1>2, <2>2, Kinds, DelTyped DEF Bind
  <2> QED BY <2>1, <2>2
<1>4. bound' \in Bindings
  <2>1. (IF c.op = "set" THEN c.rhs ELSE Unbound) \in Callbacks \cup {NOP, Unbound}
    BY <1>1, Kinds
  <2> QED BY <2>1 DEF Bind, KeysTyped, Bindings
<1>5. mixed' \in BOOLEAN
  BY DEF Bind
<1> QED BY <1>1, <1>3, <1>4, <1>5 DEF KeysTyped, Tables, Bindings

LEMMA KeysUnchanged == Next /\ ~Bind => UNCHANGED keysVars
<1> SUFFICES ASSUME Next, ~Bind PROVE UNCHANGED keysVars
  OBVIOUS
<1>1. CASE Construct
  BY <1>1 DEF Construct, StartThread, ConstructCv, Constructed, EnterScreen
<1>2. CASE RunTask
  BY <1>2 DEF RunTask, RunClear, RunExit, PromptCloses, PromptOpens, ModalCloses, SwitchMode,
              LeaveMode, ClearKeys, PromptTakes, ModalTakes, Passes, ApplyKeys, Reaches,
              TakesEvent, Takes
<1>3. CASE Finish \/ LeaveScreen
  BY <1>3 DEF Finish, PostClear, ClearNow, LeaveScreen
<1>4. CASE Destroy
  BY <1>4 DEF Destroy, Closing, NotifyLoop, Join
<1>5. CASE Loop
  BY <1>5 DEF Loop, LoopStarts, LoopEnters, LoopChecks, LoopParks, LoopWakes, LoopSlept,
              LoopPosts, uiVars
<1>6. CASE Outside
  BY <1>6 DEF Outside, Report, Type
<1> QED BY <1>1, <1>2, <1>3, <1>4, <1>5, <1>6 DEF Next

LEMMA EmptyTyped == <<>> \in Seq(Keys) /\ <<>> \in Seq(Tasks)
OBVIOUS

LEMMA Appends ==
  ASSUME NEW S, NEW s \in Seq(S), NEW e \in S
  PROVE  Append(s, e) \in Seq(S)
OBVIOUS

LEMMA Counts ==
  ASSUME NEW n \in Nat, NEW i \in 0 .. n, i < n
  PROVE  i + 1 \in 0 .. n
OBVIOUS

LEMMA PostedTyped ==
  ASSUME ViewTyped, NEW task \in Tasks
  PROVE  Posted(task) \in Seq(Tasks)
<1>1. queue \in Seq(Tasks)
  BY DEF ViewTyped
<1>2. Append(queue, task) \in Seq(Tasks)
  BY <1>1
<1> QED BY <1>1, <1>2 DEF Posted

LEMMA ConstructTyped == KeysTyped /\ ViewTyped /\ Construct => ViewTyped'
<1> SUFFICES ASSUME KeysTyped, ViewTyped, Construct PROVE ViewTyped'
  OBVIOUS
<1> USE DEF keysVars, modeVars, loopVars, pastVars, countVars, KeysTyped, ViewTyped
<1>1. CASE StartThread
  BY <1>1 DEF StartThread
<1>2. CASE ConstructCv
  BY <1>2 DEF ConstructCv
<1>3. CASE Constructed
  BY <1>3 DEF Constructed
<1>4. CASE Bind
  BY <1>4 DEF Bind
<1>5. CASE EnterScreen
  BY <1>5 DEF EnterScreen
<1> QED BY <1>1, <1>2, <1>3, <1>4, <1>5 DEF Construct

LEMMA LoopTyped == KeysTyped /\ ViewTyped /\ Loop => ViewTyped'
<1> SUFFICES ASSUME KeysTyped, ViewTyped, Loop PROVE ViewTyped'
  OBVIOUS
<1> USE DEF keysVars, modeVars, loopVars, pastVars, countVars, KeysTyped, ViewTyped
<1>1. CASE LoopStarts
  BY <1>1 DEF LoopStarts, uiVars
<1>2. CASE LoopEnters
  BY <1>2 DEF LoopEnters, uiVars
<1>3. CASE LoopChecks
  BY <1>3 DEF LoopChecks, uiVars
<1>4. CASE LoopParks
  BY <1>4 DEF LoopParks, uiVars
<1>5. CASE LoopWakes
  BY <1>5 DEF LoopWakes, uiVars
<1>6. CASE LoopSlept
  BY <1>6 DEF LoopSlept, uiVars
<1>7. CASE LoopPosts
  BY <1>7, PostedTyped DEF LoopPosts, uiVars, Tasks, Events
<1> QED BY <1>1, <1>2, <1>3, <1>4, <1>5, <1>6, <1>7 DEF Loop

LEMMA OtherTyped == KeysTyped /\ ViewTyped /\ (Finish \/ LeaveScreen \/ Destroy) => ViewTyped'
<1> SUFFICES ASSUME KeysTyped, ViewTyped, (Finish \/ LeaveScreen \/ Destroy) PROVE ViewTyped'
  OBVIOUS
<1> USE DEF keysVars, modeVars, loopVars, pastVars, countVars, KeysTyped, ViewTyped
<1>1. CASE PostClear
  BY <1>1, PostedTyped DEF PostClear, Tasks
<1>2. CASE ClearNow
  BY <1>2, EmptyTyped DEF ClearNow
<1>3. CASE LeaveScreen
  BY <1>3, EmptyTyped DEF LeaveScreen
<1>4. CASE Closing
  BY <1>4 DEF Closing
<1>5. CASE NotifyLoop
  BY <1>5 DEF NotifyLoop, Notify
<1>6. CASE Join
  BY <1>6 DEF Join
<1> QED BY <1>1, <1>2, <1>3, <1>4, <1>5, <1>6 DEF Finish, Destroy

LEMMA OutsideTyped == KeysTyped /\ ViewTyped /\ Outside => ViewTyped'
<1> SUFFICES ASSUME KeysTyped, ViewTyped, Outside PROVE ViewTyped'
  OBVIOUS
<1> USE DEF keysVars, modeVars, loopVars, pastVars, countVars, KeysTyped, ViewTyped
<1>1. CASE Report
  <2>1. queue' \in Seq(Tasks)
    BY <1>1, PostedTyped DEF Report, Tasks, Events
  <2>2. reports' \in 0 .. script.reports
    BY <1>1, Counts DEF Report
  <2> QED BY <1>1, <2>1, <2>2 DEF Report
<1>2. ASSUME NEW key \in Keys \cup {"mouse"}, Type(key) PROVE ViewTyped'
  <2>1. queue' \in Seq(Tasks)
    BY <1>2, PostedTyped DEF Type, Tasks, Events
  <2>2. typed' \in 0 .. script.keys
    BY <1>2, Counts DEF Type
  <2> QED BY <1>2, <2>1, <2>2 DEF Type
<1> QED BY <1>1, <1>2 DEF Outside

LEMMA TakesTyped ==
  ASSUME NEW task, KeysTyped, ViewTyped, Takes(task)
  PROVE  /\ script' = script /\ ui' = ui /\ ui = "loop" /\ rest = "" /\ queue # <<>>
         /\ UNCHANGED <<last_buffer, loop_ready, wait_to_handle_mapping, orphaned, typed,
                        reports>>
         /\ Tail(queue) \in Seq(Tasks)
<1>1. queue \in Seq(Tasks) /\ queue # <<>>
  BY DEF Takes, ViewTyped
<1>2. Tail(queue) \in Seq(Tasks)
  BY <1>1
<1> QED BY <1>1, <1>2 DEF Takes, keysVars, loopVars, countVars

LEMMA EventTyped ==
  ASSUME NEW event, ViewTyped, TakesEvent(event)
  PROVE  early' \in BOOLEAN /\ Takes(event)
BY DEF TakesEvent, ViewTyped

LEMMA RunTaskTyped == KeysTyped /\ ViewTyped /\ RunTask => ViewTyped'
<1> SUFFICES ASSUME KeysTyped, ViewTyped, RunTask PROVE ViewTyped'
  OBVIOUS
<1> USE DEF modeVars, pastVars, ViewTyped
<1>1. CASE RunClear
  BY <1>1, TakesTyped, EmptyTyped DEF RunClear
<1>2. CASE RunExit
  BY <1>2, TakesTyped DEF RunExit
<1>3. CASE PromptCloses
  BY <1>3, TakesTyped, EventTyped DEF PromptCloses
<1>4. CASE PromptOpens
  BY <1>4, TakesTyped, EventTyped DEF PromptOpens
<1>5. CASE ModalCloses
  BY <1>5, TakesTyped, EventTyped DEF ModalCloses
<1>6. CASE SwitchMode("i", INTERACT) \/ SwitchMode("v", VISUAL)
  BY <1>6, TakesTyped, EventTyped, EmptyTyped DEF SwitchMode, Reaches, Modes, Keys
<1>7. CASE LeaveMode
  BY <1>7, TakesTyped, EventTyped, EmptyTyped DEF LeaveMode, Reaches
<1>8. CASE ClearKeys
  BY <1>8, TakesTyped, EventTyped, EmptyTyped DEF ClearKeys, Reaches
<1>9. ASSUME NEW e \in Events, PromptTakes(e) \/ ModalTakes(e) \/ Passes(e) PROVE ViewTyped'
  BY <1>9, TakesTyped, EventTyped DEF PromptTakes, ModalTakes, Passes, Reaches
<1>10. ASSUME NEW e \in Events, ApplyKeys(e) PROVE ViewTyped'
  <2> DEFINE isKey == e \notin {"mouse", "custom"}
             keys == IF isKey THEN Append(buffer, e) ELSE buffer
             callback == IF keys = <<>> THEN Unbound ELSE Handle(table, mode, keys)
             so_far == IF isKey THEN Append(word, e) ELSE word
             meant == IF isKey /\ so_far \in Sides THEN bound[mode][so_far] ELSE Unbound
  <2>1. TakesEvent(e) /\ Takes(e)
    BY <1>10, EventTyped DEF ApplyKeys, Reaches
  <2>2. keys \in Seq(Keys) /\ so_far \in Seq(Keys)
    <3>1. buffer \in Seq(Keys) /\ word \in Seq(Keys) /\ (isKey => e \in Keys)
      BY DEF Events
    <3>2. isKey => Append(buffer, e) \in Seq(Keys) /\ Append(word, e) \in Seq(Keys)
      BY <3>1, Appends
    <3> QED BY <3>1, <3>2
  <2>3. callback \in Callbacks \cup {Unbound}
    BY HandleTyped DEF KeysTyped, Tables
  <2> HIDE DEF keys, so_far, callback, meant
  <2>4. buffer' \in Seq(Keys) /\ word' \in Seq(Keys)
    BY <1>10, <2>2, EmptyTyped DEF ApplyKeys, keys, so_far
  <2>5. due' \in Seq(Callbacks)
    <3>1. due' = IF meant \in Callbacks THEN Append(due, meant) ELSE due
      BY <1>10 DEF ApplyKeys, meant, so_far
    <3>2. due \in Seq(Callbacks)
      OBVIOUS
    <3>3. meant \in Callbacks => Append(due, meant) \in Seq(Callbacks)
      BY <3>2, Appends
    <3> QED BY <3>1, <3>2, <3>3
  <2>6. ran' \in Seq(Callbacks) /\ queue' \in Seq(Tasks) /\ show_modal' \in BOOLEAN
    <3>1. IF callback = Unbound
          THEN UNCHANGED <<ran, show_modal>> /\ queue' = Tail(queue)
          ELSE Runs(callback)
      BY <1>10 DEF ApplyKeys, callback, keys
    <3>2. Tail(queue) \in Seq(Tasks) /\ Append(Tail(queue), "exit") \in Seq(Tasks)
      <4>1. Tail(queue) \in Seq(Tasks)
        BY <2>1, TakesTyped
      <4> QED BY <4>1, Appends DEF Tasks
    <3>3. ran \in Seq(Callbacks)
      OBVIOUS
    <3>4. callback # Unbound => Append(ran, callback) \in Seq(Callbacks)
      BY <2>3, <3>3, Appends
    <3> QED BY <3>1, <3>2, <3>3, <3>4 DEF Runs
  <2>7. rest' \in {"", "post", "clear"} /\ loop' \in {loop, "woken"}
        /\ UNCHANGED <<quit, modeVars, show_prompt>>
    BY <1>10 DEF ApplyKeys, Notify
  <2> QED BY <2>1, <2>4, <2>5, <2>6, <2>7, TakesTyped, EventTyped
<1> QED BY <1>1, <1>2, <1>3, <1>4, <1>5, <1>6, <1>7, <1>8, <1>9, <1>10 DEF RunTask

LEMMA ViewStep == KeysTyped /\ ViewTyped /\ Next => ViewTyped'
BY ConstructTyped, RunTaskTyped, OtherTyped, LoopTyped, OutsideTyped DEF Next

----------------------------------------------------------------------------
(* The focus.  The children and the history follow from what is shown.      *)
Two == <<"prompt", "main">>
Three == Append(Two, "modal")
Children == IF show_modal THEN Three ELSE Two

Below == IF show_modal THEN Append(<<"main">>, "modal") ELSE <<"main">>
History == IF show_prompt THEN Append(Below, "prompt") ELSE Below

Place == CASE show_prompt -> 0 [] ~show_prompt /\ show_modal -> 2 [] OTHER -> 1

Unborn == {"thread", "cv", "await"}

FocusInv ==
  IF ui \in Unborn THEN ~show_modal /\ ~show_prompt
  ELSE children = Children /\ focus_history = History /\ focused = Place

(* Sequences that grow by one and shrink again.                             *)
LEMMA Grown ==
  ASSUME NEW S, NEW s \in Seq(S), NEW e \in S
  PROVE  /\ Front(Append(s, e)) = s /\ Last(Append(s, e)) = e /\ Append(s, e) # <<>>
         /\ RemoveAt(Append(s, e), Len(s) + 1) = s
         /\ (\A i \in DOMAIN s : s[i] # e) => PlaceOf(e, Append(s, e)) = Len(s) + 1
<1>1. Front(Append(s, e)) = s /\ Last(Append(s, e)) = e /\ Append(s, e) # <<>>
  BY DEF Front, Last
<1>2. SubSeq(Append(s, e), 1, Len(s)) = s
  OBVIOUS
<1>3. SubSeq(Append(s, e), Len(s) + 2, Len(s) + 1) = <<>>
  OBVIOUS
<1>4. RemoveAt(Append(s, e), Len(s) + 1) = s
  BY <1>2, <1>3 DEF RemoveAt
<1>5. (\A i \in DOMAIN s : s[i] # e) => PlaceOf(e, Append(s, e)) = Len(s) + 1
  BY DEF PlaceOf
<1> QED BY <1>1, <1>4, <1>5

Kids == {"prompt", "main", "modal"}

LEMMA Pair ==
  ASSUME NEW S, NEW a \in S, NEW b \in S
  PROVE  /\ <<a, b>> \in Seq(S) /\ Len(<<a, b>>) = 2 /\ DOMAIN <<a, b>> = 1 .. 2
         /\ <<a, b>>[1] = a /\ <<a, b>>[2] = b
         /\ <<a>> \in Seq(S) /\ Len(<<a>>) = 1 /\ <<a>> # <<>> /\ Last(<<a>>) = a
         /\ Append(<<>>, a) = <<a>>
BY DEF Last

LEMMA Beginnings ==
  /\ Two \in Seq(Kids) /\ Len(Two) = 2 /\ DOMAIN Two = 1 .. 2
  /\ Two[1] = "prompt" /\ Two[2] = "main"
  /\ <<"main">> \in Seq(Kids) /\ <<"main">> # <<>> /\ Last(<<"main">>) = "main"
  /\ Append(<<>>, "main") = <<"main">>
<1>1. "prompt" \in Kids /\ "main" \in Kids
  BY DEF Kids
<1>2. /\ Two \in Seq(Kids) /\ Len(Two) = 2 /\ DOMAIN Two = 1 .. 2
      /\ Two[1] = "prompt" /\ Two[2] = "main"
  BY <1>1, Pair DEF Two
<1>3. <<"main">> \in Seq(Kids) /\ <<"main">> # <<>> /\ Append(<<>>, "main") = <<"main">>
  BY <1>1, Pair
<1>4. Last(<<"main">>) = "main"
  BY <1>1, Pair
<1> QED BY <1>2, <1>3, <1>4

(* The places of the children, in each list of them.                        *)
LEMMA Places ==
  /\ PlaceOf("main", Two) = 2 /\ PlaceOf("prompt", Two) = 1
  /\ PlaceOf("main", Three) = 2 /\ PlaceOf("prompt", Three) = 1 /\ PlaceOf("modal", Three) = 3
  /\ RemoveAt(Three, 3) = Two
  /\ DOMAIN Three = 1 .. 3
  /\ Three[1] = "prompt" /\ Three[2] = "main" /\ Three[3] = "modal"
<1>1. PlaceOf("main", Two) = 2 /\ PlaceOf("prompt", Two) = 1
  BY Beginnings DEF PlaceOf
<1>2. RemoveAt(Three, 3) = Two
  <2>1. "modal" \in Kids /\ Two \in Seq(Kids) /\ Len(Two) + 1 = 3
    BY Beginnings DEF Kids
  <2>2. RemoveAt(Three, Len(Two) + 1) = Two
    BY <2>1, Grown DEF Three
  <2> QED BY <2>1, <2>2
<1>3. /\ DOMAIN Three = 1 .. 3
      /\ Three[1] = "prompt" /\ Three[2] = "main" /\ Three[3] = "modal"
  BY Beginnings DEF Kids, Three
<1>4. PlaceOf("main", Three) = 2 /\ PlaceOf("prompt", Three) = 1 /\ PlaceOf("modal", Three) = 3
  BY <1>3 DEF PlaceOf
<1> QED BY <1>1, <1>2, <1>3, <1>4

LEMMA Tops ==
  /\ Below \in Seq(Kids) /\ Below # <<>> /\ Last(Below) = IF show_modal THEN "modal" ELSE "main"
  /\ Front(Append(Below, "prompt")) = Below /\ Last(Append(Below, "prompt")) = "prompt"
  /\ Front(Append(<<"main">>, "modal")) = <<"main">>
<1>1. Append(<<"main">>, "modal") \in Seq(Kids)
  BY Beginnings, Appends DEF Kids
<1>2. Below \in Seq(Kids)
  BY <1>1, Beginnings DEF Below
<1>3. Below # <<>> /\ Last(Below) = IF show_modal THEN "modal" ELSE "main"
  <2>1. "modal" \in Kids
    BY DEF Kids
  <2>2. Append(<<"main">>, "modal") # <<>> /\ Last(Append(<<"main">>, "modal")) = "modal"
    BY <2>1, Beginnings, Grown
  <2> QED BY <2>2, Beginnings DEF Below
<1>4. Front(Append(Below, "prompt")) = Below /\ Last(Append(Below, "prompt")) = "prompt"
  BY <1>2, Grown DEF Kids
<1>5. Front(Append(<<"main">>, "modal")) = <<"main">>
  <2>1. "modal" \in Kids
    BY DEF Kids
  <2> QED BY <2>1, Beginnings, Grown
<1> QED BY <1>2, <1>3, <1>4, <1>5

LEMMA FocusStep == ViewTyped /\ FocusInv /\ Next => FocusInv'
<1> SUFFICES ASSUME ViewTyped, FocusInv, Next PROVE FocusInv'
  OBVIOUS
<1> USE DEF focusVars
<1>1. {show_modal, show_prompt} \subseteq BOOLEAN
  BY DEF ViewTyped
<1>2. ASSUME UNCHANGED <<ui, focusVars, show_modal, show_prompt>> PROVE FocusInv'
  BY <1>2 DEF FocusInv, Children, History, Below, Place
<1>3. ASSUME ui \notin Unborn, ui' \notin Unborn, UNCHANGED <<focusVars, show_modal, show_prompt>>
      PROVE  FocusInv'
  BY <1>3 DEF FocusInv, Children, History, Below, Place
<1>4. CASE StartThread \/ ConstructCv
  BY <1>4 DEF StartThread, ConstructCv, FocusInv, Unborn
<1>5. CASE Constructed
  <2>1. /\ children' = Two /\ focused' = 1 /\ focus_history' = <<"main">>
        /\ ui' = "bind" /\ ~show_modal' /\ ~show_prompt'
    BY <1>5, Places, Beginnings DEF Constructed, TakeFocus, FocusInv, Unborn, Two
  <2> QED BY <2>1 DEF FocusInv, Children, History, Below, Place, Unborn
<1>6. CASE Bind \/ EnterScreen \/ LeaveScreen \/ Destroy
  BY <1>3, <1>6 DEF Bind, EnterScreen, LeaveScreen, Destroy, Closing, NotifyLoop, Join, Unborn
<1>7. CASE Finish \/ Loop \/ Outside
  BY <1>2, <1>7 DEF Finish, PostClear, ClearNow, Loop, LoopStarts, LoopEnters, LoopChecks,
                    LoopParks, LoopWakes, LoopSlept, LoopPosts, uiVars, Outside, Report, Type
<1>8. CASE RunTask
  <2>1. /\ ui = "loop" /\ ui' = "loop"
        /\ children = Children /\ focus_history = History /\ focused = Place
    BY <1>8 DEF RunTask, RunClear, RunExit, PromptCloses, PromptOpens, ModalCloses, SwitchMode,
                LeaveMode, ClearKeys, PromptTakes, ModalTakes, Passes, ApplyKeys, Reaches,
                TakesEvent, Takes, FocusInv, Unborn
  <2>2. ASSUME children' = Children', focus_history' = History', focused' = Place'
        PROVE  FocusInv'
    BY <2>1, <2>2 DEF FocusInv, Unborn
  <2>3. CASE UNCHANGED <<focusVars, show_modal, show_prompt>>
    BY <1>3, <2>1, <2>3 DEF Unborn
  <2>4. CASE PromptCloses
    <3>1. /\ show_prompt /\ ~show_prompt' /\ UNCHANGED <<show_modal, children>>
          /\ PopAndFocusTop(children)
      BY <2>4 DEF PromptCloses
    <3>2. focus_history = Append(Below, "prompt") /\ Front(focus_history) = Below
      BY <2>1, <3>1, Tops DEF History
    <3>3. focus_history' = Below /\ focused' = PlaceOf(Last(Below), children) - 1
      BY <3>1, <3>2, Tops DEF PopAndFocusTop, TakeFocus
    <3>4. focused' = IF show_modal THEN 2 ELSE 1
      BY <1>1, <2>1, <3>3, Tops, Places DEF Children
    <3>5. Below' = Below
      BY <3>1 DEF Below
    <3> QED BY <1>1, <2>1, <2>2, <3>1, <3>3, <3>4, <3>5 DEF Children, History, Place
  <2>5. CASE PromptOpens
    BY <1>1, <2>1, <2>2, <2>5, Places, Tops
       DEF PromptOpens, TakeFocus, Children, History, Below, Place
  <2>6. CASE ModalCloses
    <3>1. /\ show_modal /\ ~show_modal' /\ ~show_prompt /\ ~show_prompt'
          /\ children' = RemoveAt(children, PlaceOf("modal", children))
          /\ PopAndFocusTop(children')
      BY <2>6 DEF ModalCloses
    <3>2. children' = Two
      BY <2>1, <3>1, Places DEF Children
    <3>3. Front(focus_history) = <<"main">>
      BY <2>1, <3>1, Tops DEF History, Below
    <3>4. focus_history' = <<"main">> /\ focused' = PlaceOf("main", Two) - 1
      BY <3>1, <3>2, <3>3, Beginnings DEF PopAndFocusTop, TakeFocus
    <3>5. focused' = 1
      BY <3>4, Places
    <3> QED BY <2>2, <3>1, <3>2, <3>4, <3>5 DEF Children, History, Below, Place
  <2>7. ASSUME NEW event \in Events, ApplyKeys(event),
               ~UNCHANGED <<focusVars, show_modal, show_prompt>>
        PROVE  FocusInv'
    <3>1. /\ ~show_modal /\ ~show_prompt /\ show_modal' = TRUE /\ show_prompt' = show_prompt
          /\ children' = Append(children, "modal")
          /\ TakeFocus("modal", children', focus_history)
      BY <2>7 DEF ApplyKeys, Reaches, Runs
    <3>2. children' = Three /\ focus_history = <<"main">>
      BY <2>1, <3>1 DEF Children, History, Below, Three
    <3>3. focus_history' = Append(<<"main">>, "modal")
      BY <3>1, <3>2, Beginnings DEF TakeFocus
    <3>4. focused' = PlaceOf("modal", Three) - 1
      BY <3>1, <3>2 DEF TakeFocus
    <3>5. focused' = 2
      BY <3>4, Places
    <3> QED BY <2>2, <3>1, <3>2, <3>3, <3>5 DEF Three, Children, History, Below, Place
  <2>8. CASE RunClear \/ RunExit \/ LeaveMode \/ ClearKeys
             \/ SwitchMode("i", INTERACT) \/ SwitchMode("v", VISUAL)
    BY <2>3, <2>8 DEF RunClear, RunExit, LeaveMode, ClearKeys, SwitchMode
  <2>9. CASE \E event \in Events : PromptTakes(event) \/ ModalTakes(event) \/ Passes(event)
    BY <2>3, <2>9 DEF PromptTakes, ModalTakes, Passes
  <2> QED BY <1>8, <2>3, <2>4, <2>5, <2>6, <2>7, <2>8, <2>9 DEF RunTask
<1> QED BY <1>4, <1>5, <1>6, <1>7, <1>8 DEF Next, Construct

LEMMA FocusRightly == ViewTyped /\ FocusInv => FocusRight
<1> SUFFICES ASSUME ViewTyped, FocusInv, ui \notin Unborn PROVE FocusRight
  BY DEF FocusRight, Unborn
<1>1. {show_modal, show_prompt} \subseteq BOOLEAN
  BY DEF ViewTyped
<1>2. children = Children /\ focus_history = History /\ focused = Place
  BY DEF FocusInv
<1>3. focused + 1 \in DOMAIN children /\ children[focused + 1] = Last(focus_history)
  BY <1>1, <1>2, Tops, Places, Beginnings DEF Children, History, Place
<1> QED BY <1>2, <1>3 DEF FocusRight, History, Below

----------------------------------------------------------------------------
(* The theorems about types and bindings.                                   *)
IInv == KeysTyped /\ ViewTyped /\ FocusInv

LEMMA InitIInv == Init => IInv
<1> SUFFICES ASSUME Init PROVE IInv
  OBVIOUS
<1>1. script \in Scripts /\ calls = script.calls
  BY DEF Init
<1>2. script.keys \in Nat /\ script.reports \in Nat /\ calls \in Seq(Calls)
  BY <1>1, ScriptsAssumption
<1>3. table \in Tables
  <2>1. <<>> \in Seq(Entries)
    OBVIOUS
  <2> QED BY <2>1 DEF Init, EmptyTable, Tables
<1>4. bound \in Bindings
  BY DEF Init, Bindings
<1>5. KeysTyped
  BY <1>2, <1>3, <1>4 DEF Init, KeysTyped, Tables, Bindings
<1>6. ViewTyped
  <2>1. <<>> \in Seq(Callbacks) /\ 0 \in 0 .. script.keys /\ 0 \in 0 .. script.reports
    BY <1>2
  <2> QED BY <2>1, EmptyTyped DEF Init, ViewTyped, Modes
<1>7. FocusInv
  BY DEF Init, FocusInv, Unborn
<1> QED BY <1>5, <1>6, <1>7 DEF IInv

LEMMA StepIInv == IInv /\ [Next]_vars => IInv'
<1> SUFFICES ASSUME IInv, [Next]_vars PROVE IInv'
  OBVIOUS
<1>1. CASE Next
  <2>1. KeysTyped'
    <3>1. CASE Bind
      BY <3>1, BindTyped DEF IInv
    <3>2. CASE ~Bind
      BY <1>1, <3>2, KeysUnchanged DEF IInv, KeysTyped, keysVars
    <3> QED BY <3>1, <3>2
  <2> QED BY <1>1, <2>1, ViewStep, FocusStep DEF IInv
<1>2. CASE UNCHANGED vars
  BY <1>2 DEF vars, keysVars, modeVars, focusVars, loopVars, countVars, pastVars, IInv,
              KeysTyped, ViewTyped, FocusInv, Children, History, Below, Place
<1> QED BY <1>1, <1>2

LEMMA AlwaysIInv == Spec => []IInv
BY InitIInv, StepIInv, PTL DEF Spec

(* Every variable keeps its type, and the focus is where it belongs, for any *)
(* keys, callbacks and lists of calls (View::SetActiveChild).                *)
THEOREM TypeCorrect == Spec => []TypeOK
<1>1. IInv => TypeOK
  BY FocusRightly DEF IInv, TypeOK
<1> QED BY <1>1, AlwaysIInv, PTL

TablesAgree == ~mixed => TableInv(table, bound)

LEMMA InitTables == Init => TablesAgree
<1> SUFFICES ASSUME Init PROVE TableInv(table, bound)
  BY DEF TablesAgree
<1>1. \A h \in Blocks : table[h] = <<>>
  BY DEF Init, EmptyTable
<1>2. \A m \in Modes, l \in Sides : bound[m][l] = Unbound
  BY DEF Init
<1> QED BY <1>1, <1>2 DEF TableInv, Only

LEMMA BindTables == IInv /\ TablesAgree /\ Bind => TablesAgree'
<1> SUFFICES ASSUME IInv, TablesAgree, Bind, ~mixed' PROVE TableInv(table', bound')
  BY DEF TablesAgree
<1> DEFINE c == Head(calls)
           said == IF c.op = "set" THEN c.rhs ELSE Unbound
           h == MapHash(c.modes, c.lhs[1])
<1>1. c \in Calls /\ table \in Tables /\ bound \in Bindings
  BY DEF IInv, KeysTyped, Bind, Tables, Bindings
<1>2. ~mixed /\ Clean(table, c.modes, c.lhs)
  BY DEF Bind, Clean
<1>3. TableInv(table, bound)
  BY <1>2 DEF TablesAgree
<1>4. PICK nb : table' = [table EXCEPT ![h] = nb] /\ Said(table[h], nb, c.modes, c.lhs, said)
  <2>1. CASE c.op = "set"
    BY <1>1, <1>2, <2>1, Kinds, SetSays DEF Bind
  <2>2. CASE c.op # "set"
    BY <1>1, <1>2, <2>2, Kinds, DelSays DEF Bind
  <2> QED BY <2>1, <2>2
<1>5. bound' = Rebound(bound, c.modes, c.lhs, said)
  BY DEF Bind, Rebound
<1> HIDE DEF c, said
<1>6. c.modes \in SUBSET Modes /\ c.lhs \in Sides
  BY <1>1, Kinds
<1> QED BY <1>1, <1>2, <1>3, <1>4, <1>5, <1>6, TableStep DEF Clean

LEMMA StepTables == IInv /\ TablesAgree /\ [Next]_vars => TablesAgree'
<1> SUFFICES ASSUME IInv, TablesAgree, [Next]_vars PROVE TablesAgree'
  OBVIOUS
<1>1. CASE Bind
  BY <1>1, BindTables
<1>2. CASE ~Bind
  <2>1. UNCHANGED keysVars
    BY <1>2, KeysUnchanged DEF vars
  <2> QED BY <2>1 DEF TablesAgree, keysVars
<1> QED BY <1>1, <1>2

LEMMA AlwaysTables == Spec => []TablesAgree
BY InitTables, StepTables, AlwaysIInv, PTL DEF Spec

(* A key sequence runs what the last call for it said, and is listed once,   *)
(* for any calls that join no two halves of the table and meet no two        *)
(* entries at once (SetKeymap, DelKeymap, Handle, GetKeymaps).               *)
THEOREM LastCall == Spec => []LastCallWins
<1>1. IInv /\ TablesAgree => LastCallWins
  <2> SUFFICES ASSUME IInv, TableInv(table, bound)
               PROVE  LastCallWins
    BY DEF TablesAgree, LastCallWins
  <2>1. table \in Tables /\ bound \in Bindings
    BY DEF IInv, KeysTyped, Tables, Bindings
  <2> QED BY <2>1, HandleSays, ListedOnce DEF LastCallWins
<1> QED BY <1>1, AlwaysIInv, AlwaysTables, PTL

----------------------------------------------------------------------------
(* What runs.  While no clearing of the buffer is due, the buffer holds the  *)
(* keys since the last sequence that was completed; while one is due, no key *)
(* came since.                                                               *)
ClearDue == rest # "" \/ "clear" \in Range(queue)

KeysKept ==
  IF ClearDue THEN word = <<>>
  ELSE buffer = word /\ (word \in Sides => bound[mode][word] \notin Callbacks)

ActsInv ==
  /\ ui \in Unborn \cup {"bind"} => word = <<>> /\ buffer = <<>> /\ queue = <<>> /\ rest = ""
  /\ mode = INTERACT => word = <<>>
  /\ ~mixed /\ ~early => ran = due /\ (~quit => KeysKept)

LEMMA InitActs == Init => ActsInv
BY SidesAssumption DEF Init, ActsInv, KeysKept, ClearDue, Range, NORMAL, INTERACT

LEMMA Ranges ==
  ASSUME NEW S, NEW q \in Seq(S)
  PROVE  /\ \A task \in S : Range(Append(q, task)) = Range(q) \cup {task}
         /\ q # <<>> => Range(q) = {Head(q)} \cup Range(Tail(q))
         /\ Range(<<>>) = {}
<1>1. ASSUME NEW task \in S PROVE Range(Append(q, task)) = Range(q) \cup {task}
  <2> DEFINE u == Append(q, task)
  <2>1. DOMAIN u = 1 .. Len(q) + 1 /\ DOMAIN q = 1 .. Len(q) /\ Len(q) \in Nat
    OBVIOUS
  <2>2. u[Len(q) + 1] = task /\ \A i \in DOMAIN q : u[i] = q[i]
    OBVIOUS
  <2> HIDE DEF u
  <2>3. Range(u) \subseteq Range(q) \cup {task}
    <3> SUFFICES ASSUME NEW i \in DOMAIN u PROVE u[i] \in Range(q) \cup {task}
      BY DEF Range
    <3>1. i \in DOMAIN q \/ i = Len(q) + 1
      BY <2>1
    <3> QED BY <2>2, <3>1 DEF Range
  <2>4. Range(q) \cup {task} \subseteq Range(u)
    <3>1. Len(q) + 1 \in DOMAIN u /\ \A i \in DOMAIN q : i \in DOMAIN u
      BY <2>1
    <3> QED BY <2>2, <3>1 DEF Range
  <2> QED BY <2>3, <2>4 DEF u
<1>2. ASSUME q # <<>> PROVE Range(q) = {Head(q)} \cup Range(Tail(q))
  <2>1. Len(q) \in Nat \ {0} /\ DOMAIN q = 1 .. Len(q) /\ DOMAIN Tail(q) = 1 .. Len(q) - 1
    BY <1>2
  <2>2. Head(q) = q[1] /\ \A i \in DOMAIN Tail(q) : Tail(q)[i] = q[i + 1]
    BY <1>2
  <2>3. Range(q) \subseteq {Head(q)} \cup Range(Tail(q))
    <3> SUFFICES ASSUME NEW i \in DOMAIN q, i # 1 PROVE q[i] \in Range(Tail(q))
      BY <2>2 DEF Range
    <3>1. i - 1 \in DOMAIN Tail(q) /\ Tail(q)[i - 1] = q[i]
      BY <2>1, <2>2
    <3> QED BY <3>1 DEF Range
  <2>4. {Head(q)} \cup Range(Tail(q)) \subseteq Range(q)
    <3>1. \A i \in DOMAIN Tail(q) : i + 1 \in DOMAIN q
      BY <2>1
    <3>2. 1 \in DOMAIN q
      BY <2>1
    <3> QED BY <2>2, <3>1, <3>2 DEF Range
  <2> QED BY <2>3, <2>4
<1>3. Range(<<>>) = {}
  BY DEF Range
<1> QED BY <1>1, <1>2, <1>3

(* The steps that leave the keys alone, and may post what is no clearing.   *)
LEMMA QuietActs ==
  ASSUME IInv, ActsInv,
         UNCHANGED <<word, due, ran, early, quit, bound, mixed, mode, buffer, rest>>,
         ui' \in Unborn \cup {"bind"} => ui \in Unborn \cup {"bind"} /\ queue' = queue,
         queue' = queue \/ \E task \in Tasks \ {"clear"} : queue' = Posted(task)
  PROVE  ActsInv'
<1>1. queue \in Seq(Tasks)
  BY DEF IInv, ViewTyped
<1>2. "clear" \in Range(queue)' <=> "clear" \in Range(queue)
  <2>1. CASE queue' = queue
    BY <2>1
  <2>2. ASSUME NEW task \in Tasks \ {"clear"}, queue' = Append(queue, task)
        PROVE  "clear" \in Range(queue)' <=> "clear" \in Range(queue)
    BY <1>1, <2>2, Ranges
  <2> QED BY <2>1, <2>2 DEF Posted
<1>3. KeysKept' <=> KeysKept
  BY <1>2 DEF KeysKept, ClearDue
<1> QED BY <1>3 DEF ActsInv

LEMMA BindActs == IInv /\ ActsInv /\ Bind => ActsInv'
<1> SUFFICES ASSUME IInv, ActsInv, Bind PROVE ActsInv'
  OBVIOUS
<1>1. word = <<>> /\ buffer = <<>> /\ queue = <<>> /\ rest = ""
  BY DEF Bind, ActsInv, Unborn
<1>2. UNCHANGED <<ui, quit, queue, rest, modeVars, buffer, pastVars>> /\ (~mixed' => ~mixed)
  BY DEF Bind
<1>3. word' \notin Sides /\ (ClearDue' <=> ClearDue)
  BY <1>1, <1>2, SidesAssumption DEF pastVars, ClearDue
<1> QED BY <1>1, <1>2, <1>3 DEF ActsInv, KeysKept, modeVars, pastVars

(* The tasks of the screen that are no event.                               *)
LEMMA TaskActs == IInv /\ ActsInv /\ (RunClear \/ RunExit \/ Finish) => ActsInv'
<1> SUFFICES ASSUME IInv, ActsInv, RunClear \/ RunExit \/ Finish PROVE ActsInv'
  OBVIOUS
<1>1. /\ queue \in Seq(Tasks) /\ quit \in BOOLEAN /\ rest \in {"", "post", "clear"}
      /\ ui \notin Unborn \cup {"bind"} /\ ui' = ui
  BY DEF IInv, ViewTyped, RunClear, RunExit, Finish, PostClear, ClearNow, Takes, Unborn
<1>2. UNCHANGED <<word, due, ran, early, mode, bound, mixed>>
  BY DEF RunClear, RunExit, Finish, PostClear, ClearNow, Takes, keysVars, modeVars, pastVars
<1>3. SUFFICES ASSUME ~mixed, ~early, ~quit' PROVE ~quit /\ (KeysKept => KeysKept')
  BY <1>1, <1>2 DEF ActsInv
<1>4. word \in Sides => word # <<>>
  BY SidesAssumption
<1>5. CASE RunClear
  <2>1. /\ ClearDue /\ buffer' = <<>> /\ UNCHANGED <<quit, rest>>
    <3>1. Range(queue) = {"clear"} \cup Range(Tail(queue))
      BY <1>1, <1>5, Ranges DEF RunClear, Takes
    <3> QED BY <1>5, <3>1 DEF RunClear, ClearDue
  <2> QED BY <1>2, <1>3, <1>4, <2>1 DEF KeysKept
<1>6. CASE RunExit
  BY <1>3, <1>6 DEF RunExit
<1>7. CASE PostClear
  <2>1. ClearDue /\ UNCHANGED quit /\ queue' = Posted("clear")
    BY <1>7 DEF PostClear, ClearDue
  <2>2. queue' = Append(queue, "clear")
    BY <1>3, <2>1 DEF Posted
  <2>3. ClearDue'
    <3>1. ASSUME NEW task \in Tasks PROVE task \in Range(Append(queue, task))
      <4>1. queue \in Seq(Tasks)
        BY <1>1
      <4> QED BY <4>1, Ranges
    <3>2. "clear" \in Tasks
      BY DEF Tasks
    <3> QED BY <2>2, <3>1, <3>2 DEF ClearDue
  <2> QED BY <1>2, <1>3, <2>1, <2>3 DEF KeysKept
<1>8. CASE ClearNow
  <2>1. ClearDue /\ buffer' = <<>> /\ UNCHANGED quit
    BY <1>8 DEF ClearNow, ClearDue
  <2> QED BY <1>2, <1>3, <1>4, <2>1 DEF KeysKept
<1> QED BY <1>5, <1>6, <1>7, <1>8 DEF Finish

(* An event that is not early finds the keys kept, and no clearing due.     *)
LEMMA EventFinds ==
  ASSUME IInv, ActsInv, NEW event \in Events, TakesEvent(event), ~early', ~mixed
  PROVE  /\ ~quit /\ ran = due /\ ~early /\ rest = "" /\ "clear" \notin Range(Tail(queue))
         /\ buffer = word /\ (word \in Sides => bound[mode][word] \notin Callbacks)
<1>1. queue \in Seq(Tasks) /\ queue # <<>> /\ Head(queue) = event /\ rest = ""
  BY DEF IInv, ViewTyped, TakesEvent, Takes
<1>2. ~early /\ ~quit /\ "clear" \notin Range(Tail(queue))
  BY DEF TakesEvent
<1>3. event # "clear"
  BY LettersAssumption DEF Events, Keys
<1>4. "clear" \notin Range(queue)
  BY <1>1, <1>2, <1>3, Ranges
<1> QED BY <1>1, <1>2, <1>4 DEF ActsInv, KeysKept, ClearDue

LEMMA EventActs ==
  IInv /\ TablesAgree /\ ActsInv /\ RunTask /\ ~RunClear /\ ~RunExit => ActsInv'
<1> SUFFICES ASSUME IInv, TablesAgree, ActsInv, RunTask, ~RunClear, ~RunExit PROVE ActsInv'
  OBVIOUS
<1>1. PICK event \in Events :
        \/ PromptTakes(event) \/ ModalTakes(event) \/ Passes(event) \/ ApplyKeys(event)
        \/ event = "esc" /\ (PromptCloses \/ ModalCloses \/ LeaveMode \/ ClearKeys)
        \/ event = ":" /\ PromptOpens
        \/ event = "i" /\ SwitchMode("i", INTERACT)
        \/ event = "v" /\ SwitchMode("v", VISUAL)
  BY DEF RunTask, Events, Keys
<1>2. TakesEvent(event) /\ UNCHANGED keysVars /\ ui' = ui /\ ui = "loop"
  BY <1>1 DEF PromptTakes, ModalTakes, Passes, ApplyKeys, PromptCloses, ModalCloses, LeaveMode,
              ClearKeys, PromptOpens, SwitchMode, Reaches, TakesEvent, Takes
<1>3. <<>> \notin Sides
  BY SidesAssumption
<1>4. CASE ~ApplyKeys(event)
  <2>1. /\ UNCHANGED <<due, ran, rest, quit>> /\ queue' = Tail(queue)
        /\ \/ UNCHANGED <<word, buffer, mode>>
           \/ word' = <<>> /\ (buffer' = <<>> \/ (mode = INTERACT /\ buffer' = buffer))
    BY <1>1, <1>4 DEF PromptTakes, ModalTakes, Passes, PromptCloses, ModalCloses, LeaveMode,
                      ClearKeys, PromptOpens, SwitchMode, modeVars
  <2>2. mode' = INTERACT => word' = <<>>
    BY <2>1 DEF ActsInv
  <2>3. ASSUME ~early', ~mixed' PROVE ran' = due' /\ KeysKept'
    <3>1. /\ ran = due /\ rest = "" /\ "clear" \notin Range(Tail(queue)) /\ buffer = word
          /\ word \in Sides => bound[mode][word] \notin Callbacks
      BY <1>2, <2>3, EventFinds DEF keysVars
    <3>2. ~ClearDue'
      BY <2>1, <3>1 DEF ClearDue
    <3>3. buffer' = word'
      <4>1. mode = INTERACT => buffer = <<>>
        BY <3>1 DEF ActsInv
      <4>2. CASE UNCHANGED <<word, buffer, mode>>
        BY <3>1, <4>2
      <4>3. CASE word' = <<>> /\ (buffer' = <<>> \/ (mode = INTERACT /\ buffer' = buffer))
        BY <4>1, <4>3
      <4> QED BY <2>1, <4>2, <4>3
    <3>4. word' \in Sides => bound'[mode'][word'] \notin Callbacks
      BY <1>2, <1>3, <2>1, <3>1 DEF keysVars
    <3> QED BY <2>1, <3>1, <3>2, <3>3, <3>4 DEF KeysKept
  <2> QED BY <1>2, <2>2, <2>3 DEF ActsInv, Unborn
<1>5. CASE ApplyKeys(event)
  <2> DEFINE isKey == event \notin {"mouse", "custom"}
             keys == IF isKey THEN Append(buffer, event) ELSE buffer
             callback == IF keys = <<>> THEN Unbound ELSE Handle(table, mode, keys)
             so_far == IF isKey THEN Append(word, event) ELSE word
             meant == IF isKey /\ so_far \in Sides THEN bound[mode][so_far] ELSE Unbound
  <2>1. /\ mode # INTERACT /\ mode' = mode /\ quit' = quit /\ buffer' = keys
        /\ IF callback = Unbound THEN ran' = ran /\ queue' = Tail(queue) ELSE Runs(callback)
        /\ rest' = CASE callback # Unbound -> "post"
                     [] callback = Unbound /\ event = "esc" -> "clear"
                     [] OTHER -> ""
        /\ due' = (IF meant \in Callbacks THEN Append(due, meant) ELSE due)
        /\ word' = (IF meant \in Callbacks \/ event = "esc" THEN <<>> ELSE so_far)
    BY <1>5 DEF ApplyKeys, modeVars
  <2>2. ASSUME ~early', ~mixed' PROVE ran' = due' /\ KeysKept'
    <3>1. /\ ran = due /\ "clear" \notin Range(Tail(queue)) /\ buffer = word
          /\ word \in Sides => bound[mode][word] \notin Callbacks
      BY <1>2, <2>2, EventFinds DEF keysVars
    <3>2. keys = so_far
      BY <3>1
    <3>3. /\ table \in Tables /\ bound \in Bindings /\ TableInv(table, bound) /\ mode \in Modes
          /\ bound' = bound
      BY <1>2, <2>2 DEF IInv, KeysTyped, ViewTyped, TablesAgree, keysVars, Tables, Bindings
    <3>4. so_far \in Sides => bound[mode][so_far] \in Callbacks \cup {NOP, Unbound}
      BY <3>3 DEF Bindings
    <3> HIDE DEF keys, so_far
    <3>5. callback = IF so_far \in Sides /\ bound[mode][so_far] \in Callbacks
                     THEN bound[mode][so_far] ELSE Unbound
      <4>1. CASE so_far \in Sides
        <5>1. so_far # <<>>
          BY <1>3, <4>1
        <5>2. Handle(table, mode, so_far) =
                IF bound[mode][so_far] = NOP THEN Unbound ELSE bound[mode][so_far]
          BY <3>3, <4>1, HandleSays
        <5> QED BY <3>2, <3>4, <4>1, <5>1, <5>2, NopAssumption
      <4>2. CASE so_far \notin Sides
        BY <3>2, <3>3, <4>2, HandleElse
      <4> QED BY <4>1, <4>2
    <3>6. meant \in Callbacks <=> callback # Unbound
      BY <3>1, <3>4, <3>5, NopAssumption DEF so_far
    <3>7. meant \in Callbacks => callback = meant
      BY <3>5, NopAssumption
    <3> HIDE DEF callback, meant
    <3>8. CASE meant \in Callbacks
      <4>1. ran' = due' /\ word' = <<>> /\ rest' = "post"
        BY <2>1, <3>1, <3>6, <3>7, <3>8 DEF Runs
      <4> QED BY <4>1 DEF KeysKept, ClearDue
    <3>9. CASE meant \notin Callbacks /\ event = "esc"
      <4>1. ran' = due' /\ word' = <<>> /\ rest' = "clear"
        BY <2>1, <3>1, <3>6, <3>9
      <4> QED BY <4>1 DEF KeysKept, ClearDue
    <3>10. CASE meant \notin Callbacks /\ event # "esc"
      <4>1. /\ ran' = due' /\ word' = so_far /\ rest' = "" /\ queue' = Tail(queue)
            /\ buffer' = so_far
        BY <2>1, <3>1, <3>2, <3>6, <3>10
      <4>2. so_far \in Sides => bound[mode][so_far] \notin Callbacks
        BY <3>1, <3>10 DEF meant, so_far
      <4> QED BY <2>1, <3>1, <3>3, <4>1, <4>2 DEF KeysKept, ClearDue
    <3> QED BY <3>8, <3>9, <3>10
  <2> HIDE DEF keys, callback, so_far, meant
  <2> QED BY <1>2, <2>1, <2>2 DEF ActsInv, Unborn
<1> QED BY <1>4, <1>5

LEMMA StepActs == IInv /\ TablesAgree /\ ActsInv /\ [Next]_vars => ActsInv'
<1> SUFFICES ASSUME IInv, TablesAgree, ActsInv, [Next]_vars PROVE ActsInv'
  OBVIOUS
<1>1. CASE StartThread \/ ConstructCv \/ Constructed \/ EnterScreen \/ Destroy
  BY <1>1, QuietActs DEF StartThread, ConstructCv, Constructed, EnterScreen, Destroy, Closing,
       NotifyLoop, Join, keysVars, modeVars, pastVars, Unborn
<1>2. CASE Bind
  BY <1>2, BindActs
<1>3. CASE RunClear \/ RunExit \/ Finish
  BY <1>3, TaskActs
<1>4. CASE RunTask /\ ~RunClear /\ ~RunExit
  BY <1>4, EventActs
<1>5. CASE LeaveScreen
  BY <1>5 DEF LeaveScreen, ActsInv, Unborn, keysVars, modeVars, pastVars
<1>6. CASE Loop
  BY <1>6, QuietActs DEF Loop, LoopStarts, LoopEnters, LoopChecks, LoopParks, LoopWakes,
       LoopSlept, LoopPosts, uiVars, keysVars, modeVars, pastVars, Tasks, Events, ScreenActive,
       Unborn
<1>7. CASE Outside
  <2>1. ASSUME NEW key \in Keys \cup {"mouse"}, Type(key) PROVE ActsInv'
    <3>1. key \in Tasks \ {"clear"}
      BY LettersAssumption DEF Tasks, Events, Keys
    <3> QED BY <2>1, <3>1, QuietActs DEF Type, ScreenActive, keysVars, modeVars, pastVars, Unborn
  <2>2. CASE Report
    BY <2>2, QuietActs DEF Report, ScreenActive, keysVars, modeVars, pastVars, Tasks, Events,
         Unborn
  <2> QED BY <1>7, <2>1, <2>2 DEF Outside
<1>8. CASE UNCHANGED vars
  BY <1>8, QuietActs DEF vars, keysVars, modeVars, pastVars
<1> QED BY <1>1, <1>2, <1>3, <1>4, <1>5, <1>6, <1>7, <1>8 DEF Next, Construct

(* Every completed key sequence runs its callback once and nothing else     *)
(* runs, for any keys, callbacks and lists of calls, and any order of the   *)
(* two threads - with the two exceptions ActsOnce names (MaybeApplyKeymap). *)
THEOREM Acts == Spec => []ActsOnce
<1>1. ActsInv => ActsOnce
  BY DEF ActsInv, ActsOnce
<1>2. Spec => []ActsInv
  BY InitActs, StepActs, AlwaysIInv, AlwaysTables, PTL DEF Spec
<1> QED BY <1>1, <1>2, PTL
=============================================================================
