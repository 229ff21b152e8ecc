---------------------------- MODULE NodeTreeProofs ----------------------------
(***************************************************************************)
(* Proofs about NodeTree, for any number of threads and moves, any depths   *)
(* and any number of nodes: what the threads point to on each other's       *)
(* stacks is there, and masters that help do not wait for one another.      *)
(***************************************************************************)
EXTENDS NodeTree, TLAPS, WellFoundedInduction

Id == Threads \X (Nat \ {0})

SearchFrames ==
  [kind : {"search"}, pc : {"run", "ran", "begin", "loop", "report", "remove"},
   state : State, node : Id \cup {Nil}, move : BOOLEAN]
NodeFrames ==
  {f \in [kind : {"node"},
          pc : {"first", "search", "update", "next", "split", "ask", "lock", "pool",
                "wait", "sleep", "help"},
          search : Id, depth : Nat, parent : Id \cup {Nil}, cut : BOOLEAN,
          todo : 0 .. MoveCount, move : BOOLEAN, slaves : SUBSET Id,
          stop_point : BOOLEAN, waiting : BOOLEAN, helping : BOOLEAN,
          help : Id \cup {Nil}, asks : Id \cup {Nil}] : f.move => f.todo > 0}
Frames == SearchFrames \cup NodeFrames
Stacks == [Threads -> Seq(Frames)]

Typed == stack \in Stacks /\ idle \subseteq Workers /\ opened \in 0 .. MaxNodes

(* The stacks are built like the tree: at the bottom, and above a master    *)
(* that helps, is a Search; all else is a Node in the Search below it, and   *)
(* its parent is the Node below it or the one that Search serves.           *)
Link(t, i) ==
  LET f == stack[t][i]
      below == stack[t][i - 1]
  IN IF f.kind = "search"
     THEN /\ IF t = Main /\ i = 1 THEN f.node = Nil ELSE IsA("node", f.node)
          /\ i > 1 => below.kind = "node"
     ELSE /\ i > 1
          /\ IF below.kind = "search" THEN f.search = <<t, i - 1>> /\ f.parent = below.node
             ELSE f.search = below.search /\ f.parent = <<t, i - 1>>
          /\ IsA("search", f.search) /\ f.search[1] = t /\ f.search[2] < i
          /\ IF f.parent = Nil THEN f.depth = Depth
             ELSE IsA("node", f.parent) /\ Frame(f.parent).depth = f.depth + 1
Links ==
  stack[Main] # <<>> /\ \A t \in Threads : \A i \in DOMAIN stack[t] : Link(t, i)

(* Where a frame is that is not on top, and what a frame's place in the code *)
(* says about its fields.                                                   *)
Fits(t, i, f) ==
  /\ f.kind = "search" => (f.pc \in {"run", "ran"} <=> t = Main /\ i = 1)
  /\ f.kind = "node" =>
       /\ f.waiting <=> f.pc \in {"sleep", "help"}
       /\ f.pc = "help" => f.helping
       /\ f.helping => f.pc \in {"sleep", "help"}
       /\ f.help # Nil <=> f.helping /\ f.pc = "sleep"
       /\ f.asks # Nil => f.pc \in {"ask", "lock"}
       /\ f.pc = "lock" => f.asks # Nil
Place(t, i) ==
  LET f == stack[t][i]
  IN /\ i < Len(stack[t]) =>
          IF f.kind = "search" THEN f.pc \in {"ran", "report"}
          ELSE f.pc = IF stack[t][i + 1].kind = "search" THEN "help" ELSE "update"
     /\ Fits(t, i, f)
Places == \A t \in Threads : \A i \in DOMAIN stack[t] : Place(t, i)

(* Whom a master helps is below it, whom a node asks is above it.           *)
Target(t, i) ==
  LET f == stack[t][i]
  IN /\ f.kind = "search" /\ i > 1 => <<t, i - 1>> \in Above(f.node)
     /\ f.kind = "node" =>
          /\ f.help # Nil => IsA("node", f.help) /\ <<t, i>> \in Above(f.help)
          /\ f.asks # Nil => f.asks \in Above(<<t, i>>)
Targets == \A t \in Threads : \A i \in DOMAIN stack[t] : Target(t, i)

(* slaves_ has who serves the node, and who is called to.                   *)
Serves(s, n) ==
  \/ IsA("search", s) /\ Frame(s).node = n
  \/ /\ s[2] > 1 /\ IsA("node", <<s[1], s[2] - 1>>)
     /\ Frame(<<s[1], s[2] - 1>>).help = n
SlavesInv ==
  \A n \in NodeIds : \A s \in Id : s \in Frame(n).slaves <=> Serves(s, n)

HasSlaves == \A n \in NodeIds : Frame(n).helping => Frame(n).slaves # {}

IdleInv == \A w \in idle : stack[w] = <<>>

(* The nodes that help, in the order in which they were called: a thread    *)
(* serves, is called to, or is about to lock only a node that does not help *)
(* yet or was called after all nodes that help on the thread's own stack.   *)
Helping(id) == IsA("node", id) /\ Frame(id).helping
Seeks(f) ==
  IF f.kind = "search" THEN f.node
  ELSE IF f.help # Nil THEN f.help ELSE IF f.pc = "lock" THEN f.asks ELSE Nil
Ordered(rank) ==
  \A t \in Threads : \A i, j \in DOMAIN stack[t] :
    LET n == Seeks(stack[t][j])
    IN i <= j /\ Helping(<<t, i>>) /\ n # Nil /\ Helping(n) => rank[<<t, i>>] < rank[n]
Order == \E bound \in Nat : \E rank \in [Id -> 0 .. bound] : Ordered(rank)

IInv == /\ Typed /\ Links /\ Places /\ Targets /\ SlavesInv /\ HasSlaves /\ IdleInv
        /\ Order

-----------------------------------------------------------------------------
(* What is on a stack.                                                      *)

LEMMA NilIsNoId == Nil \notin Id
  BY DEF Nil, Id

LEMMA IdIsPair == \A id \in Id : id = <<id[1], id[2]>> /\ id[1] \in Threads /\ id[2] \in Nat \ {0}
  BY DEF Id

LEMMA Kinds ==
  ASSUME NEW f \in Frames
  PROVE  /\ f.kind \in {"search", "node"}
         /\ f.kind = "search" <=> f \in SearchFrames
         /\ f.kind = "node" <=> f \in NodeFrames
  BY DEF Frames, SearchFrames, NodeFrames

LEMMA Lens ==
  ASSUME NEW s \in Stacks, NEW t \in Threads
  PROVE  /\ s[t] \in Seq(Frames) /\ Len(s[t]) \in Nat
         /\ DOMAIN s[t] = 1 .. Len(s[t])
         /\ \A i \in DOMAIN s[t] : s[t][i] \in Frames /\ <<t, i>> \in Id
         /\ s[t] # <<>> <=> Len(s[t]) \in DOMAIN s[t]
  <1>1. s[t] \in Seq(Frames)
    BY DEF Stacks
  <1>2. /\ Len(s[t]) \in Nat /\ DOMAIN s[t] = 1 .. Len(s[t])
        /\ \A i \in 1 .. Len(s[t]) : s[t][i] \in Frames
        /\ s[t] # <<>> <=> Len(s[t]) # 0
    BY <1>1
  <1>3. \A i \in 1 .. Len(s[t]) : <<t, i>> \in Id
    BY <1>2 DEF Id
  <1> QED BY <1>1, <1>2, <1>3

(* One frame is replaced, pushed or popped.                                 *)
Put(s, t, i, f) == [s EXCEPT ![t][i] = f]
Pop(s, t) == [s EXCEPT ![t] = Popped(@)]

LEMMA Replaced ==
  ASSUME NEW s \in Stacks, NEW t \in Threads, NEW i \in DOMAIN s[t], NEW f \in Frames,
         NEW r, r = Put(s, t, i, f)
  PROVE  /\ r \in Stacks
         /\ \A u \in Threads : DOMAIN r[u] = DOMAIN s[u] /\ Len(r[u]) = Len(s[u])
         /\ \A u \in Threads : \A k \in DOMAIN s[u] :
              r[u][k] = IF u = t /\ k = i THEN f ELSE s[u][k]
  <1> DEFINE q == [s[t] EXCEPT ![i] = f]
  <1>1. s[t] \in Seq(Frames) /\ i \in 1 .. Len(s[t])
    BY Lens
  <1>2. /\ q \in Seq(Frames) /\ Len(q) = Len(s[t]) /\ DOMAIN q = DOMAIN s[t]
        /\ \A k \in DOMAIN s[t] : q[k] = IF k = i THEN f ELSE s[t][k]
    BY <1>1
  <1>3. r = [s EXCEPT ![t] = q]
    BY DEF Put
  <1> HIDE DEF q
  <1>4. r \in Stacks /\ r[t] = q /\ \A u \in Threads \ {t} : r[u] = s[u]
    BY <1>2, <1>3 DEF Stacks
  <1> QED BY <1>2, <1>4

LEMMA Added ==
  ASSUME NEW s \in Stacks, NEW t \in Threads, NEW f \in Frames,
         NEW r, r = Pushed(s, t, f)
  PROVE  /\ r \in Stacks
         /\ Len(r[t]) = Len(s[t]) + 1 /\ DOMAIN r[t] = 1 .. Len(s[t]) + 1
         /\ r[t][Len(s[t]) + 1] = f
         /\ \A k \in DOMAIN s[t] : r[t][k] = s[t][k]
         /\ \A u \in Threads \ {t} : r[u] = s[u]
  <1> DEFINE q == Append(s[t], f)
  <1>1. s[t] \in Seq(Frames)
    BY Lens
  <1>2. /\ q \in Seq(Frames) /\ Len(q) = Len(s[t]) + 1 /\ DOMAIN q = 1 .. Len(s[t]) + 1
        /\ q[Len(s[t]) + 1] = f /\ \A k \in DOMAIN s[t] : q[k] = s[t][k]
    BY <1>1
  <1>3. r = [s EXCEPT ![t] = q]
    BY DEF Pushed
  <1> HIDE DEF q
  <1>4. r \in Stacks /\ r[t] = q /\ \A u \in Threads \ {t} : r[u] = s[u]
    BY <1>2, <1>3 DEF Stacks
  <1> QED BY <1>2, <1>4

LEMMA Removed ==
  ASSUME NEW s \in Stacks, NEW t \in Threads, s[t] # <<>>,
         NEW r, r = Pop(s, t)
  PROVE  /\ r \in Stacks
         /\ Len(r[t]) = Len(s[t]) - 1 /\ DOMAIN r[t] = 1 .. Len(s[t]) - 1
         /\ \A k \in DOMAIN r[t] : r[t][k] = s[t][k]
         /\ \A u \in Threads \ {t} : r[u] = s[u]
  <1> DEFINE q == Popped(s[t])
  <1>1. s[t] \in Seq(Frames) /\ Len(s[t]) \in Nat \ {0}
    BY Lens
  <1>2. /\ q \in Seq(Frames) /\ Len(q) = Len(s[t]) - 1 /\ DOMAIN q = 1 .. Len(s[t]) - 1
        /\ \A k \in DOMAIN q : q[k] = s[t][k]
    BY <1>1 DEF Popped
  <1>3. r = [s EXCEPT ![t] = q]
    BY DEF Pop
  <1> HIDE DEF q
  <1>4. r \in Stacks /\ r[t] = q /\ \A u \in Threads \ {t} : r[u] = s[u]
    BY <1>2, <1>3 DEF Stacks
  <1> QED BY <1>2, <1>4

(* StopAll touches the states of Searches only.                             *)
Halts(s, r) ==
  /\ r \in Stacks
  /\ \A u \in Threads : DOMAIN r[u] = DOMAIN s[u] /\ Len(r[u]) = Len(s[u])
  /\ \A u \in Threads : \A k \in DOMAIN s[u] :
       \/ r[u][k] = s[u][k]
       \/ s[u][k].kind = "search" /\ r[u][k] = [s[u][k] EXCEPT !.state = "STOP_PARALLEL"]

LEMMA Stopped ==
  ASSUME NEW s \in Stacks, NEW S
  PROVE  Halts(s, StopAll(s, S))
  <1> DEFINE r == StopAll(s, S)
  <1> DEFINE b == Below(S)
             g(u, i) == IF <<u, i>> \in b /\ s[u][i].kind = "search"
                        THEN [s[u][i] EXCEPT !.state = "STOP_PARALLEL"] ELSE s[u][i]
  <1>1. r = [u \in Threads |-> [i \in DOMAIN s[u] |-> g(u, i)]]
    BY DEF StopAll
  <1>2. ASSUME NEW u \in Threads, NEW i \in DOMAIN s[u]
        PROVE  /\ g(u, i) \in Frames
               /\ \/ g(u, i) = s[u][i]
                  \/ s[u][i].kind = "search" /\ g(u, i) = [s[u][i] EXCEPT !.state = "STOP_PARALLEL"]
    <2>1. s[u][i] \in Frames
      BY Lens
    <2>2. ASSUME s[u][i].kind = "search"
          PROVE  [s[u][i] EXCEPT !.state = "STOP_PARALLEL"] \in Frames
      <3>1. s[u][i] \in SearchFrames
        BY <2>1, <2>2, Kinds
      <3> QED BY <3>1 DEF Frames, SearchFrames, State
    <2> QED BY <2>1, <2>2
  <1> HIDE DEF g, b
  <1>3. ASSUME NEW u \in Threads
        PROVE  /\ r[u] \in Seq(Frames) /\ DOMAIN r[u] = DOMAIN s[u] /\ Len(r[u]) = Len(s[u])
               /\ \A k \in DOMAIN s[u] : r[u][k] = g(u, k)
    <2>1. DOMAIN s[u] = 1 .. Len(s[u]) /\ Len(s[u]) \in Nat
      BY Lens
    <2>2. r[u] = [i \in 1 .. Len(s[u]) |-> g(u, i)]
      BY <1>1, <2>1
    <2>3. r[u] \in Seq(Frames) /\ Len(r[u]) = Len(s[u])
      BY <1>2, <2>1, <2>2
    <2> QED BY <2>1, <2>2, <2>3
  <1>4. r \in Stacks
    BY <1>1, <1>3 DEF Stacks
  <1> HIDE DEF r
  <1>5. Halts(s, r)
    BY <1>2, <1>3, <1>4 DEF Halts
  <1> QED BY <1>5 DEF r
-----------------------------------------------------------------------------
(* What is where.                                                           *)

Known ==
  /\ NodeIds \subseteq Id
  /\ \A id \in Id : id \in NodeIds <=> IsA("node", id)
  /\ \A id \in Id : \A kind :
       IsA(kind, id) <=> id[2] \in DOMAIN stack[id[1]] /\ Frame(id).kind = kind
  /\ \A t \in Threads : \A i \in DOMAIN stack[t] :
       <<t, i>> \in Id /\ Frame(<<t, i>>) = stack[t][i] /\ stack[t][i] \in Frames

LEMMA Knows == Typed => Known
  <1> SUFFICES ASSUME Typed PROVE Known
    OBVIOUS
  <1>1. \A id \in Id : \A kind :
          IsA(kind, id) <=> id[2] \in DOMAIN stack[id[1]] /\ Frame(id).kind = kind
    BY NilIsNoId DEF IsA
  <1>2. \A t \in Threads : \A i \in DOMAIN stack[t] :
          <<t, i>> \in Id /\ Frame(<<t, i>>) = stack[t][i] /\ stack[t][i] \in Frames
    BY Lens DEF Typed, Frame
  <1>3. Ids \subseteq Id
    BY <1>2 DEF Ids
  <1>4. ASSUME NEW id \in Id, id[2] \in DOMAIN stack[id[1]]
        PROVE  id \in Ids
    <2>1. id = <<id[1], id[2]>> /\ id[1] \in Threads
      BY IdIsPair
    <2> QED BY <1>4, <2>1 DEF Ids
  <1>5. \A id \in Id : id \in NodeIds <=> IsA("node", id)
    BY <1>1, <1>4 DEF NodeIds
  <1> QED BY <1>1, <1>2, <1>3, <1>5 DEF NodeIds, Known

LEMMA KnowsNext == Typed' => Known'
  BY Knows, PTL

LEMMA ParentsAreNodes ==
  ASSUME Typed, Links
  PROVE  /\ \A n \in NodeIds : Frame(n).parent \in NodeIds \cup {Nil}
         /\ \A n \in NodeIds : Frame(n) \in NodeFrames
  <1> SUFFICES ASSUME NEW n \in NodeIds
               PROVE  Frame(n).parent \in NodeIds \cup {Nil} /\ Frame(n) \in NodeFrames
    OBVIOUS
  <1>1. /\ n \in Id /\ n[1] \in Threads /\ n[2] \in DOMAIN stack[n[1]]
        /\ Frame(n).kind = "node" /\ Frame(n) = stack[n[1]][n[2]]
    BY Knows, IdIsPair DEF Known, Frame
  <1>2. Frame(n) \in NodeFrames
    <2>1. Frame(n) \in Frames
      BY <1>1, Lens DEF Typed
    <2> QED BY <1>1, <2>1, Kinds
  <1>3. Frame(n).parent = Nil \/ IsA("node", Frame(n).parent)
    BY <1>1 DEF Links, Link
  <1>4. Frame(n).parent \in Id \cup {Nil}
    BY <1>2 DEF NodeFrames
  <1> QED BY <1>2, <1>3, <1>4, Knows DEF Known

-----------------------------------------------------------------------------
(* The chain of parents.                                                    *)

LEMMA AboveStarts ==
  ASSUME Typed, Links, NEW x \in NodeIds, Frame(x).parent # Nil
  PROVE  Frame(x).parent \in Above(x)
  BY ParentsAreNodes DEF Above, Parents

LEMMA AboveGoesOn ==
  ASSUME Typed, Links, NEW x \in NodeIds, NEW a \in Above(x), Frame(a).parent # Nil
  PROVE  Frame(a).parent \in Above(x)
  BY ParentsAreNodes DEF Above, Parents

LEMMA AboveIsParent ==
  ASSUME Typed, Links, NEW x \in NodeIds, NEW a \in Above(x)
  PROVE  a \in NodeIds /\ \E c \in NodeIds : Frame(c).parent = a
  <1> DEFINE C == {n \in NodeIds : \E c \in NodeIds : Frame(c).parent = n}
  <1>1. Parents({x} \cup C) \subseteq C
    BY ParentsAreNodes DEF Parents
  <1> QED BY <1>1 DEF Above

(* It stays while the nodes keep their parents.                             *)
LEMMA AboveStays ==
  ASSUME Typed, Links, Typed', NEW x \in NodeIds, NEW a \in Above(x),
         x \in NodeIds', a \in NodeIds',
         \A n \in NodeIds : n \in NodeIds' => Frame(n)'.parent = Frame(n).parent
  PROVE  a \in Above(x)'
  <1> SUFFICES ASSUME NEW C \in SUBSET NodeIds', Parents({x} \cup C)' \subseteq C
               PROVE  a \in C
    BY DEF Above
  <1>1. ASSUME NEW n \in {x} \cup (C \cap NodeIds), Frame(n).parent # Nil
        PROVE  Frame(n).parent \in C \cap NodeIds
    <2>1. n \in NodeIds /\ n \in NodeIds' /\ Frame(n)'.parent = Frame(n).parent
      OBVIOUS
    <2>2. Frame(n)'.parent \in C
      BY <1>1, <2>1 DEF Parents
    <2> QED BY <1>1, <2>1, <2>2, ParentsAreNodes
  <1>2. Parents({x} \cup (C \cap NodeIds)) \subseteq C \cap NodeIds
    BY <1>1 DEF Parents
  <1> QED BY <1>2 DEF Above
(* Who points to a node.                                                    *)
Unused(n) ==
  \A t \in Threads : \A i \in DOMAIN stack[t] :
    LET f == stack[t][i]
    IN /\ f.kind = "search" => f.node # n
       /\ f.kind = "node" => f.parent # n /\ f.help # n /\ f.asks # n

-----------------------------------------------------------------------------
(* Steps: no frame changes its place in the tree, and what a step leaves    *)
(* behind on a stack is as it was but for the order of stops and moves.     *)

SameLinks(f, g) ==
  /\ g.kind = f.kind
  /\ f.kind = "search" => g.node = f.node
  /\ f.kind = "node" => g.search = f.search /\ g.parent = f.parent /\ g.depth = f.depth
SameHelp(f, g) ==
  f.kind = "node" => g.slaves = f.slaves /\ g.help = f.help /\ (g.helping => f.helping)
Same(f, g) ==
  /\ SameLinks(f, g) /\ g.pc = f.pc
  /\ f.kind = "node" => /\ g.waiting = f.waiting /\ g.helping = f.helping
                        /\ g.help = f.help /\ g.asks = f.asks
Kept(f, g) == Same(f, g) /\ SameHelp(f, g)

Evolves ==
  \A u \in Threads : \A k \in DOMAIN stack[u] \cap DOMAIN stack'[u] :
    SameLinks(stack[u][k], stack'[u][k])

LEMMA EvolvesNodes ==
  ASSUME Typed, Typed', Evolves, NEW id \in Id,
         id[2] \in DOMAIN stack[id[1]], id[2] \in DOMAIN stack'[id[1]]
  PROVE  /\ SameLinks(Frame(id), Frame(id)')
         /\ id \in NodeIds' <=> id \in NodeIds
         /\ \A kind : IsA(kind, id)' <=> IsA(kind, id)
  <1>1. SameLinks(Frame(id), Frame(id)')
    BY IdIsPair DEF Evolves, Frame
  <1>2. \A kind : IsA(kind, id)' <=> IsA(kind, id)
    BY <1>1, NilIsNoId DEF IsA, SameLinks
  <1>3. (id \in NodeIds <=> IsA("node", id)) /\ (id \in NodeIds' <=> IsA("node", id)')
    BY Knows, KnowsNext DEF Known
  <1> QED BY <1>1, <1>2, <1>3

LEMMA NodesStay ==
  ASSUME Typed, Typed', Evolves, NEW n \in NodeIds
  PROVE  /\ n \in NodeIds' <=> n[2] \in DOMAIN stack'[n[1]]
         /\ n \in NodeIds' => SameLinks(Frame(n), Frame(n)')
  <1>1. n \in Id /\ n[2] \in DOMAIN stack[n[1]]
    BY Knows DEF Known
  <1>2. n \in NodeIds' => n[2] \in DOMAIN stack'[n[1]]
    BY <1>1, KnowsNext DEF Known
  <1> QED BY <1>1, <1>2, EvolvesNodes

LEMMA AboveKept ==
  ASSUME Typed, Links, Typed', Evolves, NEW x \in NodeIds, NEW a \in Above(x),
         x \in NodeIds', a \in NodeIds'
  PROVE  a \in Above(x)'
  <1>1. \A n \in NodeIds : n \in NodeIds' => Frame(n)'.parent = Frame(n).parent
    <2> SUFFICES ASSUME NEW n \in NodeIds, n \in NodeIds'
                 PROVE  Frame(n)'.parent = Frame(n).parent
      OBVIOUS
    <2>1. Frame(n).kind = "node"
      BY Knows DEF Known
    <2> QED BY <2>1, NodesStay DEF SameLinks
  <1> QED BY <1>1, AboveStays

LEMMA LinksStay ==
  ASSUME Typed, Typed', Links, Evolves, stack'[Main] # <<>>,
         \A n \in NodeIds : n \in NodeIds' \/ Unused(n),
         \A t \in Threads : \A i \in DOMAIN stack'[t] \ DOMAIN stack[t] : Link(t, i)'
  PROVE  Links'
  <1> SUFFICES ASSUME NEW t \in Threads, NEW i \in DOMAIN stack'[t]
               PROVE  Link(t, i)'
    BY DEF Links
  <1> SUFFICES ASSUME i \in DOMAIN stack[t] PROVE Link(t, i)'
    OBVIOUS
  <1> DEFINE f == stack[t][i]
             b == stack[t][i - 1]
             f1 == stack'[t][i]
             b1 == stack'[t][i - 1]
  <1>1. /\ i \in 1 .. Len(stack[t]) /\ Len(stack[t]) \in Nat
        /\ i \in 1 .. Len(stack'[t]) /\ Len(stack'[t]) \in Nat
        /\ DOMAIN stack[t] = 1 .. Len(stack[t]) /\ DOMAIN stack'[t] = 1 .. Len(stack'[t])
    BY Lens DEF Typed
  <1>2. f \in Frames /\ SameLinks(f, f1)
    BY Lens DEF Evolves, Typed
  <1>3. i > 1 => b \in Frames /\ SameLinks(b, b1)
    <2>1. i > 1 => i - 1 \in DOMAIN stack[t] \cap DOMAIN stack'[t]
      BY <1>1
    <2> QED BY <2>1, Lens DEF Evolves, Typed
  <1>4. IF f.kind = "search"
        THEN /\ IF t = Main /\ i = 1 THEN f.node = Nil ELSE IsA("node", f.node)
             /\ i > 1 => b.kind = "node"
        ELSE /\ i > 1
             /\ IF b.kind = "search" THEN f.search = <<t, i - 1>> /\ f.parent = b.node
                ELSE f.search = b.search /\ f.parent = <<t, i - 1>>
             /\ IsA("search", f.search) /\ f.search[1] = t /\ f.search[2] < i
             /\ IF f.parent = Nil THEN f.depth = Depth
                ELSE IsA("node", f.parent) /\ Frame(f.parent).depth = f.depth + 1
    BY DEF Links, Link
  <1>5. /\ f.kind \in {"search", "node"} /\ (i > 1 => b.kind \in {"search", "node"})
        /\ f.kind = "search" => f.node \in Id \cup {Nil}
        /\ f.kind = "node" => f.search \in Id /\ f.parent \in Id \cup {Nil}
    BY <1>2, <1>3, Kinds DEF SearchFrames, NodeFrames
  <1>6. ASSUME NEW n \in Id, IsA("node", n), ~Unused(n)
        PROVE  IsA("node", n)' /\ Frame(n)'.depth = Frame(n).depth
    <2>1. n \in NodeIds /\ n \in NodeIds' /\ Frame(n).kind = "node"
      BY <1>6, Knows DEF Known
    <2> QED BY <2>1, NodesStay, KnowsNext DEF Known, SameLinks
  <1>7. ASSUME NEW s \in Id, f.kind = "node", s = f.search
        PROVE  IsA("search", s)'
    <2>1. IsA("search", s) /\ s[1] = t /\ s[2] < i /\ s[2] \in Nat \ {0}
      BY <1>4, <1>7, IdIsPair
    <2>2. s[2] \in DOMAIN stack[s[1]] /\ s[2] \in DOMAIN stack'[s[1]]
      BY <1>1, <2>1
    <2> QED BY <2>1, <2>2, EvolvesNodes
  <1>8. CASE f.kind = "search"
    <2>1. ASSUME NEW n \in Id, n = f.node PROVE IsA("node", n)'
      <3>1. IsA("node", n) /\ ~Unused(n)
        BY <1>4, <1>5, <1>8, <2>1, NilIsNoId DEF Unused
      <3> QED BY <1>6, <3>1
    <2>2. ~(t = Main /\ i = 1) => f.node \in Id
      BY <1>4, <1>5, <1>8 DEF IsA
    <2> QED BY <1>2, <1>3, <1>4, <1>8, <2>1, <2>2 DEF Link, SameLinks
  <1>9. CASE f.kind = "node"
    <2>1. ASSUME NEW n \in Id, n = f.parent
          PROVE  IsA("node", n)' /\ Frame(n)'.depth = f.depth + 1
      <3>1. IsA("node", n) /\ ~Unused(n) /\ Frame(n).depth = f.depth + 1
        BY <1>4, <1>5, <1>9, <2>1, NilIsNoId DEF Unused
      <3> QED BY <1>6, <3>1
    <2>2. b1.kind = b.kind /\ (b.kind = "search" => b1.node = b.node)
          /\ (b.kind = "node" => b1.search = b.search)
      BY <1>3, <1>4, <1>9 DEF SameLinks
    <2>3. f1.kind = "node" /\ f1.search = f.search /\ f1.parent = f.parent /\ f1.depth = f.depth
      BY <1>2, <1>9 DEF SameLinks
    <2>4. b.kind \in {"search", "node"}
      BY <1>4, <1>5, <1>9
    <2> QED BY <1>4, <1>5, <1>7, <1>9, <2>1, <2>2, <2>3, <2>4 DEF Link
  <1> QED BY <1>5, <1>8, <1>9

LEMMA TargetsStay ==
  ASSUME Typed, Typed', Links, Links', Targets, Evolves,
         \A n \in NodeIds : n \in NodeIds' \/ Unused(n),
         \A t \in Threads : \A i \in DOMAIN stack'[t] \ DOMAIN stack[t] : Target(t, i)',
         \A t \in Threads : \A i \in DOMAIN stack[t] \cap DOMAIN stack'[t] :
           stack[t][i].kind = "node" =>
             /\ \/ stack'[t][i].help \in {stack[t][i].help, Nil}
                \/ /\ stack'[t][i].help \in NodeIds \cap NodeIds'
                   /\ <<t, i>> \in Above(stack'[t][i].help)
             /\ \/ stack'[t][i].asks \in {stack[t][i].asks, Nil}
                \/ stack'[t][i].asks \in Above(<<t, i>>) \cap NodeIds'
  PROVE  Targets'
  <1> SUFFICES ASSUME NEW t \in Threads, NEW i \in DOMAIN stack'[t], i \in DOMAIN stack[t]
               PROVE  Target(t, i)'
    BY DEF Targets
  <1> DEFINE f == stack[t][i]
             g == stack'[t][i]
  <1>1. /\ i \in Nat \ {0} /\ <<t, i>> \in Id
        /\ i > 1 => i - 1 \in DOMAIN stack[t] /\ i - 1 \in DOMAIN stack'[t]
    BY Lens DEF Typed
  <1>2. Target(t, i) /\ Link(t, i)
    BY DEF Targets, Links
  <1>3. f \in Frames /\ g \in Frames /\ SameLinks(f, g)
    BY Lens DEF Evolves, Typed
  <1>4. ASSUME NEW x \in NodeIds, x \in NodeIds', NEW a \in Above(x), a \in NodeIds'
        PROVE  a \in Above(x)'
    BY <1>4, AboveKept
  <1>5. CASE f.kind = "search"
    <2>1. g.kind = "search" /\ g.node = f.node
      BY <1>3, <1>5 DEF SameLinks
    <2>2. ASSUME i > 1, NEW n \in Id, n = f.node
          PROVE  <<t, i - 1>> \in Above(n)'
      <3>1. n \in NodeIds /\ ~Unused(n)
        BY <1>2, <1>5, <2>2, Knows DEF Link, Unused, Known
      <3>2. <<t, i - 1>> \in Above(n)
        BY <1>2, <1>5, <2>2 DEF Target
      <3>3. <<t, i - 1>> \in NodeIds
        BY <3>2 DEF Above
      <3>4. <<t, i - 1>> \in NodeIds'
        BY <1>1, <2>2, <3>3, NodesStay
      <3> QED BY <1>4, <3>1, <3>2, <3>4
    <2>3. i > 1 => f.node \in Id
      <3>1. i > 1 => IsA("node", f.node)
        BY <1>2, <1>5 DEF Link
      <3>2. f.node \in Id \cup {Nil}
        BY <1>3, <1>5, Kinds DEF SearchFrames
      <3> QED BY <3>1, <3>2 DEF IsA
    <2> QED BY <2>1, <2>2, <2>3 DEF Target
  <1>6. CASE f.kind = "node"
    <2>1. g.kind = "node" /\ <<t, i>> \in NodeIds /\ <<t, i>> \in NodeIds'
      <3>1. <<t, i>> \in NodeIds
        BY <1>1, <1>6, Knows DEF Known, Frame, IsA
      <3> QED BY <1>3, <1>6, <3>1, NodesStay DEF SameLinks
    <2>2. ASSUME NEW n \in Id, n = g.help
          PROVE  IsA("node", n)' /\ <<t, i>> \in Above(n)'
      <3>1. n \in NodeIds /\ n \in NodeIds' /\ <<t, i>> \in Above(n)
        <4>1. CASE n = f.help
          <5>1. IsA("node", n) /\ <<t, i>> \in Above(n) /\ ~Unused(n)
            BY <1>2, <1>6, <2>2, <4>1, NilIsNoId DEF Target, Unused
          <5> QED BY <2>2, <5>1, Knows DEF Known
        <4> QED BY <1>6, <2>2, <4>1, NilIsNoId
      <3>2. <<t, i>> \in Above(n)'
        BY <1>4, <2>1, <3>1
      <3> QED BY <3>1, <3>2, KnowsNext DEF Known
    <2>3. ASSUME NEW n \in Id, n = g.asks
          PROVE  n \in Above(<<t, i>>)'
      <3>1. n \in Above(<<t, i>>) /\ n \in NodeIds'
        <4>1. CASE n = f.asks
          <5>1. n \in Above(<<t, i>>) /\ ~Unused(n)
            BY <1>2, <1>6, <2>3, <4>1, NilIsNoId DEF Target, Unused
          <5> QED BY <5>1 DEF Above
        <4> QED BY <1>6, <2>3, <4>1, NilIsNoId
      <3> QED BY <1>4, <2>1, <3>1
    <2>4. g.help \in Id \cup {Nil} /\ g.asks \in Id \cup {Nil}
      BY <1>3, <2>1, Kinds DEF NodeFrames
    <2> QED BY <2>1, <2>2, <2>3, <2>4 DEF Target
  <1> QED BY <1>3, <1>5, <1>6, Kinds

LEMMA PlacesStay ==
  ASSUME Typed, Typed', Places,
         \A u \in Threads : \A i \in DOMAIN stack'[u] :
           \/ Place(u, i)'
           \/ /\ i \in DOMAIN stack[u] /\ Same(stack[u][i], stack'[u][i])
              /\ i < Len(stack'[u]) =>
                   i < Len(stack[u]) /\ stack'[u][i + 1].kind = stack[u][i + 1].kind
  PROVE  Places'
  <1> SUFFICES ASSUME NEW u \in Threads, NEW i \in DOMAIN stack'[u],
                      i \in DOMAIN stack[u], Same(stack[u][i], stack'[u][i]),
                      i < Len(stack'[u]) =>
                        i < Len(stack[u]) /\ stack'[u][i + 1].kind = stack[u][i + 1].kind
               PROVE  Place(u, i)'
    BY DEF Places
  <1>1. Place(u, i) /\ stack[u][i].kind \in {"search", "node"}
    BY Lens, Kinds DEF Places, Typed
  <1> QED BY <1>1 DEF Place, Fits, Same, SameLinks

(* The order of the calls stays if nobody new helps, and nobody seeks a     *)
(* node that helps but whom the thread sought before.                       *)
LEMMA OrderStays ==
  ASSUME Typed, Typed', Order,
         \A id \in Id : Helping(id)' => Helping(id),
         \A t \in Threads : \A j \in DOMAIN stack'[t] :
           \/ Seeks(stack'[t][j]) = Nil
           \/ Seeks(stack'[t][j]) \in Id /\ ~Helping(Seeks(stack'[t][j]))
           \/ \A i \in DOMAIN stack'[t] : i <= j => ~Helping(<<t, i>>)
           \/ \E k \in DOMAIN stack[t] :
                /\ Seeks(stack[t][k]) = Seeks(stack'[t][j])
                /\ Seeks(stack[t][k]) \in Id
                /\ \A i \in DOMAIN stack'[t] : i <= j /\ Helping(<<t, i>>)' => i <= k
  PROVE  Order'
  <1>1. PICK bound \in Nat : \E rank \in [Id -> 0 .. bound] : Ordered(rank)
    BY DEF Order
  <1>2. PICK rank \in [Id -> 0 .. bound] : Ordered(rank)
    BY <1>1
  <1>3. Ordered(rank)'
    <2> SUFFICES ASSUME NEW t \in Threads, NEW i \in DOMAIN stack'[t], NEW j \in DOMAIN stack'[t],
                        NEW n, n = Seeks(stack'[t][j]),
                        i <= j, Helping(<<t, i>>)', n # Nil, Helping(n)'
                 PROVE  rank[<<t, i>>] < rank[n]
      BY DEF Ordered
    <2>1. <<t, i>> \in Id
      BY Lens DEF Typed
    <2>2. Helping(<<t, i>>) /\ i \in DOMAIN stack[t]
      <3>1. Helping(<<t, i>>)
        BY <2>1
      <3> QED BY <3>1 DEF Helping, IsA
    <2>3. CASE n \in Id /\ ~Helping(n)
      BY <2>3
    <2>4. CASE \E k \in DOMAIN stack[t] :
                /\ Seeks(stack[t][k]) = n /\ n \in Id
                /\ \A l \in DOMAIN stack'[t] : l <= j /\ Helping(<<t, l>>)' => l <= k
      <3>1. PICK k \in DOMAIN stack[t] :
                /\ Seeks(stack[t][k]) = n /\ n \in Id
                /\ \A l \in DOMAIN stack'[t] : l <= j /\ Helping(<<t, l>>)' => l <= k
        BY <2>4
      <3>2. i <= k /\ Helping(n)
        BY <3>1
      <3> QED BY <1>2, <2>2, <3>1, <3>2 DEF Ordered
    <2> QED BY <2>2, <2>3, <2>4
  <1> QED BY <1>3 DEF Order

-----------------------------------------------------------------------------
(* Steps of a thread on the frame on its top that push and pop nothing.     *)

LEMMA OnTop ==
  ASSUME Typed, NEW t \in Threads, stack[t] # <<>>
  PROVE  /\ Len(stack[t]) \in DOMAIN stack[t] /\ Len(stack[t]) \in Nat \ {0}
         /\ Top(t) = <<t, Len(stack[t])>> /\ Top(t) \in Id
         /\ Top(t)[1] = t /\ Top(t)[2] = Len(stack[t])
         /\ Frame(Top(t)) = stack[t][Len(stack[t])] /\ Frame(Top(t)) \in Frames
  BY Lens DEF Typed, Top, Frame

LEMMA NodeOnTop ==
  ASSUME Typed, NEW t \in Threads, NEW pc, At(t, "node", pc)
  PROVE  /\ stack[t] # <<>> /\ Top(t) \in NodeIds
         /\ Frame(Top(t)) \in NodeFrames /\ Frame(Top(t)).pc = pc
         /\ Frame(Top(t)).kind = "node"
  <1>1. stack[t] # <<>> /\ Frame(Top(t)).kind = "node" /\ Frame(Top(t)).pc = pc
    BY DEF At
  <1>2. Frame(Top(t)) \in NodeFrames
    BY <1>1, OnTop, Kinds
  <1>3. Top(t) \in NodeIds
    BY <1>1, OnTop, Knows DEF Known
  <1> QED BY <1>1, <1>2, <1>3

LEMMA SearchOnTop ==
  ASSUME Typed, NEW t \in Threads, NEW pc, At(t, "search", pc)
  PROVE  /\ stack[t] # <<>> /\ Top(t) \notin NodeIds
         /\ Frame(Top(t)) \in SearchFrames /\ Frame(Top(t)).pc = pc
         /\ Frame(Top(t)).kind = "search"
  <1>1. stack[t] # <<>> /\ Frame(Top(t)).kind = "search" /\ Frame(Top(t)).pc = pc
    BY DEF At
  <1>2. Frame(Top(t)) \in SearchFrames
    BY <1>1, OnTop, Kinds
  <1>3. Top(t) \notin NodeIds
    BY <1>1, OnTop, Knows DEF Known
  <1> QED BY <1>1, <1>2, <1>3

Elsewhere(t) ==
  \A u \in Threads : \A k \in DOMAIN stack[u] \cap DOMAIN stack'[u] :
    <<u, k>> # <<t, Len(stack[t])>> => Kept(stack[u][k], stack'[u][k])

(* The frame on top of t is now g, and otherwise only stops and moves differ. *)
Calm(t, g) ==
  /\ \A u \in Threads : DOMAIN stack'[u] = DOMAIN stack[u]
  /\ Elsewhere(t)
  /\ stack'[t][Len(stack[t])] = g
  /\ SameLinks(stack[t][Len(stack[t])], g) /\ SameHelp(stack[t][Len(stack[t])], g)

LEMMA CalmIs ==
  ASSUME Typed, Typed', NEW t \in Threads, stack[t] # <<>>, NEW g, Calm(t, g)
  PROVE  /\ Evolves
         /\ \A u \in Threads : Len(stack'[u]) = Len(stack[u])
         /\ \A u \in Threads : \A k \in DOMAIN stack[u] : SameHelp(stack[u][k], stack'[u][k])
         /\ NodeIds' = NodeIds
         /\ \A id \in Id : \A kind : IsA(kind, id)' <=> IsA(kind, id)
         /\ \A id \in Id : id[2] \in DOMAIN stack[id[1]] =>
              SameLinks(Frame(id), Frame(id)') /\ SameHelp(Frame(id), Frame(id)')
  <1>1. Evolves /\ \A u \in Threads : \A k \in DOMAIN stack[u] :
                     SameHelp(stack[u][k], stack'[u][k])
    BY DEF Calm, Elsewhere, Evolves, Same, Kept
  <1>2. \A u \in Threads : Len(stack'[u]) = Len(stack[u])
    <2> TAKE u \in Threads
    <2>1. /\ DOMAIN stack'[u] = 1 .. Len(stack'[u]) /\ Len(stack'[u]) \in Nat
          /\ DOMAIN stack[u] = 1 .. Len(stack[u]) /\ Len(stack[u]) \in Nat
      BY Lens DEF Typed
    <2>2. 1 .. Len(stack'[u]) = 1 .. Len(stack[u])
      BY <2>1 DEF Calm
    <2> QED BY <2>1, <2>2
  <1>3. ASSUME NEW id \in Id
        PROVE  /\ \A kind : IsA(kind, id)' <=> IsA(kind, id)
               /\ id[2] \in DOMAIN stack[id[1]] =>
                    SameLinks(Frame(id), Frame(id)') /\ SameHelp(Frame(id), Frame(id)')
    <2>1. id[1] \in Threads /\ DOMAIN stack'[id[1]] = DOMAIN stack[id[1]]
      BY IdIsPair DEF Calm
    <2>2. CASE id[2] \in DOMAIN stack[id[1]]
      BY <1>1, <2>1, <2>2, EvolvesNodes DEF Frame
    <2>3. CASE id[2] \notin DOMAIN stack[id[1]]
      BY <2>1, <2>3, NilIsNoId DEF IsA
    <2> QED BY <2>2, <2>3
  <1>4. NodeIds' = NodeIds
    BY <1>3, Knows, KnowsNext DEF Known
  <1> QED BY <1>1, <1>2, <1>3, <1>4

LEMMA CalmKeepsSlaves ==
  ASSUME Typed, Typed', SlavesInv, HasSlaves,
         NEW t \in Threads, stack[t] # <<>>, NEW g, Calm(t, g)
  PROVE  SlavesInv' /\ HasSlaves'
  <1>1. \A n \in NodeIds : /\ Frame(n)'.slaves = Frame(n).slaves
                           /\ Frame(n)'.helping => Frame(n).helping
                           /\ Frame(n)'.help = Frame(n).help
    BY CalmIs, Knows DEF Known, SameHelp
  <1>2. \A s \in Id : IsA("search", s) => Frame(s)'.node = Frame(s).node
    BY CalmIs, Knows DEF Known, SameLinks
  <1>3. ASSUME NEW s \in Id, NEW n \in Id
        PROVE  Serves(s, n)' <=> Serves(s, n)
    <2>1. s[2] > 1 => <<s[1], s[2] - 1>> \in Id
      BY DEF Id
    <2>2. s[2] > 1 /\ IsA("node", <<s[1], s[2] - 1>>) => <<s[1], s[2] - 1>> \in NodeIds
      BY <2>1, Knows DEF Known
    <2> QED BY <1>1, <1>2, <2>1, <2>2, CalmIs DEF Serves
  <1>4. NodeIds' = NodeIds /\ NodeIds \subseteq Id
    BY CalmIs, Knows DEF Known
  <1> QED BY <1>1, <1>3, <1>4 DEF SlavesInv, HasSlaves

LEMMA CalmKeepsOrder ==
  ASSUME Typed, Typed', Order, NEW t \in Threads, stack[t] # <<>>, NEW g, Calm(t, g),
         Places, Fits(t, Len(stack[t]), g),
         g.kind = "node" /\ g.pc = "lock" => g.asks \in Id /\ ~Helping(g.asks)
  PROVE  Order'
  <1>1. \A id \in Id : Helping(id)' => Helping(id)
    BY CalmIs, ZenonT(40) DEF Helping, SameHelp, IsA
  <1>2. ASSUME NEW u \in Threads, NEW j \in DOMAIN stack'[u]
        PROVE  \/ Seeks(stack'[u][j]) = Nil
               \/ Seeks(stack'[u][j]) \in Id /\ ~Helping(Seeks(stack'[u][j]))
               \/ \E k \in DOMAIN stack[u] :
                    /\ Seeks(stack[u][k]) = Seeks(stack'[u][j])
                    /\ Seeks(stack[u][k]) \in Id
                    /\ \A i \in DOMAIN stack'[u] : i <= j /\ Helping(<<u, i>>)' => i <= k
    <2> DEFINE f == stack[u][j]
               h == stack'[u][j]
    <2>1. j \in DOMAIN stack[u] /\ f \in Frames /\ h \in Frames /\ SameLinks(f, h)
          /\ SameHelp(f, h)
      BY CalmIs, Lens DEF Typed, Calm, Evolves
    <2>2. Seeks(f) \in Id \cup {Nil}
      BY <2>1, Kinds DEF Seeks, SearchFrames, NodeFrames
    <2>3. CASE Seeks(h) = Seeks(f)
      BY <2>1, <2>2, <2>3
    <2>4. CASE <<u, j>> # <<t, Len(stack[t])>>
      <3>1. Kept(f, h)
        BY <2>1, <2>4 DEF Calm, Elsewhere
      <3>2. Seeks(h) = Seeks(f)
        BY <2>1, <3>1, Kinds DEF Kept, Same, SameLinks, SameHelp, Seeks
      <3> QED BY <2>3, <3>2
    <2>5. CASE <<u, j>> = <<t, Len(stack[t])>> /\ Seeks(h) # Seeks(f)
      <3>1. h = g /\ h.kind = "node" /\ h.help = f.help /\ h.kind = f.kind
        BY <2>1, <2>5, Kinds DEF Calm, SameLinks, SameHelp, Seeks
      <3>2. h.help = Nil
        BY <2>5, <3>1 DEF Seeks
      <3>3. Seeks(h) = IF h.pc = "lock" THEN h.asks ELSE Nil
        BY <3>1, <3>2 DEF Seeks
      <3> QED BY <3>1, <3>3
    <2> QED BY <2>3, <2>4, <2>5
  <1> QED BY <1>1, <1>2, OrderStays

LEMMA CalmStep ==
  ASSUME IInv, Typed', idle' \subseteq idle,
         NEW t \in Threads, stack[t] # <<>>, NEW g, Calm(t, g), Fits(t, Len(stack[t]), g),
         g.kind = "node" => g.asks \in {stack[t][Len(stack[t])].asks, Nil} \cup Above(Top(t)),
         g.kind = "node" /\ g.pc = "lock" => g.asks \in Id /\ ~Helping(g.asks)
  PROVE  IInv'
  <1> USE DEF IInv
  <1> DEFINE l == Len(stack[t])
  <1>1. /\ Evolves /\ NodeIds' = NodeIds
        /\ \A u \in Threads : DOMAIN stack'[u] = DOMAIN stack[u] /\ Len(stack'[u]) = Len(stack[u])
    BY CalmIs DEF Calm
  <1>2. Links'
    <2>1. stack'[Main] # <<>>
      <3>1. Main \in Threads
        BY DEF Threads
      <3> QED BY <1>1, <3>1, Lens DEF Links, Typed
    <2> QED BY <1>1, <2>1, LinksStay
  <1>3. Places'
    <2> SUFFICES ASSUME NEW u \in Threads, NEW i \in DOMAIN stack'[u]
                 PROVE  \/ Place(u, i)'
                        \/ /\ i \in DOMAIN stack[u] /\ Same(stack[u][i], stack'[u][i])
                           /\ i < Len(stack'[u]) =>
                                /\ i < Len(stack[u])
                                /\ stack'[u][i + 1].kind = stack[u][i + 1].kind
      BY PlacesStay
    <2>1. CASE u = t /\ i = l
      <3>1. ~(l < Len(stack'[t])) /\ stack'[t][l] = g
        BY <1>1, Lens DEF Calm, Typed
      <3> QED BY <2>1, <3>1 DEF Place
    <2>2. CASE <<u, i>> # <<t, l>>
      <3>1. i \in DOMAIN stack[u] /\ Same(stack[u][i], stack'[u][i])
        BY <1>1, <2>2 DEF Calm, Elsewhere, Kept
      <3>2. i < Len(stack[u]) => i + 1 \in DOMAIN stack[u]
        BY <3>1, Lens DEF Typed
      <3> QED BY <1>1, <3>1, <3>2 DEF Evolves, SameLinks
    <2> QED BY <2>1, <2>2
  <1>4. Targets'
    <2> SUFFICES ASSUME NEW u \in Threads, NEW i \in DOMAIN stack[u], stack[u][i].kind = "node"
                 PROVE  /\ stack'[u][i].help \in {stack[u][i].help, Nil}
                        /\ \/ stack'[u][i].asks \in {stack[u][i].asks, Nil}
                           \/ stack'[u][i].asks \in Above(<<u, i>>) \cap NodeIds'
      BY <1>1, <1>2, TargetsStay
    <2>1. CASE u = t /\ i = l
      BY <1>1, <2>1, OnTop DEF Calm, SameHelp, SameLinks, Above
    <2>2. CASE <<u, i>> # <<t, l>>
      BY <1>1, <2>2 DEF Calm, Elsewhere, Kept, Same, SameHelp
    <2> QED BY <2>1, <2>2
  <1>5. SlavesInv' /\ HasSlaves'
    BY CalmKeepsSlaves
  <1>6. IdleInv'
    <2> SUFFICES ASSUME NEW w \in idle PROVE stack'[w] = <<>>
      BY DEF IdleInv
    <2>1. w \in Threads /\ stack[w] = <<>>
      BY DEF Typed, IdleInv, Threads
    <2> QED BY <1>1, <2>1, Lens DEF Typed
  <1>7. Order'
    BY CalmKeepsOrder
  <1> QED BY <1>2, <1>3, <1>4, <1>5, <1>6, <1>7

LEMMA SameIsSame ==
  ASSUME NEW f \in Frames
  PROVE  /\ Kept(f, f)
         /\ f.kind = "search" =>
              \A state \in State : LET g == [f EXCEPT !.state = state]
                                   IN g \in Frames /\ Kept(f, g)
  <1>1. Kept(f, f)
    BY DEF Kept, Same, SameLinks, SameHelp
  <1>2. ASSUME f.kind = "search", NEW state \in State
        PROVE  /\ [f EXCEPT !.state = state] \in Frames
               /\ Kept(f, [f EXCEPT !.state = state])
    <2>1. f \in SearchFrames
      BY <1>2, Kinds
    <2> QED BY <1>2, <2>1 DEF SearchFrames, Frames, Kept, Same, SameLinks, SameHelp
  <1> QED BY <1>1, <1>2

LEMMA OneFrame ==
  ASSUME Typed, idle' \subseteq idle, opened' = opened,
         NEW t \in Threads, stack[t] # <<>>, NEW g \in Frames, stack' = With(Top(t), g),
         SameLinks(Frame(Top(t)), g), SameHelp(Frame(Top(t)), g)
  PROVE  Typed' /\ Calm(t, g)
  <1>1. stack' = Put(stack, t, Len(stack[t]), g)
    BY OnTop DEF With, Put
  <1>2. Len(stack[t]) \in DOMAIN stack[t] /\ stack \in Stacks
    BY OnTop DEF Typed
  <1>3. /\ stack' \in Stacks
        /\ \A u \in Threads : DOMAIN stack'[u] = DOMAIN stack[u]
        /\ \A u \in Threads : \A k \in DOMAIN stack[u] :
             stack'[u][k] = IF u = t /\ k = Len(stack[t]) THEN g ELSE stack[u][k]
    BY <1>1, <1>2, Replaced
  <1>4. Elsewhere(t)
    BY <1>3, Lens, SameIsSame DEF Elsewhere, Typed
  <1> QED BY <1>2, <1>3, <1>4, OnTop DEF Typed, Calm

LEMMA OneFrameStopped ==
  ASSUME Typed, idle' \subseteq idle, opened' = opened,
         NEW t \in Threads, stack[t] # <<>>, NEW g \in Frames, g.kind = "node",
         NEW S, stack' = StopAll(With(Top(t), g), S),
         SameLinks(Frame(Top(t)), g), SameHelp(Frame(Top(t)), g)
  PROVE  Typed' /\ Calm(t, g)
  <1> DEFINE r == Put(stack, t, Len(stack[t]), g)
  <1>1. stack' = StopAll(r, S)
    BY OnTop DEF With, Put
  <1>2. Len(stack[t]) \in DOMAIN stack[t] /\ stack \in Stacks
    BY OnTop DEF Typed
  <1>3. /\ r \in Stacks
        /\ \A u \in Threads : DOMAIN r[u] = DOMAIN stack[u]
        /\ \A u \in Threads : \A k \in DOMAIN stack[u] :
             r[u][k] = IF u = t /\ k = Len(stack[t]) THEN g ELSE stack[u][k]
    BY <1>2, Replaced
  <1> HIDE DEF r
  <1>4. Halts(r, stack')
    BY <1>1, <1>3, Stopped
  <1>5. Elsewhere(t)
    <2> SUFFICES ASSUME NEW u \in Threads, NEW k \in DOMAIN stack[u],
                        <<u, k>> # <<t, Len(stack[t])>>
                 PROVE  Kept(stack[u][k], stack'[u][k])
      BY DEF Elsewhere
    <2>1. /\ stack[u][k] \in Frames /\ r[u][k] = stack[u][k]
          /\ \/ stack'[u][k] = r[u][k]
             \/ /\ r[u][k].kind = "search"
                /\ stack'[u][k] = [r[u][k] EXCEPT !.state = "STOP_PARALLEL"]
      BY <1>3, <1>4, Lens, ZenonT(40) DEF Typed, Halts
    <2> QED BY <2>1, SameIsSame DEF State
  <1>6. stack'[t][Len(stack[t])] = g
    BY <1>2, <1>3, <1>4, ZenonT(40) DEF Halts
  <1> QED BY <1>2, <1>3, <1>4, <1>5, <1>6, OnTop DEF Typed, Calm, Halts

(* Most of these steps leave a node's links, its slaves and its help alone. *)
LEMMA NodeStep ==
  ASSUME IInv, idle' \subseteq idle, opened' = opened,
         NEW t \in Threads, stack[t] # <<>>, Frame(Top(t)).kind = "node",
         NEW g \in NodeFrames,
         \/ stack' = With(Top(t), g)
         \/ \E S : stack' = StopAll(With(Top(t), g), S),
         SameLinks(Frame(Top(t)), g), SameHelp(Frame(Top(t)), g),
         Fits(t, Len(stack[t]), g),
         g.asks \in {Frame(Top(t)).asks, Nil} \cup Above(Top(t)),
         g.pc = "lock" => g.asks \in Id /\ ~Helping(g.asks)
  PROVE  IInv'
  <1>1. g \in Frames /\ g.kind = "node"
    BY DEF Frames, NodeFrames
  <1>2. Typed' /\ Calm(t, g)
    BY <1>1, OneFrame, OneFrameStopped DEF IInv
  <1> QED BY <1>1, <1>2, CalmStep, OnTop DEF IInv

LEMMA FirstMoveKeeps ==
  ASSUME IInv, NEW t \in Threads, FirstMove(t)
  PROVE  IInv'
  <1> DEFINE f == Frame(Top(t))
             g == [f EXCEPT !.todo = MoveCount, !.move = TRUE,
                            !.pc = IF Running(Top(t)) THEN "search" ELSE "next"]
  <1>1. /\ stack[t] # <<>> /\ f \in NodeFrames /\ f.pc = "first" /\ f.kind = "node"
        /\ f = stack[t][Len(stack[t])] /\ Fits(t, Len(stack[t]), f)
    BY NodeOnTop, OnTop DEF FirstMove, IInv, Places, Place
  <1>2. stack' = With(Top(t), g)
    BY <1>1, OnTop DEF FirstMove, With, IInv
  <1>3. g \in NodeFrames
    <2>1. MoveCount \in 0 .. MoveCount /\ MoveCount > 0
      BY TreeAssumption DEF TreeAssumption
    <2> QED BY <1>1, <2>1 DEF NodeFrames
  <1>4. Fits(t, Len(stack[t]), g) /\ SameLinks(f, g) /\ SameHelp(f, g) /\ g.asks = f.asks
        /\ g.pc # "lock"
    BY <1>1 DEF NodeFrames, Fits, SameLinks, SameHelp
  <1> QED BY <1>1, <1>2, <1>3, <1>4, NodeStep DEF FirstMove

LEMMA UpdateKeeps ==
  ASSUME IInv, NEW t \in Threads, Update(t)
  PROVE  IInv'
  <1> DEFINE f == Frame(Top(t))
  <1>1. /\ stack[t] # <<>> /\ f \in NodeFrames /\ f.pc \in {"search", "update"} /\ f.kind = "node"
        /\ f = stack[t][Len(stack[t])] /\ Fits(t, Len(stack[t]), f)
    BY NodeOnTop, OnTop DEF Update, IInv, Places, Place
  <1>2. PICK cut \in BOOLEAN :
          LET frames == With(Top(t), [f EXCEPT !.cut = cut, !.pc = "next"])
          IN stack' = IF cut THEN StopAll(frames, f.slaves) ELSE frames
    BY <1>1 DEF Update, MayCut, NodeFrames
  <1> DEFINE g == [f EXCEPT !.cut = cut, !.pc = "next"]
  <1>3. g \in NodeFrames
    BY <1>1 DEF NodeFrames
  <1>4. Fits(t, Len(stack[t]), g) /\ SameLinks(f, g) /\ SameHelp(f, g) /\ g.asks = f.asks
        /\ g.pc # "lock"
    BY <1>1 DEF NodeFrames, Fits, SameLinks, SameHelp
  <1>5. stack' = With(Top(t), g) \/ \E S : stack' = StopAll(With(Top(t), g), S)
    BY <1>2
  <1> HIDE DEF g
  <1> QED BY <1>1, <1>3, <1>4, <1>5, NodeStep DEF Update

LEMMA AdvancedIs ==
  ASSUME NEW f \in NodeFrames, NEW running \in BOOLEAN
  PROVE  LET g == Advanced(f, running)
         IN g \in NodeFrames /\ \E todo, move : g = [f EXCEPT !.todo = todo, !.move = move]
  <1>1. CASE Advances(f, running)
    <2>1. Advanced(f, running) = [f EXCEPT !.todo = f.todo - 1, !.move = f.todo > 1]
      BY <1>1 DEF Advanced
    <2>2. f.todo \in 1 .. MoveCount /\ f.todo \in Int
      BY <1>1 DEF Advances, NodeFrames
    <2>3. f.todo - 1 \in 0 .. MoveCount /\ (f.todo > 1 => f.todo - 1 > 0)
      BY <2>2, TreeAssumption DEF TreeAssumption
    <2> DEFINE todo == f.todo - 1
               move == f.todo > 1
    <2>4. move \in BOOLEAN
      OBVIOUS
    <2> HIDE DEF todo, move
    <2>5. [f EXCEPT !.todo = todo, !.move = move] \in NodeFrames
      BY <2>3, <2>4 DEF todo, move, NodeFrames
    <2> QED BY <2>1, <2>5 DEF todo, move
  <1>2. CASE ~Advances(f, running)
    <2>1. Advanced(f, running) = f
      BY <1>2 DEF Advanced
    <2>2. f = [f EXCEPT !.todo = f.todo, !.move = f.move]
      BY DEF NodeFrames
    <2> QED BY <2>1, <2>2
  <1> QED BY <1>1, <1>2

LEMMA NextMoveKeeps ==
  ASSUME IInv, NEW t \in Threads, NextMove(t)
  PROVE  IInv'
  <1> DEFINE f == Frame(Top(t))
             to == IF HandsOut(f, Running(Top(t))) THEN "split" ELSE "wait"
             a == Advanced(f, Running(Top(t)))
             g == [a EXCEPT !.pc = to]
  <1>1. /\ stack[t] # <<>> /\ f \in NodeFrames /\ f.pc = "next" /\ f.kind = "node"
        /\ f = stack[t][Len(stack[t])] /\ Fits(t, Len(stack[t]), f)
    BY NodeOnTop, OnTop DEF NextMove, IInv, Places, Place
  <1>2. stack' = With(Top(t), g)
    BY DEF NextMove
  <1>3. to \in {"split", "wait"} /\ Running(Top(t)) \in BOOLEAN
    BY DEF Running
  <1>4. a \in NodeFrames
    BY <1>1, <1>3, AdvancedIs
  <1>5. PICK todo, move : a = [f EXCEPT !.todo = todo, !.move = move]
    BY <1>1, <1>3, AdvancedIs
  <1> HIDE DEF a, to
  <1>6. g \in NodeFrames
    BY <1>3, <1>4 DEF NodeFrames
  <1>7. Fits(t, Len(stack[t]), g) /\ SameLinks(f, g) /\ SameHelp(f, g) /\ g.asks = f.asks
        /\ g.pc # "lock"
    BY <1>1, <1>3, <1>5 DEF NodeFrames, Fits, SameLinks, SameHelp
  <1> HIDE DEF g
  <1> QED BY <1>1, <1>2, <1>6, <1>7, NodeStep DEF NextMove

LEMMA Goes ==
  ASSUME Typed, NEW t \in Threads, NEW pc, stack[t] # <<>>, Goto(t, pc)
  PROVE  stack' = With(Top(t), [Frame(Top(t)) EXCEPT !.pc = pc])
  BY OnTop DEF Goto, Gone, With

LEMMA AskedAreAbove ==
  ASSUME IInv, NEW t \in Threads, stack[t] # <<>>, Frame(Top(t)).kind = "node"
  PROVE  /\ Frame(Top(t)).parent # Nil => Frame(Top(t)).parent \in Above(Top(t))
         /\ Frame(Top(t)).asks # Nil =>
              LET a == Frame(Top(t)).asks
              IN /\ a \in Above(Top(t)) /\ a \in NodeIds /\ a \in Id
                 /\ Frame(a) \in NodeFrames
                 /\ Frame(a).parent # Nil => Frame(a).parent \in Above(Top(t))
  <1>1. Top(t) \in NodeIds /\ Typed /\ Links
    BY OnTop, Knows DEF IInv, Known
  <1>2. Target(t, Len(stack[t]))
    BY OnTop DEF IInv, Targets
  <1>3. Frame(Top(t)).asks # Nil => Frame(Top(t)).asks \in Above(Top(t))
    BY <1>2, OnTop DEF Target, IInv
  <1>4. Frame(Top(t)).asks # Nil => Frame(Top(t)).asks \in NodeIds
    BY <1>3 DEF Above
  <1> QED BY <1>1, <1>3, <1>4, AboveStarts, AboveGoesOn, ParentsAreNodes, Knows DEF Known

LEMMA SplitKeeps ==
  ASSUME IInv, NEW t \in Threads, Split(t)
  PROVE  IInv'
  <1> DEFINE f == Frame(Top(t))
  <1>1. /\ stack[t] # <<>> /\ f \in NodeFrames /\ f.pc = "split" /\ f.kind = "node"
        /\ f = stack[t][Len(stack[t])] /\ Fits(t, Len(stack[t]), f)
    BY NodeOnTop, OnTop DEF Split, IInv, Places, Place
  <1>2. PICK g \in {[f EXCEPT !.pc = "ask", !.asks = f.parent], [f EXCEPT !.pc = "search"]} :
          stack' = With(Top(t), g)
    BY DEF Split
  <1>3. g \in NodeFrames
    BY <1>1, <1>2, ZenonT(40) DEF NodeFrames
  <1>4. Fits(t, Len(stack[t]), g) /\ SameLinks(f, g) /\ SameHelp(f, g)
        /\ g.pc # "lock" /\ g.asks \in {f.parent, f.asks}
    BY <1>1, <1>2 DEF NodeFrames, Fits, SameLinks, SameHelp
  <1>5. g.asks \in {f.asks, Nil} \cup Above(Top(t))
    BY <1>1, <1>4, AskedAreAbove
  <1> QED BY <1>1, <1>2, <1>3, <1>4, <1>5, NodeStep DEF Split

LEMMA AskKeeps ==
  ASSUME IInv, NEW t \in Threads, Ask(t)
  PROVE  IInv'
  <1> DEFINE f == Frame(Top(t))
  <1>1. /\ stack[t] # <<>> /\ f \in NodeFrames /\ f.pc = "ask" /\ f.kind = "node"
        /\ f = stack[t][Len(stack[t])] /\ Fits(t, Len(stack[t]), f)
    BY NodeOnTop, OnTop DEF Ask, IInv, Places, Place
  <1>2. CASE f.asks = Nil
    <2> DEFINE g == [f EXCEPT !.pc = "pool"]
    <2>1. stack' = With(Top(t), g)
      BY <1>2 DEF Ask
    <2>2. g \in NodeFrames
      BY <1>1 DEF NodeFrames
    <2>3. Fits(t, Len(stack[t]), g) /\ SameLinks(f, g) /\ SameHelp(f, g) /\ g.asks = f.asks
          /\ g.pc # "lock"
      BY <1>1, <1>2 DEF NodeFrames, Fits, SameLinks, SameHelp
    <2> QED BY <1>1, <2>1, <2>2, <2>3, NodeStep DEF Ask
  <1>3. CASE f.asks # Nil /\ SeemsFree(Frame(f.asks))
    <2> DEFINE g == [f EXCEPT !.pc = "lock"]
    <2>1. stack' = With(Top(t), g)
      BY <1>3 DEF Ask
    <2>2. g \in NodeFrames
      BY <1>1 DEF NodeFrames
    <2>3. Fits(t, Len(stack[t]), g) /\ SameLinks(f, g) /\ SameHelp(f, g) /\ g.asks = f.asks
      BY <1>1, <1>3 DEF NodeFrames, Fits, SameLinks, SameHelp
    <2>4. f.asks \in Id /\ ~Helping(f.asks)
      BY <1>1, <1>3, AskedAreAbove DEF SeemsFree, Helping
    <2> QED BY <1>1, <2>1, <2>2, <2>3, <2>4, NodeStep DEF Ask
  <1>4. CASE f.asks # Nil /\ ~SeemsFree(Frame(f.asks))
    <2> DEFINE g == [f EXCEPT !.asks = Frame(f.asks).parent]
    <2>1. stack' = With(Top(t), g)
      BY <1>4 DEF Ask
    <2>2. Frame(f.asks).parent \in {Nil} \cup Above(Top(t)) /\ Frame(f.asks).parent \in Id \cup {Nil}
      BY <1>1, <1>4, AskedAreAbove DEF NodeFrames
    <2>3. g \in NodeFrames
      BY <1>1, <2>2 DEF NodeFrames
    <2>4. Fits(t, Len(stack[t]), g) /\ SameLinks(f, g) /\ SameHelp(f, g)
          /\ g.asks = Frame(f.asks).parent /\ g.pc # "lock"
      BY <1>1 DEF NodeFrames, Fits, SameLinks, SameHelp
    <2> QED BY <1>1, <2>1, <2>2, <2>3, <2>4, NodeStep DEF Ask
  <1> QED BY <1>2, <1>3, <1>4

LEMMA NobodyToHelpKeeps ==
  ASSUME IInv, NEW t \in Threads, GetHelper(t), ~CanHelp(Frame(Frame(Top(t)).asks))
  PROVE  IInv'
  <1> DEFINE f == Frame(Top(t))
             g == [f EXCEPT !.pc = "pool", !.asks = Nil]
  <1>1. /\ stack[t] # <<>> /\ f \in NodeFrames /\ f.pc = "lock" /\ f.kind = "node"
        /\ f = stack[t][Len(stack[t])] /\ Fits(t, Len(stack[t]), f)
    BY NodeOnTop, OnTop DEF GetHelper, IInv, Places, Place
  <1>2. stack' = With(Top(t), g)
    BY DEF GetHelper
  <1>3. g \in NodeFrames
    BY <1>1 DEF NodeFrames
  <1>4. Fits(t, Len(stack[t]), g) /\ SameLinks(f, g) /\ SameHelp(f, g) /\ g.asks = Nil
        /\ g.pc # "lock"
    BY <1>1 DEF NodeFrames, Fits, SameLinks, SameHelp
  <1> QED BY <1>1, <1>2, <1>3, <1>4, NodeStep DEF GetHelper

LEMMA NoIdleWorkerKeeps ==
  ASSUME IInv, NEW t \in Threads, GetIdleWorker(t), Goto(t, "search"), UNCHANGED idle
  PROVE  IInv'
  <1> DEFINE f == Frame(Top(t))
             g == [f EXCEPT !.pc = "search"]
  <1>1. /\ stack[t] # <<>> /\ f \in NodeFrames /\ f.pc = "pool" /\ f.kind = "node"
        /\ f = stack[t][Len(stack[t])] /\ Fits(t, Len(stack[t]), f)
    <2>1. At(t, "node", "pool")
      BY DEF GetIdleWorker
    <2> QED BY <2>1, NodeOnTop, OnTop DEF IInv, Places, Place
  <1>2. stack' = With(Top(t), g)
    BY <1>1, Goes DEF IInv
  <1>3. g \in NodeFrames
    BY <1>1 DEF NodeFrames
  <1>4. Fits(t, Len(stack[t]), g) /\ SameLinks(f, g) /\ SameHelp(f, g) /\ g.asks = f.asks
        /\ g.pc # "lock"
    BY <1>1 DEF NodeFrames, Fits, SameLinks, SameHelp
  <1> QED BY <1>1, <1>2, <1>3, <1>4, NodeStep DEF GetIdleWorker

LEMMA SleepKeeps ==
  ASSUME IInv, NEW t \in Threads, WaitSlaves(t), Frame(Top(t)).slaves # {}
  PROVE  IInv'
  <1> DEFINE f == Frame(Top(t))
             g == [f EXCEPT !.waiting = TRUE, !.pc = "sleep"]
  <1>1. /\ stack[t] # <<>> /\ f \in NodeFrames /\ f.pc = "wait" /\ f.kind = "node"
        /\ f = stack[t][Len(stack[t])] /\ Fits(t, Len(stack[t]), f)
    BY NodeOnTop, OnTop DEF WaitSlaves, IInv, Places, Place
  <1>2. stack' = With(Top(t), g) \/ \E S : stack' = StopAll(With(Top(t), g), S)
    BY DEF WaitSlaves
  <1>3. g \in NodeFrames
    BY <1>1 DEF NodeFrames
  <1>4. Fits(t, Len(stack[t]), g) /\ SameLinks(f, g) /\ SameHelp(f, g) /\ g.asks = f.asks
        /\ g.pc # "lock"
    BY <1>1 DEF NodeFrames, Fits, SameLinks, SameHelp
  <1> QED BY <1>1, <1>2, <1>3, <1>4, NodeStep DEF WaitSlaves

LEMMA SearchStep ==
  ASSUME IInv, idle' \subseteq idle, opened' = opened,
         NEW t \in Threads, stack[t] # <<>>, Frame(Top(t)).kind = "search",
         Frame(Top(t)).pc \notin {"run", "ran"},
         NEW g \in SearchFrames, g.node = Frame(Top(t)).node, g.pc \notin {"run", "ran"},
         stack' = With(Top(t), g)
  PROVE  IInv'
  <1>1. g \in Frames /\ g.kind = "search"
    BY DEF Frames, SearchFrames
  <1>2. SameLinks(Frame(Top(t)), g) /\ SameHelp(Frame(Top(t)), g)
    BY <1>1 DEF SameLinks, SameHelp
  <1>3. Typed' /\ Calm(t, g)
    BY <1>1, <1>2, OneFrame DEF IInv
  <1>4. Fits(t, Len(stack[t]), g)
    BY <1>1, OnTop DEF Fits, IInv, Places, Place
  <1> QED BY <1>1, <1>3, <1>4, CalmStep, OnTop DEF IInv

(* The node that a Search on top serves, and its own Search. *)
LEMMA ServedIs ==
  ASSUME IInv, NEW t \in Threads, stack[t] # <<>>, Frame(Top(t)).kind = "search",
         Frame(Top(t)).pc \notin {"run", "ran"}
  PROVE  LET id == Frame(Top(t)).node
             master == Frame(id).search
         IN /\ id \in NodeIds /\ id \in Id /\ Frame(id) \in NodeFrames
            /\ IsA("search", master) /\ master \in Id /\ Frame(master) \in SearchFrames
            /\ Frame(Top(t)) \in SearchFrames
  <1> DEFINE id == Frame(Top(t)).node
  <1>1. Link(t, Len(stack[t])) /\ Fits(t, Len(stack[t]), Frame(Top(t)))
    BY OnTop DEF IInv, Links, Places, Place
  <1>2. Frame(Top(t)) \in SearchFrames
    BY OnTop, Kinds DEF IInv
  <1>3. id \in Id \cup {Nil} /\ IsA("node", id)
    BY <1>1, <1>2, OnTop DEF Link, SearchFrames, Fits, IInv
  <1>4. id \in NodeIds /\ id \in Id
    BY <1>3, Knows DEF IInv, Known, IsA
  <1>5. Frame(id) \in NodeFrames
    BY <1>4, ParentsAreNodes DEF IInv
  <1>6. IsA("search", Frame(id).search) /\ Frame(id).search \in Id
    <2>1. id[1] \in Threads /\ id[2] \in DOMAIN stack[id[1]] /\ Frame(id) = stack[id[1]][id[2]]
          /\ Frame(id).kind = "node"
      BY <1>4, IdIsPair, Knows DEF IInv, Known, Frame
    <2>2. Link(id[1], id[2])
      BY <2>1 DEF IInv, Links
    <2> QED BY <1>5, <2>1, <2>2 DEF Link, NodeFrames
  <1>7. Frame(Frame(id).search) \in SearchFrames
    <2>1. Frame(Frame(id).search) \in Frames /\ Frame(Frame(id).search).kind = "search"
      BY <1>6, IdIsPair, Lens DEF IInv, IsA, Typed, Frame
    <2> QED BY <2>1, Kinds
  <1> QED BY <1>2, <1>4, <1>5, <1>6, <1>7

LEMMA BeginKeeps ==
  ASSUME IInv, NEW t \in Threads, Begin(t)
  PROVE  IInv'
  <1> DEFINE f == Frame(Top(t))
             g == [f EXCEPT !.pc = "loop", !.state = Frame(Frame(f.node).search).state]
  <1>1. stack[t] # <<>> /\ f \in SearchFrames /\ f.pc = "begin" /\ f.kind = "search"
    BY SearchOnTop DEF Begin, IInv
  <1>2. stack' = With(Top(t), g)
    BY DEF Begin
  <1>3. Frame(Frame(f.node).search).state \in State
    BY <1>1, ServedIs DEF SearchFrames
  <1>4. g \in SearchFrames /\ g.node = f.node /\ g.pc = "loop"
    BY <1>1, <1>3 DEF SearchFrames
  <1> QED BY <1>1, <1>2, <1>4, SearchStep DEF Begin

LEMMA LoopGoesKeeps ==
  ASSUME IInv, NEW t \in Threads, At(t, "search", "loop"), UNCHANGED <<idle, opened>>,
         NEW pc \in {"report", "remove"}, Goto(t, pc)
  PROVE  IInv'
  <1> DEFINE f == Frame(Top(t))
             g == [f EXCEPT !.pc = pc]
  <1>1. stack[t] # <<>> /\ f \in SearchFrames /\ f.pc = "loop" /\ f.kind = "search"
    BY SearchOnTop DEF IInv
  <1>2. stack' = With(Top(t), g)
    BY <1>1, Goes DEF IInv
  <1>3. g \in SearchFrames /\ g.node = f.node /\ g.pc = pc
    BY <1>1 DEF SearchFrames
  <1> QED BY <1>1, <1>2, <1>3, SearchStep

LEMMA ReportKeeps ==
  ASSUME IInv, NEW t \in Threads, Report(t)
  PROVE  IInv'
  <1> DEFINE l == Len(stack[t])
             f == Frame(Top(t))
             id == f.node
             node == Frame(id)
             master == node.search
  <1>1. stack[t] # <<>> /\ f \in SearchFrames /\ f.pc = "report" /\ f.kind = "search"
    BY SearchOnTop DEF Report, IInv
  <1>2. /\ id \in NodeIds /\ id \in Id /\ node \in NodeFrames
        /\ IsA("search", master) /\ master \in Id /\ Frame(master) \in SearchFrames
    BY <1>1, ServedIs
  <1>3. PICK cuts \in BOOLEAN :
          LET stops == cuts /\ Running(id)
              after == [node EXCEPT !.cut = @ \/ cuts, !.stop_point = @ \/ stops]
              running == Running(id) /\ ~stops
          IN stack' = [stack EXCEPT
               ![t][Len(stack[t])] = [@ EXCEPT !.pc = "loop", !.move = HandsOut(after, running)],
               ![id[1]][id[2]] = Advanced(after, running),
               ![master[1]][master[2]].state = IF stops THEN "STOP_PARALLEL" ELSE Frame(master).state]
    BY ZenonT(40) DEF Report, MayCut
  <1> DEFINE stops == cuts /\ Running(id)
             after == [node EXCEPT !.cut = @ \/ cuts, !.stop_point = @ \/ stops]
             running == Running(id) /\ ~stops
             g == [stack[t][l] EXCEPT !.pc = "loop", !.move = HandsOut(after, running)]
             n == Advanced(after, running)
             r1 == Put(stack, t, l, g)
             r2 == Put(r1, id[1], id[2], n)
             m == r2[master[1]][master[2]]
             state == IF stops THEN "STOP_PARALLEL" ELSE Frame(master).state
             h == [m EXCEPT !.state = state]
  <1>4. stack' = Put(r2, master[1], master[2], h)
    <2>1. stack' = [stack EXCEPT ![t][l] = g, ![id[1]][id[2]] = n,
                      ![master[1]][master[2]].state = state]
      BY <1>3
    <2> HIDE DEF g, n, state, id, master, l
    <2>2. [stack EXCEPT ![t][l] = g, ![id[1]][id[2]] = n, ![master[1]][master[2]].state = state]
          = LET r == Put(Put(stack, t, l, g), id[1], id[2], n)
            IN Put(r, master[1], master[2], [r[master[1]][master[2]] EXCEPT !.state = state])
      BY DEF Put
    <2> QED BY <2>1, <2>2
  <1>5. stops \in BOOLEAN /\ running \in BOOLEAN /\ HandsOut(after, running) \in BOOLEAN
    BY DEF Running, HandsOut
  <1>6. after \in NodeFrames
    <2>1. (node.cut \/ cuts) \in BOOLEAN /\ (node.stop_point \/ stops) \in BOOLEAN
      OBVIOUS
    <2> QED BY <1>2, <2>1, ZenonT(40) DEF NodeFrames
  <1>7. /\ after.search = node.search /\ after.parent = node.parent /\ after.depth = node.depth
        /\ after.slaves = node.slaves /\ after.helping = node.helping /\ after.help = node.help
        /\ after.waiting = node.waiting /\ after.asks = node.asks /\ after.pc = node.pc
    BY <1>2 DEF NodeFrames
  <1> HIDE DEF after, running, stops
  <1>8. n \in NodeFrames /\ Kept(node, n)
    <2>1. n \in NodeFrames /\ \E todo, move : n = [after EXCEPT !.todo = todo, !.move = move]
      BY <1>5, <1>6, AdvancedIs
    <2> QED BY <1>2, <1>6, <1>7, <2>1 DEF NodeFrames, Kept, Same, SameLinks, SameHelp
  <1>9. g \in SearchFrames /\ g.node = f.node /\ g.pc = "loop"
    BY <1>1, <1>5, OnTop DEF SearchFrames, IInv
  <1> HIDE DEF g, n
  <1>10. /\ r1 \in Stacks
         /\ \A u \in Threads : DOMAIN r1[u] = DOMAIN stack[u]
         /\ \A u \in Threads : \A k \in DOMAIN stack[u] :
              r1[u][k] = IF u = t /\ k = l THEN g ELSE stack[u][k]
    BY <1>1, <1>9, OnTop, Replaced DEF IInv, Typed, Frames
  <1> HIDE DEF r1
  <1>11. /\ id[1] \in Threads /\ id[2] \in DOMAIN stack[id[1]] /\ node = stack[id[1]][id[2]]
         /\ node.kind = "node" /\ id = <<id[1], id[2]>>
    BY <1>2, IdIsPair, Knows, ZenonT(40) DEF IInv, Known, Frame
  <1>12. /\ r2 \in Stacks
         /\ \A u \in Threads : DOMAIN r2[u] = DOMAIN r1[u]
         /\ \A u \in Threads : \A k \in DOMAIN r1[u] :
              r2[u][k] = IF u = id[1] /\ k = id[2] THEN n ELSE r1[u][k]
    BY <1>8, <1>10, <1>11, Replaced DEF Frames
  <1> HIDE DEF r2
  <1>13. /\ master[1] \in Threads /\ master[2] \in DOMAIN stack[master[1]]
         /\ Frame(master) = stack[master[1]][master[2]] /\ Frame(master).kind = "search"
    BY <1>2, IdIsPair DEF IsA, Frame
  <1>14. m \in SearchFrames
    <2>1. m \in Frames
      BY <1>10, <1>12, <1>13, Lens
    <2>2. m.kind = "search"
      <3>1. ~(master[1] = id[1] /\ master[2] = id[2])
        BY <1>11, <1>13
      <3>2. m = r1[master[1]][master[2]]
        BY <1>10, <1>12, <1>13, <3>1
      <3>3. r1[master[1]][master[2]] \in {g, Frame(master)}
        BY <1>10, <1>13
      <3> QED BY <1>9, <1>13, <3>2, <3>3 DEF SearchFrames
    <2> QED BY <2>1, <2>2, Kinds
  <1>15. state \in State /\ h \in SearchFrames
    BY <1>2, <1>14 DEF SearchFrames, State
  <1>16. Kept(m, h) /\ h \in Frames /\ h.kind = "search" /\ h.pc = m.pc /\ h.node = m.node
    BY <1>14, <1>15 DEF SearchFrames, Frames, Kept, Same, SameLinks, SameHelp
  <1> HIDE DEF h
  <1>17. /\ stack' \in Stacks
         /\ \A u \in Threads : DOMAIN stack'[u] = DOMAIN r2[u]
         /\ \A u \in Threads : \A k \in DOMAIN r2[u] :
              stack'[u][k] = IF u = master[1] /\ k = master[2] THEN h ELSE r2[u][k]
    BY <1>4, <1>10, <1>12, <1>13, <1>15, Replaced, SMTT(30) DEF Frames
  <1>18. Typed' /\ \A u \in Threads : DOMAIN stack'[u] = DOMAIN stack[u]
    BY <1>10, <1>12, <1>17 DEF IInv, Typed, Report
  <1>19. Elsewhere(t)
    <2> SUFFICES ASSUME NEW u \in Threads, NEW k \in DOMAIN stack[u], <<u, k>> # <<t, l>>
                 PROVE  Kept(stack[u][k], stack'[u][k])
      BY DEF Elsewhere
    <2>1. Kept(stack[u][k], stack[u][k])
      BY Lens, SameIsSame DEF IInv, Typed
    <2>2. r1[u][k] = stack[u][k] /\ Kept(stack[u][k], r2[u][k])
      BY <1>8, <1>10, <1>11, <1>12, <2>1
    <2>3. CASE u = master[1] /\ k = master[2]
      <3>1. m = stack[u][k]
        <4>1. ~(u = id[1] /\ k = id[2])
          BY <1>11, <1>13, <2>3
        <4> QED BY <1>10, <1>12, <2>2, <2>3, <4>1, SMTT(30)
      <3> QED BY <1>10, <1>12, <1>17, <1>16, <2>3, <3>1
    <2>4. CASE ~(u = master[1] /\ k = master[2])
      BY <1>10, <1>12, <1>17, <2>2, <2>4
    <2> QED BY <2>3, <2>4
  <1>20. PICK e : e = stack'[t][l]
    OBVIOUS
  <1>21. e.kind = "search" /\ e.pc = "loop" /\ e.node = f.node
    <2>1. l \in DOMAIN stack[t] /\ f = stack[t][l] /\ l \in DOMAIN r1[t] /\ l \in DOMAIN r2[t]
      BY <1>1, <1>10, <1>12, OnTop DEF IInv
    <2>2. r2[t][l] = g /\ g.kind = "search"
      BY <1>1, <1>9, <1>10, <1>11, <1>12, <2>1, SMTT(30) DEF SearchFrames
    <2>3. stack'[t][l] = IF t = master[1] /\ l = master[2] THEN h ELSE g
      BY <1>17, <2>1, <2>2
    <2> QED BY <1>9, <1>16, <1>20, <2>2, <2>3
  <1>22. Calm(t, e)
    BY <1>1, <1>18, <1>19, <1>20, <1>21, OnTop DEF Calm, SameLinks, SameHelp, IInv
  <1>23. Fits(t, l, e)
    BY <1>1, <1>21, OnTop DEF Fits, IInv, Places, Place
  <1> QED BY <1>1, <1>18, <1>21, <1>22, <1>23, CalmStep DEF Report

-----------------------------------------------------------------------------
(* Steps that push a frame.                                                 *)

LEMMA ServedAreNodes ==
  ASSUME IInv, NEW s \in Id, NEW n \in Id, Serves(s, n)
  PROVE  n \in NodeIds
  <1>1. CASE IsA("search", s) /\ Frame(s).node = n
    <2>1. /\ s[1] \in Threads /\ s[2] \in DOMAIN stack[s[1]] /\ Frame(s) = stack[s[1]][s[2]]
          /\ Frame(s).kind = "search"
      BY <1>1, IdIsPair, Knows DEF Known, Frame, IInv
    <2>2. Link(s[1], s[2])
      BY <2>1 DEF IInv, Links
    <2>3. IsA("node", n)
      BY <1>1, <2>1, <2>2, NilIsNoId DEF Link
    <2> QED BY <2>3, Knows DEF Known, IInv
  <1>2. ASSUME s[2] > 1, IsA("node", <<s[1], s[2] - 1>>), Frame(<<s[1], s[2] - 1>>).help = n
        PROVE  n \in NodeIds
    <2>1. <<s[1], s[2] - 1>> \in Id /\ s[1] \in Threads /\ s[2] - 1 \in Nat
      BY <1>2 DEF Id
    <2>2. s[2] - 1 \in DOMAIN stack[s[1]] /\ stack[s[1]][s[2] - 1].kind = "node"
          /\ stack[s[1]][s[2] - 1].help = n
      BY <1>2, <2>1, Knows DEF Known, IInv, Frame
    <2>3. Target(s[1], s[2] - 1)
      BY <2>1, <2>2 DEF IInv, Targets
    <2>4. IsA("node", n)
      BY <2>2, <2>3, NilIsNoId DEF Target
    <2> QED BY <2>4, Knows DEF Known, IInv
  <1> QED BY <1>1, <1>2 DEF Serves

(* t gets h on top; the frame that was on top is now g.                     *)
Pushes(t, g, h) ==
  /\ Len(stack'[t]) = Len(stack[t]) + 1
  /\ \A u \in Threads \ {t} : stack'[u] = stack[u]
  /\ \A k \in DOMAIN stack[t] : k < Len(stack[t]) => stack'[t][k] = stack[t][k]
  /\ stack'[t][Len(stack[t])] = g /\ SameLinks(stack[t][Len(stack[t])], g)
  /\ stack'[t][Len(stack[t]) + 1] = h

LEMMA PushIs ==
  ASSUME Typed, idle' = idle, opened' \in 0 .. MaxNodes,
         NEW t \in Threads, stack[t] # <<>>,
         NEW g \in Frames, NEW h \in Frames, SameLinks(Frame(Top(t)), g),
         stack' = Pushed(With(Top(t), g), t, h)
  PROVE  Typed' /\ Pushes(t, g, h)
  <1> DEFINE l == Len(stack[t])
             r == Put(stack, t, l, g)
  <1>1. stack' = Pushed(r, t, h)
    BY OnTop DEF With, Put
  <1>2. l \in DOMAIN stack[t] /\ stack \in Stacks /\ l \in Nat
    BY OnTop DEF Typed
  <1>3. /\ r \in Stacks
        /\ \A u \in Threads : DOMAIN r[u] = DOMAIN stack[u] /\ Len(r[u]) = Len(stack[u])
        /\ \A u \in Threads : \A k \in DOMAIN stack[u] :
             r[u][k] = IF u = t /\ k = l THEN g ELSE stack[u][k]
    BY <1>2, Replaced
  <1>4. \A u \in Threads \ {t} : r[u] = stack[u]
    BY <1>2 DEF Put, Stacks
  <1> HIDE DEF r
  <1>5. /\ stack' \in Stacks
        /\ Len(stack'[t]) = l + 1 /\ stack'[t][l + 1] = h
        /\ \A k \in DOMAIN r[t] : stack'[t][k] = r[t][k]
        /\ \A u \in Threads \ {t} : stack'[u] = r[u]
    BY <1>1, <1>3, Added
  <1>6. Typed'
    BY <1>5 DEF Typed
  <1>7. /\ \A k \in DOMAIN stack[t] : k < l => stack'[t][k] = stack[t][k]
        /\ stack'[t][l] = g
    BY <1>2, <1>3, <1>5
  <1> QED BY <1>2, <1>3, <1>4, <1>5, <1>6, <1>7, OnTop DEF Pushes

LEMMA PushEvolves ==
  ASSUME Typed, Typed', NEW t \in Threads, stack[t] # <<>>, NEW g, NEW h, Pushes(t, g, h)
  PROVE  /\ Evolves
         /\ \A u \in Threads \ {t} : stack'[u] = stack[u]
         /\ DOMAIN stack'[t] = DOMAIN stack[t] \cup {Len(stack[t]) + 1}
         /\ Len(stack[t]) + 1 \notin DOMAIN stack[t]
         /\ Len(stack'[t]) = Len(stack[t]) + 1
         /\ \A u \in Threads : DOMAIN stack[u] \subseteq DOMAIN stack'[u]
         /\ \A u \in Threads : \A k \in DOMAIN stack[u] :
              <<u, k>> # <<t, Len(stack[t])>> => stack'[u][k] = stack[u][k]
         /\ stack'[t][Len(stack[t])] = g /\ stack'[t][Len(stack[t]) + 1] = h
         /\ NodeIds \subseteq NodeIds'
         /\ \A n \in NodeIds' : n \in NodeIds \/ (n = <<t, Len(stack[t]) + 1>> /\ h.kind = "node")
         /\ \A id \in Id : \A kind : IsA(kind, id) => IsA(kind, id)'
  <1>1. /\ DOMAIN stack[t] = 1 .. Len(stack[t]) /\ Len(stack[t]) \in Nat \ {0}
        /\ DOMAIN stack'[t] = 1 .. Len(stack[t]) + 1
    BY OnTop, Lens DEF Typed, Pushes
  <1>2. \A u \in Threads : \A k \in DOMAIN stack[u] :
          <<u, k>> # <<t, Len(stack[t])>> => stack'[u][k] = stack[u][k]
    BY <1>1 DEF Pushes
  <1>3. \A u \in Threads : DOMAIN stack[u] \subseteq DOMAIN stack'[u]
    BY <1>1 DEF Pushes
  <1>4. Evolves
    BY <1>2 DEF Evolves, Pushes, SameLinks
  <1>5. \A n \in NodeIds : n \in NodeIds'
    BY <1>3, <1>4, NodesStay, IdIsPair, Knows DEF Known
  <1>6. ASSUME NEW id \in Id, NEW kind, IsA(kind, id)
        PROVE  IsA(kind, id)'
    <2>1. id[2] \in DOMAIN stack[id[1]] /\ id[2] \in DOMAIN stack'[id[1]]
      BY <1>3, <1>6, IdIsPair, Knows DEF Known
    <2> QED BY <1>4, <1>6, <2>1, EvolvesNodes
  <1>7. ASSUME NEW n \in NodeIds', n \notin NodeIds
        PROVE  n = <<t, Len(stack[t]) + 1>> /\ h.kind = "node"
    <2>1. n \in Id /\ n[2] \in DOMAIN stack'[n[1]] /\ stack'[n[1]][n[2]].kind = "node"
          /\ n = <<n[1], n[2]>> /\ n[1] \in Threads
      BY KnowsNext, IdIsPair DEF Known, Frame
    <2>2. n[2] \notin DOMAIN stack[n[1]]
      BY <1>4, <1>7, <2>1, EvolvesNodes
    <2> QED BY <1>1, <2>1, <2>2 DEF Pushes
  <1> QED BY <1>1, <1>2, <1>3, <1>4, <1>5, <1>6, <1>7 DEF Pushes

LEMMA PushKeepsLinks ==
  ASSUME IInv, Typed', NEW t \in Threads, stack[t] # <<>>, NEW g, NEW h, Pushes(t, g, h),
         NEW k, k = Len(stack[t]) + 1, Link(t, k)'
  PROVE  Links'
  <1>1. stack'[Main] # <<>>
    <2>1. Main \in Threads /\ stack[Main] # <<>>
      BY DEF Threads, IInv, Links
    <2>2. DOMAIN stack[Main] # {}
      BY <2>1, Lens DEF IInv, Typed
    <2> QED BY <2>1, <2>2, PushEvolves DEF IInv
  <1>2. ASSUME NEW u \in Threads, NEW i \in DOMAIN stack'[u] \ DOMAIN stack[u]
        PROVE  Link(u, i)'
    <2>1. u = t /\ i = k
      BY PushEvolves DEF IInv
    <2> QED BY <2>1
  <1>3. Evolves /\ \A n \in NodeIds : n \in NodeIds'
    BY PushEvolves DEF IInv
  <1> QED BY <1>1, <1>2, <1>3, LinksStay DEF IInv

LEMMA PushKeepsPlaces ==
  ASSUME IInv, Typed', NEW t \in Threads, stack[t] # <<>>, NEW g, NEW h, Pushes(t, g, h),
         IF g.kind = "search" THEN g.pc \in {"ran", "report"}
         ELSE g.pc = IF h.kind = "search" THEN "help" ELSE "update",
         Fits(t, Len(stack[t]), g), Fits(t, Len(stack[t]) + 1, h)
  PROVE  Places'
  <1> DEFINE l == Len(stack[t])
  <1> SUFFICES ASSUME NEW u \in Threads, NEW i \in DOMAIN stack'[u]
               PROVE  \/ Place(u, i)'
                      \/ /\ i \in DOMAIN stack[u] /\ Same(stack[u][i], stack'[u][i])
                         /\ i < Len(stack'[u]) =>
                              /\ i < Len(stack[u])
                              /\ stack'[u][i + 1].kind = stack[u][i + 1].kind
    BY PlacesStay DEF IInv
  <1>1. l \in Nat \ {0} /\ l \in DOMAIN stack[t]
    BY OnTop DEF IInv
  <1>2. CASE u = t /\ i = l + 1
    BY <1>1, <1>2, PushEvolves DEF Place, IInv
  <1>3. CASE u = t /\ i = l
    BY <1>1, <1>3, PushEvolves DEF Place, IInv
  <1>4. CASE u = t /\ i < l
    <2>1. i \in DOMAIN stack[t] /\ i + 1 \in DOMAIN stack[t] /\ i \in Nat
      BY <1>1, <1>4, Lens, PushEvolves DEF IInv, Typed
    <2>2. stack'[t][i + 1].kind = stack[t][i + 1].kind
      BY <2>1, PushEvolves DEF IInv, Evolves, SameLinks
    <2> QED BY <1>1, <1>4, <2>1, <2>2, PushEvolves DEF IInv, Same, SameLinks
  <1>5. CASE u # t
    BY <1>5, PushEvolves DEF IInv, Same, SameLinks
  <1>6. u = t => i = l + 1 \/ i = l \/ i < l
    BY <1>1, PushEvolves, Lens DEF IInv, Typed
  <1> QED BY <1>2, <1>3, <1>4, <1>5, <1>6

LEMMA PushKeepsTargets ==
  ASSUME IInv, Typed', Links', NEW t \in Threads, stack[t] # <<>>, NEW g, NEW h, Pushes(t, g, h),
         NEW k, k = Len(stack[t]) + 1, Target(t, k)',
         g.kind = "node" => /\ g.help \in {stack[t][Len(stack[t])].help, Nil}
                            /\ g.asks \in {stack[t][Len(stack[t])].asks, Nil}
  PROVE  Targets'
  <1> SUFFICES ASSUME NEW u \in Threads, NEW i \in DOMAIN stack[u], stack[u][i].kind = "node"
               PROVE  /\ stack'[u][i].help \in {stack[u][i].help, Nil}
                      /\ stack'[u][i].asks \in {stack[u][i].asks, Nil}
    <2>1. ASSUME NEW u \in Threads, NEW i \in DOMAIN stack'[u] \ DOMAIN stack[u]
          PROVE  Target(u, i)'
      <3>1. u = t /\ i = k
        BY PushEvolves DEF IInv
      <3> QED BY <3>1
    <2>2. Evolves /\ \A n \in NodeIds : n \in NodeIds'
      BY PushEvolves DEF IInv
    <2> QED BY <2>1, <2>2, TargetsStay DEF IInv
  <1>1. CASE u = t /\ i = Len(stack[t])
    BY <1>1, PushEvolves DEF IInv, Pushes, SameLinks
  <1>2. CASE <<u, i>> # <<t, Len(stack[t])>>
    BY <1>2, PushEvolves DEF IInv
  <1> QED BY <1>1, <1>2

LEMMA PushKeepsIdle ==
  ASSUME IInv, Typed', idle' = idle, NEW t \in Threads, stack[t] # <<>>, NEW g, NEW h,
         Pushes(t, g, h)
  PROVE  IdleInv'
  <1> SUFFICES ASSUME NEW w \in idle PROVE stack'[w] = <<>>
    BY DEF IdleInv
  <1>1. w \in Threads /\ stack[w] = <<>>
    BY DEF IInv, Typed, IdleInv, Threads
  <1> QED BY <1>1 DEF Pushes

(* A node that opens: it is below no other, has no slaves and seeks nothing. *)
LEMMA OpenStep ==
  ASSUME IInv, idle' = idle, opened' \in 0 .. MaxNodes,
         NEW t \in Threads, stack[t] # <<>>, NEW g \in Frames,
         SameLinks(Frame(Top(t)), g), SameHelp(Frame(Top(t)), g),
         Fits(t, Len(stack[t]), g),
         IF g.kind = "search" THEN g.pc \in {"ran", "report"}
         ELSE g.pc = "update" /\ g.asks = Frame(Top(t)).asks,
         NEW search \in Id, NEW depth \in Nat, NEW parent \in Id \cup {Nil},
         IF g.kind = "search" THEN search = Top(t) /\ parent = g.node
         ELSE search = g.search /\ parent = Top(t),
         IF parent = Nil THEN depth = Depth ELSE Frame(parent).depth = depth + 1,
         stack' = Pushed(With(Top(t), g), t, NewNode(search, depth, parent))
  PROVE  IInv'
  <1> DEFINE l == Len(stack[t])
  <1>1. PICK h : h = NewNode(search, depth, parent)
    OBVIOUS
  <1>2. /\ h.kind = "node" /\ h.search = search /\ h.depth = depth /\ h.parent = parent
        /\ h.slaves = {} /\ h.help = Nil /\ h.asks = Nil /\ ~h.helping /\ ~h.waiting
        /\ h.pc = "first"
    BY <1>1 DEF NewNode
  <1>3. h \in Frames
    <2>1. 0 \in 0 .. MoveCount
      BY TreeAssumption DEF TreeAssumption
    <2> QED BY <1>1, <2>1 DEF NewNode, Frames, NodeFrames
  <1>4. Typed' /\ Pushes(t, g, h)
    BY <1>1, <1>3, PushIs DEF IInv
  <1>5. /\ l \in DOMAIN stack[t] /\ l \in Nat \ {0} /\ Top(t) = <<t, l>> /\ Top(t) \in Id
        /\ Frame(Top(t)) = stack[t][l] /\ Frame(Top(t)) \in Frames
        /\ g.kind \in {"search", "node"}
    BY OnTop, Kinds DEF IInv
  <1>6. Link(t, l)
    BY <1>5 DEF IInv, Links
  <1>7. PICK k : k = l + 1
    OBVIOUS
  <1>8. /\ k \in Nat \ {0} /\ k > 1 /\ k - 1 = l /\ <<t, k>> \in Id /\ <<t, k>> \notin NodeIds
        /\ k \in DOMAIN stack'[t]
    <2>1. k \notin DOMAIN stack[t] /\ k \in DOMAIN stack'[t]
      BY <1>4, <1>7, PushEvolves DEF IInv
    <2>2. <<t, k>> \in Id
      BY <1>5, <1>7 DEF Id
    <2> QED BY <1>5, <1>7, <2>1, <2>2, Knows DEF IInv, Known
  <1>9. stack'[t][k] = h /\ stack'[t][k - 1] = g
    BY <1>4, <1>7, <1>8, PushEvolves DEF IInv
  <1>10. \A id \in Id : \A kind : IsA(kind, id) => IsA(kind, id)'
    BY <1>4, PushEvolves DEF IInv
  <1>11. IsA("search", search) /\ search[1] = t /\ search[2] < k
    <2>1. CASE g.kind = "search"
      <3>1. Frame(search).kind = "search" /\ search[2] \in DOMAIN stack[search[1]]
        BY <1>5, <2>1 DEF SameLinks
      <3> QED BY <1>5, <1>7, <2>1, <3>1, Knows DEF IInv, Known
    <2>2. CASE g.kind = "node"
      <3>1. /\ IsA("search", stack[t][l].search) /\ stack[t][l].search[1] = t
            /\ stack[t][l].search[2] < l /\ search = stack[t][l].search
        BY <1>5, <1>6, <2>2 DEF Link, SameLinks
      <3>2. search[2] \in Nat
        BY IdIsPair
      <3> QED BY <1>5, <1>7, <3>1, <3>2
    <2> QED BY <1>5, <2>1, <2>2
  <1>12. parent # Nil => IsA("node", parent) /\ parent \in NodeIds
    <2> SUFFICES ASSUME parent # Nil PROVE IsA("node", parent)
      BY Knows DEF IInv, Known
    <2>1. CASE g.kind = "search"
      BY <1>5, <1>6, <2>1 DEF Link, SameLinks
    <2>2. CASE g.kind = "node"
      BY <1>5, <2>2, Knows DEF IInv, Known, SameLinks
    <2> QED BY <1>5, <2>1, <2>2
  <1>13. Link(t, k)'
    <2>1. IsA("search", search)'
      BY <1>10, <1>11
    <2>2. parent # Nil => IsA("node", parent)' /\ Frame(parent)'.depth = depth + 1
      <3> SUFFICES ASSUME parent # Nil
                   PROVE  IsA("node", parent)' /\ Frame(parent)'.depth = depth + 1
        OBVIOUS
      <3>1. Frame(parent).kind = "node"
        BY <1>12, Knows DEF IInv, Known
      <3>2. SameLinks(Frame(parent), Frame(parent)')
        BY <1>4, <1>12, NodesStay, PushEvolves DEF IInv
      <3> QED BY <1>10, <1>12, <3>1, <3>2 DEF SameLinks
    <2> QED BY <1>2, <1>5, <1>8, <1>9, <1>11, <2>1, <2>2, SMTT(30) DEF Link
  <1>14. Links'
    BY <1>4, <1>7, <1>13, PushKeepsLinks
  <1>15. Places'
    BY <1>2, <1>4, <1>8, <1>7, PushKeepsPlaces DEF Fits
  <1>16. Target(t, k)'
    BY <1>2, <1>9 DEF Target
  <1>17. Targets'
    BY <1>4, <1>5, <1>7, <1>14, <1>16, PushKeepsTargets DEF SameHelp, SameLinks
  <1>18. ASSUME NEW s \in Id, NEW n \in Id
         PROVE  Serves(s, n)' <=> Serves(s, n)
    <2>1. IsA("search", s)' <=> IsA("search", s)
      <3>1. CASE s[2] \in DOMAIN stack[s[1]]
        BY <1>4, <3>1, EvolvesNodes, PushEvolves, IdIsPair DEF IInv
      <3>2. CASE s[2] \notin DOMAIN stack[s[1]]
        <4>1. IsA("search", s)' => s = <<t, k>>
          BY <1>4, <1>7, <3>2, IdIsPair, PushEvolves, KnowsNext DEF IInv, Known
        <4>2. ~IsA("search", <<t, k>>)'
          BY <1>2, <1>8, <1>9 DEF IsA, Frame
        <4> QED BY <3>2, <4>1, <4>2, Knows DEF IInv, Known
      <3> QED BY <3>1, <3>2
    <2>2. IsA("search", s) => Frame(s)'.node = Frame(s).node
      BY <1>4, EvolvesNodes, PushEvolves, IdIsPair, Knows DEF IInv, Known, SameLinks
    <2>3. ASSUME s[2] > 1, NEW b \in Id, b = <<s[1], s[2] - 1>>
          PROVE  IsA("node", b)' /\ Frame(b)'.help = n <=> IsA("node", b) /\ Frame(b).help = n
      <3>1. CASE b \in NodeIds
        <4>1. IsA("node", b) /\ IsA("node", b)'
          BY <1>10, <3>1, Knows DEF IInv, Known
        <4>2. Frame(b)'.help = Frame(b).help
          <5>1. b[1] \in Threads /\ b[2] \in DOMAIN stack[b[1]] /\ Frame(b) = stack[b[1]][b[2]]
                /\ Frame(b)' = stack'[b[1]][b[2]] /\ Frame(b).kind = "node"
            BY <3>1, IdIsPair, Knows DEF IInv, Known, Frame
          <5>2. CASE b = <<t, l>>
            BY <1>4, <1>5, <5>1, <5>2, SMTT(30) DEF Pushes, SameHelp
          <5>3. CASE b # <<t, l>>
            BY <1>4, <5>1, <5>3, PushEvolves, IdIsPair DEF IInv
          <5> QED BY <5>2, <5>3
        <4> QED BY <4>1, <4>2
      <3>2. CASE b \notin NodeIds
        <4>1. ~IsA("node", b)
          BY <3>2, Knows DEF IInv, Known
        <4>2. IsA("node", b)' => b = <<t, k>>
          BY <1>4, <1>7, <3>2, PushEvolves, KnowsNext DEF IInv, Known
        <4>3. b = <<t, k>> => Frame(b)'.help = Nil
          BY <1>2, <1>9 DEF Frame
        <4> QED BY <4>1, <4>2, <4>3, NilIsNoId
      <3> QED BY <3>1, <3>2
    <2>4. s[2] > 1 => <<s[1], s[2] - 1>> \in Id
      BY DEF Id
    <2> QED BY <2>1, <2>2, <2>3, <2>4 DEF Serves
  <1>19. ASSUME NEW n \in NodeIds
         PROVE  Frame(n)'.slaves = Frame(n).slaves /\ (Frame(n)'.helping => Frame(n).helping)
    <2>1. /\ n[1] \in Threads /\ n[2] \in DOMAIN stack[n[1]] /\ Frame(n) = stack[n[1]][n[2]]
          /\ Frame(n)' = stack'[n[1]][n[2]] /\ Frame(n).kind = "node" /\ n = <<n[1], n[2]>>
      BY IdIsPair, Knows DEF IInv, Known, Frame
    <2>2. CASE n = <<t, l>>
      <3>1. stack'[t][l] = g
        BY <1>4 DEF Pushes
      <3>2. Frame(n)' = g /\ Frame(n) = Frame(Top(t))
        BY <1>5, <2>1, <2>2, <3>1
      <3> QED BY <2>1, <3>2 DEF SameHelp
    <2>3. CASE n # <<t, l>>
      BY <1>4, <2>1, <2>3, PushEvolves DEF IInv
    <2> QED BY <2>2, <2>3
  <1>20. \A n \in NodeIds' : n \in Id /\ (n \in NodeIds \/ n = <<t, k>>)
    BY <1>4, <1>7, PushEvolves, KnowsNext DEF IInv, Known
  <1>21. Frame(<<t, k>>)' = h
    BY <1>9 DEF Frame
  <1>22. SlavesInv' /\ HasSlaves'
    <2>1. ASSUME NEW n \in NodeIds', NEW s \in Id
          PROVE  s \in Frame(n)'.slaves <=> Serves(s, n)'
      <3>1. CASE n \in NodeIds
        BY <1>18, <1>19, <3>1, Knows DEF IInv, SlavesInv, Known
      <3>2. CASE n = <<t, k>>
        BY <1>2, <1>8, <1>18, <1>21, <3>2, ServedAreNodes
      <3> QED BY <1>20, <3>1, <3>2
    <2>2. ASSUME NEW n \in NodeIds', Frame(n)'.helping PROVE Frame(n)'.slaves # {}
      BY <1>2, <1>19, <1>20, <1>21, <2>2 DEF IInv, HasSlaves
    <2> QED BY <2>1, <2>2 DEF SlavesInv, HasSlaves
  <1>23. IdleInv'
    BY <1>4, PushKeepsIdle
  <1>24. Order'
    <2>1. ASSUME NEW id \in Id, Helping(id)' PROVE Helping(id)
      <3>1. id \in NodeIds'
        BY <2>1, KnowsNext, <1>4 DEF Helping, Known
      <3>2. id \in NodeIds
        BY <1>2, <1>20, <1>21, <2>1, <3>1 DEF Helping
      <3> QED BY <1>19, <2>1, <3>2, Knows DEF Helping, IInv, Known
    <2>2. ASSUME NEW u \in Threads, NEW j \in DOMAIN stack'[u]
          PROVE  \/ Seeks(stack'[u][j]) = Nil
                 \/ /\ j \in DOMAIN stack[u]
                    /\ Seeks(stack[u][j]) = Seeks(stack'[u][j]) /\ Seeks(stack[u][j]) \in Id
      <3>1. CASE j \notin DOMAIN stack[u]
        <4>1. u = t /\ j = k
          BY <1>4, <1>7, <3>1, PushEvolves DEF IInv
        <4> QED BY <1>2, <1>9, <4>1 DEF Seeks
      <3>2. CASE j \in DOMAIN stack[u]
        <4>1. stack[u][j] \in Frames
          BY <3>2, Lens DEF IInv, Typed
        <4>2. Seeks(stack[u][j]) \in Id \cup {Nil}
          BY <4>1, Kinds DEF Seeks, SearchFrames, NodeFrames
        <4>3. CASE <<u, j>> # <<t, l>>
          BY <1>4, <3>2, <4>2, <4>3, PushEvolves DEF IInv
        <4>4. CASE <<u, j>> = <<t, l>>
          <5>1. stack'[u][j] = g /\ stack[u][j] = Frame(Top(t))
            BY <1>4, <1>5, <4>4 DEF Pushes
          <5> QED BY <1>5, <3>2, <4>1, <4>2, <5>1, Kinds DEF Seeks, SameLinks, SameHelp
        <4> QED BY <4>3, <4>4
      <3> QED BY <3>1, <3>2
    <2>3. ASSUME NEW u \in Threads, NEW j \in DOMAIN stack'[u]
          PROVE  \/ Seeks(stack'[u][j]) = Nil
                 \/ \E i \in DOMAIN stack[u] :
                      /\ Seeks(stack[u][i]) = Seeks(stack'[u][j])
                      /\ Seeks(stack[u][i]) \in Id
                      /\ \A m \in DOMAIN stack'[u] : m <= j /\ Helping(<<u, m>>)' => m <= i
      BY <2>2
    <2> QED BY <1>4, <2>1, <2>3, OrderStays DEF IInv
  <1> QED BY <1>4, <1>14, <1>15, <1>17, <1>22, <1>23, <1>24 DEF IInv

LEMMA RunKeeps ==
  ASSUME IInv, Run
  PROVE  IInv'
  <1> DEFINE f == Frame(Top(Main))
             g == [f EXCEPT !.pc = "ran"]
  <1>1. Main \in Threads /\ At(Main, "search", "run")
    BY DEF Run, Threads
  <1>2. stack[Main] # <<>> /\ f \in SearchFrames /\ f.pc = "run" /\ f.kind = "search"
    BY <1>1, SearchOnTop DEF IInv
  <1>3. /\ Fits(Main, Len(stack[Main]), f) /\ Link(Main, Len(stack[Main]))
        /\ f = stack[Main][Len(stack[Main])] /\ Top(Main) = <<Main, Len(stack[Main])>>
        /\ Top(Main) \in Id
    BY <1>1, <1>2, OnTop DEF IInv, Places, Place, Links
  <1>4. Len(stack[Main]) = 1 /\ f.node = Nil
    BY <1>1, <1>2, <1>3 DEF Fits, Link
  <1>5. g \in SearchFrames /\ g.kind = "search" /\ g.node = Nil /\ g.pc = "ran"
    BY <1>2, <1>4 DEF SearchFrames
  <1>6. SameLinks(f, g) /\ SameHelp(f, g) /\ Fits(Main, Len(stack[Main]), g)
    BY <1>1, <1>2, <1>3, <1>4, <1>5 DEF SameLinks, SameHelp, Fits
  <1>7. stack' = Pushed(With(Top(Main), g), Main, NewNode(<<Main, 1>>, Depth, Nil))
    BY <1>1, <1>2, OnTop DEF Run, Gone, With, IInv
  <1>8. Depth \in Nat /\ opened' \in 0 .. MaxNodes /\ idle' = idle
    BY TreeAssumption DEF TreeAssumption, Run
  <1>9. <<Main, 1>> = Top(Main) /\ <<Main, 1>> \in Id /\ g \in Frames
    BY <1>3, <1>4, <1>5 DEF Frames
  <1> HIDE DEF g
  <1> QED BY <1>1, <1>2, <1>3, <1>4, <1>5, <1>6, <1>7, <1>8, <1>9, OpenStep

LEMMA SearchMoveKeeps ==
  ASSUME IInv, NEW t \in Threads, SearchMove(t)
  PROVE  IInv'
  <1> DEFINE f == Frame(Top(t))
             g == [f EXCEPT !.pc = "update"]
  <1>1. stack[t] # <<>> /\ f \in NodeFrames /\ f.pc = "search" /\ f.kind = "node"
    BY NodeOnTop DEF SearchMove, IInv
  <1>2. Fits(t, Len(stack[t]), f) /\ Top(t) \in Id
    BY <1>1, OnTop DEF IInv, Places, Place
  <1>3. g \in NodeFrames /\ g.kind = "node" /\ g.pc = "update" /\ g.asks = f.asks
        /\ g.search = f.search
    BY <1>1 DEF NodeFrames
  <1>4. SameLinks(f, g) /\ SameHelp(f, g) /\ Fits(t, Len(stack[t]), g)
    BY <1>1, <1>2 DEF SameLinks, SameHelp, Fits, NodeFrames
  <1>5. stack' = Pushed(With(Top(t), g), t, NewNode(f.search, f.depth - 1, Top(t)))
    BY <1>1, OnTop DEF SearchMove, Open, Gone, With, IInv
  <1>6. f.depth - 1 \in Nat /\ f.depth = (f.depth - 1) + 1 /\ f.search \in Id
    BY <1>1 DEF SearchMove, Open, NodeFrames
  <1>7. opened' \in 0 .. MaxNodes /\ idle' = idle
    BY TreeAssumption DEF TreeAssumption, SearchMove, Open, IInv, Typed
  <1> DEFINE depth == f.depth - 1
  <1>8. Top(t) # Nil
    BY <1>2, NilIsNoId
  <1> HIDE DEF g, depth
  <1> QED BY <1>1, <1>2, <1>3, <1>4, <1>5, <1>6, <1>7, <1>8, OpenStep DEF depth, Frames

LEMMA LoopOpenKeeps ==
  ASSUME IInv, NEW t \in Threads, At(t, "search", "loop"),
         Open(t, Top(t), Frame(Top(t)).node, "report")
  PROVE  IInv'
  <1> DEFINE f == Frame(Top(t))
             g == [f EXCEPT !.pc = "report"]
             depth == Frame(f.node).depth - 1
  <1>1. stack[t] # <<>> /\ f \in SearchFrames /\ f.pc = "loop" /\ f.kind = "search"
    BY SearchOnTop DEF IInv
  <1>2. Fits(t, Len(stack[t]), f) /\ Top(t) \in Id
    BY <1>1, OnTop DEF IInv, Places, Place
  <1>3. g \in SearchFrames /\ g.kind = "search" /\ g.pc = "report" /\ g.node = f.node
    BY <1>1 DEF SearchFrames
  <1>4. SameLinks(f, g) /\ SameHelp(f, g) /\ Fits(t, Len(stack[t]), g)
    BY <1>1, <1>2, <1>3 DEF SameLinks, SameHelp, Fits
  <1>5. stack' = Pushed(With(Top(t), g), t, NewNode(Top(t), depth, f.node))
    BY <1>1, OnTop DEF Open, Gone, With, IInv
  <1>6. f.node \in NodeIds /\ f.node \in Id /\ Frame(f.node) \in NodeFrames
    BY <1>1, ServedIs
  <1>7. depth \in Nat /\ Frame(f.node).depth = depth + 1 /\ f.node # Nil
    BY <1>6, NilIsNoId DEF Open, NodeFrames
  <1>8. opened' \in 0 .. MaxNodes /\ idle' = idle
    BY TreeAssumption DEF TreeAssumption, Open, IInv, Typed
  <1> HIDE DEF g, depth
  <1> QED BY <1>1, <1>2, <1>3, <1>4, <1>5, <1>6, <1>7, <1>8, OpenStep DEF Frames

(* A master that is called begins to search for the node it is called to.   *)
LEMMA HelpKeeps ==
  ASSUME IInv, NEW t \in Threads, Help(t)
  PROVE  IInv'
  <1> DEFINE l == Len(stack[t])
             f == Frame(Top(t))
  <1>1. /\ stack[t] # <<>> /\ f \in NodeFrames /\ f.pc = "sleep" /\ f.kind = "node"
        /\ f.helping /\ Top(t) \in NodeIds
    BY NodeOnTop DEF Help, IInv
  <1>2. /\ l \in DOMAIN stack[t] /\ l \in Nat \ {0} /\ Top(t) = <<t, l>> /\ Top(t) \in Id
        /\ f = stack[t][l] /\ Fits(t, l, f) /\ Target(t, l)
    BY <1>1, OnTop DEF IInv, Places, Place, Targets
  <1>3. PICK n : n = f.help
    OBVIOUS
  <1>4. n \in NodeIds /\ n \in Id /\ Top(t) \in Above(n)
    <2>1. IsA("node", n) /\ Top(t) \in Above(n)
      BY <1>1, <1>2, <1>3 DEF Fits, Target
    <2>2. n \in Id
      BY <1>1, <1>3, <2>1 DEF NodeFrames, IsA
    <2> QED BY <2>1, <2>2, Knows DEF IInv, Known
  <1>5. PICK g : g = [f EXCEPT !.pc = "help", !.help = Nil]
    OBVIOUS
  <1>6. PICK h : h = Searching("begin", "END", n)
    OBVIOUS
  <1>7. g \in NodeFrames /\ g.kind = "node" /\ g.pc = "help" /\ g.help = Nil
        /\ g.asks = f.asks /\ g.slaves = f.slaves /\ g.helping = f.helping
    BY <1>1, <1>5 DEF NodeFrames
  <1>8. h \in SearchFrames /\ h.kind = "search" /\ h.pc = "begin" /\ h.node = n
    BY <1>4, <1>6, NilIsNoId DEF Searching, SearchFrames, State
  <1>9. SameLinks(f, g) /\ Fits(t, l, g) /\ Fits(t, l + 1, h)
    BY <1>1, <1>2, <1>5, <1>7, <1>8 DEF SameLinks, Fits, NodeFrames
  <1>10. stack' = Pushed(With(Top(t), g), t, h)
    BY <1>3, <1>5, <1>6 DEF Help
  <1>11. g \in Frames /\ h \in Frames
    BY <1>7, <1>8 DEF Frames
  <1>12. Typed' /\ Pushes(t, g, h)
    BY <1>1, <1>9, <1>10, <1>11, PushIs DEF Help, IInv, Typed
  <1>13. PICK k : k = l + 1
    OBVIOUS
  <1>14. /\ k \in Nat \ {0} /\ k > 1 /\ k - 1 = l /\ <<t, k>> \in Id
         /\ k \notin DOMAIN stack[t] /\ k \in DOMAIN stack'[t]
         /\ stack'[t][k] = h /\ stack'[t][k - 1] = g
    <2>1. /\ k \notin DOMAIN stack[t] /\ k \in DOMAIN stack'[t]
          /\ stack'[t][k] = h /\ stack'[t][l] = g
      BY <1>1, <1>12, <1>13, PushEvolves DEF IInv
    <2>2. <<t, k>> \in Id
      BY <1>2, <1>13 DEF Id
    <2> QED BY <1>2, <1>13, <2>1, <2>2
  <1>15. Evolves /\ NodeIds' = NodeIds
    <2>1. \A m \in NodeIds' : m \in NodeIds
      BY <1>1, <1>8, <1>12, PushEvolves DEF IInv
    <2> QED BY <1>1, <1>12, <2>1, PushEvolves DEF IInv
  <1>16. Links'
    <2>1. IsA("node", n)'
      BY <1>4, <1>15, <1>12, KnowsNext DEF Known
    <2>2. Link(t, k)'
      BY <1>7, <1>8, <1>14, <2>1 DEF Link
    <2> QED BY <1>1, <1>12, <1>13, <2>2, PushKeepsLinks
  <1>17. Places'
    BY <1>1, <1>7, <1>8, <1>9, <1>12, PushKeepsPlaces
  <1>18. Targets'
    <2>1. ASSUME NEW a \in Id, a = Top(t) PROVE a \in Above(n)'
      BY <1>1, <1>4, <1>12, <1>15, <2>1, AboveKept DEF IInv
    <2>2. <<t, k - 1>> \in Above(n)'
      BY <1>2, <1>14, <2>1
    <2>3. Target(t, k)'
      BY <1>8, <1>14, <2>2 DEF Target
    <2> QED BY <1>1, <1>2, <1>7, <1>12, <1>13, <1>16, <2>3, PushKeepsTargets
  <1>19. ASSUME NEW m \in NodeIds
         PROVE  /\ Frame(m)'.slaves = Frame(m).slaves /\ Frame(m)'.helping = Frame(m).helping
                /\ m # Top(t) => Frame(m)' = Frame(m)
                /\ m = Top(t) => Frame(m)'.help = Nil
    <2>1. /\ m[1] \in Threads /\ m[2] \in DOMAIN stack[m[1]] /\ Frame(m) = stack[m[1]][m[2]]
          /\ Frame(m)' = stack'[m[1]][m[2]] /\ Frame(m).kind = "node" /\ m = <<m[1], m[2]>>
      BY IdIsPair, Knows DEF IInv, Known, Frame
    <2>2. CASE m = <<t, l>>
      <3>1. Frame(m)' = g /\ Frame(m) = f
        BY <1>2, <1>14, <2>1, <2>2
      <3> QED BY <1>2, <1>7, <2>2, <3>1
    <2>3. CASE m # <<t, l>>
      BY <1>1, <1>2, <1>12, <2>1, <2>3, PushEvolves DEF IInv
    <2> QED BY <2>2, <2>3
  <1>20. ASSUME NEW s \in Id, NEW m \in Id
         PROVE  Serves(s, m)' <=> Serves(s, m)
    <2>1. PICK b : b = <<s[1], s[2] - 1>>
      OBVIOUS
    <2>2. s[2] > 1 => b \in Id
      BY <2>1 DEF Id
    <2>3. Serves(s, m) <=> \/ IsA("search", s) /\ Frame(s).node = m
                           \/ s[2] > 1 /\ b \in NodeIds /\ Frame(b).help = m
      BY <2>1, <2>2, Knows DEF IInv, Known, Serves
    <2>4. Serves(s, m)' <=> \/ IsA("search", s)' /\ Frame(s)'.node = m
                            \/ s[2] > 1 /\ b \in NodeIds /\ Frame(b)'.help = m
      <3>1. s[2] > 1 => (IsA("node", b)' <=> b \in NodeIds)
        BY <1>12, <1>15, <2>2, KnowsNext DEF Known
      <3> QED BY <2>1, <3>1 DEF Serves
    <2>5. CASE s = <<t, k>>
      <3>1. ~IsA("search", s) /\ IsA("search", s)' /\ Frame(s)'.node = n
        BY <1>8, <1>12, <1>14, <2>5, Knows, KnowsNext DEF IInv, Known, Frame
      <3>2. b = Top(t) /\ s[2] > 1
        BY <1>2, <1>14, <2>1, <2>5
      <3> QED BY <1>1, <1>3, <1>19, <2>3, <2>4, <3>1, <3>2, NilIsNoId
    <2>6. CASE s # <<t, k>>
      <3>1. IsA("search", s)' <=> IsA("search", s)
        <4>1. CASE s[2] \in DOMAIN stack[s[1]]
          BY <1>1, <1>12, <4>1, EvolvesNodes, PushEvolves, IdIsPair DEF IInv
        <4>2. CASE s[2] \notin DOMAIN stack[s[1]]
          <5>1. s[2] \notin DOMAIN stack'[s[1]]
            BY <1>1, <1>12, <1>13, <2>6, <4>2, IdIsPair, PushEvolves DEF IInv
          <5> QED BY <1>12, <4>2, <5>1, Knows, KnowsNext DEF IInv, Known
        <4> QED BY <4>1, <4>2
      <3>2. IsA("search", s) => Frame(s)'.node = Frame(s).node
        BY <1>1, <1>12, EvolvesNodes, PushEvolves, IdIsPair, Knows DEF IInv, Known, SameLinks
      <3>3. s[2] > 1 => b # Top(t)
        <4>1. s = <<s[1], s[2]>> /\ s[2] \in Nat
          BY IdIsPair
        <4> QED BY <1>2, <1>13, <2>1, <2>6, <4>1
      <3> QED BY <1>19, <2>3, <2>4, <3>1, <3>2, <3>3
    <2> QED BY <2>5, <2>6
  <1>21. SlavesInv' /\ HasSlaves'
    BY <1>15, <1>19, <1>20, Knows DEF IInv, Known, SlavesInv, HasSlaves
  <1>22. IdleInv'
    BY <1>1, <1>12, PushKeepsIdle DEF Help
  <1>23. Order'
    <2>1. ASSUME NEW id \in Id, Helping(id)' PROVE Helping(id)
      BY <1>12, <1>15, <1>19, <2>1, Knows, KnowsNext DEF Helping, IInv, Known
    <2>2. ~Helping(<<t, k>>)'
      BY <1>8, <1>14 DEF Helping, IsA, Frame
    <2>3. ASSUME NEW u \in Threads, NEW j \in DOMAIN stack'[u], Seeks(stack'[u][j]) # Nil
          PROVE  \E i \in DOMAIN stack[u] :
                   /\ Seeks(stack[u][i]) = Seeks(stack'[u][j])
                   /\ Seeks(stack[u][i]) \in Id
                   /\ \A m \in DOMAIN stack'[u] : m <= j /\ Helping(<<u, m>>)' => m <= i
      <3>1. CASE u = t /\ j = k
        <4>1. Seeks(stack[t][l]) = n /\ Seeks(stack'[t][k]) = n
          BY <1>1, <1>2, <1>3, <1>4, <1>8, <1>14, NilIsNoId DEF Seeks
        <4>2. ASSUME NEW m \in DOMAIN stack'[t], m <= k, Helping(<<t, m>>)' PROVE m <= l
          <5>1. m # k /\ m \in Nat
            BY <1>12, <2>2, <4>2, Lens DEF Typed
          <5> QED BY <1>2, <1>13, <4>2, <5>1
        <4> QED BY <1>2, <1>4, <3>1, <4>1, <4>2
      <3>2. CASE u = t /\ j = l
        BY <1>7, <1>14, <2>3, <3>2 DEF Seeks
      <3>3. CASE ~(u = t /\ j = k) /\ ~(u = t /\ j = l)
        <4>1. j \in DOMAIN stack[u]
          BY <1>1, <1>12, <1>13, <3>3, PushEvolves DEF IInv
        <4>2. stack'[u][j] = stack[u][j]
          BY <1>1, <1>12, <3>3, <4>1, PushEvolves DEF IInv
        <4>3. stack[u][j] \in Frames
          BY <4>1, Lens DEF IInv, Typed
        <4>4. Seeks(stack[u][j]) \in Id \cup {Nil}
          BY <4>3, Kinds DEF Seeks, SearchFrames, NodeFrames
        <4> QED BY <2>3, <4>1, <4>2, <4>4
      <3> QED BY <3>1, <3>2, <3>3
    <2> QED BY <1>12, <2>1, <2>3, OrderStays DEF IInv
  <1> QED BY <1>12, <1>16, <1>17, <1>18, <1>21, <1>22, <1>23 DEF IInv

-----------------------------------------------------------------------------
(* The help that a master is called to, its end, and a worker's call.       *)

LEMMA HelpEndsKeeps ==
  ASSUME IInv, NEW t \in Threads, HelpEnds(t)
  PROVE  IInv'
  <1> DEFINE f == Frame(Top(t))
             g == [f EXCEPT !.helping = FALSE, !.pc = "sleep"]
  <1>1. /\ stack[t] # <<>> /\ f \in NodeFrames /\ f.pc = "help" /\ f.kind = "node"
        /\ Top(t) \in NodeIds /\ Top(t) \in Id
    BY NodeOnTop, OnTop DEF HelpEnds, IInv
  <1>2. Fits(t, Len(stack[t]), f)
    BY <1>1, OnTop DEF IInv, Places, Place
  <1>3. f.slaves # {}
    BY <1>1, <1>2 DEF Fits, IInv, HasSlaves
  <1>4. stack' = With(Top(t), g)
    BY <1>3 DEF HelpEnds
  <1>5. g \in NodeFrames
    BY <1>1 DEF NodeFrames
  <1>6. Fits(t, Len(stack[t]), g) /\ SameLinks(f, g) /\ SameHelp(f, g) /\ g.asks = f.asks
        /\ g.pc # "lock"
    BY <1>1, <1>2 DEF NodeFrames, Fits, SameLinks, SameHelp
  <1> QED BY <1>1, <1>4, <1>5, <1>6, NodeStep DEF HelpEnds

(* A master that waits is called to help at t's node: no node that helps is  *)
(* called later.                                                            *)
LEMMA CallKeeps ==
  ASSUME IInv, NEW t \in Threads, GetHelper(t), CanHelp(Frame(Frame(Top(t)).asks))
  PROVE  IInv'
  <1> DEFINE l == Len(stack[t])
             f == Frame(Top(t))
  <1>1. /\ stack[t] # <<>> /\ f \in NodeFrames /\ f.pc = "lock" /\ f.kind = "node"
        /\ Top(t) \in NodeIds
    BY NodeOnTop DEF GetHelper, IInv
  <1>2. /\ l \in DOMAIN stack[t] /\ l \in Nat \ {0} /\ Top(t) = <<t, l>> /\ Top(t) \in Id
        /\ f = stack[t][l] /\ Fits(t, l, f)
    BY <1>1, OnTop DEF IInv, Places, Place
  <1>3. PICK a : a = f.asks
    OBVIOUS
  <1>4. PICK e : e = Frame(a)
    OBVIOUS
  <1>5. /\ a \in Id /\ a \in NodeIds /\ a \in Above(Top(t)) /\ e \in NodeFrames
        /\ e.slaves # {} /\ e.waiting /\ ~e.helping
    <2>1. f.asks # Nil
      BY <1>1, <1>2 DEF Fits
    <2> QED BY <1>1, <1>3, <1>4, <2>1, AskedAreAbove DEF CanHelp
  <1>6. /\ a[1] \in Threads /\ a[2] \in DOMAIN stack[a[1]] /\ e = stack[a[1]][a[2]]
        /\ a = <<a[1], a[2]>> /\ e.kind = "node" /\ a[2] \in Nat \ {0}
    BY <1>4, <1>5, IdIsPair, Knows DEF IInv, Known, Frame
  <1>7. /\ e.pc = "sleep" /\ e.help = Nil /\ e.asks = Nil /\ a[2] = Len(stack[a[1]])
        /\ a # Top(t)
    <2>1. Place(a[1], a[2])
      BY <1>6 DEF IInv, Places
    <2>2. e.pc = "sleep"
      BY <1>3, <1>4, <1>5, <1>6, <2>1 DEF Place, Fits, GetHelper, Held
    <2>3. e.help = Nil /\ e.asks = Nil
      BY <1>5, <1>6, <2>1, <2>2 DEF Place, Fits
    <2>4. ~(a[2] < Len(stack[a[1]]))
      BY <1>6, <2>1, <2>2 DEF Place
    <2>5. a[2] \in 1 .. Len(stack[a[1]]) /\ Len(stack[a[1]]) \in Nat
      BY <1>6, Lens DEF IInv, Typed
    <2> QED BY <1>1, <1>4, <2>2, <2>3, <2>4, <2>5
  <1>8. PICK helper : helper = <<a[1], a[2] + 1>>
    OBVIOUS
  <1>9. /\ helper \in Id /\ helper[1] = a[1] /\ helper[2] = a[2] + 1 /\ helper[2] > 1
        /\ <<helper[1], helper[2] - 1>> = a /\ helper[2] \notin DOMAIN stack[helper[1]]
    <2>1. a[2] + 1 \notin DOMAIN stack[a[1]]
      BY <1>6, <1>7, Lens DEF IInv, Typed
    <2> QED BY <1>6, <1>8, <2>1 DEF Id
  <1>10. PICK g : g = [f EXCEPT !.pc = "search", !.asks = Nil, !.slaves = f.slaves \cup {helper}]
    OBVIOUS
  <1>11. PICK h : h = [e EXCEPT !.helping = TRUE, !.help = Top(t)]
    OBVIOUS
  <1>12. /\ g \in NodeFrames /\ g.kind = "node" /\ g.pc = "search" /\ g.asks = Nil
         /\ g.slaves = f.slaves \cup {helper} /\ g.helping = f.helping /\ g.help = f.help
         /\ SameLinks(f, g) /\ Fits(t, l, g)
    BY <1>1, <1>2, <1>9, <1>10 DEF NodeFrames, SameLinks, Fits
  <1>13. /\ h \in NodeFrames /\ h.kind = "node" /\ h.pc = "sleep" /\ h.asks = Nil
         /\ h.slaves = e.slaves /\ h.helping = TRUE /\ h.help = Top(t)
         /\ SameLinks(e, h) /\ Fits(a[1], a[2], h)
    BY <1>2, <1>5, <1>6, <1>7, <1>11, NilIsNoId DEF NodeFrames, SameLinks, Fits
  <1> DEFINE r == Put(stack, t, l, g)
  <1>14. /\ r \in Stacks
         /\ \A u \in Threads : DOMAIN r[u] = DOMAIN stack[u] /\ Len(r[u]) = Len(stack[u])
         /\ \A u \in Threads : \A k \in DOMAIN stack[u] :
              r[u][k] = IF u = t /\ k = l THEN g ELSE stack[u][k]
    BY <1>2, <1>12, Replaced DEF IInv, Typed, Frames
  <1>15. r[a[1]][a[2]] = e
    BY <1>2, <1>6, <1>7, <1>14
  <1>16. stack' = Put(r, a[1], a[2], h)
    <2>1. stack' = [With(Top(t), g) EXCEPT ![a[1]][a[2]].helping = TRUE,
                                           ![a[1]][a[2]].help = Top(t)]
      BY <1>3, <1>8, <1>10 DEF GetHelper
    <2>2. With(Top(t), g) = r
      BY <1>2 DEF With, Put
    <2> HIDE DEF r
    <2>3. [r EXCEPT ![a[1]][a[2]].helping = TRUE, ![a[1]][a[2]].help = Top(t)]
          = Put(r, a[1], a[2], [r[a[1]][a[2]] EXCEPT !.helping = TRUE, !.help = Top(t)])
      BY <1>6, <1>14 DEF Put, Stacks
    <2> QED BY <1>11, <1>15, <2>1, <2>2, <2>3
  <1> HIDE DEF r
  <1>17. /\ stack' \in Stacks
         /\ \A u \in Threads : DOMAIN stack'[u] = DOMAIN stack[u] /\ Len(stack'[u]) = Len(stack[u])
         /\ \A u \in Threads : \A k \in DOMAIN stack[u] :
              stack'[u][k] = IF u = a[1] /\ k = a[2] THEN h
                             ELSE IF u = t /\ k = l THEN g ELSE stack[u][k]
    BY <1>6, <1>13, <1>14, <1>16, Replaced DEF Frames
  <1>18. Typed' /\ Evolves
    <2>1. Typed'
      BY <1>17 DEF Typed, IInv, GetHelper
    <2>2. ASSUME NEW u \in Threads, NEW k \in DOMAIN stack[u]
          PROVE  SameLinks(stack[u][k], stack'[u][k])
      <3>1. SameLinks(stack[u][k], stack[u][k])
        BY DEF SameLinks
      <3> QED BY <1>2, <1>6, <1>12, <1>13, <1>17, <3>1
    <2> QED BY <2>1, <2>2 DEF Evolves
  <1>19. /\ NodeIds' = NodeIds
         /\ \A id \in Id : \A kind : IsA(kind, id)' <=> IsA(kind, id)
    <2>1. ASSUME NEW id \in Id, NEW kind PROVE IsA(kind, id)' <=> IsA(kind, id)
      <3>1. id[2] \in DOMAIN stack'[id[1]] <=> id[2] \in DOMAIN stack[id[1]]
        BY <1>17, IdIsPair
      <3> QED BY <1>18, <3>1, EvolvesNodes, Knows, KnowsNext DEF IInv, Known
    <2> QED BY <1>18, <2>1, Knows, KnowsNext DEF IInv, Known
  <1>20. Links'
    <2>1. stack'[Main] # <<>>
      <3>1. Main \in Threads
        BY DEF Threads
      <3> QED BY <1>17, <1>18, <3>1, Lens DEF Links, Typed, IInv
    <2> QED BY <1>17, <1>18, <1>19, <2>1, LinksStay DEF IInv
  <1>21. Places'
    <2> SUFFICES ASSUME NEW u \in Threads, NEW i \in DOMAIN stack'[u]
                 PROVE  \/ Place(u, i)'
                        \/ /\ i \in DOMAIN stack[u] /\ Same(stack[u][i], stack'[u][i])
                           /\ i < Len(stack'[u]) =>
                                /\ i < Len(stack[u])
                                /\ stack'[u][i + 1].kind = stack[u][i + 1].kind
      BY <1>18, PlacesStay DEF IInv
    <2>1. CASE u = t /\ i = l
      <3>1. stack'[u][i] = g /\ ~(i < Len(stack'[u]))
        BY <1>2, <1>6, <1>7, <1>17, <2>1
      <3> QED BY <1>12, <2>1, <3>1 DEF Place
    <2>2. CASE u = a[1] /\ i = a[2]
      <3>1. stack'[u][i] = h /\ ~(i < Len(stack'[u]))
        BY <1>6, <1>7, <1>17, <2>2
      <3> QED BY <1>13, <2>2, <3>1 DEF Place
    <2>3. CASE ~(u = t /\ i = l) /\ ~(u = a[1] /\ i = a[2])
      <3>1. i \in DOMAIN stack[u] /\ stack'[u][i] = stack[u][i]
        BY <1>17, <2>3
      <3>2. i < Len(stack[u]) => i + 1 \in DOMAIN stack[u]
        BY <3>1, Lens DEF Typed, IInv
      <3> QED BY <1>17, <1>18, <3>1, <3>2 DEF Evolves, Same, SameLinks
    <2> QED BY <2>1, <2>2, <2>3
  <1>22. Targets'
    <2> SUFFICES ASSUME NEW u \in Threads, NEW i \in DOMAIN stack[u], stack[u][i].kind = "node"
                 PROVE  /\ \/ stack'[u][i].help \in {stack[u][i].help, Nil}
                           \/ /\ stack'[u][i].help \in NodeIds \cap NodeIds'
                              /\ <<u, i>> \in Above(stack'[u][i].help)
                        /\ stack'[u][i].asks \in {stack[u][i].asks, Nil}
      BY <1>17, <1>18, <1>19, <1>20, TargetsStay DEF IInv
    <2>1. CASE u = t /\ i = l
      BY <1>2, <1>6, <1>7, <1>12, <1>17, <2>1
    <2>2. CASE u = a[1] /\ i = a[2]
      BY <1>1, <1>5, <1>6, <1>13, <1>17, <1>19, <2>2
    <2>3. CASE ~(u = t /\ i = l) /\ ~(u = a[1] /\ i = a[2])
      BY <1>17, <2>3
    <2> QED BY <2>1, <2>2, <2>3
  <1>23. ASSUME NEW m \in NodeIds
         PROVE  Frame(m)' = IF m = a THEN h ELSE IF m = Top(t) THEN g ELSE Frame(m)
    <2>1. /\ m[1] \in Threads /\ m[2] \in DOMAIN stack[m[1]] /\ Frame(m) = stack[m[1]][m[2]]
          /\ Frame(m)' = stack'[m[1]][m[2]] /\ Frame(m).kind = "node" /\ m = <<m[1], m[2]>>
      BY IdIsPair, Knows DEF IInv, Known, Frame
    <2> QED BY <1>2, <1>6, <1>17, <2>1
  <1>24. ASSUME NEW s \in Id, NEW m \in Id
         PROVE  Serves(s, m)' <=> Serves(s, m) \/ (s = helper /\ m = Top(t))
    <2>1. PICK b : b = <<s[1], s[2] - 1>>
      OBVIOUS
    <2>2. s[2] > 1 => b \in Id
      BY <2>1 DEF Id
    <2>3. Serves(s, m) <=> \/ IsA("search", s) /\ Frame(s).node = m
                           \/ s[2] > 1 /\ b \in NodeIds /\ Frame(b).help = m
      BY <2>1, <2>2, Knows DEF IInv, Known, Serves
    <2>4. Serves(s, m)' <=> \/ IsA("search", s)' /\ Frame(s)'.node = m
                            \/ s[2] > 1 /\ b \in NodeIds /\ Frame(b)'.help = m
      BY <1>19, <2>1, <2>2, Knows DEF IInv, Known, Serves
    <2>5. /\ IsA("search", s)' <=> IsA("search", s)
          /\ IsA("search", s) => Frame(s)'.node = Frame(s).node
      <3>1. IsA("search", s) => SameLinks(Frame(s), Frame(s)') /\ Frame(s).kind = "search"
        BY <1>17, <1>18, EvolvesNodes, IdIsPair, Knows DEF IInv, Known
      <3> QED BY <1>19, <3>1 DEF SameLinks
    <2>6. CASE s = helper
      <3>1. b = a /\ s[2] > 1 /\ ~IsA("search", s)
        BY <1>9, <2>1, <2>6, Knows DEF IInv, Known
      <3>2. Frame(b).help = Nil /\ Frame(b)'.help = Top(t) /\ b \in NodeIds
        BY <1>4, <1>5, <1>7, <1>13, <1>23, <3>1
      <3> QED BY <2>3, <2>4, <2>5, <2>6, <3>1, <3>2, NilIsNoId
    <2>7. CASE s # helper
      <3>1. s[2] > 1 => b # a
        <4>1. s = <<s[1], s[2]>> /\ s[2] \in Nat
          BY IdIsPair
        <4> QED BY <1>6, <1>8, <2>1, <2>7, <4>1
      <3>2. s[2] > 1 /\ b \in NodeIds => Frame(b)'.help = Frame(b).help
        BY <1>12, <1>23, <3>1
      <3> QED BY <2>3, <2>4, <2>5, <2>7, <3>2
    <2> QED BY <2>6, <2>7
  <1>25. SlavesInv' /\ HasSlaves'
    <2>1. ASSUME NEW m \in NodeIds, NEW s \in Id
          PROVE  s \in Frame(m)'.slaves <=> Serves(s, m)'
      <3>1. s \in Frame(m).slaves <=> Serves(s, m)
        BY DEF IInv, SlavesInv
      <3>2. m \in Id
        BY Knows DEF IInv, Known
      <3>3. s \in Frame(m)'.slaves <=> s \in Frame(m).slaves \/ (s = helper /\ m = Top(t))
        BY <1>4, <1>7, <1>12, <1>13, <1>23
      <3> QED BY <1>24, <3>1, <3>2, <3>3
    <2>2. ASSUME NEW m \in NodeIds, Frame(m)'.helping PROVE Frame(m)'.slaves # {}
      <3>1. CASE m = a
        BY <1>5, <1>13, <1>23, <3>1
      <3>2. CASE m # a
        <4>1. Frame(m).helping /\ Frame(m).slaves \subseteq Frame(m)'.slaves
          BY <1>12, <1>23, <2>2, <3>2
        <4> QED BY <4>1 DEF IInv, HasSlaves
      <3> QED BY <3>1, <3>2
    <2> QED BY <1>19, <2>1, <2>2 DEF SlavesInv, HasSlaves
  <1>26. IdleInv'
    <2> SUFFICES ASSUME NEW w \in idle PROVE stack'[w] = <<>>
      BY DEF IdleInv, GetHelper
    <2>1. w \in Threads /\ stack[w] = <<>>
      BY DEF IInv, Typed, IdleInv, Threads
    <2> QED BY <1>17, <1>18, <2>1, Lens DEF Typed, IInv
  <1>27. Order'
    <2>1. PICK bound \in Nat : \E rank \in [Id -> 0 .. bound] : Ordered(rank)
      BY DEF Order, IInv
    <2>2. PICK rank \in [Id -> 0 .. bound] : Ordered(rank)
      BY <2>1
    <2>3. PICK last : last = [rank EXCEPT ![a] = bound + 1]
      OBVIOUS
    <2>4. last \in [Id -> 0 .. bound + 1]
      <3>1. bound + 1 \in 0 .. bound + 1 /\ 0 .. bound \subseteq 0 .. bound + 1
        OBVIOUS
      <3> QED BY <2>3, <3>1
    <2>5. last[a] = bound + 1 /\ \A id \in Id : id # a => last[id] = rank[id]
      BY <1>5, <2>3
    <2>6. Ordered(last)'
      <3> SUFFICES ASSUME NEW u \in Threads, NEW i \in DOMAIN stack[u], NEW j \in DOMAIN stack[u],
                          NEW n, n = Seeks(stack'[u][j]),
                          i <= j, Helping(<<u, i>>)', n # Nil, Helping(n)'
                   PROVE  last[<<u, i>>] < last[n]
        BY <1>17 DEF Ordered
      <3>1. <<u, i>> \in Id /\ stack[u][j] \in Frames /\ stack'[u][j] \in Frames
        BY <1>17, <1>18, Lens DEF IInv, Typed
      <3>2. CASE u = a[1] /\ j = a[2]
        <4>1. n = Top(t)
          BY <1>2, <1>13, <1>17, <3>2, NilIsNoId DEF Seeks
        <4>2. ~g.helping
          BY <1>12 DEF Fits
        <4> QED BY <1>1, <1>7, <1>23, <4>1, <4>2 DEF Helping
      <3>3. CASE ~(u = a[1] /\ j = a[2])
        <4>1. n = Seeks(stack[u][j]) /\ n \in Id
          <5>1. stack'[u][j] = stack[u][j] \/ (stack[u][j] = f /\ stack'[u][j] = g)
            BY <1>2, <1>17, <3>3
          <5>2. Seeks(g) = f.help
            BY <1>1, <1>12 DEF Seeks
          <5>3. Seeks(stack[u][j]) \in Id \cup {Nil}
            BY <3>1, Kinds DEF Seeks, SearchFrames, NodeFrames
          <5>4. g.help = Nil
            BY <1>12 DEF Fits
          <5> QED BY <1>12, <5>1, <5>2, <5>3, <5>4
        <4>2. <<u, i>> # a
          <5>1. <<u, i>> = a => j = a[2]
            <6>1. j \in 1 .. Len(stack[u]) /\ i \in 1 .. Len(stack[u]) /\ Len(stack[u]) \in Nat
              BY Lens DEF IInv, Typed
            <6> QED BY <1>6, <1>7, <6>1
          <5> QED BY <3>3, <5>1, <1>6
        <4>3. Helping(<<u, i>>)
          <5>1. <<u, i>> \in NodeIds
            BY <1>19, <3>1, Knows DEF IInv, Known, Helping
          <5> QED BY <1>12, <1>19, <1>23, <3>1, <4>2, <5>1 DEF Helping
        <4>4. CASE n = a
          BY <2>2, <2>5, <3>1, <4>2, <4>4
        <4>5. CASE n # a
          <5>1. n \in NodeIds
            BY <1>19, <4>1, Knows DEF IInv, Known, Helping
          <5>2. Helping(n)
            BY <1>12, <1>19, <1>23, <4>1, <4>5, <5>1 DEF Helping
          <5> QED BY <2>2, <2>5, <3>1, <4>1, <4>2, <4>3, <4>5, <5>2 DEF Ordered
        <4> QED BY <4>4, <4>5
      <3> QED BY <3>2, <3>3
    <2>7. bound + 1 \in Nat
      OBVIOUS
    <2> QED BY <2>4, <2>6, <2>7 DEF Order
  <1> QED BY <1>18, <1>20, <1>21, <1>22, <1>25, <1>26, <1>27 DEF IInv

(* An idle worker becomes a slave of t's node.                              *)
LEMMA AssignKeeps ==
  ASSUME IInv, NEW t \in Threads, At(t, "node", "pool"), NEW w \in idle,
         stack' = Pushed(With(Top(t), [Frame(Top(t)) EXCEPT !.pc = "next",
                                         !.slaves = Frame(Top(t)).slaves \cup {<<w, 1>>}]),
                         w, Searching("begin", "END", Top(t))),
         idle' = idle \ {w}, opened' = opened
  PROVE  IInv'
  <1> DEFINE l == Len(stack[t])
             f == Frame(Top(t))
  <1>1. /\ stack[t] # <<>> /\ f \in NodeFrames /\ f.pc = "pool" /\ f.kind = "node"
        /\ Top(t) \in NodeIds
    BY NodeOnTop DEF IInv
  <1>2. /\ l \in DOMAIN stack[t] /\ l \in Nat \ {0} /\ Top(t) = <<t, l>> /\ Top(t) \in Id
        /\ f = stack[t][l] /\ Fits(t, l, f)
    BY <1>1, OnTop DEF IInv, Places, Place
  <1>3. /\ w \in Threads /\ w # Main /\ stack[w] = <<>> /\ w # t /\ <<w, 1>> \in Id
        /\ Len(stack[w]) = 0 /\ DOMAIN stack[w] = {}
    BY <1>1, TreeAssumption DEF IInv, Typed, IdleInv, Threads, TreeAssumption, Id
  <1>4. PICK g : g = [f EXCEPT !.pc = "next", !.slaves = f.slaves \cup {<<w, 1>>}]
    OBVIOUS
  <1>5. PICK h : h = Searching("begin", "END", Top(t))
    OBVIOUS
  <1>6. /\ g \in NodeFrames /\ g.kind = "node" /\ g.pc = "next" /\ g.asks = f.asks
        /\ g.slaves = f.slaves \cup {<<w, 1>>} /\ g.helping = f.helping /\ g.help = f.help
        /\ SameLinks(f, g) /\ Fits(t, l, g)
    BY <1>1, <1>2, <1>3, <1>4 DEF NodeFrames, SameLinks, Fits
  <1>7. h \in SearchFrames /\ h.kind = "search" /\ h.pc = "begin" /\ h.node = Top(t)
        /\ Fits(w, 1, h)
    BY <1>2, <1>3, <1>5, NilIsNoId DEF Searching, SearchFrames, State, Fits
  <1> DEFINE r == Put(stack, t, l, g)
  <1>8. /\ r \in Stacks
        /\ \A u \in Threads : DOMAIN r[u] = DOMAIN stack[u] /\ Len(r[u]) = Len(stack[u])
        /\ \A u \in Threads : \A k \in DOMAIN stack[u] :
             r[u][k] = IF u = t /\ k = l THEN g ELSE stack[u][k]
    BY <1>2, <1>6, Replaced DEF IInv, Typed, Frames
  <1>9. stack' = Pushed(r, w, h)
    <2>1. With(Top(t), g) = r
      BY <1>2 DEF With, Put
    <2> QED BY <1>4, <1>5, <2>1
  <1> HIDE DEF r
  <1>10. /\ stack' \in Stacks
         /\ Len(stack'[w]) = 1 /\ DOMAIN stack'[w] = {1} /\ stack'[w][1] = h
         /\ \A u \in Threads : u # w => DOMAIN stack'[u] = DOMAIN stack[u]
                                        /\ Len(stack'[u]) = Len(stack[u])
         /\ \A u \in Threads : \A k \in DOMAIN stack[u] :
              stack'[u][k] = IF u = t /\ k = l THEN g ELSE stack[u][k]
    <2>1. /\ stack' \in Stacks
          /\ Len(stack'[w]) = Len(r[w]) + 1 /\ DOMAIN stack'[w] = 1 .. Len(r[w]) + 1
          /\ stack'[w][Len(r[w]) + 1] = h
          /\ \A u \in Threads \ {w} : stack'[u] = r[u]
      BY <1>3, <1>7, <1>8, <1>9, Added DEF Frames
    <2>2. Len(r[w]) = 0 /\ 0 + 1 = 1 /\ 1 .. 1 = {1}
      BY <1>3, <1>8
    <2>3. Len(stack'[w]) = 1 /\ DOMAIN stack'[w] = {1} /\ stack'[w][1] = h
      BY <2>1, <2>2
    <2> QED BY <1>3, <1>8, <2>1, <2>3
  <1>11. Typed'
    BY <1>10 DEF Typed, IInv
  <1>12. Evolves
    <2> SUFFICES ASSUME NEW u \in Threads, NEW k \in DOMAIN stack[u]
                 PROVE  SameLinks(stack[u][k], stack'[u][k])
      BY DEF Evolves
    <2>1. SameLinks(stack[u][k], stack[u][k])
      BY DEF SameLinks
    <2> QED BY <1>2, <1>6, <1>10, <2>1
  <1>13. \A u \in Threads : DOMAIN stack[u] \subseteq DOMAIN stack'[u]
    BY <1>3, <1>10
  <1>14. /\ \A id \in Id : id # <<w, 1>> => \A kind : IsA(kind, id)' <=> IsA(kind, id)
         /\ \A kind : ~IsA(kind, <<w, 1>>)
         /\ \A kind : IsA(kind, <<w, 1>>)' <=> kind = "search"
    <2>1. ASSUME NEW id \in Id, id # <<w, 1>>, NEW kind
          PROVE  IsA(kind, id)' <=> IsA(kind, id)
      <3>1. CASE id[2] \in DOMAIN stack[id[1]]
        BY <1>11, <1>12, <1>13, <3>1, EvolvesNodes, IdIsPair DEF IInv
      <3>2. CASE id[2] \notin DOMAIN stack[id[1]]
        <4>1. id[2] \notin DOMAIN stack'[id[1]]
          BY <1>10, <2>1, <3>2, IdIsPair
        <4> QED BY <1>11, <3>2, <4>1, Knows, KnowsNext DEF IInv, Known
      <3> QED BY <3>1, <3>2
    <2>2. \A kind : ~IsA(kind, <<w, 1>>)
      BY <1>3 DEF IsA
    <2>3. \A kind : IsA(kind, <<w, 1>>)' <=> kind = "search"
      <3>1. <<w, 1>> # Nil
        BY <1>3, NilIsNoId
      <3> QED BY <1>7, <1>10, <3>1 DEF IsA, Frame
    <2> QED BY <2>1, <2>2, <2>3
  <1>15. NodeIds' = NodeIds
    <2>1. \A id \in Id : IsA("node", id)' <=> IsA("node", id)
      BY <1>14
    <2> QED BY <1>11, <2>1, Knows, KnowsNext DEF IInv, Known
  <1>16. Links'
    <2>1. stack'[Main] # <<>>
      <3>1. Main \in Threads
        BY DEF Threads
      <3> QED BY <1>3, <1>10, <1>11, <3>1, Lens DEF Links, Typed, IInv
    <2>2. ASSUME NEW n \in Id, n = Top(t) PROVE IsA("node", n)'
      BY <1>1, <1>11, <1>15, <2>2, KnowsNext DEF Known
    <2>3. Link(w, 1)'
      BY <1>2, <1>3, <1>7, <1>10, <2>2 DEF Link
    <2>4. ASSUME NEW u \in Threads, NEW i \in DOMAIN stack'[u] \ DOMAIN stack[u]
          PROVE  Link(u, i)'
      <3>1. u = w /\ i = 1
        BY <1>10
      <3> QED BY <2>3, <3>1
    <2> QED BY <1>11, <1>12, <1>15, <2>1, <2>4, LinksStay DEF IInv
  <1>17. Places'
    <2> SUFFICES ASSUME NEW u \in Threads, NEW i \in DOMAIN stack'[u]
                 PROVE  \/ Place(u, i)'
                        \/ /\ i \in DOMAIN stack[u] /\ Same(stack[u][i], stack'[u][i])
                           /\ i < Len(stack'[u]) =>
                                /\ i < Len(stack[u])
                                /\ stack'[u][i + 1].kind = stack[u][i + 1].kind
      BY <1>11, PlacesStay DEF IInv
    <2>1. CASE u = t /\ i = l
      <3>1. stack'[u][i] = g /\ ~(i < Len(stack'[u]))
        <4>1. stack'[t][l] = g
          BY <1>2, <1>10
        <4>2. Len(stack'[t]) = l
          BY <1>3, <1>10
        <4> QED BY <1>2, <2>1, <4>1, <4>2
      <3> QED BY <1>6, <2>1, <3>1 DEF Place
    <2>2. CASE u = w
      <3>1. i = 1 /\ stack'[w][i] = h
        BY <1>10, <2>2
      <3> QED BY <1>7, <1>10, <2>2, <3>1 DEF Place
    <2>3. CASE ~(u = t /\ i = l) /\ u # w
      <3>1. i \in DOMAIN stack[u] /\ stack'[u][i] = stack[u][i]
        BY <1>10, <2>3
      <3>2. i < Len(stack[u]) => i + 1 \in DOMAIN stack[u]
        BY <3>1, Lens DEF Typed, IInv
      <3> QED BY <1>10, <1>12, <1>13, <2>3, <3>1, <3>2 DEF Evolves, Same, SameLinks
    <2> QED BY <2>1, <2>2, <2>3
  <1>18. Targets'
    <2>1. Target(w, 1)'
      BY <1>7, <1>10 DEF Target
    <2>2. ASSUME NEW u \in Threads, NEW i \in DOMAIN stack'[u] \ DOMAIN stack[u]
          PROVE  Target(u, i)'
      <3>1. u = w /\ i = 1
        BY <1>10
      <3> QED BY <2>1, <3>1
    <2>3. ASSUME NEW u \in Threads, NEW i \in DOMAIN stack[u]
          PROVE  /\ stack'[u][i].help \in {stack[u][i].help, Nil}
                 /\ stack'[u][i].asks \in {stack[u][i].asks, Nil}
      BY <1>2, <1>6, <1>10
    <2> QED BY <1>11, <1>12, <1>15, <1>16, <2>2, <2>3, TargetsStay DEF IInv
  <1>19. ASSUME NEW m \in NodeIds
         PROVE  Frame(m)' = IF m = Top(t) THEN g ELSE Frame(m)
    <2>1. /\ m[1] \in Threads /\ m[2] \in DOMAIN stack[m[1]] /\ Frame(m) = stack[m[1]][m[2]]
          /\ Frame(m)' = stack'[m[1]][m[2]] /\ m = <<m[1], m[2]>>
      BY IdIsPair, Knows DEF IInv, Known, Frame
    <2>2. m = Top(t) <=> m[1] = t /\ m[2] = l
      BY <1>2, <2>1
    <2>3. Frame(m)' = IF m[1] = t /\ m[2] = l THEN g ELSE stack[m[1]][m[2]]
      BY <1>10, <2>1
    <2> QED BY <2>1, <2>2, <2>3
  <1>20. ASSUME NEW s \in Id, NEW m \in Id
         PROVE  Serves(s, m)' <=> Serves(s, m) \/ (s = <<w, 1>> /\ m = Top(t))
    <2>1. PICK b : b = <<s[1], s[2] - 1>>
      OBVIOUS
    <2>2. s[2] > 1 => b \in Id
      BY <2>1 DEF Id
    <2>3. Serves(s, m) <=> \/ IsA("search", s) /\ Frame(s).node = m
                           \/ s[2] > 1 /\ b \in NodeIds /\ Frame(b).help = m
      BY <2>1, <2>2, Knows DEF IInv, Known, Serves
    <2>4. Serves(s, m)' <=> \/ IsA("search", s)' /\ Frame(s)'.node = m
                            \/ s[2] > 1 /\ b \in NodeIds /\ Frame(b)'.help = m
      <3>1. s[2] > 1 => (IsA("node", b)' <=> b \in NodeIds)
        BY <1>11, <1>15, <2>2, KnowsNext DEF Known
      <3> QED BY <2>1, <3>1 DEF Serves
    <2>5. b \in NodeIds => Frame(b)'.help = Frame(b).help
      BY <1>6, <1>19
    <2>6. CASE s = <<w, 1>>
      <3>1. ~(s[2] > 1) /\ ~IsA("search", s) /\ IsA("search", s)' /\ Frame(s)'.node = Top(t)
        BY <1>7, <1>10, <1>14, <2>6, SMTT(30) DEF Frame
      <3> QED BY <2>3, <2>4, <2>6, <3>1
    <2>7. CASE s # <<w, 1>>
      <3>1. IsA("search", s)' <=> IsA("search", s)
        BY <1>14, <2>7
      <3>2. IsA("search", s) => Frame(s)'.node = Frame(s).node
        BY <1>11, <1>12, <1>13, EvolvesNodes, IdIsPair, Knows DEF IInv, Known, SameLinks
      <3> QED BY <2>3, <2>4, <2>5, <2>7, <3>1, <3>2
    <2> QED BY <2>6, <2>7
  <1>21. SlavesInv' /\ HasSlaves'
    <2>1. ASSUME NEW m \in NodeIds, NEW s \in Id
          PROVE  s \in Frame(m)'.slaves <=> Serves(s, m)'
      <3>1. s \in Frame(m).slaves <=> Serves(s, m)
        BY DEF IInv, SlavesInv
      <3>2. m \in Id
        BY Knows DEF IInv, Known
      <3>3. s \in Frame(m)'.slaves <=> s \in Frame(m).slaves \/ (s = <<w, 1>> /\ m = Top(t))
        BY <1>6, <1>19
      <3> QED BY <1>20, <3>1, <3>2, <3>3
    <2>2. ASSUME NEW m \in NodeIds, Frame(m)'.helping PROVE Frame(m)'.slaves # {}
      <3>1. Frame(m).helping /\ Frame(m).slaves \subseteq Frame(m)'.slaves
        BY <1>6, <1>19, <2>2
      <3> QED BY <3>1 DEF IInv, HasSlaves
    <2> QED BY <1>15, <2>1, <2>2 DEF SlavesInv, HasSlaves
  <1>22. IdleInv'
    <2> SUFFICES ASSUME NEW v \in idle, v # w PROVE stack'[v] = <<>>
      BY DEF IdleInv
    <2>1. v \in Threads /\ stack[v] = <<>> /\ Len(stack[v]) = 0
      BY DEF IInv, Typed, IdleInv, Threads
    <2> QED BY <1>10, <1>11, <2>1, Lens DEF Typed
  <1>23. Order'
    <2>1. ASSUME NEW id \in Id, Helping(id)' PROVE Helping(id)
      <3>1. id \in NodeIds
        BY <1>11, <1>15, <2>1, KnowsNext DEF Known, Helping
      <3> QED BY <1>6, <1>19, <2>1, <3>1, Knows DEF IInv, Known, Helping
    <2>2. ASSUME NEW u \in Threads, NEW j \in DOMAIN stack'[u]
          PROVE  \/ Seeks(stack'[u][j]) = Nil
                 \/ \A i \in DOMAIN stack'[u] : i <= j => ~Helping(<<u, i>>)
                 \/ \E k \in DOMAIN stack[u] :
                      /\ Seeks(stack[u][k]) = Seeks(stack'[u][j])
                      /\ Seeks(stack[u][k]) \in Id
                      /\ \A i \in DOMAIN stack'[u] : i <= j /\ Helping(<<u, i>>)' => i <= k
      <3>1. CASE u = w
        <4>1. \A i \in DOMAIN stack'[u] : i = 1
          BY <1>10, <3>1
        <4> QED BY <1>14, <3>1, <4>1 DEF Helping
      <3>2. CASE u # w
        <4>1. j \in DOMAIN stack[u] /\ stack[u][j] \in Frames
          BY <1>10, <3>2, Lens DEF IInv, Typed
        <4>2. Seeks(stack[u][j]) \in Id \cup {Nil}
          BY <4>1, Kinds DEF Seeks, SearchFrames, NodeFrames
        <4>3. Seeks(stack'[u][j]) = Seeks(stack[u][j])
          <5>1. stack'[u][j] = stack[u][j] \/ (stack[u][j] = f /\ stack'[u][j] = g)
            BY <1>2, <1>10, <4>1
          <5>2. Seeks(g) = Seeks(f)
            BY <1>1, <1>6 DEF Seeks
          <5> QED BY <5>1, <5>2
        <4> QED BY <4>1, <4>2, <4>3
      <3> QED BY <3>1, <3>2
    <2> QED BY <1>11, <2>1, <2>2, OrderStays DEF IInv
  <1> QED BY <1>11, <1>16, <1>17, <1>18, <1>21, <1>22, <1>23 DEF IInv

-----------------------------------------------------------------------------
(* Steps that pop a frame.                                                  *)

(* Nobody points to a node without slaves that is on top.                   *)
LEMMA NobodyUses ==
  ASSUME IInv, NEW t \in Threads, stack[t] # <<>>,
         NEW n \in NodeIds, n = Top(t), Frame(n).slaves = {}
  PROVE  Unused(n)
  <1>1. /\ n = <<t, Len(stack[t])>> /\ n \in Id /\ Len(stack[t]) \in Nat \ {0}
    BY OnTop DEF IInv
  <1>2. \A s \in Id : ~Serves(s, n)
    BY DEF IInv, SlavesInv
  <1>3. ASSUME NEW u \in Threads, NEW i \in DOMAIN stack[u], stack[u][i].kind = "search"
        PROVE  stack[u][i].node # n
    <2>1. <<u, i>> \in Id /\ IsA("search", <<u, i>>) /\ Frame(<<u, i>>) = stack[u][i]
      BY <1>3, Knows DEF IInv, Known
    <2> QED BY <1>2, <2>1 DEF Serves
  <1>4. ASSUME NEW u \in Threads, NEW i \in DOMAIN stack[u], stack[u][i].kind = "node"
        PROVE  stack[u][i].help # n
    <2>1. /\ <<u, i>> \in Id /\ IsA("node", <<u, i>>) /\ Frame(<<u, i>>) = stack[u][i]
          /\ i \in Nat \ {0}
      BY <1>4, Knows, Lens DEF IInv, Known, Typed
    <2>2. PICK s : s = <<u, i + 1>>
      OBVIOUS
    <2>3. s \in Id /\ s[2] > 1 /\ <<s[1], s[2] - 1>> = <<u, i>>
      BY <2>1, <2>2 DEF Id
    <2> QED BY <1>2, <2>1, <2>3 DEF Serves
  <1>5. ASSUME NEW u \in Threads, NEW i \in DOMAIN stack[u], stack[u][i].kind = "node"
        PROVE  stack[u][i].parent # n
    <2>1. Link(u, i) /\ i \in Nat \ {0} /\ DOMAIN stack[u] = 1 .. Len(stack[u])
      BY Lens DEF IInv, Links, Typed
    <2>2. i > 1 /\ i - 1 \in DOMAIN stack[u]
      BY <1>5, <2>1, Lens DEF Link, IInv, Typed
    <2>3. CASE stack[u][i - 1].kind = "search"
      BY <1>3, <1>5, <2>1, <2>2, <2>3 DEF Link
    <2>4. CASE stack[u][i - 1].kind # "search"
      <3>1. stack[u][i].parent = <<u, i - 1>>
        BY <1>5, <2>1, <2>4 DEF Link
      <3>2. <<u, i - 1>> # n
        BY <1>1, <2>1, <2>2
      <3> QED BY <3>1, <3>2
    <2> QED BY <2>3, <2>4
  <1>6. \A c \in NodeIds : Frame(c).parent # n
    BY <1>5, IdIsPair, Knows DEF IInv, Known, Frame
  <1>7. ASSUME NEW u \in Threads, NEW i \in DOMAIN stack[u], stack[u][i].kind = "node",
               stack[u][i].asks = n
        PROVE  FALSE
    <2>1. Target(u, i) /\ <<u, i>> \in NodeIds
      BY <1>7, Knows DEF IInv, Targets, Known, Frame
    <2>2. n \in Above(<<u, i>>)
      BY <1>1, <1>7, <2>1, NilIsNoId DEF Target
    <2> QED BY <1>6, <2>1, <2>2, AboveIsParent DEF IInv
  <1> QED BY <1>3, <1>4, <1>5, <1>7 DEF Unused

(* t loses the frame on top, and nothing else moves.                        *)
Pops(t) ==
  /\ \A u \in Threads \ {t} : DOMAIN stack'[u] = DOMAIN stack[u] /\ Len(stack'[u]) = Len(stack[u])
  /\ Len(stack'[t]) = Len(stack[t]) - 1
  /\ DOMAIN stack'[t] = 1 .. Len(stack[t]) - 1
  /\ \A u \in Threads : \A k \in DOMAIN stack'[u] :
       k \in DOMAIN stack[u] /\ Same(stack[u][k], stack'[u][k])

LEMMA PopKeepsRest ==
  ASSUME IInv, Typed', idle' = idle, NEW t \in Threads, stack[t] # <<>>, Pops(t),
         t = Main => Len(stack[t]) > 1,
         Top(t) \in NodeIds => Unused(Top(t))
  PROVE  /\ Evolves /\ Links' /\ Places' /\ Targets' /\ IdleInv' /\ Order'
         /\ NodeIds' = NodeIds \ {Top(t)}
         /\ \A id \in Id \ {Top(t)} : \A kind : IsA(kind, id)' <=> IsA(kind, id)
         /\ \A id \in Id : id = Top(t) => \A kind : ~IsA(kind, id)'
  <1> DEFINE l == Len(stack[t])
  <1>1. /\ l \in Nat \ {0} /\ l \in DOMAIN stack[t] /\ Top(t) = <<t, l>> /\ Top(t) \in Id
        /\ DOMAIN stack[t] = 1 .. l
    BY OnTop, Lens DEF IInv, Typed
  <1>2. Evolves
    BY DEF Evolves, Pops, Same
  <1>3. \A id \in Id \ {Top(t)} :
          id[2] \in DOMAIN stack[id[1]] <=> id[2] \in DOMAIN stack'[id[1]]
    <2> SUFFICES ASSUME NEW id \in Id, id # Top(t)
                 PROVE  id[2] \in DOMAIN stack[id[1]] <=> id[2] \in DOMAIN stack'[id[1]]
      OBVIOUS
    <2>1. id = <<id[1], id[2]>> /\ id[1] \in Threads
      BY IdIsPair
    <2>2. CASE id[1] = t
      <3>1. id[2] # l
        BY <1>1, <2>1, <2>2
      <3>2. DOMAIN stack'[t] = 1 .. l - 1
        BY DEF Pops
      <3> QED BY <1>1, <2>2, <3>1, <3>2
    <2>3. CASE id[1] # t
      BY <2>1, <2>3 DEF Pops
    <2> QED BY <2>2, <2>3
  <1>4. \A id \in Id \ {Top(t)} : \A kind : IsA(kind, id)' <=> IsA(kind, id)
    BY <1>2, <1>3, EvolvesNodes, Knows, KnowsNext DEF IInv, Known
  <1>5. ASSUME NEW id \in Id, id = Top(t), NEW kind PROVE ~IsA(kind, id)'
    <2>1. DOMAIN stack'[t] = 1 .. l - 1
      BY DEF Pops
    <2>2. id[1] = t /\ id[2] = l /\ l \notin 1 .. l - 1
      BY <1>1, <1>5
    <2> QED BY <2>1, <2>2 DEF IsA
  <1>6. NodeIds' = NodeIds \ {Top(t)}
    <2>1. \A id \in Id : id \in NodeIds' <=> id \in NodeIds /\ id # Top(t)
      BY <1>4, <1>5, Knows, KnowsNext DEF IInv, Known
    <2>2. NodeIds \subseteq Id /\ NodeIds' \subseteq Id
      BY Knows, KnowsNext DEF IInv, Known
    <2> QED BY <2>1, <2>2
  <1>7. \A n \in NodeIds : n \in NodeIds' \/ Unused(n)
    BY <1>6
  <1>8. \A u \in Threads : DOMAIN stack'[u] \subseteq DOMAIN stack[u]
    BY DEF Pops
  <1>9. Links'
    <2>1. stack'[Main] # <<>>
      <3>1. Main \in Threads /\ stack[Main] # <<>>
        BY DEF Threads, IInv, Links
      <3>2. Len(stack'[Main]) # 0
        BY <1>1, <3>1, OnTop DEF Pops, IInv
      <3> QED BY <3>2
    <2> QED BY <1>2, <1>7, <1>8, <2>1, LinksStay DEF IInv
  <1>10. Places'
    <2> SUFFICES ASSUME NEW u \in Threads, NEW i \in DOMAIN stack'[u], i < Len(stack'[u])
                 PROVE  /\ i < Len(stack[u])
                        /\ stack'[u][i + 1].kind = stack[u][i + 1].kind
      BY PlacesStay DEF IInv, Pops
    <2>1. /\ Len(stack'[u]) \in Nat /\ Len(stack[u]) \in Nat /\ i \in Nat
          /\ Len(stack'[u]) <= Len(stack[u]) /\ i + 1 \in DOMAIN stack'[u]
      BY <1>1, Lens DEF Pops, IInv, Typed
    <2> QED BY <2>1 DEF Pops, Same, SameLinks
  <1>11. Targets'
    <2>1. ASSUME NEW u \in Threads, NEW i \in DOMAIN stack[u] \cap DOMAIN stack'[u],
                 stack[u][i].kind = "node"
          PROVE  stack'[u][i].help = stack[u][i].help /\ stack'[u][i].asks = stack[u][i].asks
      BY <2>1 DEF Pops, Same
    <2> QED BY <1>2, <1>7, <1>8, <1>9, <2>1, TargetsStay DEF IInv
  <1>12. IdleInv'
    <2> SUFFICES ASSUME NEW w \in idle PROVE stack'[w] = <<>>
      BY DEF IdleInv
    <2>1. w \in Threads /\ stack[w] = <<>> /\ w # t
      BY DEF IInv, Typed, IdleInv, Threads
    <2>2. Len(stack'[w]) = 0
      BY <2>1 DEF Pops
    <2> QED BY <2>1, <2>2, Lens DEF Typed
  <1>13. Order'
    <2>1. ASSUME NEW id \in Id, Helping(id)' PROVE Helping(id)
      <3>1. id # Top(t) /\ IsA("node", id)
        BY <1>4, <1>5, <2>1 DEF Helping
      <3>2. id[1] \in Threads /\ id[2] \in DOMAIN stack'[id[1]] /\ Frame(id).kind = "node"
        BY <2>1, <3>1, IdIsPair DEF Helping, IsA
      <3>3. Frame(id)'.helping = Frame(id).helping
        BY <3>2 DEF Pops, Same, Frame
      <3> QED BY <2>1, <3>1, <3>3 DEF Helping
    <2>2. ASSUME NEW u \in Threads, NEW j \in DOMAIN stack'[u]
          PROVE  /\ j \in DOMAIN stack[u]
                 /\ Seeks(stack[u][j]) = Seeks(stack'[u][j])
                 /\ Seeks(stack[u][j]) \in Id \cup {Nil}
      <3>1. j \in DOMAIN stack[u] /\ Same(stack[u][j], stack'[u][j]) /\ stack[u][j] \in Frames
        BY Lens DEF Pops, IInv, Typed
      <3>2. Seeks(stack[u][j]) = Seeks(stack'[u][j])
        BY <3>1, Kinds DEF Same, SameLinks, Seeks
      <3>3. Seeks(stack[u][j]) \in Id \cup {Nil}
        BY <3>1, Kinds DEF Seeks, SearchFrames, NodeFrames
      <3> QED BY <3>1, <3>2, <3>3
    <2>3. ASSUME NEW u \in Threads, NEW j \in DOMAIN stack'[u], Seeks(stack'[u][j]) # Nil
          PROVE  \E k \in DOMAIN stack[u] :
                   /\ Seeks(stack[u][k]) = Seeks(stack'[u][j])
                   /\ Seeks(stack[u][k]) \in Id
                   /\ \A i \in DOMAIN stack'[u] : i <= j /\ Helping(<<u, i>>)' => i <= k
      BY <2>2, <2>3
    <2> QED BY <2>1, <2>3, OrderStays DEF IInv
  <1> QED BY <1>2, <1>4, <1>5, <1>6, <1>9, <1>10, <1>11, <1>12, <1>13

(* The frame popped serves no longer; all else does what it did.            *)
LEMMA PopServes ==
  ASSUME IInv, Typed', NEW t \in Threads, stack[t] # <<>>, Pops(t), Evolves,
         \A id \in Id \ {Top(t)} : \A kind : IsA(kind, id)' <=> IsA(kind, id),
         \A id \in Id : id = Top(t) => \A kind : ~IsA(kind, id)',
         Top(t) \in NodeIds => Frame(Top(t)).help = Nil,
         NEW s \in Id, NEW n \in Id
  PROVE  Serves(s, n)' <=>
           \/ s # Top(t) /\ IsA("search", s) /\ Frame(s).node = n
           \/ /\ s[2] > 1 /\ IsA("node", <<s[1], s[2] - 1>>)
              /\ Frame(<<s[1], s[2] - 1>>).help = n
  <1>1. IsA("search", s)' /\ Frame(s)'.node = n <=>
          s # Top(t) /\ IsA("search", s) /\ Frame(s).node = n
    <2>1. CASE s = Top(t)
      BY <2>1
    <2>2. CASE s # Top(t)
      <3>1. IsA("search", s)' <=> IsA("search", s)
        BY <2>2
      <3>2. ASSUME IsA("search", s) PROVE Frame(s)'.node = Frame(s).node
        <4>1. s[2] \in DOMAIN stack[s[1]] /\ s[2] \in DOMAIN stack'[s[1]]
              /\ Frame(s).kind = "search"
          BY <3>1, <3>2, Knows, KnowsNext DEF IInv, Known
        <4> QED BY <4>1, EvolvesNodes DEF IInv, SameLinks
      <3> QED BY <2>2, <3>1, <3>2
    <2> QED BY <2>1, <2>2
  <1>2. PICK b : b = <<s[1], s[2] - 1>>
    OBVIOUS
  <1>3. ASSUME s[2] > 1
        PROVE  IsA("node", b)' /\ Frame(b)'.help = n <=> IsA("node", b) /\ Frame(b).help = n
    <2>1. b \in Id
      BY <1>2, <1>3 DEF Id
    <2>2. CASE b = Top(t)
      <3>1. ~IsA("node", b)'
        BY <2>1, <2>2
      <3>2. IsA("node", b) => Frame(b).help # n
        BY <2>1, <2>2, NilIsNoId, Knows DEF IInv, Known
      <3> QED BY <3>1, <3>2
    <2>3. CASE b # Top(t)
      <3>1. IsA("node", b)' <=> IsA("node", b)
        BY <2>1, <2>3
      <3>2. ASSUME IsA("node", b) PROVE Frame(b)'.help = Frame(b).help
        <4>1. b[1] \in Threads /\ b[2] \in DOMAIN stack'[b[1]] /\ Frame(b).kind = "node"
          BY <2>1, <3>1, <3>2, IdIsPair, Knows, KnowsNext DEF IInv, Known
        <4>2. Same(Frame(b), Frame(b)')
          BY <4>1 DEF Pops, Frame
        <4> QED BY <4>1, <4>2 DEF Same
      <3> QED BY <3>1, <3>2
    <2> QED BY <2>2, <2>3
  <1> QED BY <1>1, <1>2, <1>3 DEF Serves

(* The end of a node: nobody uses it, and the Search that it is in may run   *)
(* again.                                                                   *)
LEMMA EndKeeps ==
  ASSUME IInv, NEW t \in Threads, stack[t] # <<>>, Top(t) \in NodeIds,
         Frame(Top(t)).slaves = {}, ~Frame(Top(t)).helping,
         stack' = Ended(stack, t), UNCHANGED <<idle, opened>>
  PROVE  IInv'
  <1> DEFINE l == Len(stack[t])
             f == Frame(Top(t))
             resumes == stack[t][f.search[2]].state = "STOP_PARALLEL" /\ f.stop_point
  <1>1. /\ l \in DOMAIN stack[t] /\ l \in Nat \ {0} /\ Top(t) = <<t, l>> /\ Top(t) \in Id
        /\ f = stack[t][l] /\ f \in NodeFrames /\ f.kind = "node" /\ Fits(t, l, f)
        /\ DOMAIN stack[t] = 1 .. l
    <2>1. f \in NodeFrames /\ f.kind = "node"
      BY ParentsAreNodes, Knows DEF IInv, Known
    <2> QED BY <2>1, OnTop, Lens DEF IInv, Places, Place, Typed
  <1>2. PICK m : m = f.search[2]
    OBVIOUS
  <1>3. /\ l > 1 /\ f.search = <<t, m>> /\ m \in 1 .. l - 1 /\ m \in DOMAIN stack[t]
        /\ stack[t][m].kind = "search" /\ stack[t][m] \in SearchFrames
    <2>1. Link(t, l)
      BY <1>1 DEF IInv, Links
    <2>2. l > 1 /\ IsA("search", f.search) /\ f.search[1] = t /\ f.search[2] < l /\ f.search \in Id
      BY <1>1, <2>1 DEF Link, NodeFrames
    <2>3. f.search = <<t, m>> /\ m \in Nat \ {0} /\ m < l
      BY <1>2, <2>2, IdIsPair
    <2>4. stack[t][m].kind = "search" /\ m \in DOMAIN stack[t]
      BY <1>2, <2>2, <2>3 DEF IsA, Frame
    <2>5. stack[t][m] \in SearchFrames
      BY <2>4, Lens, Kinds DEF IInv, Typed
    <2> QED BY <1>1, <2>2, <2>3, <2>4, <2>5
  <1>4. PICK r : r = Pop(stack, t)
    OBVIOUS
  <1>5. /\ r \in Stacks /\ Len(r[t]) = l - 1 /\ DOMAIN r[t] = 1 .. l - 1
        /\ \A k \in DOMAIN r[t] : r[t][k] = stack[t][k]
        /\ \A u \in Threads \ {t} : r[u] = stack[u]
    BY <1>4, Removed DEF IInv, Typed
  <1>6. PICK s : s = IF resumes THEN "RUNNING" ELSE stack[t][m].state
    OBVIOUS
  <1>7. PICK g : g = [stack[t][m] EXCEPT !.state = s]
    OBVIOUS
  <1>8. g \in Frames /\ Kept(stack[t][m], g)
    <2>1. s \in State /\ stack[t][m] \in Frames
      BY <1>3, <1>6 DEF SearchFrames, State, Frames
    <2> QED BY <1>3, <1>7, <2>1, SameIsSame
  <1>9. stack' = Put(r, t, m, g)
    <2>1. r[t][m] = stack[t][m]
      BY <1>3, <1>5
    <2>2. stack' = IF resumes THEN [r EXCEPT ![t][m].state = "RUNNING"] ELSE r
      BY <1>1, <1>2, <1>4 DEF Ended, Pop
    <2> HIDE DEF resumes
    <2>3. CASE resumes
      <3>1. g = [r[t][m] EXCEPT !.state = "RUNNING"]
        BY <1>6, <1>7, <2>1, <2>3
      <3>2. stack' = [r EXCEPT ![t][m].state = "RUNNING"]
        BY <2>2, <2>3
      <3> QED BY <1>3, <1>5, <3>1, <3>2 DEF Put, Stacks
    <2>4. CASE ~resumes
      <3>1. g = stack[t][m]
        BY <1>3, <1>6, <1>7, <2>4 DEF SearchFrames
      <3>2. stack' = r /\ g = r[t][m]
        BY <2>1, <2>2, <2>4, <3>1
      <3>3. r[t] = [r[t] EXCEPT ![m] = r[t][m]]
        BY <1>3, <1>5 DEF Stacks
      <3> QED BY <1>5, <3>2, <3>3 DEF Put, Stacks
    <2> QED BY <2>3, <2>4
  <1>10. /\ stack' \in Stacks
         /\ \A u \in Threads : DOMAIN stack'[u] = DOMAIN r[u] /\ Len(stack'[u]) = Len(r[u])
         /\ \A u \in Threads : \A k \in DOMAIN r[u] :
              stack'[u][k] = IF u = t /\ k = m THEN g ELSE r[u][k]
    BY <1>3, <1>5, <1>8, <1>9, Replaced
  <1>11. ASSUME NEW u \in Threads, NEW k \in DOMAIN stack'[u]
         PROVE  k \in DOMAIN stack[u] /\ Kept(stack[u][k], stack'[u][k])
    <2>1. k \in DOMAIN stack[u] /\ r[u][k] = stack[u][k] /\ k \in DOMAIN r[u]
      <3>1. k \in DOMAIN r[u]
        BY <1>10
      <3>2. CASE u = t
        BY <1>1, <1>5, <3>1, <3>2
      <3>3. CASE u # t
        BY <1>5, <3>1, <3>3
      <3> QED BY <3>2, <3>3
    <2>2. stack[u][k] \in Frames
      BY <2>1, Lens DEF IInv, Typed
    <2>3. Kept(stack[u][k], stack[u][k])
      BY <2>2, SameIsSame
    <2> QED BY <1>8, <1>10, <2>1, <2>3
  <1>12. Pops(t)
    <2>1. \A u \in Threads \ {t} : DOMAIN stack'[u] = DOMAIN stack[u] /\ Len(stack'[u]) = Len(stack[u])
      BY <1>5, <1>10
    <2>2. Len(stack'[t]) = l - 1 /\ DOMAIN stack'[t] = 1 .. l - 1
      BY <1>5, <1>10
    <2> QED BY <1>11, <2>1, <2>2 DEF Pops, Kept
  <1>13. Typed'
    BY <1>10 DEF Typed, IInv
  <1>14. Unused(Top(t))
    BY NobodyUses
  <1>15. /\ Evolves /\ Links' /\ Places' /\ Targets' /\ IdleInv' /\ Order'
         /\ NodeIds' = NodeIds \ {Top(t)}
         /\ \A id \in Id \ {Top(t)} : \A kind : IsA(kind, id)' <=> IsA(kind, id)
         /\ \A id \in Id : id = Top(t) => \A kind : ~IsA(kind, id)'
    BY <1>3, <1>12, <1>13, <1>14, PopKeepsRest
  <1>16. f.help = Nil /\ ~IsA("search", Top(t))
    BY <1>1 DEF Fits, IsA
  <1>17. ASSUME NEW s1 \in Id, NEW n \in Id PROVE Serves(s1, n)' <=> Serves(s1, n)
    <2>1. s1 = Top(t) => ~IsA("search", s1)
      BY <1>16
    <2> QED BY <1>12, <1>13, <1>15, <1>16, <2>1, PopServes DEF Serves
  <1>18. ASSUME NEW n \in NodeIds'
         PROVE  /\ n \in Id /\ n \in NodeIds /\ Frame(n)'.slaves = Frame(n).slaves
                /\ Frame(n)'.helping => Frame(n).helping
    <2>1. n \in Id /\ n \in NodeIds
      BY <1>13, <1>15, KnowsNext DEF Known
    <2>2. n[1] \in Threads /\ n[2] \in DOMAIN stack'[n[1]] /\ Frame(n).kind = "node"
      BY <1>13, <2>1, IdIsPair, Knows, KnowsNext DEF IInv, Known
    <2>3. Kept(Frame(n), Frame(n)')
      BY <1>11, <2>2 DEF Frame
    <2> QED BY <2>1, <2>2, <2>3 DEF Kept, SameHelp
  <1>19. SlavesInv' /\ HasSlaves'
    <2>1. ASSUME NEW n \in NodeIds', NEW s1 \in Id
          PROVE  s1 \in Frame(n)'.slaves <=> Serves(s1, n)'
      BY <1>17, <1>18 DEF IInv, SlavesInv
    <2>2. ASSUME NEW n \in NodeIds', Frame(n)'.helping PROVE Frame(n)'.slaves # {}
      BY <1>18, <2>2 DEF IInv, HasSlaves
    <2> QED BY <2>1, <2>2 DEF SlavesInv, HasSlaves
  <1> QED BY <1>13, <1>15, <1>19 DEF IInv

LEMMA EndsAtOnceKeeps ==
  ASSUME IInv, NEW t \in Threads, WaitSlaves(t), Frame(Top(t)).slaves = {}
  PROVE  IInv'
  <1>1. /\ stack[t] # <<>> /\ Top(t) \in NodeIds /\ Frame(Top(t)).pc = "wait"
        /\ Frame(Top(t)).kind = "node" /\ Frame(Top(t)) \in NodeFrames
    BY NodeOnTop DEF WaitSlaves, IInv
  <1>2. Fits(t, Len(stack[t]), Frame(Top(t)))
    BY <1>1, OnTop DEF IInv, Places, Place
  <1>3. ~Frame(Top(t)).helping
    BY <1>1, <1>2 DEF Fits
  <1> QED BY <1>1, <1>3, EndKeeps DEF WaitSlaves

LEMMA WakeUpKeeps ==
  ASSUME IInv, NEW t \in Threads, WakeUp(t)
  PROVE  IInv'
  <1>1. stack[t] # <<>> /\ Top(t) \in NodeIds
    BY NodeOnTop DEF WakeUp, IInv
  <1> QED BY <1>1, EndKeeps DEF WakeUp

(* A slave leaves: it is no longer in slaves_ and serves no longer.  A      *)
(* master that is called but not awake yet keeps a slave, the one that is   *)
(* on the way down to where it is called.                                   *)
LEMMA RemoveSlaveKeeps ==
  ASSUME IInv, NEW t \in Threads, RemoveSlave(t)
  PROVE  IInv'
  <1> DEFINE l == Len(stack[t])
             f == Frame(Top(t))
  <1>1. stack[t] # <<>> /\ f \in SearchFrames /\ f.pc = "remove" /\ f.kind = "search"
        /\ Top(t) \notin NodeIds
    BY SearchOnTop DEF RemoveSlave, IInv
  <1>2. /\ l \in DOMAIN stack[t] /\ l \in Nat \ {0} /\ Top(t) = <<t, l>> /\ Top(t) \in Id
        /\ f = stack[t][l] /\ Place(t, l) /\ Link(t, l) /\ DOMAIN stack[t] = 1 .. l
    BY <1>1, OnTop, Lens DEF IInv, Places, Typed, Links
  <1>3. PICK id : id = f.node
    OBVIOUS
  <1>4. PICK e : e = Frame(id)
    OBVIOUS
  <1>5. /\ id \in NodeIds /\ id \in Id /\ e \in NodeFrames /\ e.kind = "node" /\ e.pc # "help"
        /\ id # Top(t)
    BY <1>1, <1>3, <1>4, ServedIs, Knows DEF RemoveSlave, Held, IInv, Known
  <1>6. id[1] \in Threads /\ id[2] \in DOMAIN stack[id[1]] /\ e = stack[id[1]][id[2]]
        /\ id = <<id[1], id[2]>> /\ id[2] \in Nat \ {0}
    BY <1>4, <1>5, IdIsPair, Knows DEF IInv, Known, Frame
  <1>7. PICK g : g = [e EXCEPT !.slaves = e.slaves \ {Top(t)}]
    OBVIOUS
  <1>8. /\ g \in NodeFrames /\ g \in Frames /\ g.kind = "node" /\ Same(e, g)
        /\ g.slaves = e.slaves \ {Top(t)} /\ g.helping = e.helping
    BY <1>5, <1>7 DEF NodeFrames, Frames, Same, SameLinks
  <1>9. PICK r : r = Put(stack, id[1], id[2], g)
    OBVIOUS
  <1>10. /\ r \in Stacks
         /\ \A u \in Threads : DOMAIN r[u] = DOMAIN stack[u] /\ Len(r[u]) = Len(stack[u])
         /\ \A u \in Threads : \A k \in DOMAIN stack[u] :
              r[u][k] = IF u = id[1] /\ k = id[2] THEN g ELSE stack[u][k]
    BY <1>6, <1>8, <1>9, Replaced DEF IInv, Typed
  <1>11. stack' = Pop(r, t)
    <2>1. r = [stack EXCEPT ![id[1]][id[2]].slaves = @ \ {Top(t)}]
      BY <1>6, <1>7, <1>9 DEF Put, IInv, Typed, Stacks
    <2> QED BY <1>3, <2>1 DEF RemoveSlave, Pop
  <1>12. r[t] # <<>>
    BY <1>2, <1>10, Lens
  <1>13. /\ stack' \in Stacks /\ Len(stack'[t]) = l - 1 /\ DOMAIN stack'[t] = 1 .. l - 1
         /\ \A k \in DOMAIN stack'[t] : stack'[t][k] = r[t][k]
         /\ \A u \in Threads \ {t} : stack'[u] = r[u]
    BY <1>10, <1>11, <1>12, Removed
  <1>14. ASSUME NEW u \in Threads, NEW k \in DOMAIN stack'[u]
         PROVE  /\ k \in DOMAIN stack[u]
                /\ stack'[u][k] = IF u = id[1] /\ k = id[2] THEN g ELSE stack[u][k]
    <2>1. CASE u = t
      BY <1>2, <1>10, <1>13, <2>1
    <2>2. CASE u # t
      BY <1>10, <1>13, <2>2
    <2> QED BY <2>1, <2>2
  <1>15. Pops(t)
    <2>1. \A u \in Threads \ {t} : DOMAIN stack'[u] = DOMAIN stack[u] /\ Len(stack'[u]) = Len(stack[u])
      BY <1>10, <1>13
    <2>2. ASSUME NEW u \in Threads, NEW k \in DOMAIN stack'[u]
          PROVE  k \in DOMAIN stack[u] /\ Same(stack[u][k], stack'[u][k])
      <3>1. k \in DOMAIN stack[u] /\ stack[u][k] \in Frames
        BY <1>14, Lens DEF IInv, Typed
      <3>2. Same(stack[u][k], stack[u][k])
        BY <3>1, SameIsSame DEF Kept
      <3> QED BY <1>6, <1>8, <1>14, <3>1, <3>2
    <2> QED BY <1>13, <2>1, <2>2 DEF Pops
  <1>16. Typed' /\ idle' = idle
    BY <1>13 DEF Typed, IInv, RemoveSlave
  <1>17. t = Main => l > 1
    <2>1. Fits(t, l, f)
      BY <1>2 DEF Place
    <2>2. ~(t = Main /\ l = 1)
      BY <1>1, <2>1 DEF Fits
    <2> HIDE DEF l
    <2> QED BY <1>2, <2>2
  <1>18. /\ Evolves /\ Links' /\ Places' /\ Targets' /\ IdleInv' /\ Order'
         /\ NodeIds' = NodeIds \ {Top(t)}
         /\ \A id1 \in Id \ {Top(t)} : \A kind : IsA(kind, id1)' <=> IsA(kind, id1)
         /\ \A id1 \in Id : id1 = Top(t) => \A kind : ~IsA(kind, id1)'
    BY <1>1, <1>15, <1>16, <1>17, PopKeepsRest
  <1>19. ASSUME NEW s \in Id, NEW n \in Id
         PROVE  Serves(s, n)' <=> Serves(s, n) /\ s # Top(t)
    <2>1. ASSUME s = Top(t), s[2] > 1, IsA("node", <<s[1], s[2] - 1>>)
          PROVE  Frame(<<s[1], s[2] - 1>>).help = Nil
      <3>1. s[1] = t /\ s[2] = l /\ l > 1 /\ l - 1 \in DOMAIN stack[t] /\ l - 1 < l
        BY <1>2, <2>1
      <3>2. stack[t][l - 1].kind = "node" /\ Place(t, l - 1)
        BY <2>1, <3>1 DEF IsA, Frame, IInv, Places
      <3>3. (l - 1) + 1 = l
        BY <1>2
      <3>4. stack[t][l - 1].pc = "help"
        BY <1>1, <1>2, <3>1, <3>2, <3>3 DEF Place
      <3>5. stack[t][l - 1].help = Nil
        BY <3>2, <3>4 DEF Place, Fits
      <3> QED BY <3>1, <3>5 DEF Frame
    <2>2. n # Nil
      BY NilIsNoId
    <2> QED BY <1>1, <1>15, <1>16, <1>18, <2>1, <2>2, PopServes DEF Serves
  <1>20. ASSUME NEW n \in NodeIds'
         PROVE  /\ n \in Id /\ n \in NodeIds
                /\ Frame(n)' = IF n = id THEN g ELSE Frame(n)
    <2>1. n \in Id /\ n \in NodeIds
      BY <1>16, <1>18, KnowsNext DEF Known
    <2>2. n = <<n[1], n[2]>> /\ n[1] \in Threads /\ n[2] \in DOMAIN stack'[n[1]]
      BY <1>16, <2>1, IdIsPair, KnowsNext DEF Known
    <2> QED BY <1>6, <1>14, <2>1, <2>2 DEF Frame
  <1>21. SlavesInv'
    <2> SUFFICES ASSUME NEW n \in NodeIds', NEW s \in Id
                 PROVE  s \in Frame(n)'.slaves <=> Serves(s, n)'
      BY DEF SlavesInv
    <2>1. s \in Frame(n).slaves <=> Serves(s, n)
      BY <1>20 DEF IInv, SlavesInv
    <2>2. CASE n = id
      BY <1>4, <1>8, <1>19, <1>20, <2>1, <2>2
    <2>3. CASE n # id
      <3>1. Frame(n)' = Frame(n)
        BY <1>20, <2>3
      <3>2. s = Top(t) => ~Serves(s, n)
        <4> SUFFICES ASSUME s = Top(t), Serves(s, n) PROVE FALSE
          OBVIOUS
        <4>1. s[1] = t /\ s[2] = l /\ s[2] > 1 /\ IsA("node", <<s[1], s[2] - 1>>)
              /\ Frame(<<s[1], s[2] - 1>>).help = n
          BY <1>2, <1>3, <2>3 DEF Serves
        <4>2. stack[t][l - 1].kind = "node" /\ stack[t][l - 1].help = n
              /\ l - 1 \in DOMAIN stack[t]
          BY <4>1 DEF IsA, Frame
        <4>3. Place(t, l - 1) /\ l - 1 < l /\ (l - 1) + 1 = l
          BY <1>2, <4>2 DEF IInv, Places
        <4>4. stack[t][l - 1].pc = "help"
          BY <1>1, <1>2, <4>2, <4>3 DEF Place
        <4> QED BY <1>20, <4>2, <4>3, <4>4, NilIsNoId DEF Place, Fits
      <3> QED BY <1>19, <1>20, <2>1, <3>1, <3>2
    <2> QED BY <2>2, <2>3
  <1>22. HasSlaves'
    <2> SUFFICES ASSUME NEW n \in NodeIds', Frame(n)'.helping
                 PROVE  Frame(n)'.slaves # {}
      BY DEF HasSlaves
    <2>1. CASE n # id
      BY <1>20, <2>1 DEF IInv, HasSlaves
    <2>2. CASE n = id
      <3>1. e.helping /\ Frame(n)' = g
        BY <1>8, <1>20, <2>2
      <3>2. Place(id[1], id[2]) /\ Target(id[1], id[2])
        BY <1>6 DEF IInv, Places, Targets
      <3>3. e.pc = "sleep" /\ e.help # Nil
        BY <1>5, <1>6, <3>1, <3>2 DEF Place, Fits
      <3>4. ~(id[2] < Len(stack[id[1]]))
        BY <1>5, <1>6, <3>2, <3>3 DEF Place
      <3>5. PICK h : h = e.help
        OBVIOUS
      <3>6. h \in NodeIds /\ id \in Above(h)
        <4>1. IsA("node", h) /\ id \in Above(h)
          BY <1>5, <1>6, <3>2, <3>3, <3>5 DEF Target
        <4>2. h \in Id
          BY <1>5, <3>3, <3>5 DEF NodeFrames
        <4> QED BY <4>1, <4>2, Knows DEF IInv, Known
      <3>7. PICK c \in NodeIds : Frame(c).parent = id
        BY <3>6, AboveIsParent DEF IInv
      <3>8. /\ c \in Id /\ c[1] \in Threads /\ c[2] \in DOMAIN stack[c[1]] /\ Frame(c).kind = "node"
            /\ Frame(c) = stack[c[1]][c[2]] /\ c[2] \in Nat \ {0}
        BY IdIsPair, Knows DEF IInv, Known, Frame
      <3>9. Link(c[1], c[2]) /\ c[2] \in 1 .. Len(stack[c[1]]) /\ Len(stack[c[1]]) \in Nat
        BY <3>8, Lens DEF IInv, Links, Typed
      <3>10. PICK s : s = <<c[1], c[2] - 1>>
        OBVIOUS
      <3>11. c[2] > 1 /\ s \in Id /\ s[1] = c[1] /\ s[2] = c[2] - 1
             /\ s[2] \in DOMAIN stack[s[1]] /\ Frame(s) = stack[c[1]][c[2] - 1]
        <4>1. c[2] > 1
          BY <3>8, <3>9 DEF Link
        <4>2. c[2] - 1 \in DOMAIN stack[c[1]]
          BY <3>8, <3>9, <4>1, Lens DEF IInv, Typed
        <4> QED BY <3>8, <3>10, <4>1, <4>2 DEF Id, Frame
      <3>12. Frame(s).kind = "search"
        <4> SUFFICES ASSUME Frame(s).kind # "search" PROVE FALSE
          OBVIOUS
        <4>1. id = s
          BY <3>7, <3>8, <3>9, <3>10, <3>11 DEF Link
        <4> QED BY <3>4, <3>9, <3>11, <4>1
      <3>13. Frame(s).node = id
        BY <3>7, <3>8, <3>9, <3>11, <3>12 DEF Link
      <3>14. Serves(s, id)
        BY <3>11, <3>12, <3>13, Knows DEF Serves, IInv, Known
      <3>15. s \in e.slaves
        BY <1>4, <1>5, <3>11, <3>14 DEF IInv, SlavesInv
      <3>16. s # Top(t)
        <4>1. s = Top(t) => c[1] = t /\ c[2] - 1 = l
          BY <1>2, <3>10
        <4> QED BY <1>2, <3>9, <4>1
      <3> QED BY <1>8, <3>1, <3>15, <3>16
    <2> QED BY <2>1, <2>2
  <1> QED BY <1>16, <1>18, <1>21, <1>22 DEF IInv

-----------------------------------------------------------------------------
(* Every step keeps the invariant.                                          *)

LEMMA SameStacksKeep ==
  ASSUME IInv, UNCHANGED stack, Typed', IdleInv'
  PROVE  IInv'
  <1>1. NodeIds' = NodeIds
    BY DEF NodeIds, Ids, IsA, Frame
  <1>2. /\ \A n : Above(n)' = Above(n) /\ Frame(n)' = Frame(n)
        /\ \A kind, n : IsA(kind, n)' <=> IsA(kind, n)
    BY <1>1 DEF Above, Parents, Frame, IsA
  <1>3. Links'
    <2>1. \A t, i : Link(t, i) => Link(t, i)'
      BY <1>2 DEF Link
    <2> QED BY <2>1 DEF IInv, Links
  <1>4. Places'
    <2>1. \A t, i : Place(t, i) => Place(t, i)'
      BY DEF Place
    <2> QED BY <2>1 DEF IInv, Places
  <1>5. Targets'
    BY <1>2 DEF IInv, Targets, Target
  <1>6. SlavesInv' /\ HasSlaves'
    BY <1>1, <1>2 DEF IInv, SlavesInv, HasSlaves, Serves
  <1>7. Order'
    <2>1. \A id : Helping(id)' <=> Helping(id)
      BY <1>2 DEF Helping
    <2>2. \A rank : Ordered(rank) => Ordered(rank)'
      BY <2>1 DEF Ordered
    <2> QED BY <2>2 DEF IInv, Order
  <1> QED BY <1>3, <1>4, <1>5, <1>6, <1>7 DEF IInv

LEMMA PutIdleWorkerKeeps ==
  ASSUME IInv, NEW w \in Workers, PutIdleWorker(w)
  PROVE  IInv'
  <1>1. Typed' /\ UNCHANGED stack
    BY DEF IInv, Typed, PutIdleWorker
  <1>2. IdleInv'
    BY DEF IInv, IdleInv, PutIdleWorker
  <1> QED BY <1>1, <1>2, SameStacksKeep

LEMMA StutterKeeps ==
  ASSUME IInv, UNCHANGED vars
  PROVE  IInv'
  <1>1. UNCHANGED stack /\ UNCHANGED idle /\ UNCHANGED opened
    BY DEF vars
  <1>2. Typed' /\ IdleInv'
    BY <1>1 DEF IInv, Typed, IdleInv
  <1> QED BY <1>1, <1>2, SameStacksKeep

LEMMA GetIdleWorkerKeeps ==
  ASSUME IInv, NEW t \in Threads, GetIdleWorker(t)
  PROVE  IInv'
  <1>1. CASE \E w \in idle :
               /\ LET frames == With(Top(t), [Frame(Top(t)) EXCEPT !.pc = "next",
                                                   !.slaves = @ \cup {<<w, 1>>}])
                  IN stack' = Pushed(frames, w, Searching("begin", "END", Top(t)))
               /\ idle' = idle \ {w}
    <2>1. At(t, "node", "pool") /\ opened' = opened
      BY DEF GetIdleWorker
    <2> QED BY <1>1, <2>1, AssignKeeps
  <1>2. CASE Goto(t, "search") /\ UNCHANGED idle
    BY <1>2, NoIdleWorkerKeeps
  <1> QED BY <1>1, <1>2 DEF GetIdleWorker

LEMMA LoopKeeps ==
  ASSUME IInv, NEW t \in Threads, Loop(t)
  PROVE  IInv'
  <1>1. At(t, "search", "loop")
    BY DEF Loop
  <1>2. CASE Open(t, Top(t), Frame(Top(t)).node, "report")
    BY <1>1, <1>2, LoopOpenKeeps
  <1>3. CASE Goto(t, "report") /\ UNCHANGED <<idle, opened>>
    BY <1>1, <1>3, LoopGoesKeeps
  <1>4. CASE Goto(t, "remove") /\ UNCHANGED <<idle, opened>>
    BY <1>1, <1>4, LoopGoesKeeps
  <1> QED BY <1>2, <1>3, <1>4 DEF Loop

LEMMA StepKeeps ==
  ASSUME IInv, NEW t \in Threads, Step(t)
  PROVE  IInv'
  <1>1. CASE t = Main /\ Run
    BY <1>1, RunKeeps
  <1>2. CASE FirstMove(t)
    BY <1>2, FirstMoveKeeps
  <1>3. CASE SearchMove(t)
    BY <1>3, SearchMoveKeeps
  <1>4. CASE Update(t)
    BY <1>4, UpdateKeeps
  <1>5. CASE NextMove(t)
    BY <1>5, NextMoveKeeps
  <1>6. CASE Split(t)
    BY <1>6, SplitKeeps
  <1>7. CASE Ask(t)
    BY <1>7, AskKeeps
  <1>8. CASE GetHelper(t)
    BY <1>8, CallKeeps, NobodyToHelpKeeps
  <1>9. CASE GetIdleWorker(t)
    BY <1>9, GetIdleWorkerKeeps
  <1>10. CASE WaitSlaves(t)
    BY <1>10, SleepKeeps, EndsAtOnceKeeps
  <1>11. CASE WakeUp(t)
    BY <1>11, WakeUpKeeps
  <1>12. CASE Help(t)
    BY <1>12, HelpKeeps
  <1>13. CASE HelpEnds(t)
    BY <1>13, HelpEndsKeeps
  <1>14. CASE Begin(t)
    BY <1>14, BeginKeeps
  <1>15. CASE Loop(t)
    BY <1>15, LoopKeeps
  <1>16. CASE Report(t)
    BY <1>16, ReportKeeps
  <1>17. CASE RemoveSlave(t)
    BY <1>17, RemoveSlaveKeeps
  <1>18. CASE t \in Workers /\ PutIdleWorker(t)
    BY <1>18, PutIdleWorkerKeeps
  <1> QED BY <1>1, <1>2, <1>3, <1>4, <1>5, <1>6, <1>7, <1>8, <1>9, <1>10, <1>11, <1>12,
             <1>13, <1>14, <1>15, <1>16, <1>17, <1>18 DEF Step

(* At first there is the Search of the first thread, and no node.           *)
LEMMA InitHolds == Init => IInv
  <1> SUFFICES ASSUME Init PROVE IInv
    OBVIOUS
  <1>1. PICK f : f = Searching("run", "RUNNING", Nil)
    OBVIOUS
  <1>2. f.kind = "search" /\ f.node = Nil /\ f.pc = "run" /\ f \in Frames
    BY <1>1 DEF Searching, Frames, SearchFrames, State
  <1>3. PICK one : one = <<f>>
    OBVIOUS
  <1>4. /\ one \in Seq(Frames) /\ DOMAIN one = {1} /\ one[1] = f /\ one # <<>> /\ Len(one) = 1
        /\ <<>> \in Seq(Frames) /\ DOMAIN <<>> = {}
    BY <1>2, <1>3
  <1>5. stack = [t \in Threads |-> IF t = Main THEN one ELSE <<>>]
    BY <1>1, <1>3 DEF Init
  <1>6. /\ Main \in Threads /\ stack[Main] = one
        /\ \A t \in Threads : t # Main => stack[t] = <<>>
    BY <1>5 DEF Threads
  <1>7. Typed
    <2>1. 0 \in 0 .. MaxNodes
      BY TreeAssumption DEF TreeAssumption
    <2> QED BY <1>4, <1>5, <2>1 DEF Typed, Stacks, Init
  <1>8. ASSUME NEW t \in Threads, NEW i \in DOMAIN stack[t]
        PROVE  t = Main /\ i = 1 /\ stack[t][i] = f
    BY <1>4, <1>6
  <1>9. \A id \in Id : ~IsA("node", id)
    BY <1>2, <1>8, IdIsPair DEF IsA, Frame
  <1>10. NodeIds = {}
    BY <1>7, <1>9, Knows DEF Known
  <1>11. Links
    BY <1>2, <1>4, <1>6, <1>8 DEF Links, Link
  <1>12. Places
    BY <1>2, <1>4, <1>6, <1>8 DEF Places, Place, Fits
  <1>13. Targets
    BY <1>2, <1>8 DEF Targets, Target
  <1>14. SlavesInv /\ HasSlaves
    BY <1>10 DEF SlavesInv, HasSlaves
  <1>15. IdleInv
    BY <1>6, TreeAssumption DEF IdleInv, Init, Threads, TreeAssumption
  <1>16. Order
    <2>1. PICK rank : rank = [id \in Id |-> 0]
      OBVIOUS
    <2>2. rank \in [Id -> 0 .. 0]
      BY <2>1
    <2>3. Ordered(rank)
      BY <1>2, <1>8 DEF Ordered, Seeks
    <2> QED BY <2>2, <2>3 DEF Order
  <1> QED BY <1>7, <1>11, <1>12, <1>13, <1>14, <1>15, <1>16 DEF IInv

(* The invariant holds throughout the search: the stacks are linked as the  *)
(* calls of Search::search, Worker::Search and Node::WaitSlaves put them    *)
(* there, every slave is known to its node, a master is only called down to *)
(* where its own slaves are held up, and the masters that help are in the   *)
(* order of the calls.                                                      *)
THEOREM Inductive == Spec => []IInv
  <1>1. ASSUME IInv, [Next]_vars PROVE IInv'
    <2>1. CASE \E t \in Threads : Step(t)
      BY <1>1, <2>1, StepKeeps
    <2>2. CASE UNCHANGED vars
      BY <1>1, <2>2, StutterKeeps
    <2> QED BY <1>1, <2>1, <2>2 DEF Next, Terminated
  <1> QED BY <1>1, InitHolds, PTL DEF Spec

-----------------------------------------------------------------------------
(* What the invariant says of the frames.                                   *)

LEMMA IdsAre ==
  ASSUME Typed
  PROVE  /\ \A id : id \in Ids <=> id \in Id /\ id[2] \in DOMAIN stack[id[1]]
         /\ \A id \in Ids : /\ Frame(id) = stack[id[1]][id[2]] /\ Frame(id) \in Frames
                            /\ id[1] \in Threads /\ id = <<id[1], id[2]>>
         /\ \A id \in Ids \ NodeIds : IsA("search", id)
  <1>1. ASSUME NEW id \in Ids
        PROVE  id \in Id /\ id[2] \in DOMAIN stack[id[1]]
    <2>1. PICK t \in Threads : id \in {<<t, i>> : i \in DOMAIN stack[t]}
      BY DEF Ids
    <2>2. PICK i \in DOMAIN stack[t] : id = <<t, i>>
      BY <2>1
    <2> QED BY <2>2, Lens DEF Typed
  <1>2. ASSUME NEW id \in Id, id[2] \in DOMAIN stack[id[1]]
        PROVE  id \in Ids
    <2>1. id[1] \in Threads /\ id = <<id[1], id[2]>>
      BY IdIsPair
    <2> QED BY <1>2, <2>1 DEF Ids
  <1>3. \A id \in Ids : /\ Frame(id) = stack[id[1]][id[2]] /\ Frame(id) \in Frames
                        /\ id[1] \in Threads /\ id = <<id[1], id[2]>>
    BY <1>1, IdIsPair, Lens DEF Frame, Typed
  <1>4. \A id \in Ids \ NodeIds : IsA("search", id)
    BY <1>1, <1>3, Knows, Kinds DEF Known
  <1> QED BY <1>1, <1>2, <1>3, <1>4

LEMMA FramesTyped ==
  ASSUME IInv, NEW id \in Ids
  PROVE  FrameTyped(id)
  <1> DEFINE f == Frame(id)
  <1>1. PICK t : t = id[1]
    OBVIOUS
  <1>2. PICK i : i = id[2]
    OBVIOUS
  <1>3. id \in Id /\ id = <<t, i>> /\ t \in Threads /\ i \in DOMAIN stack[t] /\ f = stack[t][i]
        /\ f \in Frames
    BY <1>1, <1>2, IdsAre DEF IInv
  <1>4. Link(t, i) /\ Target(t, i)
    BY <1>3 DEF IInv, Links, Targets
  <1>5. CASE f.kind = "search"
    <2>1. f \in SearchFrames
      BY <1>3, <1>5, Kinds
    <2>2. IF id = <<Main, 1>> THEN f.node = Nil ELSE IsA("node", f.node)
      BY <1>3, <1>4, <1>5 DEF Link
    <2>3. /\ f.pc \in {"run", "ran", "begin", "loop", "report", "remove"}
          /\ f.state \in State /\ f.move \in BOOLEAN
      BY <2>1 DEF SearchFrames
    <2> QED BY <1>5, <2>2, <2>3 DEF FrameTyped
  <1>6. CASE f.kind = "node"
    <2>1. f \in NodeFrames
      BY <1>3, <1>6, Kinds
    <2>2. f.help = Nil \/ IsA("node", f.help)
      BY <1>3, <1>4, <1>6 DEF Target
    <2>3. f.asks = Nil \/ IsA("node", f.asks)
      BY <1>3, <1>4, <1>6, Knows DEF Target, Above, NodeIds
    <2>4. f.todo \in 0 .. MoveCount
      BY <2>1 DEF NodeFrames
    <2>5. f.pc \in {"first", "search", "update", "next", "split", "ask", "lock", "pool", "wait",
                    "sleep", "help"}
      BY <2>1 DEF NodeFrames
    <2>6. {f.cut, f.move, f.stop_point, f.waiting, f.helping} \subseteq BOOLEAN
      BY <2>1 DEF NodeFrames
    <2> QED BY <1>6, <2>2, <2>3, <2>4, <2>5, <2>6 DEF FrameTyped
  <1> QED BY <1>3, <1>5, <1>6, Kinds

(* slaves_ is the Searches that serve the node and the helpers called to it. *)
LEMMA SlavesAre ==
  ASSUME IInv, NEW id \in NodeIds,
         NEW called, called = {<<HelperOf(m), Frame(m).help>> : m \in {m \in NodeIds : Called(m)}},
         NEW serving, serving = called \cup {<<s, Frame(s).node>> : s \in Ids \ NodeIds}
  PROVE  Frame(id).slaves = {pair[1] : pair \in {p \in serving : p[2] = id}}
  <1>1. id \in Id /\ Frame(id) \in NodeFrames
    BY ParentsAreNodes, Knows DEF IInv, Known
  <1>2. \A s \in Id : s \in Frame(id).slaves <=> Serves(s, id)
    BY DEF IInv, SlavesInv
  <1>3. ASSUME NEW s \in Frame(id).slaves
        PROVE  <<s, id>> \in serving
    <2>1. s \in Id /\ Serves(s, id)
      BY <1>1, <1>2 DEF NodeFrames
    <2>2. CASE IsA("search", s) /\ Frame(s).node = id
      <3>1. s \in Ids \ NodeIds
        BY <2>1, <2>2, IdsAre, Knows DEF IInv, Known
      <3> QED BY <2>2, <3>1
    <2>3. CASE s[2] > 1 /\ IsA("node", <<s[1], s[2] - 1>>) /\ Frame(<<s[1], s[2] - 1>>).help = id
      <3>1. PICK m : m = <<s[1], s[2] - 1>>
        OBVIOUS
      <3>2. m \in Id /\ m \in NodeIds /\ Frame(m).help = id
        <4>1. m \in Id
          BY <2>1, <2>3, <3>1 DEF Id
        <4> QED BY <2>3, <3>1, <4>1, Knows DEF IInv, Known
      <3>3. HelperOf(m) = s
        <4>1. s = <<s[1], s[2]>> /\ s[2] \in Nat
          BY <2>1, IdIsPair
        <4> QED BY <3>1, <4>1 DEF HelperOf
      <3>4. Called(m)
        <4>1. m[1] \in Threads /\ m[2] \in DOMAIN stack[m[1]] /\ Frame(m) = stack[m[1]][m[2]]
              /\ Frame(m).kind = "node"
          BY <3>2, IdIsPair, Knows DEF IInv, Known, Frame
        <4>2. Fits(m[1], m[2], Frame(m))
          BY <4>1 DEF IInv, Places, Place
        <4> QED BY <1>1, <3>2, <4>1, <4>2, NilIsNoId DEF Fits, Called
      <3> QED BY <3>2, <3>3, <3>4
    <2> QED BY <2>1, <2>2, <2>3 DEF Serves
  <1>4. ASSUME NEW p \in serving, p[2] = id
        PROVE  p[1] \in Frame(id).slaves
    <2>1. CASE p \in called
      <3>1. PICK m \in NodeIds : p = <<HelperOf(m), Frame(m).help>>
        BY <2>1
      <3>2. PICK s : s = HelperOf(m)
        OBVIOUS
      <3>3. m \in Id /\ IsA("node", m) /\ m = <<m[1], m[2]>> /\ m[1] \in Threads /\ m[2] \in Nat \ {0}
        BY IdIsPair, Knows DEF IInv, Known
      <3>4. s = <<m[1], m[2] + 1>>
        BY <3>2 DEF HelperOf
      <3>5. s \in Id /\ s[2] > 1 /\ <<s[1], s[2] - 1>> = m
        BY <3>3, <3>4 DEF Id
      <3>6. Serves(s, id)
        BY <1>4, <3>1, <3>3, <3>5 DEF Serves
      <3> QED BY <1>2, <3>1, <3>2, <3>5, <3>6
    <2>2. CASE p \in {<<s, Frame(s).node>> : s \in Ids \ NodeIds}
      <3>1. PICK s \in Ids \ NodeIds : p = <<s, Frame(s).node>>
        BY <2>2
      <3>2. s \in Id /\ Serves(s, id)
        BY <1>4, <3>1, IdsAre DEF IInv, Serves
      <3> QED BY <1>2, <3>1, <3>2
    <2> QED BY <2>1, <2>2
  <1> DEFINE named == {pair[1] : pair \in {p \in serving : p[2] = id}}
  <1>5. ASSUME NEW s \in Frame(id).slaves PROVE s \in named
    <2>1. PICK p : p = <<s, id>>
      OBVIOUS
    <2>2. p \in serving /\ p[1] = s /\ p[2] = id
      BY <1>3, <2>1
    <2>3. p \in {q \in serving : q[2] = id}
      BY <2>2
    <2> QED BY <2>2, <2>3
  <1>6. ASSUME NEW s \in named PROVE s \in Frame(id).slaves
    <2>1. PICK p \in {q \in serving : q[2] = id} : s = p[1]
      OBVIOUS
    <2> QED BY <1>4, <2>1
  <1> HIDE DEF named
  <1>7. Frame(id).slaves = named
    BY <1>5, <1>6
  <1> QED BY <1>7 DEF named

LEMMA InvImpliesTypeOK == IInv => TypeOK
  <1> SUFFICES ASSUME IInv PROVE TypeOK
    OBVIOUS
  <1>1. idle \subseteq Workers /\ opened \in 0 .. MaxNodes
    BY DEF IInv, Typed
  <1>2. \A id \in Ids : FrameTyped(id)
    BY FramesTyped
  <1>3. ASSUME NEW id \in NodeIds
        PROVE  LET node == Frame(id)
               IN /\ IsA("search", node.search) /\ node.search[1] = id[1]
                  /\ IF node.parent = Nil THEN node.depth = Depth
                     ELSE IsA("node", node.parent) /\ Frame(node.parent).depth = node.depth + 1
    <2>1. id[1] \in Threads /\ id[2] \in DOMAIN stack[id[1]] /\ Frame(id) = stack[id[1]][id[2]]
          /\ Frame(id).kind = "node"
      BY IdIsPair, Knows DEF IInv, Known, Frame
    <2>2. Link(id[1], id[2])
      BY <2>1 DEF IInv, Links
    <2> QED BY <2>1, <2>2 DEF Link
  <1>4. PICK called : called = {<<HelperOf(m), Frame(m).help>> : m \in {m \in NodeIds : Called(m)}}
    OBVIOUS
  <1>5. PICK serving : serving = called \cup {<<s, Frame(s).node>> : s \in Ids \ NodeIds}
    OBVIOUS
  <1>6. \A id \in NodeIds : Frame(id).slaves = {pair[1] : pair \in {p \in serving : p[2] = id}}
    BY <1>4, <1>5, SlavesAre
  <1> QED BY <1>1, <1>2, <1>3, <1>4, <1>5, <1>6 DEF TypeOK

(* What the frames point to on each other's stacks is there, and each node  *)
(* knows its slaves: Node and Worker keep raw pointers (node.hpp, worker.hpp). *)
THEOREM TypeCorrect == Spec => []TypeOK
  BY Inductive, InvImpliesTypeOK, PTL

-----------------------------------------------------------------------------
(* No circle of masters.                                                    *)

LEMMA NatHasLeast ==
  ASSUME NEW S \in SUBSET Nat, S # {}
  PROVE  \E least \in S : \A other \in S : least <= other
  <1> DEFINE R == {p \in Nat \X Nat : p[1] < p[2]}
  <1>1. IsWellFoundedOn(R, Nat)
    BY NatLessThanWellFounded DEF OpToRel
  <1>2. PICK least \in S : \A other \in S : <<other, least>> \notin R
    BY <1>1, WFMin
  <1>3. ASSUME NEW other \in S PROVE least <= other
    <2>1. ~(other < least)
      BY <1>2
    <2> QED BY <2>1
  <1> QED BY <1>3

(* A node whose mutex a blocked thread wants is one that its frame on top   *)
(* seeks, and it helps.                                                     *)
LEMMA BlockedSeek ==
  ASSUME IInv, NEW t \in Threads, Blocked(t)
  PROVE  /\ stack[t] # <<>> /\ Wants(t) = Seeks(Frame(Top(t)))
         /\ Wants(t) \in Id /\ Helping(Wants(t))
  <1> DEFINE f == Frame(Top(t))
  <1>1. stack[t] # <<>> /\ Wants(t) # Nil /\ Held(Wants(t))
    BY DEF Blocked, Wants
  <1>2. /\ f = stack[t][Len(stack[t])] /\ f \in Frames /\ Place(t, Len(stack[t]))
        /\ Link(t, Len(stack[t])) /\ Target(t, Len(stack[t])) /\ Len(stack[t]) \in DOMAIN stack[t]
        /\ Fits(t, Len(stack[t]), f)
    BY <1>1, OnTop DEF IInv, Places, Place, Links, Targets
  <1>3. Wants(t) = Seeks(f) /\ Wants(t) \in NodeIds
    <2>1. CASE At(t, "node", "lock")
      <3>1. f.kind = "node" /\ f.pc = "lock" /\ Wants(t) = f.asks
        BY <1>1, <2>1 DEF At, Wants
      <3>2. f.help = Nil
        BY <1>2, <3>1 DEF Fits
      <3>3. f.asks \in NodeIds
        BY <1>1, <3>1, AskedAreAbove
      <3> QED BY <3>1, <3>2, <3>3 DEF Seeks
    <2>2. CASE At(t, "search", "report") \/ At(t, "search", "remove")
      <3>1. f.kind = "search" /\ f.pc \in {"report", "remove"}
        BY <2>2 DEF At
      <3>2. Wants(t) = f.node
        BY <1>1, <2>2, <3>1 DEF At, Wants
      <3>3. f.node \in NodeIds
        BY <1>1, <3>1, ServedIs
      <3> QED BY <3>1, <3>2, <3>3 DEF Seeks
    <2> QED BY <1>1, <2>1, <2>2 DEF Wants
  <1>4. PICK n : n = Wants(t)
    OBVIOUS
  <1>5. /\ n \in Id /\ IsA("node", n) /\ n[1] \in Threads /\ n[2] \in DOMAIN stack[n[1]]
        /\ Frame(n) = stack[n[1]][n[2]] /\ Frame(n).kind = "node"
    BY <1>3, <1>4, IdIsPair, Knows DEF IInv, Known, Frame
  <1>6. Frame(n).helping
    BY <1>1, <1>4, <1>5 DEF Held, IInv, Places, Place, Fits
  <1> QED BY <1>1, <1>3, <1>4, <1>5, <1>6 DEF Helping

(* Threads that all wait for each other would want nodes that were called   *)
(* later and later.                                                         *)
LEMMA NoCircle ==
  ASSUME IInv, NEW S \in SUBSET Threads, S # {}
  PROVE  \E t \in S : Blocked(t) => Wants(t)[1] \notin S
  <1> SUFFICES ASSUME \A t \in S : Blocked(t) /\ Wants(t)[1] \in S
               PROVE  FALSE
    OBVIOUS
  <1>1. PICK bound \in Nat : \E rank \in [Id -> 0 .. bound] : Ordered(rank)
    BY DEF IInv, Order
  <1>2. PICK rank \in [Id -> 0 .. bound] : Ordered(rank)
    BY <1>1
  <1>3. ASSUME NEW t \in S
        PROVE  /\ Wants(t) \in Id /\ Wants(t)[1] \in S
               /\ rank[Wants(t)] \in 0 .. bound
               /\ rank[Wants(t)] < rank[Wants(Wants(t)[1])]
    <2>1. PICK n : n = Wants(t)
      OBVIOUS
    <2>2. n \in Id /\ Helping(n) /\ n[1] \in S
      BY <2>1, BlockedSeek
    <2>3. PICK u : u = n[1]
      OBVIOUS
    <2>4. PICK m : m = Wants(u)
      OBVIOUS
    <2>5. /\ u \in S /\ u \in Threads /\ stack[u] # <<>> /\ m = Seeks(Frame(Top(u)))
          /\ m \in Id /\ Helping(m)
      BY <2>2, <2>3, <2>4, BlockedSeek
    <2>6. /\ Frame(Top(u)) = stack[u][Len(stack[u])] /\ Len(stack[u]) \in DOMAIN stack[u]
      BY <2>5, OnTop DEF IInv
    <2>7. n[2] \in DOMAIN stack[u] /\ n = <<u, n[2]>> /\ n[2] <= Len(stack[u])
      <3>1. n[2] \in DOMAIN stack[u] /\ n = <<u, n[2]>>
        BY <2>2, <2>3, IdIsPair DEF Helping, IsA
      <3>2. DOMAIN stack[u] = 1 .. Len(stack[u])
        BY <2>5, Lens DEF IInv, Typed
      <3> QED BY <3>1, <3>2
    <2>8. m # Nil
      BY <2>5, NilIsNoId
    <2>9. rank[n] < rank[m]
      BY <1>2, <2>2, <2>5, <2>6, <2>7, <2>8 DEF Ordered
    <2> QED BY <1>2, <2>1, <2>2, <2>3, <2>4, <2>9
  <1> DEFINE R(t) == bound - rank[Wants(t)]
             left == {R(t) : t \in S}
  <1>4. \A t \in S : R(t) \in Nat
    BY <1>3
  <1>5. left \in SUBSET Nat /\ left # {}
    BY <1>4
  <1>6. PICK least \in left : \A other \in left : least <= other
    BY <1>5, NatHasLeast
  <1>7. PICK t \in S : least = R(t)
    BY <1>6
  <1>8. PICK u : u = Wants(t)[1]
    OBVIOUS
  <1>9. u \in S /\ R(u) \in left
    BY <1>3, <1>8
  <1>10. R(u) < R(t)
    BY <1>3, <1>4, <1>8, <1>9
  <1>11. R(t) <= R(u) /\ R(t) \in Nat /\ R(u) \in Nat
    BY <1>4, <1>6, <1>7, <1>9
  <1> HIDE DEF R, left
  <1> QED BY <1>10, <1>11

LEMMA InvImpliesUntangled == IInv => Untangled
  <1> SUFFICES ASSUME IInv PROVE Untangled
    OBVIOUS
  <1>1. ASSUME NEW id \in NodeIds, Frame(id).helping, NEW n \in Helped(id)
        PROVE  id \in Above(n)
    <2>1. /\ id \in Id /\ id = <<id[1], id[2]>> /\ id[1] \in Threads
          /\ id[2] \in DOMAIN stack[id[1]] /\ id[2] \in Nat \ {0}
          /\ Frame(id) = stack[id[1]][id[2]] /\ Frame(id).kind = "node"
      BY IdIsPair, Knows DEF IInv, Known, Frame
    <2>2. CASE Called(id)
      <3>1. n = Frame(id).help
        BY <2>2 DEF Helped
      <3>2. Fits(id[1], id[2], Frame(id)) /\ Target(id[1], id[2])
        BY <2>1 DEF IInv, Places, Place, Targets
      <3>3. Frame(id).help # Nil
        BY <2>1, <2>2, <3>2 DEF Fits, Called
      <3> QED BY <2>1, <3>1, <3>2, <3>3 DEF Target
    <2>3. CASE ~Called(id)
      <3>1. IsA("search", HelperOf(id)) /\ n = Frame(HelperOf(id)).node
        BY <2>3 DEF Helped
      <3>2. PICK k : k = id[2] + 1
        OBVIOUS
      <3>3. k \in DOMAIN stack[id[1]] /\ stack[id[1]][k].kind = "search" /\ k > 1 /\ k - 1 = id[2]
            /\ n = stack[id[1]][k].node
        BY <2>1, <3>1, <3>2 DEF IsA, HelperOf, Frame
      <3>4. Target(id[1], k)
        BY <2>1, <3>3 DEF IInv, Targets
      <3> QED BY <2>1, <3>3, <3>4 DEF Target
    <2> QED BY <2>2, <2>3
  <1>2. \A id \in NodeIds : Frame(id).helping => Frame(id).slaves # {}
    BY DEF IInv, HasSlaves
  <1>3. \A S \in (SUBSET Threads) \ {{}} : \E t \in S : Blocked(t) => Wants(t)[1] \notin S
    BY NoCircle
  <1> QED BY <1>1, <1>2, <1>3 DEF Untangled

(* Masters help with their node's mutex held and never wait for one another  *)
(* in a circle, and a master that is called is called to a node below its   *)
(* own (Node::WaitSlaves, Node::GetHelper).                                 *)
THEOREM NeverTangled == Spec => []Untangled
  BY Inductive, InvImpliesUntangled, PTL
=============================================================================
