------------------------------ MODULE Mapping ------------------------------
(***************************************************************************)
(* The key mappings of a view (tui/src/mapping.cpp): a table of 256 blocks *)
(* of entries.  An entry belongs to the modes it is bound in; a binding    *)
(* takes its modes from the entries of its left-hand side, and goes in the *)
(* place of one that loses them all or else in front of the block.         *)
(*                                                                         *)
(* A left-hand side is a sequence of keys as ReplaceTermcodes left it, and *)
(* a callback is a model value.  SetKeymap throws on an empty side, on one *)
(* too long and on a text to type; no table comes of those calls.          *)
(***************************************************************************)
EXTENDS SequencesExt

CONSTANTS
  Sides,      \* the left-hand sides: nonempty sequences of keys
  Callbacks,  \* the functions keys are bound to
  NOP,        \* the right-hand side "<NOP>"
  Unbound     \* what a key sequence nothing is bound to runs

ASSUME SidesAssumption == \A l \in Sides : l # <<>> /\ Len(l) \in Nat
ASSUME NopAssumption == NOP \notin Callbacks /\ Unbound \notin Callbacks \cup {NOP}

NORMAL == "normal"
VISUAL == "visual"
INTERACT == "interact"
Modes == {NORMAL, VISUAL, INTERACT}

Entries == [mode: SUBSET Modes, lhs: Sides, rhs: Callbacks \cup {NOP}]

(* MAP_HASH: the block of a first key, flipped for a call of INTERACT only. *)
MapHash(modes, key) == <<key, modes \cap {NORMAL, VISUAL} # {}>>
Blocks == {MapHash(ms, l[1]) : ms \in SUBSET Modes, l \in Sides}
EmptyTable == [h \in Blocks |-> <<>>]

(* The entries of a block that a call on lhs concerns, by their places. *)
Hits(block, modes, lhs) ==
  {i \in DOMAIN block : block[i].mode \cap modes # {} /\ block[i].lhs = lhs}

Least(S) == CHOOSE i \in S : \A j \in S : i <= j

(* entry.mode &= ~mode, of the entries at the places I. *)
Reduced(block, modes, I) ==
  [i \in DOMAIN block |->
     IF i \in I THEN [block[i] EXCEPT !.mode = @ \ modes] ELSE block[i]]

(* Mutant: the new entry goes in front and takes no mode from the others. *)
SetKeymapInFront(table, modes, lhs, rhs) ==
  [table EXCEPT ![MapHash(modes, lhs[1])] =
     <<[mode |-> modes, lhs |-> lhs, rhs |-> rhs]>> \o @]

(* The loop stops at the first entry it empties, which the new one replaces: *)
(* entries behind that one keep the modes.                                   *)
SetKeymap(table, modes, lhs, rhs) ==
  LET h == MapHash(modes, lhs[1])
      hits == Hits(table[h], modes, lhs)
      emptied == {i \in hits : table[h][i].mode \subseteq modes}
      new == [mode |-> modes, lhs |-> lhs, rhs |-> rhs]
  IN [table EXCEPT ![h] =
        IF emptied = {} THEN <<new>> \o Reduced(@, modes, hits)
        ELSE LET k == Least(emptied)
             IN [Reduced(@, modes, {i \in hits : i < k}) EXCEPT ![k] = new]]

(* The first entry of lhs in one of the modes, and no other, loses them. *)
DelKeymap(table, modes, lhs) ==
  LET h == MapHash(modes, lhs[1])
      hits == Hits(table[h], modes, lhs)
  IN IF hits = {} THEN table
     ELSE [table EXCEPT ![h] = Reduced(@, modes, {Least(hits)})]

(* Handle: the callback of the first entry of the buffer in this mode that *)
(* is no "<NOP>"; with none, the key is not handled.                       *)
Handle(table, mode, buffer) ==
  LET h == MapHash({mode}, buffer[1])
      block == IF h \in Blocks THEN table[h] ELSE <<>>
      hits == {i \in Hits(block, {mode}, buffer) : block[i].rhs # NOP}
  IN IF hits = {} THEN Unbound ELSE block[Least(hits)].rhs

(* GetKeymaps: the entries of a mode, of all blocks, by their places. *)
GetKeymaps(table, mode) ==
  UNION {{<<h, i>> : i \in {j \in DOMAIN table[h] : mode \in table[h][j].mode}} : h \in Blocks}
=============================================================================
