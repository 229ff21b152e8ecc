---------------------------- MODULE SessionProofs ----------------------------
(***************************************************************************)
(* Proofs about Session, for any positions, lines and number of keys: that   *)
(* what the user, the handshake and the reader write in any order adds up    *)
(* to an engine that searches what is shown.                                 *)
(***************************************************************************)
EXTENDS Session, FiniteSetTheorems, SequenceTheorems, TLAPS

Commands ==
  {c \in [cmd : {"uci", "setoption", "isready", "ucinewgame", "position", "go", "stop", "clearhash"},
          position : Positions, value : 0 .. Lines, by : {UI, InitEngine}] :
     c.cmd = "setoption" => c.value # 0}
Outputs ==
  {o \in [kind : OptionIds \cup {"uciok", "readyok", "bestmove", "info"},
          position : Positions, value : 0 .. Lines] : o.kind = "info" => o.value # 0}
Shown == {NoLine} \cup [searched : Positions, shown : Positions]
UIPcs == {"construct", "constructOptions", "idle", "stopping", "sending", "join", "terminate",
          "joinReader", "exited"}
InitPcs == {"uci", "wait", "options", "waitReady", "done", "stuck", "failed"}
ReaderPcs == {"read", "notify", "exited", "stuck", "failed"}

TypedPcs ==
  /\ pc \in [Threads -> UIPcs \cup InitPcs \cup ReaderPcs]
  /\ pc[UI] \in UIPcs /\ pc[InitEngine] \in InitPcs /\ pc[Reader] \in ReaderPcs
  /\ mutex \in {Free, UI, InitEngine}
  /\ mutex = InitEngine => pc[InitEngine] \in {"options", "stuck", "failed"}
  /\ pc[InitEngine] \in {"options", "stuck"} => mutex = InitEngine
  /\ mutex = UI => pc[UI] = "sending"
TypedScreen ==
  /\ position \in Positions /\ fen \in Positions /\ running \in BOOLEAN
  /\ attrs \subseteq {"UCI", "READY"} /\ options \subseteq OptionIds \cup {Misused}
  /\ pvs \in [1 .. Lines -> Shown]
  /\ edited \in BOOLEAN /\ keys \in 0 .. MaxKeys
TypedPipes ==
  /\ sending \in [{UI, InitEngine} -> Seq(Commands)]
  /\ toEngine \in Seq(Commands) /\ fromEngine \in Seq(Outputs) /\ alive \in BOOLEAN
  /\ engine \in [position : Positions, searching : BOOLEAN, lines : 1 .. Lines]
  /\ disturbed \in BOOLEAN
Typed == TypedPcs /\ TypedScreen /\ TypedPipes

(* What the threads hold back: the UI thread only inside a handler, and      *)
(* InitEngine only the options it sets.                                      *)
HasUci(s) == \E i \in 1 .. Len(s) : s[i].cmd = "uci"
HeldBack ==
  /\ pc[UI] \notin {"sending", "stopping"} => sending[UI] = <<>>
  /\ ~HasUci(sending[UI])
  /\ \A i \in DOMAIN sending[InitEngine] :
       sending[InitEngine][i].by = InitEngine /\ sending[InitEngine][i].cmd = "setoption"

UnreadInv == Unread <= MaxUnread

(* What the engine is yet to read, if InitEngine sends no more.              *)
Due == toEngine \o sending[UI]

(* Whether an engine does not search once it has read the first n commands.  *)
QuietAfter(s, n, searching) ==
  /\ searching => \E j \in 1 .. n : s[j].cmd = "stop"
  /\ \A k \in 1 .. n : s[k].cmd = "go" => \E j \in k + 1 .. n : s[j].cmd = "stop"
Quiet(s, searching) == QuietAfter(s, Len(s), searching)

(* Nothing that disturbs comes while it searches.                            *)
Disturbs(c) == c.by = UI /\ c.cmd \in Disturbing
Orderly(s, searching) ==
  \A i \in 1 .. Len(s) : Disturbs(s[i]) => QuietAfter(s, i - 1, searching)

(* The last position that is sent is p, or the engine has it.                *)
AimsAt(s, first, p) ==
  /\ (\A i \in 1 .. Len(s) : s[i].cmd # "position") => first = p
  /\ \A i \in 1 .. Len(s) :
       /\ s[i].cmd = "position"
       /\ \A j \in i + 1 .. Len(s) : s[j].cmd # "position"
       => s[i].position = p

SearchInv ==
  /\ ~disturbed /\ Orderly(Due, engine.searching)
  /\ ~running => Quiet(Due, engine.searching)
  /\ ~edited => fen = position
  /\ running /\ ~edited => AimsAt(Due, engine.position, position)

(* uciok comes after the options.                                            *)
Past == pc[InitEngine] \in {"options", "waitReady", "done"}
OptionsInv ==
  /\ pc[UI] \in {"construct", "constructOptions"} => options \subseteq {Misused}
  /\ Misused \notin options =>
       /\ "UCI" \in attrs \/ Past => OptionIds \subseteq options
       /\ \A i \in 1 .. Len(fromEngine) : fromEngine[i].kind = "uciok" =>
            \A o \in OptionIds : o \in options \/ \E j \in 1 .. i - 1 : fromEngine[j].kind = o

(* The engine is asked for its options once, and declares them before uciok. *)
HasKind(s, kinds) == \E i \in 1 .. Len(s) : s[i].kind \in kinds
Once(s) == \A i, j \in 1 .. Len(s) : s[i].cmd = "uci" /\ s[j].cmd = "uci" => i = j
OptionsFirst(s) ==
  \A i \in 1 .. Len(s) : s[i].kind = "uciok" => \A j \in i + 1 .. Len(s) : s[j].kind \notin OptionIds
UciInv ==
  /\ Once(toEngine) /\ OptionsFirst(fromEngine)
  /\ pc[InitEngine] = "uci" => ~HasUci(toEngine)
  /\ pc[InitEngine] = "uci" \/ HasUci(toEngine) =>
       "UCI" \notin attrs /\ ~Past /\ ~HasKind(fromEngine, OptionIds \cup {"uciok"})
  /\ "UCI" \in attrs \/ Past => ~HasKind(fromEngine, OptionIds)

IInv == Typed /\ HeldBack /\ UnreadInv /\ SearchInv /\ OptionsInv /\ UciInv

-----------------------------------------------------------------------------
(* Sequences of commands.                                                   *)

LEMMA CommandHas ==
  ASSUME NEW c \in Commands
  PROVE  /\ c.cmd \in {"uci", "setoption", "isready", "ucinewgame", "position", "go", "stop",
                       "clearhash"}
         /\ c.position \in Positions /\ c.value \in 0 .. Lines /\ c.by \in {UI, InitEngine}
         /\ c.cmd = "setoption" => c.value \in 1 .. Lines
  BY SessionAssumption DEF Commands, SessionAssumption

LEMMA CommandIs ==
  ASSUME NEW cmd \in {"uci", "setoption", "isready", "ucinewgame", "position", "go", "stop",
                      "clearhash"},
         NEW p \in Positions, NEW n \in 0 .. Lines, NEW t \in {UI, InitEngine},
         cmd = "setoption" => n # 0
  PROVE  /\ Command(cmd, p, n, t) \in Commands
         /\ Command(cmd, p, n, t).cmd = cmd /\ Command(cmd, p, n, t).position = p
         /\ Command(cmd, p, n, t).value = n /\ Command(cmd, p, n, t).by = t
  BY DEF Command, Commands

LEMMA PlainIs ==
  ASSUME NEW cmd \in {"uci", "isready", "ucinewgame", "go", "stop", "clearhash"},
         NEW t \in {UI, InitEngine}
  PROVE  Plain(cmd, t) \in Commands /\ Plain(cmd, t).cmd = cmd /\ Plain(cmd, t).by = t
  <1>1. StartPos \in Positions /\ 0 \in 0 .. Lines
    BY SessionAssumption DEF SessionAssumption
  <1> QED BY <1>1, CommandIs DEF Plain

LEMMA Appended ==
  ASSUME NEW S, NEW s \in Seq(S), NEW c \in S
  PROVE  /\ Append(s, c) \in Seq(S) /\ Len(Append(s, c)) = Len(s) + 1 /\ Len(s) \in Nat
         /\ Append(s, c)[Len(s) + 1] = c
         /\ \A i \in 1 .. Len(s) : Append(s, c)[i] = s[i]
  OBVIOUS

LEMMA FirstGone ==
  ASSUME NEW S, NEW s \in Seq(S), s # <<>>
  PROVE  /\ Tail(s) \in Seq(S) /\ Len(Tail(s)) = Len(s) - 1 /\ Len(s) \in Nat \ {0}
         /\ Head(s) \in S /\ Head(s) = s[1]
         /\ \A i \in 1 .. Len(s) - 1 : Tail(s)[i] = s[i + 1]
  OBVIOUS

LEMMA Joined ==
  ASSUME NEW S, NEW a \in Seq(S), NEW b \in Seq(S)
  PROVE  /\ a \o b \in Seq(S) /\ Len(a \o b) = Len(a) + Len(b)
         /\ Len(a) \in Nat /\ Len(b) \in Nat
         /\ \A i \in 1 .. Len(a) : (a \o b)[i] = a[i]
         /\ \A i \in Len(a) + 1 .. Len(a) + Len(b) : (a \o b)[i] = b[i - Len(a)]
  OBVIOUS

(* A handler sends one command more, at the end.                            *)
LEMMA SendsOne ==
  ASSUME NEW s \in Seq(Commands), NEW c \in Commands, NEW x \in BOOLEAN,
         Orderly(s, x), Disturbs(c) => Quiet(s, x)
  PROVE  /\ Orderly(Append(s, c), x)
         /\ c.cmd = "stop" => Quiet(Append(s, c), x)
         /\ Quiet(s, x) /\ c.cmd # "go" => Quiet(Append(s, c), x)
  <1> DEFINE n == Len(s)
  <1>1. PICK r : r = Append(s, c)
    OBVIOUS
  <1>2. /\ n \in Nat /\ Len(r) = n + 1 /\ r[n + 1] = c /\ \A i \in 1 .. n : r[i] = s[i]
    BY <1>1, Appended
  <1>3. \A m \in 0 .. n : QuietAfter(s, m, x) => QuietAfter(r, m, x)
    BY <1>2 DEF QuietAfter
  <1>4. Orderly(r, x)
    <2> SUFFICES ASSUME NEW i \in 1 .. n + 1, Disturbs(r[i])
                 PROVE  QuietAfter(r, i - 1, x)
      BY <1>2 DEF Orderly
    <2>1. CASE i \in 1 .. n
      BY <1>2, <1>3, <2>1 DEF Orderly
    <2>2. CASE i = n + 1
      BY <1>2, <1>3, <2>2 DEF Quiet
    <2> QED BY <1>2, <2>1, <2>2
  <1>5. ASSUME c.cmd = "stop" PROVE Quiet(r, x)
    BY <1>2, <1>5 DEF Quiet, QuietAfter
  <1>6. ASSUME Quiet(s, x), c.cmd # "go" PROVE Quiet(r, x)
    BY <1>2, <1>6 DEF Quiet, QuietAfter
  <1> QED BY <1>1, <1>4, <1>5, <1>6

LEMMA AimsOne ==
  ASSUME NEW s \in Seq(Commands), NEW c \in Commands, NEW first, NEW p
  PROVE  /\ c.cmd = "position" /\ c.position = p => AimsAt(Append(s, c), first, p)
         /\ c.cmd # "position" /\ AimsAt(s, first, p) => AimsAt(Append(s, c), first, p)
  <1> DEFINE n == Len(s)
  <1>1. PICK r : r = Append(s, c)
    OBVIOUS
  <1>2. n \in Nat /\ Len(r) = n + 1 /\ r[n + 1] = c /\ \A i \in 1 .. n : r[i] = s[i]
    BY <1>1, Appended
  <1>3. ASSUME c.cmd = "position", c.position = p PROVE AimsAt(r, first, p)
    BY <1>2, <1>3 DEF AimsAt
  <1>4. ASSUME c.cmd # "position", AimsAt(s, first, p) PROVE AimsAt(r, first, p)
    <2>1. (\A i \in 1 .. n + 1 : r[i].cmd # "position") => first = p
      BY <1>2, <1>4 DEF AimsAt
    <2>2. ASSUME NEW i \in 1 .. n + 1, r[i].cmd = "position",
                 \A j \in i + 1 .. n + 1 : r[j].cmd # "position"
          PROVE  r[i].position = p
      <3>1. i \in 1 .. n /\ \A j \in i + 1 .. n : s[j].cmd # "position"
        BY <1>2, <1>4, <2>2
      <3> QED BY <1>2, <1>4, <2>2, <3>1 DEF AimsAt
    <2> QED BY <1>2, <2>1, <2>2 DEF AimsAt
  <1> QED BY <1>1, <1>3, <1>4

(* The engine reads the first command.                                      *)
LEMMA ReadsOne ==
  ASSUME NEW s \in Seq(Commands), s # <<>>, NEW x \in BOOLEAN, NEW y \in BOOLEAN,
         y => Head(s).cmd = "go" \/ (x /\ Head(s).cmd # "stop"),
         NEW first, NEW next, NEW p,
         next = IF Head(s).cmd = "position" THEN Head(s).position ELSE first
  PROVE  /\ Orderly(s, x) => Orderly(Tail(s), y)
         /\ Quiet(s, x) => Quiet(Tail(s), y)
         /\ AimsAt(s, first, p) => AimsAt(Tail(s), next, p)
  <1> DEFINE n == Len(s) - 1
  <1>1. PICK r : r = Tail(s)
    OBVIOUS
  <1>2. n \in Nat /\ Len(s) = n + 1 /\ Len(r) = n /\ Head(s) = s[1] /\ \A i \in 1 .. n : r[i] = s[i + 1]
    BY <1>1, FirstGone
  <1> HIDE DEF n
  <1>3. ASSUME NEW m \in 0 .. n, QuietAfter(s, m + 1, x)
        PROVE  QuietAfter(r, m, y)
    <2>1. ASSUME NEW k \in 1 .. m + 1, NEW j \in k + 1 .. m + 1, s[j].cmd = "stop"
          PROVE  j - 1 \in k .. m /\ r[j - 1].cmd = "stop"
      BY <1>2, <2>1
    <2>2. ASSUME y PROVE \E j \in 1 .. m : r[j].cmd = "stop"
      <3>1. PICK j \in 2 .. m + 1 : s[j].cmd = "stop"
        <4>1. CASE s[1].cmd = "go"
          <5>1. \E j \in 1 + 1 .. m + 1 : s[j].cmd = "stop"
            BY <1>2, <1>3, <4>1 DEF QuietAfter
          <5> QED BY <5>1
        <4>2. CASE x /\ s[1].cmd # "stop"
          <5>1. PICK j \in 1 .. m + 1 : s[j].cmd = "stop"
            BY <1>3, <4>2 DEF QuietAfter
          <5>2. j \in 2 .. m + 1
            BY <4>2, <5>1
          <5> QED BY <5>1, <5>2
        <4> QED BY <1>2, <2>2, <4>1, <4>2
      <3>2. j - 1 \in 1 .. m /\ r[j - 1].cmd = "stop"
        BY <1>2, <3>1
      <3> QED BY <3>2
    <2>3. ASSUME NEW k \in 1 .. m, r[k].cmd = "go"
          PROVE  \E j \in k + 1 .. m : r[j].cmd = "stop"
      <3>1. s[k + 1].cmd = "go" /\ k + 1 \in 1 .. m + 1
        BY <1>2, <2>3
      <3>2. PICK j \in (k + 1) + 1 .. m + 1 : s[j].cmd = "stop"
        BY <1>3, <3>1 DEF QuietAfter
      <3>3. j - 1 \in k + 1 .. m /\ r[j - 1].cmd = "stop"
        BY <1>2, <3>2
      <3> QED BY <3>3
    <2> QED BY <2>2, <2>3 DEF QuietAfter
  <1>4. ASSUME Orderly(s, x) PROVE Orderly(r, y)
    <2> SUFFICES ASSUME NEW i \in 1 .. n, Disturbs(r[i])
                 PROVE  QuietAfter(r, i - 1, y)
      BY <1>2 DEF Orderly
    <2>1. i + 1 \in 1 .. Len(s) /\ Disturbs(s[i + 1]) /\ (i + 1) - 1 = (i - 1) + 1
          /\ i - 1 \in 0 .. n
      BY <1>2
    <2> QED BY <1>3, <1>4, <2>1 DEF Orderly
  <1>5. ASSUME Quiet(s, x) PROVE Quiet(r, y)
    BY <1>2, <1>3, <1>5 DEF Quiet
  <1>6. ASSUME AimsAt(s, first, p) PROVE AimsAt(r, next, p)
    <2>1. ASSUME \A i \in 1 .. n : r[i].cmd # "position" PROVE next = p
      <3>1. \A i \in 2 .. n + 1 : s[i].cmd # "position"
        <4> SUFFICES ASSUME NEW i \in 2 .. n + 1 PROVE s[i].cmd # "position"
          OBVIOUS
        <4>1. i - 1 \in 1 .. n /\ r[i - 1] = s[i]
          BY <1>2
        <4> QED BY <2>1, <4>1
      <3> QED BY <1>2, <1>6, <3>1 DEF AimsAt
    <2>2. ASSUME NEW i \in 1 .. n, r[i].cmd = "position",
                 \A j \in i + 1 .. n : r[j].cmd # "position"
          PROVE  r[i].position = p
      <3>1. i + 1 \in 1 .. Len(s) /\ s[i + 1] = r[i]
        BY <1>2
      <3>2. \A j \in (i + 1) + 1 .. Len(s) : s[j].cmd # "position"
        <4> SUFFICES ASSUME NEW j \in (i + 1) + 1 .. n + 1 PROVE s[j].cmd # "position"
          BY <1>2
        <4>1. j - 1 \in i + 1 .. n /\ r[j - 1] = s[j]
          BY <1>2
        <4> QED BY <2>2, <4>1
      <3> QED BY <1>6, <2>2, <3>1, <3>2 DEF AimsAt
    <2> QED BY <1>2, <2>1, <2>2 DEF AimsAt
  <1> QED BY <1>1, <1>4, <1>5, <1>6

(* InitEngine's commands come between those of the UI thread.               *)
LEMMA InitSendsOne ==
  ASSUME NEW a \in Seq(Commands), NEW b \in Seq(Commands), NEW c \in Commands,
         c.by = InitEngine, c.cmd \notin {"position", "go", "stop"},
         NEW x \in BOOLEAN, NEW first, NEW p
  PROVE  LET s == a \o b
             r == Append(a, c) \o b
         IN /\ Orderly(s, x) => Orderly(r, x)
            /\ Quiet(s, x) => Quiet(r, x)
            /\ AimsAt(s, first, p) => AimsAt(r, first, p)
  <1> DEFINE l == Len(a)
  <1>1. PICK s : s = a \o b
    OBVIOUS
  <1>2. PICK r : r = Append(a, c) \o b
    OBVIOUS
  <1>3. PICK n : n = Len(s)
    OBVIOUS
  <1>4. /\ l \in Nat /\ n \in Nat /\ l <= n /\ Len(r) = n + 1
        /\ r[l + 1] = c
        /\ \A i \in 1 .. l : r[i] = s[i]
        /\ \A i \in l + 1 .. n : r[i + 1] = s[i]
    <2>1. /\ Append(a, c) \in Seq(Commands) /\ Len(Append(a, c)) = l + 1 /\ l \in Nat
          /\ Append(a, c)[l + 1] = c /\ \A i \in 1 .. l : Append(a, c)[i] = a[i]
      BY Appended
    <2>2. /\ Len(s) = l + Len(b) /\ Len(b) \in Nat
          /\ \A i \in 1 .. l : s[i] = a[i]
          /\ \A i \in l + 1 .. l + Len(b) : s[i] = b[i - l]
      BY <1>1, Joined
    <2>3. /\ Len(r) = (l + 1) + Len(b)
          /\ \A i \in 1 .. l + 1 : r[i] = Append(a, c)[i]
          /\ \A i \in (l + 1) + 1 .. (l + 1) + Len(b) : r[i] = b[i - (l + 1)]
      BY <1>2, <2>1, Joined
    <2>4. ASSUME NEW i \in l + 1 .. n PROVE r[i + 1] = s[i]
      <3>1. i \in l + 1 .. l + Len(b) /\ i + 1 \in (l + 1) + 1 .. (l + 1) + Len(b)
            /\ (i + 1) - (l + 1) = i - l
        BY <1>3, <2>1, <2>2
      <3> QED BY <2>2, <2>3, <3>1
    <2>5. n = l + Len(b) /\ n \in Nat /\ l <= n /\ Len(r) = n + 1
      BY <1>3, <2>1, <2>2, <2>3
    <2>6. r[l + 1] = c
      BY <2>1, <2>3
    <2>7. ASSUME NEW i \in 1 .. l PROVE r[i] = s[i]
      BY <2>1, <2>2, <2>3
    <2> QED BY <2>1, <2>4, <2>5, <2>6, <2>7
  <1> HIDE DEF l
  <1>5. ASSUME NEW m \in 0 .. n, NEW k \in 0 .. n + 1,
               (k = m /\ m <= l) \/ (k = m + 1 /\ l <= m), QuietAfter(s, m, x)
        PROVE  QuietAfter(r, k, x)
    <2>1. ASSUME NEW i \in 0 .. m, NEW j \in i + 1 .. m, s[j].cmd = "stop", i <= l
          PROVE  \E g \in i + 1 .. k : r[g].cmd = "stop"
      <3>1. CASE j <= l
        <4>1. j \in i + 1 .. k /\ r[j] = s[j]
          BY <1>4, <1>5, <2>1, <3>1
        <4> QED BY <2>1, <4>1
      <3>2. CASE l < j
        <4>1. j + 1 \in i + 1 .. k /\ r[j + 1] = s[j]
          BY <1>4, <1>5, <2>1, <3>2
        <4> QED BY <2>1, <4>1
      <3> QED BY <1>4, <3>1, <3>2
    <2>2. ASSUME NEW i \in 0 .. m, NEW j \in i + 1 .. m, s[j].cmd = "stop", l <= i
          PROVE  \E g \in (i + 1) + 1 .. k : r[g].cmd = "stop"
      <3>1. j + 1 \in (i + 1) + 1 .. k /\ r[j + 1] = s[j]
        BY <1>4, <1>5, <2>2
      <3> QED BY <2>2, <3>1
    <2>3. ASSUME x PROVE \E j \in 1 .. k : r[j].cmd = "stop"
      <3>1. PICK j \in 0 + 1 .. m : s[j].cmd = "stop"
        BY <1>5, <2>3 DEF QuietAfter
      <3>2. 0 \in 0 .. m /\ 0 <= l
        BY <1>4
      <3>3. \E g \in 0 + 1 .. k : r[g].cmd = "stop"
        BY <2>1, <3>1, <3>2
      <3> QED BY <3>3
    <2>4. ASSUME NEW i \in 1 .. k, r[i].cmd = "go"
          PROVE  \E g \in i + 1 .. k : r[g].cmd = "stop"
      <3>1. i # l + 1
        BY <1>4, <2>4
      <3>2. CASE i <= l
        <4>1. i \in 1 .. m /\ r[i] = s[i]
          BY <1>4, <1>5, <3>2
        <4>2. PICK j \in i + 1 .. m : s[j].cmd = "stop"
          BY <1>5, <2>4, <4>1 DEF QuietAfter
        <4>3. i \in 0 .. m
          BY <4>1
        <4> QED BY <2>1, <3>2, <4>2, <4>3
      <3>3. CASE l + 1 < i
        <4>1. PICK h : h = i - 1
          OBVIOUS
        <4>2. h \in 1 .. m /\ h \in l + 1 .. n /\ r[h + 1] = s[h] /\ h + 1 = i /\ l <= h
          BY <1>4, <1>5, <3>3, <4>1
        <4>3. PICK j \in h + 1 .. m : s[j].cmd = "stop"
          BY <1>5, <2>4, <4>2 DEF QuietAfter
        <4>4. h \in 0 .. m
          BY <4>2
        <4>5. \E g \in (h + 1) + 1 .. k : r[g].cmd = "stop"
          BY <2>2, <4>2, <4>3, <4>4
        <4> QED BY <4>2, <4>5
      <3> QED BY <1>4, <3>1, <3>2, <3>3
    <2> QED BY <2>3, <2>4 DEF QuietAfter
  <1>6. ASSUME Orderly(s, x) PROVE Orderly(r, x)
    <2> SUFFICES ASSUME NEW i \in 1 .. n + 1, Disturbs(r[i])
                 PROVE  QuietAfter(r, i - 1, x)
      BY <1>4 DEF Orderly
    <2>1. i # l + 1
      BY <1>4 DEF Disturbs, UI, InitEngine
    <2>2. CASE i <= l
      <3>1. i \in 1 .. n /\ r[i] = s[i] /\ i - 1 \in 0 .. n /\ i - 1 \in 0 .. n + 1 /\ i - 1 <= l
        BY <1>4, <2>2
      <3> QED BY <1>3, <1>5, <1>6, <3>1 DEF Orderly
    <2>3. CASE l + 1 < i
      <3>1. PICK h : h = i - 1
        OBVIOUS
      <3>2. h \in 1 .. n /\ h \in l + 1 .. n /\ r[h + 1] = s[h] /\ h + 1 = i
            /\ h - 1 \in 0 .. n /\ h \in 0 .. n + 1 /\ h = (h - 1) + 1 /\ l <= h - 1
        BY <1>4, <2>3, <3>1
      <3>3. QuietAfter(s, h - 1, x)
        BY <1>3, <1>6, <3>2 DEF Orderly
      <3> QED BY <1>5, <3>1, <3>2, <3>3
    <2> QED BY <1>4, <2>1, <2>2, <2>3
  <1>7. ASSUME Quiet(s, x) PROVE Quiet(r, x)
    BY <1>3, <1>4, <1>5, <1>7 DEF Quiet
  <1>8. ASSUME AimsAt(s, first, p) PROVE AimsAt(r, first, p)
    <2>1. ASSUME \A i \in 1 .. n + 1 : r[i].cmd # "position" PROVE first = p
      <3>1. \A i \in 1 .. n : s[i].cmd # "position"
        <4> SUFFICES ASSUME NEW i \in 1 .. n PROVE s[i].cmd # "position"
          OBVIOUS
        <4>1. r[i] = s[i] \/ (r[i + 1] = s[i] /\ i + 1 \in 1 .. n + 1)
          BY <1>4
        <4> QED BY <1>4, <2>1, <4>1
      <3> QED BY <1>3, <1>8, <3>1 DEF AimsAt
    <2>2. ASSUME NEW i \in 1 .. n + 1, r[i].cmd = "position",
                 \A j \in i + 1 .. n + 1 : r[j].cmd # "position"
          PROVE  r[i].position = p
      <3>1. i # l + 1
        BY <1>4, <2>2
      <3>2. PICK h : h = IF i <= l THEN i ELSE i - 1
        OBVIOUS
      <3>3. h \in 1 .. n /\ s[h] = r[i]
        BY <1>4, <3>1, <3>2
      <3>4. \A j \in h + 1 .. n : s[j].cmd # "position"
        <4> SUFFICES ASSUME NEW j \in h + 1 .. n PROVE s[j].cmd # "position"
          OBVIOUS
        <4>1. CASE j <= l
          <5>1. j \in i + 1 .. n + 1 /\ r[j] = s[j]
            BY <1>4, <3>1, <3>2, <4>1
          <5> QED BY <2>2, <5>1
        <4>2. CASE l < j
          <5>1. j + 1 \in i + 1 .. n + 1 /\ r[j + 1] = s[j]
            BY <1>4, <3>1, <3>2, <4>2
          <5> QED BY <2>2, <5>1
        <4> QED BY <1>4, <4>1, <4>2
      <3> QED BY <1>3, <1>8, <2>2, <3>3, <3>4 DEF AimsAt
    <2> QED BY <1>4, <2>1, <2>2 DEF AimsAt
  <1> QED BY <1>1, <1>2, <1>6, <1>7, <1>8

(* What is put together in one step is sent one command at a time.          *)
LEMMA Chained ==
  ASSUME NEW S, NEW a \in Seq(S), NEW c \in S, NEW d \in S, NEW b \in Seq(S)
  PROVE  /\ a \o <<>> = a /\ a \o <<c>> = Append(a, c)
         /\ a \o <<c, d>> = Append(Append(a, c), d)
         /\ a \o (b \o <<c>>) = Append(a \o b, c)
         /\ <<c>> \in Seq(S) /\ <<c, d>> \in Seq(S)
  <1>1. <<c>> \in Seq(S) /\ <<d>> \in Seq(S) /\ <<c, d>> \in Seq(S) /\ a \o <<c>> \in Seq(S)
        /\ a \o b \in Seq(S) /\ Append(a, c) \in Seq(S)
    OBVIOUS
  <1>2. a \o <<>> = a
    BY ConcatEmptySeq
  <1>3. a \o <<c>> = Append(a, c)
    BY AppendIsConcat
  <1>4. Append(Append(a, c), d) = (a \o <<c>>) \o <<d>>
    BY <1>1, <1>3, AppendIsConcat
  <1>5. (a \o <<c>>) \o <<d>> = a \o (<<c>> \o <<d>>)
    BY <1>1, ConcatAssociative
  <1>6. <<c>> \o <<d>> = <<c, d>>
    <2>1. /\ <<c>> \o <<d>> \in Seq(S) /\ Len(<<c>> \o <<d>>) = 2
          /\ (<<c>> \o <<d>>)[1] = c /\ (<<c>> \o <<d>>)[2] = d
      OBVIOUS
    <2>2. \A i \in 1 .. Len(<<c, d>>) : (<<c>> \o <<d>>)[i] = <<c, d>>[i]
      BY <2>1
    <2> QED BY <1>1, <2>1, <2>2, SeqEqual
  <1>7. Append(a \o b, c) = (a \o b) \o <<c>>
    BY <1>1, AppendIsConcat
  <1>8. (a \o b) \o <<c>> = a \o (b \o <<c>>)
    BY <1>1, ConcatAssociative
  <1> QED BY <1>1, <1>2, <1>3, <1>4, <1>5, <1>6, <1>7, <1>8

LEMMA SentNext ==
  ASSUME NEW S, NEW a \in Seq(S), NEW b \in Seq(S), b # <<>>
  PROVE  Append(a, Head(b)) \o Tail(b) = a \o b
  <1>1. Head(b) \in S /\ Tail(b) \in Seq(S) /\ <<Head(b)>> \in Seq(S)
        /\ b = <<Head(b)>> \o Tail(b)
    OBVIOUS
  <1>2. Append(a, Head(b)) = a \o <<Head(b)>>
    BY <1>1, AppendIsConcat
  <1>3. (a \o <<Head(b)>>) \o Tail(b) = a \o (<<Head(b)>> \o Tail(b))
    BY <1>1, ConcatAssociative
  <1> QED BY <1>1, <1>2, <1>3

LEMMA ReadFirst ==
  ASSUME NEW S, NEW a \in Seq(S), NEW b \in Seq(S), a # <<>>
  PROVE  /\ Tail(a) \o b = Tail(a \o b) /\ Head(a \o b) = Head(a)
         /\ a \o b # <<>> /\ a \o b \in Seq(S)
  OBVIOUS

-----------------------------------------------------------------------------
(* Unread info lines.                                                       *)

Infos(s) == {i \in DOMAIN s : s[i].kind = "info"}

LEMMA InfosFinite ==
  ASSUME NEW S, NEW s \in Seq(S)
  PROVE  IsFiniteSet(Infos(s)) /\ Cardinality(Infos(s)) \in Nat
  <1>1. Len(s) \in Nat /\ DOMAIN s = 1 .. Len(s)
    OBVIOUS
  <1>2. Infos(s) \in SUBSET (1 .. Len(s)) /\ IsFiniteSet(1 .. Len(s))
    BY <1>1, FS_Interval DEF Infos
  <1> QED BY <1>2, FS_Subset, FS_CardinalityType

LEMMA InfosAppended ==
  ASSUME NEW S, NEW s \in Seq(S), NEW c \in S
  PROVE  /\ c.kind = "info" => Cardinality(Infos(Append(s, c))) = Cardinality(Infos(s)) + 1
         /\ c.kind # "info" => Infos(Append(s, c)) = Infos(s)
  <1>1. /\ DOMAIN s = 1 .. Len(s) /\ DOMAIN Append(s, c) = 1 .. Len(s) + 1 /\ Len(s) \in Nat
        /\ Append(s, c)[Len(s) + 1] = c /\ \A i \in 1 .. Len(s) : Append(s, c)[i] = s[i]
    OBVIOUS
  <1>2. ASSUME c.kind = "info" PROVE Cardinality(Infos(Append(s, c))) = Cardinality(Infos(s)) + 1
    <2>1. Infos(Append(s, c)) = Infos(s) \cup {Len(s) + 1} /\ Len(s) + 1 \notin Infos(s)
      BY <1>1, <1>2 DEF Infos
    <2> QED BY <2>1, InfosFinite, FS_AddElement
  <1>3. ASSUME c.kind # "info" PROVE Infos(Append(s, c)) = Infos(s)
    BY <1>1, <1>3 DEF Infos
  <1> QED BY <1>2, <1>3

LEMMA InfosJoined ==
  ASSUME NEW S, NEW s \in Seq(S), NEW t \in Seq(S), \A i \in 1 .. Len(t) : t[i].kind # "info"
  PROVE  Infos(s \o t) = Infos(s)
  <1>1. DOMAIN s = 1 .. Len(s) /\ DOMAIN (s \o t) = 1 .. Len(s) + Len(t)
        /\ Len(s) \in Nat /\ Len(t) \in Nat
    OBVIOUS
  <1>2. ASSUME NEW i \in Len(s) + 1 .. Len(s) + Len(t) PROVE (s \o t)[i].kind # "info"
    <2>1. i - Len(s) \in 1 .. Len(t)
      BY <1>1
    <2> QED BY <2>1, Joined
  <1>3. \A i \in 1 .. Len(s) : (s \o t)[i] = s[i]
    BY Joined
  <1> QED BY <1>1, <1>2, <1>3 DEF Infos

LEMMA InfosRead ==
  ASSUME NEW S, NEW s \in Seq(S), s # <<>>
  PROVE  Cardinality(Infos(Tail(s))) <= Cardinality(Infos(s))
  <1> DEFINE f == [i \in Infos(Tail(s)) |-> i + 1]
  <1>1. /\ DOMAIN s = 1 .. Len(s) /\ DOMAIN Tail(s) = 1 .. Len(s) - 1 /\ Len(s) \in Nat
        /\ \A i \in 1 .. Len(s) - 1 : Tail(s)[i] = s[i + 1]
    OBVIOUS
  <1>2. \A i \in Infos(Tail(s)) : i \in Nat /\ i + 1 \in Infos(s)
    BY <1>1 DEF Infos
  <1>3. f \in Injection(Infos(Tail(s)), Infos(s))
    BY <1>2 DEF Injection, IsInjective
  <1> QED BY <1>3, InfosFinite, FS_Injection

-----------------------------------------------------------------------------
(* The first state.                                                         *)

LEMMA StartsTyped == Init => Typed
  <1> SUFFICES ASSUME Init PROVE Typed
    OBVIOUS
  <1>1. StartPos \in Positions /\ 1 \in 1 .. Lines /\ Lines \in Nat /\ MaxKeys \in Nat
    BY SessionAssumption DEF SessionAssumption
  <1>2. TypedPcs
    BY DEF Init, TypedPcs, Threads, UI, InitEngine, Reader, Free, UIPcs, InitPcs, ReaderPcs
  <1>3. TypedScreen
    <2>1. position \in Positions /\ fen \in Positions /\ running \in BOOLEAN /\ edited \in BOOLEAN
          /\ attrs = {} /\ options = {} /\ keys = 0 /\ pvs = [k \in 1 .. Lines |-> NoLine]
      BY <1>1 DEF Init
    <2>2. pvs \in [1 .. Lines -> Shown]
      BY <2>1 DEF Shown
    <2>3. keys \in 0 .. MaxKeys
      BY <1>1, <2>1
    <2> QED BY <2>1, <2>2, <2>3 DEF TypedScreen
  <1>4. TypedPipes
    <2>1. toEngine = <<>> /\ fromEngine = <<>> /\ alive \in BOOLEAN /\ disturbed \in BOOLEAN
          /\ sending = [t \in {UI, InitEngine} |-> <<>>]
      BY DEF Init
    <2>2. engine \in [position : Positions, searching : BOOLEAN, lines : 1 .. Lines]
      BY <1>1 DEF Init
    <2>3. sending \in [{UI, InitEngine} -> Seq(Commands)]
      BY <2>1
    <2> QED BY <2>1, <2>2, <2>3 DEF TypedPipes
  <1> QED BY <1>2, <1>3, <1>4 DEF Typed

LEMMA StartsOrderly ==
  ASSUME NEW p
  PROVE  Orderly(<<>>, FALSE) /\ Quiet(<<>>, FALSE) /\ AimsAt(<<>>, p, p)
  BY DEF Orderly, Quiet, QuietAfter, AimsAt

LEMMA InitIInv == Init => IInv
  <1> SUFFICES ASSUME Init PROVE IInv
    OBVIOUS
  <1>1. HeldBack
    BY DEF Init, HeldBack, HasUci, UI, InitEngine
  <1>2. UnreadInv
    <2>1. Unread = Cardinality({})
      <3>1. {i \in DOMAIN fromEngine : fromEngine[i].kind = "info"} = {}
        BY DEF Init
      <3> QED BY <3>1 DEF Unread
    <2>2. MaxUnread \in Nat
      BY SessionAssumption DEF SessionAssumption
    <2> QED BY <2>1, <2>2, FS_EmptySet DEF UnreadInv
  <1>3. SearchInv
    <2>1. Due = <<>> \o <<>>
      BY DEF Init, Due, UI
    <2>2. <<>> \o <<>> = <<>>
      OBVIOUS
    <2> QED BY <2>1, <2>2, StartsOrderly DEF Init, SearchInv
  <1>4. OptionsInv
    BY DEF Init, OptionsInv, Past, InitEngine, UI, Reader, Threads
  <1>5. UciInv
    <2>1. toEngine = <<>> /\ fromEngine = <<>> /\ attrs = {} /\ pc[InitEngine] = "uci"
      BY DEF Init, InitEngine, UI, Reader, Threads
    <2> QED BY <2>1 DEF UciInv, HasUci, HasKind, Once, OptionsFirst, Past
  <1> QED BY <1>1, <1>2, <1>3, <1>4, <1>5, StartsTyped DEF IInv

-----------------------------------------------------------------------------
(* The types.                                                               *)

LEMMA NextTypedPcs ==
  ASSUME TypedPcs, Next
  PROVE  TypedPcs'
  <1> USE DEF TypedPcs, Threads, UI, InitEngine, Reader, Free, UIPcs, InitPcs, ReaderPcs, Goto
  <1>1. CASE InitSendsUci \/ InitFails \/ InitReadsOptions \/ InitSendsIsReady \/ InitSendsNewGame
    BY <1>1 DEF InitSendsUci, InitFails, InitReadsOptions, InitSendsIsReady, InitSendsNewGame,
                sharedVars
  <1>2. CASE ReaderExits \/ Construct \/ ConstructOptions \/ Notify
    BY <1>2 DEF ReaderExits, Construct, ConstructOptions, Notify, sharedVars
  <1>11. CASE HandleReply
    BY <1>11 DEF HandleReply
  <1>12. CASE InitStrands
    BY <1>12 DEF InitStrands, Strands
  <1>13. CASE ReaderStrands
    BY <1>13 DEF ReaderStrands, Strands, sharedVars
  <1>3. CASE SendNext
    BY <1>3 DEF SendNext, Return
  <1>4. CASE SendNothing
    BY <1>4 DEF SendNothing, Return
  <1>5. CASE Start \/ Stop \/ ClearHash \/ OnFenChange
    BY <1>5 DEF Start, Stop, ClearHash, OnFenChange, Key, sharedVars
  <1>6. ASSUME NEW p \in Replies[position], MaybeMove(p) PROVE TypedPcs'
    BY <1>6 DEF MaybeMove, Key
  <1>7. ASSUME NEW n \in 1 .. Lines, OnChange(n) PROVE TypedPcs'
    BY <1>7 DEF OnChange, Key, sharedVars
  <1>8. CASE OnChangeUnsets \/ Close \/ DestroyMembers \/ Terminate \/ JoinReader
    BY <1>8 DEF OnChangeUnsets, Close, Key, DestroyMembers, Terminate, JoinReader, sharedVars
  <1>9. CASE UNCHANGED <<pc, mutex>>
    BY <1>9
  <1>10. CASE InitSendsOption \/ HandleInfo \/ OnChangeStops \/ EngineReads
              \/ EngineFinishes \/ (\E p \in Positions : EditFen(p))
              \/ (\E k \in 1 .. Lines : EngineInfo(k)) \/ UNCHANGED vars
    <2>1. UNCHANGED <<pc, mutex>>
      BY <1>10 DEF InitSendsOption, HandleInfo, OnChangeStops, EngineReads,
                   EngineFinishes, EditFen, EngineInfo, sharedVars, vars
    <2> QED BY <1>9, <2>1
  <1> QED BY <1>1, <1>2, <1>3, <1>4, <1>5, <1>6, <1>7, <1>8, <1>10, <1>11, <1>12, <1>13
          DEF Next, InitStep, ReaderStep, HandlerStep, KeyStep, ClosingStep

LEMMA OutputIs ==
  ASSUME NEW k \in OptionIds \cup {"uciok", "readyok", "bestmove"}
  PROVE  Output(k, StartPos, 0) \in Outputs /\ Output(k, StartPos, 0).kind = k /\ k # "info"
  <1>1. StartPos \in Positions /\ 0 \in 0 .. Lines
    BY SessionAssumption DEF SessionAssumption
  <1>2. k # "info"
    BY DEF OptionIds
  <1> QED BY <1>1, <1>2 DEF Output, Outputs

LEMMA NextTypedScreen ==
  ASSUME Typed, Next
  PROVE  TypedScreen'
  <1> USE DEF Typed, TypedScreen
  <1>1. CASE HandleInfo
    <2> DEFINE k == Head(fromEngine).value
    <2>1. Head(fromEngine) \in Outputs /\ Head(fromEngine).kind = "info"
      BY <1>1 DEF HandleInfo, TypedPipes
    <2>2. k \in 1 .. Lines /\ Head(fromEngine).position \in Positions
      BY <2>1, SessionAssumption DEF Outputs, SessionAssumption
    <2>3. [searched |-> Head(fromEngine).position, shown |-> position] \in Shown
      BY <2>2 DEF Shown
    <2>4. pvs' \in [1 .. Lines -> Shown]
      BY <1>1, <2>2, <2>3 DEF HandleInfo, ShowLine
    <2> QED BY <1>1, <2>4 DEF HandleInfo, analyzeVars, historyVars
  <1>2. CASE HandleReply
    BY <1>2 DEF HandleReply, Stored, OptionIds, historyVars
  <1>13. CASE InitReadsOptions \/ InitSendsOption \/ InitSendsIsReady \/ InitStrands
    <2>1. options' \subseteq options \cup {Misused}
      BY <1>13 DEF InitReadsOptions, InitSendsOption, InitSendsIsReady, InitStrands, TouchOptions
    <2>2. UNCHANGED <<position, fen, running, attrs, pvs, edited, keys>>
      BY <1>13 DEF InitReadsOptions, InitSendsOption, InitSendsIsReady, InitStrands, sharedVars,
                   historyVars
    <2> QED BY <2>1, <2>2
  <1>3. CASE Construct \/ ConstructOptions
    BY <1>3 DEF Construct, ConstructOptions, analyzeVars, sharedVars, historyVars
  <1>4. Key => keys' \in 0 .. MaxKeys
    BY SessionAssumption DEF Key, SessionAssumption
  <1>5. CASE Start \/ Stop \/ ClearHash \/ Close
    BY <1>4, <1>5 DEF Start, Stop, ClearHash, Close, analyzeVars, sharedVars
  <1>6. CASE OnFenChange
    BY <1>4, <1>6 DEF OnFenChange
  <1>7. ASSUME NEW p \in Positions, EditFen(p) PROVE TypedScreen'
    BY <1>4, <1>7 DEF EditFen, sharedVars
  <1>8. ASSUME NEW p \in Replies[position], MaybeMove(p) PROVE TypedScreen'
    <2>1. p \in Positions
      BY SessionAssumption DEF SessionAssumption
    <2> QED BY <1>4, <1>8, <2>1 DEF MaybeMove
  <1>9. ASSUME NEW n \in 1 .. Lines, OnChange(n) PROVE TypedScreen'
    BY <1>4, <1>9 DEF OnChange, sharedVars
  <1>10. CASE OnChangeUnsets
    <2>1. ASSUME NEW n, Unset(n) PROVE pvs' \in [1 .. Lines -> Shown]
      <3>1. \A k \in 1 .. Lines : (IF k \in Above(n) THEN NoLine ELSE pvs[k]) \in Shown
        BY DEF Shown
      <3> QED BY <2>1, <3>1 DEF Unset
    <2>2. pvs' \in [1 .. Lines -> Shown]
      BY <1>10, <2>1 DEF OnChangeUnsets
    <2> QED BY <1>10, <2>2 DEF OnChangeUnsets, analyzeVars, historyVars
  <1>11. CASE UNCHANGED <<analyzeVars, attrs, pvs, historyVars>>
    BY <1>11 DEF analyzeVars, historyVars
  <1>12. CASE InitSendsUci \/ InitSendsNewGame \/ InitFails \/ ReaderExits \/ Notify \/ ReaderStrands
              \/ SendNext \/ SendNothing \/ OnChangeStops \/ ClosingStep \/ EngineReads
              \/ EngineFinishes \/ (\E k \in 1 .. Lines : EngineInfo(k)) \/ UNCHANGED vars
    <2>1. UNCHANGED <<analyzeVars, attrs, pvs, historyVars>>
      BY <1>12 DEF InitSendsUci, InitSendsNewGame, InitFails, ReaderExits, Notify, ReaderStrands,
           SendNext, SendNothing, OnChangeStops, ClosingStep, DestroyMembers, Terminate, JoinReader,
           EngineReads, EngineFinishes, EngineInfo, sharedVars, vars
    <2> QED BY <1>11, <2>1
  <1> HIDE DEF Typed, TypedScreen
  <1> QED BY <1>1, <1>2, <1>3, <1>5, <1>6, <1>7, <1>8, <1>9, <1>10, <1>12, <1>13
          DEF Next, InitStep, ReaderStep, HandlerStep, KeyStep

(* What a handler hands over to be sent.                                    *)
LEMMA HandsOver ==
  ASSUME Typed
  PROVE  /\ StopCommands \in Seq(Commands)
         /\ \A p \in Positions : StartCommands(p) \in Seq(Commands) /\ Restart(p) \in Seq(Commands)
  <1>1. Plain("stop", UI) \in Commands /\ Plain("go", UI) \in Commands
    BY PlainIs
  <1>2. ASSUME NEW p \in Positions PROVE Command("position", p, 0, UI) \in Commands
    <2>1. 0 \in 0 .. Lines
      BY SessionAssumption DEF SessionAssumption
    <2> QED BY <2>1, CommandIs
  <1> QED BY <1>1, <1>2 DEF StopCommands, StartCommands, Restart

(* What the engine answers holds no info line, and uciok comes after both    *)
(* options.                                                                 *)
LEMMA AnswerHas ==
  ASSUME NEW c
  PROVE  /\ Answer(c) \in Seq(Outputs)
         /\ \A i \in 1 .. Len(Answer(c)) : Answer(c)[i].kind # "info"
         /\ \A i \in 1 .. Len(Answer(c)) : Answer(c)[i].kind = "uciok" =>
              \A o \in OptionIds : \E j \in 1 .. i - 1 : Answer(c)[j].kind = o
  <1> DEFINE O(k) == Output(k, StartPos, 0)
  <1>1. \A k \in OptionIds \cup {"uciok", "readyok", "bestmove"} :
          O(k) \in Outputs /\ O(k).kind = k /\ k # "info"
    BY OutputIs
  <1>2. /\ O("MultiPV") \in Outputs /\ O("MultiPV").kind = "MultiPV"
        /\ O("Clear Hash") \in Outputs /\ O("Clear Hash").kind = "Clear Hash"
        /\ O("uciok") \in Outputs /\ O("uciok").kind = "uciok"
        /\ O("readyok") \in Outputs /\ O("readyok").kind = "readyok"
        /\ O("bestmove") \in Outputs /\ O("bestmove").kind = "bestmove"
    BY <1>1 DEF OptionIds
  <1>3. ASSUME NEW m \in Outputs, NEW h \in Outputs, NEW u \in Outputs,
               m.kind = "MultiPV", h.kind = "Clear Hash", u.kind = "uciok",
               Answer(c) = <<m, h, u>>
        PROVE  /\ Answer(c) \in Seq(Outputs)
               /\ \A i \in 1 .. Len(Answer(c)) : Answer(c)[i].kind # "info"
               /\ \A i \in 1 .. Len(Answer(c)) : Answer(c)[i].kind = "uciok" =>
                    \A o \in OptionIds : \E j \in 1 .. i - 1 : Answer(c)[j].kind = o
    <2>1. PICK s : s = Answer(c) /\ s = <<m, h, u>>
      BY <1>3
    <2>2. s \in Seq(Outputs) /\ Len(s) = 3 /\ s[1] = m /\ s[2] = h /\ s[3] = u
      BY <2>1
    <2>3. \A i \in 1 .. 3 : i = 1 \/ i = 2 \/ i = 3
      OBVIOUS
    <2>4. \A i \in 1 .. 3 : s[i].kind # "info"
      BY <1>3, <2>2, <2>3
    <2>5. ASSUME NEW i \in 1 .. 3, s[i].kind = "uciok", NEW o \in OptionIds
          PROVE  \E j \in 1 .. i - 1 : s[j].kind = o
      <3>1. i = 3
        BY <1>3, <2>2, <2>3, <2>5
      <3>2. 1 \in 1 .. i - 1 /\ 2 \in 1 .. i - 1
        BY <3>1
      <3> QED BY <1>3, <2>2, <3>2 DEF OptionIds
    <2> QED BY <2>1, <2>2, <2>4, <2>5
  <1>4. ASSUME NEW o \in Outputs, o.kind \notin {"info", "uciok"}, Answer(c) = <<o>>
        PROVE  /\ Answer(c) \in Seq(Outputs)
               /\ \A i \in 1 .. Len(Answer(c)) : Answer(c)[i].kind \notin {"info", "uciok"}
    BY <1>4
  <1>5. CASE Answer(c) = <<>>
    BY <1>5
  <1>6. CASE Answer(c) = <<O("MultiPV"), O("Clear Hash"), O("uciok")>>
    BY <1>2, <1>3, <1>6
  <1>7. CASE Answer(c) = <<O("readyok")>> \/ Answer(c) = <<O("bestmove")>>
    BY <1>2, <1>4, <1>7
  <1> QED BY <1>5, <1>6, <1>7 DEF Answer

LEMMA NextTypedPipes ==
  ASSUME Typed, Next
  PROVE  TypedPipes'
  <1>1. TypedPipes /\ 0 \in 0 .. Lines /\ Lines \in 0 .. Lines /\ Lines # 0 /\ StartPos \in Positions
        /\ Replies \in [Positions -> SUBSET Positions]
    BY SessionAssumption DEF Typed, SessionAssumption
  <1>2. ASSUME NEW c \in Commands PROVE Append(toEngine, c) \in Seq(Commands)
    BY <1>1 DEF TypedPipes
  <1>3. ASSUME NEW t \in {UI, InitEngine}, NEW s \in Seq(Commands)
        PROVE  [sending EXCEPT ![t] = s] \in [{UI, InitEngine} -> Seq(Commands)]
    BY <1>1 DEF TypedPipes
  <1>4. ASSUME NEW t \in {UI, InitEngine}, sending[t] # <<>>
        PROVE  Head(sending[t]) \in Commands /\ Tail(sending[t]) \in Seq(Commands)
    <2>1. sending[t] \in Seq(Commands)
      BY <1>1 DEF TypedPipes
    <2> QED BY <1>4, <2>1
  <1>5. CASE InitSendsUci \/ InitSendsIsReady \/ InitSendsNewGame
    <2>1. toEngine' \in Seq(Commands)
      BY <1>2, <1>5, PlainIs DEF InitSendsUci, InitSendsIsReady, InitSendsNewGame
    <2> QED BY <1>1, <1>5, <2>1 DEF InitSendsUci, InitSendsIsReady, InitSendsNewGame, TypedPipes
  <1>6. CASE InitReadsOptions
    <2>1. Command("setoption", StartPos, Lines, InitEngine) \in Commands
      BY <1>1, CommandIs
    <2>2. sending' \in [{UI, InitEngine} -> Seq(Commands)]
      <3>1. <<>> \in Seq(Commands) /\ <<Command("setoption", StartPos, Lines, InitEngine)>> \in Seq(Commands)
        BY <2>1
      <3>2. PICK s \in Seq(Commands) : sending' = [sending EXCEPT ![InitEngine] = s]
        BY <1>6, <3>1 DEF InitReadsOptions
      <3> QED BY <1>3, <3>2
    <2> QED BY <1>1, <1>6, <2>2 DEF InitReadsOptions, TypedPipes, pipeVars
  <1>7. ASSUME NEW t \in {UI, InitEngine}, sending[t] # <<>>,
               toEngine' = Append(toEngine, Head(sending[t])),
               sending' = [sending EXCEPT ![t] = Tail(@)],
               UNCHANGED <<fromEngine, alive, engine, disturbed>>
        PROVE  TypedPipes'
    <2>1. toEngine' \in Seq(Commands) /\ sending' \in [{UI, InitEngine} -> Seq(Commands)]
      BY <1>2, <1>3, <1>4, <1>7
    <2> QED BY <1>1, <1>7, <2>1 DEF TypedPipes
  <1>8. CASE InitSendsOption \/ SendNext
    BY <1>7, <1>8 DEF InitSendsOption, SendNext
  <1>9. CASE OnChangeStops
    BY <1>7, <1>9 DEF OnChangeStops
  <1>10. CASE HandleInfo \/ HandleReply
    <2>1. fromEngine \in Seq(Outputs) /\ fromEngine # <<>> /\ fromEngine' = Tail(fromEngine)
      BY <1>1, <1>10 DEF HandleInfo, HandleReply, TypedPipes
    <2>2. fromEngine' \in Seq(Outputs)
      BY <2>1
    <2> QED BY <1>1, <1>10, <2>2 DEF HandleInfo, HandleReply, TypedPipes
  <1>11. ASSUME NEW s \in Seq(Commands), sending' = [sending EXCEPT ![UI] = s],
                UNCHANGED <<pipeVars, engine, disturbed>>
         PROVE  TypedPipes'
    <2>1. sending' \in [{UI, InitEngine} -> Seq(Commands)]
      BY <1>3, <1>11
    <2> QED BY <1>1, <1>11, <2>1 DEF TypedPipes, pipeVars
  <1>12. position \in Positions /\ fen \in Positions
    BY DEF Typed, TypedScreen
  <1>13. CASE Start \/ Stop \/ ClearHash
    <2>1. <<Plain("clearhash", UI)>> \in Seq(Commands)
      BY PlainIs
    <2> QED BY <1>11, <1>12, <1>13, <2>1, HandsOver DEF Start, Stop, ClearHash
  <1>14. CASE OnFenChange
    <2>1. <<Plain("ucinewgame", UI)>> \in Seq(Commands)
      BY PlainIs
    <2>2. StopCommands \o <<Plain("ucinewgame", UI)>> \o Restart(fen) \in Seq(Commands)
      BY <1>12, <2>1, HandsOver
    <2> QED BY <1>11, <1>14, <2>2 DEF OnFenChange
  <1>15. ASSUME NEW p \in Replies[position], MaybeMove(p) PROVE TypedPipes'
    <2>1. p \in Positions
      BY <1>1, <1>12
    <2>2. StopCommands \o Restart(p) \in Seq(Commands)
      BY <2>1, HandsOver
    <2> QED BY <1>11, <1>15, <2>2 DEF MaybeMove
  <1>16. ASSUME NEW n \in 1 .. Lines, OnChange(n) PROVE TypedPipes'
    <2>1. n \in 0 .. Lines /\ n # 0
      OBVIOUS
    <2>2. <<Command("setoption", StartPos, n, UI)>> \in Seq(Commands)
      BY <1>1, <2>1, CommandIs
    <2>3. StopCommands \o <<Command("setoption", StartPos, n, UI)>> \in Seq(Commands)
      BY <2>2, HandsOver
    <2> QED BY <1>11, <1>16, <2>3 DEF OnChange
  <1>17. CASE EngineReads
    <2> DEFINE c == Head(toEngine)
    <2>1. c \in Commands /\ Tail(toEngine) \in Seq(Commands)
      BY <1>1, <1>17 DEF EngineReads, TypedPipes
    <2>2. Answer(c) \in Seq(Outputs)
      BY AnswerHas
    <2>3. LinesAfter(c) \subseteq 1 .. Lines
      BY <1>1, <2>1, CommandHas DEF LinesAfter, TypedPipes
    <2>4. engine' \in [position : Positions, searching : BOOLEAN, lines : 1 .. Lines]
      <3>1. PICK n \in LinesAfter(c) :
              engine' = [position  |-> IF c.cmd = "position" THEN c.position ELSE engine.position,
                         lines     |-> n,
                         searching |-> c.cmd = "go" \/ (engine.searching /\ c.cmd # "stop")]
        BY <1>17 DEF EngineReads
      <3> QED BY <1>1, <2>1, <2>3, <3>1, CommandHas DEF TypedPipes
    <2>5. fromEngine' \in Seq(Outputs)
      BY <1>1, <1>17, <2>2 DEF EngineReads, TypedPipes
    <2>6. disturbed' \in BOOLEAN
      BY <1>17 DEF EngineReads
    <2> QED BY <1>1, <1>17, <2>1, <2>4, <2>5, <2>6 DEF EngineReads, TypedPipes
  <1>18. ASSUME NEW k \in 1 .. Lines, EngineInfo(k) PROVE TypedPipes'
    <2>1. Output("info", engine.position, k) \in Outputs
      BY <1>1 DEF TypedPipes, Output, Outputs
    <2>2. fromEngine' \in Seq(Outputs)
      BY <1>1, <1>18, <2>1 DEF EngineInfo, TypedPipes
    <2> QED BY <1>1, <1>18, <2>2 DEF EngineInfo, TypedPipes
  <1>19. CASE EngineFinishes
    <2>1. fromEngine' \in Seq(Outputs)
      BY <1>1, <1>19, OutputIs DEF EngineFinishes, TypedPipes
    <2>2. engine' \in [position : Positions, searching : BOOLEAN, lines : 1 .. Lines]
      BY <1>1, <1>19 DEF EngineFinishes, TypedPipes
    <2> QED BY <1>1, <1>19, <2>1, <2>2 DEF EngineFinishes, TypedPipes
  <1>20. CASE Terminate
    BY <1>1, <1>20 DEF Terminate, Terminated, TypedPipes
  <1>21. CASE InitFails \/ InitStrands \/ ReaderExits \/ Notify \/ ReaderStrands \/ Construct
              \/ ConstructOptions \/ SendNothing \/ (\E p \in Positions : EditFen(p))
              \/ OnChangeUnsets \/ Close \/ DestroyMembers \/ JoinReader \/ UNCHANGED vars
    <2>1. UNCHANGED <<sending, pipeVars, engine, disturbed>>
      BY <1>21 DEF InitFails, InitStrands, ReaderExits, Notify, ReaderStrands, Construct,
                   ConstructOptions, SendNothing, EditFen, OnChangeUnsets, Close, DestroyMembers,
                   JoinReader, vars
    <2> QED BY <1>1, <2>1 DEF TypedPipes, pipeVars
  <1> QED BY <1>5, <1>6, <1>8, <1>9, <1>10, <1>13, <1>14, <1>15, <1>16, <1>17, <1>18, <1>19,
             <1>20, <1>21
          DEF Next, InitStep, ReaderStep, HandlerStep, KeyStep, ClosingStep

-----------------------------------------------------------------------------
(* What is held back, what is unread, and the options.                      *)

(* Once past its first command, a thread has the rest to send.              *)
LEMMA NoUci ==
  /\ ~HasUci(<<>>)
  /\ \A c \in Commands : c.cmd # "uci" => <<c>> \in Seq(Commands) /\ ~HasUci(<<c>>)
  /\ \A s \in Seq(Commands) : \A c \in Commands :
       c.cmd # "uci" => (HasUci(Append(s, c)) <=> HasUci(s))
  /\ \A s \in Seq(Commands) : s # <<>> =>
       /\ Head(s).cmd = "uci" \/ HasUci(Tail(s)) => HasUci(s)
  /\ \A s, t \in Seq(Commands) : HasUci(s \o t) <=> HasUci(s) \/ HasUci(t)
  <1>1. ~HasUci(<<>>)
    BY DEF HasUci
  <1>2. ASSUME NEW s \in Seq(Commands), NEW c \in Commands, c.cmd # "uci"
        PROVE  HasUci(Append(s, c)) <=> HasUci(s)
    <2>2. PICK r : r = Append(s, c)
      OBVIOUS
    <2>3. Len(s) \in Nat /\ Len(r) = Len(s) + 1 /\ r[Len(s) + 1] = c /\ \A i \in 1 .. Len(s) : r[i] = s[i]
      BY <2>2, Appended
    <2>4. HasUci(r) <=> HasUci(s)
      BY <1>2, <2>3 DEF HasUci
    <2> QED BY <2>2, <2>4
  <1>3. ASSUME NEW s \in Seq(Commands), s # <<>>, Head(s).cmd = "uci" \/ HasUci(Tail(s))
        PROVE  HasUci(s)
    <2>1. PICK r : r = Tail(s)
      OBVIOUS
    <2>2. /\ Len(r) = Len(s) - 1 /\ Len(s) \in Nat \ {0} /\ Head(s) = s[1]
          /\ \A i \in 1 .. Len(s) - 1 : r[i] = s[i + 1]
      BY <1>3, <2>1, FirstGone
    <2>3. CASE Head(s).cmd = "uci"
      BY <2>2, <2>3 DEF HasUci
    <2>4. CASE HasUci(r)
      <3>1. PICK i \in 1 .. Len(s) - 1 : r[i].cmd = "uci"
        BY <2>2, <2>4 DEF HasUci
      <3>2. i + 1 \in 1 .. Len(s) /\ s[i + 1].cmd = "uci"
        BY <2>2, <3>1
      <3> QED BY <3>2 DEF HasUci
    <2> QED BY <1>3, <2>1, <2>3, <2>4
  <1>4. ASSUME NEW s \in Seq(Commands), NEW t \in Seq(Commands)
        PROVE  HasUci(s \o t) <=> HasUci(s) \/ HasUci(t)
    <2>1. PICK r : r = s \o t
      OBVIOUS
    <2>2. /\ Len(r) = Len(s) + Len(t) /\ Len(s) \in Nat /\ Len(t) \in Nat
          /\ \A i \in 1 .. Len(s) : r[i] = s[i]
          /\ \A i \in Len(s) + 1 .. Len(s) + Len(t) : r[i] = t[i - Len(s)]
      BY <2>1, Joined
    <2>3. HasUci(s) => HasUci(r)
      BY <2>2 DEF HasUci
    <2>4. ASSUME HasUci(t) PROVE HasUci(r)
      <3>1. PICK i \in 1 .. Len(t) : t[i].cmd = "uci"
        BY <2>4 DEF HasUci
      <3>2. Len(s) + i \in Len(s) + 1 .. Len(s) + Len(t) /\ (Len(s) + i) - Len(s) = i
            /\ Len(s) + i \in 1 .. Len(r)
        BY <2>2
      <3>3. r[Len(s) + i] = t[i]
        BY <2>2, <3>2
      <3> QED BY <3>1, <3>2, <3>3 DEF HasUci
    <2>5. ASSUME HasUci(r) PROVE HasUci(s) \/ HasUci(t)
      <3>1. PICK i \in 1 .. Len(s) + Len(t) : r[i].cmd = "uci"
        BY <2>2, <2>5 DEF HasUci
      <3>2. CASE i \in 1 .. Len(s)
        BY <2>2, <3>1, <3>2 DEF HasUci
      <3>3. CASE i \in Len(s) + 1 .. Len(s) + Len(t)
        <4>1. i - Len(s) \in 1 .. Len(t) /\ r[i] = t[i - Len(s)]
          BY <2>2, <3>3
        <4> QED BY <3>1, <4>1 DEF HasUci
      <3> QED BY <2>2, <3>1, <3>2, <3>3
    <2> QED BY <2>1, <2>3, <2>4, <2>5
  <1>5. ASSUME NEW c \in Commands, c.cmd # "uci" PROVE <<c>> \in Seq(Commands) /\ ~HasUci(<<c>>)
    BY <1>5 DEF HasUci
  <1> QED BY <1>1, <1>2, <1>3, <1>4, <1>5

LEMMA NextHeldBack ==
  ASSUME Typed, HeldBack, Next
  PROVE  HeldBack'
  <1>1. /\ sending \in [{UI, InitEngine} -> Seq(Commands)] /\ UI # InitEngine
        /\ pc \in [Threads -> UIPcs \cup InitPcs \cup ReaderPcs] /\ UI \in Threads /\ InitEngine \in Threads
        /\ Reader \in Threads /\ UI # Reader
    BY DEF Typed, TypedPcs, TypedPipes, UI, InitEngine, Threads, Reader
  <1> DEFINE Opts(s) == \A i \in DOMAIN s : s[i].by = InitEngine /\ s[i].cmd = "setoption"
             Idle(l, s) == (l \notin {"sending", "stopping"} => s = <<>>) /\ ~HasUci(s)
  <1>2. /\ HeldBack = (Idle(pc[UI], sending[UI]) /\ Opts(sending[InitEngine]))
        /\ HeldBack' = (Idle(pc'[UI], sending'[UI]) /\ Opts(sending'[InitEngine]))
    BY DEF HeldBack
  <1>23. sending[UI] \in Seq(Commands) /\ ~HasUci(sending[UI])
    BY <1>1 DEF HeldBack
  <1>3. CASE UNCHANGED <<pc, sending>>
    BY <1>2, <1>3
  <1>4. ASSUME pc'[UI] \in {"sending", "stopping"}, sending'[InitEngine] = sending[InitEngine],
               ~HasUci(sending'[UI])
        PROVE  HeldBack'
    BY <1>2, <1>4
  <1>5. ASSUME pc'[UI] = pc[UI], sending' = sending PROVE HeldBack'
    BY <1>2, <1>5
  <1>6. CASE InitSendsUci \/ InitFails \/ InitSendsIsReady \/ InitSendsNewGame \/ InitStrands
             \/ HandleReply \/ Notify \/ ReaderExits \/ ReaderStrands
    <2>1. pc'[UI] = pc[UI] /\ sending' = sending
      BY <1>1, <1>6 DEF InitSendsUci, InitFails, InitSendsIsReady, InitSendsNewGame, InitStrands,
                        HandleReply, Notify, ReaderExits, ReaderStrands, Strands, Goto
    <2> QED BY <1>5, <2>1
  <1>7. CASE InitReadsOptions
    <2>1. pc'[UI] = pc[UI] /\ sending'[UI] = sending[UI]
      BY <1>1, <1>7 DEF InitReadsOptions, Goto
    <2>2. \/ sending'[InitEngine] = <<>>
          \/ sending'[InitEngine] = <<Command("setoption", StartPos, Lines, InitEngine)>>
      BY <1>1, <1>7 DEF InitReadsOptions
    <2>3. Opts(sending'[InitEngine])
      <3>1. Opts(<<>>)
        OBVIOUS
      <3>2. PICK c \in Commands : /\ c = Command("setoption", StartPos, Lines, InitEngine)
                                 /\ c.by = InitEngine /\ c.cmd = "setoption"
        <4>1. StartPos \in Positions /\ Lines \in 0 .. Lines /\ Lines # 0
          BY SessionAssumption DEF SessionAssumption
        <4> QED BY <4>1, CommandIs
      <3>3. Opts(<<c>>)
        BY <3>2
      <3> QED BY <2>2, <3>1, <3>2, <3>3
    <2> QED BY <1>2, <2>1, <2>3
  <1>8. CASE InitSendsOption
    <2>1. /\ pc' = pc /\ sending'[UI] = sending[UI] /\ sending[InitEngine] # <<>>
          /\ sending'[InitEngine] = Tail(sending[InitEngine])
      BY <1>1, <1>8 DEF InitSendsOption
    <2>2. ASSUME NEW s \in Seq(Commands), s # <<>>, Opts(s) PROVE Opts(Tail(s))
      BY <2>2
    <2> HIDE DEF Opts, Idle
    <2>3. Opts(sending'[InitEngine])
      BY <1>1, <1>2, <2>1, <2>2
    <2> QED BY <1>2, <2>1, <2>3
  <1>9. CASE Construct \/ ConstructOptions \/ Close \/ DestroyMembers \/ Terminate \/ JoinReader
    <2>1. pc[UI] \notin {"sending", "stopping"} /\ sending' = sending
      BY <1>9 DEF Construct, ConstructOptions, Close, Key, DestroyMembers, Terminate, JoinReader
    <2> QED BY <1>2, <2>1
  <1>10. CASE SendNext
    <2>1. sending'[InitEngine] = sending[InitEngine] /\ sending'[UI] = Tail(sending[UI])
          /\ pc[UI] = "sending" /\ sending[UI] # <<>>
      BY <1>1, <1>10 DEF SendNext
    <2>2. ~HasUci(sending'[UI])
      BY <1>23, <2>1, NoUci
    <2>3. CASE Len(sending[UI]) = 1
      <3>1. ASSUME NEW s \in Seq(Commands), Len(s) = 1 PROVE Tail(s) = <<>>
        <4>1. Tail(s) \in Seq(Commands) /\ Len(Tail(s)) = 0
          BY <3>1
        <4> QED BY <4>1, EmptySeq
      <3>2. sending'[UI] = <<>>
        BY <1>1, <2>1, <2>3, <3>1
      <3> QED BY <1>2, <2>1, <2>2, <3>2
    <2>4. CASE Len(sending[UI]) # 1
      <3>1. pc' = pc
        BY <1>10, <2>4 DEF SendNext
      <3> QED BY <1>4, <2>1, <2>2, <3>1
    <2> QED BY <2>3, <2>4
  <1>11. CASE SendNothing
    BY <1>2, <1>11 DEF SendNothing
  \* what a key has the UI thread send
  <1>12. /\ StopCommands \in Seq(Commands) /\ ~HasUci(StopCommands)
         /\ \A p \in Positions : /\ StartCommands(p) \in Seq(Commands) /\ Restart(p) \in Seq(Commands)
                                 /\ ~HasUci(StartCommands(p)) /\ ~HasUci(Restart(p))
    <2>1. ~HasUci(StopCommands)
      <3>1. PICK c \in Commands : c = Plain("stop", UI) /\ c.cmd # "uci"
        BY PlainIs
      <3>2. ~HasUci(<<c>>) /\ ~HasUci(<<>>)
        BY <3>1, NoUci
      <3> QED BY <3>1, <3>2 DEF StopCommands
    <2>2. ASSUME NEW p \in Positions PROVE ~HasUci(StartCommands(p)) /\ ~HasUci(Restart(p))
      <3>1. 0 \in 0 .. Lines
        BY SessionAssumption DEF SessionAssumption
      <3>2. PICK c \in Commands : c = Command("position", p, 0, UI) /\ c.cmd # "uci"
        BY <3>1, CommandIs
      <3>3. PICK d \in Commands : d = Plain("go", UI) /\ d.cmd # "uci"
        BY PlainIs
      <3>4. <<c, d>> = Append(<<c>>, d) /\ <<c>> \in Seq(Commands)
        OBVIOUS
      <3>5. ~HasUci(<<>>) /\ ~HasUci(<<c>>) /\ ~HasUci(Append(<<c>>, d))
        BY <3>2, <3>3, <3>4, NoUci
      <3>6. StartCommands(p) = Append(<<c>>, d)
        BY <3>2, <3>3, <3>4 DEF StartCommands
      <3> QED BY <3>5, <3>6 DEF Restart
    <2> QED BY <2>1, <2>2, HandsOver
  <1>13. position \in Positions /\ fen \in Positions /\ Replies \in [Positions -> SUBSET Positions]
    BY SessionAssumption DEF SessionAssumption, Typed, TypedScreen
  <1>14. ASSUME NEW s \in Seq(Commands), ~HasUci(s), sending' = [sending EXCEPT ![UI] = s],
                Goto(UI, "sending") \/ Goto(UI, "stopping")
         PROVE  HeldBack'
    <2>1. pc'[UI] \in {"sending", "stopping"} /\ sending'[InitEngine] = sending[InitEngine]
          /\ sending'[UI] = s
      BY <1>1, <1>14 DEF Goto
    <2> QED BY <1>4, <1>14, <2>1
  <1>24. ASSUME NEW a \in Seq(Commands), NEW b \in Seq(Commands), ~HasUci(a), ~HasUci(b)
         PROVE  a \o b \in Seq(Commands) /\ ~HasUci(a \o b)
    <2>1. a \o b \in Seq(Commands)
      OBVIOUS
    <2> QED BY <1>24, <2>1, NoUci
  <1>16. CASE Start \/ Stop
    BY <1>12, <1>13, <1>14, <1>16 DEF Start, Stop
  <1>17. CASE ClearHash
    <2>1. PICK c \in Commands : c = Plain("clearhash", UI) /\ c.cmd # "uci"
      BY PlainIs
    <2>2. <<c>> \in Seq(Commands) /\ ~HasUci(<<c>>)
      BY <2>1, NoUci
    <2> QED BY <1>14, <1>17, <2>1, <2>2 DEF ClearHash
  <1>18. CASE OnFenChange
    <2>1. PICK c \in Commands : c = Plain("ucinewgame", UI) /\ c.cmd # "uci"
      BY PlainIs
    <2>2. PICK a \in Seq(Commands) : a = StopCommands \o <<c>> /\ ~HasUci(a)
      <3>1. PICK b \in Seq(Commands) : b = <<c>> /\ ~HasUci(b)
        BY <2>1, NoUci
      <3>2. ~HasUci(b)
        BY <3>1
      <3>3. StopCommands \o b \in Seq(Commands) /\ ~HasUci(StopCommands \o b)
        BY <1>12, <1>24, <3>2
      <3> QED BY <3>1, <3>3
    <2>3. a \o Restart(fen) \in Seq(Commands) /\ ~HasUci(a \o Restart(fen))
      <3>1. ~HasUci(a)
        BY <2>2
      <3> QED BY <1>12, <1>13, <1>24, <3>1
    <2>4. sending' = [sending EXCEPT ![UI] = a \o Restart(fen)]
      BY <1>18, <2>1, <2>2 DEF OnFenChange
    <2> QED BY <1>14, <1>18, <2>3, <2>4 DEF OnFenChange
  <1>19. ASSUME NEW p \in Replies[position], MaybeMove(p) PROVE HeldBack'
    <2>1. p \in Positions
      BY <1>13
    <2>2. StopCommands \o Restart(p) \in Seq(Commands) /\ ~HasUci(StopCommands \o Restart(p))
      BY <1>12, <2>1, NoUci
    <2> QED BY <1>14, <1>19, <2>2 DEF MaybeMove
  <1>20. ASSUME NEW n \in 1 .. Lines, OnChange(n) PROVE HeldBack'
    <2>1. n \in 0 .. Lines /\ n # 0 /\ StartPos \in Positions
      BY SessionAssumption DEF SessionAssumption
    <2>2. PICK c \in Commands : c = Command("setoption", StartPos, n, UI) /\ c.cmd # "uci"
      BY <2>1, CommandIs
    <2>3. PICK b \in Seq(Commands) : b = <<c>> /\ ~HasUci(b)
      BY <2>2, NoUci
    <2>4. StopCommands \o b \in Seq(Commands) /\ ~HasUci(StopCommands \o b)
      <3>1. ~HasUci(b)
        BY <2>3
      <3> QED BY <1>12, <1>24, <3>1
    <2> QED BY <1>14, <1>20, <2>2, <2>3, <2>4 DEF OnChange
  <1>21. CASE OnChangeStops
    <2>1. pc' = pc /\ sending'[InitEngine] = sending[InitEngine] /\ sending'[UI] = Tail(sending[UI])
          /\ pc[UI] = "stopping" /\ sending[UI] # <<>>
      <3>1. Len(sending[UI]) = 2 => sending[UI] # <<>>
        OBVIOUS
      <3> QED BY <1>1, <1>21, <3>1 DEF OnChangeStops
    <2>2. ~HasUci(sending'[UI])
      BY <1>23, <2>1, NoUci
    <2> QED BY <1>4, <2>1, <2>2
  <1>22. CASE OnChangeUnsets
    <2>1. pc'[UI] \in {"sending", "stopping"} /\ sending' = sending
      BY <1>1, <1>22 DEF OnChangeUnsets, Goto
    <2> QED BY <1>2, <1>4, <2>1
  <1>15. CASE HandleInfo \/ EngineReads \/ EngineFinishes
              \/ (\E p \in Positions : EditFen(p)) \/ (\E k \in 1 .. Lines : EngineInfo(k))
              \/ UNCHANGED vars
    <2>1. UNCHANGED <<pc, sending>>
      BY <1>15 DEF HandleInfo, EngineReads, EngineFinishes, EditFen, EngineInfo, vars
    <2> QED BY <1>3, <2>1
  <1> HIDE DEF Opts, Idle
  <1> QED BY <1>6, <1>7, <1>8, <1>9, <1>10, <1>11, <1>15, <1>16, <1>17, <1>18, <1>19, <1>20, <1>21,
             <1>22
          DEF Next, InitStep, ReaderStep, HandlerStep, KeyStep, ClosingStep

LEMMA NextUnread ==
  ASSUME Typed, UnreadInv, Next
  PROVE  UnreadInv'
  <1>1. /\ fromEngine \in Seq(Outputs) /\ Unread = Cardinality(Infos(fromEngine))
        /\ Unread' = Cardinality(Infos(fromEngine'))
    BY DEF Typed, TypedPipes, Unread, Infos
  <1>2. Cardinality(Infos(fromEngine)) \in Nat /\ MaxUnread \in Nat
    BY <1>1, InfosFinite, SessionAssumption DEF SessionAssumption
  <1>3. CASE HandleInfo \/ HandleReply
    <2>1. fromEngine # <<>> /\ fromEngine' = Tail(fromEngine)
      BY <1>3 DEF HandleInfo, HandleReply
    <2>2. Tail(fromEngine) \in Seq(Outputs)
      BY <1>1, <2>1
    <2>3. Cardinality(Infos(Tail(fromEngine))) \in Nat
      BY <2>2, InfosFinite
    <2>4. Cardinality(Infos(Tail(fromEngine))) <= Cardinality(Infos(fromEngine))
      BY <1>1, <2>1, InfosRead
    <2> QED BY <1>1, <1>2, <2>1, <2>3, <2>4 DEF UnreadInv
  <1>4. CASE EngineReads
    <2>1. Infos(fromEngine') = Infos(fromEngine)
      BY <1>1, <1>4, AnswerHas, InfosJoined DEF EngineReads
    <2> QED BY <1>1, <2>1 DEF UnreadInv
  <1>5. ASSUME NEW k \in 1 .. Lines, EngineInfo(k) PROVE UnreadInv'
    <2>1. Output("info", engine.position, k) \in Outputs
          /\ Output("info", engine.position, k).kind = "info"
      BY SessionAssumption DEF SessionAssumption, Typed, TypedPipes, Output, Outputs
    <2>2. Cardinality(Infos(fromEngine')) = Cardinality(Infos(fromEngine)) + 1
      BY <1>1, <1>5, <2>1, InfosAppended DEF EngineInfo
    <2>3. Cardinality(Infos(fromEngine)) < MaxUnread
      BY <1>1, <1>5 DEF EngineInfo
    <2> QED BY <1>1, <1>2, <2>2, <2>3 DEF UnreadInv
  <1>6. CASE EngineFinishes
    <2>1. Output("bestmove", StartPos, 0) \in Outputs
          /\ Output("bestmove", StartPos, 0).kind # "info"
      BY OutputIs
    <2>2. Infos(fromEngine') = Infos(fromEngine)
      BY <1>1, <1>6, <2>1, InfosAppended DEF EngineFinishes
    <2> QED BY <1>1, <2>2 DEF UnreadInv
  <1>7. CASE InitStep \/ InitFails \/ Notify \/ ReaderExits \/ ReaderStrands \/ HandlerStep \/ KeyStep
             \/ Close \/ ClosingStep \/ UNCHANGED vars
    <2>1. fromEngine' = fromEngine
      BY <1>7 DEF InitStep, InitSendsUci, InitReadsOptions, InitSendsOption, InitSendsIsReady,
           InitSendsNewGame, InitStrands, InitFails, Notify, ReaderExits, ReaderStrands, HandlerStep,
           Construct, ConstructOptions, SendNext, SendNothing, OnChangeStops, OnChangeUnsets, KeyStep,
           Start, Stop, ClearHash, OnFenChange, EditFen, MaybeMove, OnChange, Close, ClosingStep,
           DestroyMembers, Terminate, JoinReader, pipeVars, vars
    <2> QED BY <1>1, <2>1 DEF UnreadInv
  <1> QED BY <1>3, <1>4, <1>5, <1>6, <1>7 DEF Next, ReaderStep

(* The reader takes the first output, whose option it then has.             *)
Declared(opts, s) ==
  \A i \in 1 .. Len(s) : s[i].kind = "uciok" =>
    \A o \in OptionIds : o \in opts \/ \E j \in 1 .. i - 1 : s[j].kind = o

LEMMA DeclaredRead ==
  ASSUME NEW S, NEW s \in Seq(S), s # <<>>, NEW opts, NEW more,
         opts \subseteq more, Head(s).kind \in OptionIds => Head(s).kind \in more,
         Declared(opts, s)
  PROVE  Declared(more, Tail(s))
  <1>1. PICK r : r = Tail(s)
    OBVIOUS
  <1>2. PICK n : n = Len(r)
    OBVIOUS
  <1>3. n \in Nat /\ Len(s) = n + 1 /\ Head(s) = s[1] /\ \A i \in 1 .. n : r[i] = s[i + 1]
    BY <1>1, <1>2, FirstGone
  <1>4. ASSUME NEW i \in 1 .. n, r[i].kind = "uciok", NEW o \in OptionIds, o \notin more
        PROVE  \E j \in 1 .. i - 1 : r[j].kind = o
    <2>1. i + 1 \in 1 .. Len(s) /\ s[i + 1].kind = "uciok"
      BY <1>3, <1>4
    <2>2. PICK j \in 1 .. (i + 1) - 1 : s[j].kind = o
      BY <1>4, <2>1 DEF Declared
    <2>3. j # 1
      BY <1>3, <1>4, <2>2
    <2>4. j - 1 \in 1 .. i - 1 /\ r[j - 1] = s[j]
      BY <1>3, <2>2, <2>3
    <2> QED BY <2>2, <2>4
  <1>5. Declared(more, r)
    BY <1>2, <1>4 DEF Declared
  <1> QED BY <1>1, <1>5

LEMMA DeclaredAppended ==
  ASSUME NEW S, NEW s \in Seq(S), NEW c \in S, c.kind # "uciok", NEW opts, Declared(opts, s)
  PROVE  Declared(opts, Append(s, c))
  <1>1. PICK r : r = Append(s, c)
    OBVIOUS
  <1>2. PICK n : n = Len(s)
    OBVIOUS
  <1>3. n \in Nat /\ Len(r) = n + 1 /\ r[n + 1] = c /\ \A i \in 1 .. n : r[i] = s[i]
    BY <1>1, <1>2, Appended
  <1> SUFFICES ASSUME NEW i \in 1 .. n + 1, r[i].kind = "uciok", NEW o \in OptionIds, o \notin opts
               PROVE  \E j \in 1 .. i - 1 : r[j].kind = o
    BY <1>1, <1>3 DEF Declared
  <1>4. i \in 1 .. n /\ s[i].kind = "uciok"
    BY <1>3
  <1>5. PICK j \in 1 .. i - 1 : s[j].kind = o
    BY <1>2, <1>4 DEF Declared
  <1>6. r[j] = s[j]
    BY <1>3, <1>4, <1>5
  <1> QED BY <1>5, <1>6

LEMMA DeclaredJoined ==
  ASSUME NEW S, NEW s \in Seq(S), NEW t \in Seq(S), NEW opts, Declared(opts, s), Declared({}, t)
  PROVE  Declared(opts, s \o t)
  <1>1. PICK r : r = s \o t
    OBVIOUS
  <1>2. PICK n : n = Len(s)
    OBVIOUS
  <1>3. PICK m : m = Len(t)
    OBVIOUS
  <1>4. /\ n \in Nat /\ m \in Nat /\ Len(r) = n + m
        /\ \A i \in 1 .. n : r[i] = s[i]
        /\ \A i \in n + 1 .. n + m : r[i] = t[i - n]
    BY <1>1, <1>2, <1>3, Joined
  <1> SUFFICES ASSUME NEW i \in 1 .. n + m, r[i].kind = "uciok", NEW o \in OptionIds, o \notin opts
               PROVE  \E j \in 1 .. i - 1 : r[j].kind = o
    BY <1>1, <1>4 DEF Declared
  <1>5. CASE i \in 1 .. n
    <2>1. PICK j \in 1 .. i - 1 : s[j].kind = o
      BY <1>2, <1>4, <1>5 DEF Declared
    <2>2. r[j] = s[j]
      BY <1>4, <1>5, <2>1
    <2> QED BY <2>1, <2>2
  <1>6. CASE i \in n + 1 .. n + m
    <2>1. PICK h : h = i - n
      OBVIOUS
    <2>2. h \in 1 .. m /\ t[h].kind = "uciok"
      BY <1>4, <1>6, <2>1
    <2>3. PICK j \in 1 .. h - 1 : t[j].kind = o
      BY <1>3, <2>2 DEF Declared
    <2>4. n + j \in 1 .. i - 1 /\ n + j \in n + 1 .. n + m /\ (n + j) - n = j
      BY <1>4, <1>6, <2>1, <2>3
    <2>5. r[n + j] = t[j]
      BY <1>4, <2>4
    <2> QED BY <2>3, <2>4, <2>5
  <1> QED BY <1>4, <1>5, <1>6

LEMMA NextOptions ==
  ASSUME Typed, OptionsInv, Next
  PROVE  OptionsInv'
  <1>1. fromEngine \in Seq(Outputs) /\ attrs \subseteq {"UCI", "READY"}
        /\ pc \in [Threads -> UIPcs \cup InitPcs \cup ReaderPcs]
        /\ UI \in Threads /\ InitEngine \in Threads /\ Reader \in Threads
        /\ UI # InitEngine /\ Reader # InitEngine /\ UI # Reader
    BY DEF Typed, TypedPcs, TypedScreen, TypedPipes, Threads, UI, InitEngine, Reader
  <1> DEFINE Early == pc[UI] \in {"construct", "constructOptions"} => options \subseteq {Misused}
             Complete == Misused \notin options =>
               ("UCI" \in attrs \/ Past => OptionIds \subseteq options) /\ Declared(options, fromEngine)
  <1>2. (OptionsInv <=> Early /\ Complete) /\ (OptionsInv' <=> Early' /\ Complete')
    BY DEF OptionsInv, Declared
  <1>3. CASE UNCHANGED <<attrs, options, fromEngine>> /\ (Past' => Past \/ "UCI" \in attrs)
             /\ (pc'[UI] \in {"construct", "constructOptions"} => pc'[UI] = pc[UI])
    BY <1>2, <1>3
  <1>4. CASE InitSendsUci \/ InitFails
    <2>1. ~Past' /\ pc'[UI] = pc[UI]
      BY <1>1, <1>4 DEF InitSendsUci, InitFails, Goto, Past
    <2> QED BY <1>3, <1>4, <2>1 DEF InitSendsUci, InitFails, analyzeVars, sharedVars, pipeVars
  <1>5. CASE InitReadsOptions \/ InitSendsOption \/ InitSendsIsReady \/ InitSendsNewGame
    <2>1. Past \/ "UCI" \in attrs
      BY <1>5 DEF InitReadsOptions, InitSendsOption, InitSendsIsReady, InitSendsNewGame, Past, Responded
    <2>2. UNCHANGED <<attrs, fromEngine>> /\ (Misused \notin options' => options' = options)
          /\ options' \subseteq options \cup {Misused}
      BY <1>5 DEF InitReadsOptions, InitSendsOption, InitSendsIsReady, InitSendsNewGame,
                  TouchOptions, analyzeVars, sharedVars, pipeVars
    <2>3. pc'[UI] = pc[UI]
      BY <1>1, <1>5 DEF InitReadsOptions, InitSendsOption, InitSendsIsReady, InitSendsNewGame, Goto
    <2> QED BY <1>2, <2>1, <2>2, <2>3
  <1>16. CASE InitStrands
    <2>1. Misused \in options' /\ options' \subseteq options \cup {Misused}
      BY <1>16 DEF InitStrands, TouchOptions
    <2>2. pc'[UI] = pc[UI]
      BY <1>1, <1>16 DEF InitStrands, Strands, Goto
    <2> QED BY <1>2, <2>1, <2>2
  <1>6. ASSUME pc' = [pc EXCEPT ![UI] = pc'[UI]] \/ pc' = [pc EXCEPT ![Reader] = pc'[Reader]] \/ pc' = pc
        PROVE  Past' = Past
    BY <1>1, <1>6 DEF Past
  <1>7. CASE HandleInfo
    <2>1. fromEngine # <<>> /\ fromEngine' = Tail(fromEngine) /\ Head(fromEngine).kind = "info"
          /\ UNCHANGED <<attrs, options, pc>>
      BY <1>7 DEF HandleInfo, analyzeVars
    <2>2. Head(fromEngine).kind \notin OptionIds
      BY <2>1 DEF OptionIds
    <2>3. ASSUME Declared(options, fromEngine) PROVE Declared(options, Tail(fromEngine))
      BY <1>1, <2>1, <2>2, <2>3, DeclaredRead
    <2> QED BY <1>2, <1>6, <2>1, <2>3
  <1>8. CASE HandleReply
    <2> DEFINE kind == Head(fromEngine).kind
    <2>1. fromEngine # <<>> /\ fromEngine' = Tail(fromEngine)
          /\ options' = options \cup { Stored(o) : o \in {kind} \cap OptionIds }
          /\ pc' = [pc EXCEPT ![Reader] = pc'[Reader]] /\ pc'[UI] = pc[UI]
      BY <1>1, <1>8 DEF HandleReply, Goto
    <2>2. "UCI" \in attrs' => "UCI" \in attrs \/ kind = "uciok"
      BY <1>8 DEF HandleReply
    <2>3. ASSUME Misused \notin options'
          PROVE  Misused \notin options /\ (kind \in OptionIds => kind \in options')
      BY <2>1, <2>3 DEF Stored
    <2>4. ASSUME Declared(options, fromEngine), Misused \notin options'
          PROVE  Declared(options', Tail(fromEngine))
      <3>1. options \subseteq options' /\ (kind \in OptionIds => kind \in options')
        BY <2>1, <2>3, <2>4
      <3> QED BY <1>1, <2>1, <2>4, <3>1, DeclaredRead
    <2>5. ASSUME Declared(options, fromEngine), kind = "uciok" PROVE OptionIds \subseteq options
      <3>1. 1 \in 1 .. Len(fromEngine) /\ fromEngine[1].kind = "uciok" /\ 1 .. 1 - 1 = {}
        BY <1>1, <2>1, <2>5
      <3> QED BY <2>5, <3>1 DEF Declared
    <2>6. Past' = Past /\ options \subseteq options'
      BY <1>6, <2>1
    <2>7. Early => Early'
      BY <2>1 DEF Stored, OptionsExist
    <2> HIDE DEF kind
    <2> QED BY <1>2, <2>1, <2>2, <2>3, <2>4, <2>5, <2>6, <2>7
  <1>9. CASE Construct
    <2>1. attrs' = {} /\ options' = options /\ fromEngine' = fromEngine
          /\ pc' = [pc EXCEPT ![UI] = pc'[UI]] /\ pc[UI] = "construct"
      BY <1>1, <1>9 DEF Construct, Goto, analyzeVars, pipeVars
    <2> QED BY <1>2, <1>6, <2>1
  <1>10. CASE ConstructOptions
    <2>1. UNCHANGED <<attrs, fromEngine>> /\ options' = options \cap {Misused}
          /\ pc' = [pc EXCEPT ![UI] = pc'[UI]] /\ pc[UI] = "constructOptions"
      BY <1>1, <1>10 DEF ConstructOptions, Goto, sharedVars, pipeVars
    <2>2. options' = options /\ Past' = Past
      BY <1>2, <1>6, <2>1
    <2> QED BY <1>2, <2>1, <2>2
  <1>11. CASE EngineReads
    <2>1. fromEngine' = fromEngine \o Answer(Head(toEngine)) /\ UNCHANGED <<attrs, options, pc>>
      BY <1>11 DEF EngineReads, analyzeVars, sharedVars
    <2>2. Answer(Head(toEngine)) \in Seq(Outputs) /\ Declared({}, Answer(Head(toEngine)))
      BY AnswerHas DEF Declared
    <2>3. ASSUME Declared(options, fromEngine)
          PROVE  Declared(options, fromEngine \o Answer(Head(toEngine)))
      BY <1>1, <2>2, <2>3, DeclaredJoined
    <2> QED BY <1>2, <1>6, <2>1, <2>3
  <1>12. ASSUME NEW c \in Outputs, c.kind # "uciok", fromEngine' = Append(fromEngine, c),
                UNCHANGED <<attrs, options, pc>>
         PROVE  OptionsInv'
    <2>1. ASSUME Declared(options, fromEngine) PROVE Declared(options, Append(fromEngine, c))
      BY <1>1, <1>12, <2>1, DeclaredAppended
    <2> QED BY <1>2, <1>6, <1>12, <2>1
  <1>13. ASSUME NEW k \in 1 .. Lines, EngineInfo(k) PROVE OptionsInv'
    <2>1. Output("info", engine.position, k) \in Outputs
          /\ Output("info", engine.position, k).kind = "info"
      BY SessionAssumption DEF SessionAssumption, Typed, TypedPipes, Output, Outputs
    <2> QED BY <1>12, <1>13, <2>1 DEF EngineInfo, analyzeVars, sharedVars
  <1>14. CASE EngineFinishes
    <2>1. Output("bestmove", StartPos, 0) \in Outputs
          /\ Output("bestmove", StartPos, 0).kind = "bestmove"
      BY OutputIs
    <2> QED BY <1>12, <1>14, <2>1 DEF EngineFinishes, analyzeVars, sharedVars
  <1>15. CASE Notify \/ ReaderExits \/ ReaderStrands \/ SendNext \/ SendNothing \/ OnChangeStops
              \/ OnChangeUnsets \/ KeyStep \/ Close \/ ClosingStep \/ UNCHANGED vars
    <2>1. UNCHANGED <<attrs, options, fromEngine>>
      BY <1>15 DEF Notify, ReaderExits, ReaderStrands, SendNext, SendNothing, OnChangeStops,
           OnChangeUnsets, KeyStep, Start, Stop, ClearHash, OnFenChange, EditFen, MaybeMove, OnChange,
           Close, ClosingStep, DestroyMembers, Terminate, JoinReader, analyzeVars, sharedVars,
           pipeVars, vars
    <2>2. CASE Notify \/ ReaderExits \/ ReaderStrands \/ OnChangeStops \/ UNCHANGED vars
      <3>1. pc' = [pc EXCEPT ![Reader] = pc'[Reader]] \/ pc' = pc
        BY <1>1, <2>2 DEF Notify, ReaderExits, ReaderStrands, Strands, OnChangeStops, Goto, sharedVars,
             vars
      <3>2. Past' = Past /\ pc'[UI] = pc[UI]
        BY <1>1, <1>6, <3>1
      <3> QED BY <1>3, <2>1, <3>2
    <2>3. CASE SendNext \/ SendNothing \/ OnChangeUnsets \/ KeyStep \/ Close \/ ClosingStep
      <3>1. /\ pc' = [pc EXCEPT ![UI] = pc'[UI]] \/ pc' = pc
            /\ pc'[UI] \in {"idle", "sending", "stopping", "join", "terminate", "joinReader", "exited"}
               \/ pc'[UI] = pc[UI]
        BY <1>1, <2>3 DEF SendNext, SendNothing, Return, OnChangeUnsets, KeyStep, Start, Stop,
             ClearHash, OnFenChange, EditFen, MaybeMove, OnChange, Close, ClosingStep, DestroyMembers,
             Terminate, JoinReader, Goto
      <3>2. Past' = Past
        BY <1>6, <3>1
      <3> QED BY <1>3, <2>1, <3>1, <3>2
    <2> QED BY <1>15, <2>2, <2>3
  <1> HIDE DEF Early, Complete
  <1> QED BY <1>4, <1>5, <1>7, <1>8, <1>9, <1>10, <1>11, <1>13, <1>14, <1>15, <1>16
          DEF Next, InitStep, ReaderStep, HandlerStep

-----------------------------------------------------------------------------
(* The engine is asked once.                                                *)

LEMMA OnceSent ==
  /\ \A s \in Seq(Commands) : \A c \in Commands :
       Once(s) /\ (c.cmd # "uci" \/ ~HasUci(s)) => Once(Append(s, c))
  /\ \A s \in Seq(Commands) : s # <<>> /\ Once(s) =>
       Once(Tail(s)) /\ (Head(s).cmd = "uci" => ~HasUci(Tail(s)))
  <1>1. ASSUME NEW s \in Seq(Commands), NEW c \in Commands, Once(s), c.cmd # "uci" \/ ~HasUci(s)
        PROVE  Once(Append(s, c))
    <2>1. PICK r : r = Append(s, c)
      OBVIOUS
    <2>2. Len(s) \in Nat /\ Len(r) = Len(s) + 1 /\ r[Len(s) + 1] = c /\ \A i \in 1 .. Len(s) : r[i] = s[i]
      BY <2>1, Appended
    <2>3. Once(r)
      BY <1>1, <2>2 DEF Once, HasUci
    <2> QED BY <2>1, <2>3
  <1>2. ASSUME NEW s \in Seq(Commands), s # <<>>, Once(s)
        PROVE  Once(Tail(s)) /\ (Head(s).cmd = "uci" => ~HasUci(Tail(s)))
    <2>1. PICK r : r = Tail(s)
      OBVIOUS
    <2>2. /\ Len(r) = Len(s) - 1 /\ Len(s) \in Nat \ {0} /\ Head(s) = s[1]
          /\ \A i \in 1 .. Len(s) - 1 : r[i] = s[i + 1]
      BY <1>2, <2>1, FirstGone
    <2>3. ASSUME NEW i \in 1 .. Len(r), NEW j \in 1 .. Len(r), r[i].cmd = "uci", r[j].cmd = "uci"
          PROVE  i = j
      <3>1. i + 1 \in 1 .. Len(s) /\ j + 1 \in 1 .. Len(s) /\ s[i + 1].cmd = "uci" /\ s[j + 1].cmd = "uci"
        BY <2>2, <2>3
      <3> QED BY <1>2, <2>2, <3>1 DEF Once
    <2>4. ASSUME s[1].cmd = "uci", NEW i \in 1 .. Len(r), r[i].cmd = "uci" PROVE FALSE
      <3>1. i + 1 \in 1 .. Len(s) /\ 1 \in 1 .. Len(s) /\ s[i + 1].cmd = "uci" /\ i + 1 # 1
        BY <2>2, <2>4
      <3> QED BY <1>2, <2>4, <3>1 DEF Once
    <2> QED BY <2>1, <2>2, <2>3, <2>4 DEF Once, HasUci
  <1> QED BY <1>1, <1>2

LEMMA KindsRead ==
  ASSUME NEW s \in Seq(Outputs), s # <<>>
  PROVE  /\ \A kinds : Head(s).kind \in kinds \/ HasKind(Tail(s), kinds) => HasKind(s, kinds)
         /\ OptionsFirst(s) =>
              OptionsFirst(Tail(s)) /\ (Head(s).kind = "uciok" => ~HasKind(Tail(s), OptionIds))
  <1>1. PICK r : r = Tail(s)
    OBVIOUS
  <1>2. PICK n : n = Len(r)
    OBVIOUS
  <1>3. n \in Nat /\ Len(s) = n + 1 /\ Head(s) = s[1] /\ \A i \in 1 .. n : r[i] = s[i + 1]
    BY <1>1, <1>2, FirstGone
  <1>4. ASSUME NEW kinds, Head(s).kind \in kinds \/ HasKind(r, kinds) PROVE HasKind(s, kinds)
    <2>1. CASE Head(s).kind \in kinds
      <3>1. 1 \in 1 .. Len(s) /\ s[1].kind \in kinds
        BY <1>3, <2>1
      <3> QED BY <3>1 DEF HasKind
    <2>2. CASE HasKind(r, kinds)
      <3>1. PICK i \in 1 .. n : r[i].kind \in kinds
        BY <1>2, <2>2 DEF HasKind
      <3>2. i + 1 \in 1 .. Len(s) /\ s[i + 1].kind \in kinds
        BY <1>3, <3>1
      <3> QED BY <3>2 DEF HasKind
    <2> QED BY <1>4, <2>1, <2>2
  <1>5. ASSUME OptionsFirst(s), NEW i \in 1 .. n, r[i].kind = "uciok", NEW j \in i + 1 .. n
        PROVE  r[j].kind \notin OptionIds
    <2>1. i + 1 \in 1 .. Len(s) /\ j + 1 \in (i + 1) + 1 .. Len(s) /\ s[i + 1].kind = "uciok"
          /\ j \in 1 .. n
      BY <1>3, <1>5
    <2>2. s[j + 1].kind \notin OptionIds
      BY <1>5, <2>1 DEF OptionsFirst
    <2> QED BY <1>3, <2>1, <2>2
  <1>6. ASSUME OptionsFirst(s), s[1].kind = "uciok", NEW i \in 1 .. n
        PROVE  r[i].kind \notin OptionIds
    <2>1. 1 \in 1 .. Len(s) /\ i + 1 \in 1 + 1 .. Len(s)
      BY <1>3
    <2> QED BY <1>3, <1>6, <2>1 DEF OptionsFirst
  <1>7. OptionsFirst(s) => OptionsFirst(r) /\ (Head(s).kind = "uciok" => ~HasKind(r, OptionIds))
    BY <1>2, <1>3, <1>5, <1>6 DEF OptionsFirst, HasKind
  <1> QED BY <1>1, <1>4, <1>7

LEMMA KindsJoined ==
  ASSUME NEW s \in Seq(Outputs), NEW t \in Seq(Outputs)
  PROVE  /\ \A kinds : HasKind(s \o t, kinds) => HasKind(s, kinds) \/ HasKind(t, kinds)
         /\ OptionsFirst(s) /\ OptionsFirst(t) /\ (~HasKind(s, {"uciok"}) \/ ~HasKind(t, OptionIds)) =>
              OptionsFirst(s \o t)
  <1>1. PICK r : r = s \o t
    OBVIOUS
  <1>2. PICK n : n = Len(s)
    OBVIOUS
  <1>3. PICK m : m = Len(t)
    OBVIOUS
  <1>4. /\ n \in Nat /\ m \in Nat /\ Len(r) = n + m
        /\ \A i \in 1 .. n : r[i] = s[i]
        /\ \A i \in n + 1 .. n + m : r[i] = t[i - n]
    BY <1>1, <1>2, <1>3, Joined
  <1>5. ASSUME NEW i \in 1 .. n + m
        PROVE  \/ i \in 1 .. n /\ r[i] = s[i]
               \/ i - n \in 1 .. m /\ i \in n + 1 .. n + m /\ r[i] = t[i - n]
    BY <1>4
  <1>6. ASSUME NEW kinds, HasKind(r, kinds) PROVE HasKind(s, kinds) \/ HasKind(t, kinds)
    <2>1. PICK i \in 1 .. n + m : r[i].kind \in kinds
      BY <1>4, <1>6 DEF HasKind
    <2> QED BY <1>2, <1>3, <1>5, <2>1 DEF HasKind
  <1>7. ASSUME OptionsFirst(s), OptionsFirst(t), ~HasKind(s, {"uciok"}) \/ ~HasKind(t, OptionIds),
               NEW i \in 1 .. n + m, r[i].kind = "uciok", NEW j \in i + 1 .. n + m
        PROVE  r[j].kind \notin OptionIds
    <2>1. j \in 1 .. n + m
      BY <1>4
    <2>2. CASE i \in 1 .. n /\ j \in 1 .. n
      <3>1. j \in i + 1 .. n /\ s[i].kind = "uciok"
        BY <1>4, <1>7, <2>2
      <3>2. s[j].kind \notin OptionIds
        BY <1>2, <1>7, <2>2, <3>1 DEF OptionsFirst
      <3> QED BY <1>4, <2>2, <3>2
    <2>3. CASE i \in 1 .. n /\ j \in n + 1 .. n + m
      <3>1. s[i].kind = "uciok"
        BY <1>4, <1>7, <2>3
      <3>2. HasKind(s, {"uciok"})
        BY <1>2, <2>3, <3>1 DEF HasKind
      <3>3. j - n \in 1 .. m
        BY <1>4, <2>3
      <3>4. t[j - n].kind \notin OptionIds
        BY <1>3, <1>7, <3>2, <3>3 DEF HasKind
      <3> QED BY <1>4, <2>3, <3>4
    <2>4. CASE i \in n + 1 .. n + m
      <3>1. i - n \in 1 .. m /\ j - n \in (i - n) + 1 .. m /\ j \in n + 1 .. n + m
        BY <1>4, <1>7, <2>4
      <3>2. t[i - n].kind = "uciok"
        BY <1>4, <1>7, <2>4
      <3>3. t[j - n].kind \notin OptionIds
        BY <1>3, <1>7, <3>1, <3>2 DEF OptionsFirst
      <3> QED BY <1>4, <3>1, <3>3
    <2> QED BY <1>4, <2>1, <2>2, <2>3, <2>4
  <1>8. OptionsFirst(s) /\ OptionsFirst(t) /\ (~HasKind(s, {"uciok"}) \/ ~HasKind(t, OptionIds)) =>
          OptionsFirst(r)
    <2> SUFFICES ASSUME OptionsFirst(s), OptionsFirst(t), ~HasKind(s, {"uciok"}) \/ ~HasKind(t, OptionIds)
                 PROVE  OptionsFirst(r)
      OBVIOUS
    <2>1. \A i \in 1 .. n + m : r[i].kind = "uciok" => \A j \in i + 1 .. n + m : r[j].kind \notin OptionIds
      BY <1>7
    <2> QED BY <1>4, <2>1 DEF OptionsFirst
  <1> QED BY <1>1, <1>6, <1>8

(* What the engine puts out says nothing of options, but for its answer to   *)
(* uci, which ends with uciok.                                              *)
LEMMA AnswersOnce ==
  ASSUME NEW c
  PROVE  /\ OptionsFirst(Answer(c))
         /\ c.cmd # "uci" => ~HasKind(Answer(c), OptionIds \cup {"uciok"})
  <1> DEFINE O(k) == Output(k, StartPos, 0)
  <1>1. \A k \in OptionIds \cup {"uciok", "readyok", "bestmove"} : O(k).kind = k
    BY DEF Output
  <1>2. CASE c.cmd = "uci"
    <2>1. PICK s : s = Answer(c) /\ s = <<O("MultiPV"), O("Clear Hash"), O("uciok")>>
      BY <1>2 DEF Answer
    <2>2. Len(s) = 3 /\ s[1].kind = "MultiPV" /\ s[2].kind = "Clear Hash" /\ s[3].kind = "uciok"
      <3>1. /\ O("MultiPV").kind = "MultiPV" /\ O("Clear Hash").kind = "Clear Hash"
            /\ O("uciok").kind = "uciok"
        BY DEF Output
      <3> HIDE DEF O
      <3>2. ASSUME NEW x, NEW y, NEW z, s = <<x, y, z>>
            PROVE  Len(s) = 3 /\ s[1] = x /\ s[2] = y /\ s[3] = z
        BY <3>2
      <3> QED BY <2>1, <3>1, <3>2
    <2>3. \A i \in 1 .. 3 : i = 1 \/ i = 2 \/ i = 3
      OBVIOUS
    <2>4. ASSUME NEW i \in 1 .. 3, s[i].kind = "uciok", NEW j \in i + 1 .. 3 PROVE FALSE
      <3>1. i = 3
        BY <2>2, <2>3, <2>4
      <3> QED BY <2>4, <3>1
    <2> QED BY <1>2, <2>1, <2>2, <2>4 DEF OptionsFirst
  <1>3. CASE c.cmd # "uci"
    <2>1. Answer(c) = <<>> \/ Answer(c) = <<O("readyok")>> \/ Answer(c) = <<O("bestmove")>>
      BY <1>3 DEF Answer
    <2>2. ASSUME NEW o, o.kind \in {"readyok", "bestmove"}, Answer(c) = <<o>>
          PROVE  OptionsFirst(Answer(c)) /\ ~HasKind(Answer(c), OptionIds \cup {"uciok"})
      <3>1. PICK s : s = Answer(c) /\ Len(s) = 1 /\ s[1] = o
        BY <2>2
      <3>2. o.kind \notin OptionIds \cup {"uciok"}
        BY <2>2 DEF OptionIds
      <3>3. OptionsFirst(s) /\ ~HasKind(s, OptionIds \cup {"uciok"})
        BY <2>2, <3>1, <3>2 DEF OptionsFirst, HasKind
      <3> QED BY <3>1, <3>3
    <2>3. CASE Answer(c) = <<>>
      <3>1. PICK s : s = Answer(c) /\ Len(s) = 0
        BY <2>3
      <3>2. OptionsFirst(s) /\ ~HasKind(s, OptionIds \cup {"uciok"})
        BY <3>1 DEF OptionsFirst, HasKind
      <3> QED BY <3>1, <3>2
    <2>4. O("readyok").kind \in {"readyok", "bestmove"} /\ O("bestmove").kind \in {"readyok", "bestmove"}
      BY DEF Output
    <2> HIDE DEF O
    <2>5. CASE Answer(c) = <<O("readyok")>>
      BY <2>2, <2>4, <2>5
    <2>6. CASE Answer(c) = <<O("bestmove")>>
      BY <2>2, <2>4, <2>6
    <2> QED BY <1>3, <2>1, <2>3, <2>5, <2>6
  <1> QED BY <1>2, <1>3

LEMMA NextUci ==
  ASSUME Typed, HeldBack, UciInv, Next
  PROVE  UciInv'
  <1>1. /\ toEngine \in Seq(Commands) /\ fromEngine \in Seq(Outputs)
        /\ sending \in [{UI, InitEngine} -> Seq(Commands)]
        /\ pc \in [Threads -> UIPcs \cup InitPcs \cup ReaderPcs]
        /\ UI \in Threads /\ InitEngine \in Threads /\ Reader \in Threads
        /\ UI # InitEngine /\ Reader # InitEngine
    BY DEF Typed, TypedPcs, TypedPipes, Threads, UI, InitEngine, Reader
  <1> DEFINE Goes == /\ Past' => Past \/ "UCI" \in attrs
                     /\ pc'[InitEngine] = "uci" => pc[InitEngine] = "uci"
             Both == OptionIds \cup {"uciok"}
  <1>2. ASSUME UNCHANGED <<toEngine, fromEngine>>, attrs' \subseteq attrs, Goes
        PROVE  UciInv'
    BY <1>2 DEF UciInv, HasKind, HasUci, Once, OptionsFirst
  <1>3. ASSUME NEW c \in Commands, c.cmd # "uci", toEngine' = Append(toEngine, c),
               UNCHANGED <<fromEngine, attrs>>, Goes
        PROVE  UciInv'
    <2>1. (HasUci(toEngine') <=> HasUci(toEngine)) /\ (Once(toEngine) => Once(toEngine'))
      BY <1>1, <1>3, NoUci, OnceSent
    <2> QED BY <1>3, <2>1 DEF UciInv
  <1>4. ASSUME pc' = [pc EXCEPT ![UI] = pc'[UI]] \/ pc' = [pc EXCEPT ![Reader] = pc'[Reader]] \/ pc' = pc
        PROVE  Past' = Past /\ pc'[InitEngine] = pc[InitEngine]
    BY <1>1, <1>4 DEF Past
  \* InitEngine
  <1>5. CASE InitSendsUci
    <2>1. PICK c \in Commands : c = Plain("uci", InitEngine)
      BY PlainIs
    <2>2. toEngine' = Append(toEngine, c) /\ pc[InitEngine] = "uci" /\ UNCHANGED <<fromEngine, attrs>>
      BY <1>5, <2>1 DEF InitSendsUci, sharedVars
    <2>3. pc'[InitEngine] = "wait" /\ ~Past'
      BY <1>1, <1>5 DEF InitSendsUci, Goto, Past
    <2>4. Once(toEngine')
      BY <1>1, <2>2, OnceSent DEF UciInv
    <2> QED BY <2>2, <2>3, <2>4 DEF UciInv
  <1>6. CASE InitFails \/ InitStrands \/ InitReadsOptions
    <2>1. Goes
      BY <1>1, <1>6 DEF InitFails, InitStrands, InitReadsOptions, Strands, Goto, Past, Responded
    <2>2. UNCHANGED <<toEngine, fromEngine, attrs>>
      BY <1>6 DEF InitFails, InitStrands, InitReadsOptions, pipeVars, sharedVars
    <2> QED BY <1>2, <2>1, <2>2
  <1>7. CASE InitSendsOption
    <2>1. sending[InitEngine] # <<>> /\ toEngine' = Append(toEngine, Head(sending[InitEngine]))
          /\ UNCHANGED <<fromEngine, attrs, pc>>
      BY <1>7 DEF InitSendsOption, sharedVars
    <2>2. Head(sending[InitEngine]) \in Commands /\ Head(sending[InitEngine]).cmd # "uci"
      <3>1. PICK s \in Seq(Commands) : s = sending[InitEngine]
        BY <1>1
      <3>2. 1 \in DOMAIN s /\ Head(s) = s[1] /\ Head(s) \in Commands
        BY <2>1, <3>1, FirstGone
      <3> QED BY <3>1, <3>2 DEF HeldBack
    <2>3. Goes
      BY <2>1 DEF Past
    <2> QED BY <1>3, <2>1, <2>2, <2>3
  <1>8. CASE InitSendsIsReady \/ InitSendsNewGame
    <2>1. PICK c \in Commands : c.cmd # "uci" /\ toEngine' = Append(toEngine, c)
      <3>1. /\ Plain("isready", InitEngine) \in Commands /\ Plain("isready", InitEngine).cmd # "uci"
            /\ Plain("ucinewgame", InitEngine) \in Commands /\ Plain("ucinewgame", InitEngine).cmd # "uci"
        BY PlainIs
      <3> QED BY <1>8, <3>1 DEF InitSendsIsReady, InitSendsNewGame
    <2>2. Goes
      BY <1>1, <1>8 DEF InitSendsIsReady, InitSendsNewGame, Goto, Past
    <2>3. UNCHANGED <<fromEngine, attrs>>
      BY <1>8 DEF InitSendsIsReady, InitSendsNewGame, sharedVars
    <2> QED BY <1>3, <2>1, <2>2, <2>3
  \* the UI thread
  <1>9. CASE SendNext \/ OnChangeStops
    <2>1. sending[UI] # <<>> /\ toEngine' = Append(toEngine, Head(sending[UI]))
          /\ UNCHANGED <<fromEngine, attrs>>
      BY <1>9 DEF SendNext, OnChangeStops, sharedVars
    <2>2. Head(sending[UI]) \in Commands /\ Head(sending[UI]).cmd # "uci"
      BY <1>1, <2>1, NoUci DEF HeldBack
    <2>3. pc' = [pc EXCEPT ![UI] = pc'[UI]] \/ pc' = pc
      BY <1>1, <1>9 DEF SendNext, OnChangeStops, Return, Goto, sharedVars
    <2>4. Goes
      BY <1>4, <2>3
    <2> QED BY <1>3, <2>1, <2>2, <2>4
  <1>10. CASE Construct
    <2>1. attrs' = {} /\ UNCHANGED <<toEngine, fromEngine>> /\ pc' = [pc EXCEPT ![UI] = pc'[UI]]
      BY <1>1, <1>10 DEF Construct, Goto, pipeVars
    <2> QED BY <1>2, <1>4, <2>1
  <1>11. CASE Notify \/ ReaderExits \/ ReaderStrands \/ ConstructOptions \/ SendNothing
              \/ OnChangeUnsets \/ KeyStep \/ Close \/ ClosingStep \/ UNCHANGED vars
    <2>1. UNCHANGED <<toEngine, fromEngine, attrs>>
      BY <1>11 DEF Notify, ReaderExits, ReaderStrands, ConstructOptions, SendNothing,
           OnChangeUnsets, KeyStep, Start, Stop, ClearHash, OnFenChange, EditFen, MaybeMove, OnChange,
           Close, ClosingStep, DestroyMembers, Terminate, JoinReader, sharedVars, pipeVars, vars
    <2>2. CASE Notify \/ ReaderExits \/ ReaderStrands \/ UNCHANGED vars
      <3>1. pc' = [pc EXCEPT ![Reader] = pc'[Reader]] \/ pc' = pc
        BY <1>1, <2>2 DEF Notify, ReaderExits, ReaderStrands, Strands, Goto, vars
      <3> QED BY <1>2, <1>4, <2>1, <3>1
    <2>3. CASE ConstructOptions \/ SendNothing \/ OnChangeUnsets \/ KeyStep \/ Close \/ ClosingStep
      <3>1. pc' = [pc EXCEPT ![UI] = pc'[UI]] \/ pc' = pc
        BY <1>1, <2>3 DEF ConstructOptions, SendNothing, Return, OnChangeUnsets, KeyStep, Start, Stop,
             ClearHash, OnFenChange, EditFen, MaybeMove, OnChange, Close, ClosingStep, DestroyMembers,
             Terminate, JoinReader, Goto
      <3> QED BY <1>2, <1>4, <2>1, <3>1
    <2> QED BY <1>11, <2>2, <2>3
  \* the reader
  <1>12. CASE HandleInfo \/ HandleReply
    <2>1. /\ fromEngine # <<>> /\ fromEngine' = Tail(fromEngine) /\ toEngine' = toEngine
          /\ pc' = [pc EXCEPT ![Reader] = pc'[Reader]] \/ pc' = pc
      BY <1>1, <1>12 DEF HandleInfo, HandleReply, Goto
    <2>2. Past' = Past /\ pc'[InitEngine] = pc[InitEngine]
      BY <1>4, <2>1
    <2>3. "UCI" \in attrs' => "UCI" \in attrs \/ Head(fromEngine).kind = "uciok"
      BY <1>12 DEF HandleInfo, HandleReply
    <2>4. /\ \A kinds : Head(fromEngine).kind \in kinds \/ HasKind(fromEngine', kinds) =>
               HasKind(fromEngine, kinds)
          /\ OptionsFirst(fromEngine) =>
               /\ OptionsFirst(fromEngine')
               /\ Head(fromEngine).kind = "uciok" => ~HasKind(fromEngine', OptionIds)
      BY <1>1, <2>1, KindsRead
    <2>5. Head(fromEngine).kind = "uciok" \/ HasKind(fromEngine', Both) => HasKind(fromEngine, Both)
      BY <2>4
    <2>6. HasKind(fromEngine', OptionIds) => HasKind(fromEngine, OptionIds)
      BY <2>4
    <2>7. (HasUci(toEngine') <=> HasUci(toEngine)) /\ (Once(toEngine') <=> Once(toEngine))
      BY <2>1
    <2> QED BY <2>2, <2>3, <2>4, <2>5, <2>6, <2>7 DEF UciInv
  \* the engine
  <1>13. ASSUME NEW t \in Seq(Outputs), fromEngine' = fromEngine \o t, OptionsFirst(t),
                ~HasKind(t, Both), HasUci(toEngine') => HasUci(toEngine), Once(toEngine'),
                UNCHANGED <<attrs, pc>>
         PROVE  UciInv'
    <2>1. \A kinds : HasKind(fromEngine', kinds) => HasKind(fromEngine, kinds) \/ HasKind(t, kinds)
      BY <1>1, <1>13, KindsJoined
    <2>2. ~HasKind(t, OptionIds)
      BY <1>13 DEF HasKind
    <2>3. OptionsFirst(fromEngine')
      BY <1>1, <1>13, <2>2, KindsJoined DEF UciInv
    <2>4. Past' = Past
      BY <1>13 DEF Past
    <2>5. HasKind(fromEngine', OptionIds) => HasKind(fromEngine, OptionIds)
      BY <2>1, <2>2
    <2>6. HasKind(fromEngine', Both) => HasKind(fromEngine, Both)
      BY <1>13, <2>1
    <2> HIDE DEF Both
    <2> QED BY <1>13, <2>3, <2>4, <2>5, <2>6 DEF UciInv, Both
  <1>14. ASSUME NEW o \in Outputs, o.kind \notin Both, fromEngine' = Append(fromEngine, o),
                UNCHANGED <<toEngine, attrs, pc>>
         PROVE  UciInv'
    <2>1. <<o>> \in Seq(Outputs) /\ fromEngine' = fromEngine \o <<o>>
      BY <1>1, <1>14, AppendIsConcat
    <2>2. OptionsFirst(<<o>>) /\ ~HasKind(<<o>>, Both)
      BY <1>14 DEF OptionsFirst, HasKind
    <2>3. Once(toEngine') /\ (HasUci(toEngine') => HasUci(toEngine))
      BY <1>14 DEF UciInv
    <2> HIDE DEF Both
    <2> QED BY <1>13, <1>14, <2>1, <2>2, <2>3
  <1>15. ASSUME NEW k \in 1 .. Lines, EngineInfo(k) PROVE UciInv'
    <2>1. PICK o \in Outputs : o = Output("info", engine.position, k) /\ o.kind = "info"
      <3>1. Output("info", engine.position, k) \in Outputs
            /\ Output("info", engine.position, k).kind = "info"
        BY SessionAssumption DEF SessionAssumption, Typed, TypedPipes, Output, Outputs
      <3> QED BY <3>1
    <2>2. o.kind \notin Both
      BY <2>1 DEF OptionIds
    <2> QED BY <1>14, <1>15, <2>1, <2>2 DEF EngineInfo, sharedVars
  <1>16. CASE EngineFinishes
    <2>1. PICK o \in Outputs : o = Output("bestmove", StartPos, 0) /\ o.kind = "bestmove"
      BY OutputIs
    <2>2. o.kind \notin Both
      BY <2>1 DEF OptionIds
    <2> QED BY <1>14, <1>16, <2>1, <2>2 DEF EngineFinishes, sharedVars
  <1>17. CASE EngineReads
    <2>1. PICK t \in Seq(Outputs) : t = Answer(Head(toEngine)) /\ OptionsFirst(t)
            /\ (Head(toEngine).cmd # "uci" => ~HasKind(t, Both))
      BY AnswerHas, AnswersOnce
    <2>2. /\ toEngine # <<>> /\ toEngine' = Tail(toEngine) /\ fromEngine' = fromEngine \o t
          /\ UNCHANGED <<attrs, pc>>
      BY <1>17, <2>1 DEF EngineReads, sharedVars
    <2>3. /\ Head(toEngine).cmd = "uci" \/ HasUci(toEngine') => HasUci(toEngine)
          /\ Once(toEngine') /\ (Head(toEngine).cmd = "uci" => ~HasUci(toEngine'))
      BY <1>1, <2>2, NoUci, OnceSent DEF UciInv
    <2>4. CASE Head(toEngine).cmd # "uci"
      BY <1>13, <2>1, <2>2, <2>3, <2>4
    <2>5. CASE Head(toEngine).cmd = "uci"
      <3>1. "UCI" \notin attrs /\ ~Past /\ ~HasKind(fromEngine, Both) /\ pc[InitEngine] # "uci"
        BY <2>3, <2>5 DEF UciInv
      <3>2. ~HasKind(fromEngine, {"uciok"})
        BY <3>1 DEF HasKind
      <3>3. OptionsFirst(fromEngine')
        BY <1>1, <2>1, <2>2, <3>2, KindsJoined DEF UciInv
      <3>4. Past' = Past
        BY <2>2 DEF Past
      <3> QED BY <2>2, <2>3, <2>5, <3>1, <3>3, <3>4 DEF UciInv
    <2> QED BY <2>4, <2>5
  <1> HIDE DEF Goes, Both
  <1> QED BY <1>5, <1>6, <1>7, <1>8, <1>9, <1>10, <1>11, <1>12, <1>15, <1>16, <1>17
          DEF Next, InitStep, ReaderStep, HandlerStep

-----------------------------------------------------------------------------
(* The engine follows.                                                      *)

(* Told to stop, the engine is quiet.                                       *)
LEMMA Stops ==
  ASSUME Typed, SearchInv, sending[UI] = <<>>
  PROVE  /\ Due = toEngine /\ toEngine \o StopCommands \in Seq(Commands)
         /\ Orderly(toEngine \o StopCommands, engine.searching)
         /\ Quiet(toEngine \o StopCommands, engine.searching)
  <1>1. toEngine \in Seq(Commands) /\ engine.searching \in BOOLEAN /\ running \in BOOLEAN
    BY DEF Typed, TypedScreen, TypedPipes
  <1>2. toEngine \o <<>> = toEngine
    BY <1>1, ConcatEmptySeq
  <1>3. Due = toEngine
    BY <1>2 DEF Due
  <1>4. Orderly(toEngine, engine.searching) /\ (~running => Quiet(toEngine, engine.searching))
    BY <1>3 DEF SearchInv
  <1>5. CASE ~running
    BY <1>1, <1>2, <1>3, <1>4, <1>5 DEF StopCommands
  <1>6. CASE running
    <2> DEFINE c == Plain("stop", UI)
    <2>1. c \in Commands /\ c.cmd = "stop" /\ ~Disturbs(c)
      BY PlainIs DEF Disturbs, Disturbing
    <2>2. toEngine \o StopCommands = Append(toEngine, c)
      BY <1>1, <1>6, <2>1, Chained DEF StopCommands
    <2>3. Append(toEngine, c) \in Seq(Commands)
      BY <1>1, <2>1
    <2> HIDE DEF c
    <2>4. Orderly(Append(toEngine, c), engine.searching) /\ Quiet(Append(toEngine, c), engine.searching)
      BY <1>1, <1>4, <2>1, SendsOne
    <2> QED BY <1>3, <2>2, <2>3, <2>4
  <1> QED BY <1>1, <1>5, <1>6

(* Started when it is quiet, it searches what it was started with.          *)
LEMMA Starts ==
  ASSUME NEW s \in Seq(Commands), NEW x \in BOOLEAN, Orderly(s, x), Quiet(s, x),
         NEW p \in Positions, NEW first
  PROVE  /\ Orderly(s \o StartCommands(p), x)
         /\ AimsAt(s \o StartCommands(p), first, p)
  <1> DEFINE c == Command("position", p, 0, UI)
             d == Plain("go", UI)
  <1>1. c \in Commands /\ c.cmd = "position" /\ c.position = p
    <2>1. 0 \in 0 .. Lines
      BY SessionAssumption DEF SessionAssumption
    <2> QED BY <2>1, CommandIs
  <1>2. d \in Commands /\ d.cmd = "go"
    BY PlainIs
  <1>3. s \o StartCommands(p) = Append(Append(s, c), d)
    BY <1>1, <1>2, Chained DEF StartCommands
  <1> HIDE DEF c, d
  <1>4. Append(s, c) \in Seq(Commands)
    BY <1>1
  <1>5. Orderly(Append(s, c), x) /\ Quiet(Append(s, c), x)
    BY <1>1, SendsOne
  <1>6. AimsAt(Append(s, c), first, p)
    BY <1>1, AimsOne
  <1>7. Orderly(Append(Append(s, c), d), x)
    BY <1>2, <1>4, <1>5, SendsOne
  <1>8. AimsAt(Append(Append(s, c), d), first, p)
    BY <1>2, <1>4, <1>6, AimsOne
  <1> QED BY <1>3, <1>7, <1>8

LEMMA NextSearch ==
  ASSUME Typed, HeldBack, SearchInv, Next
  PROVE  SearchInv'
  <1> DEFINE x == engine.searching
             first == engine.position
  <1>1. /\ toEngine \in Seq(Commands) /\ sending[UI] \in Seq(Commands)
        /\ sending[InitEngine] \in Seq(Commands) /\ x \in BOOLEAN /\ running \in BOOLEAN
        /\ position \in Positions /\ fen \in Positions /\ UI # InitEngine
        /\ sending \in [{UI, InitEngine} -> Seq(Commands)]
        /\ Due = toEngine \o sending[UI] /\ Due' = toEngine' \o sending'[UI]
        /\ engine \in [position : Positions, searching : BOOLEAN, lines : 1 .. Lines]
    BY DEF Typed, TypedScreen, TypedPipes, Due, UI, InitEngine
  <1>2. Due \in Seq(Commands)
    BY <1>1
  <1>3. /\ ~disturbed /\ Orderly(Due, x) /\ (~running => Quiet(Due, x))
        /\ (~edited => fen = position) /\ (running /\ ~edited => AimsAt(Due, first, position))
    BY DEF SearchInv
  <1>4. ASSUME UNCHANGED <<engine, disturbed, running, edited, fen, position>>, Due' = Due
        PROVE  SearchInv'
    BY <1>3, <1>4 DEF SearchInv
  \* InitEngine
  <1>5. ASSUME NEW c \in Commands, c.by = InitEngine, c.cmd \notin {"position", "go", "stop"},
               toEngine' = Append(toEngine, c), sending'[UI] = sending[UI],
               UNCHANGED <<engine, disturbed, running, edited, fen, position>>
        PROVE  SearchInv'
    <2>1. Due' = Append(toEngine, c) \o sending[UI]
      BY <1>1, <1>5
    <2>2. /\ Orderly(Due, x) => Orderly(Due', x)
          /\ Quiet(Due, x) => Quiet(Due', x)
          /\ AimsAt(Due, first, position) => AimsAt(Due', first, position)
      BY <1>1, <1>5, <2>1, InitSendsOne
    <2> QED BY <1>3, <1>5, <2>2 DEF SearchInv
  <1>6. CASE InitSendsUci \/ InitSendsIsReady \/ InitSendsNewGame
    BY <1>5, <1>6, PlainIs DEF InitSendsUci, InitSendsIsReady, InitSendsNewGame, analyzeVars, historyVars
  <1>7. CASE InitSendsOption
    <2>1. Head(sending[InitEngine]) \in Commands /\ Head(sending[InitEngine]) = sending[InitEngine][1]
          /\ 1 \in DOMAIN sending[InitEngine]
      BY <1>1, <1>7 DEF InitSendsOption
    <2>2. Head(sending[InitEngine]).by = InitEngine /\ Head(sending[InitEngine]).cmd = "setoption"
      BY <2>1 DEF HeldBack
    <2>3. sending'[UI] = sending[UI]
      BY <1>1, <1>7 DEF InitSendsOption
    <2> QED BY <1>5, <1>7, <2>1, <2>2, <2>3 DEF InitSendsOption, analyzeVars, historyVars
  \* the UI thread
  <1>8. ASSUME sending[UI] # <<>>, toEngine' = Append(toEngine, Head(sending[UI])),
               sending' = [sending EXCEPT ![UI] = Tail(@)],
               UNCHANGED <<engine, disturbed, running, edited, fen, position>>
        PROVE  SearchInv'
    <2>1. sending'[UI] = Tail(sending[UI])
      BY <1>1, <1>8
    <2>2. Due' = Due
      BY <1>1, <1>8, <2>1, SentNext
    <2> QED BY <1>4, <1>8, <2>2
  <1>9. CASE SendNext \/ OnChangeStops
    <2>1. sending[UI] # <<>>
      BY <1>9 DEF SendNext, OnChangeStops
    <2> QED BY <1>8, <1>9, <2>1 DEF SendNext, OnChangeStops, analyzeVars, historyVars
  <1>10. ASSUME pc[UI] = "idle"
         PROVE  /\ sending[UI] = <<>> /\ Due = toEngine
                /\ toEngine \o StopCommands \in Seq(Commands)
                /\ Orderly(toEngine \o StopCommands, x)
                /\ Quiet(toEngine \o StopCommands, x)
    <2>1. sending[UI] = <<>>
      BY <1>10 DEF HeldBack
    <2> QED BY <2>1, Stops
  <1>11. ASSUME NEW s \in Seq(Commands), sending' = [sending EXCEPT ![UI] = s],
                toEngine' = toEngine
         PROVE  Due' = toEngine \o s
    BY <1>1, <1>11
  <1>12. ASSUME NEW p \in Positions
         PROVE  Restart(p) = IF running THEN StartCommands(p) ELSE <<>>
    BY DEF Restart
  <1>13. StopCommands \in Seq(Commands)
         /\ \A p \in Positions : StartCommands(p) \in Seq(Commands) /\ Restart(p) \in Seq(Commands)
    BY HandsOver
  <1>14. CASE Start
    <2>1. Due = toEngine /\ ~running /\ Due' = toEngine \o StartCommands(fen)
      BY <1>1, <1>10, <1>11, <1>13, <1>14 DEF Start, Key, MayStart, pipeVars
    <2>2. Orderly(Due', x) /\ AimsAt(Due', first, fen)
      BY <1>1, <1>3, <2>1, Starts
    <2>3. UNCHANGED <<engine, disturbed, edited, fen, position>> /\ running'
      BY <1>14 DEF Start
    <2> QED BY <1>3, <2>2, <2>3 DEF SearchInv
  <1>15. CASE Stop
    <2>1. Due' = toEngine \o StopCommands
      BY <1>11, <1>13, <1>15 DEF Stop, pipeVars
    <2>2. Orderly(Due', x) /\ Quiet(Due', x)
      BY <1>10, <1>15, <2>1 DEF Stop, Key
    <2>3. UNCHANGED <<engine, disturbed, edited, fen, position>> /\ ~running'
      BY <1>15 DEF Stop
    <2> QED BY <1>3, <2>2, <2>3 DEF SearchInv
  <1>16. CASE ClearHash
    <2> DEFINE c == Plain("clearhash", UI)
    <2>1. c \in Commands /\ c.cmd = "clearhash" /\ ~Disturbs(c) /\ <<c>> \in Seq(Commands)
      BY PlainIs DEF Disturbs, Disturbing
    <2>2. Due = toEngine /\ Due' = Append(toEngine, c)
      BY <1>1, <1>10, <1>11, <1>16, <2>1, Chained DEF ClearHash, Key, pipeVars
    <2> HIDE DEF c
    <2>3. Orderly(Due', x) /\ (Quiet(Due, x) => Quiet(Due', x))
      BY <1>1, <1>3, <2>1, <2>2, SendsOne
    <2>4. AimsAt(Due, first, position) => AimsAt(Due', first, position)
      BY <1>1, <2>1, <2>2, AimsOne
    <2>5. UNCHANGED <<engine, disturbed, running, edited, fen, position>>
      BY <1>16 DEF ClearHash, analyzeVars
    <2> QED BY <1>3, <2>3, <2>4, <2>5 DEF SearchInv
  <1>17. ASSUME NEW p \in Positions, EditFen(p) PROVE SearchInv'
    <2>1. UNCHANGED <<engine, disturbed, running>> /\ Due' = Due /\ edited'
      BY <1>1, <1>17 DEF EditFen, pipeVars
    <2> QED BY <1>3, <2>1 DEF SearchInv
  \* the board is another one, and a running search is started again
  <1>18. ASSUME NEW s \in Seq(Commands), Orderly(s, x), Quiet(s, x), NEW p \in Positions,
                Due' = s \o Restart(p), position' = p, fen' = p,
                UNCHANGED <<engine, disturbed, running>>
         PROVE  SearchInv'
    <2>1. s \o <<>> = s
      BY ConcatEmptySeq
    <2>2. running => Orderly(Due', x) /\ AimsAt(Due', first, p)
      BY <1>1, <1>12, <1>18, Starts
    <2>3. ~running => Orderly(Due', x) /\ Quiet(Due', x)
      BY <1>12, <1>18, <2>1
    <2> QED BY <1>3, <1>18, <2>2, <2>3 DEF SearchInv
  <1>19. CASE OnFenChange
    <2> DEFINE c == Plain("ucinewgame", UI)
               s == toEngine \o StopCommands
    <2>1. c \in Commands /\ c.cmd = "ucinewgame" /\ <<c>> \in Seq(Commands)
      BY PlainIs
    <2>2. s \in Seq(Commands) /\ Orderly(s, x) /\ Quiet(s, x)
      BY <1>10, <1>19 DEF OnFenChange, Key
    <2>3. StopCommands \o <<c>> \in Seq(Commands) /\ StopCommands \o <<c>> \o Restart(fen) \in Seq(Commands)
      BY <1>1, <1>13, <2>1
    <2>4. Due' = toEngine \o (StopCommands \o <<c>> \o Restart(fen))
      BY <1>11, <1>19, <2>3 DEF OnFenChange, pipeVars
    <2>5. toEngine \o ((StopCommands \o <<c>>) \o Restart(fen))
          = (toEngine \o (StopCommands \o <<c>>)) \o Restart(fen)
      <3>1. PICK a \in Seq(Commands) : a = StopCommands \o <<c>>
        BY <2>3
      <3>2. toEngine \in Seq(Commands) /\ Restart(fen) \in Seq(Commands)
        BY <1>1, <1>13
      <3>3. toEngine \o (a \o Restart(fen)) = (toEngine \o a) \o Restart(fen)
        BY <3>2, ConcatAssociative
      <3> QED BY <3>1, <3>3
    <2>6. toEngine \o (StopCommands \o <<c>>) = Append(s, c)
      <3>1. StopCommands \in Seq(Commands) /\ toEngine \in Seq(Commands) /\ c \in Commands
        BY <1>1, <1>13, <2>1
      <3> QED BY <3>1, Chained
    <2>7. Append(s, c) \in Seq(Commands)
      BY <2>1, <2>2
    <2> HIDE DEF c, s
    <2>8. Orderly(Append(s, c), x) /\ Quiet(Append(s, c), x)
      BY <1>1, <2>1, <2>2, SendsOne
    <2>9. position' = fen /\ fen' = fen /\ UNCHANGED <<engine, disturbed, running>>
      BY <1>19 DEF OnFenChange
    <2> QED BY <1>1, <1>18, <2>4, <2>5, <2>6, <2>7, <2>8, <2>9
  <1>20. ASSUME NEW p \in Replies[position], MaybeMove(p) PROVE SearchInv'
    <2> DEFINE s == toEngine \o StopCommands
    <2>1. p \in Positions
      BY <1>1, SessionAssumption DEF SessionAssumption
    <2>2. s \in Seq(Commands) /\ Orderly(s, x) /\ Quiet(s, x)
      BY <1>10, <1>20 DEF MaybeMove, Key
    <2>3. StopCommands \o Restart(p) \in Seq(Commands)
      BY <1>13, <2>1
    <2>4. Due' = toEngine \o (StopCommands \o Restart(p))
      BY <1>11, <1>20, <2>3 DEF MaybeMove, pipeVars
    <2>5. toEngine \o (StopCommands \o Restart(p)) = s \o Restart(p)
      <3>1. toEngine \in Seq(Commands) /\ StopCommands \in Seq(Commands) /\ Restart(p) \in Seq(Commands)
        BY <1>1, <1>13, <2>1
      <3> QED BY <3>1, ConcatAssociative
    <2>6. position' = p /\ fen' = p /\ UNCHANGED <<engine, disturbed, running>>
      BY <1>20 DEF MaybeMove
    <2> HIDE DEF s
    <2> QED BY <1>18, <2>1, <2>2, <2>4, <2>5, <2>6
  <1>21. ASSUME NEW n \in 1 .. Lines, OnChange(n) PROVE SearchInv'
    <2> DEFINE c == Command("setoption", StartPos, n, UI)
               s == toEngine \o StopCommands
    <2>1. c \in Commands /\ c.cmd = "setoption" /\ <<c>> \in Seq(Commands)
      <3>1. n \in 0 .. Lines /\ n # 0 /\ StartPos \in Positions
        BY SessionAssumption DEF SessionAssumption
      <3>2. c \in Commands /\ c.cmd = "setoption"
        BY <3>1, CommandIs
      <3> QED BY <3>2
    <2>2. s \in Seq(Commands) /\ Orderly(s, x) /\ Quiet(s, x)
      BY <1>10, <1>21 DEF OnChange, Key
    <2>3. StopCommands \o <<c>> \in Seq(Commands)
      BY <1>13, <2>1
    <2>4. Due' = toEngine \o (StopCommands \o <<c>>)
      BY <1>11, <1>21, <2>3 DEF OnChange, pipeVars
    <2>5. Due' = Append(s, c)
      <3>1. StopCommands \in Seq(Commands) /\ toEngine \in Seq(Commands) /\ c \in Commands
        BY <1>1, <1>13, <2>1
      <3>2. toEngine \o (StopCommands \o <<c>>) = Append(toEngine \o StopCommands, c)
        BY <3>1, Chained
      <3> QED BY <2>4, <3>2
    <2> HIDE DEF c, s
    <2>6. Orderly(Due', x) /\ Quiet(Due', x)
      BY <1>1, <2>1, <2>2, <2>5, SendsOne
    <2>7. UNCHANGED <<engine, disturbed, edited, fen, position>> /\ ~running'
      BY <1>21 DEF OnChange
    <2> QED BY <1>3, <2>6, <2>7 DEF SearchInv
  \* the engine
  <1>22. CASE EngineReads
    <2> DEFINE c == Head(toEngine)
    <2>1. /\ Due # <<>> /\ Head(Due) = c /\ Due' = Tail(Due)
      <3>1. toEngine # <<>> /\ toEngine' = Tail(toEngine) /\ sending' = sending
        BY <1>22 DEF EngineReads
      <3> QED BY <1>1, <3>1, ReadFirst
    <2>2. c \in Commands
      BY <1>1, <1>22 DEF EngineReads
    <2>3. /\ engine'.position = (IF c.cmd = "position" THEN c.position ELSE first)
          /\ engine'.searching = (c.cmd = "go" \/ (x /\ c.cmd # "stop"))
      BY <1>22 DEF EngineReads
    <2>4. disturbed' = (disturbed \/ (c.by = UI /\ x /\ c.cmd \in Disturbing))
      BY <1>22 DEF EngineReads
    <2>5. UNCHANGED <<running, edited, fen, position>>
      BY <1>22 DEF EngineReads, analyzeVars, historyVars
    <2>6. ~disturbed'
      <3>1. Due[1] = c /\ 1 \in 1 .. Len(Due)
        BY <1>2, <2>1
      <3>2. Disturbs(c) => ~x
        BY <1>3, <3>1 DEF Orderly, QuietAfter
      <3> QED BY <1>3, <2>4, <3>2 DEF Disturbs
    <2>7. engine'.searching \in BOOLEAN
      BY <2>3
    <2> HIDE DEF c
    <2>8. /\ Orderly(Due, x) => Orderly(Due', engine'.searching)
          /\ Quiet(Due, x) => Quiet(Due', engine'.searching)
          /\ AimsAt(Due, first, position) => AimsAt(Due', engine'.position, position)
      <3>1. PICK y \in BOOLEAN : y = engine'.searching
        BY <2>7
      <3>2. PICK next : next = engine'.position
        OBVIOUS
      <3>3. PICK s : s = Due
        OBVIOUS
      <3>4. /\ y => Head(s).cmd = "go" \/ (x /\ Head(s).cmd # "stop")
            /\ next = IF Head(s).cmd = "position" THEN Head(s).position ELSE first
        BY <2>1, <2>3, <3>1, <3>2, <3>3
      <3>5. s \in Seq(Commands) /\ s # <<>>
        BY <1>2, <2>1, <3>3
      <3>6. /\ Orderly(s, x) => Orderly(Tail(s), y)
            /\ Quiet(s, x) => Quiet(Tail(s), y)
            /\ AimsAt(s, first, position) => AimsAt(Tail(s), next, position)
        BY <1>1, <3>4, <3>5, ReadsOne
      <3> QED BY <2>1, <3>1, <3>2, <3>3, <3>6
    <2> QED BY <1>3, <2>5, <2>6, <2>8 DEF SearchInv
  <1>23. CASE EngineFinishes
    <2>1. engine'.position = first /\ engine'.searching = FALSE
          /\ UNCHANGED <<disturbed, running, edited, fen, position>> /\ Due' = Due
      BY <1>1, <1>23 DEF EngineFinishes, analyzeVars, historyVars
    <2>2. /\ Orderly(Due, x) => Orderly(Due, FALSE)
          /\ Quiet(Due, x) => Quiet(Due, FALSE)
      BY DEF Orderly, Quiet, QuietAfter
    <2> QED BY <1>3, <2>1, <2>2 DEF SearchInv
  \* the other steps
  <1>24. CASE InitReadsOptions
    <2>1. sending'[UI] = sending[UI] /\ toEngine' = toEngine
      BY <1>1, <1>24 DEF InitReadsOptions, pipeVars
    <2> QED BY <1>1, <1>4, <1>24, <2>1 DEF InitReadsOptions, analyzeVars, historyVars
  <1>25. CASE InitFails \/ InitStrands \/ ReaderStep \/ Construct \/ ConstructOptions \/ SendNothing
              \/ OnChangeUnsets \/ Close \/ ClosingStep
              \/ (\E k \in 1 .. Lines : EngineInfo(k)) \/ UNCHANGED vars
    <2>1. UNCHANGED <<engine, disturbed, running, edited, fen, position, toEngine, sending>>
      BY <1>25 DEF InitFails, InitStrands, ReaderStep, HandleInfo, HandleReply, Notify, ReaderExits,
           ReaderStrands, Construct, ConstructOptions, SendNothing, OnChangeUnsets, Close, ClosingStep,
           DestroyMembers, Terminate, JoinReader, EngineInfo, analyzeVars, pipeVars, historyVars, vars
    <2> QED BY <1>1, <1>4, <2>1
  <1> HIDE DEF x, first
  <1> QED BY <1>6, <1>7, <1>9, <1>14, <1>15, <1>16, <1>17, <1>19, <1>20, <1>21, <1>22, <1>23,
             <1>24, <1>25
          DEF Next, InitStep, HandlerStep, KeyStep

-----------------------------------------------------------------------------
(* IInv is inductive: whatever the three threads, the user and the engine do *)
(* next.                                                                    *)
THEOREM Inductive == Spec => []IInv
  <1>1. ASSUME IInv, [Next]_vars PROVE IInv'
    <2>1. CASE Next
      <3>1. Typed'
        BY <1>1, <2>1, NextTypedPcs, NextTypedScreen, NextTypedPipes DEF IInv, Typed
      <3>2. HeldBack' /\ UnreadInv'
        BY <1>1, <2>1, NextHeldBack, NextUnread DEF IInv
      <3>3. SearchInv' /\ OptionsInv' /\ UciInv'
        BY <1>1, <2>1, NextSearch, NextOptions, NextUci DEF IInv
      <3> QED BY <3>1, <3>2, <3>3 DEF IInv
    <2>2. CASE UNCHANGED vars
      <3> USE DEF vars, analyzeVars, sharedVars, pipeVars, historyVars
      <3>1. Typed'
        BY <1>1, <2>2 DEF IInv, Typed, TypedPcs, TypedScreen, TypedPipes
      <3>2. HeldBack' /\ UnreadInv' /\ SearchInv'
        BY <1>1, <2>2 DEF IInv, HeldBack, UnreadInv, Unread, SearchInv, Due
      <3>3. OptionsInv'
        BY <1>1, <2>2 DEF IInv, OptionsInv, Past
      <3>4. UciInv'
        BY <1>1, <2>2 DEF IInv, UciInv, Past
      <3> QED BY <3>1, <3>2, <3>3, <3>4 DEF IInv
    <2> QED BY <1>1, <2>1, <2>2
  <1> QED BY InitIInv, <1>1, PTL DEF Spec

(* Every variable of a session has its type, the mutex the holder the        *)
(* threads' program counters say, and the reader is never further behind    *)
(* than the bound, whatever the positions, lines and keys.                  *)
THEOREM TypeCorrect == Spec => []TypeOK
  <1>1. IInv => TypeOK
    <2> SUFFICES ASSUME IInv PROVE TypeOK
      OBVIOUS
    <2>1. TypedPcs /\ TypedScreen /\ TypedPipes /\ UnreadInv
      BY DEF IInv, Typed
    <2>2. \A k \in 1 .. Lines : \/ pvs[k] = NoLine
                                \/ pvs[k] \in [searched : Positions, shown : Positions]
      BY <2>1 DEF TypedScreen, Shown
    <2>3. keys <= MaxKeys
      BY <2>1 DEF TypedScreen
    <2>4. /\ pc[UI] \in UIPcs /\ pc[InitEngine] \in InitPcs /\ pc[Reader] \in ReaderPcs
          /\ mutex \in {Free, UI, InitEngine}
          /\ mutex = InitEngine => pc[InitEngine] \in {"options", "stuck", "failed"}
          /\ pc[InitEngine] \in {"options", "stuck"} => mutex = InitEngine
          /\ mutex = UI => pc[UI] = "sending"
      BY <2>1 DEF TypedPcs
    <2> QED BY <2>1, <2>2, <2>3, <2>4
            DEF TypeOK, TypedScreen, TypedPipes, UnreadInv, UIPcs, InitPcs, ReaderPcs
  <1> QED BY <1>1, Inductive, PTL

(* Once all that was sent is read, an engine that searches was started by    *)
(* the user, not stopped since, and searches the board that is shown unless *)
(* a FEN is being edited: Start, OnFenChange, MaybeMove and OnChange keep   *)
(* this between them however the commands of InitEngine come in between.    *)
THEOREM Follows == Spec => []EngineFollows
  <1>1. IInv => EngineFollows
    <2> SUFFICES ASSUME IInv, pc[UI] = "idle", toEngine = <<>>, engine.searching
                 PROVE  running /\ (edited \/ engine.position = position)
      BY DEF EngineFollows, Settled
    <2>1. sending[UI] = <<>>
      BY DEF IInv, HeldBack
    <2>2. Due = <<>> \o <<>>
      BY <2>1 DEF Due
    <2>3. Due = <<>> /\ Len(Due) = 0
      BY <2>2
    <2>4. ~Quiet(Due, engine.searching)
      BY <2>3 DEF Quiet, QuietAfter
    <2>5. AimsAt(Due, engine.position, position) => engine.position = position
      BY <2>3 DEF AimsAt
    <2> QED BY <2>4, <2>5 DEF IInv, SearchInv
  <1> QED BY <1>1, Inductive, PTL

(* No position, go, ucinewgame or setoption of the UI thread reaches an      *)
(* engine that still searches.                                              *)
THEOREM NeverDisturbed == Spec => []ToldWhenIdle
  <1>1. IInv => ToldWhenIdle
    BY DEF IInv, SearchInv, ToldWhenIdle
  <1> QED BY <1>1, Inductive, PTL

(* InitEngine reads engine_options_ only once every option is in it and the  *)
(* reader will put no more there, so that nothing the engine says later      *)
(* touches it, even if the screen is closed; what is in it is claimed for    *)
(* the time that it exists.                                                  *)
THEOREM OptionsComplete == Spec => []OptionsKnown
  <1>1. IInv => OptionsKnown
    <2> SUFFICES ASSUME IInv, Past PROVE OptionsKnown
      BY DEF OptionsKnown, Past
    <2>1. options \subseteq OptionIds \cup {Misused} /\ fromEngine \in Seq(Outputs)
      BY DEF IInv, Typed, TypedScreen, TypedPipes
    <2>2. Misused \notin options => options = OptionIds
      BY <2>1 DEF IInv, OptionsInv
    <2>3. \A i \in DOMAIN fromEngine : fromEngine[i].kind \notin OptionIds
      BY <2>1 DEF IInv, UciInv, HasKind
    <2> QED BY <2>2, <2>3 DEF OptionsKnown
  <1> QED BY <1>1, Inductive, PTL
=============================================================================
