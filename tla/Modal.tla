------------------------------- MODULE Modal -------------------------------
(***************************************************************************)
(* A view with modes (tui/src/component/modal_view.cpp, view.cpp): how the *)
(* keys typed reach its key mappings, its prompt, its modal or its main    *)
(* content.  Two threads: the one that builds the view, runs the screen's  *)
(* loop and destroys the view, and the view's own, which wakes when the    *)
(* buffer changes, sleeps for 30 ms and posts Event::Custom.               *)
(*                                                                         *)
(* The screen (FTXUI) is external: a queue of tasks that its loop runs one *)
(* at a time.  Handling an event is one step up to the end of the callback *)
(* it runs, and a second one for what the view does after that, for the    *)
(* callback may take longer than the 30 ms.  Components that take an event *)
(* do not change the view.  child_modal_view_ stays null: no view of the   *)
(* program has another as a child.                                         *)
(***************************************************************************)
EXTENDS Mapping

CONSTANTS
  Scripts,     \* what is tried: the calls that bind the keys of the view, and
               \* the numbers of keys and of news of the engine then (bounds)
  Letters,     \* keys with no meaning of their own
  Quit, Show   \* the callbacks that leave the screen and that show a modal

ASSUME LettersAssumption ==
  Letters \cap {"i", "v", ":", "esc", "mouse", "custom", "clear", "exit"} = {}

ASSUME CallbacksAssumption == {Quit, Show} \subseteq Callbacks

(* The calls of SetKeymap and DelKeymap, with the modes they name. *)
Calls ==
  [op : {"set"}, modes : SUBSET Modes, lhs : Sides, rhs : Callbacks \cup {NOP}]
  \cup [op : {"del"}, modes : SUBSET Modes, lhs : Sides]

ASSUME ScriptsAssumption ==
  \A s \in Scripts : s.calls \in Seq(Calls) /\ s.keys \in Nat /\ s.reports \in Nat

VARIABLES
  script, calls, table,                  \* the calls to come, map_table_
  ui, quit, queue, rest,                 \* the thread of the screen, its tasks,
                                         \* and what is left of one event
  mode, old_mode, buffer,
  show_modal, show_prompt,
  children, focused, focus_history,      \* children_ by name, focused_ from 0
  loop, last_buffer, loop_ready, wait_to_handle_mapping,
  orphaned,                              \* the thread waits on what cv_ was
                                         \* before it was constructed
  typed, reports,                        \* counts, for the bounds
  bound, mixed, word, due, ran, early    \* history, read by the properties only

keysVars == <<script, calls, table, bound, mixed>>
focusVars == <<children, focused, focus_history>>
modeVars == <<mode, old_mode>>
loopVars == <<last_buffer, loop_ready, wait_to_handle_mapping, orphaned>>
pastVars == <<word, due, ran, early>>
countVars == <<typed, reports>>
vars == <<keysVars, ui, quit, queue, rest, modeVars, buffer, show_modal, show_prompt,
          focusVars, loop, loopVars, countVars, pastVars>>

Keys == Letters \cup {"i", "v", ":", "esc"}
Events == Keys \cup {"mouse", "custom"}
Tasks == Events \cup {"clear", "exit"}

(* The thread of the view holds mutex_ but where it starts or waits. *)
MutexFree == loop \notin {"check", "park", "sleep", "post"}
ScreenActive == ui = "loop"

(* Tasks sent to a screen that is to leave its loop are dropped. *)
Posted(task) == IF quit THEN queue ELSE Append(queue, task)

(* View::SetActiveChild after the child took the focus. *)
PlaceOf(child, ch) == CHOOSE i \in DOMAIN ch : ch[i] = child

(* Mutant: the top of the history is not looked at. *)
TakeFocusAgain(child, ch, history) ==
  focused' = PlaceOf(child, ch) - 1 /\ focus_history' = Append(history, child)

TakeFocus(child, ch, history) ==
  /\ focused' = PlaceOf(child, ch) - 1
  /\ focus_history' = IF history # <<>> /\ Last(history) = child THEN history
                      ELSE Append(history, child)

(* View::PopAndFocusTopComponent, the children being ch. *)
PopAndFocusTop(ch) ==
  LET popped == Front(focus_history)
  IN IF popped = <<>> THEN focus_history' = popped /\ UNCHANGED focused
     ELSE TakeFocus(Last(popped), ch, popped)

Init ==
  /\ script \in Scripts /\ calls = script.calls
  /\ table = EmptyTable /\ bound = [m \in Modes |-> [l \in Sides |-> Unbound]] /\ mixed = FALSE
  /\ ui = "thread" /\ quit = FALSE /\ queue = <<>> /\ rest = ""
  /\ mode = NORMAL /\ old_mode = NORMAL /\ buffer = <<>>
  /\ show_modal = FALSE /\ show_prompt = FALSE
  /\ children = <<>> /\ focused = 0 /\ focus_history = <<>>
  /\ loop = "unborn" /\ last_buffer = <<>>
  /\ loop_ready = FALSE /\ wait_to_handle_mapping = TRUE /\ orphaned = FALSE
  /\ typed = 0 /\ reports = 0
  /\ word = <<>> /\ due = <<>> /\ ran = <<>> /\ early = FALSE

----------------------------------------------------------------------------
(* The constructor: thread_ is a member before cv_, so its thread may wait   *)
(* on cv_ before that is constructed; nothing wakes it then.                 *)
StartThread ==
  /\ ui = "thread"
  /\ ui' = "cv" /\ loop' = "start"
  /\ UNCHANGED <<keysVars, quit, queue, rest, modeVars, buffer, show_modal, show_prompt,
                 focusVars, loopVars, countVars, pastVars>>

ConstructCv ==
  /\ ui = "cv"
  /\ ui' = "await" /\ orphaned' = (loop = "waiting")
  /\ UNCHANGED <<keysVars, quit, queue, rest, modeVars, buffer, show_modal, show_prompt,
                 focusVars, loop, last_buffer, loop_ready, wait_to_handle_mapping,
                 countVars, pastVars>>

(* The end of the wait for loop_ready_, then the constructor of View. *)
Constructed ==
  /\ ui = "await" /\ MutexFree /\ loop_ready
  /\ ui' = "bind" /\ children' = <<"prompt", "main">>
  /\ TakeFocus("main", children', <<>>)
  /\ UNCHANGED <<keysVars, quit, queue, rest, modeVars, buffer, show_modal, show_prompt,
                 loop, loopVars, countVars, pastVars>>

(* A call of BindKeymaps; bound is what the calls say by themselves. *)
Bind ==
  /\ ui = "bind" /\ calls # <<>>
  /\ LET c == Head(calls)
         said == IF c.op = "set" THEN c.rhs ELSE Unbound
         block == table[MapHash(c.modes, c.lhs[1])]
     IN /\ table' = IF c.op = "set" THEN SetKeymap(table, c.modes, c.lhs, c.rhs)
                    ELSE DelKeymap(table, c.modes, c.lhs)
        /\ bound' = [m \in Modes |->
                       [bound[m] EXCEPT ![c.lhs] = IF m \in c.modes THEN said ELSE @]]
        /\ mixed' = (\/ mixed
                     \/ INTERACT \in c.modes /\ c.modes # {INTERACT}
                     \/ \E i, j \in Hits(block, c.modes, c.lhs) : i # j)
  /\ calls' = Tail(calls)
  /\ UNCHANGED <<script, ui, quit, queue, rest, modeVars, buffer, show_modal, show_prompt,
                 focusVars, loop, loopVars, countVars, pastVars>>

EnterScreen ==
  /\ ui = "bind" /\ calls = <<>>
  /\ ui' = "loop"
  /\ UNCHANGED <<keysVars, quit, queue, rest, modeVars, buffer, show_modal, show_prompt,
                 focusVars, loop, loopVars, countVars, pastVars>>

----------------------------------------------------------------------------
(* What others send to the screen: the terminal's keys, the engine's news. *)
Type(key) ==
  /\ ScreenActive /\ typed < script.keys
  /\ queue' = Posted(key) /\ typed' = typed + 1
  /\ UNCHANGED <<keysVars, ui, quit, rest, modeVars, buffer, show_modal, show_prompt,
                 focusVars, loop, loopVars, reports, pastVars>>

Report ==
  /\ ScreenActive /\ reports < script.reports
  /\ queue' = Posted("custom") /\ reports' = reports + 1
  /\ UNCHANGED <<keysVars, ui, quit, rest, modeVars, buffer, show_modal, show_prompt,
                 focusVars, loop, loopVars, typed, pastVars>>

----------------------------------------------------------------------------
(* The screen's loop takes a task. *)
Takes(task) ==
  /\ ui = "loop" /\ rest = "" /\ queue # <<>> /\ Head(queue) = task
  /\ UNCHANGED <<keysVars, ui, loopVars, countVars>>

(* The event is handled with an earlier clearing of the buffer yet to run. *)
TakesEvent(event) ==
  /\ Takes(event)
  /\ early' = (early \/ quit \/ "clear" \in Range(Tail(queue)))

RunClear ==
  /\ Takes("clear")
  /\ buffer' = <<>> /\ queue' = Tail(queue)
  /\ UNCHANGED <<quit, rest, modeVars, show_modal, show_prompt, focusVars, loop, pastVars>>

RunExit ==
  /\ Takes("exit")
  /\ quit' = TRUE /\ queue' = Tail(queue)
  /\ UNCHANGED <<rest, modeVars, buffer, show_modal, show_prompt, focusVars, loop, pastVars>>

(* View::OnEvent, the cases that end in the view itself. *)
PromptTakes(event) ==
  /\ TakesEvent(event) /\ show_prompt /\ event # "esc"
  /\ queue' = Tail(queue)
  /\ UNCHANGED <<quit, rest, modeVars, buffer, show_modal, show_prompt, focusVars, loop,
                 word, due, ran>>

PromptCloses ==
  /\ TakesEvent("esc") /\ show_prompt
  /\ show_prompt' = FALSE /\ PopAndFocusTop(children)
  /\ queue' = Tail(queue)
  /\ UNCHANGED <<quit, rest, modeVars, buffer, show_modal, children, loop, word, due, ran>>

PromptOpens ==
  /\ TakesEvent(":") /\ ~show_prompt /\ mode # INTERACT
  /\ show_prompt' = TRUE /\ TakeFocus("prompt", children, focus_history)
  /\ queue' = Tail(queue)
  /\ UNCHANGED <<quit, rest, modeVars, buffer, show_modal, children, loop, word, due, ran>>

ModalTakes(event) ==
  /\ TakesEvent(event) /\ ~show_prompt /\ ~(event = ":" /\ mode # INTERACT)
  /\ show_modal /\ event # "esc"
  /\ queue' = Tail(queue)
  /\ UNCHANGED <<quit, rest, modeVars, buffer, show_modal, show_prompt, focusVars, loop,
                 word, due, ran>>

(* HideModal: the modal is detached before the focus goes back. *)
ModalCloses ==
  /\ TakesEvent("esc") /\ ~show_prompt /\ show_modal
  /\ show_modal' = FALSE
  /\ children' = RemoveAt(children, PlaceOf("modal", children))
  /\ PopAndFocusTop(children')
  /\ queue' = Tail(queue)
  /\ UNCHANGED <<quit, rest, modeVars, buffer, show_prompt, loop, word, due, ran>>

(* ModalView::OnEvent is reached. *)
Reaches(event) ==
  /\ TakesEvent(event) /\ ~show_prompt /\ ~show_modal
  /\ ~(event = ":" /\ mode # INTERACT)

(* SwitchTo, on i and v in the normal mode. *)
SwitchMode(key, to) ==
  /\ Reaches(key) /\ mode = NORMAL
  /\ old_mode' = mode /\ mode' = to /\ buffer' = <<>> /\ word' = <<>>
  /\ queue' = Tail(queue)
  /\ UNCHANGED <<quit, rest, show_modal, show_prompt, focusVars, loop, due, ran>>

LeaveMode ==
  /\ Reaches("esc")
  /\ mode = INTERACT \/ (mode = VISUAL /\ buffer = <<>>)
  /\ old_mode' = mode /\ mode' = old_mode
  /\ word' = <<>> /\ queue' = Tail(queue)
  /\ UNCHANGED <<quit, rest, buffer, show_modal, show_prompt, focusVars, loop, due, ran>>

(* Escape forgets the keys so far; in the normal mode it is one of them first. *)
ClearKeys ==
  /\ Reaches("esc") /\ mode = VISUAL /\ buffer # <<>>
  /\ buffer' = <<>> /\ word' = <<>> /\ queue' = Tail(queue)
  /\ UNCHANGED <<quit, rest, modeVars, show_modal, show_prompt, focusVars, loop, due, ran>>

(* The mouse ends here; the rest goes to the active child, which is not null. *)
Passes(event) ==
  /\ Reaches(event) /\ mode = INTERACT /\ event # "esc"
  /\ queue' = Tail(queue)
  /\ UNCHANGED <<quit, rest, modeVars, buffer, show_modal, show_prompt, focusVars, loop,
                 word, due, ran>>

(* cv_.notify_all() *)
Notify == loop' = IF loop = "waiting" /\ ~orphaned THEN "woken" ELSE loop

(* What a callback does to the view: ShowModal does nothing with one shown. *)
Runs(callback) ==
  /\ ran' = Append(ran, callback)
  /\ queue' = IF callback = Quit /\ ~quit THEN Append(Tail(queue), "exit") ELSE Tail(queue)
  /\ IF callback = Show
     THEN /\ show_modal' = TRUE /\ children' = Append(children, "modal")
          /\ TakeFocus("modal", children', focus_history)
     ELSE UNCHANGED <<show_modal, focusVars>>

(* MaybeWriteToBuffer and MaybeApplyKeymap, in the normal and visual mode. *)
ApplyKeys(event) ==
  /\ Reaches(event) /\ mode # INTERACT
  /\ mode = NORMAL => event \notin {"i", "v"}
  /\ mode = VISUAL => event # "esc"
  /\ LET isKey == event \notin {"mouse", "custom"}
         keys == IF isKey THEN Append(buffer, event) ELSE buffer
         callback == IF keys = <<>> THEN Unbound ELSE Handle(table, mode, keys)
         so_far == IF isKey THEN Append(word, event) ELSE word
         meant == IF isKey /\ so_far \in Sides THEN bound[mode][so_far] ELSE Unbound
     IN /\ buffer' = keys
        /\ IF isKey THEN Notify ELSE UNCHANGED loop
        /\ IF callback = Unbound
           THEN UNCHANGED <<ran, show_modal, focusVars>> /\ queue' = Tail(queue)
           ELSE Runs(callback)
        /\ rest' = CASE callback # Unbound -> "post"
                     [] callback = Unbound /\ event = "esc" -> "clear"
                     [] OTHER -> ""
        /\ due' = IF meant \in Callbacks THEN Append(due, meant) ELSE due
        /\ word' = IF meant \in Callbacks \/ event = "esc" THEN <<>> ELSE so_far
  /\ UNCHANGED <<quit, modeVars, show_prompt>>

(* Mutant: the buffer is not cleared after a callback. *)
PostNothing ==
  /\ ui = "loop" /\ rest = "post" /\ rest' = ""
  /\ UNCHANGED <<keysVars, ui, quit, queue, modeVars, buffer, show_modal, show_prompt,
                 focusVars, loop, loopVars, countVars, pastVars>>

(* The end of the event: the buffer is cleared by a task, or at once. *)
PostClear ==
  /\ ui = "loop" /\ rest = "post"
  /\ queue' = Posted("clear") /\ rest' = ""
  /\ UNCHANGED <<keysVars, ui, quit, modeVars, buffer, show_modal, show_prompt, focusVars,
                 loop, loopVars, countVars, pastVars>>

ClearNow ==
  /\ ui = "loop" /\ rest = "clear"
  /\ buffer' = <<>> /\ rest' = ""
  /\ UNCHANGED <<keysVars, ui, quit, queue, modeVars, show_modal, show_prompt, focusVars,
                 loop, loopVars, countVars, pastVars>>

(* The screen's loop ends once it saw the exit; more tasks may run before. *)
LeaveScreen ==
  /\ ui = "loop" /\ rest = "" /\ quit
  /\ ui' = "closing" /\ queue' = <<>>
  /\ UNCHANGED <<keysVars, quit, rest, modeVars, buffer, show_modal, show_prompt, focusVars,
                 loop, loopVars, countVars, pastVars>>

----------------------------------------------------------------------------
(* Mutant: the flag is set without the mutex. *)
ClosingUnlocked ==
  /\ ui = "closing"
  /\ wait_to_handle_mapping' = FALSE /\ ui' = "notify"
  /\ UNCHANGED <<keysVars, quit, queue, rest, modeVars, buffer, show_modal, show_prompt,
                 focusVars, loop, last_buffer, loop_ready, orphaned, countVars, pastVars>>

(* The destructor: the flag under mutex_, the notification after it, the join. *)
Closing ==
  /\ ui = "closing" /\ MutexFree
  /\ wait_to_handle_mapping' = FALSE /\ ui' = "notify"
  /\ UNCHANGED <<keysVars, quit, queue, rest, modeVars, buffer, show_modal, show_prompt,
                 focusVars, loop, last_buffer, loop_ready, orphaned, countVars, pastVars>>

NotifyLoop ==
  /\ ui = "notify"
  /\ Notify /\ ui' = "join"
  /\ UNCHANGED <<keysVars, quit, queue, rest, modeVars, buffer, show_modal, show_prompt,
                 focusVars, loopVars, countVars, pastVars>>

Join ==
  /\ ui = "join" /\ loop = "gone"
  /\ ui' = "closed"
  /\ UNCHANGED <<keysVars, quit, queue, rest, modeVars, buffer, show_modal, show_prompt,
                 focusVars, loop, loopVars, countVars, pastVars>>

----------------------------------------------------------------------------
(* ModalView::Loop. *)
uiVars == <<keysVars, ui, quit, rest, modeVars, buffer, show_modal, show_prompt, focusVars,
            wait_to_handle_mapping, orphaned, countVars, pastVars>>

LoopStarts ==
  /\ loop = "start"
  /\ loop' = "enter" /\ loop_ready' = TRUE
  /\ UNCHANGED <<uiVars, queue, last_buffer>>

LoopEnters ==
  /\ loop = "enter"
  /\ loop' = "check" /\ last_buffer' = buffer
  /\ UNCHANGED <<uiVars, queue, loop_ready>>

(* The predicate of the wait: the flag ends the loop, a new buffer the wait. *)
LoopChecks ==
  /\ loop = "check"
  /\ loop' = CASE ~wait_to_handle_mapping -> "gone"
               [] wait_to_handle_mapping /\ buffer # <<>> /\ buffer # last_buffer -> "sleep"
               [] OTHER -> "park"
  /\ UNCHANGED <<uiVars, queue, last_buffer, loop_ready>>

(* From the predicate to the wait, which releases mutex_. *)
LoopParks ==
  /\ loop = "park"
  /\ loop' = "waiting"
  /\ UNCHANGED <<uiVars, queue, last_buffer, loop_ready>>

LoopWakes ==
  /\ loop = "woken"
  /\ loop' = "check"
  /\ UNCHANGED <<uiVars, queue, last_buffer, loop_ready>>

(* sleep_for(30ms) ends: the buffer is read again, without a lock. *)
LoopSlept ==
  /\ loop = "sleep"
  /\ loop' = "post" /\ last_buffer' = buffer
  /\ UNCHANGED <<uiVars, queue, loop_ready>>

LoopPosts ==
  /\ loop = "post"
  /\ loop' = "check"
  /\ queue' = IF ScreenActive THEN Posted("custom") ELSE queue
  /\ UNCHANGED <<uiVars, last_buffer, loop_ready>>

----------------------------------------------------------------------------
Construct == StartThread \/ ConstructCv \/ Constructed \/ Bind \/ EnterScreen
RunTask ==
  \/ RunClear \/ RunExit \/ PromptCloses \/ PromptOpens \/ ModalCloses
  \/ SwitchMode("i", INTERACT) \/ SwitchMode("v", VISUAL) \/ LeaveMode \/ ClearKeys
  \/ \E e \in Events : PromptTakes(e) \/ ModalTakes(e) \/ Passes(e) \/ ApplyKeys(e)
Finish == PostClear \/ ClearNow
Destroy == Closing \/ NotifyLoop \/ Join
Loop == LoopStarts \/ LoopEnters \/ LoopChecks \/ LoopParks \/ LoopWakes \/ LoopSlept \/ LoopPosts
Outside == Report \/ \E key \in Keys \cup {"mouse"} : Type(key)

Next == Construct \/ RunTask \/ Finish \/ LeaveScreen \/ Destroy \/ Loop \/ Outside

(* Both threads are scheduled; nobody has to type, and a loop that is to end *)
(* ends once it has run what it has.                                         *)
Spec == Init /\ [][Next]_vars
FairSpec == Spec /\ WF_vars(Construct) /\ WF_vars(RunTask) /\ WF_vars(Finish)
                 /\ WF_vars(LeaveScreen) /\ WF_vars(Destroy) /\ WF_vars(Loop)

----------------------------------------------------------------------------
KeysTyped ==
  /\ script.keys \in Nat /\ script.reports \in Nat /\ calls \in Seq(Calls)
  /\ table \in [Blocks -> Seq(Entries)]
  /\ bound \in [Modes -> [Sides -> Callbacks \cup {NOP, Unbound}]]
  /\ mixed \in BOOLEAN

ViewTyped ==
  /\ ui \in {"thread", "cv", "await", "bind", "loop", "closing", "notify", "join", "closed"}
  /\ queue \in Seq(Tasks) /\ rest \in {"", "post", "clear"}
  /\ mode \in Modes /\ old_mode \in Modes
  /\ buffer \in Seq(Keys) /\ last_buffer \in Seq(Keys) /\ word \in Seq(Keys)
  /\ {quit, show_modal, show_prompt, loop_ready, wait_to_handle_mapping, orphaned,
      early} \subseteq BOOLEAN
  /\ loop \in {"unborn", "start", "enter", "check", "park", "waiting", "woken", "sleep",
               "post", "gone"}
  /\ typed \in 0 .. script.keys /\ reports \in 0 .. script.reports
  /\ ran \in Seq(Callbacks) /\ due \in Seq(Callbacks)

FocusRight ==
  ui \notin {"thread", "cv", "await"} =>
    /\ LET below == IF show_modal THEN Append(<<"main">>, "modal") ELSE <<"main">>
       IN focus_history = IF show_prompt THEN Append(below, "prompt") ELSE below
    /\ focused + 1 \in DOMAIN children
    /\ children[focused + 1] = Last(focus_history)

(* What each variable holds; and the focus, which the view moves itself: it   *)
(* is with the prompt if that is shown, else with the modal if there is one,  *)
(* else with the main content, focus_history_ holds those below in this order,*)
(* and ActiveChild(), which OnEvent follows without a look, is the one on top *)
(* (View::SetActiveChild, HideModal, PopAndFocusTopComponent).                *)
TypeOK == KeysTyped /\ ViewTyped /\ FocusRight

(* A key sequence in a mode runs what the last call for it said, and is listed *)
(* once among the mode's mappings - so long as no call met two entries of its  *)
(* sequence at once and none joined INTERACT with a mode of the other half of  *)
(* the table: SetKeymap returns at the first entry it replaces, DelKeymap at   *)
(* the first it reduces, and MAP_HASH has one block for all modes of a call.   *)
LastCallWins ==
  ~mixed =>
    \A m \in Modes, l \in Sides :
      LET listed == {p \in GetKeymaps(table, m) : table[p[1]][p[2]].lhs = l}
      IN /\ Handle(table, m, l) = IF bound[m][l] = NOP THEN Unbound ELSE bound[m][l]
         /\ IF bound[m][l] = Unbound THEN listed = {} ELSE \E p \in listed : listed = {p}

(* Every completed key sequence runs its callback once, and nothing else runs: *)
(* neither the news of the engine nor the view's own Event::Custom runs it     *)
(* again - unless an event is handled between the callback and the task that   *)
(* clears the buffer (MaybeApplyKeymap).                                       *)
ActsOnce == ~mixed /\ ~early => ran = due

(* Once its Quit ran, the screen ends and the view is destroyed, its thread    *)
(* joined, however the destructor meets the thread's wait - unless that waits  *)
(* on cv_ since before cv_ was constructed.                                    *)
QuitEnds == (Quit \in Range(ran) /\ ~orphaned) ~> (ui = "closed")
=============================================================================
