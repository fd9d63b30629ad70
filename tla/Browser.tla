------------------------------- MODULE Browser -------------------------------
(***************************************************************************)
(* One WebDriver session and the tasks that have it: the methods of        *)
(* SessionHandle that work with windows and frames (session/handle.rs,     *)
(* switch_to.rs), the action chains (ActionChain.tla), SelectElement       *)
(* (SelectElement.tla) and the settings of BiDi (BidiSettings.tla).  Every *)
(* method is one or more HTTP commands; the session's current window and frame, and  *)
(* the keys and buttons it holds, are kept by the remote end and shared by *)
(* every task that has the session.                                        *)
(*                                                                         *)
(* The remote end executes one command at a time.  A command that fails    *)
(* ends its method with `?', and a method's future may be dropped between  *)
(* two commands; both leave the session where the last command put it.     *)
(***************************************************************************)
EXTENDS ActionChain, BidiSettings, SelectElement, FiniteSets

CONSTANTS
    Tasks,          \* tasks that call methods of several commands, or build chains
    Windows,        \* window handles the remote end may hand out
    Home,           \* the first window
    Names,          \* values of window.name
    NoName,         \* the name of a window nobody named
    Source, Target, \* the elements of a chain
    Chars,          \* the keys of a chain
    MaxDocs,        \* bound: documents loaded in one window
    MaxFaults,      \* bound: commands that fail though the remote end could execute them
    MaxOthers,      \* bound: commands of further tasks on the same session
    MaxCalls,       \* bound: methods called on one chain, settings made
    Users,          \* user contexts that may be created
    Lists,          \* the options of the <select> there may be in the first document
    Picks,          \* the calls of SelectElement's methods that are made
    Default,        \* the user context there always is
    NoWindow        \* no window

ASSUME BrowserAssumption ==
    /\ Home \in Windows /\ NoWindow \notin Windows
    /\ NoName \notin Names
    /\ Default \notin Users
    /\ {MaxDocs, MaxFaults, MaxOthers, MaxCalls} \subseteq Nat
    /\ IsFiniteSet(Windows)
ASSUME ListsAssumption ==
    Lists # {} /\ \A d \in Lists : Len(d) \in Nat \ {0} /\ DOMAIN d = 1..Len(d)
ASSUME PicksAssumption ==
    \A c \in Picks : /\ c.how \in {"all", "value", "index", "visible", "exact", "partial", "xpath", "all_selected", "first_selected"}
                     /\ c.select \in BOOLEAN /\ c.index \in Nat
ASSUME ScopesAssumption == Windows \cap Users = {} /\ Everyone \notin Windows \cup Users

VARIABLES
    windows,    \* open windows
    current,    \* the session's current window, which may have been closed
    frame,      \* the current browsing context: its "top", a "child" frame, or one that is "gone"
    doc,        \* window -> how many documents were loaded in it before this one
    name,       \* window -> window.name
    users,      \* the user contexts that exist, the default one aside, and those that did
    partition,  \* window -> its user context
    setting,    \* which setting a "bidi" task works with
    settings,   \* scope -> what it is set to there
    calls,      \* history: the calls that made it so
    menu,       \* the <select>: [dom, multiple, selected]
    picks,      \* task -> its SelectElement method: the call, the options it has still to
                \* look at, in the order of the document, whether it fell back, matched any, and read which; how it
                \* ended; and the selection when it began
    held,       \* keys and buttons that are down
    faults,     \* commands that failed for reasons outside the session
    others,     \* commands of further tasks so far
    role,       \* task -> whether it works with "windows", "select"s, builds chains ("input"), or uses "bidi"
    pc,         \* task -> the next command of its method
    saved,      \* task -> the handle its method will go back to
    tab,        \* task -> the tab in_new_tab opened
    want,       \* task -> the name switch_to_named_window looks for
    left,       \* task -> the handles it has still to look at
    chain,      \* task -> its ActionChain
    script,     \* task -> the methods it called on it
    found,      \* task -> the browsing context it found its elements in
    answer,     \* task -> what perform() returned, and what had been done by then
    before,     \* history: task -> the open windows when the method began
    alone       \* history: task -> no other window or frame command came in between

remote == <<windows, current, frame, doc, name>>
bidi == <<users, partition, setting, settings, calls>>
selects == <<menu, picks>>
local == <<pc, saved, tab, want, left>>
input == <<held, chain, script, found, answer>>
rest == <<faults, others, role, selects, input, bidi>>
stateVars == <<remote, local, rest, before, alone>>

-----------------------------------------------------------------------------
(***************************************************************************)
(* Commands, as the remote end executes them.                              *)
(***************************************************************************)
HasWindow == current \in windows
Live == HasWindow /\ frame # "gone"

\* SwitchToWindow: the session goes to the top level context of that window.
SwitchTo(w) == /\ w \in windows
               /\ current' = w /\ frame' = "top"

\* NewTab, NewWindow: opened, not switched to.
Opens(w) == /\ HasWindow
            /\ w \in Windows \ windows /\ doc[w] = 0
            /\ windows' = windows \cup {w}
            /\ name' = [name EXCEPT ![w] = NoName]

\* CloseWindow: the session stays with the window it closed.
Closes == /\ HasWindow
          /\ windows' = windows \ {current}
          /\ doc' = [doc EXCEPT ![current] = @ + 1]

\* NavigateTo: another document, at its top level.
Loads == /\ HasWindow
         /\ doc[current] < MaxDocs
         /\ doc' = [doc EXCEPT ![current] = @ + 1]
         /\ frame' = "top"

\* Back, Forward, Refresh: a document that was there before is loaded again,
\* but the elements that were found in it are gone all the same.
Revisits == doc[current] > 0 /\ Loads

\* SwitchToFrameNumber, SwitchToFrameElement; SwitchToFrameDefault, SwitchToParentFrame.
EntersFrame == HasWindow /\ frame = "top" /\ frame' = "child"
LeavesFrame == HasWindow /\ frame # "top" /\ frame' = "top"

\* window.name = ..., a script in the current context: in a frame, the frame's.
IsNamed == /\ HasWindow /\ frame = "top"
           /\ \E n \in Names : name[current] # n /\ name' = [name EXCEPT ![current] = n]

-----------------------------------------------------------------------------
(***************************************************************************)
(* Methods of one command: switch_to_window, new_tab, new_window,          *)
(* close_window, goto, back, forward, refresh, set_window_name,            *)
(* enter_frame, enter_parent_frame, enter_default_frame.  The function     *)
(* given to in_new_tab calls them too.                                     *)
(***************************************************************************)
Step(t, from, to) == pc[t] = from /\ pc' = [pc EXCEPT ![t] = to]

\* The method returns, and its variables go.
End(t) == /\ pc' = [pc EXCEPT ![t] = "idle"]
          /\ saved' = [saved EXCEPT ![t] = NoWindow]
          /\ tab' = [tab EXCEPT ![t] = NoWindow]
          /\ want' = [want EXCEPT ![t] = NoName]
          /\ left' = [left EXCEPT ![t] = {}]
          /\ before' = [before EXCEPT ![t] = {}]

\* History: a command on windows or frames disturbs every other task's method.
Disturb(t, b) == alone' = [s \in Tasks |-> IF s = t THEN alone[s] /\ ~b ELSE FALSE]

WindowCommand ==
    \/ \E w \in windows : SwitchTo(w) /\ UNCHANGED <<windows, doc, name>>
    \/ \E w \in Windows : Opens(w) /\ UNCHANGED <<current, frame, doc>>
    \/ Closes /\ windows # {current} /\ UNCHANGED <<current, frame, name>>
    \/ (Loads \/ Revisits) /\ UNCHANGED <<windows, current, name>>
    \/ (EntersFrame \/ LeavesFrame) /\ UNCHANGED <<windows, current, doc, name>>
    \/ IsNamed /\ UNCHANGED <<windows, current, frame, doc>>

\* The <select> is in the first document; of a single-select one option is selected.
Shown == /\ Live /\ <<current, doc[current], frame>> = <<Home, 0, "top">>
         /\ \E t \in Tasks : role[t] = "select"

Clicks(k) == menu' = [menu EXCEPT !.selected = IF ~menu.multiple THEN {k}
                                               ELSE IF k \in @ THEN @ \ {k} ELSE @ \cup {k}]

\* A task between its other methods, or the function it gave to in_new_tab().
Navigate(t) == /\ role[t] = "windows" /\ pc[t] \in {"idle", "body"}
               /\ WindowCommand
               /\ Disturb(t, <<windows, current>> # <<windows, current>>')
               /\ UNCHANGED <<rest, local, before>>

-----------------------------------------------------------------------------
(***************************************************************************)
(* The same browser over BiDi: a window handle is the id of a top-level    *)
(* browsing context, and every command names the context it is for.        *)
(***************************************************************************)

\* browsingContext.create, in a user context or that of another context.
ContextCreate(w, u) == /\ w \in Windows \ windows /\ doc[w] = 0
                       /\ windows' = windows \cup {w}
                       /\ name' = [name EXCEPT ![w] = NoName]
                       /\ partition' = [partition EXCEPT ![w] = u]
                       /\ UNCHANGED <<current, frame, doc, users>>

\* browsingContext.close; a browser without a window would be gone.
ContextsClose(ws) == /\ windows \ ws # {}
                     /\ windows' = windows \ ws
                     /\ doc' = [w \in Windows |-> IF w \in windows \cap ws THEN doc[w] + 1 ELSE doc[w]]
                     /\ UNCHANGED <<current, frame, name, partition>>

\* browsingContext.navigate, reload, traverseHistory: a frame that the session
\* is in goes with the document it was in.
ContextLoads(w) == /\ w \in windows /\ doc[w] < MaxDocs
                   /\ doc' = [doc EXCEPT ![w] = @ + 1]
                   /\ frame' = IF w = current /\ frame = "child" THEN "gone" ELSE frame
                   /\ UNCHANGED <<windows, current, name, users, partition>>

Existing == {u \in Users : users[u] = "exists"}

\* browser.createUserContext, removeUserContext: its contexts are closed with it.
UserContext(u) ==
    \/ users[u] = "new" /\ users' = [users EXCEPT ![u] = "exists"] /\ UNCHANGED <<remote, partition>>
    \/ u \in Existing /\ users' = [users EXCEPT ![u] = "removed"]
       /\ ContextsClose({w \in Windows : partition[w] = u})

ContextCommand ==
    \/ \E w \in Windows, u \in Existing \cup {Default} : ContextCreate(w, u)
    \/ \E w \in windows : ContextsClose({w}) /\ UNCHANGED users
    \/ \E u \in Users : UserContext(u)

Context(t) == /\ role[t] = "bidi"
              /\ ContextCommand
              /\ Disturb(t, TRUE)
              /\ UNCHANGED <<faults, others, role, selects, input, setting, settings, calls, local, before>>

\* A command that is refused changes nothing.
Settle(t) ==
    /\ role[t] = "bidi" /\ Len(calls) < MaxCalls
    /\ \E v \in Values \cup {Unset}, c \in {{}} \cup {{w} : w \in windows}, u \in {{}} \cup {{x} : x \in Existing} :
         LET cmd == IF c \cup u = {} THEN Everywhere(setting, v) ELSE Request(setting, v, c, u)
         IN /\ Asks(setting, v, c, u) /\ Accepted(setting, cmd)
            /\ settings' = Stored(settings, cmd)
            /\ calls' = Append(calls, [value |-> Meant(setting, v), contexts |-> c, users |-> u])
    /\ UNCHANGED <<remote, local, faults, others, role, selects, input, users, partition, setting, before, alone>>

\* Any other task that has the session, or the browser.
Other == /\ others < MaxOthers
         /\ others' = others + 1
         /\ \/ /\ \/ WindowCommand /\ UNCHANGED <<users, partition>>
                  \/ ContextCommand
                  \/ \E w \in Windows : ContextLoads(w)
               /\ UNCHANGED menu
            \/ /\ Shown /\ \E k \in DOMAIN menu.dom : Clicks(k)
               /\ UNCHANGED <<remote, users, partition>>
         /\ alone' = [t \in Tasks |-> FALSE]
         /\ UNCHANGED <<faults, role, picks, local, input, setting, settings, calls, before>>

-----------------------------------------------------------------------------
(***************************************************************************)
(* in_new_tab.                                                             *)
(***************************************************************************)

\* let handle = self.window().await?
TabBegin(t) == /\ role[t] = "windows" /\ Step(t, "idle", "open")
               /\ HasWindow
               /\ saved' = [saved EXCEPT ![t] = current]
               /\ before' = [before EXCEPT ![t] = windows]
               /\ alone' = [alone EXCEPT ![t] = TRUE]
               /\ UNCHANGED <<remote, rest, tab, want, left>>

\* self.new_tab().await?
TabOpen(t) == /\ Step(t, "open", "enter")
              /\ \E w \in Windows : Opens(w) /\ tab' = [tab EXCEPT ![t] = w]
              /\ Disturb(t, FALSE)
              /\ UNCHANGED <<current, frame, doc, rest, saved, want, left, before>>

\* self.switch_to_window(tab_handle).await?
TabEnter(t) == /\ Step(t, "enter", "body")
               /\ SwitchTo(tab[t])
               /\ Disturb(t, FALSE)
               /\ UNCHANGED <<windows, doc, name, rest, saved, tab, want, left, before>>

\* let result = f().await: whatever the result, the tab is closed next.
TabBody(t) == /\ Step(t, "body", "close")
              /\ UNCHANGED <<remote, rest, saved, tab, want, left, before, alone>>

\* Mutant: the session goes back before it closes "the" window.
TabCloseLate(t) == /\ Step(t, "close", "back")
                   /\ saved[t] \in windows
                   /\ windows' = windows \ {saved[t]}
                   /\ doc' = [doc EXCEPT ![saved[t]] = @ + 1]
                   /\ Disturb(t, FALSE)
                   /\ UNCHANGED <<current, frame, name, rest, saved, tab, want, left, before>>

\* self.close_window().await?: the window that is current by then.
TabClose(t) == /\ Step(t, "close", "back")
               /\ Closes
               /\ Disturb(t, FALSE)
               /\ UNCHANGED <<current, frame, name, rest, saved, tab, want, left, before>>

\* self.switch_to_window(handle).await?
TabBack(t) == /\ pc[t] = "back" /\ End(t)
              /\ SwitchTo(saved[t])
              /\ Disturb(t, TRUE)
              /\ UNCHANGED <<windows, doc, name, rest>>

-----------------------------------------------------------------------------
(***************************************************************************)
(* switch_to_named_window.                                                 *)
(***************************************************************************)

\* The handle of the current window, to go back to.
NamedBegin(t) == /\ role[t] = "windows" /\ Step(t, "idle", "list")
                 /\ HasWindow
                 /\ \E n \in Names : want' = [want EXCEPT ![t] = n]
                 /\ saved' = [saved EXCEPT ![t] = current]
                 /\ before' = [before EXCEPT ![t] = windows]
                 /\ alone' = [alone EXCEPT ![t] = TRUE]
                 /\ UNCHANGED <<remote, rest, tab, left>>

NamedList(t) == /\ Step(t, "list", "visit")
                /\ left' = [left EXCEPT ![t] = windows]
                /\ UNCHANGED <<remote, rest, saved, tab, want, before, alone>>

\* The next handle is switched to, before its name is known.
NamedVisit(t) == /\ Step(t, "visit", "ask")
                 /\ \E w \in left[t] : SwitchTo(w) /\ left' = [left EXCEPT ![t] = @ \ {w}]
                 /\ Disturb(t, FALSE)
                 /\ UNCHANGED <<windows, doc, name, rest, saved, tab, want, before>>

\* return window.name
NamedAsk(t) == /\ pc[t] = "ask" /\ Live
               /\ \/ name[current] = want[t] /\ End(t)
                  \/ name[current] # want[t] /\ Step(t, "ask", "visit")
                     /\ UNCHANGED <<saved, tab, want, left, before>>
               /\ alone' = [alone EXCEPT ![t] = @ /\ pc'[t] # "idle"]
               /\ UNCHANGED <<remote, rest>>

\* No window has the name: back to the first one, and NoSuchWindow.
NamedBack(t) == /\ pc[t] = "visit" /\ left[t] = {} /\ End(t)
                /\ SwitchTo(saved[t])
                /\ Disturb(t, TRUE)
                /\ UNCHANGED <<windows, doc, name, rest>>

-----------------------------------------------------------------------------
(***************************************************************************)
(* Action chains.                                                          *)
(***************************************************************************)
Here == <<current, doc[current], frame>>

\* The calls a task may make on its chain, one for each method.
Methods == {<<m>> : m \in {"click", "click_and_hold", "context_click", "double_click", "move_to",
                           "move_by_offset", "release", "drag_and_drop_by_offset"}}
      \cup {<<m, Source>> : m \in {"click_element", "click_and_hold_element", "context_click_element",
                                   "double_click_element", "release_on_element", "move_to_element_center",
                                   "move_to_element_with_offset", "drag_and_drop_element_by_offset"}}
      \cup {<<"drag_and_drop_element", Source, Target>>}
      \cup {<<m, k>> : m \in {"key_down", "key_up"}, k \in Chars}
      \cup {<<m, Source, k>> : m \in {"key_down_on_element", "key_up_on_element"}, k \in Chars}
      \cup {<<"send_keys", <<k, l>>>> : k \in Chars, l \in Chars}
      \cup {<<"send_keys_to_element", Source, <<k>>>> : k \in Chars}

Silent == [result |-> "none", done |-> <<>>]

\* The elements are found, and the chain is begun.
ChainBegin(t) == /\ role[t] = "input" /\ Step(t, "idle", "chain")
                 /\ Live
                 /\ found' = [found EXCEPT ![t] = Here]
                 /\ UNCHANGED <<remote, faults, others, role, selects, bidi, held, chain, script, answer,
                                saved, tab, want, left, before, alone>>

ChainCall(t) == /\ pc[t] = "chain" /\ Len(script[t]) < MaxCalls
                /\ \E m \in Methods : /\ chain' = [chain EXCEPT ![t] = Call(@, m)]
                                      /\ script' = [script EXCEPT ![t] = Append(@, m)]
                /\ UNCHANGED <<remote, faults, others, role, selects, bidi, held, found, answer, local, before, alone>>

\* What is held after some actions: each key and button as the last of them
\* for it left it.
Holding(h, done) ==
    LET last(x) == SelectLastInSeq(done, LAMBDA a : a[1] \in {"down", "up", "keyDown", "keyUp"} /\ a[2] = x)
    IN  {x \in Chars \cup {"left", "right"} : IF last(x) = 0 THEN x \in h ELSE done[last(x)][1] \in {"down", "keyDown"}}

\* perform(): one command.  It ends at the first move to an element that is not
\* in the current context, or in a document that has gone; what was done by then
\* stays done.
Perform(t) ==
    /\ pc[t] \in {"chain", "performed"} /\ script[t] # <<>>
    /\ LET all == Performed(chain[t])
           lost == IF ~Live THEN 1
                   ELSE SelectInSeq(all, LAMBDA a : /\ a[1] = "move" /\ a[2] \in {Source, Target}
                                                    /\ found[t] # Here)
           done == IF lost = 0 THEN all ELSE SubSeq(all, 1, lost - 1)
       IN /\ answer' = [answer EXCEPT ![t] = [result |-> IF lost = 0 THEN "ok" ELSE "error", done |-> done]]
          /\ held' = Holding(held, done)
    /\ pc' = [pc EXCEPT ![t] = "performed"]
    /\ UNCHANGED <<remote, faults, others, role, selects, bidi, chain, script, found, saved, tab, want, left, before, alone>>

\* reset_actions()
Reset(t) == /\ pc[t] \in {"chain", "performed"} /\ Live /\ held # {}
            /\ held' = {}
            /\ UNCHANGED <<remote, local, faults, others, role, selects, bidi, chain, script, found, answer, before, alone>>

\* The chain is dropped.
ChainEnd(t) == /\ pc[t] \in {"chain", "performed"} /\ End(t)
               /\ chain' = [chain EXCEPT ![t] = New]
               /\ script' = [script EXCEPT ![t] = <<>>]
               /\ found' = [found EXCEPT ![t] = <<>>]
               /\ answer' = [answer EXCEPT ![t] = Silent]
               /\ UNCHANGED <<remote, faults, others, role, selects, bidi, held, alone>>

-----------------------------------------------------------------------------
\* A method of a SelectElement that has not looked for any option, and none.
Called(call, selected) == [call |-> call, todo |-> {}, fallback |-> FALSE, matched |-> FALSE, got |-> {}, result |-> "none",
                           before |-> selected]
NoPick == Called([how |-> "none", value |-> "", index |-> 0, text |-> <<>>,
                  condition |-> {}, select |-> FALSE], {})

(***************************************************************************)
(* SelectElement.  Each method looks for options, asks of one after the    *)
(* other whether it is selected, and clicks it when that is not what it    *)
(* should be.                                                              *)
(***************************************************************************)

PickBegin(t) == /\ role[t] = "select" /\ Step(t, "idle", "options")
                /\ Shown
                /\ \E c \in Picks : /\ ~Panics(menu.multiple, c)
                                    /\ picks' = [picks EXCEPT ![t] = Called(c, menu.selected)]
                /\ alone' = [alone EXCEPT ![t] = TRUE]
                /\ UNCHANGED <<remote, faults, others, role, menu, bidi, input, saved, tab, want, left, before>>

\* History: a click disturbs every other task's SelectElement.
Goes(t, from, to, pick) == /\ Step(t, from, to)
                           /\ picks' = [picks EXCEPT ![t] = pick]
                           /\ alone' = [s \in Tasks |-> alone[s] /\ (s = t \/ from # "click" \/ role[s] # "select")]
                           /\ UNCHANGED <<remote, faults, others, role, bidi, input, saved, tab, want, left, before>>

Ended(pick) == [pick EXCEPT !.todo = {}, !.result = IF pick.matched \/ ~Required(pick.call) THEN "ok" ELSE "missing"]

\* find(), find_all(): options() finds them for "all".
PickFind(t) ==
    LET p == picks[t]
        todo == Found(menu.dom, p.call)
    IN  /\ pc[t] = "options" /\ Shown /\ ~Invalid(p.call)
        /\ \/ todo # {} /\ Goes(t, "options", "look", [p EXCEPT !.todo = todo])
           \/ todo = {} /\ FallsBack(p.call) /\ Goes(t, "options", "candidates", p)
           \/ todo = {} /\ ~FallsBack(p.call) /\ Goes(t, "options", "picked", Ended(p))
        /\ UNCHANGED menu

PickCandidates(t) ==
    LET p == picks[t]
        todo == Candidates(menu.dom, p.call)
    IN  /\ pc[t] = "candidates" /\ Shown
        /\ IF todo = {} THEN Goes(t, "candidates", "picked", Ended(p))
                          ELSE Goes(t, "candidates", "shows", [p EXCEPT !.todo = todo, !.fallback = TRUE])
        /\ UNCHANGED menu

\* On to the next option, unless this one will do.
Advance(t, from, hit) ==
    LET p == [picks[t] EXCEPT !.todo = @ \ {Topmost(@)}, !.matched = @ \/ hit,
                              !.got = IF hit THEN @ \cup {Topmost(picks[t].todo)} ELSE @]
    IN  IF p.todo = {} \/ (hit /\ StopsAtFirst(menu.multiple, p.call))
        THEN Goes(t, from, "picked", Ended(p))
        ELSE Goes(t, from, IF p.fallback THEN "shows" ELSE "look", p)

\* if text == candidate.text().await?
PickShows(t) ==
    /\ pc[t] = "shows" /\ Shown
    /\ IF menu.dom[Topmost(picks[t].todo)].shown = picks[t].call.text THEN Goes(t, "shows", "look", picks[t])
       ELSE Advance(t, "shows", FALSE)
    /\ UNCHANGED menu

\* is_selected()
PickLook(t) ==
    LET p == picks[t]
        selected == Topmost(p.todo) \in menu.selected
    IN  /\ pc[t] = "look" /\ Shown
        /\ IF Reads(p.call) THEN Advance(t, "look", selected)
           ELSE IF selected = p.call.select THEN Advance(t, "look", TRUE)
           ELSE Goes(t, "look", "click", p)
        /\ UNCHANGED menu

PickClick(t) == /\ pc[t] = "click" /\ Shown
                /\ Clicks(Topmost(picks[t].todo))
                /\ Advance(t, "click", TRUE)

\* The method returns; or a command of it fails, the <select> being gone or for
\* another reason, and what it did by then stays done.
PickEnd(t) == /\ role[t] = "select" /\ pc[t] # "idle" /\ End(t)
              /\ \/ pc[t] = "picked" /\ UNCHANGED faults
                 \/ pc[t] # "picked" /\ (~Shown \/ (pc[t] = "options" /\ Invalid(picks[t].call))) /\ UNCHANGED faults
                 \/ pc[t] # "picked" /\ faults < MaxFaults /\ faults' = faults + 1
              /\ picks' = [picks EXCEPT ![t] = NoPick]
              /\ alone' = [alone EXCEPT ![t] = FALSE]
              /\ UNCHANGED <<remote, others, role, menu, bidi, input>>

-----------------------------------------------------------------------------
\* The command that the method has come to cannot be executed: no such window.
Impossible(t) ==
    CASE pc[t] \in {"open", "close"} -> ~HasWindow
      [] pc[t] = "ask" -> ~Live
      [] pc[t] = "enter" -> tab[t] \notin windows
      [] pc[t] = "back"  -> saved[t] \notin windows
      [] pc[t] = "visit" -> IF left[t] = {} THEN saved[t] \notin windows
                            ELSE left[t] \cap windows # left[t]
      [] OTHER -> FALSE

\* `?': the method ends where it is.
Fail(t) == /\ Impossible(t)
           /\ End(t)
           /\ alone' = [alone EXCEPT ![t] = FALSE]
           /\ UNCHANGED <<remote, rest>>

\* A command fails for another reason (an open alert, the network), or the
\* caller drops the method's future.
Abandon(t) == /\ role[t] = "windows" /\ pc[t] # "idle"
              /\ faults < MaxFaults
              /\ faults' = faults + 1
              /\ End(t)
              /\ alone' = [alone EXCEPT ![t] = FALSE]
              /\ UNCHANGED <<remote, others, role, selects, input, bidi>>

\* A <select>, before anything is done with it.
MultiMenus == UNION {{[dom |-> d, multiple |-> TRUE, selected |-> s] : s \in SUBSET DOMAIN d} : d \in Lists}
SingleMenus == {[dom |-> d, multiple |-> FALSE, selected |-> {1}] : d \in Lists}
Menus == MultiMenus \cup SingleMenus

BrowserInit == /\ windows = {Home} /\ current = Home /\ frame = "top"
               /\ doc = [w \in Windows |-> 0]
               /\ name = [w \in Windows |-> NoName]
               /\ role \in [Tasks -> {"windows", "select", "input", "bidi"}]
               /\ menu \in IF \E t \in Tasks : role[t] = "select" THEN Menus ELSE {CHOOSE m \in Menus : TRUE}
               /\ picks = [t \in Tasks |-> NoPick]
               /\ held = {}
               /\ faults = 0 /\ others = 0
               /\ users = [u \in Users |-> "new"]
               /\ partition = [w \in Windows |-> Default]
               /\ setting \in IF \E t \in Tasks : role[t] = "bidi" THEN Settings ELSE {"locale"}
               /\ settings = [s \in Windows \cup Users \cup {Everyone} |-> Unset]
               /\ calls = <<>>
               /\ pc = [t \in Tasks |-> "idle"]
               /\ saved = [t \in Tasks |-> NoWindow]
               /\ tab = [t \in Tasks |-> NoWindow]
               /\ want = [t \in Tasks |-> NoName]
               /\ left = [t \in Tasks |-> {}]
               /\ chain = [t \in Tasks |-> New]
               /\ script = [t \in Tasks |-> <<>>]
               /\ found = [t \in Tasks |-> <<>>]
               /\ answer = [t \in Tasks |-> Silent]
               /\ before = [t \in Tasks |-> {}]
               /\ alone = [t \in Tasks |-> FALSE]

Method(t) == \/ TabBegin(t) \/ TabOpen(t) \/ TabEnter(t) \/ TabBody(t) \/ TabClose(t) \/ TabBack(t)
             \/ NamedBegin(t) \/ NamedList(t) \/ NamedVisit(t) \/ NamedAsk(t) \/ NamedBack(t)
             \/ Fail(t) \/ Abandon(t)

Chain(t) == ChainBegin(t) \/ ChainCall(t) \/ Perform(t) \/ Reset(t) \/ ChainEnd(t)

Pick(t) == \/ PickBegin(t) \/ PickFind(t) \/ PickCandidates(t) \/ PickShows(t) \/ PickLook(t) \/ PickClick(t)
           \/ PickEnd(t)

BrowserNext == Other \/ \E t \in Tasks : Navigate(t) \/ Method(t) \/ Pick(t) \/ Chain(t) \/ Context(t) \/ Settle(t)

BrowserSpec == BrowserInit /\ [][BrowserNext]_stateVars

-----------------------------------------------------------------------------
\* The type invariant.
BrowserTypeOK ==
    /\ windows \subseteq Windows /\ current \in Windows /\ frame \in {"top", "child", "gone"}
    /\ doc \in [Windows -> Nat]
    /\ name \in [Windows -> Names \cup {NoName}]
    /\ held \subseteq Chars \cup {"left", "right"}
    /\ faults \in 0..MaxFaults /\ others \in 0..MaxOthers
    /\ pc \in [Tasks -> {"idle", "open", "enter", "body", "close", "back", "list", "visit", "ask",
                         "chain", "performed", "options", "candidates", "shows", "look", "click", "picked"}]
    /\ menu \in [dom : Lists, multiple : BOOLEAN, selected : SUBSET DOMAIN menu.dom]
    /\ saved \in [Tasks -> Windows \cup {NoWindow}] /\ tab \in [Tasks -> Windows \cup {NoWindow}]
    /\ want \in [Tasks -> Names \cup {NoName}] /\ left \in [Tasks -> SUBSET Windows]
    /\ \A t \in Tasks : Len(script[t]) \in 0..MaxCalls /\ answer[t].result \in {"none", "ok", "error"}
    /\ users \in [Users -> {"new", "exists", "removed"}] /\ partition \in [Windows -> Users \cup {Default}]
    /\ setting \in Settings /\ Len(calls) \in 0..MaxCalls
    /\ settings \in [Windows \cup Users \cup {Everyone} -> Values \cup {Unset}]
    /\ before \in [Tasks -> SUBSET Windows] /\ alone \in [Tasks -> BOOLEAN]

TabEnds(t) ==
    pc[t] = "back" /\ pc'[t] = "idle" /\ faults' = faults /\ alone[t] =>
       /\ current' = saved[t] /\ windows' = before[t]
       /\ tab[t] \notin windows'

\* handle.rs:1183, in_new_tab(): when it comes to its end it leaves the session
\* in the window it was called in, with no window more or less.  Only other
\* commands on windows and frames, of another task or of the function it was
\* given, undo that.
TabIsRestored == [][\A t \in Tasks : TabEnds(t)]_stateVars

NamedEnds(t) ==
    pc[t] \in {"visit", "ask"} /\ pc'[t] = "idle" /\ faults' = faults /\ alone[t] =>
       \/ current' \in windows' /\ name[current'] = want[t]
       \/ current' = saved[t] /\ \A w \in windows : name[w] # want[t]

\* switch_to_named_window() ends in a window of that name, or, when no window
\* has the name, back where it was called.
NamedIsFound == [][\A t \in Tasks : NamedEnds(t)]_stateVars

\* A method that works its way through windows ends where it says.
WindowsAreRestored == TabIsRestored /\ NamedIsFound

\* The two lists of a chain stay in step: the remote end does, one after the
\* other, what the methods stand for in the order they were called, each
\* perform() from the start; one that fails has done a part from the start on.
ChainIsInOrder ==
    \A t \in Tasks : pc[t] = "performed" =>
        LET meant == FlattenSeq([i \in DOMAIN script[t] |-> Means(script[t][i])])
        IN /\ IsPrefix(answer[t].done, meant)
           /\ answer[t].result = "ok" => answer[t].done = meant

\* The types, and what the chains do.
ChainsAreInOrder == BrowserTypeOK /\ ChainIsInOrder

\* A chain of complete gestures that was performed leaves no key and no button
\* down that was up before.
GesturesLetGo ==
    [][\A t \in Tasks :
         /\ pc'[t] = "performed" /\ answer'[t] # answer[t] /\ answer'[t].result = "ok"
         /\ \A i \in DOMAIN script[t] : script[t][i][1] \in Complete
         => held' \subseteq held]_stateVars

\* Each context has the settings that were asked for: what was set for it counts,
\* then what was set for its user context, then what was set for all, each until
\* it is cleared; what was asked for one is not seen in another.  A viewport that
\* was set cannot be cleared, whatever the documentation says.
SettingIsAsAsked ==
    \/ setting = "viewport" /\ \E i \in DOMAIN calls : calls[i].value = Unset
    \/ \A w \in windows :
         FirstSet(<<settings[w], IF partition[w] = Default THEN Unset ELSE settings[partition[w]], settings[Everyone]>>)
           = Wanted(calls, w, partition[w])

\* components/select.rs: a method that ended well has selected, or deselected,
\* the options that its documentation names, of a single-select the first, and
\* has returned those that were selected; it ends with an error when there is no
\* such option, but for those that need none.  Until then it has changed no other
\* option of a multi-select.
SelectionIsAsAsked ==
    [][\A t \in Tasks :
         LET p == picks'[t]
             named == Named(menu.dom, p.call)
             changed == (menu'.selected \ p.before) \cup (p.before \ menu'.selected)
         IN  role[t] = "select" /\ pc'[t] # "idle" /\ alone'[t] /\ Plain(menu.dom, p.call) =>
               /\ menu.multiple => changed \subseteq named
               /\ p.result = "ok" =>
                     /\ menu'.selected = Selection(menu.dom, menu.multiple, p.before, p.call)
                     /\ p.call.how = "all_selected" => p.got = p.before
                     /\ p.call.how = "first_selected" => p.got = {Min(p.before)}
               /\ p.result = "missing" => Required(p.call) /\ (IF Reads(p.call) THEN p.before ELSE named) = {}]_stateVars
=============================================================================
