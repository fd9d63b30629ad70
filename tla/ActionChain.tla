----------------------------- MODULE ActionChain -----------------------------
(***************************************************************************)
(* ActionChain, action_chain.rs, and its two ActionSources,                *)
(* common/action.rs: a list of key actions and a list of pointer actions.  *)
(* The remote end takes the n-th of both in the same tick, so each method  *)
(* pads the list it does not use with pauses.                              *)
(*                                                                         *)
(* A method is written <<name, argument, ...>>.  An action's duration, and *)
(* offsets of a move, are left out.                                        *)
(***************************************************************************)
EXTENDS Integers, Sequences, SequencesExt

Pause == <<"pause">>
Pauses(n) == [i \in 1..n |-> Pause]

\* KeyAction
KeyDown(k) == <<"keyDown", k>>
KeyUp(k) == <<"keyUp", k>>

\* PointerAction, with MouseButton and PointerOrigin
ButtonDown(b) == <<"down", b>>
ButtonUp(b) == <<"up", b>>
Move(o) == <<"move", o>>

-----------------------------------------------------------------------------
(***************************************************************************)
(* ActionSource<PointerAction>.                                            *)
(***************************************************************************)
PointerClick == <<ButtonDown("left"), ButtonUp("left")>>
PointerContextClick == <<ButtonDown("right"), ButtonUp("right")>>
PointerDoubleClick == PointerClick \o PointerClick

-----------------------------------------------------------------------------
(***************************************************************************)
(* The methods of ActionChain.                                             *)
(***************************************************************************)
New == [keys |-> <<>>, pointer |-> <<>>]

\* Pointer actions, and as many pauses of the keys; or the other way round.
Point(c, actions, pauses) == [keys |-> c.keys \o Pauses(pauses), pointer |-> c.pointer \o actions]
Key(c, action) == [keys |-> Append(c.keys, action), pointer |-> Append(c.pointer, Pause)]

\* Mutant: a click is taken for one action.
ClickOneTick(c) == Point(c, PointerClick, 1)

Click(c) == Point(c, PointerClick, 2)
ClickAndHold(c) == Point(c, <<ButtonDown("left")>>, 1)
ContextClick(c) == Point(c, PointerContextClick, 2)
DoubleClick(c) == Point(c, PointerDoubleClick, 4)
MoveTo(c) == Point(c, <<Move("viewport")>>, 1)
MoveByOffset(c) == Point(c, <<Move("pointer")>>, 1)
MoveToElementCenter(c, e) == Point(c, <<Move(e)>>, 1)
MoveToElementWithOffset(c, e) == Point(c, <<Move(e)>>, 1)
Release(c) == Point(c, <<ButtonUp("left")>>, 1)

ClickElement(c, e) == Click(MoveToElementCenter(c, e))
ClickAndHoldElement(c, e) == ClickAndHold(MoveToElementCenter(c, e))
ContextClickElement(c, e) == ContextClick(MoveToElementCenter(c, e))
DoubleClickElement(c, e) == DoubleClick(MoveToElementCenter(c, e))

\* Mutant: the button that is let go is not the one that was pressed.
ReleaseOnElementRight(c, e) == Point(MoveToElementCenter(c, e), <<ButtonUp("right")>>, 1)

ReleaseOnElement(c, e) == Release(MoveToElementCenter(c, e))

\* The second and third do not let go of the button.
DragAndDropElement(c, e, to) == ReleaseOnElement(ClickAndHoldElement(c, e), to)
DragAndDropByOffset(c) == MoveByOffset(ClickAndHold(c))
DragAndDropElementByOffset(c, e) == MoveByOffset(ClickAndHoldElement(c, e))

PressKey(c, k) == Key(c, KeyDown(k))
LiftKey(c, k) == Key(c, KeyUp(k))
PressKeyOnElement(c, e, k) == PressKey(ClickElement(c, e), k)
LiftKeyOnElement(c, e, k) == LiftKey(ClickElement(c, e), k)

\* Each character goes down and up.
SendKeys(c, text) == FoldLeft(LAMBDA d, k : LiftKey(PressKey(d, k), k), c, text)
SendKeysToElement(c, e, text) == SendKeys(ClickElement(c, e), text)

\* One call of a method.
Call(c, m) ==
    CASE m[1] = "click" -> Click(c)
      [] m[1] = "click_and_hold" -> ClickAndHold(c)
      [] m[1] = "context_click" -> ContextClick(c)
      [] m[1] = "double_click" -> DoubleClick(c)
      [] m[1] = "move_to" -> MoveTo(c)
      [] m[1] = "move_by_offset" -> MoveByOffset(c)
      [] m[1] = "move_to_element_center" -> MoveToElementCenter(c, m[2])
      [] m[1] = "move_to_element_with_offset" -> MoveToElementWithOffset(c, m[2])
      [] m[1] = "release" -> Release(c)
      [] m[1] = "click_element" -> ClickElement(c, m[2])
      [] m[1] = "click_and_hold_element" -> ClickAndHoldElement(c, m[2])
      [] m[1] = "context_click_element" -> ContextClickElement(c, m[2])
      [] m[1] = "double_click_element" -> DoubleClickElement(c, m[2])
      [] m[1] = "release_on_element" -> ReleaseOnElement(c, m[2])
      [] m[1] = "drag_and_drop_element" -> DragAndDropElement(c, m[2], m[3])
      [] m[1] = "drag_and_drop_by_offset" -> DragAndDropByOffset(c)
      [] m[1] = "drag_and_drop_element_by_offset" -> DragAndDropElementByOffset(c, m[2])
      [] m[1] = "key_down" -> PressKey(c, m[2])
      [] m[1] = "key_up" -> LiftKey(c, m[2])
      [] m[1] = "key_down_on_element" -> PressKeyOnElement(c, m[2], m[3])
      [] m[1] = "key_up_on_element" -> LiftKeyOnElement(c, m[2], m[3])
      [] m[1] = "send_keys" -> SendKeys(c, m[2])
      [] m[1] = "send_keys_to_element" -> SendKeysToElement(c, m[2], m[3])

-----------------------------------------------------------------------------
(***************************************************************************)
(* What the remote end does with the two lists: tick by tick the key       *)
(* action, which comes first in the command, and the pointer action.  In a *)
(* pause it does nothing.                                                  *)
(***************************************************************************)
At(s, i) == IF i <= Len(s) THEN s[i] ELSE Pause
Longer(c) == IF Len(c.keys) > Len(c.pointer) THEN Len(c.keys) ELSE Len(c.pointer)
Does(action) == IF action = Pause THEN <<>> ELSE <<action>>
Performed(c) == FlattenSeq([i \in 1..Longer(c) |-> Does(At(c.keys, i)) \o Does(At(c.pointer, i))])

-----------------------------------------------------------------------------
(***************************************************************************)
(* The reference: what each method stands for, one action after another,   *)
(* in the words of its documentation.                                      *)
(***************************************************************************)
Clicked(b) == <<ButtonDown(b), ButtonUp(b)>>
Typed(text) == FlattenSeq([i \in DOMAIN text |-> <<KeyDown(text[i]), KeyUp(text[i])>>])
Means(m) ==
    CASE m[1] = "click" -> Clicked("left")
      [] m[1] = "click_and_hold" -> <<ButtonDown("left")>>
      [] m[1] = "context_click" -> Clicked("right")
      [] m[1] = "double_click" -> Clicked("left") \o Clicked("left")
      [] m[1] = "move_to" -> <<Move("viewport")>>
      [] m[1] \in {"move_to_element_center", "move_to_element_with_offset"} -> <<Move(m[2])>>
      [] m[1] = "move_by_offset" -> <<Move("pointer")>>
      [] m[1] = "release" -> <<ButtonUp("left")>>
      [] m[1] = "click_element" -> <<Move(m[2])>> \o Clicked("left")
      [] m[1] = "click_and_hold_element" -> <<Move(m[2]), ButtonDown("left")>>
      [] m[1] = "context_click_element" -> <<Move(m[2])>> \o Clicked("right")
      [] m[1] = "double_click_element" -> <<Move(m[2])>> \o Clicked("left") \o Clicked("left")
      [] m[1] = "release_on_element" -> <<Move(m[2]), ButtonUp("left")>>
      [] m[1] = "drag_and_drop_element" -> <<Move(m[2]), ButtonDown("left"), Move(m[3]), ButtonUp("left")>>
      [] m[1] = "drag_and_drop_by_offset" -> <<ButtonDown("left"), Move("pointer")>>
      [] m[1] = "drag_and_drop_element_by_offset" -> <<Move(m[2]), ButtonDown("left"), Move("pointer")>>
      [] m[1] = "key_down" -> <<KeyDown(m[2])>>
      [] m[1] = "key_up" -> <<KeyUp(m[2])>>
      [] m[1] = "key_down_on_element" -> <<Move(m[2])>> \o Clicked("left") \o <<KeyDown(m[3])>>
      [] m[1] = "key_up_on_element" -> <<Move(m[2])>> \o Clicked("left") \o <<KeyUp(m[3])>>
      [] m[1] = "send_keys" -> Typed(m[2])
      [] m[1] = "send_keys_to_element" -> <<Move(m[2])>> \o Clicked("left") \o Typed(m[3])

\* The gestures that should leave no key and no button held.
Complete == {"click", "context_click", "double_click", "click_element", "context_click_element",
             "double_click_element", "drag_and_drop_element", "send_keys", "send_keys_to_element",
             "move_to", "move_by_offset", "move_to_element_center", "move_to_element_with_offset"}
=============================================================================
