----------------------------- MODULE MCGestures -----------------------------
(* A screen: a list whose rows can be tapped and held; a card that tells one *)
(* tap from two and can be held, with a button on it; a photo that can be    *)
(* held and pinched.                                                         *)
EXTENDS Gestures

ScreenWants ==
  [row |-> {"press", "tap", "long"}, list |-> {"drag"},
   card |-> {"press", "tap", "double", "long", "drag"},
   button |-> {"press", "tap", "secondary"},
   photo |-> {"tap", "long", "scale"}]

ScreenRegions == DOMAIN ScreenWants
Screen == {<<"row", "list">>, <<"card">>, <<"button", "card">>, <<"photo", "list">>}
=============================================================================
