--------------------------- MODULE MCKeyListener ---------------------------
(* Two keyboards under three settings: one both can press, one that needs a  *)
(* key neither has, and one whose stop keybind cannot be parsed.             *)
EXTENDS KeyListener

MCExposes == [left |-> {"leftctrl", "f"}, right |-> {"rightctrl", "f"}]

CtrlF == {{"leftctrl", "rightctrl"}, {"f"}}

MCConfigs == {[save |-> CtrlF, stop |-> {{"f"}}],
              [save |-> CtrlF, stop |-> {{"g"}}],
              [save |-> CtrlF, stop |-> {}]}
=============================================================================
