--------------------------------- MODULE MCDock --------------------------------
(* The serial dock on small instances: two keys that need Fn. *)
EXTENDS DockMachine

Value(c, f) == [code |-> c, fn |-> f]
SomeKeys == [Home |-> Value("left", TRUE), End |-> Value("right", TRUE)]
SomeOrder == <<Value("left", TRUE), Value("right", TRUE)>>
SomeResets == [cable |-> 2, keyboard |-> 1]
Mode(kd, g) == [kind |-> kd, guest |-> g]
SomeModes == {Mode("cable", "latch"), Mode("keyboard", "latch"), Mode("keyboard", "orderly")}
================================================================================
