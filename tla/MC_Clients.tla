------------------------------ MODULE MC_Clients ------------------------------
(***************************************************************************)
(* Instances of what i3 keeps of clients and keys for TLC: properties and  *)
(* rules of a window, its icon, startup sequences, layouts that are read,  *)
(* layouts that are restored, and the keys that are bound.  Each behaviour *)
(* is about one of these.                                                  *)
(***************************************************************************)
EXTENDS WindowProps, WindowIcon, Startup, LoadLayout, Restore, Bindings

CONSTANTS Parts, k1, k2, NoCode
VARIABLE part

CommandRules == <<[match |-> [class |-> 1], command |-> "mark"],
                  [match |-> [title |-> 1], command |-> "floating"],
                  [match |-> [floating |-> TRUE], command |-> "floating"],
                  [match |-> [con_mark |-> TRUE], command |-> "reload"]>>

IconSizes == {[w |-> i, h |-> j] : i, j \in 1 .. 4}
ThreeIcons == UNION {[1 .. n -> IconSizes] : n \in 0 .. 3}

OneAppEach == CHOOSE f \in [Apps -> Ids] : \A v, w \in Apps : v # w => f[v] # f[w]

TwoSlots == <<<<"a", "b">>, <<"a">>>>

(* Two keys whose symbols the second keymap exchanges; in the second group   *)
(* and with Shift or NumLock they have other symbols.                        *)
TwoKeys(map, g, k, mods) ==
  LET first == (k = k1) # (map = 2)
  IN CASE g = 2 -> IF first THEN "b" ELSE "a"
       [] g # 2 /\ first -> IF "shift" \in mods THEN "A" ELSE "a"
       [] OTHER -> IF "num" \in mods THEN "n" ELSE "b"

(* The second key is on a keypad, but for the second group.                  *)
NotOnKeypad(map, g, k, mods) == k = k1 \/ g = 2

Bind(sym, mods, g, upon, command) ==
  [sym |-> sym, code |-> NoCode, mods |-> mods, group |-> g, release |-> upon = "release", command |-> command]

WithMode ==
  [default |-> <<Bind("a", {}, 0, "press", "resize"), Bind("a", {"shift"}, 0, "release", "nop"),
                 Bind("b", {}, 2, "press", "nop"), Bind("b", {"num"}, 0, "release", "reload")>>,
   resize |-> <<Bind("a", {"shift"}, 0, "press", "default"), Bind("b", {}, 0, "release", "default"),
                [Bind("", {}, 0, "press", "nop") EXCEPT !.code = k2]>>]
WithoutMode ==
  [default |-> <<Bind("a", {}, 0, "press", "nop"), Bind("a", {"num"}, 0, "press", "resize"),
                 Bind("a", {}, 2, "press", "reload"), Bind("a", {"shift"}, 0, "release", "nop")>>]
TwoFiles == {WithMode, WithoutMode}

vars == <<propsVars, iconVars, startupVars, layoutVars, restoreVars, bindingsVars, part>>
Init ==
    /\ part \in Parts /\ PropsInit /\ StartupInit /\ LayoutInit /\ RestoreInit /\ BindingsInit
    /\ (part = "bindings" \/ (server.group = 1 /\ keymap = 1 /\ modes = ModesOf(WithMode)))
    /\ (part = "startup" \/ focus = CHOOSE s \in Spaces : TRUE)
    /\ IconInit /\ (part = "icon" \/ icons = <<>>)
Next ==
    /\ UNCHANGED part
    /\ \/ part = "props" /\ PropsNext /\ UNCHANGED <<iconVars, startupVars, layoutVars, restoreVars, bindingsVars>>
       \/ part = "icon" /\ IconNext /\ UNCHANGED <<propsVars, startupVars, layoutVars, restoreVars, bindingsVars>>
       \/ part = "startup" /\ StartupNext /\ UNCHANGED <<propsVars, iconVars, layoutVars, restoreVars, bindingsVars>>
       \/ part = "layout" /\ LayoutNext /\ UNCHANGED <<propsVars, iconVars, startupVars, restoreVars, bindingsVars>>
       \/ part = "restore" /\ RestoreNext /\ UNCHANGED <<propsVars, iconVars, startupVars, layoutVars, bindingsVars>>
       \/ part = "bindings" /\ BindingsNext /\ UNCHANGED <<propsVars, iconVars, startupVars, layoutVars, restoreVars>>
Spec == Init /\ [][Next]_vars

(* States are compared by what is read of them later: of the bindings that   *)
(* the last press matched, the ones upon release; of how the server announced *)
(* its keymap, whether as a new keyboard; and after a race for a slot, which  *)
(* no property speaks of, nothing of the restored layout.                    *)
KeysRead ==
  <<modes, mode, ignoreMods, codes, keymap, group, lastPress \cap UponRelease,
    [server EXCEPT !.how = (@ = "new_keyboard")], grabs, typing, events, announced>>
Slotted == IF raced THEN <<>> ELSE restoreVars
View == <<propsVars, iconVars, startupVars, layoutVars, Slotted, KeysRead, part>>
=============================================================================
