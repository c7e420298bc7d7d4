------------------------------ MODULE Bindings ------------------------------
(* Key bindings and binding modes (src/bindings.c, src/key_press.c and the   *)
(* keyboard events of src/handlers.c) with the X server's side of them: what *)
(* is grabbed, and which events of which keys are delivered because of it.   *)
(* CapsLock is left out: every key is grabbed and bound with it, too, and    *)
(* get_binding_from_xcb_event() takes it off.                                *)
EXTENDS Integers, Sequences, FiniteSets, SequencesExt, FiniteSetsExt

CONSTANTS
  KeyCodes,              \* the keys that have bindings
  ModKey,                \* the key of a modifier, which has none
  Groups,                \* XKB groups, 1 is the first
  KeyMaps,               \* keymaps the server may have
  SymOf(_, _, _, _),     \* the symbol of a keymap, group, key and modifiers
  FallsBack(_, _, _, _), \* ... which may do without Shift: no keypad, no third level
  Files,                 \* what the configuration file may hold: modes
  MaxKeyEvents           \* events that wait for i3 at most

(* Commands are named "nop", "reload" or as the mode they switch to.         *)
ASSUME BindingsAssumption ==
  \A f \in Files :
    /\ "default" \in DOMAIN f /\ DOMAIN f \cap {"nop", "reload"} = {}
    /\ \A m \in DOMAIN f : /\ Len(f[m]) \in Nat /\ DOMAIN f[m] = 1 .. Len(f[m])
                           /\ \A i \in DOMAIN f[m] : f[m][i].group \in 0 .. 4

VARIABLES
  modes,      \* the bindings of each mode, sorted
  mode,       \* current_binding_mode
  ignoreMods, \* B_UPON_KEYRELEASE_IGNORE_MODS: those of which mode and where
  codes,      \* keycodes_head of the bindings of the current mode
  keymap,     \* xkb_keymap
  group,      \* xkb_current_group
  lastPress,  \* what the last press matched since the mode was entered
  server,     \* the server's keymap and group, and how they were announced
  grabs,      \* <<key, modifiers>> grabbed on the root window
  typing,     \* the keys and modifiers that are down, and the active grab
  events,     \* key and keyboard events for i3
  announced   \* a MapNotify carries the sequence number of i3's last request

bindVars == <<modes, mode, ignoreMods, codes, keymap, group, lastPress>>
keyVars == <<server, grabs, typing, events, announced>>
bindingsVars == <<bindVars, keyVars>>

(* ---- reorder_bindings(): by event_state_mask, the greatest first ----      *)
(* (qsort() of glibc keeps the order of equal ones.)                          *)

GroupMask == <<64, 128, 256, 512>>
Mask(b) == (IF b.group = 0 THEN 0 ELSE GroupMask[b.group])
             + (IF "shift" \in b.mods THEN 1 ELSE 0) + (IF "num" \in b.mods THEN 16 ELSE 0)
Precedes(s, i, j) == Mask(s[i]) > Mask(s[j]) \/ (Mask(s[i]) = Mask(s[j]) /\ i < j)
Place(s, i) == Cardinality({j \in DOMAIN s : Precedes(s, j, i)}) + 1
ReorderBindings(s) == [p \in DOMAIN s |-> s[CHOOSE i \in DOMAIN s : Place(s, i) = p]]
ModesOf(file) == [m \in DOMAIN file |-> ReorderBindings(file[m])]

(* ---- translate_keysyms() ----                                              *)

(* add_keycode_if_matches(): when the symbol is not the one of the modifiers *)
(* of the binding, Shift is taken away, or added where it is not asked for,  *)
(* unless the key is on a keypad, or on a higher level by its modifiers.     *)
ShiftToggled(mods) == IF "shift" \in mods THEN mods \ {"shift"} ELSE mods \cup {"shift"}
KeycodeIfMatches(map, b, k) ==
  LET g     == IF b.group = 0 THEN 1 ELSE b.group
      state == IF SymOf(map, g, k, b.mods) = b.sym \/ ~FallsBack(map, g, k, b.mods)
               THEN b.mods ELSE ShiftToggled(b.mods)
  IN IF SymOf(map, g, k, state) # b.sym THEN {}
     ELSE {<<k, b.mods>>} \cup
          (IF SymOf(map, g, k, state \cup {"num"}) = b.sym THEN {<<k, b.mods \cup {"num"}>>} ELSE {})
KeycodesOf(map, b) ==
  LET g == IF b.group = 0 THEN 1 ELSE b.group
  IN IF b.code \notin KeyCodes THEN UNION {KeycodeIfMatches(map, b, k) : k \in KeyCodes}
     ELSE {<<b.code, b.mods>>} \cup
          (IF SymOf(map, g, b.code, b.mods) = SymOf(map, g, b.code, b.mods \cup {"num"})
           THEN {<<b.code, b.mods \cup {"num"}>>} ELSE {})
TranslateKeysyms(map, s) == [i \in DOMAIN s |-> KeycodesOf(map, s[i])]

(* ---- grab_all_keys(): a keycode is grabbed with NumLock in any case ----   *)

InGroup(b, g) == b.group \in {0, g}
GrabsFor(s, cs, g) ==
  UNION {IF s[i].code \in KeyCodes
         THEN {<<s[i].code, s[i].mods>>, <<s[i].code, s[i].mods \cup {"num"}>>}
         ELSE cs[i] : i \in {j \in DOMAIN s : InGroup(s[j], g)}}

(* ---- get_binding() ----                                                    *)

ModsMatch(i, e) == <<e.key, e.mods>> \in codes[i]
Hits(e) == {i \in DOMAIN modes[mode] : InGroup(modes[mode][i], e.group) /\ ModsMatch(i, e)}
UponRelease == {i \in DOMAIN modes[mode] : modes[mode][i].release}
Marked == {i \in UponRelease : <<mode, i>> \in ignoreMods}
Least(S) == IF S = {} THEN 0 ELSE Min(S)

PressBinding(e) == Least(Hits(e) \ UponRelease)
(* After a binding was found the loop ends with the first one it marks.      *)
NewMarks(e) ==
  LET found == PressBinding(e)
      after == {i \in Hits(e) \cap UponRelease : i > found}
  IN (Hits(e) \cap UponRelease) \ (IF found = 0 THEN {} ELSE after \ {Least(after)})
ReleaseBinding(e) ==
  Least((Hits(e) \cap UponRelease)
          \cup {i \in Marked : InGroup(modes[mode][i], e.group) /\ \E c \in codes[i] : c[1] = e.key})

GetBinding(e) == IF e.type = "press" THEN PressBinding(e) ELSE ReleaseBinding(e)

(* ---- switch_mode(), load_configuration(C_RELOAD) ----                      *)

SwitchTo(ms, m) ==
  /\ modes' = ms /\ mode' = m
  /\ codes' = TranslateKeysyms(keymap, ms[m])
  /\ grabs' = GrabsFor(ms[m], TranslateKeysyms(keymap, ms[m]), group)
  /\ announced' = FALSE
  /\ lastPress' = {}

(* Mistake: the marks of the mode that is entered are kept.                  *)
SwitchMode_KeepsMarks(m, ms) ==
  IF m \in DOMAIN modes THEN SwitchTo(modes, m) /\ ignoreMods' = ms
  ELSE ignoreMods' = ms /\ UNCHANGED <<modes, mode, codes, grabs, announced>>
SwitchMode(m, ms) ==
  IF m \in DOMAIN modes THEN SwitchTo(modes, m) /\ ignoreMods' = {c \in ms : c[1] # m}
  ELSE ignoreMods' = ms /\ UNCHANGED <<modes, mode, codes, grabs, announced>>
Reload == \E f \in Files : SwitchTo(ModesOf(f), "default") /\ ignoreMods' = {}

(* run_binding() of the binding, with the marks that get_binding() left.     *)
RunBinding(b, ms) ==
  CASE b.command = "nop"    -> ignoreMods' = ms /\ UNCHANGED <<modes, mode, codes, grabs, announced>>
    [] b.command = "reload" -> Reload
    [] OTHER                -> SwitchMode(b.command, ms)

(* ---- the handlers ----                                                     *)

HandleKeyPress ==
  LET e == Head(events)
      i == GetBinding(e)
      ms == IF e.type = "press" THEN {c \in ignoreMods : c[1] # mode} \cup {<<mode, j>> : j \in NewMarks(e)}
            ELSE ignoreMods
      stays == i = 0 \/ modes[mode][i].command \notin {"reload"} \cup DOMAIN modes
  IN /\ events # <<>> /\ e.type \in {"press", "release"}
     /\ events' = Tail(events)
     /\ IF i = 0 THEN ignoreMods' = ms /\ UNCHANGED <<modes, mode, codes, grabs, announced>>
        ELSE RunBinding(modes[mode][i], ms)
     /\ stays => lastPress' = (IF e.type = "press" THEN Hits(e) ELSE lastPress)
     /\ UNCHANGED <<keymap, group, server, typing>>

(* handle_event(): the switcher or the overview takes the key.               *)
OverlayTakesKey ==
  /\ events # <<>> /\ Head(events).type \in {"press", "release"}
  /\ events' = Tail(events)
  /\ UNCHANGED <<bindVars, server, grabs, typing, announced>>

Regrab(map, g) ==
  /\ codes' = TranslateKeysyms(map, modes[mode])
  /\ grabs' = GrabsFor(modes[mode], TranslateKeysyms(map, modes[mode]), g)
  /\ announced' = FALSE

(* load_keymap() asks the server for the keymap it has by now (that it fails *)
(* is left out); it is not called for a keyboard with the same keycodes.     *)
HandleNewKeyboard ==
  /\ events # <<>> /\ Head(events).type \in {"new_keyboard", "same_keycodes"}
  /\ events' = Tail(events)
  /\ keymap' = IF Head(events).type = "new_keyboard" THEN server.keymap ELSE keymap
  /\ Regrab(keymap', group)
  /\ UNCHANGED <<modes, mode, ignoreMods, group, lastPress, server, typing>>

(* The keys are translated and grabbed before the keymap is loaded.  An      *)
(* event with a sequence number that was seen is ignored, for five seconds.  *)
HandleMapNotify ==
  /\ events # <<>> /\ Head(events).type = "map"
  /\ events' = Tail(events)
  /\ \/ Head(events).seen /\ UNCHANGED <<keymap, codes, grabs, announced>>
     \/ keymap' = server.keymap /\ Regrab(keymap, group)
  /\ UNCHANGED <<modes, mode, ignoreMods, group, lastPress, server, typing>>

(* handle_mapping_notify() loads no keymap.                                  *)
HandleMappingNotify ==
  /\ events # <<>> /\ Head(events).type = "mapping"
  /\ events' = Tail(events)
  /\ Regrab(keymap, group)
  /\ UNCHANGED <<modes, mode, ignoreMods, keymap, group, lastPress, server, typing>>

HandleStateNotify ==
  /\ events # <<>> /\ Head(events).type = "state"
  /\ events' = Tail(events)
  /\ group' = Head(events).group
  /\ IF group' = group THEN UNCHANGED <<grabs, announced>>
     ELSE grabs' = GrabsFor(modes[mode], codes, group') /\ announced' = FALSE
  /\ UNCHANGED <<modes, mode, ignoreMods, codes, keymap, lastPress, server, typing>>

(* ---- the server and the user ----                                          *)

Notify(e) == Len(events) < MaxKeyEvents /\ events' = Append(events, e)
KeyEvent(t, k) == [type |-> t, key |-> k, mods |-> typing.mods, group |-> server.group]

(* A grab of the key with these modifiers becomes active; while one is, i3   *)
(* gets the events of all keys.                                              *)
StrikeKey(k) ==
  /\ k \notin typing.down
  /\ LET active == IF typing.active = ModKey /\ <<k, typing.mods>> \in grabs THEN k ELSE typing.active
     IN /\ typing' = [typing EXCEPT !.down = @ \cup {k}, !.active = active]
        /\ IF active = ModKey THEN UNCHANGED events ELSE Notify(KeyEvent("press", k))
  /\ UNCHANGED <<bindVars, server, grabs, announced>>
LiftKey(k) ==
  /\ k \in typing.down
  /\ typing' = [typing EXCEPT !.down = @ \ {k}, !.active = IF @ = k THEN ModKey ELSE @]
  /\ IF typing.active = ModKey THEN UNCHANGED events ELSE Notify(KeyEvent("release", k))
  /\ UNCHANGED <<bindVars, server, grabs, announced>>

(* The server tells of its state whenever a modifier or the group changes;   *)
(* what tells i3 nothing new is left out.                                    *)
StateReport == IF server.told THEN <<>> ELSE <<[type |-> "state", group |-> server.group]>>
ChangeModifier(m) ==
  /\ typing' = [typing EXCEPT !.mods = IF m \in @ THEN @ \ {m} ELSE @ \cup {m}]
  /\ server' = [server EXCEPT !.told = TRUE]
  /\ Len(events) < MaxKeyEvents
  /\ events' = events
                 \o (IF typing.active = ModKey THEN <<>>
                     ELSE <<KeyEvent(IF m \in typing.mods THEN "release" ELSE "press", ModKey)>>)
                 \o StateReport
  /\ UNCHANGED <<bindVars, grabs, announced>>

ChangeGroup(g) ==
  /\ g # server.group
  /\ server' = [server EXCEPT !.group = g, !.told = TRUE]
  /\ Notify([type |-> "state", group |-> g])
  /\ UNCHANGED <<bindVars, grabs, typing, announced>>
HowAnnounced == {"new_keyboard", "same_keycodes", "map", "mapping"}
ChangeKeymap(m, how) ==
  /\ m # server.keymap
  /\ server' = [server EXCEPT !.keymap = m, !.how = how]
  /\ Notify(IF how = "map" THEN [type |-> how, seen |-> announced] ELSE [type |-> how])
  /\ announced' = (announced \/ how = "map")
  /\ UNCHANGED <<bindVars, grabs, typing>>

(* load_configuration(), load_keymap(), translate_keysyms(), grab_all_keys() *)
(* of main(): the server is in any group, and is not asked which.            *)
BindingsInit ==
  \E f \in Files, m \in KeyMaps, g \in Groups :
    /\ modes = ModesOf(f) /\ mode = "default" /\ ignoreMods = {} /\ lastPress = {}
    /\ codes = TranslateKeysyms(m, ModesOf(f)["default"])
    /\ keymap = m /\ group = 1
    /\ server = [keymap |-> m, group |-> g, how |-> "new_keyboard", told |-> FALSE]
    /\ grabs = GrabsFor(ModesOf(f)["default"], TranslateKeysyms(m, ModesOf(f)["default"]), 1)
    /\ typing = [down |-> {}, mods |-> {}, active |-> ModKey]
    /\ events = <<>> /\ announced = FALSE

BindingsNext ==
  \/ HandleKeyPress \/ OverlayTakesKey
  \/ HandleNewKeyboard \/ HandleMapNotify \/ HandleMappingNotify \/ HandleStateNotify
  \/ \E k \in KeyCodes : StrikeKey(k) \/ LiftKey(k)
  \/ \E m \in {"shift", "num"} : ChangeModifier(m)
  \/ \E g \in Groups : ChangeGroup(g)
  \/ \E m \in KeyMaps, how \in HowAnnounced : ChangeKeymap(m, how)

BindingsSpec == BindingsInit /\ [][BindingsNext]_bindingsVars

(* ---- properties ----                                                       *)

NextIsKey == events # <<>> /\ Head(events).type \in {"press", "release"}

(* Once i3 has handled what the server reported, the keys it has grabbed are *)
(* those of the bindings of the current mode, in the keymap and group that   *)
(* the server has: mode switches, reloads and changes of the keyboard that   *)
(* overtake each other lose no grab (switch_mode(), free_configuration(),    *)
(* handle_event()).  Excepted is a keymap that no new keyboard announced;    *)
(* and until the server tells its state, i3 takes the first group for it.    *)
KeysAreGrabbed ==
  events = <<>> /\ server.how = "new_keyboard"
    => grabs = GrabsFor(modes[mode], TranslateKeysyms(server.keymap, modes[mode]),
                        IF server.told THEN server.group ELSE 1)

(* A release that comes with other modifiers runs a binding only if the last *)
(* press that i3 saw in this visit of the mode matched that binding: not     *)
(* when another key came in between, and not when the mode was switched      *)
(* since (get_binding(), the end of switch_mode()).                          *)
ReleaseFollowsPress ==
  NextIsKey /\ Head(events).type = "release" =>
    LET i == GetBinding(Head(events))
    IN i # 0 /\ ~ModsMatch(i, Head(events)) => i \in lastPress

(* Of the bindings a press matches, i3 runs none that is installed in every  *)
(* group, or that came by the fallback for NumLock, when there is one made   *)
(* for the group, or with NumLock (reorder_bindings()).                      *)
RunsMostSpecific ==
  NextIsKey /\ Head(events).type = "press" =>
    LET i == GetBinding(Head(events))
        s == modes[mode]
    IN i # 0 => \A j \in Hits(Head(events)) \ UponRelease :
                  /\ s[j].group # 0 => s[i].group # 0
                  /\ s[j].group = s[i].group /\ "num" \in s[j].mods => "num" \in s[i].mods

(* Keys do as the configuration file binds them, however changes of the      *)
(* keyboard, of the mode and of the file come between them.                  *)
KeysDoAsBound == KeysAreGrabbed /\ ReleaseFollowsPress /\ RunsMostSpecific
=============================================================================
