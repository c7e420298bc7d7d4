------------------------------ MODULE XServer ------------------------------
(***************************************************************************)
(* The part of the X server that i3 relies on, as i3's requests and masks use *)
(* it: windows of clients, the frames of containers, the input focus, and which *)
(* events reach the window manager.  i3's sources hold no server: this module  *)
(* is the environment of XWindows.                                            *)
(*                                                                         *)
(* Events carry the sequence number of i3's last request that the server had   *)
(* processed.  i3 only compares them for equality, and they never decrease: it *)
(* is enough to say of an event whether its number is new.                     *)
(***************************************************************************)
EXTENDS Integers, Sequences

CONSTANTS Windows, Boards,
          Root, Ewmh,   \* the root window, and i3's window that is focused when no other is
          Pointer       \* PointerRoot: the input focus follows the pointer

Frames == Windows \X Boards

\* a server with no window
EmptyServer == [win |-> [w \in Windows |-> [st |-> "none", at |-> Root, mask |-> "none"]],
                frame |-> [c \in Frames |-> [st |-> "none", mask |-> "quiet"]],
                focus |-> Ewmh, bumped |-> TRUE, reply |-> TRUE, events |-> <<>>]

Send(x, type, of) ==
    [x EXCEPT !.events = Append(@, [type |-> type, of |-> of, new |-> x.bumped, by |-> "other"]), !.bumped = FALSE]

Viewable(x, w) ==
    /\ x.win[w].st = "mapped"
    /\ x.win[w].at = Root \/ x.frame[x.win[w].at].st = "mapped"
Focusable(x, f) ==
    CASE f \in {Pointer, Ewmh} -> TRUE
      [] f \in Windows -> Viewable(x, f)
      [] OTHER -> x.frame[f].st = "mapped"

\* The focus window became unviewable: the focus reverts, and the root window hears of it
Revert(x) == IF Focusable(x, x.focus) THEN x ELSE Send([x EXCEPT !.focus = Pointer], "focus", Root)

\* An event for window w: on the window itself, and on the frame around it
ToWindow(x, type, w) == IF x.win[w].mask = "none" THEN x ELSE Send(x, type, w)
ToFrame(x, type, w) ==
    IF x.win[w].at = Root \/ x.frame[x.win[w].at].mask = "redirect" THEN x ELSE Send(x, type, w)
Tell(x, type, w) == ToFrame(ToWindow(x, type, w), type, w)

UnmapWindow(x, w) ==
    IF x.win[w].st = "mapped" THEN Revert(Tell([x EXCEPT !.win[w].st = "unmapped"], "unmap", w)) ELSE x
DestroyWindow(x, w) ==
    IF x.win[w].st = "none" THEN x
    ELSE LET u == Tell(UnmapWindow(x, w), "unmap", w)     \* DestroyNotify, which i3 treats alike
         IN [u EXCEPT !.win[w] = [st |-> "none", at |-> Root, mask |-> "none"]]
ReparentWindow(x, w, at) ==
    IF x.win[w].st = "none" THEN x
    ELSE LET was == x.win[w].st
             y == IF was = "mapped" THEN Tell([x EXCEPT !.win[w].st = "unmapped"], "unmap", w) ELSE x
         IN Revert([y EXCEPT !.win[w].st = was, !.win[w].at = at])
SetFocus(x, f) ==
    IF ~Focusable(x, f) \/ x.focus = f THEN x
    ELSE IF x.focus = Pointer THEN Send([x EXCEPT !.focus = f], "focus", Root) ELSE [x EXCEPT !.focus = f]
SelectInput(x, w, mask) == IF x.win[w].st = "none" THEN x ELSE [x EXCEPT !.win[w].mask = mask]
MapFrame(x, c) == [x EXCEPT !.frame[c] = [st |-> "mapped", mask |-> "full"]]
UnmapFrame(x, c) ==
    IF x.frame[c].st # "mapped" THEN x
    ELSE Revert(Send([x EXCEPT !.frame[c] = [st |-> "unmapped", mask |-> "quiet"]], "unmap", c))
DestroyFrame(x, c) == Revert([x EXCEPT !.frame[c] = [st |-> "none", mask |-> "quiet"]])

\* One request of i3; the reply says whether the window it names exists
Process(x0, r) ==
    LET x == [x0 EXCEPT !.bumped = TRUE, !.reply = ("w" \in DOMAIN r) => x0.win[r.w].st # "none"]
    IN CASE r.op = "create" -> [x EXCEPT !.frame[r.c] = [st |-> "unmapped", mask |-> "quiet"]]
         [] r.op = "mask" -> [x EXCEPT !.frame = [c \in Frames |->
                IF c \in r.of /\ @[c].st # "none" THEN [@[c] EXCEPT !.mask = r.to] ELSE @[c]]]
         [] r.op = "select" -> SelectInput(x, r.w, r.to)
         [] r.op = "reparent" -> ReparentWindow(x, r.w, r.c)
         [] r.op = "map window" -> IF x.win[r.w].st = "none" THEN x
                                   ELSE [x EXCEPT !.win[r.w].st = "mapped"]
         [] r.op = "map frame" -> MapFrame(x, r.c)
         [] r.op = "unmap frame" -> UnmapFrame(x, r.c)
         [] r.op = "unmap window" -> UnmapWindow(x, r.w)
         [] r.op = "destroy frame" -> DestroyFrame(x, r.c)
         [] r.op = "kill" -> DestroyWindow(x, r.w)
         [] r.op = "focus" -> SetFocus(x, r.f)
         [] OTHER -> x                                    \* a round trip changes nothing
=============================================================================
