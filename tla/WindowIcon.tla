----------------------------- MODULE WindowIcon -----------------------------
(***************************************************************************)
(* window_update_icon (window.c:591): which of the icons of _NET_WM_ICON is   *)
(* drawn.  Each is a width and a height; the property ends where one does not    *)
(* fit any more, here with the sequence.                                           *)
(***************************************************************************)
EXTENDS Integers, Sequences, SequencesExt

CONSTANTS IconLists,    \* what clients offer: sequences of [w, h]
          PrefSize      \* pref_size: the height of a decoration, less two pixels

\* An icon without a width or a height ends the property, too.
ASSUME IconAssumption == PrefSize \in Nat \ {0} /\ IconLists \subseteq Seq([w : Nat \ {0}, h : Nat \ {0}])

VARIABLE icons
iconVars == <<icons>>

NoIcon == [w |-> 0, h |-> 0]
LargeEnough(i) == i.w >= PrefSize /\ i.h >= PrefSize
Smaller(i, j) == i.w < j.w \/ i.h < j.h
Exact(i) == i.w = PrefSize /\ i.h = PrefSize

\* One round of the loop: the icon at hand, against the one that is kept
\* mutant: an icon that is too small gives way to a smaller one
Prefer_NotYet(kept, i) ==
    IF kept = NoIcon \/ (LargeEnough(i) /\ Smaller(i, kept)) \/ (~LargeEnough(i) /\ ~LargeEnough(kept) /\ Smaller(kept, i))
    THEN i ELSE kept
Prefer(kept, i) ==
    IF \/ kept = NoIcon
       \/ LargeEnough(i) /\ (Smaller(i, kept) \/ ~LargeEnough(kept))
       \/ ~LargeEnough(i) /\ ~LargeEnough(kept) /\ Smaller(kept, i)
    THEN i ELSE kept
\* The loop ends at an icon of the very size.
Keep(kept, i) == IF Exact(kept) THEN kept ELSE Prefer(kept, i)
\* window_update_icon
UpdateIcon(s) == FoldLeft(Keep, NoIcon, s)

IconInit == icons \in IconLists
IconNext == UNCHANGED icons
IconSpec == IconInit /\ [][IconNext]_iconVars

\* "Find an icon matching the preferred size. If there is no such icon, take the smallest
\* icon having at least the preferred size. If all icons are smaller than the preferred
\* size, chose the largest." (window.c:605), whatever the order; said of square icons.
IconAsSaid ==
    LET chosen == UpdateIcon(icons)
        square == \A i \in ToSet(icons) : i.w = i.h
        large == {i \in ToSet(icons) : LargeEnough(i)}
    IN square /\ icons # <<>> =>
         /\ chosen \in ToSet(icons)
         /\ IF large # {} THEN chosen \in large /\ \A i \in large : chosen.w <= i.w
            ELSE \A i \in ToSet(icons) : i.w <= chosen.w
=============================================================================
