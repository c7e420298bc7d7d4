------------------------------ MODULE Capture ------------------------------
(* The window images (src/aiwr_capture.c) and those who keep lists of them:  *)
(* the cache of last images, both ends of a workspace transition, the        *)
(* switcher and the overview.  A layer names the X pixmap of a frame by a    *)
(* request whose error is read later; who owns a layer frees its pixmap.     *)
EXTENDS Naturals, Sequences, FiniteSets, SequencesExt

CONSTANTS Frames,      \* the frame windows, in the order of the tree
          DeskOf       \* the workspace, 1 or 2, each frame is on

ASSUME CaptureAssumption == Frames \in Seq(ToSet(Frames)) /\ Len(DeskOf) = Len(Frames)

VARIABLES
  frames,    \* the frames that exist
  desk,      \* the workspace that is shown: its frames are mapped
  grown,     \* the frames that have the larger of two sizes
  composite, \* naming a pixmap succeeds (windows are redirected)
  layers,    \* "stale", "old", "new", "switcher", "live": Seq of layers
  pixmaps,   \* how many pixmaps there are at the server for these
  watching   \* the overview is active

captureVars == <<frames, desk, grown, composite, layers, pixmaps, watching>>
Keepers == {"stale", "old", "new", "switcher", "live"}

(* con_capturable(): a frame that is mapped while workspace d is shown       *)
Mapped(f, d) == f \in frames /\ DeskOf[CHOOSE i \in 1 .. Len(Frames) : Frames[i] = f] = d
Size(f) == IF f \in grown THEN "large" ELSE "small"

(* A list of layers and the number of pixmaps that come and go with it.      *)
Holding(q, n) == [q |-> q, n |-> n]
Finds(q, f) == {i \in 1 .. Len(q) : q[i].frame = f}

(* layer_name(): the pixmap exists if the request succeeds.                  *)
Layer(f) == [frame |-> f, pix |-> IF composite THEN "named" ELSE "error", size |-> Size(f),
             checked |-> TRUE, drawn |-> FALSE, failed |-> FALSE]
Cost(l) == IF l.pix \in {"named", "copy"} THEN 1 ELSE 0
Named(h, f) == Holding(Append(h.q, Layer(f)), h.n + Cost(Layer(f)))

(* layer_release(), aiwr_layers_free().                                      *)
Held(q) == FoldLeft(LAMBDA s, l : s + Cost(l), 0, q)
Freed(q, n) == n - Held(q)

(* layer_ready(): the error is read; then the surface is made.               *)
Ready1(l) == IF l.failed \/ l.pix = "none" THEN l
             ELSE IF l.checked /\ l.pix = "error"
             THEN [l EXCEPT !.checked = FALSE, !.failed = TRUE, !.pix = "none"]
             ELSE [l EXCEPT !.checked = FALSE, !.drawn = TRUE]
Drawable(l) == l.drawn /\ ~l.failed
EnsureSurfaces(q) == [i \in 1 .. Len(q) |-> Ready1(q[i])]

(* Folds over the frames: walk_ws() of the workspace whose frames are taken. *)

(* aiwr_layers_collect(): the mapped frames that are not in the list yet.    *)
CollectOne(g, f) == IF ~Mapped(f, desk) \/ Finds(g.q, f) # {} THEN g ELSE Named(g, f)
CollectMapped(h) == FoldLeft(CollectOne, h, Frames)

Replaced(g, f) == LET i == CHOOSE i \in Finds(g.q, f) : TRUE
                  IN Holding([g.q EXCEPT ![i] = Layer(f)], g.n - Cost(g.q[i]) + Cost(Layer(f)))
(* Mistake: the image before is not released.                                *)
StoreOne_Leaks(g, f) ==
  LET i == CHOOSE i \in Finds(g.q, f) : TRUE
  IN CASE ~Mapped(f, desk) -> g
       [] Mapped(f, desk) /\ Finds(g.q, f) = {} -> Named(g, f)
       [] OTHER -> Holding([g.q EXCEPT ![i] = Layer(f)], g.n + Cost(Layer(f)))

(* aiwr_stale_store(): the last image of each frame replaces the one before. *)
StoreOne(g, f) == CASE ~Mapped(f, desk) -> g
                    [] Mapped(f, desk) /\ Finds(g.q, f) = {} -> Named(g, f)
                    [] OTHER -> Replaced(g, f)
StoreStale(h) == FoldLeft(StoreOne, h, Frames)

(* aiwr_layers_collect_stale_owned(): copies of the images that still have   *)
(* the size of their frame.  (The errors that are read stay with the cache.) *)
CopyOne(stale, d, g, f) ==
  LET good == \E i \in Finds(stale, f) : stale[i].size = Size(f) /\ Drawable(Ready1(stale[i]))
      copy == [Layer(f) EXCEPT !.pix = "copy", !.checked = FALSE]
  IN IF Mapped(f, d) /\ Finds(g.q, f) = {} /\ good THEN Holding(Append(g.q, copy), g.n + 1) ELSE g
Copies(stale, h, d) == FoldLeft(LAMBDA g, f : CopyOne(stale, d, g, f), h, Frames)
Asked(stale, d) == [i \in 1 .. Len(stale) |->
  IF Mapped(stale[i].frame, d) /\ stale[i].size = Size(stale[i].frame) THEN Ready1(stale[i]) ELSE stale[i]]

(* live_name() of the overview: a frame is named anew when that is forced or *)
(* the image is no good, and only if it is mapped, workspace d being shown.  *)
NameLive(d, force, g, f) ==
  LET bad(l) == force \/ l.failed \/ l.pix = "none" \/ l.size # Size(f)
  IN CASE ~Mapped(f, d) -> g
       [] Mapped(f, d) /\ Finds(g.q, f) = {} -> Named(g, f)
       [] OTHER -> IF bad(g.q[CHOOSE i \in Finds(g.q, f) : TRUE]) THEN Replaced(g, f) ELSE g
NameTree(h, d, force) == FoldLeft(LAMBDA g, f : NameLive(d, force, g, f), h, Frames)

(* live_prune(), aiwr_stale_forget(): the layers of frames that have gone.   *)
(* (live_prune() puts the last in the gap; the order tells nothing apart.)   *)
WithoutOne(gone, g, l) ==
  IF l.frame \in gone THEN Holding(g.q, g.n - Cost(l)) ELSE Holding(Append(g.q, l), g.n)
Without(h, gone) == FoldLeft(LAMBDA g, l : WithoutOne(gone, g, l), Holding(<<>>, h.n), h.q)

------------------------------------------------------------------------------

Keep(h, who) == layers' = [layers EXCEPT ![who] = h.q] /\ pixmaps' = h.n
Others == UNCHANGED <<frames, desk, grown, composite, watching>>

(* workspace_show(): the overview names the windows that leave; then, unless *)
(* transitions are off or the overview is open, workspace_transition_begin() *)
(* drops the layers of the transition before, and collects.                  *)
SwitchDesk(transition) ==
  LET to   == 3 - desk
      live == NameTree(Holding(layers["live"], pixmaps), desk, TRUE)
      free == Freed(layers["new"], Freed(layers["old"], live.n))
      old  == CollectMapped(Holding(<<>>, free))
      st   == StoreStale(Holding(layers["stale"], old.n))
      new  == Copies(st.q, Holding(<<>>, st.n), to)
      ends == [old |-> EnsureSurfaces(old.q), new |-> EnsureSurfaces(new.q)]
      any  == \E l \in ToSet(ends.old) \cup ToSet(ends.new) : Drawable(l)
  IN /\ transition => ~watching
     /\ desk' = to
     /\ IF ~transition
        THEN Keep(live, "live")
        ELSE /\ layers' = [layers EXCEPT !["live"] = live.q, !["stale"] = Asked(st.q, to),
                             !["old"] = IF any THEN ends.old ELSE <<>>,
                             !["new"] = IF any THEN ends.new ELSE <<>>]
             /\ pixmaps' = IF any THEN new.n ELSE Freed(ends.new, Freed(ends.old, new.n))
     /\ UNCHANGED <<frames, grown, composite, watching>>

(* wt_done(), wt_stop().                                                     *)
TransitionEnds ==
  /\ layers' = [layers EXCEPT !["old"] = <<>>, !["new"] = <<>>]
  /\ pixmaps' = Freed(layers["new"], Freed(layers["old"], pixmaps))
  /\ Others

(* switcher_open() collects from both workspaces; sw_teardown() frees.       *)
SwitcherOpens ==
  LET here == CollectMapped(Holding(<<>>, pixmaps))
      all  == Copies(layers["stale"], here, 3 - desk)
  IN /\ ~watching /\ layers["switcher"] = <<>>
     /\ layers' = [layers EXCEPT !["switcher"] = EnsureSurfaces(all.q),
                                 !["stale"] = Asked(@, 3 - desk)]
     /\ pixmaps' = all.n
     /\ Others
SwitcherCloses ==
  /\ Keep(Holding(<<>>, Freed(layers["switcher"], pixmaps)), "switcher")
  /\ Others

(* The images of overview_enter(), overview_render() (live_for_con(): images *)
(* that are kept are drawn, too), overview_go_to() or overview_drop(), and   *)
(* overview_destroy(), which keeps the pixmaps.                              *)
Live == Holding(layers["live"], pixmaps)
OverviewEnters ==
  /\ ~watching /\ watching' = TRUE
  /\ Keep(NameTree(Without(Live, ToSet(Frames) \ frames), desk, TRUE), "live")
  /\ UNCHANGED <<frames, desk, grown, composite>>
OverviewRenders ==
  LET h == NameTree(Live, desk, FALSE)
      looked(l) == IF l.frame \in frames THEN Ready1(l) ELSE l
  IN /\ watching
     /\ Keep(Holding([i \in 1 .. Len(h.q) |-> looked(h.q[i])], h.n), "live")
     /\ Others
OverviewGoes(d) ==
  LET left == IF d = desk THEN Live ELSE NameTree(Live, desk, TRUE)
  IN /\ watching /\ desk' = d
     /\ Keep(NameTree(left, d, TRUE), "live")
     /\ UNCHANGED <<frames, grown, composite, watching>>
OverviewCloses ==
  /\ watching /\ watching' = FALSE
  /\ layers' = [layers EXCEPT !["live"] = [i \in 1 .. Len(@) |-> [@[i] EXCEPT !.drawn = FALSE]]]
  /\ UNCHANGED <<frames, desk, grown, composite, pixmaps>>

(* _x_con_kill(): aiwr_stale_forget().                                       *)
KillFrame(f) ==
  /\ f \in frames /\ frames' = frames \ {f}
  /\ Keep(Without(Holding(layers["stale"], pixmaps), {f}), "stale")
  /\ UNCHANGED <<desk, grown, composite, watching>>

Resize(f) == grown' = (IF f \in grown THEN grown \ {f} ELSE grown \cup {f})
             /\ UNCHANGED <<frames, desk, composite, layers, pixmaps, watching>>
CompositorChanges == composite' = ~composite /\ UNCHANGED <<frames, desk, grown, layers, pixmaps, watching>>

CaptureInit ==
  /\ frames = ToSet(Frames) /\ desk = 1 /\ grown = {} /\ composite \in BOOLEAN
  /\ layers = [k \in Keepers |-> <<>>] /\ pixmaps = 0 /\ watching = FALSE

CaptureNext ==
  \/ \E transition \in BOOLEAN : SwitchDesk(transition)
  \/ TransitionEnds \/ SwitcherOpens \/ SwitcherCloses
  \/ OverviewEnters \/ OverviewRenders \/ OverviewCloses
  \/ \E d \in 1 .. 2 : OverviewGoes(d)
  \/ \E f \in frames : KillFrame(f) \/ Resize(f)
  \/ CompositorChanges

CaptureSpec == CaptureInit /\ [][CaptureNext]_captureVars

------------------------------------------------------------------------------

(* Each pixmap at the server is freed exactly once: it is in one layer of    *)
(* one list, through failed requests, frames that close and transitions that *)
(* are cut short (aiwr_capture.c:192, overview.c:326).                       *)
PixmapsAreOwned ==
  pixmaps = Held(layers["stale"]) + Held(layers["old"]) + Held(layers["new"])
              + Held(layers["switcher"]) + Held(layers["live"])

(* A layer that is drawn has a pixmap, and an image of another window is     *)
(* never kept under a frame: a list has one layer for each.                  *)
LayersAreSound ==
  \A k \in Keepers : \A i \in 1 .. Len(layers[k]) :
    /\ Drawable(layers[k][i]) => Cost(layers[k][i]) = 1
    /\ \A j \in 1 .. Len(layers[k]) : layers[k][i].frame = layers[k][j].frame => i = j

(* The images are neither leaked nor freed twice, nor drawn without one.     *)
ImagesAreSound == PixmapsAreOwned /\ LayersAreSound
=============================================================================
