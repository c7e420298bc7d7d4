---------------------------- MODULE MC_Scrolling ----------------------------
(***************************************************************************)
(* Scrolling for TLC: a workspace strip and a split strip with up to two    *)
(* columns each, of half the view's width or all of it.  Left out of the    *)
(* view of a state: which animations are over and how, and the remembered   *)
(* width of a maximized column, which here is the default one that the      *)
(* column would get without it.                                             *)
(***************************************************************************)
EXTENDS Scrolling

CONSTANTS s1, s2

Halves == <<2, 4>>
Twos == s1 :> 2 @@ s2 :> 2

Seen(u) == <<u.exists, u.scrolls, u.cut, [i \in DOMAIN u.columns |-> u.columns[i].width], u.focus, u.offset>>
ScrollView ==
    <<[s \in Strips |-> Seen(strip[s])], [scroll EXCEPT !.anim = @ > 0], config, fault,
      {id \in Ids : state[id] = "new"}>>

\* a bound: no strip is longer than a view and a half
Narrow == \A s \in Strips : Total(strip'[s].columns) <= View + View \div 2
BoundedSpec == ScrollInit /\ [][ScrollNext /\ Narrow]_<<state, doneCalls, scrollVars>>
=============================================================================
