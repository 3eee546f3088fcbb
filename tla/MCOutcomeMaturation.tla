------------------------- MODULE MCOutcomeMaturation -------------------------
(***************************************************************************)
(* Instance of OutcomeMaturation: two episodes of one symbol compete for a *)
(* batch of one, so do two signals and two observations; an anchor is on   *)
(* the candle grid (0) or off it (1).  Symbol c has no candle from minute  *)
(* 3 on: its signal and its observation never get their last price.        *)
(***************************************************************************)
EXTENDS OutcomeMaturation, TLC

CONSTANTS e1, e2, v1, l1, o1, o2, o3, g1, g2, g3, a, b, c

MCKind == (e1 :> "episode" @@ e2 :> "episode" @@ v1 :> "v2" @@ l1 :> "live"
           @@ o1 :> "observation" @@ o2 :> "observation" @@ o3 :> "observation"
           @@ g1 :> "signal" @@ g2 :> "signal" @@ g3 :> "signal")
MCSymbol == (e1 :> a @@ e2 :> a @@ v1 :> a @@ l1 :> b @@ o1 :> b @@ o2 :> b @@ o3 :> c
             @@ g1 :> b @@ g2 :> b @@ g3 :> c)
MCMinutes == (a :> 0..8 @@ b :> 0..8 @@ c :> 0..2)

\* The second signal is of the crowd of the first (0), has the window for itself
\* long enough (3) or is neither (1).
MCAnchors == (e1 :> {0} @@ e2 :> {1} @@ v1 :> {0} @@ l1 :> {1} @@ o1 :> {1} @@ o2 :> {1}
              @@ o3 :> {1} @@ g1 :> {0} @@ g2 :> {0, 3} @@ g3 :> {1})
=============================================================================
