---------------------------- MODULE MCConvertRun ----------------------------
(***************************************************************************)
(* Small plans for TLC.  Every constant of ConvertRun gets its value here  *)
(* or in the cfg.                                                          *)
(***************************************************************************)
EXTENDS ConvertRun, TLC

CONSTANTS c1, c2, c3, h1

\* The same, with a same-file helper.
HelperSwap == {1 :> c1 @@ 2 :> c2 @@ 3 :> h1, 1 :> c2 @@ 2 :> c1 @@ 3 :> h1}
NoPrefix == {}
\* Its two endpoints trade places when nothing else tells them apart.
Trades == Permutations({c1, c2})
\* c1 is a proper prefix of c2 (GetNav, GetNavDetails).
NamePrefix == {<<c1, c2>>}

=============================================================================
