--------------------------- MODULE MCScanCoverage ---------------------------
(***************************************************************************)
(* Instance of ScanCoverage: three symbols.  Two are liquid and the third  *)
(* is too thin or not listed, or none is liquid at all.                    *)
(***************************************************************************)
EXTENDS ScanCoverage

MCMarkets ==
    {<<"liquid", "liquid", "thin">>, <<"thin", "liquid", "liquid">>,
     <<"liquid", "liquid", "absent">>, <<"absent", "thin", "thin">>}
=============================================================================
