--------------------------- MODULE MCStaticAssets ---------------------------
(* Instances of StaticAssets for TLC.                                        *)
EXTENDS StaticAssets
=============================================================================
