--------------------------- MODULE MCTemplateCrawl -----------------------------
(* Instances of TemplateCrawl for TLC.                                      *)
EXTENDS TemplateCrawl

\* An empty page, one with an item of each kind, and one with two good ones.
MCListings == {<<>>, <<"full", "untitled", "partial">>, <<"full", "full">>}
===============================================================================
