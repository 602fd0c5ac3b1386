---------------------------- MODULE MCReplayLoad ----------------------------
(***************************************************************************)
(* A small instance of ReplayLoad: a large file and a large URL log with an *)
(* index, a file with a bad one, and a saved bundle.                        *)
(***************************************************************************)
EXTENDS ReplayLoad
CONSTANTS bigFile, bigUrl, badIndex, bundle

AllDocs == {bigFile, bigUrl, badIndex, bundle}
KindOf(d) == IF d = bigUrl THEN "url" ELSE IF d = bundle THEN "zip" ELSE "file"
LargeOf(d) == d \in {bigFile, bigUrl, bundle}
SidecarOf(d) == IF d = badIndex THEN "bad" ELSE "good"
LastTickOf(d) == IF d = badIndex THEN 1 ELSE 3
=============================================================================
