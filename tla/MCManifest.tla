------------------------------- MODULE MCManifest -------------------------------
EXTENDS Manifest
(* "a" and "a-", which comes before "a/" *)
MCNames == {<<97>>, <<97, 45>>}
MCRootDirs == {<<>>, <<97, 45>>}
================================================================================
