-------------------------- MODULE MCUpdateInstall --------------------------
(* Two releases of an installation of two files; the first adds a file.    *)
EXTENDS UpdateInstall

CONSTANTS core, lib, extra

TwoReleases == [v \in 0..2 |-> IF v = 1 THEN {core, lib, extra} ELSE {core, lib}]
OneRelease  == [v \in 0..1 |-> IF v = 1 THEN {core, lib, extra} ELSE {core, lib}]
=============================================================================
