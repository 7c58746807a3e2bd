---------------------------- MODULE MCMechBuild ----------------------------
(* Two source paths, the second with or without a package file, and a cargo
   that writes fewer error lines than its pipe holds, as many, or more.      *)
EXTENDS MechBuild

CONSTANTS F1, F2

SourcePaths == << {<<F1>>}, {<<F2>>, <<F2, IndexFile>>} >>

OutputsOfCargo == { << >>, <<"out">>, <<"err", "out", "err", "out">>,
                    <<"out", "err", "err", "out", "err", "out">> }
=============================================================================
