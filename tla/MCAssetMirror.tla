---------------------------- MODULE MCAssetMirror ----------------------------
(* Instances of AssetMirror for TLC.                                        *)
EXTENDS AssetMirror

CONSTANTS h1, h2, a1, a2

Small(hooks, ids, initial, retarget, loads, writes, closures) ==
    [hooks |-> hooks, ids |-> ids, initial |-> initial, retarget |-> retarget,
     world |-> loads, bevy |-> writes, mutate |-> closures]

MCScenarios ==
    {\* two hooks come and go while the asset is loaded
     Small({h1, h2}, {a1}, {"Loading"}, 1, 1, 0, 0),
     \* a hook moves between two assets and changes one
     Small({h1}, {a1, a2}, {"Added"}, 1, 0, 0, 1),
     \* two hooks come and go while one of them changes the asset
     Small({h1, h2}, {a1}, {"Added"}, 0, 0, 0, 1),
     \* both sides change the asset, which may be loaded, added or removed
     Small({h1}, {a1}, {"Loading", "Added"}, 0, 1, 1, 1)}

\* Two hooks of one asset.
MCStay == {Small({h1, h2}, {a1}, {"Added"}, 0, 0, 0, 0)}
=============================================================================
