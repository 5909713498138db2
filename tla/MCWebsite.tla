----------------------------- MODULE MCWebsite ------------------------------
(* Small instances of Website for TLC: a folder of two files, an older page *)
(* in a bundle and one that is a transaction of its own.                    *)
EXTENDS Website

MCFolder == <<"f1", "f2">>
MCPages == [s \in Manifests |-> {"f1", "f2"}]
MCOldBundle == [i \in Sites \ Manifests |-> IF i = "tx" THEN L1 ELSE 0]
=============================================================================
