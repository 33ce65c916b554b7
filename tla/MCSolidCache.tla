---------------------------- MODULE MCSolidCache ----------------------------
(* An archive with every kind of file SzArEx_Extract tells apart: f1 and   *)
(* f2 share the intact solid block d1, f3 is alone in the damaged d2, f4   *)
(* has no stream, f5's folder does not fit in memory and f6's is empty.    *)
EXTENDS SolidCache, TLC

CONSTANTS f1, f2, f3, f4, f5, f6, d1, d2, d3, d4, b1, b2

MCFileToFolder == f1 :> d1 @@ f2 :> d1 @@ f3 :> d2 @@ f4 :> NoFolder @@ f5 :> d3 @@ f6 :> d4
MCFileOffset == f1 :> 0 @@ f2 :> 2 @@ f3 :> 0 @@ f4 :> 0 @@ f5 :> 0 @@ f6 :> 0
MCFileSize == f1 :> 2 @@ f2 :> 1 @@ f3 :> 2 @@ f4 :> 0 @@ f5 :> 1 @@ f6 :> 0
MCFolderSize == d1 :> 3 @@ d2 :> 2 @@ d3 :> 1 @@ d4 :> 0
=============================================================================
