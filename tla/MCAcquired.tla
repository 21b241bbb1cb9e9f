----------------------------- MODULE MCAcquired -----------------------------
(* A small instance of AcquiredAssets: responses with a lifetime and an ETag, *)
(* from a cache with Expires, or for one use; callers without wishes, who do  *)
(* not want storage, or only what is stored; rules of each kind.              *)
EXTENDS AcquiredAssets, TLC

Control2 == [NoControl EXCEPT !.maxAge = 2]

MCResponses ==
  {("control" :> Control2) @@ ("etag" :> TRUE),
   ("age" :> 1) @@ ("date" :> 0) @@ ("expires" :> 2),
   ("vary" :> "any")}

MCRequests ==
  {Plain, [Plain EXCEPT !.noStore = TRUE],
   [Plain EXCEPT !.maxAge = 1, !.onlyIfCached = TRUE]}

MCRules ==
  {[sources |-> {"download"}, protect |-> NoAction, retain |-> WhileFresh,
    newest |-> 0],
   [sources |-> {"complete_array"}, protect |-> NoAction,
    retain |-> Duration("access", 1), newest |-> 1],
   [sources |-> {"complete_array"}, protect |-> Duration("created", 1),
    retain |-> NoAction, newest |-> 0]}

Symmetry == Permutations(Proc)
=============================================================================
