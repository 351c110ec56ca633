----------------------------- MODULE MCTileRefresh -----------------------------
(* Model values for checking TileRefresh with TLC: two neighbouring cells, *)
(* the tile of one of them alone, a tile both are rendered into, and two   *)
(* render blocks.                                                          *)
EXTENDS TileRefresh, TLC

CONSTANTS c1, c2, t1, t2, p1, p2, r1

MCCells == {c1, c2}
MCTiles == {t1, t2}
MCTilesOf == (c1 :> {t1, t2}) @@ (c2 :> {t2})
MCBlockOf == (t1 :> 1) @@ (t2 :> 2)
MCProducers == {p1, p2}
MCRequests == {r1}
===============================================================================
