\* dmap alone: four deletions in a table that never grows
SPECIFICATION DmapSpec
CONSTANT Null = Null
INVARIANT ProbesEnd
