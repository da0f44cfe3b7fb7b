---------------------------- MODULE MCSyncPairs -----------------------------
\* Three pairs on a pool of two workers: all inline, all pooled, pooled copies around
\* an inline orphan, pooled updates around an inline copy, a lane that is off.
EXTENDS SyncPairs

Orphan == <<"create", "delete", "create">>
Update == <<"update", "create", "update">>
Plan(lane, pooled, off) == [lane |-> lane, pooled |-> pooled, off |-> off]

MCPlans == {Plan(Orphan, {}, {}), Plan(Orphan, {"create"}, {}), Plan(Orphan, Lanes, {}),
            Plan(Update, {"update"}, {}), Plan(Orphan, {"create", "delete"}, {"delete"})}
=============================================================================
