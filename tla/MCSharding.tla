----------------------------- MODULE MCSharding -----------------------------
EXTENDS Sharding

\* With a map, with a whitelist, and without a map, for the whole request; and
\* with a map and the first netstring only.
Setting(str, wlist, m, w) ==
    [hash |-> TRUE, string |-> str, whitelist |-> wlist, useMap |-> m, crossKeysErr |-> ~wlist, whole |-> w]
Configs == {Setting(FALSE, FALSE, TRUE, TRUE), Setting(TRUE, TRUE, TRUE, TRUE),
            Setting(FALSE, FALSE, FALSE, TRUE), Setting(FALSE, FALSE, TRUE, FALSE)}

\* The hash of numbers and of texts: neighbours in different buckets.
Identity == [k \in 0 .. 4 |-> k]

Row(l, r, w) == [logical |-> l, bad |-> FALSE, readN |-> r, writeN |-> w]

\* Buckets 1 and 2 on different shards; then one with an impossible shard, and
\* one moved to the other shard and marked down for reads.  Bucket 0, of the
\* empty key, is not configured.
Tables == {<<None, Row(1, FALSE, FALSE), Row(0, FALSE, FALSE)>>,
           <<None, Row(2, FALSE, FALSE), Row(1, TRUE, FALSE)>>}
ThreeBuckets == {[b \in 0 .. 2 |-> t[b + 1]] : t \in Tables}

\* The first key on the whitelist, with a shard that exists or not.
WLTables == {[k \in Key |-> IF k = 1 THEN Row(l, FALSE, FALSE) ELSE None] : l \in {0, 3}}

Stmt(r, b, k, v) == [read |-> r, binds |-> b, key |-> k, vals |-> v]
Statements ==
    {Stmt(FALSE, b, "none", << >>) : b \in {<< >>, <<1>>, <<2>>, <<1, 2>>}}
      \cup {Stmt(TRUE, <<1>>, "none", << >>), Stmt(FALSE, <<1>>, "other", << >>),
            Stmt(FALSE, <<1>>, "right", <<2>>), Stmt(FALSE, << >>, "right", <<Null>>)}
\* One session tries everything, the other holds a worker of a shard and reads
\* from the other shard.
BothKinds == <<Statements, {Stmt(FALSE, <<1>>, "none", << >>), Stmt(TRUE, <<2>>, "none", << >>)}>>
ThreeAndTwo == <<3, 2>>
=============================================================================
