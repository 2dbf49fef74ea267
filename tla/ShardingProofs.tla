--------------------------- MODULE ShardingProofs ---------------------------
(***************************************************************************)
(* Statements are dispatched to shards that exist, for any number of        *)
(* sessions, shards, buckets and keys, any configuration, hash, map and     *)
(* whitelist, and any number of requests and reloads of the map.            *)
(***************************************************************************)
EXTENDS Sharding, TLAPS

USE DEF Set, Plus

-----------------------------------------------------------------------------
(* The map *)

MapInv ==
    /\ records \in [Bucket -> ShardMapRecord] /\ wl \in [Key -> ShardMapRecord \cup {None}]
    /\ \A b \in Bucket : ~records[b].bad => records[b].logical \in Shard

Exists(r) == r \in ShardMapRecord /\ (~r.bad => r.logical \in Shard)

\* The parts of the assumption.
LEMMA Sizes ==
    /\ NumOfShards \in Nat /\ NumOfShards > 0 /\ MaxScuttleBuckets \in Nat \ {0} /\ Byte \in Nat \ {0}
    /\ 0 \in Shard /\ 0 \in 0 .. Byte - 1 /\ Value \subseteq Nat
<1>1. NumOfShards \in Nat \ {0} /\ MaxScuttleBuckets \in Nat \ {0} /\ Byte \in Nat \ {0} /\ Value \subseteq Nat
  BY ShardingAssumption, Zenon
<1>2. QED
  BY <1>1 DEF Shard

\* The records the code makes up.
LEMMA MadeUp == Bad \in ShardMapRecord /\ Bad.bad /\ Exists(Rec(0)) /\ ~Rec(0).bad /\ Rec(0).logical = 0
<1>1. \A l \in Int : Rec(l) \in ShardMapRecord /\ Rec(l).logical = l /\ ~Rec(l).bad
  BY Zenon DEF Rec, ShardMapRecord
<1>2. \A r \in ShardMapRecord : LET b == [r EXCEPT !.bad = TRUE] IN b \in ShardMapRecord /\ b.bad
  BY Zenon DEF ShardMapRecord
<1>3. Bad \in ShardMapRecord /\ Bad.bad
  BY <1>1, <1>2 DEF Bad
<1>4. QED
  BY <1>1, <1>3, Sizes DEF Exists

\* A record marked bad.
LEMMA UnBad ==
    \A r \in ShardMapRecord :
        LET b == [r EXCEPT !.bad = TRUE, !.logical = -1] IN b \in ShardMapRecord /\ b.bad
<1>1. \A r \in ShardMapRecord, l \in Int :
        LET b == [r EXCEPT !.bad = TRUE, !.logical = l] IN b \in ShardMapRecord /\ b.bad
  BY Zenon DEF ShardMapRecord
<1>2. -1 \in Int
  OBVIOUS
<1>3. QED
  BY <1>1, <1>2, Zenon

\* loadMap marks the buckets whose shard does not exist.
LEMMA Loaded == ASSUME NEW row \in ShardMapRecord \cup {None} PROVE Exists(Load(row))
<1>1. CASE row = None
  BY <1>1, MadeUp, Zenon DEF Load, Exists
<1>2. CASE row # None /\ row.logical \in Shard
  BY <1>2, Zenon DEF Load, Exists
<1>3. CASE row # None /\ row.logical \notin Shard
  <2>1. row \in ShardMapRecord /\ Load(row) = [row EXCEPT !.bad = TRUE, !.logical = -1]
    BY <1>3, Zenon DEF Load
  <2>2. QED
    BY <2>1, UnBad, Zenon DEF Exists
<1>4. QED
  BY <1>1, <1>2, <1>3, Zenon

\* The bucket of a key is one of the map's.
LEMMA HashInBuckets == ASSUME NEW k \in Key PROVE Hash(k) % MaxScuttleBuckets \in Bucket
<1>1. \A a \in Nat, m \in Nat \ {0} : a % m \in 0 .. m - 1
  OBVIOUS
<1>2. Number(k) \in Value \/ Number(k) = 0
  BY Zenon DEF Number, Key
<1>3. Number(k) \in Nat
  <2>1. 0 \in Nat
    BY Zenon
  <2>2. QED
    BY <1>2, <2>1, Sizes, Zenon
<1>4. Number(k) % Byte \in 0 .. Byte - 1
  BY <1>1, <1>3, ShardingAssumption, Zenon
<1>5. Hash(k) \in Nat
  BY <1>2, <1>4, Sizes, ShardingAssumption, Zenon DEF Hash
<1>6. QED
  BY <1>1, <1>5, ShardingAssumption, Zenon DEF Bucket

\* So the shard of its record exists, unless the record is marked bad.
LEMMA FirstRecordExists == ASSUME MapInv, NEW k \in Key PROVE Exists(FirstRecord(k)) /\ Exists(getShardRec(k))
<1>1. Exists(getShardRec(k))
  BY HashInBuckets, Zenon DEF getShardRec, MapInv, Exists
<1>2. wl[k] \in ShardMapRecord \cup {None}
  BY Zenon DEF MapInv
<1>3. wl[k] # None /\ wl[k].logical \in Shard => Exists(wl[k])
  BY <1>2, Zenon DEF Exists
<1>4. QED
  BY <1>1, <1>3, MadeUp, Zenon DEF FirstRecord, Whitelisted

-----------------------------------------------------------------------------
(* What PreprocessSharding finds *)

Info == [values : Seq(Key), session : -1 .. NumOfShards - 1, id : Int]

\* computeLogicalShards puts the record of the first key first.
LEMMA Computed ==
    ASSUME MapInv, NEW i \in Info
    PROVE  LET c == computeLogicalShards(i)
           IN  /\ i.values = <<>> => c.info = i /\ c.recs = <<>>
               /\ i.values # <<>> =>
                    /\ c.info \in Info /\ c.info.session = i.session /\ c.info.values # <<>>
                    /\ c.info.id = FirstRecord(i.values[1]).logical
                    /\ c.recs \in Seq(ShardMapRecord) /\ c.recs # <<>>
                    /\ c.recs[1] = FirstRecord(i.values[1])
<1> DEFINE v == i.values
           c == computeLogicalShards(i)
           recs == c.recs
<1>1. v \in Seq(Key) /\ i = [values |-> v, session |-> i.session, id |-> i.id]
  BY Zenon DEF Info
<1>2. CASE v = <<>>
  BY <1>2, Zenon DEF computeLogicalShards
<1>3. CASE v # <<>>
  <2>1. v[1] \in Key /\ \A n \in DOMAIN v : v[n] \in Key
    BY <1>1, <1>3
  <2>2. recs = IF Lenient THEN <<FirstRecord(v[1])>> ELSE [n \in DOMAIN v |-> getShardRec(v[n])]
    BY <1>3, Zenon DEF computeLogicalShards
  <2>3. recs \in Seq(ShardMapRecord) /\ recs # <<>> /\ recs[1] = FirstRecord(v[1])
    <3>1. CASE Lenient
      BY <2>1, <2>2, <3>1, FirstRecordExists DEF Exists
    <3>2. CASE ~Lenient
      <4>1. recs = [n \in 1 .. Len(v) |-> getShardRec(v[n])] /\ Len(v) \in Nat /\ Len(v) >= 1
        BY <1>1, <1>3, <2>2, <3>2
      <4>2. \A n \in 1 .. Len(v) : getShardRec(v[n]) \in ShardMapRecord
        BY <1>1, <2>1, FirstRecordExists DEF Exists
      <4>3. QED
        BY <3>2, <4>1, <4>2 DEF FirstRecord
    <3>3. QED
      BY <3>1, <3>2, Zenon
  <2>4. PICK w \in Seq(Key) : w # <<>> /\ c.info = [i EXCEPT !.id = recs[1].logical, !.values = w]
    <3>1. <<v[1]>> \in Seq(Key) /\ <<v[1]>> # <<>>
      BY <2>1
    <3>2. c.info = [i EXCEPT !.id = recs[1].logical,
                             !.values = IF Lenient /\ Len(v) > 1 /\ ~(cfg.whitelist /\ Null \in {v[1], v[2]})
                                        THEN <<v[1]>> ELSE v]
      BY <1>3, Zenon DEF computeLogicalShards
    <3>3. QED
      BY <1>1, <1>3, <3>1, <3>2, Zenon
  <2>5. recs[1].logical \in Int
    BY <2>1, <2>3, FirstRecordExists, Zenon DEF Exists, ShardMapRecord
  <2>6. c.info \in Info /\ c.info.session = i.session /\ c.info.values = w /\ c.info.id = recs[1].logical
    BY <1>1, <2>4, <2>5, Zenon DEF Info
  <2>7. QED
    BY <1>3, <2>3, <2>4, <2>6, Zenon
<1>4. QED
  BY <1>2, <1>3, Zenon

\* verifyValidShard accepts a statement on the shard of its first record, or on
\* shard 0 when that record is bad and there is a whitelist.
LEMMA Verified ==
    ASSUME NEW i \in Info, NEW recs \in Seq(ShardMapRecord), NEW read,
           i.values # <<>> => recs # <<>> /\ Exists(recs[1]) /\ i.id = recs[1].logical,
           verifyValidShard(i, recs, read).outcome = "ok"
    PROVE  LET v == verifyValidShard(i, recs, read)
           IN  /\ v.info \in Info /\ v.info.session = i.session
               /\ i.values # <<>> =>
                    /\ v.recs # <<>> /\ v.info.id = v.recs[1].logical
                    /\ v.info.id = IF recs[1].bad THEN 0 ELSE recs[1].logical
               /\ i.values = <<>> => v.info = i /\ v.recs = recs /\ (i.session # -1 \/ recs # <<>>)
<1> DEFINE v == verifyValidShard(i, recs, read)
<1>1. CASE i.values = <<>>
  <2>1. v.info = i /\ v.recs = recs
    BY <1>1, Zenon DEF verifyValidShard, BadMapping, Result
  <2>2. ~NotOneKey(i, recs)
    BY <1>1, Zenon DEF verifyValidShard, BadMapping, Hangup, Result
  <2>3. QED
    BY <1>1, <2>1, <2>2, Zenon DEF NotOneKey
<1>2. CASE i.values # <<>> /\ ~BadMapping(i, recs)
  <2>1. v.info = i /\ v.recs = recs
    BY <1>2, Zenon DEF verifyValidShard, Result
  <2>2. ~recs[1].bad
    BY <1>2, Zenon DEF BadMapping
  <2>3. QED
    BY <1>2, <2>1, <2>2, Zenon
<1>3. CASE i.values # <<>> /\ BadMapping(i, recs)
  <2>1. recs[1].bad
    BY <1>3, Sizes DEF BadMapping, Exists, Shard
  <2>2. cfg.whitelist
    BY <1>3, Zenon DEF verifyValidShard, Result, Hangup
  <2>3. v.info = [i EXCEPT !.id = 0] /\ v.recs = [recs EXCEPT ![1] = Rec(0)]
    BY <1>3, <2>2, Zenon DEF verifyValidShard, Result
  <2>4. v.info \in Info /\ v.info.session = i.session /\ v.info.id = 0
    <3>1. 0 \in Int
      OBVIOUS
    <3>2. QED
      BY <2>3, <3>1, Zenon DEF Info
  <2>5. v.recs # <<>> /\ v.recs[1] = Rec(0)
    BY <1>3, <2>3
  <2>6. QED
    BY <1>3, <2>1, <2>4, <2>5, MadeUp, Zenon
<1>4. QED
  BY <1>1, <1>2, <1>3, Zenon

\* Whatever the outcome, the information keeps its type and the session's shard.
LEMMA VerifiedType ==
    ASSUME NEW i \in Info, NEW recs, NEW read
    PROVE  LET v == verifyValidShard(i, recs, read)
           IN  v.info \in Info /\ v.info.session = i.session
<1>1. [i EXCEPT !.id = 0] \in Info /\ [i EXCEPT !.id = 0].session = i.session
  BY DEF Info
<1>2. verifyValidShard(i, recs, read).info \in {i, [i EXCEPT !.id = 0]}
  BY Zenon DEF verifyValidShard, Result
<1>3. QED
  BY <1>1, <1>2, Zenon

\* The values of the keys of a statement, in the order of their precedence.
Keys(st) == IF st.key = "right" THEN st.vals ELSE st.binds
HasKey(st) == st.binds # <<>> \/ st.key # "none"

\* The shard information with the values of the statement.
WithValues(s, st) ==
    [values |-> Keys(st), session |-> shard[s].session, id |-> IF st.binds = <<>> THEN shard[s].id ELSE 0]

\* PreprocessSharding without its local definitions.
Found(s, st) ==
    IF HasKey(st) THEN computeLogicalShards(WithValues(s, st))
    ELSE [info |-> WithValues(s, st), recs |-> <<>>]
FoundRecs(s, st) ==
    IF Found(s, st).info.values = <<>> /\ shard[s].session = -1 /\ Lenient
    THEN <<Rec(0)>> ELSE Found(s, st).recs
Checked(s, st) == verifyValidShard(Found(s, st).info, FoundRecs(s, st), st.read)

\* The types of what a statement carries.
LEMMA StatementTypes ==
    ASSUME NEW s \in Session, NEW st \in Request, shard[s] \in Info
    PROVE  /\ st.read \in BOOLEAN /\ st.binds \in Seq(Key) /\ st.vals \in Seq(Key)
           /\ st.key \in {"none", "other", "right"}
           /\ WithValues(s, st) \in Info /\ Keys(st) \in Seq(Key)
<1>1. /\ st.read \in BOOLEAN /\ st.binds \in Seq(Key) /\ st.vals \in Seq(Key)
      /\ st.key \in {"none", "other", "right"}
  BY Zenon DEF Request
<1>2. Keys(st) \in Seq(Key)
  BY <1>1, Zenon DEF Keys
<1>3. QED
  BY <1>1, <1>2 DEF WithValues, Info

\* What has been found of a statement.
LEMMA FoundFacts ==
    ASSUME MapInv, NEW s \in Session, NEW st \in Request, shard[s] \in Info
    PROVE  /\ Found(s, st).info \in Info /\ Found(s, st).info.session = shard[s].session
           /\ FoundRecs(s, st) \in Seq(ShardMapRecord)
           /\ Keys(st) = <<>> =>
                /\ Found(s, st).info = WithValues(s, st) /\ Found(s, st).info.values = <<>>
                /\ FoundRecs(s, st) = IF shard[s].session = -1 /\ Lenient THEN <<Rec(0)>> ELSE <<>>
           /\ Keys(st) # <<>> =>
                /\ Found(s, st).info.values # <<>> /\ FoundRecs(s, st) # <<>>
                /\ FoundRecs(s, st)[1] = FirstRecord(Keys(st)[1])
                /\ Found(s, st).info.id = FirstRecord(Keys(st)[1]).logical
<1> DEFINE i == WithValues(s, st)
<1>1. i \in Info /\ i.values = Keys(st) /\ i.session = shard[s].session
  BY StatementTypes, Zenon DEF WithValues
<1>2. Keys(st) # <<>> => HasKey(st)
  BY StatementTypes, Zenon DEF Keys, HasKey
<1>3. CASE Keys(st) = <<>>
  <2>1. Found(s, st).info = i /\ Found(s, st).recs = <<>>
    BY <1>1, <1>3, Computed, Zenon DEF Found
  <2>2. FoundRecs(s, st) = IF shard[s].session = -1 /\ Lenient THEN <<Rec(0)>> ELSE <<>>
    BY <1>1, <1>3, <2>1, Zenon DEF FoundRecs
  <2>3. <<Rec(0)>> \in Seq(ShardMapRecord) /\ <<>> \in Seq(ShardMapRecord)
    BY MadeUp DEF Exists
  <2>4. QED
    BY <1>1, <1>3, <2>1, <2>2, <2>3, Zenon
<1>4. CASE Keys(st) # <<>>
  <2>1. Found(s, st) = computeLogicalShards(i)
    BY <1>2, <1>4, Zenon DEF Found
  <2>2. /\ Found(s, st).info \in Info /\ Found(s, st).info.session = i.session
        /\ Found(s, st).info.values # <<>>
        /\ Found(s, st).info.id = FirstRecord(Keys(st)[1]).logical
        /\ Found(s, st).recs \in Seq(ShardMapRecord) /\ Found(s, st).recs # <<>>
        /\ Found(s, st).recs[1] = FirstRecord(Keys(st)[1])
    BY <1>1, <1>4, <2>1, Computed
  <2>3. FoundRecs(s, st) = Found(s, st).recs
    BY <2>2, Zenon DEF FoundRecs
  <2>4. QED
    BY <1>1, <1>4, <2>2, <2>3, Zenon
<1>5. QED
  BY <1>3, <1>4, Zenon

\* PreprocessSharding refuses keys after HERA_SET_SHARD_ID and keys of another
\* name, and otherwise looks up, checks and in a transaction compares.
LEMMA Preprocess ==
    ASSUME MapInv, NEW s \in Session, NEW st \in Request, shard[s] \in Info
    PROVE  PreprocessSharding(s, st) =
             IF shard[s].session # -1 /\ HasKey(st)
             THEN Result([shard[s] EXCEPT !.values = <<>>], <<>>, "hangup")
             ELSE IF st.key = "other" /\ ~Lenient THEN Result(Discovered(s, st), <<>>, "reject")
             ELSE IF Checked(s, st).outcome = "ok" /\ inTxn[s]
             THEN [Checked(s, st) EXCEPT !.outcome = verifyXShard(copyShardInfo(s), Checked(s, st).info,
                                                                 Checked(s, st).recs, st.read)]
             ELSE Checked(s, st)
<1> DEFINE i0 == Discovered(s, st)
           i1 == IF st.key = "right" THEN [i0 EXCEPT !.values = st.vals] ELSE i0
           c == IF st.key # "none" \/ st.binds # << >> THEN computeLogicalShards(i1)
                ELSE [info |-> i1, recs |-> << >>]
           recs == IF c.info.values = << >> /\ c.info.session = -1 /\ Lenient
                   THEN <<Rec(0)>> ELSE c.recs
<1>1. i1 = WithValues(s, st)
  BY Zenon DEF Discovered, WithValues, Keys, Info
<1>2. c = Found(s, st)
  BY <1>1, Zenon DEF Found, HasKey
<1>3. recs = FoundRecs(s, st)
  <2>1. Found(s, st).info.session = shard[s].session
    BY FoundFacts, Zenon
  <2> HIDE DEF c
  <2>2. QED
    BY <1>2, <2>1, Zenon DEF FoundRecs
<1>4. verifyValidShard(c.info, recs, st.read) = Checked(s, st)
  BY <1>2, <1>3, Zenon DEF Checked
<1>5. PreprocessSharding(s, st) =
        LET v == verifyValidShard(c.info, recs, st.read)
        IN  IF shard[s].session # -1 /\ HasKey(st)
            THEN Result([shard[s] EXCEPT !.values = << >>], << >>, "hangup")
            ELSE IF st.key = "other" /\ ~Lenient THEN Result(i0, << >>, "reject")
            ELSE IF v.outcome = "ok" /\ inTxn[s]
            THEN [v EXCEPT !.outcome = verifyXShard(copyShardInfo(s), v.info, v.recs, st.read)]
            ELSE v
  BY Zenon DEF PreprocessSharding, HasKey
<1> HIDE DEF c, recs
<1>6. QED
  BY <1>4, <1>5, Zenon

\* The shard a statement names exists.
LEMMA NamesExist ==
    ASSUME MapInv, NEW s \in Session, NEW st \in Request, shard[s] \in Info
    PROVE  /\ Names(s, st) \in Shard \cup {None}
           /\ Names(s, st) = IF shard[s].session # -1 THEN shard[s].session
                             ELSE IF Keys(st) = <<>> THEN None
                             ELSE IF FirstRecord(Keys(st)[1]).bad THEN 0
                             ELSE FirstRecord(Keys(st)[1]).logical
<1>1. Names(s, st) = IF shard[s].session # -1 THEN shard[s].session
                     ELSE IF Keys(st) = <<>> THEN None
                     ELSE IF FirstRecord(Keys(st)[1]).bad THEN 0
                     ELSE FirstRecord(Keys(st)[1]).logical
  BY Zenon DEF Names, Keys, FirstRecord
<1>2. shard[s].session # -1 => shard[s].session \in Shard
  BY Sizes DEF Info, Shard
<1>3. Keys(st) # <<>> => Keys(st)[1] \in Key
  BY StatementTypes
<1>4. QED
  BY <1>1, <1>2, <1>3, FirstRecordExists, Sizes, Zenon DEF Exists

\* The shard information with other values.
LEMMA OtherValues ==
    ASSUME NEW i \in Info, NEW w \in Seq(Key)
    PROVE  [i EXCEPT !.values = w] \in Info /\ [i EXCEPT !.values = w].session = i.session
BY Zenon DEF Info

\* Without a whitelist or keys nothing is checked for a session that set its shard.
LEMMA SessionChecked ==
    ASSUME MapInv, NEW s \in Session, NEW st \in Request, shard[s] \in Info,
           shard[s].session # -1, ~HasKey(st)
    PROVE  Checked(s, st).outcome = "ok" /\ Checked(s, st).info.id = shard[s].id
<1> DEFINE i == Found(s, st).info
<1>1. st.binds = <<>> /\ Keys(st) = <<>>
  BY Zenon DEF HasKey, Keys
<1>2. /\ i.values = <<>> /\ i.session # -1 /\ i.id = shard[s].id
      /\ FoundRecs(s, st) = <<>>
  <2>1. /\ i = WithValues(s, st) /\ i.values = <<>>
        /\ FoundRecs(s, st) = IF shard[s].session = -1 /\ Lenient THEN <<Rec(0)>> ELSE <<>>
    BY <1>1, FoundFacts, Zenon
  <2>2. i.session = shard[s].session /\ i.id = shard[s].id
    BY <1>1, <2>1 DEF WithValues
  <2> HIDE DEF i
  <2>3. QED
    BY <2>1, <2>2, Zenon
<1>3. ~BadMapping(i, <<>>) /\ ~NotOneKey(i, <<>>) /\ ~MarkedDown(<<>>, st.read)
  BY <1>2 DEF BadMapping, NotOneKey, MarkedDown
<1>4. QED
  BY <1>2, <1>3, Zenon DEF Checked, verifyValidShard, Result

\* PreprocessSharding lets a statement pass with the shard of the session, or
\* with the shard of its first key; in a transaction a write stays where the
\* transaction is.
LEMMA Preprocessed ==
    ASSUME MapInv, NEW s \in Session, NEW st \in Request, shard[s] \in Info
    PROVE  LET p == PreprocessSharding(s, st)
           IN  /\ p.info \in Info /\ p.info.session = shard[s].session
               /\ p.outcome = "reject" => shard[s].session = -1
               /\ p.outcome = "ok" =>
                    /\ shard[s].session # -1 => p.info.id = shard[s].id
                    /\ shard[s].session = -1 /\ Names(s, st) # None => p.info.id = Names(s, st)
                    /\ inTxn[s] /\ ~st.read => p.info.id = shard[s].id
<1> DEFINE p == PreprocessSharding(s, st)
           i == Found(s, st).info
           v == Checked(s, st)
<1>1. v.info \in Info /\ v.info.session = shard[s].session
  BY FoundFacts, VerifiedType DEF Checked
<1>2. CASE shard[s].session # -1 /\ HasKey(st)
  <2>1. p = Result([shard[s] EXCEPT !.values = <<>>], <<>>, "hangup")
    BY <1>2, Preprocess, Zenon
  <2>2. QED
    <3>1. <<>> \in Seq(Key)
      OBVIOUS
    <3>2. [shard[s] EXCEPT !.values = <<>>] \in Info /\ [shard[s] EXCEPT !.values = <<>>].session = shard[s].session
      BY <3>1, OtherValues, Zenon
    <3>3. p.info = [shard[s] EXCEPT !.values = <<>>] /\ p.outcome = "hangup"
      BY <2>1 DEF Result
    <3>4. QED
      BY <3>2, <3>3, Zenon
<1>3. CASE ~(shard[s].session # -1 /\ HasKey(st)) /\ st.key = "other" /\ ~Lenient
  <2>1. p = Result(Discovered(s, st), <<>>, "reject")
    BY <1>3, Preprocess, Zenon
  <2>2. Discovered(s, st) \in Info /\ Discovered(s, st).session = shard[s].session
    <3>1. <<>> \in Seq(Key)
      OBVIOUS
    <3>2. st.binds # <<>> => Discovered(s, st) \in Info /\ Discovered(s, st).session = shard[s].session
      BY StatementTypes DEF Discovered, Info
    <3>3. QED
      BY <3>1, <3>2, OtherValues, Zenon DEF Discovered
  <2>3. shard[s].session = -1
    BY <1>3, Zenon DEF HasKey
  <2>4. QED
    BY <2>1, <2>2, <2>3 DEF Result
<1>4. CASE ~(shard[s].session # -1 /\ HasKey(st)) /\ ~(st.key = "other" /\ ~Lenient)
  <2>1. p = IF v.outcome = "ok" /\ inTxn[s]
            THEN [v EXCEPT !.outcome = verifyXShard(copyShardInfo(s), v.info, v.recs, st.read)]
            ELSE v
    BY <1>4, Preprocess, Zenon
  <2>2. v = [info |-> v.info, recs |-> v.recs, outcome |-> v.outcome]
    BY Zenon DEF Checked, verifyValidShard, Result
  <2>3. /\ p.info = v.info
        /\ p.outcome = IF v.outcome = "ok" /\ inTxn[s]
                       THEN verifyXShard(copyShardInfo(s), v.info, v.recs, st.read) ELSE v.outcome
    BY <2>1, <2>2, Zenon
  <2>4. verifyXShard(copyShardInfo(s), v.info, v.recs, st.read) \in {"ok", "hangup"}
    BY Zenon DEF verifyXShard
  <2>5. CASE shard[s].session # -1
    <3>1. v.outcome = "ok" /\ v.info.id = shard[s].id
      BY <1>4, <2>5, SessionChecked, Zenon
    <3>2. QED
      BY <1>1, <2>3, <2>4, <2>5, <3>1, Zenon
  <2>6. CASE shard[s].session = -1 /\ p.outcome = "ok"
    <3>1. v.outcome = "ok" /\ (inTxn[s] => verifyXShard(shard[s], v.info, v.recs, st.read) = "ok")
      BY <2>3, <2>6, Zenon DEF copyShardInfo
    <3>2. inTxn[s] /\ ~st.read /\ v.recs # <<>> => shard[s].id = v.recs[1].logical
      BY <3>1, Zenon DEF verifyXShard
    <3>3. CASE Keys(st) # <<>>
      <4>1. /\ v.recs # <<>> /\ v.info.id = v.recs[1].logical
            /\ v.info.id = IF FirstRecord(Keys(st)[1]).bad THEN 0 ELSE FirstRecord(Keys(st)[1]).logical
        <5>1. Keys(st)[1] \in Key
          BY <3>3, StatementTypes
        <5>2. Exists(FirstRecord(Keys(st)[1]))
          BY <5>1, FirstRecordExists, Zenon
        <5>3. QED
          BY <3>1, <3>3, <5>2, FoundFacts, Verified DEF Checked
      <4>2. Names(s, st) = v.info.id
        BY <2>6, <3>3, <4>1, NamesExist, Zenon
      <4>3. QED
        BY <1>1, <2>3, <2>6, <3>2, <4>1, <4>2, Zenon
    <3>4. CASE Keys(st) = <<>>
      <4>1. Names(s, st) = None
        BY <2>6, <3>4, NamesExist, Zenon
      <4>2. v.info = WithValues(s, st) /\ v.recs = <<Rec(0)>>
        BY <2>6, <3>1, <3>4, FoundFacts, Verified DEF Checked
      <4>3. inTxn[s] /\ ~st.read => v.info.id = shard[s].id
        BY <3>2, <4>2, MadeUp DEF WithValues
      <4>4. QED
        BY <1>1, <2>3, <2>6, <4>1, <4>3, Zenon
    <3>5. QED
      BY <3>3, <3>4, Zenon
  <2>7. CASE shard[s].session = -1 /\ p.outcome # "ok"
    BY <1>1, <2>3, <2>7, Zenon
  <2>8. QED
    BY <2>5, <2>6, <2>7, Zenon
<1>5. QED
  BY <1>2, <1>3, <1>4, Zenon

-----------------------------------------------------------------------------
(* The sessions *)

\* A session that was told its shard has it.
Follows(i) == i.session # -1 => i.id = i.session

\* The shard of a session that was not led astray is the one of the worker it
\* holds; prevShard is, while it reads from another.
Settled(s) ==
    /\ at[s] = "idle" /\ worker[s] # None => shard[s].id = worker[s]
    /\ at[s] \in {"idle", "wait", "run"} => Follows(shard[s])
    /\ at[s] \in {"wait", "run", "panic"} =>
         /\ IF xread[s] THEN worker[s] # None /\ prev[s].id = worker[s] /\ Follows(prev[s])
            ELSE got[s] = shard[s].id
         /\ named[s] # None => got[s] = named[s]

SessionInv(s) ==
    /\ shard[s] \in Info /\ prev[s] \in Info
    /\ ~strayed[s] => Settled(s)
    /\ named[s] \in Shard \cup {None}
    /\ at[s] = "panic" => got[s] \notin Shard

Functions ==
    /\ DOMAIN at = Session /\ DOMAIN shard = Session /\ DOMAIN prev = Session /\ DOMAIN worker = Session
    /\ DOMAIN got = Session /\ DOMAIN xread = Session /\ DOMAIN named = Session /\ DOMAIN strayed = Session

ShardInv == MapInv /\ Functions /\ \A s \in Session : SessionInv(s)

\* Nothing of session s that the invariant reads changes.
Same(s) ==
    /\ at'[s] = at[s] /\ shard'[s] = shard[s] /\ prev'[s] = prev[s] /\ worker'[s] = worker[s]
    /\ got'[s] = got[s] /\ xread'[s] = xread[s] /\ named'[s] = named[s] /\ strayed'[s] = strayed[s]

\* The others are not touched by a step of session s.
Others(s) == Functions' /\ \A t \in Session \ {s} : Same(t)

\* A session that is not touched keeps its part of the invariant.
LEMMA SameInv == ASSUME NEW s \in Session, SessionInv(s), Same(s) PROVE SessionInv(s)'
BY Zenon DEF SessionInv, Settled, Same, Follows

\* The step of a session leaves the others and the map alone.
LEMMA StepFrame == ASSUME ShardInv, NEW s \in Session, SessionStep(s) PROVE Others(s) /\ MapInv'
<1>1. Functions
  BY Zenon DEF ShardInv
<1>2. ASSUME Ask(s) PROVE Others(s)
  <2> DEFINE p(st) == PreprocessSharding(s, st)
             switch == worker[s] # None /\ ~inTxn[s]
  <2>1. PICK st :
          /\ Set(shard, s, p(st).info) /\ Set(prev, s, copyShardInfo(s))
          /\ IF p(st).outcome = "ok"
             THEN /\ Set(named, s, Names(s, st))
                  /\ Set(worker, s, IF switch THEN None ELSE worker[s])
                  /\ Set(strayed, s, strayed[s] /\ (switch => Stale(s)))
                  /\ dispatchRequest(s, p(st).info, worker'[s], st.read)
             ELSE /\ Set(at, s, IF p(st).outcome = "reject" THEN "idle" ELSE "hungup")
                  /\ Set(strayed, s, worker[s] # None)
                  /\ UNCHANGED <<worker, got, xread, named>>
    BY <1>2, Zenon DEF Ask
  <2> HIDE DEF p, switch
  <2>2. CASE p(st).outcome = "ok"
    BY <1>1, <2>1, <2>2 DEF dispatchRequest, Functions, Others, Same
  <2>3. CASE p(st).outcome # "ok"
    BY <1>1, <2>1, <2>3, Zenon DEF Functions, Others, Same
  <2>4. QED
    BY <2>2, <2>3, Zenon
<1>3. ASSUME AskBare(s) PROVE Others(s)
  BY <1>1, <1>3 DEF AskBare, dispatchRequest, infovars, Functions, Others, Same
<1>4. ASSUME processSetShardID(s) PROVE Others(s)
  BY <1>1, <1>4, Zenon DEF processSetShardID, Functions, Others, Same
<1>5. ASSUME GetWorker(s) PROVE Others(s)
  BY <1>1, <1>5, Zenon DEF GetWorker, infovars, Functions, Others, Same
<1>6. ASSUME BacklogTimeout(s) \/ Fails(s) \/ Leave(s) PROVE Others(s)
  BY <1>1, <1>6 DEF BacklogTimeout, Fails, Leave, End, Functions, Others, Same
<1>7. ASSUME Answer(s) PROVE Others(s)
  BY <1>1, <1>7 DEF Answer, Restore, Functions, Others, Same
<1>8. UNCHANGED mapvars
  <2>1. Ask(s) \/ AskBare(s) \/ processSetShardID(s) => UNCHANGED mapvars
    BY Zenon DEF Ask, AskBare, processSetShardID
  <2>2. GetWorker(s) \/ BacklogTimeout(s) \/ Fails(s) \/ Leave(s) \/ Answer(s) => UNCHANGED mapvars
    BY Zenon DEF GetWorker, BacklogTimeout, Fails, Leave, Answer
  <2>3. QED
    BY <2>1, <2>2, Zenon DEF SessionStep
<1>9. MapInv'
  BY <1>8, Zenon DEF ShardInv, MapInv, mapvars
<1>10. QED
  BY <1>2, <1>3, <1>4, <1>5, <1>6, <1>7, <1>9, Zenon DEF SessionStep

\* What the handlers make of shard information keeps its type.
LEMMA Infos ==
    /\ NoInfo \in Info
    /\ \A i \in Info, j \in Info : [i EXCEPT !.session = j.session] \in Info
<1>1. \A n \in -1 .. NumOfShards - 1, d \in Int, w \in Seq(Key) :
        [values |-> w, session |-> n, id |-> d] \in Info
  BY Zenon DEF Info
<1>2. <<>> \in Seq(Key) /\ -1 \in -1 .. NumOfShards - 1 /\ 0 \in Int
  BY Sizes
<1>3. NoInfo \in Info
  BY <1>1, <1>2, Zenon DEF NoInfo
<1>4. QED
  BY <1>3, Zenon DEF Info

\* So does what HERA_SET_SHARD_ID makes of it.
LEMMA NewInfo ==
    ASSUME NEW i \in Info, NEW n \in -1 .. NumOfShards - 1, NEW d \in Int
    PROVE  [i EXCEPT !.session = n, !.id = d] \in Info
BY Zenon DEF Info

\* dispatchRequest runs a request on the shard of its information, provided a
\* write has the shard of the worker held.
LEMMA Dispatched ==
    ASSUME NEW s \in Session, NEW i, NEW w, NEW read, Functions, dispatchRequest(s, i, w, read)
    PROVE  /\ at'[s] \in {"wait", "run", "panic"} /\ (at'[s] = "panic" => got'[s] \notin Shard)
           /\ xread'[s] = (w # None /\ read /\ i.id # w)
           /\ (w # None /\ ~read => i.id = w) => got'[s] = i.id
BY Zenon DEF dispatchRequest, Functions

\* What arrives of a statement is one.
LEMMA Arrives == ASSUME NEW s \in Session, NEW req \in Statement[s] PROVE SubNetstrings(req) \in Request
<1>1. req \in Request /\ <<>> \in Seq(Key)
  BY ShardingAssumption
<1>2. [req EXCEPT !.binds = <<>>, !.key = "none"] \in Request
  BY <1>1, Zenon DEF Request
<1>3. QED
  BY <1>1, <1>2, Zenon DEF SubNetstrings

\* A statement is dispatched to the shard looked up for it, and prevShard keeps
\* the shard of the worker held.
LEMMA AskInv == ASSUME ShardInv, NEW s \in Session, Ask(s) PROVE SessionInv(s)'
<1>1. PICK st \in Request :
        LET p == PreprocessSharding(s, st)
            switch == worker[s] # None /\ ~inTxn[s]
        IN  /\ at[s] = "idle"
            /\ Set(shard, s, p.info) /\ Set(prev, s, copyShardInfo(s))
            /\ IF p.outcome = "ok"
               THEN /\ Set(named, s, Names(s, st))
                    /\ Set(worker, s, IF switch THEN None ELSE worker[s])
                    /\ Set(strayed, s, strayed[s] /\ (switch => Stale(s)))
                    /\ dispatchRequest(s, p.info, worker'[s], st.read)
               ELSE /\ Set(at, s, IF p.outcome = "reject" THEN "idle" ELSE "hungup")
                    /\ Set(strayed, s, worker[s] # None)
                    /\ UNCHANGED <<worker, got, xread, named>>
  BY Arrives, Zenon DEF Ask, CanAsk
<1> DEFINE p == PreprocessSharding(s, st)
           w == worker'[s]
<1>2. MapInv /\ Functions /\ SessionInv(s) /\ shard[s] \in Info /\ prev[s] \in Info
  BY Zenon DEF ShardInv, SessionInv
<1>3. /\ p.info \in Info /\ p.info.session = shard[s].session
      /\ p.outcome = "reject" => shard[s].session = -1
      /\ p.outcome = "ok" =>
           /\ shard[s].session # -1 => p.info.id = shard[s].id
           /\ shard[s].session = -1 /\ Names(s, st) # None => p.info.id = Names(s, st)
           /\ inTxn[s] /\ ~st.read => p.info.id = shard[s].id
  BY <1>2, Preprocessed, Zenon
<1>4. copyShardInfo(s) \in Info /\ (inTxn[s] => copyShardInfo(s) = shard[s])
  BY <1>2, Infos, Zenon DEF copyShardInfo
<1>5. shard'[s] = p.info /\ prev'[s] = copyShardInfo(s)
  BY <1>1, <1>2, Zenon DEF Functions
<1> HIDE DEF p
<1>6. CASE p.outcome = "ok"
  <2>1. /\ named'[s] = Names(s, st) /\ dispatchRequest(s, p.info, w, st.read)
        /\ w = IF worker[s] # None /\ ~inTxn[s] THEN None ELSE worker[s]
        /\ strayed'[s] = (strayed[s] /\ (worker[s] # None /\ ~inTxn[s] => Stale(s)))
    BY <1>1, <1>2, <1>6, Zenon DEF Functions, p
  <2>2. /\ Names(s, st) \in Shard \cup {None}
        /\ shard[s].session # -1 => Names(s, st) = shard[s].session
    BY <1>2, NamesExist, Zenon
  <2> HIDE DEF w
  <2>3. /\ at'[s] \in {"wait", "run", "panic"} /\ (at'[s] = "panic" => got'[s] \notin Shard)
        /\ xread'[s] = (w # None /\ st.read /\ p.info.id # w)
        /\ (w # None /\ ~st.read => p.info.id = w) => got'[s] = p.info.id
    <3>1. Functions /\ dispatchRequest(s, p.info, w, st.read)
      BY <1>2, <2>1, Zenon
    <3>2. QED
      BY <3>1, Dispatched
  <2>4. ASSUME ~strayed'[s] PROVE Settled(s)'
    <3>1. Follows(shard[s])
      BY <1>1, <1>2, <2>1, <2>4, Zenon DEF SessionInv, Settled, Stale, Follows
    <3>2. w # None => inTxn[s] /\ shard[s].id = w
      BY <1>1, <1>2, <2>1, <2>4, Zenon DEF SessionInv, Settled
    <3>3. got'[s] = p.info.id
      BY <1>3, <1>6, <2>3, <3>2, Zenon
    <3>4. Follows(p.info)
      BY <1>3, <1>6, <3>1, Zenon DEF Follows
    <3>5. Names(s, st) # None => got'[s] = Names(s, st)
      BY <1>3, <1>6, <2>2, <3>1, <3>3, Zenon DEF Follows
    <3>6. xread'[s] => w # None /\ prev'[s].id = w /\ Follows(prev'[s])
      BY <1>4, <1>5, <2>3, <3>1, <3>2, Zenon
    <3>7. QED
      BY <1>5, <2>1, <2>3, <3>3, <3>4, <3>5, <3>6, Zenon DEF Settled, w, Follows
  <2>5. QED
    BY <1>3, <1>4, <1>5, <2>1, <2>2, <2>3, <2>4, Zenon DEF SessionInv
<1>7. CASE p.outcome # "ok"
  <2>1. /\ at'[s] = (IF p.outcome = "reject" THEN "idle" ELSE "hungup")
        /\ strayed'[s] = (worker[s] # None) /\ worker'[s] = worker[s] /\ named'[s] = named[s]
    BY <1>1, <1>2, <1>7, Zenon DEF Functions, p
  <2>2. p.outcome = "reject" => Follows(p.info)
    BY <1>3, Zenon DEF Follows
  <2>3. QED
    BY <1>2, <1>3, <1>4, <1>5, <2>1, <2>2, Zenon DEF SessionInv, Settled, Follows
<1>8. QED
  BY <1>6, <1>7, Zenon

\* A prepare, commit or fetch by itself goes where the session is.
LEMMA AskBareInv == ASSUME ShardInv, NEW s \in Session, AskBare(s) PROVE SessionInv(s)'
<1>1. PICK read \in BOOLEAN :
        /\ at[s] = "idle" /\ Set(named, s, None) /\ dispatchRequest(s, shard[s], worker[s], read)
        /\ UNCHANGED <<shard, prev, worker, strayed>>
  BY Zenon DEF AskBare, CanAsk, infovars
<1>2. Functions /\ SessionInv(s)
  BY Zenon DEF ShardInv
<1>3. /\ at'[s] \in {"wait", "run", "panic"} /\ (at'[s] = "panic" => got'[s] \notin Shard)
      /\ xread'[s] = (worker[s] # None /\ read /\ shard[s].id # worker[s])
      /\ (worker[s] # None /\ ~read => shard[s].id = worker[s]) => got'[s] = shard[s].id
  BY <1>1, <1>2, Dispatched, Zenon
<1>4. named'[s] = None
  BY <1>1, <1>2, Zenon DEF Functions
<1>5. QED
  BY <1>1, <1>2, <1>3, <1>4, Zenon DEF SessionInv, Settled, Follows

\* HERA_SET_SHARD_ID gives a session its shard, and leads it astray only if it
\* holds a worker.
LEMMA SetShardIDInv == ASSUME ShardInv, NEW s \in Session, processSetShardID(s) PROVE SessionInv(s)'
<1>1. PICK i \in -1 .. NumOfShards :
        LET valid == i < NumShards
            moved == inTxn[s] /\ worker[s] # None /\ worker[s] # i
        IN  /\ Set(shard, s, IF ~valid THEN shard[s]
                             ELSE [shard[s] EXCEPT
                                     !.session = i,
                                     !.id = IF moved THEN @
                                            ELSE IF cfg.whitelist /\ i = -1 THEN 0 ELSE i])
            /\ Set(at, s, IF valid /\ ~moved THEN "idle" ELSE "hungup")
            /\ Set(strayed, s, worker[s] # None)
            /\ UNCHANGED <<prev, worker, named>>
  BY Zenon DEF processSetShardID
<1> DEFINE moved == inTxn[s] /\ worker[s] # None /\ worker[s] # i
           d == IF moved THEN shard[s].id ELSE IF cfg.whitelist /\ i = -1 THEN 0 ELSE i
<1>2. Functions /\ SessionInv(s) /\ shard[s] \in Info
  BY Zenon DEF ShardInv, SessionInv
<1>3. d \in Int /\ i \in Int
  BY <1>2, Sizes DEF Info
<1>4. CASE i < NumShards
  <2>1. i \in -1 .. NumOfShards - 1
    BY <1>4, Sizes DEF NumShards
  <2>2. shard'[s] = [shard[s] EXCEPT !.session = i, !.id = d]
    BY <1>1, <1>2, <1>4, Zenon DEF Functions
  <2>3. shard'[s] \in Info /\ shard'[s].session = i /\ shard'[s].id = d
    <3> HIDE DEF d
    <3>1. [shard[s] EXCEPT !.session = i, !.id = d] \in Info
      BY <1>2, <1>3, <2>1, NewInfo, Zenon
    <3>2. [shard[s] EXCEPT !.session = i, !.id = d].session = i
      BY <1>2, Zenon DEF Info
    <3>3. [shard[s] EXCEPT !.session = i, !.id = d].id = d
      BY <1>2, Zenon DEF Info
    <3>4. QED
      BY <2>2, <3>1, <3>2, <3>3, Zenon
  <2>4. at'[s] = (IF moved THEN "hungup" ELSE "idle") /\ strayed'[s] = (worker[s] # None)
    BY <1>1, <1>2, <1>4, Zenon DEF Functions
  <2>5. ~moved => (i # -1 => d = i)
    BY Zenon
  <2>6. prev'[s] = prev[s] /\ worker'[s] = worker[s] /\ named'[s] = named[s]
    BY <1>1, Zenon
  <2> HIDE DEF moved, d
  <2>7. at'[s] = "idle" => Follows(shard'[s])
    BY <2>3, <2>4, <2>5, Zenon DEF Follows
  <2>8. QED
    BY <1>2, <2>3, <2>4, <2>6, <2>7, Zenon DEF SessionInv, Settled, Follows
<1>5. CASE ~(i < NumShards)
  <2>1. shard'[s] = shard[s] /\ at'[s] = "hungup"
    BY <1>1, <1>2, <1>5, Zenon DEF Functions
  <2>2. QED
    BY <1>1, <1>2, <2>1, Zenon DEF SessionInv, Settled
<1>6. QED
  BY <1>4, <1>5, Zenon

\* A session that ends has nothing left.
LEMMA EndInv == ASSUME ShardInv, NEW s \in Session, End(s) PROVE SessionInv(s)'
<1>1. /\ at'[s] = "over" /\ shard'[s] = NoInfo /\ prev'[s] = NoInfo /\ named'[s] = None
  BY Zenon DEF End, ShardInv, Functions
<1>2. QED
  BY <1>1, Infos, Zenon DEF SessionInv, Settled

\* After the answer the session has the shard of the worker it keeps, prevShard
\* brought back if it had read from another.
LEMMA AnswerInv == ASSUME ShardInv, NEW s \in Session, Answer(s) PROVE SessionInv(s)'
<1>1. PICK a \in {"cursor", "txn", "free"} :
        /\ at[s] = "run" /\ Set(at, s, "idle") /\ Restore(s)
        /\ IF a # "free" /\ ~xread[s]
           THEN Set(worker, s, got[s]) /\ UNCHANGED strayed
           ELSE /\ Set(worker, s, IF xread[s] THEN worker[s] ELSE None)
                /\ Set(strayed, s, strayed[s] /\ (xread[s] \/ Stale(s)))
        /\ Set(named, s, None) /\ UNCHANGED prev
  BY Zenon DEF Answer
<1>2. Functions /\ SessionInv(s)
  BY Zenon DEF ShardInv
<1>3. at'[s] = "idle" /\ named'[s] = None /\ prev' = prev
  BY <1>1, <1>2, Zenon DEF Functions
<1>4. CASE xread[s]
  <2>1. shard'[s] = prev[s] /\ worker'[s] = worker[s] /\ (strayed[s] => strayed'[s])
    BY <1>1, <1>2, <1>4, Zenon DEF Functions, Restore
  <2>2. QED
    BY <1>1, <1>2, <1>3, <1>4, <2>1, Zenon DEF SessionInv, Settled, Follows
<1>5. CASE ~xread[s] /\ a # "free"
  <2>1. shard'[s] = shard[s] /\ worker'[s] = got[s] /\ strayed'[s] = strayed[s]
    BY <1>1, <1>2, <1>5, Zenon DEF Functions, Restore
  <2>2. QED
    BY <1>1, <1>2, <1>3, <1>5, <2>1, Zenon DEF SessionInv, Settled, Follows
<1>6. CASE ~xread[s] /\ a = "free"
  <2>1. shard'[s] = shard[s] /\ worker'[s] = None /\ strayed'[s] = (strayed[s] /\ Stale(s))
    BY <1>1, <1>2, <1>6, Zenon DEF Functions, Restore
  <2>2. QED
    BY <1>1, <1>2, <1>3, <1>6, <2>1, Zenon DEF SessionInv, Settled, Follows, Stale
<1>7. QED
  BY <1>4, <1>5, <1>6, Zenon

\* Every step keeps the invariant.
LEMMA NextShardInv == ASSUME ShardInv, [Next]_vars PROVE ShardInv'
<1>1. ASSUME NEW s \in Session, SessionStep(s) PROVE ShardInv'
  <2>1. SessionInv(s)'
    <3>1. CASE GetWorker(s)
      BY <3>1, Zenon DEF GetWorker, ShardInv, Functions, SessionInv, Settled, Follows, infovars
    <3>2. CASE BacklogTimeout(s) \/ Fails(s) \/ Leave(s)
      BY <3>2, EndInv, Zenon DEF BacklogTimeout, Fails, Leave
    <3>3. QED
      BY <1>1, <3>1, <3>2, AskInv, AskBareInv, SetShardIDInv, AnswerInv, Zenon DEF SessionStep
  <2>2. Functions' /\ MapInv' /\ \A t \in Session \ {s} : Same(t)
    BY <1>1, StepFrame, Zenon DEF Others
  <2>3. \A t \in Session \ {s} : SessionInv(t)'
    BY <2>2, SameInv, Zenon DEF ShardInv
  <2>4. QED
    BY <2>1, <2>2, <2>3, Zenon DEF ShardInv
<1>2. CASE loadMap
  <2>1. PICK t \in Table : records' = [b \in Bucket |-> Load(t[b])]
    BY <1>2, Zenon DEF loadMap
  <2>2. \A b \in Bucket : t[b] \in ShardMapRecord \cup {None}
    BY ShardingAssumption, Zenon
  <2>3. MapInv'
    BY <1>2, <2>1, <2>2, Loaded, Zenon DEF loadMap, MapInv, ShardInv, Exists
  <2>4. QED
    BY <1>2, <2>3, SameInv, Zenon DEF loadMap, ShardInv, Functions, Same, infovars
<1>3. CASE loadWhitelist
  <2>1. MapInv'
    BY <1>3, ShardingAssumption, Zenon DEF loadWhitelist, MapInv, ShardInv
  <2>2. QED
    BY <1>3, <2>1, SameInv, Zenon DEF loadWhitelist, ShardInv, Functions, Same, infovars
<1>4. CASE UNCHANGED vars \/ \E i \in Shard : Recovered(i)
  BY <1>4, SameInv, Zenon DEF Recovered, vars, ShardInv, MapInv, Functions, Same, infovars, mapvars
<1>5. QED
  BY <1>1, <1>2, <1>3, <1>4, Zenon DEF Next

\* It holds of a map and a whitelist just loaded, with no session started.
LEMMA InitShardInv == ASSUME Init PROVE ShardInv
<1>1. \A b \in Bucket : Exists(records[b])
  <2>1. CASE cfg.useMap
    <3>1. PICK t \in Table : records = [b \in Bucket |-> Load(t[b])]
      BY <2>1, Zenon DEF Init
    <3>2. \A b \in Bucket : t[b] \in ShardMapRecord \cup {None}
      BY ShardingAssumption, Zenon
    <3>3. QED
      BY <3>1, <3>2, Loaded, Zenon
  <2>2. CASE ~cfg.useMap
    BY <2>2, MadeUp, Zenon DEF Init
  <2>3. QED
    BY <2>1, <2>2, Zenon
<1>2. records \in [Bucket -> ShardMapRecord]
  <2>1. DOMAIN records = Bucket /\ records = [b \in Bucket |-> records[b]]
    BY Zenon DEF Init
  <2>2. QED
    BY <1>1, <2>1, Zenon DEF Exists
<1>3. wl \in [Key -> ShardMapRecord \cup {None}]
  BY ShardingAssumption, Zenon DEF Init
<1>4. MapInv
  BY <1>1, <1>2, <1>3, Zenon DEF MapInv, Exists
<1>5. Functions
  BY Zenon DEF Init, Functions
<1>6. ASSUME NEW s \in Session PROVE SessionInv(s)
  BY <1>6, Infos, Zenon DEF Init, SessionInv, Settled, Follows, NoInfo
<1>7. QED
  BY <1>4, <1>5, <1>6, Zenon DEF ShardInv

\* The invariant holds throughout.
LEMMA SpecShardInv == Spec => []ShardInv
BY InitShardInv, NextShardInv, PTL DEF Spec

\* No statement whose shard was looked up is dispatched to a shard that does not
\* exist (GetWorkerPool), unless the session was led astray.
THEOREM DispatchedInRange == Spec => []InRange
<1>1. ShardInv => InRange
  BY Zenon DEF ShardInv, SessionInv, Settled, InRange
<1>2. QED
  BY <1>1, SpecShardInv, PTL
=============================================================================
